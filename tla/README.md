# Verification of sp_modbus

TLA+ models of the ModBus master in `src/source`: the request/response
exchange of the library, the bytes of its frames, the TCP connection under it,
I/O by name, the rule set, the demo with its three threads and its prompts, and
the command trie. TLC checks small instances of every module; TLAPS proves the
central results for all values of the constants.

Paths below are relative to `src/source`.

## 1. The system

| component | source | state | operations |
|---|---|---|---|
| exchange | `src/sp_mb.c` | the context's `mb_info`, the callers' `MB_INFO_T` | `sp_mb_send`, `sp_mb_recv`, status |
| TCP framing | `src/ModBus/mb_tcp.c` | `mbap_head[MB_TX].transaction_code` | `mbap_head_encap`, `mbap_head_decap_check`, `mb_tcp_send`, `mb_tcp_recv` |
| TCP connection | `src/ModBus/mb_tcp.c` | `mb_tcp_desc->socket` and the kernel's descriptors | `tcp_connect`, `tcp_re_connect`, `tcp_send`, `tcp_recv` |
| RTU framing, serial line | `src/ModBus/mb_rtu.c` | receive buffer of the line | address and CRC checks (`crc_calc`), `com_send`, `com_recv` |
| PDU codec | `src/ModBus/mb_common.c` | data cache with read and write offsets | `mb_data_encap`, `mb_data_decap` |
| I/O by name | `src/sp_mb.c`, `mb_io.conf` | `mb_ioconf`, read at start | `sp_io_config`, `sp_mbio_get`, `sp_mbio_set` |
| rule set | `rule/mask_rule.c`, `rule/list.h` | node pool, id list, eight priority lists, effect marks | add, del, get, filter, match |
| threads | `main.c` | `resource.lock`, `stay`, `rely`, `running` | `resc_init`, `work`, `stay_connected_routine`, `io_rely_routine`, `signal_handle`, `resc_uinit` |
| rules on coils | `main.c` (`io_rely_handle`) | two local records | read coils, write coils |
| rule commands | `main.c` (`command_rule_handle`) | local `argv`, `node` | add, get, del, del all |
| io commands | `main.c` (`command_io_handle`) | local `argv` | get in, get out, set |
| trie, stack | `cli/` | a tree, a stack per walk | insert, find, four walks |

How they meet. All three threads call `sp_mb_send` and then `sp_mb_recv` on
one context under `resource.lock`; nothing in the library locks. The rule
thread polls the coils, hands what it read to `mask_rule_macth`, and this calls
`io_rely_handle` back for every rule that applies, which makes two more
exchanges under the same lock. The operator's commands write the mode flags
and change the rule set without it. `sp_mb_recv` copies the context's record
over the caller's whatever happened, and the keep-alive and rule threads send
that record again in the next round. The io session turns an index into
a register by the configuration read at start and makes its exchange under the
lock as well. `cli/` is built by no Makefile and called by nothing.

What is hard. Three threads on one transaction code; replies that are late,
lost, cut or damaged; a record that outlives its exchange; a connection that
is replaced under a call which already holds its descriptor; a rule set that
changes under a pass; marks of a failed pass met by the next one; bytes that
hold ids and counters which are 16 bits wide elsewhere. On the byte level: two
byte orders, a cache that drops what does not fit, a checksum verified after
decoding. At the prompts: words of an earlier line behind those of a shorter
one. `PROJECT.json` lists
each hazard at its line, with the properties that watch it.

What makes each part correct. Exchange: one at a time, the answer belongs to
the question, "success" means done, the lock comes back
once the connection is no longer dropped. Connection: no
descriptor leaks, none is used that is not the connection's, calls return, the
link comes back. Rule set: the two kinds of lists agree with each other and
with the counters, a pass makes the calls that priority and age select, and it
ends, unless a removal has led it off its list. Demo: a pass leaves the coils as the rules say and touches no others, and
nothing is freed under a thread. Prompts: a line means what it says. Codec: a
request is understood as asked or not at all, and a record takes only what the
reply says. Trie: what was inserted, and only that, is found and listed.

## 2. Modules

| module | models | extends / uses |
|---|---|---|
| `SpMb` | exchange, both framings, threads, slave and line | |
| `MbMaster` | what a master promises its caller (abstract) | instantiated by `SpMb` |
| `SpMbProofs` | types, exclusion, answers, failures, RTU replies, the pollers' records and the refinement of `MbMaster` proved | `SpMb` |
| `MbCodec` | frames byte by byte: PDU, header, checksum, cache | |
| `FoldProofs` | least elements and folds, for the two below | |
| `CodecProofs` | requests, whole and cut replies proved | `MbCodec`, `FoldProofs` |
| `TcpLink` | the connection at the level of descriptors | |
| `TcpLinkProofs` | the connection's descriptor proved | `TcpLink` |
| `RuleSet` | what the rule set promises the operator (abstract) | instantiated by `MaskRule`, `Shell` |
| `MaskRule` | the rule set's lists, its commands and a pass over it | |
| `MaskRuleProofs` | lists, pool and links, what a pass calls and the refinement of `RuleSet` proved | `MaskRule` |
| `Demo` | main, keep-alive and rule thread on a device's coils | `MaskRule` |
| `DemoProofs` | threads, callbacks and coils proved | `Demo`, `MaskRuleProofs` |
| `MbIo` | the configuration file, reads and writes by index | |
| `Shell` | rule and io session: lines, `argv`, commands | `MbIo`, `RuleSet` |
| `ShellProofs` | settings, calls, lines and their rules proved | `Shell` |
| `SpStack`, `Trie` | `cli/` | `Trie` extends `SpStack` |
| `TrieProofs` | tree, search, stack and walks proved | `Trie`, `FoldProofs` |
| `MCSpMb`, `MCCodec`, `MCMaskRule`, `MCDemo`, `MCShell`, `MCTrie` | small instances | |

Each level hides what the one below shows. `SpMb` treats PDUs as records,
justified by `MbCodec`; `Demo` and `MbIo` treat an exchange as one step that ends
done, with an exception or failed, justified by `SpMb` and its refinement of
`MbMaster`; `Shell` treats the rule set as a set, justified by `MaskRule`'s
refinement of `RuleSet`.

Operators marked `Fault` in these modules are faulty variants of the operator
that follows them. No specification uses them; put in its place, each makes a
property fail, which shows that the property depends on that piece of code.

### SpMb

A frame is a record: its MBAP code, the PDU fields the master acts on, and the
ghost `id`, the number of the request it belongs to. `Encap`, `Decap` and
`Sendable` are `mb_data_encap`, `mb_data_decap` and the switch of
`sp_mbctx_info_updata` at that level: `Decap` overwrites exactly the fields
that the code overwrites. `HeaderOk` is the comparison of
`mbap_head_decap_check`; protocol and unit are equal in all frames of one
slave and are left out. `CrcOk` is the RTU check, whose result is "one intact
frame, alone": the checksum is read where the first PDU ends and computed
over everything received. `Accept` and `RecvRejects` read everything that has
arrived and look only at its start, as both receive functions do.

A thread's round is `Acquire..`, an exchange, `Release`. `SendRequest` and
`SendFails` are the two outcomes of `sp_mb_send` (the context and the
transaction code change in both), `RecvFails`, `RecvRejects`, `RecvEnds` those of
`sp_mb_recv`; each of the last three copies the context's record back.
`conn` is the TCP connection as the other side leaves it: `ConnectionLost` drops it
with everything in it, and a receive that meets this makes another one and goes on
waiting (`RecvReconnects`), its time starting anew, as in the loop of `tcp_recv`. How a
connection is made is in `TcpLink`.
`RecvThenGet` and `RecvThenSet` are the accepted reply after which
`io_rely_handle` goes on; which rules apply is left to `MaskRule`, so any number
up to `MaxRules` may. The slave and the line are the environment: they answer, refuse, lose,
delay, cut (`Split`), damage (`NoiseCodes`) and drop the connection.

One assumption about the environment is in the guard of `Numbered`
(`WindowHolds`): no frame survives while the transaction code goes once round.
With 65536 codes and a reply window of three seconds this is safe; without it
no check on a 16-bit number could be right.

`MbMaster` is the contract: one request at a time, "ok" only for a request that
has been executed, and a request that failed may still be executed later.
`SpMb` implements it over TCP (run `tcp_contract`) with `issued <- sends`,
`waiting` = some thread is receiving, `answer` from what was accepted.

### MaskRule

`rs` is the `MASK_RULE_T`: the id list with all nodes, a list per priority, the
two `last_node` pointers, `rule_num`, `rule_cnt`, `rule_id`, and what a deleted
node's own `next` still says (`oldNext`), because `list_del` does not clear it.
`Added`, `Deleted`, `Found`, `Fitler`, `Applies` are the functions of
`mask_rule.c`; `Deleted` keeps the index of the code, which is one list too far.
A pass (`Match`, `AtHead`, `Visit`, `VisitInvalid`, `CallbackOk`, `CallbackFails`) goes node by node with the cursor
and the saved next node of `list_for_each_entry_safe`, and the callback is a
step of its own that may fail. With `Concurrent` rules change between these
steps, as the unlocked commands allow; each command is one step, and "del all" one
for every id that a rule has (`DelAll`, `DelNext`, with `sweep` the next id), so data races
inside a list operation are not modelled, and a cursor that reaches the head of
a list it is not on makes the pass "wild", with nothing said about what follows: the
loop ends at its own head only, so the code takes the other one for a rule and may go on for ever.
A wild pass has not returned: it is not `Quiet`, and no other begins.
`during` records what was done to the rules since the pass began.

`RuleSet` is the set the operator sees: contents by id, capacity, the refusals,
and deletion by an id cut to a byte. `MaskRule` implements it (run `rules`) with
`rules <- Listed`, the contents of the nodes in use, and `last <- rule_id`; passes
are stutters.

### Demo

`Demo` composes `MaskRule` with its surroundings. `main` goes through `resc_init`
(thread creation that fails goes unnoticed, as in the code), the work loop, the
two joins and the freeing; the operator's commands are steps at its prompt.
`RuleCommand` is the rule session, without the lock; `SetCoil` is a whole exchange
with it. The rule thread's round is `Acquire`, a poll (`PollDone`,
`PollException`, `PollFails`), the pass, and `PassOver`; for every rule that the pass
selects `ReadCoils` and `WriteCoils` are the two exchanges of `io_rely_handle`, which
reads its rule through the node pointer only after the first one. An exception
is an answer to both: nothing read then means all off. `clean` and `during` are
ghosts by which the properties say when the result is claimed. A pass led
astray ends in `crashed`.

### Shell and MbIo

A line of the configuration is a key and a value or only a key; `key1` is
`key[1]` of `sp_io_config`, which survives from line to line. `IoGet` and `IoSet`
refuse an index out of range, add the start address in 16 bits, and take an
exception for an answer.

A line at a prompt is a sequence of words, keywords or numbers. `Stored` is what
`strtok` and `snprintf` leave in `argv`: the line's words over the first of the old
ones. `RuleCommandOf` and `IoCommandOf` read `argv` as the handlers do, `Taken` walking
through the five keys of `add` with an index that runs on behind the line. Then
come the checks, the cut of priority and id to a byte, and the command on
`RuleSet` or `MbIo`. A failed add and a get that finds nothing end the session.

### MbCodec

One exchange, byte by byte, on a host of either byte order. `Encap` and `Decap` are
the two functions with `MBDATA_*_SET` and `MBDATA_*_GET`, which do nothing once the
cache or the data ends; `NetWord` and `LowFirst` are the two endian macros on what
`is_big_endian` returns; `Crc` is the bitwise calculation on the set of a word's
bits. `Understood` is the external slave, written from the ModBus PDU layout that
the code addresses; it stays silent at what it cannot read. The reply then
arrives whole, cut, doubled, or (serial) with one byte changed.

### SpStack and Trie

`SpStack` is `cli/stack.c` with pointers as positions. `Trie` takes an insertion
word by word, with `malloc` failing at any of them, and a walk one loop turn at
a time, with callbacks that may end it. `trie.c` calls the stack by the names
`dapp_*` while `stack.c` defines `sp_*`; they are taken for the same. Where an
array would be overrun the model ends in phase "overrun".

### TcpLink

Descriptors with the lowest free one given out by `socket()`, the shared
`desc`, and the local copy `held` that `tcp_send` and `tcp_recv` take before
`tcp_re_connect` may replace it. `CheckClosed`, `CheckAlive`, `CheckDead` are the
outcomes of `getsockopt`; the loop of `tcp_re_connect` is `Close` and
`ConnectOk` or `ConnectFails`, counted by `tries`. No other part of the demo opens or closes descriptors
while it runs, so `Others` is constant.

## 3. Runs

| run | question | result |
|---|---|---|
| `tcp_safety` | are exchanges exclusive, answers (and pieces of answers) the right ones, failed receives harmless, pollers only polling? | holds |
| `tcp_contract` | with whole replies: is the abstract master implemented, and does every round give the lock back once the connection is left alone? | holds |
| `rtu_safety` | until a receive gives up: are accepted replies the right ones, and does only a damaged frame change what the pollers ask for? | holds |
| `link_calls` | is there one socket, is it the one in use, and do calls return once the server settles? | holds |
| `codec` | are requests understood as asked or not at all, and replies taken as they are, whatever is cut or damaged? | holds |
| `rules` | do lists and passes stay right under any sequence of commands and failures, also concurrent ones, do passes end but for removals, and do lists implement the set? | holds |
| `demo` | does a clean pass leave the coils as the rules say, does a callback touch only its outputs, does the demo end in order? | holds |
| `shell` | do complete lines mean what they say, and only sensible rules and configured coils get through? | holds |
| `trie` | is exactly what was inserted found and shown, with a stack that suffices? | holds |
| `tcp_exception` | can the pollers go on after an exception? | violated |
| `link_given_up` | does a server that is back get its connection? | violated |
| `shell_stale` | does a line of the help text stand alone? | violated |

What each property says stands above its definition.

### Bounds

- `TransMod` is 3 in `tcp_safety` with `MaxSends` 4, so that codes wrap and are
  used again within a behaviour; 4 elsewhere over TCP, 1 over RTU, which has no
  code. The proofs do not bound it.
- `MaxSends` (3 or 4) leaves room for one rule (a poll, a read and a write) and,
  with 4, a request of another thread before it. Counterexamples need 2.
- `Split` is on in `tcp_safety` and off in `tcp_contract`, where success is at
  stake and a cut reply spoils it (see below).
- `Values` {0, 1}: clear and not clear. `Errs`: one exception code. `WorkInfos`: a
  single write; in `tcp_contract` also a read and a code the library refuses.
  `NoiseCodes`: a damaged code can be a write, an exception or unused.
- `MaxRules` 1: a second rule repeats the same two exchanges.
- `rules`: three nodes, priorities 0 to 2 on three lists (as with eight in the
  code, the default rank is the last but one and the last list stays empty),
  four additions, so that a node is used again after deletions; contents that
  agree, clash in a chain of three, need an input down and are refused; one input state,
  under which every condition holds (`demo` has those that come and go); `ArgMod` 4, so that an id and
  its byte differ. `NumMod` is 256 as in the code.
- `demo`: two nodes, two coils, two additions; two rules of different rank that
  clash, one of which takes its own condition away. Two rules are what it takes
  for one callback to read what another wrote.
- `shell`: `Cap` 2 and three additions, so that "del all" meets an id it does not
  reach; `argv` of 12 words (128 in the code), one more than the longest line. The proofs
  hold for any `Width` of at least 12 that no line exceeds; a command has 128 bytes, so no
  line has more than 64 words. Lines of each
  command, complete and cut short; numbers that clash, that a byte cuts (257)
  and that are refused. `RegMod` 16, so that a start address can wrap. `Garbage`:
  blank, a keyword, a number.
- `codec`: byte counts go round at 4 and `value` has 16 bytes, so that, as with 256
  and 2000, the largest count stands for more coils than the value has; caches
  of 9 bytes (over TCP nothing fits, over RTU no multiple write), 12 (over TCP no
  multiple write) and 32.
  Unit 300 is an address of more than a byte, which only the serial link can be given.
  Requests of every code with counts below, at and above the limits;
  transaction codes at which the bytes differ and at which they wrap. All
  positions of a cut and of a damaged byte.
- `trie`: up to three insertions out of ten patterns, `MaxChild` 2 and `MaxDepth` 4,
  both of which a pattern reaches.
- `TcpLink`: four descriptors, two in other use, attempts limited to 3 (10 in
  the code); nothing depends on the number. 160 states.

### Fairness

`SpMb!FairSpec`: weak fairness of each thread's steps once it holds the lock:
its `select` has a timeout and it is scheduled. That does not end a receive: its step
may be `RecvReconnects`, as often as the connection is dropped. `LockComesBackOnceSettled`
therefore has the hypothesis `Settles`, that at some time it is dropped no more; without it
TLC finds the loop. `Acquire..` is not fair, since a
mutex promises nothing about who is next, and neither are slave, line and operator.
`MaskRule!FairSpec`: weak fairness of a pass that has begun, so its callbacks return, which
is up to the exchanges they make. `MaxAdds` bounds the additions under it. `PassEndsUnlessLost` claims
nothing once a removal has led the pass to another list's head.
`Demo!DemoFairSpec`: weak fairness of the three threads as the scheduler gives it, for
exchanges that return (`LockComesBackOnceSettled`);
that the operator types is not assumed. `DemoEnds` therefore starts where the
work loop has seen the flag. No thread is promised the lock against the others:
the end does not depend on it, because the operator no longer takes it and the
remaining threads leave their loops.
`Trie!FairSpec`: weak fairness of a walk's turns; it is one thread's loop.
`TcpLink!FairSpec`: weak fairness of the calls' steps and of making calls (the
keep-alive thread does, every second), and strong fairness of `ConnectOk`: an
attempt that is made again and again while the server serves succeeds at some
point. `Settles` (the server no longer drops connections) is a hypothesis of
the properties that need it, not part of the specification.

### What the violations show

1. `tcp_exception`: the exception's code stays in the poller's record, which
   cannot be sent any more.
2. `link_given_up`: after the last attempt the descriptor is closed and every
   later call fails before it would connect.
3. `shell_stale`: `add imask.up 0xff omask.down 0xff`, a line of the help, takes the
   priority that stood behind these places of an earlier line.

### Limits of what holds

Each of these bounds a property above; TLC finds the counterexample when the
restriction is lifted.

- The MBAP length is never compared with what arrived: an exception reply cut
  after its header counts as success. `MasterSpec`, and with it the
  `SuccessMeansExecuted` it implies, fails with `Split`; `CutMixesOnlyOwn` says what
  remains.
- Over RTU a late reply is anybody's. The late one to the operator's write turns
  the keep-alive's record into this write, which is then repeated every second:
  `PollersOnlyPoll` fails with `Transport = "rtu"`, hence `OwnReplyUnlessLate`.
- Over RTU a frame is decoded before its checksum is looked at. A damaged reply is
  rejected, but its code stays in the record: with the code of a write the keep-alive's
  poll has become this write, sent every second. `OnlyDamageChangesPolls` says that this, and
  a late reply, are the only ways. That damage is noticed is for the bytes of
  `MbCodec` to show (`DamagedIsRefused`); here `CrcOk` takes it for granted.
- A rule deleted under a pass, without the lock, leads it to a free node (the
  pass fails) or off its list, so `PassSurvivesRemoval` fails; there it may go on for
  ever with the lock held, so a pass ends only by `PassEndsUnlessLost`. Additions do
  neither (`PassSurvivesAdditions`).
- A server that accepts and drops connections for ever keeps `tcp_recv` in its
  loop with the lock held, as reconnections there are not counted:
  `CallReturnsOnceSettled` and `LockComesBackOnceSettled` need their hypothesis, and `DemoEnds`
  its assumption that exchanges return.
- An exception to the coil read of `io_rely_handle` switches all sixteen coils off;
  one to a poll runs the pass on the poll before (`clean` excludes both). One to
  `sp_mbio_get` is reported as "off".
- "del all" tries as many ids as the set has places while ids go on growing;
  "del [id]" cuts the id to a byte.
- On big-endian hosts every TCP reply is refused, unless the transaction code
  reads the same both ways, since the received code is compared unswapped. `is_big_endian`
  (`mb_common.c`) answers 1 on little-endian hosts, contrary to its name; its
  users are consistent with that.
- A slave address above 255 can be configured, but only its low byte is sent
  (`mb_rtu_send`): another slave hears the request and its reply is refused.
  `UnderstoodOrNotAtAll` promises nothing then.
- The values of single writes (05, 06) leave low byte first: a register value
  typed at the menu arrives with its bytes exchanged.
- When the transaction code has wrapped to 0 and the unit code is 0, a receive
  that got nothing passes the header check on the cleared cache.
- The empty pattern can be inserted in the trie and is found, but no walk lists it.

Smaller ones, which a sequential test shows and no property mentions:
`mask_rule_del` takes `rule_num` off the wrong list (nothing reads it); the help's
line `imask.dwon` (`main.c:449`) is misspelt, and its masks contradict each other; a
line of blanks at a prompt repeats the previous command; an id or index of
65536 and more is cut; a configuration line with several "=" overruns `key[2]`.

## 4. Proofs

All are checked by `tlapm` to the last leaf from the named assumptions
`SpMbAssumption`, `MbCodecAssumption`, `TcpLinkAssumption`, `MaskRuleAssumption`,
`MbIoAssumption`, `ShellAssumption` and `TrieAssumption` on the constants, which TLC evaluates
in the runs of their modules. They hold for any number of codes, registers, descriptors, nodes and
priorities, any widths, lines, patterns, requests, data and cache sizes. Three
further hypotheses stand in the theorems that need them:

- `Transport = "tcp"`, where a result is only true with transaction codes;
- `Whole`: TCP, and replies that arrive in one piece;
- `NoWrap`: `MaxAdds < IdMod`. With 16-bit ids this is fewer than 65536 additions;
  after the wrap the order of ids is no longer the order of age, and the
  results that name it are false.

### Exchange (`SpMbProofs`)

- `TypeCorrect`: `Spec => []TypeOK` for `SpMb`. The lemmas `DecapType`,
  `EncapType`, `PduType`, `NextTxValue` say what the operators return; then one
  lemma per group of actions.
- `Exclusion`: `Spec => []OneExchange`. `OneExchange` is inductive together with
  `TypeOK`: a thread leaves "idle" only when the lock was free, hence no other
  thread was away from "idle".
- `ReplyMatches`: over TCP `Spec => []ReplyIsForRequest`. The property alone is
  not inductive, as it says nothing of the frames still around. `ReplyInv`
  adds that every frame carries the code of its age: a frame of the request
  made *a* requests ago has the code *a* steps before `tx`, going round at `TransMod`, with
  *a* < `TransMod`; and that a receiving thread's request is the latest one.
  `OlderCoded` shows that one more request preserves this, wrap included, and
  `CurrentCode` that a frame with the current code has age 0. Exclusion is
  needed: without the lock another thread could have numbered a request in between.
- `FailureIsHarmless`: over TCP `Spec => FailureKeepsRecord`, an action property.
  The invariant behind it, `ContextHeld`, says that while a thread receives, the
  context still holds the record it sent, which again needs exclusion.
- `OwnReply`: `Spec => []OwnReplyUnlessLate` on both transports. RTU frames carry no
  number, so the argument is another one: `OwnInv` says that until a receive has
  given up too early, there is at most one frame anywhere, it is the latest
  request's, and there is none while nobody waits.
- `PollsStayPolls`: over TCP `Spec => []PollersOnlyPoll`. `FrameInv` follows what the
  slave makes of a request: the request somebody waits for was encoded from the
  record in the context, and every frame of a reply to it is one of the answers
  or exceptions to that encoding, or a piece of one. `AnsweredPoll` then shows that
  whatever `mb_data_decap` writes into a poll's record, it encodes to the poll again or
  can no longer be sent.
- `PollsChangeByDamage`: over RTU `Spec => OnlyDamageChangesPolls`, an action property. `LineInv`
  says that until a receive has given up every request on the line, every reply, and every undamaged
  frame received belongs to the request which the context holds; it stands on `OwnInv`, by which the line is
  empty whenever that request changes. `AnsweredSame` shows of any record, not only a poll's,
  that an answer or an exception to it leaves it asking for the same, or unsendable. What
  remains is the rejected frame, and `OwnInv` shows it to be damaged: it is alone.
- `ImplementsMaster`: `Whole => (Spec => MasterSpec)`: initial states map to initial
  states and each action to one of `MbMaster` or to a stutter. `TcpInv`, the conjunction of
  the invariants above, gives the guards of the abstract actions: "ok" is answered only for a request that has
  been executed. `SuccessIsTrue` states the consequence, `SuccessMeansExecuted`.

### Codec (`CodecProofs`)

For any size of the value and of the cache, any modulus of the byte count, any request, data, number,
address, damage and cut, both links and both byte orders. `CodecInv` is the inductive invariant; TLC finds
it to hold on the instance of the `codec` run as well.

- `CodecInvariance`: until the reply is decoded the context holds the caller's record; a frame that
  was sent is `Sound`, that is the request or no request; the reply is a frame of a reply to it (`Answered`);
  what came over TCP is its `Beginning`, or more than the reply.
- `RequestsUnderstood`: `Encap` appends the request's `Body`, cut where the cache ends
  (`EncapShape`). Each macro leaves out what does not fit, so where there is no room for five bytes
  a byte may stand in a word's place; but then there are fewer than five, which is
  no request (`Shaped`). A body cut short is
  no request (`UnderstoodCut`): its count, or its length, contradicts it. One whose
  count went round `CountMod` contradicts it as well. `Packed` and the slave's `Coils` are
  inverse (`CoilsRead`), and so are the conversions on either host (`Converted`).
- `WholeRepliesTaken`: a reply's PDU has one of four forms (`ReplyPdu`), and `Decap` reads
  each of them to its end (`WholeGot`). Over RTU that end is where the checksum is
  looked for, so it is found (`CrcGot`); over TCP the header matches but on a big-endian host (`HeadGot`).
- `CutsMixOnlyOwn`: the value's loop takes bytes until the frame ends, whatever was counted
  (`GetValuesIs`), from places that hold the reply's data (`CutValues`).
- `CacheHolds` is `TypeOK`.

The loops over bytes are folds. `FoldSteps` and `FoldExists` (`FoldProofs`) give the values a fold goes
through, from which invariants of the loop are shown for the least turn that would break them (`LeastNat`).
Of the checksum only that it is a word is used: the theorems hold for any function of the bytes in its place.

### Connection (`TcpLinkProofs`)

- `LinkInvariance`, `NoSocketLeaks`, `HeldIsCurrent`: the connection's descriptor is
  the lowest not in other use and the only socket, so the one `socket()` gives
  after `close()` is the same (`SameDescriptor`); that is why using a descriptor
  read before the reconnection is right.

### Rule set (`MaskRuleProofs`)

The steps of `MaskRule` and those of `Demo` on the rules are both steps of `RuleNext`, in
which a pass may be run for any mask; every step lemma is about `RuleNext`, so that the
demo's proofs can cite it.

- `RuleInvariance`: `RuleInv` is inductive. `Sound` relates the two kinds of lists:
  the id list has every node once (`IdListWhole`), nodes in use stand in front of it and
  `idLast` is the last of them (`UsedInFront`), what is on a priority list is in use,
  has that priority and is there once (`OnRightList`), and what is in use is on its
  list (`UsedIsListed`). Each needs the others: `FreeNode` is free only by
  `UsedInFront`, which survives a deletion because the node goes behind all others,
  which needs `IdListWhole`. `LinksSound` and `CursorSound` are about what a deletion leaves:
  the cursor and the stale `next` of a deleted node only ever lead to list heads or to nodes that are,
  or have been, on a list. Without it a cursor could be anything after two deletions.
  `TypeCorrect`, `NodesInUseComeFirst` and `RulesOnTheirLists` follow.
- `ListsStaySorted`: `IdsSound` adds that ids in use are different and at most the one given
  out last.
- `AdditionsAreSafe`: `PlacedInv` says that, unless a rule was removed, the cursor is
  at a place of its list and the saved next node behind it. Additions only extend
  lists at the end (`AddedExtends`), so both places stay.
- `OutputsDrivenOnce`: `CallsInv` says that every call has left its mark, with the same
  outputs, on a rule which the cursor has passed. `mask_rule_fitler` then sees a clash
  with it: the search goes through earlier lists whole, and within the
  list it stops only behind the rule in question, as all marks it meets before belong to older rules.
- `PassFollowsPrecedence`: `TakenInv` describes a pass half-way. `Behind` the cursor every rule is
  marked if and only if it has been called, and called if and only if precedence selects it (`Settled`);
  ahead of it marks of an earlier pass may stand, and the argument is that `mask_rule_fitler`
  reads them only after it would have stopped. The calls are in order (`InOrder`).
  It is stated for passes under which nothing changes, which is what the property claims.
- `ImplementsRuleSet`: `NoWrap => (Spec => RuleSetSpec)`. An addition adds one element
  because ids are new; the pool is full exactly when the set is (`ListedCounts`);
  a deletion removes the rule with the id because no other has it; passes and marks stutter.
  "del all" is a sequence of single deletions on both levels.

### Demo (`DemoProofs`)

- `DemoTypeCorrect`, `NothingFreedInUse`: `ThreadInv` says who can be where, that the
  lock is held exactly while the rule thread is in a round, and that what main has joined is
  over (`Joined`).
- `CallbacksKeepToTheirOutputs`: an action property. `LastCallInv` says that the node whose callback is under way
  is still the rule that was called or a deleted one without outputs, as long as nothing was added;
  `SeenIsTrue` that the coils read by `io_rely_handle` are still those of the device
  when it writes, which is the lock's doing.
- `CleanPassIsRight`: the coils are at any moment of a clean pass what was polled, driven by the rules
  called so far. Calls do not contradict each other (`CallsInv`), so the order of the
  writes does not matter; which rules they are is `PassFollowsPrecedence`.
- `DemoKeepsRules`, `DemoImplementsRuleSet`: the results about passes, lists and the
  abstract set hold of the demo as well, though the end of a round drops the pass,
  which is no step of `MaskRule`.

### Sessions (`ShellProofs`)

- `SettingsRead`, `CallsReachTheirCoil`: with `SessionInv` (configuration is over before the
  menu is there; `argv` holds words). A setting changes with its own lines only,
  and a call's register is checked against the configuration it was computed from, which stays.
- `RulesAreSensible`: `TakenType` says what the five keys of "add" can take from any `argv`; the cut to a
  byte and the checks do the rest.
- `DelAllLeavesNone`: `NoWrap => (ShellSpec => DelAllEmpties)`. Ids in use are among those given out (`IdsGiven`), and up to `Cap`
  a byte holds them.
- `CompleteLinesStandAlone`: `ShellSpec => LinesStandAlone`. `TakenSame`: the index of "add" never runs past
  a line that ends with "prio" and a number, since no key is a number and only the last key is
  "prio"; so nothing behind the line is read. `FreshSession`: before its first line a rule session has
  an empty `argv`.

### Trie (`TrieProofs`)

For any patterns over any words, any `MaxChild` and `MaxDepth`. The invariant is
`Inv`, "there is a path to every node such that `TrieInv`"; each part of it was checked by TLC on
the `trie` instance with the paths computed; the existential itself cannot be enumerated.

- `Insertions`: the nodes are a tree whose edges are words, the witness gives each node its way from the root,
  different nodes have different ways, and the inserted patterns are the ways to the
  nodes that end one (`Ends`). An insertion that fails half-way leaves nodes that end nothing.
- `PatternsFound`: `Spec => []FoundIffInserted`. The search follows the
  pattern's words, and a node's way is the only one to it (`FoundIsEnd`).
- `StackSuffices`: `Spec => []StackHoldsWalk`. The nodes on the stack are different and none has been
  visited, as the root has been; so there are at most `total`, which is the stack's size.
- `WalksComplete`: `Spec => []WalksShowAll`. `Walked` says what a walk half-way has
  done: for the walks that pop, what was visited and what is on the stack are apart, and a
  child is visited or on the stack exactly when its parent is visited (`Visits`); for `trie_path_list`, the
  words in the list are the way to the node at hand (`ListOK`), and nodes whose subtrees are done have been
  listed (`Listed`). When the stack is empty nothing is left.

Where a property of every pattern or every node would need induction, a least counterexample is
refuted instead (`LeastNat`, which the library's well-founded orders give).

### Only model-checked

- Liveness (`LockComesBackOnceSettled`, `CallReturnsOnceSettled`, `PassEndsUnlessLost`, `DemoEnds`, `WalksEnd`): temporal
  reasoning with fairness and ENABLED is out of the prover's reach.
- `DamagedIsRefused` (`MbCodec`): that no damaged frame has the checksum of another one is a property of
  the CRC and of single damaged bytes, checked for the frames of the run; for all frames and all damage it
  would be false, since a checksum is only 16 bits wide.
- What the fault operators break, and the three violations.

## 5. Not modelled

- The coils of an exchange in `SpMb`, where a value is clear or not; receives are
  split into at most two segments; the quiet time is the choice of when a
  receive takes what there is.
- What undefined behaviour does: a walk off a list, an overrun array, a value
  read behind its end. The models end there.
- Creation and closing of contexts, addresses and socket options, termios
  settings, option parsing, display, the prompts' wording, line lengths and the
  end of the input (at which the prompt loops do not end, `main.c:462`): input and
  output without state of its own, or errors at start that end the program.
- Blanks and comments inside configuration lines.
- The stand-alone `rule/main.c`, which calls `MaskRule`'s operations one after the
  other.

## 6. What is left

All modules of the plan are there, and every safety and action property of the runs but
`DamagedIsRefused` is proved.

1. `DamagedIsRefused` for one damaged byte that leaves code and count alone, for any frame: a step of the
   CRC is linear over the bits and loses none, so such a byte always shows. Damage to the code or the count
   moves the place where the checksum is looked for, and there luck decides.
2. Liveness stays with TLC.
3. `Demo` with more than one exchange per step, so that the keep-alive's use of the
   context would be in the same model as the rules.
