-------------------------------- MODULE Demo --------------------------------
(***************************************************************************)
(* The demo of main.c as a whole: the rule thread reads the coils, runs a  *)
(* pass of MaskRule over them and carries the chosen rules out on the      *)
(* device, while the keep-alive thread takes the lock in turn, the         *)
(* operator changes coils under the lock and rules without it, and SIGINT  *)
(* or "exit" ends everything. An exchange is one step here and ends as     *)
(* MbMaster lets it: done, answered by an exception, or failed; SpMb says  *)
(* how it gets there.                                                      *)
(* Operators marked "Fault" are faulty variants of the ones after them;    *)
(* the specification does not use them.                                    *)
(***************************************************************************)
EXTENDS MaskRule

VARIABLES
  main,    \* where the main thread is
  pc,      \* where the other two are
  lock,    \* owner of resource.lock
  running, \* resource.running
  coils,   \* the coils of the device that are on
  polled,  \* the rule thread's MB_INFO_T: what it read last, if it can be sent
  seen,    \* io_rely_handle: the coils it has read
  clean    \* ghost: every exchange of this pass has been done

ruleVars   == <<rs, sweep, pass, calls, during>>
deviceVars == <<coils, polled, seen, clean>>
demoVars   == <<main, pc, lock, running, deviceVars>>
allVars    == <<ruleVars, demoVars>>

Others == {"stay", "rely"}
Nobody == "none"

\* Nothing read: n_byte is 0.
Unread == [known |-> FALSE, on |-> {}]
Read(c) == [known |-> TRUE, on |-> c]

\* main has made the context and the rule set.
DemoInit ==
  /\ Init
  /\ main = "create_stay"
  /\ pc = [t \in Others |-> "none"]
  /\ lock = Nobody
  /\ running = TRUE
  /\ coils = {}
  /\ polled = [sendable |-> TRUE, on |-> {}]
  /\ seen = Unread
  /\ clean = TRUE

Alive == main \notin {"exited", "crashed"}
LockFree == lock = Nobody
Goto(t, where) == pc' = [pc EXCEPT ![t] = where]
-----------------------------------------------------------------------------
(* The main thread: resc_init, work, resc_uinit and what follows.           *)

\* pthread_create reports errors as positive numbers, which "0 >" does not
\* see: without its thread the program goes on all the same.
Create(t, here, next) ==
  /\ main = here /\ main' = next
  /\ \E where \in {"loop", "never"} : Goto(t, where)
  /\ UNCHANGED <<ruleVars, lock, running, deviceVars>>

\* The work loop looks at the flag between commands only.
WorkGoesOn ==
  /\ main = "check"
  /\ main' = IF running THEN "prompt" ELSE "join_stay"

\* Joining waits for the thread; joining one that never was is undefined.
Join(t, here, next) ==
  /\ main = here
  /\ \/ pc[t] = "ended" /\ main' = next
     \/ pc[t] = "never" /\ main' \in {next, "crashed"}

\* Fault: only the first thread is joined.
JoinRelyAtOnce == main = "join_rely" /\ main' = "free_rules"
JoinRely == Join("rely", "join_rely", "free_rules")

\* mask_rule_exit and sp_mb_close.
FreeRules == main = "free_rules" /\ main' = "close"
CloseContext == main = "close" /\ main' = "exited"

MainStep ==
  \/ Create("stay", "create_stay", "create_rely")
  \/ Create("rely", "create_rely", "check")
  \/ /\ WorkGoesOn \/ Join("stay", "join_stay", "join_rely") \/ JoinRely
        \/ FreeRules \/ CloseContext
     /\ UNCHANGED <<ruleVars, pc, lock, running, deviceVars>>
-----------------------------------------------------------------------------
(* The operator, at a prompt of the menu or of the rule session. What the   *)
(* work loop sees of the latter is that it comes back.                      *)

\* "del all" comes back to its prompt when it is through.
AtPrompt == main = "prompt" /\ sweep = 0

\* A session left, "stay" and "rely" (see Acquire), and what is no command.
OtherCommand ==
  /\ AtPrompt /\ main' = "check"
  /\ UNCHANGED <<ruleVars, pc, lock, running, deviceVars>>

ExitCommand ==
  /\ AtPrompt /\ main' = "check"
  /\ running' = FALSE
  /\ UNCHANGED <<ruleVars, pc, lock, deviceVars>>

RuleCommand ==
  /\ main = "prompt"
  /\ Add \/ (\E id \in 1..MaxAdds : Del(id)) \/ DelAll \/ DelNext
  /\ UNCHANGED demoVars

\* Fault: the request does not wait for the lock.
SetCoilUnlocked ==
  /\ AtPrompt /\ main' = "check"
  /\ \E b \in Bits : coils' \in {coils \union {b}, coils \ {b}}
  /\ UNCHANGED <<ruleVars, pc, lock, running, polled, seen, clean>>

\* A coil written from the menu, or by the io session's "set": a whole
\* exchange under the lock.
SetCoil ==
  /\ AtPrompt /\ main' = "check" /\ LockFree
  /\ \E b \in Bits : coils' \in {coils \union {b}, coils \ {b}}
  /\ UNCHANGED <<ruleVars, pc, lock, running, polled, seen, clean>>

\* signal_handle. What main waits for at a prompt is not interrupted.
Sigint ==
  /\ Alive /\ running
  /\ running' = FALSE
  /\ UNCHANGED <<ruleVars, main, pc, lock, deviceVars>>

Operator ==
  \/ OtherCommand \/ ExitCommand \/ RuleCommand \/ SetCoil \/ Sigint
-----------------------------------------------------------------------------
(* The two loops of resc_init's threads.                                    *)

\* Fault: the thread does not look at the flag.
LoopForever(t) ==
  /\ pc[t] = "loop" /\ Goto(t, "asleep")
  /\ UNCHANGED <<ruleVars, main, lock, running, deviceVars>>

Loop(t) ==
  /\ pc[t] = "loop" /\ Goto(t, IF running THEN "asleep" ELSE "ended")
  /\ UNCHANGED <<ruleVars, main, lock, running, deviceVars>>

\* The keep-alive's exchange reads coils and does nothing with them: its
\* round is one step.
StayRound ==
  /\ pc["stay"] = "asleep" /\ LockFree /\ Goto("stay", "loop")
  /\ UNCHANGED <<ruleVars, main, lock, running, deviceVars>>

StayStep == Loop("stay") \/ StayRound
-----------------------------------------------------------------------------
(* The rule thread's round.                                                 *)

\* The operator may have switched the "rely" mode on or off.
Acquire ==
  /\ pc["rely"] = "asleep" /\ LockFree
  /\ \/ lock' = "rely" /\ Goto("rely", "poll")
     \/ lock' = lock /\ Goto("rely", "loop")
  /\ UNCHANGED <<ruleVars, main, running, deviceVars>>

\* Fault: an early exit of a round keeps the lock.
ReleaseForgotten == lock' = lock /\ Goto("rely", "loop")
Release == lock' = Nobody /\ Goto("rely", "loop")

\* mask_rule_macth begins, unless there are no rules.
BeginPass(m) ==
  IF rs.rule_cnt = 0 THEN Release /\ UNCHANGED ruleVars
  ELSE MatchMask(m) /\ Goto("rely", "pass") /\ lock' = lock

PollDone ==
  /\ pc["rely"] = "poll" /\ polled.sendable
  /\ polled' = [polled EXCEPT !.on = coils]
  /\ clean' = TRUE
  /\ BeginPass(coils)
  /\ UNCHANGED <<main, running, coils, seen>>

\* An exception is an answer: the pass runs on what the poll before it read,
\* and the record keeps a code that cannot be sent.
PollException ==
  /\ pc["rely"] = "poll" /\ polled.sendable
  /\ polled' = [sendable |-> FALSE, on |-> {}]
  /\ clean' = (rs.rule_cnt = 0)
  /\ BeginPass(polled.on)
  /\ UNCHANGED <<main, running, coils, seen>>

\* Refused by the library, not sent, or not answered in time.
PollFails ==
  /\ pc["rely"] = "poll" /\ Release
  /\ UNCHANGED <<ruleVars, main, running, deviceVars>>

InPass == pc["rely"] = "pass"

PassGoesOn == InPass /\ PassStep /\ UNCHANGED demoVars

\* io_rely_handle, first exchange.
ReadCoils ==
  /\ InPass /\ pass.status = "callback"
  /\ \/ seen' = Read(coils) /\ clean' = clean
     \/ seen' = Unread /\ clean' = FALSE
  /\ Goto("rely", "write")
  /\ UNCHANGED <<ruleVars, main, lock, running, coils, polled>>

\* Fault: "down" is taken for the coils that stay on.
OutputSwapped(s, omask) == IF s.known THEN (s.on \union omask.up) \intersect omask.down ELSE {}

\* What it makes of them: nothing read is all off.
Output(s, omask) == IF s.known THEN (s.on \union omask.up) \ omask.down ELSE {}

\* The rule is read through a pointer: it is what the node holds by now.
RuleNow == rs.node[pass.pos]

\* io_rely_handle, second exchange: done, or refused by the slave, which is
\* an answer too.
WriteCoils ==
  /\ pc["rely"] = "write" /\ CallbackOk
  /\ \/ coils' = Output(seen, RuleNow.omask) /\ clean' = clean
     \/ coils' = coils /\ clean' = FALSE
  /\ Goto("rely", "pass")
  /\ seen' = Unread
  /\ UNCHANGED <<main, lock, running, polled>>

\* Either exchange fails. Assumption: the device carries out requests in
\* their order, so one that failed is done now or not at all.
CallbackGivesUp ==
  /\ CallbackFails
  /\ \/ InPass /\ coils' = coils
     \/ pc["rely"] = "write" /\ coils' \in {coils, Output(seen, RuleNow.omask)}
  /\ clean' = FALSE
  /\ Goto("rely", "pass")
  /\ seen' = Unread
  /\ UNCHANGED <<main, lock, running, polled>>

\* A pass that has left its list reads what is no rule: undefined.
Astray ==
  /\ InPass /\ pass.status = "wild"
  /\ main' = "crashed"
  /\ UNCHANGED <<ruleVars, pc, lock, running, deviceVars>>

\* The pass is over, whatever it returns, and its local variables are gone.
PassOver ==
  /\ InPass /\ Quiet
  /\ Release
  /\ pass' = NoPass /\ calls' = <<>> /\ during' = {}
  /\ clean' = TRUE
  /\ UNCHANGED <<rs, sweep, main, running, coils, polled, seen>>

RelyStep ==
  \/ Loop("rely") \/ Acquire
  \/ PollDone \/ PollException \/ PollFails
  \/ PassGoesOn \/ ReadCoils \/ WriteCoils \/ CallbackGivesUp
  \/ Astray \/ PassOver

DemoNext == Alive /\ (MainStep \/ Operator \/ StayStep \/ RelyStep)

DemoSpec == DemoInit /\ [][DemoNext]_allVars

\* The three threads are scheduled and their exchanges return, which SpMb's
\* LockComesBackOnceSettled says of them; nobody promises that the operator
\* types.
DemoFairSpec ==
  /\ DemoSpec
  /\ WF_allVars(Alive /\ MainStep)
  /\ WF_allVars(Alive /\ StayStep)
  /\ WF_allVars(Alive /\ RelyStep)
-----------------------------------------------------------------------------
(* Properties.                                                             *)

\* Threads are where their code can be, and whoever is in a round has the
\* lock.
DemoTypeOK ==
  /\ main \in {"create_stay", "create_rely", "check", "prompt",
               "join_stay", "join_rely", "free_rules", "close", "exited", "crashed"}
  /\ pc["stay"] \in {"none", "never", "loop", "asleep", "ended"}
  /\ pc["rely"] \in {"none", "never", "loop", "asleep", "poll", "pass", "write",
                     "ended"}
  /\ lock = IF pc["rely"] \in {"poll", "pass", "write"} THEN "rely" ELSE Nobody
  /\ {running, clean} \subseteq BOOLEAN
  /\ coils \subseteq Bits
  /\ polled \in [sendable : BOOLEAN, on : SUBSET Bits]
  /\ seen \in [known : BOOLEAN, on : SUBSET Bits]

\* io_rely_handle reads all coils and writes all back, rule after rule. Over
\* the whole pass, while the rules stay as they are and every exchange is
\* done, the device ends with what was polled and the rules chosen by
\* precedence, and nothing else: no write of the operator's is lost in between.
Driven(m, taken) ==
  (m \union UNION {rs.node[n].omask.up : n \in taken})
    \ UNION {rs.node[n].omask.down : n \in taken}
CleanPassDrivesOutputs ==
  pc["rely"] = "pass" /\ pass.status = "done" /\ clean /\ during = {}
    => /\ \A n \in InUse : RightlyTaken(n, Called)
       /\ coils = Driven(pass.mask, Called)

\* Whatever the operator does to the rules meanwhile, a write of a callback
\* that could read the coils moves no coil that the rule it was called for
\* does not name; a rule deleted under it writes the coils as they were.
CallbackTouchesItsOutputsOnly ==
  [][LET r == calls[Len(calls)]
     IN lock = "rely" /\ coils' # coils /\ seen.known /\ "added" \notin during
          => /\ coils' \ coils \subseteq r.omask.up
             /\ coils \ coils' \subseteq r.omask.down]_allVars

\* The rule set and the context are freed only when no thread can use them
\* any more.
FreedAfterThreads ==
  main \in {"close", "exited"} => \A t \in Others : pc[t] \in {"ended", "never"}

\* Once the work loop has seen that it is over, the demo ends, whatever the
\* rule thread is at, as long as exchanges return; or it has run into undefined
\* behaviour before.
DemoEnds == main = "check" /\ ~running ~> ~Alive
=============================================================================
