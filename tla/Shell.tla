-------------------------------- MODULE Shell --------------------------------
(***************************************************************************)
(* The operator's sessions of main.c: command_rule_handle over RuleSet and *)
(* command_io_handle over MbIo. A line's words are copied over argv, which *)
(* keeps what earlier lines left behind their words: cleared once per rule *)
(* session, never in an io session.                                        *)
(* Operators marked "Fault" are faulty variants of the ones after them;    *)
(* the specification does not use them.                                    *)
(***************************************************************************)
EXTENDS MbIo, FiniteSets

CONSTANTS
  Width,     \* words of argv that matter: 128 in the code
  Cap,       \* MAX_MASK_RULE_NUM: 128
  NumPrio,   \* MASK_RULE_PRIORITY_NUM: 8
  ByteMod,   \* priorities and rule ids to look up are UINT8_T: 256
  IdMod,     \* rule ids are UINT16_T: 65536
  NumBits,   \* bits of a mask: 64
  RuleLines, \* what the operator types in a rule session
  IoLines,   \* and in an io session
  Garbage,   \* words that argv may hold before anything was stored there
  MaxAdds    \* bound: rules added in one behaviour

(* A word is a keyword, which strtol makes 0 of, or a number; "" stands for *)
(* none, and "other" for what no command knows.                             *)
AddKeys == {"imask.up", "imask.down", "omask.up", "omask.down", "prio"}
KeyWord == AddKeys \union {"", "other", "number", "all", "in", "out", "on", "off",
                           "add", "del", "get", "set"}
Word   == [k : KeyWord, n : Int]
Key(k) == [k |-> k, n |-> 0]
Num(n) == [k |-> "number", n |-> n]
Nothing == Key("")
NoLine  == <<Nothing>>

\* A command is shorter than argv, and the longest "add" is.
ASSUME ShellAssumption ==
  /\ Width \in Nat /\ Width >= 12
  /\ NumPrio \in Nat \ {0, 1} /\ ByteMod \in Nat \ {0} /\ IdMod \in Nat \ {0}
  /\ Cap \in 1..(ByteMod - 1) /\ NumBits \in Nat /\ MaxAdds \in Nat
  /\ \A line \in RuleLines \union IoLines :
       line \in Seq(Word) /\ Len(line) <= Width /\ line # NoLine
  /\ Garbage \subseteq Word

VARIABLES
  session, \* "menu", "rule" or "io"
  argv,    \* of that session
  typed,   \* ghost: the latest line
  command, \* ghost: what it was taken for
  rules, last \* the rule set

sessionVars == <<session, argv, typed, command>>
setVars     == <<rules, last>>
shellVars   == <<sessionVars, setVars, confVars, ioVars>>

Set == INSTANCE RuleSet WITH
         Capacity <- Cap, ArgRange <- ByteMod, IdRange <- IdMod,
         NumRanks <- NumPrio, Offered <- {}, MaxId <- MaxAdds

Words  == 1..Width
Blank  == [i \in Words |-> Nothing]
None   == [op |-> "none"]

ShellInit ==
  /\ IoInit /\ Set!Init
  /\ session = "menu" /\ argv = Blank
  /\ typed = NoLine /\ command = None
-----------------------------------------------------------------------------
(* What argv is taken for. strtol makes 0 of what is not a number.          *)

\* Fault: argc counts twice for each word.
StoredSparsely(line) ==
  [i \in Words |-> IF i % 2 = 1 /\ (i + 1) \div 2 <= Len(line) THEN line[(i + 1) \div 2]
                  ELSE argv[i]]

\* strtok and snprintf: the line's words go over the first words of argv.
Stored(line) == [i \in Words |-> IF i <= Len(line) THEN line[i] ELSE argv[i]]

Bits == 0..(NumBits - 1)
MaskOf(n) == {b \in Bits : (n \div 2^b) % 2 = 1}

(* "add": each keyword is taken if it is the next word, with its number.    *)
TakeKey(a, s, key) ==
  IF a[s.idx].k = key
  THEN [idx |-> s.idx + 2, val |-> [s.val EXCEPT ![key] = a[s.idx + 1].n]]
  ELSE s

Taken(a) ==
  LET Take(s, key) == TakeKey(a, s, key)
      start == [idx |-> 2, val |-> [key \in AddKeys |-> 0]]
      conditions == Take(Take(start, "imask.up"), "imask.down")
      outputs    == Take(Take(conditions, "omask.up"), "omask.down")
  IN Take(outputs, "prio").val

\* priority is a UINT8_T.
PriorityByte(n) == n % ByteMod

ContentOf(t) ==
  [priority |-> PriorityByte(t["prio"]), type |-> "fuzz",
   imask |-> [up |-> MaskOf(t["imask.up"]), down |-> MaskOf(t["imask.down"])],
   omask |-> [up |-> MaskOf(t["omask.up"]), down |-> MaskOf(t["omask.down"])]]

\* Fault: only the conditions of a rule are checked.
SensibleIn(c) ==
  c.imask.up \union c.imask.down # {} /\ c.imask.up \intersect c.imask.down = {}

\* The checks of "add".
Sensible(c) ==
  /\ c.imask.up \union c.imask.down # {} /\ c.imask.up \intersect c.imask.down = {}
  /\ c.omask.up \union c.omask.down # {} /\ c.omask.up \intersect c.omask.down = {}
  /\ c.priority < NumPrio

RuleCommandOf(a) ==
  CASE a[1].k \in {"del", "get"} ->
         IF a[2].k = "all" THEN [op |-> a[1].k, all |-> TRUE]
         ELSE [op |-> a[1].k, all |-> FALSE, id |-> a[2].n]
    [] a[1].k = "add" ->
         LET c == ContentOf(Taken(a))
         IN IF Sensible(c) THEN [op |-> "add", content |-> c] ELSE [op |-> "invalid"]
    [] OTHER -> None

IoCommandOf(a) ==
  CASE a[1].k = "get" -> [op |-> IF a[2].k = "in" THEN "in" ELSE "out", idx |-> a[3].n]
    [] a[1].k = "set" -> [op |-> "set", idx |-> a[2].n, on |-> a[3].k = "on"]
    [] OTHER          -> None

\* Fault: argv is not cleared when a rule session begins.
ClearedArgvKept == argv
\* { 0 }.
ClearedArgv == Blank
-----------------------------------------------------------------------------
(* The menu and the two sessions.                                           *)

EnterRule ==
  /\ file = <<>> /\ session = "menu" /\ session' = "rule"
  /\ argv' = ClearedArgv
  /\ typed' = NoLine /\ command' = None
  /\ UNCHANGED <<setVars, confVars, ioVars>>

\* The io session's argv is not initialised: it may hold anything, also what
\* another session left in the same place.
EnterIo ==
  /\ file = <<>> /\ session = "menu" /\ session' = "io"
  /\ argv' \in {argv} \union {[i \in Words |-> w] : w \in Garbage}
  /\ typed' = NoLine /\ command' = None
  /\ UNCHANGED <<setVars, confVars, ioVars>>

Exit ==
  /\ session \in {"rule", "io"} /\ session' = "menu"
  /\ typed' = NoLine /\ command' = None /\ io' = NoCall
  /\ UNCHANGED <<argv, setVars, confVars, ins, outs>>

Typed(line) ==
  /\ typed' = line
  /\ argv' = Stored(line)
  /\ command' = IF session = "rule" THEN RuleCommandOf(argv') ELSE IoCommandOf(argv')
  /\ UNCHANGED confVars

\* A failed "add", and a "get" that finds nothing, end the session.
Stays == session' = session
Ends  == session' = "menu"

\* Fault: the loop passes its index for the id.
AllIndices == 0..(Cap - 1)
\* The ids that "all" goes through.
AllIds == 1..Cap

Delete(ids) == rules' = {r \in rules : r.id \notin ids} /\ last' = last

RuleLine(line) ==
  /\ session = "rule" /\ Typed(line)
  /\ LET c == command'
     IN CASE c.op = "add" ->
               /\ last < MaxAdds
               /\ IF Set!Accepts(c.content) THEN Set!AddRule(c.content) /\ Stays
                  ELSE UNCHANGED setVars /\ Ends
          [] c.op = "invalid" -> UNCHANGED setVars /\ Ends
          [] c.op = "del" ->
               Delete({id % ByteMod : id \in IF c.all THEN AllIds ELSE {c.id}}) /\ Stays
          [] c.op = "get" ->
               /\ UNCHANGED setVars
               /\ IF c.all \/ \E r \in rules : r.id = c.id % ByteMod THEN Stays ELSE Ends
          [] OTHER -> UNCHANGED setVars /\ Stays
  /\ UNCHANGED ioVars

IoLine(line) ==
  /\ session = "io" /\ Typed(line) /\ Stays
  /\ LET c == command'
     IN CASE c.op \in {"in", "out"} -> IoGet(c.op, c.idx)
          [] c.op = "set"           -> IoSet(c.idx, c.on)
          [] OTHER                  -> UNCHANGED ioVars
  /\ UNCHANGED setVars

ShellNext ==
  \/ ConfigLine /\ UNCHANGED <<sessionVars, setVars>>
  \/ EnterRule \/ EnterIo \/ Exit
  \/ \E line \in RuleLines : RuleLine(line)
  \/ \E line \in IoLines : IoLine(line)

ShellSpec == ShellInit /\ [][ShellNext]_shellVars
-----------------------------------------------------------------------------
(* Properties.                                                             *)

\* A line is complete when nothing is read behind it: an "add" that ends with
\* its priority and a number for it, and the other commands with all their
\* arguments.
Complete(line) ==
  /\ Len(line) >= 2
  /\ \/ session = "rule" /\ line[1].k \in {"get", "del"}
     \/ /\ session = "rule" /\ line[1].k = "add"
        /\ line[Len(line) - 1].k = "prio" /\ line[Len(line)].k = "number"
     \/ session = "io" /\ line[1].k \in {"get", "set"} /\ Len(line) >= 3

\* The command a line gives on an argv that holds nothing else.
Alone(line) ==
  LET a == [i \in Words |-> IF i <= Len(line) THEN line[i] ELSE Nothing]
  IN IF session = "rule" THEN RuleCommandOf(a) ELSE IoCommandOf(a)

\* A complete line is the same command whatever was typed before it, in this
\* session or an earlier one; and so is the first line of a rule session,
\* complete or not.
LinesStandAlone ==
  [][typed' # typed /\ (Complete(typed') \/ (session = "rule" /\ typed = NoLine))
       => command' = Alone(typed')]_shellVars

\* Whatever words a rule was put together from, it has a condition and an
\* output, and neither contradicts itself: a rule without outputs would
\* still rewrite all coils. Its priority, cut to a byte, has a list.
RulesMakeSense ==
  \A r \in rules :
    LET c == r.content
    IN /\ c.imask.up # {} \/ c.imask.down # {}
       /\ c.omask.up # {} \/ c.omask.down # {}
       /\ c.imask.up \intersect c.imask.down = {}
       /\ c.omask.up \intersect c.omask.down = {}
       /\ c.priority \in 1..(NumPrio - 1)

\* "del all" leaves no rule as long as no more rules were ever added than the
\* set has places; after that it does not reach the ids given out last.
DelAllEmpties ==
  [][typed' # typed /\ command' = [op |-> "del", all |-> TRUE] /\ last <= Cap
       => rules' = {}]_shellVars

\* Every line of the session's own help is a command by itself.
HelpLine == <<Key("add"), Key("imask.up"), Num(1), Key("omask.down"), Num(1)>>
HelpLineStandsAlone ==
  [][typed' # typed /\ typed' = HelpLine => command' = Alone(HelpLine)]_shellVars
=============================================================================
