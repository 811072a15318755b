---------------------------- MODULE ShellProofs ----------------------------
(***************************************************************************)
(* The operator's sessions for every value of the constants: what is       *)
(* configured, what a call reaches, what a line is taken for and which     *)
(* rules it makes.                                                         *)
(***************************************************************************)
EXTENDS Shell, TLAPS

-----------------------------------------------------------------------------
(* Lines and words.                                                        *)

\* The configuration is read before the menu is there.
SessionInv ==
  /\ file \in Seq(FileLine) /\ given \in Seq(FileLine)
  /\ key1 \in Nat /\ conf \in [Keys -> Nat]
  /\ session \in {"menu", "rule", "io"} /\ argv \in [Words -> Word]
  /\ file # <<>> => io = NoCall /\ session = "menu"

LEMMA WordTypes == Nothing \in Word /\ Blank \in [Words -> Word]
<1>1. Nothing \in Word
  BY DEF Nothing, Key, Word, KeyWord
<1> QED
  BY <1>1 DEF Blank

LEMMA StoredType ==
  ASSUME argv \in [Words -> Word], NEW line \in RuleLines \union IoLines
  PROVE  Stored(line) \in [Words -> Word]
<1>1. line \in Seq(Word)
  BY ShellAssumption
<1>2. ASSUME NEW i \in Words
      PROVE  (IF i <= Len(line) THEN line[i] ELSE argv[i]) \in Word
  <2>1. i \in Nat /\ i >= 1 /\ Len(line) \in Nat
    BY <1>1, ShellAssumption DEF Words
  <2>2. i <= Len(line) => line[i] \in Word
    BY <1>1, <2>1
  <2> QED
    BY <2>2
<1> QED
  BY <1>2 DEF Stored

LEMMA ConfigTypes ==
  ASSUME SessionInv, ConfigLine
  PROVE  /\ file' \in Seq(FileLine) /\ given' \in Seq(FileLine)
         /\ key1' \in Nat /\ conf' \in [Keys -> Nat]
         /\ given' = Append(given, Head(file)) /\ Head(file) \in FileLine
<1>1. file # <<>> /\ file \in Seq(FileLine)
  BY DEF SessionInv, ConfigLine
<1>2. Head(file) \in FileLine /\ Tail(file) \in Seq(FileLine)
  BY <1>1
<1> DEFINE line == Head(file)
<1>3. line.value \in Nat \union {NoValue} /\ line.key \in Keys \union {"other", "none"}
  BY <1>2 DEF FileLine
<1> HIDE DEF line
<1>4. Setting(line) \in Nat
  <2>1. RegMod \in Nat \ {0}
    BY MbIoAssumption
  <2>2. line.value # NoValue => line.value % RegMod \in Nat
    BY <1>3, <2>1
  <2> QED
    BY <2>2 DEF Setting, SessionInv
<1>5. /\ key1' = (IF line.key = "none" THEN key1 ELSE Setting(line))
      /\ conf' = IF line.key \in Keys THEN [conf EXCEPT ![line.key] = Setting(line)]
                 ELSE conf
      /\ given' = Append(given, line) /\ file' = Tail(file)
  BY DEF ConfigLine, line
<1>6. key1' \in Nat /\ conf' \in [Keys -> Nat]
  BY <1>4, <1>5 DEF SessionInv
<1> QED
  BY <1>2, <1>5, <1>6 DEF SessionInv, line

LEMMA SessionInit == ShellInit => SessionInv
<1> SUFFICES ASSUME ShellInit PROVE SessionInv
  OBVIOUS
<1>1. file \in Seq(FileLine) /\ given \in Seq(FileLine)
  BY MbIoAssumption DEF ShellInit, IoInit
<1>2. conf \in [Keys -> Nat] /\ key1 \in Nat
  BY DEF ShellInit, IoInit
<1> QED
  BY <1>1, <1>2, WordTypes DEF ShellInit, IoInit, SessionInv

\* What a step of the shell is.
LEMMA ShellSteps ==
  ASSUME SessionInv, [ShellNext]_shellVars
  PROVE  \/ ConfigLine /\ UNCHANGED <<sessionVars, setVars>>
         \/ UNCHANGED confVars
  BY DEF ShellNext, EnterRule, EnterIo, Exit, RuleLine, IoLine, Typed, shellVars, confVars

LEMMA SessionNext == SessionInv /\ [ShellNext]_shellVars => SessionInv'
<1> SUFFICES ASSUME SessionInv, [ShellNext]_shellVars PROVE SessionInv'
  OBVIOUS
<1>1. CASE ConfigLine /\ UNCHANGED <<sessionVars, setVars>>
  BY <1>1, ConfigTypes DEF SessionInv, ConfigLine, sessionVars, ioVars
<1>2. CASE EnterRule
  BY <1>2, WordTypes DEF EnterRule, SessionInv, ClearedArgv, confVars
<1>3. CASE EnterIo
  <2>1. argv' \in [Words -> Word]
    BY <1>3, ShellAssumption DEF EnterIo, SessionInv
  <2> QED
    BY <1>3, <2>1 DEF EnterIo, SessionInv, confVars
<1>4. CASE Exit
  BY <1>4 DEF Exit, SessionInv, confVars
<1>5. ASSUME NEW line \in RuleLines, RuleLine(line) PROVE SessionInv'
  <2>1. argv' \in [Words -> Word] /\ UNCHANGED confVars
    BY <1>5, StoredType DEF RuleLine, Typed, SessionInv
  <2>2. session = "rule" /\ session' \in {"rule", "menu"}
    BY <1>5 DEF RuleLine, Stays, Ends
  <2> QED
    BY <2>1, <2>2 DEF SessionInv, confVars
<1>6. ASSUME NEW line \in IoLines, IoLine(line) PROVE SessionInv'
  <2>1. argv' \in [Words -> Word] /\ UNCHANGED confVars
    BY <1>6, StoredType DEF IoLine, Typed, SessionInv
  <2>2. session = "io" /\ session' = "io"
    BY <1>6 DEF IoLine, Stays
  <2> QED
    BY <2>1, <2>2 DEF SessionInv, confVars
<1>7. CASE UNCHANGED shellVars
  BY <1>7 DEF shellVars, sessionVars, confVars, ioVars, SessionInv
<1> QED
  BY <1>1, <1>2, <1>3, <1>4, <1>5, <1>6, <1>7 DEF ShellNext

\* sp_io_config is over before a session begins, and argv holds words.
THEOREM SessionInvariance == ShellSpec => []SessionInv
  BY SessionInit, SessionNext, PTL DEF ShellSpec
-----------------------------------------------------------------------------
(* The settings.                                                           *)

LEMMA SettingsNext ==
  SessionInv /\ SettingsAreTheirs /\ [ShellNext]_shellVars => SettingsAreTheirs'
<1> SUFFICES ASSUME SessionInv, SettingsAreTheirs, ConfigLine,
                    \A i \in DOMAIN given' : given'[i].value # NoValue, NEW k \in Keys
             PROVE  LET mine == {i \in DOMAIN given' : given'[i].key = k}
                    IN \/ mine = {} /\ conf'[k] = 0
                       \/ \E i \in mine : /\ \A j \in mine : j <= i
                                          /\ conf'[k] = given'[i].value % RegMod
  BY ShellSteps DEF SettingsAreTheirs, LinesFor, confVars
<1> DEFINE line == Head(file)
           mine == {i \in DOMAIN given' : given'[i].key = k}
<1>1. given' = Append(given, line) /\ line \in FileLine /\ given \in Seq(FileLine)
  BY ConfigTypes DEF SessionInv
<1> HIDE DEF line
<1>2. /\ Len(given) \in Nat /\ DOMAIN given = 1..Len(given)
      /\ DOMAIN given' = 1..(Len(given) + 1) /\ given'[Len(given) + 1] = line
      /\ \A i \in DOMAIN given : given'[i] = given[i]
  BY <1>1
<1>3. line.value # NoValue /\ \A i \in DOMAIN given : given[i].value # NoValue
  BY <1>2
<1>4. \/ LinesFor(k) = {} /\ conf[k] = 0
      \/ \E i \in LinesFor(k) : /\ \A j \in LinesFor(k) : j <= i
                                /\ conf[k] = given[i].value % RegMod
  BY <1>3 DEF SettingsAreTheirs
<1>5. conf' = IF line.key \in Keys THEN [conf EXCEPT ![line.key] = Setting(line)] ELSE conf
  BY DEF ConfigLine, line
<1>6. CASE line.key = k
  <2>1. Len(given) + 1 \in mine /\ \A j \in mine : j <= Len(given) + 1
    BY <1>2, <1>6
  <2>2. conf'[k] = line.value % RegMod
    BY <1>3, <1>5, <1>6 DEF Setting, SessionInv
  <2> QED
    BY <1>2, <2>1, <2>2
<1>7. CASE line.key # k
  <2>1. mine = LinesFor(k)
    <3>1. \A i \in DOMAIN given' : i \in DOMAIN given \/ i = Len(given) + 1
      BY <1>2
    <3> QED
      BY <1>2, <1>7, <3>1 DEF LinesFor
  <2>2. conf'[k] = conf[k]
    BY <1>5, <1>7 DEF SessionInv
  <2>3. \A i \in LinesFor(k) : given'[i] = given[i]
    BY <1>2 DEF LinesFor
  <2> HIDE DEF mine
  <2> QED
    BY <1>4, <2>1, <2>2, <2>3 DEF mine
<1> QED
  BY <1>6, <1>7

\* Every setting is what the last line for it in mb_io.conf says, unless a
\* line has no value.
THEOREM SettingsRead == ShellSpec => []SettingsAreTheirs
<1>1. ShellInit => SettingsAreTheirs
  BY DEF ShellInit, IoInit, SettingsAreTheirs, LinesFor
<1> QED
  BY <1>1, SettingsNext, SessionInvariance, PTL DEF ShellSpec
-----------------------------------------------------------------------------
(* The calls.                                                              *)

\* CallsMeetTheirCoil of a call there may be.
Meets(c, on, off) ==
  c.answer = "done" =>
    LET dir   == IF c.op = "in" THEN "in" ELSE "out"
        start == conf[IF dir = "in" THEN "IADDR_START" ELSE "OADDR_START"]
        size  == conf[IF dir = "in" THEN "I_NUMBER" ELSE "O_NUMBER"]
    IN /\ \E k \in 0..(size - 1) : c.reg = (start + k) % RegMod /\ k = c.idx % RegMod
       /\ c.status = (c.reg \in IF dir = "in" THEN on ELSE off)

LEMMA MeetsNow ==
  /\ CallsMeetTheirCoil <=> Meets(io, ins, outs)
  /\ conf' = conf => (CallsMeetTheirCoil' <=> Meets(io', ins', outs'))
  BY DEF CallsMeetTheirCoil, Meets

LEMMA PlaceMeets ==
  ASSUME SessionInv, NEW dir \in {"in", "out"}, NEW n \in Int, InRange(dir, Index(n))
  PROVE  LET start == conf[IF dir = "in" THEN "IADDR_START" ELSE "OADDR_START"]
             size  == conf[IF dir = "in" THEN "I_NUMBER" ELSE "O_NUMBER"]
         IN \E k \in 0..(size - 1) : /\ Register(dir, Index(n)) = (start + k) % RegMod
                                     /\ k = n % RegMod
<1> DEFINE start == conf[IF dir = "in" THEN "IADDR_START" ELSE "OADDR_START"]
           size  == conf[IF dir = "in" THEN "I_NUMBER" ELSE "O_NUMBER"]
           k     == n % RegMod
<1>1. RegMod \in Nat \ {0} /\ k \in Nat
  BY MbIoAssumption
<1>2. start \in Nat /\ size \in Nat
  BY DEF SessionInv, Keys
<1>3. k < size
  BY DEF InRange, Index
<1>4. Register(dir, Index(n)) = (k + start) % RegMod
  BY DEF Register, Index
<1> HIDE DEF start, size, k
<1>5. k \in 0..(size - 1) /\ k + start = start + k
  BY <1>1, <1>2, <1>3
<1> QED
  BY <1>4, <1>5 DEF start, size, k

LEMMA GetMeets ==
  ASSUME SessionInv, NEW dir \in {"in", "out"}, NEW n \in Int, IoGet(dir, n)
  PROVE  Meets(io', ins', outs')
<1>1. CASE ~InRange(dir, Index(n))
  <2>1. io'.answer = "refused"
    BY <1>1 DEF IoGet, Refuse, NoCall
  <2> QED
    BY <2>1 DEF Meets
<1>2. CASE InRange(dir, Index(n)) /\ io'.answer = "done"
  <2> DEFINE reg == Register(dir, Index(n))
             code == ReadCode(dir)
  <2>1. /\ io'.op = dir /\ io'.idx = n /\ io'.reg = reg
        /\ io'.status = DeviceAt(code, reg) /\ ins' = ins /\ outs' = outs
    BY <1>2 DEF IoGet, Call, NoCall
  <2>2. code = 2 <=> dir = "in"
    BY DEF ReadCode
  <2> HIDE DEF reg, code
  <2>3. io'.status = (io'.reg \in IF dir = "in" THEN ins' ELSE outs')
    BY <2>1, <2>2 DEF DeviceAt
  <2>4. (IF io'.op = "in" THEN "in" ELSE "out") = dir
    BY <2>1
  <2> QED
    BY <1>2, <2>1, <2>3, <2>4, PlaceMeets DEF Meets, reg
<1> QED
  BY <1>1, <1>2 DEF Meets

LEMMA SetMeets ==
  ASSUME SessionInv, NEW n \in Int, NEW on \in BOOLEAN, IoSet(n, on)
  PROVE  Meets(io', ins', outs')
<1>1. CASE ~InRange("out", Index(n))
  <2>1. io'.answer = "refused"
    BY <1>1 DEF IoSet, Refuse, NoCall
  <2> QED
    BY <2>1 DEF Meets
<1>2. CASE InRange("out", Index(n)) /\ io'.answer = "done"
  <2> DEFINE reg == Register("out", Index(n))
  <2>1. /\ io'.op = "set" /\ io'.idx = n /\ io'.reg = reg /\ io'.status = on
        /\ outs' = IF on THEN outs \union {reg} ELSE outs \ {reg}
    BY <1>2 DEF IoSet, Call, NoCall
  <2> HIDE DEF reg
  <2>2. io'.status = (io'.reg \in outs')
    BY <2>1
  <2> QED
    BY <1>2, <2>1, <2>2, PlaceMeets DEF Meets, reg
<1> QED
  BY <1>1, <1>2 DEF Meets

LEMMA IoLineMeets ==
  ASSUME SessionInv, NEW line \in IoLines, IoLine(line), Meets(io, ins, outs)
  PROVE  Meets(io', ins', outs')
<1>1. argv' \in [Words -> Word] /\ command' = IoCommandOf(argv')
  BY StoredType DEF IoLine, Typed, SessionInv
<1>2. argv'[2].n \in Int /\ argv'[3].n \in Int
  <2>1. 2 \in Words /\ 3 \in Words
    BY ShellAssumption DEF Words
  <2> QED
    BY <1>1, <2>1 DEF Word
<1>3. CASE argv'[1].k = "get"
  <2>1. command'.op \in {"in", "out"} /\ command'.idx \in Int
    BY <1>1, <1>2, <1>3 DEF IoCommandOf
  <2>2. IoGet(command'.op, command'.idx)
    BY <2>1 DEF IoLine
  <2> QED
    BY <2>1, <2>2, GetMeets
<1>4. CASE argv'[1].k = "set"
  <2>1. command'.op = "set" /\ command'.idx \in Int /\ command'.on \in BOOLEAN
    BY <1>1, <1>2, <1>4 DEF IoCommandOf
  <2>2. IoSet(command'.idx, command'.on)
    BY <2>1 DEF IoLine
  <2> QED
    BY <2>1, <2>2, SetMeets
<1>5. CASE argv'[1].k \notin {"get", "set"}
  <2>1. command'.op = "none"
    BY <1>1, <1>5 DEF IoCommandOf, None
  <2>2. UNCHANGED ioVars
    BY <2>1 DEF IoLine
  <2> QED
    BY <2>2 DEF ioVars
<1> QED
  BY <1>3, <1>4, <1>5

\* sp_mbio_get and sp_mbio_set reach the coil that was configured for their
\* index and direction, and no other.
THEOREM CallsReachTheirCoil == ShellSpec => []CallsMeetTheirCoil
<1>1. ShellInit => CallsMeetTheirCoil
  BY DEF ShellInit, IoInit, NoCall, CallsMeetTheirCoil
<1>2. SessionInv /\ CallsMeetTheirCoil /\ [ShellNext]_shellVars => CallsMeetTheirCoil'
  <2> SUFFICES ASSUME SessionInv, CallsMeetTheirCoil, [ShellNext]_shellVars
               PROVE  CallsMeetTheirCoil'
    OBVIOUS
  <2>1. CASE ConfigLine
    <3>1. io' = NoCall
      BY <2>1 DEF ConfigLine, ioVars, SessionInv
    <3> QED
      BY <3>1 DEF CallsMeetTheirCoil, NoCall
  <2>2. CASE UNCHANGED confVars
    <3>1. conf' = conf
      BY <2>2 DEF confVars
    <3>2. Meets(io', ins', outs')
      <4>1. CASE UNCHANGED ioVars
        BY <4>1, MeetsNow DEF ioVars
      <4>2. CASE Exit
        BY <4>2 DEF Exit, NoCall, Meets
      <4>3. CASE \E line \in IoLines : IoLine(line)
        BY <4>3, MeetsNow, IoLineMeets
      <4>4. CASE ConfigLine
        BY <4>1, <4>4 DEF ConfigLine
      <4> QED
        BY <4>1, <4>2, <4>3, <4>4 DEF ShellNext, EnterRule, EnterIo, RuleLine, shellVars
    <3> QED
      BY <3>1, <3>2, MeetsNow
  <2> QED
    BY <2>1, <2>2, ShellSteps
<1> QED
  BY <1>1, <1>2, SessionInvariance, PTL DEF ShellSpec
-----------------------------------------------------------------------------
(* What an "add" takes from argv.                                          *)

\* The places a key may be looked for, and what has been taken there.
Takes(m) == [idx : 2..m, val : [AddKeys -> Int]]

LEMMA TakeKeyType ==
  ASSUME NEW a \in [Words -> Word], NEW m \in 2..(Width - 1), NEW s \in Takes(m),
         NEW key \in AddKeys
  PROVE  TakeKey(a, s, key) \in Takes(m + 2)
<1>1. m \in Nat /\ m + 1 <= Width /\ Width \in Nat
  BY ShellAssumption
<1>2. /\ s = [idx |-> s.idx, val |-> s.val]
      /\ s.idx \in 2..m /\ s.val \in [AddKeys -> Int]
  BY DEF Takes
<1>3. s.idx \in 2..(m + 2) /\ s.idx + 2 \in 2..(m + 2) /\ s.idx + 1 \in Words
  BY <1>1, <1>2 DEF Words
<1>4. a[s.idx + 1].n \in Int
  BY <1>3 DEF Word
<1>5. [s.val EXCEPT ![key] = a[s.idx + 1].n] \in [AddKeys -> Int]
  BY <1>2, <1>4
<1> QED
  BY <1>2, <1>3, <1>5 DEF TakeKey, Takes

LEMMA TakenType ==
  ASSUME NEW a \in [Words -> Word]
  PROVE  Taken(a) \in [AddKeys -> Int]
<1> DEFINE s0 == [idx |-> 2, val |-> [key \in AddKeys |-> 0]]
           s1 == TakeKey(a, s0, "imask.up")
           s2 == TakeKey(a, s1, "imask.down")
           s3 == TakeKey(a, s2, "omask.up")
           s4 == TakeKey(a, s3, "omask.down")
           s5 == TakeKey(a, s4, "prio")
<1>1. Taken(a) = s5.val
  BY DEF Taken
<1>2. s0 \in Takes(2)
  BY DEF Takes
<1>3. /\ 2 \in 2..(Width - 1) /\ 4 \in 2..(Width - 1) /\ 6 \in 2..(Width - 1)
      /\ 8 \in 2..(Width - 1) /\ 10 \in 2..(Width - 1)
  BY ShellAssumption
<1>4. /\ "imask.up" \in AddKeys /\ "imask.down" \in AddKeys /\ "omask.up" \in AddKeys
      /\ "omask.down" \in AddKeys /\ "prio" \in AddKeys
  BY DEF AddKeys
<1> HIDE DEF s0, s1, s2, s3, s4, s5
<1>5. s1 \in Takes(4)
  <2>1. s1 \in Takes(2 + 2)
    BY <1>2, <1>3, <1>4, TakeKeyType DEF s1
  <2> QED
    BY <2>1
<1>6. s2 \in Takes(6)
  <2>1. s2 \in Takes(4 + 2)
    BY <1>5, <1>3, <1>4, TakeKeyType DEF s2
  <2> QED
    BY <2>1
<1>7. s3 \in Takes(8)
  <2>1. s3 \in Takes(6 + 2)
    BY <1>6, <1>3, <1>4, TakeKeyType DEF s3
  <2> QED
    BY <2>1
<1>8. s4 \in Takes(10)
  <2>1. s4 \in Takes(8 + 2)
    BY <1>7, <1>3, <1>4, TakeKeyType DEF s4
  <2> QED
    BY <2>1
<1>9. s5 \in Takes(12)
  <2>1. s5 \in Takes(10 + 2)
    BY <1>8, <1>3, <1>4, TakeKeyType DEF s5
  <2> QED
    BY <2>1
<1> QED
  BY <1>1, <1>9 DEF Takes

\* What RuleLine may do to the rules.
LEMMA RuleCommands ==
  ASSUME SessionInv, NEW line \in RuleLines, RuleLine(line)
  PROVE  \/ UNCHANGED setVars
         \/ rules' \subseteq rules /\ last' = last
         \/ /\ last < MaxAdds /\ last' = (last + 1) % IdMod
            /\ \E c : /\ Sensible(c) /\ c.priority \in Nat
                      /\ DOMAIN c = {"priority", "type", "imask", "omask"}
                      /\ rules' = rules \union
                                    {[id |-> last', content |-> Set!Ranked(c)]}
<1>1. argv' \in [Words -> Word] /\ command' = RuleCommandOf(argv')
  BY StoredType DEF RuleLine, Typed, SessionInv
<1>2. CASE command'.op = "add"
  <2> DEFINE c == ContentOf(Taken(argv'))
  <2>1. command' = [op |-> "add", content |-> c] /\ Sensible(c)
    BY <1>1, <1>2 DEF RuleCommandOf, None
  <2>2. c.priority \in Nat
    <3>1. Taken(argv')["prio"] \in Int
      BY <1>1, TakenType DEF AddKeys
    <3>2. ByteMod \in Nat \ {0}
      BY ShellAssumption
    <3>3. Taken(argv')["prio"] % ByteMod \in Nat
      BY ONLY <3>1, <3>2
    <3> QED
      BY <3>3 DEF ContentOf, PriorityByte
  <2>3. DOMAIN c = {"priority", "type", "imask", "omask"}
    BY DEF ContentOf
  <2> HIDE DEF c
  <2>4. \/ UNCHANGED setVars
        \/ last < MaxAdds /\ Set!AddRule(c)
    BY <1>2, <2>1 DEF RuleLine
  <2> QED
    BY <2>1, <2>2, <2>3, <2>4 DEF Set!AddRule
<1>3. CASE command'.op = "del"
  BY <1>3 DEF RuleLine, Delete
<1>4. CASE command'.op \notin {"add", "del"}
  BY <1>4 DEF RuleLine
<1> QED
  BY <1>2, <1>3, <1>4

\* Whatever words it was put together from, a rule has conditions and
\* outputs that do not contradict each other, and a list.
THEOREM RulesAreSensible == ShellSpec => []RulesMakeSense
<1>1. ShellInit => RulesMakeSense
  BY DEF ShellInit, Set!Init, RulesMakeSense
<1>2. SessionInv /\ RulesMakeSense /\ [ShellNext]_shellVars => RulesMakeSense'
  <2> SUFFICES ASSUME SessionInv, RulesMakeSense, [ShellNext]_shellVars
               PROVE  RulesMakeSense'
    OBVIOUS
  <2>1. CASE rules' \subseteq rules
    BY <2>1 DEF RulesMakeSense
  <2>2. ASSUME NEW c, Sensible(c), c.priority \in Nat,
               DOMAIN c = {"priority", "type", "imask", "omask"},
               rules' = rules \union {[id |-> last', content |-> Set!Ranked(c)]}
        PROVE  RulesMakeSense'
    <3> DEFINE d == Set!Ranked(c)
    <3>1. d.imask = c.imask /\ d.omask = c.omask
      BY <2>2 DEF Set!Ranked
    <3>2. d.priority = IF c.priority = 0 THEN NumPrio - 1 ELSE c.priority
      BY <2>2 DEF Set!Ranked
    <3>3. d.priority \in 1..(NumPrio - 1)
      BY <2>2, <3>2, ShellAssumption DEF Sensible
    <3> HIDE DEF d
    <3> QED
      BY <2>2, <3>1, <3>3 DEF RulesMakeSense, Sensible, d
  <2>3. CASE \E line \in RuleLines : RuleLine(line)
    BY <2>1, <2>2, <2>3, RuleCommands DEF setVars
  <2>4. CASE ~\E line \in RuleLines : RuleLine(line)
    BY <2>1, <2>4 DEF ShellNext, EnterRule, EnterIo, Exit, IoLine, shellVars, setVars
  <2> QED
    BY <2>3, <2>4
<1> QED
  BY <1>1, <1>2, SessionInvariance, PTL DEF ShellSpec
-----------------------------------------------------------------------------
(* "del all".                                                              *)

\* No more rules are added than there are ids.
NoWrap == MaxAdds < IdMod

\* The ids of the rules have been given out.
IdsGiven == last \in 0..MaxAdds /\ \A r \in rules : r.id \in 1..last

LEMMA IdsGivenNext ==
  NoWrap /\ SessionInv /\ IdsGiven /\ [ShellNext]_shellVars => IdsGiven'
<1> SUFFICES ASSUME NoWrap, SessionInv, IdsGiven, [ShellNext]_shellVars
             PROVE  IdsGiven'
  OBVIOUS
<1>1. CASE rules' \subseteq rules /\ last' = last
  BY <1>1 DEF IdsGiven
<1>2. ASSUME last < MaxAdds, last' = (last + 1) % IdMod, NEW c,
             rules' = rules \union {[id |-> last', content |-> c]}
      PROVE  IdsGiven'
  <2>1. last \in Nat /\ MaxAdds \in Nat /\ IdMod \in Nat \ {0}
    BY ShellAssumption DEF IdsGiven
  <2>2. last + 1 < IdMod
    BY <1>2, <2>1 DEF NoWrap
  <2>3. last' = last + 1
    BY <1>2, <2>1, <2>2
  <2>4. last' \in 0..MaxAdds /\ \A i \in 1..last : i \in 1..last'
    BY <1>2, <2>1, <2>3
  <2>5. last' \in 1..last'
    BY <2>1, <2>3
  <2> QED
    BY <1>2, <2>4, <2>5 DEF IdsGiven
<1>3. CASE \E line \in RuleLines : RuleLine(line)
  BY <1>1, <1>2, <1>3, RuleCommands DEF setVars
<1>4. CASE ~\E line \in RuleLines : RuleLine(line)
  BY <1>1, <1>4 DEF ShellNext, EnterRule, EnterIo, Exit, IoLine, shellVars, setVars
<1> QED
  BY <1>3, <1>4

\* As long as no more rules were added than the set has places, "del all"
\* leaves none.
THEOREM DelAllLeavesNone == NoWrap => (ShellSpec => DelAllEmpties)
<1> SUFFICES ASSUME NoWrap PROVE ShellSpec => DelAllEmpties
  OBVIOUS
<1>1. ShellInit => IdsGiven
  BY ShellAssumption DEF ShellInit, Set!Init, IdsGiven
<1>2. SessionInv /\ IdsGiven /\ [ShellNext]_shellVars =>
        [typed' # typed /\ command' = [op |-> "del", all |-> TRUE] /\ last <= Cap
           => rules' = {}]_shellVars
  <2> SUFFICES ASSUME SessionInv, IdsGiven, ShellNext, typed' # typed,
                      command' = [op |-> "del", all |-> TRUE], last <= Cap
               PROVE  rules' = {}
    OBVIOUS
  <2>1. command'.op = "del" /\ command'.all
    OBVIOUS
  <2>2. PICK line \in RuleLines : RuleLine(line)
    <3>1. ASSUME NEW line \in IoLines, IoLine(line) PROVE FALSE
      <4>1. command' = IoCommandOf(argv')
        BY <3>1 DEF IoLine, Typed
      <4> QED
        BY <2>1, <4>1 DEF IoCommandOf, None
    <3> QED
      BY <2>1, <3>1 DEF ShellNext, EnterRule, EnterIo, Exit, None, sessionVars
  <2>3. Delete({id % ByteMod : id \in AllIds})
    BY <2>1, <2>2 DEF RuleLine
  <2>4. \A i \in 1..last : i \in {id % ByteMod : id \in AllIds}
    <3>1. /\ Cap \in Nat /\ ByteMod \in Nat /\ Cap < ByteMod
          /\ last \in Nat
      BY ShellAssumption DEF IdsGiven
    <3>2. \A i \in 1..last : i \in AllIds /\ i % ByteMod = i
      BY <3>1 DEF AllIds
    <3> QED
      BY <3>2
  <2> QED
    BY <2>3, <2>4 DEF Delete, IdsGiven
<1> QED
  BY <1>1, <1>2, IdsGivenNext, SessionInvariance, PTL DEF ShellSpec, DelAllEmpties
-----------------------------------------------------------------------------
(* Lines that stand alone.                                                 *)

\* A line on an argv that holds nothing else.
Padded(line) == [i \in Words |-> IF i <= Len(line) THEN line[i] ELSE Nothing]

LEMMA SamePrefix ==
  ASSUME NEW line \in RuleLines \union IoLines
  PROVE  /\ Len(line) \in Nat /\ Len(line) <= Width
         /\ \A i \in 1..Len(line) : Stored(line)[i] = line[i] /\ Padded(line)[i] = line[i]
<1>1. Len(line) \in Nat /\ Len(line) <= Width /\ Width \in Nat
  BY ShellAssumption
<1>2. \A i \in 1..Len(line) : i \in Words /\ i <= Len(line)
  BY <1>1 DEF Words
<1> QED
  BY <1>1, <1>2 DEF Stored, Padded

LEMMA TakeKeySame ==
  ASSUME NEW a, NEW b, NEW n \in Nat, \A i \in 1..n : a[i] = b[i],
         NEW key \in AddKeys, NEW s, s.idx \in 1..n,
         a[n].k = "number", a[n - 1].k = "prio"
  PROVE  /\ TakeKey(a, s, key) = TakeKey(b, s, key)
         /\ key # "prio" => TakeKey(a, s, key).idx \in 1..n
<1>1. CASE a[s.idx].k = key
  <2>1. s.idx # n /\ (key # "prio" => s.idx # n - 1)
    BY <1>1 DEF AddKeys
  <2>2. s.idx + 1 \in 1..n /\ (key # "prio" => s.idx + 2 \in 1..n)
    BY <2>1
  <2> QED
    BY <1>1, <2>2 DEF TakeKey
<1>2. CASE a[s.idx].k # key
  BY <1>2 DEF TakeKey
<1> QED
  BY <1>1, <1>2

LEMMA TakenSame ==
  ASSUME NEW a, NEW b, NEW n \in Nat, n >= 2, \A i \in 1..n : a[i] = b[i],
         a[n].k = "number", a[n - 1].k = "prio"
  PROVE  Taken(a) = Taken(b)
<1> DEFINE s0 == [idx |-> 2, val |-> [key \in AddKeys |-> 0]]
           s1 == TakeKey(a, s0, "imask.up")
           s2 == TakeKey(a, s1, "imask.down")
           s3 == TakeKey(a, s2, "omask.up")
           s4 == TakeKey(a, s3, "omask.down")
           s5 == TakeKey(a, s4, "prio")
           t1 == TakeKey(b, s0, "imask.up")
           t2 == TakeKey(b, t1, "imask.down")
           t3 == TakeKey(b, t2, "omask.up")
           t4 == TakeKey(b, t3, "omask.down")
           t5 == TakeKey(b, t4, "prio")
<1>1. Taken(a) = s5.val /\ Taken(b) = t5.val
  BY DEF Taken
<1>2. s0.idx \in 1..n
  OBVIOUS
<1>3. /\ "imask.up" \in AddKeys /\ "imask.down" \in AddKeys /\ "omask.up" \in AddKeys
      /\ "omask.down" \in AddKeys /\ "prio" \in AddKeys
  BY DEF AddKeys
<1> HIDE DEF s0, s1, s2, s3, s4, s5, t1, t2, t3, t4, t5
<1>4. \A s, key : s.idx \in 1..n /\ key \in AddKeys =>
        /\ TakeKey(a, s, key) = TakeKey(b, s, key)
        /\ key # "prio" => TakeKey(a, s, key).idx \in 1..n
  BY TakeKeySame
<1>5. s1 = t1 /\ s1.idx \in 1..n
  BY <1>2, <1>3, <1>4 DEF s1, t1
<1>6. s2 = t2 /\ s2.idx \in 1..n
  BY <1>3, <1>5, <1>4 DEF s2, t2
<1>7. s3 = t3 /\ s3.idx \in 1..n
  BY <1>3, <1>6, <1>4 DEF s3, t3
<1>8. s4 = t4 /\ s4.idx \in 1..n
  BY <1>3, <1>7, <1>4 DEF s4, t4
<1>9. s5 = t5
  BY <1>3, <1>8, <1>4 DEF s5, t5
<1> QED
  BY <1>1, <1>9

\* What the first word of argv decides.
LEMMA DelOrGet ==
  ASSUME NEW a, a[1].k \in {"del", "get"}
  PROVE  RuleCommandOf(a) = IF a[2].k = "all" THEN [op |-> a[1].k, all |-> TRUE]
                            ELSE [op |-> a[1].k, all |-> FALSE, id |-> a[2].n]
BY Zenon DEF RuleCommandOf

LEMMA Add ==
  ASSUME NEW a, a[1].k = "add"
  PROVE  RuleCommandOf(a) = LET c == ContentOf(Taken(a))
                            IN IF Sensible(c) THEN [op |-> "add", content |-> c]
                               ELSE [op |-> "invalid"]
BY DEF RuleCommandOf

LEMMA RuleLineAlone ==
  ASSUME NEW line \in RuleLines, session = "rule", Complete(line)
  PROVE  RuleCommandOf(Stored(line)) = RuleCommandOf(Padded(line))
<1> DEFINE a == Stored(line)
           b == Padded(line)
           n == Len(line)
<1>1. n \in Nat /\ n >= 2 /\ \A i \in 1..n : a[i] = line[i] /\ b[i] = line[i]
  BY SamePrefix DEF Complete
<1>2. /\ a[1] = line[1] /\ b[1] = line[1] /\ a[2] = b[2]
      /\ a[n] = line[n] /\ a[n - 1] = line[n - 1]
      /\ \A i \in 1..n : a[i] = b[i]
  BY <1>1
<1> HIDE DEF a, b
<1>3. ASSUME line[1].k \in {"get", "del"}
      PROVE  RuleCommandOf(a) = RuleCommandOf(b)
  <2>1. a[1].k \in {"del", "get"} /\ b[1].k \in {"del", "get"} /\ a[1].k = b[1].k
    BY <1>2, <1>3
  <2>2. RuleCommandOf(a) = IF a[2].k = "all" THEN [op |-> a[1].k, all |-> TRUE]
                           ELSE [op |-> a[1].k, all |-> FALSE, id |-> a[2].n]
    BY <2>1, DelOrGet
  <2>3. RuleCommandOf(b) = IF b[2].k = "all" THEN [op |-> b[1].k, all |-> TRUE]
                           ELSE [op |-> b[1].k, all |-> FALSE, id |-> b[2].n]
    BY <2>1, DelOrGet
  <2> QED
    BY <1>2, <2>1, <2>2, <2>3
<1>4. ASSUME line[1].k = "add"
      PROVE  RuleCommandOf(a) = RuleCommandOf(b)
  <2>1. a[n].k = "number" /\ a[n - 1].k = "prio"
    BY <1>2, <1>4 DEF Complete
  <2>2. Taken(a) = Taken(b)
    BY <1>1, <1>2, <2>1, TakenSame
  <2>3. a[1].k = "add" /\ b[1].k = "add"
    BY <1>2, <1>4
  <2> DEFINE c == ContentOf(Taken(a))
             made == IF Sensible(c) THEN [op |-> "add", content |-> c]
                     ELSE [op |-> "invalid"]
  <2>4. RuleCommandOf(a) = made
    BY <2>3, Add
  <2>5. RuleCommandOf(b) = made
    BY <2>2, <2>3, Add
  <2> QED
    BY <2>4, <2>5
<1> QED
  BY <1>3, <1>4 DEF Complete, a, b

LEMMA IoLineAlone ==
  ASSUME NEW line \in IoLines, session = "io", Complete(line)
  PROVE  IoCommandOf(Stored(line)) = IoCommandOf(Padded(line))
<1> DEFINE a == Stored(line)
           b == Padded(line)
<1>1. /\ Len(line) \in Nat /\ Len(line) >= 3
      /\ \A i \in 1..Len(line) : a[i] = line[i] /\ b[i] = line[i]
  BY SamePrefix DEF Complete
<1> HIDE DEF a, b
<1>2. a[1] = b[1] /\ a[2] = b[2] /\ a[3] = b[3]
  BY <1>1
<1> QED
  BY <1>2 DEF IoCommandOf, a, b

\* A rule session that has seen no line yet has an empty argv.
FreshSession == session = "rule" /\ typed = NoLine => argv = Blank

LEMMA FreshNext == FreshSession /\ [ShellNext]_shellVars => FreshSession'
<1> SUFFICES ASSUME FreshSession, [ShellNext]_shellVars PROVE FreshSession'
  OBVIOUS
<1>1. CASE EnterRule
  BY <1>1 DEF EnterRule, ClearedArgv, FreshSession
<1>2. CASE EnterIo \/ Exit
  BY <1>2 DEF EnterIo, Exit, FreshSession
<1>3. ASSUME NEW line \in RuleLines \union IoLines, Typed(line) PROVE FreshSession'
  BY <1>3, ShellAssumption DEF Typed, FreshSession
<1>4. CASE UNCHANGED sessionVars
  BY <1>4 DEF sessionVars, FreshSession
<1> QED
  BY <1>1, <1>2, <1>3, <1>4 DEF ShellNext, RuleLine, IoLine, shellVars

\* A complete line, and the first line of a rule session, is the same command
\* whatever argv held before it.
THEOREM CompleteLinesStandAlone == ShellSpec => LinesStandAlone
<1>1. ShellInit => FreshSession
  BY DEF ShellInit, FreshSession
<1>2. FreshSession /\ [ShellNext]_shellVars =>
        [typed' # typed /\ (Complete(typed') \/ (session = "rule" /\ typed = NoLine))
           => command' = Alone(typed')]_shellVars
  <2> SUFFICES ASSUME FreshSession, ShellNext, typed' # typed,
                      Complete(typed') \/ (session = "rule" /\ typed = NoLine)
               PROVE  command' = Alone(typed')
    OBVIOUS
  <2>1. typed' # NoLine
    <3>1. CASE Complete(typed')
      BY <3>1 DEF Complete, NoLine
    <3>2. CASE typed = NoLine
      BY <3>2
    <3> QED
      BY <3>1, <3>2
  <2>2. \/ \E line \in RuleLines : RuleLine(line)
        \/ \E line \in IoLines : IoLine(line)
    BY <2>1 DEF ShellNext, EnterRule, EnterIo, Exit, sessionVars
  <2>3. ASSUME NEW line \in RuleLines, RuleLine(line) PROVE command' = Alone(typed')
    <3>1. session = "rule" /\ typed' = line /\ command' = RuleCommandOf(Stored(line))
      BY <2>3 DEF RuleLine, Typed
    <3>2. Alone(line) = RuleCommandOf(Padded(line))
      BY <3>1 DEF Alone, Padded
    <3>3. CASE Complete(line)
      BY <3>1, <3>2, <3>3, RuleLineAlone
    <3>4. CASE typed = NoLine
      <4>1. Stored(line) = Padded(line)
        BY <3>1, <3>4 DEF FreshSession, Stored, Padded, Blank
      <4> QED
        BY <3>1, <3>2, <4>1
    <3> QED
      BY <3>1, <3>3, <3>4
  <2>4. ASSUME NEW line \in IoLines, IoLine(line) PROVE command' = Alone(typed')
    <3>1. session = "io" /\ typed' = line /\ command' = IoCommandOf(Stored(line))
      BY <2>4 DEF IoLine, Typed
    <3>2. Alone(line) = IoCommandOf(Padded(line))
      BY <3>1 DEF Alone, Padded
    <3> QED
      BY <3>1, <3>2, IoLineAlone
  <2> QED
    BY <2>2, <2>3, <2>4
<1> QED
  BY <1>1, <1>2, FreshNext, PTL DEF ShellSpec, LinesStandAlone
=============================================================================
