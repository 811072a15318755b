----------------------------- MODULE DemoProofs -----------------------------
(***************************************************************************)
(* Demo for every value of its constants. The rule thread's steps are      *)
(* those of a pass for whatever the coils were, so what MaskRuleProofs     *)
(* shows of the rule set and of a pass carries over; to it come the        *)
(* threads, the lock and what the callback does to the coils.              *)
(***************************************************************************)
EXTENDS Demo, MaskRuleProofs

-----------------------------------------------------------------------------
(* The invariant.                                                          *)

Wheres == {"none", "never", "loop", "asleep", "poll", "pass", "write", "ended"}
Mains  == {"create_stay", "create_rely", "check", "prompt", "join_stay", "join_rely",
           "free_rules", "close", "exited", "crashed"}
Gone   == {"ended", "never"}
Rounds == {"poll", "pass", "write"}

\* A thread that main has yet to create is nowhere, what it has joined is over
\* for good.
Joined ==
  /\ main \in {"create_stay", "create_rely"} => pc["rely"] = "none"
  /\ main \in {"join_rely", "free_rules", "close", "exited"} => pc["stay"] \in Gone
  /\ main \in {"free_rules", "close", "exited"} => pc["rely"] \in Gone

\* The lock keeps the coils as the callback has read them.
SeenIsTrue == pc["rely"] = "write" /\ seen.known => seen.on = coils

ThreadInv ==
  /\ main \in Mains /\ pc \in [Others -> Wheres]
  /\ pc["stay"] \in Wheres \ Rounds
  /\ lock = IF pc["rely"] \in Rounds THEN "rely" ELSE Nobody
  /\ running \in BOOLEAN /\ clean \in BOOLEAN
  /\ coils \subseteq Bits
  /\ polled \in [sendable : BOOLEAN, on : SUBSET Bits]
  /\ seen \in [known : BOOLEAN, on : SUBSET Bits]
  /\ Joined /\ SeenIsTrue

LEMMA ThreadsAreTyped == ThreadInv => DemoTypeOK
  BY DEF ThreadInv, DemoTypeOK, Mains, Wheres, Rounds, Others
-----------------------------------------------------------------------------
(* The rule set under the demo's steps.                                    *)

\* The pass and its record are dropped when it is over.
PassDropped ==
  /\ Quiet /\ pass' = NoPass /\ calls' = <<>> /\ during' = {}
  /\ rs' = rs /\ sweep' = sweep

LEMMA DemoRuleSteps ==
  ASSUME ThreadInv, [DemoNext]_allVars
  PROVE  [RuleNext]_vars \/ PassDropped
<1>1. CASE UNCHANGED ruleVars
  BY <1>1 DEF ruleVars, vars
<1>2. CASE RuleCommand
  BY <1>2 DEF RuleCommand, RuleNext
<1>3. ASSUME NEW m \in SUBSET Bits, BeginPass(m) PROVE [RuleNext]_vars
  BY <1>3 DEF BeginPass, RuleNext, AnyMatch, ruleVars, vars
<1>4. CASE PollDone \/ PollException
  <2>1. coils \in SUBSET Bits /\ polled.on \in SUBSET Bits
    BY DEF ThreadInv
  <2> QED
    BY <1>3, <1>4, <2>1 DEF PollDone, PollException
<1>5. CASE PassGoesOn
  BY <1>5 DEF PassGoesOn, RuleNext
<1>6. CASE WriteCoils \/ CallbackGivesUp
  BY <1>6 DEF WriteCoils, CallbackGivesUp, RuleNext
<1>7. CASE PassOver
  BY <1>7 DEF PassOver, PassDropped
<1>8. CASE MainStep
  BY <1>1, <1>8 DEF MainStep, Create
<1>9. CASE OtherCommand \/ ExitCommand \/ SetCoil \/ Sigint
  BY <1>1, <1>9 DEF OtherCommand, ExitCommand, SetCoil, Sigint
<1>10. CASE StayStep \/ Loop("rely") \/ Acquire \/ PollFails \/ ReadCoils \/ Astray
  BY <1>1, <1>10 DEF StayStep, StayRound, Loop, Acquire, PollFails, ReadCoils, Astray
<1>11. CASE UNCHANGED allVars
  BY <1>1, <1>11 DEF allVars
<1> QED
  BY <1>2, <1>4, <1>5, <1>6, <1>7, <1>8, <1>9, <1>10, <1>11
     DEF DemoNext, Operator, RelyStep

LEMMA RuleInvDemo == ThreadInv /\ RuleInv /\ [DemoNext]_allVars => RuleInv'
<1> SUFFICES ASSUME ThreadInv, RuleInv, [DemoNext]_allVars PROVE RuleInv'
  OBVIOUS
<1>1. CASE [RuleNext]_vars
  BY <1>1, RuleInvNext
<1>2. CASE PassDropped
  <2>1. CursorSound(rs, NoPass)
    BY NoPassSound
  <2> QED
    BY <1>2, <2>1 DEF PassDropped, RuleInv
<1> QED
  BY <1>1, <1>2, DemoRuleSteps
-----------------------------------------------------------------------------
(* The threads.                                                            *)

LEMMA ThreadInit == DemoInit => ThreadInv
  BY DEF DemoInit, ThreadInv, Mains, Wheres, Rounds, Others, Joined, SeenIsTrue, Unread

\* What the rule that is called moves are coils.
LEMMA OutputType ==
  ASSUME ThreadInv, RuleInv, pass.status = "callback"
  PROVE  Output(seen, RuleNow.omask) \subseteq Bits
<1>1. pass.pos \in Node /\ rs.node \in [Node -> Rule]
  BY SoundTypes DEF RuleInv, CursorSound
<1>2. RuleNow.omask \in Mask
  BY <1>1 DEF RuleNow, Rule
<1> QED
  BY <1>2 DEF ThreadInv, Output, Mask

LEMMA ThreadNext == ThreadInv /\ RuleInv /\ [DemoNext]_allVars => ThreadInv'
<1> SUFFICES ASSUME ThreadInv, RuleInv, [DemoNext]_allVars PROVE ThreadInv'
  OBVIOUS
<1> USE DEF ThreadInv, Others, Nobody, Joined, SeenIsTrue, Gone
<1>1. ASSUME NEW t \in Others, NEW here, NEW next, Create(t, here, next),
             here \in {"create_stay", "create_rely"}, next \in {"create_rely", "check"},
             next = "create_rely" => t = "stay"
      PROVE  ThreadInv'
  <2>1. PICK where \in {"loop", "never"} : pc' = [pc EXCEPT ![t] = where]
    BY <1>1 DEF Create, Goto
  <2>2. /\ pc' \in [Others -> Wheres] /\ pc["rely"] = "none"
        /\ pc'["stay"] \in Wheres \ Rounds /\ pc'["rely"] \in Wheres \ Rounds
    BY <1>1, <2>1 DEF Create, Wheres, Rounds
  <2>3. lock' = Nobody /\ main' = next
    BY <1>1, <2>2 DEF Create, Rounds
  <2>4. Joined'
    BY <1>1, <2>1, <2>2, <2>3
  <2> QED
    BY <1>1, <2>2, <2>3, <2>4 DEF Create, Mains, Rounds, deviceVars
<1>2. CASE /\ WorkGoesOn \/ Join("stay", "join_stay", "join_rely") \/ JoinRely
              \/ FreeRules \/ CloseContext
           /\ UNCHANGED <<ruleVars, pc, lock, running, deviceVars>>
  BY <1>2 DEF WorkGoesOn, Join, JoinRely, FreeRules, CloseContext, Mains, Rounds, deviceVars
<1>3. CASE MainStep
  BY <1>1, <1>2, <1>3 DEF MainStep
<1>4. CASE OtherCommand \/ ExitCommand \/ Sigint
  BY <1>4 DEF OtherCommand, ExitCommand, Sigint, deviceVars, Mains, Rounds
<1>5. CASE RuleCommand
  BY <1>5 DEF RuleCommand, demoVars, deviceVars
<1>6. CASE SetCoil
  <2>1. pc["rely"] \notin Rounds
    BY <1>6 DEF SetCoil, LockFree
  <2> QED
    BY <1>6, <2>1 DEF SetCoil, Mains, Rounds
<1>7. ASSUME NEW t \in Others, Loop(t) PROVE ThreadInv'
  BY <1>7 DEF Loop, Goto, Wheres, Rounds, deviceVars
<1>8. CASE StayRound
  BY <1>8 DEF StayRound, Goto, Wheres, Rounds, deviceVars
<1>9. CASE Acquire
  BY <1>9 DEF Acquire, LockFree, Goto, Wheres, Rounds, deviceVars
<1>10. CASE PollFails
  BY <1>10 DEF PollFails, Release, Goto, Wheres, Rounds, deviceVars
<1>11. CASE PollDone \/ PollException
  <2>0. clean' \in BOOLEAN
    BY <1>11 DEF PollDone, PollException
  <2>1. polled' \in [sendable : BOOLEAN, on : SUBSET Bits]
    <3>1. CASE PollDone
      <4>1. /\ polled' = [polled EXCEPT !.on = coils] /\ coils \in SUBSET Bits
            /\ polled \in [sendable : BOOLEAN, on : SUBSET Bits]
        BY <3>1 DEF PollDone
      <4> QED
        BY ONLY <4>1
    <3>2. CASE PollException
      <4>1. polled' = [sendable |-> FALSE, on |-> {}]
        BY <3>2 DEF PollException
      <4> QED
        BY <4>1
    <3> QED
      BY <1>11, <3>1, <3>2
  <2>2. ASSUME NEW m, BeginPass(m), pc["rely"] = "poll"
        PROVE  /\ pc' \in [Others -> Wheres] /\ pc'["stay"] = pc["stay"]
               /\ pc'["rely"] \in {"loop", "pass"}
               /\ lock' = IF pc'["rely"] \in Rounds THEN "rely" ELSE Nobody
    BY <2>2 DEF BeginPass, Release, Goto, Wheres, Rounds
  <2>3. /\ pc["rely"] = "poll" /\ (BeginPass(coils) \/ BeginPass(polled.on))
        /\ UNCHANGED <<main, running, coils, seen>>
    BY <1>11 DEF PollDone, PollException
  <2>4. /\ pc' \in [Others -> Wheres] /\ pc'["stay"] = pc["stay"]
        /\ pc'["rely"] \in {"loop", "pass"}
        /\ lock' = IF pc'["rely"] \in Rounds THEN "rely" ELSE Nobody
    BY <2>2, <2>3
  <2>5. Joined'
    BY <2>3, <2>4
  <2> QED
    BY <2>0, <2>1, <2>3, <2>4, <2>5
<1>12. CASE PassGoesOn
  BY <1>12 DEF PassGoesOn, demoVars, deviceVars
<1>13. CASE ReadCoils
  <2>0. clean' \in BOOLEAN
    BY <1>13 DEF ReadCoils
  <2>1. CASE seen' = Read(coils)
    <3>1. /\ seen' \in [known : BOOLEAN, on : SUBSET Bits]
          /\ seen'.known => seen'.on = coils
      BY <2>1 DEF Read
    <3> QED
      BY <1>13, <2>0, <3>1 DEF ReadCoils, InPass, Goto, Wheres, Rounds
  <2>2. CASE seen' = Unread
    <3>1. /\ seen' \in [known : BOOLEAN, on : SUBSET Bits]
          /\ ~seen'.known
      BY <2>2 DEF Unread
    <3> QED
      BY <1>13, <2>0, <3>1 DEF ReadCoils, InPass, Goto, Wheres, Rounds
  <2> QED
    BY <1>13, <2>1, <2>2 DEF ReadCoils, InPass, Goto, Wheres, Rounds
<1>14. CASE WriteCoils
  <2>1. Output(seen, RuleNow.omask) \subseteq Bits
    BY <1>14, OutputType DEF WriteCoils, CallbackOk
  <2> QED
    BY <1>14, <2>1 DEF WriteCoils, Goto, Wheres, Rounds, Unread
<1>15. CASE CallbackGivesUp
  <2>1. Output(seen, RuleNow.omask) \subseteq Bits
    BY <1>15, OutputType DEF CallbackGivesUp, CallbackFails
  <2> QED
    BY <1>15, <2>1 DEF CallbackGivesUp, InPass, Goto, Wheres, Rounds, Unread
<1>16. CASE Astray
  BY <1>16 DEF Astray, Mains, Rounds, deviceVars
<1>17. CASE PassOver
  BY <1>17 DEF PassOver, InPass, Release, Goto, Wheres, Rounds
<1>18. CASE UNCHANGED allVars
  BY <1>18 DEF allVars, demoVars, deviceVars
<1> QED
  BY <1>3, <1>4, <1>5, <1>6, <1>7, <1>8, <1>9, <1>10, <1>11, <1>12, <1>13, <1>14, <1>15,
     <1>16, <1>17, <1>18
     DEF DemoNext, Operator, StayStep, RelyStep

\* resc_init, work and resc_uinit keep threads, lock and coils consistent, and
\* the rules sound under everything that main.c does with them.
THEOREM DemoInvariance == DemoSpec => [](ThreadInv /\ RuleInv)
<1>1. DemoInit => ThreadInv /\ RuleInv
  BY ThreadInit, RuleInvInit DEF DemoInit
<1>2. (ThreadInv /\ RuleInv) /\ [DemoNext]_allVars => (ThreadInv /\ RuleInv)'
  BY ThreadNext, RuleInvDemo
<1> QED
  BY <1>1, <1>2, PTL DEF DemoSpec

\* Each thread is where its code can be, and the lock belongs to the rule
\* thread exactly while it is in a round.
THEOREM DemoTypeCorrect == DemoSpec => []DemoTypeOK
  BY ThreadsAreTyped, DemoInvariance, PTL

\* mask_rule_exit and sp_mb_close come after both threads are over, wherever
\* SIGINT or "exit" has met them.
THEOREM NothingFreedInUse == DemoSpec => []FreedAfterThreads
<1>1. ThreadInv => FreedAfterThreads
  BY DEF ThreadInv, Joined, FreedAfterThreads, Others, Gone
<1> QED
  BY <1>1, DemoInvariance, PTL
-----------------------------------------------------------------------------
(* What a callback does to the coils.                                      *)

\* The node whose callback is under way is still the rule that was called, or
\* has been deleted, unless it may have been taken for a new rule since.
LastCallInv ==
  /\ calls \in Seq(Rule)
  /\ pass.status = "callback" /\ "added" \notin during =>
       /\ calls # <<>>
       /\ rs.node[pass.pos].omask \in {calls[Len(calls)].omask, NoMask}

LEMMA DeletedMasks ==
  ASSUME NEW r, Sound(r), NEW n \in Node, r.node[n].valid, NEW m \in Node
  PROVE  Deleted(r, n).node[m].omask \in {r.node[m].omask, NoMask}
<1>1. Leaves(r, n, r.node[n].priority, Deleted(r, n))
  BY DeletedFields
<1>2. /\ Deleted(r, n).node = [r.node EXCEPT ![n] = GoneRule(r, n)]
      /\ GoneRule(r, n).omask = NoMask
      /\ r.node \in [Node -> Rule]
  BY <1>1, SoundTypes DEF Leaves, GoneRule
<1> QED
  BY <1>2

LEMMA LastCallNext == RuleInv /\ LastCallInv /\ [RuleNext]_vars => LastCallInv'
<1> SUFFICES ASSUME RuleInv, LastCallInv, [RuleNext]_vars PROVE LastCallInv'
  OBVIOUS
<1>0. Sound(rs) /\ CursorSound(rs, pass) /\ rs.node \in [Node -> Rule]
  BY SoundTypes DEF RuleInv
<1>1. CASE Visit
  <2> DEFINE n == pass.pos
             r == NotInEffect(rs, n)
  <2>1. n \in Node /\ Sound(r) /\ OnlyMarks(rs, rs') /\ OnlyMarks(rs, r)
    BY <1>1, VisitMarks
  <2>2. r.node[n] \in Rule /\ r.node[n].omask = rs'.node[n].omask
    BY <2>1, SoundTypes DEF OnlyMarks
  <2>3. CASE Skips(r)
    <3>1. pass' = Advance(r) /\ calls' = calls
      BY <1>1, <2>3 DEF Visit
    <3>2. pass'.status = "visit"
      BY <1>0, <3>1, AdvanceMoves DEF Moves
    <3> QED
      BY <3>1, <3>2 DEF LastCallInv
  <2>4. CASE ~Skips(r)
    <3>1. pass' = [pass EXCEPT !.status = "callback"] /\ calls' = Append(calls, r.node[n])
      BY <1>1, <2>4 DEF Visit
    <3>2. pass'.pos = n
      BY <1>0, <3>1, StatusMoves
    <3> HIDE DEF r, n
    <3>3. /\ calls' \in Seq(Rule) /\ calls' # <<>>
          /\ calls'[Len(calls')] = r.node[n]
      BY <2>2, <3>1 DEF LastCallInv
    <3> QED
      BY <2>2, <3>2, <3>3 DEF LastCallInv
  <2> QED
    BY <2>3, <2>4
<1>2. CASE AnyMatch \/ AtHead \/ VisitInvalid \/ CallbackOk \/ CallbackFails
  <2>1. pass'.status # "callback"
    <3>1. CASE AnyMatch
      <4>1. PICK m \in SUBSET Bits : pass' = [Enter(rs, 1) EXCEPT !.mask = m]
        BY <3>1 DEF AnyMatch, MatchMask
      <4> QED
        BY <1>0, <4>1, EnterStarts DEF Starts
    <3>2. CASE AtHead
      <4>1. pass.status = "visit"
        BY <3>2 DEF AtHead
      <4>2. CASE \E st \in {"wild", "done"} : pass' = [pass EXCEPT !.status = st]
        BY <1>0, <4>2, StatusMoves
      <4>3. CASE pass' = Enter(rs, pass.list + 1)
        BY <1>0, <4>3, EnterStarts DEF Starts
      <4> QED
        BY <3>2, <4>2, <4>3 DEF AtHead
    <3>3. CASE VisitInvalid \/ CallbackFails
      BY <1>0, <3>3, StatusMoves DEF VisitInvalid, CallbackFails
    <3>4. CASE CallbackOk
      BY <1>0, <3>4, AdvanceMoves DEF CallbackOk, Moves
    <3> QED
      BY <1>2, <3>1, <3>2, <3>3, <3>4
  <2>2. calls' = <<>> \/ calls' = calls
    BY <1>2 DEF AnyMatch, MatchMask, AtHead, VisitInvalid, CallbackOk, CallbackFails
  <2>3. calls' \in Seq(Rule)
    <3>1. calls \in Seq(Rule) /\ <<>> \in Seq(Rule)
      BY DEF LastCallInv
    <3> QED
      BY ONLY <2>2, <3>1
  <2> QED
    BY <2>1, <2>3 DEF LastCallInv
<1>3. CASE UNCHANGED vars
  BY <1>3 DEF vars, LastCallInv
<1>4. ASSUME NEW r, NEW how, Changed(r, how),
             \/ how = "added"
             \/ /\ how = "removed"
                /\ \A m \in Node : r.node[m].omask \in {rs.node[m].omask, NoMask}
      PROVE  LastCallInv'
  <2>1. CASE pass' = NoPass /\ calls' = <<>>
    BY <2>1 DEF NoPass, LastCallInv
  <2>2. CASE rs' = rs /\ during' = during /\ pass' = pass /\ calls' = calls
    BY <2>2 DEF LastCallInv
  <2>3. CASE /\ rs' = r /\ during' = during \union {how}
             /\ pass' = pass /\ calls' = calls
    <3>1. CASE how = "added"
      BY <2>3, <3>1 DEF LastCallInv
    <3>2. CASE \A m \in Node : r.node[m].omask \in {rs.node[m].omask, NoMask}
      <4>1. pass.status = "callback" => pass.pos \in Node
        BY <1>0 DEF CursorSound
      <4> QED
        BY <2>3, <3>2, <4>1 DEF LastCallInv
    <3> QED
      BY <1>4, <3>1, <3>2
  <2> QED
    BY <1>4, <2>1, <2>2, <2>3, ChangedMeans
<1>5. CASE Add
  BY <1>4, <1>5 DEF Add, AddContent
<1>6. CASE (\E id \in 1..MaxAdds : Del(id)) \/ DelAll \/ DelNext
  <2>1. PICK id \in Int : Changed(DelId(rs, id), "removed")
    <3>1. sweep \in Int /\ 1..MaxAdds \subseteq Int /\ 1..Cap \subseteq Int
      BY MaskRuleAssumption DEF RuleInv
    <3> QED
      BY <1>6, <3>1 DEF Del, DelAll, DelNext, DelFrom
  <2>2. \A m \in Node : DelId(rs, id).node[m].omask \in {rs.node[m].omask, NoMask}
    BY <1>0, DelIdDeletes, DeletedMasks
  <2> QED
    BY <1>4, <2>1, <2>2
<1> QED
  BY <1>1, <1>2, <1>3, <1>5, <1>6 DEF RuleNext, PassStep

\* While mask_rule_macth waits for its callback the node is still that rule's,
\* unless rules have been added since.
THEOREM LastCallInvariance == DemoSpec => []LastCallInv
<1>1. DemoInit => LastCallInv
  BY DEF DemoInit, Init, NoPass, LastCallInv
<1>2. ThreadInv /\ RuleInv /\ LastCallInv /\ [DemoNext]_allVars => LastCallInv'
  <2> SUFFICES ASSUME ThreadInv, RuleInv, LastCallInv, [DemoNext]_allVars PROVE LastCallInv'
    OBVIOUS
  <2>1. CASE PassDropped
    BY <2>1 DEF PassDropped, NoPass, LastCallInv
  <2> QED
    BY <2>1, LastCallNext, DemoRuleSteps
<1> QED
  BY <1>1, <1>2, DemoInvariance, PTL DEF DemoSpec

\* io_rely_handle writes back what it has read: a coil its rule does not name
\* keeps what the operator, the other rules or the device made of it.
THEOREM CallbacksKeepToTheirOutputs == DemoSpec => CallbackTouchesItsOutputsOnly
<1> DEFINE Touch ==
      LET r == calls[Len(calls)]
      IN lock = "rely" /\ coils' # coils /\ seen.known /\ "added" \notin during
           => /\ coils' \ coils \subseteq r.omask.up
              /\ coils \ coils' \subseteq r.omask.down
<1>1. ThreadInv /\ LastCallInv /\ [DemoNext]_allVars => Touch
  <2> SUFFICES ASSUME ThreadInv, LastCallInv, [DemoNext]_allVars,
                      lock = "rely", coils' # coils, seen.known, "added" \notin during,
                      NEW r, r = calls[Len(calls)]
               PROVE  coils' \ coils \subseteq r.omask.up /\ coils \ coils' \subseteq r.omask.down
    OBVIOUS
  <2>1. CASE WriteCoils \/ CallbackGivesUp
    <3>1. /\ pass.status = "callback" /\ pc["rely"] = "write"
          /\ coils' = Output(seen, RuleNow.omask)
      BY <2>1 DEF WriteCoils, CallbackOk, CallbackGivesUp, CallbackFails
    <3>2. seen.on = coils
      BY <3>1 DEF ThreadInv, SeenIsTrue
    <3>3. coils' = (coils \union RuleNow.omask.up) \ RuleNow.omask.down
      BY <3>1, <3>2 DEF Output
    <3>4. RuleNow.omask \in {r.omask, NoMask}
      BY <3>1 DEF LastCallInv, RuleNow
    <3> QED
      BY <3>3, <3>4 DEF NoMask
  <2>2. ~SetCoil
    BY DEF SetCoil, LockFree, Nobody
  <2>3. CASE MainStep
    BY <2>3 DEF MainStep, Create, deviceVars
  <2>4. CASE OtherCommand \/ ExitCommand \/ RuleCommand \/ Sigint \/ StayStep
    BY <2>4 DEF OtherCommand, ExitCommand, RuleCommand, Sigint, StayStep, StayRound, Loop,
                deviceVars, demoVars
  <2>5. CASE Loop("rely") \/ Acquire \/ PollDone \/ PollException \/ PollFails \/ PassGoesOn
             \/ ReadCoils \/ Astray \/ PassOver
    BY <2>5 DEF Loop, Acquire, PollDone, PollException, PollFails, PassGoesOn, ReadCoils,
                Astray, PassOver, deviceVars, demoVars
  <2>6. CASE UNCHANGED allVars
    BY <2>6 DEF allVars, demoVars, deviceVars
  <2> QED
    BY <2>1, <2>2, <2>3, <2>4, <2>5, <2>6 DEF DemoNext, Operator, RelyStep
<1> QED
  BY <1>1, DemoInvariance, LastCallInvariance, PTL DEF DemoSpec, CallbackTouchesItsOutputsOnly
-----------------------------------------------------------------------------
(* What a whole pass makes of the coils.                                   *)

DrivenIn(r, m, taken) ==
  (m \union UNION {r.node[n].omask.up : n \in taken})
    \ UNION {r.node[n].omask.down : n \in taken}

\* The rules whose callback is over.
DoneIn(r, c, s) ==
  IF c.status = "callback" THEN CalledIn(r, s) \ {c.pos} ELSE CalledIn(r, s)

\* The coils are what was polled and the rules carried out so far.
SoDriven(r, c, s, on) ==
  c.status \in {"visit", "callback", "done"} => on = DrivenIn(r, c.mask, DoneIn(r, c, s))

LEMMA MarksDriveNothing ==
  ASSUME NEW r, NEW g, OnlyMarks(r, g), NEW m, NEW taken, taken \subseteq Node
  PROVE  DrivenIn(g, m, taken) = DrivenIn(r, m, taken)
<1>1. \A n \in taken : g.node[n].omask = r.node[n].omask
  BY DEF OnlyMarks
<1>2. /\ {g.node[n].omask.up : n \in taken} = {r.node[n].omask.up : n \in taken}
      /\ {g.node[n].omask.down : n \in taken} = {r.node[n].omask.down : n \in taken}
  BY <1>1
<1> QED
  BY <1>2 DEF DrivenIn

\* Going on to the next rule drives nothing.
LEMMA PassStepDrives ==
  ASSUME RuleInv, IdsSound(rs), PlacedInv, CallsInv, TakenInv, during = {}, PassStep,
         NEW on, SoDriven(rs, pass, calls, on)
  PROVE  SoDriven(rs', pass', calls', on)
<1>0. CursorSound(rs, pass)
  BY DEF RuleInv
<1>1. CASE AtHead
  <2>1. pass.status = "visit" /\ rs' = rs /\ calls' = calls
    BY <1>1 DEF AtHead
  <2>2. pass'.mask = pass.mask /\ pass'.status # "callback"
    <3>1. CASE \E st \in {"wild", "done"} : pass' = [pass EXCEPT !.status = st]
      BY <1>0, <3>1, StatusMoves, StatusMask
    <3>2. CASE pass' = Enter(rs, pass.list + 1)
      BY <1>0, <3>2, EnterStarts, EnterMask DEF Starts
    <3> QED
      BY <1>1, <3>1, <3>2 DEF AtHead
  <2> QED
    BY <2>1, <2>2 DEF SoDriven, DoneIn
<1>2. CASE VisitInvalid
  <2>1. pass'.status = "invalid"
    BY <1>0, <1>2, StatusMoves DEF VisitInvalid
  <2> QED
    BY <2>1 DEF SoDriven
<1>3. CASE Visit
  <2> DEFINE g == NotInEffect(rs, pass.pos)
             taken == CalledIn(rs, calls)
  <2>1. /\ OnlyMarks(rs, rs') /\ pass.status = "visit" /\ taken \subseteq Node
    BY <1>3, VisitMarks DEF CalledIn
  <2>2. on = DrivenIn(rs, pass.mask, taken)
    BY <2>1 DEF SoDriven, DoneIn
  <2>3. on = DrivenIn(rs', pass.mask, taken)
    BY <2>1, <2>2, MarksDriveNothing
  <2>4. CASE Skips(g)
    <3>1. pass' = Advance(g) /\ calls' = calls
      BY <1>3, <2>4 DEF Visit
    <3>2. pass'.mask = pass.mask /\ pass'.status # "callback"
      BY <1>0, <3>1, AdvanceMask, AdvanceMoves DEF Moves
    <3>3. CalledIn(rs', calls') = taken
      BY <2>1, <3>1, MarksKeepTaken
    <3> QED
      BY <2>3, <3>2, <3>3 DEF SoDriven, DoneIn
  <2>5. CASE ~Skips(g)
    <3>1. CalledIn(rs', calls') = taken \union {pass.pos} /\ pass.pos \notin taken
      BY <1>3, <2>5, CallTakes
    <3>2. pass' = [pass EXCEPT !.status = "callback"]
      BY <1>3, <2>5 DEF Visit
    <3>3. pass'.mask = pass.mask /\ pass'.status = "callback" /\ pass'.pos = pass.pos
      BY <1>0, <3>2, StatusMask, StatusMoves
    <3>4. DoneIn(rs', pass', calls') = taken
      BY <3>1, <3>3 DEF DoneIn
    <3> QED
      BY <2>3, <3>3, <3>4 DEF SoDriven
  <2> QED
    BY <2>4, <2>5
<1> QED
  BY <1>1, <1>2, <1>3 DEF PassStep

\* A callback that reads the coils and writes them carries its rule out: no
\* rule before it has driven its outputs the other way.
LEMMA CallbackDrives ==
  ASSUME RuleInv, IdsSound(rs), TakenInv, during = {}, pass.status = "callback",
         NEW s, s.known, SoDriven(rs, pass, calls, s.on)
  PROVE  Output(s, RuleNow.omask) = DrivenIn(rs, pass.mask, CalledIn(rs, calls))
<1> SUFFICES ASSUME NEW n, n = pass.pos, NEW taken, taken = CalledIn(rs, calls),
                    NEW up, up = rs.node[n].omask.up, NEW down, down = rs.node[n].omask.down
             PROVE  (s.on \union up) \ down = DrivenIn(rs, pass.mask, taken)
  BY DEF Output, RuleNow
<1>1. Settled(rs, pass, taken) /\ n \in taken
  BY DEF TakenInv, Taking, Settled
<1>2. n \in Node /\ rs.node[n].valid
  BY <1>1 DEF CalledIn
<1>3. TakenIn(rs, pass.mask, n, taken)
  <2>1. Behind(rs, pass, n)
    BY <1>1 DEF Settled
  <2> QED
    BY <1>1, <1>2, <2>1 DEF Settled
<1>4. ASSUME NEW x \in taken, x # n PROVE up \intersect rs.node[x].omask.down = {}
  <2>1. Earlier(rs.node[x], rs.node[n])
    BY <1>1, <1>2, <1>4 DEF Settled, Behind
  <2>2. ~Clash(rs.node[x], rs.node[n])
    BY <1>1, <1>3, <2>1 DEF TakenIn
  <2> QED
    BY <2>2 DEF Clash
<1>5. s.on = DrivenIn(rs, pass.mask, taken \ {n})
  BY DEF SoDriven, DoneIn
<1> DEFINE ups   == UNION {rs.node[x].omask.up : x \in taken \ {n}}
           downs == UNION {rs.node[x].omask.down : x \in taken \ {n}}
<1>6. up \intersect downs = {}
  BY <1>4
<1>7. /\ UNION {rs.node[x].omask.up : x \in taken} = ups \union up
      /\ UNION {rs.node[x].omask.down : x \in taken} = downs \union down
  BY <1>1
<1>8. s.on = (pass.mask \union ups) \ downs
  BY <1>5 DEF DrivenIn
<1>9. DrivenIn(rs, pass.mask, taken) = (pass.mask \union (ups \union up)) \ (downs \union down)
  BY <1>7 DEF DrivenIn
<1> HIDE DEF ups, downs
<1> QED
  BY <1>6, <1>8, <1>9

\* While every exchange of the pass is done and the rules stay as they are.
DrivenInv ==
  /\ pc["rely"] = "write" /\ clean => seen.known
  /\ pc["rely"] \in {"pass", "write"} /\ clean /\ during = {} =>
       SoDriven(rs, pass, calls, coils)

\* What MaskRuleProofs shows of a pass.
PassInv == IdsSound(rs) /\ PureMasks(rs) /\ PlacedInv /\ CallsInv /\ TakenInv

LEMMA PassInvInit == Init => PassInv
  BY IdsInit, PureInit, PlacedInit, CallsInit, TakenInit DEF PassInv

LEMMA PassInvDemo ==
  NoWrap /\ ThreadInv /\ RuleInv /\ PassInv /\ [DemoNext]_allVars => PassInv'
<1> SUFFICES ASSUME NoWrap, ThreadInv, RuleInv, PassInv, [DemoNext]_allVars PROVE PassInv'
  OBVIOUS
<1>1. CASE [RuleNext]_vars
  BY <1>1, IdsNext, PureNext, PlacedNext, CallsNext, TakenNext DEF PassInv
<1>2. CASE PassDropped
  <2>1. rs' = rs /\ pass' = NoPass /\ calls' = <<>>
    BY <1>2 DEF PassDropped
  <2>2. IdsSound(rs') /\ PureMasks(rs')
    BY <2>1 DEF PassInv
  <2>3. pass'.status = "idle"
    BY <2>1 DEF NoPass
  <2>4. PlacedInv' /\ CallsInv'
    BY <2>1, <2>3 DEF PlacedInv, CallsInv
  <2>5. TakenInv'
    BY <2>1, <2>3, NothingTaken DEF TakenInv
  <2> QED
    BY <2>2, <2>4, <2>5 DEF PassInv
<1> QED
  BY <1>1, <1>2, DemoRuleSteps

LEMMA MatchDrives ==
  ASSUME RuleInv, NEW m, MatchMask(m)
  PROVE  SoDriven(rs', pass', calls', m)
<1>1. /\ pass' = [Enter(rs, 1) EXCEPT !.mask = m] /\ calls' = <<>>
  BY DEF MatchMask
<1>2. pass'.status = "visit" /\ pass'.mask = m
  BY <1>1, EnterStarts, EnterMask DEF RuleInv, Starts
<1>3. DoneIn(rs', pass', calls') = {}
  BY <1>1, <1>2 DEF DoneIn, CalledIn
<1> QED
  BY <1>2, <1>3 DEF SoDriven, DrivenIn

LEMMA DrivenNext ==
  ThreadInv /\ RuleInv /\ PassInv /\ DrivenInv /\ [DemoNext]_allVars => DrivenInv'
<1> SUFFICES ASSUME ThreadInv, RuleInv, PassInv, DrivenInv, [DemoNext]_allVars PROVE DrivenInv'
  OBVIOUS
<1>1. CASE UNCHANGED <<ruleVars, pc, coils, clean, seen>>
  BY <1>1 DEF DrivenInv, ruleVars
<1>2. ASSUME pc'["rely"] \notin {"pass", "write"} PROVE DrivenInv'
  BY <1>2 DEF DrivenInv
<1>3. CASE MainStep
  <2>1. CASE UNCHANGED <<ruleVars, pc, lock, running, deviceVars>>
    BY <1>1, <2>1 DEF deviceVars
  <2>2. ASSUME NEW t \in Others, NEW here, NEW next, Create(t, here, next)
        PROVE  DrivenInv'
    <3>1. UNCHANGED <<ruleVars, coils, clean, seen>>
      BY <2>2 DEF Create, deviceVars
    <3>2. pc'["rely"] \in {"pass", "write"} => pc'["rely"] = pc["rely"]
      BY <2>2 DEF Create, Goto, ThreadInv, Others
    <3> QED
      BY <3>1, <3>2 DEF DrivenInv, ruleVars
  <2> QED
    BY <1>3, <2>1, <2>2 DEF MainStep, Others
<1>4. CASE OtherCommand \/ ExitCommand \/ Sigint \/ Astray
  BY <1>1, <1>4 DEF OtherCommand, ExitCommand, Sigint, Astray, deviceVars
<1>5. CASE RuleCommand
  <2>1. UNCHANGED demoVars /\ \E r, how : Changed(r, how)
    BY <1>5 DEF RuleCommand, Add, AddContent, Del, DelAll, DelNext, DelFrom
  <2>2. PICK r, how : Changed(r, how)
    BY <2>1
  <2>3. pc' = pc /\ clean' = clean /\ seen' = seen /\ coils' = coils
    BY <2>1 DEF demoVars, deviceVars
  <2>4. CASE pass' = NoPass
    BY <2>3, <2>4 DEF DrivenInv, SoDriven, NoPass
  <2>5. CASE rs' = rs /\ during' = during /\ pass' = pass /\ calls' = calls
    BY <2>3, <2>5 DEF DrivenInv
  <2>6. CASE during' = during \union {how}
    BY <2>3, <2>6 DEF DrivenInv
  <2> QED
    BY <2>2, <2>4, <2>5, <2>6, ChangedMeans
<1>6. CASE SetCoil
  <2>1. pc["rely"] \notin {"pass", "write"} /\ pc' = pc
    BY <1>6 DEF SetCoil, LockFree, ThreadInv, Rounds, Nobody
  <2> QED
    BY <1>2, <2>1
<1>7. CASE StayStep
  <2>1. pc'["rely"] = pc["rely"] /\ UNCHANGED <<ruleVars, coils, clean, seen>>
    BY <1>7 DEF StayStep, StayRound, Loop, Goto, ThreadInv, Others, deviceVars
  <2> QED
    BY <2>1 DEF DrivenInv, ruleVars
<1>8. CASE Loop("rely") \/ Acquire \/ PollFails \/ PassOver
  <2>1. pc'["rely"] \in {"asleep", "ended", "poll", "loop"}
    BY <1>8 DEF Loop, Acquire, PollFails, PassOver, Release, Goto, ThreadInv, Others
  <2> QED
    BY <1>2, <2>1
<1>9. CASE PollDone
  <2>1. coils' = coils /\ BeginPass(coils)
    BY <1>9 DEF PollDone
  <2>2. CASE MatchMask(coils) /\ Goto("rely", "pass")
    <3>1. pc'["rely"] = "pass"
      BY <2>2 DEF Goto, ThreadInv, Others
    <3>2. SoDriven(rs', pass', calls', coils)
      BY <2>2, MatchDrives
    <3> QED
      BY <2>1, <3>1, <3>2 DEF DrivenInv
  <2>3. CASE Release
    <3>1. pc'["rely"] = "loop"
      BY <2>3 DEF Release, Goto, ThreadInv, Others
    <3> QED
      BY <1>2, <3>1
  <2> QED
    BY <2>1, <2>2, <2>3 DEF BeginPass
<1>10. CASE PollException
  <2>1. clean' = (rs.rule_cnt = 0) /\ BeginPass(polled.on)
    BY <1>10 DEF PollException
  <2>2. CASE rs.rule_cnt = 0
    <3>1. pc'["rely"] = "loop"
      BY <2>1, <2>2 DEF BeginPass, Release, Goto, ThreadInv, Others
    <3> QED
      BY <1>2, <3>1
  <2>3. CASE rs.rule_cnt # 0
    BY <2>1, <2>3 DEF DrivenInv
  <2> QED
    BY <2>2, <2>3
<1>11. CASE PassGoesOn
  <2>1. PassStep /\ pc' = pc /\ clean' = clean /\ seen' = seen /\ coils' = coils
    BY <1>11 DEF PassGoesOn, demoVars, deviceVars
  <2>2. during' = during
    BY <2>1 DEF PassStep, AtHead, Visit, VisitInvalid
  <2>3. during = {} /\ SoDriven(rs, pass, calls, coils) => SoDriven(rs', pass', calls', coils)
    BY <2>1, PassStepDrives DEF PassInv
  <2> QED
    BY <2>1, <2>2, <2>3 DEF DrivenInv
<1>12. CASE ReadCoils
  <2>1. pc["rely"] = "pass" /\ UNCHANGED ruleVars /\ coils' = coils
    BY <1>12 DEF ReadCoils, InPass
  <2>2. clean' => clean /\ seen'.known
    <3>1. CASE seen' = Read(coils) /\ clean' = clean
      BY <3>1 DEF Read
    <3>2. CASE clean' = FALSE
      BY <3>2
    <3> QED
      BY <1>12, <3>1, <3>2 DEF ReadCoils
  <2> QED
    BY <2>1, <2>2 DEF DrivenInv, ruleVars
<1>13. CASE WriteCoils
  <2>1. /\ pc["rely"] = "write" /\ CallbackOk /\ pass.status = "callback"
        /\ rs' = rs /\ calls' = calls /\ during' = during
    BY <1>13 DEF WriteCoils, CallbackOk
  <2>2. pc'["rely"] = "pass"
    BY <1>13 DEF WriteCoils, Goto, ThreadInv, Others
  <2>3. clean' => clean /\ coils' = Output(seen, RuleNow.omask)
    BY <1>13 DEF WriteCoils
  <2>4. ASSUME clean', during = {} PROVE SoDriven(rs', pass', calls', coils')
    <3>1. seen.known /\ seen.on = coils /\ SoDriven(rs, pass, calls, coils)
      BY <2>1, <2>3, <2>4 DEF DrivenInv, ThreadInv, SeenIsTrue
    <3>2. coils' = DrivenIn(rs, pass.mask, CalledIn(rs, calls))
      BY <2>1, <2>3, <2>4, <3>1, CallbackDrives DEF PassInv
    <3>3. pass' = Advance(rs)
      BY <2>1 DEF CallbackOk
    <3>4. pass'.mask = pass.mask /\ pass'.status = "visit"
      BY <3>3, AdvanceMask, AdvanceMoves DEF Moves, RuleInv
    <3> QED
      BY <2>1, <3>2, <3>4 DEF SoDriven, DoneIn
  <2> QED
    BY <2>1, <2>2, <2>4 DEF DrivenInv
<1>14. CASE CallbackGivesUp
  BY <1>14 DEF CallbackGivesUp, DrivenInv
<1>15. CASE UNCHANGED allVars
  BY <1>1, <1>15 DEF allVars, demoVars, deviceVars
<1> QED
  BY <1>3, <1>4, <1>5, <1>6, <1>7, <1>8, <1>9, <1>10, <1>11, <1>12, <1>13, <1>14, <1>15
     DEF DemoNext, Operator, RelyStep

\* What is proved of mask_rule_macth alone holds between the demo's exchanges.
THEOREM PassInvariance == NoWrap => (DemoSpec => []PassInv)
<1> SUFFICES ASSUME NoWrap PROVE DemoSpec => []PassInv
  OBVIOUS
<1>1. DemoInit => PassInv
  BY PassInvInit DEF DemoInit
<1>2. ThreadInv /\ RuleInv /\ PassInv /\ [DemoNext]_allVars => PassInv'
  BY PassInvDemo
<1> QED
  BY <1>1, <1>2, DemoInvariance, PTL DEF DemoSpec

\* A pass without a fault leaves the device with what was polled and the rules
\* chosen by precedence, and with nothing else: no write of the operator's is
\* lost in between.
THEOREM CleanPassIsRight == NoWrap => (DemoSpec => []CleanPassDrivesOutputs)
<1> SUFFICES ASSUME NoWrap PROVE DemoSpec => []CleanPassDrivesOutputs
  OBVIOUS
<1>1. DemoInit => DrivenInv
  BY DEF DemoInit, DrivenInv, Others
<1>2. ThreadInv /\ RuleInv /\ PassInv /\ DrivenInv /\ [DemoNext]_allVars => DrivenInv'
  BY DrivenNext
<1>3. PassInv /\ DrivenInv => CleanPassDrivesOutputs
  <2> SUFFICES ASSUME PassInv, DrivenInv, pc["rely"] = "pass", pass.status = "done",
                      clean, during = {}
               PROVE  /\ \A n \in InUse : RightlyTaken(n, Called)
                      /\ coils = Driven(pass.mask, Called)
    BY DEF CleanPassDrivesOutputs
  <2>1. \A n \in InUse : RightlyTaken(n, Called)
    BY TakenMeans DEF PassInv, TakenInv, Taking, InUse
  <2>2. coils = DrivenIn(rs, pass.mask, Called)
    BY TakenMeans DEF DrivenInv, SoDriven, DoneIn
  <2> QED
    BY <2>1, <2>2 DEF Driven, DrivenIn
<1> QED
  BY <1>1, <1>2, <1>3, DemoInvariance, PassInvariance, PTL DEF DemoSpec

\* What MaskRule promises of passes and rules, the demo keeps.
THEOREM DemoKeepsRules ==
  NoWrap => (DemoSpec => [](CallsFollowPrecedence /\ NoOutputDrivenTwice
                            /\ PassSurvivesAdditions /\ ListsInIdOrder))
<1> SUFFICES ASSUME NoWrap
             PROVE  DemoSpec => [](CallsFollowPrecedence /\ NoOutputDrivenTwice
                                   /\ PassSurvivesAdditions /\ ListsInIdOrder)
  OBVIOUS
<1>1. PassInv => /\ CallsFollowPrecedence /\ NoOutputDrivenTwice
                 /\ PassSurvivesAdditions /\ ListsInIdOrder
  BY TakenIsPrecedence
     DEF PassInv, CallsInv, NoOutputDrivenTwice, PlacedInv, PassSurvivesAdditions, IdsSound,
         ListsInIdOrder
<1> QED
  BY <1>1, PassInvariance, PTL

\* And the demo's rule set is the set of RuleSet.
THEOREM DemoImplementsRuleSet == NoWrap => (DemoSpec => RuleSetSpec)
<1> SUFFICES ASSUME NoWrap PROVE DemoSpec => RuleSetSpec
  OBVIOUS
<1>1. DemoInit => Abstract!Init
  BY RuleSetInit DEF DemoInit
<1>2. ThreadInv /\ RuleInv /\ PassInv /\ [DemoNext]_allVars => [Abstract!Next]_(Abstract!vars)
  <2> SUFFICES ASSUME ThreadInv, RuleInv, PassInv, [DemoNext]_allVars
               PROVE  [Abstract!Next]_(Abstract!vars)
    OBVIOUS
  <2>1. CASE [RuleNext]_vars
    BY <2>1, RuleSetStep DEF PassInv
  <2>2. CASE PassDropped
    BY <2>2, ListedNow DEF PassDropped, Abstract!vars
  <2> QED
    BY <2>1, <2>2, DemoRuleSteps
<1> QED
  BY <1>1, <1>2, DemoInvariance, PassInvariance, PTL DEF DemoSpec, RuleSetSpec, Abstract!Spec
=============================================================================
