----------------------------- MODULE SpMbProofs -----------------------------
(***************************************************************************)
(* SpMb for every value of its constants: its types, the exclusion that    *)
(* the lock gives, and, over TCP, that a reply is never taken for the      *)
(* answer to another request; then what the frames between master and      *)
(* slave can be, and what follows for the records and replies that the     *)
(* threads work with; over TCP, that the exchange implements MbMaster.     *)
(***************************************************************************)
EXTENDS SpMb, SequenceTheorems, TLAPS

-----------------------------------------------------------------------------
(* Operators.                                                              *)

\* Decoding a reply into a record gives a record.
LEMMA DecapType ==
  ASSUME NEW i \in MBInfo, NEW p \in MBInfo
  PROVE  Decap(i, p) \in MBInfo
  BY DEF Decap, MBInfo, ExcBit, ReadCodes, SingleCodes, MultiCodes

\* Encoding a record gives a request.
LEMMA EncapType ==
  ASSUME NEW i \in MBInfo
  PROVE  Encap(i) \in WireReq
  BY SpMbAssumption DEF Encap, MBInfo, WireReq, ReadCodes, SingleCodes

\* Whatever a slave answers has the form of a record.
LEMMA PduType ==
  ASSUME NEW q \in WireReq
  PROVE  ExceptionPdus(q) \union AnswerPdus(q) \subseteq MBInfo
  BY SpMbAssumption DEF ExceptionPdus, AnswerPdus, WireReq, MBInfo, ExcBit

\* The transaction code steps up and wraps to 0.
LEMMA NextTxValue ==
  ASSUME tx \in 0..(TransMod - 1)
  PROVE  /\ NextTx \in 0..(TransMod - 1)
         /\ Transport = "tcp" => NextTx = IF tx + 1 = TransMod THEN 0 ELSE tx + 1
  BY SpMbAssumption DEF NextTx

LEMMA SlotType ==
  ASSUME TypeOK, NEW t \in Threads
  PROVE  SlotOf(t) \in Slots /\ InfoOf(t) \in MBInfo
  BY DEF TypeOK, SlotOf, InfoOf, Threads, Slots

LEMMA ConstantInfos ==
  /\ NoInfo \in MBInfo /\ PollInfo \in MBInfo
  /\ \A v \in Values : SetInfo(v) \in MBInfo
  BY SpMbAssumption DEF NoInfo, PollInfo, SetInfo, MBInfo
-----------------------------------------------------------------------------
(* Type correctness.                                                       *)

LEMMA TypeInit == Init => TypeOK
<1> SUFFICES ASSUME Init PROVE TypeOK
  OBVIOUS
<1> USE DEF Init
<1>1. info \in [Slots -> MBInfo] /\ ctx \in MBInfo
  BY ConstantInfos
<1>2. /\ lock \in Threads \union {NoThread}
      /\ pc \in [Threads -> {"idle", "send", "recv", "end"}]
      /\ stay \in BOOLEAN /\ rely \in BOOLEAN /\ late \in BOOLEAN
      /\ slot \in {"rely", "get", "set"}
      /\ mine \in [Threads -> Nat]
  OBVIOUS
<1>3. fired \in 0..MaxRules /\ tx \in 0..(TransMod - 1) /\ sends \in Nat
  BY SpMbAssumption
<1>4. /\ net \in Seq(Request) /\ rep \in Seq(Reply) /\ rx \in Seq(Reply)
      /\ conn \in {"up", "closed"}
  OBVIOUS
<1>5. /\ executed \subseteq Nat
      /\ accepted \in [req : Nat, rep : Nat, ok : BOOLEAN]
  BY DEF NothingAccepted
<1> QED
  BY <1>1, <1>2, <1>3, <1>4, <1>5 DEF TypeOK

\* A step of the operator, or of a thread taking or giving back the lock.
LEMMA TypeLock ==
  ASSUME TypeOK, NEW t \in Threads,
         \/ ToggleStay \/ ToggleRely
         \/ AcquireWork \/ AcquireStay \/ AcquireRely \/ Release(t)
  PROVE  TypeOK'
<1> USE DEF TypeOK, threadVars, flagVars, libVars, wireVars, ghostVars
<1>1. CASE ToggleStay
  BY <1>1 DEF ToggleStay
<1>2. CASE ToggleRely
  BY <1>2 DEF ToggleRely
<1>3. CASE AcquireWork
  BY <1>3, SpMbAssumption DEF AcquireWork, Goto, Threads, Slots
<1>4. CASE AcquireStay
  BY <1>4 DEF AcquireStay, Goto, Threads
<1>5. CASE AcquireRely
  BY <1>5 DEF AcquireRely, Goto, Threads
<1>6. CASE Release(t)
  <2>1. /\ info' \in [Slots -> MBInfo]
        /\ fired' \in 0..MaxRules
        /\ mine' \in [Threads -> Nat]
    <3>1. info' \in [Slots -> MBInfo]
      BY <1>6, ConstantInfos DEF Release
    <3>2. fired' \in 0..MaxRules
      BY <1>6, SpMbAssumption DEF Release
    <3>3. mine' \in [Threads -> Nat]
      BY <1>6 DEF Release
    <3> QED
      BY <3>1, <3>2, <3>3
  <2>2. accepted' \in [req : Nat, rep : Nat, ok : BOOLEAN]
    BY <1>6 DEF Release, NothingAccepted
  <2>3. pc' \in [Threads -> {"idle", "send", "recv", "end"}]
    BY <1>6 DEF Release, Goto
  <2>4. UNCHANGED <<stay, rely, ctx, tx, sends, net, rep, rx, conn, executed, late>>
    BY <1>6 DEF Release
  <2>5. lock' = NoThread /\ slot' = "rely"
    BY <1>6 DEF Release
  <2> QED
    BY <2>1, <2>2, <2>3, <2>4, <2>5
<1> QED
  BY <1>1, <1>2, <1>3, <1>4, <1>5, <1>6

\* A step of sp_mb_send.
LEMMA TypeSend ==
  ASSUME TypeOK, NEW t \in Threads,
         SendRejected(t) \/ SendRequest(t) \/ SendFails(t)
  PROVE  TypeOK'
<1> USE DEF TypeOK, threadVars, flagVars, libVars, wireVars, ghostVars
<1>1. CASE SendRejected(t)
  BY <1>1 DEF SendRejected, Goto
<1>2. ASSUME Numbered(t)
      PROVE  /\ ctx' \in MBInfo /\ tx' \in 0..(TransMod - 1) /\ sends' \in Nat
             /\ mine' \in [Threads -> Nat]
             /\ accepted' \in [req : Nat, rep : Nat, ok : BOOLEAN]
  BY <1>2, SlotType, NextTxValue DEF Numbered, NothingAccepted
<1>3. CASE SendRequest(t)
  <2>1. [id |-> sends + 1, trans |-> NextTx, req |-> Encap(InfoOf(t))] \in Request
    BY SlotType, NextTxValue, EncapType, SpMbAssumption DEF Request
  <2>2. net' \in Seq(Request)
    BY <1>3, <2>1 DEF SendRequest
  <2> QED
    BY <1>2, <1>3, <2>2 DEF SendRequest, Goto
<1>4. CASE SendFails(t)
  BY <1>2, <1>4 DEF SendFails, Goto
<1> QED
  BY <1>1, <1>3, <1>4

\* What a receive hands back to its caller, and what it decodes.
LEMMA TakenOutType ==
  ASSUME TypeOK, NEW t \in Threads, ctx' \in MBInfo
  PROVE  TakenOut(t) \in [Slots -> MBInfo]
  BY SlotType DEF TypeOK, TakenOut

LEMMA FirstType ==
  ASSUME TypeOK, rx # <<>>
  PROVE  rx[1] \in Reply /\ Decap(ctx, rx[1].pdu) \in MBInfo
<1>1. rx[1] \in Reply
  BY DEF TypeOK
<1> QED
  BY <1>1, DecapType DEF TypeOK, Reply

LEMMA AcceptType ==
  ASSUME TypeOK, NEW t \in Threads, Accept(t)
  PROVE  /\ ctx' \in MBInfo
         /\ accepted' \in [req : Nat, rep : Nat, ok : BOOLEAN]
         /\ TakenOut(t) \in [Slots -> MBInfo]
<1>1. rx[1] \in Reply
  BY FirstType DEF Accept
<1>2. ctx' \in MBInfo
  BY <1>1, FirstType DEF Accept, Decoded, TypeOK, Reply, MBInfo
<1> QED
  BY <1>1, <1>2, TakenOutType DEF Accept, TypeOK, Reply

\* A receive that makes the connection again changes nothing else.
LEMMA OnlyTheConnection ==
  ASSUME NEW t \in Threads, RecvReconnects(t)
  PROVE  UNCHANGED <<lock, pc, slot, fired, stay, rely, info, ctx, tx, sends,
                     net, rep, rx, executed, mine, late, accepted>>
  BY DEF RecvReconnects, threadVars, flagVars, libVars, ghostVars

\* A step of sp_mb_recv, and what its caller does next.
LEMMA TypeRecv ==
  ASSUME TypeOK, NEW t \in Threads,
         \/ RecvFails(t) \/ RecvReconnects(t) \/ RecvRejects(t) \/ RecvEnds(t)
         \/ RecvThenGet \/ RecvThenSet
  PROVE  TypeOK'
<1>1. CASE RecvFails(t)
  BY <1>1, TakenOutType DEF TypeOK, RecvFails, Goto, wireVars, flagVars
<1>2. CASE RecvRejects(t)
  <2>1. ctx' \in MBInfo
    BY <1>2, FirstType DEF TypeOK, RecvRejects
  <2> QED
    BY <1>2, <2>1, TakenOutType DEF TypeOK, RecvRejects, Goto, flagVars, ghostVars
<1>3. CASE RecvEnds(t)
  BY <1>3, AcceptType DEF RecvEnds, Accept, TypeOK, Goto, flagVars
<1>4. CASE RecvThenGet
  <2>1. Accept("rely") /\ "rely" \in Threads
    BY <1>4 DEF RecvThenGet, Threads
  <2>2. info' \in [Slots -> MBInfo]
    BY <1>4, <2>1, AcceptType, ConstantInfos DEF RecvThenGet
  <2>3. fired' \in 0..MaxRules
    BY <1>4, SpMbAssumption DEF RecvThenGet, TypeOK
  <2> QED
    BY <1>4, <2>1, <2>2, <2>3, AcceptType
    DEF RecvThenGet, Accept, TypeOK, Goto, flagVars
<1>5. CASE RecvThenSet
  <2>1. Accept("rely") /\ "rely" \in Threads
    BY <1>5 DEF RecvThenSet, Threads
  <2>2. info' \in [Slots -> MBInfo]
    <3>1. PICK v \in Values : info' = [TakenOut("rely") EXCEPT !["set"] = SetInfo(v)]
      BY <1>5, SpMbAssumption DEF RecvThenSet
    <3>2. TakenOut("rely") \in [Slots -> MBInfo] /\ SetInfo(v) \in MBInfo
      BY <2>1, AcceptType, ConstantInfos
    <3> QED
      BY <3>1, <3>2
  <2> QED
    BY <1>5, <2>1, <2>2, AcceptType
    DEF RecvThenSet, Accept, TypeOK, Goto, flagVars
<1>6. CASE RecvReconnects(t)
  BY <1>6, OnlyTheConnection DEF TypeOK, RecvReconnects
<1> QED
  BY <1>1, <1>2, <1>3, <1>4, <1>5, <1>6

\* A step of the slave or of the line.
LEMMA TypeLine ==
  ASSUME TypeOK, Line
  PROVE  TypeOK'
<1> USE DEF TypeOK, threadVars, flagVars, libVars, ghostVars
<1>1. ASSUME net # <<>>
      PROVE  /\ net[1] \in Request /\ Tail(net) \in Seq(Request)
             /\ \A p \in ExceptionPdus(net[1].req) \union AnswerPdus(net[1].req) :
                  ReplyTo(p) \in Reply
  <2>1. net[1] \in Request /\ Tail(net) \in Seq(Request)
    BY <1>1
  <2>2. net[1].req \in WireReq
    BY <2>1 DEF Request
  <2> QED
    BY <2>1, <2>2, PduType DEF ReplyTo, Request, Reply
<1>2. ASSUME rep # <<>>
      PROVE  rep[1] \in Reply /\ Tail(rep) \in Seq(Reply)
  BY <1>2
<1>3. CASE SlaveAnswers
  <2>1. PICK p \in AnswerPdus(net[1].req) : rep' = Append(rep, ReplyTo(p))
    BY <1>3 DEF SlaveAnswers
  <2>2. net[1].id \in Nat /\ ReplyTo(p) \in Reply /\ Tail(net) \in Seq(Request)
    BY <1>1, <1>3 DEF SlaveAnswers, Request
  <2>3. rep' \in Seq(Reply)
    BY <2>1, <2>2
  <2> QED
    BY <1>3, <2>2, <2>3 DEF SlaveAnswers
<1>4. CASE SlaveRefuses
  <2>1. PICK p \in ExceptionPdus(net[1].req) : rep' = Append(rep, ReplyTo(p))
    BY <1>4 DEF SlaveRefuses
  <2> QED
    BY <1>1, <1>4, <2>1 DEF SlaveRefuses
<1>5. CASE Unanswered
  BY <1>1, <1>5 DEF Unanswered, Request
<1>6. CASE Deliver
  BY <1>2, <1>6 DEF Deliver
<1>7. CASE DeliverHead
  <2>1. [rep[1] EXCEPT !.part = "head"] \in Reply
    BY <1>2, <1>7 DEF DeliverHead, Reply
  <2>2. [rep EXCEPT ![1].part = "tail"] \in Seq(Reply)
    <3> DEFINE tail == [rep[1] EXCEPT !.part = "tail"]
    <3>1. tail \in Reply
      BY <1>2, <1>7 DEF DeliverHead, Reply
    <3>2. [rep EXCEPT ![1].part = "tail"] = [rep EXCEPT ![1] = tail]
      OBVIOUS
    <3>3. rep \in Seq(Reply) /\ 1 \in 1..Len(rep)
      BY <1>7 DEF DeliverHead
    <3> HIDE DEF tail
    <3> QED
      BY <3>1, <3>2, <3>3, ExceptSeq
  <2> QED
    BY <1>7, <2>1, <2>2 DEF DeliverHead
<1>8. CASE DeliverNoisy
  <2>1. PICK c \in NoiseCodes :
          rx' = Append(rx, [rep[1] EXCEPT !.pdu.code = c, !.clean = FALSE])
    BY <1>8 DEF DeliverNoisy
  <2>2. [rep[1] EXCEPT !.pdu.code = c, !.clean = FALSE] \in Reply
    BY <1>2, <1>8, SpMbAssumption DEF DeliverNoisy, Reply, MBInfo
  <2> QED
    BY <1>2, <1>8, <2>1, <2>2 DEF DeliverNoisy
<1>9. CASE ConnectionLost
  BY <1>9 DEF ConnectionLost
<1> QED
  BY <1>3, <1>4, <1>5, <1>6, <1>7, <1>8, <1>9 DEF Line

LEMMA TypeStep == TypeOK /\ [Next]_vars => TypeOK'
<1> SUFFICES ASSUME TypeOK, [Next]_vars PROVE TypeOK'
  OBVIOUS
<1>1. CASE ToggleStay \/ ToggleRely \/ AcquireWork \/ AcquireStay \/ AcquireRely
  BY <1>1, TypeLock DEF Threads
<1>2. CASE \E t \in Threads : Exchange(t)
  BY <1>2, TypeLock, TypeSend, TypeRecv DEF Exchange
<1>3. CASE RuleStep
  BY <1>3, TypeRecv DEF RuleStep, Threads
<1>4. CASE Line
  BY <1>4, TypeLine
<1>5. CASE UNCHANGED vars
  BY <1>5 DEF vars, TypeOK, threadVars, flagVars, libVars, wireVars, ghostVars
<1> QED
  BY <1>1, <1>2, <1>3, <1>4, <1>5 DEF Next

\* Every variable of the exchange keeps its type, the transaction code its
\* width.
THEOREM TypeCorrect == Spec => []TypeOK
<1> QED
  BY TypeInit, TypeStep, PTL DEF Spec
-----------------------------------------------------------------------------
(* The lock.                                                               *)

LEMMA ExclusionStep == TypeOK /\ OneExchange /\ [Next]_vars => OneExchange'
<1> SUFFICES ASSUME TypeOK, OneExchange, [Next]_vars PROVE OneExchange'
  OBVIOUS
<1> USE DEF OneExchange
<1>1. pc \in [Threads -> {"idle", "send", "recv", "end"}]
  BY DEF TypeOK
<1>2. CASE UNCHANGED <<lock, pc>>
  BY <1>2
<1>3. ASSUME NEW t \in Threads, lock = NoThread, lock' = t,
             NEW where, pc' = [pc EXCEPT ![t] = where]
      PROVE  OneExchange'
  BY <1>1, <1>3 DEF Threads, NoThread
<1>4. CASE AcquireWork \/ AcquireStay \/ AcquireRely
  BY <1>3, <1>4 DEF AcquireWork, AcquireStay, AcquireRely, LockFree, Goto, Threads
<1>5. ASSUME NEW t \in Threads, Release(t) PROVE OneExchange'
  BY <1>1, <1>5 DEF Release, Goto
<1>6. ASSUME NEW t \in Threads, pc[t] # "idle", UNCHANGED lock,
             NEW where, pc' = [pc EXCEPT ![t] = where]
      PROVE  OneExchange'
  BY <1>1, <1>6
<1>7. ASSUME NEW t \in Threads, SendRejected(t) \/ SendRequest(t) \/ SendFails(t)
      PROVE  OneExchange'
  BY <1>6, <1>7 DEF SendRejected, SendRequest, SendFails, Numbered, Goto
<1>8. ASSUME NEW t \in Threads, RecvFails(t) \/ RecvRejects(t) \/ RecvEnds(t)
      PROVE  OneExchange'
  BY <1>6, <1>8 DEF RecvFails, RecvRejects, RecvEnds, Accept, Goto
<1>9. CASE RuleStep
  BY <1>6, <1>9 DEF RuleStep, RecvThenGet, RecvThenSet, Accept, Goto, Threads
<1>11. ASSUME NEW t \in Threads, RecvReconnects(t) PROVE OneExchange'
  BY <1>2, <1>11, OnlyTheConnection
<1>10. CASE ToggleStay \/ ToggleRely \/ Line \/ UNCHANGED vars
  BY <1>2, <1>10 DEF ToggleStay, ToggleRely, Line, SlaveAnswers, SlaveRefuses,
     Unanswered, Deliver, DeliverHead, DeliverNoisy, ConnectionLost, vars, threadVars
<1> QED
  BY <1>4, <1>5, <1>7, <1>8, <1>9, <1>10, <1>11 DEF Next, Exchange

\* From send to the end of receive a thread is alone with the context.
THEOREM Exclusion == Spec => []OneExchange
<1>1. Init => OneExchange
  BY DEF Init, OneExchange, Threads
<1> QED
  BY <1>1, ExclusionStep, TypeCorrect, PTL DEF Spec
-----------------------------------------------------------------------------
(* Over TCP a reply is only accepted by the receive it belongs to. The      *)
(* transaction code alone must tell the replies apart, and it does: a frame  *)
(* of the request made a requests ago (its age) carries the code a steps     *)
(* before tx, the codes going round, and no frame is TransMod requests old.  *)

\* Frame f has the code of its age, after n requests and with latest code x.
Coded(f, n, x) ==
  /\ f.id \in 1..n
  /\ n - f.id < TransMod
  /\ f.trans = IF n - f.id <= x THEN x - (n - f.id) ELSE x - (n - f.id) + TransMod

AllCoded(s, n, x) == \A k \in DOMAIN s : Coded(s[k], n, x)

WireCoded ==
  AllCoded(net, sends, tx) /\ AllCoded(rep, sends, tx) /\ AllCoded(rx, sends, tx)

\* The inductive invariant: codes tell ages, and whoever receives does so
\* for the latest request.
ReplyInv ==
  /\ WireCoded
  /\ \A t \in Threads : pc[t] = "recv" => mine[t] = sends
  /\ ReplyIsForRequest

LEMMA AppendCoded ==
  ASSUME NEW S, NEW s \in Seq(S), NEW e \in S, NEW n, NEW x,
         AllCoded(s, n, x), Coded(e, n, x)
  PROVE  AllCoded(Append(s, e), n, x)
  BY DEF AllCoded

LEMMA TailCoded ==
  ASSUME NEW S, NEW s \in Seq(S), s # <<>>, NEW n, NEW x, AllCoded(s, n, x)
  PROVE  AllCoded(Tail(s), n, x) /\ Coded(s[1], n, x)
  BY DEF AllCoded

\* What makes a frame belong to a request is its id and code alone.
LEMMA SameCoded ==
  ASSUME NEW f, NEW g, NEW n, NEW x, Coded(f, n, x),
         g.id = f.id, g.trans = f.trans
  PROVE  Coded(g, n, x)
  BY DEF Coded

\* One more request makes every frame one older, and the code one further.
LEMMA OlderCoded ==
  ASSUME NEW n \in Nat, NEW x \in 0..(TransMod - 1), NEW f,
         Coded(f, n, x), n + 1 - f.id < TransMod
  PROVE  Coded(f, n + 1, IF x + 1 = TransMod THEN 0 ELSE x + 1)
<1> DEFINE a == n - f.id
<1>1. a \in Nat /\ n + 1 - f.id = a + 1 /\ f.id \in 1..(n + 1)
  BY DEF Coded
<1>2. f.trans = IF a <= x THEN x - a ELSE x - a + TransMod
  BY DEF Coded
<1> HIDE DEF a
<1> QED
  BY <1>1, <1>2, SpMbAssumption DEF Coded

\* A reply with the current code is the reply to the latest request.
LEMMA CurrentCode ==
  ASSUME NEW n \in Nat, NEW x \in 0..(TransMod - 1), NEW f,
         Coded(f, n, x), f.trans = x
  PROVE  f.id = n
  BY SpMbAssumption DEF Coded

\* sp_mb_send: all frames get older, the new request is of age 0.
LEMMA ReplySend ==
  ASSUME Transport = "tcp", TypeOK, OneExchange, ReplyInv, NEW t \in Threads,
         SendRejected(t) \/ SendRequest(t) \/ SendFails(t)
  PROVE  ReplyInv'
<1>1. CASE SendRejected(t)
  BY <1>1 DEF SendRejected, Goto, libVars, wireVars, ghostVars, TypeOK,
     ReplyInv, WireCoded, ReplyIsForRequest
<1>2. ASSUME Numbered(t), net' \in {net} \cup {Append(net, [id |-> sends + 1, trans |-> NextTx, req |-> Encap(InfoOf(t))])},
             rep' = rep, rx' = rx, NEW where, pc' = [pc EXCEPT ![t] = where]
      PROVE  ReplyInv'
  <2>1. /\ sends \in Nat /\ tx \in 0..(TransMod - 1)
        /\ sends' = sends + 1
        /\ tx' = IF tx + 1 = TransMod THEN 0 ELSE tx + 1
        /\ NextTx = tx' /\ tx' \in 0..(TransMod - 1)
    BY <1>2, NextTxValue DEF Numbered, TypeOK
  <2>2. \A id \in InFlight : sends + 1 - id < TransMod
    BY <1>2 DEF Numbered, WindowHolds
  <2>3. /\ AllCoded(net, sends', tx')
        /\ AllCoded(rep, sends', tx')
        /\ AllCoded(rx, sends', tx')
    BY <2>1, <2>2, OlderCoded DEF ReplyInv, WireCoded, AllCoded, InFlight
  <2>4. Coded([id |-> sends + 1, trans |-> NextTx, req |-> Encap(InfoOf(t))],
              sends', tx')
    BY <2>1, SpMbAssumption DEF Coded
  <2>5. AllCoded(net', sends', tx')
    <3> DEFINE new == [id |-> sends + 1, trans |-> NextTx, req |-> Encap(InfoOf(t))]
    <3>1. new \in Request /\ net \in Seq(Request)
      BY <2>1, SlotType, EncapType DEF TypeOK, Request
    <3> HIDE DEF new
    <3>2. AllCoded(Append(net, new), sends', tx')
      BY <3>1, <2>3, <2>4, AppendCoded DEF new
    <3> QED
      BY <1>2, <2>3, <3>2 DEF new
  <2>6. WireCoded'
    BY <1>2, <2>3, <2>5 DEF WireCoded
  <2>7. \A u \in Threads : pc'[u] = "recv" => mine'[u] = sends'
    BY <1>2, <2>1 DEF Numbered, OneExchange, TypeOK
  <2>8. ReplyIsForRequest'
    BY <1>2 DEF Numbered, NothingAccepted, ReplyIsForRequest
  <2> QED
    BY <2>6, <2>7, <2>8 DEF ReplyInv
<1>3. CASE SendRequest(t)
  BY <1>2, <1>3 DEF SendRequest, Goto
<1>4. CASE SendFails(t)
  BY <1>2, <1>4 DEF SendFails, Goto
<1> QED
  BY <1>1, <1>3, <1>4

\* sp_mb_recv accepts a frame with the current code: the latest request's.
LEMMA ReplyRecv ==
  ASSUME Transport = "tcp", TypeOK, ReplyInv, NEW t \in Threads,
         \/ RecvFails(t) \/ RecvRejects(t) \/ RecvEnds(t)
         \/ RecvThenGet \/ RecvThenSet
  PROVE  ReplyInv'
<1>1. AllCoded(<<>>, sends, tx)
  BY DEF AllCoded
<1>2. ASSUME NEW u \in Threads, Accept(u), UNCHANGED net,
             NEW where \in {"send", "end"}, pc' = [pc EXCEPT ![u] = where]
      PROVE  ReplyInv'
  <2>1. Coded(rx[1], sends, tx) /\ rx[1].trans = tx
    BY <1>2, TailCoded DEF Accept, Intact, HeaderOk, TypeOK, ReplyInv, WireCoded
  <2>2. rx[1].id = sends
    BY <2>1, CurrentCode DEF TypeOK
  <2>3. accepted'.rep = accepted'.req
    BY <1>2, <2>2 DEF Accept, ReplyInv
  <2> QED
    BY <1>1, <1>2, <2>3 DEF Accept, ReplyInv, WireCoded, ReplyIsForRequest, TypeOK
<1>3. CASE RecvFails(t) \/ RecvRejects(t)
  BY <1>1, <1>3 DEF RecvFails, RecvRejects, Goto, wireVars, ghostVars,
     ReplyInv, WireCoded, ReplyIsForRequest, TypeOK
<1>4. CASE RecvEnds(t)
  BY <1>2, <1>4 DEF RecvEnds, Goto, Accept
<1>5. CASE RecvThenGet \/ RecvThenSet
  BY <1>2, <1>5 DEF RecvThenGet, RecvThenSet, Goto, Accept, Threads
<1> QED
  BY <1>3, <1>4, <1>5

\* The slave and the line keep a frame's id and code.
LEMMA ReplyLine ==
  ASSUME Transport = "tcp", TypeOK, ReplyInv, Line
  PROVE  ReplyInv'
<1>1. /\ AllCoded(net, sends, tx) /\ AllCoded(rep, sends, tx) /\ AllCoded(rx, sends, tx)
      /\ net \in Seq(Request) /\ rep \in Seq(Reply) /\ rx \in Seq(Reply)
      /\ AllCoded(<<>>, sends, tx)
  BY DEF ReplyInv, WireCoded, TypeOK, AllCoded
<1>2. UNCHANGED <<pc, sends, tx, mine, accepted>>
  BY DEF Line, SlaveAnswers, SlaveRefuses, Unanswered, Deliver, DeliverHead,
     DeliverNoisy, ConnectionLost, threadVars, libVars, ghostVars
<1>3. SUFFICES /\ AllCoded(net', sends, tx)
               /\ AllCoded(rep', sends, tx)
               /\ AllCoded(rx', sends, tx)
  BY <1>2 DEF ReplyInv, WireCoded, ReplyIsForRequest
<1>4. CASE SlaveAnswers \/ SlaveRefuses
  <2>1. net # <<>> /\ net' = Tail(net) /\ rx' = rx
    BY <1>4 DEF SlaveAnswers, SlaveRefuses
  <2>2. PICK p \in ExceptionPdus(net[1].req) \union AnswerPdus(net[1].req) :
          rep' = Append(rep, ReplyTo(p))
    BY <1>4 DEF SlaveAnswers, SlaveRefuses
  <2>3. ReplyTo(p) \in Reply
    <3>1. net[1] \in Request
      BY <1>1, <2>1
    <3>2. p \in MBInfo
      BY <3>1, PduType DEF Request
    <3> QED
      BY <3>1, <3>2 DEF ReplyTo, Request, Reply
  <2>4. Coded(ReplyTo(p), sends, tx) /\ AllCoded(Tail(net), sends, tx)
    BY <1>1, <2>1, TailCoded, SameCoded DEF ReplyTo
  <2> QED
    BY <1>1, <2>1, <2>2, <2>3, <2>4, AppendCoded
<1>5. CASE Unanswered
  BY <1>1, <1>5, TailCoded DEF Unanswered
<1>6. CASE Deliver
  <2>1. rep[1] \in Reply /\ Coded(rep[1], sends, tx) /\ AllCoded(Tail(rep), sends, tx)
    BY <1>1, <1>6, TailCoded DEF Deliver
  <2> QED
    BY <1>1, <1>6, <2>1, AppendCoded DEF Deliver
<1>7. CASE DeliverHead
  <2> DEFINE head == [rep[1] EXCEPT !.part = "head"]
             tail == [rep[1] EXCEPT !.part = "tail"]
  <2>1. rep[1] \in Reply /\ Coded(rep[1], sends, tx) /\ 1 \in DOMAIN rep
    BY <1>1, <1>7, TailCoded DEF DeliverHead
  <2>2. /\ head \in Reply /\ head.id = rep[1].id /\ head.trans = rep[1].trans
        /\ tail \in Reply /\ tail.id = rep[1].id /\ tail.trans = rep[1].trans
    BY <2>1 DEF Reply
  <2>3. rx' = Append(rx, head) /\ rep' = [rep EXCEPT ![1] = tail] /\ net' = net
    BY <1>7 DEF DeliverHead
  <2> HIDE DEF head, tail
  <2>4. Coded(head, sends, tx) /\ Coded(tail, sends, tx)
    BY <2>1, <2>2, SameCoded
  <2>5. AllCoded(rep', sends, tx)
    BY <1>1, <2>3, <2>4 DEF AllCoded
  <2> QED
    BY <1>1, <2>2, <2>3, <2>4, <2>5, AppendCoded
<1>8. CASE DeliverNoisy
  BY <1>8 DEF DeliverNoisy
<1>9. CASE ConnectionLost
  BY <1>1, <1>9 DEF ConnectionLost
<1> QED
  BY <1>4, <1>5, <1>6, <1>7, <1>8, <1>9 DEF Line

LEMMA ReplyStep ==
  ASSUME Transport = "tcp"
  PROVE  TypeOK /\ OneExchange /\ ReplyInv /\ [Next]_vars => ReplyInv'
<1> SUFFICES ASSUME TypeOK, OneExchange, ReplyInv, [Next]_vars PROVE ReplyInv'
  OBVIOUS
<1>1. ASSUME UNCHANGED <<pc, sends, tx, net, rep, rx, mine, accepted>>
      PROVE  ReplyInv'
  BY <1>1 DEF ReplyInv, WireCoded, ReplyIsForRequest
<1>2. CASE ToggleStay \/ ToggleRely \/ UNCHANGED vars
  BY <1>1, <1>2 DEF ToggleStay, ToggleRely, vars, threadVars, flagVars, libVars,
     wireVars, ghostVars
<1>3. ASSUME NEW t \in Threads, NEW where \in {"idle", "send", "end"},
             pc' = [pc EXCEPT ![t] = where], pc[t] # "recv",
             mine' = mine \/ mine' = [mine EXCEPT ![t] = 0],
             accepted' \in {accepted, NothingAccepted},
             UNCHANGED <<sends, tx, net, rep, rx>>
      PROVE  ReplyInv'
  BY <1>3 DEF ReplyInv, WireCoded, ReplyIsForRequest, NothingAccepted, TypeOK
<1>4. CASE AcquireWork \/ AcquireStay \/ AcquireRely
  BY <1>3, <1>4 DEF AcquireWork, AcquireStay, AcquireRely, Goto, Threads,
     libVars, wireVars, ghostVars
<1>5. ASSUME NEW t \in Threads, Exchange(t) PROVE ReplyInv'
  <2>1. CASE Release(t)
    BY <1>3, <2>1 DEF Release, Goto, wireVars
  <2>2. CASE RecvReconnects(t)
    BY <1>1, <2>2, OnlyTheConnection
  <2> QED
    BY <1>5, <2>1, <2>2, ReplySend, ReplyRecv DEF Exchange
<1>6. CASE RuleStep
  BY <1>6, ReplyRecv DEF RuleStep, Threads
<1>7. CASE Line
  BY <1>7, ReplyLine
<1> QED
  BY <1>2, <1>4, <1>5, <1>6, <1>7 DEF Next

\* Over TCP, whatever is lost, late, split or left over from an earlier
\* connection, a receive takes only the reply to its own request.
THEOREM ReplyMatches == Transport = "tcp" => (Spec => []ReplyIsForRequest)
<1> SUFFICES ASSUME Transport = "tcp" PROVE Spec => []ReplyIsForRequest
  OBVIOUS
<1>1. Init => ReplyInv
  BY DEF Init, ReplyInv, WireCoded, AllCoded, ReplyIsForRequest, NothingAccepted
<1>2. TypeOK /\ OneExchange /\ ReplyInv /\ [Next]_vars => ReplyInv'
  BY ReplyStep
<1>3. ReplyInv => ReplyIsForRequest
  BY DEF ReplyInv
<1> QED
  BY <1>1, <1>2, <1>3, TypeCorrect, Exclusion, PTL DEF Spec
-----------------------------------------------------------------------------
(* Over TCP a failed receive does not change the caller's record: the      *)
(* context still holds what was copied into it when the request was sent.  *)

ContextHeld ==
  \A t \in Threads : pc[t] = "recv" => InfoOf(t) = ctx /\ mine[t] # 0

LEMMA HeldStep ==
  TypeOK /\ OneExchange /\ ContextHeld /\ [Next]_vars => ContextHeld'
<1> SUFFICES ASSUME TypeOK, OneExchange, ContextHeld, [Next]_vars
             PROVE  ContextHeld'
  OBVIOUS
<1> USE DEF ContextHeld, InfoOf, SlotOf
<1>1. pc \in [Threads -> {"idle", "send", "recv", "end"}]
  BY DEF TypeOK
<1>2. CASE UNCHANGED <<pc, slot, info, ctx, mine>>
  BY <1>2
<1>3. CASE ToggleStay \/ ToggleRely \/ Line \/ UNCHANGED vars
  BY <1>2, <1>3 DEF ToggleStay, ToggleRely, Line, SlaveAnswers, SlaveRefuses,
     Unanswered, Deliver, DeliverHead, DeliverNoisy, ConnectionLost,
     vars, threadVars, libVars, ghostVars
\* Whoever moves is the only one that is not idle.
<1>4. ASSUME NEW t \in Threads, lock \in {t, NoThread},
             NEW where \in {"idle", "send", "end"}, pc' = [pc EXCEPT ![t] = where]
      PROVE  ContextHeld'
  <2>1. \A u \in Threads : u # t => pc[u] = "idle"
    BY <1>1, <1>4 DEF OneExchange, Threads, NoThread
  <2> QED
    BY <1>1, <1>4, <2>1
<1>5. CASE AcquireWork \/ AcquireStay \/ AcquireRely
  BY <1>4, <1>5 DEF AcquireWork, AcquireStay, AcquireRely, LockFree, Goto, Threads
<1>6. ASSUME NEW t \in Threads, Exchange(t) PROVE ContextHeld'
  <2>1. lock = t
    BY <1>6 DEF OneExchange, Exchange, SendRejected, SendRequest, SendFails, Numbered,
       RecvFails, RecvReconnects, RecvRejects, RecvEnds, Accept, Release
  <2>2. CASE SendRequest(t)
    <3>1. \A u \in Threads : u # t => pc'[u] = "idle"
      BY <1>1, <2>1, <2>2 DEF OneExchange, SendRequest, Goto
    <3>2. ctx' = InfoOf(t) /\ UNCHANGED <<info, slot>> /\ mine'[t] = sends + 1
      BY <2>2 DEF SendRequest, Numbered, TypeOK
    <3>3. sends + 1 # 0
      BY DEF TypeOK
    <3> QED
      BY <3>1, <3>2, <3>3
  <2>3. CASE RecvReconnects(t)
    BY <1>2, <2>3, OnlyTheConnection
  <2>4. CASE ~SendRequest(t) /\ ~RecvReconnects(t)
    BY <1>4, <1>6, <2>1, <2>4 DEF Exchange, SendRejected, SendFails,
       RecvFails, RecvRejects, RecvEnds, Release, Goto
  <2> QED
    BY <2>2, <2>3, <2>4
<1>7. CASE RuleStep
  <2>1. lock = "rely" /\ "rely" \in Threads
    BY <1>7 DEF OneExchange, RuleStep, RecvThenGet, RecvThenSet, Accept, Threads
  <2> QED
    BY <1>4, <1>7, <2>1 DEF RuleStep, RecvThenGet, RecvThenSet, Goto
<1> QED
  BY <1>3, <1>5, <1>6, <1>7 DEF Next

\* Over TCP a receive that fails, by timeout or by its header check, leaves
\* the caller's record as it was sent (sp_mb_recv copies the context back).
THEOREM FailureIsHarmless == Transport = "tcp" => (Spec => FailureKeepsRecord)
<1> SUFFICES ASSUME Transport = "tcp" PROVE Spec => FailureKeepsRecord
  OBVIOUS
<1> DEFINE Keeps == \A t \in Threads :
             pc[t] = "recv" /\ pc'[t] = "end" /\ accepted' = NothingAccepted
               => info' = info
<1>1. Init => ContextHeld
  BY DEF Init, ContextHeld
<1>2. ASSUME TypeOK, ContextHeld, [Next]_vars
      PROVE  [Keeps]_vars
  <2>1. pc \in [Threads -> {"idle", "send", "recv", "end"}]
    BY <1>2 DEF TypeOK
  <2>2. CASE UNCHANGED vars
    BY <2>2
  <2>3. CASE pc' = pc
    BY <2>3
  <2>4. CASE ToggleStay \/ ToggleRely \/ Line
    BY <2>3, <2>4 DEF ToggleStay, ToggleRely, Line, SlaveAnswers, SlaveRefuses,
       Unanswered, Deliver, DeliverHead, DeliverNoisy, ConnectionLost, threadVars
  <2>5. ASSUME NEW t \in Threads, NEW where, pc' = [pc EXCEPT ![t] = where],
               pc[t] # "recv" \/ where # "end"
        PROVE  Keeps
    BY <2>1, <2>5
  <2>6. CASE AcquireWork \/ AcquireStay \/ AcquireRely \/ RuleStep
    BY <2>5, <2>6 DEF AcquireWork, AcquireStay, AcquireRely, RuleStep,
       RecvThenGet, RecvThenSet, Goto, Threads
  <2>7. ASSUME NEW t \in Threads, Exchange(t) PROVE Keeps
    <3>1. CASE SendRejected(t) \/ SendRequest(t) \/ SendFails(t) \/ Release(t)
      BY <2>5, <3>1 DEF SendRejected, SendRequest, SendFails, Numbered, Release, Goto
    <3>2. CASE RecvFails(t) \/ RecvRejects(t)
      <4>1. ctx' = ctx /\ info' = TakenOut(t) /\ pc[t] = "recv"
        BY <3>2 DEF RecvFails, RecvRejects
      <4>2. info' = info
        BY <1>2, <4>1 DEF TakenOut, ContextHeld, InfoOf, TypeOK
      <4> QED
        BY <4>2
    <3>3. CASE RecvEnds(t)
      <4>1. accepted'.req # 0
        BY <1>2, <3>3 DEF RecvEnds, Accept, ContextHeld
      <4> QED
        BY <4>1 DEF NothingAccepted
    <3>4. CASE RecvReconnects(t)
      BY <2>3, <3>4, OnlyTheConnection
    <3> QED
      BY <2>7, <3>1, <3>2, <3>3, <3>4 DEF Exchange
  <2> QED
    BY <1>2, <2>2, <2>4, <2>6, <2>7 DEF Next
<1> QED
  BY <1>1, <1>2, HeldStep, TypeCorrect, Exclusion, PTL DEF Spec, FailureKeepsRecord

-----------------------------------------------------------------------------
(* RTU: one frame at a time. A request is only made when nothing is on its *)
(* way any more, as long as no receive has given up before its reply came. *)

\* The one frame there can be, wherever it is, is the latest request's.
OnlyLatest ==
  /\ Len(net) + Len(rep) + Len(rx) <= 1
  /\ \A k \in DOMAIN net : net[k].id = sends
  /\ \A k \in DOMAIN rep : rep[k].id = sends
  /\ \A k \in DOMAIN rx : rx[k].id = sends

OwnInv ==
  ~late =>
    /\ ~Waiting => net = <<>> /\ rep = <<>> /\ rx = <<>>
    /\ OnlyLatest
    /\ \A t \in Threads : pc[t] = "recv" => mine[t] = sends
    /\ accepted.rep = accepted.req

\* Whoever may move is the only one in a round.
LEMMA Alone ==
  ASSUME TypeOK, OneExchange, NEW t \in Threads, lock \in {t, NoThread}
  PROVE  \A u \in Threads : u # t => pc[u] = "idle"
  BY DEF OneExchange, Threads, NoThread

LEMMA HolderMoves ==
  ASSUME OneExchange, NEW t \in Threads,
         Exchange(t) \/ (t = "rely" /\ RuleStep)
  PROVE  lock = t /\ pc[t] # "idle"
  BY DEF OneExchange, Exchange, SendRejected, SendRequest, SendFails, Numbered,
     RecvFails, RecvReconnects, RecvRejects, RecvEnds, Accept, Release, RuleStep,
     RecvThenGet, RecvThenSet

\* Then, whether anybody waits for a reply is up to it.
LEMMA WhoWaits ==
  ASSUME TypeOK, OneExchange, NEW t \in Threads, lock \in {t, NoThread},
         NEW where, pc' = [pc EXCEPT ![t] = where]
  PROVE  /\ Waiting <=> pc[t] = "recv"
         /\ Waiting' <=> where = "recv"
         /\ \A u \in Threads : pc'[u] = "recv" => u = t
  BY Alone DEF Waiting, TypeOK

LEMMA SeqLength ==
  ASSUME NEW S, NEW s \in Seq(S)
  PROVE  /\ Len(s) \in Nat
         /\ s = <<>> => Len(s) = 0
         /\ Len(s) = 0 => s = <<>>
         /\ Len(s) = 1 => Tail(s) = <<>>
<1>1. /\ Len(s) \in Nat
      /\ s = <<>> => Len(s) = 0
      /\ Len(s) = 0 => s = <<>>
  BY EmptySeq
<1>2. ASSUME Len(s) = 1 PROVE Tail(s) = <<>>
  <2>1. Tail(s) \in Seq(S) /\ Len(Tail(s)) = 0
    BY <1>1, <1>2
  <2> QED
    BY <2>1, EmptySeq
<1> QED
  BY <1>1, <1>2

\* Where one frame is, no other is.
LEMMA OneAtMost ==
  ASSUME NEW R, NEW S, NEW q \in Seq(R), NEW r \in Seq(S), NEW s \in Seq(S),
         Len(q) + Len(r) + Len(s) <= 1
  PROVE  /\ q # <<>> => Len(q) = 1 /\ Tail(q) = <<>> /\ r = <<>> /\ s = <<>>
         /\ r # <<>> => Len(r) = 1 /\ Tail(r) = <<>> /\ q = <<>> /\ s = <<>>
         /\ s # <<>> => Len(s) = 1 /\ Tail(s) = <<>> /\ q = <<>> /\ r = <<>>
<1> DEFINE a == Len(q)
           b == Len(r)
           c == Len(s)
<1>1. a \in Nat /\ b \in Nat /\ c \in Nat
  BY SeqLength
<1>2. a + b + c <= 1
  OBVIOUS
<1>3. /\ q # <<>> => a # 0
      /\ r # <<>> => b # 0
      /\ s # <<>> => c # 0
  BY SeqLength
<1>4. /\ a = 1 => Tail(q) = <<>>
      /\ b = 1 => Tail(r) = <<>>
      /\ c = 1 => Tail(s) = <<>>
  BY SeqLength
<1>5. /\ a = 0 => q = <<>>
      /\ b = 0 => r = <<>>
      /\ c = 0 => s = <<>>
  BY SeqLength
<1> HIDE DEF a, b, c
<1>6. /\ a # 0 => a = 1 /\ b = 0 /\ c = 0
      /\ b # 0 => b = 1 /\ a = 0 /\ c = 0
      /\ c # 0 => c = 1 /\ a = 0 /\ b = 0
  BY <1>1, <1>2
<1> QED
  BY <1>3, <1>4, <1>5, <1>6 DEF a, b, c

LEMMA OwnLine ==
  ASSUME Transport = "rtu", TypeOK, OwnInv, Line
  PROVE  OwnInv'
<1>1. UNCHANGED <<pc, sends, mine, late, accepted>> /\ Waiting' = Waiting
  BY DEF Line, SlaveAnswers, SlaveRefuses, Unanswered, Deliver, DeliverHead,
     DeliverNoisy, ConnectionLost, threadVars, libVars, ghostVars, Waiting
<1>2. CASE late
  BY <1>1, <1>2 DEF OwnInv
<1>3. ASSUME ~late
      PROVE  OnlyLatest' /\ (~Waiting => net' = <<>> /\ rep' = <<>> /\ rx' = <<>>)
  <2>0. /\ Len(net) + Len(rep) + Len(rx) <= 1
        /\ net \in Seq(Request) /\ rep \in Seq(Reply) /\ rx \in Seq(Reply)
        /\ ~Waiting => net = <<>> /\ rep = <<>> /\ rx = <<>>
    BY <1>3 DEF OwnInv, OnlyLatest, TypeOK
  <2>1. /\ net # <<>> => /\ Len(net) = 1 /\ Tail(net) = <<>>
                         /\ rep = <<>> /\ rx = <<>> /\ Waiting
        /\ rep # <<>> => /\ Len(rep) = 1 /\ Tail(rep) = <<>>
                         /\ net = <<>> /\ rx = <<>> /\ Waiting
    BY <2>0, OneAtMost
  <2>2. /\ \A k \in DOMAIN net : net[k].id = sends
        /\ \A k \in DOMAIN rep : rep[k].id = sends
        /\ \A k \in DOMAIN rx : rx[k].id = sends
    BY <1>3 DEF OwnInv, OnlyLatest
  <2>3. CASE SlaveAnswers \/ SlaveRefuses
    <3>1. PICK p : rep' = Append(rep, ReplyTo(p))
      BY <2>3 DEF SlaveAnswers, SlaveRefuses
    <3>2. net # <<>> /\ net' = Tail(net) /\ rx' = rx
      BY <2>3 DEF SlaveAnswers, SlaveRefuses
    <3>3. ReplyTo(p).id = sends
      BY <2>1, <2>2, <3>2, <2>0 DEF ReplyTo
    <3>4. Len(net) = 1 /\ rep = <<>> /\ rx = <<>> /\ Waiting
      BY <2>1, <3>2
    <3>5. net' = <<>> /\ rep' = <<ReplyTo(p)>> /\ rx' = <<>>
      BY <2>1, <3>1, <3>2, <3>4, <2>0
    <3> QED
      BY <1>1, <3>3, <3>4, <3>5 DEF OnlyLatest
  <2>4. CASE Unanswered
    <3>1. Len(net) = 1 /\ rep = <<>> /\ rx = <<>> /\ Waiting
      BY <2>1, <2>4 DEF Unanswered
    <3>2. net' = <<>> /\ rep' = <<>> /\ rx' = <<>>
      BY <2>1, <2>4, <3>1 DEF Unanswered
    <3> QED
      BY <3>2 DEF OnlyLatest
  <2>5. CASE Deliver \/ DeliverNoisy
    <3>1. PICK f : rx' = Append(rx, f) /\ f.id = rep[1].id
      <4>1. CASE Deliver
        BY <4>1 DEF Deliver
      <4>2. CASE DeliverNoisy
        <5>1. PICK c \in NoiseCodes :
                rx' = Append(rx, [rep[1] EXCEPT !.pdu.code = c, !.clean = FALSE])
          BY <4>2 DEF DeliverNoisy
        <5>2. rep[1] \in Reply
          BY <2>0, <4>2 DEF DeliverNoisy
        <5>3. [rep[1] EXCEPT !.pdu.code = c, !.clean = FALSE].id = rep[1].id
          BY <5>2 DEF Reply
        <5> QED
          BY <5>1, <5>3
      <4> QED
        BY <2>5, <4>1, <4>2
    <3>2. rep # <<>> /\ rep' = Tail(rep) /\ net' = net
      BY <2>5 DEF Deliver, DeliverNoisy
    <3>3. Len(rep) = 1 /\ net = <<>> /\ rx = <<>> /\ Waiting
      BY <2>1, <3>2
    <3>4. net' = <<>> /\ rep' = <<>> /\ rx' = <<f>> /\ f.id = sends
      BY <2>1, <2>2, <3>1, <3>2, <3>3, <2>0
    <3> QED
      BY <1>1, <3>3, <3>4 DEF OnlyLatest
  <2>6. ~DeliverHead /\ ~ConnectionLost
    BY SpMbAssumption DEF DeliverHead, ConnectionLost
  <2> QED
    BY <2>3, <2>4, <2>5, <2>6 DEF Line
<1> QED
  BY <1>1, <1>2, <1>3 DEF OwnInv

LEMMA OwnStep ==
  ASSUME Transport = "rtu"
  PROVE  TypeOK /\ OneExchange /\ OwnInv /\ [Next]_vars => OwnInv'
<1> SUFFICES ASSUME TypeOK, OneExchange, OwnInv, [Next]_vars PROVE OwnInv'
  OBVIOUS
<1>1. CASE ToggleStay \/ ToggleRely \/ UNCHANGED vars
  BY <1>1 DEF ToggleStay, ToggleRely, vars, threadVars, libVars, wireVars,
     ghostVars, OwnInv, OnlyLatest, Waiting
\* A step of a thread that neither sends nor receives.
<1>2. ASSUME NEW t \in Threads, lock \in {t, NoThread}, pc[t] # "recv",
             NEW where, where # "recv", pc' = [pc EXCEPT ![t] = where],
             accepted' \in {accepted, NothingAccepted},
             UNCHANGED <<sends, net, rep, rx, late>>
      PROVE  OwnInv'
  <2>1. ~Waiting /\ ~Waiting'
    BY <1>2, WhoWaits
  <2>2. \A u \in Threads : pc'[u] # "recv"
    BY <2>1 DEF Waiting
  <2> QED
    BY <1>2, <2>1, <2>2 DEF OwnInv, OnlyLatest, NothingAccepted
<1>3. CASE AcquireWork \/ AcquireStay \/ AcquireRely
  BY <1>2, <1>3 DEF AcquireWork, AcquireStay, AcquireRely, LockFree, Goto, Threads,
     libVars, wireVars, ghostVars
<1>4. ASSUME NEW t \in Threads, Release(t) \/ SendRejected(t) PROVE OwnInv'
  BY <1>2, <1>4, HolderMoves DEF Release, SendRejected, Exchange, Goto, libVars,
     wireVars, ghostVars
<1>5. ASSUME NEW t \in Threads, SendRequest(t) \/ SendFails(t)
      PROVE  OwnInv'
  <2>1. PICK where \in {"recv", "end"} : pc' = [pc EXCEPT ![t] = where]
    BY <1>5 DEF SendRequest, SendFails, Goto
  <2>2. /\ lock = t /\ ~Waiting
        /\ \A u \in Threads : pc'[u] = "recv" => u = t
        /\ Waiting' <=> where = "recv"
    BY <1>5, <2>1, HolderMoves, WhoWaits DEF Exchange, SendRequest, SendFails, Numbered
  <2>3. late' = late /\ sends' = sends + 1 /\ mine'[t] = sends'
        /\ accepted' = NothingAccepted
    BY <1>5 DEF SendRequest, SendFails, Numbered, TypeOK
  <2>4. CASE late
    BY <2>3, <2>4 DEF OwnInv
  <2>5. CASE ~late
    <3>1. net = <<>> /\ rep = <<>> /\ rx = <<>>
      BY <2>2, <2>5 DEF OwnInv
    <3>2. CASE SendFails(t)
      <4>1. net' = <<>> /\ rep' = <<>> /\ rx' = <<>>
        BY <3>1, <3>2 DEF SendFails
      <4> QED
        BY <2>2, <2>3, <4>1 DEF OwnInv, OnlyLatest, NothingAccepted
    <3>3. CASE SendRequest(t)
      <4>1. PICK f : net' = <<f>> /\ f.id = sends'
        BY <2>3, <3>1, <3>3 DEF SendRequest
      <4>2. rep' = <<>> /\ rx' = <<>> /\ Waiting'
        <5>1. pc' = [pc EXCEPT ![t] = "recv"]
          BY <3>3 DEF SendRequest, Goto
        <5> QED
          BY <3>1, <3>3, <5>1 DEF SendRequest, Waiting, TypeOK
      <4> QED
        BY <2>2, <2>3, <4>1, <4>2 DEF OwnInv, OnlyLatest, NothingAccepted
    <3> QED
      BY <1>5, <3>2, <3>3
  <2> QED
    BY <2>4, <2>5
\* A receive that reads what has arrived empties the line.
<1>6. ASSUME NEW t \in Threads, RecvRejects(t) \/ Accept(t),
             lock = t, NEW where, where # "recv", pc' = [pc EXCEPT ![t] = where]
      PROVE  OwnInv'
  <2>1. /\ late' = late /\ sends' = sends /\ net' = net /\ rep' = rep /\ rx' = <<>>
        /\ rx # <<>> /\ pc[t] = "recv"
    BY <1>6 DEF RecvRejects, Accept, ghostVars
  <2>2. ~Waiting'
    <3>1. \A u \in Threads : u # t => pc[u] = "idle"
      BY <1>6, Alone
    <3> QED
      BY <1>6, <3>1 DEF Waiting, TypeOK
  <2>3. CASE late
    BY <2>1, <2>3 DEF OwnInv
  <2>5. \A u \in Threads : pc'[u] # "recv"
    BY <2>2 DEF Waiting
  <2>4. CASE ~late
    <3>1. net = <<>> /\ rep = <<>> /\ Len(rx) = 1
      <4>1. /\ Len(net) + Len(rep) + Len(rx) <= 1
            /\ net \in Seq(Request) /\ rep \in Seq(Reply) /\ rx \in Seq(Reply)
        BY <2>4 DEF OwnInv, OnlyLatest, TypeOK
      <4> QED
        BY <2>1, <4>1, OneAtMost
    <3>2. rx[1].id = sends /\ mine[t] = sends /\ accepted.rep = accepted.req
      BY <2>1, <2>4, <3>1 DEF OwnInv, OnlyLatest, TypeOK
    <3>3. accepted'.rep = accepted'.req
      BY <1>6, <3>2 DEF RecvRejects, Accept, ghostVars
    <3> QED
      BY <2>1, <2>2, <2>5, <3>1, <3>3 DEF OwnInv, OnlyLatest
  <2> QED
    BY <2>3, <2>4
<1>7. ASSUME NEW t \in Threads, RecvFails(t) \/ RecvRejects(t) \/ RecvEnds(t)
      PROVE  OwnInv'
  <2>1. CASE RecvFails(t)
    BY <2>1 DEF RecvFails, OwnInv
  <2> QED
    BY <1>6, <1>7, <2>1, HolderMoves DEF Exchange, RecvRejects, RecvEnds, Goto
<1>8. CASE RuleStep
  BY <1>6, <1>8, HolderMoves DEF RuleStep, RecvThenGet, RecvThenSet, Goto, Threads
<1>9. ASSUME NEW t \in Threads, RecvReconnects(t) PROVE OwnInv'
  BY <1>9, OnlyTheConnection DEF OwnInv, OnlyLatest, Waiting
<1> QED
  BY <1>1, <1>3, <1>4, <1>5, <1>7, <1>8, <1>9, OwnLine DEF Next, Exchange

\* On either transport, until a receive has given up before its reply came,
\* an accepted reply answers the request of the receive that accepts it: over
\* RTU, which has no transaction code, because the lock keeps requests apart.
THEOREM OwnReply == Spec => []OwnReplyUnlessLate
<1>1. CASE Transport = "tcp"
  <2>1. ReplyIsForRequest => OwnReplyUnlessLate
    BY DEF ReplyIsForRequest, OwnReplyUnlessLate
  <2>2. Spec => []ReplyIsForRequest
    BY <1>1, ReplyMatches
  <2> QED
    BY <2>1, <2>2, PTL
<1>2. CASE Transport = "rtu"
  <2>1. Init => OwnInv
    BY DEF Init, OwnInv, OnlyLatest, NothingAccepted
  <2>2. OwnInv => OwnReplyUnlessLate
    BY DEF OwnInv, OwnReplyUnlessLate
  <2>3. TypeOK /\ OneExchange /\ OwnInv /\ [Next]_vars => OwnInv'
    BY <1>2, OwnStep
  <2> QED
    BY <2>1, <2>2, <2>3, TypeCorrect, Exclusion, PTL DEF Spec
<1> QED
  BY <1>1, <1>2, SpMbAssumption
-----------------------------------------------------------------------------
(* TCP: what the frames say. A request asks what its sender's record asks; *)
(* a reply is an exception, or the answer of a slave that has carried out  *)
(* the request; and as long as a thread waits for the latest request, the  *)
(* context still holds that request.                                       *)

\* The request somebody waits for; no request has number 0.
Pending == IF Waiting THEN sends ELSE 0

Pdus(q) == ExceptionPdus(q) \union AnswerPdus(q)

\* Request f, when the pending one is p, made of context c.
Asked(f, p, c) ==
  /\ f.req.code \in FuncCodes
  /\ f.id = p => f.req = Encap(c)

\* Reply f, when also the requests of e have been carried out.
Given(f, p, c, e) ==
  /\ ~Split => f.part = "whole"
  /\ \/ f.pdu.code \in FuncCodes /\ f.id \in e
     \/ f.pdu.code > ExcBit /\ f.pdu.err # 0
  /\ f.id = p => f.pdu \in Pdus(Encap(c))

AllAsked(s, p, c)    == \A k \in DOMAIN s : Asked(s[k], p, c)
AllGiven(s, p, c, e) == \A k \in DOMAIN s : Given(s[k], p, c, e)

FrameInv ==
  /\ AllAsked(net, Pending, ctx)
  /\ AllGiven(rep, Pending, ctx, executed)
  /\ AllGiven(rx, Pending, ctx, executed)
  /\ \A t \in Threads :
       pc[t] = "recv" => Sendable(ctx) /\ accepted = NothingAccepted

LEMMA SendableCode ==
  ASSUME NEW i \in MBInfo, Sendable(i)
  PROVE  Encap(i).code \in FuncCodes
  BY DEF Sendable, Encap, FuncCodes

\* What a slave makes of a request.
LEMMA AnswerCodes ==
  ASSUME NEW q \in WireReq, q.code \in FuncCodes
  PROVE  /\ \A p \in AnswerPdus(q) : p.code \in FuncCodes
         /\ \A p \in ExceptionPdus(q) : p.code > ExcBit /\ p.err # 0
<1>1. q.code \in Nat /\ q.code > 0
  BY DEF FuncCodes, ReadCodes, SingleCodes, MultiCodes
<1>2. \A p \in AnswerPdus(q) : p.code = q.code
  BY DEF AnswerPdus
<1>3. \A p \in ExceptionPdus(q) : p.code = q.code + ExcBit /\ p.err \in Errs
  BY DEF ExceptionPdus
<1> QED
  BY <1>1, <1>2, <1>3, SpMbAssumption DEF ExcBit

LEMMA AppendGiven ==
  ASSUME NEW s \in Seq(Reply), NEW f \in Reply, NEW p, NEW c, NEW e,
         AllGiven(s, p, c, e), Given(f, p, c, e)
  PROVE  AllGiven(Append(s, f), p, c, e)
  BY DEF AllGiven

LEMMA TailGiven ==
  ASSUME NEW s \in Seq(Reply), s # <<>>, NEW p, NEW c, NEW e, AllGiven(s, p, c, e)
  PROVE  AllGiven(Tail(s), p, c, e) /\ Given(s[1], p, c, e)
  BY DEF AllGiven

LEMMA TailAsked ==
  ASSUME NEW s \in Seq(Request), s # <<>>, NEW p, NEW c, AllAsked(s, p, c)
  PROVE  AllAsked(Tail(s), p, c) /\ Asked(s[1], p, c)
  BY DEF AllAsked

\* What has been said stays true when the slave has done more.
LEMMA MoreExecuted ==
  ASSUME NEW s, NEW p, NEW c, NEW d, NEW e, d \subseteq e, AllGiven(s, p, c, d)
  PROVE  AllGiven(s, p, c, e)
  BY DEF AllGiven, Given

\* Frames of earlier requests say nothing of the one that is pending now.
LEMMA OldFrames ==
  ASSUME NEW p, NEW c, NEW q, NEW d, NEW e
  PROVE  /\ \A s : AllAsked(s, p, c) /\ (\A k \in DOMAIN s : s[k].id # q)
                     => AllAsked(s, q, d)
         /\ \A s : AllGiven(s, p, c, e) /\ (\A k \in DOMAIN s : s[k].id # q)
                     => AllGiven(s, q, d, e)
  BY DEF AllAsked, AllGiven, Asked, Given

LEMMA FrameLine ==
  ASSUME Transport = "tcp", TypeOK, FrameInv, Line
  PROVE  FrameInv'
<1>1. UNCHANGED <<pc, sends, ctx, accepted>>
  BY DEF Line, SlaveAnswers, SlaveRefuses, Unanswered, Deliver, DeliverHead,
     DeliverNoisy, ConnectionLost, threadVars, libVars, ghostVars
<1> DEFINE p == Pending
<1>2. Pending' = p
  BY <1>1 DEF Pending, Waiting
<1>3. /\ AllAsked(net, p, ctx)
      /\ AllGiven(rep, p, ctx, executed) /\ AllGiven(rx, p, ctx, executed)
      /\ net \in Seq(Request) /\ rep \in Seq(Reply) /\ rx \in Seq(Reply)
  BY DEF FrameInv, TypeOK
<1> HIDE DEF p
<1>4. SUFFICES /\ AllAsked(net', p, ctx)
               /\ AllGiven(rep', p, ctx, executed')
               /\ AllGiven(rx', p, ctx, executed')
  BY <1>1, <1>2 DEF FrameInv
<1>5. ASSUME net # <<>>
      PROVE  /\ AllAsked(Tail(net), p, ctx)
             /\ net[1] \in Request /\ net[1].req \in WireReq
             /\ net[1].req.code \in FuncCodes
             /\ net[1].id = p => net[1].req = Encap(ctx)
  <2>1. AllAsked(Tail(net), p, ctx) /\ Asked(net[1], p, ctx)
    BY <1>3, <1>5, TailAsked
  <2>2. net[1] \in Request
    BY <1>3, <1>5
  <2> QED
    BY <2>1, <2>2 DEF Asked, Request
<1>6. ASSUME net # <<>>, NEW d \in Pdus(net[1].req)
      PROVE  /\ ReplyTo(d) \in Reply /\ ReplyTo(d).id = net[1].id
             /\ ReplyTo(d).pdu = d /\ ReplyTo(d).part = "whole"
             /\ ReplyTo(d).id = p => d \in Pdus(Encap(ctx))
  BY <1>5, <1>6, PduType DEF ReplyTo, Request, Reply, Pdus
<1>7. CASE SlaveAnswers
  <2>1. PICK d \in AnswerPdus(net[1].req) : rep' = Append(rep, ReplyTo(d))
    BY <1>7 DEF SlaveAnswers
  <2>2. /\ net # <<>> /\ net' = Tail(net) /\ rx' = rx
        /\ executed' = executed \union {net[1].id}
    BY <1>7 DEF SlaveAnswers
  <2>3. d.code \in FuncCodes /\ d \in Pdus(net[1].req)
    BY <1>5, <2>2, AnswerCodes DEF Pdus
  <2>4. Given(ReplyTo(d), p, ctx, executed')
    BY <1>6, <2>2, <2>3 DEF Given
  <2>5. AllGiven(rep, p, ctx, executed') /\ AllGiven(rx, p, ctx, executed')
    BY <1>3, <2>2, MoreExecuted
  <2> QED
    BY <1>3, <1>5, <1>6, <2>1, <2>2, <2>3, <2>4, <2>5, AppendGiven
<1>8. CASE SlaveRefuses
  <2>1. PICK d \in ExceptionPdus(net[1].req) : rep' = Append(rep, ReplyTo(d))
    BY <1>8 DEF SlaveRefuses
  <2>2. net # <<>> /\ net' = Tail(net) /\ rx' = rx /\ executed' = executed
    BY <1>8 DEF SlaveRefuses
  <2>3. d.code > ExcBit /\ d.err # 0 /\ d \in Pdus(net[1].req)
    BY <1>5, <2>2, AnswerCodes DEF Pdus
  <2>4. Given(ReplyTo(d), p, ctx, executed)
    BY <1>6, <2>2, <2>3 DEF Given
  <2> QED
    BY <1>3, <1>5, <1>6, <2>1, <2>2, <2>3, <2>4, AppendGiven
<1>9. CASE Unanswered
  BY <1>3, <1>5, <1>9, MoreExecuted DEF Unanswered
<1>10. ASSUME rep # <<>>
       PROVE  /\ rep[1] \in Reply /\ Given(rep[1], p, ctx, executed)
              /\ AllGiven(Tail(rep), p, ctx, executed)
  BY <1>3, <1>10, TailGiven
<1>11. CASE Deliver
  BY <1>3, <1>10, <1>11, AppendGiven DEF Deliver
<1>12. CASE DeliverHead
  <2> DEFINE head == [rep[1] EXCEPT !.part = "head"]
             tail == [rep[1] EXCEPT !.part = "tail"]
  <2>1. Split /\ rep # <<>> /\ UNCHANGED <<net, executed>>
    BY <1>12 DEF DeliverHead
  <2>2. /\ head \in Reply /\ head.id = rep[1].id /\ head.pdu = rep[1].pdu
        /\ tail \in Reply /\ tail.id = rep[1].id /\ tail.pdu = rep[1].pdu
    BY <1>10, <2>1 DEF Reply
  <2>3. rx' = Append(rx, head) /\ rep' = [rep EXCEPT ![1] = tail]
    BY <1>12 DEF DeliverHead
  <2> HIDE DEF head, tail
  <2>4. Given(head, p, ctx, executed) /\ Given(tail, p, ctx, executed)
    BY <1>10, <2>1, <2>2 DEF Given
  <2>5. AllGiven(rep', p, ctx, executed)
    BY <1>3, <2>1, <2>3, <2>4 DEF AllGiven
  <2> QED
    BY <1>3, <2>1, <2>2, <2>3, <2>4, <2>5, AppendGiven
<1>13. CASE DeliverNoisy
  BY <1>13 DEF DeliverNoisy
<1>14. CASE ConnectionLost
  BY <1>14 DEF ConnectionLost, AllAsked, AllGiven
<1> QED
  BY <1>7, <1>8, <1>9, <1>11, <1>12, <1>13, <1>14 DEF Line

\* What a receive over TCP finds: the pending reply.
LEMMA AcceptedReply ==
  ASSUME Transport = "tcp", TypeOK, ReplyInv, ContextHeld, FrameInv,
         NEW t \in Threads, Accept(t)
  PROVE  /\ rx[1] \in Reply /\ rx[1].id = sends /\ mine[t] = sends /\ sends # 0
         /\ rx[1].pdu \in Pdus(Encap(ctx))
         /\ Given(rx[1], Pending, ctx, executed)
         /\ Sendable(ctx) /\ InfoOf(t) = ctx
<1>1. rx \in Seq(Reply) /\ rx # <<>> /\ pc[t] = "recv"
  BY DEF TypeOK, Accept
<1>2. rx[1] \in Reply
  BY <1>1
<1>3. Coded(rx[1], sends, tx) /\ rx[1].trans = tx
  BY <1>1, TailCoded DEF Accept, Intact, HeaderOk, ReplyInv, WireCoded
<1>4. rx[1].id = sends
  BY <1>3, CurrentCode DEF TypeOK
<1>5. mine[t] = sends /\ mine[t] # 0 /\ InfoOf(t) = ctx /\ Sendable(ctx)
  BY <1>1 DEF ReplyInv, ContextHeld, FrameInv
<1>6. Given(rx[1], Pending, ctx, executed)
  BY <1>1, TailGiven DEF FrameInv
<1>7. Pending = sends
  BY <1>1 DEF Pending, Waiting
<1> QED
  BY <1>2, <1>4, <1>5, <1>6, <1>7 DEF Given

LEMMA FrameStep ==
  ASSUME Transport = "tcp"
  PROVE  /\ TypeOK /\ OneExchange /\ WireCoded /\ ContextHeld /\ FrameInv
         /\ [Next]_vars
         => FrameInv'
<1> SUFFICES ASSUME TypeOK, OneExchange, WireCoded, ContextHeld, FrameInv, [Next]_vars
             PROVE  FrameInv'
  OBVIOUS
<1>1. CASE ToggleStay \/ ToggleRely \/ UNCHANGED vars
  BY <1>1 DEF ToggleStay, ToggleRely, vars, threadVars, libVars, wireVars,
     ghostVars, FrameInv, Pending, Waiting
\* No frame has number 0, or a number not given yet.
<1>2. /\ \A k \in DOMAIN net : net[k].id # 0 /\ net[k].id # sends + 1
      /\ \A k \in DOMAIN rep : rep[k].id # 0 /\ rep[k].id # sends + 1
      /\ \A k \in DOMAIN rx : rx[k].id # 0 /\ rx[k].id # sends + 1
  BY DEF TypeOK, WireCoded, AllCoded, Coded
<1>3. ASSUME NEW q \in {0, sends + 1}, NEW d
      PROVE  /\ AllAsked(net, q, d) /\ AllGiven(rep, q, d, executed)
             /\ AllGiven(rx, q, d, executed) /\ AllGiven(<<>>, q, d, executed)
  <2>1. AllAsked(net, q, d)
    BY <1>2, <1>3, OldFrames DEF FrameInv
  <2>2. AllGiven(rep, q, d, executed) /\ AllGiven(rx, q, d, executed)
    BY <1>2, <1>3, OldFrames DEF FrameInv
  <2> QED
    BY <2>1, <2>2 DEF AllGiven
\* After a step of a thread that then waits for nothing, nobody does.
<1>4. ASSUME NEW t \in Threads, lock \in {t, NoThread},
             NEW where, where # "recv", pc' = [pc EXCEPT ![t] = where],
             UNCHANGED <<net, rep, executed>>, rx' \in {rx, <<>>}
      PROVE  FrameInv'
  <2>1. \A u \in Threads : pc'[u] # "recv"
    BY <1>4, Alone DEF TypeOK
  <2>2. Pending' = 0
    BY <2>1 DEF Pending, Waiting
  <2> QED
    BY <1>3, <1>4, <2>1, <2>2 DEF FrameInv
<1>5. CASE AcquireWork \/ AcquireStay \/ AcquireRely
  BY <1>4, <1>5 DEF AcquireWork, AcquireStay, AcquireRely, LockFree, Goto, Threads,
     wireVars
<1>6. ASSUME NEW t \in Threads, SendRequest(t)
      PROVE  FrameInv'
  <2>1. lock = t /\ pc' = [pc EXCEPT ![t] = "recv"]
    BY <1>6, HolderMoves DEF Exchange, SendRequest, Goto
  <2>2. pc'[t] = "recv"
    BY <2>1 DEF TypeOK
  <2>3. ctx' = InfoOf(t) /\ InfoOf(t) \in MBInfo /\ Sendable(InfoOf(t))
        /\ sends' = sends + 1 /\ accepted' = NothingAccepted
    BY <1>6, SlotType DEF SendRequest, Numbered
  <2>4. Pending' = sends + 1
    BY <2>2, <2>3 DEF Pending, Waiting
  <2> DEFINE new == [id |-> sends + 1, trans |-> NextTx, req |-> Encap(InfoOf(t))]
  <2>5. new \in Request /\ new.req = Encap(ctx')
    BY <2>3, EncapType, NextTxValue, SpMbAssumption DEF TypeOK, Request
  <2>6. Asked(new, sends + 1, ctx')
    BY <2>3, <2>5, SendableCode DEF Asked
  <2>7. net' = Append(net, new) /\ UNCHANGED <<rep, rx, executed>>
    BY <1>6 DEF SendRequest
  <2> HIDE DEF new
  <2>8. AllAsked(net, sends + 1, ctx')
    BY <1>3
  <2>9. AllAsked(net', sends + 1, ctx')
    BY <2>5, <2>6, <2>7, <2>8 DEF AllAsked, TypeOK
  <2> QED
    BY <1>3, <2>3, <2>4, <2>7, <2>9 DEF FrameInv
<1>7. ASSUME NEW t \in Threads, Exchange(t), ~SendRequest(t)
      PROVE  FrameInv'
  <2>1. lock = t
    BY <1>7, HolderMoves
  <2>2. CASE SendRejected(t) \/ SendFails(t) \/ Release(t)
    BY <1>4, <2>1, <2>2 DEF SendRejected, SendFails, Release, Goto, wireVars
  <2>3. CASE RecvFails(t) \/ RecvRejects(t) \/ RecvEnds(t)
    BY <1>4, <2>1, <2>3 DEF RecvFails, RecvRejects, RecvEnds, Accept, Goto, wireVars
  <2>4. CASE RecvReconnects(t)
    BY <2>4, OnlyTheConnection DEF FrameInv, Pending, Waiting
  <2> QED
    BY <1>7, <2>2, <2>3, <2>4 DEF Exchange
<1>8. CASE RuleStep
  BY <1>4, <1>8, HolderMoves DEF RuleStep, RecvThenGet, RecvThenSet, Accept, Goto,
     Threads
<1> QED
  BY <1>1, <1>5, <1>6, <1>7, <1>8, FrameLine DEF Next

\* Everything the later results use, over TCP.
TcpInv ==
  /\ TypeOK /\ OneExchange /\ ReplyInv /\ ContextHeld /\ FrameInv

LEMMA TcpInvariance == Transport = "tcp" => (Spec => []TcpInv)
<1> SUFFICES ASSUME Transport = "tcp" PROVE Spec => []TcpInv
  OBVIOUS
<1>1. Init => TcpInv
  <2> SUFFICES ASSUME Init PROVE TcpInv
    OBVIOUS
  <2>1. TypeOK
    BY TypeInit
  <2>2. OneExchange /\ ContextHeld
    BY DEF Init, OneExchange, ContextHeld
  <2>3. ReplyInv
    BY DEF Init, ReplyInv, WireCoded, AllCoded, ReplyIsForRequest, NothingAccepted
  <2>4. FrameInv
    BY DEF Init, FrameInv, AllAsked, AllGiven
  <2> QED
    BY <2>1, <2>2, <2>3, <2>4 DEF TcpInv
<1>2. TcpInv /\ [Next]_vars => TcpInv'
  BY TypeStep, ExclusionStep, ReplyStep, HeldStep, FrameStep DEF TcpInv, ReplyInv
<1> QED
  BY <1>1, <1>2, PTL DEF Spec
-----------------------------------------------------------------------------
(* The records that the keep-alive and the rule thread use for ever: first, *)
(* what a reply does to a record, then, what that means over TCP.           *)

\* A record that has been answered asks for the same as before, or can no
\* longer be sent.
LEMMA AnsweredSame ==
  ASSUME NEW i \in MBInfo, Sendable(i), NEW p \in Pdus(Encap(i)),
         NEW j \in {Decap(i, p), i, [i EXCEPT !.code = p.code]}, Sendable(j)
  PROVE  Encap(j) = Encap(i)
<1> USE DEF ReadCodes, SingleCodes, MultiCodes, ExcBit
<1>0. i.code \in FuncCodes /\ Encap(i).code = i.code
  BY DEF Sendable, FuncCodes, Encap
<1>1. CASE p \in ExceptionPdus(Encap(i))
  <2>1. p.code = i.code + 128
    BY <1>0, <1>1 DEF ExceptionPdus
  <2>2. p.code > 128 /\ p.code \notin FuncCodes
    BY <1>0, <2>1 DEF FuncCodes
  <2>3. Decap(i, p).code = p.code /\ [i EXCEPT !.code = p.code].code = p.code
    BY <2>2 DEF Decap, MBInfo
  <2>4. j.code # p.code
    BY <2>2 DEF Sendable, FuncCodes
  <2> QED
    BY <2>3, <2>4
<1>2. CASE p \in AnswerPdus(Encap(i))
  <2>1. p.code = i.code /\ p.reg = i.reg /\ p.n_reg = Encap(i).n_reg
    BY <1>0, <1>2 DEF AnswerPdus, Encap
  <2>2. i.code \notin ReadCodes => p.value = i.value
    BY <1>0, <1>2 DEF AnswerPdus, Encap
  <2>3. [i EXCEPT !.code = p.code] = i
    BY <2>1 DEF MBInfo
  <2>4. CASE i.code \in ReadCodes
    <3>1. Decap(i, p) = [i EXCEPT !.code = p.code, !.value = p.value]
      BY <2>1, <2>4 DEF Decap
    <3>2. Decap(i, p) = [i EXCEPT !.value = p.value]
      BY <2>1, <3>1 DEF MBInfo
    <3>3. Encap([i EXCEPT !.value = p.value]) = Encap(i)
      BY <2>4 DEF Encap, MBInfo
    <3> QED
      BY <2>3, <3>2, <3>3
  <2>5. CASE i.code \in SingleCodes
    <3>1. p.code \notin ReadCodes /\ p.code \in SingleCodes /\ ~(p.code > 128)
      BY <2>1, <2>5
    <3>2. Decap(i, p) = [i EXCEPT !.code = p.code, !.reg = p.reg, !.value = p.value]
      BY <3>1 DEF Decap
    <3>3. p.value = i.value
      BY <2>2, <2>5
    <3>4. Decap(i, p) = i
      BY <2>1, <3>2, <3>3 DEF MBInfo
    <3> QED
      BY <2>3, <3>4
  <2>6. CASE i.code \in MultiCodes
    <3>1. p.n_reg = i.n_reg
      BY <2>1, <2>6 DEF Encap
    <3>2. Decap(i, p) = [i EXCEPT !.code = p.code, !.reg = p.reg, !.n_reg = p.n_reg]
      BY <2>1, <2>6 DEF Decap
    <3>3. Decap(i, p) = i
      BY <2>1, <3>1, <3>2 DEF MBInfo
    <3> QED
      BY <2>3, <3>3
  <2> QED
    BY <1>0, <2>4, <2>5, <2>6 DEF FuncCodes
<1> QED
  BY <1>1, <1>2 DEF Pdus

StillPoll(i) == Sendable(i) => Encap(i) = Encap(PollInfo)

\* A poll that has been answered, whatever the answer, is still that poll,
\* or can no longer be sent.
LEMMA AnsweredPoll ==
  ASSUME NEW i \in MBInfo, Sendable(i), StillPoll(i), NEW p \in Pdus(Encap(i)),
         NEW j \in {Decap(i, p), i, [i EXCEPT !.code = p.code]}
  PROVE  StillPoll(j)
  BY AnsweredSame DEF StillPoll

LEMMA PollersStep ==
  ASSUME Transport = "tcp"
  PROVE  TcpInv /\ PollersOnlyPoll /\ [Next]_vars => PollersOnlyPoll'
<1> SUFFICES ASSUME TcpInv, PollersOnlyPoll, [Next]_vars,
                    NEW s \in {"stay", "rely"}
             PROVE  StillPoll(info'[s])
  BY DEF PollersOnlyPoll, StillPoll
<1>1. /\ TypeOK /\ ContextHeld /\ StillPoll(info[s])
      /\ info \in [Slots -> MBInfo] /\ s \in Slots
  BY DEF TcpInv, TypeOK, PollersOnlyPoll, StillPoll, Slots
<1>2. ASSUME info'[s] = info[s] PROVE StillPoll(info'[s])
  BY <1>1, <1>2
<1>3. CASE UNCHANGED info
  BY <1>2, <1>3
<1>4. CASE AcquireWork
  BY <1>1, <1>2, <1>4 DEF AcquireWork
<1>5. CASE AcquireStay \/ AcquireRely \/ ToggleStay \/ ToggleRely \/ Line
           \/ UNCHANGED vars
  BY <1>3, <1>5 DEF AcquireStay, AcquireRely, ToggleStay, ToggleRely, Line,
     SlaveAnswers, SlaveRefuses, Unanswered, Deliver, DeliverHead, DeliverNoisy,
     ConnectionLost, vars, libVars
<1>6. ASSUME NEW t \in Threads, Accept(t), info'[s] = TakenOut(t)[s]
      PROVE  StillPoll(info'[s])
  <2>1. info'[s] = IF s = SlotOf(t) THEN ctx' ELSE info[s]
    BY <1>1, <1>6 DEF TakenOut
  <2>2. CASE s # SlotOf(t)
    BY <1>2, <2>1, <2>2
  <2>3. CASE s = SlotOf(t)
    <3>1. /\ rx[1].pdu \in Pdus(Encap(ctx)) /\ Sendable(ctx)
          /\ ctx = info[s] /\ ctx \in MBInfo
      BY <1>1, <1>6, <2>3, AcceptedReply DEF TcpInv, InfoOf
    <3>2. ctx' \in {Decap(ctx, rx[1].pdu), ctx, [ctx EXCEPT !.code = rx[1].pdu.code]}
      BY <1>6 DEF Accept, Decoded
    <3>3. StillPoll(ctx')
      BY <1>1, <3>1, <3>2, AnsweredPoll
    <3> QED
      BY <2>1, <2>3, <3>3
  <2> QED
    BY <2>2, <2>3
<1>7. ASSUME NEW t \in Threads, Exchange(t) PROVE StillPoll(info'[s])
  <2>1. CASE SendRejected(t) \/ SendRequest(t) \/ SendFails(t)
    BY <1>3, <2>1 DEF SendRejected, SendRequest, SendFails, libVars
  <2>2. CASE Release(t)
    BY <1>1, <1>2, <2>2 DEF Release
  <2>3. CASE RecvFails(t) \/ RecvRejects(t)
    <3>1. ctx' = ctx /\ pc[t] = "recv" /\ info' = TakenOut(t)
      BY <2>3 DEF RecvFails, RecvRejects
    <3>2. ctx = info[SlotOf(t)]
      BY <1>1, <3>1 DEF ContextHeld, InfoOf
    <3> QED
      BY <1>1, <1>2, <3>1, <3>2 DEF TakenOut
  <2>4. CASE RecvEnds(t)
    BY <1>6, <2>4 DEF RecvEnds
  <2>5. CASE RecvReconnects(t)
    BY <1>3, <2>5, OnlyTheConnection
  <2> QED
    BY <1>7, <2>1, <2>2, <2>3, <2>4, <2>5 DEF Exchange
<1>8. CASE RuleStep
  <2>1. Accept("rely") /\ "rely" \in Threads
    BY <1>8 DEF RuleStep, RecvThenGet, RecvThenSet, Threads
  <2>2. TakenOut("rely") \in [Slots -> MBInfo]
    BY <1>1, <2>1, AcceptType
  <2>3. info'[s] = TakenOut("rely")[s]
    BY <1>1, <1>8, <2>2 DEF RuleStep, RecvThenGet, RecvThenSet
  <2> QED
    BY <1>6, <2>1, <2>3
<1> QED
  BY <1>4, <1>5, <1>7, <1>8 DEF Next

\* Over TCP the keep-alive and the rule thread, whose record the last receive
\* wrote, never send anything but their poll, whatever the slave answers and
\* however the answer is cut or late.
THEOREM PollsStayPolls == Transport = "tcp" => (Spec => []PollersOnlyPoll)
<1> SUFFICES ASSUME Transport = "tcp" PROVE Spec => []PollersOnlyPoll
  OBVIOUS
<1>1. Init => PollersOnlyPoll
  BY DEF Init, PollersOnlyPoll, Slots
<1>2. Spec => []TcpInv
  BY TcpInvariance
<1> QED
  BY <1>1, <1>2, PollersStep, PTL DEF Spec
-----------------------------------------------------------------------------
(* RTU: what a receive leaves in its record. Decoding comes before the      *)
(* checksum there, so it is the reply itself that must leave the request    *)
(* alone, and an undamaged one does.                                        *)

\* Until a receive has given up, what is on its way belongs to the request
\* that the context holds.
LineInv ==
  ~late =>
    /\ \A k \in DOMAIN net : net[k].req = Encap(ctx)
    /\ \A k \in DOMAIN rep : rep[k].pdu \in Pdus(Encap(ctx))
    /\ \A k \in DOMAIN rx : rx[k].clean => rx[k].pdu \in Pdus(Encap(ctx))
    /\ \A t \in Threads :
         pc[t] = "recv" => Sendable(ctx) /\ accepted = NothingAccepted

LEMMA LineStep ==
  ASSUME Transport = "rtu", TypeOK, LineInv, Line
  PROVE  LineInv'
<1>1. UNCHANGED <<pc, ctx, late, accepted>>
  BY DEF Line, SlaveAnswers, SlaveRefuses, Unanswered, Deliver, DeliverHead,
     DeliverNoisy, ConnectionLost, threadVars, libVars, ghostVars
<1> DEFINE e == Encap(ctx)
<1>2. Encap(ctx)' = e
  BY <1>1 DEF Encap
<1> HIDE DEF e
<1>3. CASE late
  BY <1>1, <1>3 DEF LineInv
<1>4. ASSUME ~late
      PROVE  /\ \A k \in DOMAIN net' : net'[k].req = e
             /\ \A k \in DOMAIN rep' : rep'[k].pdu \in Pdus(e)
             /\ \A k \in DOMAIN rx' : rx'[k].clean => rx'[k].pdu \in Pdus(e)
  <2>1. /\ \A k \in DOMAIN net : net[k].req = e
        /\ \A k \in DOMAIN rep : rep[k].pdu \in Pdus(e)
        /\ \A k \in DOMAIN rx : rx[k].clean => rx[k].pdu \in Pdus(e)
        /\ net \in Seq(Request) /\ rep \in Seq(Reply) /\ rx \in Seq(Reply)
    BY <1>4 DEF LineInv, TypeOK, e
  <2>2. ASSUME net # <<>>
        PROVE  net[1].req = e /\ \A k \in DOMAIN Tail(net) : Tail(net)[k].req = e
    BY <2>1, <2>2
  <2>3. ASSUME rep # <<>>
        PROVE  /\ rep[1] \in Reply /\ rep[1].pdu \in Pdus(e)
               /\ \A k \in DOMAIN Tail(rep) : Tail(rep)[k].pdu \in Pdus(e)
    BY <2>1, <2>3
  <2>4. CASE SlaveAnswers \/ SlaveRefuses
    <3>1. PICK p \in Pdus(net[1].req) : rep' = Append(rep, ReplyTo(p))
      BY <2>4 DEF SlaveAnswers, SlaveRefuses, Pdus
    <3>2. net # <<>> /\ net' = Tail(net) /\ rx' = rx
      BY <2>4 DEF SlaveAnswers, SlaveRefuses
    <3>3. ReplyTo(p).pdu \in Pdus(e)
      BY <2>2, <3>1, <3>2 DEF ReplyTo
    <3> DEFINE f == ReplyTo(p)
    <3>4. f.pdu \in Pdus(e) /\ rep' = Append(rep, f)
      BY <3>1, <3>3
    <3> HIDE DEF f
    <3> QED
      BY <2>1, <2>2, <3>2, <3>4
  <2>5. CASE Unanswered
    BY <2>1, <2>2, <2>5 DEF Unanswered
  <2>6. CASE Deliver
    BY <2>1, <2>3, <2>6 DEF Deliver
  <2>7. CASE DeliverNoisy
    <3>1. PICK c \in NoiseCodes :
            rx' = Append(rx, [rep[1] EXCEPT !.pdu.code = c, !.clean = FALSE])
      BY <2>7 DEF DeliverNoisy
    <3> DEFINE f == [rep[1] EXCEPT !.pdu.code = c, !.clean = FALSE]
    <3>2. rep # <<>> /\ rep' = Tail(rep) /\ net' = net
      BY <2>7 DEF DeliverNoisy
    <3>3. ~f.clean /\ rx' = Append(rx, f)
      BY <2>3, <3>1, <3>2 DEF Reply
    <3> HIDE DEF f
    <3> QED
      BY <2>1, <2>3, <3>2, <3>3
  <2>8. ~DeliverHead /\ ~ConnectionLost
    BY SpMbAssumption DEF DeliverHead, ConnectionLost
  <2> QED
    BY <2>4, <2>5, <2>6, <2>7, <2>8 DEF Line
<1>5. ASSUME ~late, NEW t \in Threads, pc[t] = "recv"
      PROVE  Sendable(ctx) /\ accepted = NothingAccepted
  BY <1>5 DEF LineInv
<1>6. Sendable(ctx)' = Sendable(ctx)
  BY <1>1 DEF Sendable
<1> QED
  BY <1>1, <1>2, <1>3, <1>4, <1>5, <1>6 DEF LineInv

LEMMA LineInvStep ==
  ASSUME Transport = "rtu"
  PROVE  TypeOK /\ OneExchange /\ OwnInv /\ LineInv /\ [Next]_vars => LineInv'
<1> SUFFICES ASSUME TypeOK, OneExchange, OwnInv, LineInv, [Next]_vars PROVE LineInv'
  OBVIOUS
<1>1. ASSUME UNCHANGED <<pc, ctx, net, rep, rx, late, accepted>> PROVE LineInv'
  BY <1>1 DEF LineInv, Sendable, Encap
<1>2. CASE ToggleStay \/ ToggleRely \/ UNCHANGED vars
  BY <1>1, <1>2 DEF ToggleStay, ToggleRely, vars, threadVars, libVars, wireVars,
     ghostVars
\* After a step of a thread that then waits for nothing, nobody does.
<1>3. ASSUME NEW t \in Threads, lock \in {t, NoThread},
             NEW where, where # "recv", pc' = [pc EXCEPT ![t] = where]
      PROVE  \A u \in Threads : pc'[u] # "recv"
  BY <1>3, WhoWaits DEF Waiting
<1>4. ASSUME \A u \in Threads : pc'[u] # "recv", UNCHANGED <<ctx, net, rep, rx, late>>
      PROVE  LineInv'
  BY <1>4 DEF LineInv, Encap
<1>5. ASSUME \A u \in Threads : pc'[u] # "recv",
             ~late => net' = <<>> /\ rep' = <<>> /\ rx' = <<>>, late' = late
      PROVE  LineInv'
  BY <1>5 DEF LineInv
<1>6. CASE AcquireWork \/ AcquireStay \/ AcquireRely
  BY <1>3, <1>4, <1>6 DEF AcquireWork, AcquireStay, AcquireRely, LockFree, Goto,
     Threads, libVars, wireVars, ghostVars
\* Nothing is on its way when a request is made.
<1>7. ASSUME NEW t \in Threads, Numbered(t), ~late
      PROVE  net = <<>> /\ rep = <<>> /\ rx = <<>>
  <2>1. pc[t] = "send" /\ lock = t
    BY <1>7 DEF Numbered, OneExchange
  <2>2. ~Waiting
    BY <2>1, Alone DEF Waiting
  <2> QED
    BY <1>7, <2>2 DEF OwnInv
\* Nothing else is on its way when a receive has something to read.
<1>8. ASSUME rx # <<>>, ~late
      PROVE  net = <<>> /\ rep = <<>>
  <2>1. /\ Len(net) + Len(rep) + Len(rx) <= 1
        /\ net \in Seq(Request) /\ rep \in Seq(Reply) /\ rx \in Seq(Reply)
    BY <1>8 DEF OwnInv, OnlyLatest, TypeOK
  <2> QED
    BY <1>8, <2>1, OneAtMost
<1>9. ASSUME NEW t \in Threads, Exchange(t) PROVE LineInv'
  <2>1. lock = t
    BY <1>9, HolderMoves
  <2>2. CASE SendRejected(t) \/ Release(t)
    BY <1>3, <1>4, <2>1, <2>2 DEF SendRejected, Release, Goto, libVars, wireVars,
       ghostVars
  <2>3. CASE SendFails(t)
    <3>1. \A u \in Threads : pc'[u] # "recv"
      BY <1>3, <2>1, <2>3 DEF SendFails, Goto
    <3> QED
      BY <1>5, <1>7, <2>3, <3>1 DEF SendFails
  <2>4. CASE SendRequest(t)
    <3>1. late' = late /\ rep' = rep /\ rx' = rx /\ ctx' = InfoOf(t)
          /\ Sendable(InfoOf(t)) /\ accepted' = NothingAccepted /\ Numbered(t)
      BY <2>4 DEF SendRequest, Numbered
    <3>2. CASE late
      BY <3>1, <3>2 DEF LineInv
    <3>3. CASE ~late
      <4>1. net = <<>> /\ rep' = <<>> /\ rx' = <<>>
        BY <1>7, <3>1, <3>3
      <4>2. PICK f : net' = <<f>> /\ f.req = Encap(ctx')
        BY <2>4, <3>1, <4>1 DEF SendRequest
      <4>3. \A k \in DOMAIN net' : net'[k].req = Encap(ctx')
        BY <4>2
      <4> QED
        BY <3>1, <4>1, <4>3 DEF LineInv
    <3> QED
      BY <3>2, <3>3
  <2>5. CASE RecvFails(t)
    BY <2>5 DEF RecvFails, LineInv
  <2>6. CASE RecvReconnects(t)
    BY <1>1, <2>6, OnlyTheConnection
  <2>7. CASE RecvRejects(t) \/ RecvEnds(t)
    <3>1. \A u \in Threads : pc'[u] # "recv"
      BY <1>3, <2>1, <2>7 DEF RecvRejects, RecvEnds, Goto
    <3>2. rx # <<>> /\ rx' = <<>> /\ net' = net /\ rep' = rep /\ late' = late
      BY <2>7 DEF RecvRejects, RecvEnds, Accept, ghostVars
    <3> QED
      BY <1>5, <1>8, <3>1, <3>2
  <2> QED
    BY <1>9, <2>2, <2>3, <2>4, <2>5, <2>6, <2>7 DEF Exchange
<1>10. CASE RuleStep
  <2>1. lock = "rely" /\ "rely" \in Threads
    BY <1>10, HolderMoves DEF Threads
  <2>2. \A u \in Threads : pc'[u] # "recv"
    BY <1>3, <1>10, <2>1 DEF RuleStep, RecvThenGet, RecvThenSet, Goto
  <2>3. rx # <<>> /\ rx' = <<>> /\ net' = net /\ rep' = rep /\ late' = late
    BY <1>10 DEF RuleStep, RecvThenGet, RecvThenSet, Accept
  <2> QED
    BY <1>5, <1>8, <2>2, <2>3
<1> QED
  BY <1>2, <1>6, <1>9, <1>10, LineStep DEF Next

\* Everything the result uses, over RTU.
RtuInv == TypeOK /\ OneExchange /\ ContextHeld /\ OwnInv /\ LineInv

LEMMA PollChange ==
  ASSUME Transport = "rtu", RtuInv, [Next]_vars, NEW s \in {"stay", "rely"},
         Sendable(info'[s]), Encap(info'[s]) # Encap(info[s]), ~late
  PROVE  accepted' = NothingAccepted /\ \E k \in DOMAIN rx : ~rx[k].clean
<1>1. /\ TypeOK /\ OneExchange /\ ContextHeld
      /\ info \in [Slots -> MBInfo] /\ s \in Slots
  BY DEF RtuInv, TypeOK, Slots
<1>2. info'[s] # info[s]
  OBVIOUS
<1>3. ~UNCHANGED info
  BY <1>2
<1>4. /\ ~ToggleStay /\ ~ToggleRely /\ ~AcquireStay /\ ~AcquireRely /\ ~Line
      /\ ~UNCHANGED vars
  BY <1>3 DEF AcquireStay, AcquireRely, ToggleStay, ToggleRely, Line, SlaveAnswers,
     SlaveRefuses, Unanswered, Deliver, DeliverHead, DeliverNoisy, ConnectionLost,
     vars, libVars
<1>5. ~AcquireWork
  BY <1>1, <1>2 DEF AcquireWork
\* What a receive accepts is undamaged, and answers what the record asks.
<1>6. ASSUME NEW t \in Threads, Accept(t), info'[s] = TakenOut(t)[s]
      PROVE  FALSE
  <2>1. info'[s] = ctx' /\ s = SlotOf(t)
    BY <1>1, <1>2, <1>6 DEF TakenOut
  <2>2. pc[t] = "recv" /\ rx \in Seq(Reply) /\ rx # <<>> /\ rx[1].clean
    BY <1>1, <1>6 DEF Accept, Intact, CrcOk, TypeOK
  <2>3. ctx = info[s] /\ Sendable(ctx) /\ ctx \in MBInfo
    BY <1>1, <2>1, <2>2 DEF ContextHeld, InfoOf, RtuInv, LineInv
  <2>4. rx[1].pdu \in Pdus(Encap(ctx))
    BY <2>2 DEF RtuInv, LineInv
  <2>5. ctx' \in {Decap(ctx, rx[1].pdu), ctx, [ctx EXCEPT !.code = rx[1].pdu.code]}
    BY <1>6 DEF Accept, Decoded
  <2>6. Sendable(ctx')
    BY <2>1
  <2>7. Encap(ctx') = Encap(ctx)
    BY <2>3, <2>4, <2>5, <2>6, AnsweredSame
  <2> QED
    BY <2>1, <2>3, <2>7
<1>7. ~RuleStep
  <2> SUFFICES ASSUME RuleStep PROVE FALSE
    OBVIOUS
  <2>1. Accept("rely") /\ "rely" \in Threads
    BY DEF RuleStep, RecvThenGet, RecvThenSet, Threads
  <2>2. TakenOut("rely") \in [Slots -> MBInfo]
    BY <1>1, <2>1, AcceptType
  <2>3. info'[s] = TakenOut("rely")[s]
    BY <1>1, <2>2 DEF RuleStep, RecvThenGet, RecvThenSet
  <2> QED
    BY <1>6, <2>1, <2>3
<1>8. PICK t \in Threads : Exchange(t)
  BY <1>4, <1>5, <1>7 DEF Next
<1>9. ~SendRejected(t) /\ ~SendRequest(t) /\ ~SendFails(t) /\ ~RecvReconnects(t)
  BY <1>3, OnlyTheConnection DEF SendRejected, SendRequest, SendFails, libVars
<1>10. ~Release(t)
  BY <1>1, <1>2 DEF Release
<1>11. ~RecvFails(t)
  BY <1>1, <1>2 DEF RecvFails, TakenOut, ContextHeld, InfoOf
<1>12. ~RecvEnds(t)
  BY <1>6 DEF RecvEnds
<1>13. RecvRejects(t)
  BY <1>8, <1>9, <1>10, <1>11, <1>12 DEF Exchange
<1>14. pc[t] = "recv" /\ accepted' = accepted /\ rx # <<>> /\ ~CrcOk
  BY <1>13 DEF RecvRejects, Intact, ghostVars
<1>15. accepted' = NothingAccepted
  BY <1>14 DEF RtuInv, LineInv
<1>16. Len(rx) = 1 /\ rx \in Seq(Reply)
  <2>1. /\ Len(net) + Len(rep) + Len(rx) <= 1
        /\ net \in Seq(Request) /\ rep \in Seq(Reply) /\ rx \in Seq(Reply)
    BY DEF RtuInv, OwnInv, OnlyLatest, TypeOK
  <2> QED
    BY <1>14, <2>1, OneAtMost
<1>17. 1 \in DOMAIN rx /\ ~rx[1].clean
  BY <1>14, <1>16 DEF CrcOk
<1> QED
  BY <1>15, <1>17

\* Over RTU, until a receive has given up, only a damaged frame that a receive
\* rejects changes what the keep-alive and the rule thread go on to ask for.
THEOREM PollsChangeByDamage == Transport = "rtu" => (Spec => OnlyDamageChangesPolls)
<1> SUFFICES ASSUME Transport = "rtu" PROVE Spec => OnlyDamageChangesPolls
  OBVIOUS
<1> DEFINE Only ==
      \A s \in {"stay", "rely"} :
       Sendable(info'[s]) /\ Encap(info'[s]) # Encap(info[s])
         => \/ late
            \/ accepted' = NothingAccepted /\ \E k \in DOMAIN rx : ~rx[k].clean
<1>1. Init => RtuInv
  BY TypeInit DEF Init, RtuInv, OneExchange, ContextHeld, OwnInv, OnlyLatest, LineInv,
     NothingAccepted
<1>2. RtuInv /\ [Next]_vars => RtuInv'
  BY TypeStep, ExclusionStep, HeldStep, OwnStep, LineInvStep DEF RtuInv
<1>3. RtuInv /\ [Next]_vars => [Only]_vars
  BY PollChange
<1> QED
  BY <1>1, <1>2, <1>3, PTL DEF Spec, OnlyDamageChangesPolls
-----------------------------------------------------------------------------
(* TCP, when replies arrive in one piece: library, threads and lock         *)
(* implement MbMaster, for every value of the other constants. Every step   *)
(* is a step of the abstract master or changes nothing it can see.          *)

Whole == Transport = "tcp" /\ ~Split

LEMMA AbsInit == Init => Master!Init
  BY DEF Init, Master!Init, Waiting, Answer, NothingAccepted

\* Nothing the abstract master has.
LEMMA AbsStutter ==
  ASSUME UNCHANGED <<sends, executed, accepted>>, Waiting' = Waiting
  PROVE  [Master!Next]_(Master!vars)
  BY DEF Master!vars, Answer

\* Nobody waits, before or after: the answer may be forgotten.
LEMMA AbsForget ==
  ASSUME UNCHANGED <<sends, executed>>, ~Waiting, ~Waiting',
         accepted' \in {accepted, NothingAccepted}
  PROVE  [Master!Next]_(Master!vars)
<1>0. Waiting' = Waiting
  BY DEF Waiting
<1>1. CASE accepted' = accepted
  BY <1>0, <1>1, AbsStutter
<1>2. CASE accepted' = NothingAccepted
  <2>1. Answer' = "none"
    BY <1>2 DEF Answer, NothingAccepted
  <2> QED
    BY <1>0, <2>1 DEF Master!Next, Master!Forget
<1> QED
  BY <1>1, <1>2

LEMMA AbsSend ==
  ASSUME TypeOK, OneExchange, NEW t \in Threads, SendRequest(t) \/ SendFails(t)
  PROVE  Master!Issue
<1>1. /\ lock = t /\ pc[t] = "send" /\ sends' = sends + 1
      /\ accepted' = NothingAccepted /\ executed' = executed
  BY HolderMoves DEF Exchange, SendRequest, SendFails, Numbered
<1>2. ~Waiting
  BY <1>1, Alone DEF Waiting
<1>3. Waiting' \in BOOLEAN /\ Answer' = "none"
  BY <1>1 DEF Waiting, Answer, NothingAccepted
<1> QED
  BY <1>1, <1>2, <1>3 DEF Master!Issue

\* A receive that gives up or rejects returns nothing.
LEMMA AbsNothing ==
  ASSUME TypeOK, OneExchange, FrameInv, NEW t \in Threads,
         RecvFails(t) \/ RecvRejects(t)
  PROVE  Master!Return
<1>1. /\ lock = t /\ pc[t] = "recv" /\ pc' = [pc EXCEPT ![t] = "end"]
      /\ UNCHANGED <<sends, executed, accepted>>
  BY HolderMoves DEF Exchange, RecvFails, RecvRejects, Goto, wireVars, ghostVars
<1>2. Waiting
  BY <1>1 DEF Waiting
<1>3. ~Waiting'
  BY <1>1, Alone DEF Waiting, TypeOK
<1>4. Answer' = "none"
  BY <1>1 DEF FrameInv, Answer, NothingAccepted
<1> QED
  BY <1>1, <1>2, <1>3, <1>4 DEF Master!Return, Master!ReturnOther, Master!Answered

\* A receive that accepts reports success only for a request that the slave
\* has carried out: an exception reply sets the record's err.
LEMMA AcceptMeans ==
  ASSUME Whole, TcpInv, NEW t \in Threads, Accept(t)
  PROVE  /\ accepted'.req = sends /\ sends # 0
         /\ accepted'.ok \in BOOLEAN
         /\ accepted'.ok => sends \in executed
<1>1. /\ rx[1] \in Reply /\ rx[1].id = sends /\ mine[t] = sends /\ sends # 0
      /\ Given(rx[1], Pending, ctx, executed) /\ ctx \in MBInfo
  BY AcceptedReply DEF TcpInv, Whole, TypeOK
<1>2. ctx' = Decap(ctx, rx[1].pdu)
  BY <1>1 DEF Whole, Given, Accept, Decoded, WholeFirst
<1>3. accepted'.req = sends /\ accepted'.ok = (ctx'.err = 0)
  BY <1>1 DEF Accept
<1>4. ASSUME sends \notin executed PROVE ~accepted'.ok
  <2>1. rx[1].pdu.code > ExcBit /\ rx[1].pdu.err # 0
    BY <1>1, <1>4 DEF Given
  <2>2. ctx'.err = rx[1].pdu.err
    BY <1>1, <1>2, <2>1 DEF Decap, MBInfo, Reply, ExcBit, ReadCodes, SingleCodes,
       MultiCodes
  <2> QED
    BY <1>3, <2>1, <2>2
<1> QED
  BY <1>1, <1>3, <1>4

LEMMA AbsAccept ==
  ASSUME Whole, TcpInv, NEW t \in Threads, Accept(t), lock = t,
         NEW where \in {"send", "end"}, pc' = [pc EXCEPT ![t] = where]
  PROVE  Master!Return
<1>1. /\ TypeOK /\ OneExchange /\ pc[t] = "recv"
      /\ UNCHANGED <<sends, executed>>
  BY DEF TcpInv, Accept
<1>2. Waiting
  BY <1>1 DEF Waiting
<1>3. ~Waiting'
  BY <1>1, Alone DEF Waiting, TypeOK
<1>4. CASE accepted'.ok
  BY <1>1, <1>2, <1>3, <1>4, AcceptMeans
  DEF Answer, Master!Return, Master!ReturnOk, Master!Answered
<1>5. CASE ~accepted'.ok
  BY <1>1, <1>2, <1>3, <1>5, AcceptMeans
  DEF Answer, Master!Return, Master!ReturnOther, Master!Answered
<1> QED
  BY <1>4, <1>5

\* The slave carries out requests that were issued.
LEMMA AbsLine ==
  ASSUME TcpInv, Line
  PROVE  [Master!Next]_(Master!vars)
<1>1. UNCHANGED <<sends, accepted>> /\ Waiting' = Waiting
  BY DEF Line, SlaveAnswers, SlaveRefuses, Unanswered, Deliver, DeliverHead,
     DeliverNoisy, ConnectionLost, threadVars, libVars, ghostVars, Waiting
<1>2. CASE executed' = executed
  BY <1>1, <1>2, AbsStutter
<1>3. ASSUME net # <<>>, executed' = executed \union {net[1].id}
      PROVE  Master!Execute
  <2>1. net[1].id \in 1..sends
    BY <1>3, TailCoded DEF TcpInv, TypeOK, ReplyInv, WireCoded, Coded
  <2>2. Answer' = Answer
    BY <1>1 DEF Answer
  <2> QED
    BY <1>1, <1>3, <2>1, <2>2 DEF Master!Execute
<1>4. CASE SlaveAnswers
  BY <1>3, <1>4 DEF SlaveAnswers, Master!Next
<1>5. CASE Unanswered
  BY <1>2, <1>3, <1>5 DEF Unanswered, Master!Next
<1>6. CASE ~SlaveAnswers /\ ~Unanswered
  BY <1>2, <1>6 DEF Line, SlaveRefuses, Deliver, DeliverHead, DeliverNoisy,
     ConnectionLost
<1> QED
  BY <1>4, <1>5, <1>6

LEMMA AbsStep ==
  ASSUME Whole
  PROVE  TcpInv /\ [Next]_vars => [Master!Next]_(Master!vars)
<1> SUFFICES ASSUME TcpInv, [Next]_vars PROVE [Master!Next]_(Master!vars)
  OBVIOUS
<1>1. TypeOK /\ OneExchange /\ FrameInv
  BY DEF TcpInv
<1>2. CASE ToggleStay \/ ToggleRely \/ UNCHANGED vars
  BY <1>2, AbsStutter DEF ToggleStay, ToggleRely, vars, threadVars, libVars,
     wireVars, ghostVars, Waiting
\* A step of a thread that neither sends nor receives.
<1>3. ASSUME NEW t \in Threads, lock \in {t, NoThread}, pc[t] # "recv",
             NEW where, where # "recv", pc' = [pc EXCEPT ![t] = where],
             UNCHANGED <<sends, executed>>, accepted' \in {accepted, NothingAccepted}
      PROVE  [Master!Next]_(Master!vars)
  <2>1. ~Waiting
    BY <1>1, <1>3, Alone DEF Waiting
  <2>2. ~Waiting'
    BY <1>1, <1>3, Alone DEF Waiting, TypeOK
  <2> QED
    BY <1>3, <2>1, <2>2, AbsForget
<1>4. CASE AcquireWork \/ AcquireStay \/ AcquireRely
  BY <1>3, <1>4 DEF AcquireWork, AcquireStay, AcquireRely, LockFree, Goto, Threads,
     libVars, wireVars, ghostVars
<1>5. ASSUME NEW t \in Threads, Exchange(t) PROVE [Master!Next]_(Master!vars)
  <2>1. lock = t
    BY <1>1, <1>5, HolderMoves
  <2>2. CASE Release(t) \/ SendRejected(t)
    BY <1>3, <2>1, <2>2 DEF Release, SendRejected, Goto, libVars, wireVars, ghostVars
  <2>3. CASE SendRequest(t) \/ SendFails(t)
    BY <1>1, <2>3, AbsSend DEF Master!Next
  <2>4. CASE RecvFails(t) \/ RecvRejects(t)
    BY <1>1, <2>4, AbsNothing DEF Master!Next
  <2>5. CASE RecvEnds(t)
    BY <2>1, <2>5, AbsAccept DEF RecvEnds, Goto, Master!Next
  <2>6. CASE RecvReconnects(t)
    BY <2>6, OnlyTheConnection, AbsStutter DEF Waiting
  <2> QED
    BY <1>5, <2>2, <2>3, <2>4, <2>5, <2>6 DEF Exchange
<1>6. CASE RuleStep
  <2>1. lock = "rely" /\ "rely" \in Threads /\ Accept("rely")
        /\ pc' = [pc EXCEPT !["rely"] = "send"]
    BY <1>1, <1>6, HolderMoves DEF RuleStep, RecvThenGet, RecvThenSet, Goto, Threads
  <2> QED
    BY <2>1, AbsAccept DEF Master!Next
<1> QED
  BY <1>2, <1>4, <1>5, <1>6, AbsLine DEF Next

\* Over TCP, when a reply arrives in one piece, the callers of sp_mb_send and
\* sp_mb_recv get what MbMaster promises: one request at a time, and "ok" only
\* for the request that was made.
THEOREM ImplementsMaster == Whole => (Spec => MasterSpec)
<1> SUFFICES ASSUME Whole PROVE Spec => MasterSpec
  OBVIOUS
<1>1. Spec => []TcpInv
  BY TcpInvariance DEF Whole
<1>2. TcpInv /\ [Next]_vars => [Master!Next]_(Master!vars)
  BY AbsStep
<1> QED
  BY <1>1, <1>2, AbsInit, PTL DEF Spec, MasterSpec, Master!Spec

\* What that means for the operator: "MB SUCCESS" is only shown for a request
\* the slave has carried out.
THEOREM SuccessIsTrue == Whole => (Spec => []SuccessMeansExecuted)
<1> SUFFICES ASSUME Whole PROVE Spec => []SuccessMeansExecuted
  OBVIOUS
<1>1. Init => SuccessMeansExecuted
  BY DEF Init, SuccessMeansExecuted, NothingAccepted
<1>2. ASSUME TcpInv, SuccessMeansExecuted, [Next]_vars
      PROVE  SuccessMeansExecuted'
  <2>1. CASE accepted' \in {accepted, NothingAccepted} /\ executed \subseteq executed'
    BY <1>2, <2>1 DEF SuccessMeansExecuted, NothingAccepted
  <2>2. ASSUME NEW t \in Threads, Accept(t), executed' = executed
        PROVE  SuccessMeansExecuted'
    BY <1>2, <2>2, AcceptMeans DEF SuccessMeansExecuted
  <2>3. CASE ToggleStay \/ ToggleRely \/ AcquireWork \/ AcquireStay \/ AcquireRely
             \/ UNCHANGED vars
    BY <2>1, <2>3 DEF ToggleStay, ToggleRely, AcquireWork, AcquireStay, AcquireRely,
       vars, wireVars, ghostVars
  <2>4. ASSUME NEW t \in Threads, Exchange(t) PROVE SuccessMeansExecuted'
    <3>1. CASE SendRejected(t) \/ SendRequest(t) \/ SendFails(t) \/ Release(t)
      BY <2>1, <3>1 DEF SendRejected, SendRequest, SendFails, Numbered, Release,
         wireVars, ghostVars
    <3>2. CASE RecvFails(t) \/ RecvRejects(t)
      BY <2>1, <3>2 DEF RecvFails, RecvRejects, wireVars, ghostVars
    <3>3. CASE RecvReconnects(t)
      BY <2>1, <3>3, OnlyTheConnection
    <3> QED
      BY <2>2, <2>4, <3>1, <3>2, <3>3 DEF Exchange, RecvEnds, Accept
  <2>5. CASE RuleStep
    BY <2>2, <2>5 DEF RuleStep, RecvThenGet, RecvThenSet, Accept, Threads
  <2>6. CASE Line
    BY <2>1, <2>6 DEF Line, SlaveAnswers, SlaveRefuses, Unanswered, Deliver,
       DeliverHead, DeliverNoisy, ConnectionLost, ghostVars
  <2> QED
    BY <1>2, <2>3, <2>4, <2>5, <2>6 DEF Next
<1>3. Spec => []TcpInv
  BY TcpInvariance DEF Whole
<1> QED
  BY <1>1, <1>2, <1>3, PTL DEF Spec
=============================================================================
