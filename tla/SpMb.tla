-------------------------------- MODULE SpMb --------------------------------
(***************************************************************************)
(* The request/response exchange of the ModBus master: sp_mb_send and      *)
(* sp_mb_recv (src/sp_mb.c) on one shared context, the TCP and RTU frame   *)
(* checks under them, and the three threads of main.c that call them under *)
(* resource.lock: the operator ("work"), the keep-alive thread ("stay")    *)
(* and the rule thread ("rely").                                           *)
(*                                                                         *)
(* A frame is a record, not bytes: the PDU fields the master acts on, the  *)
(* MBAP transaction code, and the ghost "id", the number of the request a  *)
(* frame belongs to, which the code does not have and never reads here.    *)
(* Operators marked "Fault" are faulty variants of the ones after them;    *)
(* the specification does not use them.                                    *)
(***************************************************************************)
EXTENDS Integers, Sequences

CONSTANTS
  Transport,   \* "tcp" or "rtu": SPMB_CTX_T.mb_type
  TransMod,    \* transaction codes are UINT16_T: 65536 in the code
  Values,      \* what a register or coil payload can be; 0 is "all clear"
  Errs,        \* the exception codes a slave answers with
  WorkInfos,   \* the MB_INFO_T records the operator can submit
  NoiseCodes,  \* function codes a damaged serial frame can carry
  Split,       \* TRUE: a TCP reply may reach the socket in two segments
  MaxRules,    \* rules that may fire in one pass of the rule thread
  MaxSends     \* bound: requests numbered in one behaviour

ReadCodes   == 1..4
SingleCodes == {5, 6}
MultiCodes  == {15, 16}
FuncCodes   == ReadCodes \union SingleCodes \union MultiCodes
ExcBit      == 128

MBInfo == [code : Nat, err : Nat, reg : Nat, n_reg : Nat, value : Values]

ASSUME SpMbAssumption ==
  /\ Transport \in {"tcp", "rtu"}
  /\ TransMod \in Nat \ {0}
  /\ 0 \in Values
  /\ Errs \subseteq Nat \ {0}
  /\ WorkInfos \subseteq MBInfo
  /\ NoiseCodes \subseteq Nat
  /\ Split \in BOOLEAN
  /\ Transport = "rtu" => ~Split
  /\ MaxRules \in Nat
  /\ MaxSends \in Nat

Threads == {"work", "stay", "rely"}
NoThread == "none"

(* The MB_INFO_T variables of main.c. "stay" and "rely" live as long as    *)
(* their thread; "work" is cleared for every command; "get" and "set" are  *)
(* the locals of io_rely_handle.                                           *)
Slots == {"work", "stay", "rely", "get", "set"}

NoInfo   == [code |-> 0,  err |-> 0, reg |-> 0, n_reg |-> 0,  value |-> 0]
PollInfo == [code |-> 1,  err |-> 0, reg |-> 0, n_reg |-> 16, value |-> 0]
SetInfo(v) == [code |-> 15, err |-> 0, reg |-> 0, n_reg |-> 16, value |-> v]

VARIABLES
  lock,      \* owner of resource.lock
  pc,        \* where each thread is
  stay, rely,\* the mode flags of main.c
  slot,      \* the MB_INFO_T the rule thread passes to the library
  info,      \* the callers' MB_INFO_T variables
  fired,     \* rules fired so far in this pass of the rule thread
  ctx,       \* mb_data->mb_info of the shared context
  tx,        \* mbap_head[MB_TX].transaction_code
  sends,     \* ghost: number of the latest request
  net,       \* requests on their way to the slave
  rep,       \* replies on their way back
  rx,        \* bytes the kernel holds for the master, as frames
  conn,      \* the TCP connection: "up", or "closed" by the other side
  executed,  \* ghost: requests the slave has carried out
  mine,      \* ghost: each thread's request, 0 when it has none
  late,      \* ghost: some receive has given up without a reply
  accepted   \* ghost: what the latest successful receive decoded

threadVars == <<lock, pc, slot, fired>>
flagVars   == <<stay, rely>>
libVars    == <<info, ctx, tx, sends>>
wireVars   == <<net, rep, rx, conn, executed>>
ghostVars  == <<mine, late, accepted>>
vars       == <<threadVars, flagVars, libVars, wireVars, ghostVars>>

NothingAccepted == [req |-> 0, rep |-> 0, ok |-> TRUE]
-----------------------------------------------------------------------------
(* Frames.                                                                 *)

\* What mb_data_encap puts on the wire for an MB_INFO_T.
Encap(i) ==
  [code  |-> i.code,
   reg   |-> i.reg,
   n_reg |-> IF i.code \in SingleCodes THEN 0 ELSE i.n_reg,
   value |-> IF i.code \in ReadCodes THEN 0 ELSE i.value]

WireReq == [code : Nat, reg : Nat, n_reg : Nat, value : Values]
Request == [id : Nat, trans : Nat, req : WireReq]
Reply   == [id : Nat, trans : Nat, pdu : MBInfo,
            part : {"whole", "head", "tail"}, clean : BOOLEAN]

\* sp_mbctx_info_updata refuses everything else.
Sendable(i) ==
  \/ i.code \in ReadCodes \union MultiCodes /\ i.n_reg # 0
  \/ i.code \in SingleCodes

\* Fault: the exception code is not decoded.
DecapNoErr(i, p) ==
  IF p.code \in ReadCodes THEN [i EXCEPT !.code = p.code, !.value = p.value]
  ELSE [i EXCEPT !.code = p.code]

\* mb_data_decap: which fields of the context a reply PDU overwrites.
Decap(i, p) ==
  CASE p.code > ExcBit       -> [i EXCEPT !.code = p.code, !.err = p.err]
    [] p.code \in ReadCodes  -> [i EXCEPT !.code = p.code, !.value = p.value]
    [] p.code \in SingleCodes ->
         [i EXCEPT !.code = p.code, !.reg = p.reg, !.value = p.value]
    [] p.code \in MultiCodes ->
         [i EXCEPT !.code = p.code, !.reg = p.reg, !.n_reg = p.n_reg]
    [] OTHER                 -> [i EXCEPT !.code = p.code]

\* A slave's PDUs for a request: an exception, or the answer, which carries
\* data for a read and echoes a write.
ExceptionPdus(q) ==
  {[code |-> q.code + ExcBit, err |-> e, reg |-> 0, n_reg |-> 0,
    value |-> 0] : e \in Errs}
AnswerPdus(q) ==
  {[code |-> q.code, err |-> 0, reg |-> q.reg, n_reg |-> q.n_reg,
    value |-> v] : v \in IF q.code \in ReadCodes THEN Values ELSE {q.value}}

\* Fault: the transaction code does not wrap.
TxUnwrapped == tx + 1

\* mbap_head_encap numbers the requests; mb_rtu_send numbers nothing.
NextTx == IF Transport = "tcp" THEN (tx + 1) % TransMod ELSE tx

\* The receive buffer starts with a complete reply: in one segment, or head
\* and tail both arrived.
WholeFirst ==
  \/ rx[1].part = "whole"
  \/ rx[1].part = "head" /\ Len(rx) > 1

\* Fault: the transaction code is not compared.
HeaderOkNoTrans(f) == f.part # "tail"

\* mbap_head_decap_check: protocol and unit codes are the same in every
\* frame of one slave, so the transaction code decides. A tail read as a
\* header matches nothing.
HeaderOk(f) == f.part # "tail" /\ f.trans = tx

\* Fault: the checksum is not compared.
CrcOkLoose == TRUE

\* mbrtu_crc_decap_check: the checksum is read where the first PDU ends and
\* computed over everything received, so only a single intact frame passes.
CrcOk == Len(rx) = 1 /\ rx[1].clean

Intact(f) == IF Transport = "tcp" THEN HeaderOk(f) ELSE CrcOk

\* What decoding leaves in the context. A truncated reply is decoded as far
\* as it goes: the header alone, or the function code too.
Decoded ==
  IF WholeFirst THEN {Decap(ctx, rx[1].pdu)}
  ELSE {ctx, [ctx EXCEPT !.code = rx[1].pdu.code]}
-----------------------------------------------------------------------------
(* The threads of main.c. Each round is: lock, send, receive, unlock; the   *)
(* rule thread makes two more exchanges, "get" and "set", for every rule     *)
(* that applies, all under one lock.                                         *)

Init ==
  /\ lock = NoThread
  /\ pc = [t \in Threads |-> "idle"]
  /\ stay = FALSE /\ rely = FALSE
  /\ slot = "rely"
  /\ info = [s \in Slots |-> IF s \in {"stay", "rely"} THEN PollInfo ELSE NoInfo]
  /\ fired = 0
  /\ ctx = NoInfo
  /\ tx = 0
  /\ sends = 0
  /\ net = <<>> /\ rep = <<>> /\ rx = <<>> /\ conn = "up"
  /\ executed = {}
  /\ mine = [t \in Threads |-> 0]
  /\ late = FALSE
  /\ accepted = NothingAccepted

Goto(t, where) == pc' = [pc EXCEPT ![t] = where]

SlotOf(t) == IF t = "rely" THEN slot ELSE t
InfoOf(t) == info[SlotOf(t)]

\* Fault: a round does not wait for the lock.
LockFreeAlways == TRUE

\* pthread_mutex_lock returns only then.
LockFree == lock = NoThread

\* Bound: the numbered requests of a behaviour.
Budget(n) == sends + n <= MaxSends

\* The operator's "stay" and "rely" commands write the flags unlocked.
ToggleStay ==
  /\ pc["work"] = "idle"
  /\ stay' = ~stay
  /\ UNCHANGED <<rely, threadVars, libVars, wireVars, ghostVars>>

ToggleRely ==
  /\ pc["work"] = "idle"
  /\ rely' = ~rely
  /\ UNCHANGED <<stay, threadVars, libVars, wireVars, ghostVars>>

\* work: the operator has entered a request, and the lock is taken for it.
AcquireWork ==
  /\ pc["work"] = "idle" /\ LockFree /\ Budget(1)
  /\ lock' = "work"
  /\ \E i \in WorkInfos : info' = [info EXCEPT !["work"] = i]
  /\ Goto("work", "send")
  /\ UNCHANGED <<slot, fired, flagVars, ctx, tx, sends, wireVars, ghostVars>>

\* stay_connected_routine: the request is skipped unless "stay" alone is on.
AcquireStay ==
  /\ pc["stay"] = "idle" /\ LockFree
  /\ lock' = "stay"
  /\ IF stay /\ ~rely THEN Budget(1) /\ Goto("stay", "send")
                      ELSE Goto("stay", "end")
  /\ UNCHANGED <<slot, fired, flagVars, libVars, wireVars, ghostVars>>

\* io_rely_routine: the request is skipped unless "rely" is on.
AcquireRely ==
  /\ pc["rely"] = "idle" /\ LockFree
  /\ lock' = "rely"
  /\ IF rely THEN Budget(1 + 2 * MaxRules) /\ Goto("rely", "send")
             ELSE Goto("rely", "end")
  /\ UNCHANGED <<slot, fired, flagVars, libVars, wireVars, ghostVars>>

\* The unlock at the end of a round. What the round kept in local variables
\* is gone; the MB_INFO_T of "stay" and of "rely" is not local to a round.
Release(t) ==
  /\ pc[t] = "end"
  /\ lock' = NoThread
  /\ Goto(t, "idle")
  /\ slot' = "rely"
  /\ fired' = 0
  /\ info' = [info EXCEPT !["work"] = NoInfo, !["get"] = NoInfo, !["set"] = NoInfo]
  /\ mine' = [mine EXCEPT ![t] = 0]
  /\ accepted' = NothingAccepted
  /\ UNCHANGED <<flagVars, ctx, tx, sends, wireVars, late>>
-----------------------------------------------------------------------------
(* sp_mb_send.                                                             *)

\* sp_mbctx_info_updata refuses the record before the context is touched.
SendRejected(t) ==
  /\ pc[t] = "send" /\ ~Sendable(InfoOf(t))
  /\ Goto(t, "end")
  /\ UNCHANGED <<lock, slot, fired, flagVars, libVars, wireVars, ghostVars>>

\* No frame survives in the network while the transaction code goes once
\* round: an assumption on the environment.
InFlight == {net[k].id : k \in DOMAIN net} \union {rep[k].id : k \in DOMAIN rep}
              \union {rx[k].id : k \in DOMAIN rx}
WindowHolds == \A id \in InFlight : sends + 1 - id < TransMod

\* The record is copied into the context and encoded: the request exists.
Numbered(t) ==
  /\ pc[t] = "send" /\ Sendable(InfoOf(t))
  /\ Transport = "tcp" => WindowHolds
  /\ ctx' = InfoOf(t)
  /\ tx' = NextTx
  /\ sends' = sends + 1
  /\ mine' = [mine EXCEPT ![t] = sends + 1]
  /\ accepted' = NothingAccepted

\* A connection that is closed is made again first (tcp_send).
SendRequest(t) ==
  /\ Numbered(t)
  /\ conn' = "up"
  /\ net' = Append(net, [id |-> sends + 1, trans |-> NextTx, req |-> Encap(InfoOf(t))])
  /\ Goto(t, "recv")
  /\ UNCHANGED <<lock, slot, fired, flagVars, info, rep, rx, executed, late>>

\* The write fails, or a closed connection cannot be made again; com_send also
\* throws away what the serial line has received.
SendFails(t) ==
  /\ Numbered(t)
  /\ rx' = IF Transport = "rtu" THEN <<>> ELSE rx
  /\ Goto(t, "end")
  /\ UNCHANGED <<lock, slot, fired, flagVars, info, net, rep, conn, executed, late>>
-----------------------------------------------------------------------------
(* sp_mb_recv. However it ends, the context's record is copied back over    *)
(* the caller's.                                                            *)

TakenOut(t) == [info EXCEPT ![SlotOf(t)] = ctx']

\* Fault: a receive that gives up starts again.
RecvFailsAgain(t) ==
  /\ pc[t] = "recv"
  /\ ctx' = ctx
  /\ info' = TakenOut(t)
  /\ late' = TRUE
  /\ UNCHANGED <<lock, pc, slot, fired, flagVars, tx, sends, wireVars, mine, accepted>>

\* Nothing arrived in time, select or recv failed, or a closed connection
\* could not be made again.
RecvFails(t) ==
  /\ pc[t] = "recv"
  /\ ctx' = ctx
  /\ info' = TakenOut(t)
  /\ late' = TRUE
  /\ Goto(t, "end")
  /\ UNCHANGED <<lock, slot, fired, flagVars, tx, sends, wireVars, mine, accepted>>

\* tcp_recv finds the connection closed and makes it again. That starts its
\* count anew: the receive goes on, on the new connection.
RecvReconnects(t) ==
  /\ pc[t] = "recv" /\ conn = "closed"
  /\ conn' = "up"
  /\ UNCHANGED <<threadVars, flagVars, libVars, net, rep, rx, executed, ghostVars>>

\* Fault: decoding comes before the header check.
RecvRejectsDecoded(t) ==
  /\ pc[t] = "recv" /\ rx # <<>> /\ ~Intact(rx[1])
  /\ ctx' = Decap(ctx, rx[1].pdu)
  /\ info' = TakenOut(t)
  /\ rx' = <<>>
  /\ Goto(t, "end")
  /\ UNCHANGED <<lock, slot, fired, flagVars, tx, sends, net, rep, conn, executed, ghostVars>>

\* Everything that has arrived is read and the first frame fails its check.
\* Over TCP the check comes before decoding; over RTU decoding comes before
\* the CRC, unless the slave address was already wrong.
RecvRejects(t) ==
  /\ pc[t] = "recv" /\ rx # <<>> /\ ~Intact(rx[1])
  /\ \/ Transport = "tcp" /\ ctx' = ctx
     \/ Transport = "rtu" /\ ~rx[1].clean /\ ctx' = ctx
     \/ Transport = "rtu" /\ ctx' = Decap(ctx, rx[1].pdu)
  /\ info' = TakenOut(t)
  /\ rx' = <<>>
  /\ Goto(t, "end")
  /\ UNCHANGED <<lock, slot, fired, flagVars, tx, sends, net, rep, conn, executed, ghostVars>>

\* Everything that has arrived is read and the first frame is accepted.
Accept(t) ==
  /\ pc[t] = "recv" /\ rx # <<>> /\ Intact(rx[1])
  /\ ctx' \in Decoded
  /\ rx' = <<>>
  /\ accepted' = [req |-> mine[t], rep |-> rx[1].id, ok |-> ctx'.err = 0]
  /\ UNCHANGED <<lock, flagVars, tx, sends, net, rep, conn, executed, mine, late>>

\* ... and the round, or the pass over the rules, is over.
RecvEnds(t) ==
  /\ Accept(t)
  /\ SlotOf(t) # "get"
  /\ info' = TakenOut(t)
  /\ Goto(t, "end")
  /\ UNCHANGED <<slot, fired>>

\* ... and a rule applies: io_rely_handle reads the output coils,
RecvThenGet ==
  /\ Accept("rely")
  /\ slot \in {"rely", "set"} /\ fired < MaxRules
  /\ info' = [TakenOut("rely") EXCEPT !["get"] = PollInfo]
  /\ slot' = "get" /\ fired' = fired + 1
  /\ Goto("rely", "send")

\* ... and then writes them. Without coil data in the reply it writes zeros.
CoilsRead == WholeFirst /\ rx[1].pdu.code \in ReadCodes
RecvThenSet ==
  /\ Accept("rely")
  /\ slot = "get"
  /\ \E v \in IF CoilsRead THEN Values ELSE {0} :
       info' = [TakenOut("rely") EXCEPT !["set"] = SetInfo(v)]
  /\ slot' = "set" /\ fired' = fired
  /\ Goto("rely", "send")
-----------------------------------------------------------------------------
(* The slave and the line between, as the master meets them.               *)

ReplyTo(p) == [id |-> net[1].id, trans |-> net[1].trans, pdu |-> p,
              part |-> "whole", clean |-> TRUE]

SlaveAnswers ==
  /\ net # <<>>
  /\ \E p \in AnswerPdus(net[1].req) : rep' = Append(rep, ReplyTo(p))
  /\ net' = Tail(net)
  /\ executed' = executed \union {net[1].id}
  /\ UNCHANGED <<threadVars, flagVars, libVars, rx, conn, ghostVars>>

SlaveRefuses ==
  /\ net # <<>>
  /\ \E p \in ExceptionPdus(net[1].req) : rep' = Append(rep, ReplyTo(p))
  /\ net' = Tail(net)
  /\ UNCHANGED <<threadVars, flagVars, libVars, rx, conn, executed, ghostVars>>

\* The request, or the reply to it, is lost.
Unanswered ==
  /\ net # <<>>
  /\ net' = Tail(net)
  /\ executed' \in {executed, executed \union {net[1].id}}
  /\ UNCHANGED <<threadVars, flagVars, libVars, rep, rx, conn, ghostVars>>

Deliver ==
  /\ rep # <<>>
  /\ rx' = Append(rx, rep[1])
  /\ rep' = Tail(rep)
  /\ UNCHANGED <<threadVars, flagVars, libVars, net, conn, executed, ghostVars>>

\* The first segment of a TCP reply arrives, the rest is still on its way.
DeliverHead ==
  /\ Split /\ rep # <<>> /\ rep[1].part = "whole"
  /\ rx' = Append(rx, [rep[1] EXCEPT !.part = "head"])
  /\ rep' = [rep EXCEPT ![1].part = "tail"]
  /\ UNCHANGED <<threadVars, flagVars, libVars, net, conn, executed, ghostVars>>

\* A serial frame is damaged on the line.
DeliverNoisy ==
  /\ Transport = "rtu" /\ rep # <<>>
  /\ \E c \in NoiseCodes :
       rx' = Append(rx, [rep[1] EXCEPT !.pdu.code = c, !.clean = FALSE])
  /\ rep' = Tail(rep)
  /\ UNCHANGED <<threadVars, flagVars, libVars, net, conn, executed, ghostVars>>

\* The TCP connection is dropped with everything in it; the send or receive
\* under way, or the next, makes another one, or fails.
ConnectionLost ==
  /\ Transport = "tcp" /\ conn = "up"
  /\ net' = <<>> /\ rep' = <<>> /\ rx' = <<>> /\ conn' = "closed"
  /\ UNCHANGED <<threadVars, flagVars, libVars, executed, ghostVars>>
-----------------------------------------------------------------------------
Exchange(t) ==
  \/ SendRejected(t) \/ SendRequest(t) \/ SendFails(t)
  \/ RecvFails(t) \/ RecvReconnects(t) \/ RecvRejects(t) \/ RecvEnds(t)
  \/ Release(t)

RuleStep == RecvThenGet \/ RecvThenSet

Line ==
  \/ SlaveAnswers \/ SlaveRefuses \/ Unanswered
  \/ Deliver \/ DeliverHead \/ DeliverNoisy \/ ConnectionLost

Next ==
  \/ ToggleStay \/ ToggleRely
  \/ AcquireWork \/ AcquireStay \/ AcquireRely
  \/ \E t \in Threads : Exchange(t)
  \/ RuleStep
  \/ Line

Spec == Init /\ [][Next]_vars

\* A thread that holds the lock goes on: its select times out, and what it
\* tries is counted. But going on may be RecvReconnects, as often as the other
\* side drops the connection, so this alone does not end a receive. Nothing is
\* assumed of the slave, the line or the operator.
FairSpec ==
  /\ Spec
  /\ \A t \in Threads : WF_vars(Exchange(t))
  /\ WF_vars(RuleStep)
-----------------------------------------------------------------------------
(* Properties.                                                             *)

\* Every variable keeps its type: transaction codes stay within their width,
\* and the code fields within what one byte can hold by the bounds given.
TypeOK ==
  /\ lock \in Threads \union {NoThread}
  /\ pc \in [Threads -> {"idle", "send", "recv", "end"}]
  /\ stay \in BOOLEAN /\ rely \in BOOLEAN
  /\ slot \in {"rely", "get", "set"}
  /\ info \in [Slots -> MBInfo]
  /\ fired \in 0..MaxRules
  /\ ctx \in MBInfo
  /\ tx \in 0..(TransMod - 1)
  /\ sends \in Nat
  /\ net \in Seq(Request) /\ rep \in Seq(Reply) /\ rx \in Seq(Reply)
  /\ conn \in {"up", "closed"}
  /\ executed \subseteq Nat
  /\ mine \in [Threads -> Nat]
  /\ late \in BOOLEAN
  /\ accepted \in [req : Nat, rep : Nat, ok : BOOLEAN]

\* Between its send and the end of its receive a thread has the context, the
\* transaction code and the line to itself (LOCK/ULOCK in main.c).
OneExchange == \A t \in Threads : pc[t] # "idle" => lock = t

\* The reply a receive accepts answers the request that receive was made
\* for, whatever earlier replies are still around (mbap_head_decap_check).
ReplyIsForRequest == accepted.rep = accepted.req

\* The keep-alive and rule threads reuse the record the last receive left
\* behind: whatever it left, they never send anything but their own poll.
PollersOnlyPoll ==
  \A s \in {"stay", "rely"} :
    Sendable(info[s]) => Encap(info[s]) = Encap(PollInfo)

\* The keep-alive and rule threads can always send their next poll.
PollersCanSend == Sendable(info["stay"]) /\ Sendable(info["rely"])

\* When a receive succeeds and the record it hands back carries no error
\* ("MB SUCCESS"), the slave has carried out that very request.
SuccessMeansExecuted ==
  accepted.req # 0 /\ accepted.ok => accepted.req \in executed

\* A receive that fails leaves the caller's record as it was sent.
FailureKeepsRecord ==
  [][\A t \in Threads :
       pc[t] = "recv" /\ pc'[t] = "end" /\ accepted' = NothingAccepted
         => info' = info]_vars

\* RTU has no transaction code, and a receive that gives up leaves its reply
\* to the next one; but until one has given up, replies match requests.
OwnReplyUnlessLate == ~late => accepted.rep = accepted.req

\* RTU: until a receive has given up, only one thing changes what the
\* keep-alive and the rule thread go on to ask for, a damaged frame that their
\* receive rejects but has decoded before (mb_rtu_recv). Answers, exceptions,
\* whatever is accepted, and the other threads' exchanges do not.
OnlyDamageChangesPolls ==
  [][\A s \in {"stay", "rely"} :
       Sendable(info'[s]) /\ Encap(info'[s]) # Encap(info[s])
         => \/ late
            \/ accepted' = NothingAccepted /\ \E k \in DOMAIN rx : ~rx[k].clean]_vars

\* The other side takes no more connections away.
Settles == <>[][~ConnectionLost]_vars

\* Whoever takes the lock gives it back: every path out of a send or a
\* receive, with or without rules to apply, reaches the unlock. A receive
\* whose connection is dropped again and again has no such path, so this is
\* said of slaves that at some time stop dropping it.
LockComesBack == \A t \in Threads : lock = t ~> lock # t
LockComesBackOnceSettled == Settles => LockComesBack
-----------------------------------------------------------------------------
(* The abstract master.                                                    *)

Waiting == \E t \in Threads : pc[t] = "recv"
Answer  == IF accepted.req = 0 THEN "none"
           ELSE IF accepted.ok THEN "ok" ELSE "exception"

Master == INSTANCE MbMaster WITH
            issued <- sends, waiting <- Waiting, executed <- executed,
            answer <- Answer

\* Library, threads and lock together give each caller the abstract master.
MasterSpec == Master!Spec
=============================================================================
