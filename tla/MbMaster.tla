------------------------------ MODULE MbMaster ------------------------------
(***************************************************************************)
(* What a ModBus master promises its caller, whatever the transport: one   *)
(* request at a time; every call returns "ok", "exception" or nothing      *)
(* ("failed"); and "ok" means that this request, not an earlier one, has   *)
(* been carried out. A request that failed may still be carried out later. *)
(***************************************************************************)
EXTENDS Naturals

VARIABLES
  issued,    \* number of the latest request
  waiting,   \* it has not returned
  executed,  \* requests the slave has carried out
  answer     \* what the latest call returned: "none" until and if it failed

vars == <<issued, waiting, executed, answer>>

Init ==
  /\ issued = 0
  /\ waiting = FALSE
  /\ executed = {}
  /\ answer = "none"

\* A request goes out, or fails on the spot.
Issue ==
  /\ ~waiting
  /\ issued' = issued + 1
  /\ waiting' \in BOOLEAN
  /\ answer' = "none"
  /\ UNCHANGED executed

\* The slave works on whatever reaches it, sooner or later.
Execute ==
  /\ \E n \in 1..issued : executed' = executed \union {n}
  /\ UNCHANGED <<issued, waiting, answer>>

Answered(a) == waiting /\ waiting' = FALSE /\ answer' = a

ReturnOk     == Answered("ok") /\ issued \in executed
ReturnOther  == \E a \in {"exception", "none"} : Answered(a)

Return == (ReturnOk \/ ReturnOther) /\ UNCHANGED <<issued, executed>>

\* The caller is done with the answer.
Forget ==
  /\ ~waiting
  /\ answer' = "none"
  /\ UNCHANGED <<issued, waiting, executed>>

Next == Issue \/ Execute \/ Return \/ Forget

Spec == Init /\ [][Next]_vars
=============================================================================
