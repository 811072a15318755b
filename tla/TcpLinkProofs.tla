--------------------------- MODULE TcpLinkProofs ---------------------------
(***************************************************************************)
(* TcpLink for every number of descriptors and attempts: the connection is *)
(* always made on the descriptor it was made on before, because nothing    *)
(* below it is ever free, so no socket leaks and the descriptor read       *)
(* before a reconnection is the right one after it.                        *)
(***************************************************************************)
EXTENDS TcpLink, TLAPS

\* The socket's descriptor is the lowest that is not in other use, it is the
\* only socket, and it is closed while a new one is being connected.
LinkInv ==
  /\ TypeOK
  /\ held = desc
  /\ Lowest(desc, Fds \ Others)
  /\ \A f \in Fds : f \in Others <=> fd[f] = "other"
  /\ \A f \in Fds : fd[f] \in {"est", "dead"} => f = desc
  /\ pc = "connect" => fd[desc] = "free"

\* socket() returns the descriptor that has just been closed.
LEMMA SameDescriptor ==
  ASSUME LinkInv, fd[desc] = "free", NEW f \in Fds, Lowest(f, FreeFds)
  PROVE  f = desc
<1>1. desc \in FreeFds
  BY DEF LinkInv, TypeOK, FreeFds
<1>2. f \in Fds \ Others
  BY DEF LinkInv, Lowest, FreeFds
<1>3. f <= desc /\ desc <= f
  BY <1>1, <1>2 DEF LinkInv, Lowest
<1> QED
  BY <1>3, TcpLinkAssumption DEF LinkInv, TypeOK, Fds

LEMMA LinkInit == Init => LinkInv
<1> SUFFICES ASSUME Init PROVE LinkInv
  OBVIOUS
<1>1. TypeOK
  BY TcpLinkAssumption DEF Init, TypeOK, Fds
<1>2. \A f \in Fds : f \in Others <=> fd[f] = "other"
  BY DEF Init, Lowest
<1>3. \A f \in Fds : fd[f] \in {"est", "dead"} => f = desc
  BY DEF Init
<1> QED
  BY <1>1, <1>2, <1>3 DEF Init, LinkInv

LEMMA LinkStep == LinkInv /\ [Next]_vars => LinkInv'
<1> SUFFICES ASSUME LinkInv, [Next]_vars PROVE LinkInv'
  OBVIOUS
<1> USE TcpLinkAssumption DEF LinkInv, TypeOK, Lowest
<1>1. CASE \E c \in {"send", "recv"} : Begin(c)
  BY <1>1 DEF Begin
<1>2. CASE CheckClosed
  BY <1>2 DEF CheckClosed, Return
<1>3. CASE CheckAlive
  BY <1>3 DEF CheckAlive, Connected
<1>4. CASE CheckDead
  BY <1>4 DEF CheckDead
<1>5. CASE Close
  BY <1>5 DEF Close, TryClose
<1>6. CASE ConnectOk
  <2>1. PICK f \in Fds : /\ Lowest(f, FreeFds)
                         /\ fd' = [fd EXCEPT ![f] = "est"]
                         /\ desc' = f
    BY <1>6 DEF ConnectOk
  <2>2. f = desc
    BY <1>6, <2>1, SameDescriptor DEF ConnectOk
  <2> QED
    BY <1>6, <2>1, <2>2 DEF ConnectOk, Connected
<1>7. CASE ConnectFails
  BY <1>7 DEF ConnectFails, TryAgain
<1>8. CASE GiveUp
  BY <1>8 DEF GiveUp, Return
<1>9. CASE Send
  BY <1>9 DEF Send, Return
<1>10. CASE Select
  BY <1>10 DEF Select, Return
<1>11. CASE ReadEnds
  BY <1>11 DEF ReadEnds, Return
<1>12. CASE ReadClosed
  BY <1>12 DEF ReadClosed
<1>13. CASE ServerStops
  BY <1>13 DEF ServerStops
<1>14. CASE ServerStarts
  BY <1>14 DEF ServerStarts
<1>15. CASE \E f \in Fds : ServerDrops(f)
  BY <1>15 DEF ServerDrops
<1>16. CASE UNCHANGED vars
  BY <1>16 DEF vars
<1> QED
  BY <1>1, <1>2, <1>3, <1>4, <1>5, <1>6, <1>7, <1>8, <1>9, <1>10, <1>11,
     <1>12, <1>13, <1>14, <1>15, <1>16 DEF Next, Step

\* The invariant holds in every behaviour.
THEOREM LinkInvariance == Spec => []LinkInv
<1> QED
  BY LinkInit, LinkStep, PTL DEF Spec

\* Reconnecting leaves no socket behind (tcp_re_connect, tcp_connect).
THEOREM NoSocketLeaks == Spec => []OneSocket
<1>1. LinkInv => OneSocket
  BY DEF LinkInv, OneSocket
<1> QED
  BY <1>1, LinkInvariance, PTL

\* What tcp_send and tcp_recv read before reconnecting is still the
\* connection's descriptor when they use it.
THEOREM HeldIsCurrent == Spec => []HeldIsDesc
<1>1. LinkInv => HeldIsDesc
  BY DEF LinkInv, HeldIsDesc
<1> QED
  BY <1>1, LinkInvariance, PTL
=============================================================================
