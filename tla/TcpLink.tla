------------------------------ MODULE TcpLink ------------------------------
(***************************************************************************)
(* The TCP connection under mb_tcp_send and mb_tcp_recv: tcp_connect,      *)
(* tcp_re_connect and the calls around them, at the level of descriptors.  *)
(* A socket is taken, as POSIX has it, from the lowest free descriptor.    *)
(* tcp_send and tcp_recv read mb_tcp_desc->socket once, before they may    *)
(* reconnect, and use what they read ("socket" there, held here) after it. *)
(* Operators marked "Fault" are faulty variants of the ones after them;    *)
(* the specification does not use them.                                    *)
(***************************************************************************)
EXTENDS Naturals

CONSTANTS
  NumFds,   \* descriptors are numbered from 1 to NumFds
  Others,   \* those the process uses for something else: stdin, stdout ...
  MaxTries  \* MBTCP_CONN_TIMEOUT: 10

Fds == 1..NumFds

ASSUME TcpLinkAssumption ==
  /\ NumFds \in Nat /\ MaxTries \in Nat
  /\ Others \subseteq Fds /\ Others # Fds

VARIABLES
  fd,      \* what each descriptor is: "free", "other", a socket "est"(ablished) or "dead"
  desc,    \* mb_tcp_desc->socket
  held,    \* the local variable "socket" of the call in progress
  pc,      \* where the call is
  call,    \* which call it is
  tries,   \* conntm of tcp_re_connect
  serving  \* the server accepts connections

vars == <<fd, desc, held, pc, call, tries, serving>>

Lowest(f, S) == f \in S /\ \A g \in S : f <= g

\* What socket() may return.
FreeFds == {f \in Fds : fd[f] = "free"}

\* mb_tcp_init has connected.
Init ==
  /\ desc \in Fds /\ Lowest(desc, Fds \ Others)
  /\ held = desc
  /\ fd = [f \in Fds |-> IF f \in Others THEN "other"
                         ELSE IF f = desc THEN "est" ELSE "free"]
  /\ pc = "idle" /\ call = "none"
  /\ tries = 0
  /\ serving = TRUE

Begin(c) ==
  /\ pc = "idle"
  /\ call' = c
  /\ held' = desc
  /\ pc' = "check"
  /\ UNCHANGED <<fd, desc, tries, serving>>

Return == pc' = "idle" /\ call' = "none"

\* Where a call goes on once the connection is there: tcp_send sends,
\* tcp_recv selects first, and reads on when it had to reconnect meanwhile.
Connected == IF call = "send" THEN "io" ELSE IF call = "recv" THEN "select" ELSE "read"

\* tcp_re_connect asks for the state of mb_tcp_desc->socket.
CheckClosed ==
  /\ pc = "check" /\ fd[desc] = "free"
  /\ Return
  /\ UNCHANGED <<fd, desc, held, tries, serving>>

CheckAlive ==
  /\ pc = "check" /\ fd[desc] = "est"
  /\ pc' = Connected
  /\ UNCHANGED <<fd, desc, held, call, tries, serving>>

CheckDead ==
  /\ pc = "check" /\ fd[desc] = "dead"
  /\ pc' = "close" /\ tries' = 0
  /\ UNCHANGED <<fd, desc, held, call, serving>>

\* Fault: the attempts are not limited.
TryWithoutEnd == tries' = tries + 1 /\ fd' = [fd EXCEPT ![desc] = "free"]
\* Fault: the old socket is not closed.
LeaveOpen == tries <= MaxTries /\ tries' = tries + 1 /\ fd' = fd

\* One turn of its loop: close the descriptor,
TryClose == tries <= MaxTries /\ tries' = tries + 1 /\ fd' = [fd EXCEPT ![desc] = "free"]

Close ==
  /\ pc = "close"
  /\ TryClose
  /\ pc' = "connect"
  /\ UNCHANGED <<desc, held, call, serving>>

\* and connect a new socket: it is closed again when that fails.
ConnectOk ==
  /\ pc = "connect" /\ serving
  /\ \E f \in Fds : /\ Lowest(f, FreeFds)
                   /\ fd' = [fd EXCEPT ![f] = "est"]
                   /\ desc' = f
  /\ pc' = Connected
  /\ UNCHANGED <<held, call, tries, serving>>

\* Fault: a failed attempt is not counted.
TryAgainUncounted == pc' = "close" /\ tries' = 0
TryAgain == pc' = "close" /\ tries' = tries

ConnectFails ==
  /\ pc = "connect"
  /\ TryAgain
  /\ UNCHANGED <<fd, desc, held, call, serving>>

GiveUp ==
  /\ pc = "close" /\ tries > MaxTries
  /\ Return
  /\ UNCHANGED <<fd, desc, held, tries, serving>>

\* send, on the descriptor read when the call began.
Send ==
  /\ pc = "io"
  /\ Return
  /\ UNCHANGED <<fd, desc, held, tries, serving>>

\* select: nothing, an error, or something to read (the end of the stream
\* is something to read).
Select ==
  /\ pc = "select"
  /\ \/ Return
     \/ pc' = "read" /\ call' = "reread"
  /\ UNCHANGED <<fd, desc, held, tries, serving>>

\* The reading loop ends after a quiet time, or on an error,
ReadEnds ==
  /\ pc = "read"
  /\ Return
  /\ UNCHANGED <<fd, desc, held, tries, serving>>

\* or meets the end of the stream at once, and starts to count again.
ReadClosed ==
  /\ pc = "read" /\ fd[held] = "dead"
  /\ pc' = "check"
  /\ UNCHANGED <<fd, desc, held, call, tries, serving>>

ServerStops ==
  /\ serving
  /\ serving' = FALSE
  /\ fd' = [f \in Fds |-> IF fd[f] = "est" THEN "dead" ELSE fd[f]]
  /\ UNCHANGED <<desc, held, pc, call, tries>>

ServerStarts ==
  /\ ~serving
  /\ serving' = TRUE
  /\ UNCHANGED <<fd, desc, held, pc, call, tries>>

\* The server drops a connection and goes on serving.
ServerDrops(f) ==
  /\ fd[f] = "est"
  /\ fd' = [fd EXCEPT ![f] = "dead"]
  /\ UNCHANGED <<desc, held, pc, call, tries, serving>>

Step ==
  \/ CheckClosed \/ CheckAlive \/ CheckDead
  \/ Close \/ ConnectOk \/ ConnectFails \/ GiveUp
  \/ Send \/ Select \/ ReadEnds \/ ReadClosed

Next ==
  \/ \E c \in {"send", "recv"} : Begin(c)
  \/ Step
  \/ ServerStops \/ ServerStarts
  \/ \E f \in Fds : ServerDrops(f)

Spec == Init /\ [][Next]_vars

\* Calls run on, the keep-alive thread goes on calling, and connecting to a
\* server that keeps serving succeeds in the end.
FairSpec ==
  /\ Spec
  /\ WF_vars(Step)
  /\ WF_vars(\E c \in {"send", "recv"} : Begin(c))
  /\ SF_vars(ConnectOk)
-----------------------------------------------------------------------------
(* Properties.                                                             *)

TypeOK ==
  /\ fd \in [Fds -> {"free", "other", "est", "dead"}]
  /\ desc \in Fds /\ held \in Fds
  /\ pc \in {"idle", "check", "close", "connect", "io", "select", "read"}
  /\ call \in {"none", "send", "recv", "reread"}
  /\ tries \in 0..(MaxTries + 1)
  /\ serving \in BOOLEAN

\* However often a connection is made again, no socket is left behind.
OneSocket ==
  \A f, g \in Fds : {fd[f], fd[g]} \subseteq {"est", "dead"} => f = g

\* send, select and recv work on the connection there is, though they use a
\* descriptor read before tcp_re_connect replaced it.
HeldIsDesc == pc \in {"io", "select", "read"} => held = desc

\* The server takes no more connections away.
Settles ==
  <>[][~ServerStops /\ \A f \in Fds : ~ServerDrops(f)]_vars

\* Every send and every receive returns.
CallReturns == pc # "idle" ~> pc = "idle"

\* Every send and every receive returns once the server leaves its
\* connections alone, whether it serves or not: the attempts are counted.
CallReturnsOnceSettled == Settles => CallReturns

\* A server that serves again and for good has its connection back in the
\* end.
LinkComesBack == Settles /\ <>[]serving => <>[](fd[desc] = "est")
=============================================================================
