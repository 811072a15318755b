------------------------------- MODULE MCSpMb -------------------------------
(***************************************************************************)
(* Small instances of SpMb for TLC.                                        *)
(***************************************************************************)
EXTENDS SpMb

Info(c, r, n, v) == [code |-> c, err |-> 0, reg |-> r, n_reg |-> n, value |-> v]

\* A register read, a single coil write, and a code the library refuses.
MCWorkInfos == {Info(3, 1, 1, 0), Info(5, 1, 0, 1), Info(7, 0, 0, 0)}

\* One write only, where the operator is there to disturb the pollers.
MCOneWrite == {Info(5, 1, 0, 1)}

MCValues == {0, 1}
MCErrs   == {2}
\* A read turned into a write, an exception, and a code nobody uses.
MCNoise  == {5, 129, 9}
=============================================================================
