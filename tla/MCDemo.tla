------------------------------- MODULE MCDemo -------------------------------
(***************************************************************************)
(* A small instance of Demo for TLC.                                       *)
(***************************************************************************)
EXTENDS Demo

Fuzzy(p, iup, idown, oup, odown) ==
  [priority |-> p, type |-> "fuzz", imask |-> [up |-> iup, down |-> idown],
   omask |-> [up |-> oup, down |-> odown]]

MCBits    == {1, 2}
MCInMasks == SUBSET MCBits

\* The second rule clashes with the first one and takes its own condition away.
MCContents == { Fuzzy(1, {1}, {}, {2}, {}), Fuzzy(2, {1}, {}, {}, {1, 2}) }
=============================================================================
