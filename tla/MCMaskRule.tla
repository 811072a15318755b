----------------------------- MODULE MCMaskRule -----------------------------
(***************************************************************************)
(* Small instances of MaskRule for TLC.                                    *)
(***************************************************************************)
EXTENDS MaskRule

Fuzzy(p, iup, idown, oup, odown) ==
  [priority |-> p, type |-> "fuzz", imask |-> [up |-> iup, down |-> idown],
   omask |-> [up |-> oup, down |-> odown]]

MCBits == {1, 2}

\* All conditions below hold; those that come and go are MCDemo's.
MCInMasks == {{1}}

\* A chain of clashes, across priorities and within one: the third may be
\* called because the second is not. One rule needs an input down, one is of
\* priority 0, and one the checks refuse.
MCContents ==
  { Fuzzy(1, {1}, {}, {1}, {}),
    Fuzzy(2, {1}, {2}, {2}, {1}),
    Fuzzy(0, {1}, {}, {}, {2}),
    Fuzzy(2, {1}, {1}, {1}, {}) }
=============================================================================
