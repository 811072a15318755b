------------------------------- MODULE SpStack -------------------------------
(***************************************************************************)
(* The stack of cli/stack.c. Its pointers are positions here, counted in   *)
(* elements from addr; cells keep what was copied to them.                 *)
(* Operators marked "Fault" are faulty variants of the ones after them;    *)
(* the specification does not use them.                                    *)
(***************************************************************************)
EXTENDS Integers

Nothing == 0

StackCreate(n) ==
  [cells |-> [i \in 0..(n - 1) |-> Nothing],
   top |-> 0, prod |-> 0, avail |-> n, total |-> n, refused |-> FALSE]

\* Fault: prod comes back to the first place one element too early.
ProdWrapsEarly(s) == IF s.prod + 2 > s.total THEN 1 ELSE s.prod + 1
\* prod, behind its end, is put back to the first place.
NextProd(s) == IF s.prod + 1 > s.total THEN 1 ELSE s.prod + 1

\* refused is a ghost: no caller looks at what sp_enstack returns.
Enstack(s, x) ==
  IF s.avail = 0 THEN [s EXCEPT !.refused = TRUE]
  ELSE [s EXCEPT !.cells[s.prod] = x, !.prod = NextProd(s), !.avail = @ - 1]

StackEmpty(s) == s.avail = s.total

\* Of a stack that is not empty.
StackTop(s) == s.cells[s.prod - 1]
Destack(s) ==
  [s EXCEPT !.top = s.prod - 1,
            !.prod = (IF s.prod - 1 < 0 THEN s.total - 1 ELSE s.prod) - 1,
            !.avail = @ + 1]

\* Positions and counters belong together: no cell outside is touched.
StackOK(s) ==
  /\ s.prod = s.total - s.avail /\ s.avail \in 0..s.total
  /\ DOMAIN s.cells = 0..(s.total - 1)
=============================================================================
