------------------------------- MODULE MCCodec -------------------------------
(***************************************************************************)
(* A small instance of MbCodec for TLC: a value of 16 bytes for one of     *)
(* 2000 and byte counts below 4 for ones below 256, so that, as in the     *)
(* code, the largest count is more coils than the value has bytes.         *)
(***************************************************************************)
EXTENDS MbCodec

V(f(_)) == [k \in ValIndex |-> f(k)]
Info(code, reg, n, v) ==
  [code |-> code, err |-> 0, reg |-> reg, n_reg |-> n, n_byte |-> 0, value |-> v]

Stale  == V(LAMBDA k : 200 + k)
Some   == V(LAMBDA k : IF k % 3 = 0 THEN 255 ELSE IF k % 3 = 1 THEN 0 ELSE k)

MCRequests ==
  { Info(c, 258, n, Stale) : c \in {1, 2, 3, 4}, n \in {1, 2, 9, 513} }
    \union { Info(c, 7, 1, Some) : c \in {5, 6, 7} }
    \union { Info(15, 513, n, Some) : n \in {0, 1, 9, 16, 17, 25} }
    \union { Info(16, 513, n, Some) : n \in {0, 1, 2, 3} }

MCData == <<1, 254, 131, 7, 16>>
=============================================================================
