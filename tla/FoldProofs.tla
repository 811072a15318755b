----------------------------- MODULE FoldProofs -----------------------------
(***************************************************************************)
(* Induction and folds, for the proofs about what the loops over words,    *)
(* children and bytes compute. tlapm has no induction over data here;      *)
(* where one is needed, a smallest counterexample is refuted (LeastNat).   *)
(* MapThenFoldSet is defined by a recursive function over sets: FoldExists *)
(* gives a function that satisfies its equation, FoldSteps the values it   *)
(* goes through.                                                           *)
(***************************************************************************)
EXTENDS Integers, FiniteSets, FiniteSetsExt, FiniteSetTheorems, WellFoundedInduction, TLAPS

\* A set of natural numbers has a least element: what induction comes down to.
LEMMA LeastNat ==
  ASSUME NEW T, T \subseteq Nat, T # {}
  PROVE  \E n \in T : \A m \in T : n <= m
<1> DEFINE R == OpToRel(<, Nat)
<1>1. IsWellFoundedOn(R, Nat)
  BY NatLessThanWellFounded
<1>2. \E x \in T : \A y \in T : ~ (<<y, x>> \in R)
  <2> HIDE DEF R
  <2> QED BY <1>1, WFMin
<1>3. \A x, y \in T : x \in Int /\ y \in Int /\ (<<y, x>> \notin R => x <= y)
  BY DEF OpToRel
<1> HIDE DEF R
<1>4. PICK x \in T : \A y \in T : <<y, x>> \notin R
  BY ONLY <1>2
<1>5. \A y \in T : x <= y
  BY ONLY <1>3, <1>4
<1> QED
  BY ONLY <1>5

\* The largest element of a finite set of places.
LEMMA LargestPlace ==
  ASSUME NEW n \in Nat, NEW q \in SUBSET (1..n), q # {}
  PROVE  Max(q) \in q /\ \A k \in q : k <= Max(q)
<1> DEFINE T == {n - k : k \in q}
<1>1. T \subseteq Nat /\ T # {}
  <2>1. \A k \in q : k \in 1..n /\ n - k \in Nat
    OBVIOUS
  <2> QED
    BY <2>1
<1>2. PICK t \in T : \A u \in T : t <= u
  <2> HIDE DEF T
  <2> QED BY <1>1, LeastNat
<1>3. PICK m \in q : t = n - m
  OBVIOUS
<1>4. \A k \in q : k <= m
  <2> TAKE k \in q
  <2>1. n - m <= n - k
    BY <1>2, <1>3
  <2> QED
    BY <2>1
<1> QED
  BY <1>4 DEF Max

LEMMA IntervalTop ==
  ASSUME NEW n \in Nat, NEW k \in 1..n
  PROVE  /\ (1..k) \in SUBSET (1..n) /\ (1..k) # {}
         /\ Max(1..k) = k /\ (1..k) \ {k} = 1..(k - 1)
<1>1. (1..k) \in SUBSET (1..n) /\ (1..k) # {} /\ k \in 1..k
  OBVIOUS
<1>2. Max(1..k) \in 1..k /\ k <= Max(1..k)
  BY <1>1, LargestPlace
<1>3. Max(1..k) = k
  BY <1>2
<1>4. (1..k) \ {k} = 1..(k - 1)
  OBVIOUS
<1> QED
  BY ONLY <1>1, <1>3, <1>4, Zenon

\* it is what the folds of the community modules go through, for n elements
\* and a step g of the value so far and the place.
Folds(it, n, base, g) ==
  it = [q \in SUBSET (1..n) |->
          IF q = {} THEN base ELSE g[<<it[q \ {Max(q)}], Max(q)>>]]

\* The values a fold goes through, one place at a time.
Advances(it, n, S, g) ==
  \A k \in 1..n : it[1..(k - 1)] \in S => it[1..k] = g[<<it[1..(k - 1)], k>>]
Values(f, it, n, S, g) ==
  /\ f \in [0..n -> S] /\ f[0] = it[{}] /\ f[n] = it[1..n]
  /\ \A k \in 1..n : f[k] = g[<<f[k - 1], k>>]

LEMMA FoldSteps ==
  ASSUME NEW S, NEW n \in Nat, NEW g \in [S \X (1..n) -> S], NEW it,
         it[{}] \in S, Advances(it, n, S, g)
  PROVE  \E f : Values(f, it, n, S, g)
<1> DEFINE f == [k \in 0..n |-> it[1..k]]
           T == {k \in 0..n : f[k] \notin S}
<1>1. f[0] = it[{}]
  OBVIOUS
<1>2. ASSUME NEW k \in 1..n, f[k - 1] \in S
      PROVE  f[k] = g[<<f[k - 1], k>>] /\ f[k] \in S
  <2>1. f[k] = it[1..k] /\ f[k - 1] = it[1..(k - 1)]
    OBVIOUS
  <2>2. f[k] = g[<<f[k - 1], k>>]
    BY <1>2, <2>1 DEF Advances
  <2> HIDE DEF f
  <2> QED
    BY <1>2, <2>2
<1>3. T = {}
  <2>1. SUFFICES ASSUME T # {}
                 PROVE  FALSE
    OBVIOUS
  <2>2. T \subseteq Nat
    OBVIOUS
  <2>3. PICK m \in T : \A k \in T : m <= k
    <3> HIDE DEF T
    <3> QED
      BY <2>1, <2>2, LeastNat
  <2> HIDE DEF f
  <2>4. m # 0 /\ m \in 0..n /\ f[m] \notin S
    BY <1>1
  <2>5. m \in 1..n /\ m - 1 \in 0..n
    BY <2>4
  <2>6. f[m - 1] \in S
    BY <2>3, <2>5
  <2> QED
    BY <1>2, <2>4, <2>5, <2>6
<1>4. f[n] = it[1..n]
  OBVIOUS
<1>5. \A k \in 0..n : f[k] \in S
  <2> HIDE DEF f
  <2> QED
    BY <1>3
<1>6. f \in [0..n -> S]
  BY <1>5
<1>7. \A k \in 1..n : f[k - 1] \in S
  <2> HIDE DEF f
  <2>1. \A k \in 1..n : k - 1 \in 0..n
    OBVIOUS
  <2> QED
    BY <1>5, <2>1
<1> HIDE DEF f
<1> QED
  BY <1>1, <1>2, <1>4, <1>6, <1>7 DEF Values

\* The folds are defined by recursion over sets; there is a function that
\* satisfies their equation.
LEMMA FoldExists ==
  ASSUME NEW S, NEW n \in Nat, NEW base \in S, NEW g \in [S \X (1..n) -> S]
  PROVE  \E it \in [SUBSET (1..n) -> S] : Folds(it, n, base, g)
<1> DEFINE Ok(m) == \E it \in [SUBSET (1..m) -> S] : Folds(it, m, base, g)
           T == {m \in 0..n : ~Ok(m)}
<1>1. Ok(0)
  <2> DEFINE it == [q \in SUBSET (1..0) |-> base]
  <2>1. it \in [SUBSET (1..0) -> S]
    OBVIOUS
  <2>2. \A q \in SUBSET (1..0) : q = {}
    OBVIOUS
  <2>3. Folds(it, 0, base, g)
    BY <2>2 DEF Folds
  <2> QED
    BY <2>1, <2>3
<1>2. ASSUME NEW m \in 0..(n - 1), Ok(m)
      PROVE  Ok(m + 1)
  <2>1. PICK f \in [SUBSET (1..m) -> S] : Folds(f, m, base, g)
    BY <1>2
  <2>2. \A q \in SUBSET (1..(m + 1)) :
          /\ m + 1 \notin q => q \in SUBSET (1..m)
          /\ m + 1 \in q => q \ {m + 1} \in SUBSET (1..m) /\ q # {} /\ Max(q) = m + 1
    <3> TAKE q \in SUBSET (1..(m + 1))
    <3>1. m + 1 \notin q => q \in SUBSET (1..m)
      OBVIOUS
    <3>2. ASSUME m + 1 \in q
          PROVE  q \ {m + 1} \in SUBSET (1..m) /\ q # {} /\ Max(q) = m + 1
      <4>1. m + 1 \in Nat
        OBVIOUS
      <4>2. Max(q) \in q /\ m + 1 <= Max(q)
        BY <3>2, <4>1, LargestPlace
      <4>3. Max(q) \in 1..(m + 1)
        BY <4>2
      <4> QED
        BY <3>2, <4>2, <4>3
    <3> QED
      BY <3>1, <3>2
  <2> DEFINE h == [q \in SUBSET (1..(m + 1)) |->
                     IF m + 1 \in q THEN g[<<f[q \ {m + 1}], m + 1>>] ELSE f[q]]
  <2>3. m + 1 \in 1..n
    OBVIOUS
  <2>4. h \in [SUBSET (1..(m + 1)) -> S]
    BY <2>2, <2>3
  <2>5. ASSUME NEW q \in SUBSET (1..(m + 1))
        PROVE  h[q] = IF q = {} THEN base ELSE g[<<h[q \ {Max(q)}], Max(q)>>]
    <3>1. CASE m + 1 \in q
      <4>1. q \ {m + 1} \in SUBSET (1..(m + 1)) /\ m + 1 \notin q \ {m + 1}
        OBVIOUS
      <4>2. h[q \ {m + 1}] = f[q \ {m + 1}]
        BY <4>1
      <4> QED
        BY <2>2, <3>1, <4>2
    <3>2. CASE m + 1 \notin q
      <4>1. q \in SUBSET (1..m)
        BY <2>2, <3>2
      <4>2. f[q] = IF q = {} THEN base ELSE g[<<f[q \ {Max(q)}], Max(q)>>]
        BY <2>1, <4>1 DEF Folds
      <4>3. m + 1 \notin q \ {Max(q)} /\ q \ {Max(q)} \in SUBSET (1..(m + 1))
        BY <3>2
      <4>4. h[q] = f[q] /\ h[q \ {Max(q)}] = f[q \ {Max(q)}]
        BY <3>2, <4>3
      <4> QED
        BY <4>2, <4>4
    <3> QED
      BY <3>1, <3>2
  <2>6. Folds(h, m + 1, base, g)
    <3>1. h = [q \in SUBSET (1..(m + 1)) |-> h[q]]
      OBVIOUS
    <3> HIDE DEF h
    <3> QED
      BY <2>5, <3>1 DEF Folds
  <2> QED
    BY <2>4, <2>6
<1>3. T = {}
  <2> HIDE DEF Ok
  <2>1. SUFFICES ASSUME T # {}
                 PROVE  FALSE
    OBVIOUS
  <2>2. T \subseteq Nat
    OBVIOUS
  <2>3. PICK m \in T : \A k \in T : m <= k
    <3> HIDE DEF T
    <3> QED
      BY <2>1, <2>2, LeastNat
  <2>4. m # 0 /\ m \in 0..n /\ ~Ok(m)
    BY <1>1
  <2>5. m - 1 \in 0..(n - 1) /\ m - 1 \notin T
    BY <2>3, <2>4
  <2>6. Ok(m - 1)
    BY <2>5
  <2>7. (m - 1) + 1 = m
    BY <2>4
  <2>8. Ok((m - 1) + 1)
    BY <1>2, <2>5, <2>6
  <2> QED
    BY <2>4, <2>7, <2>8
<1> HIDE DEF Ok
<1>4. n \in 0..n
  OBVIOUS
<1>5. Ok(n)
  BY <1>3, <1>4
<1> USE DEF Ok
<1> QED
  BY <1>5

\* The same for a function that is given as the folds have it, by an operator
\* which g stands for.
Takes(it, n, S, g) ==
  \A q \in SUBSET (1..n) : q # {} /\ it[q \ {Max(q)}] \in S
                           => it[q] = g[<<it[q \ {Max(q)}], Max(q)>>]

LEMMA FoldTaken ==
  ASSUME NEW S, NEW n \in Nat, NEW g \in [S \X (1..n) -> S], NEW it,
         it[{}] \in S, Takes(it, n, S, g)
  PROVE  \E f : Values(f, it, n, S, g)
<1>1. ASSUME NEW k \in 1..n, it[1..(k - 1)] \in S
      PROVE  it[1..k] = g[<<it[1..(k - 1)], k>>]
  <2>1. /\ (1..k) \in SUBSET (1..n) /\ (1..k) # {}
        /\ Max(1..k) = k /\ (1..k) \ {k} = 1..(k - 1)
    BY IntervalTop
  <2>2. it[(1..k) \ {Max(1..k)}] \in S
    BY ONLY <1>1, <2>1
  <2>3. it[1..k] = g[<<it[(1..k) \ {Max(1..k)}], Max(1..k)>>]
    BY <2>1, <2>2 DEF Takes
  <2> QED
    BY ONLY <2>1, <2>3
<1>2. Advances(it, n, S, g)
  BY <1>1 DEF Advances
<1> QED
  BY ONLY <1>2, it[{}] \in S, n \in Nat, g \in [S \X (1..n) -> S], FoldSteps

\* A statement about numbers up to n that holds for 0 and for k if for k - 1.
LEMMA UpTo ==
  ASSUME NEW n \in Nat, NEW good, 0 \in good,
         \A k \in 1..n : k - 1 \in good => k \in good
  PROVE  \A k \in 0..n : k \in good
<1> DEFINE T == {k \in 0..n : k \notin good}
<1>1. SUFFICES ASSUME T # {}
               PROVE  FALSE
  OBVIOUS
<1>2. T \subseteq Nat
  OBVIOUS
<1>3. PICK m \in T : \A k \in T : m <= k
  <2> HIDE DEF T
  <2> QED
    BY <1>1, <1>2, LeastNat
<1>4. m # 0 /\ m \in 0..n /\ m \notin good
  OBVIOUS
<1>5. m \in 1..n /\ m - 1 \in 0..n /\ ~(m <= m - 1)
  BY ONLY <1>4, n \in Nat
<1>6. m - 1 \in good
  BY <1>3, <1>5
<1> QED
  BY <1>4, <1>5, <1>6
=============================================================================
