----------------------------- MODULE TrieProofs -----------------------------
(***************************************************************************)
(* Theorems about Trie, for any patterns, any number of children and any   *)
(* depth.                                                                  *)
(***************************************************************************)
EXTENDS Trie, FoldProofs

-----------------------------------------------------------------------------
(* The stack.                                                              *)

Stacks(t) ==
  [cells : [0..(t - 1) -> Nat], top : Int, prod : 0..t, avail : 0..t, total : {t},
   refused : BOOLEAN]

StackShape(s) ==
  /\ s.total \in Nat /\ s \in Stacks(s.total)
  /\ s.prod = s.total - s.avail /\ ~s.refused

LEMMA EnstackType ==
  ASSUME NEW t \in Nat, NEW s \in Stacks(t), NEW x \in Nat
  PROVE  Enstack(s, x) \in Stacks(t)
<1>1. CASE s.avail = 0
  BY <1>1 DEF Enstack, Stacks
<1>2. CASE s.avail # 0
  <2>1. NextProd(s) \in 0..t /\ s.avail - 1 \in 0..t
    BY <1>2 DEF NextProd, Stacks
  <2>2. [s.cells EXCEPT ![s.prod] = x] \in [0..(t - 1) -> Nat]
    BY DEF Stacks
  <2>3. Enstack(s, x) = [cells |-> [s.cells EXCEPT ![s.prod] = x], top |-> s.top,
                         prod |-> NextProd(s), avail |-> s.avail - 1,
                         total |-> s.total, refused |-> s.refused]
    BY <1>2 DEF Enstack, Stacks
  <2>4. s.top \in Int /\ s.total \in {t} /\ s.refused \in BOOLEAN
    BY DEF Stacks
  <2> QED
    BY ONLY <2>1, <2>2, <2>3, <2>4 DEF Stacks
<1> QED
  BY <1>1, <1>2

\* sp_enstack called for one element after the other.
LEMMA PushedSteps ==
  ASSUME NEW t \in Nat, NEW s \in Stacks(t), NEW list \in Seq(Nat)
  PROVE  \E f \in [0..Len(list) -> Stacks(t)] :
           /\ f[0] = s /\ Pushed(s, list) = f[Len(list)]
           /\ \A k \in 1..Len(list) : f[k] = Enstack(f[k - 1], list[k])
<1> DEFINE n == Len(list)
           g == [p \in Stacks(t) \X (1..n) |-> Enstack(p[1], list[p[2]])]
           Fits(it) == it = [q \in SUBSET (DOMAIN list) |->
                               IF q = {} THEN s ELSE Enstack(it[q \ {Max(q)}], list[Max(q)])]
<1>1. n \in Nat /\ DOMAIN list = 1..n /\ \A k \in 1..n : list[k] \in Nat
  OBVIOUS
<1>2. g \in [Stacks(t) \X (1..n) -> Stacks(t)]
  BY <1>1, EnstackType
<1>3. \A a \in Stacks(t), k \in 1..n : g[<<a, k>>] = Enstack(a, list[k])
  OBVIOUS
<1>4. \A q \in SUBSET (1..n) : q # {} => Max(q) \in 1..n /\ q \ {Max(q)} \in SUBSET (1..n)
  BY <1>1, LargestPlace
<1> HIDE DEF g, n
<1>5. \A it \in [SUBSET (1..n) -> Stacks(t)] : Folds(it, n, s, g) <=> Fits(it)
  <2> TAKE it \in [SUBSET (1..n) -> Stacks(t)]
  <2>1. \A q \in SUBSET (1..n) : q # {} =>
          g[<<it[q \ {Max(q)}], Max(q)>>] = Enstack(it[q \ {Max(q)}], list[Max(q)])
    BY <1>3, <1>4
  <2> QED
    BY <1>1, <2>1 DEF Folds
<1>6. PICK jt \in [SUBSET (1..n) -> Stacks(t)] : Fits(jt)
  BY <1>1, <1>2, <1>5, FoldExists
<1> DEFINE it == CHOOSE x : Fits(x)
<1>7. Fits(it)
  <2> HIDE DEF Fits
  <2> QED
    BY <1>6
<1>8. Pushed(s, list) = it[1..n]
  <2>1. Pushed(s, list) = it[DOMAIN list]
    BY DEF Pushed, FoldLeft, MapThenFoldSet
  <2> HIDE DEF it
  <2> QED
    BY <1>1, <2>1
<1> HIDE DEF it
<1>9. it[{}] = s
  BY <1>7
<1>10. ASSUME NEW k \in 1..n, it[1..(k - 1)] \in Stacks(t)
       PROVE  it[1..k] = g[<<it[1..(k - 1)], k>>]
  <2>1. (1..k) \in SUBSET (DOMAIN list) /\ (1..k) # {}
    <3>1. (1..k) \in SUBSET (1..n) /\ (1..k) # {}
      BY <1>1, IntervalTop
    <3> QED
      BY <1>1, <3>1
  <2>2. it[1..k] = Enstack(it[(1..k) \ {Max(1..k)}], list[Max(1..k)])
    BY <1>7, <2>1
  <2>3. Max(1..k) = k /\ (1..k) \ {k} = 1..(k - 1)
    BY <1>1, IntervalTop
  <2> QED
    BY <1>3, <1>10, <2>2, <2>3
<1>11. PICK f : Values(f, it, n, Stacks(t), g)
  <2> HIDE DEF Fits
  <2>1. Advances(it, n, Stacks(t), g)
    BY <1>10 DEF Advances
  <2>2. n \in Nat /\ s \in Stacks(t)
    BY <1>1
  <2> QED
    BY ONLY <1>2, <1>9, <2>1, <2>2, FoldSteps
<1>12. /\ f \in [0..n -> Stacks(t)] /\ f[0] = s /\ f[n] = it[1..n]
       /\ \A k \in 1..n : f[k] = g[<<f[k - 1], k>>]
  BY <1>9, <1>11 DEF Values
<1>13. \A k \in 1..n : f[k] = Enstack(f[k - 1], list[k])
  <2>1. \A k \in 1..n : k - 1 \in 0..n
    BY <1>1
  <2> QED
    BY <1>3, <1>12, <2>1
<1> QED
  BY <1>8, <1>12, <1>13 DEF n

LEMMA BelowTop ==
  ASSUME NEW p \in Nat, NEW k \in Nat \ {0}, NEW i \in 0..(p + k - 1), i # p + k - 1
  PROVE  i \in 0..(p + (k - 1) - 1)
  OBVIOUS

LEMMA PushedAll ==
  ASSUME NEW t \in Nat, NEW s \in Stacks(t), NEW list \in Seq(Nat),
         s.prod = t - s.avail, ~s.refused, Len(list) <= s.avail
  PROVE  LET r == Pushed(s, list)
         IN  /\ r \in Stacks(t)
             /\ r.prod = s.prod + Len(list) /\ r.avail = s.avail - Len(list) /\ ~r.refused
             /\ \A i \in 0..(r.prod - 1) :
                  r.cells[i] = IF i < s.prod THEN s.cells[i] ELSE list[i - s.prod + 1]
<1> DEFINE n == Len(list)
           After(r, k) ==
             /\ r \in Stacks(t)
             /\ r.prod = s.prod + k /\ r.avail = s.avail - k /\ ~r.refused
             /\ \A i \in 0..(s.prod + k - 1) :
                  r.cells[i] = IF i < s.prod THEN s.cells[i] ELSE list[i - s.prod + 1]
<1>1. n \in Nat /\ \A k \in 1..n : list[k] \in Nat
  OBVIOUS
<1>2. PICK f \in [0..n -> Stacks(t)] :
        /\ f[0] = s /\ Pushed(s, list) = f[n]
        /\ \A k \in 1..n : f[k] = Enstack(f[k - 1], list[k])
  BY PushedSteps
<1>3. s.prod \in 0..t /\ s.avail \in 0..t
  BY DEF Stacks
<1>4. After(s, 0)
  BY <1>3
<1>5. ASSUME NEW k \in 1..n, NEW r, After(r, k - 1)
      PROVE  After(Enstack(r, list[k]), k)
  <2>1. r \in Stacks(t) /\ list[k] \in Nat
    BY <1>1, <1>5
  <2>2. r.prod = s.prod + k - 1 /\ r.avail = s.avail - k + 1 /\ r.avail # 0
    BY <1>1, <1>3, <1>5
  <2>3. r.prod \in 0..(t - 1) /\ NextProd(r) = s.prod + k
    <3>1. r.total = t /\ s.prod + k <= t
      BY <1>1, <1>3, <2>1 DEF Stacks
    <3> QED
      BY ONLY <1>1, <1>3, <2>2, <3>1 DEF NextProd
  <2> DEFINE e == Enstack(r, list[k])
  <2>4. /\ e.cells = [r.cells EXCEPT ![r.prod] = list[k]]
        /\ e.prod = NextProd(r) /\ e.avail = r.avail - 1 /\ e.refused = r.refused
    BY <2>1, <2>2 DEF Enstack, Stacks
  <2>5. e \in Stacks(t)
    BY <2>1, EnstackType
  <2> HIDE DEF e
  <2>6. ASSUME NEW i \in 0..(s.prod + k - 1)
        PROVE  e.cells[i] = IF i < s.prod THEN s.cells[i] ELSE list[i - s.prod + 1]
    <3>0. i \in Int
      BY <1>1, <1>3
    <3>1. r.cells \in [0..(t - 1) -> Nat] /\ i \in Int
      BY <2>1, <3>0 DEF Stacks
    <3>2. CASE i = s.prod + k - 1
      <4>1. r.prod = i /\ r.prod \in 0..(t - 1)
        BY ONLY <1>1, <1>3, <2>2, <2>3, <3>2
      <4>3. e.cells[i] = list[k]
        BY ONLY <2>4, <3>1, <4>1
      <4>2. ~(i < s.prod) /\ i - s.prod + 1 = k
        BY ONLY <1>1, <1>3, <3>2
      <4> QED
        BY ONLY <4>2, <4>3
    <3>3. CASE i # s.prod + k - 1
      <4>1. i # r.prod /\ i \in 0..(s.prod + (k - 1) - 1) /\ i \in 0..(t - 1)
        <5>1. s.prod + k - 1 <= t - 1
          BY <1>1, <1>3, <2>2, <2>3
        <5>2. i \in 0..(s.prod + k - 1) /\ k \in 1..n /\ n \in Nat /\ t \in Nat
          BY <1>1
        <5>3. i # r.prod
          BY ONLY <1>3, <2>2, <3>3, <5>1, <5>2
        <5>4. i \in 0..(s.prod + (k - 1) - 1)
          <6>1. s.prod \in Nat /\ k \in Nat \ {0}
            BY ONLY <1>3, <5>2
          <6> QED
            BY ONLY <3>3, <5>2, <6>1, BelowTop
        <5>5. i \in 0..(t - 1)
          BY ONLY <1>3, <5>1, <5>2
        <5> QED
          BY <5>3, <5>4, <5>5
      <4>2. e.cells[i] = r.cells[i]
        BY <2>4, <3>1, <4>1
      <4> QED
        BY <1>5, <4>1, <4>2
    <3> QED
      BY <3>2, <3>3
  <2>7. e.prod = s.prod + k /\ e.avail = s.avail - k /\ ~e.refused
    BY <1>1, <1>3, <1>5, <2>2, <2>3, <2>4
  <2> QED
    BY <2>5, <2>6, <2>7 DEF e
<1> DEFINE T == {k \in 0..n : ~After(f[k], k)}
<1>6. T = {}
  <2> HIDE DEF After
  <2>1. SUFFICES ASSUME T # {}
                 PROVE  FALSE
    OBVIOUS
  <2>2. T \subseteq Nat
    OBVIOUS
  <2>3. PICK m \in T : \A k \in T : m <= k
    <3> HIDE DEF T
    <3> QED
      BY <2>1, <2>2, LeastNat
  <2>4. m # 0 /\ m \in 0..n /\ ~After(f[m], m)
    BY <1>2, <1>4
  <2>5. m \in 1..n /\ m - 1 \in 0..n /\ m - 1 \notin T
    BY <2>3, <2>4
  <2>6. After(f[m - 1], m - 1)
    BY <2>5
  <2>7. f[m] = Enstack(f[m - 1], list[m])
    BY <1>2, <2>5
  <2> QED
    BY <1>5, <2>4, <2>5, <2>6, <2>7
<1>7. After(f[n], n)
  <2> HIDE DEF After
  <2>1. n \in 0..n
    BY <1>1
  <2> QED
    BY <1>6, <2>1
<1>8. After(Pushed(s, list), n)
  BY ONLY <1>2, <1>7
<1>9. Pushed(s, list).prod - 1 = s.prod + n - 1
  <2>1. Pushed(s, list).prod = s.prod + n
    BY ONLY <1>8
  <2>2. s.prod \in Int /\ n \in Int
    BY ONLY <1>1, <1>3
  <2>3. PICK a, b : a = s.prod /\ b = n
    OBVIOUS
  <2>4. Pushed(s, list).prod = a + b /\ a \in Int /\ b \in Int
    BY ONLY <2>1, <2>2, <2>3
  <2>5. (a + b) - 1 = a + b - 1
    BY ONLY <2>4
  <2> QED
    BY ONLY <2>3, <2>4, <2>5
<1> QED
  BY <1>8, <1>9

LEMMA DestackOne ==
  ASSUME NEW t \in Nat, NEW s \in Stacks(t), s.prod = t - s.avail, s.prod # 0
  PROVE  LET r == Destack(s)
         IN  /\ r \in Stacks(t) /\ r.prod = s.prod - 1 /\ r.avail = s.avail + 1
             /\ r.cells = s.cells /\ r.refused = s.refused
<1>1. s.prod \in 1..t /\ s.avail \in 0..(t - 1) /\ s.total = t /\ s.top \in Int
  BY DEF Stacks
<1>0. s = [cells |-> s.cells, top |-> s.top, prod |-> s.prod, avail |-> s.avail,
           total |-> s.total, refused |-> s.refused]
  BY DEF Stacks
<1>2. Destack(s) = [cells |-> s.cells, top |-> s.prod - 1, prod |-> s.prod - 1,
                    avail |-> s.avail + 1, total |-> s.total, refused |-> s.refused]
  <2>1. (IF s.prod - 1 < 0 THEN s.total - 1 ELSE s.prod) - 1 = s.prod - 1
    BY <1>1
  <2>2. Destack(s) = [s EXCEPT !.top = s.prod - 1, !.prod = s.prod - 1, !.avail = @ + 1]
    BY <2>1 DEF Destack
  <2> QED
    BY ONLY <1>0, <2>2
<1>3. s.cells \in [0..(t - 1) -> Nat] /\ s.refused \in BOOLEAN
  BY DEF Stacks
<1>4. s.prod - 1 \in 0..t /\ s.avail + 1 \in 0..t /\ s.prod - 1 \in Int
  BY <1>1
<1> QED
  BY ONLY <1>1, <1>2, <1>3, <1>4 DEF Stacks
-----------------------------------------------------------------------------
(* The tree.                                                               *)

NodeIds == 1..Len(nodes)
NodeRec == [word : Words \union {NoWord}, kids : Seq(Nat), tail : BOOLEAN, depth : Nat]

\* The nodes are a tree, numbered from the root downwards; path gives every
\* node the words that lead to it, no two the same.
Tree(path) ==
  /\ nodes \in Seq(NodeRec) /\ Len(nodes) >= 1 /\ total = Len(nodes) - 1
  /\ path \in [NodeIds -> Seq(Words)] /\ path[Root] = <<>>
  /\ \A n, m \in NodeIds : path[n] = path[m] => n = m
  /\ \A n \in NodeIds : nodes[n].depth = Len(path[n])
  /\ \A n \in NodeIds : \A j \in DOMAIN Kids(n) :
       /\ Kids(n)[j] \in (n + 1)..Len(nodes)
       /\ path[Kids(n)[j]] = Append(path[n], nodes[Kids(n)[j]].word)
       /\ nodes[Kids(n)[j]].word \in Words
  /\ \A n, m \in NodeIds : \A j \in DOMAIN Kids(n), k \in DOMAIN Kids(m) :
       Kids(n)[j] = Kids(m)[k] => n = m /\ j = k
  /\ \A n \in Made : \E m \in NodeIds : \E j \in DOMAIN Kids(m) : Kids(m)[j] = n

\* The patterns inserted are the ways to the nodes that end one.
Ends(path) == {path[n] : n \in {m \in NodeIds : nodes[m].tail}}

LEMMA TreeTypes ==
  ASSUME NEW path, Tree(path)
  PROVE  /\ Len(nodes) \in Nat /\ Len(nodes) >= 1 /\ Root \in NodeIds
         /\ \A n \in NodeIds :
              /\ n \in Nat /\ nodes[n] \in NodeRec
              /\ Kids(n) \in Seq(Nat) /\ nodes[n].tail \in BOOLEAN
              /\ nodes[n].word \in Words \union {NoWord} /\ nodes[n].depth \in Nat
              /\ path[n] \in Seq(Words)
              /\ \A j \in DOMAIN Kids(n) :
                   Kids(n)[j] \in NodeIds /\ Kids(n)[j] \in Made /\ Kids(n)[j] > n
         /\ \A n \in NodeIds : n \in Made <=> n # Root
<1>1. Len(nodes) \in Nat /\ Len(nodes) >= 1 /\ nodes \in Seq(NodeRec)
  BY DEF Tree
<1>2. Root \in NodeIds /\ \A n \in NodeIds : n \in Made <=> n # Root
  BY <1>1 DEF Root, NodeIds, Made
<1>3. ASSUME NEW n \in NodeIds
      PROVE  /\ n \in Nat /\ nodes[n] \in NodeRec
             /\ Kids(n) \in Seq(Nat) /\ nodes[n].tail \in BOOLEAN
             /\ nodes[n].word \in Words \union {NoWord} /\ nodes[n].depth \in Nat
             /\ path[n] \in Seq(Words)
  <2>1. n \in Nat /\ nodes[n] \in NodeRec
    BY <1>1 DEF NodeIds
  <2>2. path[n] \in Seq(Words)
    BY DEF Tree
  <2> QED
    BY <2>1, <2>2 DEF NodeRec, Kids
<1>4. ASSUME NEW n \in NodeIds, NEW j \in DOMAIN Kids(n)
      PROVE  Kids(n)[j] \in NodeIds /\ Kids(n)[j] \in Made /\ Kids(n)[j] > n
  <2>1. Kids(n)[j] \in (n + 1)..Len(nodes) /\ n \in 1..Len(nodes)
    BY DEF Tree, NodeIds
  <2> QED
    BY <1>1, <2>1 DEF NodeIds, Made
<1> QED
  BY <1>1, <1>2, <1>3, <1>4

LEMMA AppendApart ==
  ASSUME NEW S, NEW s \in Seq(S), NEW t \in Seq(S), NEW x, NEW y
  PROVE  /\ Append(s, x) # <<>>
         /\ Append(s, x) = Append(t, y) => s = t /\ x = y
<1> DEFINE U == S \union {x, y}
<1>1. s \in Seq(U) /\ t \in Seq(U) /\ x \in U /\ y \in U
  OBVIOUS
<1> HIDE DEF U
<1>2. /\ Len(Append(s, x)) = Len(s) + 1 /\ Len(Append(t, y)) = Len(t) + 1
      /\ Append(s, x)[Len(s) + 1] = x /\ Append(t, y)[Len(t) + 1] = y
      /\ \A k \in 1..Len(s) : Append(s, x)[k] = s[k]
      /\ \A k \in 1..Len(t) : Append(t, y)[k] = t[k]
      /\ Len(s) \in Nat /\ Len(t) \in Nat
  BY <1>1
<1>3. Append(s, x) # <<>>
  BY <1>2
<1>4. ASSUME Append(s, x) = Append(t, y)
      PROVE  s = t /\ x = y
  <2>1. Len(s) = Len(t)
    BY <1>2, <1>4
  <2>2. x = y /\ \A k \in 1..Len(s) : s[k] = t[k]
    BY <1>2, <1>4, <2>1
  <2> QED
    BY <1>1, <2>1, <2>2
<1> QED
  BY <1>3, <1>4

LEMMA WordsApart ==
  ASSUME NEW s \in Seq(Words), NEW t \in Seq(Words), NEW x, NEW y, Append(s, x) = Append(t, y)
  PROVE  s = t /\ x = y
<1> DEFINE S == Words
<1>1. s \in Seq(S) /\ t \in Seq(S)
  OBVIOUS
<1> HIDE DEF S
<1> QED
  BY <1>1, AppendApart

LEMMA LeastOf ==
  ASSUME NEW T, T \subseteq Nat, T # {}
  PROVE  Min(T) \in T
  BY LeastNat DEF Min

\* The search for a word among the children: what it gives is the node that
\* the longer way leads to, if there is one.
LEMMA ChildFound ==
  ASSUME NEW path, Tree(path), NEW n \in NodeIds, NEW w
  PROVE  \/ /\ Child(n, w) \in NodeIds /\ path[Child(n, w)] = Append(path[n], w)
            /\ \E j \in DOMAIN Kids(n) : Child(n, w) = Kids(n)[j]
         \/ /\ Child(n, w) = Null
            /\ \A m \in NodeIds : path[m] # Append(path[n], w)
<1> DEFINE hits == {k \in DOMAIN Kids(n) : nodes[Kids(n)[k]].word = w}
<1>1. hits \subseteq Nat
  BY TreeTypes
<1>2. CASE hits = {}
  <2>1. Child(n, w) = Null
    BY <1>2 DEF Child
  <2>2. ASSUME NEW m \in NodeIds, path[m] = Append(path[n], w)
        PROVE  FALSE
    <3>1. path[n] \in Seq(Words) /\ path[m] # <<>>
      <4>1. path[n] \in Seq(Words)
        BY TreeTypes
      <4> QED
        BY ONLY <2>2, <4>1, AppendApart
    <3>2. m \in Made
      <4>1. m # Root
        BY <3>1 DEF Tree
      <4> QED
        BY <4>1, TreeTypes
    <3>3. PICK p \in NodeIds : \E j \in DOMAIN Kids(p) : Kids(p)[j] = m
      BY <3>2 DEF Tree
    <3>4. PICK j \in DOMAIN Kids(p) : Kids(p)[j] = m
      BY <3>3
    <3>5. path[m] = Append(path[p], nodes[m].word) /\ path[p] \in Seq(Words)
      BY <3>4, TreeTypes DEF Tree
    <3>6. path[p] = path[n] /\ nodes[m].word = w
      <4>1. Append(path[p], nodes[m].word) = Append(path[n], w)
        BY <2>2, <3>5
      <4>2. path[p] \in Seq(Words) /\ path[n] \in Seq(Words)
        BY <3>1, <3>5
      <4>3. PICK u, v, x : u = path[p] /\ v = path[n] /\ x = nodes[m].word
        OBVIOUS
      <4>4. u \in Seq(Words) /\ v \in Seq(Words) /\ Append(u, x) = Append(v, w)
        BY ONLY <4>1, <4>2, <4>3
      <4>5. u = v /\ x = w
        BY ONLY <4>4, WordsApart
      <4> QED
        BY ONLY <4>3, <4>5
    <3>7. p = n
      BY <3>6 DEF Tree
    <3> QED
      BY <1>2, <3>4, <3>6, <3>7
  <2> QED
    BY <2>1, <2>2
<1>3. CASE hits # {}
  <2>1. Min(hits) \in hits
    <3> HIDE DEF hits
    <3> QED
      BY <1>1, <1>3, LeastOf
  <2>2. Child(n, w) = Kids(n)[Min(hits)]
    BY <1>3 DEF Child
  <2>3. PICK j \in DOMAIN Kids(n) : Child(n, w) = Kids(n)[j] /\ nodes[Kids(n)[j]].word = w
    BY <2>1, <2>2
  <2>4. path[Kids(n)[j]] = Append(path[n], w) /\ Kids(n)[j] \in NodeIds
    <3>1. Kids(n)[j] \in NodeIds
      BY TreeTypes
    <3>2. path[Kids(n)[j]] = Append(path[n], nodes[Kids(n)[j]].word)
      BY DEF Tree
    <3> QED
      BY <2>3, <3>1, <3>2
  <2> QED
    BY <2>3, <2>4
<1> QED
  BY <1>2, <1>3

LEMMA OneMore ==
  ASSUME NEW S, NEW s \in Seq(S), NEW k \in 1..Len(s)
  PROVE  /\ SubSeq(s, 1, k) = Append(SubSeq(s, 1, k - 1), s[k])
         /\ SubSeq(s, 1, 0) = <<>> /\ SubSeq(s, 1, Len(s)) = s
         /\ SubSeq(s, 1, k) \in Seq(S) /\ SubSeq(s, 1, k - 1) \in Seq(S) /\ s[k] \in S
         /\ Len(SubSeq(s, 1, k)) = k
<1>1. SubSeq(s, 1, k) \in Seq(S) /\ SubSeq(s, 1, k - 1) \in Seq(S) /\ s[k] \in S
  OBVIOUS
<1>2. SubSeq(s, 1, k) = Append(SubSeq(s, 1, k - 1), s[k])
  OBVIOUS
<1>3. SubSeq(s, 1, 0) = <<>> /\ SubSeq(s, 1, Len(s)) = s /\ Len(SubSeq(s, 1, k)) = k
  OBVIOUS
<1> QED
  BY <1>1, <1>2, <1>3

SearchStep(n, w) == IF n = Null THEN Null ELSE Child(n, w)

\* tire_found goes from child to child.
LEMMA FoundSteps ==
  ASSUME NEW path, Tree(path), NEW p \in Seq(Words)
  PROVE  \E f \in [0..Len(p) -> 0..Len(nodes)] :
           /\ f[0] = Root /\ Found(p) = EndsHere(f[Len(p)])
           /\ \A k \in 1..Len(p) : f[k] = SearchStep(f[k - 1], p[k])
<1> DEFINE n == Len(p)
           S == 0..Len(nodes)
           g == [a \in S \X (1..n) |-> SearchStep(a[1], p[a[2]])]
           Fits(it) == it = [q \in SUBSET (DOMAIN p) |->
                               IF q = {} THEN Root
                               ELSE IF it[q \ {Max(q)}] = Null THEN Null
                                    ELSE Child(it[q \ {Max(q)}], p[Max(q)])]
<1>1. n \in Nat /\ DOMAIN p = 1..n
  OBVIOUS
<1>2. ASSUME NEW a \in S, NEW w
      PROVE  SearchStep(a, w) \in S
  <2>1. CASE a = Null
    BY <2>1, TreeTypes DEF SearchStep, Null
  <2>2. CASE a # Null
    <3>1. a \in NodeIds
      BY <2>2, TreeTypes DEF NodeIds, Null
    <3>2. Child(a, w) \in NodeIds \/ Child(a, w) = Null
      BY <3>1, ChildFound
    <3> QED
      BY <2>2, <3>2, TreeTypes DEF SearchStep, NodeIds, Null
  <2> QED
    BY <2>1, <2>2
<1>3. g \in [S \X (1..n) -> S]
  <2> HIDE DEF S
  <2> QED
    BY <1>2
<1>4. \A a \in S, k \in 1..n : g[<<a, k>>] = SearchStep(a, p[k])
  OBVIOUS
<1>5. Root \in S
  BY TreeTypes DEF Root
<1>6. \A q \in SUBSET (1..n) : q # {} => Max(q) \in 1..n /\ q \ {Max(q)} \in SUBSET (1..n)
  BY <1>1, LargestPlace
<1> HIDE DEF g, n, S
<1>7. \A it \in [SUBSET (1..n) -> S] : Folds(it, n, Root, g) <=> Fits(it)
  <2> TAKE it \in [SUBSET (1..n) -> S]
  <2>1. \A q \in SUBSET (1..n) : q # {} =>
          g[<<it[q \ {Max(q)}], Max(q)>>] = SearchStep(it[q \ {Max(q)}], p[Max(q)])
    BY <1>4, <1>6
  <2> QED
    BY <1>1, <2>1 DEF Folds, SearchStep
<1>8. PICK jt \in [SUBSET (1..n) -> S] : Fits(jt)
  BY <1>1, <1>3, <1>5, <1>7, FoldExists
<1> DEFINE it == CHOOSE x : Fits(x)
<1>9. Fits(it)
  <2> HIDE DEF Fits
  <2> QED
    BY <1>8
<1>10. Found(p) = EndsHere(it[1..n])
  <2>1. Found(p) = EndsHere(it[DOMAIN p])
    BY DEF Found, FoldLeft, MapThenFoldSet
  <2> HIDE DEF it
  <2> QED
    BY <1>1, <2>1
<1> HIDE DEF it
<1>11. it[{}] = Root
  BY <1>9
<1>12. ASSUME NEW k \in 1..n, it[1..(k - 1)] \in S
       PROVE  it[1..k] = g[<<it[1..(k - 1)], k>>]
  <2>1. (1..k) \in SUBSET (DOMAIN p) /\ (1..k) # {}
    <3>1. (1..k) \in SUBSET (1..n) /\ (1..k) # {}
      BY <1>1, IntervalTop
    <3> QED
      BY <1>1, <3>1
  <2>2. it[1..k] = SearchStep(it[(1..k) \ {Max(1..k)}], p[Max(1..k)])
    BY <1>9, <2>1 DEF SearchStep
  <2>3. Max(1..k) = k /\ (1..k) \ {k} = 1..(k - 1)
    BY <1>1, IntervalTop
  <2> QED
    BY <1>4, <1>12, <2>2, <2>3
<1>13. PICK f : Values(f, it, n, S, g)
  <2> HIDE DEF Fits
  <2>1. Advances(it, n, S, g)
    BY <1>12 DEF Advances
  <2>2. n \in Nat /\ it[{}] \in S
    BY <1>1, <1>5, <1>11
  <2> QED
    BY ONLY <1>3, <2>1, <2>2, FoldSteps
<1>14. /\ f \in [0..n -> S] /\ f[0] = Root /\ f[n] = it[1..n]
       /\ \A k \in 1..n : f[k] = g[<<f[k - 1], k>>]
  BY <1>11, <1>13 DEF Values
<1>15. \A k \in 1..n : f[k] = SearchStep(f[k - 1], p[k])
  <2>1. \A k \in 1..n : k - 1 \in 0..n
    BY <1>1
  <2> QED
    BY <1>4, <1>14, <2>1
<1> QED
  BY <1>10, <1>14, <1>15 DEF n, S

\* The search finds the node whose way the pattern is.
LEMMA FoundIsEnd ==
  ASSUME NEW path, Tree(path), NEW p \in Seq(Words)
  PROVE  Found(p) <=> p \in Ends(path)
<1>1. PICK f \in [0..Len(p) -> 0..Len(nodes)] :
        /\ f[0] = Root /\ Found(p) = EndsHere(f[Len(p)])
        /\ \A k \in 1..Len(p) : f[k] = SearchStep(f[k - 1], p[k])
  BY FoundSteps
<1> DEFINE n == Len(p)
           At(k) == \/ f[k] \in NodeIds /\ path[f[k]] = SubSeq(p, 1, k)
                    \/ f[k] = Null /\ \A m \in NodeIds : path[m] # SubSeq(p, 1, k)
           T == {k \in 0..n : ~At(k)}
<1>2. n \in Nat
  OBVIOUS
<1>3. At(0)
  <2>1. path[Root] = <<>> /\ SubSeq(p, 1, 0) = <<>>
    BY DEF Tree
  <2> QED
    BY <1>1, <2>1, TreeTypes
<1>4. ASSUME NEW k \in 1..n, At(k - 1)
      PROVE  At(k)
  <2>1. f[k] = SearchStep(f[k - 1], p[k])
    BY <1>1
  <2>2. /\ SubSeq(p, 1, k) = Append(SubSeq(p, 1, k - 1), p[k])
        /\ SubSeq(p, 1, k - 1) \in Seq(Words) /\ p[k] \in Words
    BY OneMore
  <2>3. CASE f[k - 1] \in NodeIds /\ path[f[k - 1]] = SubSeq(p, 1, k - 1)
    <3>1. f[k] = Child(f[k - 1], p[k])
      BY <2>1, <2>3, TreeTypes DEF SearchStep, Null, NodeIds
    <3>2. \/ Child(f[k - 1], p[k]) \in NodeIds
             /\ path[Child(f[k - 1], p[k])] = Append(path[f[k - 1]], p[k])
          \/ Child(f[k - 1], p[k]) = Null
             /\ \A m \in NodeIds : path[m] # Append(path[f[k - 1]], p[k])
      BY ONLY Tree(path), <2>3, ChildFound
    <3>3. Append(path[f[k - 1]], p[k]) = SubSeq(p, 1, k)
      BY <2>2, <2>3
    <3> QED
      BY <3>1, <3>2, <3>3
  <2>4. CASE f[k - 1] = Null /\ \A m \in NodeIds : path[m] # SubSeq(p, 1, k - 1)
    <3>1. f[k] = Null
      BY <2>1, <2>4 DEF SearchStep
    <3>2. ASSUME NEW m \in NodeIds, path[m] = SubSeq(p, 1, k)
          PROVE  FALSE
      <4>1. path[m] # <<>>
        BY ONLY <2>2, <3>2, AppendApart
      <4>2. m # Root
        BY <4>1 DEF Tree
      <4>3. m \in Made
        BY <4>2, TreeTypes
      <4>4. PICK q \in NodeIds : \E j \in DOMAIN Kids(q) : Kids(q)[j] = m
        BY <4>3 DEF Tree
      <4>5. path[m] = Append(path[q], nodes[m].word)
        <5>1. PICK j \in DOMAIN Kids(q) : Kids(q)[j] = m
          BY <4>4
        <5>2. path[Kids(q)[j]] = Append(path[q], nodes[Kids(q)[j]].word)
          BY DEF Tree
        <5> QED
          BY <5>1, <5>2
      <4>6. path[q] \in Seq(Words)
        BY TreeTypes
      <4>7. Append(path[q], nodes[m].word) = Append(SubSeq(p, 1, k - 1), p[k])
        BY <2>2, <3>2, <4>5
      <4>8. path[q] = SubSeq(p, 1, k - 1)
        <5>1. SubSeq(p, 1, k - 1) \in Seq(Words)
          BY <2>2
        <5> QED
          BY ONLY <4>6, <4>7, <5>1, WordsApart
      <4> QED
        BY <2>4, <4>8
    <3> QED
      BY <3>1, <3>2
  <2> QED
    BY <1>4, <2>3, <2>4
<1>5. T = {}
  <2> HIDE DEF At
  <2>1. SUFFICES ASSUME T # {}
                 PROVE  FALSE
    OBVIOUS
  <2>2. T \subseteq Nat
    OBVIOUS
  <2>3. PICK m \in T : \A k \in T : m <= k
    <3> HIDE DEF T
    <3> QED
      BY <2>1, <2>2, LeastNat
  <2>4. m # 0 /\ m \in 0..n /\ ~At(m)
    BY <1>3
  <2>5. m \in 1..n /\ m - 1 \in 0..n /\ m - 1 \notin T
    BY <1>2, <2>3, <2>4
  <2> QED
    BY <1>4, <2>4, <2>5
<1>6. At(n)
  <2> HIDE DEF At
  <2>1. n \in 0..n
    BY <1>2
  <2> QED
    BY <1>5, <2>1
<1>7. SubSeq(p, 1, n) = p
  OBVIOUS
<1>8. CASE f[n] \in NodeIds /\ path[f[n]] = p
  <2>1. Found(p) <=> nodes[f[n]].tail
    BY <1>1, <1>8, TreeTypes DEF EndsHere, Null, NodeIds
  <2>2. \A m \in NodeIds : path[m] = p => m = f[n]
    BY <1>8 DEF Tree
  <2> QED
    BY <1>8, <2>1, <2>2 DEF Ends
<1>9. CASE f[n] = Null /\ \A m \in NodeIds : path[m] # p
  BY <1>1, <1>9 DEF EndsHere, Ends
<1> QED
  BY <1>6, <1>7, <1>8, <1>9
-----------------------------------------------------------------------------
(* Insertion.                                                              *)

OpShape ==
  \/ op = [name |-> op.name, phase |-> op.phase]
  \/ op = [name |-> "insert", phase |-> op.phase, pattern |-> op.pattern,
           at |-> op.at, search |-> op.search]

\* What is left of a pattern is to be put under the node search is at.
InsertOK(path) ==
  Inserting =>
    /\ op = [name |-> "insert", phase |-> "busy", pattern |-> op.pattern,
             at |-> op.at, search |-> op.search]
    /\ op.pattern \in Patterns /\ op.at \in 1..(Len(op.pattern) + 1)
    /\ op.search \in NodeIds /\ path[op.search] = SubSeq(op.pattern, 1, op.at - 1)

Insertions(path) == Tree(path) /\ inserted = Ends(path) /\ OpShape /\ InsertOK(path)

LEMMA PatternType ==
  ASSUME NEW p \in Patterns
  PROVE  p \in Seq(Words)
  BY TrieAssumption

LEMMA InsertionsInit ==
  Init => Insertions([n \in {Root} |-> <<>>])
<1> SUFFICES ASSUME Init
             PROVE  Insertions([n \in {Root} |-> <<>>])
  OBVIOUS
<1> DEFINE path == [n \in {Root} |-> <<>>]
           root == [word |-> NoWord, kids |-> <<>>, tail |-> FALSE, depth |-> 0]
<1>1. nodes = <<root>> /\ total = 0 /\ inserted = {} /\ op = Idle
  BY DEF Init
<1>2. root \in NodeRec
  BY DEF NodeRec
<1>3. Len(nodes) = 1 /\ nodes[1] = root /\ nodes \in Seq(NodeRec)
  BY <1>1, <1>2
<1>4. NodeIds = {Root} /\ Made = {}
  BY <1>3 DEF NodeIds, Made, Root
<1>5. Kids(Root) = <<>> /\ ~nodes[Root].tail /\ nodes[Root].depth = 0
  BY <1>3 DEF Kids, Root
<1>6. path[Root] = <<>> /\ path \in [NodeIds -> Seq(Words)]
  BY <1>4
<1> HIDE DEF path, root
<1>7. Tree(path)
  BY <1>1, <1>3, <1>4, <1>5, <1>6 DEF Tree
<1>8. inserted = Ends(path)
  BY <1>1, <1>4, <1>5 DEF Ends
<1>9. OpShape /\ InsertOK(path)
  BY <1>1 DEF OpShape, InsertOK, Inserting, Idle
<1> QED
  BY <1>7, <1>8, <1>9 DEF Insertions, path

\* Nothing of the tree changes in a walk.
LEMMA TreeKept ==
  ASSUME NEW path, UNCHANGED <<nodes, total>>
  PROVE  /\ Tree(path) => Tree(path)'
         /\ Ends(path)' = Ends(path) /\ NodeIds' = NodeIds /\ Made' = Made
         /\ \A n : Kids(n)' = Kids(n)
<1>1. nodes' = nodes /\ total' = total
  OBVIOUS
<1>2. NodeIds' = NodeIds /\ Made' = Made /\ \A n : Kids(n)' = Kids(n)
  BY ONLY <1>1 DEF NodeIds, Made, Kids
<1>3. Ends(path)' = Ends(path)
  BY ONLY <1>1, <1>2 DEF Ends
<1>4. ASSUME Tree(path)
      PROVE  Tree(path)'
  <2>1. /\ nodes \in Seq(NodeRec) /\ Len(nodes) >= 1 /\ total = Len(nodes) - 1
        /\ path \in [NodeIds -> Seq(Words)] /\ path[Root] = <<>>
        /\ \A n, m \in NodeIds : path[n] = path[m] => n = m
        /\ \A n \in NodeIds : nodes[n].depth = Len(path[n])
    BY ONLY <1>4 DEF Tree
  <2>2. \A n \in NodeIds : \A j \in DOMAIN Kids(n) :
          /\ Kids(n)[j] \in (n + 1)..Len(nodes)
          /\ path[Kids(n)[j]] = Append(path[n], nodes[Kids(n)[j]].word)
          /\ nodes[Kids(n)[j]].word \in Words
    BY ONLY <1>4 DEF Tree
  <2>3. /\ \A n, m \in NodeIds : \A j \in DOMAIN Kids(n), k \in DOMAIN Kids(m) :
             Kids(n)[j] = Kids(m)[k] => n = m /\ j = k
        /\ \A n \in Made : \E m \in NodeIds : \E j \in DOMAIN Kids(m) : Kids(m)[j] = n
    BY ONLY <1>4 DEF Tree
  <2>4. /\ nodes' \in Seq(NodeRec) /\ Len(nodes') >= 1 /\ total' = Len(nodes') - 1
        /\ path \in [NodeIds' -> Seq(Words)] /\ path[Root] = <<>>
        /\ \A n, m \in NodeIds' : path[n] = path[m] => n = m
        /\ \A n \in NodeIds' : nodes'[n].depth = Len(path[n])
    BY ONLY <1>1, <1>2, <2>1
  <2>5. \A n \in NodeIds' : \A j \in DOMAIN Kids(n)' :
          /\ Kids(n)'[j] \in (n + 1)..Len(nodes')
          /\ path[Kids(n)'[j]] = Append(path[n], nodes'[Kids(n)'[j]].word)
          /\ nodes'[Kids(n)'[j]].word \in Words
    BY ONLY <1>1, <1>2, <2>2
  <2>6. \A n, m \in NodeIds' : \A j \in DOMAIN Kids(n)', k \in DOMAIN Kids(m)' :
          Kids(n)'[j] = Kids(m)'[k] => n = m /\ j = k
    BY ONLY <1>2, <2>3
  <2>7. \A n \in Made' : \E m \in NodeIds' : \E j \in DOMAIN Kids(m)' : Kids(m)'[j] = n
    BY ONLY <1>2, <2>3
  <2> QED
    BY ONLY <2>4, <2>5, <2>6, <2>7 DEF Tree
<1> QED
  BY <1>2, <1>3, <1>4

LEMMA InsertBegun ==
  ASSUME NEW path, Insertions(path), NEW p \in Patterns, BeginInsert(p)
  PROVE  Insertions(path)'
<1>1. UNCHANGED <<nodes, total, inserted>>
  BY DEF BeginInsert
<1>2. op' = [name |-> "insert", phase |-> "busy", pattern |-> p, at |-> 1, search |-> Root]
  BY DEF BeginInsert
<1>3. Tree(path) /\ inserted = Ends(path) /\ p \in Seq(Words)
  BY PatternType DEF Insertions
<1>4. path[Root] = SubSeq(p, 1, 0) /\ Len(p) \in Nat /\ Root \in NodeIds
  <2>1. path[Root] = <<>>
    BY ONLY <1>3 DEF Tree
  <2>2. Root \in NodeIds
    BY ONLY <1>3, TreeTypes
  <2>3. SubSeq(p, 1, 0) = <<>> /\ Len(p) \in Nat
    BY ONLY <1>3
  <2> QED
    BY ONLY <2>1, <2>2, <2>3
<1>5. InsertOK(path)' /\ OpShape'
  BY <1>1, <1>2, <1>4, TreeKept DEF InsertOK, OpShape
<1> QED
  BY <1>1, <1>3, <1>5, TreeKept DEF Insertions

LEMMA InsertPlace ==
  ASSUME NEW path, Insertions(path), Inserting, op.at <= Len(op.pattern)
  PROVE  /\ op.pattern \in Patterns /\ op.pattern \in Seq(Words)
         /\ op.at \in 1..Len(op.pattern) /\ Next1 \in Words
         /\ SubSeq(op.pattern, 1, op.at) = Append(path[op.search], Next1)
         /\ op.search \in NodeIds
         /\ op = [name |-> "insert", phase |-> "busy", pattern |-> op.pattern,
                  at |-> op.at, search |-> op.search]
<1>1. op.pattern \in Seq(Words) /\ op.at \in 1..Len(op.pattern)
  BY PatternType DEF Insertions, InsertOK
<1>2. SubSeq(op.pattern, 1, op.at) = Append(path[op.search], Next1) /\ Next1 \in Words
  BY <1>1, OneMore DEF Insertions, InsertOK, Next1
<1> QED
  BY <1>1, <1>2 DEF Insertions, InsertOK

LEMMA Descended ==
  ASSUME NEW path, Insertions(path), Descend
  PROVE  Insertions(path)'
<1>1. Inserting /\ op.at <= Len(op.pattern) /\ UNCHANGED <<nodes, total, inserted>>
  BY DEF Descend, trieVars
<1> DEFINE c == Child(op.search, Next1)
<1>2. c # Null /\ op' = [op EXCEPT !.at = @ + 1, !.search = c]
  BY DEF Descend
<1>3. Tree(path) /\ inserted = Ends(path)
  BY DEF Insertions
<1>4. /\ op.pattern \in Patterns
      /\ op.at \in 1..Len(op.pattern) /\ op.search \in NodeIds
      /\ SubSeq(op.pattern, 1, op.at) = Append(path[op.search], Next1)
      /\ op = [name |-> "insert", phase |-> "busy", pattern |-> op.pattern,
               at |-> op.at, search |-> op.search]
  BY <1>1, InsertPlace
<1>5. c \in NodeIds /\ path[c] = Append(path[op.search], Next1)
  BY <1>2, <1>3, <1>4, ChildFound
<1> HIDE DEF c
<1>6. op' = [name |-> "insert", phase |-> "busy", pattern |-> op.pattern,
             at |-> op.at + 1, search |-> c]
  <2> DEFINE p == op.pattern
             a == op.at
             s == op.search
  <2>1. op = [name |-> "insert", phase |-> "busy", pattern |-> p, at |-> a, search |-> s]
    BY <1>4
  <2>2. a + 1 = op.at + 1
    OBVIOUS
  <2> HIDE DEF p, a, s
  <2>3. op' = [name |-> "insert", phase |-> "busy", pattern |-> p, at |-> a + 1, search |-> c]
    BY ONLY <1>2, <2>1
  <2> QED
    BY ONLY <2>3 DEF p, a
<1>7. op.at + 1 \in 1..(Len(op.pattern) + 1) /\ (op.at + 1) - 1 = op.at
  BY <1>4
<1>8. InsertOK(path)' /\ OpShape'
  BY <1>1, <1>4, <1>5, <1>6, <1>7, TreeKept DEF InsertOK, OpShape
<1> QED
  BY <1>1, <1>3, <1>8, TreeKept DEF Insertions

\* The call returns: nothing is being inserted any more.
LEMMA Returned ==
  ASSUME NEW path, Insertions(path), NEW ret \in {"over", "overrun", "complete"},
         op' = [op EXCEPT !.phase = ret], UNCHANGED <<nodes, total, inserted>>
  PROVE  Insertions(path)'
<1>1. op'.phase = ret /\ OpShape'
  BY DEF Insertions, OpShape
<1>2. InsertOK(path)'
  BY <1>1 DEF InsertOK, Inserting
<1> QED
  BY <1>1, <1>2, TreeKept DEF Insertions

LEMMA Finished ==
  ASSUME NEW path, Insertions(path), Finish
  PROVE  Insertions(path)'
<1>1. /\ Inserting /\ op.at > Len(op.pattern) /\ total' = total
      /\ op' = [op EXCEPT !.phase = "over"]
  BY DEF Finish
<1>2. CASE nodes[op.search].tail
  BY <1>1, <1>2, Returned DEF Finish
<1>3. CASE ~nodes[op.search].tail
  <2> DEFINE s == op.search
  <2>1. /\ nodes' = [nodes EXCEPT ![s].tail = TRUE]
        /\ inserted' = inserted \union {op.pattern}
    BY <1>3 DEF Finish
  <2>2. Tree(path) /\ inserted = Ends(path)
    BY DEF Insertions
  <2>3. s \in NodeIds /\ path[s] = op.pattern
    <3>1. op.pattern \in Seq(Words) /\ op.at = Len(op.pattern) + 1
      BY <1>1, PatternType DEF Insertions, InsertOK
    <3>2. SubSeq(op.pattern, 1, op.at - 1) = op.pattern
      BY <3>1
    <3> QED
      BY <1>1, <3>2 DEF Insertions, InsertOK
  <2> HIDE DEF s
  <2>4. nodes \in Seq(NodeRec) /\ nodes[s] \in NodeRec
    BY <2>2, <2>3, TreeTypes DEF Tree
  <2>5. [nodes[s] EXCEPT !.tail = TRUE] \in NodeRec
    BY <2>4 DEF NodeRec
  <2>6. nodes' \in Seq(NodeRec) /\ Len(nodes') = Len(nodes)
    BY <2>1, <2>3, <2>4, <2>5 DEF NodeIds
  <2>7. \A n \in NodeIds :
          /\ nodes'[n].word = nodes[n].word /\ nodes'[n].kids = nodes[n].kids
          /\ nodes'[n].depth = nodes[n].depth
          /\ nodes'[n].tail <=> (nodes[n].tail \/ n = s)
    <3> TAKE n \in NodeIds
    <3>1. nodes[n] \in NodeRec
      BY <2>2, TreeTypes
    <3>0. n \in DOMAIN nodes
      BY <2>4 DEF NodeIds
    <3>2. nodes'[n] = IF n = s THEN [nodes[n] EXCEPT !.tail = TRUE] ELSE nodes[n]
      BY ONLY <2>1, <3>0
    <3> QED
      BY <3>1, <3>2 DEF NodeRec
  <2>8. NodeIds' = NodeIds /\ Made' = Made /\ \A n \in NodeIds : Kids(n)' = Kids(n)
    BY <2>6, <2>7 DEF NodeIds, Made, Kids
  <2>9. Tree(path)'
    <3>1. \A n \in NodeIds : \A j \in DOMAIN Kids(n) : Kids(n)[j] \in NodeIds
      BY <2>2, TreeTypes
    <3>2. /\ nodes' \in Seq(NodeRec) /\ Len(nodes') >= 1 /\ total' = Len(nodes') - 1
          /\ path \in [NodeIds' -> Seq(Words)] /\ path[Root] = <<>>
          /\ \A n, m \in NodeIds' : path[n] = path[m] => n = m
      BY <1>1, <2>2, <2>6, <2>8 DEF Tree
    <3>3. \A n \in NodeIds' : nodes'[n].depth = Len(path[n])
      BY <2>2, <2>7, <2>8 DEF Tree
    <3>4. \A n \in NodeIds' : \A j \in DOMAIN Kids(n)' :
            /\ Kids(n)'[j] \in (n + 1)..Len(nodes')
            /\ path[Kids(n)'[j]] = Append(path[n], nodes'[Kids(n)'[j]].word)
            /\ nodes'[Kids(n)'[j]].word \in Words
      <4> TAKE n \in NodeIds'
      <4> TAKE j \in DOMAIN Kids(n)'
      <4>1. n \in NodeIds /\ Kids(n)' = Kids(n) /\ j \in DOMAIN Kids(n)
        BY <2>8
      <4>2. /\ Kids(n)[j] \in NodeIds /\ Kids(n)[j] \in (n + 1)..Len(nodes)
            /\ path[Kids(n)[j]] = Append(path[n], nodes[Kids(n)[j]].word)
            /\ nodes[Kids(n)[j]].word \in Words
        BY <2>2, <3>1, <4>1 DEF Tree
      <4>3. nodes'[Kids(n)[j]].word = nodes[Kids(n)[j]].word
        BY <2>7, <4>2
      <4> QED
        BY <2>6, <4>1, <4>2, <4>3
    <3>5. \A n, m \in NodeIds' : \A j \in DOMAIN Kids(n)', k \in DOMAIN Kids(m)' :
            Kids(n)'[j] = Kids(m)'[k] => n = m /\ j = k
      BY <2>2, <2>8 DEF Tree
    <3>6. \A n \in Made' : \E m \in NodeIds' : \E j \in DOMAIN Kids(m)' : Kids(m)'[j] = n
      BY <2>2, <2>8 DEF Tree
    <3> QED
      BY <3>2, <3>3, <3>4, <3>5, <3>6 DEF Tree
  <2>10. inserted' = Ends(path)'
    <3>1. {m \in NodeIds' : nodes'[m].tail} = {m \in NodeIds : nodes[m].tail} \union {s}
      BY <2>3, <2>7, <2>8
    <3>2. Ends(path)' = {path[n] : n \in {m \in NodeIds' : nodes'[m].tail}}
      BY DEF Ends
    <3> QED
      BY ONLY <2>1, <2>2, <2>3, <3>1, <3>2 DEF Ends
  <2>11. op'.phase = "over" /\ OpShape'
    BY <1>1 DEF Insertions, OpShape
  <2>12. InsertOK(path)'
    BY <2>11 DEF InsertOK, Inserting
  <2> QED
    BY <2>9, <2>10, <2>11, <2>12 DEF Insertions
<1> QED
  BY <1>2, <1>3

\* What becomes of the children when the node number k is put under s.
GrownKids(s, k) ==
  /\ \A n \in NodeIds : \A j \in DOMAIN Kids(n) : j \in DOMAIN Kids(n)' /\ Kids(n)'[j] = Kids(n)[j]
  /\ \A n \in NodeIds' : \A j \in DOMAIN Kids(n)' :
       \/ n \in NodeIds /\ j \in DOMAIN Kids(n) /\ Kids(n)'[j] = Kids(n)[j]
       \/ n = s /\ j = Len(Kids(s)) + 1 /\ Kids(n)'[j] = k
  /\ Len(Kids(s)) + 1 \in DOMAIN Kids(s)' /\ Kids(s)'[Len(Kids(s)) + 1] = k

\* A new node comes behind the others, and is its parent's last child.
LEMMA NodesGrown ==
  ASSUME NEW path, Tree(path), NEW s \in NodeIds, NEW new \in NodeRec, new.kids = <<>>,
         NEW k, k = Len(nodes) + 1,
         nodes' = Append([nodes EXCEPT ![s].kids = Append(@, k)], new)
  PROVE  /\ nodes' \in Seq(NodeRec) /\ Len(nodes') = k
         /\ nodes'[k] = new /\ GrownKids(s, k)
         /\ \A n \in NodeIds :
              /\ nodes'[n].word = nodes[n].word /\ nodes'[n].depth = nodes[n].depth
              /\ nodes'[n].tail = nodes[n].tail
<1> DEFINE old == [nodes EXCEPT ![s].kids = Append(@, k)]
<1>1. nodes \in Seq(NodeRec) /\ nodes[s] \in NodeRec /\ k \in Nat
  <2>1. nodes \in Seq(NodeRec)
    BY DEF Tree
  <2>2. nodes[s] \in NodeRec /\ Len(nodes) \in Nat /\ k = Len(nodes) + 1
    BY TreeTypes
  <2> QED
    BY ONLY <2>1, <2>2
<1>2. [nodes[s] EXCEPT !.kids = Append(@, k)] \in NodeRec
  <2> DEFINE r == nodes[s]
  <2>1. r \in NodeRec /\ k \in Nat
    BY <1>1
  <2> HIDE DEF r
  <2> DEFINE ks == Append(r.kids, k)
  <2>2. ks \in Seq(Nat)
    BY <2>1 DEF NodeRec
  <2> HIDE DEF ks
  <2>3. [r EXCEPT !.kids = ks] \in NodeRec
    BY ONLY <2>1, <2>2 DEF NodeRec
  <2> QED
    BY ONLY <2>3 DEF r, ks
<1>3. old \in Seq(NodeRec) /\ Len(old) = Len(nodes)
  BY <1>1, <1>2 DEF NodeIds
<1>4. \A n \in NodeIds : old[n] = IF n = s THEN [nodes[s] EXCEPT !.kids = Append(@, k)]
                                          ELSE nodes[n]
  <2> TAKE n \in NodeIds
  <2>1. n \in DOMAIN nodes
    BY <1>1 DEF NodeIds
  <2> QED
    BY ONLY <2>1
<1>5. nodes' = Append(old, new)
  OBVIOUS
<1> HIDE DEF old
<1>6. /\ nodes' \in Seq(NodeRec) /\ Len(nodes') = k /\ nodes'[k] = new
      /\ \A n \in NodeIds : nodes'[n] = old[n]
  <2>1. old \in Seq(NodeRec) /\ new \in NodeRec /\ Len(old) = Len(nodes)
        /\ Len(nodes) \in Nat /\ k = Len(old) + 1
    BY <1>1, <1>3
  <2>2. Append(old, new) \in Seq(NodeRec) /\ Len(Append(old, new)) = k
    BY ONLY <2>1
  <2>3. Append(old, new)[k] = new /\ \A n \in 1..Len(nodes) : Append(old, new)[n] = old[n]
    BY ONLY <2>1
  <2> QED
    BY ONLY <1>5, <2>2, <2>3 DEF NodeIds
<1>7. \A n \in NodeIds :
        /\ nodes'[n].word = nodes[n].word /\ nodes'[n].depth = nodes[n].depth
        /\ nodes'[n].tail = nodes[n].tail
        /\ nodes'[n].kids = IF n = s THEN Append(nodes[n].kids, k) ELSE nodes[n].kids
  <2> TAKE n \in NodeIds
  <2>1. nodes'[n] = IF n = s THEN [nodes[n] EXCEPT !.kids = Append(@, k)] ELSE nodes[n]
    BY <1>4, <1>6
  <2>2. nodes[n] \in NodeRec
    BY TreeTypes
  <2> QED
    BY ONLY <2>1, <2>2 DEF NodeRec
<1>8. NodeIds' = NodeIds \union {k}
  <2>1. NodeIds' = 1..k /\ NodeIds = 1..(k - 1)
    BY <1>1, <1>6 DEF NodeIds
  <2> QED
    BY <1>1, <2>1
<1>9. \A n \in NodeIds : Kids(n)' = IF n = s THEN Append(Kids(n), k) ELSE Kids(n)
  BY <1>7 DEF Kids
<1>10. Kids(k)' = <<>>
  <2>1. nodes'[k].kids = <<>>
    BY <1>6
  <2> QED
    BY ONLY <2>1 DEF Kids
<1>11. \A n \in NodeIds : Kids(n) \in Seq(Nat)
  BY TreeTypes
<1>12. \A n \in NodeIds :
         /\ \A j \in DOMAIN Kids(n) : j \in DOMAIN Kids(n)' /\ Kids(n)'[j] = Kids(n)[j]
         /\ \A j \in DOMAIN Kids(n)' :
              \/ j \in DOMAIN Kids(n) /\ Kids(n)'[j] = Kids(n)[j]
              \/ n = s /\ j = Len(Kids(s)) + 1 /\ Kids(n)'[j] = k
         /\ n = s => /\ Len(Kids(n)) + 1 \in DOMAIN Kids(n)'
                     /\ Kids(n)'[Len(Kids(n)) + 1] = k
  <2> TAKE n \in NodeIds
  <2>1. Kids(n) \in Seq(Nat) /\ k \in Nat
    BY <1>1, <1>11
  <2>2. CASE n = s
    <3>1. Kids(n)' = Append(Kids(n), k)
      BY <1>9, <2>2
    <3> QED
      BY ONLY <2>1, <2>2, <3>1
  <2>3. CASE n # s
    BY <1>9, <2>3
  <2> QED
    BY <2>2, <2>3
<1>13. GrownKids(s, k)
  <2> QED
    <3>1. \A n \in NodeIds' : n \in NodeIds \/ n = k
      BY <1>8
    <3>2. DOMAIN Kids(k)' = {}
      BY <1>10
    <3> QED
      BY ONLY <1>12, <3>1, <3>2, s \in NodeIds DEF GrownKids
<1> QED
  BY <1>6, <1>7, <1>13

LEMMA NodeMade ==
  ASSUME NEW path, Insertions(path), NewNode
  PROVE  \E q : Insertions(q)'
<1>1. /\ Inserting /\ op.at <= Len(op.pattern) /\ Child(op.search, Next1) = Null
      /\ inserted' = inserted
  BY DEF NewNode
<1>2. CASE Len(Kids(op.search)) = MaxChild
  <2>1. op' = [op EXCEPT !.phase = "overrun"] /\ UNCHANGED <<nodes, total, inserted>>
    BY <1>2 DEF NewNode
  <2> QED
    BY <2>1, Returned
<1>3. CASE Len(Kids(op.search)) # MaxChild
  <2>0. PICK s, k, w, p, a, new :
         /\ s = op.search /\ k = Len(nodes) + 1 /\ w = Next1 /\ p = op.pattern /\ a = op.at
         /\ new = [word |-> w, kids |-> <<>>, tail |-> FALSE, depth |-> nodes[s].depth + 1]
    OBVIOUS
  <2>1. /\ nodes' = Append([nodes EXCEPT ![s].kids = Append(@, k)], new)
        /\ total' = total + 1 /\ op' = [op EXCEPT !.at = @ + 1, !.search = k]
    BY <1>3, <2>0 DEF NewNode, Counted
  <2>2. Tree(path) /\ inserted = Ends(path)
    BY DEF Insertions
  <2>3. /\ p \in Patterns /\ a \in 1..Len(p) /\ s \in NodeIds /\ w \in Words
        /\ SubSeq(p, 1, a) = Append(path[s], w)
        /\ op = [name |-> "insert", phase |-> "busy", pattern |-> p, at |-> a, search |-> s]
    BY <1>1, <2>0, InsertPlace
  <2>4. \A m \in NodeIds : path[m] # Append(path[s], w)
    <3>1. Child(s, w) \notin NodeIds
      BY <1>1, <2>0, <2>2, TreeTypes DEF NodeIds, Null
    <3> QED
      BY <2>2, <2>3, <3>1, ChildFound
  <2>5. new \in NodeRec /\ new.kids = <<>> /\ new.word = w /\ ~new.tail
        /\ new.depth = nodes[s].depth + 1
    <3> DEFINE d == nodes[s].depth + 1
    <3>1. d \in Nat /\ w \in Words
      <4>1. nodes[s].depth \in Nat
        BY ONLY <2>2, <2>3, TreeTypes
      <4> QED
        BY ONLY <2>3, <4>1
    <3>2. new = [word |-> w, kids |-> <<>>, tail |-> FALSE, depth |-> d]
      BY <2>0
    <3>3. <<>> \in Seq(Nat) /\ d = nodes[s].depth + 1
      OBVIOUS
    <3> HIDE DEF d
    <3>4. /\ new.word = w /\ new.kids = <<>> /\ new.tail = FALSE /\ new.depth = d
      BY ONLY <3>2
    <3>5. new \in NodeRec
      <4>1. w \in Words \union {NoWord}
        BY ONLY <3>1
      <4> QED
        BY ONLY <3>1, <3>2, <3>3, <4>1 DEF NodeRec
    <3> QED
      BY ONLY <3>3, <3>4, <3>5
  <2>6. path[s] \in Seq(Words) /\ k \in Nat /\ k - 1 = Len(nodes) /\ total = k - 2
        /\ nodes[s].depth = Len(path[s])
    BY <2>0, <2>2, <2>3, TreeTypes DEF Tree
  <2>7. /\ nodes' \in Seq(NodeRec) /\ Len(nodes') = k
        /\ nodes'[k] = new /\ GrownKids(s, k)
        /\ \A n \in NodeIds :
             /\ nodes'[n].word = nodes[n].word /\ nodes'[n].depth = nodes[n].depth
             /\ nodes'[n].tail = nodes[n].tail
    <3>1. k = Len(nodes) + 1 /\ new.kids = <<>> /\ new \in NodeRec /\ s \in NodeIds
          /\ nodes' = Append([nodes EXCEPT ![s].kids = Append(@, k)], new)
      BY <2>0, <2>1, <2>3, <2>5
    <3> QED
      BY ONLY <2>2, <3>1, NodesGrown
  <2>8. NodeIds' = NodeIds \union {k} /\ k \notin NodeIds /\ Made' = Made \union {k}
        /\ \A n \in NodeIds : n \in Nat /\ n < k
    <3>1. NodeIds' = 1..k /\ NodeIds = 1..(k - 1) /\ Made = 2..(k - 1) /\ Made' = 2..k /\ k >= 2
      BY <2>2, <2>6, <2>7, TreeTypes DEF NodeIds, Made
    <3> QED
      BY <2>6, <3>1
  <2>9. PICK q : q = [n \in NodeIds' |-> IF n = k THEN Append(path[s], w) ELSE path[n]]
    OBVIOUS
  <2>10. /\ q \in [NodeIds' -> Seq(Words)] /\ q[k] = Append(path[s], w)
         /\ \A n \in NodeIds : q[n] = path[n]
    <3>1. path \in [NodeIds -> Seq(Words)] /\ Append(path[s], w) \in Seq(Words)
      BY <2>2, <2>3, <2>6 DEF Tree
    <3>2. k \in NodeIds' /\ \A n \in NodeIds' : n \in NodeIds \/ n = k
      BY ONLY <2>8
    <3>3. q[k] = Append(path[s], w)
      BY ONLY <2>9, <3>2
    <3>4. \A n \in NodeIds : n \in NodeIds' /\ n # k
      BY ONLY <2>8
    <3>5. \A n \in NodeIds : q[n] = path[n]
      BY ONLY <2>9, <3>4
    <3>6. \A n \in NodeIds' : q[n] \in Seq(Words)
      BY ONLY <3>1, <3>2, <3>3, <3>5
    <3>7. q \in [NodeIds' -> Seq(Words)]
      BY ONLY <2>9, <3>6
    <3> QED
      BY ONLY <3>3, <3>5, <3>7
  <2>11. Tree(q)'
    <3>1. /\ nodes' \in Seq(NodeRec) /\ Len(nodes') >= 1 /\ total' = Len(nodes') - 1
          /\ q \in [NodeIds' -> Seq(Words)] /\ q[Root] = <<>>
      <4>1. Root \in NodeIds /\ path[Root] = <<>>
        <5>1. path[Root] = <<>>
          BY ONLY <2>2 DEF Tree
        <5> QED
          BY ONLY <2>2, <5>1, TreeTypes
      <4>2. q[Root] = <<>>
        BY ONLY <2>10, <4>1
      <4>3. Len(nodes') >= 1 /\ total' = Len(nodes') - 1
        BY ONLY <2>0, <2>1, <2>6, <2>7
      <4> QED
        BY ONLY <2>7, <2>10, <4>2, <4>3
    <3>2. \A n, m \in NodeIds' : q[n] = q[m] => n = m
      <4>1. \A n, m \in NodeIds : path[n] = path[m] => n = m
        BY <2>2 DEF Tree
      <4> QED
        BY ONLY <2>4, <2>8, <2>10, <4>1
    <3>3. \A n \in NodeIds' : nodes'[n].depth = Len(q[n])
      <4>1. nodes'[k].depth = Len(q[k])
        BY <2>3, <2>5, <2>6, <2>7, <2>10
      <4> QED
        BY <2>2, <2>7, <2>8, <2>10, <4>1 DEF Tree
    <3>4. \A n \in NodeIds' : \A j \in DOMAIN Kids(n)' :
            /\ Kids(n)'[j] \in (n + 1)..Len(nodes')
            /\ q[Kids(n)'[j]] = Append(q[n], nodes'[Kids(n)'[j]].word)
            /\ nodes'[Kids(n)'[j]].word \in Words
      <4> TAKE n \in NodeIds'
      <4> TAKE j \in DOMAIN Kids(n)'
      <4>1. CASE n \in NodeIds /\ j \in DOMAIN Kids(n) /\ Kids(n)'[j] = Kids(n)[j]
        <5> DEFINE c == Kids(n)[j]
        <5>1. /\ c \in (n + 1)..(k - 1) /\ path[c] = Append(path[n], nodes[c].word)
              /\ nodes[c].word \in Words /\ c \in NodeIds
          <6>1. /\ c \in (n + 1)..Len(nodes) /\ path[c] = Append(path[n], nodes[c].word)
                /\ nodes[c].word \in Words
            BY <2>2, <4>1 DEF Tree
          <6>2. c \in NodeIds
            BY <2>2, <4>1, TreeTypes
          <6> QED
            BY <2>6, <6>1, <6>2
        <5>2. n \in Nat /\ c \in (n + 1)..k
          BY <2>6, <2>8, <4>1, <5>1
        <5> QED
          BY <2>7, <2>10, <4>1, <5>1, <5>2
      <4>2. CASE n = s /\ Kids(n)'[j] = k
        <5>1. k \in (s + 1)..k
          BY <2>3, <2>6, <2>8
        <5> QED
          BY <2>3, <2>5, <2>7, <2>10, <4>2, <5>1
      <4> QED
        BY <2>7, <4>1, <4>2 DEF GrownKids
    <3>5. \A n, m \in NodeIds' : \A j \in DOMAIN Kids(n)', i \in DOMAIN Kids(m)' :
            Kids(n)'[j] = Kids(m)'[i] => n = m /\ j = i
      <4>1. \A n \in NodeIds : \A j \in DOMAIN Kids(n) : Kids(n)[j] # k
        BY <2>2, <2>8, TreeTypes
      <4>2. \A n, m \in NodeIds : \A j \in DOMAIN Kids(n), i \in DOMAIN Kids(m) :
              Kids(n)[j] = Kids(m)[i] => n = m /\ j = i
        BY <2>2 DEF Tree
      <4>3. \A n \in NodeIds' : \A j \in DOMAIN Kids(n)' :
              \/ n \in NodeIds /\ j \in DOMAIN Kids(n) /\ Kids(n)'[j] = Kids(n)[j]
              \/ n = s /\ j = Len(Kids(s)) + 1 /\ Kids(n)'[j] = k
        BY <2>7 DEF GrownKids
      <4> QED
        BY ONLY <4>1, <4>2, <4>3
    <3>6. \A n \in Made' : \E m \in NodeIds' : \E j \in DOMAIN Kids(m)' : Kids(m)'[j] = n
      <4>1. \A n \in Made : \E m \in NodeIds : \E j \in DOMAIN Kids(m) : Kids(m)[j] = n
        BY <2>2 DEF Tree
      <4>2. \A n \in NodeIds : \A j \in DOMAIN Kids(n) :
              j \in DOMAIN Kids(n)' /\ Kids(n)'[j] = Kids(n)[j]
        BY <2>7 DEF GrownKids
      <4>3. \E j \in DOMAIN Kids(s)' : Kids(s)'[j] = k
        BY <2>7 DEF GrownKids
      <4>4. ASSUME NEW n \in Made
            PROVE  \E m \in NodeIds' : \E j \in DOMAIN Kids(m)' : Kids(m)'[j] = n
        <5>1. PICK m \in NodeIds : \E j \in DOMAIN Kids(m) : Kids(m)[j] = n
          BY <4>1
        <5>2. PICK j \in DOMAIN Kids(m) : Kids(m)[j] = n
          BY <5>1
        <5>3. m \in NodeIds' /\ j \in DOMAIN Kids(m)' /\ Kids(m)'[j] = n
          BY <2>8, <4>2, <5>2
        <5> QED
          BY ONLY <5>3
      <4>5. s \in NodeIds'
        BY <2>3, <2>8
      <4>6. \A n \in Made' : n \in Made \/ n = k
        BY <2>8
      <4> QED
        BY ONLY <4>3, <4>4, <4>5, <4>6
    <3> QED
      BY <3>1, <3>2, <3>3, <3>4, <3>5, <3>6 DEF Tree
  <2>12. inserted' = Ends(q)'
    <3>1. {m \in NodeIds' : nodes'[m].tail} = {m \in NodeIds : nodes[m].tail}
      BY <2>5, <2>7, <2>8
    <3>2. Ends(q)' = {q[n] : n \in {m \in NodeIds' : nodes'[m].tail}}
      BY DEF Ends
    <3>3. \A n \in {m \in NodeIds : nodes[m].tail} : q[n] = path[n]
      BY <2>10
    <3>4. Ends(q)' = Ends(path)
      BY ONLY <3>1, <3>2, <3>3 DEF Ends
    <3> QED
      BY <1>1, <2>2, <3>4
  <2>13. op' = [name |-> "insert", phase |-> "busy", pattern |-> p, at |-> a + 1, search |-> k]
    BY ONLY <2>1, <2>3
  <2>14. InsertOK(q)' /\ OpShape'
    <3>1. a + 1 \in 1..(Len(p) + 1) /\ (a + 1) - 1 = a
      BY <2>3, PatternType
    <3> QED
      BY <2>3, <2>8, <2>10, <2>13, <3>1 DEF InsertOK, OpShape
  <2>15. Insertions(q)'
    BY <2>11, <2>12, <2>14 DEF Insertions
  <2> QED
    BY <2>15
<1> QED
  BY <1>2, <1>3
-----------------------------------------------------------------------------
(* The walks. The nodes on the stack, and the one about to come to it, are *)
(* different and none is the root: the stack was made for one fewer than   *)
(* there are nodes, so it is never full when one comes.                    *)

LEMMA MadeCount ==
  ASSUME NEW path, Tree(path), NEW n \in Nat, NEW f \in [1..n -> Made],
         \A i, j \in 1..n : f[i] = f[j] => i = j
  PROVE  n <= total /\ total \in Nat
<1>1. Len(nodes) \in Nat /\ Len(nodes) >= 1 /\ total = Len(nodes) - 1
  BY TreeTypes DEF Tree
<1>2. IsFiniteSet(Made) /\ Cardinality(Made) = total
  <2>1. IsFiniteSet(2..Len(nodes))
        /\ Cardinality(2..Len(nodes)) = IF 2 > Len(nodes) THEN 0 ELSE Len(nodes) - 2 + 1
    <3>1. 2 \in Int /\ Len(nodes) \in Int
      BY <1>1
    <3> QED
      BY ONLY <3>1, FS_Interval
  <2> QED
    BY <1>1, <2>1 DEF Made
<1>3. f \in Injection(1..n, Made)
  BY DEF Injection, IsInjective
<1>4. Cardinality(1..n) <= Cardinality(Made)
  BY <1>2, <1>3, FS_Injection
<1>5. Cardinality(1..n) = n
  <2>1. Cardinality(1..n) = IF 1 > n THEN 0 ELSE n - 1 + 1
    BY FS_Interval
  <2> QED
    BY <2>1
<1> QED
  BY <1>1, <1>2, <1>4, <1>5

OnStack(s) == {s.cells[i] : i \in 0..(s.prod - 1)}
Apart(s) == \A i, j \in 0..(s.prod - 1) : s.cells[i] = s.cells[j] => i = j

\* The children of n come to the stack: they find room on it.
LEMMA KidsPushed ==
  ASSUME NEW path, Tree(path), NEW s, StackShape(s), s.total = total,
         Apart(s), OnStack(s) \subseteq Made,
         NEW n \in NodeIds, \A j \in DOMAIN Kids(n) : Kids(n)[j] \notin OnStack(s)
  PROVE  LET r == Pushed(s, Kids(n))
         IN  /\ StackShape(r) /\ r.total = total /\ Apart(r)
             /\ r.prod = s.prod + Len(Kids(n))
             /\ OnStack(r) = OnStack(s) \union ToSet(Kids(n))
             /\ \A i \in 0..(s.prod - 1) : r.cells[i] = s.cells[i]
             /\ \A i \in s.prod..(r.prod - 1) : r.cells[i] = Kids(n)[i - s.prod + 1]
<1> DEFINE list == Kids(n)
           k == Len(list)
           p == s.prod
<1>1. /\ list \in Seq(Nat) /\ k \in Nat /\ DOMAIN list = 1..k
      /\ \A j \in 1..k : list[j] \in Made /\ list[j] \notin OnStack(s)
  BY TreeTypes
<1>2. /\ s \in Stacks(total) /\ total \in Nat /\ p \in 0..total /\ s.avail \in 0..total
      /\ p = total - s.avail /\ ~s.refused
  BY DEF StackShape, Stacks
<1>0. p \in Nat /\ k \in Nat
  BY <1>1, <1>2
<1>3. \A i, j \in 1..k : list[i] = list[j] => i = j
  <2>1. \A i, j \in DOMAIN Kids(n) : Kids(n)[i] = Kids(n)[j] => i = j
    BY DEF Tree
  <2> QED
    BY <1>1, <2>1
<1> HIDE DEF list, k, p
<1> DEFINE f == [i \in 1..(p + k) |-> IF i <= p THEN s.cells[i - 1] ELSE list[i - p]]
<1>4. \A i \in 1..(p + k) :
        (i <= p => i - 1 \in 0..(p - 1)) /\ (~(i <= p) => i - p \in 1..k)
  BY ONLY <1>0
<1>5. \A i \in 0..(p - 1) : s.cells[i] \in OnStack(s) /\ s.cells[i] \in Made
  BY DEF OnStack, p
<1>6. f \in [1..(p + k) -> Made]
  <2> SUFFICES ASSUME NEW i \in 1..(p + k)
               PROVE  (IF i <= p THEN s.cells[i - 1] ELSE list[i - p]) \in Made
    OBVIOUS
  <2> QED
    BY <1>1, <1>4, <1>5
<1>7. \A i, j \in 1..(p + k) : f[i] = f[j] => i = j
  <2> TAKE i, j \in 1..(p + k)
  <2> HAVE f[i] = f[j]
  <2>0. i \in Int /\ j \in Int /\ p \in Int
    BY <1>1, <1>2
  <2>1. CASE i <= p /\ j <= p
    <3>1. s.cells[i - 1] = s.cells[j - 1] /\ i - 1 \in 0..(p - 1) /\ j - 1 \in 0..(p - 1)
      BY <1>4, <2>1
    <3>2. i - 1 = j - 1
      BY <3>1 DEF Apart, p
    <3> QED
      BY <2>0, <3>2
  <2>2. CASE i <= p /\ ~(j <= p)
    BY <1>1, <1>4, <1>5, <2>2
  <2>3. CASE ~(i <= p) /\ j <= p
    BY <1>1, <1>4, <1>5, <2>3
  <2>4. CASE ~(i <= p) /\ ~(j <= p)
    <3>1. list[i - p] = list[j - p] /\ i - p \in 1..k /\ j - p \in 1..k
      BY <1>4, <2>4
    <3>2. i - p = j - p
      BY <1>3, <3>1
    <3> QED
      BY <2>0, <3>2
  <2> QED
    BY <2>1, <2>2, <2>3, <2>4
<1>8. p + k <= total
  <2>1. p + k \in Nat
    BY <1>1, <1>2
  <2> HIDE DEF f
  <2> QED
    BY <1>6, <1>7, <2>1, MadeCount
<1> DEFINE r == Pushed(s, list)
<1>9. k <= s.avail
  BY <1>1, <1>2, <1>8
<1>10. /\ r \in Stacks(total)
       /\ r.prod = p + k /\ r.avail = s.avail - k /\ ~r.refused
       /\ \A i \in 0..(r.prod - 1) :
            r.cells[i] = IF i < p THEN s.cells[i] ELSE list[i - p + 1]
  BY <1>1, <1>2, <1>9, PushedAll DEF p, k
<1> HIDE DEF r
<1>11. StackShape(r) /\ r.total = total
  <2>1. r.total = total
    BY <1>10 DEF Stacks
  <2> QED
    BY <1>1, <1>2, <1>10, <2>1 DEF StackShape
<1>12. \A i \in 0..(p + k - 1) :
         i + 1 \in 1..(p + k) /\ r.cells[i] = f[i + 1]
  <2> TAKE i \in 0..(p + k - 1)
  <2>1. i + 1 \in 1..(p + k) /\ i \in Int /\ p \in Int /\ (i < p <=> i + 1 <= p)
        /\ (i + 1) - 1 = i /\ (i + 1) - p = i - p + 1
    BY ONLY <1>0, i \in 0..(p + k - 1)
  <2>2. r.cells[i] = IF i < p THEN s.cells[i] ELSE list[i - p + 1]
    BY ONLY <1>0, <1>10, i \in 0..(p + k - 1)
  <2> QED
    BY <2>1, <2>2
<1>13. Apart(r)
  <2> HIDE DEF f
  <2>1. ASSUME NEW i \in 0..(p + k - 1), NEW j \in 0..(p + k - 1),
               r.cells[i] = r.cells[j]
        PROVE  i = j
    <3>1. i + 1 = j + 1
      BY <1>7, <1>12, <2>1
    <3>2. i \in Int /\ j \in Int
      BY <1>0
    <3> QED
      BY <3>1, <3>2
  <2>2. r.prod = p + k
    BY <1>10
  <2> QED
    BY ONLY <1>0, <2>1, <2>2 DEF Apart
<1>14. \A i \in 0..(p - 1) : i \in 0..(p + k - 1) /\ r.cells[i] = s.cells[i]
  <2> TAKE i \in 0..(p - 1)
  <2>1. i \in 0..(p + k - 1) /\ i < p
    BY ONLY <1>0, i \in 0..(p - 1)
  <2> QED
    BY ONLY <1>0, <1>10, <2>1
<1>15. \A i \in p..(p + k - 1) : i - p + 1 \in 1..k /\ r.cells[i] = list[i - p + 1]
  <2> TAKE i \in p..(p + k - 1)
  <2>1. i \in 0..(p + k - 1) /\ ~(i < p) /\ i - p + 1 \in 1..k
    BY ONLY <1>0, i \in p..(p + k - 1)
  <2> QED
    BY ONLY <1>0, <1>10, <2>1
<1>16. OnStack(r) = OnStack(s) \union ToSet(list)
  <2>1. ToSet(list) = {list[j] : j \in 1..k}
    BY <1>1 DEF ToSet
  <2>2. /\ OnStack(r) = {r.cells[i] : i \in 0..(p + k - 1)}
        /\ OnStack(s) = {s.cells[i] : i \in 0..(p - 1)}
    <3>1. r.prod = p + k
      BY <1>10
    <3> QED
      BY ONLY <1>0, <3>1 DEF OnStack, p
  <2>3. \A i \in 0..(p + k - 1) : i \in 0..(p - 1) \/ i \in p..(p + k - 1)
    BY ONLY <1>0
  <2>4. \A j \in 1..k : p + j - 1 \in p..(p + k - 1) /\ p + j - 1 \in 0..(p + k - 1)
                        /\ (p + j - 1) - p + 1 = j
    BY ONLY <1>0
  <2>5. \A j \in 1..k : r.cells[p + j - 1] = list[j]
    BY <1>15, <2>4
  <2> QED
    BY ONLY <1>0, <1>14, <1>15, <2>1, <2>2, <2>3, <2>4, <2>5
<1> QED
  <2>1. r.prod = p + k
    BY <1>10
  <2>2. /\ \A i \in 0..(p - 1) : r.cells[i] = s.cells[i]
        /\ \A i \in p..(r.prod - 1) : r.cells[i] = list[i - p + 1]
    BY ONLY <1>0, <1>14, <1>15, <2>1
  <2> QED
    BY ONLY <1>11, <1>13, <1>16, <2>1, <2>2 DEF r, list, p, k

LEMMA StackTaken ==
  ASSUME NEW s, StackShape(s), ~StackEmpty(s)
  PROVE  /\ s.prod \in Nat \ {0} /\ s.total \in Nat
         /\ StackTop(s) \in OnStack(s) /\ StackTop(s) = s.cells[s.prod - 1]
         /\ StackShape(Destack(s)) /\ Destack(s).total = s.total
         /\ Destack(s).prod = s.prod - 1 /\ Destack(s).cells = s.cells
<1>1. /\ s.total \in Nat /\ s \in Stacks(s.total) /\ s.prod = s.total - s.avail
      /\ s.avail # s.total /\ ~s.refused
  BY DEF StackShape, StackEmpty
<1>2. s.prod \in 0..s.total /\ s.avail \in 0..s.total
  BY <1>1 DEF Stacks
<1>3. s.prod \in Nat \ {0} /\ s.prod - 1 \in 0..(s.prod - 1)
  BY <1>1, <1>2
<1>4. StackTop(s) \in OnStack(s) /\ StackTop(s) = s.cells[s.prod - 1]
  BY <1>3 DEF StackTop, OnStack
<1> DEFINE r == Destack(s)
<1>5. /\ r \in Stacks(s.total) /\ r.prod = s.prod - 1 /\ r.avail = s.avail + 1
      /\ r.cells = s.cells /\ r.refused = s.refused
  BY <1>1, <1>3, DestackOne
<1> HIDE DEF r
<1>6. r.total = s.total
  BY <1>5 DEF Stacks
<1>7. r.prod = r.total - r.avail
  BY <1>1, <1>2, <1>5, <1>6
<1>8. StackShape(r)
  BY <1>1, <1>5, <1>6, <1>7 DEF StackShape
<1> QED
  BY <1>1, <1>3, <1>4, <1>5, <1>6, <1>8 DEF r

LEMMA EmptyStack ==
  ASSUME NEW s, StackShape(s), StackEmpty(s)
  PROVE  s.prod = 0 /\ OnStack(s) = {}
<1>1. s.prod = 0
  BY DEF StackShape, StackEmpty, Stacks
<1>2. 0..(s.prod - 1) = {}
  BY <1>1
<1> QED
  BY <1>1, <1>2 DEF OnStack

\* Every walk begins with the children of the root.
LEMMA FirstStack ==
  ASSUME NEW path, Tree(path)
  PROVE  LET r == Pushed(StackCreate(total), Kids(Root))
         IN  /\ StackShape(r) /\ r.total = total /\ Apart(r)
             /\ r.prod = Len(Kids(Root)) /\ OnStack(r) = ToSet(Kids(Root))
             /\ \A i \in 0..(r.prod - 1) : r.cells[i] = Kids(Root)[i + 1]
<1> DEFINE s == StackCreate(total)
           r == Pushed(s, Kids(Root))
<1>1. total \in Nat /\ Root \in NodeIds /\ Len(Kids(Root)) \in Nat
  BY TreeTypes DEF Tree
<1>2. /\ s.cells = [i \in 0..(total - 1) |-> 0] /\ s.top = 0 /\ s.prod = 0
      /\ s.avail = total /\ s.total = total /\ s.refused = FALSE
  BY DEF StackCreate, Nothing
<1>3. s \in Stacks(total)
  <2>1. s.cells \in [0..(total - 1) -> Nat]
    BY ONLY <1>2
  <2>2. total \in 0..total /\ 0 \in 0..total
    BY ONLY <1>1
  <2> QED
    BY ONLY <2>1, <2>2 DEF Stacks, StackCreate, Nothing
<1>4. StackShape(s)
  BY <1>1, <1>2, <1>3 DEF StackShape
<1>5. OnStack(s) = {} /\ Apart(s)
  <2>1. 0..(s.prod - 1) = {}
    BY <1>2
  <2> QED
    BY <2>1 DEF OnStack, Apart
<1> HIDE DEF s
<1>6. /\ StackShape(r) /\ r.total = total /\ Apart(r)
      /\ r.prod = s.prod + Len(Kids(Root))
      /\ OnStack(r) = OnStack(s) \union ToSet(Kids(Root))
      /\ \A i \in s.prod..(r.prod - 1) : r.cells[i] = Kids(Root)[i - s.prod + 1]
  BY <1>1, <1>2, <1>4, <1>5, KidsPushed
<1> HIDE DEF r
<1>7. \A i \in 0..(r.prod - 1) : r.cells[i] = Kids(Root)[i + 1]
  BY <1>2, <1>6
<1>8. r.prod = Len(Kids(Root)) /\ OnStack(r) = ToSet(Kids(Root))
  BY <1>1, <1>2, <1>5, <1>6
<1> QED
  BY <1>6, <1>7, <1>8 DEF r, s
-----------------------------------------------------------------------------
(* trie_path_entry, trie_each_entry_accord_hierarchy and trie_uinit: the   *)
(* nodes taken from the stack so far, with the root, are the set V.        *)

Shown(V, walk) == {n \in V \ {Root} : walk = "path_entry" => nodes[n].tail}

Visits(V, s) ==
  /\ s.total = total /\ Apart(s)
  /\ V \subseteq NodeIds /\ Root \in V /\ OnStack(s) \subseteq NodeIds \ V
  /\ \A m \in NodeIds : \A j \in DOMAIN Kids(m) :
       m \in V <=> Kids(m)[j] \in V \union OnStack(s)

Shows(V, called, walk) ==
  /\ called \in Seq(NodeIds) /\ ToSet(called) = Shown(V, walk)
  /\ \A j, k \in DOMAIN called : called[j] = called[k] => j = k
  /\ \A j, k \in DOMAIN called : called[k] \in ToSet(Kids(called[j])) => j < k

LEMMA KidOf ==
  ASSUME NEW path, Tree(path), NEW n \in NodeIds
  PROVE  /\ \A x : x \in ToSet(Kids(n)) <=> \E j \in DOMAIN Kids(n) : Kids(n)[j] = x
         /\ n \notin ToSet(Kids(n)) /\ ToSet(Kids(n)) \subseteq Made
<1>1. \A j \in DOMAIN Kids(n) : Kids(n)[j] \in Made /\ Kids(n)[j] > n
  BY TreeTypes
<1>2. n \in Nat
  BY TreeTypes
<1> QED
  BY <1>1, <1>2 DEF ToSet

LEMMA VisitsBegun ==
  ASSUME NEW path, Tree(path), NEW walk
  PROVE  /\ Visits({Root}, Pushed(StackCreate(total), Kids(Root)))
         /\ Shows({Root}, <<>>, walk)
<1> DEFINE r == Pushed(StackCreate(total), Kids(Root))
<1>1. r.total = total /\ Apart(r) /\ OnStack(r) = ToSet(Kids(Root))
  BY FirstStack
<1> HIDE DEF r
<1>2. Root \in NodeIds /\ \A n \in Made : n \in NodeIds /\ n # Root
  BY TreeTypes DEF Made, NodeIds, Root
<1>3. OnStack(r) \subseteq NodeIds \ {Root}
  BY <1>1, <1>2, KidOf
<1>4. ASSUME NEW m \in NodeIds, NEW j \in DOMAIN Kids(m)
      PROVE  m = Root <=> Kids(m)[j] \in {Root} \union OnStack(r)
  <2>1. Kids(m)[j] # Root
    BY <1>2, TreeTypes
  <2>2. Kids(m)[j] \in ToSet(Kids(Root)) <=> \E i \in DOMAIN Kids(Root) : Kids(Root)[i] = Kids(m)[j]
    BY <1>2, KidOf
  <2>3. \A i \in DOMAIN Kids(Root) : Kids(Root)[i] = Kids(m)[j] => m = Root
    BY <1>2 DEF Tree
  <2> QED
    BY <1>1, <2>1, <2>2, <2>3
<1>5. Visits({Root}, r)
  BY <1>1, <1>2, <1>3, <1>4 DEF Visits
<1>6. Shows({Root}, <<>>, walk)
  BY DEF Shows, Shown, ToSet
<1> QED
  BY <1>5, <1>6 DEF r

\* One node is taken, and its children come.
LEMMA VisitsOne ==
  ASSUME NEW path, Tree(path), NEW V, NEW s, Visits(V, s), StackShape(s), ~StackEmpty(s),
         NEW n, n = StackTop(s)
  PROVE  LET r == Pushed(Destack(s), Kids(n))
         IN  StackShape(r) /\ Visits(V \union {n}, r)
<1> DEFINE q == Destack(s)
           r == Pushed(q, Kids(n))
<1>1. /\ s.prod \in Nat \ {0} /\ n \in OnStack(s) /\ n = s.cells[s.prod - 1]
      /\ StackShape(q) /\ q.total = total /\ q.prod = s.prod - 1 /\ q.cells = s.cells
  BY StackTaken DEF Visits
<1> HIDE DEF q
<1>2. n \in NodeIds /\ n \notin V /\ n # Root /\ Apart(s) /\ Root \in V
  BY <1>1 DEF Visits
<1>3. OnStack(q) = OnStack(s) \ {n} /\ Apart(q)
  <2> DEFINE p == s.prod
  <2>1. p \in Nat \ {0} /\ q.prod = p - 1
    BY <1>1
  <2>2. \A i, j \in 0..(p - 1) : s.cells[i] = s.cells[j] => i = j
    BY <1>2 DEF Apart
  <2>3. OnStack(s) = {s.cells[i] : i \in 0..(p - 1)}
    BY DEF OnStack
  <2>4. OnStack(q) = {s.cells[i] : i \in 0..(p - 1 - 1)}
    BY <1>1 DEF OnStack
  <2> HIDE DEF p
  <2>5. /\ \A i \in 0..(p - 1 - 1) : i \in 0..(p - 1) /\ i # p - 1
        /\ \A i \in 0..(p - 1) : i # p - 1 => i \in 0..(p - 1 - 1)
        /\ p - 1 \in 0..(p - 1)
    BY ONLY <2>1
  <2>6. n = s.cells[p - 1]
    BY <1>1 DEF p
  <2>7. OnStack(q) = OnStack(s) \ {n}
    BY ONLY <2>2, <2>3, <2>4, <2>5, <2>6
  <2>8. Apart(q)
    BY ONLY <1>1, <2>1, <2>2, <2>5 DEF Apart
  <2> QED
    BY <2>7, <2>8
<1>4. \A j \in DOMAIN Kids(n) : Kids(n)[j] \notin V \union OnStack(s)
  BY <1>2 DEF Visits
<1>5. OnStack(q) \subseteq Made
  <2>1. OnStack(s) \subseteq NodeIds \ V
    BY DEF Visits
  <2> QED
    BY <1>2, <1>3, <2>1, TreeTypes
<1>6. /\ StackShape(r) /\ r.total = total /\ Apart(r)
      /\ OnStack(r) = OnStack(q) \union ToSet(Kids(n))
  BY <1>1, <1>2, <1>3, <1>4, <1>5, KidsPushed
<1> HIDE DEF r
<1>7. OnStack(r) \subseteq NodeIds \ (V \union {n})
  <2>1. OnStack(s) \subseteq NodeIds \ V /\ Made \subseteq NodeIds
    BY TreeTypes DEF Visits, Made, NodeIds
  <2>2. \A x \in ToSet(Kids(n)) : x \in Made /\ x # n /\ x \notin V
    BY <1>2, <1>4, KidOf
  <2> QED
    BY ONLY <1>3, <1>6, <2>1, <2>2
<1>8. ASSUME NEW m \in NodeIds, NEW j \in DOMAIN Kids(m)
      PROVE  m \in V \union {n} <=> Kids(m)[j] \in (V \union {n}) \union OnStack(r)
  <2>1. m \in V <=> Kids(m)[j] \in V \union OnStack(s)
    BY DEF Visits
  <2>2. (V \union {n}) \union OnStack(r) = (V \union OnStack(s)) \union ToSet(Kids(n))
    BY <1>1, <1>3, <1>6
  <2>3. Kids(m)[j] \in ToSet(Kids(n)) <=> m = n
    <3>1. Kids(m)[j] \in ToSet(Kids(n)) <=> \E i \in DOMAIN Kids(n) : Kids(n)[i] = Kids(m)[j]
      BY <1>2, KidOf
    <3>2. \A i \in DOMAIN Kids(n) : Kids(n)[i] = Kids(m)[j] => n = m
      BY <1>2 DEF Tree
    <3> QED
      BY <3>1, <3>2
  <2> QED
    BY ONLY <2>1, <2>2, <2>3
<1> QED
  BY <1>1, <1>2, <1>6, <1>7, <1>8 DEF Visits, r, q

LEMMA ShowsOne ==
  ASSUME NEW path, Tree(path), NEW V, NEW s, Visits(V, s), NEW n \in OnStack(s),
         NEW called, NEW walk, Shows(V, called, walk)
  PROVE  /\ walk = "path_entry" /\ ~nodes[n].tail => Shows(V \union {n}, called, walk)
         /\ ~(walk = "path_entry" /\ ~nodes[n].tail) => Shows(V \union {n}, Append(called, n), walk)
<1>1. n \in NodeIds /\ n \notin V /\ n # Root /\ \A m \in V : m \in NodeIds
  BY DEF Visits
<1>2. CASE walk = "path_entry" /\ ~nodes[n].tail
  <2>1. Shown(V \union {n}, walk) = Shown(V, walk)
    BY <1>2 DEF Shown
  <2> QED
    BY <1>2, <2>1 DEF Shows
<1>3. CASE ~(walk = "path_entry" /\ ~nodes[n].tail)
  <2>1. Shown(V \union {n}, walk) = Shown(V, walk) \union {n}
    BY <1>1, <1>3 DEF Shown
  <2> DEFINE l == Len(called)
             c == Append(called, n)
  <2>2. called \in Seq(NodeIds) /\ l \in Nat /\ DOMAIN called = 1..l
    BY DEF Shows
  <2>3. c \in Seq(NodeIds) /\ DOMAIN c = 1..(l + 1) /\ c[l + 1] = n /\ \A j \in 1..l : c[j] = called[j]
    BY <1>1, <2>2
  <2> HIDE DEF c, l
  <2>4. \A j \in 1..(l + 1) : j \in 1..l \/ j = l + 1
    BY ONLY <2>2
  <2>5. ToSet(called) = {called[j] : j \in 1..l} /\ ToSet(c) = {c[j] : j \in 1..(l + 1)}
    BY <2>2, <2>3 DEF ToSet
  <2>6. l + 1 \in 1..(l + 1) /\ \A j \in 1..l : j \in 1..(l + 1) /\ j < l + 1 /\ ~(l + 1 < j)
    BY ONLY <2>2
  <2>7. ToSet(c) = ToSet(called) \union {n}
    BY ONLY <2>3, <2>4, <2>5, <2>6
  <2>8. \A j \in 1..l : called[j] \in V /\ called[j] \in NodeIds
    <3>1. \A j \in 1..l : called[j] \in Shown(V, walk)
      BY <2>5 DEF Shows
    <3> QED
      BY <1>1, <3>1 DEF Shown
  <2>9. \A j, k \in DOMAIN c : c[j] = c[k] => j = k
    <3>1. \A j, k \in 1..l : called[j] = called[k] => j = k
      BY <2>2 DEF Shows
    <3> QED
      BY ONLY <1>1, <2>3, <2>4, <2>8, <3>1
  <2>10. \A j, k \in DOMAIN c : c[k] \in ToSet(Kids(c[j])) => j < k
    <3>1. \A j, k \in 1..l : called[k] \in ToSet(Kids(called[j])) => j < k
      BY <2>2 DEF Shows
    <3>2. n \notin ToSet(Kids(n))
      BY <1>1, KidOf
    <3>3. \A k \in 1..l : called[k] \notin ToSet(Kids(n))
      <4>1. \A j \in DOMAIN Kids(n) : Kids(n)[j] \notin V
        BY <1>1 DEF Visits
      <4> QED
        BY <1>1, <2>8, <4>1, KidOf
    <3> QED
      BY ONLY <2>3, <2>4, <2>6, <3>1, <3>2, <3>3
  <2>11. Shows(V \union {n}, c, walk)
    BY <2>1, <2>3, <2>7, <2>9, <2>10 DEF Shows
  <2> QED
    BY <1>3, <2>11 DEF c
<1> QED
  BY <1>2, <1>3

\* When the stack is empty, every node was visited: a first one that was not
\* would be the child of one that was.
LEMMA VisitsAll ==
  ASSUME NEW path, Tree(path), NEW V, NEW s, Visits(V, s), OnStack(s) = {}
  PROVE  V = NodeIds
<1>1. SUFFICES ASSUME V # NodeIds
               PROVE  FALSE
  OBVIOUS
<1>2. NodeIds \ V # {} /\ NodeIds \ V \subseteq Nat
  BY <1>1, TreeTypes DEF Visits
<1>3. PICK n \in NodeIds \ V : \A m \in NodeIds \ V : n <= m
  BY <1>2, LeastNat
<1>4. n \in Made /\ n \in Nat
  BY TreeTypes DEF Visits
<1>5. PICK m \in NodeIds : \E j \in DOMAIN Kids(m) : Kids(m)[j] = n
  BY <1>4 DEF Tree
<1>6. PICK j \in DOMAIN Kids(m) : Kids(m)[j] = n
  BY <1>5
<1>7. n > m /\ m \in Nat
  BY <1>6, TreeTypes
<1>8. m \in V
  <2>1. m \notin NodeIds \ V
    BY <1>3, <1>4, <1>7
  <2> QED
    BY <2>1
<1>9. n \in V
  BY <1>6, <1>8 DEF Visits
<1> QED
  BY <1>9

LEMMA ElementsCounted ==
  ASSUME NEW S, NEW s \in Seq(S), \A j, k \in DOMAIN s : s[j] = s[k] => j = k
  PROVE  Len(s) = Cardinality(ToSet(s))
<1>1. Len(s) \in Nat /\ DOMAIN s = 1..Len(s)
  OBVIOUS
<1>2. IsFiniteSet(1..Len(s)) /\ Cardinality(1..Len(s)) = Len(s)
  <2>1. /\ IsFiniteSet(1..Len(s))
        /\ Cardinality(1..Len(s)) = IF 1 > Len(s) THEN 0 ELSE Len(s) - 1 + 1
    <3>1. 1 \in Int /\ Len(s) \in Int
      BY <1>1
    <3> QED
      BY ONLY <3>1, FS_Interval
  <2> QED
    BY <1>1, <2>1
<1>3. s \in Bijection(1..Len(s), ToSet(s))
  <2>1. s \in [1..Len(s) -> ToSet(s)]
    BY <1>1 DEF ToSet
  <2>2. \A t \in ToSet(s) : \E k \in 1..Len(s) : s[k] = t
    BY <1>1 DEF ToSet
  <2> QED
    BY <1>1, <2>1, <2>2 DEF Bijection, Injection, Surjection, IsInjective
<1>4. ExistsBijection(1..Len(s), ToSet(s))
  BY <1>3 DEF ExistsBijection
<1> QED
  BY <1>2, <1>4, FS_Bijection
-----------------------------------------------------------------------------
(* trie_path_list. On the stack are the first b children of the root and,  *)
(* above the last of them, a way down to the node it is at; index holds    *)
(* the places of the way's nodes among their parents' children, data the   *)
(* words of the way. F are the nodes it is through with.                   *)

Ix(ix, d) == IF d < MaxDepth THEN ix[d] ELSE 0
Chain(s, b) == IF b = 0 THEN {} ELSE (b - 1)..(s.prod - 1)

ListTypes(s, ix, dt, b) ==
  /\ s.total = total /\ OnStack(s) \subseteq Made
  /\ ix \in [0..(MaxDepth - 1) -> Nat] /\ dt \in [1..MaxDepth -> Words \union {NoWord}]
  /\ b \in 0..Len(Kids(Root)) /\ b <= s.prod
  /\ IF b = 0 THEN s.prod = 0 ELSE s.prod - b + 1 <= MaxDepth

Layout(s, ix, b) ==
  /\ \A i \in 0..(b - 1) : s.cells[i] = Kids(Root)[i + 1]
  /\ \A i \in b..(s.prod - 1) :
       /\ Ix(ix, i - b + 1) \in DOMAIN Kids(s.cells[i - 1])
       /\ s.cells[i] = Kids(s.cells[i - 1])[Ix(ix, i - b + 1)]

Ways(path, s, dt, b) ==
  \A i \in Chain(s, b) :
    /\ nodes[s.cells[i]].depth = i - b + 2
    /\ \A d \in 1..(i - b + 1) : path[s.cells[i]][d] = dt[d]

Places(s, ix, b, F) ==
  /\ \A i \in Chain(s, b) : \A j \in DOMAIN Kids(s.cells[i]) :
       Kids(s.cells[i])[j] \in F
         <=> (j < Ix(ix, i - b + 2) \/ (i = s.prod - 1 /\ j = Ix(ix, i - b + 2)))
  /\ b # 0 => /\ Ix(ix, s.prod - b + 1) <= Len(Kids(s.cells[s.prod - 1]))
              /\ \A d \in (s.prod - b + 2)..(MaxDepth - 1) : ix[d] = 0

Through(s, b, F) ==
  /\ F \subseteq Made \ OnStack(s)
  /\ \A n \in F : \A j \in DOMAIN Kids(n) : Kids(n)[j] \in F
  /\ \A j \in (b + 1)..Len(Kids(Root)) : Kids(Root)[j] \in F
  /\ \A n \in Made \ F : (\A i \in Chain(s, b) : s.cells[i] # n)
                           => \A j \in DOMAIN Kids(n) : Kids(n)[j] \notin F

ListOK(path, s, ix, dt, b, F) ==
  /\ ListTypes(s, ix, dt, b) /\ Layout(s, ix, b) /\ Ways(path, s, dt, b)
  /\ Places(s, ix, b, F) /\ Through(s, b, F)

Listed(path, F, called) ==
  /\ called \in Seq(Seq(Words)) /\ ToSet(called) = {path[n] : n \in {m \in F : nodes[m].tail}}
  /\ \A j, k \in DOMAIN called : called[j] = called[k] => j = k

LEMMA DepthType == MaxDepth \in Nat /\ MaxDepth >= 1
  BY TrieAssumption

\* A child's way is its parent's and one word.
LEMMA KidWay ==
  ASSUME NEW path, Tree(path), NEW n \in NodeIds, NEW j \in DOMAIN Kids(n), NEW c, c = Kids(n)[j]
  PROVE  /\ c \in Made /\ c \in NodeIds /\ nodes[n].depth \in Nat
         /\ nodes[c].depth = nodes[n].depth + 1 /\ nodes[c].word \in Words
         /\ path[c][nodes[n].depth + 1] = nodes[c].word
         /\ \A d \in 1..nodes[n].depth : path[c][d] = path[n][d]
<1>1. c \in Made /\ c \in NodeIds /\ path[n] \in Seq(Words)
  BY TreeTypes
<1>2. /\ nodes[c].word \in Words /\ path[c] = Append(path[n], nodes[c].word)
      /\ nodes[n].depth = Len(path[n]) /\ nodes[c].depth = Len(path[c])
  BY <1>1 DEF Tree
<1> DEFINE w == nodes[c].word
           q == path[n]
<1>3. w \in Words /\ q \in Seq(Words) /\ path[c] = Append(q, w)
  BY <1>1, <1>2
<1> HIDE DEF w, q
<1>4. /\ Len(q) \in Nat /\ Len(Append(q, w)) = Len(q) + 1 /\ Append(q, w)[Len(q) + 1] = w
      /\ \A d \in 1..Len(q) : Append(q, w)[d] = q[d]
  BY ONLY <1>3
<1> QED
  BY ONLY <1>1, <1>2, <1>3, <1>4 DEF w, q

\* The nodes of the way, and below them the children of the root, by depth.
LEMMA StackDepths ==
  ASSUME NEW path, Tree(path), NEW s, NEW ix, NEW dt, NEW b, NEW F,
         StackShape(s), ~StackEmpty(s), ListOK(path, s, ix, dt, b, F)
  PROVE  /\ s.prod \in Nat \ {0} /\ b \in Nat \ {0} /\ b <= s.prod /\ b <= Len(Kids(Root))
         /\ Chain(s, b) = (b - 1)..(s.prod - 1) /\ s.prod - b + 1 <= MaxDepth
         /\ \A i \in 0..(s.prod - 1) :
              /\ s.cells[i] \in Made /\ s.cells[i] \in NodeIds /\ s.cells[i] \notin F
              /\ nodes[s.cells[i]].depth = IF i < b - 1 THEN 1 ELSE i - b + 2
<1>1. s.prod \in Nat \ {0}
  BY StackTaken
<1>2. /\ b \in 0..Len(Kids(Root)) /\ b <= s.prod /\ OnStack(s) \subseteq Made
      /\ IF b = 0 THEN s.prod = 0 ELSE s.prod - b + 1 <= MaxDepth
  BY DEF ListOK, ListTypes
<1>3. b \in Nat \ {0} /\ b <= Len(Kids(Root)) /\ Len(Kids(Root)) \in Nat
  <2>1. Len(Kids(Root)) \in Nat
    BY TreeTypes
  <2> QED
    BY <1>1, <1>2, <2>1
<1>4. Chain(s, b) = (b - 1)..(s.prod - 1)
  BY <1>3 DEF Chain
<1>5. ASSUME NEW i \in 0..(s.prod - 1)
      PROVE  /\ s.cells[i] \in Made /\ s.cells[i] \in NodeIds /\ s.cells[i] \notin F
             /\ nodes[s.cells[i]].depth = IF i < b - 1 THEN 1 ELSE i - b + 2
  <2>1. s.cells[i] \in OnStack(s)
    BY DEF OnStack
  <2>2. s.cells[i] \in Made /\ s.cells[i] \in NodeIds /\ s.cells[i] \notin F
    <3>1. F \subseteq Made \ OnStack(s)
      BY DEF ListOK, Through
    <3>2. \A n \in Made : n \in NodeIds
      BY TreeTypes DEF Made, NodeIds
    <3> QED
      BY <1>2, <2>1, <3>1, <3>2
  <2>3. CASE i < b - 1
    <3>1. i \in 0..(b - 1) /\ i + 1 \in 1..Len(Kids(Root))
      BY ONLY <1>1, <1>3, <2>3, i \in 0..(s.prod - 1)
    <3>2. s.cells[i] = Kids(Root)[i + 1]
      BY <3>1 DEF ListOK, Layout
    <3>3. Root \in NodeIds /\ nodes[Root].depth = 0 /\ i + 1 \in DOMAIN Kids(Root)
      <4>1. Root \in NodeIds /\ Kids(Root) \in Seq(Nat)
        BY TreeTypes
      <4>2. nodes[Root].depth = Len(path[Root]) /\ path[Root] = <<>>
        BY <4>1 DEF Tree
      <4> QED
        BY <3>1, <4>1, <4>2
    <3>4. nodes[s.cells[i]].depth = 0 + 1
      BY <3>2, <3>3, KidWay
    <3> QED
      BY <2>2, <2>3, <3>4
  <2>4. CASE ~(i < b - 1)
    <3>1. i \in (b - 1)..(s.prod - 1)
      BY ONLY <1>1, <1>3, <2>4, i \in 0..(s.prod - 1)
    <3>2. nodes[s.cells[i]].depth = i - b + 2
      BY <1>4, <3>1 DEF ListOK, Ways
    <3> QED
      BY <2>2, <2>4, <3>2
  <2> QED
    BY <2>3, <2>4
<1> QED
  BY <1>1, <1>2, <1>3, <1>4, <1>5

\* They are different nodes, and no other child of the one on top is there.
LEMMA StackApart ==
  ASSUME NEW path, Tree(path), NEW s, NEW ix, NEW dt, NEW b, NEW F,
         StackShape(s), ~StackEmpty(s), ListOK(path, s, ix, dt, b, F)
  PROVE  /\ Apart(s)
         /\ \A j \in DOMAIN Kids(s.cells[s.prod - 1]) :
              Kids(s.cells[s.prod - 1])[j] \notin OnStack(s)
<1> DEFINE p == s.prod
<1>1. /\ p \in Nat \ {0} /\ b \in Nat \ {0} /\ b <= p /\ b <= Len(Kids(Root))
      /\ \A i \in 0..(p - 1) :
           /\ s.cells[i] \in Made /\ s.cells[i] \in NodeIds
           /\ nodes[s.cells[i]].depth = IF i < b - 1 THEN 1 ELSE i - b + 2
  BY StackDepths
<1>2. Root \in NodeIds /\ Kids(Root) \in Seq(Nat) /\ Len(Kids(Root)) \in Nat
  BY TreeTypes
<1>3. \A i \in 0..(b - 1) : i + 1 \in DOMAIN Kids(Root) /\ s.cells[i] = Kids(Root)[i + 1]
  <2> TAKE i \in 0..(b - 1)
  <2>1. i + 1 \in 1..Len(Kids(Root))
    BY ONLY <1>1, <1>2, i \in 0..(b - 1)
  <2>2. s.cells[i] = Kids(Root)[i + 1]
    BY DEF ListOK, Layout
  <2> QED
    BY <1>2, <2>1, <2>2
<1> HIDE DEF p
<1>4. ASSUME NEW i \in 0..(p - 1), NEW j \in 0..(p - 1), s.cells[i] = s.cells[j]
      PROVE  i = j
  <2>0. i \in Int /\ j \in Int /\ i >= 0 /\ j >= 0
    BY ONLY <1>1, i \in 0..(p - 1), j \in 0..(p - 1)
  <2>1. (IF i < b - 1 THEN 1 ELSE i - b + 2) = (IF j < b - 1 THEN 1 ELSE j - b + 2)
    BY <1>1, <1>4
  <2>2. CASE i <= b - 1 /\ j <= b - 1
    <3>1. i \in 0..(b - 1) /\ j \in 0..(b - 1)
      BY ONLY <1>1, <2>0, <2>2
    <3>2. Kids(Root)[i + 1] = Kids(Root)[j + 1] /\ i + 1 \in DOMAIN Kids(Root) /\ j + 1 \in DOMAIN Kids(Root)
      BY <1>3, <1>4, <3>1
    <3>3. i + 1 = j + 1
      BY <1>2, <3>2 DEF Tree
    <3> QED
      BY ONLY <2>0, <3>3
  <2>3. CASE ~(i <= b - 1 /\ j <= b - 1)
    BY ONLY <1>1, <2>0, <2>1, <2>3
  <2> QED
    BY <2>2, <2>3
<1>5. Apart(s)
  BY <1>4 DEF Apart, p
<1>6. ASSUME NEW j \in DOMAIN Kids(s.cells[p - 1]), NEW i \in 0..(p - 1),
             s.cells[i] = Kids(s.cells[p - 1])[j]
      PROVE  FALSE
  <2>1. p - 1 \in 0..(p - 1) /\ ~(p - 1 < b - 1) /\ (p - 1) - b + 2 = p - b + 1
    BY ONLY <1>1
  <2>2. nodes[s.cells[p - 1]].depth = p - b + 1 /\ s.cells[p - 1] \in NodeIds
    BY ONLY <1>1, <2>1
  <2>3. nodes[s.cells[i]].depth = p - b + 1 + 1
    BY <1>6, <2>2, KidWay
  <2>4. (IF i < b - 1 THEN 1 ELSE i - b + 2) = p - b + 1 + 1
    BY <1>1, <2>3
  <2> QED
    BY ONLY <1>1, <2>4, i \in 0..(p - 1)
<1>7. \A j \in DOMAIN Kids(s.cells[p - 1]) : Kids(s.cells[p - 1])[j] \notin OnStack(s)
  BY <1>6 DEF OnStack, p
<1> QED
  BY <1>5, <1>7 DEF p

\* One more node comes to the stack, where there is room for it.
LEMMA OnePushed ==
  ASSUME NEW path, Tree(path), NEW s, StackShape(s), s.total = total,
         Apart(s), OnStack(s) \subseteq Made, NEW c \in Made, c \notin OnStack(s)
  PROVE  LET r == Enstack(s, c)
         IN  /\ StackShape(r) /\ r.total = total /\ r.prod = s.prod + 1
             /\ r.cells[s.prod] = c /\ \A i \in 0..(s.prod - 1) : r.cells[i] = s.cells[i]
             /\ OnStack(r) = OnStack(s) \union {c}
<1> DEFINE p == s.prod
<1>1. /\ s \in Stacks(total) /\ total \in Nat /\ p \in 0..total /\ s.avail \in 0..total
      /\ p = total - s.avail /\ ~s.refused /\ s.cells \in [0..(total - 1) -> Nat]
      /\ s.total = total
  BY DEF StackShape, Stacks
<1>2. p \in Nat
  BY <1>1
<1> HIDE DEF p
<1> DEFINE f == [i \in 1..(p + 1) |-> IF i <= p THEN s.cells[i - 1] ELSE c]
<1>3. \A i \in 1..(p + 1) : i <= p => i - 1 \in 0..(p - 1)
  BY ONLY <1>2
<1>4. \A i \in 0..(p - 1) : s.cells[i] \in OnStack(s) /\ s.cells[i] \in Made
  BY DEF OnStack, p
<1>5. f \in [1..(p + 1) -> Made]
  BY <1>3, <1>4
<1>6. \A i, j \in 1..(p + 1) : f[i] = f[j] => i = j
  <2> TAKE i, j \in 1..(p + 1)
  <2> HAVE f[i] = f[j]
  <2>0. i \in Int /\ j \in Int /\ (i <= p \/ i = p + 1) /\ (j <= p \/ j = p + 1)
    BY ONLY <1>2, i \in 1..(p + 1), j \in 1..(p + 1)
  <2>1. CASE i <= p /\ j <= p
    <3>1. s.cells[i - 1] = s.cells[j - 1] /\ i - 1 \in 0..(p - 1) /\ j - 1 \in 0..(p - 1)
      BY <1>3, <2>1
    <3>2. i - 1 = j - 1
      BY <3>1 DEF Apart, p
    <3> QED
      BY <2>0, <3>2
  <2>2. CASE i <= p /\ ~(j <= p)
    BY <1>3, <1>4, <2>2
  <2>3. CASE ~(i <= p) /\ j <= p
    BY <1>3, <1>4, <2>3
  <2>4. CASE ~(i <= p) /\ ~(j <= p)
    BY <2>0, <2>4
  <2> QED
    BY <2>1, <2>2, <2>3, <2>4
<1>7. p + 1 <= total
  <2>1. p + 1 \in Nat
    BY <1>2
  <2> HIDE DEF f
  <2> QED
    BY <1>5, <1>6, <2>1, MadeCount
<1> DEFINE r == Enstack(s, c)
<1>8. s.avail # 0 /\ p \in 0..(total - 1) /\ ~(p + 1 > total)
  BY <1>1, <1>2, <1>7
<1>9. c \in Nat
  BY DEF Made
<1>10. r \in Stacks(total)
  BY <1>1, <1>9, EnstackType
<1>11. /\ r.cells = [s.cells EXCEPT ![p] = c] /\ r.prod = p + 1 /\ r.avail = s.avail - 1
       /\ r.refused = s.refused
  BY <1>1, <1>8 DEF Enstack, NextProd, Stacks, p
<1> HIDE DEF r
<1>12. StackShape(r) /\ r.total = total
  <2>1. r.total = total
    BY <1>10 DEF Stacks
  <2> QED
    BY <1>1, <1>10, <1>11, <2>1 DEF StackShape
<1>13. r.cells[p] = c /\ \A i \in 0..(p - 1) : r.cells[i] = s.cells[i]
  <2>1. \A i \in 0..(p - 1) : i \in 0..(total - 1) /\ i # p
    BY ONLY <1>2, <1>7, <1>1
  <2> QED
    BY ONLY <1>1, <1>8, <1>11, <2>1
<1>14. OnStack(r) = OnStack(s) \union {c}
  <2>1. OnStack(r) = {r.cells[i] : i \in 0..(p + 1 - 1)}
    <3>1. r.prod = p + 1
      BY <1>11
    <3> QED
      BY ONLY <1>2, <3>1 DEF OnStack
  <2>2. OnStack(s) = {s.cells[i] : i \in 0..(p - 1)}
    BY DEF OnStack, p
  <2>3. /\ \A i \in 0..(p + 1 - 1) : i \in 0..(p - 1) \/ i = p
        /\ \A i \in 0..(p - 1) : i \in 0..(p + 1 - 1)
        /\ p \in 0..(p + 1 - 1)
    BY ONLY <1>2
  <2> QED
    BY ONLY <1>13, <2>1, <2>2, <2>3
<1> QED
  BY <1>11, <1>12, <1>13, <1>14 DEF r, p

LEMMA ListBegun ==
  ASSUME NEW path, Tree(path)
  PROVE  LET r == Pushed(StackCreate(total), Kids(Root))
         IN  /\ ListOK(path, r, NoIndex, NoData, Len(Kids(Root)), {})
             /\ Listed(path, {}, <<>>)
<1> DEFINE r == Pushed(StackCreate(total), Kids(Root))
           b == Len(Kids(Root))
<1>1. /\ r.total = total /\ r.prod = b /\ OnStack(r) = ToSet(Kids(Root))
      /\ \A i \in 0..(r.prod - 1) : r.cells[i] = Kids(Root)[i + 1]
  BY FirstStack
<1>2. Root \in NodeIds /\ Kids(Root) \in Seq(Nat) /\ b \in Nat /\ DOMAIN Kids(Root) = 1..b
  BY TreeTypes
<1> HIDE DEF r
<1>3. OnStack(r) \subseteq Made
  BY <1>1, <1>2, KidOf
<1>4. /\ NoIndex \in [0..(MaxDepth - 1) -> Nat]
      /\ NoData \in [1..MaxDepth -> Words \union {NoWord}]
      /\ \A d \in 0..(MaxDepth - 1) : NoIndex[d] = 0
  BY DEF NoIndex, NoData
<1>5. nodes[Root].depth = 0
  BY <1>2 DEF Tree
<1>6. \A d \in Nat : Ix(NoIndex, d) = 0
  <2> TAKE d \in Nat
  <2>1. d < MaxDepth => d \in 0..(MaxDepth - 1)
    BY DepthType
  <2> QED
    BY <1>4, <2>1 DEF Ix
<1>7. \A j \in 1..b : nodes[Kids(Root)[j]].depth = 1 /\ Kids(Root)[j] \in NodeIds
  <2> TAKE j \in 1..b
  <2>1. nodes[Kids(Root)[j]].depth = 0 + 1 /\ Kids(Root)[j] \in NodeIds
    BY <1>2, <1>5, KidWay
  <2> QED
    BY <2>1
<1>8. ListTypes(r, NoIndex, NoData, b)
  <2>1. b \in 0..Len(Kids(Root)) /\ b <= r.prod
        /\ IF b = 0 THEN r.prod = 0 ELSE r.prod - b + 1 <= MaxDepth
    BY <1>1, <1>2, DepthType
  <2> QED
    BY <1>1, <1>3, <1>4, <2>1 DEF ListTypes
<1>9. \A i \in Chain(r, b) : /\ b # 0 /\ i = b - 1 /\ i = r.prod - 1 /\ i - b + 2 = 1 /\ i - b + 1 = 0
                             /\ r.cells[i] = Kids(Root)[b] /\ b \in 1..b
  <2> TAKE i \in Chain(r, b)
  <2>1. b # 0 /\ i \in (b - 1)..(b - 1)
    BY <1>1 DEF Chain
  <2> HIDE DEF b
  <2>2. /\ i = b - 1 /\ i - b + 2 = 1 /\ i - b + 1 = 0 /\ i \in 0..(b - 1) /\ i + 1 = b
        /\ b \in 1..b
    BY ONLY <1>2, <2>1
  <2> QED
    BY <1>1, <2>1, <2>2
<1>10. Layout(r, NoIndex, b)
  <2>1. b..(b - 1) = {}
    BY <1>2
  <2> QED
    BY <1>1, <2>1 DEF Layout
<1>11. Ways(path, r, NoData, b)
  BY <1>7, <1>9 DEF Ways
<1>12. Places(r, NoIndex, b, {})
  <2>1. ASSUME NEW i \in Chain(r, b), NEW j \in DOMAIN Kids(r.cells[i])
        PROVE  ~(j < Ix(NoIndex, i - b + 2) \/ (i = r.prod - 1 /\ j = Ix(NoIndex, i - b + 2)))
    <3>1. Kids(r.cells[i]) \in Seq(Nat)
      BY <1>7, <1>9, TreeTypes
    <3>2. j \in Nat /\ j >= 1
      BY <3>1
    <3>3. Ix(NoIndex, i - b + 2) = 0
      BY <1>6, <1>9
    <3> QED
      BY ONLY <3>2, <3>3
  <2>2. ASSUME b # 0
        PROVE  /\ Ix(NoIndex, r.prod - b + 1) <= Len(Kids(r.cells[r.prod - 1]))
               /\ \A d \in (r.prod - b + 2)..(MaxDepth - 1) : NoIndex[d] = 0
    <3>1. b - 1 \in Chain(r, b) /\ r.prod - b + 1 = 1
      BY <1>1, <1>2, <2>2 DEF Chain
    <3>2. r.prod - 1 = b - 1 /\ r.cells[b - 1] = Kids(Root)[b] /\ b \in 1..b
      BY <1>9, <3>1
    <3>3. Len(Kids(r.cells[r.prod - 1])) \in Nat
      BY <1>7, <3>2, TreeTypes
    <3>4. Ix(NoIndex, r.prod - b + 1) = 0
      BY <1>6, <3>1
    <3>5. (r.prod - b + 2)..(MaxDepth - 1) \subseteq 0..(MaxDepth - 1)
      BY <1>1, <1>2, DepthType
    <3> QED
      BY <1>4, <3>3, <3>4, <3>5
  <2> QED
    BY <2>1, <2>2 DEF Places
<1>13. Through(r, b, {})
  BY <1>2 DEF Through
<1>14. Listed(path, {}, <<>>)
  BY DEF Listed, ToSet
<1> QED
  BY <1>8, <1>10, <1>11, <1>12, <1>13, <1>14 DEF ListOK, r, b

\* The node on top, and what is known of its place.
LEMMA ListTop ==
  ASSUME NEW path, Tree(path), NEW s, NEW ix, NEW dt, NEW b, NEW F,
         StackShape(s), ~StackEmpty(s), ListOK(path, s, ix, dt, b, F), NEW n, n = StackTop(s)
  PROVE  /\ n = s.cells[s.prod - 1] /\ n \in Made /\ n \in NodeIds /\ n \notin F
         /\ s.prod - 1 \in Chain(s, b)
         /\ nodes[n].depth = s.prod - b + 1 /\ nodes[n].depth \in 1..MaxDepth
         /\ nodes[n].word \in Words /\ path[n][nodes[n].depth] = nodes[n].word
         /\ Ix(ix, nodes[n].depth) <= Len(Kids(n)) /\ Ix(ix, nodes[n].depth) \in Nat
         /\ \A j \in DOMAIN Kids(n) : Kids(n)[j] \in F <=> j <= Ix(ix, nodes[n].depth)
<1> DEFINE p == s.prod
           d == p - b + 1
<1>1. /\ p \in Nat \ {0} /\ b \in Nat \ {0} /\ b <= p
      /\ Chain(s, b) = (b - 1)..(p - 1) /\ d <= MaxDepth
      /\ \A i \in 0..(p - 1) :
           /\ s.cells[i] \in Made /\ s.cells[i] \in NodeIds /\ s.cells[i] \notin F
           /\ nodes[s.cells[i]].depth = IF i < b - 1 THEN 1 ELSE i - b + 2
  BY StackDepths
<1>2. n = s.cells[p - 1]
  BY DEF StackTop
<1> HIDE DEF p
<1>3. /\ p - 1 \in 0..(p - 1) /\ ~(p - 1 < b - 1) /\ (p - 1) - b + 2 = d
      /\ p - 1 \in (b - 1)..(p - 1) /\ d \in Nat /\ d >= 1
  BY ONLY <1>1
<1>4. n \in Made /\ n \in NodeIds /\ n \notin F /\ nodes[n].depth = d
  BY <1>1, <1>2, <1>3
<1>5. d \in 1..MaxDepth
  BY <1>1, <1>3, DepthType
<1>6. nodes[n].word \in Words /\ path[n][d] = nodes[n].word
  <2>1. PICK m \in NodeIds : \E j \in DOMAIN Kids(m) : Kids(m)[j] = n
    BY <1>4 DEF Tree
  <2>2. PICK j \in DOMAIN Kids(m) : Kids(m)[j] = n
    BY <2>1
  <2>3. nodes[n].depth = nodes[m].depth + 1 /\ nodes[n].word \in Words
        /\ path[n][nodes[m].depth + 1] = nodes[n].word
    BY <2>2, KidWay
  <2> QED
    BY <1>4, <2>3
<1>7. Ix(ix, d) <= Len(Kids(n))
  BY <1>1, <1>2 DEF ListOK, Places, p
<1>8. Ix(ix, d) \in Nat
  <2>1. ix \in [0..(MaxDepth - 1) -> Nat]
    BY DEF ListOK, ListTypes
  <2>2. d < MaxDepth => d \in 0..(MaxDepth - 1)
    BY <1>3, DepthType
  <2> HIDE DEF d
  <2> QED
    BY <2>1, <2>2 DEF Ix
<1>9. ASSUME NEW j \in DOMAIN Kids(n)
      PROVE  Kids(n)[j] \in F <=> j <= Ix(ix, d)
  <2>0. \A i \in Chain(s, b) : \A k \in DOMAIN Kids(s.cells[i]) :
          Kids(s.cells[i])[k] \in F
            <=> (k < Ix(ix, i - b + 2) \/ (i = p - 1 /\ k = Ix(ix, i - b + 2)))
    BY DEF ListOK, Places, p
  <2>1. Kids(n)[j] \in F
          <=> (j < Ix(ix, (p - 1) - b + 2) \/ j = Ix(ix, (p - 1) - b + 2))
    BY ONLY <1>1, <1>2, <1>3, <2>0, j \in DOMAIN Kids(n)
  <2>2. j \in Nat
    BY <1>4, TreeTypes
  <2> QED
    BY <1>3, <1>8, <2>1, <2>2
<1> QED
  BY <1>1, <1>2, <1>3, <1>4, <1>5, <1>6, <1>7, <1>8, <1>9 DEF p

\* A turn that goes on to a child: it comes to the stack above its parent.
TurnsDown(path, s, ix, dt, b, F, n, d, k, r, jx, et) ==
  /\ Tree(path) /\ StackShape(s) /\ ~StackEmpty(s) /\ ListOK(path, s, ix, dt, b, F)
  /\ n = StackTop(s) /\ d = nodes[n].depth /\ d < MaxDepth
  /\ k = ix[d] + 1 /\ k <= Len(Kids(n))
  /\ r = Enstack(s, Kids(n)[k]) /\ jx = [ix EXCEPT ![d] = k]
  /\ et = [dt EXCEPT ![d] = nodes[n].word]

LEMMA ListDown ==
  ASSUME NEW path, NEW s, NEW ix, NEW dt, NEW b, NEW F, NEW n, NEW d, NEW k,
         NEW r, NEW jx, NEW et, TurnsDown(path, s, ix, dt, b, F, n, d, k, r, jx, et)
  PROVE  StackShape(r) /\ ListOK(path, r, jx, et, b, F)
<1>0. /\ Tree(path) /\ StackShape(s) /\ ~StackEmpty(s) /\ ListOK(path, s, ix, dt, b, F)
      /\ n = StackTop(s) /\ d = nodes[n].depth /\ d < MaxDepth
      /\ k = ix[d] + 1 /\ k <= Len(Kids(n))
      /\ r = Enstack(s, Kids(n)[k]) /\ jx = [ix EXCEPT ![d] = k]
      /\ et = [dt EXCEPT ![d] = nodes[n].word]
  BY DEF TurnsDown
<1> USE <1>0
<1> DEFINE p == s.prod
           c == Kids(n)[k]
<1>1. /\ p \in Nat \ {0} /\ b \in Nat \ {0} /\ b <= p
      /\ Chain(s, b) = (b - 1)..(p - 1)
      /\ \A i \in 0..(p - 1) :
           /\ s.cells[i] \in Made /\ s.cells[i] \in NodeIds /\ s.cells[i] \notin F
           /\ nodes[s.cells[i]].depth = IF i < b - 1 THEN 1 ELSE i - b + 2
  BY StackDepths
<1>2. /\ n = s.cells[p - 1] /\ n \in Made /\ n \in NodeIds /\ n \notin F
      /\ d = p - b + 1 /\ d \in 1..MaxDepth
      /\ nodes[n].word \in Words /\ path[n][d] = nodes[n].word
      /\ Ix(ix, d) <= Len(Kids(n)) /\ Ix(ix, d) \in Nat
      /\ \A j \in DOMAIN Kids(n) : Kids(n)[j] \in F <=> j <= Ix(ix, d)
  BY ListTop
<1>3. /\ Ix(ix, d) = ix[d] /\ ix[d] \in Nat /\ k \in Nat /\ k >= 1 /\ d \in 0..(MaxDepth - 1)
      /\ MaxDepth \in Nat /\ d \in Nat /\ d >= 1
  <2>1. ix \in [0..(MaxDepth - 1) -> Nat] /\ MaxDepth \in Nat /\ d \in 1..MaxDepth
    BY <1>2, DepthType DEF ListOK, ListTypes
  <2>2. d \in 0..(MaxDepth - 1) /\ d \in Nat /\ d >= 1
    BY ONLY <2>1, d < MaxDepth
  <2>3. ix[d] \in Nat
    BY ONLY <2>1, <2>2
  <2>4. Ix(ix, d) = ix[d]
    BY ONLY d < MaxDepth DEF Ix
  <2> QED
    BY ONLY <2>1, <2>2, <2>3, <2>4, k = ix[d] + 1
<1>4. k \in DOMAIN Kids(n)
  <2>1. Kids(n) \in Seq(Nat)
    BY <1>2, TreeTypes
  <2> QED
    BY <1>3, <2>1
<1>5. /\ c \in Made /\ c \in NodeIds /\ nodes[c].depth = d + 1
      /\ path[c][d + 1] = nodes[c].word /\ \A e \in 1..d : path[c][e] = path[n][e]
  <2>1. c = Kids(n)[k] /\ d = nodes[n].depth
    OBVIOUS
  <2> HIDE DEF c
  <2>2. /\ c \in Made /\ c \in NodeIds
        /\ nodes[c].depth = nodes[n].depth + 1
        /\ path[c][nodes[n].depth + 1] = nodes[c].word
        /\ \A e \in 1..nodes[n].depth : path[c][e] = path[n][e]
    <3>1. Tree(path) /\ n \in NodeIds /\ k \in DOMAIN Kids(n)
      BY ONLY <1>2, <1>4, Tree(path)
    <3> QED
      BY ONLY <2>1, <3>1, KidWay
  <2> QED
    BY ONLY <2>1, <2>2
<1>6. c \notin F
  <2>1. c \in F <=> k <= Ix(ix, d)
    BY <1>2, <1>4
  <2> QED
    BY ONLY <1>3, <2>1, k = ix[d] + 1
<1>7. Apart(s) /\ c \notin OnStack(s)
  BY <1>2, <1>4, StackApart DEF p
<1>8. s.total = total /\ OnStack(s) \subseteq Made
  BY DEF ListOK, ListTypes
<1> HIDE DEF c
<1>9. /\ StackShape(r) /\ r.total = total /\ r.prod = p + 1
      /\ r.cells[p] = c /\ \A i \in 0..(p - 1) : r.cells[i] = s.cells[i]
      /\ OnStack(r) = OnStack(s) \union {c}
  <2>1. r = Enstack(s, c)
    BY DEF c
  <2> QED
    BY <1>5, <1>7, <1>8, <2>1, OnePushed DEF p
<1> HIDE DEF p
<1>10. /\ ix \in [0..(MaxDepth - 1) -> Nat] /\ dt \in [1..MaxDepth -> Words \union {NoWord}]
       /\ b \in 0..Len(Kids(Root))
  BY DEF ListOK, ListTypes
<1>11. /\ jx \in [0..(MaxDepth - 1) -> Nat] /\ et \in [1..MaxDepth -> Words \union {NoWord}]
       /\ jx[d] = k /\ et[d] = nodes[n].word
       /\ \A e \in 0..(MaxDepth - 1) : e # d => jx[e] = ix[e]
       /\ \A e \in 1..MaxDepth : e # d => et[e] = dt[e]
  BY <1>2, <1>3, <1>10
<1>12. /\ \A e \in 1..(d - 1) : Ix(jx, e) = Ix(ix, e) /\ et[e] = dt[e]
       /\ Ix(jx, d) = k
  <2>1. \A e \in 1..(d - 1) : e # d /\ e \in 0..(MaxDepth - 1) /\ e \in 1..MaxDepth
    BY ONLY <1>3
  <2> QED
    BY ONLY <1>3, <1>11, <2>1, d < MaxDepth DEF Ix
<1>13. \A i \in (b - 1)..(p - 2) : /\ i \in 0..(p - 1) /\ i \in (b - 1)..(p - 1) /\ i # p - 1 /\ i # p
                                   /\ i - b + 2 \in 1..(d - 1)
  BY ONLY <1>1, <1>2
<1>14. /\ (p - 1) - b + 2 = d /\ (p - 1) - b + 1 = d - 1 /\ p - b + 2 = d + 1 /\ p - b + 1 = d
       /\ p - 1 \in 0..(p - 1) /\ p - 1 \in (b - 1)..(p - 1) /\ p + 1 - 1 = p
       /\ p + 1 - b + 1 = d + 1 /\ p + 1 - b + 2 = d + 2 /\ d # p - 2 - b + 2
  BY ONLY <1>1, <1>2
<1>15. Ix(ix, d + 1) = 0 /\ Ix(jx, d + 1) = 0
  <2>1. \A e \in (p - b + 2)..(MaxDepth - 1) : ix[e] = 0
    BY <1>1 DEF ListOK, Places, p
  <2>2. d + 1 < MaxDepth => d + 1 \in (p - b + 2)..(MaxDepth - 1) /\ d + 1 \in 0..(MaxDepth - 1) /\ d + 1 # d
    BY ONLY <1>3, <1>14
  <2> QED
    BY ONLY <1>11, <2>1, <2>2 DEF Ix
<1>16. Chain(r, b) = (b - 1)..p
  BY ONLY <1>1, <1>9, <1>14 DEF Chain
<1>17. \A i \in (b - 1)..p : i \in (b - 1)..(p - 2) \/ i = p - 1 \/ i = p
  BY ONLY <1>1
<1>18. ListTypes(r, jx, et, b)
  <2>1. b <= r.prod /\ b # 0 /\ r.prod - b + 1 <= MaxDepth
    BY ONLY <1>1, <1>3, <1>9, <1>14, d < MaxDepth
  <2> QED
    BY <1>5, <1>8, <1>9, <1>10, <1>11, <2>1 DEF ListTypes
<1>19. Layout(r, jx, b)
  <2>1. \A i \in 0..(b - 1) : s.cells[i] = Kids(Root)[i + 1] /\ i \in 0..(p - 1)
    <3>1. \A i \in 0..(b - 1) : i \in 0..(p - 1)
      BY ONLY <1>1
    <3> QED
      BY <3>1 DEF ListOK, Layout
  <2>2. ASSUME NEW i \in b..p
        PROVE  /\ Ix(jx, i - b + 1) \in DOMAIN Kids(r.cells[i - 1])
               /\ r.cells[i] = Kids(r.cells[i - 1])[Ix(jx, i - b + 1)]
    <3>1. CASE i = p
      <4>1. r.cells[i - 1] = n /\ Ix(jx, i - b + 1) = k
        BY <1>2, <1>9, <1>12, <1>14, <3>1
      <4> QED
        BY <1>4, <1>9, <3>1, <4>1 DEF c
    <3>2. CASE i # p
      <4>1. i \in b..(p - 1) /\ i \in 0..(p - 1) /\ i - 1 \in 0..(p - 1) /\ i - b + 1 \in 1..(d - 1)
        BY ONLY <1>1, <1>2, <3>2, i \in b..p
      <4>2. /\ Ix(ix, i - b + 1) \in DOMAIN Kids(s.cells[i - 1])
            /\ s.cells[i] = Kids(s.cells[i - 1])[Ix(ix, i - b + 1)]
        BY <4>1 DEF ListOK, Layout, p
      <4> QED
        BY <1>9, <1>12, <4>1, <4>2
    <3> QED
      BY <3>1, <3>2
  <2>3. \A i \in 0..(b - 1) : r.cells[i] = Kids(Root)[i + 1]
    BY <1>9, <2>1
  <2> QED
    <3>1. r.prod - 1 = p
      BY ONLY <1>1, <1>9
    <3> QED
      BY ONLY <2>2, <2>3, <3>1 DEF Layout
<1>20. Ways(path, r, et, b)
  <2>1. \A i \in (b - 1)..(p - 1) :
          /\ nodes[s.cells[i]].depth = i - b + 2
          /\ \A e \in 1..(i - b + 1) : path[s.cells[i]][e] = dt[e]
    BY <1>1 DEF ListOK, Ways
  <2>2. ASSUME NEW i \in (b - 1)..(p - 1)
        PROVE  /\ nodes[r.cells[i]].depth = i - b + 2
               /\ \A e \in 1..(i - b + 1) : path[r.cells[i]][e] = et[e]
    <3>1. i \in 0..(p - 1) /\ \A e \in 1..(i - b + 1) : e \in 1..(d - 1)
      BY ONLY <1>1, <1>2, i \in (b - 1)..(p - 1)
    <3>2. r.cells[i] = s.cells[i]
      BY <1>9, <3>1
    <3>3. \A e \in 1..(i - b + 1) : path[s.cells[i]][e] = dt[e]
      BY <2>1
    <3> QED
      BY ONLY <1>12, <2>1, <3>1, <3>2, <3>3, i \in (b - 1)..(p - 1)
  <2>3. \A e \in 1..d : path[c][e] = et[e]
    <3>1. \A e \in 1..d : e = d \/ e \in 1..(d - 1)
      BY ONLY <1>3
    <3>2. \A e \in 1..(d - 1) : path[n][e] = dt[e]
      <4>1. \A e \in 1..((p - 1) - b + 1) : path[s.cells[p - 1]][e] = dt[e]
        BY ONLY <1>14, <2>1
      <4> QED
        BY ONLY <1>2, <1>14, <4>1
    <3> QED
      BY <1>2, <1>5, <1>11, <1>12, <3>1, <3>2
  <2>4. nodes[r.cells[p]].depth = p - b + 2 /\ \A e \in 1..(p - b + 1) : path[r.cells[p]][e] = et[e]
    BY <1>5, <1>9, <1>14, <2>3
  <2>5. \A i \in (b - 1)..p : i \in (b - 1)..(p - 1) \/ i = p
    BY ONLY <1>1
  <2> QED
    BY ONLY <1>16, <2>2, <2>4, <2>5 DEF Ways
<1>21. Places(r, jx, b, F)
  <2>1. \A i \in (b - 1)..(p - 1) : \A j \in DOMAIN Kids(s.cells[i]) :
          Kids(s.cells[i])[j] \in F
            <=> (j < Ix(ix, i - b + 2) \/ (i = p - 1 /\ j = Ix(ix, i - b + 2)))
    BY <1>1 DEF ListOK, Places, p
  <2>2. ASSUME NEW i \in (b - 1)..p, NEW j \in DOMAIN Kids(r.cells[i])
        PROVE  Kids(r.cells[i])[j] \in F
                 <=> (j < Ix(jx, i - b + 2) \/ (i = p /\ j = Ix(jx, i - b + 2)))
    <3>1. CASE i \in (b - 1)..(p - 2)
      <4>1. i \in 0..(p - 1) /\ i \in (b - 1)..(p - 1) /\ i # p - 1 /\ i # p
            /\ i - b + 2 \in 1..(d - 1)
        BY ONLY <1>13, <3>1
      <4>2. r.cells[i] = s.cells[i] /\ Ix(jx, i - b + 2) = Ix(ix, i - b + 2)
        BY ONLY <1>9, <1>12, <4>1
      <4>3. Kids(r.cells[i]) = Kids(s.cells[i]) /\ j \in DOMAIN Kids(s.cells[i])
        BY ONLY <4>2, j \in DOMAIN Kids(r.cells[i])
      <4>4. Kids(s.cells[i])[j] \in F <=> j < Ix(ix, i - b + 2)
        BY ONLY <2>1, <4>1, <4>3
      <4> QED
        BY ONLY <4>1, <4>2, <4>3, <4>4
    <3>2. CASE i = p - 1
      <4>1. r.cells[i] = n /\ Ix(jx, i - b + 2) = k /\ i # p
        <5>1. i # p
          BY ONLY <1>1, <3>2
        <5> QED
          BY ONLY <1>2, <1>9, <1>12, <1>14, <3>2, <5>1
      <4>2. Kids(n)[j] \in F <=> j <= ix[d]
        BY <1>2, <1>3, <4>1
      <4>3. j \in Nat
        <5>1. Kids(n) \in Seq(Nat) /\ j \in DOMAIN Kids(n)
          BY <1>2, <4>1, TreeTypes
        <5> QED
          BY ONLY <5>1
      <4>4. j <= ix[d] <=> j < k
        BY ONLY <1>3, <4>3, k = ix[d] + 1
      <4> QED
        BY <4>1, <4>2, <4>4
    <3>3. CASE i = p
      <4>1. r.cells[i] = c /\ Ix(jx, i - b + 2) = 0
        BY <1>9, <1>14, <1>15, <3>3
      <4>2. Kids(c)[j] \notin F
        <5>1. \A q \in Made \ F : (\A h \in (b - 1)..(p - 1) : s.cells[h] # q)
                                    => \A e \in DOMAIN Kids(q) : Kids(q)[e] \notin F
          BY <1>1 DEF ListOK, Through
        <5>2. \A h \in (b - 1)..(p - 1) : s.cells[h] # c
          <6>1. \A h \in (b - 1)..(p - 1) : h \in 0..(p - 1)
            BY ONLY <1>1
          <6> QED
            BY <1>7, <6>1 DEF OnStack, p
        <5> QED
          BY <1>5, <1>6, <4>1, <5>1, <5>2
      <4>3. j \in Nat /\ j >= 1
        <5>1. Kids(c) \in Seq(Nat) /\ j \in DOMAIN Kids(c)
          BY <1>5, <4>1, TreeTypes
        <5> QED
          BY ONLY <5>1
      <4> QED
        BY ONLY <3>3, <4>1, <4>2, <4>3
    <3> QED
      BY ONLY <1>17, <3>1, <3>2, <3>3
  <2>3. Ix(jx, p + 1 - b + 1) <= Len(Kids(r.cells[p]))
    <3>1. Len(Kids(c)) \in Nat
      BY <1>5, TreeTypes
    <3> QED
      BY ONLY <1>9, <1>14, <1>15, <3>1
  <2>4. \A e \in (p + 1 - b + 2)..(MaxDepth - 1) : jx[e] = 0
    <3>1. \A e \in (p - b + 2)..(MaxDepth - 1) : ix[e] = 0
      BY <1>1 DEF ListOK, Places, p
    <3>2. \A e \in (p + 1 - b + 2)..(MaxDepth - 1) :
            e \in (p - b + 2)..(MaxDepth - 1) /\ e \in 0..(MaxDepth - 1) /\ e # d
      BY ONLY <1>1, <1>3, <1>14
    <3> QED
      BY <1>11, <3>1, <3>2
  <2> QED
    <3>1. /\ r.prod = p + 1 /\ r.prod - 1 = p
          /\ r.prod - b + 1 = p + 1 - b + 1 /\ r.prod - b + 2 = p + 1 - b + 2
      BY ONLY <1>1, <1>9
    <3>2. \A i \in Chain(r, b) : \A j \in DOMAIN Kids(r.cells[i]) :
            Kids(r.cells[i])[j] \in F
              <=> (j < Ix(jx, i - b + 2) \/ (i = r.prod - 1 /\ j = Ix(jx, i - b + 2)))
      BY ONLY <1>16, <2>2, <3>1
    <3>3. Ix(jx, r.prod - b + 1) <= Len(Kids(r.cells[r.prod - 1]))
      BY ONLY <2>3, <3>1
    <3>4. \A e \in (r.prod - b + 2)..(MaxDepth - 1) : jx[e] = 0
      BY ONLY <2>4, <3>1
    <3> QED
      BY ONLY <3>2, <3>3, <3>4 DEF Places
<1>22. Through(r, b, F)
  <2>1. /\ F \subseteq Made \ OnStack(s)
        /\ \A m \in F : \A j \in DOMAIN Kids(m) : Kids(m)[j] \in F
        /\ \A j \in (b + 1)..Len(Kids(Root)) : Kids(Root)[j] \in F
        /\ \A m \in Made \ F : (\A i \in (b - 1)..(p - 1) : s.cells[i] # m)
                                 => \A j \in DOMAIN Kids(m) : Kids(m)[j] \notin F
    BY <1>1 DEF ListOK, Through
  <2>2. F \subseteq Made \ OnStack(r)
    BY <1>6, <1>9, <2>1
  <2>3. \A m : (\A i \in (b - 1)..p : r.cells[i] # m) => \A i \in (b - 1)..(p - 1) : s.cells[i] # m
    <3>1. \A i \in (b - 1)..(p - 1) : i \in (b - 1)..p /\ i \in 0..(p - 1)
      BY ONLY <1>1
    <3> QED
      BY <1>9, <3>1
  <2> QED
    BY ONLY <1>16, <2>1, <2>2, <2>3 DEF Through
<1> QED
  BY <1>9, <1>18, <1>19, <1>20, <1>21, <1>22 DEF ListOK

\* A turn that is through with the node on top, whose children are all done:
\* the next one is its parent, or the child of the root before it.
Below(s, b) == IF s.prod = b THEN b - 1 ELSE b

TurnsUp(path, s, ix, dt, b, F, n, d, r, jx, et, a) ==
  /\ Tree(path) /\ StackShape(s) /\ ~StackEmpty(s) /\ ListOK(path, s, ix, dt, b, F)
  /\ n = StackTop(s) /\ d = nodes[n].depth /\ d < MaxDepth
  /\ ~(ix[d] + 1 <= Len(Kids(n)))
  /\ r = Destack(s) /\ jx = [ix EXCEPT ![d] = 0]
  /\ et = [dt EXCEPT ![d] = nodes[n].word] /\ a = Below(s, b)

LEMMA ListUp ==
  ASSUME NEW path, NEW s, NEW ix, NEW dt, NEW b, NEW F, NEW n, NEW d,
         NEW r, NEW jx, NEW et, NEW a, TurnsUp(path, s, ix, dt, b, F, n, d, r, jx, et, a)
  PROVE  StackShape(r) /\ ListOK(path, r, jx, et, a, F \union {n})
<1>0. /\ Tree(path) /\ StackShape(s) /\ ~StackEmpty(s) /\ ListOK(path, s, ix, dt, b, F)
      /\ n = StackTop(s) /\ d = nodes[n].depth /\ d < MaxDepth
      /\ ~(ix[d] + 1 <= Len(Kids(n)))
      /\ r = Destack(s) /\ jx = [ix EXCEPT ![d] = 0]
      /\ et = [dt EXCEPT ![d] = nodes[n].word] /\ a = Below(s, b)
  BY DEF TurnsUp
<1> USE <1>0
<1> DEFINE p == s.prod
           G == F \union {n}
<1>1. /\ p \in Nat \ {0} /\ b \in Nat \ {0} /\ b <= p /\ b <= Len(Kids(Root))
      /\ Chain(s, b) = (b - 1)..(p - 1)
      /\ \A i \in 0..(p - 1) :
           /\ s.cells[i] \in Made /\ s.cells[i] \in NodeIds /\ s.cells[i] \notin F
           /\ nodes[s.cells[i]].depth = IF i < b - 1 THEN 1 ELSE i - b + 2
  BY StackDepths
<1>2. /\ n = s.cells[p - 1] /\ n \in Made /\ n \in NodeIds /\ n \notin F
      /\ d = p - b + 1 /\ d \in 1..MaxDepth
      /\ nodes[n].word \in Words
      /\ Ix(ix, d) <= Len(Kids(n)) /\ Ix(ix, d) \in Nat
      /\ \A j \in DOMAIN Kids(n) : Kids(n)[j] \in F <=> j <= Ix(ix, d)
  BY ListTop
<1>3. /\ s.total = total /\ OnStack(s) \subseteq Made
      /\ ix \in [0..(MaxDepth - 1) -> Nat] /\ dt \in [1..MaxDepth -> Words \union {NoWord}]
      /\ b \in 0..Len(Kids(Root))
  BY DEF ListOK, ListTypes
<1>4. /\ StackShape(r) /\ r.total = total /\ r.prod = p - 1 /\ r.cells = s.cells
  BY <1>3, StackTaken
<1>5. Apart(s)
  BY StackApart
<1> HIDE DEF p
<1>6. /\ Ix(ix, d) = ix[d] /\ ix[d] \in Nat /\ d \in 0..(MaxDepth - 1)
      /\ MaxDepth \in Nat /\ d \in Nat /\ d >= 1
  <2>1. MaxDepth \in Nat /\ d \in 1..MaxDepth
    BY <1>2, DepthType
  <2>2. d \in 0..(MaxDepth - 1) /\ d \in Nat /\ d >= 1
    BY ONLY <2>1, d < MaxDepth
  <2>3. ix[d] \in Nat
    BY ONLY <1>3, <2>2
  <2> QED
    BY ONLY <2>1, <2>2, <2>3, d < MaxDepth DEF Ix
<1>7. \A j \in DOMAIN Kids(n) : Kids(n)[j] \in F
  <2>1. Kids(n) \in Seq(Nat)
    BY <1>2, TreeTypes
  <2>2. \A j \in DOMAIN Kids(n) : j <= ix[d]
    BY ONLY <1>6, <2>1, ~(ix[d] + 1 <= Len(Kids(n)))
  <2> QED
    BY ONLY <1>2, <1>6, <2>2
<1>8. /\ jx \in [0..(MaxDepth - 1) -> Nat] /\ et \in [1..MaxDepth -> Words \union {NoWord}]
      /\ jx[d] = 0
      /\ \A e \in 0..(MaxDepth - 1) : e # d => jx[e] = ix[e]
      /\ \A e \in 1..MaxDepth : e # d => et[e] = dt[e]
  BY <1>2, <1>3, <1>6
<1>9. \A e \in 1..(d - 1) : Ix(jx, e) = Ix(ix, e) /\ et[e] = dt[e]
  <2>1. \A e \in 1..(d - 1) : e # d /\ e \in 0..(MaxDepth - 1) /\ e \in 1..MaxDepth
    BY ONLY <1>6
  <2> QED
    BY ONLY <1>6, <1>8, <2>1 DEF Ix
<1>10. Ix(jx, d) = 0
  BY ONLY <1>6, <1>8, d < MaxDepth DEF Ix
<1>11. /\ p - 1 \in 0..(p - 1) /\ p - 1 \in (b - 1)..(p - 1)
       /\ \A i \in 0..(p - 2) : i \in 0..(p - 1) /\ i # p - 1
       /\ (p - 1) - 1 = p - 2
  BY ONLY <1>1
<1>12. \A i \in 0..(p - 2) : s.cells[i] # n
  BY <1>2, <1>5, <1>11 DEF Apart, p
<1>13. OnStack(r) = {s.cells[i] : i \in 0..(p - 2)} /\ OnStack(r) \subseteq OnStack(s)
  <2>1. OnStack(s) = {s.cells[i] : i \in 0..(p - 1)}
    BY DEF OnStack, p
  <2>2. OnStack(r) = {s.cells[i] : i \in 0..((p - 1) - 1)}
    BY ONLY <1>1, <1>4 DEF OnStack
  <2> QED
    BY ONLY <1>11, <2>1, <2>2
<1>14. /\ F \subseteq Made \ OnStack(s)
       /\ \A m \in F : \A j \in DOMAIN Kids(m) : Kids(m)[j] \in F
       /\ \A j \in (b + 1)..Len(Kids(Root)) : Kids(Root)[j] \in F
       /\ \A m \in Made \ F : (\A i \in (b - 1)..(p - 1) : s.cells[i] # m)
                                => \A j \in DOMAIN Kids(m) : Kids(m)[j] \notin F
  BY <1>1 DEF ListOK, Through
<1>15. \A i \in 0..(b - 1) : s.cells[i] = Kids(Root)[i + 1]
  BY DEF ListOK, Layout
<1>16. \A i \in b..(p - 1) :
         /\ Ix(ix, i - b + 1) \in DOMAIN Kids(s.cells[i - 1])
         /\ s.cells[i] = Kids(s.cells[i - 1])[Ix(ix, i - b + 1)]
  BY DEF ListOK, Layout, p
<1>17. \A i \in (b - 1)..(p - 1) :
         /\ nodes[s.cells[i]].depth = i - b + 2
         /\ \A e \in 1..(i - b + 1) : path[s.cells[i]][e] = dt[e]
  BY <1>1 DEF ListOK, Ways
<1>18. /\ \A i \in (b - 1)..(p - 1) : \A j \in DOMAIN Kids(s.cells[i]) :
            Kids(s.cells[i])[j] \in F
              <=> (j < Ix(ix, i - b + 2) \/ (i = p - 1 /\ j = Ix(ix, i - b + 2)))
       /\ \A e \in (p - b + 2)..(MaxDepth - 1) : ix[e] = 0
  BY <1>1 DEF ListOK, Places, p
<1>19. /\ G \subseteq Made \ OnStack(r)
       /\ \A m \in G : \A j \in DOMAIN Kids(m) : Kids(m)[j] \in G
  <2>1. n \notin OnStack(r)
    BY <1>12, <1>13
  <2> QED
    BY <1>2, <1>7, <1>13, <1>14, <2>1
<1>20. \A e \in d..(MaxDepth - 1) : jx[e] = 0
  <2>1. \A e \in d..(MaxDepth - 1) : e = d \/ (e \in (p - b + 2)..(MaxDepth - 1) /\ e \in 0..(MaxDepth - 1) /\ e # d)
    BY ONLY <1>1, <1>2, <1>6
  <2> QED
    BY ONLY <1>8, <1>18, <2>1
<1>21. n \in G /\ F \subseteq G /\ \A m \in G : m \in F \/ m = n
  OBVIOUS
<1> HIDE DEF G
<1>22. CASE p = b
  <2>1. a = b - 1 /\ d = 1 /\ n = Kids(Root)[b] /\ b \in DOMAIN Kids(Root)
    <3>1. a = b - 1
      BY <1>22 DEF Below, p
    <3>2. d = 1 /\ b - 1 \in 0..(b - 1) /\ (b - 1) + 1 = b
      BY ONLY <1>1, <1>2, <1>22
    <3>3. n = Kids(Root)[b]
      BY ONLY <1>2, <1>15, <1>22, <3>2
    <3>4. Kids(Root) \in Seq(Nat)
      BY TreeTypes
    <3>5. b \in DOMAIN Kids(Root)
      BY ONLY <1>1, <3>4
    <3> QED
      BY <3>1, <3>2, <3>3, <3>5
  <2>2. a \in Nat /\ (a # 0 => (a - 1)..(r.prod - 1) = {b - 2} /\ b - 2 \in 0..(p - 2) /\ b - 2 \in 0..(b - 1))
        /\ (a = 0 => r.prod = 0) /\ a <= r.prod /\ r.prod - a + 1 = 1 /\ b - 2 - a + 2 = 1
        /\ b - 2 - a + 1 = 0 /\ r.prod - 1 = b - 2 /\ a..(r.prod - 1) = {} /\ a \in 0..Len(Kids(Root))
    <3>1. Len(Kids(Root)) \in Nat
      BY TreeTypes
    <3>2. b \in Nat \ {0} /\ a = b - 1 /\ p = b /\ r.prod = a /\ b <= Len(Kids(Root))
      BY ONLY <1>1, <1>4, <1>22, <2>1
    <3>3. a \in Nat /\ (a = 0 => r.prod = 0) /\ a <= r.prod
          /\ r.prod - a + 1 = 1 /\ r.prod - 1 = b - 2
      BY ONLY <3>2
    <3>4. b - 2 - a + 2 = 1 /\ b - 2 - a + 1 = 0
      BY ONLY <3>2
    <3>5. a..(r.prod - 1) = {} /\ a \in 0..Len(Kids(Root))
      BY ONLY <3>1, <3>2
    <3>6. a # 0 => b - 2 \in 0..(p - 2) /\ b - 2 \in 0..(b - 1)
      BY ONLY <3>2
    <3>7. a # 0 => (a - 1)..(r.prod - 1) = {b - 2}
      BY ONLY <3>2
    <3> QED
      BY ONLY <3>3, <3>4, <3>5, <3>6, <3>7
  <2>3. Chain(r, a) = IF a = 0 THEN {} ELSE {b - 2}
    BY ONLY <2>2 DEF Chain
  <2>4. ListTypes(r, jx, et, a)
    <3>1. OnStack(r) \subseteq Made
      BY <1>3, <1>13
    <3> QED
      BY ONLY <1>4, <1>6, <1>8, <2>2, <3>1 DEF ListTypes
  <2>5. Layout(r, jx, a)
    <3>1. \A i \in 0..(a - 1) : i \in 0..(b - 1)
      BY ONLY <1>1, <2>1
    <3> QED
      BY ONLY <1>4, <1>15, <2>2, <3>1 DEF Layout
  <2>6. a # 0 => /\ s.cells[b - 2] \in Made /\ s.cells[b - 2] \in NodeIds /\ s.cells[b - 2] \notin F
                 /\ nodes[s.cells[b - 2]].depth = 1
    <3>1. b - 2 < b - 1
      BY ONLY <1>1
    <3> QED
      BY ONLY <1>1, <1>11, <2>2, <3>1
  <2>7. Ways(path, r, et, a)
    <3>1. ASSUME NEW i \in Chain(r, a)
          PROVE  /\ nodes[r.cells[i]].depth = i - a + 2
                 /\ \A e \in 1..(i - a + 1) : path[r.cells[i]][e] = et[e]
      <4>1. a # 0 /\ i = b - 2
        BY <2>3, <3>1
      <4>2. 1..(i - a + 1) = {} /\ i - a + 2 = 1
        BY ONLY <2>2, <4>1
      <4> QED
        BY ONLY <1>4, <2>6, <4>1, <4>2
    <3> QED
      BY <3>1 DEF Ways
  <2>8. \A m \in NodeIds : \A j \in DOMAIN Kids(m) : Kids(m)[j] = n => m = Root
    <3>1. Root \in NodeIds
      BY TreeTypes
    <3>2. \A m \in NodeIds : \A j \in DOMAIN Kids(m) : Kids(m)[j] = Kids(Root)[b] => m = Root
      BY <2>1, <3>1 DEF Tree
    <3> QED
      BY ONLY <2>1, <3>2
  <2>9. \A m \in Made : m \in NodeIds /\ m # Root
    BY TreeTypes DEF Made, NodeIds, Root
  <2>10. \A m \in Made \ G : \A j \in DOMAIN Kids(m) : Kids(m)[j] \notin G
    <3> TAKE m \in Made \ G
    <3>1. m \in Made \ F /\ m # n
      BY <1>21
    <3>2. \A i \in (b - 1)..(p - 1) : s.cells[i] # m
      <4>1. \A i \in (b - 1)..(p - 1) : i = p - 1
        BY ONLY <1>1, <1>22
      <4> QED
        BY ONLY <1>2, <3>1, <4>1
    <3>3. \A j \in DOMAIN Kids(m) : Kids(m)[j] \notin F
      BY ONLY <1>14, <3>1, <3>2
    <3> QED
      BY ONLY <1>21, <2>8, <2>9, <3>1, <3>3
  <2>11. Places(r, jx, a, G)
    <3>1. ASSUME NEW i \in Chain(r, a), NEW j \in DOMAIN Kids(r.cells[i])
          PROVE  Kids(r.cells[i])[j] \in G
                   <=> (j < Ix(jx, i - a + 2) \/ (i = r.prod - 1 /\ j = Ix(jx, i - a + 2)))
      <4>1. a # 0 /\ i = b - 2 /\ r.cells[i] = s.cells[b - 2]
        BY <1>4, <2>3, <3>1
      <4>2. s.cells[b - 2] # n
        BY ONLY <1>12, <2>2, <4>1
      <4>3. s.cells[b - 2] \in Made \ G
        BY ONLY <1>21, <2>6, <4>1, <4>2
      <4>4. Kids(r.cells[i])[j] \notin G
        BY <2>10, <4>1, <4>3
      <4>5. Ix(jx, i - a + 2) = 0
        BY ONLY <1>10, <2>1, <2>2, <4>1
      <4>6. Kids(r.cells[i]) \in Seq(Nat)
        BY <2>6, <4>1, TreeTypes
      <4>7. j \in Nat /\ j >= 1
        BY ONLY <4>6, j \in DOMAIN Kids(r.cells[i])
      <4> QED
        BY ONLY <4>4, <4>5, <4>7
    <3>2. a # 0 => Ix(jx, r.prod - a + 1) <= Len(Kids(r.cells[r.prod - 1]))
      <4>1. a # 0 => Len(Kids(s.cells[b - 2])) \in Nat
        BY <2>6, TreeTypes
      <4> QED
        BY ONLY <1>4, <1>10, <2>1, <2>2, <4>1
    <3>3. \A e \in (r.prod - a + 2)..(MaxDepth - 1) : jx[e] = 0
      <4>1. \A e \in (r.prod - a + 2)..(MaxDepth - 1) : e \in d..(MaxDepth - 1)
        BY ONLY <1>1, <1>4, <1>6, <1>22, <2>1
      <4> QED
        BY ONLY <1>20, <4>1
    <3> QED
      BY ONLY <3>1, <3>2, <3>3 DEF Places
  <2>12. Through(r, a, G)
    <3>1. \A j \in (a + 1)..Len(Kids(Root)) : j = b \/ j \in (b + 1)..Len(Kids(Root))
      <4>1. Len(Kids(Root)) \in Nat
        BY TreeTypes
      <4> QED
        BY ONLY <1>1, <2>1, <4>1
    <3>2. \A j \in (a + 1)..Len(Kids(Root)) : Kids(Root)[j] \in G
      BY ONLY <1>14, <1>21, <2>1, <3>1
    <3> QED
      BY ONLY <1>19, <2>10, <3>2 DEF Through
  <2> QED
    BY <1>4, <2>4, <2>5, <2>7, <2>11, <2>12 DEF ListOK, G
<1>23. CASE p # b
  <2>1. a = b /\ d >= 2
    <3>1. a = b
      BY <1>23 DEF Below, p
    <3> QED
      BY ONLY <1>1, <1>2, <1>23, <3>1
  <2> DEFINE q == s.cells[p - 2]
             l == Ix(ix, d - 1)
  <2>2. /\ Chain(r, a) = (b - 1)..(p - 2) /\ p - 1 \in b..(p - 1) /\ (p - 1) - b + 1 = d - 1
        /\ p - 2 \in 0..(p - 1) /\ p - 2 \in (b - 1)..(p - 2) /\ (p - 2) - b + 2 = d - 1
        /\ b <= p - 1 /\ (p - 1) - b + 1 <= MaxDepth /\ d - 1 \in 1..(d - 1)
        /\ (p - 1) - b + 2 = d
    <3>1. /\ p - 1 \in b..(p - 1) /\ (p - 1) - b + 1 = d - 1
          /\ p - 2 \in 0..(p - 1) /\ p - 2 \in (b - 1)..(p - 2) /\ (p - 2) - b + 2 = d - 1
          /\ b <= p - 1 /\ (p - 1) - b + 1 <= MaxDepth /\ d - 1 \in 1..(d - 1)
          /\ (p - 1) - b + 2 = d
      BY ONLY <1>1, <1>2, <1>6, <1>23, <2>1
    <3>2. Chain(r, a) = (b - 1)..((p - 1) - 1)
      BY ONLY <1>1, <1>4, <2>1 DEF Chain
    <3> QED
      BY ONLY <1>11, <3>1, <3>2
  <2>3. q \in NodeIds /\ l \in DOMAIN Kids(q) /\ n = Kids(q)[l] /\ l \in Nat
    <3>1. q \in NodeIds
      BY ONLY <1>1, <2>2
    <3>2. l \in DOMAIN Kids(q) /\ n = Kids(q)[l]
      BY ONLY <1>2, <1>11, <1>16, <2>2
    <3>3. Kids(q) \in Seq(Nat)
      BY <3>1, TreeTypes
    <3> HIDE DEF q, l
    <3> QED
      BY ONLY <3>1, <3>2, <3>3
  <2> HIDE DEF q, l
  <2>4. \A m \in NodeIds : \A j \in DOMAIN Kids(m) : Kids(m)[j] = n <=> m = q /\ j = l
    <3>1. \A m \in NodeIds : \A j \in DOMAIN Kids(m) : Kids(m)[j] = Kids(q)[l] => m = q /\ j = l
      BY <2>3 DEF Tree
    <3> QED
      BY ONLY <2>3, <3>1
  <2>5. \A i \in (b - 1)..(p - 2) : i \in (b - 1)..(p - 1) /\ i \in 0..(p - 1) /\ i \in 0..(p - 2)
                                    /\ i # p - 1 /\ i - b + 2 \in 1..(d - 1)
                                    /\ \A e \in 1..(i - b + 1) : e \in 1..(d - 1)
    BY ONLY <1>1, <1>2
  <2>6. ListTypes(r, jx, et, a)
    <3>1. OnStack(r) \subseteq Made
      BY <1>3, <1>13
    <3>2. a # 0
      BY ONLY <1>1, <2>1
    <3> QED
      BY ONLY <1>3, <1>4, <1>8, <2>1, <2>2, <3>1, <3>2 DEF ListTypes
  <2>7. Layout(r, jx, a)
    <3>1. \A i \in b..(p - 2) : i \in b..(p - 1) /\ i - b + 1 \in 1..(d - 1)
      BY ONLY <1>1, <1>2
    <3>2. \A i \in b..(p - 2) :
            /\ Ix(jx, i - b + 1) \in DOMAIN Kids(s.cells[i - 1])
            /\ s.cells[i] = Kids(s.cells[i - 1])[Ix(jx, i - b + 1)]
      BY ONLY <1>9, <1>16, <3>1
    <3>3. r.prod - 1 = p - 2
      BY ONLY <1>4, <1>11
    <3> QED
      BY ONLY <1>4, <1>15, <2>1, <3>2, <3>3 DEF Layout
  <2>8. Ways(path, r, et, a)
    <3>1. ASSUME NEW i \in (b - 1)..(p - 2)
          PROVE  /\ nodes[s.cells[i]].depth = i - b + 2
                 /\ \A e \in 1..(i - b + 1) : path[s.cells[i]][e] = et[e]
      <4>1. i \in (b - 1)..(p - 1) /\ \A e \in 1..(i - b + 1) : e \in 1..(d - 1)
        BY <2>5
      <4>2. /\ nodes[s.cells[i]].depth = i - b + 2
            /\ \A e \in 1..(i - b + 1) : path[s.cells[i]][e] = dt[e]
        BY ONLY <1>17, <4>1
      <4> QED
        BY ONLY <1>9, <4>1, <4>2
    <3> QED
      BY ONLY <1>4, <2>1, <2>2, <3>1 DEF Ways
  <2>9. \A m \in Made : m \in NodeIds
    BY TreeTypes DEF Made, NodeIds
  <2>10. ASSUME NEW i \in (b - 1)..(p - 2), NEW j \in DOMAIN Kids(s.cells[i])
         PROVE  Kids(s.cells[i])[j] \in G
                  <=> (j < Ix(jx, i - b + 2) \/ (i = p - 2 /\ j = Ix(jx, i - b + 2)))
    <3>1. /\ i \in (b - 1)..(p - 1) /\ i \in 0..(p - 1) /\ i # p - 1
          /\ Ix(jx, i - b + 2) = Ix(ix, i - b + 2) /\ s.cells[i] \in NodeIds
      BY ONLY <1>1, <1>9, <2>5, i \in (b - 1)..(p - 2)
    <3>2. Kids(s.cells[i])[j] \in F <=> j < Ix(ix, i - b + 2)
      BY ONLY <1>18, <3>1, j \in DOMAIN Kids(s.cells[i])
    <3>3. Kids(s.cells[i])[j] = n <=> (i = p - 2 /\ j = Ix(ix, i - b + 2))
      <4>1. Kids(s.cells[i])[j] = n <=> (s.cells[i] = q /\ j = l)
        BY ONLY <2>4, <3>1, j \in DOMAIN Kids(s.cells[i])
      <4>2. s.cells[i] = q <=> i = p - 2
        <5>1. s.cells[i] = q => i = p - 2
          BY <1>5, <2>2, <3>1 DEF Apart, p, q
        <5> QED
          BY <5>1 DEF q
      <4>3. i = p - 2 => l = Ix(ix, i - b + 2)
        BY <2>2 DEF l
      <4> QED
        BY ONLY <4>1, <4>2, <4>3
    <3> QED
      BY ONLY <1>21, <3>1, <3>2, <3>3
  <2>11. Places(r, jx, a, G)
    <3>1. r.prod - 1 = p - 2 /\ r.prod - b + 1 = d - 1 /\ r.prod - b + 2 = d
      BY ONLY <1>4, <1>11, <2>2
    <3>2. Ix(jx, d - 1) <= Len(Kids(q))
      <4>1. Ix(jx, d - 1) = l
        BY <1>9, <2>2 DEF l
      <4>2. Kids(q) \in Seq(Nat)
        BY <2>3, TreeTypes
      <4> QED
        BY ONLY <2>3, <4>1, <4>2
    <3>3. r.cells[r.prod - 1] = q
      BY <1>4, <3>1 DEF q
    <3> QED
      BY ONLY <1>4, <1>20, <2>1, <2>2, <2>10, <3>1, <3>2, <3>3 DEF Places
  <2>12. Through(r, a, G)
    <3>1. ASSUME NEW m \in Made \ G, \A i \in (b - 1)..(p - 2) : s.cells[i] # m,
                 NEW j \in DOMAIN Kids(m)
          PROVE  Kids(m)[j] \notin G
      <4>1. m \in Made \ F /\ m # n /\ m \in NodeIds
        BY <1>21, <2>9
      <4>2. \A i \in (b - 1)..(p - 1) : s.cells[i] # m
        <5>1. \A i \in (b - 1)..(p - 1) : i = p - 1 \/ i \in (b - 1)..(p - 2)
          <6>1. p \in Int /\ b \in Int
            BY <1>1
          <6> QED
            BY ONLY <6>1
        <5> QED
          BY ONLY <1>2, <3>1, <4>1, <5>1
      <4>3. Kids(m)[j] \notin F
        BY ONLY <1>14, <4>1, <4>2, j \in DOMAIN Kids(m)
      <4>4. m # q
        BY <2>2, <3>1 DEF q
      <4> QED
        BY ONLY <1>21, <2>4, <4>1, <4>3, <4>4, j \in DOMAIN Kids(m)
    <3>2. \A j \in (a + 1)..Len(Kids(Root)) : Kids(Root)[j] \in G
      BY ONLY <1>14, <1>21, <2>1
    <3>3. \A m \in Made \ G : (\A i \in Chain(r, a) : r.cells[i] # m)
                                => \A j \in DOMAIN Kids(m) : Kids(m)[j] \notin G
      BY ONLY <1>4, <2>2, <3>1
    <3> QED
      BY ONLY <1>19, <3>2, <3>3 DEF Through
  <2> QED
    BY <1>4, <2>6, <2>7, <2>8, <2>11, <2>12 DEF ListOK, G
<1> QED
  BY <1>22, <1>23

\* What trie_path_list calls back with is the way to the node.
LEMMA ListedOne ==
  ASSUME NEW path, Tree(path), NEW s, NEW ix, NEW dt, NEW b, NEW F,
         StackShape(s), ~StackEmpty(s), ListOK(path, s, ix, dt, b, F), NEW n, n = StackTop(s),
         NEW d, d = nodes[n].depth, NEW et, et = [dt EXCEPT ![d] = nodes[n].word],
         NEW called, Listed(path, F, called)
  PROVE  /\ ~nodes[n].tail => Listed(path, F \union {n}, called)
         /\ nodes[n].tail => Listed(path, F \union {n}, Append(called, SubSeq(et, 1, d)))
<1>1. /\ n = s.cells[s.prod - 1] /\ n \in NodeIds /\ n \notin F /\ s.prod - 1 \in Chain(s, b)
      /\ d = s.prod - b + 1 /\ d \in 1..MaxDepth
      /\ nodes[n].word \in Words /\ path[n][d] = nodes[n].word
  BY ListTop
<1>2. dt \in [1..MaxDepth -> Words \union {NoWord}] /\ F \subseteq Made /\ MaxDepth \in Nat
  BY DepthType DEF ListOK, ListTypes, Through
<1>3. CASE ~nodes[n].tail
  <2>1. {m \in F \union {n} : nodes[m].tail} = {m \in F : nodes[m].tail}
    BY <1>3
  <2> QED
    BY <1>3, <2>1 DEF Listed
<1>4. CASE nodes[n].tail
  <2> DEFINE w == SubSeq(et, 1, d)
             l == Len(called)
             c == Append(called, w)
             q == path[n]
  <2>1. q \in Seq(Words) /\ Len(q) = d
    BY <1>1, TreeTypes DEF Tree
  <2>2. et \in [1..MaxDepth -> Words \union {NoWord}] /\ et[d] = nodes[n].word
        /\ \A e \in 1..MaxDepth : e # d => et[e] = dt[e]
    BY <1>1, <1>2
  <2>3. et \in Seq(Words \union {NoWord}) /\ Len(et) = MaxDepth
    BY ONLY <1>2, <2>2
  <2> HIDE DEF q
  <2>4. \A e \in 1..d : q[e] = et[e]
    <3>1. \A e \in 1..((s.prod - 1) - b + 1) : path[n][e] = dt[e]
      <4>1. Ways(path, s, dt, b)
        BY DEF ListOK
      <4> QED
        BY ONLY <1>1, <4>1 DEF Ways
    <3>2. (s.prod - 1) - b + 1 = d - 1
      <4>1. s.prod \in Nat /\ b \in Nat
        BY StackDepths
      <4> QED
        BY ONLY <1>1, <4>1
    <3>3. \A e \in 1..d : e \in 1..MaxDepth /\ (e = d \/ (e # d /\ e \in 1..(d - 1)))
      BY ONLY <1>1, <1>2
    <3> QED
      BY ONLY <1>1, <2>2, <3>1, <3>2, <3>3 DEF q
  <2>5. w = q
    <3>1. /\ d \in 1..Len(et) /\ d \in Nat
      BY ONLY <1>1, <1>2, <2>3
    <3>2. w \in Seq(Words \union {NoWord}) /\ Len(w) = d /\ \A e \in 1..d : w[e] = et[e]
      BY ONLY <2>3, <3>1
    <3>3. q \in Seq(Words \union {NoWord})
      BY ONLY <2>1
    <3> HIDE DEF w
    <3> QED
      BY ONLY <2>1, <2>4, <3>2, <3>3
  <2> HIDE DEF w
  <2>6. {m \in F \union {n} : nodes[m].tail} = {m \in F : nodes[m].tail} \union {n}
    BY <1>4
  <2>7. called \in Seq(Seq(Words)) /\ l \in Nat /\ DOMAIN called = 1..l
        /\ ToSet(called) = {called[j] : j \in 1..l}
        /\ ToSet(called) = {path[m] : m \in {m \in F : nodes[m].tail}}
        /\ \A j, k \in 1..l : called[j] = called[k] => j = k
    <3>1. /\ called \in Seq(Seq(Words))
          /\ ToSet(called) = {path[m] : m \in {m \in F : nodes[m].tail}}
          /\ \A j, k \in DOMAIN called : called[j] = called[k] => j = k
      BY DEF Listed
    <3>2. l \in Nat /\ DOMAIN called = 1..l
      BY ONLY <3>1
    <3>3. ToSet(called) = {called[j] : j \in 1..l}
      BY ONLY <3>2 DEF ToSet
    <3> QED
      BY ONLY <3>1, <3>2, <3>3
  <2>8. w \in Seq(Words)
    BY <2>1, <2>5
  <2>9. c \in Seq(Seq(Words)) /\ DOMAIN c = 1..(l + 1) /\ c[l + 1] = w /\ \A j \in 1..l : c[j] = called[j]
    BY ONLY <2>7, <2>8
  <2> HIDE DEF c, l
  <2>10. /\ \A j \in 1..(l + 1) : j \in 1..l \/ j = l + 1
         /\ l + 1 \in 1..(l + 1) /\ \A j \in 1..l : j \in 1..(l + 1)
    BY ONLY <2>7
  <2>11. ToSet(c) = {c[j] : j \in 1..(l + 1)}
    BY <2>9 DEF ToSet
  <2>12. ToSet(c) = ToSet(called) \union {w}
    <3>1. \A x \in ToSet(c) : x \in ToSet(called) \union {w}
      BY ONLY <2>7, <2>9, <2>10, <2>11
    <3>2. w \in ToSet(c)
      BY ONLY <2>9, <2>10, <2>11
    <3>3. ToSet(called) \subseteq ToSet(c)
      BY ONLY <2>7, <2>9, <2>10, <2>11
    <3> QED
      BY ONLY <3>1, <3>2, <3>3
  <2>13. ToSet(c) = {path[m] : m \in {m \in F \union {n} : nodes[m].tail}}
    BY ONLY <2>5, <2>6, <2>7, <2>12 DEF q
  <2>14. \A m \in F : path[m] # w
    <3>1. \A m \in F : m \in NodeIds
      BY <1>2, TreeTypes DEF Made, NodeIds
    <3>2. \A m \in NodeIds : path[m] = path[n] => m = n
      BY <1>1 DEF Tree
    <3> QED
      BY ONLY <1>1, <2>5, <3>1, <3>2 DEF q
  <2>15. \A j \in 1..l : called[j] # w
    <3>1. \A j \in 1..l : called[j] \in {path[m] : m \in {m \in F : nodes[m].tail}}
      BY <2>7
    <3> QED
      BY <2>14, <3>1
  <2>16. \A j, k \in DOMAIN c : c[j] = c[k] => j = k
    BY ONLY <2>7, <2>9, <2>10, <2>15
  <2> QED
    BY <1>4, <2>9, <2>13, <2>16 DEF Listed, c, w
<1> QED
  BY <1>3, <1>4

LEMMA ListAll ==
  ASSUME NEW path, Tree(path), NEW s, NEW ix, NEW dt, NEW b, NEW F,
         s.prod = 0, ListOK(path, s, ix, dt, b, F)
  PROVE  F = Made
<1>1. b = 0 /\ F \subseteq Made
  BY DEF ListOK, ListTypes, Through
<1>2. Root \in NodeIds /\ \A n \in NodeIds : Kids(n) \in Seq(Nat)
  BY TreeTypes
<1>3. /\ \A j \in DOMAIN Kids(Root) : Kids(Root)[j] \in F
      /\ \A n \in F : \A j \in DOMAIN Kids(n) : Kids(n)[j] \in F
  <2>1. \A j \in (b + 1)..Len(Kids(Root)) : Kids(Root)[j] \in F
    BY DEF ListOK, Through
  <2>2. \A j \in DOMAIN Kids(Root) : j \in (b + 1)..Len(Kids(Root))
    BY ONLY <1>1, <1>2
  <2> QED
    BY <2>1, <2>2 DEF ListOK, Through
<1>4. SUFFICES ASSUME F # Made
               PROVE  FALSE
  OBVIOUS
<1>5. Made \ F # {} /\ Made \ F \subseteq Nat
  <2>1. Made \subseteq Nat
    BY DEF Made
  <2> QED
    BY ONLY <1>1, <1>4, <2>1
<1>6. PICK n \in Made \ F : \A m \in Made \ F : n <= m
  BY <1>5, LeastNat
<1>7. PICK m \in NodeIds : \E j \in DOMAIN Kids(m) : Kids(m)[j] = n
  BY DEF Tree
<1>8. PICK j \in DOMAIN Kids(m) : Kids(m)[j] = n
  BY <1>7
<1>9. n > m /\ m \in Nat /\ n \in Nat /\ (m \in Made <=> m # Root)
  BY <1>8, TreeTypes DEF Made
<1>10. m # Root
  BY <1>3, <1>8
<1>11. m \in F
  <2>1. m \notin Made \ F
    BY <1>6, <1>9
  <2> QED
    BY <1>9, <1>10, <2>1
<1> QED
  BY <1>3, <1>8, <1>11

LEMMA ListedAll ==
  ASSUME NEW path, Tree(path), NEW called, Listed(path, Made, called)
  PROVE  /\ ToSet(called) = Ends(path) \ {<<>>}
         /\ Len(called) = Cardinality(ToSet(called))
<1>1. /\ path[Root] = <<>> /\ Root \in NodeIds
      /\ \A n \in NodeIds : n \in Made <=> n # Root
      /\ \A n \in Made : n \in NodeIds
      /\ \A n \in NodeIds : path[n] = path[Root] => n = Root
  <2>1. /\ Root \in NodeIds /\ \A n \in NodeIds : n \in Made <=> n # Root
    BY TreeTypes
  <2>2. \A n \in Made : n \in NodeIds
    BY DEF Made, NodeIds
  <2>3. path[Root] = <<>> /\ \A n, m \in NodeIds : path[n] = path[m] => n = m
    BY DEF Tree
  <2> QED
    BY ONLY <2>1, <2>2, <2>3
<1>2. ToSet(called) = {path[n] : n \in {m \in Made : nodes[m].tail}}
  BY DEF Listed
<1>3. Ends(path) = {path[n] : n \in {m \in NodeIds : nodes[m].tail}}
  BY DEF Ends
<1>4. ToSet(called) = Ends(path) \ {<<>>}
  BY ONLY <1>1, <1>2, <1>3
<1>5. Len(called) = Cardinality(ToSet(called))
  BY ElementsCounted DEF Listed
<1> QED
  BY <1>4, <1>5
-----------------------------------------------------------------------------
(* The invariant of the whole, and what follows from it.                   *)

PopWalks == {"path_entry", "each_entry", "uinit"}

Walked(path) ==
  /\ StackShape(stack)
  /\ op.name \in PopWalks => \E V : Visits(V, stack) /\ Shows(V, shown, op.name)
  /\ op.name = "path_list" =>
       \E b, F : ListOK(path, stack, index, data, b, F) /\ Listed(path, F, shown)
  /\ op.name \in Walks /\ op.phase = "complete" => StackEmpty(stack)

TrieInv(path) == Insertions(path) /\ Walked(path)
Inv == \E path : TrieInv(path)

LEMMA WalkNames ==
  /\ \A w \in Walks : w \in PopWalks \/ w = "path_list"
  /\ "path_list" \notin PopWalks /\ PopWalks \subseteq Walks /\ "insert" \notin Walks
  BY DEF Walks, PopWalks

\* An insertion leaves the stack of the walk before it alone.
LEMMA InsertingWalks ==
  ASSUME NEW path, Walked(path), UNCHANGED walkVars, op'.name = "insert", NEW q
  PROVE  Walked(q)'
  BY DEF Walked, walkVars, PopWalks, Walks, StackShape

\* Nothing of the tree changes in a walk: what holds of the values to come
\* holds of them then.
LEMMA VisitsThen ==
  ASSUME UNCHANGED <<nodes, total>>, NEW V, NEW s, s = stack', NEW called, called = shown',
         NEW walk, walk = op'.name, Visits(V, s), Shows(V, called, walk)
  PROVE  (Visits(V, stack) /\ Shows(V, shown, op.name))'
  BY DEF Visits, Shows, Shown, Apart, OnStack, NodeIds, Kids

LEMMA ListThen ==
  ASSUME UNCHANGED <<nodes, total>>, NEW path, NEW s, s = stack', NEW ix, ix = index',
         NEW dt, dt = data', NEW called, called = shown', NEW b, NEW F,
         ListOK(path, s, ix, dt, b, F), Listed(path, F, called)
  PROVE  (ListOK(path, stack, index, data, b, F) /\ Listed(path, F, shown))'
<1>1. ListTypes(stack, index, data, b)'
  BY DEF ListOK, ListTypes, OnStack, Made, Kids
<1>2. Layout(stack, index, b)'
  BY DEF ListOK, Layout, Ix, Kids
<1>3. Ways(path, stack, data, b)'
  BY DEF ListOK, Ways, Chain
<1>4. Places(stack, index, b, F)'
  BY DEF ListOK, Places, Chain, Ix, Kids
<1>5. Through(stack, b, F)'
  BY DEF ListOK, Through, Chain, Made, OnStack, Kids
<1>6. Listed(path, F, shown)'
  BY DEF Listed
<1> QED
  BY <1>1, <1>2, <1>3, <1>4, <1>5, <1>6 DEF ListOK

LEMMA ShapeThen ==
  ASSUME NEW s, s = stack', StackShape(s)
  PROVE  StackShape(stack)'
  BY DEF StackShape

LEMMA WalkBegun ==
  ASSUME NEW path, TrieInv(path), NEW w \in Walks, BeginWalk(w)
  PROVE  TrieInv(path)'
<1>1. /\ op' = [name |-> w, phase |-> "busy"] /\ UNCHANGED <<nodes, total, inserted>>
      /\ stack' = Pushed(StackCreate(total), Kids(Root))
      /\ index' = NoIndex /\ data' = NoData /\ shown' = <<>>
  BY DEF BeginWalk, trieVars
<1>2. Tree(path) /\ inserted = Ends(path)
  BY DEF TrieInv, Insertions
<1>3. Insertions(path)'
  <2>1. OpShape' /\ op'.name # "insert"
    BY <1>1, WalkNames DEF OpShape
  <2>2. InsertOK(path)'
    BY <2>1 DEF InsertOK, Inserting
  <2> QED
    BY <1>1, <1>2, <2>1, <2>2, TreeKept DEF Insertions
<1>4. PICK s : s = stack'
  OBVIOUS
<1>5. s = Pushed(StackCreate(total), Kids(Root))
  BY <1>1, <1>4
<1>6. StackShape(stack)'
  BY <1>2, <1>4, <1>5, FirstStack, ShapeThen
<1>7. op'.name = w /\ op'.phase = "busy"
  BY <1>1
<1>8. (Visits({Root}, stack) /\ Shows({Root}, shown, op.name))'
  <2>1. Visits({Root}, s) /\ Shows({Root}, <<>>, w)
    BY <1>2, <1>5, VisitsBegun
  <2> QED
    BY <1>1, <1>4, <1>7, <2>1, VisitsThen
<1>9. \E b, F : (ListOK(path, stack, index, data, b, F) /\ Listed(path, F, shown))'
  <2>1. PICK b : b = Len(Kids(Root))
    OBVIOUS
  <2>2. ListOK(path, s, NoIndex, NoData, b, {}) /\ Listed(path, {}, <<>>)
    BY <1>2, <1>5, <2>1, ListBegun
  <2>3. (ListOK(path, stack, index, data, b, {}) /\ Listed(path, {}, shown))'
    BY ONLY <1>1, <1>4, <2>2, ListThen
  <2> QED
    BY <2>3
<1>10. Walked(path)'
  BY <1>6, <1>7, <1>8, <1>9 DEF Walked
<1> QED
  BY <1>3, <1>10 DEF TrieInv

\* A callback, or none: the walk goes on or is ended.
LEMMA CalledBack ==
  ASSUME NEW path, TrieInv(path), Walking, UNCHANGED <<nodes, total, inserted>>,
         \/ op' = op
         \/ \E ret \in {"over", "overrun", "complete"} : op' = [op EXCEPT !.phase = ret]
  PROVE  Insertions(path)' /\ op'.name = op.name
<1>1. Insertions(path)
  BY DEF TrieInv
<1>2. CASE op' = op
  <2>1. OpShape' /\ InsertOK(path)'
    BY <1>1, <1>2, WalkNames DEF OpShape, InsertOK, Insertions, Walking, Inserting
  <2> QED
    BY <1>1, <1>2, <2>1, TreeKept DEF Insertions
<1>3. ASSUME NEW ret \in {"over", "overrun", "complete"}, op' = [op EXCEPT !.phase = ret]
      PROVE  Insertions(path)' /\ op'.name = op.name
  <2>1. op'.name = op.name
    BY <1>1, <1>3 DEF Insertions, OpShape
  <2> QED
    BY <1>1, <1>3, <2>1, Returned
<1> QED
  BY <1>2, <1>3

LEMMA PopDone ==
  ASSUME NEW path, TrieInv(path), Pop
  PROVE  TrieInv(path)'
<1>1. PICK n : n = StackTop(stack)
  OBVIOUS
<1>2. /\ Walking /\ op.name # "path_list" /\ ~StackEmpty(stack)
      /\ stack' = Pushed(Destack(stack), Kids(n))
      /\ IF op.name = "path_entry" /\ ~nodes[n].tail THEN NoCallback ELSE CallsBack(n)
      /\ UNCHANGED <<nodes, total, inserted>>
  BY <1>1 DEF Pop, trieVars
<1>3. /\ \/ op' = op
         \/ op' = [op EXCEPT !.phase = "over"]
      /\ shown' = IF op.name = "path_entry" /\ ~nodes[n].tail THEN shown ELSE Append(shown, n)
  BY <1>2 DEF NoCallback, CallsBack, Return
<1>4. Insertions(path)' /\ op'.name = op.name
  BY <1>2, <1>3, CalledBack
<1>5. Tree(path) /\ StackShape(stack)
  BY DEF TrieInv, Insertions, Walked
<1>6. op.name \in PopWalks /\ op.name # "path_list" /\ op.phase = "busy"
  BY <1>2, WalkNames DEF Walking
<1>7. PICK V : Visits(V, stack) /\ Shows(V, shown, op.name)
  BY <1>6 DEF TrieInv, Walked
<1>8. PICK s, called, walk : s = stack' /\ called = shown' /\ walk = op'.name
  OBVIOUS
<1>9. StackShape(s) /\ Visits(V \union {n}, s)
  BY <1>1, <1>2, <1>5, <1>7, <1>8, VisitsOne
<1>10. Shows(V \union {n}, called, walk)
  <2>1. n \in OnStack(stack)
    BY <1>1, <1>2, <1>5, StackTaken
  <2> QED
    BY <1>3, <1>4, <1>5, <1>7, <1>8, <2>1, ShowsOne
<1>11. (Visits(V \union {n}, stack) /\ Shows(V \union {n}, shown, op.name))'
  BY <1>2, <1>8, <1>9, <1>10, VisitsThen
<1>12. StackShape(stack)'
  BY <1>8, <1>9, ShapeThen
<1>13. op'.phase # "complete"
  <2>1. OpShape
    BY DEF TrieInv, Insertions
  <2> QED
    BY <1>3, <1>6, <2>1 DEF OpShape
<1>14. Walked(path)'
  BY <1>4, <1>6, <1>11, <1>12, <1>13 DEF Walked
<1> QED
  BY <1>4, <1>14 DEF TrieInv

LEMMA PathTurned ==
  ASSUME NEW path, TrieInv(path), PathTurn
  PROVE  TrieInv(path)'
<1>1. PICK n, d, k : n = StackTop(stack) /\ d = nodes[n].depth /\ k = index[d] + 1
  OBVIOUS
<1>2. /\ Walking /\ op.name = "path_list" /\ ~StackEmpty(stack)
      /\ UNCHANGED <<nodes, total, inserted>>
  BY DEF PathTurn, trieVars
<1>3. Tree(path) /\ StackShape(stack) /\ OpShape
  BY DEF TrieInv, Insertions, Walked
<1>4. PICK b, F : ListOK(path, stack, index, data, b, F) /\ Listed(path, F, shown)
  BY <1>2 DEF TrieInv, Walked
<1>5. op.name \notin PopWalks /\ op.phase = "busy"
  BY <1>2, WalkNames DEF Walking
<1>6. CASE d >= MaxDepth
  <2>1. op' = [op EXCEPT !.phase = "overrun"] /\ UNCHANGED <<stack, index, data, shown>>
    BY <1>1, <1>6 DEF PathTurn, walkVars
  <2>2. Insertions(path)' /\ op'.name = op.name
    BY <1>2, <2>1, CalledBack
  <2>3. op'.phase # "complete"
    BY <1>3, <2>1 DEF OpShape
  <2>4. StackShape(stack)'
    BY <1>3, <2>1 DEF StackShape
  <2>5. (ListOK(path, stack, index, data, b, F) /\ Listed(path, F, shown))'
    BY <1>2, <1>4, <2>1, ListThen
  <2> QED
    BY <1>2, <1>5, <2>2, <2>3, <2>4, <2>5 DEF Walked, TrieInv
<1>7. CASE ~(d >= MaxDepth)
  <2>1. PICK s, jx, et, called : s = stack' /\ jx = index' /\ et = data' /\ called = shown'
    OBVIOUS
  <2>2. /\ et = [data EXCEPT ![d] = nodes[n].word]
        /\ IF k <= Len(Kids(n))
           THEN /\ jx = [index EXCEPT ![d] = k] /\ s = Enstack(stack, Kids(n)[k])
                /\ called = shown /\ op' = op
           ELSE /\ jx = [index EXCEPT ![d] = 0] /\ s = Destack(stack)
                /\ IF nodes[n].tail
                   THEN /\ called = Append(shown, SubSeq(et, 1, d))
                        /\ (op' = op \/ op' = [op EXCEPT !.phase = "over"])
                   ELSE called = shown /\ op' = op
    BY <1>1, <1>7, <2>1 DEF PathTurn, NextChild, Reset, NoCallback, CallsBack, Return
  <2>3. Insertions(path)' /\ op'.name = op.name
    BY <1>2, <2>2, CalledBack
  <2>4. op'.phase # "complete"
    BY <1>3, <1>5, <2>2 DEF OpShape
  <2>5. d < MaxDepth
    <3>1. d \in 1..MaxDepth
      BY <1>1, <1>2, <1>3, <1>4, ListTop
    <3> QED
      BY ONLY <1>7, <3>1, DepthType
  <2>6. CASE k <= Len(Kids(n))
    <3>1. StackShape(s) /\ ListOK(path, s, jx, et, b, F)
      <4>1. /\ Tree(path) /\ StackShape(stack) /\ ~StackEmpty(stack)
            /\ ListOK(path, stack, index, data, b, F)
        BY <1>2, <1>3, <1>4
      <4>2. n = StackTop(stack) /\ d = nodes[n].depth /\ k = index[d] + 1
        BY <1>1
      <4>3. /\ s = Enstack(stack, Kids(n)[k]) /\ jx = [index EXCEPT ![d] = k]
            /\ et = [data EXCEPT ![d] = nodes[n].word]
        BY <2>2, <2>6
      <4>4. TurnsDown(path, stack, index, data, b, F, n, d, k, s, jx, et)
        BY ONLY <2>5, <2>6, <4>1, <4>2, <4>3 DEF TurnsDown
      <4> QED
        BY ONLY <4>4, ListDown
    <3>2. Listed(path, F, called)
      BY <1>4, <2>2, <2>6
    <3>3. (ListOK(path, stack, index, data, b, F) /\ Listed(path, F, shown))'
      BY <1>2, <2>1, <3>1, <3>2, ListThen
    <3>4. StackShape(stack)'
      BY <2>1, <3>1, ShapeThen
    <3> QED
      BY <1>2, <1>5, <2>3, <2>4, <3>3, <3>4 DEF Walked, TrieInv
  <2>7. CASE ~(k <= Len(Kids(n)))
    <3>1. PICK a : a = Below(stack, b)
      OBVIOUS
    <3>2. StackShape(s) /\ ListOK(path, s, jx, et, a, F \union {n})
      <4>1. /\ Tree(path) /\ StackShape(stack) /\ ~StackEmpty(stack)
            /\ ListOK(path, stack, index, data, b, F)
        BY <1>2, <1>3, <1>4
      <4>2. n = StackTop(stack) /\ d = nodes[n].depth /\ ~(index[d] + 1 <= Len(Kids(n)))
        BY <1>1, <2>7
      <4>3. /\ s = Destack(stack) /\ jx = [index EXCEPT ![d] = 0]
            /\ et = [data EXCEPT ![d] = nodes[n].word]
        BY <2>2, <2>7
      <4>4. TurnsUp(path, stack, index, data, b, F, n, d, s, jx, et, a)
        BY ONLY <2>5, <3>1, <4>1, <4>2, <4>3 DEF TurnsUp
      <4> QED
        BY ONLY <4>4, ListUp
    <3>3. Listed(path, F \union {n}, called)
      <4>1. /\ ~nodes[n].tail => Listed(path, F \union {n}, shown)
            /\ nodes[n].tail => Listed(path, F \union {n}, Append(shown, SubSeq(et, 1, d)))
        BY ONLY <1>1, <1>2, <1>3, <1>4, <2>2, ListedOne
      <4> QED
        BY <2>2, <2>7, <4>1
    <3>4. (ListOK(path, stack, index, data, a, F \union {n}) /\ Listed(path, F \union {n}, shown))'
      BY <1>2, <2>1, <3>2, <3>3, ListThen
    <3>5. StackShape(stack)'
      BY <2>1, <3>2, ShapeThen
    <3> QED
      BY <1>2, <1>5, <2>3, <2>4, <3>4, <3>5 DEF Walked, TrieInv
  <2> QED
    BY <2>6, <2>7
<1> QED
  BY <1>6, <1>7

\* The walk is at its end, or is left.
LEMMA WalkEnded ==
  ASSUME NEW path, TrieInv(path), NEW ret \in {"complete", "over"}, Return(ret),
         UNCHANGED <<nodes, total, inserted, walkVars>>, ret = "complete" => StackEmpty(stack)
  PROVE  TrieInv(path)'
<1>1. op' = [op EXCEPT !.phase = ret]
  BY DEF Return
<1>2. op'.name = op.name /\ op'.phase = ret
  BY <1>1 DEF TrieInv, Insertions, OpShape
<1>3. Insertions(path)'
  BY <1>1, Returned DEF TrieInv
<1>4. UNCHANGED <<stack, index, data, shown>>
  BY DEF walkVars
<1>5. StackShape(stack)' /\ (ret = "complete" => StackEmpty(stack)')
  BY <1>4 DEF TrieInv, Walked, StackShape, StackEmpty
<1>6. ASSUME op.name \in PopWalks
      PROVE  \E V : (Visits(V, stack) /\ Shows(V, shown, op.name))'
  <2>1. PICK V : Visits(V, stack) /\ Shows(V, shown, op.name)
    BY <1>6 DEF TrieInv, Walked
  <2>2. (Visits(V, stack) /\ Shows(V, shown, op.name))'
    BY <1>2, <1>4, <2>1, VisitsThen
  <2> QED
    BY <2>2
<1>7. ASSUME op.name = "path_list"
      PROVE  \E b, F : (ListOK(path, stack, index, data, b, F) /\ Listed(path, F, shown))'
  <2>1. PICK b, F : ListOK(path, stack, index, data, b, F) /\ Listed(path, F, shown)
    BY <1>7 DEF TrieInv, Walked
  <2>2. (ListOK(path, stack, index, data, b, F) /\ Listed(path, F, shown))'
    BY <1>4, <2>1, ListThen
  <2> QED
    BY <2>2
<1>8. Walked(path)'
  BY <1>2, <1>5, <1>6, <1>7 DEF Walked
<1> QED
  BY <1>3, <1>8 DEF TrieInv

LEMMA InvInit == Init => Inv
<1> SUFFICES ASSUME Init
             PROVE  Inv
  OBVIOUS
<1>1. PICK path : path = [n \in {Root} |-> <<>>]
  OBVIOUS
<1>2. Insertions(path)
  BY <1>1, InsertionsInit
<1>3. op.name = "none" /\ stack = StackCreate(0)
  BY DEF Init, Idle
<1>4. StackShape(stack)
  <2>1. [i \in 0..(0 - 1) |-> 0] \in [0..(0 - 1) -> Nat] /\ 0 \in 0..0
    OBVIOUS
  <2> QED
    BY ONLY <1>3, <2>1 DEF StackShape, Stacks, StackCreate, Nothing
<1>5. Walked(path)
  BY <1>3, <1>4 DEF Walked, PopWalks, Walks
<1> QED
  BY <1>2, <1>5 DEF TrieInv, Inv

LEMMA InvNext == Inv /\ [Next]_vars => Inv'
<1> SUFFICES ASSUME Inv, [Next]_vars
             PROVE  Inv'
  OBVIOUS
<1>1. PICK path : TrieInv(path)
  BY DEF Inv
<1>2. Insertions(path) /\ Walked(path)
  BY <1>1 DEF TrieInv
<1>3. ASSUME NEW q, Insertions(q)', UNCHANGED walkVars, op'.name = "insert"
      PROVE  Inv'
  BY <1>2, <1>3, InsertingWalks DEF TrieInv, Inv
<1>4. ASSUME TrieInv(path)'
      PROVE  Inv'
  BY <1>4 DEF Inv
<1>5. ASSUME NEW p \in Patterns, BeginInsert(p)
      PROVE  Inv'
  <2>1. Insertions(path)'
    BY <1>2, <1>5, InsertBegun
  <2>2. UNCHANGED walkVars /\ op'.name = "insert"
    BY <1>5 DEF BeginInsert
  <2> QED
    BY <1>3, <2>1, <2>2
<1>6. ASSUME Inserting
      PROVE  op.name = "insert" /\ (\A ret : op' = [op EXCEPT !.phase = ret] => op'.name = "insert")
             /\ \A x, y : op' = [op EXCEPT !.at = x, !.search = y] => op'.name = "insert"
  <2>1. op.name = "insert"
        /\ op = [name |-> "insert", phase |-> "busy", pattern |-> op.pattern,
                 at |-> op.at, search |-> op.search]
    BY <1>2, <1>6 DEF Inserting, Insertions, InsertOK
  <2> QED
    BY <2>1
<1>7. CASE Descend
  <2>1. Insertions(path)' /\ Inserting /\ UNCHANGED walkVars
    BY <1>2, <1>7, Descended DEF Descend
  <2>2. op'.name = "insert"
    BY <1>6, <1>7, <2>1 DEF Descend
  <2> QED
    BY <1>3, <2>1, <2>2
<1>8. CASE NewNode
  <2>1. PICK q : Insertions(q)'
    BY <1>2, <1>8, NodeMade
  <2>2. Inserting /\ UNCHANGED walkVars
    BY <1>8 DEF NewNode
  <2>3. op'.name = "insert"
    BY <1>6, <1>8, <2>2 DEF NewNode
  <2> QED
    BY <1>3, <2>1, <2>2, <2>3
<1>9. CASE NoMemory
  <2>1. Inserting /\ UNCHANGED walkVars /\ UNCHANGED <<nodes, total, inserted>>
        /\ op' = [op EXCEPT !.phase = "over"]
    BY <1>9 DEF NoMemory, trieVars
  <2>2. Insertions(path)' /\ op'.name = "insert"
    BY <1>2, <1>6, <2>1, Returned
  <2> QED
    BY <1>3, <2>1, <2>2
<1>10. CASE Finish
  <2>1. Insertions(path)' /\ Inserting /\ UNCHANGED walkVars
        /\ op' = [op EXCEPT !.phase = "over"]
    BY <1>2, <1>10, Finished DEF Finish
  <2>2. op'.name = "insert"
    BY <1>6, <2>1
  <2> QED
    BY <1>3, <2>1, <2>2
<1>11. ASSUME NEW w \in Walks, BeginWalk(w)
       PROVE  Inv'
  BY <1>1, <1>4, <1>11, WalkBegun
<1>12. CASE Pop
  BY <1>1, <1>4, <1>12, PopDone
<1>13. CASE PathTurn
  BY <1>1, <1>4, <1>13, PathTurned
<1>14. CASE WalkOver
  <2>1. StackEmpty(stack) /\ Return("complete") /\ UNCHANGED <<nodes, total, inserted, walkVars>>
    BY <1>14 DEF WalkOver, trieVars
  <2> QED
    BY <1>1, <1>4, <2>1, WalkEnded
<1>15. CASE Leave
  <2>1. Return("over") /\ UNCHANGED <<nodes, total, inserted, walkVars>>
    BY <1>15 DEF Leave, trieVars
  <2> QED
    BY <1>1, <1>4, <2>1, WalkEnded
<1>16. CASE UNCHANGED vars
  <2>1. UNCHANGED <<nodes, total, inserted, op, stack, index, data, shown>>
    BY <1>16 DEF vars, trieVars, walkVars
  <2>2. Insertions(path)'
    BY <1>2, <2>1, TreeKept DEF Insertions, OpShape, InsertOK, Inserting
  <2>3. StackShape(stack)'
    BY <1>2, <2>1 DEF Walked, StackShape
  <2>4. ASSUME NEW V, Visits(V, stack) /\ Shows(V, shown, op.name)
        PROVE  (Visits(V, stack) /\ Shows(V, shown, op.name))'
    BY <2>1, <2>4, VisitsThen
  <2>5. ASSUME NEW b, NEW F, ListOK(path, stack, index, data, b, F) /\ Listed(path, F, shown)
        PROVE  (ListOK(path, stack, index, data, b, F) /\ Listed(path, F, shown))'
    BY <2>1, <2>5, ListThen
  <2>6. Walked(path)'
    BY <1>2, <2>1, <2>3, <2>4, <2>5 DEF Walked, StackEmpty
  <2> QED
    BY <1>4, <2>2, <2>6 DEF TrieInv
<1> QED
  BY <1>5, <1>7, <1>8, <1>9, <1>10, <1>11, <1>12, <1>13, <1>14, <1>15, <1>16 DEF Next, Turn

\* Invariance: the nodes are a tree whose ways the inserted patterns are, and
\* a walk has shown what it visited and has the rest on its stack (trie.c).
THEOREM Invariance == Spec => []Inv
<1>1. Init => Inv
  BY InvInit
<1>2. Inv /\ [Next]_vars => Inv'
  BY InvNext
<1> QED
  BY <1>1, <1>2, PTL DEF Spec

\* A pattern is found from the moment its insertion succeeds, and no other
\* is, for any patterns (trie_insert, tire_found).
THEOREM PatternsFound == Spec => []FoundIffInserted
<1>1. Inv => FoundIffInserted
  <2> SUFFICES ASSUME Inv, NEW p \in Patterns
               PROVE  Found(p) <=> p \in inserted
    BY DEF FoundIffInserted
  <2>1. PICK path : Tree(path) /\ inserted = Ends(path)
    BY DEF Inv, TrieInv, Insertions
  <2> QED
    BY <2>1, PatternType, FoundIsEnd
<1> QED
  BY <1>1, Invariance, PTL

\* The stack never refuses a node and never leaves its cells, whatever
\* insertions failed before the walk (sp_enstack, sp_destack).
THEOREM StackSuffices == Spec => []StackHoldsWalk
<1>1. Inv => StackHoldsWalk
  <2> SUFFICES ASSUME Inv
               PROVE  StackHoldsWalk
    OBVIOUS
  <2>1. StackShape(stack)
    BY DEF Inv, TrieInv, Walked
  <2> QED
    BY <2>1 DEF StackHoldsWalk, StackOK, StackShape, Stacks
<1> QED
  BY <1>1, Invariance, PTL

\* A walk that no callback ends shows what it should, each once, and a node
\* before its children (trie_path_list, trie_path_entry,
\* trie_each_entry_accord_hierarchy, trie_uinit).
THEOREM WalksComplete == Spec => []WalksShowAll
<1>1. Inv => WalksShowAll
  <2> SUFFICES ASSUME Inv, op.name \in Walks, op.phase = "complete"
               PROVE  /\ ToSet(shown) = Due /\ Len(shown) = Cardinality(Due)
                      /\ op.name \in {"each_entry", "uinit"} =>
                           \A j, k \in DOMAIN shown : shown[k] \in ToSet(Kids(shown[j])) => j < k
    BY DEF WalksShowAll
  <2>1. PICK path : TrieInv(path)
    BY DEF Inv
  <2>2. Tree(path) /\ inserted = Ends(path) /\ StackShape(stack) /\ StackEmpty(stack)
    BY <2>1 DEF TrieInv, Insertions, Walked
  <2>3. stack.prod = 0 /\ OnStack(stack) = {}
    BY <2>2, EmptyStack
  <2>4. CASE op.name \in PopWalks
    <3>1. PICK V : Visits(V, stack) /\ Shows(V, shown, op.name)
      BY <2>1, <2>4 DEF TrieInv, Walked
    <3>2. V = NodeIds
      BY <2>2, <2>3, <3>1, VisitsAll
    <3>3. NodeIds \ {Root} = Made
      BY <2>2, TreeTypes DEF NodeIds, Made, Root
    <3>4. ToSet(shown) = Due
      BY <2>4, <3>1, <3>2, <3>3, WalkNames DEF Shows, Shown, Due, PopWalks
    <3>5. Len(shown) = Cardinality(ToSet(shown))
      BY <3>1, ElementsCounted DEF Shows
    <3> QED
      BY <3>1, <3>4, <3>5 DEF Shows
  <2>5. CASE op.name = "path_list"
    <3>1. PICK b, F : ListOK(path, stack, index, data, b, F) /\ Listed(path, F, shown)
      BY <2>1, <2>5 DEF TrieInv, Walked
    <3>2. F = Made
      BY <2>2, <2>3, <3>1, ListAll
    <3>3. ToSet(shown) = Ends(path) \ {<<>>} /\ Len(shown) = Cardinality(ToSet(shown))
      BY <2>2, <3>1, <3>2, ListedAll
    <3>4. Due = inserted \ {<<>>}
      BY <2>5 DEF Due
    <3> QED
      BY <2>2, <2>5, <3>3, <3>4
  <2> QED
    BY <2>4, <2>5, WalkNames
<1> QED
  BY <1>1, Invariance, PTL
=============================================================================
