--------------------------- MODULE MaskRuleProofs ---------------------------
(***************************************************************************)
(* MaskRule for every value of its constants: the node pool, the id list   *)
(* and the priority lists fit together, whatever is added and deleted in   *)
(* whatever order and whatever a pass does meanwhile. Then what a pass     *)
(* relies on and achieves: the lists are in the order of the ids,          *)
(* additions alone never mislead the cursor, no output is driven both      *)
(* ways, and the rules called are those that priority and age choose.      *)
(***************************************************************************)
EXTENDS MaskRule, FunctionTheorems, FiniteSetTheorems, TLAPS

-----------------------------------------------------------------------------
(* The rule set as a record.                                               *)

Rule == [valid : BOOLEAN, effect : BOOLEAN, rule_id : 0..(IdMod - 1),
         priority : 0..(NumPrio - 1), type : {"flex", "fuzz"},
         imask : Mask, omask : Mask]

Link == -NumPrio..Cap

RuleSets ==
  [rule_cnt : 0..Cap, rule_id : 0..(IdMod - 1),
   idList : [Node -> Node], idLast : 0..Cap,
   prioList : [Prios -> Seq(Node)], prioLast : [Prios -> Link],
   rule_num : [Prios -> 0..(NumMod - 1)],
   oldNext : [Node -> Link], node : [Node -> Rule]]

\* Every node is on the id list, once.
IdListWhole(r) ==
  /\ \A j, k \in Node : r.idList[j] = r.idList[k] => j = k
  /\ \A n \in Node : \E k \in Node : r.idList[k] = n

UsedInFront(r) ==
  /\ \A k \in Node : r.node[r.idList[k]].valid <=> k <= r.rule_cnt
  /\ r.idLast = IF r.rule_cnt = 0 THEN 0 ELSE r.idList[r.rule_cnt]

\* What is on a list belongs there, and is there once.
OnRightList(r) ==
  \A p \in Prios : \A k \in DOMAIN r.prioList[p] :
    LET n == r.prioList[p][k]
    IN /\ r.node[n].valid /\ r.node[n].priority = p
       /\ \A j \in DOMAIN r.prioList[p] : r.prioList[p][j] = n => j = k

UsedIsListed(r) ==
  \A n \in Node : r.node[n].valid =>
    /\ r.node[n].priority \in Prios
    /\ \E k \in DOMAIN r.prioList[r.node[n].priority] :
         r.prioList[r.node[n].priority][k] = n

Sound(r) ==
  /\ r \in RuleSets
  /\ IdListWhole(r) /\ UsedInFront(r) /\ OnRightList(r) /\ UsedIsListed(r)

LEMMA EmptySound == Sound(Empty)
<1> USE MaskRuleAssumption
<1>1. Empty \in RuleSets
  <2>1. [n \in Node |->
                  [valid |-> FALSE, effect |-> FALSE, rule_id |-> 0, priority |-> 0,
                   type |-> "flex", imask |-> NoMask, omask |-> NoMask]] \in [Node -> Rule]
    BY DEF Rule, NoMask, Mask
  <2>2. [k \in Node |-> Cap + 1 - k] \in [Node -> Node]
    BY DEF Node
  <2>3. [p \in Prios |-> <<>>] \in [Prios -> Seq(Node)]
    OBVIOUS
  <2>4. /\ [p \in Prios |-> -p] \in [Prios -> Link]
        /\ [n \in Node |-> 0] \in [Node -> Link]
        /\ [p \in Prios |-> 0] \in [Prios -> 0..(NumMod - 1)]
    BY DEF Prios, Link, NumMod
  <2>5. 0 \in 0..Cap /\ 0 \in 0..(IdMod - 1)
    OBVIOUS
  <2> QED
    BY <2>1, <2>2, <2>3, <2>4, <2>5 DEF Empty, RuleSets
<1>2. IdListWhole(Empty)
  <2>1. \A j, k \in Node : Empty.idList[j] = Empty.idList[k] => j = k
    BY DEF Empty, Node
  <2>2. ASSUME NEW n \in Node PROVE \E k \in Node : Empty.idList[k] = n
    <3>1. Cap + 1 - n \in Node /\ Cap + 1 - (Cap + 1 - n) = n
      BY DEF Node
    <3>2. Empty.idList[Cap + 1 - n] = n
      BY <3>1 DEF Empty
    <3> QED
      BY <3>1, <3>2
  <2> QED
    BY <2>1, <2>2 DEF IdListWhole
<1>3. UsedInFront(Empty)
  <2>1. \A k \in Node : Cap + 1 - k \in Node /\ ~(k <= 0)
    BY DEF Node
  <2> QED
    BY <2>1 DEF UsedInFront, Empty
<1>4. OnRightList(Empty) /\ UsedIsListed(Empty)
  BY DEF OnRightList, UsedIsListed, Empty
<1> QED
  BY <1>1, <1>2, <1>3, <1>4 DEF Sound

\* Marks of a pass are no part of it.
LEMMA MarkSound ==
  ASSUME NEW r, Sound(r), NEW n \in Node, NEW b \in BOOLEAN
  PROVE  Sound([r EXCEPT !.node[n].effect = b])
<1> DEFINE s == [r EXCEPT !.node[n].effect = b]
<1>1. r \in RuleSets /\ r.node \in [Node -> Rule]
  BY DEF Sound, RuleSets
<1>2. /\ s \in RuleSets
      /\ s.rule_cnt = r.rule_cnt /\ s.rule_id = r.rule_id /\ s.idList = r.idList
      /\ s.idLast = r.idLast /\ s.prioList = r.prioList
      /\ s.node = [r.node EXCEPT ![n].effect = b]
  <2> DEFINE rule == [r.node[n] EXCEPT !.effect = b]
             node == [r.node EXCEPT ![n] = rule]
  <2>1. rule \in Rule /\ node = [r.node EXCEPT ![n].effect = b]
    BY <1>1 DEF Rule
  <2>2. node \in [Node -> Rule]
    BY <1>1, <2>1
  <2>3. s = [r EXCEPT !.node = node]
    OBVIOUS
  <2> HIDE DEF node, s
  <2> QED
    BY <1>1, <2>1, <2>2, <2>3 DEF RuleSets
<1> HIDE DEF s
<1>3. \A m \in Node : s.node[m].valid = r.node[m].valid
                      /\ s.node[m].priority = r.node[m].priority
  BY <1>1, <1>2 DEF Rule
<1>4. IdListWhole(s)
  BY <1>2 DEF Sound, IdListWhole
<1>5. UsedInFront(s)
  BY <1>1, <1>2, <1>3 DEF Sound, UsedInFront, RuleSets
<1>6. OnRightList(s)
  <2>1. \A p \in Prios : \A k \in DOMAIN r.prioList[p] : r.prioList[p][k] \in Node
    BY <1>1 DEF RuleSets
  <2> QED
    BY <1>2, <1>3, <2>1 DEF Sound, OnRightList
<1>7. UsedIsListed(s)
  BY <1>2, <1>3 DEF Sound, UsedIsListed
<1> QED
  BY <1>2, <1>4, <1>5, <1>6, <1>7 DEF Sound, s
-----------------------------------------------------------------------------
(* Lists.                                                                  *)

LEMMA PlaceOf ==
  ASSUME NEW s, NEW k \in DOMAIN s, \A j \in DOMAIN s : s[j] = s[k] => j = k
  PROVE  Place(s, s[k]) = k
  BY DEF Place

LEMMA PrevNextType ==
  ASSUME NEW s \in Seq(Node), NEW k \in DOMAIN s,
         \A j \in DOMAIN s : s[j] = s[k] => j = k, NEW head
  PROVE  /\ PrevIn(s, s[k], head) = IF k = 1 THEN head ELSE s[k - 1]
         /\ NextIn(s, s[k], head) = IF k = Len(s) THEN head ELSE s[k + 1]
         /\ PrevIn(s, s[k], head) \in Node \union {head}
         /\ NextIn(s, s[k], head) \in Node \union {head}
<1>1. Place(s, s[k]) = k
  BY PlaceOf
<1>2. /\ PrevIn(s, s[k], head) = IF k = 1 THEN head ELSE s[k - 1]
      /\ NextIn(s, s[k], head) = IF k = Len(s) THEN head ELSE s[k + 1]
  BY <1>1 DEF PrevIn, NextIn
<1>3. /\ k # 1 => s[k - 1] \in Node
      /\ k # Len(s) => s[k + 1] \in Node
  OBVIOUS
<1> QED
  BY <1>2, <1>3

\* list_del closes the gap.
LEMMA UnlinkedShape ==
  ASSUME NEW s \in Seq(Node), NEW k \in DOMAIN s,
         \A j \in DOMAIN s : s[j] = s[k] => j = k
  PROVE  /\ Unlinked(s, s[k]) \in Seq(Node)
         /\ Len(Unlinked(s, s[k])) = Len(s) - 1
         /\ DOMAIN Unlinked(s, s[k]) = 1..(Len(s) - 1)
         /\ \A j \in 1..(Len(s) - 1) :
              Unlinked(s, s[k])[j] = IF j < k THEN s[j] ELSE s[j + 1]
<1>1. Place(s, s[k]) = k
  BY PlaceOf
<1>2. Len(s) \in Nat /\ Len(s) - 1 \in Nat /\ DOMAIN s = 1..Len(s)
  OBVIOUS
<1> DEFINE u == [j \in 1..(Len(s) - 1) |-> IF j < k THEN s[j] ELSE s[j + 1]]
<1>3. Unlinked(s, s[k]) = u
  BY <1>1 DEF Unlinked
<1>4. u \in [1..(Len(s) - 1) -> Node]
  BY <1>2
<1>5. u \in Seq(Node) /\ Len(u) = Len(s) - 1
  BY <1>2, <1>4
<1> QED
  BY <1>3, <1>5
-----------------------------------------------------------------------------
(* mask_rule_add.                                                          *)

LEMMA SoundTypes ==
  ASSUME NEW r, Sound(r)
  PROVE  /\ r \in RuleSets
         /\ r.rule_cnt \in 0..Cap /\ r.rule_id \in 0..(IdMod - 1)
         /\ r.idList \in [Node -> Node] /\ r.idList \in Seq(Node)
         /\ Len(r.idList) = Cap /\ DOMAIN r.idList = Node
         /\ r.idLast \in 0..Cap
         /\ r.prioList \in [Prios -> Seq(Node)] /\ r.prioLast \in [Prios -> Link]
         /\ r.rule_num \in [Prios -> 0..(NumMod - 1)]
         /\ r.oldNext \in [Node -> Link] /\ r.node \in [Node -> Rule]
<1>1. r \in RuleSets
  BY DEF Sound
<1>2. r.idList \in [1..Cap -> Node] /\ Cap \in Nat
  BY <1>1, MaskRuleAssumption DEF RuleSets, Node
<1>3. r.idList \in Seq(Node) /\ Len(r.idList) = Cap
  BY <1>2
<1> QED
  BY <1>1, <1>3 DEF RuleSets, Node

\* The node taken is the first free one of the id list.
LEMMA FirstFree ==
  ASSUME NEW r, Sound(r), r.rule_cnt < Cap
  PROVE  /\ r.rule_cnt + 1 \in Node
         /\ FreeNode(r) = r.idList[r.rule_cnt + 1]
         /\ FreeNode(r) \in Node /\ ~r.node[FreeNode(r)].valid
<1>0. /\ Cap \in Nat \ {0} /\ r.rule_cnt \in 0..Cap /\ r.rule_cnt < Cap
      /\ r.idList \in [Node -> Node] /\ r.idList \in Seq(Node)
      /\ Len(r.idList) = Cap /\ DOMAIN r.idList = Node
  BY SoundTypes, MaskRuleAssumption
<1>1. /\ r.rule_cnt + 1 \in Node /\ ~(r.rule_cnt + 1 <= r.rule_cnt)
      /\ r.rule_cnt # 0 => r.rule_cnt \in Node /\ r.rule_cnt # Len(r.idList)
      /\ 1 \in Node
  <2>1. Cap \in Nat \ {0} /\ r.rule_cnt \in 0..Cap /\ r.rule_cnt < Cap
    BY ONLY <1>0
  <2>2. /\ r.rule_cnt + 1 \in 1..Cap /\ ~(r.rule_cnt + 1 <= r.rule_cnt)
        /\ r.rule_cnt # 0 => r.rule_cnt \in 1..Cap /\ r.rule_cnt # Cap
        /\ 1 \in 1..Cap
    BY ONLY <2>1
  <2> QED
    BY ONLY <1>0, <2>2 DEF Node
<1>2. FreeNode(r) = r.idList[r.rule_cnt + 1]
  <2>1. CASE r.rule_cnt = 0
    <3>1. r.idLast = 0 /\ r.idList # <<>>
      BY <1>0, <2>1 DEF Sound, UsedInFront
    <3> QED
      BY <2>1, <3>1 DEF FreeNode, FirstIn
  <2>2. CASE r.rule_cnt # 0
    <3>1. r.idLast = r.idList[r.rule_cnt]
      BY <2>2 DEF Sound, UsedInFront
    <3>2. r.rule_cnt \in Node /\ r.rule_cnt # Len(r.idList)
      BY <1>1, <2>2
    <3>3. r.idList[r.rule_cnt] \in Node
      BY <1>0, <3>2
    <3>4. r.idLast # 0
      BY <3>1, <3>3 DEF Node
    <3>5. \A j \in Node : r.idList[j] = r.idList[r.rule_cnt] => j = r.rule_cnt
      BY <1>1, <2>2 DEF Sound, IdListWhole
    <3>6. NextIn(r.idList, r.idList[r.rule_cnt], 0) = r.idList[r.rule_cnt + 1]
      BY <1>0, <3>2, <3>5, PrevNextType
    <3> QED
      BY <3>1, <3>4, <3>6 DEF FreeNode
  <2> QED
    BY <2>1, <2>2
<1>3. r.idList[r.rule_cnt + 1] \in Node
  BY <1>0, <1>1
<1> QED
  BY <1>1, <1>2, <1>3 DEF Sound, UsedInFront

LEMMA ListIndexType ==
  ASSUME NEW c \in Content
  PROVE  /\ ListIndex(c) = Priority(c) /\ Priority(c) \in 1..(NumPrio - 1)
         /\ Priority(c) \in Prios /\ Priority(c) \in 0..(NumPrio - 1)
  BY MaskRuleAssumption DEF ListIndex, Priority, Content, Prios

LEMMA WidthType ==
  ASSUME NEW x \in Int
  PROVE  Width8(x) \in 0..(NumMod - 1)
  BY DEF Width8, NumMod

\* The new node, as Added writes it.
NewRule(r, c) ==
  [valid |-> TRUE, effect |-> r.node[FreeNode(r)].effect,
   rule_id |-> (r.rule_id + 1) % IdMod,
   priority |-> Priority(c), type |-> c.type, imask |-> c.imask, omask |-> c.omask]

LEMMA AddedFields ==
  ASSUME NEW r, Sound(r), NEW c \in Content, CanAdd(r, c)
  PROVE  LET s == Added(r, c)
             n == FreeNode(r)
             p == ListIndex(c)
         IN /\ s \in RuleSets /\ NewRule(r, c) \in Rule
            /\ s.node = [r.node EXCEPT ![n] = NewRule(r, c)]
            /\ s.rule_id = (r.rule_id + 1) % IdMod
            /\ s.idList = r.idList
            /\ s.prioList = [r.prioList EXCEPT ![p] = Append(@, n)]
            /\ s.idLast = n
            /\ s.rule_cnt = r.rule_cnt + 1
            /\ s.oldNext = r.oldNext
<1> DEFINE s == Added(r, c)
           n == FreeNode(r)
           p == ListIndex(c)
           id == (r.rule_id + 1) % IdMod
           node == [r.node EXCEPT ![n] = NewRule(r, c)]
           prioList == [r.prioList EXCEPT ![p] = Append(@, n)]
           prioLast == [r.prioLast EXCEPT ![p] = n]
           rule_num == [r.rule_num EXCEPT ![p] = Width8(@ + 1)]
<1>1. n \in Node /\ p \in Prios /\ n \in 0..Cap /\ n \in Link
  BY FirstFree, ListIndexType, MaskRuleAssumption DEF CanAdd, Node, Link
<1>2. id \in 0..(IdMod - 1)
  BY SoundTypes, MaskRuleAssumption
<1>3. NewRule(r, c) \in Rule
  BY <1>1, <1>2, ListIndexType, SoundTypes DEF NewRule, Rule, Content
<1>4. node \in [Node -> Rule]
  BY <1>1, <1>3, SoundTypes
<1>5. prioList \in [Prios -> Seq(Node)]
  <2>1. r.prioList[p] \in Seq(Node)
    BY <1>1, SoundTypes
  <2>2. Append(r.prioList[p], n) \in Seq(Node)
    BY <1>1, <2>1
  <2> QED
    BY <1>1, <2>2, SoundTypes
<1>6. prioLast \in [Prios -> Link]
  BY <1>1, SoundTypes
<1>7. rule_num \in [Prios -> 0..(NumMod - 1)]
  <2>1. r.rule_num[p] + 1 \in Int
    BY <1>1, SoundTypes
  <2> QED
    BY <1>1, <2>1, WidthType, SoundTypes
<1>8. r.rule_cnt + 1 \in 0..Cap
  BY SoundTypes, MaskRuleAssumption DEF CanAdd
<1>9. s = [r EXCEPT !.node = node, !.rule_id = id, !.prioList = prioList,
                    !.idLast = n, !.prioLast = prioLast, !.rule_num = rule_num,
                    !.rule_cnt = @ + 1]
  BY DEF Added, NewRule, Enqueued
<1> HIDE DEF s, n, p, id, node, prioList, prioLast, rule_num
<1>10. /\ s \in RuleSets
       /\ s.node = node /\ s.rule_id = id /\ s.idList = r.idList
       /\ s.prioList = prioList /\ s.idLast = n /\ s.rule_cnt = r.rule_cnt + 1
       /\ s.oldNext = r.oldNext
  <2>1. r \in RuleSets
    BY SoundTypes
  <2> QED
    BY <1>1, <1>2, <1>4, <1>5, <1>6, <1>7, <1>8, <1>9, <2>1 DEF RuleSets
<1> QED
  BY <1>3, <1>10 DEF s, n, p, id, node, prioList

LEMMA AddedSound ==
  ASSUME NEW r, Sound(r), NEW c \in Content, CanAdd(r, c)
  PROVE  Sound(Added(r, c))
<1> DEFINE s == Added(r, c)
           n == FreeNode(r)
           p == ListIndex(c)
           new == NewRule(r, c)
<1>1. /\ s \in RuleSets /\ new \in Rule
      /\ s.node = [r.node EXCEPT ![n] = new]
      /\ s.idList = r.idList
      /\ s.prioList = [r.prioList EXCEPT ![p] = Append(@, n)]
      /\ s.idLast = n
      /\ s.rule_cnt = r.rule_cnt + 1
  BY AddedFields
<1>2. /\ new.valid /\ new.priority = p /\ p \in Prios
  BY ListIndexType DEF NewRule
<1>3. /\ r.rule_cnt + 1 \in Node /\ n = r.idList[r.rule_cnt + 1]
      /\ n \in Node /\ ~r.node[n].valid
  BY FirstFree DEF CanAdd
<1>4. /\ r.node \in [Node -> Rule] /\ r.rule_cnt \in 0..Cap
      /\ r.idList \in [Node -> Node]
      /\ r.prioList \in [Prios -> Seq(Node)]
  BY SoundTypes
<1>5. IdListWhole(r) /\ UsedInFront(r) /\ OnRightList(r) /\ UsedIsListed(r)
  BY DEF Sound
<1> HIDE DEF s, n, p, new
<1>6. /\ s.node[n] = new
      /\ \A m \in Node : m # n => s.node[m] = r.node[m]
  BY <1>1, <1>3, <1>4
<1>7. IdListWhole(s)
  BY <1>1, <1>5 DEF IdListWhole
<1>8. UsedInFront(s)
  <2>1. ASSUME NEW k \in Node
        PROVE  s.node[s.idList[k]].valid <=> k <= s.rule_cnt
    <3>1. k \in Nat /\ r.rule_cnt \in Nat /\ r.idList[k] \in Node
      BY <1>4, MaskRuleAssumption DEF Node
    <3>2. CASE k = r.rule_cnt + 1
      BY <1>1, <1>2, <1>3, <1>6, <3>1, <3>2
    <3>3. CASE k # r.rule_cnt + 1
      <4>1. r.idList[k] # n
        BY <1>3, <1>5, <3>3 DEF IdListWhole
      <4>2. s.node[s.idList[k]] = r.node[r.idList[k]]
        BY <1>1, <1>6, <3>1, <4>1
      <4>3. r.node[r.idList[k]].valid <=> k <= r.rule_cnt
        BY <1>5 DEF UsedInFront
      <4> QED
        BY <1>1, <3>1, <3>3, <4>2, <4>3
    <3> QED
      BY <3>2, <3>3
  <2>2. s.idLast = s.idList[s.rule_cnt] /\ s.rule_cnt # 0
    BY <1>1, <1>3, <1>4, MaskRuleAssumption
  <2> QED
    BY <2>1, <2>2 DEF UsedInFront
<1>9. /\ \A q \in Prios : q # p => s.prioList[q] = r.prioList[q]
      /\ s.prioList[p] = Append(r.prioList[p], n)
      /\ r.prioList[p] \in Seq(Node)
  BY <1>1, <1>2, <1>4
<1>10. \A q \in Prios : \A k \in DOMAIN r.prioList[q] :
         r.prioList[q][k] \in Node /\ r.prioList[q][k] # n
  BY <1>3, <1>4, <1>5 DEF OnRightList
<1>11. OnRightList(s)
  <2> SUFFICES ASSUME NEW q \in Prios, NEW k \in DOMAIN s.prioList[q]
               PROVE  /\ s.node[s.prioList[q][k]].valid
                      /\ s.node[s.prioList[q][k]].priority = q
                      /\ \A j \in DOMAIN s.prioList[q] :
                           s.prioList[q][j] = s.prioList[q][k] => j = k
    BY DEF OnRightList
  <2>1. CASE q # p
    BY <1>5, <1>6, <1>9, <1>10, <2>1 DEF OnRightList
  <2>2. CASE q = p
    <3> DEFINE l == r.prioList[p]
    <3>1. /\ l \in Seq(Node) /\ Len(l) \in Nat /\ DOMAIN l = 1..Len(l)
          /\ s.prioList[q] = Append(l, n) /\ DOMAIN s.prioList[q] = 1..(Len(l) + 1)
      BY <1>9, <1>3, <2>2
    <3>2. /\ Append(l, n)[Len(l) + 1] = n
          /\ \A j \in 1..Len(l) : Append(l, n)[j] = l[j] /\ l[j] # n /\ l[j] \in Node
      BY <1>2, <1>3, <1>10, <3>1
    <3>3. \A i, j \in 1..Len(l) : l[i] = l[j] => i = j
      BY <1>2, <1>5, <3>1 DEF OnRightList
    <3>4. \A i \in 1..Len(l) : r.node[l[i]].valid /\ r.node[l[i]].priority = p
      BY <1>2, <1>5, <3>1 DEF OnRightList
    <3>5. CASE k = Len(l) + 1
      BY <1>2, <1>6, <2>2, <3>1, <3>2, <3>5
    <3>6. CASE k # Len(l) + 1
      <4>1. k \in 1..Len(l)
        BY <3>1, <3>6
      <4> HIDE DEF l
      <4> QED
        BY <1>6, <2>2, <3>1, <3>2, <3>3, <3>4, <4>1
    <3> QED
      BY <3>5, <3>6
  <2> QED
    BY <2>1, <2>2
<1>12. UsedIsListed(s)
  <2> SUFFICES ASSUME NEW m \in Node, s.node[m].valid
               PROVE  /\ s.node[m].priority \in Prios
                      /\ \E k \in DOMAIN s.prioList[s.node[m].priority] :
                           s.prioList[s.node[m].priority][k] = m
    BY DEF UsedIsListed
  <2>1. CASE m = n
    <3>1. s.node[m].priority = p
      BY <1>2, <1>6, <2>1
    <3>2. /\ Len(r.prioList[p]) + 1 \in DOMAIN s.prioList[p]
          /\ s.prioList[p][Len(r.prioList[p]) + 1] = n
      BY <1>3, <1>9
    <3> QED
      BY <1>2, <2>1, <3>1, <3>2
  <2>2. CASE m # n
    <3>1. s.node[m] = r.node[m]
      BY <1>6, <2>2
    <3>2. PICK k \in DOMAIN r.prioList[r.node[m].priority] :
            r.prioList[r.node[m].priority][k] = m
      BY <1>5, <3>1 DEF UsedIsListed
    <3>3. r.node[m].priority \in Prios
      BY <1>5, <3>1 DEF UsedIsListed
    <3>4. CASE r.node[m].priority = p
      <4>1. k \in DOMAIN s.prioList[p] /\ s.prioList[p][k] = m
        BY <1>3, <1>9, <3>2, <3>4
      <4> QED
        BY <3>1, <3>3, <3>4, <4>1
    <3>5. CASE r.node[m].priority # p
      BY <1>9, <3>1, <3>2, <3>3, <3>5
    <3> QED
      BY <3>4, <3>5
  <2> QED
    BY <2>1, <2>2
<1> QED
  BY <1>1, <1>7, <1>8, <1>11, <1>12 DEF Sound, s
-----------------------------------------------------------------------------
(* mask_rule_get and mask_rule_del.                                        *)

LEMMA FoundIsUsed ==
  ASSUME NEW r, Sound(r), NEW id, NEW n \in Found(r, id)
  PROVE  n \in Node /\ r.node[n].valid /\ r.node[n].rule_id = id
<1>1. PICK k \in Node :
        /\ \A j \in 1..k : r.node[r.idList[j]].valid
        /\ r.node[r.idList[k]].rule_id = id
        /\ n = r.idList[k]
  BY DEF Found
<1>2. k \in 1..k
  BY DEF Node
<1> QED
  BY <1>1, <1>2, SoundTypes

\* Where a used node is: on the id list, in front, and on its priority list.
HasPlaces(r, n, q) ==
  /\ q \in 1..(NumPrio - 1) /\ q \in Prios /\ q + 1 \in Prios
  /\ r.prioList[q] \in Seq(Node)
  /\ \E k \in DOMAIN r.prioList[q] :
       /\ r.prioList[q][k] = n
       /\ \A j \in DOMAIN r.prioList[q] : r.prioList[q][j] = n => j = k
  /\ r.rule_cnt \in 1..Cap
  /\ \E k \in 1..r.rule_cnt :
       /\ k \in Node /\ r.idList[k] = n
       /\ \A j \in Node : r.idList[j] = n => j = k

LEMMA UsedPlaces ==
  ASSUME NEW r, Sound(r), NEW n \in Node, r.node[n].valid
  PROVE  HasPlaces(r, n, r.node[n].priority)
<1> DEFINE q == r.node[n].priority
<1>1. q \in Prios /\ q \in 0..(NumPrio - 1)
  BY SoundTypes DEF Sound, UsedIsListed, Rule
<1>2. q \in 1..(NumPrio - 1) /\ q + 1 \in Prios
  BY <1>1, MaskRuleAssumption DEF Prios
<1>3. PICK k \in DOMAIN r.prioList[q] : r.prioList[q][k] = n
  BY DEF Sound, UsedIsListed
<1>4. \A j \in DOMAIN r.prioList[q] : r.prioList[q][j] = n => j = k
  BY <1>1, <1>3 DEF Sound, OnRightList
<1>5. r.prioList[q] \in Seq(Node)
  BY <1>1, SoundTypes
<1>6. PICK i \in Node : r.idList[i] = n
  BY DEF Sound, IdListWhole
<1>7. i <= r.rule_cnt /\ \A j \in Node : r.idList[j] = n => j = i
  BY <1>6 DEF Sound, UsedInFront, IdListWhole
<1>8. r.rule_cnt \in 0..Cap /\ i \in 1..Cap
  BY <1>6, SoundTypes DEF Node
<1>9. r.rule_cnt \in 1..Cap /\ i \in 1..r.rule_cnt
  BY <1>7, <1>8, MaskRuleAssumption
<1> HIDE DEF q
<1> QED
  BY <1>1, <1>2, <1>3, <1>4, <1>5, <1>6, <1>7, <1>9 DEF HasPlaces, q

\* The node deleted, as Deleted leaves it.
GoneRule(r, n) ==
  [r.node[n] EXCEPT !.valid = FALSE, !.imask = NoMask, !.omask = NoMask,
                    !.priority = 0, !.rule_id = 0]

\* What a deletion writes, n having been on list q.
Leaves(r, n, q, s) ==
  /\ s \in RuleSets
  /\ GoneRule(r, n) \in Rule /\ ~GoneRule(r, n).valid
  /\ s.node = [r.node EXCEPT ![n] = GoneRule(r, n)]
  /\ s.rule_id = r.rule_id
  /\ s.idList = Append(Unlinked(r.idList, n), n)
  /\ s.prioList = [r.prioList EXCEPT ![q] = Unlinked(@, n)]
  /\ s.idLast = IF r.idLast = n THEN PrevIn(r.idList, n, 0) ELSE r.idLast
  /\ s.rule_cnt = r.rule_cnt - 1
  /\ s.oldNext = [r.oldNext EXCEPT ![n] = NextIn(r.prioList[q], n, -q)]

LEMMA DeletedFields ==
  ASSUME NEW r, Sound(r), NEW n \in Node, r.node[n].valid
  PROVE  Leaves(r, n, r.node[n].priority, Deleted(r, n))
<1> SUFFICES ASSUME NEW s, s = Deleted(r, n), NEW q, q = r.node[n].priority
             PROVE  Leaves(r, n, q, s)
  OBVIOUS
<1>a. HasPlaces(r, n, q)
  BY UsedPlaces
<1> DEFINE p == q + 1
           node == [r.node EXCEPT ![n] = GoneRule(r, n)]
           idList == Append(Unlinked(r.idList, n), n)
           idLast == IF r.idLast = n THEN PrevIn(r.idList, n, 0) ELSE r.idLast
           prioList == [r.prioList EXCEPT ![q] = Unlinked(@, n)]
           prioLast == [r.prioLast EXCEPT
                         ![p] = IF @ = n THEN PrevIn(r.prioList[q], n, -q) ELSE @]
           rule_num == [r.rule_num EXCEPT ![p] = Width8(@ - 1)]
           oldNext == [r.oldNext EXCEPT ![n] = NextIn(r.prioList[q], n, -q)]
<1>1. /\ q \in Prios /\ p \in Prios /\ q \in 1..(NumPrio - 1)
      /\ r.prioList[q] \in Seq(Node) /\ r.rule_cnt \in 1..Cap
  BY <1>a DEF HasPlaces
<1>2. PICK k \in DOMAIN r.prioList[q] :
        /\ r.prioList[q][k] = n
        /\ \A j \in DOMAIN r.prioList[q] : r.prioList[q][j] = n => j = k
  BY <1>a DEF HasPlaces
<1>3. PICK i \in Node : r.idList[i] = n /\ \A j \in Node : r.idList[j] = n => j = i
  BY <1>a DEF HasPlaces
<1>4. /\ r \in RuleSets
      /\ r.idList \in Seq(Node) /\ Len(r.idList) = Cap /\ DOMAIN r.idList = Node
      /\ r.idLast \in 0..Cap /\ Cap \in Nat \ {0} /\ NumPrio \in Nat
      /\ r.prioList \in [Prios -> Seq(Node)] /\ r.prioLast \in [Prios -> Link]
      /\ r.rule_num \in [Prios -> 0..(NumMod - 1)]
      /\ r.oldNext \in [Node -> Link] /\ r.node \in [Node -> Rule]
  BY SoundTypes, MaskRuleAssumption
<1>5. Node \union {-q} \subseteq Link /\ Node \union {0} \subseteq 0..Cap
  <2>1. Cap \in Nat \ {0} /\ NumPrio \in Nat /\ q \in 1..(NumPrio - 1)
    BY <1>1, <1>4
  <2> QED
    BY <2>1 DEF Node, Link
<1>6. GoneRule(r, n) \in Rule /\ ~GoneRule(r, n).valid
  <2>1. r.node[n] \in Rule
    BY <1>4
  <2>2. NoMask \in Mask /\ 0 \in 0..(IdMod - 1) /\ 0 \in 0..(NumPrio - 1)
    BY MaskRuleAssumption DEF NoMask, Mask
  <2> QED
    BY <2>1, <2>2 DEF GoneRule, Rule
<1>7. node \in [Node -> Rule]
  BY <1>4, <1>6
<1>8. idList \in [Node -> Node]
  <2>1. /\ Unlinked(r.idList, n) \in Seq(Node)
        /\ Len(Unlinked(r.idList, n)) = Cap - 1
    BY <1>3, <1>4, UnlinkedShape
  <2>2. Cap - 1 + 1 = Cap
    BY <1>4
  <2>3. idList \in Seq(Node) /\ Len(idList) = Cap
    BY <2>1, <2>2
  <2> HIDE DEF idList
  <2>4. idList \in [1..Len(idList) -> Node]
    BY <2>3
  <2> QED
    BY <2>3, <2>4 DEF Node
<1>9. PrevIn(r.idList, n, 0) \in Node \union {0}
  BY <1>3, <1>4, PrevNextType
<1>10. /\ PrevIn(r.prioList[q], n, -q) \in Node \union {-q}
       /\ NextIn(r.prioList[q], n, -q) \in Node \union {-q}
  BY <1>1, <1>2, PrevNextType
<1>11. idLast \in 0..Cap
  BY <1>4, <1>5, <1>9
<1>12. prioList \in [Prios -> Seq(Node)]
  <2>1. Unlinked(r.prioList[q], n) \in Seq(Node)
    BY <1>1, <1>2, UnlinkedShape
  <2> QED
    BY <1>1, <1>4, <2>1
<1>13. prioLast \in [Prios -> Link]
  BY <1>1, <1>4, <1>5, <1>10
<1>14. rule_num \in [Prios -> 0..(NumMod - 1)]
  <2>1. r.rule_num[p] - 1 \in Int
    BY <1>1, <1>4
  <2> QED
    BY <1>1, <1>4, <2>1, WidthType
<1>15. oldNext \in [Node -> Link]
  BY <1>4, <1>5, <1>10
<1>16. r.rule_cnt - 1 \in 0..Cap
  <2>1. r.rule_cnt \in 1..Cap /\ Cap \in Nat
    BY <1>1, <1>4
  <2> QED
    BY <2>1
<1>17. s = [r EXCEPT !.idLast = idLast, !.prioLast = prioLast, !.node = node,
                     !.oldNext = oldNext, !.prioList = prioList, !.idList = idList,
                     !.rule_cnt = @ - 1, !.rule_num = rule_num]
  BY DEF Deleted, GoneRule, ToFreeEnd
<1> HIDE DEF p, node, idList, idLast, prioList, prioLast, rule_num, oldNext
<1>18. /\ s \in RuleSets
       /\ s.node = node /\ s.rule_id = r.rule_id /\ s.idList = idList
       /\ s.prioList = prioList /\ s.idLast = idLast
       /\ s.rule_cnt = r.rule_cnt - 1 /\ s.oldNext = oldNext
  <2>1. r \in RuleSets
    BY <1>4
  <2> QED
    BY <1>7, <1>8, <1>11, <1>12, <1>13, <1>14, <1>15, <1>16, <1>17, <2>1 DEF RuleSets
<1> QED
  BY <1>6, <1>18 DEF Leaves, node, idList, idLast, prioList, oldNext
\* list_del and list_add_tail on the id list: the nodes behind n move up.
Moved(l, s, i) ==
  \A k \in Node : s[k] = IF k < i THEN l[k] ELSE IF k < Cap THEN l[k + 1] ELSE l[i]

LEMMA MovedToEnd ==
  ASSUME NEW r, Sound(r), NEW i \in Node
  PROVE  Moved(r.idList, Append(Unlinked(r.idList, r.idList[i]), r.idList[i]), i)
<1> DEFINE l == r.idList
           u == Unlinked(l, l[i])
<1>1. l \in Seq(Node) /\ Len(l) = Cap /\ DOMAIN l = Node /\ Cap \in Nat \ {0}
  BY SoundTypes, MaskRuleAssumption
<1>2. \A j \in DOMAIN l : l[j] = l[i] => j = i
  BY <1>1 DEF Sound, IdListWhole
<1>3. /\ u \in Seq(Node) /\ Len(u) = Cap - 1
      /\ \A j \in 1..(Cap - 1) : u[j] = IF j < i THEN l[j] ELSE l[j + 1]
  BY <1>1, <1>2, UnlinkedShape
<1> HIDE DEF u, l
<1>4. /\ \A j \in 1..(Cap - 1) : Append(u, l[i])[j] = u[j]
      /\ Append(u, l[i])[Cap] = l[i]
  BY <1>1, <1>3
<1>5. ASSUME NEW k \in Node
      PROVE  Append(u, l[i])[k] = IF k < i THEN l[k]
                                  ELSE IF k < Cap THEN l[k + 1] ELSE l[i]
  <2>1. k \in 1..Cap /\ i \in 1..Cap
    BY DEF Node
  <2>2. CASE k = Cap
    <3>1. ~(k < i) /\ ~(k < Cap)
      BY <1>1, <2>1, <2>2
    <3> QED
      BY <1>4, <2>2, <3>1
  <2>3. CASE k # Cap
    <3>1. k \in 1..(Cap - 1) /\ k < Cap
      BY <1>1, <2>1, <2>3
    <3> QED
      BY <1>3, <1>4, <3>1
  <2> QED
    BY <2>2, <2>3
<1> QED
  BY <1>5 DEF Moved, u, l

LEMMA DeletedSound ==
  ASSUME NEW r, Sound(r), NEW n \in Node, r.node[n].valid
  PROVE  Sound(Deleted(r, n))
<1> SUFFICES ASSUME NEW s, s = Deleted(r, n), NEW q, q = r.node[n].priority
             PROVE  Sound(s)
  OBVIOUS
<1>a. HasPlaces(r, n, q) /\ Leaves(r, n, q, s)
  BY UsedPlaces, DeletedFields
<1> DEFINE l == r.prioList[q]
<1>1. /\ s \in RuleSets
      /\ GoneRule(r, n) \in Rule /\ ~GoneRule(r, n).valid
      /\ s.node = [r.node EXCEPT ![n] = GoneRule(r, n)]
      /\ s.idList = Append(Unlinked(r.idList, n), n)
      /\ s.prioList = [r.prioList EXCEPT ![q] = Unlinked(@, n)]
      /\ s.idLast = IF r.idLast = n THEN PrevIn(r.idList, n, 0) ELSE r.idLast
      /\ s.rule_cnt = r.rule_cnt - 1
  BY <1>a DEF Leaves
<1>2. /\ r.node \in [Node -> Rule] /\ r.rule_cnt \in 1..Cap
      /\ r.idList \in [Node -> Node] /\ r.idList \in Seq(Node)
      /\ Len(r.idList) = Cap /\ DOMAIN r.idList = Node
      /\ r.prioList \in [Prios -> Seq(Node)]
      /\ Cap \in Nat \ {0} /\ q \in Prios /\ l \in Seq(Node)
  BY <1>a, SoundTypes, MaskRuleAssumption DEF HasPlaces
<1>3. PICK k \in DOMAIN l : l[k] = n /\ \A j \in DOMAIN l : l[j] = n => j = k
  BY <1>a DEF HasPlaces
<1>4. PICK i \in 1..r.rule_cnt :
        i \in Node /\ r.idList[i] = n /\ \A j \in Node : r.idList[j] = n => j = i
  BY <1>a DEF HasPlaces
<1>5. IdListWhole(r) /\ UsedInFront(r) /\ OnRightList(r) /\ UsedIsListed(r)
  BY DEF Sound
<1>6. \A j \in Node : s.idList[j] = IF j < i THEN r.idList[j]
                                    ELSE IF j < Cap THEN r.idList[j + 1] ELSE n
  <2>1. Moved(r.idList, Append(Unlinked(r.idList, r.idList[i]), r.idList[i]), i)
    BY <1>4, MovedToEnd
  <2>2. Moved(r.idList, s.idList, i) /\ r.idList[i] = n
    BY <1>1, <1>4, <2>1
  <2> QED
    BY <2>2 DEF Moved
<1>7. /\ Unlinked(l, n) \in Seq(Node) /\ DOMAIN Unlinked(l, n) = 1..(Len(l) - 1)
      /\ \A j \in 1..(Len(l) - 1) :
           Unlinked(l, n)[j] = IF j < k THEN l[j] ELSE l[j + 1]
  <2> HIDE DEF l
  <2> QED
    BY <1>2, <1>3, UnlinkedShape
<1>8. /\ \A p \in Prios : p # q => s.prioList[p] = r.prioList[p]
      /\ s.prioList[q] = Unlinked(l, n)
      /\ ~s.node[n].valid
      /\ \A m \in Node : m # n => s.node[m] = r.node[m]
  BY <1>1, <1>2
<1>9. \A p \in Prios : p # q => \A j \in DOMAIN r.prioList[p] :
         r.prioList[p][j] \in Node /\ r.prioList[p][j] # n
  BY <1>2, <1>5 DEF OnRightList
<1>0. /\ Cap \in Nat \ {0} /\ i \in 1..Cap /\ r.rule_cnt \in i..Cap
      /\ s.rule_cnt = r.rule_cnt - 1
  <2>1. Cap \in Nat \ {0} /\ r.rule_cnt \in 1..Cap /\ i \in 1..r.rule_cnt
    BY <1>2, <1>4
  <2> QED
    BY <1>1, <2>1
<1> HIDE DEF l
<1>10. IdListWhole(s)
  <2>1. ASSUME NEW a \in Node, NEW b \in Node, s.idList[a] = s.idList[b]
        PROVE  a = b
    <3> DEFINE Old(j) == IF j < i THEN j ELSE IF j < Cap THEN j + 1 ELSE i
    <3>1. \A j \in Node : Old(j) \in Node
      BY <1>2, <1>4 DEF Node
    <3>2. \A j \in Node : s.idList[j] = r.idList[Old(j)]
      BY <1>4, <1>6
    <3>3. Old(a) = Old(b)
      <4> HIDE DEF Old
      <4>1. /\ r.idList[Old(a)] = r.idList[Old(b)]
            /\ Old(a) \in Node /\ Old(b) \in Node
        BY <2>1, <3>1, <3>2
      <4> QED
        BY <1>5, <4>1 DEF IdListWhole
    <3> QED
      BY <1>2, <1>4, <3>3 DEF Node
  <2>2. ASSUME NEW m \in Node PROVE \E j \in Node : s.idList[j] = m
    <3>1. PICK j \in Node : r.idList[j] = m
      BY <1>5 DEF IdListWhole
    <3>2. CASE j < i
      BY <1>6, <3>1, <3>2
    <3>3. CASE j = i
      <4>1. Cap \in Node /\ ~(Cap < i) /\ ~(Cap < Cap)
        BY <1>0 DEF Node
      <4> QED
        BY <1>4, <1>6, <3>1, <3>3, <4>1
    <3>4. CASE j > i
      <4>1. j - 1 \in Node /\ ~(j - 1 < i) /\ j - 1 < Cap /\ j - 1 + 1 = j
        BY <1>2, <1>4, <3>4 DEF Node
      <4>2. s.idList[j - 1] = r.idList[j - 1 + 1]
        BY <1>6, <4>1
      <4> QED
        BY <3>1, <4>1, <4>2
    <3> QED
      BY <3>2, <3>3, <3>4 DEF Node
  <2> QED
    BY <2>1, <2>2 DEF IdListWhole
<1>11. UsedInFront(s)
  <2>1. ASSUME NEW j \in Node
        PROVE  s.node[s.idList[j]].valid <=> j <= s.rule_cnt
    <3>1. j \in 1..Cap /\ i \in 1..Cap
      BY <1>2, <1>4 DEF Node
    <3>2. CASE j < i
      <4>1. r.idList[j] # n /\ r.idList[j] \in Node /\ s.idList[j] = r.idList[j]
        BY <1>2, <1>4, <1>6, <3>1, <3>2
      <4>2. s.node[s.idList[j]].valid <=> j <= r.rule_cnt
        BY <1>5, <1>8, <4>1 DEF UsedInFront
      <4> QED
        BY <1>0, <3>1, <3>2, <4>2
    <3>3. CASE ~(j < i) /\ j < Cap
      <4>1. j + 1 \in Node /\ j + 1 # i
        BY <1>2, <3>1, <3>3 DEF Node
      <4>2. /\ r.idList[j + 1] # n /\ r.idList[j + 1] \in Node
            /\ s.idList[j] = r.idList[j + 1]
        BY <1>2, <1>4, <1>6, <3>3, <4>1
      <4>3. s.node[s.idList[j]].valid <=> j + 1 <= r.rule_cnt
        BY <1>5, <1>8, <4>1, <4>2 DEF UsedInFront
      <4> QED
        BY <1>0, <3>1, <4>3
    <3>4. CASE ~(j < i) /\ ~(j < Cap)
      <4>1. s.idList[j] = n
        BY <1>6, <3>4
      <4>2. ~(j <= s.rule_cnt)
        BY <1>0, <3>1, <3>4
      <4> QED
        BY <1>8, <4>1, <4>2
    <3> QED
      BY <3>2, <3>3, <3>4
  <2>2. s.idLast = IF s.rule_cnt = 0 THEN 0 ELSE s.idList[s.rule_cnt]
    <3>1. r.idLast = r.idList[r.rule_cnt] /\ r.rule_cnt \in Node
      BY <1>2, <1>5 DEF UsedInFront, Node
    <3>2. CASE r.idLast = n
      <4>1. r.rule_cnt = i
        BY <1>4, <3>1, <3>2
      <4>2. s.idLast = IF i = 1 THEN 0 ELSE r.idList[i - 1]
        <5>1. PrevIn(r.idList, r.idList[i], 0) = IF i = 1 THEN 0 ELSE r.idList[i - 1]
          <6>1. r.idList \in Seq(Node) /\ i \in DOMAIN r.idList
            BY <1>2, <1>4
          <6>2. \A j \in DOMAIN r.idList : r.idList[j] = r.idList[i] => j = i
            BY <1>2, <1>4
          <6> QED
            BY <6>1, <6>2, PrevNextType
        <5> QED
          BY <1>1, <1>4, <3>2, <5>1
      <4>3. CASE i = 1
        BY <1>1, <4>1, <4>2, <4>3
      <4>4. CASE i # 1
        <5>1. i - 1 \in Node /\ i - 1 < i /\ i - 1 # 0
          BY <1>2, <1>4, <4>4 DEF Node
        <5>2. s.idList[i - 1] = r.idList[i - 1]
          BY <1>6, <5>1
        <5> QED
          BY <1>1, <4>1, <4>2, <4>4, <5>1, <5>2
      <4> QED
        BY <4>3, <4>4
    <3>3. CASE r.idLast # n
      <4>1. i # r.rule_cnt
        BY <1>4, <3>1, <3>3
      <4>2. /\ r.rule_cnt - 1 \in Node /\ ~(r.rule_cnt - 1 < i)
            /\ r.rule_cnt - 1 < Cap /\ r.rule_cnt - 1 + 1 = r.rule_cnt
            /\ r.rule_cnt - 1 # 0
        BY <1>0, <4>1 DEF Node
      <4>3. s.idList[r.rule_cnt - 1] = r.idList[r.rule_cnt - 1 + 1]
        BY <1>6, <4>2
      <4> QED
        BY <1>1, <3>1, <3>3, <4>2, <4>3
    <3> QED
      BY <3>2, <3>3
  <2> QED
    BY <2>1, <2>2 DEF UsedInFront
<1>12. \A j \in 1..(Len(l) - 1) :
         LET o == IF j < k THEN j ELSE j + 1
         IN o \in DOMAIN l /\ o # k /\ Unlinked(l, n)[j] = l[o]
  <2>1. Len(l) \in Nat /\ DOMAIN l = 1..Len(l)
    BY <1>2
  <2> QED
    BY <1>3, <1>7, <2>1
<1>13. OnRightList(s)
  <2> SUFFICES ASSUME NEW p \in Prios, NEW j \in DOMAIN s.prioList[p]
               PROVE  /\ s.node[s.prioList[p][j]].valid
                      /\ s.node[s.prioList[p][j]].priority = p
                      /\ \A h \in DOMAIN s.prioList[p] :
                           s.prioList[p][h] = s.prioList[p][j] => h = j
    BY DEF OnRightList
  <2>1. CASE p # q
    BY <1>5, <1>8, <1>9, <2>1 DEF OnRightList
  <2>2. CASE p = q
    <3> DEFINE Old(h) == IF h < k THEN h ELSE h + 1
    <3>1. /\ s.prioList[p] = Unlinked(l, n)
          /\ DOMAIN s.prioList[p] = 1..(Len(l) - 1)
          /\ Len(l) \in Nat /\ DOMAIN l = 1..Len(l)
      <4>1. s.prioList[p] = Unlinked(l, n)
        BY <1>8, <2>2
      <4> QED
        BY <1>2, <1>7, <4>1
    <3>2. \A h \in 1..(Len(l) - 1) :
            Old(h) \in DOMAIN l /\ Old(h) # k /\ Unlinked(l, n)[h] = l[Old(h)]
      BY <1>12
    <3>3. \A h \in DOMAIN l : l[h] \in Node /\ r.node[l[h]].valid
                              /\ r.node[l[h]].priority = q
      <4>1. \A h \in DOMAIN l : l[h] \in Node
        BY <1>2
      <4> QED
        BY <1>5, <2>2, <4>1 DEF OnRightList, l
    <3>4. \A g, h \in DOMAIN l : l[g] = l[h] => g = h
      BY <1>2, <1>5 DEF OnRightList, l
    <3>5. \A g, h \in 1..(Len(l) - 1) : Old(g) = Old(h) => g = h
      BY <1>3, <3>1
    <3> HIDE DEF Old
    <3>6. l[Old(j)] # n /\ l[Old(j)] \in Node
      BY <1>3, <3>1, <3>2, <3>3
    <3>7. j \in 1..(Len(l) - 1) /\ s.prioList[p][j] = l[Old(j)] /\ Old(j) \in DOMAIN l
      BY <3>1, <3>2
    <3>8. s.node[l[Old(j)]] = r.node[l[Old(j)]]
      BY <1>8, <3>6
    <3>9. ASSUME NEW h \in DOMAIN s.prioList[p], s.prioList[p][h] = s.prioList[p][j]
          PROVE  h = j
      <4>1. h \in 1..(Len(l) - 1) /\ s.prioList[p][h] = l[Old(h)] /\ Old(h) \in DOMAIN l
        BY <3>1, <3>2
      <4>2. Old(h) = Old(j)
        BY <3>4, <3>7, <3>9, <4>1
      <4> QED
        BY <3>5, <3>7, <4>1, <4>2
    <3> QED
      BY <2>2, <3>3, <3>7, <3>8, <3>9
  <2> QED
    BY <2>1, <2>2
<1>14. UsedIsListed(s)
  <2> SUFFICES ASSUME NEW m \in Node, s.node[m].valid
               PROVE  /\ s.node[m].priority \in Prios
                      /\ \E j \in DOMAIN s.prioList[s.node[m].priority] :
                           s.prioList[s.node[m].priority][j] = m
    BY DEF UsedIsListed
  <2>1. m # n /\ s.node[m] = r.node[m]
    BY <1>8
  <2>2. PICK j \in DOMAIN r.prioList[r.node[m].priority] :
          r.prioList[r.node[m].priority][j] = m
    BY <1>5, <2>1 DEF UsedIsListed
  <2>3. r.node[m].priority \in Prios
    BY <1>5, <2>1 DEF UsedIsListed
  <2>4. CASE r.node[m].priority # q
    BY <1>8, <2>1, <2>2, <2>3, <2>4
  <2>5. CASE r.node[m].priority = q
    <3>1. Len(l) \in Nat /\ DOMAIN l = 1..Len(l) /\ j \in DOMAIN l /\ l[j] = m /\ j # k
      BY <1>2, <1>3, <2>1, <2>2, <2>5 DEF l
    <3> DEFINE h == IF j < k THEN j ELSE j - 1
    <3>2. h \in 1..(Len(l) - 1) /\ (IF h < k THEN h ELSE h + 1) = j
      BY <1>3, <3>1
    <3> HIDE DEF h
    <3>3. Unlinked(l, n)[h] = l[j]
      BY <1>7, <3>2
    <3>4. s.node[m].priority = q /\ h \in DOMAIN s.prioList[q] /\ s.prioList[q][h] = m
      BY <1>7, <1>8, <2>1, <2>5, <3>1, <3>2, <3>3
    <3> QED
      BY <2>3, <2>1, <3>4
  <2> QED
    BY <2>4, <2>5
<1> QED
  BY <1>1, <1>10, <1>11, <1>13, <1>14 DEF Sound

\* A deletion by id takes a node in use, or leaves everything as it is.
LEMMA DelIdDeletes ==
  ASSUME NEW r, Sound(r), NEW arg
  PROVE  \/ DelId(r, arg) = r
         \/ \E n \in Node : /\ r.node[n].valid /\ r.node[n].rule_id = arg % ArgMod
                            /\ DelId(r, arg) = Deleted(r, n)
<1> DEFINE found == IF r.rule_cnt = 0 THEN {}
                    ELSE {n \in Found(r, arg % ArgMod) : ~Refused(r, n)}
<1>1. CASE found = {}
  BY <1>1 DEF DelId
<1>2. CASE found # {}
  <2>1. PICK n \in found : n = CHOOSE m \in found : TRUE
    BY <1>2
  <2>2. n \in Found(r, arg % ArgMod)
    BY <2>1
  <2>3. DelId(r, arg) = Deleted(r, n)
    BY <1>2, <2>1 DEF DelId
  <2> QED
    BY <2>2, <2>3, FoundIsUsed
<1> QED
  BY <1>1, <1>2

LEMMA DelIdSound ==
  ASSUME NEW r, Sound(r), NEW arg
  PROVE  Sound(DelId(r, arg))
  BY DelIdDeletes, DeletedSound
-----------------------------------------------------------------------------
(* The rule set stays whole.                                               *)
-----------------------------------------------------------------------------
(* What a pass follows: the links of the nodes in use, and those a deleted *)
(* node keeps.                                                             *)

Heads == {-p : p \in Prios}

\* Nodes that are, or have been, on a priority list.
Linked(r) == {n \in Node : r.node[n].valid \/ r.oldNext[n] # 0}

LinksSound(r) == \A n \in Node : r.oldNext[n] \in Heads \union {0} \union Linked(r)

LEMMA HeadsType ==
  /\ Heads \subseteq Link /\ Node \subseteq Link /\ 0 \in Link
  /\ \A x \in Heads : x < 0 /\ ~(x > 0) /\ -x \in Prios /\ x \notin Node
  /\ \A p \in Prios : -p \in Heads /\ -p < 0 /\ -p # 0
  /\ \A n \in Node : n > 0 /\ ~(n < 0)
  BY MaskRuleAssumption DEF Heads, Link, Node, Prios

LEMMA NextOnList ==
  ASSUME NEW r, Sound(r), NEW q \in Prios, NEW k \in DOMAIN r.prioList[q]
  PROVE  NextOf(r, r.prioList[q][k]) =
           IF k = Len(r.prioList[q]) THEN -q ELSE r.prioList[q][k + 1]
<1> DEFINE l == r.prioList[q]
           n == l[k]
<1>1. l \in Seq(Node) /\ n \in Node /\ k \in DOMAIN l
  BY SoundTypes
<1>2. \A j \in DOMAIN l : l[j] = n => j = k
  BY DEF Sound, OnRightList
<1>3. Contains(l, n)
  BY <1>1 DEF Contains
<1>4. ASSUME NEW p \in Prios, Contains(r.prioList[p], n) PROVE p = q
  <2>1. r.prioList[p] \in Seq(Node)
    BY SoundTypes
  <2>2. PICK j \in DOMAIN r.prioList[p] : r.prioList[p][j] = n
    BY <1>4, <2>1 DEF Contains
  <2>3. r.node[n].priority = p /\ r.node[n].priority = q
    BY <2>2 DEF Sound, OnRightList
  <2> QED
    BY <2>3
<1>5. (CHOOSE p \in Prios : Contains(r.prioList[p], n)) = q
  BY <1>3, <1>4
<1>6. ~(n < 0)
  BY <1>1, HeadsType
<1>7. NextOf(r, n) = NextIn(l, n, -q)
  BY <1>3, <1>5, <1>6 DEF NextOf
<1> HIDE DEF l
<1>8. NextIn(l, l[k], -q) = IF k = Len(l) THEN -q ELSE l[k + 1]
  BY <1>1, <1>2, PrevNextType
<1> QED
  BY <1>7, <1>8 DEF l

LEMMA NextOfType ==
  ASSUME NEW r, Sound(r), LinksSound(r), NEW x \in Heads \union Linked(r)
  PROVE  NextOf(r, x) \in Heads \union Linked(r)
<1>1. \A q \in Prios : \A k \in DOMAIN r.prioList[q] : r.prioList[q][k] \in Linked(r)
  BY SoundTypes DEF Sound, OnRightList, Linked
<1>2. CASE x \in Heads
  <2>1. x < 0 /\ -x \in Prios
    BY <1>2, HeadsType
  <2>2. r.prioList[-x] \in Seq(Node)
    BY <2>1, SoundTypes
  <2>3. r.prioList[-x] # <<>> => 1 \in DOMAIN r.prioList[-x]
    BY <2>2
  <2> QED
    BY <1>1, <1>2, <2>1, <2>3 DEF NextOf, FirstIn
<1>3. CASE x \in Linked(r)
  <2>1. x \in Node /\ ~(x < 0)
    BY <1>3, HeadsType DEF Linked
  <2>2. CASE \E q \in Prios : Contains(r.prioList[q], x)
    <3>1. PICK q \in Prios : Contains(r.prioList[q], x)
      BY <2>2
    <3>2. r.prioList[q] \in Seq(Node)
      BY SoundTypes
    <3>3. PICK k \in DOMAIN r.prioList[q] : r.prioList[q][k] = x
      BY <3>1, <3>2 DEF Contains
    <3>4. k # Len(r.prioList[q]) => k + 1 \in DOMAIN r.prioList[q]
      BY <3>2
    <3> QED
      BY <1>1, <3>3, <3>4, NextOnList, HeadsType
  <2>3. CASE ~\E q \in Prios : Contains(r.prioList[q], x)
    <3>1. ~r.node[x].valid
      <4>1. SUFFICES ASSUME r.node[x].valid PROVE FALSE
        OBVIOUS
      <4>2. PICK k \in DOMAIN r.prioList[r.node[x].priority] :
              r.prioList[r.node[x].priority][k] = x
        BY <2>1, <4>1 DEF Sound, UsedIsListed
      <4>3. r.node[x].priority \in Prios
        BY <2>1, <4>1 DEF Sound, UsedIsListed
      <4>4. r.prioList[r.node[x].priority] \in Seq(Node)
        BY <4>3, SoundTypes
      <4> QED
        BY <2>3, <4>2, <4>3, <4>4 DEF Contains
    <3>2. r.oldNext[x] \in Heads \union Linked(r)
      BY <1>3, <2>1, <3>1 DEF Linked, LinksSound
    <3> QED
      BY <2>1, <2>3, <3>2 DEF NextOf
  <2> QED
    BY <2>2, <2>3
<1> QED
  BY <1>2, <1>3

\* No change of the rules makes a link, or a cursor, lead nowhere.
LinksKept(r, s) == LinksSound(s) /\ Linked(r) \subseteq Linked(s)

LEMMA AddedLinks ==
  ASSUME NEW r, Sound(r), LinksSound(r), NEW c \in Content, CanAdd(r, c)
  PROVE  LinksKept(r, Added(r, c))
<1> DEFINE s == Added(r, c)
           n == FreeNode(r)
<1>1. /\ s.node = [r.node EXCEPT ![n] = NewRule(r, c)]
      /\ s.oldNext = r.oldNext
  BY AddedFields
<1>2. NewRule(r, c).valid
  BY DEF NewRule
<1>3. r.node \in [Node -> Rule]
  BY SoundTypes
<1> HIDE DEF s, n
<1>4. Linked(r) \subseteq Linked(s)
  BY <1>1, <1>2, <1>3 DEF Linked
<1> QED
  BY <1>1, <1>4 DEF LinksKept, LinksSound, s

LEMMA DeletedLinks ==
  ASSUME NEW r, Sound(r), LinksSound(r), NEW n \in Node, r.node[n].valid
  PROVE  LinksKept(r, Deleted(r, n))
<1> SUFFICES ASSUME NEW s, s = Deleted(r, n), NEW q, q = r.node[n].priority
             PROVE  LinksKept(r, s)
  OBVIOUS
<1>1. HasPlaces(r, n, q) /\ Leaves(r, n, q, s)
  BY UsedPlaces, DeletedFields
<1>2. /\ s.node = [r.node EXCEPT ![n] = GoneRule(r, n)]
      /\ s.oldNext = [r.oldNext EXCEPT ![n] = NextIn(r.prioList[q], n, -q)]
      /\ r.node \in [Node -> Rule] /\ r.oldNext \in [Node -> Link]
      /\ q \in Prios
  BY <1>1, SoundTypes DEF HasPlaces, Leaves
<1> DEFINE next == NextIn(r.prioList[q], n, -q)
<1>3. next \in Heads \union (Linked(r) \ {n})
  <2>1. r.prioList[q] \in Seq(Node)
    BY <1>2, SoundTypes
  <2>2. PICK k \in DOMAIN r.prioList[q] :
          /\ r.prioList[q][k] = n
          /\ \A j \in DOMAIN r.prioList[q] : r.prioList[q][j] = n => j = k
    BY <1>1 DEF HasPlaces
  <2>3. next = IF k = Len(r.prioList[q]) THEN -q ELSE r.prioList[q][k + 1]
    BY <2>1, <2>2, PrevNextType
  <2>4. CASE k = Len(r.prioList[q])
    BY <1>2, <2>3, <2>4, HeadsType
  <2>5. CASE k # Len(r.prioList[q])
    <3>1. k + 1 \in DOMAIN r.prioList[q] /\ k + 1 # k
      BY <2>1, <2>5
    <3>2. r.prioList[q][k + 1] \in Node /\ r.prioList[q][k + 1] # n
      BY <2>1, <2>2, <3>1
    <3>3. r.node[r.prioList[q][k + 1]].valid
      BY <1>2, <3>1 DEF Sound, OnRightList
    <3> QED
      BY <2>3, <2>5, <3>2, <3>3 DEF Linked
  <2> QED
    BY <2>4, <2>5
<1> HIDE DEF next
<1>4. next # 0
  BY <1>3, HeadsType DEF Linked
<1>5. /\ s.oldNext[n] = next
      /\ \A m \in Node : m # n => s.oldNext[m] = r.oldNext[m] /\ s.node[m] = r.node[m]
  BY <1>2 DEF next
<1>6. Linked(r) \subseteq Linked(s)
  BY <1>4, <1>5 DEF Linked
<1>7. LinksSound(s)
  BY <1>3, <1>5, <1>6 DEF LinksSound
<1> QED
  BY <1>6, <1>7 DEF LinksKept

LEMMA MarkLinks ==
  ASSUME NEW r, Sound(r), LinksSound(r), NEW n \in Node, NEW b
  PROVE  LinksKept(r, [r EXCEPT !.node[n].effect = b])
<1> DEFINE s == [r EXCEPT !.node[n].effect = b]
<1>1. r \in RuleSets /\ r.node \in [Node -> Rule]
  BY SoundTypes
<1>2. s.oldNext = r.oldNext /\ s.node = [r.node EXCEPT ![n].effect = b]
  BY <1>1 DEF RuleSets
<1> HIDE DEF s
<1>3. \A m \in Node : s.node[m].valid = r.node[m].valid
  BY <1>1, <1>2 DEF Rule
<1>4. Linked(s) = Linked(r)
  BY <1>2, <1>3 DEF Linked
<1> QED
  BY <1>2, <1>4 DEF LinksKept, LinksSound, s
-----------------------------------------------------------------------------
(* The steps.                                                              *)

\* How a step changes the rule set.
IsAddition(r, s)  == \E c \in Contents : CanAdd(r, c) /\ s = Added(r, c)
IsDeletion(r, s)  ==
  \E n \in Node : /\ r.node[n].valid /\ r.node[n].rule_id \in 0..(ArgMod - 1)
                  /\ s = Deleted(r, n)

RulesKept(r, s) == Sound(s) /\ LinksKept(r, s)

LEMMA AdditionKeeps ==
  ASSUME NEW r, Sound(r), LinksSound(r), NEW s, IsAddition(r, s)
  PROVE  RulesKept(r, s)
  BY MaskRuleAssumption, AddedSound, AddedLinks DEF IsAddition, RulesKept

LEMMA DelIdKeeps ==
  ASSUME NEW r, Sound(r), LinksSound(r), NEW arg
  PROVE  RulesKept(r, DelId(r, arg))
<1>1. CASE DelId(r, arg) = r
  BY <1>1 DEF RulesKept, LinksKept
<1>2. CASE DelId(r, arg) # r
  BY <1>2, DelIdDeletes, DeletedSound, DeletedLinks DEF RulesKept
<1> QED
  BY <1>1, <1>2

LEMMA MarkKeeps ==
  ASSUME NEW r, Sound(r), LinksSound(r), NEW n \in Node, NEW b \in BOOLEAN
  PROVE  RulesKept(r, [r EXCEPT !.node[n].effect = b])
  BY MarkSound, MarkLinks DEF RulesKept

Statuses == {"idle", "visit", "callback", "done", "failed", "invalid", "wild"}

\* The cursor of a pass is a list head or a node that has been on a list.
CursorSound(r, p) ==
  /\ p = [status |-> p.status, mask |-> p.mask, list |-> p.list,
          pos |-> p.pos, tmp |-> p.tmp]
  /\ p.status \in Statuses /\ p.mask \subseteq Bits /\ p.list \in 0..NumPrio
  /\ {p.pos, p.tmp} \subseteq Heads \union {0} \union Linked(r)
  /\ p.status \in {"visit", "callback"} =>
       p.list \in Prios /\ {p.pos, p.tmp} \subseteq Heads \union Linked(r)
  /\ p.status = "callback" => p.pos \in Node

RuleInv ==
  /\ Sound(rs) /\ LinksSound(rs)
  /\ CursorSound(rs, pass)
  /\ sweep \in 0..Cap /\ during \subseteq {"added", "removed"}

LEMMA CursorKept ==
  ASSUME NEW r, NEW s, LinksKept(r, s), NEW p, CursorSound(r, p)
  PROVE  CursorSound(s, p)
<1>1. \A x : x \in Linked(r) => x \in Linked(s)
  BY DEF LinksKept
<1>2. /\ {p.pos, p.tmp} \subseteq Heads \union {0} \union Linked(s)
      /\ p.status \in {"visit", "callback"} =>
            p.list \in Prios /\ {p.pos, p.tmp} \subseteq Heads \union Linked(s)
  BY <1>1 DEF CursorSound
<1> QED
  BY <1>2 DEF CursorSound

LEMMA NoPassSound ==
  ASSUME NEW r PROVE CursorSound(r, NoPass)
<1>1. /\ NoPass.status = "idle" /\ NoPass.mask = {} /\ NoPass.list = 0
      /\ NoPass.pos = 0 /\ NoPass.tmp = 0
  BY DEF NoPass
<1> QED
  BY <1>1, MaskRuleAssumption DEF CursorSound, NoPass, Statuses

LEMMA EnterSound ==
  ASSUME NEW r, Sound(r), LinksSound(r), CursorSound(r, pass), NEW p \in Prios
  PROVE  CursorSound(r, Enter(r, p)) /\ Enter(r, p).status = "visit"
<1> DEFINE first == FirstIn(r.prioList[p], -p)
           e == Enter(r, p)
<1>1. first \in Heads \union Linked(r)
  <2>1. r.prioList[p] \in Seq(Node)
    BY SoundTypes
  <2>2. r.prioList[p] # <<>> => 1 \in DOMAIN r.prioList[p]
    BY <2>1
  <2>3. \A k \in DOMAIN r.prioList[p] : r.prioList[p][k] \in Linked(r)
    BY <2>1 DEF Sound, OnRightList, Linked
  <2> QED
    BY <2>2, <2>3, HeadsType DEF FirstIn
<1>2. NextOf(r, first) \in Heads \union Linked(r)
  BY <1>1, NextOfType
<1>3. e = [status |-> "visit", mask |-> pass.mask, list |-> p,
           pos |-> first, tmp |-> NextOf(r, first)]
  <2> DEFINE next == NextOf(r, first)
  <2>1. e = [pass EXCEPT !.status = "visit", !.list = p, !.pos = first, !.tmp = next]
    BY DEF Enter
  <2> HIDE DEF next, first, e
  <2>2. pass = [status |-> pass.status, mask |-> pass.mask, list |-> pass.list,
                pos |-> pass.pos, tmp |-> pass.tmp]
    BY DEF CursorSound
  <2>3. e = [status |-> "visit", mask |-> pass.mask, list |-> p,
             pos |-> first, tmp |-> next]
    BY <2>1, <2>2
  <2> QED
    BY <2>3 DEF next
<1> HIDE DEF first
<1>4. p \in 0..NumPrio
  BY MaskRuleAssumption DEF Prios
<1> HIDE DEF e
<1>5. /\ e.status = "visit" /\ e.mask = pass.mask /\ e.list = p /\ e.pos = first
      /\ e.tmp = NextOf(r, first)
  BY <1>3
<1>6. e = [status |-> e.status, mask |-> e.mask, list |-> e.list,
           pos |-> e.pos, tmp |-> e.tmp]
  BY <1>3, <1>5
<1>7. CursorSound(r, e)
  BY <1>1, <1>2, <1>4, <1>5, <1>6 DEF CursorSound, Statuses
<1> QED
  BY <1>5, <1>7 DEF e

LEMMA AdvanceSound ==
  ASSUME NEW r, Sound(r), LinksSound(r), CursorSound(r, pass),
         pass.status \in {"visit", "callback"}
  PROVE  CursorSound(r, Advance(r))
<1> DEFINE a == Advance(r)
<1>1. pass.tmp \in Heads \union Linked(r) /\ pass.list \in Prios /\ pass.mask \subseteq Bits
      /\ pass.list \in 0..NumPrio
  BY DEF CursorSound
<1>2. NextOf(r, pass.tmp) \in Heads \union Linked(r)
  BY <1>1, NextOfType
<1>3. a = [status |-> "visit", mask |-> pass.mask, list |-> pass.list,
           pos |-> pass.tmp, tmp |-> NextOf(r, pass.tmp)]
  <2> DEFINE next == NextOf(r, pass.tmp)
  <2>1. a = [pass EXCEPT !.status = "visit", !.pos = pass.tmp, !.tmp = next]
    BY DEF Advance
  <2> HIDE DEF next, a
  <2>2. pass = [status |-> pass.status, mask |-> pass.mask, list |-> pass.list,
                pos |-> pass.pos, tmp |-> pass.tmp]
    BY DEF CursorSound
  <2>3. a = [status |-> "visit", mask |-> pass.mask, list |-> pass.list,
             pos |-> pass.tmp, tmp |-> next]
    BY <2>1, <2>2
  <2> QED
    BY <2>3 DEF next
<1> HIDE DEF a
<1>4. /\ a.status = "visit" /\ a.mask = pass.mask /\ a.list = pass.list
      /\ a.pos = pass.tmp /\ a.tmp = NextOf(r, pass.tmp)
  BY <1>3
<1>5. a = [status |-> a.status, mask |-> a.mask, list |-> a.list,
           pos |-> a.pos, tmp |-> a.tmp]
  BY <1>3, <1>4
<1>6. CursorSound(r, a)
  BY <1>1, <1>2, <1>4, <1>5 DEF CursorSound, Statuses
<1> QED
  BY <1>6 DEF a

\* A pass whose status changes, its cursor staying where it is.
LEMMA StatusSound ==
  ASSUME NEW r, CursorSound(r, pass), pass.status \in {"visit", "callback"},
         NEW st \in Statuses \ {"callback"}
  PROVE  CursorSound(r, [pass EXCEPT !.status = st])
<1> DEFINE a == [pass EXCEPT !.status = st]
<1>1. a = [status |-> st, mask |-> pass.mask, list |-> pass.list,
           pos |-> pass.pos, tmp |-> pass.tmp]
  BY DEF CursorSound
<1> HIDE DEF a
<1>2. /\ a.status = st /\ a.mask = pass.mask /\ a.list = pass.list
      /\ a.pos = pass.pos /\ a.tmp = pass.tmp
  BY <1>1
<1>3. a = [status |-> a.status, mask |-> a.mask, list |-> a.list,
           pos |-> a.pos, tmp |-> a.tmp]
  BY <1>1, <1>2
<1>4. CursorSound(r, a)
  BY <1>2, <1>3 DEF CursorSound
<1> QED
  BY <1>4 DEF a

LEMMA ChangedKeeps ==
  ASSUME RuleInv, NEW r, RulesKept(rs, r), NEW how \in {"added", "removed"},
         Changed(r, how), sweep' \in 0..Cap
  PROVE  RuleInv'
<1>1. rs' = r /\ Sound(rs') /\ LinksSound(rs') /\ LinksKept(rs, rs')
  BY DEF Changed, RulesKept, LinksKept
<1>2. CASE Quiet
  BY <1>1, <1>2, NoPassSound DEF Changed, RuleInv
<1>3. CASE ~Quiet
  BY <1>1, <1>3, CursorKept DEF Changed, RuleInv
<1> QED
  BY <1>2, <1>3

\* A node the pass visits and what the visit writes.
LEMMA VisitWrites ==
  ASSUME RuleInv, Visit
  PROVE  /\ pass.status = "visit" /\ pass.pos \in Node /\ rs.node[pass.pos].valid
         /\ Sound(NotInEffect(rs, pass.pos)) /\ LinksKept(rs, NotInEffect(rs, pass.pos))
         /\ Sound(rs') /\ LinksKept(rs, rs')
<1> DEFINE n == pass.pos
           r == NotInEffect(rs, n)
<1>1. pass.status = "visit" /\ n > 0 /\ rs.node[n].valid
  BY DEF Visit
<1>2. n \in Node
  <2>1. pass.pos \in Heads \union Linked(rs)
    BY <1>1 DEF RuleInv, CursorSound
  <2> QED
    BY <1>1, <2>1, HeadsType DEF Linked
<1>3. Sound(r) /\ LinksKept(rs, r)
  BY <1>2, MarkKeeps DEF RuleInv, RulesKept, NotInEffect
<1> HIDE DEF r, n
<1>4. rs' = r \/ rs' = [r EXCEPT !.node[n].effect = TRUE]
  BY DEF Visit, r, n
<1>5. Sound(rs') /\ LinksKept(rs, rs')
  <2>1. CASE rs' = r
    BY <1>3, <2>1
  <2>2. CASE rs' = [r EXCEPT !.node[n].effect = TRUE]
    BY <1>2, <1>3, <2>2, MarkKeeps DEF RulesKept, LinksKept
  <2> QED
    BY <1>4, <2>1, <2>2
<1> QED
  BY <1>1, <1>2, <1>3, <1>5 DEF r, n

LEMMA RuleInvInit == Init => RuleInv
<1> SUFFICES ASSUME Init PROVE RuleInv
  OBVIOUS
<1>1. Sound(rs)
  BY EmptySound DEF Init
<1>2. \A n \in Node : rs.oldNext[n] = 0
  BY DEF Init, Empty
<1> QED
  BY <1>1, <1>2, NoPassSound, MaskRuleAssumption DEF Init, RuleInv, LinksSound

\* The steps of the specification, a pass being for any state of the inputs.
AnyMatch == \E m \in SUBSET Bits : MatchMask(m)
RuleNext ==
  \/ Add \/ (\E id \in 1..MaxAdds : Del(id)) \/ DelAll \/ DelNext
  \/ AnyMatch \/ PassStep \/ CallbackOk \/ CallbackFails

LEMMA NextIsRuleNext == [Next]_vars => [RuleNext]_vars
  BY MaskRuleAssumption DEF Next, RuleNext, Match, AnyMatch

LEMMA RuleInvNext == RuleInv /\ [RuleNext]_vars => RuleInv'
<1> SUFFICES ASSUME RuleInv, [RuleNext]_vars PROVE RuleInv'
  OBVIOUS
<1>0. Sound(rs) /\ LinksSound(rs) /\ CursorSound(rs, pass) /\ sweep \in 0..Cap
      /\ during \subseteq {"added", "removed"}
  BY DEF RuleInv
<1>1. CASE Add
  <2>1. PICK c \in Contents : AddContent(c)
    BY <1>1 DEF Add
  <2>2. IsAddition(rs, Added(rs, c))
    BY <2>1 DEF AddContent, IsAddition
  <2>3. RulesKept(rs, Added(rs, c))
    BY <1>0, <2>2, AdditionKeeps
  <2> QED
    BY <1>0, <2>1, <2>3, ChangedKeeps DEF AddContent
<1>2. ASSUME NEW id \in 1..MaxAdds, Del(id) PROVE RuleInv'
  BY <1>0, <1>2, DelIdKeeps, ChangedKeeps DEF Del
<1>3. ASSUME NEW id, DelFrom(id) PROVE RuleInv'
  <2>1. sweep' \in 0..Cap
    BY <1>3 DEF DelFrom
  <2> QED
    BY <1>0, <1>3, <2>1, DelIdKeeps, ChangedKeeps DEF DelFrom
<1>4. CASE DelAll \/ DelNext
  BY <1>3, <1>4 DEF DelAll, DelNext
<1>5. CASE AnyMatch
  <2>1. PICK m \in SUBSET Bits : MatchMask(m)
    BY <1>5 DEF AnyMatch
  <2> DEFINE e == Enter(rs, 1)
             a == [e EXCEPT !.mask = m]
  <2>2. CursorSound(rs, e) /\ e.status = "visit"
    BY <1>0, EnterSound, MaskRuleAssumption DEF Prios
  <2>3. m \subseteq Bits
    BY MaskRuleAssumption
  <2>4. pass' = a
    BY <2>1 DEF MatchMask
  <2> HIDE DEF e
  <2>5. a = [status |-> e.status, mask |-> m, list |-> e.list,
             pos |-> e.pos, tmp |-> e.tmp]
    BY <2>2 DEF CursorSound
  <2> HIDE DEF a
  <2>6. /\ a.status = e.status /\ a.mask = m /\ a.list = e.list /\ a.pos = e.pos
        /\ a.tmp = e.tmp
        /\ a = [status |-> a.status, mask |-> a.mask, list |-> a.list,
                pos |-> a.pos, tmp |-> a.tmp]
    BY <2>5
  <2>7. CursorSound(rs, a)
    BY <2>2, <2>3, <2>6 DEF CursorSound
  <2> QED
    BY <1>0, <2>1, <2>4, <2>7 DEF MatchMask, RuleInv
<1>6. CASE AtHead
  <2>1. pass.status = "visit" /\ UNCHANGED <<rs, sweep, calls, during>>
    BY <1>6 DEF AtHead
  <2>2. CASE pass.pos # -pass.list \/ pass.list = NumPrio
    <3>1. pass' = [pass EXCEPT !.status = "wild"] \/ pass' = [pass EXCEPT !.status = "done"]
      BY <1>6, <2>2 DEF AtHead
    <3>2. CursorSound(rs, pass')
      BY <1>0, <2>1, <3>1, StatusSound DEF Statuses
    <3> QED
      BY <1>0, <2>1, <3>2 DEF RuleInv
  <2>3. CASE ~(pass.pos # -pass.list \/ pass.list = NumPrio)
    <3>1. pass' = Enter(rs, pass.list + 1)
      BY <1>6, <2>3 DEF AtHead
    <3>2. pass.list + 1 \in Prios
      BY <1>0, <2>1, <2>3, MaskRuleAssumption DEF CursorSound, Prios
    <3>3. CursorSound(rs, pass')
      BY <1>0, <3>1, <3>2, EnterSound
    <3> QED
      BY <1>0, <2>1, <3>3 DEF RuleInv
  <2> QED
    BY <2>2, <2>3
<1>7. CASE Visit
  <2> DEFINE n == pass.pos
             r == NotInEffect(rs, n)
  <2>1. /\ pass.status = "visit" /\ n \in Node
        /\ Sound(r) /\ LinksKept(rs, r) /\ Sound(rs') /\ LinksKept(rs, rs')
    BY <1>7, VisitWrites
  <2>2. LinksSound(rs') /\ LinksSound(r)
    BY <2>1 DEF LinksKept
  <2>3. CursorSound(rs', pass')
    <3>1. CASE Skips(r)
      <4>1. rs' = r /\ pass' = Advance(r)
        BY <1>7, <3>1 DEF Visit
      <4>2. CursorSound(r, pass)
        BY <1>0, <2>1, CursorKept
      <4> QED
        BY <2>1, <2>2, <4>1, <4>2, AdvanceSound
    <3>2. CASE ~Skips(r)
      <4> DEFINE a == [pass EXCEPT !.status = "callback"]
      <4>1. pass' = a
        BY <1>7, <3>2 DEF Visit
      <4>2. CursorSound(rs', pass)
        BY <1>0, <2>1, CursorKept
      <4>3. a = [status |-> "callback", mask |-> pass.mask, list |-> pass.list,
                 pos |-> pass.pos, tmp |-> pass.tmp]
        BY <1>0 DEF CursorSound
      <4> HIDE DEF a
      <4>4. /\ a.status = "callback" /\ a.mask = pass.mask /\ a.list = pass.list
            /\ a.pos = pass.pos /\ a.tmp = pass.tmp
            /\ a = [status |-> a.status, mask |-> a.mask, list |-> a.list,
                    pos |-> a.pos, tmp |-> a.tmp]
        BY <4>3
      <4>5. CursorSound(rs', a)
        BY <2>1, <4>2, <4>4 DEF CursorSound, Statuses
      <4> QED
        BY <4>1, <4>5
    <3> QED
      BY <3>1, <3>2
  <2>4. UNCHANGED <<sweep, during>>
    BY <1>7 DEF Visit
  <2> QED
    BY <1>0, <2>1, <2>2, <2>3, <2>4 DEF RuleInv
<1>8. CASE VisitInvalid
  <2>1. CursorSound(rs, pass')
    BY <1>0, <1>8, StatusSound DEF VisitInvalid, Statuses
  <2> QED
    BY <1>0, <1>8, <2>1 DEF VisitInvalid, RuleInv
<1>9. CASE CallbackOk
  <2>1. CursorSound(rs, pass')
    BY <1>0, <1>9, AdvanceSound DEF CallbackOk
  <2> QED
    BY <1>0, <1>9, <2>1 DEF CallbackOk, RuleInv
<1>10. CASE CallbackFails
  <2>1. CursorSound(rs, pass')
    BY <1>0, <1>10, StatusSound DEF CallbackFails, Statuses
  <2> QED
    BY <1>0, <1>10, <2>1 DEF CallbackFails, RuleInv
<1>11. CASE UNCHANGED vars
  BY <1>0, <1>11 DEF RuleInv, vars
<1> QED
  BY <1>1, <1>2, <1>4, <1>5, <1>6, <1>7, <1>8, <1>9, <1>10, <1>11 DEF RuleNext, PassStep

\* mask_rule_add and mask_rule_del keep lists, links and counters consistent,
\* and mask_rule_macth its cursor on something that has been linked.
THEOREM RuleInvariance == Spec => []RuleInv
<1>1. Init => RuleInv
  BY RuleInvInit
<1>2. RuleInv /\ [Next]_vars => RuleInv'
  BY RuleInvNext, NextIsRuleNext
<1> QED
  BY <1>1, <1>2, PTL DEF Spec
-----------------------------------------------------------------------------
(* The properties.                                                         *)

\* The pool: rules in use come first on the id list, whatever was added and
\* deleted (mask_rule_add and mask_rule_get rely on it).
THEOREM NodesInUseComeFirst == Spec => []UsedFirst
<1>1. RuleInv => UsedFirst
  BY DEF RuleInv, Sound, UsedInFront, UsedFirst
<1> QED
  BY <1>1, RuleInvariance, PTL

\* A sequence that repeats nothing has as many elements as places.
LEMMA AllDifferent ==
  ASSUME NEW s \in Seq(Node), \A j, k \in DOMAIN s : s[j] = s[k] => j = k
  PROVE  IsFiniteSet(ToSet(s)) /\ Cardinality(ToSet(s)) = Len(s)
<1>1. Len(s) \in Nat /\ DOMAIN s = 1..Len(s)
  OBVIOUS
<1>2. IsFiniteSet(1..Len(s)) /\ Cardinality(1..Len(s)) = Len(s)
  BY <1>1, FS_Interval
<1> DEFINE f == [i \in 1..Len(s) |-> s[i]]
<1>3. ToSet(s) = {s[i] : i \in 1..Len(s)}
  BY <1>1 DEF ToSet
<1>4. f \in Bijection(1..Len(s), ToSet(s))
  BY <1>1, <1>3, Fun_IsBij
<1>5. ExistsBijection(1..Len(s), ToSet(s))
  BY <1>4 DEF ExistsBijection
<1> QED
  BY <1>2, <1>5, FS_Bijection

\* The lists: every rule in use is on the list of its priority, once, and on
\* no other; a deleted one is on none.
THEOREM RulesOnTheirLists == Spec => []OneListEach
<1>1. ASSUME RuleInv PROVE OneListEach
  <2>1. Sound(rs)
    BY <1>1 DEF RuleInv
  <2>2. \A p \in Prios : rs.prioList[p] \in Seq(Node)
    BY <2>1, SoundTypes
  <2>3. \A p \in Prios : \A n : n \in ListOf(p) <=>
           n \in Node /\ \E k \in DOMAIN rs.prioList[p] : rs.prioList[p][k] = n
    BY <2>2 DEF ListOf, ToSet
  <2>4. ASSUME NEW p \in Prios PROVE Cardinality(ListOf(p)) = Len(rs.prioList[p])
    <3>1. \A j, k \in DOMAIN rs.prioList[p] :
            rs.prioList[p][j] = rs.prioList[p][k] => j = k
      BY <2>1 DEF Sound, OnRightList
    <3> QED
      BY <2>2, <3>1, AllDifferent DEF ListOf
  <2>5. \A p \in Prios : \A n \in ListOf(p) : n \in InUse /\ rs.node[n].priority = p
    BY <2>1, <2>3 DEF Sound, OnRightList, InUse
  <2>6. \A n \in InUse : \E p \in Prios : n \in ListOf(p)
    BY <2>1, <2>3 DEF Sound, UsedIsListed, InUse
  <2> QED
    BY <2>4, <2>5, <2>6 DEF OneListEach
<1> QED
  BY <1>1, RuleInvariance, PTL

\* Counters stay within their widths, cursors and last nodes within the pool.
THEOREM TypeCorrect == Spec => []TypeOK
<1>1. ASSUME RuleInv PROVE TypeOK
  <2>1. Sound(rs) /\ CursorSound(rs, pass)
    BY <1>1 DEF RuleInv
  <2>2. ToSet(rs.idList) = Node
    BY <2>1, SoundTypes DEF ToSet, Sound, IdListWhole
  <2>3. Linked(rs) \subseteq Link /\ Link = -NumPrio..Cap
    BY HeadsType DEF Linked, Link
  <2>4. {pass.pos, pass.tmp} \subseteq -NumPrio..Cap
    BY <2>1, <2>3, HeadsType DEF CursorSound
  <2>5. /\ rs.prioLast \in [Prios -> -NumPrio..Cap]
        /\ rs.oldNext \in [Node -> -NumPrio..Cap]
    BY <2>1, SoundTypes DEF Link
  <2> QED
    BY <1>1, <2>1, <2>2, <2>4, <2>5, SoundTypes DEF RuleInv, CursorSound, Statuses, TypeOK
<1> QED
  BY <1>1, RuleInvariance, PTL
-----------------------------------------------------------------------------
(* The pass.                                                               *)

\* Ids are not given out again: the counter is 16 bits wide and does wrap.
NoWrap == MaxAdds < IdMod

-----------------------------------------------------------------------------
(* How a step may change the rules.                                        *)

\* The marks apart, two rule sets are the same.
OnlyMarks(r, s) ==
  /\ s.prioList = r.prioList /\ s.rule_id = r.rule_id
  /\ \A n \in Node :
       /\ s.node[n].valid = r.node[n].valid
       /\ s.node[n].rule_id = r.node[n].rule_id
       /\ s.node[n].priority = r.node[n].priority
       /\ s.node[n].type = r.node[n].type
       /\ s.node[n].imask = r.node[n].imask /\ s.node[n].omask = r.node[n].omask

Marks(r, n, b, s) ==
  /\ OnlyMarks(r, s) /\ s.node[n].effect = b
  /\ \A m \in Node : m # n => s.node[m] = r.node[m]

LEMMA MarkIsOnlyMark ==
  ASSUME NEW r, Sound(r), NEW n \in Node, NEW b \in BOOLEAN
  PROVE  Marks(r, n, b, [r EXCEPT !.node[n].effect = b])
<1> DEFINE s == [r EXCEPT !.node[n].effect = b]
<1>1. r \in RuleSets /\ r.node \in [Node -> Rule]
  BY SoundTypes
<1>2. /\ s.prioList = r.prioList /\ s.rule_id = r.rule_id
      /\ s.node = [r.node EXCEPT ![n].effect = b]
  BY <1>1 DEF RuleSets
<1> HIDE DEF s
<1>3. s.node[n] = [r.node[n] EXCEPT !.effect = b]
  BY <1>1, <1>2
<1>4. \A m \in Node : m # n => s.node[m] = r.node[m]
  BY <1>1, <1>2
<1>5. r.node[n] \in Rule
  BY <1>1
<1>6. /\ s.node[n].valid = r.node[n].valid /\ s.node[n].rule_id = r.node[n].rule_id
      /\ s.node[n].priority = r.node[n].priority /\ s.node[n].type = r.node[n].type
      /\ s.node[n].imask = r.node[n].imask /\ s.node[n].omask = r.node[n].omask
      /\ s.node[n].effect = b
  BY <1>3, <1>5 DEF Rule
<1>7. OnlyMarks(r, s)
  BY <1>2, <1>4, <1>6 DEF OnlyMarks
<1> QED
  BY <1>4, <1>6, <1>7 DEF Marks, s

\* What Visit leaves: its own node marked or not, every other one untouched.
LEMMA VisitMarks ==
  ASSUME RuleInv, Visit
  PROVE  LET n == pass.pos
             r == NotInEffect(rs, n)
         IN /\ n \in Node /\ rs.node[n].valid /\ pass.status = "visit"
            /\ Sound(r) /\ Sound(rs') /\ OnlyMarks(rs, r) /\ OnlyMarks(rs, rs')
            /\ r.node[n].effect = FALSE
            /\ \A m \in Node : m # n => r.node[m] = rs.node[m] /\ rs'.node[m] = rs.node[m]
            /\ ~Skips(r) => rs'.node[n].effect = TRUE
<1> SUFFICES ASSUME NEW n, n = pass.pos, NEW r, r = NotInEffect(rs, n)
             PROVE  /\ n \in Node /\ rs.node[n].valid /\ pass.status = "visit"
                    /\ Sound(r) /\ Sound(rs') /\ OnlyMarks(rs, r) /\ OnlyMarks(rs, rs')
                    /\ r.node[n].effect = FALSE
                    /\ \A m \in Node : m # n => r.node[m] = rs.node[m]
                                                /\ rs'.node[m] = rs.node[m]
                    /\ ~Skips(r) => rs'.node[n].effect = TRUE
  OBVIOUS
<1>1. /\ n \in Node /\ rs.node[n].valid /\ pass.status = "visit"
      /\ Sound(rs) /\ Sound(r) /\ Sound(rs')
  BY VisitWrites DEF RuleInv
<1>2. /\ OnlyMarks(rs, r) /\ r.node[n].effect = FALSE
      /\ \A m \in Node : m # n => r.node[m] = rs.node[m]
  <2>1. Marks(rs, n, FALSE, r)
    BY <1>1, MarkIsOnlyMark DEF NotInEffect
  <2> QED
    BY <2>1 DEF Marks
<1>3. CASE Skips(r)
  <2>1. rs' = r
    BY <1>3 DEF Visit
  <2> QED
    BY <1>1, <1>2, <1>3, <2>1
<1>4. CASE ~Skips(r)
  <2>1. rs' = [r EXCEPT !.node[n].effect = TRUE]
    BY <1>4 DEF Visit
  <2>2. /\ OnlyMarks(r, rs') /\ rs'.node[n].effect = TRUE
        /\ \A m \in Node : m # n => rs'.node[m] = r.node[m]
    <3>1. Marks(r, n, TRUE, rs')
      BY <1>1, <2>1, MarkIsOnlyMark
    <3> QED
      BY <3>1 DEF Marks
  <2>3. OnlyMarks(rs, rs')
    BY <1>2, <2>2 DEF OnlyMarks
  <2> QED
    BY <1>1, <1>2, <2>2, <2>3
<1> QED
  BY <1>3, <1>4

\* A step leaves the rules alone, adds one, deletes one, or marks.
LEMMA RuleSteps ==
  ASSUME RuleInv, [RuleNext]_vars
  PROVE  \/ rs' = rs
         \/ rs.rule_id < MaxAdds /\ IsAddition(rs, rs')
         \/ IsDeletion(rs, rs')
         \/ OnlyMarks(rs, rs')
<1>0. Sound(rs)
  BY DEF RuleInv
<1>1. CASE Add
  <2>1. PICK c \in Contents : AddContent(c)
    BY <1>1 DEF Add
  <2> QED
    BY <2>1 DEF AddContent, Changed, IsAddition
<1>2. ASSUME NEW id \in Int, Changed(DelId(rs, id), "removed")
      PROVE  rs' = rs \/ IsDeletion(rs, rs')
  <2>1. rs' = DelId(rs, id)
    BY <1>2 DEF Changed
  <2>2. CASE DelId(rs, id) = rs
    BY <2>1, <2>2
  <2>3. CASE DelId(rs, id) # rs
    <3>1. PICK n \in Node : /\ rs.node[n].valid /\ rs.node[n].rule_id = id % ArgMod
                            /\ DelId(rs, id) = Deleted(rs, n)
      BY <1>0, <2>3, DelIdDeletes
    <3>2. id % ArgMod \in 0..(ArgMod - 1)
      BY MaskRuleAssumption
    <3> QED
      BY <2>1, <3>1, <3>2 DEF IsDeletion
  <2> QED
    BY <2>2, <2>3
<1>3. CASE (\E id \in 1..MaxAdds : Del(id)) \/ DelAll \/ DelNext
  <2>1. PICK id \in Int : Changed(DelId(rs, id), "removed")
    <3>1. sweep \in Int /\ 1..MaxAdds \subseteq Int /\ 1..Cap \subseteq Int
      BY MaskRuleAssumption DEF RuleInv
    <3> QED
      BY <1>3, <3>1 DEF Del, DelAll, DelNext, DelFrom
  <2> QED
    BY <1>2, <2>1
<1>4. CASE Visit
  BY <1>4, VisitMarks
<1>5. CASE AnyMatch \/ AtHead \/ VisitInvalid \/ CallbackOk \/ CallbackFails \/ UNCHANGED vars
  BY <1>5 DEF AnyMatch, MatchMask, AtHead, VisitInvalid, CallbackOk, CallbackFails, vars
<1> QED
  BY <1>1, <1>3, <1>4, <1>5 DEF RuleNext, PassStep
-----------------------------------------------------------------------------
(* The lists are in the order of the ids.                                  *)

IdsSound(r) ==
  /\ \A n \in Node : r.node[n].valid => r.node[n].rule_id \in 1..r.rule_id
  /\ \A m, n \in Node : /\ r.node[m].valid /\ r.node[n].valid
                        /\ r.node[m].rule_id = r.node[n].rule_id
                        => m = n
  /\ \A p \in Prios : \A j, k \in DOMAIN r.prioList[p] :
       j < k => r.node[r.prioList[p][j]].rule_id < r.node[r.prioList[p][k]].rule_id

LEMMA MarksKeepIds ==
  ASSUME NEW r, Sound(r), IdsSound(r), NEW s, OnlyMarks(r, s)
  PROVE  IdsSound(s)
<1>1. \A p \in Prios : \A k \in DOMAIN r.prioList[p] : r.prioList[p][k] \in Node
  BY SoundTypes
<1> QED
  BY <1>1 DEF IdsSound, OnlyMarks

LEMMA AddedIds ==
  ASSUME NoWrap, NEW r, Sound(r), IdsSound(r), r.rule_id < MaxAdds,
         NEW c \in Content, CanAdd(r, c)
  PROVE  IdsSound(Added(r, c)) /\ Added(r, c).rule_id = r.rule_id + 1
<1> DEFINE s == Added(r, c)
           n == FreeNode(r)
           p == ListIndex(c)
           new == NewRule(r, c)
<1>1. /\ s.node = [r.node EXCEPT ![n] = new]
      /\ s.rule_id = (r.rule_id + 1) % IdMod
      /\ s.prioList = [r.prioList EXCEPT ![p] = Append(@, n)]
  BY AddedFields
<1>2. n \in Node /\ ~r.node[n].valid /\ p \in Prios
  BY FirstFree, ListIndexType DEF CanAdd
<1>3. new.valid /\ new.rule_id = (r.rule_id + 1) % IdMod
  BY DEF NewRule
<1>4. (r.rule_id + 1) % IdMod = r.rule_id + 1 /\ r.rule_id \in Nat
  <2>1. r.rule_id \in Nat /\ IdMod \in Nat /\ MaxAdds \in Nat
    BY SoundTypes, MaskRuleAssumption
  <2>2. r.rule_id + 1 \in 0..(IdMod - 1)
    BY <2>1 DEF NoWrap
  <2> QED
    BY <2>1, <2>2
<1>5. r.node \in [Node -> Rule] /\ r.prioList \in [Prios -> Seq(Node)]
  BY SoundTypes
<1>6. \A q \in Prios : \A k \in DOMAIN r.prioList[q] :
        r.prioList[q][k] \in Node /\ r.node[r.prioList[q][k]].valid
        /\ r.prioList[q][k] # n
  BY <1>2, <1>5 DEF Sound, OnRightList
<1> HIDE DEF s, n, p, new
<1>7. /\ s.node[n].valid /\ s.node[n].rule_id = r.rule_id + 1
      /\ \A m \in Node : m # n => s.node[m] = r.node[m]
      /\ s.rule_id = r.rule_id + 1
  BY <1>1, <1>2, <1>3, <1>4, <1>5
<1>8. \A m \in Node : s.node[m].valid => s.node[m].rule_id \in 1..s.rule_id
  <2>1. ASSUME NEW m \in Node, s.node[m].valid, m # n
        PROVE  s.node[m].rule_id \in 1..s.rule_id
    <3>1. s.node[m].rule_id \in 1..r.rule_id
      BY <1>7, <2>1 DEF IdsSound
    <3> QED
      BY <1>4, <1>7, <3>1
  <2>2. s.node[n].rule_id \in 1..s.rule_id
    BY <1>4, <1>7
  <2> QED
    BY <2>1, <2>2
<1>9. \A m \in Node : r.node[m].valid => r.node[m].rule_id < r.rule_id + 1
  BY <1>4 DEF IdsSound
<1>10. ASSUME NEW a \in Node, NEW b \in Node, s.node[a].valid, s.node[b].valid,
              s.node[a].rule_id = s.node[b].rule_id
       PROVE  a = b
  <2>1. ASSUME NEW m \in Node, m # n, s.node[m].valid
        PROVE  s.node[m].rule_id # r.rule_id + 1
    <3>1. r.node[m].rule_id \in 1..r.rule_id /\ s.node[m] = r.node[m]
      BY <1>7, <2>1 DEF IdsSound
    <3> QED
      BY <1>4, <3>1
  <2>2. CASE a # n /\ b # n
    BY <1>7, <1>10, <2>2 DEF IdsSound
  <2>3. CASE a = n \/ b = n
    BY <1>7, <1>10, <2>1, <2>3
  <2> QED
    BY <2>2, <2>3
<1>11. ASSUME NEW q \in Prios, NEW j \in DOMAIN s.prioList[q],
              NEW k \in DOMAIN s.prioList[q], j < k
       PROVE  s.node[s.prioList[q][j]].rule_id < s.node[s.prioList[q][k]].rule_id
  <2> DEFINE l == r.prioList[q]
  <2>1. l \in Seq(Node) /\ Len(l) \in Nat /\ DOMAIN l = 1..Len(l)
    BY <1>5
  <2>2. \A i \in DOMAIN l : l[i] \in Node /\ r.node[l[i]].valid /\ l[i] # n
    BY <1>6
  <2>3. \A i \in DOMAIN l : s.node[l[i]] = r.node[l[i]]
    BY <1>7, <2>2
  <2>4. \A h, i \in DOMAIN l : h < i => r.node[l[h]].rule_id < r.node[l[i]].rule_id
    BY DEF IdsSound
  <2>5. CASE q # p
    <3>1. s.prioList[q] = l
      BY <1>1, <1>2, <1>5, <2>5
    <3> QED
      BY <1>11, <2>3, <2>4, <3>1
  <2>6. CASE q = p
    <3>1. s.prioList[q] = Append(l, n)
      BY <1>1, <1>2, <1>5, <2>6
    <3> HIDE DEF l
    <3>2. /\ DOMAIN s.prioList[q] = 1..(Len(l) + 1)
          /\ s.prioList[q][Len(l) + 1] = n
          /\ \A i \in DOMAIN l : s.prioList[q][i] = l[i]
      BY <1>2, <2>1, <3>1
    <3>3. j \in DOMAIN l
      BY <1>11, <2>1, <3>2
    <3>4. CASE k = Len(l) + 1
      BY <1>7, <1>9, <2>2, <2>3, <3>2, <3>3, <3>4
    <3>5. CASE k # Len(l) + 1
      <4>1. k \in DOMAIN l
        BY <2>1, <3>2, <3>5
      <4> QED
        BY <1>11, <2>3, <2>4, <3>2, <3>3, <4>1
    <3> QED
      BY <3>4, <3>5
  <2> QED
    BY <2>5, <2>6
<1>12. IdsSound(s)
  BY <1>8, <1>10, <1>11 DEF IdsSound
<1> QED
  BY <1>7, <1>12 DEF s

LEMMA DeletedIds ==
  ASSUME NEW r, Sound(r), IdsSound(r), NEW n \in Node, r.node[n].valid
  PROVE  IdsSound(Deleted(r, n)) /\ Deleted(r, n).rule_id = r.rule_id
<1> SUFFICES ASSUME NEW s, s = Deleted(r, n), NEW q, q = r.node[n].priority
             PROVE  IdsSound(s) /\ s.rule_id = r.rule_id
  OBVIOUS
<1>1. HasPlaces(r, n, q) /\ Leaves(r, n, q, s)
  BY UsedPlaces, DeletedFields
<1>2. /\ s.node = [r.node EXCEPT ![n] = GoneRule(r, n)] /\ ~GoneRule(r, n).valid
      /\ s.rule_id = r.rule_id
      /\ s.prioList = [r.prioList EXCEPT ![q] = Unlinked(@, n)]
      /\ r.node \in [Node -> Rule] /\ r.prioList \in [Prios -> Seq(Node)]
      /\ q \in Prios
  BY <1>1, SoundTypes DEF HasPlaces, Leaves
<1>3. /\ ~s.node[n].valid
      /\ \A m \in Node : m # n => s.node[m] = r.node[m]
  BY <1>2
<1>4. ASSUME NEW p \in Prios, NEW j \in DOMAIN s.prioList[p],
             NEW k \in DOMAIN s.prioList[p], j < k
      PROVE  s.node[s.prioList[p][j]].rule_id < s.node[s.prioList[p][k]].rule_id
  <2> DEFINE l == r.prioList[p]
  <2>1. l \in Seq(Node) /\ Len(l) \in Nat /\ DOMAIN l = 1..Len(l)
    BY <1>2
  <2>2. \A h, i \in DOMAIN l : h < i => r.node[l[h]].rule_id < r.node[l[i]].rule_id
    BY DEF IdsSound
  <2>3. CASE p # q
    <3>1. s.prioList[p] = l
      BY <1>2, <2>3
    <3>2. \A i \in DOMAIN l : l[i] \in Node /\ l[i] # n
      BY <1>2, <2>3 DEF Sound, OnRightList
    <3> QED
      BY <1>3, <1>4, <2>2, <3>1, <3>2
  <2>4. CASE p = q
    <3>1. PICK i \in DOMAIN l : l[i] = n /\ \A h \in DOMAIN l : l[h] = n => h = i
      BY <1>1, <2>4 DEF HasPlaces
    <3>2. s.prioList[p] = Unlinked(l, l[i])
      BY <1>2, <2>4, <3>1
    <3> HIDE DEF l
    <3>3. /\ DOMAIN s.prioList[p] = 1..(Len(l) - 1)
          /\ \A h \in 1..(Len(l) - 1) :
               s.prioList[p][h] = IF h < i THEN l[h] ELSE l[h + 1]
      <4>1. \A h \in DOMAIN l : l[h] = l[i] => h = i
        BY <3>1
      <4>2. /\ DOMAIN Unlinked(l, l[i]) = 1..(Len(l) - 1)
            /\ \A h \in 1..(Len(l) - 1) :
                 Unlinked(l, l[i])[h] = IF h < i THEN l[h] ELSE l[h + 1]
        BY <2>1, <4>1, UnlinkedShape
      <4> QED
        BY <3>2, <4>2
    <3> DEFINE Old(h) == IF h < i THEN h ELSE h + 1
    <3>4. /\ j \in 1..(Len(l) - 1) /\ k \in 1..(Len(l) - 1)
          /\ Old(j) \in DOMAIN l /\ Old(k) \in DOMAIN l /\ Old(j) < Old(k)
          /\ Old(j) # i /\ Old(k) # i
      BY <1>4, <2>1, <3>1, <3>3
    <3>5. s.prioList[p][j] = l[Old(j)] /\ s.prioList[p][k] = l[Old(k)]
      BY <3>3, <3>4
    <3> HIDE DEF Old
    <3>6. /\ l[Old(j)] \in Node /\ l[Old(j)] # n /\ l[Old(k)] \in Node /\ l[Old(k)] # n
      BY <2>1, <3>1, <3>4
    <3> QED
      BY <1>3, <2>2, <3>4, <3>5, <3>6
  <2> QED
    BY <2>3, <2>4
<1>5. \A m \in Node : s.node[m].valid => m # n /\ s.node[m] = r.node[m]
  BY <1>3
<1>6. /\ \A m \in Node : s.node[m].valid => s.node[m].rule_id \in 1..s.rule_id
      /\ \A a, b \in Node : /\ s.node[a].valid /\ s.node[b].valid
                            /\ s.node[a].rule_id = s.node[b].rule_id
                            => a = b
  BY <1>2, <1>5 DEF IdsSound
<1>7. IdsSound(s)
  BY <1>4, <1>6 DEF IdsSound
<1> QED
  BY <1>2, <1>7

LEMMA IdsInit == Init => IdsSound(rs)
  BY DEF Init, IdsSound, Empty

LEMMA IdsNext == NoWrap /\ RuleInv /\ IdsSound(rs) /\ [RuleNext]_vars => IdsSound(rs)'
<1> SUFFICES ASSUME NoWrap, RuleInv, IdsSound(rs), [RuleNext]_vars PROVE IdsSound(rs')
  OBVIOUS
<1>1. Sound(rs)
  BY DEF RuleInv
<1>2. CASE rs' = rs
  BY <1>2
<1>3. CASE rs.rule_id < MaxAdds /\ IsAddition(rs, rs')
  BY <1>1, <1>3, AddedIds, MaskRuleAssumption DEF IsAddition
<1>4. CASE IsDeletion(rs, rs')
  BY <1>1, <1>4, DeletedIds DEF IsDeletion
<1>5. CASE OnlyMarks(rs, rs')
  BY <1>1, <1>5, MarksKeepIds
<1> QED
  BY <1>2, <1>3, <1>4, <1>5, RuleSteps

\* mask_rule_add gives every rule an id of its own, greater than all before.
THEOREM IdsInvariance == NoWrap => (Spec => []IdsSound(rs))
<1> SUFFICES ASSUME NoWrap PROVE Spec => []IdsSound(rs)
  OBVIOUS
<1>1. RuleInv /\ IdsSound(rs) /\ [Next]_vars => IdsSound(rs)'
  BY IdsNext, NextIsRuleNext
<1> QED
  BY <1>1, IdsInit, RuleInvariance, PTL DEF Spec

\* Every list is in the order of the ids, so that mask_rule_fitler may stop
\* at the first rule in effect that is younger, as long as ids do not wrap.
THEOREM ListsStaySorted == NoWrap => (Spec => []ListsInIdOrder)
<1>1. IdsSound(rs) => ListsInIdOrder
  BY DEF IdsSound, ListsInIdOrder
<1> QED
  BY <1>1, IdsInvariance, PTL
-----------------------------------------------------------------------------
(* How the cursor moves.                                                   *)

Starts(r, p, e) ==
  /\ e.status = "visit" /\ e.list = p /\ e.pos = FirstIn(r.prioList[p], -p)
  /\ e.tmp = NextOf(r, e.pos)

LEMMA EnterStarts ==
  ASSUME NEW u, CursorSound(u, pass), NEW r, NEW p
  PROVE  /\ Starts(r, p, Enter(r, p))
         /\ \A m : Starts(r, p, [Enter(r, p) EXCEPT !.mask = m])
<1> DEFINE first == FirstIn(r.prioList[p], -p)
           next  == NextOf(r, first)
           e     == Enter(r, p)
<1>1. pass = [status |-> pass.status, mask |-> pass.mask, list |-> pass.list,
              pos |-> pass.pos, tmp |-> pass.tmp]
  BY DEF CursorSound
<1>2. e = [pass EXCEPT !.status = "visit", !.list = p, !.pos = first, !.tmp = next]
  BY DEF Enter
<1> HIDE DEF next, e, first
<1>3. e = [status |-> "visit", mask |-> pass.mask, list |-> p,
           pos |-> first, tmp |-> next]
  BY <1>1, <1>2
<1>4. e.status = "visit" /\ e.list = p /\ e.pos = first /\ e.tmp = next
  BY <1>3
<1>5. ASSUME NEW m
      PROVE  LET a == [e EXCEPT !.mask = m]
             IN a.status = "visit" /\ a.list = p /\ a.pos = first /\ a.tmp = next
  BY <1>3
<1> QED
  BY <1>4, <1>5 DEF Starts, first, next, e

Moves(r, a) ==
  a.status = "visit" /\ a.list = pass.list /\ a.pos = pass.tmp /\ a.tmp = NextOf(r, pass.tmp)

LEMMA AdvanceMoves ==
  ASSUME NEW u, CursorSound(u, pass), NEW r
  PROVE  Moves(r, Advance(r))
<1> DEFINE next == NextOf(r, pass.tmp)
           a    == Advance(r)
<1>1. pass = [status |-> pass.status, mask |-> pass.mask, list |-> pass.list,
              pos |-> pass.pos, tmp |-> pass.tmp]
  BY DEF CursorSound
<1>2. a = [pass EXCEPT !.status = "visit", !.pos = pass.tmp, !.tmp = next]
  BY DEF Advance
<1> HIDE DEF next, a
<1>3. a = [status |-> "visit", mask |-> pass.mask, list |-> pass.list,
           pos |-> pass.tmp, tmp |-> next]
  BY <1>1, <1>2
<1>4. a.status = "visit" /\ a.list = pass.list /\ a.pos = pass.tmp /\ a.tmp = next
  BY <1>3
<1> QED
  BY <1>4 DEF Moves, next, a

\* Only the status changes.
LEMMA StatusMoves ==
  ASSUME NEW u, CursorSound(u, pass), NEW st
  PROVE  LET a == [pass EXCEPT !.status = st]
         IN a.status = st /\ a.list = pass.list /\ a.pos = pass.pos /\ a.tmp = pass.tmp
<1>1. pass = [status |-> pass.status, mask |-> pass.mask, list |-> pass.list,
              pos |-> pass.pos, tmp |-> pass.tmp]
  BY DEF CursorSound
<1> QED
  BY <1>1

\* What a change by the operator means for the pass.
LEMMA ChangedMeans ==
  ASSUME NEW r, NEW how, Changed(r, how)
  PROVE  \/ pass' = NoPass /\ calls' = <<>> /\ during' = {}
         \/ /\ rs' = rs /\ during' = during
            /\ ~Quiet /\ pass' = pass /\ calls' = calls
         \/ /\ rs' = r /\ during' = during \union {how}
            /\ ~Quiet /\ pass' = pass /\ calls' = calls
  BY DEF Changed

\* Nodes keep their places: a list only grows, at its end.
Extends(r, s) ==
  \A p \in Prios : \A k \in DOMAIN r.prioList[p] :
    k \in DOMAIN s.prioList[p] /\ s.prioList[p][k] = r.prioList[p][k]

LEMMA AddedExtends ==
  ASSUME NEW r, Sound(r), NEW c \in Content, CanAdd(r, c)
  PROVE  /\ Extends(r, Added(r, c))
         /\ \A m \in Node : r.node[m].valid => Added(r, c).node[m] = r.node[m]
<1> DEFINE s == Added(r, c)
           n == FreeNode(r)
           p == ListIndex(c)
<1>1. /\ s.node = [r.node EXCEPT ![n] = NewRule(r, c)]
      /\ s.prioList = [r.prioList EXCEPT ![p] = Append(@, n)]
  BY AddedFields
<1>2. n \in Node /\ ~r.node[n].valid
  BY FirstFree DEF CanAdd
<1>3. r.node \in [Node -> Rule] /\ r.prioList \in [Prios -> Seq(Node)] /\ p \in Prios
  BY SoundTypes, ListIndexType
<1> HIDE DEF s, n, p
<1>4. ASSUME NEW q \in Prios, NEW k \in DOMAIN r.prioList[q]
      PROVE  k \in DOMAIN s.prioList[q] /\ s.prioList[q][k] = r.prioList[q][k]
  <2>1. CASE q = p
    <3> DEFINE l == r.prioList[q]
    <3>1. l \in Seq(Node) /\ s.prioList[q] = Append(l, n) /\ k \in DOMAIN l
      BY <1>1, <1>3, <2>1
    <3> HIDE DEF l
    <3>2. k \in DOMAIN Append(l, n) /\ Append(l, n)[k] = l[k]
      BY <1>2, <3>1
    <3> QED
      BY <3>1, <3>2 DEF l
  <2>2. CASE q # p
    BY <1>1, <1>3, <2>2
  <2> QED
    BY <2>1, <2>2
<1>5. \A m \in Node : r.node[m].valid => s.node[m] = r.node[m]
  BY <1>1, <1>2, <1>3
<1> QED
  BY <1>4, <1>5 DEF Extends, s

\* The cursor is at the end of its list, or at a node of it and its saved next
\* one further behind.
Placed(r, c) ==
  \/ c.pos = -c.list
  \/ \E k \in DOMAIN r.prioList[c.list] :
       /\ r.prioList[c.list][k] = c.pos
       /\ \/ c.tmp = -c.list
          \/ \E j \in DOMAIN r.prioList[c.list] : j > k /\ r.prioList[c.list][j] = c.tmp

PlacedInv ==
  "removed" \notin during =>
    /\ pass.status \notin {"invalid", "wild"}
    /\ pass.status \in {"visit", "callback"} => Placed(rs, pass)

LEMMA PlacedKept ==
  ASSUME NEW r, NEW s, Extends(r, s), NEW c, NEW d, c.list \in Prios, Placed(r, c),
         d.list = c.list, d.pos = c.pos, d.tmp = c.tmp
  PROVE  Placed(s, d)
  BY DEF Placed, Extends

LEMMA StartPlaced ==
  ASSUME NEW r, Sound(r), NEW p \in Prios, NEW e, Starts(r, p, e)
  PROVE  Placed(r, e)
<1> DEFINE l == r.prioList[p]
<1>1. l \in Seq(Node)
  BY SoundTypes
<1>2. CASE l = <<>>
  BY <1>2 DEF Starts, FirstIn, Placed
<1>3. CASE l # <<>>
  <2>1. 1 \in DOMAIN l /\ e.pos = l[1] /\ e.list = p
    BY <1>1, <1>3 DEF Starts, FirstIn
  <2>2. e.tmp = IF 1 = Len(l) THEN -p ELSE l[1 + 1]
    <3>1. e.tmp = NextOf(r, l[1])
      BY <2>1 DEF Starts
    <3>2. NextOf(r, l[1]) = IF 1 = Len(l) THEN -p ELSE l[1 + 1]
      BY <2>1, NextOnList
    <3> QED
      BY <3>1, <3>2
  <2>3. 1 # Len(l) => 1 + 1 \in DOMAIN l /\ 1 + 1 > 1
    <3> HIDE DEF l
    <3>1. Len(l) \in Nat /\ DOMAIN l = 1..Len(l)
      BY <1>1
    <3>2. 1 \in DOMAIN l
      BY <2>1
    <3> QED
      BY <3>1, <3>2
  <2> QED
    BY <2>1, <2>2, <2>3 DEF Placed
<1> QED
  BY <1>2, <1>3

LEMMA MovePlaced ==
  ASSUME NEW r, Sound(r), pass.list \in Prios, pass.pos > 0, pass.pos \in Node,
         Placed(r, pass), NEW a, Moves(r, a)
  PROVE  Placed(r, a)
<1>1. pass.pos # -pass.list
  BY HeadsType
<1>2. CASE pass.tmp = -pass.list
  BY <1>2 DEF Moves, Placed
<1>3. CASE pass.tmp # -pass.list
  <2> DEFINE l == r.prioList[pass.list]
  <2>1. PICK j \in DOMAIN l : l[j] = pass.tmp
    BY <1>1, <1>3 DEF Placed
  <2>2. l \in Seq(Node)
    BY SoundTypes
  <2>3. NextOf(r, l[j]) = IF j = Len(l) THEN -pass.list ELSE l[j + 1]
    BY NextOnList
  <2>4. j # Len(l) => j + 1 \in DOMAIN l /\ j + 1 > j
    BY <2>2
  <2> QED
    BY <2>1, <2>3, <2>4 DEF Moves, Placed
<1> QED
  BY <1>2, <1>3

LEMMA PlacedNext == RuleInv /\ PlacedInv /\ [RuleNext]_vars => PlacedInv'
<1> SUFFICES ASSUME RuleInv, PlacedInv, [RuleNext]_vars, "removed" \notin during'
             PROVE  /\ pass.status' \notin {"invalid", "wild"}
                    /\ pass.status' \in {"visit", "callback"} => Placed(rs', pass')
  BY DEF PlacedInv
<1>0. Sound(rs) /\ CursorSound(rs, pass)
  BY DEF RuleInv
<1>1. pass.status \in {"visit", "callback"} => pass.list \in Prios
  BY <1>0 DEF CursorSound
<1>2. ASSUME NEW r, NEW how, Changed(r, how), how = "removed" \/ Extends(rs, r)
      PROVE  /\ pass.status' \notin {"invalid", "wild"}
             /\ pass.status' \in {"visit", "callback"} => Placed(rs', pass')
  <2>1. CASE pass' = NoPass
    BY <2>1 DEF NoPass
  <2>2. CASE rs' = rs /\ during' = during /\ pass' = pass
    BY <2>2 DEF PlacedInv
  <2>3. CASE rs' = r /\ during' = during \union {how} /\ pass' = pass /\ ~Quiet
    <3>1. how # "removed" /\ "removed" \notin during
      BY <2>3
    <3>2. pass.status \in {"visit", "callback"}
      BY <1>0, <2>3, <3>1 DEF PlacedInv, CursorSound, Statuses, Quiet
    <3>3. Extends(rs, r) /\ Placed(rs, pass) /\ pass.list \in Prios
      BY <1>1, <1>2, <3>1, <3>2 DEF PlacedInv
    <3> QED
      BY <2>3, <3>2, <3>3, PlacedKept
  <2> QED
    BY <1>2, <2>1, <2>2, <2>3, ChangedMeans
<1>3. CASE Add
  <2>1. PICK c \in Contents : AddContent(c)
    BY <1>3 DEF Add
  <2>2. Changed(Added(rs, c), "added") /\ CanAdd(rs, c)
    BY <2>1 DEF AddContent
  <2>3. Extends(rs, Added(rs, c))
    BY <1>0, <2>2, AddedExtends, MaskRuleAssumption
  <2> QED
    BY <1>2, <2>2, <2>3
<1>4. CASE (\E id \in 1..MaxAdds : Del(id)) \/ DelAll \/ DelNext
  <2>1. PICK id : Changed(DelId(rs, id), "removed")
    BY <1>4 DEF Del, DelAll, DelNext, DelFrom
  <2> QED
    BY <1>2, <2>1
<1>5. CASE AnyMatch
  <2>1. PICK m \in SUBSET Bits : pass' = [Enter(rs, 1) EXCEPT !.mask = m] /\ rs' = rs
    BY <1>5 DEF AnyMatch, MatchMask
  <2>2. 1 \in Prios
    BY MaskRuleAssumption DEF Prios
  <2>3. Starts(rs, 1, pass')
    BY <1>0, <2>1, EnterStarts
  <2>4. Placed(rs, pass')
    BY <1>0, <2>2, <2>3, StartPlaced
  <2> QED
    BY <2>1, <2>3, <2>4 DEF Starts
<1>6. CASE AtHead
  <2>1. /\ pass.status = "visit" /\ pass.pos <= 0 /\ rs' = rs /\ "removed" \notin during
        /\ Placed(rs, pass) /\ pass.list \in Prios
    BY <1>1, <1>6 DEF AtHead, PlacedInv
  <2>2. pass.pos = -pass.list
    <3>1. rs.prioList[pass.list] \in Seq(Node)
      BY <1>0, <2>1, SoundTypes
    <3>2. \A k \in DOMAIN rs.prioList[pass.list] : ~(rs.prioList[pass.list][k] <= 0)
      <4>1. \A k \in DOMAIN rs.prioList[pass.list] : rs.prioList[pass.list][k] \in Node
        BY <3>1
      <4>2. \A n \in Node : ~(n <= 0)
        BY MaskRuleAssumption DEF Node
      <4> QED
        BY <4>1, <4>2
    <3> QED
      BY <2>1, <3>2 DEF Placed
  <2>3. CASE pass.list = NumPrio
    <3>1. pass' = [pass EXCEPT !.status = "done"]
      BY <1>6, <2>2, <2>3 DEF AtHead
    <3>2. pass'.status = "done"
      BY <1>0, <3>1, StatusMoves
    <3> QED
      BY <3>2
  <2>4. CASE pass.list # NumPrio
    <3>1. pass' = Enter(rs, pass.list + 1)
      BY <1>6, <2>2, <2>4 DEF AtHead
    <3>2. pass.list + 1 \in Prios
      BY <2>1, <2>4, MaskRuleAssumption DEF Prios
    <3>3. Starts(rs, pass.list + 1, pass')
      BY <1>0, <3>1, EnterStarts
    <3>4. Placed(rs, pass')
      BY <1>0, <3>2, <3>3, StartPlaced
    <3> QED
      BY <2>1, <3>3, <3>4 DEF Starts
  <2> QED
    BY <2>3, <2>4
<1>7. CASE Visit
  <2> DEFINE n == pass.pos
             r == NotInEffect(rs, n)
  <2>1. /\ n \in Node /\ pass.status = "visit" /\ Sound(r)
        /\ OnlyMarks(rs, r) /\ OnlyMarks(rs, rs') /\ during' = during
    BY <1>7, VisitMarks DEF Visit
  <2>2. Placed(rs, pass) /\ pass.list \in Prios
    BY <1>1, <2>1 DEF PlacedInv
  <2>3. Placed(r, pass)
    BY <2>1, <2>2 DEF Placed, OnlyMarks
  <2>4. CASE Skips(r)
    <3>1. rs' = r /\ pass' = Advance(r)
      BY <1>7, <2>4 DEF Visit
    <3>2. Moves(r, pass')
      BY <1>0, <3>1, AdvanceMoves
    <3>3. Placed(r, pass')
      BY <2>1, <2>2, <2>3, <3>2, HeadsType, MovePlaced
    <3> QED
      BY <3>1, <3>2, <3>3 DEF Moves
  <2>5. CASE ~Skips(r)
    <3>1. pass' = [pass EXCEPT !.status = "callback"]
      BY <1>7, <2>5 DEF Visit
    <3>2. /\ pass'.status = "callback" /\ pass'.list = pass.list
          /\ pass'.pos = pass.pos /\ pass'.tmp = pass.tmp
      BY <1>0, <3>1, StatusMoves
    <3>3. Extends(rs, rs')
      BY <2>1 DEF OnlyMarks, Extends
    <3> QED
      BY <2>2, <3>2, <3>3, PlacedKept
  <2> QED
    BY <2>4, <2>5
<1>8. CASE VisitInvalid
  <2>1. /\ pass.status = "visit" /\ pass.pos > 0 /\ ~rs.node[pass.pos].valid
        /\ during' = during
    BY <1>8 DEF VisitInvalid
  <2>2. Placed(rs, pass) /\ pass.list \in Prios
    BY <1>1, <2>1 DEF PlacedInv
  <2>3. pass.pos # -pass.list
    BY <2>1, <2>2, HeadsType
  <2>4. rs.node[pass.pos].valid
    BY <1>0, <2>2, <2>3 DEF Placed, Sound, OnRightList
  <2> QED
    BY <2>1, <2>4
<1>9. CASE CallbackOk
  <2>1. /\ pass.status = "callback" /\ pass' = Advance(rs) /\ rs' = rs
        /\ during' = during
    BY <1>9 DEF CallbackOk
  <2>2. Placed(rs, pass) /\ pass.list \in Prios /\ pass.pos \in Node
    BY <1>0, <1>1, <2>1 DEF PlacedInv, CursorSound
  <2>3. Moves(rs, pass')
    BY <1>0, <2>1, AdvanceMoves
  <2>4. Placed(rs, pass')
    BY <1>0, <2>2, <2>3, HeadsType, MovePlaced
  <2> QED
    BY <2>1, <2>3, <2>4 DEF Moves
<1>10. CASE CallbackFails
  <2>1. pass'.status = "failed"
    BY <1>0, <1>10, StatusMoves DEF CallbackFails
  <2> QED
    BY <2>1
<1>11. CASE UNCHANGED vars
  BY <1>11 DEF vars, PlacedInv
<1> QED
  BY <1>3, <1>4, <1>5, <1>6, <1>7, <1>8, <1>9, <1>10, <1>11 DEF RuleNext, PassStep

LEMMA PlacedInit == Init => PlacedInv
  BY DEF Init, NoPass, PlacedInv

\* Unless a rule was removed under it, mask_rule_macth has its cursor and the
\* saved next node on the list it walks, the one behind the other.
THEOREM PlacedInvariance == Spec => []PlacedInv
<1>1. Init => PlacedInv
  BY PlacedInit
<1>2. RuleInv /\ PlacedInv /\ [Next]_vars => PlacedInv'
  BY PlacedNext, NextIsRuleNext
<1> QED
  BY <1>1, <1>2, RuleInvariance, PTL DEF Spec

\* Additions alone never lead a pass to a free node or to another list.
THEOREM AdditionsAreSafe == Spec => []PassSurvivesAdditions
<1>1. PlacedInv => PassSurvivesAdditions
  BY DEF PlacedInv, PassSurvivesAdditions
<1> QED
  BY <1>1, PlacedInvariance, PTL
-----------------------------------------------------------------------------
(* The outputs a pass drives.                                              *)

\* mask_rule_add refuses a rule that drives an output both ways.
PureMasks(r) ==
  \A n \in Node : r.node[n].valid => r.node[n].omask.up \intersect r.node[n].omask.down = {}

LEMMA PureInit == Init => PureMasks(rs)
  BY DEF Init, PureMasks, Empty

LEMMA PureNext == RuleInv /\ PureMasks(rs) /\ [RuleNext]_vars => PureMasks(rs)'
<1> SUFFICES ASSUME RuleInv, PureMasks(rs), [RuleNext]_vars,
                    NEW m \in Node, rs'.node[m].valid
             PROVE  rs'.node[m].omask.up \intersect rs'.node[m].omask.down = {}
  BY DEF PureMasks
<1>1. Sound(rs) /\ rs.node \in [Node -> Rule]
  BY SoundTypes DEF RuleInv
<1>2. CASE rs' = rs \/ OnlyMarks(rs, rs')
  BY <1>2 DEF OnlyMarks, PureMasks
<1>3. CASE IsAddition(rs, rs')
  <2>1. PICK c \in Contents : CanAdd(rs, c) /\ rs' = Added(rs, c)
    BY <1>3 DEF IsAddition
  <2>2. rs'.node = [rs.node EXCEPT ![FreeNode(rs)] = NewRule(rs, c)]
    BY <1>1, <2>1, AddedFields, MaskRuleAssumption
  <2>3. NewRule(rs, c).omask.up \intersect NewRule(rs, c).omask.down = {}
    BY <2>1 DEF NewRule, CanAdd
  <2>4. FreeNode(rs) \in Node
    BY <1>1, <2>1, FirstFree DEF CanAdd
  <2> QED
    BY <1>1, <2>2, <2>3, <2>4 DEF PureMasks
<1>4. CASE IsDeletion(rs, rs')
  <2>1. PICK n \in Node : rs.node[n].valid /\ rs' = Deleted(rs, n)
    BY <1>4 DEF IsDeletion
  <2>2. Leaves(rs, n, rs.node[n].priority, rs')
    BY <1>1, <2>1, DeletedFields
  <2>3. rs'.node = [rs.node EXCEPT ![n] = GoneRule(rs, n)] /\ ~GoneRule(rs, n).valid
    BY <2>2 DEF Leaves
  <2> QED
    BY <1>1, <2>1, <2>3 DEF PureMasks
<1> QED
  BY <1>2, <1>3, <1>4, RuleSteps

\* The rule at place i of list q is one the cursor c has passed, or stands at
\* while its callback runs.
Passed(r, c, q, i) ==
  \/ q < c.list
  \/ q = c.list /\ \A h \in DOMAIN r.prioList[q] :
       r.prioList[q][h] = c.pos => i < h \/ (i = h /\ c.status = "callback")

\* A call the pass has made is of such a rule, and its mark is still set.
Accounted(r, c, call) ==
  \E q \in Prios : \E i \in DOMAIN r.prioList[q] :
    /\ r.node[r.prioList[q][i]].effect /\ r.node[r.prioList[q][i]].omask = call.omask
    /\ Passed(r, c, q, i)

CallsInv ==
  /\ calls \in Seq(Rule)
  /\ "removed" \notin during =>
       /\ \A j, k \in DOMAIN calls : ~Clash(calls[j], calls[k])
       /\ pass.status \in {"visit", "callback"} =>
            \A k \in DOMAIN calls : Accounted(rs, pass, calls[k])

LEMMA ClashIsSymmetric ==
  ASSUME NEW a, NEW b
  PROVE  Clash(a, b) <=> Clash(b, a)
  BY DEF Clash

\* A rule whose callback is made clashes with none already in effect that the
\* cursor has passed: the search of mask_rule_fitler reaches all of those.
LEMMA NoClashBehind ==
  ASSUME NEW r, Sound(r), IdsSound(r), NEW p \in Prios, NEW k \in DOMAIN r.prioList[p],
         ~Fitler(r, r.node[r.prioList[p][k]]),
         NEW q \in Prios, NEW i \in DOMAIN r.prioList[q],
         q < p \/ (q = p /\ i < k), r.node[r.prioList[q][i]].effect
  PROVE  ~Clash(r.node[r.prioList[p][k]], r.node[r.prioList[q][i]])
<1> DEFINE f == r.node[r.prioList[p][k]]
           At(a, b) == r.node[r.prioList[a][b]]
<1>1. SUFFICES ASSUME Clash(f, At(q, i)) PROVE FALSE
  OBVIOUS
<1>2. \A a \in Prios : \A b \in DOMAIN r.prioList[a] :
        At(a, b).valid /\ At(a, b).priority = a
  BY DEF Sound, OnRightList
<1>a. PICK a \in Prios : \E b \in DOMAIN r.prioList[a] :
        /\ a < q \/ (a = q /\ b <= i)
        /\ ~At(a, b).valid \/ (At(a, b).effect /\ Precedes(f, At(a, b)))
  BY <1>1 DEF Fitler
<1>3. PICK b \in DOMAIN r.prioList[a] :
        /\ a < q \/ (a = q /\ b <= i)
        /\ ~At(a, b).valid \/ (At(a, b).effect /\ Precedes(f, At(a, b)))
  BY <1>a
<1>4. f.priority = p /\ At(a, b).priority = a
  BY <1>2
<1>5. p < a \/ (p = a /\ f.rule_id <= At(a, b).rule_id)
  BY <1>2, <1>3, <1>4 DEF Precedes
<1>6. p \in Nat /\ q \in Nat /\ a \in Nat
  BY MaskRuleAssumption DEF Prios
<1>7. p = a /\ q = p /\ i < k /\ b <= i /\ f.rule_id <= At(a, b).rule_id
  BY <1>3, <1>5, <1>6
<1>8. r.prioList[p] \in Seq(Node)
  BY SoundTypes
<1>9. b < k
  BY <1>7, <1>8
<1>10. At(p, b).rule_id < f.rule_id
  BY <1>7, <1>9 DEF IdsSound
<1>11. At(p, b) \in Rule /\ f \in Rule
  BY <1>7, <1>8, SoundTypes
<1>12. At(p, b).rule_id \in Int /\ f.rule_id \in Int
  BY <1>11, MaskRuleAssumption DEF Rule
<1> QED
  BY <1>7, <1>10, <1>12

\* Nodes at their places, marks and outputs as they were: the calls stay
\* accounted for.
LEMMA AccountedKept ==
  ASSUME NEW r, Sound(r), NEW s, Sound(s), Extends(r, s),
         NEW c, c.list \in Prios, Placed(r, c), NEW d, d.list = c.list, d.pos = c.pos,
         c.status = "callback" => d.status = "callback",
         NEW call, Accounted(r, c, call),
         \A q \in Prios : \A i \in DOMAIN r.prioList[q] :
           Passed(r, c, q, i) =>
             /\ s.node[r.prioList[q][i]].effect = r.node[r.prioList[q][i]].effect
             /\ s.node[r.prioList[q][i]].omask = r.node[r.prioList[q][i]].omask
  PROVE  Accounted(s, d, call)
<1>a. PICK q \in Prios : \E i \in DOMAIN r.prioList[q] :
        /\ r.node[r.prioList[q][i]].effect /\ r.node[r.prioList[q][i]].omask = call.omask
        /\ Passed(r, c, q, i)
  BY DEF Accounted
<1>1. PICK i \in DOMAIN r.prioList[q] :
        /\ r.node[r.prioList[q][i]].effect /\ r.node[r.prioList[q][i]].omask = call.omask
        /\ Passed(r, c, q, i)
  BY <1>a
<1>2. i \in DOMAIN s.prioList[q] /\ s.prioList[q][i] = r.prioList[q][i]
  BY DEF Extends
<1>3. Passed(s, d, q, i)
  <2>1. CASE q < c.list
    BY <2>1 DEF Passed
  <2>2. CASE ~(q < c.list)
    <3>1. q = c.list
      BY <1>1, <2>2 DEF Passed
    <3> SUFFICES ASSUME NEW h \in DOMAIN s.prioList[q], s.prioList[q][h] = c.pos
                 PROVE  i < h \/ (i = h /\ d.status = "callback")
      BY <3>1 DEF Passed
    <3>2. h \in DOMAIN r.prioList[q] /\ r.prioList[q][h] = c.pos
      <4>1. CASE c.pos = -c.list
        <5>1. s.prioList[q][h] \in Node
          BY SoundTypes
        <5> QED
          BY <4>1, <5>1, HeadsType
      <4>2. CASE c.pos # -c.list
        <5>1. PICK k \in DOMAIN r.prioList[q] : r.prioList[q][k] = c.pos
          BY <3>1, <4>2 DEF Placed
        <5>2. k \in DOMAIN s.prioList[q] /\ s.prioList[q][k] = c.pos
          BY <5>1 DEF Extends
        <5>3. h = k
          BY <5>2 DEF Sound, OnRightList
        <5> QED
          BY <5>1, <5>3
      <4> QED
        BY <4>1, <4>2
    <3> QED
      BY <1>1, <2>2, <3>2 DEF Passed
  <2> QED
    BY <2>1, <2>2
<1> QED
  BY <1>1, <1>2, <1>3 DEF Accounted

\* The cursor moves on: what it had passed, and stood at, is behind it.
LEMMA MoveAccounts ==
  ASSUME NEW r, Sound(r), pass.list \in Prios, pass.pos \in Node, Placed(r, pass),
         NEW a, Moves(r, a), NEW call, Accounted(r, pass, call)
  PROVE  Accounted(r, a, call)
<1>a. PICK q \in Prios : \E i \in DOMAIN r.prioList[q] :
        /\ r.node[r.prioList[q][i]].effect /\ r.node[r.prioList[q][i]].omask = call.omask
        /\ Passed(r, pass, q, i)
  BY DEF Accounted
<1>1. PICK i \in DOMAIN r.prioList[q] :
        /\ r.node[r.prioList[q][i]].effect /\ r.node[r.prioList[q][i]].omask = call.omask
        /\ Passed(r, pass, q, i)
  BY <1>a
<1>2. Passed(r, a, q, i)
  <2>1. CASE q < pass.list
    BY <2>1 DEF Passed, Moves
  <2>2. CASE ~(q < pass.list)
    <3>1. q = pass.list
      BY <1>1, <2>2 DEF Passed
    <3> SUFFICES ASSUME NEW h \in DOMAIN r.prioList[q], r.prioList[q][h] = pass.tmp
                 PROVE  i < h
      BY <3>1 DEF Passed, Moves
    <3>2. pass.pos # -pass.list /\ pass.tmp # -pass.list
      <4>1. r.prioList[q][h] \in Node
        BY SoundTypes
      <4> QED
        BY <4>1, HeadsType
    <3>3. PICK k \in DOMAIN r.prioList[q] :
            /\ r.prioList[q][k] = pass.pos
            /\ \E j \in DOMAIN r.prioList[q] : j > k /\ r.prioList[q][j] = pass.tmp
      BY <3>1, <3>2 DEF Placed
    <3>4. PICK j \in DOMAIN r.prioList[q] : j > k /\ r.prioList[q][j] = pass.tmp
      BY <3>3
    <3>5. h = j
      BY <3>4 DEF Sound, OnRightList
    <3>6. i < k \/ i = k
      BY <1>1, <2>2, <3>3 DEF Passed
    <3>7. r.prioList[q] \in Seq(Node)
      BY SoundTypes
    <3>8. i \in Int /\ k \in Int /\ j \in Int
      BY <3>7
    <3> QED
      BY <3>4, <3>5, <3>6, <3>8
  <2> QED
    BY <2>1, <2>2
<1> QED
  BY <1>1, <1>2 DEF Accounted

LEMMA MarksExtend ==
  ASSUME NEW r, NEW s, OnlyMarks(r, s)
  PROVE  Extends(r, s)
  BY DEF OnlyMarks, Extends

\* The rule a pass visits is not among those it has passed.
LEMMA VisitedNotPassed ==
  ASSUME NEW r, Sound(r), pass.list \in Prios, pass.pos \in Node, Placed(r, pass),
         pass.status = "visit",
         NEW q \in Prios, NEW i \in DOMAIN r.prioList[q], Passed(r, pass, q, i)
  PROVE  r.prioList[q][i] # pass.pos
<1>1. SUFFICES ASSUME r.prioList[q][i] = pass.pos PROVE FALSE
  OBVIOUS
<1>2. pass.pos # -pass.list
  BY HeadsType
<1>3. PICK k \in DOMAIN r.prioList[pass.list] : r.prioList[pass.list][k] = pass.pos
  BY <1>2 DEF Placed
<1>4. q = pass.list
  BY <1>1, <1>3 DEF Sound, OnRightList
<1>5. r.prioList[q] \in Seq(Node)
  BY SoundTypes
<1>6. i \in Int /\ q \in Int
  BY <1>5, MaskRuleAssumption DEF Prios
<1> QED
  BY <1>1, <1>4, <1>6 DEF Passed

\* No call so far, and no call added, clashes.
LEMMA AppendedClashesNot ==
  ASSUME NEW s \in Seq(Rule), NEW f \in Rule, ~Clash(f, f),
         \A j, k \in DOMAIN s : ~Clash(s[j], s[k]),
         \A k \in DOMAIN s : ~Clash(f, s[k])
  PROVE  /\ Append(s, f) \in Seq(Rule)
         /\ \A j, k \in DOMAIN Append(s, f) : ~Clash(Append(s, f)[j], Append(s, f)[k])
<1> DEFINE t == Append(s, f)
<1>1. /\ t \in Seq(Rule) /\ DOMAIN s = 1..Len(s) /\ Len(s) \in Nat
      /\ DOMAIN t = 1..(Len(s) + 1) /\ t[Len(s) + 1] = f
      /\ \A j \in DOMAIN s : t[j] = s[j]
  OBVIOUS
<1> HIDE DEF t
<1>2. \A j \in DOMAIN t : j \in DOMAIN s \/ j = Len(s) + 1
  BY <1>1
<1>3. \A k \in DOMAIN s : ~Clash(s[k], f)
  BY ClashIsSymmetric
<1>4. \A j, k \in DOMAIN t : ~Clash(t[j], t[k])
  BY <1>1, <1>2, <1>3
<1> QED
  BY <1>1, <1>4 DEF t

LEMMA CallsInit == Init => CallsInv
  BY DEF Init, CallsInv, NoPass

LEMMA CallsNext ==
  RuleInv /\ IdsSound(rs) /\ PureMasks(rs) /\ PlacedInv /\ CallsInv /\ [RuleNext]_vars
  => CallsInv'
<1> SUFFICES ASSUME RuleInv, IdsSound(rs), PureMasks(rs), PlacedInv, CallsInv, [RuleNext]_vars
             PROVE  CallsInv'
  OBVIOUS
<1> DEFINE Clean(s)   == \A j, k \in DOMAIN s : ~Clash(s[j], s[k])
           Under      == pass.status \in {"visit", "callback"}
           Counted    == \A k \in DOMAIN calls : Accounted(rs, pass, calls[k])
<1>0. Sound(rs) /\ CursorSound(rs, pass) /\ calls \in Seq(Rule)
  BY DEF RuleInv, CallsInv
<1>a. "removed" \notin during => Clean(calls) /\ (Under => Counted /\ Placed(rs, pass))
  BY DEF CallsInv, PlacedInv
<1>b. Under => pass.list \in Prios
  BY <1>0 DEF CursorSound
<1>c. ASSUME calls' = <<>> PROVE CallsInv'
  BY <1>c DEF CallsInv
<1>d. ASSUME calls' = calls, ~Under', "removed" \notin during' => "removed" \notin during
      PROVE  CallsInv'
  BY <1>0, <1>a, <1>d DEF CallsInv
<1>e. ASSUME calls' = calls,
             "removed" \notin during' => "removed" \notin during /\ Counted'
      PROVE  CallsInv'
  BY <1>0, <1>a, <1>e DEF CallsInv
<1> HIDE DEF Under
<1>1. CASE UNCHANGED vars
  BY <1>1 DEF vars, CallsInv, Accounted, Passed
<1>2. ASSUME NEW r, NEW how, Changed(r, how),
             \/ how = "removed"
             \/ /\ Sound(r) /\ Extends(rs, r)
                /\ \A m \in Node : rs.node[m].valid => r.node[m] = rs.node[m]
      PROVE  CallsInv'
  <2>1. CASE calls' = <<>>
    BY <1>c, <2>1
  <2>2. CASE rs' = rs /\ during' = during /\ pass' = pass /\ calls' = calls
    BY <2>2 DEF CallsInv, Accounted, Passed
  <2>3. CASE rs' = r /\ during' = during \union {how} /\ pass' = pass /\ calls' = calls
             /\ ~Quiet
    <3>1. ASSUME "removed" \notin during' PROVE "removed" \notin during /\ Counted'
      <4>0. "removed" \notin during /\ how # "removed"
        BY <2>3, <3>1
      <4>1. /\ "removed" \notin during /\ Sound(r) /\ Extends(rs, r) /\ Under
            /\ \A m \in Node : rs.node[m].valid => r.node[m] = rs.node[m]
        BY <1>0, <1>2, <2>3, <4>0 DEF Under, PlacedInv, CursorSound, Statuses, Quiet
      <4>2. \A q \in Prios : \A i \in DOMAIN rs.prioList[q] :
              r.node[rs.prioList[q][i]] = rs.node[rs.prioList[q][i]]
        <5>1. \A q \in Prios : \A i \in DOMAIN rs.prioList[q] :
                rs.prioList[q][i] \in Node
          BY <1>0, SoundTypes
        <5>2. \A q \in Prios : \A i \in DOMAIN rs.prioList[q] :
                rs.node[rs.prioList[q][i]].valid
          BY <1>0 DEF Sound, OnRightList
        <5> QED
          BY <4>1, <5>1, <5>2
      <4>3. ASSUME NEW k \in DOMAIN calls PROVE Accounted(r, pass, calls[k])
        BY <1>0, <1>a, <1>b, <4>1, <4>2, <4>3, AccountedKept
      <4> QED
        BY <2>3, <4>1, <4>3 DEF Accounted, Passed
    <3> QED
      BY <1>e, <2>3, <3>1
  <2> QED
    BY <1>2, <2>1, <2>2, <2>3, ChangedMeans
<1>3. CASE Add
  <2>1. PICK c \in Contents : AddContent(c)
    BY <1>3 DEF Add
  <2>2. Changed(Added(rs, c), "added") /\ CanAdd(rs, c) /\ c \in Content
    BY <2>1, MaskRuleAssumption DEF AddContent
  <2> QED
    BY <1>0, <1>2, <2>2, AddedSound, AddedExtends
<1>4. CASE (\E id \in 1..MaxAdds : Del(id)) \/ DelAll \/ DelNext
  <2>1. PICK id : Changed(DelId(rs, id), "removed")
    BY <1>4 DEF Del, DelAll, DelNext, DelFrom
  <2> QED
    BY <1>2, <2>1
<1>5. CASE AnyMatch
  BY <1>5, <1>c DEF AnyMatch, MatchMask
<1>6. CASE AtHead
  <2>1. /\ pass.status = "visit" /\ rs' = rs /\ calls' = calls /\ during' = during
    BY <1>6 DEF AtHead
  <2>2. CASE pass' = [pass EXCEPT !.status = "wild"] \/ pass' = [pass EXCEPT !.status = "done"]
    <3>1. pass'.status \in {"wild", "done"}
      BY <1>0, <2>2, StatusMoves
    <3> QED
      BY <1>d, <2>1, <3>1 DEF Under
  <2>3. CASE pass' = Enter(rs, pass.list + 1)
    <3>1. pass'.list = pass.list + 1
      BY <1>0, <2>3, EnterStarts DEF Starts
    <3>2. pass.list \in Nat
      BY <1>b, <2>1, MaskRuleAssumption DEF Under, Prios
    <3>3. \A q \in Prios : \A i \in DOMAIN rs.prioList[q] :
            Passed(rs, pass, q, i) => Passed(rs, pass', q, i)
      BY <3>1, <3>2, MaskRuleAssumption DEF Passed, Prios
    <3>4. ASSUME "removed" \notin during'
          PROVE  "removed" \notin during /\ \A k \in DOMAIN calls : Accounted(rs, pass', calls[k])
      BY <1>a, <2>1, <3>3, <3>4 DEF Under, Accounted
    <3> QED
      BY <1>e, <2>1, <3>4
  <2> QED
    BY <1>6, <2>2, <2>3 DEF AtHead
<1>7. CASE Visit
  <2> DEFINE n == pass.pos
             r == NotInEffect(rs, n)
  <2>1. /\ n \in Node /\ rs.node[n].valid /\ pass.status = "visit"
        /\ Sound(r) /\ Sound(rs') /\ OnlyMarks(rs, r) /\ OnlyMarks(rs, rs')
        /\ \A m \in Node : m # n => r.node[m] = rs.node[m] /\ rs'.node[m] = rs.node[m]
        /\ ~Skips(r) => rs'.node[n].effect = TRUE
    BY <1>7, VisitMarks
  <2>2. during' = during /\ Under /\ pass.list \in Prios
    BY <1>7, <1>b, <2>1 DEF Visit, Under
  <2>3. r.node[n] \in Rule /\ r.node[n].omask = rs.node[n].omask
    BY <2>1, SoundTypes DEF OnlyMarks
  <2> HIDE DEF r
  <2>4. ASSUME "removed" \notin during, NEW s, Sound(s), OnlyMarks(rs, s),
               \A m \in Node : m # n => s.node[m] = rs.node[m],
               NEW d, d.list = pass.list, d.pos = n,
               NEW k \in DOMAIN calls
        PROVE  Accounted(s, d, calls[k])
    <3>1. Placed(rs, pass) /\ Accounted(rs, pass, calls[k])
      BY <1>a, <2>2, <2>4
    <3>2. \A q \in Prios : \A i \in DOMAIN rs.prioList[q] :
            Passed(rs, pass, q, i) => s.node[rs.prioList[q][i]] = rs.node[rs.prioList[q][i]]
      BY <1>0, <2>1, <2>2, <2>4, <3>1, SoundTypes, VisitedNotPassed
    <3>3. Extends(rs, s)
      BY <2>4, MarksExtend
    <3> QED
      BY <1>0, <2>1, <2>2, <2>4, <3>1, <3>2, <3>3, AccountedKept
  <2>5. "removed" \notin during => Placed(r, pass) /\ Placed(rs, pass)
    BY <1>a, <2>1, <2>2 DEF Placed, OnlyMarks
  <2>6. CASE Skips(r)
    <3>1. rs' = r /\ pass' = Advance(r) /\ calls' = calls
      BY <1>7, <2>6 DEF Visit, r
    <3>2. Moves(r, pass')
      BY <1>0, <3>1, AdvanceMoves
    <3>3. ASSUME "removed" \notin during, NEW k \in DOMAIN calls
          PROVE  Accounted(r, pass', calls[k])
      <4>1. Accounted(r, pass, calls[k])
        BY <2>1, <2>4, <3>3
      <4> QED
        BY <2>1, <2>2, <2>5, <3>2, <3>3, <4>1, MoveAccounts
    <3> QED
      BY <1>e, <2>2, <3>1, <3>3
  <2>7. CASE ~Skips(r)
    <3>1. pass' = [pass EXCEPT !.status = "callback"] /\ calls' = Append(calls, r.node[n])
      BY <1>7, <2>7 DEF Visit, r
    <3>2. /\ pass'.status = "callback" /\ pass'.list = pass.list /\ pass'.pos = n
      BY <1>0, <3>1, StatusMoves
    <3>3. ~Clash(r.node[n], r.node[n])
      BY <2>1, <2>3 DEF PureMasks, Clash
    <3>4. calls' \in Seq(Rule)
      BY <1>0, <2>3, <3>1
    <3>5. ASSUME "removed" \notin during
          PROVE  Clean(calls') /\ \A k \in DOMAIN calls' : Accounted(rs', pass', calls'[k])
      <4>1. PICK p \in DOMAIN rs.prioList[pass.list] : rs.prioList[pass.list][p] = n
        <5>1. n # -pass.list
          BY <2>1, <2>2, HeadsType
        <5> QED
          BY <2>5, <3>5, <5>1 DEF Placed
      <4>2. p \in DOMAIN r.prioList[pass.list] /\ r.prioList[pass.list][p] = n
        BY <2>1, <4>1 DEF OnlyMarks
      <4>3. ~Fitler(r, r.node[n])
        BY <2>7 DEF Skips
      <4>4. IdsSound(r)
        BY <1>0, <2>1, MarksKeepIds
      <4>5. ASSUME NEW k \in DOMAIN calls PROVE ~Clash(r.node[n], calls[k])
        <5>1. Accounted(r, pass, calls[k])
          BY <2>1, <2>4, <3>5
        <5>2. PICK q \in Prios : \E i \in DOMAIN r.prioList[q] :
                /\ r.node[r.prioList[q][i]].effect
                /\ r.node[r.prioList[q][i]].omask = calls[k].omask
                /\ Passed(r, pass, q, i)
          BY <5>1 DEF Accounted
        <5>3. PICK i \in DOMAIN r.prioList[q] :
                /\ r.node[r.prioList[q][i]].effect
                /\ r.node[r.prioList[q][i]].omask = calls[k].omask
                /\ Passed(r, pass, q, i)
          BY <5>2
        <5>4. q < pass.list \/ (q = pass.list /\ i < p)
          BY <2>1, <4>2, <5>3 DEF Passed
        <5>5. ~Clash(r.node[n], r.node[r.prioList[q][i]])
          BY <2>1, <2>2, <4>2, <4>3, <4>4, <5>3, <5>4, NoClashBehind
        <5> QED
          BY <5>3, <5>5 DEF Clash
      <4>6. Clean(calls')
        BY <1>0, <1>a, <2>3, <3>1, <3>3, <3>5, <4>5, AppendedClashesNot
      <4>7. Accounted(rs', pass', r.node[n])
        <5>1. p \in DOMAIN rs'.prioList[pass.list] /\ rs'.prioList[pass.list][p] = n
          BY <2>1, <4>1 DEF OnlyMarks
        <5>2. rs'.node[n].effect /\ rs'.node[n].omask = r.node[n].omask
          BY <2>1, <2>3, <2>7 DEF OnlyMarks
        <5>3. Passed(rs', pass', pass.list, p)
          BY <2>1, <2>2, <3>2, <5>1 DEF Passed, Sound, OnRightList
        <5> QED
          BY <2>2, <5>1, <5>2, <5>3 DEF Accounted
      <4>8. \A k \in DOMAIN calls : Accounted(rs', pass', calls[k])
        BY <2>1, <2>4, <3>2, <3>5
      <4>9. \A k \in DOMAIN calls' : calls'[k] = r.node[n] \/ (k \in DOMAIN calls /\ calls'[k] = calls[k])
        BY <1>0, <2>3, <3>1
      <4> QED
        BY <4>6, <4>7, <4>8, <4>9
    <3> QED
      BY <2>2, <3>4, <3>5 DEF CallsInv
  <2> QED
    BY <2>6, <2>7
<1>8. CASE VisitInvalid
  <2>1. pass'.status = "invalid"
    BY <1>0, <1>8, StatusMoves DEF VisitInvalid
  <2> QED
    BY <1>8, <1>d, <2>1 DEF VisitInvalid, Under
<1>9. CASE CallbackOk
  <2>1. /\ pass.status = "callback" /\ pass' = Advance(rs) /\ rs' = rs
        /\ calls' = calls /\ during' = during
    BY <1>9 DEF CallbackOk
  <2>2. Under /\ pass.list \in Prios /\ pass.pos \in Node
    BY <1>0, <1>b, <2>1 DEF CursorSound, Under
  <2>3. Moves(rs, pass')
    BY <1>0, <2>1, AdvanceMoves
  <2>4. ASSUME "removed" \notin during, NEW k \in DOMAIN calls
        PROVE  Accounted(rs, pass', calls[k])
    BY <1>0, <1>a, <2>2, <2>3, <2>4, MoveAccounts
  <2> QED
    BY <1>e, <2>1, <2>4
<1>10. CASE CallbackFails
  <2>1. pass'.status = "failed"
    BY <1>0, <1>10, StatusMoves DEF CallbackFails
  <2> QED
    BY <1>10, <1>d, <2>1 DEF CallbackFails, Under
<1> QED
  BY <1>1, <1>3, <1>4, <1>5, <1>6, <1>7, <1>8, <1>9, <1>10 DEF RuleNext, PassStep

\* Every call mask_rule_macth has made has left its mark on a rule it has
\* passed, where mask_rule_fitler finds it.
THEOREM CallsInvariance == NoWrap => (Spec => []CallsInv)
<1> SUFFICES ASSUME NoWrap PROVE Spec => []CallsInv
  OBVIOUS
<1>1. Init => CallsInv
  BY CallsInit
<1>2. RuleInv /\ IdsSound(rs) /\ PureMasks(rs) /\ PlacedInv /\ CallsInv /\ [Next]_vars
      => CallsInv'
  BY CallsNext, NextIsRuleNext
<1>3. RuleInv /\ PureMasks(rs) /\ [Next]_vars => PureMasks(rs)'
  BY PureNext, NextIsRuleNext
<1>4. Spec => []IdsSound(rs)
  BY IdsInvariance
<1> QED
  BY <1>1, <1>2, <1>3, <1>4, PureInit, RuleInvariance, PlacedInvariance, PTL DEF Spec

\* What a pass has driven one way it does not drive the other way, even when
\* rules are added while it runs.
THEOREM OutputsDrivenOnce == NoWrap => (Spec => []NoOutputDrivenTwice)
<1> SUFFICES ASSUME NoWrap PROVE Spec => []NoOutputDrivenTwice
  OBVIOUS
<1>1. CallsInv => NoOutputDrivenTwice
  BY DEF CallsInv, NoOutputDrivenTwice
<1> QED
  BY <1>1, CallsInvariance, PTL
-----------------------------------------------------------------------------
(* The rules a pass takes.                                                 *)

LEMMA RankType ==
  ASSUME NEW r, Sound(r), NEW n \in Node
  PROVE  /\ r.node[n] \in Rule
         /\ r.node[n].priority \in Int /\ r.node[n].rule_id \in Int
<1>1. r.node[n] \in Rule
  BY SoundTypes
<1>2. r.node[n].priority \in 0..(NumPrio - 1) /\ r.node[n].rule_id \in 0..(IdMod - 1)
  BY <1>1 DEF Rule
<1> QED
  BY <1>1, <1>2, MaskRuleAssumption

LEMMA EarlierIsOrder ==
  ASSUME NEW r, Sound(r), NEW a \in Node, NEW b \in Node, NEW c \in Node
  PROVE  /\ ~Earlier(r.node[a], r.node[a])
         /\ ~(Earlier(r.node[a], r.node[b]) /\ Earlier(r.node[b], r.node[a]))
         /\ Earlier(r.node[a], r.node[b]) /\ Earlier(r.node[b], r.node[c])
              => Earlier(r.node[a], r.node[c])
  BY RankType DEF Earlier

\* Priority, then id, is the order of the lists and of the places on them.
LEMMA EarlierIsPlace ==
  ASSUME NEW r, Sound(r), IdsSound(r),
         NEW q \in Prios, NEW i \in DOMAIN r.prioList[q],
         NEW p \in Prios, NEW k \in DOMAIN r.prioList[p]
  PROVE  Earlier(r.node[r.prioList[q][i]], r.node[r.prioList[p][k]])
           <=> q < p \/ (q = p /\ i < k)
<1> DEFINE a == r.node[r.prioList[q][i]]
           b == r.node[r.prioList[p][k]]
<1>1. a.priority = q /\ b.priority = p
  BY DEF Sound, OnRightList
<1>2. r.prioList[q] \in Seq(Node) /\ r.prioList[p] \in Seq(Node)
  BY SoundTypes
<1>3. r.prioList[q][i] \in Node /\ r.prioList[p][k] \in Node /\ i \in Int /\ k \in Int
  BY <1>2
<1>4. a.rule_id \in Int /\ b.rule_id \in Int /\ p \in Int /\ q \in Int
  BY <1>3, RankType DEF Prios
<1>5. q = p => /\ i < k => a.rule_id < b.rule_id
               /\ k < i => b.rule_id < a.rule_id
               /\ i = k => a.rule_id = b.rule_id
  BY DEF IdsSound
<1> HIDE DEF a, b
<1>6. Earlier(a, b) <=> q < p \/ (q = p /\ a.rule_id < b.rule_id)
  BY <1>1 DEF Earlier
<1>7. q = p => (a.rule_id < b.rule_id <=> i < k)
  BY <1>3, <1>4, <1>5
<1> QED
  BY <1>6, <1>7 DEF a, b

LEMMA HasPlace ==
  ASSUME NEW r, Sound(r), NEW n \in Node, r.node[n].valid
  PROVE  \E p \in Prios : \E k \in DOMAIN r.prioList[p] :
           r.prioList[p][k] = n /\ r.node[n].priority = p
  BY DEF Sound, UsedIsListed

\* The rules the cursor has left behind.
Behind(r, c, n) ==
  IF c.pos \in Node
  THEN \/ Earlier(r.node[n], r.node[c.pos])
       \/ n = c.pos /\ c.status = "callback"
  ELSE r.node[n].priority <= c.list

LEMMA BehindIsClosed ==
  ASSUME NEW r, Sound(r), NEW c, c.list \in Int, NEW m \in Node, NEW n \in Node,
         Earlier(r.node[m], r.node[n]), Behind(r, c, n)
  PROVE  Behind(r, c, m)
<1>1. CASE c.pos \in Node
  BY <1>1, EarlierIsOrder DEF Behind
<1>2. CASE c.pos \notin Node
  <2>1. r.node[m].priority <= r.node[n].priority /\ r.node[n].priority <= c.list
    BY <1>2, RankType DEF Behind, Earlier
  <2> QED
    BY <1>2, <2>1, RankType DEF Behind
<1> QED
  BY <1>1, <1>2

LEMMA BehindStart ==
  ASSUME NEW r, Sound(r), IdsSound(r), NEW p \in Prios, NEW e, Starts(r, p, e),
         NEW n \in Node, r.node[n].valid
  PROVE  Behind(r, e, n) <=> r.node[n].priority < p
<1> DEFINE l == r.prioList[p]
<1>1. PICK q \in Prios : \E i \in DOMAIN r.prioList[q] :
        r.prioList[q][i] = n /\ r.node[n].priority = q
  BY HasPlace
<1>2. PICK i \in DOMAIN r.prioList[q] : r.prioList[q][i] = n
  BY <1>1
<1>3. l \in Seq(Node) /\ r.prioList[q] \in Seq(Node) /\ p \in Int /\ q \in Int
  <2>1. l \in Seq(Node) /\ r.prioList[q] \in Seq(Node)
    BY SoundTypes
  <2> QED
    BY <2>1 DEF Prios
<1>4. CASE l = <<>>
  <2>1. q # p
    BY <1>2, <1>4
  <2>2. e.pos = -p /\ e.pos \notin Node /\ e.list = p
    BY <1>4, HeadsType DEF Starts, FirstIn
  <2> QED
    BY <1>1, <1>3, <2>1, <2>2 DEF Behind
<1>5. CASE l # <<>>
  <2>1. 1 \in DOMAIN l /\ e.pos = l[1] /\ e.pos \in Node /\ e.status = "visit"
    BY <1>3, <1>5 DEF Starts, FirstIn
  <2>2. Earlier(r.node[n], r.node[l[1]]) <=> q < p \/ (q = p /\ i < 1)
    BY <1>2, <2>1, EarlierIsPlace
  <2>3. ~(i < 1)
    BY <1>2, <1>3
  <2> QED
    BY <1>1, <2>1, <2>2, <2>3 DEF Behind
<1> QED
  BY <1>4, <1>5

\* One step on: the rule the cursor was at is behind it, and no other.
LEMMA BehindMove ==
  ASSUME NEW r, Sound(r), IdsSound(r), pass.list \in Prios, pass.pos \in Node,
         Placed(r, pass), pass.tmp = NextOf(r, pass.pos), NEW a, Moves(r, a),
         NEW n \in Node, r.node[n].valid
  PROVE  Behind(r, a, n) <=> n = pass.pos \/ Earlier(r.node[n], r.node[pass.pos])
<1> DEFINE p == pass.list
           l == r.prioList[p]
<1>1. PICK q \in Prios : \E i \in DOMAIN r.prioList[q] :
        r.prioList[q][i] = n /\ r.node[n].priority = q
  BY HasPlace
<1>2. PICK i \in DOMAIN r.prioList[q] : r.prioList[q][i] = n
  BY <1>1
<1>3. pass.pos # -pass.list
  BY HeadsType
<1>4. PICK k \in DOMAIN l : l[k] = pass.pos
  BY <1>3 DEF Placed
<1>5. /\ l \in Seq(Node) /\ r.prioList[q] \in Seq(Node) /\ p \in Int /\ q \in Int
      /\ i \in Int /\ k \in Int /\ Len(l) \in Int /\ k <= Len(l)
      /\ q = p => i <= Len(l)
  <2>1. l \in Seq(Node) /\ r.prioList[q] \in Seq(Node)
    BY SoundTypes
  <2> QED
    BY <1>2, <1>4, <2>1 DEF Prios
<1>6. Earlier(r.node[n], r.node[pass.pos]) <=> q < p \/ (q = p /\ i < k)
  BY <1>2, <1>4, EarlierIsPlace
<1>7. n = pass.pos <=> q = p /\ i = k
  BY <1>1, <1>2, <1>4 DEF Sound, OnRightList
<1>8. pass.tmp = IF k = Len(l) THEN -p ELSE l[k + 1]
  BY <1>4, NextOnList
<1>9. CASE k = Len(l)
  <2>1. a.pos = -p /\ a.pos \notin Node /\ a.list = p
    BY <1>8, <1>9, HeadsType DEF Moves
  <2>2. Behind(r, a, n) <=> q <= p
    BY <1>1, <2>1 DEF Behind
  <2> HIDE DEF l, p
  <2> QED
    BY <1>5, <1>6, <1>7, <1>9, <2>2
<1>10. CASE k # Len(l)
  <2>1. k + 1 \in DOMAIN l
    BY <1>4, <1>5, <1>10
  <2>2. a.pos = l[k + 1] /\ a.pos \in Node /\ a.status = "visit"
    BY <1>5, <1>8, <1>10, <2>1 DEF Moves
  <2>3. Earlier(r.node[n], r.node[l[k + 1]]) <=> q < p \/ (q = p /\ i < k + 1)
    BY <1>2, <2>1, EarlierIsPlace
  <2>4. Behind(r, a, n) <=> q < p \/ (q = p /\ i < k + 1)
    BY <2>2, <2>3 DEF Behind
  <2> HIDE DEF l, p
  <2> QED
    BY <1>5, <1>6, <1>7, <2>4
<1> QED
  BY <1>9, <1>10

LEMMA FitlerFinds ==
  ASSUME NEW r, Sound(r), NEW n \in Node, Fitler(r, r.node[n])
  PROVE  \E m \in Node : /\ r.node[m].valid /\ r.node[m].effect
                         /\ Earlier(r.node[m], r.node[n]) /\ Clash(r.node[m], r.node[n])
<1> DEFINE f == r.node[n]
<1>1. PICK p \in Prios : \E k \in DOMAIN r.prioList[p] :
        /\ r.node[r.prioList[p][k]].effect /\ Clash(f, r.node[r.prioList[p][k]])
        /\ ~(~r.node[r.prioList[p][k]].valid
             \/ (r.node[r.prioList[p][k]].effect /\ Precedes(f, r.node[r.prioList[p][k]])))
  <2>1. PICK p \in Prios : \E k \in DOMAIN r.prioList[p] :
          /\ r.node[r.prioList[p][k]].effect /\ Clash(f, r.node[r.prioList[p][k]])
          /\ \A q \in Prios : \A j \in DOMAIN r.prioList[q] :
               q < p \/ (q = p /\ j <= k) =>
                 ~(~r.node[r.prioList[q][j]].valid
                   \/ (r.node[r.prioList[q][j]].effect /\ Precedes(f, r.node[r.prioList[q][j]])))
    BY DEF Fitler
  <2>2. PICK k \in DOMAIN r.prioList[p] :
          /\ r.node[r.prioList[p][k]].effect /\ Clash(f, r.node[r.prioList[p][k]])
          /\ \A q \in Prios : \A j \in DOMAIN r.prioList[q] :
               q < p \/ (q = p /\ j <= k) =>
                 ~(~r.node[r.prioList[q][j]].valid
                   \/ (r.node[r.prioList[q][j]].effect /\ Precedes(f, r.node[r.prioList[q][j]])))
    BY <2>1
  <2>3. k <= k
    <3>1. r.prioList[p] \in Seq(Node)
      BY SoundTypes
    <3> QED
      BY <3>1
  <2> QED
    BY <2>2, <2>3
<1>2. PICK k \in DOMAIN r.prioList[p] :
        /\ r.node[r.prioList[p][k]].effect /\ Clash(f, r.node[r.prioList[p][k]])
        /\ ~(~r.node[r.prioList[p][k]].valid
             \/ (r.node[r.prioList[p][k]].effect /\ Precedes(f, r.node[r.prioList[p][k]])))
  BY <1>1
<1>3. r.prioList[p][k] \in Node
  BY SoundTypes
<1> DEFINE m == r.prioList[p][k]
<1> HIDE DEF m
<1>4. m \in Node /\ r.node[m].valid /\ r.node[m].effect /\ Clash(f, r.node[m])
      /\ ~Precedes(f, r.node[m])
  BY <1>2, <1>3 DEF m
<1>5. Earlier(r.node[m], f)
  BY <1>4, RankType DEF Precedes, Earlier
<1> QED
  BY <1>4, <1>5, ClashIsSymmetric

LEMMA FitlerMisses ==
  ASSUME NEW r, Sound(r), IdsSound(r), NEW n \in Node, r.node[n].valid,
         ~Fitler(r, r.node[n]),
         NEW m \in Node, r.node[m].valid, r.node[m].effect, Earlier(r.node[m], r.node[n])
  PROVE  ~Clash(r.node[m], r.node[n])
<1>1. PICK p \in Prios : \E k \in DOMAIN r.prioList[p] : r.prioList[p][k] = n
  BY HasPlace
<1>2. PICK k \in DOMAIN r.prioList[p] : r.prioList[p][k] = n
  BY <1>1
<1>3. PICK q \in Prios : \E i \in DOMAIN r.prioList[q] : r.prioList[q][i] = m
  BY HasPlace
<1>4. PICK i \in DOMAIN r.prioList[q] : r.prioList[q][i] = m
  BY <1>3
<1>5. q < p \/ (q = p /\ i < k)
  BY <1>2, <1>4, EarlierIsPlace
<1> QED
  BY <1>2, <1>4, <1>5, NoClashBehind, ClashIsSymmetric

SameRule(a, b) ==
  a.rule_id = b.rule_id /\ a.priority = b.priority /\ a.omask = b.omask

CalledIn(r, s) ==
  {n \in Node : r.node[n].valid /\ \E k \in DOMAIN s : s[k].rule_id = r.node[n].rule_id}

TakenIn(r, m, n, taken) ==
  n \in taken <=>
    /\ Applies(r.node[n], m)
    /\ \A x \in taken : Earlier(r.node[x], r.node[n]) => ~Clash(r.node[x], r.node[n])

\* The calls are of rules in use, in order.
InOrder(r, s) ==
  /\ \A k \in DOMAIN s : \E n \in Node : r.node[n].valid /\ SameRule(s[k], r.node[n])
  /\ \A j, k \in DOMAIN s : j < k => Earlier(s[j], s[k])

\* Behind the cursor everything is as it should be, marks included.
Settled(r, c, taken) ==
  /\ c.tmp = NextOf(r, c.pos)
  /\ c.status = "callback" => c.pos \in taken
  /\ \A n \in taken : Behind(r, c, n)
  /\ \A n \in Node : r.node[n].valid /\ Behind(r, c, n) =>
       TakenIn(r, c.mask, n, taken) /\ (r.node[n].effect <=> n \in taken)

SoFar(r, m, taken) ==
  \A n \in Node :
    r.node[n].valid /\ (\E x \in taken : x = n \/ Earlier(r.node[n], r.node[x]))
      => TakenIn(r, m, n, taken)

Taking(r, c, s) ==
  /\ InOrder(r, s)
  /\ c.status \in {"visit", "callback"} => Settled(r, c, CalledIn(r, s))
  /\ c.status = "done" =>
       \A n \in Node : r.node[n].valid => TakenIn(r, c.mask, n, CalledIn(r, s))
  /\ SoFar(r, c.mask, CalledIn(r, s))

TakenInv == during = {} => Taking(rs, pass, calls)

\* The mask stays.
LEMMA StatusMask ==
  ASSUME NEW u, CursorSound(u, pass), NEW st
  PROVE  [pass EXCEPT !.status = st].mask = pass.mask
<1>1. pass = [status |-> pass.status, mask |-> pass.mask, list |-> pass.list,
              pos |-> pass.pos, tmp |-> pass.tmp]
  BY DEF CursorSound
<1> QED
  BY <1>1

LEMMA EnterMask ==
  ASSUME NEW u, CursorSound(u, pass), NEW r, NEW p
  PROVE  /\ Enter(r, p).mask = pass.mask
         /\ \A m : [Enter(r, p) EXCEPT !.mask = m].mask = m
<1> DEFINE first == FirstIn(r.prioList[p], -p)
           next  == NextOf(r, first)
           e == Enter(r, p)
<1>1. pass = [status |-> pass.status, mask |-> pass.mask, list |-> pass.list,
              pos |-> pass.pos, tmp |-> pass.tmp]
  BY DEF CursorSound
<1>2. e = [pass EXCEPT !.status = "visit", !.list = p, !.pos = first, !.tmp = next]
  BY DEF Enter
<1> HIDE DEF next, e, first
<1>3. e.mask = pass.mask /\ \A m : [e EXCEPT !.mask = m].mask = m
  BY <1>1, <1>2
<1> QED
  BY <1>3 DEF e

LEMMA AdvanceMask ==
  ASSUME NEW u, CursorSound(u, pass), NEW r
  PROVE  Advance(r).mask = pass.mask
<1> DEFINE next == NextOf(r, pass.tmp)
           a == Advance(r)
<1>1. pass = [status |-> pass.status, mask |-> pass.mask, list |-> pass.list,
              pos |-> pass.pos, tmp |-> pass.tmp]
  BY DEF CursorSound
<1>2. a = [pass EXCEPT !.status = "visit", !.pos = pass.tmp, !.tmp = next]
  BY DEF Advance
<1> HIDE DEF next, a
<1>3. a.mask = pass.mask
  BY <1>1, <1>2
<1> QED
  BY <1>3 DEF a

\* On a list, what comes next does not depend on the marks.
LEMMA MarksKeepNext ==
  ASSUME NEW r, Sound(r), NEW g, Sound(g), OnlyMarks(r, g), NEW c, c.list \in Prios,
         c.pos \in Node, Placed(r, c)
  PROVE  NextOf(g, c.pos) = NextOf(r, c.pos)
<1>1. c.pos # -c.list
  BY HeadsType
<1>2. PICK k \in DOMAIN r.prioList[c.list] : r.prioList[c.list][k] = c.pos
  BY <1>1 DEF Placed
<1>3. g.prioList = r.prioList
  BY DEF OnlyMarks
<1>4. NextOf(r, c.pos) = IF k = Len(r.prioList[c.list]) THEN -c.list
                         ELSE r.prioList[c.list][k + 1]
  BY <1>2, NextOnList
<1>5. NextOf(g, g.prioList[c.list][k]) = IF k = Len(g.prioList[c.list]) THEN -c.list
                                         ELSE g.prioList[c.list][k + 1]
  BY <1>3, NextOnList
<1> QED
  BY <1>2, <1>3, <1>4, <1>5

LEMMA NothingTaken ==
  ASSUME NEW r, NEW c, c.status \notin {"visit", "callback", "done"}
  PROVE  Taking(r, c, <<>>)
<1>1. CalledIn(r, <<>>) = {}
  BY DEF CalledIn
<1> QED
  BY <1>1 DEF Taking, InOrder, SoFar

\* What the marks leave.
LEMMA MarksKeepTaken ==
  ASSUME NEW r, NEW g, OnlyMarks(r, g)
  PROVE  /\ \A s : CalledIn(g, s) = CalledIn(r, s)
         /\ \A s : InOrder(r, s) => InOrder(g, s)
         /\ \A m, taken : \A n \in Node : taken \subseteq Node =>
              (TakenIn(g, m, n, taken) <=> TakenIn(r, m, n, taken))
         /\ \A m, taken : taken \subseteq Node => (SoFar(r, m, taken) => SoFar(g, m, taken))
         /\ \A c : \A n \in Node : Behind(g, c, n) <=> Behind(r, c, n)
<1>1. \A a, b \in Node : /\ Earlier(g.node[a], g.node[b]) <=> Earlier(r.node[a], r.node[b])
                         /\ Clash(g.node[a], g.node[b]) <=> Clash(r.node[a], r.node[b])
  BY DEF OnlyMarks, Earlier, Clash
<1>2. \A m : \A n \in Node : Applies(g.node[n], m) <=> Applies(r.node[n], m)
  BY DEF OnlyMarks, Applies
<1>3. ASSUME NEW m, NEW taken, taken \subseteq Node, NEW n \in Node
      PROVE  TakenIn(g, m, n, taken) <=> TakenIn(r, m, n, taken)
  BY <1>1, <1>2, <1>3 DEF TakenIn
<1>4. ASSUME NEW m, NEW taken, taken \subseteq Node, SoFar(r, m, taken)
      PROVE  SoFar(g, m, taken)
  BY <1>1, <1>3, <1>4 DEF SoFar, OnlyMarks
<1>5. ASSUME NEW c, NEW n \in Node PROVE Behind(g, c, n) <=> Behind(r, c, n)
  BY <1>1 DEF Behind, OnlyMarks
<1>6. ASSUME NEW s PROVE CalledIn(g, s) = CalledIn(r, s)
  BY DEF CalledIn, OnlyMarks
<1>7. ASSUME NEW s, InOrder(r, s) PROVE InOrder(g, s)
  BY <1>7 DEF InOrder, OnlyMarks, SameRule
<1> QED
  BY <1>3, <1>4, <1>5, <1>6, <1>7

\* A rule skipped: the filter and the condition are right about it.
LEMMA SkipTakes ==
  ASSUME RuleInv, IdsSound(rs), PlacedInv, TakenInv, during = {}, Visit,
         Skips(NotInEffect(rs, pass.pos))
  PROVE  Taking(rs', pass', calls')
<1> SUFFICES ASSUME NEW n, n = pass.pos, NEW g, g = NotInEffect(rs, n),
                    NEW taken, taken = CalledIn(rs, calls)
             PROVE  Taking(rs', pass', calls')
  OBVIOUS
<1>1. /\ n \in Node /\ rs.node[n].valid /\ pass.status = "visit"
      /\ Sound(g) /\ OnlyMarks(rs, g) /\ g.node[n].effect = FALSE
      /\ \A m \in Node : m # n => g.node[m] = rs.node[m]
  BY VisitMarks
<1>2. rs' = g /\ pass' = Advance(g) /\ calls' = calls
  BY DEF Visit
<1>3. Sound(rs) /\ CursorSound(rs, pass) /\ pass.list \in Prios /\ pass.mask = Advance(g).mask
  <2>1. Sound(rs) /\ CursorSound(rs, pass) /\ pass.list \in Prios
    BY <1>1 DEF RuleInv, CursorSound
  <2> QED
    BY <2>1, AdvanceMask
<1>4. Moves(g, pass')
  BY <1>2, <1>3, AdvanceMoves
<1>5. /\ InOrder(rs, calls) /\ Settled(rs, pass, taken) /\ SoFar(rs, pass.mask, taken)
      /\ taken \subseteq Node
  BY <1>1 DEF TakenInv, Taking, CalledIn
<1>6. Placed(rs, pass) /\ IdsSound(g) /\ Placed(g, pass)
  <2>1. Placed(rs, pass)
    BY <1>1 DEF PlacedInv
  <2> QED
    BY <1>1, <1>3, <2>1, MarksKeepIds, MarksExtend, PlacedKept
<1>7. /\ CalledIn(g, calls) = taken /\ InOrder(g, calls) /\ SoFar(g, pass.mask, taken)
      /\ \A x \in Node : TakenIn(g, pass.mask, x, taken) <=> TakenIn(rs, pass.mask, x, taken)
  BY <1>1, <1>5, MarksKeepTaken
<1>8. \A x \in Node : Behind(rs, pass, x) <=> Earlier(g.node[x], g.node[n])
  <2>1. \A x \in Node : Behind(rs, pass, x) <=> Earlier(rs.node[x], rs.node[n])
    BY <1>1 DEF Behind
  <2> QED
    BY <1>1, <2>1 DEF Earlier, OnlyMarks
<1>9. n \notin taken
  BY <1>1, <1>3, <1>5, <1>8, EarlierIsOrder DEF Settled
<1>10. pass.tmp = NextOf(g, n)
  <2>1. pass.tmp = NextOf(rs, n)
    BY <1>5 DEF Settled
  <2> QED
    BY <1>1, <1>3, <1>6, <2>1, MarksKeepNext
<1>11. \A x \in Node : g.node[x].valid =>
         (Behind(g, pass', x) <=> x = n \/ Earlier(g.node[x], g.node[n]))
  BY <1>1, <1>3, <1>4, <1>6, <1>10, BehindMove
<1>12. TakenIn(g, pass.mask, n, taken)
  <2>1. CASE ~Applies(g.node[n], pass.mask)
    BY <1>9, <2>1 DEF TakenIn
  <2>2. CASE Fitler(g, g.node[n])
    <3>1. PICK m \in Node : /\ g.node[m].valid /\ g.node[m].effect
                            /\ Earlier(g.node[m], g.node[n]) /\ Clash(g.node[m], g.node[n])
      BY <1>1, <2>2, FitlerFinds
    <3>2. m \in taken
      <4>1. m # n /\ rs.node[m].valid /\ rs.node[m].effect /\ Behind(rs, pass, m)
        BY <1>1, <1>8, <3>1
      <4> QED
        BY <1>5, <4>1 DEF Settled
    <3> QED
      BY <1>9, <3>1, <3>2 DEF TakenIn
  <2> QED
    BY <2>1, <2>2 DEF Skips
<1>13. Settled(g, pass', taken)
  <2>1. pass'.tmp = NextOf(g, pass'.pos) /\ pass'.status # "callback"
    BY <1>4 DEF Moves
  <2>2. ASSUME NEW x \in taken PROVE Behind(g, pass', x)
    <3>1. x \in Node /\ g.node[x].valid
      BY <1>7, <2>2 DEF CalledIn
    <3> QED
      BY <1>5, <1>8, <1>11, <2>2, <3>1 DEF Settled
  <2>3. ASSUME NEW x \in Node, g.node[x].valid, Behind(g, pass', x)
        PROVE  TakenIn(g, pass.mask, x, taken) /\ (g.node[x].effect <=> x \in taken)
    <3>1. CASE x = n
      BY <1>1, <1>9, <1>12, <3>1
    <3>2. CASE x # n
      <4>1. g.node[x] = rs.node[x] /\ Behind(rs, pass, x)
        BY <1>1, <1>8, <1>11, <2>3, <3>2
      <4>2. TakenIn(rs, pass.mask, x, taken) /\ (rs.node[x].effect <=> x \in taken)
        BY <1>5, <2>3, <4>1 DEF Settled
      <4> QED
        BY <1>7, <4>1, <4>2
    <3> QED
      BY <3>1, <3>2
  <2> QED
    BY <1>2, <1>3, <2>1, <2>2, <2>3 DEF Settled
<1> QED
  BY <1>2, <1>3, <1>4, <1>7, <1>13 DEF Taking, Moves

LEMMA SettledIsSoFar ==
  ASSUME NEW r, Sound(r), NEW c, c.list \in Int, NEW taken, taken \subseteq Node,
         Settled(r, c, taken)
  PROVE  SoFar(r, c.mask, taken)
<1>1. ASSUME NEW n \in Node, r.node[n].valid,
             NEW x \in taken, x = n \/ Earlier(r.node[n], r.node[x])
      PROVE  TakenIn(r, c.mask, n, taken)
  <2>1. Behind(r, c, x) /\ x \in Node
    BY DEF Settled
  <2>2. Behind(r, c, n)
    BY <1>1, <2>1, BehindIsClosed
  <2> QED
    BY <1>1, <2>2 DEF Settled
<1> QED
  BY <1>1 DEF SoFar

\* A rule called: its condition holds, and none taken before clashes with it.
LEMMA CallTakes ==
  ASSUME RuleInv, IdsSound(rs), PlacedInv, TakenInv, CallsInv, during = {}, Visit,
         ~Skips(NotInEffect(rs, pass.pos))
  PROVE  /\ Taking(rs', pass', calls')
         /\ CalledIn(rs', calls') = CalledIn(rs, calls) \union {pass.pos}
         /\ pass.pos \notin CalledIn(rs, calls)
<1> SUFFICES ASSUME NEW n, n = pass.pos, NEW g, g = NotInEffect(rs, n),
                    NEW taken, taken = CalledIn(rs, calls), NEW h, h = rs'
             PROVE  /\ Taking(rs', pass', calls')
                    /\ CalledIn(rs', calls') = taken \union {n} /\ n \notin taken
  OBVIOUS
<1>1. /\ n \in Node /\ rs.node[n].valid /\ pass.status = "visit"
      /\ Sound(g) /\ OnlyMarks(rs, g) /\ Sound(h) /\ OnlyMarks(rs, h)
      /\ \A m \in Node : m # n => g.node[m] = rs.node[m] /\ h.node[m] = rs.node[m]
      /\ h.node[n].effect = TRUE
  BY VisitMarks
<1>2. pass' = [pass EXCEPT !.status = "callback"] /\ calls' = Append(calls, g.node[n])
  BY DEF Visit
<1>3. Sound(rs) /\ CursorSound(rs, pass) /\ pass.list \in Prios /\ calls \in Seq(Rule)
  BY <1>1 DEF RuleInv, CursorSound, CallsInv
<1>4. /\ pass'.status = "callback" /\ pass'.pos = n /\ pass'.tmp = pass.tmp
      /\ pass'.list = pass.list /\ pass'.mask = pass.mask
  BY <1>2, <1>3, StatusMoves, StatusMask
<1>5. /\ InOrder(rs, calls) /\ Settled(rs, pass, taken) /\ taken \subseteq Node
  BY <1>1 DEF TakenInv, Taking, CalledIn
<1>6. /\ CalledIn(h, calls) = taken /\ InOrder(h, calls)
      /\ \A x \in Node : TakenIn(h, pass.mask, x, taken) <=> TakenIn(rs, pass.mask, x, taken)
  BY <1>1, <1>5, MarksKeepTaken
<1>7. Placed(rs, pass) /\ IdsSound(g) /\ IdsSound(h)
  <2>1. Placed(rs, pass)
    BY <1>1 DEF PlacedInv
  <2> QED
    BY <1>1, <1>3, <2>1, MarksKeepIds
<1>8. \A x \in Node : Behind(rs, pass, x) <=> Earlier(h.node[x], h.node[n])
  <2>1. \A x \in Node : Behind(rs, pass, x) <=> Earlier(rs.node[x], rs.node[n])
    BY <1>1 DEF Behind
  <2> QED
    BY <1>1, <2>1 DEF Earlier, OnlyMarks
<1>9. n \notin taken
  BY <1>1, <1>5, <1>8, EarlierIsOrder DEF Settled
<1>10. \A x \in Node : Behind(h, pass', x) <=> x = n \/ Earlier(h.node[x], h.node[n])
  BY <1>1, <1>4 DEF Behind
<1>11. /\ g.node[n] \in Rule /\ SameRule(g.node[n], h.node[n]) /\ h.node[n].valid
       /\ g.node[n].imask = h.node[n].imask /\ g.node[n].type = h.node[n].type
  BY <1>1, SoundTypes DEF OnlyMarks, SameRule
<1>12. /\ DOMAIN calls' = 1..(Len(calls) + 1) /\ DOMAIN calls = 1..Len(calls)
       /\ Len(calls) \in Nat
       /\ calls'[Len(calls) + 1] = g.node[n]
       /\ \A k \in DOMAIN calls : calls'[k] = calls[k]
  BY <1>2, <1>3, <1>11
<1>13. /\ \A k \in DOMAIN calls' : k \in DOMAIN calls \/ k = Len(calls) + 1
       /\ DOMAIN calls \subseteq DOMAIN calls' /\ Len(calls) + 1 \in DOMAIN calls'
  BY <1>12
<1>14. CalledIn(h, calls') = taken \union {n}
  <2>1. ASSUME NEW x \in Node, h.node[x].valid, h.node[x].rule_id = g.node[n].rule_id
        PROVE  x = n
    <3>1. h.node[n].valid /\ h.node[n].rule_id = h.node[x].rule_id
      BY <1>11, <2>1 DEF SameRule
    <3>2. \A a, b \in Node : /\ h.node[a].valid /\ h.node[b].valid
                             /\ h.node[a].rule_id = h.node[b].rule_id
                             => a = b
      BY <1>7 DEF IdsSound
    <3> QED
      BY <1>1, <2>1, <3>1, <3>2
  <2>2. \A x \in taken : x \in Node /\ h.node[x].valid
          /\ \E k \in DOMAIN calls : calls[k].rule_id = h.node[x].rule_id
    BY <1>6 DEF CalledIn
  <2>3. ASSUME NEW x \in Node PROVE x \in CalledIn(h, calls') <=> x \in taken \/ x = n
    <3>1. ASSUME x \in CalledIn(h, calls') PROVE x \in taken \/ x = n
      <4>1. PICK k \in DOMAIN calls' : calls'[k].rule_id = h.node[x].rule_id
        BY <3>1 DEF CalledIn
      <4>2. h.node[x].valid
        BY <3>1 DEF CalledIn
      <4>3. CASE k \in DOMAIN calls
        <5>1. x \in CalledIn(h, calls)
          BY <1>12, <4>1, <4>2, <4>3 DEF CalledIn
        <5> QED
          BY <1>6, <5>1
      <4>4. CASE k = Len(calls) + 1
        BY <1>12, <2>1, <4>1, <4>2, <4>4
      <4> QED
        BY <1>13, <4>3, <4>4
    <3>2. ASSUME x \in taken PROVE x \in CalledIn(h, calls')
      BY <1>12, <1>13, <2>2, <3>2 DEF CalledIn
    <3>3. n \in CalledIn(h, calls')
      BY <1>1, <1>11, <1>12, <1>13 DEF CalledIn, SameRule
    <3> QED
      BY <3>1, <3>2, <3>3
  <2> QED
    BY <1>1, <1>5, <2>3 DEF CalledIn
<1> DEFINE more == taken \union {n}
<1>15. InOrder(h, calls')
  <2>1. ASSUME NEW k \in DOMAIN calls'
        PROVE  \E x \in Node : h.node[x].valid /\ SameRule(calls'[k], h.node[x])
    BY <1>1, <1>6, <1>11, <1>12, <1>13 DEF InOrder
  <2>2. ASSUME NEW j \in DOMAIN calls', NEW k \in DOMAIN calls', j < k
        PROVE  Earlier(calls'[j], calls'[k])
    <3>1. j \in DOMAIN calls
      BY <1>12, <2>2
    <3>2. CASE k \in DOMAIN calls
      BY <1>6, <1>12, <2>2, <3>1, <3>2 DEF InOrder
    <3>3. CASE k = Len(calls) + 1
      <4>1. PICK x \in Node : h.node[x].valid /\ SameRule(calls[j], h.node[x])
        BY <1>6, <3>1 DEF InOrder
      <4>2. x \in taken
        BY <1>6, <3>1, <4>1 DEF CalledIn, SameRule
      <4>3. Earlier(h.node[x], h.node[n])
        BY <1>5, <1>8, <4>2 DEF Settled
      <4> QED
        BY <1>11, <1>12, <3>1, <3>3, <4>1, <4>3 DEF Earlier, SameRule
    <3> QED
      BY <1>13, <3>2, <3>3
  <2> QED
    BY <2>1, <2>2 DEF InOrder
<1>16. TakenIn(h, pass.mask, n, more)
  <2>1. Applies(g.node[n], pass.mask) /\ ~Fitler(g, g.node[n])
    BY DEF Skips
  <2>2. Applies(h.node[n], pass.mask)
    BY <1>11, <2>1 DEF Applies
  <2>3. ASSUME NEW x \in more, Earlier(h.node[x], h.node[n])
        PROVE  ~Clash(h.node[x], h.node[n])
    <3>1. x # n
      BY <1>1, <2>3, EarlierIsOrder
    <3>2. x \in taken /\ x \in Node
      BY <1>5, <3>1
    <3>3. rs.node[x].valid /\ rs.node[x].effect
      <4>1. rs.node[x].valid /\ Behind(rs, pass, x)
        BY <1>5, <3>2 DEF Settled, CalledIn
      <4> QED
        BY <1>5, <3>2, <4>1 DEF Settled
    <3>4. /\ g.node[x].valid /\ g.node[x].effect /\ g.node[n].valid
          /\ Earlier(g.node[x], g.node[n])
      <4>1. g.node[x] = rs.node[x] /\ h.node[x] = rs.node[x] /\ g.node[n].valid
        BY <1>1, <3>1, <3>2 DEF OnlyMarks
      <4> QED
        BY <1>11, <2>3, <3>3, <4>1 DEF Earlier, SameRule
    <3>5. ~Clash(g.node[x], g.node[n])
      BY <1>1, <1>7, <2>1, <3>2, <3>4, FitlerMisses
    <3> QED
      BY <1>1, <1>11, <3>1, <3>2, <3>5 DEF Clash, SameRule
  <2> QED
    BY <2>2, <2>3 DEF TakenIn
<1>17. Settled(h, pass', more)
  <2>1. pass'.tmp = NextOf(h, pass'.pos)
    <3>1. pass.tmp = NextOf(rs, n)
      BY <1>5 DEF Settled
    <3> QED
      BY <1>1, <1>3, <1>4, <1>7, <3>1, MarksKeepNext
  <2>2. ASSUME NEW x \in more PROVE Behind(h, pass', x)
    BY <1>1, <1>5, <1>8, <1>10 DEF Settled
  <2>4. pass'.pos \in more
    BY <1>4
  <2>3. ASSUME NEW x \in Node, h.node[x].valid, Behind(h, pass', x)
        PROVE  TakenIn(h, pass.mask, x, more) /\ (h.node[x].effect <=> x \in more)
    <3>1. CASE x = n
      BY <1>1, <1>16, <3>1
    <3>2. CASE x # n
      <4>1. /\ h.node[x] = rs.node[x] /\ Behind(rs, pass, x)
            /\ Earlier(h.node[x], h.node[n])
        BY <1>1, <1>8, <1>10, <2>3, <3>2
      <4>2. TakenIn(rs, pass.mask, x, taken) /\ (rs.node[x].effect <=> x \in taken)
        BY <1>5, <2>3, <4>1 DEF Settled
      <4>3. TakenIn(h, pass.mask, x, taken) /\ ~Earlier(h.node[n], h.node[x])
        BY <1>1, <1>6, <4>1, <4>2, EarlierIsOrder
      <4>4. TakenIn(h, pass.mask, x, more)
        BY <3>2, <4>3 DEF TakenIn
      <4> QED
        BY <3>2, <4>1, <4>2, <4>4
    <3> QED
      BY <3>1, <3>2
  <2> HIDE DEF more
  <2> QED
    BY <1>4, <2>1, <2>2, <2>3, <2>4 DEF Settled
<1>18. SoFar(h, pass'.mask, more)
  <2>1. pass'.list \in Int /\ more \subseteq Node
    BY <1>1, <1>3, <1>4, <1>5 DEF Prios
  <2> HIDE DEF more
  <2> QED
    BY <1>1, <1>17, <2>1, SettledIsSoFar
<1> QED
  BY <1>4, <1>9, <1>14, <1>15, <1>17, <1>18 DEF Taking

LEMMA MatchTakes ==
  ASSUME RuleInv, IdsSound(rs), AnyMatch
  PROVE  Taking(rs', pass', calls')
<1>1. PICK m \in SUBSET Bits : /\ pass' = [Enter(rs, 1) EXCEPT !.mask = m]
                               /\ calls' = <<>> /\ rs' = rs
  BY DEF AnyMatch, MatchMask
<1>2. Sound(rs) /\ CursorSound(rs, pass) /\ 1 \in Prios
  BY MaskRuleAssumption DEF RuleInv, Prios
<1>3. Starts(rs, 1, pass')
  BY <1>1, <1>2, EnterStarts
<1>4. CalledIn(rs, <<>>) = {} /\ InOrder(rs, <<>>)
  BY DEF CalledIn, InOrder
<1>5. ASSUME NEW n \in Node, rs.node[n].valid PROVE ~Behind(rs, pass', n)
  <2>1. rs.node[n].priority \in Prios
    BY <1>2, <1>5 DEF Sound, UsedIsListed
  <2>2. ~(rs.node[n].priority < 1)
    BY <2>1 DEF Prios
  <2> QED
    BY <1>2, <1>3, <1>5, <2>2, BehindStart
<1>6. pass'.status = "visit" /\ pass'.tmp = NextOf(rs, pass'.pos)
  BY <1>3 DEF Starts
<1>7. Settled(rs, pass', {}) /\ SoFar(rs, pass'.mask, {})
  BY <1>5, <1>6 DEF Settled, SoFar
<1> QED
  BY <1>1, <1>4, <1>6, <1>7 DEF Taking

\* The end of a list, and of the pass.
LEMMA HeadTakes ==
  ASSUME RuleInv, IdsSound(rs), PlacedInv, TakenInv, during = {}, AtHead
  PROVE  Taking(rs', pass', calls')
<1> SUFFICES ASSUME NEW taken, taken = CalledIn(rs, calls)
             PROVE  Taking(rs', pass', calls')
  OBVIOUS
<1>1. Sound(rs) /\ CursorSound(rs, pass) /\ pass.status = "visit" /\ pass.list \in Prios
  BY DEF RuleInv, CursorSound, AtHead
<1>2. /\ InOrder(rs, calls) /\ Settled(rs, pass, taken) /\ SoFar(rs, pass.mask, taken)
  BY <1>1 DEF TakenInv, Taking
<1>3. rs' = rs /\ calls' = calls /\ ~(pass.pos > 0)
  <2>1. pass.pos \in Heads \union Node
    <3>1. Placed(rs, pass)
      BY <1>1 DEF PlacedInv
    <3>2. rs.prioList \in [Prios -> Seq(Node)]
      BY <1>1, SoundTypes
    <3> QED
      BY <1>1, <3>1, <3>2, HeadsType DEF Placed
  <2>2. pass.pos \in Int
    BY <2>1, HeadsType, MaskRuleAssumption DEF Heads, Node, Prios
  <2> QED
    BY <2>2 DEF AtHead
<1>4. pass.pos = -pass.list /\ pass.pos \notin Node
  <2>1. Placed(rs, pass)
    BY <1>1 DEF PlacedInv
  <2>2. pass.pos \notin Node
    BY <1>3, HeadsType
  <2>3. rs.prioList[pass.list] \in Seq(Node)
    BY <1>1, SoundTypes
  <2> QED
    BY <2>1, <2>2, <2>3 DEF Placed
<1>5. \A n \in Node : Behind(rs, pass, n) <=> rs.node[n].priority <= pass.list
  BY <1>4 DEF Behind
<1>6. \A n \in Node : rs.node[n].valid => rs.node[n].priority \in Prios
  BY <1>1 DEF Sound, UsedIsListed
<1>7. CASE pass.list = NumPrio
  <2>1. pass' = [pass EXCEPT !.status = "done"]
    BY <1>4, <1>7 DEF AtHead
  <2>2. pass'.status = "done" /\ pass'.mask = pass.mask
    BY <1>1, <2>1, StatusMoves, StatusMask
  <2>3. ASSUME NEW n \in Node, rs.node[n].valid PROVE TakenIn(rs, pass.mask, n, taken)
    <3>1. rs.node[n].priority <= pass.list
      BY <1>6, <1>7, <2>3 DEF Prios
    <3> QED
      BY <1>2, <1>5, <2>3, <3>1 DEF Settled
  <2> QED
    BY <1>2, <1>3, <2>2, <2>3 DEF Taking
<1>8. CASE pass.list # NumPrio
  <2> DEFINE p == pass.list + 1
  <2>1. p \in Prios /\ pass.list \in Int
    BY <1>1, <1>8, MaskRuleAssumption DEF Prios
  <2>2. pass' = Enter(rs, p)
    BY <1>4, <1>8 DEF AtHead
  <2>3. Starts(rs, p, pass') /\ pass'.mask = pass.mask
    BY <1>1, <2>1, <2>2, EnterStarts, EnterMask
  <2>4. ASSUME NEW n \in Node, rs.node[n].valid
        PROVE  Behind(rs, pass', n) <=> Behind(rs, pass, n)
    <3>1. Behind(rs, pass', n) <=> rs.node[n].priority < p
      BY <1>1, <2>1, <2>3, <2>4, BehindStart
    <3>2. rs.node[n].priority < p <=> rs.node[n].priority <= pass.list
      <4>1. rs.node[n].priority \in Int
        BY <1>1, RankType
      <4> QED
        BY <2>1, <4>1
    <3> QED
      BY <1>5, <3>1, <3>2
  <2>5. pass'.status = "visit" /\ pass'.tmp = NextOf(rs, pass'.pos)
    BY <2>3 DEF Starts
  <2>6. Settled(rs, pass', taken)
    <3>1. \A x \in taken : x \in Node /\ rs.node[x].valid
      BY DEF CalledIn
    <3> QED
      BY <1>2, <2>3, <2>4, <2>5, <3>1 DEF Settled
  <2> QED
    BY <1>2, <1>3, <2>3, <2>5, <2>6 DEF Taking
<1> QED
  BY <1>7, <1>8

LEMMA CallbackTakes ==
  ASSUME RuleInv, IdsSound(rs), PlacedInv, TakenInv, during = {}, CallbackOk
  PROVE  Taking(rs', pass', calls')
<1> SUFFICES ASSUME NEW taken, taken = CalledIn(rs, calls)
             PROVE  Taking(rs', pass', calls')
  OBVIOUS
<1>1. /\ Sound(rs) /\ CursorSound(rs, pass) /\ pass.status = "callback"
      /\ pass.list \in Prios /\ pass.pos \in Node
      /\ pass' = Advance(rs) /\ rs' = rs /\ calls' = calls
  BY DEF RuleInv, CursorSound, CallbackOk
<1>2. /\ InOrder(rs, calls) /\ Settled(rs, pass, taken) /\ SoFar(rs, pass.mask, taken)
      /\ Placed(rs, pass)
  BY <1>1 DEF TakenInv, Taking, PlacedInv
<1>3. Moves(rs, pass') /\ pass'.mask = pass.mask
  BY <1>1, AdvanceMoves, AdvanceMask
<1>4. pass.tmp = NextOf(rs, pass.pos)
  BY <1>2 DEF Settled
<1>5. \A n \in Node : rs.node[n].valid => (Behind(rs, pass', n) <=> Behind(rs, pass, n))
  <2>1. \A n \in Node : Behind(rs, pass, n) <=>
          n = pass.pos \/ Earlier(rs.node[n], rs.node[pass.pos])
    BY <1>1 DEF Behind
  <2> QED
    BY <1>1, <1>2, <1>3, <1>4, <2>1, BehindMove
<1>6. pass'.status = "visit" /\ pass'.tmp = NextOf(rs, pass'.pos)
  BY <1>3 DEF Moves
<1>7. Settled(rs, pass', taken)
  <2>1. \A x \in taken : x \in Node /\ rs.node[x].valid
    BY DEF CalledIn
  <2> QED
    BY <1>2, <1>3, <1>5, <1>6, <2>1 DEF Settled
<1> QED
  BY <1>1, <1>2, <1>3, <1>6, <1>7 DEF Taking

LEMMA TakenInit == Init => TakenInv
  BY NothingTaken DEF Init, NoPass, TakenInv

LEMMA TakenNext ==
  RuleInv /\ IdsSound(rs) /\ PlacedInv /\ CallsInv /\ TakenInv /\ [RuleNext]_vars => TakenInv'
<1> SUFFICES ASSUME RuleInv, IdsSound(rs), PlacedInv, CallsInv, TakenInv, [RuleNext]_vars,
                    during' = {}
             PROVE  Taking(rs', pass', calls')
  BY DEF TakenInv
<1>1. ASSUME NEW r, NEW how, Changed(r, how) PROVE Taking(rs', pass', calls')
  <2>1. CASE pass' = NoPass /\ calls' = <<>>
    BY <2>1, NothingTaken DEF NoPass
  <2>2. CASE rs' = rs /\ during' = during /\ pass' = pass /\ calls' = calls
    BY <2>2 DEF TakenInv
  <2>3. during' # during \union {how}
    OBVIOUS
  <2> QED
    BY <1>1, <2>1, <2>2, <2>3, ChangedMeans
<1>2. CASE Add \/ (\E id \in 1..MaxAdds : Del(id)) \/ DelAll \/ DelNext
  BY <1>1, <1>2 DEF Add, AddContent, Del, DelAll, DelNext, DelFrom
<1>3. CASE AnyMatch
  BY <1>3, MatchTakes
<1>4. CASE Visit
  <2>1. during = {}
    BY <1>4 DEF Visit
  <2> QED
    BY <1>4, <2>1, SkipTakes, CallTakes
<1>5. CASE AtHead
  <2>1. during = {}
    BY <1>5 DEF AtHead
  <2> QED
    BY <1>5, <2>1, HeadTakes
<1>6. CASE VisitInvalid \/ CallbackFails
  <2>1. PICK st \in {"invalid", "failed"} : pass' = [pass EXCEPT !.status = st]
    BY <1>6 DEF VisitInvalid, CallbackFails
  <2>2. pass'.status = st /\ pass'.mask = pass.mask
    BY <2>1, StatusMoves, StatusMask DEF RuleInv
  <2>3. rs' = rs /\ calls' = calls /\ during = {}
    BY <1>6 DEF VisitInvalid, CallbackFails
  <2> QED
    BY <2>2, <2>3 DEF TakenInv, Taking
<1>7. CASE CallbackOk
  <2>1. during = {}
    BY <1>7 DEF CallbackOk
  <2> QED
    BY <1>7, <2>1, CallbackTakes
<1>8. CASE UNCHANGED vars
  BY <1>8 DEF vars, TakenInv
<1> QED
  BY <1>2, <1>3, <1>4, <1>5, <1>6, <1>7, <1>8 DEF RuleNext, PassStep

LEMMA TakenMeans ==
  /\ Called = CalledIn(rs, calls)
  /\ \A n, taken : RightlyTaken(n, taken) <=> TakenIn(rs, pass.mask, n, taken)
  BY DEF Called, CalledIn, InUse, RightlyTaken, TakenIn

LEMMA TakenIsPrecedence == TakenInv => CallsFollowPrecedence
<1> SUFFICES ASSUME TakenInv, during = {}, NEW taken, taken = CalledIn(rs, calls)
             PROVE
    /\ \A k \in DOMAIN calls : \E n \in taken : calls[k].rule_id = rs.node[n].rule_id
    /\ \A j, k \in DOMAIN calls : j < k => Earlier(calls[j], calls[k])
    /\ \A n \in InUse :
         \/ pass.status = "done"
         \/ \E m \in taken : m = n \/ Earlier(rs.node[n], rs.node[m])
         => TakenIn(rs, pass.mask, n, taken)
  BY TakenMeans DEF CallsFollowPrecedence
<1>1. Taking(rs, pass, calls)
  BY DEF TakenInv
<1>2. \A k \in DOMAIN calls : \E n \in taken : calls[k].rule_id = rs.node[n].rule_id
  BY <1>1 DEF Taking, InOrder, SameRule, CalledIn
<1> QED
  BY <1>1, <1>2 DEF Taking, InOrder, SoFar, InUse

\* The rules a pass calls are the right ones, in the right order: the search of
\* mask_rule_fitler, which stops at the first younger rule in effect and meets
\* marks of earlier passes, is as good as a comparison with every rule taken.
THEOREM PassFollowsPrecedence == NoWrap => (Spec => []CallsFollowPrecedence)
<1> SUFFICES ASSUME NoWrap PROVE Spec => []CallsFollowPrecedence
  OBVIOUS
<1>1. /\ RuleInv /\ IdsSound(rs) /\ PlacedInv /\ CallsInv /\ TakenInv /\ [Next]_vars
      => TakenInv'
  BY TakenNext, NextIsRuleNext
<1>2. Spec => []IdsSound(rs) /\ []CallsInv
  BY IdsInvariance, CallsInvariance
<1> QED
  BY <1>1, <1>2, TakenInit, TakenIsPrecedence, RuleInvariance, PlacedInvariance, PTL DEF Spec
-----------------------------------------------------------------------------
(* The rule set as the operator sees it.                                   *)

RuleAt(r, n) ==
  [id |-> r.node[n].rule_id,
   content |-> [priority |-> r.node[n].priority, type |-> r.node[n].type,
                imask |-> r.node[n].imask, omask |-> r.node[n].omask]]
ListedIn(r) == {RuleAt(r, n) : n \in {n \in Node : r.node[n].valid}}

LEMMA ListedNow == Listed = ListedIn(rs) /\ Listed' = ListedIn(rs')
  BY DEF Listed, ListedIn, InUse, ContentOf, RuleAt

\* A full pool is a full set: no two rules are the same.
LEMMA ListedCounts ==
  ASSUME NEW r, Sound(r)
  PROVE  Cardinality(ListedIn(r)) \in Nat /\ Cardinality(ListedIn(r)) <= r.rule_cnt
<1> DEFINE f == [k \in 1..r.rule_cnt |-> RuleAt(r, r.idList[k])]
<1>1. r.rule_cnt \in Nat /\ r.rule_cnt \in 0..Cap /\ Cap \in Nat
  BY SoundTypes, MaskRuleAssumption
<1>2. \A k \in 1..r.rule_cnt : k \in Node
  BY <1>1 DEF Node
<1>3. \A k \in 1..r.rule_cnt : r.idList[k] \in Node /\ r.node[r.idList[k]].valid
  BY <1>1, <1>2, SoundTypes DEF Sound, UsedInFront
<1>4. ASSUME NEW x \in ListedIn(r) PROVE \E k \in 1..r.rule_cnt : f[k] = x
  <2>1. PICK n \in Node : r.node[n].valid /\ x = RuleAt(r, n)
    BY <1>4 DEF ListedIn
  <2>2. HasPlaces(r, n, r.node[n].priority)
    BY <2>1, UsedPlaces
  <2>3. PICK k \in 1..r.rule_cnt : r.idList[k] = n
    BY <2>2 DEF HasPlaces
  <2> QED
    BY <2>1, <2>3
<1>5. \A k \in 1..r.rule_cnt : f[k] \in ListedIn(r)
  BY <1>3 DEF ListedIn
<1>6. f \in Surjection(1..r.rule_cnt, ListedIn(r))
  BY <1>4, <1>5, Fun_IsSurj
<1>7. IsFiniteSet(1..r.rule_cnt) /\ Cardinality(1..r.rule_cnt) = r.rule_cnt
  <2>1. r.rule_cnt \in Nat /\ 1 \in Int /\ r.rule_cnt \in Int
    BY <1>1
  <2> HIDE DEF f
  <2>2. /\ IsFiniteSet(1..r.rule_cnt)
        /\ Cardinality(1..r.rule_cnt) = IF 1 > r.rule_cnt THEN 0 ELSE r.rule_cnt - 1 + 1
    BY <2>1, FS_Interval
  <2> QED
    BY <2>1, <2>2
<1>8. IsFiniteSet(ListedIn(r)) /\ Cardinality(ListedIn(r)) <= r.rule_cnt
  BY <1>6, <1>7, FS_Surjection
<1> QED
  BY <1>8, FS_CardinalityType

\* RuleSet's instance of FiniteSets counts as ours does.
LEMMA SameCardinality ==
  ASSUME NEW S
  PROVE  Abstract!Cardinality(S) = Cardinality(S)
  BY DEF Cardinality, Abstract!Cardinality

LEMMA AdditionIsAddRule ==
  ASSUME NoWrap, Sound(rs), IdsSound(rs), rs.rule_id < MaxAdds,
         NEW c \in Contents, CanAdd(rs, c), rs' = Added(rs, c)
  PROVE  Abstract!AddRule(c)
<1> DEFINE n == FreeNode(rs)
           new == NewRule(rs, c)
<1>0. c \in Content
  BY MaskRuleAssumption
<1>1. /\ rs'.node = [rs.node EXCEPT ![n] = new]
      /\ rs'.rule_id = (rs.rule_id + 1) % IdMod
  BY <1>0, AddedFields
<1>2. n \in Node /\ ~rs.node[n].valid /\ rs.node \in [Node -> Rule]
  BY FirstFree, SoundTypes DEF CanAdd
<1>3. /\ new.valid /\ new.rule_id = (rs.rule_id + 1) % IdMod
      /\ new.priority = Priority(c) /\ new.type = c.type
      /\ new.imask = c.imask /\ new.omask = c.omask
  BY DEF NewRule
<1> HIDE DEF n, new
<1>4. rs'.node[n] = new /\ \A m \in Node : m # n => rs'.node[m] = rs.node[m]
  BY <1>1, <1>2
<1>5. Abstract!Ranked(c) = [priority |-> Priority(c), type |-> c.type,
                            imask |-> c.imask, omask |-> c.omask]
  BY <1>0 DEF Content, Abstract!Ranked, Priority
<1>6. RuleAt(rs', n) = [id |-> rs'.rule_id, content |-> Abstract!Ranked(c)]
  BY <1>1, <1>3, <1>4, <1>5 DEF RuleAt
<1>7. ListedIn(rs') = ListedIn(rs) \union {RuleAt(rs', n)}
  <2>1. \A m \in Node : m # n => RuleAt(rs', m) = RuleAt(rs, m)
    BY <1>4 DEF RuleAt
  <2>2. \A m \in Node : rs'.node[m].valid <=> rs.node[m].valid \/ m = n
    BY <1>3, <1>4
  <2> QED
    BY <1>2, <2>1, <2>2 DEF ListedIn
<1>8. Abstract!Accepts(c)
  <2>1. Cardinality(ListedIn(rs)) < Cap
    <3>1. /\ Cardinality(ListedIn(rs)) \in Nat
          /\ Cardinality(ListedIn(rs)) <= rs.rule_cnt
          /\ rs.rule_cnt \in 0..Cap /\ rs.rule_cnt < Cap /\ Cap \in Nat
      BY ListedCounts, SoundTypes, MaskRuleAssumption DEF CanAdd
    <3> QED
      BY <3>1
  <2> QED
    <3>1. Cardinality(Listed) < Cap
      BY <2>1, ListedNow
    <3>2. /\ c.imask.up \intersect c.imask.down = {}
          /\ c.omask.up \intersect c.omask.down = {}
      BY DEF CanAdd
    <3> QED
      BY <3>1, <3>2, SameCardinality DEF Abstract!Accepts
<1> QED
  BY <1>1, <1>6, <1>7, <1>8, ListedNow DEF Abstract!AddRule

LEMMA DeletionIsDelRule ==
  ASSUME Sound(rs), IdsSound(rs), NEW n \in Node, rs.node[n].valid, rs' = Deleted(rs, n)
  PROVE  Abstract!DelRule(rs.node[n].rule_id)
<1>1. Leaves(rs, n, rs.node[n].priority, rs')
  BY DeletedFields
<1>2. /\ rs'.node = [rs.node EXCEPT ![n] = GoneRule(rs, n)] /\ ~GoneRule(rs, n).valid
      /\ rs'.rule_id = rs.rule_id /\ rs.node \in [Node -> Rule]
  BY <1>1, SoundTypes DEF Leaves
<1>3. ~rs'.node[n].valid /\ \A m \in Node : m # n => rs'.node[m] = rs.node[m]
  BY <1>2
<1>4. \A m \in Node : m # n => RuleAt(rs', m) = RuleAt(rs, m)
  BY <1>3 DEF RuleAt
<1>5. \A m \in Node : rs'.node[m].valid <=> rs.node[m].valid /\ m # n
  BY <1>3
<1>6. \A m \in Node : rs.node[m].valid =>
        (m # n <=> RuleAt(rs, m).id # rs.node[n].rule_id)
  BY DEF IdsSound, RuleAt
<1>7. ListedIn(rs') = {x \in ListedIn(rs) : x.id # rs.node[n].rule_id}
  BY <1>4, <1>5, <1>6 DEF ListedIn
<1> QED
  BY <1>2, <1>7, ListedNow DEF Abstract!DelRule

LEMMA MarksAreStutter ==
  ASSUME OnlyMarks(rs, rs')
  PROVE  Listed' = Listed /\ rs'.rule_id = rs.rule_id
<1>1. \A m \in Node : RuleAt(rs', m) = RuleAt(rs, m) /\ rs'.node[m].valid = rs.node[m].valid
  BY DEF OnlyMarks, RuleAt
<1>2. ListedIn(rs') = ListedIn(rs)
  BY <1>1 DEF ListedIn
<1> QED
  BY <1>2, ListedNow DEF OnlyMarks

LEMMA RuleSetStep ==
  NoWrap /\ RuleInv /\ IdsSound(rs) /\ [RuleNext]_vars
  => [Abstract!Next]_(Abstract!vars)
<1> SUFFICES ASSUME NoWrap, RuleInv, IdsSound(rs), [RuleNext]_vars
             PROVE  [Abstract!Next]_(Abstract!vars)
  OBVIOUS
<1>1. Sound(rs)
  BY DEF RuleInv
<1>2. CASE rs' = rs
  BY <1>2, ListedNow DEF Abstract!vars
<1>3. CASE rs.rule_id < MaxAdds /\ IsAddition(rs, rs')
  BY <1>1, <1>3, AdditionIsAddRule DEF IsAddition, Abstract!Next
<1>4. CASE IsDeletion(rs, rs')
  BY <1>1, <1>4, DeletionIsDelRule DEF IsDeletion, Abstract!Next
<1>5. CASE OnlyMarks(rs, rs')
  BY <1>5, MarksAreStutter DEF Abstract!vars
<1> QED
  BY <1>2, <1>3, <1>4, <1>5, RuleSteps

LEMMA RuleSetInit == Init => Abstract!Init
  BY DEF Init, Abstract!Init, Empty, Listed, InUse

\* Node pool, id list and priority lists together are the set of RuleSet: no
\* command loses, repeats or changes a rule, whatever a pass does meanwhile.
THEOREM ImplementsRuleSet == NoWrap => (Spec => RuleSetSpec)
<1> SUFFICES ASSUME NoWrap PROVE Spec => RuleSetSpec
  OBVIOUS
<1>1. RuleInv /\ IdsSound(rs) /\ [Next]_vars => [Abstract!Next]_(Abstract!vars)
  BY RuleSetStep, NextIsRuleNext
<1>2. Spec => []IdsSound(rs)
  BY IdsInvariance
<1> QED
  BY <1>1, <1>2, RuleSetInit, RuleInvariance, PTL DEF Spec, RuleSetSpec, Abstract!Spec
=============================================================================
