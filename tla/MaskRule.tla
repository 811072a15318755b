------------------------------ MODULE MaskRule ------------------------------
(***************************************************************************)
(* The rule set of rule/mask_rule.c: a fixed pool of nodes on an id list,  *)
(* one list per priority, and the pass of mask_rule_macth over them, node  *)
(* by node, with the callback as a step of its own. Lists are sequences of *)
(* nodes; a cursor is a node or, as in the code, a list head.              *)
(* Operators marked "Fault" are faulty variants of the ones after them;    *)
(* the specification does not use them.                                    *)
(***************************************************************************)
EXTENDS Integers, Sequences, FiniteSets, SequencesExt

CONSTANTS
  Cap,        \* rule_cap: 128 in main.c
  NumPrio,    \* MASK_RULE_PRIORITY_NUM: 8
  ArgMod,     \* rule_id parameters are UINT8_T: 256
  IdMod,      \* rule_id itself is UINT16_T: 65536
  Bits,       \* the inputs and outputs a mask names
  Contents,   \* the rules that may be added
  InMasks,    \* the input states a pass may be run for
  Concurrent, \* TRUE: rules change while a pass runs, as main.c lets them
  MaxAdds     \* bound: additions in one behaviour

NumMod == 256 \* rule_num is UINT8_T

Mask    == [up : SUBSET Bits, down : SUBSET Bits]
Content == [priority : 0..(NumPrio - 1), type : {"flex", "fuzz"},
            imask : Mask, omask : Mask]

ASSUME MaskRuleAssumption ==
  /\ Cap \in Nat \ {0} /\ NumPrio \in Nat \ {0, 1}
  /\ ArgMod \in Nat \ {0, 1} /\ IdMod \in Nat \ {0}
  /\ Contents \subseteq Content
  /\ InMasks \subseteq SUBSET Bits
  /\ Concurrent \in BOOLEAN
  /\ MaxAdds \in Nat

Node  == 1..Cap
Prios == 1..NumPrio

VARIABLES
  rs,    \* the MASK_RULE_T
  sweep, \* "del all": the id it deletes next, 0 when it is not under way
  pass,  \* the local variables of mask_rule_macth
  calls, \* ghost: the rules whose callback this pass has made
  during \* ghost: what the operator did to the rules during this pass

vars == <<rs, sweep, pass, calls, during>>

NoMask == [up |-> {}, down |-> {}]
NoPass == [status |-> "idle", mask |-> {}, list |-> 0, pos |-> 0, tmp |-> 0]

\* mask_rule_init pushes node after node on the front of the id list.
Empty ==
  [rule_cnt |-> 0,
   rule_id  |-> 0,
   idList   |-> [k \in Node |-> Cap + 1 - k],
   idLast   |-> 0,
   prioList |-> [p \in Prios |-> <<>>],
   prioLast |-> [p \in Prios |-> -p],
   rule_num |-> [p \in Prios |-> 0],
   oldNext  |-> [n \in Node |-> 0],
   node     |-> [n \in Node |->
                  [valid |-> FALSE, effect |-> FALSE, rule_id |-> 0, priority |-> 0,
                   type |-> "flex", imask |-> NoMask, omask |-> NoMask]]]
-----------------------------------------------------------------------------
(* Lists. The head of priority list p is -p; the head of the id list is 0.  *)

Place(s, x) == CHOOSE k \in DOMAIN s : s[k] = x
PrevIn(s, x, head) == IF Place(s, x) = 1 THEN head ELSE s[Place(s, x) - 1]
NextIn(s, x, head) == IF Place(s, x) = Len(s) THEN head ELSE s[Place(s, x) + 1]
FirstIn(s, head)   == IF s = <<>> THEN head ELSE s[1]

\* x->next along the priority links. list_del leaves a node its own links.
NextOf(r, x) ==
  IF x < 0 THEN FirstIn(r.prioList[-x], x)
  ELSE IF \E p \in Prios : Contains(r.prioList[p], x)
       THEN LET q == CHOOSE p \in Prios : Contains(r.prioList[p], x)
            IN NextIn(r.prioList[q], x, -q)
       ELSE r.oldNext[x]

\* Fault: new rules go to the front of their list.
EnqueuedFirst(s, n) == <<n>> \o s
\* Fault: a deleted node keeps its place on the id list.
LeftInPlace(s, n) == s

\* list_del.
Unlinked(s, n) ==
  [k \in 1..(Len(s) - 1) |-> IF k < Place(s, n) THEN s[k] ELSE s[k + 1]]

\* list_add_tail puts a node last: on its priority list when it is added, on
\* the id list when it is deleted.
Enqueued(s, n) == Append(s, n)
ToFreeEnd(s, n) == Append(Unlinked(s, n), n)

\* Fault: the counter does not wrap.
Unbounded(x) == x

\* rule_num wraps at its width.
Width8(x) == x % NumMod
-----------------------------------------------------------------------------
(* mask_rule_add, mask_rule_get, mask_rule_del.                            *)

CanAdd(r, c) ==
  /\ r.rule_cnt < Cap
  /\ c.imask.up \intersect c.imask.down = {}
  /\ c.omask.up \intersect c.omask.down = {}

\* Priority 0 stands for the lowest but one: rules are kept by priority - 1.
Priority(c) == IF c.priority = 0 THEN NumPrio - 1 ELSE c.priority
\* Fault: priority 0 ends up on the last list.
ListIndexShifted(c) == IF c.priority = 0 THEN NumPrio ELSE c.priority
ListIndex(c) == Priority(c)

\* Fault: the last node in use is taken once more.
FreeNodeInUse(r) == IF r.idLast = 0 THEN r.idList[1] ELSE r.idLast
FreeNode(r) ==
  IF r.idLast = 0 THEN FirstIn(r.idList, 0) ELSE NextIn(r.idList, r.idLast, 0)

Added(r, c) ==
  LET n  == FreeNode(r)
      p  == ListIndex(c)
      id == (r.rule_id + 1) % IdMod
  IN [r EXCEPT
       !.node[n] = [valid |-> TRUE, effect |-> @.effect, rule_id |-> id,
                    priority |-> Priority(c), type |-> c.type,
                    imask |-> c.imask, omask |-> c.omask],
       !.rule_id = id,
       !.prioList[p] = Enqueued(@, n),
       !.idLast = n,
       !.prioLast[p] = n,
       !.rule_num[p] = Width8(@ + 1),
       !.rule_cnt = @ + 1]

\* The nodes in use come first on the id list; the search ends after them.
Found(r, id) ==
  {r.idList[k] : k \in {k \in Node :
     /\ \A j \in 1..k : r.node[r.idList[j]].valid
     /\ r.node[r.idList[k]].rule_id = id
     /\ \A j \in 1..(k - 1) : r.node[r.idList[j]].rule_id # id}}

\* The index here is the priority, where the lists are kept by priority - 1:
\* the links are right, last_node and rule_num belong to the next list.
Deleted(r, n) ==
  LET p == r.node[n].priority + 1
      q == r.node[n].priority
  IN [r EXCEPT
       !.idLast = IF @ = n THEN PrevIn(r.idList, n, 0) ELSE @,
       !.prioLast[p] = IF @ = n THEN PrevIn(r.prioList[q], n, -q) ELSE @,
       !.node[n] = [@ EXCEPT !.valid = FALSE, !.imask = NoMask, !.omask = NoMask,
                             !.priority = 0, !.rule_id = 0],
       !.oldNext[n] = NextIn(r.prioList[q], n, -q),
       !.prioList[q] = Unlinked(@, n),
       !.idList = ToFreeEnd(@, n),
       !.rule_cnt = @ - 1,
       !.rule_num[p] = Width8(@ - 1)]

\* The early return when neither list seems to have a last node.
Refused(r, n) ==
  LET p == r.node[n].priority + 1 IN r.idLast = 0 /\ r.prioLast[p] = -p

DelId(r, arg) ==
  LET found == IF r.rule_cnt = 0 THEN {}
               ELSE {n \in Found(r, arg % ArgMod) : ~Refused(r, n)}
  IN IF found = {} THEN r ELSE Deleted(r, CHOOSE n \in found : TRUE)
-----------------------------------------------------------------------------
(* mask_rule_fitler and the condition of mask_rule_macth.                  *)

Applies(c, m) ==
  LET up   == IF c.type = "flex" THEN m ELSE m \intersect c.imask.up
      down == IF c.type = "flex" THEN Bits \ m ELSE c.imask.down \ m
  IN /\ c.imask.up # {} => up = c.imask.up
     /\ c.imask.down # {} => down = c.imask.down

Clash(a, b) ==
  \/ a.omask.up \intersect b.omask.down # {}
  \/ a.omask.down \intersect b.omask.up # {}

\* Fault: the filter does not stop within a priority.
PrecedesInRank(a, b) == a.priority < b.priority
Precedes(a, b) ==
  \/ a.priority < b.priority
  \/ a.priority = b.priority /\ a.rule_id <= b.rule_id

\* Fault: no rule is filtered.
FitlerNothing(r, f) == FALSE

\* Does a rule already in effect, met before this one's own place, clash? The
\* search goes through list after list, node after node.
Fitler(r, f) ==
  LET Rule(p, k)    == r.node[r.prioList[p][k]]
      Stop(p, k)    == ~Rule(p, k).valid \/ (Rule(p, k).effect /\ Precedes(f, Rule(p, k)))
      Met(q, j, p, k) == q < p \/ (q = p /\ j <= k)
  IN \E p \in Prios : \E k \in DOMAIN r.prioList[p] :
       /\ Rule(p, k).effect /\ Clash(f, Rule(p, k))
       /\ \A q \in Prios : \A j \in DOMAIN r.prioList[q] :
            Met(q, j, p, k) => ~Stop(q, j)
-----------------------------------------------------------------------------
(* Actions.                                                                *)

\* No pass is under way: there was none, or it has returned. A pass that is
\* lost ("wild") has not, and nothing says that it ever does.
Quiet == pass.status \in {"idle", "done", "failed", "invalid"}

\* The operator's rule commands take no lock, neither does a single deletion
\* of "del all". A change after a pass makes its record of calls out of date.
MayChange == Concurrent \/ Quiet
Changed(r, how) ==
  /\ rs' = r
  /\ IF Quiet THEN pass' = NoPass /\ calls' = <<>> /\ during' = {}
     ELSE /\ during' = IF r = rs THEN during ELSE during \union {how}
          /\ UNCHANGED <<pass, calls>>

Init == rs = Empty /\ sweep = 0 /\ pass = NoPass /\ calls = <<>> /\ during = {}

AddContent(c) ==
  /\ sweep = 0 /\ MayChange
  /\ rs.rule_id < MaxAdds
  /\ CanAdd(rs, c) /\ Changed(Added(rs, c), "added")
  /\ sweep' = sweep

Add == \E c \in Contents : AddContent(c)

Del(id) ==
  /\ sweep = 0 /\ MayChange
  /\ Changed(DelId(rs, id), "removed")
  /\ sweep' = sweep

\* "del all" of command_rule_handle deletes by id, one after the other, as
\* many ids as the pool has nodes. An id that no rule has changes nothing: the
\* loop goes on to the next that one has.
Finds(r, id) == DelId(r, id) # r
IsNext(r, first, id) ==
  /\ id # 0 => id >= first /\ Finds(r, id)
  /\ \A j \in first..Cap : id = 0 \/ j < id => ~Finds(r, j)

DelFrom(id) ==
  /\ MayChange /\ Changed(DelId(rs, id), "removed")
  /\ \E next \in 0..Cap : IsNext(DelId(rs, id), id + 1, next) /\ sweep' = next

DelAll  == sweep = 0 /\ \E id \in 1..Cap : IsNext(rs, 1, id) /\ DelFrom(id)
DelNext == sweep # 0 /\ DelFrom(sweep)

\* Enter list p: its first node and the one after it.
Enter(r, p) ==
  LET first == FirstIn(r.prioList[p], -p)
  IN [pass EXCEPT !.status = "visit", !.list = p, !.pos = first,
                  !.tmp = NextOf(r, first)]

\* Fault: a rule that is skipped is met again.
AdvanceStuck(r) ==
  IF pass.status = "visit" THEN pass
  ELSE [pass EXCEPT !.status = "visit", !.pos = pass.tmp, !.tmp = NextOf(r, pass.tmp)]
Advance(r) ==
  [pass EXCEPT !.status = "visit", !.pos = pass.tmp, !.tmp = NextOf(r, pass.tmp)]

MatchMask(m) ==
  /\ Quiet /\ rs.rule_cnt > 0
  /\ pass' = [Enter(rs, 1) EXCEPT !.mask = m]
  /\ calls' = <<>> /\ during' = {}
  /\ UNCHANGED <<rs, sweep>>

Match == \E m \in InMasks : MatchMask(m)

\* The cursor is at a list head: its own ends the list, and the pass after
\* the last list. Another list's head, met through a link that is out of
\* date, is memory the pass takes for a rule: the pass is lost, and whether
\* it ends is open.
AtHead ==
  /\ pass.status = "visit" /\ pass.pos <= 0
  /\ pass' = IF pass.pos # -pass.list THEN [pass EXCEPT !.status = "wild"]
             ELSE IF pass.list = NumPrio THEN [pass EXCEPT !.status = "done"]
             ELSE Enter(rs, pass.list + 1)
  /\ UNCHANGED <<rs, sweep, calls, during>>

Skips(r) ==
  LET f == r.node[pass.pos] IN ~Applies(f, pass.mask) \/ Fitler(r, f)
\* Fault: a visit does not clear the mark of an earlier pass.
NotInEffectKept(r, n) == r
NotInEffect(r, n) == [r EXCEPT !.node[n].effect = FALSE]

Visit ==
  LET n == pass.pos
      r == NotInEffect(rs, n)
  IN /\ pass.status = "visit" /\ n > 0 /\ rs.node[n].valid
     /\ IF Skips(r)
        THEN rs' = r /\ pass' = Advance(r) /\ calls' = calls
        ELSE /\ rs' = [r EXCEPT !.node[n].effect = TRUE]
             /\ pass' = [pass EXCEPT !.status = "callback"]
             /\ calls' = Append(calls, r.node[n])
     /\ UNCHANGED <<sweep, during>>

VisitInvalid ==
  /\ pass.status = "visit" /\ pass.pos > 0 /\ ~rs.node[pass.pos].valid
  /\ pass' = [pass EXCEPT !.status = "invalid"]
  /\ UNCHANGED <<rs, sweep, calls, during>>

CallbackOk ==
  /\ pass.status = "callback"
  /\ pass' = Advance(rs)
  /\ UNCHANGED <<rs, sweep, calls, during>>

CallbackFails ==
  /\ pass.status = "callback"
  /\ pass' = [pass EXCEPT !.status = "failed"]
  /\ UNCHANGED <<rs, sweep, calls, during>>

PassStep == AtHead \/ Visit \/ VisitInvalid

Next ==
  \/ Add \/ (\E id \in 1..MaxAdds : Del(id)) \/ DelAll \/ DelNext
  \/ Match \/ PassStep \/ CallbackOk \/ CallbackFails

Spec == Init /\ [][Next]_vars

\* A pass that has begun goes on: its callback returns.
FairSpec == Spec /\ WF_vars(PassStep \/ CallbackOk \/ CallbackFails)
-----------------------------------------------------------------------------
(* Properties.                                                             *)

InUse == {n \in Node : rs.node[n].valid}
ListOf(p) == ToSet(rs.prioList[p])

\* Counters stay within their widths, cursors within the pool.
TypeOK ==
  /\ rs.rule_cnt \in 0..Cap
  /\ rs.rule_id \in 0..(IdMod - 1)
  /\ sweep \in 0..Cap
  /\ Len(rs.idList) = Cap /\ ToSet(rs.idList) = Node
  /\ rs.idLast \in 0..Cap
  /\ rs.prioList \in [Prios -> Seq(Node)]
  /\ \A p \in Prios : rs.prioLast[p] \in -NumPrio..Cap
  /\ rs.rule_num \in [Prios -> 0..(NumMod - 1)]
  /\ rs.oldNext \in [Node -> -NumPrio..Cap]
  /\ pass.status \in {"idle", "visit", "callback", "done", "failed", "invalid", "wild"}
  /\ pass.mask \subseteq Bits
  /\ pass.list \in 0..NumPrio
  /\ {pass.pos, pass.tmp} \subseteq -NumPrio..Cap
  /\ during \subseteq {"added", "removed"}

\* Additions and deletions in any order keep the nodes in use at the front
\* of the id list, up to id_list.last_node: mask_rule_add takes the node
\* after it, and mask_rule_get stops at the first free one.
UsedFirst ==
  /\ \A k \in Node : rs.node[rs.idList[k]].valid <=> k <= rs.rule_cnt
  /\ rs.idLast = IF rs.rule_cnt = 0 THEN 0 ELSE rs.idList[rs.rule_cnt]

\* Every rule in use is on the list of its priority, once, and on no other;
\* no node out of use is on any.
OneListEach ==
  /\ \A p \in Prios : /\ \A n \in ListOf(p) : n \in InUse /\ rs.node[n].priority = p
                      /\ Cardinality(ListOf(p)) = Len(rs.prioList[p])
  /\ InUse = UNION {ListOf(p) : p \in Prios}

\* mask_rule_fitler stops at the first rule in effect with a greater id:
\* that is only right while every list is in the order of the ids.
ListsInIdOrder ==
  \A p \in Prios : \A j, k \in DOMAIN rs.prioList[p] :
    j < k => rs.node[rs.prioList[p][j]].rule_id < rs.node[rs.prioList[p][k]].rule_id

\* What a pass is for: going through the rules by priority, then age, take
\* each whose condition holds unless it clashes with one already taken.
Earlier(a, b) ==
  \/ a.priority < b.priority
  \/ a.priority = b.priority /\ a.rule_id < b.rule_id
RightlyTaken(n, taken) ==
  n \in taken <=>
    /\ Applies(rs.node[n], pass.mask)
    /\ \A m \in taken :
         Earlier(rs.node[m], rs.node[n]) => ~Clash(rs.node[m], rs.node[n])

\* The rules this pass has called.
Called == {n \in InUse : \E k \in DOMAIN calls : calls[k].rule_id = rs.node[n].rule_id}

\* As long as the rules stay as they are, the callbacks made so far are the
\* first of those the pass is for, in the same order, whatever earlier passes,
\* failed or not, and deletions left in the "effect" marks of the nodes; and
\* a pass that runs to its end has missed none.
CallsFollowPrecedence ==
  during = {} =>
    /\ \A k \in DOMAIN calls : \E n \in Called : calls[k].rule_id = rs.node[n].rule_id
    /\ \A j, k \in DOMAIN calls : j < k => Earlier(calls[j], calls[k])
    /\ \A n \in InUse :
         \/ pass.status = "done"
         \/ \E m \in Called : m = n \/ Earlier(rs.node[n], rs.node[m])
         => RightlyTaken(n, Called)

\* Outputs a pass has driven one way it does not drive the other way, even
\* when rules are added to the lists it walks: a new rule sits behind the
\* cursor's saved next node or in front of it, and may carry an old mark.
NoOutputDrivenTwice ==
  "removed" \notin during =>
    \A j, k \in DOMAIN calls : ~Clash(calls[j], calls[k])

\* A pass whose callbacks return comes to an end, though the operator adds
\* rules to the lists it walks, up to MaxAdds, and removes rules from them,
\* unless a removal leads it to the head of another list: there nothing is
\* claimed (list_for_each_entry_safe ends at its own list's head only).
LostByRemoval == pass.status = "wild" /\ "removed" \in during
PassEndsUnlessLost == pass.status = "visit" ~> Quiet \/ LostByRemoval

\* Additions alone never lead a pass to a free node or to another list.
PassSurvivesAdditions ==
  "removed" \notin during => pass.status \notin {"invalid", "wild"}

\* Rules may be removed while a pass is under way (list_for_each_entry_safe).
PassSurvivesRemoval == pass.status \notin {"invalid", "wild"}
-----------------------------------------------------------------------------
(* The rule set as the operator sees it.                                   *)

ContentOf(n) ==
  [priority |-> rs.node[n].priority, type |-> rs.node[n].type,
   imask |-> rs.node[n].imask, omask |-> rs.node[n].omask]
Listed == {[id |-> rs.node[n].rule_id, content |-> ContentOf(n)] : n \in InUse}

Abstract == INSTANCE RuleSet WITH
              Capacity <- Cap, ArgRange <- ArgMod, IdRange <- IdMod,
              NumRanks <- NumPrio, Offered <- Contents, MaxId <- MaxAdds,
              rules <- Listed, last <- rs.rule_id

\* Node pool, id list and priority lists together are that set: no command
\* loses, repeats or changes a rule, whatever a pass does meanwhile.
RuleSetSpec == Abstract!Spec
=============================================================================
