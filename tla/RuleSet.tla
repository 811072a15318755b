------------------------------- MODULE RuleSet -------------------------------
(***************************************************************************)
(* What the rule set promises the operator, whatever lists it keeps: rules *)
(* get increasing ids and keep their contents; a deletion names a rule by  *)
(* its id, as far as the argument can hold it, and touches no other rule.  *)
(***************************************************************************)
EXTENDS Naturals, FiniteSets

CONSTANTS Capacity, ArgRange, IdRange, NumRanks, Offered, MaxId

VARIABLES
  rules, \* [id, content] of every rule there is
  last   \* the id given out last

vars == <<rules, last>>

Init == rules = {} /\ last = 0

\* A rule without a priority gets the lowest but one.
Ranked(c) == IF c.priority = 0 THEN [c EXCEPT !.priority = NumRanks - 1] ELSE c

\* Contradictory masks and a full set are refused.
Accepts(c) ==
  /\ Cardinality(rules) < Capacity
  /\ c.imask.up \intersect c.imask.down = {}
  /\ c.omask.up \intersect c.omask.down = {}

AddRule(c) ==
  /\ Accepts(c)
  /\ last' = (last + 1) % IdRange
  /\ rules' = rules \union {[id |-> last', content |-> Ranked(c)]}

DelRule(id) ==
  /\ rules' = {r \in rules : r.id # id}
  /\ UNCHANGED last

Next ==
  \/ last < MaxId /\ \E c \in Offered : AddRule(c)
  \/ \E id \in 0..(ArgRange - 1) : DelRule(id)

Spec == Init /\ [][Next]_vars
=============================================================================
