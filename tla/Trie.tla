-------------------------------- MODULE Trie --------------------------------
(***************************************************************************)
(* The command trie of cli/trie.c on the stack of cli/stack.c: insertion   *)
(* word by word, with memory running out on the way, the search, and the   *)
(* walks, one turn of their loops at a time, with callbacks that may end   *)
(* them. Nodes are numbered in the order they were made; 1 is the root.    *)
(* Operators marked "Fault" are faulty variants of the ones after them;    *)
(* the specification does not use them.                                    *)
(***************************************************************************)
EXTENDS SpStack, Sequences, SequencesExt, FiniteSets, FiniteSetsExt

CONSTANTS
  Patterns,  \* the sequences of words that may be inserted
  MaxChild,  \* MAX_CHILD_NUM: 16
  MaxDepth,  \* MAX_CHILD_DEPTH: 16
  MaxInserts \* bound: insertions in one behaviour

\* What nodes hold: the words of the patterns.
Words == UNION {ToSet(p) : p \in Patterns}

ASSUME TrieAssumption ==
  /\ Patterns \subseteq Seq(Words)
  /\ {MaxChild, MaxDepth} \subseteq Nat \ {0}
  /\ MaxInserts \in Nat

NoWord == "-"
Root   == 1
Null   == 0

VARIABLES
  nodes,    \* the TRIE_NODE_Ts
  total,    \* total_node_num
  op,       \* the call under way, or the latest
  stack,    \* the stack of a walk
  index,    \* child_index of trie_path_list
  data,     \* and its child_data, from 1
  shown,    \* ghost: what a walk's callback was called with, or free
  inserted, \* ghost: the patterns whose insertion succeeded
  inserts   \* bound counter

trieVars == <<nodes, total, inserted, inserts>>
walkVars == <<stack, index, data, shown>>
vars     == <<trieVars, op, walkVars>>

Idle == [name |-> "none", phase |-> "over"]
NoIndex == [d \in 0..(MaxDepth - 1) |-> 0]
NoData  == [d \in 1..MaxDepth |-> NoWord]

Init ==
  /\ nodes = <<[word |-> NoWord, kids |-> <<>>, tail |-> FALSE, depth |-> 0]>>
  /\ total = 0 /\ op = Idle
  /\ stack = StackCreate(0) /\ index = NoIndex /\ data = NoData /\ shown = <<>>
  /\ inserted = {} /\ inserts = 0

Kids(n) == nodes[n].kids
Over    == op.phase = "over" /\ op.name # "uinit"
-----------------------------------------------------------------------------
(* trie_insert, tire_found.                                                *)

\* Fault: the search looks at the child added last only.
ChildNewest(n, w) ==
  IF Kids(n) # <<>> /\ nodes[Last(Kids(n))].word = w THEN Last(Kids(n)) ELSE Null

\* The first child whose word is w.
Child(n, w) ==
  LET hits == {k \in DOMAIN Kids(n) : nodes[Kids(n)[k]].word = w}
  IN IF hits = {} THEN Null ELSE Kids(n)[Min(hits)]

EndsHere(n) == n # Null /\ nodes[n].tail

Found(p) ==
  EndsHere(FoldLeft(LAMBDA n, w : IF n = Null THEN Null ELSE Child(n, w), Root, p))

BeginInsert(p) ==
  /\ Over /\ inserts < MaxInserts
  /\ op' = [name |-> "insert", phase |-> "busy", pattern |-> p, at |-> 1, search |-> Root]
  /\ inserts' = inserts + 1
  /\ UNCHANGED <<nodes, total, inserted, walkVars>>

Inserting == op.name = "insert" /\ op.phase = "busy"
Next1 == op.pattern[op.at]

Descend ==
  /\ Inserting /\ op.at <= Len(op.pattern) /\ Child(op.search, Next1) # Null
  /\ op' = [op EXCEPT !.at = @ + 1, !.search = Child(op.search, Next1)]
  /\ UNCHANGED <<trieVars, walkVars>>

\* Fault: only the first node of a pattern is counted.
CountedOnce == total + (IF op.at = 1 THEN 1 ELSE 0)
Counted == total + 1

\* One child too many is written behind the array.
NewNode ==
  /\ Inserting /\ op.at <= Len(op.pattern) /\ Child(op.search, Next1) = Null
  /\ IF Len(Kids(op.search)) = MaxChild
     THEN op' = [op EXCEPT !.phase = "overrun"] /\ UNCHANGED <<nodes, total>>
     ELSE /\ nodes' = Append([nodes EXCEPT ![op.search].kids = Append(@, Len(nodes) + 1)],
                             [word |-> Next1, kids |-> <<>>, tail |-> FALSE,
                              depth |-> nodes[op.search].depth + 1])
          /\ total' = Counted
          /\ op' = [op EXCEPT !.at = @ + 1, !.search = Len(nodes) + 1]
  /\ UNCHANGED <<inserted, inserts, walkVars>>

\* The nodes made before stay. On a full node trie.c:14 writes its NULL behind
\* the array, on the field func, which nothing reads.
NoMemory ==
  /\ Inserting /\ op.at <= Len(op.pattern) /\ Child(op.search, Next1) = Null
  /\ op' = [op EXCEPT !.phase = "over"]
  /\ UNCHANGED <<trieVars, walkVars>>

\* The end of the pattern; inserting it again is a conflict.
Finish ==
  /\ Inserting /\ op.at > Len(op.pattern)
  /\ op' = [op EXCEPT !.phase = "over"]
  /\ IF nodes[op.search].tail THEN UNCHANGED <<nodes, inserted>>
     ELSE /\ nodes' = [nodes EXCEPT ![op.search].tail = TRUE]
          /\ inserted' = inserted \union {op.pattern}
  /\ UNCHANGED <<total, inserts, walkVars>>
-----------------------------------------------------------------------------
(* The walks. Without memory for its stack none begins; trie_uinit then     *)
(* frees nothing.                                                          *)

Walks == {"path_entry", "path_list", "each_entry", "uinit"}

Pushed(s, list) == FoldLeft(Enstack, s, list)

BeginWalk(w) ==
  /\ Over
  /\ op' = [name |-> w, phase |-> "busy"]
  /\ stack' = Pushed(StackCreate(total), Kids(Root))
  /\ index' = NoIndex /\ data' = NoData /\ shown' = <<>>
  /\ UNCHANGED trieVars

Walking == op.name \in Walks /\ op.phase = "busy"

\* The callback may end the walk; without memory nothing of it is kept.
Return(ret) == op' = [op EXCEPT !.phase = ret]
CallsBack(value) ==
  /\ shown' = Append(shown, value)
  /\ \/ op' = op
     \/ op.name # "uinit" /\ Return("over")
NoCallback == shown' = shown /\ op' = op

\* trie_path_entry, trie_each_entry_accord_hierarchy, trie_uinit.
Pop ==
  /\ Walking /\ op.name # "path_list" /\ ~StackEmpty(stack)
  /\ LET n == StackTop(stack)
     IN /\ stack' = Pushed(Destack(stack), Kids(n))
        /\ IF op.name = "path_entry" /\ ~nodes[n].tail THEN NoCallback ELSE CallsBack(n)
  /\ UNCHANGED <<trieVars, index, data>>

\* Fault: the children of the next node of this depth are not gone through.
ResetForgotten(i, d) == i
Reset(i, d) == [i EXCEPT ![d] = 0]

\* Fault: the place among the children is not counted on.
NextChildFirst(d) == 1
NextChild(d) == index[d] + 1

\* trie_path_list: its arrays end one place before the deepest paths do.
PathTurn ==
  /\ Walking /\ op.name = "path_list" /\ ~StackEmpty(stack)
  /\ LET n == StackTop(stack)
         d == nodes[n].depth
         k == NextChild(d)
     IN IF d >= MaxDepth
        THEN op' = [op EXCEPT !.phase = "overrun"] /\ UNCHANGED walkVars
        ELSE /\ data' = [data EXCEPT ![d] = nodes[n].word]
             /\ IF k <= Len(Kids(n))
                THEN /\ index' = [index EXCEPT ![d] = k]
                     /\ stack' = Enstack(stack, Kids(n)[k])
                     /\ NoCallback
                ELSE /\ index' = Reset(index, d)
                     /\ stack' = Destack(stack)
                     /\ IF nodes[n].tail THEN CallsBack(SubSeq(data', 1, d))
                        ELSE NoCallback
  /\ UNCHANGED trieVars

WalkOver ==
  /\ Walking /\ StackEmpty(stack) /\ Return("complete")
  /\ UNCHANGED <<trieVars, walkVars>>

\* What a caller does with it.
Leave ==
  /\ op.phase = "complete" /\ Return("over")
  /\ UNCHANGED <<trieVars, walkVars>>

Turn == Pop \/ PathTurn \/ WalkOver \/ Leave

Next ==
  \/ \E p \in Patterns : BeginInsert(p)
  \/ Descend \/ NewNode \/ NoMemory \/ Finish
  \/ \E w \in Walks : BeginWalk(w)
  \/ Turn

Spec == Init /\ [][Next]_vars

\* A walk that has begun goes on.
FairSpec == Spec /\ WF_vars(Turn)
-----------------------------------------------------------------------------
(* Properties.                                                             *)

\* A pattern is found from the moment its insertion succeeds, and no other
\* is: not its prefixes, nor what an insertion that ran out of memory, or
\* into a conflict, left behind (trie_insert, tire_found).
FoundIffInserted == \A p \in Patterns : Found(p) <=> p \in inserted

\* The stack is made for total_node_num elements and its refusals are not
\* looked at: it never refuses, whatever insertions failed half-way, and its
\* pointer never leaves it.
StackHoldsWalk == StackOK(stack) /\ ~stack.refused

\* A walk that no callback ends misses nothing and shows nothing twice:
\* trie_path_list shows the inserted patterns, except the empty one, which is
\* found but shown by no walk; trie_path_entry the nodes that end one; the
\* other two all nodes, and so trie_uinit frees each once, after its parent.
Made == 2..Len(nodes)
Due ==
  CASE op.name = "path_list"  -> inserted \ {<<>>}
    [] op.name = "path_entry" -> {n \in Made : nodes[n].tail}
    [] OTHER                  -> Made
WalksShowAll ==
  op.name \in Walks /\ op.phase = "complete" =>
    /\ ToSet(shown) = Due /\ Len(shown) = Cardinality(Due)
    /\ op.name \in {"each_entry", "uinit"} =>
         \A j, k \in DOMAIN shown : shown[k] \in ToSet(Kids(shown[j])) => j < k

\* Every walk comes to its end.
WalksEnd == Walking ~> ~Walking
=============================================================================
