----------------------------- MODULE RadixTree -----------------------------
(***************************************************************************)
(* RadixTree (cpp/src/radix_tree.cpp): tree nodes are records in a vector, *)
(* found by hash through an index, children are a doubly linked list of    *)
(* siblings, and the slot of a removed node is used again.  A leaf is      *)
(* first detached, so that the policies can be told while its slot is      *)
(* still its own, and then released.                                       *)
(*                                                                         *)
(* What it promises is SegmentTree: a map from each block to its           *)
(* ancestors, and the segments of that map.                                *)
(***************************************************************************)
EXTENDS Integers, Sequences, FiniteSets

CONSTANT Hash   \* block hashes

ASSUME RadixTreeAssumption == Hash \subseteq Nat \ {0} /\ IsFiniteSet(Hash)

VARIABLES
    nodes,      \* nodes_, by slot: the records
    index,      \* node_index_: the slot of each hash, Invalid when it has none
    detached,   \* detached_index_: the slot of a hash that waits for its release
    free        \* free_slots_, last released last

vars == <<nodes, index, detached, free>>

Root == 0
Invalid == -1
NoHash == 0

NodeRecord == [hash |-> NoHash, parent |-> Invalid, first |-> Invalid,
               previous |-> Invalid, next |-> Invalid, children |-> 0]

Slots == DOMAIN nodes
Live == {h \in Hash : index[h] # Invalid}
Waiting == {h \in Hash : detached[h] # Invalid}
Standing == {index[h] : h \in Live}
Used == Standing \cup {detached[h] : h \in Waiting}

Init ==
    /\ nodes = [s \in {Root} |-> NodeRecord]
    /\ index = [h \in Hash |-> Invalid]
    /\ detached = [h \in Hash |-> Invalid]
    /\ free = <<>>

\* The slot of a new node: the last one released, or one more.
NewSlot == IF free = <<>> THEN Cardinality(Slots) ELSE free[Len(free)]
FreeAfter == IF free = <<>> THEN free ELSE SubSeq(free, 1, Len(free) - 1)

\* Mutant of Linked: only a first child is counted.
LinkedUncounted(p, s, h) ==
    LET old == nodes[p].first
    IN  [t \in Slots \cup {s} |->
            IF t = s THEN [NodeRecord EXCEPT !.hash = h, !.parent = p, !.next = old]
            ELSE IF t = p THEN [nodes[p] EXCEPT !.first = s,
                                  !.children = IF old = Invalid THEN @ + 1 ELSE @]
            ELSE IF t = old THEN [nodes[t] EXCEPT !.previous = s]
            ELSE nodes[t]]

\* The records once h has slot s as the first child of slot p.
Linked(p, s, h) ==
    LET old == nodes[p].first
    IN  [t \in Slots \cup {s} |->
            IF t = s THEN [NodeRecord EXCEPT !.hash = h, !.parent = p, !.next = old]
            ELSE IF t = p THEN [nodes[p] EXCEPT !.first = s, !.children = @ + 1]
            ELSE IF t = old THEN [nodes[t] EXCEPT !.previous = s]
            ELSE nodes[t]]

\* get_or_create_root() and get_or_create() of a hash that has no node; a hash
\* that has one is returned as it is.  Nothing is created while a detached
\* node waits for its release.
Create(h, parent) ==
    /\ \A d \in Hash : detached[d] = Invalid
    /\ index[h] = Invalid
    /\ nodes' = Linked(parent, NewSlot, h)
    /\ index' = [index EXCEPT ![h] = NewSlot]
    /\ free' = FreeAfter
    /\ UNCHANGED detached

\* The records once slot s left its parent's list of children.
Unlinked(s) ==
    LET r == nodes[s]
    IN  [t \in Slots |->
            IF t = r.parent
            THEN [nodes[t] EXCEPT !.children = @ - 1,
                                  !.first = IF r.previous = Invalid THEN r.next ELSE @]
            ELSE IF t = r.previous THEN [nodes[t] EXCEPT !.next = r.next]
            ELSE IF t = r.next THEN [nodes[t] EXCEPT !.previous = r.previous]
            ELSE nodes[t]]

\* Mutant of Detach: the slot is free before the policies were told.
DetachFreeing(h) ==
    /\ \A d \in Hash : detached[d] = Invalid
    /\ index[h] # Invalid /\ nodes[index[h]].children = 0
    /\ nodes' = Unlinked(index[h])
    /\ detached' = [detached EXCEPT ![h] = index[h]]
    /\ index' = [index EXCEPT ![h] = Invalid]
    /\ free' = Append(free, index[h])

\* Mutant of Detach: a node with one child is taken for a leaf.
DetachInner(h) ==
    /\ \A d \in Hash : detached[d] = Invalid
    /\ index[h] # Invalid /\ nodes[index[h]].children <= 1
    /\ nodes' = Unlinked(index[h])
    /\ detached' = [detached EXCEPT ![h] = index[h]]
    /\ index' = [index EXCEPT ![h] = Invalid]
    /\ UNCHANGED free

\* detach_leaf(): prune_from() only asks for it when the node has no child.
Detach(h) ==
    /\ \A d \in Hash : detached[d] = Invalid
    /\ index[h] # Invalid /\ nodes[index[h]].children = 0
    /\ nodes' = Unlinked(index[h])
    /\ detached' = [detached EXCEPT ![h] = index[h]]
    /\ index' = [index EXCEPT ![h] = Invalid]
    /\ UNCHANGED free

\* release_detached().
Release(h) ==
    /\ detached[h] # Invalid
    /\ nodes' = [nodes EXCEPT ![detached[h]] = NodeRecord]
    /\ detached' = [detached EXCEPT ![h] = Invalid]
    /\ free' = Append(free, detached[h])
    /\ UNCHANGED index

Next ==
    \/ \E h \in Hash, p \in {Root} \cup Standing : Create(h, p)
    \/ \E h \in Hash : Detach(h) \/ Release(h)

Spec == Init /\ [][Next]_vars

-----------------------------------------------------------------------------
(* Queries: each follows the links the way the code does.                  *)

\* parent(): the slots from s to the root give the hash and its ancestors.
Path[s \in {Root} \cup Used] ==
    IF s = Root THEN {} ELSE {nodes[s].hash} \cup Path[nodes[s].parent]

\* segment_leaf_for().
Leaf[s \in Standing] ==
    IF nodes[s].children = 1 THEN Leaf[nodes[s].first] ELSE nodes[s].hash

\* resolve_segment().
Run[s \in Standing] ==
    LET p == nodes[s].parent
    IN  {nodes[s].hash} \cup
            IF p = Root \/ nodes[p].children >= 2 THEN {} ELSE Run[p]

\* segment_top().
TopOf[s \in Standing] ==
    LET p == nodes[s].parent
    IN  IF p = Root \/ nodes[p].children >= 2 THEN nodes[s].hash ELSE TopOf[p]

\* children(), from the first child along the siblings.
Siblings[s \in Standing \cup {Invalid}] ==
    IF s = Invalid THEN {} ELSE {nodes[s].hash} \cup Siblings[nodes[s].next]

\* What has_memory_descendant() and has_storage_descendant() visit, from the
\* first child of a node.
Visited[s \in Standing \cup {Invalid}] ==
    IF s = Invalid THEN {}
    ELSE {nodes[s].hash} \cup Visited[nodes[s].first] \cup Visited[nodes[s].next]

Ancestors == [h \in Hash |-> IF h \in Live THEN Path[index[h]] ELSE {}]

Tree == INSTANCE SegmentTree WITH up <- Ancestors

-----------------------------------------------------------------------------
(* Properties.                                                             *)

\* Every slot but the root's belongs to one live node, to one detached node or
\* to the free list, once: a slot that is used again has no owner left, neither
\* in the index nor for the policies that are still being told.
SlotsExact ==
    /\ Used \cup {free[i] : i \in DOMAIN free} = Slots \ {Root}
    /\ Cardinality(Used) + Len(free) = Cardinality(Slots) - 1
    /\ Cardinality(Live) + Cardinality(Waiting) = Cardinality(Used)
    /\ \A h \in Live : nodes[index[h]].hash = h

\* The walks over the links agree with the tree they represent: the segment
\* of a node, its children and everything below it, after any sequence of
\* creations and detachments in any sibling order.
WalksExact ==
    \A h \in Live :
        LET s == index[h]
            e == Leaf[s]
        IN  /\ Tree!SegmentLeaf(h) = {e}
            /\ Tree!Segment(e) = Run[index[e]]
            /\ Tree!ParentSegment(e) = {Tree!Parent(TopOf[s])}
            /\ Tree!Children(h) = Siblings[nodes[s].first]
            /\ Tree!ChildCount(h) = nodes[s].children
            /\ Tree!Below(h) = Visited[nodes[s].first]

\* A leaf that is detached leaves every other node where it was, and a node
\* that is created changes nothing above it: RadixTree implements SegmentTree.
ImplementsTree == Tree!TreeSpec
=============================================================================
