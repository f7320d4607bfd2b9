-------------------------- MODULE RoundRobinIndex --------------------------
(***************************************************************************)
(* The victim index of WearShareRoundRobinStoragePolicy                    *)
(* (cpp/src/policies/storage/wear_share_round_robin_storage_policy.cpp).   *)
(*                                                                         *)
(* The other storage policies scan all stored blocks for a victim.  This   *)
(* one keeps, for each segment with SSD blocks, their number and newest    *)
(* access per tier, and per tier the segments in that order; what is known *)
(* of a segment is computed again from the tree when a commit or a change  *)
(* of the tree may have touched it.  The policy also decides which tier a  *)
(* dump goes to, from the bytes programmed so far.                         *)
(***************************************************************************)
EXTENDS Integers, FiniteSets

CONSTANTS
    Hash,           \* block hashes
    SlcShare,       \* slc_host_share, in parts of WholeShare
    WholeShare

Tiers == {"SLC", "TLC"}
NoSegment == [t \in Tiers |-> [blocks |-> 0, last |-> 0]]

Tree(u) == INSTANCE TreeShape WITH up <- u

EmptyIndex ==
    [segments   |-> [h \in Hash |-> NoSegment],  \* segments_, by endpoint
     candidates |-> [t \in Tiers |-> {}],        \* candidates_: <<last_ns, endpoint>>
     below      |-> [h \in Hash |-> 0],          \* subtree_storage_
     program    |-> [t \in Tiers |-> 0]]         \* program_bytes_, in blocks

Known(x, e) == x.segments[e] # NoSegment

Erase(x, e) ==
    [x EXCEPT !.segments[e] = NoSegment,
              !.candidates = [t \in Tiers |->
                  IF x.segments[e][t].blocks = 0 THEN @[t]
                  ELSE @[t] \ {<<x.segments[e][t].last, e>>}]]

\* refresh_segment(): s maps each node to its tier, last to its newest access.
Refresh(x, u, s, last, e) ==
    LET On(t) == {n \in Tree(u)!Segment(e) : s[n] = t}
        Newest(t) == CHOOSE a \in {last[n] : n \in On(t)} : \A n \in On(t) : last[n] <= a
        y == Erase(x, e)
    IN  [y EXCEPT
            !.segments[e] = [t \in Tiers |->
                IF On(t) = {} THEN NoSegment[t]
                ELSE [blocks |-> Cardinality(On(t)), last |-> Newest(t)]],
            !.candidates = [t \in Tiers |->
                IF On(t) = {} THEN @[t] ELSE @[t] \cup {<<Newest(t), e>>}]]

LeafOf(u, n) == CHOOSE l \in Tree(u)!SegmentLeaf(n) : TRUE

\* on_node_created(): the new leaf lengthens its parent's segment, or cuts it.
NodeCreated(x, u, s, last, n) ==
    LET p == Tree(u)!Parent(n)
        children == IF p = Tree(u)!NoNode THEN 0 ELSE Tree(u)!ChildCount(p)
        sibling == CHOOSE c \in Tree(u)!Children(p) : c # n
        suffix == LeafOf(u, sibling)
    IN  IF children = 1
        THEN IF Known(x, p) THEN Refresh(Erase(x, p), u, s, last, n) ELSE x
        ELSE IF children = 2 /\ Known(x, suffix)
        THEN Refresh(Refresh(x, u, s, last, p), u, s, last, suffix)
        ELSE x

\* on_node_pruned(): the removed leaf ended its parent's segment, or its last
\* sibling joins the segment above.
NodePruned(x, u, s, last, n, p) ==
    LET y == Erase(x, n)
        children == IF p = Tree(u)!NoNode THEN 2 ELSE Tree(u)!ChildCount(p)
        suffix == LeafOf(u, p)
    IN  IF children = 0
        THEN IF Known(x, n) THEN Refresh(y, u, s, last, p) ELSE y
        ELSE IF children = 1 /\ (Known(y, p) \/ Known(y, suffix))
        THEN Refresh(Erase(y, p), u, s, last, suffix)
        ELSE y

\* change_ancestors() for each of the nodes.
ChangeAncestors(x, u, nodes, d) ==
    [x EXCEPT !.below = [h \in Hash |-> @[h] + d * Cardinality({n \in nodes : h \in u[n]})]]

\* Mutant of Endpoint: the commit is booked on the endpoint it names.
EndpointAsNamed(u, e) == e

\* A commit names the endpoint its caller noted; trims may have joined that
\* segment with a surviving branch since.
Endpoint(u, e) == LeafOf(u, e)

\* on_commit(): nodes were written to t, trimmed, or accessed.
Written(x, u, s, last, e, nodes, t) ==
    Refresh(ChangeAncestors([x EXCEPT !.program[t] = @ + Cardinality(nodes)],
                            u, nodes, 1), u, s, last, Endpoint(u, e))
Trimmed(x, u, s, last, e, nodes) ==
    Refresh(ChangeAncestors(x, u, nodes, -1), u, s, last, Endpoint(u, e))
Touched(x, u, s, last, e) == Refresh(x, u, s, last, Endpoint(u, e))

-----------------------------------------------------------------------------

\* indexed_victim(): the first candidate with nothing stored below it and
\* nothing protected in it.  Whether something is stored below is counted
\* (subtree_counts) or looked up.
Victim(x, u, s, t, protected, counts) ==
    LET Unused(e) ==
            IF counts THEN x.below[e] = IF s[e] = "None" THEN 0 ELSE 1
            ELSE \A d \in Tree(u)!Below(e) : s[d] = "None"
        K == {k \in x.candidates[t] :
                 Unused(k[2]) /\ Tree(u)!Segment(k[2]) \cap protected = {}}
    IN  {k[2] : k \in {k \in K : \A j \in K : k[1] < j[1] \/ (k[1] = j[1] /\ k[2] <= j[2])}}

\* choose_tier(): the tier that stays closer to its share when it takes the dump.
ChooseTier(x, blocks) ==
    IF (x.program["SLC"] + blocks) * (WholeShare - SlcShare)
          <= (x.program["TLC"] + blocks) * SlcShare
    THEN "SLC" ELSE "TLC"
=============================================================================
