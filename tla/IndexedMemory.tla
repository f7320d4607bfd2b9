--------------------------- MODULE IndexedMemory ---------------------------
(***************************************************************************)
(* The state of IndexedMemoryLruPolicy and what its callbacks do to it     *)
(* (cpp/src/policies/memory/indexed_memory_lru_policy.cpp).                *)
(*                                                                         *)
(* The baseline policy scans the DRAM blocks for a victim.  This one keeps *)
(* the segments, their resident members by recency and, per group, the     *)
(* segments by their newest member, and repairs them whenever the tree     *)
(* changes: a new leaf makes a segment longer or splits one, a removed     *)
(* leaf shortens one or joins two.  An operator here maps an index x and   *)
(* the tree u after the change to the index after the callback.            *)
(***************************************************************************)
EXTENDS Integers, FiniteSets

CONSTANTS
    Hash,       \* block hashes
    GroupCount  \* number of groups

Group == 0 .. GroupCount - 1
NoHandle == 0
NotResident == 0

Tree(u) == INSTANCE TreeShape WITH up <- u

\* groupOf stands for mix(endpoint) % groups.
EmptyIndex(groupOf) ==
    [groupOf  |-> groupOf,
     recency  |-> [h \in Hash |-> NotResident], \* residents_
     handle   |-> [h \in Hash |-> NoHandle],    \*
     segments |-> <<>>,                         \* segments_, by handle
     ends     |-> [h \in Hash |-> NoHandle],    \* endpoints_
     groups   |-> [g \in Group |-> {}],         \* keys <<newest recency, endpoint>>
     below    |-> [h \in Hash |-> 0],           \* subtree_memory_
     next     |-> 0]                            \* next_recency_

Precedes(j, k) == j[1] < k[1] \/ (j[1] = k[1] /\ j[2] <= k[2])
Least(K) == {k \in K : \A j \in K : Precedes(k, j)}
Newest(members) == CHOOSE k \in members : \A j \in members : j[1] <= k[1]

\* ensure_segment().  A handle only has to be unused: next_handle_ counts on.
EnsureSegment(x, e) ==
    IF x.ends[e] # NoHandle THEN x
    ELSE LET s == CHOOSE s \in 1 .. Cardinality(DOMAIN x.segments) + 1 : s \notin DOMAIN x.segments
         IN  [x EXCEPT !.ends[e] = s,
                       !.segments = [t \in DOMAIN @ \cup {s} |->
                           IF t = s THEN [endpoint |-> e, group |-> x.groupOf[e], members |-> {}]
                           ELSE @[t]]]

\* unpublish(): a segment that has members leaves its group's order.
Unpublish(x, s) ==
    LET seg == x.segments[s]
    IN  IF seg.members = {} THEN x
        ELSE [x EXCEPT !.groups[seg.group] = @ \ {<<Newest(seg.members)[1], seg.endpoint>>}]

Forget(x, s) ==
    [x EXCEPT !.ends[x.segments[s].endpoint] = NoHandle,
              !.segments = [t \in DOMAIN @ \ {s} |-> @[t]]]

\* publish(): it comes back with its newest member, or goes when it has none.
Publish(x, s) ==
    LET seg == x.segments[s]
    IN  IF seg.members = {} THEN Forget(x, s)
        ELSE [x EXCEPT !.groups[seg.group] = @ \cup {<<Newest(seg.members)[1], seg.endpoint>>}]

\* move_endpoint(): the segment keeps its handle, its group and its members.
MoveEndpoint(x, s, e) ==
    LET y == Unpublish(x, s)
    IN  Publish([y EXCEPT !.ends = [@ EXCEPT ![y.segments[s].endpoint] = NoHandle,
                                             ![e] = s],
                          !.segments[s].endpoint = e], s)

\* merge(): the members of the prefix join the suffix.
Merge(x, prefix, suffix) ==
    LET a == x.ends[prefix]
        b == x.ends[suffix]
        y == Unpublish(Unpublish(x, a), b)
        K == y.segments[a].members
    IN  IF a = NoHandle THEN x
        ELSE IF b = NoHandle THEN MoveEndpoint(x, a, suffix)
        ELSE Publish(Forget([y EXCEPT
                !.handle = [h \in Hash |-> IF \E k \in K : k[2] = h THEN b ELSE @[h]],
                !.segments[b].members = @ \cup K], a), b)

\* The blocks K of a segment that was cut move to the new segment above it.
Split(x, K, suffix, p) ==
    LET y == EnsureSegment(Unpublish(x, suffix), p)
        s == y.ends[p]
        Keys == {<<x.recency[h], h>> : h \in K}
        Shared == [y.segments EXCEPT ![suffix].members = @ \ Keys, ![s].members = @ \cup Keys]
    IN  Publish(Publish([y EXCEPT
            !.handle = [h \in Hash |-> IF h \in K THEN s ELSE @[h]],
            !.segments = Shared], suffix), s)

\* Mutant of NodeCreated: a second child does not cut the segment.
NodeCreatedUncut(x, u, n) ==
    LET p == Tree(u)!Parent(n)
    IN  IF p # NoHandle /\ Tree(u)!ChildCount(p) = 1 /\ x.ends[p] # NoHandle
        THEN MoveEndpoint(x, x.ends[p], n) ELSE x

\* on_node_created(), right after n was created.
NodeCreated(x, u, n) ==
    LET p == Tree(u)!Parent(n)
        children == IF p = Tree(u)!NoNode THEN 0 ELSE Tree(u)!ChildCount(p)
        K == {h \in Tree(u)!Segment(p) : x.recency[h] # NotResident}
        topmost == CHOOSE h \in K : \A k \in K : u[h] \subseteq u[k]
    IN  IF children = 1
        THEN IF x.ends[p] = NoHandle THEN x ELSE MoveEndpoint(x, x.ends[p], n)
        ELSE IF children = 2
        THEN IF K = {} THEN x ELSE Split(x, K, x.handle[topmost], p)
        ELSE x

\* Mutant of NodePruned: the segment above is not joined with the last branch.
NodePrunedUnjoined(x, u, n, p) ==
    IF p # NoHandle /\ Tree(u)!ChildCount(p) = 0 /\ x.ends[n] # NoHandle
    THEN MoveEndpoint(x, x.ends[n], p) ELSE x

\* on_node_pruned(), right after the leaf n was detached from p.
NodePruned(x, u, n, p) ==
    LET children == IF p = Tree(u)!NoNode THEN 2 ELSE Tree(u)!ChildCount(p)
    IN  IF children = 0
        THEN IF x.ends[n] = NoHandle THEN x ELSE MoveEndpoint(x, x.ends[n], p)
        ELSE IF children = 1
        THEN Merge(x, p, CHOOSE l \in Tree(u)!SegmentLeaf(p) : TRUE)
        ELSE x

\* change_ancestors().
ChangeAncestors(x, u, n, d) ==
    [x EXCEPT !.below = [h \in Hash |-> IF h \in u[n] THEN @[h] + d ELSE @[h]]]

\* on_commit(Inserted).
Inserted(x, u, n) ==
    LET y == EnsureSegment(x, CHOOSE l \in Tree(u)!SegmentLeaf(n) : TRUE)
        s == y.ends[CHOOSE l \in Tree(u)!SegmentLeaf(n) : TRUE]
        z == Unpublish(y, s)
    IN  Publish(ChangeAncestors([z EXCEPT
            !.next = @ + 1,
            !.recency[n] = z.next + 1,
            !.handle[n] = s,
            !.segments[s].members = @ \cup {<<z.next + 1, n>>}], u, n, 1), s)

\* on_commit(Accessed).
Accessed(x, n) ==
    LET s == x.handle[n]
        y == Unpublish(x, s)
    IN  Publish([y EXCEPT
            !.next = @ + 1,
            !.recency[n] = y.next + 1,
            !.segments[s].members = (@ \ {<<y.recency[n], n>>}) \cup {<<y.next + 1, n>>}], s)

\* on_commit(Removed).
Removed(x, u, n) ==
    LET s == x.handle[n]
        y == Unpublish(x, s)
    IN  Publish(ChangeAncestors([y EXCEPT
            !.recency[n] = NotResident,
            !.handle[n] = NoHandle,
            !.segments[s].members = @ \ {<<y.recency[n], n>>}], u, n, -1), s)

-----------------------------------------------------------------------------
(* The searches.                                                           *)

\* Nothing below the endpoint is in DRAM.
Admissible(x, e) == x.below[e] = IF x.recency[e] = NotResident THEN 0 ELSE 1

\* select_victim() over all groups: search() stops at the first admissible key
\* of each group, and the least of those wins.
Victim(x) ==
    LET First(g) == Least({k \in x.groups[g] : Admissible(x, k[2])})
    IN  {k[2] : k \in Least(UNION {First(g) : g \in Group})}

\* Mutant of ContextVictim: only the endpoint is counted as covered.
ContextVictimByCount(x, u, budget) ==
    LET K == {k \in x.groups[0] : Admissible(x, k[2])}
        Considered == {k \in K : Cardinality({j \in K : Precedes(j, k)}) <= budget}
    IN  {k[2] : k \in {k \in Considered :
            \A j \in Considered : Cardinality(u[k[2]]) <= Cardinality(u[j[2]])}}

\* ContextMemoryLruPolicy::select_victim(): of the coldest admissible segments
\* that together cover the budget, the shallowest, then the one with the fewest
\* blocks, then the coldest.  There is one group.
ContextVictim(x, u, budget) ==
    LET K == {k \in x.groups[0] : Admissible(x, k[2])}
        Members(k) == x.segments[x.ends[k[2]]].members
        Blocks(k) == Cardinality(Members(k))
        Before(k) == {j \in K : Precedes(j, k)} \ {k}
        Covered(k) == Cardinality(UNION {{j} \X Members(j) : j \in Before(k)})
        Considered == {k \in K : Covered(k) < budget}
        Depth(k) == Cardinality(u[k[2]])
        Better(k, j) ==
            \/ Depth(k) < Depth(j)
            \/ /\ Depth(k) = Depth(j)
               /\ Blocks(k) < Blocks(j) \/ (Blocks(k) = Blocks(j) /\ Precedes(k, j))
    IN  {k[2] : k \in {k \in Considered : \A j \in Considered : Better(k, j)}}

-----------------------------------------------------------------------------

\* The index says of the DRAM residents what the tree says of them: which
\* segment each is in, which endpoint the segment has, how much is below.
Exact(x, u, mem) ==
    LET Members(s) == {k[2] : k \in x.segments[s].members}
    IN  /\ {h \in Hash : x.recency[h] # NotResident} = mem
        /\ \A h \in mem : x.handle[h] \in DOMAIN x.segments
                          /\ <<x.recency[h], h>> \in x.segments[x.handle[h]].members
        /\ \A s \in DOMAIN x.segments :
              LET e == x.segments[s].endpoint
              IN  /\ x.ends[e] = s
                  /\ Members(s) # {} /\ Members(s) = Tree(u)!Segment(e) \cap mem
                  /\ Tree(u)!SegmentLeaf(e) = {e}
        /\ {h \in Hash : x.ends[h] # NoHandle}
              = {x.segments[s].endpoint : s \in DOMAIN x.segments}
        /\ \A g \in Group :
              x.groups[g] = {<<Newest(x.segments[s].members)[1], x.segments[s].endpoint>> :
                                s \in {s \in DOMAIN x.segments : x.segments[s].group = g}}
        /\ \A h \in Hash : x.below[h] = Cardinality(Tree(u)!Subtree(h) \cap mem)
=============================================================================
