----------------------------- MODULE TreeShape -----------------------------
(***************************************************************************)
(* The tree of blocks as the policies see it: RadixTree's queries and      *)
(* StorageView's, on a tree given by the ancestors of each block.  A       *)
(* segment is a maximal run of single children, named by its last node.    *)
(***************************************************************************)
EXTENDS Integers, FiniteSets

CONSTANTS
    Hash,   \* block hashes; positive, since ties are broken by value
    up      \* up[h] = h and its ancestors, {} when h is not a node

NoNode == 0

Nodes == {h \in Hash : up[h] # {}}
Subtree(n) == {d \in Hash : n \in up[d]}
Below(n) == Subtree(n) \ {n}
Children(n) == {c \in Below(n) : up[c] = up[n] \cup {c}}
ChildCount(n) == Cardinality(Children(n))

\* parent(n), NoNode at the root.
Parent(n) ==
    IF up[n] = {n} THEN NoNode
    ELSE CHOOSE p \in up[n] \ {n} : up[p] = up[n] \ {n}

\* segment_leaf_for(n), as a singleton: down while there is one child only.
SegmentLeaf(n) ==
    {l \in Subtree(n) :
        /\ ChildCount(l) # 1
        /\ \A x \in up[l] \ {l} : n \in up[x] => ChildCount(x) = 1}

\* resolve_segment(e): up while the parent has no other child.
Segment(e) ==
    {a \in up[e] : \A x \in up[e] \ {e} : a \in up[x] => ChildCount(x) < 2}

\* parent(segment_top): the endpoint of the segment above, as a singleton.
ParentSegment(e) ==
    LET above == up[e] \ Segment(e)
    IN  IF above = {} THEN {NoNode} ELSE {p \in above : up[p] = above}
=============================================================================
