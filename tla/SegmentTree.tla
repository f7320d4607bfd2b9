---------------------------- MODULE SegmentTree ----------------------------
(***************************************************************************)
(* The tree of blocks as an object, and the two ways it changes: a block   *)
(* is created below a block that is there, and a leaf is detached.         *)
(***************************************************************************)
EXTENDS Integers, FiniteSets

CONSTANT Hash   \* block hashes; positive, since ties are broken by value

VARIABLE up     \* up[h] = h and its ancestors, {} when h is not a node

INSTANCE TreeShape

TreeInit == up = [h \in Hash |-> {}]

Grown(h, p) ==
    [up EXCEPT ![h] = {h} \cup (IF p = NoNode THEN {} ELSE up[p])]
Shrunk(h) == [up EXCEPT ![h] = {}]

Grow == \E h \in Hash \ Nodes, p \in Nodes \cup {NoNode} : up' = Grown(h, p)
Shrink == \E h \in Nodes : Below(h) = {} /\ up' = Shrunk(h)

TreeSpec == TreeInit /\ [][Grow \/ Shrink]_up
=============================================================================
