------------------------- MODULE MCIndexedSimulator -------------------------
(* A small instance of IndexedSimulator.                                   *)
EXTENDS IndexedSimulator

\* Two requests share block 1 and fork below it, a third is unrelated.
IndexedPaths == {<<1, 2, 5>>, <<1, 3>>, <<4>>}

IndexedLimit == [t \in Tier |-> IF t = "SLC" THEN 1 ELSE 2]

\* All endpoints in one group, and neighbours in different ones.
GroupingsDef == {[h \in Hash |-> 0], [h \in Hash |-> h % 2]}
=============================================================================
