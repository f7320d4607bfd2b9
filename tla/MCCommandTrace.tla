--------------------------- MODULE MCCommandTrace ---------------------------
(* Small instance of CommandTrace.                                         *)
EXTENDS CommandTrace, TLC

CapacityDef == [t \in Tier |-> 1]

Symmetry == Permutations(Block)
=============================================================================
