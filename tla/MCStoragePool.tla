--------------------------- MODULE MCStoragePool ---------------------------
(* Small instance of StoragePool: four blocks, an SLC of two and a TLC of   *)
(* three, so that every address is reused, and a relocation of two fits or  *)
(* takes TLC beyond its capacity.                                           *)
EXTENDS StoragePool, TLC

CapacityDef == [t \in Tier |-> IF t = "SLC" THEN 2 ELSE 3]

Symmetry == Permutations(Block)
=============================================================================
