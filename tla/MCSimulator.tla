---------------------------- MODULE MCSimulator ----------------------------
(* Small instances of Simulator: the constants the configurations name.    *)
EXTENDS Simulator

\* Two requests share block 1 and fork below it, a third is unrelated.
ForkPaths == {<<1, 2>>, <<1, 3>>, <<4>>}

\* The fork again, one branch going one block deeper.
DeepPaths == {<<1, 2, 5>>, <<1, 3>>, <<4>>}

\* The same fork with two unrelated blocks that push it out of DRAM.
CrowdedPaths == ForkPaths \cup {<<5>>}

Limits(slc, tlc) == [t \in Tier |-> IF t = "SLC" THEN slc ELSE tlc]

\* SLC holds one block and TLC two, so that both overflow, and the reverse.
SmallSlc == Limits(1, 2)
SmallTlc == Limits(2, 1)
=============================================================================
