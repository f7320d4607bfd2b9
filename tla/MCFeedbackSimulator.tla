------------------------ MODULE MCFeedbackSimulator ------------------------
(* A small instance of FeedbackSimulator.                                  *)
EXTENDS FeedbackSimulator

\* Two requests fork below block 1, a third pushes them out of DRAM.
FeedbackPaths == {<<1, 2>>, <<1, 3>>}

FeedbackLimit == [t \in Tier |-> 1]
=============================================================================
