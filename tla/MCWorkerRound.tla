--------------------------- MODULE MCWorkerRound ---------------------------
(* Small instance of WorkerRound: three workers and groups, a sample of two  *)
(* groups, and contents that make the sample or some shares empty.          *)
EXTENDS WorkerRound

Holding(a, b, c) == [g \in Group |-> IF g = 0 THEN a ELSE IF g = 1 THEN b ELSE c]

BestsDef == {Holding(3, 1, 2), Holding(0, 0, 2), Holding(1, 0, 3)}
=============================================================================
