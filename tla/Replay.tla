------------------------------- MODULE Replay -------------------------------
(* What replay_batches() (src/dwpdsim/input.py) promises its caller, whether *)
(* or not a thread reads ahead: the batches are processed once each, in      *)
(* order; simulator.finish() is called at the end of the source and only     *)
(* there; an error surfaces after every batch before it was processed; and   *)
(* the call comes back.                                                      *)
EXTENDS Naturals, Sequences

CONSTANTS
    Sources,       \* what the iterator may yield: batches, then eof or error
    MaxBatchBytes  \* config.max_batch_bytes

NoError == "none"

VARIABLES
    source,     \* the iterator of this call
    processed,  \* number of batches process_batch() completed
    outcome,    \* "running", "finished" or "raised"
    error       \* what was raised

vars == <<source, processed, outcome, error>>

\* The errors that may surface when n batches were processed.
Errors(n) ==
    IF n = Len(source.batches)
    THEN IF source.ends = "error" THEN {"source"} ELSE {"finish"}
    ELSE LET batch == source.batches[n + 1]
             bad == (IF batch.sequence # n THEN {"sequence"} ELSE {})
                       \cup (IF batch.nbytes > MaxBatchBytes THEN {"oversize"} ELSE {})
         IN  IF bad = {} THEN {"refused"} ELSE bad

Init ==
    /\ source \in Sources
    /\ processed = 0 /\ outcome = "running" /\ error = NoError

Process ==
    /\ outcome = "running" /\ Errors(processed) = {"refused"}
    /\ processed' = processed + 1
    /\ UNCHANGED <<source, outcome, error>>

Finish ==
    /\ outcome = "running" /\ Errors(processed) = {"finish"}
    /\ outcome' = "finished"
    /\ UNCHANGED <<source, processed, error>>

Raise ==
    /\ outcome = "running"
    /\ outcome' = "raised"
    /\ error' \in Errors(processed)
    /\ UNCHANGED <<source, processed>>

Next == Process \/ Finish \/ Raise

Spec == Init /\ [][Next]_vars /\ WF_vars(Next)
=============================================================================
