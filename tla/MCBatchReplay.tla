--------------------------- MODULE MCBatchReplay ---------------------------
(* Small instance of BatchReplay.  MaxBatchBytes is 2: three batches of one *)
(* byte fill a queue of three, two of two bytes fill five bytes; the tight  *)
(* budget fits one batch.                                                   *)
EXTENDS BatchReplay

Sized(sizes, ends) ==
    [batches |-> [i \in DOMAIN sizes |-> [sequence |-> i - 1, nbytes |-> sizes[i]]],
     ends |-> ends]

SourcesDef ==
    {Sized(<<>>, "eof"), Sized(<<1, 1, 1, 1>>, "eof"), Sized(<<1, 2, 2, 1, 1>>, "eof"),
     Sized(<<2, 2, 1>>, "error"),
     Sized(<<1, 3, 1>>, "eof"),
     [batches |-> <<[sequence |-> 0, nbytes |-> 2], [sequence |-> 2, nbytes |-> 1],
                    [sequence |-> 1, nbytes |-> 3]>>, ends |-> "eof"]}

ConfigsDef ==
    {[prefetch |-> FALSE, queue_batches |-> 1, inflight_bytes |-> 2],
     [prefetch |-> TRUE, queue_batches |-> 1, inflight_bytes |-> 2],
     [prefetch |-> TRUE, queue_batches |-> 3, inflight_bytes |-> 5]}
=============================================================================
