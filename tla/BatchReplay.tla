---------------------------- MODULE BatchReplay ----------------------------
(* replay_batches() of src/dwpdsim/input.py: the calling thread processes   *)
(* batches while, with prefetch, a producer thread builds the next ones.    *)
(* They share one threading.Condition.  A critical section is one step; a   *)
(* wait_for() whose predicate is false puts the thread to sleep in the same *)
(* step, and only a notify_all() of the other thread wakes it to test again.*)
EXTENDS Integers, Sequences

CONSTANTS
    Sources,        \* the iterators: [batches, ends]
    MaxBatchBytes,  \* config.max_batch_bytes
    Configs         \* [prefetch, queue_batches, inflight_bytes] of InputConfig

Batch == [sequence : Nat, nbytes : Nat]
Thread == {"producer", "consumer"}
NoError == "none"
NoBatch == 0

\* InputConfig.__post_init__ refuses a budget below one maximum batch.
ASSUME BatchReplayAssumption ==
    /\ MaxBatchBytes \in Nat
    /\ Sources \subseteq [batches : Seq(Batch), ends : {"eof", "error"}]
    /\ Configs \subseteq [prefetch : BOOLEAN, queue_batches : Nat \ {0},
                          inflight_bytes : {n \in Nat : MaxBatchBytes <= n}]

VARIABLES
    source, config,
    taken,      \* batches the iterator has yielded; a batch is its position
    queue,      \* queue
    reserved,   \* reserved
    count,      \* count
    closed, cancelled, failure,
    asleep,     \* threads inside Condition.wait()
    producer,   \* where the producer thread is
    consumer,   \* where the calling thread is
    held,       \* the batch consume() works on
    processed,  \* expected
    error       \* the exception on its way to the caller

shared == <<queue, reserved, count, closed, cancelled, failure, asleep>>
vars == <<source, config, taken, queue, reserved, count, closed, cancelled,
          failure, asleep, producer, consumer, held, processed, error>>

Bytes(b) == source.batches[b].nbytes
AtEnd == taken = Len(source.batches)

Init ==
    /\ source \in Sources /\ config \in Configs
    /\ taken = 0 /\ queue = <<>> /\ reserved = 0 /\ count = 0
    /\ closed = FALSE /\ cancelled = FALSE /\ failure = NoError
    /\ asleep = {} /\ producer = "off" /\ consumer = "start"
    /\ held = NoBatch /\ processed = 0 /\ error = NoError

-----------------------------------------------------------------------------
(* The producer thread: produce().                                          *)

Awake(t) == t \notin asleep

\* Mutant of HasSpace: the batch about to be built is not reserved for.
HasSpaceFull ==
    cancelled \/ (count < config.queue_batches /\ reserved <= config.inflight_bytes)

\* producer_has_space()
HasSpace ==
    cancelled \/ (/\ count < config.queue_batches
                  /\ reserved + MaxBatchBytes <= config.inflight_bytes)

ProducerWaits ==
    /\ producer = "reserve" /\ Awake("producer") /\ ~HasSpace
    /\ asleep' = asleep \cup {"producer"}
    /\ UNCHANGED <<source, config, taken, queue, reserved, count, closed, cancelled,
                   failure, producer, consumer, held, processed, error>>

Reserve ==
    /\ producer = "reserve" /\ Awake("producer") /\ HasSpace
    /\ IF cancelled
       THEN producer' = "close" /\ UNCHANGED <<reserved, count>>
       ELSE /\ producer' = "build"
            /\ reserved' = reserved + MaxBatchBytes
            /\ count' = count + 1
    /\ UNCHANGED <<source, config, taken, queue, closed, cancelled, failure, asleep,
                   consumer, held, processed, error>>

\* next(iterator), outside the lock.
Build ==
    /\ producer = "build" /\ ~AtEnd /\ Bytes(taken + 1) <= MaxBatchBytes
    /\ taken' = taken + 1
    /\ producer' = "append"
    /\ UNCHANGED <<source, config, shared, consumer, held, processed, error>>

\* The end of the source, or an error: the thread goes to its finally clause.
BuildEnds ==
    /\ producer = "build"
    /\ \/ AtEnd /\ failure' = IF source.ends = "error" THEN "source" ELSE failure
       \/ ~AtEnd /\ Bytes(taken + 1) > MaxBatchBytes /\ failure' = "oversize"
    /\ producer' = "close"
    /\ UNCHANGED <<source, config, taken, queue, reserved, count, closed, cancelled,
                   asleep, consumer, held, processed, error>>

Enqueue ==
    /\ producer = "append"
    /\ reserved' = reserved - (MaxBatchBytes - Bytes(taken))
    /\ queue' = Append(queue, taken)
    /\ asleep' = {}
    /\ producer' = "reserve"
    /\ UNCHANGED <<source, config, taken, count, closed, cancelled, failure,
                   consumer, held, processed, error>>

Close ==
    /\ producer = "close"
    /\ closed' = TRUE /\ asleep' = {}
    /\ producer' = "done"
    /\ UNCHANGED <<source, config, taken, queue, reserved, count, cancelled, failure,
                   consumer, held, processed, error>>

-----------------------------------------------------------------------------
(* The calling thread.                                                      *)

Start ==
    /\ consumer = "start"
    /\ IF config.prefetch
       THEN consumer' = "get" /\ producer' = "reserve"
       ELSE consumer' = "next" /\ UNCHANGED producer
    /\ UNCHANGED <<source, config, taken, shared, held, processed, error>>

\* Without prefetch: next(iterator) on the calling thread.
NextBatch ==
    /\ consumer = "next" /\ ~AtEnd
    /\ taken' = taken + 1 /\ held' = taken + 1
    /\ consumer' = "consume"
    /\ UNCHANGED <<source, config, shared, producer, processed, error>>

NextEnds ==
    /\ consumer = "next" /\ AtEnd
    /\ IF source.ends = "error"
       THEN consumer' = "raised" /\ error' = "source"
       ELSE consumer' = "finish" /\ UNCHANGED error
    /\ UNCHANGED <<source, config, taken, shared, producer, held, processed>>

HasWork == queue # <<>> \/ closed

ConsumerWaits ==
    /\ consumer = "get" /\ Awake("consumer") /\ ~HasWork
    /\ asleep' = asleep \cup {"consumer"}
    /\ UNCHANGED <<source, config, taken, queue, reserved, count, closed, cancelled,
                   failure, producer, consumer, held, processed, error>>

Get ==
    /\ consumer = "get" /\ Awake("consumer") /\ queue # <<>>
    /\ held' = Head(queue) /\ queue' = Tail(queue)
    /\ consumer' = "consume"
    /\ UNCHANGED <<source, config, taken, reserved, count, closed, cancelled, failure,
                   asleep, producer, processed, error>>

\* Mutant of Drained: a failure is raised at once.
DrainedOrFailed == failure # NoError \/ (queue = <<>> /\ closed)

\* A failure of the producer is raised when the queue is empty.
Drained == queue = <<>> /\ closed

GetEnds ==
    /\ consumer = "get" /\ Awake("consumer") /\ Drained
    /\ error' = failure
    /\ consumer' = "cancel"
    /\ UNCHANGED <<source, config, taken, shared, producer, held, processed>>

\* consume(): the checks, then process_batch(), which may raise.
Defect ==
    IF source.batches[held].sequence # processed THEN "sequence"
    ELSE IF Bytes(held) > MaxBatchBytes THEN "oversize" ELSE NoError

Process ==
    /\ consumer = "consume" /\ Defect = NoError
    /\ processed' = processed + 1
    /\ IF config.prefetch THEN consumer' = "release" /\ UNCHANGED held
                          ELSE consumer' = "next" /\ held' = NoBatch
    /\ UNCHANGED <<source, config, taken, shared, producer, error>>

Refuse ==
    /\ consumer = "consume"
    /\ error' = IF Defect = NoError THEN "refused" ELSE Defect
    /\ consumer' = IF config.prefetch THEN "cancel" ELSE "raised"
    /\ UNCHANGED <<source, config, taken, shared, producer, held, processed>>

\* Mutant of Release: the batch is released without notify_all().
ReleaseQuietly ==
    /\ consumer = "release"
    /\ reserved' = reserved - Bytes(held) /\ count' = count - 1
    /\ held' = NoBatch
    /\ consumer' = "get"
    /\ UNCHANGED <<source, config, taken, queue, closed, cancelled, failure, asleep,
                   producer, processed, error>>

Release ==
    /\ consumer = "release"
    /\ reserved' = reserved - Bytes(held) /\ count' = count - 1 /\ asleep' = {}
    /\ held' = NoBatch
    /\ consumer' = "get"
    /\ UNCHANGED <<source, config, taken, queue, closed, cancelled, failure,
                   producer, processed, error>>

\* The finally clause: wake the producer, then join it.
Cancel ==
    /\ consumer = "cancel"
    /\ cancelled' = TRUE /\ asleep' = {}
    /\ consumer' = "join"
    /\ UNCHANGED <<source, config, taken, queue, reserved, count, closed, failure,
                   producer, held, processed, error>>

Join ==
    /\ consumer = "join" /\ producer = "done"
    /\ consumer' = IF error = NoError THEN "finish" ELSE "raised"
    /\ UNCHANGED <<source, config, taken, shared, producer, held, processed, error>>

Finish ==
    /\ consumer = "finish"
    /\ \/ consumer' = "returned" /\ UNCHANGED error
       \/ consumer' = "raised" /\ error' = "finish"
    /\ UNCHANGED <<source, config, taken, shared, producer, held, processed>>

-----------------------------------------------------------------------------

Produce == ProducerWaits \/ Reserve \/ Build \/ BuildEnds \/ Enqueue \/ Close

Consume ==
    \/ Start \/ NextBatch \/ NextEnds \/ ConsumerWaits \/ Get \/ GetEnds
    \/ Process \/ Refuse \/ Release \/ Cancel \/ Join \/ Finish

Returned == consumer \in {"returned", "raised"}

Next == Produce \/ Consume \/ (Returned /\ UNCHANGED vars)

\* Both threads are scheduled, and next(iterator) and process_batch() return.
Spec == Init /\ [][Next]_vars /\ WF_vars(Produce) /\ WF_vars(Consume)

-----------------------------------------------------------------------------
(* Properties.                                                              *)

\* A thread sleeps only while what it waits for is false: whoever makes it true
\* notifies, so no wake-up is lost however the two threads interleave.
NoLostWakeup ==
    /\ "producer" \in asleep => producer = "reserve" /\ ~HasSpace
    /\ "consumer" \in asleep => consumer = "get" /\ ~HasWork

\* Batches the consumer is finished with, and batches taken since then.
Done == IF consumer = "release" THEN processed - 1 ELSE processed
InHand == IF held = NoBatch THEN 0 ELSE 1

\* The batches between the iterator and the simulator are those taken and not
\* finished with, in the order of the source: the one held, the queued ones,
\* the one about to be appended.
InOrder ==
    /\ held # NoBatch => held = Done + 1
    /\ queue = [i \in 1 .. Len(queue) |-> Done + InHand + i]
    /\ taken = Done + InHand + Len(queue) + (IF producer = "append" THEN 1 ELSE 0)

\* The bytes of the batches first .. last of the source.
BytesOf(first, last) ==
    LET upTo[k \in 0 .. last] ==
            IF k < first THEN 0 ELSE upTo[k - 1] + Bytes(k)
    IN  upTo[last]

Building == IF producer = "build" THEN 1 ELSE 0

\* What is built, queued or being processed never exceeds the configured bytes
\* and number of batches, the producer's unfinished batch counted at its
\* largest size; and while the producer works the counters say exactly that:
\* what a batch takes less than the maximum is given back, and so is a batch
\* that was processed.
InflightExact ==
    LET batches == taken - Done + Building
        bytes == BytesOf(Done + 1, taken) + Building * MaxBatchBytes
    IN  /\ config.prefetch =>
              batches <= config.queue_batches /\ bytes <= config.inflight_bytes
        /\ producer \in {"reserve", "build", "append"} =>
              /\ count = batches
              /\ reserved = bytes + (IF producer = "append"
                                    THEN MaxBatchBytes - Bytes(taken) ELSE 0)

\* replay_batches() keeps the promise of Replay, with and without prefetch.
Promise == INSTANCE Replay WITH
    outcome <- IF consumer = "returned" THEN "finished"
               ELSE IF consumer = "raised" THEN "raised" ELSE "running",
    error <- IF consumer = "raised" THEN error ELSE NoError

ImplementsReplay == Promise!Spec
=============================================================================
