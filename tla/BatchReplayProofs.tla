------------------------- MODULE BatchReplayProofs -------------------------
(* Proofs about BatchReplay, for every set of sources and configurations.   *)
EXTENDS BatchReplay, SequenceTheorems, FiniteSetTheorems, TLAPS

Typed ==
    /\ source \in Sources /\ config \in Configs
    /\ taken \in Nat /\ taken <= Len(source.batches)
    /\ queue \in Seq(Nat)
    /\ reserved \in Int /\ count \in Int
    /\ closed \in BOOLEAN /\ cancelled \in BOOLEAN
    /\ failure \in {NoError, "source", "oversize"}
    /\ asleep \subseteq Thread
    /\ producer \in {"off", "reserve", "build", "append", "close", "done"}
    /\ consumer \in {"start", "next", "get", "consume", "release", "cancel", "join",
                     "finish", "returned", "raised"}
    /\ held \in Nat /\ processed \in Nat
    /\ error \in {NoError, "source", "oversize", "sequence", "refused", "finish"}

\* InOrder, element by element.
Ordered ==
    /\ held # NoBatch => held = Done + 1
    /\ \A i \in 1 .. Len(queue) : queue[i] = Done + InHand + i
    /\ taken = Done + InHand + Len(queue) + (IF producer = "append" THEN 1 ELSE 0)

\* Which places of the two threads go together.
Places ==
    /\ config.prefetch => consumer # "next"
    /\ ~config.prefetch =>
          /\ producer = "off" /\ queue = <<>> /\ asleep = {}
          /\ consumer \notin {"get", "release", "cancel", "join"}
    /\ consumer = "start" => producer = "off"
    /\ config.prefetch /\ consumer # "start" => producer # "off"
    /\ closed <=> producer = "done"
    /\ cancelled => consumer \in {"join", "finish", "returned", "raised"}
    /\ consumer \in {"start", "next", "get"} => held = NoBatch
    /\ consumer \in {"consume", "release"} => held # NoBatch

\* What the producer's failure and the error on its way to the caller mean.
Justified ==
    /\ failure # NoError => producer \in {"close", "done"}
    /\ failure = "source" => AtEnd /\ source.ends = "error"
    /\ failure = "oversize" => ~AtEnd /\ Bytes(taken + 1) > MaxBatchBytes
    /\ producer \in {"close", "done"} /\ failure = NoError =>
          cancelled \/ (AtEnd /\ source.ends = "eof")
    /\ consumer \in {"start", "next", "get", "consume", "release"} => error = NoError
    /\ consumer \in {"cancel", "join"} =>
          IF error = NoError THEN Promise!Errors(processed) = {"finish"}
                             ELSE error \in Promise!Errors(processed)
    /\ consumer \in {"finish", "returned"} =>
          error = NoError /\ Promise!Errors(processed) = {"finish"}

IInv == Typed /\ Ordered /\ Places /\ NoLostWakeup /\ Justified

-----------------------------------------------------------------------------

\* The source of a call is a finite sequence of batches with a size.
LEMMA SourceType ==
    ASSUME Typed
    PROVE  /\ source.batches \in Seq(Batch) /\ Len(source.batches) \in Nat
           /\ source.ends \in {"eof", "error"}
           /\ config.prefetch \in BOOLEAN
           /\ MaxBatchBytes \in Nat
           /\ \A b \in 1 .. Len(source.batches) :
                 Bytes(b) \in Nat /\ source.batches[b].sequence \in Nat
  <1>1. source \in [batches : Seq(Batch), ends : {"eof", "error"}]
        /\ config \in [prefetch : BOOLEAN, queue_batches : Nat \ {0},
                       inflight_bytes : {n \in Nat : MaxBatchBytes <= n}]
        /\ MaxBatchBytes \in Nat
    BY BatchReplayAssumption DEF Typed
  <1>2. source.batches \in Seq(Batch) /\ Len(source.batches) \in Nat
    BY <1>1
  <1>3. \A b \in 1 .. Len(source.batches) : source.batches[b] \in Batch
    BY <1>2
  <1> QED
    BY <1>1, <1>2, <1>3 DEF Batch, Bytes

\* The initial state satisfies the invariant.
LEMMA InitIInv == Init => IInv
  <1> SUFFICES ASSUME Init PROVE IInv
    OBVIOUS
  <1>1. Typed
    <2>1. source.batches \in Seq(Batch)
      <3>1. source \in [batches : Seq(Batch), ends : {"eof", "error"}]
        BY BatchReplayAssumption DEF Init
      <3> QED
        BY <3>1
    <2>2. Len(source.batches) \in Nat
      BY <2>1
    <2>3. asleep \subseteq Thread /\ queue \in Seq(Nat)
      BY DEF Init
    <2>4. /\ taken \in Nat /\ taken <= Len(source.batches) /\ reserved \in Int /\ count \in Int
          /\ held \in Nat /\ processed \in Nat
      BY <2>2 DEF Init, NoBatch
    <2> QED
      BY <2>3, <2>4 DEF Init, Typed
  <1>2. Ordered
    BY DEF Init, Ordered, Done, InHand, NoBatch
  <1>3. Places /\ NoLostWakeup /\ Justified
    BY <1>1 DEF Init, Places, NoLostWakeup, Justified, NoError, NoBatch, Typed
  <1> QED
    BY <1>1, <1>2, <1>3 DEF IInv

\* Every step of the producer keeps the invariant.
LEMMA ProduceIInv == IInv /\ Produce => IInv'
  <1> SUFFICES ASSUME IInv, Produce PROVE IInv'
    OBVIOUS
  <1> USE DEF IInv
  <1>0. /\ source.batches \in Seq(Batch) /\ Len(source.batches) \in Nat
        /\ MaxBatchBytes \in Nat
        /\ \A b \in 1 .. Len(source.batches) : Bytes(b) \in Nat
    BY SourceType
  <1>1. CASE ProducerWaits
    <2>1. Typed'
      BY <1>1 DEF ProducerWaits, Typed, Thread
    <2>2. Ordered' /\ Places'
      BY <1>1 DEF ProducerWaits, Ordered, Places, Done, InHand
    <2>3. NoLostWakeup'
      BY <1>1 DEF ProducerWaits, NoLostWakeup, HasSpace, HasWork
    <2>4. Justified'
      BY <1>1 DEF ProducerWaits, Justified, AtEnd, Bytes, Promise!Errors
    <2> QED
      BY <2>1, <2>2, <2>3, <2>4
  <1>2. CASE Reserve
    <2>1. Typed'
      BY <1>0, <1>2 DEF Reserve, Typed
    <2>2. Ordered' /\ Places'
      BY <1>2 DEF Reserve, Ordered, Places, Done, InHand
    <2>3. NoLostWakeup'
      BY <1>2 DEF Reserve, NoLostWakeup, HasWork, Awake
    <2>4. Justified'
      BY <1>2 DEF Reserve, Justified, AtEnd, Bytes, Promise!Errors
    <2> QED
      BY <2>1, <2>2, <2>3, <2>4
  <1>3. CASE Build
    <2>1. Typed'
      BY <1>0, <1>3 DEF Build, Typed, AtEnd, shared
    <2>2. Ordered' /\ Places'
      BY <1>3 DEF Build, Ordered, Places, Done, InHand, shared, Typed
    <2>3. NoLostWakeup'
      BY <1>3 DEF Build, NoLostWakeup, HasWork, shared
    <2>4. Justified'
      <3>1. failure = NoError /\ failure' = failure
        BY <1>3 DEF Build, Justified, shared
      <3> QED
        BY <1>3, <3>1 DEF Build, Justified, Promise!Errors, shared, NoError
    <2> QED
      BY <2>1, <2>2, <2>3, <2>4
  <1>4. CASE BuildEnds
    <2>1. Typed'
      BY <1>4 DEF BuildEnds, Typed
    <2>2. Ordered' /\ Places'
      BY <1>4 DEF BuildEnds, Ordered, Places, Done, InHand
    <2>3. NoLostWakeup'
      BY <1>4 DEF BuildEnds, NoLostWakeup, HasWork
    <2>4. Justified'
      BY <1>0, <1>4, SourceType
         DEF BuildEnds, Justified, AtEnd, Bytes, NoError, Promise!Errors
    <2> QED
      BY <2>1, <2>2, <2>3, <2>4
  <1>5. CASE Enqueue
    <2>0. taken \in 1 .. Len(source.batches)
      <3>1. /\ taken = Done + InHand + Len(queue) + 1 /\ Len(queue) \in Nat
            /\ taken \in Nat /\ taken <= Len(source.batches)
        BY <1>5 DEF Enqueue, Ordered, Typed
      <3>2. Done \in Int /\ Done + InHand >= 0 /\ InHand \in Int
        BY DEF Places, Typed, Done, InHand
      <3> QED
        BY <1>0, <3>1, <3>2
    <2>1. Typed'
      BY <1>0, <1>5, <2>0 DEF Enqueue, Typed
    <2>2. Ordered'
      <3>1. /\ Len(queue') = Len(queue) + 1
            /\ \A i \in 1 .. Len(queue) : queue'[i] = queue[i]
            /\ queue'[Len(queue) + 1] = taken
        BY <1>5 DEF Enqueue, Typed
      <3>2. Done' = Done /\ InHand' = InHand /\ taken' = taken /\ held' = held
        BY <1>5 DEF Enqueue, Done, InHand
      <3>3. taken = Done + InHand + Len(queue) + 1
        BY <1>5 DEF Enqueue, Ordered
      <3>4. Done \in Int /\ InHand \in Int /\ Len(queue) \in Nat
        BY DEF Typed, Done, InHand
      <3>5. \A i \in 1 .. Len(queue) + 1 : queue'[i] = Done + InHand + i
        BY <3>1, <3>3, <3>4 DEF Ordered
      <3>6. taken' = Done' + InHand' + Len(queue') + 0 /\ producer' # "append"
        BY <1>5, <3>1, <3>2, <3>3, <3>4 DEF Enqueue
      <3> QED
        BY <3>1, <3>2, <3>5, <3>6 DEF Ordered
    <2>3. Places' /\ NoLostWakeup'
      BY <1>5 DEF Enqueue, Places, NoLostWakeup
    <2>4. Justified'
      BY <1>5 DEF Enqueue, Justified, AtEnd, Bytes, Promise!Errors
    <2> QED
      BY <2>1, <2>2, <2>3, <2>4
  <1>6. CASE Close
    <2>1. Typed'
      BY <1>6 DEF Close, Typed
    <2>2. Ordered'
      BY <1>6 DEF Close, Ordered, Done, InHand
    <2>3. Places' /\ NoLostWakeup'
      BY <1>6 DEF Close, Places, NoLostWakeup
    <2>4. Justified'
      BY <1>6 DEF Close, Justified, AtEnd, Bytes, Promise!Errors
    <2> QED
      BY <2>1, <2>2, <2>3, <2>4
  <1> QED
    BY <1>1, <1>2, <1>3, <1>4, <1>5, <1>6 DEF Produce

\* The numbers the consumer's bookkeeping is made of.
LEMMA DoneType ==
    ASSUME IInv
    PROVE  /\ Done \in Nat /\ InHand \in 0 .. 1 /\ Len(queue) \in Nat
           /\ Done + InHand + Len(queue) <= taken
           /\ held # NoBatch => held \in 1 .. Len(source.batches) /\ InHand = 1
  <1>1. /\ processed \in Nat /\ held \in Nat /\ taken \in Nat /\ queue \in Seq(Nat)
        /\ taken <= Len(source.batches) /\ Len(queue) \in Nat
        /\ Len(source.batches) \in Nat
    BY SourceType DEF IInv, Typed
  <1>2. consumer = "release" => held = processed /\ held # 0
    BY <1>1 DEF IInv, Places, Ordered, Done, NoBatch
  <1>3. Done \in Nat /\ InHand \in 0 .. 1
    BY <1>1, <1>2 DEF Done, InHand
  <1>4. Done + InHand + Len(queue) <= taken
    BY <1>1, <1>3 DEF IInv, Ordered
  <1>5. held # NoBatch => held = Done + 1 /\ InHand = 1
    BY DEF IInv, Ordered, InHand
  <1> QED
    BY <1>1, <1>3, <1>4, <1>5

\* What may be raised of the batch in hand, and what may be raised at the end.
LEMMA DefectIsError ==
    ASSUME IInv, consumer = "consume"
    PROVE  /\ Promise!Errors(processed) =
                 IF Defect = NoError THEN {"refused"} ELSE Promise!Errors(processed)
           /\ Defect # NoError => Defect \in Promise!Errors(processed)
           /\ Defect \in {NoError, "sequence", "oversize"}
  <1>1. /\ held = processed + 1 /\ held \in 1 .. Len(source.batches) /\ processed \in Nat
        /\ processed # Len(source.batches)
    BY DoneType, SourceType DEF IInv, Places, Ordered, Done, Typed
  <1>2. Promise!Errors(processed) =
            LET batch == source.batches[held]
                bad == (IF batch.sequence # processed THEN {"sequence"} ELSE {})
                          \cup (IF batch.nbytes > MaxBatchBytes THEN {"oversize"} ELSE {})
            IN  IF bad = {} THEN {"refused"} ELSE bad
    BY <1>1 DEF Promise!Errors
  <1> QED
    BY <1>2 DEF Defect, Bytes, NoError

\* When everything taken was processed and the producer is done for a reason
\* of the source, that reason is what the caller may see.
LEMMA EndIsError ==
    ASSUME IInv, AtEnd, taken = processed
    PROVE  Promise!Errors(processed) =
              IF source.ends = "error" THEN {"source"} ELSE {"finish"}
  BY DEF AtEnd, Promise!Errors

\* Every step of the calling thread keeps the invariant.
LEMMA ConsumeIInv == IInv /\ Consume => IInv'
  <1> SUFFICES ASSUME IInv, Consume PROVE IInv'
    OBVIOUS
  <1>0. /\ Typed /\ Ordered /\ Places /\ NoLostWakeup /\ Justified
        /\ Done \in Nat /\ InHand \in 0 .. 1 /\ Len(queue) \in Nat
        /\ Done + InHand + Len(queue) <= taken
        /\ processed \in Nat /\ taken \in Nat /\ taken <= Len(source.batches)
        /\ Len(source.batches) \in Nat /\ queue \in Seq(Nat)
    BY DoneType, SourceType DEF IInv, Typed
  <1>i. ASSUME Typed', Ordered', Places', NoLostWakeup', Justified'
        PROVE  IInv'
    BY <1>i DEF IInv
  <1>1. CASE Start
    <2>1. Typed' /\ Ordered'
      <3>1. Typed'
        BY <1>0, <1>1 DEF Start, Typed, shared
      <3>2. producer # "append" /\ producer' # "append" /\ Done' = Done /\ InHand' = InHand
        BY <1>0, <1>1 DEF Start, Places, Done, InHand
      <3>3. UNCHANGED <<held, queue, taken>>
        BY <1>1 DEF Start, shared
      <3>4. Ordered'
        BY <1>0, <3>2, <3>3 DEF Ordered
      <3> QED
        BY <3>1, <3>4
    <2>2. Places' /\ NoLostWakeup'
      <3>1. "consumer" \notin asleep' /\ "producer" \notin asleep'
        BY <1>0, <1>1 DEF Start, Places, NoLostWakeup, shared
      <3>2. Places'
        BY <1>0, <1>1, SourceType DEF Start, Places, shared
      <3> QED
        BY <3>1, <3>2 DEF NoLostWakeup
    <2>3. Justified'
      BY <1>0, <1>1 DEF Start, Justified, Places, AtEnd, Bytes, Promise!Errors, shared
    <2> QED
      BY <2>1, <2>2, <2>3, <1>i
  <1>2. CASE NextBatch
    <2>1. Typed' /\ Ordered'
      <3>1. Typed'
        BY <1>0, <1>2 DEF NextBatch, Typed, AtEnd, shared
      <3>2. /\ producer = "off" /\ producer' = "off" /\ queue = <<>> /\ queue' = queue
            /\ held = NoBatch /\ InHand = 0 /\ Done = processed
        BY <1>0, <1>2, SourceType DEF NextBatch, Places, Done, InHand, shared
      <3>3. taken = processed
        BY <1>0, <3>2 DEF Ordered
      <3>4. /\ taken' = processed + 1 /\ held' = processed + 1 /\ Done' = processed
            /\ held' # NoBatch /\ InHand' = 1
        BY <1>0, <1>2, <3>3 DEF NextBatch, Done, InHand, NoBatch
      <3>5. Ordered'
        BY <1>0, <3>2, <3>4 DEF Ordered
      <3> QED
        BY <3>1, <3>5
    <2>2. Places' /\ NoLostWakeup'
      <3>1. asleep' = {}
        BY <1>0, <1>2, SourceType DEF NextBatch, Places, shared
      <3>2. held' # NoBatch
        BY <1>0, <1>2 DEF NextBatch, NoBatch
      <3>3. Places'
        BY <1>0, <1>2, <3>2 DEF NextBatch, Places, shared
      <3> QED
        BY <3>1, <3>3 DEF NoLostWakeup
    <2>3. Justified'
      <3>1. producer = "off" /\ failure = NoError
        BY <1>0, <1>2 DEF NextBatch, Places, Justified
      <3> QED
        BY <1>0, <1>2, <3>1 DEF NextBatch, Justified, Promise!Errors, shared, NoError
    <2> QED
      BY <2>1, <2>2, <2>3, <1>i
  <1>3. CASE NextEnds
    <2>1. Typed' /\ Ordered'
      BY <1>0, <1>3 DEF NextEnds, Typed, Ordered, Done, InHand, shared
    <2>2. Places' /\ NoLostWakeup'
      BY <1>0, <1>3 DEF NextEnds, Places, NoLostWakeup, HasWork, HasSpace, shared
    <2>3. Justified'
      <3>1. producer = "off" /\ failure = NoError /\ error = NoError
        BY <1>0, <1>3 DEF NextEnds, Places, Justified
      <3>2. taken = processed
        BY <1>0, <1>3 DEF NextEnds, Places, Ordered, Done, InHand
      <3>3. Promise!Errors(processed) = IF source.ends = "error" THEN {"source"} ELSE {"finish"}
        BY <1>3, <3>2, EndIsError DEF NextEnds
      <3> QED
        BY <1>0, <1>3, <3>1, <3>3
           DEF NextEnds, Justified, AtEnd, Bytes, Promise!Errors, shared, NoError
    <2> QED
      BY <2>1, <2>2, <2>3, <1>i
  <1>4. CASE ConsumerWaits
    <2>1. Typed' /\ Ordered'
      BY <1>0, <1>4 DEF ConsumerWaits, Typed, Ordered, Done, InHand, Thread
    <2>2. Places' /\ NoLostWakeup'
      BY <1>0, <1>4 DEF ConsumerWaits, Places, NoLostWakeup, HasWork, HasSpace
    <2>3. Justified'
      BY <1>0, <1>4 DEF ConsumerWaits, Justified, AtEnd, Bytes, Promise!Errors
    <2> QED
      BY <2>1, <2>2, <2>3, <1>i
  <1>5. CASE Get
    <2>0. held = NoBatch /\ InHand = 0 /\ Done = processed /\ config.prefetch
      BY <1>0, <1>5, SourceType DEF Get, Places, InHand, Done
    <2>1. /\ Len(queue) >= 1 /\ Head(queue) = queue[1] /\ queue' = Tail(queue)
          /\ Len(queue') = Len(queue) - 1
          /\ \A i \in 1 .. Len(queue) - 1 : queue'[i] = queue[i + 1] /\ i + 1 \in 1 .. Len(queue)
          /\ queue' \in Seq(Nat)
      BY <1>0, <1>5, EmptySeq DEF Get
    <2>2. held' = Done + 1 /\ Done' = Done /\ InHand' = 1 /\ held' # NoBatch /\ held' \in Nat
      <3>1. held' = Done + 1
        BY <1>0, <1>5, <2>0, <2>1 DEF Get, Ordered
      <3>2. held' # NoBatch /\ held' \in Nat
        BY <1>0, <3>1 DEF NoBatch
      <3> QED
        BY <1>5, <3>1, <3>2 DEF Get, Done, InHand
    <2>3. Typed'
      BY <1>0, <1>5, <2>1, <2>2 DEF Get, Typed
    <2>4. Ordered'
      <3>1. taken' = taken /\ producer' = producer
        BY <1>5 DEF Get
      <3>2. \A i \in 1 .. Len(queue) - 1 : queue[i + 1] = Done + 1 + i
        BY <1>0, <2>0, <2>1 DEF Ordered
      <3>3. \A i \in 1 .. Len(queue') : queue'[i] = Done' + InHand' + i
        BY <1>0, <2>1, <2>2, <3>2
      <3>4. taken' = Done' + InHand' + Len(queue') + (IF producer' = "append" THEN 1 ELSE 0)
        BY <1>0, <2>0, <2>1, <2>2, <3>1 DEF Ordered
      <3> QED
        BY <2>2, <3>3, <3>4 DEF Ordered
    <2>5. Places' /\ NoLostWakeup'
      <3>1. "consumer" \notin asleep'
        BY <1>5 DEF Get, Awake
      <3>2. HasSpace' <=> HasSpace
        BY <1>5 DEF Get, HasSpace
      <3>3. NoLostWakeup'
        BY <1>0, <1>5, <3>1, <3>2 DEF Get, NoLostWakeup
      <3>4. Places'
        BY <1>0, <1>5, <2>0, <2>2 DEF Get, Places
      <3> QED
        BY <3>3, <3>4
    <2>6. Justified'
      BY <1>0, <1>5 DEF Get, Justified, AtEnd, Bytes, Promise!Errors
    <2> QED
      BY <2>3, <2>4, <2>5, <2>6, <1>i
  <1>6. CASE GetEnds
    <2>1. Typed' /\ Ordered'
      BY <1>0, <1>6 DEF GetEnds, Typed, Ordered, Done, InHand, shared
    <2>2. Places' /\ NoLostWakeup'
      <3>1. "consumer" \notin asleep'
        BY <1>6 DEF GetEnds, Awake, shared
      <3>2. HasSpace' <=> HasSpace
        BY <1>6 DEF GetEnds, HasSpace, shared
      <3>3. NoLostWakeup'
        BY <1>0, <1>6, <3>1, <3>2 DEF GetEnds, NoLostWakeup, shared
      <3>4. Places'
        BY <1>0, <1>6, SourceType DEF GetEnds, Places, shared
      <3> QED
        BY <3>3, <3>4
    <2>3. Justified'
      <3>1. /\ queue = <<>> /\ producer = "done" /\ ~cancelled /\ held = NoBatch
            /\ error' = failure /\ consumer = "get" /\ consumer' = "cancel"
        BY <1>0, <1>6 DEF GetEnds, Drained, Places
      <3>2. taken = processed
        BY <1>0, <3>1 DEF Ordered, Done, InHand
      <3>3. IF error' = NoError THEN Promise!Errors(processed) = {"finish"}
                                ELSE error' \in Promise!Errors(processed)
        <4>1. CASE AtEnd
          <5>1. Promise!Errors(processed) =
                    IF source.ends = "error" THEN {"source"} ELSE {"finish"}
            BY <3>2, <4>1, EndIsError
          <5> QED
            BY <1>0, <3>1, <4>1, <5>1 DEF Typed, Justified, NoError
        <4>2. CASE ~AtEnd
          <5>1. failure = "oversize" /\ Bytes(processed + 1) > MaxBatchBytes
            BY <1>0, <3>1, <3>2, <4>2 DEF Typed, Justified, NoError
          <5>2. "oversize" \in Promise!Errors(processed)
            BY <3>2, <4>2, <5>1 DEF AtEnd, Bytes, Promise!Errors
          <5> QED
            BY <3>1, <5>1, <5>2 DEF NoError
        <4> QED
          BY <4>1, <4>2
      <3> QED
        BY <1>0, <1>6, <3>1, <3>3
           DEF GetEnds, Justified, AtEnd, Bytes, Promise!Errors, shared
    <2> QED
      BY <2>1, <2>2, <2>3, <1>i
  <1>7. CASE Process
    <2>0. held # NoBatch /\ held = processed + 1 /\ Done = processed /\ InHand = 1
      BY <1>0, <1>7 DEF Process, Places, Ordered, Done, InHand
    <2>1. Typed'
      BY <1>0, <1>7 DEF Process, Typed, shared, NoBatch
    <2>2. Ordered'
      <3>1. CASE config.prefetch
        BY <1>0, <1>7, <2>0, <3>1 DEF Process, Ordered, Done, InHand, shared
      <3>2. CASE ~config.prefetch
        BY <1>0, <1>7, <2>0, <3>2 DEF Process, Ordered, Places, Done, InHand, shared
      <3> QED
        BY <3>1, <3>2
    <2>3. Places' /\ NoLostWakeup'
      BY <1>0, <1>7 DEF Process, Places, NoLostWakeup, HasSpace, HasWork, shared
    <2>4. Justified'
      BY <1>0, <1>7 DEF Process, Justified, AtEnd, Bytes, Promise!Errors, shared
    <2> QED
      BY <2>1, <2>2, <2>3, <2>4, <1>i
  <1>8. CASE Refuse
    <2>0. consumer = "consume" /\ error' # NoError /\ error' \in Promise!Errors(processed)
          /\ error' \in {"sequence", "oversize", "refused"}
      BY <1>8, DefectIsError DEF Refuse, NoError
    <2>1. Typed' /\ Ordered'
      BY <1>0, <1>8, <2>0 DEF Refuse, Typed, Ordered, Done, InHand, shared
    <2>2. Places' /\ NoLostWakeup'
      BY <1>0, <1>8 DEF Refuse, Places, NoLostWakeup, HasSpace, HasWork, shared
    <2>3. Justified'
      BY <1>0, <1>8, <2>0 DEF Refuse, Justified, AtEnd, Bytes, Promise!Errors, shared
    <2> QED
      BY <2>1, <2>2, <2>3, <1>i
  <1>9. CASE Release
    <2>0. /\ held # NoBatch /\ held = processed /\ Done = processed - 1 /\ InHand = 1
          /\ held \in 1 .. Len(source.batches)
      <3>1. held # NoBatch /\ held = Done + 1 /\ Done = processed - 1 /\ InHand = 1
        BY <1>0, <1>9 DEF Release, Places, Ordered, Done, InHand
      <3> QED
        BY <1>0, <3>1, DoneType
    <2>1. Typed'
      BY <1>0, <1>9, <2>0, SourceType DEF Release, Typed, NoBatch
    <2>2. Ordered'
      <3>1. Done' = processed /\ InHand' = 0 /\ held' = NoBatch
        BY <1>9 DEF Release, Done, InHand
      <3>2. Done' + InHand' = Done + InHand
        BY <1>0, <2>0, <3>1
      <3> QED
        BY <1>0, <1>9, <3>1, <3>2 DEF Release, Ordered
    <2>3. Places' /\ NoLostWakeup'
      BY <1>0, <1>9 DEF Release, Places, NoLostWakeup
    <2>4. Justified'
      BY <1>0, <1>9 DEF Release, Justified, AtEnd, Bytes, Promise!Errors
    <2> QED
      BY <2>1, <2>2, <2>3, <2>4, <1>i
  <1>10. CASE Cancel
    <2>1. Typed' /\ Ordered'
      BY <1>0, <1>10 DEF Cancel, Typed, Ordered, Done, InHand
    <2>2. Places' /\ NoLostWakeup'
      BY <1>0, <1>10 DEF Cancel, Places, NoLostWakeup
    <2>3. Justified'
      BY <1>0, <1>10 DEF Cancel, Justified, AtEnd, Bytes, Promise!Errors
    <2> QED
      BY <2>1, <2>2, <2>3, <1>i
  <1>11. CASE Join
    <2>1. Typed' /\ Ordered'
      BY <1>0, <1>11 DEF Join, Typed, Ordered, Done, InHand, shared
    <2>2. Places' /\ NoLostWakeup'
      BY <1>0, <1>11 DEF Join, Places, NoLostWakeup, HasSpace, HasWork, shared
    <2>3. Justified'
      BY <1>0, <1>11 DEF Join, Justified, AtEnd, Bytes, Promise!Errors, shared
    <2> QED
      BY <2>1, <2>2, <2>3, <1>i
  <1>12. CASE Finish
    <2>1. Typed' /\ Ordered'
      <3>1. Typed'
        BY <1>0, <1>12 DEF Finish, Typed, shared
      <3>2. Ordered'
        BY <1>0, <1>12 DEF Finish, Ordered, Done, InHand, shared
      <3> QED
        BY <3>1, <3>2
    <2>2. Places' /\ NoLostWakeup'
      BY <1>0, <1>12 DEF Finish, Places, NoLostWakeup, HasSpace, HasWork, shared
    <2>3. UNCHANGED <<source, config, taken, processed, producer, queue, failure, cancelled>>
      BY <1>12 DEF Finish, shared
    <2>4. /\ consumer = "finish"
          /\ \/ consumer' = "returned" /\ error' = error
             \/ consumer' = "raised" /\ error' = "finish"
      BY <1>12 DEF Finish
    <2>5. Justified'
      BY <1>0, <2>3, <2>4 DEF Justified, AtEnd, Bytes, Promise!Errors
    <2> QED
      BY <2>1, <2>2, <2>5, <1>i
  <1> QED
    BY <1>1, <1>2, <1>3, <1>4, <1>5, <1>6, <1>7, <1>8, <1>9, <1>10, <1>11, <1>12
       DEF Consume

\* Hence the invariant holds in every reachable state.
LEMMA Invariance == Spec => []IInv
  <1>1. IInv /\ [Next]_vars => IInv'
    <2> SUFFICES ASSUME IInv, [Next]_vars PROVE IInv'
      OBVIOUS
    <2>1. CASE UNCHANGED vars
      <3>1. Typed' /\ Places'
        BY <2>1 DEF vars, IInv, Typed, Places
      <3>2. Ordered'
        BY <2>1 DEF vars, IInv, Ordered, Done, InHand
      <3>3. NoLostWakeup'
        BY <2>1 DEF vars, IInv, NoLostWakeup, HasSpace, HasWork
      <3>4. Justified'
        BY <2>1 DEF vars, IInv, Justified, AtEnd, Bytes, Promise!Errors
      <3> QED
        BY <3>1, <3>2, <3>3, <3>4 DEF IInv
    <2> QED
      BY <2>1, ProduceIInv, ConsumeIInv DEF Next
  <1> QED
    BY <1>1, InitIInv, PTL DEF Spec

\* No wake-up is lost: whenever a thread is inside Condition.wait(), what it
\* waits for is false.
THEOREM WakeupsKept == Spec => []NoLostWakeup
  <1>1. IInv => NoLostWakeup
    BY DEF IInv
  <1> QED
    BY <1>1, Invariance, PTL

\* The batches between the iterator and the simulator are kept in order, none
\* is lost and none is there twice.
THEOREM OrderKept == Spec => []InOrder
  <1>1. IInv => InOrder
    <2> SUFFICES ASSUME IInv PROVE InOrder
      OBVIOUS
    <2>1. queue \in Seq(Nat) /\ queue = [i \in 1 .. Len(queue) |-> queue[i]]
      BY DEF IInv, Typed
    <2>2. queue = [i \in 1 .. Len(queue) |-> Done + InHand + i]
      BY <2>1 DEF IInv, Ordered
    <2> QED
      BY <2>2 DEF InOrder, IInv, Ordered
  <1> QED
    BY <1>1, Invariance, PTL

-----------------------------------------------------------------------------

Outcome == IF consumer = "returned" THEN "finished"
           ELSE IF consumer = "raised" THEN "raised" ELSE "running"
Raised == IF consumer = "raised" THEN error ELSE NoError

\* A step of the producer is invisible to the caller.
LEMMA ProduceStutters == IInv /\ Produce => UNCHANGED <<source, processed, Outcome, Raised>>
  BY DEF Produce, ProducerWaits, Reserve, Build, BuildEnds, Enqueue, Close, shared, Outcome,
     Raised

\* A step of the calling thread is a step of Replay or invisible.
LEMMA ConsumeRefines ==
    ASSUME IInv, Consume
    PROVE  Promise!Next \/ UNCHANGED <<source, processed, Outcome, Raised>>
  <1>1. CASE Process
    <2>1. consumer = "consume" /\ Defect = NoError
      BY <1>1 DEF Process
    <2>2. Promise!Errors(processed) = {"refused"}
      BY <2>1, DefectIsError
    <2> QED
      BY <1>1, <2>2 DEF Process, Promise!Next, Promise!Process, shared
  <1>2. CASE Refuse
    <2>1. error' \in Promise!Errors(processed)
      BY <1>2, DefectIsError DEF Refuse
    <2> QED
      BY <1>2, <2>1 DEF Refuse, Promise!Next, Promise!Raise, shared, Outcome, Raised
  <1>3. CASE NextEnds
    <2>1. taken = processed
      BY <1>3 DEF IInv, NextEnds, Places, Ordered, Done, InHand, Typed
    <2>2. Promise!Errors(processed) = IF source.ends = "error" THEN {"source"} ELSE {"finish"}
      BY <1>3, <2>1, EndIsError DEF NextEnds
    <2> QED
      BY <1>3, <2>2 DEF NextEnds, Promise!Next, Promise!Raise, shared, Outcome, Raised
  <1>4. CASE Join
    BY <1>4 DEF IInv, Justified, Join, Promise!Next, Promise!Raise, shared, Outcome, Raised
  <1>5. CASE Finish
    BY <1>5 DEF IInv, Justified, Finish, Promise!Next, Promise!Raise, Promise!Finish, shared,
       Outcome, Raised
  <1>6. CASE Start \/ NextBatch \/ ConsumerWaits \/ Get \/ GetEnds \/ Release \/ Cancel
    BY <1>6 DEF Start, NextBatch, ConsumerWaits, Get, GetEnds, Release, Cancel, shared,
       Outcome, Raised
  <1> QED
    BY <1>1, <1>2, <1>3, <1>4, <1>5, <1>6 DEF Consume

\* replay_batches() implements Replay, with and without prefetch: every error
\* surfaces after the batches before it, and finish() is called only at the
\* end of the source.  This is the safety part of ImplementsReplay.
THEOREM ReplayImplemented == Spec => Promise!Init /\ [][Promise!Next]_(Promise!vars)
  <1>1. Init => Promise!Init
    BY DEF Init, Promise!Init, NoError, Promise!NoError
  <1>2. IInv /\ [Next]_vars => [Promise!Next]_(Promise!vars)
    <2> SUFFICES ASSUME IInv, [Next]_vars
                 PROVE  Promise!Next \/ UNCHANGED <<source, processed, Outcome, Raised>>
      BY DEF Promise!vars, Outcome, Raised
    <2>1. CASE UNCHANGED vars
      BY <2>1 DEF vars, Outcome, Raised
    <2> QED
      BY <2>1, ProduceStutters, ConsumeRefines DEF Next
  <1> QED
    BY <1>1, <1>2, Invariance, PTL DEF Spec

-----------------------------------------------------------------------------
(* The bytes in flight.  BytesOf is a sum, so its laws are shown by         *)
(* considering the least number for which they would fail.                  *)

\* A set of natural numbers has a least element.
LEMMA LeastNatural ==
  ASSUME NEW T \in SUBSET Nat, T # {}
  PROVE  \E x \in T : \A y \in T : x <= y
  <1> DEFINE R == StrictSubsetOrdering(Nat)
             U == {0 .. x : x \in T}
  <1>1. U \subseteq FiniteSubsetsOf(Nat) /\ U # {}
    <2>1. ASSUME NEW x \in T PROVE 0 .. x \subseteq Nat /\ IsFiniteSet(0 .. x)
      BY FS_Interval
    <2> QED BY <2>1 DEF FiniteSubsetsOf
  <1>2. \E a \in U : \A b \in U : ~(<<b, a>> \in R)
    <2> HIDE DEF R, U
    <2> QED BY <1>1, FS_StrictSubsetOrderingWellFounded, WFMin, Zenon DEF R
  <1>3. PICK x \in T : \A y \in T : ~(<<0 .. y, 0 .. x>> \in R)
    BY <1>2
  <1>4. ASSUME NEW y \in T, y < x PROVE FALSE
    <2>1. 0 .. y \subseteq 0 .. x /\ x \in 0 .. x /\ x \notin 0 .. y
      BY <1>4
    <2>2. <<0 .. y, 0 .. x>> \in R
      BY <2>1 DEF StrictSubsetOrdering
    <2> QED BY <1>3, <2>2
  <1> QED BY <1>4

\* The sums of the first elements of a finite sequence exist.
LEMMA PrefixSums ==
  ASSUME NEW n \in Nat, NEW s \in [1 .. n -> Nat]
  PROVE  \E p \in [0 .. n -> Nat] : p[0] = 0 /\ \A k \in 1 .. n : p[k] = p[k - 1] + s[k]
  <1> DEFINE Prefix(m, p) == /\ p \in [0 .. m -> Nat] /\ p[0] = 0
                             /\ \A k \in 1 .. m : p[k] = p[k - 1] + s[k]
             T == {m \in 0 .. n : ~\E p : Prefix(m, p)}
  <1>1. T = {}
    <2> SUFFICES ASSUME T # {} PROVE FALSE
      OBVIOUS
    <2>1. PICK m \in T : \A y \in T : m <= y
      <3> HIDE DEF Prefix
      <3>1. T \in SUBSET Nat
        OBVIOUS
      <3> HIDE DEF T
      <3> QED BY <3>1, LeastNatural
    <2>2. CASE m = 0
      <3> DEFINE z == [k \in 0 .. 0 |-> 0]
      <3>1. Prefix(0, z)
        OBVIOUS
      <3> HIDE DEF Prefix, z
      <3> QED BY <2>2, <3>1
    <2>3. CASE m # 0
      <3>0. m \in 0 .. n
        OBVIOUS
      <3>1. m \in Nat /\ m - 1 \in 0 .. n /\ m - 1 \notin T /\ m \in 1 .. n
        <4> HIDE DEF T
        <4> QED BY <2>1, <2>3, <3>0
      <3>2. PICK q : Prefix(m - 1, q)
        <4> HIDE DEF Prefix
        <4> QED BY <3>1
      <3> DEFINE r == [k \in 0 .. m |-> IF k < m THEN q[k] ELSE q[m - 1] + s[m]]
      <3>3. \A k \in 0 .. m - 1 : q[k] \in Nat /\ r[k] = q[k]
        BY <3>1, <3>2
      <3>4. r[m] = q[m - 1] + s[m] /\ r[m] \in Nat
        <4>1. s[m] \in Nat /\ q[m - 1] \in Nat
          <5> HIDE DEF T, r
          <5> QED BY <3>1, <3>2
        <4>2. r[m] = q[m - 1] + s[m]
          BY <3>1
        <4> HIDE DEF r
        <4> QED BY <4>1, <4>2
      <3>5. r \in [0 .. m -> Nat] /\ r[0] = 0
        BY <3>1, <3>2, <3>3, <3>4
      <3>6. ASSUME NEW k \in 1 .. m PROVE r[k] = r[k - 1] + s[k]
        <4>1. CASE k = m
          BY <3>1, <3>3, <3>4, <4>1
        <4>2. CASE k # m
          BY <3>1, <3>2, <3>3, <4>2
        <4> QED BY <4>1, <4>2
      <3> HIDE DEF r
      <3>7. Prefix(m, r)
        BY <3>5, <3>6
      <3> HIDE DEF Prefix
      <3> QED BY <3>7
    <2> QED BY <2>2, <2>3
  <1>2. n \notin T /\ n \in 0 .. n
    <2> HIDE DEF T
    <2> QED BY <1>1
  <1>3. PICK p : Prefix(n, p)
    <2> HIDE DEF Prefix
    <2> QED BY <1>2
  <1> QED BY <1>3

\* The equation that BytesOf solves, of the batches of a source.
Sums(src, first, last, u) ==
    u = [k \in 0 .. last |-> IF k < first THEN 0 ELSE u[k - 1] + src.batches[k].nbytes]

SumOf(src, first, last) == (CHOOSE u : Sums(src, first, last, u))[last]

\* BytesOf is a function of the source alone.
LEMMA BytesAreSums ==
  ASSUME NEW CONSTANT f, NEW CONSTANT l
  PROVE  BytesOf(f, l) = SumOf(source, f, l) /\ BytesOf(f, l)' = SumOf(source', f, l)
  BY Zenon DEF BytesOf, SumOf, Sums, Bytes

\* The numbers of bytes of the batches of a source.
Sizes(src) == [i \in 1 .. Len(src.batches) |-> src.batches[i].nbytes]

\* p has the total bytes of the first batches of a source, for up to n of them.
Totals(src, n, p) ==
  /\ n \in Nat /\ p \in [0 .. n -> Nat]
  /\ \A k \in 1 .. n : src.batches[k].nbytes \in Nat /\ p[k] = p[k - 1] + src.batches[k].nbytes

\* The batches f to l, possibly none, are among the first n, and what p gives them.
Interval(n, f, l) == f \in 1 .. n + 1 /\ l \in 0 .. n /\ f <= l + 1
Difference(p, f, l) == p[l] - p[f - 1]

\* BytesOf is the difference of two sums of first elements.
LEMMA SumIsDifference ==
  ASSUME NEW CONSTANT src, NEW CONSTANT n, NEW CONSTANT p, Totals(src, n, p),
         NEW CONSTANT f, NEW CONSTANT l, Interval(n, f, l)
  PROVE  SumOf(src, f, l) = Difference(p, f, l)
  <1> DEFINE w == [k \in 0 .. l |-> IF k < f THEN 0 ELSE p[k] - p[f - 1]]
             u == CHOOSE v : Sums(src, f, l, v)
  <1> USE DEF Totals, Interval
  <1>1. \A k \in 0 .. n : p[k] \in Nat
    OBVIOUS
  <1>2. \E v : Sums(src, f, l, v)
    <2>1. ASSUME NEW k \in 0 .. l
          PROVE  w[k] = IF k < f THEN 0 ELSE w[k - 1] + src.batches[k].nbytes
      <3>1. CASE k < f
        BY <3>1
      <3>2. CASE k >= f
        <4>1. p[k] = p[k - 1] + src.batches[k].nbytes /\ k \in 1 .. n /\ k - 1 \in 0 .. l
          BY <3>2
        <4>2. w[k] = p[k] - p[f - 1]
          BY <3>2
        <4>3. w[k - 1] = p[k - 1] - p[f - 1]
          <5>1. CASE k = f
            BY <1>1, <3>2, <4>1, <5>1
          <5>2. CASE k # f
            BY <3>2, <4>1, <5>2
          <5> QED BY <5>1, <5>2
        <4>4. /\ p[k - 1] \in Nat /\ p[f - 1] \in Nat /\ src.batches[k].nbytes \in Nat
              /\ p[k] = p[k - 1] + src.batches[k].nbytes
          <5>1. k \in 1 .. n /\ k - 1 \in 0 .. n /\ f - 1 \in 0 .. n
            BY <4>1
          <5> HIDE DEF w
          <5> QED BY <1>1, <5>1
        <4>5. p[k] - p[f - 1] = (p[k - 1] - p[f - 1]) + src.batches[k].nbytes
          BY <4>4
        <4>6. ~(k < f)
          BY <3>2
        <4> HIDE DEF w
        <4> QED BY <4>2, <4>3, <4>5, <4>6
      <3> QED BY <3>1, <3>2
    <2>2. w = [k \in 0 .. l |-> w[k]]
      OBVIOUS
    <2> HIDE DEF w
    <2>3. Sums(src, f, l, w)
      BY <2>1, <2>2 DEF Sums
    <2> QED BY <2>3
  <1>3. Sums(src, f, l, u)
    BY <1>2, Zenon
  <1>4. \A k \in 0 .. l : u[k] = IF k < f THEN 0 ELSE u[k - 1] + src.batches[k].nbytes
    <2> HIDE DEF u
    <2> QED BY <1>3 DEF Sums
  <1> DEFINE T == {k \in f - 1 .. l : u[k] # p[k] - p[f - 1]}
  <1> HIDE DEF u, w
  <1>5. T = {}
    <2> SUFFICES ASSUME T # {} PROVE FALSE
      OBVIOUS
    <2>1. T \in SUBSET Nat
      OBVIOUS
    <2>2. PICK k \in T : \A j \in T : k <= j
      <3> HIDE DEF T
      <3> QED BY <2>1, LeastNatural
    <2>3. k \in f - 1 .. l /\ k \in 0 .. l /\ u[k] # p[k] - p[f - 1]
      OBVIOUS
    <2>4. k # f - 1
      <3> HIDE DEF T
      <3>1. p[f - 1] \in Nat /\ f - 1 \in 0 .. l /\ f - 1 < f
        BY <1>1
      <3>2. u[f - 1] = 0 /\ p[f - 1] - p[f - 1] = 0
        BY <1>4, <3>1
      <3> QED BY <2>3, <3>2
    <2>5. k - 1 \notin T /\ k - 1 \in f - 1 .. l
      <3> HIDE DEF T
      <3> QED BY <2>2, <2>3, <2>4
    <2>6. u[k - 1] = p[k - 1] - p[f - 1]
      BY <2>5
    <2>7. /\ u[k] = u[k - 1] + src.batches[k].nbytes
          /\ p[k] = p[k - 1] + src.batches[k].nbytes
          /\ p[k] \in Nat /\ p[k - 1] \in Nat /\ p[f - 1] \in Nat
          /\ src.batches[k].nbytes \in Nat
      <3> HIDE DEF T
      <3>1. k \in 1 .. n /\ k - 1 \in 0 .. n /\ f - 1 \in 0 .. n /\ ~(k < f)
        BY <2>3, <2>4
      <3> QED BY <1>1, <1>4, <2>3, <3>1
    <2> HIDE DEF T
    <2> QED BY <2>3, <2>6, <2>7
  <1>6. l \in f - 1 .. l
    OBVIOUS
  <1>7. u[l] = p[l] - p[f - 1]
    BY <1>5, <1>6
  <1> QED BY <1>7 DEF SumOf, Difference, u

\* The laws of BytesOf: nothing, one batch more at the end, one at the front.
LEMMA BytesLaws ==
  ASSUME Typed, NEW CONSTANT f \in Nat \ {0}, NEW CONSTANT l \in Nat,
         l <= Len(source.batches), f <= l + 1
  PROVE  /\ BytesOf(f, l) \in Int
         /\ f = l + 1 => BytesOf(f, l) = 0
         /\ l + 1 <= Len(source.batches) => BytesOf(f, l + 1) = BytesOf(f, l) + Bytes(l + 1)
         /\ f <= l => BytesOf(f, l) = Bytes(f) + BytesOf(f + 1, l)
  <1> DEFINE n == Len(source.batches)
             s == Sizes(source)
  <1>1. n \in Nat /\ \A k \in 1 .. n : source.batches[k].nbytes \in Nat
    BY SourceType DEF Bytes
  <1>2. s \in [1 .. n -> Nat] /\ \A k \in 1 .. n : s[k] = source.batches[k].nbytes
    BY <1>1 DEF Sizes
  <1> HIDE DEF s
  <1>3. PICK p \in [0 .. n -> Nat] : p[0] = 0 /\ \A k \in 1 .. n : p[k] = p[k - 1] + s[k]
    <2> HIDE DEF n
    <2> QED BY <1>1, <1>2, PrefixSums
  <1>4. \A k \in 1 .. n : /\ source.batches[k].nbytes \in Nat
                          /\ p[k] = p[k - 1] + source.batches[k].nbytes
    BY <1>1, <1>2, <1>3
  <1>5. ASSUME NEW CONSTANT a \in 1 .. n + 1, NEW CONSTANT b \in 0 .. n, a <= b + 1
        PROVE  BytesOf(a, b) = p[b] - p[a - 1]
    <2>1. SumOf(source, a, b) = p[b] - p[a - 1]
      <3> HIDE DEF n
      <3>1. Totals(source, n, p)
        BY <1>1, <1>3, <1>4 DEF Totals
      <3>2. Interval(n, a, b)
        BY <1>5 DEF Interval
      <3>3. SumOf(source, a, b) = Difference(p, a, b)
        BY <3>1, <3>2, SumIsDifference
      <3> QED BY <3>3 DEF Difference
    <2> QED BY <2>1, BytesAreSums
  <1>6. \A k \in 0 .. n : p[k] \in Nat
    OBVIOUS
  <1>7. BytesOf(f, l) = p[l] - p[f - 1] /\ p[l] \in Nat /\ p[f - 1] \in Nat
    <2>1. f \in 1 .. n + 1 /\ l \in 0 .. n /\ f - 1 \in 0 .. n
      BY <1>1
    <2> QED BY <1>5, <1>6, <2>1
  <1>8. ASSUME l + 1 <= n PROVE BytesOf(f, l + 1) = BytesOf(f, l) + Bytes(l + 1)
    <2>1. f \in 1 .. n + 1 /\ l + 1 \in 1 .. n
      BY <1>1, <1>8
    <2>2. p[l + 1] = p[l] + Bytes(l + 1) /\ Bytes(l + 1) \in Nat /\ p[l + 1] \in Nat
      BY <1>4, <1>6, <2>1 DEF Bytes
    <2>3. BytesOf(f, l + 1) = p[l + 1] - p[f - 1]
      BY <1>5, <2>1
    <2> QED BY <1>7, <2>2, <2>3
  <1>9. ASSUME f <= l PROVE BytesOf(f, l) = Bytes(f) + BytesOf(f + 1, l)
    <2>1. f + 1 \in 1 .. n + 1 /\ l \in 0 .. n /\ f \in 1 .. n
      BY <1>1, <1>9
    <2>2. p[f] = p[f - 1] + Bytes(f) /\ Bytes(f) \in Nat /\ p[f] \in Nat
      BY <1>4, <1>6, <2>1 DEF Bytes
    <2>3. BytesOf(f + 1, l) = p[l] - p[f]
      BY <1>5, <1>9, <2>1
    <2> QED BY <1>7, <2>2, <2>3
  <1> QED BY <1>7, <1>8, <1>9

\* InflightExact, with the names of its parts: the batches and the bytes that
\* are built, queued or being processed.
Batches == taken - Done + Building
InFlight == BytesOf(Done + 1, taken) + Building * MaxBatchBytes

Budget ==
    /\ config.prefetch => Batches <= config.queue_batches /\ InFlight <= config.inflight_bytes
    /\ producer \in {"reserve", "build", "append"} =>
          /\ count = Batches
          /\ reserved = InFlight + (IF producer = "append" THEN MaxBatchBytes - Bytes(taken) ELSE 0)
    /\ config.prefetch /\ producer = "off" =>
          taken = 0 /\ processed = 0 /\ count = 0 /\ reserved = 0

\* The numbers the budget is made of, and the sums before and after a step.
LEMMA BudgetNumbers ==
  ASSUME IInv
  PROVE  /\ taken \in Nat /\ Done \in Nat /\ Done <= taken /\ Building \in {0, 1}
         /\ MaxBatchBytes \in Nat /\ Batches \in Int /\ InFlight \in Int
         /\ count \in Int /\ reserved \in Int
         /\ config.queue_batches \in Nat \ {0}
         /\ config.inflight_bytes \in Nat /\ MaxBatchBytes <= config.inflight_bytes
         /\ config.prefetch \in BOOLEAN
         /\ BytesOf(Done + 1, taken) \in Int
         /\ Done = taken => BytesOf(Done + 1, taken) = 0
  <1>1. /\ taken \in Nat /\ taken <= Len(source.batches) /\ count \in Int /\ reserved \in Int
        /\ Done \in Nat /\ InHand \in 0 .. 1 /\ Len(queue) \in Nat
        /\ Done + InHand + Len(queue) <= taken /\ MaxBatchBytes \in Nat
    BY DoneType, SourceType DEF IInv, Typed
  <1>2. /\ config.queue_batches \in Nat \ {0} /\ config.prefetch \in BOOLEAN
        /\ config.inflight_bytes \in Nat /\ MaxBatchBytes <= config.inflight_bytes
    BY BatchReplayAssumption DEF IInv, Typed
  <1>3. Building \in {0, 1}
    BY DEF Building
  <1>4. BytesOf(Done + 1, taken) \in Int /\ (Done = taken => BytesOf(Done + 1, taken) = 0)
    <2>1. PICK d \in Nat : d = Done
      BY <1>1
    <2>2. d + 1 <= taken + 1 /\ d + 1 \in Nat \ {0} /\ (d = taken => d + 1 = taken + 1)
      BY <1>1, <2>1
    <2>3. BytesOf(d + 1, taken) \in Int /\ (d = taken => BytesOf(d + 1, taken) = 0)
      BY <1>1, <2>2, BytesLaws DEF IInv
    <2> QED BY <2>1, <2>3
  <1>5. Building * MaxBatchBytes \in Int
    BY <1>1, <1>3
  <1>6. Batches \in Int /\ InFlight \in Int
    BY <1>1, <1>3, <1>4, <1>5 DEF Batches, InFlight
  <1> QED BY <1>1, <1>2, <1>3, <1>4, <1>6


\* The bytes between the simulator and the iterator, as sums over the source.
LEMMA SumsOfState ==
  /\ BytesOf(Done + 1, taken) = SumOf(source, Done + 1, taken)
  /\ BytesOf(Done + 1, taken)' = SumOf(source', Done' + 1, taken')
  BY Zenon DEF BytesOf, SumOf, Sums, Bytes

\* A step that moves no batch and leaves the producer where it is keeps the
\* budget.
LEMMA BudgetUntouched ==
  ASSUME IInv, Budget, UNCHANGED <<source, config, taken, count, reserved, producer>>,
         Done' = Done, config.prefetch /\ producer = "off" => processed' = processed
  PROVE  Budget'
  <1>1. BytesOf(Done + 1, taken)' = BytesOf(Done + 1, taken)
    BY SumsOfState
  <1>2. Batches' = Batches /\ InFlight' = InFlight
    BY <1>1 DEF Batches, InFlight, Building
  <1>3. Bytes(taken)' = Bytes(taken)
    BY DEF Bytes
  <1> QED BY <1>2, <1>3 DEF Budget

\* So does a producer that stops: what it had reserved for a batch that was not
\* built is not in flight.
LEMMA BudgetStopped ==
  ASSUME IInv, Budget, UNCHANGED <<source, config, taken>>, Done' = Done,
         producer' \in {"close", "done"}
  PROVE  Budget'
  <1>1. BytesOf(Done + 1, taken)' = BytesOf(Done + 1, taken)
    BY SumsOfState
  <1>2. Building' = 0
    BY DEF Building
  <1> DEFINE b == BytesOf(Done + 1, taken)
  <1>3. Batches' = taken - Done + 0 /\ InFlight' = b + 0 * MaxBatchBytes
    BY <1>1, <1>2 DEF Batches, InFlight
  <1>4. Batches = taken - Done + Building /\ InFlight = b + Building * MaxBatchBytes
    BY DEF Batches, InFlight
  <1>5. b \in Int
    BY BudgetNumbers
  <1> HIDE DEF b
  <1>6. Batches' <= Batches /\ InFlight' <= InFlight /\ Batches' \in Int /\ InFlight' \in Int
    BY <1>3, <1>4, <1>5, BudgetNumbers
  <1> QED BY <1>6, BudgetNumbers DEF Budget

\* Room for a batch of the largest size is reserved before it is built.
LEMMA BudgetReserved == ASSUME IInv, Budget, Reserve PROVE Budget'
  <1>1. CASE cancelled
    BY <1>1, BudgetStopped DEF Reserve, Done
  <1>2. CASE ~cancelled
    <2>1. /\ producer = "reserve" /\ producer' = "build"
          /\ count < config.queue_batches /\ reserved + MaxBatchBytes <= config.inflight_bytes
          /\ reserved' = reserved + MaxBatchBytes /\ count' = count + 1
          /\ UNCHANGED <<source, config, taken>> /\ Done' = Done
      BY <1>2 DEF Reserve, HasSpace, Done
    <2>2. Building = 0 /\ Building' = 1
      BY <2>1 DEF Building
    <2>3. BytesOf(Done + 1, taken)' = BytesOf(Done + 1, taken)
      BY <2>1, SumsOfState
    <2> DEFINE b == BytesOf(Done + 1, taken)
    <2>4. /\ Batches = taken - Done + 0 /\ InFlight = b + 0 * MaxBatchBytes
          /\ Batches' = taken - Done + 1 /\ InFlight' = b + 1 * MaxBatchBytes
      BY <2>1, <2>2, <2>3 DEF Batches, InFlight
    <2>5. count = Batches /\ reserved = InFlight + 0
      BY <2>1 DEF Budget
    <2>6. b \in Int
      BY BudgetNumbers
    <2> HIDE DEF b
    <2>7. Batches' = count' /\ InFlight' = reserved' /\ count' \in Int /\ reserved' \in Int
      BY <2>1, <2>4, <2>5, <2>6, BudgetNumbers
    <2>8. Batches' <= config.queue_batches /\ InFlight' <= config.inflight_bytes
      BY <2>1, <2>7, BudgetNumbers
    <2> QED BY <2>1, <2>7, <2>8 DEF Budget
  <1> QED BY <1>1, <1>2

\* A batch that was built takes its own size, and what it was reserved beyond
\* that until it is appended.
LEMMA BudgetBuilt == ASSUME IInv, Budget, Build PROVE Budget'
  <1>1. /\ producer = "build" /\ producer' = "append" /\ taken' = taken + 1
        /\ ~AtEnd /\ Bytes(taken + 1) <= MaxBatchBytes
        /\ UNCHANGED <<source, config, count, reserved>> /\ Done' = Done
    BY DEF Build, shared, Done
  <1>2. Building = 1 /\ Building' = 0
    BY <1>1 DEF Building
  <1>3. /\ Len(source.batches) \in Nat /\ taken <= Len(source.batches) /\ taken \in Nat
        /\ taken + 1 <= Len(source.batches) /\ Bytes(taken + 1) \in Nat
    BY <1>1, SourceType DEF IInv, Typed, AtEnd
  <1>4. BytesOf(Done + 1, taken)' = BytesOf(Done + 1, taken) + Bytes(taken + 1)
    <2>1. PICK d \in Nat : d = Done /\ d <= taken
      BY BudgetNumbers
    <2>2. PICK t \in Nat : t = taken
      BY <1>3
    <2>3. t <= Len(source.batches) /\ d + 1 <= t + 1 /\ d + 1 \in Nat \ {0} /\ t + 1 <= Len(source.batches)
      BY <1>3, <2>1, <2>2
    <2>4. BytesOf(d + 1, t + 1) = BytesOf(d + 1, t) + Bytes(t + 1)
      BY <2>3, BytesLaws DEF IInv
    <2>5. BytesOf(d + 1, t + 1) = SumOf(source, d + 1, t + 1)
      BY BytesAreSums
    <2> QED BY <1>1, <2>1, <2>2, <2>4, <2>5, SumsOfState
  <1>5. Bytes(taken)' = Bytes(taken + 1)
    BY <1>1 DEF Bytes
  <1> DEFINE b == BytesOf(Done + 1, taken)
             y == Bytes(taken + 1)
  <1>6. /\ Batches = taken - Done + 1 /\ InFlight = b + 1 * MaxBatchBytes
        /\ Batches' = taken + 1 - Done + 0 /\ InFlight' = (b + y) + 0 * MaxBatchBytes
    <2>1. Batches = taken - Done + 1 /\ Batches' = taken + 1 - Done + 0
      <3>1. Batches = taken - Done + Building /\ Batches' = taken' - Done' + Building'
        BY DEF Batches
      <3>2. taken' = taken + 1 /\ Done' = Done
        BY <1>1
      <3>3. taken \in Nat /\ Done \in Nat
        BY BudgetNumbers
      <3> QED BY <1>2, <3>1, <3>2, <3>3
    <2>2. InFlight = b + 1 * MaxBatchBytes
      BY <1>2 DEF InFlight
    <2>3. InFlight' = BytesOf(Done + 1, taken)' + Building' * MaxBatchBytes
      BY DEF InFlight
    <2>4. BytesOf(Done + 1, taken)' = b + y
      BY <1>4
    <2> HIDE DEF b, y
    <2> QED BY <1>2, <2>1, <2>2, <2>3, <2>4
  <1>7. count = Batches /\ reserved = InFlight + 0
    BY <1>1 DEF Budget
  <1>8. b \in Int /\ y \in Nat /\ y <= MaxBatchBytes
    BY <1>1, <1>3, BudgetNumbers
  <1> HIDE DEF b, y
  <1>9. Batches' = Batches /\ InFlight' <= InFlight /\ InFlight' \in Int
    BY <1>6, <1>8, BudgetNumbers
  <1>10. count' = Batches' /\ reserved' = InFlight' + (MaxBatchBytes - y)
    BY <1>1, <1>6, <1>7, <1>8, BudgetNumbers
  <1>11. reserved' = InFlight' + (MaxBatchBytes - Bytes(taken)')
    BY <1>5, <1>10 DEF y
  <1>12. config.prefetch => Batches' <= config.queue_batches /\ InFlight' <= config.inflight_bytes
    BY <1>9, BudgetNumbers DEF Budget
  <1> QED BY <1>1, <1>10, <1>11, <1>12 DEF Budget

\* What a batch takes less than the largest is given back as it is appended.
LEMMA BudgetAppended == ASSUME IInv, Budget, Enqueue PROVE Budget'
  <1>1. /\ producer = "append" /\ producer' = "reserve"
        /\ reserved' = reserved - (MaxBatchBytes - Bytes(taken))
        /\ UNCHANGED <<source, config, taken, count>> /\ Done' = Done
    BY DEF Enqueue, Done
  <1>2. Building = 0 /\ Building' = 0
    BY <1>1 DEF Building
  <1>3. BytesOf(Done + 1, taken)' = BytesOf(Done + 1, taken)
    BY <1>1, SumsOfState
  <1>4. Batches' = Batches /\ InFlight' = InFlight
    BY <1>1, <1>2, <1>3 DEF Batches, InFlight
  <1>5. Bytes(taken) \in Nat
    <2>1. /\ taken = Done + InHand + Len(queue) + 1 /\ Done \in Nat /\ InHand \in 0 .. 1
          /\ Len(queue) \in Nat /\ taken <= Len(source.batches) /\ Len(source.batches) \in Nat
      BY <1>1, DoneType, SourceType DEF IInv, Ordered, Typed
    <2>2. taken \in 1 .. Len(source.batches)
      BY <2>1
    <2> QED BY <2>2, SourceType DEF IInv
  <1>6. count = Batches /\ reserved = InFlight + (MaxBatchBytes - Bytes(taken))
    BY <1>1 DEF Budget
  <1>7. reserved' = InFlight' + 0 /\ count' = Batches'
    BY <1>1, <1>4, <1>5, <1>6, BudgetNumbers
  <1> QED BY <1>1, <1>4, <1>7 DEF Budget

\* A batch that was processed gives back its place and its bytes.
LEMMA BudgetReleased == ASSUME IInv, Budget, Release PROVE Budget'
  <1>1. /\ consumer = "release" /\ reserved' = reserved - Bytes(held) /\ count' = count - 1
        /\ UNCHANGED <<source, config, taken, producer>>
        /\ held # NoBatch /\ held = Done + 1 /\ Done = processed - 1 /\ Done' = processed
    BY DEF Release, Done, IInv, Places, Ordered
  <1>2. /\ processed \in Nat /\ Done \in Nat /\ held \in 1 .. Len(source.batches) /\ InHand = 1
        /\ Len(queue) \in Nat /\ Done + InHand + Len(queue) <= taken
        /\ taken \in Nat /\ taken <= Len(source.batches) /\ Bytes(held) \in Nat
    BY <1>1, DoneType, SourceType DEF IInv, Typed
  <1>3. Done' = Done + 1 /\ Done + 1 <= taken
    BY <1>1, <1>2
  <1>4. BytesOf(Done + 1, taken) = Bytes(held) + BytesOf(Done + 1, taken)'
    <2>1. PICK d \in Nat : d = Done /\ d + 1 <= taken
      BY <1>2, <1>3
    <2>2. PICK t \in Nat : t = taken
      BY <1>2
    <2>3. t <= Len(source.batches) /\ d + 1 <= t /\ d + 1 <= t + 1 /\ d + 1 \in Nat \ {0}
      BY <1>2, <2>1, <2>2
    <2>4. BytesOf(d + 1, t) = Bytes(d + 1) + BytesOf(d + 1 + 1, t)
      BY <2>3, BytesLaws DEF IInv
    <2>5. BytesOf(d + 1 + 1, t) = SumOf(source, d + 1 + 1, t)
      BY BytesAreSums
    <2> QED BY <1>1, <1>3, <2>1, <2>2, <2>4, <2>5, SumsOfState
  <1> DEFINE b == BytesOf(Done + 1, taken)
             y == Bytes(held)
             c == BytesOf(Done + 1, taken)'
  <1>5. /\ Batches = taken - Done + Building /\ InFlight = b + Building * MaxBatchBytes
        /\ Batches' = taken - (Done + 1) + Building /\ InFlight' = c + Building * MaxBatchBytes
    BY <1>1, <1>3 DEF Batches, InFlight, Building
  <1>6. b \in Int /\ y \in Nat /\ c = b - y
    <2>1. b \in Int
      BY BudgetNumbers
    <2>2. SumOf(source', Done' + 1, taken') \in Int
      <3>1. PICK d \in Nat : d = Done + 1 /\ d <= taken
        BY <1>2, <1>3
      <3>2. PICK t \in Nat : t = taken
        BY <1>2
      <3>3. t <= Len(source.batches) /\ d + 1 <= t + 1 /\ d + 1 \in Nat \ {0}
        BY <1>2, <3>1, <3>2
      <3>4. BytesOf(d + 1, t) \in Int
        BY <3>3, BytesLaws DEF IInv
      <3>5. BytesOf(d + 1, t) = SumOf(source, d + 1, t)
        BY BytesAreSums
      <3> QED BY <1>1, <1>3, <3>1, <3>2, <3>4, <3>5
    <2>3. c \in Int
      BY <2>2, SumsOfState
    <2>4. b = y + c
      BY <1>4
    <2> HIDE DEF b, c, y
    <2> QED BY <1>2, <2>1, <2>3, <2>4 DEF y
  <1> HIDE DEF b, c, y
  <1>7. Building * MaxBatchBytes \in Int
    BY BudgetNumbers
  <1>8. /\ Batches' = Batches - 1 /\ InFlight' = InFlight - y
        /\ Batches' <= Batches /\ InFlight' <= InFlight /\ Batches' \in Int /\ InFlight' \in Int
    <2>1. Batches' = Batches - 1 /\ Batches \in Int
      <3>1. Batches = taken - Done + Building /\ Batches' = taken - (Done + 1) + Building
        BY <1>5
      <3>2. taken \in Nat /\ Done \in Nat /\ Building \in {0, 1}
        BY BudgetNumbers
      <3> QED BY <3>1, <3>2
    <2> DEFINE g == Building * MaxBatchBytes
    <2>2. g \in Int /\ InFlight = b + g /\ InFlight' = c + g
      BY <1>5, <1>7
    <2> HIDE DEF g
    <2> QED BY <1>6, <2>1, <2>2
  <1>9. config.prefetch => Batches' <= config.queue_batches /\ InFlight' <= config.inflight_bytes
    BY <1>8, BudgetNumbers DEF Budget
  <1>10. Bytes(taken)' = Bytes(taken)
    BY <1>1 DEF Bytes
  <1>11. ASSUME producer \in {"reserve", "build", "append"}
         PROVE  /\ count' = Batches'
                /\ reserved' = InFlight' + (IF producer = "append" THEN MaxBatchBytes - Bytes(taken) ELSE 0)
    <2> DEFINE z == IF producer = "append" THEN MaxBatchBytes - Bytes(taken) ELSE 0
    <2>1. count = Batches /\ reserved = InFlight + z
      BY <1>11 DEF Budget
    <2>2. z \in Int
      <3>1. taken \in 1 .. Len(source.batches)
        BY <1>2, <1>3, SourceType DEF IInv
      <3>2. Bytes(taken) \in Nat
        BY <3>1, SourceType DEF IInv
      <3> QED BY <3>2, BudgetNumbers
    <2> HIDE DEF z
    <2>3. reserved' = InFlight' + z /\ count' = Batches'
      BY <1>1, <1>6, <1>8, <2>1, <2>2, BudgetNumbers DEF y
    <2> QED BY <2>3 DEF z
  <1>12. config.prefetch => producer # "off"
    BY <1>1 DEF IInv, Places
  <1> QED BY <1>1, <1>9, <1>10, <1>11, <1>12 DEF Budget


\* Every step keeps the budget.
LEMMA BudgetKept == IInv /\ Budget /\ [Next]_vars => Budget'
  <1> SUFFICES ASSUME IInv, Budget, [Next]_vars PROVE Budget'
    OBVIOUS
  <1>1. CASE ProducerWaits \/ UNCHANGED vars
    BY <1>1, BudgetUntouched DEF ProducerWaits, vars, Done
  <1>2. CASE Reserve
    BY <1>2, BudgetReserved
  <1>3. CASE Build
    BY <1>3, BudgetBuilt
  <1>4. CASE BuildEnds \/ Close
    BY <1>4, BudgetStopped DEF BuildEnds, Close, Done
  <1>5. CASE Enqueue
    BY <1>5, BudgetAppended
  <1>6. CASE Release
    BY <1>6, BudgetReleased
  <1>7. CASE NextBatch \/ (Process /\ ~config.prefetch)
    <2>1. ~config.prefetch /\ ~config'.prefetch /\ producer' = "off"
      BY <1>7, BudgetNumbers DEF NextBatch, Process, IInv, Places
    <2> QED BY <2>1 DEF Budget
  <1>8. CASE Start
    <2>1. /\ UNCHANGED <<source, config, taken, count, reserved, processed>> /\ Done' = Done
          /\ producer = "off" /\ consumer = "start" /\ Done = processed
      BY <1>8 DEF Start, shared, Done, IInv, Places
    <2>2. CASE ~config.prefetch
      BY <1>8, <2>1, <2>2, BudgetUntouched DEF Start
    <2>3. CASE config.prefetch
      <3>1. producer' = "reserve" /\ Building' = 0 /\ Building = 0
        BY <1>8, <2>1, <2>3 DEF Start, Building
      <3>2. taken = 0 /\ processed = 0 /\ count = 0 /\ reserved = 0
        BY <2>1, <2>3 DEF Budget
      <3>3. BytesOf(Done + 1, taken)' = BytesOf(Done + 1, taken)
        BY <2>1, SumsOfState
      <3>4. BytesOf(Done + 1, taken) = 0
        BY <2>1, <3>2, BudgetNumbers
      <3>5. Batches' = 0 /\ InFlight' = 0
        <4>1. Batches' = taken' - Done' + Building'
              /\ InFlight' = BytesOf(Done + 1, taken)' + Building' * MaxBatchBytes
          BY DEF Batches, InFlight
        <4> QED BY <2>1, <3>1, <3>2, <3>3, <3>4, <4>1, BudgetNumbers
      <3> QED BY <2>1, <3>1, <3>2, <3>5, BudgetNumbers DEF Budget
    <2> QED BY <2>2, <2>3
  <1>9. CASE \/ NextEnds \/ ConsumerWaits \/ Get \/ GetEnds \/ Refuse \/ Cancel \/ Join \/ Finish
             \/ (Process /\ config.prefetch)
    <2>1. UNCHANGED <<source, config, taken, count, reserved, producer>>
      BY <1>9 DEF NextEnds, ConsumerWaits, Get, GetEnds, Process, Refuse, Cancel, Join, Finish,
                  shared
    <2>2. Done' = Done
      <3>1. CASE NextEnds \/ ConsumerWaits \/ Get \/ GetEnds \/ Refuse \/ Cancel \/ Join \/ Finish
        BY <3>1
           DEF NextEnds, ConsumerWaits, Get, GetEnds, Refuse, Cancel, Join, Finish, Done, shared
      <3>2. CASE Process /\ config.prefetch
        <4>1. /\ processed \in Nat /\ consumer = "consume" /\ processed' = processed + 1
              /\ consumer' = "release"
          BY <3>2 DEF Process, IInv, Typed
        <4> QED BY <4>1 DEF Done
      <3> QED BY <1>9, <3>1, <3>2
    <2>3. config.prefetch /\ producer = "off" => processed' = processed
      BY <1>9 DEF IInv, Places, NextEnds, ConsumerWaits, Get, GetEnds, Process, Refuse, Cancel,
                  Join, Finish
    <2> QED BY <2>1, <2>2, <2>3, BudgetUntouched
  <1> QED
    BY <1>1, <1>2, <1>3, <1>4, <1>5, <1>6, <1>7, <1>8, <1>9 DEF Next, Produce, Consume

\* The initial state is within the budget.
LEMMA BudgetInit == Init => Budget
  <1> SUFFICES ASSUME Init PROVE Budget
    OBVIOUS
  <1>1. IInv
    BY InitIInv
  <1>2. taken = 0 /\ Done = 0 /\ Building = 0 /\ producer = "off" /\ count = 0 /\ reserved = 0
        /\ processed = 0
    BY DEF Init, Done, Building
  <1>3. BytesOf(Done + 1, taken) = 0
    BY <1>1, <1>2, BudgetNumbers
  <1>4. Batches = 0 /\ InFlight = 0
    BY <1>1, <1>2, <1>3, BudgetNumbers DEF Batches, InFlight
  <1> QED BY <1>1, <1>2, <1>4, BudgetNumbers DEF Budget

\* What is built, queued or being processed stays within the configured bytes
\* and number of batches, and the counters of the two threads say exactly how
\* much it is while the producer works.
THEOREM BudgetExact == Spec => []InflightExact
  <1>1. Budget => InflightExact
    BY DEF Budget, InflightExact, Batches, InFlight
  <1> QED
    BY <1>1, BudgetInit, BudgetKept, Invariance, PTL DEF Spec


=============================================================================
