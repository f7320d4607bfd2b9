# TLA+ verification of DWPDSim

DWPDSim replays block requests of a KV cache on a common radix tree and decides,
block by block, what stays in memory (DRAM) and on two SSD tiers (SLC and TLC).
This directory holds TLA+ models of the parts that decide, TLC configurations
that check them on small instances, and proofs checked by TLAPS. Paths below are
relative to the root of the repository; `simulator.cpp:457` is a line of
`cpp/src/simulator.cpp` and so on. PROJECT.json maps every definition to the lines it
stands for and lists the runs, the mutants, the hazards and the theorems.

    tlc -config SimulatorBaseline.cfg MCSimulator.tla     # a run
    tlapm SimulatorProofs.tla                             # the proofs of a module

## 1. The system

| Component | State it keeps | Operations | Called by / calls |
|---|---|---|---|
| **Simulator** (`cpp/src/simulator.cpp`) | last timestamp, next tick, active node, waiting capacity requests (the C++ stack) | `process_request`, `finish`, `insert_into_memory`, `evict_from_memory`, `dump_segment`, `ensure_capacity`, `execute_trim`, `execute_relocation`, pruning | owner of everything below; calls policies for decisions and tells them of each commit |
| **RadixTree** (`radix_tree.cpp`) | slots, parent / child / sibling links, free list | `get_or_create_at`, `prune`, segment queries | read by every policy through views |
| **StorageTierState** (`storage.cpp`) | used and peak counters, next address, stack of recycled addresses | `allocate`, `release` | dump, trim, relocation |
| **Storage policies** (`policies/storage`) | `entries_`: tier, first and last access of each block; statistics | `place_dump`, `reclaim_for`, `on_storage_access`, `next_background_action` | answers with an intent; never mutates the tree |
| **Memory policies** (`policies/memory`) | recency list, or an index per group; context tables | `evict`, `admit_storage_hit`, `on_commit`, `on_node_created/pruned` | called by the Simulator |
| **Search workers** (`indexed_memory_lru_policy.cpp`) | epoch, pending count, results, one `seen` per thread | rounds of a parallel victim search, shutdown | share a mutex and two condition variables with the Simulator's thread |
| **Batched input** (`src/dwpdsim/input.py`) | queue, reservation, count, closed, cancelled, failure | `replay_batches`: read ahead, process, release, cancel, join | a producer thread and the calling thread share a `Condition` |
| **ShadowFtl** (`shadow_ftl.cpp`) | page map, free blocks, ghost entries | write, trim, collect garbage, close a feedback window | fed by trace events, feeds the wear-balanced policy |
| **MQSim pipeline** (`src/dwpdsim/mqsim.py`) | outstanding operation per tier and address | convert a trace, track dependencies, run, parse | consumes the trace file |
| **Trace writer, metrics, bindings** | counters, a file | formatting | called by the Simulator |

The C++ core is single threaded but re-enters itself: an eviction asks for SSD
capacity, capacity is made by moving or trimming *other* segments, that prunes
the tree, and the caller goes on with what it read before. Two places have real
threads: the search workers and the batched input.

What makes each component correct, and which properties say so:

* **Simulator**: counters agree with the tree (`UsedIsStored`), limits are kept
  (`WithinLimit`, `MemoryBounded`), what a caller read before it asked for
  capacity is still true when it goes on (`PendingExact`, `EndpointsLive`),
  the request's resident prefix and everything waiting is protected
  (`ProtectionInherited`, `ShieldedSurvive`), re-entrance is bounded
  (`StackShape`), every call returns (`CallsReturn`), and all of it together does to the
  blocks what a cache with two bounded tiers may do (`ImplementsCache`).
* **RadixTree and pruning**: no gap and no litter (`TreeExact`); recycled slots and
  sibling links represent the tree (`SlotsExact`, `WalksExact`, `ImplementsTree`).
* **Memory LRU**: its list mirrors DRAM (`RecencyMirrorsMemory`).
* **Indexed policies**: an index kept by callbacks agrees with the tree
  (`MemoryIndexExact`) and names what the scan it replaces names
  (`MemoryVictimIsScan`, `StorageVictimIsScan`); the context policy passes over
  no more cold blocks than its budget (`ContextWithinBudget`).
* **Feedback loop**: windows and ticks fire in order, none twice and none skipped, at
  the end of the clock range too (`WindowsExact`); ghosts are the blocks lost
  lately (`GhostsExact`); the multiplier moves on evidence only
  (`MultiplierEarned`).
* **Address pools**: addresses are unique (`AddressesDistinct`) and as many as the blocks
  that were held at once (`AddressesDense`), a block has two copies
  only while it moves (`OneCopy`).
* **MQSim commands**: in whatever order the device runs them, reads return what the
  simulator had written and nothing is overwritten early (`DeviceSequential`), and a
  block that moves is on the device all the time (`CopySurvives`).
* **Batched input**: the caller cannot tell that a thread reads ahead
  (`ImplementsReplay`); no wake-up is lost and the budget is kept exactly
  (`NoLostWakeup`, `InflightExact`).
* **Search workers**: no worker reads while the Simulator's thread may write
  (`SearchIsolated`), no wake-up is lost (`NoLostWakeup`), the victim is the one a
  single thread would find (`VictimExact`), decisions and shutdown end
  (`RoundsReturn`).
* **Shadow FTL**: no page is lost or found twice while garbage is collected
  (`MappingExact`), no block is lost to the pool (`NoBlockStranded`), a collection
  that was begun ends without running out of blocks (`CollectionFits`), a pool with
  room enough never reports exhaustion (`ReserveSuffices`), writes end (`WritesEnd`).

PROJECT.json lists the hazards at their lines, each with the properties that cover it.

## 2. Modules

    TreeShape <- SegmentTree <- Simulator <- IndexedSimulator   (with IndexedMemory, RoundRobinIndex)
                     ^              ^------- FeedbackSimulator
                     |
                 RadixTree (implements SegmentTree)       TieredCache (implemented by Simulator)
    StoragePool <- CommandTrace     Replay <- BatchReplay     WorkerRound     ShadowPool

`A <- B`: B extends or instantiates A. Each `MC...` module gives the constants of one
of these their values, each `...Proofs` module holds theorems about one; those about CommandTrace
are in StoragePoolProofs, those about TieredCache in SimulatorProofs.

### TreeShape, SegmentTree, RadixTree, MCRadixTree, RadixTreeProofs

`TreeShape` has the queries of the tree on a map `up` from each block to its ancestors:
segments, segment leaves, children, what lies below. `SegmentTree` adds the
two ways the tree changes, `Grow` and `Shrink`; it is the specification that Simulator
builds on. `RadixTree` is what the code has instead: records in a vector with parent, first-child
and sibling links, an index from hash to slot, a second index for a node that is
detached but not released, and a stack of free slots. `ImplementsTree` is `SegmentTree`'s specification
with `up` computed along the parent links; `WalksExact` compares each query, followed
link by link as the code does, with its definition in `TreeShape`. The slots of live nodes are
`Standing`, with those of detached nodes `Used`; a parent link is followed from any of these,
the other links from live ones.

### Simulator, MCSimulator, SimulatorProofs

One step is the code between two returns to a loop that may call out: the
capacity loop, the eviction loop, the background drain, the blocks of a request.
`pc` says where the outermost call is; `frames` is the stack of pending
`ensure_capacity()` calls, each with the tier, the block list its caller noted
*before* the call, what it protects and what the caller does next (`then`).

| TLA+ | code |
|---|---|
| `up[h]` | the path of node `h` in RadixTree (`{}`: no node). Segments, leaves and children are computed from it |
| `mem`, `loc`, `used` | `in_memory`, storage location, `used_blocks_` |
| `first`, `last` | `StoragePolicyState::entries_` |
| `recency` | `BaselineMemoryLruPolicy`'s list |
| `Submit` `BeginRequest` `EndRequest` `Finish` `Close` | `process_request`, `finish` |
| `IdleTrim` `BackgroundMove` `EndTick` `RejectBackground` | `run_until`, `drain_background_tick` |
| `MemoryHit` `GlobalMiss` `StorageHit` `AdmitHit` `BypassHit` | `process_access` |
| `Insert` `DropVictim` `SelectVictim` `EvictCopies` `EvictDone` `Dump` | `insert_into_memory`, `evict_from_memory`, first half of `dump_segment` |
| `ReclaimByTrim` `ReclaimByMove` `Grant*` `Reject*` | `ensure_capacity` and what each caller does with its answer |
| `Pruned` | `prune_segment`, `prune_from` |

`Family` stands for the policy families by how they use the flow: `"baseline"`
(fixed and ratio: SLC pressure relocates, TLC pressure trims), `"share"` (every
pressure trims), `"adaptive"` (trims, promotes after an access, background plane).
Where a family computes a tier or a threshold from floating-point statistics
the model picks any value of `Placements`, `IdleAges`, `PromotionAges`: the
properties hold whatever is picked.

`MemoryPolicy` says how a victim is chosen: `"lru"` as the baseline and the indexed policy do,
`"context"` any segment with nothing in DRAM below, since the score of the context
policy is checked on its own (`ContextWithinBudget`), and without the climb to the
parent segment, as its `evict()` asks. `Grains` is what `max_eviction_blocks` may be, 0 for no
bound: an eviction then takes only the deepest blocks of a segment (`Leaving`), and the
rest stays.

### TieredCache

What is left when tree, segments, recency, counters and calls are taken away: blocks in DRAM,
blocks on two tiers, the blocks a request pins, and the block being asked for. `Evict`
takes blocks out of DRAM and writes all that have no SSD copy to one tier with room, or
none; `Trim` takes copies nobody pinned; `Move` goes from SLC to a TLC with room; `Fill` and
`Bypass` end every `Ask`. `ImplementsCache` is this specification with `pinned`
the protected prefix of the request and `asking` the active node; the tiers are counted from the
blocks, not read from `used`. Every policy is covered by the same specification, since it
leaves open which blocks go. The adaptive family does not implement it, for two reasons
the code has: its background plane trims and moves between requests, and its promotions after an access may
exceed the limit of TLC (section 5).

### IndexedMemory, RoundRobinIndex, IndexedSimulator, MCIndexedSimulator, IndexedSimulatorProofs

Two policies do not scan. `IndexedMemory` has the state of `IndexedMemoryLruPolicy`, `RoundRobinIndex` that
of `WearShareRoundRobinStoragePolicy`, as records, and an operator for each callback,
from the record and the tree to the record. `IndexedSimulator` is Simulator with both: each
of its steps is a step of Simulator with the callbacks the code makes in it, in their order.
A prune is a sequence of callbacks, one per detached node, each of which sees the tree as it is
then (`Dead`, `Detached`, `TreeAfter`). `mix(endpoint) % groups` is a function from endpoints to groups, any of
`Groupings`. The placement of a dump is no choice here but what `place_dump` computes
from the blocks written so far (`ChooseTier`).

| TLA+ | code |
|---|---|
| `memory.segments` `.ends` `.handle` `.groups` `.below` | `segments_`, `endpoints_`, `residents_[].segment`, `groups_`, `subtree_memory_` |
| `storage.segments` `.candidates` `.below` `.program` | `segments_`, `candidates_`, `subtree_storage_`, `program_bytes_` |
| `NodeCreated` `NodePruned` `Inserted` `Accessed` `Removed` `Written` `Trimmed` `Touched` | `on_node_created`, `on_node_pruned`, `on_commit` by kind |
| `Victim`, `ContextVictim` | `search` + `select_victim`, `indexed_victim`, the context policy's `select_victim` |

### FeedbackSimulator, MCFeedbackSimulator, FeedbackSimulatorProofs

Simulator with what the wear-balanced policy adds when it tunes itself: ghosts, windows, a
second clock, and the controller of the idle multiplier. `CloseWindow` is the other
branch of `run_until`; the steps of Simulator go on when no window is due before them
(`FeedbackDue`). Losses are those of the step (`Lost`), with the time of the tick or
the request. `lostAt`, `tally` and `kinds` are history variables: the properties compare
the code's bookkeeping with them. A level of the multiplier is 0.01 of its logarithm,
and a step is `exp(-0.03)`, `exp(-0.02)` or up to `exp(0.02)`. The smoothed reuse
and the stress of the pools are numbers the model does not compute: whether a window with
enough samples is a violation, headroom or neither, and whether there is stress, is any
answer. Ghost lifetime, streaks and warm-up are constants and smaller than in the code.

### StoragePool, MCStoragePool, StoragePoolProofs

The address level, which Simulator abstracts to counters: `allocate` and `release`
on a stack, used by dumps, trims and relocations. A relocation allocates every
destination before it releases a source, and nothing bounds what it allocates: with
`capacity_ready` the code does not ask, and the caller of section 5 has asked for
fewer blocks than are moved, so `StartRelocation` takes any set of SLC blocks, however full TLC
is. A dump is granted the blocks it writes (`Write`). Nothing here says that a tier stays
within its capacity; that is `WithinLimit` of Simulator. `AddressesDense` carries it over to the
addresses: those ever handed out are as many as the peak occupancy, so where `WithinLimit`
holds every address of the trace is within its tier, and where it fails the trace may name one
that `mqsim.py` refuses.

### CommandTrace, MCCommandTrace

StoragePool with the I/O events its steps emit and what `mqsim.py` makes of them. Converting
a trace reads it from front to back, so the model converts each event when it is emitted
(`Emit`): its chunks get predecessors from the tracker (`Conflicts`), from
`depends_on_sequence` and from the chunk before. `StartDevice` ends the trace
anywhere, as `event_limit` may, and `Execute` lets the device run any
command whose predecessors are done: flows of different streams are not ordered by anything
else. The location of a command is tier, stream, address and chunk, as in the key of
the tracker; every event is one block long, so locations are equal or disjoint.

### Replay, BatchReplay, MCBatchReplay, BatchReplayProofs

`Replay` is the abstract specification of `replay_batches()`: batches processed
once each in order, `finish()` at the end of the source and only there, an
error after every batch before it. `BatchReplay` has both threads, the condition
variable, the reservation, cancellation and join, and the path without prefetch.
A critical section is one step, and `wait_for` puts a thread to sleep in
the step that found its predicate false. `ImplementsReplay` is `Replay`'s
specification under a refinement mapping: `running` while the call has not
returned, errors visible only once raised.

### WorkerRound, MCWorkerRound, WorkerRoundProofs

The rounds of `search_groups()`: `Publish` (pending, epoch, notify), `Begin`,
`Search` (no mutex held), `Report` and `Collect`, with `Decide` for the choice of
the sample and the second round over the other groups, `Spawn` and `Stop` for
constructor and destructor, and spurious wake-ups. What a group holds is a number,
the least key of a leaf segment in it; the tree may change between decisions
(`Decide` takes any member of `Bests`), since commits happen there. Keys of
different groups are distinct in the code; the model does not need it.

### ShadowPool, MCShadowPool, ShadowPoolProofs

One pool of `shadow_ftl.cpp`, which simulates a page-mapped flash device under the
trace. A write needs an open block for its stream, `allocate()` collects garbage to
get one, and a collection appends to open blocks itself, opening some on its way.
A step is the code between two calls of `append()`, `allocate()` and `collect()`.

| TLA+ | code |
|---|---|
| `mapping`, `filled`, `valid`, `free`, `active`, `open` | `mapping_`, the slots of `blocks_`, `free_`, `active_`, `open_` |
| `target` | the page a `write()` is about to append |
| `victim`, `left` | the block `collect()` chose and its valid slots not yet copied |
| `Write` `Place` `Trim` | `write`, `trim`, called by `consume` |
| `Collect` `OpenForWrite` `Exhaust` | `allocate` for a write |
| `Copy` `OpenForCopy` `Erase` | the rest of `collect` |

Last writes and erase counts order blocks that tie, for a victim and for the next
free block; the model leaves the ties open, so they are not in its state. A page is the
pair of stream and logical page, as in the code. The pool's caller trims an address
before it is used again (StoragePool: it is released first), so a write never finds its
page mapped. `nominal` is how many logical pages the tier may use at a time.

## 3. Runs

| Run | Instance | Distinct states | What it shows |
|---|---|---|---|
| `simulator_baseline` | 3 paths over 5 blocks, DRAM 2, SLC 1, TLC 2, 5 requests | 56 464 | a dump to SLC waits for the move of its victim, which waits for a trim in TLC: nothing protected is lost, limits hold, every call returns, and every step is one of TieredCache or none |
| `simulator_share` | same, bypassed hits, context policy: drops, evictions of at most 1 or 2 blocks | 94 970 | tree, recency list and noted endpoints agree when parts of segments are dropped, dumped and trimmed |
| `simulator_adaptive` | same, SLC 2, TLC 1, period 1, times to 3, 3 requests | 17 515 | idle trims, background moves and access promotions; ticks drain |
| `simulator_stale` | crowded paths, TLC 1 | stops at the violation | the finding of section 5 |
| `indexed_simulator` | 3 paths over 5 blocks, DRAM 2, SLC 1, TLC 2, 4 requests, 1 or 2 groups, share 1/3, budget 2 | 53 716 | both indexes after every callback, and their victims against the scans |
| `feedback_simulator` | 2 paths over 3 blocks, DRAM 1, SLC 1, TLC 1, windows of 2, ticks of 3, clock to 7, 4 requests | 462 548 | windows and ticks that coincide, and both clocks running out; ghosts; the controller |
| `radix_tree` | 4 blocks | 41 242 | every tree, sibling order and history of slots |
| `storage_pool` | 4 blocks (symmetric), SLC 2, TLC 3 | 1 797 | every address is recycled, relocations of two blocks, that fit or take TLC to four |
| `command_trace` | 2 blocks (symmetric), tiers of 1 block, 2 streams, 2 chunks, 6 events | 1 371 928 | every order of the commands of every such trace |
| `batch_replay` | 6 sources, 3 configurations | 1 086 | all interleavings of two threads for sources that end, fail, or hold an oversize or misnumbered batch |
| `shadow_pool` | 4 blocks of 2 pages, limit 3, 2 streams, 5 pages, nominal 4 and 5 | 255 149 | collections within writes, copies that open blocks, exhaustion when the pages do not fit |
| `worker_round` | 3 workers, 3 groups, sample of 2, 2 decisions | 19 829 | all interleavings of three workers and the simulator, with shutdown at any time |

Why these bounds. A fork with one branch of two blocks, and an unrelated path, is
the least tree with segments of different length, a merge of a fork parent into
its last branch, and a victim outside the request's path. DRAM of two blocks
against paths of three forces an eviction in the middle of a path, and several
segments in one eviction. Limits of one and two make one tier overflow into the
other and the other overflow too, and make a segment of two blocks not fit at
all. Five requests are enough for a block to be dumped, moved, trimmed and
written again. Idle and promotion ages within the clock make both fall due, in
either order and together. Two decisions of two rounds let a result of an earlier
round be left over; three workers leave one with an empty share of a sample of
two. Four blocks are the fewest a pool of two streams has; four pages and an open block of
the other stream just fit under the limit of three, five do not, so exhaustion is reached,
and one page may be written by either stream.
Four blocks give every shape the tree's cases tell apart: a list of three siblings cut at
head, middle and tail, and a fork below another block. Tiers of one
block make every second dump reuse an address, and moving both blocks takes TLC to two; six events hold a whole relocation, which
is three, with a write before it and a reuse of the source after it; two chunks tell the
first command of an event from the last. In the feedback run windows of two and ticks of
three coincide at six, the clock ends at seven so that both run out, and a lifetime of three
lets ghosts expire between requests; three windows are closed, enough to raise the multiplier after two
violations and to lower it under stress after three. A decrease for headroom needs a
multiplier above its floor first, hence five windows: it is not reached at this bound. `MaxTime`, `MaxRequests` and `MaxDecisions` only bound the environment; the
other counters stay finite by themselves. `DeepPaths` and the limits are chosen so
that every action fires in some run.

Deadlock is checked in every run: Simulator (and the two modules that extend it), BatchReplay,
WorkerRound, ShadowPool and CommandTrace have an explicit stuttering step for the finished (or
exhausted) state, and StoragePool and RadixTree never stop. In CommandTrace the check says
something: the predecessor lists have no cycle, the device always has a command to run.

Every property of a passing run has a mutant in PROJECT.json: a definition next
to the one it replaces (`LruLeavesUnprotected`, `KeptWithoutActive`,
`ReportQuietly` ...), with a plausible bug that makes the property fail.

### Fairness

* Simulator: `WF(Run)`. The program is single threaded, a call that was made
  goes on until it returns. Nothing obliges a caller to send a request or to finish.
* BatchReplay: weak fairness of each thread. A thread that waits for the lock gets it,
  since critical sections are finite; `next(iterator)` and `process_batch()`
  are assumed to return.
* WorkerRound: weak fairness of each worker and of the simulator's thread inside a
  round, for the same reason. Spurious wake-ups, decisions and destruction are not fair.
* IndexedSimulator, FeedbackSimulator, RadixTree, StoragePool, CommandTrace: none; their properties are
  about safety.
* ShadowPool: `WF(Step)`. `consume()` is a call on one thread; writes and trims are not fair.

## 4. Proofs

Every theorem holds for all values of the constants that satisfy the
`ASSUME` of the component's module. `LimitsHold` and `CacheImplemented` alone assume more:
their statements exclude the adaptive family.

**SimulatorProofs.** Inductive invariant

    IInv == TypeOK /\ UsedIsStored /\ StackShape /\ PendingExact
              /\ ProtectionInherited /\ MemoryBounded

Most of these are not inductive alone. A counter stays equal to the number of blocks
(`UsedIsStored`) only if the blocks that are written were nowhere and those that
move were on SLC, which is `PendingExact`: the lists noted before the capacity
call are still true. `PendingExact` survives the calls in between because what is
trimmed meanwhile avoids everything that waiting callers protect
(`ProtectionInherited`), and because only a relocation can be above a
dump in the stack (`StackShape`). `MemoryBounded` carries, besides the bound, why the single
eviction makes room: what is about to leave still holds a DRAM block until there is
room. With partial evictions that needs a deepest DRAM block in every segment that has one, a least
element of a set of naturals (`LeavingSome`). Theorems: `TypeInvariance`, `CountersExact`, `DramBounded`,
`NestingBounded`, `PendingListsExact`, `ProtectionNested`, the action property
`ShieldedBlocksSurvive`, and the limits: `LimitsHold` for every family but the
adaptive one, and `LimitInvariance`, that the limit of SLC holds for every family.

`CacheImplemented`: initial states map to initial states and every
step to a step of TieredCache or a stutter. From `IInv` come the limits (`UsedIsStored`: the counter the
code compares is the number of blocks TieredCache counts), what a dump writes (`PendingExact`) and
that a trim spares what is pinned (`ProtectionInherited`); `AskingExact` adds
that a block is asked for during all of it.

`RecencyIsMemory` (`RecencyMirrorsMemory`) has `Listed` as its invariant: the recency list has the
DRAM residents and each once. What `Without` leaves of a list is shown by looking at the least
position at which it would differ from what it should be. That an insertion puts no block twice
on the list needs `Entering`: from the miss to the insertion, through every eviction, the block
asked for is not in DRAM.

The tree: `TreeInv /\ AccessInv`, then `LiveInv` for what is noted
across calls, all next to `IInv`. `TreeInv` adds to `TreeExact` that ancestors are in line
and that no two nodes are above each other. The one lemma about `Pruned` is that it keeps
all this when the blocks it starts from are all that lost what they held
(`PruningKeepsTree`); `AccessInv` says why the block being accessed, which may hold
nothing yet, is there when its successor is created below it, and why a storage
hit is on the SSD when its promotion returns. Theorem `TreeIsExact`, for
every family. `EndpointsStayLive` rests on a second lemma: pruning from a segment
removes no node outside of that segment (`PruningKeepsOthers`). If a node outside were removed,
everything below it would hang on the path to the segment's endpoint, so no fork would be
between them, and the node would belong to the segment. A trim avoids the
segments of all pending endpoints, and the segment above the one being evicted is outside of it.

**IndexedSimulatorProofs.** `CoreInv` is what SimulatorProofs shows, since every step here is a
step of Simulator. `StorageInv` says that the index is what a scan would build: every segment is due
what its blocks tell (`Agrees`: how many of them are on each tier, and their latest access), the
candidates are the keys of the segments that hold something (`Keyed`), and the counters along the
paths are the stored blocks below (`Counted`). Two lemmas about the shape of the tree carry
it: a created block is a `Sprout` below a leaf or at a new fork, a detached one its reverse
(`CreatedKeepsIndex`, `PrunedKeepsIndex`), and in both only the segment of the block and those
that the parent is in, before or after, change. A prune is a sequence of those: the `Rank` of a dead block, by what is below it,
puts every block after all that hang below it (`RankFound`, `CutStep`), so each is a tip when it is detached.
A commit refreshes the segment of the endpoint it is given, which must be the segment of all its blocks:
`Noted` says that what a pending call noted still lies in the endpoint's segment, because pruning
elsewhere only joins segments (`LineKept`). `StorageIndexFindsTheScan` (`StorageVictimIsScan`) follows.

The index of the memory policy is not rebuilt from the tree but repaired: handles move,
segments are cut and merged, and a group holds a segment under a key that must be found again
when its newest member changes. Its invariant is

    MemoryInv == /\ Matched(memory, up) /\ InDram(memory) = mem
                 /\ Listed /\ Entering /\ InOrder(recency, memory.recency)

`Matched` has a part that is about the record alone, `Sound`: recencies differ and lie in the past
(`Clocked`), a block is a member of the segment its handle leads to and of no other (`Staffed`), an
endpoint has one segment (`Seated`), and the groups hold exactly the keys of the segments, except
for those that are unpublished at that moment (`Listing`). The helpers of the code keep `Sound`
with the exception growing and shrinking (`Unpublish`, `Publish`, `Forget`, `EnsureSegment`), each
callback ends with no exception. The other parts, `Fitting` and `Tallied`, compare it with the tree:
the handle of a block leads to the end of its segment, and a counter is the number of DRAM blocks below.
A created or a detached node changes the segments as above (`CreatedKeepsMemory`, `PrunedKeepsMemory`),
and only the segments that the code looks at have a member that needs another handle; a prune is
again the sequence of its callbacks. `MemoryIndexAgrees`
(`MemoryIndexExact`) follows from `Matched`. For the victims the order of the clock
must be the order of the baseline policy's list (`InOrder`): then the newest block of a segment is
the one at which a walk down the list first meets it (`SpotsOrdered`), a key is admissible exactly when its endpoint
is a leaf of DRAM (`AdmissibleIs`), and the least admissible key over all groups is the segment the scan
names: `MemoryIndexFindsTheScan` (`MemoryVictimIsScan`), whatever the grouping. `ContextStaysWithinBudget`
(`ContextWithinBudget`) adds counting: the members of the keys passed over are the blocks of those segments
(`HerdIs`, `PassedIs`), and of the keys considered there is a best one (`WinnerExists`), since the coldest
is always considered when the budget is positive.

The theorems use `IndexedAssumption`: there is at least one group (the constructor rejects zero), a grouping
maps every endpoint to a group, and the budget is positive
(a number of blocks is compared with `alpha * capacity_blocks`, both positive, so the first whole number
above or at it is what counts).

**FeedbackSimulatorProofs.** `FeedbackKeepsCore`: the simulator with windows, ghosts and controller
implements Simulator, so every theorem about Simulator holds with the
feedback loop. `MultiplierMovesOnEvidence`: the streak counters of the code never
exceed the run of consecutive windows of that verdict in the history (`ControlInv`).
`GhostsAreRecentLosses`: `GhostInv` says that every ghost has its one expiration
and there are no others, that a ghost is the last loss of its block, and that a loss that is no ghost
is older than the lifetime at the time the next request may have.
`WindowsFollowTheClock` (`WindowsExact`) from `WindowInv`: windows and ticks are two clocks, and the
one that is behind goes first. A request is served between the end of the last window
and the end of the open one, and a tick that waits for capacity keeps its window as well;
the open window ends one period after the last, unless the clock ends before. Hence
what the open window counts belongs to the requests whose time is in it (`WindowOf`: the quotient
by the period is that window).

**StoragePoolProofs.** `IInv == PoolOK /\ RelocationOK`. `PoolOK` says of each pool that
held and recycled addresses are together, without repetition, those
below `next`, and that `next` is the peak occupancy; `RelocationOK` that the blocks of a
relocation are still on SLC, and that no other block is on two tiers. Neither speaks of the
capacity, so both hold of relocations that exceed it. Theorems: `AddressesUnique`, `AddressesCompact`,
`CopiesUnique`, `PoolTypeInvariance`.

For CommandTrace the invariant is `TraceInv == IInv /\ PlacesOK /\ TraceLog`. `TraceLog` says of
every prefix of a trace: the tracker knows, place by place, the last mutation
and who read since (`TrackerOK`); of two commands that conflict the later waits for the
earlier, or for a mutation of the place between them (`Ordered`); a command waits for the one
before in its event, and the first of an event for the end of the event it depends on
(`Chained`). With that, what the device has done is closed under conflict (`DoneOK`), whatever
it ran first, and a place holds the last mutation done there. `DeviceFollowsTheTrace`
(`DeviceSequential`) follows. `MovesKeepACopy` (`CopySurvives`) needs the chain of a move as a
whole: its write waits for its read, and its trim for its write. Each event adds its commands at
the end of the log, so every part is shown for the old commands, which nothing changes, and
for the new ones.

**BatchReplayProofs.** `IInv == Typed /\ Ordered /\ Places /\ NoLostWakeup /\ Justified`.
`Places` says which places of the two threads go together, `Ordered` where the
batches between iterator and simulator are, `Justified` what a recorded failure
implies about the source. Theorems: `WakeupsKept`, `OrderKept`, and
`ReplayImplemented`, that initial states map to initial states of `Replay` and every
step to a step or a stutter: the safety part of the refinement. `BudgetExact` (`InflightExact`) adds
`Budget`: the counters are the batches taken but not done, and their bytes, with the full
allowance for the batch that is being built. The limit is kept because the
producer reserves the largest batch before it builds one and returns the difference after.

**WorkerRoundProofs.**

    IInv == TypeOK /\ Counted /\ SeenWhenBusy /\ Placed
              /\ NoLostWakeup /\ RoundOf /\ Partial /\ VictimExact

`Counted` is the heart: `pending` is the number of workers that have not seen this
round or have not reported. From it, nobody searches outside a round. `Partial`: who
has reported left the least key of its share, and the shares cover all
positions (`i % Workers` is a worker), so the least result is the least key
of the round (`RoundResultSpec`); a turn of the ring of groups covers them all (`Ring`),
so two rounds together look at every group. Theorems: `RoundTypes`,
`SearchesIsolated`, `WakeupsOfRoundKept`, `VictimsExact`, for any number of workers,
groups and samples. The lemma `Smallest` gets the least element of a set of
naturals from the well-foundedness of strict inclusion on finite sets.

**ShadowPoolProofs.**

    IInv == TypeOK /\ Places /\ Frontiers /\ MappingExact /\ NoBlockStranded

`Frontiers` says that an open block belongs to one stream and a free block holds
nothing: that is why the block that `append()` fills is never the victim, and why opening
a block loses no page. With it goes `Fits`: what is left of a collection
belongs to one stream, is less than a block and, when no block is free, fits the open block
of that stream. Each copy takes one page from both sides. Theorems, for any number of
blocks, pages and streams: `PoolTypes`, `PagesKept`, `BlocksKept`, and `CollectionsComplete`,
that `allocate()` never throws in the middle of a collection. `ReserveIsEnough`
(`ReserveSuffices`) counts: when all of `active_limit_` blocks are in use and none of them has an
invalid page, the pages fill all of those blocks but the open ones of other streams, which
is what `nominal` leaves no page for. `Ready` carries that through a collection, which may
be one block above the limit until its victim is erased. The sum of the pages of a set of
blocks is bounded by removing one block at a time, from a smallest set that would break the bound.

**RadixTreeProofs.**

    IInv == Typed /\ Owned /\ Hanging /\ Layered(nodes, Rooted, Path)

`Owned`: a used slot has the hash of its owner, a free one none, and no slot has two
owners. `Hanging`: a used slot hangs below a live one or the root, which counts
the live nodes that hang there. That is what makes `children = 0` a safe test in
`detach_leaf`: nothing live hangs below, and nothing detached is left when the next
node is created or detached. `Layered` says that `Path`, the climb along
the parent links, is defined everywhere and never meets a block again. The same climb in the
records of the next state is unique (`OneClimb`), so it is enough to give it: creation adds
one path, detaching and releasing keep the others. Theorems:
`SlotsOwnedOnce` (`SlotsExact`) and `TreeImplemented` (`ImplementsTree`).

`WalksFollowTheTree` (`WalksExact`) adds `SibInv`: the siblings from a node's first child on are
the nodes that hang below it, none comes twice, and the links lead back and forth. Creation ties a
node in front of the others, detaching ties its neighbours, at the head, in the
middle and at the tail (`CreateLinks`, `CutLinks`). The rest is about one state: the ancestors of the blocks
are a tree (`Lines`, `NoTwo`, `OnTheWay`), each walk satisfies the equation that its
query in TreeShape satisfies, and two solutions of one equation agree, since of
the blocks where they differ one would be at the top (`TopBlock`) or at the
bottom (`BottomBlock`).

**Only model-checked.** Liveness (`CallsReturn`, `RoundsReturn`, `WritesEnd`, the fairness part of
`ImplementsReplay`) and anything with ENABLED is out of the prover's reach. So are the
induction theorems of the library: a fact about a recursive function (`Path`, `BytesOf`,
`Without`, `TreeAfter`) is shown here by a smallest counterexample instead, from the well-foundedness of strict
inclusion. Every
invariant that a passing run checks is also a theorem; what TLC alone shows is the liveness above. `WithinLimit` and `ImplementsCache` are
proved for the families they hold for, and checked for the same. The type invariants of the modules
with proofs are theorems and not checked by a run any more.

## 5. Finding

`simulator_stale`: after a storage hit the adaptive policy may ask to promote the hit
segment. `process_access` asks for the capacity of the segment's blocks
(`simulator.cpp:457-467`), and then tells `execute_relocation` that capacity is ready, which
resolves the segment again. Making room may have trimmed and pruned a sibling
branch in between; the fork parent then joins the segment, so more blocks are
allocated than were asked for, and TLC exceeds its limit. The design document
(`.design/vnext-policy-refactor.md:458`) says that capacity must be obtained in TLC for
the complete source segment before a migration. The instance needs two paths
that share a block, requests that push them out of DRAM, and a limit of one block. Every other caller relocates
the list it noted before asking, and `LimitsHold` proves that it stays within the limit.

## 6. What is not modelled, and the plan

Left out for good: the trace writer and metrics (nothing reads them back),
bindings and configuration loading (no state between calls), the Hugging Face
reader and the batch builders (they are the iterator of BatchReplay), running MQSim and
parsing its results, scripts, benchmarks and reports. `infinite_storage`
mode bypasses tiers and capacity, and memory diagnostics decide nothing.

Left open inside modelled components, because a number decides that the model does
not compute: the thresholds of the adaptive and wear-balanced policies (gap
estimator, write-amplification averages, lifetime pressure, smoothed reuse), the
retention and gap history of the context policy, the retention test of the indexed policy. Each
is a nondeterministic choice, so what is checked holds whatever they answer. The
rotation of streams (`next_stream`, `stream_for`) decides no residency; CommandTrace
takes any stream. Reading and checking a trace file (`_read_events`,
`_validate_relocations`) is parsing.

Not begun: a module for the context policy's access
history (a request's growth is published only when it ends), and the stream rotation of
round-robin.
