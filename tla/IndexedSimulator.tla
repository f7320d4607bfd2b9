-------------------------- MODULE IndexedSimulator --------------------------
(***************************************************************************)
(* The simulator with two policies that keep an index of what Simulator's  *)
(* own policies find by a scan: IndexedMemoryLruPolicy for DRAM and        *)
(* WearShareRoundRobinStoragePolicy for the SSD.  Each step of Simulator   *)
(* is taken with the callbacks it makes, in the order the code makes them: *)
(* a created node right after its creation, a commit after its mutation,   *)
(* a pruned node right after it was detached, the deepest first.           *)
(***************************************************************************)
EXTENDS Simulator

CONSTANTS
    GroupCount,     \* groups of the memory policy
    Groupings,      \* what mix() may make of the endpoints: functions to groups
    SlcShare, WholeShare,   \* slc_host_share as a ratio
    Budget          \* candidate_block_budget_ of the context policy

ASSUME IndexedAssumption ==
    /\ GroupCount \in Nat \ {0}
    /\ Groupings \subseteq [Hash -> 0 .. GroupCount - 1]
    /\ Budget \in Nat \ {0}

VARIABLES
    memory,     \* the memory policy
    storage     \* the storage policy

indexedVars == <<vars, memory, storage>>

MI == INSTANCE IndexedMemory
RR == INSTANCE RoundRobinIndex

IndexedInit ==
    /\ Init
    /\ \E g \in Groupings : memory = MI!EmptyIndex(g)
    /\ storage = RR!EmptyIndex

-----------------------------------------------------------------------------
(* The callbacks of a step that prunes.                                     *)

\* The dead nodes are on one path, and the deepest is detached first: the i-th
\* has i nodes in its subtree.
Dead == {h \in Nodes : up'[h] = {}}
Detached(i) == CHOOSE h \in Dead : Cardinality(Subtree(h)) = i

\* The tree once the first i of them are detached.
TreeAfter(i) ==
    [h \in Hash |-> IF h \in Dead /\ Cardinality(Subtree(h)) <= i THEN {} ELSE up[h]]

MemoryPruned(x) ==
    LET after[i \in 0 .. Cardinality(Dead)] ==
            IF i = 0 THEN x
            ELSE MI!NodePruned(after[i - 1], TreeAfter(i), Detached(i), Parent(Detached(i)))
    IN  after[Cardinality(Dead)]

StoragePruned(x) ==
    LET after[i \in 0 .. Cardinality(Dead)] ==
            IF i = 0 THEN x
            ELSE RR!NodePruned(after[i - 1], TreeAfter(i), loc', last', Detached(i),
                               Parent(Detached(i)))
    IN  after[Cardinality(Dead)]

\* The DRAM blocks of an eviction are committed from the top of the segment on.
MemoryRemoved(x) ==
    LET Evicted == mem \ mem'
        Leaver(i) == CHOOSE h \in Evicted : Cardinality(up[h] \cap Evicted) = i
        after[i \in 0 .. Cardinality(Evicted)] ==
            IF i = 0 THEN x ELSE MI!Removed(after[i - 1], up, Leaver(i))
    IN  after[Cardinality(Evicted)]

-----------------------------------------------------------------------------
(* Simulator's steps with their callbacks.                                  *)

Hit ==
    /\ MemoryHit
    /\ memory' = MI!Accessed(memory, Here)
    /\ UNCHANGED storage

Miss ==
    /\ GlobalMiss
    /\ memory' = IF up' = up THEN memory ELSE MI!NodeCreated(memory, up', Here)
    /\ storage' = IF up' = up THEN storage
                  ELSE RR!NodeCreated(storage, up', loc, last, Here)

Admit ==
    /\ Insert
    /\ memory' = MI!Inserted(memory, up, active)
    /\ UNCHANGED storage

ReadStorage ==
    /\ \E a \in PromotionAges : StorageHit(a)
    /\ \E leaf \in SegmentLeaf(Here) : storage' = RR!Touched(storage, up, loc, last', leaf)
    /\ UNCHANGED memory

\* place_dump() answers the tier that keeps the shares.
Place ==
    /\ Dump
    /\ frames'[1].tier = RR!ChooseTier(storage, frames'[1].need)
    /\ UNCHANGED <<memory, storage>>

LeaveUnwritten ==
    /\ DropVictim \/ EvictCopies \/ RejectDump
    /\ memory' = MemoryPruned(MemoryRemoved(memory))
    /\ storage' = StoragePruned(storage)

LeaveWritten ==
    /\ GrantDump
    /\ memory' = MemoryPruned(MemoryRemoved(memory))
    /\ storage' = StoragePruned(RR!Written(storage, up, loc', last', Top.endpoint,
                                           Top.nodes, Top.tier))

Reclaim ==
    /\ ReclaimByTrim
    /\ memory' = MemoryPruned(memory)
    /\ \E e \in LruLeaf(Top.tier, Top.protected) :
          storage' = StoragePruned(RR!Trimmed(storage, up, loc', last', e,
                                              ResidentNodes(e, Top.tier)))

\* Steps that tell the policies nothing they keep in their index.
Silent ==
    /\ \/ Environment \/ BeginRequest \/ EndRequest \/ Close \/ Terminated
       \/ AdmitHit \/ BypassHit \/ SelectVictim \/ EvictDone
    /\ UNCHANGED <<memory, storage>>

IndexedNext ==
    \/ Hit \/ Miss \/ Admit \/ ReadStorage \/ Place
    \/ LeaveUnwritten \/ LeaveWritten \/ Reclaim \/ Silent

IndexedSpec == IndexedInit /\ [][IndexedNext]_indexedVars

-----------------------------------------------------------------------------
(* Properties.                                                             *)

\* The memory index agrees with the tree after every callback, through
\* segments that are extended, cut, shortened and joined while requests, dumps
\* and trims go on.
MemoryIndexExact == MI!Exact(memory, up, mem)

\* A full search of the memory index names the segment the baseline policy's
\* scan of all DRAM blocks names, whatever the grouping.
MemoryVictimIsScan == mem # {} => MI!Victim(memory) = MemoryVictim

\* The storage index names, on either tier and for any single protected block
\* as for everything the pending calls protect, the segment a scan of all
\* stored blocks names, whether descendants are counted or looked up.
StorageVictimIsScan ==
    \A t \in Tier, counts \in BOOLEAN :
        \A protected \in {{}, Shielded} \cup {{h} : h \in Hash} :
            RR!Victim(storage, up, loc, t, protected, counts) = LruLeaf(t, protected)

\* The context policy evicts a segment with nothing in DRAM below it, and what
\* it passes over for it, the colder segments, is less than its budget.
ContextWithinBudget ==
    LET leaves == {e \in UNION {SegmentLeaf(m) : m \in mem} : Below(e) \cap mem = {}}
        Blocks(e) == Segment(e) \cap mem
        Rank(e) == CHOOSE i \in DOMAIN recency :
                      recency[i] \in Blocks(e) /\ \A j \in 1 .. i - 1 : recency[j] \notin Blocks(e)
    IN  mem # {} /\ memory.groupOf = [h \in Hash |-> 0] =>
            \E e \in leaves :
                /\ MI!ContextVictim(memory, up, Budget) = {e}
                /\ Cardinality(UNION {Blocks(o) : o \in {o \in leaves : Rank(o) > Rank(e)}})
                       < Budget
=============================================================================
