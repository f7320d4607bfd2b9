---------------------------- MODULE TieredCache ----------------------------
(***************************************************************************)
(* What the simulator promises of its blocks, whatever the policies choose *)
(* and however capacity requests nest: a cache of blocks in DRAM with two  *)
(* bounded SSD tiers behind it, without tree, segments, recency or calls.  *)
(* A request pins what it found resident when it began; then one block at  *)
(* a time is asked for, and is served from DRAM or from the SSD.           *)
(***************************************************************************)
EXTENDS Integers, FiniteSets

CONSTANTS Hash, MemCapacity, Limit, NoBlock

VARIABLES
    mem,     \* blocks in DRAM
    loc,     \* the SSD tier of each block
    pinned,  \* the blocks whose SSD copy the request in progress may rely on
    asking   \* the block being brought to the reader, NoBlock if there is none

cacheVars == <<mem, loc, pinned, asking>>

CacheTier == {"SLC", "TLC"}
Nowhere == "None"

On(t) == {h \in Hash : loc[h] = t}
HasRoom(t, S) == Cardinality(On(t)) + Cardinality(S) <= Limit[t]
Placed(S, t) == loc' = [h \in Hash |-> IF h \in S THEN t ELSE loc[h]]

CacheInit ==
    /\ mem = {}
    /\ loc = [h \in Hash |-> Nowhere]
    /\ pinned = {}
    /\ asking = NoBlock

Begin ==
    /\ asking = NoBlock /\ pinned = {}
    /\ pinned' \subseteq mem \cup {h \in Hash : loc[h] # Nowhere}
    /\ UNCHANGED <<mem, loc, asking>>

End == asking = NoBlock /\ pinned' = {} /\ UNCHANGED <<mem, loc, asking>>

Ask(h) ==
    /\ asking = NoBlock /\ h \notin mem
    /\ asking' = h
    /\ UNCHANGED <<mem, loc, pinned>>

\* The block asked for enters DRAM, where there is room for it.
Fill ==
    /\ asking # NoBlock /\ Cardinality(mem) < MemCapacity
    /\ mem' = mem \cup {asking} /\ asking' = NoBlock
    /\ UNCHANGED <<loc, pinned>>

\* The block asked for is read where it is.
Bypass ==
    /\ asking # NoBlock /\ loc[asking] # Nowhere
    /\ asking' = NoBlock
    /\ UNCHANGED <<mem, loc, pinned>>

\* Blocks leave DRAM, and either those without an SSD copy are all written to
\* one tier that has room for them, or none is.
Evict(S, t) ==
    LET unwritten == {h \in S : loc[h] = Nowhere}
    IN  /\ asking # NoBlock
        /\ mem' = mem \ S
        /\ \/ loc' = loc
           \/ HasRoom(t, unwritten) /\ Placed(unwritten, t)
        /\ UNCHANGED <<pinned, asking>>

\* Blocks nobody pinned lose their SSD copy, to make room.
Trim(S) ==
    /\ asking # NoBlock /\ S \cap pinned = {}
    /\ Placed(S, Nowhere)
    /\ UNCHANGED <<mem, pinned, asking>>

\* Blocks move from SLC to TLC, to make room.
Move(S) ==
    /\ asking # NoBlock /\ HasRoom("TLC", S)
    /\ Placed(S, "TLC")
    /\ UNCHANGED <<mem, pinned, asking>>

CacheNext ==
    \/ Begin \/ End \/ Fill \/ Bypass
    \/ \E h \in Hash : Ask(h)
    \/ \E S \in SUBSET mem, t \in CacheTier : Evict(S, t)
    \/ \E t \in CacheTier : \E S \in SUBSET On(t) : Trim(S)
    \/ \E S \in SUBSET On("SLC") : Move(S)

CacheSpec == CacheInit /\ [][CacheNext]_cacheVars
=============================================================================
