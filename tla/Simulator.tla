----------------------------- MODULE Simulator -----------------------------
(***************************************************************************)
(* The dwpdsim core: Simulator::process_request and everything it calls    *)
(* that changes the block tree, the DRAM residency, the SSD residency or   *)
(* the policies' recency state (cpp/src/simulator.cpp).                    *)
(*                                                                         *)
(* The C++ program is single threaded; what makes it hard is re-entrance.  *)
(* A memory eviction asks for SSD capacity, capacity is obtained by moving *)
(* or trimming other segments, that prunes the tree, and the caller goes   *)
(* on with what it read before.  So a request is a sequence of steps here, *)
(* one per return to the capacity loop, and the pending callers are an     *)
(* explicit stack of frames.                                               *)
(***************************************************************************)
EXTENDS Integers, FiniteSets, Sequences, SegmentTree

CONSTANTS
    Paths,          \* the hash sequences requests carry
    MemCapacity,    \* memory_capacity_blocks_
    Limit,          \* capacity_limit_blocks() of each tier
    Family,         \* storage policy family: "baseline", "share", "adaptive"
    Placements,     \* tiers place_dump() may pick
    AdmitHits,      \* admit_storage_hits of the memory policy
    Drops,          \* whether evict() may answer Drop (retention)
    MemoryPolicy,   \* "lru" (baseline, indexed) or "context"
    Grains,         \* max_eviction_blocks of a decision, 0 = unset
    Period,         \* background period, 0 = no background plane
    IdleAges,       \* values idle_threshold_seconds() may take
    PromotionAges,  \* values effective_promotion_seconds() may take
    MaxClock,       \* largest TimestampNs
    MaxTime,        \* bound on request timestamps
    MaxRequests     \* bound on the number of requests

Tier == {"SLC", "TLC"}
None == "None"

ASSUME SimulatorAssumption ==
    /\ Hash \subseteq Nat \ {0} /\ IsFiniteSet(Hash)
    /\ Paths \subseteq Seq(Hash)
    /\ MemCapacity \in Nat \ {0}
    /\ Limit \in [Tier -> Nat]
    /\ Family \in {"baseline", "share", "adaptive"}
    /\ Placements \subseteq Tier
    /\ AdmitHits \in BOOLEAN /\ Drops \in BOOLEAN
    /\ MemoryPolicy \in {"lru", "context"}
    /\ Grains \subseteq Nat /\ Grains # {} /\ (MemoryPolicy = "lru" => Grains = {0})
    /\ MaxClock \in Nat /\ Period \in 0 .. MaxClock /\ MaxTime \in 0 .. MaxClock
    /\ IdleAges \subseteq Nat /\ PromotionAges \subseteq Nat
    /\ MaxRequests \in Nat

VARIABLES
    mem,     \* nodes with in_memory
    loc,     \* storage tier of each node, None unless on_storage
    used,    \* StorageTierState::used_blocks_
    first, last,  \* StoragePolicyState::entries_ (first_ns, last_ns)
    recency, \* BaselineMemoryLruPolicy's list, most recent first
    tick,    \* next_background_tick_ns_, 0 = none to come
    now,     \* last_timestamp_ns_
    req,     \* the request being processed: path, time, position, prefix
    served,  \* number of requests accepted
    active,  \* active_node_id_
    cursor,  \* the endpoint evict_from_memory's loop is at
    frames,  \* pending ensure_capacity() calls, innermost first
    pc

treeVars == <<up, mem, loc, used, first, last, recency>>
vars == <<up, mem, loc, used, first, last, recency, tick, now, req, served,
          active, cursor, frames, pc>>

-----------------------------------------------------------------------------
(* StorageView, and what prune_segment() leaves of the tree.                *)

Resident(n) == n \in mem \/ loc[n] # None
Stored(t) == {h \in Hash : loc[h] = t}

ResidentNodes(e, t) == {n \in Segment(e) : loc[n] = t}

IsStorageLeaf(e) ==
    /\ \E n \in Segment(e) : loc[n] # None
    /\ \A d \in Below(e) : loc[d] = None

\* prune_segment(): from each node of seg towards the root, nodes that keep
\* nothing and have no child left disappear; nodes in keep stop the walk.
Pruned(seg, keep) ==
    LET reach == UNION {up[s] : s \in seg}
        dead  == {n \in reach : Subtree(n) \subseteq reach \ keep}
    IN  [h \in Hash |-> IF h \in dead THEN {} ELSE up[h]]

\* Mutant of Kept: prune_from() without its test for the active node.
KeptWithoutActive(m, l) == m \cup {h \in Hash : l[h] # None}

\* What stops prune_from() once memory holds m and storage holds l.
Kept(m, l) == m \cup {h \in Hash : l[h] # None} \cup {active}

-----------------------------------------------------------------------------
(* Policies. *)

LastNs(e, t) == LET S == {last[n] : n \in ResidentNodes(e, t)}
                IN  CHOOSE x \in S : \A y \in S : y <= x
FirstNs(e, t) == LET S == {first[n] : n \in ResidentNodes(e, t)}
                 IN  CHOOSE x \in S : \A y \in S : x <= y

TierSegments(t) == UNION {SegmentLeaf(n) : n \in Stored(t)}

\* Mutant of LruLeaves: the protected nodes are not looked at.
LruLeavesUnprotected(t, protected) == {e \in TierSegments(t) : IsStorageLeaf(e)}

\* Mutant of LruLeaves: only the endpoint is compared with the protected nodes.
LruLeavesByEndpoint(t, protected) ==
    {e \in TierSegments(t) : IsStorageLeaf(e) /\ e \notin protected}

\* Leaves of the SSD residency that hold blocks of t and no protected block.
LruLeaves(t, protected) ==
    {e \in TierSegments(t) : IsStorageLeaf(e) /\ Segment(e) \cap protected = {}}

\* lru_leaf(): the least recently accessed of them, ties by NodeId.
LruLeaf(t, protected) ==
    LET C == LruLeaves(t, protected)
    IN  {e \in C : \A o \in C : \/ LastNs(e, t) < LastNs(o, t)
                                \/ LastNs(e, t) = LastNs(o, t) /\ e <= o}

\* oldest_segment(): the segment with the oldest block on t.
OldestSegment(t) ==
    LET C == TierSegments(t)
    IN  {e \in C : \A o \in C : \/ FirstNs(e, t) < FirstNs(o, t)
                                \/ FirstNs(e, t) = FirstNs(o, t) /\ e <= o}

\* Segments with no memory below.
MemoryLeaves == {e \in UNION {SegmentLeaf(m) : m \in mem} : Below(e) \cap mem = {}}

\* BaselineMemoryLruPolicy::evict: of those segments, the one whose most
\* recently used member is the least recent.
MemoryVictim ==
    LET rank(e) == CHOOSE i \in DOMAIN recency :
                      /\ e \in SegmentLeaf(recency[i])
                      /\ \A j \in 1 .. i - 1 : e \notin SegmentLeaf(recency[j])
    IN  {e \in MemoryLeaves : \A o \in MemoryLeaves : rank(o) <= rank(e)}

\* evict(): the context policy also weighs depth and size, any leaf here.
Victims == IF MemoryPolicy = "context" THEN MemoryLeaves ELSE MemoryVictim

\* Mutant of Without: the list forgets only the least recent block.
WithoutLast(s, S) == SelectSeq(s, LAMBDA h : h \notin S \/ h # s[Len(s)])

\* detach() of every block of S from the list s.
Without(s, S) ==
    LET rest[i \in 0 .. Len(s)] ==
            IF i = 0 THEN <<>>
            ELSE IF s[i] \in S THEN rest[i - 1] ELSE Append(rest[i - 1], s[i])
    IN  rest[Len(s)]

\* next_background_action() of the adaptive family, at the tick: an idle leaf
\* to trim or an aged SLC segment to promote, whichever fell due first.
BackgroundAction(idleAge, promotionAge) ==
    LET Idle(t) == {[kind |-> "trim", tier |-> t, endpoint |-> e,
                     due |-> LastNs(e, t) + idleAge] : e \in LruLeaf(t, {})}
        move == {[kind |-> "move", tier |-> "SLC", endpoint |-> e,
                  due |-> FirstNs(e, "SLC") + promotionAge] : e \in OldestSegment("SLC")}
        ready == {a \in Idle("SLC") \cup Idle("TLC") \cup move : a.due <= tick}
        Precedes(a, b) ==
            \/ a.due < b.due
            \/ /\ a.due = b.due
               /\ \/ a.kind = "trim" /\ b.kind = "move"
                  \/ /\ a.kind = b.kind
                     /\ \/ a.endpoint < b.endpoint
                        \/ a.endpoint = b.endpoint /\ (a.tier = b.tier \/ a.tier = "SLC")
    IN  {a \in ready : \A b \in ready : Precedes(a, b)}

-----------------------------------------------------------------------------
(* Storage mutations.  Each sets loc, used, first, last, mem and up.        *)

\* Mutant of Allocate: one block is counted per segment.
AllocateSegment(t, nodes) == used[t] + 1

\* used_blocks_ after allocate() or release() of one address per node.
Allocate(t, nodes) == used[t] + Cardinality(nodes)
Release(t, nodes) == used[t] - Cardinality(nodes)

TrimNodes(nodes, t) ==
    LET l == [h \in Hash |-> IF h \in nodes THEN None ELSE loc[h]]
    IN  /\ loc' = l
        /\ used' = [used EXCEPT ![t] = Release(t, nodes)]
        /\ first' = [h \in Hash |-> IF h \in nodes THEN 0 ELSE first[h]]
        /\ last' = [h \in Hash |-> IF h \in nodes THEN 0 ELSE last[h]]
        /\ up' = Pruned(nodes, Kept(mem, l))
        /\ UNCHANGED <<mem, recency>>

\* READ, WRITE and TRIM of execute_relocation(), from SLC to TLC.
MoveNodes(nodes) ==
    /\ loc' = [h \in Hash |-> IF h \in nodes THEN "TLC" ELSE loc[h]]
    /\ used' = [used EXCEPT !["TLC"] = Allocate("TLC", nodes),
                            !["SLC"] = Release("SLC", nodes)]
    /\ UNCHANGED <<up, mem, first, last, recency>>

\* Evict the blocks in leaving, of the segment seg, after writing nodes to tier
\* t (none when the dump was refused or nothing had to be written).
LeaveMemory(seg, leaving, nodes, t) ==
    LET l == [h \in Hash |-> IF h \in nodes THEN t ELSE loc[h]]
    IN  /\ loc' = l
        /\ used' = IF nodes = {} THEN used
                   ELSE [used EXCEPT ![t] = Allocate(t, nodes)]
        /\ first' = [h \in Hash |-> IF h \in nodes THEN req.time ELSE first[h]]
        /\ last' = [h \in Hash |-> IF h \in nodes THEN req.time ELSE last[h]]
        /\ mem' = mem \ leaving
        /\ recency' = Without(recency, leaving)
        /\ up' = Pruned(seg, Kept(mem \ leaving, l))

-----------------------------------------------------------------------------
(* process_request(): accept, catch up with the background plane, access.   *)

\* Control is at label l, with no capacity request pending.
At(l) == pc = l /\ frames = <<>>

NoRequest == [path |-> <<>>, time |-> 0, pos |-> 1, prefix |-> {}]

Init ==
    /\ up = [h \in Hash |-> {}]
    /\ mem = {}
    /\ loc = [h \in Hash |-> None]
    /\ used = [t \in Tier |-> 0]
    /\ first = [h \in Hash |-> 0]
    /\ last = [h \in Hash |-> 0]
    /\ recency = <<>>
    /\ tick = Period
    /\ now = 0
    /\ req = NoRequest
    /\ served = 0
    /\ active = NoNode
    /\ cursor = NoNode
    /\ frames = <<>>
    /\ pc = "idle"

\* A request with a timestamp that has not moved backwards is accepted.
Submit(path, t) ==
    /\ At("idle") /\ served < MaxRequests /\ t >= now
    /\ req' = [NoRequest EXCEPT !.path = path, !.time = t]
    /\ served' = served + 1
    /\ pc' = "catch_up"
    /\ UNCHANGED <<treeVars, tick, now, active, cursor, frames>>

\* finish(simulation_end_ns) only runs the background plane.
Finish(t) ==
    /\ At("idle") /\ t >= now
    /\ req' = [NoRequest EXCEPT !.time = t]
    /\ pc' = "closing"
    /\ UNCHANGED <<treeVars, tick, now, served, active, cursor, frames>>

TickDue == tick # 0 /\ tick <= req.time
CatchingUp == TickDue /\ (At("catch_up") \/ At("closing"))

\* What the background plane asks for; the wear-balanced policy decides like the
\* adaptive one, the others have no background plane.
Background(idleAge, promotionAge) ==
    IF Family = "adaptive" THEN BackgroundAction(idleAge, promotionAge) ELSE {}

IdleTrim(idleAge, promotionAge) ==
    /\ CatchingUp
    /\ \E a \in Background(idleAge, promotionAge) :
          a.kind = "trim" /\ TrimNodes(ResidentNodes(a.endpoint, a.tier), a.tier)
    /\ UNCHANGED <<tick, now, req, served, active, cursor, frames, pc>>

\* The capacity request of a step: what is needed, what must survive, what
\* the caller does next and, for a dump, what leaves DRAM then.
Frame(tier, nodes, protected, endpoint, then) ==
    [tier |-> tier, need |-> Cardinality(nodes), nodes |-> nodes,
     protected |-> protected, endpoint |-> endpoint,
     segment |-> Segment(endpoint), leaving |-> {}, then |-> then]

BackgroundMove(idleAge, promotionAge) ==
    /\ CatchingUp
    /\ \E a \in Background(idleAge, promotionAge) :
          /\ a.kind = "move"
          /\ frames' = <<Frame("TLC", ResidentNodes(a.endpoint, "SLC"),
                               Segment(a.endpoint), a.endpoint, "background")>>
    /\ UNCHANGED <<treeVars, tick, now, req, served, active, cursor, pc>>

\* advance(): what would fall due after the end of the clock never does.
Advance(next, period) == IF next > MaxClock - period THEN 0 ELSE next + period

EndTick(idleAge, promotionAge) ==
    /\ CatchingUp
    /\ Background(idleAge, promotionAge) = {}
    /\ tick' = Advance(tick, Period)
    /\ UNCHANGED <<treeVars, now, req, served, active, cursor, frames, pc>>

\* collect_protected_prefix(): the leading blocks that chain from the root
\* and are resident.
Prefix(path) ==
    LET hit(j) == up[path[j]] = {path[k] : k \in 1 .. j} /\ Resident(path[j])
    IN  {path[i] : i \in {k \in DOMAIN path : \A j \in 1 .. k : hit(j)}}

BeginRequest ==
    /\ At("catch_up") /\ ~TickDue
    /\ req' = [req EXCEPT !.prefix = Prefix(req.path)]
    /\ now' = req.time
    /\ pc' = "access"
    /\ UNCHANGED <<treeVars, tick, served, active, cursor, frames>>

Close ==
    /\ At("closing") /\ ~TickDue
    /\ pc' = "finished"
    /\ UNCHANGED <<treeVars, tick, now, req, served, active, cursor, frames>>

Here == req.path[req.pos]

EndRequest ==
    /\ At("access") /\ req.pos > Len(req.path)
    /\ req' = NoRequest
    /\ pc' = "idle"
    /\ UNCHANGED <<treeVars, tick, now, served, active, cursor, frames>>

AtBlock == At("access") /\ req.pos <= Len(req.path)

\* get_or_create(): an existing hash keeps its place whatever its parent is.
Located ==
    IF up[Here] # {} THEN up
    ELSE Grown(Here, IF req.pos = 1 THEN NoNode ELSE req.path[req.pos - 1])

NextBlock == req' = [req EXCEPT !.pos = @ + 1] /\ active' = NoNode /\ pc' = "access"

MemoryHit ==
    /\ AtBlock /\ Here \in mem
    /\ recency' = <<Here>> \o Without(recency, {Here})
    /\ NextBlock
    /\ UNCHANGED <<up, mem, loc, used, first, last, tick, now, served, cursor, frames>>

GlobalMiss ==
    /\ AtBlock /\ ~Resident(Here)
    /\ up' = Located
    /\ active' = Here
    /\ pc' = "insert"
    /\ UNCHANGED <<mem, loc, used, first, last, recency, tick, now, req, served, cursor, frames>>

\* on_storage_access() asks for a promotion once the segment is old enough.
StorageHit(promotionAge) ==
    /\ AtBlock /\ Here \notin mem /\ loc[Here] # None
    /\ active' = Here
    /\ \E leaf \in SegmentLeaf(Here) :
          LET hit == ResidentNodes(leaf, loc[Here])
              aged == /\ Family = "adaptive" /\ loc[Here] = "SLC"
                      /\ req.time - FirstNs(leaf, "SLC") >= promotionAge
          IN  /\ last' = [h \in Hash |-> IF h \in hit THEN req.time ELSE last[h]]
              /\ frames' = IF ~aged THEN <<>>
                           ELSE <<Frame("TLC", hit, req.prefix \cup Segment(leaf),
                                        leaf, "promote")>>
    /\ pc' = "admit"
    /\ UNCHANGED <<up, mem, loc, used, first, recency, tick, now, req, served, cursor>>

\* admit_storage_hit(): into DRAM, or bypassed and left on the SSD.
AdmitHit ==
    /\ At("admit") /\ AdmitHits
    /\ pc' = "insert"
    /\ UNCHANGED <<treeVars, tick, now, req, served, active, cursor, frames>>

BypassHit ==
    /\ At("admit") /\ ~AdmitHits
    /\ NextBlock
    /\ UNCHANGED <<treeVars, tick, now, served, cursor, frames>>

-----------------------------------------------------------------------------
(* insert_into_memory() and evict_from_memory().                           *)

\* Mutant of Full: room is made one block too late.
FullLate == Cardinality(mem) > MemCapacity

Full == Cardinality(mem) = MemCapacity

\* One eviction is all the code asks for before it inserts.
Insert ==
    /\ \/ At("insert") /\ ~Full
       \/ At("store")
    /\ mem' = mem \cup {active}
    /\ recency' = <<active>> \o recency
    /\ NextBlock
    /\ UNCHANGED <<up, loc, used, first, last, tick, now, served, cursor, frames>>

\* memory_nodes: the DRAM blocks of the segment, or the grain deepest of them.
Leaving(e, grain) ==
    LET members == Segment(e) \cap mem
        Deeper(n) == {d \in members : Cardinality(up[d]) > Cardinality(up[n])}
    IN  {n \in members : grain = 0 \/ Cardinality(Deeper(n)) < grain}

DropVictim ==
    /\ At("insert") /\ Full /\ Drops
    /\ \E e \in Victims, grain \in Grains :
          LeaveMemory(Segment(e), Leaving(e, grain), {}, None)
    /\ pc' = "store"
    /\ UNCHANGED <<tick, now, req, served, active, cursor, frames>>

SelectVictim ==
    /\ At("insert") /\ Full
    /\ \E e \in Victims : cursor' = e
    /\ pc' = "evict"
    /\ UNCHANGED <<treeVars, tick, now, req, served, active, frames>>

\* Mutant of Unwritten: blocks without a DRAM copy are dumped as well.
UnwrittenAnywhere(e, grain) == {n \in Segment(e) : loc[n] = None}

Unwritten(e, grain) == {n \in Leaving(e, grain) : loc[n] = None}

\* Mutant of EvictCopies: the loop does not move to the segment above.
EvictCopiesAgain ==
    /\ At("evict") /\ cursor # NoNode
    /\ \E grain \in Grains :
          /\ Unwritten(cursor, grain) = {}
          /\ LeaveMemory(Segment(cursor), Leaving(cursor, grain), {}, None)
    /\ UNCHANGED <<tick, now, req, served, active, cursor, frames, pc>>

\* DRAM blocks that all have an SSD copy only leave DRAM, and the loop goes on
\* with the segment above (reclaim_parent, but for the context policy).  Where
\* the segment has no DRAM block at all the code goes on without pruning; there
\* is nothing to prune then.
EvictCopies ==
    /\ At("evict") /\ cursor # NoNode
    /\ \E grain \in Grains :
          /\ Unwritten(cursor, grain) = {}
          /\ LeaveMemory(Segment(cursor), Leaving(cursor, grain), {}, None)
    /\ \E e \in ParentSegment(cursor) :
          cursor' = IF MemoryPolicy = "context" THEN NoNode ELSE e
    /\ UNCHANGED <<tick, now, req, served, active, frames, pc>>

EvictDone ==
    /\ At("evict") /\ cursor = NoNode
    /\ pc' = "store"
    /\ UNCHANGED <<treeVars, tick, now, req, served, active, cursor, frames>>

DumpFrame(t, e, grain) ==
    [Frame(t, Unwritten(e, grain), req.prefix \cup Segment(e), e, "dump")
        EXCEPT !.leaving = Leaving(e, grain)]

\* dump_segment(): one placement for all unwritten blocks of the eviction.
Dump ==
    /\ At("evict") /\ cursor # NoNode
    /\ \E t \in Placements, grain \in Grains :
          /\ Unwritten(cursor, grain) # {}
          /\ frames' = <<DumpFrame(t, cursor, grain)>>
    /\ UNCHANGED <<treeVars, tick, now, req, served, active, cursor, pc>>

-----------------------------------------------------------------------------
(* ensure_capacity(): the loop of the innermost frame.                      *)

Top == frames[1]
Pending == frames # <<>>

\* Mutant of Fits: any free block is enough.
FitsOne(f) == used[f.tier] < Limit[f.tier]

Fits(f) == used[f.tier] + f.need <= Limit[f.tier]
Short(f) == f.need <= Limit[f.tier] /\ ~Fits(f)
Reclaimable(f) == LruLeaves(f.tier, f.protected)

\* Mutant of RelocatesVictim: TLC victims are relocated as well.
RelocatesAnyVictim(f) == Family = "baseline"

\* The fixed and ratio baselines relocate SLC victims and trim TLC victims.
RelocatesVictim(f) == Family = "baseline" /\ f.tier = "SLC"

\* reclaim_for() answers TrimIntent.
ReclaimByTrim ==
    /\ Pending /\ Short(Top) /\ Reclaimable(Top) # {}
    /\ ~RelocatesVictim(Top)
    /\ \E e \in LruLeaf(Top.tier, Top.protected) :
          TrimNodes(ResidentNodes(e, Top.tier), Top.tier)
    /\ UNCHANGED <<tick, now, req, served, active, cursor, frames, pc>>

\* Mutant of ReclaimByMove: only the moved segment is protected.
ReclaimByMoveAlone ==
    /\ Pending /\ Short(Top) /\ Reclaimable(Top) # {}
    /\ RelocatesVictim(Top)
    /\ \E e \in LruLeaf("SLC", Top.protected) :
          frames' = <<Frame("TLC", ResidentNodes(e, "SLC"), Segment(e), e, "reclaim")>>
                      \o frames
    /\ UNCHANGED <<treeVars, tick, now, req, served, active, cursor, pc>>

\* reclaim_for() answers RelocateIntent to TLC, which needs capacity itself.
ReclaimByMove ==
    /\ Pending /\ Short(Top) /\ Reclaimable(Top) # {}
    /\ RelocatesVictim(Top)
    /\ \E e \in LruLeaf("SLC", Top.protected) :
          frames' = <<Frame("TLC", ResidentNodes(e, "SLC"),
                            Top.protected \cup Segment(e), e, "reclaim")>> \o frames
    /\ UNCHANGED <<treeVars, tick, now, req, served, active, cursor, pc>>

Grant(then) == Pending /\ Top.then = then /\ Fits(Top) /\ frames' = Tail(frames)

GrantDump ==
    /\ Grant("dump")
    /\ LeaveMemory(Top.segment, Top.leaving, Top.nodes, Top.tier)
    /\ pc' = "store" /\ cursor' = NoNode
    /\ UNCHANGED <<tick, now, req, served, active>>

\* execute_relocation() moves the nodes it listed before asking for capacity.
GrantMove ==
    /\ Grant("reclaim") \/ Grant("background")
    /\ MoveNodes(Top.nodes)
    /\ UNCHANGED <<tick, now, req, served, active, cursor, pc>>

\* After an access the capacity is obtained first and the segment is resolved
\* again afterwards (capacity_ready).
GrantPromotion ==
    /\ Grant("promote")
    /\ MoveNodes(ResidentNodes(Top.endpoint, "SLC"))
    /\ UNCHANGED <<tick, now, req, served, active, cursor, pc>>

\* Out of space: every pending caller gives up, and the outermost one decides
\* what that means.
Denied == Pending /\ ~Fits(Top) /\ (Short(Top) => Reclaimable(Top) = {})
Caller == frames[Len(frames)]

\* The dump is rejected as a whole; the blocks leave DRAM all the same.
RejectDump ==
    /\ Denied /\ Caller.then = "dump"
    /\ LeaveMemory(Caller.segment, Caller.leaving, {}, None)
    /\ frames' = <<>> /\ pc' = "store" /\ cursor' = NoNode
    /\ UNCHANGED <<tick, now, req, served, active>>

\* The block is read where it is.
RejectPromotion ==
    /\ Denied /\ Caller.then = "promote"
    /\ frames' = <<>>
    /\ UNCHANGED <<treeVars, tick, now, req, served, active, cursor, pc>>

\* Mutant of RejectBackground: the drain loop retries within the tick.
RejectBackgroundRetry ==
    /\ Denied /\ Caller.then = "background"
    /\ frames' = <<>>
    /\ UNCHANGED <<treeVars, tick, now, req, served, active, cursor, pc>>

\* A background action that fails ends the tick.
RejectBackground ==
    /\ Denied /\ Caller.then = "background"
    /\ frames' = <<>>
    /\ tick' = Advance(tick, Period)
    /\ UNCHANGED <<treeVars, now, req, served, active, cursor, pc>>

-----------------------------------------------------------------------------

Terminated == pc = "finished" /\ UNCHANGED vars

Environment == \E t \in 0 .. MaxTime : Finish(t) \/ \E p \in Paths : Submit(p, t)

Maintenance ==
    \E i \in IdleAges, a \in PromotionAges :
        IdleTrim(i, a) \/ BackgroundMove(i, a) \/ EndTick(i, a)

BlockStep ==
    \/ BeginRequest \/ EndRequest \/ MemoryHit \/ GlobalMiss
    \/ \E a \in PromotionAges : StorageHit(a)
    \/ AdmitHit \/ BypassHit

MemoryStep ==
    Insert \/ DropVictim \/ SelectVictim \/ EvictCopies \/ EvictDone \/ Dump

CapacityStep ==
    \/ ReclaimByTrim \/ ReclaimByMove
    \/ GrantDump \/ GrantMove \/ GrantPromotion
    \/ RejectDump \/ RejectPromotion \/ RejectBackground

Run == Maintenance \/ BlockStep \/ MemoryStep \/ CapacityStep \/ Close

Next == Environment \/ Run \/ Terminated

Spec == Init /\ [][Next]_vars

\* The simulator runs on the caller's thread: a call that was made goes on.
FairSpec == Spec /\ WF_vars(Run)

-----------------------------------------------------------------------------
(* Properties.                                                             *)

Calls == [tier : Tier, need : Nat, nodes : SUBSET Hash, protected : SUBSET Hash,
           endpoint : Hash, segment : SUBSET Hash, leaving : SUBSET Hash,
           then : {"dump", "promote", "reclaim", "background"}]

TypeOK ==
    /\ up \in [Hash -> SUBSET Hash]
    /\ mem \subseteq Hash
    /\ loc \in [Hash -> Tier \cup {None}]
    /\ used \in [Tier -> Nat]
    /\ first \in [Hash -> Nat] /\ last \in [Hash -> Nat]
    /\ tick \in Nat /\ now \in Nat /\ served \in Nat
    /\ req \in [path : Seq(Hash), time : Nat, pos : Nat \ {0}, prefix : SUBSET Hash]
    /\ active \in Hash \cup {NoNode} /\ cursor \in Hash \cup {NoNode}
    /\ frames \in Seq(Calls)
    /\ pc \in {"idle", "catch_up", "closing", "finished", "access", "admit",
              "insert", "evict", "store"}
    /\ pc \in {"admit", "insert", "evict", "store"} => active \in Hash

\* A tier's used-block counter is the number of nodes located on it.
UsedIsStored == \A t \in Tier : used[t] = Cardinality(Stored(t))

\* ensure_capacity() keeps every tier within the limit its policy gave.
WithinLimit == \A t \in Tier : used[t] <= Limit[t]

\* DRAM never holds more than its capacity.  insert_into_memory() evicts once
\* and then inserts: while that eviction runs there is still a DRAM block that
\* it will remove unless room was already made, and when it returned there is
\* room, however few blocks of the victim segment it may take.
Evicting == IF Pending THEN Caller.leaving
            ELSE IF cursor = NoNode THEN {} ELSE Segment(cursor)

MemoryBounded ==
    /\ Cardinality(mem) <= MemCapacity
    /\ pc = "evict" => Cardinality(mem) < MemCapacity \/ Evicting \cap mem # {}
    /\ pc = "store" => Cardinality(mem) < MemCapacity

\* Pruning never removes a node that keeps something below it, and removes
\* every node that does not: resident nodes hang on a complete path, and a
\* leaf is resident unless it is the block being accessed.
TreeExact ==
    /\ \A h \in Hash : Resident(h) => h \in Nodes
    /\ \A n \in Nodes : \A a \in up[n] : a \in up[a] /\ up[a] \subseteq up[n]
    /\ \A n \in Nodes : Below(n) = {} => Resident(n) \/ n = active

\* ensure_capacity() re-enters itself at most once: only a dump to SLC can wait
\* for the relocation of its victim, and that relocation only ever trims.
StackShape ==
    /\ Len(frames) <= 2
    /\ Pending =>
          \/ Caller.then = "dump" /\ pc = "evict"
          \/ Caller.then = "promote" /\ pc = "admit" /\ Family = "adaptive"
          \/ Caller.then = "background" /\ pc \in {"catch_up", "closing"}
    /\ \A i \in DOMAIN frames : frames[i].then # "dump" => frames[i].tier = "TLC"
    /\ Len(frames) = 2 => Caller.then = "dump" /\ Caller.tier = "SLC" /\ Top.then = "reclaim"

\* The block lists a caller noted before it asked for capacity are still true
\* when it goes on: the blocks that will leave DRAM are there, those among them
\* that are to be written are those without an SSD copy - none lost its copy to
\* make room -, blocks to move are still on SLC, and the number that was asked
\* for is their number.
PendingExact ==
    \A i \in DOMAIN frames :
        LET f == frames[i]
        IN  /\ f.need = Cardinality(f.nodes)
            /\ f.then = "dump" => /\ f.leaving \subseteq mem \cap f.protected
                                  /\ f.nodes = {n \in f.leaving : loc[n] = None}
            /\ f.then \in {"reclaim", "background"} => f.nodes \subseteq Stored("SLC")

\* The endpoint of a pending segment is still in the tree when the capacity
\* call returns, though its branches may have been trimmed and pruned: the
\* last branch joins the protected segment.  RadixTree and the policies look
\* the endpoint up again without testing for it.
EndpointsLive ==
    /\ \A i \in DOMAIN frames : frames[i].endpoint \in Nodes
    /\ cursor # NoNode => cursor \in Nodes

\* The memory policy's list holds exactly the DRAM residents, once each.
RecencyMirrorsMemory ==
    /\ {recency[i] : i \in DOMAIN recency} = mem
    /\ Len(recency) = Cardinality(mem)

Shielded == req.prefix \cup UNION {frames[i].protected : i \in DOMAIN frames}

\* A call protects the prefix of the request and whatever the calls that wait
\* for it protect, so the innermost call protects it all; the background plane
\* runs before there is a prefix to protect.
ProtectionInherited ==
    /\ \A i \in DOMAIN frames :
          /\ req.prefix \subseteq frames[i].protected
          /\ \A j \in DOMAIN frames : i <= j => frames[j].protected \subseteq frames[i].protected
    /\ pc \in {"catch_up", "closing"} => req.prefix = {}

\* No block of the resident prefix of the current request, and none that a
\* pending dump or relocation protects, loses its SSD copy.
ShieldedSurvive ==
    [][\A h \in Shielded : loc[h] # None => loc'[h] # None]_vars

\* Every request and every finish() runs to completion: reclaim loops, the
\* eviction loop and the background drain terminate.
CallsReturn == pc \notin {"idle", "finished"} ~> pc \in {"idle", "finished"}

\* Whatever the nesting of dumps, moves and trims, what they do to the blocks is
\* a cache with two bounded tiers that keeps the copies a request relies on, and
\* every block a request asks for is served.  Not so in the adaptive family,
\* which trims and moves between requests too, and whose promotions may exceed
\* the limit of TLC.
Cache == INSTANCE TieredCache WITH pinned <- req.prefix, asking <- active, NoBlock <- NoNode

ImplementsCache == Cache!CacheSpec

=============================================================================
