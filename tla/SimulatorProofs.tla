-------------------------- MODULE SimulatorProofs --------------------------
(* Theorems about Simulator, for every set of hashes and requests, every   *)
(* capacity and every policy family: its invariants, that it implements    *)
(* TieredCache, that the recency list is DRAM, and that the tree of blocks *)
(* is exact: what prune_segment() removes keeps nothing and nothing hangs  *)
(* below it, and what it leaves is needed.                                 *)
EXTENDS Simulator, FiniteSetTheorems, SequenceTheorems, WellFoundedInduction, TLAPS

-----------------------------------------------------------------------------
(* Counting blocks. *)

\* Sets of blocks are finite, so counting them gives a natural number.
LEMMA BlocksFinite ==
  ASSUME NEW S \in SUBSET Hash
  PROVE  IsFiniteSet(S) /\ Cardinality(S) \in Nat
  BY SimulatorAssumption, FS_Subset, FS_CardinalityType

\* What release() subtracts and allocate() adds.
LEMMA BlocksRemoved ==
  ASSUME NEW A \in SUBSET Hash, NEW B \in SUBSET A
  PROVE  Cardinality(A \ B) = Cardinality(A) - Cardinality(B)
  <1>1. A \cap B = B
    OBVIOUS
  <1>2. IsFiniteSet(A)
    BY BlocksFinite
  <1>3. Cardinality(A \ B) = Cardinality(A) - Cardinality(A \cap B)
    BY <1>2, FS_Difference
  <1> QED BY <1>1, <1>3

\* Blocks not yet on a tier add their number to its count.
LEMMA BlocksAdded ==
  ASSUME NEW A \in SUBSET Hash, NEW B \in SUBSET Hash, A \cap B = {}
  PROVE  Cardinality(A \cup B) = Cardinality(A) + Cardinality(B)
  <1>1. /\ IsFiniteSet(A) /\ Cardinality(A) \in Nat
        /\ IsFiniteSet(B) /\ Cardinality(B) \in Nat
    BY BlocksFinite
  <1>2. Cardinality(A \cup B) = Cardinality(A) + Cardinality(B) - Cardinality(A \cap B)
    BY <1>1, FS_Union
  <1>3. Cardinality(A \cap B) = 0
    BY FS_EmptySet
  <1> QED BY <1>1, <1>2, <1>3

-----------------------------------------------------------------------------
(* Where the operators of the policies and of the tree take their values.   *)

\* The nodes of a segment are hashes.
LEMMA SegmentType ==
  ASSUME TypeOK, NEW e \in Hash
  PROVE  Segment(e) \subseteq Hash
  BY DEF TypeOK, Segment

\* Pruning leaves every node's ancestors a set of hashes.
LEMMA PrunedType ==
  ASSUME TypeOK, NEW S, NEW K
  PROVE  Pruned(S, K) \in [Hash -> SUBSET Hash]
  BY DEF TypeOK, Pruned

\* A victim segment holds no block the caller protects.
LEMMA LruLeafType ==
  ASSUME NEW t, NEW P, NEW e \in LruLeaf(t, P)
  PROVE  e \in Hash /\ Segment(e) \cap P = {}
  BY DEF LruLeaf, LruLeaves, TierSegments, SegmentLeaf, Subtree

\* The resident nodes of a segment are stored on that tier.
LEMMA ResidentType ==
  ASSUME NEW t, NEW e \in Hash, TypeOK
  PROVE  ResidentNodes(e, t) \subseteq Stored(t) \cap Segment(e)
  BY SegmentType DEF ResidentNodes, Stored

\* A background action names a segment of the tree and a tier.
LEMMA BackgroundType ==
  ASSUME NEW i, NEW p, NEW a \in Background(i, p)
  PROVE  /\ Family = "adaptive"
         /\ a.tier \in Tier /\ a.endpoint \in Hash
  <1>1. Family = "adaptive" /\ a \in BackgroundAction(i, p)
    BY DEF Background
  <1>2. ASSUME NEW t, NEW e \in LruLeaf(t, {}) PROVE e \in Hash
    BY <1>2, LruLeafType
  <1>3. OldestSegment("SLC") \subseteq Hash
    BY DEF OldestSegment, TierSegments, SegmentLeaf, Subtree
  <1> QED BY <1>1, <1>2, <1>3 DEF BackgroundAction, Tier

\* The segment a memory policy picks holds a block that is in DRAM.
LEMMA VictimHoldsMemory ==
  ASSUME TypeOK, NEW e \in Victims
  PROVE  e \in Hash /\ Segment(e) \cap mem # {}
  <1>1. PICK m \in mem : e \in SegmentLeaf(m)
    BY DEF Victims, MemoryVictim, MemoryLeaves
  <1>2. m \in Segment(e) /\ e \in Hash
    BY <1>1 DEF SegmentLeaf, Segment, Subtree
  <1> QED BY <1>2

\* A set of naturals has a least element.
LEMMA LeastNatural ==
  ASSUME NEW T \in SUBSET Nat, T # {}
  PROVE  \E x \in T : \A y \in T : x <= y
  <1> DEFINE R == {s \in Nat \X Nat : s[1] < s[2]}
  <1>1. IsWellFoundedOn(R, Nat)
    BY NatLessThanWellFounded, Zenon DEF OpToRel
  <1>2. PICK x \in T : \A y \in T : ~ (<<y, x>> \in R)
    <2> HIDE DEF R
    <2> QED BY <1>1, WFMin
  <1>3. ASSUME NEW y \in T, y < x PROVE FALSE
    <2>1. <<y, x>> \in R
      BY <1>3
    <2> QED BY <1>2, <2>1
  <1>4. x \in Nat /\ T \subseteq Nat
    OBVIOUS
  <1> HIDE DEF R
  <1> QED BY <1>3, <1>4

\* An eviction takes DRAM blocks of its segment, and at least the deepest one.
LEMMA LeavingSome ==
  ASSUME TypeOK, NEW e \in Hash, NEW g \in Grains
  PROVE  /\ Leaving(e, g) \subseteq Segment(e) \cap mem
         /\ Segment(e) \cap mem # {} => Leaving(e, g) # {}
  <1> DEFINE M == Segment(e) \cap mem
             Above(n) == Cardinality(Hash) - Cardinality(up[n])
             T == {Above(n) : n \in M}
  <1>1. Leaving(e, g) \subseteq M
    BY DEF Leaving
  <1>2. ASSUME M # {} PROVE Leaving(e, g) # {}
    <2>1. ASSUME NEW n \in M
          PROVE  /\ Cardinality(up[n]) \in Nat /\ Above(n) \in Nat
      <3>1. up[n] \subseteq Hash
        BY <2>1, SegmentType DEF TypeOK
      <3>2. IsFiniteSet(Hash) /\ Cardinality(Hash) \in Nat
        BY BlocksFinite
      <3>3. Cardinality(up[n]) <= Cardinality(Hash) /\ Cardinality(up[n]) \in Nat
        BY <3>1, <3>2, FS_Subset, BlocksFinite
      <3> QED BY <3>2, <3>3
    <2>2. PICK n \in M : \A m \in M : Above(n) <= Above(m)
      <3>1. T \in SUBSET Nat /\ T # {}
        BY <1>2, <2>1
      <3>2. PICK x \in T : \A y \in T : x <= y
        <4> HIDE DEF T
        <4> QED BY <3>1, LeastNatural
      <3> QED BY <3>2
    <2>3. {d \in M : Cardinality(up[d]) > Cardinality(up[n])} = {}
      <3> SUFFICES ASSUME NEW d \in M, Cardinality(up[d]) > Cardinality(up[n])
                   PROVE  FALSE
        OBVIOUS
      <3>1. Above(n) <= Above(d) /\ Cardinality(Hash) \in Nat
        BY <2>2, BlocksFinite
      <3> QED BY <2>1, <3>1
    <2>4. g \in Nat
      BY SimulatorAssumption
    <2>5. g = 0 \/ Cardinality({d \in M : Cardinality(up[d]) > Cardinality(up[n])}) < g
      BY <2>3, <2>4, FS_EmptySet
    <2> QED BY <2>5 DEF Leaving
  <1> QED BY <1>1, <1>2

-----------------------------------------------------------------------------
(* The three storage mutations keep the counters equal to the residency.    *)

\* execute_trim(): the blocks trimmed leave the tier and its counter.
LEMMA TrimStep ==
  ASSUME TypeOK, UsedIsStored, NEW t \in Tier, NEW nodes \in SUBSET Stored(t),
         TrimNodes(nodes, t)
  PROVE  /\ up' \in [Hash -> SUBSET Hash] /\ mem' = mem
         /\ loc' = [h \in Hash |-> IF h \in nodes THEN None ELSE loc[h]]
         /\ first' \in [Hash -> Nat] /\ last' \in [Hash -> Nat]
         /\ used' \in [Tier -> Nat] /\ UsedIsStored'
         /\ \A x \in Tier : used'[x] <= used[x]
  <1> DEFINE l == [h \in Hash |-> IF h \in nodes THEN None ELSE loc[h]]
  <1>1. loc' = l /\ up' \in [Hash -> SUBSET Hash]
    BY PrunedType DEF TrimNodes
  <1>2. /\ Stored(t)' = Stored(t) \ nodes
        /\ \A x \in Tier \ {t} : Stored(x)' = Stored(x)
    BY <1>1 DEF Stored, TypeOK, None, Tier
  <1>3. Stored(t) \subseteq Hash
    BY DEF Stored
  <1>4. /\ Cardinality(Stored(t)') = Cardinality(Stored(t)) - Cardinality(nodes)
        /\ Cardinality(Stored(t)') \in Nat /\ Cardinality(nodes) \in Nat
    BY <1>2, <1>3, BlocksRemoved, BlocksFinite
  <1>5. used' = [used EXCEPT ![t] = used[t] - Cardinality(nodes)]
    BY DEF TrimNodes, Release
  <1>6. used'[t] = Cardinality(Stored(t)') /\ \A x \in Tier \ {t} : used'[x] = used[x]
    BY <1>4, <1>5 DEF TypeOK, UsedIsStored
  <1>7. used' \in [Tier -> Nat] /\ \A x \in Tier : used'[x] <= used[x]
    BY <1>4, <1>5, <1>6 DEF TypeOK, UsedIsStored
  <1>8. UsedIsStored'
    BY <1>2, <1>6 DEF UsedIsStored
  <1>9. mem' = mem /\ first' \in [Hash -> Nat] /\ last' \in [Hash -> Nat]
    BY DEF TrimNodes, TypeOK
  <1> QED BY <1>1, <1>7, <1>8, <1>9

\* execute_relocation(): the blocks moved leave SLC and its counter for TLC.
LEMMA MoveStep ==
  ASSUME TypeOK, UsedIsStored, NEW nodes \in SUBSET Stored("SLC"), MoveNodes(nodes)
  PROVE  /\ up' = up /\ mem' = mem /\ first' = first /\ last' = last
         /\ loc' = [h \in Hash |-> IF h \in nodes THEN "TLC" ELSE loc[h]]
         /\ used' \in [Tier -> Nat] /\ UsedIsStored'
         /\ used'["SLC"] <= used["SLC"]
         /\ used'["TLC"] = used["TLC"] + Cardinality(nodes)
  <1>1. loc' = [h \in Hash |-> IF h \in nodes THEN "TLC" ELSE loc[h]]
    BY DEF MoveNodes
  <1>2. /\ Stored("SLC")' = Stored("SLC") \ nodes
        /\ Stored("TLC")' = Stored("TLC") \cup nodes
        /\ Stored("TLC") \cap nodes = {}
    BY <1>1 DEF Stored, TypeOK
  <1>3. Stored("SLC") \subseteq Hash /\ Stored("TLC") \subseteq Hash
    BY DEF Stored
  <1>4. /\ Cardinality(Stored("SLC")') = Cardinality(Stored("SLC")) - Cardinality(nodes)
        /\ Cardinality(Stored("TLC")') = Cardinality(Stored("TLC")) + Cardinality(nodes)
        /\ Cardinality(Stored("SLC")') \in Nat /\ Cardinality(nodes) \in Nat
        /\ Cardinality(Stored("TLC")') \in Nat
    BY <1>2, <1>3, BlocksRemoved, BlocksAdded, BlocksFinite
  <1>5. used' = [used EXCEPT !["TLC"] = used["TLC"] + Cardinality(nodes),
                             !["SLC"] = used["SLC"] - Cardinality(nodes)]
    BY DEF MoveNodes, Release, Allocate
  <1>6. /\ used["SLC"] = Cardinality(Stored("SLC"))
        /\ used["TLC"] = Cardinality(Stored("TLC"))
        /\ used \in [Tier -> Nat]
    BY DEF UsedIsStored, TypeOK, Tier
  <1>7. /\ used'["SLC"] = used["SLC"] - Cardinality(nodes)
        /\ used'["TLC"] = used["TLC"] + Cardinality(nodes)
    BY <1>5, <1>6 DEF Tier
  <1>8. UsedIsStored'
    BY <1>4, <1>6, <1>7 DEF UsedIsStored, Tier
  <1>9. used' \in [Tier -> Nat]
    BY <1>4, <1>5, <1>6, <1>7 DEF Tier
  <1> QED BY <1>1, <1>4, <1>6, <1>7, <1>8, <1>9 DEF MoveNodes

\* Blocks of a segment that leave DRAM, with the unwritten blocks dumped or dropped.
LEMMA LeaveStep ==
  ASSUME TypeOK, UsedIsStored, NEW seg, NEW out, NEW nodes \in SUBSET Stored(None),
         NEW t, nodes # {} => t \in Tier, LeaveMemory(seg, out, nodes, t)
  PROVE  /\ up' \in [Hash -> SUBSET Hash] /\ mem' = mem \ out
         /\ loc' = [h \in Hash |-> IF h \in nodes THEN t ELSE loc[h]]
         /\ loc' \in [Hash -> Tier \cup {None}]
         /\ first' \in [Hash -> Nat] /\ last' \in [Hash -> Nat]
         /\ used' \in [Tier -> Nat] /\ UsedIsStored'
  <1>1. /\ loc' = [h \in Hash |-> IF h \in nodes THEN t ELSE loc[h]]
        /\ mem' = mem \ out /\ up' \in [Hash -> SUBSET Hash]
    BY PrunedType DEF LeaveMemory
  <1>2. loc' \in [Hash -> Tier \cup {None}]
    BY <1>1 DEF TypeOK
  <1>3. first' \in [Hash -> Nat] /\ last' \in [Hash -> Nat]
    BY DEF LeaveMemory, TypeOK
  <1>4. CASE nodes = {}
    <2>1. loc' = loc /\ used' = used
      BY <1>1, <1>4 DEF LeaveMemory, TypeOK
    <2>2. \A x \in Tier : used[x] + Cardinality(nodes) = used[x]
      BY <1>4, FS_EmptySet DEF TypeOK
    <2>3. used' \in [Tier -> Nat] /\ UsedIsStored'
      BY <2>1 DEF UsedIsStored, Stored, TypeOK
    <2> QED BY <1>1, <1>2, <1>3, <2>1, <2>2, <2>3
  <1>5. CASE nodes # {}
    <2>1. t \in Tier /\ used' = [used EXCEPT ![t] = used[t] + Cardinality(nodes)]
      BY <1>5 DEF LeaveMemory, Allocate
    <2>2. /\ Stored(t)' = Stored(t) \cup nodes /\ Stored(t) \cap nodes = {}
          /\ \A x \in Tier \ {t} : Stored(x)' = Stored(x)
      BY <1>1, <2>1 DEF Stored, TypeOK, Tier, None
    <2>3. Stored(t) \subseteq Hash /\ Stored(t)' \subseteq Hash /\ nodes \subseteq Hash
      BY DEF Stored
    <2>4. /\ Cardinality(Stored(t)') = Cardinality(Stored(t)) + Cardinality(nodes)
          /\ Cardinality(Stored(t)') \in Nat /\ Cardinality(nodes) \in Nat
      BY <2>2, <2>3, BlocksAdded, BlocksFinite
    <2>5. /\ used'[t] = used[t] + Cardinality(nodes)
          /\ \A x \in Tier \ {t} : used'[x] = used[x]
      BY <2>1 DEF TypeOK
    <2>6. used' \in [Tier -> Nat]
      BY <2>1, <2>4, <2>5 DEF TypeOK
    <2>7. UsedIsStored'
      BY <2>2, <2>4, <2>5, <2>1 DEF UsedIsStored
    <2> QED BY <1>1, <1>2, <1>3, <2>5, <2>6, <2>7
  <1> QED BY <1>4, <1>5

-----------------------------------------------------------------------------
(* The inductive invariant.  UsedIsStored needs the block lists that pending *)
(* calls kept to be still true (PendingExact), that needs the stack to have  *)
(* its shape, and MemoryBounded needs the eviction in progress to free room. *)

IInv == /\ TypeOK /\ UsedIsStored /\ StackShape /\ PendingExact
        /\ ProtectionInherited /\ MemoryBounded

\* With no capacity call pending the conditions on the stack are vacuous.
LEMMA EmptyStack ==
  ASSUME frames = <<>>
  PROVE  /\ frames \in Seq(Calls) /\ ~Pending /\ StackShape /\ PendingExact
         /\ (pc \in {"catch_up", "closing"} => req.prefix = {}) => ProtectionInherited
  BY DEF Pending, StackShape, PendingExact, ProtectionInherited

\* The stack of one call or of two.
LEMMA StackCases ==
  ASSUME TypeOK, StackShape, Pending
  PROVE  /\ Top \in Calls /\ Caller \in Calls /\ Len(frames) \in {1, 2}
         /\ DOMAIN frames = 1 .. Len(frames)
         /\ Tail(frames) \in Seq(Calls)
         /\ Len(frames) = 1 => frames = <<Top>> /\ Caller = Top /\ Tail(frames) = <<>>
         /\ Len(frames) = 2 => frames = <<Top, Caller>> /\ Tail(frames) = <<Caller>>
  <1>1. frames \in Seq(Calls) /\ frames # <<>> /\ Len(frames) <= 2
    BY DEF TypeOK, StackShape, Pending
  <1>2. Len(frames) \in {1, 2} /\ DOMAIN frames = 1 .. Len(frames)
    <2>1. Len(frames) \in Nat /\ DOMAIN frames = 1 .. Len(frames)
      BY <1>1, LenProperties
    <2>2. Len(frames) # 0
      BY <1>1, EmptySeq
    <2> QED BY <1>1, <2>1, <2>2
  <1>3. Top \in Calls /\ Caller \in Calls
    BY <1>1, <1>2, ElementOfSeq DEF Top, Caller
  <1>4. /\ Tail(frames) \in Seq(Calls)
        /\ Tail(frames) = SubSeq(frames, 2, Len(frames))
    BY <1>1, HeadTailProperties, TailIsSubSeq
  <1>5. CASE Len(frames) = 1
    <2>1. Caller = Top /\ frames = <<Top>>
      BY <1>1, <1>2, <1>5 DEF Top, Caller
    <2>2. Tail(frames) = <<>>
      BY <1>4, <1>5, SubSeqEmpty
    <2> QED BY <1>1, <1>2, <1>3, <1>4, <1>5, <2>1, <2>2
  <1>6. CASE Len(frames) = 2
    <2>1. frames = <<Top, Caller>>
      BY <1>1, <1>2, <1>6 DEF Top, Caller
    <2>2. Tail(frames) = <<Caller>>
      BY <2>1
    <2> QED BY <1>1, <1>2, <1>3, <1>4, <1>6, <2>1, <2>2
  <1> QED BY <1>1, <1>2, <1>3, <1>4, <1>5, <1>6

\* What a stack that holds a single call looks like.
LEMMA StackOfOne ==
  ASSUME NEW x, NEW s, s = <<x>>
  PROVE  Len(s) = 1 /\ DOMAIN s = {1} /\ s[1] = x
  OBVIOUS

\* A stack with two calls has those at 1 and 2.
LEMMA StackOfTwo ==
  ASSUME NEW x, NEW y, NEW s, s = <<x, y>>
  PROVE  Len(s) = 2 /\ DOMAIN s = {1, 2} /\ s[1] = x /\ s[2] = y
  OBVIOUS

\* Pushing a call on a stack of one gives a stack of two.
LEMMA PushOne ==
  ASSUME NEW x, NEW y
  PROVE  <<x>> \o <<y>> = <<x, y>>
  <1> DEFINE s == <<x>> \o <<y>>
  <1>1. /\ <<x>> \in Seq({x, y}) /\ <<y>> \in Seq({x, y}) /\ <<x, y>> \in Seq({x, y})
        /\ Len(<<x>>) = 1 /\ Len(<<y>>) = 1 /\ Len(<<x, y>>) = 2
    OBVIOUS
  <1>2. /\ s \in Seq({x, y}) /\ Len(s) = 2
        /\ \A i \in 1 .. 2 : s[i] = IF i <= 1 THEN <<x>>[i] ELSE <<y>>[i - 1]
    BY <1>1, ConcatProperties
  <1>3. \A i \in 1 .. 2 : s[i] = <<x, y>>[i]
    BY <1>2
  <1> HIDE DEF s
  <1>4. s = <<x, y>>
    BY <1>1, <1>2, <1>3, SeqEqual
  <1> QED BY <1>4 DEF s

\* A call to TLC made for hashes of the tree is well typed.
LEMMA MoveFrameType ==
  ASSUME TypeOK, NEW nodes \in SUBSET Hash, NEW P \in SUBSET Hash, NEW e \in Hash,
         NEW then \in {"promote", "reclaim", "background"},
         NEW f, f = [tier |-> "TLC", need |-> Cardinality(nodes), nodes |-> nodes,
                     protected |-> P, endpoint |-> e, segment |-> Segment(e),
                     leaving |-> {}, then |-> then]
  PROVE  /\ f \in Calls
         /\ f.tier = "TLC" /\ f.then = then /\ f.protected = P
         /\ f.nodes = nodes /\ f.need = Cardinality(nodes)
  <1>1. Cardinality(nodes) \in Nat /\ Segment(e) \in SUBSET Hash /\ "TLC" \in Tier
    BY BlocksFinite, SegmentType DEF Tier
  <1>2. then \in {"dump", "promote", "reclaim", "background"} /\ {} \in SUBSET Hash
    OBVIOUS
  <1>3. f \in Calls
    BY <1>1, <1>2 DEF Calls
  <1> QED BY <1>3

\* The capacity request of a dump notes what will leave DRAM as well.
LEMMA DumpFrameType ==
  ASSUME TypeOK, NEW t \in Tier, NEW e \in Hash, NEW g \in Grains,
         Unwritten(e, g) \in SUBSET Hash, Leaving(e, g) \in SUBSET Hash
  PROVE  LET f == DumpFrame(t, e, g)
         IN  /\ f \in Calls /\ f.then = "dump" /\ f.tier = t
             /\ f.protected = req.prefix \cup Segment(e) /\ f.nodes = Unwritten(e, g)
             /\ f.need = Cardinality(Unwritten(e, g)) /\ f.leaving = Leaving(e, g)
  <1> DEFINE W == Unwritten(e, g)
             L == Leaving(e, g)
             P == req.prefix \cup Segment(e)
             f == DumpFrame(t, e, g)
  <1>1. Cardinality(W) \in Nat /\ Segment(e) \in SUBSET Hash /\ P \in SUBSET Hash
    BY BlocksFinite, SegmentType DEF TypeOK
  <1>2. f = [tier |-> t, need |-> Cardinality(W), nodes |-> W,
             protected |-> P, endpoint |-> e, segment |-> Segment(e), leaving |-> L,
             then |-> "dump"]
    BY DEF DumpFrame, Frame
  <1> HIDE DEF W, L, P, f
  <1>3. /\ f \in Calls /\ f.then = "dump" /\ f.tier = t
        /\ f.protected = P /\ f.nodes = W
        /\ f.need = Cardinality(W) /\ f.leaving = L
    <2>1. W \in SUBSET Hash /\ L \in SUBSET Hash
      BY DEF W, L
    <2> QED BY <1>1, <1>2, <2>1 DEF Calls
  <1> QED BY <1>3 DEF W, L, P, f

\* The initial state satisfies the inductive invariant.
LEMMA InitIInv == Init => IInv
  <1> SUFFICES ASSUME Init PROVE IInv
    OBVIOUS
  <1>1. StackShape /\ PendingExact /\ ProtectionInherited /\ frames \in Seq(Calls)
    BY EmptyStack DEF Init, NoRequest
  <1>2. TypeOK
    BY <1>1, SimulatorAssumption DEF Init, TypeOK, NoRequest, Tier, None
  <1>3. \A t \in Tier : Stored(t) = {}
    BY DEF Init, Stored, Tier, None
  <1>4. UsedIsStored
    BY <1>3, FS_EmptySet DEF Init, UsedIsStored
  <1>5. MemoryBounded
    BY FS_EmptySet, SimulatorAssumption DEF Init, MemoryBounded
  <1> QED BY <1>1, <1>2, <1>4, <1>5 DEF IInv

-----------------------------------------------------------------------------
(* Each operation keeps the inductive invariant. *)

\* An operation that changes no residency and asks for no capacity.
LEMMA QuietStep ==
  ASSUME IInv, UNCHANGED <<mem, loc, used>>, frames = <<>>, frames' = <<>>,
         TypeOK', pc' \notin {"evict", "store"},
         pc' \in {"catch_up", "closing"} => req'.prefix = {}
  PROVE  IInv'
  <1>1. StackShape' /\ PendingExact' /\ ProtectionInherited'
    BY DEF Pending, StackShape, PendingExact, ProtectionInherited
  <1>2. UsedIsStored'
    BY DEF IInv, UsedIsStored, Stored
  <1>3. MemoryBounded'
    BY DEF IInv, MemoryBounded
  <1> QED BY <1>1, <1>2, <1>3 DEF IInv

\* Accepting a request or a finish() keeps the inductive invariant.
LEMMA EnvironmentIInv ==
  ASSUME IInv, Environment
  PROVE  IInv'
  <1>1. TypeOK' /\ UNCHANGED treeVars /\ frames = <<>> /\ frames' = <<>>
        /\ pc' \in {"catch_up", "closing"} /\ req'.prefix = {}
    <2>1. PICK t \in 0 .. MaxTime : Finish(t) \/ \E p \in Paths : Submit(p, t)
      BY DEF Environment
    <2>2. t \in Nat
      BY SimulatorAssumption
    <2>3. CASE Finish(t)
      <3>1. req' = [path |-> <<>>, time |-> t, pos |-> 1, prefix |-> {}]
        BY <2>3 DEF Finish, NoRequest
      <3>2. req' \in [path : Seq(Hash), time : Nat, pos : Nat \ {0}, prefix : SUBSET Hash]
        BY <2>2, <3>1
      <3>3. TypeOK'
        BY <2>3, <3>2 DEF Finish, At, IInv, TypeOK, treeVars
      <3> QED BY <2>3, <3>1, <3>3 DEF Finish, At
    <2>4. ASSUME NEW p \in Paths, Submit(p, t)
          PROVE  TypeOK' /\ UNCHANGED treeVars /\ frames = <<>> /\ frames' = <<>>
                 /\ pc' \in {"catch_up", "closing"} /\ req'.prefix = {}
      <3>1. /\ req' = [path |-> p, time |-> t, pos |-> 1, prefix |-> {}]
            /\ p \in Seq(Hash)
        BY <2>4, SimulatorAssumption DEF Submit, NoRequest
      <3>2. req' \in [path : Seq(Hash), time : Nat, pos : Nat \ {0}, prefix : SUBSET Hash]
        BY <2>2, <3>1
      <3>3. /\ UNCHANGED <<up, mem, loc, used, first, last, tick, now, active, cursor, frames>>
            /\ served' = served + 1 /\ pc' = "catch_up" /\ frames = <<>>
        BY <2>4 DEF Submit, At, treeVars
      <3>4. TypeOK
        BY DEF IInv
      <3>5. TypeOK'
        BY <3>2, <3>3, <3>4 DEF TypeOK
      <3>6. req'.prefix = {}
        BY <3>1
      <3>7. UNCHANGED treeVars
        BY <2>4 DEF Submit
      <3> QED BY <3>3, <3>5, <3>6, <3>7
    <2> QED BY <2>1, <2>3, <2>4
  <1> QED BY <1>1, QuietStep DEF treeVars

\* The background plane keeps the inductive invariant.
LEMMA MaintenanceIInv ==
  ASSUME IInv, Maintenance
  PROVE  IInv'
  <1>1. PICK i \in IdleAges, a \in PromotionAges :
            IdleTrim(i, a) \/ BackgroundMove(i, a) \/ EndTick(i, a)
    BY DEF Maintenance
  <1>2. /\ pc \in {"catch_up", "closing"} /\ frames = <<>> /\ req.prefix = {}
        /\ TypeOK /\ UsedIsStored /\ MemoryBounded
    BY <1>1 DEF IdleTrim, BackgroundMove, EndTick, CatchingUp, At, IInv, ProtectionInherited
  <1>3. CASE IdleTrim(i, a)
    <2>1. PICK b \in Background(i, a) : TrimNodes(ResidentNodes(b.endpoint, b.tier), b.tier)
      BY <1>3 DEF IdleTrim
    <2>2. /\ b.tier \in Tier
          /\ ResidentNodes(b.endpoint, b.tier) \in SUBSET Stored(b.tier)
      BY <1>2, BackgroundType, ResidentType
    <2>3. /\ up' \in [Hash -> SUBSET Hash] /\ mem' = mem
          /\ loc' \in [Hash -> Tier \cup {None}]
          /\ first' \in [Hash -> Nat] /\ last' \in [Hash -> Nat]
          /\ used' \in [Tier -> Nat] /\ UsedIsStored'
      BY <1>2, <2>1, <2>2, TrimStep DEF TypeOK
    <2>4. TypeOK' /\ frames' = <<>> /\ pc' = pc /\ req' = req
      BY <1>2, <1>3, <2>3 DEF TypeOK, IdleTrim
    <2>5. StackShape' /\ PendingExact' /\ ProtectionInherited'
      BY <1>2, <2>4 DEF Pending, StackShape, PendingExact, ProtectionInherited
    <2>6. MemoryBounded'
      BY <1>2, <2>3, <2>4 DEF MemoryBounded
    <2> QED BY <2>3, <2>4, <2>5, <2>6 DEF IInv
  <1>4. CASE BackgroundMove(i, a)
    <2>1. PICK b \in Background(i, a) :
             frames' = <<Frame("TLC", ResidentNodes(b.endpoint, "SLC"),
                               Segment(b.endpoint), b.endpoint, "background")>>
      BY <1>4 DEF BackgroundMove
    <2> DEFINE f == Frame("TLC", ResidentNodes(b.endpoint, "SLC"),
                          Segment(b.endpoint), b.endpoint, "background")
    <2>2. /\ Family = "adaptive" /\ b.endpoint \in Hash
          /\ ResidentNodes(b.endpoint, "SLC") \subseteq Stored("SLC")
          /\ ResidentNodes(b.endpoint, "SLC") \in SUBSET Hash
          /\ Segment(b.endpoint) \in SUBSET Hash
          /\ "TLC" \in Tier
      BY <1>2, BackgroundType, ResidentType, SegmentType DEF Stored, Tier
    <2>3. /\ f \in Calls /\ f.then = "background" /\ f.tier = "TLC"
          /\ f.need = Cardinality(f.nodes) /\ f.nodes \subseteq Stored("SLC")
      <3> DEFINE R == ResidentNodes(b.endpoint, "SLC")
                 P == Segment(b.endpoint)
                 e == b.endpoint
      <3>1. f = [tier |-> "TLC", need |-> Cardinality(R), nodes |-> R, protected |-> P,
                 endpoint |-> e, segment |-> Segment(e), leaving |-> {},
                 then |-> "background"]
        BY DEF Frame
      <3>3. e \in Hash /\ R \in SUBSET Hash /\ P \in SUBSET Hash /\ R \subseteq Stored("SLC")
        BY <2>2
      <3> HIDE DEF f, R, P, e
      <3>2. /\ f \in Calls /\ f.then = "background" /\ f.tier = "TLC"
            /\ f.nodes = R /\ f.need = Cardinality(R)
        BY <1>2, <3>1, <3>3, MoveFrameType
      <3> QED BY <3>2, <3>3
    <2> HIDE DEF f
    <2>4. frames' = <<f>> /\ UNCHANGED <<treeVars, pc, req, tick, now, served, active, cursor>>
      BY <1>4, <2>1 DEF BackgroundMove, f
    <2>5. TypeOK'
      BY <1>2, <2>3, <2>4 DEF TypeOK, treeVars
    <2>6. UsedIsStored' /\ Stored("SLC")' = Stored("SLC")
      BY <1>2, <2>4 DEF UsedIsStored, Stored, treeVars
    <2>7. StackShape' /\ PendingExact' /\ ProtectionInherited'
      BY <1>2, <2>3, <2>4, <2>6 DEF Pending, Caller, Top, Shielded, StackShape,
                                    PendingExact, ProtectionInherited
    <2>8. MemoryBounded'
      BY <1>2, <2>4 DEF MemoryBounded, treeVars
    <2> QED BY <2>5, <2>6, <2>7, <2>8 DEF IInv
  <1>5. CASE EndTick(i, a)
    <2>1. /\ UNCHANGED treeVars /\ frames' = <<>>
          /\ UNCHANGED <<now, req, served, active, cursor, pc>>
      BY <1>2, <1>5 DEF EndTick
    <2>2. tick' \in Nat
      BY <1>2, <1>5, SimulatorAssumption DEF EndTick, Advance, TypeOK
    <2>3. TypeOK'
      BY <1>2, <2>1, <2>2 DEF TypeOK, treeVars
    <2> QED BY <1>2, <2>1, <2>3, QuietStep DEF treeVars
  <1> QED BY <1>1, <1>3, <1>4, <1>5

\* What holds of every block of the request in progress.
LEMMA BlockType ==
  ASSUME TypeOK, AtBlock
  PROVE  Here \in Hash /\ Located \in [Hash -> SUBSET Hash]
  <1>1. req.path \in Seq(Hash) /\ req.pos \in 1 .. Len(req.path)
    BY LenProperties DEF TypeOK, AtBlock
  <1>2. Here \in Hash
    BY <1>1, ElementOfSeq DEF Here
  <1>3. req.pos # 1 => req.path[req.pos - 1] \in Hash
    <2>1. req.pos # 1 => req.pos - 1 \in 1 .. Len(req.path)
      BY <1>1, LenProperties
    <2> QED BY <1>1, <2>1, ElementOfSeq
  <1> QED BY <1>2, <1>3 DEF Located, Grown, TypeOK

\* Every step of an access outside eviction keeps the inductive invariant.
LEMMA BlockStepIInv ==
  ASSUME IInv, BlockStep
  PROVE  IInv'
  <1>1. TypeOK /\ UsedIsStored /\ MemoryBounded
    BY DEF IInv
  <1>2. CASE BeginRequest
    <2>1. /\ UNCHANGED <<up, mem, loc, used, first, last, tick, served, active, cursor>>
          /\ frames = <<>> /\ frames' = <<>> /\ pc' = "access" /\ now' = req.time
      BY <1>2 DEF BeginRequest, At, treeVars
    <2>2. Prefix(req.path) \subseteq Hash
      <3>1. \A i \in DOMAIN req.path : req.path[i] \in Hash
        BY <1>1, LenProperties, ElementOfSeq DEF TypeOK
      <3> QED BY <3>1 DEF Prefix
    <2>3. req' \in [path : Seq(Hash), time : Nat, pos : Nat \ {0}, prefix : SUBSET Hash]
      BY <1>1, <1>2, <2>2 DEF BeginRequest, TypeOK
    <2>4. TypeOK'
      BY <1>1, <2>1, <2>3 DEF TypeOK
    <2> QED BY <2>1, <2>4, QuietStep
  <1>3. CASE EndRequest
    <2>1. /\ UNCHANGED <<up, mem, loc, used, first, last, tick, now, served, active, cursor>>
          /\ frames = <<>> /\ frames' = <<>> /\ pc' = "idle"
          /\ req' = [path |-> <<>>, time |-> 0, pos |-> 1, prefix |-> {}]
      BY <1>3 DEF EndRequest, At, treeVars, NoRequest
    <2>2. req' \in [path : Seq(Hash), time : Nat, pos : Nat \ {0}, prefix : SUBSET Hash]
      BY <2>1
    <2>3. TypeOK'
      BY <1>1, <2>1, <2>2 DEF TypeOK
    <2> QED BY <2>1, <2>3, QuietStep
  <1>4. ASSUME NextBlock, UNCHANGED frames, frames = <<>>,
               UNCHANGED <<mem, loc, used, first, last, tick, now, served, cursor>>,
               up' \in [Hash -> SUBSET Hash]
        PROVE  IInv'
    <2>1. req' \in [path : Seq(Hash), time : Nat, pos : Nat \ {0}, prefix : SUBSET Hash]
      <3>1. /\ req' = [req EXCEPT !.pos = req.pos + 1]
            /\ req \in [path : Seq(Hash), time : Nat, pos : Nat \ {0}, prefix : SUBSET Hash]
        BY <1>1, <1>4 DEF NextBlock, TypeOK
      <3>2. req.pos + 1 \in Nat \ {0}
        BY <3>1
      <3> QED BY <3>1, <3>2
    <2>2. TypeOK'
      BY <1>1, <1>4, <2>1 DEF NextBlock, TypeOK
    <2>3. pc' = "access"
      BY <1>4 DEF NextBlock
    <2> QED BY <1>4, <2>2, <2>3, QuietStep
  <1>5. CASE MemoryHit
    BY <1>1, <1>4, <1>5 DEF MemoryHit, AtBlock, At, TypeOK
  <1>6. CASE BypassHit
    BY <1>1, <1>4, <1>6 DEF BypassHit, At, TypeOK, treeVars
  <1>7. CASE GlobalMiss
    <2>1. /\ UNCHANGED <<mem, loc, used, first, last, tick, now, req, served, cursor>>
          /\ frames = <<>> /\ frames' = <<>> /\ pc' = "insert"
      BY <1>7 DEF GlobalMiss, AtBlock, At
    <2>2. active' \in Hash /\ up' \in [Hash -> SUBSET Hash]
      BY <1>1, <1>7, BlockType DEF GlobalMiss
    <2>3. TypeOK'
      BY <1>1, <2>1, <2>2 DEF TypeOK
    <2> QED BY <2>1, <2>3, QuietStep
  <1>8. CASE AdmitHit
    <2>1. /\ UNCHANGED <<up, mem, loc, used, first, last, tick, now, req, served, active, cursor>>
          /\ frames = <<>> /\ frames' = <<>> /\ pc = "admit" /\ pc' = "insert"
      BY <1>8 DEF AdmitHit, At, treeVars
    <2>2. TypeOK'
      BY <1>1, <2>1 DEF TypeOK
    <2> QED BY <2>1, <2>2, QuietStep
  <1>9. ASSUME NEW a \in PromotionAges, StorageHit(a)
        PROVE  IInv'
    <2>1. /\ UNCHANGED <<up, mem, loc, used, first, tick, now, req, served, cursor>>
          /\ frames = <<>> /\ pc' = "admit" /\ active' = Here /\ Here \in Hash
      BY <1>1, <1>9, BlockType DEF StorageHit, AtBlock, At
    <2>2. PICK leaf \in SegmentLeaf(Here) :
            LET hit == ResidentNodes(leaf, loc[Here])
            IN  /\ last' = [h \in Hash |-> IF h \in hit THEN req.time ELSE last[h]]
                /\ \/ frames' = <<>>
                   \/ /\ Family = "adaptive"
                      /\ frames' = <<Frame("TLC", hit, req.prefix \cup Segment(leaf),
                                           leaf, "promote")>>
      BY <1>9 DEF StorageHit
    <2>3. last' \in [Hash -> Nat]
      BY <1>1, <2>2 DEF TypeOK
    <2>4. CASE frames' = <<>>
      <3>1. TypeOK'
        BY <1>1, <2>1, <2>3, <2>4 DEF TypeOK
      <3> QED BY <2>1, <2>4, <3>1, QuietStep
    <2>5. CASE frames' # <<>>
      <3> DEFINE R == ResidentNodes(leaf, loc[Here])
                 P == req.prefix \cup Segment(leaf)
                 f == Frame("TLC", R, P, leaf, "promote")
      <3>1. leaf \in Hash /\ R \in SUBSET Hash /\ P \in SUBSET Hash /\ "TLC" \in Tier
        BY <1>1, SegmentType, ResidentType DEF SegmentLeaf, Subtree, Stored, Tier, TypeOK
      <3>2. frames' = <<f>> /\ Family = "adaptive"
        BY <2>2, <2>5
      <3>3. f = [tier |-> "TLC", need |-> Cardinality(R), nodes |-> R, protected |-> P,
                 endpoint |-> leaf, segment |-> Segment(leaf), leaving |-> {},
                 then |-> "promote"]
        BY DEF Frame
      <3> HIDE DEF f, R
      <3>4. /\ f \in Calls /\ f.then = "promote" /\ f.tier = "TLC" /\ f.protected = P
            /\ f.nodes = R /\ f.need = Cardinality(R)
        BY <1>1, <3>1, <3>3, MoveFrameType
      <3>5. TypeOK'
        <4>1. frames' \in Seq(Calls)
          BY <3>2, <3>4
        <4>2. /\ TypeOK /\ active' \in Hash /\ pc' = "admit" /\ last' \in [Hash -> Nat]
              /\ UNCHANGED <<up, mem, loc, used, first, tick, now, req, served, cursor>>
          BY <1>1, <2>1, <2>3
        <4> QED BY <4>1, <4>2 DEF TypeOK
      <3>6. UsedIsStored' /\ MemoryBounded'
        BY <1>1, <2>1 DEF UsedIsStored, Stored, MemoryBounded
      <3>7. StackShape' /\ PendingExact'
        BY <2>1, <3>2, <3>4 DEF Pending, Caller, Top, StackShape, PendingExact
      <3>8. ProtectionInherited'
        BY <2>1, <3>2, <3>4 DEF Pending, Top, Shielded, ProtectionInherited
      <3> QED BY <3>5, <3>6, <3>7, <3>8 DEF IInv
    <2> QED BY <2>4, <2>5
  <1> QED BY <1>2, <1>3, <1>5, <1>6, <1>7, <1>8, <1>9 DEF BlockStep

\* Evicting a segment that holds a DRAM block makes room.
LEMMA EvictionFrees ==
  ASSUME TypeOK, Cardinality(mem) <= MemCapacity, NEW seg \in SUBSET Hash,
         Cardinality(mem) < MemCapacity \/ seg \cap mem # {}
  PROVE  Cardinality(mem \ seg) < MemCapacity
  <1>1. mem \in SUBSET Hash /\ MemCapacity \in Nat /\ IsFiniteSet(mem)
        /\ Cardinality(mem) \in Nat
    BY BlocksFinite, SimulatorAssumption DEF TypeOK
  <1>2. /\ Cardinality(mem \ seg) <= Cardinality(mem) /\ Cardinality(mem \ seg) \in Nat
        /\ Cardinality(mem) = Cardinality(mem \ seg) => mem = mem \ seg
    BY <1>1, FS_Subset, BlocksFinite
  <1> QED BY <1>1, <1>2

\* Insertion and eviction keep the inductive invariant.
LEMMA MemoryStepIInv ==
  ASSUME IInv, MemoryStep
  PROVE  IInv'
  <1>1. TypeOK /\ UsedIsStored /\ MemoryBounded
    BY DEF IInv
  <1>2. /\ frames = <<>> /\ pc \in {"insert", "evict", "store"} /\ active \in Hash
        /\ MemCapacity \in Nat /\ Cardinality(mem) \in Nat
        /\ NoNode \notin Hash
    BY <1>1, BlocksFinite, SimulatorAssumption
       DEF MemoryStep, Insert, DropVictim, SelectVictim, EvictCopies, EvictDone, Dump,
           At, TypeOK, NoNode
  <1>3. CASE Insert
    <2>1. /\ UNCHANGED <<up, loc, used, first, last, tick, now, served, cursor>>
          /\ frames' = <<>> /\ pc' = "access" /\ mem' = mem \cup {active} /\ active' = NoNode
          /\ req' = [req EXCEPT !.pos = req.pos + 1]
      BY <1>2, <1>3 DEF Insert, NextBlock
    <2>2. Cardinality(mem) < MemCapacity
      BY <1>1, <1>2, <1>3 DEF Insert, MemoryBounded, Full, At
    <2>3. Cardinality(mem') <= MemCapacity
      <3>1. IsFiniteSet(mem)
        BY <1>1, BlocksFinite DEF TypeOK
      <3>2. Cardinality(mem \cup {active}) \in {Cardinality(mem), Cardinality(mem) + 1}
        BY <3>1, FS_AddElement
      <3> QED BY <1>2, <2>1, <2>2, <3>2
    <2>4. req' \in [path : Seq(Hash), time : Nat, pos : Nat \ {0}, prefix : SUBSET Hash]
      <3>1. req.pos + 1 \in Nat \ {0}
        BY <1>1 DEF TypeOK
      <3> QED BY <1>1, <2>1, <3>1 DEF TypeOK
    <2>5. TypeOK'
      BY <1>1, <1>2, <2>1, <2>4 DEF TypeOK
    <2>6. UsedIsStored' /\ MemoryBounded'
      BY <1>1, <2>1, <2>3 DEF UsedIsStored, Stored, MemoryBounded
    <2>7. StackShape' /\ PendingExact' /\ ProtectionInherited'
      BY <2>1 DEF Pending, StackShape, PendingExact, ProtectionInherited
    <2> QED BY <2>5, <2>6, <2>7 DEF IInv
  <1>4. ASSUME NEW e \in Hash, NEW g \in Grains,
               LeaveMemory(Segment(e), Leaving(e, g), {}, None),
               Cardinality(mem) < MemCapacity \/ Segment(e) \cap mem # {},
               UNCHANGED <<tick, now, req, served, active, frames>>,
               cursor' \in Hash \cup {NoNode}, pc' \in {"evict", "store"}
        PROVE  IInv'
    <2>1. /\ Leaving(e, g) \in SUBSET Hash /\ {} \in SUBSET Stored(None)
          /\ Cardinality(mem) < MemCapacity \/ Leaving(e, g) \cap mem # {}
      BY <1>1, <1>4, SegmentType, LeavingSome
    <2>2. /\ up' \in [Hash -> SUBSET Hash] /\ mem' = mem \ Leaving(e, g)
          /\ loc' \in [Hash -> Tier \cup {None}]
          /\ first' \in [Hash -> Nat] /\ last' \in [Hash -> Nat]
          /\ used' \in [Tier -> Nat] /\ UsedIsStored'
      BY <1>1, <1>4, <2>1, LeaveStep
    <2>3. TypeOK'
      BY <1>1, <1>2, <1>4, <2>2 DEF TypeOK
    <2>4. Cardinality(mem') < MemCapacity
      BY <1>1, <1>4, <2>1, <2>2, EvictionFrees DEF MemoryBounded
    <2>5. MemoryBounded'
      <3>1. Cardinality(mem') \in Nat
        BY <2>3, BlocksFinite DEF TypeOK
      <3> QED BY <1>2, <2>4, <3>1 DEF MemoryBounded
    <2>6. StackShape' /\ PendingExact' /\ ProtectionInherited'
      BY <1>2, <1>4 DEF Pending, StackShape, PendingExact, ProtectionInherited
    <2> QED BY <2>2, <2>3, <2>5, <2>6 DEF IInv
  <1>5. CASE DropVictim
    <2>1. PICK e \in Victims, g \in Grains :
            LeaveMemory(Segment(e), Leaving(e, g), {}, None)
      BY <1>5 DEF DropVictim
    <2> QED BY <1>1, <1>4, <1>5, <2>1, VictimHoldsMemory DEF DropVictim, TypeOK
  <1>6. CASE EvictCopies
    <2>1. /\ cursor \in Hash /\ pc' = pc /\ pc = "evict"
          /\ UNCHANGED <<tick, now, req, served, active, frames>>
      BY <1>1, <1>6 DEF EvictCopies, TypeOK, At
    <2>4. PICK g \in Grains : LeaveMemory(Segment(cursor), Leaving(cursor, g), {}, None)
      BY <1>6 DEF EvictCopies
    <2>2. Cardinality(mem) < MemCapacity \/ Segment(cursor) \cap mem # {}
      BY <1>1, <1>2, <2>1 DEF MemoryBounded, Evicting, Pending
    <2>3. cursor' \in Hash \cup {NoNode}
      <3>1. Segment(cursor) \subseteq Hash /\ up[cursor] \subseteq Hash
        BY <1>1, <2>1, SegmentType DEF TypeOK
      <3> QED BY <1>6, <3>1 DEF EvictCopies, ParentSegment
    <2> QED BY <1>4, <2>1, <2>2, <2>3, <2>4
  <1>7. CASE SelectVictim
    <2>1. /\ UNCHANGED <<up, mem, loc, used, first, last, tick, now, req, served, active>>
          /\ frames' = <<>> /\ pc' = "evict"
          /\ cursor' \in Hash /\ Segment(cursor') \cap mem # {}
      BY <1>1, <1>2, <1>7, VictimHoldsMemory DEF SelectVictim, treeVars
    <2>2. TypeOK'
      BY <1>1, <1>2, <2>1 DEF TypeOK
    <2>3. UsedIsStored'
      BY <1>1, <2>1 DEF UsedIsStored, Stored
    <2>4. MemoryBounded'
      <3>1. Segment(cursor)' = Segment(cursor')
        BY <2>1 DEF Segment, ChildCount, Children, Below, Subtree
      <3> QED BY <1>1, <1>2, <2>1, <3>1 DEF MemoryBounded, Evicting, Pending
    <2>5. StackShape' /\ PendingExact' /\ ProtectionInherited'
      BY <2>1 DEF Pending, StackShape, PendingExact, ProtectionInherited
    <2> QED BY <2>2, <2>3, <2>4, <2>5 DEF IInv
  <1>8. CASE EvictDone
    <2>1. /\ UNCHANGED <<up, mem, loc, used, first, last, tick, now, req, served, active, cursor>>
          /\ frames' = <<>> /\ pc' = "store" /\ pc = "evict" /\ cursor = NoNode
      BY <1>2, <1>8 DEF EvictDone, At, treeVars
    <2>2. TypeOK'
      BY <1>1, <1>2, <2>1 DEF TypeOK
    <2>3. UsedIsStored' /\ MemoryBounded'
      BY <1>1, <1>2, <2>1 DEF UsedIsStored, Stored, MemoryBounded, Evicting, Pending
    <2>4. StackShape' /\ PendingExact' /\ ProtectionInherited'
      BY <2>1 DEF Pending, StackShape, PendingExact, ProtectionInherited
    <2> QED BY <2>2, <2>3, <2>4 DEF IInv
  <1>9. CASE Dump
    <2>1. PICK t \in Placements, g \in Grains :
            Unwritten(cursor, g) # {} /\ frames' = <<DumpFrame(t, cursor, g)>>
      BY <1>9 DEF Dump
    <2> DEFINE W == Unwritten(cursor, g)
               L == Leaving(cursor, g)
               P == req.prefix \cup Segment(cursor)
               f == DumpFrame(t, cursor, g)
    <2>2. /\ UNCHANGED <<up, mem, loc, used, first, last, tick, now, req, served, active,
                         cursor, pc>>
          /\ cursor \in Hash /\ cursor # NoNode /\ pc = "evict" /\ W # {}
      BY <1>1, <1>9, <2>1 DEF Dump, At, TypeOK, treeVars
    <2>3. /\ t \in Tier /\ P \in SUBSET Hash /\ W \in SUBSET Hash /\ L \in SUBSET Hash
          /\ W = {n \in L : loc[n] = None} /\ L \subseteq mem \cap P
      BY <1>1, <2>2, SegmentType, LeavingSome, SimulatorAssumption DEF Unwritten, TypeOK
    <2>5. /\ f \in Calls /\ f.then = "dump" /\ f.protected = P /\ f.nodes = W
          /\ f.need = Cardinality(W) /\ f.leaving = L
      <3>1. TypeOK /\ t \in Tier /\ cursor \in Hash /\ g \in Grains
        BY <1>1, <2>2, <2>3
      <3>2. Unwritten(cursor, g) \in SUBSET Hash /\ Leaving(cursor, g) \in SUBSET Hash
        BY <2>3
      <3>3. /\ DumpFrame(t, cursor, g) \in Calls
            /\ DumpFrame(t, cursor, g).then = "dump"
            /\ DumpFrame(t, cursor, g).protected = req.prefix \cup Segment(cursor)
            /\ DumpFrame(t, cursor, g).nodes = Unwritten(cursor, g)
            /\ DumpFrame(t, cursor, g).need = Cardinality(Unwritten(cursor, g))
            /\ DumpFrame(t, cursor, g).leaving = Leaving(cursor, g)
        BY ONLY <3>1, <3>2, DumpFrameType
      <3> QED BY <3>3
    <2>4. frames' = <<f>>
      BY <2>1
    <2> HIDE DEF W, L, f
    <2>6. TypeOK'
      BY <1>1, <2>2, <2>4, <2>5 DEF TypeOK
    <2>7. UsedIsStored'
      BY <1>1, <2>2 DEF UsedIsStored, Stored
    <2>8. MemoryBounded'
      BY <1>1, <1>2, <2>2, <2>3, <2>4, <2>5 DEF MemoryBounded, Evicting, Pending, Caller
    <2>9. StackShape' /\ PendingExact'
      <3>1. Len(frames') = 1 /\ DOMAIN frames' = {1} /\ frames'[1] = f
        BY <2>4, StackOfOne
      <3>2. StackShape'
        BY <2>2, <2>5, <3>1 DEF Pending, Caller, Top, StackShape
      <3>3. f.leaving \subseteq mem' \cap f.protected /\ f.nodes = {n \in f.leaving : loc'[n] = None}
        BY <2>2, <2>3, <2>5
      <3>4. PendingExact'
        BY <2>5, <3>1, <3>3 DEF PendingExact
      <3> QED BY <3>2, <3>4
    <2>10. ProtectionInherited'
      <3>1. DOMAIN frames' = {1} /\ frames'[1] = f
        BY <2>4, StackOfOne
      <3>2. req'.prefix \subseteq f.protected
        BY <2>2, <2>5
      <3> QED BY <2>2, <3>1, <3>2 DEF ProtectionInherited
    <2> QED BY <2>6, <2>7, <2>8, <2>9, <2>10 DEF IInv
  <1> QED BY <1>3, <1>5, <1>6, <1>7, <1>8, <1>9 DEF MemoryStep

\* A dump that waits alone, a move on its behalf, or a background move.
LEMMA PendingCases ==
  ASSUME IInv, Pending
  PROVE  \/ /\ frames = <<Top>> /\ Caller = Top /\ Tail(frames) = <<>>
            /\ Top.then \in {"dump", "promote", "background"}
            /\ Top.then # "dump" => Top.tier = "TLC"
         \/ /\ frames = <<Top, Caller>> /\ Tail(frames) = <<Caller>> /\ pc = "evict"
            /\ Top.then = "reclaim" /\ Top.tier = "TLC" /\ Caller.then = "dump"
            /\ Caller.tier = "SLC"
  <1>1. TypeOK /\ StackShape
    BY DEF IInv
  <1>2. CASE Len(frames) = 1
    BY <1>1, <1>2, StackCases DEF StackShape, Top
  <1>3. CASE Len(frames) = 2
    BY <1>1, <1>3, StackCases DEF StackShape, Top
  <1> QED BY <1>1, <1>2, <1>3, StackCases

\* What PendingExact says of the innermost and of the outermost call.
LEMMA PendingFacts ==
  ASSUME IInv, Pending, NEW f \in {Top, Caller}
  PROVE  /\ f \in Calls /\ f.need = Cardinality(f.nodes)
         /\ f.then = "dump" => /\ f.leaving \subseteq mem \cap f.protected
                               /\ f.nodes = {n \in f.leaving : loc[n] = None}
         /\ f.then \in {"reclaim", "background"} => f.nodes \subseteq Stored("SLC")
  <1>1. /\ Top \in Calls /\ Caller \in Calls
        /\ 1 \in DOMAIN frames /\ Len(frames) \in DOMAIN frames
    BY StackCases DEF IInv
  <1> QED BY <1>1 DEF IInv, PendingExact, Top, Caller

\* Making room by a trim or by a nested move keeps the inductive invariant.
LEMMA ReclaimIInv ==
  ASSUME IInv, ReclaimByTrim \/ ReclaimByMove
  PROVE  IInv'
  <1>1. /\ Pending /\ TypeOK /\ UsedIsStored /\ MemoryBounded /\ ProtectionInherited
        /\ Top \in Calls /\ StackShape /\ PendingExact
    BY StackCases DEF IInv, ReclaimByTrim, ReclaimByMove
  <1>2. CASE ReclaimByTrim
    <2>1. PICK e \in LruLeaf(Top.tier, Top.protected) :
            TrimNodes(ResidentNodes(e, Top.tier), Top.tier)
      BY <1>2 DEF ReclaimByTrim
    <2> DEFINE R == ResidentNodes(e, Top.tier)
    <2>2. Top.tier \in Tier /\ R \in SUBSET Stored(Top.tier)
      BY <1>1, LruLeafType, ResidentType DEF Calls
    <2>3. /\ up' \in [Hash -> SUBSET Hash] /\ mem' = mem
          /\ loc' = [h \in Hash |-> IF h \in R THEN None ELSE loc[h]]
          /\ first' \in [Hash -> Nat] /\ last' \in [Hash -> Nat]
          /\ used' \in [Tier -> Nat] /\ UsedIsStored'
      BY <1>1, <2>1, <2>2, TrimStep
    <2>4. UNCHANGED <<tick, now, req, served, active, cursor, frames, pc>>
      BY <1>2 DEF ReclaimByTrim
    <2>5. TypeOK'
      BY <1>1, <2>3, <2>4 DEF TypeOK
    <2>6. StackShape' /\ ProtectionInherited'
      BY <1>1, <2>4 DEF StackShape, ProtectionInherited, Pending, Caller, Top, Shielded
    <2>7. PendingExact'
      <3>1. ASSUME NEW i \in DOMAIN frames
            PROVE  LET f == frames[i]
                   IN  /\ f.then = "dump" =>
                             /\ f.leaving \subseteq mem' \cap f.protected
                             /\ f.nodes = {n \in f.leaving : loc'[n] = None}
                       /\ f.then \in {"reclaim", "background"} =>
                             f.nodes \subseteq Stored("SLC")'
        <4>1. /\ frames[i] \in Calls
              /\ frames[i].then \in {"reclaim", "background"} => Top.tier = "TLC"
          BY <1>1, PendingCases, StackCases, LenProperties DEF IInv, TypeOK, StackShape, Top
        <4>2. /\ frames[i].then = "dump" =>
                    /\ frames[i].leaving \subseteq mem \cap frames[i].protected
                    /\ frames[i].nodes = {n \in frames[i].leaving : loc[n] = None}
              /\ frames[i].then \in {"reclaim", "background"} =>
                    frames[i].nodes \subseteq Stored("SLC")
          BY <1>1 DEF PendingExact
        <4>3. frames[i].nodes \subseteq Hash /\ frames[i].leaving \subseteq Hash
          BY <4>1 DEF Calls
        <4>4. CASE frames[i].then = "dump"
          <5>1. frames[i].protected \subseteq Top.protected
            <6>1. 1 \in DOMAIN frames /\ 1 <= i
              BY <1>1, StackCases
            <6> QED BY <1>1, <6>1 DEF ProtectionInherited, Top
          <5>2. R \cap Top.protected = {}
            BY <1>1, LruLeafType, ResidentType
          <5>3. \A n \in frames[i].leaving : n \in Hash /\ n \notin R
            BY <4>2, <4>3, <4>4, <5>1, <5>2
          <5>4. \A n \in frames[i].leaving : loc'[n] = loc[n]
            BY <2>3, <5>3
          <5> QED BY <2>3, <4>2, <4>4, <5>4
        <4>5. CASE frames[i].then \in {"reclaim", "background"}
          BY <2>2, <2>3, <4>1, <4>2, <4>5 DEF Stored
        <4> QED BY <4>4, <4>5
      <3> QED BY <1>1, <2>4, <3>1 DEF PendingExact
    <2>8. MemoryBounded'
      <3>1. pc = "evict" => Evicting' = Evicting
        BY <1>1, <2>4 DEF Evicting, Pending, Caller
      <3> QED BY <1>1, <2>3, <2>4, <3>1 DEF MemoryBounded
    <2> QED BY <2>3, <2>5, <2>6, <2>7, <2>8 DEF IInv
  <1>3. CASE ReclaimByMove
    <2>1. PICK e \in LruLeaf("SLC", Top.protected) :
            frames' = <<Frame("TLC", ResidentNodes(e, "SLC"),
                              Top.protected \cup Segment(e), e, "reclaim")>> \o frames
      BY <1>3 DEF ReclaimByMove
    <2> DEFINE R == ResidentNodes(e, "SLC")
               P == Top.protected \cup Segment(e)
               g == Frame("TLC", R, P, e, "reclaim")
    <2>2. /\ e \in Hash /\ "TLC" \in Tier /\ P \in SUBSET Hash /\ R \in SUBSET Hash
          /\ R \subseteq Stored("SLC")
      BY <1>1, LruLeafType, ResidentType, SegmentType DEF Calls, Stored, Tier
    <2>3. UNCHANGED <<up, mem, loc, used, first, last, tick, now, req, served, active, cursor, pc>>
      BY <1>3 DEF ReclaimByMove, treeVars
    <2>4. frames = <<Top>> /\ Top.then = "dump" /\ Top.tier = "SLC" /\ pc = "evict"
      BY <1>1, <1>3, PendingCases DEF ReclaimByMove, RelocatesVictim, IInv, StackShape
    <2>5. frames' = <<g, Top>> /\ g = Frame("TLC", R, P, e, "reclaim")
      <3> HIDE DEF g
      <3>1. <<g>> \o <<Top>> = <<g, Top>>
        BY PushOne
      <3> QED BY <2>1, <2>4, <3>1 DEF g
    <2> HIDE DEF R, g
    <2>6. /\ g \in Calls /\ g.then = "reclaim" /\ g.tier = "TLC" /\ g.protected = P
          /\ g.nodes = R /\ g.need = Cardinality(R)
      <3>1. g = [tier |-> "TLC", need |-> Cardinality(R), nodes |-> R, protected |-> P,
                 endpoint |-> e, segment |-> Segment(e), leaving |-> {},
                 then |-> "reclaim"]
        BY <2>5 DEF Frame
      <3> QED BY <1>1, <2>2, <3>1, MoveFrameType
    <2>7. TypeOK'
      BY <1>1, <2>3, <2>5, <2>6 DEF TypeOK
    <2>8. UsedIsStored'
      BY <1>1, <2>3 DEF UsedIsStored, Stored
    <2>9. MemoryBounded'
      BY <1>1, <2>3, <2>4, <2>5 DEF MemoryBounded, Evicting, Pending, Caller
    <2>10. StackShape'
      BY <2>3, <2>4, <2>5, <2>6 DEF StackShape, Pending, Caller, Top
    <2>11. PendingExact'
      <3> DEFINE c == Top
      <3>1. Stored("SLC")' = Stored("SLC")
        BY <2>3 DEF Stored
      <3>2. /\ g.then = "reclaim" /\ g.need = Cardinality(g.nodes)
            /\ g.nodes \subseteq Stored("SLC")'
        BY <2>2, <2>6, <3>1
      <3>3. /\ c.then = "dump" /\ c.need = Cardinality(c.nodes)
            /\ c.leaving \subseteq mem \cap c.protected
            /\ c.nodes = {n \in c.leaving : loc[n] = None}
        BY <1>1, <2>4, PendingFacts
      <3>4. frames' = <<g, c>>
        BY <2>4, <2>5
      <3> HIDE DEF c
      <3>5. c.leaving \subseteq mem' \cap c.protected /\ c.nodes = {n \in c.leaving : loc'[n] = None}
        BY <2>3, <3>3
      <3>6. DOMAIN frames' = {1, 2} /\ frames'[1] = g /\ frames'[2] = c
        BY <3>4, StackOfTwo
      <3>7. ASSUME NEW i \in DOMAIN frames'
            PROVE  /\ frames'[i].need = Cardinality(frames'[i].nodes)
                   /\ frames'[i].then = "dump" =>
                        /\ frames'[i].leaving \subseteq mem' \cap frames'[i].protected
                        /\ frames'[i].nodes = {n \in frames'[i].leaving : loc'[n] = None}
                   /\ frames'[i].then \in {"reclaim", "background"} =>
                        frames'[i].nodes \subseteq Stored("SLC")'
        <4>1. CASE i = 1
          BY <3>2, <3>6, <4>1
        <4>2. CASE i = 2
          BY <3>3, <3>5, <3>6, <4>2
        <4> QED BY <3>6, <4>1, <4>2
      <3> QED BY <3>7 DEF PendingExact
    <2>12. ProtectionInherited'
      <3> DEFINE T == Top
      <3>1. req.prefix \subseteq T.protected /\ T.protected \subseteq P /\ g.protected = P
        <4>1. 1 \in DOMAIN frames
          BY <2>4
        <4> QED BY <1>1, <2>6, <4>1 DEF ProtectionInherited, Top
      <3>2. frames' = <<g, T>> /\ pc' = "evict" /\ req' = req
        BY <2>3, <2>4, <2>5
      <3> HIDE DEF T, P
      <3> QED BY <3>1, <3>2 DEF ProtectionInherited
    <2> QED BY <2>7, <2>8, <2>9, <2>10, <2>11, <2>12 DEF IInv
  <1> QED BY <1>2, <1>3

\* A dump call that returns: its segment leaves DRAM, written or rejected.
LEMMA DumpReturns ==
  ASSUME IInv, Pending, Caller.then = "dump",
         NEW nodes \in {Caller.nodes, {}}, NEW t, nodes # {} => t \in Tier,
         LeaveMemory(Caller.segment, Caller.leaving, nodes, t),
         frames' = <<>>, pc' = "store", cursor' = NoNode,
         UNCHANGED <<tick, now, req, served, active>>
  PROVE  IInv'
  <1>1. /\ TypeOK /\ UsedIsStored /\ MemoryBounded /\ Caller \in Calls /\ pc = "evict"
    BY StackCases DEF IInv, StackShape
  <1>2. Caller.leaving \in SUBSET Hash /\ nodes \in SUBSET Stored(None)
    <2>1. Caller.nodes = {n \in Caller.leaving : loc[n] = None}
      BY PendingFacts
    <2>2. Caller.leaving \subseteq Hash /\ Caller.nodes \subseteq Hash
      BY <1>1 DEF Calls
    <2>3. Caller.nodes \subseteq Stored(None)
      BY <2>1, <2>2 DEF Stored
    <2> QED BY <2>2, <2>3
  <1>3. /\ up' \in [Hash -> SUBSET Hash] /\ mem' = mem \ Caller.leaving
        /\ loc' \in [Hash -> Tier \cup {None}]
        /\ first' \in [Hash -> Nat] /\ last' \in [Hash -> Nat]
        /\ used' \in [Tier -> Nat] /\ UsedIsStored'
    BY <1>1, <1>2, LeaveStep
  <1>4. TypeOK'
    <2>1. mem' \subseteq Hash
      BY <1>1, <1>3 DEF TypeOK
    <2>2. frames' \in Seq(Calls) /\ cursor' \in Hash \cup {NoNode} /\ active \in Hash
      BY <1>1 DEF TypeOK
    <2> QED BY <1>1, <1>3, <2>1, <2>2 DEF TypeOK
  <1>5. MemoryBounded'
    <2>1. Cardinality(mem') < MemCapacity
      BY <1>1, <1>2, <1>3, EvictionFrees DEF MemoryBounded, Evicting
    <2>2. Cardinality(mem') \in Nat /\ MemCapacity \in Nat
      BY <1>4, BlocksFinite, SimulatorAssumption DEF TypeOK
    <2> QED BY <2>1, <2>2 DEF MemoryBounded
  <1>6. StackShape' /\ PendingExact' /\ ProtectionInherited'
    BY DEF Pending, StackShape, PendingExact, ProtectionInherited
  <1> QED BY <1>3, <1>4, <1>5, <1>6 DEF IInv

\* A relocation whose capacity was granted.
LEMMA MoveReturns ==
  ASSUME IInv, Pending, Top.then # "dump",
         NEW nodes \in SUBSET Stored("SLC"), MoveNodes(nodes),
         frames' = Tail(frames), UNCHANGED <<tick, now, req, served, active, cursor, pc>>
  PROVE  IInv'
  <1>1. /\ TypeOK /\ UsedIsStored /\ MemoryBounded /\ StackShape /\ ProtectionInherited
        /\ Caller \in Calls /\ Tail(frames) \in Seq(Calls)
    BY StackCases DEF IInv
  <1>2. /\ up' = up /\ mem' = mem /\ first' = first /\ last' = last
        /\ loc' = [h \in Hash |-> IF h \in nodes THEN "TLC" ELSE loc[h]]
        /\ used' \in [Tier -> Nat] /\ UsedIsStored'
    BY <1>1, MoveStep
  <1>3. TypeOK'
    BY <1>1, <1>2 DEF TypeOK, Tier
  <1>4. CASE Tail(frames) = <<>>
    <2>1. StackShape' /\ PendingExact' /\ ProtectionInherited'
      BY <1>1, <1>4 DEF Pending, StackShape, PendingExact, ProtectionInherited
    <2>2. pc # "evict"
      BY <1>1, <1>4, PendingCases DEF StackShape
    <2>3. MemoryBounded'
      BY <1>1, <1>2, <2>2 DEF MemoryBounded
    <2> QED BY <1>2, <1>3, <2>1, <2>3 DEF IInv
  <1>5. CASE Tail(frames) # <<>>
    <2>1. /\ frames' = <<Caller>> /\ Caller.then = "dump" /\ pc = "evict"
          /\ frames = <<Top, Caller>>
      BY <1>5, PendingCases
    <2>2. StackShape'
      <3> DEFINE c == Caller
      <3>1. frames' = <<c>> /\ c.then = "dump" /\ pc' = "evict"
        BY <2>1
      <3> HIDE DEF c
      <3>2. Len(frames') = 1 /\ DOMAIN frames' = {1} /\ frames'[1] = c
        BY <3>1, StackOfOne
      <3>3. Caller' = c
        BY <3>2 DEF Caller
      <3> QED BY ONLY <3>1, <3>2, <3>3 DEF StackShape, Pending, Top
    <2>3. PendingExact'
      <3> DEFINE c == Caller
      <3>1. /\ c.need = Cardinality(c.nodes) /\ c.nodes \subseteq Hash /\ c.then = "dump"
            /\ c.leaving \subseteq mem \cap c.protected /\ c.leaving \subseteq Hash
            /\ c.nodes = {n \in c.leaving : loc[n] = None}
        BY <1>1, <2>1, PendingFacts DEF Calls
      <3>2. frames' = <<c>>
        BY <2>1
      <3> HIDE DEF c
      <3>3. \A n \in c.leaving : loc'[n] = None <=> loc[n] = None
        BY <1>2, <3>1 DEF Stored, None
      <3>4. c.leaving \subseteq mem' \cap c.protected /\ c.nodes = {n \in c.leaving : loc'[n] = None}
        BY <1>2, <3>1, <3>3
      <3>5. DOMAIN frames' = {1} /\ frames'[1] = c
        BY <3>2, StackOfOne
      <3> QED BY <3>1, <3>4, <3>5 DEF PendingExact
    <2>4. ProtectionInherited'
      <3> DEFINE c == Caller
      <3>1. frames' = <<c>>
        BY <2>1
      <3>2. req.prefix \subseteq c.protected
        <4>1. Len(frames) \in DOMAIN frames
          BY <1>1, StackCases
        <4> QED BY <1>1, <4>1 DEF ProtectionInherited, Caller
      <3> HIDE DEF c
      <3>3. pc' = "evict"
        BY <2>1
      <3> QED BY <3>1, <3>2, <3>3 DEF ProtectionInherited
    <2>5. MemoryBounded'
      BY <1>1, <1>2, <2>1 DEF MemoryBounded, Evicting, Pending, Caller
    <2> QED BY <1>2, <1>3, <2>2, <2>3, <2>4, <2>5 DEF IInv
  <1> QED BY <1>4, <1>5

\* Every step of the capacity loop keeps the inductive invariant.
LEMMA CapacityStepIInv ==
  ASSUME IInv, CapacityStep
  PROVE  IInv'
  <1>1. CASE ReclaimByTrim \/ ReclaimByMove
    BY <1>1, ReclaimIInv
  <1>2. CASE GrantDump
    <2>1. /\ Pending /\ Top.then = "dump"
          /\ LeaveMemory(Top.segment, Top.leaving, Top.nodes, Top.tier)
          /\ frames' = Tail(frames) /\ pc' = "store" /\ cursor' = NoNode
          /\ UNCHANGED <<tick, now, req, served, active>>
      BY <1>2 DEF GrantDump, Grant
    <2>2. Caller = Top /\ Tail(frames) = <<>> /\ Top.tier \in Tier
      BY <2>1, PendingCases, PendingFacts DEF Calls
    <2> QED BY <2>1, <2>2, DumpReturns
  <1>3. CASE GrantMove
    <2>1. /\ Pending /\ Top.then \in {"reclaim", "background"} /\ MoveNodes(Top.nodes)
          /\ frames' = Tail(frames) /\ UNCHANGED <<tick, now, req, served, active, cursor, pc>>
      BY <1>3 DEF GrantMove, Grant
    <2>2. Top.nodes \in SUBSET Stored("SLC")
      BY <2>1, PendingFacts
    <2> QED BY <2>1, <2>2, MoveReturns
  <1>4. CASE GrantPromotion
    <2>1. /\ Pending /\ Top.then = "promote" /\ MoveNodes(ResidentNodes(Top.endpoint, "SLC"))
          /\ frames' = Tail(frames) /\ UNCHANGED <<tick, now, req, served, active, cursor, pc>>
      BY <1>4 DEF GrantPromotion, Grant
    <2>2. ResidentNodes(Top.endpoint, "SLC") \in SUBSET Stored("SLC")
      BY <2>1, PendingFacts, ResidentType DEF Calls, IInv
    <2> QED BY <2>1, <2>2, MoveReturns
  <1>5. CASE RejectDump
    <2>1. /\ Pending /\ Caller.then = "dump" /\ LeaveMemory(Caller.segment, Caller.leaving, {}, None)
          /\ frames' = <<>> /\ pc' = "store" /\ cursor' = NoNode
          /\ UNCHANGED <<tick, now, req, served, active>>
      BY <1>5 DEF RejectDump, Denied
    <2> QED BY <2>1, DumpReturns
  <1>6. CASE RejectPromotion \/ RejectBackground
    <2>1. /\ Pending /\ Caller.then # "dump" /\ frames' = <<>> /\ tick' \in {tick, 0, tick + Period}
          /\ UNCHANGED <<up, mem, loc, used, first, last, now, req, served, active, cursor, pc>>
      BY <1>6 DEF RejectPromotion, RejectBackground, Advance, Denied, treeVars
    <2>2. TypeOK /\ UsedIsStored /\ MemoryBounded /\ ProtectionInherited /\ pc # "evict"
      BY <2>1 DEF IInv, StackShape
    <2>3. tick' \in Nat
      BY <2>1, <2>2, SimulatorAssumption DEF TypeOK
    <2>4. TypeOK'
      BY <2>1, <2>2, <2>3 DEF TypeOK
    <2>5. StackShape' /\ PendingExact' /\ ProtectionInherited'
      BY <2>1, <2>2 DEF Pending, StackShape, PendingExact, ProtectionInherited
    <2>6. UsedIsStored' /\ MemoryBounded'
      BY <2>1, <2>2 DEF UsedIsStored, Stored, MemoryBounded
    <2> QED BY <2>4, <2>5, <2>6 DEF IInv
  <1> QED BY <1>1, <1>2, <1>3, <1>4, <1>5, <1>6 DEF CapacityStep

\* The end of finish() keeps the inductive invariant.
LEMMA CloseIInv ==
  ASSUME IInv, Close
  PROVE  IInv'
  <1>1. /\ UNCHANGED <<up, mem, loc, used, first, last, tick, now, req, served, active, cursor>>
        /\ frames = <<>> /\ frames' = <<>> /\ pc' = "finished"
    BY DEF Close, At, treeVars
  <1>2. TypeOK'
    BY <1>1 DEF IInv, TypeOK
  <1> QED BY <1>1, <1>2, QuietStep

\* The inductive invariant speaks of the variables only.
LEMMA StutterIInv ==
  ASSUME IInv, UNCHANGED vars
  PROVE  IInv'
  <1>1. TypeOK' /\ StackShape'
    BY DEF IInv, TypeOK, StackShape, Pending, Caller, Top, vars
  <1>2. UsedIsStored' /\ PendingExact' /\ ProtectionInherited'
    BY DEF IInv, UsedIsStored, PendingExact, Stored, ProtectionInherited, vars
  <1>3. MemoryBounded'
    <2>1. Evicting' = Evicting
      BY DEF Evicting, Segment, ChildCount, Children, Below, Subtree, Pending, Caller, vars
    <2> QED BY <2>1 DEF IInv, MemoryBounded, vars
  <1> QED BY <1>1, <1>2, <1>3 DEF IInv

\* Every step keeps the inductive invariant.
LEMMA NextIInv == IInv /\ [Next]_vars => IInv'
  <1> SUFFICES ASSUME IInv, [Next]_vars PROVE IInv'
    OBVIOUS
  <1>1. CASE Environment
    BY <1>1, EnvironmentIInv
  <1>2. CASE Maintenance
    BY <1>2, MaintenanceIInv
  <1>3. CASE BlockStep
    BY <1>3, BlockStepIInv
  <1>4. CASE MemoryStep
    BY <1>4, MemoryStepIInv
  <1>5. CASE CapacityStep
    BY <1>5, CapacityStepIInv
  <1>6. CASE Close
    BY <1>6, CloseIInv
  <1>7. CASE Terminated \/ UNCHANGED vars
    BY <1>7, StutterIInv DEF Terminated
  <1> QED BY <1>1, <1>2, <1>3, <1>4, <1>5, <1>6, <1>7 DEF Next, Run

-----------------------------------------------------------------------------
(* Theorems. *)

\* Hence it holds in every reachable state.
LEMMA Invariance == Spec => []IInv
  BY InitIInv, NextIInv, PTL DEF Spec

\* Every variable keeps its type; in particular a used-block counter never
\* wraps below zero when release() is called.
THEOREM TypeInvariance == Spec => []TypeOK
  BY Invariance, PTL DEF IInv

\* The used-block counter of a tier is the number of blocks located on it,
\* whatever dumps, trims, moves and promotions were nested in each other.
THEOREM CountersExact == Spec => []UsedIsStored
  BY Invariance, PTL DEF IInv

\* One eviction always makes room for the block it was asked for.
THEOREM DramBounded == Spec => []MemoryBounded
  BY Invariance, PTL DEF IInv

\* ensure_capacity() never nests deeper than a dump and one relocation.
THEOREM NestingBounded == Spec => []StackShape
  BY Invariance, PTL DEF IInv

\* What a caller listed before it asked for capacity is true when it goes on.
THEOREM PendingListsExact == Spec => []PendingExact
  BY Invariance, PTL DEF IInv

\* An inner call protects whatever the calls that wait for it protect.
THEOREM ProtectionNested == Spec => []ProtectionInherited
  BY Invariance, PTL DEF IInv

\* A step leaves the location of every block that is shielded on some tier.
LEMMA ShieldedStep ==
  ASSUME IInv, [Next]_vars, NEW h \in Shielded, loc[h] # None
  PROVE  loc'[h] # None
  <1>1. TypeOK /\ UsedIsStored /\ ProtectionInherited
    BY DEF IInv
  <1>2. h \in Hash
    <2>1. CASE frames = <<>>
      BY <1>1, <2>1 DEF Shielded, TypeOK
    <2>2. CASE frames # <<>>
      <3>1. \A i \in DOMAIN frames : frames[i] \in Calls
        BY <1>1, LenProperties, ElementOfSeq DEF TypeOK
      <3>2. \A i \in DOMAIN frames : frames[i].protected \subseteq Hash
        BY <3>1 DEF Calls
      <3> QED BY <1>1, <3>2 DEF Shielded, TypeOK
    <2> QED BY <2>1, <2>2
  <1>3. CASE loc' = loc
    BY <1>3
  <1>4. ASSUME NEW i, NEW p, IdleTrim(i, p) PROVE FALSE
    BY <1>1, <1>4 DEF IdleTrim, CatchingUp, At, ProtectionInherited, Shielded
  <1>5. CASE ReclaimByTrim
    <2>1. Pending /\ 1 \in DOMAIN frames /\ Top \in Calls
      BY <1>5, StackCases DEF IInv, ReclaimByTrim
    <2>2. h \in Top.protected
      BY <1>1, <2>1, StackCases DEF ProtectionInherited, Shielded, Top, IInv
    <2>3. PICK e \in LruLeaf(Top.tier, Top.protected) :
            TrimNodes(ResidentNodes(e, Top.tier), Top.tier)
      BY <1>5 DEF ReclaimByTrim
    <2>4. h \notin ResidentNodes(e, Top.tier)
      BY <1>1, <2>2, LruLeafType, ResidentType
    <2> QED BY <1>2, <2>3, <2>4 DEF TrimNodes
  <1>6. ASSUME NEW nodes, MoveNodes(nodes) PROVE loc'[h] # None
    BY <1>2, <1>6 DEF MoveNodes, None
  <1>7. ASSUME NEW seg, NEW out, LeaveMemory(seg, out, {}, None) PROVE loc'[h] # None
    BY <1>2, <1>7 DEF LeaveMemory
  <1>8. CASE GrantDump
    <2>1. Top.tier \in Tier /\ LeaveMemory(Top.segment, Top.leaving, Top.nodes, Top.tier)
      BY <1>8, StackCases DEF GrantDump, Grant, Calls, IInv
    <2> QED BY <1>2, <2>1 DEF LeaveMemory, Tier, None
  <1>9. \/ loc' = loc \/ (\E i, p : IdleTrim(i, p)) \/ ReclaimByTrim \/ GrantDump
        \/ (\E nodes : MoveNodes(nodes)) \/ (\E seg, out : LeaveMemory(seg, out, {}, None))
    <2>1. CASE Environment \/ Close \/ Terminated \/ UNCHANGED vars
      BY <2>1 DEF Environment, Finish, Submit, Close, Terminated, treeVars, vars
    <2>2. CASE Maintenance
      BY <2>2 DEF Maintenance, BackgroundMove, EndTick, treeVars
    <2>3. CASE BlockStep
      BY <2>3 DEF BlockStep, BeginRequest, EndRequest, MemoryHit, GlobalMiss, StorageHit,
                  AdmitHit, BypassHit, treeVars
    <2>4. CASE MemoryStep
      BY <2>4 DEF MemoryStep, Insert, DropVictim, SelectVictim, EvictCopies, EvictDone,
                  Dump, treeVars
    <2>5. CASE CapacityStep
      BY <2>5 DEF CapacityStep, ReclaimByMove, GrantMove, GrantPromotion, RejectDump,
                  RejectPromotion, RejectBackground, treeVars
    <2> QED BY <2>1, <2>2, <2>3, <2>4, <2>5 DEF Next, Run
  <1> QED BY <1>3, <1>4, <1>5, <1>6, <1>7, <1>8, <1>9

\* No protected block, and no block of the resident prefix of the request in
\* progress, loses its SSD copy.
THEOREM ShieldedBlocksSurvive == Spec => ShieldedSurvive
  <1>1. IInv /\ [Next]_vars => [\A h \in Shielded : loc[h] # None => loc'[h] # None]_vars
    BY ShieldedStep
  <1> QED BY <1>1, Invariance, PTL DEF Spec, ShieldedSurvive

\* The limits that hold whatever the policy: nothing but a promotion after an
\* access can overfill a tier, and promotions go from SLC to TLC.
LimitKept ==
  /\ used["SLC"] <= Limit["SLC"]
  /\ Family # "adaptive" => used["TLC"] <= Limit["TLC"]

\* Every step keeps the limit of a tier that no promotion writes to.
LEMMA LimitStep ==
  ASSUME IInv, LimitKept, [Next]_vars
  PROVE  LimitKept'
  <1>1. /\ TypeOK /\ UsedIsStored /\ used \in [Tier -> Nat] /\ Limit \in [Tier -> Nat]
        /\ "SLC" \in Tier /\ "TLC" \in Tier
    BY SimulatorAssumption DEF IInv, TypeOK, Tier
  <1>2. CASE used' = used
    BY <1>2 DEF LimitKept
  <1>3. ASSUME NEW t \in Tier, NEW nodes \in SUBSET Stored(t), TrimNodes(nodes, t)
        PROVE  LimitKept'
    <2>1. used' \in [Tier -> Nat] /\ \A x \in Tier : used'[x] <= used[x]
      BY <1>1, <1>3, TrimStep
    <2> QED BY <1>1, <2>1 DEF LimitKept
  <1>4. ASSUME NEW i, NEW p, IdleTrim(i, p) PROVE LimitKept'
    <2>1. PICK b \in Background(i, p) : TrimNodes(ResidentNodes(b.endpoint, b.tier), b.tier)
      BY <1>4 DEF IdleTrim
    <2>2. b.tier \in Tier /\ ResidentNodes(b.endpoint, b.tier) \in SUBSET Stored(b.tier)
      BY <1>1, BackgroundType, ResidentType
    <2> QED BY <1>3, <2>1, <2>2
  <1>5. CASE ReclaimByTrim
    <2>1. PICK e \in LruLeaf(Top.tier, Top.protected) :
            TrimNodes(ResidentNodes(e, Top.tier), Top.tier)
      BY <1>5 DEF ReclaimByTrim
    <2>2. Top.tier \in Tier /\ ResidentNodes(e, Top.tier) \in SUBSET Stored(Top.tier)
      BY <1>1, <1>5, StackCases, LruLeafType, ResidentType DEF ReclaimByTrim, IInv, Calls
    <2> QED BY <1>3, <2>1, <2>2
  <1>6. CASE GrantMove
    <2>1. /\ Pending /\ Top.then \in {"reclaim", "background"} /\ MoveNodes(Top.nodes)
          /\ used[Top.tier] + Top.need <= Limit[Top.tier]
      BY <1>6 DEF GrantMove, Grant, Fits
    <2>2. /\ Top.nodes \in SUBSET Stored("SLC") /\ Top.need = Cardinality(Top.nodes)
          /\ Top.tier = "TLC"
      BY <2>1, PendingFacts, PendingCases
    <2>3. /\ used'["SLC"] <= used["SLC"] /\ used' \in [Tier -> Nat]
          /\ used'["TLC"] = used["TLC"] + Cardinality(Top.nodes)
      BY <1>1, <2>1, <2>2, MoveStep
    <2> QED BY <1>1, <2>1, <2>2, <2>3 DEF LimitKept
  <1>7. CASE GrantPromotion
    <2>1. Pending /\ Top.then = "promote" /\ MoveNodes(ResidentNodes(Top.endpoint, "SLC"))
      BY <1>7 DEF GrantPromotion, Grant
    <2>2. ResidentNodes(Top.endpoint, "SLC") \in SUBSET Stored("SLC")
      BY <1>1, <2>1, PendingFacts, ResidentType DEF Calls
    <2>3. used'["SLC"] <= used["SLC"] /\ used' \in [Tier -> Nat]
      BY <1>1, <2>1, <2>2, MoveStep
    <2>4. Family = "adaptive"
      BY <2>1, PendingCases DEF IInv, StackShape
    <2> QED BY <1>1, <2>3, <2>4 DEF LimitKept
  <1>8. CASE GrantDump
    <2>1. /\ Pending /\ Top.then = "dump"
          /\ LeaveMemory(Top.segment, Top.leaving, Top.nodes, Top.tier)
          /\ used[Top.tier] + Top.need <= Limit[Top.tier]
      BY <1>8 DEF GrantDump, Grant, Fits
    <2>2. /\ Top \in Calls /\ Top.need = Cardinality(Top.nodes)
          /\ Top.nodes = {n \in Top.leaving : loc[n] = None}
      BY <2>1, PendingFacts
    <2>3. /\ Top.nodes \in SUBSET Stored(None)
          /\ Top.tier \in Tier
      BY <2>2 DEF Calls, Stored
    <2>4. \/ used' = used
          \/ used' = [used EXCEPT ![Top.tier] = used[Top.tier] + Top.need]
      BY <2>1, <2>2 DEF LeaveMemory, Allocate
    <2> QED BY <1>1, <2>1, <2>2, <2>3, <2>4 DEF LimitKept
  <1>9. \/ used' = used \/ (\E i, p : IdleTrim(i, p)) \/ ReclaimByTrim
        \/ GrantMove \/ GrantPromotion \/ GrantDump
    <2>1. CASE Environment \/ Close \/ Terminated \/ UNCHANGED vars
      BY <2>1 DEF Environment, Finish, Submit, Close, Terminated, treeVars, vars
    <2>2. CASE Maintenance
      BY <2>2 DEF Maintenance, BackgroundMove, EndTick, treeVars
    <2>3. CASE BlockStep
      BY <2>3 DEF BlockStep, BeginRequest, EndRequest, MemoryHit, GlobalMiss, StorageHit,
                  AdmitHit, BypassHit, treeVars
    <2>4. CASE MemoryStep
      BY <2>4 DEF MemoryStep, Insert, DropVictim, SelectVictim, EvictCopies, EvictDone,
                  Dump, LeaveMemory, treeVars
    <2>5. CASE CapacityStep
      BY <2>5 DEF CapacityStep, ReclaimByMove, RejectDump, RejectPromotion,
                  RejectBackground, LeaveMemory, treeVars
    <2> QED BY <2>1, <2>2, <2>3, <2>4, <2>5 DEF Next, Run
  <1> QED BY <1>2, <1>4, <1>5, <1>6, <1>7, <1>8, <1>9

\* The SLC limit holds for every policy family, the TLC limit without access
\* migrations.
THEOREM LimitInvariance == Spec => []LimitKept
  <1>1. Init => LimitKept
    BY SimulatorAssumption DEF Init, LimitKept, Tier
  <1>2. IInv /\ LimitKept /\ [Next]_vars => LimitKept'
    BY LimitStep
  <1> QED BY <1>1, <1>2, Invariance, PTL DEF Spec

\* Every policy family but the adaptive one keeps both tiers within limits.
THEOREM LimitsHold == ASSUME Family # "adaptive" PROVE Spec => []WithinLimit
  <1>1. LimitKept => WithinLimit
    BY DEF LimitKept, WithinLimit, Tier
  <1> QED BY <1>1, LimitInvariance, PTL

-----------------------------------------------------------------------------
(* But for the adaptive family, the simulator implements TieredCache: every *)
(* step, at whatever depth of the stack of capacity requests, does to the   *)
(* blocks what one step of the cache does or nothing.                       *)

\* The block being brought to the reader is noted as long as it is, a storage
\* hit is on the SSD when it is decided where it is read, and only an eviction
\* waits for capacity.
AskingExact ==
  /\ pc \notin {"admit", "insert", "evict", "store"} => active = NoNode
  /\ pc = "admit" => loc[active] # None
  /\ Pending => pc = "evict"

\* Blocks and the absence of one are different.
LEMMA BlockIsNotNone ==
  ASSUME NEW h \in Hash
  PROVE  h # NoNode
  BY SimulatorAssumption DEF NoNode

\* Both modules count the same way.
LEMMA CountsAgree ==
  ASSUME NEW S
  PROVE  Cache!Cardinality(S) = Cardinality(S)
  BY Zenon DEF Cardinality, Cache!Cardinality, IsFiniteSet, Cache!IsFiniteSet

\* A step that touches neither blocks nor the request in progress.
LEMMA QuietCache ==
  ASSUME UNCHANGED <<mem, loc, active>>, req'.prefix = req.prefix
  PROVE  [Cache!CacheNext]_Cache!cacheVars
  BY DEF Cache!cacheVars

\* Blocks that leave DRAM and are not written.
LEMMA LeaveMaps ==
  ASSUME TypeOK, active \in Hash, NEW S \in SUBSET mem, NEW seg,
         LeaveMemory(seg, S, {}, None), UNCHANGED <<req, active>>
  PROVE  Cache!CacheNext
  <1>1. mem' = mem \ S /\ loc' = loc
    BY DEF LeaveMemory, TypeOK
  <1>2. active # NoNode
    BY BlockIsNotNone
  <1>3. Cache!Evict(S, "SLC")
    BY <1>1, <1>2 DEF Cache!Evict
  <1> QED BY <1>3 DEF Cache!CacheNext, Cache!CacheTier

\* Requests and the background plane, which has nothing to do here.
LEMMA OutsideMaps ==
  ASSUME IInv, AskingExact, Family # "adaptive",
         Environment \/ Maintenance \/ Close \/ Terminated \/ UNCHANGED vars
  PROVE  [Cache!CacheNext]_Cache!cacheVars /\ AskingExact'
  <1>1. CASE Environment
    <2>1. /\ UNCHANGED <<mem, loc, active, frames>> /\ req'.prefix = {} /\ frames = <<>>
          /\ pc = "idle" /\ pc' \in {"catch_up", "closing"}
      BY <1>1 DEF Environment, Finish, Submit, At, NoRequest, treeVars
    <2>2. Cache!End
      BY <2>1 DEF Cache!End, AskingExact
    <2> QED BY <2>1, <2>2 DEF Cache!CacheNext, AskingExact, Pending
  <1>2. CASE Maintenance
    <2>1. PICK i \in IdleAges, p \in PromotionAges :
              IdleTrim(i, p) \/ BackgroundMove(i, p) \/ EndTick(i, p)
      BY <1>2 DEF Maintenance
    <2>2. EndTick(i, p)
      BY <2>1, BackgroundType DEF IdleTrim, BackgroundMove
    <2>3. UNCHANGED <<mem, loc, active, req, frames, pc>>
      BY <2>2 DEF EndTick, treeVars
    <2> QED BY <2>3, QuietCache DEF AskingExact, Pending
  <1>3. CASE Close
    <2>1. /\ UNCHANGED <<mem, loc, active, req, frames>> /\ pc = "closing"
          /\ frames = <<>> /\ pc' = "finished"
      BY <1>3 DEF Close, At, treeVars
    <2> QED BY <2>1, QuietCache DEF AskingExact, Pending
  <1>4. CASE Terminated \/ UNCHANGED vars
    <2>1. UNCHANGED <<mem, loc, active, req, frames, pc>>
      BY <1>4 DEF Terminated, vars
    <2> QED BY <2>1, QuietCache DEF AskingExact, Pending
  <1> QED BY <1>1, <1>2, <1>3, <1>4

\* The path of a request: begin, access, end.
LEMMA AccessMaps ==
  ASSUME IInv, AskingExact, Family # "adaptive", BlockStep
  PROVE  [Cache!CacheNext]_Cache!cacheVars /\ AskingExact'
  <1>1. TypeOK
    BY DEF IInv
  <1>2. CASE BeginRequest
    <2>1. /\ UNCHANGED <<mem, loc, active, frames>> /\ frames = <<>>
          /\ pc = "catch_up" /\ pc' = "access" /\ req'.prefix = Prefix(req.path)
      BY <1>1, <1>2 DEF BeginRequest, At, treeVars, TypeOK
    <2>2. active = NoNode /\ req.prefix = {}
      BY <2>1 DEF AskingExact, IInv, ProtectionInherited
    <2>3. Prefix(req.path) \subseteq mem \cup {h \in Hash : loc[h] # None}
      <3>1. req.path \in Seq(Hash)
        BY <1>1 DEF TypeOK
      <3>2. \A i \in DOMAIN req.path : req.path[i] \in Hash
        BY <3>1, LenProperties, ElementOfSeq
      <3>3. \A i \in DOMAIN req.path : (\A j \in 1 .. i : Resident(req.path[j]))
                => Resident(req.path[i])
        BY <3>1, LenProperties
      <3>4. \A h \in Prefix(req.path) : h \in Hash /\ Resident(h)
        BY <3>2, <3>3 DEF Prefix
      <3> QED BY <3>4 DEF Resident
    <2>4. Cache!Begin
      BY <2>1, <2>2, <2>3 DEF Cache!Begin, Cache!Nowhere, None
    <2> QED BY <2>1, <2>2, <2>4 DEF Cache!CacheNext, AskingExact, Pending
  <1>3. CASE EndRequest
    <2>1. /\ UNCHANGED <<mem, loc, active, frames>> /\ frames = <<>>
          /\ pc = "access" /\ pc' = "idle" /\ req'.prefix = {}
      BY <1>3 DEF EndRequest, At, treeVars, NoRequest
    <2>2. Cache!End
      BY <2>1 DEF Cache!End, AskingExact
    <2> QED BY <2>1, <2>2 DEF Cache!CacheNext, AskingExact, Pending
  <1>4. CASE MemoryHit
    <2>1. /\ UNCHANGED <<mem, loc, frames>> /\ frames = <<>> /\ pc = "access"
          /\ pc' = "access" /\ active' = NoNode /\ req'.prefix = req.prefix
      BY <1>1, <1>4 DEF MemoryHit, AtBlock, At, NextBlock, TypeOK
    <2>2. active' = active
      BY <2>1 DEF AskingExact
    <2> QED BY <2>1, <2>2, QuietCache DEF AskingExact, Pending
  <1>5. CASE GlobalMiss
    <2>1. /\ UNCHANGED <<mem, loc, frames, req>> /\ frames = <<>> /\ pc = "access"
          /\ pc' = "insert" /\ active' = Here /\ Here \in Hash /\ Here \notin mem
      BY <1>1, <1>5, BlockType DEF GlobalMiss, AtBlock, At, Resident
    <2>2. Cache!Ask(Here)
      BY <2>1 DEF Cache!Ask, AskingExact
    <2> QED BY <2>1, <2>2 DEF Cache!CacheNext, AskingExact, Pending
  <1>6. ASSUME NEW a \in PromotionAges, StorageHit(a)
        PROVE  [Cache!CacheNext]_Cache!cacheVars /\ AskingExact'
    <2>1. /\ UNCHANGED <<mem, loc, req>> /\ frames' = <<>> /\ pc = "access"
          /\ pc' = "admit" /\ active' = Here /\ Here \in Hash /\ Here \notin mem
          /\ loc[Here] # None
      BY <1>1, <1>6, BlockType DEF StorageHit, AtBlock, At
    <2>2. Cache!Ask(Here)
      BY <2>1 DEF Cache!Ask, AskingExact
    <2> QED BY <2>1, <2>2 DEF Cache!CacheNext, AskingExact, Pending
  <1>7. CASE AdmitHit
    <2>1. /\ UNCHANGED <<mem, loc, active, req, frames>> /\ frames = <<>> /\ pc' = "insert"
      BY <1>7 DEF AdmitHit, At, treeVars
    <2> QED BY <2>1, QuietCache DEF AskingExact, Pending
  <1>8. CASE BypassHit
    <2>1. /\ UNCHANGED <<mem, loc, frames>> /\ frames = <<>> /\ pc = "admit"
          /\ pc' = "access" /\ active' = NoNode /\ req'.prefix = req.prefix
      BY <1>1, <1>8 DEF BypassHit, At, NextBlock, treeVars, TypeOK
    <2>2. active # NoNode /\ loc[active] # None
      BY <1>1, <2>1, BlockIsNotNone DEF AskingExact, TypeOK
    <2>3. Cache!Bypass
      BY <2>1, <2>2 DEF Cache!Bypass, Cache!Nowhere, None
    <2> QED BY <2>1, <2>3 DEF Cache!CacheNext, AskingExact, Pending
  <1> QED BY <1>2, <1>3, <1>4, <1>5, <1>6, <1>7, <1>8 DEF BlockStep

\* DRAM: inserting a block and evicting for it.
LEMMA MemoryMaps ==
  ASSUME IInv, AskingExact, MemoryStep
  PROVE  [Cache!CacheNext]_Cache!cacheVars /\ AskingExact'
  <1>1. TypeOK /\ MemoryBounded
    BY DEF IInv
  <1>2. frames = <<>> /\ pc \in {"insert", "evict", "store"} /\ active \in Hash
    BY <1>1 DEF MemoryStep, Insert, DropVictim, SelectVictim, EvictCopies, EvictDone, Dump,
                At, TypeOK
  <1>3. active # NoNode
    BY <1>2, BlockIsNotNone
  <1>4. CASE Insert
    <2>1. /\ UNCHANGED <<loc, frames>> /\ mem' = mem \cup {active}
          /\ pc' = "access" /\ active' = NoNode /\ req'.prefix = req.prefix
      BY <1>1, <1>4 DEF Insert, NextBlock, TypeOK
    <2>2. Cardinality(mem) < MemCapacity
      <3>1. Cardinality(mem) \in Nat /\ MemCapacity \in Nat
        BY <1>1, BlocksFinite, SimulatorAssumption DEF TypeOK
      <3>2. CASE pc = "store"
        BY <1>1, <3>2 DEF MemoryBounded
      <3>3. CASE ~Full
        BY <1>1, <3>1, <3>3 DEF Full, MemoryBounded
      <3> QED BY <1>4, <3>2, <3>3 DEF Insert, At
    <2>3. Cache!Fill
      BY <1>3, <2>1, <2>2, CountsAgree DEF Cache!Fill
    <2> QED BY <1>2, <2>1, <2>3 DEF Cache!CacheNext, AskingExact, Pending
  <1>5. CASE DropVictim
    <2>1. PICK e \in Victims, g \in Grains :
              LeaveMemory(Segment(e), Leaving(e, g), {}, None)
      BY <1>5 DEF DropVictim
    <2>2. UNCHANGED <<req, active, frames>> /\ pc' = "store"
      BY <1>5 DEF DropVictim
    <2>3. Leaving(e, g) \in SUBSET mem
      BY DEF Leaving
    <2>4. Cache!CacheNext
      BY <1>1, <1>2, <2>1, <2>2, <2>3, LeaveMaps
    <2> QED BY <1>2, <2>2, <2>4 DEF AskingExact, Pending
  <1>6. CASE EvictCopies
    <2>1. PICK g \in Grains : LeaveMemory(Segment(cursor), Leaving(cursor, g), {}, None)
      BY <1>6 DEF EvictCopies
    <2>2. UNCHANGED <<req, active, frames, pc>> /\ pc = "evict"
      BY <1>6 DEF EvictCopies, At
    <2>3. Leaving(cursor, g) \in SUBSET mem
      BY DEF Leaving
    <2>4. Cache!CacheNext
      BY <1>1, <1>2, <2>1, <2>2, <2>3, LeaveMaps
    <2> QED BY <1>2, <2>2, <2>4 DEF AskingExact, Pending
  <1>7. CASE SelectVictim \/ EvictDone \/ Dump
    <2>1. /\ UNCHANGED <<mem, loc, active, req>> /\ pc' \in {"evict", "store"}
          /\ frames' # <<>> => pc' = "evict"
      BY <1>2, <1>7 DEF SelectVictim, EvictDone, Dump, At, treeVars
    <2> QED BY <2>1, QuietCache DEF AskingExact, Pending
  <1> QED BY <1>4, <1>5, <1>6, <1>7 DEF MemoryStep

\* The capacity loop, and what its callers do when it returns.
LEMMA CapacityMaps ==
  ASSUME IInv, AskingExact, Family # "adaptive", CapacityStep
  PROVE  [Cache!CacheNext]_Cache!cacheVars /\ AskingExact'
  <1>1. TypeOK /\ UsedIsStored /\ StackShape /\ ProtectionInherited /\ loc \in [Hash -> Tier \cup {None}]
    BY DEF IInv, TypeOK
  <1>2. Pending /\ pc = "evict" /\ Caller.then = "dump" /\ active \in Hash
    <2>1. Pending
      BY DEF CapacityStep, ReclaimByTrim, ReclaimByMove, GrantDump, GrantMove, GrantPromotion,
             Grant, RejectDump, RejectPromotion, RejectBackground, Denied
    <2> QED BY <1>1, <2>1 DEF AskingExact, StackShape, TypeOK
  <1>3. active # NoNode
    BY <1>2, BlockIsNotNone
  <1>4. Top.then \in {"dump", "reclaim"}
    BY <1>2, PendingCases
  <1>5. CASE ReclaimByTrim
    <2>1. PICK e \in LruLeaf(Top.tier, Top.protected) :
            TrimNodes(ResidentNodes(e, Top.tier), Top.tier)
      BY <1>5 DEF ReclaimByTrim
    <2> DEFINE S == ResidentNodes(e, Top.tier)
    <2>2. Top.tier \in Tier /\ S \subseteq Stored(Top.tier) /\ S \cap Top.protected = {}
      BY <1>1, <1>2, StackCases, LruLeafType, ResidentType DEF IInv, Calls
    <2>3. req.prefix \subseteq Top.protected
      BY <1>1, <1>2, StackCases DEF ProtectionInherited, Top, IInv
    <2>4. /\ UNCHANGED <<mem, active, req, frames, pc>>
          /\ loc' = [h \in Hash |-> IF h \in S THEN None ELSE loc[h]]
      BY <1>5, <2>1 DEF ReclaimByTrim, TrimNodes
    <2>5. Cache!Trim(S)
      <3> HIDE DEF S
      <3> QED BY <1>3, <2>2, <2>3, <2>4 DEF Cache!Trim, Cache!Placed, Cache!Nowhere, None
    <2>6. S \in SUBSET Cache!On(Top.tier) /\ Top.tier \in Cache!CacheTier
      BY <2>2 DEF Cache!On, Stored, Tier, Cache!CacheTier
    <2>7. Cache!CacheNext
      BY <2>5, <2>6 DEF Cache!CacheNext
    <2> QED BY <1>2, <2>4, <2>7 DEF AskingExact, Pending
  <1>6. CASE ReclaimByMove
    <2>1. UNCHANGED <<mem, loc, active, req, pc>>
      BY <1>6 DEF ReclaimByMove, treeVars
    <2> QED BY <1>2, <2>1, QuietCache DEF AskingExact
  <1>7. CASE GrantDump
    <2>1. /\ Top.then = "dump" /\ UNCHANGED <<req, active>> /\ pc' = "store"
          /\ LeaveMemory(Top.segment, Top.leaving, Top.nodes, Top.tier)
          /\ used[Top.tier] + Top.need <= Limit[Top.tier] /\ frames' = Tail(frames)
      BY <1>7 DEF GrantDump, Grant, Fits
    <2>2. /\ Top.tier \in Tier /\ Top.need = Cardinality(Top.nodes) /\ Top.leaving \subseteq mem
          /\ Top.nodes = {n \in Top.leaving : loc[n] = None} /\ frames' = <<>>
      BY <1>2, <2>1, PendingFacts, PendingCases DEF Calls
    <2>3. mem' = mem \ Top.leaving
          /\ loc' = [h \in Hash |-> IF h \in Top.nodes THEN Top.tier ELSE loc[h]]
      BY <2>1 DEF LeaveMemory
    <2> DEFINE L == Top.leaving
               t == Top.tier
    <2>4. Cache!On(t) = Stored(t) /\ used[t] = Cardinality(Stored(t))
      BY <1>1, <2>2 DEF Cache!On, Stored, UsedIsStored
    <2>5. Cache!HasRoom(t, {n \in L : loc[n] = None})
      BY <2>1, <2>2, <2>4, CountsAgree DEF Cache!HasRoom
    <2>6. Cache!Placed({n \in L : loc[n] = None}, t)
      BY <2>2, <2>3 DEF Cache!Placed
    <2>7. Cache!Evict(L, t)
      BY <1>3, <2>1, <2>3, <2>5, <2>6 DEF Cache!Evict, Cache!Nowhere, None
    <2>8. Cache!CacheNext
      BY <2>2, <2>7 DEF Cache!CacheNext, Cache!CacheTier, Tier
    <2> QED BY <2>1, <2>2, <2>8 DEF AskingExact, Pending
  <1>8. CASE GrantMove
    <2>1. /\ Top.then = "reclaim" /\ UNCHANGED <<req, active, pc>> /\ MoveNodes(Top.nodes)
          /\ used[Top.tier] + Top.need <= Limit[Top.tier]
      BY <1>4, <1>8 DEF GrantMove, Grant, Fits
    <2>2. /\ Top.tier = "TLC" /\ Top.need = Cardinality(Top.nodes)
          /\ Top.nodes \subseteq Stored("SLC")
      BY <1>2, <2>1, PendingFacts, PendingCases
    <2>3. mem' = mem /\ loc' = [h \in Hash |-> IF h \in Top.nodes THEN "TLC" ELSE loc[h]]
      BY <2>1 DEF MoveNodes
    <2> DEFINE S == Top.nodes
    <2>4. Cache!On("TLC") = Stored("TLC") /\ Cache!On("SLC") = Stored("SLC")
          /\ used["TLC"] = Cardinality(Stored("TLC"))
      BY <1>1 DEF Cache!On, Stored, UsedIsStored, Tier
    <2>5. Cache!HasRoom("TLC", S)
      BY <2>1, <2>2, <2>4, CountsAgree DEF Cache!HasRoom
    <2>6. Cache!Move(S)
      BY <1>3, <2>1, <2>3, <2>5 DEF Cache!Move, Cache!Placed
    <2>7. Cache!CacheNext
      BY <2>2, <2>4, <2>6 DEF Cache!CacheNext
    <2> QED BY <1>2, <2>1, <2>7 DEF AskingExact
  <1>9. CASE RejectDump
    <2>1. /\ LeaveMemory(Caller.segment, Caller.leaving, {}, None)
          /\ UNCHANGED <<req, active>> /\ frames' = <<>> /\ pc' = "store"
      BY <1>9 DEF RejectDump
    <2>2. Caller.leaving \in SUBSET mem
      BY <1>2, PendingFacts
    <2>3. Cache!CacheNext
      BY <1>1, <1>2, <2>1, <2>2, LeaveMaps
    <2> QED BY <2>1, <2>3 DEF AskingExact, Pending
  <1> QED BY <1>2, <1>4, <1>5, <1>6, <1>7, <1>8, <1>9
          DEF CapacityStep, GrantPromotion, Grant, RejectPromotion, RejectBackground

\* Initial states are those of the cache.
LEMMA InitMaps == Init => Cache!CacheInit /\ AskingExact
  BY DEF Init, Cache!CacheInit, Cache!Nowhere, None, NoRequest, AskingExact, Pending

\* Every step of the simulator is a step of the cache, or none.
LEMMA NextMaps ==
  ASSUME Family # "adaptive"
  PROVE  IInv /\ AskingExact /\ [Next]_vars =>
           [Cache!CacheNext]_Cache!cacheVars /\ AskingExact'
  <1> SUFFICES ASSUME IInv, AskingExact, [Next]_vars
               PROVE  [Cache!CacheNext]_Cache!cacheVars /\ AskingExact'
    OBVIOUS
  <1>1. CASE Environment \/ Maintenance \/ Close \/ Terminated \/ UNCHANGED vars
    BY <1>1, OutsideMaps
  <1>2. CASE BlockStep
    BY <1>2, AccessMaps
  <1>3. CASE MemoryStep
    BY <1>3, MemoryMaps
  <1>4. CASE CapacityStep
    BY <1>4, CapacityMaps
  <1> QED BY <1>1, <1>2, <1>3, <1>4 DEF Next, Run

\* However dumps, moves and trims are nested, their effect on the blocks is
\* that of a cache with two bounded tiers, for every policy without migrations
\* on access and any number of blocks, limits and requests.
THEOREM CacheImplemented == ASSUME Family # "adaptive" PROVE Spec => ImplementsCache
  <1>1. Spec => []AskingExact
    BY InitMaps, NextMaps, Invariance, PTL DEF Spec
  <1> QED BY <1>1, InitMaps, NextMaps, Invariance, PTL
          DEF Spec, ImplementsCache, Cache!CacheSpec
-----------------------------------------------------------------------------
(* The recency list of the memory policy.                                   *)

\* The equation that Without solves, for the first m elements of s.
Rests(s, S, m, q) ==
    q = [i \in 0 .. m |-> IF i = 0 THEN <<>>
                          ELSE IF s[i] \in S THEN q[i - 1] ELSE Append(q[i - 1], s[i])]

\* A list of different blocks that are those of the first m elements of s
\* outside of S.
Remains(s, S, m, r) ==
    /\ r \in Seq(Hash)
    /\ {r[i] : i \in 1 .. Len(r)} = {s[j] : j \in 1 .. m} \ S
    /\ \A i, j \in 1 .. Len(r) : r[i] = r[j] => i = j

\* Without is a recursive function that exists, by the least length for which
\* it would not.
LEMMA RestsExist ==
  ASSUME NEW s, NEW S, NEW n \in Nat
  PROVE  \E q : Rests(s, S, n, q)
  <1> DEFINE T == {m \in Nat : ~\E q : Rests(s, S, m, q)}
  <1>1. T = {}
    <2> SUFFICES ASSUME T # {} PROVE FALSE
      OBVIOUS
    <2>1. T \in SUBSET Nat
      OBVIOUS
    <2>2. PICK m \in T : \A y \in T : m <= y
      <3> HIDE DEF T
      <3> QED BY <2>1, LeastNatural
    <2>3. m \in Nat
      OBVIOUS
    <2>4. CASE m = 0
      <3> DEFINE z == [i \in 0 .. 0 |-> <<>>]
      <3>1. Rests(s, S, 0, z)
        BY DEF Rests
      <3> HIDE DEF z
      <3> QED BY <2>4, <3>1
    <2>5. CASE m # 0
      <3>1. m - 1 \in Nat /\ m - 1 \notin T
        <4> HIDE DEF T
        <4> QED BY <2>2, <2>3, <2>5
      <3>2. PICK q : Rests(s, S, m - 1, q)
        BY <3>1
      <3>6. ~\E v : Rests(s, S, m, v)
        OBVIOUS
      <3> HIDE DEF T
      <3> DEFINE r == [i \in 0 .. m |-> IF i < m THEN q[i]
                                        ELSE IF s[m] \in S THEN q[m - 1]
                                        ELSE Append(q[m - 1], s[m])]
                 step(i, u) == IF i = 0 THEN <<>>
                               ELSE IF s[i] \in S THEN u[i - 1] ELSE Append(u[i - 1], s[i])
      <3>3. ASSUME NEW i \in 0 .. m PROVE r[i] = step(i, r)
        <4>1. CASE i = m
          <5>1. r[i] = step(i, q) /\ i # 0
            BY <2>5, <4>1
          <5>2. r[i - 1] = q[i - 1]
            BY <2>3, <2>5, <4>1
          <5> QED BY <5>1, <5>2
        <4>2. CASE i # m
          <5>1. i \in 0 .. m - 1 /\ r[i] = q[i]
            BY <2>3, <4>2
          <5>2. q[i] = step(i, q)
            BY <3>2, <5>1 DEF Rests
          <5>3. i # 0 => r[i - 1] = q[i - 1]
            BY <2>3, <5>1
          <5> QED BY <5>1, <5>2, <5>3
        <4> QED BY <4>1, <4>2
      <3>4. r = [i \in 0 .. m |-> r[i]]
        OBVIOUS
      <3> HIDE DEF r
      <3>5. Rests(s, S, m, r)
        BY <3>3, <3>4 DEF Rests
      <3> QED BY <3>5, <3>6
    <2> QED BY <2>4, <2>5
  <1>2. n \notin T
    <2> HIDE DEF T
    <2> QED BY <1>1
  <1> QED BY <1>2

\* Detaching leaves the other blocks of the list, once each.
LEMMA WithoutKeeps ==
  ASSUME NEW s \in Seq(Hash), \A i, j \in 1 .. Len(s) : s[i] = s[j] => i = j, NEW S
  PROVE  Remains(s, S, Len(s), Without(s, S))
  <1> DEFINE n == Len(s)
             u == CHOOSE q : Rests(s, S, n, q)
             T == {m \in 0 .. n : ~Remains(s, S, m, u[m])}
  <1>1. n \in Nat /\ \A i \in 1 .. n : s[i] \in Hash
    OBVIOUS
  <1>2. Rests(s, S, n, u)
    BY <1>1, RestsExist, Zenon
  <1>3. Without(s, S) = u[n]
    BY Zenon DEF Without, Rests
  <1> HIDE DEF u, n
  <1>4. \A i \in 0 .. n : u[i] = IF i = 0 THEN <<>>
                                 ELSE IF s[i] \in S THEN u[i - 1] ELSE Append(u[i - 1], s[i])
    BY <1>2 DEF Rests
  <1>5. T = {}
    <2> SUFFICES ASSUME T # {} PROVE FALSE
      OBVIOUS
    <2>1. T \in SUBSET Nat
      BY <1>1
    <2>2. PICK m \in T : \A y \in T : m <= y
      <3> HIDE DEF T
      <3> QED BY <2>1, LeastNatural
    <2>3. m \in 0 .. n /\ ~Remains(s, S, m, u[m])
      OBVIOUS
    <2>4. CASE m = 0
      <3>1. u[m] = <<>>
        BY <1>4, <2>3, <2>4
      <3>2. <<>> \in Seq(Hash) /\ Len(<<>>) = 0
        OBVIOUS
      <3> QED BY <2>3, <2>4, <3>1, <3>2 DEF Remains
    <2>5. CASE m # 0
      <3>1. m \in 1 .. n /\ m - 1 \in 0 .. n /\ m - 1 \notin T
        <4> HIDE DEF T
        <4> QED BY <1>1, <2>2, <2>3, <2>5
      <3> DEFINE r == u[m - 1]
      <3>2. Remains(s, S, m - 1, r)
        BY <3>1
      <3> HIDE DEF T
      <3>3. {s[j] : j \in 1 .. m} = {s[j] : j \in 1 .. m - 1} \cup {s[m]}
        <4>1. \A j \in 1 .. m : j = m \/ j \in 1 .. m - 1
          BY <3>1
        <4>2. m \in 1 .. m /\ \A j \in 1 .. m - 1 : j \in 1 .. m
          BY <3>1
        <4> QED BY <4>1, <4>2
      <3>4. CASE s[m] \in S
        <4>1. u[m] = r
          BY <1>4, <2>3, <2>5, <3>4
        <4> HIDE DEF r
        <4> QED BY <2>3, <3>2, <3>3, <3>4, <4>1 DEF Remains
      <3>5. CASE s[m] \notin S
        <4>1. u[m] = Append(r, s[m])
          BY <1>4, <2>3, <2>5, <3>5
        <4> HIDE DEF r
        <4>2. r \in Seq(Hash) /\ s[m] \in Hash
          BY <1>1, <3>1, <3>2 DEF Remains
        <4> DEFINE w == Append(r, s[m])
        <4>3. /\ w \in Seq(Hash) /\ Len(w) = Len(r) + 1 /\ Len(r) \in Nat
              /\ \A i \in 1 .. Len(r) : w[i] = r[i]
              /\ w[Len(r) + 1] = s[m]
          BY <4>2
        <4> HIDE DEF w
        <4>4. {w[i] : i \in 1 .. Len(w)} = {r[i] : i \in 1 .. Len(r)} \cup {s[m]}
          <5>1. \A i \in 1 .. Len(w) : i = Len(r) + 1 \/ i \in 1 .. Len(r)
            BY <4>3
          <5>2. Len(r) + 1 \in 1 .. Len(w) /\ \A i \in 1 .. Len(r) : i \in 1 .. Len(w)
            BY <4>3
          <5> QED BY <4>3, <5>1, <5>2
        <4>5. \A i \in 1 .. Len(r) : r[i] # s[m]
          <5> SUFFICES ASSUME NEW i \in 1 .. Len(r), r[i] = s[m] PROVE FALSE
            OBVIOUS
          <5>1. r[i] \in {s[j] : j \in 1 .. m - 1}
            BY <3>2 DEF Remains
          <5>2. PICK j \in 1 .. m - 1 : s[j] = s[m]
            BY <5>1
          <5> QED BY <1>1, <3>1, <5>2 DEF n
        <4>6. \A i, j \in 1 .. Len(w) : w[i] = w[j] => i = j
          <5>1. \A i \in 1 .. Len(w) : i = Len(r) + 1 \/ i \in 1 .. Len(r)
            BY <4>3
          <5> QED BY <3>2, <4>3, <4>5, <5>1 DEF Remains
        <4>7. Remains(s, S, m, w)
          BY <3>2, <3>3, <3>5, <4>3, <4>4, <4>6 DEF Remains
        <4> QED BY <2>3, <4>1, <4>7 DEF w
      <3> QED BY <3>4, <3>5
    <2> QED BY <2>4, <2>5
  <1>6. n \notin T
    <2> HIDE DEF T
    <2> QED BY <1>5
  <1>7. Remains(s, S, n, u[n])
    BY <1>1, <1>6
  <1> QED BY <1>3, <1>7 DEF n

\* The list names the DRAM residents, once each; the block that a request is
\* bringing into DRAM is not there yet.
Listed ==
    /\ recency \in Seq(Hash)
    /\ {recency[i] : i \in 1 .. Len(recency)} = mem
    /\ \A i, j \in 1 .. Len(recency) : recency[i] = recency[j] => i = j

Entering == active \notin mem

\* An eviction detaches the blocks it takes out of DRAM.
LEMMA LeaveRecent ==
  ASSUME TypeOK, Listed, NEW seg, NEW leaving, NEW nodes, NEW t,
         LeaveMemory(seg, leaving, nodes, t)
  PROVE  Listed' /\ mem' \subseteq mem
  <1>1. mem' = mem \ leaving /\ recency' = Without(recency, leaving)
    BY DEF LeaveMemory
  <1>2. Remains(recency, leaving, Len(recency), recency')
    BY <1>1, WithoutKeeps DEF Listed
  <1> QED BY <1>1, <1>2 DEF Remains, Listed

\* A list that names every element of S, and each once.
OnceEach(r, S) ==
  /\ r \in Seq(Hash) /\ {r[i] : i \in 1 .. Len(r)} = S
  /\ \A i, j \in 1 .. Len(r) : r[i] = r[j] => i = j

\* A block at the head of a list it is not in.
LEMMA HeadRecent ==
  ASSUME NEW r, NEW S, OnceEach(r, S), NEW h \in Hash, h \notin S
  PROVE  OnceEach(<<h>> \o r, S \cup {h})
  <1> DEFINE w == <<h>> \o r
  <1> USE DEF OnceEach
  <1>1. /\ w \in Seq(Hash) /\ Len(w) = Len(r) + 1 /\ Len(r) \in Nat /\ w[1] = h
        /\ \A i \in 2 .. Len(r) + 1 : w[i] = r[i - 1] /\ i - 1 \in 1 .. Len(r)
    OBVIOUS
  <1> HIDE DEF w
  <1>2. \A i \in 1 .. Len(r) : r[i] \in S /\ r[i] # h
    OBVIOUS
  <1>3. \A i \in 1 .. Len(w) : i = 1 \/ i \in 2 .. Len(r) + 1
    BY <1>1
  <1>4. {w[i] : i \in 1 .. Len(w)} = S \cup {h}
    <2>1. ASSUME NEW x \in S PROVE \E i \in 1 .. Len(w) : w[i] = x
      <3>1. PICK i \in 1 .. Len(r) : r[i] = x
        OBVIOUS
      <3>2. PICK k \in 2 .. Len(r) + 1 : k - 1 = i
        BY <1>1
      <3>3. w[k] = x /\ k \in 1 .. Len(w)
        BY <1>1, <3>1, <3>2
      <3> QED BY <3>3
    <2>2. 1 \in 1 .. Len(w)
      BY <1>1
    <2>3. \A i \in 1 .. Len(w) : w[i] \in S \cup {h}
      BY <1>1, <1>2, <1>3
    <2> QED BY <1>1, <2>1, <2>2, <2>3
  <1>5. ASSUME NEW i \in 1 .. Len(w), NEW j \in 1 .. Len(w), w[i] = w[j] PROVE i = j
    <2>1. CASE i = 1
      BY <1>1, <1>2, <1>3, <1>5, <2>1
    <2>2. CASE j = 1
      BY <1>1, <1>2, <1>3, <1>5, <2>2
    <2>3. CASE i # 1 /\ j # 1
      <3>1. /\ i \in 2 .. Len(r) + 1 /\ j \in 2 .. Len(r) + 1 /\ r[i - 1] = r[j - 1]
            /\ i - 1 \in 1 .. Len(r) /\ j - 1 \in 1 .. Len(r)
        BY <1>1, <1>3, <1>5, <2>3
      <3>2. i - 1 = j - 1
        BY <3>1
      <3> QED BY <3>1, <3>2
    <2> QED BY <2>1, <2>2, <2>3
  <1> QED BY <1>1, <1>4, <1>5 DEF w

\* Every step keeps the list.
LEMMA RecentStep == IInv /\ Listed /\ Entering /\ [Next]_vars => Listed' /\ Entering'
  <1> SUFFICES ASSUME IInv, Listed, Entering, [Next]_vars PROVE Listed' /\ Entering'
    OBVIOUS
  <1>0. TypeOK /\ mem \subseteq Hash /\ NoNode \notin Hash /\ active \in Hash \cup {NoNode}
    BY SimulatorAssumption DEF IInv, TypeOK, NoNode
  <1>1. ASSUME UNCHANGED <<mem, recency>>, active' = active \/ active' = NoNode \/ active' \notin mem
        PROVE  Listed' /\ Entering'
    <2>1. Listed'
      BY <1>1 DEF Listed
    <2>2. Entering'
      BY <1>0, <1>1 DEF Entering
    <2> QED BY <2>1, <2>2
  <1>2. ASSUME NEW seg, NEW leaving, NEW nodes, NEW t, LeaveMemory(seg, leaving, nodes, t),
               active' = active
        PROVE  Listed' /\ Entering'
    <2>1. Listed' /\ mem' \subseteq mem
      BY <1>0, <1>2, LeaveRecent
    <2> QED BY <1>2, <2>1 DEF Entering
  <1>3. CASE Environment \/ Close \/ Terminated \/ UNCHANGED vars
    <2>1. UNCHANGED <<mem, recency, active>>
      BY <1>3 DEF Environment, Submit, Finish, Close, Terminated, vars, treeVars
    <2> QED BY <1>1, <2>1
  <1>4. CASE Maintenance
    <2>1. UNCHANGED <<mem, recency, active>>
      BY <1>4 DEF Maintenance, IdleTrim, BackgroundMove, EndTick, TrimNodes, treeVars
    <2> QED BY <1>1, <2>1
  <1>5. CASE MemoryHit
    <2>1. /\ Here \in mem /\ mem' = mem /\ active' = NoNode
          /\ recency' = <<Here>> \o Without(recency, {Here})
      BY <1>5 DEF MemoryHit, NextBlock
    <2> DEFINE w == Without(recency, {Here})
    <2>2. Remains(recency, {Here}, Len(recency), w)
      BY WithoutKeeps DEF Listed
    <2> HIDE DEF w
    <2>3. /\ w \in Seq(Hash) /\ {w[i] : i \in 1 .. Len(w)} = mem \ {Here}
          /\ \A i, j \in 1 .. Len(w) : w[i] = w[j] => i = j
      BY <2>2 DEF Remains, Listed
    <2>4. PICK h \in Hash : h = Here
      BY <1>0, <2>1
    <2>5. PICK M : M = mem \ {h}
      OBVIOUS
    <2>6. /\ h \notin M /\ w \in Seq(Hash) /\ {w[i] : i \in 1 .. Len(w)} = M
          /\ \A i, j \in 1 .. Len(w) : w[i] = w[j] => i = j
      BY <2>3, <2>4, <2>5
    <2> DEFINE v == <<h>> \o w
    <2>7. /\ v \in Seq(Hash) /\ {v[i] : i \in 1 .. Len(v)} = M \cup {h}
          /\ \A i, j \in 1 .. Len(v) : v[i] = v[j] => i = j
      <3>1. OnceEach(w, M)
        BY <2>6 DEF OnceEach
      <3>2. OnceEach(v, M \cup {h})
        BY <2>6, <3>1, HeadRecent
      <3> QED BY <3>2 DEF OnceEach
    <2>8. recency' = v
      BY <2>1, <2>4 DEF w
    <2> HIDE DEF v
    <2>9. Listed'
      <3>1. mem' = M \cup {h}
        BY <2>1, <2>4, <2>5
      <3>2. {recency'[i] : i \in 1 .. Len(recency')} = mem'
        BY <2>7, <2>8, <3>1
      <3> QED BY <2>7, <2>8, <3>2 DEF Listed
    <2>10. Entering'
      BY <1>0, <2>1 DEF Entering
    <2> QED BY <2>9, <2>10
  <1>6. CASE BlockStep /\ ~MemoryHit
    <2>1. UNCHANGED <<mem, recency>>
      BY <1>6 DEF BlockStep, BeginRequest, EndRequest, GlobalMiss, StorageHit, AdmitHit, BypassHit,
                  treeVars
    <2>2. active' = active \/ active' = NoNode \/ active' \notin mem
      BY <1>6 DEF BlockStep, BeginRequest, EndRequest, GlobalMiss, StorageHit, AdmitHit, BypassHit,
                  NextBlock, Resident
    <2> QED BY <1>1, <2>1, <2>2
  <1>7. CASE Insert
    <2>1. /\ mem' = mem \cup {active} /\ recency' = <<active>> \o recency /\ active' = NoNode
          /\ active \in Hash /\ active \notin mem
      BY <1>0, <1>7 DEF Insert, At, NextBlock, TypeOK, Entering
    <2> DEFINE v == <<active>> \o recency
    <2>2. /\ v \in Seq(Hash) /\ {v[i] : i \in 1 .. Len(v)} = mem \cup {active}
          /\ \A i, j \in 1 .. Len(v) : v[i] = v[j] => i = j
      <3>1. OnceEach(recency, mem)
        BY DEF Listed, OnceEach
      <3>2. OnceEach(v, mem \cup {active})
        BY <2>1, <3>1, HeadRecent
      <3> QED BY <3>2 DEF OnceEach
    <2>3. recency' = v
      BY <2>1
    <2> HIDE DEF v
    <2> QED BY <1>0, <2>1, <2>2, <2>3 DEF Listed, Entering
  <1>8. CASE DropVictim \/ EvictCopies \/ GrantDump \/ RejectDump
    <2>1. active' = active
      BY <1>8 DEF DropVictim, EvictCopies, GrantDump, RejectDump
    <2>2. PICK seg, leaving, nodes, t : LeaveMemory(seg, leaving, nodes, t)
      BY <1>8 DEF DropVictim, EvictCopies, GrantDump, RejectDump
    <2> QED BY <1>2, <2>1, <2>2
  <1>9. CASE SelectVictim \/ EvictDone \/ Dump
    <2>1. UNCHANGED <<mem, recency, active>>
      BY <1>9 DEF SelectVictim, EvictDone, Dump, treeVars
    <2> QED BY <1>1, <2>1
  <1>10. CASE \/ ReclaimByTrim \/ ReclaimByMove \/ GrantMove \/ GrantPromotion
              \/ RejectPromotion \/ RejectBackground
    <2>1. UNCHANGED <<mem, recency, active>>
      BY <1>10 DEF ReclaimByTrim, ReclaimByMove, GrantMove, GrantPromotion, RejectPromotion,
                   RejectBackground, TrimNodes, MoveNodes, treeVars
    <2> QED BY <1>1, <2>1
  <1> QED
    BY <1>3, <1>4, <1>5, <1>6, <1>7, <1>8, <1>9, <1>10 DEF Next, Run, MemoryStep, CapacityStep

\* A list of different blocks is as long as they are many.
LEMMA RecentCounts == TypeOK /\ Listed => RecencyMirrorsMemory
  <1> SUFFICES ASSUME TypeOK, Listed PROVE RecencyMirrorsMemory
    OBVIOUS
  <1>1. /\ Len(recency) \in Nat /\ DOMAIN recency = 1 .. Len(recency)
        /\ \A i \in 1 .. Len(recency) : recency[i] \in mem
    BY DEF Listed
  <1>2. recency \in Bijection(1 .. Len(recency), mem)
    <2>1. recency \in [1 .. Len(recency) -> mem]
      BY <1>1 DEF Listed
    <2>2. \A h \in mem : \E i \in 1 .. Len(recency) : recency[i] = h
      BY DEF Listed
    <2> QED BY <2>1, <2>2 DEF Listed, Bijection, Injection, Surjection, IsInjective
  <1>3. Cardinality(mem) = Cardinality(1 .. Len(recency))
    BY <1>1, <1>2, FS_Interval, FS_Bijection DEF ExistsBijection
  <1> QED BY <1>1, <1>3, FS_Interval DEF Listed, RecencyMirrorsMemory

\* The list of the memory policy holds exactly the DRAM residents, once each,
\* whatever parts of segments were evicted, dropped or dumped.
THEOREM RecencyIsMemory == Spec => []RecencyMirrorsMemory
  <1>1. Init => Listed /\ Entering
    <2> SUFFICES ASSUME Init PROVE Listed /\ Entering
      OBVIOUS
    <2>1. recency = <<>> /\ mem = {} /\ <<>> \in Seq(Hash) /\ Len(<<>>) = 0
      BY DEF Init
    <2> QED BY <2>1 DEF Listed, Entering
  <1>2. IInv /\ Listed => RecencyMirrorsMemory
    BY RecentCounts DEF IInv
  <1> QED BY <1>1, <1>2, RecentStep, Invariance, PTL DEF Spec

-----------------------------------------------------------------------------
(* The tree alone. *)

\* Ancestors are nodes, their ancestors are among those of the node, and they
\* are in line.
Rooted ==
  /\ up \in [Hash -> SUBSET Hash]
  /\ \A n \in Nodes : n \in up[n] /\ \A a \in up[n] : a \in up[a] /\ up[a] \subseteq up[n]
  /\ \A n \in Nodes : \A a, b \in up[n] : a \in up[b] \/ b \in up[a]
  /\ \A a, b \in Nodes : a \in up[b] /\ b \in up[a] => a = b

\* A leaf holds something or is being accessed, and what holds something is a node.
ResidentsRooted == \A h \in Hash : Resident(h) => h \in Nodes
LeavesNeeded == \A n \in Nodes : Below(n) = {} => Resident(n) \/ n = active

TreeInv == Rooted /\ ResidentsRooted /\ LeavesNeeded

\* What is above a node is a node.
LEMMA AncestorsAreNodes ==
  ASSUME Rooted, NEW n \in Hash, NEW a \in up[n]
  PROVE  n \in Nodes /\ a \in Nodes /\ a \in Hash /\ up[a] \subseteq up[n] /\ a \in up[a]
  BY DEF Rooted, Nodes

\* Pruning from the nodes in S, among them all that lost what they held.
LEMMA PruningKeepsTree ==
  ASSUME TreeInv, NEW S \in SUBSET Hash, up' = Pruned(S, Kept(mem', loc')), active' = active,
         \A h \in Hash : Resident(h) => h \in S \/ h \in mem' \/ loc'[h] # None,
         \A h \in Hash : h \in mem' \/ loc'[h] # None => Resident(h)
  PROVE  TreeInv' /\ (active \in Nodes => active \in Nodes')
  <1> DEFINE K == Kept(mem', loc')
             reach == UNION {up[s] : s \in S}
             dead == {n \in reach : Subtree(n) \subseteq reach \ K}
  <1>1. /\ Rooted /\ ResidentsRooted /\ LeavesNeeded
        /\ up' = [h \in Hash |-> IF h \in dead THEN {} ELSE up[h]]
    BY DEF TreeInv, Pruned
  <1>2. \A n \in reach : \E s \in S : n \in up[s]
    OBVIOUS
  <1>3. \A h \in Hash : h \in K <=> h \in mem' \/ loc'[h] # None \/ h = active
    BY DEF Kept
  <1>4. /\ reach \subseteq Nodes /\ Nodes \subseteq Hash
        /\ \A n \in reach : up[n] \subseteq reach
        /\ \A s \in S \cap Nodes : s \in reach
    <2>1. ASSUME NEW n \in reach PROVE n \in Nodes /\ up[n] \subseteq reach
      <3>1. PICK s \in S : n \in up[s]
        BY <1>2
      <3>2. n \in Nodes /\ up[n] \subseteq up[s]
        BY <1>1, <3>1, AncestorsAreNodes
      <3> QED BY <3>1, <3>2
    <2> QED BY <1>1, <2>1 DEF Rooted, Nodes
  <1>5. \A n \in reach : n \in dead <=> \A d \in Hash : n \in up[d] => d \in reach /\ d \notin K
    BY DEF Subtree
  <1>6. \A n \in dead : n \in reach /\ n \notin K
    <2>1. \A n \in reach : n \in Hash /\ n \in up[n]
      BY <1>1, <1>4 DEF Rooted
    <2>2. dead \subseteq reach
      OBVIOUS
    <2> HIDE DEF dead, reach, K
    <2> QED BY <1>5, <2>1, <2>2
  <1> HIDE DEF dead, reach, K
  <1>7. Nodes' = Nodes \ dead /\ \A n \in Nodes' : up'[n] = up[n]
    BY <1>1 DEF Nodes, Rooted
  <1>8. \A n \in Nodes' : \A a \in up[n] : a \in Nodes'
    <2>1. ASSUME NEW n \in Nodes', NEW a \in up[n], a \in dead PROVE FALSE
      <3>1. n \in Hash /\ n \in Nodes /\ n \notin dead /\ a \in reach /\ a \in Hash
        BY <1>1, <1>4, <1>6, <1>7, <2>1
      <3>2. n \in reach
        BY <1>5, <2>1, <3>1
      <3>3. PICK d \in Hash : n \in up[d] /\ ~(d \in reach /\ d \notin K)
        BY <1>5, <3>1, <3>2
      <3>4. a \in up[d]
        BY <1>1, <3>3, AncestorsAreNodes
      <3> QED BY <1>5, <2>1, <3>1, <3>3, <3>4
    <2>2. \A n \in Nodes' : n \in Hash /\ \A a \in up[n] : a \in Nodes
      BY <1>1, <1>4, <1>7, AncestorsAreNodes
    <2> QED BY <1>7, <2>1, <2>2
  <1>9. Rooted'
    <2>1. up' \in [Hash -> SUBSET Hash]
      BY <1>1 DEF Rooted
    <2>2. \A n \in Nodes' : n \in up'[n] /\ \A a \in up'[n] : a \in up'[a] /\ up'[a] \subseteq up'[n]
      BY <1>1, <1>7, <1>8 DEF Rooted
    <2>3. \A n \in Nodes' : \A a, b \in up'[n] : a \in up'[b] \/ b \in up'[a]
      BY <1>1, <1>7, <1>8 DEF Rooted
    <2>4. \A a, b \in Nodes' : a \in up'[b] /\ b \in up'[a] => a = b
      BY <1>1, <1>7 DEF Rooted
    <2> QED BY <2>1, <2>2, <2>3, <2>4 DEF Rooted
  <1>10. ResidentsRooted' /\ (active \in Nodes => active \in Nodes')
    <2>1. ASSUME NEW h \in Hash, h \in mem' \/ loc'[h] # None PROVE h \in Nodes'
      BY <1>1, <1>3, <1>6, <1>7, <2>1 DEF ResidentsRooted
    <2>2. active \in Nodes => active \in Nodes'
      BY <1>3, <1>4, <1>6, <1>7
    <2> QED BY <2>1, <2>2 DEF ResidentsRooted, Resident
  <1>11. LeavesNeeded'
    <2> SUFFICES ASSUME NEW n \in Nodes', Below(n)' = {}, n # active
                 PROVE  n \in mem' \/ loc'[n] # None
      BY DEF LeavesNeeded, Resident
    <2>1. n \in Nodes /\ n \in Hash /\ n \notin dead
      BY <1>4, <1>7
    <2>2. \A d \in Hash : n \in up'[d] => d = n
      BY DEF Below, Subtree
    <2>3. \A d \in Hash : n \in up[d] /\ d # n => d \in dead
      BY <1>1, <2>2
    <2>4. n \in reach \/ n \in mem' \/ loc'[n] # None
      <3>1. CASE \E d \in Hash : n \in up[d] /\ d # n
        <4>1. PICK d \in Hash : n \in up[d] /\ d \in reach
          BY <1>6, <2>3, <3>1
        <4> QED BY <1>4, <4>1
      <3>2. CASE \A d \in Hash : n \in up[d] => d = n
        <4>1. Resident(n)
          BY <1>1, <2>1, <3>2 DEF LeavesNeeded, Below, Subtree
        <4>2. CASE n \in S
          BY <1>4, <2>1, <4>2
        <4>3. CASE n \notin S
          BY <2>1, <4>1, <4>3
        <4> QED BY <4>2, <4>3
      <3> QED BY <3>1, <3>2
    <2>5. CASE n \in reach
      <3>1. n \in K
        BY <1>5, <1>6, <2>1, <2>3, <2>5
      <3> QED BY <1>3, <2>1, <3>1
    <2> QED BY <2>4, <2>5
  <1> QED BY <1>9, <1>10, <1>11 DEF TreeInv

\* Creating the block that is accessed below the one accessed before it.
LEMMA GrowingKeepsTree ==
  ASSUME TreeInv, active = NoNode, NEW h \in Hash, h \notin Nodes, NEW p \in Nodes \cup {NoNode},
         up' = Grown(h, p), active' = h, UNCHANGED <<mem, loc>>
  PROVE  TreeInv' /\ h \in Nodes'
  <1>1. Rooted /\ ResidentsRooted /\ LeavesNeeded /\ up[h] = {}
    BY DEF TreeInv, Nodes
  <1> DEFINE A == IF p = NoNode THEN {} ELSE up[p]
  <1>2. /\ A \subseteq Nodes /\ h \notin A
        /\ \A a \in A : a \in up[a] /\ up[a] \subseteq A
        /\ \A a, b \in A : a \in up[b] \/ b \in up[a]
    <2>1. CASE p = NoNode
      BY <2>1
    <2>2. CASE p # NoNode
      <3>1. p \in Nodes /\ p \in Hash /\ A = up[p]
        BY <2>2 DEF Nodes
      <3>2. A \subseteq Nodes
        BY <1>1, <3>1, AncestorsAreNodes
      <3> QED BY <1>1, <3>1, <3>2 DEF Rooted
    <2> QED BY <2>1, <2>2
  <1>3. up' = [up EXCEPT ![h] = {h} \cup A]
    BY DEF Grown
  <1> HIDE DEF A
  <1>4. /\ up'[h] = {h} \cup A /\ \A n \in Hash \ {h} : up'[n] = up[n]
        /\ up' \in [Hash -> SUBSET Hash]
    <2>1. {h} \cup A \in SUBSET Hash
      BY <1>2 DEF Nodes
    <2> QED BY <1>1, <1>3, <2>1 DEF Rooted
  <1>5. Nodes' = Nodes \cup {h}
    BY <1>4 DEF Nodes
  <1>6. \A n \in Nodes : \A a \in up[n] : a # h /\ a \in Hash
    BY <1>1, AncestorsAreNodes DEF Nodes
  <1>7. Rooted'
    <2>1. ASSUME NEW n \in Nodes, NEW a \in up[n] PROVE a \in up'[a] /\ up'[a] \subseteq up'[n]
      BY <1>1, <1>4, <1>6 DEF Rooted, Nodes
    <2>2. \A n \in Nodes : n \in up'[n] /\ up'[n] = up[n]
      BY <1>1, <1>4 DEF Rooted, Nodes
    <2>3. ASSUME NEW a \in A PROVE a \in up'[a] /\ up'[a] \subseteq A
      BY <1>2, <1>4 DEF Nodes
    <2>4. \A a \in up'[h] : a \in up'[a] /\ up'[a] \subseteq up'[h]
      BY <1>4, <2>3
    <2>5. \A n \in Nodes : \A a, b \in up'[n] : a \in up'[b] \/ b \in up'[a]
      BY <1>1, <1>4, <1>6, <2>2 DEF Rooted
    <2>6. \A a, b \in up'[h] : a \in up'[b] \/ b \in up'[a]
      <3>1. \A a, b \in A : a \in up'[b] \/ b \in up'[a]
        BY <1>2, <1>4 DEF Nodes
      <3> QED BY <1>4, <3>1
    <2>7. \A a, b \in Nodes' : a \in up'[b] /\ b \in up'[a] => a = b
      <3>1. \A a, b \in Nodes : a \in up'[b] /\ b \in up'[a] => a = b
        BY <1>1, <2>2 DEF Rooted
      <3>2. \A a \in Nodes : h \notin up'[a]
        BY <1>6, <2>2
      <3> QED BY <1>5, <3>1, <3>2
    <2> QED BY <1>4, <1>5, <2>1, <2>2, <2>4, <2>5, <2>6, <2>7 DEF Rooted
  <1>8. ResidentsRooted'
    BY <1>1, <1>5 DEF ResidentsRooted, Resident
  <1>9. LeavesNeeded'
    <2> SUFFICES ASSUME NEW n \in Nodes, n # h, Below(n)' = {}
                 PROVE  Resident(n)
      BY <1>5 DEF LeavesNeeded, Resident
    <2>1. \A d \in Hash : n \in up[d] => n \in up'[d]
      BY <1>1, <1>4
    <2>2. Below(n) = {}
      BY <2>1 DEF Below, Subtree
    <2>3. n # active
      BY SimulatorAssumption DEF Nodes, NoNode
    <2> QED BY <1>1, <2>2, <2>3 DEF LeavesNeeded
  <1> QED BY <1>5, <1>7, <1>8, <1>9 DEF TreeInv

\* A block that enters DRAM, or stays on the SSD, needs no longer be active.
LEMMA LeavingAccessKeepsTree ==
  ASSUME TreeInv, up' = up, loc' = loc, mem \subseteq mem', mem' \subseteq mem \cup {active},
         active \in Nodes \/ active = NoNode,
         active = NoNode \/ active \in mem' \/ loc[active] # None
  PROVE  TreeInv'
  <1>1. Nodes' = Nodes /\ \A n \in Hash : Below(n)' = Below(n)
    BY DEF Nodes, Below, Subtree
  <1>2. Rooted'
    BY <1>1 DEF TreeInv, Rooted
  <1>3. ResidentsRooted'
    BY <1>1, SimulatorAssumption DEF TreeInv, ResidentsRooted, Resident, NoNode
  <1>4. LeavesNeeded'
    <2> SUFFICES ASSUME NEW n \in Nodes, Below(n) = {} PROVE n \in mem' \/ loc[n] # None
      BY <1>1 DEF LeavesNeeded, Resident, Nodes
    <2>1. n # NoNode
      BY SimulatorAssumption DEF Nodes, NoNode
    <2>2. Resident(n) \/ n = active
      BY DEF TreeInv, LeavesNeeded
    <2> QED BY <2>1, <2>2 DEF Resident
  <1> QED BY <1>2, <1>3, <1>4 DEF TreeInv
-----------------------------------------------------------------------------
(* What keeps the block being accessed in the tree until it is held.        *)

\* The block being accessed is a node, hangs below the one accessed before it,
\* and a storage hit keeps its copy while it waits for its promotion.  A dump
\* that is pending takes blocks of its segment only.
AccessInv ==
  /\ pc \notin {"admit", "insert", "evict", "store"} => active = NoNode
  /\ pc \in {"admit", "insert", "evict", "store"} => active = Here /\ active \in Nodes
  /\ pc = "catch_up" => req.pos = 1
  /\ pc = "access" => req.pos = 1 \/ req.path[req.pos - 1] \in Nodes
  /\ pc = "admit" => loc[active] # None /\ (Pending => active \in Top.protected)
  /\ \A i \in DOMAIN frames : frames[i].leaving \subseteq frames[i].segment

\* Where tree, residents and the active block stay, so does the invariant.
LEMMA QuietTree ==
  ASSUME TreeInv, UNCHANGED <<up, mem, loc, active>>
  PROVE  TreeInv' /\ Nodes' = Nodes
  BY DEF TreeInv, Rooted, ResidentsRooted, LeavesNeeded, Resident, Nodes, Below, Subtree

\* A trim prunes from every block that lost its copy.
LEMMA TrimKeepsTree ==
  ASSUME TypeOK, TreeInv, NEW S \in SUBSET Hash, NEW t, TrimNodes(S, t), active' = active
  PROVE  TreeInv' /\ (active \in Nodes => active \in Nodes')
  <1>1. /\ mem' = mem /\ loc' = [h \in Hash |-> IF h \in S THEN None ELSE loc[h]]
        /\ up' = Pruned(S, Kept(mem', loc'))
    BY DEF TrimNodes
  <1>2. \A h \in Hash : Resident(h) => h \in S \/ h \in mem' \/ loc'[h] # None
    BY <1>1 DEF Resident
  <1>3. \A h \in Hash : h \in mem' \/ loc'[h] # None => Resident(h)
    BY <1>1 DEF Resident
  <1> QED BY <1>1, <1>2, <1>3, PruningKeepsTree

\* An eviction prunes from every block of the segment, written or not.
LEMMA LeaveKeepsTree ==
  ASSUME TypeOK, TreeInv, NEW seg \in SUBSET Hash, NEW out \in SUBSET (mem \cap seg),
         NEW S \in SUBSET out, NEW t, LeaveMemory(seg, out, S, t), active' = active
  PROVE  TreeInv' /\ (active \in Nodes => active \in Nodes')
  <1>1. /\ mem' = mem \ out /\ loc' = [h \in Hash |-> IF h \in S THEN t ELSE loc[h]]
        /\ up' = Pruned(seg, Kept(mem', loc'))
    BY DEF LeaveMemory
  <1>2. \A h \in Hash : Resident(h) => h \in seg \/ h \in mem' \/ loc'[h] # None
    BY <1>1 DEF Resident
  <1>3. \A h \in Hash : h \in mem' \/ loc'[h] # None => Resident(h)
    BY <1>1 DEF Resident
  <1> QED BY <1>1, <1>2, <1>3, PruningKeepsTree

\* A move gives up no copy.
LEMMA MoveKeepsTree ==
  ASSUME TypeOK, TreeInv, NEW S, S \subseteq Stored("SLC"), MoveNodes(S), active' = active
  PROVE  TreeInv' /\ Nodes' = Nodes
  <1>1. /\ mem' = mem /\ up' = up
        /\ loc' = [h \in Hash |-> IF h \in S THEN "TLC" ELSE loc[h]]
    BY DEF MoveNodes
  <1>2. \A h \in Hash : loc'[h] # None <=> loc[h] # None
    BY <1>1 DEF Stored, None
  <1>3. Nodes' = Nodes /\ \A n \in Hash : Below(n)' = Below(n)
    BY <1>1 DEF Nodes, Below, Subtree
  <1>4. \A h \in Hash : Resident(h)' <=> Resident(h)
    BY <1>1, <1>2 DEF Resident
  <1>5. Nodes \subseteq Hash
    BY DEF Nodes
  <1>6. Rooted'
    BY <1>1, <1>3 DEF TreeInv, Rooted
  <1>7. ResidentsRooted'
    BY <1>3, <1>4 DEF TreeInv, ResidentsRooted
  <1>8. LeavesNeeded'
    BY <1>3, <1>4, <1>5 DEF TreeInv, LeavesNeeded
  <1> QED BY <1>3, <1>6, <1>7, <1>8 DEF TreeInv

\* Requests and the background plane.
LEMMA OutsideKeepsTree ==
  ASSUME IInv, TreeInv, AccessInv,
         Environment \/ Maintenance \/ Close \/ Terminated \/ UNCHANGED vars
  PROVE  TreeInv' /\ AccessInv'
  <1>1. TypeOK
    BY DEF IInv
  <1>2. CASE Environment
    <2>1. /\ UNCHANGED <<up, mem, loc, active>> /\ frames = <<>> /\ frames' = <<>>
          /\ pc = "idle" /\ pc' \in {"catch_up", "closing"} /\ req'.pos = 1
      BY <1>2 DEF Environment, Finish, Submit, At, NoRequest, treeVars
    <2> QED BY <2>1, QuietTree DEF AccessInv
  <1>3. ASSUME NEW i \in IdleAges, NEW p \in PromotionAges, IdleTrim(i, p)
        PROVE  TreeInv' /\ AccessInv'
    <2>1. PICK a \in Background(i, p) :
            a.kind = "trim" /\ TrimNodes(ResidentNodes(a.endpoint, a.tier), a.tier)
      BY <1>3 DEF IdleTrim
    <2>2. ResidentNodes(a.endpoint, a.tier) \in SUBSET Hash
      BY <1>1, BackgroundType, ResidentType DEF Stored
    <2>3. /\ UNCHANGED <<active, frames, pc, req>> /\ pc \in {"catch_up", "closing"}
      BY <1>3 DEF IdleTrim, CatchingUp, At
    <2>4. TreeInv'
      BY <1>1, <2>1, <2>2, <2>3, TrimKeepsTree
    <2> QED BY <2>3, <2>4 DEF AccessInv
  <1>4. ASSUME NEW i \in IdleAges, NEW p \in PromotionAges, BackgroundMove(i, p)
        PROVE  TreeInv' /\ AccessInv'
    <2>1. /\ UNCHANGED <<up, mem, loc, active, pc, req>> /\ pc \in {"catch_up", "closing"}
      BY <1>4 DEF BackgroundMove, CatchingUp, At, treeVars
    <2>2. PICK f : frames' = <<f>> /\ f.leaving = {}
      BY <1>4 DEF BackgroundMove, Frame
    <2>3. \A j \in DOMAIN frames' : frames'[j].leaving \subseteq frames'[j].segment
      BY <2>2
    <2> QED BY <2>1, <2>3, QuietTree DEF AccessInv
  <1>5. ASSUME NEW i \in IdleAges, NEW p \in PromotionAges, EndTick(i, p)
        PROVE  TreeInv' /\ AccessInv'
    <2>1. UNCHANGED <<up, mem, loc, active, pc, req, frames>> /\ pc \in {"catch_up", "closing"}
      BY <1>5 DEF EndTick, CatchingUp, At, treeVars
    <2> QED BY <2>1, QuietTree DEF AccessInv
  <1>6. CASE Close
    <2>1. UNCHANGED <<up, mem, loc, active, req, frames>> /\ pc = "closing" /\ pc' = "finished"
      BY <1>6 DEF Close, At, treeVars
    <2> QED BY <2>1, QuietTree DEF AccessInv
  <1>7. CASE Terminated \/ UNCHANGED vars
    <2>1. UNCHANGED <<up, mem, loc, active, req, frames, pc>>
      BY <1>7 DEF Terminated, vars
    <2> QED BY <2>1, QuietTree DEF AccessInv, Here, Pending, Top
  <1> QED BY <1>2, <1>3, <1>4, <1>5, <1>6, <1>7 DEF Maintenance

\* The path of a request.
LEMMA AccessKeepsTree ==
  ASSUME IInv, TreeInv, AccessInv, BlockStep
  PROVE  TreeInv' /\ AccessInv'
  <1>1. TypeOK /\ frames = <<>> /\ req.pos \in Nat \ {0}
    BY DEF IInv, TypeOK, BlockStep, BeginRequest, EndRequest, MemoryHit, GlobalMiss, StorageHit,
           AdmitHit, BypassHit, AtBlock, At
  <1>2. CASE BeginRequest
    <2>1. /\ UNCHANGED <<up, mem, loc, active, frames>> /\ pc = "catch_up" /\ pc' = "access"
          /\ req'.pos = req.pos
      BY <1>1, <1>2 DEF BeginRequest, At, treeVars, TypeOK
    <2> QED BY <2>1, QuietTree DEF AccessInv
  <1>3. CASE EndRequest
    <2>1. UNCHANGED <<up, mem, loc, active, frames>> /\ pc = "access" /\ pc' = "idle"
      BY <1>3 DEF EndRequest, At, treeVars
    <2> QED BY <2>1, QuietTree DEF AccessInv
  <1>4. CASE MemoryHit
    <2>1. /\ UNCHANGED <<up, mem, loc, frames>> /\ pc = "access" /\ pc' = "access"
          /\ active' = NoNode /\ Here \in mem
          /\ req'.pos = req.pos + 1 /\ req'.path = req.path
      BY <1>1, <1>4 DEF MemoryHit, AtBlock, At, NextBlock, TypeOK
    <2>2. active = NoNode /\ req'.path[req'.pos - 1] = Here /\ Here \in Nodes
      <3>1. active = NoNode /\ req'.pos - 1 = req.pos
        BY <1>1, <2>1 DEF AccessInv
      <3>2. Here \in Nodes
        BY <1>1, <2>1 DEF TreeInv, ResidentsRooted, Resident, TypeOK
      <3> QED BY <2>1, <3>1, <3>2 DEF Here
    <2>3. TreeInv' /\ Nodes' = Nodes
      BY <2>1, <2>2, QuietTree
    <2> QED BY <2>1, <2>2, <2>3 DEF AccessInv
  <1>5. CASE GlobalMiss
    <2>1. /\ UNCHANGED <<mem, loc, frames, req>> /\ pc = "access" /\ pc' = "insert"
          /\ active' = Here /\ Here \in Hash /\ ~Resident(Here) /\ up' = Located
      BY <1>1, <1>5, BlockType DEF GlobalMiss, AtBlock, At
    <2>2. active = NoNode /\ Here' = Here
      BY <2>1 DEF AccessInv, Here
    <2>3. CASE up[Here] # {}
      <3>1. up' = up /\ Here \in Nodes
        BY <2>1, <2>3 DEF Located, Nodes
      <3>2. TreeInv'
        BY <2>1, <2>2, <3>1, LeavingAccessKeepsTree
      <3>3. Here \in Nodes'
        BY <3>1 DEF Nodes
      <3> QED BY <2>1, <2>2, <3>2, <3>3 DEF AccessInv
    <2>4. CASE up[Here] = {}
      <3> DEFINE p == IF req.pos = 1 THEN NoNode ELSE req.path[req.pos - 1]
      <3>1. p \in Nodes \cup {NoNode} /\ up' = Grown(Here, p) /\ Here \notin Nodes
        BY <2>1, <2>4 DEF AccessInv, Located, Nodes
      <3>2. TreeInv' /\ Here \in Nodes'
        <4> HIDE DEF p
        <4> QED BY <2>1, <2>2, <3>1, GrowingKeepsTree
      <3> QED BY <2>1, <2>2, <3>2 DEF AccessInv
    <2> QED BY <2>3, <2>4
  <1>6. ASSUME NEW a \in PromotionAges, StorageHit(a)
        PROVE  TreeInv' /\ AccessInv'
    <2>1. /\ UNCHANGED <<up, mem, loc, req>> /\ pc = "access" /\ pc' = "admit"
          /\ active' = Here /\ Here \in Hash /\ loc[Here] # None
      BY <1>1, <1>6, BlockType DEF StorageHit, AtBlock, At
    <2>2. active = NoNode /\ Here' = Here /\ Here \in Nodes
      BY <2>1 DEF AccessInv, Here, TreeInv, ResidentsRooted, Resident
    <2>3. TreeInv' /\ Here \in Nodes'
      <3>1. TreeInv'
        BY <2>1, <2>2, LeavingAccessKeepsTree
      <3> QED BY <2>1, <2>2, <3>1 DEF Nodes
    <2>4. \/ frames' = <<>>
          \/ \E f : frames' = <<f>> /\ f.leaving = {} /\ Here \in f.protected
      <3>1. PICK leaf \in SegmentLeaf(Here) :
              \/ frames' = <<>>
              \/ frames' = <<Frame("TLC", ResidentNodes(leaf, loc[Here]),
                                   req.prefix \cup Segment(leaf), leaf, "promote")>>
        BY <1>6 DEF StorageHit
      <3>2. Here \in Segment(leaf)
        BY <2>1, <3>1 DEF SegmentLeaf, Segment, Subtree
      <3> QED BY <3>1, <3>2 DEF Frame
    <2>5. (Pending' => Here \in Top'.protected)
          /\ \A j \in DOMAIN frames' : frames'[j].leaving \subseteq frames'[j].segment
      BY <2>4 DEF Pending, Top
    <2> QED BY <2>1, <2>2, <2>3, <2>5 DEF AccessInv
  <1>7. CASE AdmitHit
    <2>1. UNCHANGED <<up, mem, loc, active, req, frames>> /\ pc = "admit" /\ pc' = "insert"
      BY <1>7 DEF AdmitHit, At, treeVars
    <2> QED BY <2>1, QuietTree DEF AccessInv, Here
  <1>8. CASE BypassHit
    <2>1. /\ UNCHANGED <<up, mem, loc, frames>> /\ pc = "admit" /\ pc' = "access"
          /\ active' = NoNode /\ req'.pos = req.pos + 1 /\ req'.path = req.path
      BY <1>1, <1>8 DEF BypassHit, At, NextBlock, treeVars, TypeOK
    <2>2. active = Here /\ active \in Nodes /\ loc[active] # None
      BY <2>1 DEF AccessInv
    <2>3. req'.path[req'.pos - 1] = Here
      BY <1>1, <2>1 DEF Here
    <2>4. TreeInv' /\ Here \in Nodes'
      <3>1. TreeInv'
        BY <2>1, <2>2, LeavingAccessKeepsTree
      <3> QED BY <2>1, <2>2, <3>1 DEF Nodes
    <2> QED BY <1>1, <2>1, <2>3, <2>4 DEF AccessInv
  <1> QED BY <1>2, <1>3, <1>4, <1>5, <1>6, <1>7, <1>8 DEF BlockStep

\* What leaves DRAM is of the segment it is taken from.
LEMMA LeavingType ==
  ASSUME TypeOK, NEW e \in Hash, NEW g
  PROVE  /\ Segment(e) \in SUBSET Hash
         /\ Leaving(e, g) \in SUBSET (mem \cap Segment(e))
  BY SegmentType DEF Leaving

\* DRAM: inserting a block and evicting for it.
LEMMA MemoryKeepsTree ==
  ASSUME IInv, TreeInv, AccessInv, MemoryStep
  PROVE  TreeInv' /\ AccessInv'
  <1>1. /\ TypeOK /\ frames = <<>> /\ pc \in {"insert", "evict", "store"}
        /\ active \in Hash /\ active \in Nodes /\ active = Here /\ req.pos \in Nat \ {0}
    <2>1. TypeOK /\ frames = <<>> /\ pc \in {"insert", "evict", "store"}
      BY DEF IInv, MemoryStep, Insert, DropVictim, SelectVictim, EvictCopies, EvictDone, Dump, At
    <2> QED BY <2>1 DEF TypeOK, AccessInv
  <1>2. CASE Insert
    <2>1. /\ UNCHANGED <<up, loc, frames>> /\ pc' = "access" /\ active' = NoNode
          /\ mem' = mem \cup {active} /\ req'.pos = req.pos + 1 /\ req'.path = req.path
      BY <1>1, <1>2 DEF Insert, NextBlock, TypeOK
    <2>2. req'.path[req'.pos - 1] = Here
      BY <1>1, <2>1 DEF Here
    <2>3. TreeInv'
      BY <1>1, <2>1, LeavingAccessKeepsTree
    <2>4. Nodes' = Nodes
      BY <2>1 DEF Nodes
    <2> QED BY <1>1, <2>1, <2>2, <2>3, <2>4 DEF AccessInv
  <1>3. ASSUME NEW e \in Hash, NEW g, LeaveMemory(Segment(e), Leaving(e, g), {}, None),
               UNCHANGED <<active, req, frames>>, pc' \in {"evict", "store"}
        PROVE  TreeInv' /\ AccessInv'
    <2>1. Segment(e) \in SUBSET Hash /\ Leaving(e, g) \in SUBSET (mem \cap Segment(e))
      BY <1>1, LeavingType
    <2>2. TreeInv' /\ active \in Nodes'
      BY <1>1, <1>3, <2>1, LeaveKeepsTree
    <2> QED BY <1>1, <1>3, <2>2 DEF AccessInv, Here
  <1>4. CASE DropVictim
    <2>1. PICK e \in Victims, g \in Grains :
              LeaveMemory(Segment(e), Leaving(e, g), {}, None)
      BY <1>4 DEF DropVictim
    <2>2. UNCHANGED <<req, active, frames>> /\ pc' = "store" /\ e \in Hash
      BY <1>1, <1>4, VictimHoldsMemory DEF DropVictim
    <2> QED BY <1>3, <2>1, <2>2
  <1>5. CASE EvictCopies
    <2>1. PICK g \in Grains : LeaveMemory(Segment(cursor), Leaving(cursor, g), {}, None)
      BY <1>5 DEF EvictCopies
    <2>2. UNCHANGED <<req, active, frames, pc>> /\ pc = "evict" /\ cursor \in Hash
      BY <1>1, <1>5 DEF EvictCopies, At, TypeOK
    <2> QED BY <1>3, <2>1, <2>2
  <1>6. CASE SelectVictim \/ EvictDone
    <2>1. UNCHANGED <<up, mem, loc, active, req, frames>> /\ pc' \in {"evict", "store"}
      BY <1>6 DEF SelectVictim, EvictDone, treeVars
    <2> QED BY <1>1, <2>1, QuietTree DEF AccessInv, Here
  <1>7. CASE Dump
    <2>1. UNCHANGED <<up, mem, loc, active, req, pc>> /\ pc = "evict" /\ cursor \in Hash
      BY <1>1, <1>7 DEF Dump, At, treeVars, TypeOK
    <2>2. PICK t \in Placements, g \in Grains : frames' = <<DumpFrame(t, cursor, g)>>
      BY <1>7 DEF Dump
    <2>3. /\ DumpFrame(t, cursor, g).leaving = Leaving(cursor, g)
          /\ DumpFrame(t, cursor, g).segment = Segment(cursor)
      BY DEF DumpFrame, Frame
    <2>4. \A j \in DOMAIN frames' : frames'[j].leaving \subseteq frames'[j].segment
      <3> DEFINE f == DumpFrame(t, cursor, g)
      <3>1. f.leaving \subseteq f.segment
        BY <1>1, <2>1, <2>3, LeavingType
      <3>2. frames' = <<f>>
        BY <2>2
      <3> HIDE DEF f
      <3> QED BY <3>1, <3>2
    <2> QED BY <1>1, <2>1, <2>4, QuietTree DEF AccessInv, Here
  <1> QED BY <1>2, <1>4, <1>5, <1>6, <1>7 DEF MemoryStep

\* The capacity loop, and what its callers do when it returns.
LEMMA CapacityKeepsTree ==
  ASSUME IInv, TreeInv, AccessInv, CapacityStep
  PROVE  TreeInv' /\ AccessInv'
  <1>1. TypeOK /\ StackShape /\ Pending /\ UNCHANGED <<active, req>>
    BY DEF IInv, CapacityStep, ReclaimByTrim, ReclaimByMove, GrantDump, GrantMove,
           GrantPromotion, Grant, RejectDump, RejectPromotion, RejectBackground, Denied
  <1>2. /\ Top \in Calls /\ Caller \in Calls /\ 1 \in DOMAIN frames
        /\ Len(frames) \in DOMAIN frames
        /\ Caller.leaving \subseteq Caller.segment /\ Top.leaving \subseteq Top.segment
    <2>1. /\ Top \in Calls /\ Caller \in Calls /\ 1 \in DOMAIN frames
          /\ Len(frames) \in DOMAIN frames
      BY <1>1, StackCases
    <2> QED BY <2>1 DEF AccessInv, Top, Caller
  <1>3. pc \in {"evict", "admit", "catch_up", "closing"} /\ (pc = "admit" => Top.then # "reclaim")
    BY <1>1, PendingCases DEF StackShape
  <1>4. CASE ReclaimByTrim
    <2>1. PICK e \in LruLeaf(Top.tier, Top.protected) :
            TrimNodes(ResidentNodes(e, Top.tier), Top.tier)
      BY <1>4 DEF ReclaimByTrim
    <2>2. /\ ResidentNodes(e, Top.tier) \in SUBSET Hash
          /\ ResidentNodes(e, Top.tier) \cap Top.protected = {}
      BY <1>1, LruLeafType, ResidentType DEF Stored
    <2>3. UNCHANGED <<active, req, frames, pc>>
      BY <1>4 DEF ReclaimByTrim
    <2>4. TreeInv' /\ (active \in Nodes => active \in Nodes')
      BY <1>1, <2>1, <2>2, TrimKeepsTree
    <2>5. ASSUME pc = "admit" PROVE loc'[active] # None
      <3>1. active \in Top.protected /\ loc[active] # None /\ active \in Hash
        BY <1>1, <2>5 DEF AccessInv, TypeOK
      <3> QED BY <2>1, <2>2, <3>1 DEF TrimNodes
    <2> QED BY <1>3, <2>3, <2>4, <2>5 DEF AccessInv, Here, Pending, Top
  <1>5. CASE ReclaimByMove
    <2>1. UNCHANGED <<up, mem, loc, active, req, pc>> /\ Top.tier = "SLC"
      BY <1>5 DEF ReclaimByMove, RelocatesVictim, treeVars
    <2>2. pc = "evict" /\ frames = <<Top>>
      BY <1>1, <2>1, PendingCases DEF StackShape
    <2>3. PICK f : frames' = <<f>> \o frames /\ f.leaving = {}
      <3>1. PICK e \in LruLeaf("SLC", Top.protected) :
              frames' = <<Frame("TLC", ResidentNodes(e, "SLC"),
                                Top.protected \cup Segment(e), e, "reclaim")>> \o frames
        BY <1>5 DEF ReclaimByMove
      <3> DEFINE f == Frame("TLC", ResidentNodes(e, "SLC"),
                            Top.protected \cup Segment(e), e, "reclaim")
      <3>2. f.leaving = {}
        BY DEF Frame
      <3>3. frames' = <<f>> \o frames
        BY <3>1
      <3> HIDE DEF f
      <3> QED BY <3>2, <3>3
    <2>4. frames' = <<f, Top>>
      BY <2>2, <2>3, PushOne
    <2>5. \A j \in DOMAIN frames' : frames'[j].leaving \subseteq frames'[j].segment
      <3>1. DOMAIN frames' = {1, 2} /\ frames'[1] = f /\ frames'[2] = Top
        BY <2>4, StackOfTwo
      <3> QED BY <1>2, <2>3, <3>1
    <2> QED BY <2>1, <2>2, <2>5, QuietTree DEF AccessInv, Here
  <1>6. CASE GrantDump
    <2>1. /\ Top.then = "dump" /\ UNCHANGED <<req, active>> /\ pc' = "store"
          /\ LeaveMemory(Top.segment, Top.leaving, Top.nodes, Top.tier)
          /\ frames' = Tail(frames)
      BY <1>6 DEF GrantDump, Grant
    <2>2. /\ Top.leaving \subseteq mem
          /\ Top.nodes = {n \in Top.leaving : loc[n] = None} /\ frames' = <<>> /\ pc = "evict"
      BY <1>1, <2>1, PendingFacts, PendingCases DEF StackShape
    <2>3. /\ Top.segment \in SUBSET Hash /\ Top.leaving \in SUBSET (mem \cap Top.segment)
          /\ Top.nodes \in SUBSET Top.leaving
      BY <1>2, <2>2 DEF Calls
    <2>4. TreeInv' /\ (active \in Nodes => active \in Nodes')
      BY <1>1, <2>1, <2>3, LeaveKeepsTree
    <2> QED BY <2>1, <2>2, <2>4 DEF AccessInv, Here
  <1>7. ASSUME NEW S, S \subseteq Stored("SLC"), MoveNodes(S), frames' = Tail(frames),
               UNCHANGED pc
        PROVE  TreeInv' /\ AccessInv'
    <2>1. TreeInv' /\ Nodes' = Nodes
      BY <1>1, <1>7, MoveKeepsTree
    <2>2. \A h \in Hash : loc[h] # None => loc'[h] # None
      BY <1>7 DEF MoveNodes, None
    <2>3. pc = "admit" => frames' = <<>> /\ loc'[active] # None
      BY <1>1, <1>3, <1>7, <2>2, PendingCases DEF AccessInv, TypeOK
    <2>4. \A j \in DOMAIN frames' : frames'[j].leaving \subseteq frames'[j].segment
      <3>1. frames' = <<>> \/ frames' = <<Caller>>
        BY <1>1, <1>7, PendingCases
      <3> QED BY <1>2, <3>1
    <2> QED BY <1>1, <1>3, <1>7, <2>1, <2>3, <2>4 DEF AccessInv, Here, Pending
  <1>8. CASE GrantMove
    <2>1. Top.nodes \subseteq Stored("SLC")
      BY <1>1, <1>8, PendingFacts DEF GrantMove, Grant
    <2> QED BY <1>7, <1>8, <2>1 DEF GrantMove, Grant
  <1>9. CASE GrantPromotion
    <2>1. ResidentNodes(Top.endpoint, "SLC") \subseteq Stored("SLC")
      BY <1>1, <1>2, ResidentType DEF Calls
    <2> QED BY <1>7, <1>9, <2>1 DEF GrantPromotion, Grant
  <1>10. CASE RejectDump
    <2>1. /\ LeaveMemory(Caller.segment, Caller.leaving, {}, None) /\ Caller.then = "dump"
          /\ UNCHANGED <<req, active>> /\ frames' = <<>> /\ pc' = "store"
      BY <1>10 DEF RejectDump
    <2>2. Caller.leaving \subseteq mem /\ pc = "evict"
      BY <1>1, <2>1, PendingFacts DEF StackShape
    <2>3. Caller.segment \in SUBSET Hash /\ Caller.leaving \in SUBSET (mem \cap Caller.segment)
      BY <1>2, <2>2 DEF Calls
    <2>4. TreeInv' /\ (active \in Nodes => active \in Nodes')
      BY <1>1, <2>1, <2>3, LeaveKeepsTree
    <2> QED BY <2>1, <2>2, <2>4 DEF AccessInv, Here
  <1>11. CASE RejectPromotion \/ RejectBackground
    <2>1. UNCHANGED <<up, mem, loc, active, req, pc>> /\ frames' = <<>>
      BY <1>11 DEF RejectPromotion, RejectBackground, treeVars
    <2> QED BY <1>3, <2>1, QuietTree DEF AccessInv, Here, Pending
  <1> QED BY <1>4, <1>5, <1>6, <1>8, <1>9, <1>10, <1>11 DEF CapacityStep

\* There is no block at first.
LEMMA InitTree == Init => TreeInv /\ AccessInv
  <1> SUFFICES ASSUME Init PROVE TreeInv /\ AccessInv
    OBVIOUS
  <1>1. Nodes = {} /\ up \in [Hash -> SUBSET Hash] /\ \A h \in Hash : ~Resident(h)
    BY DEF Init, Nodes, Resident
  <1>2. TreeInv
    BY <1>1 DEF TreeInv, Rooted, ResidentsRooted, LeavesNeeded
  <1>3. AccessInv
    BY DEF Init, AccessInv
  <1> QED BY <1>2, <1>3

\* Every step keeps the tree.
LEMMA NextTree == IInv /\ TreeInv /\ AccessInv /\ [Next]_vars => (TreeInv /\ AccessInv)'
  <1> SUFFICES ASSUME IInv, TreeInv, AccessInv, [Next]_vars PROVE (TreeInv /\ AccessInv)'
    OBVIOUS
  <1>1. CASE Environment \/ Maintenance \/ Close \/ Terminated \/ UNCHANGED vars
    BY <1>1, OutsideKeepsTree
  <1>2. CASE BlockStep
    BY <1>2, AccessKeepsTree
  <1>3. CASE MemoryStep
    BY <1>3, MemoryKeepsTree
  <1>4. CASE CapacityStep
    BY <1>4, CapacityKeepsTree
  <1> QED BY <1>1, <1>2, <1>3, <1>4 DEF Next, Run

\* Resident blocks hang on a complete path and no block is left that is not
\* needed, for every policy family, capacity and sequence of requests.
THEOREM TreeIsExact == Spec => []TreeExact
  <1>1. TreeInv => TreeExact
    BY DEF TreeInv, Rooted, ResidentsRooted, LeavesNeeded, TreeExact
  <1> QED BY <1>1, InitTree, NextTree, Invariance, PTL DEF Spec
-----------------------------------------------------------------------------
(* Endpoints noted across a capacity request.                               *)

\* A node whose subtree hangs on the path to one leaf has one child at most.
LEMMA OnePath ==
  ASSUME Rooted, NEW l \in Nodes, NEW x \in Nodes, Subtree(x) \subseteq up[l]
  PROVE  ChildCount(x) < 2
  <1>1. ASSUME NEW c \in Children(x), NEW d \in Children(x) PROVE c = d
    <2>1. /\ c \in up[l] /\ d \in up[l] /\ c # x /\ d # x /\ c \in Hash /\ d \in Hash
          /\ up[c] = up[x] \cup {c} /\ up[d] = up[x] \cup {d}
      BY DEF Children, Below, Subtree
    <2>2. x \in Hash /\ x \in up[x] /\ c \in Nodes /\ d \in Nodes
      BY <2>1 DEF Rooted, Nodes
    <2>3. c \notin up[x] /\ d \notin up[x]
      BY <2>1, <2>2 DEF Rooted
    <2>4. c \in up[d] \/ d \in up[c]
      BY <2>1 DEF Rooted
    <2> QED BY <2>1, <2>3, <2>4
  <1>2. CASE Children(x) = {}
    BY <1>2, FS_EmptySet DEF ChildCount
  <1>3. CASE Children(x) # {}
    <2>1. PICK c : Children(x) = {c}
      BY <1>1, <1>3
    <2> QED BY <2>1, FS_Singleton DEF ChildCount
  <1> QED BY <1>2, <1>3

\* Pruning from blocks of a segment removes no node outside of it.
LEMMA PruningKeepsOthers ==
  ASSUME Rooted, NEW l \in Nodes, NEW S \in SUBSET Segment(l), NEW K,
         up' = Pruned(S, K), NEW e \in Nodes, e \notin Segment(l)
  PROVE  e \in Nodes'
  <1> DEFINE reach == UNION {up[s] : s \in S}
             dead == {n \in reach : Subtree(n) \subseteq reach \ K}
  <1>1. e \in Hash /\ e \in up[e] /\ up' = [h \in Hash |-> IF h \in dead THEN {} ELSE up[h]]
    BY DEF Rooted, Nodes, Pruned
  <1>2. reach \subseteq up[l]
    <2>1. \A s \in S : s \in up[l] /\ up[s] \subseteq up[l]
      BY DEF Segment, Rooted
    <2> QED BY <2>1
  <1>3. ASSUME e \in dead PROVE FALSE
    <2>1. Subtree(e) \subseteq up[l] /\ e \in up[l]
      BY <1>2, <1>3
    <2>2. ASSUME NEW x \in up[l], e \in up[x] PROVE ChildCount(x) < 2
      <3>1. x \in Nodes
        BY AncestorsAreNodes DEF Nodes
      <3>2. \A d \in Hash : x \in up[d] => e \in up[d]
        BY <2>2, AncestorsAreNodes
      <3>3. Subtree(x) \subseteq up[l]
        BY <2>1, <3>2 DEF Subtree
      <3> QED BY <3>1, <3>3, OnePath
    <2> QED BY <2>1, <2>2 DEF Segment
  <1> HIDE DEF dead, reach
  <1> QED BY <1>1, <1>3 DEF Nodes

\* The endpoint of a segment is in it.
LEMMA EndpointInSegment ==
  ASSUME Rooted, NEW e \in Nodes
  PROVE  e \in Segment(e)
  <1>1. e \in up[e] /\ \A x \in up[e] : x \in Nodes
    BY AncestorsAreNodes DEF Rooted, Nodes
  <1>2. \A x \in up[e] : e \in up[x] => x = e
    BY <1>1 DEF Rooted
  <1> QED BY <1>1, <1>2 DEF Segment

\* The leaf a segment is named by is a node.
LEMMA LeavesAreNodes ==
  ASSUME NEW n, NEW l \in SegmentLeaf(n)
  PROVE  l \in Nodes
  BY DEF SegmentLeaf, Subtree, Nodes

\* The endpoint of each pending call and the one the eviction is at are nodes
\* that every pending call protects.
LiveInv ==
  /\ pc # "evict" => cursor = NoNode
  /\ cursor # NoNode => cursor \in Nodes
  /\ \A i \in DOMAIN frames :
        /\ frames[i].endpoint \in Nodes \cap frames[i].protected
        /\ cursor # NoNode => cursor \in frames[i].protected

\* Where the tree only gains nodes and no call is begun, endpoints stay.
LEMMA QuietLive ==
  ASSUME LiveInv, UNCHANGED cursor, Nodes \subseteq Nodes',
         frames' = frames \/ frames' = <<>>, pc' = pc \/ cursor = NoNode
  PROVE  LiveInv'
  BY DEF LiveInv

\* Without calls and eviction there is nothing to keep.
LEMMA IdleLive ==
  ASSUME frames' = <<>>, cursor' = NoNode
  PROVE  LiveInv'
  BY DEF LiveInv

\* Requests, the background plane and the path of a request.
LEMMA OutsideKeepsLive ==
  ASSUME IInv, TreeInv, AccessInv, LiveInv,
         Environment \/ Maintenance \/ Close \/ Terminated \/ BlockStep \/ UNCHANGED vars
  PROVE  LiveInv'
  <1>1. TypeOK /\ Rooted
    BY DEF IInv, TreeInv
  <1>2. CASE Terminated \/ UNCHANGED vars
    <2>1. UNCHANGED <<up, cursor, frames, pc>>
      BY <1>2 DEF Terminated, vars
    <2> QED BY <2>1, QuietLive DEF Nodes
  <1>3. CASE Environment \/ Close
    <2>1. frames' = <<>> /\ cursor' = cursor /\ pc # "evict"
      BY <1>3 DEF Environment, Finish, Submit, Close, At
    <2> QED BY <2>1, IdleLive DEF LiveInv
  <1>4. ASSUME NEW i \in IdleAges, NEW p \in PromotionAges, IdleTrim(i, p) \/ EndTick(i, p)
        PROVE  LiveInv'
    <2>1. frames' = <<>> /\ cursor' = cursor /\ pc # "evict"
      BY <1>4 DEF IdleTrim, EndTick, CatchingUp, At
    <2> QED BY <2>1, IdleLive DEF LiveInv
  <1>5. ASSUME NEW i \in IdleAges, NEW p \in PromotionAges, BackgroundMove(i, p)
        PROVE  LiveInv'
    <2>1. cursor' = cursor /\ pc # "evict" /\ up' = up
      BY <1>5 DEF BackgroundMove, CatchingUp, At, treeVars
    <2>2. PICK a \in Background(i, p) :
            /\ a.kind = "move"
            /\ frames' = <<Frame("TLC", ResidentNodes(a.endpoint, "SLC"),
                                 Segment(a.endpoint), a.endpoint, "background")>>
      BY <1>5 DEF BackgroundMove
    <2>3. a.endpoint \in OldestSegment("SLC")
      <3>1. a \in BackgroundAction(i, p)
        BY DEF Background
      <3> QED BY <2>2, <3>1 DEF BackgroundAction
    <2>4. a.endpoint \in Nodes /\ a.endpoint \in Segment(a.endpoint)
      BY <1>1, <2>3, LeavesAreNodes, EndpointInSegment DEF OldestSegment, TierSegments
    <2> DEFINE f == Frame("TLC", ResidentNodes(a.endpoint, "SLC"),
                          Segment(a.endpoint), a.endpoint, "background")
    <2>5. f.endpoint = a.endpoint /\ f.protected = Segment(a.endpoint) /\ frames' = <<f>>
      BY <2>2 DEF Frame
    <2>6. cursor' = NoNode /\ Nodes' = Nodes
      BY <2>1 DEF LiveInv, Nodes
    <2> HIDE DEF f
    <2>7. f.endpoint \in Nodes' \cap f.protected
      BY <2>4, <2>5, <2>6
    <2>8. DOMAIN frames' = {1} /\ frames'[1] = f
      BY <2>5, StackOfOne
    <2> QED BY <2>6, <2>7, <2>8 DEF LiveInv
  <1>6. CASE BeginRequest \/ EndRequest \/ MemoryHit \/ GlobalMiss \/ AdmitHit \/ BypassHit
    <2>1. frames' = <<>> /\ cursor' = cursor /\ pc # "evict"
      BY <1>6 DEF BeginRequest, EndRequest, MemoryHit, GlobalMiss, AdmitHit, BypassHit,
                  AtBlock, At
    <2> QED BY <2>1, IdleLive DEF LiveInv
  <1>7. ASSUME NEW a \in PromotionAges, StorageHit(a)
        PROVE  LiveInv'
    <2>1. cursor' = cursor /\ pc # "evict" /\ up' = up
      BY <1>7 DEF StorageHit, AtBlock, At
    <2>2. cursor' = NoNode /\ Nodes' = Nodes
      BY <2>1 DEF LiveInv, Nodes
    <2>3. PICK leaf \in SegmentLeaf(Here) :
            \/ frames' = <<>>
            \/ frames' = <<Frame("TLC", ResidentNodes(leaf, loc[Here]),
                                 req.prefix \cup Segment(leaf), leaf, "promote")>>
      BY <1>7 DEF StorageHit
    <2>4. leaf \in Nodes /\ leaf \in Segment(leaf)
      BY <1>1, LeavesAreNodes, EndpointInSegment
    <2> DEFINE f == Frame("TLC", ResidentNodes(leaf, loc[Here]),
                          req.prefix \cup Segment(leaf), leaf, "promote")
    <2>5. /\ f.endpoint = leaf /\ f.protected = req.prefix \cup Segment(leaf)
          /\ frames' = <<>> \/ frames' = <<f>>
      BY <2>3 DEF Frame
    <2> HIDE DEF f
    <2>6. f.endpoint \in Nodes' \cap f.protected
      BY <2>2, <2>4, <2>5
    <2>7. CASE frames' = <<f>>
      <3>1. DOMAIN frames' = {1} /\ frames'[1] = f
        BY <2>7, StackOfOne
      <3> QED BY <2>2, <2>6, <3>1 DEF LiveInv
    <2>8. CASE frames' = <<>>
      BY <2>2, <2>8, IdleLive
    <2> QED BY <2>5, <2>7, <2>8
  <1> QED BY <1>2, <1>3, <1>4, <1>5, <1>6, <1>7 DEF Maintenance, BlockStep

\* DRAM: the eviction goes from a segment to the one above, which stays.
LEMMA MemoryKeepsLive ==
  ASSUME IInv, TreeInv, AccessInv, LiveInv, MemoryStep
  PROVE  LiveInv'
  <1>1. TypeOK /\ Rooted /\ frames = <<>>
    BY DEF IInv, TreeInv, MemoryStep, Insert, DropVictim, SelectVictim, EvictCopies,
           EvictDone, Dump, At
  <1>2. CASE Insert \/ DropVictim
    <2>1. frames' = <<>> /\ cursor' = cursor /\ pc # "evict"
      BY <1>1, <1>2 DEF Insert, DropVictim, At
    <2> QED BY <2>1, IdleLive DEF LiveInv
  <1>3. CASE SelectVictim
    <2>1. PICK e \in Victims : cursor' = e
      BY <1>3 DEF SelectVictim
    <2>2. frames' = <<>> /\ pc' = "evict" /\ up' = up
      BY <1>1, <1>3 DEF SelectVictim, treeVars
    <2>3. e \in Nodes
      BY LeavesAreNodes DEF Victims, MemoryVictim, MemoryLeaves
    <2> QED BY <2>1, <2>2, <2>3 DEF LiveInv, Nodes
  <1>4. CASE EvictCopies
    <2>1. PICK g \in Grains : LeaveMemory(Segment(cursor), Leaving(cursor, g), {}, None)
      BY <1>4 DEF EvictCopies
    <2>2. PICK e \in ParentSegment(cursor) : cursor' = NoNode \/ cursor' = e
      BY <1>4 DEF EvictCopies
    <2>3. frames' = <<>> /\ pc' = "evict" /\ cursor \in Nodes
      BY <1>1, <1>4 DEF EvictCopies, At, LiveInv
    <2>4. CASE cursor' = NoNode
      BY <2>3, <2>4, IdleLive
    <2>5. CASE cursor' # NoNode
      <3>1. e \in up[cursor] \ Segment(cursor) /\ cursor' = e
        BY <2>2, <2>5 DEF ParentSegment
      <3>2. e \in Nodes
        BY <1>1, <2>3, <3>1, AncestorsAreNodes DEF Nodes
      <3>3. up' = Pruned(Segment(cursor), Kept(mem \ Leaving(cursor, g), loc'))
        BY <2>1 DEF LeaveMemory
      <3>4. e \in Nodes'
        BY <1>1, <2>3, <3>1, <3>2, <3>3, PruningKeepsOthers
      <3> QED BY <2>3, <3>1, <3>4 DEF LiveInv
    <2> QED BY <2>4, <2>5
  <1>5. CASE EvictDone
    <2>1. frames' = <<>> /\ cursor' = NoNode
      BY <1>1, <1>5 DEF EvictDone
    <2> QED BY <2>1, IdleLive
  <1>6. CASE Dump
    <2>1. /\ cursor' = cursor /\ pc' = "evict" /\ up' = up /\ cursor \in Nodes
      BY <1>6 DEF Dump, At, treeVars, LiveInv
    <2>2. PICK t \in Placements, g \in Grains : frames' = <<DumpFrame(t, cursor, g)>>
      BY <1>6 DEF Dump
    <2> DEFINE f == DumpFrame(t, cursor, g)
    <2>3. f.endpoint = cursor /\ f.protected = req.prefix \cup Segment(cursor) /\ frames' = <<f>>
      BY <2>2 DEF DumpFrame, Frame
    <2>4. cursor \in Segment(cursor) /\ Nodes' = Nodes
      BY <1>1, <2>1, EndpointInSegment DEF Nodes
    <2> HIDE DEF f
    <2>5. DOMAIN frames' = {1} /\ frames'[1] = f
      BY <2>3, StackOfOne
    <2> QED BY <2>1, <2>3, <2>4, <2>5 DEF LiveInv
  <1> QED BY <1>2, <1>3, <1>4, <1>5, <1>6 DEF MemoryStep

\* The capacity loop: what it trims is protected by no call that waits.
LEMMA CapacityKeepsLive ==
  ASSUME IInv, TreeInv, AccessInv, LiveInv, CapacityStep
  PROVE  LiveInv'
  <1>1. TypeOK /\ Rooted /\ StackShape /\ ProtectionInherited /\ Pending
    BY DEF IInv, TreeInv, CapacityStep, ReclaimByTrim, ReclaimByMove, GrantDump, GrantMove,
           GrantPromotion, Grant, RejectDump, RejectPromotion, RejectBackground, Denied
  <1>2. 1 \in DOMAIN frames /\ \A i \in DOMAIN frames : frames[i].protected \subseteq Top.protected
    <2>1. DOMAIN frames = 1 .. Len(frames) /\ Len(frames) \in {1, 2}
      BY <1>1, StackCases
    <2> QED BY <1>1, <2>1 DEF ProtectionInherited, Top
  <1>3. CASE ReclaimByTrim
    <2>1. PICK e \in LruLeaf(Top.tier, Top.protected) :
            TrimNodes(ResidentNodes(e, Top.tier), Top.tier)
      BY <1>3 DEF ReclaimByTrim
    <2>2. UNCHANGED <<cursor, frames, pc>>
      BY <1>3 DEF ReclaimByTrim
    <2>3. e \in Nodes /\ Segment(e) \cap Top.protected = {}
      BY LeavesAreNodes, LruLeafType DEF LruLeaf, LruLeaves, TierSegments
    <2>4. ResidentNodes(e, Top.tier) \in SUBSET Segment(e)
      BY DEF ResidentNodes
    <2>5. PICK K : up' = Pruned(ResidentNodes(e, Top.tier), K)
      BY <2>1 DEF TrimNodes
    <2>6. \A n \in Nodes : n \in Top.protected => n \in Nodes'
      BY <1>1, <2>3, <2>4, <2>5, PruningKeepsOthers
    <2>7. \A i \in DOMAIN frames : frames[i].endpoint \in Nodes'
      BY <1>2, <2>6 DEF LiveInv
    <2>8. cursor # NoNode => cursor \in Nodes'
      BY <1>2, <2>6 DEF LiveInv
    <2> QED BY <2>2, <2>7, <2>8 DEF LiveInv
  <1>4. CASE ReclaimByMove
    <2>1. UNCHANGED <<up, cursor, pc>> /\ Top.tier = "SLC"
      BY <1>4 DEF ReclaimByMove, RelocatesVictim, treeVars
    <2>2. frames = <<Top>>
      BY <1>1, <2>1, PendingCases
    <2>3. PICK e \in LruLeaf("SLC", Top.protected) :
            frames' = <<Frame("TLC", ResidentNodes(e, "SLC"),
                              Top.protected \cup Segment(e), e, "reclaim")>> \o frames
      BY <1>4 DEF ReclaimByMove
    <2>4. e \in Nodes /\ e \in Segment(e)
      BY <1>1, LeavesAreNodes, EndpointInSegment DEF LruLeaf, LruLeaves, TierSegments
    <2> DEFINE f == Frame("TLC", ResidentNodes(e, "SLC"),
                          Top.protected \cup Segment(e), e, "reclaim")
    <2>5. f.endpoint = e /\ f.protected = Top.protected \cup Segment(e) /\ frames' = <<f>> \o frames
      BY <2>3 DEF Frame
    <2> HIDE DEF f
    <2>6. frames' = <<f, Top>>
      BY <2>2, <2>5, PushOne
    <2>7. DOMAIN frames' = {1, 2} /\ frames'[1] = f /\ frames'[2] = Top
      BY <2>6, StackOfTwo
    <2>8. /\ Top.endpoint \in Nodes \cap Top.protected
          /\ cursor # NoNode => cursor \in Nodes /\ cursor \in Top.protected
      BY <1>2 DEF LiveInv, Top
    <2>9. Nodes' = Nodes
      BY <2>1 DEF Nodes
    <2> QED BY <2>1, <2>4, <2>5, <2>7, <2>8, <2>9 DEF LiveInv
  <1>5. CASE GrantDump \/ RejectDump
    <2>1. frames' = <<>> /\ cursor' = NoNode
      BY <1>1, <1>5, PendingCases DEF GrantDump, Grant, RejectDump
    <2> QED BY <2>1, IdleLive
  <1>6. CASE GrantMove \/ GrantPromotion
    <2>1. UNCHANGED <<up, cursor, pc>> /\ frames' = Tail(frames)
      BY <1>6 DEF GrantMove, GrantPromotion, Grant, MoveNodes
    <2>2. \/ frames' = <<>>
          \/ frames = <<Top, Caller>> /\ frames' = <<Caller>>
      BY <1>1, <2>1, PendingCases
    <2>3. Nodes' = Nodes
      BY <2>1 DEF Nodes
    <2>4. CASE frames' = <<>>
      BY <2>1, <2>3, <2>4, QuietLive
    <2>5. CASE frames = <<Top, Caller>> /\ frames' = <<Caller>>
      <3>1. 2 \in DOMAIN frames /\ frames[2] = Caller
        BY <2>5, StackOfTwo
      <3>2. DOMAIN frames' = {1} /\ frames'[1] = Caller
        BY <2>5, StackOfOne
      <3>3. /\ Caller.endpoint \in Nodes \cap Caller.protected
            /\ cursor # NoNode => cursor \in Nodes /\ cursor \in Caller.protected
        BY <3>1 DEF LiveInv
      <3> QED BY <2>1, <2>3, <3>2, <3>3 DEF LiveInv
    <2> QED BY <2>2, <2>4, <2>5
  <1>7. CASE RejectPromotion \/ RejectBackground
    <2>1. UNCHANGED <<up, cursor, pc>> /\ frames' = <<>>
      BY <1>7 DEF RejectPromotion, RejectBackground, treeVars
    <2> QED BY <2>1, QuietLive DEF Nodes
  <1> QED BY <1>3, <1>4, <1>5, <1>6, <1>7 DEF CapacityStep

\* An endpoint that a policy, an eviction or a pending call noted is a node of
\* the tree when it is looked up again, whatever was trimmed and pruned since.
THEOREM EndpointsStayLive == Spec => []EndpointsLive
  <1>1. Init => LiveInv
    BY DEF Init, LiveInv
  <1>2. IInv /\ TreeInv /\ AccessInv /\ LiveInv /\ [Next]_vars => LiveInv'
    BY OutsideKeepsLive, MemoryKeepsLive, CapacityKeepsLive DEF Next, Run
  <1>3. LiveInv => EndpointsLive
    BY DEF LiveInv, EndpointsLive
  <1> QED BY <1>1, <1>2, <1>3, InitTree, NextTree, Invariance, PTL DEF Spec
=============================================================================
