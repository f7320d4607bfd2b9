-------------------------- MODULE RadixTreeProofs --------------------------
(***************************************************************************)
(* Proofs about RadixTree: slots have one owner, whatever was created,     *)
(* detached and used again, the linked records are a tree of blocks, and   *)
(* walking along the links gives what is true of the tree, for every set   *)
(* of hashes.                                                              *)
(***************************************************************************)
EXTENDS RadixTree, FiniteSetTheorems, SequenceTheorems, WellFoundedInduction, TLAPS

-----------------------------------------------------------------------------
(* The invariant. *)

Record == [hash : Hash \cup {NoHash}, parent : Int, first : Int, previous : Int,
           next : Int, children : Int]

Typed ==
    /\ \E n \in Nat : Slots = 0 .. n
    /\ nodes = [s \in Slots |-> nodes[s]]
    /\ \A s \in Slots : nodes[s] \in Record
    /\ index \in [Hash -> Slots \cup {Invalid}]
    /\ detached \in [Hash -> Slots \cup {Invalid}]
    /\ free \in Seq(Slots)

\* A used slot holds the hash of its owner, a free one none.
Owned ==
    /\ \A h \in Live : index[h] # Root /\ nodes[index[h]].hash = h
    /\ \A h \in Waiting : detached[h] # Root /\ nodes[detached[h]].hash = h /\ h \notin Live
    /\ \A i \in 1 .. Len(free) : free[i] # Root /\ nodes[free[i]].hash = NoHash
    /\ \A i, j \in 1 .. Len(free) : free[i] = free[j] => i = j
    /\ \A s \in Slots \ {Root} : s \in Used \/ \E i \in 1 .. Len(free) : free[i] = s

Trunk == {Root} \cup Standing
Rooted == {Root} \cup Used
Kids(s) == {h \in Live : nodes[index[h]].parent = s}

\* A used slot hangs below a live node or the root, which counts its live ones.
Hanging ==
    /\ \A s \in Used : nodes[s].parent \in Trunk
    /\ \A s \in Trunk : nodes[s].children = Cardinality(Kids(s))

\* f gives the blocks above each slot of st, in the links of nd, and no block
\* is above itself.
Above(nd, st, f) ==
    f = [s \in st |-> IF s = Root THEN {} ELSE {nd[s].hash} \cup f[nd[s].parent]]
Layered(nd, st, f) ==
    /\ Above(nd, st, f)
    /\ \A s \in st : f[s] \in SUBSET Hash
    /\ \A s \in st \ {Root} : nd[s].parent \in st /\ nd[s].hash \notin f[nd[s].parent]

IInv == Typed /\ Owned /\ Hanging /\ Layered(nodes, Rooted, Path)

-----------------------------------------------------------------------------
(* Climbing the tree. *)

\* No set that f gives on B is smaller than the one it gives at s.
Least(B, f, s) == \A t \in B : f[t] \subseteq f[s] => f[t] = f[s]

\* Of any sets of blocks one has no other below it.
LEMMA LeastSet ==
  ASSUME NEW B, NEW f, B # {}, \A s \in B : f[s] \in SUBSET Hash
  PROVE  \E s \in B : Least(B, f, s)
  <1> DEFINE R == StrictSubsetOrdering(Hash)
             U == {f[s] : s \in B}
  <1>1. U \subseteq FiniteSubsetsOf(Hash) /\ U # {}
    <2>1. \A s \in B : f[s] \in SUBSET Hash /\ IsFiniteSet(f[s])
      BY RadixTreeAssumption, FS_Subset
    <2> QED BY <2>1 DEF FiniteSubsetsOf
  <1>2. \E a \in U : \A b \in U : ~(<<b, a>> \in R)
    <2>1. IsWellFoundedOn(R, FiniteSubsetsOf(Hash))
      BY FS_StrictSubsetOrderingWellFounded
    <2> HIDE DEF R, U
    <2> QED BY <1>1, <2>1, WFMin, Zenon
  <1>3. PICK s \in B : \A t \in B : ~(<<f[t], f[s]>> \in R)
    BY <1>2
  <1>4. ASSUME NEW t \in B, f[t] \subseteq f[s], f[t] # f[s] PROVE FALSE
    <2>1. <<f[t], f[s]>> \in R
      BY <1>4 DEF StrictSubsetOrdering
    <2> QED BY <1>3, <2>1
  <1> QED BY <1>4 DEF Least

\* Of any slots one is the root, or has its parent outside of them: what fails
\* somewhere fails at a slot above which it holds.
LEMMA TopSlot ==
  ASSUME NEW nd, NEW st, NEW f, Layered(nd, st, f), NEW B \in SUBSET st, B # {}
  PROVE  \E s \in B : s = Root \/ nd[s].parent \notin B
  <1>1. PICK s \in B : Least(B, f, s)
    <2>1. \A s \in B : f[s] \in SUBSET Hash
      BY DEF Layered
    <2> QED BY <2>1, LeastSet
  <1>2. ASSUME s # Root, nd[s].parent \in B PROVE FALSE
    <2> DEFINE p == nd[s].parent
    <2>1. f[s] = {nd[s].hash} \cup f[p] /\ nd[s].hash \notin f[p]
      BY <1>2 DEF Layered, Above
    <2>2. f[p] \subseteq f[s] /\ f[p] # f[s]
      BY <2>1, Zenon
    <2> HIDE DEF p
    <2> QED BY <1>1, <1>2, <2>2 DEF p, Least
  <1> QED BY <1>2

\* The climb has one result.
LEMMA OneClimb ==
  ASSUME NEW nd, NEW st, NEW f, Layered(nd, st, f), NEW g, Above(nd, st, g)
  PROVE  f = g
  <1> DEFINE B == {s \in st : f[s] # g[s]}
  <1>1. f = [s \in st |-> f[s]] /\ g = [s \in st |-> g[s]]
    <2>1. \A u : Above(nd, st, u) => u = [s \in st |-> u[s]]
      BY DEF Above
    <2> QED BY <2>1 DEF Layered
  <1>2. ASSUME B # {} PROVE FALSE
    <2>1. PICK s \in B : s = Root \/ nd[s].parent \notin B
      <3> HIDE DEF B
      <3>1. B \in SUBSET st
        BY DEF B
      <3> QED BY <1>2, <3>1, TopSlot
    <2>2. /\ f[s] = IF s = Root THEN {} ELSE {nd[s].hash} \cup f[nd[s].parent]
          /\ g[s] = IF s = Root THEN {} ELSE {nd[s].hash} \cup g[nd[s].parent]
      BY DEF Layered, Above
    <2>3. s # Root => nd[s].parent \in st
      BY DEF Layered
    <2> QED BY <2>1, <2>2, <2>3
  <1> QED BY <1>1, <1>2

-----------------------------------------------------------------------------
(* What the operations do to the records. *)

\* A new first child: its record, and what changes elsewhere.
LEMMA LinkedRecords ==
  ASSUME Typed, NEW h \in Hash, NEW p \in Slots, NEW s \in Nat, s # p, NEW w, w = Linked(p, s, h)
  PROVE  /\ DOMAIN w = Slots \cup {s} /\ w = [t \in Slots \cup {s} |-> w[t]]
         /\ w[s] \in Record
         /\ w[s].hash = h /\ w[s].parent = p /\ w[s].children = 0
         /\ w[s].first = Invalid /\ w[s].previous = Invalid /\ w[s].next = nodes[p].first
         /\ \A t \in Slots \ {s} :
               /\ w[t] \in Record
               /\ w[t].hash = nodes[t].hash /\ w[t].parent = nodes[t].parent
               /\ w[t].next = nodes[t].next
               /\ w[t].children = IF t = p THEN nodes[t].children + 1 ELSE nodes[t].children
               /\ w[t].first = IF t = p THEN s ELSE nodes[t].first
               /\ w[t].previous = IF t # p /\ t = nodes[p].first THEN s ELSE nodes[t].previous
  <1> DEFINE old == nodes[p].first
             new == [NodeRecord EXCEPT !.hash = h, !.parent = p, !.next = old]
  <1>1. /\ \A t \in Slots : nodes[t] \in Record
        /\ old \in Int /\ p \in Int /\ s \in Int
    <2>1. \A t \in Slots : nodes[t] \in Record /\ t \in Int
      BY DEF Typed
    <2> QED BY <2>1 DEF Record
  <1>2. /\ DOMAIN w = Slots \cup {s} /\ w = [t \in Slots \cup {s} |-> w[t]] /\ w[s] = new
    BY DEF Linked
  <1>3. /\ new \in Record
        /\ new.hash = h /\ new.parent = p /\ new.children = 0
        /\ new.first = Invalid /\ new.previous = Invalid /\ new.next = old
    <2> DEFINE q == NodeRecord
    <2>1. Invalid \in Int
      BY DEF Invalid
    <2>2. /\ q \in Record /\ q.first = Invalid /\ q.previous = Invalid /\ q.children = 0
      BY <2>1 DEF NodeRecord, Record
    <2>3. new = [q EXCEPT !.hash = h, !.parent = p, !.next = old]
      OBVIOUS
    <2> HIDE DEF new, q, old
    <2> QED BY <1>1, <2>2, <2>3 DEF Record
  <1>4. ASSUME NEW t \in Slots \ {s}
        PROVE  /\ w[t] \in Record
               /\ w[t].hash = nodes[t].hash /\ w[t].parent = nodes[t].parent
               /\ w[t].next = nodes[t].next
               /\ w[t].children = IF t = p THEN nodes[t].children + 1 ELSE nodes[t].children
               /\ w[t].first = IF t = p THEN s ELSE nodes[t].first
               /\ w[t].previous = IF t # p /\ t = old THEN s ELSE nodes[t].previous
    <2>1. CASE t = p
      <3> DEFINE q == nodes[p]
      <3>1. w[t] = [q EXCEPT !.first = s, !.children = q.children + 1] /\ q \in Record
        BY <1>1, <2>1 DEF Linked
      <3> HIDE DEF q
      <3>2. q.children + 1 \in Int
        BY <3>1 DEF Record
      <3>3. w[t] \in Record
        BY <1>1, <3>1, <3>2 DEF Record
      <3>4. /\ w[t].hash = q.hash /\ w[t].parent = q.parent /\ w[t].next = q.next
            /\ w[t].previous = q.previous /\ w[t].first = s /\ w[t].children = q.children + 1
        BY <3>1 DEF Record
      <3> QED BY <2>1, <3>3, <3>4 DEF q
    <2>2. CASE t # p /\ t = old
      <3>1. w[t] = [nodes[t] EXCEPT !.previous = s] /\ nodes[t] \in Record
        BY <1>1, <2>2 DEF Linked
      <3> QED BY <1>1, <2>2, <3>1 DEF Record
    <2>3. CASE t # p /\ t # old
      <3>1. w[t] = nodes[t] /\ nodes[t] \in Record
        BY <1>1, <2>3 DEF Linked
      <3> QED BY <2>3, <3>1
    <2> QED BY <2>1, <2>2, <2>3
  <1> HIDE DEF new
  <1> QED BY <1>2, <1>3, <1>4

\* A child less: what changes, and where.
LEMMA UnlinkedRecords ==
  ASSUME Typed, NEW s \in Slots, NEW w, w = Unlinked(s)
  PROVE  LET r == nodes[s]
         IN  /\ DOMAIN w = Slots /\ w = [t \in Slots |-> w[t]]
             /\ \A t \in Slots :
                   /\ w[t] \in Record
                   /\ w[t].hash = nodes[t].hash /\ w[t].parent = nodes[t].parent
                   /\ w[t].children = IF t = r.parent THEN nodes[t].children - 1
                                      ELSE nodes[t].children
                   /\ w[t].first = IF t = r.parent /\ r.previous = Invalid THEN r.next
                                   ELSE nodes[t].first
                   /\ w[t].next = IF t # r.parent /\ t = r.previous THEN r.next
                                  ELSE nodes[t].next
                   /\ w[t].previous = IF t # r.parent /\ t # r.previous /\ t = r.next
                                      THEN r.previous ELSE nodes[t].previous
  <1> DEFINE r == nodes[s]
  <1>1. /\ \A t \in Slots : nodes[t] \in Record
        /\ r.parent \in Int /\ r.previous \in Int /\ r.next \in Int
    <2>1. \A t \in Slots : nodes[t] \in Record
      BY DEF Typed
    <2> QED BY <2>1 DEF Record
  <1>2. DOMAIN w = Slots /\ w = [t \in Slots |-> w[t]]
    BY DEF Unlinked
  <1>3. ASSUME NEW t \in Slots
        PROVE  /\ w[t] \in Record
               /\ w[t].hash = nodes[t].hash /\ w[t].parent = nodes[t].parent
               /\ w[t].children = IF t = r.parent THEN nodes[t].children - 1
                                  ELSE nodes[t].children
               /\ w[t].first = IF t = r.parent /\ r.previous = Invalid THEN r.next
                               ELSE nodes[t].first
               /\ w[t].next = IF t # r.parent /\ t = r.previous THEN r.next ELSE nodes[t].next
               /\ w[t].previous = IF t # r.parent /\ t # r.previous /\ t = r.next
                                  THEN r.previous ELSE nodes[t].previous
    <2>1. CASE t = r.parent
      <3> DEFINE q == nodes[t]
                 first == IF r.previous = Invalid THEN r.next ELSE q.first
      <3>1. w[t] = [q EXCEPT !.children = q.children - 1, !.first = first] /\ q \in Record
        BY <1>1, <2>1 DEF Unlinked
      <3> HIDE DEF q
      <3>2. q.children - 1 \in Int /\ first \in Int
        BY <1>1, <3>1 DEF Record
      <3> HIDE DEF first
      <3>3. w[t] \in Record
        BY <3>1, <3>2 DEF Record
      <3>4. /\ w[t].hash = q.hash /\ w[t].parent = q.parent /\ w[t].next = q.next
            /\ w[t].previous = q.previous /\ w[t].first = first
            /\ w[t].children = q.children - 1
        BY <3>1 DEF Record
      <3> QED BY <2>1, <3>3, <3>4 DEF q, first
    <2>2. CASE t # r.parent /\ t = r.previous
      <3>1. w[t] = [nodes[t] EXCEPT !.next = r.next] /\ nodes[t] \in Record
        BY <1>1, <2>2 DEF Unlinked
      <3> HIDE DEF r
      <3> QED BY <1>1, <2>2, <3>1 DEF Record
    <2>3. CASE t # r.parent /\ t # r.previous /\ t = r.next
      <3>1. w[t] = [nodes[t] EXCEPT !.previous = r.previous] /\ nodes[t] \in Record
        BY <1>1, <2>3 DEF Unlinked
      <3> HIDE DEF r
      <3> QED BY <1>1, <2>3, <3>1 DEF Record
    <2>4. CASE t # r.parent /\ t # r.previous /\ t # r.next
      <3>1. w[t] = nodes[t] /\ nodes[t] \in Record
        BY <1>1, <2>4 DEF Unlinked
      <3> HIDE DEF r
      <3> QED BY <2>4, <3>1
    <2> QED BY <2>1, <2>2, <2>3, <2>4
  <1> QED BY <1>2, <1>3

\* The slot a new node gets has no owner, and leaves the free list.
LEMMA NewSlotFresh ==
  ASSUME Typed, Owned, NEW s, s = NewSlot
  PROVE  /\ s \in Nat \ {Root} /\ s \notin Used
         /\ \E n \in Nat : Slots \cup {s} = 0 .. n
         /\ FreeAfter \in Seq(Slots)
         /\ Len(FreeAfter) <= Len(free)
         /\ \A i \in 1 .. Len(FreeAfter) : FreeAfter[i] = free[i] /\ free[i] # s
         /\ \A i \in 1 .. Len(free) : free[i] = s \/ i \in 1 .. Len(FreeAfter)
  <1>1. PICK n \in Nat : Slots = 0 .. n
    BY DEF Typed
  <1>2. Used \subseteq Slots
    BY DEF Typed, Used, Standing, Live, Waiting
  <1>3. CASE free = <<>>
    <2>1. s = n + 1
      BY <1>1, <1>3, FS_Interval DEF NewSlot
    <2>2. FreeAfter = <<>> /\ Len(free) = 0 /\ <<>> \in Seq(Slots)
      BY <1>3 DEF FreeAfter
    <2>3. Slots \cup {s} = 0 .. n + 1 /\ n + 1 \in Nat
      BY <1>1, <2>1
    <2> QED BY <1>1, <1>2, <1>3, <2>1, <2>2, <2>3 DEF Root
  <1>4. CASE free # <<>>
    <2> DEFINE l == Len(free)
    <2>1. l \in Nat \ {0} /\ s = free[l] /\ s \in Slots
      BY <1>4 DEF Typed, NewSlot
    <2>2. /\ FreeAfter \in Seq(Slots) /\ Len(FreeAfter) = l - 1
          /\ \A i \in 1 .. l - 1 : FreeAfter[i] = free[i]
      <3>1. FreeAfter = SubSeq(free, 1, l - 1) /\ free \in Seq(Slots)
        BY <1>4 DEF Typed, FreeAfter
      <3> HIDE DEF l
      <3>2. \A i \in 1 .. l - 1 : free[i] \in Slots
        BY <2>1, <3>1 DEF l
      <3>3. /\ FreeAfter \in Seq(Slots)
            /\ Len(FreeAfter) = IF 1 <= l - 1 THEN l - 1 - 1 + 1 ELSE 0
            /\ \A i \in 1 .. l - 1 - 1 + 1 : FreeAfter[i] = free[1 + i - 1]
        BY <2>1, <3>1, <3>2, SubSeqProperties
      <3> QED BY <2>1, <3>3
    <2> HIDE DEF l
    <2>3. /\ s # Root /\ nodes[s].hash = NoHash
          /\ \A i \in 1 .. l - 1 : free[i] # s
      BY <2>1 DEF Owned, l
    <2>4. s \notin Used
      BY <2>3, RadixTreeAssumption DEF Used, Standing, Owned, NoHash, Live, Waiting
    <2>5. s \in Nat /\ Slots \cup {s} = 0 .. n
      BY <1>1, <2>1
    <2> QED BY <1>1, <2>1, <2>2, <2>3, <2>4, <2>5 DEF l
  <1> QED BY <1>3, <1>4

-----------------------------------------------------------------------------
(* Creation. *)

\* Live slots are slots, and have different owners.
LEMMA TrunkSlots ==
  ASSUME Typed, Owned
  PROVE  /\ Root \in Slots /\ Trunk \subseteq Slots /\ Slots \subseteq Nat
         /\ Root \notin Standing
         /\ \A g, h \in Live : index[g] = index[h] => g = h
         /\ \A s \in Standing : nodes[s].hash \in Live /\ index[nodes[s].hash] = s
  <1>1. \A h \in Live : index[h] \in Slots
    BY DEF Typed, Live
  <1>2. Root \in Slots /\ Slots \subseteq Nat
    BY DEF Typed, Root
  <1> QED BY <1>1, <1>2 DEF Owned, Trunk, Standing

\* The state after h was created below slot p, in slot s.
Created(h, p, s) ==
  /\ s \in Nat \ {Root} /\ s \notin Trunk /\ s # p
  /\ Slots' = Slots \cup {s} /\ nodes' = [t \in Slots \cup {s} |-> nodes'[t]]
  /\ h \notin Live /\ Live' = Live \cup {h} /\ Trunk' = Trunk \cup {s}
  /\ Waiting = {} /\ Waiting' = {}
  /\ index'[h] = s /\ \A g \in Live : index'[g] = index[g]
  /\ nodes'[s] \in Record
  /\ nodes'[s].hash = h /\ nodes'[s].parent = p /\ nodes'[s].children = 0
  /\ nodes'[s].first = Invalid /\ nodes'[s].previous = Invalid
  /\ nodes'[s].next = nodes[p].first
  /\ \A t \in Slots \ {s} :
        /\ nodes'[t] \in Record
        /\ nodes'[t].hash = nodes[t].hash /\ nodes'[t].parent = nodes[t].parent
        /\ nodes'[t].next = nodes[t].next
        /\ nodes'[t].children = IF t = p THEN nodes[t].children + 1
                                ELSE nodes[t].children
        /\ nodes'[t].first = IF t = p THEN s ELSE nodes[t].first
        /\ nodes'[t].previous = IF t # p /\ t = nodes[p].first THEN s
                                ELSE nodes[t].previous

\* Create() in the terms that the proofs use: one record more, hanging below p.
LEMMA CreateFacts ==
  ASSUME Typed, Owned, NEW h \in Hash, NEW p \in Trunk, Create(h, p), NEW s, s = NewSlot
  PROVE  Created(h, p, s)
  <1>1. s \in Nat \ {Root} /\ s \notin Used
    BY NewSlotFresh
  <1>2. s \notin Trunk /\ s # p /\ p \in Slots /\ Trunk \subseteq Slots
    BY <1>1, TrunkSlots DEF Trunk, Used, Standing
  <1>3. nodes' = Linked(p, s, h)
    BY DEF Create
  <1>4. h \notin Live /\ index' = [index EXCEPT ![h] = s] /\ index \in [Hash -> Slots \cup {Invalid}]
    BY DEF Create, Live, Typed
  <1>5. index'[h] = s /\ \A g \in Hash \ {h} : index'[g] = index[g]
    BY <1>4
  <1>6. Live' = Live \cup {h} /\ \A g \in Live : index'[g] = index[g]
    BY <1>1, <1>4, <1>5 DEF Live, Invalid
  <1>7. Trunk' = Trunk \cup {s}
    BY <1>4, <1>5, <1>6 DEF Trunk, Standing
  <1> DEFINE w == nodes'
  <1>8. w = Linked(p, s, h) /\ s \in Nat
    BY <1>1, <1>3
  <1>9. /\ DOMAIN w = Slots \cup {s} /\ w = [t \in Slots \cup {s} |-> w[t]]
        /\ w[s] \in Record
        /\ w[s].hash = h /\ w[s].parent = p /\ w[s].children = 0
        /\ w[s].first = Invalid /\ w[s].previous = Invalid /\ w[s].next = nodes[p].first
        /\ \A t \in Slots \ {s} :
              /\ w[t] \in Record
              /\ w[t].hash = nodes[t].hash /\ w[t].parent = nodes[t].parent
              /\ w[t].next = nodes[t].next
              /\ w[t].children = IF t = p THEN nodes[t].children + 1 ELSE nodes[t].children
              /\ w[t].first = IF t = p THEN s ELSE nodes[t].first
              /\ w[t].previous = IF t # p /\ t = nodes[p].first THEN s ELSE nodes[t].previous
    <2> HIDE DEF w
    <2> QED BY <1>2, <1>8, LinkedRecords
  <1>10. Slots' = DOMAIN w /\ Waiting = {} /\ Waiting' = {}
    BY DEF Slots, Create, Waiting
  <1> QED BY <1>1, <1>2, <1>4, <1>5, <1>6, <1>7, <1>9, <1>10 DEF Created

\* Creation keeps the types and the owners of slots.
LEMMA CreateSlots ==
  ASSUME Typed, Owned, NEW h \in Hash, NEW p \in Trunk, Create(h, p)
  PROVE  Typed' /\ Owned'
  <1>1. PICK s : s = NewSlot
    OBVIOUS
  <1>2. /\ s \in Nat \ {Root} /\ s \notin Trunk
        /\ Slots' = Slots \cup {s} /\ nodes' = [t \in Slots \cup {s} |-> nodes'[t]]
        /\ h \notin Live /\ Live' = Live \cup {h} /\ Trunk' = Trunk \cup {s}
        /\ index'[h] = s /\ \A g \in Live : index'[g] = index[g]
        /\ nodes'[s] \in Record /\ nodes'[s].hash = h
        /\ \A t \in Slots \ {s} : nodes'[t] \in Record /\ nodes'[t].hash = nodes[t].hash
    <2>1. Created(h, p, s)
      BY <1>1, CreateFacts
    <2> QED BY <2>1 DEF Created
  <1>3. /\ s \notin Used
        /\ \E n \in Nat : Slots \cup {s} = 0 .. n
        /\ free' \in Seq(Slots) /\ Len(free') <= Len(free)
        /\ \A i \in 1 .. Len(free') : free'[i] = free[i] /\ free[i] # s
        /\ \A i \in 1 .. Len(free) : free[i] = s \/ i \in 1 .. Len(free')
    BY <1>1, NewSlotFresh DEF Create
  <1>4. /\ detached' = detached /\ Waiting = {} /\ Waiting' = {}
        /\ index' = [index EXCEPT ![h] = s] /\ index \in [Hash -> Slots \cup {Invalid}]
        /\ detached \in [Hash -> Slots \cup {Invalid}] /\ Len(free) \in Nat /\ Len(free') \in Nat
        /\ \A i \in 1 .. Len(free) : free[i] \in Slots
    BY <1>1, <1>3 DEF Create, Typed, Waiting
  <1>5. Typed'
    <2>1. \A t \in Slots' : nodes'[t] \in Record
      BY <1>2
    <2>2. index' \in [Hash -> Slots' \cup {Invalid}] /\ detached' \in [Hash -> Slots' \cup {Invalid}]
      BY <1>2, <1>4
    <2>3. free' \in Seq(Slots')
      <3>1. \A i \in 1 .. Len(free') : free'[i] \in Slots'
        BY <1>2, <1>3, <1>4
      <3>2. free' = [i \in 1 .. Len(free') |-> free'[i]]
        BY <1>3
      <3> QED BY <1>4, <3>1, <3>2, IsASeq
    <2>4. (\E n \in Nat : Slots = 0 .. n)'
      BY <1>2, <1>3
    <2> QED BY <1>2, <2>1, <2>2, <2>3, <2>4 DEF Typed
  <1>6. \A g \in Live' : index'[g] # Root /\ nodes'[index'[g]].hash = g
    <2>1. \A g \in Live : index[g] \in Slots \ {s}
      BY <1>3, <1>4 DEF Live, Used, Standing
    <2> QED BY <1>2, <2>1 DEF Owned
  <1>7. \A i \in 1 .. Len(free') : free'[i] # Root /\ nodes'[free'[i]].hash = NoHash
    <2>1. \A i \in 1 .. Len(free') : i \in 1 .. Len(free)
      BY <1>3, <1>4
    <2> QED BY <1>2, <1>3, <1>4, <2>1 DEF Owned
  <1>8. \A i, j \in 1 .. Len(free') : free'[i] = free'[j] => i = j
    <2>1. \A i \in 1 .. Len(free') : i \in 1 .. Len(free)
      BY <1>3, <1>4
    <2> QED BY <1>3, <2>1 DEF Owned
  <1>9. Used' = Used \cup {s}
    BY <1>2, <1>4 DEF Used, Standing
  <1>10. \A t \in Slots' \ {Root} : t \in Used' \/ \E i \in 1 .. Len(free') : free'[i] = t
    <2> SUFFICES ASSUME NEW t \in Slots \ {Root}, t \notin Used, t # s
                 PROVE  \E i \in 1 .. Len(free') : free'[i] = t
      BY <1>2, <1>9
    <2>1. PICK i \in 1 .. Len(free) : free[i] = t
      BY DEF Owned
    <2> QED BY <1>3, <2>1
  <1> QED BY <1>4, <1>5, <1>6, <1>7, <1>8, <1>10 DEF Owned

\* Path is that climb as soon as there is one, in the next state too.
LEMMA TheClimb ==
  ASSUME NEW nd, NEW st, NEW f, Layered(nd, st, f)
  PROVE  (CHOOSE g : Above(nd, st, g)) = f
  <1> DEFINE u == CHOOSE g : Above(nd, st, g)
  <1>1. Above(nd, st, f)
    BY DEF Layered
  <1>2. Above(nd, st, u)
    BY <1>1, Zenon
  <1> HIDE DEF u
  <1>3. f = u
    BY <1>2, OneClimb
  <1> QED BY <1>3 DEF u

\* What satisfies the equation of the climb is Path.
LEMMA PathIs ==
  ASSUME NEW f, Layered(nodes, Rooted, f)
  PROVE  Path = f
  <1>1. Path = CHOOSE g : Above(nodes, Rooted, g)
    BY Zenon DEF Path, Above, Rooted
  <1> QED BY <1>1, TheClimb

\* The same in the next state.
LEMMA NextPathIs ==
  ASSUME NEW f, Layered(nodes', Rooted', f)
  PROVE  Path' = f
  <1>1. Path' = CHOOSE g : Above(nodes', Rooted', g)
    BY Zenon DEF Path, Above, Rooted
  <1> QED BY <1>1, TheClimb

\* Creation keeps the tree, with the new block below its parent's.
LEMMA CreateTree ==
  ASSUME IInv, NEW h \in Hash, NEW p \in Trunk, NEW s, Created(h, p, s)
  PROVE  /\ Hanging' /\ Layered(nodes', Rooted', Path')
         /\ Path'[s] = {h} \cup Path[p] /\ \A t \in Trunk : Path'[t] = Path[t]
  <1> USE DEF IInv
  <1>1. /\ s \notin Trunk /\ s # p /\ s # Root /\ h \notin Live
        /\ Live' = Live \cup {h} /\ Trunk' = Trunk \cup {s}
        /\ index'[h] = s /\ \A g \in Live : index'[g] = index[g]
        /\ nodes'[s].hash = h /\ nodes'[s].parent = p /\ nodes'[s].children = 0
        /\ Rooted = Trunk /\ Rooted' = Trunk' /\ Used = Standing /\ Used' = Standing'
    BY DEF Created, Rooted, Trunk, Used
  <1>2. \A t \in Trunk : /\ nodes'[t].hash = nodes[t].hash /\ nodes'[t].parent = nodes[t].parent
                         /\ nodes'[t].children = IF t = p THEN nodes[t].children + 1
                                                 ELSE nodes[t].children
    BY TrunkSlots DEF Created
  <1>3. /\ Root \in Trunk /\ \A g \in Live : index[g] \in Trunk /\ index[g] # Root
        /\ Standing = Trunk \ {Root} /\ Standing' = Trunk' \ {Root}
    <2>1. Root \notin Standing /\ (Root \notin Standing)'
      BY <1>1, TrunkSlots DEF Standing
    <2> QED BY <2>1, TrunkSlots DEF Trunk, Standing
  <1>4. \A g \in Live' : nodes'[index'[g]].parent = IF g = h THEN p ELSE nodes[index[g]].parent
    BY <1>1, <1>2, <1>3
  <1>5. ASSUME NEW t \in Trunk' PROVE nodes'[t].children = Cardinality(Kids(t)')
    <2>1. CASE t = s
      <3>1. \A g \in Live : nodes[index[g]].parent \in Trunk
        BY <1>1, <1>3 DEF Hanging
      <3>2. Kids(t)' = {}
        BY <1>1, <1>4, <2>1, <3>1 DEF Kids
      <3> QED BY <1>1, <2>1, <3>2, FS_EmptySet
    <2>2. CASE t = p
      <3>1. Kids(t)' = Kids(t) \cup {h} /\ h \notin Kids(t)
        BY <1>1, <1>4, <2>2 DEF Kids
      <3>2. IsFiniteSet(Kids(t))
        <4>1. Kids(t) \subseteq Hash
          BY DEF Kids, Live
        <4> QED BY <4>1, RadixTreeAssumption, FS_Subset
      <3>3. Cardinality(Kids(t)') = Cardinality(Kids(t)) + 1
        BY <3>1, <3>2, FS_AddElement
      <3> QED BY <1>2, <2>2, <3>3 DEF Hanging
    <2>3. CASE t # s /\ t # p
      <3>1. Kids(t)' = Kids(t) /\ t \in Trunk
        BY <1>1, <1>4, <2>3 DEF Kids
      <3> QED BY <1>2, <2>3, <3>1 DEF Hanging
    <2> QED BY <2>1, <2>2, <2>3
  <1>6. Hanging'
    <2>1. \A t \in Standing' : nodes'[t].parent \in Trunk'
      <3>1. \A t \in Trunk \ {Root} : nodes[t].parent \in Trunk
        BY <1>1, <1>3 DEF Hanging
      <3> QED BY <1>1, <1>2, <1>3, <3>1
    <2> QED BY <1>1, <1>5, <2>1 DEF Hanging
  <1> DEFINE f == [t \in Trunk \cup {s} |-> IF t = s THEN {h} \cup Path[p] ELSE Path[t]]
  <1>7. /\ Path = [t \in Trunk |-> IF t = Root THEN {} ELSE {nodes[t].hash} \cup Path[nodes[t].parent]]
        /\ \A t \in Trunk : Path[t] \in SUBSET Hash
        /\ \A t \in Trunk \ {Root} : nodes[t].parent \in Trunk /\ nodes[t].hash \notin Path[nodes[t].parent]
    BY <1>1 DEF Layered, Above
  <1>8. f[s] = {h} \cup Path[p] /\ \A t \in Trunk : f[t] = Path[t]
    BY <1>1
  <1>9. h \notin Path[p]
    <2> DEFINE B == {t \in Trunk : h \in Path[t]}
    <2>1. ASSUME NEW t \in B, t = Root \/ nodes[t].parent \notin B PROVE FALSE
      <3>1. t # Root /\ Path[t] = {nodes[t].hash} \cup Path[nodes[t].parent]
        BY <1>7
      <3>2. h = nodes[t].hash
        BY <1>7, <2>1, <3>1
      <3> QED BY <1>1, <1>3, <3>1, <3>2, TrunkSlots
    <2>2. B = {}
      <3>1. B \in SUBSET Trunk /\ Layered(nodes, Trunk, Path)
        BY <1>1
      <3> HIDE DEF B
      <3> QED BY <2>1, <3>1, TopSlot
    <2> QED BY <2>2
  <1>10. Layered(nodes', Trunk \cup {s}, f)
    <2>1. ASSUME NEW t \in Trunk \cup {s}
          PROVE  f[t] = IF t = Root THEN {} ELSE {nodes'[t].hash} \cup f[nodes'[t].parent]
      <3> HIDE DEF f
      <3>1. CASE t = s
        BY <1>1, <1>8, <3>1
      <3>2. CASE t # s
        <4>1. Path[t] = IF t = Root THEN {} ELSE {nodes[t].hash} \cup Path[nodes[t].parent]
          BY <1>7, <3>2
        <4>2. t # Root => nodes[t].parent \in Trunk
          BY <1>7, <3>2
        <4> QED BY <1>2, <1>8, <3>2, <4>1, <4>2
      <3> QED BY <3>1, <3>2
    <2>2. f = [t \in Trunk \cup {s} |-> f[t]]
      OBVIOUS
    <2> HIDE DEF f
    <2>3. Above(nodes', Trunk \cup {s}, f)
      BY <2>1, <2>2 DEF Above
    <2>4. \A t \in Trunk \cup {s} : f[t] \in SUBSET Hash
      BY <1>7, <1>8
    <2>5. \A t \in (Trunk \cup {s}) \ {Root} :
             nodes'[t].parent \in Trunk \cup {s} /\ nodes'[t].hash \notin f[nodes'[t].parent]
      <3>1. ASSUME NEW t \in Trunk \ {Root}
            PROVE  nodes'[t].parent \in Trunk /\ nodes'[t].hash \notin f[nodes'[t].parent]
        <4>1. nodes[t].parent \in Trunk /\ nodes[t].hash \notin Path[nodes[t].parent]
          BY <1>7
        <4>2. nodes'[t].parent = nodes[t].parent /\ nodes'[t].hash = nodes[t].hash
          BY <1>2
        <4>3. f[nodes[t].parent] = Path[nodes[t].parent]
          BY <1>8, <4>1
        <4> QED BY <4>1, <4>2, <4>3
      <3>2. nodes'[s].parent \in Trunk /\ nodes'[s].hash \notin f[nodes'[s].parent]
        BY <1>1, <1>8, <1>9
      <3> QED BY <3>1, <3>2
    <2> QED BY <2>3, <2>4, <2>5 DEF Layered
  <1> HIDE DEF f
  <1>11. Path' = f
    BY <1>1, <1>10, NextPathIs
  <1> QED BY <1>1, <1>6, <1>8, <1>10, <1>11

-----------------------------------------------------------------------------
(* Detaching and releasing. *)

\* The state after h was detached from slot s.
Cut(h, s) ==
  /\ s \in Trunk \ {Root} /\ nodes[s].hash = h /\ nodes[s].children = 0
  /\ h \in Live /\ index[h] = s
  /\ Slots' = Slots /\ nodes' = [t \in Slots |-> nodes'[t]]
  /\ Live' = Live \ {h} /\ Trunk' = Trunk \ {s}
  /\ Waiting = {} /\ Waiting' = {h} /\ detached'[h] = s
  /\ \A g \in Live \ {h} : index'[g] = index[g] /\ index[g] \in Trunk \ {s}
  /\ \A t \in Slots :
        /\ nodes'[t] \in Record
        /\ nodes'[t].hash = nodes[t].hash /\ nodes'[t].parent = nodes[t].parent
        /\ nodes'[t].children = IF t = nodes[s].parent THEN nodes[t].children - 1
                                ELSE nodes[t].children
        /\ nodes'[t].first = IF t = nodes[s].parent /\ nodes[s].previous = Invalid
                             THEN nodes[s].next ELSE nodes[t].first
        /\ nodes'[t].next = IF t # nodes[s].parent /\ t = nodes[s].previous
                            THEN nodes[s].next ELSE nodes[t].next
        /\ nodes'[t].previous = IF /\ t # nodes[s].parent /\ t # nodes[s].previous
                                   /\ t = nodes[s].next
                                THEN nodes[s].previous ELSE nodes[t].previous

\* detach_leaf() in the terms that the proofs use: one live record less.
LEMMA DetachFacts ==
  ASSUME Typed, Owned, NEW h \in Hash, Detach(h), NEW s, s = index[h]
  PROVE  Cut(h, s)
  <1>1. h \in Live /\ s \in Trunk \ {Root} /\ nodes[s].hash = h /\ nodes[s].children = 0 /\ s \in Slots
    <2>1. h \in Live /\ nodes[s].children = 0
      BY DEF Detach, Live
    <2> QED BY <2>1, TrunkSlots DEF Owned, Trunk, Standing
  <1>2. index' = [index EXCEPT ![h] = Invalid] /\ index \in [Hash -> Slots \cup {Invalid}]
    BY DEF Detach, Typed
  <1>3. index'[h] = Invalid /\ \A g \in Hash \ {h} : index'[g] = index[g]
    BY <1>2
  <1>4. Live' = Live \ {h}
    BY <1>3 DEF Live
  <1>5. \A g \in Live \ {h} : index'[g] = index[g] /\ index[g] \in Trunk \ {s}
    <2>1. \A g \in Live \ {h} : index[g] # s
      BY <1>1, TrunkSlots
    <2> QED BY <1>3, <2>1 DEF Trunk, Standing, Live
  <1>6. Trunk' = Trunk \ {s}
    BY <1>1, <1>4, <1>5 DEF Trunk, Standing
  <1> DEFINE w == nodes'
             r == nodes[s]
  <1>7. w = Unlinked(s)
    BY DEF Detach
  <1>8. /\ DOMAIN w = Slots /\ w = [t \in Slots |-> w[t]]
        /\ \A t \in Slots :
              /\ w[t] \in Record
              /\ w[t].hash = nodes[t].hash /\ w[t].parent = nodes[t].parent
              /\ w[t].children = IF t = r.parent THEN nodes[t].children - 1
                                 ELSE nodes[t].children
              /\ w[t].first = IF t = r.parent /\ r.previous = Invalid THEN r.next
                              ELSE nodes[t].first
              /\ w[t].next = IF t # r.parent /\ t = r.previous THEN r.next ELSE nodes[t].next
              /\ w[t].previous = IF t # r.parent /\ t # r.previous /\ t = r.next
                                 THEN r.previous ELSE nodes[t].previous
    <2> HIDE DEF w
    <2> QED BY <1>1, <1>7, UnlinkedRecords
  <1>9. Slots' = DOMAIN w
    BY DEF Slots
  <1>10. Waiting = {} /\ Waiting' = {h} /\ detached'[h] = s
    <2>1. s # Invalid
      BY <1>1, TrunkSlots DEF Invalid
    <2>2. /\ detached' = [detached EXCEPT ![h] = s] /\ \A g \in Hash : detached[g] = Invalid
          /\ detached \in [Hash -> Slots \cup {Invalid}]
      BY DEF Detach, Typed
    <2> QED BY <2>1, <2>2 DEF Waiting
  <1> QED BY <1>1, <1>4, <1>5, <1>6, <1>8, <1>9, <1>10 DEF Cut

\* Detaching keeps the types and the owners of slots: the slot waits.
LEMMA DetachSlots ==
  ASSUME Typed, Owned, NEW h \in Hash, Detach(h)
  PROVE  Typed' /\ Owned'
  <1>1. PICK s : s = index[h]
    OBVIOUS
  <1>2. Cut(h, s)
    BY <1>1, DetachFacts
  <1>3. /\ s \in Slots \ {Root} /\ nodes[s].hash = h /\ h \in Live
        /\ Slots' = Slots /\ nodes' = [t \in Slots |-> nodes'[t]]
        /\ Live' = Live \ {h} /\ \A g \in Live \ {h} : index'[g] = index[g] /\ index[g] \in Slots
        /\ \A t \in Slots : nodes'[t] \in Record /\ nodes'[t].hash = nodes[t].hash
    BY <1>2, TrunkSlots DEF Cut
  <1>4. /\ index' = [index EXCEPT ![h] = Invalid] /\ index \in [Hash -> Slots \cup {Invalid}]
        /\ detached' = [detached EXCEPT ![h] = s] /\ detached \in [Hash -> Slots \cup {Invalid}]
        /\ Waiting = {} /\ free' = free
        /\ \A i \in 1 .. Len(free) : free[i] \in Slots
    BY <1>1 DEF Detach, Typed, Waiting
  <1>5. Waiting' = {h} /\ detached'[h] = s
    BY <1>2 DEF Cut
  <1>6. Typed'
    <2>1. (\E n \in Nat : Slots = 0 .. n)'
      BY <1>3 DEF Typed
    <2>2. index' \in [Hash -> Slots' \cup {Invalid}] /\ detached' \in [Hash -> Slots' \cup {Invalid}]
      BY <1>3, <1>4
    <2>3. free' \in Seq(Slots')
      BY <1>3, <1>4 DEF Typed
    <2> QED BY <1>3, <2>1, <2>2, <2>3 DEF Typed
  <1>7. Used' = Used
    <2>1. {index'[g] : g \in Live'} = {index[g] : g \in Live \ {h}}
      BY <1>3
    <2>2. {detached'[g] : g \in Waiting'} = {s}
      BY <1>5
    <2>3. {index[g] : g \in Live} = {index[g] : g \in Live \ {h}} \cup {s}
      BY <1>1, <1>3
    <2> QED BY <1>4, <2>1, <2>2, <2>3 DEF Used, Standing
  <1>8. \A t \in Slots' \ {Root} : t \in Used' \/ \E i \in 1 .. Len(free') : free'[i] = t
    BY <1>3, <1>4, <1>7 DEF Owned
  <1>9. \A g \in Live' : index'[g] # Root /\ nodes'[index'[g]].hash = g
    BY <1>3 DEF Owned
  <1>10. \A g \in Waiting' : detached'[g] # Root /\ nodes'[detached'[g]].hash = g /\ g \notin Live'
    BY <1>3, <1>5
  <1>11. \A i \in 1 .. Len(free') : free'[i] # Root /\ nodes'[free'[i]].hash = NoHash
    BY <1>3, <1>4 DEF Owned
  <1>12. \A i, j \in 1 .. Len(free') : free'[i] = free'[j] => i = j
    BY <1>4 DEF Owned
  <1> QED BY <1>6, <1>8, <1>9, <1>10, <1>11, <1>12 DEF Owned

\* Detaching keeps the tree, less one block that is above no other.
LEMMA DetachTree ==
  ASSUME IInv, NEW h \in Hash, NEW s, Cut(h, s)
  PROVE  /\ Hanging' /\ Layered(nodes', Rooted', Path')
         /\ Path' = Path
         /\ \A t \in Trunk \ {s} : h \notin Path[t]
  <1> USE DEF IInv
  <1>1. /\ s \in Trunk \ {Root} /\ nodes[s].hash = h /\ h \in Live /\ index[h] = s
        /\ nodes[s].children = 0
        /\ Live' = Live \ {h} /\ Trunk' = Trunk \ {s}
        /\ \A g \in Live \ {h} : index'[g] = index[g] /\ index[g] \in Trunk \ {s}
        /\ Waiting = {} /\ Waiting' = {h} /\ detached'[h] = s
    BY DEF Cut
  <1>2. \A t \in Trunk : /\ nodes'[t].hash = nodes[t].hash /\ nodes'[t].parent = nodes[t].parent
                         /\ nodes'[t].children = IF t = nodes[s].parent THEN nodes[t].children - 1
                                                 ELSE nodes[t].children
    BY TrunkSlots DEF Cut
  <1>3. /\ Standing = Trunk \ {Root} /\ Standing' = Trunk' \ {Root} /\ Root \in Trunk
        /\ \A t \in Trunk \ {Root} : nodes[t].hash \in Live /\ index[nodes[t].hash] = t
        /\ Rooted = Trunk /\ Rooted' = Trunk /\ Used = Standing /\ Used' = Standing
    <2>1. Root \notin Standing /\ (Root \notin Standing)'
      BY <1>1, TrunkSlots DEF Standing
    <2>2. /\ Standing = Trunk \ {Root} /\ Standing' = Trunk' \ {Root} /\ Root \in Trunk
          /\ \A t \in Trunk \ {Root} : nodes[t].hash \in Live /\ index[nodes[t].hash] = t
      BY <2>1, TrunkSlots DEF Trunk, Standing
    <2>3. Rooted = Trunk /\ Used = Standing
      BY <1>1 DEF Rooted, Trunk, Used
    <2>4. Used' = Standing' \cup {s} /\ Rooted' = {Root} \cup Used'
      BY <1>1 DEF Rooted, Used
    <2> QED BY <1>1, <2>2, <2>3, <2>4
  <1>4. \A t \in Trunk : IsFiniteSet(Kids(t))
    <2>1. \A t \in Trunk : Kids(t) \subseteq Hash
      BY DEF Kids, Live
    <2> QED BY <2>1, RadixTreeAssumption, FS_Subset
  <1>5. \A g \in Live : nodes[index[g]].parent # s
    <2>1. Kids(s) = {}
      BY <1>1, <1>4, FS_EmptySet DEF Hanging
    <2> QED BY <2>1 DEF Kids
  <1>6. \A t \in Trunk \ {Root} : nodes[t].parent \in Trunk \ {s}
    <2>1. \A t \in Trunk \ {Root} : nodes[t].parent \in Trunk
      BY <1>3 DEF Hanging
    <2>2. \A t \in Trunk \ {Root} : nodes[t].parent # s
      BY <1>3, <1>5
    <2> QED BY <2>1, <2>2
  <1>7. \A g \in Live' : nodes'[index'[g]].parent = nodes[index[g]].parent
    BY <1>1, <1>2
  <1>8. ASSUME NEW t \in Trunk' PROVE nodes'[t].children = Cardinality(Kids(t)')
    <2>1. CASE t = nodes[s].parent
      <3>1. Kids(t)' = Kids(t) \ {h}
        BY <1>1, <1>7 DEF Kids
      <3>2. h \in Kids(t)
        BY <1>1, <2>1 DEF Kids
      <3>3. Cardinality(Kids(t)') = Cardinality(Kids(t)) - 1
        <4>1. IsFiniteSet(Kids(t))
          BY <1>1, <1>4
        <4>2. Cardinality(Kids(t) \ {h}) = Cardinality(Kids(t)) - 1
          BY <3>2, <4>1, FS_RemoveElement
        <4> QED BY <3>1, <4>2
      <3> QED BY <1>1, <1>2, <2>1, <3>3 DEF Hanging
    <2>2. CASE t # nodes[s].parent
      <3>1. Kids(t)' = Kids(t)
        BY <1>1, <1>7, <2>2 DEF Kids
      <3> QED BY <1>1, <1>2, <2>2, <3>1 DEF Hanging
    <2> QED BY <2>1, <2>2
  <1>9. Hanging'
    <2>1. \A t \in Standing : nodes'[t].parent \in Trunk'
      BY <1>1, <1>2, <1>3, <1>6
    <2> QED BY <1>3, <1>8, <2>1 DEF Hanging
  <1>10. /\ Path = [t \in Trunk |-> IF t = Root THEN {} ELSE {nodes[t].hash} \cup Path[nodes[t].parent]]
         /\ \A t \in Trunk : Path[t] \in SUBSET Hash
         /\ \A t \in Trunk \ {Root} : nodes[t].hash \notin Path[nodes[t].parent]
    BY <1>3 DEF Layered, Above
  <1>11. Layered(nodes', Trunk, Path)
    <2>1. ASSUME NEW t \in Trunk
          PROVE  Path[t] = IF t = Root THEN {} ELSE {nodes'[t].hash} \cup Path[nodes'[t].parent]
      <3>1. Path[t] = IF t = Root THEN {} ELSE {nodes[t].hash} \cup Path[nodes[t].parent]
        BY <1>10
      <3> QED BY <1>2, <3>1
    <2>2. Path = [t \in Trunk |-> Path[t]]
      BY <1>10
    <2>3. Above(nodes', Trunk, Path)
      BY <2>1, <2>2 DEF Above
    <2>4. \A t \in Trunk \ {Root} :
             nodes'[t].parent \in Trunk /\ nodes'[t].hash \notin Path[nodes'[t].parent]
      BY <1>2, <1>6, <1>10
    <2> QED BY <1>10, <2>3, <2>4 DEF Layered
  <1>12. ASSUME NEW t \in Trunk \ {s} PROVE h \notin Path[t]
    <2> DEFINE B == {u \in Trunk \ {s} : h \in Path[u]}
    <2>1. ASSUME NEW u \in B, u = Root \/ nodes[u].parent \notin B PROVE FALSE
      <3>1. u # Root /\ Path[u] = {nodes[u].hash} \cup Path[nodes[u].parent]
        BY <1>10
      <3>2. h = nodes[u].hash
        BY <1>6, <2>1, <3>1
      <3> QED BY <1>1, <1>3, <3>1, <3>2
    <2>2. B = {}
      <3>1. B \in SUBSET Trunk /\ Layered(nodes, Trunk, Path)
        BY <1>3
      <3> HIDE DEF B
      <3> QED BY <2>1, <3>1, TopSlot
    <2> QED BY <2>2
  <1>13. Path' = Path
    BY <1>3, <1>11, NextPathIs
  <1> QED BY <1>3, <1>9, <1>11, <1>12, <1>13

\* Releasing frees the slot of a detached node, which no other one owns.
LEMMA ReleaseSlots ==
  ASSUME Typed, Owned, NEW h \in Hash, Release(h)
  PROVE  /\ Typed' /\ Owned'
         /\ Live' = Live /\ index' = index /\ Waiting' \subseteq Waiting
         /\ Trunk' = Trunk /\ Rooted' \subseteq Rooted
         /\ \A t \in Rooted' : nodes'[t] = nodes[t]
         /\ Used' \subseteq Used
  <1> DEFINE s == detached[h]
  <1>1. /\ h \in Waiting /\ s \in Slots /\ s # Root /\ nodes[s].hash = h /\ h \notin Live
        /\ index' = index /\ Live' = Live /\ Standing' = Standing /\ Trunk' = Trunk
    <2>1. h \in Waiting /\ s \in Slots /\ index' = index
      BY DEF Release, Waiting, Typed
    <2> QED BY <2>1 DEF Owned, Live, Standing, Trunk
  <1>2. /\ nodes' = [nodes EXCEPT ![s] = NodeRecord] /\ free' = Append(free, s)
        /\ detached' = [detached EXCEPT ![h] = Invalid]
        /\ detached \in [Hash -> Slots \cup {Invalid}]
    BY DEF Release, Typed
  <1> HIDE DEF s
  <1>3. /\ Slots' = Slots /\ nodes' = [t \in Slots |-> nodes'[t]]
        /\ nodes'[s] = NodeRecord /\ \A t \in Slots \ {s} : nodes'[t] = nodes[t]
    <2>1. nodes = [t \in Slots |-> nodes[t]]
      BY DEF Typed
    <2> QED BY <1>1, <1>2, <2>1 DEF Slots
  <1>4. /\ Waiting' = Waiting \ {h}
        /\ \A g \in Hash \ {h} : detached'[g] = detached[g]
    BY <1>2 DEF Waiting
  <1>5. /\ \A g \in Live : index[g] \in Slots \ {s}
        /\ \A g \in Waiting \ {h} : detached[g] \in Slots \ {s}
    <2>1. \A g \in Live : index[g] \in Slots
      BY DEF Typed, Live
    <2>2. \A g \in Waiting : detached[g] \in Slots
      BY DEF Typed, Waiting
    <2> QED BY <1>1, <2>1, <2>2 DEF Owned
  <1>6. Used' = Used \ {s} /\ s \in Used
    <2>1. Used' = Standing \cup {detached[g] : g \in Waiting \ {h}}
      BY <1>1, <1>4 DEF Used, Waiting
    <2>2. Used = Standing \cup {detached[g] : g \in Waiting \ {h}} \cup {s}
      BY <1>1 DEF Used, s
    <2> QED BY <1>5, <2>1, <2>2 DEF Standing
  <1> DEFINE n == Len(free)
  <1>7. /\ n \in Nat /\ free' \in Seq(Slots) /\ Len(free') = n + 1 /\ free'[n + 1] = s
        /\ \A i \in 1 .. n : free'[i] = free[i] /\ free[i] \in Slots
    BY <1>1, <1>2 DEF Typed
  <1> HIDE DEF n
  <1>8. \A i \in 1 .. n + 1 : i = n + 1 \/ i \in 1 .. n
    BY <1>7
  <1>9. \A i \in 1 .. n : free[i] # s
    <2>1. h # NoHash
      BY RadixTreeAssumption DEF NoHash
    <2> QED BY <1>1, <2>1 DEF Owned, n
  <1>10. Typed'
    <2>1. NodeRecord \in Record
      <3>1. Invalid \in Int
        BY DEF Invalid
      <3> QED BY <3>1 DEF NodeRecord, Record
    <2>2. \A t \in Slots : nodes'[t] \in Record
      BY <1>3, <2>1 DEF Typed
    <2>3. detached' \in [Hash -> Slots \cup {Invalid}] /\ index' \in [Hash -> Slots \cup {Invalid}]
      BY <1>1, <1>2 DEF Typed
    <2>4. (\E m \in Nat : Slots = 0 .. m)'
      BY <1>3 DEF Typed
    <2> QED BY <1>3, <1>7, <2>2, <2>3, <2>4 DEF Typed
  <1>11. \A g \in Live' : index'[g] # Root /\ nodes'[index'[g]].hash = g
    BY <1>1, <1>3, <1>5 DEF Owned
  <1>12. \A g \in Waiting' : detached'[g] # Root /\ nodes'[detached'[g]].hash = g /\ g \notin Live'
    <2>1. \A g \in Waiting' : g \in Waiting \ {h} /\ detached'[g] = detached[g]
      BY <1>4 DEF Waiting
    <2> QED BY <1>1, <1>3, <1>5, <2>1 DEF Owned
  <1>13. \A i \in 1 .. Len(free') : free'[i] # Root /\ nodes'[free'[i]].hash = NoHash
    <2>1. \A i \in 1 .. n : free[i] # Root /\ nodes[free[i]].hash = NoHash
      BY DEF Owned, n
    <2>2. NodeRecord.hash = NoHash
      BY DEF NodeRecord
    <2> QED BY <1>1, <1>3, <1>7, <1>8, <1>9, <2>1, <2>2
  <1>14. \A i, j \in 1 .. Len(free') : free'[i] = free'[j] => i = j
    <2>1. \A i, j \in 1 .. n : free[i] = free[j] => i = j
      BY DEF Owned, n
    <2> QED BY <1>7, <1>8, <1>9, <2>1
  <1>15. \A t \in Slots' \ {Root} : t \in Used' \/ \E i \in 1 .. Len(free') : free'[i] = t
    <2> SUFFICES ASSUME NEW t \in Slots \ {Root}, t \notin Used \ {s}
                 PROVE  \E i \in 1 .. n + 1 : free'[i] = t
      BY <1>3, <1>6, <1>7
    <2>1. CASE t = s
      BY <1>7, <2>1
    <2>2. CASE t # s
      <3>1. PICK i \in 1 .. n : free[i] = t
        BY <2>2 DEF Owned, n
      <3>2. i \in 1 .. n + 1
        BY <1>7
      <3> QED BY <1>7, <3>1, <3>2
    <2> QED BY <2>1, <2>2
  <1>16. Owned'
    BY <1>11, <1>12, <1>13, <1>14, <1>15 DEF Owned
  <1>17. Rooted' = Rooted \ {s} /\ Rooted \subseteq Slots
    <2>1. Used \subseteq Slots
      BY DEF Typed, Used, Standing, Live, Waiting
    <2> QED BY <1>1, <1>6, <2>1, TrunkSlots DEF Rooted
  <1> QED BY <1>1, <1>3, <1>4, <1>6, <1>10, <1>16, <1>17

\* Releasing changes no live node, and no path.
LEMMA ReleaseTree ==
  ASSUME IInv, NEW h \in Hash, Release(h)
  PROVE  /\ Hanging' /\ Layered(nodes', Rooted', Path')
         /\ \A t \in Trunk : Path'[t] = Path[t]
  <1> USE DEF IInv
  <1>1. /\ Live' = Live /\ index' = index /\ Trunk' = Trunk /\ Rooted' \subseteq Rooted
        /\ Used' \subseteq Used /\ \A t \in Rooted' : nodes'[t] = nodes[t]
    BY ReleaseSlots
  <1>2. /\ Trunk \subseteq Rooted' /\ Used' \subseteq Rooted' /\ \A g \in Live : index[g] \in Trunk
        /\ Rooted = {Root} \cup Used /\ Rooted' = {Root} \cup Used'
    BY <1>1 DEF Trunk, Rooted, Used, Standing
  <1>3. \A t \in Trunk : Kids(t)' = Kids(t)
    BY <1>1, <1>2 DEF Kids
  <1>4. Hanging'
    BY <1>1, <1>2, <1>3 DEF Hanging
  <1> DEFINE f == [t \in Rooted' |-> Path[t]]
  <1>5. /\ Path = [t \in Rooted |-> IF t = Root THEN {} ELSE {nodes[t].hash} \cup Path[nodes[t].parent]]
        /\ \A t \in Rooted : Path[t] \in SUBSET Hash
        /\ \A t \in Rooted \ {Root} : nodes[t].hash \notin Path[nodes[t].parent]
    BY DEF Layered, Above
  <1>6. \A t \in Rooted' \ {Root} : nodes[t].parent \in Rooted'
    BY <1>1, <1>2 DEF Hanging
  <1>7. Layered(nodes', Rooted', f)
    <2>1. f = [t \in Rooted' |-> f[t]] /\ \A t \in Rooted' : f[t] = Path[t]
      OBVIOUS
    <2> HIDE DEF f
    <2>2. ASSUME NEW t \in Rooted'
          PROVE  f[t] = IF t = Root THEN {} ELSE {nodes'[t].hash} \cup f[nodes'[t].parent]
      <3>1. Path[t] = IF t = Root THEN {} ELSE {nodes[t].hash} \cup Path[nodes[t].parent]
        BY <1>1, <1>5
      <3> QED BY <1>1, <1>6, <2>1, <3>1
    <2>3. Above(nodes', Rooted', f)
      BY <2>1, <2>2 DEF Above
    <2>4. \A t \in Rooted' \ {Root} :
             nodes'[t].parent \in Rooted' /\ nodes'[t].hash \notin f[nodes'[t].parent]
      BY <1>1, <1>5, <1>6, <2>1
    <2> QED BY <1>1, <1>5, <2>1, <2>3, <2>4 DEF Layered
  <1> HIDE DEF f
  <1>8. Path' = f
    BY <1>7, NextPathIs
  <1>9. \A t \in Trunk : f[t] = Path[t]
    BY <1>2 DEF f
  <1> QED BY <1>4, <1>7, <1>8, <1>9

-----------------------------------------------------------------------------
(* The invariant holds. *)

\* The empty tree satisfies the invariant.
LEMMA InitInv == Init => IInv
  <1> SUFFICES ASSUME Init PROVE IInv
    OBVIOUS
  <1>1. /\ nodes = [s \in {Root} |-> NodeRecord] /\ Slots = {Root}
        /\ index = [h \in Hash |-> Invalid] /\ detached = [h \in Hash |-> Invalid] /\ free = <<>>
    BY DEF Init, Slots
  <1>2. /\ Live = {} /\ Waiting = {} /\ Used = {} /\ Standing = {} /\ Trunk = {Root}
        /\ Rooted = {Root}
    BY <1>1 DEF Live, Waiting, Used, Standing, Trunk, Rooted
  <1>3. NodeRecord \in Record /\ NodeRecord.children = 0
    <2>1. Invalid \in Int
      BY DEF Invalid
    <2> QED BY <2>1 DEF NodeRecord, Record
  <1>4. Typed
    <2>1. {Root} = 0 .. 0 /\ 0 \in Nat
      BY DEF Root
    <2>2. \E n \in Nat : Slots = 0 .. n
      BY <1>1, <2>1
    <2>3. <<>> \in Seq(Slots)
      OBVIOUS
    <2> QED BY <1>1, <1>3, <2>2, <2>3 DEF Typed
  <1>5. Owned
    <2>1. Len(free) = 0
      BY <1>1
    <2> QED BY <1>1, <1>2, <2>1 DEF Owned
  <1>6. Hanging
    <2>1. Kids(Root) = {}
      BY <1>2 DEF Kids
    <2>2. nodes[Root].children = Cardinality(Kids(Root))
      BY <1>1, <1>3, <2>1, FS_EmptySet
    <2> QED BY <1>2, <2>2 DEF Hanging
  <1> DEFINE f == [s \in {Root} |-> {}]
  <1>7. Layered(nodes, Rooted, f)
    <2>1. f = [s \in {Root} |-> IF s = Root THEN {} ELSE {nodes[s].hash} \cup f[nodes[s].parent]]
      OBVIOUS
    <2>2. f[Root] = {}
      OBVIOUS
    <2> HIDE DEF f
    <2> QED BY <1>2, <2>1, <2>2 DEF Layered, Above
  <1>8. Path = f
    <2> HIDE DEF f
    <2> QED BY <1>7, PathIs
  <1> QED BY <1>4, <1>5, <1>6, <1>7, <1>8 DEF IInv

\* Creating, detaching and releasing keep the invariant.
LEMMA NextInv == IInv /\ [Next]_vars => IInv'
  <1> SUFFICES ASSUME IInv, [Next]_vars PROVE IInv'
    OBVIOUS
  <1>1. ASSUME NEW h \in Hash, NEW p \in Trunk, Create(h, p) PROVE IInv'
    <2>1. PICK s : s = NewSlot
      OBVIOUS
    <2>2. Created(h, p, s)
      BY <1>1, <2>1, CreateFacts DEF IInv
    <2>3. Typed' /\ Owned'
      BY <1>1, CreateSlots DEF IInv
    <2>4. Hanging' /\ Layered(nodes', Rooted', Path')
      BY <2>2, CreateTree
    <2> QED BY <2>3, <2>4 DEF IInv
  <1>2. ASSUME NEW h \in Hash, Detach(h) PROVE IInv'
    <2>1. PICK s : s = index[h]
      OBVIOUS
    <2>2. Cut(h, s)
      BY <1>2, <2>1, DetachFacts DEF IInv
    <2>3. Typed' /\ Owned'
      BY <1>2, DetachSlots DEF IInv
    <2>4. Hanging' /\ Layered(nodes', Rooted', Path')
      BY <2>2, DetachTree
    <2> QED BY <2>3, <2>4 DEF IInv
  <1>3. ASSUME NEW h \in Hash, Release(h) PROVE IInv'
    <2>1. Typed' /\ Owned'
      BY <1>3, ReleaseSlots DEF IInv
    <2>2. Hanging' /\ Layered(nodes', Rooted', Path')
      BY <1>3, ReleaseTree
    <2> QED BY <2>1, <2>2 DEF IInv
  <1>4. CASE UNCHANGED vars
    <2>1. /\ nodes' = nodes /\ index' = index /\ detached' = detached /\ free' = free
      BY <1>4 DEF vars
    <2>2. /\ Slots' = Slots /\ Live' = Live /\ Waiting' = Waiting /\ Standing' = Standing
          /\ Used' = Used /\ Trunk' = Trunk /\ Rooted' = Rooted
      BY <2>1 DEF Slots, Live, Waiting, Standing, Used, Trunk, Rooted
    <2>3. Typed' /\ Owned'
      BY <2>1, <2>2 DEF IInv, Typed, Owned
    <2>4. Hanging'
      <3>1. \A s : Kids(s)' = Kids(s)
        BY <2>1, <2>2 DEF Kids
      <3> QED BY <2>1, <2>2, <3>1 DEF IInv, Hanging
    <2>5. Layered(nodes', Rooted', Path)
      BY <2>1, <2>2 DEF IInv
    <2>6. Path' = Path
      BY <2>5, NextPathIs
    <2> QED BY <2>3, <2>4, <2>5, <2>6 DEF IInv
  <1>5. Next <=> \/ \E h \in Hash, p \in Trunk : Create(h, p)
                 \/ \E h \in Hash : Detach(h) \/ Release(h)
    BY DEF Next, Trunk
  <1> QED BY <1>1, <1>2, <1>3, <1>4, <1>5

\* The invariant of the slots, the links and the climb holds in every state.
LEMMA Invariance == Spec => []IInv
  BY InitInv, NextInv, PTL DEF Spec

-----------------------------------------------------------------------------
(* Results. *)

\* A map of different owners to their slots is as large as they are many.
LEMMA Owners ==
  ASSUME NEW S \in SUBSET Hash, NEW f, \A g, h \in S : f[g] = f[h] => g = h
  PROVE  /\ IsFiniteSet({f[h] : h \in S})
         /\ Cardinality({f[h] : h \in S}) = Cardinality(S)
         /\ IsFiniteSet(S)
  <1> DEFINE F == {f[h] : h \in S}
             b == [h \in S |-> f[h]]
  <1>1. IsFiniteSet(S)
    BY RadixTreeAssumption, FS_Subset
  <1>2. b \in Bijection(S, F)
    <2>1. b \in [S -> F] /\ \A y \in F : \E h \in S : b[h] = y
      OBVIOUS
    <2>2. \A g, h \in S : b[g] = b[h] => g = h
      OBVIOUS
    <2> QED BY <2>1, <2>2 DEF Bijection, Injection, Surjection, IsInjective
  <1> QED BY <1>1, <1>2, FS_Bijection DEF ExistsBijection

\* The invariant gives every slot its one owner.
LEMMA SlotsCounted == IInv => SlotsExact
  <1> SUFFICES ASSUME IInv PROVE SlotsExact
    OBVIOUS
  <1> USE DEF IInv
  <1> DEFINE D == {detached[h] : h \in Waiting}
             F == {free[i] : i \in 1 .. Len(free)}
  <1>1. Len(free) \in Nat /\ DOMAIN free = 1 .. Len(free)
        /\ \A i \in 1 .. Len(free) : free[i] \in Slots
    BY DEF Typed
  <1>2. /\ IsFiniteSet(Standing) /\ Cardinality(Standing) = Cardinality(Live)
        /\ IsFiniteSet(Live)
    <2>1. Live \in SUBSET Hash /\ \A g, h \in Live : index[g] = index[h] => g = h
      BY TrunkSlots DEF Live
    <2> QED BY <2>1, Owners DEF Standing
  <1>3. IsFiniteSet(D) /\ Cardinality(D) = Cardinality(Waiting) /\ IsFiniteSet(Waiting)
    <2>1. Waiting \in SUBSET Hash /\ \A g, h \in Waiting : detached[g] = detached[h] => g = h
      BY DEF Waiting, Owned
    <2> QED BY <2>1, Owners
  <1>4. Standing \cap D = {} /\ Used = Standing \cup D
    BY DEF Owned, Standing, Used
  <1>5. /\ IsFiniteSet(Used)
        /\ Cardinality(Live) + Cardinality(Waiting) = Cardinality(Used)
    <2> HIDE DEF D
    <2>1. IsFiniteSet(Used) /\ Cardinality(Used) = Cardinality(Standing) + Cardinality(D)
                                                      - Cardinality(Standing \cap D)
      BY <1>2, <1>3, <1>4, FS_Union
    <2>2. Cardinality(Standing) \in Nat /\ Cardinality(D) \in Nat /\ Cardinality(Standing \cap D) = 0
      BY <1>2, <1>3, <1>4, FS_CardinalityType, FS_EmptySet
    <2> QED BY <1>2, <1>3, <2>1, <2>2
  <1>6. IsFiniteSet(F) /\ Cardinality(F) = Len(free)
    <2> DEFINE b == [i \in 1 .. Len(free) |-> free[i]]
    <2>1. b \in Bijection(1 .. Len(free), F)
      <3>1. b \in [1 .. Len(free) -> F] /\ \A y \in F : \E i \in 1 .. Len(free) : b[i] = y
        OBVIOUS
      <3>2. \A i, j \in 1 .. Len(free) : b[i] = b[j] => i = j
        BY DEF Owned
      <3> QED BY <3>1, <3>2 DEF Bijection, Injection, Surjection, IsInjective
    <2> HIDE DEF F
    <2>2. IsFiniteSet(1 .. Len(free)) /\ Cardinality(1 .. Len(free)) = Len(free)
      BY <1>1, FS_Interval
    <2> QED BY <2>1, <2>2, FS_Bijection DEF ExistsBijection
  <1>7. Used \cap F = {}
    <2>1. \A s \in Used : nodes[s].hash \in Hash
      BY DEF Owned, Used, Standing, Live, Waiting
    <2>2. NoHash \notin Hash
      BY RadixTreeAssumption DEF NoHash
    <2> QED BY <2>1, <2>2 DEF Owned
  <1>8. Used \cup F = Slots \ {Root}
    <2>1. Used \subseteq Slots \ {Root}
      <3>1. \A h \in Live : index[h] \in Slots /\ index[h] # Root
        BY TrunkSlots DEF Owned, Trunk, Standing
      <3>2. \A h \in Waiting : detached[h] \in Slots
        BY DEF Typed, Waiting
      <3>3. \A h \in Waiting : detached[h] # Root
        BY DEF Owned
      <3> QED BY <3>1, <3>2, <3>3 DEF Used, Standing
    <2>2. F \subseteq Slots \ {Root}
      BY <1>1 DEF Owned
    <2>3. \A s \in Slots \ {Root} : s \in Used \/ s \in F
      BY DEF Owned
    <2> QED BY <2>1, <2>2, <2>3
  <1>9. Cardinality(Used) + Len(free) = Cardinality(Slots) - 1
    <2> HIDE DEF F
    <2>1. Cardinality(Used \cup F) = Cardinality(Used) + Cardinality(F) - Cardinality(Used \cap F)
      BY <1>5, <1>6, FS_Union
    <2>2. Cardinality(Used \cap F) = 0 /\ Cardinality(Used) \in Nat
      BY <1>5, <1>7, FS_EmptySet, FS_CardinalityType
    <2>3. IsFiniteSet(Slots) /\ Cardinality(Slots) \in Nat
      <3>1. PICK n \in Nat : Slots = 0 .. n
        BY DEF Typed
      <3>2. IsFiniteSet(0 .. n)
        BY FS_Interval
      <3> QED BY <3>1, <3>2, FS_CardinalityType
    <2>4. Cardinality(Slots \ {Root}) = Cardinality(Slots) - 1
      BY <2>3, TrunkSlots, FS_RemoveElement
    <2>5. Cardinality(Used \cup F) = Cardinality(Slots) - 1
      BY <1>8, <2>4
    <2> QED BY <1>1, <1>6, <2>1, <2>2, <2>3, <2>5
  <1>10. \A h \in Live : nodes[index[h]].hash = h
    BY DEF Owned
  <1> QED BY <1>1, <1>5, <1>8, <1>9, <1>10 DEF SlotsExact

\* Every slot has one owner: a live node, a detached one whose policies are
\* still being told, or the free list, whatever slots were used again.
THEOREM SlotsOwnedOnce == Spec => []SlotsExact
  BY Invariance, SlotsCounted, PTL

\* The nodes of the tree are the live ones, and each has its path.
LEMMA Climbs ==
  ASSUME IInv
  PROVE  /\ Tree!Nodes = Live
         /\ \A h \in Live : Ancestors[h] = Path[index[h]] /\ h \in Path[index[h]]
         /\ \A h \in Hash \ Live : Ancestors[h] = {}
         /\ Path[Root] = {} /\ Ancestors = [h \in Hash |-> Ancestors[h]]
  <1>1. \A h \in Live : index[h] \in Rooted \ {Root} /\ nodes[index[h]].hash = h
    BY DEF IInv, Owned, Rooted, Used, Standing
  <1>2. /\ Path[Root] = {}
        /\ \A h \in Live : Path[index[h]] = {h} \cup Path[nodes[index[h]].parent]
    <2>1. /\ Path = [s \in Rooted |-> IF s = Root THEN {}
                                     ELSE {nodes[s].hash} \cup Path[nodes[s].parent]]
          /\ Root \in Rooted
      BY DEF IInv, Layered, Above, Rooted
    <2>2. \A s \in Rooted : Path[s] = IF s = Root THEN {}
                                      ELSE {nodes[s].hash} \cup Path[nodes[s].parent]
      BY <2>1
    <2> QED BY <1>1, <2>1, <2>2
  <1>3. /\ \A h \in Live : Ancestors[h] = Path[index[h]]
        /\ \A h \in Hash \ Live : Ancestors[h] = {}
    BY DEF Ancestors, Live
  <1>4. Tree!Nodes = Live
    BY <1>2, <1>3 DEF Tree!Nodes, Live
  <1> QED BY <1>2, <1>3, <1>4 DEF Ancestors

\* Creation grows the tree of ancestors by a leaf, detaching takes one, releasing is a stutter.
LEMMA TreeStep == IInv /\ IInv' /\ [Next]_vars => [Tree!Grow \/ Tree!Shrink]_Ancestors
  <1> SUFFICES ASSUME IInv, IInv', [Next]_vars PROVE [Tree!Grow \/ Tree!Shrink]_Ancestors
    OBVIOUS
  <1>0. /\ Tree!Nodes = Live /\ Ancestors = [h \in Hash |-> Ancestors[h]]
        /\ \A h \in Live : Ancestors[h] = Path[index[h]]
        /\ \A h \in Hash \ Live : Ancestors[h] = {}
        /\ Path[Root] = {}
    BY Climbs
  <1>9. /\ \A h \in Live' : Ancestors'[h] = Path'[index'[h]]
        /\ \A h \in Hash \ Live' : Ancestors'[h] = {}
        /\ Ancestors' = [h \in Hash |-> Ancestors'[h]]
    BY DEF Ancestors, Live
  <1>1. ASSUME NEW h \in Hash, NEW p \in Trunk, Create(h, p) PROVE Tree!Grow
    <2>1. PICK s : s = NewSlot
      OBVIOUS
    <2>2. Created(h, p, s)
      BY <1>1, <2>1, CreateFacts DEF IInv
    <2>3. /\ h \notin Live /\ Live' = Live \cup {h} /\ s \notin Trunk
          /\ index'[h] = s /\ \A g \in Live : index'[g] = index[g] /\ index[g] \in Trunk
      BY <2>2 DEF Created, Trunk, Standing
    <2>4. Path'[s] = {h} \cup Path[p] /\ \A t \in Trunk : Path'[t] = Path[t]
      BY <2>2, CreateTree
    <2>5. PICK q \in Live \cup {NoHash} :
             Path[p] = IF q = NoHash THEN {} ELSE Ancestors[q]
      <3>1. CASE p = Root
        BY <1>0, <3>1
      <3>2. CASE p # Root
        <4>1. PICK q \in Live : index[q] = p
          BY <3>2 DEF Trunk, Standing
        <4>2. q # NoHash
          BY RadixTreeAssumption DEF Live, NoHash
        <4> QED BY <1>0, <4>1, <4>2
      <3> QED BY <3>1, <3>2
    <2>6. Ancestors' = [Ancestors EXCEPT ![h] = {h} \cup (IF q = NoHash THEN {} ELSE Ancestors[q])]
      <3>1. Ancestors'[h] = {h} \cup (IF q = NoHash THEN {} ELSE Ancestors[q])
        BY <1>9, <2>3, <2>4, <2>5
      <3>2. ASSUME NEW g \in Hash \ {h} PROVE Ancestors'[g] = Ancestors[g]
        <4>1. CASE g \in Live
          <5>1. g \in Live' /\ index'[g] = index[g] /\ index[g] \in Trunk
            BY <2>3, <4>1
          <5>2. Ancestors'[g] = Path'[index[g]] /\ Ancestors[g] = Path[index[g]]
            BY <1>0, <1>9, <4>1, <5>1
          <5> QED BY <2>4, <5>1, <5>2
        <4>2. CASE g \notin Live
          BY <1>0, <1>9, <2>3, <4>2
        <4> QED BY <4>1, <4>2
      <3> QED BY <1>0, <1>9, <3>1, <3>2, Zenon
    <2>7. h \in Hash \ Tree!Nodes /\ q \in Tree!Nodes \cup {0}
      BY <1>0, <2>3 DEF NoHash
    <2> QED BY <2>6, <2>7 DEF Tree!Grow, Tree!Grown, Tree!NoNode, NoHash
  <1>2. ASSUME NEW h \in Hash, Detach(h) PROVE Tree!Shrink
    <2>1. PICK s : s = index[h]
      OBVIOUS
    <2>2. Cut(h, s)
      BY <1>2, <2>1, DetachFacts DEF IInv
    <2>3. /\ h \in Live /\ index[h] = s /\ Live' = Live \ {h}
          /\ \A g \in Live \ {h} : index'[g] = index[g] /\ index[g] \in Trunk \ {s}
      BY <2>2 DEF Cut
    <2>4. Path' = Path /\ \A t \in Trunk \ {s} : h \notin Path[t]
      BY <2>2, DetachTree
    <2>5. \A g \in Hash \ {h} : Ancestors'[g] = Ancestors[g] /\ h \notin Ancestors[g]
      <3> SUFFICES ASSUME NEW g \in Hash \ {h}
                   PROVE  Ancestors'[g] = Ancestors[g] /\ h \notin Ancestors[g]
        OBVIOUS
      <3>1. CASE g \in Live
        <4>1. /\ g \in Live \ {h} /\ g \in Live' /\ index'[g] = index[g]
              /\ index[g] \in Trunk \ {s}
          BY <2>3, <3>1
        <4>2. Ancestors'[g] = Path'[index'[g]] /\ Ancestors[g] = Path[index[g]]
          BY <1>0, <1>9, <4>1
        <4> QED BY <2>4, <4>1, <4>2
      <3>2. CASE g \notin Live
        BY <1>0, <1>9, <2>3, <3>2
      <3> QED BY <3>1, <3>2
    <2>6. Ancestors' = [Ancestors EXCEPT ![h] = {}]
      <3>1. Ancestors'[h] = {}
        BY <1>9, <2>3
      <3> QED BY <1>0, <1>9, <2>5, <3>1, Zenon
    <2>7. Tree!Below(h) = {}
      BY <2>5 DEF Tree!Below, Tree!Subtree
    <2> QED BY <1>0, <2>3, <2>6, <2>7 DEF Tree!Shrink, Tree!Shrunk
  <1>3. ASSUME NEW h \in Hash, Release(h) PROVE Ancestors' = Ancestors
    <2>1. Live' = Live /\ index' = index
      BY <1>3, ReleaseSlots DEF IInv
    <2>2. \A t \in Trunk : Path'[t] = Path[t]
      BY <1>3, ReleaseTree
    <2>3. \A g \in Live : index[g] \in Trunk
      BY DEF Trunk, Standing
    <2>4. \A g \in Hash : Ancestors'[g] = Ancestors[g]
      BY <1>0, <1>9, <2>1, <2>2, <2>3
    <2> QED BY <1>0, <1>9, <2>4
  <1>4. CASE UNCHANGED vars
    <2>1. nodes' = nodes /\ index' = index /\ Rooted' = Rooted /\ Live' = Live
      BY <1>4 DEF vars, Rooted, Used, Standing, Waiting, Live
    <2>2. Layered(nodes', Rooted', Path)
      BY <2>1 DEF IInv
    <2>3. Path' = Path
      BY <2>2, NextPathIs
    <2> QED BY <2>1, <2>3 DEF Ancestors
  <1>5. Next <=> \/ \E h \in Hash, p \in Trunk : Create(h, p)
                 \/ \E h \in Hash : Detach(h) \/ Release(h)
    BY DEF Next, Trunk
  <1> QED BY <1>1, <1>2, <1>3, <1>4, <1>5

\* Whatever slots are used again and in whatever order siblings are linked, the
\* records are a tree of blocks that grows below a node and loses leaves.
THEOREM TreeImplemented == Spec => ImplementsTree
  <1>1. Init => Tree!TreeInit
    <2> SUFFICES ASSUME Init PROVE Tree!TreeInit
      OBVIOUS
    <2>1. \A h \in Hash : index[h] = Invalid
      BY DEF Init
    <2> QED BY <2>1 DEF Tree!TreeInit, Ancestors, Live
  <1> QED BY <1>1, Invariance, TreeStep, PTL DEF Spec, ImplementsTree, Tree!TreeSpec

-----------------------------------------------------------------------------
(* Siblings.                                                               *)

Ends == Standing \cup {Invalid}

\* f gives the blocks from each slot of st to the end of its siblings, and no
\* block comes twice.
Along(nd, st, f) ==
    f = [s \in st |-> IF s = Invalid THEN {} ELSE {nd[s].hash} \cup f[nd[s].next]]
Chained(nd, st, f) ==
    /\ Along(nd, st, f)
    /\ \A s \in st : f[s] \in SUBSET Hash
    /\ \A s \in st \ {Invalid} : nd[s].next \in st /\ nd[s].hash \notin f[nd[s].next]

\* The siblings from the first child on are the children, and the links of the
\* live nodes lead back and forth.
Linking ==
    /\ \A p \in Trunk :
          /\ nodes[p].first \in Ends /\ Siblings[nodes[p].first] = Kids(p)
          /\ nodes[p].first # Invalid => nodes[nodes[p].first].previous = Invalid
    /\ \A s \in Standing :
          /\ nodes[s].next # Invalid => /\ nodes[nodes[s].next].parent = nodes[s].parent
                                        /\ nodes[nodes[s].next].previous = s
          /\ nodes[s].previous = Invalid => nodes[nodes[s].parent].first = s
          /\ nodes[s].previous # Invalid => /\ nodes[s].previous \in Standing
                                            /\ nodes[nodes[s].previous].next = s

SibInv == Chained(nodes, Ends, Siblings) /\ Linking

\* Of any slots one is the last of its siblings, or the next one is not there.
LEMMA LastSlot ==
  ASSUME NEW nd, NEW st, NEW f, Chained(nd, st, f), NEW B \in SUBSET st, B # {}
  PROVE  \E s \in B : s = Invalid \/ nd[s].next \notin B
  <1>1. PICK s \in B : Least(B, f, s)
    <2>1. \A s \in B : f[s] \in SUBSET Hash
      BY DEF Chained
    <2> QED BY <2>1, LeastSet
  <1>2. ASSUME s # Invalid, nd[s].next \in B PROVE FALSE
    <2> DEFINE p == nd[s].next
    <2>1. f[s] = {nd[s].hash} \cup f[p] /\ nd[s].hash \notin f[p]
      BY <1>2 DEF Chained, Along
    <2>2. f[p] \subseteq f[s] /\ f[p] # f[s]
      BY <2>1, Zenon
    <2> HIDE DEF p
    <2> QED BY <1>1, <1>2, <2>2 DEF p, Least
  <1> QED BY <1>2

\* Siblings is the one such walk.
LEMMA TheWalk ==
  ASSUME NEW nd, NEW st, NEW f, Chained(nd, st, f)
  PROVE  (CHOOSE g : Along(nd, st, g)) = f
  <1> DEFINE g == CHOOSE u : Along(nd, st, u)
             B == {s \in st : f[s] # g[s]}
  <1>1. Along(nd, st, f)
    BY DEF Chained
  <1>2. Along(nd, st, g)
    BY <1>1, Zenon
  <1> HIDE DEF g
  <1>3. f = [s \in st |-> f[s]] /\ g = [s \in st |-> g[s]]
    <2>1. \A u : Along(nd, st, u) => u = [s \in st |-> u[s]]
      BY DEF Along
    <2> QED BY <1>1, <1>2, <2>1
  <1>4. ASSUME B # {} PROVE FALSE
    <2>1. PICK s \in B : s = Invalid \/ nd[s].next \notin B
      <3>1. B \in SUBSET st
        OBVIOUS
      <3> HIDE DEF B
      <3> QED BY <1>4, <3>1, LastSlot
    <2>2. /\ f[s] = IF s = Invalid THEN {} ELSE {nd[s].hash} \cup f[nd[s].next]
          /\ g[s] = IF s = Invalid THEN {} ELSE {nd[s].hash} \cup g[nd[s].next]
      BY <1>1, <1>2 DEF Along
    <2>3. s # Invalid => nd[s].next \in st
      BY DEF Chained
    <2> QED BY <2>1, <2>2, <2>3
  <1>5. f = g
    BY <1>3, <1>4
  <1> QED BY <1>5 DEF g

\* What satisfies the equation of the walk along the siblings is Siblings.
LEMMA SiblingsAre ==
  ASSUME NEW f, Chained(nodes, Ends, f)
  PROVE  Siblings = f
  <1>1. Siblings = CHOOSE g : Along(nodes, Ends, g)
    BY Zenon DEF Siblings, Along, Ends
  <1> QED BY <1>1, TheWalk

\* The same in the next state.
LEMMA NextSiblingsAre ==
  ASSUME NEW f, Chained(nodes', Ends', f)
  PROVE  Siblings' = f
  <1>1. Siblings' = CHOOSE g : Along(nodes', Ends', g)
    BY Zenon DEF Siblings, Along, Ends
  <1> QED BY <1>1, TheWalk

\* What the links of the live nodes say.
LEMMA SiblingFacts ==
  ASSUME IInv, SibInv
  PROVE  /\ Invalid \notin Trunk /\ Invalid \notin Slots /\ Root \in Trunk /\ Root \notin Standing
         /\ Siblings[Invalid] = {}
         /\ \A s \in Standing :
               /\ Siblings[s] = {nodes[s].hash} \cup Siblings[nodes[s].next]
               /\ nodes[s].hash \notin Siblings[nodes[s].next] /\ nodes[s].next \in Ends
               /\ Siblings[s] \in SUBSET Hash
               /\ nodes[s].parent \in Trunk /\ nodes[s].parent # s
               /\ nodes[s].hash \in Live /\ index[nodes[s].hash] = s
         /\ \A s, t \in Standing : nodes[s].hash = nodes[t].hash => s = t
         /\ \A p \in Trunk : nodes[p].first # Invalid =>
               nodes[p].first \in Standing /\ nodes[nodes[p].first].parent = p
  <1>1. /\ Invalid \notin Slots /\ Trunk \subseteq Slots /\ Root \in Trunk /\ Root \notin Standing
        /\ \A s \in Standing : nodes[s].hash \in Live /\ index[nodes[s].hash] = s
    BY TrunkSlots DEF IInv, Invalid, Trunk
  <1>2. /\ Siblings = [s \in Ends |-> IF s = Invalid THEN {}
                                      ELSE {nodes[s].hash} \cup Siblings[nodes[s].next]]
        /\ \A s \in Ends : Siblings[s] \in SUBSET Hash
        /\ \A s \in Ends \ {Invalid} : nodes[s].next \in Ends
                                       /\ nodes[s].hash \notin Siblings[nodes[s].next]
    BY DEF SibInv, Chained, Along
  <1>3. Standing \subseteq Ends \ {Invalid} /\ Invalid \in Ends
    BY <1>1 DEF Ends, Trunk
  <1>4. \A s \in Ends : Siblings[s] = IF s = Invalid THEN {}
                                      ELSE {nodes[s].hash} \cup Siblings[nodes[s].next]
    BY <1>2
  <1>5. \A s \in Standing : nodes[s].parent \in Trunk
    BY DEF IInv, Hanging, Used
  <1>6. ASSUME NEW s \in Standing, nodes[s].parent = s PROVE FALSE
    <2>1. s \in Rooted \ {Root}
      BY <1>1 DEF Rooted, Used
    <2>2. /\ Path = [t \in Rooted |-> IF t = Root THEN {} ELSE {nodes[t].hash} \cup Path[nodes[t].parent]]
          /\ nodes[s].hash \notin Path[nodes[s].parent]
      BY <2>1 DEF IInv, Layered, Above
    <2> QED BY <1>6, <2>1, <2>2
  <1>7. ASSUME NEW p \in Trunk, nodes[p].first # Invalid
        PROVE  nodes[p].first \in Standing /\ nodes[nodes[p].first].parent = p
    <2> DEFINE u == nodes[p].first
    <2>1. u \in Standing /\ Siblings[u] = Kids(p)
      BY <1>7 DEF SibInv, Linking, Ends
    <2>2. nodes[u].hash \in Siblings[u]
      BY <1>3, <1>4, <2>1
    <2>3. nodes[u].hash \in Kids(p)
      BY <2>1, <2>2
    <2> HIDE DEF u
    <2>4. index[nodes[u].hash] = u /\ nodes[index[nodes[u].hash]].parent = p
      BY <1>1, <2>1, <2>3 DEF Kids
    <2> QED BY <2>1, <2>4 DEF u
  <1> QED BY <1>1, <1>2, <1>3, <1>4, <1>5, <1>6, <1>7 DEF Trunk

\* The children of each node once h is below p, and once h left.
LEMMA CreateKids ==
  ASSUME IInv, NEW h \in Hash, NEW p \in Trunk, NEW s, Created(h, p, s)
  PROVE  /\ Kids(s)' = {} /\ Kids(p)' = Kids(p) \cup {h}
         /\ \A q \in Trunk \ {p} : Kids(q)' = Kids(q)
  <1>1. /\ s \notin Trunk /\ h \notin Live /\ Live' = Live \cup {h}
        /\ index'[h] = s /\ \A g \in Live : index'[g] = index[g]
        /\ nodes'[s].parent = p
    BY DEF Created
  <1>2. \A t \in Trunk : nodes'[t].parent = nodes[t].parent
    BY TrunkSlots DEF Created, IInv
  <1>3. \A g \in Live : index[g] \in Trunk /\ nodes[index[g]].parent \in Trunk
    BY DEF Trunk, Standing, IInv, Hanging, Used
  <1>4. \A g \in Live' : nodes'[index'[g]].parent = IF g = h THEN p ELSE nodes[index[g]].parent
    BY <1>1, <1>2, <1>3
  <1> QED BY <1>1, <1>3, <1>4 DEF Kids

\* Detaching a block takes it, and nothing else, from the children.
LEMMA CutKids ==
  ASSUME IInv, NEW h \in Hash, NEW s, Cut(h, s)
  PROVE  \A q : Kids(q)' = Kids(q) \ {h}
  <1>1. /\ Live' = Live \ {h} /\ \A g \in Live \ {h} : index'[g] = index[g]
        /\ \A g \in Live \ {h} : index[g] \in Slots
    BY TrunkSlots DEF Cut, IInv
  <1>2. \A t \in Slots : nodes'[t].parent = nodes[t].parent
    BY DEF Cut
  <1>3. \A g \in Live' : nodes'[index'[g]].parent = nodes[index[g]].parent
    BY <1>1, <1>2
  <1> QED BY <1>1, <1>3 DEF Kids

\* A new first child is linked in front of the others.
LEMMA CreateLinks ==
  ASSUME IInv, SibInv, NEW h \in Hash, NEW p \in Trunk, NEW s, Created(h, p, s)
  PROVE  SibInv'
  <1> DEFINE f == [t \in Ends \cup {s} |-> IF t = s THEN {h} \cup Kids(p) ELSE Siblings[t]]
             old == nodes[p].first
  <1>1. /\ Invalid \notin Trunk /\ Root \in Trunk /\ Root \notin Standing
        /\ Trunk \subseteq Slots /\ Standing = Trunk \ {Root}
    BY SiblingFacts, TrunkSlots DEF Trunk, IInv
  <1>2. /\ s \notin Trunk /\ s # Root /\ s # Invalid /\ s # p /\ h \notin Live
        /\ Trunk' = Trunk \cup {s} /\ Standing' = Standing \cup {s} /\ Ends' = Ends \cup {s}
        /\ s \notin Ends
    <2>1. s \in Nat \ {Root} /\ s \notin Trunk /\ h \notin Live /\ Trunk' = Trunk \cup {s} /\ s # p
      BY DEF Created
    <2>2. Standing' = Trunk' \ {Root}
      <3>1. Root \notin Standing'
        <4>1. \A g \in Live' : index'[g] # Root
          BY <1>1, <2>1 DEF Created, Standing
        <4> QED BY <4>1 DEF Standing
      <3> QED BY <3>1 DEF Trunk
    <2> QED BY <1>1, <2>1, <2>2 DEF Ends, Invalid
  <1>3. /\ nodes'[s].hash = h /\ nodes'[s].parent = p /\ nodes'[s].next = old
        /\ nodes'[s].first = Invalid /\ nodes'[s].previous = Invalid
    BY DEF Created
  <1>4. \A t \in Trunk :
          /\ nodes'[t].hash = nodes[t].hash /\ nodes'[t].parent = nodes[t].parent
          /\ nodes'[t].next = nodes[t].next
          /\ nodes'[t].first = IF t = p THEN s ELSE nodes[t].first
          /\ nodes'[t].previous = IF t # p /\ t = old THEN s ELSE nodes[t].previous
    BY <1>1, <1>2 DEF Created
  <1>5. /\ Kids(s)' = {} /\ Kids(p)' = Kids(p) \cup {h}
        /\ \A q \in Trunk \ {p} : Kids(q)' = Kids(q)
    BY CreateKids
  <1>6. /\ old \in Ends /\ Siblings[old] = Kids(p) /\ h \notin Kids(p) /\ Kids(p) \subseteq Hash
        /\ old # Invalid => /\ old \in Standing /\ nodes[old].previous = Invalid
                            /\ nodes[old].parent = p /\ old # p
    <2>1. h \notin Kids(p) /\ Kids(p) \subseteq Hash
      BY <1>2 DEF Kids, Live
    <2> QED BY <2>1, SiblingFacts DEF SibInv, Linking
  <1>7. f[s] = {h} \cup Kids(p) /\ \A t \in Ends : f[t] = Siblings[t]
    BY <1>2
  <1>8. Chained(nodes', Ends', f)
    <2> HIDE DEF old
    <2>1. \A t \in Ends' : f[t] \in SUBSET Hash
      <3>1. \A t \in Ends : Siblings[t] \in SUBSET Hash
        BY DEF SibInv, Chained
      <3> QED BY <1>2, <1>6, <1>7, <3>1
    <2>2. ASSUME NEW t \in Ends' \ {Invalid}
          PROVE  /\ nodes'[t].next \in Ends' /\ nodes'[t].hash \notin f[nodes'[t].next]
                 /\ f[t] = {nodes'[t].hash} \cup f[nodes'[t].next]
      <3>1. CASE t = s
        BY <1>2, <1>3, <1>6, <1>7, <3>1
      <3>2. CASE t # s
        <4>1. t \in Standing /\ t \in Trunk
          BY <1>1, <1>2, <2>2, <3>2 DEF Ends
        <4>2. /\ nodes[t].next \in Ends /\ nodes[t].hash \notin Siblings[nodes[t].next]
              /\ Siblings[t] = {nodes[t].hash} \cup Siblings[nodes[t].next]
          BY <4>1, SiblingFacts
        <4>3. nodes'[t].next = nodes[t].next /\ nodes'[t].hash = nodes[t].hash /\ t \in Ends
          BY <1>4, <4>1 DEF Ends
        <4> HIDE DEF f
        <4> QED BY <1>2, <1>7, <4>2, <4>3
      <3> QED BY <3>1, <3>2
    <2>3. f[Invalid] = {} /\ Invalid \in Ends
      <3>1. Invalid \in Ends
        BY DEF Ends
      <3>2. Siblings[Invalid] = {}
        BY SiblingFacts
      <3> HIDE DEF f
      <3> QED BY <1>7, <3>1, <3>2
    <2>4. f = [t \in Ends' |-> f[t]]
      BY <1>2
    <2>5. \A t \in Ends' : f[t] = IF t = Invalid THEN {} ELSE {nodes'[t].hash} \cup f[nodes'[t].next]
      <3> HIDE DEF f
      <3> QED BY <2>2, <2>3
    <2> HIDE DEF f
    <2>6. Along(nodes', Ends', f)
      BY <2>4, <2>5 DEF Along
    <2> QED BY <2>1, <2>2, <2>6 DEF Chained
  <1>9. Siblings' = f
    BY <1>8, NextSiblingsAre
  <1> HIDE DEF f
  <1>10. ASSUME NEW q \in Trunk'
         PROVE  /\ nodes'[q].first \in Ends' /\ Siblings'[nodes'[q].first] = Kids(q)'
                /\ nodes'[q].first # Invalid => nodes'[nodes'[q].first].previous = Invalid
    <2>1. CASE q = s
      <3>1. Invalid \in Ends /\ Siblings[Invalid] = {}
        BY SiblingFacts DEF Ends
      <3> QED BY <1>2, <1>3, <1>5, <1>7, <1>9, <2>1, <3>1
    <2>2. CASE q = p
      BY <1>2, <1>3, <1>4, <1>5, <1>7, <1>9, <2>2
    <2>3. CASE q # s /\ q # p
      <3>1. q \in Trunk /\ nodes'[q].first = nodes[q].first /\ Kids(q)' = Kids(q)
        BY <1>2, <1>4, <1>5, <2>3
      <3>2. PICK u : u = nodes[q].first
        OBVIOUS
      <3>3. /\ u \in Ends /\ Siblings[u] = Kids(q)
            /\ u # Invalid => u \in Standing /\ nodes[u].parent = q /\ nodes[u].previous = Invalid
        BY <3>1, <3>2, SiblingFacts DEF SibInv, Linking
      <3>4. u # Invalid => nodes'[u].previous = Invalid
        BY <1>1, <1>4, <1>6, <2>3, <3>3
      <3> QED BY <1>2, <1>7, <1>9, <3>1, <3>2, <3>3, <3>4
    <2> QED BY <2>1, <2>2, <2>3
  <1>11. ASSUME NEW t \in Standing'
         PROVE  /\ nodes'[t].next # Invalid => /\ nodes'[nodes'[t].next].parent = nodes'[t].parent
                                               /\ nodes'[nodes'[t].next].previous = t
                /\ nodes'[t].previous = Invalid => nodes'[nodes'[t].parent].first = t
                /\ nodes'[t].previous # Invalid => /\ nodes'[t].previous \in Standing'
                                                   /\ nodes'[nodes'[t].previous].next = t
    <2>1. CASE t = s
      <3>1. old # Invalid => nodes'[old].parent = p /\ nodes'[old].previous = s
        BY <1>1, <1>4, <1>6
      <3> QED BY <1>3, <1>4, <2>1, <3>1
    <2>2. CASE t # s
      <3>1. t \in Standing /\ t \in Trunk /\ nodes[t].parent \in Trunk
        BY <1>1, <1>2, <2>2, SiblingFacts
      <3>2. nodes[t].next # Invalid => /\ nodes[t].next \in Standing
                                       /\ nodes[nodes[t].next].parent = nodes[t].parent
                                       /\ nodes[nodes[t].next].previous = t
        <4>1. nodes[t].next \in Ends
          BY <3>1, SiblingFacts
        <4> QED BY <3>1, <4>1 DEF SibInv, Linking, Ends
      <3>3. /\ nodes[t].previous = Invalid => nodes[nodes[t].parent].first = t
            /\ nodes[t].previous # Invalid => /\ nodes[t].previous \in Standing
                                              /\ nodes[nodes[t].previous].next = t
        BY <3>1 DEF SibInv, Linking
      <3>4. /\ nodes'[t].next = nodes[t].next /\ nodes'[t].parent = nodes[t].parent
            /\ nodes'[t].previous = IF t # p /\ t = old THEN s ELSE nodes[t].previous
        BY <1>4, <3>1
      <3>5. nodes'[t].next # Invalid => /\ nodes'[nodes'[t].next].parent = nodes'[t].parent
                                        /\ nodes'[nodes'[t].next].previous = t
        <4>1. PICK u : u = nodes[t].next
          OBVIOUS
        <4>2. ASSUME u # Invalid PROVE nodes'[u].parent = nodes[t].parent /\ nodes'[u].previous = t
          <5>1. u \in Trunk /\ nodes[u].parent = nodes[t].parent /\ nodes[u].previous = t /\ t # Invalid
            BY <1>1, <3>1, <3>2, <4>1, <4>2
          <5>2. u # old
            BY <1>6, <4>2, <5>1
          <5> QED BY <1>4, <5>1, <5>2
        <4> QED BY <3>4, <4>1, <4>2
      <3>6. nodes'[t].previous = Invalid => nodes'[nodes'[t].parent].first = t
        <4>1. ASSUME nodes'[t].previous = Invalid PROVE nodes'[nodes[t].parent].first = t
          <5>1. ~(t # p /\ t = old) /\ nodes[t].previous = Invalid
            BY <1>2, <3>4, <4>1
          <5>2. nodes[nodes[t].parent].first = t /\ t # Invalid
            BY <1>1, <3>1, <3>3, <5>1
          <5>3. nodes[t].parent # p
            BY <1>6, <5>1, <5>2
          <5> QED BY <1>4, <3>1, <5>2, <5>3
        <4> QED BY <3>4, <4>1
      <3>7. nodes'[t].previous # Invalid => /\ nodes'[t].previous \in Standing'
                                            /\ nodes'[nodes'[t].previous].next = t
        <4>1. CASE t # p /\ t = old
          BY <1>2, <1>3, <3>4, <4>1
        <4>2. CASE ~(t # p /\ t = old)
          <5>1. nodes'[t].previous = nodes[t].previous
            BY <3>4, <4>2
          <5>2. \A v \in Standing : nodes'[v].next = nodes[v].next /\ v \in Standing'
            BY <1>1, <1>2, <1>4
          <5> QED BY <3>3, <5>1, <5>2
        <4> QED BY <4>1, <4>2
      <3> QED BY <3>5, <3>6, <3>7
    <2> QED BY <2>1, <2>2
  <1>12. Linking'
    BY <1>10, <1>11 DEF Linking
  <1>13. Chained(nodes', Ends', Siblings')
    BY <1>8, <1>9
  <1> QED BY <1>12, <1>13 DEF SibInv

\* The links before and after a node are tied when it leaves.
LEMMA CutLinks ==
  ASSUME IInv, SibInv, NEW h \in Hash, NEW s, Cut(h, s)
  PROVE  SibInv'
  <1> DEFINE f == [t \in Ends \ {s} |-> Siblings[t] \ {h}]
  <1>1. /\ Invalid \notin Trunk /\ Root \in Trunk /\ Root \notin Standing
        /\ Trunk \subseteq Slots /\ Standing = Trunk \ {Root}
    BY SiblingFacts, TrunkSlots DEF Trunk, IInv
  <1>2. /\ s \in Standing /\ nodes[s].hash = h /\ Trunk' = Trunk \ {s}
        /\ Standing' = Standing \ {s} /\ Ends' = Ends \ {s} /\ s # Invalid
    <2>1. s \in Trunk \ {Root} /\ nodes[s].hash = h /\ Trunk' = Trunk \ {s}
      BY DEF Cut
    <2>2. Standing' = Trunk' \ {Root}
      <3>1. Root \notin Standing'
        <4>1. \A g \in Live' : index'[g] # Root
          <5>1. Live' = Live \ {h} /\ \A g \in Live \ {h} : index'[g] = index[g]
            BY DEF Cut
          <5> QED BY <1>1, <5>1 DEF Standing
        <4> QED BY <4>1 DEF Standing
      <3> QED BY <3>1 DEF Trunk
    <2> QED BY <1>1, <2>1, <2>2 DEF Ends
  <1> DEFINE up == nodes[s].parent
             back == nodes[s].previous
             after == nodes[s].next
  <1>3. \A t \in Trunk :
          /\ nodes'[t].hash = nodes[t].hash /\ nodes'[t].parent = nodes[t].parent
          /\ nodes'[t].first = IF t = up /\ back = Invalid THEN after ELSE nodes[t].first
          /\ nodes'[t].next = IF t # up /\ t = back THEN after ELSE nodes[t].next
          /\ nodes'[t].previous = IF t # up /\ t # back /\ t = after THEN back
                                  ELSE nodes[t].previous
    BY <1>1 DEF Cut
  <1>4. \A q : Kids(q)' = Kids(q) \ {h}
    BY CutKids
  <1>5. \A t \in Standing :
          /\ Siblings[t] = {nodes[t].hash} \cup Siblings[nodes[t].next]
          /\ nodes[t].hash \notin Siblings[nodes[t].next] /\ nodes[t].next \in Ends
          /\ nodes[t].parent \in Trunk /\ nodes[t].parent # t
          /\ nodes[t].hash \in Live /\ index[nodes[t].hash] = t
    BY SiblingFacts
  <1>6. \A t \in Standing :
          /\ nodes[t].next # Invalid => /\ nodes[nodes[t].next].parent = nodes[t].parent
                                        /\ nodes[nodes[t].next].previous = t
          /\ nodes[t].previous = Invalid => nodes[nodes[t].parent].first = t
          /\ nodes[t].previous # Invalid => /\ nodes[t].previous \in Standing
                                            /\ nodes[nodes[t].previous].next = t
    BY DEF SibInv, Linking
  <1>7. /\ h \notin Siblings[after] /\ Siblings[s] = {h} \cup Siblings[after]
        /\ after \in Ends /\ after # s
        /\ after # Invalid => /\ after \in Standing /\ nodes[after].parent = up
                              /\ nodes[after].previous = s /\ after # up
    <2>1. /\ h \notin Siblings[after] /\ Siblings[s] = {h} \cup Siblings[after] /\ after \in Ends
      BY <1>2, <1>5
    <2>2. after # s
      BY <2>1
    <2> QED BY <1>2, <1>5, <1>6, <2>1, <2>2 DEF Ends
  <1>8. back # Invalid => /\ back \in Standing /\ nodes[back].next = s /\ back # s
                          /\ nodes[back].parent = up /\ back # up /\ back # after
    <2> SUFFICES ASSUME back # Invalid
                 PROVE  /\ back \in Standing /\ nodes[back].next = s /\ back # s
                        /\ nodes[back].parent = up /\ back # up /\ back # after
      OBVIOUS
    <2>1. back \in Standing /\ nodes[back].next = s
      BY <1>2, <1>6
    <2>2. nodes[back].parent = up /\ back # s
      BY <1>2, <1>6, <1>7, <2>1
    <2>3. back # after
      <3>1. Siblings[back] = {nodes[back].hash} \cup Siblings[s] /\ h \in Siblings[s]
        BY <1>5, <1>7, <2>1
      <3> QED BY <1>7, <3>1
    <2> QED BY <1>5, <2>1, <2>2, <2>3
  <1> HIDE DEF up, back, after
  <1>9. \A t \in Ends' : f[t] = Siblings[t] \ {h}
    BY <1>2
  <1>10. \A t \in Standing' : /\ t \in Standing /\ t \in Trunk /\ nodes[t].hash # h
                              /\ t # Invalid /\ t # s
    BY <1>1, <1>2, <1>5
  <1>11. ASSUME NEW t \in Standing', nodes[t].next = s
         PROVE  t = back /\ nodes'[t].next = after /\ nodes[t].parent = up
    <2>1. t = back /\ nodes[t].parent = up
      BY <1>2, <1>6, <1>10, <1>11 DEF back, up
    <2>2. t # up
      BY <1>5, <1>10, <2>1
    <2> QED BY <1>3, <1>10, <2>1, <2>2
  <1>12. ASSUME NEW t \in Standing', nodes[t].next # s
         PROVE  nodes'[t].next = nodes[t].next
    BY <1>3, <1>8, <1>10, <1>12
  <1>13. Chained(nodes', Ends', f)
    <2>1. \A t \in Ends' : f[t] \in SUBSET Hash
      <3>1. \A t \in Ends : Siblings[t] \in SUBSET Hash
        BY DEF SibInv, Chained
      <3> HIDE DEF f
      <3> QED BY <1>2, <1>9, <3>1
    <2>2. ASSUME NEW t \in Standing'
          PROVE  /\ nodes'[t].next \in Ends' /\ nodes'[t].hash \notin f[nodes'[t].next]
                 /\ f[t] = {nodes'[t].hash} \cup f[nodes'[t].next]
      <3>1. /\ nodes[t].hash \notin Siblings[nodes[t].next] /\ nodes[t].next \in Ends
            /\ Siblings[t] = {nodes[t].hash} \cup Siblings[nodes[t].next]
            /\ nodes'[t].hash = nodes[t].hash /\ nodes[t].hash # h /\ t \in Ends'
        BY <1>2, <1>3, <1>5, <1>10 DEF Ends
      <3> HIDE DEF f
      <3>2. CASE nodes[t].next = s
        <4>1. nodes'[t].next = after /\ after \in Ends'
          BY <1>2, <1>7, <1>11, <3>2
        <4>2. f[after] = Siblings[after] \ {h} /\ f[t] = Siblings[t] \ {h}
          BY <1>9, <3>1, <4>1
        <4> QED BY <1>7, <3>1, <3>2, <4>1, <4>2
      <3>3. CASE nodes[t].next # s
        <4>1. nodes'[t].next = nodes[t].next /\ nodes[t].next \in Ends'
          BY <1>2, <1>12, <3>1, <3>3
        <4>2. f[nodes[t].next] = Siblings[nodes[t].next] \ {h} /\ f[t] = Siblings[t] \ {h}
          BY <1>9, <3>1, <4>1
        <4> QED BY <3>1, <4>1, <4>2
      <3> QED BY <3>2, <3>3
    <2>3. f[Invalid] = {} /\ Invalid \in Ends'
      <3>1. Invalid \in Ends' /\ Siblings[Invalid] = {}
        BY SiblingFacts DEF Ends
      <3> HIDE DEF f
      <3> QED BY <1>9, <3>1
    <2>4. f = [t \in Ends' |-> f[t]]
      BY <1>2
    <2>5. Ends' = Standing' \cup {Invalid}
      BY DEF Ends
    <2> HIDE DEF f
    <2>6. Along(nodes', Ends', f)
      <3>1. \A t \in Ends' : f[t] = IF t = Invalid THEN {} ELSE {nodes'[t].hash} \cup f[nodes'[t].next]
        BY <2>2, <2>3, <2>5
      <3> QED BY <2>4, <3>1 DEF Along
    <2> QED BY <2>1, <2>2, <2>5, <2>6 DEF Chained
  <1>14. Siblings' = f
    BY <1>13, NextSiblingsAre
  <1> HIDE DEF f
  <1>15. ASSUME NEW q \in Trunk'
         PROVE  /\ nodes'[q].first \in Ends' /\ Siblings'[nodes'[q].first] = Kids(q)'
                /\ nodes'[q].first # Invalid => nodes'[nodes'[q].first].previous = Invalid
    <2>1. q \in Trunk
      BY <1>2
    <2>2. PICK u : u = nodes[q].first
      OBVIOUS
    <2>3. /\ u \in Ends /\ Siblings[u] = Kids(q)
          /\ u # Invalid => u \in Standing /\ nodes[u].parent = q /\ nodes[u].previous = Invalid
      BY <2>1, <2>2, SiblingFacts DEF SibInv, Linking
    <2>4. CASE q = up /\ back = Invalid
      <3>1. nodes[q].first = s /\ nodes'[q].first = after
        BY <1>2, <1>3, <1>6, <2>1, <2>4 DEF back, up
      <3>2. after \in Ends' /\ Siblings'[after] = Siblings[after] \ {h}
        BY <1>2, <1>7, <1>9, <1>14
      <3>3. Siblings'[after] = Kids(q)'
        BY <1>4, <1>7, <2>2, <2>3, <3>1, <3>2
      <3>4. after # Invalid => nodes'[after].previous = Invalid
        BY <1>1, <1>3, <1>7, <2>4
      <3> QED BY <3>1, <3>2, <3>3, <3>4
    <2>5. CASE ~(q = up /\ back = Invalid)
      <3>1. nodes'[q].first = u
        BY <1>3, <2>1, <2>2, <2>5
      <3>2. u # s
        BY <1>2, <2>3, <2>5 DEF up, back
      <3>3. u # Invalid => nodes'[u].previous = Invalid
        <4>1. ASSUME u # Invalid PROVE nodes'[u].previous = Invalid
          <5>1. u \in Trunk /\ nodes[u].previous = Invalid
            BY <1>1, <2>3, <4>1
          <5>2. u # after
            BY <1>2, <1>7, <4>1, <5>1
          <5> QED BY <1>3, <5>1, <5>2
        <4> QED BY <4>1
      <3>4. u \in Ends' /\ Siblings'[u] = Kids(q)'
        BY <1>2, <1>4, <1>9, <1>14, <2>3, <3>2
      <3> QED BY <3>1, <3>3, <3>4
    <2> QED BY <2>4, <2>5
  <1>16. ASSUME NEW t \in Standing'
         PROVE  /\ nodes'[t].next # Invalid => /\ nodes'[nodes'[t].next].parent = nodes'[t].parent
                                               /\ nodes'[nodes'[t].next].previous = t
                /\ nodes'[t].previous = Invalid => nodes'[nodes'[t].parent].first = t
                /\ nodes'[t].previous # Invalid => /\ nodes'[t].previous \in Standing'
                                                   /\ nodes'[nodes'[t].previous].next = t
    <2>1. /\ t \in Standing /\ t \in Trunk /\ t # s /\ nodes[t].parent \in Trunk /\ t # Invalid
          /\ nodes'[t].parent = nodes[t].parent
      BY <1>3, <1>5, <1>10
    <2>2. nodes'[t].next # Invalid => /\ nodes'[nodes'[t].next].parent = nodes'[t].parent
                                      /\ nodes'[nodes'[t].next].previous = t
      <3>1. CASE nodes[t].next = s
        <4>1. t = back /\ nodes'[t].next = after /\ nodes[t].parent = up
          BY <1>11, <3>1
        <4>2. after # Invalid => nodes'[after].parent = up /\ nodes'[after].previous = back
          <5>1. ASSUME after # Invalid PROVE nodes'[after].parent = up /\ nodes'[after].previous = back
            <6>1. after \in Trunk /\ after # up /\ after # back /\ nodes[after].parent = up
              BY <1>1, <1>7, <1>8, <2>1, <4>1, <5>1
            <6> QED BY <1>3, <6>1
          <5> QED BY <5>1
        <4> QED BY <2>1, <4>1, <4>2
      <3>2. CASE nodes[t].next # s
        <4>1. nodes'[t].next = nodes[t].next
          BY <1>12, <3>2
        <4>2. PICK u : u = nodes[t].next
          OBVIOUS
        <4>3. ASSUME u # Invalid PROVE nodes'[u].parent = nodes[t].parent /\ nodes'[u].previous = t
          <5>1. u \in Trunk /\ nodes[u].parent = nodes[t].parent /\ nodes[u].previous = t
            BY <1>1, <1>5, <1>6, <2>1, <4>2, <4>3 DEF Ends
          <5>2. u # after
            BY <1>7, <2>1, <4>3, <5>1
          <5> QED BY <1>3, <5>1, <5>2
        <4> QED BY <2>1, <4>1, <4>2, <4>3
      <3> QED BY <3>1, <3>2
    <2>3. CASE t = after
      <3>1. t # up /\ nodes[t].parent = up
        BY <1>7, <2>1, <2>3
      <3>2. CASE back = Invalid
        <4>1. nodes'[t].previous = Invalid
          BY <1>3, <2>1, <2>3, <3>1, <3>2
        <4>2. nodes'[up].first = after
          BY <1>3, <2>1, <3>1, <3>2
        <4> QED BY <2>1, <2>2, <2>3, <3>1, <4>1, <4>2
      <3>3. CASE back # Invalid
        <4>1. nodes'[t].previous = back
          BY <1>3, <1>8, <2>1, <2>3, <3>1, <3>3
        <4>2. back \in Standing' /\ nodes'[back].next = after
          BY <1>1, <1>2, <1>3, <1>8, <3>3
        <4> QED BY <2>2, <2>3, <3>3, <4>1, <4>2
      <3> QED BY <3>2, <3>3
    <2>4. CASE t # after
      <3>1. nodes'[t].previous = nodes[t].previous
        BY <1>3, <2>1, <2>4
      <3>2. ASSUME nodes[t].previous = Invalid PROVE nodes'[nodes[t].parent].first = t
        <4>1. nodes[nodes[t].parent].first = t
          BY <1>6, <2>1, <3>2
        <4>2. ~(nodes[t].parent = up /\ back = Invalid)
          <5>1. back = Invalid => nodes[up].first = s
            BY <1>2, <1>6 DEF back, up
          <5> QED BY <2>1, <4>1, <5>1
        <4> QED BY <1>3, <2>1, <4>1, <4>2
      <3>3. ASSUME nodes[t].previous # Invalid
            PROVE  nodes[t].previous \in Standing' /\ nodes'[nodes[t].previous].next = t
        <4>1. PICK v : v = nodes[t].previous
          OBVIOUS
        <4>2. v \in Standing /\ nodes[v].next = t
          BY <1>6, <2>1, <3>3, <4>1
        <4>3. v # s
          BY <2>4, <4>2 DEF after
        <4>4. v \in Standing' /\ nodes[v].next # s
          BY <1>2, <2>1, <4>2, <4>3
        <4> QED BY <1>12, <4>1, <4>2, <4>4
      <3> QED BY <2>1, <2>2, <3>1, <3>2, <3>3
    <2> QED BY <2>3, <2>4
  <1>17. Linking'
    BY <1>15, <1>16 DEF Linking
  <1>18. Chained(nodes', Ends', Siblings')
    BY <1>13, <1>14
  <1> QED BY <1>17, <1>18 DEF SibInv

\* A slot that is released has no link that is followed.
LEMMA KeptLinks ==
  ASSUME IInv, SibInv, Live' = Live, index' = index, \A t \in Trunk : nodes'[t] = nodes[t]
  PROVE  SibInv' /\ Siblings' = Siblings
  <1>1. Standing' = Standing /\ Trunk' = Trunk /\ Ends' = Ends
    BY DEF Standing, Trunk, Ends
  <1>2. \A t \in Standing : /\ nodes'[t] = nodes[t] /\ nodes[t].next \in Ends /\ t # Invalid
                            /\ nodes[t].parent \in Trunk
    BY SiblingFacts DEF Trunk
  <1>3. Chained(nodes', Ends', Siblings)
    <2>1. /\ Siblings = [t \in Ends |-> Siblings[t]]
          /\ \A t \in Ends : /\ Siblings[t] = IF t = Invalid THEN {}
                                              ELSE {nodes[t].hash} \cup Siblings[nodes[t].next]
                             /\ Siblings[t] \in SUBSET Hash
          /\ \A t \in Ends \ {Invalid} : nodes[t].next \in Ends
                                         /\ nodes[t].hash \notin Siblings[nodes[t].next]
      BY DEF SibInv, Chained, Along
    <2>2. \A t \in Ends \ {Invalid} : nodes'[t] = nodes[t]
      BY <1>2 DEF Ends
    <2>3. \A t \in Ends : Siblings[t] = IF t = Invalid THEN {}
                                        ELSE {nodes'[t].hash} \cup Siblings[nodes'[t].next]
      BY <2>1, <2>2
    <2>4. Along(nodes', Ends', Siblings)
      BY <1>1, <2>1, <2>3 DEF Along
    <2> QED BY <1>1, <2>1, <2>2, <2>4 DEF Chained
  <1>4. Siblings' = Siblings
    BY <1>3, NextSiblingsAre
  <1>5. \A q \in Trunk : Kids(q)' = Kids(q)
    <2>1. \A g \in Live : index[g] \in Trunk
      BY DEF Trunk, Standing
    <2> QED BY <2>1 DEF Kids
  <1>6. ASSUME NEW q \in Trunk'
        PROVE  /\ nodes'[q].first \in Ends' /\ Siblings'[nodes'[q].first] = Kids(q)'
               /\ nodes'[q].first # Invalid => nodes'[nodes'[q].first].previous = Invalid
    <2>1. /\ nodes[q].first \in Ends /\ Siblings[nodes[q].first] = Kids(q)
          /\ nodes[q].first # Invalid => nodes[nodes[q].first].previous = Invalid
      BY <1>1 DEF SibInv, Linking
    <2>2. nodes[q].first # Invalid => nodes[q].first \in Trunk
      BY <2>1 DEF Ends, Trunk
    <2> QED BY <1>1, <1>4, <1>5, <2>1, <2>2
  <1>7. ASSUME NEW t \in Standing'
        PROVE  /\ nodes'[t].next # Invalid => /\ nodes'[nodes'[t].next].parent = nodes'[t].parent
                                              /\ nodes'[nodes'[t].next].previous = t
               /\ nodes'[t].previous = Invalid => nodes'[nodes'[t].parent].first = t
               /\ nodes'[t].previous # Invalid => /\ nodes'[t].previous \in Standing'
                                                  /\ nodes'[nodes'[t].previous].next = t
    <2>1. /\ nodes[t].next # Invalid => /\ nodes[nodes[t].next].parent = nodes[t].parent
                                        /\ nodes[nodes[t].next].previous = t
          /\ nodes[t].previous = Invalid => nodes[nodes[t].parent].first = t
          /\ nodes[t].previous # Invalid => /\ nodes[t].previous \in Standing
                                            /\ nodes[nodes[t].previous].next = t
      BY <1>1 DEF SibInv, Linking
    <2>2. /\ nodes[t].next # Invalid => nodes[t].next \in Standing
          /\ nodes'[t] = nodes[t] /\ nodes[t].parent \in Trunk
      BY <1>1, <1>2 DEF Ends
    <2>3. \A v \in Standing : nodes'[v] = nodes[v]
      BY <1>2
    <2> QED BY <1>1, <2>1, <2>2, <2>3
  <1>8. Linking'
    BY <1>6, <1>7 DEF Linking
  <1> QED BY <1>3, <1>4, <1>8 DEF SibInv

\* The root of the empty tree has no child.
LEMMA InitLinks == Init => SibInv
  <1> SUFFICES ASSUME Init PROVE SibInv
    OBVIOUS
  <1>1. Live = {} /\ Standing = {} /\ Trunk = {Root} /\ Ends = {Invalid}
    BY DEF Init, Live, Standing, Trunk, Ends
  <1>2. nodes[Root].first = Invalid /\ Kids(Root) = {}
    BY <1>1 DEF Init, NodeRecord, Kids
  <1> DEFINE f == [s \in Ends |-> {}]
  <1>3. Chained(nodes, Ends, f)
    BY <1>1 DEF Chained, Along
  <1>4. Siblings = f
    BY <1>3, SiblingsAre
  <1>5. Linking
    BY <1>1, <1>2, <1>4 DEF Linking
  <1> QED BY <1>3, <1>4, <1>5 DEF SibInv

\* Creating, detaching and releasing keep the sibling links.
LEMMA NextLinks == IInv /\ SibInv /\ [Next]_vars => SibInv'
  <1> SUFFICES ASSUME IInv, SibInv, [Next]_vars PROVE SibInv'
    OBVIOUS
  <1>1. ASSUME NEW h \in Hash, NEW p \in Trunk, Create(h, p) PROVE SibInv'
    <2>1. PICK s : s = NewSlot
      OBVIOUS
    <2>2. Created(h, p, s)
      BY <1>1, <2>1, CreateFacts DEF IInv
    <2> QED BY <2>2, CreateLinks
  <1>2. ASSUME NEW h \in Hash, Detach(h) PROVE SibInv'
    <2>1. PICK s : s = index[h]
      OBVIOUS
    <2>2. Cut(h, s)
      BY <1>2, <2>1, DetachFacts DEF IInv
    <2> QED BY <2>2, CutLinks
  <1>3. ASSUME NEW h \in Hash, Release(h) PROVE SibInv'
    <2>1. /\ Live' = Live /\ index' = index /\ Trunk' = Trunk
          /\ \A t \in Rooted' : nodes'[t] = nodes[t]
      BY <1>3, ReleaseSlots DEF IInv
    <2>2. Trunk' \subseteq Rooted'
      BY DEF Trunk, Rooted, Used
    <2> QED BY <2>1, <2>2, KeptLinks
  <1>4. CASE UNCHANGED vars
    <2>1. nodes' = nodes /\ index' = index /\ Live' = Live
      BY <1>4 DEF vars, Live
    <2> QED BY <2>1, KeptLinks
  <1>5. Next <=> \/ \E h \in Hash, p \in Trunk : Create(h, p)
                 \/ \E h \in Hash : Detach(h) \/ Release(h)
    BY DEF Next, Trunk
  <1> QED BY <1>1, <1>2, <1>3, <1>4, <1>5

\* The sibling links agree with the parents in every state.
LEMMA LinksKept == Spec => [](IInv /\ SibInv)
  <1>1. Init => IInv /\ SibInv
    BY InitInv, InitLinks
  <1>2. IInv /\ SibInv /\ [Next]_vars => (IInv /\ SibInv)'
    BY NextInv, NextLinks
  <1> QED BY <1>1, <1>2, PTL DEF Spec

-----------------------------------------------------------------------------
(* The tree of blocks.                                                     *)

\* The block above h, unless h is at the top.
Over(h) == nodes[nodes[index[h]].parent].hash
AtTop(h) == nodes[index[h]].parent = Root

\* The ancestors of a block, one step of the climb at a time.
LEMMA OneUp ==
  ASSUME IInv
  PROVE  /\ \A h \in Live :
               /\ h \in Hash /\ h \in Ancestors[h] /\ Ancestors[h] \in SUBSET Hash
               /\ AtTop(h) => Ancestors[h] = {h}
               /\ ~AtTop(h) => /\ Over(h) \in Live /\ index[Over(h)] = nodes[index[h]].parent
                               /\ Ancestors[h] = {h} \cup Ancestors[Over(h)]
                               /\ h \notin Ancestors[Over(h)]
               /\ index[h] \in Standing /\ nodes[index[h]].hash = h
               /\ \A c \in Live : c \in Kids(index[h]) <=> ~AtTop(c) /\ Over(c) = h
         /\ \A h \in Hash \ Live : Ancestors[h] = {}
         /\ \A s \in Standing : nodes[s].hash \in Live /\ index[nodes[s].hash] = s
  <1>1. /\ \A h \in Live : Ancestors[h] = Path[index[h]] /\ h \in Path[index[h]]
        /\ \A h \in Hash \ Live : Ancestors[h] = {}
        /\ Path[Root] = {}
    BY Climbs
  <1>2. /\ Path = [s \in Rooted |-> IF s = Root THEN {}
                                    ELSE {nodes[s].hash} \cup Path[nodes[s].parent]]
        /\ \A s \in Rooted : Path[s] \in SUBSET Hash
        /\ \A s \in Rooted \ {Root} : nodes[s].parent \in Rooted
                                      /\ nodes[s].hash \notin Path[nodes[s].parent]
    BY DEF IInv, Layered, Above
  <1>3. /\ Root \notin Standing /\ Standing \subseteq Rooted \ {Root}
        /\ \A s \in Standing : nodes[s].hash \in Live /\ index[nodes[s].hash] = s
        /\ \A s \in Standing : nodes[s].parent = Root \/ nodes[s].parent \in Standing
        /\ \A h \in Live : index[h] \in Standing /\ nodes[index[h]].hash = h /\ h \in Hash
    BY TrunkSlots DEF IInv, Rooted, Used, Hanging, Trunk, Owned, Standing, Live
  <1>4. \A s \in Standing : Path[s] = {nodes[s].hash} \cup Path[nodes[s].parent]
    BY <1>2, <1>3
  <1>5. ASSUME NEW h \in Live
        PROVE  /\ h \in Ancestors[h] /\ Ancestors[h] \in SUBSET Hash
               /\ AtTop(h) => Ancestors[h] = {h}
               /\ ~AtTop(h) => /\ Over(h) \in Live /\ index[Over(h)] = nodes[index[h]].parent
                               /\ Ancestors[h] = {h} \cup Ancestors[Over(h)]
                               /\ h \notin Ancestors[Over(h)]
    <2>1. PICK s : s = index[h]
      OBVIOUS
    <2>2. /\ s \in Standing /\ nodes[s].hash = h /\ Ancestors[h] = Path[s]
          /\ Path[s] = {h} \cup Path[nodes[s].parent] /\ h \notin Path[nodes[s].parent]
      <3>1. s \in Standing /\ nodes[s].hash = h /\ Ancestors[h] = Path[s]
        BY <1>1, <1>3, <2>1
      <3>2. nodes[s].hash \notin Path[nodes[s].parent]
        BY <1>2, <1>3, <3>1
      <3> QED BY <1>4, <3>1, <3>2
    <2>3. CASE nodes[s].parent = Root
      BY <1>1, <1>2, <1>3, <2>1, <2>2, <2>3 DEF AtTop
    <2>4. CASE nodes[s].parent # Root
      <3>1. nodes[s].parent \in Standing
        BY <1>3, <2>2, <2>4
      <3>2. Over(h) \in Live /\ index[Over(h)] = nodes[s].parent
        BY <1>3, <2>1, <3>1 DEF Over
      <3>3. Ancestors[Over(h)] = Path[nodes[s].parent]
        BY <1>1, <3>2
      <3> QED BY <1>2, <1>3, <2>1, <2>2, <2>4, <3>2, <3>3 DEF AtTop
    <2> QED BY <2>3, <2>4
  <1>6. ASSUME NEW h \in Live, NEW c \in Live
        PROVE  c \in Kids(index[h]) <=> ~AtTop(c) /\ Over(c) = h
    <2>1. c \in Kids(index[h]) <=> nodes[index[c]].parent = index[h]
      BY DEF Kids
    <2>2. index[h] # Root /\ nodes[index[h]].hash = h
      BY <1>3
    <2>3. ~AtTop(c) => index[Over(c)] = nodes[index[c]].parent
      BY <1>5
    <2> QED BY <2>1, <2>2, <2>3 DEF AtTop, Over
  <1> QED BY <1>1, <1>3, <1>5, <1>6

\* Of any blocks one is at the top, or the block above it is not among them.
LEMMA TopBlock ==
  ASSUME IInv, NEW B \in SUBSET Live, B # {}
  PROVE  \E h \in B : AtTop(h) \/ Over(h) \notin B
  <1>1. PICK h \in B : Least(B, Ancestors, h)
    <2>1. \A h \in B : Ancestors[h] \in SUBSET Hash
      BY OneUp
    <2> QED BY <2>1, LeastSet
  <1>2. ASSUME ~AtTop(h), Over(h) \in B PROVE FALSE
    <2>1. Ancestors[h] = {h} \cup Ancestors[Over(h)] /\ h \notin Ancestors[Over(h)]
      BY <1>2, OneUp
    <2> QED BY <1>1, <1>2, <2>1 DEF Least
  <1> QED BY <1>2

\* Ancestors are nodes, and theirs are among them; two of them are in line.
LEMMA Lines ==
  ASSUME IInv
  PROVE  /\ \A h \in Live : Ancestors[h] \subseteq Live
         /\ \A h \in Live : \A g \in Ancestors[h] : Ancestors[g] \subseteq Ancestors[h]
         /\ \A h \in Live : \A x, y \in Ancestors[h] : x \in Ancestors[y] \/ y \in Ancestors[x]
  <1> DEFINE Good(h) == /\ Ancestors[h] \subseteq Live
                        /\ \A g \in Ancestors[h] : Ancestors[g] \subseteq Ancestors[h]
                        /\ \A x, y \in Ancestors[h] : x \in Ancestors[y] \/ y \in Ancestors[x]
             B == {h \in Live : ~Good(h)}
  <1>1. ASSUME NEW h \in Live, AtTop(h) \/ Good(Over(h)) PROVE Good(h)
    <2>1. CASE AtTop(h)
      <3>1. Ancestors[h] = {h}
        BY <2>1, OneUp
      <3> QED BY <3>1
    <2>2. CASE ~AtTop(h)
      <3>1. PICK q : q = Over(h)
        OBVIOUS
      <3>2. Ancestors[h] = {h} \cup Ancestors[q] /\ Good(q) /\ h \in Ancestors[h]
        BY <1>1, <2>2, <3>1, OneUp
      <3>3. Ancestors[h] \subseteq Live
        BY <3>2
      <3>4. ASSUME NEW g \in Ancestors[h] PROVE Ancestors[g] \subseteq Ancestors[h]
        BY <3>2
      <3>5. ASSUME NEW x \in Ancestors[h], NEW y \in Ancestors[h]
            PROVE  x \in Ancestors[y] \/ y \in Ancestors[x]
        BY <3>2
      <3> QED BY <3>3, <3>4, <3>5
    <2> QED BY <2>1, <2>2
  <1>2. ASSUME B # {} PROVE FALSE
    <2>1. B \in SUBSET Live
      OBVIOUS
    <2>2. PICK h \in B : AtTop(h) \/ Over(h) \notin B
      <3> HIDE DEF B
      <3> QED BY <1>2, <2>1, TopBlock
    <2>3. AtTop(h) \/ Good(Over(h))
      <3>1. ~AtTop(h) => Over(h) \in Live
        BY <2>1, OneUp
      <3> HIDE DEF Good
      <3> QED BY <2>2, <3>1 DEF B
    <2> HIDE DEF Good
    <2> QED BY <1>1, <2>2, <2>3
  <1> QED BY <1>2

\* No two blocks are above each other, and the ancestors tell a block.
LEMMA NoTwo ==
  ASSUME IInv
  PROVE  /\ \A g, h \in Live : g \in Ancestors[h] /\ h \in Ancestors[g] => g = h
         /\ \A g, h \in Live : Ancestors[g] = Ancestors[h] => g = h
  <1>1. ASSUME NEW g \in Live, NEW h \in Live, g \in Ancestors[h], h \in Ancestors[g], g # h
        PROVE  FALSE
    <2>1. ~AtTop(h)
      BY <1>1, OneUp
    <2>2. PICK q : q = Over(h)
      OBVIOUS
    <2>3. q \in Live /\ Ancestors[h] = {h} \cup Ancestors[q] /\ h \notin Ancestors[q]
      BY <2>1, <2>2, OneUp
    <2>4. g \in Ancestors[q]
      BY <1>1, <2>3
    <2>5. Ancestors[g] \subseteq Ancestors[q]
      BY <2>3, <2>4, Lines
    <2> QED BY <1>1, <2>3, <2>5
  <1>2. \A g, h \in Live : Ancestors[g] = Ancestors[h] => g \in Ancestors[h] /\ h \in Ancestors[g]
    BY OneUp
  <1> QED BY <1>1, <1>2

\* What is below a block is below one of its children, or is one.
LEMMA OnTheWay ==
  ASSUME IInv, NEW h \in Live
  PROVE  \A x \in Live : h \in Ancestors[x] /\ x # h =>
            \E c \in Live : ~AtTop(c) /\ Over(c) = h /\ c \in Ancestors[x]
  <1> DEFINE Fine(x) == \E c \in Live : ~AtTop(c) /\ Over(c) = h /\ c \in Ancestors[x]
             B == {x \in Live : h \in Ancestors[x] /\ x # h /\ ~Fine(x)}
  <1>1. ASSUME B # {} PROVE FALSE
    <2>1. B \in SUBSET Live
      OBVIOUS
    <2>2. PICK x \in B : AtTop(x) \/ Over(x) \notin B
      <3> HIDE DEF B
      <3> QED BY <1>1, <2>1, TopBlock
    <2>3. x \in Live /\ h \in Ancestors[x] /\ x # h /\ ~Fine(x)
      OBVIOUS
    <2>4. ~AtTop(x)
      BY <2>3, OneUp
    <2>5. PICK q : q = Over(x)
      OBVIOUS
    <2>6. q \in Live /\ Ancestors[x] = {x} \cup Ancestors[q] /\ x \in Ancestors[x]
      BY <2>3, <2>4, <2>5, OneUp
    <2>7. q # h
      BY <2>3, <2>4, <2>5, <2>6
    <2>8. Fine(q)
      BY <2>2, <2>3, <2>4, <2>5, <2>6, <2>7
    <2> QED BY <2>3, <2>6, <2>8
  <1> QED BY <1>1

\* Of any blocks one has none of its children among them.
LEMMA BottomBlock ==
  ASSUME IInv, NEW B \in SUBSET Live, B # {}
  PROVE  \E h \in B : \A c \in Live : ~AtTop(c) /\ Over(c) = h => c \notin B
  <1>1. PICK f : f = [h \in Live |-> {d \in Hash : h \in Ancestors[d]}]
    OBVIOUS
  <1>2. \A h \in Live : f[h] = {d \in Hash : h \in Ancestors[d]}
    BY <1>1
  <1>3. PICK h \in B : Least(B, f, h)
    <2>1. \A h \in B : f[h] \in SUBSET Hash
      BY <1>2
    <2> QED BY <2>1, LeastSet
  <1>4. ASSUME NEW c \in Live, ~AtTop(c), Over(c) = h, c \in B PROVE FALSE
    <2>1. h \in Live /\ c # h /\ h \in Ancestors[c] /\ h \in Ancestors[h] /\ h \in Hash
      BY <1>4, OneUp
    <2>2. f[c] \subseteq f[h]
      <3> SUFFICES ASSUME NEW d \in Hash, c \in Ancestors[d] PROVE h \in Ancestors[d]
        BY <1>2, <2>1
      <3>1. d \in Live
        BY OneUp
      <3> QED BY <2>1, <3>1, Lines
    <2>3. h \in f[h] /\ h \notin f[c]
      BY <1>2, <2>1, NoTwo
    <2> QED BY <1>3, <1>4, <2>2, <2>3 DEF Least
  <1> QED BY <1>4

\* The queries of TreeShape for a node, in terms of the records.
LEMMA Queries ==
  ASSUME IInv
  PROVE  \A h \in Live :
           /\ Tree!Children(h) = Kids(index[h])
           /\ Tree!ChildCount(h) = nodes[index[h]].children
           /\ Tree!Subtree(h) = {d \in Live : h \in Ancestors[d]}
           /\ Tree!Parent(h) = IF AtTop(h) THEN NoHash ELSE Over(h)
  <1> SUFFICES ASSUME NEW h \in Live
               PROVE  /\ Tree!Children(h) = Kids(index[h])
                      /\ Tree!ChildCount(h) = nodes[index[h]].children
                      /\ Tree!Subtree(h) = {d \in Live : h \in Ancestors[d]}
                      /\ Tree!Parent(h) = IF AtTop(h) THEN NoHash ELSE Over(h)
    OBVIOUS
  <1>1. h \in Hash /\ h \in Ancestors[h] /\ Live \subseteq Hash
    BY OneUp
  <1>2. Tree!Subtree(h) = {d \in Live : h \in Ancestors[d]}
    BY <1>1, OneUp DEF Tree!Subtree
  <1>3. Tree!Children(h) = {c \in Live : /\ h \in Ancestors[c] /\ c # h
                                         /\ Ancestors[c] = Ancestors[h] \cup {c}}
    BY <1>2 DEF Tree!Children, Tree!Below
  <1>4. ASSUME NEW c \in Live
        PROVE  (h \in Ancestors[c] /\ c # h /\ Ancestors[c] = Ancestors[h] \cup {c})
                  <=> ~AtTop(c) /\ Over(c) = h
    <2>1. ASSUME ~AtTop(c), Over(c) = h
          PROVE  h \in Ancestors[c] /\ c # h /\ Ancestors[c] = Ancestors[h] \cup {c}
      BY <1>1, <2>1, OneUp
    <2>2. ASSUME h \in Ancestors[c], c # h, Ancestors[c] = Ancestors[h] \cup {c}
          PROVE  ~AtTop(c) /\ Over(c) = h
      <3>1. ~AtTop(c)
        BY <2>2, OneUp
      <3>2. PICK q : q = Over(c)
        OBVIOUS
      <3>3. /\ q \in Live /\ Ancestors[c] = {c} \cup Ancestors[q] /\ c \notin Ancestors[q]
        BY <3>1, <3>2, OneUp
      <3>4. c \notin Ancestors[h]
        BY <2>2, NoTwo
      <3>5. Ancestors[q] = Ancestors[h]
        BY <2>2, <3>3, <3>4
      <3> QED BY <3>1, <3>2, <3>3, <3>5, NoTwo
    <2> QED BY <2>1, <2>2
  <1>5. Kids(index[h]) = {c \in Live : ~AtTop(c) /\ Over(c) = h}
    <2>1. \A c \in Live : c \in Kids(index[h]) <=> ~AtTop(c) /\ Over(c) = h
      BY OneUp
    <2> QED BY <2>1 DEF Kids
  <1>6. Tree!Children(h) = Kids(index[h])
    BY <1>3, <1>4, <1>5
  <1>7. Tree!ChildCount(h) = nodes[index[h]].children
    <2>1. index[h] \in Trunk
      BY DEF Trunk, Standing
    <2>2. nodes[index[h]].children = Cardinality(Kids(index[h]))
      BY <2>1 DEF IInv, Hanging
    <2>3. Tree!Cardinality(Kids(index[h])) = Cardinality(Kids(index[h]))
      BY Zenon DEF Tree!Cardinality, Cardinality
    <2> QED BY <1>6, <2>2, <2>3 DEF Tree!ChildCount
  <1>8. Tree!Parent(h) = IF AtTop(h) THEN NoHash ELSE Over(h)
    <2>1. CASE AtTop(h)
      BY <2>1, OneUp DEF Tree!Parent, Tree!NoNode, NoHash
    <2>2. CASE ~AtTop(h)
      <3>1. PICK q : q = Over(h)
        OBVIOUS
      <3>2. /\ q \in Live /\ Ancestors[h] = {h} \cup Ancestors[q] /\ h \notin Ancestors[q]
            /\ q \in Ancestors[q]
        BY <2>2, <3>1, OneUp
      <3>3. Ancestors[h] # {h} /\ q \in Ancestors[h] \ {h} /\ Ancestors[q] = Ancestors[h] \ {h}
        BY <3>2
      <3>4. \A p \in Ancestors[h] \ {h} : Ancestors[p] = Ancestors[h] \ {h} => p = q
        <4>1. \A p \in Ancestors[h] : p \in Live
          BY Lines
        <4> QED BY <3>2, <3>3, <4>1, NoTwo
      <3>5. (CHOOSE p \in Ancestors[h] \ {h} : Ancestors[p] = Ancestors[h] \ {h}) = q
        BY <3>3, <3>4
      <3> QED BY <2>2, <3>1, <3>3, <3>5 DEF Tree!Parent
    <2> QED BY <2>1, <2>2
  <1> QED BY <1>2, <1>6, <1>7, <1>8

-----------------------------------------------------------------------------
(* The walks.                                                              *)

\* The climb along a segment ends at h.
Stops(h) == AtTop(h) \/ nodes[nodes[index[h]].parent].children >= 2

\* The child count of a record is the number of children in the tree.
LEMMA Counts ==
  ASSUME IInv
  PROVE  \A h \in Live : Tree!ChildCount(h) = nodes[index[h]].children
                         /\ nodes[index[h]].children \in Int
  <1>1. \A h \in Live : index[h] \in Slots
    BY TrunkSlots DEF IInv, Trunk, Standing
  <1>2. \A h \in Live : nodes[index[h]].children \in Int
    BY <1>1 DEF IInv, Typed, Record
  <1> QED BY <1>2, Queries

\* A segment goes on above a block that is an only child.
LEMMA SegmentUp ==
  ASSUME IInv, NEW e \in Live
  PROVE  /\ Stops(e) => Tree!Segment(e) = {e}
         /\ ~Stops(e) => /\ ~AtTop(e)
                         /\ Tree!Segment(e) = {e} \cup Tree!Segment(Over(e))
  <1>1. /\ e \in Ancestors[e] /\ \A x \in Ancestors[e] : x \in Live
        /\ \A x \in Ancestors[e] \ {e} : e \notin Ancestors[x]
    BY OneUp, Lines, NoTwo
  <1>2. \A x \in Ancestors[e] : Tree!ChildCount(x) = nodes[index[x]].children
                                /\ nodes[index[x]].children \in Int
    BY <1>1, Counts
  <1>3. Tree!Segment(e) = {a \in Ancestors[e] : \A x \in Ancestors[e] \ {e} :
                              a \in Ancestors[x] => nodes[index[x]].children < 2}
    BY <1>2 DEF Tree!Segment
  <1>4. CASE AtTop(e)
    <2>1. Ancestors[e] = {e}
      BY <1>4, OneUp
    <2> QED BY <1>3, <1>4, <2>1 DEF Stops
  <1>5. CASE ~AtTop(e)
    <2>1. PICK q : q = Over(e)
      OBVIOUS
    <2>2. /\ q \in Live /\ Ancestors[e] = {e} \cup Ancestors[q] /\ e \notin Ancestors[q]
          /\ index[q] = nodes[index[e]].parent /\ q \in Ancestors[q]
      BY <1>5, <2>1, OneUp
    <2>3. Stops(e) <=> nodes[index[q]].children >= 2
      BY <1>5, <2>2 DEF Stops
    <2>4. nodes[index[q]].children \in Int
      BY <1>2, <2>2
    <2>5. CASE nodes[index[q]].children >= 2
      <3>1. ASSUME NEW a \in Tree!Segment(e) PROVE a = e
        <4>1. a \in Ancestors[q] => nodes[index[q]].children < 2
          BY <1>3, <2>2
        <4> QED BY <1>3, <2>2, <2>4, <2>5, <4>1
      <3>2. e \in Tree!Segment(e)
        BY <1>1, <1>3
      <3> QED BY <2>3, <2>5, <3>1, <3>2
    <2>6. CASE ~(nodes[index[q]].children >= 2)
      <3>1. Tree!Segment(q) = {a \in Ancestors[q] : \A x \in Ancestors[q] \ {q} :
                                  a \in Ancestors[x] => nodes[index[x]].children < 2}
        <4>1. \A x \in Ancestors[q] : Tree!ChildCount(x) = nodes[index[x]].children
          BY <1>2, <2>2
        <4> QED BY <4>1 DEF Tree!Segment
      <3>2. nodes[index[q]].children < 2
        BY <2>4, <2>6
      <3>3. ASSUME NEW a \in Ancestors[q]
            PROVE  a \in Tree!Segment(e) <=> a \in Tree!Segment(q)
        <4>1. Ancestors[e] \ {e} = Ancestors[q]
          BY <2>2
        <4> QED BY <1>3, <2>2, <3>1, <3>2, <3>3, <4>1
      <3>4. e \in Tree!Segment(e)
        BY <1>1, <1>3
      <3>5. Tree!Segment(e) \subseteq Ancestors[e] /\ Tree!Segment(q) \subseteq Ancestors[q]
        BY <1>3, <3>1
      <3> QED BY <1>5, <2>1, <2>2, <2>3, <2>6, <3>3, <3>4, <3>5
    <2> QED BY <2>5, <2>6
  <1> QED BY <1>4, <1>5

\* resolve_segment() climbs the segment.
LEMMA RunIs ==
  ASSUME IInv
  PROVE  \A e \in Live : Run[index[e]] = Tree!Segment(e)
  <1> DEFINE Climb(f) ==
                f = [s \in Standing |->
                       {nodes[s].hash} \cup
                          IF nodes[s].parent = Root \/ nodes[nodes[s].parent].children >= 2 THEN {}
                          ELSE f[nodes[s].parent]]
             g == [s \in Standing |-> Tree!Segment(nodes[s].hash)]
  <1>1. ASSUME NEW s \in Standing
        PROVE  /\ nodes[s].hash \in Live /\ index[nodes[s].hash] = s
               /\ Stops(nodes[s].hash) <=> \/ nodes[s].parent = Root
                                           \/ nodes[nodes[s].parent].children >= 2
               /\ nodes[s].parent # Root => /\ nodes[s].parent \in Standing
                                            /\ Over(nodes[s].hash) = nodes[nodes[s].parent].hash
    <2>1. nodes[s].hash \in Live /\ index[nodes[s].hash] = s
      BY OneUp
    <2>2. nodes[s].parent = Root \/ nodes[s].parent \in Standing
      BY DEF IInv, Hanging, Used, Trunk
    <2> QED BY <2>1, <2>2 DEF Stops, AtTop, Over
  <1>2. \A s \in Standing : g[s] = Tree!Segment(nodes[s].hash)
    OBVIOUS
  <1>3. Climb(g)
    <2> SUFFICES ASSUME NEW s \in Standing
                 PROVE  g[s] = {nodes[s].hash} \cup
                          IF nodes[s].parent = Root \/ nodes[nodes[s].parent].children >= 2 THEN {}
                          ELSE g[nodes[s].parent]
      OBVIOUS
    <2> HIDE DEF g
    <2>1. PICK e : e = nodes[s].hash
      OBVIOUS
    <2>2. e \in Live /\ g[s] = Tree!Segment(e)
      BY <1>1, <1>2, <2>1
    <2>3. CASE Stops(e)
      BY <1>1, <2>1, <2>2, <2>3, SegmentUp
    <2>4. CASE ~Stops(e)
      <3>1. nodes[s].parent \in Standing /\ Over(e) = nodes[nodes[s].parent].hash
        BY <1>1, <2>1, <2>4
      <3>2. Tree!Segment(e) = {e} \cup Tree!Segment(Over(e))
        BY <2>2, <2>4, SegmentUp
      <3>3. g[nodes[s].parent] = Tree!Segment(Over(e))
        BY <1>2, <3>1
      <3> QED BY <1>1, <2>1, <2>2, <2>4, <3>2, <3>3
    <2> QED BY <2>3, <2>4
  <1>4. Climb(Run)
    <2>1. Run = CHOOSE f : Climb(f)
      BY Zenon DEF Run
    <2> HIDE DEF Climb, g
    <2> QED BY <1>3, <2>1, Zenon
  <1>5. \A s \in Standing :
           Run[s] = {nodes[s].hash} \cup
                      IF nodes[s].parent = Root \/ nodes[nodes[s].parent].children >= 2 THEN {}
                      ELSE Run[nodes[s].parent]
    BY <1>4
  <1> HIDE DEF Climb, g
  <1> DEFINE B == {e \in Live : Run[index[e]] # Tree!Segment(e)}
  <1>6. ASSUME B # {} PROVE FALSE
    <2>1. B \in SUBSET Live
      OBVIOUS
    <2>2. PICK e \in B : AtTop(e) \/ Over(e) \notin B
      <3> HIDE DEF B
      <3> QED BY <1>6, <2>1, TopBlock
    <2>3. PICK s : s = index[e]
      OBVIOUS
    <2>4. e \in Live /\ s \in Standing /\ nodes[s].hash = e
      BY <2>3, OneUp
    <2>5. CASE Stops(e)
      <3>1. Run[s] = {e} /\ Tree!Segment(e) = {e}
        BY <1>1, <1>5, <2>4, <2>5, SegmentUp
      <3> QED BY <2>3, <3>1
    <2>6. CASE ~Stops(e)
      <3>1. ~AtTop(e) /\ Tree!Segment(e) = {e} \cup Tree!Segment(Over(e))
        BY <2>4, <2>6, SegmentUp
      <3>2. Over(e) \in Live /\ index[Over(e)] = nodes[s].parent
        BY <2>3, <2>4, <3>1, OneUp
      <3>3. Run[index[Over(e)]] = Tree!Segment(Over(e))
        BY <2>2, <3>1, <3>2
      <3>4. Run[s] = {e} \cup Run[nodes[s].parent]
        BY <1>1, <1>5, <2>4, <2>6
      <3> QED BY <2>3, <3>1, <3>2, <3>3, <3>4
    <2> QED BY <2>5, <2>6
  <1> QED BY <1>6

\* The only child of a block is its first child.
LEMMA OnlyChild ==
  ASSUME IInv, SibInv, NEW h \in Live, nodes[index[h]].children = 1
  PROVE  \E c \in Live : /\ Kids(index[h]) = {c} /\ ~AtTop(c) /\ Over(c) = h
                         /\ nodes[index[h]].first = index[c]
  <1>1. index[h] \in Trunk /\ Kids(index[h]) \subseteq Live
    BY DEF Trunk, Standing, Kids
  <1>2. Cardinality(Kids(index[h])) = 1 /\ IsFiniteSet(Kids(index[h]))
    <2>1. Kids(index[h]) \subseteq Hash
      BY <1>1 DEF Live
    <2> QED BY <1>1, <2>1, RadixTreeAssumption, FS_Subset DEF IInv, Hanging
  <1>3. PICK c : Kids(index[h]) = {c}
    <2>1. Kids(index[h]) # {}
      BY <1>2, FS_EmptySet
    <2>2. PICK c : c \in Kids(index[h])
      BY <2>1
    <2>3. Cardinality(Kids(index[h]) \ {c}) = 0 /\ IsFiniteSet(Kids(index[h]) \ {c})
      <3>1. IsFiniteSet(Kids(index[h]))
        BY <1>2
      <3> QED BY <1>2, <2>2, <3>1, FS_RemoveElement
    <2>4. Kids(index[h]) \ {c} = {}
      BY <2>3, FS_EmptySet
    <2> QED BY <2>2, <2>4
  <1>4. c \in Live /\ ~AtTop(c) /\ Over(c) = h
    <2>1. c \in Live /\ c \in Kids(index[h])
      BY <1>1, <1>3
    <2> QED BY <2>1, OneUp
  <1>5. PICK u : u = nodes[index[h]].first
    OBVIOUS
  <1>6. Siblings[u] = {c} /\ u \in Ends
    BY <1>1, <1>3, <1>5 DEF SibInv, Linking
  <1>7. u \in Standing
    <2>1. Siblings[Invalid] = {}
      BY SiblingFacts
    <2> QED BY <1>6, <2>1 DEF Ends
  <1>8. nodes[u].hash \in Siblings[u] /\ index[nodes[u].hash] = u
    BY <1>7, SiblingFacts
  <1> QED BY <1>3, <1>4, <1>5, <1>6, <1>8

\* A segment leaf is found below the only child of a block, and is the block
\* when it has none or several.
LEMMA LeafDown ==
  ASSUME IInv, NEW h \in Live
  PROVE  /\ nodes[index[h]].children # 1 => Tree!SegmentLeaf(h) = {h}
         /\ \A c \in Live : nodes[index[h]].children = 1 /\ Kids(index[h]) = {c}
                               => Tree!SegmentLeaf(h) = Tree!SegmentLeaf(c)
  <1>1. \A n \in Live : Tree!SegmentLeaf(n) =
           {l \in Live : /\ n \in Ancestors[l] /\ nodes[index[l]].children # 1
                         /\ \A x \in Ancestors[l] \ {l} :
                               n \in Ancestors[x] => nodes[index[x]].children = 1}
    <2> SUFFICES ASSUME NEW n \in Live
                 PROVE  Tree!SegmentLeaf(n) =
                          {l \in Live : /\ n \in Ancestors[l] /\ nodes[index[l]].children # 1
                                        /\ \A x \in Ancestors[l] \ {l} :
                                              n \in Ancestors[x] => nodes[index[x]].children = 1}
      OBVIOUS
    <2>1. Tree!Subtree(n) = {d \in Live : n \in Ancestors[d]}
      BY Queries
    <2>2. \A l \in Live : \A x \in Ancestors[l] : x \in Live
      BY Lines
    <2>3. \A x \in Live : Tree!ChildCount(x) = nodes[index[x]].children
      BY Queries
    <2> QED BY <2>1, <2>2, <2>3 DEF Tree!SegmentLeaf
  <1>2. h \in Ancestors[h]
    BY OneUp
  <1>3. ASSUME nodes[index[h]].children # 1 PROVE Tree!SegmentLeaf(h) = {h}
    <2>1. ASSUME NEW l \in Tree!SegmentLeaf(h) PROVE l = h
      <3>1. h \in Ancestors[l] /\ (h \in Ancestors[l] \ {l} => nodes[index[h]].children = 1)
        BY <1>1, <1>2
      <3> QED BY <1>3, <3>1
    <2>2. \A x \in Ancestors[h] \ {h} : h \notin Ancestors[x]
      BY Lines, NoTwo
    <2>3. h \in Tree!SegmentLeaf(h)
      BY <1>1, <1>2, <1>3, <2>2
    <2> QED BY <2>1, <2>3
  <1>4. ASSUME NEW c \in Live, nodes[index[h]].children = 1, Kids(index[h]) = {c}
        PROVE  Tree!SegmentLeaf(h) = Tree!SegmentLeaf(c)
    <2>1. /\ c \in Ancestors[c] /\ h \in Ancestors[c] /\ Ancestors[c] = {c} \cup Ancestors[h]
          /\ \A d \in Live : ~AtTop(d) /\ Over(d) = h => d = c
      <3>1. \A d \in Live : d = c <=> ~AtTop(d) /\ Over(d) = h
        BY <1>4, OneUp
      <3> QED BY <1>2, <3>1, OneUp
    <2>2. \A x \in Live : c \in Ancestors[x] => h \in Ancestors[x]
      BY <2>1, Lines
    <2>3. \A x \in Live : h \in Ancestors[x] => x = h \/ c \in Ancestors[x]
      BY <2>1, OnTheWay
    <2>4. ASSUME NEW l \in Tree!SegmentLeaf(h) PROVE l \in Tree!SegmentLeaf(c)
      <3>1. /\ l \in Live /\ h \in Ancestors[l] /\ nodes[index[l]].children # 1
            /\ \A x \in Ancestors[l] \ {l} : h \in Ancestors[x] => nodes[index[x]].children = 1
        BY <1>1
      <3>2. c \in Ancestors[l]
        BY <1>4, <2>3, <3>1
      <3>3. \A x \in Ancestors[l] \ {l} : c \in Ancestors[x] => nodes[index[x]].children = 1
        <4>1. \A x \in Ancestors[l] : x \in Live
          BY <3>1, Lines
        <4> QED BY <2>2, <3>1, <4>1
      <3> QED BY <1>1, <3>1, <3>2, <3>3
    <2>5. ASSUME NEW l \in Tree!SegmentLeaf(c) PROVE l \in Tree!SegmentLeaf(h)
      <3>1. /\ l \in Live /\ c \in Ancestors[l] /\ nodes[index[l]].children # 1
            /\ \A x \in Ancestors[l] \ {l} : c \in Ancestors[x] => nodes[index[x]].children = 1
        BY <1>1
      <3>2. h \in Ancestors[l]
        BY <2>2, <3>1
      <3>3. ASSUME NEW x \in Ancestors[l] \ {l}, h \in Ancestors[x]
            PROVE  nodes[index[x]].children = 1
        <4>1. x \in Live
          BY <3>1, Lines
        <4>2. x = h \/ c \in Ancestors[x]
          BY <2>3, <3>3, <4>1
        <4> QED BY <1>4, <3>1, <4>2
      <3> QED BY <1>1, <3>1, <3>2, <3>3
    <2> QED BY <2>4, <2>5
  <1> QED BY <1>3, <1>4

\* The element of a set of one.
Lone(S) == CHOOSE x : S = {x}

\* Lone gives the element.
LEMMA LoneIs ==
  ASSUME NEW x
  PROVE  Lone({x}) = x
  BY DEF Lone

\* segment_leaf_for() follows only children down.
LEMMA LeafIs ==
  ASSUME IInv, SibInv
  PROVE  /\ \A h \in Live : Tree!SegmentLeaf(h) = {Leaf[index[h]]} /\ Leaf[index[h]] \in Live
         /\ \A s \in Standing : Leaf[s] = IF nodes[s].children = 1 THEN Leaf[nodes[s].first]
                                          ELSE nodes[s].hash
  <1> DEFINE Descend(f) == f = [s \in Standing |-> IF nodes[s].children = 1 THEN f[nodes[s].first]
                                                   ELSE nodes[s].hash]
             g == [s \in Standing |-> Lone(Tree!SegmentLeaf(nodes[s].hash))]
  <1>1. \A s \in Standing : nodes[s].hash \in Live /\ index[nodes[s].hash] = s
    BY OneUp
  <1>2. ASSUME NEW s \in Standing, nodes[s].children = 1
        PROVE  /\ nodes[s].first \in Standing
               /\ Tree!SegmentLeaf(nodes[s].hash) = Tree!SegmentLeaf(nodes[nodes[s].first].hash)
    <2>1. PICK h \in Live : h = nodes[s].hash /\ index[h] = s
      BY <1>1
    <2>2. PICK c \in Live : Kids(s) = {c} /\ nodes[s].first = index[c]
      BY <1>2, <2>1, OnlyChild
    <2>3. Tree!SegmentLeaf(h) = Tree!SegmentLeaf(c)
      BY <1>2, <2>1, <2>2, LeafDown
    <2>4. index[c] \in Standing /\ nodes[index[c]].hash = c
      BY OneUp
    <2> QED BY <2>1, <2>2, <2>3, <2>4
  <1>3. \A s \in Standing : nodes[s].children # 1 => Tree!SegmentLeaf(nodes[s].hash) = {nodes[s].hash}
    BY <1>1, LeafDown
  <1>4. Descend(g)
    <2>1. \A s \in Standing : g[s] = Lone(Tree!SegmentLeaf(nodes[s].hash))
      OBVIOUS
    <2>2. g = [s \in Standing |-> g[s]]
      OBVIOUS
    <2> HIDE DEF g
    <2>3. ASSUME NEW s \in Standing
          PROVE  g[s] = IF nodes[s].children = 1 THEN g[nodes[s].first] ELSE nodes[s].hash
      <3>1. CASE nodes[s].children = 1
        BY <1>2, <2>1, <3>1
      <3>2. CASE nodes[s].children # 1
        BY <1>3, <2>1, <3>2, LoneIs
      <3> QED BY <3>1, <3>2
    <2> QED BY <2>2, <2>3
  <1>5. Descend(Leaf)
    <2>1. Leaf = CHOOSE f : Descend(f)
      BY Zenon DEF Leaf
    <2> HIDE DEF Descend, g
    <2> QED BY <1>4, <2>1, Zenon
  <1>6. \A s \in Standing : Leaf[s] = IF nodes[s].children = 1 THEN Leaf[nodes[s].first]
                                      ELSE nodes[s].hash
    BY <1>5
  <1> HIDE DEF Descend, g
  <1> DEFINE Found(h) == Tree!SegmentLeaf(h) = {Leaf[index[h]]} /\ Leaf[index[h]] \in Live
             B == {h \in Live : ~Found(h)}
  <1>7. ASSUME B # {} PROVE FALSE
    <2>1. B \in SUBSET Live
      OBVIOUS
    <2>2. PICK h \in B : \A c \in Live : ~AtTop(c) /\ Over(c) = h => c \notin B
      <3> HIDE DEF B
      <3> QED BY <1>7, <2>1, BottomBlock
    <2>3. PICK s : s = index[h]
      OBVIOUS
    <2>4. h \in Live /\ s \in Standing /\ nodes[s].hash = h /\ ~Found(h)
      BY <2>3, OneUp
    <2>5. CASE nodes[s].children = 1
      <3>1. PICK c \in Live : Kids(s) = {c} /\ ~AtTop(c) /\ Over(c) = h /\ nodes[s].first = index[c]
        BY <2>3, <2>4, <2>5, OnlyChild
      <3>2. Found(c)
        <4> HIDE DEF Found
        <4> QED BY <2>2, <3>1 DEF B
      <3>3. Tree!SegmentLeaf(h) = Tree!SegmentLeaf(c) /\ Leaf[s] = Leaf[index[c]]
        BY <1>6, <2>3, <2>4, <2>5, <3>1, LeafDown
      <3> QED BY <2>3, <2>4, <3>2, <3>3
    <2>6. CASE nodes[s].children # 1
      <3>1. Tree!SegmentLeaf(h) = {h} /\ Leaf[s] = h
        BY <1>6, <2>3, <2>4, <2>6, LeafDown
      <3> QED BY <2>3, <2>4, <3>1
    <2> QED BY <2>5, <2>6
  <1> QED BY <1>6, <1>7

\* A block of a segment with no other above it.
Tops(h) == {t \in Tree!Segment(h) : Ancestors[t] \cap Tree!Segment(h) = {t}}

\* The climb along a segment stops at its top, or has the same top one block higher.
LEMMA TopsUp ==
  ASSUME IInv, NEW h \in Live
  PROVE  /\ Stops(h) => Tops(h) = {h}
         /\ ~Stops(h) => Tops(h) = Tops(Over(h))
  <1>1. h \in Ancestors[h]
    BY OneUp
  <1>2. CASE Stops(h)
    <2>1. Tree!Segment(h) = {h}
      BY <1>2, SegmentUp
    <2> QED BY <1>1, <1>2, <2>1 DEF Tops
  <1>3. CASE ~Stops(h)
    <2>1. PICK q : q = Over(h)
      OBVIOUS
    <2>2. ~AtTop(h) /\ Tree!Segment(h) = {h} \cup Tree!Segment(q)
      BY <1>3, <2>1, SegmentUp
    <2>3. q \in Live /\ Ancestors[h] = {h} \cup Ancestors[q] /\ h \notin Ancestors[q]
          /\ q \in Ancestors[q]
      BY <2>1, <2>2, OneUp
    <2>4. Tree!Segment(q) \subseteq Ancestors[q]
      BY DEF Tree!Segment
    <2>5. q \in Tree!Segment(q)
      BY <2>3, SegmentUp
    <2>6. h \notin Tops(h)
      <3>1. q \in Ancestors[h] \cap Tree!Segment(h) /\ q # h
        BY <2>2, <2>3, <2>5
      <3> QED BY <3>1 DEF Tops
    <2>7. ASSUME NEW t \in Tree!Segment(q) PROVE t \in Tops(h) <=> t \in Tops(q)
      <3>1. Ancestors[t] \subseteq Ancestors[q]
        BY <2>3, <2>4, Lines
      <3>2. Ancestors[t] \cap Tree!Segment(h) = Ancestors[t] \cap Tree!Segment(q)
        BY <2>2, <2>3, <3>1
      <3> QED BY <2>2, <3>2 DEF Tops
    <2>8. Tops(h) = Tops(q)
      BY <2>2, <2>6, <2>7 DEF Tops
    <2> QED BY <1>3, <2>1, <2>8
  <1> QED BY <1>2, <1>3

\* segment_top() climbs as long as resolve_segment() does.
LEMMA TopClimbs ==
  ASSUME IInv
  PROVE  \A h \in Live : TopOf[index[h]] = IF Stops(h) THEN h ELSE TopOf[index[Over(h)]]
  <1> DEFINE Climb(f) ==
                f = [s \in Standing |->
                       IF nodes[s].parent = Root \/ nodes[nodes[s].parent].children >= 2
                       THEN nodes[s].hash ELSE f[nodes[s].parent]]
             g == [s \in Standing |-> Lone(Tops(nodes[s].hash))]
  <1>1. ASSUME NEW s \in Standing
        PROVE  /\ nodes[s].hash \in Live /\ index[nodes[s].hash] = s
               /\ Stops(nodes[s].hash) <=> \/ nodes[s].parent = Root
                                           \/ nodes[nodes[s].parent].children >= 2
               /\ nodes[s].parent # Root => /\ nodes[s].parent \in Standing
                                            /\ Over(nodes[s].hash) = nodes[nodes[s].parent].hash
    <2>1. nodes[s].hash \in Live /\ index[nodes[s].hash] = s
      BY OneUp
    <2>2. nodes[s].parent = Root \/ nodes[s].parent \in Standing
      BY DEF IInv, Hanging, Used, Trunk
    <2> QED BY <2>1, <2>2 DEF Stops, AtTop, Over
  <1>2. Climb(g)
    <2>1. \A s \in Standing : g[s] = Lone(Tops(nodes[s].hash))
      OBVIOUS
    <2>2. g = [s \in Standing |-> g[s]]
      OBVIOUS
    <2> HIDE DEF g
    <2>3. ASSUME NEW s \in Standing
          PROVE  g[s] = IF nodes[s].parent = Root \/ nodes[nodes[s].parent].children >= 2
                        THEN nodes[s].hash ELSE g[nodes[s].parent]
      <3>1. PICK h \in Live : h = nodes[s].hash
        BY <1>1
      <3>2. CASE Stops(h)
        <4>1. g[s] = h
          BY <2>1, <3>1, <3>2, TopsUp, LoneIs
        <4> QED BY <1>1, <3>1, <3>2, <4>1
      <3>3. CASE ~Stops(h)
        <4>1. nodes[s].parent \in Standing /\ Over(h) = nodes[nodes[s].parent].hash
          BY <1>1, <3>1, <3>3
        <4>2. g[s] = g[nodes[s].parent]
          BY <2>1, <3>1, <3>3, <4>1, TopsUp
        <4> QED BY <1>1, <3>1, <3>3, <4>2
      <3> QED BY <3>2, <3>3
    <2> QED BY <2>2, <2>3
  <1>3. Climb(TopOf)
    <2>1. TopOf = CHOOSE f : Climb(f)
      BY Zenon DEF TopOf
    <2> HIDE DEF Climb, g
    <2> QED BY <1>2, <2>1, Zenon
  <1>4. \A s \in Standing :
           TopOf[s] = IF nodes[s].parent = Root \/ nodes[nodes[s].parent].children >= 2
                      THEN nodes[s].hash ELSE TopOf[nodes[s].parent]
    BY <1>3
  <1> HIDE DEF Climb, g
  <1> SUFFICES ASSUME NEW h \in Live
               PROVE  TopOf[index[h]] = IF Stops(h) THEN h ELSE TopOf[index[Over(h)]]
    OBVIOUS
  <1>5. PICK s : s = index[h]
    OBVIOUS
  <1>6. s \in Standing /\ nodes[s].hash = h
    BY <1>5, OneUp
  <1>7. ~AtTop(h) => index[Over(h)] = nodes[s].parent
    BY <1>5, OneUp
  <1> QED BY <1>1, <1>4, <1>5, <1>6, <1>7 DEF Stops

\* The segment above ends where the parent of the top of the segment is.
LEMMA SegmentAbove ==
  ASSUME IInv
  PROVE  \A e \in Live : Tree!ParentSegment(e) = {Tree!Parent(TopOf[index[e]])}
  <1> DEFINE Fits(e) == Tree!ParentSegment(e) = {Tree!Parent(TopOf[index[e]])}
             B == {e \in Live : ~Fits(e)}
  <1>1. ASSUME B # {} PROVE FALSE
    <2>1. B \in SUBSET Live
      OBVIOUS
    <2>2. PICK e \in B : AtTop(e) \/ Over(e) \notin B
      <3> HIDE DEF B
      <3> QED BY <1>1, <2>1, TopBlock
    <2>3. e \in Live /\ ~Fits(e) /\ e \in Ancestors[e]
      BY OneUp
    <2>4. TopOf[index[e]] = IF Stops(e) THEN e ELSE TopOf[index[Over(e)]]
      BY <2>3, TopClimbs
    <2>5. CASE AtTop(e)
      <3>1. Ancestors[e] = {e} /\ Stops(e) /\ Tree!Segment(e) = {e}
        BY <2>3, <2>5, OneUp, SegmentUp DEF Stops
      <3>2. Tree!ParentSegment(e) = {Tree!NoNode}
        BY <3>1 DEF Tree!ParentSegment
      <3>3. Tree!Parent(e) = Tree!NoNode
        BY <2>3, <2>5, Queries DEF Tree!NoNode, NoHash
      <3> QED BY <2>3, <2>4, <3>1, <3>2, <3>3
    <2>6. CASE ~AtTop(e)
      <3>1. PICK q : q = Over(e)
        OBVIOUS
      <3>2. /\ q \in Live /\ Ancestors[e] = {e} \cup Ancestors[q] /\ e \notin Ancestors[q]
            /\ q \in Ancestors[q]
        BY <2>3, <2>6, <3>1, OneUp
      <3>3. CASE Stops(e)
        <4>1. Tree!Segment(e) = {e} /\ TopOf[index[e]] = e
          BY <2>3, <2>4, <3>3, SegmentUp
        <4>2. Ancestors[e] \ Tree!Segment(e) = Ancestors[q]
          BY <3>2, <4>1
        <4>3. {p \in Ancestors[q] : Ancestors[p] = Ancestors[q]} = {q}
          <5>1. \A p \in Ancestors[q] : p \in Live
            BY <3>2, Lines
          <5> QED BY <3>2, <5>1, NoTwo
        <4>4. Tree!ParentSegment(e) = {q}
          BY <3>2, <4>2, <4>3 DEF Tree!ParentSegment
        <4>5. Tree!Parent(e) = q
          BY <2>3, <2>6, <3>1, Queries
        <4> QED BY <2>3, <4>1, <4>4, <4>5
      <3>4. CASE ~Stops(e)
        <4>1. Tree!Segment(e) = {e} \cup Tree!Segment(q) /\ TopOf[index[e]] = TopOf[index[q]]
          BY <2>3, <2>4, <3>1, <3>4, SegmentUp
        <4>2. Ancestors[e] \ Tree!Segment(e) = Ancestors[q] \ Tree!Segment(q)
          BY <3>2, <4>1
        <4>3. Tree!ParentSegment(e) = Tree!ParentSegment(q)
          BY <4>2 DEF Tree!ParentSegment
        <4>4. Fits(q)
          <5> HIDE DEF Fits
          <5> QED BY <2>2, <2>6, <3>1, <3>2 DEF B
        <4> QED BY <2>3, <4>1, <4>3, <4>4
      <3> QED BY <3>3, <3>4
    <2> QED BY <2>5, <2>6
  <1> QED BY <1>1

\* A block and the leaf of its segment have the same top.
LEMMA SameTop ==
  ASSUME IInv, SibInv
  PROVE  \A h \in Live : TopOf[index[Leaf[index[h]]]] = TopOf[index[h]]
  <1> DEFINE Same(h) == TopOf[index[Leaf[index[h]]]] = TopOf[index[h]]
             B == {h \in Live : ~Same(h)}
  <1>1. ASSUME B # {} PROVE FALSE
    <2>1. B \in SUBSET Live
      OBVIOUS
    <2>2. PICK h \in B : \A c \in Live : ~AtTop(c) /\ Over(c) = h => c \notin B
      <3> HIDE DEF B
      <3> QED BY <1>1, <2>1, BottomBlock
    <2>3. h \in Live /\ ~Same(h) /\ index[h] \in Standing /\ nodes[index[h]].hash = h
      BY OneUp
    <2>4. Leaf[index[h]] = IF nodes[index[h]].children = 1 THEN Leaf[nodes[index[h]].first] ELSE h
      BY <2>3, LeafIs
    <2>5. CASE nodes[index[h]].children = 1
      <3>1. PICK c \in Live : ~AtTop(c) /\ Over(c) = h /\ nodes[index[h]].first = index[c]
        BY <2>3, <2>5, OnlyChild
      <3>2. ~Stops(c)
        <4>1. nodes[index[c]].parent = index[h]
          BY <3>1, OneUp
        <4> QED BY <2>5, <3>1, <4>1 DEF Stops
      <3>3. TopOf[index[c]] = TopOf[index[h]]
        BY <3>1, <3>2, TopClimbs
      <3>4. Same(c)
        <4> HIDE DEF Same
        <4> QED BY <2>2, <3>1 DEF B
      <3> QED BY <2>3, <2>4, <2>5, <3>1, <3>3, <3>4
    <2>6. CASE nodes[index[h]].children # 1
      BY <2>3, <2>4, <2>6
    <2> QED BY <2>5, <2>6
  <1> QED BY <1>1

\* Siblings have the parent of the first of them.
LEMMA SameParent ==
  ASSUME IInv, SibInv
  PROVE  \A s \in Standing : Siblings[s] \subseteq Kids(nodes[s].parent)
  <1> DEFINE B == {s \in Standing : ~(Siblings[s] \subseteq Kids(nodes[s].parent))}
  <1>1. ASSUME B # {} PROVE FALSE
    <2>1. B \in SUBSET Ends /\ Chained(nodes, Ends, Siblings)
      BY DEF Ends, SibInv
    <2>2. PICK s \in B : s = Invalid \/ nodes[s].next \notin B
      <3> HIDE DEF B
      <3> QED BY <1>1, <2>1, LastSlot
    <2>3. /\ s \in Standing /\ s # Invalid /\ nodes[s].next \in Ends
          /\ Siblings[s] = {nodes[s].hash} \cup Siblings[nodes[s].next]
          /\ nodes[s].hash \in Kids(nodes[s].parent)
      BY SiblingFacts DEF Trunk, Kids
    <2>4. PICK n : n = nodes[s].next
      OBVIOUS
    <2>5. Siblings[n] \subseteq Kids(nodes[s].parent)
      <3>1. CASE n = Invalid
        BY <3>1, SiblingFacts
      <3>2. CASE n # Invalid
        <4>1. n \in Standing /\ nodes[n].parent = nodes[s].parent
          BY <2>3, <2>4, <3>2 DEF SibInv, Linking, Ends
        <4> QED BY <2>2, <2>3, <2>4, <4>1
      <3> QED BY <3>1, <3>2
    <2> QED BY <2>3, <2>4, <2>5
  <1> QED BY <1>1

\* What is below a block is its children and what is below them.
LEMMA BelowIs ==
  ASSUME IInv
  PROVE  \A h \in Live :
           /\ Tree!Below(h) = UNION {Tree!Subtree(c) : c \in Kids(index[h])}
           /\ Tree!Subtree(h) = {h} \cup Tree!Below(h) /\ h \notin Tree!Below(h)
           /\ Tree!Subtree(h) \in SUBSET Hash
  <1> SUFFICES ASSUME NEW h \in Live
               PROVE  /\ Tree!Below(h) = UNION {Tree!Subtree(c) : c \in Kids(index[h])}
                      /\ Tree!Subtree(h) = {h} \cup Tree!Below(h) /\ h \notin Tree!Below(h)
                      /\ Tree!Subtree(h) \in SUBSET Hash
    OBVIOUS
  <1>1. /\ h \in Ancestors[h] /\ h \in Hash
        /\ \A c \in Live : c \in Kids(index[h]) <=> ~AtTop(c) /\ Over(c) = h
        /\ Kids(index[h]) \subseteq Live
    BY OneUp DEF Kids
  <1>2. \A n \in Live : Tree!Subtree(n) = {d \in Live : n \in Ancestors[d]}
    BY Queries
  <1>3. ASSUME NEW d \in Live, h \in Ancestors[d], d # h
        PROVE  \E c \in Kids(index[h]) : d \in Tree!Subtree(c)
    <2>1. PICK c \in Live : ~AtTop(c) /\ Over(c) = h /\ c \in Ancestors[d]
      BY <1>3, OnTheWay
    <2> QED BY <1>1, <1>2, <2>1
  <1>4. ASSUME NEW c \in Kids(index[h]), NEW d \in Tree!Subtree(c)
        PROVE  d \in Live /\ h \in Ancestors[d] /\ d # h
    <2>1. c \in Live /\ ~AtTop(c) /\ Over(c) = h
      BY <1>1
    <2>2. /\ Ancestors[c] = {c} \cup Ancestors[h] /\ c \notin Ancestors[h]
          /\ d \in Live /\ c \in Ancestors[d]
      BY <1>2, <2>1, OneUp
    <2>3. h \in Ancestors[d]
      BY <1>1, <2>2, Lines
    <2> QED BY <2>2, <2>3
  <1>5. Tree!Below(h) = {d \in Live : h \in Ancestors[d] /\ d # h}
    BY <1>2 DEF Tree!Below
  <1>6. Tree!Below(h) = UNION {Tree!Subtree(c) : c \in Kids(index[h])}
    BY <1>3, <1>4, <1>5
  <1> QED BY <1>1, <1>2, <1>5, <1>6 DEF Live

\* What a walk from slot s has to visit.
Spread(s) == UNION {Tree!Subtree(c) : c \in Siblings[s]}

\* has_memory_descendant() visits all that is below a block.
LEMMA VisitedIs ==
  ASSUME IInv, SibInv
  PROVE  \A s \in Ends : Visited[s] = Spread(s)
  <1> DEFINE Walk(f) == f = [s \in Ends |-> IF s = Invalid THEN {}
                                            ELSE {nodes[s].hash} \cup f[nodes[s].first]
                                                                 \cup f[nodes[s].next]]
             g == [s \in Ends |-> Spread(s)]
  <1>1. Spread(Invalid) = {} /\ Invalid \in Ends
    BY SiblingFacts DEF Spread, Ends
  <1>2. ASSUME NEW s \in Standing
        PROVE  /\ nodes[s].first \in Ends /\ nodes[s].next \in Ends /\ s # Invalid
               /\ Spread(s) = {nodes[s].hash} \cup Spread(nodes[s].first) \cup Spread(nodes[s].next)
               /\ nodes[s].hash \notin Spread(nodes[s].first)
               /\ nodes[s].hash \notin Spread(nodes[s].next)
    <2>1. PICK h \in Live : h = nodes[s].hash /\ index[h] = s
      BY OneUp
    <2>2. /\ nodes[s].next \in Ends /\ s # Invalid
          /\ Siblings[s] = {h} \cup Siblings[nodes[s].next] /\ h \notin Siblings[nodes[s].next]
      BY <2>1, SiblingFacts DEF Trunk
    <2>3. nodes[s].first \in Ends /\ Siblings[nodes[s].first] = Kids(s)
      BY DEF SibInv, Linking, Trunk
    <2>4. Tree!Below(h) = Spread(nodes[s].first)
      BY <2>1, <2>3, BelowIs DEF Spread
    <2>5. Tree!Subtree(h) = {h} \cup Tree!Below(h) /\ h \notin Tree!Below(h)
      BY BelowIs
    <2>6. Spread(s) = Tree!Subtree(h) \cup Spread(nodes[s].next)
      BY <2>2 DEF Spread
    <2>7. ASSUME NEW c \in Siblings[nodes[s].next] PROVE h \notin Tree!Subtree(c)
      <3>1. c # h /\ c \in Siblings[s] /\ h \in Siblings[s]
        BY <2>2
      <3>2. c \in Kids(nodes[s].parent) /\ h \in Kids(nodes[s].parent)
        BY <3>1, SameParent
      <3>3. /\ c \in Live /\ nodes[index[c]].parent = nodes[index[h]].parent
        BY <3>2 DEF Kids
      <3>4. ASSUME c \in Ancestors[h] PROVE FALSE
        <4>1. ~AtTop(h)
          BY <3>1, <3>4, OneUp
        <4>2. PICK q : q = Over(h)
          OBVIOUS
        <4>3. ~AtTop(c) /\ Over(c) = q
          BY <3>3, <4>1, <4>2 DEF AtTop, Over
        <4>4. /\ q \in Live /\ Ancestors[h] = {h} \cup Ancestors[q]
              /\ c \notin Ancestors[q]
          BY <3>3, <4>1, <4>2, <4>3, OneUp
        <4> QED BY <3>1, <3>4, <4>4
      <3> QED BY <3>3, <3>4, Queries
    <2>8. h \notin Spread(nodes[s].next)
      BY <2>7 DEF Spread
    <2> QED BY <2>1, <2>2, <2>3, <2>4, <2>5, <2>6, <2>8
  <1>3. Walk(g)
    <2>1. \A s \in Ends : g[s] = Spread(s)
      OBVIOUS
    <2>2. g = [s \in Ends |-> g[s]]
      OBVIOUS
    <2> HIDE DEF g
    <2>3. ASSUME NEW s \in Ends
          PROVE  g[s] = IF s = Invalid THEN {}
                        ELSE {nodes[s].hash} \cup g[nodes[s].first] \cup g[nodes[s].next]
      <3>1. CASE s = Invalid
        BY <1>1, <2>1, <3>1
      <3>2. CASE s # Invalid
        <4>1. s \in Standing
          BY <3>2 DEF Ends
        <4> QED BY <1>2, <2>1, <3>2, <4>1
      <3> QED BY <3>1, <3>2
    <2> QED BY <2>2, <2>3
  <1>4. Walk(Visited)
    <2>1. Visited = CHOOSE f : Walk(f)
      BY Zenon DEF Visited, Ends
    <2> HIDE DEF Walk, g
    <2> QED BY <1>3, <2>1, Zenon
  <1>5. \A s \in Ends : Visited[s] = IF s = Invalid THEN {}
                                     ELSE {nodes[s].hash} \cup Visited[nodes[s].first]
                                                          \cup Visited[nodes[s].next]
    BY <1>4
  <1>6. \A s \in Ends : g[s] = Spread(s)
    OBVIOUS
  <1> HIDE DEF Walk, g
  <1> DEFINE B == {s \in Ends : Visited[s] # Spread(s)}
  <1>7. ASSUME B # {} PROVE FALSE
    <2>1. \A s \in B : g[s] \in SUBSET Hash
      <3> SUFFICES ASSUME NEW s \in Ends PROVE Spread(s) \subseteq Hash
        BY <1>6
      <3>1. Siblings[s] \subseteq Live
        <4>1. CASE s = Invalid
          BY <4>1, SiblingFacts
        <4>2. CASE s # Invalid
          BY <4>2, SameParent DEF Ends, Kids
        <4> QED BY <4>1, <4>2
      <3> QED BY <3>1, BelowIs DEF Spread
    <2>2. PICK s \in B : Least(B, g, s)
      <3> HIDE DEF B
      <3> QED BY <1>7, <2>1, LeastSet
    <2>3. s \in Ends /\ Visited[s] # Spread(s)
      OBVIOUS
    <2>4. s \in Standing /\ s # Invalid
      BY <1>1, <1>5, <2>3 DEF Ends
    <2>5. /\ nodes[s].first \in Ends /\ nodes[s].next \in Ends
          /\ Spread(s) = {nodes[s].hash} \cup Spread(nodes[s].first) \cup Spread(nodes[s].next)
          /\ nodes[s].hash \notin Spread(nodes[s].first)
          /\ nodes[s].hash \notin Spread(nodes[s].next)
      BY <1>2, <2>4
    <2>6. ASSUME NEW t \in Ends, Spread(t) \subseteq Spread(s), nodes[s].hash \notin Spread(t)
          PROVE  Visited[t] = Spread(t)
      <3>1. nodes[s].hash \in Spread(s)
        BY <2>5
      <3>2. g[t] \subseteq g[s] /\ g[t] # g[s]
        BY <1>6, <2>3, <2>6, <3>1
      <3>3. t \notin B
        <4> HIDE DEF B
        <4> QED BY <2>2, <3>2 DEF Least
      <3> QED BY <3>3
    <2>7. Visited[nodes[s].first] = Spread(nodes[s].first)
      BY <2>5, <2>6
    <2>8. Visited[nodes[s].next] = Spread(nodes[s].next)
      BY <2>5, <2>6
    <2> QED BY <1>5, <2>3, <2>4, <2>5, <2>7, <2>8
  <1> QED BY <1>7

\* Following the links of the records gives, for each node, the segment it is
\* in, its children and all that is below it, in every order of siblings.
THEOREM WalksFollowTheTree == Spec => []WalksExact
  <1>1. IInv /\ SibInv => WalksExact
    <2> SUFFICES ASSUME IInv, SibInv, NEW h \in Live, NEW s, s = index[h], NEW e, e = Leaf[s]
                 PROVE  /\ Tree!SegmentLeaf(h) = {e}
                        /\ Tree!Segment(e) = Run[index[e]]
                        /\ Tree!ParentSegment(e) = {Tree!Parent(TopOf[s])}
                        /\ Tree!Children(h) = Siblings[nodes[s].first]
                        /\ Tree!ChildCount(h) = nodes[s].children
                        /\ Tree!Below(h) = Visited[nodes[s].first]
      BY DEF WalksExact
    <2>1. Tree!SegmentLeaf(h) = {e} /\ e \in Live
      BY LeafIs
    <2>2. Tree!Segment(e) = Run[index[e]]
      BY <2>1, RunIs
    <2>3. Tree!ParentSegment(e) = {Tree!Parent(TopOf[s])}
      BY <2>1, SegmentAbove, SameTop
    <2>4. nodes[s].first \in Ends /\ Siblings[nodes[s].first] = Kids(s)
      BY DEF SibInv, Linking, Trunk, Standing
    <2>5. Tree!Children(h) = Kids(s) /\ Tree!ChildCount(h) = nodes[s].children
      BY Queries
    <2>6. Tree!Below(h) = Visited[nodes[s].first]
      BY <2>4, BelowIs, VisitedIs DEF Spread
    <2> QED BY <2>1, <2>2, <2>3, <2>4, <2>5, <2>6
  <1> QED BY <1>1, LinksKept, PTL
=============================================================================
