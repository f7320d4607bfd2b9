-------------------------- MODULE ShadowPoolProofs --------------------------
(* Proofs about ShadowPool, for every number of blocks, streams and pages.  *)
EXTENDS ShadowPool, FiniteSetTheorems, TLAPS

\* Where the call is, and which variables it is using.
Places ==
    /\ pc \in {"idle", "place"} => victim = None /\ left = {}
    /\ pc \in {"place", "copy"} => target \in Key /\ mapping[target] = None
    /\ pc = "copy" => victim \in Block \ free /\ filled[victim] = PagesPerBlock

\* A stream appends to a block of its own, and a free block holds nothing.
Frontiers ==
    /\ \A s, t \in Stream : open[s] # None /\ open[s] = open[t] => s = t
    /\ \A s \in Stream, k \in Key : open[s] # None /\ k \in valid[open[s]] => k[1] = s
    /\ \A b \in free : valid[b] = {}

\* What is left of a collection belongs to one stream and fits the open block
\* of that stream or, when there is one, a free block.
Fits ==
    pc = "copy" =>
        /\ \A j, k \in left : j[1] = k[1]
        /\ \A k \in left : free = {} => Cardinality(left) <= Room(k[1])
        /\ Cardinality(left) < PagesPerBlock

IInv == TypeOK /\ Places /\ Frontiers /\ MappingExact /\ NoBlockStranded

\* The numbers the steps are about.
LEMMA Sizes ==
  /\ PagesPerBlock \in Nat \ {0} /\ IsFiniteSet(Block) /\ IsFiniteSet(Key)
  /\ None \notin Block
  /\ \A k \in Key : k[1] \in Stream
  BY ShadowPoolAssumption DEF Stream

\* A stream's open block is neither free nor full.
LEMMA OpenBlock ==
  ASSUME TypeOK, NoBlockStranded, NEW s \in Stream, open[s] # None
  PROVE  open[s] \in Block \ free /\ filled[open[s]] \in 0 .. PagesPerBlock - 1
  <1>1. open[s] \in Block
    BY DEF TypeOK
  <1>2. open[s] \notin free /\ filled[open[s]] < PagesPerBlock
    BY <1>1 DEF NoBlockStranded
  <1>3. filled[open[s]] \in 0 .. PagesPerBlock
    BY <1>1 DEF TypeOK
  <1> QED BY <1>1, <1>2, <1>3, Sizes

\* The initial state satisfies the invariant.
LEMMA InitIInv == Init => IInv
  <1> SUFFICES ASSUME Init PROVE IInv
    OBVIOUS
  <1>1. Cardinality(Block \ free) = 0
    BY FS_EmptySet DEF Init
  <1>2. TypeOK
    BY <1>1, Sizes DEF Init, TypeOK
  <1>3. Places /\ Frontiers /\ NoBlockStranded
    BY Sizes DEF Init, Places, Frontiers, NoBlockStranded
  <1>4. MappingExact
    BY Sizes DEF Init, MappingExact
  <1> QED BY <1>2, <1>3, <1>4 DEF IInv

\* A trim keeps the invariant.
LEMMA TrimIInv == ASSUME IInv, NEW k \in Key, Trim(k) PROVE IInv'
  <1> USE DEF IInv
  <1>1. pc = "idle" /\ mapping[k] \in Block /\ victim = None
    BY DEF Trim, TypeOK, Places
  <1>2. TypeOK'
    BY <1>1 DEF Trim, TypeOK
  <1>3. Places' /\ Frontiers'
    BY <1>1 DEF Trim, Places, Frontiers, TypeOK
  <1>4. MappingExact'
    <2> SUFFICES ASSUME NEW b \in Block
                 PROVE  {j \in Key : mapping'[j] = b} = valid'[b]
      BY <1>1, Sizes DEF Trim, MappingExact
    <2>1. {j \in Key : mapping[j] = b} = valid[b]
      BY <1>1, Sizes DEF MappingExact
    <2>2. mapping' = [mapping EXCEPT ![k] = None] /\ valid' = [valid EXCEPT ![mapping[k]] = @ \ {k}]
      BY DEF Trim
    <2> QED BY <1>1, <2>1, <2>2, Sizes DEF TypeOK
  <1>5. NoBlockStranded'
    BY <1>1 DEF Trim, NoBlockStranded, TypeOK
  <1> QED BY <1>2, <1>3, <1>4, <1>5

\* The begin of a write keeps the invariant.
LEMMA WriteIInv == ASSUME IInv, NEW k \in Key, Write(k) PROVE IInv'
  <1> USE DEF IInv
  <1>1. TypeOK'
    BY DEF Write, TypeOK
  <1>2. mapping[k] = None
    BY DEF Write, InUse
  <1>3. Places' /\ Frontiers' /\ MappingExact' /\ NoBlockStranded'
    BY <1>2 DEF Write, Places, Frontiers, MappingExact, NoBlockStranded
  <1> QED BY <1>1, <1>3

-----------------------------------------------------------------------------
(* append(), for a write and for a collection.                              *)

\* A page appended to the open block of its stream leaves the other blocks alone.
LEMMA Appended ==
  ASSUME TypeOK, Frontiers, NoBlockStranded, UNCHANGED free,
         NEW k \in Key, open[k[1]] # None, Append(k)
  PROVE  /\ filled' \in [Block -> 0 .. PagesPerBlock]
         /\ valid' \in [Block -> SUBSET Key] /\ open' \in [Stream -> Block \cup {None}]
         /\ \A b \in Block \ {open[k[1]]} : filled'[b] = filled[b] /\ valid'[b] = valid[b]
         /\ valid'[open[k[1]]] = valid[open[k[1]]] \cup {k}
         /\ Frontiers' /\ NoBlockStranded'
  <1> DEFINE s == k[1]
             o == open[s]
  <1>1. s \in Stream /\ o \in Block \ free /\ filled[o] \in 0 .. PagesPerBlock - 1
    BY Sizes, OpenBlock
  <1>2. /\ filled' = [filled EXCEPT ![o] = @ + 1]
        /\ valid' = [valid EXCEPT ![o] = @ \cup {k}]
        /\ filled[o] + 1 = PagesPerBlock => open' = [open EXCEPT ![s] = None]
        /\ filled[o] + 1 # PagesPerBlock => open' = open
    BY DEF Append
  <1>3. filled' \in [Block -> 0 .. PagesPerBlock]
    BY <1>1, <1>2, Sizes DEF TypeOK
  <1>4. valid' \in [Block -> SUBSET Key] /\ open' \in [Stream -> Block \cup {None}]
    BY <1>1, <1>2 DEF TypeOK
  <1>5. /\ \A b \in Block \ {o} : filled'[b] = filled[b] /\ valid'[b] = valid[b]
        /\ valid'[o] = valid[o] \cup {k} /\ filled'[o] = filled[o] + 1
    BY <1>1, <1>2 DEF TypeOK
  <1>6. \A t \in Stream : open'[t] = open[t] \/ (t = s /\ open'[t] = None)
    BY <1>1, <1>2 DEF TypeOK
  <1>7. open'[s] = (IF filled[o] + 1 = PagesPerBlock THEN None ELSE o)
    BY <1>1, <1>2 DEF TypeOK
  <1>8. \A j \in valid'[o] : j[1] = s
    BY <1>1, <1>5 DEF Frontiers, TypeOK
  <1> HIDE DEF o, s
  <1>9. Frontiers'
    <2>1. \A t, u \in Stream : open'[t] # None /\ open'[t] = open'[u] => t = u
      BY <1>6 DEF Frontiers
    <2>2. ASSUME NEW t \in Stream, NEW j \in Key, open'[t] # None, j \in valid'[open'[t]]
          PROVE  j[1] = t
      <3>1. open'[t] = open[t] /\ open[t] \in Block
        BY <1>6, <2>2 DEF TypeOK
      <3>2. CASE open[t] = o
        BY <1>1, <1>8, <2>2, <3>1, <3>2 DEF Frontiers, o
      <3>3. CASE open[t] # o
        BY <1>5, <2>2, <3>1, <3>3 DEF Frontiers
      <3> QED BY <3>2, <3>3
    <2>3. \A b \in free' : valid'[b] = {}
      BY <1>1, <1>5 DEF Frontiers, TypeOK
    <2> QED BY <2>1, <2>2, <2>3 DEF Frontiers
  <1>10. NoBlockStranded'
    <2> SUFFICES ASSUME NEW b \in Block
                 PROVE  /\ b \notin free /\ filled'[b] < PagesPerBlock
                              <=> \E t \in Stream : open'[t] = b
                        /\ \A i, j \in valid'[b] : i[1] = j[1]
      BY DEF NoBlockStranded
    <2>1. CASE b = o
      <3>1. \A t \in Stream : open[t] = o => t = s
        BY <1>1, Sizes DEF Frontiers, o
      <3>2. filled'[b] < PagesPerBlock <=> filled[o] + 1 # PagesPerBlock
        BY <1>1, <1>5, <2>1, Sizes
      <3>3. (\E t \in Stream : open'[t] = b) <=> filled[o] + 1 # PagesPerBlock
        BY <1>1, <1>6, <1>7, <2>1, <3>1, Sizes
      <3> QED BY <1>1, <1>8, <2>1, <3>2, <3>3
    <2>2. CASE b # o
      <3>1. (\E t \in Stream : open'[t] = b) <=> (\E t \in Stream : open[t] = b)
        BY <1>1, <1>6, <1>7, <2>2, Sizes DEF o
      <3> QED BY <1>5, <2>2, <3>1 DEF NoBlockStranded
    <2> QED BY <2>1, <2>2
  <1> QED BY <1>3, <1>4, <1>5, <1>9, <1>10 DEF o, s

\* Placing the page of a write keeps the invariant.
LEMMA PlaceIInv == ASSUME IInv, Place PROVE IInv'
  <1> USE DEF IInv
  <1>1. /\ target \in Key /\ mapping[target] = None /\ victim = None /\ left = {}
        /\ open[target[1]] # None /\ Append(target) /\ UNCHANGED free
    BY DEF Place, Places
  <1> DEFINE o == open[target[1]]
  <1>2. /\ filled' \in [Block -> 0 .. PagesPerBlock]
        /\ valid' \in [Block -> SUBSET Key] /\ open' \in [Stream -> Block \cup {None}]
        /\ \A b \in Block \ {o} : filled'[b] = filled[b] /\ valid'[b] = valid[b]
        /\ valid'[o] = valid[o] \cup {target}
        /\ Frontiers' /\ NoBlockStranded'
    BY <1>1, Appended
  <1>3. o \in Block
    BY <1>1, Sizes DEF TypeOK
  <1>4. mapping' = [mapping EXCEPT ![target] = o]
    BY DEF Place
  <1> HIDE DEF o
  <1>5. TypeOK'
    BY <1>1, <1>2, <1>3, <1>4 DEF Place, TypeOK
  <1>6. Places'
    BY <1>1 DEF Place, Places
  <1>7. MappingExact'
    <2> SUFFICES ASSUME NEW b \in Block PROVE {j \in Key : mapping'[j] = b} = valid'[b]
      BY <1>1, Sizes DEF Place, MappingExact
    <2>1. {j \in Key : mapping[j] = b} = valid[b]
      BY <1>1, Sizes DEF MappingExact
    <2>2. \A j \in Key : mapping'[j] = b <=> (IF j = target THEN b = o ELSE mapping[j] = b)
      BY <1>4 DEF TypeOK
    <2>3. CASE b = o
      BY <1>1, <1>2, <2>1, <2>2, <2>3
    <2>4. CASE b # o
      BY <1>1, <1>2, <2>1, <2>2, <2>4, Sizes
    <2> QED BY <2>3, <2>4
  <1> QED BY <1>2, <1>5, <1>6, <1>7

\* Copying a valid page of the victim keeps the invariant.
LEMMA CopyIInv == ASSUME IInv, NEW k \in Key, Copy(k) PROVE IInv'
  <1> USE DEF IInv
  <1> DEFINE o == open[k[1]]
  <1>1. /\ pc = "copy" /\ k \in left /\ o # None /\ Append(k) /\ UNCHANGED <<free, victim, pc, target>>
        /\ mapping' = [mapping EXCEPT ![k] = o] /\ left' = left \ {k}
    BY DEF Copy
  <1>2. /\ filled' \in [Block -> 0 .. PagesPerBlock]
        /\ valid' \in [Block -> SUBSET Key] /\ open' \in [Stream -> Block \cup {None}]
        /\ \A b \in Block \ {o} : filled'[b] = filled[b] /\ valid'[b] = valid[b]
        /\ valid'[o] = valid[o] \cup {k}
        /\ Frontiers' /\ NoBlockStranded'
    BY <1>1, Appended
  <1>3. o \in Block \ free /\ filled[o] \in 0 .. PagesPerBlock - 1
    BY <1>1, Sizes, OpenBlock
  <1> HIDE DEF o
  <1>4. victim \in Block \ free /\ filled[victim] = PagesPerBlock /\ victim # o
    BY <1>1, <1>3, Sizes DEF Places
  <1>5. mapping[k] = victim
    BY <1>1, <1>4 DEF MappingExact
  <1>6. target \in Key /\ mapping[target] = None /\ target # k
    BY <1>1, <1>4, <1>5, Sizes DEF Places
  <1>7. TypeOK'
    BY <1>1, <1>2, <1>3 DEF Copy, TypeOK
  <1>8. Places'
    <2>1. mapping'[target] = None /\ filled'[victim] = PagesPerBlock
      BY <1>1, <1>2, <1>4, <1>6 DEF TypeOK
    <2> QED BY <1>1, <1>4, <1>6, <2>1 DEF Places
  <1>9. MappingExact'
    <2> SUFFICES ASSUME NEW b \in Block
                 PROVE  {j \in Key : mapping'[j] = b} = IF b = victim THEN left' ELSE valid'[b]
      BY <1>1 DEF MappingExact
    <2>1. {j \in Key : mapping[j] = b} = IF b = victim THEN left ELSE valid[b]
      BY DEF MappingExact
    <2>2. \A j \in Key : mapping'[j] = b <=> (IF j = k THEN b = o ELSE mapping[j] = b)
      BY <1>1 DEF TypeOK
    <2>3. CASE b = o
      BY <1>2, <1>4, <2>1, <2>2, <2>3
    <2>4. CASE b = victim
      BY <1>1, <1>4, <2>1, <2>2, <2>4
    <2>5. CASE b # o /\ b # victim
      BY <1>2, <1>5, <2>1, <2>2, <2>5
    <2> QED BY <2>3, <2>4, <2>5
  <1> QED BY <1>2, <1>7, <1>8, <1>9

-----------------------------------------------------------------------------
(* allocate() and collect().                                                *)

\* Opening a free block for a stream keeps the invariant.
LEMMA OpenedIInv ==
  ASSUME IInv, pc \in {"place", "copy"},
         NEW s \in Stream, open[s] = None, NEW b \in Block, Opened(s, b)
  PROVE  IInv'
  <1> USE DEF IInv
  <1>1. /\ b \in free /\ free' = free \ {b} /\ active' = active + 1
        /\ filled' = [filled EXCEPT ![b] = 0] /\ valid' = [valid EXCEPT ![b] = {}]
        /\ open' = [open EXCEPT ![s] = b]
        /\ UNCHANGED <<nominal, mapping, target, victim, left, pc>>
    BY DEF Opened
  <1>2. valid' = valid
    BY <1>1 DEF Frontiers, TypeOK
  <1>3. \A t \in Stream : open[t] # b
    BY <1>1, OpenBlock, Sizes
  <1>4. TypeOK'
    <2>1. Block \ free' = (Block \ free) \cup {b} /\ b \notin Block \ free
      BY <1>1
    <2>2. Cardinality(Block \ free') = Cardinality(Block \ free) + 1
      BY <2>1, Sizes, FS_Subset, FS_AddElement
    <2> QED BY <1>1, <1>2, <2>2, Sizes DEF TypeOK
  <1>5. Places'
    BY <1>1 DEF Places, TypeOK
  <1>6. Frontiers'
    BY <1>1, <1>2, <1>3, Sizes DEF Frontiers, TypeOK
  <1>7. MappingExact'
    BY <1>1, <1>2 DEF MappingExact
  <1>8. NoBlockStranded'
    <2> SUFFICES ASSUME NEW c \in Block
                 PROVE  /\ c \notin free' /\ filled'[c] < PagesPerBlock
                              <=> \E t \in Stream : open'[t] = c
                        /\ \A j, k \in valid'[c] : j[1] = k[1]
      BY DEF NoBlockStranded
    <2>1. CASE c = b
      BY <1>1, <1>2, <2>1, Sizes DEF NoBlockStranded, TypeOK
    <2>2. CASE c # b
      <3>1. (\E t \in Stream : open'[t] = c) <=> (\E t \in Stream : open[t] = c)
        BY <1>1, <2>2, Sizes DEF TypeOK
      <3>2. filled'[c] = filled[c] /\ (c \in free' <=> c \in free)
        BY <1>1, <2>2 DEF TypeOK
      <3> QED BY <1>2, <3>1, <3>2 DEF NoBlockStranded
    <2> QED BY <2>1, <2>2
  <1> QED BY <1>4, <1>5, <1>6, <1>7, <1>8

\* Choosing a victim keeps the invariant.
LEMMA CollectIInv == ASSUME IInv, NEW b \in Block, Collect(b) PROVE IInv'
  <1> USE DEF IInv
  <1>1. /\ pc = "place" /\ pc' = "copy" /\ victim' = b /\ left' = valid[b] /\ victim = None
        /\ b \notin free /\ filled[b] = PagesPerBlock
        /\ UNCHANGED <<nominal, mapping, filled, valid, free, active, open, target>>
    BY DEF Collect, Places, Victims, Candidates, Full
  <1>2. TypeOK'
    BY <1>1 DEF TypeOK
  <1>3. Places' /\ Frontiers' /\ NoBlockStranded'
    BY <1>1 DEF Places, Frontiers, NoBlockStranded
  <1>4. MappingExact'
    BY <1>1, Sizes DEF MappingExact
  <1> QED BY <1>2, <1>3, <1>4

\* Erasing the victim, which holds no page any more, keeps the invariant.
LEMMA EraseIInv == ASSUME IInv, Erase PROVE IInv'
  <1> USE DEF IInv
  <1>1. /\ pc = "copy" /\ left = {} /\ pc' = "place" /\ victim' = None
        /\ victim \in Block \ free /\ filled[victim] = PagesPerBlock
        /\ filled' = [filled EXCEPT ![victim] = 0] /\ valid' = [valid EXCEPT ![victim] = {}]
        /\ free' = free \cup {victim} /\ active' = active - 1
        /\ target \in Key /\ mapping[target] = None
        /\ UNCHANGED <<nominal, mapping, open, target, left>>
    BY DEF Erase, Places
  <1>2. \A t \in Stream : open[t] # victim
    BY <1>1, OpenBlock, Sizes
  <1>3. TypeOK'
    <2>1. Block \ free' = (Block \ free) \ {victim} /\ victim \in Block \ free
      BY <1>1
    <2>2. Cardinality(Block \ free') = Cardinality(Block \ free) - 1
      BY <2>1, Sizes, FS_Subset, FS_RemoveElement
    <2> QED BY <1>1, <2>2, Sizes DEF TypeOK
  <1>4. Places' /\ Frontiers'
    BY <1>1, <1>2 DEF Places, Frontiers, TypeOK
  <1>5. MappingExact'
    <2> SUFFICES ASSUME NEW b \in Block PROVE {k \in Key : mapping[k] = b} = valid'[b]
      BY <1>1, Sizes DEF MappingExact
    <2>1. {k \in Key : mapping[k] = b} = IF b = victim THEN {} ELSE valid[b]
      BY <1>1 DEF MappingExact
    <2>2. valid'[b] = IF b = victim THEN {} ELSE valid[b]
      BY <1>1 DEF TypeOK
    <2> QED BY <2>1, <2>2
  <1>6. NoBlockStranded'
    <2> SUFFICES ASSUME NEW c \in Block
                 PROVE  /\ c \notin free' /\ filled'[c] < PagesPerBlock
                              <=> \E t \in Stream : open[t] = c
                        /\ \A j, k \in valid'[c] : j[1] = k[1]
      BY <1>1 DEF NoBlockStranded
    <2>1. CASE c = victim
      BY <1>1, <1>2, <2>1 DEF TypeOK
    <2>2. CASE c # victim
      BY <1>1, <2>2 DEF NoBlockStranded, TypeOK
    <2> QED BY <2>1, <2>2
  <1> QED BY <1>3, <1>4, <1>5, <1>6

\* Every step keeps the invariant.
LEMMA NextIInv == IInv /\ [Next]_vars => IInv'
  <1> SUFFICES ASSUME IInv, [Next]_vars PROVE IInv'
    OBVIOUS
  <1>1. CASE \E k \in Key : Trim(k) \/ Write(k)
    BY <1>1, TrimIInv, WriteIInv
  <1>2. CASE Place
    BY <1>2, PlaceIInv
  <1>3. CASE \E k \in Key : Copy(k)
    BY <1>3, CopyIInv
  <1>4. CASE \E b \in Block : Collect(b)
    BY <1>4, CollectIInv
  <1>5. CASE \E b \in Block : OpenForWrite(b)
    <2>1. PICK b \in Block : pc = "place" /\ open[target[1]] = None /\ Opened(target[1], b)
      BY <1>5 DEF OpenForWrite
    <2>2. target[1] \in Stream
      BY <2>1, Sizes DEF IInv, Places
    <2> QED BY <2>1, <2>2, OpenedIInv
  <1>6. CASE \E b \in Block : OpenForCopy(b)
    <2>1. PICK b \in Block, k \in left : pc = "copy" /\ open[k[1]] = None /\ Opened(k[1], b)
      BY <1>6 DEF OpenForCopy
    <2>2. k[1] \in Stream
      BY <2>1, Sizes DEF IInv, TypeOK
    <2> QED BY <2>1, <2>2, OpenedIInv
  <1>7. CASE Erase
    BY <1>7, EraseIInv
  <1>8. CASE Exhaust
    <2>1. TypeOK' /\ Places'
      BY <1>8 DEF Exhaust, IInv, TypeOK, Places
    <2>2. Frontiers'
      BY <1>8 DEF Exhaust, IInv, Frontiers
    <2>3. MappingExact' /\ NoBlockStranded'
      BY <1>8 DEF Exhaust, IInv, MappingExact, NoBlockStranded
    <2> QED BY <2>1, <2>2, <2>3 DEF IInv
  <1>9. CASE UNCHANGED vars
    <2>1. TypeOK' /\ Places'
      BY <1>9 DEF vars, IInv, TypeOK, Places
    <2>2. Frontiers'
      BY <1>9 DEF vars, IInv, Frontiers
    <2>3. MappingExact' /\ NoBlockStranded'
      BY <1>9 DEF vars, IInv, MappingExact, NoBlockStranded
    <2> QED BY <2>1, <2>2, <2>3 DEF IInv
  <1> QED BY <1>1, <1>2, <1>3, <1>4, <1>5, <1>6, <1>7, <1>8, <1>9 DEF Next, Step

-----------------------------------------------------------------------------
(* A collection, once begun, has room.                                      *)

\* The room of a stream is a number of pages.
LEMMA RoomIsPages ==
  ASSUME TypeOK, NoBlockStranded, NEW s \in Stream
  PROVE  Room(s) \in 0 .. PagesPerBlock
  <1>1. CASE open[s] = None
    BY <1>1, Sizes DEF Room
  <1>2. CASE open[s] # None
    <2>1. filled[open[s]] \in 0 .. PagesPerBlock - 1
      BY <1>2, OpenBlock
    <2> QED BY <1>2, <2>1, Sizes DEF Room
  <1> QED BY <1>1, <1>2

\* A victim has fewer pages than a block, all of one stream.
LEMMA CollectFits == ASSUME IInv, NEW b \in Block, Collect(b) PROVE Fits'
  <1>1. /\ left' = valid[b] /\ Cardinality(valid[b]) < PagesPerBlock /\ ~Refused(b)
        /\ UNCHANGED <<filled, free, open>>
    BY DEF Collect, Victims, Candidates
  <1>2. \A j, k \in valid[b] : j[1] = k[1]
    BY DEF IInv, NoBlockStranded
  <1>3. valid[b] \subseteq Key /\ Cardinality(valid[b]) \in Nat
    BY Sizes, FS_Subset, FS_CardinalityType DEF IInv, TypeOK
  <1>4. ASSUME NEW k \in valid[b], free = {}
        PROVE  Cardinality(valid[b]) <= Room(k[1])
    <2>1. PICK j \in valid[b] : ~(Room(j[1]) < Cardinality(valid[b]))
      BY <1>1, <1>4 DEF Refused
    <2>2. j[1] = k[1] /\ k[1] \in Stream
      BY <1>2, <1>3, <2>1, Sizes
    <2>3. Room(k[1]) \in 0 .. PagesPerBlock
      BY <2>2, RoomIsPages DEF IInv
    <2> QED BY <1>3, <2>1, <2>2, <2>3, Sizes
  <1>5. \A k \in valid[b] : Room(k[1])' = Room(k[1])
    BY <1>1 DEF Room
  <1> QED BY <1>1, <1>2, <1>4, <1>5 DEF Fits

\* append() takes one page of the room of its stream.
LEMMA AppendTakesRoom ==
  ASSUME TypeOK, NoBlockStranded, NEW k \in Key, open[k[1]] # None, Append(k)
  PROVE  /\ Room(k[1]) \in Int /\ Room(k[1])' = Room(k[1]) - 1
         /\ Room(k[1])' \in Int /\ Room(k[1])' >= Room(k[1]) - 1
  <1> DEFINE s == k[1]
             o == open[s]
  <1>1. /\ filled' = [filled EXCEPT ![o] = @ + 1]
        /\ filled[o] + 1 = PagesPerBlock => open' = [open EXCEPT ![s] = None]
        /\ filled[o] + 1 # PagesPerBlock => open' = open
    BY DEF Append
  <1>2. s \in Stream /\ o \in Block /\ filled[o] \in 0 .. PagesPerBlock - 1
    BY Sizes, OpenBlock
  <1>3. Room(s) = PagesPerBlock - filled[o]
    BY DEF Room
  <1>4. filled'[o] = filled[o] + 1
    BY <1>1, <1>2 DEF TypeOK
  <1>5. Room(s)' = Room(s) - 1
    <2>1. CASE filled[o] + 1 = PagesPerBlock
      <3>1. open'[s] = None
        BY <1>1, <1>2, <2>1 DEF TypeOK
      <3> QED BY <1>2, <1>3, <2>1, <3>1, Sizes DEF Room
    <2>2. CASE filled[o] + 1 # PagesPerBlock
      <3>1. open'[s] = o
        BY <1>1, <2>2
      <3>2. Room(s)' = PagesPerBlock - (filled[o] + 1)
        BY <1>4, <3>1 DEF Room
      <3> QED BY <1>2, <1>3, <3>2, Sizes
    <2> QED BY <2>1, <2>2
  <1>6. Room(s) \in Int
    BY <1>2, <1>3, Sizes
  <1> HIDE DEF o, s
  <1>7. Room(s)' \in Int /\ Room(s)' >= Room(s) - 1
    BY <1>5, <1>6
  <1> QED BY <1>5, <1>6, <1>7 DEF s

\* A copy takes one page from what is left and one place from the room for it.
LEMMA CopyFits == ASSUME IInv, Fits, NEW k \in Key, Copy(k) PROVE Fits'
  <1>1. /\ pc = "copy" /\ k \in left /\ open[k[1]] # None /\ Append(k)
        /\ left' = left \ {k} /\ free' = free
    BY DEF Copy
  <1>2. Cardinality(left) \in Nat /\ Cardinality(left') = Cardinality(left) - 1
    <2>1. IsFiniteSet(left)
      BY Sizes, FS_Subset DEF IInv, TypeOK
    <2> QED BY <1>1, <2>1, FS_CardinalityType, FS_RemoveElement
  <1>3. Room(k[1]) \in Int /\ Room(k[1])' = Room(k[1]) - 1
    BY <1>1, AppendTakesRoom DEF IInv
  <1>4. /\ \A j \in left : j[1] = k[1]
        /\ free = {} => Cardinality(left) <= Room(k[1])
        /\ Cardinality(left) < PagesPerBlock
    BY <1>1 DEF Fits
  <1>5. free' = {} => Cardinality(left') <= Room(k[1])'
    BY <1>1, <1>2, <1>3, <1>4
  <1>6. Cardinality(left') < PagesPerBlock
    BY <1>2, <1>4, Sizes
  <1>7. ASSUME NEW j \in left' PROVE j[1] = k[1]
    BY <1>1, <1>4
  <1>8. ASSUME NEW j \in left', free' = {} PROVE Cardinality(left') <= Room(j[1])'
    BY <1>5, <1>7, <1>8
  <1> QED BY <1>6, <1>7, <1>8 DEF Fits

\* A block opened for a collection has room for what is left of it.
LEMMA OpenForCopyFits == ASSUME IInv, Fits, NEW b \in Block, OpenForCopy(b) PROVE Fits'
  <1>1. PICK k \in left : pc = "copy" /\ open[k[1]] = None /\ Opened(k[1], b)
    BY DEF OpenForCopy
  <1>2. /\ filled' = [filled EXCEPT ![b] = 0] /\ open' = [open EXCEPT ![k[1]] = b]
        /\ left' = left
    BY <1>1 DEF Opened
  <1>3. k[1] \in Stream
    BY Sizes DEF IInv, TypeOK
  <1>4. filled'[b] = 0 /\ open'[k[1]] = b
    BY <1>2, <1>3 DEF IInv, TypeOK
  <1>5. Room(k[1])' = PagesPerBlock
    BY <1>4, Sizes DEF Room
  <1>6. Cardinality(left) \in Nat
    BY Sizes, FS_Subset, FS_CardinalityType DEF IInv, TypeOK
  <1>7. Cardinality(left) < PagesPerBlock /\ \A j \in left : j[1] = k[1]
    BY <1>1 DEF Fits
  <1>8. \A j \in left' : Cardinality(left') <= Room(j[1])'
    BY <1>2, <1>5, <1>6, <1>7, Sizes
  <1> QED BY <1>2, <1>7, <1>8 DEF Fits

\* Every step keeps the room for what is left of a collection.
LEMMA NextFits == IInv /\ Fits /\ [Next]_vars => Fits'
  <1> SUFFICES ASSUME IInv, Fits, [Next]_vars PROVE Fits'
    OBVIOUS
  <1>1. CASE \E b \in Block : Collect(b)
    BY <1>1, CollectFits
  <1>2. CASE \E k \in Key : Copy(k)
    BY <1>2, CopyFits
  <1>3. CASE \E b \in Block : OpenForCopy(b)
    BY <1>3, OpenForCopyFits
  <1>4. CASE UNCHANGED vars
    BY <1>4 DEF vars, Fits, Room
  <1>5. ASSUME NEW k \in Key, Trim(k) \/ Write(k) PROVE pc' # "copy"
    BY <1>5 DEF Trim, Write
  <1>6. CASE Place \/ Erase \/ Exhaust
    BY <1>6 DEF Place, Erase, Exhaust, Fits
  <1>7. ASSUME NEW b \in Block, OpenForWrite(b) PROVE pc' # "copy"
    BY <1>7 DEF OpenForWrite, Opened
  <1> QED BY <1>1, <1>2, <1>3, <1>4, <1>5, <1>6, <1>7 DEF Next, Step, Fits

\* Pages of other streams take no room, and a free block holds any rest.
LEMMA FitsSuffices == IInv /\ Fits => CollectionFits
  <1> SUFFICES ASSUME IInv, Fits, pc = "copy", NEW s \in Stream
               PROVE  Cardinality({k \in left : k[1] = s})
                        <= Room(s) + PagesPerBlock * Cardinality(free)
    BY DEF CollectionFits
  <1> DEFINE mine == {k \in left : k[1] = s}
             F == Cardinality(free)
  <1>1. Room(s) \in 0 .. PagesPerBlock
    BY RoomIsPages DEF IInv
  <1>2. Cardinality(left) \in Nat /\ F \in Nat /\ (free # {} => F # 0)
    BY Sizes, FS_Subset, FS_CardinalityType, FS_EmptySet DEF IInv, TypeOK
  <1>3. mine = {} => Cardinality(mine) = 0
    BY FS_EmptySet
  <1>4. mine # {} => Cardinality(mine) < PagesPerBlock /\ (free = {} => Cardinality(mine) <= Room(s))
    <2> SUFFICES ASSUME mine # {}
                 PROVE  Cardinality(mine) < PagesPerBlock /\ (free = {} => Cardinality(mine) <= Room(s))
      OBVIOUS
    <2>1. PICK k \in left : k[1] = s
      OBVIOUS
    <2>2. mine = left
      BY <2>1 DEF Fits
    <2> QED BY <2>1, <2>2 DEF Fits
  <1>5. Cardinality(mine) \in Nat
    <2>1. IsFiniteSet(left) /\ mine \subseteq left
      BY Sizes, FS_Subset DEF IInv, TypeOK
    <2> QED BY <2>1, FS_Subset, FS_CardinalityType
  <1> HIDE DEF mine, F
  <1>6. PagesPerBlock * F \in Nat /\ (F # 0 => PagesPerBlock <= PagesPerBlock * F)
    <2>1. \A p, n \in Nat : p * n \in Nat /\ (n # 0 => p <= p * n)
      BY Z3
    <2> QED BY <1>2, <2>1, Sizes
  <1>7. Cardinality(mine) <= Room(s) + PagesPerBlock * F
    <2> DEFINE r == Room(s)
               m == Cardinality(mine)
               h == PagesPerBlock * F
    <2>1. r \in Nat /\ m \in Nat /\ h \in Nat
      BY <1>1, <1>5, <1>6, Sizes
    <2>2. m = 0 \/ m <= r \/ (m < PagesPerBlock /\ PagesPerBlock <= h)
      BY <1>2, <1>3, <1>4, <1>6
    <2> HIDE DEF r, m, h
    <2>3. m <= r + h
      BY <2>1, <2>2, Sizes
    <2> QED BY <2>3 DEF r, m, h
  <1> QED BY <1>7 DEF mine, F

-----------------------------------------------------------------------------

\* The invariant of the pool and the room for a collection hold in every state.
THEOREM Invariance == Spec => [](IInv /\ Fits)
  <1>1. Init => IInv /\ Fits
    BY InitIInv DEF Init, Fits
  <1>2. IInv /\ Fits /\ [Next]_vars => (IInv /\ Fits)'
    BY NextIInv, NextFits
  <1> QED BY <1>1, <1>2, PTL DEF Spec

\* The pool keeps its types; active_ is the number of blocks that are not free.
THEOREM PoolTypes == Spec => []TypeOK
  BY Invariance, PTL DEF IInv

\* The mapping and the valid slots agree, while pages are moved too.
THEOREM PagesKept == Spec => []MappingExact
  BY Invariance, PTL DEF IInv

\* Every block is free, full or the one its stream has open, and holds pages
\* of one stream.
THEOREM BlocksKept == Spec => []NoBlockStranded
  BY Invariance, PTL DEF IInv

\* A collection that was begun has room for every page it must move.
THEOREM CollectionsComplete == Spec => []CollectionFits
  BY Invariance, FitsSuffices, PTL

-----------------------------------------------------------------------------
(* A pool with room enough.                                                 *)

\* Where the reserve suffices, writes stay below active_limit_, and only the
\* one block a collection may open exceeds it until the victim is erased.
Ready ==
    /\ pc # "exhausted"
    /\ pc \in {"place", "copy"} => Cardinality(InUse) < nominal
    /\ pc \in {"idle", "place"} => active <= ActiveLimit
    /\ pc = "copy" =>
          \/ active <= ActiveLimit
          \/ /\ active = ActiveLimit + 1
             /\ \A k \in left : Cardinality(left) <= Room(k[1])

Sufficient == nominal <= (ActiveLimit - Cardinality(Stream) + 1) * PagesPerBlock

Reserved == Sufficient => Ready

\* A nonempty set of natural numbers has a least element.
LEMMA LeastNatural ==
  ASSUME NEW T \in SUBSET Nat, T # {}
  PROVE  \E x \in T : \A y \in T : x <= y
  <1> DEFINE R == StrictSubsetOrdering(Nat)
             U == {0 .. x : x \in T}
  <1>1. U \subseteq FiniteSubsetsOf(Nat) /\ U # {}
    <2>1. ASSUME NEW x \in T PROVE 0 .. x \subseteq Nat /\ IsFiniteSet(0 .. x)
      BY FS_Interval
    <2> QED BY <2>1 DEF FiniteSubsetsOf
  <1>2. \E a \in U : \A b \in U : ~(<<b, a>> \in R)
    <2> HIDE DEF R, U
    <2> QED BY <1>1, FS_StrictSubsetOrderingWellFounded, WFMin, Zenon DEF R
  <1>3. PICK x \in T : \A y \in T : ~(<<0 .. y, 0 .. x>> \in R)
    BY <1>2
  <1>4. ASSUME NEW y \in T, y < x PROVE FALSE
    <2>1. 0 .. y \subseteq 0 .. x /\ x \in 0 .. x /\ x \notin 0 .. y
      BY <1>4
    <2>2. <<0 .. y, 0 .. x>> \in R
      BY <2>1 DEF StrictSubsetOrdering
    <2> QED BY <1>3, <2>2
  <1> QED BY <1>4

\* The streams and the pages in use are finite in number.
LEMMA StreamsFinite ==
  ASSUME TypeOK
  PROVE  /\ IsFiniteSet(Stream) /\ Cardinality(Stream) \in Nat
         /\ IsFiniteSet(InUse) /\ Cardinality(InUse) \in Nat
         /\ nominal \in Nat /\ active \in Nat /\ ActiveLimit \in Nat
  <1>1. IsFiniteSet(Stream)
    <2> DEFINE f == [k \in Key |-> k[1]]
    <2>1. f \in Surjection(Key, Stream)
      BY DEF Surjection, Stream
    <2> QED BY <2>1, Sizes, FS_Surjection
  <1>2. IsFiniteSet(InUse)
    BY Sizes, FS_Subset DEF InUse
  <1>3. active \in Nat
    <2>1. IsFiniteSet(Block \ free)
      BY Sizes, FS_Difference
    <2> QED BY <2>1, FS_CardinalityType DEF TypeOK
  <1>4. nominal \in Nat /\ ActiveLimit \in Nat
    BY ShadowPoolAssumption DEF TypeOK
  <1> QED BY <1>1, <1>2, <1>3, <1>4, FS_CardinalityType

\* Of the candidates one has the fewest valid pages.
LEMMA VictimAmongCandidates == ASSUME TypeOK, Victims = {} PROVE Candidates = {}
  <1> SUFFICES ASSUME Candidates # {} PROVE FALSE
    OBVIOUS
  <1> DEFINE T == {Cardinality(valid[b]) : b \in Candidates}
  <1>1. ASSUME NEW b \in Candidates PROVE Cardinality(valid[b]) \in Nat
    <2>1. valid[b] \in SUBSET Key
      BY DEF TypeOK, Candidates
    <2> QED BY <2>1, Sizes, FS_Subset, FS_CardinalityType
  <1>2. T \in SUBSET Nat /\ T # {}
    BY <1>1
  <1>3. PICK x \in T : \A y \in T : x <= y
    <2> HIDE DEF T
    <2> QED BY <1>2, LeastNatural
  <1>4. PICK b \in Candidates : x = Cardinality(valid[b])
    OBVIOUS
  <1>5. b \in Victims
    BY <1>3, <1>4 DEF Victims, Candidates
  <1> QED BY <1>5

\* Wholly valid blocks hold different pages: as many as they have slots.
LEMMA PagesOfFullBlocks ==
  ASSUME IInv, victim = None, NEW W \in SUBSET Block,
         \A b \in W : Cardinality(valid[b]) >= PagesPerBlock
  PROVE  Cardinality(W) * PagesPerBlock <= Cardinality(InUse)
  <1> DEFINE I == 1 .. PagesPerBlock
             J(b) == 1 .. Cardinality(valid[b])
             g == [b \in W |-> CHOOSE f : f \in Bijection(J(b), valid[b])]
             h == [w \in W \X I |-> g[w[1]][w[2]]]
  <1>1. ASSUME NEW b \in W
        PROVE  g[b] \in Bijection(J(b), valid[b]) /\ I \subseteq J(b)
    <2>1. valid[b] \in SUBSET Key /\ Cardinality(valid[b]) >= PagesPerBlock
      BY DEF IInv, TypeOK
    <2>2. IsFiniteSet(valid[b])
      BY <2>1, Sizes, FS_Subset
    <2>3. ExistsBijection(J(b), valid[b]) /\ Cardinality(valid[b]) \in Nat
      BY <2>2, FS_CardinalityType
    <2>4. I \subseteq J(b)
      BY <2>1, <2>3, Sizes
    <2>5. \E f : f \in Bijection(J(b), valid[b])
      BY <2>3 DEF ExistsBijection
    <2>6. g[b] = CHOOSE f : f \in Bijection(J(b), valid[b])
      OBVIOUS
    <2> HIDE DEF g, J
    <2> QED BY <2>4, <2>5, <2>6
  <1>2. ASSUME NEW b \in W
        PROVE  valid[b] = {k \in Key : mapping[k] = b} /\ b # None
    BY Sizes DEF IInv, MappingExact
  <1> HIDE DEF g
  <1>3. ASSUME NEW b \in W, NEW i \in I
        PROVE  g[b][i] \in InUse /\ mapping[g[b][i]] = b
    <2>1. g[b][i] \in valid[b]
      BY <1>1 DEF Bijection, Injection
    <2> QED BY <1>2, <2>1 DEF InUse
  <1>4. ASSUME NEW b \in W, NEW i \in I, NEW j \in I, g[b][i] = g[b][j]
        PROVE  i = j
    BY <1>1, <1>4 DEF Bijection, Injection, IsInjective
  <1> HIDE DEF I, J
  <1>5. h \in Injection(W \X I, InUse)
    <2>1. h \in [W \X I -> InUse]
      BY <1>3
    <2>2. ASSUME NEW v \in W \X I, NEW w \in W \X I, h[v] = h[w] PROVE v = w
      <3>1. PICK b \in W, i \in I : v = <<b, i>>
        OBVIOUS
      <3>2. PICK c \in W, j \in I : w = <<c, j>>
        OBVIOUS
      <3>3. h[v] = g[b][i] /\ h[w] = g[c][j]
        BY <3>1, <3>2
      <3>4. b = c
        BY <1>3, <2>2, <3>3
      <3> QED BY <1>4, <2>2, <3>1, <3>2, <3>3, <3>4
    <2> HIDE DEF h
    <2> QED BY <2>1, <2>2 DEF Injection, IsInjective
  <1>6. Cardinality(W \X I) <= Cardinality(InUse)
    <2> HIDE DEF h
    <2> QED BY <1>5, StreamsFinite, FS_Injection DEF IInv
  <1>7. Cardinality(W \X I) = Cardinality(W) * Cardinality(I)
    <2>1. IsFiniteSet(W) /\ IsFiniteSet(I)
      BY Sizes, FS_Subset, FS_Interval DEF I
    <2> QED BY <2>1, FS_Product
  <1>8. Cardinality(I) = PagesPerBlock
    BY Sizes, FS_Interval DEF I
  <1> QED BY <1>6, <1>7, <1>8

\* The open blocks are at most one for each stream, and the target's has none.
LEMMA OpenBlocksFew ==
  ASSUME IInv, NEW s \in Stream, open[s] = None
  PROVE  Cardinality({b \in Block : \E t \in Stream : open[t] = b}) <= Cardinality(Stream) - 1
  <1> DEFINE O == {b \in Block : \E t \in Stream : open[t] = b}
             T == {t \in Stream \ {s} : open[t] \in Block}
             f == [t \in T |-> open[t]]
  <1>1. f \in Surjection(T, O)
    BY Sizes DEF Surjection
  <1>2. IsFiniteSet(Stream) /\ Cardinality(Stream) \in Nat
    BY StreamsFinite DEF IInv
  <1>3. IsFiniteSet(Stream \ {s}) /\ Cardinality(Stream \ {s}) = Cardinality(Stream) - 1
    BY <1>2, FS_RemoveElement
  <1>4. IsFiniteSet(T) /\ Cardinality(T) <= Cardinality(Stream) - 1
    <2>1. T \in SUBSET (Stream \ {s})
      OBVIOUS
    <2> HIDE DEF T
    <2> QED BY <1>3, <2>1, FS_Subset
  <1>5. Cardinality(O) <= Cardinality(T) /\ IsFiniteSet(O)
    <2> HIDE DEF f, T, O
    <2> QED BY <1>1, <1>4, FS_Surjection
  <1>6. Cardinality(O) \in Nat /\ Cardinality(T) \in Nat
    BY <1>4, <1>5, FS_CardinalityType
  <1> HIDE DEF O, T
  <1>7. Cardinality(O) <= Cardinality(Stream) - 1
    BY <1>2, <1>4, <1>5, <1>6
  <1> QED BY <1>7 DEF O

\* At the limit a write that finds no victim finds every other block wholly
\* valid, and so the pages in use fill the reserve.
LEMMA NoVictimMeansFull ==
  ASSUME IInv, pc = "place", open[target[1]] = None, Victims = {}, active >= ActiveLimit
  PROVE  (ActiveLimit - Cardinality(Stream) + 1) * PagesPerBlock <= Cardinality(InUse)
  <1> DEFINE s == target[1]
             A == Block \ free
             O == {b \in Block : \E t \in Stream : open[t] = b}
             W == A \ O
  <1>1. s \in Stream /\ victim = None
    BY Sizes DEF IInv, Places
  <1>2. ASSUME NEW b \in W PROVE Cardinality(valid[b]) >= PagesPerBlock
    <2>1. b \in Block \ free /\ ~(\E t \in Stream : open[t] = b) /\ valid[b] \in SUBSET Key
      BY DEF IInv, TypeOK
    <2>2. filled[b] = PagesPerBlock
      <3>1. filled[b] \in 0 .. PagesPerBlock /\ ~(filled[b] < PagesPerBlock)
        BY <2>1 DEF IInv, TypeOK, NoBlockStranded
      <3> QED BY <3>1, Sizes
    <2>3. ~(Cardinality(valid[b]) < PagesPerBlock)
      BY <2>1, <2>2, VictimAmongCandidates DEF IInv, Candidates, Full
    <2>4. Cardinality(valid[b]) \in Nat
      BY <2>1, Sizes, FS_Subset, FS_CardinalityType
    <2> QED BY <2>3, <2>4, Sizes
  <1>3. /\ IsFiniteSet(A) /\ Cardinality(A) = active /\ active \in Nat
        /\ Cardinality(Stream) \in Nat /\ Cardinality(InUse) \in Nat /\ ActiveLimit \in Nat
    BY Sizes, FS_Subset, StreamsFinite DEF IInv, TypeOK
  <1>4. Cardinality(O) <= Cardinality(Stream) - 1
    BY <1>1, OpenBlocksFew
  <1>5. Cardinality(W) = Cardinality(A) - Cardinality(A \cap O)
    <2> HIDE DEF A, O
    <2> QED BY <1>3, FS_Difference
  <1>6. IsFiniteSet(O) /\ Cardinality(O) \in Nat
    <2>1. O \in SUBSET Block
      OBVIOUS
    <2> HIDE DEF O
    <2> QED BY <2>1, Sizes, FS_Subset, FS_CardinalityType
  <1>7. Cardinality(A \cap O) <= Cardinality(O) /\ Cardinality(A \cap O) \in Nat
    <2>1. A \cap O \in SUBSET O
      OBVIOUS
    <2> HIDE DEF A, O
    <2> QED BY <1>6, <2>1, FS_Subset, FS_CardinalityType
  <1>8. Cardinality(W) * PagesPerBlock <= Cardinality(InUse)
    <2>1. W \in SUBSET Block
      OBVIOUS
    <2> HIDE DEF W
    <2> QED BY <1>1, <1>2, <2>1, PagesOfFullBlocks
  <1> HIDE DEF A, O, W
  <1>9. Cardinality(W) >= ActiveLimit - Cardinality(Stream) + 1 /\ Cardinality(W) \in Int
    BY <1>3, <1>4, <1>5, <1>6, <1>7
  <1>10. \A p \in Nat, v, w \in Int : v <= w => v * p <= w * p /\ v * p \in Int /\ w * p \in Int
    BY Z3
  <1> DEFINE r == ActiveLimit - Cardinality(Stream) + 1
             c == Cardinality(W)
  <1>11. r \in Int /\ c \in Int /\ r <= c
    BY <1>3, <1>9
  <1>12. c * PagesPerBlock <= Cardinality(InUse)
    BY <1>8
  <1> HIDE DEF r, c
  <1>13. r * PagesPerBlock <= c * PagesPerBlock /\ r * PagesPerBlock \in Int /\ c * PagesPerBlock \in Int
    BY <1>10, <1>11, Sizes
  <1>14. r * PagesPerBlock <= Cardinality(InUse)
    BY <1>3, <1>12, <1>13
  <1> QED BY <1>14 DEF r

\* The initial state is within the reserve.
LEMMA ReservedInit == Init => Reserved
  <1>1. ActiveLimit \in Nat
    BY ShadowPoolAssumption
  <1> QED BY <1>1 DEF Init, Reserved, Ready

\* A collection moves pages without adding one.
LEMMA CopyKeepsUse == ASSUME IInv, NEW k \in Key, Copy(k) PROVE InUse' = InUse
  <1>1. /\ k \in left /\ open[k[1]] # None /\ mapping' = [mapping EXCEPT ![k] = open[k[1]]]
        /\ pc = "copy" /\ victim \in Block
    BY DEF Copy, IInv, Places
  <1>2. mapping[k] = victim /\ victim # None
    BY <1>1, Sizes DEF IInv, MappingExact
  <1>3. mapping'[k] # None /\ \A j \in Key \ {k} : mapping'[j] = mapping[j]
    BY <1>1 DEF IInv, TypeOK
  <1> QED BY <1>2, <1>3 DEF InUse

\* A write that finds no victim is below the limit and has a block.
LEMMA OpenForWriteReady ==
  ASSUME IInv, Ready, NEW b \in Block, OpenForWrite(b), Sufficient
  PROVE  Ready'
  <1>1. /\ pc = "place" /\ open[target[1]] = None /\ b \in free
        /\ active' = active + 1 /\ pc' = pc /\ nominal' = nominal /\ InUse' = InUse
        /\ ~AtLimit \/ NoVictim
    BY DEF OpenForWrite, Opened, InUse
  <1>2. /\ nominal \in Nat /\ active \in Nat /\ ActiveLimit \in Nat
        /\ Cardinality(InUse) \in Nat /\ Cardinality(Stream) \in Nat
    BY StreamsFinite DEF IInv
  <1>3. \A c \in Block : ~Refused(c)
    BY <1>1 DEF Refused
  <1>4. NoVictim => Victims = {}
    BY <1>3 DEF NoVictim, Victims, Candidates
  <1>5. active < ActiveLimit
    <2> SUFFICES ASSUME active >= ActiveLimit PROVE FALSE
      BY <1>2
    <2> DEFINE r == (ActiveLimit - Cardinality(Stream) + 1) * PagesPerBlock
    <2>1. r <= Cardinality(InUse)
      BY <1>1, <1>4, NoVictimMeansFull DEF AtLimit
    <2>2. r \in Int /\ nominal <= r
      BY <1>2, Sizes DEF Sufficient
    <2>3. Cardinality(InUse) < nominal
      BY <1>1 DEF Ready
    <2> HIDE DEF r
    <2> QED BY <1>2, <2>1, <2>2, <2>3
  <1> QED BY <1>1, <1>2, <1>5 DEF Ready

\* A collection opens at most one block beyond the limit.
LEMMA OpenForCopyReady ==
  ASSUME IInv, Fits, Ready, NEW b \in Block, OpenForCopy(b)
  PROVE  Ready'
  <1>1. PICK j \in left : pc = "copy" /\ open[j[1]] = None /\ Opened(j[1], b)
    BY DEF OpenForCopy
  <1>2. /\ filled' = [filled EXCEPT ![b] = 0] /\ open' = [open EXCEPT ![j[1]] = b]
        /\ active' = active + 1 /\ left' = left /\ pc' = pc
        /\ nominal' = nominal /\ InUse' = InUse
    BY <1>1 DEF Opened, InUse
  <1>3. active \in Nat /\ ActiveLimit \in Nat
    BY StreamsFinite DEF IInv
  <1>4. IsFiniteSet(left) /\ Cardinality(left) \in Nat /\ Cardinality(left) # 0
    BY <1>1, Sizes, FS_Subset, FS_CardinalityType, FS_EmptySet DEF IInv, TypeOK
  <1>5. active <= ActiveLimit
    <2>1. Room(j[1]) = 0
      BY <1>1 DEF Room
    <2> QED BY <1>1, <1>4, <2>1 DEF Ready
  <1>6. Room(j[1])' = PagesPerBlock
    <2>1. j[1] \in Stream
      BY Sizes DEF IInv, TypeOK
    <2>2. filled'[b] = 0 /\ open'[j[1]] = b
      BY <1>2, <2>1 DEF IInv, TypeOK
    <2> QED BY <2>2, Sizes DEF Room
  <1>7. \A k \in left' : Cardinality(left') <= Room(k[1])'
    <2>1. Cardinality(left) < PagesPerBlock /\ \A k \in left : k[1] = j[1]
      BY <1>1 DEF Fits
    <2> QED BY <1>2, <1>4, <1>6, <2>1, Sizes
  <1>8. Cardinality(InUse) < nominal
    BY <1>1 DEF Ready
  <1> QED BY <1>1, <1>2, <1>3, <1>5, <1>7, <1>8 DEF Ready

\* A moved page takes as much room as it leaves less to be moved.
LEMMA CopyReady ==
  ASSUME IInv, Fits, Ready, NEW k \in Key, Copy(k)
  PROVE  Ready'
  <1>1. /\ pc = "copy" /\ k \in left /\ open[k[1]] # None /\ Append(k)
        /\ left' = left \ {k} /\ UNCHANGED <<nominal, active, pc, free>>
    BY DEF Copy
  <1>2. InUse' = InUse
    BY CopyKeepsUse
  <1>3. IsFiniteSet(left) /\ Cardinality(left) \in Nat /\ Cardinality(left') = Cardinality(left) - 1
    <2>1. IsFiniteSet(left)
      BY Sizes, FS_Subset DEF IInv, TypeOK
    <2> QED BY <1>1, <2>1, FS_CardinalityType, FS_RemoveElement
  <1>4. Room(k[1])' >= Room(k[1]) - 1 /\ Room(k[1])' \in Int /\ Room(k[1]) \in Int
    BY <1>1, AppendTakesRoom DEF IInv
  <1>5. \A j \in left' : j \in left /\ j[1] = k[1]
    BY <1>1 DEF Fits
  <1>6. ASSUME active = ActiveLimit + 1, \A j \in left : Cardinality(left) <= Room(j[1]),
               NEW j \in left'
        PROVE  Cardinality(left') <= Room(j[1])'
    <2>1. Cardinality(left) <= Room(k[1])
      BY <1>1, <1>6
    <2>2. Cardinality(left') <= Room(k[1])'
      BY <1>3, <1>4, <2>1
    <2>3. j[1] = k[1]
      BY <1>5
    <2> QED BY <2>2, <2>3
  <1> QED BY <1>1, <1>2, <1>6 DEF Ready

\* A collection begins below or at the limit, and ends there.
LEMMA CollectReady ==
  ASSUME IInv, Ready, NEW b \in Block, Collect(b)
  PROVE  Ready'
  <1>1. /\ pc = "place" /\ pc' = "copy" /\ InUse' = InUse /\ UNCHANGED <<nominal, active>>
    BY DEF Collect, InUse
  <1> QED BY <1>1 DEF Ready

\* Erasing the victim brings the blocks in use back to the limit.
LEMMA EraseReady == ASSUME IInv, Ready, Erase PROVE Ready'
  <1>1. /\ pc = "copy" /\ pc' = "place" /\ InUse' = InUse /\ nominal' = nominal
        /\ active' = active - 1
    BY DEF Erase, InUse
  <1>2. active \in Nat /\ ActiveLimit \in Nat
    BY StreamsFinite DEF IInv
  <1> QED BY <1>1, <1>2 DEF Ready

\* Below the limit there is a free block, and a collection fits what is left.
LEMMA NeverExhausted == ASSUME IInv, Fits, Ready PROVE ~Exhaust
  <1> SUFFICES ASSUME Exhaust PROVE FALSE
    OBVIOUS
  <1>1. /\ pc \in {"place", "copy"} /\ free = {}
        /\ pc = "place" => active <= ActiveLimit
    BY DEF Exhaust, Ready
  <1>2. CASE pc = "place"
    <2>1. Block \ free = Block
      BY <1>1
    <2>2. active = Cardinality(Block)
      BY <2>1 DEF IInv, TypeOK
    <2>3. ActiveLimit \in 1 .. Cardinality(Block) - 1 /\ Cardinality(Block) \in Nat
      BY ShadowPoolAssumption, FS_CardinalityType
    <2> QED BY <1>1, <1>2, <2>2, <2>3
  <1>3. CASE pc = "copy"
    <2>1. PICK k \in left : open[k[1]] = None
      BY <1>3 DEF Exhaust, Appending
    <2>2. Cardinality(left) <= 0
      BY <1>1, <1>3, <2>1 DEF Fits, Room
    <2>3. IsFiniteSet(left) /\ Cardinality(left) \in Nat /\ Cardinality(left) # 0
      BY <2>1, Sizes, FS_Subset, FS_CardinalityType, FS_EmptySet DEF IInv, TypeOK
    <2> QED BY <2>2, <2>3
  <1> QED BY <1>1, <1>2, <1>3

\* Every step keeps within the reserve.
LEMMA NextReserved == IInv /\ Fits /\ Reserved /\ [Next]_vars => Reserved'
  <1> SUFFICES ASSUME IInv, Fits, [Next]_vars, Sufficient, Ready PROVE Ready'
    <2>1. [Next]_vars => nominal' = nominal
      BY DEF Next, Step, vars, Trim, Write, Place, Collect, OpenForWrite, OpenForCopy, Opened,
             Copy, Erase, Exhaust
    <2>2. nominal' = nominal => Sufficient' = Sufficient
      BY DEF Sufficient
    <2> QED BY <2>1, <2>2 DEF Reserved
  <1>1. ASSUME NEW k \in Key, Trim(k) PROVE Ready'
    BY <1>1 DEF Trim, Ready
  <1>2. ASSUME NEW k \in Key, Write(k) PROVE Ready'
    <2>1. InUse' = InUse
      BY <1>2 DEF Write, InUse
    <2> QED BY <1>2, <2>1 DEF Write, Ready
  <1>3. CASE Place
    BY <1>3 DEF Place, Ready
  <1>4. CASE \E k \in Key : Copy(k)
    BY <1>4, CopyReady
  <1>5. CASE \E b \in Block : Collect(b)
    BY <1>5, CollectReady
  <1>6. CASE \E b \in Block : OpenForWrite(b)
    BY <1>6, OpenForWriteReady
  <1>7. CASE \E b \in Block : OpenForCopy(b)
    BY <1>7, OpenForCopyReady
  <1>8. CASE Erase
    BY <1>8, EraseReady
  <1>9. CASE UNCHANGED vars
    BY <1>9 DEF vars, Ready, InUse, Room
  <1>10. CASE pc = "exhausted" /\ UNCHANGED vars
    BY <1>10 DEF Ready
  <1>11. ~Exhaust
    BY NeverExhausted
  <1> QED BY <1>1, <1>2, <1>3, <1>4, <1>5, <1>6, <1>7, <1>8, <1>9, <1>10, <1>11 DEF Next, Step

\* A pool whose limit of active blocks, less an open block of each other
\* stream, holds the pages in use, is never exhausted by writes.
THEOREM ReserveIsEnough == Spec => []ReserveSuffices
  <1>1. Init => Reserved
    BY ReservedInit
  <1>2. IInv /\ Fits /\ Reserved /\ [Next]_vars => Reserved'
    BY NextReserved
  <1>3. Reserved => ReserveSuffices
    BY DEF Reserved, Sufficient, Ready, ReserveSuffices
  <1>4. Spec => [](IInv /\ Fits)
    BY Invariance
  <1> QED BY <1>1, <1>2, <1>3, <1>4, PTL DEF Spec
=============================================================================
