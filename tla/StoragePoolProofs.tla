------------------------- MODULE StoragePoolProofs -------------------------
(***************************************************************************)
(* Proofs about StoragePool, for every set of blocks and every capacity,   *)
(* and about CommandTrace, which adds the commands a change of place       *)
(* causes: whatever order the device picks, it does to each place what the *)
(* simulator's order says, and a block that moves is never without a copy. *)
(* Neither depends on the number of blocks, streams and chunks, nor on how *)
(* often an address was reused.                                            *)
(***************************************************************************)
EXTENDS CommandTrace, FiniteSetTheorems, SequenceTheorems, TLAPS

\* The part of the invariant that one allocator keeps, whoever calls it.
PoolType ==
    /\ next \in [Tier -> Nat]
    /\ recycled \in [Tier -> Seq(Nat)]
    /\ used \in [Tier -> Nat] /\ peak \in [Tier -> Nat]
    /\ address \in [Tier -> [Block -> Nat \cup {NoAddress}]]

Counted(t) ==
    /\ used[t] <= peak[t]
    /\ next[t] = peak[t] /\ next[t] = used[t] + Len(recycled[t])
    /\ used[t] = Cardinality({b \in Block : On(b, t)})

Placed(t) ==
    /\ \A b \in Block : On(b, t) => address[t][b] < next[t]
    /\ \A i \in 1 .. Len(recycled[t]) : recycled[t][i] < next[t]
    /\ \A b, c \in Block : On(b, t) /\ address[t][b] = address[t][c] => b = c
    /\ \A b \in Block, i \in 1 .. Len(recycled[t]) : address[t][b] # recycled[t][i]
    /\ \A i, j \in 1 .. Len(recycled[t]) : recycled[t][i] = recycled[t][j] => i = j

PoolOK == PoolType /\ \A t \in Tier : Counted(t) /\ Placed(t)

\* What a relocation in progress can rely on: its sources are in place, and no
\* other block has two copies.
RelocationOK ==
    /\ moving \subseteq Block
    /\ \A b \in moving : On(b, "SLC")
    /\ OneCopy

IInv == PoolOK /\ RelocationOK

-----------------------------------------------------------------------------

\* A set that gains or loses one element of a finite set of blocks.
LEMMA OneMore ==
    ASSUME NEW S, IsFiniteSet(S), NEW x, x \notin S
    PROVE  IsFiniteSet(S \cup {x}) /\ Cardinality(S \cup {x}) = Cardinality(S) + 1
  BY FS_AddElement

\* A set that loses one of its elements.
LEMMA OneLess ==
    ASSUME NEW S, IsFiniteSet(S), NEW x \in S
    PROVE  IsFiniteSet(S \ {x}) /\ Cardinality(S \ {x}) = Cardinality(S) - 1
  BY FS_RemoveElement

\* Every set of blocks is finite.
LEMMA BlocksFinite ==
    ASSUME NEW S, S \subseteq Block
    PROVE  IsFiniteSet(S) /\ Cardinality(S) \in Nat
  BY StoragePoolAssumption, FS_Subset, FS_CardinalityType

\* A stack without its top.
LEMMA AllButLast ==
    ASSUME NEW s \in Seq(Nat), NEW m \in Nat, Len(s) = m + 1
    PROVE  /\ SubSeq(s, 1, m) \in Seq(Nat)
           /\ Len(SubSeq(s, 1, m)) = m
           /\ \A i \in 1 .. m : SubSeq(s, 1, m)[i] = s[i]
  OBVIOUS

\* allocate() for a block that is not on the tier, whether or not the tier has
\* room, keeps the pool's invariant.
LEMMA AllocateKeeps ==
    ASSUME PoolOK, NEW t \in Tier, NEW b \in Block, ~On(b, t), Allocate(t, b)
    PROVE  PoolOK'
  <1> DEFINE fresh == NewAddress(t)
             n == Len(recycled[t])
             rest == Popped(t)
             after == Advanced(t)
  <1>0. address[t][b] = NoAddress
    BY DEF On
  <1>1. PoolType /\ Counted(t) /\ Placed(t)
    BY DEF PoolOK
  <1>2. /\ next' = [next EXCEPT ![t] = after]
        /\ recycled' = [recycled EXCEPT ![t] = rest]
        /\ used' = [used EXCEPT ![t] = @ + 1]
        /\ peak' = [peak EXCEPT ![t] = IF @ < used[t] + 1 THEN used[t] + 1 ELSE @]
        /\ address' = [address EXCEPT ![t][b] = fresh]
    BY DEF Allocate
  <1>t. /\ next[t] \in Nat /\ used[t] \in Nat /\ peak[t] \in Nat
        /\ recycled[t] \in Seq(Nat) /\ n \in Nat
        /\ \A i \in 1 .. n : recycled[t][i] \in Nat
        /\ \A c \in Block : address[t][c] # NoAddress => address[t][c] \in Nat
    BY <1>1 DEF PoolType
  <1>3. /\ fresh \in Nat /\ after \in Nat /\ next[t] <= after /\ fresh < after
        /\ rest \in Seq(Nat) /\ Len(rest) \in Nat
        /\ \A i \in 1 .. Len(rest) : i \in 1 .. n /\ rest[i] = recycled[t][i]
        /\ \A i \in 1 .. Len(rest) : recycled[t][i] # fresh
        /\ \A c \in Block : address[t][c] # fresh
        /\ n = 0 => after = next[t] + 1 /\ Len(rest) = 0
        /\ n # 0 => after = next[t] /\ Len(rest) = n - 1
    <2>1. CASE recycled[t] = <<>>
      <3>1. fresh = next[t] /\ after = next[t] + 1 /\ rest = <<>> /\ n = 0
        BY <2>1 DEF NewAddress, Advanced, Popped
      <3>2. \A c \in Block : address[t][c] # next[t]
        BY <1>1, <1>t DEF NoAddress, Placed, On
      <3> QED
        BY <3>1, <3>2, <1>t
    <2>2. CASE recycled[t] # <<>>
      <3>1. /\ fresh = recycled[t][n] /\ after = next[t] /\ rest = SubSeq(recycled[t], 1, n - 1)
        BY <2>2 DEF NewAddress, Advanced, Popped
      <3>2. /\ rest \in Seq(Nat) /\ Len(rest) = n - 1 /\ n > 0
            /\ \A i \in 1 .. Len(rest) : i \in 1 .. n /\ i < n /\ rest[i] = recycled[t][i]
        <4> DEFINE m == n - 1
        <4>1. m \in Nat /\ Len(recycled[t]) = m + 1 /\ rest = SubSeq(recycled[t], 1, m)
          BY <2>2, <3>1, <1>t, EmptySeq
        <4> HIDE DEF m, rest
        <4>2. /\ rest \in Seq(Nat) /\ Len(rest) = m
              /\ \A i \in 1 .. m : rest[i] = recycled[t][i]
          BY <4>1, <1>t, AllButLast
        <4> QED
          BY <4>1, <4>2, <1>t
      <3>3. n \in 1 .. n /\ fresh \in Nat /\ fresh < next[t]
        <4>1. n \in 1 .. n
          BY <3>2, <1>t
        <4>2. recycled[t][n] \in Nat /\ recycled[t][n] < next[t]
          BY <4>1, <1>t, <1>1 DEF Placed
        <4> QED
          BY <3>1, <4>1, <4>2
      <3>4. \A i \in 1 .. Len(rest) : recycled[t][i] # fresh
        BY <3>1, <3>2, <3>3, <1>t, <1>1 DEF Placed
      <3>5. \A c \in Block : address[t][c] # fresh
        BY <3>1, <3>3, <1>1, Zenon DEF Placed
      <3> HIDE DEF fresh, after, rest, n
      <3>6. after \in Nat /\ next[t] <= after /\ fresh < after /\ n # 0 /\ after = next[t]
        BY <3>1, <3>2, <3>3, <1>t
      <3>7. rest \in Seq(Nat) /\ Len(rest) \in Nat /\ Len(rest) = n - 1
        BY <3>2
      <3> QED
        BY <3>2, <3>3, <3>4, <3>5, <3>6, <3>7
    <2> QED
      BY <2>1, <2>2
  <1> HIDE DEF fresh, rest, after
  <1>4. PoolType'
    BY <1>1, <1>2, <1>3 DEF PoolType
  <1>5. /\ next'[t] = after /\ recycled'[t] = rest /\ used'[t] = used[t] + 1
        /\ peak[t] < used[t] + 1 => peak'[t] = used[t] + 1
        /\ ~(peak[t] < used[t] + 1) => peak'[t] = peak[t]
        /\ address'[t][b] = fresh
        /\ \A c \in Block : c # b => address'[t][c] = address[t][c]
    BY <1>1, <1>2 DEF PoolType
  <1>6. \A x \in Tier : x # t =>
            /\ next'[x] = next[x] /\ recycled'[x] = recycled[x]
            /\ used'[x] = used[x] /\ peak'[x] = peak[x] /\ address'[x] = address[x]
    BY <1>1, <1>2 DEF PoolType
  <1>7. Counted(t)'
    <2> DEFINE S == {c \in Block : On(c, t)}
    <2>1. /\ used'[t] <= peak'[t]
          /\ next'[t] = peak'[t] /\ next'[t] = used'[t] + Len(recycled'[t])
      <3> HIDE DEF n
      <3>1. /\ used[t] <= peak[t]
            /\ next[t] = peak[t] /\ next[t] = used[t] + n
        BY <1>1 DEF Counted, n
      <3>2. n \in Nat /\ used[t] \in Nat /\ next[t] \in Nat /\ peak[t] \in Nat
        BY <1>t DEF n
      <3>3. next'[t] = IF n = 0 THEN next[t] + 1 ELSE next[t]
        BY <1>3, <1>5
      <3>4. Len(recycled'[t]) = IF n = 0 THEN 0 ELSE n - 1
        BY <1>3, <1>5
      <3>5. /\ used'[t] = used[t] + 1
            /\ peak[t] < used[t] + 1 => peak'[t] = used[t] + 1
            /\ ~(peak[t] < used[t] + 1) => peak'[t] = peak[t]
        BY <1>5
      <3>7. CASE n = 0
        <4>1. peak'[t] = used[t] + 1 /\ next'[t] = used[t] + 1 /\ Len(recycled'[t]) = 0
          <5>1. next'[t] = used[t] + 1
            BY <3>1, <3>2, <3>3, <3>7
          <5>2. Len(recycled'[t]) = 0
            BY <3>4, <3>7
          <5>3. peak'[t] = used[t] + 1
            BY <3>1, <3>2, <3>5, <3>7
          <5> QED
            BY <5>1, <5>2, <5>3
        <4> QED
          BY <4>1, <3>2, <3>5
      <3>8. CASE n # 0
        <4>1. peak'[t] = peak[t] /\ next'[t] = next[t] /\ Len(recycled'[t]) = n - 1
          <5>1. next'[t] = next[t]
            BY <3>3, <3>8
          <5>2. Len(recycled'[t]) = n - 1
            BY <3>4, <3>8
          <5>3. peak'[t] = peak[t]
            BY <3>1, <3>2, <3>5, <3>8
          <5> QED
            BY <5>1, <5>2, <5>3
        <4> QED
          BY <4>1, <3>1, <3>2, <3>5, <3>8
      <3> QED
        BY <3>7, <3>8
    <2>2. S' = S \cup {b} /\ b \notin S
      BY <1>0, <1>3, <1>5 DEF On, NoAddress
    <2>3. Cardinality(S \cup {b}) = Cardinality(S) + 1
      BY <2>2, OneMore, BlocksFinite
    <2>4. used'[t] = Cardinality(S')
      BY <2>2, <2>3, <1>1, <1>5 DEF Counted
    <2> QED
      BY <2>1, <2>4 DEF Counted
  <1>8. Placed(t)'
    <2>1. \A c \in Block : On(c, t)' => address'[t][c] < next'[t]
      <3> SUFFICES ASSUME NEW c \in Block, address'[t][c] # NoAddress
                   PROVE  address'[t][c] < next'[t]
        BY DEF On
      <3>1. CASE c = b
        BY <3>1, <1>3, <1>5
      <3>2. CASE c # b
        <4>1. address'[t][c] = address[t][c] /\ address[t][c] \in Nat
          BY <3>2, <1>5, <1>t
        <4>2. address[t][c] < next[t]
          BY <4>1, <1>1 DEF Placed, On
        <4> QED
          BY <4>1, <4>2, <1>3, <1>5, <1>t
      <3> QED
        BY <3>1, <3>2
    <2>2. \A i \in 1 .. Len(recycled'[t]) : recycled'[t][i] < next'[t]
      <3> SUFFICES ASSUME NEW i \in 1 .. Len(rest)
                   PROVE  rest[i] < after
        BY <1>5
      <3>1. i \in 1 .. n /\ rest[i] = recycled[t][i]
        BY <1>3
      <3>2. recycled[t][i] < next[t] /\ recycled[t][i] \in Nat
        <4>1. recycled[t][i] < next[t]
          BY <3>1, <1>1 DEF Placed
        <4> QED
          BY <3>1, <4>1, <1>1, <1>t
      <3>3. next[t] <= after /\ next[t] \in Nat /\ after \in Nat
        BY <1>3, <1>t
      <3> QED
        BY <3>1, <3>2, <3>3
    <2>3. \A c, d \in Block : On(c, t)' /\ address'[t][c] = address'[t][d] => c = d
      BY <1>1, <1>3, <1>5 DEF Placed, On
    <2>4. \A c \in Block, i \in 1 .. Len(recycled'[t]) : address'[t][c] # recycled'[t][i]
      <3> SUFFICES ASSUME NEW c \in Block, NEW i \in 1 .. Len(rest)
                   PROVE  address'[t][c] # rest[i]
        BY <1>5
      <3>1. i \in 1 .. n /\ rest[i] = recycled[t][i] /\ recycled[t][i] # fresh
        BY <1>3
      <3>2. address[t][c] # recycled[t][i]
        BY <3>1, <1>1 DEF Placed
      <3> QED
        BY <3>1, <3>2, <1>5
    <2>5. \A i, j \in 1 .. Len(recycled'[t]) : recycled'[t][i] = recycled'[t][j] => i = j
      BY <1>1, <1>3, <1>5 DEF Placed
    <2> QED
      BY <2>1, <2>2, <2>3, <2>4, <2>5 DEF Placed
  <1>9. \A x \in Tier : x # t => Counted(x)' /\ Placed(x)'
    <2> SUFFICES ASSUME NEW x \in Tier, x # t
                 PROVE  Counted(x)' /\ Placed(x)'
      OBVIOUS
    <2>1. Counted(x) /\ Placed(x)
      BY DEF PoolOK
    <2>2. /\ next'[x] = next[x] /\ recycled'[x] = recycled[x]
          /\ used'[x] = used[x] /\ peak'[x] = peak[x] /\ address'[x] = address[x]
      BY <1>6
    <2>3. \A c \in Block : On(c, x)' <=> On(c, x)
      BY <2>2 DEF On
    <2>4. {c \in Block : On(c, x)'} = {c \in Block : On(c, x)}
      BY <2>3
    <2>5. Counted(x)'
      BY <2>1, <2>2, <2>4 DEF Counted
    <2>6. Placed(x)'
      BY <2>1, <2>2, <2>3 DEF Placed
    <2> QED
      BY <2>5, <2>6
  <1> QED
    BY <1>4, <1>7, <1>8, <1>9 DEF PoolOK

\* release() of the address of a block on the tier keeps the pool's invariant.
LEMMA ReleaseKeeps ==
    ASSUME PoolOK, NEW t \in Tier, NEW b \in Block, On(b, t), Release(t, b)
    PROVE  PoolOK'
  <1> DEFINE old == address[t][b]
             n == Len(recycled[t])
  <1>1. PoolType /\ Counted(t) /\ Placed(t)
    BY DEF PoolOK
  <1>t. /\ next[t] \in Nat /\ used[t] \in Nat /\ peak[t] \in Nat
        /\ recycled[t] \in Seq(Nat) /\ n \in Nat
        /\ \A i \in 1 .. n : recycled[t][i] \in Nat
        /\ \A c \in Block : address[t][c] # NoAddress => address[t][c] \in Nat
    BY <1>1 DEF PoolType
  <1>2. old \in Nat /\ old < next[t] /\ old # NoAddress
    BY <1>1, <1>t DEF Placed, On
  <1>3. used[t] > 0 /\ {c \in Block : On(c, t)'} = {c \in Block : On(c, t)} \ {b}
        /\ Cardinality({c \in Block : On(c, t)} \ {b}) = used[t] - 1
    <2> DEFINE S == {c \in Block : On(c, t)}
    <2>1. b \in S /\ S \subseteq Block
      OBVIOUS
    <2>2. Cardinality(S) = used[t]
      BY <1>1 DEF Counted
    <2>3. IsFiniteSet(S) /\ IsFiniteSet(S \ {b}) /\ Cardinality(S \ {b}) \in Nat
      BY <2>1, BlocksFinite
    <2>4. Cardinality(S \ {b}) = Cardinality(S) - 1
      BY <2>1, <2>3, OneLess
    <2>5. \A c \in Block : On(c, t)' <=> On(c, t) /\ c # b
      BY <1>1 DEF Release, PoolType, On
    <2>6. {c \in Block : On(c, t)'} = S \ {b}
      BY <2>5
    <2> HIDE DEF S
    <2>7. used[t] > 0
      BY <2>2, <2>3, <2>4, <1>t
    <2> QED
      BY <2>2, <2>4, <2>6, <2>7 DEF S
  <1>4. PoolType'
    <2>1. used[t] - 1 \in Nat
      BY <1>3, <1>t
    <2>2. Append(recycled[t], old) \in Seq(Nat)
      BY <1>2, <1>t
    <2> QED
      BY <1>1, <2>1, <2>2 DEF Release, PoolType
  <1>5. /\ next'[t] = next[t] /\ peak'[t] = peak[t] /\ used'[t] = used[t] - 1
        /\ recycled'[t] = Append(recycled[t], old)
        /\ address'[t][b] = NoAddress
        /\ \A c \in Block : c # b => address'[t][c] = address[t][c]
    BY <1>1 DEF Release, PoolType
  <1>6. \A x \in Tier : x # t =>
            /\ next'[x] = next[x] /\ recycled'[x] = recycled[x]
            /\ used'[x] = used[x] /\ peak'[x] = peak[x] /\ address'[x] = address[x]
    BY <1>1 DEF Release, PoolType
  <1>7. /\ Len(recycled'[t]) = n + 1
        /\ \A i \in 1 .. n : recycled'[t][i] = recycled[t][i]
        /\ recycled'[t][n + 1] = old
    BY <1>2, <1>5, <1>t
  <1>8. Counted(t)'
    <2> HIDE DEF n
    <2>1. /\ used[t] <= peak[t]
          /\ next[t] = peak[t] /\ next[t] = used[t] + n
      BY <1>1 DEF Counted, n
    <2>2. n \in Nat
      BY <1>t DEF n
    <2>3. /\ used'[t] <= peak'[t]
          /\ next'[t] = peak'[t] /\ next'[t] = used'[t] + Len(recycled'[t])
      <3>1. /\ next'[t] = next[t] /\ peak'[t] = peak[t] /\ used'[t] = used[t] - 1
            /\ Len(recycled'[t]) = n + 1
        BY <1>5, <1>7
      <3>2. next[t] \in Nat /\ used[t] \in Nat /\ peak[t] \in Nat
        BY <1>t
      <3>3. used'[t] <= peak'[t]
        <4>1. used[t] - 1 <= peak[t]
          BY <2>1, <3>2
        <4> QED
          BY <3>1, <4>1
      <3>4. next'[t] = used'[t] + Len(recycled'[t])
        BY <2>1, <2>2, <3>1, <3>2
      <3> QED
        BY <2>1, <3>1, <3>3, <3>4
    <2> QED
      BY <2>3, <1>3, <1>5 DEF Counted
  <1>9. Placed(t)'
    <2> HIDE DEF n, old
    <2>1. \A c \in Block : On(c, t)' => address'[t][c] < next'[t]
      BY <1>1, <1>5 DEF Placed, On
    <2>2. \A i \in 1 .. n + 1 : i \in 1 .. n \/ i = n + 1
      BY <1>t
    <2>3. \A i \in 1 .. n : recycled[t][i] < next[t] /\ recycled[t][i] # old
      BY <1>1 DEF Placed, n, old
    <2>4. \A i \in 1 .. Len(recycled'[t]) : recycled'[t][i] < next'[t]
      BY <2>2, <2>3, <1>2, <1>5, <1>7
    <2>5. \A c, d \in Block : On(c, t)' /\ address'[t][c] = address'[t][d] => c = d
      BY <1>1, <1>5 DEF Placed, On
    <2>6. \A c \in Block, i \in 1 .. Len(recycled'[t]) : address'[t][c] # recycled'[t][i]
      <3> SUFFICES ASSUME NEW c \in Block, NEW i \in 1 .. n + 1
                   PROVE  address'[t][c] # recycled'[t][i]
        BY <1>7
      <3>1. CASE c = b
        <4>1. recycled'[t][i] \in Nat
          <5>1. CASE i \in 1 .. n
            BY <5>1, <1>t, <1>7 DEF n
          <5>2. CASE i = n + 1
            BY <5>2, <1>2, <1>7
          <5> QED
            BY <5>1, <5>2, <2>2
        <4>2. NoAddress \notin Nat
          BY DEF NoAddress
        <4>3. address'[t][c] = NoAddress
          BY <3>1, <1>5
        <4> QED
          BY <4>1, <4>2, <4>3
      <3>2. CASE c # b /\ i \in 1 .. n
        BY <3>2, <1>1, <1>5, <1>7 DEF Placed, n
      <3>3. CASE c # b /\ i = n + 1
        BY <3>3, <1>1, <1>2, <1>5, <1>7 DEF Placed, On, old
      <3> QED
        BY <3>1, <3>2, <3>3, <2>2
    <2>7. \A i, j \in 1 .. Len(recycled'[t]) : recycled'[t][i] = recycled'[t][j] => i = j
      <3> SUFFICES ASSUME NEW i \in 1 .. n + 1, NEW j \in 1 .. n + 1,
                          recycled'[t][i] = recycled'[t][j]
                   PROVE  i = j
        BY <1>7
      <3>1. CASE i \in 1 .. n /\ j \in 1 .. n
        BY <3>1, <1>1, <1>7 DEF Placed, n
      <3>2. CASE i = n + 1 \/ j = n + 1
        BY <3>2, <2>2, <2>3, <1>7
      <3> QED
        BY <3>1, <3>2, <2>2
    <2> QED
      BY <2>1, <2>4, <2>5, <2>6, <2>7 DEF Placed
  <1>10. \A x \in Tier : x # t => Counted(x)' /\ Placed(x)'
    <2> SUFFICES ASSUME NEW x \in Tier, x # t
                 PROVE  Counted(x)' /\ Placed(x)'
      OBVIOUS
    <2>1. Counted(x) /\ Placed(x)
      BY DEF PoolOK
    <2>2. /\ next'[x] = next[x] /\ recycled'[x] = recycled[x]
          /\ used'[x] = used[x] /\ peak'[x] = peak[x] /\ address'[x] = address[x]
      BY <1>6
    <2>3. \A c \in Block : On(c, x)' <=> On(c, x)
      BY <2>2 DEF On
    <2>4. {c \in Block : On(c, x)'} = {c \in Block : On(c, x)}
      BY <2>3
    <2>5. Counted(x)'
      BY <2>1, <2>2, <2>4 DEF Counted
    <2>6. Placed(x)'
      BY <2>1, <2>2, <2>3 DEF Placed
    <2> QED
      BY <2>5, <2>6
  <1> QED
    BY <1>4, <1>8, <1>9, <1>10 DEF PoolOK

-----------------------------------------------------------------------------

\* The empty pools satisfy the invariant.
LEMMA InitIInv == Init => IInv
  <1> SUFFICES ASSUME Init PROVE IInv
    OBVIOUS
  <1>1. \A t \in Tier, b \in Block : ~On(b, t)
    BY DEF Init, On
  <1>2. PoolType
    BY DEF Init, PoolType
  <1>3. \A t \in Tier : Counted(t)
    <2> SUFFICES ASSUME NEW t \in Tier PROVE Counted(t)
      OBVIOUS
    <2>1. {b \in Block : On(b, t)} = {}
      BY <1>1
    <2>2. Cardinality({b \in Block : On(b, t)}) = 0
      BY <2>1, FS_EmptySet
    <2> QED
      BY <2>2 DEF Init, Counted
  <1>4. \A t \in Tier : Placed(t)
    BY <1>1 DEF Init, Placed
  <1>5. RelocationOK
    BY <1>1 DEF Init, RelocationOK, OneCopy, Tier
  <1> QED
    BY <1>2, <1>3, <1>4, <1>5 DEF IInv, PoolOK

\* A step that leaves the allocators alone keeps their invariant.
LEMMA PoolUnchanged ==
    ASSUME PoolOK, UNCHANGED <<next, recycled, used, peak, address>>
    PROVE  PoolOK' /\ \A b \in Block, t \in Tier : On(b, t)' <=> On(b, t)
  <1>1. \A b \in Block, t \in Tier : On(b, t)' <=> On(b, t)
    BY DEF On
  <1>2. PoolType'
    BY DEF PoolOK, PoolType
  <1>3. ASSUME NEW t \in Tier
        PROVE  Counted(t)' /\ Placed(t)'
    <2>1. Counted(t) /\ Placed(t)
      BY DEF PoolOK
    <2>2. {b \in Block : On(b, t)'} = {b \in Block : On(b, t)}
      BY <1>1
    <2>3. Counted(t)'
      BY <2>1, <2>2 DEF Counted
    <2>4. Placed(t)'
      BY <2>1, <1>1 DEF Placed
    <2> QED
      BY <2>3, <2>4
  <1> QED
    BY <1>1, <1>2, <1>3 DEF PoolOK

\* Without a relocation, an allocation or a release leaves none in progress.
LEMMA QuietOK ==
    ASSUME moving' = {},
           \A b \in Block : ~(On(b, "SLC")' /\ On(b, "TLC")')
    PROVE  RelocationOK'
  BY DEF RelocationOK, OneCopy

\* Which blocks are on which tier after an allocation or a release.
LEMMA OnAfter ==
    ASSUME PoolType, NEW t \in Tier, NEW b \in Block
    PROVE  /\ Allocate(t, b) =>
                 \A c \in Block, x \in Tier : On(c, x)' <=> On(c, x) \/ (c = b /\ x = t)
           /\ Release(t, b) =>
                 \A c \in Block, x \in Tier : On(c, x)' <=> On(c, x) /\ ~(c = b /\ x = t)
  <1>1. NewAddress(t) # NoAddress
    <2>1. next[t] \in Nat /\ recycled[t] \in Seq(Nat)
      BY DEF PoolType
    <2>2. recycled[t] # <<>> => recycled[t][Len(recycled[t])] \in Nat
      <3>1. recycled[t] # <<>> => Len(recycled[t]) \in 1 .. Len(recycled[t])
        BY <2>1, EmptySeq
      <3> QED
        BY <2>1, <3>1
    <2> QED
      BY <2>1, <2>2 DEF NewAddress, NoAddress
  <1>2. ASSUME Allocate(t, b)
        PROVE  \A c \in Block, x \in Tier : On(c, x)' <=> On(c, x) \/ (c = b /\ x = t)
    <2>1. address' = [address EXCEPT ![t][b] = NewAddress(t)]
      BY <1>2 DEF Allocate
    <2> QED
      BY <1>1, <2>1 DEF On, PoolType
  <1>3. ASSUME Release(t, b)
        PROVE  \A c \in Block, x \in Tier : On(c, x)' <=> On(c, x) /\ ~(c = b /\ x = t)
    <2>1. address' = [address EXCEPT ![t][b] = NoAddress]
      BY <1>3 DEF Release
    <2> QED
      BY <2>1 DEF On, PoolType
  <1> QED
    BY <1>2, <1>3

\* Every step keeps the invariant.
LEMMA NextIInv == IInv /\ [Next]_vars => IInv'
  <1> SUFFICES ASSUME IInv, [Next]_vars PROVE IInv'
    OBVIOUS
  <1>0. /\ PoolOK /\ PoolType /\ RelocationOK
        /\ "SLC" \in Tier /\ "TLC" \in Tier
    BY DEF IInv, PoolOK, Tier
  <1>1. ASSUME NEW b \in Block, NEW t \in Tier, Write(b, t)
        PROVE  IInv'
    <2>1. PoolOK'
      BY <1>0, <1>1, AllocateKeeps DEF Write
    <2>2. \A c \in Block, x \in Tier : On(c, x)' <=> On(c, x) \/ (c = b /\ x = t)
      BY <1>0, <1>1, OnAfter DEF Write
    <2>3. RelocationOK'
      <3>1. moving = {} /\ moving' = {} /\ \A x \in Tier : ~On(b, x)
        BY <1>1 DEF Write
      <3>2. \A c \in Block : ~(On(c, "SLC") /\ On(c, "TLC"))
        BY <3>1, <1>0 DEF RelocationOK, OneCopy
      <3>3. \A c \in Block : ~(On(c, "SLC")' /\ On(c, "TLC")')
        BY <2>2, <3>1, <3>2, <1>0
      <3> QED
        BY <3>1, <3>3, QuietOK
    <2> QED
      BY <2>1, <2>3 DEF IInv
  <1>2. ASSUME NEW b \in Block, NEW t \in Tier, Trim(b, t)
        PROVE  IInv'
    <2>1. PoolOK'
      BY <1>0, <1>2, ReleaseKeeps DEF Trim
    <2>2. \A c \in Block, x \in Tier : On(c, x)' <=> On(c, x) /\ ~(c = b /\ x = t)
      BY <1>0, <1>2, OnAfter DEF Trim
    <2>3. RelocationOK'
      <3>1. moving = {} /\ moving' = {}
        BY <1>2 DEF Trim
      <3>2. \A c \in Block : ~(On(c, "SLC") /\ On(c, "TLC"))
        BY <3>1, <1>0 DEF RelocationOK, OneCopy
      <3>3. \A c \in Block : ~(On(c, "SLC")' /\ On(c, "TLC")')
        BY <2>2, <3>2, <1>0
      <3> QED
        BY <3>1, <3>3, QuietOK
    <2> QED
      BY <2>1, <2>3 DEF IInv
  <1>3. ASSUME NEW blocks \in SUBSET Block, StartRelocation(blocks)
        PROVE  IInv'
    <2>1. UNCHANGED <<next, recycled, used, peak, address>> /\ moving = {} /\ moving' = blocks
      BY <1>3 DEF StartRelocation
    <2>2. PoolOK'
      BY <1>0, <2>1, PoolUnchanged
    <2>3. \A c \in Block, x \in Tier : On(c, x)' <=> On(c, x)
      BY <1>0, <2>1, PoolUnchanged
    <2>4. \A c \in blocks : On(c, "SLC")
      BY <1>3 DEF StartRelocation
    <2>5. OneCopy'
      BY <1>0, <2>1, <2>3 DEF OneCopy, RelocationOK
    <2> QED
      BY <2>1, <2>2, <2>3, <2>4, <2>5, <1>0 DEF IInv, RelocationOK
  <1>4. ASSUME NEW b \in Block, AllocateDestination(b)
        PROVE  IInv'
    <2>1. b \in moving /\ ~On(b, "TLC") /\ Allocate("TLC", b) /\ moving' = moving
      BY <1>4 DEF AllocateDestination
    <2>2. \A c \in Block, x \in Tier : On(c, x)' <=> On(c, x) \/ (c = b /\ x = "TLC")
      BY <1>0, <2>1, OnAfter
    <2>3. moving \subseteq Block
      BY <1>0 DEF RelocationOK
    <2>4. PoolOK'
      BY <1>0, <2>1, <2>3, AllocateKeeps
    <2>5. OneCopy' /\ \A c \in moving' : On(c, "SLC")'
      BY <1>0, <2>1, <2>2, <2>3 DEF OneCopy, RelocationOK
    <2> QED
      BY <2>1, <2>3, <2>4, <2>5 DEF IInv, RelocationOK
  <1>5. ASSUME NEW b \in Block, ReleaseSource(b)
        PROVE  IInv'
    <2>1. /\ b \in moving /\ Release("SLC", b) /\ moving' = moving \ {b}
          /\ \A c \in moving : On(c, "TLC")
      BY <1>5 DEF ReleaseSource
    <2>2. moving \subseteq Block /\ \A c \in moving : On(c, "SLC")
      BY <1>0 DEF RelocationOK
    <2>3. PoolOK'
      BY <1>0, <2>1, <2>2, ReleaseKeeps
    <2>4. \A c \in Block, x \in Tier : On(c, x)' <=> On(c, x) /\ ~(c = b /\ x = "SLC")
      BY <1>0, <2>1, OnAfter
    <2>5. OneCopy' /\ \A c \in moving' : On(c, "SLC")'
      BY <1>0, <2>1, <2>2, <2>4 DEF OneCopy, RelocationOK
    <2> QED
      BY <2>1, <2>2, <2>3, <2>5 DEF IInv, RelocationOK
  <1>6. CASE UNCHANGED vars
    <2>1. UNCHANGED <<next, recycled, used, peak, address>> /\ moving' = moving
      BY <1>6 DEF vars
    <2>2. PoolOK' /\ \A c \in Block, x \in Tier : On(c, x)' <=> On(c, x)
      BY <1>0, <2>1, PoolUnchanged
    <2>3. OneCopy'
      BY <1>0, <2>1, <2>2 DEF OneCopy, RelocationOK
    <2> QED
      BY <1>0, <2>1, <2>2, <2>3 DEF IInv, RelocationOK
  <1> QED
    BY <1>1, <1>2, <1>3, <1>4, <1>5, <1>6 DEF Next

\* Hence the invariant holds in every reachable state.
LEMMA Invariance == Spec => []IInv
  BY InitIInv, NextIInv, PTL DEF Spec

\* The unsigned counters of blocks and addresses never run below zero: release()
\* finds a block to count off whenever it is called.
THEOREM PoolTypeInvariance == Spec => []TypeOK
  <1>1. IInv => TypeOK
    BY DEF IInv, PoolOK, PoolType, RelocationOK, TypeOK
  <1> QED
    BY <1>1, Invariance, PTL

\* allocate() never returns an address that is held, and release() never stacks
\* one twice.
THEOREM AddressesUnique == Spec => []AddressesDistinct
  <1>1. IInv => AddressesDistinct
    <2> SUFFICES ASSUME IInv, NEW t \in Tier
                 PROVE  /\ \A b, c \in Block : On(b, t) /\ On(c, t)
                               /\ address[t][b] = address[t][c] => b = c
                        /\ \A b \in Block, i \in DOMAIN recycled[t] :
                               address[t][b] # recycled[t][i]
                        /\ \A i, j \in DOMAIN recycled[t] :
                               recycled[t][i] = recycled[t][j] => i = j
      BY DEF AddressesDistinct
    <2>1. Placed(t) /\ recycled[t] \in Seq(Nat)
      BY DEF IInv, PoolOK, PoolType
    <2>2. DOMAIN recycled[t] = 1 .. Len(recycled[t])
      BY <2>1
    <2> QED
      BY <2>1, <2>2 DEF Placed
  <1> QED
    BY <1>1, Invariance, PTL

\* As many addresses were handed out as blocks were ever on the tier at once, and
\* each is held or waiting for reuse, however full the relocations made the tier.
THEOREM AddressesCompact == Spec => []AddressesDense
  <1>1. IInv => AddressesDense
    BY DEF IInv, PoolOK, Counted, Placed, AddressesDense
  <1> QED
    BY <1>1, Invariance, PTL

\* A block keeps one SSD copy outside of its own relocation.
THEOREM CopiesUnique == Spec => []OneCopy
  <1>1. IInv => OneCopy
    BY DEF IInv, RelocationOK
  <1> QED
    BY <1>1, Invariance, PTL

-----------------------------------------------------------------------------
(* The invariant of CommandTrace.                                          *)

Command == [event : Nat, after : Nat, op : {"READ", "WRITE", "TRIM"}, place : Location,
            predecessors : SUBSET Nat]

Mutates(c) == commands[c].op # "READ"
SamePlace(c, d) == commands[c].place = commands[d].place
Conflict(c, d) == SamePlace(c, d) /\ (Mutates(c) \/ Mutates(d))
SameEvent(c, d) == commands[c].event = commands[d].event

\* The commands of event e end with f.
Ends(e, f) ==
  /\ f \in DOMAIN commands /\ commands[f].event = e
  /\ \A d \in DOMAIN commands : commands[d].event = e => d <= f

\* Events have commands, and wait for earlier events.
LogOK ==
  /\ commands \in Seq(Command) /\ Events \in Nat
  /\ \A c \in DOMAIN commands : commands[c].event \in 1 .. Events
                                /\ commands[c].after < commands[c].event
  /\ \A e \in 1 .. Events : \E f \in DOMAIN commands : Ends(e, f)

\* The tracker knows the last mutation of a place and the reads since.
TrackerOK ==
  /\ tracker \in [Location -> [last : Nat, readers : SUBSET Nat]]
  /\ \A l \in Location : tracker[l].last # NoCommand =>
        /\ tracker[l].last \in DOMAIN commands
        /\ Mutates(tracker[l].last) /\ commands[tracker[l].last].place = l
  /\ \A d \in DOMAIN commands :
        \/ d < tracker[commands[d].place].last
        \/ Mutates(d) /\ d = tracker[commands[d].place].last
        \/ ~Mutates(d) /\ d \in tracker[commands[d].place].readers

\* Of two commands that conflict the later waits for the earlier, or for a
\* mutation of the place between them.
Ordered(c) ==
  \A d \in 1 .. c - 1 : Conflict(c, d) =>
     \/ d \in commands[c].predecessors
     \/ \E m \in commands[c].predecessors : m \in d + 1 .. c - 1 /\ SamePlace(m, c) /\ Mutates(m)

\* A command waits for the one before it in its event; the first of an event
\* waits for the end of the event it depends on.
Chained(c) ==
  \/ /\ \A d \in 1 .. c - 1 : ~SameEvent(c, d)
     /\ \A f \in DOMAIN commands : Ends(commands[c].after, f) => f \in commands[c].predecessors
  \/ /\ c - 1 \in DOMAIN commands /\ c - 1 \in commands[c].predecessors
     /\ SameEvent(c, c - 1) /\ commands[c - 1].after = commands[c].after

\* The device has done what it had to do before anything it has done, and each
\* place holds the last mutation that was done there.
DoneOK ==
  /\ done \subseteq DOMAIN commands /\ (device = "off" => done = {})
  /\ \A c \in done, d \in DOMAIN commands :
        d < c /\ (Conflict(c, d) \/ SameEvent(c, d)) => d \in done
  /\ content \in [Location -> Nat]
  /\ \A l \in Location : content[l] # NoCommand =>
        content[l] \in done /\ Mutates(content[l]) /\ commands[content[l]].place = l
  /\ \A d \in done : Mutates(d) => d <= content[commands[d].place]

TraceLog ==
  /\ LogOK /\ TrackerOK /\ DoneOK /\ CopySurvives
  /\ \A c \in DOMAIN commands : Ordered(c) /\ Chained(c)

\* What is on a tier has a stream and an address within the places, and what a
\* move waits for was emitted.
PlacesOK ==
  /\ flow \in [Tier -> [Block -> Stream \cup {NoFlow}]]
  /\ \A t \in Tier, b \in Block : On(b, t) => flow[t][b] \in Stream
  /\ \A t \in Tier : peak[t] <= Cardinality(Block)
  /\ waitsFor \in [Block -> Nat] /\ \A b \in Block : waitsFor[b] <= Events

TraceInv == IInv /\ PlacesOK /\ TraceLog

-----------------------------------------------------------------------------
(* One event. *)

\* A greatest element is the maximum.
LEMMA GreatestIsMax ==
  ASSUME NEW S \in SUBSET Int, NEW x \in S, \A y \in S : y <= x
  PROVE  Max(S) = x
  <1>1. \A y \in S : (\A z \in S : y >= z) => y = x
    BY DEF Max
  <1>2. \A z \in S : x >= z
    OBVIOUS
  <1> QED BY <1>1, <1>2 DEF Max

\* The command an event ends with is its final command.
LEMMA EndIsFinal ==
  ASSUME commands \in Seq(Command), NEW e, NEW f, Ends(e, f)
  PROVE  FinalCommand(e) = f /\ f \in Nat
  <1> DEFINE S == {c \in DOMAIN commands : commands[c].event = e}
  <1>1. S \in SUBSET Int /\ f \in S /\ f \in Nat /\ \A y \in S : y <= f
    BY LenProperties DEF Ends
  <1>2. FinalCommand(e) = Max(S)
    BY DEF FinalCommand
  <1> HIDE DEF S
  <1> QED BY <1>1, <1>2, GreatestIsMax

\* What emit_io() and the conversion append for an event.
Appended(op, t, s, a, after) ==
  LET n == Len(commands)
  IN  /\ n \in Nat /\ DOMAIN commands = 1 .. n /\ DOMAIN commands' = 1 .. n + Chunks
      /\ commands' \in Seq(Command)
      /\ \A c \in 1 .. n : commands'[c] = commands[c]
      /\ \A k \in 1 .. Chunks :
            /\ commands'[n + k].event = Events + 1
            /\ commands'[n + k].after = after
            /\ commands'[n + k].op = op
            /\ commands'[n + k].place = <<t, s, a, k>>
            /\ \A d \in Conflicts(op, <<t, s, a, k>>) :
                  d <= n => d \in commands'[n + k].predecessors
            /\ k = 1 => \A f \in 1 .. n : Ends(after, f) => f \in commands'[n + k].predecessors
            /\ k > 1 => n + k - 1 \in commands'[n + k].predecessors
      /\ \A k \in 1 .. Chunks : <<t, s, a, k>> \in Location
      /\ tracker' = [l \in Location |->
            IF \E k \in 1 .. Chunks : l = <<t, s, a, k>> THEN Tracked(op, l, n + l[4])
            ELSE tracker[l]]
      /\ Events' = Events + 1 /\ Events \in Nat
      /\ UNCHANGED <<device, done, content>> /\ device = "off"

\* A chunk's command is added behind all others, and waits for those it conflicts
\* with.
LEMMA EmitAppends ==
  ASSUME LogOK, TrackerOK, NEW op \in {"READ", "WRITE", "TRIM"}, NEW t \in Tier, NEW s \in Stream,
         NEW a \in 0 .. Cardinality(Block), NEW after \in 0 .. Events, Emit(op, t, s, a, after)
  PROVE  Appended(op, t, s, a, after)
  <1> DEFINE n == Len(commands)
             Place(k) == <<t, s, a, k>>
             Waits(k) == (Conflicts(op, Place(k))
                          \cup (IF k = 1 /\ after # NoEvent THEN {FinalCommand(after)} ELSE {})
                          \cup (IF k > 1 THEN {n + (k - 1)} ELSE {})) \ {n + k}
             new == [k \in 1 .. Chunks |->
                       [event |-> Events + 1, after |-> after, op |-> op, place |-> Place(k),
                        predecessors |-> Waits(k)]]
  <1>1. /\ n \in Nat /\ DOMAIN commands = 1 .. n /\ commands \in Seq(Command)
        /\ Events \in Nat /\ after \in Nat /\ Chunks \in Nat \ {0}
    BY LenProperties, CommandTraceAssumption DEF LogOK
  <1>2. \A k \in 1 .. Chunks : Place(k) \in Location
    BY DEF Location
  <1>3. after # NoEvent => \E f \in 1 .. n : Ends(after, f)
    BY <1>1 DEF LogOK, NoEvent
  <1>4. \A f : Ends(after, f) => FinalCommand(after) = f /\ f \in Nat
    BY <1>1, EndIsFinal
  <1>5. ASSUME NEW k \in 1 .. Chunks PROVE Waits(k) \in SUBSET Nat
    <2>1. tracker[Place(k)] \in [last : Nat, readers : SUBSET Nat]
      BY <1>2 DEF TrackerOK
    <2>2. Conflicts(op, Place(k)) \subseteq Nat
      BY <2>1 DEF Conflicts
    <2>3. after # NoEvent => FinalCommand(after) \in Nat
      BY <1>3, <1>4
    <2>4. k > 1 => n + (k - 1) \in Nat
      BY <1>1
    <2> QED BY <2>2, <2>3, <2>4
  <1>6. commands' = commands \o new
    BY DEF Emit
  <1>7. \A k \in 1 .. Chunks :
           [event |-> Events + 1, after |-> after, op |-> op, place |-> Place(k),
            predecessors |-> Waits(k)] \in Command
    <2> HIDE DEF Place, Waits
    <2> QED BY <1>1, <1>2, <1>5 DEF Command
  <1>8. new \in Seq(Command) /\ Len(new) = Chunks
    <2> HIDE DEF Place, Waits
    <2> QED BY <1>1, <1>7
  <1>9. \A k \in 1 .. Chunks :
           /\ new[k].event = Events + 1 /\ new[k].after = after /\ new[k].op = op
           /\ new[k].place = Place(k) /\ new[k].predecessors = Waits(k)
    <2> HIDE DEF Place, Waits
    <2> QED OBVIOUS
  <1> HIDE DEF new
  <1>10. /\ commands' \in Seq(Command) /\ Len(commands') = n + Chunks
         /\ DOMAIN commands' = 1 .. n + Chunks
         /\ \A i \in 1 .. n + Chunks :
               commands'[i] = IF i <= n THEN commands[i] ELSE new[i - n]
    <2>1. /\ commands \o new \in Seq(Command) /\ Len(commands \o new) = n + Chunks
          /\ \A i \in 1 .. n + Chunks :
                (commands \o new)[i] = IF i <= n THEN commands[i] ELSE new[i - n]
      BY <1>1, <1>8, ConcatProperties
    <2> QED BY <1>6, <2>1, LenProperties
  <1>11. \A c \in 1 .. n : commands'[c] = commands[c]
    BY <1>1, <1>10
  <1>12. \A k \in 1 .. Chunks : commands'[n + k] = new[k]
    <2>1. ASSUME NEW k \in 1 .. Chunks PROVE commands'[n + k] = new[k]
      <3>1. n + k \in 1 .. n + Chunks /\ ~(n + k <= n) /\ (n + k) - n = k
        BY <1>1
      <3> QED BY <1>10, <3>1
    <2> QED BY <2>1
  <1>13. Events' = Events + 1
    <2>1. commands' # <<>> /\ Chunks \in 1 .. Chunks
      BY <1>1, <1>10
    <2>2. Events' = commands'[n + Chunks].event
      BY <1>10, <2>1 DEF Events
    <2>3. commands'[n + Chunks] = new[Chunks] /\ new[Chunks].event = Events + 1
      BY <1>9, <1>12, <2>1
    <2> QED BY <2>2, <2>3
  <1>14. ASSUME NEW k \in 1 .. Chunks
         PROVE  /\ \A d \in Conflicts(op, Place(k)) : d <= n => d \in Waits(k)
                /\ k = 1 => \A f \in 1 .. n : Ends(after, f) => f \in Waits(k)
                /\ k > 1 => n + k - 1 \in Waits(k)
    <2>1. ASSUME NEW d \in Conflicts(op, Place(k)), d <= n PROVE d \in Waits(k)
      BY <1>1, <2>1
    <2>2. ASSUME k = 1, NEW f \in 1 .. n, Ends(after, f) PROVE f \in Waits(k)
      <3>1. after # NoEvent
        BY <1>1, <2>2 DEF Ends, LogOK, NoEvent
      <3>2. f = FinalCommand(after) /\ f # n + k
        BY <1>1, <1>4, <2>2
      <3> QED BY <2>2, <3>1, <3>2
    <2>3. ASSUME k > 1 PROVE n + k - 1 \in Waits(k)
      <3>1. n + k - 1 = n + (k - 1) /\ n + (k - 1) # n + k
        BY <1>1
      <3> QED BY <2>3, <3>1
    <2> QED BY <2>1, <2>2, <2>3
  <1>15. /\ device = "off" /\ UNCHANGED <<device, done, content>>
         /\ tracker' = [l \in Location |->
               IF \E k \in 1 .. Chunks : l = Place(k) THEN Tracked(op, l, n + l[4])
               ELSE tracker[l]]
    BY DEF Emit
  <1> HIDE DEF Waits
  <1>16. ASSUME NEW k \in 1 .. Chunks
         PROVE  /\ commands'[n + k].event = Events + 1 /\ commands'[n + k].after = after
                /\ commands'[n + k].op = op /\ commands'[n + k].place = <<t, s, a, k>>
                /\ \A d \in Conflicts(op, <<t, s, a, k>>) :
                      d <= n => d \in commands'[n + k].predecessors
                /\ k = 1 => \A f \in 1 .. n : Ends(after, f) => f \in commands'[n + k].predecessors
                /\ k > 1 => n + k - 1 \in commands'[n + k].predecessors
    BY <1>9, <1>12, <1>14
  <1> QED BY <1>1, <1>2, <1>10, <1>11, <1>13, <1>15, <1>16 DEF Appended

\* The log is a log of one event more.
LEMMA AppendedLog ==
  ASSUME LogOK, NEW op, NEW t, NEW s, NEW a, NEW after \in 0 .. Events,
         Appended(op, t, s, a, after)
  PROVE  /\ LogOK'
         /\ \A e \in 1 .. Events : \A f : Ends(e, f)' => Ends(e, f)
  <1> DEFINE n == Len(commands)
  <1>1. /\ n \in Nat /\ DOMAIN commands = 1 .. n /\ DOMAIN commands' = 1 .. n + Chunks
        /\ commands' \in Seq(Command) /\ Events \in Nat /\ Events' = Events + 1
        /\ \A c \in 1 .. n : commands'[c] = commands[c]
        /\ \A k \in 1 .. Chunks : commands'[n + k].event = Events + 1
                                  /\ commands'[n + k].after = after
        /\ Chunks \in Nat \ {0}
    BY CommandTraceAssumption DEF Appended
  <1> HIDE DEF n
  <1>2. \A c \in 1 .. n + Chunks : c \in 1 .. n \/ \E k \in 1 .. Chunks : c = n + k
    <2>1. ASSUME NEW c \in 1 .. n + Chunks, c \notin 1 .. n PROVE \E k \in 1 .. Chunks : c = n + k
      <3>1. c - n \in 1 .. Chunks /\ c = n + (c - n)
        BY <1>1, <2>1
      <3> QED BY <3>1
    <2> QED BY <2>1
  <1>3. \A c \in 1 .. n : /\ commands[c].event \in 1 .. Events
                          /\ commands[c].after < commands[c].event
    BY <1>1 DEF LogOK
  <1>4. \A c \in 1 .. n + Chunks :
           /\ commands'[c].event \in 1 .. Events'
           /\ commands'[c].after < commands'[c].event
    <2> SUFFICES ASSUME NEW c \in 1 .. n + Chunks
                 PROVE  /\ commands'[c].event \in 1 .. Events'
                        /\ commands'[c].after < commands'[c].event
      OBVIOUS
    <2>1. CASE c \in 1 .. n
      BY <1>1, <1>3, <2>1
    <2>2. CASE \E k \in 1 .. Chunks : c = n + k
      <3>1. PICK k \in 1 .. Chunks : c = n + k
        BY <2>2
      <3>2. commands'[c].event = Events + 1 /\ commands'[c].after = after
        BY <1>1, <3>1
      <3> QED BY <1>1, <3>2
    <2> QED BY <1>2, <2>1, <2>2
  <1>5. \A e \in 1 .. Events : \A f : Ends(e, f) <=> Ends(e, f)'
    <2> SUFFICES ASSUME NEW e \in 1 .. Events, NEW f PROVE Ends(e, f) <=> Ends(e, f)'
      OBVIOUS
    <2>1. \A c \in 1 .. n + Chunks : commands'[c].event = e <=> c \in 1 .. n /\ commands[c].event = e
      <3> SUFFICES ASSUME NEW c \in 1 .. n + Chunks
                   PROVE  commands'[c].event = e <=> c \in 1 .. n /\ commands[c].event = e
        OBVIOUS
      <3>1. CASE c \in 1 .. n
        BY <1>1, <3>1
      <3>2. CASE \E k \in 1 .. Chunks : c = n + k
        <4>1. PICK k \in 1 .. Chunks : c = n + k
          BY <3>2
        <4>2. commands'[c].event = Events + 1 /\ Events \in Nat /\ n \in Nat
          BY <1>1, <4>1
        <4> QED BY <4>1, <4>2
      <3> QED BY <1>2, <3>1, <3>2
    <2>2. /\ DOMAIN commands = 1 .. n /\ DOMAIN commands' = 1 .. n + Chunks
          /\ \A c \in 1 .. n : c \in 1 .. n + Chunks
      BY <1>1
    <2> QED BY <2>1, <2>2 DEF Ends
  <1>6. ASSUME NEW e, e = Events + 1, NEW f, f = n + Chunks PROVE Ends(e, f)'
    <2>1. \A d \in 1 .. n + Chunks : d <= f
      BY <1>1, <1>6
    <2>2. Chunks \in 1 .. Chunks /\ f \in 1 .. n + Chunks
      BY <1>1, <1>6
    <2>3. commands'[f].event = e
      BY <1>1, <1>6, <2>2
    <2> QED BY <1>1, <2>1, <2>2, <2>3 DEF Ends
  <1>7. \A e \in 1 .. Events' : \E f \in DOMAIN commands' : Ends(e, f)'
    <2> SUFFICES ASSUME NEW e \in 1 .. Events' PROVE \E f \in DOMAIN commands' : Ends(e, f)'
      OBVIOUS
    <2>1. CASE e = Events + 1
      <3>1. PICK f \in DOMAIN commands' : f = n + Chunks
        BY <1>1
      <3> QED BY <1>6, <2>1, <3>1
    <2>2. CASE e \in 1 .. Events
      <3>1. PICK f \in DOMAIN commands : Ends(e, f)
        BY <2>2 DEF LogOK
      <3>2. f \in DOMAIN commands'
        BY <1>1, <3>1
      <3> QED BY <1>5, <2>2, <3>1, <3>2
    <2> QED BY <1>1, <2>1, <2>2
  <1> QED BY <1>1, <1>4, <1>5, <1>7 DEF LogOK

\* The tracker follows: a place the event is at now has its command as the last
\* mutation or among the reads, the others are as before.
LEMMA AppendedTracker ==
  ASSUME LogOK, TrackerOK, NEW op \in {"READ", "WRITE", "TRIM"}, NEW t, NEW s, NEW a, NEW after,
         Appended(op, t, s, a, after)
  PROVE  TrackerOK'
  <1> DEFINE n == Len(commands)
             Place(k) == <<t, s, a, k>>
  <1>1. /\ n \in Nat /\ DOMAIN commands = 1 .. n /\ DOMAIN commands' = 1 .. n + Chunks
        /\ commands \in Seq(Command) /\ commands' \in Seq(Command)
        /\ \A c \in 1 .. n : commands'[c] = commands[c]
        /\ \A k \in 1 .. Chunks : commands'[n + k].op = op /\ commands'[n + k].place = Place(k)
        /\ \A k \in 1 .. Chunks : Place(k) \in Location
        /\ Chunks \in Nat
    BY CommandTraceAssumption DEF Appended, LogOK
  <1>2. tracker' = [l \in Location |->
            IF \E k \in 1 .. Chunks : l = Place(k) THEN Tracked(op, l, n + l[4]) ELSE tracker[l]]
    BY DEF Appended
  <1>3. tracker \in [Location -> [last : Nat, readers : SUBSET Nat]]
    BY DEF TrackerOK
  <1>4. ASSUME NEW k \in 1 .. Chunks
        PROVE  tracker'[Place(k)] = IF op = "READ"
                  THEN [last |-> tracker[Place(k)].last,
                        readers |-> tracker[Place(k)].readers \cup {n + k}]
                  ELSE [last |-> n + k, readers |-> {}]
    <2>1. Place(k)[4] = k
      OBVIOUS
    <2>2. tracker'[Place(k)] = Tracked(op, Place(k), n + k)
      BY <1>1, <1>2, <2>1
    <2>3. tracker[Place(k)] \in [last : Nat, readers : SUBSET Nat]
      BY <1>1, <1>3
    <2> HIDE DEF Place
    <2> QED BY <2>2, <2>3 DEF Tracked
  <1>5. ASSUME NEW l \in Location, ~\E k \in 1 .. Chunks : l = Place(k)
        PROVE  tracker'[l] = tracker[l]
    BY <1>2, <1>5
  <1> HIDE DEF n, Place
  <1>6. ASSUME NEW l \in Location
        PROVE  /\ tracker'[l] \in [last : Nat, readers : SUBSET Nat]
               /\ tracker'[l].last # NoCommand =>
                    /\ tracker'[l].last \in 1 .. n + Chunks
                    /\ commands'[tracker'[l].last].op # "READ"
                    /\ commands'[tracker'[l].last].place = l
    <2>0. /\ tracker[l] \in [last : Nat, readers : SUBSET Nat]
          /\ tracker[l].last # NoCommand =>
               /\ tracker[l].last \in 1 .. n /\ tracker[l].last \in 1 .. n + Chunks
               /\ commands'[tracker[l].last].op # "READ"
               /\ commands'[tracker[l].last].place = l
      BY <1>1 DEF TrackerOK, Mutates
    <2>1. CASE \E k \in 1 .. Chunks : l = Place(k)
      <3>1. PICK k \in 1 .. Chunks : l = Place(k)
        BY <2>1
      <3>2. n + k \in 1 .. n + Chunks /\ n + k \in Nat
        BY <1>1
      <3>3. tracker'[l] = IF op = "READ"
               THEN [last |-> tracker[l].last, readers |-> tracker[l].readers \cup {n + k}]
               ELSE [last |-> n + k, readers |-> {}]
        BY <1>4, <3>1
      <3>4. CASE op = "READ"
        BY <2>0, <3>2, <3>3, <3>4
      <3>5. CASE op # "READ"
        BY <1>1, <3>1, <3>2, <3>3, <3>5
      <3> QED BY <3>4, <3>5
    <2>2. CASE ~\E k \in 1 .. Chunks : l = Place(k)
      BY <1>5, <2>0, <2>2
    <2> QED BY <2>1, <2>2
  <1>7. ASSUME NEW d \in 1 .. n + Chunks
        PROVE  \/ d < tracker'[commands'[d].place].last
               \/ commands'[d].op # "READ" /\ d = tracker'[commands'[d].place].last
               \/ commands'[d].op = "READ" /\ d \in tracker'[commands'[d].place].readers
    <2>1. CASE d \in 1 .. n
      <3> DEFINE l == commands[d].place
      <3>0. commands[d] \in Command
        BY <1>1, <2>1
      <3>1. /\ commands'[d] = commands[d] /\ l \in Location
            /\ \/ d < tracker[l].last
               \/ commands[d].op # "READ" /\ d = tracker[l].last
               \/ commands[d].op = "READ" /\ d \in tracker[l].readers
        BY <1>1, <2>1, <3>0 DEF TrackerOK, Mutates, Command
      <3>2. tracker[l] \in [last : Nat, readers : SUBSET Nat]
        BY <1>3, <3>1
      <3> HIDE DEF l
      <3>3. CASE \E k \in 1 .. Chunks : l = Place(k)
        <4>1. PICK k \in 1 .. Chunks : l = Place(k)
          BY <3>3
        <4>2. d < n + k
          BY <1>1, <2>1
        <4>3. tracker'[l] = IF op = "READ"
                 THEN [last |-> tracker[l].last, readers |-> tracker[l].readers \cup {n + k}]
                 ELSE [last |-> n + k, readers |-> {}]
          BY <1>4, <4>1
        <4>4. commands'[d].place = l
          BY <3>1 DEF l
        <4>5. CASE op = "READ"
          BY <3>1, <3>2, <4>3, <4>4, <4>5
        <4>6. CASE op # "READ"
          BY <4>2, <4>3, <4>4, <4>6
        <4> QED BY <4>5, <4>6
      <3>4. CASE ~\E k \in 1 .. Chunks : l = Place(k)
        BY <1>5, <3>1, <3>4 DEF l
      <3> QED BY <3>3, <3>4
    <2>2. CASE d \notin 1 .. n
      <3>1. d - n \in 1 .. Chunks /\ d = n + (d - n)
        BY <1>1, <2>2
      <3>2. PICK k \in 1 .. Chunks : d = n + k
        BY <3>1
      <3>3. commands'[d].place = Place(k) /\ commands'[d].op = op
        BY <1>1, <3>2
      <3> DEFINE new == tracker'[commands'[d].place]
      <3>6. new = IF op = "READ"
               THEN [last |-> tracker[Place(k)].last,
                     readers |-> tracker[Place(k)].readers \cup {n + k}]
               ELSE [last |-> n + k, readers |-> {}]
        BY <1>4, <3>3
      <3> HIDE DEF new
      <3>4. CASE op = "READ"
        <4>1. d \in new.readers
          BY <3>2, <3>4, <3>6
        <4> QED BY <3>3, <3>4, <4>1 DEF new
      <3>5. CASE op # "READ"
        <4>1. d = new.last
          BY <3>2, <3>5, <3>6
        <4> QED BY <3>3, <3>5, <4>1 DEF new
      <3> QED BY <3>4, <3>5
    <2> QED BY <2>1, <2>2
  <1>8. tracker' \in [Location -> [last : Nat, readers : SUBSET Nat]]
    BY <1>2, <1>6
  <1> QED BY <1>1, <1>6, <1>7, <1>8 DEF TrackerOK, Mutates

\* The commands of the event wait for what they conflict with, and the others
\* wait for what they did.
LEMMA AppendedOrder ==
  ASSUME LogOK, TrackerOK, NEW op \in {"READ", "WRITE", "TRIM"}, NEW t, NEW s, NEW a, NEW after,
         Appended(op, t, s, a, after), \A c \in DOMAIN commands : Ordered(c)
  PROVE  \A c \in DOMAIN commands' : Ordered(c)'
  <1> DEFINE n == Len(commands)
             Place(k) == <<t, s, a, k>>
  <1>1. /\ n \in Nat /\ DOMAIN commands = 1 .. n /\ DOMAIN commands' = 1 .. n + Chunks
        /\ \A c \in 1 .. n : commands'[c] = commands[c]
        /\ \A k \in 1 .. Chunks :
              /\ commands'[n + k].op = op /\ commands'[n + k].place = Place(k)
              /\ \A d \in Conflicts(op, Place(k)) : d <= n => d \in commands'[n + k].predecessors
        /\ \A k \in 1 .. Chunks : Place(k) \in Location
        /\ Chunks \in Nat
    BY CommandTraceAssumption DEF Appended
  <1>2. \A j, k \in 1 .. Chunks : Place(j) = Place(k) => j = k
    OBVIOUS
  <1>3. \A l \in Location :
          /\ tracker[l].last \in Nat
          /\ tracker[l].last # NoCommand =>
               /\ tracker[l].last \in 1 .. n
               /\ commands[tracker[l].last].op # "READ" /\ commands[tracker[l].last].place = l
    BY <1>1 DEF TrackerOK, Mutates
  <1>4. \A d \in 1 .. n :
          \/ d < tracker[commands[d].place].last
          \/ commands[d].op # "READ" /\ d = tracker[commands[d].place].last
          \/ commands[d].op = "READ" /\ d \in tracker[commands[d].place].readers
    BY <1>1 DEF TrackerOK, Mutates
  <1>5. \A c \in 1 .. n : \A d \in 1 .. c - 1 :
          /\ commands[c].place = commands[d].place
          /\ commands[c].op # "READ" \/ commands[d].op # "READ"
          => \/ d \in commands[c].predecessors
             \/ \E m \in commands[c].predecessors :
                   m \in d + 1 .. c - 1 /\ commands[m].place = commands[c].place
                   /\ commands[m].op # "READ"
    BY <1>1 DEF Ordered, Conflict, SamePlace, Mutates
  <1>8. \A k \in 1 .. Chunks : \A d \in 1 .. n :
           /\ d = tracker[Place(k)].last => d \in commands'[n + k].predecessors
           /\ op # "READ" /\ d \in tracker[Place(k)].readers => d \in commands'[n + k].predecessors
    <2> SUFFICES ASSUME NEW k \in 1 .. Chunks, NEW d \in 1 .. n
                 PROVE  /\ d = tracker[Place(k)].last => d \in Conflicts(op, Place(k))
                        /\ op # "READ" /\ d \in tracker[Place(k)].readers =>
                              d \in Conflicts(op, Place(k))
      BY <1>1
    <2>1. d # NoCommand
      BY DEF NoCommand
    <2> QED BY <2>1 DEF Conflicts
  <1> HIDE DEF n, Place
  <1> SUFFICES ASSUME NEW c \in 1 .. n + Chunks, NEW d \in 1 .. c - 1,
                      commands'[c].place = commands'[d].place,
                      commands'[c].op # "READ" \/ commands'[d].op # "READ"
               PROVE  \/ d \in commands'[c].predecessors
                      \/ \E m \in commands'[c].predecessors :
                            m \in d + 1 .. c - 1 /\ commands'[m].place = commands'[c].place
                            /\ commands'[m].op # "READ"
    BY <1>1 DEF Ordered, Conflict, SamePlace, Mutates
  <1>6. CASE c \in 1 .. n
    <2>1. d \in 1 .. n /\ \A m \in d + 1 .. c - 1 : m \in 1 .. n
      BY <1>1, <1>6
    <2> QED BY <1>1, <1>5, <1>6, <2>1
  <1>7. CASE c \notin 1 .. n
    <2>1. c - n \in 1 .. Chunks /\ c = n + (c - n)
      BY <1>1, <1>7
    <2>2. PICK k \in 1 .. Chunks : c = n + k
      BY <2>1
    <2>3. commands'[c].op = op /\ commands'[c].place = Place(k)
      BY <1>1, <2>2
    <2>4. d \in 1 .. n
      <3>1. ASSUME d \notin 1 .. n PROVE FALSE
        <4>1. d - n \in 1 .. Chunks /\ d = n + (d - n)
          BY <1>1, <2>2, <3>1
        <4>2. PICK j \in 1 .. Chunks : d = n + j
          BY <4>1
        <4>3. commands'[d].place = Place(j)
          BY <1>1, <4>2
        <4>4. j = k
          BY <1>2, <2>3, <4>3
        <4> QED BY <1>1, <2>2, <4>2, <4>4
      <3> QED BY <3>1
    <2> DEFINE x == tracker[Place(k)].last
    <2>5. /\ commands[d].place = Place(k) /\ (op # "READ" \/ commands[d].op # "READ")
          /\ commands'[d] = commands[d]
      BY <1>1, <2>3, <2>4
    <2>6. \/ d < x
          \/ d = x
          \/ op # "READ" /\ d \in tracker[Place(k)].readers
      BY <1>4, <2>4, <2>5
    <2>7. /\ x \in Nat
          /\ x # NoCommand => x \in 1 .. n /\ commands[x].op # "READ" /\ commands[x].place = Place(k)
      BY <1>1, <1>3
    <2> HIDE DEF x
    <2>8. CASE d < x
      <3>1. x \in 1 .. n /\ x \in d + 1 .. c - 1
        BY <1>1, <2>2, <2>4, <2>7, <2>8 DEF NoCommand
      <3>2. x \in commands'[c].predecessors
        BY <1>8, <2>2, <3>1 DEF x
      <3>3. commands'[x].place = commands'[c].place /\ commands'[x].op # "READ"
        BY <1>1, <2>3, <2>7, <3>1 DEF NoCommand
      <3> QED BY <3>1, <3>2, <3>3
    <2>9. CASE d = x
      BY <1>8, <2>2, <2>4, <2>9 DEF x
    <2>10. CASE op # "READ" /\ d \in tracker[Place(k)].readers
      BY <1>8, <2>2, <2>4, <2>10
    <2> QED BY <2>6, <2>8, <2>9, <2>10
  <1> QED BY <1>6, <1>7

\* The commands of the event wait for each other in turn and for the event it
\* depends on.
LEMMA AppendedChain ==
  ASSUME LogOK, NEW op, NEW t, NEW s, NEW a, NEW after \in 0 .. Events,
         Appended(op, t, s, a, after), \A c \in DOMAIN commands : Chained(c)
  PROVE  \A c \in DOMAIN commands' : Chained(c)'
  <1> DEFINE n == Len(commands)
  <1>1. /\ n \in Nat /\ DOMAIN commands = 1 .. n /\ DOMAIN commands' = 1 .. n + Chunks
        /\ \A c \in 1 .. n : commands'[c] = commands[c]
        /\ \A k \in 1 .. Chunks :
              /\ commands'[n + k].event = Events + 1 /\ commands'[n + k].after = after
              /\ k = 1 => \A f \in 1 .. n : Ends(after, f) => f \in commands'[n + k].predecessors
              /\ k > 1 => n + k - 1 \in commands'[n + k].predecessors
        /\ Chunks \in Nat /\ Events \in Nat
    BY CommandTraceAssumption DEF Appended
  <1>2. \A c \in 1 .. n : /\ commands[c].event \in 1 .. Events
                          /\ commands[c].after < commands[c].event
                          /\ commands[c].after \in Nat
    <2> SUFFICES ASSUME NEW c \in 1 .. n
                 PROVE  /\ commands[c].event \in 1 .. Events
                        /\ commands[c].after < commands[c].event
                        /\ commands[c].after \in Nat
      OBVIOUS
    <2>1. commands[c] \in Command
      BY <1>1 DEF LogOK
    <2> QED BY <1>1, <2>1 DEF LogOK, Command
  <1>3. \A e \in 1 .. Events : \A f : Ends(e, f)' => Ends(e, f)
    BY AppendedLog
  <1>4. ASSUME NEW e, NEW f, Ends(e, f)' PROVE e # 0
    <2>1. \A c \in DOMAIN commands' : commands'[c].event \in 1 .. Events'
      BY AppendedLog DEF LogOK
    <2>2. f \in DOMAIN commands' /\ commands'[f].event = e
      BY <1>4 DEF Ends
    <2> QED BY <2>1, <2>2
  <1>5. ASSUME NEW e \in 0 .. Events, NEW f, Ends(e, f)' PROVE e \in 1 .. Events /\ Ends(e, f)
    <2>1. e # 0
      BY <1>4, <1>5
    <2>2. e \in 1 .. Events
      BY <1>1, <2>1
    <2> QED BY <1>3, <1>5, <2>2
  <1> HIDE DEF n
  <1> SUFFICES ASSUME NEW c \in 1 .. n + Chunks PROVE Chained(c)'
    BY <1>1
  <1>6. CASE c \in 1 .. n
    <2>1. Chained(c) /\ commands'[c] = commands[c] /\ \A d \in 1 .. c - 1 : d \in 1 .. n
      BY <1>1, <1>6
    <2>2. CASE /\ c - 1 \in DOMAIN commands /\ c - 1 \in commands[c].predecessors
               /\ SameEvent(c, c - 1) /\ commands[c - 1].after = commands[c].after
      BY <1>1, <2>1, <2>2 DEF Chained, SameEvent
    <2>3. CASE /\ \A d \in 1 .. c - 1 : ~SameEvent(c, d)
               /\ \A f \in DOMAIN commands : Ends(commands[c].after, f) =>
                     f \in commands[c].predecessors
      <3> DEFINE e == commands[c].after
      <3>1. e \in 0 .. Events
        BY <1>1, <1>2, <1>6
      <3>2. \A d \in 1 .. c - 1 : ~SameEvent(c, d)'
        BY <1>1, <2>1, <2>3 DEF SameEvent
      <3>3. commands'[c].after = e /\ \A f \in DOMAIN commands : Ends(e, f) => f \in commands[c].predecessors
        BY <2>1, <2>3
      <3>4. PICK x \in 0 .. Events : x = e
        BY <3>1
      <3>5. \A f \in DOMAIN commands' : Ends(x, f)' => f \in commands'[c].predecessors
        <4> SUFFICES ASSUME NEW f \in DOMAIN commands', Ends(x, f)'
                     PROVE  f \in commands'[c].predecessors
          OBVIOUS
        <4>1. Ends(x, f)
          BY <1>5
        <4>2. f \in DOMAIN commands
          BY <4>1 DEF Ends
        <4> QED BY <2>1, <3>3, <3>4, <4>1, <4>2
      <3>6. commands'[c].after = x
        BY <3>3, <3>4
      <3> HIDE DEF e
      <3>7. \A f \in DOMAIN commands' : Ends(commands[c].after, f)' => f \in commands'[c].predecessors
        BY <3>5, <3>6 DEF Ends
      <3> QED BY <3>2, <3>7 DEF Chained
    <2> QED BY <2>1, <2>2, <2>3 DEF Chained
  <1>7. CASE c \notin 1 .. n
    <2>1. c - n \in 1 .. Chunks /\ c = n + (c - n)
      BY <1>1, <1>7
    <2>2. PICK k \in 1 .. Chunks : c = n + k
      BY <2>1
    <2>3. commands'[c].event = Events + 1 /\ commands'[c].after = after
      BY <1>1, <2>2
    <2>4. CASE k = 1
      <3>1. \A d \in 1 .. c - 1 : d \in 1 .. n
        BY <1>1, <2>2, <2>4
      <3>2. \A d \in 1 .. c - 1 : ~SameEvent(c, d)'
        BY <1>1, <1>2, <2>3, <3>1 DEF SameEvent
      <3>3. \A f \in DOMAIN commands' : Ends(after, f)' => f \in commands'[c].predecessors
        <4> SUFFICES ASSUME NEW f \in DOMAIN commands', Ends(after, f)'
                     PROVE  f \in commands'[c].predecessors
          OBVIOUS
        <4>1. Ends(after, f)
          BY <1>5
        <4>2. f \in 1 .. n
          BY <1>1, <4>1 DEF Ends
        <4> QED BY <1>1, <2>2, <2>4, <4>1, <4>2
      <3>4. \A f \in DOMAIN commands' : Ends(commands[c].after, f)' => f \in commands'[c].predecessors
        BY <2>3, <3>3 DEF Ends
      <3> QED BY <3>2, <3>4 DEF Chained
    <2>5. CASE k # 1
      <3>1. /\ k - 1 \in 1 .. Chunks /\ c - 1 = n + (k - 1) /\ k > 1
            /\ c - 1 \in 1 .. n + Chunks
        BY <1>1, <2>2, <2>5
      <3>2. commands'[c - 1].event = Events + 1 /\ commands'[c - 1].after = after
        BY <1>1, <3>1
      <3>3. c - 1 = n + k - 1
        BY <1>1, <2>2
      <3>4. c - 1 \in commands'[c].predecessors
        BY <1>1, <2>2, <3>1, <3>3
      <3> QED BY <1>1, <2>3, <3>1, <3>2, <3>4 DEF Chained, SameEvent
    <2> QED BY <2>4, <2>5
  <1> QED BY <1>6, <1>7

\* An event is converted before the device runs, so it changes nothing there.
LEMMA EmitKeeps ==
  ASSUME TraceLog, NEW op \in {"READ", "WRITE", "TRIM"}, NEW t \in Tier, NEW s \in Stream,
         NEW a \in 0 .. Cardinality(Block), NEW after \in 0 .. Events, Emit(op, t, s, a, after)
  PROVE  TraceLog' /\ Events' = Events + 1
  <1>1. Appended(op, t, s, a, after)
    BY EmitAppends DEF TraceLog
  <1>2. LogOK' /\ TrackerOK' /\ \A c \in DOMAIN commands' : Ordered(c)' /\ Chained(c)'
    BY <1>1, AppendedLog, AppendedTracker, AppendedOrder, AppendedChain DEF TraceLog
  <1>3. /\ done' = {} /\ device' = "off" /\ Events' = Events + 1
        /\ content \in [Location -> Nat] /\ content' = content
        /\ \A l \in Location : content[l] = NoCommand
    BY <1>1 DEF Appended, TraceLog, DoneOK
  <1>4. DoneOK' /\ CopySurvives'
    BY <1>3 DEF DoneOK, CopySurvives
  <1> QED BY <1>2, <1>3, <1>4 DEF TraceLog

-----------------------------------------------------------------------------
(* The device. *)

\* A command the device runs has what it depends on behind it, so it finds the
\* place as the simulator left it.
LEMMA ReadyFinds ==
  ASSUME TraceLog, NEW c \in DOMAIN commands, Ready(c)
  PROVE  /\ \A d \in DOMAIN commands : d < c /\ (Conflict(c, d) \/ SameEvent(c, d)) => d \in done
         /\ \A d \in DOMAIN commands : commands[d].event = commands[c].after => d \in done
         /\ \A d \in done : SamePlace(c, d) /\ Mutates(d) => d < c
  <1>1. /\ commands \in Seq(Command) /\ Len(commands) \in Nat
        /\ DOMAIN commands = 1 .. Len(commands)
        /\ c \notin done /\ commands[c].predecessors \subseteq done /\ done \subseteq DOMAIN commands
        /\ Ordered(c) /\ Chained(c)
    BY LenProperties DEF TraceLog, LogOK, DoneOK, Ready
  <1>2. \A x \in done, d \in DOMAIN commands :
          d < x /\ (Conflict(x, d) \/ SameEvent(x, d)) => d \in done
    BY DEF TraceLog, DoneOK
  <1>3. ASSUME NEW d \in DOMAIN commands, d < c, Conflict(c, d) PROVE d \in done
    <2>1. d \in 1 .. c - 1
      BY <1>1, <1>3
    <2>2. CASE d \in commands[c].predecessors
      BY <1>1, <2>2
    <2>3. CASE \E m \in commands[c].predecessors :
                 m \in d + 1 .. c - 1 /\ SamePlace(m, c) /\ Mutates(m)
      <3>1. PICK m \in done : m \in d + 1 .. c - 1 /\ SamePlace(m, c) /\ Mutates(m)
        BY <1>1, <2>3
      <3>2. d < m /\ Conflict(m, d)
        BY <1>1, <1>3, <3>1 DEF Conflict, SamePlace
      <3> QED BY <1>2, <3>1, <3>2
    <2> QED BY <1>1, <1>3, <2>1, <2>2, <2>3 DEF Ordered
  <1>4. ASSUME NEW d \in DOMAIN commands, d < c, SameEvent(c, d) PROVE d \in done
    <2>1. c - 1 \in done /\ SameEvent(c, c - 1)
      BY <1>1, <1>4 DEF Chained
    <2>2. d = c - 1 \/ d < c - 1
      BY <1>1, <1>4
    <2>3. SameEvent(c - 1, d)
      BY <1>4, <2>1 DEF SameEvent
    <2> QED BY <1>2, <2>1, <2>2, <2>3
  <1>5. ASSUME NEW d \in DOMAIN commands, commands[d].event = commands[c].after PROVE d \in done
    <2>1. CASE c - 1 \in done /\ commands[c - 1].after = commands[c].after
      BY <1>5, <2>1 DEF TraceLog, CopySurvives
    <2>2. CASE \A f \in DOMAIN commands : Ends(commands[c].after, f) => f \in commands[c].predecessors
      <3>1. commands[c].after \in 1 .. Events
        BY <1>5 DEF TraceLog, LogOK
      <3>2. PICK f \in DOMAIN commands : Ends(commands[c].after, f)
        BY <3>1 DEF TraceLog, LogOK
      <3>3. f \in done
        BY <1>1, <2>2, <3>2
      <3>4. d = f \/ (d < f /\ SameEvent(f, d))
        BY <1>1, <1>5, <3>2 DEF Ends, SameEvent
      <3> QED BY <1>2, <3>3, <3>4
    <2> QED BY <1>1, <2>1, <2>2 DEF Chained
  <1>6. ASSUME NEW d \in done, SamePlace(c, d), Mutates(d), ~(d < c) PROVE FALSE
    <2>1. d # c /\ c < d /\ Conflict(d, c)
      BY <1>1, <1>6 DEF Conflict, SamePlace
    <2> QED BY <1>1, <1>2, <2>1
  <1> QED BY <1>3, <1>4, <1>5, <1>6

\* Hence what is there is what the simulator's order says.
LEMMA ContentExpected ==
  ASSUME TraceLog, NEW c \in DOMAIN commands, Ready(c)
  PROVE  content[commands[c].place] = Expected(c)
  <1> DEFINE l == commands[c].place
             x == content[l]
             before == {d \in 1 .. c - 1 : commands[d].place = l /\ commands[d].op # "READ"}
  <1>1. /\ commands \in Seq(Command) /\ Len(commands) \in Nat
        /\ DOMAIN commands = 1 .. Len(commands) /\ c \in Nat
    BY LenProperties DEF TraceLog, LogOK
  <1>2. l \in Location
    <2>1. commands[c] \in Command
      BY <1>1
    <2> QED BY <2>1 DEF Command
  <1>3. /\ x \in Nat
        /\ x # NoCommand => x \in done /\ Mutates(x) /\ commands[x].place = l
        /\ \A d \in done : Mutates(d) /\ commands[d].place = l => d <= x
        /\ done \subseteq DOMAIN commands
    BY <1>2 DEF TraceLog, DoneOK
  <1>4. \A d \in before : d \in done /\ Mutates(d) /\ d <= x /\ d \in Nat
    <2> SUFFICES ASSUME NEW d \in before PROVE d \in done /\ Mutates(d) /\ d <= x /\ d \in Nat
      OBVIOUS
    <2>1. d \in DOMAIN commands /\ d < c /\ d \in Nat /\ Mutates(d) /\ commands[d].place = l
      BY <1>1 DEF Mutates
    <2>2. Conflict(c, d)
      BY <2>1 DEF Conflict, SamePlace
    <2>3. d \in done
      BY <2>1, <2>2, ReadyFinds
    <2> QED BY <1>3, <2>1, <2>3
  <1>5. x # NoCommand => x \in before
    <2> SUFFICES ASSUME x # NoCommand PROVE x \in before
      OBVIOUS
    <2>1. x \in done /\ Mutates(x) /\ commands[x].place = l
      BY <1>3
    <2>2. SamePlace(c, x)
      BY <2>1 DEF SamePlace
    <2>3. x < c
      BY <2>1, <2>2, ReadyFinds
    <2>4. x \in 1 .. c - 1
      BY <1>1, <1>3, <2>1, <2>3
    <2> QED BY <2>1, <2>4 DEF Mutates
  <1>6. Expected(c) = IF before = {} THEN NoCommand ELSE Max(before)
    BY DEF Expected
  <1>7. before \in SUBSET Int
    OBVIOUS
  <1> HIDE DEF before, x
  <1>8. CASE x = NoCommand
    <2>1. before = {}
      BY <1>4, <1>8 DEF Mutates, NoCommand, before
    <2> QED BY <1>6, <1>8, <2>1 DEF x
  <1>9. CASE x # NoCommand
    <2>1. Max(before) = x
      BY <1>4, <1>5, <1>7, <1>9, GreatestIsMax
    <2> QED BY <1>5, <1>6, <1>9, <2>1 DEF x
  <1> QED BY <1>8, <1>9

\* The device runs a command.
LEMMA ExecuteKeeps ==
  ASSUME TraceLog, NEW c \in DOMAIN commands, Execute(c)
  PROVE  TraceLog'
  <1>1. /\ Ready(c) /\ done' = done \cup {c} /\ UNCHANGED <<commands, tracker, device>>
        /\ device = "on"
        /\ content' = IF commands[c].op = "READ" THEN content
                      ELSE [content EXCEPT ![commands[c].place] = c]
    BY DEF Execute
  <1>2. LogOK' /\ TrackerOK' /\ \A x \in DOMAIN commands : (Ordered(x) /\ Chained(x))'
    BY <1>1 DEF TraceLog, LogOK, TrackerOK, Ordered, Chained, Events, Ends, Mutates, Conflict,
                SamePlace, SameEvent
  <1>3. /\ \A d \in DOMAIN commands : d < c /\ (Conflict(c, d) \/ SameEvent(c, d)) => d \in done
        /\ \A d \in DOMAIN commands : commands[d].event = commands[c].after => d \in done
        /\ \A d \in done : SamePlace(c, d) /\ Mutates(d) => d < c
    BY <1>1, ReadyFinds
  <1>4. CopySurvives'
    BY <1>1, <1>3 DEF TraceLog, CopySurvives
  <1>5. /\ commands[c].place \in Location /\ c \in Nat /\ done \subseteq DOMAIN commands
        /\ \A d \in DOMAIN commands : d \in Nat
        /\ content \in [Location -> Nat]
        /\ c # NoCommand
    <2>1. commands[c] \in Command /\ DOMAIN commands = 1 .. Len(commands)
      BY LenProperties DEF TraceLog, LogOK
    <2> QED BY <2>1 DEF Command, TraceLog, DoneOK, NoCommand
  <1>6. DoneOK'
    <2>1. done' \subseteq DOMAIN commands /\ device' # "off"
      BY <1>1, <1>5
    <2>2. \A x \in done', d \in DOMAIN commands :
             d < x /\ (Conflict(x, d) \/ SameEvent(x, d))' => d \in done'
      BY <1>1, <1>3 DEF TraceLog, DoneOK, Conflict, SameEvent, SamePlace, Mutates
    <2>3. content' \in [Location -> Nat]
      BY <1>1, <1>5
    <2>4. ASSUME NEW l \in Location, content'[l] # NoCommand
          PROVE  /\ content'[l] \in done' /\ commands[content'[l]].op # "READ"
                 /\ commands[content'[l]].place = l
      <3>1. content'[l] = content[l] \/ (content'[l] = c /\ l = commands[c].place /\ Mutates(c))
        BY <1>1, <1>5 DEF Mutates
      <3> QED BY <1>1, <2>4, <3>1 DEF TraceLog, DoneOK, Mutates
    <2>5. ASSUME NEW d \in done', commands[d].op # "READ"
          PROVE  d <= content'[commands[d].place]
      <3>1. CASE commands[c].op = "READ" \/ commands[d].place # commands[c].place
        <4>1. d \in done \/ (d = c /\ FALSE)
          BY <1>1, <2>5, <3>1
        <4>2. commands[d].place \in Location
          <5>1. commands[d] \in Command
            BY <1>5, <4>1 DEF TraceLog, LogOK
          <5> QED BY <5>1 DEF Command
        <4>3. content'[commands[d].place] = content[commands[d].place]
          BY <1>1, <1>5, <3>1, <4>2
        <4> QED BY <2>5, <4>1, <4>3 DEF TraceLog, DoneOK, Mutates
      <3>2. CASE commands[c].op # "READ" /\ commands[d].place = commands[c].place
        <4>1. content'[commands[d].place] = c
          BY <1>1, <1>5, <3>2
        <4>2. d = c \/ (d \in done /\ d < c)
          BY <1>1, <1>3, <2>5, <3>2 DEF SamePlace, Mutates
        <4> QED BY <1>5, <4>1, <4>2
      <3> QED BY <3>1, <3>2
    <2> QED BY <1>1, <2>1, <2>2, <2>3, <2>4, <2>5 DEF DoneOK, Mutates
  <1> QED BY <1>1, <1>2, <1>4, <1>6 DEF TraceLog

-----------------------------------------------------------------------------
(* The simulator. *)

\* A new address is one of the places, as no pool ever held more than every block.
LEMMA AddressPlaced ==
  ASSUME IInv, PlacesOK, NEW t \in Tier
  PROVE  /\ \A b \in Block : On(b, t) => address[t][b] \in 0 .. Cardinality(Block)
         /\ NewAddress(t) \in 0 .. Cardinality(Block)
  <1>1. /\ next[t] \in Nat /\ recycled[t] \in Seq(Nat) /\ peak[t] \in Nat
        /\ \A b \in Block : address[t][b] \in Nat \cup {NoAddress}
    BY DEF IInv, PoolOK, PoolType
  <1>2. /\ next[t] = peak[t] /\ peak[t] <= Cardinality(Block)
        /\ \A b \in Block : On(b, t) => address[t][b] < next[t]
        /\ \A i \in 1 .. Len(recycled[t]) : recycled[t][i] < next[t]
    BY DEF IInv, PoolOK, Counted, Placed, PlacesOK
  <1>3. Cardinality(Block) \in Nat
    BY BlocksFinite
  <1>4. \A b \in Block : On(b, t) => address[t][b] \in 0 .. Cardinality(Block)
    BY <1>1, <1>2, <1>3 DEF On
  <1>5. CASE recycled[t] = <<>>
    BY <1>1, <1>2, <1>3, <1>4, <1>5 DEF NewAddress
  <1>6. CASE recycled[t] # <<>>
    <2>1. Len(recycled[t]) \in 1 .. Len(recycled[t])
      BY <1>1, <1>6, EmptySeq
    <2> DEFINE x == recycled[t][Len(recycled[t])]
    <2>2. x \in Nat /\ x < next[t] /\ NewAddress(t) = x
      BY <1>1, <1>2, <1>6, <2>1 DEF NewAddress
    <2> HIDE DEF x
    <2> QED BY <1>1, <1>2, <1>3, <1>4, <2>2
  <1> QED BY <1>4, <1>5, <1>6

\* A pool's peak is never above the number of blocks.
LEMMA PeakPlaced ==
  ASSUME IInv, IInv', PlacesOK, NEW u \in Tier, NEW b \in Block,
         Allocate(u, b) \/ Release(u, b) \/ UNCHANGED peak
  PROVE  \A t \in Tier : peak'[t] <= Cardinality(Block)
  <1> SUFFICES ASSUME NEW t \in Tier PROVE peak'[t] <= Cardinality(Block)
    OBVIOUS
  <1>1. /\ peak \in [Tier -> Nat] /\ peak[t] \in Nat /\ used[t] \in Nat /\ used \in [Tier -> Nat]
        /\ peak[t] <= Cardinality(Block)
        /\ used'[t] = Cardinality({c \in Block : On(c, t)'}) /\ used'[t] \in Nat
    BY DEF IInv, PoolOK, PoolType, Counted, PlacesOK
  <1>2. used'[t] <= Cardinality(Block) /\ Cardinality(Block) \in Nat
    BY <1>1, BlocksFinite, FS_Subset
  <1>3. CASE Allocate(u, b)
    <2>1. peak'[t] = peak[t] \/ (u = t /\ peak'[t] = used[t] + 1 /\ used'[t] = used[t] + 1)
      BY <1>1, <1>3 DEF Allocate
    <2> QED BY <1>1, <1>2, <2>1
  <1>4. CASE Release(u, b) \/ UNCHANGED peak
    BY <1>1, <1>4 DEF Release
  <1> QED BY <1>3, <1>4

\* A block joins a relocation whose reads go on.
LEMMA JoinKeeps ==
  ASSUME IInv, NEW b \in Block, ReadSource(b)
  PROVE  IInv' /\ \A c \in Block, t \in Tier : On(c, t)' <=> On(c, t)
  <1>1. PoolOK /\ RelocationOK
    BY DEF IInv
  <1>2. /\ UNCHANGED <<next, recycled, used, peak, address>> /\ moving' = moving \cup {b}
        /\ On(b, "SLC")
    BY DEF ReadSource
  <1>3. PoolOK' /\ \A c \in Block, t \in Tier : On(c, t)' <=> On(c, t)
    BY <1>1, <1>2, PoolUnchanged
  <1>4. RelocationOK'
    <2>1. \A c \in moving' : On(c, "SLC")'
      BY <1>1, <1>2, <1>3 DEF RelocationOK, Tier
    <2>2. OneCopy'
      BY <1>1, <1>2, <1>3 DEF RelocationOK, OneCopy, Tier
    <2> QED BY <1>1, <1>2, <2>1, <2>2 DEF RelocationOK
  <1> QED BY <1>3, <1>4 DEF IInv

\* The steps that emit events.
LEMMA EventKeeps ==
  ASSUME TraceInv, NEW b \in Block, NEW t \in Tier, NEW s \in Stream,
         \/ WriteBlock(b, t, s) \/ TrimBlock(b, t) \/ ReadBlock(b, t)
         \/ ReadSource(b) \/ WriteDestination(b, s) \/ TrimSource(b)
  PROVE  TraceInv'
  <1>1. /\ IInv /\ PlacesOK /\ TraceLog /\ PoolType /\ RelocationOK /\ Events \in Nat
        /\ "SLC" \in Tier /\ "TLC" \in Tier
        /\ \A c \in Block : waitsFor[c] \in 0 .. Events
    BY DEF TraceInv, IInv, PoolOK, TraceLog, LogOK, PlacesOK, Tier
  <1>2. /\ flow \in [Tier -> [Block -> Stream \cup {NoFlow}]]
        /\ \A x \in Tier, c \in Block : On(c, x) => flow[x][c] \in Stream
        /\ waitsFor \in [Block -> Nat]
        /\ \A c \in Block : waitsFor[c] <= Events
    BY <1>1 DEF PlacesOK
  <1>3. \A x \in Tier : NewAddress(x) \in 0 .. Cardinality(Block)
    BY <1>1, AddressPlaced
  <1>4. \A c \in Block, x \in Tier : On(c, x) => address[x][c] \in 0 .. Cardinality(Block)
    BY <1>1, AddressPlaced
  \* What each of them leaves to show.
  <1>5. ASSUME IInv', TraceLog', Events' = Events + 1,
               \A x \in Tier : peak'[x] <= Cardinality(Block),
               flow' \in [Tier -> [Block -> Stream \cup {NoFlow}]],
               \A x \in Tier, c \in Block : On(c, x)' => flow'[x][c] \in Stream,
               \/ waitsFor' = waitsFor
               \/ waitsFor' = [waitsFor EXCEPT ![b] = Events + 1]
               \/ waitsFor' = [waitsFor EXCEPT ![b] = NoEvent]
        PROVE  TraceInv'
    <2>1. waitsFor' \in [Block -> Nat] /\ \A c \in Block : waitsFor'[c] <= Events'
      <3> DEFINE e == Events
      <3>1. e \in Nat /\ e + 1 \in Nat /\ NoEvent \in Nat /\ NoEvent <= e + 1 /\ Events' = e + 1
        BY <1>1, <1>5 DEF NoEvent
      <3>2. /\ waitsFor \in [Block -> Nat] /\ \A c \in Block : waitsFor[c] <= e + 1
            /\ \/ waitsFor' = waitsFor
               \/ waitsFor' = [waitsFor EXCEPT ![b] = e + 1]
               \/ waitsFor' = [waitsFor EXCEPT ![b] = NoEvent]
        BY <1>1, <1>2, <1>5
      <3> HIDE DEF e
      <3>3. waitsFor' \in [Block -> Nat] /\ \A c \in Block : waitsFor'[c] <= e + 1
        BY <3>1, <3>2
      <3> QED BY <3>1, <3>3
    <2> QED BY <1>5, <2>1 DEF TraceInv, PlacesOK
  <1>6. CASE WriteBlock(b, t, s)
    <2>1. /\ Write(b, t) /\ Allocate(t, b) /\ UNCHANGED waitsFor
          /\ flow' = [flow EXCEPT ![t][b] = s]
          /\ Emit("WRITE", t, s, NewAddress(t), NoEvent)
      BY <1>6 DEF WriteBlock, Write
    <2>2. IInv'
      BY <1>1, <2>1, NextIInv DEF Next
    <2>3. TraceLog' /\ Events' = Events + 1
      BY <1>1, <1>3, <2>1, EmitKeeps DEF NoEvent
    <2>4. \A c \in Block, x \in Tier : On(c, x)' <=> On(c, x) \/ (c = b /\ x = t)
      BY <1>1, <2>1, OnAfter
    <2>5. \A x \in Tier : peak'[x] <= Cardinality(Block)
      BY <1>1, <2>1, <2>2, PeakPlaced
    <2>6. /\ flow' \in [Tier -> [Block -> Stream \cup {NoFlow}]]
          /\ \A x \in Tier, c \in Block :
                flow'[x][c] = IF x = t /\ c = b THEN s ELSE flow[x][c]
      BY <1>2, <2>1
    <2>7. \A x \in Tier, c \in Block : On(c, x)' => flow'[x][c] \in Stream
      BY <1>2, <2>4, <2>6
    <2> QED BY <1>5, <2>1, <2>2, <2>3, <2>5, <2>6, <2>7
  <1>7. CASE WriteDestination(b, s)
    <2>1. /\ AllocateDestination(b) /\ Allocate("TLC", b)
          /\ waitsFor' = [waitsFor EXCEPT ![b] = Events + 1]
          /\ flow' = [flow EXCEPT !["TLC"][b] = s]
          /\ Emit("WRITE", "TLC", s, NewAddress("TLC"), waitsFor[b])
      BY <1>7 DEF WriteDestination, AllocateDestination
    <2>2. IInv'
      BY <1>1, <2>1, NextIInv DEF Next
    <2>3. TraceLog' /\ Events' = Events + 1
      BY <1>1, <1>3, <2>1, EmitKeeps
    <2>4. \A c \in Block, x \in Tier : On(c, x)' <=> On(c, x) \/ (c = b /\ x = "TLC")
      BY <1>1, <2>1, OnAfter
    <2>5. \A x \in Tier : peak'[x] <= Cardinality(Block)
      BY <1>1, <2>1, <2>2, PeakPlaced
    <2>6. /\ flow' \in [Tier -> [Block -> Stream \cup {NoFlow}]]
          /\ \A x \in Tier, c \in Block :
                flow'[x][c] = IF x = "TLC" /\ c = b THEN s ELSE flow[x][c]
      BY <1>1, <1>2, <2>1
    <2>7. \A x \in Tier, c \in Block : On(c, x)' => flow'[x][c] \in Stream
      BY <1>2, <2>4, <2>6
    <2> QED BY <1>5, <2>1, <2>2, <2>3, <2>5, <2>6, <2>7
  <1>8. CASE TrimBlock(b, t)
    <2>1. /\ Trim(b, t) /\ Release(t, b) /\ On(b, t) /\ UNCHANGED <<flow, waitsFor>>
          /\ Emit("TRIM", t, flow[t][b], address[t][b], NoEvent)
      BY <1>8 DEF TrimBlock, Trim
    <2>2. IInv'
      BY <1>1, <2>1, NextIInv DEF Next
    <2>3. TraceLog' /\ Events' = Events + 1
      BY <1>1, <1>2, <1>4, <2>1, EmitKeeps DEF NoEvent
    <2>4. \A c \in Block, x \in Tier : On(c, x)' => On(c, x)
      BY <1>1, <2>1, OnAfter
    <2>5. \A x \in Tier : peak'[x] <= Cardinality(Block)
      BY <1>1, <2>1, <2>2, PeakPlaced
    <2> QED BY <1>2, <1>5, <2>1, <2>2, <2>3, <2>4, <2>5
  <1>9. CASE TrimSource(b)
    <2>1. /\ ReleaseSource(b) /\ Release("SLC", b) /\ UNCHANGED flow
          /\ waitsFor' = [waitsFor EXCEPT ![b] = NoEvent]
          /\ Emit("TRIM", "SLC", flow["SLC"][b], address["SLC"][b], waitsFor[b])
      BY <1>9 DEF TrimSource, ReleaseSource
    <2>2. IInv' /\ On(b, "SLC")
      BY <1>1, <2>1, NextIInv DEF Next, ReleaseSource, RelocationOK
    <2>3. TraceLog' /\ Events' = Events + 1
      BY <1>1, <1>2, <1>4, <2>1, <2>2, EmitKeeps
    <2>4. \A c \in Block, x \in Tier : On(c, x)' => On(c, x)
      BY <1>1, <2>1, OnAfter
    <2>5. \A x \in Tier : peak'[x] <= Cardinality(Block)
      BY <1>1, <2>1, <2>2, PeakPlaced
    <2> QED BY <1>2, <1>5, <2>1, <2>2, <2>3, <2>4, <2>5
  <1>10. CASE ReadBlock(b, t)
    <2>1. /\ UNCHANGED vars /\ On(b, t) /\ UNCHANGED <<flow, waitsFor>>
          /\ Emit("READ", t, flow[t][b], address[t][b], NoEvent)
      BY <1>10 DEF ReadBlock
    <2>2. IInv'
      BY <1>1, <2>1, NextIInv
    <2>3. TraceLog' /\ Events' = Events + 1
      BY <1>1, <1>2, <1>4, <2>1, EmitKeeps DEF NoEvent
    <2>4. UNCHANGED <<address, peak>>
      BY <2>1 DEF vars
    <2>5. \A x \in Tier : peak'[x] <= Cardinality(Block)
      BY <1>1, <2>4 DEF PlacesOK
    <2> QED BY <1>2, <1>5, <2>1, <2>2, <2>3, <2>4, <2>5 DEF On
  <1>11. CASE ReadSource(b)
    <2>1. /\ On(b, "SLC") /\ UNCHANGED <<address, peak, flow>>
          /\ waitsFor' = [waitsFor EXCEPT ![b] = Events + 1]
          /\ Emit("READ", "SLC", flow["SLC"][b], address["SLC"][b], NoEvent)
      BY <1>11 DEF ReadSource
    <2>2. IInv'
      BY <1>1, <1>11, JoinKeeps
    <2>3. TraceLog' /\ Events' = Events + 1
      BY <1>1, <1>2, <1>4, <2>1, EmitKeeps DEF NoEvent
    <2>5. \A x \in Tier : peak'[x] <= Cardinality(Block)
      BY <1>1, <2>1 DEF PlacesOK
    <2> QED BY <1>2, <1>5, <2>1, <2>2, <2>3, <2>5 DEF On
  <1> QED BY <1>6, <1>7, <1>8, <1>9, <1>10, <1>11

\* Every step keeps the invariant.
LEMMA TraceStep == TraceInv /\ [TraceNext]_traceVars => TraceInv'
  <1> SUFFICES ASSUME TraceInv, [TraceNext]_traceVars PROVE TraceInv'
    OBVIOUS
  <1>1. CASE \E b \in Block, t \in Tier :
               TrimBlock(b, t) \/ ReadBlock(b, t) \/ \E s \in Stream : WriteBlock(b, t, s)
    <2>1. PICK s \in Stream : TRUE
      BY CommandTraceAssumption
    <2> QED BY <1>1, <2>1, EventKeeps
  <1>2. CASE \E b \in Block :
               ReadSource(b) \/ TrimSource(b) \/ \E s \in Stream : WriteDestination(b, s)
    <2>1. PICK s \in Stream : TRUE
      BY CommandTraceAssumption
    <2>2. PICK t \in Tier : TRUE
      BY DEF Tier
    <2> QED BY <1>2, <2>1, <2>2, EventKeeps
  <1>3. ASSUME UNCHANGED <<vars, flow, waitsFor, commands>> PROVE IInv' /\ PlacesOK'
    <2>1. IInv'
      BY <1>3, NextIInv DEF TraceInv
    <2> QED BY <1>3, <2>1 DEF TraceInv, PlacesOK, On, Events, vars
  <1>4. CASE StartDevice
    <2>1. /\ UNCHANGED <<vars, flow, waitsFor, commands, tracker, done, content>>
          /\ device = "off" /\ device' = "on"
      BY <1>4 DEF StartDevice
    <2>2. TraceLog'
      BY <2>1 DEF TraceInv, TraceLog, LogOK, TrackerOK, DoneOK, CopySurvives, Ordered, Chained,
                  Events, Ends, Mutates, Conflict, SamePlace, SameEvent
    <2> QED BY <1>3, <2>1, <2>2 DEF TraceInv
  <1>5. CASE \E c \in DOMAIN commands : Execute(c)
    <2>1. PICK c \in DOMAIN commands : Execute(c)
      BY <1>5
    <2>2. TraceLog'
      BY <2>1, ExecuteKeeps DEF TraceInv
    <2>3. UNCHANGED <<vars, flow, waitsFor, commands>>
      BY <2>1 DEF Execute
    <2> QED BY <1>3, <2>2, <2>3 DEF TraceInv
  <1>6. CASE UNCHANGED traceVars
    <2>1. UNCHANGED <<vars, flow, waitsFor, commands, tracker, device, done, content>>
      BY <1>6 DEF traceVars
    <2>2. TraceLog'
      BY <2>1 DEF TraceInv, TraceLog, LogOK, TrackerOK, DoneOK, CopySurvives, Ordered, Chained,
                  Events, Ends, Mutates, Conflict, SamePlace, SameEvent
    <2> QED BY <1>3, <2>1, <2>2 DEF TraceInv
  <1> QED BY <1>1, <1>2, <1>4, <1>5, <1>6 DEF TraceNext, AllExecuted

\* Nothing was emitted yet.
LEMMA TraceInitInv == TraceInit => TraceInv
  <1> SUFFICES ASSUME TraceInit PROVE TraceInv
    OBVIOUS
  <1>1. /\ Init /\ commands = <<>> /\ device = "off" /\ done = {} /\ DOMAIN commands = {}
        /\ flow = [t \in Tier |-> [b \in Block |-> NoFlow]]
        /\ waitsFor = [b \in Block |-> NoEvent]
        /\ tracker = [l \in Location |-> [last |-> NoCommand, readers |-> {}]]
        /\ content = [l \in Location |-> NoCommand]
    BY DEF TraceInit
  <1>2. IInv
    BY <1>1, InitIInv
  <1>3. Events = 0 /\ commands \in Seq(Command)
    BY <1>1 DEF Events
  <1>4. PlacesOK
    <2>1. Cardinality(Block) \in Nat /\ \A t \in Tier : peak[t] = 0
      BY <1>1, BlocksFinite DEF Init
    <2>2. \A b \in Block, t \in Tier : ~On(b, t)
      BY <1>1 DEF Init, On
    <2> QED BY <1>1, <1>3, <2>1, <2>2 DEF PlacesOK, NoEvent
  <1>5. LogOK /\ TrackerOK
    BY <1>1, <1>3 DEF LogOK, TrackerOK, NoCommand
  <1>6. DoneOK /\ CopySurvives
    BY <1>1 DEF DoneOK, CopySurvives, NoCommand
  <1> QED BY <1>1, <1>2, <1>4, <1>5, <1>6 DEF TraceInv, TraceLog

\* Hence the invariant holds in every reachable state.
LEMMA TraceInvariance == TraceSpec => []TraceInv
  BY TraceInitInv, TraceStep, PTL DEF TraceSpec

\* In whatever order the device runs the commands, each finds at its place what
\* the simulator had put there last, for every number of blocks, streams and
\* commands per block, however often addresses were reused.
THEOREM DeviceFollowsTheTrace == TraceSpec => []DeviceSequential
  <1>1. TraceInv => DeviceSequential
    BY ContentExpected DEF TraceInv, DeviceSequential
  <1> QED BY <1>1, TraceInvariance, PTL

\* A block that moves is read before any of it is written and written before any
\* of it is trimmed, so it is on the device as a whole all the time.
THEOREM MovesKeepACopy == TraceSpec => []CopySurvives
  <1>1. TraceInv => CopySurvives
    BY DEF TraceInv, TraceLog
  <1> QED BY <1>1, TraceInvariance, PTL
=============================================================================
