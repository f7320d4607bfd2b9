---------------------------- MODULE StoragePool ----------------------------
(* The block addresses of the two SSD tiers: StorageTierState (storage.cpp)  *)
(* and the three ways the simulator uses it, a dump, a trim and a relocation *)
(* that holds a source and a destination address of every block it moves.    *)
(* A dump has asked for the capacity of the blocks it writes.  A relocation  *)
(* may be told that its caller has asked, and the caller may have asked for  *)
(* fewer blocks: here it takes its addresses however full TLC is.            *)
EXTENDS Integers, FiniteSets, Sequences

CONSTANTS
    Block,      \* the blocks (tree nodes) that may be written
    Capacity    \* capacity_blocks_ of each tier

Tier == {"SLC", "TLC"}
NoAddress == -1

ASSUME StoragePoolAssumption ==
    IsFiniteSet(Block) /\ Capacity \in [Tier -> Nat]

VARIABLES
    next,      \* next_address_
    recycled,  \* recycled_addresses_, a stack
    used,      \* used_blocks_
    peak,      \* peak_used_blocks_
    address,   \* address[t][b]: where b is on tier t, or NoAddress
    moving     \* blocks of the relocation in progress

vars == <<next, recycled, used, peak, address, moving>>

-----------------------------------------------------------------------------

On(b, t) == address[t][b] # NoAddress

\* The address allocate() returns.
NewAddress(t) == IF recycled[t] = <<>> THEN next[t] ELSE recycled[t][Len(recycled[t])]

\* Mutant of Popped: the recycled address is not taken from the stack.
PoppedNothing(t) == recycled[t]

Popped(t) == IF recycled[t] = <<>> THEN <<>> ELSE SubSeq(recycled[t], 1, Len(recycled[t]) - 1)

\* Mutant of Advanced: the address counter moves on every allocation.
AdvancedAlways(t) == next[t] + 1

Advanced(t) == IF recycled[t] = <<>> THEN next[t] + 1 ELSE next[t]

Allocate(t, b) ==
    /\ next' = [next EXCEPT ![t] = Advanced(t)]
    /\ recycled' = [recycled EXCEPT ![t] = Popped(t)]
    /\ used' = [used EXCEPT ![t] = @ + 1]
    /\ peak' = [peak EXCEPT ![t] = IF @ < used[t] + 1 THEN used[t] + 1 ELSE @]
    /\ address' = [address EXCEPT ![t][b] = NewAddress(t)]

Release(t, b) ==
    /\ recycled' = [recycled EXCEPT ![t] = Append(@, address[t][b])]
    /\ used' = [used EXCEPT ![t] = @ - 1]
    /\ address' = [address EXCEPT ![t][b] = NoAddress]
    /\ UNCHANGED <<next, peak>>

Init ==
    /\ next = [t \in Tier |-> 0]
    /\ recycled = [t \in Tier |-> <<>>]
    /\ used = [t \in Tier |-> 0]
    /\ peak = [t \in Tier |-> 0]
    /\ address = [t \in Tier |-> [b \in Block |-> NoAddress]]
    /\ moving = {}

\* One block of dump_segment(), whose capacity ensure_capacity() has granted.
Write(b, t) ==
    /\ moving = {}
    /\ \A x \in Tier : ~On(b, x)
    /\ used[t] < Capacity[t]
    /\ Allocate(t, b)
    /\ UNCHANGED moving

\* One block of execute_trim().
Trim(b, t) ==
    /\ moving = {}
    /\ On(b, t)
    /\ Release(t, b)
    /\ UNCHANGED moving

\* execute_relocation() when its capacity is taken for granted: every destination
\* is allocated, whatever the tier holds, before any source is released.
StartRelocation(blocks) ==
    /\ moving = {} /\ blocks # {}
    /\ \A b \in blocks : On(b, "SLC")
    /\ moving' = blocks
    /\ UNCHANGED <<next, recycled, used, peak, address>>

AllocateDestination(b) ==
    /\ b \in moving /\ ~On(b, "TLC")
    /\ Allocate("TLC", b)
    /\ UNCHANGED moving

\* Mutant of ReleaseSource: the relocation ends with the first address.
ReleaseFirstSource(b) ==
    /\ b \in moving
    /\ \A c \in moving : On(c, "TLC")
    /\ Release("SLC", b)
    /\ moving' = {}

ReleaseSource(b) ==
    /\ b \in moving
    /\ \A c \in moving : On(c, "TLC")
    /\ Release("SLC", b)
    /\ moving' = moving \ {b}

Next ==
    \/ \E b \in Block :
          \/ \E t \in Tier : Write(b, t) \/ Trim(b, t)
          \/ AllocateDestination(b) \/ ReleaseSource(b)
    \/ \E blocks \in SUBSET Block : StartRelocation(blocks)

Spec == Init /\ [][Next]_vars

-----------------------------------------------------------------------------
(* Properties.                                                             *)

TypeOK ==
    /\ next \in [Tier -> Nat]
    /\ recycled \in [Tier -> Seq(Nat)]
    /\ used \in [Tier -> Nat] /\ peak \in [Tier -> Nat]
    /\ address \in [Tier -> [Block -> Nat \cup {NoAddress}]]
    /\ moving \subseteq Block

\* No address is held twice: not by two blocks, and not by a block while it is
\* on the stack of addresses to reuse or twice on that stack.
AddressesDistinct ==
    \A t \in Tier :
        /\ \A b, c \in Block : On(b, t) /\ On(c, t) /\ address[t][b] = address[t][c] => b = c
        /\ \A b \in Block, i \in DOMAIN recycled[t] : address[t][b] # recycled[t][i]
        /\ \A i, j \in DOMAIN recycled[t] : recycled[t][i] = recycled[t][j] => i = j

\* The addresses ever handed out are as many as the peak occupancy, and each
\* is held or waiting for reuse.  So the trace names an address beyond the tier,
\* which mqsim.py refuses, only if more blocks than its capacity were held at
\* once.
AddressesDense ==
    \A t \in Tier :
        /\ next[t] = peak[t]
        /\ next[t] = used[t] + Len(recycled[t])
        /\ used[t] = Cardinality({b \in Block : On(b, t)})
        /\ \A b \in Block : On(b, t) => address[t][b] < next[t]

\* A block is on one tier, or on both while its relocation is under way.
OneCopy == \A b \in Block : On(b, "SLC") /\ On(b, "TLC") => b \in moving

=============================================================================
