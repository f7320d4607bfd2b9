----------------------------- MODULE ShadowPool -----------------------------
(* The pool of a page-mapped flash translation layer, ShadowFtl::Pool, fed   *)
(* with the writes and trims of the trace.  A write may collect garbage      *)
(* before it finds a place, and a collection appends to the very blocks      *)
(* writes append to; the steps are those between two calls of append(),      *)
(* allocate() and collect().  Ages and erase counts only break ties, so the  *)
(* ties are left open.                                                       *)
EXTENDS Integers, FiniteSets

CONSTANTS
    Block,          \* blocks_
    Key,            \* <<stream, logical page>>: the streams each page may be given to
    PagesPerBlock,  \* pages_per_block_
    ActiveLimit,    \* active_limit_
    Nominals        \* how many logical pages may be in use at a time

Stream == {k[1] : k \in Key}
Page == {k[2] : k \in Key}
None == "None"
NoKey == <<>>

\* blocks_ has a frontier for each stream and two blocks more, and active_limit_
\* is below its size (constructor).
ASSUME ShadowPoolAssumption ==
    /\ IsFiniteSet(Block) /\ IsFiniteSet(Key)
    /\ \A k \in Key : k = <<k[1], k[2]>>
    /\ None \notin Block
    /\ PagesPerBlock \in Nat \ {0}
    /\ Cardinality(Block) >= Cardinality(Stream) + 2
    /\ ActiveLimit \in 1 .. Cardinality(Block) - 1
    /\ Nominals \subseteq 0 .. Cardinality(Page)

VARIABLES
    nominal,  \* pages the tier may have in use
    mapping,  \* mapping_: block of each key, or None
    filled,   \* slots.size() of each block
    valid,    \* keys of the valid slots of each block
    free,     \* free_
    active,   \* active_
    open,     \* open_: the block each stream appends to, or None
    target,   \* the key a write is about to place
    victim,   \* the block being collected
    left,     \* its keys still to be copied
    pc

vars == <<nominal, mapping, filled, valid, free, active, open, target,
          victim, left, pc>>

Init ==
    /\ nominal \in Nominals
    /\ mapping = [k \in Key |-> None]
    /\ filled = [b \in Block |-> 0] /\ valid = [b \in Block |-> {}]
    /\ free = Block /\ active = 0
    /\ open = [s \in Stream |-> None]
    /\ target = NoKey /\ victim = None /\ left = {}
    /\ pc = "idle"

-----------------------------------------------------------------------------

InUse == {k \in Key : mapping[k] # None}

\* A block address is trimmed by the stream that wrote it.
Trim(k) ==
    /\ pc = "idle" /\ mapping[k] # None
    /\ valid' = [valid EXCEPT ![mapping[k]] = @ \ {k}]
    /\ mapping' = [mapping EXCEPT ![k] = None]
    /\ UNCHANGED <<nominal, filled, free, active, open, target, victim, left, pc>>

\* An address is written again only after it was trimmed, so the trim() at the
\* head of write() has nothing to do.
Write(k) ==
    /\ pc = "idle" /\ Cardinality(InUse) < nominal
    /\ \A other \in InUse : other[2] # k[2]
    /\ target' = k /\ pc' = "place"
    /\ UNCHANGED <<nominal, mapping, filled, valid, free, active, open, victim, left>>

\* append(): the key goes to the block its stream has open; a full one closes.
Append(k) ==
    LET b == open[k[1]]
    IN  /\ filled' = [filled EXCEPT ![b] = @ + 1]
        /\ valid' = [valid EXCEPT ![b] = @ \cup {k}]
        /\ open' = IF filled[b] + 1 = PagesPerBlock THEN [open EXCEPT ![k[1]] = None] ELSE open

Place ==
    /\ pc = "place" /\ open[target[1]] # None
    /\ Append(target)
    /\ mapping' = [mapping EXCEPT ![target] = open[target[1]]]
    /\ target' = NoKey /\ pc' = "idle"
    /\ UNCHANGED <<nominal, free, active, victim, left>>

\* The head of collect(): a full block with the fewest valid pages, though not
\* one that is wholly valid.
Full(b) == b \notin free /\ filled[b] = PagesPerBlock

\* Mutant of Candidates: wholly valid blocks are candidates too.
CandidatesAll == {b \in Block : Full(b)}

Candidates == {b \in Block : Full(b) /\ Cardinality(valid[b]) < PagesPerBlock}

Victims ==
    {b \in Candidates : \A c \in Candidates : Cardinality(valid[b]) <= Cardinality(valid[c])}

\* Without a free block the valid pages must fit the open block of the stream.
Room(s) == IF open[s] = None THEN 0 ELSE PagesPerBlock - filled[open[s]]

\* Mutant of Refused: a collection starts whatever room there is.
RefusedNever(b) == FALSE

Refused(b) == free = {} /\ valid[b] # {} /\ \A k \in valid[b] : Room(k[1]) < Cardinality(valid[b])

\* Mutant of AtLimit: the limit is reached one block late.
AtLimitLate == active > ActiveLimit

AtLimit == active >= ActiveLimit

\* The loop of allocate(), and the call after it, which is the same thing: with
\* no free block every block is active.
Collect(b) ==
    /\ pc = "place" /\ open[target[1]] = None
    /\ AtLimit \/ free = {}
    /\ b \in Victims /\ ~Refused(b)
    /\ victim' = b /\ left' = valid[b] /\ pc' = "copy"
    /\ UNCHANGED <<nominal, mapping, filled, valid, free, active, open, target>>

\* The rest of allocate(): a free block becomes the open block of stream s.
Opened(s, b) ==
    /\ b \in free
    /\ free' = free \ {b} /\ active' = active + 1
    /\ filled' = [filled EXCEPT ![b] = 0] /\ valid' = [valid EXCEPT ![b] = {}]
    /\ open' = [open EXCEPT ![s] = b]
    /\ UNCHANGED <<nominal, mapping, target, victim, left, pc>>

NoVictim == Victims = {} \/ \E b \in Victims : Refused(b)

\* Mutant of OpenForWrite: a block that a collection opened is not looked at.
OpenForWriteAgain(b) ==
    /\ pc = "place"
    /\ ~AtLimit \/ NoVictim
    /\ Opened(target[1], b)

OpenForWrite(b) ==
    /\ pc = "place" /\ open[target[1]] = None
    /\ ~AtLimit \/ NoVictim
    /\ Opened(target[1], b)

\* A collection opens a block without asking for another one.
OpenForCopy(b) ==
    /\ pc = "copy" /\ \E k \in left : open[k[1]] = None /\ Opened(k[1], b)

\* Mutant of Copy: the mapping still points to the victim.
CopyUnmapped(k) ==
    /\ pc = "copy" /\ k \in left /\ open[k[1]] # None
    /\ Append(k)
    /\ left' = left \ {k}
    /\ UNCHANGED <<nominal, mapping, free, active, target, victim, pc>>

Copy(k) ==
    /\ pc = "copy" /\ k \in left /\ open[k[1]] # None
    /\ Append(k)
    /\ mapping' = [mapping EXCEPT ![k] = open[k[1]]]
    /\ left' = left \ {k}
    /\ UNCHANGED <<nominal, free, active, target, victim, pc>>

Erase ==
    /\ pc = "copy" /\ left = {}
    /\ filled' = [filled EXCEPT ![victim] = 0] /\ valid' = [valid EXCEPT ![victim] = {}]
    /\ free' = free \cup {victim} /\ active' = active - 1
    /\ victim' = None /\ pc' = "place"
    /\ UNCHANGED <<nominal, mapping, open, target, left>>

\* allocate() throws, for a write or, were it possible, within a collection.
Appending == IF pc = "place" THEN {target} ELSE left

Exhaust ==
    /\ pc \in {"place", "copy"} /\ free = {}
    /\ \E k \in Appending : open[k[1]] = None
    /\ pc = "place" => NoVictim
    /\ pc' = "exhausted"
    /\ UNCHANGED <<nominal, mapping, filled, valid, free, active, open, target,
                   victim, left>>

-----------------------------------------------------------------------------

Step ==
    \/ Place \/ Erase \/ Exhaust
    \/ \E b \in Block : Collect(b) \/ OpenForWrite(b) \/ OpenForCopy(b)
    \/ \E k \in Key : Copy(k)

Next ==
    \/ \E k \in Key : Trim(k) \/ Write(k)
    \/ Step
    \/ pc = "exhausted" /\ UNCHANGED vars

\* consume() is a call: once made it goes on.
Spec == Init /\ [][Next]_vars /\ WF_vars(Step)

-----------------------------------------------------------------------------
(* Properties.                                                              *)

TypeOK ==
    /\ nominal \in Nominals
    /\ mapping \in [Key -> Block \cup {None}]
    /\ filled \in [Block -> 0 .. PagesPerBlock] /\ valid \in [Block -> SUBSET Key]
    /\ free \subseteq Block /\ active = Cardinality(Block \ free)
    /\ open \in [Stream -> Block \cup {None}]
    /\ target \in Key \cup {NoKey}
    /\ victim \in Block \cup {None} /\ left \subseteq Key
    /\ pc \in {"idle", "place", "copy", "exhausted"}

\* No page is lost or found twice: the valid slots of a block are the keys that
\* are mapped to it, and of a block being collected those still to be copied.
\* A stale copy would be copied again, or bring a trimmed page back.
MappingExact ==
    \A b \in Block :
        {k \in Key : mapping[k] = b} = IF b = victim THEN left ELSE valid[b]

\* A block that is neither free nor full is the one its stream has open.  Any
\* other would never fill up, so never be collected, and be lost to the pool.
\* No block mixes streams.
NoBlockStranded ==
    \A b \in Block :
        /\ b \notin free /\ filled[b] < PagesPerBlock <=> \E s \in Stream : open[s] = b
        /\ \A j, k \in valid[b] : j[1] = k[1]

\* A collection that was begun has room for every page it must move: allocate()
\* throws for a write, before anything was moved, never half-way.
CollectionFits ==
    pc = "copy" =>
        \A s \in Stream :
            Cardinality({k \in left : k[1] = s}) <= Room(s) + PagesPerBlock * Cardinality(free)

\* A pool with room enough: when active_limit_ blocks, less an open block of
\* each other stream, hold the pages in use, writes never find it exhausted.
ReserveSuffices ==
    nominal <= (ActiveLimit - Cardinality(Stream) + 1) * PagesPerBlock => pc # "exhausted"

\* A write ends, whatever it has to collect.
WritesEnd == pc \in {"place", "copy"} ~> pc \in {"idle", "exhausted"}
=============================================================================
