------------------------- MODULE WorkerRoundProofs -------------------------
(* Proofs about WorkerRound, for every number of workers and groups.        *)
EXTENDS WorkerRound, FiniteSetTheorems, WellFoundedInduction, TLAPS

-----------------------------------------------------------------------------
(* Arithmetic of shares and selections, and the least key of a set.         *)

\* A set of natural numbers has a least element: of the intervals 0 .. x, one
\* contains no other.
LEMMA Smallest ==
  ASSUME NEW T \in SUBSET Nat, T # {}
  PROVE  \E x \in T : \A y \in T : x <= y
  <1> DEFINE R == StrictSubsetOrdering(Nat)
             S == FiniteSubsetsOf(Nat)
             U == {0 .. x : x \in T}
  <1>1. IsWellFoundedOn(R, S)
    BY FS_StrictSubsetOrderingWellFounded
  <1>2. U \subseteq S
    <2>1. ASSUME NEW x \in T PROVE 0 .. x \subseteq Nat /\ IsFiniteSet(0 .. x)
      BY FS_Interval
    <2> QED BY <2>1 DEF FiniteSubsetsOf
  <1>3. U # {}
    OBVIOUS
  <1>4. \E a \in U : \A b \in U : ~(<<b, a>> \in R)
    <2> HIDE DEF R, S, U
    <2> QED BY <1>1, <1>2, <1>3, WFMin, Zenon
  <1>5. PICK x \in T : \A y \in T : ~(<<0 .. y, 0 .. x>> \in R)
    BY <1>4
  <1>6. ASSUME NEW y \in T, y < x PROVE FALSE
    <2>1. 0 .. y \subseteq 0 .. x /\ x \in 0 .. x /\ x \notin 0 .. y
      BY <1>6
    <2>2. <<0 .. y, 0 .. x>> \in R
      BY <2>1 DEF StrictSubsetOrdering
    <2> QED BY <1>5, <2>2
  <1> QED BY <1>6

\* What Least() returns of a set of keys, with or without NoKey among them.
LEMMA LeastSpec ==
  ASSUME NEW K \in SUBSET Nat
  PROVE  /\ Least(K) \in Nat
         /\ K \ {NoKey} = {} => Least(K) = NoKey
         /\ K \ {NoKey} # {} =>
               Least(K) \in K \ {NoKey} /\ \A o \in K \ {NoKey} : Least(K) <= o
  <1>1. CASE K \ {NoKey} = {}
    BY <1>1 DEF Least, NoKey
  <1>2. CASE K \ {NoKey} # {}
    <2>1. \E x \in K \ {NoKey} : \A o \in K \ {NoKey} : x <= o
      BY <1>2, Smallest
    <2>2. Least(K) = CHOOSE k \in K \ {NoKey} : \A o \in K \ {NoKey} : k <= o
      BY <1>2 DEF Least
    <2>3. Least(K) \in K \ {NoKey} /\ \A o \in K \ {NoKey} : Least(K) <= o
      BY <2>1, <2>2
    <2> QED BY <1>2, <2>3
  <1> QED BY <1>1, <1>2

\* Remainders are in range, and one turn around a ring of n changes nothing.
LEMMA Remainder ==
  ASSUME NEW n \in Nat \ {0}, NEW i \in Nat
  PROVE  /\ i % n \in 0 .. n - 1
         /\ i < n => i % n = i /\ (i + n) % n = i
  OBVIOUS

\* The threads and the groups are counted from zero.
LEMMA Sizes ==
  /\ Workers \in Nat \ {0} /\ Groups \in Nat \ {0}
  /\ FirstGroups \in 1 .. Groups
  /\ IsFiniteSet(Worker) /\ Cardinality(Worker) = Workers
  /\ Caller \notin Worker
  <1>1. Workers \in Nat \ {0} /\ Groups \in Nat \ {0} /\ FirstGroups \in 1 .. Groups
    BY WorkerRoundAssumption DEF FirstGroups
  <1>2. IsFiniteSet(Worker) /\ Cardinality(Worker) = Workers
    BY <1>1, FS_Interval DEF Worker
  <1> QED BY <1>1, <1>2 DEF Caller, Worker

\* A selection is a sequence of groups.
LEMMA SelectionType ==
  ASSUME NEW s \in Group, NEW i \in Nat \ {0}, NEW j \in Nat, i <= j + 1
  PROVE  Selection(s, i, j) \in Seq(Group)
  <1>1. ASSUME NEW k \in 1 .. j - i + 1 PROVE (s + i + k - 2) % Groups \in Group
    <2>1. s + i + k - 2 \in Nat /\ Groups \in Nat \ {0}
      BY Sizes DEF Group
    <2> QED BY <2>1, Remainder DEF Group
  <1>2. j - i + 1 \in Nat
    OBVIOUS
  <1> QED BY <1>1, <1>2 DEF Selection

-----------------------------------------------------------------------------
(* The inductive invariant.                                                 *)

\* The keys in the share of worker w, and the workers of this round that have
\* not reported.
ShareKeys(w) == {best[selected[i]] : i \in Share(w)}
Unfinished == {w \in Worker : seen[w] # epoch \/ worker[w] \in {"search", "report"}}

\* pending_ counts the unfinished workers, and between rounds there are none.
Counted ==
    /\ caller = "await" => pending = Cardinality(Unfinished)
    /\ caller # "await" => pending = 0 /\ Unfinished = {}

\* A worker at work has noted the round.
SeenWhenBusy == \A w \in Worker : worker[w] \in {"search", "report"} => seen[w] = epoch

\* Which workers there are while the simulator's thread is where it is.
Placed ==
    /\ caller = "spawn" => decisions = 0 /\ \A w \in Worker : worker[w] \in {"off", "wait"}
    /\ caller \in {"idle", "publish"} => \A w \in Worker : worker[w] = "wait"
    /\ caller = "await" => \A w \in Worker : worker[w] \in {"wait", "search", "report"}
    /\ stopping <=> caller \in {"join", "gone"}

\* The round under way looks at the sample, or at the rest after an empty one.
RoundOf ==
    caller \in {"publish", "await"} =>
        \/ selected = Selection(start, 1, FirstGroups)
        \/ /\ selected = Selection(start, FirstGroups + 1, Groups)
           /\ FirstGroups < Groups /\ Keys(Sample) = {}

\* What was found in this round is the least key of the share.
Partial ==
    caller = "await" =>
        \A w \in Worker :
            /\ w \notin Unfinished => results[w] = Least(ShareKeys(w))
            /\ worker[w] = "report" => found[w] = Least(ShareKeys(w))

IInv ==
    /\ TypeOK /\ Counted /\ SeenWhenBusy /\ Placed
    /\ NoLostWakeup /\ RoundOf /\ Partial /\ VictimExact

\* The numbers and sets the steps are about.
LEMMA BestType ==
  ASSUME TypeOK
  PROVE  /\ best \in [Group -> Nat] /\ \E g \in Group : best[g] # NoKey
         /\ \A w \in Worker : ShareKeys(w) \in SUBSET Nat
         /\ IsFiniteSet(Unfinished)
  <1>1. best \in [Group -> Nat] /\ \E g \in Group : best[g] # NoKey
    BY WorkerRoundAssumption DEF TypeOK
  <1>2. ASSUME NEW w \in Worker PROVE ShareKeys(w) \in SUBSET Nat
    BY <1>1 DEF TypeOK, ShareKeys, Share
  <1>3. Unfinished \in SUBSET Worker
    BY DEF Unfinished
  <1> QED BY <1>1, <1>2, <1>3, Sizes, FS_Subset

\* The initial state satisfies the invariant.
LEMMA InitIInv == Init => IInv
  <1> SUFFICES ASSUME Init PROVE IInv
    OBVIOUS
  <1>1. TypeOK
    <2>1. 0 \in Group /\ 0 \in 0 .. Workers /\ 0 \in 0 .. MaxDecisions
      BY Sizes, WorkerRoundAssumption DEF Group
    <2>2. /\ results \in [Worker -> Nat] /\ found \in [Worker -> Nat] /\ seen \in [Worker -> Nat]
          /\ worker \in [Worker -> {"off", "wait", "search", "report", "done"}]
      BY DEF Init, NoKey
    <2>3. selected \in Seq(Group) /\ asleep \subseteq Worker \cup {Caller}
      BY DEF Init
    <2>4. /\ best \in Bests /\ start \in Group /\ epoch \in Nat /\ pending \in 0 .. Workers
          /\ decisions \in 0 .. MaxDecisions /\ victim \in Nat /\ stopping \in BOOLEAN
          /\ caller \in {"spawn", "idle", "publish", "await", "join", "gone"}
      BY <2>1 DEF Init, NoKey
    <2> QED BY <2>2, <2>3, <2>4 DEF TypeOK
  <1>2. Counted /\ Placed /\ SeenWhenBusy
    BY DEF Init, Counted, Placed, Unfinished, SeenWhenBusy
  <1>3. NoLostWakeup /\ RoundOf /\ Partial /\ VictimExact
    BY DEF Init, NoLostWakeup, RoundOf, Partial, VictimExact
  <1> QED BY <1>1, <1>2, <1>3 DEF IInv

\* A worker's step changes nothing the simulator's thread relies on elsewhere.
LEMMA WorkerFrame ==
  ASSUME NEW w \in Worker, WorkerStep(w)
  PROVE  UNCHANGED <<best, start, selected, epoch, stopping, decisions, victim, caller>>
  BY DEF WorkerStep, WorkerWaits, Exit, Begin, Search, Report

\* Every step of a worker keeps the invariant.
LEMMA WorkerIInv ==
  ASSUME IInv, NEW w \in Worker, WorkerStep(w)
  PROVE  IInv'
  <1> USE DEF IInv
  <1>1. UNCHANGED <<best, start, selected, epoch, stopping, decisions, victim, caller>>
    BY WorkerFrame
  <1>2. RoundOf' /\ VictimExact'
    BY <1>1 DEF RoundOf, VictimExact, Keys, Sample
  <1>3. \A v \in Worker : ShareKeys(v)' = ShareKeys(v)
    BY <1>1 DEF ShareKeys, Share
  <1>4. SeenWhenBusy'
    BY <1>1 DEF SeenWhenBusy, WorkerStep, WorkerWaits, Exit, Begin, Search, Report, TypeOK
  <1>5. CASE WorkerWaits(w)
    <2>1. TypeOK'
      BY <1>5 DEF WorkerWaits, TypeOK
    <2>2. Counted' /\ Placed' /\ Partial'
      BY <1>3, <1>5 DEF WorkerWaits, Counted, Placed, Partial, Unfinished
    <2>3. NoLostWakeup'
      BY <1>5, Sizes DEF WorkerWaits, NoLostWakeup, Called
    <2> QED BY <1>2, <1>4, <2>1, <2>2, <2>3
  <1>6. CASE Exit(w)
    <2>1. TypeOK'
      BY <1>6 DEF Exit, TypeOK
    <2>2. caller \in {"join", "gone"} /\ worker[w] = "wait"
      BY <1>6 DEF Exit, Placed
    <2>3. Counted' /\ Placed' /\ Partial'
      BY <1>3, <1>6, <2>2 DEF Exit, Counted, Placed, Partial, Unfinished, TypeOK
    <2>4. NoLostWakeup'
      BY <1>6 DEF Exit, NoLostWakeup, Called, Awake, TypeOK
    <2> QED BY <1>2, <1>4, <2>1, <2>3, <2>4
  <1>7. CASE Begin(w)
    <2>1. TypeOK'
      BY <1>7 DEF Begin, TypeOK
    <2>2. caller = "await" /\ w \in Unfinished
      BY <1>7 DEF Begin, Counted, Unfinished
    <2>3. Unfinished' = Unfinished
      BY <1>7, <2>2 DEF Begin, Unfinished, TypeOK
    <2>4. Counted' /\ Placed'
      BY <1>1, <1>7, <2>2, <2>3 DEF Begin, Counted, Placed, TypeOK
    <2>5. Partial'
      BY <1>1, <1>3, <1>7, <2>2, <2>3 DEF Begin, Partial, TypeOK
    <2>6. NoLostWakeup'
      BY <1>7 DEF Begin, NoLostWakeup, Called, Awake, TypeOK
    <2> QED BY <1>2, <1>4, <2>1, <2>4, <2>5, <2>6
  <1>8. CASE Search(w)
    <2>1. TypeOK'
      <3>1. Least(ShareKeys(w)) \in Nat
        BY BestType, LeastSpec
      <3> QED BY <1>8, <3>1 DEF Search, TypeOK, ShareKeys
    <2>2. caller = "await" /\ w \in Unfinished
      BY <1>8 DEF Search, Counted, Unfinished
    <2>3. Unfinished' = Unfinished
      BY <1>8, <2>2 DEF Search, Unfinished, TypeOK
    <2>4. Counted' /\ Placed'
      BY <1>1, <1>8, <2>2, <2>3 DEF Search, Counted, Placed, TypeOK
    <2>5. found' = [found EXCEPT ![w] = Least(ShareKeys(w))]
      BY <1>8 DEF Search, ShareKeys
    <2>6. Partial'
      BY <1>1, <1>3, <1>8, <2>2, <2>3, <2>5 DEF Search, Partial, TypeOK
    <2>7. NoLostWakeup'
      BY <1>8 DEF Search, NoLostWakeup, Called, TypeOK
    <2> QED BY <1>2, <1>4, <2>1, <2>4, <2>6, <2>7
  <1>9. CASE Report(w)
    <2>1. caller = "await" /\ w \in Unfinished /\ worker[w] = "report"
      BY <1>9 DEF Report, Counted, Unfinished
    <2>2. Unfinished' = Unfinished \ {w}
      <3>1. seen[w] = epoch
        BY <2>1 DEF SeenWhenBusy
      <3> QED BY <1>9, <2>1, <3>1 DEF Report, Unfinished, TypeOK
    <2>3. pending \in 1 .. Workers /\ Cardinality(Unfinished') = pending - 1
      <3>1. /\ Cardinality(Unfinished \ {w}) = Cardinality(Unfinished) - 1
            /\ IsFiniteSet(Unfinished \ {w})
        BY <2>1, BestType, FS_RemoveElement
      <3>2. Cardinality(Unfinished \ {w}) \in Nat
        BY <3>1, FS_CardinalityType
      <3>3. pending = Cardinality(Unfinished) /\ pending \in 0 .. Workers
        BY <2>1 DEF Counted, TypeOK
      <3> QED BY <2>2, <3>1, <3>2, <3>3
    <2>4. TypeOK'
      <3>1. pending' \in 0 .. Workers
        BY <1>9, <2>3, Sizes DEF Report
      <3>2. asleep' \subseteq Worker \cup {Caller}
        BY <1>9 DEF Report, TypeOK
      <3>3. results' \in [Worker -> Nat] /\ worker' \in [Worker -> {"off", "wait", "search", "report", "done"}]
        BY <1>9 DEF Report, TypeOK
      <3> QED BY <1>9, <3>1, <3>2, <3>3 DEF Report, TypeOK
    <2>5. Counted' /\ Placed'
      BY <1>1, <1>9, <2>1, <2>3 DEF Report, Counted, Placed, TypeOK
    <2>6. Partial'
      BY <1>1, <1>3, <1>9, <2>1, <2>2 DEF Report, Partial, TypeOK
    <2>7. NoLostWakeup'
      BY <1>9, <2>1, <2>3, Sizes DEF Report, NoLostWakeup, Called, TypeOK
    <2> QED BY <1>2, <1>4, <2>4, <2>5, <2>6, <2>7
  <1> QED BY <1>5, <1>6, <1>7, <1>8, <1>9 DEF WorkerStep

-----------------------------------------------------------------------------
(* What a finished round found.                                             *)

\* The keys the groups of this round hold.
RoundKeys == {best[selected[i]] : i \in DOMAIN selected}
RoundResult == Least({results[w] : w \in Worker})

\* Every position belongs to the share of a worker that has reported, so the
\* least of the results is the least key of the round.
LEMMA RoundResultSpec ==
  ASSUME IInv, caller = "await", pending = 0
  PROVE  /\ RoundResult \in Nat
         /\ RoundKeys \ {NoKey} = {} => RoundResult = NoKey
         /\ RoundKeys \ {NoKey} # {} =>
               /\ RoundResult \in RoundKeys \ {NoKey}
               /\ \A o \in RoundKeys \ {NoKey} : RoundResult <= o
  <1> DEFINE R == {results[w] : w \in Worker}
  <1>1. Unfinished = {}
    <2>1. Cardinality(Unfinished) = 0 /\ IsFiniteSet(Unfinished)
      BY BestType DEF IInv, Counted
    <2> QED BY <2>1, FS_EmptySet
  <1>2. \A w \in Worker : results[w] = Least(ShareKeys(w)) /\ ShareKeys(w) \in SUBSET Nat
    BY <1>1, BestType DEF IInv, Partial
  <1>3. R \in SUBSET Nat /\ RoundResult = Least(R)
    BY DEF IInv, TypeOK, RoundResult
  <1>4. ASSUME NEW k \in R \ {NoKey} PROVE k \in RoundKeys \ {NoKey}
    <2>1. PICK w \in Worker : k = results[w]
      BY <1>4
    <2>2. k = Least(ShareKeys(w)) /\ k # NoKey /\ ShareKeys(w) \in SUBSET Nat
      BY <1>2, <1>4, <2>1
    <2>3. k \in ShareKeys(w) \ {NoKey}
      BY <2>2, LeastSpec
    <2>4. ShareKeys(w) \subseteq RoundKeys
      BY DEF ShareKeys, RoundKeys, Share
    <2> QED BY <2>3, <2>4
  <1>5. ASSUME NEW o \in RoundKeys \ {NoKey} PROVE \E k \in R \ {NoKey} : k <= o
    <2>1. PICK i \in DOMAIN selected : o = best[selected[i]]
      BY <1>5 DEF RoundKeys
    <2>2. i - 1 \in Nat
      BY <2>1 DEF IInv, TypeOK
    <2>3. (i - 1) % Workers \in Worker
      BY <2>2, Sizes, Remainder DEF Worker
    <2>4. o \in ShareKeys((i - 1) % Workers) \ {NoKey}
      BY <1>5, <2>1 DEF ShareKeys, Share
    <2>5. PICK w \in Worker : o \in ShareKeys(w) \ {NoKey}
      BY <2>3, <2>4
    <2>6. results[w] = Least(ShareKeys(w)) /\ ShareKeys(w) \in SUBSET Nat
      BY <1>2
    <2>7. results[w] # NoKey /\ results[w] <= o
      BY <2>5, <2>6, LeastSpec
    <2> QED BY <2>7
  <1> HIDE DEF R
  <1>6. CASE R \ {NoKey} = {}
    <2>1. RoundKeys \ {NoKey} = {}
      BY <1>5, <1>6
    <2> QED BY <1>3, <1>6, <2>1, LeastSpec
  <1>7. CASE R \ {NoKey} # {}
    <2>1. RoundResult \in R \ {NoKey} /\ \A k \in R \ {NoKey} : RoundResult <= k
      BY <1>3, <1>7, LeastSpec
    <2>2. RoundResult \in RoundKeys \ {NoKey}
      BY <1>4, <2>1
    <2>3. ASSUME NEW o \in RoundKeys \ {NoKey} PROVE RoundResult <= o
      <3>1. PICK k \in R \ {NoKey} : k <= o
        BY <1>5
      <3>2. o \in Nat
        BY BestType DEF IInv, TypeOK, RoundKeys
      <3> QED BY <1>3, <2>1, <3>1, <3>2
    <2> QED BY <1>3, <2>1, <2>2, <2>3
  <1> QED BY <1>6, <1>7

\* From group s, a turn of the ring of groups reaches every group.
LEMMA Ring ==
  ASSUME NEW s \in Group, NEW g \in Group
  PROVE  \E i \in 0 .. Groups - 1 : (s + i) % Groups = g
  <1>1. CASE g >= s
    <2>1. g - s \in 0 .. Groups - 1 /\ s + (g - s) = g /\ g % Groups = g
      BY <1>1, Sizes, Remainder DEF Group
    <2> QED BY <2>1
  <1>2. CASE g < s
    <2>1. g - s + Groups \in 0 .. Groups - 1 /\ s + (g - s + Groups) = g + Groups
      BY <1>2, Sizes DEF Group
    <2>2. (g + Groups) % Groups = g
      <3>1. g \in Nat /\ g < Groups /\ Groups \in Nat \ {0}
        BY Sizes DEF Group
      <3> QED BY <3>1, Remainder
    <2> QED BY <2>1, <2>2
  <1> QED BY <1>1, <1>2, Sizes DEF Group

\* The first round looks at the sample.
LEMMA FirstRound ==
  ASSUME TypeOK, selected = Selection(start, 1, FirstGroups)
  PROVE  RoundKeys \ {NoKey} = Keys(Sample)
  <1>1. DOMAIN selected = 1 .. FirstGroups
    BY Sizes DEF Selection
  <1>2. \A k \in 1 .. FirstGroups : selected[k] = (start + 1 + k - 2) % Groups
    BY Sizes DEF Selection
  <1>3. ASSUME NEW k \in 1 .. FirstGroups PROVE selected[k] \in Sample
    <2>1. start + 1 + k - 2 = start + (k - 1) /\ k - 1 \in 0 .. FirstGroups - 1
      BY <1>3, Sizes DEF TypeOK, Group
    <2> QED BY <1>2, <2>1 DEF Sample
  <1>4. ASSUME NEW g \in Sample PROVE \E k \in 1 .. FirstGroups : selected[k] = g
    <2>1. PICK i \in 0 .. FirstGroups - 1 : g = (start + i) % Groups
      BY <1>4 DEF Sample
    <2>2. i + 1 \in 1 .. FirstGroups /\ start + 1 + (i + 1) - 2 = start + i
      BY Sizes DEF TypeOK, Group
    <2> QED BY <1>2, <2>1, <2>2
  <1>5. RoundKeys \ {NoKey} \subseteq Keys(Sample)
    BY <1>1, <1>3 DEF RoundKeys, Keys
  <1>6. ASSUME NEW o \in Keys(Sample) PROVE o \in RoundKeys \ {NoKey}
    <2>1. PICK g \in Sample : o = best[g] /\ o # NoKey
      BY <1>6 DEF Keys
    <2>2. PICK k \in 1 .. FirstGroups : selected[k] = g
      BY <1>4
    <2> QED BY <1>1, <2>1, <2>2 DEF RoundKeys
  <1> QED BY <1>5, <1>6

\* The second round looks at every group outside the sample.
LEMMA SecondRound ==
  ASSUME TypeOK, FirstGroups < Groups, Keys(Sample) = {},
         selected = Selection(start, FirstGroups + 1, Groups)
  PROVE  RoundKeys \ {NoKey} = Keys(Group)
  <1>1. DOMAIN selected = 1 .. Groups - (FirstGroups + 1) + 1
    BY Sizes DEF Selection
  <1>2. \A k \in 1 .. Groups - (FirstGroups + 1) + 1 :
           selected[k] = (start + (FirstGroups + 1) + k - 2) % Groups
    BY Sizes DEF Selection
  <1>3. RoundKeys \ {NoKey} \subseteq Keys(Group)
    BY DEF TypeOK, RoundKeys, Keys
  <1>4. ASSUME NEW g \in Group, best[g] # NoKey PROVE \E k \in DOMAIN selected : selected[k] = g
    <2>1. PICK i \in 0 .. Groups - 1 : (start + i) % Groups = g
      BY Ring DEF TypeOK
    <2>2. ~(i < FirstGroups)
      <3>1. g \notin Sample
        BY <1>4 DEF Keys
      <3> QED BY <2>1, <3>1, Sizes DEF Sample
    <2>3. /\ i - FirstGroups + 1 \in 1 .. Groups - (FirstGroups + 1) + 1
          /\ start + (FirstGroups + 1) + (i - FirstGroups + 1) - 2 = start + i
      BY <2>2, Sizes DEF TypeOK, Group
    <2> QED BY <1>1, <1>2, <2>1, <2>3
  <1>5. Keys(Group) \subseteq RoundKeys \ {NoKey}
    BY <1>4 DEF RoundKeys, Keys
  <1> QED BY <1>3, <1>5

\* Some group holds a key.
LEMMA KeysOfGroups == TypeOK => Keys(Group) # {}
  BY BestType DEF Keys

\* A sample of all groups has every key.
LEMMA FullSample ==
  ASSUME TypeOK, FirstGroups = Groups
  PROVE  Keys(Sample) = Keys(Group)
  <1>1. Group \subseteq Sample
    BY Ring DEF TypeOK, Sample
  <1>2. Sample \subseteq Group
    <2>1. ASSUME NEW i \in 0 .. FirstGroups - 1 PROVE (start + i) % Groups \in Group
      <3>1. start + i \in Nat
        BY <2>1, Sizes DEF TypeOK, Group
      <3> QED BY <3>1, Sizes, Remainder DEF Group
    <2> QED BY <2>1 DEF Sample
  <1> QED BY <1>1, <1>2 DEF Keys

-----------------------------------------------------------------------------
(* The steps of the simulator's thread keep the invariant.                  *)

\* A worker that starts keeps the invariant.
LEMMA SpawnIInv == ASSUME IInv, NEW w \in Worker, Spawn(w) PROVE IInv'
  <1> USE DEF IInv
  <1>1. /\ caller = "spawn" /\ worker[w] = "off" /\ ~stopping /\ decisions = 0
        /\ pending = 0 /\ Unfinished = {}
    BY DEF Spawn, Placed, Counted
  <1>2. caller' \in {"spawn", "idle"}
    BY DEF Spawn
  <1>3. TypeOK'
    BY <1>2 DEF Spawn, TypeOK
  <1>4. Unfinished' = {}
    BY <1>1 DEF Spawn, Unfinished, TypeOK
  <1>5. Counted' /\ SeenWhenBusy' /\ RoundOf' /\ Partial' /\ VictimExact'
    BY <1>1, <1>2, <1>4 DEF Spawn, Counted, SeenWhenBusy, RoundOf, Partial, VictimExact, TypeOK
  <1>6. Placed'
    <2>1. \A v \in Worker : worker'[v] \in {"off", "wait"}
      BY <1>1 DEF Spawn, Placed, TypeOK
    <2>2. caller' = "idle" => \A v \in Worker : v < w \/ v = w
      BY <1>2, Sizes DEF Spawn, Worker
    <2>3. caller' = "idle" => \A v \in Worker : worker'[v] = "wait"
      BY <2>1, <2>2 DEF Spawn, TypeOK
    <2> QED BY <1>1, <1>2, <2>1, <2>3 DEF Spawn, Placed
  <1>7. NoLostWakeup'
    BY <1>1 DEF Spawn, NoLostWakeup, Called, TypeOK
  <1> QED BY <1>3, <1>5, <1>6, <1>7

\* A new decision keeps the invariant.
LEMMA DecideIInv == ASSUME IInv, NEW b \in Bests, NEW s \in Group, Decide(b, s) PROVE IInv'
  <1> USE DEF IInv
  <1>1. TypeOK'
    <2>1. Selection(s, 1, FirstGroups) \in Seq(Group)
      BY Sizes, SelectionType
    <2>2. decisions' \in 0 .. MaxDecisions
      BY WorkerRoundAssumption DEF Decide, TypeOK
    <2> QED BY <2>1, <2>2 DEF Decide, TypeOK
  <1>2. Counted' /\ SeenWhenBusy' /\ Placed'
    BY DEF Decide, Counted, SeenWhenBusy, Placed, Unfinished
  <1>3. NoLostWakeup'
    BY DEF Decide, NoLostWakeup, Called
  <1>4. RoundOf' /\ Partial' /\ VictimExact'
    BY DEF Decide, RoundOf, Partial, VictimExact, Selection, FirstGroups
  <1> QED BY <1>1, <1>2, <1>3, <1>4

\* Every worker has yet to see the round that is published.
LEMMA PublishIInv == ASSUME IInv, Publish PROVE IInv'
  <1> USE DEF IInv
  <1>1. /\ caller = "publish" /\ caller' = "await" /\ ~stopping
        /\ \A w \in Worker : worker[w] = "wait" /\ seen[w] = epoch
    BY DEF Publish, Placed, Counted, Unfinished
  <1>2. TypeOK'
    BY Sizes DEF Publish, TypeOK
  <1>3. Unfinished' = Worker
    BY <1>1 DEF Publish, Unfinished, TypeOK
  <1>4. Counted' /\ SeenWhenBusy' /\ Placed'
    BY <1>1, <1>3, Sizes DEF Publish, Counted, SeenWhenBusy, Placed
  <1>5. NoLostWakeup'
    BY <1>1, Sizes DEF Publish, NoLostWakeup
  <1>6. RoundOf' /\ VictimExact'
    BY <1>1 DEF Publish, RoundOf, VictimExact, Keys, Sample
  <1>7. Partial'
    BY <1>1, <1>3 DEF Publish, Partial
  <1> QED BY <1>2, <1>4, <1>5, <1>6, <1>7

\* Collecting the answers of a round keeps the invariant.
LEMMA CollectIInv == ASSUME IInv, Collect PROVE IInv'
  <1> USE DEF IInv
  <1> DEFINE again == RoundResult = NoKey /\ selected = Selection(start, 1, FirstGroups)
                      /\ FirstGroups < Groups
  <1>1. caller = "await" /\ pending = 0 /\ ~stopping
    BY DEF Collect, Placed
  <1>2. Unfinished = {}
    <2>1. Cardinality(Unfinished) = 0 /\ IsFiniteSet(Unfinished)
      BY <1>1, BestType DEF Counted
    <2> QED BY <2>1, FS_EmptySet
  <1>3. UNCHANGED <<best, start, epoch, pending, stopping, results, decisions, worker,
                    seen, found, asleep>>
    BY DEF Collect
  <1>4. /\ again => /\ selected' = Selection(start, FirstGroups + 1, Groups)
                    /\ caller' = "publish" /\ victim' = victim
        /\ ~again => victim' = RoundResult /\ caller' = "idle" /\ selected' = selected
    BY DEF Collect, RoundResult
  <1>5. /\ RoundResult \in Nat
        /\ RoundKeys \ {NoKey} = {} => RoundResult = NoKey
        /\ RoundKeys \ {NoKey} # {} =>
              RoundResult \in RoundKeys \ {NoKey} /\ \A o \in RoundKeys \ {NoKey} : RoundResult <= o
    BY <1>1, RoundResultSpec
  <1>6. RoundResult = NoKey => RoundKeys \ {NoKey} = {}
    BY <1>5
  <1> HIDE DEF again
  <1>7. caller' \in {"publish", "idle"}
    BY <1>4
  <1>8. TypeOK'
    <2>1. again => Selection(start, FirstGroups + 1, Groups) \in Seq(Group)
      BY Sizes, SelectionType DEF again, TypeOK
    <2>2. selected' \in Seq(Group) /\ victim' \in Nat
      BY <1>4, <1>5, <2>1 DEF TypeOK
    <2> QED BY <1>3, <1>7, <2>2 DEF TypeOK
  <1>9. Counted' /\ SeenWhenBusy' /\ Placed' /\ Partial'
    <2>1. \A w \in Worker : worker[w] = "wait"
      BY <1>1, <1>2 DEF Placed, Unfinished
    <2> QED BY <1>1, <1>2, <1>3, <1>7, <2>1 DEF Counted, SeenWhenBusy, Placed, Partial, Unfinished
  <1>10. NoLostWakeup'
    BY <1>1, <1>3 DEF NoLostWakeup, Called
  <1>11. CASE again
    <2>1. Keys(Sample) = {} /\ FirstGroups < Groups
      BY <1>6, <1>11, FirstRound DEF again
    <2>2. Keys(Sample)' = Keys(Sample)
      BY <1>3 DEF Keys, Sample
    <2>3. RoundOf' /\ VictimExact'
      BY <1>3, <1>4, <1>11, <2>1, <2>2 DEF RoundOf, VictimExact, Selection
    <2> QED BY <1>8, <1>9, <1>10, <2>3
  <1>12. CASE ~again
    <2>1. RoundKeys \ {NoKey} = IF Keys(Sample) # {} THEN Keys(Sample) ELSE Keys(Group)
      <3>1. CASE selected = Selection(start, 1, FirstGroups)
        <4>1. RoundKeys \ {NoKey} = Keys(Sample)
          BY <3>1, FirstRound
        <4>2. Keys(Sample) # {} \/ FirstGroups = Groups
          BY <1>5, <1>12, <3>1, <4>1, Sizes DEF again
        <4> QED BY <4>1, <4>2, FullSample
      <3>2. CASE /\ selected = Selection(start, FirstGroups + 1, Groups)
                 /\ FirstGroups < Groups /\ Keys(Sample) = {}
        BY <3>2, SecondRound
      <3> QED BY <1>1, <3>1, <3>2 DEF RoundOf
    <2>2. RoundKeys \ {NoKey} # {}
      BY <2>1, KeysOfGroups
    <2>3. /\ victim' \in IF Keys(Sample) # {} THEN Keys(Sample) ELSE Keys(Group)
          /\ \A k \in IF Keys(Sample) # {} THEN Keys(Sample) ELSE Keys(Group) : victim' <= k
      BY <1>4, <1>5, <1>12, <2>1, <2>2
    <2>4. Keys(Sample)' = Keys(Sample) /\ Keys(Group)' = Keys(Group)
      BY <1>3 DEF Keys, Sample
    <2>5. VictimExact' /\ RoundOf'
      BY <1>4, <1>12, <2>3, <2>4 DEF VictimExact, RoundOf
    <2> QED BY <1>8, <1>9, <1>10, <2>5
  <1> QED BY <1>11, <1>12

\* Going to sleep, shutting down and waking for no reason.
LEMMA RestIInv ==
  ASSUME IInv, CallerWaits \/ Stop \/ Join \/ \E t \in asleep : WakeSpuriously(t)
  PROVE  IInv'
  <1> USE DEF IInv
  <1>1. CASE CallerWaits
    <2>1. TypeOK'
      BY <1>1 DEF CallerWaits, TypeOK
    <2>2. NoLostWakeup'
      BY <1>1, Sizes DEF CallerWaits, NoLostWakeup, Called
    <2> QED BY <1>1, <2>1, <2>2 DEF CallerWaits, Counted, SeenWhenBusy, Placed, RoundOf, Partial,
               VictimExact, Unfinished, ShareKeys, Share, Keys, Sample
  <1>2. CASE Stop
    <2>1. TypeOK' /\ NoLostWakeup'
      BY <1>2 DEF Stop, TypeOK, NoLostWakeup
    <2>2. Counted' /\ SeenWhenBusy' /\ Placed'
      BY <1>2 DEF Stop, Counted, SeenWhenBusy, Placed, Unfinished
    <2>3. RoundOf' /\ Partial' /\ VictimExact'
      BY <1>2 DEF Stop, RoundOf, Partial, VictimExact
    <2> QED BY <2>1, <2>2, <2>3
  <1>3. CASE Join
    <2>1. TypeOK' /\ NoLostWakeup'
      BY <1>3 DEF Join, TypeOK, NoLostWakeup, Called
    <2>2. Counted' /\ SeenWhenBusy' /\ Placed'
      BY <1>3 DEF Join, Counted, SeenWhenBusy, Placed, Unfinished
    <2>3. RoundOf' /\ Partial' /\ VictimExact'
      BY <1>3 DEF Join, RoundOf, Partial, VictimExact
    <2> QED BY <2>1, <2>2, <2>3
  <1>4. CASE \E t \in asleep : WakeSpuriously(t)
    <2>1. UNCHANGED <<best, start, selected, epoch, pending, stopping, results, decisions,
                      victim, caller, worker, seen, found>>
      BY <1>4 DEF WakeSpuriously
    <2>2. asleep' \subseteq asleep
      BY <1>4 DEF WakeSpuriously
    <2>3. TypeOK' /\ NoLostWakeup'
      BY <2>1, <2>2 DEF TypeOK, NoLostWakeup, Called
    <2>4. Counted' /\ SeenWhenBusy' /\ Placed'
      BY <2>1 DEF Counted, SeenWhenBusy, Placed, Unfinished
    <2>5. RoundOf' /\ VictimExact'
      BY <2>1 DEF RoundOf, VictimExact, Keys, Sample
    <2>6. Partial'
      BY <2>1 DEF Partial, Unfinished, ShareKeys, Share
    <2> QED BY <2>3, <2>4, <2>5, <2>6
  <1> QED BY <1>1, <1>2, <1>3, <1>4

\* Every step keeps the invariant.
LEMMA NextIInv == IInv /\ [Next]_vars => IInv'
  <1> SUFFICES ASSUME IInv, [Next]_vars PROVE IInv'
    OBVIOUS
  <1>1. CASE \E w \in Worker : WorkerStep(w) \/ Spawn(w)
    BY <1>1, WorkerIInv, SpawnIInv
  <1>2. CASE RoundStep
    BY <1>2, PublishIInv, CollectIInv, RestIInv DEF RoundStep
  <1>3. CASE Stop
    BY <1>3, RestIInv
  <1>4. CASE \E b \in Bests, s \in Group : Decide(b, s)
    BY <1>4, DecideIInv
  <1>5. CASE \E t \in asleep : WakeSpuriously(t)
    BY <1>5, RestIInv
  <1>6. CASE UNCHANGED vars
    <2>1. TypeOK' /\ NoLostWakeup'
      BY <1>6 DEF vars, IInv, TypeOK, NoLostWakeup, Called
    <2>2. Counted' /\ SeenWhenBusy' /\ Placed'
      BY <1>6 DEF vars, IInv, Counted, SeenWhenBusy, Placed, Unfinished
    <2>3. RoundOf' /\ VictimExact'
      BY <1>6 DEF vars, IInv, RoundOf, VictimExact, Keys, Sample
    <2>4. Partial'
      BY <1>6 DEF vars, IInv, Partial, Unfinished, ShareKeys, Share
    <2> QED BY <2>1, <2>2, <2>3, <2>4 DEF IInv
  <1> QED BY <1>1, <1>2, <1>3, <1>4, <1>5, <1>6 DEF Next

-----------------------------------------------------------------------------
(* The theorems.                                                            *)

\* The invariant holds in every reachable state.
THEOREM Invariance == Spec => []IInv
  BY InitIInv, NextIInv, PTL DEF Spec

\* Every variable keeps its type; the count of unfinished workers is never
\* negative.
THEOREM RoundTypes == Spec => []TypeOK
  <1>1. IInv => TypeOK
    BY DEF IInv
  <1> QED BY <1>1, Invariance, PTL

\* The groups and the tree are never read while the simulator's thread is
\* outside search_groups(), whatever the number of workers.
THEOREM SearchesIsolated == Spec => []SearchIsolated
  <1>1. IInv => SearchIsolated
    <2> SUFFICES ASSUME IInv, NEW w \in Worker, worker[w] \in {"search", "report"}
                 PROVE  caller = "await" /\ pending > 0
      BY DEF SearchIsolated
    <2>1. w \in Unfinished
      BY DEF Unfinished
    <2>2. caller = "await" /\ pending = Cardinality(Unfinished)
      BY <2>1 DEF IInv, Counted
    <2>3. IsFiniteSet(Unfinished) /\ Cardinality(Unfinished) # 0
      BY <2>1, BestType, FS_EmptySet DEF IInv
    <2> QED BY <2>2, <2>3 DEF IInv, TypeOK
  <1> QED BY <1>1, Invariance, PTL

\* Nobody sleeps through the notification it waits for.
THEOREM WakeupsOfRoundKept == Spec => []NoLostWakeup
  <1>1. IInv => NoLostWakeup
    BY DEF IInv
  <1> QED BY <1>1, Invariance, PTL

\* The parallel search returns the victim a single thread would return.
THEOREM VictimsExact == Spec => []VictimExact
  <1>1. IInv => VictimExact
    BY DEF IInv
  <1> QED BY <1>1, Invariance, PTL
=============================================================================
