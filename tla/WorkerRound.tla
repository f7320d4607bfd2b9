---------------------------- MODULE WorkerRound ----------------------------
(* The parallel search of IndexedMemoryLruPolicy: the simulator's thread     *)
(* publishes a round to a fixed set of workers, each looks through its share *)
(* of the selected groups without holding the mutex, and the last to report  *)
(* wakes the simulator.  A critical section is one step; a thread whose      *)
(* predicate is false goes to sleep in it.                                   *)
EXTENDS Integers, Sequences, FiniteSets

CONSTANTS
    Workers,      \* number of worker threads, more than one
    Groups,       \* groups_.size()
    SampledGroups,\* sampled_groups_, 0 for all of them
    Bests,        \* what the groups may hold: first leaf key of each, or NoKey
    MaxDecisions  \* bound on the number of evictions

NoKey == 0
Worker == 0 .. Workers - 1
Group == 0 .. Groups - 1

\* workers <= groups and sampled_groups <= groups (constructor); DRAM is full
\* when a victim is asked for, so some group has one.
ASSUME WorkerRoundAssumption ==
    /\ Groups \in Nat \ {0} /\ Workers \in 2 .. Groups /\ SampledGroups \in 0 .. Groups
    /\ Bests \subseteq {b \in [Group -> Nat] : \E g \in Group : b[g] # NoKey}
    /\ MaxDecisions \in Nat

VARIABLES
    best,       \* groups_: the least key of a leaf segment of each group
    start,      \* the group this decision starts with
    selected,   \* selected_groups_
    epoch, pending, stopping,
    results,    \* results_
    decisions,  \* decision_
    victim,     \* what select_victim() returned
    caller,     \* where the simulator's thread is
    worker,     \* where each worker is
    seen,       \* seen of each worker
    found,      \* the local result of each worker
    asleep      \* threads inside a wait

vars == <<best, start, selected, epoch, pending, stopping, results, decisions,
          victim, caller, worker, seen, found, asleep>>

\* The simulator's thread among the threads that may sleep.
Caller == -1

\* The least key of a set, NoKey when there is none.
Least(keys) ==
    IF keys \subseteq {NoKey} THEN NoKey
    ELSE CHOOSE k \in keys \ {NoKey} : \A o \in keys \ {NoKey} : k <= o

Init ==
    /\ best \in Bests /\ start = 0 /\ selected = <<>>
    /\ epoch = 0 /\ pending = 0 /\ stopping = FALSE
    /\ results = [w \in Worker |-> NoKey]
    /\ decisions = 0 /\ victim = NoKey
    /\ caller = "spawn"
    /\ worker = [w \in Worker |-> "off"]
    /\ seen = [w \in Worker |-> 0]
    /\ found = [w \in Worker |-> NoKey]
    /\ asleep = {}

-----------------------------------------------------------------------------
(* worker_loop() and search().                                              *)

Awake(t) == t \notin asleep
Called(w) == stopping \/ epoch # seen[w]

WorkerWaits(w) ==
    /\ worker[w] = "wait" /\ Awake(w) /\ ~Called(w)
    /\ asleep' = asleep \cup {w}
    /\ UNCHANGED <<best, start, selected, epoch, pending, stopping, results, decisions,
                   victim, caller, worker, seen, found>>

Exit(w) ==
    /\ worker[w] = "wait" /\ Awake(w) /\ stopping
    /\ worker' = [worker EXCEPT ![w] = "done"]
    /\ UNCHANGED <<best, start, selected, epoch, pending, stopping, results, decisions,
                   victim, caller, seen, found, asleep>>

\* Mutant of Begin: the worker does not note the round.
BeginUnseen(w) ==
    /\ worker[w] = "wait" /\ Awake(w) /\ ~stopping /\ epoch # seen[w]
    /\ worker' = [worker EXCEPT ![w] = "search"]
    /\ UNCHANGED <<best, start, selected, epoch, pending, stopping, results, decisions,
                   victim, caller, seen, found, asleep>>

Begin(w) ==
    /\ worker[w] = "wait" /\ Awake(w) /\ ~stopping /\ epoch # seen[w]
    /\ seen' = [seen EXCEPT ![w] = epoch]
    /\ worker' = [worker EXCEPT ![w] = "search"]
    /\ UNCHANGED <<best, start, selected, epoch, pending, stopping, results, decisions,
                   victim, caller, found, asleep>>

\* The positions of selected_groups_ a worker looks at.
Share(w) == {i \in DOMAIN selected : (i - 1) % Workers = w}

\* Outside the mutex.
Search(w) ==
    /\ worker[w] = "search"
    /\ found' = [found EXCEPT ![w] = Least({best[selected[i]] : i \in Share(w)})]
    /\ worker' = [worker EXCEPT ![w] = "report"]
    /\ UNCHANGED <<best, start, selected, epoch, pending, stopping, results, decisions,
                   victim, caller, seen, asleep>>

\* Mutant of Report: the last worker does not notify.
ReportQuietly(w) ==
    /\ worker[w] = "report"
    /\ results' = [results EXCEPT ![w] = found[w]]
    /\ pending' = pending - 1
    /\ worker' = [worker EXCEPT ![w] = "wait"]
    /\ UNCHANGED <<best, start, selected, epoch, stopping, decisions, victim, caller,
                   seen, found, asleep>>

\* Mutant of Report: a worker that found nothing leaves the previous result.
ReportFound(w) ==
    /\ worker[w] = "report"
    /\ results' = IF found[w] = NoKey THEN results ELSE [results EXCEPT ![w] = found[w]]
    /\ pending' = pending - 1
    /\ asleep' = IF pending = 1 THEN asleep \ {Caller} ELSE asleep
    /\ worker' = [worker EXCEPT ![w] = "wait"]
    /\ UNCHANGED <<best, start, selected, epoch, stopping, decisions, victim, caller,
                   seen, found>>

Report(w) ==
    /\ worker[w] = "report"
    /\ results' = [results EXCEPT ![w] = found[w]]
    /\ pending' = pending - 1
    /\ asleep' = IF pending = 1 THEN asleep \ {Caller} ELSE asleep
    /\ worker' = [worker EXCEPT ![w] = "wait"]
    /\ UNCHANGED <<best, start, selected, epoch, stopping, decisions, victim, caller,
                   seen, found>>

-----------------------------------------------------------------------------
(* The simulator's thread: constructor, select_victim(), destructor.        *)

Spawn(w) ==
    /\ caller = "spawn" /\ worker[w] = "off"
    /\ \A v \in Worker : v < w => worker[v] # "off"
    /\ worker' = [worker EXCEPT ![w] = "wait"]
    /\ caller' = IF w = Workers - 1 THEN "idle" ELSE "spawn"
    /\ UNCHANGED <<best, start, selected, epoch, pending, stopping, results, decisions,
                   victim, seen, found, asleep>>

\* The groups at positions i .. j of a decision, counted from group start.
Selection(from, i, j) == [k \in 1 .. j - i + 1 |-> (from + i + k - 2) % Groups]

FirstGroups == IF SampledGroups = 0 THEN Groups ELSE SampledGroups

\* select_victim() up to the first round; the tree may hold anything by then.
Decide(b, s) ==
    /\ caller = "idle" /\ decisions < MaxDecisions
    /\ best' = b /\ start' = s
    /\ selected' = Selection(s, 1, FirstGroups)
    /\ decisions' = decisions + 1
    /\ caller' = "publish"
    /\ UNCHANGED <<epoch, pending, stopping, results, victim, worker, seen, found, asleep>>

\* search_groups() up to done_.wait(): there is somebody to wait for.
Publish ==
    /\ caller = "publish"
    /\ pending' = Workers
    /\ epoch' = epoch + 1
    /\ asleep' = {Caller}
    /\ caller' = "await"
    /\ UNCHANGED <<best, start, selected, stopping, results, decisions, victim, worker,
                   seen, found>>

CallerWaits ==
    /\ caller = "await" /\ Awake(Caller) /\ pending # 0
    /\ asleep' = asleep \cup {Caller}
    /\ UNCHANGED <<best, start, selected, epoch, pending, stopping, results, decisions,
                   victim, caller, worker, seen, found>>

\* The least of the workers' results; when the sample had none, a second round
\* looks at the other groups.
Collect ==
    /\ caller = "await" /\ Awake(Caller) /\ pending = 0
    /\ LET result == Least({results[w] : w \in Worker})
       IN  IF result = NoKey /\ selected = Selection(start, 1, FirstGroups) /\ FirstGroups < Groups
           THEN /\ selected' = Selection(start, FirstGroups + 1, Groups)
                /\ caller' = "publish"
                /\ UNCHANGED victim
           ELSE victim' = result /\ caller' = "idle" /\ UNCHANGED selected
    /\ UNCHANGED <<best, start, epoch, pending, stopping, results, decisions, worker,
                   seen, found, asleep>>

\* Mutant of Stop: the workers are not notified.
StopQuietly ==
    /\ caller \in {"idle", "spawn"}
    /\ stopping' = TRUE
    /\ caller' = "join"
    /\ UNCHANGED <<best, start, selected, epoch, pending, results, decisions, victim,
                   worker, seen, found, asleep>>

\* The destructor, or a thread that could not be created.
Stop ==
    /\ caller \in {"idle", "spawn"}
    /\ stopping' = TRUE /\ asleep' = {}
    /\ caller' = "join"
    /\ UNCHANGED <<best, start, selected, epoch, pending, results, decisions, victim,
                   worker, seen, found>>

Join ==
    /\ caller = "join" /\ \A w \in Worker : worker[w] \in {"off", "done"}
    /\ caller' = "gone"
    /\ UNCHANGED <<best, start, selected, epoch, pending, stopping, results, decisions,
                   victim, worker, seen, found, asleep>>

\* A condition variable may wake a thread for no reason.
WakeSpuriously(t) ==
    /\ t \in asleep
    /\ asleep' = asleep \ {t}
    /\ UNCHANGED <<best, start, selected, epoch, pending, stopping, results, decisions,
                   victim, caller, worker, seen, found>>

-----------------------------------------------------------------------------

WorkerStep(w) == WorkerWaits(w) \/ Exit(w) \/ Begin(w) \/ Search(w) \/ Report(w)

RoundStep == Publish \/ CallerWaits \/ Collect \/ Join

Next ==
    \/ \E w \in Worker : WorkerStep(w) \/ Spawn(w)
    \/ RoundStep \/ Stop
    \/ \E b \in Bests, s \in Group : Decide(b, s)
    \/ \E t \in asleep : WakeSpuriously(t)
    \/ caller = "gone" /\ UNCHANGED vars

\* Every thread is scheduled; a search ends.  Nothing obliges the simulator to
\* ask for a victim or to destroy the policy.
Spec == Init /\ [][Next]_vars /\ WF_vars(RoundStep) /\ \A w \in Worker : WF_vars(WorkerStep(w))

-----------------------------------------------------------------------------
(* Properties.                                                              *)

TypeOK ==
    /\ best \in Bests /\ start \in Group /\ selected \in Seq(Group)
    /\ epoch \in Nat /\ pending \in 0 .. Workers /\ stopping \in BOOLEAN
    /\ results \in [Worker -> Nat] /\ found \in [Worker -> Nat]
    /\ decisions \in 0 .. MaxDecisions /\ victim \in Nat
    /\ caller \in {"spawn", "idle", "publish", "await", "join", "gone"}
    /\ worker \in [Worker -> {"off", "wait", "search", "report", "done"}]
    /\ seen \in [Worker -> Nat]
    /\ asleep \subseteq Worker \cup {Caller}

\* The groups, the residents and the tree are read without the mutex: while a
\* worker searches or has a result to report, the simulator's thread is inside
\* search_groups() and changes nothing.
SearchIsolated ==
    (\E w \in Worker : worker[w] \in {"search", "report"}) => caller = "await" /\ pending > 0

\* A thread sleeps only while what it waits for is false.
NoLostWakeup ==
    /\ Caller \in asleep => caller = "await" /\ pending # 0
    /\ \A w \in Worker \cap asleep : worker[w] = "wait" /\ ~Called(w)

\* The victim is the one a single thread would have found: the least key of
\* the sampled groups, and of the other groups when the sample has none.  No
\* share is skipped, and no result of an earlier round is used.
Sample == {(start + i) % Groups : i \in 0 .. FirstGroups - 1}
Keys(S) == {best[g] : g \in S} \ {NoKey}

VictimExact ==
    caller = "idle" /\ decisions > 0 =>
        LET S == IF Keys(Sample) # {} THEN Keys(Sample) ELSE Keys(Group)
        IN  victim \in S /\ \A k \in S : victim <= k

\* A decision ends, and the destructor returns.
RoundsReturn ==
    /\ caller \in {"publish", "await"} ~> caller \in {"idle", "gone"}
    /\ caller = "join" ~> caller = "gone"
=============================================================================
