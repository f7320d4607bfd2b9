------------------------- MODULE FeedbackSimulator -------------------------
(***************************************************************************)
(* The simulator with the feedback loop of the wear-balanced policy: the   *)
(* ghosts and windows ShadowFtl keeps (cpp/src/shadow_ftl.cpp), the clock  *)
(* that closes windows and runs background ticks in one order              *)
(* (run_until() of cpp/src/simulator.cpp), and the controller of the idle  *)
(* multiplier (on_shadow_feedback() of wear_balanced_storage_policy.cpp,   *)
(* with online_tuning).  The decisions of that policy are those of the     *)
(* adaptive family, its thresholds again any of IdleAges, PromotionAges.   *)
(***************************************************************************)
EXTENDS Simulator

CONSTANTS
    FeedbackPeriod, \* feedback_period_ns
    Ttl,            \* how long a ghost is remembered (24 hours)
    MinReuse,       \* min_reuse_blocks: below it a window is sparse
    WarmUp,         \* windows that never adjust (4)
    Streak,         \* consecutive windows an adjustment takes (3)
    StressStreak,   \* violations after which stress lowers it (8)
    MaxLevel        \* the multiplier 64; 0 stands for 24

ASSUME FeedbackAssumption ==
    /\ FeedbackPeriod \in 1 .. MaxClock
    /\ Ttl \in Nat /\ MinReuse \in Nat \ {0}
    /\ WarmUp \in Nat /\ Streak \in Nat \ {0} /\ StressStreak \in Nat \ {0}
    /\ MaxLevel \in Nat

VARIABLES
    feedback,   \* next_feedback_ns_, 0 = none to come
    shadow,     \* ghosts_, expirations_, hits_ and ghost_misses_
    request,    \* ghost_prefix, prefix_hit and hit_blocks of the request
    control,    \* feedback_windows_, the streaks, learned_idle_multiplier_
    lostAt,     \* history: when each block last lost its last copy
    tally,      \* history: the reuse of the requests of each window
    kinds       \* history: what each closed window was

feedbackVars == <<vars, feedback, shadow, request, control, lostAt, tally, kinds>>

Never == -1
Windows == 0 .. MaxTime \div FeedbackPeriod

-----------------------------------------------------------------------------
(* Ghosts: blocks that lost their last copy, remembered for a while.        *)

IsGhost(s, h) == s.ghosts[h] # Never

\* expire_ghosts()
Expired(s, t) ==
    LET old == {e \in s.expirations : t > e[1] /\ t - e[1] > Ttl}
    IN  [s EXCEPT !.expirations = @ \ old,
                  !.ghosts = [h \in Hash |-> IF \E e \in old : e[2] = h THEN Never ELSE @[h]]]

\* Mutant of Recorded: the previous loss keeps its expiration.
RecordedTwice(s, lost, t) ==
    IF lost = {} THEN s
    ELSE [Expired(s, t) EXCEPT !.ghosts = [h \in Hash |-> IF h \in lost THEN t ELSE @[h]],
                               !.expirations = @ \cup {<<t, h>> : h \in lost}]

\* record_loss() of each block in lost: a second loss starts the time again.
Recorded(s, lost, t) ==
    IF lost = {} THEN s
    ELSE [Expired(s, t) EXCEPT !.ghosts = [h \in Hash |-> IF h \in lost THEN t ELSE @[h]],
                               !.expirations = {e \in @ : e[2] \notin lost}
                                                \cup {<<t, h>> : h \in lost}]

\* ghost_prefix(): the position of the last ghost of the path.
GhostPrefix(s, path) ==
    LET positions == {i \in DOMAIN path : IsGhost(s, path[i])}
    IN  IF positions = {} THEN 0 ELSE CHOOSE i \in positions : \A j \in positions : j <= i

\* Blocks a step takes out of DRAM with no SSD copy, or off the SSD with no
\* DRAM copy.
Lost ==
    {h \in mem \ mem' : loc'[h] = None}
    \cup {h \in Hash : loc[h] # None /\ loc'[h] = None /\ h \notin mem /\ h \notin mem'}

\* The time of a step: that of the tick being drained, or of the request.
Clock == IF pc \in {"catch_up", "closing"} THEN tick ELSE req.time

-----------------------------------------------------------------------------
(* The controller.                                                         *)

\* Mutant of Streaks: a sparse window leaves the streaks as they are.
StreaksKept(c, kind) ==
    [violation |-> IF kind = "violation" THEN c.violation + 1
                   ELSE IF kind = "sparse" THEN c.violation ELSE 0,
     headroom |-> IF kind = "headroom" THEN c.headroom + 1
                  ELSE IF kind = "sparse" THEN c.headroom ELSE 0]

Streaks(c, kind) ==
    [violation |-> IF kind = "violation" THEN c.violation + 1 ELSE 0,
     headroom |-> IF kind = "headroom" THEN c.headroom + 1 ELSE 0]

Clamped(level) == IF level < 0 THEN 0 ELSE IF level > MaxLevel THEN MaxLevel ELSE level

\* on_shadow_feedback(): the exponent of the step is 0.03 down, up to 0.02 up,
\* or 0.02 down; a level is 0.01 of it.
Controlled(c, kind, stress, rise) ==
    LET s == Streaks(c, kind)
        w == c.windows + 1
        step == IF kind = "sparse" \/ w <= WarmUp THEN 0
                ELSE IF stress /\ s.violation >= StressStreak THEN -3
                ELSE IF s.violation >= Streak THEN rise
                ELSE IF s.headroom >= Streak THEN -2
                ELSE 0
    IN  [windows |-> w, violation |-> s.violation, headroom |-> s.headroom,
         level |-> Clamped(c.level + step)]

-----------------------------------------------------------------------------

FeedbackInit ==
    /\ Init
    /\ feedback = FeedbackPeriod
    /\ shadow = [ghosts |-> [h \in Hash |-> Never], expirations |-> {}, hits |-> 0, misses |-> 0]
    /\ request = [ghost |-> 0, prefix |-> FALSE, hits |-> 0]
    /\ control = [windows |-> 0, violation |-> 0, headroom |-> 0, level |-> 0]
    /\ lostAt = [h \in Hash |-> Never]
    /\ tally = [w \in Windows |-> <<0, 0>>]
    /\ kinds = <<>>

\* Mutant of FeedbackDue: at the same time the tick goes first.
FeedbackDueLate ==
    /\ At("catch_up") \/ At("closing")
    /\ feedback # 0 /\ feedback <= req.time
    /\ TickDue => feedback < tick

\* run_until(): the window that ends at a tick's time is closed before it.
FeedbackDue ==
    /\ At("catch_up") \/ At("closing")
    /\ feedback # 0 /\ feedback <= req.time
    /\ TickDue => feedback <= tick

\* close_feedback_window().  Whether the smoothed reuse of a window with samples
\* enough is below its floor, and whether the pools are under stress, is open.
CloseWindow(verdict, stress, rise) ==
    LET kind == IF shadow.hits + shadow.misses < MinReuse THEN "sparse" ELSE verdict
    IN  /\ FeedbackDue
        /\ control' = Controlled(control, kind, stress, rise)
        /\ kinds' = Append(kinds, kind)
        /\ shadow' = [Expired(shadow, feedback) EXCEPT !.hits = 0, !.misses = 0]
        /\ feedback' = Advance(feedback, FeedbackPeriod)
        /\ UNCHANGED <<vars, request, lostAt, tally>>

BeginReuse ==
    /\ BeginRequest /\ ~FeedbackDue
    /\ shadow' = Expired(shadow, req.time)
    /\ request' = [ghost |-> GhostPrefix(shadow', req.path), prefix |-> TRUE, hits |-> 0]
    /\ UNCHANGED <<feedback, control, lostAt, tally, kinds>>

HitReuse ==
    /\ MemoryHit \/ \E a \in PromotionAges : StorageHit(a)
    /\ request' = [request EXCEPT !.hits = IF request.prefix THEN @ + 1 ELSE @]
    /\ UNCHANGED <<feedback, shadow, control, lostAt, tally, kinds>>

MissReuse ==
    /\ GlobalMiss
    /\ request' = [request EXCEPT !.prefix = FALSE]
    /\ UNCHANGED <<feedback, shadow, control, lostAt, tally, kinds>>

\* record_request(): what was lost beyond the prefix that was still there.
EndReuse ==
    LET misses == IF request.ghost > request.hits THEN request.ghost - request.hits ELSE 0
        w == req.time \div FeedbackPeriod
    IN  /\ EndRequest
        /\ shadow' = [shadow EXCEPT !.hits = @ + request.hits, !.misses = @ + misses]
        /\ tally' = [tally EXCEPT ![w] = <<@[1] + request.hits, @[2] + misses>>]
        /\ request' = [ghost |-> 0, prefix |-> FALSE, hits |-> 0]
        /\ UNCHANGED <<feedback, control, lostAt, kinds>>

\* Every other step of the simulator, with the losses it reports.
Work ==
    /\ \/ Maintenance /\ ~FeedbackDue
       \/ Close /\ ~FeedbackDue
       \/ Environment \/ AdmitHit \/ BypassHit \/ MemoryStep \/ CapacityStep
       \/ Terminated
    /\ shadow' = Recorded(shadow, Lost, Clock)
    /\ lostAt' = [h \in Hash |-> IF Resident(h) /\ h \notin mem' /\ loc'[h] = None
                                 THEN Clock ELSE lostAt[h]]
    /\ UNCHANGED <<feedback, request, control, tally, kinds>>

FeedbackNext ==
    \/ \E verdict \in {"violation", "headroom", "even"}, stress \in BOOLEAN, rise \in 1 .. 2 :
          CloseWindow(verdict, stress, rise)
    \/ BeginReuse \/ HitReuse \/ MissReuse \/ EndReuse \/ Work

FeedbackSpec == FeedbackInit /\ [][FeedbackNext]_feedbackVars

-----------------------------------------------------------------------------
(* Properties.                                                             *)

\* Windows end in step with the clock: when a tick or a request is processed,
\* the windows that end up to its time are closed and no other, up to the end
\* of the clock; and what a window reports is the reuse of exactly the requests
\* whose time is in it.
WindowsExact ==
    /\ pc \in {"access", "admit", "insert", "evict", "store"} =>
          control.windows = req.time \div FeedbackPeriod
    /\ pc \in {"catch_up", "closing"} /\ TickDue /\ ~FeedbackDue =>
          control.windows = tick \div FeedbackPeriod
    /\ <<shadow.hits, shadow.misses>> = tally[control.windows]

\* A request meets as ghosts the blocks that lost their last copy no longer ago
\* than Ttl, by their last loss, whatever took the copy; each ghost has its one
\* expiration, at the time of that loss.
GhostsExact ==
    /\ shadow.expirations = {<<shadow.ghosts[h], h>> : h \in {h \in Hash : IsGhost(shadow, h)}}
    /\ \A h \in Hash : IsGhost(shadow, h) => shadow.ghosts[h] = lostAt[h]
    /\ pc \in {"access", "admit", "insert", "evict", "store"} =>
          \A h \in Hash : lostAt[h] # Never /\ req.time - lostAt[h] <= Ttl <=> IsGhost(shadow, h)

\* The multiplier only moves on evidence: up after Streak violations in a row,
\* down after Streak windows of headroom or StressStreak violations, with no
\* sparse window among them and never during the warm-up.
Lately(n, kind) ==
    /\ Len(kinds) >= n
    /\ \A i \in Len(kinds) - n + 1 .. Len(kinds) : kinds[i] = kind

MultiplierEarned ==
    [][/\ control'.level # control.level => Len(kinds') > WarmUp
       /\ control'.level > control.level => Lately(Streak, "violation")'
       /\ control'.level < control.level =>
             Lately(Streak, "headroom")' \/ Lately(StressStreak, "violation")']_feedbackVars
=============================================================================
