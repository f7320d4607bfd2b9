---------------------- MODULE FeedbackSimulatorProofs ----------------------
(***************************************************************************)
(* Proofs about FeedbackSimulator: it is the simulator as far as blocks    *)
(* are concerned, so what is proved of the core holds with the feedback    *)
(* loop; its ghosts are the recent losses; its multiplier moves on         *)
(* evidence only.                                                          *)
(***************************************************************************)
EXTENDS FeedbackSimulator, SimulatorProofs

-----------------------------------------------------------------------------
(* The feedback loop adds nothing to what the simulator does with blocks.   *)

\* Every step is a step of the core or leaves it alone.
LEMMA StepIsCoreStep == FeedbackNext => [Next]_vars
  <1> SUFFICES ASSUME FeedbackNext PROVE [Next]_vars
    OBVIOUS
  <1>1. CASE \E v \in {"violation", "headroom", "even"}, s \in BOOLEAN, r \in 1 .. 2 :
               CloseWindow(v, s, r)
    BY <1>1 DEF CloseWindow
  <1>2. CASE BeginReuse \/ HitReuse \/ MissReuse \/ EndReuse
    BY <1>2 DEF BeginReuse, HitReuse, MissReuse, EndReuse, Next, Run, BlockStep
  <1>3. CASE Work
    BY <1>3 DEF Work, Next, Run, BlockStep
  <1> QED BY <1>1, <1>2, <1>3 DEF FeedbackNext

\* Windows and ghosts never change what happens to a block: every behaviour is
\* one of the core, whose theorems therefore hold with the feedback loop.
THEOREM FeedbackKeepsCore == FeedbackSpec => Spec
  <1>1. FeedbackInit => Init
    BY DEF FeedbackInit
  <1>2. [FeedbackNext]_feedbackVars => [Next]_vars
    BY StepIsCoreStep DEF feedbackVars
  <1> QED BY <1>1, <1>2, PTL DEF FeedbackSpec, Spec

-----------------------------------------------------------------------------
(* The controller. *)

Kind == {"violation", "headroom", "even", "sparse"}

\* Of the windows s, the last n were of kind k.
Ends(s, n, k) == n <= Len(s) /\ \A i \in Len(s) - n + 1 .. Len(s) : s[i] = k

\* The controller's counts are those of the windows closed so far: a streak is
\* a run of windows of its kind at the end.
ControlInv ==
  /\ kinds \in Seq(Kind)
  /\ control \in [windows : Nat, violation : Nat, headroom : Nat, level : 0 .. MaxLevel]
  /\ control.windows = Len(kinds)
  /\ Ends(kinds, control.violation, "violation") /\ Ends(kinds, control.headroom, "headroom")

\* One more window of the kind makes the run at the end longer by one, and a run
\* of length zero is always there.
LEMMA RunGrows ==
  ASSUME NEW s \in Seq(Kind), NEW k \in Kind, NEW x \in Kind, NEW n \in Nat, Ends(s, n, k)
  PROVE  Ends(Append(s, x), 0, k) /\ (x = k => Ends(Append(s, x), n + 1, k))
  <1> DEFINE t == Append(s, x)
  <1>1. /\ Len(s) \in Nat /\ Len(t) = Len(s) + 1
        /\ \A i \in 1 .. Len(s) : t[i] = s[i]
        /\ t[Len(s) + 1] = x
    BY AppendProperties, LenProperties
  <1> HIDE DEF t
  <1>2. Ends(t, 0, k)
    BY <1>1 DEF Ends
  <1>3. ASSUME x = k PROVE Ends(t, n + 1, k)
    <2>1. n <= Len(s) /\ \A i \in Len(s) - n + 1 .. Len(s) : s[i] = k
      BY DEF Ends
    <2>2. ASSUME NEW i \in Len(t) - (n + 1) + 1 .. Len(t) PROVE t[i] = k
      <3>1. CASE i = Len(s) + 1
        BY <1>1, <1>3, <3>1
      <3>2. CASE i # Len(s) + 1
        <4>1. i \in Len(s) - n + 1 .. Len(s) /\ i \in 1 .. Len(s)
          BY <1>1, <2>1, <3>2
        <4> QED BY <1>1, <2>1, <4>1
      <3> QED BY <3>1, <3>2
    <2> QED BY <1>1, <2>1, <2>2 DEF Ends
  <1> QED BY <1>2, <1>3 DEF t

\* A run contains the shorter ones.
LEMMA RunShrinks ==
  ASSUME NEW s \in Seq(Kind), NEW k, NEW m \in Nat, NEW n \in 0 .. m, Ends(s, m, k)
  PROVE  Ends(s, n, k)
  <1>1. Len(s) \in Nat
    BY LenProperties
  <1> QED BY <1>1 DEF Ends

\* The controller: what it counts, and which way the multiplier moves.
LEMMA ControllerMoves ==
  ASSUME NEW c \in [windows : Nat, violation : Nat, headroom : Nat, level : 0 .. MaxLevel],
         NEW kind \in Kind, NEW stress \in BOOLEAN, NEW rise \in 1 .. 2
  PROVE  LET d == Controlled(c, kind, stress, rise)
         IN  /\ d \in [windows : Nat, violation : Nat, headroom : Nat, level : 0 .. MaxLevel]
             /\ d.windows = c.windows + 1
             /\ d.violation = IF kind = "violation" THEN c.violation + 1 ELSE 0
             /\ d.headroom = IF kind = "headroom" THEN c.headroom + 1 ELSE 0
             /\ d.level # c.level => d.windows > WarmUp
             /\ d.level > c.level => d.violation >= Streak
             /\ d.level < c.level => d.headroom >= Streak \/ d.violation >= StressStreak
  <1> DEFINE v == IF kind = "violation" THEN c.violation + 1 ELSE 0
             h == IF kind = "headroom" THEN c.headroom + 1 ELSE 0
             step == IF kind = "sparse" \/ c.windows + 1 <= WarmUp THEN 0
                     ELSE IF stress /\ v >= StressStreak THEN -3
                     ELSE IF v >= Streak THEN rise
                     ELSE IF h >= Streak THEN -2 ELSE 0
             level == Clamped(c.level + step)
  <1>1. Controlled(c, kind, stress, rise) =
          [windows |-> c.windows + 1, violation |-> v, headroom |-> h, level |-> level]
    BY DEF Controlled, Streaks
  <1>2. v \in Nat /\ h \in Nat /\ c.windows \in Nat /\ c.level \in 0 .. MaxLevel /\ MaxLevel \in Nat
        /\ WarmUp \in Nat /\ Streak \in Nat /\ StressStreak \in Nat
    BY FeedbackAssumption
  <1>3. /\ step \in {-3, -2, 0, 1, 2}
        /\ step # 0 => c.windows + 1 > WarmUp
        /\ step > 0 => v >= Streak
        /\ step < 0 => h >= Streak \/ v >= StressStreak
    <2> HIDE DEF v, h
    <2> QED BY <1>2
  <1> HIDE DEF v, h, step
  <1>4. /\ level \in 0 .. MaxLevel
        /\ step = 0 => level = c.level
        /\ step > 0 => level >= c.level
        /\ step < 0 => level <= c.level
    BY <1>2, <1>3 DEF Clamped
  <1> HIDE DEF level
  <1>5. /\ level # c.level => c.windows + 1 > WarmUp
        /\ level > c.level => v >= Streak
        /\ level < c.level => h >= Streak \/ v >= StressStreak
    BY <1>2, <1>3, <1>4
  <1> QED BY <1>1, <1>2, <1>4, <1>5 DEF v, h

\* Closing a window keeps the counts, and moves the multiplier on evidence.
LEMMA ControlStep ==
  ASSUME ControlInv, [FeedbackNext]_feedbackVars
  PROVE  /\ ControlInv'
         /\ control'.level # control.level => Len(kinds') > WarmUp
         /\ control'.level > control.level => Lately(Streak, "violation")'
         /\ control'.level < control.level =>
               Lately(Streak, "headroom")' \/ Lately(StressStreak, "violation")'
  <1>1. CASE UNCHANGED <<control, kinds>>
    BY <1>1, FeedbackAssumption DEF ControlInv, Ends
  <1>2. ASSUME NEW u \in {"violation", "headroom", "even"}, NEW stress \in BOOLEAN,
               NEW rise \in 1 .. 2, CloseWindow(u, stress, rise)
        PROVE  /\ ControlInv'
               /\ control'.level # control.level => Len(kinds') > WarmUp
               /\ control'.level > control.level => Lately(Streak, "violation")'
               /\ control'.level < control.level =>
                     Lately(Streak, "headroom")' \/ Lately(StressStreak, "violation")'
    <2>1. PICK kind \in Kind : /\ control' = Controlled(control, kind, stress, rise)
                               /\ kinds' = Append(kinds, kind)
      BY <1>2 DEF CloseWindow, Kind
    <2>2. /\ control \in [windows : Nat, violation : Nat, headroom : Nat, level : 0 .. MaxLevel]
          /\ control.windows = Len(kinds) /\ kinds \in Seq(Kind)
          /\ control.violation \in Nat /\ control.headroom \in Nat
          /\ Ends(kinds, control.violation, "violation") /\ Ends(kinds, control.headroom, "headroom")
      BY DEF ControlInv
    <2> DEFINE c == control
               d == Controlled(c, kind, stress, rise)
               t == Append(kinds, kind)
    <2> HIDE DEF c
    <2>3. c \in [windows : Nat, violation : Nat, headroom : Nat, level : 0 .. MaxLevel]
      BY <2>2 DEF c
    <2>4. /\ d \in [windows : Nat, violation : Nat, headroom : Nat, level : 0 .. MaxLevel]
          /\ d.windows = c.windows + 1
          /\ d.violation = IF kind = "violation" THEN c.violation + 1 ELSE 0
          /\ d.headroom = IF kind = "headroom" THEN c.headroom + 1 ELSE 0
          /\ d.level # c.level => d.windows > WarmUp
          /\ d.level > c.level => d.violation >= Streak
          /\ d.level < c.level => d.headroom >= Streak \/ d.violation >= StressStreak
      BY <2>3, ControllerMoves
    <2> HIDE DEF d
    <2>5. t \in Seq(Kind) /\ Len(t) = Len(kinds) + 1
      BY <2>2, AppendProperties
    <2>6. Ends(t, d.violation, "violation") /\ Ends(t, d.headroom, "headroom")
      BY <2>2, <2>4, RunGrows DEF Kind, c
    <2> HIDE DEF t
    <2>7. d.windows = Len(t)
      BY <2>2, <2>4, <2>5 DEF c
    <2>8. control' = d /\ kinds' = t /\ control = c
      BY <2>1 DEF c, d, t
    <2>9. ControlInv'
      BY <2>4, <2>5, <2>6, <2>7, <2>8 DEF ControlInv
    <2>10. /\ Streak \in Nat /\ StressStreak \in Nat
           /\ d.violation \in Nat /\ d.headroom \in Nat
      BY <2>4, FeedbackAssumption
    <2>11. /\ d.level > c.level => Ends(t, Streak, "violation")
           /\ d.level < c.level =>
                 Ends(t, Streak, "headroom") \/ Ends(t, StressStreak, "violation")
      BY <2>4, <2>5, <2>6, <2>10, RunShrinks
    <2>12. /\ d.level > c.level => Lately(Streak, "violation")'
           /\ d.level < c.level =>
                 Lately(Streak, "headroom")' \/ Lately(StressStreak, "violation")'
      <3>1. Len(t) \in Nat
        BY <2>5, LenProperties
      <3> QED BY <2>8, <2>10, <2>11, <3>1 DEF Ends, Lately
    <2> QED BY <2>4, <2>7, <2>8, <2>9, <2>12
  <1>3. CASE ~UNCHANGED <<control, kinds>>
    <2>1. \E u \in {"violation", "headroom", "even"}, s \in BOOLEAN, r \in 1 .. 2 :
             CloseWindow(u, s, r)
      BY <1>3 DEF FeedbackNext, BeginReuse, HitReuse, MissReuse, EndReuse, Work, feedbackVars
    <2> QED BY <1>2, <2>1
  <1> QED BY <1>1, <1>3

\* No window was closed yet.
LEMMA ControlInit == FeedbackInit => ControlInv
  <1> SUFFICES ASSUME FeedbackInit PROVE ControlInv
    OBVIOUS
  <1>1. kinds = <<>> /\ control = [windows |-> 0, violation |-> 0, headroom |-> 0, level |-> 0]
    BY DEF FeedbackInit
  <1> QED BY <1>1, FeedbackAssumption DEF ControlInv, Ends

\* The multiplier moves on evidence only, for every length of streak and of
\* warm-up.
THEOREM MultiplierMovesOnEvidence == FeedbackSpec => MultiplierEarned
  <1> DEFINE A == /\ control'.level # control.level => Len(kinds') > WarmUp
                  /\ control'.level > control.level => Lately(Streak, "violation")'
                  /\ control'.level < control.level =>
                        Lately(Streak, "headroom")' \/ Lately(StressStreak, "violation")'
  <1>1. ControlInv /\ [FeedbackNext]_feedbackVars => ControlInv' /\ [A]_feedbackVars
    BY ControlStep
  <1> HIDE DEF A
  <1>2. FeedbackSpec => [][A]_feedbackVars
    BY <1>1, ControlInit, PTL DEF FeedbackSpec
  <1> QED BY <1>2 DEF MultiplierEarned, A

-----------------------------------------------------------------------------
(* Ghosts. *)

Shadows == [ghosts : [Hash -> Nat \cup {Never}], expirations : SUBSET (Nat \X Hash),
            hits : Nat, misses : Nat]

\* Each ghost has its one expiration.
Remembered(s) ==
  s.expirations = {<<s.ghosts[h], h>> : h \in {h \in Hash : IsGhost(s, h)}}

\* Whether a loss is forgotten at time t.
Old(loss, t) == loss # Never /\ t - loss > Ttl

\* expire_ghosts() forgets the old losses, with their expirations.
LEMMA ExpiredForgets ==
  ASSUME NEW s \in Shadows, Remembered(s), NEW t \in Nat
  PROVE  LET r == Expired(s, t)
         IN  /\ r \in Shadows /\ Remembered(r)
             /\ \A h \in Hash : r.ghosts[h] = IF Old(s.ghosts[h], t) THEN Never ELSE s.ghosts[h]
  <1> DEFINE old == {e \in s.expirations : t > e[1] /\ t - e[1] > Ttl}
             G == [h \in Hash |-> IF \E e \in old : e[2] = h THEN Never ELSE s.ghosts[h]]
             E == s.expirations \ old
             r == Expired(s, t)
  <1>1. r = [ghosts |-> G, expirations |-> E, hits |-> s.hits, misses |-> s.misses]
    <2>1. r = [s EXCEPT !.expirations = E, !.ghosts = G]
      BY DEF Expired
    <2> HIDE DEF G, E, r
    <2> QED BY <2>1 DEF Shadows
  <1>2. \A h \in Hash : s.ghosts[h] \in Nat \cup {Never}
    BY DEF Shadows
  <1>3. \A h \in Hash : (\E e \in old : e[2] = h) <=> Old(s.ghosts[h], t)
    <2>1. ASSUME NEW h \in Hash, NEW e \in old, e[2] = h PROVE Old(s.ghosts[h], t)
      <3>1. PICK g \in Hash : IsGhost(s, g) /\ e = <<s.ghosts[g], g>>
        BY DEF Remembered
      <3>2. g = h /\ e[1] = s.ghosts[h]
        BY <2>1, <3>1
      <3> QED BY <2>1, <3>1, <3>2 DEF Old, IsGhost
    <2>2. ASSUME NEW h \in Hash, Old(s.ghosts[h], t) PROVE \E e \in old : e[2] = h
      <3> DEFINE e == <<s.ghosts[h], h>>
      <3>1. e \in s.expirations /\ e[1] = s.ghosts[h] /\ e[2] = h
        BY <2>2 DEF Old, Remembered, IsGhost
      <3>2. t > s.ghosts[h] /\ t - s.ghosts[h] > Ttl
        BY <1>2, <2>2, FeedbackAssumption DEF Old, Never
      <3> QED BY <3>1, <3>2
    <2> QED BY <2>1, <2>2
  <1>4. \A h \in Hash : G[h] = IF Old(s.ghosts[h], t) THEN Never ELSE s.ghosts[h]
    BY <1>3
  <1>5. E = {<<G[h], h>> : h \in {h \in Hash : G[h] # Never}}
    <2>1. ASSUME NEW e \in E PROVE e \in {<<G[h], h>> : h \in {h \in Hash : G[h] # Never}}
      <3>1. PICK h \in Hash : IsGhost(s, h) /\ e = <<s.ghosts[h], h>>
        BY DEF Remembered
      <3>2. ~Old(s.ghosts[h], t)
        <4>1. ASSUME Old(s.ghosts[h], t) PROVE FALSE
          <5>1. t > s.ghosts[h] /\ t - s.ghosts[h] > Ttl
            BY <1>2, <4>1, FeedbackAssumption DEF Old, Never
          <5>2. e[1] = s.ghosts[h]
            BY <3>1
          <5> QED BY <5>1, <5>2
        <4> QED BY <4>1
      <3>3. G[h] = s.ghosts[h] /\ G[h] # Never
        BY <1>4, <3>1, <3>2 DEF IsGhost
      <3> HIDE DEF G
      <3> QED BY <3>1, <3>3
    <2>2. ASSUME NEW h \in Hash, G[h] # Never PROVE <<G[h], h>> \in E
      <3>1. ~Old(s.ghosts[h], t) /\ G[h] = s.ghosts[h]
        BY <1>4, <2>2
      <3>2. <<s.ghosts[h], h>> \in s.expirations
        BY <2>2, <3>1 DEF Remembered, IsGhost
      <3>3. <<s.ghosts[h], h>> \notin old
        BY <2>2, <3>1 DEF Old
      <3> QED BY <3>1, <3>2, <3>3
    <2> HIDE DEF G, E
    <2> QED BY <2>1, <2>2
  <1>6. G \in [Hash -> Nat \cup {Never}] /\ E \in SUBSET (Nat \X Hash)
        /\ s.hits \in Nat /\ s.misses \in Nat
    BY <1>2, <1>4 DEF Shadows
  <1> HIDE DEF G, E
  <1>7. r \in Shadows
    BY <1>1, <1>6 DEF Shadows
  <1>8. r.ghosts = G /\ r.expirations = E
    BY <1>1
  <1>9. Remembered(r)
    BY <1>5, <1>8 DEF Remembered, IsGhost
  <1> QED BY <1>4, <1>7, <1>8, <1>9

\* record_loss() starts the time of a lost block, and forgets the old losses.
LEMMA RecordedRemembers ==
  ASSUME NEW s \in Shadows, Remembered(s), NEW t \in Nat, NEW lost \in SUBSET Hash
  PROVE  LET r == Recorded(s, lost, t)
         IN  /\ r \in Shadows /\ Remembered(r)
             /\ \A h \in Hash : r.ghosts[h] =
                   IF h \in lost THEN t
                   ELSE IF lost # {} /\ Old(s.ghosts[h], t) THEN Never ELSE s.ghosts[h]
  <1>1. CASE lost = {}
    BY <1>1 DEF Recorded
  <1>2. CASE lost # {}
    <2> DEFINE x == Expired(s, t)
               G == [h \in Hash |-> IF h \in lost THEN t ELSE x.ghosts[h]]
               E == {e \in x.expirations : e[2] \notin lost} \cup {<<t, h>> : h \in lost}
               r == Recorded(s, lost, t)
    <2>1. /\ x \in Shadows /\ Remembered(x)
          /\ \A h \in Hash : x.ghosts[h] = IF Old(s.ghosts[h], t) THEN Never ELSE s.ghosts[h]
      BY ExpiredForgets
    <2>2. r = [x EXCEPT !.ghosts = G, !.expirations = E]
      BY <1>2 DEF Recorded
    <2> HIDE DEF x
    <2>3. r = [ghosts |-> G, expirations |-> E, hits |-> x.hits, misses |-> x.misses]
      <3> HIDE DEF G, E, r
      <3> QED BY <2>1, <2>2 DEF Shadows
    <2>4. G \in [Hash -> Nat \cup {Never}] /\ E \in SUBSET (Nat \X Hash)
          /\ x.hits \in Nat /\ x.misses \in Nat
      BY <2>1 DEF Shadows
    <2>5. \A h \in Hash : G[h] = IF h \in lost THEN t ELSE x.ghosts[h]
      OBVIOUS
    <2>6. E = {<<G[h], h>> : h \in {h \in Hash : G[h] # Never}}
      <3>1. ASSUME NEW e \in E PROVE e \in {<<G[h], h>> : h \in {h \in Hash : G[h] # Never}}
        <4>1. CASE e \in {<<t, h>> : h \in lost}
          <5>1. PICK h \in lost : e = <<t, h>>
            BY <4>1
          <5>2. h \in Hash /\ G[h] = t /\ t # Never
            BY <2>5, <5>1 DEF Never
          <5> HIDE DEF G
          <5> QED BY <5>1, <5>2
        <4>2. CASE e \in x.expirations /\ e[2] \notin lost
          <5>1. PICK h \in Hash : IsGhost(x, h) /\ e = <<x.ghosts[h], h>>
            BY <2>1, <4>2 DEF Remembered
          <5>2. G[h] = x.ghosts[h] /\ G[h] # Never
            BY <2>5, <4>2, <5>1 DEF IsGhost
          <5> HIDE DEF G
          <5> QED BY <5>1, <5>2
        <4> QED BY <4>1, <4>2
      <3>2. ASSUME NEW h \in Hash, G[h] # Never PROVE <<G[h], h>> \in E
        <4>1. CASE h \in lost
          BY <2>5, <4>1
        <4>2. CASE h \notin lost
          <5>1. G[h] = x.ghosts[h]
            BY <2>5, <4>2
          <5>2. <<x.ghosts[h], h>> \in x.expirations
            BY <2>1, <3>2, <5>1 DEF Remembered, IsGhost
          <5> QED BY <4>2, <5>1, <5>2
        <4> QED BY <4>1, <4>2
      <3> HIDE DEF G, E
      <3> QED BY <3>1, <3>2
    <2> HIDE DEF G, E
    <2>7. r \in Shadows /\ r.ghosts = G /\ r.expirations = E
      BY <2>3, <2>4 DEF Shadows
    <2>8. Remembered(r)
      BY <2>6, <2>7 DEF Remembered, IsGhost
    <2> QED BY <1>2, <2>1, <2>5, <2>7, <2>8
  <1> QED BY <1>1, <1>2

\* The prefix that was lost has a length.
LEMMA GhostPrefixType ==
  ASSUME NEW s, NEW path \in Seq(Hash)
  PROVE  GhostPrefix(s, path) \in Nat
  <1> DEFINE P == {i \in DOMAIN path : IsGhost(s, path[i])}
             T == {Len(path) - i : i \in P}
  <1>1. CASE P = {}
    BY <1>1 DEF GhostPrefix
  <1>2. CASE P # {}
    <2>1. Len(path) \in Nat /\ \A i \in P : i \in 1 .. Len(path)
      BY LenProperties
    <2>2. T \in SUBSET Nat /\ T # {}
      BY <1>2, <2>1
    <2>3. PICK x \in T : \A y \in T : x <= y
      BY <2>2, LeastNatural
    <2>4. PICK i \in P : x = Len(path) - i
      BY <2>3
    <2>5. \A j \in P : j <= i
      <3>1. ASSUME NEW j \in P PROVE j <= i
        <4>1. Len(path) - i <= Len(path) - j
          BY <2>3, <2>4
        <4> QED BY <2>1, <4>1
      <3> QED BY <3>1
    <2>6. GhostPrefix(s, path) = CHOOSE k \in P : \A j \in P : j <= k
      BY <1>2 DEF GhostPrefix
    <2> HIDE DEF P
    <2>7. GhostPrefix(s, path) \in P
      BY <2>5, <2>6
    <2> QED BY <2>1, <2>7
  <1> QED BY <1>1, <1>2

Serving == {"access", "admit", "insert", "evict", "store"}
Draining == {"catch_up", "closing"}

\* The time the simulator has come to.
Present == IF pc = "idle" THEN now ELSE req.time

\* A request is served at the time it was accepted with, never before the
\* last; a tick that waits for capacity is due.
TimesExact ==
  /\ pc \in Serving => now = req.time
  /\ pc \in Draining => now <= req.time /\ (frames # <<>> => tick <= req.time)

\* Ghosts are losses; a loss that is no ghost is old by now, and during a
\* request no ghost is.
Recent ==
  /\ \A h \in Hash : IsGhost(shadow, h) => shadow.ghosts[h] = lostAt[h]
  /\ \A h \in Hash : IsGhost(shadow, h) \/ lostAt[h] = Never \/ Old(lostAt[h], Present)
  /\ pc \in Serving => \A h \in Hash : IsGhost(shadow, h) => ~Old(lostAt[h], req.time)

GhostInv ==
  /\ shadow \in Shadows
  /\ request \in [ghost : Nat, prefix : BOOLEAN, hits : Nat]
  /\ lostAt \in [Hash -> Nat \cup {Never}]
  /\ feedback \in Nat
  /\ Remembered(shadow) /\ TimesExact /\ Recent

\* Nothing is lost before something was stored.
LEMMA GhostInit == FeedbackInit => GhostInv
  <1> SUFFICES ASSUME FeedbackInit PROVE GhostInv
    OBVIOUS
  <1>1. /\ shadow = [ghosts |-> [h \in Hash |-> Never], expirations |-> {}, hits |-> 0, misses |-> 0]
        /\ request = [ghost |-> 0, prefix |-> FALSE, hits |-> 0]
        /\ lostAt = [h \in Hash |-> Never] /\ feedback \in Nat /\ pc = "idle"
    BY FeedbackAssumption, SimulatorAssumption DEF FeedbackInit, Init
  <1>2. \A h \in Hash : ~IsGhost(shadow, h)
    BY <1>1 DEF IsGhost
  <1> QED BY <1>1, <1>2 DEF GhostInv, Shadows, Remembered, TimesExact, Recent, Serving, Draining

\* The invariant implies what the run checks.
LEMMA GhostsFollow ==
  ASSUME GhostInv, TypeOK
  PROVE  GhostsExact
  <1>1. /\ \A h \in Hash : lostAt[h] \in Nat \cup {Never}
        /\ req.time \in Nat
    BY DEF GhostInv, TypeOK
  <1>2. shadow.expirations = {<<shadow.ghosts[h], h>> : h \in {h \in Hash : IsGhost(shadow, h)}}
    BY DEF GhostInv, Remembered
  <1>3. \A h \in Hash : IsGhost(shadow, h) => shadow.ghosts[h] = lostAt[h]
    BY DEF GhostInv, Recent
  <1>4. ASSUME pc \in Serving, NEW h \in Hash
        PROVE  lostAt[h] # Never /\ req.time - lostAt[h] <= Ttl <=> IsGhost(shadow, h)
    <2>1. Present = req.time
      BY <1>4 DEF Serving, Present
    <2>2. IsGhost(shadow, h) \/ lostAt[h] = Never \/ Old(lostAt[h], req.time)
      BY <2>1 DEF GhostInv, Recent
    <2>3. IsGhost(shadow, h) => ~Old(lostAt[h], req.time) /\ lostAt[h] # Never
      BY <1>3, <1>4 DEF GhostInv, Recent, IsGhost
    <2> QED BY <1>1, <2>2, <2>3, FeedbackAssumption DEF Old, Never
  <1> QED BY <1>2, <1>3, <1>4 DEF GhostsExact, Serving

Losses == [Hash -> Nat \cup {Never}]

\* A step that records the losses S at t, which has come, and forgets the old
\* ones if f is 1.
Records(S, f, t) ==
  /\ TypeOK /\ Present \in Nat /\ Present' \in Nat /\ Present <= Present'
  /\ S \in SUBSET Hash /\ f \in {0, 1} /\ t \in Nat /\ (S # {} \/ f = 1 => t <= Present)
  /\ shadow' \in Shadows /\ lostAt' \in Losses
  /\ \A h \in Hash : lostAt'[h] = IF h \in S THEN t ELSE lostAt[h]
  /\ \A h \in Hash : shadow'.ghosts[h] =
        IF h \in S THEN t
        ELSE IF f = 1 /\ Old(shadow.ghosts[h], t) THEN Never ELSE shadow.ghosts[h]
  /\ pc' \in Serving =>
        /\ req'.time = Present'
        /\ \/ pc \in Serving /\ req.time = Present /\ Present' = Present
              /\ (S # {} => t = Present)
           \/ f = 1 /\ S = {} /\ t = Present'

\* After such a step the ghosts are still the recent losses.
LEMMA RecentKept ==
  ASSUME GhostInv, NEW S, NEW f, NEW t, Records(S, f, t)
  PROVE  Recent'
  <1> DEFINE g == shadow.ghosts
             g2 == shadow'.ghosts
             l == lostAt
             l2 == lostAt'
             m == Present
             n == Present'
  <1>1. g \in Losses /\ g2 \in Losses /\ l \in Losses /\ l2 \in Losses
    BY DEF GhostInv, Shadows, Losses, Records
  <1>2. /\ \A h \in Hash : g[h] # Never => g[h] = l[h]
        /\ \A h \in Hash : g[h] # Never \/ l[h] = Never \/ Old(l[h], m)
        /\ pc \in Serving => \A h \in Hash : g[h] # Never => ~Old(l[h], req.time)
    BY DEF GhostInv, Recent, IsGhost
  <1>3. /\ \A h \in Hash : l2[h] = IF h \in S THEN t ELSE l[h]
        /\ \A h \in Hash : g2[h] = IF h \in S THEN t
                                   ELSE IF f = 1 /\ Old(g[h], t) THEN Never ELSE g[h]
        /\ m \in Nat /\ n \in Nat /\ m <= n /\ (S # {} \/ f = 1 => t <= m)
        /\ t \in Nat
    BY DEF Records
  <1>4. \/ req'.time = n /\ \/ pc \in Serving /\ req.time = m /\ n = m /\ (S # {} => t = m)
                            \/ f = 1 /\ S = {} /\ t = n
        \/ pc' \notin Serving
    BY DEF Records
  <1> HIDE DEF g, g2, l, l2, m, n
  <1>5. /\ \A h \in Hash : g2[h] # Never => g2[h] = l2[h]
        /\ \A h \in Hash : g2[h] # Never \/ l2[h] = Never \/ Old(l2[h], n)
    <2> SUFFICES ASSUME NEW h \in Hash
                 PROVE  /\ g2[h] # Never => g2[h] = l2[h]
                        /\ g2[h] # Never \/ l2[h] = Never \/ Old(l2[h], n)
      OBVIOUS
    <2>1. /\ g[h] \in Nat \cup {Never} /\ l[h] \in Nat \cup {Never} /\ Ttl \in Nat
          /\ t # Never
      BY <1>1, <1>3, FeedbackAssumption DEF Losses, Never
    <2>2. CASE h \in S
      BY <1>3, <2>1, <2>2
    <2>3. CASE h \notin S /\ f = 1 /\ Old(g[h], t)
      BY <1>2, <1>3, <2>1, <2>3 DEF Old, Never
    <2>4. CASE h \notin S /\ ~(f = 1 /\ Old(g[h], t))
      BY <1>2, <1>3, <2>1, <2>4 DEF Old, Never
    <2> QED BY <2>2, <2>3, <2>4
  <1>6. ASSUME pc' \in Serving, NEW h \in Hash, g2[h] # Never
        PROVE  ~Old(l2[h], req'.time)
    <2>1. g[h] \in Nat \cup {Never} /\ l[h] \in Nat \cup {Never} /\ Ttl \in Nat
      BY <1>1, FeedbackAssumption DEF Losses
    <2>2. CASE h \in S
      <3>1. l2[h] = t /\ t = n /\ req'.time = n
        BY <1>3, <1>4, <1>6, <2>2
      <3> QED BY <1>3, <2>1, <3>1 DEF Old
    <2>3. CASE h \notin S /\ pc \in Serving /\ req.time = m /\ n = m
      <3>1. l2[h] = l[h] /\ req'.time = req.time /\ g[h] # Never
        BY <1>3, <1>4, <1>6, <2>3
      <3> QED BY <1>2, <2>3, <3>1
    <2>4. CASE h \notin S /\ f = 1 /\ t = n
      <3>1. ~Old(g[h], t) /\ g[h] # Never /\ l2[h] = l[h] /\ g[h] = l[h] /\ req'.time = t
        BY <1>2, <1>3, <1>4, <1>6, <2>4
      <3> QED BY <3>1
    <2> QED BY <1>4, <1>6, <2>2, <2>3, <2>4
  <1>7. \A h \in Hash : g2[h] # Never => shadow'.ghosts[h] = lostAt'[h]
    BY <1>5 DEF g2, l2
  <1> QED BY <1>5, <1>6 DEF Recent, IsGhost, g2, l2, n

\* Two records of ghosts with the same ghosts and expirations.
LEMMA SameGhosts ==
  ASSUME NEW r, NEW s, r.ghosts = s.ghosts, r.expirations = s.expirations, Remembered(r)
  PROVE  Remembered(s)
  BY DEF Remembered, IsGhost

\* A window closes: its counts start again, and old losses are forgotten.
LEMMA CloseKeepsGhosts ==
  ASSUME GhostInv, IInv, NEW v \in {"violation", "headroom", "even"}, NEW stress \in BOOLEAN,
         NEW rise \in 1 .. 2, CloseWindow(v, stress, rise)
  PROVE  GhostInv'
  <1>1. TypeOK /\ req.time \in Nat /\ now \in Nat
    BY DEF IInv, TypeOK
  <1>2. /\ pc \in Draining /\ feedback \in Nat /\ feedback <= req.time
        /\ shadow \in Shadows /\ Remembered(shadow) /\ lostAt \in Losses
    BY DEF CloseWindow, FeedbackDue, At, Draining, GhostInv, Losses
  <1>3. /\ UNCHANGED <<up, mem, loc, used, first, last, recency, tick, now, req, served,
                       active, cursor, frames, pc, request, lostAt>>
        /\ feedback' = Advance(feedback, FeedbackPeriod)
        /\ shadow' = [Expired(shadow, feedback) EXCEPT !.hits = 0, !.misses = 0]
    BY DEF CloseWindow, vars
  <1> DEFINE x == Expired(shadow, feedback)
  <1>4. /\ x \in Shadows /\ Remembered(x)
        /\ \A h \in Hash : x.ghosts[h] = IF Old(shadow.ghosts[h], feedback) THEN Never
                                         ELSE shadow.ghosts[h]
    BY <1>2, ExpiredForgets
  <1>5. shadow' = [x EXCEPT !.hits = 0, !.misses = 0]
    BY <1>3
  <1> HIDE DEF x
  <1>6. /\ shadow' \in Shadows /\ shadow'.ghosts = x.ghosts
        /\ shadow'.expirations = x.expirations
    BY <1>4, <1>5 DEF Shadows
  <1>7. Remembered(shadow')
    BY <1>4, <1>6, SameGhosts
  <1>8. Present = req.time /\ Present' = req.time
    BY <1>2, <1>3 DEF Present, Draining
  <1>9. Recent'
    <2>1. pc' \notin Serving
      BY <1>2, <1>3 DEF Serving, Draining
    <2>2. \A h \in Hash : lostAt'[h] = IF h \in {} THEN feedback ELSE lostAt[h]
      BY <1>3
    <2>3. \A h \in Hash : shadow'.ghosts[h] =
             IF h \in {} THEN feedback
             ELSE IF 1 = 1 /\ Old(shadow.ghosts[h], feedback) THEN Never ELSE shadow.ghosts[h]
      BY <1>4, <1>6
    <2>4. {} \in SUBSET Hash /\ 1 \in {0, 1} /\ lostAt' \in Losses
      BY <1>2, <1>3
    <2>5. Records({}, 1, feedback)
      BY <1>1, <1>2, <1>6, <1>8, <2>1, <2>2, <2>3, <2>4 DEF Records
    <2> QED BY <2>5, RecentKept
  <1>10. feedback' \in Nat
    BY <1>2, <1>3, FeedbackAssumption DEF Advance
  <1>11. TimesExact'
    BY <1>3 DEF GhostInv, TimesExact
  <1> QED BY <1>3, <1>6, <1>7, <1>9, <1>10, <1>11 DEF GhostInv

\* A request begins: losses that are old by now are forgotten before it looks.
LEMMA BeginKeepsGhosts ==
  ASSUME GhostInv, IInv, BeginReuse
  PROVE  GhostInv'
  <1>1. TypeOK /\ req.time \in Nat /\ now \in Nat /\ req.path \in Seq(Hash)
    BY DEF IInv, TypeOK
  <1>2. /\ pc = "catch_up" /\ pc' = "access" /\ now' = req.time
        /\ req'.time = req.time /\ req'.path = req.path
        /\ UNCHANGED <<feedback, lostAt>> /\ shadow' = Expired(shadow, req.time)
        /\ request' = [ghost |-> GhostPrefix(shadow', req'.path), prefix |-> TRUE, hits |-> 0]
    BY <1>1 DEF BeginReuse, BeginRequest, At, TypeOK
  <1>3. shadow \in Shadows /\ Remembered(shadow) /\ lostAt \in Losses
    BY DEF GhostInv, Losses
  <1>4. /\ shadow' \in Shadows /\ Remembered(shadow')
        /\ \A h \in Hash : shadow'.ghosts[h] = IF Old(shadow.ghosts[h], req.time) THEN Never
                                               ELSE shadow.ghosts[h]
    BY <1>1, <1>2, <1>3, ExpiredForgets
  <1>5. Present = req.time /\ Present' = req.time
    BY <1>2 DEF Present
  <1>6. Recent'
    <2>1. \A h \in Hash : lostAt'[h] = IF h \in {} THEN req.time ELSE lostAt[h]
      BY <1>2
    <2>2. \A h \in Hash : shadow'.ghosts[h] =
             IF h \in {} THEN req.time
             ELSE IF 1 = 1 /\ Old(shadow.ghosts[h], req.time) THEN Never ELSE shadow.ghosts[h]
      BY <1>4
    <2>3. {} \in SUBSET Hash /\ 1 \in {0, 1} /\ lostAt' \in Losses
      BY <1>2, <1>3
    <2>4. Records({}, 1, req.time)
      BY <1>1, <1>2, <1>4, <1>5, <2>1, <2>2, <2>3 DEF Records
    <2> QED BY <2>4, RecentKept
  <1>7. request' \in [ghost : Nat, prefix : BOOLEAN, hits : Nat]
    BY <1>1, <1>2, GhostPrefixType
  <1>8. TimesExact'
    BY <1>2 DEF TimesExact, Serving, Draining
  <1> QED BY <1>2, <1>4, <1>6, <1>7, <1>8 DEF GhostInv

\* A block is accessed.
LEMMA AccessKeepsGhosts ==
  ASSUME GhostInv, IInv, HitReuse \/ MissReuse
  PROVE  GhostInv'
  <1>1. TypeOK
    BY DEF IInv
  <1>2. /\ pc = "access" /\ pc' \in {"access", "admit", "insert"}
        /\ req'.time = req.time /\ UNCHANGED <<now, feedback, shadow, lostAt>>
        /\ \/ request' = [request EXCEPT !.hits = IF request.prefix THEN @ + 1 ELSE @]
           \/ request' = [request EXCEPT !.prefix = FALSE]
    BY <1>1 DEF HitReuse, MissReuse, MemoryHit, StorageHit, GlobalMiss, AtBlock, At, NextBlock,
                TypeOK
  <1>3. request' \in [ghost : Nat, prefix : BOOLEAN, hits : Nat]
    <2> DEFINE n == IF request.prefix THEN request.hits + 1 ELSE request.hits
    <2>1. request \in [ghost : Nat, prefix : BOOLEAN, hits : Nat] /\ n \in Nat
      BY DEF GhostInv
    <2>2. request' = [request EXCEPT !.hits = n] \/ request' = [request EXCEPT !.prefix = FALSE]
      BY <1>2
    <2> HIDE DEF n
    <2> QED BY <2>1, <2>2
  <1>4. TimesExact'
    BY <1>2 DEF GhostInv, TimesExact, Serving, Draining
  <1>5. Present' = Present
    BY <1>2 DEF Present
  <1>6. Recent'
    BY <1>2, <1>5 DEF GhostInv, Recent, IsGhost, Serving
  <1> QED BY <1>2, <1>3, <1>4, <1>6 DEF GhostInv, Remembered, IsGhost

\* A request ends.
LEMMA EndKeepsGhosts ==
  ASSUME GhostInv, IInv, EndReuse
  PROVE  GhostInv'
  <1>1. TypeOK
    BY DEF IInv
  <1>2. /\ pc = "access" /\ pc' = "idle" /\ UNCHANGED <<now, feedback, lostAt>>
        /\ request' = [ghost |-> 0, prefix |-> FALSE, hits |-> 0]
    BY DEF EndReuse, EndRequest, At
  <1> DEFINE misses == IF request.ghost > request.hits THEN request.ghost - request.hits ELSE 0
  <1> DEFINE a == shadow.hits + request.hits
             b == shadow.misses + misses
  <1>3. a \in Nat /\ b \in Nat /\ shadow \in Shadows
    BY DEF GhostInv, Shadows
  <1>4. shadow' = [shadow EXCEPT !.hits = a, !.misses = b]
    BY DEF EndReuse
  <1> HIDE DEF a, b
  <1>5. /\ shadow' \in Shadows /\ shadow'.ghosts = shadow.ghosts
        /\ shadow'.expirations = shadow.expirations
    BY <1>3, <1>4 DEF Shadows
  <1>6. Present' = Present
    BY <1>2 DEF Present, GhostInv, TimesExact, Serving
  <1>7. Recent'
    BY <1>2, <1>5, <1>6 DEF GhostInv, Recent, IsGhost, Serving
  <1>8. TimesExact'
    BY <1>2 DEF TimesExact, Serving, Draining
  <1>9. Remembered(shadow)'
    BY <1>5 DEF GhostInv, Remembered, IsGhost
  <1> QED BY <1>2, <1>5, <1>7, <1>8, <1>9 DEF GhostInv

\* What a step loses is what the history notes.
LEMMA LostIs ==
  ASSUME TypeOK
  PROVE  Lost = {h \in Hash : Resident(h) /\ h \notin mem' /\ loc'[h] = None}
  BY DEF Lost, Resident, TypeOK

\* When the other steps happen: outside requests nothing is lost; a tick loses
\* at its own time, which has come; a request at its time.
LEMMA WorkTimes ==
  ASSUME IInv, TimesExact, Work
  PROVE  \/ /\ pc \in {"idle", "finished", "closing"} /\ UNCHANGED <<mem, loc>>
            /\ pc' \notin Serving /\ Present <= Present' /\ Present' \in Nat
            /\ pc' \in Draining => now' <= req'.time /\ frames' = <<>>
         \/ /\ pc \in Draining /\ tick <= req.time
            /\ UNCHANGED <<pc, req, now>> /\ (frames' # <<>> => tick' = tick)
         \/ /\ pc \in Serving /\ pc' \in Serving /\ req'.time = req.time /\ now' = now
  <1>1. /\ TypeOK /\ StackShape /\ req.time \in Nat /\ now \in Nat
    BY DEF IInv, TypeOK
  <1>2. CASE Environment
    <2>1. PICK t \in 0 .. MaxTime : Finish(t) \/ \E p \in Paths : Submit(p, t)
      BY <1>2 DEF Environment
    <2>2. /\ pc = "idle" /\ pc' \in Draining /\ UNCHANGED <<mem, loc, now>>
          /\ req'.time = t /\ t >= now /\ frames' = <<>>
      BY <2>1 DEF Finish, Submit, At, NoRequest, treeVars, Draining
    <2>3. t \in Nat
      BY SimulatorAssumption
    <2>4. Present = now /\ Present' = t
      BY <2>2 DEF Present, Draining
    <2> QED BY <1>1, <2>2, <2>3, <2>4 DEF Serving, Draining
  <1>3. CASE Maintenance
    <2>1. PICK i \in IdleAges, a \in PromotionAges :
            IdleTrim(i, a) \/ BackgroundMove(i, a) \/ EndTick(i, a)
      BY <1>3 DEF Maintenance
    <2>2. /\ pc \in Draining /\ tick <= req.time /\ UNCHANGED <<pc, req, now>>
          /\ frames' # <<>> => tick' = tick
      BY <2>1 DEF IdleTrim, BackgroundMove, EndTick, CatchingUp, TickDue, At, Draining, treeVars
    <2> QED BY <2>2
  <1>4. CASE Close
    <2>1. /\ pc = "closing" /\ pc' = "finished" /\ UNCHANGED <<mem, loc, req>>
      BY <1>4 DEF Close, At, treeVars
    <2>2. Present = req.time /\ Present' = req.time
      BY <2>1 DEF Present
    <2> QED BY <1>1, <2>1, <2>2 DEF Serving, Draining
  <1>5. CASE AdmitHit \/ BypassHit
    <2>1. /\ pc = "admit" /\ pc' \in {"insert", "access"} /\ req'.time = req.time /\ now' = now
      BY <1>1, <1>5 DEF AdmitHit, BypassHit, At, NextBlock, TypeOK, treeVars
    <2> QED BY <2>1 DEF Serving
  <1>6. CASE MemoryStep
    <2>1. /\ pc \in {"insert", "evict", "store"} /\ pc' \in {"insert", "access", "evict", "store"}
          /\ req'.time = req.time /\ now' = now
      BY <1>1, <1>6 DEF MemoryStep, Insert, DropVictim, SelectVictim, EvictCopies, EvictDone, Dump,
                        At, NextBlock, TypeOK, treeVars
    <2> QED BY <2>1 DEF Serving
  <1>7. CASE CapacityStep
    <2>1. Pending /\ UNCHANGED <<req, now>>
      BY <1>7 DEF CapacityStep, ReclaimByTrim, ReclaimByMove, GrantDump, GrantMove, GrantPromotion,
                  Grant, RejectDump, RejectPromotion, RejectBackground, Denied, treeVars
    <2>2. pc' = pc \/ (pc' = "store" /\ Caller.then = "dump")
      BY <1>7, <2>1, PendingCases
         DEF CapacityStep, ReclaimByTrim, ReclaimByMove, GrantDump, GrantMove, GrantPromotion,
             Grant, RejectDump, RejectPromotion, RejectBackground, treeVars
    <2>3. frames' # <<>> => tick' = tick
      BY <1>7 DEF CapacityStep, ReclaimByTrim, ReclaimByMove, GrantDump, GrantMove, GrantPromotion,
                  RejectDump, RejectPromotion, RejectBackground, treeVars
    <2>4. pc \in {"evict", "admit"} \cup Draining
      BY <1>1, <2>1 DEF StackShape, Draining
    <2>5. pc \in Draining => pc' = pc /\ tick <= req.time
      BY <1>1, <2>1, <2>2 DEF StackShape, Draining, TimesExact, Pending
    <2> QED BY <2>1, <2>2, <2>3, <2>4, <2>5 DEF Serving
  <1>8. CASE Terminated
    <2>1. pc = "finished" /\ UNCHANGED <<pc, mem, loc, req>>
      BY <1>8 DEF Terminated, vars
    <2>2. Present = req.time /\ Present' = req.time
      BY <2>1 DEF Present
    <2> QED BY <1>1, <2>1, <2>2 DEF Serving, Draining
  <1> QED BY <1>2, <1>3, <1>4, <1>5, <1>6, <1>7, <1>8 DEF Work

\* Every other step records what it loses.
LEMMA WorkKeepsGhosts ==
  ASSUME GhostInv, IInv, Work
  PROVE  GhostInv'
  <1>1. TypeOK /\ req.time \in Nat /\ now \in Nat /\ tick \in Nat
    BY DEF IInv, TypeOK
  <1>2. /\ UNCHANGED <<feedback, request>> /\ shadow' = Recorded(shadow, Lost, Clock)
        /\ lostAt' = [h \in Hash |-> IF Resident(h) /\ h \notin mem' /\ loc'[h] = None
                                     THEN Clock ELSE lostAt[h]]
    BY DEF Work
  <1>3. shadow \in Shadows /\ Remembered(shadow) /\ lostAt \in Losses /\ TimesExact
    BY DEF GhostInv, Losses
  <1>4. /\ Lost \in SUBSET Hash
        /\ \A h \in Hash : lostAt'[h] = IF h \in Lost THEN Clock ELSE lostAt[h]
    BY <1>1, <1>2, LostIs
  <1>5. Clock \in Nat
    BY <1>1 DEF Clock
  <1>6. /\ shadow' \in Shadows /\ Remembered(shadow')
        /\ \A h \in Hash : shadow'.ghosts[h] =
              IF h \in Lost THEN Clock
              ELSE IF Lost # {} /\ Old(shadow.ghosts[h], Clock) THEN Never ELSE shadow.ghosts[h]
    BY <1>2, <1>3, <1>4, <1>5, RecordedRemembers
  <1>7. lostAt' \in Losses
    BY <1>2, <1>3, <1>5 DEF Losses
  <1>8. /\ Present \in Nat /\ Present' \in Nat /\ Present <= Present'
        /\ Lost # {} => Clock <= Present
        /\ pc' \in Serving => /\ req'.time = Present' /\ pc \in Serving /\ req.time = Present
                              /\ Present' = Present /\ (Lost # {} => Clock = Present)
        /\ TimesExact'
    <2>1. CASE /\ pc \in {"idle", "finished", "closing"} /\ UNCHANGED <<mem, loc>>
               /\ pc' \notin Serving /\ Present <= Present' /\ Present' \in Nat
               /\ pc' \in Draining => now' <= req'.time /\ frames' = <<>>
      <3>1. Lost = {}
        BY <1>1, <2>1, LostIs DEF Resident
      <3> QED BY <1>1, <2>1, <3>1 DEF Present, TimesExact
    <2>2. CASE /\ pc \in Draining /\ tick <= req.time
               /\ UNCHANGED <<pc, req, now>> /\ (frames' # <<>> => tick' = tick)
      <3>1. Present = req.time /\ Present' = req.time /\ Clock = tick /\ pc' \notin Serving
        BY <2>2 DEF Present, Draining, Clock, Serving
      <3> QED BY <1>1, <1>3, <2>2, <3>1 DEF TimesExact
    <2>3. CASE pc \in Serving /\ pc' \in Serving /\ req'.time = req.time /\ now' = now
      <3>1. /\ Present = req.time /\ Present' = req.time /\ Clock = req.time
            /\ pc' \notin Draining
        BY <2>3 DEF Present, Draining, Clock, Serving
      <3> QED BY <1>1, <1>3, <2>3, <3>1 DEF TimesExact
    <2> QED BY <1>3, <2>1, <2>2, <2>3, WorkTimes
  <1>9. Recent'
    <2>1. CASE Lost = {}
      <3>1. Records({}, 0, Clock)
        BY <1>1, <1>4, <1>5, <1>6, <1>7, <1>8, <2>1 DEF Records
      <3> QED BY <3>1, RecentKept
    <2>2. CASE Lost # {}
      <3>1. Records(Lost, 1, Clock)
        BY <1>1, <1>4, <1>5, <1>6, <1>7, <1>8, <2>2 DEF Records
      <3> QED BY <3>1, RecentKept
    <2> QED BY <2>1, <2>2
  <1> QED BY <1>2, <1>6, <1>7, <1>8, <1>9 DEF GhostInv, Losses

\* Every step keeps the invariant.
LEMMA GhostStep ==
  ASSUME GhostInv, IInv, [FeedbackNext]_feedbackVars
  PROVE  GhostInv'
  <1>1. CASE UNCHANGED feedbackVars
    <2>1. /\ UNCHANGED <<up, mem, loc, used, first, last, recency, tick, now, req, served,
                         active, cursor, frames, pc>>
          /\ UNCHANGED <<feedback, shadow, request, lostAt>>
      BY <1>1 DEF feedbackVars, vars
    <2>2. Present' = Present
      BY <2>1 DEF Present
    <2> QED BY <2>1, <2>2 DEF GhostInv, Remembered, Recent, TimesExact, IsGhost
  <1> QED BY <1>1, CloseKeepsGhosts, BeginKeepsGhosts, AccessKeepsGhosts, EndKeepsGhosts,
             WorkKeepsGhosts DEF FeedbackNext

\* The ghosts a request meets are the blocks lost no longer ago than the lifetime
\* of a ghost, whatever took their last copy, for every period and lifetime.
THEOREM GhostsAreRecentLosses == FeedbackSpec => []GhostsExact
  <1>1. FeedbackSpec => []IInv
    BY FeedbackKeepsCore, Invariance, PTL
  <1>2. GhostInv /\ IInv /\ [FeedbackNext]_feedbackVars => GhostInv'
    BY GhostStep
  <1>3. FeedbackSpec => []GhostInv
    BY <1>1, <1>2, GhostInit, PTL DEF FeedbackSpec
  <1>4. GhostInv /\ IInv => GhostsExact
    BY GhostsFollow DEF IInv
  <1> QED BY <1>1, <1>3, <1>4, PTL

-----------------------------------------------------------------------------
(* Windows. *)

\* The windows that were closed end by time t, and the open one after it.
InWindow(t) == FeedbackPeriod * control.windows <= t /\ (feedback = 0 \/ feedback > t)

\* The open window ends one period after the last, unless the clock ends before
\* it does; no window was closed before its end came, nor after a tick due
\* later.  A request is served, and a tick waits for capacity, in its window.
\* What the open window counted so far is its reuse, and later ones have none.
WindowInv ==
  /\ control.windows \in Nat /\ tally \in [Windows -> Nat \X Nat]
  /\ \/ feedback = FeedbackPeriod * control.windows + FeedbackPeriod
     \/ feedback = 0 /\ FeedbackPeriod * control.windows + FeedbackPeriod > MaxClock
  /\ Present <= MaxTime /\ FeedbackPeriod * control.windows <= Present
  /\ tick # 0 => FeedbackPeriod * control.windows <= tick
  /\ pc \in Serving => InWindow(req.time)
  /\ pc \in Draining /\ frames # <<>> => tick # 0 /\ InWindow(tick)
  /\ tally[control.windows] = <<shadow.hits, shadow.misses>>
  /\ \A w \in Windows : w > control.windows => tally[w] = <<0, 0>>

\* The window that starts no later than t and ends after it is the one t is in.
LEMMA WindowOf ==
  ASSUME NEW p \in Nat \ {0}, NEW w \in Nat, NEW t \in Nat, p * w <= t, t < p * w + p
  PROVE  t \div p = w
  <1> DEFINE d == t \div p
             r == t % p
  <1>1. d \in Int /\ r \in Int /\ t = p * d + r /\ 0 <= r /\ r < p
    OBVIOUS
  <1> HIDE DEF d, r
  <1>2. ~(d <= w - 1)
    <2>1. ASSUME d <= w - 1 PROVE FALSE
      <3>1. p * d <= p * (w - 1)
        BY <1>1, <2>1
      <3> QED BY <1>1, <3>1
    <2> QED BY <2>1
  <1>3. ~(d >= w + 1)
    <2>1. ASSUME d >= w + 1 PROVE FALSE
      <3>1. p * d >= p * (w + 1)
        BY <1>1, <2>1
      <3> QED BY <1>1, <3>1
    <2> QED BY <2>1
  <1>4. d = w
    BY <1>1, <1>2, <1>3
  <1> QED BY <1>4 DEF d

\* A window that starts no later than the last time is one of those tallied.
LEMMA WindowTallied ==
  ASSUME NEW w \in Nat, FeedbackPeriod * w <= MaxTime
  PROVE  w \in Windows
  <1> DEFINE d == MaxTime \div FeedbackPeriod
             r == MaxTime % FeedbackPeriod
  <1>1. /\ FeedbackPeriod \in Nat \ {0} /\ MaxTime \in Nat
    BY FeedbackAssumption, SimulatorAssumption
  <1>2. d \in Int /\ r \in Int /\ MaxTime = FeedbackPeriod * d + r /\ 0 <= r
        /\ r < FeedbackPeriod
    BY <1>1
  <1> HIDE DEF d, r
  <1>3. ASSUME w >= d + 1 PROVE FALSE
    <2>1. FeedbackPeriod * w >= FeedbackPeriod * (d + 1)
      BY <1>1, <1>2, <1>3
    <2> QED BY <1>1, <1>2, <2>1
  <1>4. w \in 0 .. d
    BY <1>2, <1>3
  <1> QED BY <1>4 DEF Windows, d

\* Times, and the constants they are compared with, are naturals.
LEMMA TimeTypes ==
  ASSUME TypeOK
  PROVE  /\ req.time \in Nat /\ now \in Nat /\ tick \in Nat
         /\ MaxTime \in Nat /\ Period \in Nat /\ MaxClock \in Nat /\ MaxTime <= MaxClock
  <1>1. req \in [path : Seq(Hash), time : Nat, pos : Nat \ {0}, prefix : SUBSET Hash]
    BY DEF TypeOK
  <1>2. req.time \in Nat
    BY <1>1
  <1>3. now \in Nat /\ tick \in Nat
    BY DEF TypeOK
  <1>4. MaxTime \in Nat /\ Period \in Nat /\ MaxClock \in Nat /\ MaxTime <= MaxClock
    <2>1. MaxClock \in Nat /\ Period \in 0 .. MaxClock /\ MaxTime \in 0 .. MaxClock
      BY SimulatorAssumption
    <2> QED BY <2>1
  <1> QED BY <1>2, <1>3, <1>4

\* The invariant implies what the run checks.
LEMMA WindowsFollow ==
  ASSUME WindowInv, IInv
  PROVE  WindowsExact
  <1> DEFINE start == FeedbackPeriod * control.windows
  <1>1. /\ FeedbackPeriod \in Nat \ {0} /\ MaxTime \in Nat /\ MaxClock \in Nat
        /\ MaxTime <= MaxClock /\ req.time \in Nat /\ tick \in Nat /\ TypeOK
    <2>1. TypeOK
      BY DEF IInv
    <2>2. MaxClock \in Nat /\ FeedbackPeriod \in 1 .. MaxClock
      BY <2>1, TimeTypes, FeedbackAssumption
    <2>3. FeedbackPeriod \in Nat \ {0}
      BY <2>2
    <2> QED BY <2>1, <2>3, TimeTypes
  <1>2. /\ control.windows \in Nat /\ start \in Nat
        /\ \/ feedback = start + FeedbackPeriod
           \/ feedback = 0 /\ start + FeedbackPeriod > MaxClock
    <2>1. control.windows \in Nat
      BY DEF WindowInv
    <2>2. start \in Nat
      BY <1>1, <2>1
    <2> QED BY <2>1, <2>2 DEF WindowInv
  <1>3. ASSUME NEW t \in Nat, t <= MaxTime, InWindow(t) PROVE control.windows = t \div FeedbackPeriod
    <2>1. start <= t /\ t < start + FeedbackPeriod
      BY <1>1, <1>2, <1>3 DEF InWindow
    <2> QED BY <1>1, <1>2, <2>1, WindowOf
  <1>4. ASSUME pc \in Serving PROVE control.windows = req.time \div FeedbackPeriod
    <2>1. InWindow(req.time) /\ req.time <= MaxTime
      BY <1>4 DEF WindowInv, Present, Serving
    <2> QED BY <1>1, <1>3, <2>1
  <1>5. ASSUME pc \in Draining, TickDue, ~FeedbackDue
        PROVE  control.windows = tick \div FeedbackPeriod
    <2>1. req.time <= MaxTime /\ tick <= MaxTime /\ start <= tick
      BY <1>1, <1>2, <1>5 DEF WindowInv, Present, Draining, TickDue
    <2>2. InWindow(tick)
      <3>1. CASE frames # <<>>
        BY <1>5, <3>1 DEF WindowInv
      <3>2. CASE frames = <<>>
        <4>1. feedback = 0 \/ feedback > tick
          BY <1>1, <1>2, <1>5, <3>2 DEF FeedbackDue, At, Draining, TickDue
        <4> QED BY <2>1, <4>1 DEF InWindow
      <3> QED BY <3>1, <3>2
    <2> QED BY <1>1, <1>3, <2>1, <2>2
  <1>6. <<shadow.hits, shadow.misses>> = tally[control.windows]
    BY DEF WindowInv
  <1> QED BY <1>4, <1>5, <1>6 DEF WindowsExact, Serving, Draining

\* The first window is open and empty.
LEMMA WindowInit == FeedbackInit => WindowInv
  <1> SUFFICES ASSUME FeedbackInit PROVE WindowInv
    OBVIOUS
  <1>1. /\ control.windows = 0 /\ feedback = FeedbackPeriod /\ tally = [w \in Windows |-> <<0, 0>>]
        /\ shadow.hits = 0 /\ shadow.misses = 0 /\ pc = "idle" /\ now = 0 /\ tick = Period
    BY DEF FeedbackInit, Init
  <1>2. /\ FeedbackPeriod \in Nat /\ Period \in Nat /\ MaxTime \in Nat
        /\ FeedbackPeriod * 0 = 0
    BY FeedbackAssumption, SimulatorAssumption
  <1>3. 0 \in Windows
    BY <1>2, WindowTallied
  <1>4. Present = 0
    BY <1>1 DEF Present
  <1>5. tally \in [Windows -> Nat \X Nat] /\ \A w \in Windows : tally[w] = <<0, 0>>
    BY <1>1
  <1> QED BY <1>1, <1>2, <1>3, <1>4, <1>5 DEF WindowInv, Serving, Draining

\* A window closes: the next one opens where it ends, with no reuse yet.
LEMMA CloseKeepsWindows ==
  ASSUME WindowInv, GhostInv, IInv, ControlInv,
         NEW v \in {"violation", "headroom", "even"}, NEW stress \in BOOLEAN,
         NEW rise \in 1 .. 2, CloseWindow(v, stress, rise)
  PROVE  WindowInv'
  <1> DEFINE w == control.windows
             start == FeedbackPeriod * w
             start2 == FeedbackPeriod * (w + 1)
  <1>1. /\ FeedbackPeriod \in Nat \ {0} /\ MaxTime \in Nat /\ MaxClock \in Nat
        /\ req.time \in Nat /\ tick \in Nat
    <2>1. TypeOK
      BY DEF IInv
    <2>2. MaxClock \in Nat /\ FeedbackPeriod \in 1 .. MaxClock
      BY <2>1, TimeTypes, FeedbackAssumption
    <2>3. FeedbackPeriod \in Nat \ {0}
      BY <2>2
    <2> QED BY <2>1, <2>3, TimeTypes
  <1>2. /\ pc \in Draining /\ frames = <<>> /\ feedback # 0 /\ feedback <= req.time
        /\ TickDue => feedback <= tick
    BY DEF CloseWindow, FeedbackDue, At, Draining
  <1>3. /\ UNCHANGED <<tick, now, req, frames, pc, tally>>
        /\ feedback' = Advance(feedback, FeedbackPeriod)
        /\ shadow' = [Expired(shadow, feedback) EXCEPT !.hits = 0, !.misses = 0]
    BY DEF CloseWindow, vars
  <1>4. control'.windows = w + 1
    BY DEF CloseWindow, Controlled
  <1>5. /\ w \in Nat /\ start \in Nat /\ start2 = start + FeedbackPeriod
        /\ feedback = start2
    BY <1>1, <1>2 DEF WindowInv
  <1>6. shadow'.hits = 0 /\ shadow'.misses = 0
    <2>1. Expired(shadow, feedback) \in Shadows
      BY <1>1, <1>5, ExpiredForgets DEF GhostInv
    <2> QED BY <1>3, <2>1 DEF Shadows
  <1>7. Present = req.time /\ Present' = req.time /\ req.time <= MaxTime
    BY <1>2, <1>3 DEF WindowInv, Present, Draining
  <1>8. start2 <= req.time /\ (tick # 0 => start2 <= tick)
    BY <1>1, <1>2, <1>5 DEF TickDue
  <1>9. w + 1 \in Windows
    BY <1>1, <1>5, <1>7, <1>8, WindowTallied
  <1>10. tally[w + 1] = <<0, 0>> /\ \A x \in Windows : x > w + 1 => tally[x] = <<0, 0>>
    <2>1. \A x \in Windows : x \in Int
      BY DEF Windows
    <2> QED BY <1>5, <1>9, <2>1 DEF WindowInv
  <1>11. \/ feedback' = start2 + FeedbackPeriod
         \/ feedback' = 0 /\ start2 + FeedbackPeriod > MaxClock
    BY <1>1, <1>3, <1>5 DEF Advance
  <1> HIDE DEF start, start2, w
  <1>12. WindowInv' <=>
           /\ w + 1 \in Nat /\ tally \in [Windows -> Nat \X Nat]
           /\ \/ feedback' = start2 + FeedbackPeriod
              \/ feedback' = 0 /\ start2 + FeedbackPeriod > MaxClock
           /\ Present' <= MaxTime /\ start2 <= Present'
           /\ tick # 0 => start2 <= tick
           /\ pc' \in Serving => InWindow(req.time)'
           /\ pc' \in Draining /\ frames' # <<>> => tick # 0 /\ InWindow(tick)'
           /\ tally[w + 1] = <<shadow'.hits, shadow'.misses>>
           /\ \A x \in Windows : x > w + 1 => tally[x] = <<0, 0>>
    BY <1>3, <1>4 DEF WindowInv, w, start2
  <1>13. tally \in [Windows -> Nat \X Nat]
    BY DEF WindowInv
  <1>14. pc' \notin Serving /\ frames' = <<>>
    BY <1>2, <1>3 DEF Serving, Draining
  <1> QED BY <1>5, <1>6, <1>7, <1>8, <1>10, <1>11, <1>12, <1>13, <1>14

\* A request begins: the windows that end by its time were closed.
LEMMA BeginKeepsWindows ==
  ASSUME WindowInv, GhostInv, IInv, BeginReuse
  PROVE  WindowInv'
  <1>1. TypeOK /\ req.time \in Nat /\ feedback \in Nat
    BY DEF IInv, TypeOK, GhostInv
  <1>2. /\ pc = "catch_up" /\ pc' = "access" /\ req'.time = req.time
        /\ UNCHANGED <<tick, feedback, control, tally>> /\ shadow' = Expired(shadow, req.time)
        /\ ~TickDue /\ frames = <<>> /\ ~FeedbackDue
    BY <1>1 DEF BeginReuse, BeginRequest, At, TypeOK
  <1>3. shadow'.hits = shadow.hits /\ shadow'.misses = shadow.misses
    BY <1>2 DEF Expired
  <1>4. Present = req.time /\ Present' = req.time
    BY <1>2 DEF Present
  <1>5. InWindow(req.time)
    BY <1>1, <1>2, <1>4 DEF WindowInv, InWindow, FeedbackDue, At
  <1> QED BY <1>2, <1>3, <1>4, <1>5 DEF WindowInv, InWindow, Serving, Draining

\* A block is accessed, within the window of the request.
LEMMA AccessKeepsWindows ==
  ASSUME WindowInv, IInv, HitReuse \/ MissReuse
  PROVE  WindowInv'
  <1>1. TypeOK
    BY DEF IInv
  <1>2. /\ pc = "access" /\ pc' \in {"access", "admit", "insert"}
        /\ req'.time = req.time /\ UNCHANGED <<tick, feedback, shadow, control, tally>>
    BY <1>1 DEF HitReuse, MissReuse, MemoryHit, StorageHit, GlobalMiss, AtBlock, At, NextBlock,
                TypeOK
  <1>3. Present' = Present /\ pc \in Serving /\ pc' \in Serving
    BY <1>2 DEF Present, Serving
  <1> QED BY <1>2, <1>3 DEF WindowInv, InWindow, Serving, Draining

\* A request ends: what it reports goes to the window its time is in, which is
\* the open one.
LEMMA EndKeepsWindows ==
  ASSUME WindowInv, GhostInv, IInv, EndReuse
  PROVE  WindowInv'
  <1> DEFINE w == control.windows
             misses == IF request.ghost > request.hits THEN request.ghost - request.hits ELSE 0
             a == shadow.hits + request.hits
             b == shadow.misses + misses
  <1>1. TypeOK /\ req.time \in Nat /\ now = req.time
    BY DEF IInv, TypeOK, EndReuse, EndRequest, At, GhostInv, TimesExact, Serving
  <1>2. /\ pc = "access" /\ pc' = "idle"
        /\ UNCHANGED <<tick, now, feedback, control>>
        /\ shadow' = [shadow EXCEPT !.hits = a, !.misses = b]
    BY DEF EndReuse, EndRequest, At
  <1>3. req.time \div FeedbackPeriod = w
    BY <1>2, WindowsFollow DEF WindowsExact
  <1>4. /\ w \in Nat /\ w \in Windows /\ tally \in [Windows -> Nat \X Nat]
        /\ tally[w] = <<shadow.hits, shadow.misses>>
        /\ \A x \in Windows : x > w => tally[x] = <<0, 0>>
    <2>1. FeedbackPeriod * w <= MaxTime
      <3>1. /\ FeedbackPeriod \in Nat /\ MaxTime \in Nat /\ w \in Nat
        BY FeedbackAssumption, SimulatorAssumption DEF WindowInv
      <3>2. Present = req.time /\ Present <= MaxTime /\ FeedbackPeriod * w <= Present
        BY <1>2 DEF WindowInv, Present
      <3> QED BY <1>1, <3>1, <3>2
    <2> QED BY <2>1, WindowTallied DEF WindowInv
  <1>5. a \in Nat /\ b \in Nat
    BY DEF GhostInv, Shadows
  <1>6. tally' = [tally EXCEPT ![w] = <<a, b>>]
    <2>1. tally' = [tally EXCEPT ![w] = <<tally[w][1] + request.hits, tally[w][2] + misses>>]
      BY <1>3 DEF EndReuse
    <2>2. tally[w][1] = shadow.hits /\ tally[w][2] = shadow.misses
      BY <1>4
    <2> QED BY <2>1, <2>2
  <1>7. shadow'.hits = a /\ shadow'.misses = b
    BY <1>2 DEF GhostInv, Shadows
  <1> HIDE DEF a, b
  <1>8. /\ tally' \in [Windows -> Nat \X Nat] /\ tally'[w] = <<shadow'.hits, shadow'.misses>>
        /\ \A x \in Windows : x > w => tally'[x] = <<0, 0>>
    BY <1>4, <1>5, <1>6, <1>7
  <1>9. Present = req.time /\ Present' = req.time
    BY <1>1, <1>2 DEF Present
  <1> QED BY <1>2, <1>8, <1>9 DEF WindowInv, Serving, Draining

\* When the other steps happen, next to WorkTimes: never past the last time; a
\* tick comes later or never again; and a tick starts to wait for capacity only
\* when the windows that end by its time were closed.
LEMMA WorkTicks ==
  ASSUME IInv, TimesExact, WindowInv, Work
  PROVE  /\ Present' <= MaxTime
         /\ tick' # 0 => tick # 0 /\ tick' >= tick
         /\ pc' \in Draining /\ frames' # <<>> /\ frames = <<>> =>
               pc \in Draining /\ TickDue /\ ~FeedbackDue
  <1>1. /\ TypeOK /\ StackShape /\ req.time \in Nat /\ now \in Nat /\ tick \in Nat
        /\ MaxTime \in Nat /\ Period \in Nat /\ MaxClock \in Nat /\ Present <= MaxTime
    <2>1. Present <= MaxTime
      BY DEF WindowInv
    <2>2. TypeOK /\ StackShape
      BY DEF IInv
    <2> QED BY <2>1, <2>2, TimeTypes
  <1>2. CASE Environment
    <2>1. PICK t \in 0 .. MaxTime : Finish(t) \/ \E p \in Paths : Submit(p, t)
      BY <1>2 DEF Environment
    <2>2. /\ UNCHANGED tick /\ pc' \in Draining /\ req'.time = t /\ frames' = <<>>
      BY <2>1 DEF Finish, Submit, At, NoRequest, treeVars, Draining
    <2> QED BY <1>1, <2>2 DEF Present, Draining
  <1>3. CASE Maintenance /\ ~FeedbackDue
    <2>1. PICK i \in IdleAges, a \in PromotionAges :
            IdleTrim(i, a) \/ BackgroundMove(i, a) \/ EndTick(i, a)
      BY <1>3 DEF Maintenance
    <2>2. /\ CatchingUp /\ TickDue /\ pc \in Draining /\ UNCHANGED <<pc, req, now>>
          /\ tick' = tick \/ tick' = Advance(tick, Period)
      BY <2>1 DEF IdleTrim, BackgroundMove, EndTick, CatchingUp, At, Draining, treeVars
    <2>3. ~FeedbackDue
      BY <1>3
    <2>4. Present' = Present
      BY <2>2 DEF Present
    <2> QED BY <1>1, <2>2, <2>3, <2>4 DEF Advance, TickDue
  <1>4. CASE Close \/ Terminated
    <2>1. UNCHANGED <<tick, req>> /\ pc' = "finished" /\ pc \in {"closing", "finished"}
      BY <1>4 DEF Close, Terminated, At, treeVars, vars
    <2> QED BY <1>1, <2>1 DEF Present, Draining
  <1>5. CASE AdmitHit \/ BypassHit \/ MemoryStep
    <2>1. /\ pc \in Serving /\ pc' \in Serving /\ req'.time = req.time /\ UNCHANGED tick
      BY <1>1, <1>5 DEF AdmitHit, BypassHit, MemoryStep, Insert, DropVictim, SelectVictim,
                        EvictCopies, EvictDone, Dump, At, NextBlock, TypeOK, treeVars, Serving
    <2> QED BY <1>1, <2>1 DEF Present, Serving, Draining
  <1>6. CASE CapacityStep
    <2>1. Pending /\ UNCHANGED <<req, now>> /\ (tick' = tick \/ tick' = Advance(tick, Period))
      BY <1>6 DEF CapacityStep, ReclaimByTrim, ReclaimByMove, GrantDump, GrantMove, GrantPromotion,
                  Grant, RejectDump, RejectPromotion, RejectBackground, Denied, treeVars
    <2>2. pc' = pc \/ pc' = "store"
      BY <1>6 DEF CapacityStep, ReclaimByTrim, ReclaimByMove, GrantDump, GrantMove, GrantPromotion,
             Grant, RejectDump, RejectPromotion, RejectBackground, treeVars
    <2>3. pc # "idle" /\ frames # <<>>
      BY <1>1, <2>1 DEF StackShape, Pending
    <2>4. Present' = Present
      BY <2>1, <2>2, <2>3 DEF Present
    <2>5. tick' # 0 => tick' >= tick /\ tick # 0
      <3>1. CASE tick' = tick
        BY <1>1, <3>1
      <3>2. CASE tick' # tick
        <4>1. RejectBackground /\ tick' = Advance(tick, Period)
          BY <1>6, <3>2 DEF CapacityStep, ReclaimByTrim, ReclaimByMove, GrantDump, GrantMove,
                     GrantPromotion, Grant, RejectDump, RejectPromotion, RejectBackground,
                     Denied, treeVars
        <4>2. Caller.then = "background"
          BY <4>1 DEF RejectBackground
        <4>3. pc \in Draining
          BY <1>1, <2>1, <4>2 DEF StackShape, Draining
        <4>4. tick # 0
          BY <2>3, <4>3 DEF WindowInv
        <4>5. tick' = 0 \/ tick' = tick + Period
          BY <4>1 DEF Advance
        <4> QED BY <1>1, <4>4, <4>5
      <3> QED BY <3>1, <3>2
    <2> QED BY <1>1, <2>3, <2>4, <2>5
  <1> QED BY <1>2, <1>3, <1>4, <1>5, <1>6 DEF Work

\* What is lost changes no count of the window.
LEMMA RecordedCounts ==
  ASSUME NEW s \in Shadows, NEW lost, NEW t
  PROVE  Recorded(s, lost, t).hits = s.hits /\ Recorded(s, lost, t).misses = s.misses
  <1> DEFINE x == Expired(s, t)
  <1>1. x.hits = s.hits /\ x.misses = s.misses /\ x = [x EXCEPT !.hits = s.hits]
    BY DEF Expired, Shadows
  <1>2. CASE lost = {}
    BY <1>2 DEF Recorded
  <1>3. CASE lost # {}
    BY <1>1, <1>3 DEF Recorded, Expired, Shadows
  <1> QED BY <1>2, <1>3

\* Every other step: windows neither open nor close.
LEMMA WorkKeepsWindows ==
  ASSUME WindowInv, GhostInv, IInv, Work
  PROVE  WindowInv'
  <1> DEFINE start == FeedbackPeriod * control.windows
  <1>1. /\ TypeOK /\ req.time \in Nat /\ now \in Nat /\ tick \in Nat /\ feedback \in Nat
        /\ TimesExact /\ MaxTime \in Nat /\ Present \in Nat
    <2>1. TypeOK /\ TimesExact /\ feedback \in Nat
      BY DEF IInv, GhostInv
    <2>2. Present \in Nat
      BY <2>1, TimeTypes DEF Present
    <2> QED BY <2>1, <2>2, TimeTypes
  <1>2. UNCHANGED <<feedback, control, tally>> /\ shadow' = Recorded(shadow, Lost, Clock)
    BY DEF Work
  <1>3. shadow'.hits = shadow.hits /\ shadow'.misses = shadow.misses
    BY <1>2, RecordedCounts DEF GhostInv
  <1>4. /\ control.windows \in Nat /\ start \in Int
        /\ start <= Present /\ (tick # 0 => start <= tick)
    BY FeedbackAssumption DEF WindowInv
  <1>5. /\ Present' <= MaxTime
        /\ tick' # 0 => tick # 0 /\ tick' >= tick
        /\ pc' \in Draining /\ frames' # <<>> /\ frames = <<>> =>
              pc \in Draining /\ TickDue /\ ~FeedbackDue
    BY <1>1, WorkTicks
  <1>6. tick' \in Nat
    BY NextIInv, StepIsCoreStep DEF IInv, TypeOK, FeedbackNext
  <1>7. tick' # 0 => start <= tick'
    BY <1>1, <1>4, <1>5, <1>6
  <1>8. /\ start <= Present'
        /\ pc' \in Serving => InWindow(req.time)'
        /\ pc' \in Draining /\ frames' # <<>> => tick' # 0 /\ InWindow(tick)'
    <2> HIDE DEF start
    <2>1. CASE /\ pc \in {"idle", "finished", "closing"} /\ UNCHANGED <<mem, loc>>
               /\ pc' \notin Serving /\ Present <= Present' /\ Present' \in Nat
               /\ pc' \in Draining => now' <= req'.time /\ frames' = <<>>
      BY <1>1, <1>4, <2>1
    <2>2. CASE /\ pc \in Draining /\ tick <= req.time
               /\ UNCHANGED <<pc, req, now>> /\ (frames' # <<>> => tick' = tick)
      <3>1. Present' = Present /\ pc' \notin Serving
        BY <2>2 DEF Present, Draining, Serving
      <3>2. ASSUME frames' # <<>> PROVE tick # 0 /\ InWindow(tick)
        <4>1. CASE frames # <<>>
          BY <2>2, <4>1 DEF WindowInv
        <4>2. CASE frames = <<>>
          <5>1. TickDue /\ ~FeedbackDue
            BY <1>5, <2>2, <3>2, <4>2
          <5>2. tick # 0 /\ (feedback = 0 \/ feedback > tick)
            BY <1>1, <2>2, <4>2, <5>1 DEF FeedbackDue, TickDue, At, Draining
          <5> QED BY <1>4, <5>2 DEF InWindow, start
        <4> QED BY <4>1, <4>2
      <3>3. frames' # <<>> => tick' # 0 /\ InWindow(tick)'
        BY <1>2, <2>2, <3>2 DEF InWindow
      <3> QED BY <1>4, <3>1, <3>3
    <2>3. CASE pc \in Serving /\ pc' \in Serving /\ req'.time = req.time /\ now' = now
      <3>1. Present' = Present /\ InWindow(req.time) /\ pc' \notin Draining
        BY <2>3 DEF Present, Serving, Draining, WindowInv
      <3>2. InWindow(req.time)'
        BY <1>2, <2>3, <3>1 DEF InWindow
      <3> QED BY <1>4, <3>1, <3>2
    <2> QED BY <1>1, <2>1, <2>2, <2>3, WorkTimes
  <1> QED BY <1>2, <1>3, <1>5, <1>7, <1>8 DEF WindowInv

\* Every step keeps the invariant.
LEMMA WindowStep ==
  ASSUME WindowInv, GhostInv, IInv, ControlInv, [FeedbackNext]_feedbackVars
  PROVE  WindowInv'
  <1>1. CASE UNCHANGED feedbackVars
    <2>1. UNCHANGED <<tick, now, req, frames, pc, feedback, shadow, control, tally>>
      BY <1>1 DEF feedbackVars, vars
    <2> QED BY <2>1 DEF WindowInv, InWindow, Present
  <1> QED BY <1>1, CloseKeepsWindows, BeginKeepsWindows, AccessKeepsWindows, EndKeepsWindows,
             WorkKeepsWindows DEF FeedbackNext

\* Windows end in step with requests and ticks, and a window reports the reuse
\* of exactly the requests in it, for every period, up to the end of the clock.
THEOREM WindowsFollowTheClock == FeedbackSpec => []WindowsExact
  <1>1. FeedbackSpec => []IInv
    BY FeedbackKeepsCore, Invariance, PTL
  <1>2. GhostInv /\ IInv /\ [FeedbackNext]_feedbackVars => GhostInv'
    BY GhostStep
  <1>3. FeedbackSpec => []GhostInv
    BY <1>1, <1>2, GhostInit, PTL DEF FeedbackSpec
  <1>4. ControlInv /\ [FeedbackNext]_feedbackVars => ControlInv'
    BY ControlStep
  <1>5. WindowInv /\ GhostInv /\ IInv /\ ControlInv /\ [FeedbackNext]_feedbackVars => WindowInv'
    BY WindowStep
  <1>6. FeedbackSpec => []WindowInv
    BY <1>1, <1>3, <1>4, <1>5, WindowInit, ControlInit, PTL DEF FeedbackSpec
  <1>7. WindowInv /\ IInv => WindowsExact
    BY WindowsFollow
  <1> QED BY <1>1, <1>6, <1>7, PTL
=============================================================================
