---------------------------- MODULE ReplayScoringProofs ----------------------------
(***************************************************************************)
(* The properties of the scored replay, for every number of steps, stride, *)
(* set of transforms and number of draws.  First what every rollout        *)
(* records, as a function of the number of its steps: the lemmas about the *)
(* simulator's observables, and the preservation of RolloutInvariant by    *)
(* every action of EpisodeRollout.  A published episode is then a function *)
(* of its world and its length; the replay is at every moment where the    *)
(* rollout was (ReplayExact); and what is filed for a state is what its    *)
(* loops have gone through (Filed).                                        *)
(***************************************************************************)
EXTENDS ReplayScoring, FiniteSetTheorems, WellFoundedInduction, TLAPS

-----------------------------------------------------------------------------
(* Natural numbers. *)

\* Every nonempty set of natural numbers has a least element.
LEMMA LeastNatural ==
    ASSUME NEW T, T \subseteq Nat, T # {}
    PROVE  \E n \in T : \A m \in T : n <= m
  <1> DEFINE R == {ss \in Nat \X Nat : ss[1] < ss[2]}
  <1>1. IsWellFoundedOn(R, Nat)
    BY NatLessThanWellFounded DEF OpToRel
  <1> HIDE DEF R
  <1>2. PICK x \in T : \A y \in T : ~ (<<y, x>> \in R)
    BY <1>1, WFMin
  <1>3. ASSUME NEW y \in T PROVE x <= y
    <2>1. x \in Nat /\ y \in Nat /\ ~ (<<y, x>> \in R)
      BY <1>2
    <2>. QED  BY <2>1 DEF R
  <1>. QED  BY <1>3

\* Induction: a set that has 0 and, with a number, its successor, has every number.
LEMMA AllNaturals ==
    ASSUME NEW S, 0 \in S, \A n \in Nat : n \in S => n + 1 \in S
    PROVE  Nat \subseteq S
  <1> SUFFICES ASSUME ~ (Nat \subseteq S) PROVE FALSE
    OBVIOUS
  <1>1. PICK n \in Nat \ S : \A m \in Nat \ S : n <= m
    BY LeastNatural
  <1>2. n # 0 /\ n - 1 \in Nat /\ n - 1 \in S
    BY <1>1
  <1>. QED  BY <1>1, <1>2

\* A multiple of the stride, and the multiples around a number.
LEMMA Multiples ==
    ASSUME NEW s \in Nat \ {0}, NEW k \in Nat, NEW c \in Nat
    PROVE  /\ k % s = 0 => k \div s \in Nat /\ k = (k \div s) * s
           /\ (c * s) % s = 0 /\ c * s \in Nat
           /\ k % s = 0 /\ (c - 1) * s < k /\ k <= c * s => k = c * s
           /\ (c + 1) * s = c * s + s
  <1>1. k % s = 0 => k \div s \in Nat /\ k = (k \div s) * s
    OBVIOUS
  <1>2. (c * s) % s = 0 /\ c * s \in Nat
    OBVIOUS
  <1>3. ASSUME NEW q \in Nat, (c - 1) * s < q * s, q * s <= c * s PROVE q = c
    BY <1>3
  <1>4. k % s = 0 /\ (c - 1) * s < k /\ k <= c * s => k = c * s
    BY <1>1, <1>3
  <1>5. (c + 1) * s = c * s + s
    OBVIOUS
  <1>. QED  BY <1>1, <1>2, <1>4, <1>5

-----------------------------------------------------------------------------
(* The simulator and its observables. *)

\* The constants are positive.
LEMMA Parameters ==
    /\ MaxSteps \in Nat /\ MaxSteps > 0 /\ Stride \in Nat \ {0}
    /\ SettleSteps \in Nat /\ SettleSteps > 0 /\ Period \in Nat /\ Period > 0
  BY RolloutAssumption

\* Simulator time advances by a period per step.
LEMMA Times ==
    ASSUME NEW n \in Nat
    PROVE  /\ n * Period \in Nat /\ (n + 1) * Period = n * Period + Period
           /\ Settled \in Nat
  BY Parameters DEF Settled

Runtime(time, edit, phase, seen, step, terminal, hasReset) ==
    [time |-> time, edit |-> edit, phase |-> phase, seen |-> seen,
     step |-> step, terminal |-> terminal, hasReset |-> hasReset]

\* The fields of a runtime.
LEMMA Fields ==
    ASSUME NEW t, NEW e, NEW p, NEW s, NEW n, NEW f, NEW h
    PROVE  /\ Runtime(t, e, p, s, n, f, h).time = t /\ Runtime(t, e, p, s, n, f, h).edit = e
           /\ Runtime(t, e, p, s, n, f, h).phase = p /\ Runtime(t, e, p, s, n, f, h).seen = s
           /\ Runtime(t, e, p, s, n, f, h).step = n /\ Runtime(t, e, p, s, n, f, h).terminal = f
           /\ Runtime(t, e, p, s, n, f, h).hasReset = h
  BY DEF Runtime

\* One control step of the backend, when the sampling timers are in phase.
LEMMA BackendAdvances ==
    ASSUME NEW t \in Nat, NEW e, NEW s, NEW n, NEW f, NEW h
    PROVE  BackendStep(Runtime(t, e, 0, s, n, f, h))
              = Runtime(t + Period, e, 0, [time |-> t + Period, edit |-> e], n, f, h)
  <1> DEFINE r   == Runtime(t, e, 0, s, n, f, h)
             x   == t + Period
             now == [time |-> t + Period, edit |-> e]
             r1  == Runtime(x, e, 0, s, n, f, h)
  <1>1. r.time + Period = x /\ [time |-> r.time + Period - r.phase, edit |-> r.edit] = now
    <2>1. r.time = t /\ r.phase = 0 /\ r.edit = e
      BY Fields
    <2>. QED  BY <2>1, Parameters
  <1> HIDE DEF x, now
  <1>2. [r EXCEPT !.time = x] = r1
    BY DEF Runtime
  <1>3. [r1 EXCEPT !.seen = now] = Runtime(x, e, 0, now, n, f, h)
    BY DEF Runtime
  <1> HIDE DEF r, r1
  <1>4. BackendStep(r) = Runtime(x, e, 0, now, n, f, h)
    BY <1>1, <1>2, <1>3 DEF BackendStep
  <1>. QED  BY <1>4, Zenon DEF r, x, now

\* A fresh runtime after its reset and n settle steps.
Settling(n) ==
    Runtime(n * Period, NoEdit, 0, [time |-> n * Period, edit |-> NoEdit], 0, FALSE, TRUE)

\* One more settle step.
LEMMA SettleStep ==
    ASSUME NEW n \in Nat
    PROVE  BackendStep(Settling(n)) = Settling(n + 1)
  <1>1. n * Period \in Nat /\ (n + 1) * Period = n * Period + Period
    BY Times
  <1> DEFINE t   == n * Period
             no  == FALSE
             yes == TRUE
  <1>2. BackendStep(Runtime(t, NoEdit, 0, [time |-> t, edit |-> NoEdit], 0, no, yes))
          = Runtime(t + Period, NoEdit, 0, [time |-> t + Period, edit |-> NoEdit], 0, no, yes)
    <2>1. t \in Nat
      BY <1>1
    <2> HIDE DEF t, no, yes
    <2>. QED  BY <2>1, BackendAdvances
  <1>. QED  BY <1>1, <1>2, Zenon DEF Settling

\* A reset runtime before its settle steps.
LEMMA SettleFirst == [FreshRuntime EXCEPT !.hasReset = TRUE, !.step = 0] = Settling(0)
  <1>1. FreshRuntime = Runtime(0, NoEdit, 0, [time |-> 0, edit |-> NoEdit], 0, FALSE, FALSE)
    BY DEF FreshRuntime, Runtime
  <1>2. 0 * Period = 0
    BY Parameters
  <1> DEFINE now == [time |-> 0, edit |-> NoEdit]
             no  == FALSE
             yes == TRUE
             r   == Runtime(0, NoEdit, 0, now, 0, no, no)
             r1  == Runtime(0, NoEdit, 0, now, 0, no, yes)
  <1>3. FreshRuntime = r
    BY <1>1
  <1>4. Settling(0) = r1
    BY <1>2 DEF Settling
  <1>7. [FreshRuntime EXCEPT !.hasReset = TRUE, !.step = 0]
           = [FreshRuntime EXCEPT !.hasReset = yes, !.step = 0]
    BY Zenon
  <1> HIDE DEF now, no, yes
  <1>5. [r EXCEPT !.hasReset = yes] = r1
    BY DEF Runtime
  <1>6. [r1 EXCEPT !.step = 0] = r1
    BY DEF Runtime
  <1> HIDE DEF r, r1
  <1>8. [FreshRuntime EXCEPT !.hasReset = yes, !.step = 0] = r1
    BY <1>3, <1>5, <1>6
  <1>. QED  BY <1>4, <1>7, <1>8, Zenon

\* The settle loop of reset, a recursive function, is Settling.
LEMMA SettleLoop ==
    ASSUME NEW h,
           h = [n \in 0 .. SettleSteps |->
                   IF n = 0 THEN [FreshRuntime EXCEPT !.hasReset = TRUE, !.step = 0]
                   ELSE BackendStep(h[n - 1])]
    PROVE  \A n \in 0 .. SettleSteps : h[n] = Settling(n)
  <1> DEFINE S == {n \in Nat : n \in 0 .. SettleSteps => h[n] = Settling(n)}
  <1>1. 0 \in S
    <2>1. h[0] = [FreshRuntime EXCEPT !.hasReset = TRUE, !.step = 0]
      BY Parameters
    <2>. QED  BY <2>1, SettleFirst
  <1>2. ASSUME NEW n \in Nat, n \in S PROVE n + 1 \in S
    <2>1. CASE n + 1 \in 0 .. SettleSteps
      <3>1. n \in 0 .. SettleSteps /\ n + 1 # 0 /\ (n + 1) - 1 = n
        BY <2>1, Parameters
      <3>2. h[n + 1] = BackendStep(h[n])
        BY <2>1, <3>1
      <3>. QED  BY <1>2, <3>1, <3>2, SettleStep
    <2>. QED  BY <2>1
  <1> HIDE DEF S
  <1>3. Nat \subseteq S
    BY <1>1, <1>2, AllNaturals
  <1>4. ASSUME NEW n \in 0 .. SettleSteps PROVE h[n] = Settling(n)
    <2>1. n \in Nat
      BY Parameters
    <2>2. n \in S
      BY <1>3, <2>1
    <2>. QED  BY <2>2, Zenon DEF S
  <1>. QED  BY <1>4, Zenon

\* reset puts a fresh runtime at the episode's first frame.
LEMMA ResetSettles ==
    ASSUME NEW reasons
    PROVE  ResetEpisode(FreshRuntime, reasons)
              = RuntimeAfter(0, "initial_task_success" \in reasons)
  <1> DEFINE loop(h) == h = [n \in 0 .. SettleSteps |->
                   IF n = 0 THEN [FreshRuntime EXCEPT !.hasReset = TRUE, !.step = 0]
                   ELSE BackendStep(h[n - 1])]
             g == [n \in 0 .. SettleSteps |-> Settling(n)]
             settle == CHOOSE h : loop(h)
  <1>1. loop(g)
    <2>1. ASSUME NEW n \in 0 .. SettleSteps
          PROVE  g[n] = IF n = 0 THEN [FreshRuntime EXCEPT !.hasReset = TRUE, !.step = 0]
                        ELSE BackendStep(g[n - 1])
      <3>1. CASE n = 0
        <4>. QED  BY <3>1, SettleFirst
      <3>2. CASE n # 0
        <4>1. n - 1 \in Nat /\ n - 1 \in 0 .. SettleSteps /\ (n - 1) + 1 = n
          BY <3>2, Parameters
        <4>2. g[n - 1] = Settling(n - 1)
          BY <4>1
        <4>. QED  BY <3>2, <4>1, <4>2, SettleStep
      <3>. QED  BY <3>1, <3>2
    <2>. QED  BY <2>1
  <1>2. loop(settle)
    BY <1>1
  <1>3. settle[SettleSteps] = Settling(SettleSteps)
    <2> HIDE DEF settle
    <2>1. \A n \in 0 .. SettleSteps : settle[n] = Settling(n)
      BY <1>2, SettleLoop, Zenon
    <2>2. SettleSteps \in 0 .. SettleSteps
      BY Parameters
    <2>. QED  BY <2>1, <2>2, Zenon
  <1>4. ResetEpisode(FreshRuntime, reasons)
          = [settle[SettleSteps] EXCEPT !.terminal = "initial_task_success" \in reasons]
    BY Zenon DEF ResetEpisode
  <1>5. Settled + 0 * Period = SettleSteps * Period
    BY Parameters DEF Settled
  <1> DEFINE t    == SettleSteps * Period
             now  == [time |-> t, edit |-> NoEdit]
             last == "initial_task_success" \in reasons
             no   == FALSE
             yes  == TRUE
  <1>6. Settling(SettleSteps) = Runtime(t, NoEdit, 0, now, 0, no, yes)
    BY Zenon DEF Settling
  <1>7. RuntimeAfter(0, last) = Runtime(t, NoEdit, 0, now, 0, last, yes)
    BY <1>5, Zenon DEF RuntimeAfter, Moment, Runtime
  <1> HIDE DEF settle, t, now, last, no, yes
  <1>8. [Runtime(t, NoEdit, 0, now, 0, no, yes) EXCEPT !.terminal = last]
                  = Runtime(t, NoEdit, 0, now, 0, last, yes)
    BY DEF Runtime
  <1>9. ResetEpisode(FreshRuntime, reasons) = [settle[SettleSteps] EXCEPT !.terminal = last]
    BY <1>4, Zenon DEF last
  <1>10. ResetEpisode(FreshRuntime, reasons) = RuntimeAfter(0, last)
    BY <1>3, <1>6, <1>7, <1>8, <1>9
  <1>. QED  BY <1>10, Zenon DEF last


\* What a runtime after n steps is made of.
LEMMA AfterSteps ==
    ASSUME NEW n \in Nat, NEW f
    PROVE  /\ RuntimeAfter(n, f) = Runtime(Settled + n * Period, NoEdit, 0, Moment(n), n, f, TRUE)
           /\ Settled + n * Period \in Nat
           /\ Settled + (n + 1) * Period = Settled + n * Period + Period
  <1>1. RuntimeAfter(n, f) = Runtime(Settled + n * Period, NoEdit, 0, Moment(n), n, f, TRUE)
    BY Zenon DEF RuntimeAfter, Runtime
  <1>2. /\ Settled + n * Period \in Nat
        /\ Settled + (n + 1) * Period = Settled + n * Period + Period
    BY Times, Parameters
  <1>. QED  BY <1>1, <1>2

\* The backend takes the runtime after n steps, but for the counter and the flag, to that
\* after n + 1.
LEMMA BackendExact ==
    ASSUME NEW n \in Nat, NEW f
    PROVE  BackendStep(RuntimeAfter(n, f))
              = Runtime(Settled + (n + 1) * Period, NoEdit, 0, Moment(n + 1), n, f, TRUE)
  <1> DEFINE t   == Settled + n * Period
             yes == TRUE
             b   == BackendStep(Runtime(t, NoEdit, 0, Moment(n), n, f, yes))
  <1>1. RuntimeAfter(n, f) = Runtime(t, NoEdit, 0, Moment(n), n, f, yes)
    BY AfterSteps
  <1>2. t \in Nat /\ Settled + (n + 1) * Period = t + Period
    BY AfterSteps
  <1>3. Moment(n + 1) = [time |-> t + Period, edit |-> NoEdit]
    BY <1>2 DEF Moment
  <1> HIDE DEF t, yes
  <1>4. b = Runtime(t + Period, NoEdit, 0, [time |-> t + Period, edit |-> NoEdit], n, f, yes)
    BY <1>2, BackendAdvances
  <1>5. b = Runtime(Settled + (n + 1) * Period, NoEdit, 0, Moment(n + 1), n, f, yes)
    BY <1>2, <1>3, <1>4
  <1>. QED  BY <1>1, <1>5, Zenon DEF b, yes

\* The flags of a step do not depend on the flag before it.
LEMMA FlagsExact ==
    ASSUME NEW n \in Nat, NEW f
    PROVE  StepFlags(RuntimeAfter(n, f)) = FlagsAfter(n)
  <1> DEFINE stepped(g) == [BackendStep(RuntimeAfter(n, g)) EXCEPT !.step = @ + 1]
             no  == FALSE
             yes == TRUE
             t   == Settled + (n + 1) * Period
             over(g) == BackendDone(stepped(g)) \/ CheckSuccess(stepped(g))
             late(g) == stepped(g).step >= MaxSteps /\ ~over(g)
  <1>1. ASSUME NEW g
        PROVE  stepped(g).time = t /\ stepped(g).step = n + 1
    <2>1. BackendStep(RuntimeAfter(n, g)) = Runtime(t, NoEdit, 0, Moment(n + 1), n, g, yes)
      BY BackendExact
    <2> HIDE DEF t, yes
    <2> DEFINE r == Runtime(t, NoEdit, 0, Moment(n + 1), n, g, yes)
    <2>2. r.step = n /\ [r EXCEPT !.step = n + 1].step = n + 1 /\ [r EXCEPT !.step = n + 1].time = t
      BY DEF Runtime
    <2> HIDE DEF r
    <2>3. BackendStep(RuntimeAfter(n, g)) = r
      BY <2>1 DEF r
    <2>. QED  BY <2>2, <2>3
  <1>2. ASSUME NEW g
        PROVE  StepFlags(RuntimeAfter(n, g)) = [terminated |-> over(g), truncated |-> late(g)]
    BY Zenon DEF StepFlags
  <1>3. ASSUME NEW g
        PROVE  over(g) = over(no) /\ late(g) = late(no)
    <2> HIDE DEF t, no
    <2>1. /\ stepped(g).time = t /\ stepped(no).time = t
          /\ stepped(g).step = n + 1 /\ stepped(no).step = n + 1
      BY <1>1
    <2> HIDE DEF stepped
    <2>. QED  BY <2>1 DEF CheckSuccess, BackendDone
  <1> HIDE DEF over, late
  <1>4. StepFlags(RuntimeAfter(n, f)) = StepFlags(RuntimeAfter(n, no))
    <2>1. over(f) = over(no) /\ late(f) = late(no)
      BY <1>3
    <2>2. /\ StepFlags(RuntimeAfter(n, f)) = [terminated |-> over(f), truncated |-> late(f)]
          /\ StepFlags(RuntimeAfter(n, no)) = [terminated |-> over(no), truncated |-> late(no)]
      BY <1>2
    <2>. QED  BY <2>1, <2>2, Zenon
  <1>. QED  BY <1>4, Zenon DEF FlagsAfter, no

\* The flags of the step after n: ended when the episode succeeds, when the backend is
\* done, or at MaxSteps.
LEMMA FlagsAre ==
    ASSUME NEW n \in Nat
    PROVE  /\ FlagsAfter(n) \in [terminated : BOOLEAN, truncated : BOOLEAN]
           /\ FrameAfter(n + 1).success => FlagsAfter(n).terminated
           /\ ~(FlagsAfter(n).terminated /\ FlagsAfter(n).truncated)
           /\ ~Ended(FlagsAfter(n)) => n + 1 < MaxSteps
  <1> DEFINE no   == FALSE
             next == [BackendStep(RuntimeAfter(n, no)) EXCEPT !.step = @ + 1]
             t    == Settled + (n + 1) * Period
             over == BackendDone(next) \/ CheckSuccess(next)
             late == next.step >= MaxSteps /\ ~over
  <1>1. next.time = t /\ next.step = n + 1
    <2> DEFINE yes == TRUE
    <2>1. BackendStep(RuntimeAfter(n, no)) = Runtime(t, NoEdit, 0, Moment(n + 1), n, no, yes)
      BY BackendExact
    <2> HIDE DEF t, yes, no
    <2> DEFINE r == Runtime(t, NoEdit, 0, Moment(n + 1), n, no, yes)
    <2>2. r.step = n /\ [r EXCEPT !.step = n + 1].step = n + 1 /\ [r EXCEPT !.step = n + 1].time = t
      BY DEF Runtime
    <2> HIDE DEF r
    <2>3. BackendStep(RuntimeAfter(n, no)) = r
      BY <2>1 DEF r
    <2>. QED  BY <2>2, <2>3
  <1>2. FlagsAfter(n) = [terminated |-> over, truncated |-> late]
    BY Zenon DEF FlagsAfter, StepFlags
  <1>3. over \in BOOLEAN /\ late \in BOOLEAN /\ (late <=> n + 1 >= MaxSteps /\ ~over)
    <2> HIDE DEF next
    <2>. QED  BY <1>1 DEF BackendDone, CheckSuccess
  <1>4. FrameAfter(n + 1).success => over
    <2>1. RuntimeAfter(n + 1, FALSE).time = t
      BY DEF RuntimeAfter
    <2>2. FrameAfter(n + 1).success = CheckSuccess(RuntimeAfter(n + 1, FALSE))
      BY DEF FrameAfter, TraceFrame
    <2> HIDE DEF next, t
    <2>. QED  BY <1>1, <2>1, <2>2 DEF CheckSuccess
  <1> HIDE DEF over, late
  <1>5. FlagsAfter(n).terminated = over /\ FlagsAfter(n).truncated = late
    BY <1>2
  <1>6. FlagsAfter(n) \in [terminated : BOOLEAN, truncated : BOOLEAN]
    <2>1. \A x, y \in BOOLEAN : [terminated |-> x, truncated |-> y]
                                   \in [terminated : BOOLEAN, truncated : BOOLEAN]
      OBVIOUS
    <2>2. over \in BOOLEAN /\ late \in BOOLEAN
      BY <1>3, Zenon
    <2>3. [terminated |-> over, truncated |-> late] \in [terminated : BOOLEAN, truncated : BOOLEAN]
      BY <2>1, <2>2
    <2>. QED  BY <1>2, <2>3, Zenon
  <1>7. ~Ended(FlagsAfter(n)) => n + 1 < MaxSteps
    BY <1>3, <1>5, Parameters DEF Ended
  <1>8. ~(FlagsAfter(n).terminated /\ FlagsAfter(n).truncated)
    BY <1>3, <1>5
  <1>9. FrameAfter(n + 1).success => FlagsAfter(n).terminated
    BY <1>4, <1>5
  <1>. QED  BY <1>6, <1>7, <1>8, <1>9

\* A step takes the runtime after n steps to that after n + 1.
LEMMA StepExact ==
    ASSUME NEW n \in Nat, NEW f
    PROVE  StepEpisode(RuntimeAfter(n, f)) = RuntimeAfter(n + 1, Ended(FlagsAfter(n)))
  <1> DEFINE yes  == TRUE
             t    == Settled + (n + 1) * Period
             now  == Moment(n + 1)
             over == Ended(FlagsAfter(n))
             r    == Runtime(t, NoEdit, 0, now, n, f, yes)
             r1   == Runtime(t, NoEdit, 0, now, n + 1, f, yes)
             last == StepFlags(RuntimeAfter(n, f)).terminated
                        \/ StepFlags(RuntimeAfter(n, f)).truncated
  <1>1. BackendStep(RuntimeAfter(n, f)) = r
    BY BackendExact
  <1>2. last = over
    BY FlagsExact DEF Ended
  <1>3. RuntimeAfter(n + 1, over) = Runtime(t, NoEdit, 0, now, n + 1, over, yes)
    BY Zenon DEF RuntimeAfter, Runtime
  <1>4. StepEpisode(RuntimeAfter(n, f))
          = [BackendStep(RuntimeAfter(n, f)) EXCEPT !.step = @ + 1, !.terminal = last]
    BY Zenon DEF StepEpisode
  <1> HIDE DEF yes, t, now, over, last
  <1>5. r.step = n /\ [r EXCEPT !.step = n + 1] = r1
    BY DEF Runtime
  <1>6. [r1 EXCEPT !.terminal = over] = Runtime(t, NoEdit, 0, now, n + 1, over, yes)
    BY DEF Runtime
  <1> HIDE DEF r, r1
  <1>7. StepEpisode(RuntimeAfter(n, f)) = RuntimeAfter(n + 1, over)
    BY <1>1, <1>2, <1>3, <1>4, <1>5, <1>6
  <1>. QED  BY <1>7, Zenon DEF over

\* What is recorded of a runtime after n steps is the n-th frame.
LEMMA FrameExact ==
    ASSUME NEW n \in Nat, NEW f
    PROVE  /\ TraceFrame(RuntimeAfter(n, f), RuntimeAfter(n, f).seen) = FrameAfter(n)
           /\ FrameAfter(n) \in [step : Nat, time : Nat, success : BOOLEAN,
                                 raw : [time : Nat, edit : {NoEdit}]]
           /\ FrameAfter(n).step = n /\ FrameAfter(n).raw = Moment(n)
           /\ FrameAfter(n).time = Settled + n * Period
  <1> DEFINE t   == Settled + n * Period
             won == CheckSuccess(RuntimeAfter(n, FALSE))
  <1>1. t \in Nat /\ Moment(n) = [time |-> t, edit |-> NoEdit]
    BY AfterSteps DEF Moment, Edited
  <1>2. ASSUME NEW g
        PROVE  /\ RuntimeAfter(n, g).step = n /\ RuntimeAfter(n, g).time = t
               /\ RuntimeAfter(n, g).seen = Moment(n)
    BY DEF RuntimeAfter
  <1>3. CheckSuccess(RuntimeAfter(n, f)) = won
    <2> HIDE DEF t
    <2>1. RuntimeAfter(n, f).time = t /\ RuntimeAfter(n, FALSE).time = t
      BY <1>2
    <2>. QED  BY <2>1 DEF CheckSuccess
  <1>4. FrameAfter(n) = [step |-> n, time |-> t, raw |-> Moment(n), success |-> won]
    <2>1. FrameAfter(n) = [step |-> RuntimeAfter(n, FALSE).step, time |-> RuntimeAfter(n, FALSE).time,
                           raw |-> Moment(n), success |-> won]
      BY Zenon DEF FrameAfter, TraceFrame
    <2>2. RuntimeAfter(n, FALSE).step = n /\ RuntimeAfter(n, FALSE).time = t
      BY <1>2
    <2> HIDE DEF t, won
    <2>. QED  BY <2>1, <2>2
  <1>5. TraceFrame(RuntimeAfter(n, f), RuntimeAfter(n, f).seen)
           = [step |-> n, time |-> t, raw |-> Moment(n), success |-> won]
    <2>1. TraceFrame(RuntimeAfter(n, f), RuntimeAfter(n, f).seen)
            = [step |-> RuntimeAfter(n, f).step, time |-> RuntimeAfter(n, f).time,
               raw |-> RuntimeAfter(n, f).seen, success |-> CheckSuccess(RuntimeAfter(n, f))]
      BY Zenon DEF TraceFrame
    <2>2. /\ RuntimeAfter(n, f).step = n /\ RuntimeAfter(n, f).time = t
          /\ RuntimeAfter(n, f).seen = Moment(n)
      BY <1>2
    <2> HIDE DEF t, won
    <2>. QED  BY <1>3, <2>1, <2>2
  <1>6. won \in BOOLEAN
    BY DEF CheckSuccess
  <1> HIDE DEF t, won
  <1>7. TraceFrame(RuntimeAfter(n, f), RuntimeAfter(n, f).seen) = FrameAfter(n)
    BY <1>4, <1>5
  <1>8. FrameAfter(n) \in [step : Nat, time : Nat, success : BOOLEAN,
                           raw : [time : Nat, edit : {NoEdit}]]
    BY <1>1, <1>4, <1>6
  <1>9. FrameAfter(n).step = n /\ FrameAfter(n).raw = Moment(n) /\ FrameAfter(n).time = t
    BY <1>4
  <1>. QED  BY <1>7, <1>8, <1>9 DEF t

\* A forced read leaves the runtime as it was.
LEMMA ForcedReadSpares ==
    ASSUME NEW n \in Nat, NEW f, NEW e
    PROVE  LET edited == Edited(RuntimeAfter(n, f), e) IN
           /\ AfterForcedRead(edited) = edited
           /\ ForcedObservation(edited) = Edited(Moment(n), e)
  <1> DEFINE t    == Settled + n * Period
             yes  == TRUE
             now  == Moment(n)
             zero == 0
             step == (0 + 1) % Period
             r    == Runtime(t, e, zero, now, n, f, yes)
             shown == [time |-> t, edit |-> e]
             edited == Edited(RuntimeAfter(n, f), e)
  <1>1. RuntimeAfter(n, f) = Runtime(t, NoEdit, zero, now, n, f, yes)
    BY AfterSteps
  <1>2. shown = Edited(Moment(n), e)
    BY AfterSteps DEF Moment, Edited
  <1> HIDE DEF t, yes, now, zero, shown, step
  <1>3. edited = r
    BY <1>1 DEF Runtime, Edited
  <1>4. r.seen = now /\ r.phase = zero /\ r.time = t /\ r.edit = e
    BY DEF Runtime
  <1>5. Sim(r) = shown
    BY <1>4 DEF Sim, shown
  <1> DEFINE r1 == Runtime(t, e, zero, shown, n, f, yes)
             r2 == Runtime(t, e, step, shown, n, f, yes)
             r3 == Runtime(t, e, step, now, n, f, yes)
  <1>6. [r EXCEPT !.seen = shown] = r1 /\ [r1 EXCEPT !.phase = step] = r2 /\ r1.phase = zero
    BY DEF Runtime
  <1>7. [r2 EXCEPT !.seen = now] = r3 /\ [r3 EXCEPT !.phase = zero] = r /\ r2.seen = shown
    BY DEF Runtime
  <1>8. (zero + 1) % Period = step
    BY DEF zero, step
  <1> HIDE DEF r, r1, r2, r3, edited
  <1>9. BackendForcedRead(r) = r2
    BY <1>4, <1>5, <1>6, <1>8 DEF BackendForcedRead
  <1>10. AfterForcedRead(r) = r
    BY <1>4, <1>7, <1>9 DEF AfterForcedRead
  <1>11. ForcedObservation(r) = shown
    BY <1>7, <1>9 DEF ForcedObservation
  <1>12. /\ AfterForcedRead(edited) = edited
         /\ ForcedObservation(edited) = Edited(Moment(n), e)
    BY <1>2, <1>3, <1>10, <1>11
  <1>. QED  BY <1>12, Zenon DEF edited

-----------------------------------------------------------------------------
(* The rollout. *)

\* What is recorded of n steps depends on the world, which no action changes.
LEMMA WorldStays ==
    ASSUME world' = world
    PROVE  /\ \A n : FrameAfter(n)' = FrameAfter(n)
           /\ \A n : FlagsAfter(n)' = FlagsAfter(n)
  BY DEF FrameAfter, FlagsAfter, TraceFrame, StepFlags, CheckSuccess, BackendDone, RuntimeAfter,
         Moment, BackendStep, Settled

\* The records stay true as long as nothing is recorded.
LEMMA RecordsStay ==
    ASSUME world' = world, traj' = traj
    PROVE  /\ StepsRecorded => StepsRecorded'
           /\ StepsCaptured => StepsCaptured'
           /\ Taken' = Taken
           /\ Status' = Status
  <1>1. StepsRecorded => StepsRecorded'
    BY WorldStays DEF StepsRecorded, Taken, Ended
  <1>2. StepsCaptured => StepsCaptured' /\ Taken' = Taken
    BY DEF StepsCaptured, Taken, Strided
  <1>3. Taken' = Taken /\ Status' = Status
    BY DEF Taken, Status, LastFlags
  <1>. QED  BY <1>1, <1>2, <1>3

\* The strided steps of no step, and of one step more.
LEMMA StridedGrows ==
    /\ Strided(0) = {} /\ Cardinality(Strided(0)) = 0
    /\ \A n \in Nat :
          /\ IsFiniteSet(Strided(n)) /\ Cardinality(Strided(n)) \in Nat
          /\ Cardinality(Strided(n + 1)) = IF n % Stride = 0 THEN Cardinality(Strided(n)) + 1
                                           ELSE Cardinality(Strided(n))
  <1>1. Strided(0) = {}
    BY DEF Strided
  <1>2. Cardinality(Strided(0)) = 0
    BY <1>1, FS_EmptySet
  <1>3. ASSUME NEW n \in Nat
        PROVE  /\ IsFiniteSet(Strided(n)) /\ Cardinality(Strided(n)) \in Nat
               /\ Cardinality(Strided(n + 1)) = IF n % Stride = 0 THEN Cardinality(Strided(n)) + 1
                                                ELSE Cardinality(Strided(n))
    <2>1. IsFiniteSet(0 .. n - 1)
      BY FS_Interval
    <2>2. IsFiniteSet(Strided(n))
      BY <2>1, FS_Subset DEF Strided
    <2>3. Cardinality(Strided(n)) \in Nat
      BY <2>2, FS_CardinalityType
    <2>4. CASE n % Stride = 0
      <3>1. Strided(n + 1) = Strided(n) \cup {n} /\ n \notin Strided(n)
        BY <2>4 DEF Strided
      <3>. QED  BY <2>2, <2>3, <2>4, <3>1, FS_AddElement
    <2>5. CASE n % Stride # 0
      <3>1. Strided(n + 1) = Strided(n)
        BY <2>5 DEF Strided
      <3>. QED  BY <2>2, <2>3, <2>5, <3>1
    <2>. QED  BY <2>4, <2>5
  <1>. QED  BY <1>1, <1>2, <1>3

\* The rollout starts with nothing recorded, its runtime fresh and its model uninstrumented.
LEMMA RolloutStarts == RolloutInit => RolloutInvariant
  BY DEF RolloutInit, RolloutInvariant, AtStart, FreshRuntime

\* reset.
LEMMA ResetRecorded == RolloutInvariant /\ RolloutReset => RolloutInvariant'
  <1> SUFFICES ASSUME RolloutInvariant, RolloutReset PROVE RolloutInvariant'
    OBVIOUS
  <1> DEFINE won == "initial_task_success" \in world.reasons
  <1>1. /\ rpc = "start" /\ world' = world /\ model' = model /\ selected' = selected
        /\ artifact' = artifact /\ runtime' = ResetEpisode(runtime, world.reasons)
        /\ traj' = [traj EXCEPT !.frames = <<TraceFrame(runtime', runtime'.seen)>>]
        /\ rpc' = IF world.reasons = {} THEN "seed" ELSE "retry"
    BY DEF RolloutReset
  <1>2. AtStart /\ world \in Worlds /\ artifact = NoArtifact
    BY <1>1 DEF RolloutInvariant
  <1>3. runtime' = RuntimeAfter(0, won)
    BY <1>1, <1>2, ResetSettles DEF AtStart
  <1>4. TraceFrame(runtime', runtime'.seen) = FrameAfter(0)'
    <2>1. TraceFrame(RuntimeAfter(0, won), RuntimeAfter(0, won).seen) = FrameAfter(0)
      BY FrameExact
    <2>2. TraceFrame(runtime', runtime'.seen) = FrameAfter(0)
      BY <1>3, <2>1, Zenon
    <2>. QED  BY <1>1, <2>2, WorldStays
  <1>5. /\ traj'.frames = <<FrameAfter(0)'>> /\ traj'.actions = << >> /\ traj'.flags = << >>
        /\ traj'.captured = << >>
    BY <1>1, <1>2, <1>4 DEF AtStart
  <1>6. Taken' = 0
    BY <1>5 DEF Taken
  <1>7. StepsRecorded'
    <2>1. FrameAfter(0)' \in [step : Nat, time : Nat, success : BOOLEAN,
                              raw : [time : Nat, edit : {NoEdit}]]
      BY <1>1, FrameExact, WorldStays
    <2>. QED  BY <1>5, <1>6, <2>1 DEF StepsRecorded
  <1>8. StepsCaptured'
    BY <1>5, <1>6, StridedGrows, Parameters DEF StepsCaptured
  <1>9. RunsCounted'
    BY <1>1, <1>2, <1>5, <1>6 DEF RunsCounted, AtStart, Uninstrumented
  <1>10. /\ runtime' = RuntimeAfter(0, runtime'.terminal) /\ runtime'.terminal \in BOOLEAN
         /\ runtime'.phase = 0
    BY <1>3 DEF RuntimeAfter
  <1>11. UnderWay'
    BY <1>1, <1>6, <1>7, <1>8, <1>9, <1>10 DEF UnderWay, RuntimeAfter, Moment, Settled
  <1>. QED  BY <1>1, <1>2, <1>10, <1>11 DEF RolloutInvariant

\* The retry of an invalid reset, the seed, and a failure record nothing.
LEMMA QuietRecorded ==
    RolloutInvariant /\ (RolloutRetry \/ RolloutSeed \/ RolloutFail) => RolloutInvariant'
  <1> SUFFICES ASSUME RolloutInvariant, RolloutRetry \/ RolloutSeed \/ RolloutFail
               PROVE  RolloutInvariant'
    OBVIOUS
  <1>1. /\ world' = world /\ traj' = traj /\ runtime' = runtime /\ model' = model
        /\ selected' = selected /\ artifact' = artifact
        /\ \/ rpc = "retry" /\ rpc' = "publish"
           \/ rpc = "seed" /\ rpc' = "select"
           \/ rpc \in {"start", "retry", "select", "step"} /\ rpc' = "failed"
    BY DEF RolloutRetry, RolloutSeed, RolloutFail
  <1>2. CASE rpc' = "failed"
    BY <1>1, <1>2 DEF RolloutInvariant
  <1>3. CASE rpc' # "failed"
    <2>1. UnderWay
      BY <1>1, <1>3 DEF RolloutInvariant
    <2>2. StepsRecorded' /\ StepsCaptured' /\ Taken' = Taken
      BY <1>1, <2>1, RecordsStay DEF UnderWay
    <2>3. RunsCounted'
      BY <1>1, <1>3, <2>1, <2>2 DEF RunsCounted, UnderWay
    <2>4. runtime' = RuntimeAfter(Taken', runtime'.terminal) /\ runtime'.terminal \in BOOLEAN
      BY <1>1, <2>1, <2>2 DEF UnderWay, RuntimeAfter, Moment, Settled
    <2>5. Taken \in Nat
      BY <2>1 DEF UnderWay, StepsRecorded, Taken
    <2>6. UnderWay'
      BY <1>1, <1>3, <2>1, <2>2, <2>3, <2>4, <2>5 DEF UnderWay
    <2>. QED  BY <1>1, <1>3, <2>6 DEF RolloutInvariant
  <1>. QED  BY <1>2, <1>3

\* A policy call, instrumented at the strided steps.
LEMMA SelectRecorded == RolloutInvariant /\ SelectAction => RolloutInvariant'
  <1> SUFFICES ASSUME RolloutInvariant, SelectAction PROVE RolloutInvariant'
    OBVIOUS
  <1>1. /\ rpc = "select" /\ rpc' \in {"step", "failed"}
        /\ world' = world /\ traj' = traj /\ runtime' = runtime /\ artifact' = artifact
    BY DEF SelectAction
  <1>2. CASE rpc' = "failed"
    BY <1>1, <1>2 DEF RolloutInvariant
  <1>3. CASE rpc' = "step"
    <2>1. UnderWay
      BY <1>1 DEF RolloutInvariant
    <2>2. StepsRecorded' /\ StepsCaptured' /\ Taken' = Taken
      BY <1>1, <2>1, RecordsStay DEF UnderWay
    <2>3. Taken \in Nat /\ Len(traj.frames) = Taken + 1 /\ traj.frames[Taken + 1] = FrameAfter(Taken)
      <3>1. Taken \in Nat /\ Len(traj.frames) = Taken + 1
        BY <2>1 DEF UnderWay, StepsRecorded, Taken
      <3>2. Taken + 1 \in 1 .. Taken + 1 /\ (Taken + 1) - 1 = Taken
        BY <3>1
      <3>3. traj.frames[Taken + 1] = FrameAfter((Taken + 1) - 1)
        BY <2>1, <3>2, Zenon DEF UnderWay, StepsRecorded
      <3>. QED  BY <3>1, <3>2, <3>3
    <2>4. ScoreState <=> Taken % Stride = 0
      BY <2>3, FrameExact DEF ScoreState
    <2>5. /\ model = [run |-> Len(traj.captured) - 1, calls |-> model.calls,
                      records |-> model.records]
          /\ Len(traj.captured) \in Nat
      BY <1>1, <2>1 DEF UnderWay, RunsCounted, StepsCaptured
    <2>6. RunsCounted'
      <3>1. CASE Taken % Stride = 0
        <4>1. model' = Instrumented(Cleared(model)) /\ selected' = [run |-> model'.run, captured |-> TRUE]
          BY <2>4, <3>1 DEF SelectAction
        <4>2. Cleared(model).run = Len(traj.captured) - 1
          BY <2>5 DEF Cleared
        <4>3. model' = [run |-> Len(traj.captured), calls |-> model'.calls, records |-> model'.records]
          BY <2>5, <4>1, <4>2 DEF Instrumented
        <4>. QED  BY <1>1, <1>3, <2>2, <3>1, <4>1, <4>3 DEF RunsCounted
      <3>2. CASE Taken % Stride # 0
        <4>1. model' = model /\ selected' = NoCall
          BY <2>4, <3>2 DEF SelectAction
        <4>. QED  BY <1>1, <2>2, <2>5, <3>2, <4>1 DEF RunsCounted
      <3>. QED  BY <3>1, <3>2
    <2>7. runtime' = RuntimeAfter(Taken', runtime'.terminal) /\ runtime'.terminal \in BOOLEAN
      BY <1>1, <2>1, <2>2 DEF UnderWay, RuntimeAfter, Moment, Settled
    <2>8. UnderWay'
      BY <1>1, <1>3, <2>1, <2>2, <2>3, <2>6, <2>7 DEF UnderWay
    <2>. QED  BY <1>1, <1>3, <2>8 DEF RolloutInvariant
  <1>. QED  BY <1>1, <1>2, <1>3

\* A step of the episode records its frame, its flags and the capture of the call before.
LEMMA StepRecorded == RolloutInvariant /\ StepAction => RolloutInvariant'
  <1> SUFFICES ASSUME RolloutInvariant, StepAction PROVE RolloutInvariant'
    OBVIOUS
  <1> DEFINE n      == Taken
             c      == Len(traj.captured)
             frames == Append(traj.frames, TraceFrame(runtime', runtime'.seen))
  <1>1. /\ rpc = "step" /\ world' = world /\ model' = model /\ artifact' = artifact
        /\ runtime' = StepEpisode(runtime) /\ selected' = NoCall
        /\ rpc' = IF runtime'.terminal THEN "publish" ELSE "select"
        /\ traj'.frames = frames /\ traj'.actions = Append(traj.actions, runtime.step)
        /\ traj'.flags = Append(traj.flags, StepFlags(runtime))
        /\ traj'.captured = IF selected.captured
                            THEN Append(traj.captured,
                                    [step |-> CaptureStep(frames), run |-> selected.run])
                            ELSE traj.captured
    BY DEF StepAction
  <1>2. UnderWay /\ world \in Worlds /\ artifact = NoArtifact
    BY <1>1 DEF RolloutInvariant
  <1>3. /\ n \in Nat /\ StepsRecorded /\ StepsCaptured /\ RunsCounted
        /\ runtime = RuntimeAfter(n, runtime.terminal)
        /\ world.reasons = {}
        /\ n > 0 => ~Ended(traj.flags[n])
    BY <1>1, <1>2 DEF UnderWay, StepsRecorded, Taken
  <1>4. /\ runtime' = RuntimeAfter(n + 1, Ended(FlagsAfter(n)))
        /\ StepFlags(runtime) = FlagsAfter(n) /\ runtime.step = n
    <2>1. /\ StepEpisode(RuntimeAfter(n, runtime.terminal)) = RuntimeAfter(n + 1, Ended(FlagsAfter(n)))
          /\ StepFlags(RuntimeAfter(n, runtime.terminal)) = FlagsAfter(n)
          /\ RuntimeAfter(n, runtime.terminal).step = n
      BY <1>3, StepExact, FlagsExact DEF RuntimeAfter
    <2> HIDE DEF n
    <2>2. StepEpisode(runtime) = StepEpisode(RuntimeAfter(n, runtime.terminal))
      BY <1>3, Zenon
    <2>3. StepFlags(runtime) = StepFlags(RuntimeAfter(n, runtime.terminal))
      BY <1>3, Zenon
    <2>4. runtime.step = RuntimeAfter(n, runtime.terminal).step
      BY <1>3, Zenon
    <2>. QED  BY <1>1, <2>1, <2>2, <2>3, <2>4, Zenon
  <1>5. TraceFrame(runtime', runtime'.seen) = FrameAfter(n + 1)
    <2> DEFINE f == Ended(FlagsAfter(n))
    <2>1. n + 1 \in Nat
      BY <1>3
    <2> HIDE DEF f, n
    <2>2. TraceFrame(RuntimeAfter(n + 1, f), RuntimeAfter(n + 1, f).seen) = FrameAfter(n + 1)
      BY <2>1, FrameExact
    <2>3. TraceFrame(runtime', runtime'.seen) = FrameAfter(n + 1)
      BY <1>4, <2>2, Zenon DEF f
    <2>. QED  BY <2>3
  <1>6. /\ traj.frames \in Seq([step : Nat, time : Nat, success : BOOLEAN,
                                raw : [time : Nat, edit : {NoEdit}]])
        /\ traj.actions \in Seq(Nat) /\ traj.flags \in Seq([terminated : BOOLEAN, truncated : BOOLEAN])
        /\ Len(traj.frames) = n + 1 /\ Len(traj.actions) = n /\ Len(traj.flags) = n
        /\ FrameAfter(n + 1) \in [step : Nat, time : Nat, success : BOOLEAN,
                                  raw : [time : Nat, edit : {NoEdit}]]
        /\ FlagsAfter(n) \in [terminated : BOOLEAN, truncated : BOOLEAN]
    <2>1. /\ traj.frames \in Seq([step : Nat, time : Nat, success : BOOLEAN,
                                  raw : [time : Nat, edit : {NoEdit}]])
          /\ traj.actions \in Seq(Nat)
          /\ traj.flags \in Seq([terminated : BOOLEAN, truncated : BOOLEAN])
          /\ Len(traj.frames) = n + 1 /\ Len(traj.actions) = n /\ Len(traj.flags) = n
      BY <1>3 DEF StepsRecorded, Taken
    <2> HIDE DEF n
    <2>2. n \in Nat /\ n + 1 \in Nat
      BY <1>3
    <2>3. FrameAfter(n + 1) \in [step : Nat, time : Nat, success : BOOLEAN,
                                raw : [time : Nat, edit : {NoEdit}]]
      BY <2>2, FrameExact
    <2>4. FlagsAfter(n) \in [terminated : BOOLEAN, truncated : BOOLEAN]
      BY <2>2, FlagsAre
    <2>. QED  BY <2>1, <2>3, <2>4
  <1>7. /\ traj'.frames = Append(traj.frames, FrameAfter(n + 1))
        /\ traj'.actions = Append(traj.actions, n)
        /\ traj'.flags = Append(traj.flags, FlagsAfter(n))
    BY <1>1, <1>4, <1>5
  <1>8. Taken' = n + 1
    BY <1>3, <1>6, <1>7 DEF Taken
  <1> HIDE DEF n, frames
  <1>9. /\ Len(traj'.frames) = n + 2 /\ Len(traj'.flags) = n + 1 /\ Len(traj'.actions) = n + 1
        /\ \A i \in 1 .. n + 1 : traj'.frames[i] = traj.frames[i]
        /\ traj'.frames[n + 2] = FrameAfter(n + 1)
        /\ \A i \in 1 .. n : traj'.flags[i] = traj.flags[i]
        /\ traj'.flags[n + 1] = FlagsAfter(n)
        /\ traj'.actions \in Seq(Nat) /\ traj'.flags \in Seq([terminated : BOOLEAN, truncated : BOOLEAN])
        /\ traj'.frames \in Seq([step : Nat, time : Nat, success : BOOLEAN,
                                 raw : [time : Nat, edit : {NoEdit}]])
    <2> DEFINE Frame == [step : Nat, time : Nat, success : BOOLEAN,
                         raw : [time : Nat, edit : {NoEdit}]]
               Flags == [terminated : BOOLEAN, truncated : BOOLEAN]
    <2>1. /\ traj.frames \in Seq(Frame) /\ FrameAfter(n + 1) \in Frame
          /\ traj.flags \in Seq(Flags) /\ FlagsAfter(n) \in Flags
      BY <1>6
    <2> HIDE DEF Frame, Flags
    <2>2. /\ traj'.frames \in Seq(Frame) /\ Len(traj'.frames) = n + 2
          /\ \A i \in 1 .. n + 1 : traj'.frames[i] = traj.frames[i]
          /\ traj'.frames[n + 2] = FrameAfter(n + 1)
      <3> DEFINE old   == traj.frames
                 new   == traj'.frames
                 frame == FrameAfter(n + 1)
      <3>1. old \in Seq(Frame) /\ frame \in Frame /\ Len(old) = n + 1 /\ n \in Nat
            /\ new = Append(old, frame)
        BY <1>3, <1>6, <1>7, <2>1
      <3> HIDE DEF old, new, frame
      <3>2. /\ new \in Seq(Frame) /\ Len(new) = n + 2 /\ new[n + 2] = frame
            /\ \A i \in 1 .. n + 1 : new[i] = old[i]
        BY <3>1
      <3>. QED  BY <3>2 DEF old, new, frame
    <2>3. /\ traj'.flags \in Seq(Flags) /\ Len(traj'.flags) = n + 1
          /\ \A i \in 1 .. n : traj'.flags[i] = traj.flags[i]
          /\ traj'.flags[n + 1] = FlagsAfter(n)
      BY <1>3, <1>6, <1>7, <2>1
    <2>4. traj'.actions \in Seq(Nat) /\ Len(traj'.actions) = n + 1
      BY <1>3, <1>6, <1>7
    <2>. QED  BY <2>2, <2>3, <2>4 DEF Frame, Flags
  <1>10. StepsRecorded'
    <2>1. \A i \in 1 .. n + 2 : traj'.frames[i] = FrameAfter(i - 1)
      <3>1. \A i \in 1 .. n + 1 : traj.frames[i] = FrameAfter(i - 1)
        BY <1>3 DEF StepsRecorded, n
      <3>2. (n + 2) - 1 = n + 1
        BY <1>3
      <3>3. \A i \in 1 .. n + 2 : i \in 1 .. n + 1 \/ i = n + 2
        BY <1>3
      <3>. QED  BY <1>9, <3>1, <3>2, <3>3, Zenon
    <2>2. \A i \in 1 .. n + 1 : traj'.flags[i] = FlagsAfter(i - 1)
      <3>1. \A i \in 1 .. n : traj.flags[i] = FlagsAfter(i - 1)
        BY <1>3 DEF StepsRecorded, n
      <3>2. (n + 1) - 1 = n
        BY <1>3
      <3>3. \A i \in 1 .. n + 1 : i \in 1 .. n \/ i = n + 1
        BY <1>3
      <3>. QED  BY <1>9, <3>1, <3>2, <3>3, Zenon
    <2>3. \A i \in 1 .. n : ~Ended(traj'.flags[i])
      <3>1. \A i \in 1 .. n - 1 : ~Ended(traj.flags[i])
        BY <1>3 DEF StepsRecorded, n
      <3>2. \A i \in 1 .. n : n > 0 /\ (i \in 1 .. n - 1 \/ i = n)
        BY <1>3
      <3>3. n > 0 => ~Ended(traj.flags[n])
        BY <1>3 DEF n
      <3>. QED  BY <1>9, <3>1, <3>2, <3>3, Zenon
    <2>4. Taken' + 1 = n + 2 /\ Taken' - 1 = n
      BY <1>3, <1>8
    <2>5. \A i \in 1 .. Taken' + 1 : traj'.frames[i] = FrameAfter(i - 1)'
      BY <1>1, <2>1, <2>4, WorldStays
    <2>6. \A i \in 1 .. Taken' : traj'.flags[i] = FlagsAfter(i - 1)'
      BY <1>1, <1>8, <2>2, WorldStays
    <2>. QED  BY <1>8, <1>9, <2>3, <2>4, <2>5, <2>6 DEF StepsRecorded, Ended
  <1>11. traj'.frames[Len(traj'.frames) - 1] = FrameAfter(n) /\ CaptureStep(frames) = n
    <2>1. Len(traj'.frames) - 1 = n + 1 /\ n + 1 \in 1 .. n + 1 /\ (n + 1) - 1 = n
      <3>1. n \in Nat /\ Len(traj'.frames) = n + 2
        BY <1>3, <1>9, Zenon
      <3>. QED  BY ONLY <3>1
    <2>2. traj.frames[n + 1] = FrameAfter((n + 1) - 1)
      BY <1>3, <2>1, Zenon DEF StepsRecorded, n
    <2>3. traj'.frames[Len(traj'.frames) - 1] = FrameAfter(n)
      BY <1>9, <2>1, <2>2
    <2>4. FrameAfter(n).step = n
      BY <1>3, FrameExact
    <2>. QED  BY <1>1, <2>3, <2>4 DEF CaptureStep
  <1>12. /\ c \in Nat /\ traj.captured \in Seq([step : Nat, run : Nat])
         /\ c = Cardinality(Strided(n)) /\ (c - 1) * Stride < n /\ n <= c * Stride
         /\ \A i \in 1 .. c : traj.captured[i] = [step |-> (i - 1) * Stride, run |-> i - 1]
    BY <1>3 DEF StepsCaptured, n
  <1> HIDE DEF c
  <1>13. StepsCaptured' /\ RunsCounted'
    <2>1. CASE n % Stride = 0
      <3>1. n = c * Stride /\ (c + 1) * Stride = c * Stride + Stride
        BY <1>3, <1>12, <2>1, Multiples, Parameters
      <3>2. selected = [run |-> c, captured |-> TRUE]
             /\ model = [run |-> c, calls |-> model.calls, records |-> model.records]
        BY <1>1, <1>3, <2>1 DEF RunsCounted, n, c
      <3>3. traj'.captured = Append(traj.captured, [step |-> n, run |-> c])
        BY <1>1, <1>11, <3>2
      <3>4. /\ traj'.captured \in Seq([step : Nat, run : Nat]) /\ Len(traj'.captured) = c + 1
            /\ \A i \in 1 .. c : traj'.captured[i] = traj.captured[i]
            /\ traj'.captured[c + 1] = [step |-> n, run |-> c]
        BY <1>3, <1>12, <3>3 DEF c
      <3>5. \A i \in 1 .. c + 1 : traj'.captured[i] = [step |-> (i - 1) * Stride, run |-> i - 1]
        <4>1. (c + 1) - 1 = c
          BY <1>12
        <4>2. traj'.captured[c + 1] = [step |-> ((c + 1) - 1) * Stride, run |-> (c + 1) - 1]
          BY <3>1, <3>4, <4>1
        <4>3. \A i \in 1 .. c + 1 : i \in 1 .. c \/ i = c + 1
          BY <1>12
        <4>. QED  BY <1>12, <3>4, <4>2, <4>3
      <3>6. c + 1 = Cardinality(Strided(n + 1))
        BY <1>3, <1>12, <2>1, StridedGrows
      <3>7. ((c + 1) - 1) * Stride < n + 1 /\ n + 1 <= (c + 1) * Stride
        BY <1>3, <1>12, <3>1, Parameters
      <3>8. StepsCaptured'
        BY <1>8, <3>4, <3>5, <3>6, <3>7 DEF StepsCaptured, Strided
      <3>9. RunsCounted'
        BY <1>1, <1>12, <3>2, <3>4 DEF RunsCounted
      <3>. QED  BY <3>8, <3>9
    <2>2. CASE n % Stride # 0
      <3>1. n + 1 <= c * Stride
        <4>1. (c * Stride) % Stride = 0 /\ c * Stride \in Nat
          BY <1>12, Multiples, Parameters
        <4>2. n # c * Stride
          BY <2>2, <4>1
        <4>. QED  BY <1>3, <1>12, <4>1, <4>2
      <3>2. selected = NoCall
             /\ model = [run |-> c - 1, calls |-> model.calls, records |-> model.records]
        BY <1>1, <1>3, <2>2 DEF RunsCounted, n, c
      <3>3. traj'.captured = traj.captured
        BY <1>1, <3>2 DEF NoCall
      <3>4. c = Cardinality(Strided(n + 1))
        BY <1>3, <1>12, <2>2, StridedGrows
      <3>5. StepsCaptured'
        <4>1. (c - 1) * Stride < n + 1
          BY <1>3, <1>12, Parameters
        <4>2. Len(traj'.captured) = c
          BY <3>3 DEF c
        <4>. QED  BY <1>8, <1>12, <3>1, <3>3, <3>4, <4>1, <4>2 DEF StepsCaptured, Strided
      <3>6. RunsCounted'
        BY <1>1, <3>2, <3>3 DEF RunsCounted, c
      <3>. QED  BY <3>5, <3>6
    <2>. QED  BY <2>1, <2>2
  <1>14. UnderWay'
    <2>1. traj'.flags[Taken'] = FlagsAfter(n) /\ n + 1 > 0
      BY <1>3, <1>8, <1>9
    <2>2. runtime'.terminal = Ended(FlagsAfter(n)) /\ Ended(FlagsAfter(n)) \in BOOLEAN
      BY <1>4 DEF RuntimeAfter, Ended
    <2>3. runtime' = RuntimeAfter(Taken', runtime'.terminal)
      BY <1>4, <1>8, <2>2, Zenon
    <2>4. Ended(traj'.flags[Taken']) <=> rpc' \in {"publish", "published"}
      BY <1>1, <2>1, <2>2
    <2>5. world'.reasons = {} /\ Taken' > 0 /\ Taken' # 0 /\ rpc' \in {"select", "publish"}
      BY <1>1, <1>3, <1>8
    <2>6. runtime'.terminal \in BOOLEAN
      BY <2>2
    <2>7. (runtime = RuntimeAfter(Taken, runtime.terminal))'
      BY <2>3 DEF RuntimeAfter, Moment, Settled
    <2>8. (Ended(traj.flags[Taken]) <=> rpc \in {"publish", "published"})'
      BY <2>4 DEF Ended
    <2>. QED  BY <1>10, <1>13, <2>5, <2>6, <2>7, <2>8 DEF UnderWay
  <1>. QED  BY <1>1, <1>2, <1>4, <1>14 DEF RolloutInvariant, RuntimeAfter

\* The artifact is what was recorded.
LEMMA PublishRecorded == RolloutInvariant /\ RolloutPublish => RolloutInvariant'
  <1> SUFFICES ASSUME RolloutInvariant, RolloutPublish PROVE RolloutInvariant'
    OBVIOUS
  <1>1. /\ world' = world /\ traj' = traj /\ runtime' = runtime /\ model' = model
        /\ selected' = selected /\ retry' = retry /\ rpc = "publish" /\ rpc' = "published"
        /\ artifact' = [status |-> Status, frames |-> traj.frames, actions |-> traj.actions,
                        flags |-> traj.flags, captured |-> traj.captured, retry |-> retry]
    BY DEF RolloutPublish
  <1>2. UnderWay
    BY <1>1 DEF RolloutInvariant
  <1>3. StepsRecorded' /\ StepsCaptured' /\ Taken' = Taken /\ Status' = Status
    BY <1>1, <1>2, RecordsStay DEF UnderWay
  <1>4. RunsCounted'
    BY <1>1, <1>2, <1>3 DEF RunsCounted, UnderWay
  <1>5. runtime' = RuntimeAfter(Taken', runtime'.terminal) /\ runtime'.terminal \in BOOLEAN
    BY <1>1, <1>2, <1>3 DEF UnderWay, RuntimeAfter, Moment, Settled
  <1>6. artifact' = [status |-> Status', frames |-> traj'.frames, actions |-> traj'.actions,
                     flags |-> traj'.flags, captured |-> traj'.captured, retry |-> retry']
    BY <1>1, <1>3
  <1>7. UnderWay'
    BY <1>1, <1>2, <1>3, <1>4, <1>5, <1>6 DEF UnderWay
  <1>. QED  BY <1>1, <1>7 DEF RolloutInvariant

\* Every action of the rollout preserves its invariant.
LEMMA RolloutKept ==
    RolloutInvariant /\ (RolloutNext \/ UNCHANGED rolloutVars) => RolloutInvariant'
  <1>1. RolloutInvariant /\ RolloutNext => RolloutInvariant'
    BY ResetRecorded, QuietRecorded, SelectRecorded, StepRecorded, PublishRecorded
       DEF RolloutNext
  <1>2. ASSUME RolloutInvariant, UNCHANGED rolloutVars PROVE RolloutInvariant'
    <2>1. /\ world' = world /\ traj' = traj /\ runtime' = runtime /\ model' = model
          /\ selected' = selected /\ retry' = retry /\ rpc' = rpc /\ artifact' = artifact
      BY <1>2 DEF rolloutVars
    <2>2. CASE UnderWay
      <3>1. StepsRecorded' /\ StepsCaptured' /\ Taken' = Taken /\ Status' = Status
        BY <2>1, <2>2, RecordsStay DEF UnderWay
      <3>2. RunsCounted'
        BY <2>1, <2>2, <3>1 DEF RunsCounted, UnderWay
      <3>3. runtime' = RuntimeAfter(Taken', runtime'.terminal) /\ runtime'.terminal \in BOOLEAN
        BY <2>1, <2>2, <3>1 DEF UnderWay, RuntimeAfter, Moment, Settled
      <3>4. UnderWay'
        BY <2>1, <2>2, <3>1, <3>2, <3>3 DEF UnderWay
      <3>. QED  BY <1>2, <2>1, <3>4 DEF RolloutInvariant, AtStart
    <2>3. CASE ~UnderWay
      BY <1>2, <2>1, <2>3 DEF RolloutInvariant, AtStart
    <2>. QED  BY <2>2, <2>3
  <1>. QED  BY <1>1, <1>2

-----------------------------------------------------------------------------
(* The published episode. *)

PublishedEpisode ==
    /\ ActionCount \in Nat /\ ActionCount <= MaxSteps
    /\ Len(artifact.frames) = ActionCount + 1 /\ Len(artifact.flags) = ActionCount
    /\ \A i \in 1 .. ActionCount + 1 : artifact.frames[i] = FrameAfter(i - 1)
    /\ \A i \in 1 .. ActionCount : artifact.flags[i] = FlagsAfter(i - 1)
    /\ \A i \in 1 .. ActionCount - 1 : ~Ended(artifact.flags[i])
    /\ artifact.status = Status /\ artifact.frames = traj.frames /\ artifact.flags = traj.flags
    /\ world.reasons # {} => ActionCount = 0
    /\ world.reasons = {} => ActionCount > 0 /\ Ended(artifact.flags[ActionCount])
    /\ Len(artifact.captured) = Cardinality(Strided(ActionCount))
    /\ artifact.captured \in Seq([step : Nat, run : Nat])
    /\ \A i \in 1 .. Len(artifact.captured) :
          artifact.captured[i] = [step |-> (i - 1) * Stride, run |-> i - 1]
    /\ (Len(artifact.captured) - 1) * Stride < ActionCount
    /\ ActionCount <= Len(artifact.captured) * Stride

\* What the rollout publishes.
LEMMA Published == RolloutInvariant /\ rpc = "published" => PublishedEpisode /\ world \in Worlds
  <1> SUFFICES ASSUME RolloutInvariant, rpc = "published"
               PROVE  PublishedEpisode /\ world \in Worlds
    OBVIOUS
  <1>1. UnderWay /\ world \in Worlds
    BY DEF RolloutInvariant
  <1>2. /\ artifact.frames = traj.frames /\ artifact.flags = traj.flags
        /\ artifact.actions = traj.actions /\ artifact.captured = traj.captured
        /\ artifact.status = Status
    BY <1>1 DEF UnderWay
  <1>3. ActionCount = Taken
    BY <1>2 DEF ActionCount, Taken
  <1>4. /\ ActionCount \in Nat
        /\ Len(artifact.frames) = ActionCount + 1 /\ Len(artifact.flags) = ActionCount
        /\ \A i \in 1 .. ActionCount + 1 : artifact.frames[i] = FrameAfter(i - 1)
        /\ \A i \in 1 .. ActionCount : artifact.flags[i] = FlagsAfter(i - 1)
        /\ \A i \in 1 .. ActionCount - 1 : ~Ended(artifact.flags[i])
    <2>1. Taken \in Nat
      BY <1>1 DEF UnderWay, StepsRecorded, Taken
    <2>. QED  BY <1>1, <1>2, <1>3, <2>1 DEF UnderWay, StepsRecorded
  <1>5. /\ world.reasons # {} => ActionCount = 0
        /\ world.reasons = {} => ActionCount > 0 /\ Ended(artifact.flags[ActionCount])
    BY <1>1, <1>2, <1>3, <1>4 DEF UnderWay
  <1>6. ActionCount <= MaxSteps
    <2>1. CASE ActionCount <= 1
      BY <2>1, <1>4, Parameters
    <2>2. CASE ActionCount > 1
      <3> DEFINE m == ActionCount - 1
      <3>1. m \in 1 .. ActionCount - 1 /\ m \in 1 .. ActionCount /\ m - 1 \in Nat /\ m \in Nat
        BY <2>2, <1>4
      <3>2. ~Ended(FlagsAfter(m - 1))
        BY <1>4, <3>1
      <3> HIDE DEF m
      <3>3. (m - 1) + 1 < MaxSteps
        BY <3>1, <3>2, FlagsAre
      <3>. QED  BY <3>1, <3>3, <1>4, Parameters DEF m
    <2>. QED  BY <2>1, <2>2, <1>4
  <1>7. /\ Len(artifact.captured) = Cardinality(Strided(ActionCount))
        /\ artifact.captured \in Seq([step : Nat, run : Nat])
        /\ \A i \in 1 .. Len(artifact.captured) :
              artifact.captured[i] = [step |-> (i - 1) * Stride, run |-> i - 1]
        /\ (Len(artifact.captured) - 1) * Stride < ActionCount
        /\ ActionCount <= Len(artifact.captured) * Stride
    BY <1>1, <1>2, <1>3 DEF UnderWay, StepsCaptured
  <1>. QED  BY <1>1, <1>2, <1>4, <1>5, <1>6, <1>7 DEF PublishedEpisode

\* The replayed episode: every episode that was valid at its reset, and no other.
LEMMA ReplayableWhenValid ==
    RolloutInvariant /\ rpc = "published" =>
        /\ Replayable <=> world.reasons = {}
        /\ world.reasons # {} => artifact.status = "invalid_reset"
  <1> SUFFICES ASSUME RolloutInvariant, rpc = "published"
               PROVE  /\ Replayable <=> world.reasons = {}
                      /\ world.reasons # {} => artifact.status = "invalid_reset"
    OBVIOUS
  <1>1. PublishedEpisode /\ world \in Worlds
    BY Published
  <1> DEFINE n == ActionCount
  <1>2. /\ n \in Nat /\ Len(artifact.frames) = n + 1 /\ Len(artifact.flags) = n
        /\ \A i \in 1 .. n + 1 : artifact.frames[i] = FrameAfter(i - 1)
        /\ \A i \in 1 .. n : artifact.flags[i] = FlagsAfter(i - 1)
        /\ \A i \in 1 .. n - 1 : ~Ended(artifact.flags[i])
        /\ artifact.frames = traj.frames /\ artifact.flags = traj.flags
    BY <1>1 DEF PublishedEpisode
  <1>3. CASE world.reasons # {}
    <2>1. ~Replayable
      BY <1>1, <1>3 DEF Replayable, PublishedEpisode, ActionCount
    <2>2. artifact.status = "invalid_reset"
      BY <1>1, <1>3 DEF PublishedEpisode, Status
    <2>. QED  BY <1>3, <2>1, <2>2
  <1>4. CASE world.reasons = {}
    <2>1. n > 0 /\ Ended(artifact.flags[n])
      BY <1>1, <1>4 DEF PublishedEpisode
    <2> HIDE DEF n
    <2>2. \A i \in 1 .. n + 1 : artifact.frames[i].step = i - 1
      <3>1. \A i \in 1 .. n + 1 : i - 1 \in Nat
        BY <1>2
      <3>. QED  BY <1>2, <3>1, FrameExact
    <2>3. ASSUME NEW i \in 1 .. n
          PROVE  /\ Ended(artifact.flags[i]) <=> i = n
                 /\ ~(artifact.flags[i].terminated /\ artifact.flags[i].truncated)
      <3>1. i - 1 \in Nat /\ (i = n \/ i \in 1 .. n - 1)
        BY <1>2
      <3>2. artifact.flags[i] = FlagsAfter(i - 1)
        BY <1>2
      <3>3. ~(FlagsAfter(i - 1).terminated /\ FlagsAfter(i - 1).truncated)
        BY <3>1, FlagsAre
      <3>4. Ended(artifact.flags[i]) <=> i = n
        <4>1. CASE i = n
          BY <2>1, <4>1
        <4>2. CASE i # n
          BY <1>2, <3>1, <4>2
        <4>. QED  BY <4>1, <4>2
      <3>. QED  BY <3>2, <3>3, <3>4
    <2>4. ASSUME NEW i \in 1 .. n
          PROVE  ~artifact.frames[i].success
      <3>1. CASE i = 1
        <4>1. artifact.frames[i] = FrameAfter(0)
          BY <1>2, <3>1
        <4>2. world.at * Period > 0 /\ world.at * Period \in Nat
          <5>1. world.at \in Nat /\ world.at > 0 /\ Period \in Nat /\ Period > 0
            BY <1>1, Parameters DEF Worlds
          <5>. QED  BY <5>1
        <4>3. RuntimeAfter(0, FALSE).time = Settled
          <5>1. Settled + 0 * Period = Settled
            BY Parameters DEF Settled
          <5>2. RuntimeAfter(0, FALSE).time = Settled + 0 * Period
            BY Zenon, Fields DEF RuntimeAfter
          <5>. QED  BY <5>1, <5>2
        <4>4. FrameAfter(0).success = CheckSuccess(RuntimeAfter(0, FALSE))
          BY DEF FrameAfter, TraceFrame
        <4>5. ~CheckSuccess(RuntimeAfter(0, FALSE))
          <5>1. Settled \in Nat
            BY Parameters DEF Settled
          <5>2. ~(Settled >= Settled + world.at * Period)
            BY <4>2, <5>1
          <5>. QED  BY <1>4, <4>3, <5>2 DEF CheckSuccess
        <4>. QED  BY <4>1, <4>4, <4>5
      <3>2. CASE i # 1
        <4> DEFINE m == i - 2
        <4>1. m \in Nat /\ m + 1 = i - 1 /\ i - 1 \in 1 .. n - 1 /\ i \in 1 .. n + 1
              /\ i - 1 \in 1 .. n /\ (i - 1) - 1 = m
          BY <1>2, <3>2
        <4>2. artifact.frames[i] = FrameAfter(i - 1) /\ artifact.flags[i - 1] = FlagsAfter((i - 1) - 1)
              /\ ~Ended(artifact.flags[i - 1])
          BY <1>2, <4>1, Zenon
        <4>3. artifact.frames[i] = FrameAfter(m + 1) /\ ~Ended(FlagsAfter(m))
          BY <4>1, <4>2
        <4> HIDE DEF m
        <4>4. FrameAfter(m + 1).success => FlagsAfter(m).terminated
          BY <4>1, FlagsAre
        <4>. QED  BY <4>3, <4>4 DEF Ended
      <3>. QED  BY <3>1, <3>2
    <2>5. artifact.status = IF artifact.frames[Len(artifact.frames)].success THEN "success"
                            ELSE IF artifact.flags[n].truncated THEN "truncated"
                            ELSE "terminated_without_success"
      <3>1. artifact.status = Status /\ Len(traj.flags) = n
        BY <1>1, <1>2 DEF PublishedEpisode
      <3>2. traj.flags # << >>
        BY <2>1, <3>1
      <3>3. Status = IF traj.frames[Len(traj.frames)].success THEN "success"
                     ELSE IF traj.flags[n].truncated THEN "truncated"
                     ELSE "terminated_without_success"
        BY <1>4, <3>1, <3>2 DEF Status, LastFlags
      <3>. QED  BY <1>2, <3>1, <3>3
    <2>6. n >= 1 /\ n = Len(artifact.actions)
      BY <1>2, <2>1 DEF n, ActionCount
    <2>7. Replayable
      BY <1>2, <2>2, <2>3, <2>4, <2>5, <2>6 DEF Replayable, Ended
    <2>. QED  BY <1>4, <2>7
  <1>. QED  BY <1>3, <1>4

-----------------------------------------------------------------------------
(* Where the loops of a state are. *)

\* The fields of a position.
LEMMA PositionIs ==
    ASSUME NEW o, NEW t, NEW d
    PROVE  /\ Position(o, t, d).op = o /\ Position(o, t, d).t = t /\ Position(o, t, d).draw = d
           /\ Position(o, t, d).directed = {}
  BY DEF Position

\* The number of draws and of transforms.
LEMMA Sizes ==
    /\ OriginalDraws \in Nat /\ CommonDraws \in Nat /\ CommonDraws >= 1
    /\ CommonDraws <= OriginalDraws /\ Len(Transforms) \in Nat
    /\ \A i \in 1 .. Len(Transforms) : Transforms[i].name # NoEdit
  BY ScoringAssumption

\* What is still unfiled when the loops have got to v.
At(v, originals, transforms, minus, plus) ==
    /\ v \in Positions
    /\ OriginalsDone(v) = originals /\ TransformsDone(v) = transforms
    /\ MinusDone(v) = minus /\ PlusDone(v) = plus

\* The first calls of a state.
LEMMA Beginnings ==
    /\ At(Position("factual", 0, 0), 0, 0, {}, {}) /\ Position("factual", 0, 0) # Done
    /\ At(Position("original", 0, 1), 0, 0, {}, {}) /\ Position("original", 0, 1) # Done
    /\ \A t \in 1 .. Len(Transforms) :
          At(Position("transformed", t, 1), OriginalDraws, t - 1, {}, {})
          /\ At(Position("transform", t, 0), OriginalDraws, t - 1, {}, {})
          /\ Position("transformed", t, 1) # Done
    /\ At(Position("directions", 0, 0), OriginalDraws, Len(Transforms), {}, {})
    /\ Position("directions", 0, 0) # Done
  <1>1. \A o, t, d : OriginalsDone(Position(o, t, d)) =
            IF o = "factual" THEN 0 ELSE IF o = "original" THEN d - 1 ELSE OriginalDraws
    BY PositionIs DEF OriginalsDone
  <1>2. \A o, t, d : TransformsDone(Position(o, t, d)) =
            IF o \in {"factual", "original"} THEN 0
            ELSE IF o = "transform" \/ (o = "transformed" /\ d = 1) THEN t - 1
            ELSE IF o = "transformed" THEN t ELSE Len(Transforms)
    BY PositionIs DEF TransformsDone
  <1>3. \A o, t, d : o \notin Interventions =>
            MinusDone(Position(o, t, d)) = {} /\ PlusDone(Position(o, t, d)) = {}
    BY PositionIs DEF MinusDone, PlusDone, Interventions
  <1>4. \A o, t, d : o # "done" => Position(o, t, d) # Done
    BY PositionIs DEF Done
  <1>5. /\ Position("factual", 0, 0) \in Positions /\ Position("directions", 0, 0) \in Positions
        /\ Position("original", 0, 1) \in Positions
        /\ \A t \in 1 .. Len(Transforms) : /\ Position("transformed", t, 1) \in Positions
                                           /\ Position("transform", t, 0) \in Positions
    BY Sizes DEF Positions
  <1>. QED  BY <1>1, <1>2, <1>3, <1>4, <1>5 DEF At, Interventions

\* Past the calls of one transform, or past one that is unavailable.
LEMMA AfterTransform ==
    ASSUME NEW t \in 0 .. Len(Transforms)
    PROVE  /\ At(NextTransform(t), OriginalDraws, t, {}, {}) /\ NextTransform(t) # Done
           /\ NextTransform(t).op \in {"transform", "directions"}
  <1>1. CASE t < Len(Transforms)
    <2>1. NextTransform(t) = Position("transform", t + 1, 0)
      BY <1>1 DEF NextTransform
    <2>2. t + 1 \in 1 .. Len(Transforms) /\ (t + 1) - 1 = t
      BY <1>1, Sizes
    <2>3. At(Position("transform", t + 1, 0), OriginalDraws, (t + 1) - 1, {}, {})
      BY <2>2, Beginnings
    <2>4. Position("transform", t + 1, 0).op = "transform"
      BY PositionIs
    <2>. QED  BY <2>1, <2>2, <2>3, <2>4, PositionIs DEF Done
  <1>2. CASE ~(t < Len(Transforms))
    <2>1. NextTransform(t) = Position("directions", 0, 0) /\ t = Len(Transforms)
      BY <1>2, Sizes DEF NextTransform
    <2>2. Position("directions", 0, 0).op = "directions"
      BY PositionIs
    <2>. QED  BY <2>1, <2>2, Beginnings
  <1>. QED  BY <1>1, <1>2

\* Past an original call.
LEMMA AfterOriginal ==
    ASSUME NEW d \in 1 .. OriginalDraws
    PROVE  LET v == AfterCall(Position("original", 0, d)) IN
           /\ At(v, d, 0, {}, {}) /\ v # Done /\ v.op \in {"original", "transform", "directions"}
  <1> DEFINE w == Position("original", 0, d)
             v == AfterCall(w)
  <1>1. w.op = "original" /\ w.draw = d
    BY PositionIs
  <1>2. CASE d < OriginalDraws
    <2>1. v = [w EXCEPT !.draw = d + 1]
      BY <1>1, <1>2 DEF AfterCall
    <2>2. [w EXCEPT !.draw = d + 1] = Position("original", 0, d + 1)
      BY DEF Position
    <2>3. d + 1 \in 1 .. OriginalDraws /\ (d + 1) - 1 = d
      BY <1>2, Sizes
    <2> DEFINE u == Position("original", 0, d + 1)
    <2>4. u.op = "original" /\ u.draw = d + 1
      BY PositionIs
    <2>5. u \in Positions
      BY <2>3 DEF Positions
    <2> HIDE DEF u
    <2>6. At(u, d, 0, {}, {}) /\ u # Done /\ u.op = "original"
      BY <2>3, <2>4, <2>5, PositionIs
         DEF At, OriginalsDone, TransformsDone, MinusDone, PlusDone, Done
    <2>. QED  BY <2>1, <2>2, <2>6 DEF u
  <1>3. CASE ~(d < OriginalDraws)
    <2>1. v = NextTransform(0) /\ d = OriginalDraws
      BY <1>1, <1>3, Sizes DEF AfterCall
    <2>2. 0 \in 0 .. Len(Transforms)
      BY Sizes
    <2>. QED  BY <2>1, <2>2, AfterTransform
  <1>. QED  BY <1>2, <1>3

\* Past a call on a transformed observation.
LEMMA AfterTransformed ==
    ASSUME NEW t \in 1 .. Len(Transforms), NEW d \in 1 .. CommonDraws
    PROVE  LET v == AfterCall(Position("transformed", t, d)) IN
           /\ At(v, OriginalDraws, t, {}, {}) /\ v # Done
           /\ v.op \in {"transformed", "transform", "directions"}
           /\ v.op = "transformed" => v.t = t
  <1> DEFINE w == Position("transformed", t, d)
             v == AfterCall(w)
  <1>1. w.op = "transformed" /\ w.draw = d /\ w.t = t
    BY PositionIs
  <1>2. CASE d < CommonDraws
    <2>1. v = [w EXCEPT !.draw = d + 1]
      BY <1>1, <1>2 DEF AfterCall
    <2>2. [w EXCEPT !.draw = d + 1] = Position("transformed", t, d + 1)
      <3> DEFINE x == d + 1
                 none == {}
      <3>1. Position("transformed", t, d)
               = [op |-> "transformed", t |-> t, draw |-> d, directed |-> none]
        BY DEF Position
      <3>2. Position("transformed", t, x)
               = [op |-> "transformed", t |-> t, draw |-> x, directed |-> none]
        BY DEF Position
      <3> HIDE DEF x, none
      <3>3. [[op |-> "transformed", t |-> t, draw |-> d, directed |-> none] EXCEPT !.draw = x]
               = [op |-> "transformed", t |-> t, draw |-> x, directed |-> none]
        OBVIOUS
      <3>. QED  BY <3>1, <3>2, <3>3, Zenon DEF x
    <2>3. d + 1 \in 1 .. CommonDraws /\ d + 1 # 1
      BY <1>2, Sizes
    <2> DEFINE u == Position("transformed", t, d + 1)
    <2>4. u.op = "transformed" /\ u.draw = d + 1 /\ u.t = t
      BY PositionIs
    <2>5. u \in Positions
      BY <2>3 DEF Positions
    <2> HIDE DEF u
    <2>6. At(u, OriginalDraws, t, {}, {}) /\ u # Done /\ u.op = "transformed" /\ u.t = t
      BY <2>3, <2>4, <2>5, PositionIs
         DEF At, OriginalsDone, TransformsDone, MinusDone, PlusDone, Done
    <2>. QED  BY <2>1, <2>2, <2>6 DEF u
  <1>3. CASE ~(d < CommonDraws)
    <2>1. v = NextTransform(t)
      BY <1>1, <1>3 DEF AfterCall
    <2>2. t \in 0 .. Len(Transforms)
      BY Sizes
    <2>. QED  BY <2>1, <2>2, AfterTransform
  <1>. QED  BY <1>2, <1>3

\* The least of some draws.
LEMMA EarliestIs ==
    ASSUME NEW draws \in SUBSET (1 .. CommonDraws), draws # {}
    PROVE  Earliest(draws) \in draws /\ \A d \in draws : Earliest(draws) <= d
  <1>1. draws \subseteq Nat
    BY Sizes
  <1>2. \E d \in draws : \A e \in draws : d <= e
    BY <1>1, LeastNatural
  <1>. QED  BY <1>2 DEF Earliest

\* A place among the shifted calls.
LEMMA ShiftedAt ==
    ASSUME NEW o \in Interventions, NEW directed \in SUBSET (1 .. CommonDraws), NEW d \in directed
    PROVE  LET v == [op |-> o, t |-> 0, draw |-> d, directed |-> directed]
               before == {e \in directed : e < d}
           IN /\ At(v, OriginalDraws, Len(Transforms),
                    IF o = "minus" THEN before ELSE directed, IF o = "plus" THEN before ELSE {})
              /\ v # Done /\ v.op = o
  <1> DEFINE v == [op |-> o, t |-> 0, draw |-> d, directed |-> directed]
  <1>1. v.op = o /\ v.draw = d /\ v.directed = directed
    OBVIOUS
  <1>2. v \in Positions
    BY DEF Positions
  <1>3. v # Done
    BY DEF Done, Position, Interventions
  <1> HIDE DEF v
  <1>4. OriginalsDone(v) = OriginalDraws /\ TransformsDone(v) = Len(Transforms)
    BY <1>1 DEF OriginalsDone, TransformsDone, Interventions
  <1>5. /\ MinusDone(v) = IF o = "minus" THEN {e \in directed : e < d} ELSE directed
        /\ PlusDone(v) = IF o = "plus" THEN {e \in directed : e < d} ELSE {}
    BY <1>1 DEF MinusDone, PlusDone, Interventions
  <1>. QED  BY <1>1, <1>2, <1>3, <1>4, <1>5 DEF v, At

\* Once the directions are known.
LEMMA AfterDirections ==
    ASSUME NEW directed \in SUBSET (1 .. CommonDraws)
    PROVE  LET v == NextDirected("minus", 0, directed) IN
           \/ v = Done /\ directed = {}
           \/ /\ At(v, OriginalDraws, Len(Transforms), {}, {}) /\ v # Done
              /\ v.op = "minus" /\ v.directed = directed
  <1>0. \A e \in directed : e \in Nat /\ e > 0
    BY Sizes
  <1>1. Later(0, directed) = directed
    BY <1>0 DEF Later
  <1>2. CASE directed = {}
    BY <1>1, <1>2 DEF NextDirected
  <1>3. CASE directed # {}
    <2> DEFINE d == Earliest(directed)
               v == [op |-> "minus", t |-> 0, draw |-> d, directed |-> directed]
    <2>1. NextDirected("minus", 0, directed) = v
      BY <1>1, <1>3 DEF NextDirected
    <2>2. d \in directed /\ \A e \in directed : d <= e
      BY <1>3, EarliestIs
    <2>3. {e \in directed : e < d} = {}
      <3>1. ASSUME NEW e \in directed PROVE ~(e < d)
        <4> HIDE DEF d
        <4>. QED  BY <1>0, <2>2
      <3>. QED  BY <3>1
    <2> HIDE DEF d
    <2>4. At(v, OriginalDraws, Len(Transforms), {e \in directed : e < d}, {}) /\ v # Done
      BY <2>2, ShiftedAt DEF Interventions
    <2>5. v.op = "minus" /\ v.directed = directed
      OBVIOUS
    <2> HIDE DEF v
    <2>. QED  BY <2>1, <2>3, <2>4, <2>5
  <1>. QED  BY <1>2, <1>3

\* Past a shifted call.
LEMMA AfterShifted ==
    ASSUME NEW o \in Interventions, NEW directed \in SUBSET (1 .. CommonDraws), NEW d \in directed
    PROVE  LET v == AfterCall([op |-> o, t |-> 0, draw |-> d, directed |-> directed])
               through == {e \in directed : e < d} \cup {d}
           IN \/ v = Done /\ o = "plus" /\ through = directed
              \/ /\ v # Done /\ v.op \in Interventions
                 /\ At(v, OriginalDraws, Len(Transforms),
                       IF o = "minus" THEN through ELSE directed,
                       IF o = "plus" THEN through ELSE {})
  <1> DEFINE w == [op |-> o, t |-> 0, draw |-> d, directed |-> directed]
             v == AfterCall(w)
             through == {e \in directed : e < d} \cup {d}
             later == Later(d, directed)
             Shifted(p, x) == [op |-> p, t |-> 0, draw |-> x, directed |-> directed]
  <1>0. \A e \in directed : e \in Nat
    BY Sizes
  <1>1. v = NextDirected(o, d, directed)
    BY DEF AfterCall, Interventions
  <1>2. CASE later # {}
    <2> DEFINE x == Earliest(later)
    <2>1. v = Shifted(o, x)
      BY <1>1, <1>2 DEF NextDirected
    <2>2. later \in SUBSET (1 .. CommonDraws)
      BY DEF Later
    <2>3. x \in later /\ \A e \in later : x <= e
      BY <1>2, <2>2, EarliestIs
    <2> HIDE DEF x
    <2>4. x \in directed /\ {e \in directed : e < x} = through
      <3>1. x \in directed /\ x > d /\ \A e \in directed : e > d => x <= e
        BY <2>3 DEF Later
      <3>2. ASSUME NEW e \in directed PROVE e < x <=> e < d \/ e = d
        BY <1>0, <3>1
      <3>. QED  BY <3>1, <3>2
    <2>5. /\ At(Shifted(o, x), OriginalDraws, Len(Transforms),
                IF o = "minus" THEN {e \in directed : e < x} ELSE directed,
                IF o = "plus" THEN {e \in directed : e < x} ELSE {})
          /\ Shifted(o, x) # Done /\ Shifted(o, x).op = o
      BY <2>4, ShiftedAt
    <2> HIDE DEF v, through, Shifted
    <2>6. v # Done /\ v.op \in Interventions
          /\ At(v, OriginalDraws, Len(Transforms), IF o = "minus" THEN through ELSE directed,
                IF o = "plus" THEN through ELSE {})
      BY <2>1, <2>4, <2>5
    <2>. QED  BY <2>6, Zenon DEF v, through
  <1>3. CASE later = {}
    <2>1. through = directed
      <3>1. ASSUME NEW e \in directed PROVE e < d \/ e = d
        BY <1>0, <1>3 DEF Later
      <3>. QED  BY <3>1
    <2>2. CASE o = "plus"
      <3>1. v = Done
        BY <1>1, <1>3, <2>2 DEF NextDirected
      <3>. QED  BY <2>1, <2>2, <3>1
    <2>3. CASE o = "minus"
      <3> DEFINE x == Earliest(directed)
      <3>1. v = Shifted("plus", x)
        BY <1>1, <1>3, <2>3 DEF NextDirected
      <3>2. x \in directed /\ \A e \in directed : x <= e
        BY EarliestIs
      <3> HIDE DEF x
      <3>3. {e \in directed : e < x} = {}
        <4>1. ASSUME NEW e \in directed PROVE ~(e < x)
          BY <1>0, <3>2
        <4>. QED  BY <4>1
      <3>4. /\ At(Shifted("plus", x), OriginalDraws, Len(Transforms), directed,
                  {e \in directed : e < x})
            /\ Shifted("plus", x) # Done /\ Shifted("plus", x).op = "plus"
        BY <3>2, ShiftedAt DEF Interventions
      <3> HIDE DEF v, through, Shifted
      <3>5. v # Done /\ v.op \in Interventions
            /\ At(v, OriginalDraws, Len(Transforms), through, {})
        BY <2>1, <3>1, <3>3, <3>4 DEF Interventions
      <3>6. v # Done /\ v.op \in Interventions
            /\ At(v, OriginalDraws, Len(Transforms), IF o = "minus" THEN through ELSE directed,
                  IF o = "plus" THEN through ELSE {})
        BY <2>3, <3>5
      <3>. QED  BY <3>6, Zenon DEF v, through
    <2>. QED  BY <2>2, <2>3 DEF Interventions
  <1>. QED  BY <1>2, <1>3

-----------------------------------------------------------------------------
(* What is filed with a call. *)

\* The arrays with one more entry.
With(filed, e) == filed \cup {e}

\* A filed entry adds its draw to those of its own kind, name and state, and to no other.
LEMMA DrawsGrow ==
    ASSUME NEW filed, NEW e
    PROVE  \A kind, name, k :
              /\ e.call.kind = kind /\ e.call.name = name /\ e.step = k =>
                    DrawsOf(With(filed, e), kind, name, k)
                       = DrawsOf(filed, kind, name, k) \cup {e.call.draw}
              /\ e.call.kind # kind \/ e.call.name # name \/ e.step # k =>
                    DrawsOf(With(filed, e), kind, name, k) = DrawsOf(filed, kind, name, k)
  <1>1. ASSUME NEW kind, NEW name, NEW k, e.call.kind = kind, e.call.name = name, e.step = k
        PROVE  DrawsOf(With(filed, e), kind, name, k)
                  = DrawsOf(filed, kind, name, k) \cup {e.call.draw}
    BY <1>1 DEF DrawsOf, With
  <1>2. ASSUME NEW kind, NEW name, NEW k,
               e.call.kind # kind \/ e.call.name # name \/ e.step # k
        PROVE  DrawsOf(With(filed, e), kind, name, k) = DrawsOf(filed, kind, name, k)
    BY <1>2 DEF DrawsOf, With
  <1>. QED  BY <1>1, <1>2, Zenon

\* States of which nothing is filed yet.
LEMMA NothingFiled ==
    ASSUME NEW filed, NEW k, \A e \in filed : e.step # k
    PROVE  Filed(filed, k, 0, 0, {}, {})
  BY DEF Filed, DrawsOf

\* Filing with another state leaves a complete one complete.
LEMMA OthersComplete ==
    ASSUME NEW filed, NEW e, NEW k, e.step # k, StateComplete(filed, k)
    PROVE  StateComplete(filed \cup {e}, k)
  <1>1. \A kind, name : DrawsOf(With(filed, e), kind, name, k) = DrawsOf(filed, kind, name, k)
    BY DrawsGrow
  <1> DEFINE more == With(filed, e)
  <1> HIDE DEF more
  <1>2. \A kind, name : DrawsOf(more, kind, name, k) = DrawsOf(filed, kind, name, k)
    BY <1>1, Zenon DEF more
  <1>3. StateComplete(more, k)
    BY <1>2 DEF StateComplete, Filed
  <1>. QED  BY <1>3 DEF more, With

\* An original call.
LEMMA FileOriginal ==
    ASSUME NEW filed, NEW e, NEW k, NEW d \in Nat, d > 0,
           e.step = k, e.call = [kind |-> "original", name |-> NoEdit, draw |-> d],
           Filed(filed, k, d - 1, 0, {}, {})
    PROVE  Filed(filed \cup {e}, k, d, 0, {}, {})
  <1>1. e.call.kind = "original" /\ e.call.name = NoEdit /\ e.call.draw = d
    OBVIOUS
  <1>2. 1 .. d = (1 .. d - 1) \cup {d}
    OBVIOUS
  <1>3. e.call.kind # "transformed" /\ e.call.kind # "intervention"
    BY <1>1
  <1> DEFINE more == With(filed, e)
  <1>4. DrawsOf(more, "original", NoEdit, k) = DrawsOf(filed, "original", NoEdit, k) \cup {d}
    BY <1>1, DrawsGrow
  <1>5. \A name : DrawsOf(more, "intervention", name, k) = DrawsOf(filed, "intervention", name, k)
    BY <1>3, DrawsGrow
  <1> HIDE DEF more
  <1>6. Filed(more, k, d, 0, {}, {})
    <2>1. DrawsOf(filed, "original", NoEdit, k) = 1 .. d - 1
      BY DEF Filed
    <2>2. DrawsOf(more, "original", NoEdit, k) = 1 .. d
      BY <1>2, <1>4, <2>1
    <2>. QED  BY <1>5, <2>2 DEF Filed
  <1>. QED  BY <1>6 DEF more, With

\* A call on a transformed observation: the transform was to be filed, or is already.
LEMMA FileTransformed ==
    ASSUME NEW filed, NEW e, NEW k, NEW m, NEW t \in 1 .. Len(Transforms), NEW done, NEW draw,
           e.step = k, e.call = [kind |-> "transformed", name |-> Transforms[t].name, draw |-> draw],
           done \in {t - 1, t}, Filed(filed, k, m, done, {}, {})
    PROVE  Filed(filed \cup {e}, k, m, t, {}, {})
  <1>1. e.call.kind = "transformed" /\ e.call.name = Transforms[t].name
    OBVIOUS
  <1>2. e.call.kind # "original" /\ e.call.kind # "intervention"
    BY <1>1
  <1> DEFINE more == With(filed, e)
  <1>3. \A name : /\ DrawsOf(more, "original", name, k) = DrawsOf(filed, "original", name, k)
                 /\ DrawsOf(more, "intervention", name, k) = DrawsOf(filed, "intervention", name, k)
    BY <1>2, DrawsGrow
  <1>4. DrawsOf(more, "transformed", Transforms[t].name, k)
          = DrawsOf(filed, "transformed", Transforms[t].name, k) \cup {e.call.draw}
    BY <1>1, DrawsGrow
  <1>5. \A name : DrawsOf(filed, "transformed", name, k) \subseteq DrawsOf(more, "transformed", name, k)
    BY DEF DrawsOf, With
  <1> HIDE DEF more
  <1>6. ASSUME NEW i \in 1 .. t, Transforms[i].family # "object_pose"
        PROVE  DrawsOf(more, "transformed", Transforms[i].name, k) # {}
    <2>1. CASE i = t
      BY <1>4, <2>1
    <2>2. CASE i # t
      <3>1. i \in 1 .. done
        BY <2>2, Sizes
      <3>2. DrawsOf(filed, "transformed", Transforms[i].name, k) # {}
        BY <1>6, <3>1 DEF Filed
      <3>. QED  BY <1>5, <3>2
    <2>. QED  BY <2>1, <2>2
  <1>7. Filed(more, k, m, t, {}, {})
    BY <1>3, <1>6 DEF Filed
  <1>. QED  BY <1>7 DEF more, With

\* A shifted call.
LEMMA FileShifted ==
    ASSUME NEW filed, NEW e, NEW k, NEW m, NEW t, NEW minus, NEW plus, NEW d,
           NEW o \in Interventions,
           e.step = k, e.call = [kind |-> "intervention", name |-> o, draw |-> d],
           Filed(filed, k, m, t, minus, plus)
    PROVE  Filed(filed \cup {e}, k, m, t, IF o = "minus" THEN minus \cup {d} ELSE minus,
                 IF o = "plus" THEN plus \cup {d} ELSE plus)
  <1>1. e.call.kind = "intervention" /\ e.call.name = o /\ e.call.draw = d
    OBVIOUS
  <1>2. e.call.kind # "original" /\ e.call.kind # "transformed"
    BY <1>1
  <1> DEFINE more == With(filed, e)
  <1>3. \A name : /\ DrawsOf(more, "original", name, k) = DrawsOf(filed, "original", name, k)
                 /\ DrawsOf(more, "transformed", name, k) = DrawsOf(filed, "transformed", name, k)
    BY <1>2, DrawsGrow
  <1>4. DrawsOf(more, "intervention", o, k) = DrawsOf(filed, "intervention", o, k) \cup {d}
    BY <1>1, DrawsGrow
  <1>5. \A name : name # o => DrawsOf(more, "intervention", name, k)
                                = DrawsOf(filed, "intervention", name, k)
    BY <1>1, DrawsGrow
  <1> HIDE DEF more
  <1>6. Filed(more, k, m, t, IF o = "minus" THEN minus \cup {d} ELSE minus,
              IF o = "plus" THEN plus \cup {d} ELSE plus)
    BY <1>3, <1>4, <1>5 DEF Filed, Interventions
  <1>. QED  BY <1>6 DEF more, With

\* The cache after the d-th original call.
LEMMA CacheGrows ==
    ASSUME NEW k \in Nat, NEW d \in Nat, d > 0
    PROVE  LET before == Originals(k, d - 1)
               key    == <<k, d>>
           IN /\ key \notin DOMAIN before
              /\ [x \in DOMAIN before \cup {key} |->
                     IF x = key THEN [draw |-> d, input |-> Raw(k)] ELSE before[x]]
                   = Originals(k, d)
  <1> DEFINE before == Originals(k, d - 1)
             key    == <<k, d>>
             keys   == {<<k, c>> : c \in 1 .. d - 1}
             raw    == Raw(k)
             after  == [x \in DOMAIN before \cup {key} |->
                           IF x = key THEN [draw |-> d, input |-> raw] ELSE before[x]]
             full   == [x \in {<<k, c>> : c \in 1 .. d} |-> [draw |-> x[2], input |-> raw]]
  <1>1. DOMAIN before = keys
    BY DEF Originals
  <1>2. key \notin keys
    OBVIOUS
  <1>3. keys \cup {key} = {<<k, c>> : c \in 1 .. d}
    OBVIOUS
  <1>4. ASSUME NEW x \in keys
        PROVE  before[x] = [draw |-> x[2], input |-> raw]
    BY DEF Originals
  <1> HIDE DEF raw, before
  <1>5. after = full
    <2>1. DOMAIN after = {<<k, c>> : c \in 1 .. d}
      BY <1>1, <1>3
    <2>2. ASSUME NEW x \in {<<k, c>> : c \in 1 .. d} PROVE after[x] = full[x]
      <3>1. CASE x = key
        <4>1. x[2] = d
          BY <3>1
        <4>2. after[x] = [draw |-> d, input |-> raw]
          BY <3>1
        <4>. QED  BY <2>2, <4>1, <4>2
      <3>2. CASE x # key
        <4>1. x \in keys
          BY <1>3, <3>2
        <4>2. after[x] = before[x]
          BY <1>1, <3>2, <4>1
        <4>3. full[x] = [draw |-> x[2], input |-> raw]
          OBVIOUS
        <4>. QED  BY <1>4, <4>1, <4>2, <4>3
      <3>. QED  BY <3>1, <3>2
    <2>. QED  BY <2>1, <2>2
  <1>6. full = Originals(k, d)
    BY DEF Originals, raw
  <1>. QED  BY <1>1, <1>2, <1>5, <1>6, Zenon DEF before, raw

-----------------------------------------------------------------------------
(* One step of the scorer. *)

Inv == RolloutInvariant /\ ScoringInvariant

\* Scoring leaves the episode alone.
LEMMA EpisodeStays ==
    ASSUME RolloutInvariant, UNCHANGED rolloutVars
    PROVE  /\ RolloutInvariant' /\ world' = world /\ artifact' = artifact /\ rpc' = rpc
           /\ ActionCount' = ActionCount
  BY RolloutKept DEF rolloutVars, ActionCount

\* A temporary edit of a replayed runtime, and its undoing.
LEMMA Edits ==
    ASSUME NEW n \in Nat, NEW f, NEW e
    PROVE  /\ Edited(RuntimeAfter(n, f), NoEdit) = RuntimeAfter(n, f)
           /\ Edited(Edited(RuntimeAfter(n, f), e), NoEdit) = RuntimeAfter(n, f)
           /\ Edited(RuntimeAfter(n, f), e).edit = e
           /\ Edited(RuntimeAfter(n, f), e).terminal = f
           /\ Edited(RuntimeAfter(n, f), e).phase = 0
           /\ RuntimeAfter(n, f).edit = NoEdit /\ RuntimeAfter(n, f).terminal = f
           /\ RuntimeAfter(n, f).phase = 0
  <1> DEFINE yes == TRUE
             t   == Settled + n * Period
             now == Moment(n)
             no  == NoEdit
             r   == Runtime(t, no, 0, now, n, f, yes)
             r1  == Runtime(t, e, 0, now, n, f, yes)
  <1>1. RuntimeAfter(n, f) = r
    BY AfterSteps
  <1> HIDE DEF yes, t, now, no
  <1>2. Edited(r, no) = r /\ Edited(r, e) = r1 /\ Edited(r1, no) = r
    BY DEF Runtime, Edited
  <1>3. /\ r.edit = no /\ r.terminal = f /\ r.phase = 0
        /\ r1.edit = e /\ r1.terminal = f /\ r1.phase = 0
    BY DEF Runtime
  <1> HIDE DEF r, r1
  <1>. QED  BY <1>1, <1>2, <1>3 DEF no

\* The recorded frame of the state being scored.
LEMMA FactualIs ==
    ASSUME PublishedEpisode, at \in 1 .. ActionCount + 1
    PROVE  /\ Factual = FrameAfter(at - 1) /\ Factual.raw = Raw(at - 1) /\ Factual.step = at - 1
           /\ at - 1 \in Nat
  <1>1. Factual = FrameAfter(at - 1) /\ at - 1 \in Nat
    BY DEF PublishedEpisode, Factual
  <1>. QED  BY <1>1, FrameExact DEF Raw

\* The replayed runtime outside and inside an edit.
LEMMA ReplayedIs ==
    ASSUME RolloutInvariant, Walking
    PROVE  /\ PublishedEpisode /\ world \in Worlds /\ rpc = "published" /\ world.reasons = {}
           /\ at \in 1 .. ActionCount + 1 /\ at - 1 \in Nat /\ replayed.terminal \in BOOLEAN
           /\ ~Editing => replayed = RuntimeAfter(at - 1, replayed.terminal) /\ replayed.edit = NoEdit
           /\ Editing => replayed = Edited(RuntimeAfter(at - 1, replayed.terminal), Edit.name)
  <1>1. /\ rpc = "published" /\ at \in 1 .. ActionCount + 1 /\ replayed.terminal \in BOOLEAN
        /\ world.reasons = {}
    BY DEF Walking, ReplayExact
  <1>2. PublishedEpisode /\ world \in Worlds
    BY <1>1, Published
  <1>3. at - 1 \in Nat
    BY <1>1, <1>2 DEF PublishedEpisode
  <1> DEFINE f == replayed.terminal
             n == at - 1
  <1>4. CASE Editing
    <2>1. replayed = Edited(RuntimeAfter(n, f), Edit.name)
      BY <1>4 DEF Walking, ReplayExact
    <2>. QED  BY <1>1, <1>2, <1>3, <1>4, <2>1
  <1>5. CASE ~Editing
    <2>1. replayed = Edited(RuntimeAfter(n, f), NoEdit)
      BY <1>5 DEF Walking, ReplayExact
    <2>2. Edited(RuntimeAfter(n, f), NoEdit) = RuntimeAfter(n, f)
          /\ RuntimeAfter(n, f).edit = NoEdit
      <3> HIDE DEF n, f
      <3>1. n \in Nat
        BY <1>3 DEF n
      <3>. QED  BY <3>1, Edits
    <2>3. replayed = RuntimeAfter(n, f)
      BY <2>1, <2>2, Zenon
    <2>4. replayed.edit = NoEdit
      <3> HIDE DEF n, f
      <3>. QED  BY <2>2, <2>3
    <2>. QED  BY <1>1, <1>2, <1>3, <1>5, <2>3, <2>4
  <1>. QED  BY <1>4, <1>5

\* While nothing is filed and the state stays the same, what is filed stays right.
LEMMA ProgressKept ==
    ASSUME Walking, at' = at, arrays' = arrays, cache' = cache, ActionCount' = ActionCount,
           work # Done,
           \/ /\ work' # Done /\ OriginalsDone(work') = OriginalsDone(work)
              /\ Filed(arrays, at - 1, OriginalsDone(work'), TransformsDone(work'),
                       MinusDone(work'), PlusDone(work'))
           \/ work' = Done /\ StateComplete(arrays, at - 1)
    PROVE  CacheRight' /\ ArraysFilled'
  <1>1. CacheRight /\ ArraysFilled /\ Scoring
    BY DEF Walking, Scoring
  <1>2. CacheRight'
    BY <1>1 DEF CacheRight, Scoring
  <1>3. \A k \in Strided(ActionCount)' : k < at' - 1 => StateComplete(arrays', k)
    <2>1. Strided(ActionCount)' = Strided(ActionCount)
      BY DEF Strided
    <2>. QED  BY <1>1, <2>1 DEF ArraysFilled
  <1>4. at' <= ActionCount' /\ (at' - 1) % Stride = 0 =>
           IF work' # Done THEN Filed(arrays', at' - 1, OriginalsDone(work'), TransformsDone(work'),
                                 MinusDone(work'), PlusDone(work'))
           ELSE StateComplete(arrays', at' - 1)
    OBVIOUS
  <1>. QED  BY <1>2, <1>3, <1>4 DEF ArraysFilled, Scoring

\* What an entry measured stays what it measured.
LEMMA MeasuredStays ==
    ASSUME \A e \in arrays : Measured(e), ActionCount' = ActionCount, at \in Int, at' \in Int,
           at' >= at
    PROVE  \A e \in arrays : Measured(e)'
  <1>1. ASSUME NEW e \in arrays PROVE Measured(e)'
    <2>1. Measured(e)
      OBVIOUS
    <2>2. e.step <= at' - 1
      BY <2>1 DEF Measured
    <2>. QED  BY <2>1, <2>2 DEF Measured, Raw, Moment, Settled
  <1>. QED  BY <1>1

\* The first place: what every scored state starts from.
LEMMA ScoringStarts == Init => Inv
  <1> SUFFICES ASSUME Init PROVE Inv
    OBVIOUS
  <1>1. RolloutInvariant
    BY RolloutStarts DEF Init
  <1>2. ScoringInvariant
    BY Parameters DEF Init, RolloutInit, ScoringInit, ScoringInvariant, FreshRuntime, Editing
  <1>. QED  BY <1>1, <1>2 DEF Inv

\* The place of a loop by its name.
LEMMA PositionsAre ==
    ASSUME NEW w \in Positions
    PROVE  /\ w.op = "factual" => w = Position("factual", 0, 0)
           /\ w.op = "directions" => w = Position("directions", 0, 0)
           /\ w.op = "original" => \E d \in 1 .. OriginalDraws : w = Position("original", 0, d)
           /\ w.op = "transform" =>
                 \E t \in 1 .. Len(Transforms) : w = Position("transform", t, 0) /\ w.t = t
           /\ w.op = "transformed" =>
                 \E t \in 1 .. Len(Transforms) : \E d \in 1 .. CommonDraws :
                    w = Position("transformed", t, d)
           /\ w.op \in Interventions =>
                 \E directed \in SUBSET (1 .. CommonDraws) : \E d \in directed :
                    w = [op |-> w.op, t |-> 0, draw |-> d, directed |-> directed]
           /\ w # Done => w.op # "done"
           /\ Done.op = "done"
  <1>1. CASE w \in {Done, Position("factual", 0, 0), Position("directions", 0, 0)}
    BY <1>1, PositionIs DEF Done, Interventions
  <1>2. CASE \E d \in 1 .. OriginalDraws : w = Position("original", 0, d)
    BY <1>2, PositionIs DEF Done, Interventions
  <1>3. CASE \E t \in 1 .. Len(Transforms) : w = Position("transform", t, 0)
    BY <1>3, PositionIs DEF Done, Interventions
  <1>4. CASE \E t \in 1 .. Len(Transforms), d \in 1 .. CommonDraws : w = Position("transformed", t, d)
    BY <1>4, PositionIs DEF Done, Interventions
  <1>5. CASE w \in {v \in [op : Interventions, t : {0}, draw : 1 .. CommonDraws,
                           directed : SUBSET (1 .. CommonDraws)] : v.draw \in v.directed}
    <2>1. /\ w.op \in Interventions /\ w.directed \in SUBSET (1 .. CommonDraws)
          /\ w.draw \in w.directed
          /\ w = [op |-> w.op, t |-> 0, draw |-> w.draw, directed |-> w.directed]
      BY <1>5
    <2>2. w.op \in {"minus", "plus"}
      BY <2>1 DEF Interventions
    <2>3. \E directed \in SUBSET (1 .. CommonDraws) : \E d \in directed :
                    w = [op |-> w.op, t |-> 0, draw |-> d, directed |-> directed]
      BY <2>1
    <2>4. Done.op = "done"
      BY PositionIs DEF Done
    <2>. QED  BY <2>2, <2>3, <2>4
  <1>. QED  BY <1>1, <1>2, <1>3, <1>4, <1>5 DEF Positions

\* A step that leaves the runtime, the random state, the queue, the cache, the arrays and
\* the state scored alone, and goes on to a place where as much is done.
LEMMA PlaceKept ==
    ASSUME Inv, spc = "walk", UNCHANGED <<rolloutVars, spc, at, cache, arrays, rng, queue, fault, sidecar>>,
           replayed' = replayed, work # Done, work' \in Positions,
           \/ /\ work' # Done /\ OriginalsDone(work') = OriginalsDone(work)
              /\ TransformsDone(work') = TransformsDone(work)
              /\ MinusDone(work') = MinusDone(work) /\ PlusDone(work') = PlusDone(work)
           \/ work' = Done /\ StateComplete(arrays, at - 1),
           ViewRight'
    PROVE  Inv'
  <1>1. /\ RolloutInvariant' /\ world' = world /\ artifact' = artifact /\ rpc' = rpc
        /\ ActionCount' = ActionCount
    BY EpisodeStays DEF Inv
  <1>2. Walking /\ ~Editing /\ ~Editing'
    BY DEF Inv, ScoringInvariant, Editing
  <1>3. /\ PublishedEpisode /\ at \in 1 .. ActionCount + 1 /\ ActionCount \in Nat
    BY <1>2, ReplayedIs DEF Inv, PublishedEpisode
  <1>4. ReplayExact'
    BY <1>1, <1>2 DEF Walking, ReplayExact, RuntimeAfter, Moment, Settled
  <1>5. FaultNoticed'
    BY <1>2 DEF Walking, FaultNoticed
  <1>6. Scoring /\ at <= ActionCount /\ (at - 1) % Stride = 0
    BY <1>2 DEF Scoring, Walking, PositionOK
  <1>7. PositionOK'
    BY <1>1, <1>2, <1>6 DEF PositionOK
  <1>8. \/ /\ work' # Done /\ OriginalsDone(work') = OriginalsDone(work)
           /\ Filed(arrays, at - 1, OriginalsDone(work'), TransformsDone(work'),
                       MinusDone(work'), PlusDone(work'))
        \/ work' = Done /\ StateComplete(arrays, at - 1)
    BY <1>2, <1>6 DEF Walking, ArraysFilled
  <1>9. CacheRight' /\ ArraysFilled'
    BY <1>1, <1>2, <1>8, ProgressKept
  <1>10. \A e \in arrays' : Measured(e)'
    BY <1>1, <1>3, MeasuredStays DEF Inv, ScoringInvariant
  <1>11. Walking'
    BY <1>4, <1>5, <1>7, <1>9 DEF Walking
  <1>12. ScoringInvariant'
    BY <1>1, <1>2, <1>10, <1>11 DEF Inv, ScoringInvariant
  <1>. QED  BY <1>1, <1>12 DEF Inv

\* The forced read of an unedited runtime.
LEMMA ReadSpares ==
    ASSUME RolloutInvariant, Walking, ~Editing
    PROVE  AfterForcedRead(replayed) = replayed
  <1> DEFINE n == at - 1
             f == replayed.terminal
  <1>1. n \in Nat /\ replayed = RuntimeAfter(n, f)
    BY ReplayedIs
  <1> HIDE DEF n, f
  <1>2. AfterForcedRead(Edited(RuntimeAfter(n, f), NoEdit)) = Edited(RuntimeAfter(n, f), NoEdit)
    BY <1>1, ForcedReadSpares
  <1>3. Edited(RuntimeAfter(n, f), NoEdit) = RuntimeAfter(n, f)
    BY <1>1, Edits
  <1>. QED  BY <1>1, <1>2, <1>3

\* The factual observation.
LEMMA FactualKept == ASSUME Inv, ObserveFactual PROVE Inv'
  <1>1. /\ spc = "walk" /\ work.op = "factual" /\ work' = Position("original", 0, 1)
        /\ view' = Factual.raw /\ replayed' = AfterForcedRead(replayed)
        /\ UNCHANGED <<rolloutVars, spc, at, cache, arrays, rng, queue, fault, sidecar>>
    BY DEF ObserveFactual, NextIs, ProcessObservation
  <1>2. Walking /\ ~Editing /\ RolloutInvariant /\ work \in Positions
    BY <1>1 DEF Inv, ScoringInvariant, Editing, Walking, PositionOK
  <1>3. replayed' = replayed
    BY <1>1, <1>2, ReadSpares
  <1>4. work = Position("factual", 0, 0)
    BY <1>1, <1>2, PositionsAre
  <1>5. /\ work # Done /\ work' # Done /\ work' \in Positions
        /\ OriginalsDone(work') = OriginalsDone(work) /\ TransformsDone(work') = TransformsDone(work)
        /\ MinusDone(work') = MinusDone(work) /\ PlusDone(work') = PlusDone(work)
    BY <1>1, <1>4, Beginnings DEF At
  <1>6. view' = Raw(at - 1)
    BY <1>1, <1>2, ReplayedIs, FactualIs
  <1>7. work'.op = "original"
    BY <1>1, PositionIs
  <1>8. ViewRight'
    <2>1. at' = at /\ spc' = "walk"
      BY <1>1
    <2>. QED  BY <1>6, <1>7, <2>1 DEF ViewRight, Raw, Moment, Settled
  <1>. QED  BY <1>1, <1>3, <1>5, <1>8, PlaceKept

\* A photometric edit.
LEMMA BrightnessKept == ASSUME Inv, BrightnessFrame PROVE Inv'
  <1>1. /\ spc = "walk" /\ work.op = "transform" /\ work' = Position("transformed", work.t, 1)
        /\ view' = Edited(Factual.raw, Edit.name) /\ replayed' = AfterForcedRead(replayed)
        /\ UNCHANGED <<rolloutVars, spc, at, cache, arrays, rng, queue, fault, sidecar>>
    BY DEF BrightnessFrame, NextIs, ProcessObservation
  <1>2. Walking /\ ~Editing /\ RolloutInvariant /\ work \in Positions
    BY <1>1 DEF Inv, ScoringInvariant, Editing, Walking, PositionOK
  <1>3. replayed' = replayed
    BY <1>1, <1>2, ReadSpares
  <1>4. PICK t \in 1 .. Len(Transforms) : work = Position("transform", t, 0) /\ work.t = t
    BY <1>1, <1>2, PositionsAre
  <1>5. work' = Position("transformed", t, 1)
    BY <1>1, <1>4
  <1>6. /\ work # Done /\ work' # Done /\ work' \in Positions
        /\ OriginalsDone(work') = OriginalsDone(work) /\ TransformsDone(work') = TransformsDone(work)
        /\ MinusDone(work') = MinusDone(work) /\ PlusDone(work') = PlusDone(work)
    <2>1. work # Done
      BY <1>1, PositionIs DEF Done
    <2>. QED  BY <1>4, <1>5, <2>1, Beginnings DEF At
  <1>7. Factual.raw = Raw(at - 1)
    BY <1>2, ReplayedIs, FactualIs
  <1>8. work'.op = "transformed" /\ work'.t = work.t
    BY <1>4, <1>5, PositionIs
  <1>9. ViewRight'
    <2>1. at' = at /\ spc' = "walk" /\ Edit' = Edit
      BY <1>1, <1>8 DEF Edit
    <2>2. view' = Edited(Raw(at' - 1), Edit'.name)
      BY <1>1, <1>7, <2>1
    <2>. QED  BY <1>8, <2>1, <2>2 DEF ViewRight, Raw, Moment, Settled, Edited
  <1>. QED  BY <1>1, <1>3, <1>6, <1>9, PlaceKept

\* The directions.
LEMMA DirectionsKept == ASSUME Inv, ProbeDirections PROVE Inv'
  <1>1. /\ spc = "walk" /\ work.op = "directions" /\ view' = Factual.raw
        /\ UNCHANGED <<rolloutVars, spc, at, cache, arrays, rng, queue, fault, sidecar>>
        /\ replayed' = replayed
    BY DEF ProbeDirections, NextIs
  <1>2. PICK directed \in SUBSET (1 .. CommonDraws) : work' = NextDirected("minus", 0, directed)
    BY DEF ProbeDirections
  <1>3. Walking /\ ~Editing /\ RolloutInvariant /\ work \in Positions
    BY <1>1 DEF Inv, ScoringInvariant, Editing, Walking, PositionOK
  <1>4. work = Position("directions", 0, 0)
    BY <1>1, <1>3, PositionsAre
  <1>5. At(work, OriginalDraws, Len(Transforms), {}, {}) /\ work # Done
    BY <1>4, Beginnings
  <1>6. view' = Raw(at - 1)
    BY <1>1, <1>3, ReplayedIs, FactualIs
  <1>7. CASE work' = Done /\ directed = {}
    <2>1. StateComplete(arrays, at - 1)
      <3>1. Filed(arrays, at - 1, OriginalDraws, Len(Transforms), {}, {})
        BY <1>3, <1>5 DEF Walking, ArraysFilled, At, Scoring, PositionOK
      <3>. QED  BY <3>1 DEF StateComplete
    <2>2. work'.op = "done" /\ work' \in Positions
      BY <1>7, PositionIs DEF Done, Positions
    <2>3. ViewRight'
      BY <1>1, <2>2 DEF ViewRight
    <2>. QED  BY <1>1, <1>5, <1>7, <2>1, <2>2, <2>3, PlaceKept
  <1>8. CASE At(work', OriginalDraws, Len(Transforms), {}, {}) /\ work' # Done /\ work'.op = "minus"
    <2>1. ViewRight'
      <3>1. at' = at /\ spc' = "walk"
        BY <1>1
      <3>. QED  BY <1>6, <1>8, <3>1 DEF ViewRight, Raw, Moment, Settled
    <2>2. /\ work' # Done /\ work' \in Positions
          /\ OriginalsDone(work') = OriginalsDone(work)
          /\ TransformsDone(work') = TransformsDone(work)
          /\ MinusDone(work') = MinusDone(work) /\ PlusDone(work') = PlusDone(work)
      BY <1>5, <1>8 DEF At
    <2>. QED  BY <1>1, <1>5, <2>1, <2>2, PlaceKept
  <1>. QED  BY <1>2, <1>7, <1>8, AfterDirections

\* Nothing outside the scorer went wrong.
LEMMA CommitsNothing ==
    ASSUME Commits(NoFault)
    PROVE  fault' = fault \/ (fault = NoFault /\ fault' = NoFault)
  BY DEF Commits

\* A fault was committed.
LEMMA CommitsFault ==
    ASSUME NEW f, f # NoFault, Commits(f)
    PROVE  fault = NoFault /\ fault' = f /\ f \in Faults
  BY DEF Commits

\* A simulator edit.
LEMMA EditKept == ASSUME Inv, EditSimulator PROVE Inv'
  <1> DEFINE edited == Edited(replayed, Edit.name)
  <1>1. /\ spc = "walk" /\ work.op = "transform" /\ ~Photometric(Edit)
        /\ UNCHANGED <<rolloutVars, at, work, cache, arrays, rng, queue, sidecar>>
        /\ \/ /\ replayed' = AfterForcedRead(edited) /\ view' = ForcedObservation(edited)
              /\ spc' \in {"edited", "unwind"}
           \/ /\ Edit.family = "object_pose" /\ replayed' = edited /\ view' = view
              /\ spc' \in {"unavailable", "unwind"}
        /\ Commits(IF spc' = "unwind" THEN "exception" ELSE NoFault)
    BY DEF EditSimulator, NextIs
  <1>2. Walking /\ ~Editing /\ RolloutInvariant /\ work \in Positions
    BY <1>1 DEF Inv, ScoringInvariant, Editing, Walking, PositionOK
  <1>3. /\ RolloutInvariant' /\ world' = world /\ artifact' = artifact /\ rpc' = rpc
        /\ ActionCount' = ActionCount
    BY <1>1, EpisodeStays DEF Inv
  <1>4. Editing' /\ Edit' = Edit
    BY <1>1 DEF Editing, Edit
  <1> DEFINE n == at - 1
             f == replayed.terminal
             e == Edit.name
  <1>5. /\ replayed = RuntimeAfter(n, f) /\ n \in Nat /\ f \in BOOLEAN
        /\ at \in 1 .. ActionCount + 1 /\ rpc = "published" /\ world.reasons = {} /\ PublishedEpisode
    BY <1>2, ReplayedIs
  <1>6. /\ edited = Edited(RuntimeAfter(n, f), e)
        /\ AfterForcedRead(edited) = edited /\ ForcedObservation(edited) = Edited(Raw(n), e)
        /\ edited.terminal = f /\ edited.phase = 0
    <2>1. edited = Edited(RuntimeAfter(n, f), e)
      BY <1>5, Zenon
    <2> HIDE DEF n, f, e, edited
    <2>2. /\ AfterForcedRead(Edited(RuntimeAfter(n, f), e)) = Edited(RuntimeAfter(n, f), e)
          /\ ForcedObservation(Edited(RuntimeAfter(n, f), e)) = Edited(Moment(n), e)
      BY <1>5, ForcedReadSpares
    <2>3. Edited(RuntimeAfter(n, f), e).terminal = f /\ Edited(RuntimeAfter(n, f), e).phase = 0
      BY <1>5, Edits
    <2>. QED  BY <2>1, <2>2, <2>3 DEF Raw
  <1>7. /\ replayed' = edited
        /\ spc' = "edited" => view' = Edited(Raw(n), e)
        /\ spc' = "unavailable" => Edit.family = "object_pose"
        /\ spc' \in {"edited", "unavailable", "unwind"}
    BY <1>1, <1>6
  <1>8. replayed'.terminal = f /\ replayed'.phase = 0
    BY <1>6, <1>7
  <1>9. ReplayExact'
    <2>1. replayed' = Edited(RuntimeAfter(n, replayed'.terminal), e)
      <3> HIDE DEF n, f, e, edited
      <3>. QED  BY <1>6, <1>7, <1>8
    <2>2. at' = at
      BY <1>1
    <2>. QED  BY <1>3, <1>4, <1>5, <1>8, <2>1, <2>2
         DEF ReplayExact, RuntimeAfter, Moment, Settled
  <1>10. FaultNoticed' /\ fault' \in Faults \cup {NoFault}
    <2>1. FaultNoticed /\ fault \in Faults \cup {NoFault}
      BY <1>2 DEF Walking, Inv, ScoringInvariant
    <2>2. CASE spc' = "unwind"
      <3>1. fault = NoFault /\ fault' = "exception" /\ "exception" \in Faults
        <4>1. Commits("exception")
          BY <1>1, <2>2
        <4>2. "exception" # NoFault
          BY DEF NoFault
        <4>. QED  BY <4>1, <4>2, CommitsFault
      <3>. QED  BY <1>1, <2>1, <2>2, <3>1 DEF FaultNoticed, NoFault
    <2>3. CASE spc' # "unwind"
      <3>1. fault' = fault
        BY <1>1, <2>3, CommitsNothing
      <3>. QED  BY <1>1, <2>1, <2>3, <3>1 DEF FaultNoticed
    <2>. QED  BY <2>2, <2>3
  <1>11. Scoring /\ at <= ActionCount /\ (at - 1) % Stride = 0
    <2>1. work # Done
      BY <1>1, PositionIs DEF Done
    <2>. QED  BY <1>2, <2>1 DEF Scoring, Walking, PositionOK
  <1>12. PositionOK'
    BY <1>1, <1>2, <1>3, <1>4, <1>7, <1>11 DEF PositionOK, Photometric
  <1>13. ViewRight'
    <2>1. work' = work /\ at' = at
      BY <1>1
    <2>. QED  BY <1>1, <1>4, <1>7, <2>1 DEF ViewRight, Raw, Moment, Settled, Edited
  <1>14. CacheRight' /\ ArraysFilled'
    <2>1. /\ work' = work /\ at' = at /\ arrays' = arrays /\ cache' = cache /\ work # Done
      BY <1>1, <1>11 DEF Scoring
    <2>2. Filed(arrays, at - 1, OriginalsDone(work'), TransformsDone(work'),
                       MinusDone(work'), PlusDone(work'))
      BY <1>2, <1>11, <2>1 DEF Walking, ArraysFilled
    <2>. QED  BY <1>2, <1>3, <2>1, <2>2, ProgressKept
  <1>15. \A x \in arrays' : Measured(x)'
    BY <1>1, <1>3, <1>5, MeasuredStays DEF Inv, ScoringInvariant, PublishedEpisode
  <1>16. Walking'
    BY <1>9, <1>10, <1>12, <1>13, <1>14 DEF Walking
  <1>17. ScoringInvariant'
    BY <1>1, <1>3, <1>4, <1>5, <1>7, <1>8, <1>10, <1>15, <1>16 DEF Inv, ScoringInvariant
  <1>. QED  BY <1>3, <1>17 DEF Inv

\* A failure, with what is left then.
LEMMA FailureKept ==
    ASSUME Inv, spc = "walk" \/ Editing, UNCHANGED <<rolloutVars, arrays, sidecar>>,
           at \in Int, at' \in Int, at' >= at, at' \in 1 .. MaxSteps + 1,
           Raise, fault' \in Faults, fault' # NoFault, replayed'.edit = NoEdit \/ fault' = "restore",
           replayed'.phase = 0
    PROVE  Inv'
  <1>1. /\ RolloutInvariant' /\ rpc' = rpc /\ ActionCount' = ActionCount
    BY EpisodeStays DEF Inv
  <1>2. spc' = "failed" /\ rng' = InitialRng /\ ~Editing'
    BY DEF Raise, Editing
  <1>3. Verdict'
    BY <1>2 DEF Verdict
  <1>4. \A x \in arrays' : Measured(x)'
    BY <1>1, MeasuredStays DEF Inv, ScoringInvariant
  <1>5. sidecar' = {}
    BY DEF Inv, ScoringInvariant, Editing
  <1>6. rpc' = "published"
    BY <1>1 DEF Inv, ScoringInvariant, Editing
  <1>7. ScoringInvariant'
    BY <1>2, <1>3, <1>4, <1>5, <1>6 DEF ScoringInvariant
  <1>. QED  BY <1>1, <1>7 DEF Inv

\* The restore in the finally clause.
LEMMA RestoreKept == ASSUME Inv, RestoreSimulator PROVE Inv'
  <1> DEFINE restored == Edited(replayed, NoEdit)
             n == at - 1
             f == replayed.terminal
             e == Edit.name
  <1>1. /\ Editing
        /\ UNCHANGED <<rolloutVars, at, view, cache, arrays, queue, sidecar>>
        /\ \/ /\ Commits(NoFault)
              /\ replayed' = IF spc = "edited" THEN AfterForcedRead(restored) ELSE restored
           \/ Commits("restore") /\ replayed' = replayed
        /\ IF spc = "unwind" \/ replayed'.edit # NoEdit
           THEN Raise
           ELSE /\ spc' = "walk" /\ rng' = rng
                /\ work' = IF spc = "edited" THEN Position("transformed", work.t, 1)
                           ELSE NextTransform(work.t)
    BY DEF RestoreSimulator
  <1>2. /\ Walking /\ RolloutInvariant /\ work \in Positions /\ work.op = "transform"
        /\ spc \in {"edited", "unavailable", "unwind"}
    BY <1>1 DEF Inv, ScoringInvariant, Editing, Walking, PositionOK
  <1>3. /\ RolloutInvariant' /\ world' = world /\ artifact' = artifact /\ rpc' = rpc
        /\ ActionCount' = ActionCount
    BY <1>1, EpisodeStays DEF Inv
  <1>4. /\ replayed = Edited(RuntimeAfter(n, f), e) /\ n \in Nat /\ f \in BOOLEAN
        /\ at \in 1 .. ActionCount + 1 /\ rpc = "published" /\ world.reasons = {} /\ PublishedEpisode
    BY <1>1, <1>2, ReplayedIs
  <1>5. PICK t \in 1 .. Len(Transforms) : work = Position("transform", t, 0) /\ work.t = t
    BY <1>2, PositionsAre
  <1>6. e # NoEdit
    BY <1>5, Sizes DEF Edit
  <1>7. /\ restored = RuntimeAfter(n, f) /\ restored.edit = NoEdit /\ restored.terminal = f
        /\ restored.phase = 0 /\ replayed.edit = e /\ replayed.phase = 0
        /\ AfterForcedRead(restored) = restored
    <2>1. restored = Edited(Edited(RuntimeAfter(n, f), e), NoEdit)
      BY <1>4, Zenon
    <2> HIDE DEF n, f, e, restored
    <2>2. /\ Edited(Edited(RuntimeAfter(n, f), e), NoEdit) = RuntimeAfter(n, f)
          /\ Edited(RuntimeAfter(n, f), NoEdit) = RuntimeAfter(n, f)
          /\ RuntimeAfter(n, f).edit = NoEdit /\ RuntimeAfter(n, f).terminal = f
          /\ RuntimeAfter(n, f).phase = 0 /\ Edited(RuntimeAfter(n, f), e).edit = e
          /\ Edited(RuntimeAfter(n, f), e).phase = 0
      BY <1>4, Edits
    <2>3. AfterForcedRead(Edited(RuntimeAfter(n, f), NoEdit)) = Edited(RuntimeAfter(n, f), NoEdit)
      BY <1>4, ForcedReadSpares
    <2>. QED  BY <1>4, <2>1, <2>2, <2>3
  <1>8. at \in Int /\ at <= MaxSteps + 1 /\ at \in 1 .. MaxSteps + 1
    BY <1>4, Parameters DEF PublishedEpisode
  <1>9. FaultNoticed /\ fault \in Faults \cup {NoFault}
    BY <1>2 DEF Walking, Inv, ScoringInvariant
  <1>10. CASE Commits("restore") /\ replayed' = replayed
    <2>1. fault' = "restore" /\ "restore" \in Faults /\ "restore" # NoFault
      <3>1. "restore" # NoFault
        BY DEF NoFault
      <3>. QED  BY <1>10, <3>1, CommitsFault
    <2>2. Raise
      BY <1>1, <1>6, <1>7, <1>10
    <2>3. replayed'.phase = 0
      BY <1>7, <1>10
    <2>. QED  BY <1>1, <1>8, <2>1, <2>2, <2>3, FailureKept
  <1>11. CASE /\ Commits(NoFault)
              /\ replayed' = IF spc = "edited" THEN AfterForcedRead(restored) ELSE restored
    <2>1. replayed' = restored /\ fault' = fault
      BY <1>7, <1>11, CommitsNothing
    <2>2. replayed'.edit = NoEdit /\ replayed'.phase = 0
      BY <1>7, <2>1
    <2>3. CASE spc = "unwind"
      <3>1. fault = "exception" /\ fault \in Faults /\ fault # NoFault
        BY <1>9, <2>3 DEF FaultNoticed, NoFault
      <3>. QED  BY <1>1, <1>8, <2>1, <2>2, <2>3, <3>1, FailureKept
    <2>4. CASE spc # "unwind"
      <3>1. /\ spc' = "walk" /\ rng' = rng /\ ~Editing'
            /\ work' = IF spc = "edited" THEN Position("transformed", t, 1)
                           ELSE NextTransform(t)
        BY <1>1, <1>5, <2>2, <2>4 DEF Editing
      <3>2. /\ work' \in Positions /\ work' # Done
            /\ OriginalsDone(work') = OriginalDraws /\ MinusDone(work') = {} /\ PlusDone(work') = {}
            /\ spc = "edited" => /\ TransformsDone(work') = t - 1
                                 /\ work'.op = "transformed" /\ work'.t = t
            /\ spc = "unavailable" => /\ TransformsDone(work') = t
                                      /\ work'.op \in {"transform", "directions"}
        <4>1. CASE spc = "edited"
          BY <3>1, <4>1, Beginnings, PositionIs DEF At
        <4>2. CASE spc = "unavailable"
          <5>1. t \in 0 .. Len(Transforms)
            BY Sizes
          <5>. QED  BY <3>1, <4>2, <5>1, AfterTransform DEF At
        <4>. QED  BY <1>2, <2>4, <4>1, <4>2
      <3>3. Scoring /\ at <= ActionCount /\ (at - 1) % Stride = 0 /\ work # Done
        <4>1. work # Done
          BY <1>2, PositionIs DEF Done
        <4>. QED  BY <1>2, <4>1 DEF Scoring, Walking, PositionOK
      <3>4. Filed(arrays, n, OriginalDraws, t - 1, {}, {}) /\ OriginalsDone(work) = OriginalDraws
        <4>1. At(work, OriginalDraws, t - 1, {}, {})
          BY <1>5, Beginnings
        <4>. QED  BY <1>2, <3>3, <4>1 DEF Walking, ArraysFilled, At
      <3>5. Filed(arrays, n, OriginalDraws, TransformsDone(work'), {}, {})
        <4>1. CASE spc = "edited"
          BY <3>2, <3>4, <4>1
        <4>2. CASE spc = "unavailable"
          <5>1. Transforms[t].family = "object_pose"
            BY <1>2, <1>5, <4>2 DEF Walking, PositionOK, Edit
          <5>2. \A i \in 1 .. t : i = t \/ i \in 1 .. t - 1
            BY Sizes
          <5>3. Filed(arrays, n, OriginalDraws, t, {}, {})
            BY <3>4, <5>1, <5>2 DEF Filed
          <5>. QED  BY <3>2, <4>2, <5>3
        <4>. QED  BY <1>2, <2>4, <4>1, <4>2
      <3>6. CacheRight' /\ ArraysFilled'
        <4>1. at' = at /\ arrays' = arrays /\ cache' = cache
          BY <1>1
        <4>. QED  BY <1>2, <1>3, <3>2, <3>3, <3>4, <3>5, <4>1, ProgressKept
      <3>7. ReplayExact'
        <4>1. /\ replayed'.terminal = f /\ replayed' = RuntimeAfter(n, f)
          BY <1>7, <2>1
        <4>2. replayed' = Edited(RuntimeAfter(n, replayed'.terminal), NoEdit)
          <5> HIDE DEF n, f
          <5>1. Edited(RuntimeAfter(n, f), NoEdit) = RuntimeAfter(n, f)
            BY <1>4, Edits
          <5>. QED  BY <4>1, <5>1
        <4>3. at' = at
          BY <1>1
        <4>. QED  BY <1>3, <1>4, <3>1, <4>1, <4>2, <4>3
             DEF ReplayExact, RuntimeAfter, Moment, Settled
      <3>8. FaultNoticed'
        BY <1>1, <1>9, <2>1, <2>4, <3>1 DEF FaultNoticed
      <3>9. PositionOK'
        BY <1>1, <1>3, <3>1, <3>2, <3>3 DEF PositionOK
      <3>10. ViewRight'
        <4>1. at' = at /\ view' = view
          BY <1>1
        <4>2. CASE spc = "edited"
          <5>1. view = Edited(Raw(at - 1), Edit.name)
            BY <1>2, <4>2 DEF Walking, ViewRight
          <5>2. Edit' = Edit
            BY <1>5, <3>2, <4>2 DEF Edit
          <5>. QED  BY <3>1, <3>2, <4>1, <4>2, <5>1, <5>2
               DEF ViewRight, Raw, Moment, Settled, Edited
        <4>3. CASE spc = "unavailable"
          BY <3>1, <3>2, <4>3 DEF ViewRight
        <4>. QED  BY <1>2, <2>4, <4>2, <4>3
      <3>11. \A x \in arrays' : Measured(x)'
        BY <1>1, <1>3, <1>8, MeasuredStays DEF Inv, ScoringInvariant
      <3>12. Walking'
        BY <3>6, <3>7, <3>8, <3>9, <3>10 DEF Walking
      <3>13. sidecar' = {}
        BY <1>1 DEF Inv, ScoringInvariant, Editing
      <3>14. ScoringInvariant'
        BY <1>1, <1>3, <1>4, <1>8, <1>9, <2>1, <2>2, <3>1, <3>11, <3>12, <3>13
           DEF ScoringInvariant
      <3>. QED  BY <1>3, <3>14 DEF Inv
    <2>. QED  BY <2>3, <2>4
  <1>. QED  BY <1>1, <1>10, <1>11

\* The replayed step.
LEMMA StepKept == ASSUME Inv, StepReplay PROVE Inv'
  <1> DEFINE n == at - 1
             f == replayed.terminal
             over == Ended(FlagsAfter(n))
             next == StepEpisode(replayed)
  <1>1. /\ spc = "walk" /\ work = Done /\ at <= Len(artifact.actions)
        /\ at' = at + 1
        /\ \E d \in {NoFault, "drift"} :
              /\ Commits(d)
              /\ replayed' = [next EXCEPT !.time = IF d = "drift" THEN @ + 1 ELSE @]
        /\ IF /\ StepFlags(replayed) = artifact.flags[at]
              /\ TraceFrame(replayed', replayed'.seen) = artifact.frames[at + 1]
           THEN /\ UNCHANGED <<spc, rng>>
                /\ IF at' <= Len(artifact.actions) THEN EnterState(artifact.frames[at'])
                   ELSE UNCHANGED <<cache, work>>
           ELSE Raise /\ UNCHANGED cache
        /\ UNCHANGED <<rolloutVars, view, arrays, queue, sidecar>>
    BY DEF StepReplay
  <1>2. Walking /\ ~Editing /\ RolloutInvariant /\ ~Scoring
    BY <1>1 DEF Inv, ScoringInvariant, Editing, Scoring
  <1>3. /\ RolloutInvariant' /\ world' = world /\ artifact' = artifact /\ rpc' = rpc
        /\ ActionCount' = ActionCount
    BY <1>1, EpisodeStays DEF Inv
  <1>4. /\ replayed = RuntimeAfter(n, f) /\ n \in Nat /\ rpc = "published" /\ world.reasons = {}
        /\ at \in 1 .. ActionCount + 1 /\ PublishedEpisode /\ ActionCount \in Nat
        /\ ActionCount <= MaxSteps
    BY <1>2, ReplayedIs DEF PublishedEpisode
  <1>5. at \in 1 .. ActionCount /\ at = n + 1 /\ at' \in 1 .. ActionCount + 1
        /\ at' \in 1 .. MaxSteps + 1 /\ at' = n + 2 /\ at' >= at
    BY <1>1, <1>4, Parameters DEF ActionCount
  <1>6. /\ next = RuntimeAfter(n + 1, over) /\ StepFlags(replayed) = FlagsAfter(n)
    <2> HIDE DEF n, f
    <2>1. /\ StepEpisode(RuntimeAfter(n, f)) = RuntimeAfter(n + 1, Ended(FlagsAfter(n)))
          /\ StepFlags(RuntimeAfter(n, f)) = FlagsAfter(n)
      BY <1>4, StepExact, FlagsExact
    <2>2. replayed = RuntimeAfter(n, f)
      BY <1>4
    <2>. QED  BY <2>1, <2>2, Zenon
  <1>7. artifact.flags[at] = FlagsAfter(n) /\ artifact.frames[at + 1] = FrameAfter(n + 1)
    <2>1. /\ artifact.flags[at] = FlagsAfter(at - 1)
          /\ artifact.frames[at + 1] = FrameAfter((at + 1) - 1)
      BY <1>4, <1>5 DEF PublishedEpisode
    <2>2. (at + 1) - 1 = n + 1
      BY <1>5
    <2>. QED  BY <2>1, <2>2, Zenon
  <1>8. over \in BOOLEAN
    BY DEF Ended
  <1>9. next.time \in Nat /\ FrameAfter(n + 1).time = next.time /\ next.phase = 0
        /\ next.edit = NoEdit /\ next.terminal = over
    <2> DEFINE m == n + 1
               t == Settled + m * Period
    <2>1. m \in Nat /\ next = RuntimeAfter(m, over)
      BY <1>4, <1>6
    <2> HIDE DEF m, over, next
    <2>2. FrameAfter(m).time = t
      BY <2>1, FrameExact
    <2>3. t \in Nat
      BY <2>1, AfterSteps
    <2>4. RuntimeAfter(m, over) = Runtime(t, NoEdit, 0, Moment(m), m, over, TRUE)
      BY <2>1, AfterSteps
    <2>5. /\ RuntimeAfter(m, over).time = t /\ RuntimeAfter(m, over).phase = 0
          /\ RuntimeAfter(m, over).edit = NoEdit /\ RuntimeAfter(m, over).terminal = over
      BY <2>4 DEF Runtime
    <2>. QED  BY <2>1, <2>2, <2>3, <2>5 DEF m
  <1> HIDE DEF over
  <1>10. PICK d \in {NoFault, "drift"} :
              /\ Commits(d)
              /\ replayed' = [next EXCEPT !.time = IF d = "drift" THEN @ + 1 ELSE @]
    BY <1>1
  <1>11. CASE d = "drift"
    <2>1. replayed'.time = next.time + 1 /\ replayed'.edit = NoEdit /\ replayed'.phase = 0
      <3>1. next \in [time : Nat, edit : {NoEdit}, phase : {0}, seen : {Moment(n + 1)},
                      step : {n + 1}, terminal : {over}, hasReset : {TRUE}]
        <4>1. n + 1 \in Nat
          BY <1>4
        <4>2. next = Runtime(Settled + (n + 1) * Period, NoEdit, 0, Moment(n + 1), n + 1, over, TRUE)
              /\ Settled + (n + 1) * Period \in Nat
          BY <1>6, <4>1, AfterSteps
        <4>. QED  BY <4>2 DEF Runtime
      <3> HIDE DEF next
      <3>2. replayed' = [next EXCEPT !.time = next.time + 1]
        BY <1>10, <1>11
      <3>. QED  BY <3>1, <3>2
    <2>2. TraceFrame(replayed', replayed'.seen).time = next.time + 1
      BY <2>1 DEF TraceFrame
    <2>3. TraceFrame(replayed', replayed'.seen) # artifact.frames[at + 1]
      <3> HIDE DEF next
      <3>. QED  BY <1>7, <1>9, <2>2
    <2>4. Raise
      BY <1>1, <2>3
    <2>5. fault' = "drift" /\ "drift" \in Faults /\ "drift" # NoFault
      <3>1. "drift" # NoFault
        BY DEF NoFault
      <3>. QED  BY <1>10, <1>11, <3>1, CommitsFault
    <2>. QED  BY <1>1, <1>5, <2>1, <2>4, <2>5, FailureKept
  <1>12. CASE d = NoFault
    <2>1. replayed' = next /\ fault' = fault
      <3>1. NoFault # "drift"
        BY DEF NoFault
      <3>2. replayed' = [next EXCEPT !.time = next.time]
        BY <1>10, <1>12, <3>1
      <3>3. next = Runtime(Settled + (n + 1) * Period, NoEdit, 0, Moment(n + 1), n + 1, over, TRUE)
        <4>1. n + 1 \in Nat
          BY <1>4
        <4>. QED  BY <1>6, <4>1, AfterSteps
      <3> HIDE DEF next
      <3>4. [next EXCEPT !.time = next.time] = next
        BY <3>3 DEF Runtime
      <3>. QED  BY <1>10, <1>12, <3>2, <3>4, CommitsNothing
    <2>2. TraceFrame(replayed', replayed'.seen) = FrameAfter(n + 1)
      <3>1. replayed' = RuntimeAfter(n + 1, over) /\ n + 1 \in Nat
        BY <1>4, <1>6, <2>1
      <3>2. TraceFrame(RuntimeAfter(n + 1, over), RuntimeAfter(n + 1, over).seen) = FrameAfter(n + 1)
        BY <3>1, FrameExact
      <3>. QED  BY <3>1, <3>2, Zenon
    <2>3. /\ spc' = spc /\ rng' = rng
          /\ IF at' <= ActionCount THEN EnterState(artifact.frames[at'])
             ELSE UNCHANGED <<cache, work>>
      BY <1>1, <1>6, <1>7, <2>2 DEF ActionCount
    <2>4. ~Editing' /\ spc' = "walk"
      BY <1>1, <2>3 DEF Editing
    <2>5. at' <= ActionCount => artifact.frames[at'].step = n + 1
      <3>1. at' <= ActionCount => artifact.frames[at'] = FrameAfter(at' - 1) /\ at' - 1 = n + 1
        BY <1>4, <1>5 DEF PublishedEpisode
      <3>2. n + 1 \in Nat
        BY <1>4
      <3>. QED  BY <3>1, <3>2, FrameExact
    <2>6. \/ /\ at' <= ActionCount /\ (n + 1) % Stride = 0
             /\ work' = Position("factual", 0, 0) /\ cache' = [key \in {} |-> NoBase]
          \/ /\ at' > ActionCount \/ (n + 1) % Stride # 0
             /\ work' = Done
      <3>1. CASE at' <= ActionCount
        BY <1>1, <2>3, <2>5, <3>1 DEF EnterState, Scored
      <3>2. CASE ~(at' <= ActionCount)
        BY <1>1, <1>4, <1>5, <2>3, <3>2
      <3>. QED  BY <3>1, <3>2
    <2>7. ReplayExact'
      <3>1. replayed'.terminal = over
        BY <1>9, <2>1
      <3>2. at' - 1 = n + 1
        BY <1>5
      <3>3. replayed' = Edited(RuntimeAfter(at' - 1, replayed'.terminal), NoEdit)
        <4>1. Edited(RuntimeAfter(n + 1, over), NoEdit) = RuntimeAfter(n + 1, over)
          <5>1. n + 1 \in Nat
            BY <1>4
          <5>. QED  BY <5>1, Edits
        <4>. QED  BY <1>6, <2>1, <3>1, <3>2, <4>1
      <3>. QED  BY <1>3, <1>4, <1>5, <1>8, <2>4, <3>1, <3>3
           DEF ReplayExact, RuntimeAfter, Moment, Settled
    <2>8. FaultNoticed' /\ fault' \in Faults \cup {NoFault}
      BY <1>1, <1>2, <2>1, <2>3 DEF Walking, FaultNoticed, Inv, ScoringInvariant
    <2>9. at' - 1 = n + 1
      BY <1>5
    <2>10. PositionOK' /\ work'.op \in {"factual", "done"}
      <3>1. work' \in Positions /\ work'.op \in {"factual", "done"}
        BY <2>6, PositionIs DEF Positions, Done
      <3>. QED  BY <1>3, <2>4, <2>6, <2>9, <3>1 DEF PositionOK, Scoring
    <2>11. ViewRight'
      BY <2>4, <2>10 DEF ViewRight
    <2>12. /\ \A e \in arrays : e.step <= n
           /\ \A e \in arrays : Measured(e)
      BY <1>2 DEF Inv, ScoringInvariant, Measured
    <2>13. CacheRight'
      <3>1. CASE work' = Done
        BY <3>1 DEF CacheRight, Scoring
      <3>2. CASE work' = Position("factual", 0, 0) /\ cache' = [key \in {} |-> NoBase]
        <4>1. OriginalsDone(work') = 0
          BY <3>2, Beginnings DEF At
        <4>2. Originals(at' - 1, 0) = [key \in {} |-> NoBase]
          <5>1. {<<at' - 1, x>> : x \in 1 .. 0} = {}
            OBVIOUS
          <5>2. Originals(at' - 1, 0) = [key \in {} |-> [draw |-> key[2], input |-> Raw(at' - 1)]]
            BY <5>1 DEF Originals
          <5>. QED  BY <5>2
        <4>. QED  BY <3>2, <4>1, <4>2 DEF CacheRight, Originals, Raw, Moment, Settled
      <3>. QED  BY <2>6, <3>1, <3>2
    <2>14. ArraysFilled'
      <3>1. Strided(ActionCount)' = Strided(ActionCount) /\ Strided(ActionCount) \subseteq Int
        BY <1>3, <1>4 DEF Strided
      <3>2. ASSUME NEW k \in Strided(ActionCount), k < at' - 1
            PROVE  StateComplete(arrays, k)
        <4>1. CASE k < at - 1
          BY <1>2, <4>1 DEF Walking, ArraysFilled
        <4>2. CASE ~(k < at - 1)
          <5>1. k = at - 1 /\ k % Stride = 0
            BY <1>5, <2>9, <3>1, <3>2, <4>2 DEF Strided
          <5>. QED  BY <1>2, <1>4, <1>5, <5>1 DEF Walking, ArraysFilled
        <4>. QED  BY <4>1, <4>2
      <3>3. Filed(arrays, n + 1, 0, 0, {}, {})
        <4>1. \A e \in arrays : e.step # n + 1
          BY <1>4, <2>12 DEF Measured
        <4>. QED  BY <4>1, NothingFiled
      <3>4. work' = Position("factual", 0, 0) =>
              /\ OriginalsDone(work') = 0 /\ TransformsDone(work') = 0
              /\ MinusDone(work') = {} /\ PlusDone(work') = {} /\ work' # Done
        BY Beginnings DEF At
      <3>5. arrays' = arrays
        BY <1>1
      <3>6. \A k \in Strided(ActionCount)' : k < at' - 1 => StateComplete(arrays', k)
        BY <3>1, <3>2, <3>5
      <3>7. CASE work' = Position("factual", 0, 0)
        <4>1. Filed(arrays', at' - 1, OriginalsDone(work'), TransformsDone(work'),
                    MinusDone(work'), PlusDone(work'))
          BY <2>9, <3>3, <3>4, <3>5, <3>7
        <4>. QED  BY <3>4, <3>6, <3>7, <4>1 DEF ArraysFilled, Scoring
      <3>8. CASE at' > ActionCount \/ (n + 1) % Stride # 0
        <4>1. ~(at' <= ActionCount' /\ (at' - 1) % Stride = 0)
          BY <1>3, <1>4, <1>5, <2>9, <3>8
        <4>. QED  BY <3>6, <4>1 DEF ArraysFilled
      <3>. QED  BY <2>6, <3>7, <3>8
    <2>15. \A e \in arrays' : Measured(e)'
      BY <1>1, <1>3, <1>5, <2>12, MeasuredStays
    <2>16. Walking'
      BY <2>7, <2>8, <2>10, <2>11, <2>13, <2>14 DEF Walking
    <2>17. replayed'.phase = 0
      BY <1>9, <2>1
    <2>18. sidecar' = {}
      BY <1>1 DEF Inv, ScoringInvariant
    <2>19. ScoringInvariant'
      BY <1>3, <1>4, <1>5, <2>4, <2>8, <2>15, <2>16, <2>17, <2>18 DEF ScoringInvariant
    <2>. QED  BY <1>3, <2>19 DEF Inv
  <1>. QED  BY <1>10, <1>11, <1>12

\* An episode that cannot be replayed.
LEMMA RefuseKept == ASSUME Inv, ReplayRefuse PROVE Inv'
  <1>1. /\ spc = "start" /\ rpc = "published" /\ ~Replayable /\ spc' = "refused"
        /\ UNCHANGED <<rolloutVars, replayed, at, work, view, cache, arrays, rng, queue, fault, sidecar>>
    BY DEF ReplayRefuse
  <1>2. /\ RolloutInvariant' /\ world' = world /\ rpc' = rpc /\ ActionCount' = ActionCount
    BY <1>1, EpisodeStays DEF Inv
  <1>3. world.reasons # {}
    BY <1>1, ReplayableWhenValid DEF Inv
  <1>4. ScoringInit
    BY <1>1 DEF Inv, ScoringInvariant
  <1>5. Verdict'
    BY <1>1, <1>2, <1>3, <1>4 DEF Verdict, ScoringInit
  <1>6. arrays' = {} /\ ~Editing'
    BY <1>1, <1>4 DEF ScoringInit, Editing
  <1>7. ScoringInvariant'
    BY <1>1, <1>2, <1>4, <1>5, <1>6, Parameters DEF ScoringInvariant, ScoringInit, FreshRuntime
  <1>. QED  BY <1>2, <1>7 DEF Inv

\* The reset of the replay.
LEMMA ResetKept == ASSUME Inv, ReplayReset PROVE Inv'
  <1>1. /\ spc = "start" /\ rpc = "published" /\ Replayable
        /\ replayed' = ResetEpisode(replayed, world.reasons)
        /\ IF TraceFrame(replayed', replayed'.seen) = Factual
           THEN spc' = "walk" /\ EnterState(Factual) /\ UNCHANGED rng
           ELSE Raise /\ UNCHANGED cache
        /\ UNCHANGED <<rolloutVars, at, view, arrays, queue, fault, sidecar>>
    BY DEF ReplayReset
  <1>2. /\ RolloutInvariant' /\ world' = world /\ artifact' = artifact /\ rpc' = rpc
        /\ ActionCount' = ActionCount
    BY <1>1, EpisodeStays DEF Inv
  <1>3. ScoringInit /\ world.reasons = {} /\ PublishedEpisode
    BY <1>1, ReplayableWhenValid, Published DEF Inv, ScoringInvariant
  <1>4. /\ at = 1 /\ at - 1 = 0 /\ at \in 1 .. ActionCount + 1 /\ at <= ActionCount /\ ActionCount \in Nat
        /\ at \in 1 .. MaxSteps + 1 /\ arrays = {} /\ sidecar = {} /\ fault = NoFault
        /\ queue = InitialQueue /\ rng = InitialRng /\ replayed = FreshRuntime
    BY <1>3, Parameters DEF ScoringInit, PublishedEpisode
  <1> DEFINE f == "initial_task_success" \in world.reasons
  <1>5. replayed' = RuntimeAfter(0, f)
    BY <1>1, <1>4, ResetSettles
  <1>6. TraceFrame(replayed', replayed'.seen) = FrameAfter(0)
    <2>1. TraceFrame(RuntimeAfter(0, f), RuntimeAfter(0, f).seen) = FrameAfter(0)
      BY FrameExact
    <2>. QED  BY <1>5, <2>1, Zenon
  <1>7. Factual = FrameAfter(0) /\ Factual.step = 0
    BY <1>3, <1>4, FactualIs
  <1>8. /\ spc' = "walk" /\ rng' = rng /\ work' = Position("factual", 0, 0)
        /\ cache' = [key \in {} |-> NoBase]
    <2>1. 0 % Stride = 0
      BY Parameters
    <2>. QED  BY <1>1, <1>6, <1>7, <2>1 DEF EnterState, Scored
  <1>9. ~Editing' /\ at' = 1 /\ arrays' = {}
    BY <1>1, <1>4, <1>8 DEF Editing
  <1>10. ReplayExact' /\ replayed'.phase = 0
    <2>1. /\ Edited(RuntimeAfter(0, f), NoEdit) = RuntimeAfter(0, f)
          /\ RuntimeAfter(0, f).terminal = f /\ RuntimeAfter(0, f).phase = 0
      <3> HIDE DEF f
      <3>. QED  BY Edits
    <2>2. replayed' = Edited(RuntimeAfter(0, replayed'.terminal), NoEdit)
          /\ replayed'.phase = 0 /\ replayed'.terminal \in BOOLEAN
      <3>1. f \in BOOLEAN
        OBVIOUS
      <3> HIDE DEF f
      <3>. QED  BY <1>5, <2>1, <3>1
    <2>3. at' - 1 = 0
      BY <1>9
    <2>. QED  BY <1>1, <1>2, <1>3, <1>4, <1>9, <2>2, <2>3
         DEF ReplayExact, RuntimeAfter, Moment, Settled
  <1>11. FaultNoticed'
    BY <1>1, <1>4, <1>8 DEF FaultNoticed, NoFault
  <1>12. /\ work'.op = "factual" /\ work' \in Positions /\ work' # Done
         /\ OriginalsDone(work') = 0 /\ TransformsDone(work') = 0
         /\ MinusDone(work') = {} /\ PlusDone(work') = {}
    BY <1>8, Beginnings, PositionIs DEF At
  <1>13. PositionOK'
    <2>1. 0 % Stride = 0
      BY Parameters
    <2>. QED  BY <1>2, <1>4, <1>8, <1>9, <1>12, <2>1 DEF PositionOK
  <1>14. ViewRight'
    BY <1>8, <1>12 DEF ViewRight
  <1>15. CacheRight'
    <2>1. {<<at' - 1, x>> : x \in 1 .. 0} = {}
      OBVIOUS
    <2>2. Originals(at' - 1, 0) = [key \in {} |-> NoBase]
      <3>1. Originals(at' - 1, 0) = [key \in {} |-> [draw |-> key[2], input |-> Raw(at' - 1)]]
        BY <2>1 DEF Originals
      <3>. QED  BY <3>1
    <2>. QED  BY <1>8, <1>12, <2>2 DEF CacheRight, Originals, Raw, Moment, Settled
  <1>16. ArraysFilled'
    <2>1. Filed({}, 0, 0, 0, {}, {})
      BY NothingFiled
    <2>2. \A k \in Strided(ActionCount)' : ~(k < 0)
      BY <1>2, <1>4 DEF Strided
    <2>. QED  BY <1>9, <1>12, <2>1, <2>2 DEF ArraysFilled, Scoring
  <1>17. Walking'
    BY <1>10, <1>11, <1>13, <1>14, <1>15, <1>16 DEF Walking
  <1>18. ScoringInvariant'
    BY <1>1, <1>2, <1>4, <1>8, <1>9, <1>10, <1>17 DEF ScoringInvariant
  <1>. QED  BY <1>2, <1>18 DEF Inv

\* At the end of a walk the states filed are exactly the strided ones, each complete.
LEMMA AllFiled ==
    ASSUME Inv, spc = "walk", work = Done, at > ActionCount
    PROVE  /\ {e.step : e \in arrays} = Strided(ActionCount)
           /\ \A k \in Strided(ActionCount) : StateComplete(arrays, k)
  <1>1. /\ Walking /\ \A e \in arrays : Measured(e)
    BY DEF Inv, ScoringInvariant
  <1>2. ActionCount \in Nat /\ at = ActionCount + 1
    BY <1>1, ReplayedIs DEF Inv, PublishedEpisode
  <1>3. ASSUME NEW k \in Strided(ActionCount) PROVE StateComplete(arrays, k)
    <2>1. k < at - 1
      BY <1>2 DEF Strided
    <2>. QED  BY <1>1, <2>1 DEF Walking, ArraysFilled
  <1>4. ASSUME NEW k \in Strided(ActionCount) PROVE \E e \in arrays : e.step = k
    <2>1. DrawsOf(arrays, "original", NoEdit, k) = 1 .. OriginalDraws
      BY <1>3 DEF StateComplete, Filed
    <2>2. 1 \in DrawsOf(arrays, "original", NoEdit, k)
      BY <2>1, Sizes
    <2>. QED  BY <2>2 DEF DrawsOf
  <1>5. ASSUME NEW e \in arrays PROVE e.step \in Strided(ActionCount)
    <2>1. e.step \in Nat /\ e.step % Stride = 0 /\ e.step < ActionCount
      BY <1>1 DEF Measured
    <2>2. e.step \in 0 .. ActionCount - 1
      BY <1>2, <2>1
    <2>. QED  BY <2>1, <2>2 DEF Strided
  <1>. QED  BY <1>3, <1>4, <1>5

\* At the end of a walk the arrays pass the last checks.
LEMMA ArraysAreValid ==
    ASSUME Inv, spc = "walk", work = Done, at > ActionCount
    PROVE  ArraysValid
  <1>1. /\ {e.step : e \in arrays} = Strided(ActionCount)
        /\ \A k \in Strided(ActionCount) : StateComplete(arrays, k)
        /\ \A e \in arrays : Measured(e)
    BY AllFiled DEF Inv, ScoringInvariant
  <1>2. ASSUME NEW kind, NEW name, NEW k
        PROVE  {e.call.draw : e \in {o \in EntriesOf(kind, name) : o.step = k}}
                  = DrawsOf(arrays, kind, name, k)
    <2> DEFINE filed == {o \in EntriesOf(kind, name) : o.step = k}
               those == {o \in arrays : o.call.kind = kind /\ o.call.name = name /\ o.step = k}
    <2>1. filed = those
      BY DEF EntriesOf
    <2>2. DrawsOf(arrays, kind, name, k) = {e.call.draw : e \in those}
      BY DEF DrawsOf
    <2> HIDE DEF filed, those
    <2>3. {e.call.draw : e \in filed} = DrawsOf(arrays, kind, name, k)
      BY <2>1, <2>2
    <2>. QED  BY <2>3 DEF filed
  <1>3. ASSUME NEW k \in Strided(ActionCount)
        PROVE  /\ {e.call.draw : e \in {o \in EntriesOf("original", NoEdit) : o.step = k}}
                     = 1 .. OriginalDraws
               /\ \A i \in DOMAIN Transforms :
                    Transforms[i].family # "object_pose" =>
                       \E e \in EntriesOf("transformed", Transforms[i].name) : e.step = k
               /\ {e.call.draw : e \in {o \in EntriesOf("intervention", "minus") : o.step = k}}
                     = {e.call.draw : e \in {o \in EntriesOf("intervention", "plus") : o.step = k}}
    <2>1. PICK directed \in SUBSET (1 .. CommonDraws) :
             Filed(arrays, k, OriginalDraws, Len(Transforms), directed, directed)
      BY <1>1 DEF StateComplete
    <2>2. ASSUME NEW i \in DOMAIN Transforms, Transforms[i].family # "object_pose"
          PROVE  \E e \in EntriesOf("transformed", Transforms[i].name) : e.step = k
      <3>1. i \in 1 .. Len(Transforms)
        BY ScoringAssumption
      <3>2. DrawsOf(arrays, "transformed", Transforms[i].name, k) # {}
        BY <2>1, <2>2, <3>1 DEF Filed
      <3>. QED  BY <3>2 DEF DrawsOf, EntriesOf
    <2>3. /\ DrawsOf(arrays, "original", NoEdit, k) = 1 .. OriginalDraws
          /\ DrawsOf(arrays, "intervention", "minus", k)
                = DrawsOf(arrays, "intervention", "plus", k)
      BY <2>1 DEF Filed
    <2>4. /\ {e.call.draw : e \in {o \in EntriesOf("original", NoEdit) : o.step = k}}
                = 1 .. OriginalDraws
          /\ {e.call.draw : e \in {o \in EntriesOf("intervention", "minus") : o.step = k}}
                = {e.call.draw : e \in {o \in EntriesOf("intervention", "plus") : o.step = k}}
      <3>1. {e.call.draw : e \in {o \in EntriesOf("original", NoEdit) : o.step = k}}
               = DrawsOf(arrays, "original", NoEdit, k)
        BY <1>2
      <3>2. {e.call.draw : e \in {o \in EntriesOf("intervention", "minus") : o.step = k}}
               = DrawsOf(arrays, "intervention", "minus", k)
        BY <1>2
      <3>3. {e.call.draw : e \in {o \in EntriesOf("intervention", "plus") : o.step = k}}
               = DrawsOf(arrays, "intervention", "plus", k)
        BY <1>2
      <3>. QED  BY <2>3, <3>1, <3>2, <3>3, Zenon
    <2>. QED  BY <2>2, <2>4, Zenon
  <1>4. ASSUME NEW i \in DOMAIN Transforms
        PROVE  ~Inert(Transforms[i].name)
    <2> DEFINE name == Transforms[i].name
    <2>1. SUFFICES ASSUME Inert(name) PROVE FALSE
      OBVIOUS
    <2>2. PICK e \in EntriesOf("transformed", name) :
             \E o \in EntriesOf("original", NoEdit) :
                o.step = e.step /\ o.call.draw = e.call.draw /\ o.input = e.input
      BY <2>1 DEF Inert
    <2>3. PICK o \in EntriesOf("original", NoEdit) : o.step = e.step /\ o.input = e.input
      BY <2>2
    <2>4. /\ Measured(e) /\ Measured(o) /\ e.call.kind = "transformed" /\ o.call.kind = "original"
      BY <1>1 DEF EntriesOf
    <2>5. /\ e.input = Edited(Raw(e.step), e.call.name) /\ e.call.name # NoEdit
          /\ o.input = Raw(e.step)
      BY <2>3, <2>4 DEF Measured
    <2>6. e.input.edit = e.call.name /\ o.input.edit = NoEdit
      BY <2>5 DEF Raw, Moment, Edited
    <2>. QED  BY <2>3, <2>5, <2>6
  <1>5. {e.step : e \in arrays} = {k \in 0 .. Len(artifact.actions) - 1 : k % Stride = 0}
    BY <1>1 DEF Strided, ActionCount
  <1>. QED  BY <1>1, <1>3, <1>4, <1>5 DEF ArraysValid

\* The last comparisons, and the sidecar.
LEMMA PublishKept == ASSUME Inv, PublishSidecar PROVE Inv'
  <1>1. /\ spc = "walk" /\ work = Done /\ at > ActionCount
        /\ IF Undisturbed /\ ArraysValid
           THEN spc' = "published" /\ sidecar' = arrays /\ UNCHANGED <<rng, work>>
           ELSE Raise /\ UNCHANGED sidecar
        /\ UNCHANGED <<rolloutVars, replayed, at, view, cache, arrays, queue, fault>>
    BY DEF PublishSidecar, ActionCount
  <1>2. Walking /\ ~Editing /\ ArraysValid
    BY <1>1, ArraysAreValid DEF Inv, ScoringInvariant, Editing
  <1>3. /\ RolloutInvariant' /\ world' = world /\ artifact' = artifact /\ rpc' = rpc
        /\ ActionCount' = ActionCount
    BY <1>1, EpisodeStays DEF Inv
  <1>4. /\ replayed.edit = NoEdit /\ replayed.phase = 0 /\ rpc = "published"
        /\ at \in Int /\ at \in 1 .. MaxSteps + 1 /\ at <= at
    <2>1. /\ at \in 1 .. ActionCount + 1 /\ ActionCount \in Nat /\ ActionCount <= MaxSteps
      BY <1>2, ReplayedIs DEF Inv, PublishedEpisode
    <2>. QED  BY <1>2, <2>1, ReplayedIs, Parameters DEF Inv, ScoringInvariant
  <1>5. FaultNoticed /\ fault \in Faults \cup {NoFault}
    BY <1>2 DEF Walking, Inv, ScoringInvariant
  <1>6. CASE Undisturbed
    <2>1. /\ spc' = "published" /\ sidecar' = arrays /\ arrays' = arrays /\ rng' = rng
          /\ fault' = fault /\ replayed' = replayed /\ at' = at
      BY <1>1, <1>2, <1>6
    <2>2. fault = NoFault /\ rng = InitialRng
      BY <1>1, <1>5, <1>6 DEF FaultNoticed, Undisturbed, InitialRng
    <2>3. {e.step : e \in arrays'} = Strided(ActionCount)'
      <3>1. {e.step : e \in arrays} = Strided(ActionCount)
        BY <1>1, AllFiled
      <3>. QED  BY <1>3, <2>1, <3>1 DEF Strided
    <2>4. Verdict'
      BY <1>4, <2>1, <2>2, <2>3 DEF Verdict
    <2>5. \A x \in arrays' : Measured(x)'
      BY <1>3, <1>4, <2>1, MeasuredStays DEF Inv, ScoringInvariant
    <2>6. ScoringInvariant'
      BY <1>3, <1>4, <1>5, <2>1, <2>4, <2>5 DEF ScoringInvariant, Editing
    <2>. QED  BY <1>3, <2>6 DEF Inv
  <1>7. CASE ~Undisturbed
    <2>1. Raise /\ fault' = fault /\ replayed' = replayed /\ at' = at
          /\ UNCHANGED <<rolloutVars, arrays, sidecar>>
      BY <1>1, <1>7
    <2>2. fault = "rng" /\ fault # NoFault /\ fault \in Faults
      <3>1. rng # InitialRng
        BY <1>5, <1>7 DEF FaultNoticed, Undisturbed
      <3>2. fault = "rng"
        BY <1>5, <3>1 DEF FaultNoticed
      <3>. QED  BY <1>5, <3>2 DEF NoFault
    <2>. QED  BY <1>1, <1>4, <2>1, <2>2, FailureKept
  <1>. QED  BY <1>6, <1>7

\* A step of the rollout, before anything is scored.
LEMMA RolloutStepKept == ASSUME Inv, RolloutNext, UNCHANGED scoringVars PROVE Inv'
  <1>1. RolloutInvariant'
    BY RolloutKept DEF Inv
  <1>2. rpc # "published"
    BY DEF RolloutNext, RolloutReset, RolloutRetry, RolloutSeed, SelectAction, StepAction,
           RolloutPublish, RolloutFail
  <1>3. spc = "start" /\ ScoringInit
    BY <1>2 DEF Inv, ScoringInvariant
  <1>4. ScoringInit' /\ spc' = "start" /\ ~Editing'
    BY <1>3 DEF ScoringInit, scoringVars, FreshRuntime, Editing
  <1>5. ScoringInvariant'
    BY <1>4, Parameters DEF ScoringInvariant, ScoringInit, FreshRuntime
  <1>. QED  BY <1>1, <1>5 DEF Inv

\* Stuttering.
LEMMA StutterKept == ASSUME Inv, UNCHANGED vars PROVE Inv'
  <1>1. /\ RolloutInvariant' /\ world' = world /\ artifact' = artifact /\ rpc' = rpc
        /\ ActionCount' = ActionCount
    BY EpisodeStays DEF Inv, vars
  <1>2. UNCHANGED scoringVars
    BY DEF vars
  <1>3. ReplayExact => ReplayExact'
    BY <1>1, <1>2 DEF ReplayExact, RuntimeAfter, Moment, Settled, scoringVars, Editing, Edit, Edited
  <1>4. FaultNoticed => FaultNoticed'
    BY <1>2 DEF FaultNoticed, scoringVars
  <1>5. PositionOK => PositionOK'
    BY <1>1, <1>2 DEF PositionOK, scoringVars, Scoring, Editing, Edit
  <1>6. ViewRight => ViewRight'
    BY <1>2 DEF ViewRight, scoringVars, Edit, Edited, Raw, Moment, Settled
  <1>7. CacheRight => CacheRight'
    BY <1>2 DEF CacheRight, scoringVars, Scoring, Originals, Raw, Moment, Settled
  <1>8. ArraysFilled => ArraysFilled'
    BY <1>1, <1>2 DEF ArraysFilled, scoringVars, Scoring, Strided
  <1>9. Walking => Walking'
    BY <1>3, <1>4, <1>5, <1>6, <1>7, <1>8 DEF Walking
  <1>10. Verdict => Verdict'
    BY <1>1, <1>2 DEF Verdict, scoringVars, FreshRuntime, Strided
  <1>11. ScoringInit => ScoringInit'
    BY <1>2 DEF ScoringInit, scoringVars, FreshRuntime
  <1>12. \A x \in arrays' : Measured(x)'
    <2>1. at' = at /\ arrays' = arrays /\ at \in Int
      BY <1>2 DEF scoringVars, Inv, ScoringInvariant
    <2>. QED  BY <1>1, <2>1, MeasuredStays DEF Inv, ScoringInvariant
  <1>13. ScoringInvariant'
    BY <1>1, <1>2, <1>9, <1>10, <1>11, <1>12 DEF Inv, ScoringInvariant, scoringVars, Editing
  <1>. QED  BY <1>1, <1>13 DEF Inv

-----------------------------------------------------------------------------
(* One call of the policy. *)

\* What a call files, on a base.
Entry(base) == [step |-> Factual.step, call |-> Call(work), input |-> view, base |-> base]

\* What has to hold when an entry is filed and the cache becomes c.
CallRight(entry, c) ==
    LET v == AfterCall(work) IN
    /\ v \in Positions /\ Measured(entry) /\ entry.step = at - 1
    /\ \/ /\ v # Done /\ c = Originals(at - 1, OriginalsDone(v))
          /\ Filed(With(arrays, entry), at - 1, OriginalsDone(v), TransformsDone(v),
                   MinusDone(v), PlusDone(v))
       \/ v = Done /\ StateComplete(With(arrays, entry), at - 1)
    /\ v.op \in {"original", "minus", "plus"} => view = Raw(at - 1)
    /\ v.op = "transformed" => view = Edited(Raw(at - 1), Transforms[v.t].name)

\* Where a call is made.
LEMMA CallPlace ==
    ASSUME Inv, spc = "walk", work # Done
    PROVE  /\ Walking /\ ~Editing /\ work \in Positions /\ PublishedEpisode
           /\ Factual.step = at - 1 /\ at - 1 \in Nat /\ at - 1 < ActionCount /\ (at - 1) % Stride = 0
           /\ at \in 1 .. ActionCount /\ ActionCount \in Nat
           /\ cache = Originals(at - 1, OriginalsDone(work))
           /\ Filed(arrays, at - 1, OriginalsDone(work), TransformsDone(work), MinusDone(work),
                    PlusDone(work))
           /\ \A k \in Strided(ActionCount) : k < at - 1 => StateComplete(arrays, k)
  <1>1. Walking /\ ~Editing /\ Scoring
    BY DEF Inv, ScoringInvariant, Editing, Scoring
  <1>2. PublishedEpisode /\ at \in 1 .. ActionCount + 1 /\ at - 1 \in Nat /\ ActionCount \in Nat
    BY <1>1, ReplayedIs DEF Inv, PublishedEpisode
  <1>3. work \in Positions /\ at <= ActionCount /\ (at - 1) % Stride = 0
    BY <1>1 DEF Walking, PositionOK
  <1>4. Factual.step = at - 1
    BY <1>2, FactualIs
  <1>5. at \in 1 .. ActionCount /\ at - 1 < ActionCount
    BY <1>2, <1>3
  <1>6. /\ cache = Originals(at - 1, OriginalsDone(work))
        /\ Filed(arrays, at - 1, OriginalsDone(work), TransformsDone(work), MinusDone(work),
                    PlusDone(work))
        /\ \A k \in Strided(ActionCount) : k < at - 1 => StateComplete(arrays, k)
    BY <1>1, <1>3 DEF Walking, CacheRight, ArraysFilled
  <1>. QED  BY <1>1, <1>2, <1>3, <1>4, <1>5, <1>6

\* The noises of the originals are in the cache, each with its own activation.
LEMMA OriginalsAre ==
    ASSUME NEW k, NEW m \in Nat, NEW d \in 1 .. m
    PROVE  /\ <<k, d>> \in DOMAIN Originals(k, m)
           /\ Originals(k, m)[<<k, d>>] = [draw |-> d, input |-> Raw(k)]
  <1> DEFINE raw == Raw(k)
  <1>1. Originals(k, m) = [key \in {<<k, c>> : c \in 1 .. m} |-> [draw |-> key[2], input |-> raw]]
    BY DEF Originals
  <1> HIDE DEF raw
  <1>2. <<k, d>> \in {<<k, c>> : c \in 1 .. m} /\ <<k, d>>[2] = d
    OBVIOUS
  <1>3. /\ <<k, d>> \in DOMAIN Originals(k, m)
        /\ Originals(k, m)[<<k, d>>] = [draw |-> d, input |-> raw]
    BY <1>1, <1>2
  <1>. QED  BY <1>3 DEF raw

\* An original call.
LEMMA OriginalRight ==
    ASSUME Inv, spc = "walk", work.op = "original", NEW base
    PROVE  /\ work # Done /\ Call(work).kind = "original" /\ Call(work).draw = work.draw
           /\ CallRight(Entry(base),
                        Cached(<<at - 1, work.draw>>, [draw |-> work.draw, input |-> view]))
  <1>1. work # Done
    BY PositionIs DEF Done
  <1>2. /\ Walking /\ work \in Positions /\ Factual.step = at - 1 /\ at - 1 \in Nat
        /\ at - 1 < ActionCount /\ (at - 1) % Stride = 0
        /\ cache = Originals(at - 1, OriginalsDone(work))
        /\ Filed(arrays, at - 1, OriginalsDone(work), TransformsDone(work), MinusDone(work),
                 PlusDone(work))
    BY <1>1, CallPlace
  <1>3. PICK d \in 1 .. OriginalDraws : work = Position("original", 0, d)
    BY <1>2, PositionsAre
  <1>4. work.draw = d /\ d \in Nat /\ d > 0
    BY <1>3, Sizes, PositionIs
  <1>5. Call(work) = [kind |-> "original", name |-> NoEdit, draw |-> d]
    BY <1>4 DEF Call, Interventions
  <1>6. view = Raw(at - 1)
    BY <1>2 DEF Walking, ViewRight
  <1> DEFINE v == AfterCall(work)
             e == Entry(base)
             k == at - 1
  <1>7. /\ At(v, d, 0, {}, {}) /\ v # Done /\ v.op \in {"original", "transform", "directions"}
    BY <1>3, AfterOriginal
  <1>8. e.step = k /\ e.call = [kind |-> "original", name |-> NoEdit, draw |-> d] /\ e.input = Raw(k)
    BY <1>2, <1>5, <1>6 DEF Entry
  <1>9. Measured(e)
    <2>1. e.call.kind = "original"
      BY <1>8
    <2> HIDE DEF e
    <2>. QED  BY <1>2, <1>8, <2>1 DEF Measured
  <1>10. /\ OriginalsDone(work) = d - 1 /\ TransformsDone(work) = 0
         /\ MinusDone(work) = {} /\ PlusDone(work) = {}
    BY <1>4 DEF OriginalsDone, TransformsDone, MinusDone, PlusDone
  <1>11. Filed(With(arrays, e), k, d, 0, {}, {})
    <2>1. Filed(arrays, k, d - 1, 0, {}, {})
      BY <1>2, <1>10
    <2> HIDE DEF e, k
    <2>. QED  BY <1>4, <1>8, <2>1, FileOriginal DEF With
  <1>12. Cached(<<k, d>>, [draw |-> d, input |-> view]) = Originals(k, d)
    <2>1. cache = Originals(k, d - 1)
      BY <1>2, <1>10
    <2>2. k \in Nat
      BY <1>2
    <2> HIDE DEF k
    <2>3. /\ <<k, d>> \notin DOMAIN Originals(k, d - 1)
          /\ [x \in DOMAIN Originals(k, d - 1) \cup {<<k, d>>} |->
                IF x = <<k, d>> THEN [draw |-> d, input |-> Raw(k)] ELSE Originals(k, d - 1)[x]]
               = Originals(k, d)
      BY <1>4, <2>2, CacheGrows
    <2>4. view = Raw(k)
      BY <1>6 DEF k
    <2>. QED  BY <2>1, <2>3, <2>4, Zenon DEF Cached
  <1> HIDE DEF v, e, k
  <1>13. CallRight(e, Originals(k, d))
    BY <1>2, <1>6, <1>7, <1>8, <1>9, <1>11 DEF CallRight, At, v, k
  <1>. QED  BY <1>1, <1>4, <1>5, <1>12, <1>13 DEF e, k

\* A call on a transformed observation.
LEMMA TransformedRight ==
    ASSUME Inv, spc = "walk", work.op = "transformed", NEW base
    PROVE  /\ work # Done /\ Call(work).kind = "transformed" /\ Call(work).draw = work.draw
           /\ CallRight(Entry(base),
                        Cached(<<at - 1, work.draw>>, [draw |-> work.draw, input |-> view]))
  <1>1. work # Done
    BY PositionIs DEF Done
  <1>2. /\ Walking /\ work \in Positions /\ Factual.step = at - 1 /\ at - 1 \in Nat
        /\ at - 1 < ActionCount /\ (at - 1) % Stride = 0
        /\ cache = Originals(at - 1, OriginalsDone(work))
        /\ Filed(arrays, at - 1, OriginalsDone(work), TransformsDone(work), MinusDone(work),
                 PlusDone(work))
    BY <1>1, CallPlace
  <1>3. PICK t \in 1 .. Len(Transforms), d \in 1 .. CommonDraws : work = Position("transformed", t, d)
    BY <1>2, PositionsAre
  <1>4. work.draw = d /\ work.t = t /\ d \in 1 .. OriginalDraws /\ OriginalDraws \in Nat
    BY <1>3, Sizes, PositionIs
  <1>5. Call(work) = [kind |-> "transformed", name |-> Transforms[t].name, draw |-> d]
    BY <1>4 DEF Call, Interventions
  <1>6. view = Edited(Raw(at - 1), Transforms[t].name) /\ Transforms[t].name # NoEdit
    BY <1>2, <1>4, Sizes DEF Walking, ViewRight, Edit
  <1> DEFINE v == AfterCall(work)
             e == Entry(base)
             k == at - 1
  <1>7. /\ At(v, OriginalDraws, t, {}, {}) /\ v # Done
        /\ v.op \in {"transformed", "transform", "directions"} /\ (v.op = "transformed" => v.t = t)
    BY <1>3, AfterTransformed
  <1>8. /\ e.step = k /\ e.call = [kind |-> "transformed", name |-> Transforms[t].name, draw |-> d]
        /\ e.input = Edited(Raw(k), Transforms[t].name)
    BY <1>2, <1>5, <1>6 DEF Entry
  <1>9. Measured(e)
    <2>1. e.call.kind = "transformed" /\ e.call.name = Transforms[t].name
      BY <1>8
    <2> HIDE DEF e
    <2>. QED  BY <1>2, <1>6, <1>8, <2>1 DEF Measured
  <1>10. /\ OriginalsDone(work) = OriginalDraws /\ TransformsDone(work) \in {t - 1, t}
         /\ MinusDone(work) = {} /\ PlusDone(work) = {}
    BY <1>4 DEF OriginalsDone, TransformsDone, MinusDone, PlusDone
  <1>11. Filed(With(arrays, e), k, OriginalDraws, t, {}, {})
    <2>1. Filed(arrays, k, OriginalDraws, TransformsDone(work), {}, {})
      BY <1>2, <1>10
    <2> HIDE DEF e, k
    <2>. QED  BY <1>8, <1>10, <2>1, FileTransformed DEF With
  <1>12. Cached(<<k, d>>, [draw |-> d, input |-> view]) = Originals(k, OriginalDraws)
    <2>1. cache = Originals(k, OriginalDraws)
      BY <1>2, <1>10
    <2> HIDE DEF k
    <2>2. <<k, d>> \in DOMAIN Originals(k, OriginalDraws)
      BY <1>4, OriginalsAre
    <2>. QED  BY <2>1, <2>2 DEF Cached
  <1> HIDE DEF v, e, k
  <1>13. CallRight(e, Originals(k, OriginalDraws))
    BY <1>2, <1>6, <1>7, <1>8, <1>9, <1>11 DEF CallRight, At, v, k
  <1>. QED  BY <1>1, <1>4, <1>5, <1>12, <1>13 DEF e, k

\* A shifted call.
LEMMA ShiftedRight ==
    ASSUME Inv, spc = "walk", work.op \in Interventions
    PROVE  /\ work # Done /\ Call(work).kind = "intervention" /\ Call(work).draw = work.draw
           /\ <<at - 1, work.draw>> \in DOMAIN cache
           /\ CallRight(Entry(cache[<<at - 1, work.draw>>]), cache)
  <1>1. work # Done
    BY PositionIs DEF Done, Interventions
  <1>2. /\ Walking /\ work \in Positions /\ Factual.step = at - 1 /\ at - 1 \in Nat
        /\ at - 1 < ActionCount /\ (at - 1) % Stride = 0
        /\ cache = Originals(at - 1, OriginalsDone(work))
        /\ Filed(arrays, at - 1, OriginalsDone(work), TransformsDone(work), MinusDone(work),
                 PlusDone(work))
    BY <1>1, CallPlace
  <1>0. PICK directed \in SUBSET (1 .. CommonDraws) : \E d \in directed :
            work = [op |-> work.op, t |-> 0, draw |-> d, directed |-> directed]
    BY <1>2, PositionsAre
  <1>3. PICK d \in directed : work = [op |-> work.op, t |-> 0, draw |-> d, directed |-> directed]
    BY <1>0
  <1> DEFINE o == work.op
  <1>4. work.draw = d /\ work.directed = directed /\ d \in 1 .. OriginalDraws /\ OriginalDraws \in Nat
    BY <1>3, Sizes
  <1>5. Call(work) = [kind |-> "intervention", name |-> o, draw |-> d]
    BY <1>4 DEF Call, Interventions
  <1>6. view = Raw(at - 1)
    BY <1>2 DEF Walking, ViewRight, Interventions
  <1> DEFINE v == AfterCall(work)
             k == at - 1
             e == Entry(cache[<<k, d>>])
             before  == {x \in directed : x < d}
             through == before \cup {d}
  <1>7. \/ v = Done /\ o = "plus" /\ through = directed
        \/ /\ v # Done /\ v.op \in Interventions
           /\ At(v, OriginalDraws, Len(Transforms),
                 IF o = "minus" THEN through ELSE directed, IF o = "plus" THEN through ELSE {})
    BY <1>3, AfterShifted
  <1>8. /\ OriginalsDone(work) = OriginalDraws /\ TransformsDone(work) = Len(Transforms)
        /\ MinusDone(work) = IF o = "minus" THEN before ELSE directed
        /\ PlusDone(work) = IF o = "plus" THEN before ELSE {}
    BY <1>4 DEF OriginalsDone, TransformsDone, MinusDone, PlusDone, Interventions
  <1>9. <<k, d>> \in DOMAIN cache /\ cache[<<k, d>>] = [draw |-> d, input |-> Raw(k)]
    <2>1. cache = Originals(k, OriginalDraws)
      BY <1>2, <1>8
    <2> HIDE DEF k
    <2>. QED  BY <1>4, <2>1, OriginalsAre
  <1>10. /\ e.step = k /\ e.call = [kind |-> "intervention", name |-> o, draw |-> d]
         /\ e.input = Raw(k) /\ e.base = [draw |-> d, input |-> Raw(k)]
    BY <1>2, <1>5, <1>6, <1>9 DEF Entry
  <1>11. Measured(e)
    <2>1. e.call.kind = "intervention" /\ e.call.draw = d
      BY <1>10
    <2> HIDE DEF e
    <2>. QED  BY <1>2, <1>10, <2>1 DEF Measured
  <1> HIDE DEF v, e, k, o, before, through
  <1>12. Filed(With(arrays, e), k, OriginalDraws, Len(Transforms),
               IF o = "minus" THEN through ELSE directed, IF o = "plus" THEN through ELSE {})
    <2>1. Filed(arrays, k, OriginalDraws, Len(Transforms),
                IF o = "minus" THEN before ELSE directed, IF o = "plus" THEN before ELSE {})
      BY <1>2, <1>8 DEF k
    <2>2. o \in {"minus", "plus"}
      BY DEF Interventions, o
    <2>3. CASE o = "minus"
      <3>1. Filed(arrays, k, OriginalDraws, Len(Transforms), before, {})
        BY <2>1, <2>3
      <3>2. Filed(With(arrays, e), k, OriginalDraws, Len(Transforms),
                  IF o = "minus" THEN before \cup {d} ELSE before,
                  IF o = "plus" THEN {} \cup {d} ELSE {})
        BY <1>10, <2>2, <3>1, FileShifted DEF With, Interventions
      <3>. QED  BY <2>3, <3>2 DEF through
    <2>4. CASE o = "plus"
      <3>1. Filed(arrays, k, OriginalDraws, Len(Transforms), directed, before)
        BY <2>1, <2>4
      <3>2. Filed(With(arrays, e), k, OriginalDraws, Len(Transforms),
                  IF o = "minus" THEN directed \cup {d} ELSE directed,
                  IF o = "plus" THEN before \cup {d} ELSE before)
        BY <1>10, <2>2, <3>1, FileShifted DEF With, Interventions
      <3>. QED  BY <2>4, <3>2 DEF through
    <2>. QED  BY <2>2, <2>3, <2>4
  <1>13. CallRight(e, cache)
    <2>1. CASE v = Done /\ o = "plus" /\ through = directed
      <3>1. StateComplete(With(arrays, e), k)
        BY <1>12, <2>1 DEF StateComplete
      <3>2. v.op = "done" /\ v \in Positions
        BY <2>1, PositionIs DEF Done, Positions
      <3>. QED  BY <1>10, <1>11, <2>1, <3>1, <3>2 DEF CallRight, v, k
    <2>2. CASE /\ v # Done /\ v.op \in Interventions
               /\ At(v, OriginalDraws, Len(Transforms),
                     IF o = "minus" THEN through ELSE directed, IF o = "plus" THEN through ELSE {})
      <3>1. v.op \in {"minus", "plus"}
        BY <2>2 DEF Interventions
      <3>2. cache = Originals(k, OriginalsDone(v))
        BY <1>2, <1>8, <2>2 DEF At, k
      <3>3. Filed(With(arrays, e), k, OriginalsDone(v), TransformsDone(v), MinusDone(v), PlusDone(v))
        BY <1>12, <2>2 DEF At
      <3>. QED  BY <1>6, <1>10, <1>11, <2>2, <3>1, <3>2, <3>3 DEF CallRight, At, v, k
    <2>. QED  BY <1>7, <2>1, <2>2
  <1>. QED  BY <1>1, <1>4, <1>5, <1>9, <1>13 DEF e, k

\* A call with no exception and no mutated queue is made, and what it files is right.
LEMMA CallIsRight ==
    ASSUME Inv, spc = "walk", work.op \in {"original", "transformed"} \cup Interventions
    PROVE  LET key  == NoiseKey(Call(work))
               base == IF Call(work).kind = "intervention" /\ key \in DOMAIN cache
                       THEN cache[key] ELSE NoBase
           IN /\ work # Done
              /\ Call(work).kind = "intervention" => key \in DOMAIN cache
              /\ CallRight(Entry(base),
                    IF Call(work).kind = "intervention" THEN cache
                    ELSE Cached(key, [draw |-> Call(work).draw, input |-> view]))
  <1> DEFINE key  == NoiseKey(Call(work))
             base == IF Call(work).kind = "intervention" /\ key \in DOMAIN cache
                     THEN cache[key] ELSE NoBase
  <1>1. work # Done
    BY PositionIs DEF Done, Interventions
  <1>2. Factual.step = at - 1
    BY <1>1, CallPlace
  <1>3. key = <<at - 1, Call(work).draw>>
    BY <1>2 DEF NoiseKey
  <1>4. CASE work.op = "original"
    <2>1. /\ Call(work).kind = "original" /\ Call(work).draw = work.draw
          /\ CallRight(Entry(base),
                 Cached(<<at - 1, work.draw>>, [draw |-> work.draw, input |-> view]))
      BY <1>4, OriginalRight
    <2>. QED  BY <1>1, <1>3, <2>1
  <1>5. CASE work.op = "transformed"
    <2>1. /\ Call(work).kind = "transformed" /\ Call(work).draw = work.draw
          /\ CallRight(Entry(base),
                 Cached(<<at - 1, work.draw>>, [draw |-> work.draw, input |-> view]))
      BY <1>5, TransformedRight
    <2>. QED  BY <1>1, <1>3, <2>1
  <1>6. CASE work.op \in Interventions
    <2>1. /\ Call(work).kind = "intervention" /\ Call(work).draw = work.draw
          /\ <<at - 1, work.draw>> \in DOMAIN cache
          /\ CallRight(Entry(cache[<<at - 1, work.draw>>]), cache)
      BY <1>6, ShiftedRight
    <2>. QED  BY <1>1, <1>3, <2>1
  <1>. QED  BY <1>4, <1>5, <1>6

\* A policy call.
LEMMA PredictKept == ASSUME Inv, PredictActionChunk PROVE Inv'
  <1> DEFINE patched == Call(work).kind = "intervention"
             key     == NoiseKey(Call(work))
             base    == IF patched /\ key \in DOMAIN cache THEN cache[key] ELSE NoBase
             entry   == Entry(base)
             kept    == IF patched THEN cache
                        ELSE Cached(key, [draw |-> Call(work).draw, input |-> view])
  <1>1. PICK f \in {NoFault, "rng", "queue", "exception"} :
            /\ Commits(f)
            /\ queue' = IF f = "queue" THEN "mutated" ELSE queue
            /\ IF \/ f = "exception"
                  \/ queue' # queue
                  \/ patched /\ key \notin DOMAIN cache
               THEN Raise /\ UNCHANGED <<cache, arrays>>
               ELSE /\ rng' = IF f = "rng" THEN "consumed" ELSE rng
                    /\ work' = AfterCall(work)
                    /\ arrays' = arrays \cup {entry}
                    /\ cache' = kept
                    /\ UNCHANGED spc
    BY DEF PredictActionChunk, Entry
  <1>2. /\ spc = "walk" /\ work.op \in {"original", "transformed"} \cup Interventions
        /\ UNCHANGED <<rolloutVars, replayed, at, view, sidecar>>
    BY DEF PredictActionChunk
  <1>3. /\ work # Done /\ (patched => key \in DOMAIN cache) /\ CallRight(entry, kept)
    BY <1>2, CallIsRight
  <1> HIDE DEF patched, key, base, entry, kept
  <1>4. /\ Walking /\ ~Editing /\ PublishedEpisode /\ ActionCount \in Nat
        /\ at \in 1 .. ActionCount /\ at - 1 \in Nat /\ (at - 1) % Stride = 0
        /\ \A k \in Strided(ActionCount) : k < at - 1 => StateComplete(arrays, k)
    BY <1>2, <1>3, CallPlace
  <1>5. /\ RolloutInvariant' /\ world' = world /\ artifact' = artifact /\ rpc' = rpc
        /\ ActionCount' = ActionCount
    BY <1>2, EpisodeStays DEF Inv
  <1>6. /\ replayed.edit = NoEdit /\ replayed.phase = 0 /\ at \in 1 .. MaxSteps + 1 /\ at \in Int
        /\ rpc = "published"
    BY <1>4, ReplayedIs, Parameters DEF Inv, ScoringInvariant, PublishedEpisode
  <1>7. FaultNoticed /\ fault \in Faults \cup {NoFault} /\ queue = InitialQueue
    BY <1>4 DEF Walking, FaultNoticed, Inv, ScoringInvariant
  <1>8. CASE f \in {"exception", "queue"}
    <2>1. fault' = f /\ f \in Faults /\ f # NoFault
      <3>1. f # NoFault
        BY <1>8 DEF NoFault
      <3>. QED  BY <1>1, <3>1, CommitsFault
    <2>2. Raise /\ UNCHANGED <<cache, arrays>>
      <3>1. f = "queue" => queue' # queue
        BY <1>1, <1>7 DEF InitialQueue
      <3>. QED  BY <1>1, <1>8, <3>1
    <2>3. /\ UNCHANGED <<rolloutVars, arrays, sidecar>> /\ at' = at /\ replayed' = replayed
      BY <1>2, <2>2
    <2>. QED  BY <1>2, <1>6, <2>1, <2>2, <2>3, FailureKept
  <1>9. CASE f \in {NoFault, "rng"}
    <2>1. /\ rng' = IF f = "rng" THEN "consumed" ELSE rng
          /\ work' = AfterCall(work) /\ arrays' = With(arrays, entry)
          /\ cache' = kept /\ spc' = spc /\ queue' = queue
      <3>1. f # "exception" /\ f # "queue"
        BY <1>9 DEF NoFault
      <3>2. queue' = queue
        BY <1>1, <3>1
      <3>. QED  BY <1>1, <1>3, <3>1, <3>2 DEF With
    <2>2. ~Editing' /\ spc' = "walk" /\ at' = at /\ replayed' = replayed /\ view' = view
      BY <1>2, <2>1 DEF Editing
    <2>3. FaultNoticed' /\ fault' \in Faults \cup {NoFault}
      <3>1. CASE f = NoFault
        <4>1. fault' = fault /\ f # "rng"
          BY <1>1, <3>1, CommitsNothing DEF NoFault
        <4>. QED  BY <1>7, <2>1, <2>2, <4>1, <1>2 DEF FaultNoticed
      <3>2. CASE f = "rng"
        <4>1. fault' = "rng" /\ "rng" \in Faults
          <5>1. "rng" # NoFault
            BY DEF NoFault
          <5>. QED  BY <1>1, <3>2, <5>1, CommitsFault
        <4>. QED  BY <1>7, <2>1, <2>2, <3>2, <4>1 DEF FaultNoticed
      <3>. QED  BY <1>9, <3>1, <3>2
    <2>4. ReplayExact'
      <3>1. ReplayExact
        BY <1>4 DEF Walking
      <3>. QED  BY <1>4, <1>5, <2>2, <3>1 DEF ReplayExact, RuntimeAfter, Moment, Settled, Edited
    <2> DEFINE v == AfterCall(work)
               more == With(arrays, entry)
    <2>5. /\ v \in Positions /\ Measured(entry) /\ entry.step = at - 1
          /\ \/ /\ v # Done /\ kept = Originals(at - 1, OriginalsDone(v))
                /\ Filed(more, at - 1, OriginalsDone(v), TransformsDone(v), MinusDone(v), PlusDone(v))
             \/ v = Done /\ StateComplete(more, at - 1)
          /\ v.op \in {"original", "minus", "plus"} => view = Raw(at - 1)
          /\ v.op = "transformed" => view = Edited(Raw(at - 1), Transforms[v.t].name)
      BY <1>3 DEF CallRight
    <2> HIDE DEF v, more
    <2>6. work' = v /\ arrays' = more
      BY <2>1 DEF v, more
    <2>7. PositionOK'
      BY <1>4, <1>5, <2>2, <2>5, <2>6 DEF PositionOK
    <2>8. ViewRight'
      BY <2>2, <2>5, <2>6 DEF ViewRight, Edit, Edited, Raw, Moment, Settled
    <2>9. CacheRight'
      BY <2>1, <2>2, <2>5, <2>6 DEF CacheRight, Scoring, Originals, Raw, Moment, Settled
    <2>10. ArraysFilled'
      <3>1. Strided(ActionCount)' = Strided(ActionCount)
        BY <1>5 DEF Strided
      <3>2. ASSUME NEW k \in Strided(ActionCount), k < at - 1
            PROVE  StateComplete(more, k)
        <4>1. StateComplete(arrays, k) /\ entry.step # k
          BY <1>4, <2>5, <3>2
        <4>. QED  BY <4>1, OthersComplete DEF more, With
      <3>3. \A k \in Strided(ActionCount)' : k < at' - 1 => StateComplete(arrays', k)
        BY <2>2, <2>6, <3>1, <3>2
      <3>4. IF work' # Done
            THEN Filed(arrays', at' - 1, OriginalsDone(work'), TransformsDone(work'),
                       MinusDone(work'), PlusDone(work'))
            ELSE StateComplete(arrays', at' - 1)
        BY <2>2, <2>5, <2>6
      <3>. QED  BY <3>3, <3>4 DEF ArraysFilled, Scoring
    <2>11. \A x \in arrays' : Measured(x)'
      <3>1. \A x \in more : Measured(x)
        BY <2>5 DEF more, With, Inv, ScoringInvariant
      <3>2. ASSUME NEW x \in more PROVE Measured(x)'
        <4>1. Measured(x)
          BY <3>1
        <4>. QED  BY <1>5, <2>2, <4>1 DEF Measured, Raw, Moment, Settled
      <3>. QED  BY <2>6, <3>2
    <2>12. Walking'
      BY <2>3, <2>4, <2>7, <2>8, <2>9, <2>10 DEF Walking
    <2>13. sidecar' = {}
      BY <1>2 DEF Inv, ScoringInvariant
    <2>14. ScoringInvariant'
      BY <1>5, <1>6, <2>2, <2>3, <2>11, <2>12, <2>13 DEF ScoringInvariant
    <2>. QED  BY <1>5, <2>14 DEF Inv
  <1>. QED  BY <1>8, <1>9

\* Every step preserves the invariant.
LEMMA StepKeeps == Inv /\ [Next]_vars => Inv'
  <1>1. ASSUME Inv, ScoringNext PROVE Inv'
    BY <1>1, RefuseKept, ResetKept, FactualKept, BrightnessKept, EditKept, RestoreKept,
       DirectionsKept, PredictKept, StepKept, PublishKept DEF ScoringNext
  <1>. QED  BY <1>1, RolloutStepKept, StutterKept DEF Next

-----------------------------------------------------------------------------
(* The theorems. *)

\* A rollout records what its world makes of the steps it takes, and a replay is at every
\* moment where the rollout was: the inductive invariant of run_single_episode composed
\* with score_replay_to_sidecar.
THEOREM ReplayInvariant == Spec => [](RolloutInvariant /\ ScoringInvariant)
  <1>. QED  BY ScoringStarts, StepKeeps, PTL DEF Spec, Inv

\* Every variable of the rollout and of the scorer has its type, a sampling timer is never
\* left out of phase, and no entry is filed for a step beyond the episode.
THEOREM TypeCorrect == Spec => []TypeOK
  <1>1. Inv => TypeOK
    <2> SUFFICES ASSUME Inv PROVE TypeOK
      OBVIOUS
    <2>1. /\ world \in Worlds
          /\ rpc \in {"start", "retry", "seed", "select", "step", "publish", "published", "failed"}
          /\ spc \in {"start", "walk", "edited", "unavailable", "unwind", "published",
                      "failed", "refused"}
          /\ runtime.phase = 0 /\ replayed.phase = 0 /\ at \in 1 .. MaxSteps + 1
          /\ fault \in Faults \cup {NoFault}
      BY DEF Inv, RolloutInvariant, ScoringInvariant
    <2>2. {runtime.phase, replayed.phase} \subseteq 0 .. Period - 1
      BY <2>1, Parameters
    <2>3. {e.step : e \in arrays} \subseteq 0 .. MaxSteps - 1
      <3>1. CASE spc = "start"
        BY <3>1 DEF Inv, ScoringInvariant, ScoringInit
      <3>2. CASE spc # "start"
        <4>1. ActionCount \in Nat /\ ActionCount <= MaxSteps
          BY <3>2, Published DEF Inv, ScoringInvariant, PublishedEpisode
        <4>2. ASSUME NEW e \in arrays PROVE e.step \in 0 .. MaxSteps - 1
          <5>1. e.step \in Nat /\ e.step < ActionCount
            BY DEF Inv, ScoringInvariant, Measured
          <5>. QED  BY <4>1, <5>1, Parameters
        <4>. QED  BY <4>2
      <3>. QED  BY <3>1, <3>2
    <2>4. sidecar \in {{}, arrays}
      BY DEF Inv, ScoringInvariant, Verdict
    <2>. QED  BY <2>1, <2>2, <2>3, <2>4 DEF TypeOK
  <1>. QED  BY <1>1, ScoringStarts, StepKeeps, PTL DEF Spec

\* What a capture of a published episode says.
LEMMA CaptureFields ==
    ASSUME PublishedEpisode, NEW i \in 1 .. Len(artifact.captured)
    PROVE  artifact.captured[i].step = (i - 1) * Stride /\ artifact.captured[i].run = i - 1
  <1> DEFINE x == (i - 1) * Stride
             y == i - 1
  <1>1. artifact.captured[i] = [step |-> x, run |-> y]
    BY DEF PublishedEpisode
  <1> HIDE DEF x, y
  <1>2. artifact.captured[i].step = x /\ artifact.captured[i].run = y
    BY <1>1
  <1>. QED  BY <1>2 DEF x, y

\* The captures a rollout publishes stand under exactly the strided steps, one policy call
\* each, in order.
THEOREM CapturesAreAligned == Spec => []CapturesAligned
  <1>1. Inv => CapturesAligned
    <2> SUFFICES ASSUME Inv, rpc = "published" PROVE CapturesAligned
      BY DEF CapturesAligned
    <2>1. PublishedEpisode
      BY Published DEF Inv
    <2> DEFINE c == Cardinality(Strided(ActionCount))
    <2>2. /\ Len(artifact.captured) = c
          /\ \A i \in 1 .. c : artifact.captured[i] = [step |-> (i - 1) * Stride, run |-> i - 1]
      BY <2>1 DEF PublishedEpisode
    <2>3. \A i \in 1 .. c : /\ artifact.captured[i].step = (i - 1) * Stride
                            /\ artifact.captured[i].run = i - 1
      BY <2>1, <2>2, CaptureFields, Zenon
    <2>4. Strided(ActionCount) = {k \in 0 .. Len(artifact.actions) - 1 : k % Stride = 0}
      BY DEF Strided, ActionCount
    <2>. QED  BY <2>2, <2>3, <2>4 DEF CapturesAligned
  <1>. QED  BY <1>1, ScoringStarts, StepKeeps, PTL DEF Spec

\* Every score measures what its entry says: the recorded observation, the recorded moment
\* under its edit, or the recorded observation shifted from its own draw's activation.
THEOREM ScoresMeasure == Spec => []ScoresMeasureWhatTheySay
  <1>1. Inv => ScoresMeasureWhatTheySay
    <2> SUFFICES ASSUME Inv, NEW e \in arrays
                 PROVE  LET recorded == artifact.frames[e.step + 1].raw
                        IN /\ e.call.kind # "transformed" => e.input = recorded
                           /\ e.call.kind = "transformed" => e.input = Edited(recorded, e.call.name)
                           /\ e.call.kind = "intervention" =>
                                 e.base = [draw |-> e.call.draw, input |-> recorded]
      BY DEF ScoresMeasureWhatTheySay
    <2>1. Measured(e) /\ spc # "start"
      BY DEF Inv, ScoringInvariant, ScoringInit
    <2>2. PublishedEpisode
      BY <2>1, Published DEF Inv, ScoringInvariant
    <2>3. e.step \in Nat /\ e.step < ActionCount /\ ActionCount \in Nat
      BY <2>1, <2>2 DEF Measured, PublishedEpisode
    <2>4. artifact.frames[e.step + 1] = FrameAfter(e.step)
      <3>1. e.step + 1 \in 1 .. ActionCount + 1 /\ (e.step + 1) - 1 = e.step
        BY <2>3
      <3>2. artifact.frames[e.step + 1] = FrameAfter((e.step + 1) - 1)
        BY <2>2, <3>1, Zenon DEF PublishedEpisode
      <3>. QED  BY <3>1, <3>2
    <2>5. artifact.frames[e.step + 1].raw = Raw(e.step)
      BY <2>3, <2>4, FrameExact DEF Raw
    <2>. QED  BY <2>1, <2>5 DEF Measured
  <1>. QED  BY <1>1, ScoringStarts, StepKeeps, PTL DEF Spec

\* The steps of the captures are the strided steps.
LEMMA CapturedSteps ==
    ASSUME PublishedEpisode
    PROVE  {artifact.captured[i].step : i \in DOMAIN artifact.captured} = Strided(ActionCount)
  <1> DEFINE c == Len(artifact.captured)
             n == ActionCount
  <1>1. /\ c \in Nat /\ n \in Nat /\ DOMAIN artifact.captured = 1 .. c
        /\ \A i \in 1 .. c : artifact.captured[i] = [step |-> (i - 1) * Stride, run |-> i - 1]
        /\ (c - 1) * Stride < n /\ n <= c * Stride
    BY DEF PublishedEpisode
  <1>2. \A i \in 1 .. c : artifact.captured[i].step = (i - 1) * Stride
    BY CaptureFields, Zenon
  <1> HIDE DEF c, n
  <1>3. ASSUME NEW i \in 1 .. c PROVE (i - 1) * Stride \in Strided(n)
    <2> DEFINE j == i - 1
    <2>1. j \in Nat /\ j <= c - 1
      BY <1>1
    <2> HIDE DEF j
    <2>2. (j * Stride) % Stride = 0 /\ j * Stride \in Nat
      BY <2>1, Multiples, Parameters
    <2>3. j * Stride <= (c - 1) * Stride
      <3>1. ASSUME NEW x \in Nat, NEW y \in Nat, NEW s \in Nat, x <= y PROVE x * s <= y * s
        BY <3>1
      <3>2. c - 1 \in Nat
        BY <1>1, <2>1
      <3>. QED  BY <2>1, <3>1, <3>2, Parameters
    <2>4. (c - 1) * Stride \in Int
      BY <1>1, Parameters
    <2>5. j * Stride \in 0 .. n - 1
      BY <1>1, <2>2, <2>3, <2>4
    <2>6. j * Stride \in Strided(n)
      BY <2>2, <2>5 DEF Strided
    <2>. QED  BY <2>6 DEF j
  <1>4. ASSUME NEW k \in Strided(n) PROVE \E i \in 1 .. c : k = (i - 1) * Stride
    <2> DEFINE q == k \div Stride
    <2>1. k \in Nat /\ k < n /\ k % Stride = 0
      BY <1>1 DEF Strided
    <2>2. q \in Nat /\ k = q * Stride
      BY <2>1, Multiples, Parameters
    <2> HIDE DEF q
    <2>3. q < c
      <3>1. ASSUME NEW x \in Nat, NEW y \in Nat, NEW s \in Nat \ {0}, x * s < y * s PROVE x < y
        BY <3>1
      <3>2. q * Stride \in Nat /\ c * Stride \in Nat
        BY <1>1, <2>2, Parameters
      <3>3. q * Stride < c * Stride
        BY <1>1, <2>1, <2>2, <3>2
      <3>. QED  BY <1>1, <2>2, <3>1, <3>3, Parameters
    <2>4. q + 1 \in 1 .. c /\ (q + 1) - 1 = q
      BY <1>1, <2>2, <2>3
    <2>. QED  BY <2>2, <2>4
  <1>5. ASSUME NEW i \in DOMAIN artifact.captured PROVE artifact.captured[i].step \in Strided(n)
    <2>1. i \in 1 .. c
      BY <1>1
    <2>. QED  BY <1>2, <1>3, <2>1, Zenon
  <1>6. ASSUME NEW k \in Strided(n)
        PROVE  \E i \in DOMAIN artifact.captured : k = artifact.captured[i].step
    <2>1. PICK i \in 1 .. c : k = (i - 1) * Stride
      BY <1>4
    <2>2. i \in DOMAIN artifact.captured /\ k = artifact.captured[i].step
      BY <1>1, <1>2, <2>1, Zenon
    <2>. QED  BY <2>2
  <1>7. {artifact.captured[i].step : i \in DOMAIN artifact.captured} = Strided(n)
    BY <1>5, <1>6, Zenon
  <1>. QED  BY <1>7 DEF n

\* A sidecar comes only from a replay nothing disturbed, and covers the states whose
\* activations the rollout captured.
THEOREM CleanReplays == Spec => []OnlyCleanReplaysPublish
  <1>1. Inv => OnlyCleanReplaysPublish
    <2> SUFFICES ASSUME Inv, spc = "published" PROVE OnlyCleanReplaysPublish
      BY DEF OnlyCleanReplaysPublish
    <2>1. Verdict /\ PublishedEpisode
      BY Published DEF Inv, ScoringInvariant
    <2>. QED  BY <2>1, CapturedSteps DEF Verdict, OnlyCleanReplaysPublish
  <1>. QED  BY <1>1, ScoringStarts, StepKeeps, PTL DEF Spec

\* Scoring fails only when something outside the scorer went wrong, and refuses only the
\* episodes whose reset was invalid.
THEOREM NoneSelfInflicted == Spec => []NoSelfInflictedFailure
  <1>1. Inv => NoSelfInflictedFailure
    <2> SUFFICES ASSUME Inv PROVE NoSelfInflictedFailure
      OBVIOUS
    <2>1. spc = "failed" => fault # NoFault
      BY DEF Inv, ScoringInvariant, Verdict
    <2>2. ASSUME spc = "refused" PROVE artifact.status = "invalid_reset"
      <3>1. world.reasons # {} /\ rpc = "published"
        BY <2>2 DEF Inv, ScoringInvariant, Verdict
      <3>. QED  BY <3>1, ReplayableWhenValid DEF Inv
    <2>. QED  BY <2>1, <2>2 DEF NoSelfInflictedFailure
  <1>. QED  BY <1>1, ScoringStarts, StepKeeps, PTL DEF Spec

\* However scoring ends, the random state is the caller's again and no simulator edit is
\* left, unless restoring is what failed.
THEOREM NoneLeaks == Spec => []NothingLeaks
  <1>1. Inv => NothingLeaks
    <2> SUFFICES ASSUME Inv PROVE NothingLeaks
      OBVIOUS
    <2>1. spc \in {"published", "failed", "refused"} => rng = InitialRng
      BY DEF Inv, ScoringInvariant, Verdict
    <2>2. ASSUME ~Editing PROVE replayed.edit = NoEdit \/ fault = "restore"
      <3>1. CASE spc = "start"
        BY <3>1 DEF Inv, ScoringInvariant, ScoringInit, FreshRuntime
      <3>2. CASE spc = "walk"
        <4>1. Walking
          BY <3>2 DEF Inv, ScoringInvariant
        <4>. QED  BY <2>2, <4>1, ReplayedIs DEF Inv
      <3>3. CASE spc \in {"published", "failed", "refused"}
        BY <3>3 DEF Inv, ScoringInvariant, Verdict, FreshRuntime
      <3>. QED  BY <2>2, <3>1, <3>2, <3>3 DEF Inv, ScoringInvariant, Editing
    <2>. QED  BY <2>1, <2>2 DEF NothingLeaks
  <1>. QED  BY <1>1, ScoringStarts, StepKeeps, PTL DEF Spec

=============================================================================
