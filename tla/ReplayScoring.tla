------------------------------ MODULE ReplayScoring ------------------------------
(***************************************************************************)
(* Scoring one published episode (scoring.py, scoring_runtime.py): a fresh *)
(* runtime replays the recorded actions, and at every Stride-th state the  *)
(* policy is called on the recorded observation, on counterfactual edits   *)
(* of it and with shifted activations, all with common noise.  Nothing of  *)
(* this may leave a trace in the replay, the policy queue or the global    *)
(* random state, and a sidecar is published only after every check.        *)
(*                                                                         *)
(* Extends EpisodeRollout: the episode scored is the one it published.     *)
(***************************************************************************)
EXTENDS EpisodeRollout

CONSTANTS OriginalDraws,   \* ORIGINAL_DRAWS
          CommonDraws,     \* COMMON_DRAWS
          Transforms,      \* FROZEN_TRANSFORMS, in order: [name, family] records
          Faults           \* the faults the environment may commit, one per behaviour

ASSUME ScoringAssumption ==
    /\ OriginalDraws \in Nat /\ CommonDraws \in 1 .. OriginalDraws
    /\ Transforms \in Seq([name : STRING, family : STRING])
    /\ Faults \subseteq {"rng", "queue", "drift", "restore", "exception"}
    /\ \A i \in 1 .. Len(Transforms) : Transforms[i].name # NoEdit

VARIABLES spc,       \* where score_replay_to_sidecar is
          replayed,  \* the fresh runtime that replays the episode
          at,        \* the index of the recorded action to issue next
          work,      \* where the loops of _score_state are
          view,      \* the frame process_observation is given for the next calls
          cache,     \* _original_activation_by_noise
          arrays,    \* the score arrays, as the set of filled entries
          rng,       \* the process-global random state
          queue,     \* the policy's action queue
          fault,     \* the fault committed, or NoFault
          sidecar    \* the published sidecar's entries, or {}

scoringVars == <<spc, replayed, at, work, view, cache, arrays, rng, queue, fault, sidecar>>
vars == <<rolloutVars, scoringVars>>

NoFault   == "none"
NoBase    == [draw |-> 0]
InitialRng   == "caller"
InitialQueue == "initial"

Photometric(t) == t.family = "photometric"

-----------------------------------------------------------------------------
(* Where the loops of _score_state are. *)

Position(op, t, draw) == [op |-> op, t |-> t, draw |-> draw, directed |-> {}]
Done == Position("done", 0, 0)

NextTransform(t) == IF t < Len(Transforms) THEN Position("transform", t + 1, 0)
                                           ELSE Position("directions", 0, 0)

Later(draw, draws) == {d \in draws : d > draw}
Earliest(draws)    == CHOOSE d \in draws : \A e \in draws : d <= e

\* The draws that have a direction, first shifted one way, then the other.
NextDirected(op, draw, directed) ==
    LET Shifted(o, draws) == [op |-> o, t |-> 0, draw |-> Earliest(draws),
                              directed |-> directed]
    IN IF Later(draw, directed) # {} THEN Shifted(op, Later(draw, directed))
       ELSE IF op = "minus" /\ directed # {} THEN Shifted("plus", directed)
       ELSE Done

AfterCall(w) ==
    IF w.op = "original" THEN IF w.draw < OriginalDraws THEN [w EXCEPT !.draw = @ + 1]
                                                        ELSE NextTransform(0)
    ELSE IF w.op = "transformed" THEN IF w.draw < CommonDraws THEN [w EXCEPT !.draw = @ + 1]
                                                              ELSE NextTransform(w.t)
    ELSE NextDirected(w.op, w.draw, w.directed)

Interventions == {"minus", "plus"}

\* What is filed with a call.
Call(w) ==
    [kind |-> IF w.op \in Interventions THEN "intervention" ELSE w.op,
     name |-> IF w.op = "transformed" THEN Transforms[w.t].name
              ELSE IF w.op = "original" THEN NoEdit ELSE w.op,
     draw |-> w.draw]

Factual   == artifact.frames[at]
Scored(f) == f.step % Stride = 0
Edit      == Transforms[work.t]

-----------------------------------------------------------------------------
ScoringInit ==
    /\ spc = "start"
    /\ replayed = FreshRuntime
    /\ at = 1
    /\ work = Done
    /\ view = [time |-> 0, edit |-> NoEdit]
    /\ cache = [key \in {} |-> NoBase]
    /\ arrays = {}
    /\ rng = InitialRng
    /\ queue = InitialQueue
    /\ fault = NoFault
    /\ sidecar = {}

Init == RolloutInit /\ ScoringInit

\* Mutant: a failure leaves the random state as it is.
RaiseBare ==
    /\ spc' = "failed"
    /\ rng' = rng
    /\ work' = Done

\* _require_rng_nonmutation: whatever raised, the caller gets its random state back.
Raise ==
    /\ spc' = "failed"
    /\ rng' = InitialRng
    /\ work' = Done

\* FactualReplay: a frame more than actions, numbered from 0; flags, successes and the
\* status agree on one end, at the last action.
Replayable ==
    LET n == Len(artifact.actions)
        Ends(i) == artifact.flags[i].terminated \/ artifact.flags[i].truncated
        last == artifact.frames[Len(artifact.frames)]
    IN /\ n >= 1
       /\ Len(artifact.flags) = n /\ Len(artifact.frames) = n + 1
       /\ \A i \in 1 .. n + 1 : artifact.frames[i].step = i - 1
       /\ \A i \in 1 .. n : /\ Ends(i) <=> i = n
                            /\ ~(artifact.flags[i].terminated /\ artifact.flags[i].truncated)
                            /\ ~artifact.frames[i].success
       /\ artifact.status = IF last.success THEN "success"
                            ELSE IF artifact.flags[n].truncated THEN "truncated"
                            ELSE "terminated_without_success"

ReplayRefuse ==
    /\ spc = "start" /\ rpc = "published"
    /\ ~Replayable
    /\ spc' = "refused"
    /\ UNCHANGED <<rolloutVars, replayed, at, work, view, cache, arrays, rng, queue, fault, sidecar>>

\* begin_score_state clears the cache of original activations.
EnterState(frame) ==
    IF Scored(frame)
    THEN cache' = [key \in {} |-> NoBase] /\ work' = Position("factual", 0, 0)
    ELSE UNCHANGED <<cache, work>>

\* reset_replay reseeds the process and puts its random state back.
ReplayReset ==
    /\ spc = "start" /\ rpc = "published"
    /\ Replayable
    /\ replayed' = ResetEpisode(replayed, world.reasons)
    /\ IF TraceFrame(replayed', replayed'.seen) = Factual
       THEN spc' = "walk" /\ EnterState(Factual) /\ UNCHANGED rng
       ELSE Raise /\ UNCHANGED cache
    /\ UNCHANGED <<rolloutVars, at, view, arrays, queue, fault, sidecar>>

NextIs(op) == spc = "walk" /\ work.op = op

\* The fault, if the environment commits one here.
Commits(f) ==
    \/ fault' = fault /\ f = NoFault
    \/ fault = NoFault /\ f \in Faults /\ fault' = f

\* process_observation makes a forced read of the runtime and lays the frame's
\* cameras and low-dimensional state over it.
ProcessObservation(raw) == view' = raw /\ replayed' = AfterForcedRead(replayed)

ObserveFactual ==
    /\ NextIs("factual")
    /\ ProcessObservation(Factual.raw)
    /\ work' = Position("original", 0, 1)
    /\ UNCHANGED <<rolloutVars, spc, at, cache, arrays, rng, queue, fault, sidecar>>

BrightnessFrame ==
    /\ NextIs("transform") /\ Photometric(Edit)
    /\ ProcessObservation(Edited(Factual.raw, Edit.name))
    /\ work' = Position("transformed", work.t, 1)
    /\ UNCHANGED <<rolloutVars, spc, at, cache, arrays, rng, queue, fault, sidecar>>

\* capture_snapshot, apply_transform, transformed_validity, current_frame.  Only an
\* object edit may be unavailable.
EditSimulator ==
    /\ NextIs("transform") /\ ~Photometric(Edit)
    /\ LET edited == Edited(replayed, Edit.name)
       IN \/ /\ replayed' = AfterForcedRead(edited)
             /\ view' = ForcedObservation(edited)
             /\ spc' \in {"edited", "unwind"}
          \/ /\ Edit.family = "object_pose"
             /\ replayed' = edited
             /\ spc' \in {"unavailable", "unwind"}
             /\ UNCHANGED view
    /\ Commits(IF spc' = "unwind" THEN "exception" ELSE NoFault)
    /\ UNCHANGED <<rolloutVars, at, work, cache, arrays, rng, queue, sidecar>>

Editing == spc \in {"edited", "unavailable", "unwind"}

\* The finally clause: restore, then compare with the snapshot.  An available edit
\* is then processed, on the restored runtime; the calls of another are skipped.
RestoreSimulator ==
    /\ Editing
    /\ \/ /\ Commits(NoFault)
          /\ LET restored == Edited(replayed, NoEdit)
             IN replayed' = IF spc = "edited" THEN AfterForcedRead(restored) ELSE restored
       \/ Commits("restore") /\ UNCHANGED replayed
    /\ IF spc = "unwind" \/ replayed'.edit # NoEdit
       THEN Raise
       ELSE /\ spc' = "walk"
            /\ work' = IF spc = "edited" THEN Position("transformed", work.t, 1)
                       ELSE NextTransform(work.t)
            /\ UNCHANGED rng
    /\ UNCHANGED <<rolloutVars, at, view, cache, arrays, queue, sidecar>>

\* The interventions are made on the factual observation processed before; those whose
\* probe output has no direction are left out.
ProbeDirections ==
    /\ NextIs("directions")
    /\ \E directed \in SUBSET (1 .. CommonDraws) :
        work' = NextDirected("minus", 0, directed)
    /\ view' = Factual.raw
    /\ UNCHANGED <<rolloutVars, spc, replayed, at, cache, arrays, rng, queue, fault, sidecar>>

NoiseKey(call) == <<Factual.step, call.draw>>

\* Mutant: a later call with the same noise replaces the activation.
CachedAnew(key, activation) ==
    [k \in DOMAIN cache \cup {key} |-> IF k = key THEN activation ELSE cache[k]]

\* setdefault: the first call with a noise, the original one, is kept.
Cached(key, activation) == IF key \in DOMAIN cache THEN cache
                           ELSE [k \in DOMAIN cache \cup {key} |->
                                    IF k = key THEN activation ELSE cache[k]]

\* predict_action_chunk with explicit noise, and _validate_call.  An intervention
\* shifts the activation cached for its noise.
PredictActionChunk ==
    /\ spc = "walk" /\ work.op \in {"original", "transformed"} \cup Interventions
    /\ LET call    == Call(work)
           key     == NoiseKey(call)
           patched == call.kind = "intervention"
           entry   == [step |-> Factual.step, call |-> call, input |-> view,
                       base |-> IF patched /\ key \in DOMAIN cache THEN cache[key]
                                ELSE NoBase]
       IN \E f \in {NoFault, "rng", "queue", "exception"} :
            /\ Commits(f)
            /\ queue' = IF f = "queue" THEN "mutated" ELSE queue
            /\ IF \/ f = "exception"
                  \/ queue' # queue
                  \/ patched /\ key \notin DOMAIN cache
               THEN Raise /\ UNCHANGED <<cache, arrays>>
               ELSE /\ rng' = IF f = "rng" THEN "consumed" ELSE rng
                    /\ work' = AfterCall(work)
                    /\ arrays' = arrays \cup {entry}
                    /\ cache' = IF patched THEN cache
                                ELSE Cached(key, [draw |-> call.draw, input |-> view])
                    /\ UNCHANGED spc
    /\ UNCHANGED <<rolloutVars, replayed, at, view, sidecar>>

\* step_replay and the comparisons with the recorded transition.
StepReplay ==
    /\ spc = "walk" /\ work = Done
    /\ at <= Len(artifact.actions)
    /\ \E f \in {NoFault, "drift"} :
        /\ Commits(f)
        /\ replayed' = [StepEpisode(replayed) EXCEPT !.time = IF f = "drift" THEN @ + 1 ELSE @]
    /\ at' = at + 1
    /\ IF /\ StepFlags(replayed) = artifact.flags[at]
          /\ TraceFrame(replayed', replayed'.seen) = artifact.frames[at + 1]
       THEN /\ UNCHANGED <<spc, rng>>
            /\ IF at' <= Len(artifact.actions) THEN EnterState(artifact.frames[at'])
               ELSE UNCHANGED <<cache, work>>
       ELSE Raise /\ UNCHANGED cache
    /\ UNCHANGED <<rolloutVars, view, arrays, queue, sidecar>>

EntriesOf(kind, name) == {e \in arrays : e.call.kind = kind /\ e.call.name = name}

\* _reject_inert_transforms: equal inputs and equal noise give bit-identical outputs.
Inert(name) ==
    /\ EntriesOf("transformed", name) # {}
    /\ \A e \in EntriesOf("transformed", name) :
        \E o \in EntriesOf("original", NoEdit) :
            o.step = e.step /\ o.call.draw = e.call.draw /\ o.input = e.input

\* _validate_arrays: every strided state, every original draw, photometric and
\* camera edits always, both directions of an intervention or neither.
ArraysValid ==
    /\ {e.step : e \in arrays} = {k \in 0 .. Len(artifact.actions) - 1 : k % Stride = 0}
    /\ \A k \in {e.step : e \in arrays} :
        /\ {e.call.draw : e \in {o \in EntriesOf("original", NoEdit) : o.step = k}}
              = 1 .. OriginalDraws
        /\ \A i \in DOMAIN Transforms :
            Transforms[i].family # "object_pose" =>
                \E e \in EntriesOf("transformed", Transforms[i].name) : e.step = k
        /\ {e.call.draw : e \in {o \in EntriesOf("intervention", "minus") : o.step = k}}
              = {e.call.draw : e \in {o \in EntriesOf("intervention", "plus") : o.step = k}}
    /\ \A i \in DOMAIN Transforms : ~Inert(Transforms[i].name)

\* Mutant: the random state is not compared.
UndisturbedQueue == queue = InitialQueue

\* The last comparisons before the destination is written.
Undisturbed == rng = InitialRng /\ queue = InitialQueue

PublishSidecar ==
    /\ spc = "walk" /\ work = Done
    /\ at > Len(artifact.actions)
    /\ IF Undisturbed /\ ArraysValid
       THEN spc' = "published" /\ sidecar' = arrays /\ UNCHANGED <<rng, work>>
       ELSE Raise /\ UNCHANGED sidecar
    /\ UNCHANGED <<rolloutVars, replayed, at, view, cache, arrays, queue, fault>>

ScoringNext ==
    \/ ReplayRefuse     \/ ReplayReset     \/ ObserveFactual  \/ BrightnessFrame
    \/ EditSimulator    \/ RestoreSimulator \/ ProbeDirections \/ PredictActionChunk
    \/ StepReplay       \/ PublishSidecar

Next == (RolloutNext /\ UNCHANGED scoringVars) \/ ScoringNext

Spec == Init /\ [][Next]_vars

-----------------------------------------------------------------------------
TypeOK ==
    /\ world \in Worlds
    /\ rpc \in {"start", "retry", "seed", "select", "step", "publish", "published", "failed"}
    /\ spc \in {"start", "walk", "edited", "unavailable", "unwind", "published",
               "failed", "refused"}
    /\ {runtime.phase, replayed.phase} \subseteq 0 .. Period - 1
    /\ at \in 1 .. MaxSteps + 1
    /\ {e.step : e \in arrays} \subseteq 0 .. MaxSteps - 1
    /\ fault \in Faults \cup {NoFault}
    /\ sidecar \in {{}, arrays}

\* The captures of a published artifact are filed under exactly the strided control
\* steps at which an action was executed, one policy call each, in order
\* (run_single_episode).
CapturesAligned ==
    rpc = "published" =>
        LET strided == {k \in 0 .. Len(artifact.actions) - 1 : k % Stride = 0}
        IN \A i \in 1 .. Cardinality(strided) :
            /\ Len(artifact.captured) = Cardinality(strided)
            /\ artifact.captured[i].step = (i - 1) * Stride
            /\ artifact.captured[i].run = i - 1

\* What a score says it measured is what the policy saw: an original the recorded
\* observation, a counterfactual the same moment under its edit, an intervention
\* the recorded observation shifted from its own draw's original activation
\* (_score_state, predict_action_chunk, the forced reads of libero_runtime.py).
ScoresMeasureWhatTheySay ==
    \A e \in arrays :
        LET recorded == artifact.frames[e.step + 1].raw
        IN /\ e.call.kind # "transformed" => e.input = recorded
           /\ e.call.kind = "transformed" =>
                  e.input = Edited(recorded, e.call.name)
           /\ e.call.kind = "intervention" =>
                  e.base = [draw |-> e.call.draw, input |-> recorded]

\* A sidecar is published only by a replay that nothing disturbed, and it covers the
\* states whose activations the rollout captured (score_replay_to_sidecar).
OnlyCleanReplaysPublish ==
    spc = "published" =>
        /\ fault = NoFault
        /\ {e.step : e \in sidecar} = {artifact.captured[i].step : i \in DOMAIN artifact.captured}

\* Scoring a recorded episode fails only if something outside the scorer went wrong:
\* its own reads, edits and reseeding never make it refuse its own replay, and every
\* episode the rollout ran to an end is one the scorer takes
\* (_preserved_observable_sampling, FactualReplay.__post_init__).
NoSelfInflictedFailure ==
    /\ spc = "failed" => fault # NoFault
    /\ spc = "refused" => artifact.status = "invalid_reset"

\* However scoring ends, the process gets back the random state it came with, and no
\* simulator edit outlives the try block that made it (unless restoring is what
\* failed).
NothingLeaks ==
    /\ spc \in {"published", "failed", "refused"} => rng = InitialRng
    /\ ~Editing => replayed.edit = NoEdit \/ fault = "restore"

-----------------------------------------------------------------------------
(* What the proofs rest on. *)

ActionCount == Len(artifact.actions)
Scoring     == work # Done
Raw(k)      == Moment(k)

\* Between reset and verdict the replay is where the rollout was after as many steps.
ReplayExact ==
    /\ rpc = "published" /\ world.reasons = {} /\ at \in 1 .. ActionCount + 1
    /\ replayed.terminal \in BOOLEAN
    /\ replayed = Edited(RuntimeAfter(at - 1, replayed.terminal),
                         IF Editing THEN Edit.name ELSE NoEdit)

\* A walk goes on only undisturbed, or with a disturbance that its end will notice.
FaultNoticed ==
    /\ queue = InitialQueue
    /\ IF spc = "unwind" THEN fault = "exception" ELSE fault \in {NoFault, "rng"}
    /\ rng = IF fault = "rng" THEN "consumed" ELSE InitialRng

\* The places the loops can be at.
Positions ==
    {Done, Position("factual", 0, 0), Position("directions", 0, 0)}
    \cup {Position("original", 0, d) : d \in 1 .. OriginalDraws}
    \cup {Position("transform", t, 0) : t \in 1 .. Len(Transforms)}
    \cup {Position("transformed", t, d) : t \in 1 .. Len(Transforms), d \in 1 .. CommonDraws}
    \cup {w \in [op : Interventions, t : {0}, draw : 1 .. CommonDraws,
                  directed : SUBSET (1 .. CommonDraws)] : w.draw \in w.directed}

PositionOK ==
    /\ work \in Positions
    /\ Scoring => at <= ActionCount /\ (at - 1) % Stride = 0
    /\ Editing => work.op = "transform" /\ ~Photometric(Edit)
    /\ spc = "unavailable" => Edit.family = "object_pose"

\* The observation the next calls are made on.
ViewRight ==
    /\ work.op \in {"original", "minus", "plus"} => view = Raw(at - 1)
    /\ work.op = "transformed" \/ spc = "edited" =>
           view = Edited(Raw(at - 1), Edit.name)

\* How far the loops of the state have got.
OriginalsDone(w)  == IF w.op = "factual" THEN 0
                     ELSE IF w.op = "original" THEN w.draw - 1 ELSE OriginalDraws
TransformsDone(w) == IF w.op \in {"factual", "original"} THEN 0
                     ELSE IF w.op = "transform" \/ (w.op = "transformed" /\ w.draw = 1)
                          THEN w.t - 1
                     ELSE IF w.op = "transformed" THEN w.t ELSE Len(Transforms)
MinusDone(w)      == IF w.op = "minus" THEN {d \in w.directed : d < w.draw}
                     ELSE IF w.op = "plus" THEN w.directed ELSE {}
PlusDone(w)       == IF w.op = "plus" THEN {d \in w.directed : d < w.draw} ELSE {}

Originals(k, m) == [key \in {<<k, d>> : d \in 1 .. m} |-> [draw |-> key[2], input |-> Raw(k)]]

CacheRight == Scoring => cache = Originals(at - 1, OriginalsDone(work))

\* Every entry says what it measured.
Measured(e) ==
    /\ e.step \in Nat /\ e.step % Stride = 0 /\ e.step < ActionCount /\ e.step <= at - 1
    /\ e.call.kind # "transformed" => e.input = Raw(e.step)
    /\ e.call.kind = "transformed" =>
           /\ e.input = Edited(Raw(e.step), e.call.name)
           /\ e.call.name # NoEdit
    /\ e.call.kind = "intervention" => e.base = [draw |-> e.call.draw, input |-> Raw(e.step)]

\* The draws of one kind of call filed for state k.
DrawsOf(filed, kind, name, k) ==
    {e.call.draw : e \in {o \in filed : o.call.kind = kind /\ o.call.name = name /\ o.step = k}}

\* What is filed for state k: m originals, the first t transforms unless unavailable, and the
\* interventions on some draws.
Filed(filed, k, m, t, minus, plus) ==
    /\ DrawsOf(filed, "original", NoEdit, k) = 1 .. m
    /\ \A i \in 1 .. t : Transforms[i].family # "object_pose" =>
          DrawsOf(filed, "transformed", Transforms[i].name, k) # {}
    /\ DrawsOf(filed, "intervention", "minus", k) = minus
    /\ DrawsOf(filed, "intervention", "plus", k) = plus

StateComplete(filed, k) ==
    \E directed \in SUBSET (1 .. CommonDraws) :
        Filed(filed, k, OriginalDraws, Len(Transforms), directed, directed)

ArraysFilled ==
    /\ \A k \in Strided(ActionCount) : k < at - 1 => StateComplete(arrays, k)
    /\ at <= ActionCount /\ (at - 1) % Stride = 0 =>
           IF Scoring THEN Filed(arrays, at - 1, OriginalsDone(work), TransformsDone(work),
                                 MinusDone(work), PlusDone(work))
           ELSE StateComplete(arrays, at - 1)

Walking == ReplayExact /\ FaultNoticed /\ PositionOK /\ ViewRight /\ CacheRight /\ ArraysFilled

\* What is left when scoring is over.
Verdict ==
    /\ rng = InitialRng
    /\ spc = "refused" => world.reasons # {} /\ fault = NoFault /\ replayed = FreshRuntime
    /\ spc = "failed" => fault # NoFault /\ (replayed.edit = NoEdit \/ fault = "restore")
    /\ spc = "published" =>
           /\ sidecar = arrays /\ fault = NoFault /\ replayed.edit = NoEdit
           /\ {e.step : e \in arrays} = Strided(ActionCount)

ScoringInvariant ==
    /\ spc \in {"start", "walk", "edited", "unavailable", "unwind", "published", "failed",
                "refused"}
    /\ spc # "start" => rpc = "published"
    /\ spc = "start" => ScoringInit
    /\ spc = "walk" \/ Editing => Walking
    /\ spc \in {"published", "failed", "refused"} => Verdict
    /\ spc # "published" => sidecar = {}
    /\ at \in 1 .. MaxSteps + 1
    /\ replayed.phase = 0
    /\ fault \in Faults \cup {NoFault}
    /\ \A e \in arrays : Measured(e)
=============================================================================
