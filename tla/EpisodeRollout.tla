------------------------------ MODULE EpisodeRollout ------------------------------
(***************************************************************************)
(* One manifested episode: rollout.py drives a RawLiberoEpisode            *)
(* (libero_runtime.py) with the policy, installs the activation hooks      *)
(* (instrumentation.py) around every Stride-th policy call, and publishes  *)
(* one raw artifact or none.                                               *)
(*                                                                         *)
(* Simulator time is counted in model timesteps, Period of them to a       *)
(* control step.  What a camera or a joint sensor shows is abstracted to   *)
(* the moment and the temporary edit it was sampled under.  The simulator  *)
(* backend (robosuite) is external: its observables sample once per        *)
(* Period, at a phase that an unguarded forced read would shift.           *)
(***************************************************************************)
EXTENDS Naturals, Integers, Sequences, FiniteSets

CONSTANTS MaxSteps,     \* execution.max_steps
          Stride,       \* ACTIVATION_SCORE_STRIDE_STEPS and SCORE_STRIDE_STEPS
          SettleSteps,  \* validity.settle_steps_after_edit
          Period,       \* model timesteps in one control step
          Reasons       \* the reasons of check_validity that may occur

ASSUME RolloutAssumption ==
    /\ {MaxSteps, Stride, SettleSteps, Period} \subseteq Nat \ {0}
    /\ "initial_task_success" \in Reasons

VARIABLES world,     \* what the simulator does under the manifest's seed, condition and actions
          rpc,       \* where run_single_episode is
          runtime,   \* the RawLiberoEpisode with its simulator and observables
          model,     \* the instrumentation: hooks installed, run index, calls, records
          selected,  \* the policy call whose action is about to be executed
          traj,      \* frames, executed actions and captures so far
          retry,     \* the validity_retry payload
          artifact   \* the published artifact, or NoArtifact

rolloutVars == <<world, rpc, runtime, model, selected, traj, retry, artifact>>

NoEdit     == "none"
NoArtifact == [status |-> "none"]
NoCall     == [run |-> -1, captured |-> FALSE]

Worlds == [reasons : SUBSET Reasons, retryReasons : SUBSET Reasons,
           ending : {"success", "backend_done", "none"}, at : 1 .. MaxSteps]

-----------------------------------------------------------------------------
(* The simulator and its observables. *)

FreshRuntime == [time |-> 0, edit |-> NoEdit, phase |-> 0,
                 seen |-> [time |-> 0, edit |-> NoEdit],
                 step |-> 0, terminal |-> FALSE, hasReset |-> FALSE]

Sim(r) == [time |-> r.time, edit |-> r.edit]

\* One control step of the backend: the observables sample when their timer wraps.
BackendStep(r) ==
    [r EXCEPT !.time = @ + Period,
              !.seen = [time |-> r.time + Period - r.phase, edit |-> r.edit]]

\* _get_observations(force_update=True): samples now, and advances the sampling
\* timers by one timestep although the simulation stands still.
BackendForcedRead(r) == [r EXCEPT !.seen = Sim(r), !.phase = (@ + 1) % Period]

\* What a forced read returns, and what _preserved_observable_sampling leaves behind.
ForcedObservation(r) == BackendForcedRead(r).seen

\* Mutant: the sampling timers and cached values are not put back.
AfterBareForcedRead(r) == BackendForcedRead(r)

AfterForcedRead(r) ==
    [BackendForcedRead(r) EXCEPT !.seen = r.seen, !.phase = r.phase]

\* A scene, or what is seen of it, under a temporary edit, or (NoEdit) under none.
Edited(r, edit) == [r EXCEPT !.edit = edit]

Settled == SettleSteps * Period

CheckSuccess(r) ==
    \/ "initial_task_success" \in world.reasons
    \/ world.ending = "success" /\ r.time >= Settled + world.at * Period

BackendDone(r) == world.ending = "backend_done" /\ r.time >= Settled + world.at * Period

TraceFrame(r, raw) ==
    [step |-> r.step, time |-> r.time, raw |-> raw, success |-> CheckSuccess(r)]

\* RawLiberoEpisode.reset: consumed before the wrapper is touched, the settle
\* steps bypass the autoresetting wrapper, and initial success is terminal.
ResetEpisode(r, reasons) ==
    LET settle[n \in 0 .. SettleSteps] ==
            IF n = 0 THEN [r EXCEPT !.hasReset = TRUE, !.step = 0]
                     ELSE BackendStep(settle[n - 1])
    IN [settle[SettleSteps] EXCEPT !.terminal = "initial_task_success" \in reasons]

\* Mutant: truncated one step late.
StepFlagsLate(r) ==
    LET next       == [BackendStep(r) EXCEPT !.step = @ + 1]
        terminated == BackendDone(next) \/ CheckSuccess(next)
    IN [terminated |-> terminated,
        truncated  |-> next.step > MaxSteps /\ ~terminated]

\* RawLiberoEpisode.step (only called when not terminal).
StepFlags(r) ==
    LET next       == [BackendStep(r) EXCEPT !.step = @ + 1]
        terminated == BackendDone(next) \/ CheckSuccess(next)
    IN [terminated |-> terminated,
        truncated  |-> next.step >= MaxSteps /\ ~terminated]

StepEpisode(r) ==
    [BackendStep(r) EXCEPT !.step = @ + 1,
        !.terminal = StepFlags(r).terminated \/ StepFlags(r).truncated]

-----------------------------------------------------------------------------
(* The instrumentation. *)

FlowSteps    == 10
CaptureSteps == {0, 5}
CallsPerRun  == FlowSteps + 1

\* _new_call_frame: a prefix-cache call opens a run, then the denoising calls count up.
CallFrames(run) ==
    [i \in 1 .. CallsPerRun |->
        [phase |-> IF i = 1 THEN "prefix_cache" ELSE "denoising",
         run |-> run, flow |-> i - 2]]

\* The pre-hooks: the context token in the prefix call, both expert layers at the
\* captured flow steps.
HookRecords(frames) ==
    {[location |-> "vlm_context", run |-> frames[i].run, flow |-> frames[i].flow] :
        i \in {j \in DOMAIN frames : frames[j].phase = "prefix_cache"}}
    \cup
    {[location |-> l, run |-> frames[i].run, flow |-> frames[i].flow] :
        l \in {"expert_layer_4", "expert_layer_12"},
        i \in {j \in DOMAIN frames : /\ frames[j].phase = "denoising"
                                     /\ frames[j].flow \in CaptureSteps}}

Uninstrumented == [run |-> -1, calls |-> << >>, records |-> {}]

\* One inference with the hooks installed just around it.
Instrumented(m) ==
    LET frames == CallFrames(m.run + 1)
    IN [run |-> m.run + 1, calls |-> m.calls \o frames,
        records |-> m.records \cup HookRecords(frames)]

Cleared(m) == [m EXCEPT !.calls = << >>, !.records = {}]

\* _collect_activation_candidates: one prefix call, the flow steps in order, five
\* candidates, one run.
CandidatesComplete(m) ==
    /\ Len(m.calls) = CallsPerRun
    /\ m.calls[1].phase = "prefix_cache"
    /\ \A i \in 2 .. CallsPerRun : /\ m.calls[i].phase = "denoising"
                                   /\ m.calls[i].flow = i - 2
    /\ Cardinality(m.records) = 1 + 2 * Cardinality(CaptureSteps)
    /\ Cardinality({rec.run : rec \in m.records}) = 1

-----------------------------------------------------------------------------
(* run_single_episode *)

RolloutInit ==
    /\ world \in Worlds
    /\ rpc = "start"
    /\ runtime = FreshRuntime
    /\ model = Uninstrumented
    /\ selected = NoCall
    /\ traj = [frames |-> << >>, actions |-> << >>, captured |-> << >>, flags |-> << >>]
    /\ retry = [performed |-> FALSE]
    /\ artifact = NoArtifact

\* _assert_runtime_contract and _artifact_destination: a runtime nobody has reset
\* and a cell nobody has published (the equality of configurations is abstracted).
RuntimeContract == ~runtime.hasReset /\ artifact = NoArtifact

RolloutReset ==
    /\ rpc = "start"
    /\ RuntimeContract
    /\ runtime' = ResetEpisode(runtime, world.reasons)
    /\ traj' = [traj EXCEPT !.frames = <<TraceFrame(runtime', runtime'.seen)>>]
    /\ rpc' = IF world.reasons = {} THEN "seed" ELSE "retry"
    /\ UNCHANGED <<world, model, selected, retry, artifact>>

\* An invalid reset is repeated once, on a fresh runtime, only to record whether
\* it agrees: it never rescues the episode.
RolloutRetry ==
    /\ rpc = "retry"
    /\ retry' = [performed |-> TRUE,
                 agrees |-> world.retryReasons # {},
                 agreesOnReasons |-> world.retryReasons = world.reasons]
    /\ rpc' = "publish"
    /\ UNCHANGED <<world, runtime, model, selected, traj, artifact>>

\* seed_runtime(inference_seed) and policy.reset(), once.
RolloutSeed ==
    /\ rpc = "seed"
    /\ rpc' = "select"
    /\ UNCHANGED <<world, runtime, model, selected, traj, retry, artifact>>

ScoreState == traj.frames[Len(traj.frames)].step % Stride = 0

\* The policy replans at every step (n_action_steps = 1), hooked or not.
SelectAction ==
    /\ rpc = "select"
    /\ ~runtime.terminal
    /\ IF ScoreState
       THEN /\ model' = Instrumented(Cleared(model))
            /\ selected' = [run |-> model'.run, captured |-> TRUE]
            /\ rpc' = IF CandidatesComplete(model') THEN "step" ELSE "failed"
       ELSE /\ selected' = NoCall
            /\ rpc' = "step"
            /\ UNCHANGED model
    /\ UNCHANGED <<world, runtime, traj, retry, artifact>>

\* An exception in the policy, the postprocessor or the simulator: nothing is published.
RolloutFail ==
    /\ rpc \in {"start", "retry", "select", "step"}
    /\ rpc' = "failed"
    /\ UNCHANGED <<world, runtime, model, selected, traj, retry, artifact>>

\* Mutant: filed under the frame the action led to.
CaptureStepAfter(frames) == frames[Len(frames)].step

\* The capture is filed under the frame the policy saw, which after the append is
\* the last but one.
CaptureStep(frames) == frames[Len(frames) - 1].step

StepAction ==
    /\ rpc = "step"
    /\ runtime' = StepEpisode(runtime)
    /\ LET frames == Append(traj.frames, TraceFrame(runtime', runtime'.seen))
       IN traj' = [frames   |-> frames,
                   actions  |-> Append(traj.actions, runtime.step),
                   flags    |-> Append(traj.flags, StepFlags(runtime)),
                   captured |-> IF selected.captured
                                THEN Append(traj.captured,
                                       [step |-> CaptureStep(frames), run |-> selected.run])
                                ELSE traj.captured]
    /\ selected' = NoCall
    /\ rpc' = IF runtime'.terminal THEN "publish" ELSE "select"
    /\ UNCHANGED <<world, model, retry, artifact>>

LastFlags == IF traj.flags = << >> THEN [terminated |-> FALSE, truncated |-> FALSE]
                                   ELSE traj.flags[Len(traj.flags)]

Status ==
    IF world.reasons # {} THEN "invalid_reset"
    ELSE IF traj.frames[Len(traj.frames)].success THEN "success"
    ELSE IF LastFlags.truncated THEN "truncated"
    ELSE "terminated_without_success"

RolloutPublish ==
    /\ rpc = "publish"
    /\ artifact' = [status   |-> Status,
                    frames   |-> traj.frames,
                    actions  |-> traj.actions,
                    flags    |-> traj.flags,
                    captured |-> traj.captured,
                    retry    |-> retry]
    /\ rpc' = "published"
    /\ UNCHANGED <<world, runtime, model, selected, traj, retry>>

RolloutNext ==
    \/ RolloutReset \/ RolloutRetry \/ RolloutSeed
    \/ SelectAction \/ StepAction   \/ RolloutPublish \/ RolloutFail

-----------------------------------------------------------------------------
(* What the proofs rest on: the world is deterministic, so that everything a *)
(* rollout has recorded is a function of the number of steps it has taken.   *)

Moment(n) == [time |-> Settled + n * Period, edit |-> NoEdit]

RuntimeAfter(n, ended) ==
    [time |-> Settled + n * Period, edit |-> NoEdit, phase |-> 0, seen |-> Moment(n),
     step |-> n, terminal |-> ended, hasReset |-> TRUE]

FrameAfter(n) == TraceFrame(RuntimeAfter(n, FALSE), Moment(n))
FlagsAfter(n) == StepFlags(RuntimeAfter(n, FALSE))
Ended(flags)  == flags.terminated \/ flags.truncated

Taken   == Len(traj.actions)
Strided(n) == {k \in 0 .. n - 1 : k % Stride = 0}

\* The frames, actions and flags of the steps taken, none but the last of which ended
\* the episode.
StepsRecorded ==
    /\ traj.actions \in Seq(Nat)
    /\ traj.frames \in Seq([step : Nat, time : Nat, success : BOOLEAN,
                            raw : [time : Nat, edit : {NoEdit}]])
    /\ traj.flags \in Seq([terminated : BOOLEAN, truncated : BOOLEAN])
    /\ Len(traj.frames) = Taken + 1 /\ Len(traj.flags) = Taken
    /\ \A i \in 1 .. Taken + 1 : traj.frames[i] = FrameAfter(i - 1)
    /\ \A i \in 1 .. Taken : traj.flags[i] = FlagsAfter(i - 1)
    /\ \A i \in 1 .. Taken - 1 : ~Ended(traj.flags[i])

\* One capture for each strided step, filed under it, from one run each.
StepsCaptured ==
    LET c == Len(traj.captured) IN
    /\ traj.captured \in Seq([step : Nat, run : Nat])
    /\ c = Cardinality(Strided(Taken))
    /\ (c - 1) * Stride < Taken /\ Taken <= c * Stride
    /\ \A i \in 1 .. c : traj.captured[i] = [step |-> (i - 1) * Stride, run |-> i - 1]

\* The run the next captured call will belong to, and the call selected.
RunsCounted ==
    IF rpc = "step" /\ Taken % Stride = 0
    THEN /\ model = [run |-> Len(traj.captured), calls |-> model.calls, records |-> model.records]
         /\ selected = [run |-> model.run, captured |-> TRUE]
    ELSE /\ model = [run |-> Len(traj.captured) - 1, calls |-> model.calls, records |-> model.records]
         /\ selected = NoCall

AtStart ==
    /\ runtime = FreshRuntime /\ model = Uninstrumented /\ selected = NoCall
    /\ traj = [frames |-> << >>, actions |-> << >>, captured |-> << >>, flags |-> << >>]

UnderWay ==
    /\ StepsRecorded /\ StepsCaptured /\ RunsCounted
    /\ runtime = RuntimeAfter(Taken, runtime.terminal) /\ runtime.terminal \in BOOLEAN
    /\ world.reasons # {} => Taken = 0 /\ rpc \in {"retry", "publish", "published"}
    /\ world.reasons = {} => /\ rpc # "retry"
                             /\ Taken = 0 => rpc \in {"seed", "select", "step"}
    /\ Taken > 0 => /\ rpc \in {"select", "step", "publish", "published"}
                    /\ Ended(traj.flags[Taken]) <=> rpc \in {"publish", "published"}
    /\ rpc = "published" =>
          artifact = [status |-> Status, frames |-> traj.frames, actions |-> traj.actions,
                      flags |-> traj.flags, captured |-> traj.captured, retry |-> retry]

RolloutInvariant ==
    /\ world \in Worlds
    /\ rpc \in {"start", "retry", "seed", "select", "step", "publish", "published", "failed"}
    /\ rpc = "start" => AtStart
    /\ rpc \notin {"start", "failed"} => UnderWay
    /\ rpc # "published" => artifact = NoArtifact
    /\ runtime.phase = 0
=============================================================================
