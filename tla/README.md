# Verification of the mech-int-vla control plane and analysis chain

This directory holds TLA+ models of `mech-int-vla`, the TLC runs that check them, and TLAPS
proofs about seven of the systems they describe.

The repository is a pre-registered study of a vision-language-action policy. Episodes are rolled out
and scored on one GPU for days; around that, under `ops/` and in the publication code of
`src/mech_int_vla/`, is a control plane of Python processes that coordinate through the file system
only: `flock`s, lock files created with `O_EXCL`, staging directories, atomic renames and receipts.
Its promise is about evidence: an artifact is never replaced, a measurement is never silently made
twice, a receipt never speaks of anything but what is there, and the operator may repeat a command
after any death. Inside one episode the promise is that scoring a recording does not disturb it;
around the study, that every gate opens only on what was frozen before it; and in the analysis, that
no outcome reaches a place that must not know it. These are the properties modelled here.

## 1. Inventory

| Component (source) | State it keeps | Operations | What is hard | What makes it correct |
|---|---|---|---|---|
| **Two-worker Calibration scoring** (`ops/calibration_two_worker_continuation_18d6494.py`, plan execution) | global flock and its inherited descriptors, staging attempts, prepared / promotion / abandoned receipts, worker summaries, execution receipt, feature root, completion | `_run_plan`, `_worker_main`, `_run_finalizer`, `resume` | two workers, a coordinator and a finalizer, each of which can die between any two file operations; non-atomic receipts; retries | one run at a time; sidecars match receipts; no finished score is lost or scored twice; closure speaks of what is there; resume completes |
| **Serial-to-two-worker cutover** (same file: `_cutover_main`, `_resume_*`, `_recover_ignored_sigint_main`) | the execution root's receipts, signal attempts, the serial scorer's log and sidecars | `cutover`, `resume`, `recover-ignored-sigint` | signals to a live process that goes on publishing; coordinators that race or die between intent and dispatch | each signal once; receipts truthful; the plan stands on frozen sidecars |
| **Serial Calibration scoring** (`ops/calibration_score_18d6494.py`, `scoring.py`) | score root, feature root | episode walk, sidecar publication, finalization | runs while the cutover watches; its finalizer is not resumable | as the two above need it |
| **Locked Test collection** (`ops/locked_test_supervisor.py`, `ops/locked_test_cell.py`, `rollout.py`) | collection root, global flock, completion receipt | plan, collect, one cell process per episode | cells that outlive their supervisor; checks and launches far apart in time | artifacts immutable; receipt binds them; residue only from a death |
| **Locked Test scoring** (`ops/locked_test_score.py`, `scoring.py`, `allocation.py`) | score root, four content-addressed roots | forward / reverse / sharded walk, wait, finalization | no lock around the run at all: walkers meet on one episode, finalizers on one root | published once; the four stages stand on the same sidecars; meeting does not kill |
| **Episode rollout** (`rollout.py`, `libero_runtime.py`, `instrumentation.py`, `determinism.py`) | simulator, observable timers and caches, policy queue, hooks | reset, retry, settle, control loop, capture, publish | forced reads shift sampling timers; which frame a capture belongs to | captures at the strided steps; invalid reset is terminal |
| **Scored replay** (`scoring.py`, `scoring_runtime.py`) | the replaying simulator, the caller's random state, queue, activation caches | replay, score a state under noise, edits and interventions, publish | temporary edits and common noise inside a deterministic replay; exceptions in the middle | scores are of the input they name; an undisturbed replay is never refused, a disturbed one never published; nothing leaks |
| **Post-score chain** (`locked_test_postscore.py`, `locked_test_causal.py`, `locked_test_evaluate.py`, `causal.py`, `evaluation.py`) | content-addressed receipts, pair checkpoints | preflight, causal pairs, sensitivity, cost, evaluate | resumption from checkpoints, receipts that bind earlier receipts, a GPU that answers differently | receipts bind what was measured; outcomes opened last; refused only for cause |
| **Guard and freeze** (`guard.py`, `build_calibration_freeze.py`, `prepare_locked_test_artifacts.py`) | freeze file, git commits, tags and worktree | authorization of Calibration and of the Locked Test | a conjunction of many frozen facts, read at different times | what was opened can be had again from one commit |
| **Reality Gate** (`reality_gate.py`, `runtime_cli.py`) | Discovery artifacts, the frozen gate | Discovery cells, attempts, decision, lock, rehydration | cells of several commits in one directory; a decision recomputed elsewhere | Calibration opens for the task that one policy selects |
| **Manifest and allocation** (`manifest.py`, `allocation.py`, `probe_artifacts.py`, `config.py`) | receipts | enumerate, audit, bind, revalidate | digests of digests; audits repeated by later commands | splits disjoint; an audit accepts one exact set |
| **Failure events** (`failure_events.py`, `failure_artifacts.py`) | trace automaton | annotate | windows and ties | annotations are prefix-stable, earliest event first |
| **Features and predictors** (`probes.py`, `features.py`, `feature_pipeline.py`, `predictors.py`) | none | coverage references, feature rows, grouped folds, out-of-fold fits | outcomes reach features through reference distances | no outcome of the same initial state or of the Locked Test is seen |
| **Alarms and evaluation** (`evaluation.py`, `calibration_alarm_18d6494.py`, `locked_test_evaluate.py`) | thresholds in the freeze, predictions, report | calibrate, freeze, guard, score, report | each command has its own idea of an acceptable value | the lowest threshold that keeps the cap; what is opened can be reported |
| **Artifact stores** (`artifacts.py`, `feature_artifacts.py`, `provenance.py`, `snapshots.py`) | content-addressed directories | publish, load | publication as above | content matches name |
| **Calibration supervisor, cell, benchmark and other analyses** (`ops/calibration_*`) | one output each | collect, measure, report | the supervisor is an earlier form of the Locked Test's | as the Locked Test's |

How they interact: the Locked Test (or Calibration) collection publishes raw artifacts; a scorer
reads them and publishes one sidecar per valid episode; a finalizer turns the full set of sidecars
into allocation, cohort, predictions and summary; the post-score chain binds those by digest. The
cutover replaces the serial Calibration scorer by the two-worker execution of a plan while the
serial one runs. There is no RPC and no shared memory between programs. Everything goes through
directories, locks and, in the cutover, signals and a log file. Inside one program, the worker
has a signal handler and a parent-death signal.

The study's order is Discovery, Reality Gate lock, Calibration, its freeze, Locked Test, scoring, causal
and sensitivity receipts, report. An operator runs the commands one by one and may amend the models,
commit, tag, check out or start over between any two of them; the gates are all that holds him to it.

## 2. Plan

Done, in this order, the most important behaviour first:

1. `ScoringLedger`, the abstract promise to every cohort; `TwoWorkerScoring`, which implements it, with
   `TwoWorkerScoringProofs`.
2. `SerialCutover`, with `SerialCutoverProofs`: what produces the plan that `TwoWorkerScoring` executes.
3. `LockedTestCollection` and `LockedTestScore`, with `LockedTestCollectionProofs` and `LockedTestScoreProofs`;
   both implement `ScoringLedger`.
4. `EpisodeRollout` and `ReplayScoring`, which extends it: one episode, recorded and scored; with
   `ReplayScoringProofs`.
5. `PairPlan`, `CausalEvidence` and `PostScore`: the post-score chain, with `CausalEvidenceProofs` and
   `PostScoreProofs`.
6. `EpisodeManifest`, `RealityGate`, `FailureEvents` and `StudyGates`, with `StudyGatesProofs`: the study
   around all of it.
7. `ScoreAllocation`, `FeatureFlow`, `Predictions`, with `AnalysisChecks`; `AnalysisChain`.

Left:

- Lemmas about the analysis operators: for `FeatureFlow`, that no feature row depends on an outcome of its
  own group, for every study and not only the small ones of `AnalysisChecks`.
- An abstract store for the four stages of the finalization, as `ScoringLedger` is for episodes.
- The Calibration supervisor where it differs from the Locked Test's, and the two opposite serial
  Calibration walkers (where the loser of a collision dies and the finalizer is not resumable).

Composition. `ReplayScoring` extends `EpisodeRollout` and scores the very episode it published.
`PostScore` extends `CausalEvidence`, which extends `PairPlan`. `StudyGates` extends `RealityGate`, which
extends `EpisodeManifest`. `AnalysisChain` extends `Predictions`, and `AnalysisChecks` instantiates the
three analysis modules side by side, so that what the scorer's `ScoreAllocation` lets through is given
to the evaluation's `Predictions`. `TwoWorkerScoring` starts in the state in which `SerialCutover` ends
(a plan on disk, the scorer gone, no receipts of the execution): the interface is the plan and the
frozen sidecars, `PlanFreezesScores` is its guarantee, so the two are not multiplied into one state
space. `StudyGates` takes collection and scoring as whole steps, whose insides are the modules above.

## 3. Modules and their correspondence to the code

The line-by-line correspondence is the `map` of `PROJECT.json`. In all modules a process has a program
counter whose values are the points between two of its file-system operations (or signal
operations), an action is everything it does from one such point to the next, and an exception is the
end of the process together with whatever its `except` and `finally` clauses do.

### `ScoringLedger`
The promise to a cohort of episodes: each gets one authoritative record, never replaced; the cohort
closes over a full set; it completes after it has closed. The records of `TwoWorkerScoring` are its
promoted sidecars, those of `LockedTestScore` the published ones, and those of `LockedTestCollection` the
raw artifacts, any of which may come from any launch.

### `TwoWorkerScoring`, `MCTwoWorkerScoring`, `TwoWorkerScoringProofs`
`_run_plan` is the coordinator: it takes the global flock (`CoordinatorStart`), spawns the two workers
with its descriptor inherited (`SpawnWorker`), polls and terminates them, validates, writes
`execution-receipt.json` in the two steps of `_write_exclusive` (`CloseReceipt`, `CloseWrite`), runs
the finalizer into a staged feature root, adopts it and writes `completion.json`. `_worker_main` is
the worker: per episode it reconciles what earlier runs left (`Reconcile`), retires dead attempts with
an abandoned-attempt receipt, scores in a private attempt, and promotes: prepared receipt, rename
without replacement, prune, promotion receipt, worker summary.

| Variables | Code |
|---|---|
| `cpc`, `wpc`, `fpc`, `cur`, `mine` | where each process is, the episode and the attempt of a worker |
| `lockFds`, `workerLock` | the open descriptions of the global flock; `locks/worker<N>.lock` |
| `tree`, `abandoned` | what each staging attempt directory holds; its abandoned receipt |
| `prepared`, `authority`, `promotion` | the two receipts and the authoritative sidecar of each episode |
| `summary`, `closure`, `features`, `completion` | worker summaries, execution receipt, feature root, completion receipt |

A sidecar's content is the attempt that scored it: two measurements always differ (they contain
measured costs), so this is the finest identity the digests distinguish. `Torn` is a receipt whose
bytes never reached the disk. Resource samples, logs and cost receipts are left out: nothing later
reads them.

### `SerialCutover`, `MCSerialCutover`, `SerialCutoverProofs`
The serial scorer is a process of its own that locks, renames, unlocks and logs, and reacts to SIGINT
and SIGTERM. Each coordinator process runs one of three modes; `Receipts` are the files of the
execution root. Episodes are worked on in manifest order, so a set of sidecars is a count, a log
position is a count, and a boundary is the baseline's count. `disposition` is whether the scorer had
inherited SIGINT as ignored, the incident for which the recovery mode was written.

### `LockedTestCollection`, `LockedTestCollectionProofs`
Supervisors and cells are separate processes; a cell knows whether its supervisor still waits for it
(`parent`). The flock is the supervisor's only. An artifact is known by the launch that made it.

### `LockedTestScore`, `LockedTestScoreProofs`
Processes walk a shard (or all) of the valid episodes in either direction; those in `Finalizers` then
publish four stages in content-addressed roots. One set of actions (`Acquire`, `Stage`, `Commit`,
`Unlock`, `WaitEnds`, `WaitTimesOut`) stands for the four near-identical publication routines, and
`Collision` says where they differ: a sidecar's or the allocation's loser waits, a cohort's loads, a
prediction's or summary's fails. The directory listings of the layout checks are separate steps,
because they race with publications.

### `EpisodeRollout`, `ReplayScoring`, `MCReplayScoring`, `ReplayScoringProofs`
`EpisodeRollout` is `run_single_episode`: reset and one retry with `check_validity`, the settling steps,
then per control step `SelectAction` (the hooks of every `Stride`-th policy call) and `StepAction`, and
publication. Time is counted in model timesteps. The simulator's observables sample once per control
step at a phase, and what a camera shows is the moment and the edit it was sampled under, because that
is what a forced read may get wrong: `_preserved_observable_sampling` is `AfterForcedRead`.
`ReplayScoring` is `score_replay_to_sidecar` on that artifact: `ReplayReset`, `ObserveFactual`, the
edits of `_score_state` (`EditSimulator`, `RestoreSimulator`, `BrightnessFrame`), the policy
calls with their noise (`PredictActionChunk`) and `StepReplay`, then the checks and the sidecar. `rng` is
the process-global random state, `work` the position of the nested loops of `_score_state` (which loop,
which transform, which draw, and the draws that had a direction), `cache` the original activations by noise, `arrays` the filled score
entries with the input each was measured on. `fault` is one thing the environment does wrong.

### `PairPlan`, `CausalEvidence`, `CausalEvidenceProofs`, `PostScore`, `MCPostScore`, `PostScoreProofs`
`PairPlan` is the frozen pair selection of `causal.py` (`SelectPairs`) and the producer's fast one
(`FastPairs`), and the plan built from them. `CausalEvidence` is what is made of measurements: cores,
chunks, ratios, receipts and what the evaluation accepts of them. Rows keep their place in the plan: a
selection of rows is a function over some of its indices, which is all that medians, rates and counts
tell apart. The loops over states are recursive functions over their length, and the k-th smallest of
some values is chosen by how many are smaller (`Ranked`) instead of sorting them. `PostScore` runs the commands: a
process has a program counter between two file operations (`at`, and for a file or pointer that is read,
created or verified, `step`), `files` maps a path to its content, `Torn` is a file created and not yet
filled, `measured` records what the GPU answered, and `opened` the evaluations that reached the raw
outcomes. A path is the command, the root, the kind of file and which one of its kind; an evidence file
and a receipt are named by what they hold, as content-addressed files are. `Target` is the file a stage
of a job writes, so that `Put` is one definition for every exclusive creation.

### `EpisodeManifest`, `RealityGate`, `FailureEvents`, `StudyGates`, `MCStudyGates`, `StudyGatesProofs`
`EpisodeManifest` enumerates the episodes of a split as `manifest.py` does. `RealityGate` is the decision
over Discovery attempts. `FailureEvents` annotates a trace of frames. `StudyGates` is the operator: a
worktree (`work`), commits with their trees, tags, `head`; Discovery cells in two steps, because the
commit and the environment lock are read when a cell starts; the lock; Calibration cells and analyses;
the freeze; and the Locked Test cells behind their guards. `world` is what the simulator would do under
each model, which no command can see.

### `ScoreAllocation`, `FeatureFlow`, `Predictions`, `AnalysisChecks`
Operators only. `ScoreAllocation`: which lists of artifacts, probes and sidecars the audits accept, with
a digest as the content it addresses. `FeatureFlow`: the features of a state and the predictions of it,
where a fitted object is the data it was fitted on, so that "depends on no outcome of ..." is equality
under every change of the outcomes. `Predictions`: alarms, thresholds, lead times, and what the receipt,
freeze and report checks accept. `AnalysisChecks` states what they compute as named assumptions over
every small study, which TLC evaluates at the start of `post_score`:

| Assumption | What is shown |
|---|---|
| `AuditTakesOneScorePerValidEpisode` | the score audit accepts a list of sidecars exactly when it has one good score for each valid episode |
| `AllocationIgnoresOutcomes` | which episodes are scored depends on no outcome |
| `FeaturesReadWhatWasAudited` | a cohort is built from the audited artifacts and scores or refused |
| `ProbeServesItsStudy` | a probe serves its own episodes, and another split of the same policy |
| `OwnGroupOutcomesUnseen` | no Calibration feature depends on an outcome of its own initial state |
| `BaselineIsOutOfFold`, `CoverageCouplesTheFolds`, `SensitivityDropsTheCoupling` | out-of-fold predictions of M0 see no outcome of their fold; those of M1 and M2 do, through the references of their training rows; without the four dropped columns they do not |
| `NearestDistanceIsUninformed` | of those four columns three carry outcomes; the nearest distance, which `AMENDMENTS.md` and the script also call label-informed, does not |
| `LockedTestPredictionsBlind` | a Locked Test prediction depends on no Locked Test outcome or other episode |
| `FoldsPartitionGroups`, `ProbeChoiceIsConservative` | both fold constructions and the one-standard-error rule |
| `AlarmIsTheFirstWindow`, `AlarmIsOnline`, `ThresholdIsLowest` | alarms against their definition by windows; the calibrated threshold is the lowest that keeps the cap, although the search stops at the first |
| `EvaluationTakesWhatWasScored`, `ReportsStayWithinCap` | what the scorer published within its cap passes every outcome-blind check, and the report then needs annotated failures and both outcomes and nothing else; nothing else is reported |

### `AnalysisChain`, `MCAnalysisChain`
The thresholds on their way: alarm calibration, freeze, guard, scoring, evaluation.

## 4. The runs

| Run | Instance | Question and answer |
|---|---|---|
| `two_worker` | 2 coordinators, 2 episodes, 2 attempts, 2 faults at any point | Types, exclusion of runs, receipts that match sidecars, no double finish, no check on staging that fires for anything but what a death leaves (so no attempt opened while an earlier one lacks its receipt), closure that binds, no finished score lost, and every step a step of `ScoringLedger` under `score <- authority` or a stutter: all hold. |
| `two_worker_resume` | 1 coordinator, 3 episodes, 2 faults at resumable points, fairness | A coordinator restarted until it completes does complete. |
| `two_worker_prune_crash` | one death at one point | **Violated**: finding F1. |
| `cutover` | 2 coordinators in any modes, concurrent until the first death, 3 deaths of them or the scorer | Each signal at most once and after its boundary, truthful receipts, nobody past the lock while the scorer lives; the plan freezes exactly the baseline and the boundary's episode. |
| `cutover_stale_boundary` | 1 coordinator, 1 death | **Violated**: finding F2. |
| `collection` | 2 supervisors, 2 episodes, 1 manual launch, 2 faults, fairness | Artifacts immutable, receipt binds them, residue and refusals explained, repeated collection closes. |
| `locked_score` | 1 finalizer and 1 walker, 2 episodes, 2 faults, fairness | Published once, stages bind the sidecars, collisions survived, orphans only from faults, repeated finalization ends. |
| `locked_score_finalizers` | 2 finalizers, 1 episode, no fault | **Violated**: finding F4. |
| `episode_replay` | 1 episode of up to 3 steps, stride 2, one edit of each family, 3 draws, 1 fault of 5 kinds | Captures and scores are of the state they name, undisturbed replays are never refused and disturbed ones never published, nothing leaks. |
| `post_score` | 2 processes, 2 roots, 2 prediction receipts, 2 pairs, 1 control, 1 death | Causal receipts measured, outcomes opened last, one receipt a root, refusals only for cause. Also evaluates the assumptions of `MCPostScore` and `AnalysisChecks`. |
| `study_gates` | 2 tasks, 2 policies, 4 worlds, 4 commits, 2 analyses | Calibration only opens for the task that one policy selects, the Locked Test is reproducible. Also evaluates the assumptions of `MCStudyGates`. |
| `frozen_threshold` | every cohort of 2 episodes with 3 probabilities, for 3 models | **Violated**: finding F3. |

Every property of a passing run has a mutant: a definition of the code changed the way a plausible
bug would change it, under which the same run is violated (`PROJECT.json`, `mutants`).

### Bounds and why they are enough
- *Processes.* Interference in this code is pairwise: a lock, a receipt or a destination is taken by one
  process and met by another. A third coordinator, supervisor or walker meets the same files in the
  same states. The proofs of section 6 do not have this bound.
- *Episodes.* Different episodes share nothing but the loop that visits them. Two give each worker one;
  three give one worker a second, so that its loop is taken; the cutover needs five for a baseline, a
  boundary, one overrun and two remaining shards.
- *Faults* (`MaxFaults`, `MaxManual`). A fault ends a process. Two let the second hit the recovery from
  the first; three are used where the state space allows.
- *`AttemptLimit`* is 2 or 3 for the code's 999: with two it is reached, and the refusal it leads to is
  part of the run.
- *`FaultPoints`* limits where a death lands in the liveness runs of `TwoWorkerScoring`. `AnyPoint` is
  used for safety. `ResumablePoints` leaves out the points after which resume refuses by design or by
  F1: inside a receipt write, whose torn file is refused forever; between a staged rename and its
  unlock; and before the prune.
- *`SlotCount`* is the number of cell processes alive at a time; *`MaxTries`* stands for the eight
  attempts at a stable baseline.
- *`episode_replay`*: three steps with stride two give a strided state after an unstrided one and a queue
  that is refilled; one brightness, one camera and one object edit are the three ways an input is edited;
  with three draws, of which two are common, every call of `_score_state` happens and the caches meet
  the same noise twice.
- *`post_score`* (`Bound`): two pairing seeds with one slot each over four states, so that one pair has a
  matched control and the other has none. Processes overlap only as causal producers, which are the only
  ones to share checkpoints, and only while none was killed; the second root gets one more causal receipt
  made after the first. `MCRaw` are outcomes inside and just outside the envelope.
- *`study_gates`* (`Explored`): each split with the smallest grid that has all its cells, `Host` and
  `GuardHosts` for the machines whose floating point may differ. The constraint leaves out detours that
  change nothing the guards read: a second lock, model changes after the lock, checking out commits of
  before the lock after it, cells out of protocol order, a second amendment. `BuildLock` runs only where
  there is no lock: its driver is not in the repository. The instances of real size are checked by
  assumptions: distinct identifiers and seeds over 1080 episodes, balanced signs and directions. The
  failure events are checked over every trace of five frames.
- *`AnalysisChecks`*: three initial states under two conditions in two folds are the least with a group
  outside the query's own in both folds; every assignment of outcomes is tried. One pose is missing and
  one state is of another phase, so that both exclusions happen.
- *Symmetry* of coordinator identities and of the operators' shells is used only in runs without liveness
  properties.

`CHECK_DEADLOCK FALSE` is set in every run but `study_gates`: when every process is off, the work is
complete and the fault budget is spent, the system does stop.

### Fairness
Weak fairness of every process's own steps: a process that is not killed runs, file operations return,
and the bounded waits end. Weak fairness of the restart in `TwoWorkerScoring` and `LockedTestScore`,
strong in `LockedTestCollection` (where another supervisor's plan-only run may hold the lock again
and again): the runbook tells the operator to repeat the same command until the receipt exists. No
fairness is assumed of faults, manual launches, or other operators' starts, and none of delivery
beyond that of a process's own steps.

## 5. Findings

- **F1** (`two_worker_prune_crash`). A worker that dies between the promotion rename and the removal of
  the emptied attempt directory leaves an attempt that no receipt records. At the next resume the
  destination exists, so the branch that would prune or receipt the attempt is not taken, and
  `_validate_abandoned_staging` refuses at this and every later resume. Nothing is lost or wrong in the
  evidence, but the command that "may be restarted with `resume`" never completes again.
- **F2** (`cutover_stale_boundary`). A coordinator resumed before any signal takes the last boundary
  receipt instead of "waiting for a fresh clean boundary", so the one interrupt may be spent on a
  boundary the scorer has left behind, and the transition check then refuses the frozen inventory.
  `PlanBindsBoundary` shows that no wrong plan comes of it.
- **F3** (`frozen_threshold`). The alarm calibration falls back on one representable number above the
  highest observed score, "a conservative zero-alarm fallback", and the Locked Test guard accepts "the
  exact nextafter(1, +inf) never-alarm sentinel". The final evaluation wants every frozen threshold in
  [0, 1] and refuses that freeze, after the Locked Test has been run under it; the freeze cannot be
  changed then. The thresholds of the committed freeze are below one and are not affected.
- **F4** (`locked_score_finalizers`). The check that is to allow "one cooperating publisher" lists the
  directory twice and takes a publication that starts between the listings for an orphan.
  `PublishedOnce` and `StagesBindScores` hold regardless: the loser fails and may be repeated.

Three observations that are not listed as findings. The runbook (`locked_test_runbook.md:146-148`) says a
second supervisor cannot collect concurrently; a supervisor's cell outlives it without holding the lock,
so the repeated command can launch a second cell for the same episode. `ArtifactsImmutable` shows that
only one of the two is published. And the nearest distance to a Calibration state is called
label-informed but carries no label (`NearestDistanceIsUninformed`). And the gate compares the base VLM
revision only among the cells of one task (`reality_gate.py:335-338`) and the policy across tasks, so two
tasks of a study that pins one policy may in principle have been run on two base models;
`CalibrationStandsOnOneStudy` therefore speaks of the one policy, and of a model per task.

## 6. Proofs

Every theorem is about a specification TLC also runs, for every value of its constants: any number of
processes, episodes, steps, draws, tasks and faults. Each rests on an inductive invariant that stands at
the end of the component's module as a conjunction of named parts; it was checked by TLC on the instance
of the component's run before it was proved. A proof module has a lemma for each operator the steps are
built from, one lemma for each action or group of like actions, and one for the initial state; the last
step of a theorem is temporal.

| Proof module | Proved | Inductive invariant |
|---|---|---|
| `TwoWorkerScoringProofs` | `TypeOK`, `OneRunAtATime`, `AuthorityReceipted` | `ReceiptInvariant` |
| | `OnlyCrashFaults`, `AtMostOneFinishedAttempt`, `ClosureBindsAuthority`, `NoScoreLost`, and the refinement of `ScoringLedger` | `RecoveryInvariant`, `StagingInvariant` |
| `SerialCutoverProofs` | `TypeOK`, `SignalsOnce`, `ReceiptsTruthful`, `BoundaryBeforeSignal`, `LockExcludesScorer`, `PlanFreezesScores`, `PlanBindsBoundary` | `CutoverInvariant` |
| `LockedTestCollectionProofs` | `TypeOK`, `ReceiptBindsArtifacts`, `ResidueOnlyFromDeath`, `NoSpuriousRefusal`, `ArtifactsImmutable`, and the refinement of `ScoringLedger` | `CollectionInvariant` |
| `LockedTestScoreProofs` | `TypeOK`, `StagesBindScores`, `PublishedOnce`, `OrphansFromFaults`, `CollisionsSurvived` for one finalizing process, and the refinement of `ScoringLedger` | `ScoreInvariant`, `CollisionInvariant` |
| `ReplayScoringProofs` | `TypeOK`, `CapturesAligned`, `ScoresMeasureWhatTheySay`, `OnlyCleanReplaysPublish`, `NoSelfInflictedFailure`, `NothingLeaks` | `RolloutInvariant`, `ScoringInvariant` |
| `PostScoreProofs` | `CausalReceiptsMeasured`, `OutcomesOpenedLast`, `OneCausalReceiptPerRoot`, `RefusedOnlyForCause` | `Sound`, `OnItsOwn` |
| `CausalEvidenceProofs` | of the operators: `SelectionsMatch`, `PlanIsFit`, `PlanUsesStatesOnce`, `SummariesAgree`, `GridsAgree` | |
| `StudyGatesProofs` | `CalibrationStandsOnOneStudy`, `LockedTestIsReproducible` | `StudyInvariant` |
| | of the operators: `GateReopens` | |

### Two-worker scoring
`OneRunAtATime` needs `LockOwners`: the descriptors of the flock are exactly those of the live processes,
so a coordinator that finds the flock free knows that no child of another lives. `AuthorityReceipted`
needs `WorkerLocals`, what a worker at a given point knows of its episode; that knowledge survives the
steps of others only because no other worker is at the same episode, which is `OneRunAtATime` together
with the disjointness of the two shards (`ShardFacts`).

The recovery properties speak of files that outlive every process. `EpisodeFiles` says which combinations
of attempts, prepared receipt, sidecar and promotion a death can leave; `WorkerKnows` what a worker at
each point may conclude from having passed the earlier checks; `WorkerLockOwners` that the per-worker
lock protects just that; and `CoordinatorFiles` what the coordinator knows when it closes. Why no check
against tampering fires by itself (`NoTamperFault`, the first clause of `OnlyCrashFaults`) is that each such
check asks for a combination which `EpisodeFiles` and `WorkerKnows` exclude at that point; the two are
proved in one induction, `RecoveryInvariantHolds`.

The other clauses of `OnlyCrashFaults` are about the two faults a death can bring on: an attempt without its
receipt in the final validation is the one a promotion emptied, and the attempts run out only when each of
them has its receipt. They rest on `StagingInvariant`: behind the latest attempt of an episode every
attempt has its receipt (`AttemptsInOrder`), and of a promoted episode every attempt has one but the attempt
the promotion emptied (`AttemptsClosed`). It is inductive given the recovery invariant, because a worker
opens an attempt only when nothing is left to retire (`StagingInvariantHolds`). The order of the
checks in `_validate_abandoned_staging` decides which fault is raised (`ValidationFault`).

`ImplementsScoringLedger` then maps the initial state and
every step: with `score <- authority` and the phase read from the two receipts, the rename of a promotion
is a scoring step, the two receipt writes are closing and completing, everything else stutters.

### Serial cutover
No lock protects the signals, only the creation of intent files. The invariant relates the order of the
receipts on disk (`SignalFiles`, `BoundaryFiles`) to counts of sidecars and log lines (`ScorerOrder`), and
each coordinator's local state to both (`Knows`). `OneSender` is the crux of `SignalsOnce`: between the
exclusive creation of an intent and its dispatch there is at most one process, for any number of them in
any modes. `PlanBindsBoundary` follows because a plan is only written by the holder of the flock, after
the scorer has gone, when what it froze was compared with the boundary (`KnowsLocked`).

### Locked Test collection and scoring
`CollectionInvariant`: the holder of the lock has validated what is behind it and artifacts never change
(`RecordsTrue`); a cell with a living parent is the one it waits for (`CellsParented`); without faults and
manual launches there are no orphans, which is why nothing is refused spuriously (`QuietRun`).
`ScoreInvariant`: who publishes an object holds its lock alone, and a finalizing process stands on a full
set of sidecars and all earlier stages. The exclusion is per object, so the proofs of the near-identical
publication routines are one.

`CollisionsSurvived` is false when two processes finalize (finding F4). The theorem is under
`OneFinalizer`, which is the command's own rule, "Multi-worker shards must use --skip-finalize; finalize
in one resume run" (`locked_test_score.py:865`), with any number of walkers beside it. Its invariant says
that before the first fault every lock, temporary directory and build directory has a living owner who
will still publish what others wait for.

Both components keep the promise of `ScoringLedger`, with any number of processes and whatever dies.
Collection publishes a raw artifact by a rename that fails where one is, and its receipt is written by
one who has seen all of them (`CollectionImplementsLedger`). In scoring only a commit can publish a sidecar, and
an allocation names a full set because its publisher stands on one, for any number of finalizing
processes (`ScoringImplementsLedger`).

### Rollout and replay
`RolloutInvariant` describes the whole recording by what the simulator does: after `n` steps the
frames, actions, flags and captures are those of `RuntimeAfter(n)`, whatever was read by force in
between; the settling loop needs induction over its length (`AllNaturals`, from the well-foundedness of
the naturals). `ScoringInvariant` says that outside an edit the replay is in just the state the recording
had at that step, how far the nested loops have got (`work`) and which entries, caches and draws that
implies. `ScoresMeasureWhatTheySay` and `OnlyCleanReplaysPublish` follow from it together with the
invariant of the recording it replays: neither half would do alone, because a
replay is compared with a recording made under other reads. A fault is remembered
(`FaultNoticed`) until a check meets it, and every way out restores the random state (`Verdict`).

### The post-score chain
Files only ever appear, and a whole file is never touched again (`Grow`, `CompleteStays`); so whatever is
sound about a file stays so, and the lemmas called `...Stays` carry every part of the invariant over
every step of every other process. `Sound` has one clause for each kind of file (`FileSound`) and for each
stage of a process (`JobSound`): a checkpoint holds what was measured for the inputs its root is bound
to, a pointer leads to whole evidence of its pair, a receipt's rows are what the pointers of its root
lead to, and a process holds nothing it did not read from such a file or measure itself. A file that is
still torn belongs to the process that created it (`OwnersSound`). `ReceiptsAreMeasured` and
`RawOpenedLast` are consequences: a receipt is only as good as a chain of five kinds of file, each of
which may have been written by another process before some death. `OneReceiptPerRoot` needs in addition
that two receipts of one root bind the same plan and follow the same pointers, and hence are the same.

A producer that is alone in its root is never refused by what it finds there unless a death left it. That
takes a second invariant, `OnItsOwn`: what such a process has found absent is still absent when it
creates it (`Undisturbed`), which fails as soon as another producer starts in that root, the very case
`Excused` names. `RefusalsExcused` then goes through the refusing branches of the stages one by one.

The branch of the evaluation is the longest. It may refuse a chain of receipts that name each other only
if it finds something in the rows that the producers did not mean, and the two programs compute with code
of their own. Three theorems about operators say that this cannot be, for every cohort and every number
of slots. `PlanIsFit`: each slot of the plan is one the evaluation can check. The greedy selection is a recursive
function, so that it exists and stays in a set its steps stay in is `Recursion` and `Stays`; a
seed that runs out of pairs fills its slots from states it has not used, of which there are enough
(`SpareIsEnough`, by counting). `SummariesAgree` and `GridsAgree`: medians of natural numbers are natural numbers, so
a ratio is a null exactly where it is infinite, and what one side writes the other derives. `Sound`
then says of every row of a published receipt that it is a measured core or an attempt that the plan
explains (`CausalIsAccepted`, `SensitivityIsAccepted`).

Two more theorems are about the plan itself. `SelectionsMatch`: the post-score program selects pairs with
a loop of its own, "the exact greedy selection without materializing every O(n^2) edge"; it is exact,
order included, because eligibility is mutual, for which the angle between two states must not depend on which of
them is turned (`DifferenceIsMutual`). `PlanUsesStatesOnce`: in a seed no state is in two slots, the states that
fill the slots without a pair included, no control donor serves two recipients and none is a recipient.
The loop keeps what it has paired apart from what it may still use (`Accs`), the ranks of spare
states are different (`RanksDiffer`), and hash orders must not name a state twice (`OrdersAreTraversals`). TLC
evaluates both statements, and their hypotheses, on the small cohorts of `MCPostScore`, where a seed has one slot.

### The study
`StudyInvariant` is about history: the worktree and every commit ever made hold only locks that
some models of one policy select, freezes that hash every file they must, predictors fitted on the whole of
one Calibration (`TreeSound`); a Discovery artifact of a model says what the simulator did under it
(`RawTrue`). A checkout may bring any old tree back, so a property of the present worktree
would not be inductive; and an amendment may come between any two steps, so artifacts must carry the
model they ran with. That a gate's decision over raw files is the selection over the simulator's
behaviour is lemma `LockSelects`, over any finite set of artifacts, those of other
attempts among them.

The guard computes every gate of a locked receipt anew and compares the Wilson intervals exactly, so what
a host's floating point leaves in the last bits (`Rounding`) decides whether the gate opens there. In
`Wilson` only the two pinned endpoints are free of it, as in the code. `study_gates` runs with a host that
rounds differently from the one the lock is made on; `GateReopens` proves that a host that rounds alike
never refuses a decision that could be locked. A gate that stays shut breaks no safety property and is
listed as a hazard without one.

### Assumptions
They are in the modules that declare the constants, and TLC evaluates them in every run. Most are types:
counts are natural numbers, and the value for "nobody" or "nothing" is none of the values it stands
beside (`PlanAssumption`, `CutoverAssumption`, `CollectionAssumption`, `ScoreAssumption`,
`NothingAssumption`, `RolloutAssumption`, `PairPlanAssumption`, and that in `EvidenceAssumption` and
`PostScoreAssumption` neither a number nor a measurement is the value for none). Beyond that: `EvidenceAssumption`
has at least one random control a pair and asks for at least one valid pair, as `RANDOM_CONTROL_COUNT` and
the minimum of 30 do; `PostScoreAssumption` has a finite cohort whose identifiers are distinct and all in
every hash order (`IsCohort`), as `select_pairs` checks, ratios in natural numbers, and enough states for
the registered plan, without which the causal command ends before its first write; `ScoringAssumption` has at least one common draw,
no more of them than original ones, and named transforms, as the constants of `scoring.py` are;
`RealityGateAssumption` has distinct identifiers and seeds and ordered percentages, as the frozen
configuration; `StudyAssumption` takes a model to be what its two revisions pin. `PlanAssumption` asks for
two episodes, because the coordinator refuses a plan with an empty shard (line 1648). `OneFinalizer` is a hypothesis of two theorems
and not an assumption of the module.

### Only model-checked
- Liveness: `ResumeCompletes`, `CollectionResumes`, `FinalizationCompletes`. They rest on fairness, which
  the prover does not handle.
- What the analysis operators compute (`AnalysisChecks`) and the annotations of failure events: they are
  defined by recursion over lists or checked by enumeration, and induction over data is out of the
  prover's reach.
- The runs that show findings: a counterexample needs no proof.

## 7. What is not modelled, and why

- Authority, provenance, environment, memory and hash checks that precede a program's first write:
  they read and raise, and nothing is on disk yet.
- Payloads: a loaded artifact is valid. Corruption of bytes on disk is outside the models, except for
  receipts torn by a death.
- Power loss: a death is of a process; what a system call returned from is on disk (the code calls
  `fsync` around its renames).
- Reuse of process ids between an identity check and `os.kill` (listed as a hazard).
- In `LockedTestScore`, the removal of a failing cohort build directory is one step with the failure,
  the layout check of the feature root is one step, and a wait times out only on a publication that
  nobody is at: a living publication takes milliseconds, the wait thirty seconds.
- In `LockedTestCollection`, a cell interrupted between the creation of its staging directory and the
  `try` block that removes it counts as killed: the directory stays.
- In `PostScore`, bootstrap intervals are one given predicate of the drawn evidence, and angles are whole
  degrees.
- In `StudyGates`, downloads of snapshots and the environment of the machine are external.
- The numerical code (scores, ridge and boosting fits, Platt maps, bootstrap): floating point is out of
  TLC's reach. `FeatureFlow` says what each result is computed from, not its value.
- Configuration loading, file formats and the payload parsers of the artifact stores.
- The Calibration supervisor: an earlier form of the Locked Test's, whose model is not repeated for it.
- The benchmark, the other Calibration analyses and the instance bootstrap: single processes that write
  one report or install one machine.
