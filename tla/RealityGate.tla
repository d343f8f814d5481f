--------------------------------- MODULE RealityGate ---------------------------------
(***************************************************************************)
(* The Reality Gate of reality_gate.py: from the raw Discovery rollouts of *)
(* the shortlisted tasks to the receipt that selects a task and a variable *)
(* and to the payload the Calibration guard rehydrates.                    *)
(*                                                                         *)
(* A raw rollout is a record [episode, commit, model, valid, success,      *)
(* agrees, frames]: the manifested episode, the code commit and the model  *)
(* revisions it ran under, its reset and outcome, whether the retry of an  *)
(* invalid reset agreed, and per frame the yaws of gripper and object in   *)
(* quarter turns.  The digest of a thing is the thing.  What a constructor *)
(* raises on is a predicate of its own, named ...Accepted.                 *)
(***************************************************************************)
EXTENDS EpisodeManifest

CONSTANTS Tasks,           \* the number of shortlisted tasks
          SymmetryOrder,   \* [task -> planar symmetry order of its object]
          MinSuccesses,    \* baseline_min_successes
          MinValidPercent, MinFailurePercent, MaxFailurePercent,
          MaxResultant,    \* [order -> percent]: the resultant of the minimal dispersion
          Rounding(_)      \* what a host's floating point leaves in the last bits

NoTask == 0

IsIid(e)  == e.family = "iid"
IsYaw(e)  == e.family = "object_yaw"
Cells(t)  == Manifest("discovery", t)
Iid(t)    == {e \in Cells(t) : IsIid(e)}
Yawed(t)  == {e \in Cells(t) : IsYaw(e)}

ASSUME RealityGateAssumption ==
    /\ Tasks \in Nat \ {0}
    /\ SymmetryOrder \in [1 .. Tasks -> Nat \ {0}]
    /\ \A t \in 1 .. Tasks : DistinctIdsAndSeeds(Cells(t))
    /\ MinSuccesses \in 0 .. Cardinality(Inits["discovery"])
    /\ 0 <= MinFailurePercent /\ MinFailurePercent <= MaxFailurePercent
    /\ MinValidPercent \in 0 .. 100 /\ MaxFailurePercent <= 100

-----------------------------------------------------------------------------
(* The two gates (evaluation.py). *)

\* wilson_interval, with what a host's libm leaves in its endpoints.  Only the lower one
\* of no success and the upper one of all successes are pinned.
Wilson(successes, total, host) ==
    [successes |-> successes, total |-> total,
     lower |-> IF successes = 0 THEN 0 ELSE Rounding(host),
     upper |-> IF successes = total THEN 0 ELSE Rounding(host)]

ReproductionGate(successes, total, host) ==
    [interval |-> Wilson(successes, total, host), passes |-> successes >= MinSuccesses]

DynamicRangeGate(valid, total, failures, host) ==
    [validity |-> Wilson(valid, total, host), failure |-> Wilson(failures, valid, host),
     passes   |-> /\ 100 * valid >= MinValidPercent * total
                  /\ 100 * failures >= MinFailurePercent * valid
                  /\ 100 * failures <= MaxFailurePercent * valid]

-----------------------------------------------------------------------------
(* One task's attempt. *)

\* _discovery_cell_from_rollout with the invariants of DiscoveryCellResult and
\* ValidityRetryEvidence: the retry is there exactly for an invalid reset.
CellResult(raw) ==
    [executed |-> TRUE, artifact |-> raw, valid |-> raw.valid, success |-> raw.success,
     retry |-> IF raw.valid THEN [performed |-> FALSE]
                            ELSE [performed |-> TRUE, agrees |-> raw.agrees]]
NotExecuted == [executed |-> FALSE]

\* _validate_rollout_against_episode and _validate_rollout_frame_contract.
Manifested(raw, t, commit, model) ==
    /\ raw.episode \in Cells(t)
    /\ raw.commit = commit /\ raw.model.policy = model.policy
    /\ raw.valid <=> Len(raw.frames) > 1
    /\ raw.valid \/ ~raw.success

SuccessCount(cells) ==
    Cardinality({e \in DOMAIN cells : IsIid(e) /\ cells[e].executed /\ cells[e].success})

CellsFrom(t, raws) ==
    [e \in Cells(t) |-> IF \E raw \in raws : raw.episode = e
                        THEN CellResult(CHOOSE raw \in raws : raw.episode = e)
                        ELSE NotExecuted]

\* task_discovery_attempt_from_rollouts: the rollouts of exactly the IID cells of a task
\* that fails to reproduce, or of all cells of one that does.
AttemptAccepted(t, commit, model, raws) ==
    /\ \A raw \in raws : Manifested(raw, t, commit, model)
    /\ \A r, s \in raws : r.episode = s.episode => r = s
    /\ Cardinality({raw.model.vlm : raw \in raws}) = 1
    /\ LET reproduces == SuccessCount(CellsFrom(t, raws)) >= MinSuccesses
       IN  {raw.episode : raw \in raws} = IF reproduces THEN Cells(t) ELSE Iid(t)

Attempt(t, commit, model, raws) ==
    [task |-> t, commit |-> commit, policy |-> model.policy, cells |-> CellsFrom(t, raws)]

Valid(a)    == {e \in Yawed(a.task) : a.cells[e].executed /\ a.cells[e].valid}
Failures(a) == {e \in Valid(a) : ~a.cells[e].success}

\* evaluate_task_attempt raises otherwise: all IID cells must be there, no perturbation
\* of a task that fails to reproduce, every one of a task that does, and one valid.
EvaluationAccepted(a) ==
    LET reproduces == SuccessCount(a.cells) >= MinSuccesses
    IN  /\ \A e \in Iid(a.task) : a.cells[e].executed
        /\ \A e \in Yawed(a.task) : a.cells[e].executed <=> reproduces
        /\ reproduces => Valid(a) # {}

DynamicRange(a, host) ==
    DynamicRangeGate(Cardinality(Valid(a)), Cardinality(Yawed(a.task)),
                     Cardinality(Failures(a)), host)

Evaluate(a, host) ==
    LET reproduction == ReproductionGate(SuccessCount(a.cells), Cardinality(Iid(a.task)), host)
        dynamic      == IF reproduction.passes THEN <<DynamicRange(a, host)>> ELSE << >>
    IN  [task |-> a.task, commit |-> a.commit, policy |-> a.policy, cells |-> a.cells,
         reproduction |-> reproduction, dynamic |-> dynamic,
         passes |-> reproduction.passes /\ dynamic[1].passes]

-----------------------------------------------------------------------------
(* The decision over the shortlist. *)

\* Mutant: every attempt carries the revisions of its own manifest.
SameRevisionsUnchecked(decisions) == TRUE

\* decide_reality_gate: one policy revision and one code commit for all attempts.
SameRevisions(decisions) ==
    \A i, j \in DOMAIN decisions : /\ decisions[i].commit = decisions[j].commit
                                   /\ decisions[i].policy = decisions[j].policy

\* RealityGateReceipt: decisions are a prefix of the shortlist under one policy revision
\* and one code commit; it ends with the first pass, or it is all of it without a pass.
DecisionsAccepted(decisions) ==
    /\ decisions # << >> /\ Len(decisions) <= Tasks
    /\ SameRevisions(decisions)
    /\ \A i \in DOMAIN decisions : decisions[i].task = i
    /\ \A i \in 1 .. Len(decisions) - 1 : ~decisions[i].passes
    /\ decisions[Len(decisions)].passes \/ Len(decisions) = Tasks

Decisions(attempts, host) == [i \in DOMAIN attempts |-> Evaluate(attempts[i], host)]

\* decide_reality_gate.
DecisionAccepted(attempts, host) ==
    /\ \A i \in DOMAIN attempts : EvaluationAccepted(attempts[i])
    /\ DecisionsAccepted(Decisions(attempts, host))

GateReceipt(attempts, host) ==
    LET decisions == Decisions(attempts, host)
        last      == decisions[Len(decisions)]
    IN  [attempts |-> decisions, commit |-> last.commit, policy |-> last.policy,
         selected |-> IF last.passes THEN last.task ELSE NoTask]

-----------------------------------------------------------------------------
(* Whether orientation is a usable variable. *)

Cosine(quarters) == <<1, 0, -1, 0>>[(quarters % 4) + 1]
Sine(quarters)   == <<0, 1, 0, -1>>[(quarters % 4) + 1]

\* orientation_eligibility_from_rollouts: theta_rel of every stored frame, the terminal
\* one included, wrapped.  Frames are finite: a quaternion that is not raises.
OrientationStates(raws) ==
    UNION {{[artifact |-> raw, step |-> k - 1,
             theta |-> (raw.frames[k].eef - raw.frames[k].object) % 4] :
                k \in DOMAIN raw.frames} : raw \in raws}

\* _evaluate_orientation_eligibility: the squared resultant of order * theta, over all
\* states alike, is at most that of the minimal circular standard deviation.
Dispersed(states, order) ==
    LET c == FoldSet(LAMBDA s, sum : sum + Cosine(order * s.theta), 0, states)
        s == FoldSet(LAMBDA x, sum : sum + Sine(order * x.theta), 0, states)
        n == Cardinality(states)
    IN  10000 * (c * c + s * s) <= MaxResultant[order] * MaxResultant[order] * n * n

Orientation(raws, order) ==
    [sources |-> raws, states |-> OrientationStates(raws), order |-> order,
     eligible |-> Dispersed(OrientationStates(raws), order)]

-----------------------------------------------------------------------------
(* The lock receipt, the payload of the lock file, and reading it back. *)

\* _selected_task_artifacts: the raw artifacts of all cells of the selected task.
SelectedArtifacts(receipt) ==
    LET d == receipt.attempts[Len(receipt.attempts)]
    IN  {d.cells[e].artifact : e \in DOMAIN d.cells}

\* finalize_reality_gate and RealityGateLockReceipt.
LockAccepted(receipt, orientation) ==
    /\ receipt.selected # NoTask
    /\ orientation.sources = SelectedArtifacts(receipt)
    /\ orientation.order = SymmetryOrder[receipt.selected]
    /\ orientation.eligible

\* to_guard_payload; it refuses a failure-event freeze of another task.
GuardPayload(receipt, orientation, freeze) ==
    [task |-> receipt.selected, policy |-> receipt.policy, commit |-> receipt.commit,
     artifacts |-> SelectedArtifacts(receipt), gate |-> receipt,
     orientation |-> orientation, freeze |-> freeze]

\* _cell_from_metadata, _retry_from_metadata.
CellRehydrates(cell) ==
    cell.executed => /\ cell.valid \/ ~cell.success
                     /\ cell.retry.performed = ~cell.valid

\* _task_gate_decision_from_metadata: the manifest is generated anew, both gates are
\* computed anew on the host that reads, and everything must be equal, the intervals
\* included (_rate_from_metadata, _dynamic_from_metadata).
DecisionRehydrates(decision, host) ==
    /\ DOMAIN decision.cells = Cells(decision.task)
    /\ \A e \in Cells(decision.task) : CellRehydrates(decision.cells[e])
    /\ EvaluationAccepted(decision)
    /\ decision = Evaluate(decision, host)

\* reality_gate_receipt_from_metadata.
ReceiptRehydrates(receipt, host) ==
    /\ \A i \in DOMAIN receipt.attempts : DecisionRehydrates(receipt.attempts[i], host)
    /\ DecisionsAccepted(receipt.attempts)
    /\ LET last == receipt.attempts[Len(receipt.attempts)]
       IN  /\ receipt.selected = (IF last.passes THEN last.task ELSE NoTask)
           /\ receipt.policy = last.policy /\ receipt.commit = last.commit

\* orientation_eligibility_from_metadata cannot recompute the dispersion, which needs the
\* states; what it checks is that states and sources belong together.
OrientationRehydrates(orientation) ==
    orientation.sources = {s.artifact : s \in orientation.states}
======================================================================================
