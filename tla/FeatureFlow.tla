--------------------------------- MODULE FeatureFlow ---------------------------------
(***************************************************************************)
(* Who learns whose outcome: the features of a state, the references they  *)
(* are measured against, the grouped folds, and the out-of-fold            *)
(* predictions of M0, M1 and M2.  A fitted object (a standardizer, an      *)
(* estimator) is the data it was fitted on, and a prediction the estimator *)
(* with the row it is applied to: two of them are equal for certain only   *)
(* when nothing they were computed from differs.                           *)
(*                                                                         *)
(* A state is [episode, init, step, split, phase, success, action, pose,   *)
(* norm]; the outcome of an episode is repeated in each of its states, and *)
(* a pose or a norm that is not finite is Missing.                         *)
(***************************************************************************)
EXTENDS Integers, Sequences, FiniteSets, FiniteSetsExt, SequencesExt, Functions

CONSTANTS Missing,
          MedianOf,     \* 5: the nearest successful states of the same phase
          FractionOf,   \* 25: the nearest states of any phase
          MinimumNorms, \* 5: below it there is no robust distance
          FoldCount     \* N_FOLDS

Abs(x) == IF x < 0 THEN -x ELSE x

\* fit_episode_equal_action_scale, from the Calibration actions alone.
ActionScale(states) == {<<s.episode, s.step, s.action>> : s \in states}

-----------------------------------------------------------------------------
(* Coverage: distances to Calibration states outside the query's own group. *)

References(query, states) ==
    {s \in states :
        /\ s.pose # Missing
        /\ query.split = "calibration" => s.episode # query.episode /\ s.init # query.init}

Standardizer(references) == {<<s.episode, s.step, s.pose>> : s \in references}

\* The references by distance, ties by episode and step.
Nearest(query, references) ==
    SetToSortSeq(references, LAMBDA r, s :
        LET d == Abs(r.pose - query.pose) e == Abs(s.pose - query.pose)
        IN  \/ d < e
            \/ d = e /\ r.episode < s.episode
            \/ d = e /\ r.episode = s.episode /\ r.step < s.step)

\* query_coverage_features.
Coverage(query, states) ==
    LET references == References(query, states)
        scale      == Standardizer(references)
        near       == Nearest(query, references)
        alike      == SelectSeq(near, LAMBDA r : r.success /\ r.phase = query.phase)
        Distance(r) == <<Abs(r.pose - query.pose), scale>>
    IN  IF query.pose = Missing
        THEN [median |-> Missing, nearest |-> Missing, failures |-> Missing]
        ELSE [median   |-> IF Len(alike) < MedianOf THEN Missing
                           ELSE [i \in 1..MedianOf |-> Distance(alike[i])],
              nearest  |-> Distance(near[1]),
              failures |-> IF Len(near) < FractionOf THEN Missing
                           ELSE Cardinality({i \in 1..FractionOf : ~near[i].success})]

\* fit_coverage_reference refuses an empty reference set.
CoverageAccepted(query, states) == References(query, states) # {}

\* robust_probe_norm_distance.
NormDistance(query, states) ==
    LET references == {s \in states :
            /\ s.success /\ s.phase = query.phase
            /\ query.split = "locked_test" \/
                  (s.episode # query.episode /\ s.init # query.init)}
    IN  IF Cardinality(references) < MinimumNorms THEN Missing
        ELSE <<query.norm, {<<s.episode, s.step, s.norm>> : s \in references}>>

-----------------------------------------------------------------------------
(* Feature rows.  The models are nested: M1 holds every column of M0, M2 of M1. *)

M0Row(state, scale) == [action |-> <<state.action, scale>>]

M1Row(state, scale, references) ==
    LET c == Coverage(state, references)
    IN  M0Row(state, scale) @@
        [pose |-> state.pose, median |-> c.median, nearest |-> c.nearest,
         failures |-> c.failures]

M2Row(state, scale, references) ==
    M1Row(state, scale, references) @@ [probe |-> NormDistance(state, references)]

\* _state_hierarchy and _build_cohort: the outcome is the label of a row and no column.
Cohort(states, references, scale) ==
    [M0 |-> [s \in states |-> M0Row(s, scale)],
     M1 |-> [s \in states |-> M1Row(s, scale, references)],
     M2 |-> [s \in states |-> M2Row(s, scale, references)]]

\* build_calibration_features keeps the references for the other split.
ReferenceBundle(states) == [scale |-> ActionScale(states), states |-> states]
CalibrationFeatures(states) == Cohort(states, states, ActionScale(states))

\* build_locked_test_features.
LockedTestFeatures(states, bundle) == Cohort(states, bundle.states, bundle.scale)

\* calibration_leakage_sensitivity.py refits with these columns dropped.
DroppedColumns == {"median", "nearest", "failures", "probe"}
Reduced(row) == [c \in DOMAIN row \ DroppedColumns |-> row[c]]

-----------------------------------------------------------------------------
(* Grouped folds: base initial states are kept together. *)

\* predictors._make_group_folds: the groups by size and identifier, each to the
\* lightest fold, ties to the first.
PredictorFolds(episodes) ==
    LET Size(g) == Cardinality({e \in episodes : e.init = g})
        ordered == SetToSortSeq({e.init : e \in episodes}, LAMBDA g, h :
                       Size(g) > Size(h) \/ (Size(g) = Size(h) /\ g < h))
        Load(fold)  == FoldSet(LAMBDA g, n : n + Size(g), 0, fold)
        Lightest(folds) ==
            CHOOSE i \in 1..FoldCount : \A j \in 1..FoldCount :
                Load(folds[i]) < Load(folds[j]) \/ (Load(folds[i]) = Load(folds[j]) /\ i <= j)
    IN  FoldLeft(LAMBDA folds, g : [folds EXCEPT ![Lightest(folds)] = @ \cup {g}],
                 [i \in 1..FoldCount |-> {}], ordered)

\* probes.make_group_folds: the groups in order, dealt out in turn.
ProbeFolds(episodes) ==
    LET groups == SetToSortSeq({e.init : e \in episodes}, <)
    IN  [i \in 1..FoldCount |-> {groups[k] : k \in {j \in DOMAIN groups :
                                                      (j - 1) % FoldCount = i - 1}}]

EnoughGroups(episodes) == Cardinality({e.init : e \in episodes}) >= FoldCount

\* probes._validate_folds.
FoldsAccepted(folds, states) ==
    /\ \A i \in DOMAIN folds :
          /\ \E s \in states : s.init \in folds[i]
          /\ \E s \in states : s.init \notin folds[i]
    /\ \A s \in states : Cardinality({i \in DOMAIN folds : s.init \in folds[i]}) = 1

-----------------------------------------------------------------------------
(* Predictors. *)

OneOutcomePerEpisode(states) ==
    \A r, s \in states : r.episode = s.episode => r.success = s.success /\ r.init = s.init

BothOutcomes(states) == {s.success : s \in states} = BOOLEAN

\* fit_failure_predictors refuses before it fits.
FitAccepted(states, folds) ==
    /\ OneOutcomePerEpisode(states)
    /\ EnoughGroups(states)
    /\ BothOutcomes(states)
    /\ \A i \in DOMAIN folds : BothOutcomes({s \in states : s.init \notin folds[i]})

Estimator(rows, states) == {<<s.episode, s.step, rows[s], s.success>> : s \in states}
Prediction(estimator, row) == <<estimator, row>>

\* _fit_oof: a row is predicted by the estimator of the fold that holds it out.
OutOfFold(rows, states, folds) ==
    [s \in states |->
        LET fold == CHOOSE i \in DOMAIN folds : s.init \in folds[i]
        IN  Prediction(Estimator(rows, {t \in states : t.init \notin folds[fold]}), rows[s])]

\* _apply_frozen_predictors: the estimator refitted on every Calibration row, Locked
\* Test rows, and no label.
Applied(rows, estimator) == [s \in DOMAIN rows |-> Prediction(estimator, rows[s])]

-----------------------------------------------------------------------------
(* The representation probe: candidate |-> [mae, se]. *)

\* select_candidate_one_standard_error: the first preferred candidate within one
\* standard error of the best one.
SelectedCandidate(results, preference) ==
    LET best == CHOOSE i \in DOMAIN preference : \A j \in DOMAIN preference :
            \/ results[preference[i]].mae < results[preference[j]].mae
            \/ results[preference[i]].mae = results[preference[j]].mae /\ i <= j
        bound == results[preference[best]].mae + results[preference[best]].se
        eligible == {i \in DOMAIN preference : results[preference[i]].mae <= bound}
    IN  preference[Min(eligible)]
======================================================================================
