------------------------------- MODULE AnalysisChecks -------------------------------
(***************************************************************************)
(* What the pure parts of the analysis compute, checked over every input   *)
(* of small studies: the allocation of scores, the flow of outcomes into   *)
(* features and predictions, and the evaluation of the predictions.  TLC   *)
(* evaluates each ASSUME before the run of a module that extends this one. *)
(***************************************************************************)
LOCAL INSTANCE Integers
LOCAL INSTANCE Sequences
LOCAL INSTANCE FiniteSets
LOCAL INSTANCE FiniteSetsExt
LOCAL INSTANCE SequencesExt
LOCAL INSTANCE Functions

CONSTANT Missing  \* the value of a feature that is not finite

-----------------------------------------------------------------------------
(* Allocation: three episodes of each protected split, of two initial states. *)

AllocEpisodes(split, task, policy, commit) ==
    {[id |-> <<split, i>>, init |-> (i + 1) \div 2, cell |-> i % 2, policy |-> policy,
      commit |-> commit] : i \in 1..3}
AllocRefit(rows) == <<"fitted", rows>>

Alloc == INSTANCE ScoreAllocation WITH Expected <- AllocEpisodes, Refit <- AllocRefit,
                                       Stride <- 5, CapDenominator <- 3

AllocManifest(split, commit) ==
    [split |-> split, task |-> 1, episodes |-> AllocEpisodes(split, 1, "policy", commit)]

AllocRaws(split, commit, valid, success) ==
    [i \in 1..3 |-> [id |-> <<split, i>>,
                     episode |-> CHOOSE e \in AllocEpisodes(split, 1, "policy", commit) :
                                     e.id = <<split, i>>,
                     task |-> 1, policy |-> "policy", base |-> "vlm", valid |-> i \in valid,
                     success |-> i \in success, steps |-> 5, trajectory |-> <<"moves", i>>]]

AllocReceipt(split, commit, valid, success) ==
    Alloc!RolloutReceipt(AllocManifest(split, commit), AllocRaws(split, commit, valid, success))

AllocRepo == [config |-> "c", code |-> "k"]
MovedRepo == [AllocRepo EXCEPT !.code = "k2"]

AllocProbe ==
    LET rollout == AllocReceipt("calibration", "c1", 1..3, {1})
        rows == {[id |-> e.id, init |-> e.init, step |-> 0] :
                   e \in AllocEpisodes("calibration", 1, "policy", "c1")}
    IN  Alloc!BoundProbe(AllocRefit(rows), rollout,
                         [rows |-> rows, raws |-> rollout.valid], AllocRepo)

AllocSidecar(raw, probe, repo) ==
    [id |-> raw.id, split |-> raw.id[1], links |-> Alloc!Links(Alloc!RawIdentity(raw), probe, repo),
     success |-> raw.success, steps |-> raw.steps, primitives |-> <<"score", raw.id>>,
     declared |-> <<"score", raw.id>>]

AllocLists(S) == UNION {[1..n -> S] : n \in 0..3}

\* The score audit accepts a list of sidecars exactly when it holds one good score for
\* each valid episode and nothing else: not a score of an artifact that was replaced, of
\* another scorer, of an invalid episode, and no episode twice.
ASSUME AuditTakesOneScorePerValidEpisode ==
    \A valid \in SUBSET (1..3) \ {{}} :
        LET raws == AllocRaws("locked_test", "c2", valid, {1, 2})
            receipt == AllocReceipt("locked_test", "c2", valid, {1, 2})
            Good(i) == AllocSidecar(raws[i], AllocProbe, AllocRepo)
            stale == AllocSidecar([raws[1] EXCEPT !.success = FALSE], AllocProbe, AllocRepo)
            moved == AllocSidecar(raws[2], AllocProbe, MovedRepo)
            candidates == {Good(i) : i \in 1..3} \cup {stale, moved}
        IN  \A list \in AllocLists(candidates) :
                Alloc!ScoreAuditAccepted(receipt, list, AllocProbe, AllocRepo) <=>
                    /\ Range(list) = {Good(i) : i \in valid}
                    /\ Len(list) = Cardinality(valid)

\* Which episodes are scored depends on the validity of their resets and on no outcome.
ASSUME AllocationIgnoresOutcomes ==
    \A valid \in SUBSET (1..3) : \A s, t \in SUBSET (1..3) :
        Alloc!Ids(AllocReceipt("calibration", "c1", valid, s).valid) =
        Alloc!Ids(AllocReceipt("calibration", "c1", valid, t).valid)

\* A feature cohort is built from the very artifacts and scores that were audited: an
\* outcome changed or a score made again after the audit is refused, and so is the
\* whole receipt once the scoring sources of the checkout moved.
ASSUME FeaturesReadWhatWasAudited ==
    LET raws == AllocRaws("locked_test", "c2", {1, 3}, {1})
        kept == <<raws[1], raws[3]>>
        Scores(list) == [i \in DOMAIN list |-> AllocSidecar(list[i], AllocProbe, AllocRepo)]
        audited == Alloc!ScoreReceipt(AllocReceipt("locked_test", "c2", {1, 3}, {1}),
                                      Scores(kept), AllocProbe, AllocRepo)
        others == {kept, <<kept[1]>>, <<kept[1], raws[2]>>, <<kept[2], kept[1]>>,
                   [kept EXCEPT ![1].success = FALSE], [kept EXCEPT ![2].trajectory = <<"moves", 9>>]}
        rescored == [Scores(kept) EXCEPT ![1].primitives = <<"score", kept[2].id>>,
                                        ![1].declared = <<"score", kept[2].id>>]
    IN  \A list \in others : \A scores \in {Scores(list), Scores(kept), rescored} :
            \A repo \in {AllocRepo, MovedRepo} :
                Alloc!FeatureInputsAccepted(audited, list, scores, AllocProbe, repo, "locked_test")
                    <=> /\ Range(list) = Range(kept)
                        /\ scores # rescored
                        /\ repo = AllocRepo

\* A probe is bound to the episodes it was fitted on, all of them and in its own split,
\* and serves another split only for the same policy; the commit may differ.
ASSUME ProbeServesItsStudy ==
    LET Receipt(split, commit) == AllocReceipt(split, commit, {1, 2}, {})
        cohort == [rows |-> AllocProbe.rows, raws |-> AllocProbe.raws]
        short  == [cohort EXCEPT !.rows = {r \in @ : r.id # <<"calibration", 3>>}]
    IN  /\ Alloc!BindAccepted(AllocProbe.model, AllocProbe.rollout, cohort, AllocRepo)
        /\ ~Alloc!BindAccepted(AllocRefit(short.rows), AllocProbe.rollout, short, AllocRepo)
        /\ ~Alloc!BindAccepted(AllocProbe.model, Receipt("locked_test", "c1"), cohort, AllocRepo)
        /\ ~Alloc!ProbeFits(Receipt("calibration", "c1"), AllocProbe)
        /\ Alloc!ProbeFits(Receipt("locked_test", "c2"), AllocProbe)
        /\ ~Alloc!ProbeFits([Receipt("locked_test", "c2") EXCEPT !.source.policy = "p2"],
                            AllocProbe)

-----------------------------------------------------------------------------
(* Flow of outcomes: three initial states under two conditions, one state an
   episode, in two folds, so that a fold holds two groups. *)

Flow == INSTANCE FeatureFlow WITH MedianOf <- 2, FractionOf <- 3, MinimumNorms <- 2,
                                  FoldCount <- 2

FlowPoses == <<0, 4, 1, Missing, 6, 3>>

FlowStates(split, successes) ==
    {[episode |-> i, init |-> (i + 1) \div 2, step |-> 0, split |-> split,
      phase |-> IF i = 6 THEN "place" ELSE "approach", success |-> i \in successes,
      action |-> i, pose |-> FlowPoses[i], norm |-> 10 + i] : i \in 1..6}

FlowFlip(successes, i) == IF i \in successes THEN successes \ {i} ELSE successes \cup {i}

\* The value of every row of a model, by episode.
FlowRows(rows) == [i \in {s.episode : s \in DOMAIN rows} |->
                      rows[CHOOSE s \in DOMAIN rows : s.episode = i]]

FlowCalibration(successes, m) == Flow!CalibrationFeatures(FlowStates("calibration", successes))[m]

FlowFolds == Flow!PredictorFolds(FlowStates("calibration", {}))
FlowFoldOf(init) == CHOOSE k \in DOMAIN FlowFolds : init \in FlowFolds[k]

\* What is predicted out of fold for episode i, from the columns Columns keeps.
FlowOutOfFold(successes, m, Columns(_), i) ==
    LET states == FlowStates("calibration", successes)
        all == Flow!CalibrationFeatures(states)[m]
        rows == [s \in states |-> Columns(all[s])]
        oof == Flow!OutOfFold(rows, states, FlowFolds)
    IN  oof[CHOOSE s \in states : s.episode = i]

FlowAll(row) == row
FlowReduced(row) == Flow!Reduced(row)

\* No feature of a Calibration state depends on an outcome of its own base initial
\* state, its own episode included: PREREG.md 7.
ASSUME OwnGroupOutcomesUnseen ==
    \A successes \in SUBSET (1..6) : \A i \in 1..6 :
        LET before == FlowRows(FlowCalibration(successes, "M2"))
            after  == FlowRows(FlowCalibration(FlowFlip(successes, i), "M2"))
        IN  \A j \in 1..6 : (j + 1) \div 2 = (i + 1) \div 2 => before[j] = after[j]

\* An out-of-fold prediction of M0 depends on no outcome of the fold that holds it out.
ASSUME BaselineIsOutOfFold ==
    \A successes \in SUBSET (1..6) : \A i, j \in 1..6 :
        FlowFoldOf((i + 1) \div 2) = FlowFoldOf((j + 1) \div 2) =>
            FlowOutOfFold(successes, "M0", FlowAll, j) =
            FlowOutOfFold(FlowFlip(successes, i), "M0", FlowAll, j)

\* Those of M1 and M2 do, by way of the references of their training rows: even the
\* episode's own outcome reaches its own prediction (AMENDMENTS.md:809-846).
ASSUME CoverageCouplesTheFolds ==
    \A m \in {"M1", "M2"} : \E successes \in SUBSET (1..6) : \E i \in 1..6 :
        FlowOutOfFold(successes, m, FlowAll, i) #
        FlowOutOfFold(FlowFlip(successes, i), m, FlowAll, i)

\* Without the columns the sensitivity analysis drops, the coupling is gone.
ASSUME SensitivityDropsTheCoupling ==
    \A m \in {"M1", "M2"} : \A successes \in {{}, {1, 4}, {2, 3, 5}, 1..6} : \A i, j \in 1..6 :
        FlowFoldOf((i + 1) \div 2) = FlowFoldOf((j + 1) \div 2) =>
            FlowOutOfFold(successes, m, FlowReduced, j) =
            FlowOutOfFold(FlowFlip(successes, i), m, FlowReduced, j)

\* Of the four dropped columns three are informed by outcomes; the distance to the
\* nearest state of any phase is not.
ASSUME NearestDistanceIsUninformed ==
    LET Moves(column) == \E successes \in SUBSET (1..6) : \E i, j \in 1..6 :
            FlowRows(FlowCalibration(successes, "M2"))[j][column] #
            FlowRows(FlowCalibration(FlowFlip(successes, i), "M2"))[j][column]
    IN  {c \in Flow!DroppedColumns : Moves(c)} = Flow!DroppedColumns \ {"nearest"}

\* A Locked Test prediction depends on no Locked Test outcome, and on no other Locked
\* Test episode.
ASSUME LockedTestPredictionsBlind ==
    \A successes \in SUBSET (1..6) : \A m \in {"M0", "M1", "M2"} :
        LET calibration == FlowStates("calibration", {1, 2, 4, 5})
            bundle == Flow!ReferenceBundle(calibration)
            estimator == Flow!Estimator(Flow!CalibrationFeatures(calibration)[m], calibration)
            Predicted(states) ==
                FlowRows(Flow!Applied(Flow!LockedTestFeatures(states, bundle)[m], estimator))
            whole == Predicted(FlowStates("locked_test", {}))
        IN  \A s \in FlowStates("locked_test", successes) :
                Predicted({s})[s.episode] = whole[s.episode]

\* Whatever resets were invalid, both fold constructions keep every group whole, hold
\* every state out once and leave no fold empty, as long as there are enough groups.
ASSUME FoldsPartitionGroups ==
    \A S \in SUBSET FlowStates("calibration", {}) :
        Flow!EnoughGroups(S) =>
            /\ Flow!FoldsAccepted(Flow!PredictorFolds(S), S)
            /\ Flow!FoldsAccepted(Flow!ProbeFolds(S), S)

\* The probe candidate is within a standard error of the best one, and no candidate
\* preferred to it is.
ASSUME ProbeChoiceIsConservative ==
    \A results \in [{"a", "b", "c"} -> [mae : 0..3, se : 0..2]] :
        LET chosen == Flow!SelectedCandidate(results, <<"a", "b", "c">>)
            best == {d \in {"a", "b", "c"} : \A e \in {"a", "b", "c"} :
                       results[d].mae <= results[e].mae}
            Near(c, d) == results[c].mae <= results[d].mae + results[d].se
            preferred == CASE chosen = "a" -> {} [] chosen = "b" -> {"a"}
                           [] chosen = "c" -> {"a", "b"}
        IN  \E d \in best : Near(chosen, d) /\ \A c \in preferred : ~Near(c, d)

-----------------------------------------------------------------------------
(* Evaluation: scores 0 to 2, of which 2 is one; two consecutive exceedances. *)

Pred == INSTANCE Predictions WITH Top <- 2, Cadence <- 5, Consecutive <- 2,
                                  PrimarySteps <- {0, 10}, MaxFpr <- 3, CellSize <- 20,
                                  CellCap <- 2

PredSeries == UNION {[{5 * k : k \in 0..n} -> 0..2] : n \in 0..3}

\* An alarm is the first step with a full window of exceedances behind it.
ASSUME AlarmIsTheFirstWindow ==
    \A scores \in PredSeries : \A t \in 0..3 :
        LET windows == {s \in DOMAIN scores :
                          s - 5 \in DOMAIN scores /\ scores[s] >= t /\ scores[s - 5] >= t}
        IN  Pred!FirstAlarm(scores, t) = Pred!Earliest(windows)

\* It needs no later score: an alarm of the whole rollout is raised while it runs.
ASSUME AlarmIsOnline ==
    \A scores \in PredSeries : \A t \in 0..3 :
        LET alarm == Pred!FirstAlarm(scores, t)
        IN  \A s \in DOMAIN scores :
                alarm # Pred!None /\ s >= alarm =>
                    Pred!FirstAlarm([r \in {q \in DOMAIN scores : q <= s} |-> scores[r]], t) = alarm

PredEpisode(id, label, scores) ==
    [id |-> id, init |-> id, label |-> label, scores |-> scores,
     failureStep |-> IF label = 1 THEN 10 ELSE Pred!None]

PredCohorts ==
    {{PredEpisode(1, 0, a), PredEpisode(2, label, b), PredEpisode(3, 1, c)} :
        a, b \in {f \in PredSeries : DOMAIN f = {0, 5, 10}}, label \in {0, 1},
        c \in {f \in PredSeries : DOMAIN f = {0, 5} /\ f[0] = f[5]}}

\* The calibrated threshold keeps the cap, no lower candidate does, and every higher
\* one would, although the search stops at the first.  It leaves [0, 1], where the
\* evaluation wants it, exactly when a score of one is not high enough: finding F3.
ASSUME ThresholdIsLowest ==
    \A cohort \in PredCohorts :
        LET chosen == Pred!AlarmThreshold(cohort)
        IN  /\ Pred!WithinFpr(cohort, chosen)
            /\ \A t \in Pred!Candidates(cohort) : Pred!WithinFpr(cohort, t) <=> t >= chosen
            /\ chosen = 3 <=> ~Pred!WithinFpr(cohort, 2)
            /\ Pred!GuardAcceptsThresholds([m \in Pred!Models |-> chosen])

-----------------------------------------------------------------------------
(* From the scorer to the report: two initial states in each of two cells. *)

Report == INSTANCE Predictions WITH Top <- 2, Cadence <- 5, Consecutive <- 2,
                                    PrimarySteps <- {0, 10}, MaxFpr <- 10, CellSize <- 10,
                                    CellCap <- 1
Scorer == INSTANCE ScoreAllocation WITH Expected <- AllocEpisodes, Refit <- AllocRefit,
                                        Stride <- 5, CapDenominator <- 2

ReportManifest == {[id |-> 2 * i + c, init |-> i, cell |-> c] : i \in {0, 1}, c \in {0, 1}}

ReportRaws == [0..3 -> {[valid |-> v, label |-> l, failureStep |-> f, digest |-> <<v, l>>,
                         violations |-> {}] :
                          v \in BOOLEAN, l \in {0, 1}, f \in {Pred!None, 10}}]

ReportRecords(raw) ==
    {[id |-> e.id, init |-> e.init, step |-> s, failure |-> raw[e.id].label = 1,
      sources |-> [raw |-> raw[e.id].digest, score |-> <<"score", e.id>>],
      probabilities |-> [m \in Report!Models |-> 1]] :
        e \in {d \in ReportManifest : raw[d.id].valid}, s \in {0, 5}}

ReportCohort == [reference |-> "reference"]
ReportInputs == [freeze |-> [activation |-> "activation"], cohort |-> ReportCohort,
                 probe |-> "probe", reference |-> "reference", activation |-> "activation"]
ReportSource == [manifest |-> ReportManifest] @@ ReportInputs

\* What the scorer published within its cap of invalid resets passes every check of the
\* post-score commands and of the evaluation that does not read an outcome; the report
\* then needs an annotated onset of every failure and both outcomes, and nothing else.
ASSUME EvaluationTakesWhatWasScored ==
    \A raw \in {r \in ReportRaws : \A i \in 0..3 :
                    r[i].label = 0 => r[i].failureStep = Pred!None} :
        LET invalid == {i \in 0..3 : ~raw[i].valid}
            payload == Report!PredictionPayload(ReportRecords(raw), invalid, ReportSource,
                                                ReportManifest)
            receipt == [manifest |-> [episodes |-> ReportManifest],
                        invalid |-> {[id |-> i] : i \in invalid}]
            Labels(l) == \E i \in 0..3 \ invalid : raw[i].label = l
        IN  Scorer!InvalidWithinCap(receipt) =>
                /\ Report!PreflightAccepted(payload, ReportManifest, raw,
                                            [i \in 0..3 |-> <<"score", i>>], ReportInputs)
                /\ Report!EnvelopeHolds(ReportManifest, raw, {})
                /\ Report!EpisodesAccepted(payload, ReportManifest, raw)
                /\ Report!ReportAccepted(payload, ReportManifest, raw) <=>
                     Report!Annotated(raw) /\ Labels(0) /\ Labels(1)

\* The other way round: what the evaluation reports was scored within the cap, and an
\* outcome that changed after the scores were made stops the preflight.
ASSUME ReportsStayWithinCap ==
    \A invalid \in SUBSET (0..3) : \A changed \in 0..3 :
        LET raw == [i \in 0..3 |-> [valid |-> i \notin invalid, label |-> i \div 2,
                                   failureStep |-> IF i >= 2 THEN 10 ELSE Pred!None,
                                   digest |-> <<TRUE, i>>, violations |-> {}]]
            later == [raw EXCEPT ![changed].digest = <<FALSE, changed>>]
            payload == Report!PredictionPayload(ReportRecords(raw), invalid, ReportSource,
                                                ReportManifest)
            receipt == [manifest |-> [episodes |-> ReportManifest],
                        invalid |-> {[id |-> i] : i \in invalid}]
        IN  /\ Report!ReportAccepted(payload, ReportManifest, raw) =>
                  Scorer!InvalidWithinCap(receipt)
            /\ Report!PreflightAccepted(payload, ReportManifest, later,
                                        [i \in 0..3 |-> <<"score", i>>], ReportInputs)
                  => changed \in invalid
=============================================================================
