--------------------------------- MODULE Predictions ---------------------------------
(***************************************************************************)
(* The predictions of the Locked Test and what the final evaluation makes  *)
(* of them: alarms and the threshold calibrated for them, lead times, the  *)
(* pairing of two models, the coverage of the manifest, and the checks by  *)
(* which the evaluation accepts the receipts it is given.                  *)
(*                                                                         *)
(* Probabilities are counted in representable numbers: 0 is zero, Top is   *)
(* one and n + 1 is nextafter(n).                                          *)
(***************************************************************************)
EXTENDS Integers, FiniteSets, FiniteSetsExt, Functions

CONSTANTS Top,          \* the probability one
          Cadence,      \* control steps between two scores
          Consecutive,  \* exceedances in a row that make an alarm
          PrimarySteps, \* the steps the primary estimand reads
          MaxFpr,       \* one successful episode in MaxFpr may raise an alarm
          CellSize, CellCap  \* episodes of a condition cell; invalid ones allowed in it

Models == {"M0", "M1", "M2"}
None   == -1

\* EpisodePredictions: [id, init, label, scores, failureStep]; label 1 is a failure.
\* _validate_episode.
EpisodeAccepted(e) ==
    /\ DOMAIN e.scores # {}
    /\ \A s \in DOMAIN e.scores : e.scores[s] \in 0..Top
    /\ e.label = 0 => e.failureStep = None

Cadenced(e) ==
    \A s \in DOMAIN e.scores : s % Cadence = 0 /\ (s = 0 \/ s - Cadence \in DOMAIN e.scores)

-----------------------------------------------------------------------------
(* Alarms. *)

Earliest(steps) == IF steps = {} THEN None ELSE Min(steps)

\* first_alarm_time: the step that completes the first run of exceedances.
FirstAlarm(scores, threshold) ==
    LET run[s \in DOMAIN scores] ==
            IF scores[s] < threshold THEN 0
            ELSE 1 + (IF s = 0 THEN 0 ELSE run[s - Cadence])
    IN  Earliest({s \in DOMAIN scores : run[s] >= Consecutive})

Successful(episodes) == {e \in episodes : e.label = 0}
Failed(episodes)     == {e \in episodes : e.label = 1}

FalsePositives(episodes, threshold) ==
    {e \in Successful(episodes) : FirstAlarm(e.scores, threshold) # None}

WithinFpr(episodes, threshold) ==
    MaxFpr * Cardinality(FalsePositives(episodes, threshold))
        <= Cardinality(Successful(episodes))

\* calibrate_alarm_threshold: the observed scores, and one number above them all.
Candidates(episodes) ==
    LET observed == UNION {Range(e.scores) : e \in episodes}
    IN  observed \cup {Max(observed) + 1}

AlarmAccepted(episodes) ==
    /\ Successful(episodes) # {}
    /\ \A e \in episodes : EpisodeAccepted(e) /\ Cadenced(e)

AlarmThreshold(episodes) == Min({t \in Candidates(episodes) : WithinFpr(episodes, t)})

\* _lead_for_episode.
Lead(e, threshold) ==
    LET alarm == FirstAlarm(e.scores, threshold)
    IN  IF alarm = None \/ alarm >= e.failureStep
        THEN [steps |-> 0, detected |-> FALSE]
        ELSE [steps |-> e.failureStep - alarm, detected |-> TRUE]

-----------------------------------------------------------------------------
(* Two models on the same episodes. *)

Ids(episodes) == {e.id : e \in episodes}
Of(episodes, id) == CHOOSE e \in episodes : e.id = id

\* _paired_episodes.
Paired(model1, model2) ==
    /\ model1 # {} /\ Ids(model1) = Ids(model2)
    /\ \A d \in model1, e \in model2 : d.id = e.id =>
          /\ EpisodeAccepted(d) /\ EpisodeAccepted(e)
          /\ d.init = e.init /\ d.label = e.label /\ d.failureStep = e.failureStep
          /\ DOMAIN d.scores = DOMAIN e.scores

PrimaryScores(e) == DOMAIN e.scores \cap PrimarySteps

\* paired_prediction_comparison: every episode has a primary step, and the ranking
\* needs both outcomes.
ComparisonAccepted(model1, model2) ==
    /\ Paired(model1, model2)
    /\ \A e \in model1 : PrimaryScores(e) # {}
    /\ Successful(model1) # {} /\ Failed(model1) # {}

\* paired_lead_time_summary.
LeadAccepted(model1, model2) ==
    /\ Paired(model1, model2)
    /\ \A e \in model1 : Cadenced(e) /\ (e.label = 1 => e.failureStep # None)
    /\ Failed(model1) # {}

\* validate_locked_test_prediction_coverage, of the two models of a comparison.
CoverageAccepted(manifest, model1, model2, invalid) ==
    /\ \A d, e \in manifest : d.init = e.init /\ d.cell = e.cell => d = e
    /\ \A d, e \in manifest : \E f \in manifest : f.init = d.init /\ f.cell = e.cell
    /\ invalid \subseteq Ids(manifest)
    /\ \A d \in manifest : Cardinality({e \in manifest : e.cell = d.cell /\ e.id \in invalid})
                               <= CellCap
    /\ \A model \in {model1, model2} :
          /\ Ids(model) = Ids(manifest) \ invalid
          /\ \A e \in model : e.init = Of(manifest, e.id).init
    /\ Paired(model1, model2)

-----------------------------------------------------------------------------
(* The prediction receipt.  A record is [id, init, step, failure, sources,
   probabilities]; sources are the digests of the raw artifact and of its score. *)

\* _prediction_payload.
PredictionPayload(records, invalid, source, manifest) ==
    [source |-> source, records |-> records,
     invalid |-> {[id |-> e.id, init |-> e.init, cell |-> e.cell] :
                    e \in {d \in manifest : d.id \in invalid}},
     attempted |-> Cardinality(Ids(records)) + Cardinality(invalid),
     valid |-> Cardinality(Ids(records))]

\* _validate_prediction_receipt.
ReceiptAccepted(payload, manifest) ==
    /\ payload.source.manifest = manifest
    /\ payload.attempted = Cardinality(manifest)
    /\ payload.valid = Cardinality(manifest) - Cardinality(payload.invalid)
    /\ \A r \in payload.records :
          /\ r.step % Cadence = 0
          /\ \A m \in Models : r.probabilities[m] \in 0..Top
    /\ \A q, r \in payload.records : q.id = r.id /\ q.step = r.step => q = r
    /\ Ids(payload.invalid) \cap Ids(payload.records) = {}

\* _validate_calibration_freeze.
FreezeAccepted(freeze, source, gate) ==
    /\ source.freeze = freeze
    /\ freeze.probe = source.probe
    /\ freeze.predictor = source.predictor
    /\ freeze.reference = source.reference
    /\ freeze.gate = gate
    /\ DOMAIN freeze.thresholds = Models
    /\ \A m \in Models : freeze.thresholds[m] \in 0..Top

\* guard._validate_alarm_thresholds, which every guarded command makes of the freeze.
GuardAcceptsThresholds(thresholds) ==
    /\ Models \subseteq DOMAIN thresholds
    /\ \A m \in DOMAIN thresholds : thresholds[m] \in 0..Top \/ thresholds[m] = Top + 1

(* raw maps an episode to [valid, label, failureStep, digest, violations], the last the
   validity categories it violates. *)

\* _load_raw_inputs: no cell has too many invalid resets or violations of a category,
\* and each failure can be annotated.
EnvelopeHolds(manifest, raw, categories) ==
    \A d \in manifest :
        LET cell == {e \in manifest : e.cell = d.cell}
        IN  /\ 10 * Cardinality({e \in cell : ~raw[e.id].valid}) <= CellSize
            /\ \A c \in categories :
                  10 * Cardinality({e \in cell : c \in raw[e.id].violations}) <= CellSize

Annotated(raw) ==
    \A id \in DOMAIN raw : raw[id].valid /\ raw[id].label = 1 => raw[id].failureStep # None

\* _prediction_episodes.
EpisodesOf(payload, raw, m) ==
    {LET rows == {r \in payload.records : r.id = id}
     IN  [id |-> id, init |-> (CHOOSE r \in rows : TRUE).init, label |-> raw[id].label,
          failureStep |-> raw[id].failureStep,
          scores |-> [s \in {r.step : r \in rows} |->
                        (CHOOSE r \in rows : r.step = s).probabilities[m]]] :
        id \in Ids(payload.records)}

EpisodesAccepted(payload, manifest, raw) ==
    LET invalid == {id \in DOMAIN raw : ~raw[id].valid}
    IN  /\ payload.invalid = {[id |-> e.id, init |-> e.init, cell |-> e.cell] :
                                e \in {d \in manifest : d.id \in invalid}}
        /\ \A r \in payload.records :
              /\ r.id \in Ids(manifest) \ invalid
              /\ r.init = Of(manifest, r.id).init
              /\ r.failure = (raw[r.id].label = 1)
              /\ r.sources.raw = raw[r.id].digest
        /\ Ids(payload.records) = Ids(manifest) \ invalid
        /\ \A e \in EpisodesOf(payload, raw, "M0") : 0 \in DOMAIN e.scores /\ Cadenced(e)
        /\ CoverageAccepted(manifest, EpisodesOf(payload, raw, "M1"),
                            EpisodesOf(payload, raw, "M2"), invalid)

\* build_report, as far as the predictions decide it.
ReportAccepted(payload, manifest, raw) ==
    LET p == [m \in Models |-> EpisodesOf(payload, raw, m)]
    IN  /\ EpisodesAccepted(payload, manifest, raw)
        /\ \A m \in {"M0", "M1"} :
              /\ CoverageAccepted(manifest, p[m], p["M2"], Ids(payload.invalid))
              /\ ComparisonAccepted(p[m], p["M2"])
        /\ LeadAccepted(p["M1"], p["M2"])

LeadTimes(payload, raw, thresholds, m) ==
    [id \in {i \in Ids(payload.records) : raw[i].label = 1} |->
        Lead(Of(EpisodesOf(payload, raw, m), id), thresholds[m])]

-----------------------------------------------------------------------------
\* validate_scientific_inputs, the preflight of the post-score commands: the receipt,
\* the inputs named beside it, and the artifacts agree, episode by episode.
PreflightAccepted(payload, manifest, raw, scores, inputs) ==
    LET invalid == Ids(payload.invalid)
    IN  /\ ReceiptAccepted(payload, manifest)
        /\ \A name \in {"freeze", "cohort", "probe", "reference"} :
              payload.source[name] = inputs[name]
        /\ inputs.cohort.reference = inputs.reference
        /\ inputs.freeze.activation = inputs.activation
        /\ DOMAIN raw = Ids(manifest)
        /\ \A id \in DOMAIN raw :
              /\ raw[id].valid = (id \notin invalid)
              /\ raw[id].valid =>
                    /\ id \in Ids(payload.records)
                    /\ \A r \in payload.records :
                          r.id = id /\ (\A q \in payload.records : q.id = id => r.step <= q.step)
                            => r.sources = [raw |-> raw[id].digest, score |-> scores[id]]
======================================================================================
