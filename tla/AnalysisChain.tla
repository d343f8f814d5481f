--------------------------------- MODULE AnalysisChain ---------------------------------
(***************************************************************************)
(* The alarm thresholds from their calibration to the final report: each   *)
(* step is a command of its own, and a threshold the guard lets through is *)
(* only met again when the Locked Test has been run.                       *)
(***************************************************************************)
EXTENDS Predictions

CONSTANTS OofPredictions,  \* possible out-of-fold predictions, a set of episodes each
          Manifest,        \* the Locked Test's episodes
          Outcomes,        \* possible raw artifacts of them, by identifier
          Scored(_, _)     \* raw artifacts and a model to the probabilities, by episode and step

Nothing == [thresholds |-> << >>]

VARIABLES oof,       \* by model
          alarm,     \* thresholds of the alarm calibration
          freeze, opened,
          raw,       \* the Locked Test's artifacts
          payload,   \* its predictions
          report

vars == <<oof, alarm, freeze, opened, raw, payload, report>>

Init ==
    /\ oof \in [Models -> OofPredictions]
    /\ \A m \in Models : Paired(oof["M0"], oof[m])
    /\ alarm = Nothing /\ freeze = Nothing /\ opened = FALSE
    /\ raw = << >> /\ payload = << >> /\ report = "none"

\* calibration_alarm: every failure is annotated, and the lead times need one.
CalibrateAlarms ==
    /\ alarm = Nothing
    /\ \A m \in Models : AlarmAccepted(oof[m])
    /\ LeadAccepted(oof["M0"], oof["M2"]) /\ LeadAccepted(oof["M1"], oof["M2"])
    /\ alarm' = [thresholds |-> [m \in Models |-> AlarmThreshold(oof[m])]]
    /\ UNCHANGED <<oof, freeze, opened, raw, payload, report>>

BuildFreeze ==
    /\ alarm # Nothing /\ freeze = Nothing
    /\ freeze' = [thresholds |-> alarm.thresholds, probe |-> "probe", predictor |-> "predictor",
                  reference |-> "reference", gate |-> "gate"]
    /\ UNCHANGED <<oof, alarm, opened, raw, payload, report>>

\* The guard of the Locked Test, and the collection it opens: the guard's other
\* requirements are those of StudyGates.
EnterLockedTest ==
    /\ freeze # Nothing /\ ~opened
    /\ GuardAcceptsThresholds(freeze.thresholds)
    /\ opened' = TRUE
    /\ raw' \in Outcomes
    /\ UNCHANGED <<oof, alarm, freeze, payload, report>>

\* The scorer reads the thresholds nowhere.
ScoreLockedTest ==
    /\ opened /\ payload = << >>
    /\ LET source == [freeze |-> freeze, probe |-> freeze.probe, manifest |-> Manifest,
                      predictor |-> freeze.predictor, reference |-> freeze.reference]
           valid == {e \in Manifest : raw[e.id].valid}
           records == UNION {{[id |-> e.id, init |-> e.init, step |-> s,
                               failure |-> raw[e.id].label = 1,
                               sources |-> [raw |-> raw[e.id].digest],
                               probabilities |-> [m \in Models |-> Scored(raw, m)[e.id][s]]] :
                              s \in DOMAIN Scored(raw, "M0")[e.id]} : e \in valid}
       IN  payload' = PredictionPayload(records, Ids(Manifest) \ Ids(valid), source, Manifest)
    /\ UNCHANGED <<oof, alarm, freeze, opened, raw, report>>

\* evaluate: everything up to the envelope is refused before an outcome is read.  The
\* causal, sensitivity and cost receipts it reads as well are PostScore's.
Evaluate ==
    /\ payload # << >> /\ report = "none"
    /\ report' =
         IF ~ReceiptAccepted(payload, Manifest) THEN "receipt refused"
         ELSE IF ~FreezeAccepted(freeze, payload.source, "gate") THEN "freeze refused"
         ELSE IF ~(EnvelopeHolds(Manifest, raw, {}) /\ Annotated(raw)) THEN "outcomes refused"
         ELSE IF ~ReportAccepted(payload, Manifest, raw) THEN "report refused"
         ELSE "made"
    /\ UNCHANGED <<oof, alarm, freeze, opened, raw, payload>>

\* A study may end here: the artifacts of a refused step are not made again.
Next ==
    \/ CalibrateAlarms
    \/ BuildFreeze
    \/ EnterLockedTest
    \/ ScoreLockedTest
    \/ Evaluate

Spec == Init /\ [][Next]_vars

-----------------------------------------------------------------------------
\* A freeze that was good enough to open the Locked Test is good enough to report it:
\* guard._validate_alarm_thresholds wants "[0, 1] or the exact nextafter(1, +inf)
\* never-alarm sentinel", and the calibration offers that one as its fallback.
GuardedFreezeIsReportable == opened => report # "freeze refused"
========================================================================================
