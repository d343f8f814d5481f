------------------------------- MODULE MCAnalysisChain -------------------------------
(***************************************************************************)
(* Probabilities zero, the number below one, and one.  Calibration has one *)
(* successful and one failed episode, the Locked Test two in one cell.     *)
(***************************************************************************)
EXTENDS AnalysisChain

Series == [{0, 5} -> 0..2]
Oof(id, label, scores) ==
    [id |-> id, init |-> id, label |-> label, scores |-> scores,
     failureStep |-> IF label = 1 THEN 5 ELSE None]
MCOof == {{Oof(1, 0, good), Oof(2, 1, bad)} : good \in Series, bad \in {[s \in {0, 5} |-> p] : p \in {1, 2}}}

MCManifest == {[id |-> i, init |-> i, cell |-> 0] : i \in {1, 2}}
Raw(id, label) ==
    [valid |-> TRUE, label |-> label, failureStep |-> IF label = 1 THEN 5 ELSE None,
     digest |-> <<id, label>>, violations |-> {}]
MCOutcomes == {[id \in {1, 2} |-> Raw(id, IF id \in failed THEN 1 ELSE 0)] :
                 failed \in {{}, {1}, {2}}}
MCScored(artifacts, m) == [id \in DOMAIN artifacts |-> [s \in {0, 5} |-> artifacts[id].label]]
======================================================================================
