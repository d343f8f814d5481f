------------------------- MODULE LockedTestCollection -------------------------
(***************************************************************************)
(* Collection of the Locked Test: supervisors (ops/locked_test_supervisor) *)
(* exclude one another by a flock, scan the collection root, launch one    *)
(* cell process per missing episode and close the collection by a receipt. *)
(* A cell (ops/locked_test_cell, rollout.py) rolls its episode out, stages *)
(* the artifact beside its destination and publishes it by a rename.       *)
(*                                                                         *)
(* The flock is not inherited and nothing ties a cell to its supervisor:   *)
(* the cell of a supervisor that dies runs on, and the next supervisor may *)
(* launch another for the same episode.  An artifact is known by the       *)
(* launch that made it.                                                    *)
(***************************************************************************)
EXTENDS Integers, FiniteSets

CONSTANTS
    Supervisors,   \* supervisor processes
    NoSupervisor,  \* the parent of an orphan, the holder of a free lock
    SlotCount,     \* bound: cell processes that live at a time
    EpisodeCount,  \* the manifest's episodes
    MaxManual,     \* bound: cells an operator launches by hand
    MaxFaults      \* bound: deaths, interrupts and errors

ASSUME CollectionAssumption ==
    /\ NoSupervisor \notin Supervisors
    /\ SlotCount \in Nat /\ EpisodeCount \in Nat \ {0}
    /\ MaxManual \in Nat /\ MaxFaults \in Nat

Slots == 1..SlotCount
Episodes == 1..EpisodeCount
Modes == {"plan", "collect"}
NoArtifact == 0
NoArtifacts == [e \in Episodes |-> NoArtifact]

LivePoints == {"checking", "loading", "rollout", "staged", "published"}
CellPoints == LivePoints \cup {"off", "ok", "failed"}
SupervisorPoints == {"off", "scan", "loop", "wait", "link"}

VARIABLES
    raw,       \* raw[e]: the published artifact of an episode
    staging,   \* staging[e]: the launches whose staging directory is there
    receipt,   \* the completion receipt: the artifact of every episode
    cell,      \* cell[k]: a cell process, its episode, launch and live parent
    launches,  \* launches[e]: cells launched for an episode so far
    spc, mode, \* where each supervisor is, and whether it only plans
    next,      \* the episode its loop is at
    records,   \* the artifacts its loop has validated
    lock,      \* the supervisor that holds the global lock
    manual, faults, \* launches by hand and faults so far
    killed,    \* the launches whose cell died without unwinding
    refused    \* a supervisor or a cell found something it refuses to go on with

cellVars == <<cell, launches>>
supervisorVars == <<spc, mode, next, records, lock>>
treeVars == <<raw, staging, receipt>>
vars == <<raw, staging, receipt, cell, launches, spc, mode, next, records, lock,
          manual, faults, killed, refused>>

NoCell == [pc |-> "off", episode |-> 1, launch |-> 0, parent |-> NoSupervisor]

Init ==
    /\ raw = NoArtifacts /\ staging = [e \in Episodes |-> {}] /\ receipt = NoArtifacts
    /\ cell = [k \in Slots |-> NoCell] /\ launches = [e \in Episodes |-> 0]
    /\ spc = [s \in Supervisors |-> "off"] /\ mode = [s \in Supervisors |-> "plan"]
    /\ next = [s \in Supervisors |-> 1] /\ records = [s \in Supervisors |-> NoArtifacts]
    /\ lock = NoSupervisor
    /\ manual = 0 /\ faults = 0 /\ killed = {} /\ refused = FALSE

Spend == faults < MaxFaults /\ faults' = faults + 1

-----------------------------------------------------------------------------
(* The cell                                                                *)

CellAt(k, point) == cell' = [cell EXCEPT ![k].pc = point]

\* A waiting supervisor sees the exit code; nobody waits for an orphan.
CellExit(k, code) ==
    cell' = [cell EXCEPT ![k] = IF @.parent = NoSupervisor THEN NoCell ELSE [@ EXCEPT !.pc = code]]

\* The first free slot: which slot a process has means nothing.
Launch(k, e, parent) ==
    /\ cell[k].pc = "off" /\ \A j \in 1..k - 1 : cell[j].pc # "off"
    /\ launches' = [launches EXCEPT ![e] = @ + 1]
    /\ cell' = [cell EXCEPT ![k] = [pc |-> "checking", episode |-> e,
                                    launch |-> launches[e] + 1, parent |-> parent]]

\* The runbook has the first cells launched by hand.
ManualLaunch(k, e) ==
    /\ manual < MaxManual /\ manual' = manual + 1
    /\ Launch(k, e, NoSupervisor)
    /\ UNCHANGED <<treeVars, supervisorVars, faults, killed, refused>>

\* main: neither the episode's artifact nor a staging directory of it.
CellCheck(k) ==
    LET e == cell[k].episode IN
    /\ cell[k].pc = "checking"
    /\ IF raw[e] = NoArtifact /\ staging[e] = {}
         THEN CellAt(k, "loading") /\ UNCHANGED refused
         ELSE CellExit(k, "failed") /\ refused' = TRUE
    /\ UNCHANGED <<treeVars, launches, supervisorVars, manual, faults, killed>>

\* run_single_episode looks again once the models are loaded.
RolloutCheck(k) ==
    /\ cell[k].pc = "loading"
    /\ IF raw[cell[k].episode] = NoArtifact
         THEN CellAt(k, "rollout") /\ UNCHANGED refused
         ELSE CellExit(k, "failed") /\ refused' = TRUE
    /\ UNCHANGED <<treeVars, launches, supervisorVars, manual, faults, killed>>

\* _write_artifact_atomically: after the rollout, a directory beside the
\* destination, unless that is there by now.
StageArtifact(k) ==
    LET e == cell[k].episode IN
    /\ cell[k].pc = "rollout"
    /\ IF raw[e] = NoArtifact
         THEN /\ staging' = [staging EXCEPT ![e] = @ \cup {cell[k].launch}]
              /\ CellAt(k, "staged")
              /\ UNCHANGED refused
         ELSE CellExit(k, "failed") /\ refused' = TRUE /\ UNCHANGED staging
    /\ UNCHANGED <<raw, receipt, launches, supervisorVars, manual, faults, killed>>

\* Mutant: the staged directory replaces one that is there.
PublishReplacing(k) ==
    LET e == cell[k].episode IN
    /\ cell[k].pc = "staged"
    /\ staging' = [staging EXCEPT ![e] = @ \ {cell[k].launch}]
    /\ raw' = [raw EXCEPT ![e] = cell[k].launch]
    /\ CellAt(k, "published")
    /\ UNCHANGED <<receipt, launches, supervisorVars, manual, faults, killed, refused>>

\* Mutant: a rename that fails leaves the staged directory.
PublishWithoutCleanup(k) ==
    LET e == cell[k].episode IN
    /\ cell[k].pc = "staged"
    /\ IF raw[e] = NoArtifact
         THEN /\ raw' = [raw EXCEPT ![e] = cell[k].launch]
              /\ staging' = [staging EXCEPT ![e] = @ \ {cell[k].launch}]
              /\ CellAt(k, "published")
              /\ UNCHANGED refused
         ELSE CellExit(k, "failed") /\ refused' = TRUE /\ UNCHANGED <<raw, staging>>
    /\ UNCHANGED <<receipt, launches, supervisorVars, manual, faults, killed>>

\* A directory cannot be renamed onto one that holds files: the second of two
\* publications of an episode fails and removes its staged directory.
Publish(k) ==
    LET e == cell[k].episode IN
    /\ cell[k].pc = "staged"
    /\ staging' = [staging EXCEPT ![e] = @ \ {cell[k].launch}]
    /\ IF raw[e] = NoArtifact
         THEN raw' = [raw EXCEPT ![e] = cell[k].launch] /\ CellAt(k, "published") /\ UNCHANGED refused
         ELSE CellExit(k, "failed") /\ refused' = TRUE /\ UNCHANGED raw
    /\ UNCHANGED <<receipt, launches, supervisorVars, manual, faults, killed>>

CellDone(k) ==
    /\ cell[k].pc = "published"
    /\ CellExit(k, "ok")
    /\ UNCHANGED <<treeVars, launches, supervisorVars, manual, faults, killed, refused>>

\* An error unwinds through the removal of the staged directory.
CellFails(k) ==
    /\ cell[k].pc \in LivePoints /\ Spend
    /\ staging' = [staging EXCEPT ![cell[k].episode] = @ \ {cell[k].launch}]
    /\ CellExit(k, "failed")
    /\ UNCHANGED <<raw, receipt, launches, supervisorVars, manual, killed, refused>>

CellKilled(k) ==
    /\ cell[k].pc \in LivePoints /\ Spend
    /\ killed' = killed \cup {<<cell[k].episode, cell[k].launch>>}
    /\ CellExit(k, "failed")
    /\ UNCHANGED <<treeVars, launches, supervisorVars, manual, refused>>

-----------------------------------------------------------------------------
(* The supervisor                                                          *)

\* The end of the process releases the flock.
Stop(s) ==
    /\ spc' = [spc EXCEPT ![s] = "off"]
    /\ next' = [next EXCEPT ![s] = 1]
    /\ records' = [records EXCEPT ![s] = NoArtifacts]
    /\ mode' = [mode EXCEPT ![s] = "plan"]
    /\ lock' = NoSupervisor
Refuse(s) == Stop(s) /\ refused' = TRUE

\* Mutant: the flock is not taken.
SupervisorStartUnlocked(s, m) ==
    /\ spc[s] = "off"
    /\ spc' = [spc EXCEPT ![s] = "scan"] /\ mode' = [mode EXCEPT ![s] = m]
    /\ UNCHANGED <<treeVars, cellVars, next, records, lock, manual, faults, killed, refused>>

\* LOCK_NB: without the lock it raises at once, which is no step.
SupervisorStart(s, m) ==
    /\ spc[s] = "off" /\ lock = NoSupervisor
    /\ lock' = s
    /\ spc' = [spc EXCEPT ![s] = "scan"] /\ mode' = [mode EXCEPT ![s] = m]
    /\ UNCHANGED <<treeVars, cellVars, next, records, manual, faults, killed, refused>>

\* Mutant: a collection that was begun cannot be continued.
ScanRefusingPartial(s) ==
    /\ spc[s] = "scan"
    /\ IF /\ \A e \in Episodes : staging[e] = {} /\ raw[e] = NoArtifact
          /\ receipt # NoArtifacts => receipt = raw
         THEN /\ IF mode[s] = "plan"
                   THEN Stop(s)
                   ELSE spc' = [spc EXCEPT ![s] = "loop"] /\ UNCHANGED <<mode, next, records, lock>>
              /\ UNCHANGED refused
         ELSE Refuse(s)
    /\ UNCHANGED <<treeVars, cellVars, manual, faults, killed>>

\* _validate_collection_tree refuses any staging directory; a receipt that is
\* there must be that of the artifacts that are there, all of them.
Scan(s) ==
    /\ spc[s] = "scan"
    /\ IF /\ \A e \in Episodes : staging[e] = {}
          /\ receipt # NoArtifacts => receipt = raw
         THEN /\ IF mode[s] = "plan"
                   THEN Stop(s)
                   ELSE spc' = [spc EXCEPT ![s] = "loop"] /\ UNCHANGED <<mode, next, records, lock>>
              /\ UNCHANGED refused
         ELSE Refuse(s)
    /\ UNCHANGED <<treeVars, cellVars, manual, faults, killed>>

\* An episode whose artifact is there, from whatever launch, is recorded.
Record(s) ==
    /\ records' = [records EXCEPT ![s][next[s]] = raw[next[s]]]
    /\ next' = [next EXCEPT ![s] = @ + 1]
    /\ spc' = [spc EXCEPT ![s] = "loop"]

ResumeValidated(s) ==
    /\ spc[s] = "loop" /\ next[s] \in Episodes
    /\ raw[next[s]] # NoArtifact
    /\ Record(s)
    /\ UNCHANGED <<treeVars, cellVars, mode, lock, manual, faults, killed, refused>>

\* Mutant: an episode with a staging directory is left to whoever stages it.
StagedEpisodeSkipped(s) ==
    /\ spc[s] = "loop" /\ next[s] \in Episodes
    /\ raw[next[s]] = NoArtifact /\ staging[next[s]] # {}
    /\ Record(s)
    /\ UNCHANGED <<treeVars, cellVars, mode, lock, manual, faults, killed, refused>>

StagedEpisode(s) ==
    /\ spc[s] = "loop" /\ next[s] \in Episodes
    /\ raw[next[s]] = NoArtifact /\ staging[next[s]] # {}
    /\ Refuse(s)
    /\ UNCHANGED <<treeVars, cellVars, manual, faults, killed>>

LaunchCell(s, k) ==
    /\ spc[s] = "loop" /\ next[s] \in Episodes
    /\ raw[next[s]] = NoArtifact /\ staging[next[s]] = {}
    /\ Launch(k, next[s], s)
    /\ spc' = [spc EXCEPT ![s] = "wait"]
    /\ UNCHANGED <<treeVars, mode, next, records, lock, manual, faults, killed, refused>>

\* Mutant: the loop steps on once more after a collected episode.
CellReapedSkipping(s, k) ==
    /\ spc[s] = "wait" /\ cell[k].parent = s /\ cell[k].pc \in {"ok", "failed"}
    /\ cell' = [cell EXCEPT ![k] = NoCell]
    /\ IF cell[k].pc = "ok"
         THEN /\ records' = [records EXCEPT ![s][next[s]] = raw[next[s]]]
              /\ next' = [next EXCEPT ![s] = @ + 2]
              /\ spc' = [spc EXCEPT ![s] = "loop"]
              /\ UNCHANGED <<mode, lock>>
         ELSE Stop(s)
    /\ UNCHANGED <<treeVars, launches, manual, faults, killed, refused>>

\* subprocess.run(check=True): any failure of the cell ends the supervisor.
CellReaped(s, k) ==
    /\ spc[s] = "wait" /\ cell[k].parent = s /\ cell[k].pc \in {"ok", "failed"}
    /\ cell' = [cell EXCEPT ![k] = NoCell]
    /\ IF cell[k].pc = "ok" THEN Record(s) /\ UNCHANGED <<mode, lock>> ELSE Stop(s)
    /\ UNCHANGED <<treeVars, launches, manual, faults, killed, refused>>

\* _write_receipt: compare with a receipt that is there, or link a new one.
LoopEnds(s) ==
    /\ spc[s] = "loop" /\ next[s] \notin Episodes
    /\ CASE receipt = NoArtifacts ->
              /\ spc' = [spc EXCEPT ![s] = "link"]
              /\ UNCHANGED <<mode, next, records, lock, refused>>
         [] receipt = records[s] -> Stop(s) /\ UNCHANGED refused
         [] OTHER -> Refuse(s)
    /\ UNCHANGED <<treeVars, cellVars, manual, faults, killed>>

\* os.link never replaces.
LinkReceipt(s) ==
    /\ spc[s] = "link"
    /\ IF receipt = NoArtifacts
         THEN receipt' = records[s] /\ Stop(s) /\ UNCHANGED refused
         ELSE Refuse(s) /\ UNCHANGED receipt
    /\ UNCHANGED <<raw, staging, cellVars, manual, faults, killed>>

\* A death, or an error such as too little disk: its cell runs on.
SupervisorKilled(s) ==
    /\ spc[s] # "off" /\ Spend
    /\ Stop(s)
    /\ cell' = [k \in Slots |->
                  IF cell[k].parent # s THEN cell[k]
                  ELSE IF cell[k].pc \in LivePoints THEN [cell[k] EXCEPT !.parent = NoSupervisor]
                  ELSE NoCell]
    /\ UNCHANGED <<treeVars, launches, manual, killed, refused>>

\* KeyboardInterrupt: subprocess.run kills the cell after a quarter of a second,
\* in which the cell's own interrupt may have unwound it.
SupervisorInterrupted(s, k) ==
    LET e == cell[k].episode IN
    /\ spc[s] = "wait" /\ cell[k].parent = s /\ cell[k].pc \in LivePoints
    /\ Spend
    /\ Stop(s)
    /\ cell' = [cell EXCEPT ![k] = NoCell]
    /\ \/ staging' = [staging EXCEPT ![e] = @ \ {cell[k].launch}] /\ UNCHANGED killed
       \/ killed' = killed \cup {<<e, cell[k].launch>>} /\ UNCHANGED staging
    /\ UNCHANGED <<raw, receipt, launches, manual, refused>>

-----------------------------------------------------------------------------
CellProgress(k) ==
    \/ CellCheck(k) \/ RolloutCheck(k) \/ StageArtifact(k) \/ Publish(k) \/ CellDone(k)

SupervisorProgress(s) ==
    \/ Scan(s) \/ ResumeValidated(s) \/ StagedEpisode(s) \/ LoopEnds(s) \/ LinkReceipt(s)
    \/ \E k \in Slots : LaunchCell(s, k) \/ CellReaped(s, k)

Next ==
    \/ \E k \in Slots :
          \/ CellProgress(k) \/ CellFails(k) \/ CellKilled(k)
          \/ \E e \in Episodes : ManualLaunch(k, e)
    \/ \E s \in Supervisors :
          \/ \E m \in Modes : SupervisorStart(s, m)
          \/ SupervisorProgress(s) \/ SupervisorKilled(s)
          \/ \E k \in Slots : SupervisorInterrupted(s, k)

Spec == Init /\ [][Next]_vars

\* Processes run, and the operator repeats the collection command ("normal
\* continuation uses exactly the same command") while there is no receipt.
Fairness ==
    /\ \A k \in Slots : WF_vars(CellProgress(k))
    /\ \A s \in Supervisors : WF_vars(SupervisorProgress(s))
    /\ SF_vars(\E s \in Supervisors : receipt = NoArtifacts /\ SupervisorStart(s, "collect"))

FairSpec == Spec /\ Fairness

-----------------------------------------------------------------------------
(* Properties                                                              *)

Artifacts == [Episodes -> Nat]

TypeOK ==
    /\ raw \in Artifacts /\ receipt \in Artifacts
    /\ staging \in [Episodes -> SUBSET Nat]
    /\ cell \in [Slots -> [pc : CellPoints, episode : Episodes, launch : Nat,
                           parent : Supervisors \cup {NoSupervisor}]]
    /\ launches \in Artifacts
    /\ spc \in [Supervisors -> SupervisorPoints] /\ mode \in [Supervisors -> Modes]
    /\ next \in [Supervisors -> 1..EpisodeCount + 1]
    /\ records \in [Supervisors -> Artifacts]
    /\ lock \in Supervisors \cup {NoSupervisor}
    /\ manual \in 0..MaxManual /\ faults \in 0..MaxFaults
    /\ killed \subseteq Episodes \X Nat
    /\ refused \in BOOLEAN

\* "Never delete, overwrite, or rerun them": whatever cells run for an episode
\* at once, orphans included, the first artifact published stays.
ArtifactsImmutable ==
    [][\A e \in Episodes : raw[e] # NoArtifact => raw'[e] = raw[e]]_vars

\* The completion receipt names every episode's artifact, and the very one that
\* is there.
ReceiptBindsArtifacts ==
    receipt # NoArtifacts => receipt = raw /\ \A e \in Episodes : raw[e] # NoArtifact

\* A staging directory without the cell that made it means that this cell was
\* killed: errors, interrupts and lost races between cells clean up, so what
\* the supervisor calls "unexplained" always has that one explanation.
ResidueOnlyFromDeath ==
    \A e \in Episodes : \A l \in staging[e] :
        \/ <<e, l>> \in killed
        \/ \E k \in Slots : cell[k].pc = "staged" /\ cell[k].episode = e /\ cell[k].launch = l

\* Without a fault and without a launch by hand no supervisor and no cell ever
\* refuses anything: planning and collecting supervisors do not disturb one
\* another, in whatever order they are started.
NoSpuriousRefusal == refused => faults > 0 \/ manual > 0

\* The inductive invariant behind the safety properties.  Of the supervisors:
\* the one that holds the lock has validated the episodes before its own.
LockOwned == \A s \in Supervisors : spc[s] # "off" <=> lock = s

RecordsTrue ==
    \A s \in Supervisors :
        /\ spc[s] \in {"off", "scan"} => next[s] = 1
        /\ \A e \in Episodes : e < next[s] => records[s][e] = raw[e] /\ raw[e] # NoArtifact
        /\ spc[s] = "wait" => next[s] \in Episodes
        /\ spc[s] = "link" => next[s] = EpisodeCount + 1 /\ receipt = NoArtifacts

\* Of the cells: one with a live parent is the only one it waits for.
CellsParented ==
    /\ \A k \in Slots :
          /\ cell[k].pc = "off" => cell[k].parent = NoSupervisor
          /\ cell[k].pc # "off" => cell[k].launch # NoArtifact
          /\ cell[k].parent # NoSupervisor =>
                spc[cell[k].parent] = "wait" /\ cell[k].episode = next[cell[k].parent]
          /\ cell[k].pc \in {"published", "ok"} => raw[cell[k].episode] # NoArtifact
    /\ \A j, k \in Slots :
          cell[j].parent = cell[k].parent /\ cell[k].parent # NoSupervisor => j = k

\* Without a fault and without a launch by hand there are no orphans, so no
\* two cells, and the episode of a cell is still missing until it publishes.
QuietRun ==
    faults = 0 /\ manual = 0 =>
        /\ killed = {} /\ ~refused
        /\ \A k \in Slots :
              /\ cell[k].pc # "off" => cell[k].parent # NoSupervisor
              /\ cell[k].pc \in {"checking", "loading", "rollout", "staged"} =>
                    raw[cell[k].episode] = NoArtifact

CollectionInvariant ==
    /\ LockOwned /\ RecordsTrue /\ CellsParented /\ QuietRun
    /\ ReceiptBindsArtifacts /\ ResidueOnlyFromDeath

\* Collection that is repeated as long as there is no receipt closes, whatever
\* orphans are still at work, unless a cell was killed while it staged.
CollectionResumes ==
    <>(receipt # NoArtifacts \/ \E e \in Episodes : \E l \in staging[e] : <<e, l>> \in killed)

\* The collection keeps ScoringLedger's promise of its raw artifacts: it closes with
\* the completion receipt.  Any launch may be the one that publishes.
LedgerPhase == IF receipt = NoArtifacts THEN "open" ELSE "closed"
Ledger == INSTANCE ScoringLedger WITH
    Contents <- Nat \ {NoArtifact}, None <- NoArtifact, score <- raw, phase <- LedgerPhase
ImplementsLedger == Ledger!LedgerSpec

=============================================================================
