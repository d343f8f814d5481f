----------------------- MODULE LockedTestCollectionProofs -----------------------
(***************************************************************************)
(* Proofs about LockedTestCollection, for every number of supervisors, of  *)
(* cell processes at a time, of episodes, of launches by hand and of       *)
(* faults.  The inductive invariant is CollectionInvariant: the supervisor *)
(* that holds the lock is the only one with a state, what it has recorded  *)
(* is what is published, and of the cells that run at once at most one is  *)
(* its own.                                                                *)
(***************************************************************************)
EXTENDS LockedTestCollection, TLAPS

Inv == TypeOK /\ CollectionInvariant

Cells == [pc : CellPoints, episode : Episodes, launch : Nat,
          parent : Supervisors \cup {NoSupervisor}]

-----------------------------------------------------------------------------
(* Steps of a cell                                                         *)

\* What a step does to a cell: it ends, an orphan's unseen, or is at another
\* point with the episode, launch and parent it had.
CellStep(k, point) ==
    /\ cell' \in [Slots -> Cells]
    /\ \A j \in Slots \ {k} : cell'[j] = cell[j]
    /\ \/ cell'[k] = NoCell /\ cell[k].parent = NoSupervisor
       \/ /\ cell'[k].pc = point /\ cell'[k].episode = cell[k].episode
          /\ cell'[k].launch = cell[k].launch /\ cell'[k].parent = cell[k].parent

\* A cell that goes on keeps its episode, launch and parent.
LEMMA CellAtStep ==
    ASSUME TypeOK, NEW k \in Slots, NEW point \in CellPoints, CellAt(k, point)
    PROVE  CellStep(k, point) /\ cell'[k].pc = point
  BY DEF CellAt, CellStep, TypeOK, Cells

\* So does one that exits, unless nobody waits for it.
LEMMA CellExitStep ==
    ASSUME TypeOK, NEW k \in Slots, NEW code \in {"ok", "failed"}, CellExit(k, code)
    PROVE  CellStep(k, code) /\ (cell[k].parent # NoSupervisor => cell'[k].pc = code)
  <1>1. NoCell \in Cells
    BY CollectionAssumption DEF NoCell, Cells, CellPoints, Episodes
  <1>2. CASE cell[k].parent = NoSupervisor
    BY <1>1, <1>2 DEF CellExit, CellStep, TypeOK, Cells
  <1>3. CASE cell[k].parent # NoSupervisor
    <2>1. cell' = [cell EXCEPT ![k] = [cell[k] EXCEPT !.pc = code]]
      BY <1>3 DEF CellExit
    <2>2. /\ [cell[k] EXCEPT !.pc = code] \in Cells /\ [cell[k] EXCEPT !.pc = code].pc = code
          /\ [cell[k] EXCEPT !.pc = code].episode = cell[k].episode
          /\ [cell[k] EXCEPT !.pc = code].launch = cell[k].launch
          /\ [cell[k] EXCEPT !.pc = code].parent = cell[k].parent
      BY DEF TypeOK, Cells, CellPoints
    <2>. QED  BY <2>1, <2>2 DEF CellStep, TypeOK, Cells
  <1>. QED  BY <1>2, <1>3

\* The steps of a live cell keep everything that is not about residue or about
\* a run without faults, if artifacts are not replaced.
LEMMA CellStepSound ==
    ASSUME Inv, NEW k \in Slots, NEW point \in CellPoints \ {"off"}, CellStep(k, point),
           cell[k].pc \in LivePoints, raw' \in Artifacts,
           \A e \in Episodes : raw[e] # NoArtifact => raw'[e] = raw[e],
           point \in {"published", "ok"} => raw'[cell[k].episode] # NoArtifact,
           UNCHANGED <<receipt, launches, supervisorVars, manual>>,
           staging' \in [Episodes -> SUBSET Nat], faults' \in 0..MaxFaults,
           killed' \subseteq Episodes \X Nat, refused' \in BOOLEAN
    PROVE  /\ TypeOK' /\ LockOwned' /\ RecordsTrue' /\ CellsParented' /\ ReceiptBindsArtifacts'
           /\ faults = 0 /\ manual = 0 => \A j \in Slots \ {k} : cell'[j].pc = "off"
  <1>1. TypeOK'
    BY DEF Inv, TypeOK, CellStep, Cells, supervisorVars
  <1>2. LockOwned'
    BY DEF Inv, CollectionInvariant, LockOwned, supervisorVars
  <1>3. ReceiptBindsArtifacts'
    BY DEF Inv, CollectionInvariant, ReceiptBindsArtifacts, TypeOK, Artifacts
  <1>4. RecordsTrue'
    BY DEF Inv, CollectionInvariant, RecordsTrue, supervisorVars
  <1>5. CellsParented'
    <2>1. CellsParented /\ cell \in [Slots -> Cells]
      BY DEF Inv, CollectionInvariant, TypeOK, Cells
    <2>2. ASSUME NEW j \in Slots
          PROVE  /\ cell'[j].pc = "off" => cell'[j].parent = NoSupervisor
                 /\ cell'[j].pc # "off" => cell'[j].launch # NoArtifact
                 /\ cell'[j].parent # NoSupervisor =>
                       /\ cell'[j].parent = cell[j].parent
                       /\ spc[cell[j].parent] = "wait" /\ cell'[j].episode = next[cell[j].parent]
                 /\ cell'[j].pc \in {"published", "ok"} => raw'[cell'[j].episode] # NoArtifact
      <3>1. CASE j = k
        BY <2>1, <3>1 DEF CellsParented, CellStep, NoCell, LivePoints
      <3>2. CASE j # k
        BY <2>1, <3>2 DEF CellsParented, CellStep, Cells
      <3>. QED  BY <3>1, <3>2
    <2>3. \A i, j \in Slots : cell'[i].parent = cell'[j].parent /\ cell'[j].parent # NoSupervisor => i = j
      BY <2>1, <2>2 DEF CellsParented
    <2>. QED  BY <2>2, <2>3 DEF CellsParented, supervisorVars
  <1>6. ASSUME faults = 0, manual = 0, NEW j \in Slots \ {k}  PROVE cell'[j].pc = "off"
    <2>1. cell[j].pc # "off" => cell[j].parent \in Supervisors /\ cell[k].parent \in Supervisors
      BY <1>6 DEF Inv, CollectionInvariant, QuietRun, TypeOK, LivePoints
    <2>2. cell[j].pc # "off" => cell[j].parent = lock /\ cell[k].parent = lock
      BY <2>1, CollectionAssumption DEF Inv, CollectionInvariant, CellsParented, LockOwned
    <2>. QED  BY <2>1, <2>2, CollectionAssumption DEF Inv, CollectionInvariant, CellsParented, CellStep
  <1>. QED  BY <1>1, <1>2, <1>3, <1>4, <1>5, <1>6

\* The steps of a cell.
LEMMA CellSound ==
    ASSUME Inv, NEW k \in Slots, CellProgress(k) \/ CellFails(k) \/ CellKilled(k)
    PROVE  Inv'
  <1> DEFINE e == cell[k].episode
  <1>0. /\ cell[k] \in Cells /\ e \in Episodes /\ raw \in Artifacts /\ cell[k].launch \in Nat
        /\ staging \in [Episodes -> SUBSET Nat] /\ faults \in 0..MaxFaults /\ manual \in 0..MaxManual
        /\ killed \subseteq Episodes \X Nat /\ refused \in BOOLEAN /\ TypeOK
    BY DEF Inv, TypeOK, Cells
  <1>1. cell[k].pc \in LivePoints
    BY DEF CellProgress, CellCheck, RolloutCheck, StageArtifact, Publish, CellDone, CellFails, CellKilled,
       LivePoints
  <1>2. ResidueOnlyFromDeath /\ QuietRun /\ (cell[k].pc # "off" => cell[k].launch # NoArtifact)
    BY DEF Inv, CollectionInvariant, CellsParented
  <1>3. faults = 0 /\ manual = 0 =>
           /\ cell[k].parent # NoSupervisor /\ killed = {} /\ ~refused
           /\ cell[k].pc \in {"checking", "loading", "rollout", "staged"} => raw[e] = NoArtifact
           /\ cell[k].pc # "staged" => staging[e] = {}
    <2>1. ASSUME faults = 0, manual = 0, cell[k].pc # "staged", NEW l \in staging[e]  PROVE FALSE
      <3>1. PICK j \in Slots : cell[j].pc = "staged"
        BY <1>0, <1>2, <2>1 DEF ResidueOnlyFromDeath, QuietRun
      <3>2. cell[j].parent \in Supervisors /\ cell[k].parent \in Supervisors
        BY <1>1, <1>2, <2>1, <3>1 DEF QuietRun, LivePoints, Inv, TypeOK
      <3>3. cell[j].parent = lock /\ cell[k].parent = lock /\ lock # NoSupervisor
        BY <3>2, CollectionAssumption DEF Inv, CollectionInvariant, CellsParented, LockOwned
      <3>. QED  BY <2>1, <3>1, <3>3 DEF Inv, CollectionInvariant, CellsParented
    <2>. QED  BY <1>1, <1>2, <2>1 DEF QuietRun, LivePoints
  <1>4. ASSUME NEW point \in CellPoints \ {"off"}, CellStep(k, point),
               UNCHANGED <<raw, receipt, launches, supervisorVars, manual>>,
               cell[k].pc # "staged", faults' \in {faults, faults + 1} /\ faults' \in 0..MaxFaults,
               staging' = staging \/ (point = "staged" /\ cell'[k].pc = point
                                      /\ staging' = [staging EXCEPT ![e] = @ \cup {cell[k].launch}]),
               killed' = killed,
               faults' = 0 /\ manual = 0 =>
                  /\ refused' = refused /\ cell'[k].pc = point
                  /\ point \in {"checking", "loading", "rollout", "staged"} => raw[e] = NoArtifact,
               refused' \in BOOLEAN,
               point \in {"published", "ok"} => raw[e] # NoArtifact
        PROVE  Inv'
    <2>1. staging' \in [Episodes -> SUBSET Nat]
      BY <1>0, <1>4
    <2>2. /\ TypeOK' /\ LockOwned' /\ RecordsTrue' /\ CellsParented' /\ ReceiptBindsArtifacts'
          /\ faults = 0 /\ manual = 0 => \A j \in Slots \ {k} : cell'[j].pc = "off"
      BY <1>0, <1>1, <1>4, <2>1, CellStepSound
    <2>3. ResidueOnlyFromDeath'
      <3>1. ASSUME NEW d \in Episodes, NEW l \in staging'[d]
            PROVE  <<d, l>> \in killed' \/ \E j \in Slots : cell'[j].pc = "staged" /\ cell'[j].episode = d
                                                           /\ cell'[j].launch = l
        <4>1. CASE l \in staging[d]
          BY <1>2, <1>4, <3>1, <4>1 DEF ResidueOnlyFromDeath, CellStep
        <4>2. CASE l \notin staging[d]
          BY <1>0, <1>4, <3>1, <4>2 DEF CellStep, NoCell
        <4>. QED  BY <4>1, <4>2
      <3>. QED  BY <3>1 DEF ResidueOnlyFromDeath
    <2>4. QuietRun'
      <3> SUFFICES ASSUME faults' = 0, manual' = 0
                   PROVE  /\ killed' = {} /\ ~refused'
                          /\ \A j \in Slots :
                                /\ cell'[j].pc # "off" => cell'[j].parent # NoSupervisor
                                /\ cell'[j].pc \in {"checking", "loading", "rollout", "staged"} =>
                                      raw'[cell'[j].episode] = NoArtifact
        BY DEF QuietRun
      <3>1. faults = 0 /\ manual = 0
        BY <1>0, <1>4
      <3>2. killed' = {} /\ ~refused'
        BY <1>3, <1>4, <3>1
      <3>3. ASSUME NEW j \in Slots
            PROVE  /\ cell'[j].pc # "off" => cell'[j].parent # NoSupervisor
                   /\ cell'[j].pc \in {"checking", "loading", "rollout", "staged"} =>
                          raw'[cell'[j].episode] = NoArtifact
        BY <1>3, <1>4, <2>2, <3>1 DEF CellStep
      <3>. QED  BY <3>2, <3>3
    <2>. QED  BY <2>2, <2>3, <2>4 DEF Inv, CollectionInvariant
  <1>5. ASSUME NEW point \in CellPoints \ {"off"}, CellStep(k, point), point # "staged",
               UNCHANGED <<receipt, launches, supervisorVars, manual>>,
               faults' \in 0..MaxFaults, faults' \in {faults, faults + 1}, raw' \in Artifacts,
               \A d \in Episodes : raw[d] # NoArtifact => raw'[d] = raw[d],
               \/ staging' = [staging EXCEPT ![e] = @ \ {cell[k].launch}] /\ killed' = killed
               \/ /\ staging' = staging /\ killed' = killed \cup {<<e, cell[k].launch>>}
                  /\ faults' = faults + 1,
               faults' = 0 /\ manual = 0 =>
                  refused' = refused /\ cell'[k].pc = point
                  /\ point \notin {"checking", "loading", "rollout", "staged"},
               refused' \in BOOLEAN,
               point \in {"published", "ok"} => raw'[e] # NoArtifact
        PROVE  Inv'
    <2>1. staging' \in [Episodes -> SUBSET Nat] /\ killed' \subseteq Episodes \X Nat
      BY <1>0, <1>5
    <2>2. /\ TypeOK' /\ LockOwned' /\ RecordsTrue' /\ CellsParented' /\ ReceiptBindsArtifacts'
          /\ faults = 0 /\ manual = 0 => \A j \in Slots \ {k} : cell'[j].pc = "off"
      BY <1>0, <1>1, <1>5, <2>1, CellStepSound
    <2>3. ResidueOnlyFromDeath'
      <3>1. ASSUME NEW d \in Episodes, NEW l \in staging'[d]
            PROVE  <<d, l>> \in killed' \/ \E j \in Slots : cell'[j].pc = "staged" /\ cell'[j].episode = d
                                                           /\ cell'[j].launch = l
        <4>1. l \in staging[d] /\ (<<d, l>> \in killed => <<d, l>> \in killed')
          BY <1>0, <1>5, <3>1
        <4>2. CASE <<d, l>> \in killed
          BY <4>1, <4>2
        <4>3. CASE <<d, l>> \notin killed
          <5>1. PICK j \in Slots : cell[j].pc = "staged" /\ cell[j].episode = d /\ cell[j].launch = l
            BY <1>2, <3>1, <4>1, <4>3 DEF ResidueOnlyFromDeath
          <5>2. CASE j = k
            BY <1>0, <1>5, <3>1, <5>1, <5>2
          <5>3. CASE j # k
            BY <1>5, <5>1, <5>3 DEF CellStep
          <5>. QED  BY <5>2, <5>3
        <4>. QED  BY <4>2, <4>3
      <3>. QED  BY <3>1 DEF ResidueOnlyFromDeath
    <2>4. QuietRun'
      <3> SUFFICES ASSUME faults' = 0, manual' = 0
                   PROVE  /\ killed' = {} /\ ~refused'
                          /\ \A j \in Slots :
                                /\ cell'[j].pc # "off" => cell'[j].parent # NoSupervisor
                                /\ cell'[j].pc \in {"checking", "loading", "rollout", "staged"} =>
                                      raw'[cell'[j].episode] = NoArtifact
        BY DEF QuietRun
      <3>1. faults = 0 /\ manual = 0
        BY <1>0, <1>5
      <3>2. killed' = {} /\ ~refused'
        BY <1>0, <1>3, <1>5, <3>1
      <3>3. ASSUME NEW j \in Slots
            PROVE  /\ cell'[j].pc # "off" => cell'[j].parent # NoSupervisor
                   /\ cell'[j].pc \in {"checking", "loading", "rollout", "staged"} =>
                          raw'[cell'[j].episode] = NoArtifact
        BY <1>3, <1>5, <2>2, <3>1 DEF CellStep
      <3>. QED  BY <3>2, <3>3
    <2>. QED  BY <2>2, <2>3, <2>4 DEF Inv, CollectionInvariant
  <1> HIDE DEF e
  <1>6. {"loading", "rollout", "staged", "published", "ok", "failed"} \subseteq CellPoints \ {"off"}
    BY DEF CellPoints, LivePoints
  <1>7. \A point \in CellPoints : CellAt(k, point) => CellStep(k, point) /\ cell'[k].pc = point
    BY <1>0, CellAtStep
  <1>8. \A code \in {"ok", "failed"} :
           CellExit(k, code) => CellStep(k, code) /\ (cell[k].parent # NoSupervisor => cell'[k].pc = code)
    BY <1>0, CellExitStep
  <1>9. CASE CellCheck(k)
    <2>1. UNCHANGED <<treeVars, launches, supervisorVars, manual, faults, killed>> /\ cell[k].pc = "checking"
      BY <1>9 DEF CellCheck
    <2>2. CASE raw[e] = NoArtifact /\ staging[e] = {}
      BY <1>0, <1>4, <1>6, <1>7, <1>9, <2>1, <2>2 DEF CellCheck, treeVars, e
    <2>3. CASE ~(raw[e] = NoArtifact /\ staging[e] = {})
      BY <1>0, <1>3, <1>4, <1>6, <1>8, <1>9, <2>1, <2>3 DEF CellCheck, treeVars, e
    <2>. QED  BY <2>2, <2>3
  <1>10. CASE RolloutCheck(k)
    <2>1. UNCHANGED <<treeVars, launches, supervisorVars, manual, faults, killed>> /\ cell[k].pc = "loading"
      BY <1>10 DEF RolloutCheck
    <2>2. CASE raw[e] = NoArtifact
      BY <1>0, <1>4, <1>6, <1>7, <1>10, <2>1, <2>2 DEF RolloutCheck, treeVars, e
    <2>3. CASE raw[e] # NoArtifact
      BY <1>0, <1>3, <1>4, <1>6, <1>8, <1>10, <2>1, <2>3 DEF RolloutCheck, treeVars, e
    <2>. QED  BY <2>2, <2>3
  <1>11. CASE StageArtifact(k)
    <2>1. UNCHANGED <<raw, receipt, launches, supervisorVars, manual, faults, killed>> /\ cell[k].pc = "rollout"
      BY <1>11 DEF StageArtifact
    <2>2. CASE raw[e] = NoArtifact
      BY <1>0, <1>4, <1>6, <1>7, <1>11, <2>1, <2>2 DEF StageArtifact, e
    <2>3. CASE raw[e] # NoArtifact
      BY <1>0, <1>3, <1>4, <1>6, <1>8, <1>11, <2>1, <2>3 DEF StageArtifact, e
    <2>. QED  BY <2>2, <2>3
  <1>12. CASE Publish(k)
    <2>1. /\ UNCHANGED <<receipt, launches, supervisorVars, manual, faults, killed>> /\ cell[k].pc = "staged"
          /\ staging' = [staging EXCEPT ![e] = @ \ {cell[k].launch}]
      BY <1>12 DEF Publish, e
    <2>2. CASE raw[e] = NoArtifact
      <3>1. raw' = [raw EXCEPT ![e] = cell[k].launch] /\ CellAt(k, "published") /\ refused' = refused
        BY <1>12, <2>2 DEF Publish, e
      <3>2. /\ raw' \in Artifacts /\ raw'[e] # NoArtifact
            /\ \A d \in Episodes : raw[d] # NoArtifact => raw'[d] = raw[d]
        BY <1>0, <1>2, <2>1, <2>2, <3>1 DEF Artifacts
      <3>3. CellStep(k, "published") /\ cell'[k].pc = "published"
        BY <1>6, <1>7, <3>1
      <3>4. "published" \in CellPoints \ {"off"} /\ refused' \in BOOLEAN
        BY <1>0, <1>6, <3>1
      <3>. QED  BY <1>0, <1>5, <2>1, <3>1, <3>2, <3>3, <3>4
    <2>3. CASE raw[e] # NoArtifact
      <3>1. CellStep(k, "failed") /\ raw' = raw /\ refused' = TRUE
        BY <1>8, <1>12, <2>3 DEF Publish, e
      <3>2. "failed" \in CellPoints \ {"off"} /\ refused' \in BOOLEAN
        BY <1>6, <3>1
      <3>3. ~(faults = 0 /\ manual = 0)
        BY <1>3, <2>1, <2>3
      <3>. QED  BY <1>0, <1>5, <2>1, <3>1, <3>2, <3>3
    <2>. QED  BY <2>2, <2>3
  <1>13. CASE CellDone(k)
    <2>1. raw[e] # NoArtifact
      BY <1>13 DEF CellDone, e, Inv, CollectionInvariant, CellsParented
    <2>. QED  BY <1>0, <1>3, <1>4, <1>6, <1>8, <1>13, <2>1 DEF CellDone, treeVars
  <1>14. CASE CellFails(k)
    <2>1. /\ UNCHANGED <<raw, receipt, launches, supervisorVars, manual, killed, refused>>
          /\ staging' = [staging EXCEPT ![e] = @ \ {cell[k].launch}]
          /\ CellStep(k, "failed")
          /\ faults' = faults + 1 /\ faults' \in 0..MaxFaults
      BY <1>0, <1>8, <1>14, CollectionAssumption DEF CellFails, Spend, e
    <2>. QED  BY <1>0, <1>5, <1>6, <2>1
  <1>15. CASE CellKilled(k)
    <2>1. /\ UNCHANGED <<treeVars, launches, supervisorVars, manual, refused>>
          /\ killed' = killed \cup {<<e, cell[k].launch>>}
          /\ CellStep(k, "failed")
          /\ faults' = faults + 1 /\ faults' \in 0..MaxFaults
      BY <1>0, <1>8, <1>15, CollectionAssumption DEF CellKilled, Spend, e
    <2>2. UNCHANGED <<raw, staging, receipt, launches, supervisorVars, manual, refused>> /\ ~(faults' = 0)
      BY <1>0, <2>1 DEF treeVars
    <2>. QED  BY <1>0, <1>5, <1>6, <2>1, <2>2
  <1>. QED  BY <1>9, <1>10, <1>11, <1>12, <1>13, <1>14, <1>15 DEF CellProgress

-----------------------------------------------------------------------------
(* Steps of a supervisor                                                   *)

SupervisorTypes ==
    /\ spc \in [Supervisors -> SupervisorPoints] /\ mode \in [Supervisors -> Modes]
    /\ next \in [Supervisors -> 1..EpisodeCount + 1]
    /\ records \in [Supervisors -> Artifacts]
    /\ lock \in Supervisors \cup {NoSupervisor}

\* The supervisor with a state is the one that holds the lock.
LEMMA Alone ==
    ASSUME Inv, NEW s \in Supervisors, spc[s] # "off"
    PROVE  /\ lock = s /\ \A r \in Supervisors \ {s} : spc[r] = "off" /\ next[r] = 1
           /\ \A k \in Slots : cell[k].parent \in {s, NoSupervisor}
           /\ spc[s] # "wait" => \A k \in Slots : cell[k].parent = NoSupervisor
           /\ s # NoSupervisor
  BY CollectionAssumption DEF Inv, CollectionInvariant, LockOwned, RecordsTrue, CellsParented, TypeOK

\* The end of a supervisor forgets what it recorded and frees the lock.
LEMMA StopSound ==
    ASSUME Inv, NEW s \in Supervisors, spc[s] # "off", Stop(s), raw' = raw
    PROVE  /\ SupervisorTypes' /\ LockOwned' /\ RecordsTrue'
           /\ \A r \in Supervisors : spc'[r] = "off"
  <1>1. lock = s /\ \A r \in Supervisors \ {s} : spc[r] = "off" /\ next[r] = 1
    BY Alone
  <1>2. SupervisorTypes'
    BY CollectionAssumption DEF Stop, SupervisorTypes, Inv, TypeOK, SupervisorPoints, Modes, NoArtifacts,
       NoArtifact, Artifacts
  <1>3. \A r \in Supervisors : spc'[r] = "off" /\ next'[r] = 1
    BY <1>1 DEF Stop, Inv, TypeOK
  <1>4. LockOwned'
    BY <1>3, CollectionAssumption DEF LockOwned, Stop
  <1>5. RecordsTrue'
    BY <1>3 DEF RecordsTrue, Episodes
  <1>. QED  BY <1>2, <1>3, <1>4, <1>5

\* Steps of a supervisor without a cell.
LEMMA IdleCellsSound ==
    ASSUME Inv, NEW s \in Supervisors, spc[s] # "wait",
           UNCHANGED <<raw, staging, cell, launches, manual, faults, killed>>,
           \A r \in Supervisors \ {s} : spc'[r] = spc[r] /\ next'[r] = next[r],
           SupervisorTypes', LockOwned', RecordsTrue', ReceiptBindsArtifacts',
           receipt' \in Artifacts, refused' \in BOOLEAN,
           faults = 0 /\ manual = 0 => refused' = refused
    PROVE  Inv'
  <1>1. TypeOK'
    BY DEF Inv, TypeOK, SupervisorTypes
  <1>2. CellsParented'
    BY DEF Inv, CollectionInvariant, CellsParented, TypeOK
  <1>3. ResidueOnlyFromDeath' /\ QuietRun'
    BY DEF Inv, CollectionInvariant, ResidueOnlyFromDeath, QuietRun
  <1>. QED  BY <1>1, <1>2, <1>3 DEF Inv, CollectionInvariant

\* A supervisor without a cell finds no staging directory if there was no fault
\* and no launch by hand.
LEMMA NoResidue ==
    ASSUME Inv, NEW s \in Supervisors, spc[s] \notin {"off", "wait"}, faults = 0, manual = 0
    PROVE  \A e \in Episodes : staging[e] = {}
  <1> SUFFICES ASSUME NEW e \in Episodes, NEW l \in staging[e]  PROVE FALSE
    OBVIOUS
  <1>1. PICK k \in Slots : cell[k].pc = "staged"
    BY DEF Inv, CollectionInvariant, ResidueOnlyFromDeath, QuietRun
  <1>2. cell[k].parent # NoSupervisor
    BY <1>1 DEF Inv, CollectionInvariant, QuietRun
  <1>. QED  BY <1>2, Alone

\* An artifact of every episode is recorded when the loop has passed the last.
LEMMA AllRecorded ==
    ASSUME Inv, NEW s \in Supervisors, next[s] \notin Episodes
    PROVE  records[s] = raw /\ (\A e \in Episodes : raw[e] # NoArtifact) /\ records[s] # NoArtifacts
           /\ next[s] = EpisodeCount + 1
  <1>1. next[s] = EpisodeCount + 1
    BY CollectionAssumption DEF Inv, TypeOK, Episodes
  <1>2. \A e \in Episodes : records[s][e] = raw[e] /\ raw[e] # NoArtifact
    BY <1>1, CollectionAssumption DEF Inv, CollectionInvariant, RecordsTrue, Episodes
  <1>3. records[s] \in Artifacts /\ raw \in Artifacts
    BY DEF Inv, TypeOK
  <1>4. 1 \in Episodes /\ NoArtifacts[1] = NoArtifact
    BY CollectionAssumption DEF Episodes, NoArtifacts
  <1>. QED  BY <1>1, <1>2, <1>3, <1>4 DEF Artifacts

\* An artifact that is there is recorded for the episode the loop is at.
LEMMA RecordSound ==
    ASSUME Inv, NEW s \in Supervisors, Record(s), spc[s] \in {"loop", "wait"}, next[s] \in Episodes,
           raw[next[s]] # NoArtifact, UNCHANGED <<raw, receipt, mode, lock>>
    PROVE  /\ SupervisorTypes' /\ LockOwned' /\ RecordsTrue' /\ spc'[s] = "loop"
           /\ \A r \in Supervisors \ {s} : spc'[r] = spc[r] /\ next'[r] = next[r]
  <1> DEFINE new == [records[s] EXCEPT ![next[s]] = raw[next[s]]]
  <1>1. SupervisorTypes /\ LockOwned /\ RecordsTrue /\ raw \in Artifacts
    BY DEF Inv, CollectionInvariant, TypeOK, SupervisorTypes
  <1>2. /\ new \in Artifacts /\ new[next[s]] = raw[next[s]]
        /\ \A e \in Episodes \ {next[s]} : new[e] = records[s][e]
    BY <1>1 DEF SupervisorTypes, Artifacts
  <1>3. /\ records' = [records EXCEPT ![s] = new]
        /\ next' = [next EXCEPT ![s] = next[s] + 1] /\ spc' = [spc EXCEPT ![s] = "loop"]
    BY DEF Record
  <1> HIDE DEF new
  <1>4. next[s] + 1 \in 1..EpisodeCount + 1 /\ next[s] \in Nat
    BY CollectionAssumption DEF Episodes
  <1>5. SupervisorTypes'
    BY <1>1, <1>2, <1>3, <1>4 DEF SupervisorTypes, SupervisorPoints
  <1>6. /\ records'[s] = new /\ next'[s] = next[s] + 1 /\ spc'[s] = "loop"
        /\ \A r \in Supervisors \ {s} : spc'[r] = spc[r] /\ next'[r] = next[r] /\ records'[r] = records[r]
    BY <1>1, <1>3 DEF SupervisorTypes
  <1>7. LockOwned'
    BY <1>1, <1>6 DEF LockOwned
  <1>8. \A e \in Episodes : e < next[s] + 1 => new[e] = raw[e] /\ raw[e] # NoArtifact
    BY <1>1, <1>2, <1>4 DEF RecordsTrue, Episodes
  <1>9. RecordsTrue'
    BY <1>1, <1>6, <1>8 DEF RecordsTrue
  <1>. QED  BY <1>5, <1>6, <1>7, <1>9

\* The steps of a supervisor that leave the cells alone.
LEMMA SupervisorAloneSound ==
    ASSUME Inv, NEW s \in Supervisors,
           \/ \E m \in Modes : SupervisorStart(s, m)
           \/ Scan(s) \/ ResumeValidated(s) \/ StagedEpisode(s) \/ LoopEnds(s) \/ LinkReceipt(s)
    PROVE  Inv'
  <1>0. /\ SupervisorTypes /\ receipt \in Artifacts /\ raw \in Artifacts /\ refused \in BOOLEAN
        /\ LockOwned /\ RecordsTrue /\ ReceiptBindsArtifacts
    BY DEF Inv, TypeOK, SupervisorTypes, CollectionInvariant
  <1>1. ASSUME Stop(s), spc[s] \notin {"off", "wait"}, receipt' = receipt,
               UNCHANGED <<raw, staging, cell, launches, manual, faults, killed>>,
               refused' = refused \/ (refused' = TRUE /\ ~(faults = 0 /\ manual = 0))
        PROVE  Inv'
    <2>1. SupervisorTypes' /\ LockOwned' /\ RecordsTrue' /\ \A r \in Supervisors : spc'[r] = "off"
      BY <1>1, StopSound
    <2>2. \A r \in Supervisors \ {s} : spc'[r] = spc[r] /\ next'[r] = next[r]
      BY <1>1 DEF Stop, Inv, TypeOK
    <2>3. ReceiptBindsArtifacts' /\ receipt' \in Artifacts /\ refused' \in BOOLEAN
      BY <1>0, <1>1 DEF ReceiptBindsArtifacts
    <2>. QED  BY <1>1, <2>1, <2>2, <2>3, IdleCellsSound
  <1>2. CASE \E m \in Modes : SupervisorStart(s, m)
    <2>1. PICK m \in Modes : SupervisorStart(s, m)
      BY <1>2
    <2>2. /\ spc[s] = "off" /\ lock = NoSupervisor /\ lock' = s
          /\ spc' = [spc EXCEPT ![s] = "scan"] /\ mode' = [mode EXCEPT ![s] = m]
          /\ UNCHANGED <<raw, staging, receipt, cell, launches, next, records, manual, faults, killed, refused>>
      BY <2>1 DEF SupervisorStart, treeVars, cellVars
    <2>3. SupervisorTypes'
      BY <1>0, <2>2 DEF SupervisorTypes, SupervisorPoints
    <2>4. LockOwned'
      BY <1>0, <2>2, CollectionAssumption DEF LockOwned, SupervisorTypes
    <2>5. RecordsTrue'
      BY <1>0, <2>2 DEF RecordsTrue, SupervisorTypes
    <2>6. /\ \A r \in Supervisors \ {s} : spc'[r] = spc[r] /\ next'[r] = next[r]
          /\ ReceiptBindsArtifacts'
      BY <1>0, <2>2 DEF SupervisorTypes, ReceiptBindsArtifacts
    <2>. QED  BY <1>0, <2>2, <2>3, <2>4, <2>5, <2>6, IdleCellsSound
  <1>3. CASE Scan(s)
    <2>1. spc[s] = "scan" /\ UNCHANGED <<raw, staging, receipt, cell, launches, manual, faults, killed>>
      BY <1>3 DEF Scan, treeVars, cellVars
    <2>2. CASE Stop(s) /\ refused' = refused
      BY <1>1, <2>1, <2>2
    <2>3. CASE Refuse(s)
      <3>1. CASE faults = 0 /\ manual = 0
        <4>1. \A e \in Episodes : staging[e] = {}
          BY <2>1, <3>1, NoResidue
        <4>2. receipt # NoArtifacts => receipt = raw
          BY <1>0 DEF ReceiptBindsArtifacts
        <4>3. refused' = refused
          BY <1>3, <4>1, <4>2 DEF Scan
        <4>. QED  BY <1>1, <2>1, <2>3, <4>3 DEF Refuse
      <3>2. CASE ~(faults = 0 /\ manual = 0)
        BY <1>1, <2>1, <2>3, <3>2 DEF Refuse
      <3>. QED  BY <3>1, <3>2
    <2>4. CASE spc' = [spc EXCEPT ![s] = "loop"] /\ UNCHANGED <<mode, next, records, lock, refused>>
      <3>1. SupervisorTypes' /\ LockOwned'
        BY <1>0, <2>1, <2>4 DEF SupervisorTypes, SupervisorPoints, LockOwned
      <3>2. RecordsTrue'
        BY <1>0, <2>1, <2>4 DEF SupervisorTypes, RecordsTrue
      <3>3. /\ \A r \in Supervisors \ {s} : spc'[r] = spc[r] /\ next'[r] = next[r]
            /\ ReceiptBindsArtifacts'
        BY <1>0, <2>1, <2>4 DEF SupervisorTypes, ReceiptBindsArtifacts
      <3>. QED  BY <1>0, <2>1, <2>4, <3>1, <3>2, <3>3, IdleCellsSound
    <2>. QED  BY <1>3, <2>2, <2>3, <2>4 DEF Scan
  <1>4. CASE ResumeValidated(s)
    <2>1. /\ spc[s] = "loop" /\ next[s] \in Episodes /\ raw[next[s]] # NoArtifact
          /\ UNCHANGED <<raw, staging, receipt, cell, launches, mode, lock, manual, faults, killed, refused>>
          /\ Record(s)
      BY <1>4 DEF ResumeValidated, treeVars, cellVars
    <2>2. /\ SupervisorTypes' /\ LockOwned' /\ RecordsTrue'
          /\ \A r \in Supervisors \ {s} : spc'[r] = spc[r] /\ next'[r] = next[r]
      BY <2>1, RecordSound
    <2>3. ReceiptBindsArtifacts'
      BY <1>0, <2>1 DEF ReceiptBindsArtifacts
    <2>. QED  BY <1>0, <2>1, <2>2, <2>3, IdleCellsSound
  <1>5. CASE StagedEpisode(s)
    <2>1. /\ spc[s] = "loop" /\ staging[next[s]] # {} /\ next[s] \in Episodes /\ Refuse(s)
          /\ UNCHANGED <<raw, staging, receipt, cell, launches, manual, faults, killed>>
      BY <1>5 DEF StagedEpisode, treeVars, cellVars
    <2>2. ~(faults = 0 /\ manual = 0)
      BY <2>1, NoResidue
    <2>. QED  BY <1>1, <2>1, <2>2 DEF Refuse
  <1>6. CASE LoopEnds(s)
    <2>1. /\ spc[s] = "loop" /\ next[s] \notin Episodes
          /\ UNCHANGED <<raw, staging, receipt, cell, launches, manual, faults, killed>>
      BY <1>6 DEF LoopEnds, treeVars, cellVars
    <2>2. records[s] = raw /\ records[s] # NoArtifacts /\ next[s] = EpisodeCount + 1
      BY <2>1, AllRecorded
    <2>3. CASE receipt # NoArtifacts
      <3>1. receipt = records[s]
        BY <1>0, <2>2, <2>3 DEF ReceiptBindsArtifacts
      <3>2. Stop(s) /\ refused' = refused
        BY <1>6, <2>3, <3>1 DEF LoopEnds
      <3>. QED  BY <1>1, <2>1, <3>2
    <2>4. CASE receipt = NoArtifacts
      <3>1. receipt # records[s]
        BY <2>2, <2>4
      <3>2. spc' = [spc EXCEPT ![s] = "link"] /\ UNCHANGED <<mode, next, records, lock, refused>>
        BY <1>6, <2>4, <3>1 DEF LoopEnds
      <3>3. SupervisorTypes' /\ LockOwned'
        BY <1>0, <2>1, <3>2 DEF SupervisorTypes, SupervisorPoints, LockOwned
      <3>4. RecordsTrue'
        BY <1>0, <2>1, <2>2, <2>4, <3>2 DEF SupervisorTypes, RecordsTrue
      <3>5. /\ \A r \in Supervisors \ {s} : spc'[r] = spc[r] /\ next'[r] = next[r]
            /\ ReceiptBindsArtifacts'
        BY <1>0, <2>1, <3>2 DEF SupervisorTypes, ReceiptBindsArtifacts
      <3>. QED  BY <1>0, <2>1, <3>2, <3>3, <3>4, <3>5, IdleCellsSound
    <2>. QED  BY <2>3, <2>4
  <1>7. CASE LinkReceipt(s)
    <2>1. spc[s] = "link" /\ receipt = NoArtifacts /\ next[s] \notin Episodes
      BY <1>0, <1>7, CollectionAssumption DEF LinkReceipt, RecordsTrue, Episodes
    <2>2. /\ receipt' = records[s] /\ Stop(s) /\ refused' = refused
          /\ UNCHANGED <<raw, staging, cell, launches, manual, faults, killed>>
      BY <1>7, <2>1 DEF LinkReceipt, cellVars
    <2>3. records[s] = raw /\ \A e \in Episodes : raw[e] # NoArtifact
      BY <2>1, AllRecorded
    <2>4. SupervisorTypes' /\ LockOwned' /\ RecordsTrue' /\ \A r \in Supervisors : spc'[r] = "off"
      BY <2>1, <2>2, StopSound
    <2>5. \A r \in Supervisors \ {s} : spc'[r] = spc[r] /\ next'[r] = next[r]
      BY <1>0, <2>2 DEF Stop, SupervisorTypes
    <2>6. ReceiptBindsArtifacts' /\ receipt' \in Artifacts
      BY <1>0, <2>2, <2>3 DEF ReceiptBindsArtifacts
    <2>. QED  BY <1>0, <2>1, <2>2, <2>4, <2>5, <2>6, IdleCellsSound
  <1>. QED  BY <1>2, <1>3, <1>4, <1>5, <1>6, <1>7

\* What explains a staging directory goes on to explain it.
LEMMA ResidueKept ==
    ASSUME ResidueOnlyFromDeath, UNCHANGED <<staging, killed>>,
           \A k \in Slots : cell[k].pc = "staged" =>
              cell'[k].pc = "staged" /\ cell'[k].episode = cell[k].episode /\ cell'[k].launch = cell[k].launch
    PROVE  ResidueOnlyFromDeath'
  <1>1. ASSUME NEW e \in Episodes, NEW l \in staging[e], <<e, l>> \notin killed
        PROVE  \E k \in Slots : cell'[k].pc = "staged" /\ cell'[k].episode = e /\ cell'[k].launch = l
    <2>1. PICK k \in Slots : cell[k].pc = "staged" /\ cell[k].episode = e /\ cell[k].launch = l
      BY <1>1 DEF ResidueOnlyFromDeath
    <2>. QED  BY <2>1
  <1>. QED  BY <1>1 DEF ResidueOnlyFromDeath

\* A launch fills a free slot with a new cell.
LEMMA LaunchStep ==
    ASSUME Inv, NEW k \in Slots, NEW e \in Episodes, NEW parent \in Supervisors \cup {NoSupervisor},
           Launch(k, e, parent)
    PROVE  /\ cell[k].pc = "off" /\ cell[k].parent = NoSupervisor
           /\ cell' \in [Slots -> Cells] /\ launches' \in Artifacts
           /\ \A j \in Slots \ {k} : cell'[j] = cell[j]
           /\ cell'[k].pc = "checking" /\ cell'[k].episode = e /\ cell'[k].parent = parent
           /\ cell'[k].launch # NoArtifact
  <1> DEFINE new == [pc |-> "checking", episode |-> e, launch |-> launches[e] + 1, parent |-> parent]
  <1>1. launches \in [Episodes -> Nat] /\ cell \in [Slots -> Cells]
    BY DEF Inv, TypeOK, Artifacts, Cells
  <1>2. new \in Cells /\ new.launch # NoArtifact
    BY <1>1 DEF Cells, CellPoints, LivePoints, NoArtifact
  <1>3. cell[k].pc = "off" /\ cell' = [cell EXCEPT ![k] = new] /\ launches' = [launches EXCEPT ![e] = @ + 1]
    BY DEF Launch
  <1>4. new.pc = "checking" /\ new.episode = e /\ new.parent = parent
    OBVIOUS
  <1> HIDE DEF new
  <1>5. launches' \in Artifacts
    BY <1>1, <1>3 DEF Artifacts
  <1>6. cell[k].parent = NoSupervisor
    BY <1>3 DEF Inv, CollectionInvariant, CellsParented
  <1>. QED  BY <1>1, <1>2, <1>3, <1>4, <1>5, <1>6

\* A new cell finds its slot free; a supervisor that launches it has no other.
LEMMA LaunchSound ==
    ASSUME Inv, NEW k \in Slots,
           \/ \E e \in Episodes : ManualLaunch(k, e)
           \/ \E s \in Supervisors : LaunchCell(s, k)
    PROVE  Inv'
  <1>0. /\ SupervisorTypes /\ TypeOK /\ LockOwned /\ RecordsTrue /\ CellsParented /\ QuietRun
        /\ ReceiptBindsArtifacts /\ ResidueOnlyFromDeath /\ cell \in [Slots -> Cells]
    BY DEF Inv, TypeOK, SupervisorTypes, CollectionInvariant, Cells
  <1>1. ASSUME NEW e \in Episodes, ManualLaunch(k, e)  PROVE Inv'
    <2>1. /\ manual' = manual + 1 /\ manual' \in 0..MaxManual
          /\ Launch(k, e, NoSupervisor)
          /\ UNCHANGED <<raw, staging, receipt, spc, mode, next, records, lock, faults, killed, refused>>
      BY <1>0, <1>1, CollectionAssumption DEF ManualLaunch, treeVars, supervisorVars, TypeOK
    <2>2. /\ cell[k].pc = "off" /\ cell' \in [Slots -> Cells] /\ launches' \in Artifacts
          /\ \A j \in Slots \ {k} : cell'[j] = cell[j]
          /\ cell'[k].pc = "checking" /\ cell'[k].episode = e /\ cell'[k].parent = NoSupervisor
          /\ cell'[k].launch # NoArtifact
      BY <2>1, LaunchStep
    <2>3. TypeOK'
      BY <1>0, <2>1, <2>2 DEF TypeOK, Cells
    <2>4. LockOwned' /\ RecordsTrue' /\ ReceiptBindsArtifacts'
      BY <1>0, <2>1 DEF LockOwned, RecordsTrue, ReceiptBindsArtifacts
    <2>5. CellsParented'
      BY <1>0, <2>1, <2>2 DEF CellsParented
    <2>6. ResidueOnlyFromDeath'
      BY <1>0, <2>1, <2>2, ResidueKept
    <2>7. QuietRun'
      BY <1>0, <2>1 DEF QuietRun, TypeOK
    <2>. QED  BY <2>3, <2>4, <2>5, <2>6, <2>7 DEF Inv, CollectionInvariant
  <1>2. ASSUME NEW s \in Supervisors, LaunchCell(s, k)  PROVE Inv'
    <2>1. /\ spc[s] = "loop" /\ next[s] \in Episodes /\ raw[next[s]] = NoArtifact
          /\ Launch(k, next[s], s) /\ spc' = [spc EXCEPT ![s] = "wait"]
          /\ UNCHANGED <<raw, staging, receipt, mode, next, records, lock, manual, faults, killed, refused>>
      BY <1>2 DEF LaunchCell, treeVars
    <2>2. /\ cell[k].pc = "off" /\ cell' \in [Slots -> Cells] /\ launches' \in Artifacts
          /\ \A j \in Slots \ {k} : cell'[j] = cell[j]
          /\ cell'[k].pc = "checking" /\ cell'[k].episode = next[s] /\ cell'[k].parent = s
          /\ cell'[k].launch # NoArtifact
      BY <2>1, LaunchStep
    <2>3. \A j \in Slots : cell[j].parent = NoSupervisor
      BY <2>1, Alone
    <2>4. TypeOK'
      BY <1>0, <2>1, <2>2 DEF TypeOK, Cells, SupervisorPoints
    <2>5. LockOwned' /\ ReceiptBindsArtifacts'
      BY <1>0, <2>1 DEF LockOwned, ReceiptBindsArtifacts, TypeOK
    <2>6. RecordsTrue'
      BY <1>0, <2>1 DEF RecordsTrue, TypeOK
    <2>7. CellsParented'
      BY <1>0, <2>1, <2>2, <2>3, CollectionAssumption DEF CellsParented, TypeOK
    <2>8. ResidueOnlyFromDeath'
      BY <1>0, <2>1, <2>2, ResidueKept
    <2>9. QuietRun'
      BY <1>0, <2>1, <2>2, CollectionAssumption DEF QuietRun
    <2>. QED  BY <2>4, <2>5, <2>6, <2>7, <2>8, <2>9 DEF Inv, CollectionInvariant
  <1>. QED  BY <1>1, <1>2

\* The end of a wait: the cell exits, or the supervisor leaves it behind.
LEMMA WaitSound ==
    ASSUME Inv, NEW s \in Supervisors,
           \/ SupervisorKilled(s)
           \/ \E k \in Slots : CellReaped(s, k) \/ SupervisorInterrupted(s, k)
    PROVE  Inv'
  <1>0. /\ SupervisorTypes /\ TypeOK /\ LockOwned /\ RecordsTrue /\ CellsParented /\ QuietRun
        /\ ReceiptBindsArtifacts /\ ResidueOnlyFromDeath /\ cell \in [Slots -> Cells] /\ NoCell \in Cells
    BY CollectionAssumption
    DEF Inv, TypeOK, SupervisorTypes, CollectionInvariant, Cells, NoCell, CellPoints, Episodes
  <1>00. NoCell.pc = "off" /\ NoCell.parent = NoSupervisor
    BY DEF NoCell
  <1>1. ASSUME NEW k \in Slots, CellReaped(s, k)  PROVE Inv'
    <2>1. /\ spc[s] = "wait" /\ cell[k].parent = s /\ cell[k].pc \in {"ok", "failed"}
          /\ cell' = [cell EXCEPT ![k] = NoCell]
          /\ IF cell[k].pc = "ok" THEN Record(s) /\ UNCHANGED <<mode, lock>> ELSE Stop(s)
          /\ UNCHANGED <<raw, staging, receipt, launches, manual, faults, killed, refused>>
      BY <1>1 DEF CellReaped, treeVars
    <2>2. /\ next[s] \in Episodes /\ cell[k].episode = next[s] /\ s # NoSupervisor
          /\ cell[k].pc = "ok" => raw[next[s]] # NoArtifact
      BY <1>0, <2>1, CollectionAssumption DEF CellsParented, RecordsTrue
    <2>3. /\ SupervisorTypes' /\ LockOwned' /\ RecordsTrue'
      BY <2>1, <2>2, RecordSound, StopSound
    <2>4. /\ cell' \in [Slots -> Cells] /\ cell'[k] = NoCell
          /\ \A j \in Slots \ {k} : cell'[j] = cell[j] /\ cell'[j].parent = NoSupervisor
      BY <1>0, <2>1, <2>2, Alone DEF CellsParented
    <2> HIDE DEF NoCell
    <2>5. TypeOK'
      BY <1>0, <2>1, <2>3, <2>4 DEF TypeOK, SupervisorTypes, Cells
    <2>6. CellsParented'
      BY <1>0, <1>00, <2>1, <2>4 DEF CellsParented
    <2>7. ResidueOnlyFromDeath' /\ ReceiptBindsArtifacts'
      BY <1>0, <2>1, <2>4 DEF ResidueOnlyFromDeath, ReceiptBindsArtifacts
    <2>8. QuietRun'
      BY <1>0, <1>00, <2>1, <2>4 DEF QuietRun
    <2>. QED  BY <2>3, <2>5, <2>6, <2>7, <2>8 DEF Inv, CollectionInvariant
  <1>2. CASE SupervisorKilled(s)
    <2>1. /\ spc[s] # "off" /\ Stop(s) /\ faults' = faults + 1 /\ faults' \in 0..MaxFaults
          /\ cell' = [k \in Slots |->
                  IF cell[k].parent # s THEN cell[k]
                  ELSE IF cell[k].pc \in LivePoints THEN [cell[k] EXCEPT !.parent = NoSupervisor]
                  ELSE NoCell]
          /\ UNCHANGED <<raw, staging, receipt, launches, manual, killed, refused>>
      BY <1>0, <1>2, CollectionAssumption DEF SupervisorKilled, Spend, treeVars, TypeOK
    <2>2. SupervisorTypes' /\ LockOwned' /\ RecordsTrue'
      BY <2>1, StopSound
    <2>3. ASSUME NEW k \in Slots
          PROVE  /\ cell'[k] \in Cells /\ cell'[k].parent = NoSupervisor
                 /\ \/ cell'[k] = NoCell /\ cell[k].pc # "staged"
                    \/ /\ cell'[k].pc = cell[k].pc /\ cell'[k].launch = cell[k].launch
                       /\ cell'[k].episode = cell[k].episode
      <3>1. CASE cell[k].parent # s
        BY <1>0, <2>1, <3>1, Alone
      <3>2. CASE cell[k].parent = s /\ cell[k].pc \in LivePoints
        <4>1. cell'[k] = [cell[k] EXCEPT !.parent = NoSupervisor] /\ cell[k] \in Cells
          BY <1>0, <2>1, <3>2
        <4>. QED  BY <4>1 DEF Cells
      <3>3. CASE cell[k].parent = s /\ cell[k].pc \notin LivePoints
        BY <1>0, <1>00, <2>1, <3>3 DEF LivePoints
      <3>. QED  BY <3>1, <3>2, <3>3
    <2>4. cell' \in [Slots -> Cells]
      BY <2>1, <2>3
    <2>5. TypeOK'
      BY <1>0, <2>1, <2>2, <2>4 DEF TypeOK, SupervisorTypes, Cells
    <2>6. CellsParented'
      <3>1. ASSUME NEW k \in Slots
            PROVE  /\ cell'[k].parent = NoSupervisor
                   /\ cell'[k].pc # "off" => cell'[k].launch # NoArtifact
                   /\ cell'[k].pc \in {"published", "ok"} => raw'[cell'[k].episode] # NoArtifact
        <4>1. CASE cell'[k] = NoCell
          BY <1>00, <2>3, <4>1
        <4>2. CASE cell'[k] # NoCell
          BY <1>0, <2>1, <2>3, <4>2 DEF CellsParented
        <4>. QED  BY <4>1, <4>2
      <3>. QED  BY <3>1 DEF CellsParented
    <2>7. ResidueOnlyFromDeath'
      BY <1>0, <1>00, <2>1, <2>3, ResidueKept
    <2>9. ReceiptBindsArtifacts'
      BY <1>0, <2>1 DEF ReceiptBindsArtifacts
    <2>8. QuietRun'
      BY <1>0, <2>1 DEF QuietRun, TypeOK
    <2>. QED  BY <2>2, <2>5, <2>6, <2>7, <2>8, <2>9 DEF Inv, CollectionInvariant
  <1>3. ASSUME NEW k \in Slots, SupervisorInterrupted(s, k)  PROVE Inv'
    <2> DEFINE e == cell[k].episode
    <2>1. /\ spc[s] = "wait" /\ cell[k].parent = s
          /\ Stop(s) /\ faults' = faults + 1 /\ faults' \in 0..MaxFaults
          /\ cell' = [cell EXCEPT ![k] = NoCell]
          /\ \/ staging' = [staging EXCEPT ![e] = @ \ {cell[k].launch}] /\ killed' = killed
             \/ killed' = killed \cup {<<e, cell[k].launch>>} /\ staging' = staging
          /\ UNCHANGED <<raw, receipt, launches, manual, refused>>
      BY <1>0, <1>3, CollectionAssumption DEF SupervisorInterrupted, Spend, TypeOK
    <2>2. SupervisorTypes' /\ LockOwned' /\ RecordsTrue'
      BY <2>1, StopSound
    <2>3. e \in Episodes /\ cell[k].launch \in Nat /\ staging \in [Episodes -> SUBSET Nat]
      BY <1>0 DEF Cells, TypeOK
    <2>4. /\ cell' \in [Slots -> Cells] /\ cell'[k] = NoCell
          /\ \A j \in Slots \ {k} : cell'[j] = cell[j] /\ cell'[j].parent = NoSupervisor
      BY <1>0, <2>1, Alone DEF CellsParented
    <2> HIDE DEF e
    <2>5. staging' \in [Episodes -> SUBSET Nat] /\ killed' \subseteq Episodes \X Nat
      BY <1>0, <2>1, <2>3 DEF TypeOK
    <2>6. TypeOK'
      BY <1>0, <2>1, <2>2, <2>4, <2>5 DEF TypeOK, SupervisorTypes, Cells
    <2>7. CellsParented'
      BY <1>0, <1>00, <2>1, <2>4 DEF CellsParented
    <2>8. ResidueOnlyFromDeath'
      <3>1. ASSUME NEW d \in Episodes, NEW l \in staging'[d]
            PROVE  <<d, l>> \in killed' \/ \E j \in Slots : cell'[j].pc = "staged" /\ cell'[j].episode = d
                                                            /\ cell'[j].launch = l
        <4>1. l \in staging[d] /\ (<<d, l>> \in killed => <<d, l>> \in killed')
          BY <2>1, <2>3, <3>1
        <4>2. CASE <<d, l>> \in killed
          BY <4>1, <4>2
        <4>3. CASE <<d, l>> \notin killed
          <5>1. PICK j \in Slots : cell[j].pc = "staged" /\ cell[j].episode = d /\ cell[j].launch = l
            BY <1>0, <3>1, <4>1, <4>3 DEF ResidueOnlyFromDeath
          <5>2. CASE j = k
            BY <2>1, <2>3, <3>1, <5>1, <5>2 DEF e
          <5>3. CASE j # k
            BY <2>4, <5>1, <5>3
          <5>. QED  BY <5>2, <5>3
        <4>. QED  BY <4>2, <4>3
      <3>. QED  BY <3>1 DEF ResidueOnlyFromDeath
    <2>9. QuietRun' /\ ReceiptBindsArtifacts'
      BY <1>0, <2>1 DEF QuietRun, ReceiptBindsArtifacts, TypeOK
    <2>. QED  BY <2>2, <2>6, <2>7, <2>8, <2>9 DEF Inv, CollectionInvariant
  <1>. QED  BY <1>1, <1>2, <1>3

-----------------------------------------------------------------------------
(* Theorems                                                                *)

\* The inductive invariant holds at first.
LEMMA InvInit == Init => Inv
  <1> SUFFICES ASSUME Init  PROVE Inv
    OBVIOUS
  <1>1. NoCell \in Cells
    BY CollectionAssumption DEF NoCell, Cells, CellPoints, Episodes
  <1>2. NoArtifacts \in Artifacts
    BY DEF NoArtifacts, Artifacts, NoArtifact
  <1>3. refused \in BOOLEAN
    BY Zenon DEF Init
  <1>4. TypeOK
    BY <1>1, <1>2, <1>3, CollectionAssumption DEF Init, TypeOK, Cells, Artifacts, SupervisorPoints, Modes
  <1>5. LockOwned
    BY CollectionAssumption DEF Init, LockOwned
  <1>6. RecordsTrue
    BY DEF Init, RecordsTrue, Episodes
  <1>7. \A k \in Slots : cell[k].pc = "off" /\ cell[k].parent = NoSupervisor
    BY DEF Init, NoCell
  <1>8. CellsParented /\ QuietRun
    BY <1>7 DEF Init, CellsParented, QuietRun
  <1>9. ReceiptBindsArtifacts /\ ResidueOnlyFromDeath
    BY DEF Init, ReceiptBindsArtifacts, ResidueOnlyFromDeath
  <1>. QED  BY <1>4, <1>5, <1>6, <1>8, <1>9 DEF Inv, CollectionInvariant

\* Every step preserves it.
LEMMA InvStep == Inv /\ [Next]_vars => Inv'
  <1> SUFFICES ASSUME Inv, [Next]_vars  PROVE Inv'
    OBVIOUS
  <1>1. ASSUME NEW k \in Slots, CellProgress(k) \/ CellFails(k) \/ CellKilled(k)  PROVE Inv'
    BY <1>1, CellSound
  <1>2. ASSUME NEW k \in Slots, \E e \in Episodes : ManualLaunch(k, e)  PROVE Inv'
    BY <1>2, LaunchSound
  <1>3. ASSUME NEW s \in Supervisors,
               \/ \E m \in Modes : SupervisorStart(s, m)
               \/ Scan(s) \/ ResumeValidated(s) \/ StagedEpisode(s) \/ LoopEnds(s) \/ LinkReceipt(s)
        PROVE  Inv'
    BY <1>3, SupervisorAloneSound
  <1>4. ASSUME NEW s \in Supervisors, NEW k \in Slots, LaunchCell(s, k)  PROVE Inv'
    BY <1>4, LaunchSound
  <1>5. ASSUME NEW s \in Supervisors,
               \/ SupervisorKilled(s)
               \/ \E k \in Slots : CellReaped(s, k) \/ SupervisorInterrupted(s, k)
        PROVE  Inv'
    BY <1>5, WaitSound
  <1>6. CASE UNCHANGED vars
    BY <1>6 DEF vars, Inv, TypeOK, CollectionInvariant, LockOwned, RecordsTrue, CellsParented, QuietRun,
       ReceiptBindsArtifacts, ResidueOnlyFromDeath
  <1>. QED
    BY <1>1, <1>2, <1>3, <1>4, <1>5, <1>6 DEF Next, SupervisorProgress

\* The inductive invariant that the properties below follow from.
THEOREM CollectionInvariantHolds == Spec => []Inv
  <1>. QED  BY InvInit, InvStep, PTL DEF Spec

\* The types of the collection's state, for every manifest and every bound.
THEOREM CollectionTypesHold == Spec => []TypeOK
  <1>1. Inv => TypeOK
    BY DEF Inv
  <1>. QED  BY <1>1, CollectionInvariantHolds, PTL

\* The completion receipt names the artifact of every episode, and the very one
\* that is there, whatever orphans and restarted supervisors collected it.
THEOREM ReceiptsBind == Spec => []ReceiptBindsArtifacts
  <1>1. Inv => ReceiptBindsArtifacts
    BY DEF Inv, CollectionInvariant
  <1>. QED  BY <1>1, CollectionInvariantHolds, PTL

\* A staging directory that no cell is at was left by a cell that was killed:
\* errors, interrupts and lost races between cells of one episode clean up.
THEOREM ResidueExplained == Spec => []ResidueOnlyFromDeath
  <1>1. Inv => ResidueOnlyFromDeath
    BY DEF Inv, CollectionInvariant
  <1>. QED  BY <1>1, CollectionInvariantHolds, PTL

\* Supervisors that plan and collect in any order never make one another, or a
\* cell, refuse anything: that takes a fault or a launch by hand.
THEOREM RefusalsExplained == Spec => []NoSpuriousRefusal
  <1>1. Inv => NoSpuriousRefusal
    BY DEF Inv, CollectionInvariant, QuietRun, NoSpuriousRefusal, TypeOK
  <1>. QED  BY <1>1, CollectionInvariantHolds, PTL

\* The first artifact published for an episode stays, whatever cells run for it
\* at once.
THEOREM ArtifactsStay == Spec => ArtifactsImmutable
  <1>1. ASSUME Inv, [Next]_vars
        PROVE  [\A e \in Episodes : raw[e] # NoArtifact => raw'[e] = raw[e]]_vars
    <2>1. CASE \E k \in Slots : Publish(k)
      BY <1>1, <2>1 DEF Publish, Inv, TypeOK, Artifacts
    <2>2. CASE ~ \E k \in Slots : Publish(k)
      <3>1. raw' = raw
        BY <1>1, <2>2 DEF Next, CellProgress, CellCheck, RolloutCheck, StageArtifact, CellDone, CellFails,
           CellKilled, ManualLaunch, SupervisorStart, SupervisorProgress, Scan, ResumeValidated, StagedEpisode,
           LaunchCell, CellReaped, LoopEnds, LinkReceipt, SupervisorKilled, SupervisorInterrupted, treeVars,
           vars
      <3>. QED  BY <3>1
    <2>. QED  BY <2>1, <2>2
  <1>. QED  BY <1>1, CollectionInvariantHolds, PTL DEF Spec, ArtifactsImmutable

-----------------------------------------------------------------------------
(* The collection implements the ledger                                    *)

\* A publication is a ledger's, of an episode that was missing in a collection that
\* was open.
LEMMA PublishImplements ==
  ASSUME Inv, NEW k \in Slots, Publish(k)
  PROVE  [Ledger!LedgerNext]_(Ledger!ledgerVars)
  <1> DEFINE e == cell[k].episode
  <1>1. e \in Episodes /\ cell[k].launch \in Nat \ {NoArtifact}
    BY DEF Publish, Inv, TypeOK, CollectionInvariant, CellsParented
  <1>2. UNCHANGED LedgerPhase
    BY DEF Publish, LedgerPhase
  <1>3. CASE raw[e] = NoArtifact
    <2>1. LedgerPhase = "open"
      BY <1>1, <1>3 DEF LedgerPhase, Inv, CollectionInvariant, ReceiptBindsArtifacts
    <2>2. raw' = [raw EXCEPT ![e] = cell[k].launch]
      BY <1>3 DEF Publish
    <2>. QED  BY <1>1, <1>2, <1>3, <2>1, <2>2 DEF Ledger!PublishScore, Ledger!LedgerNext
  <1>4. CASE raw[e] # NoArtifact
    BY <1>2, <1>4 DEF Publish, Ledger!ledgerVars
  <1>. QED  BY <1>3, <1>4

\* The link of the receipt closes the ledger over a full set of artifacts.
LEMMA LinkImplements ==
  ASSUME Inv, Inv', NEW s \in Supervisors, LinkReceipt(s)
  PROVE  [Ledger!LedgerNext]_(Ledger!ledgerVars)
  <1>1. UNCHANGED raw
    BY DEF LinkReceipt
  <1>2. CASE receipt' = receipt
    BY <1>1, <1>2 DEF LedgerPhase, Ledger!ledgerVars
  <1>3. CASE receipt' # receipt
    <2>1. receipt = NoArtifacts
      BY <1>3 DEF LinkReceipt
    <2>2. \A e \in Episodes : raw[e] # NoArtifact
      BY <1>1, <1>3, <2>1 DEF Inv, CollectionInvariant, ReceiptBindsArtifacts
    <2>3. LedgerPhase = "open" /\ LedgerPhase' = "closed"
      BY <1>3, <2>1 DEF LedgerPhase
    <2>. QED  BY <1>1, <2>2, <2>3 DEF Ledger!CloseCohort, Ledger!LedgerNext
  <1>. QED  BY <1>2, <1>3

\* The collection implements the ledger: each episode's artifact is published once, by
\* whatever launch, and the collection closes only over all of them.
THEOREM CollectionImplementsLedger == Spec => ImplementsLedger
  <1>1. Init => Ledger!LedgerInit
    BY DEF Init, Ledger!LedgerInit, NoArtifacts, LedgerPhase
  <1>2. ASSUME Inv, Inv', [Next]_vars
        PROVE  [Ledger!LedgerNext]_(Ledger!ledgerVars)
    <2>1. CASE \E k \in Slots : Publish(k)
      BY <1>2, <2>1, PublishImplements
    <2>2. CASE \E s \in Supervisors : LinkReceipt(s)
      BY <1>2, <2>2, LinkImplements
    <2>3. CASE /\ ~ \E k \in Slots : Publish(k)
               /\ ~ \E s \in Supervisors : LinkReceipt(s)
      <3>1. UNCHANGED <<raw, receipt>>
        BY <1>2, <2>3 DEF Next, CellProgress, CellCheck, RolloutCheck, StageArtifact, CellDone, CellFails,
           CellKilled, ManualLaunch, SupervisorStart, SupervisorProgress, Scan, ResumeValidated, StagedEpisode,
           LaunchCell, CellReaped, LoopEnds, SupervisorKilled, SupervisorInterrupted, treeVars, vars
      <3>. QED  BY <3>1 DEF LedgerPhase, Ledger!ledgerVars
    <2>. QED  BY <2>1, <2>2, <2>3
  <1>. QED
    BY <1>1, <1>2, CollectionInvariantHolds, PTL DEF Spec, ImplementsLedger, Ledger!LedgerSpec

=============================================================================
