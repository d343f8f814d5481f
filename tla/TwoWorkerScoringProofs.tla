------------------------ MODULE TwoWorkerScoringProofs ------------------------
(***************************************************************************)
(* Proofs about TwoWorkerScoring, for any number of coordinators, episodes *)
(* and attempts and any number and placement of faults: type correctness,  *)
(* the exclusion of concurrent runs by the inherited flock descriptor, the *)
(* agreement of authoritative sidecars with their receipts, and then       *)
(* recovery: no score is lost or scored twice, only crashes make a program *)
(* raise, the closed cohort binds the authoritative sidecars, and the      *)
(* continuation implements the scoring ledger.                             *)
(*                                                                         *)
(* Recovery rests on RecoveryInvariant: what is on disk of one episode     *)
(* (EpisodeFiles), and what each process knows of the disk from where it   *)
(* is (WorkerKnows, CoordinatorFiles).  A step of a worker touches the     *)
(* files of its own episode only, and by EpisodeExclusion no other live    *)
(* worker is at that episode, so what the others know is undisturbed.      *)
(***************************************************************************)
EXTENDS TwoWorkerScoring, FiniteSetTheorems, TLAPS

\* The two shards split the plan's missing episodes, and a worker's walk
\* through its shard stays in it.
LEMMA ShardFacts ==
    /\ \A w \in Workers : FirstOf(w) \in Shard(w)
    /\ \A w \in Workers : \A e \in Shard(w) : e + 2 \in Episodes => e + 2 \in Shard(w)
    /\ \A v, w \in Workers : v # w => Shard(v) \cap Shard(w) = {}
    /\ \A w \in Workers : Shard(w) \subseteq Episodes
  BY PlanAssumption DEF Shard, Owner, FirstOf, Workers, Episodes

\* Updating one worker's, or one attempt's, entry.
LEMMA NestedUpdate ==
    ASSUME NEW S, NEW T, NEW V, NEW f \in [S -> [T -> V]], NEW x \in S, NEW y, NEW v \in V
    PROVE  [f EXCEPT ![x][y] = v] \in [S -> [T -> V]]
  OBVIOUS

-----------------------------------------------------------------------------
(* Type correctness                                                        *)

\* The initial state is well typed.
LEMMA TypeInit == Init => TypeOK
  <1> SUFFICES ASSUME Init PROVE TypeOK
    OBVIOUS
  <1>1. \A w \in Workers : FirstOf(w) \in Episodes
    BY ShardFacts
  <1>2. /\ ProcessTypeOK
        /\ FileTypeOK
    BY <1>1, PlanAssumption DEF Init, ProcessTypeOK, FileTypeOK, Nowhere, Unfinished, Receipts,
       Absent, Torn, Attempts, CoordinatorPoints, WorkerPoints, FinalizerPoints, TreeStates, Roles
  <1>. QED
    BY <1>2, PlanAssumption DEF Init, TypeOK

\* A worker that moves to another program point.
LEMMA WorkerGoToType ==
    ASSUME ProcessTypeOK, NEW c \in Coordinators, NEW w \in Workers,
           NEW point \in WorkerPoints, WorkerGoTo(c, w, point)
    PROVE  ProcessTypeOK'
  BY DEF ProcessTypeOK, WorkerGoTo, GoTo

\* A worker that ends.
LEMMA WorkerExitType ==
    ASSUME ProcessTypeOK, NEW c \in Coordinators, NEW w \in Workers,
           NEW point \in WorkerPoints, WorkerExit(c, w, point)
    PROVE  ProcessTypeOK'
  <1>1. /\ FirstOf(w) \in Episodes
        /\ Absent \in {Absent} \cup Attempts
    BY ShardFacts
  <1>2. workerLock' \in [Workers -> Coordinators \cup {NoCoordinator}]
    BY DEF ProcessTypeOK, WorkerExit
  <1>. QED
    BY <1>1, <1>2 DEF ProcessTypeOK, WorkerExit, GoTo

\* A worker that raises.
LEMMA WorkerRaiseType ==
    ASSUME TypeOK, NEW c \in Coordinators, NEW w \in Workers, NEW fault \in Faults,
           WorkerRaise(c, w, fault), budget' \in 0..MaxFaults
    PROVE  TypeOK'
  <1>1. ProcessTypeOK'
    BY WorkerExitType DEF WorkerRaise, TypeOK, WorkerPoints
  <1>2. FileTypeOK'
    BY DEF WorkerRaise, TypeOK, FileTypeOK, fileVars
  <1>. QED
    BY <1>1, <1>2 DEF TypeOK, WorkerRaise

\* A worker that goes on to its next episode.
LEMMA AfterEpisodeType ==
    ASSUME ProcessTypeOK, NEW c \in Coordinators, NEW w \in Workers, AfterEpisode(c, w),
           UNCHANGED <<cpc, fpc, mine, lockFds, workerLock, finalized>>
    PROVE  ProcessTypeOK'
  <1>1. cur' \in [Coordinators -> [Workers -> Episodes]]
    <2>1. CASE cur[c][w] + 2 \in Episodes /\ cur' = [cur EXCEPT ![c][w] = cur[c][w] + 2]
      BY <2>1, NestedUpdate DEF ProcessTypeOK
    <2>2. CASE UNCHANGED cur
      BY <2>2 DEF ProcessTypeOK
    <2>. QED  BY <2>1, <2>2 DEF AfterEpisode
  <1>2. PICK point \in {"next", "summarize"} : GoTo(c, w, point)
    BY DEF AfterEpisode
  <1>3. wpc' \in [Coordinators -> [Workers -> WorkerPoints]]
    BY <1>2, NestedUpdate DEF ProcessTypeOK, GoTo, WorkerPoints, WorkerLivePoints
  <1>. QED  BY <1>1, <1>3 DEF ProcessTypeOK

\* The end of a coordinator.
LEMMA CoordinatorExitType ==
    ASSUME ProcessTypeOK, NEW c \in Coordinators, CoordinatorExit(c)
    PROVE  ProcessTypeOK'
  BY DEF ProcessTypeOK, CoordinatorExit, CoordinatorGoTo, CoordinatorPoints, Nowhere, Receipts

LEMMA CoordinatorRaiseType ==
    ASSUME TypeOK, NEW c \in Coordinators, NEW fault \in Faults,
           CoordinatorRaise(c, fault), UNCHANGED budget
    PROVE  TypeOK'
  <1>1. ProcessTypeOK'
    BY CoordinatorExitType DEF CoordinatorRaise, TypeOK
  <1>. QED
    BY <1>1 DEF TypeOK, FileTypeOK, CoordinatorRaise, fileVars

LEMMA CoordinatorStepType ==
    ASSUME ProcessTypeOK, NEW c \in Coordinators, NEW point \in CoordinatorPoints,
           CoordinatorStep(c, point)
    PROVE  ProcessTypeOK'
  BY DEF ProcessTypeOK, CoordinatorStep, CoordinatorGoTo

LEMMA FinalizerExitType ==
    ASSUME ProcessTypeOK, NEW c \in Coordinators, NEW point \in FinalizerPoints,
           FinalizerExit(c, point), finalized' \in [Coordinators -> [Episodes -> Receipts]]
    PROVE  ProcessTypeOK'
  BY DEF ProcessTypeOK, FinalizerExit

\* Every step of a worker preserves the types.
LEMMA TypeWorker ==
    ASSUME TypeOK, NEW c \in Coordinators, NEW w \in Workers, WorkerProgress(c, w)
    PROVE  TypeOK'
  <1> USE DEF WorkerPoints, WorkerLivePoints
  <1>0. /\ ProcessTypeOK /\ FileTypeOK
        /\ UNCHANGED budget => budget' \in 0..MaxFaults
        /\ cur[c][w] \in Episodes
        /\ mine[c][w] \in {Absent} \cup Attempts
    BY DEF TypeOK, ProcessTypeOK
  <1>1. CASE WorkerArm(c, w)
    <2>1. CASE cpc[c] # "off"
      <3>1. ProcessTypeOK'
        BY <1>0, <1>1, <2>1, WorkerGoToType DEF WorkerArm
      <3>. QED  BY <1>1, <2>1, <3>1 DEF WorkerArm, TypeOK, fileVars, FileTypeOK
    <2>2. CASE cpc[c] = "off"
      BY <1>0, <1>1, <2>2, WorkerRaiseType DEF WorkerArm, Faults
    <2>. QED BY <2>1, <2>2
  <1>2. CASE WorkerLock(c, w)
    <2>1. CASE workerLock[w] = NoCoordinator
      <3>1. FirstOf(w) \in Episodes
        BY ShardFacts
      <3>2. workerLock' \in [Workers -> Coordinators \cup {NoCoordinator}]
        BY <1>0, <1>2, <2>1 DEF WorkerLock, ProcessTypeOK
      <3>3. cur' \in [Coordinators -> [Workers -> Episodes]]
        <4>1. cur' = [cur EXCEPT ![c][w] = FirstOf(w)]
          BY <1>2, <2>1 DEF WorkerLock
        <4>. QED  BY <1>0, <3>1, <4>1, NestedUpdate DEF ProcessTypeOK
      <3>4. wpc' \in [Coordinators -> [Workers -> WorkerPoints]]
        <4>1. wpc' = [wpc EXCEPT ![c][w] = "next"]
          BY <1>2, <2>1 DEF WorkerLock, GoTo
        <4>. QED  BY <1>0, <4>1, NestedUpdate DEF ProcessTypeOK
      <3>5. ProcessTypeOK'
        BY <1>0, <1>2, <2>1, <3>2, <3>3, <3>4 DEF WorkerLock, ProcessTypeOK
      <3>. QED  BY <1>2, <2>1, <3>5 DEF WorkerLock, TypeOK, fileVars, FileTypeOK
    <2>2. CASE workerLock[w] # NoCoordinator
      BY <1>0, <1>2, <2>2, WorkerRaiseType DEF WorkerLock, Faults
    <2>. QED BY <2>1, <2>2
  <1>3. CASE WorkerSkip(c, w)
    BY <1>0, <1>3, AfterEpisodeType DEF WorkerSkip, TypeOK, FileTypeOK, fileVars
  <1>4. CASE WorkerReconcile(c, w) \/ WorkerScore(c, w)
    <2>1. ProcessTypeOK'
      BY <1>0, <1>4, WorkerGoToType DEF WorkerReconcile, WorkerScore
    <2>. QED  BY <2>1, <1>4 DEF WorkerReconcile, WorkerScore, TypeOK, FileTypeOK, fileVars
  <1>5. CASE WorkerAdopt(c, w)
    <2>1. Staged(cur[c][w]) # {}
      BY <1>5 DEF WorkerAdopt, Reconcile
    <2>2. (CHOOSE a \in Staged(cur[c][w]) : TRUE) \in Attempts
      BY <2>1 DEF Staged
    <2>3. ProcessTypeOK'
      BY <1>0, <1>5, <2>2 DEF WorkerAdopt, ProcessTypeOK, GoTo
    <2>. QED  BY <2>3, <1>5 DEF WorkerAdopt, TypeOK, FileTypeOK, fileVars
  <1>6. CASE WorkerRefuse(c, w)
    BY <1>0, <1>6, WorkerRaiseType DEF WorkerRefuse
  <1>7. ASSUME NEW a \in Attempts, RetireOpen(c, w, a)  PROVE TypeOK'
    <2>1. CASE abandoned[cur[c][w]][a] = "absent"
      <3>1. ProcessTypeOK'
        BY <1>0, <1>7, <2>1, WorkerGoToType DEF RetireOpen
      <3>2. abandoned' \in [Episodes -> [Attempts -> TreeStates \cup {"torn"}]]
        <4>1. abandoned' = [abandoned EXCEPT ![cur[c][w]][a] = "torn"]
          BY <1>7, <2>1 DEF RetireOpen
        <4>. QED  BY <1>0, <4>1, NestedUpdate DEF FileTypeOK
      <3>. QED  BY <1>7, <2>1, <3>1, <3>2 DEF RetireOpen, TypeOK, FileTypeOK, promotionVars, closingVars
    <2>2. CASE abandoned[cur[c][w]][a] # "absent"
      BY <1>0, <1>7, <2>2, WorkerRaiseType DEF RetireOpen, Faults
    <2>. QED BY <2>1, <2>2
  <1>8. ASSUME NEW a \in Attempts, RetireWrite(c, w, a)  PROVE TypeOK'
    <2>1. ProcessTypeOK'
      BY <1>0, <1>8, WorkerGoToType DEF RetireWrite
    <2>2. cur[c][w] \in Episodes
      BY <1>0 DEF ProcessTypeOK
    <2>3. abandoned' \in [Episodes -> [Attempts -> TreeStates \cup {"torn"}]]
      BY <1>0, <1>8, <2>2 DEF RetireWrite, FileTypeOK
    <2>. QED  BY <1>8, <2>1, <2>3 DEF RetireWrite, TypeOK, FileTypeOK, promotionVars, closingVars
  <1>9. ASSUME NEW a \in Attempts, OpenAttempt(c, w, a)  PROVE TypeOK'
    <2>1. ProcessTypeOK'
      BY <1>0, <1>9 DEF OpenAttempt, ProcessTypeOK, GoTo
    <2>2. tree' \in [Episodes -> [Attempts -> TreeStates]]
      BY <1>0, <1>9 DEF OpenAttempt, FileTypeOK, TreeStates
    <2>. QED  BY <1>9, <2>1, <2>2 DEF OpenAttempt, TypeOK, FileTypeOK, promotionVars, closingVars
  <1>10. CASE TooManyAttempts(c, w)
    BY <1>0, <1>10, WorkerRaiseType DEF TooManyAttempts, Faults
  <1>11. CASE ScoreReplay(c, w) \/ ScoreRename(c, w) \/ ScoreUnlock(c, w)
    <2>1. ProcessTypeOK'
      BY <1>0, <1>11, WorkerGoToType DEF ScoreReplay, ScoreRename, ScoreUnlock
    <2>2. PICK state \in TreeStates : SetTree(c, w, state)
      BY <1>11 DEF ScoreReplay, ScoreRename, ScoreUnlock, TreeStates, StagedTrees
    <2>3. tree' \in [Episodes -> [Attempts -> TreeStates]]
      BY <1>0, <2>2 DEF SetTree, FileTypeOK
    <2>. QED  BY <1>11, <2>1, <2>3 DEF ScoreReplay, ScoreRename, ScoreUnlock,
         TypeOK, FileTypeOK, promotionVars, closingVars
  <1>12. CASE Prepare(c, w)
    <2>1. CASE prepared[cur[c][w]] = Absent
      <3>1. ProcessTypeOK'
        BY <1>0, <1>12, <2>1, WorkerGoToType DEF Prepare
      <3>2. prepared' \in [Episodes -> Receipts]
        BY <1>0, <1>12, <2>1 DEF Prepare, FileTypeOK, Receipts
      <3>. QED  BY <1>12, <2>1, <3>1, <3>2 DEF Prepare, TypeOK, FileTypeOK, stagingVars, closingVars
    <2>2. CASE prepared[cur[c][w]] # Absent /\ prepared[cur[c][w]] = mine[c][w]
      <3>1. ProcessTypeOK'
        BY <1>0, <1>12, <2>2, WorkerGoToType DEF Prepare
      <3>. QED  BY <1>12, <2>2, <3>1 DEF Prepare, TypeOK, FileTypeOK, fileVars
    <2>3. CASE prepared[cur[c][w]] # Absent /\ prepared[cur[c][w]] # mine[c][w]
      BY <1>0, <1>12, <2>3, WorkerRaiseType DEF Prepare, Faults
    <2>. QED BY <2>1, <2>2, <2>3
  <1>13. CASE PrepareWrite(c, w)
    <2>1. ProcessTypeOK'
      BY <1>0, <1>13, WorkerGoToType DEF PrepareWrite
    <2>2. prepared' \in [Episodes -> Receipts]
      BY <1>0, <1>13 DEF PrepareWrite, ProcessTypeOK, FileTypeOK, Receipts
    <2>. QED  BY <1>13, <2>1, <2>2 DEF PrepareWrite, TypeOK, FileTypeOK, stagingVars, closingVars
  <1>14. CASE RenameNoReplace(c, w)
    <2>1. CASE authority[cur[c][w]] = Absent
      <3>1. ProcessTypeOK'
        BY <1>0, <1>14, <2>1, WorkerGoToType DEF RenameNoReplace
      <3>2. authority' \in [Episodes -> Receipts \ {Torn}]
        BY <1>0, <1>14, <2>1 DEF RenameNoReplace, ProcessTypeOK, FileTypeOK, Receipts, Absent,
           Torn, Attempts
      <3>3. tree' \in [Episodes -> [Attempts -> TreeStates]]
        <4>1. PICK state \in TreeStates :
                 tree' = [tree EXCEPT ![cur[c][w]][mine[c][w]] = state]
          BY <1>0, <1>14, <2>1, Zenon DEF RenameNoReplace, TreeStates
        <4>. QED  BY <1>0, <4>1, NestedUpdate DEF FileTypeOK
      <3>. QED  BY <1>14, <2>1, <3>1, <3>2, <3>3 DEF RenameNoReplace, TypeOK, FileTypeOK, closingVars
    <2>2. CASE authority[cur[c][w]] # Absent
      BY <1>0, <1>14, <2>2, WorkerRaiseType DEF RenameNoReplace, Faults
    <2>. QED BY <2>1, <2>2
  <1>15. CASE Prune(c, w)
    <2>1. tree' \in [Episodes -> [Attempts -> TreeStates]]
      BY <1>0, <1>15 DEF Prune, FileTypeOK, TreeStates
    <2>2. ProcessTypeOK'
      BY <1>0, <1>15, WorkerGoToType, WorkerExitType DEF Prune
    <2>3. raised' \in Faults \cup {"none"}
      BY <1>15 DEF Prune, TypeOK, Faults
    <2>. QED  BY <1>15, <2>1, <2>2, <2>3 DEF Prune, TypeOK, FileTypeOK, promotionVars, closingVars
  <1>16. CASE PromoteOpen(c, w)
    <2>1. CASE promotion[cur[c][w]] = Absent
      <3>1. ProcessTypeOK'
        BY <1>0, <1>16, <2>1, WorkerGoToType DEF PromoteOpen
      <3>2. promotion' \in [Episodes -> Receipts]
        BY <1>0, <1>16, <2>1 DEF PromoteOpen, FileTypeOK, Receipts
      <3>. QED  BY <1>16, <2>1, <3>1, <3>2 DEF PromoteOpen, TypeOK, FileTypeOK, stagingVars, closingVars
    <2>2. CASE promotion[cur[c][w]] # Absent
      BY <1>0, <1>16, <2>2, WorkerRaiseType DEF PromoteOpen, Faults
    <2>. QED BY <2>1, <2>2
  <1>17. CASE PromoteWrite(c, w)
    <2>1. ProcessTypeOK'
      BY <1>0, <1>17, AfterEpisodeType DEF PromoteWrite
    <2>2. cur[c][w] \in Episodes
      BY <1>0 DEF ProcessTypeOK
    <2>3. promotion' \in [Episodes -> Receipts]
      BY <1>0, <1>17, <2>2 DEF PromoteWrite, FileTypeOK
    <2>. QED  BY <1>17, <2>1, <2>3 DEF PromoteWrite, TypeOK, FileTypeOK, stagingVars, closingVars
  <1>18. CASE Summarize(c, w)
    <2>1. CASE summary[w] = "absent"
      <3>1. ProcessTypeOK'
        BY <1>0, <1>18, <2>1, WorkerGoToType DEF Summarize
      <3>2. summary' \in [Workers -> {"absent", "torn", "closed"}]
        BY <1>0, <1>18, <2>1 DEF Summarize, FileTypeOK
      <3>. QED  BY <1>18, <2>1, <3>1, <3>2 DEF Summarize, TypeOK, FileTypeOK, stagingVars,
           promotionVars, closingVars
    <2>2. CASE summary[w] = "closed"
      <3>1. ProcessTypeOK'
        BY <1>0, <1>18, <2>2, WorkerExitType DEF Summarize
      <3>. QED  BY <1>18, <2>2, <3>1 DEF Summarize, TypeOK, FileTypeOK, fileVars
    <2>3. CASE summary[w] = "torn"
      BY <1>0, <1>18, <2>3, WorkerRaiseType DEF Summarize, Faults
    <2>. QED BY <1>0, <2>1, <2>2, <2>3 DEF FileTypeOK
  <1>19. CASE SummarizeWrite(c, w)
    <2>1. ProcessTypeOK'
      BY <1>0, <1>19, WorkerExitType DEF SummarizeWrite
    <2>2. summary' \in [Workers -> {"absent", "torn", "closed"}]
      BY <1>0, <1>19 DEF SummarizeWrite, FileTypeOK
    <2>. QED  BY <1>19, <2>1, <2>2 DEF SummarizeWrite, TypeOK, FileTypeOK, stagingVars,
         promotionVars, closingVars
  <1>. QED
    BY <1>1, <1>2, <1>3, <1>4, <1>5, <1>6, <1>7, <1>8, <1>9, <1>10, <1>11, <1>12, <1>13,
       <1>14, <1>15, <1>16, <1>17, <1>18, <1>19 DEF WorkerProgress

\* Every step of a coordinator preserves the types.
LEMMA TypeCoordinator ==
    ASSUME TypeOK, NEW c \in Coordinators,
           \/ CoordinatorProgress(c) \/ CoordinatorStart(c)
           \/ OperatorInterrupt(c) \/ CoordinatorKilled(c)
    PROVE  TypeOK'
  <1> USE DEF CoordinatorPoints
  <1>0. /\ ProcessTypeOK /\ FileTypeOK
        /\ SpendFault => budget' \in 0..MaxFaults
    BY PlanAssumption DEF TypeOK, SpendFault
  <1>1. CASE CoordinatorStart(c)
    <2>1. lockFds' \subseteq Coordinators \X Roles
      BY <1>1 DEF CoordinatorStart, Roles
    <2>2. cpc' \in [Coordinators -> CoordinatorPoints]
      BY <1>0, <1>1 DEF CoordinatorStart, CoordinatorGoTo, ProcessTypeOK
    <2>3. /\ wpc' \in [Coordinators -> [Workers -> WorkerPoints]]
          /\ fpc' \in [Coordinators -> FinalizerPoints]
      BY <1>0, <1>1 DEF CoordinatorStart, ProcessTypeOK, WorkerPoints, FinalizerPoints
    <2>. QED  BY <1>1, <2>1, <2>2, <2>3 DEF CoordinatorStart, TypeOK, ProcessTypeOK, FileTypeOK, fileVars
  <1>2. CASE OperatorInterrupt(c)
    <2>1. ProcessTypeOK'
      BY <1>0, <1>2, CoordinatorStepType DEF OperatorInterrupt
    <2>. QED  BY <1>0, <1>2, <2>1 DEF OperatorInterrupt, TypeOK, FileTypeOK, fileVars
  <1>3. CASE CoordinatorKilled(c)
    <2>1. ProcessTypeOK'
      BY <1>0, <1>3, CoordinatorExitType DEF CoordinatorKilled
    <2>. QED  BY <1>0, <1>3, <2>1 DEF CoordinatorKilled, TypeOK, FileTypeOK, fileVars
  <1>4. ASSUME NEW w \in Workers, SpawnWorker(c, w)  PROVE TypeOK'
    <2>1. lockFds' \subseteq Coordinators \X Roles
      BY <1>0, <1>4 DEF SpawnWorker, ProcessTypeOK, Roles
    <2>2. PICK point \in CoordinatorPoints : CoordinatorGoTo(c, point)
      BY <1>4 DEF SpawnWorker
    <2>3. cpc' \in [Coordinators -> CoordinatorPoints]
      BY <1>0, <2>2 DEF CoordinatorGoTo, ProcessTypeOK
    <2>4. wpc' \in [Coordinators -> [Workers -> WorkerPoints]]
      BY <1>0, <1>4, NestedUpdate DEF SpawnWorker, GoTo, ProcessTypeOK, WorkerPoints, WorkerLivePoints
    <2>. QED  BY <1>4, <2>1, <2>3, <2>4 DEF SpawnWorker, TypeOK, ProcessTypeOK, FileTypeOK, fileVars
  <1>5. CASE WorkersDone(c) \/ WorkerFailureSeen(c) \/ Validate(c) \/ FeaturesPresent(c)
    <2>1. ProcessTypeOK'
      BY <1>0, <1>5, CoordinatorStepType DEF WorkersDone, WorkerFailureSeen, Validate, FeaturesPresent
    <2>. QED  BY <1>5, <2>1 DEF WorkersDone, WorkerFailureSeen, Validate, FeaturesPresent, TypeOK,
         FileTypeOK, fileVars
  <1>6. CASE Terminated(c)
    BY <1>6, CoordinatorRaiseType DEF Terminated, Faults
  <1>7. CASE ValidationFails(c)
    <2>1. ValidationFault \in Faults
      BY <1>7 DEF ValidationFails, ValidationFault, Faults
    <2>. QED  BY <1>7, <2>1, CoordinatorRaiseType DEF ValidationFails
  <1>8. CASE CloseReceipt(c)
    <2>1. CASE closure = Nowhere
      <3>1. ProcessTypeOK'
        BY <1>0, <1>8, <2>1, CoordinatorStepType DEF CloseReceipt
      <3>2. closure' \in [Episodes -> Receipts]
        BY <1>8, <2>1 DEF CloseReceipt, Unfinished, Receipts
      <3>. QED  BY <1>8, <2>1, <3>1, <3>2 DEF CloseReceipt, TypeOK, FileTypeOK, stagingVars, promotionVars
    <2>2. CASE closure # Nowhere /\ closure = authority
      <3>1. ProcessTypeOK'
        BY <1>0, <1>8, <2>2, CoordinatorStepType DEF CloseReceipt
      <3>. QED  BY <1>8, <2>2, <3>1 DEF CloseReceipt, TypeOK, FileTypeOK, fileVars
    <2>3. CASE closure # Nowhere /\ closure # authority
      <3>1. PICK fault \in {"tornReceipt", "receiptChanged"} : CoordinatorRaise(c, fault) /\ UNCHANGED budget
        BY <1>8, <2>3 DEF CloseReceipt, ReceiptFault
      <3>. QED  BY <3>1, CoordinatorRaiseType DEF Faults
    <2>. QED BY <2>1, <2>2, <2>3
  <1>9. CASE CloseWrite(c)
    <2>1. ProcessTypeOK'
      BY <1>0, <1>9, CoordinatorStepType DEF CloseWrite
    <2>2. closure' \in [Episodes -> Receipts]
      BY <1>0, <1>9 DEF CloseWrite, FileTypeOK
    <2>. QED  BY <1>9, <2>1, <2>2 DEF CloseWrite, TypeOK, FileTypeOK, stagingVars, promotionVars
  <1>10. CASE SpawnFinalizer(c)
    <2>1. lockFds' \subseteq Coordinators \X Roles
      BY <1>0, <1>10 DEF SpawnFinalizer, ProcessTypeOK, Roles
    <2>2. fpc' \in [Coordinators -> FinalizerPoints]
      BY <1>0, <1>10 DEF SpawnFinalizer, ProcessTypeOK, FinalizerPoints, FinalizerLivePoints
    <2>3. cpc' \in [Coordinators -> CoordinatorPoints]
      BY <1>0, <1>10 DEF SpawnFinalizer, ProcessTypeOK, CoordinatorGoTo
    <2>4. features' \in [Episodes -> Receipts]
      BY <1>10 DEF SpawnFinalizer, Nowhere, Receipts
    <2>. QED  BY <1>10, <2>1, <2>2, <2>3, <2>4 DEF SpawnFinalizer, TypeOK, ProcessTypeOK, FileTypeOK,
         stagingVars, promotionVars
  <1>11. CASE FinalizerReaped(c)
    <2>1. CASE CoordinatorStep(c, "adopt") /\ UNCHANGED <<fileVars, raised, budget>>
      <3>1. ProcessTypeOK'
        BY <1>0, <2>1, CoordinatorStepType
      <3>. QED  BY <2>1, <3>1 DEF TypeOK, FileTypeOK, fileVars
    <2>2. CASE CoordinatorRaise(c, "finalizerFailed") /\ UNCHANGED budget
      BY <2>2, CoordinatorRaiseType DEF Faults
    <2>. QED  BY <1>11, <2>1, <2>2 DEF FinalizerReaped
  <1>12. CASE AdoptFeatures(c)
    <2>1. CASE features = Nowhere
      <3>1. ProcessTypeOK'
        BY <1>0, <1>12, <2>1, CoordinatorStepType DEF AdoptFeatures
      <3>2. features' \in [Episodes -> Receipts]
        BY <1>0, <1>12, <2>1 DEF AdoptFeatures, ProcessTypeOK
      <3>. QED  BY <1>12, <2>1, <3>1, <3>2 DEF AdoptFeatures, TypeOK, FileTypeOK, stagingVars, promotionVars
    <2>2. CASE features # Nowhere
      BY <1>12, <2>2, CoordinatorRaiseType DEF AdoptFeatures, Faults
    <2>. QED BY <2>1, <2>2
  <1>13. CASE CompleteReceipt(c)
    <2>1. CASE completion = Nowhere
      <3>1. ProcessTypeOK'
        BY <1>0, <1>13, <2>1, CoordinatorStepType DEF CompleteReceipt
      <3>2. completion' \in [Episodes -> Receipts]
        BY <1>13, <2>1 DEF CompleteReceipt, Unfinished, Receipts
      <3>. QED  BY <1>13, <2>1, <3>1, <3>2 DEF CompleteReceipt, TypeOK, FileTypeOK, stagingVars, promotionVars
    <2>2. CASE completion # Nowhere /\ completion = closure
      <3>1. ProcessTypeOK'
        BY <1>0, <1>13, <2>2, CoordinatorExitType DEF CompleteReceipt
      <3>. QED  BY <1>13, <2>2, <3>1 DEF CompleteReceipt, TypeOK, FileTypeOK, fileVars
    <2>3. CASE completion # Nowhere /\ completion # closure
      <3>1. PICK fault \in {"tornReceipt", "receiptChanged"} : CoordinatorRaise(c, fault) /\ UNCHANGED budget
        BY <1>13, <2>3 DEF CompleteReceipt, ReceiptFault
      <3>. QED  BY <3>1, CoordinatorRaiseType DEF Faults
    <2>. QED BY <2>1, <2>2, <2>3
  <1>14. CASE CompleteWrite(c)
    <2>1. ProcessTypeOK'
      BY <1>0, <1>14, CoordinatorExitType DEF CompleteWrite
    <2>2. completion' \in [Episodes -> Receipts]
      BY <1>0, <1>14 DEF CompleteWrite, FileTypeOK
    <2>. QED  BY <1>14, <2>1, <2>2 DEF CompleteWrite, TypeOK, FileTypeOK, stagingVars, promotionVars
  <1>. QED
    BY <1>1, <1>2, <1>3, <1>4, <1>5, <1>6, <1>7, <1>8, <1>9, <1>10, <1>11, <1>12, <1>13, <1>14
       DEF CoordinatorProgress

\* Deaths, scoring errors and the finalizer preserve the types.
LEMMA TypeRest ==
    ASSUME TypeOK, NEW c \in Coordinators,
           \/ FinalizerProgress(c) \/ FinalizerKilled(c)
           \/ \E w \in Workers : ScoringFails(c, w) \/ WorkerDeath(c, w)
    PROVE  TypeOK'
  <1> USE DEF FinalizerPoints, FinalizerLivePoints, WorkerPoints
  <1>0. /\ ProcessTypeOK /\ FileTypeOK
        /\ SpendFault => budget' \in 0..MaxFaults
        /\ UNCHANGED budget => budget' \in 0..MaxFaults
        /\ finalized \in [Coordinators -> [Episodes -> Receipts]]
    BY PlanAssumption DEF TypeOK, SpendFault, ProcessTypeOK
  <1>1. CASE FinalizerArm(c)
    <2>1. ProcessTypeOK'
      <3>1. CASE FinalizerExit(c, "failed") /\ UNCHANGED finalized
        BY <1>0, <3>1, FinalizerExitType
      <3>2. CASE /\ fpc' = [fpc EXCEPT ![c] = "running"]
                 /\ UNCHANGED <<cpc, wpc, cur, mine, lockFds, workerLock, finalized>>
        BY <1>0, <3>2 DEF ProcessTypeOK
      <3>. QED  BY <1>1, <3>1, <3>2 DEF FinalizerArm
    <2>2. raised' \in Faults \cup {"none"}
      BY <1>1 DEF FinalizerArm, TypeOK, Faults
    <2>. QED  BY <1>1, <2>1, <2>2 DEF FinalizerArm, TypeOK, FileTypeOK, fileVars
  <1>2. CASE FinalizerRun(c)
    <2>1. finalized' \in [Coordinators -> [Episodes -> Receipts]]
      BY <1>0, <1>2 DEF FinalizerRun, FileTypeOK
    <2>2. ProcessTypeOK'
      BY <1>0, <1>2, <2>1, FinalizerExitType DEF FinalizerRun
    <2>. QED  BY <1>2, <2>2 DEF FinalizerRun, TypeOK, FileTypeOK, fileVars
  <1>3. CASE FinalizerKilled(c)
    <2>1. finalized' \in [Coordinators -> [Episodes -> Receipts]]
      BY <1>0, <1>3 DEF FinalizerKilled
    <2>2. ProcessTypeOK'
      BY <1>0, <1>3, <2>1, FinalizerExitType DEF FinalizerKilled
    <2>. QED  BY <1>0, <1>3, <2>2 DEF FinalizerKilled, TypeOK, FileTypeOK, fileVars
  <1>4. ASSUME NEW w \in Workers, ScoringFails(c, w)  PROVE TypeOK'
    BY <1>0, <1>4, WorkerRaiseType DEF ScoringFails, Faults
  <1>5. ASSUME NEW w \in Workers, WorkerKilled(c, w)  PROVE TypeOK'
    <2>1. ProcessTypeOK'
      BY <1>0, <1>5, WorkerExitType DEF WorkerKilled
    <2>. QED  BY <1>0, <1>5, <2>1 DEF WorkerKilled, TypeOK, FileTypeOK, fileVars
  <1>6. ASSUME NEW w \in Workers, WorkerInterrupted(c, w)  PROVE TypeOK'
    <2>1. ProcessTypeOK'
      BY <1>0, <1>6, WorkerExitType DEF WorkerInterrupted
    <2>2. UNCHANGED tree \/ \E state \in TreeStates : SetTree(c, w, state)
      BY <1>6, Zenon DEF WorkerInterrupted, TreeStates, StagedTrees
    <2>3. tree' \in [Episodes -> [Attempts -> TreeStates]]
      <3>1. CASE UNCHANGED tree
        BY <1>0, <3>1 DEF FileTypeOK
      <3>2. ASSUME NEW state \in TreeStates, SetTree(c, w, state)
            PROVE  tree' \in [Episodes -> [Attempts -> TreeStates]]
        <4>1. cur[c][w] \in Episodes
          BY <1>0 DEF ProcessTypeOK
        <4>. QED  BY <1>0, <3>2, <4>1, NestedUpdate DEF SetTree, FileTypeOK
      <3>. QED  BY <2>2, <3>1, <3>2
    <2>. QED  BY <1>6, <2>1, <2>3 DEF WorkerInterrupted, TypeOK, FileTypeOK, promotionVars, closingVars
  <1>. QED
    BY <1>1, <1>2, <1>3, <1>4, <1>5, <1>6 DEF FinalizerProgress, WorkerDeath

\* Whatever happens, every process and file is in a state the model names.
THEOREM TypeCorrect == Spec => []TypeOK
  <1>1. Init => TypeOK
    BY TypeInit
  <1>2. TypeOK /\ [Next]_vars => TypeOK'
    <2> SUFFICES ASSUME TypeOK, [Next]_vars PROVE TypeOK'
      OBVIOUS
    <2>1. CASE Next
      BY <2>1, TypeWorker, TypeCoordinator, TypeRest DEF Next
    <2>2. CASE UNCHANGED vars
      BY <2>2 DEF vars, TypeOK, ProcessTypeOK, FileTypeOK
    <2>. QED BY <2>1, <2>2
  <1>. QED  BY <1>1, <1>2, PTL DEF Spec

-----------------------------------------------------------------------------
(* Exclusion of concurrent runs by the inherited lock descriptor           *)

\* Looking up an entry of an updated table.
LEMMA NestedLookup ==
    ASSUME NEW S, NEW T, NEW f, NEW V, f \in [S -> [T -> V]],
           NEW x \in S, NEW y \in T, NEW v, NEW p \in S, NEW q \in T
    PROVE  [f EXCEPT ![x][y] = v][p][q] = IF p = x /\ q = y THEN v ELSE f[p][q]
  OBVIOUS

\* A live worker that moves on, and a live worker that ends.
LEMMA LockWorkerGoTo ==
    ASSUME TypeOK, LockOwners, OneRunAtATime, NEW c \in Coordinators, NEW w \in Workers,
           WorkerAlive(c, w), NEW point \in WorkerLivePoints, GoTo(c, w, point),
           UNCHANGED <<cpc, fpc, lockFds>>
    PROVE  LockOwners' /\ OneRunAtATime'
  <1>1. \A d \in Coordinators, v \in Workers : WorkerAlive(d, v)' <=> WorkerAlive(d, v)
    <2> SUFFICES ASSUME NEW d \in Coordinators, NEW v \in Workers
                 PROVE  WorkerAlive(d, v)' <=> WorkerAlive(d, v)
      OBVIOUS
    <2>1. wpc'[d][v] = IF d = c /\ v = w THEN point ELSE wpc[d][v]
      BY NestedLookup DEF GoTo, TypeOK, ProcessTypeOK
    <2>. QED  BY <2>1 DEF WorkerAlive
  <1>2. \A d \in Coordinators : /\ FinalizerAlive(d)' <=> FinalizerAlive(d)
                                /\ RunAlive(d)' <=> RunAlive(d)
    BY <1>1 DEF FinalizerAlive, RunAlive, ChildAlive
  <1>. QED  BY <1>1, <1>2 DEF LockOwners, OneRunAtATime

LEMMA LockWorkerExit ==
    ASSUME TypeOK, LockOwners, OneRunAtATime, NEW c \in Coordinators, NEW w \in Workers,
           WorkerAlive(c, w), NEW point \in {"done", "failed"}, WorkerExit(c, w, point)
    PROVE  LockOwners' /\ OneRunAtATime'
  <1>1. \A d \in Coordinators, v \in Workers :
           WorkerAlive(d, v)' <=> WorkerAlive(d, v) /\ <<d, v>> # <<c, w>>
    <2> SUFFICES ASSUME NEW d \in Coordinators, NEW v \in Workers
                 PROVE  WorkerAlive(d, v)' <=> WorkerAlive(d, v) /\ <<d, v>> # <<c, w>>
      OBVIOUS
    <2>1. wpc'[d][v] = IF d = c /\ v = w THEN point ELSE wpc[d][v]
      BY NestedLookup DEF WorkerExit, GoTo, TypeOK, ProcessTypeOK
    <2>. QED  BY <2>1 DEF WorkerAlive, WorkerLivePoints
  <1>2. \A d \in Coordinators : /\ FinalizerAlive(d)' <=> FinalizerAlive(d)
                                /\ RunAlive(d)' => RunAlive(d)
    BY <1>1 DEF FinalizerAlive, RunAlive, ChildAlive, WorkerExit
  <1>3. LockOwners'
    BY <1>1, <1>2 DEF LockOwners, WorkerExit, Workers
  <1>. QED  BY <1>2, <1>3 DEF OneRunAtATime

\* A live coordinator that moves on, and a live coordinator that ends.
LEMMA LockCoordinatorStep ==
    ASSUME TypeOK, LockOwners, OneRunAtATime, NEW c \in Coordinators, cpc[c] # "off",
           NEW point \in CoordinatorPoints \ {"off"}, CoordinatorStep(c, point)
    PROVE  LockOwners' /\ OneRunAtATime'
  <1>1. \A d \in Coordinators : cpc'[d] # "off" <=> cpc[d] # "off"
    BY DEF CoordinatorStep, CoordinatorGoTo, TypeOK, ProcessTypeOK
  <1>2. \A d \in Coordinators :
          /\ FinalizerAlive(d)' <=> FinalizerAlive(d)
          /\ \A v \in Workers : WorkerAlive(d, v)' <=> WorkerAlive(d, v)
          /\ RunAlive(d)' <=> RunAlive(d)
    BY <1>1 DEF FinalizerAlive, WorkerAlive, RunAlive, ChildAlive, CoordinatorStep
  <1>. QED  BY <1>1, <1>2 DEF LockOwners, OneRunAtATime, CoordinatorStep

LEMMA LockCoordinatorExit ==
    ASSUME TypeOK, LockOwners, OneRunAtATime, NEW c \in Coordinators, CoordinatorExit(c)
    PROVE  LockOwners' /\ OneRunAtATime'
  <1>1. \A d \in Coordinators : cpc'[d] # "off" <=> cpc[d] # "off" /\ d # c
    BY DEF CoordinatorExit, CoordinatorGoTo, TypeOK, ProcessTypeOK
  <1>2. \A d \in Coordinators :
          /\ FinalizerAlive(d)' <=> FinalizerAlive(d)
          /\ \A v \in Workers : WorkerAlive(d, v)' <=> WorkerAlive(d, v)
          /\ RunAlive(d)' => RunAlive(d)
    BY <1>1 DEF FinalizerAlive, WorkerAlive, RunAlive, ChildAlive, CoordinatorExit
  <1>3. LockOwners'
    BY <1>1, <1>2 DEF LockOwners, CoordinatorExit, Workers
  <1>. QED  BY <1>2, <1>3 DEF OneRunAtATime

\* A coordinator starts only under a lock that nobody holds.
LEMMA LockStart ==
    ASSUME TypeOK, LockOwners, OneRunAtATime, NEW c \in Coordinators, CoordinatorStart(c)
    PROVE  LockOwners' /\ OneRunAtATime'
  <1>1. \A d \in Coordinators :
          /\ cpc[d] = "off" /\ ~FinalizerAlive(d)
          /\ \A v \in Workers : ~WorkerAlive(d, v)
    BY DEF LockOwners, CoordinatorStart
  <1>2. \A d \in Coordinators : cpc'[d] # "off" <=> d = c
    BY <1>1 DEF CoordinatorStart, CoordinatorGoTo, TypeOK, ProcessTypeOK
  <1>3. \A d \in Coordinators :
          /\ ~FinalizerAlive(d)'
          /\ \A v \in Workers : ~WorkerAlive(d, v)'
    BY <1>1 DEF CoordinatorStart, TypeOK, ProcessTypeOK, FinalizerAlive, FinalizerLivePoints,
       WorkerAlive, WorkerLivePoints
  <1>4. LockOwners'
    BY <1>2, <1>3 DEF LockOwners, CoordinatorStart, Workers
  <1>. QED  BY <1>2, <1>3, <1>4 DEF OneRunAtATime, RunAlive, ChildAlive

\* A child is spawned by a live coordinator and inherits its descriptor.
LEMMA LockSpawnWorker ==
    ASSUME TypeOK, LockOwners, OneRunAtATime, NEW c \in Coordinators, NEW w \in Workers,
           SpawnWorker(c, w)
    PROVE  LockOwners' /\ OneRunAtATime'
  <1>1. \A d \in Coordinators, v \in Workers :
           WorkerAlive(d, v)' <=> WorkerAlive(d, v) \/ <<d, v>> = <<c, w>>
    <2> SUFFICES ASSUME NEW d \in Coordinators, NEW v \in Workers
                 PROVE  WorkerAlive(d, v)' <=> WorkerAlive(d, v) \/ <<d, v>> = <<c, w>>
      OBVIOUS
    <2>1. wpc'[d][v] = IF d = c /\ v = w THEN "spawned" ELSE wpc[d][v]
      BY NestedLookup DEF SpawnWorker, GoTo, TypeOK, ProcessTypeOK
    <2>. QED  BY <2>1 DEF WorkerAlive, WorkerLivePoints
  <1>2. cpc[c] # "off" /\ \A d \in Coordinators : cpc'[d] # "off" <=> cpc[d] # "off"
    BY DEF SpawnWorker, CoordinatorGoTo, TypeOK, ProcessTypeOK
  <1>3. \A d \in Coordinators : /\ FinalizerAlive(d)' <=> FinalizerAlive(d)
                                /\ RunAlive(d)' <=> RunAlive(d)
    BY <1>1, <1>2 DEF FinalizerAlive, RunAlive, ChildAlive, SpawnWorker
  <1>4. LockOwners'
    BY <1>1, <1>2, <1>3 DEF LockOwners, SpawnWorker, Workers
  <1>. QED  BY <1>3, <1>4 DEF OneRunAtATime

LEMMA LockSpawnFinalizer ==
    ASSUME TypeOK, LockOwners, OneRunAtATime, NEW c \in Coordinators, SpawnFinalizer(c)
    PROVE  LockOwners' /\ OneRunAtATime'
  <1>1. \A d \in Coordinators :
          /\ FinalizerAlive(d)' <=> FinalizerAlive(d) \/ d = c
          /\ \A v \in Workers : WorkerAlive(d, v)' <=> WorkerAlive(d, v)
    BY DEF SpawnFinalizer, FinalizerAlive, FinalizerLivePoints, WorkerAlive, TypeOK, ProcessTypeOK
  <1>2. cpc[c] # "off" /\ \A d \in Coordinators : cpc'[d] # "off" <=> cpc[d] # "off"
    BY DEF SpawnFinalizer, CoordinatorGoTo, TypeOK, ProcessTypeOK
  <1>3. \A d \in Coordinators : RunAlive(d)' <=> RunAlive(d)
    BY <1>1, <1>2 DEF RunAlive, ChildAlive
  <1>4. LockOwners'
    BY <1>1, <1>2 DEF LockOwners, SpawnFinalizer, Workers
  <1>. QED  BY <1>3, <1>4 DEF OneRunAtATime

\* The finalizer arms itself, or ends and closes its descriptor.
LEMMA LockFinalizer ==
    ASSUME TypeOK, LockOwners, OneRunAtATime, NEW c \in Coordinators, FinalizerAlive(c),
           \/ \E point \in {"done", "failed"} : FinalizerExit(c, point)
           \/ fpc' = [fpc EXCEPT ![c] = "running"] /\ UNCHANGED <<cpc, wpc, lockFds>>
    PROVE  LockOwners' /\ OneRunAtATime'
  <1>1. UNCHANGED <<cpc, wpc>>
    BY DEF FinalizerExit
  <1>2. \A d \in Coordinators :
          /\ FinalizerAlive(d)' => FinalizerAlive(d)
          /\ \A v \in Workers : WorkerAlive(d, v)' <=> WorkerAlive(d, v)
          /\ RunAlive(d)' => RunAlive(d)
    BY <1>1 DEF FinalizerExit, FinalizerAlive, FinalizerLivePoints, WorkerAlive, RunAlive, ChildAlive,
       TypeOK, ProcessTypeOK
  <1>3. LockOwners'
    <2>1. CASE \E point \in {"done", "failed"} : FinalizerExit(c, point)
      <3>1. \A d \in Coordinators : FinalizerAlive(d)' <=> FinalizerAlive(d) /\ d # c
        BY <2>1 DEF FinalizerExit, FinalizerAlive, FinalizerLivePoints, TypeOK, ProcessTypeOK
      <3>. QED  BY <1>1, <1>2, <2>1, <3>1 DEF LockOwners, FinalizerExit, Workers
    <2>2. CASE fpc' = [fpc EXCEPT ![c] = "running"] /\ UNCHANGED <<cpc, wpc, lockFds>>
      <3>1. \A d \in Coordinators : FinalizerAlive(d)' <=> FinalizerAlive(d)
        BY <2>2 DEF FinalizerAlive, FinalizerLivePoints, TypeOK, ProcessTypeOK
      <3>. QED  BY <1>2, <2>2, <3>1 DEF LockOwners
    <2>. QED  BY <2>1, <2>2
  <1>. QED  BY <1>2, <1>3 DEF OneRunAtATime

-----------------------------------------------------------------------------
(* Agreement of authoritative sidecars and receipts                        *)

\* Two live workers never work on one episode: two runs do not overlap, and
\* the two workers of a run have disjoint shards.
LEMMA EpisodeExclusion ==
    ASSUME ReceiptInvariant, NEW c \in Coordinators, NEW w \in Workers,
           NEW d \in Coordinators, NEW v \in Workers,
           WorkerAlive(c, w), WorkerAlive(d, v), cur[c][w] = cur[d][v]
    PROVE  d = c /\ v = w
  <1>1. d = c
    BY DEF ReceiptInvariant, OneRunAtATime, RunAlive, ChildAlive
  <1>2. cur[c][w] \in Shard(w) /\ cur[c][v] \in Shard(v)
    BY <1>1 DEF ReceiptInvariant, WorkerLocals, WorkerLocal
  <1>. QED  BY <1>1, <1>2, ShardFacts

\* What the steps of worker w of run c may touch of the processes' tables.
OwnStep(c, w) ==
    /\ \E point \in WorkerPoints : GoTo(c, w, point)
    /\ UNCHANGED cur \/ \E e \in Episodes : cur' = [cur EXCEPT ![c][w] = e]
    /\ UNCHANGED mine \/ \E a \in {Absent} \cup Attempts : mine' = [mine EXCEPT ![c][w] = a]

\* If a worker's step touches the receipts of its own episode only, what the
\* other workers know stays true.
LEMMA OthersKeepLocals ==
    ASSUME TypeOK, ReceiptInvariant, NEW c \in Coordinators, NEW w \in Workers,
           WorkerAlive(c, w), OwnStep(c, w),
           \A e \in Episodes \ {cur[c][w]} :
              prepared'[e] = prepared[e] /\ authority'[e] = authority[e],
           NEW d \in Coordinators, NEW v \in Workers, <<d, v>> # <<c, w>>
    PROVE  WorkerLocal(d, v)'
  <1>1. wpc'[d][v] = wpc[d][v]
    BY NestedLookup DEF OwnStep, GoTo, TypeOK, ProcessTypeOK
  <1>2. cur'[d][v] = cur[d][v]
    BY NestedLookup DEF OwnStep, TypeOK, ProcessTypeOK
  <1>3. mine'[d][v] = mine[d][v]
    BY NestedLookup DEF OwnStep, TypeOK, ProcessTypeOK
  <1>4. WorkerLocal(d, v) /\ cur[d][v] \in Episodes
    BY ShardFacts DEF ReceiptInvariant, WorkerLocals, WorkerLocal
  <1>5. CASE WorkerAlive(d, v)
    <2>1. cur[d][v] # cur[c][w]
      BY <1>5, EpisodeExclusion
    <2>. QED  BY <1>1, <1>2, <1>3, <1>4, <2>1 DEF WorkerLocal
  <1>6. CASE ~WorkerAlive(d, v)
    BY <1>1, <1>2, <1>3, <1>4, <1>6 DEF WorkerLocal, WorkerAlive, WorkerLivePoints
  <1>. QED  BY <1>5, <1>6

\* A worker that ends keeps nothing but the start of its shard.
LEMMA ExitKeepsLocal ==
    ASSUME TypeOK, ReceiptInvariant, NEW c \in Coordinators, NEW w \in Workers,
           NEW point \in {"done", "failed"}, WorkerExit(c, w, point)
    PROVE  OwnStep(c, w) /\ WorkerLocal(c, w)'
  <1>1. wpc'[c][w] = point
    BY NestedLookup DEF WorkerExit, GoTo, TypeOK, ProcessTypeOK
  <1>2. cur'[c][w] = FirstOf(w)
    BY NestedLookup DEF WorkerExit, TypeOK, ProcessTypeOK
  <1>3. OwnStep(c, w)
    BY ShardFacts DEF OwnStep, WorkerExit, WorkerPoints
  <1>. QED  BY <1>1, <1>2, <1>3, ShardFacts DEF WorkerLocal

\* A worker that stays at its episode and moves to another point.
LEMMA GoToLocal ==
    ASSUME TypeOK, NEW c \in Coordinators, NEW w \in Workers,
           NEW point \in WorkerPoints, WorkerGoTo(c, w, point)
    PROVE  OwnStep(c, w) /\ wpc'[c][w] = point /\ UNCHANGED <<cur, mine>>
  <1>1. wpc'[c][w] = point
    BY NestedLookup DEF WorkerGoTo, GoTo, TypeOK, ProcessTypeOK
  <1>. QED  BY <1>1 DEF OwnStep, WorkerGoTo

\* A worker that goes on to the next episode of its shard.
LEMMA NextEpisodeLocal ==
    ASSUME TypeOK, NEW c \in Coordinators, NEW w \in Workers,
           cur[c][w] \in Shard(w), AfterEpisode(c, w), UNCHANGED mine
    PROVE  OwnStep(c, w) /\ WorkerLocal(c, w)'
  <1>1. /\ OwnStep(c, w)
        /\ \E point \in {"next", "summarize"} : GoTo(c, w, point)
    BY ShardFacts DEF AfterEpisode, OwnStep, WorkerPoints, WorkerLivePoints
  <1>2. wpc'[c][w] \in {"next", "summarize"}
    BY <1>1, NestedLookup DEF GoTo, TypeOK, ProcessTypeOK
  <1>3. cur'[c][w] \in Shard(w)
    <2>1. CASE UNCHANGED cur
      BY <2>1
    <2>2. CASE cur[c][w] + 2 \in Episodes /\ cur' = [cur EXCEPT ![c][w] = cur[c][w] + 2]
      <3>1. cur'[c][w] = cur[c][w] + 2
        BY <2>2, NestedLookup DEF TypeOK, ProcessTypeOK
      <3>. QED  BY <2>2, <3>1, ShardFacts
    <2>. QED  BY <2>1, <2>2 DEF AfterEpisode
  <1>. QED  BY <1>1, <1>2, <1>3 DEF WorkerLocal

\* A worker's step keeps the receipts of every other episode, and leaves its
\* own episode's in agreement.
EpisodeSound(e) ==
    /\ authority[e] # Absent => prepared[e] = authority[e]
    /\ Complete(promotion[e]) => promotion[e] = authority[e]

StepSound(c, w) ==
    /\ OwnStep(c, w)
    /\ WorkerLocal(c, w)'
    /\ \A e \in Episodes \ {cur[c][w]} : /\ prepared'[e] = prepared[e]
                                         /\ authority'[e] = authority[e]
                                         /\ promotion'[e] = promotion[e]
    /\ \A e \in {cur[c][w]} : EpisodeSound(e)'

LEMMA StepSoundSuffices ==
    ASSUME TypeOK, ReceiptInvariant, NEW c \in Coordinators, NEW w \in Workers,
           WorkerAlive(c, w), StepSound(c, w)
    PROVE  WorkerLocals' /\ AuthorityReceipted'
  <1>1. WorkerLocals'
    BY OthersKeepLocals DEF StepSound, WorkerLocals
  <1>2. ASSUME NEW e \in Episodes  PROVE EpisodeSound(e)'
    <2>1. CASE e = cur[c][w]
      BY <2>1 DEF StepSound
    <2>2. CASE e # cur[c][w]
      BY <2>2 DEF StepSound, EpisodeSound, ReceiptInvariant, AuthorityReceipted
    <2>. QED  BY <2>1, <2>2
  <1>. QED  BY <1>1, <1>2 DEF AuthorityReceipted, EpisodeSound

\* Steps that write no receipt and stay at the episode, or end the worker.
LEMMA QuietStepSound ==
    ASSUME TypeOK, ReceiptInvariant, NEW c \in Coordinators, NEW w \in Workers,
           OwnStep(c, w), WorkerLocal(c, w)', UNCHANGED promotionVars
    PROVE  StepSound(c, w)
  <1>1. cur[c][w] \in Episodes
    BY DEF TypeOK, ProcessTypeOK
  <1>. QED  BY <1>1 DEF StepSound, EpisodeSound, ReceiptInvariant, AuthorityReceipted, promotionVars

LEMMA RaiseStepSound ==
    ASSUME TypeOK, ReceiptInvariant, NEW c \in Coordinators, NEW w \in Workers,
           NEW point \in {"done", "failed"}, WorkerExit(c, w, point), UNCHANGED promotionVars
    PROVE  StepSound(c, w)
  BY ExitKeepsLocal, QuietStepSound

LEMMA GoToStepSound ==
    ASSUME TypeOK, ReceiptInvariant, NEW c \in Coordinators, NEW w \in Workers,
           NEW point \in WorkerPoints, WorkerGoTo(c, w, point), UNCHANGED promotionVars,
           point \in {"publishing", "unlocking", "prepare"} => mine[c][w] \in Attempts,
           point \notin {"scoring", "preparing"},
           point = "rename" => mine[c][w] \in Attempts /\ prepared[cur[c][w]] = mine[c][w],
           point \in {"prune", "promote", "promoting"} => authority[cur[c][w]] # Absent
    PROVE  StepSound(c, w)
  <1>1. /\ OwnStep(c, w) /\ wpc'[c][w] = point
        /\ UNCHANGED <<cur, mine>>
    BY GoToLocal
  <1>2. WorkerLocal(c, w)'
    BY <1>1 DEF WorkerLocal, ReceiptInvariant, WorkerLocals, promotionVars
  <1>. QED  BY <1>1, <1>2, QuietStepSound

LEMMA WorkerStepSound ==
    ASSUME TypeOK, ReceiptInvariant, NEW c \in Coordinators, NEW w \in Workers,
           WorkerProgress(c, w) \/ ScoringFails(c, w) \/ WorkerDeath(c, w)
    PROVE  StepSound(c, w)
  <1> USE DEF WorkerPoints, WorkerLivePoints, fileVars
  <1>0. PICK e \in Episodes :
           /\ e = cur[c][w]
           /\ WorkerLocal(c, w) /\ EpisodeSound(e)
           /\ ProcessTypeOK /\ FileTypeOK
    BY DEF ReceiptInvariant, WorkerLocals, AuthorityReceipted, EpisodeSound, TypeOK, ProcessTypeOK
  <1>1. ASSUME NEW fault, WorkerRaise(c, w, fault)  PROVE StepSound(c, w)
    BY <1>1, RaiseStepSound DEF WorkerRaise, promotionVars
  <1>2. CASE WorkerArm(c, w)
    <2>1. CASE WorkerGoTo(c, w, "locking") /\ UNCHANGED fileVars
      BY <2>1, GoToStepSound DEF promotionVars
    <2>. QED  BY <1>1, <1>2, <2>1 DEF WorkerArm
  <1>3. CASE WorkerLock(c, w)
    <2>1. CASE workerLock[w] = NoCoordinator
      <3>1. wpc'[c][w] = "next"
        BY <1>0, <1>3, <2>1, NestedLookup DEF WorkerLock, GoTo, ProcessTypeOK
      <3>2. cur'[c][w] = FirstOf(w)
        BY <1>0, <1>3, <2>1, NestedLookup DEF WorkerLock, ProcessTypeOK
      <3>3. OwnStep(c, w)
        BY <1>3, <2>1, ShardFacts DEF WorkerLock, OwnStep
      <3>4. WorkerLocal(c, w)'
        BY <3>1, <3>2, ShardFacts DEF WorkerLocal
      <3>. QED  BY <1>3, <2>1, <3>3, <3>4, QuietStepSound DEF WorkerLock, promotionVars
    <2>2. CASE workerLock[w] # NoCoordinator
      BY <1>1, <1>3, <2>2 DEF WorkerLock
    <2>. QED  BY <2>1, <2>2
  <1>4. CASE WorkerSkip(c, w)
    <2>1. OwnStep(c, w) /\ WorkerLocal(c, w)'
      BY <1>0, <1>4, NextEpisodeLocal DEF WorkerSkip, WorkerLocal
    <2>. QED  BY <1>4, <2>1, QuietStepSound DEF WorkerSkip, promotionVars
  <1>5. CASE WorkerReconcile(c, w)
    <2>1. authority[cur[c][w]] # Absent
      BY <1>5 DEF WorkerReconcile, Reconcile
    <2>. QED  BY <1>5, <2>1, GoToStepSound DEF WorkerReconcile, promotionVars
  <1>6. CASE WorkerAdopt(c, w)
    <2>1. Staged(cur[c][w]) # {}
      BY <1>6 DEF WorkerAdopt, Reconcile
    <2>2. PICK a \in Attempts : mine' = [mine EXCEPT ![c][w] = a]
      BY <1>6, <2>1 DEF WorkerAdopt, Staged
    <2>3. mine'[c][w] = a
      BY <1>0, <2>2, NestedLookup DEF ProcessTypeOK
    <2>4. wpc'[c][w] = "prepare"
      BY <1>0, <1>6, NestedLookup DEF WorkerAdopt, GoTo, ProcessTypeOK
    <2>5. OwnStep(c, w)
      BY <1>6, <2>2 DEF WorkerAdopt, OwnStep
    <2>6. WorkerLocal(c, w)'
      BY <1>0, <1>6, <2>3, <2>4 DEF WorkerAdopt, WorkerLocal
    <2>. QED  BY <1>6, <2>5, <2>6, QuietStepSound DEF WorkerAdopt, promotionVars
  <1>7. CASE WorkerScore(c, w)
    BY <1>7, GoToStepSound DEF WorkerScore, promotionVars
  <1>8. CASE WorkerRefuse(c, w) \/ TooManyAttempts(c, w) \/ ScoringFails(c, w)
    BY <1>1, <1>8 DEF WorkerRefuse, TooManyAttempts, ScoringFails
  <1>9. ASSUME NEW a \in Attempts, RetireOpen(c, w, a)  PROVE StepSound(c, w)
    <2>1. CASE WorkerGoTo(c, w, "retiring") /\ UNCHANGED promotionVars
      BY <2>1, GoToStepSound
    <2>. QED  BY <1>1, <1>9, <2>1 DEF RetireOpen
  <1>10. ASSUME NEW a \in Attempts, RetireWrite(c, w, a)  PROVE StepSound(c, w)
    BY <1>10, GoToStepSound DEF RetireWrite
  <1>11. ASSUME NEW a \in Attempts, OpenAttempt(c, w, a)  PROVE StepSound(c, w)
    <2>1. mine'[c][w] = a
      BY <1>0, <1>11, NestedLookup DEF OpenAttempt, ProcessTypeOK
    <2>2. wpc'[c][w] = "scoring"
      BY <1>0, <1>11, NestedLookup DEF OpenAttempt, GoTo, ProcessTypeOK
    <2>3. OwnStep(c, w)
      BY <1>11 DEF OpenAttempt, OwnStep
    <2>4. WorkerLocal(c, w)'
      BY <1>0, <1>11, <2>1, <2>2 DEF OpenAttempt, WorkerLocal
    <2>. QED  BY <1>11, <2>3, <2>4, QuietStepSound DEF OpenAttempt
  <1>12. CASE ScoreReplay(c, w) \/ ScoreRename(c, w) \/ ScoreUnlock(c, w)
    <2>1. mine[c][w] \in Attempts
      BY <1>0, <1>12 DEF WorkerLocal, ScoreReplay, ScoreRename, ScoreUnlock
    <2>. QED  BY <1>12, <2>1, GoToStepSound DEF ScoreReplay, ScoreRename, ScoreUnlock
  <1>13. CASE Prepare(c, w)
    <2>1. mine[c][w] \in Attempts
      BY <1>0, <1>13 DEF WorkerLocal, Prepare
    <2>2. CASE prepared[e] = Absent
      <3>1. WorkerGoTo(c, w, "preparing") /\ prepared' = [prepared EXCEPT ![e] = Torn]
            /\ UNCHANGED <<authority, promotion>>
        BY <1>0, <1>13, <2>2 DEF Prepare
      <3>2. /\ OwnStep(c, w) /\ wpc'[c][w] = "preparing" /\ UNCHANGED <<cur, mine>>
        BY <3>1, GoToLocal
      <3>3. prepared'[e] = Torn /\ \A f \in Episodes \ {e} : prepared'[f] = prepared[f]
        BY <1>0, <3>1 DEF FileTypeOK
      <3>4. WorkerLocal(c, w)'
        BY <1>0, <2>1, <3>2, <3>3 DEF WorkerLocal
      <3>5. authority[e] = Absent
        BY <1>0, <2>2 DEF EpisodeSound
      <3>6. EpisodeSound(e)'
        BY <1>0, <3>1, <3>5 DEF EpisodeSound
      <3>. QED  BY <1>0, <3>1, <3>2, <3>3, <3>4, <3>6 DEF StepSound
    <2>3. CASE prepared[e] # Absent /\ prepared[e] = mine[c][w]
      BY <1>0, <1>13, <2>1, <2>3, GoToStepSound DEF Prepare, promotionVars
    <2>4. CASE prepared[e] # Absent /\ prepared[e] # mine[c][w]
      BY <1>0, <1>1, <1>13, <2>4 DEF Prepare
    <2>. QED  BY <2>2, <2>3, <2>4
  <1>14. CASE PrepareWrite(c, w)
    <2>1. mine[c][w] \in Attempts /\ prepared[e] = Torn
      BY <1>0, <1>14 DEF WorkerLocal, PrepareWrite
    <2>2. WorkerGoTo(c, w, "rename") /\ prepared' = [prepared EXCEPT ![e] = mine[c][w]]
          /\ UNCHANGED <<authority, promotion>>
      BY <1>0, <1>14 DEF PrepareWrite
    <2>3. /\ OwnStep(c, w) /\ wpc'[c][w] = "rename" /\ UNCHANGED <<cur, mine>>
      BY <2>2, GoToLocal
    <2>4. prepared'[e] = mine[c][w] /\ \A f \in Episodes \ {e} : prepared'[f] = prepared[f]
      BY <1>0, <2>2 DEF FileTypeOK
    <2>5. authority[e] = Absent
      BY <1>0, <2>1 DEF EpisodeSound, FileTypeOK
    <2>6. WorkerLocal(c, w)'
      BY <1>0, <2>1, <2>3, <2>4 DEF WorkerLocal
    <2>7. EpisodeSound(e)'
      BY <1>0, <2>2, <2>5 DEF EpisodeSound
    <2>. QED  BY <1>0, <2>2, <2>3, <2>4, <2>6, <2>7 DEF StepSound
  <1>15. CASE RenameNoReplace(c, w)
    <2>1. mine[c][w] \in Attempts /\ prepared[e] = mine[c][w]
      BY <1>0, <1>15 DEF WorkerLocal, RenameNoReplace
    <2>2. CASE authority[e] = Absent
      <3>1. WorkerGoTo(c, w, "prune") /\ authority' = [authority EXCEPT ![e] = mine[c][w]]
            /\ UNCHANGED <<prepared, promotion>>
        BY <1>0, <1>15, <2>2 DEF RenameNoReplace
      <3>2. /\ OwnStep(c, w) /\ wpc'[c][w] = "prune" /\ UNCHANGED <<cur, mine>>
        BY <3>1, GoToLocal
      <3>3. authority'[e] = mine[c][w] /\ \A f \in Episodes \ {e} : authority'[f] = authority[f]
        BY <1>0, <3>1 DEF FileTypeOK
      <3>4. WorkerLocal(c, w)'
        BY <1>0, <2>1, <3>2, <3>3 DEF WorkerLocal, Attempts, Absent
      <3>5. EpisodeSound(e)'
        BY <1>0, <2>1, <2>2, <3>1, <3>3 DEF EpisodeSound, Complete
      <3>. QED  BY <1>0, <3>1, <3>2, <3>3, <3>4, <3>5 DEF StepSound
    <2>3. CASE authority[e] # Absent
      BY <1>0, <1>1, <1>15, <2>3 DEF RenameNoReplace
    <2>. QED  BY <2>2, <2>3
  <1>16. CASE Prune(c, w)
    <2>1. authority[e] # Absent /\ UNCHANGED promotionVars
      BY <1>0, <1>16 DEF Prune, WorkerLocal
    <2>2. CASE WorkerGoTo(c, w, "promote")
      BY <1>0, <2>1, <2>2, GoToStepSound
    <2>3. CASE WorkerExit(c, w, "failed")
      BY <2>1, <2>3, RaiseStepSound
    <2>. QED  BY <1>16, <2>2, <2>3 DEF Prune
  <1>17. CASE PromoteOpen(c, w)
    <2>1. CASE promotion[e] = Absent
      <3>1. WorkerGoTo(c, w, "promoting") /\ promotion' = [promotion EXCEPT ![e] = Torn]
            /\ UNCHANGED <<prepared, authority>>
        BY <1>0, <1>17, <2>1 DEF PromoteOpen
      <3>2. /\ OwnStep(c, w) /\ wpc'[c][w] = "promoting" /\ UNCHANGED <<cur, mine>>
        BY <3>1, GoToLocal
      <3>3. promotion'[e] = Torn /\ \A f \in Episodes \ {e} : promotion'[f] = promotion[f]
        BY <1>0, <3>1 DEF FileTypeOK
      <3>4. WorkerLocal(c, w)'
        BY <1>0, <1>17, <3>1, <3>2 DEF WorkerLocal, PromoteOpen
      <3>5. EpisodeSound(e)'
        BY <1>0, <3>1, <3>3 DEF EpisodeSound, Complete
      <3>. QED  BY <1>0, <3>1, <3>2, <3>3, <3>4, <3>5 DEF StepSound
    <2>2. CASE promotion[e] # Absent
      BY <1>0, <1>1, <1>17, <2>2 DEF PromoteOpen
    <2>. QED  BY <2>1, <2>2
  <1>18. CASE PromoteWrite(c, w)
    <2>1. authority[e] # Absent /\ prepared[e] = authority[e]
      BY <1>0, <1>18 DEF PromoteWrite, WorkerLocal, EpisodeSound
    <2>2. OwnStep(c, w) /\ WorkerLocal(c, w)'
      BY <1>0, <1>18, NextEpisodeLocal DEF PromoteWrite, WorkerLocal
    <2>3. promotion'[e] = prepared[e] /\ \A f \in Episodes \ {e} : promotion'[f] = promotion[f]
      BY <1>0, <1>18 DEF PromoteWrite, FileTypeOK
    <2>4. EpisodeSound(e)'
      BY <1>18, <2>1, <2>3 DEF PromoteWrite, EpisodeSound
    <2>. QED  BY <1>0, <1>18, <2>2, <2>3, <2>4 DEF PromoteWrite, StepSound
  <1>19. CASE Summarize(c, w)
    <2>1. CASE WorkerGoTo(c, w, "summarizing") /\ UNCHANGED promotionVars
      BY <2>1, GoToStepSound
    <2>2. CASE WorkerExit(c, w, "done") /\ UNCHANGED promotionVars
      BY <2>2, RaiseStepSound
    <2>3. summary[w] \in {"absent", "torn", "closed"}
      BY <1>0 DEF FileTypeOK
    <2>. QED  BY <1>1, <1>19, <2>1, <2>2, <2>3 DEF Summarize, promotionVars
  <1>20. CASE SummarizeWrite(c, w)
    BY <1>20, RaiseStepSound DEF SummarizeWrite
  <1>21. CASE WorkerDeath(c, w)
    BY <1>21, RaiseStepSound DEF WorkerDeath, WorkerKilled, WorkerInterrupted, promotionVars
  <1>. QED
    BY <1>2, <1>3, <1>4, <1>5, <1>6, <1>7, <1>8, <1>9, <1>10, <1>11, <1>12, <1>13, <1>14, <1>15,
       <1>16, <1>17, <1>18, <1>19, <1>20, <1>21 DEF WorkerProgress

\* Only a live worker takes a step.
LEMMA StepperAlive ==
    ASSUME TypeOK, NEW c \in Coordinators, NEW w \in Workers,
           WorkerProgress(c, w) \/ ScoringFails(c, w) \/ WorkerDeath(c, w)
    PROVE  WorkerAlive(c, w)
  <1> USE DEF WorkerAlive, WorkerLivePoints
  <1>1. CASE WorkerProgress(c, w) \/ ScoringFails(c, w)
    BY <1>1 DEF WorkerProgress, WorkerArm, WorkerLock, WorkerSkip, WorkerReconcile, WorkerAdopt,
       WorkerScore, WorkerRefuse, RetireOpen, RetireWrite, OpenAttempt, TooManyAttempts, ScoreReplay,
       ScoreRename, ScoreUnlock, ScoringFails, Prepare, PrepareWrite, RenameNoReplace, Prune,
       PromoteOpen, PromoteWrite, Summarize, SummarizeWrite
  <1>2. CASE WorkerDeath(c, w)
    <2>1. wpc[c][w] \in FaultPoints /\ wpc[c][w] \in WorkerPoints
      BY <1>2 DEF WorkerDeath, WorkerKilled, WorkerInterrupted, TypeOK, ProcessTypeOK
    <2>. QED  BY <2>1, PlanAssumption DEF CoordinatorPoints, WorkerPoints
  <1>. QED  BY <1>1, <1>2

\* A worker's steps keep the descriptors of the lock those of live processes.
LEMMA WorkerStepLocks ==
    ASSUME TypeOK, ReceiptInvariant, NEW c \in Coordinators, NEW w \in Workers,
           WorkerProgress(c, w) \/ ScoringFails(c, w) \/ WorkerDeath(c, w)
    PROVE  LockOwners' /\ OneRunAtATime'
  <1> USE DEF WorkerLivePoints
  <1>0. LockOwners /\ OneRunAtATime
    BY DEF ReceiptInvariant
  <1>1. WorkerAlive(c, w)
    BY StepperAlive
  <1>2. ASSUME NEW point \in WorkerLivePoints, GoTo(c, w, point), UNCHANGED <<cpc, fpc, lockFds>>
        PROVE  LockOwners' /\ OneRunAtATime'
    BY <1>0, <1>1, <1>2, LockWorkerGoTo
  <1>3. ASSUME NEW point \in {"done", "failed"}, WorkerExit(c, w, point)
        PROVE  LockOwners' /\ OneRunAtATime'
    BY <1>0, <1>1, <1>3, LockWorkerExit
  <1>4. ASSUME NEW fault, WorkerRaise(c, w, fault)  PROVE LockOwners' /\ OneRunAtATime'
    BY <1>3, <1>4 DEF WorkerRaise
  <1>5. ASSUME NEW point \in WorkerLivePoints, WorkerGoTo(c, w, point)
        PROVE  LockOwners' /\ OneRunAtATime'
    BY <1>2, <1>5 DEF WorkerGoTo
  <1>6. ASSUME AfterEpisode(c, w), UNCHANGED <<cpc, fpc, lockFds>>
        PROVE  LockOwners' /\ OneRunAtATime'
    BY <1>2, <1>6 DEF AfterEpisode
  <1>7. CASE \/ WorkerArm(c, w) \/ WorkerReconcile(c, w) \/ WorkerScore(c, w) \/ WorkerRefuse(c, w)
             \/ TooManyAttempts(c, w) \/ ScoreReplay(c, w) \/ ScoreRename(c, w) \/ ScoreUnlock(c, w)
             \/ ScoringFails(c, w) \/ Prepare(c, w) \/ PrepareWrite(c, w) \/ RenameNoReplace(c, w)
             \/ PromoteOpen(c, w)
    BY <1>4, <1>5, <1>7 DEF WorkerArm, WorkerReconcile, WorkerScore, WorkerRefuse, TooManyAttempts,
       ScoreReplay, ScoreRename, ScoreUnlock, ScoringFails, Prepare, PrepareWrite, RenameNoReplace,
       PromoteOpen
  <1>8. CASE WorkerLock(c, w)
    <2>1. CASE workerLock[w] = NoCoordinator
      BY <1>2, <1>8, <2>1 DEF WorkerLock
    <2>. QED  BY <1>4, <1>8, <2>1 DEF WorkerLock
  <1>9. CASE WorkerSkip(c, w) \/ PromoteWrite(c, w)
    BY <1>6, <1>9 DEF WorkerSkip, PromoteWrite
  <1>10. CASE WorkerAdopt(c, w)
    BY <1>2, <1>10 DEF WorkerAdopt
  <1>11. ASSUME NEW a \in Attempts, RetireOpen(c, w, a) \/ RetireWrite(c, w, a)
         PROVE  LockOwners' /\ OneRunAtATime'
    BY <1>4, <1>5, <1>11 DEF RetireOpen, RetireWrite
  <1>12. ASSUME NEW a \in Attempts, OpenAttempt(c, w, a)  PROVE LockOwners' /\ OneRunAtATime'
    BY <1>2, <1>12 DEF OpenAttempt
  <1>13. CASE Prune(c, w)
    BY <1>3, <1>5, <1>13 DEF Prune
  <1>14. CASE Summarize(c, w)
    <2>1. summary[w] \in {"absent", "torn", "closed"}
      BY DEF TypeOK, FileTypeOK
    <2>. QED  BY <1>3, <1>4, <1>5, <1>14, <2>1 DEF Summarize
  <1>15. CASE SummarizeWrite(c, w) \/ WorkerDeath(c, w)
    BY <1>3, <1>15 DEF SummarizeWrite, WorkerDeath, WorkerKilled, WorkerInterrupted
  <1>. QED
    BY <1>7, <1>8, <1>9, <1>10, <1>11, <1>12, <1>13, <1>14, <1>15 DEF WorkerProgress

\* So does every step of a coordinator or a finalizer.
LEMMA ControlStepLocks ==
    ASSUME TypeOK, ReceiptInvariant, NEW c \in Coordinators,
           \/ CoordinatorProgress(c) \/ CoordinatorStart(c) \/ OperatorInterrupt(c)
           \/ CoordinatorKilled(c) \/ FinalizerProgress(c) \/ FinalizerKilled(c)
    PROVE  LockOwners' /\ OneRunAtATime'
  <1> USE DEF CoordinatorPoints
  <1>0. LockOwners /\ OneRunAtATime
    BY DEF ReceiptInvariant
  <1>1. ASSUME NEW point \in CoordinatorPoints \ {"off"}, cpc[c] # "off", CoordinatorStep(c, point)
        PROVE  LockOwners' /\ OneRunAtATime'
    BY <1>0, <1>1, LockCoordinatorStep
  <1>2. ASSUME CoordinatorExit(c)  PROVE LockOwners' /\ OneRunAtATime'
    BY <1>0, <1>2, LockCoordinatorExit
  <1>3. ASSUME NEW fault, CoordinatorRaise(c, fault)  PROVE LockOwners' /\ OneRunAtATime'
    BY <1>2, <1>3 DEF CoordinatorRaise
  <1>4. CASE CoordinatorStart(c) \/ \E w \in Workers : SpawnWorker(c, w)
    BY <1>0, <1>4, LockStart, LockSpawnWorker
  <1>5. CASE SpawnFinalizer(c)
    BY <1>0, <1>5, LockSpawnFinalizer
  <1>6. CASE \/ WorkersDone(c) \/ WorkerFailureSeen(c) \/ OperatorInterrupt(c) \/ Terminated(c)
             \/ Validate(c) \/ ValidationFails(c) \/ CloseReceipt(c) \/ CloseWrite(c)
             \/ FeaturesPresent(c) \/ FinalizerReaped(c) \/ AdoptFeatures(c) \/ CompleteReceipt(c)
             \/ CompleteWrite(c) \/ CoordinatorKilled(c)
    BY <1>1, <1>2, <1>3, <1>6 DEF WorkersDone, WorkerFailureSeen, OperatorInterrupt, Terminated,
       Validate, ValidationFails, CloseReceipt, CloseWrite, FeaturesPresent, FinalizerReaped,
       AdoptFeatures, CompleteReceipt, CompleteWrite, CoordinatorKilled
  <1>7. CASE FinalizerProgress(c) \/ FinalizerKilled(c)
    <2>1. FinalizerAlive(c)
      BY <1>7 DEF FinalizerProgress, FinalizerArm, FinalizerRun, FinalizerKilled, FinalizerAlive,
         FinalizerLivePoints
    <2>2. \/ \E point \in {"done", "failed"} : FinalizerExit(c, point)
          \/ fpc' = [fpc EXCEPT ![c] = "running"] /\ UNCHANGED <<cpc, wpc, lockFds>>
      BY <1>7 DEF FinalizerProgress, FinalizerArm, FinalizerRun, FinalizerKilled
    <2>. QED  BY <1>0, <2>1, <2>2, LockFinalizer
  <1>. QED
    BY <1>4, <1>5, <1>6, <1>7 DEF CoordinatorProgress

\* Coordinators and finalizers write no sidecar and no sidecar's receipt.
LEMMA ControlStepSound ==
    ASSUME TypeOK, ReceiptInvariant, NEW c \in Coordinators,
           \/ CoordinatorProgress(c) \/ CoordinatorStart(c) \/ OperatorInterrupt(c)
           \/ CoordinatorKilled(c) \/ FinalizerProgress(c) \/ FinalizerKilled(c)
    PROVE  WorkerLocals' /\ AuthorityReceipted'
  <1>1. UNCHANGED <<cur, mine>> /\ UNCHANGED promotionVars
    BY DEF CoordinatorProgress, CoordinatorStart, OperatorInterrupt, CoordinatorKilled,
       FinalizerProgress, FinalizerKilled, SpawnWorker, WorkersDone, WorkerFailureSeen, Terminated,
       Validate, ValidationFails, CloseReceipt, CloseWrite, FeaturesPresent, SpawnFinalizer,
       FinalizerReaped, AdoptFeatures, CompleteReceipt, CompleteWrite, FinalizerArm, FinalizerRun,
       FinalizerExit, CoordinatorStep, CoordinatorExit, CoordinatorRaise, fileVars, promotionVars
  <1>2. \A d \in Coordinators, v \in Workers : wpc'[d][v] \in {wpc[d][v], "off", "spawned"}
    <2>1. CASE CoordinatorStart(c)
      BY <2>1 DEF CoordinatorStart, TypeOK, ProcessTypeOK
    <2>2. ASSUME NEW w \in Workers, SpawnWorker(c, w)
          PROVE  \A d \in Coordinators, v \in Workers : wpc'[d][v] \in {wpc[d][v], "off", "spawned"}
      BY <2>2, NestedLookup DEF SpawnWorker, GoTo, TypeOK, ProcessTypeOK
    <2>3. CASE UNCHANGED wpc
      BY <2>3
    <2>. QED
      BY <2>1, <2>2, <2>3 DEF CoordinatorProgress, OperatorInterrupt, CoordinatorKilled,
         FinalizerProgress, FinalizerKilled, WorkersDone, WorkerFailureSeen, Terminated,
         Validate, ValidationFails, CloseReceipt, CloseWrite, FeaturesPresent, SpawnFinalizer,
         FinalizerReaped, AdoptFeatures, CompleteReceipt, CompleteWrite, FinalizerArm, FinalizerRun,
         FinalizerExit, CoordinatorStep, CoordinatorExit, CoordinatorRaise
  <1>. QED
    BY <1>1, <1>2 DEF WorkerLocals, WorkerLocal, AuthorityReceipted, ReceiptInvariant, promotionVars

LEMMA ReceiptInvariantStep ==
    ASSUME TypeOK, ReceiptInvariant, [Next]_vars
    PROVE  ReceiptInvariant'
  <1>1. CASE UNCHANGED vars
    BY <1>1 DEF vars, ReceiptInvariant, LockOwners, OneRunAtATime, WorkerLocals, WorkerLocal,
       AuthorityReceipted, RunAlive, ChildAlive, FinalizerAlive, WorkerAlive
  <1>2. ASSUME NEW c \in Coordinators, NEW w \in Workers,
               WorkerProgress(c, w) \/ ScoringFails(c, w) \/ WorkerDeath(c, w)
        PROVE  ReceiptInvariant'
    <2>1. WorkerAlive(c, w)
      BY <1>2, StepperAlive
    <2>2. WorkerLocals' /\ AuthorityReceipted'
      BY <1>2, <2>1, WorkerStepSound, StepSoundSuffices
    <2>. QED  BY <1>2, <2>2, WorkerStepLocks DEF ReceiptInvariant
  <1>3. ASSUME NEW c \in Coordinators,
               \/ CoordinatorProgress(c) \/ CoordinatorStart(c) \/ OperatorInterrupt(c)
               \/ CoordinatorKilled(c) \/ FinalizerProgress(c) \/ FinalizerKilled(c)
        PROVE  ReceiptInvariant'
    BY <1>3, ControlStepLocks, ControlStepSound DEF ReceiptInvariant
  <1>. QED  BY <1>1, <1>2, <1>3 DEF Next

LEMMA ReceiptInvariantInit == Init => ReceiptInvariant
  <1> SUFFICES ASSUME Init PROVE ReceiptInvariant
    OBVIOUS
  <1>1. LockOwners /\ OneRunAtATime
    BY DEF Init, LockOwners, OneRunAtATime, RunAlive, ChildAlive, FinalizerAlive, WorkerAlive,
       FinalizerLivePoints, WorkerLivePoints
  <1>2. WorkerLocals
    BY ShardFacts DEF Init, WorkerLocals, WorkerLocal
  <1>3. AuthorityReceipted
    BY DEF Init, AuthorityReceipted, Nowhere, Complete, Absent
  <1>. QED  BY <1>1, <1>2, <1>3 DEF ReceiptInvariant

\* The inductive invariant holds of every behaviour.
THEOREM ReceiptInvariantHolds == Spec => []ReceiptInvariant
  <1>1. Init => ReceiptInvariant
    BY ReceiptInvariantInit
  <1>2. TypeOK /\ ReceiptInvariant /\ [Next]_vars => ReceiptInvariant'
    BY ReceiptInvariantStep
  <1>. QED  BY <1>1, <1>2, TypeCorrect, PTL DEF Spec

\* The inherited lock descriptor keeps a restarted coordinator out until the
\* last process of the run before it is gone.
THEOREM RunsExclude == Spec => []OneRunAtATime
  <1>1. ReceiptInvariant => OneRunAtATime
    BY DEF ReceiptInvariant
  <1>. QED  BY <1>1, ReceiptInvariantHolds, PTL

\* Whatever dies and however often the coordinator is restarted, every
\* authoritative sidecar is the one its prepared receipt binds, and no
\* promotion receipt names another.
THEOREM ReceiptsAgree == Spec => []AuthorityReceipted
  <1>1. ReceiptInvariant => AuthorityReceipted
    BY DEF ReceiptInvariant
  <1>. QED  BY <1>1, ReceiptInvariantHolds, PTL

-----------------------------------------------------------------------------
(* Recovery                                                                *)

\* No file, a torn file and an attempt's number are three different things.
LEMMA ReceiptFacts ==
    /\ Absent \notin Attempts /\ Torn \notin Attempts /\ Absent # Torn
    /\ \A r \in Receipts : Complete(r) <=> r \in Attempts
    /\ \A a \in Attempts : Complete(a)
    /\ ~Complete(Absent) /\ ~Complete(Torn)
  BY PlanAssumption DEF Absent, Torn, Attempts, Receipts, Complete

\* A worker's stride visits its shard in order and misses none of it, and the
\* two shards cover the manifest.
LEMMA ShardOrder ==
    /\ \A w \in Workers : \A f \in Shard(w) : ~(f < FirstOf(w))
    /\ \A w \in Workers : \A e, f \in Shard(w) : f < e + 2 => f = e \/ f < e
    /\ \A w \in Workers : \A e, f \in Shard(w) : e + 2 \notin Episodes => f = e \/ f < e
    /\ \A e \in Episodes : \E w \in Workers : e \in Shard(w)
  <1> USE PlanAssumption DEF Shard, Owner, FirstOf, Workers, Episodes
  <1>1. \A w \in Workers : \A f \in Shard(w) : ~(f < FirstOf(w))
    OBVIOUS
  <1>2. \A w \in Workers : \A e, f \in Shard(w) : f < e + 2 => f = e \/ f < e
    OBVIOUS
  <1>3. \A w \in Workers : \A e, f \in Shard(w) : e + 2 \notin Episodes => f = e \/ f < e
    OBVIOUS
  <1>4. \A e \in Episodes : \E w \in Workers : e \in Shard(w)
    OBVIOUS
  <1>. QED BY <1>1, <1>2, <1>3, <1>4

\* A receipt that names every episode is neither missing nor torn.
LEMMA SnapshotFacts ==
    ASSUME NEW file \in [Episodes -> Receipts], \A e \in Episodes : Complete(file[e])
    PROVE  IsSnapshot(file)
  BY PlanAssumption DEF IsSnapshot, Nowhere, Unfinished, Complete, Episodes


\* Writing one attempt's directory, and the staged sidecars that leaves.
LEMMA TreeUpdate ==
    ASSUME TypeOK, NEW e \in Episodes, NEW a \in Attempts, NEW s,
           tree' = [tree EXCEPT ![e][a] = s]
    PROVE  /\ \A f \in Episodes \ {e} : tree'[f] = tree[f]
           /\ \A b \in Attempts : tree'[e][b] = IF b = a THEN s ELSE tree[e][b]
           /\ Staged(e)' = IF s \in StagedTrees THEN Staged(e) \cup {a} ELSE Staged(e) \ {a}
  <1>1. \A f \in Episodes \ {e} : tree'[f] = tree[f]
    BY DEF TypeOK, FileTypeOK
  <1>2. \A b \in Attempts : tree'[e][b] = IF b = a THEN s ELSE tree[e][b]
    BY NestedLookup DEF TypeOK, FileTypeOK
  <1>. QED  BY <1>1, <1>2 DEF Staged

-----------------------------------------------------------------------------
(* Steps of a worker: its own episode's files, and everyone else's         *)

\* The files of episode e stay as they are.
SameFiles(e) ==
    /\ tree'[e] = tree[e] /\ abandoned'[e] = abandoned[e]
    /\ prepared'[e] = prepared[e] /\ authority'[e] = authority[e] /\ promotion'[e] = promotion[e]

\* No finished score of episode e is lost.
ScoreKept(e) ==
    /\ authority[e] # Absent => authority'[e] = authority[e]
    /\ \A a \in Staged(e) : a \notin Staged(e)' => authority'[e] = a

PromotionKept(e) == Complete(promotion[e]) => promotion'[e] = promotion[e]

\* What a step of worker w of run c keeps: its own episode's files in order,
\* the others untouched, and no fault that only tampering could cause.
FilesStep(c, w) ==
    /\ OwnStep(c, w)
    /\ WorkerFiles(c, w)'
    /\ \A f \in Episodes \ {cur[c][w]} : SameFiles(f)
    /\ \A f \in {cur[c][w]} : EpisodeFiles(f)' /\ ScoreKept(f) /\ PromotionKept(f)
    /\ UNCHANGED raised \/ raised' \notin TamperFaults

\* An episode whose files stay the same stays in order and keeps its scores.
LEMMA SameFilesSound ==
    ASSUME NEW e \in Episodes, SameFiles(e)
    PROVE  /\ Staged(e)' = Staged(e)
           /\ EpisodeFiles(e) => EpisodeFiles(e)'
           /\ ScoreKept(e) /\ PromotionKept(e)
  <1>1. Staged(e)' = Staged(e)
    BY DEF Staged, SameFiles
  <1>. QED  BY <1>1 DEF EpisodeFiles, ScoreKept, PromotionKept, SameFiles

\* A worker keeps what it knows while its episode's files stay the same.
LEMMA KnownKept ==
    ASSUME NEW w \in Workers, NEW at, NEW e \in Episodes, NEW a, WorkerKnows(w, at, e, a),
           at \in WorkerLivePoints => SameFiles(e),
           \A f \in Episodes : PromotionKept(f)
    PROVE  WorkerKnows(w, at, e, a)'
  <1>1. \A f \in Shard(w) : Complete(promotion[f]) => Complete(promotion'[f])
    BY ShardFacts DEF PromotionKept
  <1>2. CASE at \in WorkerLivePoints
    <2>1. Staged(e)' = Staged(e)
      BY <1>2, SameFilesSound
    <2>. QED  BY <1>1, <1>2, <2>1 DEF WorkerKnows, SameFiles
  <1>3. CASE at \notin WorkerLivePoints
    BY <1>1, <1>3 DEF WorkerKnows, WorkerLivePoints
  <1>. QED  BY <1>2, <1>3

\* What a worker knows, from where it is after the step.
LEMMA OwnKnowledge ==
    ASSUME NEW c \in Coordinators, NEW w \in Workers, NEW at, NEW e, NEW a,
           wpc'[c][w] = at, cur'[c][w] = e, mine'[c][w] = a
    PROVE  WorkerFiles(c, w)' <=> WorkerKnows(w, at, e, a)'
  BY DEF WorkerFiles, WorkerKnows

\* What any other worker knows survives a worker's step: a live one is at
\* another episode, and promotions behind a dead one are kept.
LEMMA OthersKeepFiles ==
    ASSUME TypeOK, ReceiptInvariant, RecoveryInvariant, NEW c \in Coordinators,
           NEW w \in Workers, WorkerAlive(c, w), FilesStep(c, w),
           NEW d \in Coordinators, NEW v \in Workers, <<d, v>> # <<c, w>>
    PROVE  WorkerFiles(d, v)'
  <1>1. wpc'[d][v] = wpc[d][v]
    BY NestedLookup DEF FilesStep, OwnStep, GoTo, TypeOK, ProcessTypeOK
  <1>2. cur'[d][v] = cur[d][v]
    BY NestedLookup DEF FilesStep, OwnStep, TypeOK, ProcessTypeOK
  <1>3. mine'[d][v] = mine[d][v]
    BY NestedLookup DEF FilesStep, OwnStep, TypeOK, ProcessTypeOK
  <1>4. cur[c][w] \in Episodes /\ cur[d][v] \in Episodes
    BY DEF TypeOK, ProcessTypeOK
  <1>5. \A f \in Episodes : PromotionKept(f)
    BY SameFilesSound DEF FilesStep
  <1>6. wpc[d][v] \in WorkerLivePoints => SameFiles(cur[d][v])
    BY <1>4, EpisodeExclusion DEF WorkerAlive, FilesStep
  <1>7. WorkerKnows(v, wpc[d][v], cur[d][v], mine[d][v])
    BY DEF RecoveryInvariant, WorkerFiles
  <1>8. ASSUME NEW at, NEW e \in Episodes, NEW a, at = wpc[d][v], e = cur[d][v], a = mine[d][v]
        PROVE  WorkerFiles(d, v)'
    <2>1. WorkerKnows(v, at, e, a)'
      BY <1>5, <1>6, <1>7, <1>8, KnownKept
    <2>. QED  BY <1>1, <1>2, <1>3, <1>8, <2>1, OwnKnowledge
  <1>. QED  BY <1>4, <1>8

\* So a step in order keeps every episode and every worker's knowledge.
LEMMA FilesStepSuffices ==
    ASSUME TypeOK, ReceiptInvariant, RecoveryInvariant, NEW c \in Coordinators,
           NEW w \in Workers, WorkerAlive(c, w), FilesStep(c, w)
    PROVE  /\ \A e \in Episodes : EpisodeFiles(e)' /\ ScoreKept(e) /\ PromotionKept(e)
           /\ \A d \in Coordinators, v \in Workers : WorkerFiles(d, v)'
  <1>1. ASSUME NEW e \in Episodes  PROVE EpisodeFiles(e)' /\ ScoreKept(e) /\ PromotionKept(e)
    BY SameFilesSound DEF FilesStep, RecoveryInvariant
  <1>. QED  BY <1>1, OthersKeepFiles DEF FilesStep

-----------------------------------------------------------------------------
(* The steps of a worker, one lemma per part of its loop                   *)

\* Worker w of run c is at work on episode e with attempt a.
Working(c, w, e, a) ==
    /\ TypeOK /\ ReceiptInvariant /\ RecoveryInvariant
    /\ WorkerAlive(c, w)
    /\ e = cur[c][w] /\ e \in Episodes /\ e \in Shard(w)
    /\ a = mine[c][w]
    /\ EpisodeFiles(e)
    /\ WorkerKnows(w, wpc[c][w], e, a)

\* Every live worker is at work on its current episode and attempt.
LEMMA WorkingFacts ==
    ASSUME TypeOK, ReceiptInvariant, RecoveryInvariant, NEW c \in Coordinators,
           NEW w \in Workers, WorkerAlive(c, w)
    PROVE  Working(c, w, cur[c][w], mine[c][w])
  BY DEF Working, RecoveryInvariant, ReceiptInvariant, WorkerLocals, WorkerLocal, TypeOK,
     ProcessTypeOK, WorkerFiles

\* A worker that moves to another point of its episode.
LEMMA GoToKnowledge ==
    ASSUME NEW c \in Coordinators, NEW w \in Workers, NEW e, NEW a, Working(c, w, e, a),
           NEW point \in WorkerPoints, WorkerGoTo(c, w, point), WorkerKnows(w, point, e, a)'
    PROVE  OwnStep(c, w) /\ WorkerFiles(c, w)'
  <1>1. /\ OwnStep(c, w)
        /\ wpc'[c][w] = point /\ cur'[c][w] = e /\ mine'[c][w] = a
    BY GoToLocal DEF Working
  <1>. QED  BY <1>1, OwnKnowledge

\* A worker that ends knows nothing more, unless it is done with its shard.
LEMMA ExitKnowledge ==
    ASSUME NEW c \in Coordinators, NEW w \in Workers, NEW e, NEW a, Working(c, w, e, a),
           NEW point \in {"done", "failed"}, WorkerExit(c, w, point),
           point = "done" => \A f \in Shard(w) : Complete(promotion'[f])
    PROVE  OwnStep(c, w) /\ WorkerFiles(c, w)'
  <1>1. OwnStep(c, w)
    BY ExitKeepsLocal DEF Working
  <1>2. wpc'[c][w] = point
    BY NestedLookup DEF WorkerExit, GoTo, Working, TypeOK, ProcessTypeOK
  <1>3. cur'[c][w] = FirstOf(w)
    BY NestedLookup DEF WorkerExit, Working, TypeOK, ProcessTypeOK
  <1>4. WorkerKnows(w, point, FirstOf(w), mine[c][w])'
    BY ShardOrder DEF WorkerKnows
  <1>. QED  BY <1>1, <1>2, <1>3, <1>4 DEF WorkerFiles, WorkerKnows

\* A step that leaves every file of every episode alone.
LEMMA QuietFiles ==
    ASSUME NEW c \in Coordinators, NEW w \in Workers, NEW e, NEW a, Working(c, w, e, a),
           OwnStep(c, w), WorkerFiles(c, w)', UNCHANGED <<stagingVars, promotionVars>>,
           UNCHANGED raised \/ raised' \notin TamperFaults
    PROVE  FilesStep(c, w)
  <1>1. \A f \in Episodes : SameFiles(f)
    BY DEF SameFiles, stagingVars, promotionVars
  <1>. QED  BY <1>1, SameFilesSound DEF FilesStep, Working

\* A worker that raises for a reason the program's own crashes can produce.
LEMMA RaiseFiles ==
    ASSUME NEW c \in Coordinators, NEW w \in Workers, NEW e, NEW a, Working(c, w, e, a),
           NEW fault, fault \notin TamperFaults, WorkerRaise(c, w, fault)
    PROVE  FilesStep(c, w)
  <1>1. OwnStep(c, w) /\ WorkerFiles(c, w)'
    BY ExitKnowledge DEF WorkerRaise
  <1>. QED  BY <1>1, QuietFiles DEF WorkerRaise, fileVars, stagingVars, promotionVars

\* A set with no two elements.
LEMMA AtMostOne ==
    ASSUME NEW S, \A x, y \in S : x = y
    PROVE  Cardinality(S) \in {0, 1}
  <1>1. CASE S = {}
    BY <1>1, FS_EmptySet
  <1>2. CASE S # {}
    <2>1. PICK x : S = {x}
      BY <1>2
    <2>. QED  BY <2>1, FS_Singleton
  <1>. QED  BY <1>1, <1>2

\* What a worker finds of an episode never looks like tampering.
LEMMA ReconcileFaults ==
    ASSUME TypeOK, NEW e \in Episodes, EpisodeFiles(e)
    PROVE  Reconcile(e) \notin TamperFaults
  <1>1. Cardinality(Staged(e)) \in {0, 1}
    BY AtMostOne DEF EpisodeFiles
  <1>2. promotion[e] \in Receipts /\ prepared[e] \in Receipts
    BY DEF TypeOK, FileTypeOK
  <1>. QED
    BY <1>1, <1>2, ReceiptFacts DEF Reconcile, EpisodeFiles, TamperFaults, Complete

\* A worker that goes on: all of its shard up to the episode is promoted.
LEMMA NextEpisodeKnowledge ==
    ASSUME NEW c \in Coordinators, NEW w \in Workers, NEW e, NEW a, Working(c, w, e, a),
           AfterEpisode(c, w), UNCHANGED mine, Complete(promotion'[e]),
           \A f \in Shard(w) : Complete(promotion[f]) => Complete(promotion'[f])
    PROVE  OwnStep(c, w) /\ WorkerFiles(c, w)'
  <1>0. /\ OwnStep(c, w)
        /\ \A f \in Shard(w) : f < e => Complete(promotion'[f])
    BY NextEpisodeLocal DEF Working, WorkerKnows
  <1>1. CASE e + 2 \in Episodes
    <2>1. wpc'[c][w] = "next" /\ cur'[c][w] = e + 2
      BY <1>1, NestedLookup DEF AfterEpisode, GoTo, Working, TypeOK, ProcessTypeOK
    <2>2. \A f \in Shard(w) : f < e + 2 => Complete(promotion'[f])
      BY <1>0, ShardOrder DEF Working
    <2>3. WorkerKnows(w, "next", e + 2, mine[c][w])'
      BY <2>2 DEF WorkerKnows
    <2>. QED  BY <1>0, <2>1, <2>3 DEF WorkerFiles, WorkerKnows
  <1>2. CASE e + 2 \notin Episodes
    <2>1. wpc'[c][w] = "summarize" /\ cur'[c][w] = e
      BY <1>2, NestedLookup DEF AfterEpisode, GoTo, Working, TypeOK, ProcessTypeOK
    <2>2. \A f \in Shard(w) : Complete(promotion'[f])
      BY <1>0, <1>2, ShardOrder DEF Working
    <2>3. WorkerKnows(w, "summarize", e, mine[c][w])'
      BY <2>2 DEF WorkerKnows
    <2>. QED  BY <1>0, <2>1, <2>3 DEF WorkerFiles, WorkerKnows
  <1>. QED  BY <1>1, <1>2

\* Arming, locking and looking at an episode write nothing.
LEMMA LoopFiles ==
    ASSUME NEW c \in Coordinators, NEW w \in Workers, NEW e, NEW a, Working(c, w, e, a),
           \/ WorkerArm(c, w) \/ WorkerLock(c, w) \/ WorkerSkip(c, w) \/ WorkerReconcile(c, w)
           \/ WorkerAdopt(c, w) \/ WorkerScore(c, w) \/ WorkerRefuse(c, w)
           \/ TooManyAttempts(c, w) \/ ScoringFails(c, w)
    PROVE  FilesStep(c, w)
  <1> USE DEF WorkerPoints, WorkerLivePoints
  <1>0. /\ TypeOK /\ EpisodeFiles(e) /\ e \in Episodes /\ e = cur[c][w]
        /\ promotion[e] \in Receipts /\ prepared[e] \in Receipts
        /\ \A f \in Shard(w) : f < e => Complete(promotion[f])
    BY DEF Working, TypeOK, FileTypeOK, WorkerKnows
  <1>1. ASSUME NEW fault, fault \notin TamperFaults, WorkerRaise(c, w, fault)
        PROVE  FilesStep(c, w)
    BY <1>1, RaiseFiles
  <1>2. ASSUME NEW point \in WorkerPoints, WorkerGoTo(c, w, point), WorkerKnows(w, point, e, a)',
               UNCHANGED <<fileVars, raised>>
        PROVE  FilesStep(c, w)
    BY <1>2, GoToKnowledge, QuietFiles DEF fileVars, stagingVars, promotionVars
  <1>3. CASE WorkerArm(c, w)
    <2>1. CASE WorkerGoTo(c, w, "locking") /\ UNCHANGED <<fileVars, raised>>
      <3>1. WorkerKnows(w, "locking", e, a)'
        BY <1>0, <2>1 DEF WorkerKnows, fileVars
      <3>. QED  BY <1>2, <2>1, <3>1
    <2>. QED  BY <1>1, <1>3, <2>1 DEF WorkerArm, TamperFaults
  <1>4. CASE WorkerLock(c, w)
    <2>1. CASE workerLock[w] = NoCoordinator
      <3>1. wpc'[c][w] = "next" /\ cur'[c][w] = FirstOf(w)
        BY <1>0, <1>4, <2>1, NestedLookup DEF WorkerLock, GoTo, TypeOK, ProcessTypeOK
      <3>2. OwnStep(c, w)
        BY <1>4, <2>1, ShardFacts DEF WorkerLock, OwnStep
      <3>3. WorkerKnows(w, "next", FirstOf(w), mine[c][w])'
        BY ShardOrder DEF WorkerKnows
      <3>4. WorkerFiles(c, w)'
        BY <3>1, <3>3 DEF WorkerFiles, WorkerKnows
      <3>. QED  BY <1>4, <2>1, <3>2, <3>4, QuietFiles DEF WorkerLock, fileVars, stagingVars, promotionVars
    <2>2. CASE workerLock[w] # NoCoordinator
      <3>1. PICK d \in Coordinators : workerLock[w] = d
        BY <1>0, <2>2 DEF TypeOK, ProcessTypeOK
      <3>2. WorkerAlive(d, w) /\ wpc[d][w] # "locking"
        BY <3>1 DEF Working, RecoveryInvariant, WorkerLockOwners
      <3>3. d = c
        BY <3>2 DEF Working, ReceiptInvariant, OneRunAtATime, RunAlive, ChildAlive
      <3>. QED  BY <1>4, <3>2, <3>3 DEF WorkerLock
    <2>. QED  BY <2>1, <2>2
  <1>5. CASE WorkerSkip(c, w)
    <2>1. Complete(promotion[e])
      BY <1>0, <1>5, ReceiptFacts DEF WorkerSkip, Reconcile, Complete
    <2>2. OwnStep(c, w) /\ WorkerFiles(c, w)'
      BY <1>5, <2>1, NextEpisodeKnowledge DEF WorkerSkip, fileVars
    <2>. QED  BY <1>5, <2>2, QuietFiles DEF WorkerSkip, fileVars, stagingVars, promotionVars
  <1>6. CASE WorkerReconcile(c, w)
    <2>1. authority[e] # Absent /\ promotion[e] = Absent
      BY <1>0, <1>6 DEF WorkerReconcile, Reconcile
    <2>2. WorkerKnows(w, "promote", e, a)'
      BY <1>0, <1>6, <2>1 DEF WorkerReconcile, WorkerKnows, fileVars
    <2>. QED  BY <1>2, <1>6, <2>2 DEF WorkerReconcile
  <1>7. CASE WorkerAdopt(c, w)
    <2>1. /\ promotion[e] = Absent /\ authority[e] = Absent /\ Staged(e) # {}
          /\ prepared[e] # Torn
      BY <1>0, <1>7 DEF WorkerAdopt, Reconcile
    <2>2. PICK b \in Staged(e) : mine' = [mine EXCEPT ![c][w] = b]
      BY <1>0, <1>7, <2>1 DEF WorkerAdopt
    <2>3. b \in Attempts /\ prepared[e] \in {Absent, b}
      BY <1>0, <2>1, ReceiptFacts DEF Staged, EpisodeFiles, Complete
    <2>4. wpc'[c][w] = "prepare" /\ mine'[c][w] = b /\ cur'[c][w] = e
      BY <1>0, <1>7, <2>2, NestedLookup DEF WorkerAdopt, GoTo, TypeOK, ProcessTypeOK
    <2>5. OwnStep(c, w)
      BY <1>7, <2>2, <2>3 DEF WorkerAdopt, OwnStep
    <2>6. WorkerKnows(w, "prepare", e, b)'
      BY <1>0, <1>7, <2>1, <2>3 DEF WorkerAdopt, WorkerKnows, Staged, fileVars
    <2>7. WorkerFiles(c, w)'
      BY <2>4, <2>6, OwnKnowledge
    <2>. QED  BY <1>7, <2>5, <2>7, QuietFiles DEF WorkerAdopt, fileVars, stagingVars, promotionVars
  <1>8. CASE WorkerScore(c, w)
    <2>1. promotion[e] = Absent /\ authority[e] = Absent /\ Staged(e) = {} /\ prepared[e] = Absent
      BY <1>0, <1>8 DEF WorkerScore, Reconcile
    <2>2. WorkerKnows(w, "retire", e, a)'
      BY <1>0, <1>8, <2>1 DEF WorkerScore, WorkerKnows, Staged, fileVars
    <2>. QED  BY <1>2, <1>8, <2>2 DEF WorkerScore
  <1>9. CASE WorkerRefuse(c, w)
    BY <1>0, <1>1, <1>9, ReconcileFaults DEF WorkerRefuse
  <1>10. CASE TooManyAttempts(c, w) \/ ScoringFails(c, w)
    BY <1>1, <1>10 DEF TooManyAttempts, ScoringFails, TamperFaults
  <1>. QED  BY <1>3, <1>4, <1>5, <1>6, <1>7, <1>8, <1>9, <1>10

\* Recording what earlier processes left, and opening an attempt: the attempts
\* that are recorded hold no sidecar, and the new one has no record.
LEMMA RetireFiles ==
    ASSUME NEW c \in Coordinators, NEW w \in Workers, NEW e, NEW a, Working(c, w, e, a),
           NEW b \in Attempts,
           RetireOpen(c, w, b) \/ RetireWrite(c, w, b) \/ OpenAttempt(c, w, b)
    PROVE  FilesStep(c, w)
  <1> USE DEF WorkerPoints, WorkerLivePoints
  <1>0. /\ TypeOK /\ EpisodeFiles(e) /\ e \in Episodes /\ e = cur[c][w]
        /\ wpc[c][w] \in {"retire", "retiring"}
        /\ authority[e] = Absent /\ Staged(e) = {} /\ prepared[e] = Absent /\ promotion[e] = Absent
        /\ tree[e][b] \in TreeStates
        /\ \A f \in Shard(w) : f < e => Complete(promotion[f])
    <2>1. wpc[c][w] \in {"retire", "retiring"}
      BY DEF RetireOpen, RetireWrite, OpenAttempt
    <2>2. TypeOK /\ EpisodeFiles(e) /\ e \in Episodes /\ e = cur[c][w]
      BY DEF Working
    <2>3. authority[e] = Absent /\ Staged(e) = {} /\ prepared[e] = Absent
      BY <2>1 DEF Working, WorkerKnows
    <2>4. promotion[e] = Absent
      BY <2>2, <2>3 DEF EpisodeFiles
    <2>. QED  BY <2>1, <2>2, <2>3, <2>4 DEF Working, WorkerKnows, TypeOK, FileTypeOK
  <1>1. ASSUME NEW s, abandoned' = [abandoned EXCEPT ![e][b] = s], s \in {"torn", tree[e][b]},
               tree[e][b] # "absent", UNCHANGED <<tree, promotionVars>>
        PROVE  /\ \A f \in Episodes \ {e} : SameFiles(f)
               /\ EpisodeFiles(e)' /\ ScoreKept(e) /\ PromotionKept(e) /\ Staged(e)' = {}
    <2>1. /\ \A f \in Episodes \ {e} : abandoned'[f] = abandoned[f]
          /\ \A x \in Attempts : abandoned'[e][x] = IF x = b THEN s ELSE abandoned[e][x]
      BY <1>0, <1>1, NestedLookup DEF TypeOK, FileTypeOK
    <2>2. tree[e][b] \in {"empty", "partial"}
      BY <1>0, <1>1 DEF EpisodeFiles, Staged, TreeStates
    <2>3. Staged(e)' = Staged(e)
      BY <1>1 DEF Staged
    <2>4. EpisodeFiles(e)'
      BY <1>0, <1>1, <2>1, <2>2, <2>3, ReceiptFacts DEF EpisodeFiles, promotionVars
    <2>. QED  BY <1>0, <1>1, <2>1, <2>3, <2>4 DEF SameFiles, ScoreKept, PromotionKept, promotionVars
  <1>2. CASE RetireOpen(c, w, b)
    <2>1. tree[e][b] # "absent" /\ abandoned[e][b] # tree[e][b]
      BY <1>0, <1>2 DEF RetireOpen, IsFirst, Unretired
    <2>2. CASE abandoned[e][b] = "absent"
      <3>1. /\ abandoned' = [abandoned EXCEPT ![e][b] = "torn"]
            /\ WorkerGoTo(c, w, "retiring") /\ UNCHANGED <<tree, promotionVars, raised>>
        BY <1>0, <1>2, <2>2 DEF RetireOpen
      <3>2. /\ \A f \in Episodes \ {e} : SameFiles(f)
            /\ EpisodeFiles(e)' /\ ScoreKept(e) /\ PromotionKept(e) /\ Staged(e)' = {}
        BY <1>1, <2>1, <3>1
      <3>3. WorkerKnows(w, "retiring", e, a)'
        BY <1>0, <3>1, <3>2 DEF WorkerKnows, promotionVars
      <3>. QED  BY <1>0, <3>1, <3>2, <3>3, GoToKnowledge DEF FilesStep
    <2>3. CASE abandoned[e][b] # "absent"
      <3>1. abandoned[e][b] = "torn"
        BY <1>0, <2>1, <2>3 DEF EpisodeFiles
      <3>2. WorkerRaise(c, w, "tornReceipt")
        BY <1>0, <1>2, <2>3, <3>1 DEF RetireOpen
      <3>. QED  BY <3>2, RaiseFiles DEF TamperFaults
    <2>. QED  BY <2>2, <2>3
  <1>3. CASE RetireWrite(c, w, b)
    <2>1. tree[e][b] # "absent"
      BY <1>0, <1>3 DEF RetireWrite, IsFirst, Unretired
    <2>2. /\ abandoned' = [abandoned EXCEPT ![e][b] = tree[e][b]]
          /\ WorkerGoTo(c, w, "retire") /\ UNCHANGED <<tree, promotionVars, raised>>
      BY <1>0, <1>3 DEF RetireWrite
    <2>3. /\ \A f \in Episodes \ {e} : SameFiles(f)
          /\ EpisodeFiles(e)' /\ ScoreKept(e) /\ PromotionKept(e) /\ Staged(e)' = {}
      BY <1>1, <2>1, <2>2
    <2>4. WorkerKnows(w, "retire", e, a)'
      BY <1>0, <2>2, <2>3 DEF WorkerKnows, promotionVars
    <2>. QED  BY <1>0, <2>2, <2>3, <2>4, GoToKnowledge DEF FilesStep
  <1>4. CASE OpenAttempt(c, w, b)
    <2>1. tree[e][b] = "absent" /\ abandoned[e][b] = "absent"
      BY <1>0, <1>4 DEF OpenAttempt, IsFirst, Unused, EpisodeFiles
    <2>2. /\ tree' = [tree EXCEPT ![e][b] = "empty"] /\ UNCHANGED <<abandoned, promotionVars, raised>>
          /\ OwnStep(c, w)
      BY <1>0, <1>4 DEF OpenAttempt, OwnStep
    <2>3. wpc'[c][w] = "scoring" /\ cur'[c][w] = e /\ mine'[c][w] = b
      BY <1>0, <1>4, NestedLookup DEF OpenAttempt, GoTo, TypeOK, ProcessTypeOK
    <2>4. /\ \A f \in Episodes \ {e} : tree'[f] = tree[f]
          /\ \A x \in Attempts : tree'[e][x] = IF x = b THEN "empty" ELSE tree[e][x]
          /\ Staged(e)' = {}
      <3>1. /\ \A f \in Episodes \ {e} : tree'[f] = tree[f]
            /\ \A x \in Attempts : tree'[e][x] = IF x = b THEN "empty" ELSE tree[e][x]
            /\ Staged(e)' = IF "empty" \in StagedTrees THEN Staged(e) \cup {b} ELSE Staged(e) \ {b}
        BY <1>0, <2>2, TreeUpdate
      <3>. QED  BY <1>0, <3>1 DEF StagedTrees
    <2>5. EpisodeFiles(e)'
      BY <1>0, <2>1, <2>2, <2>4, ReceiptFacts DEF EpisodeFiles, promotionVars
    <2>6. WorkerKnows(w, "scoring", e, b)'
      BY <1>0, <2>1, <2>2, <2>4 DEF WorkerKnows, promotionVars
    <2>7. WorkerFiles(c, w)'
      BY <2>3, <2>6, OwnKnowledge
    <2>. QED
      BY <1>0, <2>2, <2>4, <2>5, <2>7 DEF FilesStep, SameFiles, ScoreKept, PromotionKept, promotionVars
  <1>. QED  BY <1>2, <1>3, <1>4

\* Writing the attempt's directory before there is a prepared receipt.
LEMMA AttemptFiles ==
    ASSUME NEW c \in Coordinators, NEW w \in Workers, NEW e, NEW a, Working(c, w, e, a),
           a \in Attempts, authority[e] = Absent, prepared[e] = Absent, promotion[e] = Absent,
           abandoned[e][a] = "absent", NEW s \in {"empty", "partial"} \cup StagedTrees,
           Staged(e) \subseteq {a}, s \notin StagedTrees => Staged(e) = {},
           tree' = [tree EXCEPT ![e][a] = s], UNCHANGED <<abandoned, promotionVars>>
    PROVE  /\ \A f \in Episodes \ {e} : SameFiles(f)
           /\ EpisodeFiles(e)' /\ ScoreKept(e) /\ PromotionKept(e)
           /\ Staged(e)' = IF s \in StagedTrees THEN {a} ELSE {}
           /\ tree'[e][a] = s
  <1>0. TypeOK /\ EpisodeFiles(e) /\ e \in Episodes
    BY DEF Working
  <1>1. /\ \A f \in Episodes \ {e} : tree'[f] = tree[f]
        /\ \A x \in Attempts : tree'[e][x] = IF x = a THEN s ELSE tree[e][x]
        /\ Staged(e)' = IF s \in StagedTrees THEN {a} ELSE {}
    <2>1. /\ \A f \in Episodes \ {e} : tree'[f] = tree[f]
          /\ \A x \in Attempts : tree'[e][x] = IF x = a THEN s ELSE tree[e][x]
          /\ Staged(e)' = IF s \in StagedTrees THEN Staged(e) \cup {a} ELSE Staged(e) \ {a}
      BY <1>0, TreeUpdate
    <2>. QED  BY <2>1
  <1>2. EpisodeFiles(e)'
    BY <1>0, <1>1, ReceiptFacts DEF EpisodeFiles, promotionVars, StagedTrees
  <1>. QED
    BY <1>1, <1>2 DEF SameFiles, ScoreKept, PromotionKept, promotionVars

\* Scoring into the attempt: its directory is partial, then staged under the
\* publish lock, then staged.
LEMMA ScoringFiles ==
    ASSUME NEW c \in Coordinators, NEW w \in Workers, NEW e, NEW a, Working(c, w, e, a),
           ScoreReplay(c, w) \/ ScoreRename(c, w) \/ ScoreUnlock(c, w)
    PROVE  FilesStep(c, w)
  <1> USE DEF WorkerPoints, WorkerLivePoints
  <1>0. /\ TypeOK /\ EpisodeFiles(e) /\ e \in Episodes /\ e = cur[c][w] /\ a = mine[c][w]
        /\ a \in Attempts
        /\ authority[e] = Absent /\ prepared[e] = Absent /\ promotion[e] = Absent
        /\ \A f \in Shard(w) : f < e => Complete(promotion[f])
    <2>1. wpc[c][w] \in {"scoring", "publishing", "unlocking"}
      BY DEF ScoreReplay, ScoreRename, ScoreUnlock
    <2>2. TypeOK /\ EpisodeFiles(e) /\ e \in Episodes /\ e = cur[c][w] /\ a = mine[c][w]
      BY DEF Working
    <2>3. authority[e] = Absent /\ prepared[e] = Absent
      BY <2>1 DEF Working, WorkerKnows
    <2>4. promotion[e] = Absent
      BY <2>2, <2>3 DEF EpisodeFiles
    <2>5. a \in Attempts
      BY <2>1 DEF Working, ReceiptInvariant, WorkerLocals, WorkerLocal
    <2>. QED  BY <2>2, <2>3, <2>4, <2>5 DEF Working, WorkerKnows
  <1>2. ASSUME NEW point \in WorkerPoints, WorkerGoTo(c, w, point), UNCHANGED raised,
               \A f \in Episodes \ {e} : SameFiles(f),
               EpisodeFiles(e)', ScoreKept(e), PromotionKept(e), WorkerKnows(w, point, e, a)'
        PROVE  FilesStep(c, w)
    BY <1>0, <1>2, GoToKnowledge DEF FilesStep
  <1>3. CASE ScoreReplay(c, w)
    <2>1. Staged(e) = {} /\ abandoned[e][a] = "absent"
      BY <1>3 DEF ScoreReplay, Working, WorkerKnows
    <2>2. /\ tree' = [tree EXCEPT ![e][a] = "partial"] /\ UNCHANGED <<abandoned, promotionVars, raised>>
          /\ WorkerGoTo(c, w, "publishing")
      BY <1>0, <1>3 DEF ScoreReplay, SetTree
    <2>3. /\ \A f \in Episodes \ {e} : SameFiles(f)
          /\ EpisodeFiles(e)' /\ ScoreKept(e) /\ PromotionKept(e)
          /\ Staged(e)' = {} /\ tree'[e][a] = "partial"
      <3>1. "partial" \notin StagedTrees
        BY DEF StagedTrees
      <3>2. /\ \A f \in Episodes \ {e} : SameFiles(f)
            /\ EpisodeFiles(e)' /\ ScoreKept(e) /\ PromotionKept(e)
            /\ Staged(e)' = IF "partial" \in StagedTrees THEN {a} ELSE {}
            /\ tree'[e][a] = "partial"
        <4>1. /\ a \in Attempts /\ authority[e] = Absent /\ prepared[e] = Absent
              /\ promotion[e] = Absent /\ abandoned[e][a] = "absent"
              /\ "partial" \in {"empty", "partial"} \cup StagedTrees
              /\ Staged(e) \subseteq {a} /\ Staged(e) = {}
              /\ tree' = [tree EXCEPT ![e][a] = "partial"] /\ UNCHANGED <<abandoned, promotionVars>>
          BY <1>0, <2>1, <2>2
        <4>. QED  BY <4>1, AttemptFiles
      <3>. QED  BY <3>1, <3>2
    <2>4. WorkerKnows(w, "publishing", e, a)'
      BY <1>0, <2>1, <2>2, <2>3 DEF WorkerKnows, promotionVars
    <2>. QED  BY <1>2, <2>2, <2>3, <2>4
  <1>4. CASE ScoreRename(c, w)
    <2>1. Staged(e) = {} /\ abandoned[e][a] = "absent"
      BY <1>4 DEF ScoreRename, Working, WorkerKnows
    <2>2. /\ tree' = [tree EXCEPT ![e][a] = "lockedStaged"] /\ UNCHANGED <<abandoned, promotionVars, raised>>
          /\ WorkerGoTo(c, w, "unlocking")
      BY <1>0, <1>4 DEF ScoreRename, SetTree
    <2>3. /\ \A f \in Episodes \ {e} : SameFiles(f)
          /\ EpisodeFiles(e)' /\ ScoreKept(e) /\ PromotionKept(e)
          /\ Staged(e)' = {a}
      <3>1. "lockedStaged" \in StagedTrees
        BY DEF StagedTrees
      <3>. QED  BY <1>0, <2>1, <2>2, <3>1, AttemptFiles
    <2>4. WorkerKnows(w, "unlocking", e, a)'
      BY <1>0, <2>2, <2>3 DEF WorkerKnows, promotionVars
    <2>. QED  BY <1>2, <2>2, <2>3, <2>4
  <1>5. CASE ScoreUnlock(c, w)
    <2>1. a \in Staged(e)
      BY <1>5 DEF ScoreUnlock, Working, WorkerKnows
    <2>2. Staged(e) \subseteq {a} /\ abandoned[e][a] = "absent"
      BY <1>0, <2>1 DEF EpisodeFiles, Staged, StagedTrees
    <2>3. /\ tree' = [tree EXCEPT ![e][a] = "staged"] /\ UNCHANGED <<abandoned, promotionVars, raised>>
          /\ WorkerGoTo(c, w, "prepare")
      BY <1>0, <1>5 DEF ScoreUnlock, SetTree
    <2>4. /\ \A f \in Episodes \ {e} : SameFiles(f)
          /\ EpisodeFiles(e)' /\ ScoreKept(e) /\ PromotionKept(e)
          /\ Staged(e)' = {a}
      <3>1. "staged" \in StagedTrees
        BY DEF StagedTrees
      <3>. QED  BY <1>0, <2>2, <2>3, <3>1, AttemptFiles
    <2>5. WorkerKnows(w, "prepare", e, a)'
      BY <1>0, <2>3, <2>4 DEF WorkerKnows, promotionVars
    <2>. QED  BY <1>2, <2>3, <2>4, <2>5
  <1>. QED  BY <1>3, <1>4, <1>5

\* The prepared receipt binds the staged sidecar, and the rename publishes the
\* sidecar the receipt binds.
LEMMA PublishFiles ==
    ASSUME NEW c \in Coordinators, NEW w \in Workers, NEW e, NEW a, Working(c, w, e, a),
           Prepare(c, w) \/ PrepareWrite(c, w) \/ RenameNoReplace(c, w)
    PROVE  FilesStep(c, w)
  <1> USE DEF WorkerPoints, WorkerLivePoints
  <1>0. /\ TypeOK /\ EpisodeFiles(e) /\ e \in Episodes /\ e = cur[c][w] /\ a = mine[c][w]
        /\ a \in Attempts /\ Staged(e) = {a}
        /\ authority[e] = Absent /\ promotion[e] = Absent
        /\ \A f \in Shard(w) : f < e => Complete(promotion[f])
    <2>1. wpc[c][w] \in {"prepare", "preparing", "rename"}
      BY DEF Prepare, PrepareWrite, RenameNoReplace
    <2>2. TypeOK /\ EpisodeFiles(e) /\ e \in Episodes /\ e = cur[c][w] /\ a = mine[c][w]
      BY DEF Working
    <2>3. authority[e] = Absent /\ a \in Staged(e)
      BY <2>1 DEF Working, WorkerKnows
    <2>4. promotion[e] = Absent /\ Staged(e) = {a}
      BY <2>2, <2>3 DEF EpisodeFiles
    <2>5. a \in Attempts
      BY <2>3 DEF Staged
    <2>. QED  BY <2>2, <2>3, <2>4, <2>5 DEF Working, WorkerKnows
  <1>1. ASSUME NEW r \in {Torn, a}, prepared' = [prepared EXCEPT ![e] = r],
               UNCHANGED <<stagingVars, authority, promotion>>
        PROVE  /\ \A f \in Episodes \ {e} : SameFiles(f)
               /\ EpisodeFiles(e)' /\ ScoreKept(e) /\ PromotionKept(e)
               /\ Staged(e)' = {a}
    <2>1. /\ \A f \in Episodes \ {e} : prepared'[f] = prepared[f]
          /\ prepared'[e] = r
      BY <1>0, <1>1 DEF TypeOK, FileTypeOK
    <2>2. Staged(e)' = {a}
      BY <1>0, <1>1 DEF Staged, stagingVars
    <2>3. EpisodeFiles(e)'
      BY <1>0, <1>1, <2>1, <2>2, ReceiptFacts DEF EpisodeFiles, stagingVars
    <2>. QED  BY <1>0, <1>1, <2>1, <2>2, <2>3 DEF SameFiles, ScoreKept, PromotionKept, stagingVars
  <1>2. ASSUME NEW point \in WorkerPoints, WorkerGoTo(c, w, point), UNCHANGED raised,
               \A f \in Episodes \ {e} : SameFiles(f),
               EpisodeFiles(e)', ScoreKept(e), PromotionKept(e), WorkerKnows(w, point, e, a)'
        PROVE  FilesStep(c, w)
    BY <1>0, <1>2, GoToKnowledge DEF FilesStep
  <1>3. CASE Prepare(c, w)
    <2>1. prepared[e] \in {Absent, a}
      BY <1>3 DEF Prepare, Working, WorkerKnows
    <2>2. CASE prepared[e] = Absent
      <3>1. /\ prepared' = [prepared EXCEPT ![e] = Torn] /\ WorkerGoTo(c, w, "preparing")
            /\ UNCHANGED <<stagingVars, authority, promotion, raised>>
        BY <1>0, <1>3, <2>2 DEF Prepare
      <3>2. /\ \A f \in Episodes \ {e} : SameFiles(f)
            /\ EpisodeFiles(e)' /\ ScoreKept(e) /\ PromotionKept(e)
            /\ Staged(e)' = {a}
        BY <1>1, <3>1
      <3>3. WorkerKnows(w, "preparing", e, a)'
        BY <1>0, <3>1, <3>2 DEF WorkerKnows
      <3>. QED  BY <1>2, <3>1, <3>2, <3>3
    <2>3. CASE prepared[e] = a
      <3>1. WorkerGoTo(c, w, "rename") /\ UNCHANGED <<fileVars, raised>>
        BY <1>0, <1>3, <2>3, ReceiptFacts DEF Prepare
      <3>2. WorkerKnows(w, "rename", e, a)'
        BY <1>0, <3>1 DEF WorkerKnows, Staged, fileVars
      <3>3. OwnStep(c, w) /\ WorkerFiles(c, w)'
        BY <3>1, <3>2, GoToKnowledge
      <3>. QED  BY <3>1, <3>3, QuietFiles DEF fileVars, stagingVars, promotionVars
    <2>. QED  BY <2>1, <2>2, <2>3
  <1>4. CASE PrepareWrite(c, w)
    <2>1. /\ prepared' = [prepared EXCEPT ![e] = a] /\ WorkerGoTo(c, w, "rename")
          /\ UNCHANGED <<stagingVars, authority, promotion, raised>>
      BY <1>0, <1>4 DEF PrepareWrite
    <2>2. /\ \A f \in Episodes \ {e} : SameFiles(f)
          /\ EpisodeFiles(e)' /\ ScoreKept(e) /\ PromotionKept(e)
          /\ Staged(e)' = {a}
      BY <1>1, <2>1
    <2>3. WorkerKnows(w, "rename", e, a)'
      BY <1>0, <2>1, <2>2 DEF WorkerKnows
    <2>. QED  BY <1>2, <2>1, <2>2, <2>3
  <1>5. CASE RenameNoReplace(c, w)
    <2>1. prepared[e] = a
      BY <1>0, <1>5 DEF RenameNoReplace, Working, ReceiptInvariant, WorkerLocals, WorkerLocal
    <2>2. PICK s \in {"drained", "lockedDrained"} : tree' = [tree EXCEPT ![e][a] = s]
      BY <1>0, <1>5, Zenon DEF RenameNoReplace
    <2>3. /\ authority' = [authority EXCEPT ![e] = a] /\ WorkerGoTo(c, w, "prune")
          /\ UNCHANGED <<abandoned, prepared, promotion, raised>>
      BY <1>0, <1>5 DEF RenameNoReplace
    <2>4. /\ \A f \in Episodes \ {e} : authority'[f] = authority[f]
          /\ authority'[e] = a
      BY <1>0, <2>3 DEF TypeOK, FileTypeOK
    <2>5. /\ \A f \in Episodes \ {e} : tree'[f] = tree[f]
          /\ \A x \in Attempts : tree'[e][x] = IF x = a THEN s ELSE tree[e][x]
          /\ Staged(e)' = {}
      <3>1. /\ \A f \in Episodes \ {e} : tree'[f] = tree[f]
            /\ \A x \in Attempts : tree'[e][x] = IF x = a THEN s ELSE tree[e][x]
            /\ Staged(e)' = IF s \in StagedTrees THEN Staged(e) \cup {a} ELSE Staged(e) \ {a}
        <4>1. TypeOK /\ e \in Episodes /\ a \in Attempts /\ tree' = [tree EXCEPT ![e][a] = s]
          BY <1>0, <2>2
        <4>. QED  BY <4>1, TreeUpdate
      <3>. QED  BY <1>0, <3>1 DEF StagedTrees
    <2>6. tree[e][a] \in StagedTrees
      BY <1>0 DEF Staged
    <2>7. EpisodeFiles(e)'
      BY <1>0, <2>1, <2>3, <2>4, <2>5, <2>6, ReceiptFacts DEF EpisodeFiles, StagedTrees
    <2>8. WorkerKnows(w, "prune", e, a)'
      BY <1>0, <2>3, <2>5 DEF WorkerKnows
    <2>9. (\A f \in Episodes \ {e} : SameFiles(f)) /\ ScoreKept(e) /\ PromotionKept(e)
      BY <1>0, <2>3, <2>4, <2>5 DEF SameFiles, ScoreKept, PromotionKept
    <2>. QED  BY <1>2, <2>3, <2>7, <2>8, <2>9
  <1>. QED  BY <1>3, <1>4, <1>5

\* The emptied attempt is pruned, and the promotion receipt is written over a
\* destination that matches its prepared receipt.
LEMMA PromoteFiles ==
    ASSUME NEW c \in Coordinators, NEW w \in Workers, NEW e, NEW a, Working(c, w, e, a),
           Prune(c, w) \/ PromoteOpen(c, w) \/ PromoteWrite(c, w)
    PROVE  FilesStep(c, w)
  <1> USE DEF WorkerPoints, WorkerLivePoints
  <1>0. /\ TypeOK /\ EpisodeFiles(e) /\ e \in Episodes /\ e = cur[c][w] /\ a = mine[c][w]
        /\ authority[e] # Absent /\ prepared[e] = authority[e] /\ Staged(e) = {}
        /\ Complete(authority[e])
        /\ promotion[e] = IF wpc[c][w] = "promoting" THEN Torn ELSE Absent
        /\ \A f \in Shard(w) : f < e => Complete(promotion[f])
    <2>1. wpc[c][w] \in {"prune", "promote", "promoting"}
      BY DEF Prune, PromoteOpen, PromoteWrite
    <2>2. TypeOK /\ EpisodeFiles(e) /\ e \in Episodes /\ e = cur[c][w] /\ a = mine[c][w]
      BY DEF Working
    <2>3. authority[e] # Absent
      BY <2>1, <2>2 DEF Working, ReceiptInvariant, WorkerLocals, WorkerLocal
    <2>4. prepared[e] = authority[e] /\ Staged(e) = {}
      BY <2>2, <2>3 DEF EpisodeFiles
    <2>5. Complete(authority[e])
      BY <2>2, <2>3 DEF TypeOK, FileTypeOK, Complete
    <2>6. promotion[e] = IF wpc[c][w] = "promoting" THEN Torn ELSE Absent
      BY <2>1 DEF Working, WorkerKnows
    <2>. QED  BY <2>2, <2>3, <2>4, <2>5, <2>6 DEF Working, WorkerKnows
  <1>1. ASSUME NEW r \in {Torn, authority[e]}, promotion' = [promotion EXCEPT ![e] = r],
               UNCHANGED <<stagingVars, authority, prepared>>
        PROVE  /\ \A f \in Episodes \ {e} : SameFiles(f)
               /\ EpisodeFiles(e)' /\ ScoreKept(e) /\ PromotionKept(e)
               /\ promotion'[e] = r
               /\ \A f \in Shard(w) : Complete(promotion[f]) => Complete(promotion'[f])
    <2>1. /\ \A f \in Episodes \ {e} : promotion'[f] = promotion[f]
          /\ promotion'[e] = r
      BY <1>0, <1>1 DEF TypeOK, FileTypeOK
    <2>2. Staged(e)' = {}
      BY <1>0, <1>1 DEF Staged, stagingVars
    <2>3. EpisodeFiles(e)'
      BY <1>0, <1>1, <2>1, <2>2, ReceiptFacts DEF EpisodeFiles, stagingVars
    <2>4. ScoreKept(e) /\ PromotionKept(e)
      BY <1>0, <1>1, <2>1, <2>2, ReceiptFacts DEF ScoreKept, PromotionKept
    <2>. QED
      BY <1>0, <1>1, <2>1, <2>3, <2>4, ShardFacts, ReceiptFacts DEF SameFiles, stagingVars
  <1>2. ASSUME NEW point \in WorkerPoints, WorkerGoTo(c, w, point), UNCHANGED raised,
               \A f \in Episodes \ {e} : SameFiles(f),
               EpisodeFiles(e)', ScoreKept(e), PromotionKept(e), WorkerKnows(w, point, e, a)'
        PROVE  FilesStep(c, w)
    BY <1>0, <1>2, GoToKnowledge DEF FilesStep
  <1>3. CASE Prune(c, w)
    <2>1. a \in Attempts /\ tree[e][a] \in {"drained", "lockedDrained"} /\ promotion[e] = Absent
      BY <1>3 DEF Prune, Working, WorkerKnows
    <2>2. PICK s \in {"absent", "lockedDrained"} : tree' = [tree EXCEPT ![e][a] = s]
      <3>1. tree' = [tree EXCEPT ![e][a] = IF tree[e][a] = "drained" THEN "absent" ELSE tree[e][a]]
        BY <1>0, <1>3 DEF Prune
      <3>2. (IF tree[e][a] = "drained" THEN "absent" ELSE tree[e][a]) \in {"absent", "lockedDrained"}
        BY <2>1
      <3>. QED  BY <3>1, <3>2
    <2>3. WorkerGoTo(c, w, "promote") /\ UNCHANGED <<abandoned, promotionVars, raised>>
      BY <1>0, <1>3 DEF Prune
    <2>4. /\ \A f \in Episodes \ {e} : tree'[f] = tree[f]
          /\ \A x \in Attempts : tree'[e][x] = IF x = a THEN s ELSE tree[e][x]
          /\ Staged(e)' = {}
      <3>1. /\ \A f \in Episodes \ {e} : tree'[f] = tree[f]
            /\ \A x \in Attempts : tree'[e][x] = IF x = a THEN s ELSE tree[e][x]
            /\ Staged(e)' = IF s \in StagedTrees THEN Staged(e) \cup {a} ELSE Staged(e) \ {a}
        <4>1. TypeOK /\ e \in Episodes /\ a \in Attempts /\ tree' = [tree EXCEPT ![e][a] = s]
          BY <1>0, <2>1, <2>2
        <4>. QED  BY <4>1, TreeUpdate
      <3>. QED  BY <1>0, <3>1 DEF StagedTrees
    <2>5. EpisodeFiles(e)'
      BY <1>0, <2>1, <2>3, <2>4, ReceiptFacts DEF EpisodeFiles, promotionVars
    <2>6. WorkerKnows(w, "promote", e, a)'
      BY <1>0, <2>1, <2>3, <2>4 DEF WorkerKnows, promotionVars
    <2>7. (\A f \in Episodes \ {e} : SameFiles(f)) /\ ScoreKept(e) /\ PromotionKept(e)
      BY <1>0, <2>3, <2>4 DEF SameFiles, ScoreKept, PromotionKept, promotionVars
    <2>. QED  BY <1>2, <2>3, <2>5, <2>6, <2>7
  <1>4. CASE PromoteOpen(c, w)
    <2>1. /\ promotion' = [promotion EXCEPT ![e] = Torn] /\ WorkerGoTo(c, w, "promoting")
          /\ UNCHANGED <<stagingVars, prepared, authority, raised>>
      BY <1>0, <1>4 DEF PromoteOpen
    <2>2. /\ \A f \in Episodes \ {e} : SameFiles(f)
          /\ EpisodeFiles(e)' /\ ScoreKept(e) /\ PromotionKept(e)
          /\ promotion'[e] = Torn
          /\ \A f \in Shard(w) : Complete(promotion[f]) => Complete(promotion'[f])
      BY <1>1, <2>1
    <2>3. WorkerKnows(w, "promoting", e, a)'
      BY <1>0, <2>2 DEF WorkerKnows
    <2>. QED  BY <1>2, <2>1, <2>2, <2>3
  <1>5. CASE PromoteWrite(c, w)
    <2>1. /\ promotion' = [promotion EXCEPT ![e] = authority[e]]
          /\ UNCHANGED <<stagingVars, prepared, authority, mine, raised>>
          /\ AfterEpisode(c, w)
      BY <1>0, <1>5 DEF PromoteWrite
    <2>2. /\ \A f \in Episodes \ {e} : SameFiles(f)
          /\ EpisodeFiles(e)' /\ ScoreKept(e) /\ PromotionKept(e)
          /\ promotion'[e] = authority[e]
          /\ \A f \in Shard(w) : Complete(promotion[f]) => Complete(promotion'[f])
      BY <1>1, <2>1
    <2>3. OwnStep(c, w) /\ WorkerFiles(c, w)'
      BY <1>0, <2>1, <2>2, NextEpisodeKnowledge
    <2>. QED  BY <1>0, <2>1, <2>2, <2>3 DEF FilesStep
  <1>. QED  BY <1>3, <1>4, <1>5

\* A worker that has promoted its shard ends, and a worker that dies leaves
\* its files as they are, but for a publication it had to take back.
LEMMA EndFiles ==
    ASSUME NEW c \in Coordinators, NEW w \in Workers, NEW e, NEW a, Working(c, w, e, a),
           Summarize(c, w) \/ SummarizeWrite(c, w) \/ WorkerDeath(c, w)
    PROVE  FilesStep(c, w)
  <1> USE DEF WorkerPoints, WorkerLivePoints
  <1>0. /\ TypeOK /\ EpisodeFiles(e) /\ e \in Episodes /\ e = cur[c][w] /\ a = mine[c][w]
    BY DEF Working
  <1>1. ASSUME NEW point \in {"done", "failed"}, WorkerExit(c, w, point),
               point = "done" => \A f \in Shard(w) : Complete(promotion[f]),
               UNCHANGED <<stagingVars, promotionVars, raised>>
        PROVE  FilesStep(c, w)
    <2>1. OwnStep(c, w) /\ WorkerFiles(c, w)'
      BY <1>1, ExitKnowledge DEF promotionVars
    <2>. QED  BY <1>1, <2>1, QuietFiles
  <1>2. CASE Summarize(c, w)
    <2>1. \A f \in Shard(w) : Complete(promotion[f])
      BY <1>2 DEF Summarize, Working, WorkerKnows
    <2>2. CASE summary[w] = "absent"
      <3>1. WorkerGoTo(c, w, "summarizing") /\ UNCHANGED <<stagingVars, promotionVars, raised>>
        BY <1>2, <2>2 DEF Summarize
      <3>2. WorkerKnows(w, "summarizing", e, a)'
        BY <2>1, <3>1 DEF WorkerKnows, promotionVars
      <3>. QED  BY <3>1, <3>2, GoToKnowledge, QuietFiles
    <2>3. CASE summary[w] = "closed"
      BY <1>1, <1>2, <2>1, <2>3 DEF Summarize, fileVars, stagingVars, promotionVars
    <2>4. CASE summary[w] = "torn"
      BY <1>2, <2>4, RaiseFiles DEF Summarize, TamperFaults
    <2>. QED  BY <1>0, <2>2, <2>3, <2>4 DEF TypeOK, FileTypeOK
  <1>3. CASE SummarizeWrite(c, w)
    <2>1. \A f \in Shard(w) : Complete(promotion[f])
      BY <1>3 DEF SummarizeWrite, Working, WorkerKnows
    <2>. QED  BY <1>1, <1>3, <2>1 DEF SummarizeWrite
  <1>4. CASE WorkerKilled(c, w)
    BY <1>1, <1>4 DEF WorkerKilled, fileVars, stagingVars, promotionVars
  <1>5. CASE WorkerInterrupted(c, w)
    <2>1. WorkerExit(c, w, "failed") /\ UNCHANGED <<abandoned, promotionVars, raised>>
      BY <1>5 DEF WorkerInterrupted
    <2>2. OwnStep(c, w) /\ WorkerFiles(c, w)'
      BY <2>1, ExitKnowledge
    <2>3. CASE wpc[c][w] \in {"publishing", "unlocking"}
      <3>1. PICK s \in {"empty", "staged"} : /\ tree' = [tree EXCEPT ![e][a] = s]
                                             /\ s = "staged" <=> wpc[c][w] = "unlocking"
        BY <1>0, <1>5, <2>3, Zenon DEF WorkerInterrupted, SetTree
      <3>2. authority[e] = Absent /\ prepared[e] = Absent /\ promotion[e] = Absent
        BY <1>0, <2>3 DEF Working, WorkerKnows, EpisodeFiles
      <3>3. a \in Attempts
        BY <1>0, <2>3 DEF Working, ReceiptInvariant, WorkerLocals, WorkerLocal
      <3>4. /\ abandoned[e][a] = "absent" /\ Staged(e) \subseteq {a}
            /\ s = "empty" => Staged(e) = {}
        <4>1. CASE s = "empty"
          BY <2>3, <3>1, <4>1 DEF Working, WorkerKnows
        <4>2. CASE s = "staged"
          <5>1. a \in Staged(e)
            BY <3>1, <4>2 DEF Working, WorkerKnows
          <5>. QED  BY <1>0, <4>2, <5>1 DEF EpisodeFiles, Staged, StagedTrees
        <4>. QED  BY <4>1, <4>2
      <3>5. /\ \A f \in Episodes \ {e} : SameFiles(f)
            /\ EpisodeFiles(e)' /\ ScoreKept(e) /\ PromotionKept(e)
        BY <2>1, <3>1, <3>2, <3>3, <3>4, AttemptFiles DEF StagedTrees
      <3>. QED  BY <1>0, <2>1, <2>2, <3>5 DEF FilesStep
    <2>4. CASE wpc[c][w] \notin {"publishing", "unlocking"}
      <3>1. UNCHANGED tree
        BY <1>5, <2>4 DEF WorkerInterrupted
      <3>. QED  BY <2>1, <2>2, <3>1, QuietFiles DEF stagingVars
    <2>. QED  BY <2>3, <2>4
  <1>. QED  BY <1>2, <1>3, <1>4, <1>5 DEF WorkerDeath

\* Every step of a worker.
LEMMA WorkerStepFiles ==
    ASSUME TypeOK, ReceiptInvariant, RecoveryInvariant, NEW c \in Coordinators,
           NEW w \in Workers, WorkerProgress(c, w) \/ ScoringFails(c, w) \/ WorkerDeath(c, w)
    PROVE  WorkerAlive(c, w) /\ FilesStep(c, w)
  <1>1. WorkerAlive(c, w)
    BY StepperAlive
  <1>2. PICK e, a : Working(c, w, e, a)
    BY <1>1, WorkingFacts
  <1>. QED
    BY <1>1, <1>2, LoopFiles, RetireFiles, ScoringFiles, PublishFiles, PromoteFiles, EndFiles
       DEF WorkerProgress

-----------------------------------------------------------------------------
(* The worker locks                                                        *)

\* worker<w>.lock through every step of a worker.
LEMMA WorkerStepLock ==
    ASSUME TypeOK, ReceiptInvariant, RecoveryInvariant, NEW c \in Coordinators,
           NEW w \in Workers, WorkerProgress(c, w) \/ ScoringFails(c, w) \/ WorkerDeath(c, w)
    PROVE  WorkerLockOwners'
  <1> USE DEF WorkerPoints, WorkerLivePoints
  <1>0. /\ ProcessTypeOK /\ WorkerLockOwners /\ WorkerAlive(c, w)
        /\ NoCoordinator \notin Coordinators
    BY StepperAlive, PlanAssumption DEF TypeOK, RecoveryInvariant
  <1>1. ASSUME NEW point \in WorkerLivePoints, GoTo(c, w, point), UNCHANGED workerLock,
               point \in {"spawned", "locking"} <=> wpc[c][w] \in {"spawned", "locking"}
        PROVE  WorkerLockOwners'
    <2>1. \A d \in Coordinators, v \in Workers :
             wpc'[d][v] = IF d = c /\ v = w THEN point ELSE wpc[d][v]
      BY <1>0, <1>1, NestedLookup DEF GoTo, ProcessTypeOK
    <2>. QED  BY <1>0, <1>1, <2>1 DEF WorkerLockOwners, WorkerAlive
  <1>2. ASSUME NEW point \in {"done", "failed"}, WorkerExit(c, w, point)
        PROVE  WorkerLockOwners'
    <2>1. \A d \in Coordinators, v \in Workers :
             wpc'[d][v] = IF d = c /\ v = w THEN point ELSE wpc[d][v]
      BY <1>0, <1>2, NestedLookup DEF WorkerExit, GoTo, ProcessTypeOK
    <2>2. \A v \in Workers :
             workerLock'[v] = IF v = w /\ workerLock[w] = c THEN NoCoordinator ELSE workerLock[v]
      BY <1>0, <1>2 DEF WorkerExit, ProcessTypeOK
    <2>. QED  BY <1>0, <2>1, <2>2 DEF WorkerLockOwners, WorkerAlive
  <1>3. ASSUME NEW fault, WorkerRaise(c, w, fault)  PROVE WorkerLockOwners'
    BY <1>2, <1>3 DEF WorkerRaise
  <1>4. ASSUME NEW point \in WorkerLivePoints \ {"spawned", "locking"}, WorkerGoTo(c, w, point),
               wpc[c][w] \notin {"spawned", "locking"}
        PROVE  WorkerLockOwners'
    BY <1>1, <1>4 DEF WorkerGoTo
  <1>5. ASSUME AfterEpisode(c, w), UNCHANGED workerLock, wpc[c][w] \notin {"spawned", "locking"}
        PROVE  WorkerLockOwners'
    BY <1>1, <1>5 DEF AfterEpisode
  <1>6. CASE WorkerArm(c, w)
    <2>1. CASE WorkerGoTo(c, w, "locking")
      BY <1>1, <1>6, <2>1 DEF WorkerArm, WorkerGoTo
    <2>. QED  BY <1>3, <1>6, <2>1 DEF WorkerArm
  <1>7. CASE WorkerLock(c, w)
    <2>1. CASE workerLock[w] = NoCoordinator
      <3>1. \A d \in Coordinators, v \in Workers :
               wpc'[d][v] = IF d = c /\ v = w THEN "next" ELSE wpc[d][v]
        BY <1>0, <1>7, <2>1, NestedLookup DEF WorkerLock, GoTo, ProcessTypeOK
      <3>2. \A v \in Workers : workerLock'[v] = IF v = w THEN c ELSE workerLock[v]
        BY <1>0, <1>7, <2>1 DEF WorkerLock, ProcessTypeOK
      <3>. QED  BY <1>0, <2>1, <3>1, <3>2 DEF WorkerLockOwners, WorkerAlive
    <2>. QED  BY <1>3, <1>7, <2>1 DEF WorkerLock
  <1>8. CASE \/ WorkerReconcile(c, w) \/ WorkerScore(c, w) \/ WorkerRefuse(c, w)
             \/ TooManyAttempts(c, w) \/ ScoreReplay(c, w) \/ ScoreRename(c, w) \/ ScoreUnlock(c, w)
             \/ ScoringFails(c, w) \/ Prepare(c, w) \/ PrepareWrite(c, w) \/ RenameNoReplace(c, w)
             \/ PromoteOpen(c, w)
    BY <1>3, <1>4, <1>8 DEF WorkerReconcile, WorkerScore, WorkerRefuse, TooManyAttempts,
       ScoreReplay, ScoreRename, ScoreUnlock, ScoringFails, Prepare, PrepareWrite, RenameNoReplace,
       PromoteOpen
  <1>9. CASE WorkerSkip(c, w) \/ PromoteWrite(c, w)
    BY <1>5, <1>9 DEF WorkerSkip, PromoteWrite
  <1>10. CASE WorkerAdopt(c, w)
    BY <1>1, <1>10 DEF WorkerAdopt
  <1>11. ASSUME NEW a \in Attempts, RetireOpen(c, w, a) \/ RetireWrite(c, w, a)
         PROVE  WorkerLockOwners'
    BY <1>3, <1>4, <1>11 DEF RetireOpen, RetireWrite
  <1>12. ASSUME NEW a \in Attempts, OpenAttempt(c, w, a)  PROVE WorkerLockOwners'
    BY <1>1, <1>12 DEF OpenAttempt
  <1>13. CASE Prune(c, w)
    BY <1>2, <1>4, <1>13 DEF Prune
  <1>14. CASE Summarize(c, w)
    <2>1. summary[w] \in {"absent", "torn", "closed"}
      BY DEF TypeOK, FileTypeOK
    <2>. QED  BY <1>2, <1>3, <1>4, <1>14, <2>1 DEF Summarize
  <1>15. CASE SummarizeWrite(c, w) \/ WorkerDeath(c, w)
    BY <1>2, <1>15 DEF SummarizeWrite, WorkerDeath, WorkerKilled, WorkerInterrupted
  <1>. QED
    BY <1>6, <1>7, <1>8, <1>9, <1>10, <1>11, <1>12, <1>13, <1>14, <1>15 DEF WorkerProgress

-----------------------------------------------------------------------------
(* The coordinator: closing, features, completion                          *)

\* Once every episode is promoted, neither sidecars nor promotions change.
LEMMA CohortKept ==
    ASSUME TypeOK, TypeOK', RecoveryInvariant,
           \A e \in Episodes : ScoreKept(e) /\ PromotionKept(e) /\ Complete(promotion[e])
    PROVE  UNCHANGED <<authority, promotion>>
  <1>1. \A e \in Episodes : authority'[e] = authority[e] /\ promotion'[e] = promotion[e]
    BY DEF ScoreKept, PromotionKept, RecoveryInvariant, EpisodeFiles, Complete
  <1>. QED  BY <1>1 DEF TypeOK, FileTypeOK

\* A closed execution receipt names the whole cohort.
LEMMA ClosedCohort ==
    ASSUME RecoveryInvariant, IsSnapshot(closure)
    PROVE  closure = authority /\ \A e \in Episodes : Complete(promotion[e])
  BY DEF RecoveryInvariant, ClosureBindsAuthority

\* A worker writes nothing of the coordinator's.
LEMMA WorkerFrame ==
    ASSUME TypeOK, NEW c \in Coordinators, NEW w \in Workers,
           WorkerProgress(c, w) \/ ScoringFails(c, w) \/ WorkerDeath(c, w)
    PROVE  UNCHANGED <<cpc, fpc, finalized, closure, features, completion>>
  <1>1. ASSUME NEW fault, WorkerRaise(c, w, fault)
        PROVE  UNCHANGED <<cpc, fpc, finalized, closure, features, completion>>
    BY <1>1 DEF WorkerRaise, WorkerExit, fileVars
  <1>2. CASE \/ WorkerArm(c, w) \/ WorkerLock(c, w) \/ WorkerSkip(c, w) \/ WorkerReconcile(c, w)
             \/ WorkerAdopt(c, w) \/ WorkerScore(c, w) \/ WorkerRefuse(c, w)
             \/ TooManyAttempts(c, w) \/ ScoringFails(c, w) \/ ScoreReplay(c, w)
             \/ ScoreRename(c, w) \/ ScoreUnlock(c, w)
    BY <1>1, <1>2 DEF WorkerArm, WorkerLock, WorkerSkip, WorkerReconcile, WorkerAdopt,
       WorkerScore, WorkerRefuse, TooManyAttempts, ScoringFails, ScoreReplay, ScoreRename,
       ScoreUnlock, WorkerGoTo, fileVars, closingVars
  <1>3. ASSUME NEW a \in Attempts,
               RetireOpen(c, w, a) \/ RetireWrite(c, w, a) \/ OpenAttempt(c, w, a)
        PROVE  UNCHANGED <<cpc, fpc, finalized, closure, features, completion>>
    BY <1>1, <1>3 DEF RetireOpen, RetireWrite, OpenAttempt, WorkerGoTo, closingVars
  <1>4. CASE \/ Prepare(c, w) \/ PrepareWrite(c, w) \/ RenameNoReplace(c, w) \/ Prune(c, w)
             \/ PromoteOpen(c, w) \/ PromoteWrite(c, w)
    BY <1>1, <1>4 DEF Prepare, PrepareWrite, RenameNoReplace, Prune, PromoteOpen, PromoteWrite,
       WorkerGoTo, WorkerExit, fileVars, closingVars
  <1>5. CASE SummarizeWrite(c, w) \/ WorkerDeath(c, w)
    BY <1>5 DEF SummarizeWrite, WorkerDeath, WorkerKilled, WorkerInterrupted, WorkerExit, fileVars,
       closingVars
  <1>6. CASE Summarize(c, w)
    <2>1. summary[w] \in {"absent", "torn", "closed"}
      BY DEF TypeOK, FileTypeOK
    <2>. QED  BY <1>1, <1>6, <2>1 DEF Summarize, WorkerGoTo, WorkerExit, fileVars, closingVars
  <1>. QED  BY <1>2, <1>3, <1>4, <1>5, <1>6 DEF WorkerProgress

\* A worker's step leaves what coordinators know, and what is closed.
LEMMA WorkerKeepsClosing ==
    ASSUME TypeOK, TypeOK', ReceiptInvariant, RecoveryInvariant, NEW c \in Coordinators,
           NEW w \in Workers, WorkerProgress(c, w) \/ ScoringFails(c, w) \/ WorkerDeath(c, w)
    PROVE  /\ ClosureBindsAuthority'
           /\ \A d \in Coordinators : Unspawned(d)' /\ CoordinatorFiles(d)'
  <1>1. WorkerAlive(c, w) /\ FilesStep(c, w)
    BY WorkerStepFiles
  <1>2. \A e \in Episodes : ScoreKept(e) /\ PromotionKept(e)
    BY <1>1, FilesStepSuffices
  <1>3. UNCHANGED <<cpc, fpc, finalized, closure, features, completion>>
    BY WorkerFrame
  <1>4. (\A e \in Episodes : Complete(promotion[e])) => UNCHANGED <<authority, promotion>>
    BY <1>2, CohortKept
  <1>5. ClosureBindsAuthority'
    BY <1>3, <1>4 DEF RecoveryInvariant, ClosureBindsAuthority, IsSnapshot
  <1>6. ASSUME NEW d \in Coordinators  PROVE Unspawned(d)'
    <2>1. Unspawned(d) /\ Unspawned(c)
      BY DEF RecoveryInvariant
    <2>2. cpc[c] = "spawn" => FALSE
      BY <1>1, <2>1 DEF Unspawned, WorkerAlive, WorkerLivePoints
    <2>3. cpc[c] = "spawnSecond" => w # "worker1"
      BY <1>1, <2>1 DEF Unspawned, WorkerAlive, WorkerLivePoints
    <2>4. \A v \in Workers : <<d, v>> # <<c, w>> => wpc'[d][v] = wpc[d][v]
      BY <1>1, NestedLookup DEF FilesStep, OwnStep, GoTo, TypeOK, ProcessTypeOK
    <2>. QED  BY <1>3, <2>1, <2>2, <2>3, <2>4 DEF Unspawned, Workers
  <1>7. ASSUME NEW d \in Coordinators  PROVE CoordinatorFiles(d)'
    <2>1. CoordinatorFiles(d)
      BY DEF RecoveryInvariant
    <2>2. IsSnapshot(closure) => UNCHANGED <<authority, promotion>>
      BY <1>4, ClosedCohort
    <2>. QED  BY <1>3, <1>4, <2>1, <2>2 DEF CoordinatorFiles, IsSnapshot
  <1>. QED  BY <1>5, <1>6, <1>7

\* A step of a coordinator or of its finalizer.
ControlStep(c) ==
    \/ CoordinatorProgress(c) \/ CoordinatorStart(c) \/ OperatorInterrupt(c)
    \/ CoordinatorKilled(c) \/ FinalizerProgress(c) \/ FinalizerKilled(c)

\* It writes no file of an episode, and moves workers only to "off" (when a
\* new run starts) and to "spawned".
LEMMA ControlFrame ==
    ASSUME TypeOK, NEW c \in Coordinators, ControlStep(c)
    PROVE  /\ UNCHANGED <<cur, mine, workerLock, summary>>
           /\ UNCHANGED stagingVars /\ UNCHANGED promotionVars
           /\ \/ UNCHANGED wpc
              \/ CoordinatorStart(c)
              \/ \E w \in Workers : SpawnWorker(c, w)
  BY DEF ControlStep, CoordinatorProgress, CoordinatorStart, OperatorInterrupt, CoordinatorKilled,
     FinalizerProgress, FinalizerKilled, SpawnWorker, WorkersDone, WorkerFailureSeen, Terminated,
     Validate, ValidationFails, CloseReceipt, CloseWrite, FeaturesPresent, SpawnFinalizer,
     FinalizerReaped, AdoptFeatures, CompleteReceipt, CompleteWrite, FinalizerArm, FinalizerRun,
     FinalizerExit, CoordinatorStep, CoordinatorExit, CoordinatorRaise, fileVars, promotionVars,
     stagingVars

\* What is known of the episodes and by the workers is untouched by it.
LEMMA ControlKeepsFiles ==
    ASSUME TypeOK, RecoveryInvariant, NEW c \in Coordinators, ControlStep(c)
    PROVE  /\ \A e \in Episodes : EpisodeFiles(e)' /\ ScoreKept(e)
           /\ \A d \in Coordinators, v \in Workers : WorkerFiles(d, v)'
  <1>1. \A e \in Episodes : SameFiles(e)
    BY ControlFrame DEF SameFiles, stagingVars, promotionVars
  <1>2. \A e \in Episodes : EpisodeFiles(e)' /\ ScoreKept(e) /\ PromotionKept(e)
    BY <1>1, SameFilesSound DEF RecoveryInvariant
  <1>3. ASSUME NEW d \in Coordinators, NEW v \in Workers  PROVE WorkerFiles(d, v)'
    <2>1. wpc'[d][v] \in {wpc[d][v], "off", "spawned"}
      <3>1. CASE CoordinatorStart(c)
        BY <3>1 DEF CoordinatorStart, TypeOK, ProcessTypeOK
      <3>2. ASSUME NEW w \in Workers, SpawnWorker(c, w)
            PROVE  wpc'[d][v] \in {wpc[d][v], "off", "spawned"}
        BY <3>2, NestedLookup DEF SpawnWorker, GoTo, TypeOK, ProcessTypeOK
      <3>. QED  BY <3>1, <3>2, ControlFrame
    <2>2. UNCHANGED <<cur, mine>>
      BY ControlFrame
    <2>3. WorkerKnows(v, wpc[d][v], cur[d][v], mine[d][v]) /\ cur[d][v] \in Episodes
      BY DEF RecoveryInvariant, WorkerFiles, TypeOK, ProcessTypeOK
    <2>4. ASSUME NEW e, NEW a, e = cur[d][v], a = mine[d][v]  PROVE WorkerFiles(d, v)'
      <3>1. \A at : WorkerKnows(v, at, e, a) => WorkerKnows(v, at, e, a)'
        BY <1>1, <1>2, <2>3, <2>4, KnownKept
      <3>2. \A at : at \in {"off", "spawned"} /\ WorkerKnows(v, wpc[d][v], e, a)
                       => WorkerKnows(v, at, e, a)
        BY DEF WorkerKnows
      <3>3. PICK at : at = wpc'[d][v]
        OBVIOUS
      <3>4. WorkerKnows(v, at, e, a)'
        BY <2>1, <2>3, <2>4, <3>1, <3>2, <3>3
      <3>. QED  BY <2>2, <2>4, <3>3, <3>4, OwnKnowledge
    <2>. QED  BY <2>4
  <1>. QED  BY <1>2, <1>3

\* The worker locks and the workers yet to be spawned, through the
\* coordinator's steps.
LEMMA ControlKeepsLocks ==
    ASSUME TypeOK, ReceiptInvariant, RecoveryInvariant, NEW c \in Coordinators, ControlStep(c)
    PROVE  WorkerLockOwners' /\ \A d \in Coordinators : Unspawned(d)'
  <1>0. WorkerLockOwners /\ \A d \in Coordinators : Unspawned(d)
    BY DEF RecoveryInvariant
  <1>1. UNCHANGED workerLock
    BY ControlFrame
  <1>2. CASE CoordinatorStart(c)
    <2>1. \A v \in Workers : wpc'[c][v] = "off" /\ ~WorkerAlive(c, v)
      BY <1>2 DEF CoordinatorStart, TypeOK, ProcessTypeOK, ChildAlive
    <2>2. \A d \in Coordinators \ {c} : wpc'[d] = wpc[d] /\ cpc'[d] = cpc[d]
      BY <1>2 DEF CoordinatorStart, CoordinatorGoTo, TypeOK, ProcessTypeOK
    <2>3. WorkerLockOwners'
      BY <1>0, <1>1, <2>1, <2>2 DEF WorkerLockOwners, WorkerAlive, WorkerLivePoints
    <2>. QED  BY <1>0, <2>1, <2>2, <2>3 DEF Unspawned, Workers
  <1>3. ASSUME NEW w \in Workers, SpawnWorker(c, w)
        PROVE  WorkerLockOwners' /\ \A d \in Coordinators : Unspawned(d)'
    <2>1. wpc[c][w] = "off"
      BY <1>0, <1>3 DEF SpawnWorker, Unspawned
    <2>2. \A d \in Coordinators, v \in Workers :
             wpc'[d][v] = IF d = c /\ v = w THEN "spawned" ELSE wpc[d][v]
      BY <1>3, NestedLookup DEF SpawnWorker, GoTo, TypeOK, ProcessTypeOK
    <2>3. WorkerLockOwners'
      BY <1>0, <1>1, <2>1, <2>2 DEF WorkerLockOwners, WorkerAlive, WorkerLivePoints
    <2>4. \A d \in Coordinators : cpc'[d] = IF d = c THEN IF w = "worker0" THEN "spawnSecond" ELSE "poll"
                                                     ELSE cpc[d]
      BY <1>3 DEF SpawnWorker, CoordinatorGoTo, TypeOK, ProcessTypeOK
    <2>. QED  BY <1>0, <1>3, <2>2, <2>3, <2>4 DEF Unspawned, Workers, SpawnWorker
  <1>4. CASE UNCHANGED wpc
    <2>1. WorkerLockOwners'
      BY <1>0, <1>1, <1>4 DEF WorkerLockOwners, WorkerAlive
    <2>2. CASE \E w \in Workers : SpawnWorker(c, w)
      BY <1>3, <2>2
    <2>3. CASE CoordinatorStart(c)
      BY <1>2, <2>3
    <2>4. CASE ~CoordinatorStart(c) /\ ~\E w \in Workers : SpawnWorker(c, w)
      <3>1. \A d \in Coordinators : cpc'[d] \in {"spawn", "spawnSecond"} => cpc'[d] = cpc[d]
        BY <2>4 DEF ControlStep, CoordinatorProgress, OperatorInterrupt, CoordinatorKilled,
           FinalizerProgress, FinalizerKilled, WorkersDone, WorkerFailureSeen, Terminated, Validate,
           ValidationFails, CloseReceipt, CloseWrite, FeaturesPresent, SpawnFinalizer,
           FinalizerReaped, AdoptFeatures, CompleteReceipt, CompleteWrite, FinalizerArm,
           FinalizerRun, FinalizerExit, CoordinatorStep, CoordinatorGoTo, CoordinatorExit,
           CoordinatorRaise, TypeOK, ProcessTypeOK
      <3>. QED  BY <1>0, <1>4, <2>1, <3>1 DEF Unspawned
    <2>. QED  BY <2>2, <2>3, <2>4
  <1>. QED  BY <1>2, <1>3, <1>4, ControlFrame

\* While a process of run c acts, every other coordinator is off, and stays so.
LEMMA OthersOff ==
    ASSUME TypeOK, ReceiptInvariant, NEW c \in Coordinators, ControlStep(c),
           NEW d \in Coordinators, d # c
    PROVE  cpc[d] = "off" /\ cpc'[d] = "off"
  <1>1. CASE CoordinatorStart(c)
    <2>1. cpc[d] = "off"
      BY <1>1 DEF CoordinatorStart, ReceiptInvariant, LockOwners
    <2>. QED  BY <1>1, <2>1 DEF CoordinatorStart, CoordinatorGoTo, TypeOK, ProcessTypeOK
  <1>2. CASE ~CoordinatorStart(c)
    <2>1. RunAlive(c)
      <3>1. cpc[c] # "off" \/ FinalizerAlive(c)
        <4>1. CASE CoordinatorKilled(c)
          BY <4>1, PlanAssumption DEF CoordinatorKilled, CoordinatorPoints, WorkerLivePoints
        <4>2. CASE ~CoordinatorKilled(c)
          BY <1>2, <4>2 DEF ControlStep, CoordinatorProgress, OperatorInterrupt, FinalizerProgress,
             FinalizerKilled, SpawnWorker, WorkersDone, WorkerFailureSeen, Terminated, Validate,
             ValidationFails, CloseReceipt, CloseWrite, FeaturesPresent, SpawnFinalizer,
             FinalizerReaped, AdoptFeatures, CompleteReceipt, CompleteWrite, FinalizerArm,
             FinalizerRun, FinalizerAlive, FinalizerLivePoints
        <4>. QED  BY <4>1, <4>2
      <3>. QED  BY <3>1 DEF RunAlive, ChildAlive
    <2>2. cpc[d] = "off"
      BY <2>1 DEF ReceiptInvariant, OneRunAtATime, RunAlive
    <2>3. cpc'[d] = cpc[d]
      BY <1>2 DEF ControlStep, CoordinatorProgress, OperatorInterrupt, CoordinatorKilled,
         FinalizerProgress, FinalizerKilled, SpawnWorker, WorkersDone, WorkerFailureSeen, Terminated,
         Validate, ValidationFails, CloseReceipt, CloseWrite, FeaturesPresent, SpawnFinalizer,
         FinalizerReaped, AdoptFeatures, CompleteReceipt, CompleteWrite, FinalizerArm,
         FinalizerRun, FinalizerExit, CoordinatorStep, CoordinatorGoTo, CoordinatorExit,
         CoordinatorRaise, TypeOK, ProcessTypeOK
    <2>. QED  BY <2>2, <2>3
  <1>. QED  BY <1>1, <1>2

\* What closing keeps: the closed files agree, the acting coordinator knows
\* what it relies on, and no check against tampering fires.
ClosingStep(c) ==
    /\ ClosureBindsAuthority'
    /\ CoordinatorFiles(c)'
    /\ UNCHANGED raised \/ raised' \notin TamperFaults

\* A coordinator that ends without touching a file.
LEMMA ControlEnds ==
    ASSUME TypeOK, RecoveryInvariant, NEW c \in Coordinators, CoordinatorExit(c),
           UNCHANGED fileVars, UNCHANGED raised \/ raised' \notin TamperFaults
    PROVE  ClosingStep(c)
  <1>1. cpc'[c] = "off"
    BY DEF CoordinatorExit, CoordinatorGoTo, TypeOK, ProcessTypeOK
  <1>. QED  BY <1>1 DEF ClosingStep, CoordinatorFiles, RecoveryInvariant, ClosureBindsAuthority,
            IsSnapshot, fileVars

\* Every step of a coordinator keeps the closed files and what it relies on.
LEMMA ControlKeepsClosing ==
    ASSUME TypeOK, ReceiptInvariant, RecoveryInvariant, NEW c \in Coordinators, ControlStep(c)
    PROVE  ClosingStep(c)
  <1>0. /\ ProcessTypeOK /\ FileTypeOK /\ ClosureBindsAuthority /\ CoordinatorFiles(c)
        /\ UNCHANGED <<authority, promotion>>
    BY ControlFrame DEF TypeOK, RecoveryInvariant, promotionVars
  <1>1. (\A e \in Episodes : Complete(promotion[e])) => IsSnapshot(authority)
    <2>1. ASSUME \A e \in Episodes : Complete(promotion[e])
          PROVE  \A e \in Episodes : Complete(authority[e])
      BY <2>1 DEF RecoveryInvariant, EpisodeFiles
    <2>. QED  BY <1>0, <2>1, SnapshotFacts DEF FileTypeOK
  <1>2. ASSUME NEW fault, fault \notin TamperFaults, CoordinatorRaise(c, fault)
        PROVE  ClosingStep(c)
    BY <1>2, ControlEnds DEF CoordinatorRaise
  <1>3. ASSUME NEW point, cpc' = [cpc EXCEPT ![c] = point]  PROVE cpc'[c] = point
    BY <1>0, <1>3 DEF ProcessTypeOK
  <1>4. ASSUME NEW point \in {"off", "spawn", "spawnSecond", "poll", "terminating"},
               cpc' = [cpc EXCEPT ![c] = point], UNCHANGED <<fileVars, raised>>
        PROVE  ClosingStep(c)
    BY <1>0, <1>3, <1>4 DEF ClosingStep, CoordinatorFiles, ClosureBindsAuthority, IsSnapshot, fileVars
  <1>5. CASE \/ CoordinatorStart(c) \/ OperatorInterrupt(c) \/ CoordinatorKilled(c)
             \/ WorkerFailureSeen(c) \/ \E w \in Workers : SpawnWorker(c, w)
    BY <1>4, <1>5 DEF CoordinatorStart, OperatorInterrupt, CoordinatorKilled, WorkerFailureSeen,
       SpawnWorker, CoordinatorStep, CoordinatorExit, CoordinatorGoTo
  <1>6. CASE WorkersDone(c)
    <2>1. cpc'[c] = "validate" /\ UNCHANGED <<fileVars, raised>>
      BY <1>3, <1>6 DEF WorkersDone, CoordinatorStep, CoordinatorGoTo
    <2>2. \A w \in Workers : \A f \in Shard(w) : Complete(promotion[f])
      BY <1>6 DEF WorkersDone, RecoveryInvariant, WorkerFiles, WorkerKnows
    <2>3. \A e \in Episodes : Complete(promotion[e])
      BY <2>2, ShardOrder
    <2>. QED  BY <1>0, <2>1, <2>3 DEF ClosingStep, CoordinatorFiles, ClosureBindsAuthority,
              IsSnapshot, fileVars
  <1>7. CASE Terminated(c)
    BY <1>2, <1>7 DEF Terminated, TamperFaults
  <1>8. CASE Validate(c) \/ FeaturesPresent(c)
    <2>1. UNCHANGED <<fileVars, raised>> /\ cpc'[c] = IF Validate(c) THEN "close" ELSE "complete"
      BY <1>3, <1>8 DEF Validate, FeaturesPresent, CoordinatorStep, CoordinatorGoTo
    <2>. QED  BY <1>0, <1>8, <2>1 DEF Validate, FeaturesPresent, ClosingStep, CoordinatorFiles,
              ClosureBindsAuthority, IsSnapshot, fileVars
  <1>9. CASE ValidationFails(c)
    <2>1. \A e \in Episodes : Complete(promotion[e])
      BY <1>0, <1>9 DEF ValidationFails, CoordinatorFiles
    <2>2. \A e \in Episodes : promotion[e] # Absent /\ authority[e] # Absent
      BY <2>1 DEF RecoveryInvariant, EpisodeFiles, Complete
    <2>3. ValidationFault \notin TamperFaults
      BY <2>2 DEF ValidationFault, TamperFaults
    <2>. QED  BY <1>2, <1>9, <2>3 DEF ValidationFails
  <1>10. CASE CloseReceipt(c)
    <2>0. IsSnapshot(authority)
      BY <1>0, <1>1, <1>10 DEF CloseReceipt, CoordinatorFiles
    <2>1. CASE closure = Nowhere
      <3>1. /\ cpc'[c] = "closing" /\ closure' = Unfinished
            /\ UNCHANGED <<features, completion, raised>>
        BY <1>3, <1>10, <2>1 DEF CloseReceipt, CoordinatorStep, CoordinatorGoTo
      <3>. QED  BY <1>0, <1>10, <2>1, <3>1 DEF CloseReceipt, ClosingStep, CoordinatorFiles,
                ClosureBindsAuthority, IsSnapshot
    <2>2. CASE closure # Nowhere /\ closure = authority
      <3>1. cpc'[c] = "features" /\ UNCHANGED <<fileVars, raised>>
        BY <1>3, <1>10, <2>2 DEF CloseReceipt, CoordinatorStep, CoordinatorGoTo
      <3>. QED  BY <1>0, <2>0, <2>2, <3>1 DEF ClosingStep, CoordinatorFiles, ClosureBindsAuthority,
                IsSnapshot, fileVars
    <2>3. CASE closure # Nowhere /\ closure # authority
      <3>1. closure = Unfinished
        BY <1>0, <2>3 DEF ClosureBindsAuthority, IsSnapshot
      <3>2. CoordinatorRaise(c, "tornReceipt")
        BY <1>10, <2>3, <3>1 DEF CloseReceipt, ReceiptFault
      <3>. QED  BY <1>2, <3>2 DEF TamperFaults
    <2>. QED  BY <2>1, <2>2, <2>3
  <1>11. CASE CloseWrite(c)
    <2>1. cpc'[c] = "features" /\ closure' = authority /\ UNCHANGED <<features, completion, raised>>
      BY <1>3, <1>11 DEF CloseWrite, CoordinatorStep, CoordinatorGoTo
    <2>2. IsSnapshot(authority) /\ \A e \in Episodes : Complete(promotion[e])
      BY <1>0, <1>1, <1>11 DEF CloseWrite, CoordinatorFiles
    <2>. QED  BY <1>0, <2>1, <2>2 DEF ClosingStep, CoordinatorFiles, ClosureBindsAuthority, IsSnapshot
  <1>12. CASE SpawnFinalizer(c)
    <2>1. /\ cpc'[c] = "finalizing" /\ fpc'[c] = "spawned" /\ features' = Nowhere
          /\ UNCHANGED <<closure, completion, raised>>
      BY <1>0, <1>3, <1>12 DEF SpawnFinalizer, CoordinatorGoTo, ProcessTypeOK
    <2>. QED  BY <1>0, <1>12, <2>1 DEF SpawnFinalizer, ClosingStep, CoordinatorFiles,
              ClosureBindsAuthority, IsSnapshot
  <1>13. CASE FinalizerReaped(c)
    <2>1. CASE CoordinatorStep(c, "adopt") /\ UNCHANGED <<fileVars, raised>> /\ fpc[c] = "done"
      <3>1. cpc'[c] = "adopt" /\ UNCHANGED <<fpc, finalized>>
        BY <1>3, <2>1 DEF CoordinatorStep, CoordinatorGoTo
      <3>. QED  BY <1>0, <1>13, <2>1, <3>1 DEF FinalizerReaped, ClosingStep, CoordinatorFiles,
                ClosureBindsAuthority, IsSnapshot, fileVars
    <2>. QED  BY <1>2, <1>13, <2>1 DEF FinalizerReaped, TamperFaults
  <1>14. CASE AdoptFeatures(c)
    <2>1. features = Nowhere /\ finalized[c] = authority /\ IsSnapshot(closure)
      BY <1>0, <1>14 DEF AdoptFeatures, CoordinatorFiles
    <2>2. /\ cpc'[c] = "complete" /\ features' = authority
          /\ UNCHANGED <<closure, completion, raised>>
      BY <1>3, <1>14, <2>1 DEF AdoptFeatures, CoordinatorStep, CoordinatorGoTo
    <2>. QED  BY <1>0, <2>1, <2>2 DEF ClosingStep, CoordinatorFiles, ClosureBindsAuthority, IsSnapshot
  <1>15. CASE CompleteReceipt(c)
    <2>1. CASE completion = Nowhere
      <3>1. /\ cpc'[c] = "completing" /\ completion' = Unfinished
            /\ UNCHANGED <<closure, features, raised>>
        BY <1>3, <1>15, <2>1 DEF CompleteReceipt, CoordinatorStep, CoordinatorGoTo
      <3>. QED  BY <1>0, <1>15, <3>1 DEF CompleteReceipt, ClosingStep, CoordinatorFiles,
                ClosureBindsAuthority, IsSnapshot
    <2>2. CASE completion # Nowhere /\ completion = closure
      BY <1>15, <2>2, ControlEnds DEF CompleteReceipt
    <2>3. CASE completion # Nowhere /\ completion # closure
      <3>1. completion = Unfinished
        BY <1>0, <2>3 DEF ClosureBindsAuthority, IsSnapshot
      <3>2. CoordinatorRaise(c, "tornReceipt")
        BY <1>15, <2>3, <3>1 DEF CompleteReceipt, ReceiptFault
      <3>. QED  BY <1>2, <3>2 DEF TamperFaults
    <2>. QED  BY <2>1, <2>2, <2>3
  <1>16. CASE CompleteWrite(c)
    <2>1. cpc'[c] = "off" /\ completion' = closure /\ UNCHANGED <<closure, features, raised>>
      BY <1>3, <1>16 DEF CompleteWrite, CoordinatorExit, CoordinatorGoTo
    <2>. QED  BY <1>0, <1>16, <2>1 DEF CompleteWrite, ClosingStep, CoordinatorFiles,
              ClosureBindsAuthority, IsSnapshot
  <1>17. CASE FinalizerProgress(c) \/ FinalizerKilled(c)
    <2>1. UNCHANGED <<cpc, fileVars>> /\ (UNCHANGED raised \/ raised' = "orphaned")
      BY <1>17 DEF FinalizerProgress, FinalizerArm, FinalizerRun, FinalizerKilled, FinalizerExit
    <2>2. fpc[c] # "done" /\ (fpc'[c] = "done" => finalized'[c] = authority)
      BY <1>0, <1>17 DEF FinalizerProgress, FinalizerArm, FinalizerRun, FinalizerKilled, FinalizerExit,
         FinalizerAlive, FinalizerLivePoints, ProcessTypeOK
    <2>3. cpc[c] = "adopt" => finalized'[c] = finalized[c] \/ finalized'[c] = authority
      BY <1>0, <1>17 DEF FinalizerProgress, FinalizerArm, FinalizerRun, FinalizerKilled, FinalizerExit,
         ProcessTypeOK
    <2>. QED  BY <1>0, <2>1, <2>2, <2>3 DEF ClosingStep, CoordinatorFiles, ClosureBindsAuthority,
              IsSnapshot, fileVars, TamperFaults
  <1>. QED
    BY <1>5, <1>6, <1>7, <1>8, <1>9, <1>10, <1>11, <1>12, <1>13, <1>14, <1>15, <1>16, <1>17
       DEF ControlStep, CoordinatorProgress

-----------------------------------------------------------------------------
(* The theorems                                                            *)

\* One step preserves the invariant, raises no fault of tampering, and loses
\* no score.
LEMMA RecoveryStep ==
    ASSUME TypeOK, TypeOK', ReceiptInvariant, RecoveryInvariant, NoTamperFault, [Next]_vars
    PROVE  RecoveryInvariant' /\ NoTamperFault' /\ \A e \in Episodes : ScoreKept(e)
  <1>1. CASE UNCHANGED vars
    <2>1. \A e \in Episodes : SameFiles(e)
      BY <1>1 DEF vars, SameFiles
    <2>2. \A e \in Episodes : EpisodeFiles(e)' /\ ScoreKept(e)
      BY <2>1, SameFilesSound DEF RecoveryInvariant
    <2>3. /\ \A c \in Coordinators, w \in Workers : WorkerFiles(c, w)'
          /\ WorkerLockOwners'
          /\ \A c \in Coordinators : Unspawned(c)' /\ CoordinatorFiles(c)'
          /\ ClosureBindsAuthority' /\ NoTamperFault'
      BY <1>1 DEF vars, RecoveryInvariant, WorkerFiles, WorkerKnows, Staged, WorkerLockOwners,
         WorkerAlive, Unspawned, CoordinatorFiles, ClosureBindsAuthority, IsSnapshot, NoTamperFault
    <2>. QED  BY <2>2, <2>3 DEF RecoveryInvariant
  <1>2. ASSUME NEW c \in Coordinators, NEW w \in Workers,
               WorkerProgress(c, w) \/ ScoringFails(c, w) \/ WorkerDeath(c, w)
        PROVE  RecoveryInvariant' /\ NoTamperFault' /\ \A e \in Episodes : ScoreKept(e)
    <2>1. WorkerAlive(c, w) /\ FilesStep(c, w)
      BY <1>2, WorkerStepFiles
    <2>2. NoTamperFault'
      BY <2>1 DEF FilesStep, NoTamperFault
    <2>3. WorkerLockOwners'
      BY <1>2, WorkerStepLock
    <2>. QED  BY <1>2, <2>1, <2>2, <2>3, FilesStepSuffices, WorkerKeepsClosing DEF RecoveryInvariant
  <1>3. ASSUME NEW c \in Coordinators, ControlStep(c)
        PROVE  RecoveryInvariant' /\ NoTamperFault' /\ \A e \in Episodes : ScoreKept(e)
    <2>1. ClosingStep(c)
      BY <1>3, ControlKeepsClosing
    <2>2. NoTamperFault' /\ ClosureBindsAuthority'
      BY <2>1 DEF ClosingStep, NoTamperFault
    <2>3. ASSUME NEW d \in Coordinators  PROVE CoordinatorFiles(d)'
      <3>1. CASE d = c
        BY <2>1, <3>1 DEF ClosingStep
      <3>2. CASE d # c
        <4>1. cpc'[d] = "off"
          BY <1>3, <3>2, OthersOff
        <4>. QED  BY <4>1 DEF CoordinatorFiles
      <3>. QED  BY <3>1, <3>2
    <2>. QED  BY <1>3, <2>2, <2>3, ControlKeepsFiles, ControlKeepsLocks DEF RecoveryInvariant
  <1>. QED  BY <1>1, <1>2, <1>3 DEF Next, ControlStep

\* Before anything runs there is no file to disagree.
LEMMA RecoveryInit == Init => RecoveryInvariant /\ NoTamperFault
  <1> SUFFICES ASSUME Init PROVE RecoveryInvariant /\ NoTamperFault
    OBVIOUS
  <1>1. ASSUME NEW e \in Episodes  PROVE EpisodeFiles(e)
    <2>1. Staged(e) = {}
      BY <1>1 DEF Init, Staged, StagedTrees
    <2>. QED  BY <1>1, <2>1, ReceiptFacts DEF Init, EpisodeFiles, Nowhere
  <1>2. ASSUME NEW c \in Coordinators, NEW w \in Workers  PROVE WorkerFiles(c, w)
    BY <1>2, ShardOrder DEF Init, WorkerFiles, WorkerKnows
  <1>3. WorkerLockOwners
    BY PlanAssumption DEF Init, WorkerLockOwners, WorkerAlive, WorkerLivePoints
  <1>4. \A c \in Coordinators : Unspawned(c) /\ CoordinatorFiles(c)
    BY DEF Init, Unspawned, CoordinatorFiles
  <1>5. ClosureBindsAuthority
    BY DEF Init, ClosureBindsAuthority, IsSnapshot
  <1>6. NoTamperFault
    BY DEF Init, NoTamperFault, TamperFaults
  <1>. QED  BY <1>1, <1>2, <1>3, <1>4, <1>5, <1>6 DEF RecoveryInvariant

\* Whatever dies and restarts, the files of every episode and the knowledge
\* of every process stay in order, and no check against tampering fires.
THEOREM RecoveryInvariantHolds == Spec => []RecoveryInvariant /\ []NoTamperFault
  <1>1. Init => RecoveryInvariant /\ NoTamperFault
    BY RecoveryInit
  <1>2. TypeOK /\ TypeOK' /\ ReceiptInvariant /\ RecoveryInvariant /\ NoTamperFault /\ [Next]_vars
          => RecoveryInvariant' /\ NoTamperFault'
    BY RecoveryStep
  <1>. QED  BY <1>1, <1>2, TypeCorrect, ReceiptInvariantHolds, PTL DEF Spec

\* An episode has at most one finished attempt, and none once it has its
\* authoritative sidecar: nothing is scored twice (_worker_main).
THEOREM OneFinishedAttempt == Spec => []AtMostOneFinishedAttempt
  <1>1. RecoveryInvariant => AtMostOneFinishedAttempt
    <2>1. ASSUME NEW e \in Episodes, EpisodeFiles(e)
          PROVE  /\ Cardinality(Staged(e)) <= 1
                 /\ authority[e] # Absent => Staged(e) = {}
      <3>1. Cardinality(Staged(e)) \in {0, 1}
        BY <2>1, AtMostOne DEF EpisodeFiles
      <3>. QED  BY <2>1, <3>1 DEF EpisodeFiles
    <2>. QED  BY <2>1 DEF RecoveryInvariant, AtMostOneFinishedAttempt
  <1>. QED  BY <1>1, RecoveryInvariantHolds, PTL

\* The execution receipt, the features and the completion receipt all speak
\* of the authoritative sidecars, every one of them promoted.
THEOREM ClosureBinds == Spec => []ClosureBindsAuthority
  <1>1. RecoveryInvariant => ClosureBindsAuthority
    BY DEF RecoveryInvariant
  <1>. QED  BY <1>1, RecoveryInvariantHolds, PTL

\* No step replaces an authoritative sidecar, and a finished sidecar leaves
\* staging only to become the authoritative one.
THEOREM ScoresKept == Spec => NoScoreLost
  <1>1. ASSUME TypeOK, TypeOK', ReceiptInvariant, RecoveryInvariant, NoTamperFault, [Next]_vars
        PROVE  [\A e \in Episodes :
                   /\ authority[e] # Absent => authority'[e] = authority[e]
                   /\ \A a \in Staged(e) : a \notin Staged(e)' => authority'[e] = a]_vars
    BY <1>1, RecoveryStep DEF ScoreKept
  <1>. QED
    BY <1>1, TypeCorrect, ReceiptInvariantHolds, RecoveryInvariantHolds, PTL DEF Spec, NoScoreLost

-----------------------------------------------------------------------------
(* The staging attempts and their receipts                                 *)

\* What a step may do to the attempts of episode e: change one that has no
\* receipt of its tree, and open one only behind attempts that have theirs.
AttemptStep(e, b) ==
    /\ ~Receipted(e, b)
    /\ \A x \in Attempts \ {b} : tree'[e][x] = tree[e][x] /\ abandoned'[e][x] = abandoned[e][x]
    /\ \/ tree[e][b] # "absent" \/ tree'[e][b] = "absent"
       \/ \A x \in Attempts : x < b => Receipted(e, x)

\* An emptied attempt of a promoted sidecar is left as it is.
EmptiedKept(e) ==
    \A a \in Attempts : promotion[e] = a /\ tree[e][a] \in {"drained", "lockedDrained"}
        => promotion'[e] = a /\ tree'[e][a] = tree[e][a]

\* What a step does to the staging of episode e.
StagingStep(e) ==
    /\ \/ tree'[e] = tree[e] /\ abandoned'[e] = abandoned[e]
       \/ \E b \in Attempts : AttemptStep(e, b)
    /\ AttemptsClosed(e)'
    /\ EmptiedKept(e)

\* Such a step keeps every receipt, and the order of the attempts.
LEMMA StagingStepSound ==
    ASSUME NEW e \in Episodes, AttemptsInOrder(e), StagingStep(e)
    PROVE  /\ AttemptsInOrder(e)'
           /\ \A a \in Attempts : Receipted(e, a) => Receipted(e, a)'
  <1>1. CASE tree'[e] = tree[e] /\ abandoned'[e] = abandoned[e]
    BY <1>1 DEF AttemptsInOrder, Receipted
  <1>2. ASSUME NEW b \in Attempts, AttemptStep(e, b)
        PROVE  /\ AttemptsInOrder(e)'
               /\ \A a \in Attempts : Receipted(e, a) => Receipted(e, a)'
    <2>1. \A a \in Attempts : Receipted(e, a) => Receipted(e, a)'
      BY <1>2 DEF AttemptStep, Receipted
    <2>2. ASSUME NEW x \in Attempts, NEW y \in Attempts, x < y, tree'[e][y] # "absent"
          PROVE  Receipted(e, x)
      <3>1. CASE y # b
        BY <1>2, <2>2, <3>1 DEF AttemptStep, AttemptsInOrder
      <3>2. CASE y = b
        BY <1>2, <2>2, <3>2 DEF AttemptStep, AttemptsInOrder
      <3>. QED  BY <3>1, <3>2
    <2>. QED  BY <2>1, <2>2 DEF AttemptsInOrder
  <1>. QED  BY <1>1, <1>2 DEF StagingStep

\* Staging that stays the same, while the score root stays the same.
LEMMA SameStaging ==
    ASSUME NEW e \in Episodes, AttemptsClosed(e), tree'[e] = tree[e], abandoned'[e] = abandoned[e],
           authority'[e] = authority[e], PromotionKept(e)
    PROVE  StagingStep(e)
  <1>1. AttemptsClosed(e)'
    BY DEF AttemptsClosed, Receipted
  <1>2. EmptiedKept(e)
    BY ReceiptFacts DEF EmptiedKept, PromotionKept
  <1>. QED  BY <1>1, <1>2 DEF StagingStep

\* Before an episode has its authoritative sidecar nothing of it is emptied.
LEMMA OpenStaging ==
    ASSUME NEW e \in Episodes, EpisodeFiles(e), authority[e] = Absent, authority'[e] = Absent,
           NEW b \in Attempts, AttemptStep(e, b)
    PROVE  StagingStep(e)
  <1>1. AttemptsClosed(e)' /\ EmptiedKept(e)
    BY DEF AttemptsClosed, EmptiedKept, EpisodeFiles
  <1>. QED  BY <1>1 DEF StagingStep

\* Recording attempts and opening one.
LEMMA RetireStaging ==
    ASSUME NEW c \in Coordinators, NEW w \in Workers, NEW e, NEW a, Working(c, w, e, a),
           AttemptsClosed(e), PromotionKept(e), NEW b \in Attempts,
           RetireOpen(c, w, b) \/ RetireWrite(c, w, b) \/ OpenAttempt(c, w, b)
    PROVE  StagingStep(e) /\ (UNCHANGED raised \/ raised' \in {"tornReceipt", "attemptChanged"})
  <1>0. /\ TypeOK /\ EpisodeFiles(e) /\ e \in Episodes /\ e = cur[c][w]
        /\ authority[e] = Absent
    <2>1. wpc[c][w] \in {"retire", "retiring"}
      BY DEF RetireOpen, RetireWrite, OpenAttempt
    <2>. QED  BY <2>1 DEF Working, WorkerKnows
  <1>1. CASE RetireOpen(c, w, b) \/ RetireWrite(c, w, b)
    <2>1. /\ tree[e][b] # "absent" /\ abandoned[e][b] # tree[e][b]
          /\ UNCHANGED <<tree, authority>>
          /\ UNCHANGED raised \/ raised' \in {"tornReceipt", "attemptChanged"}
      BY <1>0, <1>1 DEF RetireOpen, RetireWrite, IsFirst, Unretired, WorkerRaise, fileVars,
         promotionVars
    <2>2. UNCHANGED abandoned \/ \E s : abandoned' = [abandoned EXCEPT ![e][b] = s]
      BY <1>0, <1>1 DEF RetireOpen, RetireWrite, WorkerRaise, fileVars
    <2>3. CASE UNCHANGED abandoned
      BY <1>0, <2>1, <2>3, SameStaging
    <2>4. CASE \E s : abandoned' = [abandoned EXCEPT ![e][b] = s]
      <3>1. \A x \in Attempts \ {b} : abandoned'[e][x] = abandoned[e][x]
        BY <1>0, <2>4, NestedLookup DEF TypeOK, FileTypeOK
      <3>2. AttemptStep(e, b)
        BY <2>1, <3>1 DEF AttemptStep, Receipted
      <3>. QED  BY <1>0, <2>1, <3>2, OpenStaging
    <2>. QED  BY <2>2, <2>3, <2>4
  <1>2. CASE OpenAttempt(c, w, b)
    <2>1. /\ tree[e][b] = "absent" /\ Unretired(e) = {}
          /\ \A x \in Attempts : tree[e][x] = "absent" => b <= x
          /\ tree' = [tree EXCEPT ![e][b] = "empty"] /\ UNCHANGED <<abandoned, authority, raised>>
      BY <1>0, <1>2 DEF OpenAttempt, IsFirst, Unused, promotionVars
    <2>2. \A x \in Attempts : x < b => Receipted(e, x)
      BY <2>1 DEF Unretired, Receipted, Attempts
    <2>3. \A x \in Attempts \ {b} : tree'[e][x] = tree[e][x]
      BY <1>0, <2>1, TreeUpdate
    <2>4. AttemptStep(e, b)
      BY <2>1, <2>2, <2>3 DEF AttemptStep, Receipted
    <2>. QED  BY <1>0, <2>1, <2>4, OpenStaging
  <1>. QED  BY <1>1, <1>2

\* Scoring into an attempt, or being interrupted there.
LEMMA ScoringStaging ==
    ASSUME NEW c \in Coordinators, NEW w \in Workers, NEW e, NEW a, Working(c, w, e, a),
           AttemptsClosed(e), PromotionKept(e),
           \/ ScoreReplay(c, w) \/ ScoreRename(c, w) \/ ScoreUnlock(c, w)
           \/ WorkerInterrupted(c, w)
    PROVE  StagingStep(e) /\ UNCHANGED raised
  <1>0. /\ TypeOK /\ EpisodeFiles(e) /\ e \in Episodes /\ e = cur[c][w] /\ a = mine[c][w]
        /\ UNCHANGED <<abandoned, authority, raised>>
    BY DEF Working, ScoreReplay, ScoreRename, ScoreUnlock, WorkerInterrupted, promotionVars
  <1>1. CASE UNCHANGED tree
    BY <1>0, <1>1, SameStaging
  <1>2. CASE ~UNCHANGED tree
    <2>1. wpc[c][w] \in {"scoring", "publishing", "unlocking"}
      BY <1>2 DEF ScoreReplay, ScoreRename, ScoreUnlock, WorkerInterrupted
    <2>2. PICK s \in TreeStates \ {"absent"} : tree' = [tree EXCEPT ![e][a] = s]
      BY <1>0, <1>2 DEF ScoreReplay, ScoreRename, ScoreUnlock, WorkerInterrupted, SetTree, TreeStates,
         StagedTrees
    <2>3. a \in Attempts
      BY <1>0, <2>1 DEF Working, ReceiptInvariant, WorkerLocals, WorkerLocal
    <2>4. authority[e] = Absent
      BY <2>1 DEF Working, WorkerKnows
    <2>5. tree[e][a] # "absent" /\ abandoned[e][a] # tree[e][a]
      <3>1. CASE wpc[c][w] \in {"scoring", "publishing"}
        BY <3>1 DEF Working, WorkerKnows
      <3>2. CASE wpc[c][w] = "unlocking"
        <4>1. tree[e][a] \in StagedTrees
          BY <3>2 DEF Working, WorkerKnows, Staged
        <4>. QED  BY <1>0, <2>3, <4>1 DEF EpisodeFiles, StagedTrees
      <3>. QED  BY <2>1, <3>1, <3>2
    <2>6. \A x \in Attempts \ {a} : tree'[e][x] = tree[e][x]
      BY <1>0, <2>2, <2>3, TreeUpdate
    <2>7. AttemptStep(e, a)
      BY <1>0, <2>5, <2>6 DEF AttemptStep, Receipted
    <2>. QED  BY <1>0, <2>3, <2>4, <2>7, OpenStaging
  <1>. QED  BY <1>1, <1>2

\* The promotion's rename empties the one attempt that has no receipt, and
\* the prune removes it or leaves it.
LEMMA PromotionStaging ==
    ASSUME NEW c \in Coordinators, NEW w \in Workers, NEW e, NEW a, Working(c, w, e, a),
           AttemptsInOrder(e), AttemptsClosed(e), PromotionKept(e),
           RenameNoReplace(c, w) \/ Prune(c, w)
    PROVE  StagingStep(e) /\ (UNCHANGED raised \/ raised' \in {"destinationExists", "recordMismatch"})
  <1>0. /\ TypeOK /\ EpisodeFiles(e) /\ e \in Episodes /\ e = cur[c][w] /\ a = mine[c][w]
        /\ UNCHANGED <<abandoned, promotion>>
        /\ UNCHANGED raised \/ raised' \in {"destinationExists", "recordMismatch"}
    BY DEF Working, RenameNoReplace, Prune, WorkerRaise, fileVars, promotionVars
  <1>1. CASE RenameNoReplace(c, w)
    <2>1. authority[e] = Absent /\ a \in Staged(e)
      BY <1>1 DEF RenameNoReplace, Working, WorkerKnows
    <2>2. PICK s \in {"drained", "lockedDrained"} : tree' = [tree EXCEPT ![e][a] = s]
      BY <1>0, <1>1, <2>1 DEF RenameNoReplace
    <2>3. authority'[e] = a
      BY <1>0, <1>1, <2>1 DEF RenameNoReplace, TypeOK, FileTypeOK
    <2>4. a \in Attempts /\ tree[e][a] # "absent" /\ ~Receipted(e, a)
      BY <1>0, <2>1 DEF Staged, StagedTrees, EpisodeFiles, Receipted
    <2>5. \A x \in Attempts : tree'[e][x] = IF x = a THEN s ELSE tree[e][x]
      BY <1>0, <2>2, <2>4, NestedLookup DEF TypeOK, FileTypeOK
    <2>6. AttemptStep(e, a)
      BY <1>0, <2>4, <2>5 DEF AttemptStep
    <2>7. ASSUME NEW x \in Attempts, x # a, tree[e][x] # "absent"  PROVE Receipted(e, x)
      <3>1. x < a \/ a < x
        BY <2>4, <2>7 DEF Attempts
      <3>. QED  BY <2>4, <2>7, <3>1 DEF AttemptsInOrder
    <2>8. AttemptsClosed(e)'
      BY <1>0, <2>2, <2>3, <2>5, <2>7 DEF AttemptsClosed, Receipted
    <2>9. EmptiedKept(e)
      BY <1>0, <2>1 DEF EmptiedKept, EpisodeFiles
    <2>. QED  BY <1>0, <2>4, <2>6, <2>8, <2>9 DEF StagingStep
  <1>2. CASE Prune(c, w)
    <2>1. /\ a \in Attempts /\ tree[e][a] \in {"drained", "lockedDrained"}
          /\ promotion[e] = Absent /\ UNCHANGED authority
      BY <1>0, <1>2 DEF Prune, Working, WorkerKnows, promotionVars
    <2>2. PICK s \in {"absent", tree[e][a]} : tree' = [tree EXCEPT ![e][a] = s]
      BY <1>0, <1>2, <2>1 DEF Prune, TypeOK, FileTypeOK
    <2>3. \A x \in Attempts : tree'[e][x] = IF x = a THEN s ELSE tree[e][x]
      BY <1>0, <2>1, <2>2, NestedLookup DEF TypeOK, FileTypeOK
    <2>4. ~Receipted(e, a)
      BY <1>0, <2>1 DEF EpisodeFiles, Receipted
    <2>5. AttemptStep(e, a)
      BY <1>0, <2>1, <2>3, <2>4 DEF AttemptStep
    <2>6. AttemptsClosed(e)'
      BY <1>0, <2>1, <2>2, <2>3 DEF AttemptsClosed, Receipted
    <2>7. EmptiedKept(e)
      BY <2>1, ReceiptFacts DEF EmptiedKept
    <2>. QED  BY <1>0, <2>1, <2>5, <2>6, <2>7 DEF StagingStep
  <1>. QED  BY <1>1, <1>2

\* Why a step may raise, as far as staging goes: the attempts ran out, or an
\* attempt of a promoted sidecar was found without its receipt.
StagingFaults == {"attemptUnreceipted", "tooManyAttempts"}

\* Every step of a worker, at the staging of its own episode.
LEMMA WorkerStaging ==
    ASSUME NEW c \in Coordinators, NEW w \in Workers, NEW e, NEW a, Working(c, w, e, a),
           AttemptsInOrder(e), AttemptsClosed(e), PromotionKept(e),
           WorkerProgress(c, w) \/ ScoringFails(c, w) \/ WorkerDeath(c, w)
    PROVE  /\ StagingStep(e)
           /\ \/ UNCHANGED raised \/ raised' \notin StagingFaults
              \/ raised' = "tooManyAttempts" /\ \A b \in Attempts : Receipted(e, b)
  <1>0. /\ TypeOK /\ e \in Episodes /\ e = cur[c][w]
        /\ \A fault \in {"tornReceipt", "attemptChanged", "destinationExists", "recordMismatch"} :
              fault \notin StagingFaults
    BY DEF Working, StagingFaults
  <1>1. ASSUME UNCHANGED <<stagingVars, authority>>  PROVE StagingStep(e)
    BY <1>0, <1>1, SameStaging DEF stagingVars
  <1>2. CASE \/ WorkerArm(c, w) \/ WorkerLock(c, w) \/ WorkerSkip(c, w) \/ WorkerReconcile(c, w)
             \/ WorkerAdopt(c, w) \/ WorkerScore(c, w) \/ WorkerRefuse(c, w) \/ ScoringFails(c, w)
    <2>1. UNCHANGED <<stagingVars, authority>>
      BY <1>2 DEF WorkerArm, WorkerLock, WorkerSkip, WorkerReconcile, WorkerAdopt, WorkerScore,
         WorkerRefuse, ScoringFails, WorkerRaise, fileVars, stagingVars
    <2>2. UNCHANGED raised \/ raised' \in {"orphaned", "workerLockBusy", "scoringFailed", Reconcile(e)}
      BY <1>0, <1>2 DEF WorkerArm, WorkerLock, WorkerSkip, WorkerReconcile, WorkerAdopt, WorkerScore,
         WorkerRefuse, ScoringFails, WorkerRaise
    <2>3. Reconcile(e) \notin StagingFaults
      BY DEF Reconcile, StagingFaults
    <2>. QED  BY <1>1, <2>1, <2>2, <2>3 DEF StagingFaults
  <1>3. CASE TooManyAttempts(c, w)
    <2>1. UNCHANGED <<stagingVars, authority>> /\ raised' = "tooManyAttempts"
      BY <1>3 DEF TooManyAttempts, WorkerRaise, fileVars, stagingVars
    <2>2. \A b \in Attempts : Receipted(e, b)
      BY <1>0, <1>3 DEF TooManyAttempts, Unretired, Unused, Receipted
    <2>. QED  BY <1>1, <2>1, <2>2
  <1>4. ASSUME NEW b \in Attempts,
               RetireOpen(c, w, b) \/ RetireWrite(c, w, b) \/ OpenAttempt(c, w, b)
        PROVE  StagingStep(e) /\ (UNCHANGED raised \/ raised' \notin StagingFaults)
    BY <1>0, <1>4, RetireStaging
  <1>5. CASE \/ ScoreReplay(c, w) \/ ScoreRename(c, w) \/ ScoreUnlock(c, w)
             \/ WorkerInterrupted(c, w)
    BY <1>0, <1>5, ScoringStaging
  <1>6. CASE RenameNoReplace(c, w) \/ Prune(c, w)
    BY <1>0, <1>6, PromotionStaging
  <1>7. CASE \/ Prepare(c, w) \/ PrepareWrite(c, w) \/ PromoteOpen(c, w) \/ PromoteWrite(c, w)
             \/ SummarizeWrite(c, w) \/ WorkerKilled(c, w)
    <2>1. UNCHANGED <<stagingVars, authority>>
      BY <1>7 DEF Prepare, PrepareWrite, PromoteOpen, PromoteWrite, SummarizeWrite, WorkerKilled,
         WorkerRaise, fileVars, stagingVars, promotionVars
    <2>2. UNCHANGED raised \/ raised' \in {"recordMismatch", "receiptExists"}
      BY <1>7 DEF Prepare, PrepareWrite, PromoteOpen, PromoteWrite, SummarizeWrite, WorkerKilled,
         WorkerRaise
    <2>. QED  BY <1>1, <2>1, <2>2 DEF StagingFaults
  <1>8. CASE Summarize(c, w)
    <2>1. summary[w] \in {"absent", "torn", "closed"}
      BY <1>0 DEF TypeOK, FileTypeOK
    <2>2. UNCHANGED <<stagingVars, authority>> /\ (UNCHANGED raised \/ raised' = "tornReceipt")
      BY <1>8, <2>1 DEF Summarize, WorkerRaise, fileVars, stagingVars, promotionVars
    <2>. QED  BY <1>0, <1>1, <2>2
  <1>. QED
    BY <1>2, <1>3, <1>4, <1>5, <1>6, <1>7, <1>8 DEF WorkerProgress, WorkerDeath

\* Coordinators and finalizers write nothing in staging, and a final
\* validation that misses a receipt misses that of an emptied attempt.
LEMMA ControlStaging ==
    ASSUME TypeOK, ReceiptInvariant, RecoveryInvariant, StagingInvariant, NEW c \in Coordinators,
           ControlStep(c)
    PROVE  /\ \A e \in Episodes : StagingStep(e)
           /\ \/ UNCHANGED raised \/ raised' \notin StagingFaults
              \/ /\ raised' = "attemptUnreceipted"
                 /\ \E e \in Episodes, a \in Attempts :
                       promotion[e] = a /\ tree[e][a] \in {"drained", "lockedDrained"}
  <1>1. \A e \in Episodes : StagingStep(e)
    BY ControlFrame, SameStaging DEF StagingInvariant, PromotionKept, stagingVars, promotionVars
  <1>2. ASSUME NEW fault, CoordinatorRaise(c, fault)  PROVE raised' = fault
    BY <1>2 DEF CoordinatorRaise
  <1>3. CASE ValidationFails(c)
    <2>1. /\ raised' = ValidationFault
          /\ \A e \in Episodes : Complete(promotion[e])
      BY <1>3 DEF ValidationFails, CoordinatorRaise, RecoveryInvariant, CoordinatorFiles
    <2>2. CASE \E e \in Episodes : Unretired(e) # {}
      <3>1. PICK e \in Episodes, a \in Attempts :
               tree[e][a] # "absent" /\ abandoned[e][a] # tree[e][a]
        BY <2>2 DEF Unretired
      <3>2. promotion[e] = authority[e] /\ authority[e] # Absent
        BY <2>1 DEF RecoveryInvariant, EpisodeFiles, Complete
      <3>3. a = authority[e] /\ tree[e][a] \in {"drained", "lockedDrained"}
        BY <3>1, <3>2 DEF StagingInvariant, AttemptsClosed, Receipted
      <3>4. ValidationFault = "attemptUnreceipted"
        <4>1. /\ ~\E f \in Episodes : promotion[f] = Absent
              /\ ~\E f \in Episodes : promotion[f] = Torn
          BY <2>1 DEF Complete
        <4>. HIDE DEF Unretired
        <4>. QED  BY ONLY <2>2, <4>1 DEF ValidationFault
      <3>. QED  BY <1>1, <2>1, <3>2, <3>3, <3>4
    <2>3. CASE ~\E e \in Episodes : Unretired(e) # {}
      <3>1. ValidationFault \in {"inventoryIncomplete", "none"}
        BY <2>1, <2>3 DEF ValidationFault, Complete
      <3>. QED  BY <1>1, <2>1, <3>1 DEF StagingFaults
    <2>. QED  BY <2>2, <2>3
  <1>4. CASE ~ValidationFails(c)
    <2>1. UNCHANGED raised
          \/ raised' \in {"orphaned", "terminated", "finalizerFailed", "featureRootExists",
                          "tornReceipt", "receiptChanged"}
      BY <1>2, <1>4 DEF ControlStep, CoordinatorProgress, CoordinatorStart, OperatorInterrupt,
         CoordinatorKilled, FinalizerProgress, FinalizerKilled, SpawnWorker, WorkersDone,
         WorkerFailureSeen, Terminated, Validate, CloseReceipt, CloseWrite, FeaturesPresent,
         SpawnFinalizer, FinalizerReaped, AdoptFeatures, CompleteReceipt, CompleteWrite, FinalizerArm,
         FinalizerRun, ReceiptFault
    <2>. QED  BY <1>1, <2>1 DEF StagingFaults
  <1>. QED  BY <1>3, <1>4

\* The clauses of OnlyCrashFaults about staging, from every episode's step.
LEMMA StagingSuffices ==
    ASSUME StagingInvariant, OnlyCrashFaults, \A e \in Episodes : StagingStep(e), NoTamperFault',
           \/ UNCHANGED raised \/ raised' \notin StagingFaults
           \/ /\ raised' = "tooManyAttempts"
              /\ \E e \in Episodes : \A a \in Attempts : Receipted(e, a)
           \/ /\ raised' = "attemptUnreceipted"
              /\ \E e \in Episodes, a \in Attempts :
                    promotion[e] = a /\ tree[e][a] \in {"drained", "lockedDrained"}
    PROVE  StagingInvariant' /\ OnlyCrashFaults'
  <1>1. \A e \in Episodes : AttemptsInOrder(e)'
                            /\ \A a \in Attempts : Receipted(e, a) => Receipted(e, a)'
    BY StagingStepSound DEF StagingInvariant
  <1>2. StagingInvariant'
    BY <1>1 DEF StagingInvariant, StagingStep
  <1>3. ASSUME raised' = "attemptUnreceipted"
        PROVE  \E e \in Episodes, a \in Attempts :
                  promotion'[e] = a /\ tree'[e][a] \in {"drained", "lockedDrained"}
    <2>1. PICK e \in Episodes, a \in Attempts :
             promotion[e] = a /\ tree[e][a] \in {"drained", "lockedDrained"}
      BY <1>3 DEF OnlyCrashFaults, StagingFaults
    <2>. QED  BY <2>1 DEF StagingStep, EmptiedKept
  <1>4. ASSUME raised' = "tooManyAttempts"
        PROVE  \E e \in Episodes : \A a \in Attempts : Receipted(e, a)'
    <2>1. PICK e \in Episodes : \A a \in Attempts : Receipted(e, a)
      BY <1>4 DEF OnlyCrashFaults, StagingFaults
    <2>. QED  BY <1>1, <2>1
  <1>. QED  BY <1>2, <1>3, <1>4 DEF OnlyCrashFaults

\* One step keeps the order of the attempts and raises only for a death.
LEMMA StagingInvariantStep ==
    ASSUME TypeOK, TypeOK', ReceiptInvariant, RecoveryInvariant, NoTamperFault', StagingInvariant,
           OnlyCrashFaults, [Next]_vars
    PROVE  StagingInvariant' /\ OnlyCrashFaults'
  <1>1. CASE UNCHANGED vars
    BY <1>1 DEF vars, StagingInvariant, AttemptsInOrder, AttemptsClosed, OnlyCrashFaults,
       NoTamperFault, Receipted
  <1>2. ASSUME NEW c \in Coordinators, NEW w \in Workers,
               WorkerProgress(c, w) \/ ScoringFails(c, w) \/ WorkerDeath(c, w)
        PROVE  StagingInvariant' /\ OnlyCrashFaults'
    <2>1. WorkerAlive(c, w) /\ FilesStep(c, w)
      BY <1>2, WorkerStepFiles
    <2>2. Working(c, w, cur[c][w], mine[c][w])
      BY <2>1, WorkingFacts
    <2>3. \A e \in Episodes : PromotionKept(e)
      BY <2>1, FilesStepSuffices
    <2>4. PICK e \in Episodes : e = cur[c][w]
      BY <2>2 DEF Working
    <2>5. /\ StagingStep(e)
          /\ \/ UNCHANGED raised \/ raised' \notin StagingFaults
             \/ raised' = "tooManyAttempts" /\ \A b \in Attempts : Receipted(e, b)
      BY <1>2, <2>2, <2>3, <2>4, WorkerStaging DEF StagingInvariant
    <2>6. ASSUME NEW f \in Episodes, f # e  PROVE StagingStep(f)
      <3>1. SameFiles(f)
        BY <2>1, <2>4, <2>6 DEF FilesStep
      <3>. QED  BY <2>3, <3>1, SameStaging DEF SameFiles, StagingInvariant
    <2>. QED  BY <2>5, <2>6, StagingSuffices
  <1>3. ASSUME NEW c \in Coordinators, ControlStep(c)
        PROVE  StagingInvariant' /\ OnlyCrashFaults'
    BY <1>3, ControlStaging, StagingSuffices
  <1>. QED  BY <1>1, <1>2, <1>3 DEF Next, ControlStep

\* Whatever dies, an attempt is opened only behind attempts with receipts, and
\* a promoted episode has one for every attempt but the one it emptied.
THEOREM StagingInvariantHolds == Spec => []StagingInvariant /\ []OnlyCrashFaults
  <1>1. Init => StagingInvariant /\ OnlyCrashFaults
    BY DEF Init, StagingInvariant, AttemptsInOrder, AttemptsClosed, OnlyCrashFaults, NoTamperFault,
       TamperFaults, Nowhere
  <1>2. TypeOK /\ TypeOK' /\ ReceiptInvariant /\ RecoveryInvariant /\ NoTamperFault'
          /\ StagingInvariant /\ OnlyCrashFaults /\ [Next]_vars
          => StagingInvariant' /\ OnlyCrashFaults'
    BY StagingInvariantStep
  <1>. QED  BY <1>1, <1>2, TypeCorrect, ReceiptInvariantHolds, RecoveryInvariantHolds, PTL DEF Spec

\* The checks on staging fire only for what a death leaves: tampering is never
\* found, the final validation misses the receipt of an attempt only where a
\* death left the one that a promotion emptied, and an episode's attempts run
\* out only when every one of them has its receipt (_reconcile, _promote,
\* _next_attempt_root, _validate_abandoned_staging).
THEOREM OnlyCrashes == Spec => []OnlyCrashFaults
  BY StagingInvariantHolds, PTL

-----------------------------------------------------------------------------
(* The continuation implements the scoring ledger                          *)

\* The cohort's phase, from the two closing receipts.
LEMMA PhaseFacts ==
    ASSUME ClosureBindsAuthority
    PROVE  /\ ~IsSnapshot(closure) => LedgerPhase = "open"
           /\ IsSnapshot(closure) /\ ~IsSnapshot(completion) => LedgerPhase = "closed"
           /\ IsSnapshot(completion) => LedgerPhase = "complete"
           /\ IsSnapshot(completion) => IsSnapshot(closure)
  BY DEF ClosureBindsAuthority, LedgerPhase

\* A worker's step publishes at most one sidecar, while the cohort is open.
LEMMA WorkerImplements ==
    ASSUME TypeOK, TypeOK', ReceiptInvariant, RecoveryInvariant, RecoveryInvariant',
           NEW c \in Coordinators, NEW w \in Workers,
           WorkerProgress(c, w) \/ ScoringFails(c, w) \/ WorkerDeath(c, w)
    PROVE  [Ledger!LedgerNext]_(Ledger!ledgerVars)
  <1>1. FilesStep(c, w) /\ UNCHANGED <<closure, completion>>
    BY WorkerStepFiles, WorkerFrame
  <1>2. UNCHANGED LedgerPhase
    BY <1>1 DEF LedgerPhase, IsSnapshot
  <1>3. CASE UNCHANGED authority
    BY <1>2, <1>3 DEF Ledger!ledgerVars
  <1>4. CASE ~UNCHANGED authority
    <2> DEFINE e == cur[c][w]
               a == authority'[e]
    <2>1. /\ e \in Episodes
          /\ authority \in [Episodes -> Receipts \ {Torn}]
          /\ authority' \in [Episodes -> Receipts \ {Torn}]
      BY DEF TypeOK, ProcessTypeOK, FileTypeOK
    <2>2. \A f \in Episodes \ {e} : authority'[f] = authority[f]
      BY <1>1 DEF FilesStep, SameFiles
    <2>3. authority' = [authority EXCEPT ![e] = a]
      BY <2>1, <2>2
    <2>4. authority[e] = Absent /\ a \in Attempts
      <3>1. authority[e] # Absent => authority'[e] = authority[e]
        BY <1>1, <2>1 DEF FilesStep, ScoreKept
      <3>2. authority[e] # a
        BY <1>4, <2>1, <2>3
      <3>3. a \in Receipts \ {Torn}
        BY <2>1
      <3>. QED  BY <3>1, <3>2, <3>3 DEF Receipts
    <2>5. ~IsSnapshot(closure)
      <3>1. IsSnapshot(closure) => Complete(promotion[e])
        BY <2>1, ClosedCohort
      <3>2. Complete(promotion[e]) => authority[e] # Absent
        BY <2>1 DEF RecoveryInvariant, EpisodeFiles, Complete
      <3>. QED  BY <2>4, <3>1, <3>2
    <2>6. LedgerPhase = "open"
      BY <2>5, PhaseFacts DEF RecoveryInvariant
    <2>7. Ledger!PublishScore(e, a)
      BY <1>2, <2>3, <2>4, <2>6 DEF Ledger!PublishScore
    <2>. QED  BY <2>1, <2>4, <2>7 DEF Ledger!LedgerNext
  <1>. QED  BY <1>3, <1>4

\* A coordinator publishes nothing, closes a full cohort and completes a
\* closed one.
LEMMA ControlImplements ==
    ASSUME TypeOK, TypeOK', ReceiptInvariant, RecoveryInvariant, RecoveryInvariant',
           NEW c \in Coordinators, ControlStep(c)
    PROVE  [Ledger!LedgerNext]_(Ledger!ledgerVars)
  <1>0. /\ UNCHANGED <<authority, promotion>>
        /\ CoordinatorFiles(c) /\ ClosureBindsAuthority /\ ClosureBindsAuthority'
    BY ControlFrame DEF promotionVars, RecoveryInvariant
  <1>1. CASE CloseWrite(c)
    <2>1. closure' = authority /\ UNCHANGED completion
      BY <1>1 DEF CloseWrite
    <2>2. \A e \in Episodes : Complete(promotion[e])
      BY <1>0, <1>1 DEF CloseWrite, CoordinatorFiles
    <2>3. \A e \in Episodes : Complete(authority[e]) /\ authority[e] # Absent
      BY <2>2 DEF RecoveryInvariant, EpisodeFiles, Complete
    <2>4. IsSnapshot(closure)'
      BY <2>1, <2>3, SnapshotFacts DEF IsSnapshot, TypeOK, FileTypeOK
    <2>5. CASE IsSnapshot(closure)
      <3>1. UNCHANGED closure
        BY <1>0, <2>1, <2>5 DEF ClosureBindsAuthority
      <3>. QED  BY <1>0, <2>1, <3>1 DEF Ledger!ledgerVars, LedgerPhase, IsSnapshot
    <2>6. CASE ~IsSnapshot(closure)
      <3>1. LedgerPhase = "open" /\ ~IsSnapshot(completion)
        BY <1>0, <2>6, PhaseFacts
      <3>2. LedgerPhase' = "closed"
        BY <2>1, <2>4, <3>1 DEF LedgerPhase, IsSnapshot
      <3>. QED  BY <1>0, <2>3, <3>1, <3>2 DEF Ledger!CloseCohort, Ledger!LedgerNext
    <2>. QED  BY <2>5, <2>6
  <1>2. CASE CompleteWrite(c)
    <2>1. completion' = closure /\ UNCHANGED closure
      BY <1>2 DEF CompleteWrite
    <2>2. IsSnapshot(closure)
      BY <1>0, <1>2 DEF CompleteWrite, CoordinatorFiles
    <2>3. CASE IsSnapshot(completion)
      <3>1. UNCHANGED completion
        BY <1>0, <2>1, <2>3 DEF ClosureBindsAuthority
      <3>. QED  BY <1>0, <2>1, <3>1 DEF Ledger!ledgerVars, LedgerPhase, IsSnapshot
    <2>4. CASE ~IsSnapshot(completion)
      <3>1. LedgerPhase = "closed"
        BY <1>0, <2>2, <2>4, PhaseFacts
      <3>2. LedgerPhase' = "complete"
        BY <2>1, <2>2 DEF LedgerPhase, IsSnapshot
      <3>. QED  BY <1>0, <3>1, <3>2 DEF Ledger!CompleteCohort, Ledger!LedgerNext
    <2>. QED  BY <2>3, <2>4
  <1>3. CASE ~CloseWrite(c) /\ ~CompleteWrite(c)
    <2>1. /\ UNCHANGED closure \/ (closure = Nowhere /\ closure' = Unfinished)
          /\ UNCHANGED completion \/ (completion = Nowhere /\ completion' = Unfinished)
      BY <1>3 DEF ControlStep, CoordinatorProgress, CoordinatorStart, OperatorInterrupt,
         CoordinatorKilled, FinalizerProgress, FinalizerKilled, SpawnWorker, WorkersDone,
         WorkerFailureSeen, Terminated, Validate, ValidationFails, CloseReceipt, FeaturesPresent,
         SpawnFinalizer, FinalizerReaped, AdoptFeatures, CompleteReceipt, FinalizerArm, FinalizerRun,
         CoordinatorRaise, fileVars
    <2>2. UNCHANGED LedgerPhase
      BY <2>1 DEF LedgerPhase, IsSnapshot
    <2>. QED  BY <1>0, <2>2 DEF Ledger!ledgerVars
  <1>. QED  BY <1>1, <1>2, <1>3

\* The two-worker continuation implements the scoring ledger: it publishes
\* each episode's sidecar once, closes the cohort only when it is full, and
\* completes it only when it is closed.
THEOREM ImplementsScoringLedger == Spec => ImplementsLedger
  <1>1. Init => Ledger!LedgerInit
    BY DEF Init, Ledger!LedgerInit, Nowhere, LedgerPhase, IsSnapshot
  <1>2. ASSUME TypeOK, TypeOK', ReceiptInvariant, RecoveryInvariant, RecoveryInvariant', [Next]_vars
        PROVE  [Ledger!LedgerNext]_(Ledger!ledgerVars)
    <2>1. CASE UNCHANGED vars
      BY <2>1 DEF vars, Ledger!ledgerVars, LedgerPhase, IsSnapshot
    <2>2. ASSUME NEW c \in Coordinators, NEW w \in Workers,
                 WorkerProgress(c, w) \/ ScoringFails(c, w) \/ WorkerDeath(c, w)
          PROVE  [Ledger!LedgerNext]_(Ledger!ledgerVars)
      BY <1>2, <2>2, WorkerImplements
    <2>3. ASSUME NEW c \in Coordinators, ControlStep(c)
          PROVE  [Ledger!LedgerNext]_(Ledger!ledgerVars)
      BY <1>2, <2>3, ControlImplements
    <2>. QED  BY <1>2, <2>1, <2>2, <2>3 DEF Next, ControlStep
  <1>. QED
    BY <1>1, <1>2, TypeCorrect, ReceiptInvariantHolds, RecoveryInvariantHolds, PTL
       DEF Spec, ImplementsLedger, Ledger!LedgerSpec

=============================================================================
