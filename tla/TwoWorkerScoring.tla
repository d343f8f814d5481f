--------------------------- MODULE TwoWorkerScoring ---------------------------
(***************************************************************************)
(* The plan execution of the serial-to-two-worker Calibration continuation *)
(* (ops/calibration_two_worker_continuation_18d6494.py): a coordinator     *)
(* that holds the global flock spawns two workers, each worker scores its  *)
(* shard in private staging attempts and promotes each sidecar through a   *)
(* prepared receipt, a no-replace rename and a promotion receipt; then the *)
(* coordinator validates, closes the execution receipt, runs the finalizer *)
(* and writes the completion receipt.  Any process may die between any two *)
(* file operations and the coordinator may be restarted with `resume`.     *)
(*                                                                         *)
(* A receipt is written by _write_exclusive: create the file, then write   *)
(* its bytes.  The two are separate steps here, so a death between them    *)
(* leaves a Torn receipt, which _strict_json refuses ever after.           *)
(*                                                                         *)
(* A sidecar's content is the number of the attempt that scored it: no two *)
(* attempts measure the same costs, so no two sidecars have one digest.    *)
(***************************************************************************)
EXTENDS Integers, FiniteSets

CONSTANTS
    Coordinators,   \* identities of coordinator processes (cutover or resume)
    NoCoordinator,  \* the holder of a free worker lock
    EpisodeCount,   \* the plan's missing episodes, in manifest order
    AttemptLimit,   \* staging attempts per episode (999 in the code)
    MaxFaults,      \* bound: deaths, scoring errors and operator interrupts
    FaultPoints     \* bound: program points where a death may land

Episodes == 1..EpisodeCount
Attempts == 1..AttemptLimit
Workers == {"worker0", "worker1"}
Roles == Workers \cup {"coordinator", "finalizer"}

\* Receipts hold an attempt number; these two stand for no file and for a
\* file whose bytes never reached the disk.
Absent == 0
Torn == -1
Receipts == {Absent, Torn} \cup Attempts
Complete(receipt) == receipt \notin {Absent, Torn}

\* What one staging attempt directory holds.
StagedTrees == {"lockedStaged", "staged"}
TreeStates == {"absent", "empty", "partial", "drained", "lockedDrained"} \cup StagedTrees

WorkerLivePoints ==
    {"spawned", "locking", "next", "retire", "retiring", "scoring", "publishing",
     "unlocking", "prepare", "preparing", "rename", "prune", "promote",
     "promoting", "summarize", "summarizing"}
WorkerPoints == WorkerLivePoints \cup {"off", "done", "failed"}
CoordinatorPoints ==
    {"off", "spawn", "spawnSecond", "poll", "terminating", "validate", "close",
     "closing", "features", "finalizing", "adopt", "complete", "completing"}
FinalizerLivePoints == {"spawned", "running"}
FinalizerPoints == FinalizerLivePoints \cup {"off", "done", "failed"}

\* Why a program raised.
Faults ==
    {"orphaned", "workerLockBusy", "tornReceipt", "recordMismatch", "multipleStaged",
     "unreceiptedDestination", "preparedDisappeared", "attemptChanged",
     "tooManyAttempts", "scoringFailed", "destinationExists", "terminated",
     "promotionMissing", "attemptUnreceipted", "inventoryIncomplete",
     "receiptExists", "receiptChanged", "finalizerFailed", "featureRootExists"}

ASSUME PlanAssumption ==
    /\ NoCoordinator \notin Coordinators
    /\ EpisodeCount \in Nat /\ EpisodeCount >= 2
    /\ AttemptLimit \in Nat /\ AttemptLimit >= 1
    /\ MaxFaults \in Nat
    /\ FaultPoints \subseteq WorkerLivePoints \cup (CoordinatorPoints \ {"off"})

\* The shards are missing[::2] and missing[1::2]; manifest positions count
\* from 1 here.
FirstOf(w) == IF w = "worker0" THEN 1 ELSE 2
Owner(e) == IF e % 2 = 1 THEN "worker0" ELSE "worker1"
Shard(w) == {e \in Episodes : Owner(e) = w}

VARIABLES
    \* processes
    cpc,         \* cpc[c]: where coordinator c is
    wpc,         \* wpc[c][w]: where the worker w that c spawned is
    fpc,         \* fpc[c]: where the finalizer that c spawned is
    cur,         \* cur[c][w]: the episode that worker is at
    mine,        \* mine[c][w]: the staging attempt it works with
    lockFds,     \* the processes holding a descriptor of the locked global lock
    workerLock,  \* workerLock[w]: the run whose worker holds worker<w>.lock
    finalized,   \* finalized[c]: the sidecars the finalizer of c was built from
    \* files
    tree,        \* tree[e][a]: staging attempt a of episode e
    abandoned,   \* abandoned[e][a]: the tree its abandoned-attempt receipt records
    prepared,    \* prepared[e]: prepared/<e>.json
    authority,   \* authority[e]: the sidecar in the authoritative score root
    promotion,   \* promotion[e]: promotions/<e>.json
    summary,     \* summary[w]: worker<w>/worker-summary.json
    closure,     \* execution-receipt.json: the sidecar of every episode
    features,    \* the authoritative feature root
    completion,  \* completion.json: the execution receipt it binds
    \* environment
    budget,      \* faults so far, up to MaxFaults
    raised       \* the fault raised last

processVars == <<cpc, wpc, fpc, cur, mine, lockFds, workerLock, finalized>>
stagingVars == <<tree, abandoned>>
promotionVars == <<prepared, authority, promotion>>
closingVars == <<closure, features, completion>>
fileVars == <<tree, abandoned, prepared, authority, promotion, summary,
              closure, features, completion>>
vars == <<cpc, wpc, fpc, cur, mine, lockFds, workerLock, finalized,
          tree, abandoned, prepared, authority, promotion, summary,
          closure, features, completion, budget, raised>>

\* Receipts and roots that name every episode: no file, or an incomplete one.
Nowhere == [e \in Episodes |-> Absent]
Unfinished == [e \in Episodes |-> Torn]
IsSnapshot(file) == file \notin {Nowhere, Unfinished}

-----------------------------------------------------------------------------
\* The serial runner made the feature root before it was interrupted.
Init ==
    /\ cpc = [c \in Coordinators |-> "off"]
    /\ wpc = [c \in Coordinators |-> [w \in Workers |-> "off"]]
    /\ fpc = [c \in Coordinators |-> "off"]
    /\ cur = [c \in Coordinators |-> [w \in Workers |-> FirstOf(w)]]
    /\ mine = [c \in Coordinators |-> [w \in Workers |-> Absent]]
    /\ lockFds = {}
    /\ workerLock = [w \in Workers |-> NoCoordinator]
    /\ finalized = [c \in Coordinators |-> Nowhere]
    /\ tree = [e \in Episodes |-> [a \in Attempts |-> "absent"]]
    /\ abandoned = [e \in Episodes |-> [a \in Attempts |-> "absent"]]
    /\ prepared = Nowhere
    /\ authority = Nowhere
    /\ promotion = Nowhere
    /\ summary = [w \in Workers |-> "absent"]
    /\ closure = Nowhere
    /\ features = Unfinished
    /\ completion = Nowhere
    /\ budget = 0
    /\ raised = "none"

WorkerAlive(c, w) == wpc[c][w] \in WorkerLivePoints
FinalizerAlive(c) == fpc[c] \in FinalizerLivePoints
ChildAlive(c) == FinalizerAlive(c) \/ \E w \in Workers : WorkerAlive(c, w)

GoTo(c, w, point) == wpc' = [wpc EXCEPT ![c][w] = point]
CoordinatorGoTo(c, point) == cpc' = [cpc EXCEPT ![c] = point]
SpendFault == budget < MaxFaults /\ budget' = budget + 1

\* The end of a worker process closes its descriptors; its locals are gone.
WorkerExit(c, w, point) ==
    /\ GoTo(c, w, point)
    /\ lockFds' = lockFds \ {<<c, w>>}
    /\ workerLock' = [workerLock EXCEPT ![w] = IF @ = c THEN NoCoordinator ELSE @]
    /\ cur' = [cur EXCEPT ![c][w] = FirstOf(w)]
    /\ mine' = [mine EXCEPT ![c][w] = Absent]
    /\ UNCHANGED <<cpc, fpc, finalized>>

\* A worker that raises unwinds, writes nothing more and exits nonzero.
WorkerRaise(c, w, fault) ==
    /\ WorkerExit(c, w, "failed")
    /\ raised' = fault
    /\ UNCHANGED fileVars

\* A worker step that stays in the process.
WorkerGoTo(c, w, point) ==
    /\ GoTo(c, w, point)
    /\ UNCHANGED <<cpc, fpc, cur, mine, lockFds, workerLock, finalized>>

-----------------------------------------------------------------------------
(* The worker: _worker_main                                                *)

\* _arm_parent_death_signal: arm PDEATHSIG unless the coordinator is gone.
WorkerArm(c, w) ==
    /\ wpc[c][w] = "spawned"
    /\ IF cpc[c] # "off"
         THEN WorkerGoTo(c, w, "locking") /\ UNCHANGED <<fileVars, raised>>
         ELSE WorkerRaise(c, w, "orphaned")
    /\ UNCHANGED budget

WorkerLock(c, w) ==
    /\ wpc[c][w] = "locking"
    /\ IF workerLock[w] = NoCoordinator
         THEN /\ workerLock' = [workerLock EXCEPT ![w] = c]
              /\ cur' = [cur EXCEPT ![c][w] = FirstOf(w)]
              /\ GoTo(c, w, "next")
              /\ UNCHANGED <<cpc, fpc, mine, lockFds, finalized, fileVars, raised>>
         ELSE WorkerRaise(c, w, "workerLockBusy")
    /\ UNCHANGED budget

Staged(e) == {a \in Attempts : tree[e][a] \in StagedTrees}

\* Mutant: staging is not searched, so a finished attempt is scored again.
ReconcileWithoutAdoption(e) ==
    IF promotion[e] # Absent THEN "skip"
    ELSE IF authority[e] # Absent THEN "reconcile"
    ELSE "score"

\* Mutant: a destination without its promotion receipt is refused.
ReconcileRefusingUnpromoted(e) ==
    IF promotion[e] # Absent THEN "skip"
    ELSE IF authority[e] # Absent THEN "unreceiptedDestination"
    ELSE IF Staged(e) # {} THEN "adopt"
    ELSE "score"

\* Mutant: the prepared receipt is looked at before the staged sidecar.
ReconcilePreparedFirst(e) ==
    IF promotion[e] # Absent THEN "skip"
    ELSE IF authority[e] # Absent THEN "reconcile"
    ELSE IF prepared[e] # Absent THEN "preparedDisappeared"
    ELSE IF Staged(e) # {} THEN "adopt"
    ELSE "score"

\* How the worker reconciles what it finds of an episode: what to do next,
\* or why it refuses.
Reconcile(e) ==
    IF promotion[e] = Torn THEN "tornReceipt"
    ELSE IF promotion[e] # Absent
      THEN IF authority[e] = promotion[e] THEN "skip" ELSE "recordMismatch"
    ELSE IF prepared[e] = Torn THEN "tornReceipt"
    ELSE IF Cardinality(Staged(e)) > 1 THEN "multipleStaged"
    ELSE IF authority[e] # Absent
      THEN IF prepared[e] = Absent \/ Staged(e) # {} THEN "unreceiptedDestination"
           ELSE IF authority[e] = prepared[e] THEN "reconcile" ELSE "recordMismatch"
    ELSE IF Staged(e) # {} THEN "adopt"
    ELSE IF prepared[e] # Absent THEN "preparedDisappeared"
    ELSE "score"

\* Mutant: the loop's bound is off by one stride.
AfterEpisodePastShard(c, w) ==
    IF cur[c][w] \in Episodes
      THEN /\ cur' = [cur EXCEPT ![c][w] = @ + 2]
           /\ GoTo(c, w, "next")
      ELSE /\ GoTo(c, w, "summarize")
           /\ UNCHANGED cur

\* The loop goes on to the shard's next episode, or to the summary.
AfterEpisode(c, w) ==
    IF cur[c][w] + 2 \in Episodes
      THEN /\ cur' = [cur EXCEPT ![c][w] = @ + 2]
           /\ GoTo(c, w, "next")
      ELSE /\ GoTo(c, w, "summarize")
           /\ UNCHANGED cur

WorkerSkip(c, w) ==
    /\ wpc[c][w] = "next"
    /\ Reconcile(cur[c][w]) = "skip"
    /\ AfterEpisode(c, w)
    /\ UNCHANGED <<cpc, fpc, mine, lockFds, workerLock, finalized, fileVars, budget, raised>>

\* The destination exists and matches its prepared receipt: only the
\* promotion receipt is missing.
WorkerReconcile(c, w) ==
    /\ wpc[c][w] = "next"
    /\ Reconcile(cur[c][w]) = "reconcile"
    /\ WorkerGoTo(c, w, "promote")
    /\ UNCHANGED <<fileVars, budget, raised>>

WorkerAdopt(c, w) ==
    /\ wpc[c][w] = "next"
    /\ Reconcile(cur[c][w]) = "adopt"
    /\ mine' = [mine EXCEPT ![c][w] = CHOOSE a \in Staged(cur[c][w]) : TRUE]
    /\ GoTo(c, w, "prepare")
    /\ UNCHANGED <<cpc, fpc, cur, lockFds, workerLock, finalized, fileVars, budget, raised>>

WorkerScore(c, w) ==
    /\ wpc[c][w] = "next"
    /\ Reconcile(cur[c][w]) = "score"
    /\ WorkerGoTo(c, w, "retire")
    /\ UNCHANGED <<fileVars, budget, raised>>

WorkerRefuse(c, w) ==
    /\ wpc[c][w] = "next"
    /\ Reconcile(cur[c][w]) \in Faults
    /\ WorkerRaise(c, w, Reconcile(cur[c][w]))
    /\ UNCHANGED budget

\* _next_attempt_root: every attempt directory left by an earlier process
\* gets a receipt of its tree, in order; then a new attempt is made.
Unretired(e) == {a \in Attempts : tree[e][a] # "absent" /\ abandoned[e][a] # tree[e][a]}
Unused(e) == {a \in Attempts : tree[e][a] = "absent"}
IsFirst(a, set) == a \in set /\ \A b \in set : a <= b

RetireOpen(c, w, a) ==
    LET e == cur[c][w] IN
    /\ wpc[c][w] = "retire"
    /\ IsFirst(a, Unretired(e))
    /\ IF abandoned[e][a] = "absent"
         THEN /\ abandoned' = [abandoned EXCEPT ![e][a] = "torn"]
              /\ WorkerGoTo(c, w, "retiring")
              /\ UNCHANGED <<tree, promotionVars, summary, closingVars, raised>>
         ELSE WorkerRaise(c, w, IF abandoned[e][a] = "torn" THEN "tornReceipt"
                                                            ELSE "attemptChanged")
    /\ UNCHANGED budget

RetireWrite(c, w, a) ==
    LET e == cur[c][w] IN
    /\ wpc[c][w] = "retiring"
    /\ IsFirst(a, Unretired(e))
    /\ abandoned' = [abandoned EXCEPT ![e][a] = tree[e][a]]
    /\ WorkerGoTo(c, w, "retire")
    /\ UNCHANGED <<tree, promotionVars, summary, closingVars, budget, raised>>

\* Mutant: an attempt is opened without the receipts of the earlier ones.
OpenAttemptUnreceipted(c, w, a) ==
    LET e == cur[c][w] IN
    /\ wpc[c][w] = "retire"
    /\ IsFirst(a, Unused(e))
    /\ mine' = [mine EXCEPT ![c][w] = a]
    /\ tree' = [tree EXCEPT ![e][a] = "empty"]
    /\ GoTo(c, w, "scoring")
    /\ UNCHANGED <<cpc, fpc, cur, lockFds, workerLock, finalized, abandoned,
                   promotionVars, summary, closingVars, budget, raised>>

OpenAttempt(c, w, a) ==
    LET e == cur[c][w] IN
    /\ wpc[c][w] = "retire"
    /\ Unretired(e) = {}
    /\ IsFirst(a, Unused(e))
    /\ mine' = [mine EXCEPT ![c][w] = a]
    /\ tree' = [tree EXCEPT ![e][a] = "empty"]
    /\ GoTo(c, w, "scoring")
    /\ UNCHANGED <<cpc, fpc, cur, lockFds, workerLock, finalized, abandoned,
                   promotionVars, summary, closingVars, budget, raised>>

TooManyAttempts(c, w) ==
    /\ wpc[c][w] = "retire"
    /\ Unretired(cur[c][w]) = {}
    /\ Unused(cur[c][w]) = {}
    /\ WorkerRaise(c, w, "tooManyAttempts")
    /\ UNCHANGED budget

\* score_replay_to_sidecar into the attempt: rollout replay and forward
\* passes, then _write_sidecar_atomically (publish lock, temporary directory,
\* rename, unlock).
SetTree(c, w, state) == tree' = [tree EXCEPT ![cur[c][w]][mine[c][w]] = state]

ScoreReplay(c, w) ==
    /\ wpc[c][w] = "scoring"
    /\ SetTree(c, w, "partial")
    /\ WorkerGoTo(c, w, "publishing")
    /\ UNCHANGED <<abandoned, promotionVars, summary, closingVars, budget, raised>>

ScoringFails(c, w) ==
    /\ wpc[c][w] = "scoring"
    /\ SpendFault
    /\ WorkerRaise(c, w, "scoringFailed")

ScoreRename(c, w) ==
    /\ wpc[c][w] = "publishing"
    /\ SetTree(c, w, "lockedStaged")
    /\ WorkerGoTo(c, w, "unlocking")
    /\ UNCHANGED <<abandoned, promotionVars, summary, closingVars, budget, raised>>

ScoreUnlock(c, w) ==
    /\ wpc[c][w] = "unlocking"
    /\ SetTree(c, w, "staged")
    /\ WorkerGoTo(c, w, "prepare")
    /\ UNCHANGED <<abandoned, promotionVars, summary, closingVars, budget, raised>>

\* Mutant: the sidecar is renamed before its prepared receipt is written.
PrepareLater(c, w) ==
    /\ wpc[c][w] = "prepare"
    /\ WorkerGoTo(c, w, "rename")
    /\ UNCHANGED <<fileVars, budget, raised>>

\* The prepared receipt binds the staged sidecar's digests; a worker that
\* finds one left by an earlier run checks its sidecar against it.
Prepare(c, w) ==
    LET e == cur[c][w] IN
    /\ wpc[c][w] = "prepare"
    /\ IF prepared[e] = Absent
         THEN /\ prepared' = [prepared EXCEPT ![e] = Torn]
              /\ WorkerGoTo(c, w, "preparing")
              /\ UNCHANGED <<stagingVars, authority, promotion, summary, closingVars, raised>>
         ELSE IF prepared[e] = mine[c][w]
           THEN WorkerGoTo(c, w, "rename") /\ UNCHANGED <<fileVars, raised>>
           ELSE WorkerRaise(c, w, "recordMismatch")
    /\ UNCHANGED budget

PrepareWrite(c, w) ==
    /\ wpc[c][w] = "preparing"
    /\ prepared' = [prepared EXCEPT ![cur[c][w]] = mine[c][w]]
    /\ WorkerGoTo(c, w, "rename")
    /\ UNCHANGED <<stagingVars, authority, promotion, summary, closingVars, budget, raised>>

\* _rename_noreplace: RENAME_NOREPLACE moves the sidecar out of staging into
\* the score root, or fails because the destination exists.
RenameNoReplace(c, w) ==
    LET e == cur[c][w]
        a == mine[c][w] IN
    /\ wpc[c][w] = "rename"
    /\ IF authority[e] = Absent
         THEN /\ authority' = [authority EXCEPT ![e] = a]
              /\ tree' = [tree EXCEPT ![e][a] = IF @ = "lockedStaged" THEN "lockedDrained"
                                                                      ELSE "drained"]
              /\ WorkerGoTo(c, w, "prune")
              /\ UNCHANGED <<abandoned, prepared, promotion, summary, closingVars, raised>>
         ELSE WorkerRaise(c, w, "destinationExists")
    /\ UNCHANGED budget

\* _prune_empty_parents removes the emptied attempt; rmdir stops at a
\* directory that still holds a publish lock.  Then the destination is
\* validated against the receipt.
Prune(c, w) ==
    LET e == cur[c][w] IN
    /\ wpc[c][w] = "prune"
    /\ tree' = [tree EXCEPT ![e][mine[c][w]] = IF @ = "drained" THEN "absent" ELSE @]
    /\ IF authority[e] = prepared[e]
         THEN WorkerGoTo(c, w, "promote") /\ UNCHANGED raised
         ELSE /\ WorkerExit(c, w, "failed")
              /\ raised' = "recordMismatch"
    /\ UNCHANGED <<abandoned, promotionVars, summary, closingVars, budget>>

PromoteOpen(c, w) ==
    /\ wpc[c][w] = "promote"
    /\ IF promotion[cur[c][w]] = Absent
         THEN /\ promotion' = [promotion EXCEPT ![cur[c][w]] = Torn]
              /\ WorkerGoTo(c, w, "promoting")
              /\ UNCHANGED <<stagingVars, prepared, authority, summary, closingVars, raised>>
         ELSE WorkerRaise(c, w, "receiptExists")
    /\ UNCHANGED budget

PromoteWrite(c, w) ==
    LET e == cur[c][w] IN
    /\ wpc[c][w] = "promoting"
    /\ promotion' = [promotion EXCEPT ![e] = prepared[e]]
    /\ AfterEpisode(c, w)
    /\ UNCHANGED <<cpc, fpc, mine, lockFds, workerLock, finalized,
                   stagingVars, prepared, authority, summary, closingVars, budget, raised>>

\* worker-summary.json is written once and checked by every later worker.
Summarize(c, w) ==
    /\ wpc[c][w] = "summarize"
    /\ CASE summary[w] = "absent" ->
              /\ summary' = [summary EXCEPT ![w] = "torn"]
              /\ WorkerGoTo(c, w, "summarizing")
              /\ UNCHANGED <<stagingVars, promotionVars, closingVars, raised>>
         [] summary[w] = "closed" ->
              WorkerExit(c, w, "done") /\ UNCHANGED <<fileVars, raised>>
         [] summary[w] = "torn" -> WorkerRaise(c, w, "tornReceipt")
    /\ UNCHANGED budget

SummarizeWrite(c, w) ==
    /\ wpc[c][w] = "summarizing"
    /\ summary' = [summary EXCEPT ![w] = "closed"]
    /\ WorkerExit(c, w, "done")
    /\ UNCHANGED <<stagingVars, promotionVars, closingVars, budget, raised>>

\* SIGTERM with its default action (PDEATHSIG, or the coordinator's second
\* signal) or SIGKILL: the process stops where it is.
WorkerKilled(c, w) ==
    /\ wpc[c][w] \in FaultPoints
    /\ \/ cpc[c] = "off" /\ wpc[c][w] # "spawned" /\ UNCHANGED budget
       \/ cpc[c] = "terminating" /\ UNCHANGED budget
       \/ SpendFault
    /\ WorkerExit(c, w, "failed")
    /\ UNCHANGED <<fileVars, raised>>

\* Mutant: the cleanup removes the sidecar it has already renamed.
InterruptedDiscarding(c, w) ==
    /\ wpc[c][w] \in FaultPoints
    /\ cpc[c] = "terminating"
    /\ WorkerExit(c, w, "failed")
    /\ IF wpc[c][w] \in {"publishing", "unlocking"} THEN SetTree(c, w, "empty")
                                                    ELSE UNCHANGED tree
    /\ UNCHANGED <<abandoned, promotionVars, summary, closingVars, budget, raised>>

\* Mutant: the cleanup takes back a promotion that has no receipt yet.
InterruptedRollingBack(c, w) ==
    /\ wpc[c][w] \in FaultPoints
    /\ cpc[c] = "terminating"
    /\ WorkerExit(c, w, "failed")
    /\ authority' = IF wpc[c][w] = "promote"
                      THEN [authority EXCEPT ![cur[c][w]] = Absent] ELSE authority
    /\ UNCHANGED <<stagingVars, prepared, promotion, summary, closingVars, budget, raised>>

\* SIGINT raises KeyboardInterrupt: _write_sidecar_atomically removes its
\* temporary directory and its publish lock on the way out.
WorkerInterrupted(c, w) ==
    /\ wpc[c][w] \in FaultPoints
    /\ cpc[c] = "terminating"
    /\ WorkerExit(c, w, "failed")
    /\ CASE wpc[c][w] = "publishing" -> SetTree(c, w, "empty")
         [] wpc[c][w] = "unlocking" -> SetTree(c, w, "staged")
         [] OTHER -> UNCHANGED tree
    /\ UNCHANGED <<abandoned, promotionVars, summary, closingVars, budget, raised>>

-----------------------------------------------------------------------------
(* The coordinator: _resume_main with a plan, then _run_plan               *)

CoordinatorExit(c) ==
    /\ CoordinatorGoTo(c, "off")
    /\ lockFds' = lockFds \ {<<c, "coordinator">>}
    /\ finalized' = [finalized EXCEPT ![c] = Nowhere]
    /\ UNCHANGED <<wpc, fpc, cur, mine, workerLock>>

CoordinatorRaise(c, fault) ==
    /\ CoordinatorExit(c)
    /\ raised' = fault
    /\ UNCHANGED fileVars

CoordinatorStep(c, point) ==
    /\ CoordinatorGoTo(c, point)
    /\ UNCHANGED <<wpc, fpc, cur, mine, lockFds, workerLock, finalized>>

\* LOCK_NB: a coordinator runs only if no process holds a descriptor of the
\* locked file; otherwise it raises before it touches anything.  An identity
\* is used again only when the processes of its last run are gone.
CoordinatorStart(c) ==
    /\ cpc[c] = "off" /\ ~ChildAlive(c)
    /\ lockFds = {}
    /\ lockFds' = {<<c, "coordinator">>}
    /\ CoordinatorGoTo(c, "spawn")
    /\ wpc' = [wpc EXCEPT ![c] = [w \in Workers |-> "off"]]
    /\ fpc' = [fpc EXCEPT ![c] = "off"]
    /\ UNCHANGED <<cur, mine, workerLock, finalized, fileVars, budget, raised>>

\* Mutant: Popen without pass_fds.
SpawnWorkerWithoutLock(c, w) ==
    /\ \/ cpc[c] = "spawn" /\ w = "worker0" /\ CoordinatorGoTo(c, "spawnSecond")
       \/ cpc[c] = "spawnSecond" /\ w = "worker1" /\ CoordinatorGoTo(c, "poll")
    /\ GoTo(c, w, "spawned")
    /\ UNCHANGED <<fpc, cur, mine, lockFds, workerLock, finalized, fileVars, budget, raised>>

\* Popen with pass_fds: the worker inherits the lock's descriptor.
SpawnWorker(c, w) ==
    /\ \/ cpc[c] = "spawn" /\ w = "worker0" /\ CoordinatorGoTo(c, "spawnSecond")
       \/ cpc[c] = "spawnSecond" /\ w = "worker1" /\ CoordinatorGoTo(c, "poll")
    /\ GoTo(c, w, "spawned")
    /\ lockFds' = lockFds \cup {<<c, w>>}
    /\ UNCHANGED <<fpc, cur, mine, workerLock, finalized, fileVars, budget, raised>>

WorkersDone(c) ==
    /\ cpc[c] = "poll"
    /\ \A w \in Workers : wpc[c][w] = "done"
    /\ CoordinatorStep(c, "validate")
    /\ UNCHANGED <<fileVars, budget, raised>>

WorkerFailureSeen(c) ==
    /\ cpc[c] = "poll"
    /\ \E w \in Workers : wpc[c][w] = "failed"
    /\ CoordinatorStep(c, "terminating")
    /\ UNCHANGED <<fileVars, budget, raised>>

\* A SIGINT, SIGTERM or SIGHUP while workers run, a KeyboardInterrupt while
\* the finalizer runs: the children are terminated before the exit.
OperatorInterrupt(c) ==
    /\ cpc[c] \in {"spawnSecond", "poll", "finalizing"}
    /\ SpendFault
    /\ CoordinatorStep(c, "terminating")
    /\ UNCHANGED <<fileVars, raised>>

\* _terminate_processes_without_sigkill returns when no child is live, and
\* raises when one outlives both signals; the coordinator exits either way.
Terminated(c) ==
    /\ cpc[c] = "terminating"
    /\ CoordinatorRaise(c, "terminated")
    /\ UNCHANGED budget

\* SIGKILL, or a SIGTERM outside the handled section.
CoordinatorKilled(c) ==
    /\ cpc[c] \in FaultPoints
    /\ SpendFault
    /\ CoordinatorExit(c)
    /\ UNCHANGED <<fileVars, raised>>

\* _validate_promotions, _validate_abandoned_staging for both workers, and
\* the final inventory, in that order.
ValidationFault ==
    IF \E e \in Episodes : promotion[e] = Absent THEN "promotionMissing"
    ELSE IF \E e \in Episodes : promotion[e] = Torn THEN "tornReceipt"
    ELSE IF \E e \in Episodes : Unretired(e) # {} THEN "attemptUnreceipted"
    ELSE IF \E e \in Episodes : authority[e] = Absent THEN "inventoryIncomplete"
    ELSE "none"

Validate(c) ==
    /\ cpc[c] = "validate"
    /\ ValidationFault = "none"
    /\ CoordinatorStep(c, "close")
    /\ UNCHANGED <<fileVars, budget, raised>>

ValidationFails(c) ==
    /\ cpc[c] = "validate"
    /\ ValidationFault # "none"
    /\ CoordinatorRaise(c, ValidationFault)
    /\ UNCHANGED budget

\* Why a receipt that is not what it should be is refused.
ReceiptFault(receipt) == IF receipt = Unfinished THEN "tornReceipt" ELSE "receiptChanged"

\* Mutant: an execution receipt that exists is trusted unread.
CloseReceiptTrusting(c) ==
    /\ cpc[c] = "close"
    /\ IF closure = Nowhere
         THEN /\ closure' = Unfinished
              /\ CoordinatorStep(c, "closing")
              /\ UNCHANGED <<stagingVars, promotionVars, summary, features, completion, raised>>
         ELSE CoordinatorStep(c, "features") /\ UNCHANGED <<fileVars, raised>>
    /\ UNCHANGED budget

\* execution-receipt.json: written once over the final inventory; a resumed
\* coordinator compares it with the inventory it has just taken.
CloseReceipt(c) ==
    /\ cpc[c] = "close"
    /\ IF closure = Nowhere
         THEN /\ closure' = Unfinished
              /\ CoordinatorStep(c, "closing")
              /\ UNCHANGED <<stagingVars, promotionVars, summary, features, completion, raised>>
         ELSE IF closure = authority
           THEN CoordinatorStep(c, "features") /\ UNCHANGED <<fileVars, raised>>
           ELSE CoordinatorRaise(c, ReceiptFault(closure))
    /\ UNCHANGED budget

CloseWrite(c) ==
    /\ cpc[c] = "closing"
    /\ closure' = authority
    /\ CoordinatorStep(c, "features")
    /\ UNCHANGED <<stagingVars, promotionVars, summary, features, completion, budget, raised>>

\* With a feature summary in place the finalizer is not run again; without
\* one an empty feature root is removed and the finalizer is spawned with a
\* fresh staged root.
FeaturesPresent(c) ==
    /\ cpc[c] = "features"
    /\ IsSnapshot(features)
    /\ CoordinatorStep(c, "complete")
    /\ UNCHANGED <<fileVars, budget, raised>>

SpawnFinalizer(c) ==
    /\ cpc[c] = "features"
    /\ ~IsSnapshot(features)
    /\ features' = Nowhere
    /\ CoordinatorGoTo(c, "finalizing")
    /\ fpc' = [fpc EXCEPT ![c] = "spawned"]
    /\ lockFds' = lockFds \cup {<<c, "finalizer">>}
    /\ UNCHANGED <<wpc, cur, mine, workerLock, finalized, stagingVars, promotionVars,
                   summary, closure, completion, budget, raised>>

FinalizerExit(c, point) ==
    /\ fpc' = [fpc EXCEPT ![c] = point]
    /\ lockFds' = lockFds \ {<<c, "finalizer">>}
    /\ UNCHANGED <<cpc, wpc, cur, mine, workerLock>>

\* _finalizer_main arms the parent-death signal and execs the serial runner.
FinalizerArm(c) ==
    /\ fpc[c] = "spawned"
    /\ IF cpc[c] # "off"
         THEN /\ fpc' = [fpc EXCEPT ![c] = "running"]
              /\ UNCHANGED <<cpc, wpc, cur, mine, lockFds, workerLock, finalized, raised>>
         ELSE /\ FinalizerExit(c, "failed")
              /\ raised' = "orphaned"
              /\ UNCHANGED finalized
    /\ UNCHANGED <<fileVars, budget>>

\* The serial runner with nothing pending: features and predictors of every
\* authoritative sidecar, in the staged root.
FinalizerRun(c) ==
    /\ fpc[c] = "running"
    /\ finalized' = [finalized EXCEPT ![c] = authority]
    /\ FinalizerExit(c, "done")
    /\ UNCHANGED <<fileVars, budget, raised>>

FinalizerKilled(c) ==
    /\ FinalizerAlive(c)
    /\ \/ cpc[c] = "off" /\ fpc[c] # "spawned" /\ UNCHANGED budget
       \/ cpc[c] = "terminating" /\ UNCHANGED budget
       \/ SpendFault
    /\ FinalizerExit(c, "failed")
    /\ UNCHANGED <<finalized, fileVars, raised>>

FinalizerReaped(c) ==
    /\ cpc[c] = "finalizing"
    /\ \/ fpc[c] = "done" /\ CoordinatorStep(c, "adopt") /\ UNCHANGED <<fileVars, raised>>
       \/ fpc[c] = "failed" /\ CoordinatorRaise(c, "finalizerFailed")
    /\ UNCHANGED budget

\* _rename_noreplace of the staged feature root.
AdoptFeatures(c) ==
    /\ cpc[c] = "adopt"
    /\ IF features = Nowhere
         THEN /\ features' = finalized[c]
              /\ CoordinatorStep(c, "complete")
              /\ UNCHANGED <<stagingVars, promotionVars, summary, closure, completion, raised>>
         ELSE CoordinatorRaise(c, "featureRootExists")
    /\ UNCHANGED budget

\* completion.json binds the execution receipt's digest.
CompleteReceipt(c) ==
    /\ cpc[c] = "complete"
    /\ IF completion = Nowhere
         THEN /\ completion' = Unfinished
              /\ CoordinatorStep(c, "completing")
              /\ UNCHANGED <<stagingVars, promotionVars, summary, closure, features, raised>>
         ELSE IF completion = closure
           THEN CoordinatorExit(c) /\ UNCHANGED <<fileVars, raised>>
           ELSE CoordinatorRaise(c, ReceiptFault(completion))
    /\ UNCHANGED budget

CompleteWrite(c) ==
    /\ cpc[c] = "completing"
    /\ completion' = closure
    /\ CoordinatorExit(c)
    /\ UNCHANGED <<stagingVars, promotionVars, summary, closure, features, budget, raised>>

-----------------------------------------------------------------------------
WorkerProgress(c, w) ==
    \/ WorkerArm(c, w) \/ WorkerLock(c, w)
    \/ WorkerSkip(c, w) \/ WorkerReconcile(c, w) \/ WorkerAdopt(c, w)
    \/ WorkerScore(c, w) \/ WorkerRefuse(c, w)
    \/ \E a \in Attempts : RetireOpen(c, w, a) \/ RetireWrite(c, w, a) \/ OpenAttempt(c, w, a)
    \/ TooManyAttempts(c, w)
    \/ ScoreReplay(c, w) \/ ScoreRename(c, w) \/ ScoreUnlock(c, w)
    \/ Prepare(c, w) \/ PrepareWrite(c, w) \/ RenameNoReplace(c, w) \/ Prune(c, w)
    \/ PromoteOpen(c, w) \/ PromoteWrite(c, w)
    \/ Summarize(c, w) \/ SummarizeWrite(c, w)

WorkerDeath(c, w) == WorkerKilled(c, w) \/ WorkerInterrupted(c, w)

CoordinatorProgress(c) ==
    \/ \E w \in Workers : SpawnWorker(c, w)
    \/ WorkersDone(c) \/ WorkerFailureSeen(c) \/ Terminated(c)
    \/ Validate(c) \/ ValidationFails(c) \/ CloseReceipt(c) \/ CloseWrite(c)
    \/ FeaturesPresent(c) \/ SpawnFinalizer(c) \/ FinalizerReaped(c) \/ AdoptFeatures(c)
    \/ CompleteReceipt(c) \/ CompleteWrite(c)

FinalizerProgress(c) == FinalizerArm(c) \/ FinalizerRun(c)

Next ==
    \E c \in Coordinators :
        \/ CoordinatorStart(c) \/ OperatorInterrupt(c) \/ CoordinatorKilled(c)
        \/ CoordinatorProgress(c)
        \/ FinalizerProgress(c) \/ FinalizerKilled(c)
        \/ \E w \in Workers :
              WorkerProgress(c, w) \/ ScoringFails(c, w) \/ WorkerDeath(c, w)

Spec == Init /\ [][Next]_vars

\* Processes run, the parent-death signal is delivered, and the operator
\* restarts the coordinator as long as there is no completion receipt.
Fairness ==
    /\ WF_vars(\E c \in Coordinators : ~IsSnapshot(completion) /\ CoordinatorStart(c))
    /\ \A c \in Coordinators :
          /\ WF_vars(CoordinatorProgress(c))
          /\ WF_vars(FinalizerProgress(c))
          /\ \A w \in Workers : WF_vars(WorkerProgress(c, w))

FairSpec == Spec /\ Fairness


-----------------------------------------------------------------------------
(* Properties                                                              *)

ProcessTypeOK ==
    /\ cpc \in [Coordinators -> CoordinatorPoints]
    /\ wpc \in [Coordinators -> [Workers -> WorkerPoints]]
    /\ fpc \in [Coordinators -> FinalizerPoints]
    /\ cur \in [Coordinators -> [Workers -> Episodes]]
    /\ mine \in [Coordinators -> [Workers -> {Absent} \cup Attempts]]
    /\ lockFds \subseteq Coordinators \X Roles
    /\ workerLock \in [Workers -> Coordinators \cup {NoCoordinator}]
    /\ finalized \in [Coordinators -> [Episodes -> Receipts]]

FileTypeOK ==
    /\ tree \in [Episodes -> [Attempts -> TreeStates]]
    /\ abandoned \in [Episodes -> [Attempts -> TreeStates \cup {"torn"}]]
    /\ prepared \in [Episodes -> Receipts]
    /\ authority \in [Episodes -> Receipts \ {Torn}]
    /\ promotion \in [Episodes -> Receipts]
    /\ summary \in [Workers -> {"absent", "torn", "closed"}]
    /\ closure \in [Episodes -> Receipts]
    /\ features \in [Episodes -> Receipts]
    /\ completion \in [Episodes -> Receipts]

TypeOK ==
    /\ ProcessTypeOK
    /\ FileTypeOK
    /\ budget \in 0..MaxFaults
    /\ raised \in Faults \cup {"none"}

\* "A surviving inherited writer descriptor must keep the global flock held
\* after coordinator exit": while any process of one run lives, no process of
\* another does, so two workers never work on one episode.
RunAlive(c) == cpc[c] # "off" \/ ChildAlive(c)
OneRunAtATime ==
    \A c, d \in Coordinators : RunAlive(c) /\ RunAlive(d) => c = d

\* "Promotion reconciliation requires a hash-bound prepared receipt": an
\* authoritative sidecar is the very attempt its prepared receipt binds, and
\* a promotion receipt never names anything but the authoritative sidecar.
AuthorityReceipted ==
    \A e \in Episodes :
        /\ authority[e] # Absent => prepared[e] = authority[e]
        /\ Complete(promotion[e]) => promotion[e] = authority[e]

\* The inductive invariant behind the two: the descriptors of the lock are
\* exactly those of the live processes, and what a worker at a given point
\* knows of its episode's files.
LockOwners ==
    \A c \in Coordinators :
        /\ <<c, "coordinator">> \in lockFds <=> cpc[c] # "off"
        /\ <<c, "finalizer">> \in lockFds <=> FinalizerAlive(c)
        /\ \A w \in Workers : <<c, w>> \in lockFds <=> WorkerAlive(c, w)

WorkerLocal(c, w) ==
    LET e == cur[c][w] IN
    /\ e \in Shard(w)
    /\ wpc[c][w] \in {"scoring", "publishing", "unlocking", "prepare", "preparing", "rename"}
          => mine[c][w] \in Attempts
    /\ wpc[c][w] = "preparing" => prepared[e] = Torn
    /\ wpc[c][w] = "rename" => prepared[e] = mine[c][w]
    /\ wpc[c][w] \in {"prune", "promote", "promoting"} => authority[e] # Absent

WorkerLocals == \A c \in Coordinators, w \in Workers : WorkerLocal(c, w)

ReceiptInvariant ==
    /\ LockOwners
    /\ OneRunAtATime
    /\ WorkerLocals
    /\ AuthorityReceipted

\* "Existing authoritative sidecars are never replaced", and a complete
\* sidecar in staging leaves it only to become the authoritative one: no
\* crash and no restart ever throws finished scoring work away.
NoScoreLost ==
    [][\A e \in Episodes :
          /\ authority[e] # Absent => authority'[e] = authority[e]
          /\ \A a \in Staged(e) : a \notin Staged(e)' => authority'[e] = a]_vars

\* An attempt with a finished sidecar is the episode's only one, and it is
\* never scored again: whatever dies, an episode is published from at most
\* one completed attempt.
AtMostOneFinishedAttempt ==
    \A e \in Episodes :
        /\ Cardinality(Staged(e)) <= 1
        /\ authority[e] # Absent => Staged(e) = {}

\* What a check against tampering raises: it has found a sidecar without a
\* receipt, a receipt without a sidecar, a sidecar that differs from its
\* receipt, a changed attempt or receipt, or a destination in the way.
TamperFaults ==
    {"workerLockBusy", "recordMismatch", "multipleStaged", "unreceiptedDestination",
     "preparedDisappeared", "attemptChanged", "destinationExists", "promotionMissing",
     "inventoryIncomplete", "receiptExists", "receiptChanged", "featureRootExists"}
NoTamperFault == raised \notin TamperFaults

\* The abandoned-attempt receipt of attempt a records the tree that is there.
Receipted(e, a) == tree[e][a] # "absent" /\ abandoned[e][a] = tree[e][a]

\* The checks on staging fire only for what a death leaves.  A tampering is
\* never found.  The final validation misses the receipt of an attempt only
\* where a death came between the rename of a sidecar and the removal of the
\* attempt it emptied, or before the attempt's publish lock was gone.  And
\* the attempts run out only when every one of them has its receipt.
OnlyCrashFaults ==
    /\ NoTamperFault
    /\ raised = "attemptUnreceipted" =>
          \E e \in Episodes, a \in Attempts :
              promotion[e] = a /\ tree[e][a] \in {"drained", "lockedDrained"}
    /\ raised = "tooManyAttempts" =>
          \E e \in Episodes : \A a \in Attempts : Receipted(e, a)

\* The closed execution receipt, the features and the completion receipt all
\* speak of one and the same full set of authoritative sidecars.
ClosureBindsAuthority ==
    /\ IsSnapshot(closure) =>
          closure = authority /\ \A e \in Episodes : Complete(promotion[e])
    /\ IsSnapshot(features) => IsSnapshot(closure) /\ features = closure
    /\ IsSnapshot(completion) => IsSnapshot(features) /\ completion = closure

\* The inductive invariant behind the rest.  Of an episode's files: there is
\* one staged sidecar, before there is an authoritative one; a prepared
\* receipt's sidecar is in staging or in the score root; only what an earlier
\* process left unfinished is recorded as abandoned.
EpisodeFiles(e) ==
    /\ \A a, b \in Staged(e) : a = b
    /\ authority[e] # Absent => prepared[e] = authority[e] /\ Staged(e) = {}
    /\ promotion[e] # Absent => authority[e] # Absent
    /\ Complete(promotion[e]) => promotion[e] = authority[e]
    /\ Complete(prepared[e]) => prepared[e] \in Staged(e) \cup {authority[e]}
    /\ \A a \in Attempts :
          /\ tree[e][a] \in {"drained", "lockedDrained"} => authority[e] # Absent
          /\ abandoned[e][a] # "absent" =>
                /\ tree[e][a] \in {"empty", "partial"}
                /\ abandoned[e][a] \in {"torn", tree[e][a]}

\* What worker w, at point at of episode e with attempt a, knows of its
\* episode's files and of the part of its shard that is behind it.
WorkerKnows(w, at, e, a) ==
    /\ at \in {"retire", "retiring", "scoring", "publishing", "unlocking", "prepare",
               "preparing", "rename"} => authority[e] = Absent
    /\ at \in {"retire", "retiring", "scoring", "publishing"} => Staged(e) = {}
    /\ at \in {"retire", "retiring", "scoring", "publishing", "unlocking"}
          => prepared[e] = Absent
    /\ at = "scoring" => tree[e][a] = "empty"
    /\ at = "publishing" => tree[e][a] = "partial"
    /\ at \in {"scoring", "publishing"} => abandoned[e][a] = "absent"
    /\ at \in {"unlocking", "prepare", "preparing", "rename"} => a \in Staged(e)
    /\ at = "prepare" => prepared[e] \in {Absent, a}
    /\ at = "prune" => a \in Attempts /\ tree[e][a] \in {"drained", "lockedDrained"}
    /\ at \in {"prune", "promote"} => promotion[e] = Absent
    /\ at = "promoting" => promotion[e] = Torn
    /\ \A f \in Shard(w) : f < e => Complete(promotion[f])
    /\ at \in {"summarize", "summarizing", "done"} =>
          \A f \in Shard(w) : Complete(promotion[f])

WorkerFiles(c, w) == WorkerKnows(w, wpc[c][w], cur[c][w], mine[c][w])

\* worker<w>.lock is held by the live worker w that has passed it.
WorkerLockOwners ==
    \A c \in Coordinators, w \in Workers :
        workerLock[w] = c <=> WorkerAlive(c, w) /\ wpc[c][w] \notin {"spawned", "locking"}

\* A coordinator that has yet to spawn a worker has none.
Unspawned(c) ==
    /\ cpc[c] = "spawn" => \A w \in Workers : wpc[c][w] = "off"
    /\ cpc[c] = "spawnSecond" => wpc[c]["worker1"] = "off"

\* What a coordinator knows of the files when it closes the execution.
CoordinatorFiles(c) ==
    /\ cpc[c] \in {"validate", "close", "closing"} => \A e \in Episodes : Complete(promotion[e])
    /\ cpc[c] \in {"features", "finalizing", "adopt", "complete", "completing"}
          => IsSnapshot(closure)
    /\ cpc[c] \in {"finalizing", "adopt"} => features = Nowhere
    /\ cpc[c] = "adopt" \/ (cpc[c] = "finalizing" /\ fpc[c] = "done")
          => finalized[c] = authority
    /\ cpc[c] \in {"complete", "completing"} => IsSnapshot(features)

RecoveryInvariant ==
    /\ \A e \in Episodes : EpisodeFiles(e)
    /\ \A c \in Coordinators, w \in Workers : WorkerFiles(c, w)
    /\ WorkerLockOwners
    /\ \A c \in Coordinators : Unspawned(c) /\ CoordinatorFiles(c)
    /\ ClosureBindsAuthority

\* The inductive invariant behind the staging clauses of OnlyCrashFaults: an
\* attempt is only opened behind receipted ones, and once an episode has its
\* authoritative sidecar, every other attempt has its receipt.
AttemptsInOrder(e) ==
    \A a, b \in Attempts : a < b /\ tree[e][b] # "absent" => Receipted(e, a)
AttemptsClosed(e) ==
    authority[e] # Absent =>
        \A a \in Attempts : tree[e][a] # "absent" =>
            Receipted(e, a)
            \/ (a = authority[e] /\ tree[e][a] \in {"drained", "lockedDrained"})
StagingInvariant == \A e \in Episodes : AttemptsInOrder(e) /\ AttemptsClosed(e)

\* "The coordinator may be restarted with resume": if it is restarted as long
\* as it has not completed and only finitely many faults happen, scoring
\* completes.
ResumeCompletes == <>IsSnapshot(completion)

\* The ledger every scoring program implements.
LedgerPhase ==
    CASE IsSnapshot(completion) -> "complete"
      [] IsSnapshot(closure) /\ ~IsSnapshot(completion) -> "closed"
      [] OTHER -> "open"
Ledger == INSTANCE ScoringLedger WITH
    Contents <- Attempts, None <- Absent, score <- authority, phase <- LedgerPhase
ImplementsLedger == Ledger!LedgerSpec

=============================================================================
