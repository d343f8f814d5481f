---------------------------------- MODULE StudyGates ----------------------------------
(***************************************************************************)
(* The gates between the splits of the study, and the git checkout they    *)
(* read: Discovery rollouts (runtime_cli.py), the Reality Gate lock built  *)
(* from them, the guard of Calibration, the Calibration cells, the freeze  *)
(* of what Calibration fitted (build_calibration_freeze.py), the Locked    *)
(* Test bookkeeping (prepare_locked_test_artifacts.py), the guard of the   *)
(* Locked Test (guard.py) and its cells.                                   *)
(*                                                                         *)
(* The operator edits, commits, checks out and tags in between, in any     *)
(* order.  A tree is a record of the files the gates read; the digest of a *)
(* file is its content.  The instance's clone is the operator's.           *)
(***************************************************************************)
EXTENDS RealityGate, FailureEvents

CONSTANTS Models,           \* what environment.lock may pin: [policy, vlm]
          FirstModel,       \* what it pins at the start
          Worlds,           \* what the simulator may turn out to do
          Outcome(_, _, _), \* world, model and episode to the rollout's outcome
          Host,             \* where locks are built
          GuardHosts,       \* where the Calibration guard may be run
          MaxCommits,       \* bound: commits
          MaxAnalyses,      \* bound: Calibration analyses
          Nothing           \* no file, no tag, no process

\* A commit number is not None; a model is what its two revisions pin.
ASSUME StudyAssumption ==
    /\ Nothing \notin Nat
    /\ FirstModel \in Models
    /\ \A m, n \in Models : m.policy = n.policy /\ m.vlm = n.vlm => m = n

VARIABLES
    world,       \* what the simulator does
    commits,     \* the commits: [parent, tree]
    head,        \* HEAD
    tags,        \* refs/tags
    work,        \* the worktree
    raws,        \* the raw rollouts under the Discovery artifact root
    running,     \* the Discovery rollout in flight
    authority,   \* the guarded Calibration manifest
    calibration, \* the Calibration artifacts
    prepared,    \* the Locked Test manifest has been written
    locked       \* the Locked Test artifacts

git   == <<commits, head, tags>>
gate  == <<raws, running>>
vars  == <<world, commits, head, tags, work, raws, running, authority, calibration, prepared,
           locked>>

PreregTag == "prereg-locked-v1"
FreezeTag == "calibration-locked-v1"

Init ==
    /\ world \in Worlds
    /\ work = [model |-> FirstModel, lock |-> Nothing, freeze |-> Nothing,
               predictor |-> Nothing, arrays |-> Nothing, bookkeeping |-> FALSE]
    /\ commits = <<[parent |-> 0, tree |-> work]>>
    /\ head = 1
    /\ tags = [t \in {PreregTag, FreezeTag} |-> Nothing]
    /\ raws = {} /\ running = Nothing
    /\ authority = Nothing /\ calibration = {} /\ prepared = FALSE /\ locked = {}

-----------------------------------------------------------------------------
(* The checkout. *)

Tree == commits[head].tree

\* .gitignore has *.npz: an array file that is not tracked never shows up in git status.
Visible == DOMAIN Tree \ (IF Tree.arrays = Nothing THEN {"arrays"} ELSE {})

\* git status --porcelain prints nothing.
Clean == \A file \in Visible : work[file] = Tree[file]

\* git merge-base --is-ancestor.
Ancestors(c) ==
    LET chain[d \in 0 .. Len(commits)] == IF d = 0 THEN {} ELSE {d} \cup chain[commits[d].parent]
    IN  chain[c]

Edit(file, content) == work' = [work EXCEPT ![file] = content]

\* The operator amends which models the study runs.
ChangeModel ==
    /\ \E model \in Models \ {work.model} : Edit("model", model)
    /\ UNCHANGED <<world, git, gate, authority, calibration, prepared, locked>>

\* The operator withdraws a freeze that is to be built again.
WithdrawFreeze ==
    /\ work.freeze # Nothing /\ Edit("freeze", Nothing)
    /\ UNCHANGED <<world, git, gate, authority, calibration, prepared, locked>>

\* git add and git commit, the ignored arrays only when they are forced.
Commit ==
    /\ Len(commits) < MaxCommits
    /\ \E forced \in BOOLEAN :
         LET staged == [work EXCEPT !.arrays =
                           IF forced \/ Tree.arrays # Nothing THEN @ ELSE Nothing]
         IN  /\ staged # Tree
             /\ commits' = Append(commits, [parent |-> head, tree |-> staged])
    /\ head' = Len(commits')
    /\ UNCHANGED <<world, tags, work, gate, authority, calibration, prepared, locked>>

\* git checkout: an ignored file that neither side tracks stays where it is.
Checkout ==
    /\ Clean
    /\ \E c \in DOMAIN commits \ {head} :
         /\ head' = c
         /\ work' = [commits[c].tree EXCEPT !.arrays =
                        IF @ = Nothing /\ Tree.arrays = Nothing THEN work.arrays ELSE @]
    /\ UNCHANGED <<world, commits, tags, gate, authority, calibration, prepared, locked>>

\* git tag, which does not move a tag.
Tag(tag) ==
    /\ tags[tag] = Nothing
    /\ tags' = [tags EXCEPT ![tag] = head]
    /\ UNCHANGED <<world, commits, head, work, gate, authority, calibration, prepared, locked>>
-----------------------------------------------------------------------------
(* Discovery (runtime_cli.py, rollout.py). *)

\* _discovery_rollout: the worktree is found clean.
StartDiscovery ==
    /\ running = Nothing /\ Clean
    /\ \E t \in 1 .. Tasks : \E e \in Cells(t) :
         running' = [episode |-> e, manifested |-> FALSE]
    /\ UNCHANGED <<world, git, work, raws, authority, calibration, prepared, locked>>

\* It reads environment.lock, then HEAD, for the manifest of its cell.
ManifestDiscovery ==
    /\ running # Nothing /\ ~running.manifested
    /\ running' = [episode |-> running.episode, manifested |-> TRUE, commit |-> head,
                   policy |-> work.model.policy]
    /\ UNCHANGED <<world, git, work, raws, authority, calibration, prepared, locked>>

\* run_single_episode compares the policy of the snapshots, for which environment.lock is
\* read again, with the one of the manifest.
SnapshotsMatch == work.model.policy = running.policy

\* The artifact is published under the episode's id unless there is one already.
FinishDiscovery ==
    /\ running # Nothing /\ running.manifested
    /\ IF /\ SnapshotsMatch
          /\ \A raw \in raws : EpisodeId(raw.episode) # EpisodeId(running.episode)
       THEN LET seen == Outcome(world, work.model, running.episode)
            IN  raws' = raws \cup
                  {[episode |-> running.episode, commit |-> running.commit, model |-> work.model,
                    valid |-> seen.valid, success |-> seen.success, agrees |-> seen.agrees,
                    frames |-> seen.frames, closes |-> seen.closes]}
       ELSE raws' = raws
    /\ running' = Nothing
    /\ UNCHANGED <<world, git, work, authority, calibration, prepared, locked>>

\* The operator starts over under a fresh artifact root.
NewArtifactRoot ==
    /\ raws # {} /\ raws' = {}
    /\ UNCHANGED <<world, git, work, running, authority, calibration, prepared, locked>>

RolloutsOf(t) == {raw \in raws : raw.episode.task = t}

-----------------------------------------------------------------------------
(* The Reality Gate lock. *)

\* decide_reality_gate over the attempts at a prefix of the shortlist, each from the
\* rollouts of its task; finalize_reality_gate; create_freeze_manifest over the rollouts
\* of the selected task, by the code of some commit; to_guard_payload.  The operator does it
\* where there is no lock.
BuildLock ==
    /\ work.lock = Nothing
    /\ \E n \in 1 .. Tasks, c \in DOMAIN commits :
         LET any(t)      == CHOOSE raw \in RolloutsOf(t) : TRUE
             attempts    == [t \in 1 .. n |->
                               Attempt(t, any(t).commit, any(t).model, RolloutsOf(t))]
             receipt     == GateReceipt(attempts, Host)
             orientation == Orientation(RolloutsOf(n), SymmetryOrder[n])
         IN  /\ \A t \in 1 .. n :
                  /\ RolloutsOf(t) # {}
                  /\ AttemptAccepted(t, any(t).commit, any(t).model, RolloutsOf(t))
             /\ DecisionAccepted(attempts, Host)
             /\ LockAccepted(receipt, orientation)
             /\ BoundsAccepted(RolloutsOf(n), SelectedArtifacts(receipt))
             /\ Edit("lock", GuardPayload(receipt, orientation,
                                          FreezeManifest(n, RolloutsOf(n), c)))
    /\ UNCHANGED <<world, git, gate, authority, calibration, prepared, locked>>

-----------------------------------------------------------------------------
(* The guard (guard.py). *)

\* Mutant: a file in the worktree is taken for one in the lock commit.
TrackedUnchecked(file) == work[file] # Nothing

\* git ls-files --error-unmatch.
Tracked(file) == work[file] # Nothing /\ Tree[file] # Nothing

Tagged(tag) == tags[tag] = head

\* _read_lock.
LockRead(file, tag) == Tracked(file) /\ Tagged(tag) /\ Clean

\* The freeze of the failure events against the cells of the gate: the same episodes with
\* the same validity and success.  The content of the artifacts is not compared.
EventsBound(lock) ==
    /\ lock.freeze.task = lock.task
    /\ {raw.episode : raw \in lock.freeze.expected} = {raw.episode : raw \in lock.artifacts}
    /\ \A a \in lock.freeze.annotations : \E raw \in lock.artifacts :
         a.episode = raw.episode /\ a.valid = raw.valid /\ a.success = raw.success

\* _validate_reality_gate_lock_payload.
LockRehydrates(lock, host) ==
    /\ ReceiptRehydrates(lock.gate, host)
    /\ lock.gate.commit \in DOMAIN commits
    /\ lock.gate.policy = lock.policy /\ lock.gate.selected = lock.task
    /\ lock.artifacts = SelectedArtifacts(lock.gate)
    /\ OrientationRehydrates(lock.orientation)
    /\ LockAccepted(lock.gate, lock.orientation)
    /\ EventsBound(lock)
    /\ lock.freeze.commit \in Ancestors(head)

\* assert_calibration_ready.
CalibrationReady(t, host) ==
    /\ LockRead("lock", PreregTag)
    /\ work.lock.task = t /\ work.lock.policy = work.model.policy
    /\ LockRehydrates(work.lock, host)

\* generate_episode_manifest for Calibration; it is done once, and its commit and digest
\* are constants of the scripts from then on.
AuthorizeCalibration ==
    /\ authority = Nothing
    /\ \E t \in 1 .. Tasks, host \in GuardHosts :
         /\ CalibrationReady(t, host)
         /\ authority' = [task |-> t, commit |-> head, policy |-> work.model.policy]
    /\ UNCHANGED <<world, git, work, gate, calibration, prepared, locked>>

-----------------------------------------------------------------------------
(* Calibration and its freeze. *)

\* calibration_cell_18d6494.py: the checkout is at the commit of the authority, which is
\* tagged, and clean; the task is the first of the shortlist.
CalibrationCell ==
    /\ authority # Nothing
    /\ head = authority.commit /\ tags[PreregTag] = authority.commit /\ Clean
    /\ work.model.policy = authority.policy
    /\ authority.task = 1
    /\ \E e \in Manifest("calibration", 1) :
         /\ \A a \in calibration : a.episode # e
         /\ calibration' = calibration \cup {[episode |-> e, commit |-> authority.commit]}
    /\ UNCHANGED <<world, git, work, gate, authority, prepared, locked>>

CalibrationComplete == {a.episode : a \in calibration} = Manifest("calibration", 1)

\* What Calibration fits, from all its rollouts: predictor and reference arrays, of the
\* first or of a repeated analysis.
Analyse ==
    /\ authority # Nothing /\ CalibrationComplete
    /\ LET version == IF work.predictor = Nothing THEN 1 ELSE work.predictor.version + 1
           fitted  == [version |-> version, from |-> calibration]
       IN  /\ version <= MaxAnalyses
           /\ work' = [work EXCEPT !.predictor = fitted, !.arrays = fitted]
    /\ UNCHANGED <<world, git, gate, authority, calibration, prepared, locked>>

Hashed == {"lock", "predictor", "arrays"}

\* build_calibration_freeze.py: never over an existing freeze; it re-derives what was
\* fitted, copies task and policy from the lock and hashes the files of the worktree.
BuildFreeze ==
    /\ work.freeze = Nothing
    /\ \A file \in Hashed : work[file] # Nothing
    /\ work.predictor = work.arrays
    /\ Edit("freeze", [task |-> work.lock.task, policy |-> work.lock.policy,
                       hashes |-> [file \in Hashed |-> work[file]]])
    /\ UNCHANGED <<world, git, gate, authority, calibration, prepared, locked>>

-----------------------------------------------------------------------------
(* The Locked Test. *)

HashesMatch == \A file \in DOMAIN work.freeze.hashes : work[file] = work.freeze.hashes[file]

\* prepare_locked_test_artifacts.py does not ask whether the artifacts are tracked.  It
\* leaves its two files in the checkout.
PrepareLockedTest ==
    /\ work.freeze # Nothing /\ Tagged(FreezeTag) /\ Clean /\ HashesMatch
    /\ authority # Nothing /\ work.model.policy = authority.policy
    /\ prepared' = TRUE /\ Edit("bookkeeping", TRUE)
    /\ UNCHANGED <<world, git, gate, authority, calibration, locked>>

\* The operator takes the bookkeeping files out of the checkout.
MoveBookkeeping ==
    /\ work.bookkeeping # Tree.bookkeeping
    /\ Edit("bookkeeping", Tree.bookkeeping)
    /\ UNCHANGED <<world, git, gate, authority, calibration, prepared, locked>>

\* assert_locked_test_ready.
LockedTestReady(t) ==
    /\ LockRead("freeze", FreezeTag)
    /\ work.freeze.task = t /\ work.freeze.policy = authority.policy
    /\ \A file \in DOMAIN work.freeze.hashes : Tracked(file)
    /\ HashesMatch

\* locked_test_cell.py: the first task of the shortlist, under the manifest of the
\* Calibration commit.
LockedTestCell ==
    /\ authority # Nothing /\ prepared
    /\ LockedTestReady(1)
    /\ work.model.policy = authority.policy
    /\ \E e \in Manifest("locked_test", 1) :
         /\ \A a \in locked : a.episode # e
         /\ locked' = locked \cup {[episode |-> e, commit |-> authority.commit, ran |-> head]}
    /\ UNCHANGED <<world, git, work, gate, authority, calibration, prepared>>

-----------------------------------------------------------------------------
Next ==
    \/ ChangeModel \/ WithdrawFreeze \/ Commit \/ Checkout
    \/ Tag(PreregTag) \/ Tag(FreezeTag)
    \/ StartDiscovery \/ ManifestDiscovery \/ FinishDiscovery \/ NewArtifactRoot
    \/ BuildLock \/ AuthorizeCalibration
    \/ CalibrationCell \/ Analyse \/ BuildFreeze
    \/ PrepareLockedTest \/ MoveBookkeeping \/ LockedTestCell

Spec == Init /\ [][Next]_vars

-----------------------------------------------------------------------------
(* What the gates are for. *)

\* What a task does under one model, counted on what the simulator does.
Reproduces(t, model) ==
    Cardinality({e \in Iid(t) : Outcome(world, model, e).success}) >= MinSuccesses

HasRange(t, model) ==
    LET valid  == {e \in Yawed(t) : Outcome(world, model, e).valid}
        failed == Cardinality({e \in valid : ~Outcome(world, model, e).success})
    IN  /\ valid # {}
        /\ 100 * Cardinality(valid) >= MinValidPercent * Cardinality(Yawed(t))
        /\ 100 * failed >= MinFailurePercent * Cardinality(valid)
        /\ 100 * failed <= MaxFailurePercent * Cardinality(valid)

\* The first task in order that reproduces with a usable range, all under one policy, and
\* each under one model: two attempts may differ in the base VLM, which is only compared
\* within an attempt.
Selects(task, policy) ==
    /\ \E model \in Models : /\ model.policy = policy
                            /\ Reproduces(task, model) /\ HasRange(task, model)
    /\ \A t \in 1 .. task - 1 :
         \E model \in Models : /\ model.policy = policy
                              /\ ~(Reproduces(t, model) /\ HasRange(t, model))

\* Whatever the operator amended, committed, checked out or started over in between, even
\* under a running rollout, Calibration is only opened for the task that one policy of the
\* study selects (decide_reality_gate, assert_calibration_ready).
CalibrationStandsOnOneStudy ==
    authority # Nothing => Selects(authority.task, authority.policy)

\* Every Locked Test rollout can be had again from the one commit the freeze tag is at:
\* the freeze it ran under, the files that freeze names, and a predictor that was fitted
\* on the whole of Calibration (assert_locked_test_ready, locked_test_cell.py).
LockedTestIsReproducible ==
    \A a \in locked :
        /\ a.ran = tags[FreezeTag]
        /\ LET tree == commits[a.ran].tree
           IN  /\ \A file \in Hashed : tree[file] = tree.freeze.hashes[file]
               /\ {c.episode : c \in tree.predictor.from} = Manifest("calibration", 1)
               /\ \A c \in tree.predictor.from : c.commit = a.commit

-----------------------------------------------------------------------------
(* What the proofs rest on. *)

Files == {"model", "lock", "freeze", "predictor", "arrays", "bookkeeping"}

\* A predictor is fitted on the whole of Calibration, which has one authority.
FittedOnAll(predictor) ==
    /\ authority # Nothing
    /\ {c.episode : c \in predictor.from} = Manifest("calibration", 1)
    /\ \A c \in predictor.from : c.commit = authority.commit

\* What holds of a file holds of it in the worktree and in every commit.
TreeSound(tree) ==
    /\ DOMAIN tree = Files
    /\ tree.model \in Models
    /\ tree.lock # Nothing => Selects(tree.lock.task, tree.lock.policy)
    /\ tree.freeze # Nothing => DOMAIN tree.freeze.hashes = Hashed
    /\ tree.predictor # Nothing => FittedOnAll(tree.predictor)

\* A rollout records what the simulator did under the model it ran with.
RawTrue(raw) ==
    /\ raw.model \in Models
    /\ raw.valid = Outcome(world, raw.model, raw.episode).valid
    /\ raw.success = Outcome(world, raw.model, raw.episode).success

HistorySound ==
    /\ commits \in Seq({commits[c] : c \in 1 .. Len(commits)})
    /\ head \in 1 .. Len(commits)
    /\ \A c \in 1 .. Len(commits) : TreeSound(commits[c].tree)
    /\ DOMAIN tags = {PreregTag, FreezeTag}

StudyInvariant ==
    /\ HistorySound /\ TreeSound(work)
    /\ IsFiniteSet(raws) /\ \A raw \in raws : RawTrue(raw)
    /\ \A a \in calibration : authority # Nothing /\ a.commit = authority.commit
    /\ CalibrationStandsOnOneStudy
    /\ \A a \in locked : a.ran \in 1 .. Len(commits)
    /\ LockedTestIsReproducible
=======================================================================================
