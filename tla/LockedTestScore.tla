---------------------------- MODULE LockedTestScore ----------------------------
(***************************************************************************)
(* Locked Test scoring (ops/locked_test_score.py): processes walk the      *)
(* manifest's valid episodes, forwards, backwards or a shard of it, and    *)
(* publish one sidecar per episode; a finalizing run then publishes the    *)
(* score allocation, the feature cohort, the predictions and the summary   *)
(* in directories named by their content.  Nothing but the file system     *)
(* coordinates them: a publication takes a lock file, stages a directory,  *)
(* renames it and removes the lock file, and whoever meets one waits.      *)
(*                                                                         *)
(* The objects published are numbered: the episodes in manifest order,     *)
(* then the four stages of the finalization in theirs.  A sidecar's        *)
(* content is the process that scored it; a stage's, the sidecars it was   *)
(* computed from.                                                          *)
(***************************************************************************)
EXTENDS Integers, FiniteSets, SequencesExt

CONSTANTS
    Processes,   \* scoring processes
    Finalizers,  \* those started without --skip-finalize
    None,        \* nothing published
    ValidCount,  \* the episodes with a valid reset
    MaxFaults    \* bound: deaths and interrupts

ASSUME ScoreAssumption ==
    /\ Finalizers \subseteq Processes
    /\ ValidCount \in Nat \ {0} /\ MaxFaults \in Nat

Episodes == 1..ValidCount
ScoreFunctions == [Episodes -> Processes \cup {None}]

\* No sidecar and no stage is None.
ASSUME NothingAssumption == None \notin Processes \cup ScoreFunctions

Allocation == ValidCount + 1
Cohort == ValidCount + 2
Predictions == ValidCount + 3
Summary == ValidCount + 4
Stages == Allocation..Summary
Objects == Episodes \cup Stages

Publishing == {"locked", "staged", "unlock", "unlockWait", "unlockRaise"}
Points == Publishing \cup
    {"off", "names", "entries", "verify", "features", "walk", "acquire", "wait", "layout",
     "load", "root", "rootEntries", "rootVerify"}

VARIABLES
    dest,     \* dest[o]: what is published of an object
    lockFile, \* lockFile[o]: its publication lock is there
    staged,   \* staged[o]: a temporary directory of it is there
    builds,   \* the processes whose .cohort-build directory is there
    pc,       \* where each process is
    walk,     \* walk[p]: the episodes it has yet to look at, and whether the policy is loaded
    object,   \* object[p]: the object it publishes, 0 if none
    seen,     \* seen[p]: the locks and directories its listings of a root found
    loaded,   \* loaded[p]: the sidecars it finalizes
    faults    \* deaths and interrupts so far

rootVars == <<dest, lockFile, staged, builds>>
localVars == <<walk, object, seen, loaded>>
vars == <<dest, lockFile, staged, builds, pc, walk, object, seen, loaded, faults>>

NoScores == [e \in Episodes |-> None]
NoWalk == [todo |-> <<>>, runtime |-> FALSE]
NothingSeen == [names |-> {}, locks |-> {}, staged |-> {}]

Init ==
    /\ dest = [o \in Objects |-> None]
    /\ lockFile = [o \in Objects |-> FALSE] /\ staged = [o \in Objects |-> FALSE]
    /\ builds = {}
    /\ pc = [p \in Processes |-> "off"]
    /\ walk = [p \in Processes |-> NoWalk]
    /\ object = [p \in Processes |-> 0]
    /\ seen = [p \in Processes |-> NothingSeen]
    /\ loaded = [p \in Processes |-> NoScores]
    /\ faults = 0

At(p, point) == pc' = [pc EXCEPT ![p] = point]
Locks == {o \in Objects : lockFile[o]}
StagedNow == {o \in Objects : staged[o]}
Scores == [e \in Episodes |-> dest[e]]

\* The end of a process.
Forget(p) ==
    /\ At(p, "off")
    /\ walk' = [walk EXCEPT ![p] = NoWalk] /\ object' = [object EXCEPT ![p] = 0]
    /\ seen' = [seen EXCEPT ![p] = NothingSeen] /\ loaded' = [loaded EXCEPT ![p] = NoScores]

\* An exception removes the cohort build directory.
Raise(p) ==
    /\ Forget(p)
    /\ builds' = builds \ {p}
    /\ UNCHANGED <<dest, lockFile, staged, faults>>

-----------------------------------------------------------------------------
(* Starting                                                                *)

\* A shard is every count-th episode from the index-th on; --reverse turns it
\* around.  Only a run over every episode may finalize.
Shard(index, count) ==
    [i \in 1..((ValidCount - index + count - 1) \div count) |-> (i - 1) * count + index + 1]

Start(p, index, count, reverse) ==
    LET shard == Shard(index, count) IN
    /\ pc[p] = "off"
    /\ index < count
    /\ p \in Finalizers => count = 1
    /\ walk' = [walk EXCEPT ![p].todo = IF reverse THEN Reverse(shard) ELSE shard]
    /\ At(p, "names")
    /\ UNCHANGED <<rootVars, object, seen, loaded, faults>>

\* A layout check lists a root twice and then looks at every entry of the second
\* listing: a temporary directory needs its lock in the first, and every entry
\* must still be there.
SeeNames(p, objects) == seen' = [seen EXCEPT ![p].names = Locks \cap objects]
SeeEntries(p, objects) ==
    seen' = [seen EXCEPT ![p].locks = Locks \cap objects, ![p].staged = StagedNow \cap objects]
LayoutSound(p) ==
    /\ seen[p].staged \subseteq seen[p].names \cap StagedNow
    /\ seen[p].locks \subseteq Locks
Unsee(p) == seen' = [seen EXCEPT ![p] = NothingSeen]

\* _validate_score_root_layout with allow_active_publication.
ListNames(p) ==
    /\ pc[p] = "names"
    /\ SeeNames(p, Episodes) /\ At(p, "entries")
    /\ UNCHANGED <<rootVars, walk, object, loaded, faults>>

ListEntries(p) ==
    /\ pc[p] = "entries"
    /\ SeeEntries(p, Episodes) /\ At(p, "verify")
    /\ UNCHANGED <<rootVars, walk, object, loaded, faults>>

VerifyEntries(p) ==
    /\ pc[p] = "verify"
    /\ IF LayoutSound(p)
         THEN /\ Unsee(p) /\ At(p, "features")
              /\ UNCHANGED <<rootVars, walk, object, loaded, faults>>
         ELSE Raise(p)

\* _validate_feature_root_layout: nothing but published artifacts.  The policy
\* is loaded when an episode of the shard has no sidecar.
FeatureLayout(p) ==
    /\ pc[p] = "features"
    /\ IF (Locks \cup StagedNow) \cap Stages = {} /\ builds = {}
         THEN /\ walk' = [walk EXCEPT ![p].runtime = \E e \in ToSet(walk[p].todo) : dest[e] = None]
              /\ At(p, "walk")
              /\ UNCHANGED <<rootVars, object, seen, loaded, faults>>
         ELSE Raise(p)

-----------------------------------------------------------------------------
(* The walk                                                                *)

Skip(p) ==
    /\ pc[p] = "walk" /\ walk[p].todo # <<>>
    /\ dest[Head(walk[p].todo)] # None
    /\ walk' = [walk EXCEPT ![p].todo = Tail(@)]
    /\ UNCHANGED <<rootVars, pc, object, seen, loaded, faults>>

\* The replay that scores an episode ends in the publication.
Score(p) ==
    /\ pc[p] = "walk" /\ walk[p].todo # <<>>
    /\ dest[Head(walk[p].todo)] = None
    /\ IF walk[p].runtime
         THEN /\ object' = [object EXCEPT ![p] = Head(walk[p].todo)]
              /\ walk' = [walk EXCEPT ![p].todo = Tail(@)]
              /\ At(p, "acquire")
              /\ UNCHANGED <<rootVars, seen, loaded, faults>>
         ELSE Raise(p)

WalkEnds(p) ==
    /\ pc[p] = "walk" /\ walk[p].todo = <<>>
    /\ walk' = [walk EXCEPT ![p] = NoWalk]
    /\ At(p, IF p \in Finalizers THEN "layout" ELSE "off")
    /\ UNCHANGED <<rootVars, object, seen, loaded, faults>>

-----------------------------------------------------------------------------
(* The publication of an object                                            *)

Content(p) == IF object[p] \in Episodes THEN p ELSE loaded[p]

\* O_EXCL creation of the lock file; whoever holds it is waited for.  The
\* allocation's writer looks at the destination before it tries.
Acquire(p) ==
    LET o == object[p] IN
    /\ pc[p] = "acquire"
    /\ IF lockFile[o] \/ (o = Allocation /\ dest[o] # None)
         THEN At(p, "wait") /\ UNCHANGED lockFile
         ELSE At(p, "locked") /\ lockFile' = [lockFile EXCEPT ![o] = TRUE]
    /\ UNCHANGED <<dest, staged, builds, localVars, faults>>

\* The cohort is staged already, in its build directory.
Stage(p) ==
    /\ pc[p] = "locked"
    /\ staged' = [staged EXCEPT ![object[p]] = object[p] # Cohort]
    /\ At(p, "staged")
    /\ UNCHANGED <<dest, lockFile, builds, localVars, faults>>

\* What an object that is there once its lock is held leads to.
Collision(o) ==
    IF o \in Episodes \cup {Allocation} THEN "unlockWait"  \* FileExistsError
    ELSE IF o = Cohort THEN "unlock"                       \* loaded instead
    ELSE "unlockRaise"                                     \* RuntimeError

\* Mutant: what is there is replaced.
CommitReplacing(p) ==
    /\ pc[p] = "staged"
    /\ staged' = [staged EXCEPT ![object[p]] = FALSE]
    /\ dest' = [dest EXCEPT ![object[p]] = Content(p)] /\ At(p, "unlock")
    /\ UNCHANGED <<lockFile, builds, localVars, faults>>

\* Mutant: the destination is not looked at again, and the rename fails.
CommitUnchecked(p) ==
    /\ pc[p] = "staged"
    /\ staged' = [staged EXCEPT ![object[p]] = FALSE]
    /\ IF dest[object[p]] = None
         THEN dest' = [dest EXCEPT ![object[p]] = Content(p)] /\ At(p, "unlock")
         ELSE At(p, "unlockRaise") /\ UNCHANGED dest
    /\ UNCHANGED <<lockFile, builds, localVars, faults>>

\* Mutant: a refused publication keeps its temporary directory.
CommitWithoutCleanup(p) ==
    /\ pc[p] = "staged"
    /\ IF dest[object[p]] = None
         THEN /\ dest' = [dest EXCEPT ![object[p]] = Content(p)] /\ At(p, "unlock")
              /\ staged' = [staged EXCEPT ![object[p]] = FALSE]
         ELSE At(p, Collision(object[p])) /\ UNCHANGED <<dest, staged>>
    /\ UNCHANGED <<lockFile, builds, localVars, faults>>

\* Under the lock the destination is looked at again; then the rename.
Commit(p) ==
    /\ pc[p] = "staged"
    /\ staged' = [staged EXCEPT ![object[p]] = FALSE]
    /\ IF dest[object[p]] = None
         THEN dest' = [dest EXCEPT ![object[p]] = Content(p)] /\ At(p, "unlock")
         ELSE At(p, Collision(object[p])) /\ UNCHANGED dest
    /\ UNCHANGED <<lockFile, builds, localVars, faults>>

\* Mutant: the predictions are published before the cohort they stand on.
NextStageSwapped(o) ==
    CASE o = Allocation -> Predictions [] o = Predictions -> Cohort [] OTHER -> Summary

\* Mutant: a stage is left out.
NextStageSkipping(o) == o + 2

NextStage(o) == o + 1

\* On to the walk's next episode, to the next stage, or out.
Advance(p) ==
    /\ builds' = builds \ {p}
    /\ \/ /\ object[p] \in Episodes
          /\ object' = [object EXCEPT ![p] = 0]
          /\ At(p, "walk")
          /\ UNCHANGED <<walk, loaded>> /\ Unsee(p)
       \/ /\ object[p] \in Stages \ {Summary}
          /\ object' = [object EXCEPT ![p] = NextStage(object[p])]
          /\ At(p, "root")
          /\ UNCHANGED <<walk, loaded>> /\ Unsee(p)
       \/ object[p] = Summary /\ Forget(p)

Unlock(p) ==
    /\ \/ pc[p] = "unlock" /\ Advance(p)
       \/ pc[p] = "unlockWait" /\ At(p, "wait") /\ UNCHANGED <<builds, localVars>>
       \/ pc[p] = "unlockRaise" /\ Forget(p) /\ builds' = builds \ {p}
    /\ lockFile' = [lockFile EXCEPT ![object[p]] = FALSE]
    /\ UNCHANGED <<dest, staged, faults>>

\* _wait_for_sidecar and its like; what was waited for in a content root is
\* published anew, which finds it there.
WaitEnds(p) ==
    /\ pc[p] = "wait" /\ dest[object[p]] # None
    /\ IF object[p] \in Stages \ {Cohort}
         THEN At(p, "root") /\ UNCHANGED <<builds, localVars>>
         ELSE Advance(p)
    /\ UNCHANGED <<dest, lockFile, staged, faults>>

\* A publication takes far less than the 30 s of the wait, so a wait only times
\* out on one that nobody is at any more.
WaitTimesOut(p) ==
    /\ pc[p] = "wait" /\ dest[object[p]] = None
    /\ ~ \E q \in Processes : pc[q] \in Publishing /\ object[q] = object[p]
    /\ Raise(p)

-----------------------------------------------------------------------------
(* The finalization                                                        *)

\* No publication of a score may be under way.
FinalLayout(p) ==
    /\ pc[p] = "layout"
    /\ IF (Locks \cup StagedNow) \cap Episodes = {}
         THEN At(p, "load") /\ UNCHANGED <<rootVars, localVars, faults>>
         ELSE Raise(p)

Load(p) ==
    /\ pc[p] = "load"
    /\ IF \A e \in Episodes : dest[e] # None
         THEN /\ loaded' = [loaded EXCEPT ![p] = Scores]
              /\ object' = [object EXCEPT ![p] = Allocation]
              /\ At(p, "root")
              /\ UNCHANGED <<rootVars, walk, seen, faults>>
         ELSE Raise(p)

\* _validate_content_root; the cohort's build directory is made before its root
\* is looked at, once.
ListRoot(p) ==
    /\ pc[p] = "root"
    /\ SeeNames(p, {object[p]})
    /\ builds' = IF object[p] = Cohort THEN builds \cup {p} ELSE builds
    /\ At(p, IF object[p] = Cohort THEN "rootVerify" ELSE "rootEntries")
    /\ UNCHANGED <<dest, lockFile, staged, walk, object, loaded, faults>>

ListRootEntries(p) ==
    /\ pc[p] = "rootEntries"
    /\ SeeEntries(p, {object[p]}) /\ At(p, "rootVerify")
    /\ UNCHANGED <<rootVars, walk, object, loaded, faults>>

RootAmbiguous(p) ==
    LET o == object[p] IN
    \/ dest[o] \notin {None, loaded[p]}
    \/ o = Cohort /\ (lockFile[o] \/ builds # {p})
    \/ o # Cohort /\ ~LayoutSound(p)

\* Mutant: a stage that is published already is refused.
CheckRootExclusively(p) ==
    /\ pc[p] = "rootVerify"
    /\ IF RootAmbiguous(p) \/ dest[object[p]] # None
         THEN Raise(p)
         ELSE Unsee(p) /\ At(p, "acquire") /\ UNCHANGED <<rootVars, walk, object, loaded, faults>>

\* A stage that is published with the same content is not published again.
CheckRoot(p) ==
    /\ pc[p] = "rootVerify"
    /\ \/ RootAmbiguous(p) /\ Raise(p)
       \/ /\ ~RootAmbiguous(p) /\ dest[object[p]] # None
          /\ Advance(p) /\ UNCHANGED <<dest, lockFile, staged, faults>>
       \/ /\ ~RootAmbiguous(p) /\ dest[object[p]] = None
          /\ Unsee(p) /\ At(p, "acquire") /\ UNCHANGED <<rootVars, walk, object, loaded, faults>>

-----------------------------------------------------------------------------
(* Faults                                                                  *)

\* SIGKILL leaves the lock file, the temporary and the build directory.
Killed(p) ==
    /\ pc[p] # "off" /\ faults < MaxFaults
    /\ faults' = faults + 1
    /\ Forget(p)
    /\ UNCHANGED rootVars

\* An interrupt unwinds.  One that lands between a creation and the try block,
\* or before mkdtemp's result is assigned, leaves the lock file, the temporary
\* or the build directory.
Interrupted(p) ==
    LET o == object[p]
        Clean == /\ lockFile' = [lockFile EXCEPT ![o] = FALSE]
                 /\ staged' = [staged EXCEPT ![o] = FALSE] IN
    /\ pc[p] # "off" /\ faults < MaxFaults
    /\ faults' = faults + 1
    /\ Forget(p)
    /\ builds' \in {builds \ {p}} \cup
                   IF pc[p] = "root" /\ o = Cohort THEN {builds \cup {p}} ELSE {}
    /\ \/ pc[p] \in Publishing /\ Clean
       \/ pc[p] \notin Publishing \ {"locked"} /\ UNCHANGED <<lockFile, staged>>
       \/ /\ pc[p] = "locked" /\ o # Cohort
          /\ lockFile' = [lockFile EXCEPT ![o] = FALSE]
          /\ staged' = [staged EXCEPT ![o] = TRUE]
    /\ UNCHANGED dest

-----------------------------------------------------------------------------
Progress(p) ==
    \/ ListNames(p) \/ ListEntries(p) \/ VerifyEntries(p) \/ FeatureLayout(p)
    \/ Skip(p) \/ Score(p) \/ WalkEnds(p)
    \/ Acquire(p) \/ Stage(p) \/ Commit(p) \/ Unlock(p) \/ WaitEnds(p) \/ WaitTimesOut(p)
    \/ FinalLayout(p) \/ Load(p) \/ ListRoot(p) \/ ListRootEntries(p) \/ CheckRoot(p)

Next ==
    \E p \in Processes :
        \/ \E count \in 1..2, index \in 0..1, reverse \in BOOLEAN :
              Start(p, index, count, reverse)
        \/ Progress(p) \/ Killed(p) \/ Interrupted(p)

Spec == Init /\ [][Next]_vars

\* Processes run, and the finalizing run is repeated until there is a summary.
Fairness ==
    /\ \A p \in Processes : WF_vars(Progress(p))
    /\ WF_vars(\E p \in Finalizers, reverse \in BOOLEAN :
                   dest[Summary] = None /\ Start(p, 0, 1, reverse))

FairSpec == Spec /\ Fairness

-----------------------------------------------------------------------------
(* Properties                                                              *)

TypeOK ==
    /\ dest \in [Objects -> Processes \cup {None} \cup ScoreFunctions]
    /\ \A e \in Episodes : dest[e] \in Processes \cup {None}
    /\ \A o \in Stages : dest[o] \in {None} \cup ScoreFunctions
    /\ lockFile \in [Objects -> BOOLEAN] /\ staged \in [Objects -> BOOLEAN]
    /\ builds \subseteq Processes
    /\ pc \in [Processes -> Points]
    /\ walk \in [Processes -> [todo : Seq(Episodes), runtime : BOOLEAN]]
    /\ \A p \in Processes : IsInjective(walk[p].todo)
    /\ object \in [Processes -> Objects \cup {0}]
    /\ seen \in [Processes -> [names : SUBSET Objects, locks : SUBSET Objects,
                               staged : SUBSET Objects]]
    /\ loaded \in [Processes -> ScoreFunctions]
    /\ faults \in 0..MaxFaults

\* However the walks of several processes meet, and whatever dies, a published
\* sidecar and a published artifact of the finalization are never replaced.
PublishedOnce ==
    [][\A o \in Objects : dest[o] # None => dest'[o] = dest[o]]_vars

\* The finalization is one: a stage is published only after the stages before
\* it, and all of them, over any number of interrupted runs, were computed from
\* the sidecars that are there, one of every valid episode.
StagesBindScores ==
    \A o \in Stages : dest[o] # None =>
        /\ dest[o] = Scores /\ \A e \in Episodes : dest[e] # None
        /\ \A earlier \in Allocation..o : dest[earlier] # None

\* "Allowing one cooperating publisher": a process that has passed its start and
\* final layout checks never fails because another is publishing what it wants
\* to publish; it fails only after a death or an interrupt.
Fails(p) ==
    \/ pc[p] = "walk" /\ walk[p].todo # <<>>
    \/ pc[p] \in {"load", "unlockRaise"}
    \/ pc[p] = "wait" /\ dest[object[p]] = None
    \/ pc[p] = "rootVerify" /\ RootAmbiguous(p)

CollisionsSurvived ==
    [][\A p \in Processes : Fails(p) /\ pc'[p] = "off" => faults' > 0]_vars

\* A temporary directory outlives its lock file only by a fault: what the layout
\* check calls an orphan is never the program's own doing.
OrphansFromFaults ==
    [][\A o \in Objects :
          staged'[o] /\ ~lockFile'[o] => (staged[o] /\ ~lockFile[o]) \/ faults' > faults]_vars

\* A finalizing run that is repeated until there is a summary ends with one,
\* whatever it met half published, unless a process that died in a publication
\* left its lock file or its build directory.
Residue ==
    \/ \E o \in Objects : (lockFile[o] \/ staged[o])
                          /\ ~ \E p \in Processes : pc[p] \in Publishing /\ object[p] = o
    \/ \E p \in builds : pc[p] = "off"
FinalizationCompletes == <>(dest[Summary] # None \/ Residue)

-----------------------------------------------------------------------------
(* Why they hold: the inductive invariant                                  *)

AtObject == Publishing \cup {"acquire", "wait"}
AtRoot == {"root", "rootEntries", "rootVerify"}
Unlocking == {"unlock", "unlockWait", "unlockRaise"}
Publishes(p, o) == pc[p] \in Publishing /\ object[p] = o

\* Where a process is tells which object it is about.
ObjectsFit ==
    \A p \in Processes :
        /\ pc[p] \in AtObject => object[p] \in Objects
        /\ pc[p] \in AtRoot => object[p] \in Stages
        /\ pc[p] \notin AtObject \cup AtRoot => object[p] = 0
        /\ object[p] \in Stages \/ pc[p] \in {"layout", "load"} => p \in Finalizers

\* Whoever publishes an object holds its lock, alone, has put away its temporary
\* directory and found or made a destination when it unlocks.
PublishersExclude ==
    /\ \A p, q \in Processes : \A o \in Objects : Publishes(p, o) /\ Publishes(q, o) => p = q
    /\ \A p \in Processes :
          /\ pc[p] \in Publishing => lockFile[object[p]]
          /\ pc[p] \in Unlocking => ~staged[object[p]] /\ dest[object[p]] # None

\* A finalizing process stands on the sidecars that are there, all of them, and
\* on the stages before its own.
FinalizersStand ==
    \A p \in Processes : object[p] \in Stages =>
        /\ loaded[p] = Scores /\ \A e \in Episodes : dest[e] # None
        /\ \A earlier \in Allocation..(object[p] - 1) : dest[earlier] # None

ScoreInvariant == ObjectsFit /\ PublishersExclude /\ FinalizersStand /\ StagesBindScores

\* What a walk has behind it is published: a finalizing one starts with every
\* episode ahead, and one that loaded no policy has nothing to score.
WalksCover ==
    \A p \in Processes :
        /\ p \in Finalizers /\ pc[p] # "off" =>
              \A e \in Episodes : e \in ToSet(walk[p].todo) \/ e = object[p] \/ dest[e] # None
        /\ pc[p] \in {"walk"} \cup AtObject /\ ~walk[p].runtime =>
              \A e \in ToSet(walk[p].todo) : dest[e] # None
        /\ pc[p] \in {"layout", "load"} => walk[p].todo = <<>>

\* Before the first fault every lock, temporary directory and build directory is
\* somebody's, and somebody will still publish what is waited for.
NothingAbandoned ==
    faults = 0 =>
        /\ \A o \in Objects : lockFile[o] => \E q \in Processes : Publishes(q, o)
        /\ \A o \in Objects : staged[o] => lockFile[o]
        /\ \A q \in builds : object[q] = Cohort
        /\ \A p \in Processes :
              /\ object[p] = Cohort /\ pc[p] # "root" => p \in builds
              /\ pc[p] = "wait" /\ dest[object[p]] = None =>
                     \E q \in Processes : pc[q] \in {"locked", "staged"} /\ object[q] = object[p]

\* Nobody meets a finalizing process that is the only one.
FinalizerUndisturbed ==
    faults = 0 => \A p \in Processes :
        /\ object[p] \in Stages /\ pc[p] \in {"acquire", "locked", "staged"} => dest[object[p]] = None
        /\ pc[p] # "unlockRaise"
        /\ pc[p] = "rootVerify" /\ object[p] # Cohort => seen[p].locks = {} /\ seen[p].staged = {}

CollisionInvariant == WalksCover /\ NothingAbandoned /\ FinalizerUndisturbed

\* Locked Test scoring keeps ScoringLedger's promise: the cohort is closed by the
\* allocation, which names every sidecar, and complete with the summary.
LedgerPhase == IF dest[Summary] # None THEN "complete"
               ELSE IF dest[Allocation] # None THEN "closed" ELSE "open"
Ledger == INSTANCE ScoringLedger WITH
    Contents <- Processes, score <- Scores, phase <- LedgerPhase
ImplementsLedger == Ledger!LedgerSpec

=============================================================================
