------------------------- MODULE LockedTestScoreProofs -------------------------
(***************************************************************************)
(* Proofs about LockedTestScore: types, the order of the finalization, the *)
(* permanence of what is published, the origin of orphans and, for a       *)
(* single finalizing process, that no collision makes a process fail.      *)
(***************************************************************************)
EXTENDS LockedTestScore, TLAPS

Walks == [todo : Seq(Episodes), runtime : BOOLEAN]
Views == [names : SUBSET Objects, locks : SUBSET Objects, staged : SUBSET Objects]
Contents == Processes \cup {None} \cup ScoreFunctions

\* Episodes and stages are apart, and the stages follow one another.
LEMMA ObjectFacts ==
    /\ 0 \notin Objects /\ Episodes \cap Stages = {}
    /\ {Allocation, Cohort, Predictions, Summary} = Stages
    /\ Stages \subseteq Objects /\ Episodes \subseteq Objects
    /\ Objects \subseteq Nat
    /\ \A o \in Objects : o \in Episodes \/ o \in Stages
    /\ \A o \in Stages \ {Summary} : NextStage(o) \in Stages
    /\ Allocation # Cohort /\ Cohort # Predictions /\ Predictions # Summary
    /\ Allocation # Predictions /\ Allocation # Summary /\ Cohort # Summary
  BY ScoreAssumption DEF Objects, Episodes, Stages, Allocation, Cohort, Predictions, Summary, NextStage

-----------------------------------------------------------------------------
(* Types                                                                   *)

\* A shard is a walk over episodes, each of them once, forwards and backwards.
LEMMA ShardIsAWalk ==
    ASSUME NEW index \in 0..1, NEW count \in 1..2, index < count
    PROVE  /\ Shard(index, count) \in Seq(Episodes) /\ IsInjective(Shard(index, count))
           /\ Reverse(Shard(index, count)) \in Seq(Episodes)
           /\ IsInjective(Reverse(Shard(index, count)))
           /\ count = 1 => /\ ToSet(Shard(index, count)) = Episodes
                           /\ ToSet(Reverse(Shard(index, count))) = Episodes
  <1> DEFINE n == (ValidCount - index + count - 1) \div count
             s == Shard(index, count)
             r == Reverse(s)
  <1>1. n \in Nat /\ \A i \in 1..n : (i - 1) * count + index + 1 \in Episodes
    <2>1. CASE count = 1
      BY <2>1, ScoreAssumption DEF Episodes
    <2>2. CASE count = 2
      BY <2>2, ScoreAssumption DEF Episodes
    <2>. QED  BY <2>1, <2>2
  <1>2. s = [i \in 1..n |-> (i - 1) * count + index + 1]
    BY DEF Shard
  <1>3. s \in Seq(Episodes) /\ Len(s) = n /\ DOMAIN s = 1..n
    BY <1>1, <1>2
  <1>4. IsInjective(s)
    <2>1. CASE count = 1
      BY <2>1, <1>1, <1>2 DEF IsInjective
    <2>2. CASE count = 2
      BY <2>2, <1>1, <1>2 DEF IsInjective
    <2>. QED  BY <2>1, <2>2
  <1>5. r = [i \in 1..n |-> s[(n - i) + 1]]
    BY <1>3 DEF Reverse
  <1>6. \A i \in 1..n : (n - i) + 1 \in 1..n
    BY <1>1
  <1>. HIDE DEF s, n
  <1>7. r \in Seq(Episodes) /\ DOMAIN r = 1..n
    BY <1>1, <1>3, <1>5, <1>6
  <1>8. IsInjective(r)
    <2>. SUFFICES ASSUME NEW a \in 1..n, NEW b \in 1..n, r[a] = r[b] PROVE a = b
      BY <1>7 DEF IsInjective
    <2>1. s[(n - a) + 1] = s[(n - b) + 1]
      BY <1>5
    <2>2. (n - a) + 1 = (n - b) + 1
      BY <2>1, <1>3, <1>4, <1>6 DEF IsInjective
    <2>. QED  BY <2>2, <1>1
  <1>9. ASSUME count = 1 PROVE ToSet(s) = Episodes /\ ToSet(r) = Episodes
    <2>1. index = 0 /\ n = ValidCount
      BY <1>9, ScoreAssumption DEF n
    <2>2. \A e \in Episodes : s[e] = e
      BY <2>1, <1>2, <1>9, ScoreAssumption DEF Episodes
    <2>3. \A e \in Episodes : (n - e) + 1 \in Episodes /\ r[(n - e) + 1] = e
      <3>. TAKE e \in Episodes
      <3>1. (n - e) + 1 \in Episodes /\ (n - ((n - e) + 1)) + 1 = e
        BY <2>1, ScoreAssumption DEF Episodes
      <3>2. r[(n - e) + 1] = s[(n - ((n - e) + 1)) + 1]
        BY <1>5, <2>1, <3>1 DEF Episodes
      <3>. QED  BY <3>1, <3>2, <2>2
    <2>4. DOMAIN s = Episodes /\ DOMAIN r = Episodes
      BY <1>3, <1>7, <2>1 DEF Episodes
    <2>5. \A i \in Episodes : s[i] \in Episodes /\ r[i] \in Episodes
      BY <1>3, <1>7, <2>4
    <2>. QED  BY <2>2, <2>3, <2>4, <2>5 DEF ToSet
  <1>. QED  BY <1>3, <1>4, <1>7, <1>8, <1>9 DEF s

\* A process that ends forgets everything, and what it forgets has its type.
LEMMA ForgetTypes ==
    ASSUME TypeOK, NEW p \in Processes, Forget(p)
    PROVE  /\ pc' \in [Processes -> Points]
           /\ walk' \in [Processes -> Walks] /\ \A q \in Processes : IsInjective(walk'[q].todo)
           /\ object' \in [Processes -> Objects \cup {0}] /\ seen' \in [Processes -> Views]
           /\ loaded' \in [Processes -> ScoreFunctions]
  <1>1. /\ NoWalk \in Walks /\ IsInjective(NoWalk.todo)
        /\ NothingSeen \in Views /\ NoScores \in ScoreFunctions /\ "off" \in Points
    BY DEF NoWalk, Walks, NothingSeen, Views, NoScores, ScoreFunctions, IsInjective, Points
  <1>2. walk' = [walk EXCEPT ![p] = NoWalk] /\ walk \in [Processes -> Walks]
    BY DEF Forget, TypeOK, Walks
  <1>3. \A q \in Processes : IsInjective(walk[q].todo)
    BY DEF TypeOK
  <1>4. \A q \in Processes : IsInjective(walk'[q].todo)
    BY <1>1, <1>2, <1>3
  <1>5. walk' \in [Processes -> Walks]
    BY <1>1, <1>2
  <1>6. pc' \in [Processes -> Points] /\ loaded' \in [Processes -> ScoreFunctions]
    BY <1>1 DEF Forget, TypeOK, At
  <1>7. object' \in [Processes -> Objects \cup {0}] /\ seen' \in [Processes -> Views]
    BY <1>1 DEF Forget, TypeOK, Views
  <1>. QED  BY <1>4, <1>5, <1>6, <1>7

\* So does a process that moves to the next object, or a walk that goes on.
LEMMA WalkTypes ==
    ASSUME TypeOK, NEW p \in Processes, NEW w \in Walks, IsInjective(w.todo),
           walk' = [walk EXCEPT ![p] = w]
    PROVE  walk' \in [Processes -> Walks] /\ \A q \in Processes : IsInjective(walk'[q].todo)
  BY DEF TypeOK, Walks

\* Going on to the next object keeps the types.
LEMMA AdvanceTypes ==
    ASSUME TypeOK, NEW p \in Processes, Advance(p)
    PROVE  /\ builds' \subseteq Processes /\ pc' \in [Processes -> Points]
           /\ walk' \in [Processes -> Walks] /\ \A q \in Processes : IsInjective(walk'[q].todo)
           /\ object' \in [Processes -> Objects \cup {0}] /\ seen' \in [Processes -> Views]
           /\ loaded' \in [Processes -> ScoreFunctions]
  <1>1. builds' \subseteq Processes
    BY DEF Advance, TypeOK
  <1>2. CASE Forget(p)
    BY <1>1, <1>2, ForgetTypes
  <1>3. CASE ~Forget(p)
    <2>1. walk' = walk /\ loaded' = loaded
      BY <1>3 DEF Advance
    <2>2. NothingSeen \in Views
      BY DEF NothingSeen, Views
    <2>3. seen' = [seen EXCEPT ![p] = NothingSeen]
      BY <1>3 DEF Advance, Unsee
    <2>4. seen' \in [Processes -> Views]
      BY <2>2, <2>3 DEF TypeOK, Views
    <2>5. pc' \in [Processes -> Points]
      BY <1>3 DEF Advance, TypeOK, At, Points
    <2>6. \A o \in Stages \ {Summary} : NextStage(o) \in Objects
      BY ObjectFacts
    <2>7. object' \in [Processes -> Objects \cup {0}]
      BY <1>3, <2>6 DEF Advance, TypeOK
    <2>. QED  BY <1>1, <2>1, <2>4, <2>5, <2>7 DEF TypeOK, Walks
  <1>. QED  BY <1>2, <1>3

\* The initial state has its types.
LEMMA TypeInit == Init => TypeOK
  <1>. SUFFICES ASSUME Init PROVE TypeOK
    OBVIOUS
  <1>1. NoWalk \in Walks /\ IsInjective(NoWalk.todo) /\ NothingSeen \in Views /\ NoScores \in ScoreFunctions
    BY DEF NoWalk, Walks, NothingSeen, Views, NoScores, ScoreFunctions, IsInjective
  <1>2. walk \in [Processes -> Walks] /\ \A q \in Processes : IsInjective(walk[q].todo)
    BY <1>1 DEF Init
  <1>3. seen \in [Processes -> Views] /\ loaded \in [Processes -> ScoreFunctions]
    BY <1>1 DEF Init
  <1>4. dest \in [Objects -> Contents] /\ \A o \in Objects : dest[o] = None
    BY DEF Init, Contents
  <1>5. \A o \in Objects : dest[o] \in {None}
    BY <1>4
  <1>6. (\A e \in Episodes : dest[e] \in Processes \cup {None})
        /\ \A o \in Stages : dest[o] \in {None} \cup ScoreFunctions
    BY <1>5, ObjectFacts
  <1>7. /\ lockFile \in [Objects -> BOOLEAN] /\ staged \in [Objects -> BOOLEAN]
        /\ builds \subseteq Processes /\ pc \in [Processes -> Points]
        /\ object \in [Processes -> Objects \cup {0}] /\ faults \in 0..MaxFaults
    BY ScoreAssumption DEF Init, Points
  <1>. QED  BY <1>2, <1>3, <1>4, <1>6, <1>7 DEF TypeOK, Walks, Views, Contents

\* The locals keep their types in every step of a walk and of a finalization.
Locals ==
    /\ pc' \in [Processes -> Points]
    /\ walk' \in [Processes -> Walks] /\ \A q \in Processes : IsInjective(walk'[q].todo)
    /\ object' \in [Processes -> Objects \cup {0}] /\ seen' \in [Processes -> Views]
    /\ loaded' \in [Processes -> ScoreFunctions]

\* A process that fails keeps the types of everything.
LEMMA RaiseTypes ==
    ASSUME TypeOK, NEW p \in Processes, Raise(p)
    PROVE  TypeOK'
  <1>1. Forget(p) /\ builds' \subseteq Processes /\ UNCHANGED <<dest, lockFile, staged, faults>>
    BY DEF Raise, TypeOK
  <1>. QED  BY <1>1, ForgetTypes DEF TypeOK, Walks, Views

\* A step that only moves on and looks around.
LEMMA LookTypes ==
    ASSUME TypeOK, NEW p \in Processes, NEW at \in Points, pc' = [pc EXCEPT ![p] = at],
           NEW view \in Views, seen' = [seen EXCEPT ![p] = view] \/ seen' = seen,
           builds' \subseteq Processes, UNCHANGED <<dest, lockFile, staged, walk, object, loaded, faults>>
    PROVE  TypeOK'
  <1>1. seen' \in [Processes -> Views]
    BY DEF TypeOK, Views
  <1>. QED  BY <1>1 DEF TypeOK, Views

\* A start, with any shard in either direction.
LEMMA StartTypes ==
    ASSUME TypeOK, NEW p \in Processes, NEW index \in 0..1, NEW count \in 1..2, NEW reverse \in BOOLEAN,
           Start(p, index, count, reverse)
    PROVE  TypeOK'
  <1> DEFINE todo == IF reverse THEN Reverse(Shard(index, count)) ELSE Shard(index, count)
             w == [walk[p] EXCEPT !.todo = todo]
  <1>1. todo \in Seq(Episodes) /\ IsInjective(todo)
    BY ShardIsAWalk DEF Start
  <1>2. walk' = [walk EXCEPT ![p] = w]
    BY DEF Start
  <1>. HIDE DEF todo
  <1>3. walk[p] \in Walks
    BY DEF TypeOK, Walks
  <1>4. w \in Walks /\ w.todo = todo
    BY <1>1, <1>3 DEF Walks
  <1>. HIDE DEF w
  <1>5. walk' \in [Processes -> Walks] /\ \A q \in Processes : IsInjective(walk'[q].todo)
    BY <1>1, <1>2, <1>4, WalkTypes
  <1>6. pc' \in [Processes -> Points]
    BY DEF Start, At, TypeOK, Points
  <1>7. UNCHANGED <<dest, lockFile, staged, builds, object, seen, loaded, faults>>
    BY DEF Start, rootVars
  <1>. QED  BY <1>5, <1>6, <1>7 DEF TypeOK, Walks

\* The listings of a root and the check of what they found.
LEMMA ListTypes ==
    ASSUME TypeOK, NEW p \in Processes,
           ListNames(p) \/ ListEntries(p) \/ VerifyEntries(p) \/ ListRoot(p) \/ ListRootEntries(p)
    PROVE  TypeOK'
  <1>1. seen[p] \in Views /\ NothingSeen \in Views
    BY DEF TypeOK, NothingSeen, Views
  <1>2. \A objects \in SUBSET Objects :
          /\ [seen[p] EXCEPT !.names = Locks \cap objects] \in Views
          /\ [seen[p] EXCEPT !.locks = Locks \cap objects, !.staged = StagedNow \cap objects] \in Views
    BY <1>1 DEF Views, Locks, StagedNow
  <1>3. Episodes \in SUBSET Objects /\ (object[p] \in Objects => {object[p]} \in SUBSET Objects)
    BY ObjectFacts
  <1>4. CASE ListNames(p)
    <2>1. seen' = [seen EXCEPT ![p] = [seen[p] EXCEPT !.names = Locks \cap Episodes]]
      BY <1>4 DEF ListNames, SeeNames
    <2>2. pc' = [pc EXCEPT ![p] = "entries"] /\ "entries" \in Points /\ builds' \subseteq Processes
          /\ UNCHANGED <<dest, lockFile, staged, walk, object, loaded, faults>>
      BY <1>4 DEF ListNames, At, Points, rootVars, TypeOK
    <2>. QED  BY <1>2, <1>3, <2>1, <2>2, LookTypes
  <1>5. CASE ListEntries(p)
    <2>1. seen' = [seen EXCEPT ![p] = [seen[p] EXCEPT !.locks = Locks \cap Episodes,
                                                      !.staged = StagedNow \cap Episodes]]
      BY <1>5 DEF ListEntries, SeeEntries
    <2>2. pc' = [pc EXCEPT ![p] = "verify"] /\ "verify" \in Points /\ builds' \subseteq Processes
          /\ UNCHANGED <<dest, lockFile, staged, walk, object, loaded, faults>>
      BY <1>5 DEF ListEntries, At, Points, rootVars, TypeOK
    <2>. QED  BY <1>2, <1>3, <2>1, <2>2, LookTypes
  <1>6. CASE VerifyEntries(p)
    <2>1. CASE Raise(p)
      BY <2>1, RaiseTypes
    <2>2. CASE ~Raise(p)
      <3>1. pc' = [pc EXCEPT ![p] = "features"] /\ "features" \in Points /\ builds' \subseteq Processes
            /\ UNCHANGED <<dest, lockFile, staged, walk, object, loaded, faults>>
            /\ seen' = [seen EXCEPT ![p] = NothingSeen]
        BY <1>6, <2>2 DEF VerifyEntries, At, Points, rootVars, TypeOK, Unsee
      <3>. QED  BY <1>1, <3>1, LookTypes
    <2>. QED  BY <2>1, <2>2
  <1>7. CASE ListRoot(p)
    <2>1. seen' = [seen EXCEPT ![p] = [seen[p] EXCEPT !.names = Locks \cap {object[p]}]]
      BY <1>7 DEF ListRoot, SeeNames
    <2> DEFINE at == IF object[p] = Cohort THEN "rootVerify" ELSE "rootEntries"
               view == [seen[p] EXCEPT !.names = Locks \cap {object[p]}]
    <2>2. pc' = [pc EXCEPT ![p] = at] /\ at \in Points /\ builds' \subseteq Processes
          /\ UNCHANGED <<dest, lockFile, staged, walk, object, loaded, faults>>
      BY <1>7 DEF ListRoot, At, Points, TypeOK
    <2>3. view \in Views
      BY <1>1 DEF Views, Locks
    <2>. HIDE DEF at, view
    <2>4. seen' = [seen EXCEPT ![p] = view]
      BY <2>1 DEF view
    <2>. QED  BY <2>2, <2>3, <2>4, LookTypes
  <1>8. CASE ListRootEntries(p)
    <2> DEFINE view == [seen[p] EXCEPT !.locks = Locks \cap {object[p]},
                                       !.staged = StagedNow \cap {object[p]}]
    <2>1. seen' = [seen EXCEPT ![p] = view]
      BY <1>8 DEF ListRootEntries, SeeEntries
    <2>2. pc' = [pc EXCEPT ![p] = "rootVerify"] /\ "rootVerify" \in Points /\ builds' \subseteq Processes
          /\ UNCHANGED <<dest, lockFile, staged, walk, object, loaded, faults>>
      BY <1>8 DEF ListRootEntries, At, Points, rootVars, TypeOK
    <2>3. view \in Views
      BY <1>1 DEF Views, Locks, StagedNow
    <2>. HIDE DEF view
    <2>. QED  BY <2>1, <2>2, <2>3, LookTypes
  <1>. QED  BY <1>4, <1>5, <1>6, <1>7, <1>8

\* The steps of a walk, whose rest is again a walk.
LEMMA WalkActionTypes ==
    ASSUME TypeOK, NEW p \in Processes, FeatureLayout(p) \/ Skip(p) \/ Score(p) \/ WalkEnds(p)
    PROVE  TypeOK'
  <1>1. walk[p] \in Walks /\ IsInjective(walk[p].todo)
    BY DEF TypeOK, Walks
  <1> DEFINE rest == [walk[p] EXCEPT !.todo = Tail(walk[p].todo)]
  <1>2. ASSUME walk[p].todo # <<>>
        PROVE  rest \in Walks /\ IsInjective(rest.todo) /\ Head(walk[p].todo) \in Episodes
    <2>1. walk[p].todo \in Seq(Episodes)
      BY <1>1 DEF Walks
    <2>2. Tail(walk[p].todo) \in Seq(Episodes) /\ Head(walk[p].todo) \in Episodes
      BY <1>2, <2>1
    <2>3. IsInjective(Tail(walk[p].todo))
      BY <1>1, <1>2, <2>1 DEF IsInjective
    <2>4. rest \in Walks /\ rest.todo = Tail(walk[p].todo)
      BY <1>1, <2>2 DEF Walks
    <2>. QED  BY <2>2, <2>3, <2>4
  <1>3. CASE Raise(p)
    BY <1>3, RaiseTypes
  <1>4. CASE FeatureLayout(p) /\ ~Raise(p)
    <2> DEFINE pending == \E e \in ToSet(walk[p].todo) : dest[e] = None
               w == [walk[p] EXCEPT !.runtime = pending]
    <2>1. walk' = [walk EXCEPT ![p] = w] /\ pc' = [pc EXCEPT ![p] = "walk"]
          /\ UNCHANGED <<dest, lockFile, staged, builds, object, seen, loaded, faults>>
      BY <1>4 DEF FeatureLayout, At, rootVars
    <2>2. pending \in BOOLEAN
      OBVIOUS
    <2>. HIDE DEF pending
    <2>3. w \in Walks /\ IsInjective(w.todo)
      BY <1>1, <2>2 DEF Walks
    <2>. HIDE DEF w
    <2>4. walk' \in [Processes -> Walks] /\ \A q \in Processes : IsInjective(walk'[q].todo)
      BY <2>1, <2>3, WalkTypes
    <2>. QED  BY <2>1, <2>4 DEF TypeOK, Walks, Points
  <1>5. CASE Skip(p)
    <2>1. walk[p].todo # <<>> /\ walk' = [walk EXCEPT ![p] = rest]
          /\ UNCHANGED <<dest, lockFile, staged, builds, pc, object, seen, loaded, faults>>
      BY <1>5 DEF Skip, rootVars
    <2>2. walk' \in [Processes -> Walks] /\ \A q \in Processes : IsInjective(walk'[q].todo)
      BY <1>2, <2>1, WalkTypes
    <2>. QED  BY <2>1, <2>2 DEF TypeOK, Walks
  <1>6. CASE Score(p) /\ ~Raise(p)
    <2>1. /\ walk[p].todo # <<>> /\ walk' = [walk EXCEPT ![p] = rest] /\ pc' = [pc EXCEPT ![p] = "acquire"]
          /\ object' = [object EXCEPT ![p] = Head(walk[p].todo)]
          /\ UNCHANGED <<dest, lockFile, staged, builds, seen, loaded, faults>>
      BY <1>6 DEF Score, rootVars, At
    <2>2. walk' \in [Processes -> Walks] /\ \A q \in Processes : IsInjective(walk'[q].todo)
      BY <1>2, <2>1, WalkTypes
    <2>3. object' \in [Processes -> Objects \cup {0}]
      BY <1>2, <2>1, ObjectFacts DEF TypeOK
    <2>. QED  BY <2>1, <2>2, <2>3 DEF TypeOK, Walks, Points
  <1>7. CASE WalkEnds(p)
    <2>1. NoWalk \in Walks /\ IsInjective(NoWalk.todo)
      BY DEF NoWalk, Walks, IsInjective
    <2>2. walk' = [walk EXCEPT ![p] = NoWalk] /\ UNCHANGED <<dest, lockFile, staged, builds, object, seen, loaded, faults>>
      BY <1>7 DEF WalkEnds, rootVars
    <2>3. walk' \in [Processes -> Walks] /\ \A q \in Processes : IsInjective(walk'[q].todo)
      BY <2>1, <2>2, WalkTypes
    <2> DEFINE at == IF p \in Finalizers THEN "layout" ELSE "off"
    <2>4. pc' = [pc EXCEPT ![p] = at] /\ at \in Points
      BY <1>7 DEF WalkEnds, At, Points
    <2>. HIDE DEF at
    <2>5. pc' \in [Processes -> Points]
      BY <2>4 DEF TypeOK
    <2>. QED  BY <2>2, <2>3, <2>5 DEF TypeOK, Walks
  <1>. QED  BY <1>3, <1>4, <1>5, <1>6, <1>7

\* The steps of a publication: what a commit writes is a process or the sidecars
\* it loaded.
LEMMA PublicationTypes ==
    ASSUME TypeOK, NEW p \in Processes, Acquire(p) \/ Stage(p) \/ Commit(p)
    PROVE  TypeOK'
  <1>1. UNCHANGED <<builds, walk, object, seen, loaded, faults>>
    BY DEF Acquire, Stage, Commit, localVars
  <1>2. pc' \in [Processes -> Points]
    <2>1. Collision(object[p]) \in Points
      BY DEF Collision, Points, Publishing
    <2>2. PICK at : at \in Points /\ pc' = [pc EXCEPT ![p] = at]
      BY <2>1 DEF Acquire, Stage, Commit, At, Points, Publishing
    <2>. QED  BY <2>2 DEF TypeOK
  <1>3. lockFile' \in [Objects -> BOOLEAN]
    BY DEF Acquire, Stage, Commit, TypeOK
  <1>4. staged' \in [Objects -> BOOLEAN]
    BY DEF Acquire, Stage, Commit, TypeOK
  <1>5. /\ dest' \in [Objects -> Contents]
        /\ \A e \in Episodes : dest'[e] \in Processes \cup {None}
        /\ \A o \in Stages : dest'[o] \in {None} \cup ScoreFunctions
    <2>1. CASE dest' = dest
      BY <2>1 DEF TypeOK, Contents
    <2>2. CASE dest' # dest
      <3>1. dest' = [dest EXCEPT ![object[p]] = Content(p)]
        BY <2>2 DEF Acquire, Stage, Commit
      <3>2. Content(p) \in Contents
        BY DEF Content, Contents, TypeOK
      <3>3. object[p] \in Episodes => Content(p) \in Processes
        BY DEF Content
      <3>4. object[p] \in Stages => Content(p) \in ScoreFunctions
        BY ObjectFacts DEF Content, TypeOK
      <3>. HIDE DEF Content
      <3>5. dest' \in [Objects -> Contents]
        BY <3>1, <3>2 DEF TypeOK, Contents
      <3>6. \A e \in Episodes : dest'[e] \in Processes \cup {None}
        BY <3>1, <3>3, ObjectFacts DEF TypeOK
      <3>7. \A o \in Stages : dest'[o] \in {None} \cup ScoreFunctions
        BY <3>1, <3>4, ObjectFacts DEF TypeOK
      <3>. QED  BY <3>5, <3>6, <3>7
    <2>. QED  BY <2>1, <2>2
  <1>. QED  BY <1>1, <1>2, <1>3, <1>4, <1>5 DEF TypeOK, Contents

\* Unlocking, waiting and the steps of the finalization.
LEMMA MovingTypes ==
    ASSUME TypeOK, NEW p \in Processes,
           Unlock(p) \/ WaitEnds(p) \/ WaitTimesOut(p) \/ FinalLayout(p) \/ Load(p) \/ CheckRoot(p)
    PROVE  TypeOK'
  <1>1. CASE Raise(p)
    BY <1>1, RaiseTypes
  <1>2. CASE ~Raise(p) /\ Unlock(p)
    <2>1. UNCHANGED <<dest, staged, faults>> /\ lockFile' \in [Objects -> BOOLEAN]
      BY <1>2 DEF Unlock, TypeOK
    <2>2. builds' \subseteq Processes /\ Locals
      <3>1. CASE Advance(p)
        BY <3>1, AdvanceTypes DEF Locals
      <3>2. CASE Forget(p) /\ builds' = builds \ {p}
        BY <3>2, ForgetTypes DEF Locals, TypeOK
      <3>3. CASE At(p, "wait") /\ UNCHANGED <<builds, localVars>>
        BY <3>3 DEF Locals, TypeOK, At, Points, localVars, Walks, Views
      <3>. QED  BY <1>2, <3>1, <3>2, <3>3 DEF Unlock
    <2>. QED  BY <2>1, <2>2 DEF TypeOK, Locals, Walks, Views
  <1>3. CASE ~Raise(p) /\ WaitEnds(p)
    <2>1. UNCHANGED <<dest, lockFile, staged, faults>>
      BY <1>3 DEF WaitEnds
    <2>2. builds' \subseteq Processes /\ Locals
      <3>1. CASE Advance(p)
        BY <3>1, AdvanceTypes DEF Locals
      <3>3. CASE At(p, "root") /\ UNCHANGED <<builds, localVars>>
        BY <3>3 DEF Locals, TypeOK, At, Points, localVars, Walks, Views
      <3>. QED  BY <1>3, <3>1, <3>3 DEF WaitEnds
    <2>. QED  BY <2>1, <2>2 DEF TypeOK, Locals, Walks, Views
  <1>4. CASE ~Raise(p) /\ FinalLayout(p)
    BY <1>4 DEF FinalLayout, TypeOK, rootVars, localVars, At, Points
  <1>5. CASE ~Raise(p) /\ Load(p)
    <2>1. Scores \in ScoreFunctions
      BY DEF Scores, ScoreFunctions, TypeOK
    <2>2. loaded' \in [Processes -> ScoreFunctions]
      BY <1>5, <2>1 DEF Load, TypeOK
    <2>3. object' \in [Processes -> Objects \cup {0}]
      BY <1>5, ObjectFacts DEF Load, TypeOK
    <2>4. pc' \in [Processes -> Points] /\ UNCHANGED <<dest, lockFile, staged, builds, walk, seen, faults>>
      BY <1>5 DEF Load, TypeOK, rootVars, At, Points
    <2>. QED  BY <2>2, <2>3, <2>4 DEF TypeOK
  <1>6. CASE ~Raise(p) /\ CheckRoot(p)
    <2>1. CASE Advance(p)
      <3>1. UNCHANGED <<dest, lockFile, staged, faults>>
        BY <1>6, <2>1 DEF CheckRoot, rootVars
      <3>. QED  BY <2>1, <3>1, AdvanceTypes DEF TypeOK, Locals, Walks, Views
    <2>2. CASE ~Advance(p)
      <3>1. pc' = [pc EXCEPT ![p] = "acquire"] /\ "acquire" \in Points /\ builds' \subseteq Processes
            /\ UNCHANGED <<dest, lockFile, staged, walk, object, loaded, faults>>
            /\ seen' = [seen EXCEPT ![p] = NothingSeen]
        BY <1>6, <2>2 DEF CheckRoot, Unsee, At, Points, rootVars, TypeOK
      <3>2. NothingSeen \in Views
        BY DEF NothingSeen, Views
      <3>. QED  BY <3>1, <3>2, LookTypes
    <2>. QED  BY <2>1, <2>2
  <1>. QED  BY <1>1, <1>2, <1>3, <1>4, <1>5, <1>6 DEF WaitTimesOut

\* Deaths and interrupts, wherever they land.
LEMMA FaultTypes ==
    ASSUME TypeOK, NEW p \in Processes, Killed(p) \/ Interrupted(p)
    PROVE  TypeOK'
  <1>1. Forget(p) /\ dest' = dest /\ faults' \in 0..MaxFaults
    BY ScoreAssumption DEF Killed, Interrupted, TypeOK, rootVars
  <1>2. builds' \subseteq Processes
    BY DEF Killed, Interrupted, TypeOK, rootVars
  <1>3. lockFile' \in [Objects -> BOOLEAN]
    BY DEF Killed, Interrupted, TypeOK, rootVars
  <1>4. staged' \in [Objects -> BOOLEAN]
    BY DEF Killed, Interrupted, TypeOK, rootVars
  <1>. QED  BY <1>1, <1>2, <1>3, <1>4, ForgetTypes DEF TypeOK, Walks, Views

\* Every step keeps the types.
LEMMA TypeStep == TypeOK /\ [Next]_vars => TypeOK'
  <1>. SUFFICES ASSUME TypeOK, [Next]_vars PROVE TypeOK'
    OBVIOUS
  <1>1. CASE UNCHANGED vars
    BY <1>1 DEF vars, TypeOK
  <1>2. ASSUME NEW p \in Processes, NEW count \in 1..2, NEW index \in 0..1, NEW reverse \in BOOLEAN,
               Start(p, index, count, reverse)
        PROVE  TypeOK'
    BY <1>2, StartTypes
  <1>3. ASSUME NEW p \in Processes, Progress(p)
        PROVE  TypeOK'
    BY <1>3, ListTypes, WalkActionTypes, PublicationTypes, MovingTypes DEF Progress
  <1>4. ASSUME NEW p \in Processes, Killed(p) \/ Interrupted(p)
        PROVE  TypeOK'
    BY <1>4, FaultTypes
  <1>. QED  BY <1>1, <1>2, <1>3, <1>4 DEF Next

-----------------------------------------------------------------------------
(* The invariant of publication and finalization                           *)

Fits(p) ==
    /\ pc[p] \in AtObject => object[p] \in Objects
    /\ pc[p] \in AtRoot => object[p] \in Stages
    /\ pc[p] \notin AtObject \cup AtRoot => object[p] = 0
    /\ object[p] \in Stages \/ pc[p] \in {"layout", "load"} => p \in Finalizers

Holds(p) ==
    /\ pc[p] \in Publishing => lockFile[object[p]]
    /\ pc[p] \in Unlocking => ~staged[object[p]] /\ dest[object[p]] # None

Stands(p) ==
    object[p] \in Stages =>
        /\ loaded[p] = Scores /\ \A e \in Episodes : dest[e] # None
        /\ \A earlier \in Allocation..(object[p] - 1) : dest[earlier] # None

\* A step of p leaves the locals of the others alone, and the lock and the
\* temporary directory of what they publish.
OthersKeep(p) ==
    \A q \in Processes \ {p} :
        /\ pc'[q] = pc[q] /\ object'[q] = object[q] /\ loaded'[q] = loaded[q]
        /\ pc[q] \in Publishing => /\ lockFile'[object[q]] = lockFile[object[q]]
                                   /\ staged'[object[q]] = staged[object[q]]

\* What is published stays.
DestKept == \A o \in Objects : dest[o] # None => dest'[o] = dest[o]

\* The invariant is kept by a step of one process that leaves the rest alone, if
\* that process keeps its own part.
LEMMA ScoreStep ==
    ASSUME TypeOK, ScoreInvariant, NEW p \in Processes, OthersKeep(p), DestKept,
           Fits(p)', Holds(p)', Stands(p)', StagesBindScores',
           \A q \in Processes \ {p} :
               pc[q] \in Publishing /\ pc'[p] \in Publishing => object[q] # object'[p]
    PROVE  ScoreInvariant'
  <1>1. \A q \in Processes : Fits(q) /\ Holds(q) /\ Stands(q)
    BY DEF ScoreInvariant, ObjectsFit, PublishersExclude, FinalizersStand, Fits, Holds, Stands
  <1>2. ASSUME NEW q \in Processes, q # p PROVE Fits(q)' /\ Holds(q)' /\ Stands(q)'
    <2>1. /\ pc'[q] = pc[q] /\ object'[q] = object[q] /\ loaded'[q] = loaded[q]
          /\ pc[q] \in Publishing => /\ lockFile'[object[q]] = lockFile[object[q]]
                                     /\ staged'[object[q]] = staged[object[q]]
      BY <1>2 DEF OthersKeep
    <2>2. Fits(q)'
      BY <1>1, <2>1 DEF Fits
    <2>3. Holds(q)'
      <3>1. pc[q] \in Unlocking => pc[q] \in Publishing
        BY DEF Unlocking, Publishing
      <3>2. pc[q] \in Publishing => object[q] \in Objects
        BY <1>1 DEF Fits, AtObject
      <3>. QED  BY <1>1, <2>1, <3>1, <3>2 DEF Holds, DestKept
    <2>4. Stands(q)'
      <3>. SUFFICES ASSUME object[q] \in Stages PROVE Stands(q)'
        BY <2>1 DEF Stands
      <3>1. /\ loaded[q] = Scores /\ \A e \in Episodes : dest[e] # None
            /\ \A earlier \in Allocation..(object[q] - 1) : dest[earlier] # None
        BY <1>1 DEF Stands
      <3>2. \A e \in Episodes : dest'[e] = dest[e]
        BY <3>1, ObjectFacts DEF DestKept
      <3>3. Scores' = Scores
        BY <3>2 DEF Scores
      <3>4. \A earlier \in Allocation..(object[q] - 1) : earlier \in Objects
        BY ScoreAssumption DEF Stages, Objects, Allocation, Summary
      <3>. QED  BY <2>1, <3>1, <3>2, <3>3, <3>4 DEF Stands, DestKept
    <2>. QED  BY <2>2, <2>3, <2>4
  <1>3. \A q \in Processes : Fits(q)' /\ Holds(q)' /\ Stands(q)'
    BY <1>2
  <1>4. ASSUME NEW q \in Processes, NEW r \in Processes, NEW o \in Objects,
               Publishes(q, o)', Publishes(r, o)'
        PROVE  q = r
    <2>1. CASE q # p /\ r # p
      BY <1>4, <2>1 DEF OthersKeep, Publishes, ScoreInvariant, PublishersExclude
    <2>2. CASE q = p /\ r # p
      BY <1>4, <2>2 DEF OthersKeep, Publishes
    <2>3. CASE q # p /\ r = p
      BY <1>4, <2>3 DEF OthersKeep, Publishes
    <2>. QED  BY <2>1, <2>2, <2>3
  <1>5. ObjectsFit'
    BY <1>3 DEF ObjectsFit, Fits
  <1>6. PublishersExclude'
    BY <1>3, <1>4 DEF PublishersExclude, Holds
  <1>7. FinalizersStand'
    BY <1>3 DEF FinalizersStand, Stands
  <1>. QED  BY <1>5, <1>6, <1>7 DEF ScoreInvariant

\* What an invariant state says of each process.
LEMMA ScoreAt ==
    ASSUME ScoreInvariant, NEW p \in Processes
    PROVE  Fits(p) /\ Holds(p) /\ Stands(p)
  BY DEF ScoreInvariant, ObjectsFit, PublishersExclude, FinalizersStand, Fits, Holds, Stands

\* A step that only moves p on, between points at which it publishes nothing.
LEMMA LookKeeps ==
    ASSUME TypeOK, ScoreInvariant, NEW p \in Processes, NEW at \in Points,
           pc' = [pc EXCEPT ![p] = at], at \notin Publishing, Fits(p)',
           UNCHANGED <<dest, lockFile, staged, object, loaded>>
    PROVE  ScoreInvariant'
  <1>1. pc'[p] = at /\ \A q \in Processes \ {p} : pc'[q] = pc[q]
    BY DEF TypeOK
  <1>2. OthersKeep(p) /\ DestKept
    BY <1>1 DEF OthersKeep, DestKept
  <1>3. Holds(p)'
    BY <1>1 DEF Holds, Unlocking, Publishing
  <1>4. Stands(p)' /\ StagesBindScores'
    BY ScoreAt DEF Stands, Scores, ScoreInvariant, StagesBindScores
  <1>. QED  BY <1>1, <1>2, <1>3, <1>4, ScoreStep

\* A process that ends holds nothing.
LEMMA EndKeeps ==
    ASSUME TypeOK, ScoreInvariant, NEW p \in Processes, Forget(p), dest' = dest,
           \A q \in Processes \ {p} : pc[q] \in Publishing =>
               /\ lockFile'[object[q]] = lockFile[object[q]]
               /\ staged'[object[q]] = staged[object[q]]
    PROVE  ScoreInvariant'
  <1>1. pc'[p] = "off" /\ object'[p] = 0
    BY DEF Forget, At, TypeOK
  <1>2. \A q \in Processes \ {p} : pc'[q] = pc[q] /\ object'[q] = object[q] /\ loaded'[q] = loaded[q]
    BY DEF Forget, At, TypeOK
  <1>3. OthersKeep(p) /\ DestKept
    BY <1>2 DEF OthersKeep, DestKept
  <1>4. Fits(p)' /\ Holds(p)' /\ Stands(p)'
    BY <1>1, ObjectFacts DEF Fits, Holds, Stands, AtObject, AtRoot, Publishing, Unlocking
  <1>5. StagesBindScores' /\ pc'[p] \notin Publishing
    BY <1>1 DEF ScoreInvariant, StagesBindScores, Scores, Publishing
  <1>. QED  BY <1>3, <1>4, <1>5, ScoreStep

\* A process that fails holds no lock another one publishes under.
LEMMA RaiseKeeps ==
    ASSUME TypeOK, ScoreInvariant, NEW p \in Processes, Raise(p)
    PROVE  ScoreInvariant'
  <1>1. Forget(p) /\ UNCHANGED <<dest, lockFile, staged>>
    BY DEF Raise
  <1>. QED  BY <1>1, EndKeeps

\* A process that has its object published goes on to the next one.
LEMMA AdvanceKeeps ==
    ASSUME TypeOK, ScoreInvariant, NEW p \in Processes, Advance(p), dest' = dest,
           dest[object[p]] # None,
           \A q \in Processes \ {p} : pc[q] \in Publishing =>
               /\ lockFile'[object[q]] = lockFile[object[q]]
               /\ staged'[object[q]] = staged[object[q]]
    PROVE  ScoreInvariant'
  <1>1. CASE Forget(p)
    BY <1>1, EndKeeps
  <1>2. CASE object[p] \in Episodes /\ ~Forget(p)
    <2>1. object' = [object EXCEPT ![p] = 0] /\ At(p, "walk") /\ loaded' = loaded
      BY <1>2, ObjectFacts DEF Advance
    <2>2. pc'[p] = "walk" /\ object'[p] = 0
      BY <2>1 DEF At, TypeOK
    <2>3. OthersKeep(p) /\ DestKept
      BY <2>1 DEF OthersKeep, DestKept, At, TypeOK
    <2>4. Fits(p)' /\ Holds(p)' /\ Stands(p)'
      BY <2>2, ObjectFacts DEF Fits, Holds, Stands, AtObject, AtRoot, Publishing, Unlocking
    <2>5. StagesBindScores' /\ pc'[p] \notin Publishing
      BY <2>2 DEF ScoreInvariant, StagesBindScores, Scores, Publishing
    <2>. QED  BY <2>3, <2>4, <2>5, ScoreStep
  <1>3. CASE object[p] \in Stages \ {Summary} /\ ~Forget(p)
    <2>1. object' = [object EXCEPT ![p] = NextStage(object[p])] /\ At(p, "root") /\ loaded' = loaded
      BY <1>3, ObjectFacts DEF Advance
    <2>2. pc'[p] = "root" /\ object'[p] = NextStage(object[p]) /\ loaded'[p] = loaded[p]
      BY <2>1 DEF At, TypeOK
    <2>3. OthersKeep(p) /\ DestKept
      BY <2>1 DEF OthersKeep, DestKept, At, TypeOK
    <2>4. object'[p] \in Stages /\ p \in Finalizers
      BY <1>3, <2>2, ObjectFacts, ScoreAt DEF Fits
    <2>5. Fits(p)' /\ Holds(p)'
      BY <2>2, <2>4, ObjectFacts DEF Fits, Holds, AtObject, AtRoot, Publishing, Unlocking
    <2>6. Stands(p)'
      <3>1. /\ loaded[p] = Scores /\ \A e \in Episodes : dest[e] # None
            /\ \A earlier \in Allocation..(object[p] - 1) : dest[earlier] # None
        BY <1>3, ScoreAt DEF Stands
      <3>2. \A earlier \in Allocation..(object'[p] - 1) : earlier = object[p] \/ earlier \in Allocation..(object[p] - 1)
        BY <1>3, <2>2, ScoreAssumption DEF NextStage, Stages, Allocation, Summary
      <3>. QED  BY <2>2, <3>1, <3>2 DEF Stands, Scores
    <2>7. StagesBindScores' /\ pc'[p] \notin Publishing
      BY <2>2 DEF ScoreInvariant, StagesBindScores, Scores, Publishing
    <2>. QED  BY <2>3, <2>5, <2>6, <2>7, ScoreStep
  <1>. QED  BY <1>1, <1>2, <1>3 DEF Advance

\* The steps before and between publications.
LEMMA LookingKeeps ==
    ASSUME TypeOK, ScoreInvariant, NEW p \in Processes,
           ListNames(p) \/ ListEntries(p) \/ VerifyEntries(p) \/ FeatureLayout(p) \/ Skip(p)
             \/ WalkEnds(p) \/ FinalLayout(p) \/ ListRoot(p) \/ ListRootEntries(p)
    PROVE  ScoreInvariant'
  <1>1. CASE Raise(p)
    BY <1>1, RaiseKeeps
  <1>2. CASE ~Raise(p)
    <2>1. UNCHANGED <<dest, lockFile, staged, object, loaded>>
      BY <1>2 DEF ListNames, ListEntries, VerifyEntries, FeatureLayout, Skip, WalkEnds, FinalLayout, ListRoot,
         ListRootEntries, rootVars, localVars
    <2>2. PICK at \in Points : pc' = [pc EXCEPT ![p] = at] /\ at \notin Publishing
      <3>1. CASE ListNames(p) \/ ListEntries(p) \/ VerifyEntries(p) \/ FeatureLayout(p)
        BY <1>2, <3>1 DEF ListNames, ListEntries, VerifyEntries, FeatureLayout, At, Points, Publishing
      <3>2. CASE Skip(p)
        <4>1. pc' = [pc EXCEPT ![p] = "walk"]
          BY <3>2 DEF Skip, TypeOK
        <4>. QED  BY <4>1 DEF Points, Publishing
      <3>3. CASE WalkEnds(p) \/ FinalLayout(p) \/ ListRoot(p) \/ ListRootEntries(p)
        BY <1>2, <3>3 DEF WalkEnds, FinalLayout, ListRoot, ListRootEntries, At, Points, Publishing
      <3>. QED  BY <3>1, <3>2, <3>3
    <2>3. pc'[p] = at
      BY <2>2 DEF TypeOK
    <2>4. Fits(p)
      BY ScoreAt
    <2>5. Fits(p)'
      <3>1. CASE ListNames(p) \/ ListEntries(p) \/ VerifyEntries(p) \/ FeatureLayout(p)
        BY <1>2, <2>1, <2>4, <3>1, ObjectFacts DEF Fits, ListNames, ListEntries, VerifyEntries, FeatureLayout, At,
           AtObject, AtRoot, Publishing, TypeOK
      <3>2. CASE Skip(p)
        BY <2>1, <2>4, <3>2 DEF Fits, Skip
      <3>3. CASE WalkEnds(p) \/ FinalLayout(p)
        BY <1>2, <2>1, <2>4, <3>3, ObjectFacts DEF Fits, WalkEnds, FinalLayout, At,
           AtObject, AtRoot, Publishing, TypeOK
      <3>4. CASE ListRoot(p) \/ ListRootEntries(p)
        BY <2>1, <2>4, <3>4, ObjectFacts DEF Fits, ListRoot, ListRootEntries, At,
           AtObject, AtRoot, Publishing, TypeOK
      <3>. QED  BY <3>1, <3>2, <3>3, <3>4
    <2>. QED  BY <2>1, <2>2, <2>5, LookKeeps
  <1>. QED  BY <1>1, <1>2

\* A start is about no object yet.
LEMMA StartKeeps ==
    ASSUME TypeOK, ScoreInvariant, NEW p \in Processes, NEW index, NEW count, NEW reverse,
           Start(p, index, count, reverse)
    PROVE  ScoreInvariant'
  <1>1. pc[p] = "off" /\ pc' = [pc EXCEPT ![p] = "names"] /\ UNCHANGED <<dest, lockFile, staged, object, loaded>>
    BY DEF Start, At, rootVars
  <1>2. pc'[p] = "names" /\ "names" \in Points /\ "names" \notin Publishing
    BY <1>1 DEF TypeOK, Points, Publishing
  <1>3. Fits(p)'
    BY <1>1, <1>2, ScoreAt, ObjectFacts DEF Fits, AtObject, AtRoot, Publishing
  <1>. QED  BY <1>1, <1>2, <1>3, LookKeeps

\* An episode that is to be scored, and a finalization that begins, with every
\* sidecar loaded.
LEMMA ScoreKeeps ==
    ASSUME TypeOK, ScoreInvariant, NEW p \in Processes, Score(p) \/ Load(p)
    PROVE  ScoreInvariant'
  <1>1. CASE Raise(p)
    BY <1>1, RaiseKeeps
  <1>2. CASE Score(p) /\ ~Raise(p)
    <2>1. /\ walk[p].todo # <<>> /\ pc' = [pc EXCEPT ![p] = "acquire"]
          /\ object' = [object EXCEPT ![p] = Head(walk[p].todo)]
          /\ UNCHANGED <<dest, lockFile, staged, loaded>>
      BY <1>2 DEF Score, rootVars, At
    <2>2. Head(walk[p].todo) \in Episodes
      <3>1. walk[p].todo \in Seq(Episodes)
        BY DEF TypeOK
      <3>. QED  BY <2>1, <3>1
    <2>3. pc'[p] = "acquire" /\ object'[p] \in Episodes
      BY <2>1, <2>2 DEF TypeOK
    <2>4. OthersKeep(p) /\ DestKept
      BY <2>1 DEF OthersKeep, DestKept, TypeOK
    <2>5. Fits(p)' /\ Holds(p)' /\ Stands(p)'
      BY <2>3, ObjectFacts DEF Fits, Holds, Stands, AtObject, AtRoot, Publishing, Unlocking
    <2>6. StagesBindScores' /\ pc'[p] \notin Publishing
      BY <2>1, <2>3 DEF ScoreInvariant, StagesBindScores, Scores, Publishing
    <2>. QED  BY <2>4, <2>5, <2>6, ScoreStep
  <1>3. CASE Load(p) /\ ~Raise(p)
    <2>1. /\ pc[p] = "load" /\ \A e \in Episodes : dest[e] # None
          /\ pc' = [pc EXCEPT ![p] = "root"]
          /\ object' = [object EXCEPT ![p] = Allocation] /\ loaded' = [loaded EXCEPT ![p] = Scores]
          /\ UNCHANGED <<dest, lockFile, staged>>
      BY <1>3 DEF Load, rootVars, At
    <2>2. pc'[p] = "root" /\ object'[p] = Allocation /\ loaded'[p] = Scores /\ p \in Finalizers
      BY <2>1, ScoreAt DEF TypeOK, Fits
    <2>3. OthersKeep(p) /\ DestKept
      BY <2>1 DEF OthersKeep, DestKept, TypeOK
    <2>4. Fits(p)' /\ Holds(p)'
      BY <2>2, ObjectFacts DEF Fits, Holds, AtObject, AtRoot, Publishing, Unlocking
    <2>5. Stands(p)'
      <3>1. Allocation..(Allocation - 1) = {}
        BY ScoreAssumption DEF Allocation
      <3>. QED  BY <2>1, <2>2, <3>1 DEF Stands, Scores
    <2>6. StagesBindScores' /\ pc'[p] \notin Publishing
      BY <2>1, <2>2 DEF ScoreInvariant, StagesBindScores, Scores, Publishing
    <2>. QED  BY <2>3, <2>4, <2>5, <2>6, ScoreStep
  <1>. QED  BY <1>1, <1>2, <1>3

\* The lock file is created only where there is none, so that its creator is the
\* only publisher.
LEMMA AcquireKeeps ==
    ASSUME TypeOK, ScoreInvariant, NEW p \in Processes, Acquire(p)
    PROVE  ScoreInvariant'
  <1>1. pc[p] = "acquire" /\ UNCHANGED <<dest, staged, object, loaded>>
    BY DEF Acquire, localVars
  <1>2. object[p] \in Objects /\ Fits(p)
    BY <1>1, ScoreAt DEF Fits, AtObject
  <1>3. CASE At(p, "wait") /\ UNCHANGED lockFile
    <2>1. pc'[p] = "wait"
      BY <1>3 DEF At, TypeOK
    <2>2. Fits(p)' /\ "wait" \in Points /\ "wait" \notin Publishing
      BY <1>1, <1>2, <2>1 DEF Fits, AtObject, AtRoot, Publishing, Points
    <2>. QED  BY <1>1, <1>3, <2>2, LookKeeps DEF At
  <1>4. CASE /\ At(p, "locked") /\ lockFile' = [lockFile EXCEPT ![object[p]] = TRUE] /\ ~lockFile[object[p]]
    <2>1. pc'[p] = "locked" /\ \A q \in Processes \ {p} : pc'[q] = pc[q]
      BY <1>4 DEF At, TypeOK
    <2>2. lockFile'[object[p]]
      BY <1>2, <1>4 DEF TypeOK
    <2>3. \A q \in Processes \ {p} : pc[q] \in Publishing => object[q] \in Objects /\ object[q] # object[p]
      BY <1>4, ScoreAt DEF Holds, Fits, AtObject
    <2>4. \A q \in Processes \ {p} : pc[q] \in Publishing => lockFile'[object[q]] = lockFile[object[q]]
      BY <1>4, <2>3 DEF TypeOK
    <2>8. OthersKeep(p) /\ DestKept
      BY <1>1, <2>1, <2>4 DEF OthersKeep, DestKept
    <2>5. Fits(p)'
      BY <1>1, <1>2, <2>1 DEF Fits, AtObject, AtRoot, Publishing
    <2>6. Holds(p)'
      BY <1>1, <2>1, <2>2 DEF Holds, Unlocking
    <2>7. Stands(p)' /\ StagesBindScores'
      BY <1>1, ScoreAt DEF Stands, Scores, ScoreInvariant, StagesBindScores
    <2>. QED  BY <1>1, <2>3, <2>5, <2>6, <2>7, <2>8, ScoreStep
  <1>. QED  BY <1>3, <1>4 DEF Acquire

\* Staging touches only the temporary directory of the lock's holder.
LEMMA StageKeeps ==
    ASSUME TypeOK, ScoreInvariant, NEW p \in Processes, Stage(p)
    PROVE  ScoreInvariant'
  <1>1. pc[p] = "locked" /\ UNCHANGED <<dest, lockFile, object, loaded>>
    BY DEF Stage, localVars
  <1>2. Fits(p) /\ lockFile[object[p]]
    BY <1>1, ScoreAt DEF Holds, Publishing
  <1>3. pc'[p] = "staged" /\ \A q \in Processes \ {p} : pc'[q] = pc[q]
    BY DEF Stage, At, TypeOK
  <1>4. \A q \in Processes \ {p} : pc[q] \in Publishing => object[q] # object[p]
    BY <1>1, <1>2, ScoreAt DEF ScoreInvariant, PublishersExclude, Publishes, Publishing, Fits, AtObject
  <1>5. OthersKeep(p) /\ DestKept
    BY <1>1, <1>3, <1>4 DEF OthersKeep, DestKept, TypeOK, Stage
  <1>6. Fits(p)'
    BY <1>1, <1>2, <1>3 DEF Fits, AtObject, AtRoot, Publishing
  <1>7. Holds(p)'
    BY <1>1, <1>2, <1>3 DEF Holds, Unlocking
  <1>8. Stands(p)' /\ StagesBindScores'
    BY <1>1, ScoreAt DEF Stands, Scores, ScoreInvariant, StagesBindScores
  <1>. QED  BY <1>1, <1>4, <1>5, <1>6, <1>7, <1>8, ScoreStep

\* The commit: what is there stays, what is not there becomes what the process
\* computed, in its turn.
LEMMA CommitKeeps ==
    ASSUME TypeOK, ScoreInvariant, NEW p \in Processes, Commit(p)
    PROVE  ScoreInvariant' /\ DestKept
  <1> DEFINE o == object[p]
  <1>1. pc[p] = "staged" /\ UNCHANGED <<lockFile, object, loaded>> /\ staged' = [staged EXCEPT ![o] = FALSE]
    BY DEF Commit, localVars
  <1>2. Fits(p) /\ lockFile[o] /\ o \in Objects /\ Stands(p)
    BY <1>1, ScoreAt DEF Holds, Publishing, Fits, AtObject
  <1>3. \A q \in Processes \ {p} : pc[q] \in Publishing => object[q] \in Objects /\ object[q] # o
    BY <1>1, <1>2, ScoreAt DEF ScoreInvariant, PublishersExclude, Publishes, Publishing, Fits, AtObject
  <1>4. pc'[p] \in Unlocking /\ \A q \in Processes \ {p} : pc'[q] = pc[q]
    <2>1. Collision(o) \in Unlocking
      BY DEF Collision, Unlocking
    <2>. QED  BY <2>1 DEF Commit, At, TypeOK, Unlocking
  <1>5. OthersKeep(p) /\ ~staged'[o]
    BY <1>1, <1>2, <1>3, <1>4 DEF OthersKeep, TypeOK
  <1>6. Fits(p)'
    BY <1>1, <1>2, <1>4 DEF Fits, AtObject, AtRoot, Publishing, Unlocking
  <1>7. CASE dest[o] # None
    <2>1. dest' = dest
      BY <1>7 DEF Commit
    <2>2. DestKept /\ Holds(p)' /\ Stands(p)' /\ StagesBindScores'
      BY <1>1, <1>2, <1>5, <1>7, <2>1 DEF DestKept, Holds, Stands, StagesBindScores, Scores, ScoreInvariant
    <2>. QED  BY <1>1, <1>3, <1>5, <1>6, <2>2, ScoreStep
  <1>8. CASE dest[o] = None
    <2>1. dest' = [dest EXCEPT ![o] = Content(p)]
      BY <1>8 DEF Commit
    <2>2. Content(p) # None /\ (o \in Stages => Content(p) = loaded[p])
      <3>1. p # None /\ loaded[p] \in ScoreFunctions
        BY NothingAssumption DEF TypeOK
      <3>2. loaded[p] # None
        BY <3>1, NothingAssumption
      <3>. QED  BY <3>1, <3>2, <1>2, ObjectFacts DEF Content
    <2>. HIDE DEF o, Content
    <2>3. dest'[o] = Content(p) /\ \A x \in Objects \ {o} : dest'[x] = dest[x]
      BY <1>2, <2>1 DEF TypeOK
    <2>4. DestKept
      BY <1>8, <2>3 DEF DestKept
    <2>5. Holds(p)'
      BY <1>1, <1>2, <1>5, <2>2, <2>3 DEF Holds, o
    <2>6. ASSUME o \in Episodes PROVE \A x \in Stages : dest[x] = None /\ dest'[x] = None
      <3>1. \A x \in Stages : dest[x] = None
        BY <1>8, <2>6 DEF ScoreInvariant, StagesBindScores
      <3>. QED  BY <2>3, <2>6, <3>1, ObjectFacts
    <2>7. ASSUME o \in Stages
          PROVE  /\ Scores' = Scores /\ \A e \in Episodes : dest'[e] # None
                 /\ \A earlier \in Allocation..(o - 1) : dest'[earlier] # None
                 /\ loaded[p] = Scores
      <3>1. loaded[p] = Scores /\ (\A e \in Episodes : dest[e] # None)
            /\ \A earlier \in Allocation..(o - 1) : dest[earlier] # None
        BY <1>2, <2>7 DEF Stands, o
      <3>2. \A e \in Episodes : dest'[e] = dest[e]
        BY <2>3, <2>7, ObjectFacts
      <3>3. \A earlier \in Allocation..(o - 1) : earlier \in Objects
        BY <2>7, ScoreAssumption DEF Stages, Objects, Allocation, Summary
      <3>4. \A earlier \in Allocation..(o - 1) : dest'[earlier] # None
        BY <2>4, <3>1, <3>3 DEF DestKept
      <3>5. Scores' = Scores
        BY <3>2 DEF Scores
      <3>. QED  BY <3>1, <3>2, <3>4, <3>5
    <2>8. Stands(p)'
      BY <1>1, <2>7 DEF Stands, o
    <2>9. StagesBindScores'
      <3>1. CASE o \in Episodes
        BY <2>6, <3>1 DEF StagesBindScores
      <3>2. CASE o \in Stages
        <4>. SUFFICES ASSUME NEW x \in Stages, dest'[x] # None
                      PROVE  /\ dest'[x] = Scores' /\ \A e \in Episodes : dest'[e] # None
                             /\ \A earlier \in Allocation..x : dest'[earlier] # None
          BY DEF StagesBindScores
        <4>1. CASE x = o
          <5>1. \A earlier \in Allocation..x : earlier = o \/ earlier \in Allocation..(o - 1)
            BY <4>1, ScoreAssumption DEF Stages, Allocation, Summary
          <5>. QED  BY <2>2, <2>3, <2>7, <3>2, <4>1, <5>1
        <4>2. CASE x # o
          <5>1. dest[x] # None /\ dest'[x] = dest[x]
            BY <2>3, <4>2, ObjectFacts
          <5>2. dest[x] = Scores /\ \A earlier \in Allocation..x : dest[earlier] # None
            BY <5>1 DEF ScoreInvariant, StagesBindScores
          <5>3. \A earlier \in Allocation..x : earlier \in Objects
            BY ScoreAssumption DEF Stages, Objects, Allocation, Summary
          <5>4. \A earlier \in Allocation..x : dest'[earlier] # None
            BY <2>4, <5>2, <5>3 DEF DestKept
          <5>. QED  BY <2>7, <3>2, <5>1, <5>2, <5>4
        <4>. QED  BY <4>1, <4>2
      <3>. QED  BY <1>2, <3>1, <3>2, ObjectFacts
    <2>10. \A q \in Processes \ {p} : pc[q] \in Publishing => object[q] # object'[p]
      BY <1>1, <1>3 DEF o
    <2>. QED  BY <1>5, <1>6, <2>4, <2>5, <2>8, <2>9, <2>10, ScoreStep
  <1>. QED  BY <1>7, <1>8

\* Unlocking, the end of a wait, and a stage that is found there.
LEMMA UnlockKeeps ==
    ASSUME TypeOK, ScoreInvariant, NEW p \in Processes, Unlock(p)
    PROVE  ScoreInvariant'
  <1>1. pc[p] \in Unlocking /\ dest' = dest /\ staged' = staged /\ lockFile' = [lockFile EXCEPT ![object[p]] = FALSE]
    BY DEF Unlock, Unlocking
  <1>2. Fits(p) /\ object[p] \in Objects /\ dest[object[p]] # None
    BY <1>1, ScoreAt DEF Holds, Publishing, Unlocking, Fits, AtObject
  <1>3. \A q \in Processes \ {p} : pc[q] \in Publishing => object[q] \in Objects /\ object[q] # object[p]
    BY <1>1, <1>2, ScoreAt DEF ScoreInvariant, PublishersExclude, Publishes, Publishing, Unlocking, Fits, AtObject
  <1>4. \A q \in Processes \ {p} : pc[q] \in Publishing =>
               /\ lockFile'[object[q]] = lockFile[object[q]]
               /\ staged'[object[q]] = staged[object[q]]
    BY <1>1, <1>3 DEF TypeOK
  <1>5. CASE Advance(p)
    BY <1>1, <1>2, <1>4, <1>5, AdvanceKeeps
  <1>6. CASE Forget(p)
    BY <1>1, <1>4, <1>6, EndKeeps
  <1>7. CASE At(p, "wait") /\ UNCHANGED localVars
    <2>1. pc'[p] = "wait" /\ object'[p] = object[p] /\ \A q \in Processes \ {p} : pc'[q] = pc[q]
      BY <1>7 DEF At, TypeOK, localVars
    <2>2. OthersKeep(p) /\ DestKept
      BY <1>1, <1>4, <1>7, <2>1 DEF OthersKeep, DestKept, localVars
    <2>3. Fits(p)' /\ Holds(p)'
      BY <1>2, <2>1 DEF Fits, Holds, AtObject, AtRoot, Publishing, Unlocking
    <2>4. Stands(p)' /\ StagesBindScores' /\ pc'[p] \notin Publishing
      BY <1>1, <1>7, <2>1, ScoreAt DEF Stands, Scores, ScoreInvariant, StagesBindScores, Publishing, localVars
    <2>. QED  BY <2>2, <2>3, <2>4, ScoreStep
  <1>. QED  BY <1>5, <1>6, <1>7 DEF Unlock

\* The end of a wait and the check of a content root.
LEMMA MovingKeeps ==
    ASSUME TypeOK, ScoreInvariant, NEW p \in Processes, WaitEnds(p) \/ WaitTimesOut(p) \/ CheckRoot(p)
    PROVE  ScoreInvariant'
  <1>1. CASE Raise(p)
    BY <1>1, RaiseKeeps
  <1>2. CASE WaitEnds(p)
    <2>1. pc[p] = "wait" /\ dest[object[p]] # None /\ UNCHANGED <<dest, lockFile, staged>>
      BY <1>2 DEF WaitEnds
    <2>2. CASE Advance(p)
      BY <2>1, <2>2, AdvanceKeeps
    <2>3. CASE object[p] \in Stages /\ At(p, "root") /\ UNCHANGED localVars
      <3>1. pc' = [pc EXCEPT ![p] = "root"] /\ UNCHANGED <<object, loaded>>
        BY <2>3 DEF At, localVars
      <3>2. pc'[p] = "root" /\ "root" \in Points /\ "root" \notin Publishing
        BY <3>1 DEF TypeOK, Points, Publishing
      <3>3. Fits(p)'
        BY <2>3, <3>1, <3>2, ScoreAt DEF Fits, AtObject, AtRoot, Publishing
      <3>. QED  BY <2>1, <3>1, <3>2, <3>3, LookKeeps
    <2>. QED  BY <1>2, <2>2, <2>3 DEF WaitEnds
  <1>3. CASE CheckRoot(p) /\ ~Raise(p)
    <2>1. pc[p] = "rootVerify" /\ UNCHANGED <<dest, lockFile, staged>>
      BY <1>3 DEF CheckRoot, rootVars
    <2>2. CASE Advance(p) /\ dest[object[p]] # None
      BY <2>1, <2>2, AdvanceKeeps
    <2>3. CASE At(p, "acquire") /\ UNCHANGED <<object, loaded>>
      <3>1. pc' = [pc EXCEPT ![p] = "acquire"] /\ pc'[p] = "acquire" /\ "acquire" \in Points
            /\ "acquire" \notin Publishing
        BY <2>3 DEF At, TypeOK, Points, Publishing
      <3>2. Fits(p)'
        BY <2>1, <2>3, <3>1, ScoreAt, ObjectFacts DEF Fits, AtObject, AtRoot, Publishing
      <3>. QED  BY <2>1, <2>3, <3>1, <3>2, LookKeeps
    <2>. QED  BY <1>3, <2>2, <2>3 DEF CheckRoot
  <1>. QED  BY <1>1, <1>2, <1>3 DEF WaitTimesOut

\* A death leaves the files, and an interrupt removes only what its process holds.
LEMMA FaultKeeps ==
    ASSUME TypeOK, ScoreInvariant, NEW p \in Processes, Killed(p) \/ Interrupted(p)
    PROVE  ScoreInvariant'
  <1>1. Forget(p) /\ dest' = dest
    BY DEF Killed, Interrupted, rootVars
  <1>2. CASE UNCHANGED <<lockFile, staged>>
    BY <1>1, <1>2, EndKeeps
  <1>3. CASE /\ pc[p] \in Publishing /\ lockFile' = [lockFile EXCEPT ![object[p]] = FALSE]
             /\ \E s \in BOOLEAN : staged' = [staged EXCEPT ![object[p]] = s]
    <2>1. object[p] \in Objects
      BY <1>3, ScoreAt DEF Fits, AtObject
    <2>2. \A q \in Processes \ {p} : pc[q] \in Publishing => object[q] \in Objects /\ object[q] # object[p]
      BY <1>3, <2>1, ScoreAt DEF ScoreInvariant, PublishersExclude, Publishes, Fits, AtObject
    <2>3. PICK s \in BOOLEAN : staged' = [staged EXCEPT ![object[p]] = s]
      BY <1>3
    <2>4. \A q \in Processes \ {p} : pc[q] \in Publishing =>
               /\ lockFile'[object[q]] = lockFile[object[q]]
               /\ staged'[object[q]] = staged[object[q]]
      BY <1>3, <2>2, <2>3 DEF TypeOK
    <2>. QED  BY <1>1, <2>4, EndKeeps
  <1>4. "locked" \in Publishing
    BY DEF Publishing
  <1>. QED  BY <1>2, <1>3, <1>4 DEF Killed, Interrupted, rootVars

\* Initially nothing is published or locked.
LEMMA ScoreInit == Init => ScoreInvariant
  <1>. SUFFICES ASSUME Init PROVE ScoreInvariant
    OBVIOUS
  <1>1. \A p \in Processes : pc[p] = "off" /\ object[p] = 0
    BY DEF Init
  <1>2. ObjectsFit
    BY <1>1, ObjectFacts DEF ObjectsFit, AtObject, AtRoot, Publishing
  <1>3. PublishersExclude
    BY <1>1 DEF PublishersExclude, Publishes, Publishing, Unlocking
  <1>4. FinalizersStand
    BY <1>1, ObjectFacts DEF FinalizersStand
  <1>5. StagesBindScores
    BY ObjectFacts DEF StagesBindScores, Init
  <1>. QED  BY <1>2, <1>3, <1>4, <1>5 DEF ScoreInvariant

\* Every step keeps the invariant.
LEMMA ScoreNext == TypeOK /\ ScoreInvariant /\ [Next]_vars => ScoreInvariant'
  <1>. SUFFICES ASSUME TypeOK, ScoreInvariant, [Next]_vars PROVE ScoreInvariant'
    OBVIOUS
  <1>1. CASE UNCHANGED vars
    BY <1>1 DEF vars, ScoreInvariant, ObjectsFit, PublishersExclude, FinalizersStand, StagesBindScores, Publishes,
       Scores
  <1>2. ASSUME NEW p \in Processes, NEW count \in 1..2, NEW index \in 0..1, NEW reverse \in BOOLEAN,
               Start(p, index, count, reverse)
        PROVE  ScoreInvariant'
    BY <1>2, StartKeeps
  <1>3. ASSUME NEW p \in Processes, Progress(p)
        PROVE  ScoreInvariant'
    BY <1>3, LookingKeeps, ScoreKeeps, AcquireKeeps, StageKeeps, CommitKeeps, UnlockKeeps, MovingKeeps DEF Progress
  <1>4. ASSUME NEW p \in Processes, Killed(p) \/ Interrupted(p)
        PROVE  ScoreInvariant'
    BY <1>4, FaultKeeps
  <1>. QED  BY <1>1, <1>2, <1>3, <1>4 DEF Next

Inv == TypeOK /\ ScoreInvariant

\* The inductive invariant that the properties below follow from, whoever walks,
\* finalizes and dies.
THEOREM ScoreInvariantHolds == Spec => []Inv
  <1>1. Init => Inv
    BY TypeInit, ScoreInit DEF Inv
  <1>2. Inv /\ [Next]_vars => Inv'
    BY TypeStep, ScoreNext DEF Inv
  <1>. QED  BY <1>1, <1>2, PTL DEF Spec

\* The types of the state, for any number of processes, episodes and faults; a
\* walk is always over distinct episodes.
THEOREM ScoreTypesHold == Spec => []TypeOK
  <1>1. Inv => TypeOK
    BY DEF Inv
  <1>. QED  BY <1>1, ScoreInvariantHolds, PTL

\* A stage of the finalization is published only after the stages before it,
\* and all of them bind the sidecars that are there, one of every valid episode,
\* also when several finalizing processes meet and die between the stages.
THEOREM StagesBind == Spec => []StagesBindScores
  <1>1. Inv => StagesBindScores
    BY DEF Inv, ScoreInvariant
  <1>. QED  BY <1>1, ScoreInvariantHolds, PTL

\* Only a commit writes a destination, and only one that is not there.
LEMMA NextKeepsDest == Inv /\ [Next]_vars => DestKept
  <1>. SUFFICES ASSUME Inv, [Next]_vars PROVE DestKept
    OBVIOUS
  <1>1. CASE dest' = dest
    BY <1>1 DEF DestKept
  <1>2. ASSUME NEW p \in Processes, Commit(p) PROVE DestKept
    BY <1>2, CommitKeeps DEF Inv
  <1>3. ASSUME NEW p \in Processes, Progress(p), ~Commit(p) PROVE dest' = dest
    BY <1>3 DEF Progress, ListNames, ListEntries, VerifyEntries, FeatureLayout, Skip, Score, WalkEnds, Acquire, Stage,
       Unlock, WaitEnds, WaitTimesOut, FinalLayout, Load, ListRoot, ListRootEntries, CheckRoot, Raise, rootVars
  <1>4. CASE UNCHANGED vars
    BY <1>4, <1>1 DEF vars
  <1>5. ASSUME NEW p \in Processes, Killed(p) \/ Interrupted(p) PROVE dest' = dest
    BY <1>5 DEF Killed, Interrupted, rootVars
  <1>6. ASSUME NEW p \in Processes, NEW count \in 1..2, NEW index \in 0..1, NEW reverse \in BOOLEAN,
               Start(p, index, count, reverse)
        PROVE  dest' = dest
    BY <1>6 DEF Start, rootVars
  <1>. QED  BY <1>1, <1>2, <1>3, <1>4, <1>5, <1>6 DEF Next

\* However the walks meet and whatever dies, no step replaces a published
\* sidecar or a published stage.
THEOREM PublicationsStay == Spec => PublishedOnce
  <1>1. Inv /\ [Next]_vars => [\A o \in Objects : dest[o] # None => dest'[o] = dest[o]]_vars
    BY NextKeepsDest DEF DestKept
  <1>. QED  BY <1>1, ScoreInvariantHolds, PTL DEF Spec, PublishedOnce

Orphan(o) == staged[o] /\ ~lockFile[o]

\* No step but a fault makes an orphan.
LEMMA StepMakesNoOrphan ==
    ASSUME Inv, [Next]_vars, NEW o \in Objects, Orphan(o)', ~Orphan(o)
    PROVE  faults' > faults
  <1>1. ASSUME NEW p \in Processes, Killed(p) \/ Interrupted(p) PROVE faults' > faults
    BY <1>1 DEF Killed, Interrupted, Inv, TypeOK
  <1>2. CASE UNCHANGED <<lockFile, staged>>
    BY <1>2 DEF Orphan
  <1>3. CASE UNCHANGED vars
    BY <1>3, <1>2 DEF vars
  <1>4. ASSUME NEW p \in Processes, NEW count \in 1..2, NEW index \in 0..1, NEW reverse \in BOOLEAN,
               Start(p, index, count, reverse)
        PROVE  UNCHANGED <<lockFile, staged>>
    BY <1>4 DEF Start, rootVars
  <1>5. ASSUME NEW p \in Processes, Progress(p), ~Acquire(p), ~Stage(p), ~Commit(p), ~Unlock(p)
        PROVE  UNCHANGED <<lockFile, staged>>
    BY <1>5 DEF Progress, ListNames, ListEntries, VerifyEntries, FeatureLayout, Skip, Score, WalkEnds,
       WaitEnds, WaitTimesOut, FinalLayout, Load, ListRoot, ListRootEntries, CheckRoot, Raise, rootVars
  <1>6. ASSUME NEW p \in Processes, Acquire(p) PROVE FALSE
    <2>1. staged' = staged /\ (lockFile' = lockFile \/ lockFile' = [lockFile EXCEPT ![object[p]] = TRUE])
      BY <1>6 DEF Acquire
    <2>. QED  BY <2>1 DEF Inv, TypeOK, Orphan
  <1>7. ASSUME NEW p \in Processes, Stage(p) PROVE FALSE
    <2>1. lockFile' = lockFile /\ staged' = [staged EXCEPT ![object[p]] = object[p] # Cohort]
      BY <1>7 DEF Stage
    <2>2. lockFile[object[p]]
      BY <1>7, ScoreAt DEF Stage, Inv, Holds, Publishing
    <2>. QED  BY <2>1, <2>2 DEF Inv, TypeOK, Orphan
  <1>8. ASSUME NEW p \in Processes, Commit(p) PROVE FALSE
    <2>1. lockFile' = lockFile /\ staged' = [staged EXCEPT ![object[p]] = FALSE]
      BY <1>8 DEF Commit
    <2>. QED  BY <2>1 DEF Inv, TypeOK, Orphan
  <1>9. ASSUME NEW p \in Processes, Unlock(p) PROVE FALSE
    <2>1. staged' = staged /\ lockFile' = [lockFile EXCEPT ![object[p]] = FALSE]
      BY <1>9 DEF Unlock
    <2>2. ~staged[object[p]]
      BY <1>9, ScoreAt DEF Unlock, Inv, Holds, Unlocking
    <2>. QED  BY <2>1, <2>2 DEF Inv, TypeOK, Orphan
  <1>. QED  BY <1>1, <1>2, <1>3, <1>4, <1>5, <1>6, <1>7, <1>8, <1>9 DEF Next

\* A temporary directory without its lock file was left by a death or an
\* interrupt: collisions and refusals of publications leave none.
THEOREM OrphansExplained == Spec => OrphansFromFaults
  <1>1. Inv /\ [Next]_vars =>
            [\A o \in Objects :
                staged'[o] /\ ~lockFile'[o] => (staged[o] /\ ~lockFile[o]) \/ faults' > faults]_vars
    BY StepMakesNoOrphan DEF Orphan
  <1>. QED  BY <1>1, ScoreInvariantHolds, PTL DEF Spec, OrphansFromFaults

-----------------------------------------------------------------------------
(* Collisions, when one process finalizes                                  *)

\* "Multi-worker shards must use --skip-finalize; finalize in one resume run"
\* (locked_test_score.py:865): one finalizing process beside any number of walkers.
OneFinalizer == \A p, q \in Finalizers : p = q

Covers(p) ==
    p \in Finalizers /\ pc[p] # "off" =>
        \A e \in Episodes : e \in ToSet(walk[p].todo) \/ e = object[p] \/ dest[e] # None

Pending(p) ==
    /\ pc[p] \in {"walk"} \cup AtObject /\ ~walk[p].runtime => \A e \in ToSet(walk[p].todo) : dest[e] # None
    /\ pc[p] \in {"layout", "load"} => walk[p].todo = <<>>

Undisturbed(p) ==
    /\ object[p] \in Stages /\ pc[p] \in {"acquire", "locked", "staged"} => dest[object[p]] = None
    /\ pc[p] # "unlockRaise"
    /\ pc[p] = "rootVerify" /\ object[p] # Cohort => seen[p].locks = {} /\ seen[p].staged = {}

\* What a step of p must do for NothingAbandoned to go on.
Abandons(p) ==
    \/ \E o \in Objects : lockFile'[o] /\ ~(lockFile[o] /\ ~Publishes(p, o)) /\ ~Publishes(p, o)'
    \/ \E o \in Objects : staged'[o] /\ ~lockFile'[o]
    \/ ~(builds' \subseteq builds \cup {p}) \/ ~(builds \subseteq builds' \cup {p})
    \/ p \in builds' /\ object'[p] # Cohort
    \/ object'[p] = Cohort /\ pc'[p] # "root" /\ p \notin builds'
    \/ /\ pc'[p] = "wait" /\ dest'[object'[p]] = None
       /\ ~ \E q \in Processes : pc'[q] \in {"locked", "staged"} /\ object'[q] = object'[p]
    \/ /\ pc[p] \in {"locked", "staged"} /\ dest'[object[p]] = None
       /\ ~(pc'[p] \in {"locked", "staged"} /\ object'[p] = object[p])

OthersStay(p) ==
    \A q \in Processes \ {p} :
        pc'[q] = pc[q] /\ object'[q] = object[q] /\ walk'[q] = walk[q] /\ seen'[q] = seen[q]

\* The three invariants are kept by a step of one process that keeps its own part.
LEMMA CollisionStep ==
    ASSUME OneFinalizer, Inv, Inv', CollisionInvariant, NEW p \in Processes, OthersStay(p), DestKept,
           \A o \in Objects : dest'[o] # dest[o] => o = object[p] /\ object'[p] = object[p],
           Covers(p)', Pending(p)',
           faults' = 0 => faults = 0 /\ ~Abandons(p) /\ Undisturbed(p)'
    PROVE  CollisionInvariant'
  <1>1. \A q \in Processes : Covers(q) /\ Pending(q) /\ (faults = 0 => Undisturbed(q))
    BY DEF CollisionInvariant, WalksCover, FinalizerUndisturbed, Covers, Pending, Undisturbed
  <1>2. \A q \in Processes : walk[q].todo \in Seq(Episodes) /\ ToSet(walk[q].todo) \subseteq Episodes
    BY DEF Inv, TypeOK, ToSet
  <1>3. ASSUME NEW q \in Processes, q # p PROVE Covers(q)' /\ Pending(q)'
    <2>1. pc'[q] = pc[q] /\ object'[q] = object[q] /\ walk'[q] = walk[q]
      BY <1>3 DEF OthersStay
    <2>2. \A e \in Episodes : dest[e] # None => dest'[e] # None
      BY ObjectFacts DEF DestKept
    <2>. QED  BY <1>1, <1>2, <2>1, <2>2 DEF Covers, Pending
  <1>4. WalksCover'
    BY <1>3 DEF WalksCover, Covers, Pending
  <1>5. ASSUME faults' = 0, NEW q \in Processes, q # p PROVE Undisturbed(q)'
    <2>1. Undisturbed(q)
      BY <1>1, <1>5
    <2>2. pc'[q] = pc[q] /\ object'[q] = object[q] /\ seen'[q] = seen[q]
      BY <1>5 DEF OthersStay
    <2>3. ASSUME object[q] \in Stages PROVE dest'[object[q]] = dest[object[q]]
      <3>1. q \in Finalizers
        BY <2>3, ScoreAt DEF Inv, Fits
      <3>2. object[q] \in Objects
        BY <2>3, ObjectFacts
      <3>3. CASE dest'[object[q]] # dest[object[q]]
        <4>1. object[q] = object[p]
          BY <3>2, <3>3
        <4>2. p \in Finalizers
          BY <2>3, <4>1, ScoreAt DEF Inv, Fits
        <4>. QED  BY <1>5, <3>1, <4>2 DEF OneFinalizer
      <3>. QED  BY <3>3
    <2>. QED  BY <2>1, <2>2, <2>3 DEF Undisturbed
  <1>6. FinalizerUndisturbed'
    BY <1>5 DEF FinalizerUndisturbed, Undisturbed
  <1>7. ASSUME faults' = 0 PROVE NothingAbandoned'
    <2>1. /\ \A o \in Objects : lockFile[o] => \E q \in Processes : Publishes(q, o)
          /\ \A q \in builds : object[q] = Cohort
          /\ \A q \in Processes :
                /\ object[q] = Cohort /\ pc[q] # "root" => q \in builds
                /\ pc[q] = "wait" /\ dest[object[q]] = None =>
                       \E r \in Processes : pc[r] \in {"locked", "staged"} /\ object[r] = object[q]
      BY <1>7 DEF CollisionInvariant, NothingAbandoned
    <2>2. ASSUME NEW o \in Objects, lockFile'[o] PROVE \E q \in Processes : Publishes(q, o)'
      <3>1. CASE Publishes(p, o)'
        BY <3>1
      <3>2. CASE lockFile[o] /\ ~Publishes(p, o)
        <4>1. PICK q \in Processes : Publishes(q, o)
          BY <2>1, <3>2
        <4>2. Publishes(q, o)'
          BY <3>2, <4>1 DEF OthersStay, Publishes
        <4>. QED  BY <4>2
      <3>. QED  BY <1>7, <2>2, <3>1, <3>2 DEF Abandons
    <2>3. \A o \in Objects : staged'[o] => lockFile'[o]
      BY <1>7 DEF Abandons
    <2>4. ASSUME NEW q \in builds' PROVE object'[q] = Cohort
      <3>1. CASE q = p
        BY <1>7, <2>4, <3>1 DEF Abandons
      <3>2. CASE q # p
        <4>1. q \in builds
          BY <1>7, <2>4, <3>2 DEF Abandons
        <4>2. q \in Processes
          BY <4>1 DEF Inv, TypeOK
        <4>. QED  BY <2>1, <3>2, <4>1, <4>2 DEF OthersStay
      <3>. QED  BY <3>1, <3>2
    <2>5. ASSUME NEW q \in Processes, object'[q] = Cohort, pc'[q] # "root" PROVE q \in builds'
      <3>1. CASE q = p
        BY <1>7, <2>5, <3>1 DEF Abandons
      <3>2. CASE q # p
        <4>1. q \in builds
          BY <2>1, <2>5, <3>2 DEF OthersStay
        <4>. QED  BY <1>7, <3>2, <4>1 DEF Abandons
      <3>. QED  BY <3>1, <3>2
    <2>6. ASSUME NEW q \in Processes, pc'[q] = "wait", dest'[object'[q]] = None
          PROVE  \E r \in Processes : pc'[r] \in {"locked", "staged"} /\ object'[r] = object'[q]
      <3>1. CASE q = p
        BY <1>7, <2>6, <3>1 DEF Abandons
      <3>2. CASE q # p
        <4>1. pc[q] = "wait" /\ object'[q] = object[q]
          BY <2>6, <3>2 DEF OthersStay
        <4>2. object[q] \in Objects
          BY <4>1, ScoreAt DEF Inv, Fits, AtObject
        <4>3. dest[object[q]] = None
          BY <2>6, <4>1, <4>2 DEF DestKept
        <4>4. PICK r \in Processes : pc[r] \in {"locked", "staged"} /\ object[r] = object[q]
          BY <2>1, <4>1, <4>3
        <4>5. CASE r # p
          BY <4>1, <4>4, <4>5 DEF OthersStay
        <4>6. CASE r = p
          <5>1. dest'[object[p]] = None
            BY <2>6, <4>1, <4>4, <4>6
          <5>2. pc'[p] \in {"locked", "staged"} /\ object'[p] = object[p]
            BY <1>7, <4>4, <4>6, <5>1 DEF Abandons
          <5>. QED  BY <4>1, <4>4, <4>6, <5>2
        <4>. QED  BY <4>5, <4>6
      <3>. QED  BY <3>1, <3>2
    <2>. QED  BY <2>2, <2>3, <2>4, <2>5, <2>6 DEF NothingAbandoned
  <1>8. NothingAbandoned'
    BY <1>7 DEF NothingAbandoned
  <1>. QED  BY <1>4, <1>6, <1>8 DEF CollisionInvariant

\* What the invariants say of each process.
LEMMA CollisionAt ==
    ASSUME CollisionInvariant, NEW p \in Processes
    PROVE  Covers(p) /\ Pending(p) /\ (faults = 0 => Undisturbed(p))
  BY DEF CollisionInvariant, WalksCover, FinalizerUndisturbed, Covers, Pending, Undisturbed

\* Initially nothing is abandoned and nobody walks.
LEMMA CollisionInit == Init => CollisionInvariant
  <1>. SUFFICES ASSUME Init PROVE CollisionInvariant
    OBVIOUS
  <1>1. /\ \A p \in Processes : pc[p] = "off" /\ object[p] = 0
        /\ \A o \in Objects : ~lockFile[o] /\ ~staged[o]
        /\ builds = {}
    BY DEF Init
  <1>2. WalksCover
    BY <1>1 DEF WalksCover, AtObject, Publishing
  <1>3. NothingAbandoned
    BY <1>1, ObjectFacts DEF NothingAbandoned
  <1>4. FinalizerUndisturbed
    BY <1>1 DEF FinalizerUndisturbed
  <1>. QED  BY <1>2, <1>3, <1>4 DEF CollisionInvariant

\* The steps of a process that reach nobody's locals but its own.
LEMMA OwnLocals ==
    ASSUME Inv, NEW p \in Processes,
           \/ Progress(p) \/ Killed(p) \/ Interrupted(p)
           \/ \E index, count, reverse : Start(p, index, count, reverse)
    PROVE  OthersStay(p)
  <1>1. ASSUME Forget(p) PROVE OthersStay(p)
    BY <1>1 DEF Forget, OthersStay, At, Inv, TypeOK
  <1>2. ASSUME Advance(p) PROVE OthersStay(p)
    BY <1>1, <1>2 DEF Advance, Unsee, OthersStay, At, Inv, TypeOK
  <1>3. CASE \E index, count, reverse : Start(p, index, count, reverse)
    BY <1>3 DEF Start, OthersStay, At, Inv, TypeOK
  <1>4. CASE Killed(p) \/ Interrupted(p)
    BY <1>1, <1>4 DEF Killed, Interrupted
  <1>5. CASE ListNames(p) \/ ListEntries(p) \/ VerifyEntries(p) \/ FeatureLayout(p)
    BY <1>1, <1>5 DEF ListNames, ListEntries, VerifyEntries, FeatureLayout, Raise, SeeNames, SeeEntries, Unsee,
       OthersStay, At, Inv, TypeOK
  <1>6. CASE Skip(p) \/ Score(p) \/ WalkEnds(p)
    BY <1>1, <1>6 DEF Skip, Score, WalkEnds, Raise, OthersStay, At, Inv, TypeOK
  <1>7. CASE Acquire(p) \/ Stage(p) \/ Commit(p)
    BY <1>7 DEF Acquire, Stage, Commit, OthersStay, At, Inv, TypeOK, localVars
  <1>8. CASE Unlock(p)
    BY <1>1, <1>2, <1>8 DEF Unlock, OthersStay, At, Inv, TypeOK, localVars
  <1>9. CASE WaitEnds(p) \/ WaitTimesOut(p) \/ FinalLayout(p) \/ Load(p)
    BY <1>1, <1>2, <1>9 DEF WaitEnds, WaitTimesOut, FinalLayout, Load, Raise, OthersStay, At, Inv, TypeOK, localVars
  <1>10. CASE ListRoot(p) \/ ListRootEntries(p) \/ CheckRoot(p)
    BY <1>1, <1>2, <1>10 DEF ListRoot, ListRootEntries, CheckRoot, Raise, SeeNames, SeeEntries, Unsee, OthersStay, At,
       Inv, TypeOK
  <1>. QED  BY <1>3, <1>4, <1>5, <1>6, <1>7, <1>8, <1>9, <1>10 DEF Progress

\* A process that ends without publishing leaves nothing behind.
LEMMA EndCollides ==
    ASSUME OneFinalizer, Inv, Inv', CollisionInvariant, NEW p \in Processes, OthersStay(p), Forget(p), dest' = dest,
           faults' = 0 => /\ faults = 0 /\ builds' = builds \ {p} /\ staged' = staged
                          /\ \A o \in Objects : lockFile'[o] => lockFile[o] /\ ~Publishes(p, o)
                          /\ \A o \in Objects : staged[o] => lockFile'[o]
                          /\ pc[p] \in {"locked", "staged"} => dest[object[p]] # None
    PROVE  CollisionInvariant'
  <1>1. pc'[p] = "off" /\ object'[p] = 0
    BY DEF Forget, At, Inv, TypeOK
  <1>2. Covers(p)' /\ Pending(p)' /\ Undisturbed(p)'
    BY <1>1, ObjectFacts DEF Covers, Pending, Undisturbed, AtObject, Publishing
  <1>3. faults' = 0 => ~Abandons(p)
    BY <1>1, ObjectFacts DEF Abandons
  <1>4. DestKept
    BY DEF DestKept
  <1>. QED  BY <1>2, <1>3, <1>4, CollisionStep

\* A process that fails outside a publication leaves no lock.
LEMMA RaiseCollides ==
    ASSUME OneFinalizer, Inv, Inv', CollisionInvariant, NEW p \in Processes, OthersStay(p), Raise(p),
           pc[p] \notin Publishing
    PROVE  CollisionInvariant'
  <1>1. Forget(p) /\ builds' = builds \ {p} /\ UNCHANGED <<dest, lockFile, staged, faults>>
    BY DEF Raise
  <1>2. \A o \in Objects : ~Publishes(p, o)
    BY DEF Publishes
  <1>3. pc[p] \notin {"locked", "staged"}
    BY DEF Publishing
  <1>4. faults = 0 => \A o \in Objects : staged[o] => lockFile[o]
    BY DEF CollisionInvariant, NothingAbandoned
  <1>. QED  BY <1>1, <1>2, <1>3, <1>4, EndCollides

\* A step between points at which p publishes nothing, with its object kept and
\* its directory of the cohort as it is.
LEMMA QuietCollides ==
    ASSUME OneFinalizer, Inv, Inv', CollisionInvariant, NEW p \in Processes, OthersStay(p),
           UNCHANGED <<dest, lockFile, staged, builds, faults>>, object'[p] = object[p],
           pc[p] \notin Publishing, pc'[p] \notin Publishing, pc[p] # "root",
           faults = 0 /\ pc'[p] = "wait" /\ dest[object[p]] = None =>
               \E q \in Processes \ {p} : pc[q] \in {"locked", "staged"} /\ object[q] = object[p],
           Covers(p)', Pending(p)', faults = 0 => Undisturbed(p)'
    PROVE  CollisionInvariant'
  <1>1. \A o \in Objects : ~Publishes(p, o)
    BY DEF Publishes
  <1>2. ASSUME faults = 0 PROVE ~Abandons(p)
    <2>1. /\ \A o \in Objects : staged[o] => lockFile[o]
          /\ \A q \in builds : object[q] = Cohort
          /\ object[p] = Cohort => p \in builds
      BY <1>2 DEF CollisionInvariant, NothingAbandoned
    <2>2. pc[p] \notin {"locked", "staged"}
      BY DEF Publishing
    <2>3. pc'[p] = "wait" /\ dest'[object'[p]] = None =>
             \E q \in Processes : pc'[q] \in {"locked", "staged"} /\ object'[q] = object'[p]
      BY <1>2 DEF OthersStay
    <2>. QED  BY <1>1, <2>1, <2>2, <2>3 DEF Abandons
  <1>3. DestKept
    BY DEF DestKept
  <1>. QED  BY <1>2, <1>3, CollisionStep

\* The layout checks, the walk and the steps before a publication.
LEMMA LookingCollides ==
    ASSUME OneFinalizer, Inv, Inv', CollisionInvariant, NEW p \in Processes, OthersStay(p),
           ListNames(p) \/ ListEntries(p) \/ VerifyEntries(p) \/ FinalLayout(p)
    PROVE  CollisionInvariant'
  <1>1. pc[p] \notin Publishing /\ pc[p] # "root" /\ pc[p] # "off"
    BY DEF ListNames, ListEntries, VerifyEntries, FinalLayout, Publishing
  <1>2. CASE Raise(p)
    BY <1>1, <1>2, RaiseCollides
  <1>3. CASE ~Raise(p)
    <2>1. UNCHANGED <<dest, lockFile, staged, builds, walk, object, faults>>
      BY <1>3 DEF ListNames, ListEntries, VerifyEntries, FinalLayout, rootVars, localVars
    <2>2. pc'[p] \in {"entries", "verify", "features", "load"}
      BY <1>3 DEF ListNames, ListEntries, VerifyEntries, FinalLayout, At, Inv, TypeOK
    <2>3. pc'[p] \notin Publishing /\ pc'[p] # "wait" /\ pc'[p] \notin {"walk"} \cup AtObject
      BY <2>2 DEF Publishing, AtObject
    <2>6. pc'[p] \in {"layout", "load"} => pc[p] = "layout"
      BY <1>3, <2>2 DEF ListNames, ListEntries, VerifyEntries, FinalLayout, At, Inv, TypeOK
    <2>4. Covers(p)' /\ Pending(p)'
      BY <1>1, <2>1, <2>3, <2>6, CollisionAt DEF Covers, Pending
    <2>5. Undisturbed(p)'
      BY <2>2 DEF Undisturbed
    <2>. QED  BY <1>1, <2>1, <2>3, <2>4, <2>5, QuietCollides
  <1>. QED  BY <1>2, <1>3

\* What is behind a walk once its head is gone.
LEMMA HeadAndTail ==
    ASSUME Inv, NEW p \in Processes, walk[p].todo # <<>>
    PROVE  /\ Head(walk[p].todo) \in Episodes
           /\ ToSet(walk[p].todo) = {Head(walk[p].todo)} \cup ToSet(Tail(walk[p].todo))
  <1> DEFINE s == walk[p].todo
  <1>1. s \in Seq(Episodes) /\ s # <<>>
    BY DEF Inv, TypeOK
  <1>. HIDE DEF s
  <1>2. Len(s) \in Nat /\ Len(s) > 0 /\ DOMAIN s = 1..Len(s) /\ Head(s) = s[1]
    BY <1>1
  <1>3. DOMAIN Tail(s) = 1..(Len(s) - 1) /\ \A i \in 1..(Len(s) - 1) : Tail(s)[i] = s[i + 1]
    BY <1>1
  <1>4. \A x : x \in ToSet(s) <=> x = Head(s) \/ x \in ToSet(Tail(s))
    <2>1. ASSUME NEW x \in ToSet(s) PROVE x = Head(s) \/ x \in ToSet(Tail(s))
      <3>1. PICK i \in 1..Len(s) : x = s[i]
        BY <1>2, <2>1 DEF ToSet
      <3>2. CASE i # 1
        <4>1. i - 1 \in 1..(Len(s) - 1) /\ Tail(s)[i - 1] = s[i]
          BY <1>2, <1>3, <3>2
        <4>. QED  BY <1>3, <3>1, <4>1 DEF ToSet
      <3>. QED  BY <1>2, <3>1, <3>2
    <2>2. Head(s) \in ToSet(s)
      BY <1>2 DEF ToSet
    <2>3. ASSUME NEW x \in ToSet(Tail(s)) PROVE x \in ToSet(s)
      <3>1. PICK i \in 1..(Len(s) - 1) : x = Tail(s)[i]
        BY <1>3, <2>3 DEF ToSet
      <3>2. i + 1 \in 1..Len(s) /\ x = s[i + 1]
        BY <1>2, <1>3, <3>1
      <3>. QED  BY <1>2, <3>2 DEF ToSet
    <2>. QED  BY <2>1, <2>2, <2>3
  <1>5. Head(s) \in Episodes
    BY <1>1
  <1>6. ToSet(s) = {Head(s)} \cup ToSet(Tail(s))
    BY <1>4
  <1>. QED  BY <1>5, <1>6 DEF s

\* The policy is loaded when there is something to score, and what is skipped is
\* published.
LEMMA WalkCollides ==
    ASSUME OneFinalizer, Inv, Inv', CollisionInvariant, NEW p \in Processes, OthersStay(p),
           FeatureLayout(p) \/ Skip(p) \/ WalkEnds(p)
    PROVE  CollisionInvariant'
  <1>1. pc[p] \in {"features", "walk"} /\ pc[p] \notin Publishing /\ pc[p] # "root" /\ pc[p] # "off"
    BY DEF FeatureLayout, Skip, WalkEnds, Publishing
  <1>2. CASE Raise(p)
    BY <1>1, <1>2, RaiseCollides
  <1>3. CASE ~Raise(p)
    <2>1. UNCHANGED <<dest, lockFile, staged, builds, object, faults>>
      BY <1>3 DEF FeatureLayout, Skip, WalkEnds, rootVars
    <2>2. pc'[p] \in {"walk", "layout", "off"}
      BY <1>3 DEF FeatureLayout, Skip, WalkEnds, At, Inv, TypeOK
    <2>3. pc'[p] \notin Publishing /\ pc'[p] # "wait"
      BY <2>2 DEF Publishing
    <2>4. Undisturbed(p)'
      BY <2>2 DEF Undisturbed
    <2>5. Covers(p) /\ Pending(p)
      BY CollisionAt
    <2>6. Covers(p)' /\ Pending(p)'
      <3>1. CASE FeatureLayout(p)
        <4>1. walk' = [walk EXCEPT ![p].runtime = \E e \in ToSet(walk[p].todo) : dest[e] = None]
          BY <1>3, <3>1 DEF FeatureLayout
        <4>2. walk[p] \in Walks
          BY DEF Inv, TypeOK, Walks
        <4>3. /\ walk'[p].todo = walk[p].todo
              /\ walk'[p].runtime = (\E e \in ToSet(walk[p].todo) : dest[e] = None)
          BY <4>1, <4>2 DEF Walks, Inv, TypeOK
        <4>4. Covers(p)'
          BY <1>1, <2>1, <2>5, <4>3 DEF Covers
        <4>5. pc'[p] = "walk"
          BY <1>3, <3>1 DEF FeatureLayout, At, Inv, TypeOK
        <4>6. Pending(p)'
          BY <2>1, <4>3, <4>5 DEF Pending
        <4>. QED  BY <4>4, <4>6
      <3>2. CASE Skip(p)
        <4>1. /\ walk[p].todo # <<>> /\ dest[Head(walk[p].todo)] # None
              /\ walk' = [walk EXCEPT ![p].todo = Tail(walk[p].todo)] /\ pc' = pc /\ pc[p] = "walk"
          BY <3>2 DEF Skip
        <4>2. walk[p] \in Walks
          BY DEF Inv, TypeOK, Walks
        <4>3. walk'[p].todo = Tail(walk[p].todo) /\ walk'[p].runtime = walk[p].runtime
          BY <4>1, <4>2 DEF Walks, Inv, TypeOK
        <4>4. ToSet(walk[p].todo) = {Head(walk[p].todo)} \cup ToSet(Tail(walk[p].todo))
          BY <4>1, HeadAndTail
        <4>5. Covers(p)'
          BY <1>1, <2>1, <2>5, <4>1, <4>3, <4>4 DEF Covers
        <4>6. Pending(p)'
          BY <2>1, <2>5, <4>1, <4>3, <4>4 DEF Pending
        <4>. QED  BY <4>5, <4>6
      <3>3. CASE WalkEnds(p)
        <4>1. walk[p].todo = <<>> /\ walk' = [walk EXCEPT ![p] = NoWalk]
          BY <3>3 DEF WalkEnds
        <4>2. walk'[p].todo = <<>> /\ ToSet(<<>>) = {}
          BY <4>1 DEF NoWalk, Inv, TypeOK, ToSet
        <4>3. pc'[p] \in {"layout", "off"}
          BY <3>3 DEF WalkEnds, At, Inv, TypeOK
        <4>4. Covers(p)' /\ Pending(p)'
          BY <1>1, <2>1, <2>5, <4>1, <4>2, <4>3 DEF Covers, Pending
        <4>. QED  BY <4>4
      <3>. QED  BY <3>1, <3>2, <3>3
    <2>. QED  BY <1>1, <2>1, <2>3, <2>4, <2>6, QuietCollides
  <1>. QED  BY <1>2, <1>3

\* A finalizing process starts with every episode ahead of it.
LEMMA StartCollides ==
    ASSUME OneFinalizer, Inv, Inv', CollisionInvariant, NEW p \in Processes, OthersStay(p),
           NEW index \in 0..1, NEW count \in 1..2, NEW reverse \in BOOLEAN, Start(p, index, count, reverse)
    PROVE  CollisionInvariant'
  <1>1. /\ pc[p] = "off" /\ index < count /\ (p \in Finalizers => count = 1)
        /\ UNCHANGED <<dest, lockFile, staged, builds, object, faults>>
    BY DEF Start, rootVars
  <1>2. pc'[p] = "names"
    BY DEF Start, At, Inv, TypeOK
  <1>3. walk'[p].todo \in {Shard(index, count), Reverse(Shard(index, count))}
    <2>1. walk' = [walk EXCEPT ![p].todo = IF reverse THEN Reverse(Shard(index, count)) ELSE Shard(index, count)]
      BY DEF Start
    <2>2. walk[p] \in Walks
      BY DEF Inv, TypeOK, Walks
    <2>. QED  BY <2>1, <2>2 DEF Walks, Inv, TypeOK
  <1>4. p \in Finalizers => ToSet(walk'[p].todo) = Episodes
    BY <1>1, <1>3, ShardIsAWalk
  <1>5. Covers(p)' /\ Pending(p)' /\ Undisturbed(p)'
    BY <1>2, <1>4 DEF Covers, Pending, Undisturbed, AtObject, Publishing
  <1>6. pc[p] \notin Publishing /\ pc'[p] \notin Publishing /\ pc[p] # "root" /\ pc'[p] # "wait"
    BY <1>1, <1>2 DEF Publishing
  <1>. QED  BY <1>1, <1>5, <1>6, QuietCollides

\* What is taken from the walk becomes the object that is published, and a
\* finalization begins with every sidecar there.
LEMMA ScoreCollides ==
    ASSUME OneFinalizer, Inv, Inv', CollisionInvariant, NEW p \in Processes, OthersStay(p), Score(p) \/ Load(p)
    PROVE  CollisionInvariant'
  <1>1. pc[p] \in {"walk", "load"} /\ pc[p] \notin Publishing /\ object[p] = 0
    <2>1. pc[p] \in {"walk", "load"}
      BY DEF Score, Load
    <2>. QED  BY <2>1, ScoreAt DEF Inv, Fits, AtObject, AtRoot, Publishing
  <1>2. CASE Raise(p)
    BY <1>1, <1>2, RaiseCollides
  <1>3. CASE ~Raise(p)
    <2>1. UNCHANGED <<dest, lockFile, staged, builds, faults>>
      BY <1>3 DEF Score, Load, rootVars
    <2>2. \A o \in Objects : ~Publishes(p, o)
      BY <1>1 DEF Publishes
    <2>3. Covers(p) /\ Pending(p)
      BY CollisionAt
    <2>4. pc'[p] \in {"acquire", "root"} /\ object'[p] \in Objects \ {Cohort}
      <3>1. walk[p].todo # <<>> => Head(walk[p].todo) \in Episodes
        BY HeadAndTail
      <3>. QED  BY <1>3, <3>1, ObjectFacts DEF Score, Load, At, Inv, TypeOK
    <2>5. Covers(p)' /\ Pending(p)' /\ Undisturbed(p)'
      <3>1. CASE Score(p)
        <4>1. /\ walk[p].todo # <<>> /\ walk[p].runtime /\ walk' = [walk EXCEPT ![p].todo = Tail(walk[p].todo)]
              /\ object' = [object EXCEPT ![p] = Head(walk[p].todo)] /\ pc' = [pc EXCEPT ![p] = "acquire"]
          BY <1>3, <3>1 DEF Score, At
        <4>2. walk[p] \in Walks
          BY DEF Inv, TypeOK, Walks
        <4>3. walk'[p].todo = Tail(walk[p].todo) /\ walk'[p].runtime = walk[p].runtime
          BY <4>1, <4>2 DEF Walks, Inv, TypeOK
        <4>4. ToSet(walk[p].todo) = {Head(walk[p].todo)} \cup ToSet(Tail(walk[p].todo))
              /\ Head(walk[p].todo) \in Episodes
          BY <4>1, HeadAndTail
        <4>5. object'[p] = Head(walk[p].todo) /\ pc'[p] = "acquire"
          BY <4>1 DEF Inv, TypeOK
        <4>6. Covers(p)'
          BY <1>1, <2>1, <2>3, <4>3, <4>4, <4>5, ObjectFacts DEF Covers
        <4>7. Pending(p)'
          BY <4>1, <4>3, <4>5 DEF Pending
        <4>8. Undisturbed(p)'
          BY <4>4, <4>5, ObjectFacts DEF Undisturbed
        <4>. QED  BY <4>6, <4>7, <4>8
      <3>2. CASE Load(p)
        <4>1. (\A e \in Episodes : dest[e] # None) /\ pc' = [pc EXCEPT ![p] = "root"]
          BY <1>3, <3>2 DEF Load, At
        <4>2. pc'[p] = "root"
          BY <4>1 DEF Inv, TypeOK
        <4>. QED  BY <2>1, <4>1, <4>2 DEF Covers, Pending, Undisturbed, AtObject, Publishing
      <3>. QED  BY <3>1, <3>2
    <2>6. ASSUME faults = 0 PROVE ~Abandons(p)
      <3>1. /\ \A o \in Objects : staged[o] => lockFile[o]
            /\ p \notin builds
        BY <1>1, <2>6, ObjectFacts DEF CollisionInvariant, NothingAbandoned
      <3>. QED  BY <1>1, <2>1, <2>2, <2>4, <3>1 DEF Abandons
    <2>7. DestKept
      BY <2>1 DEF DestKept
    <2>. QED  BY <2>1, <2>5, <2>6, <2>7, CollisionStep
  <1>. QED  BY <1>2, <1>3

\* Before the first fault a lock is held by whoever publishes, and only the
\* finalizing process publishes a stage.
LEMMA Publisher ==
    ASSUME Inv, CollisionInvariant, faults = 0, NEW o \in Objects, lockFile[o]
    PROVE  \E q \in Processes : pc[q] \in Publishing /\ object[q] = o /\ (o \in Stages => q \in Finalizers)
  <1>1. PICK q \in Processes : Publishes(q, o)
    BY DEF CollisionInvariant, NothingAbandoned
  <1>2. o \in Stages => q \in Finalizers
    BY <1>1, ScoreAt DEF Inv, Fits, Publishes
  <1>. QED  BY <1>1, <1>2 DEF Publishes

\* Before the first fault whoever meets a lock meets a publisher that has not
\* committed, or a destination.
LEMMA AcquireCollides ==
    ASSUME OneFinalizer, Inv, Inv', CollisionInvariant, NEW p \in Processes, OthersStay(p), Acquire(p)
    PROVE  CollisionInvariant'
  <1> DEFINE o == object[p]
  <1>1. pc[p] = "acquire" /\ UNCHANGED <<dest, staged, builds, walk, object, seen, faults>>
    BY DEF Acquire, localVars
  <1>2. o \in Objects /\ Covers(p) /\ Pending(p) /\ (faults = 0 => Undisturbed(p))
    BY <1>1, ScoreAt, CollisionAt DEF Inv, Fits, AtObject
  <1>3. pc[p] \notin Publishing /\ pc[p] # "root" /\ pc[p] # "off" /\ pc[p] \in AtObject
    BY <1>1 DEF Publishing, AtObject
  <1>4. CASE At(p, "wait") /\ UNCHANGED lockFile /\ (lockFile[o] \/ dest[o] # None)
    <2>1. pc'[p] = "wait" /\ pc'[p] \notin Publishing /\ pc'[p] \in AtObject
      BY <1>4 DEF At, Inv, TypeOK, Publishing, AtObject
    <2>2. Covers(p)' /\ Pending(p)' /\ Undisturbed(p)'
      BY <1>1, <1>2, <1>3, <2>1 DEF Covers, Pending, Undisturbed
    <2>3. ASSUME faults = 0, dest[o] = None
          PROVE  \E q \in Processes \ {p} : pc[q] \in {"locked", "staged"} /\ object[q] = o
      <3>1. PICK q \in Processes : pc[q] \in Publishing /\ object[q] = o
        BY <1>2, <1>4, <2>3, Publisher
      <3>2. pc[q] \notin Unlocking
        BY <2>3, <3>1, ScoreAt DEF Inv, Holds
      <3>3. q # p
        BY <1>3, <3>1
      <3>. QED  BY <3>1, <3>2, <3>3 DEF Publishing, Unlocking
    <2>. QED  BY <1>1, <1>3, <1>4, <2>1, <2>2, <2>3, QuietCollides
  <1>5. CASE At(p, "locked") /\ lockFile' = [lockFile EXCEPT ![o] = TRUE]
    <2>1. pc'[p] = "locked" /\ pc'[p] \in Publishing /\ pc'[p] \in AtObject
      BY <1>5 DEF At, Inv, TypeOK, Publishing, AtObject
    <2>2. Covers(p)' /\ Pending(p)'
      BY <1>1, <1>2, <1>3, <2>1 DEF Covers, Pending
    <2>3. faults = 0 => Undisturbed(p)'
      BY <1>1, <1>2, <2>1 DEF Undisturbed
    <2>4. \A x \in Objects : lockFile'[x] => lockFile[x] \/ x = o
      BY <1>5 DEF Inv, TypeOK
    <2>5. Publishes(p, o)' /\ \A x \in Objects : ~Publishes(p, x)
      BY <1>1, <1>3, <2>1 DEF Publishes
    <2>6. \A x \in Objects : lockFile[x] => lockFile'[x]
      BY <1>5 DEF Inv, TypeOK
    <2>7. ASSUME faults = 0 PROVE ~Abandons(p)
      <3>1. /\ \A x \in Objects : staged[x] => lockFile[x]
            /\ \A q \in builds : object[q] = Cohort
            /\ object[p] = Cohort => p \in builds
        BY <1>3, <2>7 DEF CollisionInvariant, NothingAbandoned
      <3>2. \A x \in Objects : staged'[x] => lockFile'[x]
        BY <1>1, <2>6, <3>1
      <3>3. pc[p] \notin {"locked", "staged"} /\ pc'[p] # "wait"
        BY <1>1, <2>1
      <3>. QED  BY <1>1, <2>4, <2>5, <3>1, <3>2, <3>3 DEF Abandons
    <2>8. DestKept
      BY <1>1 DEF DestKept
    <2>. QED  BY <1>1, <2>2, <2>3, <2>7, <2>8, CollisionStep
  <1>. QED  BY <1>4, <1>5 DEF Acquire

\* A temporary directory is made under its lock.
LEMMA StageCollides ==
    ASSUME OneFinalizer, Inv, Inv', CollisionInvariant, NEW p \in Processes, OthersStay(p), Stage(p)
    PROVE  CollisionInvariant'
  <1>1. pc[p] = "locked" /\ UNCHANGED <<dest, lockFile, builds, walk, object, seen, faults>>
    BY DEF Stage, localVars
  <1>2. pc'[p] = "staged" /\ staged' = [staged EXCEPT ![object[p]] = object[p] # Cohort]
    BY DEF Stage, At, Inv, TypeOK
  <1>3. lockFile[object[p]] /\ Covers(p) /\ Pending(p) /\ (faults = 0 => Undisturbed(p))
    BY <1>1, ScoreAt, CollisionAt DEF Inv, Holds, Publishing
  <1>4. Covers(p)' /\ Pending(p)'
    BY <1>1, <1>2, <1>3 DEF Covers, Pending, AtObject, Publishing
  <1>5. faults = 0 => Undisturbed(p)'
    BY <1>1, <1>2, <1>3 DEF Undisturbed
  <1>6. ASSUME faults = 0 PROVE ~Abandons(p)
    <2>1. /\ \A x \in Objects : staged[x] => lockFile[x]
          /\ \A q \in builds : object[q] = Cohort
          /\ object[p] = Cohort => p \in builds
      BY <1>1, <1>6 DEF CollisionInvariant, NothingAbandoned
    <2>2. \A x \in Objects : staged'[x] => lockFile'[x]
      BY <1>1, <1>2, <1>3, <2>1 DEF Inv, TypeOK
    <2>3. \A x \in Objects : Publishes(p, x)' <=> Publishes(p, x)
      BY <1>1, <1>2 DEF Publishes, Publishing
    <2>. QED  BY <1>1, <1>2, <2>1, <2>2, <2>3 DEF Abandons
  <1>7. DestKept
    BY <1>1 DEF DestKept
  <1>. QED  BY <1>1, <1>4, <1>5, <1>6, <1>7, CollisionStep

\* The commit: a finalizing process that is the only one finds nothing there.
LEMMA CommitCollides ==
    ASSUME OneFinalizer, Inv, Inv', CollisionInvariant, NEW p \in Processes, OthersStay(p), Commit(p)
    PROVE  CollisionInvariant'
  <1> DEFINE o == object[p]
  <1>1. pc[p] = "staged" /\ UNCHANGED <<lockFile, builds, walk, object, seen, faults>>
        /\ staged' = [staged EXCEPT ![o] = FALSE]
    BY DEF Commit, localVars
  <1>2. o \in Objects /\ lockFile[o] /\ Covers(p) /\ Pending(p) /\ (faults = 0 => Undisturbed(p))
    BY <1>1, ScoreAt, CollisionAt DEF Inv, Fits, AtObject, Holds, Publishing
  <1>3. DestKept
    BY CommitKeeps DEF Inv
  <1>4. pc'[p] \in Unlocking
    <2>1. Collision(o) \in Unlocking
      BY DEF Collision, Unlocking
    <2>. QED  BY <2>1 DEF Commit, At, Inv, TypeOK, Unlocking
  <1>5. dest'[o] # None
    BY <1>1, <1>4, ScoreAt DEF Inv, ScoreInvariant, PublishersExclude
  <1>6. \A x \in Objects : dest'[x] # dest[x] => x = o
    <2>1. dest' = dest \/ dest' = [dest EXCEPT ![o] = Content(p)]
      BY DEF Commit
    <2>. HIDE DEF o, Content
    <2>. QED  BY <2>1 DEF Inv, TypeOK
  <1>7. Covers(p)' /\ Pending(p)'
    <2>1. \A e \in Episodes : dest[e] # None => dest'[e] # None
      BY <1>3, ObjectFacts DEF DestKept
    <2>2. ToSet(walk[p].todo) \subseteq Episodes
      BY DEF Inv, TypeOK, ToSet
    <2>3. pc'[p] \notin {"off", "walk", "layout", "load"} /\ pc[p] \in AtObject /\ pc'[p] \in AtObject /\ pc[p] # "off"
      BY <1>1, <1>4 DEF AtObject, Publishing, Unlocking
    <2>4. Covers(p)'
      BY <1>1, <1>2, <2>1, <2>3 DEF Covers
    <2>5. Pending(p)'
      BY <1>1, <1>2, <2>1, <2>2, <2>3 DEF Pending
    <2>. QED  BY <2>4, <2>5
  <1>8. ASSUME faults = 0 PROVE Undisturbed(p)'
    <2>1. pc'[p] # "unlockRaise"
      <3>1. CASE o \in Stages
        <4>1. dest[o] = None
          BY <1>1, <1>2, <1>8, <3>1 DEF Undisturbed
        <4>2. At(p, "unlock")
          BY <4>1 DEF Commit
        <4>. QED  BY <4>2 DEF At, Inv, TypeOK
      <3>2. CASE o \in Episodes
        <4>1. At(p, "unlock") \/ At(p, Collision(o))
          BY DEF Commit
        <4>2. Collision(o) = "unlockWait"
          BY <3>2 DEF Collision
        <4>. QED  BY <4>1, <4>2 DEF At, Inv, TypeOK
      <3>. QED  BY <1>2, <3>1, <3>2, ObjectFacts
    <2>. QED  BY <1>4, <2>1 DEF Undisturbed, Unlocking
  <1>9. ASSUME faults = 0 PROVE ~Abandons(p)
    <2>1. /\ \A x \in Objects : staged[x] => lockFile[x]
          /\ \A q \in builds : object[q] = Cohort
          /\ object[p] = Cohort => p \in builds
      BY <1>1, <1>9 DEF CollisionInvariant, NothingAbandoned
    <2>2. \A x \in Objects : staged'[x] => lockFile'[x]
      BY <1>1, <2>1 DEF Inv, TypeOK
    <2>3. \A x \in Objects : Publishes(p, x)' <=> Publishes(p, x)
      BY <1>1, <1>4 DEF Publishes, Publishing, Unlocking
    <2>4. pc'[p] # "wait"
      BY <1>4 DEF Unlocking
    <2>. QED  BY <1>1, <1>5, <2>1, <2>2, <2>3, <2>4 DEF Abandons
  <1>. QED  BY <1>1, <1>3, <1>6, <1>7, <1>8, <1>9, CollisionStep

\* A process that goes on to the next object, whose lock it has let go of.
LEMMA AdvanceCollides ==
    ASSUME OneFinalizer, Inv, Inv', CollisionInvariant, NEW p \in Processes, OthersStay(p), Advance(p),
           UNCHANGED <<dest, staged, faults>>, pc[p] \in AtObject \cup AtRoot, pc[p] \notin {"locked", "staged"},
           dest[object[p]] # None,
           faults = 0 => /\ \A x \in Objects : lockFile'[x] => lockFile[x] /\ ~Publishes(p, x)
                         /\ \A x \in Objects : staged[x] => lockFile'[x]
    PROVE  CollisionInvariant'
  <1>1. CASE Forget(p)
    <2>1. builds' = builds \ {p}
      BY DEF Advance
    <2>. QED  BY <1>1, <2>1, EndCollides
  <1>2. CASE ~Forget(p)
    <2>1. builds' = builds \ {p} /\ walk' = walk
      BY <1>2 DEF Advance
    <2>2. \/ object[p] \in Episodes /\ object'[p] = 0 /\ pc'[p] = "walk"
          \/ object[p] \in Stages /\ object'[p] \in Stages /\ pc'[p] = "root"
      <3>1. CASE object[p] \in Episodes
        <4>1. object' = [object EXCEPT ![p] = 0] /\ pc' = [pc EXCEPT ![p] = "walk"]
          BY <1>2, <3>1, ObjectFacts DEF Advance, At
        <4>. QED  BY <3>1, <4>1 DEF Inv, TypeOK
      <3>2. CASE object[p] \in Stages \ {Summary}
        <4>1. object' = [object EXCEPT ![p] = NextStage(object[p])] /\ pc' = [pc EXCEPT ![p] = "root"]
          BY <1>2, <3>2, ObjectFacts DEF Advance, At
        <4>2. NextStage(object[p]) \in Stages
          BY <3>2, ObjectFacts
        <4>. QED  BY <3>2, <4>1, <4>2 DEF Inv, TypeOK
      <3>. QED  BY <1>2, <3>1, <3>2 DEF Advance
    <2>3. Covers(p) /\ Pending(p) /\ pc[p] # "off"
      BY CollisionAt DEF AtObject, AtRoot, Publishing
    <2>4. pc[p] \in AtRoot => object[p] \in Stages
      BY ScoreAt DEF Inv, Fits
    <2>5. Covers(p)'
      BY <2>1, <2>2, <2>3, ObjectFacts DEF Covers
    <2>6. Pending(p)'
      BY <2>1, <2>2, <2>3, <2>4, ObjectFacts DEF Pending, AtObject, Publishing
    <2>7. Undisturbed(p)'
      BY <2>2 DEF Undisturbed
    <2>8. ASSUME faults = 0 PROVE ~Abandons(p)
      <3>1. pc'[p] # "wait" /\ (object'[p] = Cohort => pc'[p] = "root")
        BY <2>2, ObjectFacts
      <3>2. p \notin builds' /\ builds' \subseteq builds /\ builds \subseteq builds' \cup {p}
        BY <2>1
      <3>. QED  BY <2>8, <3>1, <3>2 DEF Abandons
    <2>9. DestKept
      BY DEF DestKept
    <2>. QED  BY <2>5, <2>6, <2>7, <2>8, <2>9, CollisionStep
  <1>. QED  BY <1>1, <1>2

\* Whoever unlocks has put its temporary directory away, and its object is there.
LEMMA UnlockCollides ==
    ASSUME OneFinalizer, Inv, Inv', CollisionInvariant, NEW p \in Processes, OthersStay(p), Unlock(p)
    PROVE  CollisionInvariant'
  <1>1. /\ pc[p] \in Unlocking /\ UNCHANGED <<dest, staged, faults>>
        /\ lockFile' = [lockFile EXCEPT ![object[p]] = FALSE]
    BY DEF Unlock, Unlocking
  <1>2. /\ object[p] \in Objects /\ dest[object[p]] # None /\ ~staged[object[p]]
        /\ Covers(p) /\ Pending(p)
    BY <1>1, ScoreAt, CollisionAt DEF Inv, Fits, Holds, AtObject, Publishing, Unlocking
  <1>3. pc[p] \in AtObject /\ pc[p] \notin {"locked", "staged"}
    BY <1>1 DEF AtObject, Publishing, Unlocking
  <1>4. \A x \in Objects : lockFile'[x] => lockFile[x] /\ ~Publishes(p, x)
    BY <1>1 DEF Publishes, Inv, TypeOK
  <1>5. faults = 0 => \A x \in Objects : staged[x] => lockFile'[x]
    BY <1>1, <1>2 DEF CollisionInvariant, NothingAbandoned, Inv, TypeOK
  <1>6. CASE Advance(p)
    BY <1>1, <1>2, <1>3, <1>4, <1>5, <1>6, AdvanceCollides
  <1>7. CASE Forget(p) /\ builds' = builds \ {p}
    BY <1>1, <1>3, <1>4, <1>5, <1>7, EndCollides
  <1>8. CASE At(p, "wait") /\ UNCHANGED <<builds, localVars>>
    <2>1. pc'[p] = "wait" /\ UNCHANGED <<walk, object, seen, builds>>
      BY <1>8 DEF At, Inv, TypeOK, localVars
    <2>2. Covers(p)' /\ Pending(p)' /\ Undisturbed(p)'
      BY <1>1, <1>2, <1>3, <2>1 DEF Covers, Pending, Undisturbed, AtObject, Publishing
    <2>3. ASSUME faults = 0 PROVE ~Abandons(p)
      <3>1. /\ \A q \in builds : object[q] = Cohort
            /\ object[p] = Cohort => p \in builds
        BY <1>1, <2>3 DEF CollisionInvariant, NothingAbandoned, Unlocking
      <3>. QED  BY <1>1, <1>2, <1>3, <1>4, <1>5, <2>1, <2>3, <3>1 DEF Abandons
    <2>4. DestKept
      BY <1>1 DEF DestKept
    <2>. QED  BY <1>1, <2>1, <2>2, <2>3, <2>4, CollisionStep
  <1>. QED  BY <1>6, <1>7, <1>8 DEF Unlock

\* The end of a wait, with the object there or with an error.
LEMMA WaitCollides ==
    ASSUME OneFinalizer, Inv, Inv', CollisionInvariant, NEW p \in Processes, OthersStay(p),
           WaitEnds(p) \/ WaitTimesOut(p)
    PROVE  CollisionInvariant'
  <1>1. pc[p] = "wait" /\ pc[p] \in AtObject /\ pc[p] \notin Publishing
    BY DEF WaitEnds, WaitTimesOut, AtObject, Publishing
  <1>2. CASE Raise(p)
    BY <1>1, <1>2, RaiseCollides
  <1>3. CASE WaitEnds(p)
    <2>1. dest[object[p]] # None /\ UNCHANGED <<dest, lockFile, staged, faults>>
      BY <1>3 DEF WaitEnds
    <2>2. \A x \in Objects : ~Publishes(p, x)
      BY <1>1 DEF Publishes
    <2>3. CASE Advance(p)
      <3>1. faults = 0 => \A x \in Objects : staged[x] => lockFile[x]
        BY DEF CollisionInvariant, NothingAbandoned
      <3>. QED  BY <1>1, <2>1, <2>2, <2>3, <3>1, AdvanceCollides
    <2>4. CASE At(p, "root") /\ UNCHANGED <<builds, localVars>>
      <3>1. pc'[p] = "root" /\ UNCHANGED <<walk, object, seen, builds>>
        BY <2>4 DEF At, Inv, TypeOK, localVars
      <3>2. Covers(p)' /\ Pending(p)' /\ Undisturbed(p)' /\ pc'[p] \notin Publishing
        BY <1>1, <2>1, <3>1, CollisionAt DEF Covers, Pending, Undisturbed, AtObject, Publishing
      <3>. QED  BY <1>1, <2>1, <3>1, <3>2, QuietCollides
    <2>. QED  BY <1>3, <2>3, <2>4 DEF WaitEnds
  <1>. QED  BY <1>2, <1>3 DEF WaitTimesOut

\* The listings of a content root by the only finalizing process find no lock and
\* no temporary directory before the first fault.
LEMMA RootCollides ==
    ASSUME OneFinalizer, Inv, Inv', CollisionInvariant, NEW p \in Processes, OthersStay(p),
           ListRoot(p) \/ ListRootEntries(p) \/ CheckRoot(p)
    PROVE  CollisionInvariant'
  <1>1. pc[p] \in AtRoot /\ pc[p] \notin Publishing /\ pc[p] # "off" /\ pc[p] \notin {"locked", "staged"}
    BY DEF ListRoot, ListRootEntries, CheckRoot, AtRoot, Publishing
  <1>2. object[p] \in Stages /\ p \in Finalizers /\ (\A e \in Episodes : dest[e] # None) /\ Covers(p) /\ Pending(p)
    BY <1>1, ScoreAt, CollisionAt DEF Inv, Fits, Stands
  <1>3. \A x \in Objects : ~Publishes(p, x)
    BY <1>1 DEF Publishes
  <1>4. CASE ListRoot(p)
    <2>1. /\ pc[p] = "root" /\ UNCHANGED <<dest, lockFile, staged, walk, object, faults>>
          /\ builds' = IF object[p] = Cohort THEN builds \cup {p} ELSE builds
          /\ pc' = [pc EXCEPT ![p] = IF object[p] = Cohort THEN "rootVerify" ELSE "rootEntries"]
      BY <1>4 DEF ListRoot, At
    <2>2. pc'[p] = IF object[p] = Cohort THEN "rootVerify" ELSE "rootEntries"
      BY <2>1 DEF Inv, TypeOK
    <2>3. Covers(p)' /\ Pending(p)' /\ Undisturbed(p)'
      BY <1>1, <1>2, <2>1, <2>2 DEF Covers, Pending, Undisturbed, AtObject, Publishing
    <2>4. ASSUME faults = 0 PROVE ~Abandons(p)
      <3>1. /\ \A x \in Objects : staged[x] => lockFile[x]
            /\ \A q \in builds : object[q] = Cohort
        BY <2>4 DEF CollisionInvariant, NothingAbandoned
      <3>. QED  BY <1>1, <1>3, <2>1, <2>2, <3>1 DEF Abandons
    <2>5. DestKept
      BY <2>1 DEF DestKept
    <2>. QED  BY <2>1, <2>3, <2>4, <2>5, CollisionStep
  <1>5. CASE ListRootEntries(p)
    <2>1. /\ pc[p] = "rootEntries" /\ UNCHANGED <<dest, lockFile, staged, builds, walk, object, faults>>
          /\ pc' = [pc EXCEPT ![p] = "rootVerify"]
          /\ seen' = [seen EXCEPT ![p].locks = Locks \cap {object[p]}, ![p].staged = StagedNow \cap {object[p]}]
      BY <1>5 DEF ListRootEntries, At, SeeEntries, rootVars
    <2>2. pc'[p] = "rootVerify" /\ pc'[p] \notin Publishing /\ pc'[p] # "wait"
      BY <2>1 DEF Inv, TypeOK, Publishing
    <2>3. Covers(p)' /\ Pending(p)'
      BY <1>1, <1>2, <2>1, <2>2 DEF Covers, Pending, AtObject, Publishing
    <2>4. ASSUME faults = 0 PROVE Undisturbed(p)'
      <3>1. ~lockFile[object[p]]
        <4>. SUFFICES ASSUME lockFile[object[p]] PROVE FALSE
          OBVIOUS
        <4>1. PICK q \in Processes : pc[q] \in Publishing /\ q \in Finalizers
          BY <1>2, <2>4, Publisher, ObjectFacts
        <4>. QED  BY <1>1, <1>2, <4>1 DEF OneFinalizer
      <3>2. ~staged[object[p]]
        BY <1>2, <2>4, <3>1, ObjectFacts DEF CollisionInvariant, NothingAbandoned
      <3>3. Locks \cap {object[p]} = {} /\ StagedNow \cap {object[p]} = {}
        BY <3>1, <3>2 DEF Locks, StagedNow
      <3>4. seen[p] \in Views
        BY DEF Inv, TypeOK, Views
      <3>5. seen'[p].locks = {} /\ seen'[p].staged = {}
        BY <2>1, <3>3, <3>4 DEF Inv, TypeOK, Views
      <3>. QED  BY <2>2, <3>5 DEF Undisturbed
    <2>. QED  BY <1>1, <2>1, <2>2, <2>3, <2>4, QuietCollides
  <1>6. CASE CheckRoot(p)
    <2>1. pc[p] = "rootVerify" /\ pc[p] # "root"
      BY <1>6 DEF CheckRoot
    <2>2. CASE Raise(p)
      BY <1>1, <2>2, RaiseCollides
    <2>3. CASE dest[object[p]] # None /\ Advance(p) /\ UNCHANGED <<dest, lockFile, staged, faults>>
      <3>1. faults = 0 => \A x \in Objects : staged[x] => lockFile[x]
        BY DEF CollisionInvariant, NothingAbandoned
      <3>. QED  BY <1>1, <1>3, <2>3, <3>1, AdvanceCollides
    <2>4. CASE dest[object[p]] = None /\ At(p, "acquire") /\ UNCHANGED <<rootVars, walk, object, faults>>
      <3>1. pc'[p] = "acquire" /\ UNCHANGED <<dest, lockFile, staged, builds, walk, object, faults>>
        BY <2>4 DEF At, Inv, TypeOK, rootVars
      <3>2. Covers(p)' /\ Pending(p)'
        <4>1. ToSet(walk[p].todo) \subseteq Episodes
          BY DEF Inv, TypeOK, ToSet
        <4>. QED  BY <1>1, <1>2, <3>1, <4>1 DEF Covers, Pending
      <3>3. Undisturbed(p)' /\ pc'[p] \notin Publishing
        BY <2>4, <3>1 DEF Undisturbed, Publishing
      <3>. QED  BY <1>1, <2>1, <3>1, <3>2, <3>3, QuietCollides
    <2>. QED  BY <1>6, <2>2, <2>3, <2>4 DEF CheckRoot
  <1>. QED  BY <1>4, <1>5, <1>6

\* After a fault only what walks cover is claimed.
LEMMA FaultCollides ==
    ASSUME OneFinalizer, Inv, Inv', CollisionInvariant, NEW p \in Processes, OthersStay(p),
           Killed(p) \/ Interrupted(p)
    PROVE  CollisionInvariant'
  <1>1. Forget(p) /\ dest' = dest /\ faults' # 0
    BY DEF Killed, Interrupted, rootVars, Inv, TypeOK
  <1>. QED  BY <1>1, EndCollides

\* Every step keeps the three invariants, with one finalizing process.
LEMMA CollisionNext == OneFinalizer /\ Inv /\ Inv' /\ CollisionInvariant /\ [Next]_vars => CollisionInvariant'
  <1>. SUFFICES ASSUME OneFinalizer, Inv, Inv', CollisionInvariant, [Next]_vars PROVE CollisionInvariant'
    OBVIOUS
  <1>1. CASE UNCHANGED vars
    <2>. USE <1>1 DEF vars
    <2>1. WalksCover'
      BY DEF CollisionInvariant, WalksCover
    <2>2. NothingAbandoned'
      BY DEF CollisionInvariant, NothingAbandoned, Publishes
    <2>3. FinalizerUndisturbed'
      BY DEF CollisionInvariant, FinalizerUndisturbed
    <2>. QED  BY <2>1, <2>2, <2>3 DEF CollisionInvariant
  <1>2. ASSUME NEW p \in Processes, NEW count \in 1..2, NEW index \in 0..1, NEW reverse \in BOOLEAN,
               Start(p, index, count, reverse)
        PROVE  CollisionInvariant'
    <2>1. OthersStay(p)
      BY <1>2, OwnLocals
    <2>. QED  BY <1>2, <2>1, StartCollides
  <1>3. ASSUME NEW p \in Processes, Progress(p)
        PROVE  CollisionInvariant'
    <2>1. OthersStay(p)
      BY <1>3, OwnLocals
    <2>. QED  BY <1>3, <2>1, LookingCollides, WalkCollides, ScoreCollides, AcquireCollides, StageCollides,
                 CommitCollides, UnlockCollides, WaitCollides, RootCollides DEF Progress
  <1>4. ASSUME NEW p \in Processes, Killed(p) \/ Interrupted(p)
        PROVE  CollisionInvariant'
    <2>1. OthersStay(p)
      BY <1>4, OwnLocals
    <2>. QED  BY <1>4, <2>1, FaultCollides
  <1>. QED  BY <1>1, <1>2, <1>3, <1>4 DEF Next

\* With one finalizing process, before the first fault, walks cover what they
\* leave behind, nothing is abandoned and the finalizing process meets nobody.
THEOREM CollisionInvariantHolds == ASSUME OneFinalizer PROVE Spec => []CollisionInvariant
  <1>1. Init => CollisionInvariant
    BY CollisionInit
  <1>2. Inv /\ Inv' /\ CollisionInvariant /\ [Next]_vars => CollisionInvariant'
    BY CollisionNext
  <1>. QED  BY <1>1, <1>2, ScoreInvariantHolds, PTL DEF Spec

\* A step that ends a process at one of the points where collisions could is a
\* fault, or comes after one.
LEMMA StepSurvives ==
    ASSUME OneFinalizer, Inv, Inv', CollisionInvariant, [Next]_vars,
           NEW p \in Processes, Fails(p), pc'[p] = "off", faults' = 0
    PROVE  FALSE
  <1>1. pc[p] # "off"
    BY DEF Fails
  <1>2. faults = 0 /\ Undisturbed(p) /\ Covers(p) /\ Pending(p)
    <2>1. faults' \in {faults, faults + 1} \/ UNCHANGED vars
      <3>1. \A q \in Processes : Progress(q) => faults' = faults
        BY DEF Progress, ListNames, ListEntries, VerifyEntries, FeatureLayout, Skip, Score, WalkEnds, Acquire, Stage,
           Commit, Unlock, WaitEnds, WaitTimesOut, FinalLayout, Load, ListRoot, ListRootEntries, CheckRoot, Raise
      <3>2. \A q \in Processes : Killed(q) \/ Interrupted(q) => faults' = faults + 1
        BY DEF Killed, Interrupted
      <3>3. \A q \in Processes, index \in 0..1, count \in 1..2, reverse \in BOOLEAN :
                Start(q, index, count, reverse) => faults' = faults
        BY DEF Start
      <3>. QED  BY <3>1, <3>2, <3>3 DEF Next
    <2>2. faults = 0
      BY <2>1 DEF vars, Inv, TypeOK
    <2>. QED  BY <2>2, CollisionAt
  <1>3. ASSUME NEW q \in Processes, OthersStay(q), q # p PROVE FALSE
    BY <1>1, <1>3 DEF OthersStay
  <1>4. CASE UNCHANGED vars
    BY <1>1, <1>4 DEF vars
  <1>5. ASSUME NEW q \in Processes, NEW count \in 1..2, NEW index \in 0..1, NEW reverse \in BOOLEAN,
               Start(q, index, count, reverse)
        PROVE  FALSE
    <2>1. OthersStay(q)
      BY <1>5, OwnLocals
    <2>. QED  BY <1>1, <1>3, <1>5, <2>1 DEF Start
  <1>6. ASSUME NEW q \in Processes, Killed(q) \/ Interrupted(q) PROVE FALSE
    BY <1>2, <1>6 DEF Killed, Interrupted
  <1>7. ASSUME NEW q \in Processes, Progress(q), q # p PROVE FALSE
    BY <1>3, <1>7, OwnLocals
  <1>8. CASE Progress(p)
    <2>1. CASE pc[p] = "walk" /\ walk[p].todo # <<>>
      <3>1. Skip(p) \/ Score(p)
        BY <1>8, <2>1 DEF Progress, ListNames, ListEntries, VerifyEntries, FeatureLayout, WalkEnds, Acquire, Stage,
           Commit, Unlock, WaitEnds, WaitTimesOut, FinalLayout, Load, ListRoot, ListRootEntries, CheckRoot
      <3>2. Score(p) /\ ~walk[p].runtime
        BY <2>1, <3>1 DEF Skip, Score, At, Inv, TypeOK
      <3>3. Head(walk[p].todo) \in ToSet(walk[p].todo)
        BY <2>1, HeadAndTail
      <3>. QED  BY <1>2, <2>1, <3>2, <3>3 DEF Pending, Score
    <2>2. CASE pc[p] = "load"
      <3>1. Load(p)
        BY <1>8, <2>2 DEF Progress, ListNames, ListEntries, VerifyEntries, FeatureLayout, Skip, Score, WalkEnds, Acquire,
           Stage, Commit, Unlock, WaitEnds, WaitTimesOut, FinalLayout, ListRoot, ListRootEntries, CheckRoot
      <3>2. ~ \A e \in Episodes : dest[e] # None
        BY <3>1 DEF Load, At, Inv, TypeOK
      <3>3. object[p] = 0 /\ p \in Finalizers
        BY <2>2, ScoreAt DEF Inv, Fits, AtObject, AtRoot, Publishing
      <3>4. walk[p].todo = <<>> /\ ToSet(<<>>) = {}
        BY <1>2, <2>2 DEF Pending, ToSet
      <3>. QED  BY <1>1, <1>2, <3>2, <3>3, <3>4, ObjectFacts DEF Covers
    <2>3. CASE pc[p] = "unlockRaise"
      BY <1>2, <2>3 DEF Undisturbed
    <2>4. CASE pc[p] = "wait" /\ dest[object[p]] = None
      <3>1. WaitTimesOut(p)
        BY <1>8, <2>4 DEF Progress, ListNames, ListEntries, VerifyEntries, FeatureLayout, Skip, Score, WalkEnds, Acquire,
           Stage, Commit, Unlock, WaitEnds, FinalLayout, Load, ListRoot, ListRootEntries, CheckRoot
      <3>2. \E q \in Processes : pc[q] \in {"locked", "staged"} /\ object[q] = object[p]
        BY <1>2, <2>4 DEF CollisionInvariant, NothingAbandoned
      <3>. QED  BY <3>1, <3>2 DEF WaitTimesOut, Publishing
    <2>5. CASE pc[p] = "rootVerify" /\ RootAmbiguous(p)
      <3>1. object[p] \in Stages /\ p \in Finalizers /\ loaded[p] = Scores
        BY <2>5, ScoreAt DEF Inv, Fits, Stands, AtRoot
      <3>2. dest[object[p]] \in {None, loaded[p]}
        BY <3>1 DEF Inv, ScoreInvariant, StagesBindScores
      <3>3. CASE object[p] = Cohort
        <4>1. p \in builds /\ \A q \in builds : object[q] = Cohort
          BY <1>2, <2>5, <3>3 DEF CollisionInvariant, NothingAbandoned
        <4>2. \A q \in builds : q \in Finalizers
          BY <4>1, ObjectFacts, ScoreAt DEF Inv, TypeOK, Fits
        <4>3. builds = {p}
          BY <3>1, <4>1, <4>2 DEF OneFinalizer
        <4>4. ~lockFile[Cohort]
          <5>. SUFFICES ASSUME lockFile[Cohort] PROVE FALSE
            OBVIOUS
          <5>1. PICK q \in Processes : pc[q] \in Publishing /\ q \in Finalizers
            BY <1>2, Publisher, ObjectFacts
          <5>. QED  BY <2>5, <3>1, <5>1 DEF OneFinalizer, Publishing
        <4>. QED  BY <2>5, <3>2, <3>3, <4>3, <4>4 DEF RootAmbiguous
      <3>4. CASE object[p] # Cohort
        <4>1. seen[p].locks = {} /\ seen[p].staged = {}
          BY <1>2, <2>5, <3>4 DEF Undisturbed
        <4>. QED  BY <2>5, <3>2, <3>4, <4>1 DEF RootAmbiguous, LayoutSound
      <3>. QED  BY <3>3, <3>4
    <2>. QED  BY <2>1, <2>2, <2>3, <2>4, <2>5 DEF Fails
  <1>. QED  BY <1>4, <1>5, <1>6, <1>7, <1>8 DEF Next

\* With one finalizing process, beside any number of walkers, no process that has
\* passed its layout checks fails because another publishes what it wants to
\* publish: that takes a death or an interrupt.
THEOREM CollisionsAreSurvived == ASSUME OneFinalizer PROVE Spec => CollisionsSurvived
  <1>1. Inv /\ Inv' /\ CollisionInvariant /\ [Next]_vars =>
            [\A p \in Processes : Fails(p) /\ pc'[p] = "off" => faults' > 0]_vars
    <2>. SUFFICES ASSUME Inv, Inv', CollisionInvariant, [Next]_vars,
                         NEW p \in Processes, Fails(p), pc'[p] = "off"
                  PROVE  faults' > 0
      OBVIOUS
    <2>1. faults' # 0
      BY StepSurvives
    <2>. QED  BY <2>1, ScoreAssumption DEF Inv, TypeOK
  <1>. QED  BY <1>1, ScoreInvariantHolds, CollisionInvariantHolds, PTL DEF Spec, CollisionsSurvived

-----------------------------------------------------------------------------
(* Locked Test scoring implements the ledger                               *)

\* Only a commit writes a destination.
LEMMA OnlyCommitsPublish ==
  ASSUME [Next]_vars, ~ \E p \in Processes : Commit(p)
  PROVE  UNCHANGED dest
  <1>1. CASE UNCHANGED vars
    BY <1>1 DEF vars
  <1>2. ASSUME NEW p \in Processes, Progress(p) PROVE UNCHANGED dest
    BY <1>2 DEF Progress, ListNames, ListEntries, VerifyEntries, FeatureLayout, Skip, Score, WalkEnds, Acquire, Stage,
       Unlock, WaitEnds, WaitTimesOut, FinalLayout, Load, ListRoot, ListRootEntries, CheckRoot, Raise, rootVars
  <1>3. ASSUME NEW p \in Processes, Killed(p) \/ Interrupted(p) PROVE UNCHANGED dest
    BY <1>3 DEF Killed, Interrupted, rootVars
  <1>4. ASSUME NEW p \in Processes, NEW count \in 1..2, NEW index \in 0..1, NEW reverse \in BOOLEAN,
               Start(p, index, count, reverse)
        PROVE  UNCHANGED dest
    BY <1>4 DEF Start, rootVars
  <1>. QED  BY <1>1, <1>2, <1>3, <1>4 DEF Next

\* The ledger's view depends on nothing but the destinations.
LEMMA SameLedger ==
  ASSUME UNCHANGED dest
  PROVE  UNCHANGED Ledger!ledgerVars
  BY DEF Ledger!ledgerVars, Scores, LedgerPhase

\* The commit of a sidecar is a ledger's publication, that of the allocation closes
\* the cohort, that of the summary completes it, and the two between show nothing.
LEMMA CommitImplements ==
  ASSUME Inv, Inv', NEW p \in Processes, Commit(p)
  PROVE  [Ledger!LedgerNext]_(Ledger!ledgerVars)
  <1> DEFINE o == object[p]
  <1>1. /\ o \in Objects /\ dest \in [Objects -> Processes \cup {None} \cup ScoreFunctions]
        /\ Episodes \subseteq Objects /\ Stages \subseteq Objects
        /\ Allocation \in Stages /\ Summary \in Stages /\ Allocation # Summary
        /\ Allocation \notin Episodes /\ Summary \notin Episodes
    BY ObjectFacts, ScoreAssumption
       DEF Commit, Inv, ScoreInvariant, ObjectsFit, AtObject, Publishing, TypeOK, Objects, Stages, Episodes,
           Allocation, Summary
  <1>2. CASE dest[o] # None
    <2>1. UNCHANGED dest
      BY <1>2 DEF Commit
    <2>. QED  BY <2>1, SameLedger
  <1>3. CASE dest[o] = None
    <2>1. dest' = [dest EXCEPT ![o] = Content(p)]
      BY <1>3 DEF Commit
    <2>2. StagesBindScores /\ StagesBindScores'
      BY DEF Inv, ScoreInvariant
    <2>3. CASE o \in Episodes
      <3>1. Content(p) = p
        BY <2>3 DEF Content
      <3>2. Scores' = [Scores EXCEPT ![o] = p] /\ Scores[o] = None
        BY <1>1, <1>3, <2>1, <2>3, <3>1 DEF Scores
      <3>3. dest[Allocation] = None /\ dest[Summary] = None
        BY <1>1, <1>3, <2>2, <2>3 DEF StagesBindScores
      <3>4. LedgerPhase = "open" /\ UNCHANGED LedgerPhase
        BY <1>1, <2>1, <2>3, <3>3 DEF LedgerPhase
      <3>. QED  BY <2>3, <3>2, <3>4 DEF Ledger!PublishScore, Ledger!LedgerNext
    <2>4. CASE o \notin Episodes
      <3>1. UNCHANGED Scores
        BY <1>1, <2>1, <2>4 DEF Scores
      <3>2. dest'[o] # None
        BY <1>1, <2>1, <2>4, NothingAssumption DEF Inv, TypeOK, Content
      <3>3. o \in Stages /\ \A e \in Episodes : dest'[e] # None
        BY <1>1, <2>2, <2>4, <3>2 DEF StagesBindScores, Objects
      <3>4. \A e \in Episodes : Scores[e] # None
        BY <1>1, <2>1, <2>4, <3>3 DEF Scores
      <3>5. CASE o = Allocation
        <4>1. dest[Summary] = None
          BY <1>1, <1>3, <2>2, <3>5, ScoreAssumption DEF StagesBindScores, Allocation, Summary
        <4>2. LedgerPhase = "open" /\ LedgerPhase' = "closed"
          BY <1>1, <1>3, <2>1, <3>2, <3>5, <4>1 DEF LedgerPhase
        <4>. QED  BY <3>1, <3>4, <4>2 DEF Ledger!CloseCohort, Ledger!LedgerNext
      <3>6. CASE o = Summary
        <4>1. dest'[Allocation] # None
          BY <1>1, <2>2, <3>2, <3>6, ScoreAssumption DEF StagesBindScores, Allocation, Summary
        <4>2. dest[Allocation] # None
          BY <1>1, <2>1, <3>6, <4>1
        <4>3. LedgerPhase = "closed" /\ LedgerPhase' = "complete"
          BY <1>3, <3>2, <3>6, <4>2 DEF LedgerPhase
        <4>. QED  BY <3>1, <4>3 DEF Ledger!CompleteCohort, Ledger!LedgerNext
      <3>7. CASE o # Allocation /\ o # Summary
        <4>1. UNCHANGED LedgerPhase
          BY <1>1, <2>1, <3>7 DEF LedgerPhase
        <4>. QED  BY <3>1, <4>1 DEF Ledger!ledgerVars
      <3>. QED  BY <3>5, <3>6, <3>7
    <2>. QED  BY <2>3, <2>4
  <1>. QED  BY <1>2, <1>3

\* Locked Test scoring implements the ledger, for any number of walkers and finalizing
\* processes and faults: every sidecar is published once, and the allocation closes
\* the cohort over all of them before anything completes it.
THEOREM ScoringImplementsLedger == Spec => ImplementsLedger
  <1>1. Init => Ledger!LedgerInit
    BY ObjectFacts, ScoreAssumption DEF Init, Ledger!LedgerInit, Scores, LedgerPhase, Objects, Stages, Episodes, Allocation, Summary
  <1>2. ASSUME Inv, Inv', [Next]_vars
        PROVE  [Ledger!LedgerNext]_(Ledger!ledgerVars)
    <2>1. CASE \E p \in Processes : Commit(p)
      BY <1>2, <2>1, CommitImplements
    <2>2. CASE ~ \E p \in Processes : Commit(p)
      BY <1>2, <2>2, OnlyCommitsPublish, SameLedger
    <2>. QED  BY <2>1, <2>2
  <1>. QED
    BY <1>1, <1>2, ScoreInvariantHolds, PTL DEF Spec, ImplementsLedger, Ledger!LedgerSpec

=============================================================================
