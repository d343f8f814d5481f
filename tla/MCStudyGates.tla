--------------------------------- MODULE MCStudyGates ---------------------------------
\* Two tasks on one initial state, IID and under two yaws; two policies under which the
\* tasks do differently; two Calibration cells and one Locked Test cell.
EXTENDS StudyGates

MCInits == "discovery" :> {0} @@ "calibration" :> {2} @@ "locked_test" :> {3}
MCSeedBase == "discovery" :> 100000 @@ "calibration" :> 200000 @@ "locked_test" :> 300000
MCConditions ==
    "calibration" :> <<[family |-> "iid", values |-> 0],
                       [family |-> "object_planar_translation", values |-> {1, 2}]>>
    @@ "locked_test" :> <<[family |-> "iid", values |-> 0]>>

\* An order of a set of integers: two labels in three get it backwards.
MCHashOrder(set, label) ==
    LET ascending == [i \in 1 .. Cardinality(set) |->
                        CHOOSE x \in set : Cardinality({y \in set : y <= x}) = i]
    IN  IF (Len(label[1]) + label[2]) % 3 = 0 THEN ascending ELSE Reverse(ascending)

MCSymmetryOrder == <<1, 2>>
MCMaxResultant  == <<90, 90>>
MCRounding(host) == IF host = "prep" THEN 0 ELSE 1

MCModels == {[policy |-> "policy1", vlm |-> "vlm"], [policy |-> "policy2", vlm |-> "vlm"]}

MCFirstModel == [policy |-> "policy1", vlm |-> "vlm"]

\* What each task does under each policy: it passes; it passes with an orientation that
\* never varies; it does not reproduce; no perturbation fails; no perturbation is valid.
MCWorlds ==
    {("policy1" :> p @@ "policy2" :> q) :
        <<p, q>> \in {<<<<"passes", "passes">>, <<"poor", "passes">>>>,
                      <<<<"poor", "poor">>, <<"easy", "passes">>>>,
                      <<<<"flat", "passes">>, <<"poor", "flat">>>>,
                      <<<<"unstable", "passes">>, <<"passes", "poor">>>>}}

MCOutcome(w, model, e) ==
    LET kind    == w[model.policy][e.task]
        valid   == ~IsYaw(e) \/ kind # "unstable"
        success == valid /\ kind # "poor" /\ (kind = "easy" \/ e.index # 1)
        frame(k) == [eef |-> 0, object |-> IF kind = "flat" THEN 0 ELSE e.index + k,
                     position |-> <<e.init, 0>>, distance |-> k,
                     contact |-> FALSE, grasped |-> FALSE, placed |-> FALSE]
    IN  [valid |-> valid, success |-> success, agrees |-> TRUE, closes |-> {0},
         frames |-> IF valid THEN [k \in 1 .. 3 |-> frame(k)] ELSE <<frame(1)>>]

\* Bounds of the exploration: a task's cells are run in the order of the protocol, the
\* next task's after them; a recorded cell is run again only if it is the only one; and no
\* rollout is started once a lock is built.
Before(d, e) ==
    \/ d.task < e.task /\ IsIid(d)
    \/ d.task = e.task /\ d.index < e.index

InOrder ==
    LET run == {raw.episode : raw \in raws}
        all == run \cup (IF running = Nothing THEN {} ELSE {running.episode})
    IN  /\ running # Nothing /\ running.episode \in run => Cardinality(run) = 1
        /\ \A e \in all : \A t \in 1 .. Tasks : \A d \in Cells(t) : Before(d, e) => d \in run

\* The commit and the model change once over the rollouts of a root at most.
Revision(raw) == <<raw.commit, raw.model>>

OneChange ==
    /\ Cardinality({Revision(raw) : raw \in raws}) <= 2
    /\ \A r, s, u \in raws :
         Before(r.episode, s.episode) /\ Before(s.episode, u.episode)
         /\ Revision(r) = Revision(u) => Revision(s) = Revision(r)

LockCommitted == \E c \in DOMAIN commits : commits[c].tree.lock # Nothing

LocksEndDiscovery == work.lock # Nothing \/ LockCommitted => running = Nothing /\ raws # {}

\* One lock is built, the model is not touched any more once it is, and nothing from before
\* it is checked out once it is committed.
OneLock ==
    /\ LockCommitted => Tree.lock # Nothing
    /\ Cardinality({c.tree.lock : c \in ToSet(commits)} \cup {work.lock, Nothing}) <= 2
    /\ LockCommitted \/ work.lock # Nothing => work.model = Tree.model

\* One amendment, and Calibration is only followed up in a study without one; tags only
\* where the file they are for is.
OneAmendment ==
    LET unlocked == Cardinality({c \in DOMAIN commits : commits[c].tree.lock = Nothing})
    IN  unlocked <= 2 /\ (calibration # {} => unlocked = 1)

TagsFit ==
    /\ tags[PreregTag] # Nothing => commits[tags[PreregTag]].tree.lock # Nothing
    /\ tags[FreezeTag] # Nothing => commits[tags[FreezeTag]].tree.freeze # Nothing

\* Calibration is analysed again only when there is a freeze of the first analysis.
SecondAnalysis ==
    \/ work.predictor = Nothing \/ work.predictor.version = 1
    \/ work.freeze # Nothing \/ tags[FreezeTag] # Nothing

Explored == SecondAnalysis /\ OneLock /\ InOrder /\ OneChange /\ LocksEndDiscovery /\ OneAmendment
            /\ TagsFit

-----------------------------------------------------------------------------
(* The manifests at their real size, for the first three tasks of the shortlist. *)

RealInits == "discovery" :> 0 .. 9 @@ "calibration" :> 10 .. 29 @@ "locked_test" :> 30 .. 49

RealConditions ==
    LET of(family, values) == [family |-> family, values |-> values]
        yaws(n)            == [k \in 1 .. n |-> of("object_yaw", k)]
        translation        == of("object_planar_translation", 1 .. 4)
    IN  "calibration" :> <<of("iid", 0)>> \o yaws(6) \o <<translation>>
        @@ "locked_test" :> <<of("iid", 0)>> \o yaws(4) \o <<translation>>
                            \o <<of("camera", 1), of("camera", 2)>>

Real == INSTANCE EpisodeManifest
    WITH Inits <- RealInits, SeedBase <- MCSeedBase, YawMagnitudes <- {15, 30, 45},
         Conditions <- RealConditions, HashOrder <- MCHashOrder

RealEpisodes == UNION {Real!Manifest(split, t) : split \in Real!Splits, t \in 1 .. 3}

\* No two episodes of the study share an id or a reset seed, across splits and tasks
\* (reconstruct_episode_manifest only compares within one manifest).
ASSUME /\ Cardinality(RealEpisodes) = 3 * (40 + 160 + 160)
       /\ Cardinality({Real!EpisodeId(e) : e \in RealEpisodes}) = Cardinality(RealEpisodes)
       /\ Cardinality({e.seed : e \in RealEpisodes}) = Cardinality(RealEpisodes)

\* Whatever the hash order, half of the yaws of a magnitude go either way, and every
\* direction of translation is used equally often.
ASSUME \A t \in 1 .. 3 :
    /\ \A magnitude \in {15, 30, 45}, sign \in {-1, 1} :
         Cardinality({e \in Real!Manifest("discovery", t) : e.value = sign * magnitude}) = 5
    /\ \A split \in {"calibration", "locked_test"}, direction \in 1 .. 4 :
         Cardinality({e \in Real!Manifest(split, t) :
                        e.family = "object_planar_translation" /\ e.value = direction}) = 5

-----------------------------------------------------------------------------
(* The failure events on every trace of a few frames. *)

Window == INSTANCE FailureEvents
    WITH MissedGraspWindow <- 2, NetIncrease <- 1, LandingFrames <- 2, SupportTolerance <- 0,
         WorkspaceMargin <- 0, TerminalHorizon <- 4

Touches == {<<FALSE, FALSE>>, <<TRUE, FALSE>>, <<TRUE, TRUE>>}
Frames  == [1 .. 5 -> Touches \X {0, 1}]

Trace(frames, closes) ==
    [episode |-> 1, valid |-> TRUE, success |-> FALSE, closes |-> closes,
     frames |-> [k \in DOMAIN frames |->
                   [position |-> <<frames[k][2]>>, distance |-> frames[k][2],
                    contact |-> frames[k][1][1], grasped |-> frames[k][1][2],
                    placed |-> FALSE]]]

Until(raw, k) ==
    [raw EXCEPT !.frames = SubSeq(@, 1, k + 1), !.closes = {a \in @ : a < k}]

\* A missed grasp or a drop is an event of the trace up to its confirmation: what comes
\* after it neither makes nor unmakes it (_missed_grasp, _drop).
ASSUME \A frames \in Frames : \A close \in 0 .. 3, k \in 1 .. 4 :
    LET raw == Trace(frames, {close})
    IN  /\ Window!Drop(Until(raw, k)) = {c \in Window!Drop(raw) : c.confirmation <= k}
        /\ Window!MissedGrasp(Until(raw, k))
             = {c \in Window!MissedGrasp(raw) : c.confirmation <= k}

\* The annotation of a failed rollout starts at its earliest event, and a rollout of the
\* full horizon always has one (annotate_failure_event).
ASSUME \A frames \in Frames :
    LET raw    == Trace(frames, {0})
        bounds == [lower |-> <<0>>, upper |-> <<0>>]
        result == Window!Annotation(raw, bounds)
    IN  /\ result.status = "annotated"
        /\ \A event \in result.events :
             /\ 0 <= event.onset /\ event.onset <= event.confirmation
             /\ event.confirmation <= Window!ActionCount(raw)
             /\ \A other \in Window!Drop(raw) \cup Window!MissedGrasp(raw)
                             \cup Window!WorkspaceExit(raw, bounds) :
                  event.onset <= other.onset
=======================================================================================
