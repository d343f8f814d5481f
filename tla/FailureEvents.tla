-------------------------------- MODULE FailureEvents --------------------------------
(***************************************************************************)
(* The failure events of failure_events.py: the reachable workspace the    *)
(* Discovery rollouts span, the event a failed rollout is annotated with,  *)
(* and the freeze manifest of both.                                        *)
(*                                                                         *)
(* A raw rollout is a record with its episode, valid, success, the set     *)
(* closes of actions that close the gripper, and its frames; of a frame,   *)
(* the object's position (the last coordinate is the height), the distance *)
(* to the gripper, contact, grasped and placed.  Lengths are integers.     *)
(***************************************************************************)
EXTENDS Integers, Sequences, FiniteSets, FiniteSetsExt

CONSTANTS MissedGraspWindow, NetIncrease,
          LandingFrames, SupportTolerance,
          WorkspaceMargin,
          TerminalHorizon

ASSUME FailureEventsAssumption ==
    /\ MissedGraspWindow \in Nat \ {0, 1} /\ NetIncrease \in Nat
    /\ LandingFrames \in Nat \ {0} /\ SupportTolerance \in Nat
    /\ WorkspaceMargin \in Nat /\ TerminalHorizon \in Nat \ {0}

\* Frames and actions are counted from zero: frame k is what action k acts on.
ActionCount(raw)  == Len(raw.frames) - 1
Frame(raw, k)     == raw.frames[k + 1]
Height(frame)     == frame.position[Len(frame.position)]
Candidate(event, onset, confirmation) ==
    [event |-> event, onset |-> onset, confirmation |-> confirmation]

-----------------------------------------------------------------------------
(* The reachable workspace. *)

\* derive_discovery_bounds: where a valid rollout starts, and where a successful one goes.
Reached(raws) ==
    UNION {{Frame(raw, k).position : k \in IF raw.success THEN 0 .. ActionCount(raw) ELSE {0}} :
           raw \in {r \in raws : r.valid}}

\* It raises otherwise; one rollout for each of the expected identities.
BoundsAccepted(raws, expected) ==
    /\ expected # {} /\ raws = expected
    /\ \A r, s \in raws : r.episode = s.episode => r = s
    /\ \E raw \in raws : raw.valid /\ raw.success

Bounds(raws) ==
    LET axes  == 1 .. Len((CHOOSE p \in Reached(raws) : TRUE))
        on(i) == {p[i] : p \in Reached(raws)}
    IN  [lower |-> [i \in axes |-> Min(on(i)) - WorkspaceMargin],
         upper |-> [i \in axes |-> Max(on(i)) + WorkspaceMargin]]

\* ReachableBounds.outside.
Outside(bounds, position) ==
    \E i \in DOMAIN position : position[i] < bounds.lower[i] \/ position[i] > bounds.upper[i]

-----------------------------------------------------------------------------
(* The events.  Each operator is the set of its candidates, of which there *)
(* is at most one.                                                         *)

\* _missed_grasp: after the first close the gripper has no contact for a whole window
\* over which it moves away, by the fitted slope and from end to end.
MissedGrasp(raw) ==
    LET close     == Min(raw.closes)
        window    == close + 1 .. close + MissedGraspWindow
        dist(i)   == Frame(raw, close + 1 + i).distance
        weight(i) == 2 * i - (MissedGraspWindow - 1)
        slope     == MapThenSumSet(LAMBDA i : weight(i) * dist(i), 0 .. MissedGraspWindow - 1)
    IN  IF /\ raw.closes # {}
           /\ close + MissedGraspWindow <= ActionCount(raw)
           /\ \A k \in window : ~Frame(raw, k).contact
           /\ slope > 0
           /\ dist(MissedGraspWindow - 1) - dist(0) >= NetIncrease
        THEN {Candidate("missed_grasp", close + 1, close + MissedGraspWindow)}
        ELSE {}

\* From the loss to the end of the landing nothing touches the object.
Untouched(raw, loss, landing) ==
    \A k \in loss .. landing + LandingFrames - 1 : ~Frame(raw, k).contact

Lands(raw, landing) ==
    \A k \in landing .. landing + LandingFrames - 1 :
        /\ Height(Frame(raw, k)) <= Height(Frame(raw, 0)) + SupportTolerance
        /\ ~Frame(raw, k).placed

\* _drop: the first loss of a grasped object that is followed by a landing, and the
\* first such landing.
Drop(raw) ==
    LET losses == {k \in 1 .. ActionCount(raw) :
                     /\ Frame(raw, k - 1).contact /\ ~Frame(raw, k).contact
                     /\ Frame(raw, k - 1).grasped}
        drops  == {d \in losses \X (0 .. ActionCount(raw)) :
                     /\ d[1] <= d[2] /\ d[2] + LandingFrames - 1 <= ActionCount(raw)
                     /\ Untouched(raw, d[1], d[2])
                     /\ Lands(raw, d[2])}
        loss    == Min({d[1] : d \in drops})
        landing == Min({d[2] : d \in {e \in drops : e[1] = loss}})
    IN  IF drops = {} THEN {}
        ELSE {Candidate("dropped_object", loss, landing + LandingFrames - 1)}

\* _workspace_exit: the object ends outside; the onset is the frame after the last inside.
WorkspaceExit(raw, bounds) ==
    LET inside == {k \in 0 .. ActionCount(raw) : ~Outside(bounds, Frame(raw, k).position)}
    IN  IF ActionCount(raw) \in inside THEN {}
        ELSE {Candidate("workspace_exit", IF inside = {} THEN 0 ELSE Max(inside) + 1,
                        ActionCount(raw))}

\* EVENT_PRECEDENCE, among events with the same onset.
Precedence == [missed_grasp |-> 1, dropped_object |-> 2, workspace_exit |-> 3]

Earlier(a, b) ==
    a.onset < b.onset \/ (a.onset = b.onset /\ Precedence[a.event] <= Precedence[b.event])

\* annotate_failure_event.
Annotation(raw, bounds) ==
    LET candidates == MissedGrasp(raw) \cup Drop(raw) \cup WorkspaceExit(raw, bounds)
    IN  CASE ~raw.valid -> [status |-> "excluded_invalid_reset", events |-> {}]
          [] raw.valid /\ raw.success -> [status |-> "success_no_event", events |-> {}]
          [] raw.valid /\ ~raw.success /\ candidates # {} ->
               [status |-> "annotated",
                events |-> {CHOOSE a \in candidates : \A b \in candidates : Earlier(a, b)}]
          [] raw.valid /\ ~raw.success /\ candidates = {} ->
               IF ActionCount(raw) = TerminalHorizon
                 THEN [status |-> "annotated",
                       events |-> {Candidate("terminal_horizon", TerminalHorizon,
                                             TerminalHorizon)}]
                 ELSE [status |-> "unannotatable_early_terminal", events |-> {}]

-----------------------------------------------------------------------------
(* The freeze. *)

\* create_freeze_manifest over every Discovery rollout of the task: identities, their
\* provenance (validity and success), annotations, and the commit of the implementation.
FreezeManifest(task, raws, commit) ==
    LET bounds == Bounds(raws)
    IN  [task |-> task, bounds |-> bounds, expected |-> raws, commit |-> commit,
         annotations |-> {[episode |-> raw.episode, valid |-> raw.valid, success |-> raw.success,
                           result |-> Annotation(raw, bounds)] : raw \in raws}]
======================================================================================
