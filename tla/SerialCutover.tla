----------------------------- MODULE SerialCutover -----------------------------
(***************************************************************************)
(* The cutover of ops/calibration_two_worker_continuation_18d6494.py: a    *)
(* coordinator watches the log of the serial scorer, interrupts it at an   *)
(* episode boundary, freezes what it published and writes the plan that    *)
(* TwoWorkerScoring executes.  `cutover` does it once, `resume` finishes   *)
(* what a dead coordinator began, `recover-ignored-sigint` ends a scorer   *)
(* that had inherited SIGINT as ignored.  Nothing excludes two coordinator *)
(* processes before the scorer's lock is theirs to take: only files that   *)
(* are created exclusively do.                                             *)
(*                                                                         *)
(* The scorer works through the manifest in order, so a set of sidecars    *)
(* is a count, and so is a position in its log.  A boundary is the line of *)
(* the episode after the baseline: it too is the baseline's count.         *)
(***************************************************************************)
EXTENDS Integers, FiniteSets

CONSTANTS
    Coordinators,  \* coordinator processes
    Nobody,        \* the coordinator that holds a lock the scorer or no one holds
    EpisodeCount,  \* the manifest's episodes
    Scored,        \* sidecars that exist at first
    MaxTries,      \* attempts at a stable baseline (8 in the code)
    MaxFaults      \* bound: deaths of coordinators and of the scorer

ASSUME CutoverAssumption ==
    /\ Nobody \notin Coordinators
    /\ EpisodeCount \in Nat /\ Scored \in 1..EpisodeCount
    /\ MaxTries \in Nat \ {0} /\ MaxFaults \in Nat

Counts == 0..EpisodeCount
Modes == {"cutover", "resume", "recover"}
ScorerPoints == {"scoring", "publishing", "renamed", "unlogged", "dying", "gone"}

\* The files of the execution root.
Directories == {"root", "observations", "recAttempts"}
Receipts ==
    {"intent",         \* cutover-intent.json
     "observed",       \* boundary-observed.json
     "resumed",        \* boundary-observations/resume-0001.json
     "sigIntent", "dispatched", "exited", "ineffective", \* signal-attempts/attempt-0001-*
     "interrupt",      \* serial-interrupt.json
     "recIntent",      \* recovery-cutover-intent.json
     "recBoundary",    \* recovery-boundary-observed.json
     "termIntent", "termDispatched", "termExit",    \* recovery-signal-attempts/*
     "receipt",        \* cutover-receipt.json
     "plan"}           \* plan.json
FileNames == Directories \cup Receipts \cup {"failure"}

\* A coordinator about to write a receipt is at the point of that name.
Points ==
    Receipts \cup {"off", "before", "list", "after", "root", "wait", "dispatch", "check",
                   "kill", "complete", "original", "rebase", "rebound", "recAttempts",
                   "term", "termCheck", "terminate", "termComplete", "lock", "load",
                   "freeze", "run"}

VARIABLES
    scorer,      \* where the serial scorer is; "dying" while only its flock wrapper lives
    published,   \* sidecars in the authoritative score root
    logged,      \* score_completed lines in its log, counted like the sidecars
    residue,     \* a publish lock or a temporary directory is in the score root
    disposition, \* what the scorer does on SIGINT: "default" or "ignored"
    pending,     \* signals sent to the scorer that it has not acted on
    files, torn, \* the files of the execution root; those without their bytes
    base,        \* base[f]: the baseline count that receipt f records
    recOffset,   \* the log position that recovery-cutover-intent.json records
    sigBoundary, \* the boundary receipt that attempt-0001-intent.json binds
    pc, local,   \* local[c]: mode, baseline, log position, tries and boundary receipt,
                 \* and whether it saw the boundary's line appear
    holder,      \* the coordinator that holds the global lock
    sent,        \* sent[s]: how often signal s was sent
    faults       \* deaths so far

scorerVars == <<scorer, published, logged, residue, disposition, pending>>
fileVars == <<files, torn, base, recOffset, sigBoundary>>
vars == <<scorer, published, logged, residue, disposition, pending, files, torn, base,
          recOffset, sigBoundary, pc, local, holder, sent, faults>>

Idle == [mode |-> "cutover", base |-> 0, offset |-> 0, tries |-> 0,
         boundary |-> "observed", fresh |-> FALSE]

Init ==
    /\ scorer = "scoring" /\ published = Scored /\ logged = Scored /\ residue = FALSE
    /\ disposition \in {"default", "ignored"}
    /\ pending = {}
    /\ files = {} /\ torn = {}
    /\ base = [f \in Receipts |-> 0]
    /\ recOffset = 0 /\ sigBoundary = "observed"
    /\ pc = [c \in Coordinators |-> "off"]
    /\ local = [c \in Coordinators |-> Idle]
    /\ holder = Nobody
    /\ sent = [s \in {"SIGINT", "SIGTERM"} |-> 0]
    /\ faults = 0

ScorerAlive == scorer \notin {"dying", "gone"}
Sound(f) == f \in files /\ f \notin torn

-----------------------------------------------------------------------------
(* The serial scorer                                                       *)

coordinatorVars == <<fileVars, pc, local, holder, sent>>

\* _write_sidecar_atomically: publish lock, temporary directory, rename, unlock.
ScorerLock ==
    /\ scorer = "scoring" /\ published < EpisodeCount
    /\ scorer' = "publishing" /\ residue' = TRUE
    /\ UNCHANGED <<published, logged, disposition, pending, faults, coordinatorVars>>

ScorerRename ==
    /\ scorer = "publishing"
    /\ scorer' = "renamed" /\ published' = published + 1
    /\ UNCHANGED <<logged, residue, disposition, pending, faults, coordinatorVars>>

ScorerUnlock ==
    /\ scorer = "renamed"
    /\ scorer' = "unlogged" /\ residue' = FALSE
    /\ UNCHANGED <<published, logged, disposition, pending, faults, coordinatorVars>>

ScorerLog ==
    /\ scorer = "unlogged"
    /\ scorer' = "scoring" /\ logged' = published
    /\ UNCHANGED <<published, residue, disposition, pending, faults, coordinatorVars>>

\* With nothing left to score it finalizes and exits.
ScorerFinish ==
    /\ scorer = "scoring" /\ published = EpisodeCount
    /\ scorer' = "dying"
    /\ UNCHANGED <<published, logged, residue, disposition, pending, faults, coordinatorVars>>

\* KeyboardInterrupt unwinds through the publication's cleanup; one that lands
\* between the creation of the publish lock and the try block leaves the lock.
ScorerInterrupted ==
    /\ ScorerAlive /\ "SIGINT" \in pending
    /\ scorer' = "dying" /\ pending' = {}
    /\ residue' \in IF scorer = "publishing" THEN BOOLEAN ELSE {FALSE}
    /\ UNCHANGED <<published, logged, disposition, faults, coordinatorVars>>

\* SIGTERM has its default action: nothing is cleaned up.
ScorerTerminated ==
    /\ ScorerAlive /\ "SIGTERM" \in pending
    /\ scorer' = "dying" /\ pending' = {}
    /\ UNCHANGED <<published, logged, residue, disposition, faults, coordinatorVars>>

ScorerCrash ==
    /\ ScorerAlive /\ faults < MaxFaults
    /\ scorer' = "dying" /\ pending' = {} /\ faults' = faults + 1
    /\ UNCHANGED <<published, logged, residue, disposition, coordinatorVars>>

\* The flock wrapper exits after the scorer it started.
WrapperExit ==
    /\ scorer = "dying"
    /\ scorer' = "gone"
    /\ UNCHANGED <<published, logged, residue, disposition, pending, faults, coordinatorVars>>

-----------------------------------------------------------------------------
(* Steps of a coordinator                                                  *)

Go(c, point) == pc' = [pc EXCEPT ![c] = point]
Leave(c) == /\ pc' = [pc EXCEPT ![c] = "off"]
            /\ local' = [local EXCEPT ![c] = Idle]
            /\ holder' = IF holder = c THEN Nobody ELSE holder

\* An exception ends the coordinator; `cutover` under the lock leaves failure.json.
Raise(c) ==
    /\ Leave(c)
    /\ files' = IF local[c].mode = "cutover" /\ holder = c THEN files \cup {"failure"} ELSE files
    /\ UNCHANGED <<scorerVars, torn, base, recOffset, sigBoundary, sent, faults>>

\* A step that changes the coordinator's own state only.
Move(c, point, locals) ==
    /\ Go(c, point)
    /\ local' = [local EXCEPT ![c] = locals]
    /\ UNCHANGED <<scorerVars, fileVars, holder, sent, faults>>
MoveTo(c, point) == Move(c, point, local[c])

\* _write_exclusive, or mkdir with exist_ok=False.
Create(c, f, content, point) ==
    IF f \in files
      THEN Raise(c)
      ELSE /\ files' = files \cup {f}
           /\ base' = IF f \in Receipts THEN [base EXCEPT ![f] = content] ELSE base
           /\ Go(c, point)
           /\ UNCHANGED <<scorerVars, torn, recOffset, sigBoundary, local, holder, sent, faults>>

\* A receipt that is written unless it is there and readable.
Ensure(c, f, content, point) ==
    IF f \in files
      THEN IF Sound(f) THEN MoveTo(c, point) ELSE Raise(c)
      ELSE Create(c, f, content, point)

\* _assert_execution_control_state: exactly the entries of a phase.
OriginalFiles == {"root", "intent", "observed", "sigIntent", "dispatched"}
PhaseFiles(phase) ==
    OriginalFiles \cup
    CASE phase = "original_dispatched" -> {}
      [] phase = "sigint_closed" -> {"ineffective"}
      [] phase = "recovery_intent" -> {"ineffective", "recIntent"}
      [] phase = "recovery_boundary" -> {"ineffective", "recIntent", "recBoundary"}
      [] phase = "recovery_attempts_empty" ->
           {"ineffective", "recIntent", "recBoundary", "recAttempts"}
      [] phase = "recovery_dispatched" ->
           {"ineffective", "recIntent", "recBoundary", "recAttempts", "termIntent", "termDispatched"}
      [] phase = "recovery_exit" ->
           {"ineffective", "recIntent", "recBoundary", "recAttempts", "termIntent",
            "termDispatched", "termExit"}
      [] phase = "cutover" ->
           {"ineffective", "recIntent", "recBoundary", "recAttempts", "termIntent",
            "termDispatched", "termExit", "receipt"}
ControlState(phase) == files = PhaseFiles(phase)

-----------------------------------------------------------------------------
(* Starting                                                                *)

\* _cutover_main: nothing may be there yet, and the scorer must run.
StartCutover(c) ==
    /\ pc[c] = "off"
    /\ "root" \notin files /\ ScorerAlive
    /\ MoveTo(c, "before")

\* _resume_live_cutover_boundary, while the scorer runs: complete a signal that
\* was dispatched, refuse an intent without one, reuse the last boundary
\* receipt, or watch for a boundary.
LiveResumePoint ==
    IF ~Sound("intent") \/ "plan" \in files THEN "off"
    ELSE IF "dispatched" \in files THEN "complete"
    ELSE IF "sigIntent" \in files THEN "off"
    ELSE IF "resumed" \in files THEN IF Sound("resumed") THEN "dispatch" ELSE "off"
    ELSE IF "observed" \in files THEN IF Sound("observed") THEN "dispatch" ELSE "off"
    ELSE "before"

\* An exception before anything was written is no step.
StartResume(c) ==
    LET boundary == IF LiveResumePoint = "before" \/ "resumed" \in files THEN "resumed"
                                                                        ELSE "observed"
        locals == [Idle EXCEPT !.mode = "resume", !.boundary = boundary] IN
    /\ pc[c] = "off"
    /\ "root" \in files
    /\ IF ScorerAlive
         THEN /\ LiveResumePoint # "off"
              /\ Go(c, LiveResumePoint)
              /\ files' = IF LiveResumePoint \in {"before", "dispatch"}
                            THEN files \cup {"observations"} ELSE files
              /\ local' = [local EXCEPT ![c] = [locals EXCEPT !.base = base[boundary]]]
              /\ UNCHANGED <<scorerVars, torn, base, recOffset, sigBoundary, holder, sent, faults>>
         ELSE Move(c, "lock", locals)

\* _recover_ignored_sigint_main and _validate_original_sigint_attempt.
OriginalAttemptValid ==
    /\ \A f \in {"intent", "observed", "sigIntent", "dispatched"} : Sound(f)
    /\ sigBoundary = "observed"
    /\ base["observed"] = base["intent"]
    /\ "interrupt" \notin files /\ "plan" \notin files

StartRecover(c) ==
    LET locals == [Idle EXCEPT !.mode = "recover", !.boundary = "recBoundary"] IN
    /\ pc[c] = "off"
    /\ "root" \in files
    /\ IF "plan" \in files
         THEN ~ScorerAlive /\ Move(c, "lock", locals)
         ELSE /\ "recIntent" \in files \/ ControlState("sigint_closed")
                                       \/ ControlState("original_dispatched")
              /\ OriginalAttemptValid
              /\ Move(c, "ineffective", locals)

-----------------------------------------------------------------------------
(* Baseline and boundary                                                   *)

\* _stable_inventory_log_baseline: the log must not grow while the sidecars
\* are listed; an entry of a publication in progress is residue.
BaselineBefore(c) ==
    /\ pc[c] = "before"
    /\ IF ScorerAlive THEN Move(c, "list", [local[c] EXCEPT !.offset = logged]) ELSE Raise(c)

\* Mutant: the episode in progress is counted as published.
BaselineListAhead(c) ==
    /\ pc[c] = "list"
    /\ IF residue THEN Raise(c) ELSE Move(c, "after", [local[c] EXCEPT !.base = published + 1])

BaselineList(c) ==
    /\ pc[c] = "list"
    /\ IF residue THEN Raise(c) ELSE Move(c, "after", [local[c] EXCEPT !.base = published])

BaselineAfter(c) ==
    /\ pc[c] = "after"
    /\ IF logged = local[c].offset
         THEN MoveTo(c, CASE local[c].mode = "cutover" -> "root"
                          [] local[c].mode = "resume" -> "wait"
                          [] local[c].mode = "recover" -> "recIntent")
         ELSE IF local[c].tries + 1 < MaxTries
           THEN Move(c, "before", [local[c] EXCEPT !.tries = @ + 1])
           ELSE Raise(c)

MakeRoot(c) == pc[c] = "root" /\ Create(c, "root", 0, "intent")

WriteIntent(c) == pc[c] = "intent" /\ Create(c, "intent", local[c].base, "wait")

\* Mutant: the line that ends at the offset is taken for a new one.
BoundaryLineEarly(c) ==
    /\ pc[c] = "wait"
    /\ logged >= local[c].offset
    /\ Move(c, CASE local[c].mode = "cutover" -> "observed"
                [] local[c].mode = "resume" -> "resumed"
                [] local[c].mode = "recover" -> "recBoundary",
            [local[c] EXCEPT !.fresh = TRUE])

\* _wait_for_score_completed, then _prevalidate_boundary_line: the first line
\* after the offset must be that of the episode after the baseline.
BoundaryLine(c) ==
    /\ pc[c] = "wait"
    /\ logged > local[c].offset
    /\ IF ScorerAlive /\ local[c].offset = local[c].base
         THEN Move(c, CASE local[c].mode = "cutover" -> "observed"
                        [] local[c].mode = "resume" -> "resumed"
                        [] local[c].mode = "recover" -> "recBoundary",
                   [local[c] EXCEPT !.fresh = TRUE])
         ELSE Raise(c)

\* The deadlines of the waits: no boundary line, no exit.
WaitEnds(c) ==
    /\ pc[c] \in {"wait", "complete", "termComplete"}
    /\ Raise(c)

\* The receipt of the boundary; `cutover` checks the scorer's identity again.
WriteBoundary(c) ==
    /\ pc[c] \in {"observed", "resumed"}
    /\ IF ScorerAlive \/ local[c].mode = "resume"
         THEN Create(c, local[c].boundary, local[c].base, "dispatch")
         ELSE Raise(c)

-----------------------------------------------------------------------------
(* _dispatch_serial_interrupt and _complete_dispatched_interrupt           *)

Dispatch(c) ==
    /\ pc[c] = "dispatch"
    /\ IF "dispatched" \in files THEN MoveTo(c, "complete")
       ELSE IF "sigIntent" \in files THEN Raise(c)
       ELSE MoveTo(c, "sigIntent")

\* Mutant: the intent is not created exclusively.
WriteSigIntentOverwriting(c) ==
    /\ pc[c] = "sigIntent"
    /\ files' = files \cup {"sigIntent"}
    /\ sigBoundary' = local[c].boundary
    /\ Go(c, "check")
    /\ UNCHANGED <<scorerVars, torn, base, recOffset, local, holder, sent, faults>>

WriteSigIntent(c) ==
    /\ pc[c] = "sigIntent"
    /\ IF "sigIntent" \in files
         THEN Raise(c)
         ELSE /\ files' = files \cup {"sigIntent"}
              /\ sigBoundary' = local[c].boundary
              /\ Go(c, "check")
              /\ UNCHANGED <<scorerVars, torn, base, recOffset, local, holder, sent, faults>>

CheckIdentity(c) ==
    /\ pc[c] = "check"
    /\ IF ScorerAlive THEN MoveTo(c, "kill") ELSE Raise(c)

Send(signal) ==
    /\ sent' = [sent EXCEPT ![signal] = @ + 1]
    /\ pending' = IF signal = "SIGINT" /\ disposition = "ignored" THEN pending
                                                                   ELSE pending \cup {signal}

\* Mutant: a scorer that is already gone counts as interrupted.
KillSerialUnchecked(c) ==
    /\ pc[c] = "kill"
    /\ IF ScorerAlive
         THEN /\ Send("SIGINT")
              /\ Go(c, "dispatched")
              /\ UNCHANGED <<scorer, published, logged, residue, disposition, fileVars, local,
                             holder, faults>>
         ELSE MoveTo(c, "dispatched")

KillSerial(c) ==
    /\ pc[c] = "kill"
    /\ IF ScorerAlive
         THEN /\ Send("SIGINT")
              /\ Go(c, "dispatched")
              /\ UNCHANGED <<scorer, published, logged, residue, disposition, fileVars, local,
                             holder, faults>>
         ELSE Raise(c)

WriteDispatched(c) == pc[c] = "dispatched" /\ Create(c, "dispatched", 0, "complete")

\* Both processes must be gone before the exit is receipted.
Complete(c) ==
    /\ pc[c] = "complete"
    /\ IF Sound("dispatched")
         THEN scorer = "gone" /\ MoveTo(c, "exited")
         ELSE Raise(c)

WriteExited(c) == pc[c] = "exited" /\ Ensure(c, "exited", 0, "interrupt")

\* `resume` goes through here once before and once after it has the lock.
WriteInterrupt(c) ==
    /\ pc[c] = "interrupt"
    /\ Ensure(c, "interrupt", 0, IF holder = c THEN "freeze" ELSE "lock")

-----------------------------------------------------------------------------
(* recover-ignored-sigint                                                  *)

\* A live scorer that ignores SIGINT, long after it was sent.
WriteIneffective(c) ==
    /\ pc[c] = "ineffective"
    /\ IF "ineffective" \in files \/ (ScorerAlive /\ disposition = "ignored")
         THEN Ensure(c, "ineffective", 0, "rebase")
         ELSE Raise(c)

\* The recovery intent is made once; its baseline holds for every later try.
Rebase(c) ==
    /\ pc[c] = "rebase"
    /\ IF "recIntent" \in files
         THEN IF Sound("recIntent")
                THEN Move(c, "rebound", [local[c] EXCEPT !.base = base["recIntent"],
                                                         !.offset = recOffset])
                ELSE Raise(c)
         ELSE IF ControlState("sigint_closed") /\ ScorerAlive THEN MoveTo(c, "before") ELSE Raise(c)

\* _create_recovery_intent: two episodes must remain after the next boundary,
\* and the log must still end where the baseline was taken.
WriteRecIntent(c) ==
    /\ pc[c] = "recIntent"
    /\ IF /\ "recIntent" \notin files
          /\ local[c].base + 3 <= EpisodeCount
          /\ local[c].base > base["observed"]
          /\ logged = local[c].offset
          /\ ScorerAlive
         THEN /\ files' = files \cup {"recIntent"}
              /\ base' = [base EXCEPT !["recIntent"] = local[c].base]
              /\ recOffset' = local[c].offset
              /\ IF files' = PhaseFiles("recovery_intent")
                   THEN Go(c, "rebound") /\ UNCHANGED <<local, holder>> ELSE Leave(c)
              /\ UNCHANGED <<scorerVars, torn, sigBoundary, sent, faults>>
         ELSE Raise(c)

\* _observe_recovery_boundary: the receipt that exists, or the next line.
Rebound(c) ==
    /\ pc[c] = "rebound"
    /\ CASE "recBoundary" \in files /\ Sound("recBoundary") -> MoveTo(c, "recAttempts")
         [] "recBoundary" \notin files /\ ScorerAlive -> MoveTo(c, "wait")
         [] OTHER -> Raise(c)

WriteRecBoundary(c) ==
    /\ pc[c] = "recBoundary"
    /\ IF ScorerAlive THEN Create(c, "recBoundary", local[c].base, "recAttempts") ELSE Raise(c)

MakeRecAttempts(c) ==
    /\ pc[c] = "recAttempts"
    /\ CASE "recAttempts" \in files -> MoveTo(c, "term")
         [] ControlState("recovery_boundary") -> Create(c, "recAttempts", 0, "term")
         [] OTHER -> Raise(c)

\* _ensure_recovery_sigterm_dispatched.
DispatchedPhase ==
    CASE "receipt" \in files -> "cutover"
      [] "receipt" \notin files /\ "termExit" \in files -> "recovery_exit"
      [] OTHER -> "recovery_dispatched"

Term(c) ==
    /\ pc[c] = "term"
    /\ CASE "termDispatched" \in files ->
              IF ControlState(DispatchedPhase) /\ Sound("termDispatched")
                THEN MoveTo(c, "termComplete") ELSE Raise(c)
         [] "termDispatched" \notin files /\ ControlState("recovery_attempts_empty") /\ ScorerAlive ->
              MoveTo(c, "termIntent")
         [] OTHER -> Raise(c)

WriteTermIntent(c) == pc[c] = "termIntent" /\ Create(c, "termIntent", 0, "termCheck")

TermCheck(c) ==
    /\ pc[c] = "termCheck"
    /\ IF ScorerAlive /\ "SIGTERM" \notin pending THEN MoveTo(c, "terminate") ELSE Raise(c)

\* The pidfd was opened on the validated process: a scorer that is gone is an
\* error, never another process.
Terminate(c) ==
    /\ pc[c] = "terminate"
    /\ IF ScorerAlive
         THEN /\ Send("SIGTERM")
              /\ Go(c, "termDispatched")
              /\ UNCHANGED <<scorer, published, logged, residue, disposition, fileVars, local,
                             holder, faults>>
         ELSE Raise(c)

WriteTermDispatched(c) ==
    /\ pc[c] = "termDispatched" /\ Create(c, "termDispatched", 0, "termComplete")

\* _complete_recovery_sigterm.
TermComplete(c) ==
    /\ pc[c] = "termComplete"
    /\ CASE "termExit" \in files ->
              IF Sound("termExit") /\ ControlState(DispatchedPhase) /\ scorer = "gone"
                THEN MoveTo(c, "lock") ELSE Raise(c)
         [] "termExit" \notin files /\ ControlState("recovery_dispatched") ->
              scorer = "gone" /\ MoveTo(c, "termExit")
         [] OTHER -> Raise(c)

WriteTermExit(c) == pc[c] = "termExit" /\ Create(c, "termExit", 0, "lock")

-----------------------------------------------------------------------------
(* Under the global lock                                                   *)

\* Mutant: the wrapper does not hold the lock.
AcquireLockFromWrapper(c) ==
    /\ pc[c] = "lock"
    /\ ~ScorerAlive /\ holder = Nobody
    /\ holder' = c
    /\ Go(c, CASE local[c].mode = "cutover" -> "freeze"
               [] local[c].mode = "resume" -> "load"
               [] local[c].mode = "recover" -> IF "plan" \in files THEN "load" ELSE "freeze")
    /\ UNCHANGED <<scorerVars, fileVars, local, sent, faults>>

\* LOCK_NB: the scorer and its wrapper hold it until both are gone.  Recovery
\* checks the execution root's entries first.
AcquireLock(c) ==
    /\ pc[c] = "lock"
    /\ IF /\ scorer = "gone" /\ holder = Nobody
          /\ local[c].mode = "recover" => "plan" \in files \/ ControlState(DispatchedPhase)
         THEN /\ holder' = c
              /\ Go(c, CASE local[c].mode = "cutover" -> "freeze"
                         [] local[c].mode = "resume" -> "load"
                         [] local[c].mode = "recover" -> IF "plan" \in files THEN "load" ELSE "freeze")
              /\ UNCHANGED <<scorerVars, fileVars, local, sent, faults>>
         ELSE Raise(c)

\* A plan is run; without one _recover_plan_after_stopped_boundary takes the
\* boundary that the dispatched signal's intent binds.
Load(c) ==
    /\ pc[c] = "load"
    /\ CASE "plan" \in files -> IF Sound("plan") THEN MoveTo(c, "run") ELSE Raise(c)
         [] "plan" \notin files /\ Sound("intent") /\ Sound("dispatched") ->
              Move(c, "complete", [local[c] EXCEPT !.boundary = sigBoundary,
                                                   !.base = base[sigBoundary]])
         [] OTHER -> Raise(c)

\* Mutant: entries of an unfinished publication are skipped over.
FreezeDespiteResidue(c) ==
    /\ pc[c] = "freeze"
    /\ IF published = local[c].base + 1 THEN MoveTo(c, "receipt") ELSE Raise(c)

\* Mutant: at least one new sidecar is enough.
FreezeAtLeast(c) ==
    /\ pc[c] = "freeze"
    /\ IF ~residue /\ published > local[c].base THEN MoveTo(c, "receipt") ELSE Raise(c)

\* _inventory and _validate_boundary_transition: exactly the boundary's
\* sidecar was published after the baseline.
Freeze(c) ==
    /\ pc[c] = "freeze"
    /\ IF ~residue /\ published = local[c].base + 1
         THEN MoveTo(c, "receipt")
         ELSE Raise(c)

WriteReceipt(c) ==
    /\ pc[c] = "receipt"
    /\ IF local[c].mode = "cutover" THEN Create(c, "receipt", local[c].base, "plan")
                                    ELSE Ensure(c, "receipt", local[c].base, "plan")

\* _create_plan: two nonempty shards must remain.
WritePlan(c) ==
    /\ pc[c] = "plan"
    /\ IF published + 2 <= EpisodeCount /\ (local[c].mode = "recover" => ControlState("cutover"))
         THEN Create(c, "plan", published, "run")
         ELSE Raise(c)

\* _run_plan returns or raises.
RunEnds(c) ==
    /\ pc[c] = "run"
    /\ \/ Raise(c)
       \/ Leave(c) /\ UNCHANGED <<scorerVars, fileVars, sent, faults>>

\* A coordinator that dies while it writes a receipt may leave it torn.
CoordinatorKilled(c) ==
    /\ pc[c] # "off" /\ faults < MaxFaults
    /\ faults' = faults + 1
    /\ Leave(c)
    /\ \/ UNCHANGED <<files, torn>>
       \/ /\ pc[c] \in Receipts \ files
          /\ files' = files \cup {pc[c]} /\ torn' = torn \cup {pc[c]}
    /\ UNCHANGED <<scorerVars, base, recOffset, sigBoundary, sent>>

-----------------------------------------------------------------------------
ScorerNext ==
    \/ ScorerLock \/ ScorerRename \/ ScorerUnlock \/ ScorerLog \/ ScorerFinish
    \/ ScorerInterrupted \/ ScorerTerminated \/ WrapperExit \/ ScorerCrash

CoordinatorNext(c) ==
    \/ StartCutover(c) \/ StartResume(c) \/ StartRecover(c)
    \/ BaselineBefore(c) \/ BaselineList(c) \/ BaselineAfter(c)
    \/ MakeRoot(c) \/ WriteIntent(c) \/ BoundaryLine(c) \/ WaitEnds(c) \/ WriteBoundary(c)
    \/ Dispatch(c) \/ WriteSigIntent(c) \/ CheckIdentity(c) \/ KillSerial(c)
    \/ WriteDispatched(c) \/ Complete(c) \/ WriteExited(c) \/ WriteInterrupt(c)
    \/ WriteIneffective(c) \/ Rebase(c) \/ WriteRecIntent(c) \/ Rebound(c)
    \/ WriteRecBoundary(c) \/ MakeRecAttempts(c) \/ Term(c) \/ WriteTermIntent(c)
    \/ TermCheck(c) \/ Terminate(c) \/ WriteTermDispatched(c) \/ TermComplete(c)
    \/ WriteTermExit(c)
    \/ AcquireLock(c) \/ Load(c) \/ Freeze(c) \/ WriteReceipt(c) \/ WritePlan(c) \/ RunEnds(c)
    \/ CoordinatorKilled(c)

Next == ScorerNext \/ \E c \in Coordinators : CoordinatorNext(c)

Spec == Init /\ [][Next]_vars

-----------------------------------------------------------------------------
(* Properties                                                              *)

TypeOK ==
    /\ scorer \in ScorerPoints
    /\ published \in Counts /\ logged \in Counts
    /\ residue \in BOOLEAN
    /\ disposition \in {"default", "ignored"}
    /\ pending \subseteq {"SIGINT", "SIGTERM"}
    /\ files \subseteq FileNames /\ torn \subseteq files \cap Receipts
    /\ base \in [Receipts -> Counts]
    /\ recOffset \in Counts
    /\ sigBoundary \in {"observed", "resumed"}
    /\ pc \in [Coordinators -> Points]
    /\ local \in [Coordinators -> [mode : Modes, base : Counts, offset : Counts, tries : Nat,
                                   boundary : {"observed", "resumed", "recBoundary"},
                                   fresh : BOOLEAN]]
    /\ holder \in Coordinators \cup {Nobody}
    /\ sent \in [{"SIGINT", "SIGTERM"} -> Nat]
    /\ faults \in 0..MaxFaults

\* "Interrupts the exact process identity once" and "never repeats a durably
\* dispatched signal": whatever coordinators run, die and are restarted in
\* whatever modes, the scorer is sent each signal at most once.
SignalsOnce == sent["SIGINT"] <= 1 /\ sent["SIGTERM"] <= 1

\* The chain of receipts is truthful: a signal is only sent after a readable
\* intent, a dispatch receipt means the signal was sent, an exit receipt that
\* the scorer and its wrapper are gone, and SIGTERM follows only a SIGINT that
\* the scorer ignored.
ReceiptsTruthful ==
    /\ sent["SIGINT"] > 0 => Sound("sigIntent")
    /\ sent["SIGTERM"] > 0 => Sound("termIntent") /\ sent["SIGINT"] > 0 /\ disposition = "ignored"
    /\ Sound("dispatched") => sent["SIGINT"] > 0
    /\ Sound("termDispatched") => sent["SIGTERM"] > 0
    /\ {"exited", "interrupt", "termExit"} \cap files # {} => scorer = "gone"

\* A signal is sent only after the log line of the boundary that its intent
\* binds, and that boundary is on disk.
BoundaryBeforeSignal ==
    /\ sent["SIGINT"] > 0 => Sound(sigBoundary) /\ logged > base[sigBoundary]
    /\ sent["SIGTERM"] > 0 => Sound("recBoundary") /\ logged > base["recBoundary"]

\* No coordinator holds the global lock, and none executes a plan, while the
\* serial scorer or its wrapper lives.
LockExcludesScorer ==
    /\ holder # Nobody => scorer = "gone"
    /\ \A c \in Coordinators : pc[c] = "run" => holder = c

\* A plan stands on frozen ground: the scorer is gone, no publication is left
\* half done, and the sidecars are those the plan counts as frozen, with two
\* nonempty shards remaining.
PlanFreezesScores ==
    /\ "plan" \in files => scorer = "gone" /\ ~residue /\ Sound("receipt")
    /\ Sound("plan") => base["plan"] = published /\ published + 2 <= EpisodeCount

\* The plan's frozen sidecars are exactly the baseline and the boundary
\* episode of the signal that ended the scorer, in whatever mode it was made.
PlanBindsBoundary ==
    Sound("plan") =>
        base["plan"] = 1 + base[IF sent["SIGTERM"] > 0 THEN "recBoundary" ELSE sigBoundary]

\* "Resume a pre-signal cutover by waiting for a fresh clean boundary": a
\* resumed coordinator about to interrupt the scorer has seen the boundary's line
\* appear itself, or that line is still the last one.
FreshBoundaryOnResume ==
    \A c \in Coordinators :
        pc[c] = "kill" /\ local[c].mode = "resume" =>
            local[c].fresh \/ logged = local[c].base + 1

\* The inductive invariant behind the safety properties.  Of the scorer: its
\* log follows its sidecars.
ScorerOrder ==
    /\ logged <= published
    /\ scorer = "publishing" => published < EpisodeCount

\* Of the signals: what must be on disk before each was sent, and what each
\* receipt of one testifies to.
SigtermDue ==
    /\ sent["SIGINT"] = 1 /\ disposition = "ignored"
    /\ sigBoundary = "observed" /\ Sound("recBoundary")

SignalFiles ==
    /\ sent["SIGINT"] \in {0, 1} /\ sent["SIGTERM"] \in {0, 1}
    /\ sent["SIGINT"] = 1 => Sound("sigIntent")
    /\ Sound("sigIntent") => Sound(sigBoundary)
    /\ "dispatched" \in files => sent["SIGINT"] = 1
    /\ Sound("ineffective") => disposition = "ignored"
    /\ "termIntent" \in files => SigtermDue
    /\ sent["SIGTERM"] = 1 => Sound("termIntent")
    /\ "termDispatched" \in files => sent["SIGTERM"] = 1
    /\ {"exited", "interrupt", "termExit"} \cap files # {} => scorer = "gone"

\* Of the boundaries: later baselines never fall behind earlier ones, and a
\* boundary's log line is there before its receipt.
BoundaryFiles ==
    /\ Sound("intent") => base["intent"] <= published
    /\ Sound("observed") =>
          Sound("intent") /\ base["observed"] = base["intent"] /\ base["observed"] < logged
    /\ Sound("resumed") =>
          Sound("intent") /\ base["intent"] <= base["resumed"] /\ base["resumed"] < logged
    /\ Sound("recIntent") => Sound("observed") /\ base["observed"] < base["recIntent"]
    /\ Sound("recBoundary") =>
          Sound("recIntent") /\ base["recBoundary"] = base["recIntent"] /\ base["recBoundary"] < logged

\* Of the plan: a signal ended the scorer whose scores it froze.
PlanFiles ==
    /\ PlanFreezesScores /\ PlanBindsBoundary
    /\ "plan" \in files => sent["SIGINT"] = 1

\* What coordinator c, at point at with local state l, knows of its mode, of
\* the boundary it works with and of its baseline.
RecoverPoints ==
    {"ineffective", "rebase", "recIntent", "rebound", "recBoundary", "recAttempts", "term",
     "termIntent", "termCheck", "terminate", "termDispatched", "termComplete", "termExit"}

KnowsMode(at, l) ==
    /\ at \in {"root", "intent", "observed"} => l.mode = "cutover"
    /\ at = "resumed" => l.mode = "resume"
    /\ at \in RecoverPoints => l.mode = "recover"
    /\ at \in {"dispatch", "sigIntent", "check", "kill", "dispatched", "complete", "exited",
               "interrupt"} => l.mode # "recover"
    /\ at = "load" => l.mode = "resume" \/ "plan" \in files
    /\ l.mode = "cutover" => l.boundary = "observed"
    /\ l.mode = "resume" =>
          l.boundary \in IF at \in {"before", "list", "after", "wait", "resumed"}
                           THEN {"resumed"} ELSE {"observed", "resumed"}

KnowsBaseline(at, l) ==
    /\ at \in {"after", "root", "intent", "recIntent"} => l.base <= published
    /\ l.mode = "cutover" /\ at \notin {"off", "before", "list", "after", "root", "intent"} =>
          Sound("intent") /\ l.base = base["intent"]
    /\ l.mode = "resume" /\ at \in {"before", "list", "after", "wait", "resumed"} =>
          Sound("intent")
    /\ l.mode = "resume" /\ at \in {"after", "wait", "resumed"} => base["intent"] <= l.base
    /\ at \in {"observed", "resumed", "recBoundary"} => l.base < logged

\* What it knows of the signals it sends or completes.
KnowsSigint(at, l) ==
    /\ at \in {"dispatch", "sigIntent"} => Sound(l.boundary)
    /\ at \in {"check", "kill"} => Sound("sigIntent") /\ sent["SIGINT"] = 0
    /\ at \in {"dispatched", "exited", "interrupt", "freeze", "receipt", "plan"} =>
          sent["SIGINT"] = 1
    /\ at = "lock" /\ l.mode = "cutover" => sent["SIGINT"] = 1
    /\ at \in {"exited", "interrupt", "termExit"} => scorer = "gone"

KnowsSigterm(at, l) ==
    /\ at \in {"termCheck", "terminate"} => Sound("termIntent") /\ sent["SIGTERM"] = 0
    /\ at = "termDispatched" => sent["SIGTERM"] = 1
    /\ l.mode = "recover" /\ at \in {"freeze", "receipt", "plan"} => sent["SIGTERM"] = 1

\* What a recovery under way, as opposed to one of a plan, knows of the
\* original attempt and of its own.
KnowsRecovery(at, l) ==
    l.mode = "recover" /\ at \notin {"load", "run"} /\ (at = "lock" => "plan" \notin files) =>
        /\ Sound("observed") /\ Sound("dispatched") /\ sigBoundary = "observed"
        /\ at # "ineffective" => Sound("ineffective")
        /\ at \notin {"ineffective", "rebase", "before", "list", "after", "recIntent"} =>
              /\ Sound("recIntent") /\ l.base = base["recIntent"]
              /\ at \notin {"rebound", "wait", "recBoundary"} => Sound("recBoundary")

\* What it knows once it has the global lock.
KnowsLocked(c, at, l) ==
    /\ at = "off" => l = Idle
    /\ at \in {"load", "freeze", "receipt", "plan", "run"} => holder = c
    /\ holder = c => at \in {"load", "complete", "exited", "interrupt", "freeze", "receipt",
                            "plan", "run"}
    /\ l.mode = "resume" /\ (\/ at \in {"freeze", "receipt", "plan"}
                             \/ at \in {"complete", "exited", "interrupt"} /\ holder = c) =>
          sent["SIGINT"] = 1 /\ l.base = base[sigBoundary]
    /\ at \in {"receipt", "plan"} => ~residue /\ published = l.base + 1
    /\ at = "plan" => Sound("receipt")

Knows(c, at, l) ==
    /\ KnowsMode(at, l) /\ KnowsBaseline(at, l) /\ KnowsSigint(at, l)
    /\ KnowsSigterm(at, l) /\ KnowsRecovery(at, l) /\ KnowsLocked(c, at, l)

\* Only the coordinator that created a signal's intent may send the signal.
Sending == {"check", "kill", "dispatched"}
Terminating == {"termCheck", "terminate", "termDispatched"}
OneSender ==
    \A c, d \in Coordinators :
        {pc[c], pc[d]} \subseteq Sending \/ {pc[c], pc[d]} \subseteq Terminating => c = d

CutoverInvariant ==
    /\ ScorerOrder /\ SignalFiles /\ BoundaryFiles /\ PlanFiles
    /\ holder # Nobody => scorer = "gone"
    /\ \A c \in Coordinators : Knows(c, pc[c], local[c])
    /\ OneSender


=============================================================================
