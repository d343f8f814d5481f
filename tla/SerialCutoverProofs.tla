-------------------------- MODULE SerialCutoverProofs --------------------------
(***************************************************************************)
(* Proofs about SerialCutover, for every number of coordinators running at *)
(* once in any modes, every manifest, every number of baseline attempts    *)
(* and of deaths.  The inductive invariant is CutoverInvariant: what the   *)
(* receipts on disk testify to, and what each coordinator knows of them    *)
(* from where it is (Knows).  What a coordinator knows survives the steps  *)
(* of all the others because receipts are created once and never changed,  *)
(* a scorer that is gone stays gone, and only the coordinator that created *)
(* a signal's intent sends the signal (OneSender).                         *)
(***************************************************************************)
EXTENDS SerialCutover, TLAPS

Inv == TypeOK /\ CutoverInvariant

LocalStates == [mode : Modes, base : Counts, offset : Counts, tries : Nat,
                boundary : {"observed", "resumed", "recBoundary"}, fresh : BOOLEAN]

SharedFiles == ScorerOrder /\ SignalFiles /\ BoundaryFiles /\ PlanFiles

-----------------------------------------------------------------------------
(* Steps in general                                                        *)

\* Receipts are created once and never changed; the binding of the signal's
\* intent is fixed with the intent.
FilesGrow ==
    /\ files \subseteq files'
    /\ \A f \in files : f \in torn' <=> f \in torn
    /\ \A f \in files \cap Receipts : base'[f] = base[f]
    /\ "sigIntent" \in files => sigBoundary' = sigBoundary

\* The scorer only goes on, and nothing happens to it once it is gone.
ScorerGrows ==
    /\ disposition' = disposition
    /\ published <= published' /\ logged <= logged'
    /\ \A s \in {"SIGINT", "SIGTERM"} : sent[s] = 1 => sent'[s] = 1
    /\ scorer = "gone" => UNCHANGED <<scorer, published, logged, residue, sent>>

\* A coordinator that does not act keeps what it knows.
LEMMA KnowsKept ==
    ASSUME Inv, TypeOK', FilesGrow, ScorerGrows,
           NEW c \in Coordinators, NEW at, NEW l \in LocalStates, Knows(c, at, l),
           holder' = c <=> holder = c,
           at \in {"check", "kill"} => sent'["SIGINT"] = sent["SIGINT"],
           at \in {"termCheck", "terminate"} => sent'["SIGTERM"] = sent["SIGTERM"]
    PROVE  Knows(c, at, l)'
  <1>0. /\ \A f \in FileNames : Sound(f) => Sound(f)'
        /\ \A f \in Receipts : Sound(f) => base'[f] = base[f]
    BY DEF FilesGrow, Sound, FileNames
  <1>1. KnowsMode(at, l)'
    BY DEF Knows, KnowsMode, FilesGrow
  <1>2. KnowsBaseline(at, l)'
    BY <1>0 DEF Knows, KnowsBaseline, Inv, TypeOK, ScorerGrows, LocalStates, Counts, FileNames, Receipts
  <1>3. KnowsSigint(at, l)'
    BY <1>0 DEF Knows, KnowsSigint, ScorerGrows, LocalStates, FileNames, Receipts
  <1>4. KnowsSigterm(at, l)'
    BY <1>0 DEF Knows, KnowsSigterm, ScorerGrows, FileNames, Receipts
  <1>5. KnowsRecovery(at, l)'
    <2>1. Sound("dispatched") => sigBoundary' = sigBoundary
      BY DEF FilesGrow, Inv, CutoverInvariant, SignalFiles, Sound
    <2>. QED  BY <1>0, <2>1 DEF Knows, KnowsRecovery, FilesGrow, FileNames, Receipts
  <1>6. KnowsLocked(c, at, l)'
    <2>1. sent["SIGINT"] = 1 => sigBoundary' = sigBoundary /\ base'[sigBoundary] = base[sigBoundary]
      BY <1>0 DEF FilesGrow, Inv, CutoverInvariant, SignalFiles, Sound, TypeOK, Receipts
    <2>2. holder = c => scorer = "gone"
      BY CutoverAssumption DEF Inv, CutoverInvariant
    <2>. QED  BY <1>0, <2>1, <2>2 DEF Knows, KnowsLocked, ScorerGrows, FileNames, Receipts
  <1>. QED  BY <1>1, <1>2, <1>3, <1>4, <1>5, <1>6 DEF Knows

\* A step of coordinator c, from what it does to the shared state and what c
\* knows afterwards.
LEMMA StepSuffices ==
    ASSUME Inv, TypeOK', FilesGrow, ScorerGrows, SharedFiles', NEW c \in Coordinators,
           NEW point \in Points, NEW l \in LocalStates,
           pc' = [pc EXCEPT ![c] = point], local' = [local EXCEPT ![c] = l], Knows(c, point, l)',
           \A d \in Coordinators \ {c} : holder' = d <=> holder = d,
           holder' # Nobody => scorer' = "gone",
           pc[c] \in Sending \/ sent'["SIGINT"] = sent["SIGINT"],
           pc[c] \in Terminating \/ sent'["SIGTERM"] = sent["SIGTERM"],
           point \in Sending => pc[c] \in Sending \/ "sigIntent" \notin files,
           point \in Terminating => pc[c] \in Terminating \/ "termIntent" \notin files
    PROVE  Inv'
  <1>0. /\ pc'[c] = point /\ local'[c] = l
        /\ \A d \in Coordinators \ {c} : pc'[d] = pc[d] /\ local'[d] = local[d]
    BY DEF Inv, TypeOK
  <1>1. /\ OneSender /\ SignalFiles
        /\ \A d \in Coordinators : Knows(d, pc[d], local[d]) /\ local[d] \in LocalStates
    BY DEF Inv, CutoverInvariant, TypeOK, LocalStates
  <1>2. ASSUME NEW d \in Coordinators \ {c}  PROVE Knows(d, pc[d], local[d])'
    <2>1. pc[d] \in {"check", "kill"} => sent'["SIGINT"] = sent["SIGINT"]
      BY <1>1 DEF OneSender, Sending
    <2>2. pc[d] \in {"termCheck", "terminate"} => sent'["SIGTERM"] = sent["SIGTERM"]
      BY <1>1 DEF OneSender, Terminating
    <2>3. ASSUME NEW at, NEW m \in LocalStates, at = pc[d], m = local[d]
          PROVE  Knows(d, at, m)'
      BY <1>1, <2>1, <2>2, <2>3, KnowsKept
    <2>. QED  BY <1>0, <1>1, <2>3 DEF Knows, KnowsMode, KnowsBaseline, KnowsSigint, KnowsSigterm,
              KnowsRecovery, KnowsLocked
  <1>3. Knows(c, pc[c], local[c])'
    BY <1>0 DEF Knows, KnowsMode, KnowsBaseline, KnowsSigint, KnowsSigterm, KnowsRecovery, KnowsLocked
  <1>4. OneSender'
    <2>1. "sigIntent" \notin files => \A d \in Coordinators : pc[d] \notin Sending
      BY <1>1 DEF Knows, KnowsSigint, SignalFiles, Sending, Sound
    <2>2. "termIntent" \notin files => \A d \in Coordinators : pc[d] \notin Terminating
      BY <1>1 DEF Knows, KnowsSigterm, SignalFiles, Terminating, Sound
    <2>. QED  BY <1>0, <1>1, <2>1, <2>2 DEF OneSender
  <1>. QED  BY <1>2, <1>3, <1>4 DEF Inv, CutoverInvariant, SharedFiles

\* A step that changes nothing but the coordinator's own state.
LEMMA MoveSound ==
    ASSUME Inv, NEW c \in Coordinators, NEW point \in Points, NEW l \in LocalStates,
           Move(c, point, l), Knows(c, point, l),
           point \in Sending => pc[c] \in Sending,
           point \in Terminating => pc[c] \in Terminating
    PROVE  Inv'
  <1>1. UNCHANGED <<scorerVars, fileVars, holder, sent, faults>>
    BY DEF Move
  <1>2. TypeOK'
    BY <1>1 DEF Inv, TypeOK, Move, Go, LocalStates, scorerVars, fileVars
  <1>3. FilesGrow /\ ScorerGrows
    BY <1>1 DEF FilesGrow, ScorerGrows, scorerVars, fileVars, Inv, TypeOK, Counts
  <1>4. SharedFiles'
    BY <1>1 DEF SharedFiles, Inv, CutoverInvariant, ScorerOrder, SignalFiles, BoundaryFiles, PlanFiles,
       PlanFreezesScores, PlanBindsBoundary, SigtermDue, Sound, scorerVars, fileVars
  <1>5. Knows(c, point, l)'
    BY <1>1, <1>2, <1>3, KnowsKept
  <1>6. holder' # Nobody => scorer' = "gone"
    BY <1>1 DEF Inv, CutoverInvariant, scorerVars
  <1>. QED  BY <1>1, <1>2, <1>3, <1>4, <1>5, <1>6, StepSuffices DEF Move, Go

\* The same when not even the local state changes.
LEMMA MoveToSound ==
    ASSUME Inv, NEW c \in Coordinators, NEW point \in Points, MoveTo(c, point),
           Knows(c, point, local[c]),
           point \in Sending => pc[c] \in Sending,
           point \in Terminating => pc[c] \in Terminating
    PROVE  Inv'
  <1>1. local[c] \in LocalStates
    BY DEF Inv, TypeOK, LocalStates
  <1>. QED  BY <1>1, MoveSound DEF MoveTo

\* The end of a coordinator, whatever file it leaves, if that file may exist.
LEMMA LeaveSound ==
    ASSUME Inv, TypeOK', NEW c \in Coordinators, Leave(c), FilesGrow, SharedFiles',
           UNCHANGED <<scorerVars, sent>>
    PROVE  Inv'
  <1>1. ScorerGrows
    BY DEF ScorerGrows, scorerVars, Inv, TypeOK, Counts
  <1>2. /\ holder' # c /\ \A d \in Coordinators \ {c} : holder' = d <=> holder = d
        /\ holder' # Nobody => scorer' = "gone"
    BY CutoverAssumption DEF Leave, Inv, CutoverInvariant, scorerVars
  <1>3. Idle \in LocalStates /\ Knows(c, "off", Idle)'
    <2>1. Idle \in LocalStates
      BY CutoverAssumption DEF Idle, LocalStates, Modes, Counts
    <2>. QED  BY <1>2, <2>1 DEF Idle, LocalStates, Modes, Counts, Knows, KnowsMode, KnowsBaseline, KnowsSigint,
              KnowsSigterm, KnowsRecovery, KnowsLocked, RecoverPoints
  <1>. QED
    BY <1>1, <1>2, <1>3, StepSuffices DEF Leave, Points, Sending, Terminating

\* An exception is harmless anywhere: failure.json means nothing to a reader.
LEMMA RaiseSound ==
    ASSUME Inv, NEW c \in Coordinators, Raise(c)
    PROVE  Inv'
  <1>1. /\ UNCHANGED <<scorerVars, torn, base, recOffset, sigBoundary, sent, faults>>
        /\ files' \in {files, files \cup {"failure"}} /\ Leave(c)
    BY DEF Raise
  <1>2. TypeOK'
    BY <1>1, CutoverAssumption DEF Inv, TypeOK, Leave, Idle, Modes, Counts, Points, FileNames, scorerVars
  <1>3. FilesGrow
    BY <1>1 DEF FilesGrow
  <1>4. \A f \in FileNames \ {"failure"} : f \in files' <=> f \in files
    BY <1>1
  <1>5. SharedFiles'
    BY <1>1, <1>4 DEF SharedFiles, Inv, CutoverInvariant, ScorerOrder, SignalFiles, BoundaryFiles, PlanFiles,
       PlanFreezesScores, PlanBindsBoundary, SigtermDue, Sound, scorerVars, FileNames, Receipts, TypeOK
  <1>. QED  BY <1>1, <1>2, <1>3, <1>5, LeaveSound

-----------------------------------------------------------------------------
(* Writing a file                                                          *)

\* When file f may come to exist, its bytes written or not.
Creatable(f) ==
    /\ f = "dispatched" => sent["SIGINT"] = 1
    /\ f = "termIntent" => SigtermDue
    /\ f = "termDispatched" => sent["SIGTERM"] = 1
    /\ f \in {"exited", "interrupt", "termExit"} => scorer = "gone"
    /\ f = "plan" => scorer = "gone" /\ ~residue /\ Sound("receipt") /\ sent["SIGINT"] = 1

\* When it may be written with a baseline in it.
Writable(f, content) ==
    /\ Creatable(f)
    /\ f = "ineffective" => disposition = "ignored"
    /\ f = "intent" => content <= published
    /\ f = "observed" => Sound("intent") /\ content = base["intent"] /\ content < logged
    /\ f = "resumed" => Sound("intent") /\ base["intent"] <= content /\ content < logged
    /\ f = "recIntent" => Sound("observed") /\ base["observed"] < content
    /\ f = "recBoundary" => Sound("recIntent") /\ content = base["recIntent"] /\ content < logged
    /\ f = "plan" =>
          /\ content = published /\ published + 2 <= EpisodeCount
          /\ content = 1 + base[IF sent["SIGTERM"] > 0 THEN "recBoundary" ELSE sigBoundary]

\* A new file, with its bytes or (a receipt) torn.
NewFile(f, content) ==
    /\ f \in FileNames \ files
    /\ files' = files \cup {f}
    /\ \/ torn' = torn /\ base' = IF f \in Receipts THEN [base EXCEPT ![f] = content] ELSE base
       \/ torn' = torn \cup {f} /\ base' = base /\ f \in Receipts
    /\ f = "sigIntent" => f \in torn' \/ Sound(sigBoundary')
    /\ f # "sigIntent" => sigBoundary' = sigBoundary

\* A file that may exist in the form it takes leaves the receipts truthful.
LEMMA NewFileSound ==
    ASSUME Inv, TypeOK', NEW f, NEW content \in Counts, NewFile(f, content),
           UNCHANGED <<scorerVars, sent>>,
           IF f \in torn' THEN Creatable(f) ELSE Writable(f, content)
    PROVE  FilesGrow /\ SharedFiles'
  <1>0. /\ f \notin torn /\ Creatable(f) /\ f \in files' /\ f \in FileNames
        /\ \A g \in FileNames \ {f} : /\ g \in files' <=> g \in files
                                      /\ Sound(g)' <=> Sound(g)
                                      /\ g \in Receipts => base'[g] = base[g]
        /\ Sound(f)' => Writable(f, content) /\ (f \in Receipts => base'[f] = content)
    BY DEF NewFile, Sound, Inv, TypeOK, Writable
  <1>1. FilesGrow
    BY DEF FilesGrow, NewFile, Inv, TypeOK
  <1>2. ScorerOrder'
    BY DEF ScorerOrder, Inv, CutoverInvariant, scorerVars
  <1>3. SignalFiles /\ BoundaryFiles /\ PlanFiles /\ sigBoundary \in {"observed", "resumed"}
    BY DEF Inv, CutoverInvariant, TypeOK
  <1>4. \A g \in FileNames : Sound(g) => Sound(g)'
    BY <1>0 DEF Sound, NewFile
  <1>5. /\ sent["SIGINT"] = 1 => sigBoundary' = sigBoundary /\ Sound(sigBoundary)
        /\ Sound("sigIntent") => sigBoundary' = sigBoundary
    BY <1>3 DEF SignalFiles, NewFile, Sound
  <1>6. SigtermDue => SigtermDue'
    BY <1>4, <1>5 DEF SigtermDue, scorerVars, FileNames, Receipts
  <1>7. SignalFiles'
    <2>1. Sound("sigIntent")' => Sound(sigBoundary)'
      <3>1. CASE f = "sigIntent"
        BY <1>0, <3>1 DEF NewFile, Sound, TypeOK, FileNames, Receipts
      <3>2. CASE f # "sigIntent"
        BY <1>0, <1>3, <1>4, <3>2 DEF NewFile, SignalFiles, FileNames, Receipts
      <3>. QED  BY <3>1, <3>2
    <2>2. /\ ("termIntent" \in files)' => SigtermDue'
          /\ ("dispatched" \in files)' => sent["SIGINT"]' = 1
          /\ ("termDispatched" \in files)' => sent["SIGTERM"]' = 1
          /\ Sound("ineffective")' => disposition' = "ignored"
      BY <1>0, <1>3, <1>6 DEF SignalFiles, Creatable, Writable, FileNames, Receipts, scorerVars
    <2>3. ({"exited", "interrupt", "termExit"} \cap files # {})' => scorer' = "gone"
      BY <1>0, <1>3 DEF SignalFiles, Creatable, scorerVars, NewFile
    <2>. QED  BY <1>3, <1>4, <2>1, <2>2, <2>3 DEF SignalFiles, FileNames, Receipts
  <1>8. BoundaryFiles'
    <2>0. \A g \in {"intent", "observed", "resumed", "recIntent", "recBoundary"} :
             g \in FileNames \cap Receipts
      BY DEF FileNames, Receipts
    <2>1. UNCHANGED <<published, logged>>
      BY DEF scorerVars
    <2>2. CASE f = "intent"
      BY <1>0, <1>3, <1>4, <2>0, <2>1, <2>2 DEF BoundaryFiles, Writable, NewFile, Sound
    <2>3. CASE f = "observed"
      BY <1>0, <1>3, <1>4, <2>0, <2>1, <2>3 DEF BoundaryFiles, Writable, NewFile, Sound
    <2>4. CASE f = "resumed"
      BY <1>0, <1>3, <1>4, <2>0, <2>1, <2>4 DEF BoundaryFiles, Writable
    <2>5. CASE f = "recIntent"
      BY <1>0, <1>3, <1>4, <2>0, <2>1, <2>5 DEF BoundaryFiles, Writable, NewFile, Sound
    <2>6. CASE f = "recBoundary"
      BY <1>0, <1>3, <1>4, <2>0, <2>1, <2>6 DEF BoundaryFiles, Writable
    <2>7. CASE f \notin {"intent", "observed", "resumed", "recIntent", "recBoundary"}
      BY <1>0, <1>3, <1>4, <2>0, <2>1, <2>7 DEF BoundaryFiles
    <2>. QED  BY <2>2, <2>3, <2>4, <2>5, <2>6, <2>7
  <1>9. PlanFiles'
    <2>1. Sound("plan")' /\ f = "plan" =>
             /\ base'["plan"] = published /\ published + 2 <= EpisodeCount
             /\ base'["plan"] = 1 + base[IF sent["SIGTERM"] > 0 THEN "recBoundary" ELSE sigBoundary]
      BY <1>0 DEF Writable, FileNames, Receipts
    <2>2. Sound("plan")' /\ f # "plan" => Sound("plan") /\ base'["plan"] = base["plan"]
      BY <1>0 DEF FileNames, Receipts
    <2>3. Sound("plan")' => sent["SIGINT"] = 1
      BY <1>0, <1>3, <2>2 DEF Creatable, PlanFiles, Sound
    <2>4. Sound("plan")' => UNCHANGED base[IF sent["SIGTERM"] > 0 THEN "recBoundary" ELSE sigBoundary]
      <3>1. sent["SIGTERM"] > 0 => Sound("recBoundary")
        BY <1>3 DEF SignalFiles, SigtermDue, Sound, Inv, TypeOK
      <3>2. /\ Sound("recBoundary") => base'["recBoundary"] = base["recBoundary"]
            /\ Sound(sigBoundary) => base'[sigBoundary] = base[sigBoundary]
        BY <1>0, <1>3, <1>1 DEF FilesGrow, Sound, Receipts
      <3>. QED  BY <1>5, <2>3, <3>1, <3>2
    <2>5. PlanBindsBoundary'
      BY <1>3, <2>1, <2>2, <2>4 DEF PlanFiles, PlanBindsBoundary
    <2>6. PlanFreezesScores' /\ ("plan" \in files => sent["SIGINT"] = 1)'
      BY <1>0, <1>3, <1>4, <2>1, <2>2 DEF PlanFiles, PlanFreezesScores, Creatable, scorerVars, FileNames, Receipts
    <2>. QED  BY <2>5, <2>6 DEF PlanFiles
  <1>. QED  BY <1>1, <1>2, <1>7, <1>8, <1>9 DEF SharedFiles


\* A coordinator that creates a file and goes on, from what it knows at the
\* point before.
LEMMA CreateSound ==
    ASSUME Inv, NEW c \in Coordinators, NEW f \in FileNames \ {"sigIntent"}, NEW content \in Counts,
           NEW point \in Points, NEW at, NEW l, at = pc[c], l = local[c],
           Create(c, f, content, point), f \notin files => Writable(f, content),
           UNCHANGED sent /\ Knows(c, at, l)' /\ Sound(f)' /\ (f \in Receipts => base'[f] = content)
             => Knows(c, point, l)',
           point \in Sending => pc[c] \in Sending,
           point \in Terminating => pc[c] \in Terminating \/ "termIntent" \notin files
    PROVE  Inv'
  <1>1. CASE f \in files
    BY <1>1, RaiseSound DEF Create
  <1>2. CASE f \notin files
    <2>1. /\ files' = files \cup {f} /\ torn' = torn
          /\ base' = IF f \in Receipts THEN [base EXCEPT ![f] = content] ELSE base
          /\ pc' = [pc EXCEPT ![c] = point]
          /\ UNCHANGED <<scorerVars, recOffset, sigBoundary, local, holder, sent, faults>>
      BY <1>2 DEF Create, Go
    <2>2. TypeOK'
      BY <2>1 DEF Inv, TypeOK, scorerVars
    <2>3. NewFile(f, content) /\ f \notin torn' /\ Sound(f)' /\ (f \in Receipts => base'[f] = content)
      BY <1>2, <2>1 DEF NewFile, Inv, TypeOK, Sound
    <2>4. FilesGrow /\ SharedFiles'
      BY <1>2, <2>1, <2>2, <2>3, NewFileSound
    <2>5. ScorerGrows
      BY <2>1 DEF ScorerGrows, scorerVars, Inv, TypeOK, Counts
    <2>6. l \in LocalStates /\ Knows(c, at, l) /\ local' = [local EXCEPT ![c] = l]
      BY <2>1 DEF Inv, CutoverInvariant, TypeOK, LocalStates
    <2>7. Knows(c, at, l)'
      BY <2>1, <2>2, <2>4, <2>5, <2>6, KnowsKept
    <2>8. Knows(c, point, l)'
      BY <2>1, <2>3, <2>7
    <2>9. holder' # Nobody => scorer' = "gone"
      BY <2>1 DEF Inv, CutoverInvariant, scorerVars
    <2>. QED  BY <2>1, <2>2, <2>4, <2>5, <2>6, <2>8, <2>9, StepSuffices
  <1>. QED  BY <1>1, <1>2

\* The same for a file that may be there already.
LEMMA EnsureSound ==
    ASSUME Inv, NEW c \in Coordinators, NEW f \in FileNames \ {"sigIntent"}, NEW content \in Counts,
           NEW point \in Points, NEW at, NEW l, at = pc[c], l = local[c],
           Ensure(c, f, content, point), f \notin files => Writable(f, content),
           UNCHANGED sent /\ Knows(c, at, l)' /\ Sound(f)' /\ (f \in Receipts => base'[f] = content)
             => Knows(c, point, l)',
           Sound(f) => Knows(c, point, l),
           point \notin Sending \cup Terminating
    PROVE  Inv'
  <1>1. CASE f \in files /\ Sound(f)
    BY <1>1, MoveToSound DEF Ensure
  <1>2. CASE f \in files /\ ~Sound(f)
    BY <1>2, RaiseSound DEF Ensure
  <1>3. CASE f \notin files
    BY <1>3, CreateSound DEF Ensure
  <1>. QED  BY <1>1, <1>2, <1>3

-----------------------------------------------------------------------------
(* The scorer                                                              *)

\* The scorer's steps leave the files alone and never take back a line of its
\* log or a sidecar.
LEMMA ScorerSound ==
    ASSUME Inv, ScorerNext
    PROVE  Inv'
  <1>1. UNCHANGED coordinatorVars /\ scorer # "gone" /\ ScorerOrder /\ TypeOK
    BY DEF ScorerNext, ScorerLock, ScorerRename, ScorerUnlock, ScorerLog, ScorerFinish, ScorerInterrupted,
       ScorerTerminated, ScorerCrash, WrapperExit, ScorerAlive, Inv, CutoverInvariant
  <1>2. /\ scorer' \in ScorerPoints /\ published' \in Counts /\ logged' \in Counts
        /\ disposition' = disposition /\ pending' \subseteq {"SIGINT", "SIGTERM"} /\ faults' \in 0..MaxFaults
        /\ published <= published' /\ logged <= logged' /\ ScorerOrder'
    <2>1. CASE ScorerLock
      BY <1>1, <2>1, CutoverAssumption DEF ScorerLock, TypeOK, ScorerOrder, ScorerPoints, Counts
    <2>2. CASE ScorerRename
      BY <1>1, <2>2, CutoverAssumption DEF ScorerRename, TypeOK, ScorerOrder, ScorerPoints, Counts
    <2>3. CASE ScorerUnlock
      BY <1>1, <2>3, CutoverAssumption DEF ScorerUnlock, TypeOK, ScorerOrder, ScorerPoints, Counts
    <2>4. CASE ScorerLog
      BY <1>1, <2>4, CutoverAssumption DEF ScorerLog, TypeOK, ScorerOrder, ScorerPoints, Counts
    <2>5. CASE ScorerFinish
      BY <1>1, <2>5, CutoverAssumption DEF ScorerFinish, TypeOK, ScorerOrder, ScorerPoints, Counts
    <2>6. CASE ScorerInterrupted
      BY <1>1, <2>6, CutoverAssumption DEF ScorerInterrupted, TypeOK, ScorerOrder, ScorerPoints, Counts
    <2>7. CASE ScorerTerminated
      BY <1>1, <2>7, CutoverAssumption DEF ScorerTerminated, TypeOK, ScorerOrder, ScorerPoints, Counts
    <2>8. CASE ScorerCrash
      BY <1>1, <2>8, CutoverAssumption DEF ScorerCrash, TypeOK, ScorerOrder, ScorerPoints, Counts
    <2>9. CASE WrapperExit
      BY <1>1, <2>9, CutoverAssumption DEF WrapperExit, TypeOK, ScorerOrder, ScorerPoints, Counts
    <2>. QED  BY <2>1, <2>2, <2>3, <2>4, <2>5, <2>6, <2>7, <2>8, <2>9 DEF ScorerNext
  <1>3. TypeOK'
    <2>1. residue' \in BOOLEAN
      BY <1>1, Zenon DEF ScorerNext, ScorerLock, ScorerRename, ScorerUnlock, ScorerLog, ScorerFinish,
         ScorerInterrupted, ScorerTerminated, ScorerCrash, WrapperExit, TypeOK
    <2>. QED  BY <1>1, <1>2, <2>1 DEF TypeOK, coordinatorVars, fileVars
  <1>4. FilesGrow /\ ScorerGrows
    BY <1>1, <1>2 DEF FilesGrow, ScorerGrows, coordinatorVars, fileVars
  <1>5. "plan" \notin files /\ holder = Nobody /\ {"exited", "interrupt", "termExit"} \cap files = {}
    BY <1>1 DEF Inv, CutoverInvariant, PlanFiles, PlanFreezesScores, SignalFiles
  <1>6. PlanFiles' /\ SignalFiles'
    BY <1>1, <1>2, <1>5 DEF PlanFiles, PlanFreezesScores, PlanBindsBoundary, SignalFiles, SigtermDue, Sound,
       coordinatorVars, fileVars, Inv, CutoverInvariant
  <1>7. BoundaryFiles'
    BY <1>1, <1>2 DEF BoundaryFiles, Sound, coordinatorVars, fileVars, Inv, CutoverInvariant, TypeOK, Counts,
       Receipts
  <1>8. ASSUME NEW c \in Coordinators  PROVE Knows(c, pc[c], local[c])'
    <2>1. ASSUME NEW at, NEW l \in LocalStates, at = pc[c], l = local[c]  PROVE Knows(c, at, l)'
      BY <1>1, <1>3, <1>4, <2>1, KnowsKept DEF coordinatorVars, Inv, CutoverInvariant
    <2>. QED  BY <1>1, <2>1 DEF coordinatorVars, TypeOK, LocalStates, Knows, KnowsMode, KnowsBaseline, KnowsSigint,
              KnowsSigterm, KnowsRecovery, KnowsLocked
  <1>9. OneSender' /\ (holder' # Nobody => scorer' = "gone")
    BY <1>1, <1>5 DEF OneSender, coordinatorVars, Inv, CutoverInvariant
  <1>. QED  BY <1>2, <1>3, <1>6, <1>7, <1>8, <1>9 DEF Inv, CutoverInvariant


-----------------------------------------------------------------------------
(* The coordinator                                                         *)

\* Coordinator c is at point at with local state l.
Acting(c, at, l) ==
    /\ Inv /\ at = pc[c] /\ l = local[c]
    /\ l \in LocalStates /\ Knows(c, at, l)

\* Every coordinator acts on what it knows.
LEMMA ActingFacts ==
    ASSUME Inv, NEW c \in Coordinators
    PROVE  Acting(c, pc[c], local[c])
  BY DEF Acting, Inv, CutoverInvariant, TypeOK, LocalStates

\* The points a coordinator may go to, and those that precede a signal.
LEMMA PointFacts ==
    /\ Receipts \subseteq Points
    /\ {"off", "before", "list", "after", "root", "wait", "dispatch", "complete", "original", "rebase",
        "rebound", "recAttempts", "term", "termComplete", "lock", "load", "freeze", "run", "intent",
        "observed", "resumed", "sigIntent", "exited", "ineffective", "interrupt", "recIntent",
        "recBoundary", "termIntent", "termExit", "receipt", "plan"}
         \subseteq Points \ (Sending \cup Terminating)
    /\ Sending \subseteq Points /\ Terminating \subseteq Points
  BY DEF Points, Receipts, Sending, Terminating

\* The local state of a coordinator that starts in a mode.
LEMMA StartLocals ==
    ASSUME NEW m \in Modes, NEW b \in {"observed", "resumed", "recBoundary"}
    PROVE  /\ [Idle EXCEPT !.mode = m, !.boundary = b] \in LocalStates
           /\ [Idle EXCEPT !.mode = m, !.boundary = b].mode = m
           /\ [Idle EXCEPT !.mode = m, !.boundary = b].boundary = b
  <1>1. Idle \in LocalStates
    BY CutoverAssumption DEF Idle, LocalStates, Modes, Counts
  <1>2. ASSUME NEW l \in LocalStates
        PROVE  /\ [l EXCEPT !.mode = m, !.boundary = b] \in LocalStates
               /\ [l EXCEPT !.mode = m, !.boundary = b].mode = m
               /\ [l EXCEPT !.mode = m, !.boundary = b].boundary = b
    BY DEF LocalStates
  <1>. QED  BY <1>1, <1>2

\* A coordinator that starts knows what it has just checked.
LEMMA StartSound ==
    ASSUME NEW c \in Coordinators, NEW at, NEW l, Acting(c, at, l),
           StartCutover(c) \/ StartResume(c) \/ StartRecover(c)
    PROVE  Inv'
  <1>0. at = "off" /\ l = Idle /\ holder # c /\ Inv
    BY DEF StartCutover, StartResume, StartRecover, Acting, Knows, KnowsLocked
  <1>1. CASE StartCutover(c)
    <2>1. Knows(c, "before", l)
      BY <1>0 DEF Idle, Knows, KnowsMode, KnowsBaseline, KnowsSigint,
         KnowsSigterm, KnowsRecovery, KnowsLocked, RecoverPoints
    <2>. QED  BY <1>1, <2>1, MoveToSound, PointFacts DEF StartCutover, Acting
  <1>2. CASE StartResume(c)
    <2> DEFINE boundary == IF LiveResumePoint = "before" \/ "resumed" \in files THEN "resumed" ELSE "observed"
               locals == [Idle EXCEPT !.mode = "resume", !.boundary = boundary]
               resumed == [locals EXCEPT !.base = base[boundary]]
               point == LiveResumePoint
    <2>1. boundary \in {"observed", "resumed"} /\ "resume" \in Modes
      BY DEF Modes
    <2>3. point = "dispatch" => Sound(boundary)
      BY DEF LiveResumePoint
    <2>4. point = "before" => boundary = "resumed"
      OBVIOUS
    <2> HIDE DEF boundary
    <2>2. locals \in LocalStates /\ locals.mode = "resume" /\ locals.boundary = boundary
      <3>1. boundary \in {"observed", "resumed", "recBoundary"}
        BY <2>1
      <3>. QED  BY <2>1, <3>1, StartLocals, Zenon
    <2>5. CASE ~ScorerAlive
      <3>1. Knows(c, "lock", locals)
        BY <1>0, <2>1, <2>2 DEF Knows, KnowsMode, KnowsBaseline, KnowsSigint,
         KnowsSigterm, KnowsRecovery, KnowsLocked, RecoverPoints
      <3>2. Move(c, "lock", locals)
        BY <1>2, <2>5 DEF StartResume, boundary
      <3>. QED  BY <1>0, <2>2, <3>1, <3>2, MoveSound, PointFacts
    <2>6. CASE ScorerAlive
      <3>1. Sound("intent") /\ point \in {"before", "dispatch", "complete"}
        BY <1>2, <2>6 DEF StartResume, LiveResumePoint
      <3>2. /\ pc' = [pc EXCEPT ![c] = point] /\ local' = [local EXCEPT ![c] = resumed]
            /\ files' \in {files, files \cup {"observations"}}
            /\ UNCHANGED <<scorerVars, torn, base, recOffset, sigBoundary, holder, sent, faults>>
        BY <1>2, <2>6 DEF StartResume, Go, boundary
      <3>3. base[boundary] \in Counts
        BY <1>0, <2>1 DEF Inv, TypeOK, Receipts
      <3> HIDE DEF locals, point
      <3>4. resumed \in LocalStates /\ resumed.mode = "resume" /\ resumed.boundary = boundary
        BY <2>2, <3>3 DEF LocalStates
      <3> HIDE DEF resumed
      <3>5. TypeOK'
        BY <1>0, <3>1, <3>2, <3>4, PointFacts DEF Inv, TypeOK, LocalStates, scorerVars, FileNames, Directories
      <3>6. FilesGrow /\ SharedFiles'
        <4>1. CASE files' = files
          BY <1>0, <3>2, <4>1 DEF FilesGrow, SharedFiles, Inv, CutoverInvariant, ScorerOrder, SignalFiles,
             BoundaryFiles, PlanFiles, PlanFreezesScores, PlanBindsBoundary, SigtermDue, Sound, scorerVars
        <4>2. CASE files' # files
          <5>0. "observations" \in FileNames /\ "observations" \notin Receipts /\ 0 \in Counts
            BY CutoverAssumption DEF FileNames, Directories, Receipts, Counts
          <5>1. NewFile("observations", 0) /\ "observations" \notin torn'
            BY <1>0, <3>2, <4>2, <5>0 DEF NewFile, Inv, TypeOK
          <5>2. Writable("observations", 0)
            BY DEF Writable, Creatable
          <5>. QED  BY <1>0, <3>2, <3>5, <5>0, <5>1, <5>2, NewFileSound
        <4>. QED  BY <4>1, <4>2
      <3>7. ScorerGrows
        BY <1>0, <3>2 DEF ScorerGrows, scorerVars, Inv, TypeOK, Counts
      <3>8. Knows(c, point, resumed)
        BY <1>0, <2>1, <2>3, <2>4, <3>1, <3>4 DEF LocalStates, Knows, KnowsMode, KnowsBaseline, KnowsSigint,
         KnowsSigterm, KnowsRecovery, KnowsLocked, RecoverPoints
      <3>9. ASSUME NEW p \in Points, NEW m \in LocalStates, p = point, m = resumed
            PROVE  Inv'
        <4>1. Knows(c, p, m)'
          BY <1>0, <3>1, <3>2, <3>5, <3>6, <3>7, <3>8, <3>9, KnowsKept
        <4>2. holder' # Nobody => scorer' = "gone"
          BY <1>0, <3>2 DEF Inv, CutoverInvariant, scorerVars
        <4>. QED
          BY <1>0, <3>1, <3>2, <3>5, <3>6, <3>7, <3>9, <4>1, <4>2, StepSuffices, PointFacts
      <3>. QED  BY <3>1, <3>4, <3>9, PointFacts
    <2>. QED  BY <2>5, <2>6
  <1>3. CASE StartRecover(c)
    <2> DEFINE locals == [Idle EXCEPT !.mode = "recover", !.boundary = "recBoundary"]
    <2>1. locals \in LocalStates /\ locals.mode = "recover"
      BY StartLocals DEF Modes
    <2>2. CASE "plan" \in files
      <3>1. Knows(c, "lock", locals)
        BY <1>0, <2>1, <2>2 DEF Knows, KnowsMode, KnowsBaseline, KnowsSigint,
         KnowsSigterm, KnowsRecovery, KnowsLocked, RecoverPoints
      <3>. QED  BY <1>0, <1>3, <2>1, <2>2, <3>1, MoveSound, PointFacts DEF StartRecover
    <2>3. CASE "plan" \notin files
      <3>1. OriginalAttemptValid /\ Move(c, "ineffective", locals)
        BY <1>3, <2>3 DEF StartRecover
      <3>2. Knows(c, "ineffective", locals)
        BY <1>0, <2>1, <3>1 DEF OriginalAttemptValid, Knows, KnowsMode, KnowsBaseline, KnowsSigint,
         KnowsSigterm, KnowsRecovery, KnowsLocked, RecoverPoints
      <3>. QED  BY <1>0, <2>1, <3>1, <3>2, MoveSound, PointFacts
    <2>. QED  BY <2>2, <2>3
  <1>. QED  BY <1>1, <1>2, <1>3

\* Taking the baseline, making the root and writing the intent.
LEMMA BaselineSound ==
    ASSUME NEW c \in Coordinators, NEW at, NEW l, Acting(c, at, l),
           BaselineBefore(c) \/ BaselineList(c) \/ BaselineAfter(c) \/ MakeRoot(c) \/ WriteIntent(c)
    PROVE  Inv'
  <1>0. Inv /\ at = pc[c] /\ l = local[c] /\ l \in LocalStates /\ Knows(c, at, l)
    BY DEF Acting
  <1>1. CASE BaselineBefore(c)
    <2>1. [l EXCEPT !.offset = logged] \in LocalStates
      BY <1>0 DEF LocalStates, Inv, TypeOK
    <2>2. Knows(c, "list", [l EXCEPT !.offset = logged])
      BY <1>0, <1>1 DEF BaselineBefore, LocalStates, Knows, KnowsMode, KnowsBaseline, KnowsSigint,
         KnowsSigterm, KnowsRecovery, KnowsLocked, RecoverPoints
    <2>. QED  BY <1>0, <1>1, <2>1, <2>2, MoveSound, RaiseSound, PointFacts DEF BaselineBefore
  <1>2. CASE BaselineList(c)
    <2>1. [l EXCEPT !.base = published] \in LocalStates
      BY <1>0 DEF LocalStates, Inv, TypeOK
    <2>2. Knows(c, "after", [l EXCEPT !.base = published])
      <3>1. Sound("intent") => base["intent"] <= published
        BY <1>0 DEF Inv, CutoverInvariant, BoundaryFiles
      <3>. QED  BY <1>0, <1>2, <3>1 DEF BaselineList, LocalStates, Inv, TypeOK, Counts, Knows, KnowsMode, KnowsBaseline, KnowsSigint,
         KnowsSigterm, KnowsRecovery, KnowsLocked, RecoverPoints
    <2>. QED  BY <1>0, <1>2, <2>1, <2>2, MoveSound, RaiseSound, PointFacts DEF BaselineList
  <1>3. CASE BaselineAfter(c)
    <2>1. [l EXCEPT !.tries = @ + 1] \in LocalStates
      BY <1>0 DEF LocalStates
    <2>2. Knows(c, "before", [l EXCEPT !.tries = @ + 1])
      BY <1>0, <1>3 DEF BaselineAfter, LocalStates, Knows, KnowsMode, KnowsBaseline, KnowsSigint,
         KnowsSigterm, KnowsRecovery, KnowsLocked, RecoverPoints
    <2>3. l.mode \in Modes
      BY <1>0 DEF LocalStates
    <2>4. /\ l.mode = "cutover" => Knows(c, "root", l)
          /\ l.mode = "resume" => Knows(c, "wait", l)
          /\ l.mode = "recover" => Knows(c, "recIntent", l)
      BY <1>0, <1>3 DEF BaselineAfter, LocalStates, Knows, KnowsMode, KnowsBaseline, KnowsSigint,
         KnowsSigterm, KnowsRecovery, KnowsLocked, RecoverPoints
    <2>5. \/ Raise(c)
          \/ Move(c, "before", [l EXCEPT !.tries = @ + 1])
          \/ l.mode = "cutover" /\ MoveTo(c, "root")
          \/ l.mode = "resume" /\ MoveTo(c, "wait")
          \/ l.mode = "recover" /\ MoveTo(c, "recIntent")
      BY <1>0, <1>3, <2>3 DEF BaselineAfter, Modes
    <2>. QED  BY <1>0, <2>1, <2>2, <2>4, <2>5, MoveSound, MoveToSound, RaiseSound, PointFacts
  <1>4. CASE MakeRoot(c)
    <2>1. at = "root" /\ Create(c, "root", 0, "intent") /\ 0 \in Counts
      BY <1>0, <1>4, CutoverAssumption DEF MakeRoot, Counts
    <2>2. Writable("root", 0)
      BY DEF Writable, Creatable
    <2>3. Knows(c, at, l)' => Knows(c, "intent", l)'
      BY <2>1 DEF Knows, KnowsMode, KnowsBaseline, KnowsSigint,
         KnowsSigterm, KnowsRecovery, KnowsLocked, RecoverPoints
    <2>4. "root" \in FileNames \ {"sigIntent"}
      BY DEF FileNames, Directories
    <2>. QED  BY <1>0, <2>1, <2>2, <2>3, <2>4, CreateSound, PointFacts
  <1>5. CASE WriteIntent(c)
    <2>1. at = "intent" /\ Create(c, "intent", l.base, "wait") /\ l.base \in Counts
      BY <1>0, <1>5 DEF WriteIntent, LocalStates
    <2>2. Writable("intent", l.base)
      BY <1>0, <2>1 DEF Writable, Creatable, Knows, KnowsBaseline
    <2>3. Knows(c, at, l)' /\ Sound("intent")' /\ base'["intent"] = l.base => Knows(c, "wait", l)'
      BY <2>1 DEF Knows, KnowsMode, KnowsBaseline, KnowsSigint,
         KnowsSigterm, KnowsRecovery, KnowsLocked, RecoverPoints
    <2>4. "intent" \in FileNames \ {"sigIntent"} /\ "intent" \in Receipts
      BY DEF FileNames, Receipts
    <2>. QED  BY <1>0, <2>1, <2>2, <2>3, <2>4, CreateSound, PointFacts
  <1>. QED  BY <1>1, <1>2, <1>3, <1>4, <1>5


\* Watching for the boundary and writing its receipt.
LEMMA BoundarySound ==
    ASSUME NEW c \in Coordinators, NEW at, NEW l, Acting(c, at, l),
           BoundaryLine(c) \/ WaitEnds(c) \/ WriteBoundary(c)
    PROVE  Inv'
  <1>0. Inv /\ at = pc[c] /\ l = local[c] /\ l \in LocalStates /\ Knows(c, at, l)
    BY DEF Acting
  <1>1. CASE BoundaryLine(c)
    <2> DEFINE m == [l EXCEPT !.fresh = TRUE]
    <2>1. m \in LocalStates /\ m.mode = l.mode /\ m.base = l.base /\ m.boundary = l.boundary
      BY <1>0 DEF LocalStates
    <2>2. \/ Raise(c)
          \/ /\ at = "wait" /\ l.base < logged
             /\ \/ l.mode = "cutover" /\ Move(c, "observed", m)
                \/ l.mode = "resume" /\ Move(c, "resumed", m)
                \/ l.mode = "recover" /\ Move(c, "recBoundary", m)
      BY <1>0, <1>1 DEF BoundaryLine, LocalStates, Modes
    <2> HIDE DEF m
    <2>3. at = "wait" /\ l.base < logged =>
             /\ l.mode = "cutover" => Knows(c, "observed", m)
             /\ l.mode = "resume" => Knows(c, "resumed", m)
             /\ l.mode = "recover" => Knows(c, "recBoundary", m)
      BY <1>0, <2>1 DEF LocalStates, Knows, KnowsMode, KnowsBaseline, KnowsSigint, KnowsSigterm,
         KnowsRecovery, KnowsLocked, RecoverPoints
    <2>. QED  BY <1>0, <2>1, <2>2, <2>3, MoveSound, RaiseSound, PointFacts
  <1>2. CASE WaitEnds(c)
    BY <1>0, <1>2, RaiseSound DEF WaitEnds
  <1>3. CASE WriteBoundary(c)
    <2>1. /\ at \in {"observed", "resumed"} /\ l.boundary = at /\ l.base \in Counts
          /\ Create(c, at, l.base, "dispatch") \/ Raise(c)
      BY <1>0, <1>3 DEF WriteBoundary, LocalStates, Knows, KnowsMode
    <2>2. Writable(at, l.base)
      BY <1>0, <2>1 DEF Writable, Creatable, Knows, KnowsMode, KnowsBaseline
    <2>3. Knows(c, at, l)' /\ Sound(at)' => Knows(c, "dispatch", l)'
      BY <2>1 DEF Knows, KnowsMode, KnowsBaseline, KnowsSigint, KnowsSigterm,
         KnowsRecovery, KnowsLocked, RecoverPoints
    <2>4. at \in FileNames \ {"sigIntent"}
      BY <2>1 DEF FileNames, Receipts
    <2>5. CASE Create(c, at, l.base, "dispatch")
      BY <1>0, <2>1, <2>2, <2>3, <2>4, <2>5, CreateSound, PointFacts
    <2>. QED  BY <1>0, <2>1, <2>5, RaiseSound
  <1>. QED  BY <1>1, <1>2, <1>3

\* The signal's intent, the signal and its dispatch receipt.
LEMMA InterruptSound ==
    ASSUME NEW c \in Coordinators, NEW at, NEW l, Acting(c, at, l),
           \/ Dispatch(c) \/ WriteSigIntent(c) \/ CheckIdentity(c) \/ KillSerial(c)
           \/ WriteDispatched(c)
    PROVE  Inv'
  <1>0. Inv /\ at = pc[c] /\ l = local[c] /\ l \in LocalStates /\ Knows(c, at, l)
    BY DEF Acting
  <1>1. CASE Dispatch(c)
    <2>1. Knows(c, "complete", l) /\ Knows(c, "sigIntent", l)
      BY <1>0, <1>1 DEF Dispatch, Knows, KnowsMode, KnowsBaseline, KnowsSigint, KnowsSigterm,
         KnowsRecovery, KnowsLocked, RecoverPoints
    <2>. QED  BY <1>0, <1>1, <2>1, MoveToSound, RaiseSound, PointFacts DEF Dispatch
  <1>2. CASE WriteSigIntent(c)
    <2>1. CASE "sigIntent" \in files
      BY <1>0, <1>2, <2>1, RaiseSound DEF WriteSigIntent
    <2>2. CASE "sigIntent" \notin files
      <3>1. /\ at = "sigIntent" /\ files' = files \cup {"sigIntent"} /\ sigBoundary' = l.boundary
            /\ pc' = [pc EXCEPT ![c] = "check"]
            /\ UNCHANGED <<scorerVars, torn, base, recOffset, local, holder, sent, faults>>
        BY <1>0, <1>2, <2>2 DEF WriteSigIntent, Go
      <3>2. Sound(l.boundary) /\ l.boundary \in {"observed", "resumed"} /\ "sigIntent" \notin torn
        BY <1>0, <3>1, <2>2 DEF Knows, KnowsMode, KnowsSigint, LocalStates, Modes, Inv, TypeOK
      <3>3. "sigIntent" \in FileNames /\ "sigIntent" \in Receipts /\ "check" \in Points
        BY DEF FileNames, Receipts, Points
      <3>4. TypeOK'
        BY <1>0, <3>1, <3>2, <3>3 DEF Inv, TypeOK, scorerVars
      <3>5. ASSUME NEW n \in Counts, n = base["sigIntent"]  PROVE FilesGrow /\ SharedFiles'
        <4>1. base' = [base EXCEPT !["sigIntent"] = n]
          BY <1>0, <3>1, <3>5 DEF Inv, TypeOK
        <4>2. Sound(sigBoundary')
          BY <3>1, <3>2
        <4>3. NewFile("sigIntent", n) /\ "sigIntent" \notin torn'
          BY <2>2, <3>1, <3>2, <3>3, <4>1, <4>2 DEF NewFile
        <4>4. Writable("sigIntent", n)
          BY DEF Writable, Creatable
        <4>. QED  BY <1>0, <3>1, <3>4, <3>5, <4>3, <4>4, NewFileSound
      <3>6. FilesGrow /\ SharedFiles'
        BY <1>0, <3>3, <3>5 DEF Inv, TypeOK
      <3>7. ScorerGrows
        BY <1>0, <3>1 DEF ScorerGrows, scorerVars, Inv, TypeOK, Counts
      <3>8. Knows(c, at, l)'
        BY <1>0, <3>1, <3>4, <3>6, <3>7, KnowsKept
      <3>9. sent'["SIGINT"] = 0 /\ Sound("sigIntent")'
        BY <1>0, <2>2, <3>1, <3>2 DEF Inv, CutoverInvariant, SignalFiles, Sound
      <3>10. Knows(c, "check", l)'
        BY <3>1, <3>8, <3>9 DEF Knows, KnowsMode, KnowsBaseline, KnowsSigint, KnowsSigterm,
         KnowsRecovery, KnowsLocked, RecoverPoints
      <3>11. /\ holder' # Nobody => scorer' = "gone"
             /\ local' = [local EXCEPT ![c] = l]
        BY <1>0, <3>1 DEF Inv, CutoverInvariant, scorerVars, TypeOK
      <3>. QED
        BY <1>0, <2>2, <3>1, <3>3, <3>4, <3>6, <3>7, <3>10, <3>11, StepSuffices DEF Terminating
    <2>. QED  BY <2>1, <2>2
  <1>3. CASE CheckIdentity(c)
    <2>1. Knows(c, "kill", l)
      BY <1>0, <1>3 DEF CheckIdentity, Knows, KnowsMode, KnowsBaseline, KnowsSigint, KnowsSigterm,
         KnowsRecovery, KnowsLocked, RecoverPoints
    <2>2. "kill" \in Points /\ "check" \in Sending /\ "kill" \notin Terminating
      BY DEF Points, Sending, Terminating
    <2>. QED  BY <1>0, <1>3, <2>1, <2>2, MoveToSound, RaiseSound DEF CheckIdentity
  <1>4. CASE KillSerial(c)
    <2>1. CASE ~ScorerAlive
      BY <1>0, <1>4, <2>1, RaiseSound DEF KillSerial
    <2>2. CASE ScorerAlive
      <3>1. /\ at = "kill" /\ sent' = [sent EXCEPT !["SIGINT"] = @ + 1]
            /\ pending' \in {pending, pending \cup {"SIGINT"}}
            /\ pc' = [pc EXCEPT ![c] = "dispatched"]
            /\ UNCHANGED <<scorer, published, logged, residue, disposition, fileVars, local,
                           holder, faults>>
        BY <1>0, <1>4, <2>2 DEF KillSerial, Send, Go
      <3>2. sent["SIGINT"] = 0 /\ Sound("sigIntent") /\ scorer # "gone"
        BY <1>0, <2>2, <3>1 DEF Knows, KnowsSigint, ScorerAlive
      <3>3. sent'["SIGINT"] = 1 /\ sent'["SIGTERM"] = sent["SIGTERM"] /\ sent' \in [{"SIGINT", "SIGTERM"} -> Nat]
        BY <1>0, <3>1, <3>2 DEF Inv, TypeOK
      <3>4. "dispatched" \in Points \ Terminating /\ {"kill", "dispatched"} \subseteq Sending
        BY DEF Points, Sending, Terminating, Receipts
      <3>5. TypeOK'
        BY <1>0, <3>1, <3>3, <3>4 DEF Inv, TypeOK, fileVars
      <3>6. FilesGrow /\ ScorerGrows
        BY <1>0, <3>1, <3>2, <3>3 DEF FilesGrow, ScorerGrows, fileVars, Inv, TypeOK, Counts
      <3>7. "plan" \notin files /\ holder = Nobody
        BY <1>0, <3>2 DEF Inv, CutoverInvariant, PlanFiles, PlanFreezesScores
      <3>8. SharedFiles'
        <4>1. ScorerOrder' /\ BoundaryFiles'
          BY <1>0, <3>1 DEF Inv, CutoverInvariant, ScorerOrder, BoundaryFiles, Sound, fileVars
        <4>2. SignalFiles'
          BY <1>0, <3>1, <3>2, <3>3 DEF Inv, CutoverInvariant, SignalFiles, SigtermDue, Sound, fileVars
        <4>3. PlanFiles'
          BY <3>1, <3>7 DEF PlanFiles, PlanFreezesScores, PlanBindsBoundary, Sound, fileVars
        <4>. QED  BY <4>1, <4>2, <4>3 DEF SharedFiles
      <3>11. Knows(c, "dispatched", l)'
        <4>1. KnowsMode("dispatched", l)' /\ KnowsRecovery("dispatched", l)' /\ KnowsBaseline("dispatched", l)'
          BY <1>0, <3>1 DEF Knows, KnowsMode, KnowsRecovery, KnowsBaseline, Sound, fileVars, RecoverPoints
        <4>2. KnowsLocked(c, "dispatched", l)' /\ KnowsSigint("dispatched", l)' /\ KnowsSigterm("dispatched", l)'
          BY <1>0, <3>1, <3>3 DEF Knows, KnowsLocked, KnowsSigint, KnowsSigterm
        <4>. QED  BY <4>1, <4>2 DEF Knows
      <3>12. local' = [local EXCEPT ![c] = l] /\ holder' = Nobody
        BY <1>0, <3>1, <3>7 DEF Inv, TypeOK
      <3>. QED
        BY <1>0, <3>1, <3>3, <3>4, <3>5, <3>6, <3>7, <3>8, <3>11, <3>12, StepSuffices
    <2>. QED  BY <2>1, <2>2
  <1>5. CASE WriteDispatched(c)
    <2>1. at = "dispatched" /\ Create(c, "dispatched", 0, "complete") /\ 0 \in Counts
      BY <1>0, <1>5, CutoverAssumption DEF WriteDispatched, Counts
    <2>2. Writable("dispatched", 0)
      BY <1>0, <2>1 DEF Writable, Creatable, Knows, KnowsSigint
    <2>3. Knows(c, at, l)' => Knows(c, "complete", l)'
      BY <2>1 DEF Knows, KnowsMode, KnowsBaseline, KnowsSigint, KnowsSigterm,
         KnowsRecovery, KnowsLocked, RecoverPoints
    <2>4. "dispatched" \in FileNames \ {"sigIntent"}
      BY DEF FileNames, Receipts
    <2>. QED  BY <1>0, <2>1, <2>2, <2>3, <2>4, CreateSound, PointFacts
  <1>. QED  BY <1>1, <1>2, <1>3, <1>4, <1>5

\* Completing a dispatched interrupt once the scorer is gone.
LEMMA CompleteSound ==
    ASSUME NEW c \in Coordinators, NEW at, NEW l, Acting(c, at, l),
           Complete(c) \/ WriteExited(c) \/ WriteInterrupt(c)
    PROVE  Inv'
  <1>0. Inv /\ at = pc[c] /\ l = local[c] /\ l \in LocalStates /\ Knows(c, at, l)
    BY DEF Acting
  <1>1. CASE Complete(c)
    <2>1. Sound("dispatched") /\ scorer = "gone" => Knows(c, "exited", l)
      <3>1. Sound("dispatched") => sent["SIGINT"] = 1
        BY <1>0 DEF Inv, CutoverInvariant, SignalFiles, Sound
      <3>. QED  BY <1>0, <1>1, <3>1 DEF Complete, Knows, KnowsMode, KnowsBaseline, KnowsSigint, KnowsSigterm,
         KnowsRecovery, KnowsLocked, RecoverPoints
    <2>. QED  BY <1>0, <1>1, <2>1, MoveToSound, RaiseSound, PointFacts DEF Complete
  <1>2. CASE WriteExited(c)
    <2>1. at = "exited" /\ Ensure(c, "exited", 0, "interrupt") /\ 0 \in Counts
      BY <1>0, <1>2, CutoverAssumption DEF WriteExited, Counts
    <2>2. Writable("exited", 0)
      BY <1>0, <2>1 DEF Writable, Creatable, Knows, KnowsSigint
    <2>3. Knows(c, at, l)' => Knows(c, "interrupt", l)'
      BY <2>1 DEF Knows, KnowsMode, KnowsBaseline, KnowsSigint, KnowsSigterm,
         KnowsRecovery, KnowsLocked, RecoverPoints
    <2>4. Knows(c, "interrupt", l)
      BY <1>0, <2>1 DEF Knows, KnowsMode, KnowsBaseline, KnowsSigint, KnowsSigterm,
         KnowsRecovery, KnowsLocked, RecoverPoints
    <2>5. "exited" \in FileNames \ {"sigIntent"}
      BY DEF FileNames, Receipts
    <2>. QED  BY <1>0, <2>1, <2>2, <2>3, <2>4, <2>5, EnsureSound, PointFacts
  <1>3. CASE WriteInterrupt(c)
    <2> DEFINE point == IF holder = c THEN "freeze" ELSE "lock"
    <2>1. at = "interrupt" /\ Ensure(c, "interrupt", 0, point) /\ 0 \in Counts
      BY <1>0, <1>3, CutoverAssumption DEF WriteInterrupt, Counts
    <2>2. Writable("interrupt", 0)
      BY <1>0, <2>1 DEF Writable, Creatable, Knows, KnowsSigint
    <2>3. "interrupt" \in FileNames \ {"sigIntent"}
      BY DEF FileNames, Receipts
    <2>4. Knows(c, point, l)
      BY <1>0, <2>1 DEF Knows, KnowsMode, KnowsBaseline, KnowsSigint, KnowsSigterm,
         KnowsRecovery, KnowsLocked, RecoverPoints
    <2>5. UNCHANGED sent /\ holder' = holder /\ Knows(c, at, l)' => Knows(c, point, l)'
      BY <2>1 DEF Knows, KnowsMode, KnowsBaseline, KnowsSigint, KnowsSigterm,
         KnowsRecovery, KnowsLocked, RecoverPoints
    <2>6. CASE "interrupt" \in files
      BY <1>0, <2>1, <2>4, <2>6, MoveToSound, RaiseSound, PointFacts DEF Ensure
    <2>7. CASE "interrupt" \notin files
      <3>1. Create(c, "interrupt", 0, point) /\ holder' = holder
        BY <2>1, <2>7 DEF Ensure, Create
      <3>. QED  BY <1>0, <2>1, <2>2, <2>3, <2>5, <3>1, CreateSound, PointFacts
    <2>. QED  BY <2>6, <2>7
  <1>. QED  BY <1>1, <1>2, <1>3


\* Closing the original attempt, the recovery's intent and its boundary.
LEMMA RecoverySound ==
    ASSUME NEW c \in Coordinators, NEW at, NEW l, Acting(c, at, l),
           \/ WriteIneffective(c) \/ Rebase(c) \/ WriteRecIntent(c) \/ Rebound(c)
           \/ WriteRecBoundary(c) \/ MakeRecAttempts(c)
    PROVE  Inv'
  <1>0. Inv /\ at = pc[c] /\ l = local[c] /\ l \in LocalStates /\ Knows(c, at, l)
    BY DEF Acting
  <1>1. CASE WriteIneffective(c)
    <2>1. CASE Ensure(c, "ineffective", 0, "rebase")
      <3>1. at = "ineffective" /\ 0 \in Counts
        BY <1>0, <1>1, CutoverAssumption DEF WriteIneffective, Counts
      <3>2. "ineffective" \notin files => Writable("ineffective", 0)
        <4>1. "ineffective" \notin files => disposition = "ignored" \/ Raise(c)
          BY <1>1 DEF WriteIneffective
        <4>2. "ineffective" \notin files => disposition = "ignored"
          <5>1. Ensure(c, "ineffective", 0, "rebase") /\ "ineffective" \notin files
                  => "ineffective" \in files'
            BY DEF Ensure, Create
          <5>2. Raise(c) /\ "ineffective" \notin files => "ineffective" \notin files'
            BY DEF Raise
          <5>. QED  BY <2>1, <4>1, <5>1, <5>2
        <4>. QED  BY <4>2 DEF Writable, Creatable
      <3>3. Knows(c, at, l)' /\ Sound("ineffective")' => Knows(c, "rebase", l)'
        BY <3>1 DEF Knows, KnowsMode, KnowsBaseline, KnowsSigint, KnowsSigterm,
         KnowsRecovery, KnowsLocked, RecoverPoints
      <3>4. Sound("ineffective") => Knows(c, "rebase", l)
        BY <1>0, <3>1 DEF Knows, KnowsMode, KnowsBaseline, KnowsSigint, KnowsSigterm,
         KnowsRecovery, KnowsLocked, RecoverPoints
      <3>5. "ineffective" \in FileNames \ {"sigIntent"}
        BY DEF FileNames, Receipts
      <3>. QED  BY <1>0, <2>1, <3>1, <3>2, <3>3, <3>4, <3>5, EnsureSound, PointFacts
    <2>. QED  BY <1>0, <1>1, <2>1, RaiseSound DEF WriteIneffective
  <1>2. CASE Rebase(c)
    <2> DEFINE m == [l EXCEPT !.base = base["recIntent"], !.offset = recOffset]
    <2>1. m \in LocalStates /\ m.mode = l.mode /\ m.base = base["recIntent"] /\ m.boundary = l.boundary
      BY <1>0 DEF LocalStates, Inv, TypeOK, Receipts
    <2>2. /\ at = "rebase"
          /\ \/ Raise(c)
             \/ Sound("recIntent") /\ Move(c, "rebound", m)
             \/ MoveTo(c, "before")
      BY <1>0, <1>2 DEF Rebase
    <2> HIDE DEF m
    <2>3. Sound("recIntent") => Knows(c, "rebound", m)
      BY <1>0, <2>1, <2>2 DEF Knows, KnowsMode, KnowsBaseline, KnowsSigint, KnowsSigterm,
         KnowsRecovery, KnowsLocked, RecoverPoints
    <2>4. Knows(c, "before", l)
      BY <1>0, <2>2 DEF Knows, KnowsMode, KnowsBaseline, KnowsSigint, KnowsSigterm,
         KnowsRecovery, KnowsLocked, RecoverPoints
    <2>. QED  BY <1>0, <2>1, <2>2, <2>3, <2>4, MoveSound, MoveToSound, RaiseSound, PointFacts
  <1>3. CASE WriteRecIntent(c)
    <2>1. CASE Raise(c)
      BY <1>0, <2>1, RaiseSound
    <2>2. CASE ~Raise(c)
      <3>1. /\ at = "recIntent" /\ "recIntent" \notin files /\ base["observed"] < l.base
            /\ files' = files \cup {"recIntent"} /\ base' = [base EXCEPT !["recIntent"] = l.base]
            /\ recOffset' = l.offset
            /\ Leave(c) \/ (pc' = [pc EXCEPT ![c] = "rebound"] /\ UNCHANGED <<local, holder>>)
            /\ UNCHANGED <<scorerVars, torn, sigBoundary, sent, faults>>
        BY <1>0, <1>3, <2>2 DEF WriteRecIntent, Go
      <3>2. Sound("observed") /\ l.base \in Counts /\ l.offset \in Counts /\ "recIntent" \notin torn
        BY <1>0, <3>1 DEF Knows, KnowsMode, KnowsRecovery, RecoverPoints, LocalStates, Inv, TypeOK
      <3>3. "recIntent" \in FileNames /\ "recIntent" \in Receipts
        BY DEF FileNames, Receipts
      <3>4. TypeOK'
        <4>1. /\ files' \subseteq FileNames /\ torn' \subseteq files' \cap Receipts
              /\ base' \in [Receipts -> Counts] /\ recOffset' \in Counts
          BY <1>0, <3>1, <3>2, <3>3 DEF Inv, TypeOK
        <4>2. /\ pc' \in [Coordinators -> Points] /\ local' \in [Coordinators -> LocalStates]
              /\ holder' \in Coordinators \cup {Nobody}
          <5>1. CASE Leave(c)
            BY <1>0, <5>1, PointFacts, CutoverAssumption DEF Leave, Inv, TypeOK, Idle, LocalStates, Modes, Counts
          <5>2. CASE pc' = [pc EXCEPT ![c] = "rebound"] /\ UNCHANGED <<local, holder>>
            BY <1>0, <5>2, PointFacts DEF Inv, TypeOK, LocalStates
          <5>. QED  BY <3>1, <5>1, <5>2
        <4>. QED  BY <1>0, <3>1, <4>1, <4>2 DEF Inv, TypeOK, scorerVars, LocalStates
      <3>5. FilesGrow /\ SharedFiles' /\ Sound("recIntent")' /\ base'["recIntent"] = l.base
        <4>1. NewFile("recIntent", l.base) /\ "recIntent" \notin torn'
          BY <3>1, <3>2, <3>3 DEF NewFile
        <4>2. Writable("recIntent", l.base)
          BY <3>1, <3>2 DEF Writable, Creatable
        <4>3. UNCHANGED <<scorerVars, sent>>
          BY <3>1
        <4>4. FilesGrow /\ SharedFiles'
          BY <1>0, <3>2, <3>4, <4>1, <4>2, <4>3, NewFileSound
        <4>5. Sound("recIntent")' /\ base'["recIntent"] = l.base
          BY <1>0, <3>1, <3>2, <3>3 DEF Sound, Inv, TypeOK
        <4>. QED  BY <4>4, <4>5
      <3>6. CASE Leave(c)
        BY <1>0, <3>1, <3>4, <3>5, <3>6, LeaveSound
      <3>7. CASE pc' = [pc EXCEPT ![c] = "rebound"] /\ UNCHANGED <<local, holder>>
        <4>1. ScorerGrows
          BY <1>0, <3>1 DEF ScorerGrows, scorerVars, Inv, TypeOK, Counts
        <4>2. Knows(c, at, l)'
          BY <1>0, <3>1, <3>4, <3>5, <3>7, <4>1, KnowsKept
        <4>3. Knows(c, "rebound", l)'
          BY <3>1, <3>5, <4>2 DEF Knows, KnowsMode, KnowsBaseline, KnowsSigint, KnowsSigterm,
         KnowsRecovery, KnowsLocked, RecoverPoints
        <4>4. /\ holder' # Nobody => scorer' = "gone"
              /\ local' = [local EXCEPT ![c] = l] /\ sent' = sent
          BY <1>0, <3>1, <3>7 DEF Inv, CutoverInvariant, scorerVars, TypeOK
        <4>. QED
          BY <1>0, <3>4, <3>5, <3>7, <4>1, <4>3, <4>4, StepSuffices, PointFacts
      <3>. QED  BY <3>1, <3>6, <3>7
    <2>. QED  BY <2>1, <2>2
  <1>4. CASE Rebound(c)
    <2>1. /\ at = "rebound"
          /\ \/ Raise(c)
             \/ Sound("recBoundary") /\ MoveTo(c, "recAttempts")
             \/ MoveTo(c, "wait")
      BY <1>0, <1>4 DEF Rebound
    <2>2. Knows(c, "wait", l) /\ (Sound("recBoundary") => Knows(c, "recAttempts", l))
      BY <1>0, <2>1 DEF Knows, KnowsMode, KnowsBaseline, KnowsSigint, KnowsSigterm,
         KnowsRecovery, KnowsLocked, RecoverPoints
    <2>. QED  BY <1>0, <2>1, <2>2, MoveToSound, RaiseSound, PointFacts
  <1>5. CASE WriteRecBoundary(c)
    <2>1. at = "recBoundary" /\ l.base \in Counts /\ (Create(c, at, l.base, "recAttempts") \/ Raise(c))
      BY <1>0, <1>5 DEF WriteRecBoundary, LocalStates
    <2>2. Writable(at, l.base)
      BY <1>0, <2>1 DEF Writable, Creatable, Knows, KnowsMode, KnowsBaseline, KnowsRecovery, RecoverPoints
    <2>3. Knows(c, at, l)' /\ Sound(at)' => Knows(c, "recAttempts", l)'
      BY <2>1 DEF Knows, KnowsMode, KnowsBaseline, KnowsSigint, KnowsSigterm,
         KnowsRecovery, KnowsLocked, RecoverPoints
    <2>4. at \in FileNames \ {"sigIntent"}
      BY <2>1 DEF FileNames, Receipts
    <2>5. CASE Create(c, at, l.base, "recAttempts")
      BY <1>0, <2>1, <2>2, <2>3, <2>4, <2>5, CreateSound, PointFacts
    <2>. QED  BY <1>0, <2>1, <2>5, RaiseSound
  <1>6. CASE MakeRecAttempts(c)
    <2>1. /\ at = "recAttempts" /\ 0 \in Counts
          /\ MoveTo(c, "term") \/ Create(c, "recAttempts", 0, "term") \/ Raise(c)
      BY <1>0, <1>6, CutoverAssumption DEF MakeRecAttempts, Counts
    <2>2. Writable("recAttempts", 0)
      BY DEF Writable, Creatable
    <2>3. Knows(c, "term", l) /\ (Knows(c, at, l)' => Knows(c, "term", l)')
      BY <1>0, <2>1 DEF Knows, KnowsMode, KnowsBaseline, KnowsSigint, KnowsSigterm,
         KnowsRecovery, KnowsLocked, RecoverPoints
    <2>4. "recAttempts" \in FileNames \ {"sigIntent"}
      BY DEF FileNames, Directories
    <2>5. CASE Create(c, "recAttempts", 0, "term")
      BY <1>0, <2>1, <2>2, <2>3, <2>4, <2>5, CreateSound, PointFacts
    <2>. QED  BY <1>0, <2>1, <2>3, <2>5, MoveToSound, RaiseSound, PointFacts
  <1>. QED  BY <1>1, <1>2, <1>3, <1>4, <1>5, <1>6

\* The second signal: its intent, the signal, its receipts.
LEMMA SigtermSound ==
    ASSUME NEW c \in Coordinators, NEW at, NEW l, Acting(c, at, l),
           \/ Term(c) \/ WriteTermIntent(c) \/ TermCheck(c) \/ Terminate(c)
           \/ WriteTermDispatched(c) \/ TermComplete(c) \/ WriteTermExit(c)
    PROVE  Inv'
  <1>0. Inv /\ at = pc[c] /\ l = local[c] /\ l \in LocalStates /\ Knows(c, at, l)
    BY DEF Acting
  <1>1. CASE Term(c)
    <2>1. at = "term" /\ (Raise(c) \/ MoveTo(c, "termComplete") \/ MoveTo(c, "termIntent"))
      BY <1>0, <1>1 DEF Term
    <2>2. Knows(c, "termComplete", l) /\ Knows(c, "termIntent", l)
      BY <1>0, <2>1 DEF Knows, KnowsMode, KnowsBaseline, KnowsSigint, KnowsSigterm,
         KnowsRecovery, KnowsLocked, RecoverPoints
    <2>. QED  BY <1>0, <2>1, <2>2, MoveToSound, RaiseSound, PointFacts
  <1>2. CASE WriteTermIntent(c)
    <2>1. at = "termIntent" /\ Create(c, "termIntent", 0, "termCheck") /\ 0 \in Counts
      BY <1>0, <1>2, CutoverAssumption DEF WriteTermIntent, Counts
    <2>2. Writable("termIntent", 0)
      <3>1. SigtermDue
        BY <1>0, <2>1 DEF Knows, KnowsMode, KnowsRecovery, RecoverPoints, SigtermDue, Inv, CutoverInvariant,
           SignalFiles, Sound
      <3>. QED  BY <3>1 DEF Writable, Creatable
    <2>3. "termIntent" \notin files => sent["SIGTERM"] = 0
      BY <1>0 DEF Inv, CutoverInvariant, SignalFiles, Sound
    <2>4. "termIntent" \notin files /\ UNCHANGED sent /\ Knows(c, at, l)' /\ Sound("termIntent")'
            => Knows(c, "termCheck", l)'
      BY <2>1, <2>3 DEF Knows, KnowsMode, KnowsBaseline, KnowsSigint, KnowsSigterm,
         KnowsRecovery, KnowsLocked, RecoverPoints
    <2>5. "termIntent" \in FileNames \ {"sigIntent"} /\ "termCheck" \in Points \ Sending
      BY DEF FileNames, Receipts, Points, Sending
    <2>6. CASE "termIntent" \in files
      BY <1>0, <2>1, <2>6, RaiseSound DEF Create
    <2>7. CASE "termIntent" \notin files
      BY <1>0, <2>1, <2>2, <2>4, <2>5, <2>7, CreateSound
    <2>. QED  BY <2>6, <2>7
  <1>3. CASE TermCheck(c)
    <2>1. Knows(c, "terminate", l)
      BY <1>0, <1>3 DEF TermCheck, Knows, KnowsMode, KnowsBaseline, KnowsSigint, KnowsSigterm,
         KnowsRecovery, KnowsLocked, RecoverPoints
    <2>2. "terminate" \in Points /\ "termCheck" \in Terminating /\ "terminate" \notin Sending
      BY DEF Points, Sending, Terminating
    <2>. QED  BY <1>0, <1>3, <2>1, <2>2, MoveToSound, RaiseSound DEF TermCheck
  <1>4. CASE Terminate(c)
    <2>1. CASE ~ScorerAlive
      BY <1>0, <1>4, <2>1, RaiseSound DEF Terminate
    <2>2. CASE ScorerAlive
      <3>1. /\ at = "terminate" /\ sent' = [sent EXCEPT !["SIGTERM"] = @ + 1]
            /\ pending' \in {pending, pending \cup {"SIGTERM"}}
            /\ pc' = [pc EXCEPT ![c] = "termDispatched"]
            /\ UNCHANGED <<scorer, published, logged, residue, disposition, fileVars, local,
                           holder, faults>>
        BY <1>0, <1>4, <2>2 DEF Terminate, Send, Go
      <3>2. sent["SIGTERM"] = 0 /\ Sound("termIntent") /\ scorer # "gone"
        BY <1>0, <2>2, <3>1 DEF Knows, KnowsSigterm, ScorerAlive
      <3>3. sent'["SIGTERM"] = 1 /\ sent'["SIGINT"] = sent["SIGINT"] /\ sent' \in [{"SIGINT", "SIGTERM"} -> Nat]
        BY <1>0, <3>1, <3>2 DEF Inv, TypeOK
      <3>4. "termDispatched" \in Points \ Sending /\ {"terminate", "termDispatched"} \subseteq Terminating
        BY DEF Points, Sending, Terminating, Receipts
      <3>5. TypeOK'
        BY <1>0, <3>1, <3>3, <3>4 DEF Inv, TypeOK, fileVars
      <3>6. FilesGrow /\ ScorerGrows
        BY <1>0, <3>1, <3>2, <3>3 DEF FilesGrow, ScorerGrows, fileVars, Inv, TypeOK, Counts
      <3>7. "plan" \notin files /\ holder = Nobody
        BY <1>0, <3>2 DEF Inv, CutoverInvariant, PlanFiles, PlanFreezesScores
      <3>8. SharedFiles'
        <4>1. ScorerOrder' /\ BoundaryFiles'
          BY <1>0, <3>1 DEF Inv, CutoverInvariant, ScorerOrder, BoundaryFiles, Sound, fileVars
        <4>2. SignalFiles'
          BY <1>0, <3>1, <3>2, <3>3 DEF Inv, CutoverInvariant, SignalFiles, SigtermDue, Sound, fileVars
        <4>3. PlanFiles'
          BY <3>1, <3>7 DEF PlanFiles, PlanFreezesScores, PlanBindsBoundary, Sound, fileVars
        <4>. QED  BY <4>1, <4>2, <4>3 DEF SharedFiles
      <3>9. Knows(c, "termDispatched", l)'
        <4>1. /\ KnowsMode("termDispatched", l)' /\ KnowsRecovery("termDispatched", l)'
              /\ KnowsBaseline("termDispatched", l)'
          BY <1>0, <3>1 DEF Knows, KnowsMode, KnowsRecovery, KnowsBaseline, Sound, fileVars, RecoverPoints
        <4>2. /\ KnowsLocked(c, "termDispatched", l)' /\ KnowsSigint("termDispatched", l)'
              /\ KnowsSigterm("termDispatched", l)'
          BY <1>0, <3>1, <3>3 DEF Knows, KnowsLocked, KnowsSigint, KnowsSigterm
        <4>. QED  BY <4>1, <4>2 DEF Knows
      <3>10. local' = [local EXCEPT ![c] = l] /\ holder' = Nobody
        BY <1>0, <3>1, <3>7 DEF Inv, TypeOK
      <3>. QED
        BY <1>0, <3>1, <3>3, <3>4, <3>5, <3>6, <3>7, <3>8, <3>9, <3>10, StepSuffices
    <2>. QED  BY <2>1, <2>2
  <1>5. CASE WriteTermDispatched(c)
    <2>1. at = "termDispatched" /\ Create(c, "termDispatched", 0, "termComplete") /\ 0 \in Counts
      BY <1>0, <1>5, CutoverAssumption DEF WriteTermDispatched, Counts
    <2>2. Writable("termDispatched", 0)
      BY <1>0, <2>1 DEF Writable, Creatable, Knows, KnowsSigterm
    <2>3. Knows(c, at, l)' => Knows(c, "termComplete", l)'
      BY <2>1 DEF Knows, KnowsMode, KnowsBaseline, KnowsSigint, KnowsSigterm,
         KnowsRecovery, KnowsLocked, RecoverPoints
    <2>4. "termDispatched" \in FileNames \ {"sigIntent"}
      BY DEF FileNames, Receipts
    <2>. QED  BY <1>0, <2>1, <2>2, <2>3, <2>4, CreateSound, PointFacts
  <1>6. CASE TermComplete(c)
    <2>1. /\ at = "termComplete"
          /\ Raise(c) \/ MoveTo(c, "lock") \/ (scorer = "gone" /\ MoveTo(c, "termExit"))
      BY <1>0, <1>6 DEF TermComplete
    <2>2. Knows(c, "lock", l) /\ (scorer = "gone" => Knows(c, "termExit", l))
      BY <1>0, <2>1 DEF Knows, KnowsMode, KnowsBaseline, KnowsSigint, KnowsSigterm,
         KnowsRecovery, KnowsLocked, RecoverPoints
    <2>. QED  BY <1>0, <2>1, <2>2, MoveToSound, RaiseSound, PointFacts
  <1>7. CASE WriteTermExit(c)
    <2>1. at = "termExit" /\ Create(c, "termExit", 0, "lock") /\ 0 \in Counts
      BY <1>0, <1>7, CutoverAssumption DEF WriteTermExit, Counts
    <2>2. Writable("termExit", 0)
      BY <1>0, <2>1 DEF Writable, Creatable, Knows, KnowsSigint
    <2>3. Knows(c, at, l)' => Knows(c, "lock", l)'
      BY <2>1 DEF Knows, KnowsMode, KnowsBaseline, KnowsSigint, KnowsSigterm,
         KnowsRecovery, KnowsLocked, RecoverPoints
    <2>4. "termExit" \in FileNames \ {"sigIntent"}
      BY DEF FileNames, Receipts
    <2>. QED  BY <1>0, <2>1, <2>2, <2>3, <2>4, CreateSound, PointFacts
  <1>. QED  BY <1>1, <1>2, <1>3, <1>4, <1>5, <1>6, <1>7

\* The coordinator that takes the global lock finds the scorer gone; what is
\* frozen under it is what the signal's boundary says.
LEMMA LockSound ==
    ASSUME NEW c \in Coordinators, NEW at, NEW l, Acting(c, at, l), AcquireLock(c)
    PROVE  Inv'
  <1>0. Inv /\ at = pc[c] /\ l = local[c] /\ l \in LocalStates /\ Knows(c, at, l) /\ at = "lock"
    BY DEF Acting, AcquireLock
  <1> DEFINE point == CASE l.mode = "cutover" -> "freeze"
                        [] l.mode = "resume" -> "load"
                        [] l.mode = "recover" -> IF "plan" \in files THEN "load" ELSE "freeze"
  <1>1. CASE Raise(c)
    BY <1>0, <1>1, RaiseSound
  <1>2. CASE ~Raise(c)
    <2>1. /\ scorer = "gone" /\ holder = Nobody
          /\ l.mode = "recover" => "plan" \in files \/ ControlState(DispatchedPhase)
          /\ holder' = c /\ pc' = [pc EXCEPT ![c] = point]
          /\ UNCHANGED <<scorerVars, fileVars, local, sent, faults>>
      BY <1>0, <1>2 DEF AcquireLock, Go
    <2>2. l.mode \in Modes
      BY <1>0 DEF LocalStates
    <2>3. /\ point \in {"freeze", "load"}
          /\ point = "load" => l.mode = "resume" \/ (l.mode = "recover" /\ "plan" \in files)
          /\ point = "freeze" => l.mode = "cutover" \/ (l.mode = "recover" /\ "plan" \notin files)
      BY <2>2 DEF Modes
    <2> HIDE DEF point
    <2>4. l.mode = "recover" /\ "plan" \notin files => "termDispatched" \in files
      BY <2>1 DEF ControlState, DispatchedPhase, PhaseFiles
    <2>5. ASSUME NEW p \in {"freeze", "load"}, p = point  PROVE Inv'
      <3>1. Knows(c, p, l)'
        <4>1. UNCHANGED <<scorerVars, files, torn, base, sigBoundary, sent>>
          BY <2>1 DEF fileVars
        <4>2. KnowsMode(p, l)'
          BY <1>0, <2>3, <2>5, <4>1 DEF Knows, KnowsMode, RecoverPoints
        <4>3. KnowsBaseline(p, l)'
          BY <1>0, <2>3, <2>5, <4>1 DEF Knows, KnowsBaseline, Sound
        <4>4. KnowsRecovery(p, l)'
          BY <1>0, <2>3, <2>5, <4>1 DEF Knows, KnowsRecovery, Sound
        <4>5. KnowsSigint(p, l)' /\ KnowsSigterm(p, l)'
          BY <1>0, <2>3, <2>4, <2>5, <4>1 DEF Knows, KnowsRecovery, KnowsSigint, KnowsSigterm, Sound,
             Inv, CutoverInvariant, SignalFiles
        <4>6. KnowsLocked(c, p, l)'
          BY <2>1, <2>3, <2>5 DEF KnowsLocked
        <4>. QED  BY <4>2, <4>3, <4>4, <4>5, <4>6 DEF Knows
      <3>2. TypeOK'
        BY <1>0, <2>1, <2>5, PointFacts DEF Inv, TypeOK, scorerVars, fileVars
      <3>3. FilesGrow /\ ScorerGrows
        BY <1>0, <2>1 DEF FilesGrow, ScorerGrows, scorerVars, fileVars, Inv, TypeOK, Counts
      <3>4. SharedFiles'
        BY <1>0, <2>1 DEF SharedFiles, Inv, CutoverInvariant, ScorerOrder, SignalFiles, BoundaryFiles,
           PlanFiles, PlanFreezesScores, PlanBindsBoundary, SigtermDue, Sound, scorerVars, fileVars
      <3>5. /\ \A d \in Coordinators \ {c} : holder' = d <=> holder = d
            /\ holder' # Nobody => scorer' = "gone"
            /\ local' = [local EXCEPT ![c] = l] /\ sent' = sent
        BY <1>0, <2>1, CutoverAssumption DEF Inv, TypeOK, scorerVars
      <3>. QED  BY <1>0, <2>1, <2>5, <3>1, <3>2, <3>3, <3>4, <3>5, StepSuffices, PointFacts
    <2>. QED  BY <2>3, <2>5
  <1>. QED  BY <1>1, <1>2

\* Under the lock: a plan is run, or the boundary that the dispatched signal
\* binds is frozen, receipted and planned.
LEMMA LockedSound ==
    ASSUME NEW c \in Coordinators, NEW at, NEW l, Acting(c, at, l),
           Load(c) \/ Freeze(c) \/ WriteReceipt(c) \/ WritePlan(c) \/ RunEnds(c)
    PROVE  Inv'
  <1>0. Inv /\ at = pc[c] /\ l = local[c] /\ l \in LocalStates /\ Knows(c, at, l)
    BY DEF Acting
  <1>1. CASE Load(c)
    <2> DEFINE m == [l EXCEPT !.boundary = sigBoundary, !.base = base[sigBoundary]]
    <2>1. m \in LocalStates /\ m.mode = l.mode /\ m.base = base[sigBoundary] /\ m.boundary = sigBoundary
      BY <1>0 DEF LocalStates, Inv, TypeOK, Receipts
    <2>2. /\ at = "load"
          /\ \/ Raise(c)
             \/ "plan" \in files /\ MoveTo(c, "run")
             \/ "plan" \notin files /\ Sound("intent") /\ Sound("dispatched") /\ Move(c, "complete", m)
      BY <1>0, <1>1 DEF Load
    <2>3. sigBoundary \in {"observed", "resumed"} /\ ("dispatched" \in files => sent["SIGINT"] = 1)
      BY <1>0 DEF Inv, TypeOK, CutoverInvariant, SignalFiles
    <2> HIDE DEF m
    <2>4. "plan" \in files => Knows(c, "run", l)
      BY <1>0, <2>2 DEF Knows, KnowsMode, KnowsBaseline, KnowsSigint, KnowsSigterm,
         KnowsRecovery, KnowsLocked, RecoverPoints
    <2>5. "plan" \notin files /\ Sound("intent") /\ Sound("dispatched") => Knows(c, "complete", m)
      BY <1>0, <2>1, <2>2, <2>3 DEF Sound, Knows, KnowsMode, KnowsBaseline, KnowsSigint, KnowsSigterm,
         KnowsRecovery, KnowsLocked, RecoverPoints
    <2>. QED  BY <1>0, <2>1, <2>2, <2>4, <2>5, MoveSound, MoveToSound, RaiseSound, PointFacts
  <1>2. CASE Freeze(c)
    <2>1. at = "freeze" /\ (Raise(c) \/ (~residue /\ published = l.base + 1 /\ MoveTo(c, "receipt")))
      BY <1>0, <1>2 DEF Freeze
    <2>2. ~residue /\ published = l.base + 1 => Knows(c, "receipt", l)
      BY <1>0, <2>1 DEF Knows, KnowsMode, KnowsBaseline, KnowsSigint, KnowsSigterm,
         KnowsRecovery, KnowsLocked, RecoverPoints
    <2>. QED  BY <1>0, <2>1, <2>2, MoveToSound, RaiseSound, PointFacts
  <1>3. CASE WriteReceipt(c)
    <2>1. /\ at = "receipt" /\ l.base \in Counts
          /\ Create(c, "receipt", l.base, "plan") \/ Ensure(c, "receipt", l.base, "plan")
      BY <1>0, <1>3 DEF WriteReceipt, LocalStates
    <2>2. Writable("receipt", l.base)
      BY DEF Writable, Creatable
    <2>3. /\ Knows(c, at, l)' /\ Sound("receipt")' => Knows(c, "plan", l)'
          /\ Sound("receipt") => Knows(c, "plan", l)
      BY <1>0, <2>1 DEF Knows, KnowsMode, KnowsBaseline, KnowsSigint, KnowsSigterm,
         KnowsRecovery, KnowsLocked, RecoverPoints
    <2>4. "receipt" \in FileNames \ {"sigIntent"}
      BY DEF FileNames, Receipts
    <2>5. CASE Create(c, "receipt", l.base, "plan")
      BY <1>0, <2>1, <2>2, <2>3, <2>4, <2>5, CreateSound, PointFacts
    <2>6. CASE Ensure(c, "receipt", l.base, "plan")
      BY <1>0, <2>1, <2>2, <2>3, <2>4, <2>6, EnsureSound, PointFacts
    <2>. QED  BY <2>1, <2>5, <2>6
  <1>4. CASE WritePlan(c)
    <2>1. CASE Raise(c)
      BY <1>0, <2>1, RaiseSound
    <2>2. CASE ~Raise(c)
      <3>1. /\ at = "plan" /\ published + 2 <= EpisodeCount
            /\ l.mode = "recover" => ControlState("cutover")
            /\ Create(c, "plan", published, "run")
        BY <1>0, <1>4, <2>2 DEF WritePlan
      <3>2. /\ ~residue /\ published = l.base + 1 /\ Sound("receipt") /\ scorer = "gone"
            /\ sent["SIGINT"] = 1 /\ published \in Counts /\ l.mode \in Modes
        BY <1>0, <3>1, CutoverAssumption DEF Knows, KnowsLocked, KnowsSigint, Inv, CutoverInvariant, TypeOK,
           LocalStates
      <3>3. l.base = base[IF sent["SIGTERM"] > 0 THEN "recBoundary" ELSE sigBoundary]
        <4>1. /\ SignalFiles /\ BoundaryFiles /\ base \in [Receipts -> Counts]
              /\ published \in Counts /\ logged \in Counts /\ logged <= published
              /\ sigBoundary \in {"observed", "resumed"} /\ l.base \in Counts
          BY <1>0 DEF Inv, CutoverInvariant, TypeOK, ScorerOrder, LocalStates
        <4>2. {"intent", "observed", "resumed", "recIntent", "recBoundary"} \subseteq Receipts
          BY DEF Receipts
        <4>3. sent["SIGTERM"] > 0 =>
                 /\ sigBoundary = "observed" /\ Sound("recBoundary")
                 /\ base["observed"] < base["recBoundary"] /\ base["recBoundary"] < published
                 /\ base["intent"] = base["observed"]
          BY <4>1, <4>2 DEF SignalFiles, SigtermDue, BoundaryFiles, Sound, Counts
        <4>4. Sound(sigBoundary) /\ base[sigBoundary] < published /\ Sound("intent")
                /\ base["intent"] <= base[sigBoundary]
          BY <3>2, <4>1, <4>2 DEF SignalFiles, BoundaryFiles, Counts
        <4>5. CASE l.mode = "cutover"
          <5>1. l.base = base["intent"]
            BY <1>0, <3>1, <4>5 DEF Knows, KnowsBaseline
          <5>2. base["intent"] \in Nat /\ base["recBoundary"] \in Nat /\ base[sigBoundary] \in Nat
                /\ published \in Nat /\ l.base \in Nat
            BY <4>1, <4>2, <5>1, CutoverAssumption DEF Counts
          <5>3. base["intent"] = base[sigBoundary]
            BY <3>2, <4>4, <5>1, <5>2
          <5>4. ~(sent["SIGTERM"] > 0)
            BY <3>2, <4>3, <5>1, <5>2
          <5>. QED  BY <5>1, <5>3, <5>4
        <4>6. CASE l.mode = "resume"
          <5>1. l.base = base[sigBoundary]
            BY <1>0, <3>1, <4>6 DEF Knows, KnowsLocked
          <5>2. base["recBoundary"] \in Nat /\ base[sigBoundary] \in Nat /\ published \in Nat
            BY <4>1, <4>2, CutoverAssumption DEF Counts
          <5>3. ~(sent["SIGTERM"] > 0)
            BY <3>2, <4>3, <5>1, <5>2
          <5>. QED  BY <5>1, <5>3
        <4>7. CASE l.mode = "recover"
          <5>1. l.base = base["recIntent"] /\ Sound("recBoundary") /\ sent["SIGTERM"] = 1
            BY <1>0, <3>1, <4>7 DEF Knows, KnowsRecovery, KnowsSigterm, RecoverPoints
          <5>2. base["recBoundary"] = base["recIntent"]
            BY <4>1, <5>1 DEF BoundaryFiles
          <5>. QED  BY <5>1, <5>2
        <4>. QED  BY <3>2, <4>5, <4>6, <4>7 DEF Modes
      <3>4. Writable("plan", published)
        BY <1>0, <3>1, <3>2, <3>3 DEF Writable, Creatable, LocalStates, Counts
      <3>5. Knows(c, at, l)' /\ Sound("plan")' => Knows(c, "run", l)'
        BY <3>1 DEF Knows, KnowsMode, KnowsBaseline, KnowsSigint, KnowsSigterm,
         KnowsRecovery, KnowsLocked, RecoverPoints
      <3>6. "plan" \in FileNames \ {"sigIntent"}
        BY DEF FileNames, Receipts
      <3>. QED  BY <1>0, <3>1, <3>2, <3>4, <3>5, <3>6, CreateSound, PointFacts
    <2>. QED  BY <2>1, <2>2
  <1>5. CASE RunEnds(c)
    <2>1. CASE Raise(c)
      BY <1>0, <2>1, RaiseSound
    <2>2. CASE ~Raise(c)
      <3>1. Leave(c) /\ UNCHANGED <<scorerVars, fileVars, sent, faults>>
        BY <1>5, <2>2 DEF RunEnds
      <3>2. TypeOK'
        BY <1>0, <3>1, CutoverAssumption, PointFacts
        DEF Inv, TypeOK, Leave, Idle, Modes, Counts, scorerVars, fileVars
      <3>3. FilesGrow /\ SharedFiles'
        BY <1>0, <3>1 DEF FilesGrow, SharedFiles, Inv, CutoverInvariant, ScorerOrder, SignalFiles,
           BoundaryFiles, PlanFiles, PlanFreezesScores, PlanBindsBoundary, SigtermDue, Sound, scorerVars,
           fileVars
      <3>. QED  BY <1>0, <3>1, <3>2, <3>3, LeaveSound
    <2>. QED  BY <2>1, <2>2
  <1>. QED  BY <1>1, <1>2, <1>3, <1>4, <1>5

\* A coordinator dies wherever it is; the receipt it was writing may stay
\* behind, torn.
LEMMA KilledSound ==
    ASSUME NEW c \in Coordinators, NEW at, NEW l, Acting(c, at, l), CoordinatorKilled(c)
    PROVE  Inv'
  <1>0. Inv /\ at = pc[c] /\ l = local[c] /\ l \in LocalStates /\ Knows(c, at, l)
    BY DEF Acting
  <1>1. /\ at # "off" /\ faults < MaxFaults /\ faults' = faults + 1 /\ Leave(c)
        /\ UNCHANGED <<scorerVars, base, recOffset, sigBoundary, sent>>
        /\ \/ UNCHANGED <<files, torn>>
           \/ /\ at \in Receipts \ files
              /\ files' = files \cup {at} /\ torn' = torn \cup {at}
    BY <1>0 DEF CoordinatorKilled
  <1>2. TypeOK'
    <2>1. files' \subseteq FileNames /\ torn' \subseteq files' \cap Receipts
      BY <1>0, <1>1 DEF Inv, TypeOK, FileNames
    <2>2. faults' \in 0..MaxFaults
      BY <1>0, <1>1, CutoverAssumption DEF Inv, TypeOK
    <2>3. /\ pc' \in [Coordinators -> Points] /\ local' \in [Coordinators -> LocalStates]
          /\ holder' \in Coordinators \cup {Nobody}
      BY <1>0, <1>1, PointFacts, CutoverAssumption DEF Leave, Inv, TypeOK, Idle, LocalStates, Modes, Counts
    <2>. QED  BY <1>0, <1>1, <2>1, <2>2, <2>3 DEF Inv, TypeOK, LocalStates, scorerVars
  <1>3. FilesGrow /\ SharedFiles'
    <2>1. CASE UNCHANGED <<files, torn>>
      BY <1>0, <1>1, <2>1 DEF FilesGrow, SharedFiles, Inv, CutoverInvariant, ScorerOrder, SignalFiles,
           BoundaryFiles, PlanFiles, PlanFreezesScores, PlanBindsBoundary, SigtermDue, Sound, scorerVars
    <2>2. CASE at \in Receipts \ files /\ files' = files \cup {at} /\ torn' = torn \cup {at}
      <3>1. Creatable(at)
        <4>1. at = "dispatched" => sent["SIGINT"] = 1
          BY <1>0 DEF Knows, KnowsSigint
        <4>2. at = "termIntent" => SigtermDue
          BY <1>0 DEF Knows, KnowsMode, KnowsRecovery, RecoverPoints, SigtermDue, Inv, CutoverInvariant,
             SignalFiles, Sound
        <4>3. at = "termDispatched" => sent["SIGTERM"] = 1
          BY <1>0 DEF Knows, KnowsSigterm
        <4>4. at \in {"exited", "interrupt", "termExit"} => scorer = "gone"
          BY <1>0 DEF Knows, KnowsSigint
        <4>5. at = "plan" => scorer = "gone" /\ ~residue /\ Sound("receipt") /\ sent["SIGINT"] = 1
          BY <1>0, CutoverAssumption DEF Knows, KnowsSigint, KnowsLocked, Inv, CutoverInvariant
        <4>. QED  BY <4>1, <4>2, <4>3, <4>4, <4>5 DEF Creatable
      <3>2. NewFile(at, 0) /\ at \in torn' /\ 0 \in Counts
        BY <1>1, <2>2, CutoverAssumption DEF NewFile, FileNames, Counts
      <3>. QED  BY <1>0, <1>1, <1>2, <3>1, <3>2, NewFileSound
    <2>. QED  BY <1>1, <2>1, <2>2
  <1>. QED  BY <1>0, <1>1, <1>2, <1>3, LeaveSound

-----------------------------------------------------------------------------
(* Theorems                                                                *)

\* The inductive invariant holds at first.
LEMMA InvInit == Init => Inv
  <1> SUFFICES ASSUME Init  PROVE Inv
    OBVIOUS
  <1>1. TypeOK
    <2>1. residue \in BOOLEAN
      BY Zenon DEF Init
    <2>2. Idle \in LocalStates
      BY CutoverAssumption DEF Idle, LocalStates, Modes, Counts
    <2>3. local \in [Coordinators -> LocalStates]
      BY <2>2 DEF Init
    <2>4. /\ base \in [Receipts -> Counts] /\ pc \in [Coordinators -> Points]
          /\ sent \in [{"SIGINT", "SIGTERM"} -> Nat]
      BY CutoverAssumption DEF Init, Counts, Points
    <2>5. /\ scorer \in ScorerPoints /\ published \in Counts /\ logged \in Counts /\ recOffset \in Counts
          /\ faults \in 0..MaxFaults
      BY CutoverAssumption DEF Init, Counts, ScorerPoints
    <2>. QED  BY <2>1, <2>3, <2>4, <2>5 DEF Init, TypeOK, LocalStates
  <1>2. SharedFiles
    BY CutoverAssumption DEF Init, SharedFiles, ScorerOrder, SignalFiles, BoundaryFiles, PlanFiles,
       PlanFreezesScores, PlanBindsBoundary, Sound
  <1>3. ASSUME NEW c \in Coordinators  PROVE Knows(c, "off", Idle)
    <2>1. Idle.mode = "cutover" /\ Idle.boundary = "observed"
      BY DEF Idle
    <2>. QED  BY <2>1, CutoverAssumption DEF Init, Knows, KnowsMode, KnowsBaseline, KnowsSigint, KnowsSigterm,
         KnowsRecovery, KnowsLocked, RecoverPoints
  <1>4. \A c \in Coordinators : Knows(c, pc[c], local[c])
    <2>1. ASSUME NEW c \in Coordinators  PROVE pc[c] = "off" /\ local[c] = Idle
      BY DEF Init
    <2>. QED  BY <1>3, <2>1
  <1>5. OneSender /\ (holder # Nobody => scorer = "gone")
    BY DEF Init, OneSender, Sending, Terminating
  <1>. QED  BY <1>1, <1>2, <1>4, <1>5 DEF Inv, CutoverInvariant, SharedFiles

\* The inductive step.
LEMMA InvStep == Inv /\ [Next]_vars => Inv'
  <1> SUFFICES ASSUME Inv, [Next]_vars  PROVE Inv'
    OBVIOUS
  <1>1. CASE ScorerNext
    BY <1>1, ScorerSound
  <1>2. ASSUME NEW c \in Coordinators, CoordinatorNext(c)  PROVE Inv'
    <2>1. Acting(c, pc[c], local[c])
      BY ActingFacts
    <2>2. CASE StartCutover(c) \/ StartResume(c) \/ StartRecover(c)
      BY <2>1, <2>2, StartSound
    <2>3. CASE BaselineBefore(c) \/ BaselineList(c) \/ BaselineAfter(c) \/ MakeRoot(c) \/ WriteIntent(c)
      BY <2>1, <2>3, BaselineSound
    <2>4. CASE BoundaryLine(c) \/ WaitEnds(c) \/ WriteBoundary(c)
      BY <2>1, <2>4, BoundarySound
    <2>5. CASE Dispatch(c) \/ WriteSigIntent(c) \/ CheckIdentity(c) \/ KillSerial(c) \/ WriteDispatched(c)
      BY <2>1, <2>5, InterruptSound
    <2>6. CASE Complete(c) \/ WriteExited(c) \/ WriteInterrupt(c)
      BY <2>1, <2>6, CompleteSound
    <2>7. CASE \/ WriteIneffective(c) \/ Rebase(c) \/ WriteRecIntent(c) \/ Rebound(c)
               \/ WriteRecBoundary(c) \/ MakeRecAttempts(c)
      BY <2>1, <2>7, RecoverySound
    <2>8. CASE \/ Term(c) \/ WriteTermIntent(c) \/ TermCheck(c) \/ Terminate(c)
               \/ WriteTermDispatched(c) \/ TermComplete(c) \/ WriteTermExit(c)
      BY <2>1, <2>8, SigtermSound
    <2>9. CASE AcquireLock(c)
      BY <2>1, <2>9, LockSound
    <2>10. CASE Load(c) \/ Freeze(c) \/ WriteReceipt(c) \/ WritePlan(c) \/ RunEnds(c)
      BY <2>1, <2>10, LockedSound
    <2>11. CASE CoordinatorKilled(c)
      BY <2>1, <2>11, KilledSound
    <2>. QED
      BY <1>2, <2>2, <2>3, <2>4, <2>5, <2>6, <2>7, <2>8, <2>9, <2>10, <2>11 DEF CoordinatorNext
  <1>3. CASE UNCHANGED vars
    BY <1>3 DEF vars, Inv, TypeOK, CutoverInvariant, ScorerOrder, SignalFiles, BoundaryFiles, PlanFiles,
       PlanFreezesScores, PlanBindsBoundary, SigtermDue, Sound, OneSender, Knows, KnowsMode, KnowsBaseline, KnowsSigint, KnowsSigterm,
         KnowsRecovery, KnowsLocked, RecoverPoints
  <1>. QED  BY <1>1, <1>2, <1>3 DEF Next

\* The inductive invariant that the properties below follow from, on every
\* schedule of the scorer and any number of coordinators.
THEOREM CutoverInvariantHolds == Spec => []Inv
  <1>. QED  BY InvInit, InvStep, PTL DEF Spec

\* The types of the cutover's state, the log position and counts within the
\* manifest, for every set of coordinators and every bound.
THEOREM CutoverTypesHold == Spec => []TypeOK
  <1>1. Inv => TypeOK
    BY DEF Inv
  <1>. QED  BY <1>1, CutoverInvariantHolds, PTL

\* However many coordinators run, die and are restarted in whatever modes, the
\* scorer is sent SIGINT at most once and SIGTERM at most once.
THEOREM EachSignalOnce == Spec => []SignalsOnce
  <1>1. Inv => SignalsOnce
    BY DEF Inv, CutoverInvariant, SignalFiles, SignalsOnce
  <1>. QED  BY <1>1, CutoverInvariantHolds, PTL

\* The chain of receipts on disk is truthful whoever wrote it and wherever its
\* writer died: a signal was sent only after its readable intent, a dispatch
\* receipt means it was sent, an exit receipt that the scorer is gone, and
\* SIGTERM follows only an ignored SIGINT.
THEOREM ReceiptsAreTruthful == Spec => []ReceiptsTruthful
  <1>1. Inv => ReceiptsTruthful
    BY DEF Inv, CutoverInvariant, SignalFiles, SigtermDue, TypeOK, Sound, ReceiptsTruthful
  <1>. QED  BY <1>1, CutoverInvariantHolds, PTL

\* A signal is only sent after the line of the boundary its intent binds is in
\* the scorer's log and the boundary's receipt is on disk and readable, also
\* when the coordinator that sends it is not the one that saw the boundary.
THEOREM SignalsFollowBoundaries == Spec => []BoundaryBeforeSignal
  <1>1. Inv => BoundaryBeforeSignal
    <2> SUFFICES ASSUME Inv  PROVE BoundaryBeforeSignal
      OBVIOUS
    <2>1. SignalFiles /\ BoundaryFiles /\ TypeOK
      BY DEF Inv, CutoverInvariant
    <2>2. sent["SIGINT"] > 0 => Sound(sigBoundary) /\ base[sigBoundary] < logged
      BY <2>1 DEF SignalFiles, BoundaryFiles, TypeOK
    <2>3. sent["SIGTERM"] > 0 => Sound("recBoundary") /\ base["recBoundary"] < logged
      BY <2>1 DEF SignalFiles, SigtermDue, BoundaryFiles, Sound
    <2>4. {"observed", "resumed", "recBoundary"} \subseteq Receipts
      BY DEF Receipts
    <2>. QED  BY <2>1, <2>2, <2>3, <2>4, CutoverAssumption DEF BoundaryBeforeSignal, TypeOK, Counts
  <1>. QED  BY <1>1, CutoverInvariantHolds, PTL

\* While a coordinator holds the global lock, and so while it runs a plan, the
\* serial scorer and its wrapper are gone.
THEOREM LockExcludes == Spec => []LockExcludesScorer
  <1>1. Inv => LockExcludesScorer
    BY DEF Inv, CutoverInvariant, Knows, KnowsLocked, LockExcludesScorer
  <1>. QED  BY <1>1, CutoverInvariantHolds, PTL

\* Once a plan exists the scorer is gone and leaves no residue, and the plan
\* counts exactly the sidecars there are, with two nonempty shards remaining.
THEOREM PlansFreeze == Spec => []PlanFreezesScores
  <1>1. Inv => PlanFreezesScores
    BY DEF Inv, CutoverInvariant, PlanFiles
  <1>. QED  BY <1>1, CutoverInvariantHolds, PTL

\* What a plan freezes is the baseline and the boundary episode of the signal
\* that ended the scorer, whether cutover, resume or recovery wrote it.
THEOREM PlansBindBoundaries == Spec => []PlanBindsBoundary
  <1>1. Inv => PlanBindsBoundary
    BY DEF Inv, CutoverInvariant, PlanFiles
  <1>. QED  BY <1>1, CutoverInvariantHolds, PTL

=============================================================================
