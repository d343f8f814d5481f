---------------------------------- MODULE PostScore ----------------------------------
(***************************************************************************)
(* After scoring: the causal and sensitivity producers of                  *)
(* locked_test_causal.py, the cost receipt of locked_test_postscore.py and *)
(* the final report of locked_test_evaluate.py, run by an operator in any  *)
(* order, several at a time, killed and started again.                     *)
(*                                                                         *)
(* The file system is one function from the paths that exist to what they  *)
(* hold.  A file is created empty (Torn) and filled in a second step; a    *)
(* directory is renamed into place in one.  A digest is the content it     *)
(* addresses.  The GPU is external: a measurement is any member of a set.  *)
(***************************************************************************)
EXTENDS CausalEvidence

CONSTANTS Procs,        \* operator shells
          Roots,        \* --output-root arguments
          Predictions,  \* prediction receipts over the same frozen states
          States,       \* the candidate states of the feature cohort
          CoreResults,  \* what the GPU may measure for a patch, as cores
          EffectResults, \* and for a random control
          RawWorlds,    \* what the raw outcomes may turn out to be
          MaxDeaths     \* bound: killed processes

VARIABLES files,     \* [path -> content], over the paths that exist
          proc,      \* each shell's process
          measured,  \* history: what causal runs measured, for which inputs
          opened,    \* history: on which receipts raw outcomes were opened
          raw,       \* the raw outcomes, Unavailable as long as nobody has looked
          deaths

vars == <<files, proc, measured, opened, raw, deaths>>

Plan     == BuildPairPlan(States)
Pairs    == 1 .. Len(Plan)
Cells    == {s.cell : s \in States}
Producers == {"causal", "sensitivity"}

ASSUME PostScoreAssumption ==
    /\ MaxDeaths \in Nat
    /\ IsCohort(States) /\ EnoughStates(States)
    /\ Unavailable \notin CoreResults /\ \A core \in CoreResults : core.ratio \in Nat

-----------------------------------------------------------------------------
(* Sources and paths. *)

\* Mutant: the causal source does not name the prediction receipt.
CausalSourceUnbound(predictions) == [kind |-> "causal", controls |-> Controls]

\* The source record that _load_inputs binds into plan, cores, evidence and receipt.
CausalSource(predictions) ==
    [kind |-> "causal", predictions |-> predictions, controls |-> Controls]

SensitivitySource(predictions, causal) ==
    [kind |-> "sensitivity", predictions |-> predictions, causal |-> causal]

Source(j) == IF j.cmd = "causal" THEN CausalSource(j.predictions)
             ELSE SensitivitySource(j.predictions, j.causal)

Path(cmd, root, kind, of) == <<cmd, root, kind, of>>
PlanPath(j)        == Path(j.cmd, j.root, "plan", 0)
CorePath(j)        == Path(j.cmd, j.root, "core", j.pair)
ChunkPath(j, k)    == Path(j.cmd, j.root, "chunk", <<j.pair, k>>)
EvidencePath(j, e) == Path(j.cmd, j.root, "evidence", e)
PointerPath(j)     == Path(j.cmd, j.root, "pointer", j.pair)
ReceiptPath(cmd, root, receipt) == Path(cmd, root, "receipt", receipt)

\* What a path may hold: a directory without its file, a file not yet written, a whole one.
EmptyDir         == [state |-> "empty"]
Torn             == [state |-> "torn"]
Holding(content) == [state |-> "whole", content |-> content]

Exists(path)   == path \in DOMAIN files
Complete(path) == Exists(path) /\ files[path].state = "whole"
Content(path)  == files[path].content
Published(cmd) == {path[4] : path \in {q \in DOMAIN files :
                      q[1] = cmd /\ q[3] = "receipt" /\ Complete(q)}}

Put(path, held) ==
    files' = [f \in DOMAIN files \cup {path} |-> IF f = path THEN held ELSE files[f]]

-----------------------------------------------------------------------------
(* Processes. *)

\* A process that is over keeps nothing; `alone` is history: whether it has had its
\* root to itself.
Over(how) == [at |-> how, step |-> "ready"]
Job(cmd, root, predictions, causal) ==
    [cmd |-> cmd, root |-> root, predictions |-> predictions, causal |-> causal,
     at |-> "plan", step |-> "ready", pair |-> 1, core |-> Unavailable, controls |-> << >>,
     chunk |-> 0, evidence |-> Unavailable, rows |-> << >>, alone |-> TRUE]

Active(p)      == proc[p].at \notin {"idle", "refused"}
SharesRoot(p, j) == Active(p) /\ proc[p].cmd = j.cmd /\ proc[p].root = j.root

Ready(p, at) == proc[p].at = at /\ proc[p].step = "ready"
Goto(p, j)   == proc' = [proc EXCEPT ![p] = j]
At(j, at)    == [j EXCEPT !.at = at, !.step = "ready"]
Refuse(p)    == Goto(p, Over("refused")) /\ UNCHANGED files
Quiet        == UNCHANGED <<measured, opened, raw, deaths>>

NextPair(j, evidence) ==
    [j EXCEPT !.rows = Append(@, evidence), !.pair = @ + 1, !.core = Unavailable,
              !.controls = << >>, !.evidence = Unavailable, !.step = "ready",
              !.at = IF j.pair = Len(Plan) THEN "publish" ELSE "pair"]

\* What plan.json pins besides the pairs, which are the same in every run.
PlanPayload(j) ==
    [source |-> Source(j),
     evidence |-> IF j.cmd = "causal" THEN << >> ELSE j.causal.evidence]

\* The file a job is about to write, and how it goes on after that.
Target(j) ==
    CASE j.at = "plan" ->
           [path |-> PlanPath(j), content |-> PlanPayload(j), next |-> At(j, "pair")]
      [] j.at = "saveCore" ->
           [path |-> CorePath(j), next |-> At(j, "gpu"),
            content |-> [source |-> Source(j), index |-> j.pair, result |-> j.core]]
      [] j.at = "saveChunk" ->
           [path |-> ChunkPath(j, j.chunk), content |-> j.controls[j.chunk],
            next |-> [At(j, "gpu") EXCEPT !.chunk = 0]]
      [] j.at = "evidence" ->
           [path |-> EvidencePath(j, j.evidence), content |-> j.evidence,
            next |-> At(j, "pointer")]
      [] j.at = "pointer" ->
           [path |-> PointerPath(j), content |-> j.evidence, next |-> NextPair(j, j.evidence)]
      [] j.at = "open" ->
           [path |-> j.path, content |-> j.content, next |-> Over("idle")]

\* _write_or_verify_json: the test for existence is a step of its own, the creation
\* another, so that a second producer can come in between.
WriteOrVerify(p, j) ==
    LET t == Target(j) IN
    /\ Goto(p, IF ~Exists(t.path) THEN [j EXCEPT !.step = "create"]
               ELSE IF files[t.path] = Holding(t.content) THEN t.next
               ELSE Over("refused"))
    /\ UNCHANGED files

\* _write_exclusive: the O_EXCL creation, and the write.
Create(p) ==
    LET t == Target(proc[p]) IN
    /\ proc[p].step = "create"
    /\ IF Exists(t.path) THEN Refuse(p)
       ELSE Put(t.path, Torn) /\ Goto(p, [proc[p] EXCEPT !.step = "write"])
    /\ Quiet

Write(p) ==
    LET t == Target(proc[p]) IN
    /\ proc[p].step = "write"
    /\ Put(t.path, Holding(t.content))
    /\ Goto(p, t.next)
    /\ Quiet

-----------------------------------------------------------------------------
(* The producers. *)

Launch(p, j) ==
    /\ ~Active(p)
    /\ LET others == {q \in Procs \ {p} : SharesRoot(q, j)}
       IN proc' = [q \in Procs |->
                     IF q = p THEN [j EXCEPT !.alone = others = {}]
                     ELSE IF q \in others THEN [proc[q] EXCEPT !.alone = FALSE]
                     ELSE proc[q]]
    /\ UNCHANGED files
    /\ Quiet

\* run_causal after _load_inputs.
StartCausal(p) ==
    \E root \in Roots, q \in Predictions :
        Launch(p, Job("causal", root, q, Unavailable))

\* run_sensitivity after _load_inputs and _load_causal_receipt: the receipt must be
\* published, and stand on the same source.
StartSensitivity(p) ==
    \E root \in Roots, q \in Predictions, c \in Published("causal") :
        /\ c.source = CausalSource(q)
        /\ Launch(p, Job("sensitivity", root, q, c))

WritePlan(p) == Ready(p, "plan") /\ WriteOrVerify(p, proc[p]) /\ Quiet

EvidenceUsable(j, evidence) ==
    evidence.source = Source(j) /\ evidence.pair.index = j.pair

PairIsValid(j) ==
    IF j.cmd = "causal" THEN InvalidReason(Plan[j.pair]) = "none"
    ELSE j.causal.evidence[j.pair].pair.valid

\* _load_evidence_checkpoint, and the slots that never run.
LoadPair(p) ==
    LET j       == proc[p]
        pointer == Content(PointerPath(j))
        slot    == Plan[j.pair]
    IN
    /\ Ready(p, "pair")
    /\ Goto(p,
         IF Exists(PointerPath(j))
           THEN IF /\ Complete(PointerPath(j)) /\ Complete(EvidencePath(j, pointer))
                   /\ EvidenceUsable(j, pointer)
                  THEN NextPair(j, pointer) ELSE Over("refused")
         ELSE IF PairIsValid(j) THEN At(j, IF j.cmd = "causal" THEN "core" ELSE "doses")
         ELSE [At(j, "evidence") EXCEPT !.evidence =
                 IF j.cmd = "causal" THEN InvalidEvidence(Source(j), j.pair, slot)
                 ELSE InvalidDoses(Source(j), j.pair, slot,
                                   j.causal.evidence[j.pair].pair.reason)])
    /\ UNCHANGED files /\ Quiet

CoreUsable(j, core) == core.source = Source(j) /\ core.index = j.pair

\* _run_causal_pair: an earlier core is taken over, bound to its source; the chunks
\* carry no source.
LoadCore(p) ==
    LET j == proc[p]
        core == Content(CorePath(j))
    IN
    /\ Ready(p, "core")
    /\ Goto(p, IF ~Exists(CorePath(j)) THEN At(j, "chunks")
               ELSE IF Complete(CorePath(j)) /\ CoreUsable(j, core)
                 THEN [At(j, "chunks") EXCEPT !.core = core.result]
                 ELSE Over("refused"))
    /\ UNCHANGED files /\ Quiet

\* _load_random_progress.
LoadChunks(p) ==
    LET j    == proc[p]
        here == {k \in 1 .. Controls : Exists(ChunkPath(j, k))}
    IN
    /\ Ready(p, "chunks")
    /\ Goto(p, IF \E k \in here : ~Complete(ChunkPath(j, k)) THEN Over("refused")
               ELSE [At(j, "gpu") EXCEPT !.controls = [k \in here |-> Content(ChunkPath(j, k))]])
    /\ UNCHANGED files /\ Quiet

Measure(j, part, value) ==
    measured' = measured \cup
        {[predictions |-> j.predictions, pair |-> j.pair,
          part |-> part, value |-> value]}

\* The core: selected patch, manifold check and matched control in one checkpoint.
MeasureCore(p) ==
    LET j == proc[p] IN
    /\ Ready(p, "gpu") /\ j.core = Unavailable
    /\ \E result \in CoreResults :
        /\ Measure(j, 0, result)
        /\ WriteOrVerify(p, [At(j, "saveCore") EXCEPT !.core = result])
    /\ UNCHANGED <<opened, raw, deaths>>

FirstMissing(j) == CHOOSE k \in 1 .. Controls :
    /\ k \notin DOMAIN j.controls
    /\ \A i \in 1 .. k - 1 : i \in DOMAIN j.controls

\* One chunk; a chunk another producer has written meanwhile is left, and the value
\* in memory kept.
MeasureChunk(p) ==
    LET j    == proc[p]
        k    == FirstMissing(j)
    IN
    /\ Ready(p, "gpu") /\ j.core # Unavailable /\ DOMAIN j.controls # 1 .. Controls
    /\ \E effect \in EffectResults :
        LET next == [j EXCEPT !.controls = [i \in DOMAIN @ \cup {k} |->
                                               IF i = k THEN effect ELSE @[i]]] IN
        /\ Measure(j, k, effect)
        /\ Goto(p, IF ~Exists(ChunkPath(j, k))
                     THEN [next EXCEPT !.at = "saveChunk", !.chunk = k, !.step = "create"]
                   ELSE IF \E i \in 1 .. Controls :
                             Exists(ChunkPath(j, i)) /\ ~Complete(ChunkPath(j, i))
                     THEN Over("refused") ELSE next)
    /\ UNCHANGED <<files, opened, raw, deaths>>

AssembleEvidence(p) ==
    LET j == proc[p] IN
    /\ Ready(p, "gpu") /\ j.core # Unavailable /\ DOMAIN j.controls = 1 .. Controls
    /\ Goto(p, [At(j, "evidence") EXCEPT !.evidence =
           ValidEvidence(Source(j), j.pair, Plan[j.pair], j.core,
                         [k \in 1 .. Controls |-> j.controls[k]])])
    /\ UNCHANGED files
    /\ Quiet

\* _run_sensitivity_pair: both doses, without a checkpoint of their own.
MeasureDoses(p) ==
    LET j == proc[p] IN
    /\ Ready(p, "doses")
    /\ \E core \in CoreResults :
        /\ Goto(p, [At(j, "evidence") EXCEPT !.evidence =
               ValidDoses(Source(j), j.pair, Plan[j.pair], core)])
    /\ UNCHANGED files
    /\ Quiet

\* _publish_evidence_checkpoint: the addressed evidence first, then its pointer.
WriteEvidence(p) == Ready(p, "evidence") /\ WriteOrVerify(p, proc[p]) /\ Quiet

\* Mutant: the last producer's pointer wins.
WritePointerLastWins(p) ==
    LET j == proc[p] IN
    /\ Ready(p, "pointer")
    /\ Put(PointerPath(j), Holding(j.evidence))
    /\ Goto(p, NextPair(j, j.evidence))
    /\ Quiet

WritePointer(p) == Ready(p, "pointer") /\ WriteOrVerify(p, proc[p]) /\ Quiet

ReceiptOver(cmd, source, rows) ==
    IF cmd = "causal"
      THEN [source |-> source, evidence |-> rows, summary |-> SummarizeCausalEvidence(rows)]
      ELSE [source |-> source, evidence |-> rows,
            doses |-> SummarizeDoseEvidence(rows, Cells)]

Receipt(j) == ReceiptOver(j.cmd, Source(j), j.rows)

\* _publish_tree: an existing tree is verified; otherwise a private directory is
\* filled and renamed, which fails when the tree has come into being meanwhile.
PublishTree(p) ==
    LET j    == proc[p]
        path == ReceiptPath(j.cmd, j.root, Receipt(j))
        kept == \A i \in DOMAIN j.rows : Complete(EvidencePath(j, j.rows[i]))
    IN
    /\ Ready(p, "publish")
    /\ Goto(p, IF ~kept THEN Over("refused")
               ELSE IF Exists(path) THEN Over("idle") ELSE At(j, "rename"))
    /\ UNCHANGED files /\ Quiet

RenameTree(p) ==
    LET j    == proc[p]
        path == ReceiptPath(j.cmd, j.root, Receipt(j))
    IN
    /\ Ready(p, "rename")
    /\ IF Exists(path) THEN Refuse(p)
       ELSE Put(path, Holding(Receipt(j))) /\ Goto(p, Over("idle"))
    /\ Quiet

-----------------------------------------------------------------------------
(* Costs and the report: a directory is made, then the one file in it. *)

PublishFile(p) ==
    LET j == proc[p] IN
    /\ Ready(p, "mkdir")
    /\ IF ~Exists(j.path) THEN Put(j.path, EmptyDir) /\ Goto(p, At(j, "open"))
       ELSE IF files[j.path] = Holding(j.content) THEN Goto(p, Over("idle")) /\ UNCHANGED files
       ELSE Refuse(p)
    /\ Quiet

\* O_EXCL in a directory that this process has just made.
OpenFile(p) ==
    /\ Ready(p, "open")
    /\ Put(proc[p].path, Torn)
    /\ Goto(p, [proc[p] EXCEPT !.step = "write"])
    /\ Quiet

Publishing(cmd, content) ==
    [cmd |-> cmd, root |-> "out", at |-> "mkdir", step |-> "ready", alone |-> TRUE,
     path |-> ReceiptPath(cmd, "out", content), content |-> content]

\* The cost command; the operator's accounting has five rows in a fixed order.
StartCost(p) ==
    \E q \in Predictions : Launch(p, Publishing("cost", [predictions |-> q]))

\* evaluate: the digests its operator names address whole files.
StartEvaluate(p) ==
    \E q \in Predictions, c \in Published("causal"), s \in Published("sensitivity"),
       path \in {f \in DOMAIN files : f[1] = "cost"} :
        Launch(p, [cmd |-> "report", root |-> "out", at |-> "load", step |-> "ready", alone |-> TRUE,
                   predictions |-> q, causal |-> c, sensitivity |-> s, cost |-> path])

CausalAccepted(c, predictions) ==
    /\ c.source = CausalSource(predictions)
    /\ Len(c.evidence) = Len(Plan)
    /\ \A i \in DOMAIN c.evidence :
         CausalPairAccepted(c.source, States, i, c.evidence[i])
    /\ SummaryAccepted(c.summary, c.evidence)

\* Mutant: a sensitivity receipt of another causal receipt will do.
SensitivityAcceptedUnchained(s, predictions, causal) ==
    /\ s.source.predictions = predictions
    /\ \A i \in DOMAIN s.evidence : DosePairAccepted(s.source, i, s.evidence[i])
    /\ DoseGridAccepted(s.doses, s.evidence, Cells)

SensitivityAccepted(s, predictions, causal) ==
    /\ s.source = SensitivitySource(predictions, causal)
    /\ Len(s.evidence) = Len(Plan)
    /\ \A i \in DOMAIN s.evidence : DosePairAccepted(s.source, i, s.evidence[i])
    /\ DoseGridAccepted(s.doses, s.evidence, Cells)

CostAccepted(path, predictions) ==
    Complete(path) /\ Content(path).predictions = predictions

Inputs(j) == [predictions |-> j.predictions, causal |-> j.causal,
              sensitivity |-> j.sensitivity, cost |-> j.cost]

\* All receipts are read and validated before raw outcomes are opened.
LoadReceipts(p) ==
    LET j == proc[p] IN
    /\ Ready(p, "load")
    /\ IF /\ CausalAccepted(j.causal, j.predictions)
          /\ SensitivityAccepted(j.sensitivity, j.predictions, j.causal)
          /\ CostAccepted(j.cost, j.predictions)
         THEN Goto(p, At(j, "raw")) /\ UNCHANGED files
         ELSE Refuse(p)
    /\ Quiet

\* _load_raw_inputs: at most a tenth of a cell may be invalid or violate an
\* envelope, and every valid failure has an onset.
RawAccepted(w) ==
    /\ \A cell \in DOMAIN w.invalid : 10 * w.invalid[cell] <= w.perCell
    /\ \A cell \in DOMAIN w.violations : 10 * w.violations[cell] <= w.perCell
    /\ w.annotated

OpenRaw(p) ==
    LET j == proc[p] IN
    /\ Ready(p, "raw")
    /\ raw' \in IF raw = Unavailable THEN RawWorlds ELSE {raw}
    /\ opened' = opened \cup {Inputs(j)}
    /\ Goto(p, IF RawAccepted(raw')
                 THEN [Publishing("report", [inputs |-> Inputs(j), raw |-> raw'])
                          EXCEPT !.alone = j.alone]
                 ELSE Over("refused"))
    /\ UNCHANGED <<files, measured, deaths>>

-----------------------------------------------------------------------------

\* A kill: private temporary directories and memory are gone, the rest stays.
Die(p) ==
    /\ Active(p) /\ deaths < MaxDeaths
    /\ deaths' = deaths + 1
    /\ Goto(p, Over("idle"))
    /\ UNCHANGED <<files, measured, opened, raw>>

Init ==
    /\ files = << >>
    /\ proc = [p \in Procs |-> Over("idle")]
    /\ measured = {} /\ opened = {}
    /\ raw = Unavailable
    /\ deaths = 0

Start(p) == StartCausal(p) \/ StartSensitivity(p) \/ StartCost(p) \/ StartEvaluate(p)

Continue(p) ==
    \/ WritePlan(p) \/ LoadPair(p) \/ LoadCore(p) \/ LoadChunks(p)
    \/ MeasureCore(p) \/ MeasureChunk(p) \/ AssembleEvidence(p) \/ MeasureDoses(p)
    \/ WriteEvidence(p) \/ WritePointer(p) \/ PublishTree(p) \/ RenameTree(p)
    \/ PublishFile(p) \/ OpenFile(p) \/ LoadReceipts(p) \/ OpenRaw(p)
    \/ Create(p) \/ Write(p)

Next == \E p \in Procs : Start(p) \/ Continue(p) \/ Die(p)

Spec == Init /\ [][Next]_vars

-----------------------------------------------------------------------------
(* Properties. *)

MeasuredFor(predictions, pair, part, value) ==
    [predictions |-> predictions, pair |-> pair, part |-> part,
     value |-> value] \in measured

\* A published causal receipt covers the whole plan, and every number of a valid
\* pair in it was measured by a run on the receipt's own predictions, whichever
\* process, in whichever life, left the checkpoint it came from.
CausalReceiptsMeasured ==
    \A c \in Published("causal") : \E q \in Predictions :
        /\ c.source = CausalSource(q)
        /\ Len(c.evidence) = Len(Plan)
        /\ \A i \in {n \in Pairs : c.evidence[n].pair.valid} :
             /\ \E core \in CoreResults :
                  /\ MeasuredFor(q, i, 0, core)
                  /\ c.evidence[i] = ValidEvidence(c.source, i, Plan[i], core,
                                                   c.evidence[i].controls)
             /\ \A k \in 1 .. Controls :
                  MeasuredFor(q, i, k, c.evidence[i].controls[k])

\* The order of the registered analysis: raw outcomes are opened only when a causal
\* receipt, a sensitivity receipt made from that very receipt, and the costs are
\* published, all for one prediction receipt; a report names such a chain.
OutcomesOpenedLast ==
    /\ \A o \in opened :
        /\ o.causal \in Published("causal") /\ o.sensitivity \in Published("sensitivity")
        /\ o.sensitivity.source.causal = o.causal
        /\ o.causal.source = CausalSource(o.predictions)
        /\ o.sensitivity.source.predictions = o.predictions
        /\ CostAccepted(o.cost, o.predictions)
        /\ \A i \in Pairs : o.sensitivity.evidence[i].pair.valid
                              = o.causal.evidence[i].pair.valid
    /\ \A r \in Published("report") : r.inputs \in opened

\* One output root has one causal receipt, however often it is produced, by how
\* many processes at once, and whatever the GPU answers the second time.
OneCausalReceiptPerRoot ==
    \A root \in Roots :
        Cardinality({path \in DOMAIN files :
            path[1] = "causal" /\ path[2] = root /\ path[3] = "receipt"}) <= 1

TornIn(root, cmd) == \E path \in DOMAIN files :
    path[1] = cmd /\ path[2] = root /\ ~Complete(path)

Excused(p) ==
    LET j == proc[p] IN
    \/ ~j.alone
    \/ TornIn(j.root, j.cmd)
    \/ j.cmd \in Producers /\ Exists(PlanPath(j)) /\ files[PlanPath(j)] # Holding(PlanPayload(j))
    \/ j.cmd = "report" /\ j.at = "raw" /\ ~RawAccepted(raw')
    \/ j.cmd = "report" /\ j.at = "load" /\
         \/ j.causal.source # CausalSource(j.predictions)
         \/ j.sensitivity.source # SensitivitySource(j.predictions, j.causal)
         \/ ~CostAccepted(j.cost, j.predictions)

\* A run is refused only for a reason: a second producer in its root, a file a kill
\* left half written, a root that belongs to other inputs, receipts that do not
\* chain, or outcomes outside the registered envelope.  Whatever else was killed
\* resumes, and the evaluation accepts what the producers publish.
RefusedOnlyForCause ==
    [][\A p \in Procs :
          (proc[p].at # "refused" /\ proc'[p].at = "refused") => Excused(p)]_vars
-----------------------------------------------------------------------------
(* What the proofs rest on: every whole file is sound, every process holds only what
   sound files and its own measurements gave it, and a file that is being written
   belongs to one process. *)

IsSequence(s) == s \in Seq({s[i] : i \in DOMAIN s})

PlanIn(cmd, root)         == Path(cmd, root, "plan", 0)
EvidenceIn(cmd, root, e)  == Path(cmd, root, "evidence", e)
PointerIn(cmd, root, i)   == Path(cmd, root, "pointer", i)
SourceIn(cmd, root)       == Content(PlanIn(cmd, root)).source
PointsTo(cmd, root, i, e) ==
    Complete(PointerIn(cmd, root, i)) /\ Content(PointerIn(cmd, root, i)) = e

CoreMeasured(q, i, core) == core \in CoreResults /\ MeasuredFor(q, i, 0, core)

EvidenceSound(cmd, source, i, e) ==
    /\ e.source = source /\ e.pair.index = i
    /\ cmd = "causal" =>
         \/ /\ e.pair.valid = TRUE /\ InvalidReason(Plan[i]) = "none"
            /\ DOMAIN e.controls = 1 .. Controls
            /\ \E core \in CoreResults :
                 /\ MeasuredFor(source.predictions, i, 0, core)
                 /\ e = ValidEvidence(source, i, Plan[i], core, e.controls)
            /\ \A k \in 1 .. Controls : MeasuredFor(source.predictions, i, k, e.controls[k])
         \/ /\ e.pair.valid = FALSE /\ InvalidReason(Plan[i]) # "none"
            /\ e = InvalidEvidence(source, i, Plan[i])
    /\ cmd # "causal" =>
         /\ i \in Pairs => e.pair.valid = source.causal.evidence[i].pair.valid
         /\ \/ \E core \in CoreResults : e = ValidDoses(source, i, Plan[i], core)
            \/ e = InvalidDoses(source, i, Plan[i], source.causal.evidence[i].pair.reason)

PayloadSound(cmd, payload) ==
    \E q \in Predictions :
        \/ cmd = "causal" /\ payload.source = CausalSource(q)
        \/ /\ cmd = "sensitivity"
           /\ \E c \in Published("causal") : payload.source = SensitivitySource(q, c)

\* The receipt is the one that the plan and the pointers of its root determine.
ReceiptSound(cmd, root, receipt) ==
    /\ IsSequence(receipt.evidence)
    /\ Len(receipt.evidence) = Len(Plan)
    /\ receipt = ReceiptOver(cmd, SourceIn(cmd, root), receipt.evidence)
    /\ \A i \in Pairs : PointsTo(cmd, root, i, receipt.evidence[i])

ContentSound(cmd, root, kind, of, content) ==
    LET source == SourceIn(cmd, root) IN
    /\ cmd \in Producers /\ kind # "plan" => Complete(PlanIn(cmd, root))
    /\ cmd \in Producers =>
         CASE kind = "plan"    -> PayloadSound(cmd, content)
           [] kind = "core"    -> /\ content.source = source /\ content.index = of
                                  /\ CoreMeasured(source.predictions, of, content.result)
           [] kind = "chunk"   -> MeasuredFor(source.predictions, of[1], of[2], content)
           [] kind = "evidence" -> of = content
           [] kind = "pointer" -> /\ EvidenceSound(cmd, source, of, content)
                                  /\ Complete(EvidenceIn(cmd, root, content))
           [] kind = "receipt" -> of = content /\ ReceiptSound(cmd, root, content)
           [] OTHER            -> TRUE
    /\ cmd \notin Producers => of = content
    /\ cmd = "report" => of.inputs \in opened

FileSound(path) ==
    /\ path = Path(path[1], path[2], path[3], path[4])
    /\ path[1] \in Producers /\ path[3] = "receipt" => Complete(path)
    /\ Complete(path) =>
         /\ files[path] = Holding(Content(path))
         /\ ContentSound(path[1], path[2], path[3], path[4], Content(path))

OverFields    == {"at", "step"}
JobFields     == {"cmd", "root", "predictions", "causal", "at", "step", "pair", "core",
                  "controls", "chunk", "evidence", "rows", "alone"}
PublishFields == {"cmd", "root", "at", "step", "alone", "path", "content"}
ReportFields  == {"cmd", "root", "at", "step", "alone", "predictions", "causal",
                  "sensitivity", "cost"}

OverSound(j) == DOMAIN j = OverFields /\ j.at \in {"idle", "refused"} /\ j.step = "ready"

\* The stages at which a producer writes a file.
Writing == {"plan", "saveCore", "saveChunk", "evidence", "pointer"}

InputsSound(j) ==
    /\ j.cmd \in Producers /\ j.root \in Roots /\ j.predictions \in Predictions
    /\ j.cmd = "sensitivity" =>
         j.causal \in Published("causal") /\ j.causal.source = CausalSource(j.predictions)

\* The rows so far are what the pointers say.
RowsSound(j) ==
    /\ j.pair \in Nat \ {0} /\ IsSequence(j.rows) /\ Len(j.rows) = j.pair - 1
    /\ \A i \in 1 .. j.pair - 1 : PointsTo(j.cmd, j.root, i, j.rows[i])
    /\ j.at \in {"publish", "rename"} => j.pair - 1 = Len(Plan)

MeasurementsSound(j) ==
    /\ j.core # Unavailable \/ j.at = "saveCore" => CoreMeasured(j.predictions, j.pair, j.core)
    /\ \A k \in DOMAIN j.controls : MeasuredFor(j.predictions, j.pair, k, j.controls[k])
    /\ DOMAIN j.controls \subseteq 1 .. Controls
    /\ j.at = "saveChunk" => j.chunk \in DOMAIN j.controls

StageSound(j) ==
    /\ j.at \in {"core", "chunks", "gpu", "saveCore", "saveChunk"} =>
         j.cmd = "causal" /\ InvalidReason(Plan[j.pair]) = "none"
    /\ j.at = "doses" =>
         /\ j.cmd = "sensitivity"
         /\ j.pair \in Pairs => j.causal.evidence[j.pair].pair.valid = TRUE
    /\ j.at \in {"evidence", "pointer"} =>
         EvidenceSound(j.cmd, Source(j), j.pair, j.evidence)
    /\ j.at = "pointer" => Complete(EvidenceIn(j.cmd, j.root, j.evidence))

ProducerSound(j) ==
    /\ DOMAIN j = JobFields
    /\ j.at \in {"plan", "pair", "core", "chunks", "gpu", "saveCore", "saveChunk", "doses",
                 "evidence", "pointer", "publish", "rename"}
    /\ j.step # "ready" => j.at \in Writing
    /\ InputsSound(j)
    /\ j.at # "plan" =>
         /\ Complete(PlanIn(j.cmd, j.root))
         /\ Content(PlanIn(j.cmd, j.root)) = PlanPayload(j)
    /\ RowsSound(j)
    /\ MeasurementsSound(j)
    /\ StageSound(j)

PublicationSound(j) ==
    /\ DOMAIN j = PublishFields
    /\ j.cmd \in {"cost", "report"} /\ j.root = "out" /\ j.at \in {"mkdir", "open"}
    /\ j.step = "ready" \/ (j.step = "write" /\ j.at = "open")
    /\ j.path = ReceiptPath(j.cmd, "out", j.content)
    /\ j.cmd = "report" => j.content.inputs \in opened

\* What LoadReceipts has found of the chain it was given.
ChainSound(j) ==
    /\ j.causal \in Published("causal") /\ j.causal.source = CausalSource(j.predictions)
    /\ j.sensitivity \in Published("sensitivity")
    /\ j.sensitivity.source = SensitivitySource(j.predictions, j.causal)
    /\ CostAccepted(j.cost, j.predictions)

EvaluationSound(j) ==
    /\ DOMAIN j = ReportFields
    /\ j.cmd = "report" /\ j.root = "out" /\ j.at \in {"load", "raw"} /\ j.step = "ready"
    /\ j.causal \in Published("causal") /\ j.sensitivity \in Published("sensitivity")
    /\ j.at = "raw" => ChainSound(j)

JobSound(j) ==
    OverSound(j) \/ ProducerSound(j) \/ PublicationSound(j) \/ EvaluationSound(j)

\* A process that has created a file, or made a directory for it, and not yet written it.
Owns(j) == j.step = "write" \/ j.at = "open"

OwnersSound ==
    /\ \A p \in Procs : Owns(proc[p]) =>
         Exists(Target(proc[p]).path) /\ ~Complete(Target(proc[p]).path)
    /\ \A p, q \in Procs : (p # q /\ Owns(proc[p]) /\ Owns(proc[q])) =>
         Target(proc[p]).path # Target(proc[q]).path

Sound ==
    /\ DOMAIN proc = Procs
    /\ \A p \in Procs : JobSound(proc[p])
    /\ OwnersSound
    /\ \A path \in DOMAIN files : FileSound(path)
    /\ \A o \in opened : ChainSound(o)

\* A producer that has had its root to itself finds there what it has left there.
Undisturbed(j) ==
    /\ j.step = "create" => ~Exists(Target(j).path)
    /\ j.at \in {"core", "chunks", "gpu", "saveCore", "saveChunk", "doses", "evidence"}
         => ~Exists(PointerPath(j))
    /\ j.at = "pointer" /\ j.step # "write" => ~Exists(PointerPath(j))
    /\ j.at \in {"chunks", "gpu", "saveChunk"} /\ j.core = Unavailable => ~Exists(CorePath(j))
    /\ j.at \in {"gpu", "saveCore", "saveChunk"} =>
         \A k \in 1 .. Controls : Exists(ChunkPath(j, k)) => k \in DOMAIN j.controls
    /\ j.at = "rename" => ~Exists(ReceiptPath(j.cmd, j.root, Receipt(j)))

\* A process marked as alone shares its root with nobody, and is undisturbed there.
OnItsOwn ==
    \A p \in Procs : Active(p) /\ proc[p].alone =>
        /\ \A q \in Procs \ {p} : ~SharesRoot(q, proc[p])
        /\ proc[p].cmd \in Producers => Undisturbed(proc[p])

=============================================================================
