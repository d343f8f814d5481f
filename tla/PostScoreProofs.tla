------------------------------- MODULE PostScoreProofs -------------------------------
(***************************************************************************)
(* Proofs about PostScore: that its files and processes are always sound   *)
(* (Sound), what follows of it for causal receipts and opened outcomes,    *)
(* that a producer alone in its root is undisturbed (OnItsOwn), and that a *)
(* refusal has a reason.                                                   *)
(*                                                                         *)
(* Files only ever appear: a whole file is never touched again, so that    *)
(* whatever is sound about it stays so (the lemmas called ...Stays).       *)
(***************************************************************************)
EXTENDS PostScore, CausalEvidenceProofs, NaturalsInduction

\* What every step does: files appear or are filled, and histories grow.
Grow ==
    /\ \A path \in DOMAIN files : /\ path \in DOMAIN files'
                                  /\ Complete(path) => files'[path] = files[path]
    /\ measured \subseteq measured'
    /\ opened \subseteq opened'

\* A whole file stays, with what it holds.
LEMMA CompleteStays ==
    ASSUME Grow, NEW path, Complete(path)
    PROVE  Complete(path)' /\ Content(path)' = Content(path)
BY DEF Grow, Complete, Content, Exists

\* A published receipt stays published.
LEMMA PublishedStays ==
    ASSUME Grow, NEW cmd, NEW c \in Published(cmd)
    PROVE  c \in Published(cmd)'
<1>1. PICK path \in DOMAIN files :
          path[1] = cmd /\ path[3] = "receipt" /\ Complete(path) /\ c = path[4]
  BY DEF Published
<1>2. Complete(path)' /\ path \in DOMAIN files'
  BY <1>1, CompleteStays DEF Grow
<1> QED
  BY <1>1, <1>2 DEF Published

\* What was measured stays measured.
LEMMA MeasuredStays ==
    ASSUME Grow, NEW q, NEW i, NEW part, NEW value, MeasuredFor(q, i, part, value)
    PROVE  MeasuredFor(q, i, part, value)'
BY DEF Grow, MeasuredFor

\* The same for a core, which is one measurement.
LEMMA CoreMeasuredStays ==
    ASSUME Grow, NEW q, NEW i, NEW core, CoreMeasured(q, i, core)
    PROVE  CoreMeasured(q, i, core)'
BY MeasuredStays DEF CoreMeasured

\* Sound evidence stays sound: it rests on measurements only.
LEMMA EvidenceSoundStays ==
    ASSUME Grow, NEW cmd, NEW source, NEW i, NEW e, EvidenceSound(cmd, source, i, e)
    PROVE  EvidenceSound(cmd, source, i, e)'
<1>1. CASE cmd = "causal"
  <2>1. e.pair.valid \in BOOLEAN
    BY <1>1 DEF EvidenceSound
  <2>2. ASSUME e.pair.valid
        PROVE  /\ \E core \in CoreResults :
                    /\ MeasuredFor(source.predictions, i, 0, core)'
                    /\ e = ValidEvidence(source, i, Plan[i], core, e.controls)
               /\ \A k \in 1 .. Controls :
                    MeasuredFor(source.predictions, i, k, e.controls[k])'
    BY <1>1, <2>2, MeasuredStays DEF EvidenceSound
  <2> QED
    BY <1>1, <2>1, <2>2 DEF EvidenceSound
<1>2. CASE cmd # "causal"
  BY <1>2 DEF EvidenceSound
<1> QED
  BY <1>1, <1>2

\* A sound plan stays sound: it rests on published receipts only.
LEMMA PayloadSoundStays ==
    ASSUME Grow, NEW cmd, NEW payload, PayloadSound(cmd, payload)
    PROVE  PayloadSound(cmd, payload)'
BY PublishedStays DEF PayloadSound

\* A pointer goes on pointing at what it points at.
LEMMA PointsToStays ==
    ASSUME Grow, NEW cmd, NEW root, NEW i, NEW e, PointsTo(cmd, root, i, e)
    PROVE  PointsTo(cmd, root, i, e)'
BY CompleteStays DEF PointsTo, PointerIn

\* Evidence that is there stays there.
LEMMA EvidenceStays ==
    ASSUME Grow, NEW cmd, NEW root, NEW e, Complete(EvidenceIn(cmd, root, e))
    PROVE  Complete(EvidenceIn(cmd, root, e))'
BY CompleteStays DEF EvidenceIn

\* A root keeps its plan, and so its source.
LEMMA PlanStays ==
    ASSUME Grow, NEW cmd, NEW root, Complete(PlanIn(cmd, root))
    PROVE  /\ Complete(PlanIn(cmd, root))'
           /\ Content(PlanIn(cmd, root))' = Content(PlanIn(cmd, root))
           /\ SourceIn(cmd, root)' = SourceIn(cmd, root)
<1>1. PICK path : path = PlanIn(cmd, root)
  OBVIOUS
<1>2. path = PlanIn(cmd, root)'
  BY <1>1 DEF PlanIn
<1> QED
  BY <1>1, <1>2, CompleteStays DEF SourceIn

\* A receipt stays the one that its root's plan and pointers determine.
LEMMA ReceiptSoundStays ==
    ASSUME Grow, NEW cmd, NEW root, NEW receipt, Complete(PlanIn(cmd, root)),
           ReceiptSound(cmd, root, receipt)
    PROVE  ReceiptSound(cmd, root, receipt)'
<1>1. \A i \in Pairs : PointsTo(cmd, root, i, receipt.evidence[i])'
  BY PointsToStays DEF ReceiptSound
<1> QED
  BY <1>1, PlanStays DEF ReceiptSound

\* The content of a whole file stays sound, whatever its kind.
LEMMA ContentSoundStays ==
    ASSUME Grow, NEW cmd, NEW root, NEW kind, NEW of, NEW content,
           ContentSound(cmd, root, kind, of, content)
    PROVE  ContentSound(cmd, root, kind, of, content)'
<1>1. cmd = "report" => (of.inputs \in opened)'
  BY DEF ContentSound, Grow
<1>2. CASE cmd \notin Producers
  BY <1>1, <1>2 DEF ContentSound
<1>3. CASE cmd \in Producers /\ kind = "plan"
  BY <1>1, <1>3, PayloadSoundStays DEF ContentSound
<1>4. CASE cmd \in Producers /\ kind # "plan"
  <2>1. Complete(PlanIn(cmd, root))
    BY <1>4 DEF ContentSound
  <2>2. PICK source : source = SourceIn(cmd, root)
    OBVIOUS
  <2>3. Complete(PlanIn(cmd, root))' /\ source = SourceIn(cmd, root)'
    BY <2>1, <2>2, PlanStays
  <2>4. CASE kind = "core"
    <3>1. /\ content.source = source /\ content.index = of
          /\ CoreMeasured(source.predictions, of, content.result)
      BY <1>4, <2>2, <2>4 DEF ContentSound
    <3>2. CoreMeasured(source.predictions, of, content.result)'
      BY <3>1, CoreMeasuredStays
    <3> QED
      BY <1>1, <1>4, <2>3, <2>4, <3>1, <3>2 DEF ContentSound
  <2>5. CASE kind = "chunk"
    <3>1. MeasuredFor(source.predictions, of[1], of[2], content)
      BY <1>4, <2>2, <2>5 DEF ContentSound
    <3>2. MeasuredFor(source.predictions, of[1], of[2], content)'
      BY <3>1, MeasuredStays
    <3> QED
      BY <1>1, <1>4, <2>3, <2>5, <3>2 DEF ContentSound
  <2>6. CASE kind = "pointer"
    <3>1. EvidenceSound(cmd, source, of, content) /\ Complete(EvidenceIn(cmd, root, content))
      BY <1>4, <2>2, <2>6 DEF ContentSound
    <3>2. EvidenceSound(cmd, source, of, content)'
      BY <3>1, EvidenceSoundStays
    <3>3. Complete(EvidenceIn(cmd, root, content))'
      BY <3>1, EvidenceStays
    <3> QED
      BY <1>1, <1>4, <2>3, <2>6, <3>2, <3>3 DEF ContentSound
  <2>7. CASE kind = "receipt"
    <3>1. of = content /\ ReceiptSound(cmd, root, content)
      BY <1>4, <2>7 DEF ContentSound
    <3>2. ReceiptSound(cmd, root, content)'
      BY <2>1, <3>1, ReceiptSoundStays
    <3> QED
      BY <1>1, <1>4, <2>3, <2>7, <3>1, <3>2 DEF ContentSound
  <2>8. CASE kind \notin {"core", "chunk", "pointer", "receipt"}
    BY <1>1, <1>4, <2>3, <2>8 DEF ContentSound
  <2> QED
    BY <2>4, <2>5, <2>6, <2>7, <2>8
<1> QED
  BY <1>2, <1>3, <1>4

\* A cost file that was accepted stays acceptable.
LEMMA EvaluationFileStays ==
    ASSUME Grow, NEW path, NEW q, CostAccepted(path, q)
    PROVE  CostAccepted(path, q)'
BY CompleteStays DEF CostAccepted

\* A chain of receipts that was found sound stays sound.
LEMMA ChainSoundStays ==
    ASSUME Grow, NEW j, ChainSound(j)
    PROVE  ChainSound(j)'
<1>1. CostAccepted(j.cost, j.predictions)'
  BY EvaluationFileStays DEF ChainSound
<1> QED
  BY <1>1, PublishedStays DEF ChainSound

\* What a process holds stays sound when other files appear.
LEMMA JobSoundStays ==
    ASSUME Grow, NEW j, JobSound(j)
    PROVE  JobSound(j)'
<1>1. CASE OverSound(j)
  BY <1>1 DEF JobSound, OverSound
<1>2. CASE ProducerSound(j)
  <2>1. InputsSound(j)'
    BY <1>2, PublishedStays DEF ProducerSound, InputsSound
  <2>2. ASSUME j.at # "plan"
        PROVE  /\ Complete(PlanIn(j.cmd, j.root))'
               /\ Content(PlanIn(j.cmd, j.root))' = PlanPayload(j)'
    <3>1. Complete(PlanIn(j.cmd, j.root)) /\ Content(PlanIn(j.cmd, j.root)) = PlanPayload(j)
      BY <1>2, <2>2 DEF ProducerSound
    <3> QED
      BY <3>1, PlanStays DEF PlanPayload, Source
  <2>3. RowsSound(j)'
    BY <1>2, PointsToStays DEF ProducerSound, RowsSound
  <2>4. MeasurementsSound(j)'
    BY <1>2, MeasuredStays, CoreMeasuredStays DEF ProducerSound, MeasurementsSound
  <2>5. StageSound(j)'
    <3>1. PICK source : source = Source(j)
      OBVIOUS
    <3>2. source = Source(j)'
      BY <3>1 DEF Source
    <3>3. j.at \in {"evidence", "pointer"} => EvidenceSound(j.cmd, source, j.pair, j.evidence)'
      BY <1>2, <3>1, EvidenceSoundStays DEF ProducerSound, StageSound
    <3>4. j.at = "pointer" => Complete(EvidenceIn(j.cmd, j.root, j.evidence))'
      BY <1>2, EvidenceStays DEF ProducerSound, StageSound
    <3> QED
      BY <1>2, <3>2, <3>3, <3>4 DEF ProducerSound, StageSound
  <2> QED
    BY <1>2, <2>1, <2>2, <2>3, <2>4, <2>5 DEF ProducerSound, JobSound
<1>3. CASE PublicationSound(j)
  BY <1>3 DEF PublicationSound, JobSound, Grow
<1>4. CASE EvaluationSound(j)
  <2>1. j.at = "raw" => ChainSound(j)'
    BY <1>4, ChainSoundStays DEF EvaluationSound
  <2> QED
    BY <1>4, <2>1, PublishedStays DEF EvaluationSound, JobSound
<1> QED
  BY <1>1, <1>2, <1>3, <1>4 DEF JobSound

\* The stage of a process says which of the four kinds of job it has.
LEMMA KindsApart ==
    ASSUME NEW j, JobSound(j)
    PROVE  /\ j.at \in {"idle", "refused"} <=> OverSound(j)
           /\ j.at \in {"plan", "pair", "core", "chunks", "gpu", "saveCore", "saveChunk",
                        "doses", "evidence", "pointer", "publish", "rename"}
                <=> ProducerSound(j)
           /\ j.at \in {"mkdir", "open"} <=> PublicationSound(j)
           /\ j.at \in {"load", "raw"} <=> EvaluationSound(j)
BY DEF JobSound, OverSound, ProducerSound, PublicationSound, EvaluationSound

Alone(j) == [j EXCEPT !.alone = FALSE]

\* The path of the file a job is about to write, stage by stage.
LEMMA TargetPaths ==
    ASSUME NEW j
    PROVE  /\ j.at = "plan" => Target(j).path = PlanIn(j.cmd, j.root)
           /\ j.at = "saveCore" => Target(j).path = Path(j.cmd, j.root, "core", j.pair)
           /\ j.at = "saveChunk" =>
                Target(j).path = Path(j.cmd, j.root, "chunk", <<j.pair, j.chunk>>)
           /\ j.at = "evidence" => Target(j).path = Path(j.cmd, j.root, "evidence", j.evidence)
           /\ j.at = "pointer" => Target(j).path = PointerIn(j.cmd, j.root, j.pair)
           /\ j.at = "open" => Target(j).path = j.path
BY DEF Target, PlanPath, PlanIn, CorePath, ChunkPath, EvidencePath, PointerPath, PointerIn

\* Two jobs that agree on stage, root, pair, chunk and evidence write the same file.
LEMMA SameTarget ==
    ASSUME NEW j, NEW k, j.at \in Writing, k.at = j.at, k.cmd = j.cmd, k.root = j.root,
           k.pair = j.pair, k.chunk = j.chunk, k.evidence = j.evidence
    PROVE  Target(k).path = Target(j).path
<1>1. CASE j.at = "plan"
  BY <1>1, TargetPaths
<1>2. CASE j.at = "saveCore"
  BY <1>2, TargetPaths
<1>3. CASE j.at = "saveChunk"
  BY <1>3, TargetPaths
<1>4. CASE j.at = "evidence"
  BY <1>4, TargetPaths
<1>5. CASE j.at = "pointer"
  BY <1>5, TargetPaths
<1> QED
  BY <1>1, <1>2, <1>3, <1>4, <1>5 DEF Writing

\* Losing its root to another process leaves a job sound, and its target where it was.
LEMMA AloneIsSound ==
    ASSUME NEW j, JobSound(j), ~OverSound(j)
    PROVE  /\ JobSound(Alone(j))
           /\ Alone(j).at = j.at
           /\ Owns(Alone(j)) = Owns(j)
           /\ Owns(j) => Target(Alone(j)).path = Target(j).path
<1> DEFINE k == Alone(j)
<1>1. CASE ProducerSound(j)
  <2>1. /\ k.cmd = j.cmd /\ k.root = j.root /\ k.predictions = j.predictions
        /\ k.causal = j.causal /\ k.at = j.at /\ k.step = j.step /\ k.pair = j.pair
        /\ k.core = j.core /\ k.controls = j.controls /\ k.chunk = j.chunk
        /\ k.evidence = j.evidence /\ k.rows = j.rows /\ DOMAIN k = DOMAIN j
    BY <1>1 DEF ProducerSound, JobFields, Alone
  <2> HIDE DEF k
  <2>2. Source(k) = Source(j) /\ PlanPayload(k) = PlanPayload(j)
    BY <2>1 DEF Source, PlanPayload
  <2>3. InputsSound(k) /\ RowsSound(k) /\ MeasurementsSound(k)
    BY <1>1, <2>1 DEF ProducerSound, InputsSound, RowsSound, MeasurementsSound
  <2>4. StageSound(k)
    BY <1>1, <2>1, <2>2 DEF ProducerSound, StageSound
  <2>5. ProducerSound(k)
    BY <1>1, <2>1, <2>2, <2>3, <2>4 DEF ProducerSound
  <2>6. JobSound(k) /\ k.at = j.at /\ Owns(k) = Owns(j)
    BY <2>1, <2>5 DEF JobSound, Owns
  <2>7. ASSUME Owns(j) PROVE Target(k).path = Target(j).path
    <3>1. j.at \in Writing
      BY <1>1, <2>7 DEF ProducerSound, Owns
    <3> QED
      BY <2>1, <3>1, SameTarget
  <2> QED
    BY <2>6, <2>7 DEF k
<1>2. CASE PublicationSound(j)
  <2>1. /\ k.cmd = j.cmd /\ k.root = j.root /\ k.at = j.at /\ k.step = j.step
        /\ k.path = j.path /\ k.content = j.content /\ DOMAIN k = DOMAIN j
    BY <1>2 DEF PublicationSound, PublishFields, Alone
  <2> HIDE DEF k
  <2>2. PublicationSound(k)
    BY <1>2, <2>1 DEF PublicationSound
  <2>3. JobSound(k) /\ k.at = j.at /\ Owns(k) = Owns(j)
    BY <2>1, <2>2 DEF JobSound, Owns
  <2>4. Owns(j) => Target(k).path = Target(j).path
    BY <1>2, <2>1, TargetPaths DEF PublicationSound, Owns
  <2> QED
    BY <2>3, <2>4 DEF k
<1>3. CASE EvaluationSound(j)
  <2>1. /\ k.cmd = j.cmd /\ k.root = j.root /\ k.at = j.at /\ k.step = j.step
        /\ k.predictions = j.predictions /\ k.causal = j.causal
        /\ k.sensitivity = j.sensitivity /\ k.cost = j.cost /\ DOMAIN k = DOMAIN j
    BY <1>3 DEF EvaluationSound, ReportFields, Alone
  <2> HIDE DEF k
  <2>2. EvaluationSound(k)
    BY <1>3, <2>1 DEF EvaluationSound, ChainSound
  <2>3. JobSound(k) /\ k.at = j.at /\ Owns(k) = Owns(j)
    BY <2>1, <2>2 DEF JobSound, Owns
  <2>4. ~Owns(j)
    BY <1>3 DEF EvaluationSound, Owns
  <2> QED
    BY <2>3, <2>4 DEF k
<1> QED
  BY <1>1, <1>2, <1>3 DEF JobSound

\* A file that a step leaves alone stays sound.
LEMMA FileSoundStays ==
    ASSUME Grow, NEW path, path \in DOMAIN files, FileSound(path),
           path \in DOMAIN files', files'[path] = files[path]
    PROVE  FileSound(path)'
<1>1. Complete(path)' = Complete(path) /\ Content(path)' = Content(path)
  BY DEF Complete, Exists, Content
<1>2. PICK content : content = Content(path)
  OBVIOUS
<1>3. Complete(path) => ContentSound(path[1], path[2], path[3], path[4], content)'
  BY <1>2, ContentSoundStays DEF FileSound
<1> QED
  BY <1>1, <1>2, <1>3 DEF FileSound

(* The general step: one process moves on, the files it touches become sound ones,
   and no file that another process owns is touched. *)
LEMMA StepIsSound ==
    ASSUME Sound, Grow, NEW p \in Procs, NEW n, proc' = [proc EXCEPT ![p] = n],
           JobSound(n)',
           \A path \in DOMAIN files' :
               path \notin DOMAIN files \/ files'[path] # files[path] => FileSound(path)',
           \A o \in opened' \ opened : ChainSound(o)',
           Owns(n) => /\ Target(n).path \in DOMAIN files'
                      /\ files'[Target(n).path].state # "whole"
                      /\ \A q \in Procs \ {p} :
                           Owns(proc[q]) => Target(proc[q]).path # Target(n).path,
           \A q \in Procs \ {p} :
               Owns(proc[q]) => files'[Target(proc[q]).path].state # "whole"
    PROVE  Sound'
<1>1. DOMAIN proc' = Procs /\ proc'[p] = n /\ \A q \in Procs \ {p} : proc'[q] = proc[q]
  BY DEF Sound
<1>2. \A q \in Procs : JobSound(proc[q])'
  <2> TAKE q \in Procs
  <2>1. PICK j : j = proc[q]
    OBVIOUS
  <2>2. CASE q = p
    BY <1>1, <2>2
  <2>3. CASE q # p
    <3>1. JobSound(j)'
      BY <2>1, JobSoundStays DEF Sound
    <3>2. proc[q]' = j
      BY <1>1, <2>1, <2>3
    <3> QED
      BY <3>1, <3>2
  <2> QED
    BY <2>2, <2>3
<1>3. OwnersSound'
  <2>1. ASSUME NEW q \in Procs, Owns(proc[q])'
        PROVE  Exists(Target(proc[q]).path)' /\ ~Complete(Target(proc[q]).path)'
    <3>1. PICK path : path = Target(proc'[q]).path
      OBVIOUS
    <3>2. CASE q = p
      <4>1. path \in DOMAIN files' /\ files'[path].state # "whole"
        BY <1>1, <2>1, <3>1, <3>2
      <4> QED
        BY <3>1, <4>1 DEF Exists, Complete
    <3>3. CASE q # p
      <4>1. Owns(proc[q]) /\ path = Target(proc[q]).path
        BY <1>1, <2>1, <3>1, <3>3
      <4>2. path \in DOMAIN files
        BY <4>1 DEF Sound, OwnersSound, Exists
      <4>3. path \in DOMAIN files' /\ files'[path].state # "whole"
        BY <3>3, <4>1, <4>2 DEF Grow
      <4> QED
        BY <3>1, <4>3 DEF Exists, Complete
    <3> QED
      BY <3>2, <3>3
  <2>2. ASSUME NEW q \in Procs, NEW r \in Procs, q # r, Owns(proc[q])', Owns(proc[r])'
        PROVE  Target(proc[q]).path' # Target(proc[r]).path'
    <3>1. CASE q # p /\ r # p
      BY <1>1, <2>2, <3>1 DEF Sound, OwnersSound
    <3>2. CASE q = p
      BY <1>1, <2>2, <3>2
    <3>3. CASE r = p
      BY <1>1, <2>2, <3>3
    <3> QED
      BY <3>1, <3>2, <3>3
  <2> QED
    BY <2>1, <2>2 DEF OwnersSound
<1>4. \A path \in DOMAIN files' : FileSound(path)'
  BY FileSoundStays DEF Sound
<1>5. \A o \in opened' : ChainSound(o)'
  BY ChainSoundStays DEF Sound
<1> QED
  BY <1>1, <1>2, <1>3, <1>4, <1>5 DEF Sound

\* A step of p that leaves the files alone.
LEMMA QuietStepIsSound ==
    ASSUME Sound, NEW p \in Procs, NEW n, proc' = [proc EXCEPT ![p] = n], JobSound(n)',
           files' = files, opened' = opened, measured \subseteq measured', ~Owns(n)
    PROVE  Sound'
<1>1. Grow
  BY DEF Grow
<1>2. \A q \in Procs \ {p} :
          Owns(proc[q]) => files'[Target(proc[q]).path].state # "whole"
  BY DEF Sound, OwnersSound, Complete, Exists
<1> QED
  BY <1>1, <1>2, StepIsSound

\* A step of p that puts something whole at a path that holds nothing whole yet.
LEMMA PutGrows ==
    ASSUME NEW path, NEW held, Put(path, held), ~Complete(path),
           measured \subseteq measured', opened \subseteq opened'
    PROVE  /\ Grow
           /\ path \in DOMAIN files' /\ files'[path] = held
           /\ \A f \in DOMAIN files' : f # path => f \in DOMAIN files /\ files'[f] = files[f]
BY DEF Put, Grow, Complete, Exists

\* A sequence with one more element is a sequence.
LEMMA AppendSequence ==
    ASSUME NEW s, IsSequence(s), NEW e
    PROVE  /\ IsSequence(Append(s, e))
           /\ Len(s) \in Nat /\ Len(Append(s, e)) = Len(s) + 1
           /\ \A i \in 1 .. Len(s) : Append(s, e)[i] = s[i]
           /\ Append(s, e)[Len(s) + 1] = e
<1> DEFINE S == {s[i] : i \in DOMAIN s} \cup {e}
           t == Append(s, e)
<1>1. s \in Seq(S) /\ DOMAIN s = 1 .. Len(s) /\ Len(s) \in Nat
  BY DEF IsSequence
<1>2. /\ t \in Seq(S) /\ Len(t) = Len(s) + 1 /\ DOMAIN t = 1 .. Len(t)
      /\ \A i \in 1 .. Len(s) : t[i] = s[i]
      /\ t[Len(s) + 1] = e
  BY <1>1
<1> HIDE DEF t
<1>3. t \in Seq({t[i] : i \in DOMAIN t})
  BY <1>2
<1> QED
  BY <1>1, <1>2, <1>3 DEF IsSequence, t

\* A producer whose pointer is in place goes on soundly to the next pair.
LEMMA NextPairIsSound ==
    ASSUME NEW j, ProducerSound(j)', j.at # "plan", NEW e,
           PointsTo(j.cmd, j.root, j.pair, e)'
    PROVE  /\ ProducerSound(NextPair(j, e))'
           /\ ~Owns(NextPair(j, e))
<1> DEFINE k == NextPair(j, e)
<1>1. /\ k.cmd = j.cmd /\ k.root = j.root /\ k.predictions = j.predictions
      /\ k.causal = j.causal /\ k.step = "ready" /\ k.pair = j.pair + 1
      /\ k.core = Unavailable /\ k.controls = << >>
      /\ k.rows = Append(j.rows, e) /\ DOMAIN k = DOMAIN j
      /\ k.at = IF j.pair = Len(Plan) THEN "publish" ELSE "pair"
  BY DEF ProducerSound, JobFields, NextPair
<1> HIDE DEF k
<1>2. Source(k) = Source(j) /\ PlanPayload(k) = PlanPayload(j)
  BY <1>1 DEF Source, PlanPayload
<1>3. InputsSound(k)'
  BY <1>1 DEF ProducerSound, InputsSound
<1>4. RowsSound(k)'
  <2>1. j.pair \in Nat \ {0} /\ IsSequence(j.rows) /\ Len(j.rows) = j.pair - 1
    BY DEF ProducerSound, RowsSound
  <2>2. IsSequence(k.rows) /\ Len(k.rows) = j.pair /\ k.rows[j.pair] = e
        /\ \A i \in 1 .. j.pair - 1 : k.rows[i] = j.rows[i]
    BY <1>1, <2>1, AppendSequence
  <2>3. \A i \in 1 .. j.pair - 1 : PointsTo(j.cmd, j.root, i, j.rows[i])'
    BY DEF ProducerSound, RowsSound
  <2>4. \A i \in 1 .. j.pair : PointsTo(k.cmd, k.root, i, k.rows[i])'
    <3> TAKE i \in 1 .. j.pair
    <3>1. CASE i = j.pair
      BY <1>1, <2>2, <3>1
    <3>2. CASE i # j.pair
      BY <1>1, <2>1, <2>2, <2>3, <3>2
    <3> QED
      BY <3>1, <3>2
  <2>5. k.pair - 1 = j.pair /\ k.pair \in Nat \ {0}
    BY <1>1, <2>1
  <2>6. k.at \in {"publish", "rename"} => k.pair - 1 = Len(Plan)
    BY <1>1, <2>5
  <2> QED
    BY <2>2, <2>4, <2>5, <2>6 DEF RowsSound
<1>5. MeasurementsSound(k)' /\ StageSound(k)'
  BY <1>1 DEF MeasurementsSound, StageSound
<1>6. ProducerSound(k)'
  BY <1>1, <1>2, <1>3, <1>4, <1>5 DEF ProducerSound
<1> QED
  BY <1>1, <1>6 DEF Owns, k

\* A producer that goes from stage to stage within a pair.
SamePair(k, j) ==
    /\ DOMAIN k = JobFields
    /\ k.cmd = j.cmd /\ k.root = j.root /\ k.predictions = j.predictions
    /\ k.causal = j.causal /\ k.pair = j.pair /\ k.rows = j.rows

\* A producer that stays within its pair stays sound if its stage and measurements are.
LEMMA SamePairIsSound ==
    ASSUME NEW j, ProducerSound(j)',
           Complete(PlanIn(j.cmd, j.root))', Content(PlanIn(j.cmd, j.root))' = PlanPayload(j),
           NEW k, SamePair(k, j),
           k.at \in {"pair", "core", "chunks", "gpu", "saveCore", "saveChunk", "doses",
                     "evidence", "pointer"},
           k.step = "ready" \/ k.at \in Writing,
           MeasurementsSound(k)', StageSound(k)'
    PROVE  ProducerSound(k)'
<1>1. /\ k.cmd = j.cmd /\ k.root = j.root /\ k.predictions = j.predictions
      /\ k.causal = j.causal /\ k.pair = j.pair /\ k.rows = j.rows
  BY DEF SamePair
<1>2. PlanPayload(k) = PlanPayload(j)
  BY <1>1 DEF Source, PlanPayload
<1>3. InputsSound(k)' /\ RowsSound(k)'
  BY <1>1 DEF ProducerSound, InputsSound, RowsSound
<1> QED
  BY <1>1, <1>2, <1>3 DEF ProducerSound, SamePair

\* A producer between the test for existence, the creation and the write.
LEMMA StepFieldIsSound ==
    ASSUME NEW j, ProducerSound(j)', j.at \in Writing, NEW step, NEW k,
           k = [j EXCEPT !.step = step]
    PROVE  /\ ProducerSound(k)'
           /\ k.at = j.at /\ k.step = step
           /\ Target(k).path = Target(j).path
<1>1. /\ k.cmd = j.cmd /\ k.root = j.root /\ k.predictions = j.predictions
      /\ k.causal = j.causal /\ k.at = j.at /\ k.pair = j.pair
      /\ k.core = j.core /\ k.controls = j.controls /\ k.chunk = j.chunk
      /\ k.evidence = j.evidence /\ k.rows = j.rows /\ DOMAIN k = DOMAIN j
      /\ k.step = step
  BY DEF ProducerSound, JobFields
<1>2. Source(k) = Source(j) /\ PlanPayload(k) = PlanPayload(j)
  BY <1>1 DEF Source, PlanPayload
<1>3. InputsSound(k)' /\ RowsSound(k)' /\ MeasurementsSound(k)'
  BY <1>1 DEF ProducerSound, InputsSound, RowsSound, MeasurementsSound
<1>4. StageSound(k)'
  BY <1>1, <1>2 DEF ProducerSound, StageSound
<1>5. ProducerSound(k)'
  BY <1>1, <1>2, <1>3, <1>4 DEF ProducerSound
<1>6. Target(k).path = Target(j).path
  BY <1>1, SameTarget
<1> QED
  BY <1>1, <1>5, <1>6

\* A producer whose file holds what it wanted to write goes on soundly.
LEMMA NextIsSound ==
    ASSUME NEW j, ProducerSound(j)', j.at \in Writing, NEW path, path = Target(j).path,
           Complete(path)', Content(path)' = Target(j).content
    PROVE  ProducerSound(Target(j).next)' /\ ~Owns(Target(j).next)
<1>1. CASE j.at = "plan"
  <2> DEFINE k == At(j, "pair")
  <2>1. /\ Target(j).next = k /\ Target(j).content = PlanPayload(j)
        /\ path = PlanIn(j.cmd, j.root)
    BY <1>1, TargetPaths DEF Target
  <2>2. /\ SamePair(k, j) /\ k.at = "pair" /\ k.step = "ready" /\ k.core = j.core
        /\ k.controls = j.controls /\ ~Owns(k)
    BY DEF ProducerSound, JobFields, At, SamePair, Owns
  <2>3. Complete(PlanIn(j.cmd, j.root))' /\ Content(PlanIn(j.cmd, j.root))' = PlanPayload(j)
    BY <2>1 DEF PlanIn, Path
  <2> HIDE DEF k
  <2>4. MeasurementsSound(k)' /\ StageSound(k)'
    BY <1>1, <2>2 DEF ProducerSound, MeasurementsSound, StageSound, SamePair
  <2>5. ProducerSound(k)'
    BY <2>2, <2>3, <2>4, SamePairIsSound
  <2> QED
    BY <2>1, <2>2, <2>5
<1>2. CASE j.at = "saveCore"
  <2> DEFINE k == At(j, "gpu")
  <2>1. Target(j).next = k
    BY <1>2 DEF Target
  <2>2. /\ SamePair(k, j) /\ k.at = "gpu" /\ k.step = "ready" /\ k.core = j.core
        /\ k.controls = j.controls /\ ~Owns(k)
    BY DEF ProducerSound, JobFields, At, SamePair, Owns
  <2>3. Complete(PlanIn(j.cmd, j.root))' /\ Content(PlanIn(j.cmd, j.root))' = PlanPayload(j)
    BY <1>2 DEF ProducerSound, PlanPayload, Source
  <2> HIDE DEF k
  <2>4. MeasurementsSound(k)' /\ StageSound(k)'
    BY <1>2, <2>2 DEF ProducerSound, MeasurementsSound, StageSound, SamePair
  <2>5. ProducerSound(k)'
    BY <2>2, <2>3, <2>4, SamePairIsSound
  <2> QED
    BY <2>1, <2>2, <2>5
<1>3. CASE j.at = "saveChunk"
  <2> DEFINE k == [At(j, "gpu") EXCEPT !.chunk = 0]
  <2>1. Target(j).next = k
    BY <1>3 DEF Target
  <2>2. /\ SamePair(k, j) /\ k.at = "gpu" /\ k.step = "ready" /\ k.core = j.core
        /\ k.controls = j.controls /\ ~Owns(k)
    BY DEF ProducerSound, JobFields, At, SamePair, Owns
  <2>3. Complete(PlanIn(j.cmd, j.root))' /\ Content(PlanIn(j.cmd, j.root))' = PlanPayload(j)
    BY <1>3 DEF ProducerSound, PlanPayload, Source
  <2> HIDE DEF k
  <2>4. MeasurementsSound(k)' /\ StageSound(k)'
    BY <1>3, <2>2 DEF ProducerSound, MeasurementsSound, StageSound, SamePair
  <2>5. ProducerSound(k)'
    BY <2>2, <2>3, <2>4, SamePairIsSound
  <2> QED
    BY <2>1, <2>2, <2>5
<1>4. CASE j.at = "evidence"
  <2> DEFINE k == At(j, "pointer")
  <2>1. Target(j).next = k
    BY <1>4 DEF Target
  <2>2. /\ SamePair(k, j) /\ k.at = "pointer" /\ k.step = "ready" /\ k.core = j.core
        /\ k.controls = j.controls /\ ~Owns(k) /\ k.evidence = j.evidence
    BY DEF ProducerSound, JobFields, At, SamePair, Owns
  <2>3. Complete(PlanIn(j.cmd, j.root))' /\ Content(PlanIn(j.cmd, j.root))' = PlanPayload(j)
    BY <1>4 DEF ProducerSound, PlanPayload, Source
  <2> HIDE DEF k
  <2>4. MeasurementsSound(k)'
    BY <1>4, <2>2 DEF ProducerSound, MeasurementsSound, SamePair
  <2>5. Source(k) = Source(j)
    BY <2>2 DEF Source, SamePair
  <2>6. StageSound(k)'
    <3>1. Complete(EvidenceIn(j.cmd, j.root, j.evidence))'
      BY <1>4, TargetPaths DEF EvidenceIn, Path
    <3> QED
      BY <1>4, <2>2, <2>5, <3>1 DEF ProducerSound, StageSound, SamePair
  <2>7. ProducerSound(k)'
    BY <2>2, <2>3, <2>4, <2>6, SamePairIsSound
  <2> QED
    BY <2>1, <2>2, <2>7
<1>5. CASE j.at = "pointer"
  <2>1. /\ Target(j).next = NextPair(j, j.evidence) /\ Target(j).content = j.evidence
        /\ path = PointerIn(j.cmd, j.root, j.pair)
    BY <1>5, TargetPaths DEF Target
  <2>2. PointsTo(j.cmd, j.root, j.pair, j.evidence)'
    BY <2>1 DEF PointsTo, PointerIn, Path
  <2> QED
    BY <1>5, <2>1, <2>2, NextPairIsSound
<1> QED
  BY <1>1, <1>2, <1>3, <1>4, <1>5 DEF Writing

\* What a producer writes is sound where it writes it.
LEMMA TargetIsSound ==
    ASSUME NEW j, ProducerSound(j)', j.at \in Writing
    PROVE  \E kind \in {"plan", "core", "chunk", "evidence", "pointer"} : \E of :
               /\ Target(j).path = Path(j.cmd, j.root, kind, of)
               /\ ContentSound(j.cmd, j.root, kind, of, Target(j).content)'
<1>0. j.cmd \in Producers /\ j.cmd # "report"
  BY DEF ProducerSound, InputsSound, Producers
<1>1. j.at # "plan" => /\ Complete(PlanIn(j.cmd, j.root))'
                       /\ SourceIn(j.cmd, j.root)' = Source(j)
  BY DEF ProducerSound, SourceIn, PlanPayload, Source
<1>2. Source(j).predictions = j.predictions
  BY <1>0 DEF Source, CausalSource, SensitivitySource
<1>3. CASE j.at = "plan"
  <2>1. Target(j).content = PlanPayload(j)
    BY <1>3 DEF Target
  <2>2. PayloadSound(j.cmd, PlanPayload(j))'
    <3>1. PlanPayload(j).source = Source(j)
      BY DEF PlanPayload
    <3>2. CASE j.cmd = "causal"
      BY <3>1, <3>2 DEF ProducerSound, InputsSound, PayloadSound, Source
    <3>3. CASE j.cmd = "sensitivity"
      <4>1. j.causal \in Published("causal")' /\ j.predictions \in Predictions
        BY <3>3 DEF ProducerSound, InputsSound
      <4>2. PlanPayload(j).source = SensitivitySource(j.predictions, j.causal)
        BY <3>1, <3>3 DEF Source
      <4> QED
        BY <3>3, <4>1, <4>2 DEF PayloadSound
    <3> QED
      BY <1>0, <3>2, <3>3 DEF Producers
  <2>3. ContentSound(j.cmd, j.root, "plan", 0, Target(j).content)'
    BY <1>0, <2>1, <2>2 DEF ContentSound
  <2> QED
    BY <1>3, <2>3, TargetPaths DEF PlanIn
<1>4. CASE j.at = "saveCore"
  <2>1. /\ Target(j).content.result = j.core /\ Target(j).content.source = Source(j)
        /\ Target(j).content.index = j.pair
    BY <1>4 DEF Target
  <2>2. CoreMeasured(j.predictions, j.pair, j.core)'
    BY <1>4 DEF ProducerSound, MeasurementsSound
  <2>3. ContentSound(j.cmd, j.root, "core", j.pair, Target(j).content)'
    BY <1>0, <1>1, <1>2, <1>4, <2>1, <2>2 DEF ContentSound
  <2> QED
    BY <1>4, <2>3, TargetPaths
<1>5. CASE j.at = "saveChunk"
  <2>1. Target(j).content = j.controls[j.chunk]
    BY <1>5 DEF Target
  <2>2. MeasuredFor(j.predictions, j.pair, j.chunk, j.controls[j.chunk])'
    BY <1>5 DEF ProducerSound, MeasurementsSound
  <2>3. PICK of : of = <<j.pair, j.chunk>>
    OBVIOUS
  <2>4. of[1] = j.pair /\ of[2] = j.chunk
    BY <2>3
  <2>5. ContentSound(j.cmd, j.root, "chunk", of, Target(j).content)'
    BY <1>0, <1>1, <1>2, <1>5, <2>1, <2>2, <2>4 DEF ContentSound
  <2> QED
    BY <1>5, <2>3, <2>5, TargetPaths
<1>6. CASE j.at = "evidence"
  <2>1. Target(j).content = j.evidence
    BY <1>6 DEF Target
  <2>2. ContentSound(j.cmd, j.root, "evidence", j.evidence, Target(j).content)'
    BY <1>0, <1>1, <1>6, <2>1 DEF ContentSound
  <2> QED
    BY <1>6, <2>2, TargetPaths
<1>7. CASE j.at = "pointer"
  <2>1. Target(j).content = j.evidence
    BY <1>7 DEF Target
  <2>2. /\ EvidenceSound(j.cmd, Source(j), j.pair, j.evidence)'
        /\ Complete(EvidenceIn(j.cmd, j.root, j.evidence))'
    BY <1>7 DEF ProducerSound, StageSound, Source
  <2>3. PICK source : source = Source(j)
    OBVIOUS
  <2>4. EvidenceSound(j.cmd, source, j.pair, j.evidence)' /\ SourceIn(j.cmd, j.root)' = source
    BY <1>1, <1>7, <2>2, <2>3
  <2>5. ContentSound(j.cmd, j.root, "pointer", j.pair, Target(j).content)'
    BY <1>0, <1>1, <1>7, <2>1, <2>2, <2>4 DEF ContentSound
  <2> QED
    BY <1>7, <2>5, TargetPaths DEF PointerIn
<1> QED
  BY <1>3, <1>4, <1>5, <1>6, <1>7 DEF Writing

\* A producer's job stays sound when other files appear.
LEMMA ProducerSoundStays ==
    ASSUME Grow, NEW j, ProducerSound(j)
    PROVE  ProducerSound(j)'
<1>1. JobSound(j)'
  BY JobSoundStays DEF JobSound
<1> QED
  BY <1>1 DEF JobSound, OverSound, ProducerSound, PublicationSound, EvaluationSound

\* A process that is over is sound and owns nothing.
LEMMA OverIsSound ==
    ASSUME NEW how \in {"idle", "refused"}
    PROVE  JobSound(Over(how)) /\ JobSound(Over(how))' /\ ~Owns(Over(how))
BY DEF JobSound, OverSound, OverFields, Over, Owns

\* Goto changes one process and no other.
LEMMA GotoUpdates ==
    ASSUME NEW p, NEW n, Goto(p, n)
    PROVE  proc' = [proc EXCEPT ![p] = n]
BY DEF Goto

(* _write_or_verify_json keeps everything sound: it goes on only over a file that
   holds what it wanted to write. *)
LEMMA VerifyIsSound ==
    ASSUME Sound, NEW p \in Procs, NEW j, ProducerSound(j)', j.at \in Writing,
           WriteOrVerify(p, j), opened' = opened, measured \subseteq measured'
    PROVE  Sound'
<1>1. PICK path : path = Target(j).path
  OBVIOUS
<1>2. files' = files
  BY DEF WriteOrVerify
<1>3. CASE ~Exists(path)
  <2>1. PICK n : n = [j EXCEPT !.step = "create"]
    OBVIOUS
  <2>2. Goto(p, n)
    BY <1>1, <1>3, <2>1 DEF WriteOrVerify
  <2>3. ProducerSound(n)' /\ n.at = j.at /\ n.step = "create"
    BY <2>1, StepFieldIsSound
  <2>4. JobSound(n)' /\ ~Owns(n)
    BY <2>3 DEF JobSound, Owns, Writing
  <2> QED
    BY <1>2, <2>2, <2>4, GotoUpdates, QuietStepIsSound
<1>4. CASE Exists(path) /\ files[path] = Holding(Target(j).content)
  <2>1. PICK n : n = Target(j).next
    OBVIOUS
  <2>2. Goto(p, n)
    BY <1>1, <1>4, <2>1 DEF WriteOrVerify
  <2>3. Complete(path)' /\ Content(path)' = Target(j).content
    BY <1>2, <1>4 DEF Complete, Content, Exists, Holding
  <2>4. ProducerSound(n)' /\ ~Owns(n)
    BY <1>1, <2>1, <2>3, NextIsSound
  <2>5. JobSound(n)'
    BY <2>4 DEF JobSound
  <2> QED
    BY <1>2, <2>2, <2>4, <2>5, GotoUpdates, QuietStepIsSound
<1>5. CASE Exists(path) /\ files[path] # Holding(Target(j).content)
  <2>1. Goto(p, Over("refused"))
    BY <1>1, <1>5 DEF WriteOrVerify
  <2> QED
    BY <1>2, <2>1, OverIsSound, GotoUpdates, QuietStepIsSound
<1> QED
  BY <1>3, <1>4, <1>5

\* A step of p that puts something at a path of its own.
LEMMA PutStepIsSound ==
    ASSUME Sound, NEW p \in Procs, NEW n, Goto(p, n), NEW path, NEW held, Put(path, held),
           ~Complete(path), \A q \in Procs \ {p} :
                              Owns(proc[q]) => Target(proc[q]).path # path,
           measured' = measured, opened' = opened,
           JobSound(n)', FileSound(path)',
           Owns(n) => Target(n).path = path /\ held.state # "whole"
    PROVE  Sound'
<1>1. /\ Grow
      /\ path \in DOMAIN files' /\ files'[path] = held
      /\ \A f \in DOMAIN files' : f # path => f \in DOMAIN files /\ files'[f] = files[f]
  BY PutGrows
<1>2. \A f \in DOMAIN files' : f \notin DOMAIN files \/ files'[f] # files[f] => FileSound(f)'
  BY <1>1
<1>3. \A q \in Procs \ {p} : Owns(proc[q]) => files'[Target(proc[q]).path].state # "whole"
  <2> TAKE q \in Procs \ {p}
  <2> HAVE Owns(proc[q])
  <2>1. PICK f : f = Target(proc[q]).path
    OBVIOUS
  <2>2. f \in DOMAIN files /\ files[f].state # "whole" /\ f # path
    BY <2>1 DEF Sound, OwnersSound, Exists, Complete
  <2>3. f \in DOMAIN files' /\ files'[f] = files[f]
    BY <1>1, <2>2 DEF Grow
  <2> QED
    BY <2>1, <2>2, <2>3
<1>4. Owns(n) => /\ Target(n).path \in DOMAIN files'
                 /\ files'[Target(n).path].state # "whole"
                 /\ \A q \in Procs \ {p} : Owns(proc[q]) => Target(proc[q]).path # Target(n).path
  BY <1>1
<1>5. proc' = [proc EXCEPT ![p] = n]
  BY DEF Goto
<1> QED
  BY <1>1, <1>2, <1>3, <1>4, <1>5, StepIsSound

\* A path that does not exist belongs to nobody.
LEMMA FreshPath ==
    ASSUME Sound, NEW path, ~Exists(path)
    PROVE  ~Complete(path) /\ \A q \in Procs : Owns(proc[q]) => Target(proc[q]).path # path
BY DEF Sound, OwnersSound, Complete, Exists

\* A path that p owns belongs to p alone.
LEMMA OwnPath ==
    ASSUME Sound, NEW p \in Procs, Owns(proc[p])
    PROVE  /\ ~Complete(Target(proc[p]).path)
           /\ \A q \in Procs \ {p} :
                Owns(proc[q]) => Target(proc[q]).path # Target(proc[p]).path
BY DEF Sound, OwnersSound

\* The four parts of a path.
LEMMA PathParts ==
    ASSUME NEW cmd, NEW root, NEW kind, NEW of, NEW path, path = Path(cmd, root, kind, of)
    PROVE  /\ path[1] = cmd /\ path[2] = root /\ path[3] = kind /\ path[4] = of
           /\ path = Path(path[1], path[2], path[3], path[4])
BY DEF Path

\* The exclusive creation of a file keeps everything sound.
LEMMA CreateIsSound ==
    ASSUME Sound, NEW p \in Procs, Create(p)
    PROVE  Sound'
<1>1. PICK j : j = proc[p]
  OBVIOUS
<1>2. PICK path : path = Target(j).path
  OBVIOUS
<1>3. ProducerSound(j) /\ j.at \in Writing /\ j.step = "create"
  <2>1. JobSound(j) /\ j.step = "create"
    BY <1>1 DEF Sound, Create
  <2> QED
    BY <2>1 DEF JobSound, OverSound, ProducerSound, PublicationSound, EvaluationSound
<1>4. measured' = measured /\ opened' = opened
  BY DEF Create, Quiet
<1>5. CASE Exists(path)
  <2>1. Goto(p, Over("refused")) /\ files' = files
    BY <1>1, <1>2, <1>5 DEF Create, Refuse
  <2> QED
    BY <1>4, <2>1, OverIsSound, GotoUpdates, QuietStepIsSound
<1>6. CASE ~Exists(path)
  <2>1. PICK n : n = [j EXCEPT !.step = "write"]
    OBVIOUS
  <2>2. Put(path, Torn) /\ Goto(p, n)
    BY <1>1, <1>2, <1>6, <2>1 DEF Create
  <2>3. ~Complete(path) /\ \A q \in Procs : Owns(proc[q]) => Target(proc[q]).path # path
    BY <1>6, FreshPath
  <2>4. Grow /\ files'[path] = Torn
    BY <1>4, <2>2, <2>3, PutGrows
  <2>5. ProducerSound(j)'
    BY <1>3, <2>4, ProducerSoundStays
  <2>6. ProducerSound(n)' /\ Target(n).path = path
    BY <1>2, <1>3, <2>1, <2>5, StepFieldIsSound
  <2>7. FileSound(path)'
    <3>1. PICK kind \in {"plan", "core", "chunk", "evidence", "pointer"} :
              \E of : path = Path(j.cmd, j.root, kind, of)
      BY <1>2, <1>3, <2>5, TargetIsSound
    <3>2. PICK of : path = Path(j.cmd, j.root, kind, of)
      BY <3>1
    <3>3. path[3] # "receipt" /\ path = Path(path[1], path[2], path[3], path[4])
      BY <3>1, <3>2, PathParts
    <3>4. ~Complete(path)'
      BY <2>4 DEF Complete, Torn
    <3> QED
      BY <3>3, <3>4 DEF FileSound
  <2>8. JobSound(n)'
    BY <2>6 DEF JobSound
  <2>9. Torn.state # "whole"
    BY DEF Torn
  <2>10. \A q \in Procs \ {p} : Owns(proc[q]) => Target(proc[q]).path # path
    BY <2>3
  <2> QED
    BY <1>4, <2>2, <2>3, <2>6, <2>7, <2>8, <2>9, <2>10, PutStepIsSound
<1> QED
  BY <1>5, <1>6

\* Filling the file that a process has created keeps everything sound.
LEMMA WriteIsSound ==
    ASSUME Sound, NEW p \in Procs, Write(p)
    PROVE  Sound'
<1>1. PICK j : j = proc[p]
  OBVIOUS
<1>2. PICK path : path = Target(j).path
  OBVIOUS
<1>3. PICK content : content = Target(j).content
  OBVIOUS
<1>4. PICK n : n = Target(j).next
  OBVIOUS
<1>5. JobSound(j) /\ j.step = "write"
  BY <1>1 DEF Sound, Write
<1>6. Put(path, Holding(content)) /\ Goto(p, n) /\ measured' = measured /\ opened' = opened
  BY <1>1, <1>2, <1>3, <1>4 DEF Write, Quiet
<1>7. ~Complete(path) /\ \A q \in Procs \ {p} : Owns(proc[q]) => Target(proc[q]).path # path
  BY <1>1, <1>2, <1>5, OwnPath DEF Owns
<1>8. Grow /\ path \in DOMAIN files' /\ files'[path] = Holding(content)
  BY <1>6, <1>7, PutGrows
<1>9. Complete(path)' /\ Content(path)' = content /\ files'[path] = Holding(content)
  BY <1>8 DEF Complete, Exists, Content, Holding
<1>10. CASE ProducerSound(j)
  <2>1. j.at \in Writing
    BY <1>5, <1>10 DEF ProducerSound
  <2>2. ProducerSound(j)'
    BY <1>8, <1>10, ProducerSoundStays
  <2>3. ProducerSound(n)' /\ ~Owns(n)
    BY <1>2, <1>3, <1>4, <1>9, <2>1, <2>2, NextIsSound
  <2>4. FileSound(path)'
    <3>1. PICK kind \in {"plan", "core", "chunk", "evidence", "pointer"} :
              \E of : /\ path = Path(j.cmd, j.root, kind, of)
                      /\ ContentSound(j.cmd, j.root, kind, of, content)'
      BY <1>2, <1>3, <2>1, <2>2, TargetIsSound
    <3>2. PICK of : /\ path = Path(j.cmd, j.root, kind, of)
                    /\ ContentSound(j.cmd, j.root, kind, of, content)'
      BY <3>1
    <3>3. /\ path[1] = j.cmd /\ path[2] = j.root /\ path[3] = kind /\ path[4] = of
          /\ path = Path(path[1], path[2], path[3], path[4])
      BY <3>2, PathParts
    <3> QED
      BY <1>9, <1>10, <3>2, <3>3 DEF FileSound
  <2>5. JobSound(n)'
    BY <2>3 DEF JobSound
  <2> QED
    BY <1>6, <1>7, <2>3, <2>4, <2>5, PutStepIsSound
<1>11. CASE PublicationSound(j)
  <2>1. j.at = "open" /\ j.cmd \in {"cost", "report"}
    BY <1>5, <1>11 DEF PublicationSound
  <2>2. path = j.path /\ content = j.content /\ n = Over("idle")
    BY <1>2, <1>3, <1>4, <2>1 DEF Target
  <2>3. path = Path(j.cmd, "out", "receipt", j.content)
    BY <1>11, <2>2 DEF PublicationSound, ReceiptPath
  <2>4. /\ path[1] = j.cmd /\ path[4] = j.content
        /\ path = Path(path[1], path[2], path[3], path[4])
    BY <2>3, PathParts
  <2>5. j.cmd = "report" => j.content.inputs \in opened'
    BY <1>6, <1>11 DEF PublicationSound
  <2>6. FileSound(path)'
    <3>1. ContentSound(path[1], path[2], path[3], path[4], content)'
      BY <2>1, <2>2, <2>4, <2>5 DEF ContentSound, Producers
    <3> QED
      BY <1>9, <2>1, <2>4, <3>1 DEF FileSound, Producers
  <2>7. JobSound(n)' /\ ~Owns(n)
    BY <2>2, OverIsSound
  <2> QED
    BY <1>6, <1>7, <2>6, <2>7, PutStepIsSound
<1> QED
  BY <1>5, <1>10, <1>11 DEF JobSound, OverSound, EvaluationSound

\* The causal or sensitivity receipt of a root rests on that root's plan and pointers.
LEMMA ReceiptRows ==
    ASSUME Sound, NEW cmd \in Producers, NEW c \in Published(cmd)
    PROVE  /\ PayloadSound(cmd, c)
           /\ Len(c.evidence) = Len(Plan)
           /\ \A i \in Pairs : EvidenceSound(cmd, c.source, i, c.evidence[i])
<1>1. PICK path \in DOMAIN files :
          path[1] = cmd /\ path[3] = "receipt" /\ Complete(path) /\ c = path[4]
  BY DEF Published
<1>2. PICK root : root = path[2]
  OBVIOUS
<1>3. ContentSound(cmd, root, "receipt", c, Content(path))
  BY <1>1, <1>2 DEF Sound, FileSound
<1>4. Complete(PlanIn(cmd, root)) /\ c = Content(path) /\ ReceiptSound(cmd, root, c)
  BY <1>3 DEF ContentSound
<1>5. c.source = SourceIn(cmd, root)
  <2>1. PICK rows : rows = c.evidence
    OBVIOUS
  <2>2. PICK source : source = SourceIn(cmd, root)
    OBVIOUS
  <2>3. c = ReceiptOver(cmd, source, rows)
    BY <1>4, <2>1, <2>2 DEF ReceiptSound
  <2>4. ReceiptOver(cmd, source, rows).source = source
    BY DEF ReceiptOver
  <2> QED
    BY <2>2, <2>3, <2>4
<1>6. PayloadSound(cmd, c)
  <2>1. PICK plan : plan = PlanIn(cmd, root)
    OBVIOUS
  <2>2. /\ plan \in DOMAIN files /\ Complete(plan)
        /\ plan[1] = cmd /\ plan[2] = root /\ plan[3] = "plan" /\ plan[4] = 0
    BY <1>4, <2>1, PathParts DEF Complete, Exists, PlanIn
  <2>3. PayloadSound(cmd, Content(plan))
    BY <2>2 DEF Sound, FileSound, ContentSound
  <2>4. Content(plan).source = c.source
    BY <1>5, <2>1 DEF SourceIn
  <2> QED
    BY <2>3, <2>4 DEF PayloadSound
<1>7. ASSUME NEW i \in Pairs
      PROVE  EvidenceSound(cmd, c.source, i, c.evidence[i])
  <2>1. PICK pointer : pointer = PointerIn(cmd, root, i)
    OBVIOUS
  <2>2. Complete(pointer) /\ Content(pointer) = c.evidence[i]
    BY <1>4, <1>7, <2>1 DEF ReceiptSound, PointsTo
  <2>3. /\ pointer \in DOMAIN files
        /\ pointer[1] = cmd /\ pointer[2] = root /\ pointer[3] = "pointer" /\ pointer[4] = i
    BY <2>1, <2>2, PathParts DEF Complete, Exists, PointerIn
  <2>4. ContentSound(cmd, root, "pointer", i, c.evidence[i])
    BY <2>2, <2>3 DEF Sound, FileSound
  <2> QED
    BY <1>5, <2>4 DEF ContentSound
<1> QED
  BY <1>4, <1>6, <1>7 DEF ReceiptSound

\* Past its first stage a producer's root holds the plan of its own inputs.
LEMMA PlanKnown ==
    ASSUME NEW j, ProducerSound(j)', j.at # "plan"
    PROVE  /\ Complete(PlanIn(j.cmd, j.root))'
           /\ Content(PlanIn(j.cmd, j.root))' = PlanPayload(j)
BY DEF ProducerSound, PlanPayload, Source

\* The shape of a producer's step: what it is before, and that its root has not moved.
LEMMA ProducerBefore ==
    ASSUME Sound, NEW p \in Procs, NEW j, j = proc[p],
           j.at \in {"plan", "pair", "core", "chunks", "gpu", "saveCore", "saveChunk",
                     "doses", "evidence", "pointer", "publish", "rename"},
           files' = files, measured \subseteq measured', opened' = opened
    PROVE  ProducerSound(j) /\ ProducerSound(j)'
<1>1. ProducerSound(j)
  BY KindsApart DEF Sound
<1>2. Grow
  BY DEF Grow
<1> QED
  BY <1>1, <1>2, ProducerSoundStays

\* A process that ends leaves everything sound.
LEMMA RefuseIsSound ==
    ASSUME Sound, NEW p \in Procs, Goto(p, Over("refused")) \/ Goto(p, Over("idle")),
           files' = files, measured \subseteq measured', opened' = opened
    PROVE  Sound'
BY OverIsSound, GotoUpdates, QuietStepIsSound

\* A producer that stays within a pair and writes nothing.
LEMMA StageStepIsSound ==
    ASSUME Sound, NEW p \in Procs, NEW j, ProducerSound(j)', j.at # "plan",
           NEW k, SamePair(k, j), Goto(p, k),
           k.at \in {"pair", "core", "chunks", "gpu", "saveCore", "saveChunk", "doses",
                     "evidence", "pointer"},
           k.step = "ready" \/ (k.step = "create" /\ k.at \in Writing),
           MeasurementsSound(k)', StageSound(k)',
           files' = files, measured \subseteq measured', opened' = opened
    PROVE  Sound'
<1>1. ProducerSound(k)'
  BY PlanKnown, SamePairIsSound
<1>2. JobSound(k)' /\ ~Owns(k)
  BY <1>1 DEF JobSound, Owns
<1> QED
  BY <1>2, GotoUpdates, QuietStepIsSound

\* Taking over a pair's evidence, or beginning the pair, keeps everything sound.
LEMMA LoadPairIsSound ==
    ASSUME Sound, NEW p \in Procs, LoadPair(p)
    PROVE  Sound'
<1>1. PICK j : j = proc[p]
  OBVIOUS
<1>2. /\ j.at = "pair" /\ files' = files /\ measured' = measured /\ opened' = opened
  BY <1>1 DEF LoadPair, Ready, Quiet
<1>3. ProducerSound(j) /\ ProducerSound(j)'
  BY <1>1, <1>2, ProducerBefore
<1>4. PICK pointer : pointer = Content(PointerPath(j))
  OBVIOUS
<1>5. CASE Exists(PointerPath(j))
  <2>1. CASE /\ Complete(PointerPath(j)) /\ Complete(EvidencePath(j, pointer))
             /\ EvidenceUsable(j, pointer)
    <3>1. PICK k : k = NextPair(j, pointer)
      OBVIOUS
    <3>2. Goto(p, k)
      BY <1>1, <1>4, <1>5, <2>1, <3>1 DEF LoadPair
    <3>3. PointsTo(j.cmd, j.root, j.pair, pointer)'
      <4>1. PICK path : path = PointerIn(j.cmd, j.root, j.pair)
        OBVIOUS
      <4>2. Complete(path) /\ Content(path) = pointer
        BY <1>4, <2>1, <4>1 DEF PointerIn, PointerPath
      <4>3. Complete(path)' /\ Content(path)' = pointer
        BY <1>2, <4>2 DEF Complete, Content, Exists
      <4> QED
        BY <4>1, <4>3 DEF PointsTo, PointerIn
    <3>4. JobSound(k)' /\ ~Owns(k)
      BY <1>2, <1>3, <3>1, <3>3, NextPairIsSound DEF JobSound
    <3> QED
      BY <1>2, <3>2, <3>4, GotoUpdates, QuietStepIsSound
  <2>2. CASE ~(/\ Complete(PointerPath(j)) /\ Complete(EvidencePath(j, pointer))
               /\ EvidenceUsable(j, pointer))
    <3>1. Goto(p, Over("refused"))
      BY <1>1, <1>4, <1>5, <2>2 DEF LoadPair
    <3> QED
      BY <1>2, <3>1, RefuseIsSound
  <2> QED
    BY <2>1, <2>2
<1>6. CASE ~Exists(PointerPath(j))
  <2>1. j.cmd = "sensitivity" /\ j.pair \in Pairs =>
            j.causal.evidence[j.pair].pair.valid \in BOOLEAN
    <3> HAVE j.cmd = "sensitivity" /\ j.pair \in Pairs
    <3>1. j.causal \in Published("causal")
      BY <1>3 DEF ProducerSound, InputsSound
    <3>2. EvidenceSound("causal", j.causal.source, j.pair, j.causal.evidence[j.pair])
      BY <3>1, ReceiptRows DEF Producers
    <3> QED
      BY <3>2 DEF EvidenceSound
  <2>2. CASE PairIsValid(j)
    <3>1. PICK k : k = At(j, IF j.cmd = "causal" THEN "core" ELSE "doses")
      OBVIOUS
    <3>2. Goto(p, k)
      BY <1>1, <1>6, <2>2, <3>1 DEF LoadPair
    <3>3. /\ SamePair(k, j) /\ k.at = (IF j.cmd = "causal" THEN "core" ELSE "doses")
          /\ k.step = "ready" /\ k.core = j.core /\ k.controls = j.controls
      BY <1>3, <3>1 DEF ProducerSound, JobFields, At, SamePair
    <3>4. MeasurementsSound(k)'
      BY <1>3, <3>3 DEF ProducerSound, MeasurementsSound, SamePair
    <3>5. j.cmd # "causal" /\ j.pair \in Pairs => j.causal.evidence[j.pair].pair.valid = TRUE
      BY <1>3, <2>1, <2>2 DEF PairIsValid, ProducerSound, InputsSound, Producers
    <3>6. k.cmd = j.cmd /\ k.pair = j.pair /\ k.causal = j.causal
      BY <3>3 DEF SamePair
    <3>7. j.cmd = "causal" => InvalidReason(Plan[j.pair]) = "none"
      BY <2>2 DEF PairIsValid
    <3>8. j.cmd \in Producers
      BY <1>3 DEF ProducerSound, InputsSound
    <3>9. StageSound(k)'
      BY <3>3, <3>5, <3>6, <3>7, <3>8 DEF StageSound, Producers
    <3> QED
      BY <1>2, <1>3, <3>2, <3>3, <3>4, <3>9, StageStepIsSound
  <2>3. CASE ~PairIsValid(j)
    <3>1. PICK e : e = IF j.cmd = "causal"
                         THEN InvalidEvidence(Source(j), j.pair, Plan[j.pair])
                         ELSE InvalidDoses(Source(j), j.pair, Plan[j.pair],
                                           j.causal.evidence[j.pair].pair.reason)
      OBVIOUS
    <3>2. PICK k : k = [At(j, "evidence") EXCEPT !.evidence = e]
      OBVIOUS
    <3>3. Goto(p, k)
      BY <1>1, <1>6, <2>3, <3>1, <3>2 DEF LoadPair
    <3>4. /\ SamePair(k, j) /\ k.at = "evidence" /\ k.step = "ready" /\ k.core = j.core
          /\ k.controls = j.controls /\ k.evidence = e
      BY <1>3, <3>2 DEF ProducerSound, JobFields, At, SamePair
    <3>5. MeasurementsSound(k)'
      BY <1>3, <3>4 DEF ProducerSound, MeasurementsSound, SamePair
    <3>6. e.pair.valid = FALSE /\ e.source = Source(j) /\ e.pair.index = j.pair
      BY <3>1 DEF InvalidEvidence, InvalidDoses, PairIdentity
    <3>7. EvidenceSound(j.cmd, Source(j), j.pair, e)'
      <4>1. CASE j.cmd = "causal"
        <5>1. e = InvalidEvidence(Source(j), j.pair, Plan[j.pair])
          BY <3>1, <4>1
        <5>2. InvalidReason(Plan[j.pair]) # "none"
          BY <2>3, <4>1 DEF PairIsValid
        <5>3. PICK source : source = Source(j)
          OBVIOUS
        <5> QED
          BY <3>6, <4>1, <5>1, <5>2, <5>3 DEF EvidenceSound
      <4>2. CASE j.cmd # "causal"
        <5>1. j.cmd = "sensitivity" /\ Source(j).causal = j.causal
          BY <1>3, <4>2 DEF ProducerSound, InputsSound, Producers, Source, SensitivitySource
        <5>2. j.pair \in Pairs => j.causal.evidence[j.pair].pair.valid = FALSE
          BY <2>1, <2>3, <5>1 DEF PairIsValid
        <5>3. e = InvalidDoses(Source(j), j.pair, Plan[j.pair],
                               Source(j).causal.evidence[j.pair].pair.reason)
          BY <3>1, <4>2, <5>1
        <5>4. PICK source : source = Source(j)
          OBVIOUS
        <5> QED
          BY <3>6, <4>2, <5>1, <5>2, <5>3, <5>4 DEF EvidenceSound
      <4> QED
        BY <4>1, <4>2
    <3>8. Source(k) = Source(j) /\ k.cmd = j.cmd /\ k.pair = j.pair
      BY <3>4 DEF Source, SamePair
    <3>9. StageSound(k)'
      BY <3>4, <3>7, <3>8 DEF StageSound
    <3> QED
      BY <1>2, <1>3, <3>3, <3>4, <3>5, <3>9, StageStepIsSound
  <2> QED
    BY <2>2, <2>3
<1> QED
  BY <1>5, <1>6

\* Taking over an earlier core keeps everything sound: it is bound to the source.
LEMMA LoadCoreIsSound ==
    ASSUME Sound, NEW p \in Procs, LoadCore(p)
    PROVE  Sound'
<1>1. PICK j : j = proc[p]
  OBVIOUS
<1>2. /\ j.at = "core" /\ files' = files /\ measured' = measured /\ opened' = opened
  BY <1>1 DEF LoadCore, Ready, Quiet
<1>3. ProducerSound(j) /\ ProducerSound(j)'
  BY <1>1, <1>2, ProducerBefore
<1>4. PICK core : core = Content(CorePath(j))
  OBVIOUS
<1>5. CASE ~Exists(CorePath(j))
  <2>1. PICK k : k = At(j, "chunks")
    OBVIOUS
  <2>2. Goto(p, k)
    BY <1>1, <1>5, <2>1 DEF LoadCore
  <2>3. /\ SamePair(k, j) /\ k.at = "chunks" /\ k.step = "ready" /\ k.core = j.core
        /\ k.controls = j.controls
    BY <1>3, <2>1 DEF ProducerSound, JobFields, At, SamePair
  <2>4. MeasurementsSound(k)' /\ StageSound(k)'
    BY <1>2, <1>3, <2>3 DEF ProducerSound, MeasurementsSound, StageSound, SamePair
  <2> QED
    BY <1>2, <1>3, <2>2, <2>3, <2>4, StageStepIsSound
<1>6. CASE Exists(CorePath(j)) /\ Complete(CorePath(j)) /\ CoreUsable(j, core)
  <2>1. PICK k : k = [At(j, "chunks") EXCEPT !.core = core.result]
    OBVIOUS
  <2>2. Goto(p, k)
    BY <1>1, <1>4, <1>6, <2>1 DEF LoadCore
  <2>3. /\ SamePair(k, j) /\ k.at = "chunks" /\ k.step = "ready" /\ k.core = core.result
        /\ k.controls = j.controls
    BY <1>3, <2>1 DEF ProducerSound, JobFields, At, SamePair
  <2>4. CoreMeasured(j.predictions, j.pair, core.result)
    <3>1. PICK path : path = CorePath(j)
      OBVIOUS
    <3>2. /\ path \in DOMAIN files /\ Complete(path) /\ Content(path) = core
          /\ path[1] = j.cmd /\ path[2] = j.root /\ path[3] = "core" /\ path[4] = j.pair
      BY <1>4, <1>6, <3>1, PathParts DEF Exists, CorePath
    <3>3. ContentSound(j.cmd, j.root, "core", j.pair, core)
      BY <3>2 DEF Sound, FileSound
    <3>4. j.cmd = "causal" /\ SourceIn(j.cmd, j.root).predictions = j.predictions
      BY <1>2, <1>3
      DEF ProducerSound, StageSound, SourceIn, PlanPayload, Source, CausalSource
    <3> QED
      BY <3>3, <3>4 DEF ContentSound, Producers
  <2>5. CoreMeasured(j.predictions, j.pair, core.result)'
    BY <1>2, <2>4 DEF CoreMeasured, MeasuredFor
  <2>6. MeasurementsSound(k)' /\ StageSound(k)'
    BY <1>2, <1>3, <2>3, <2>5 DEF ProducerSound, MeasurementsSound, StageSound, SamePair
  <2> QED
    BY <1>2, <1>3, <2>2, <2>3, <2>6, StageStepIsSound
<1>7. CASE Exists(CorePath(j)) /\ ~(Complete(CorePath(j)) /\ CoreUsable(j, core))
  <2>1. Goto(p, Over("refused"))
    BY <1>1, <1>4, <1>7 DEF LoadCore
  <2> QED
    BY <1>2, <2>1, RefuseIsSound
<1> QED
  BY <1>5, <1>6, <1>7

(* Taking over earlier chunks keeps everything sound, though they carry no source:
   the plan in their root does. *)
LEMMA LoadChunksIsSound ==
    ASSUME Sound, NEW p \in Procs, LoadChunks(p)
    PROVE  Sound'
<1>1. PICK j : j = proc[p]
  OBVIOUS
<1>2. /\ j.at = "chunks" /\ files' = files /\ measured' = measured /\ opened' = opened
  BY <1>1 DEF LoadChunks, Ready, Quiet
<1>3. ProducerSound(j) /\ ProducerSound(j)'
  BY <1>1, <1>2, ProducerBefore
<1>4. PICK here : here = {k \in 1 .. Controls : Exists(ChunkPath(j, k))}
  OBVIOUS
<1>5. CASE \E k \in here : ~Complete(ChunkPath(j, k))
  <2>1. Goto(p, Over("refused"))
    BY <1>1, <1>4, <1>5 DEF LoadChunks
  <2> QED
    BY <1>2, <2>1, RefuseIsSound
<1>6. CASE \A k \in here : Complete(ChunkPath(j, k))
  <2>1. PICK controls : controls = [k \in here |-> Content(ChunkPath(j, k))]
    OBVIOUS
  <2>2. PICK k : k = [At(j, "gpu") EXCEPT !.controls = controls]
    OBVIOUS
  <2>3. Goto(p, k)
    BY <1>1, <1>4, <1>6, <2>1, <2>2 DEF LoadChunks
  <2>4. /\ SamePair(k, j) /\ k.at = "gpu" /\ k.step = "ready" /\ k.core = j.core
        /\ k.controls = controls
    BY <1>3, <2>2 DEF ProducerSound, JobFields, At, SamePair
  <2>5. ASSUME NEW c \in DOMAIN controls
        PROVE  MeasuredFor(j.predictions, j.pair, c, controls[c])
    <3>1. PICK path : path = ChunkPath(j, c)
      OBVIOUS
    <3>2. PICK of : of = <<j.pair, c>>
      OBVIOUS
    <3>3. of[1] = j.pair /\ of[2] = c
      BY <3>2
    <3>4. Complete(path) /\ Content(path) = controls[c]
      BY <1>6, <2>1, <2>5, <3>1
    <3>5. /\ path \in DOMAIN files
          /\ path[1] = j.cmd /\ path[2] = j.root /\ path[3] = "chunk" /\ path[4] = of
      BY <3>1, <3>2, <3>4, PathParts DEF Complete, Exists, ChunkPath
    <3>6. ContentSound(j.cmd, j.root, "chunk", of, controls[c])
      BY <3>4, <3>5 DEF Sound, FileSound
    <3>7. j.cmd = "causal" /\ SourceIn(j.cmd, j.root).predictions = j.predictions
      BY <1>2, <1>3
      DEF ProducerSound, StageSound, SourceIn, PlanPayload, Source, CausalSource
    <3> QED
      BY <3>3, <3>6, <3>7 DEF ContentSound, Producers
  <2>6. \A c \in DOMAIN controls : MeasuredFor(j.predictions, j.pair, c, controls[c])'
    BY <1>2, <2>5 DEF MeasuredFor
  <2>7. DOMAIN controls \subseteq 1 .. Controls
    BY <1>4, <2>1
  <2>8. StageSound(k)'
    BY <1>2, <1>3, <2>4 DEF ProducerSound, StageSound, SamePair
  <2>9. MeasurementsSound(k)'
    <3>1. k.core # Unavailable => CoreMeasured(k.predictions, k.pair, k.core)'
      BY <1>2, <1>3, <2>4 DEF ProducerSound, MeasurementsSound, SamePair
    <3>2. \A c \in DOMAIN k.controls :
              MeasuredFor(k.predictions, k.pair, c, k.controls[c])'
      BY <2>4, <2>6 DEF SamePair
    <3> QED
      BY <2>4, <2>7, <3>1, <3>2 DEF MeasurementsSound
  <2> QED
    BY <1>2, <1>3, <2>3, <2>4, <2>8, <2>9, StageStepIsSound
<1> QED
  BY <1>5, <1>6

\* A measured core keeps everything sound.
LEMMA MeasureCoreIsSound ==
    ASSUME Sound, NEW p \in Procs, MeasureCore(p)
    PROVE  Sound'
<1>1. PICK j : j = proc[p]
  OBVIOUS
<1>2. PICK result \in CoreResults :
          /\ Measure(j, 0, result)
          /\ WriteOrVerify(p, [At(j, "saveCore") EXCEPT !.core = result])
  BY <1>1 DEF MeasureCore
<1>3. PICK k : k = [At(j, "saveCore") EXCEPT !.core = result]
  OBVIOUS
<1>4. WriteOrVerify(p, k)
  BY <1>2, <1>3
<1>5. /\ j.at = "gpu" /\ files' = files /\ opened' = opened /\ measured \subseteq measured'
      /\ MeasuredFor(j.predictions, j.pair, 0, result)'
  BY <1>1, <1>2 DEF MeasureCore, Ready, WriteOrVerify, Measure, MeasuredFor
<1>6. ProducerSound(j) /\ ProducerSound(j)'
  BY <1>1, <1>5, ProducerBefore
<1>7. /\ SamePair(k, j) /\ k.at = "saveCore" /\ k.step = "ready" /\ k.core = result
      /\ k.controls = j.controls
  BY <1>3, <1>6 DEF ProducerSound, JobFields, At, SamePair
<1>8. MeasurementsSound(k)' /\ StageSound(k)'
  BY <1>5, <1>6, <1>7
  DEF ProducerSound, MeasurementsSound, StageSound, SamePair, CoreMeasured
<1>9. ProducerSound(k)'
  BY <1>5, <1>6, <1>7, <1>8, PlanKnown, SamePairIsSound
<1> QED
  BY <1>4, <1>5, <1>7, <1>9, VerifyIsSound DEF Writing

\* The control measured next is one that is missing.
LEMMA FirstMissingIsMissing ==
    ASSUME NEW j, DOMAIN j.controls \subseteq 1 .. Controls, DOMAIN j.controls # 1 .. Controls
    PROVE  FirstMissing(j) \in (1 .. Controls) \ DOMAIN j.controls
<1> DEFINE T == (1 .. Controls) \ DOMAIN j.controls
           P(k) == /\ k \notin DOMAIN j.controls
                   /\ \A i \in 1 .. k - 1 : i \in DOMAIN j.controls
<1>1. PICK k \in T : \A m \in T : k <= m
  <2>1. PICK D : D = DOMAIN j.controls
    OBVIOUS
  <2>2. T \subseteq Nat
    BY EvidenceAssumption
  <2>3. \E k \in 1 .. Controls : k \notin D
    BY <2>1
  <2>4. T # {}
    BY <2>1, <2>3
  <2> QED
    BY <2>2, <2>4, LeastNatural
<1>2. \A i \in 1 .. k - 1 : i \in DOMAIN j.controls
  BY <1>1, EvidenceAssumption
<1>3. \E m \in 1 .. Controls : P(m)
  BY <1>1, <1>2
<1>4. FirstMissing(j) = CHOOSE m \in 1 .. Controls : P(m)
  BY DEF FirstMissing
<1>5. (CHOOSE m \in 1 .. Controls : P(m)) \in 1 .. Controls
      /\ P(CHOOSE m \in 1 .. Controls : P(m))
  BY <1>3
<1> QED
  BY <1>4, <1>5

(* A measured chunk keeps everything sound, also when the file was there already and
   the value in memory is kept. *)
LEMMA MeasureChunkIsSound ==
    ASSUME Sound, NEW p \in Procs, MeasureChunk(p)
    PROVE  Sound'
<1>1. PICK j : j = proc[p]
  OBVIOUS
<1>2. PICK chunk : chunk = FirstMissing(j)
  OBVIOUS
<1>3. PICK effect \in EffectResults :
        LET next == [j EXCEPT !.controls = [i \in DOMAIN @ \cup {chunk} |->
                                               IF i = chunk THEN effect ELSE @[i]]] IN
        /\ Measure(j, chunk, effect)
        /\ Goto(p, IF ~Exists(ChunkPath(j, chunk))
                     THEN [next EXCEPT !.at = "saveChunk", !.chunk = chunk,
                                       !.step = "create"]
                   ELSE IF \E i \in 1 .. Controls :
                             Exists(ChunkPath(j, i)) /\ ~Complete(ChunkPath(j, i))
                     THEN Over("refused") ELSE next)
  BY <1>1, <1>2, Zenon DEF MeasureChunk
<1>4. PICK controls : controls = [i \in DOMAIN j.controls \cup {chunk} |->
                                    IF i = chunk THEN effect ELSE j.controls[i]]
  OBVIOUS
<1>5. PICK next : next = [j EXCEPT !.controls = controls]
  OBVIOUS
<1>6. /\ j.at = "gpu" /\ j.step = "ready" /\ files' = files /\ opened' = opened
      /\ measured \subseteq measured'
      /\ MeasuredFor(j.predictions, j.pair, chunk, effect)'
  BY <1>1, <1>3 DEF MeasureChunk, Ready, Measure, MeasuredFor
<1>7. ProducerSound(j) /\ ProducerSound(j)'
  BY <1>1, <1>6, ProducerBefore
<1>8. PICK saving : saving = [next EXCEPT !.at = "saveChunk", !.chunk = chunk,
                                          !.step = "create"]
  OBVIOUS
<1>9. Goto(p, saving) \/ Goto(p, Over("refused")) \/ Goto(p, next)
  BY <1>3, <1>4, <1>5, <1>8
<1>10. /\ SamePair(next, j) /\ next.at = "gpu" /\ next.step = "ready"
       /\ next.core = j.core /\ next.controls = controls
  BY <1>5, <1>6, <1>7 DEF ProducerSound, JobFields, SamePair
<1>11. /\ SamePair(saving, j) /\ saving.at = "saveChunk" /\ saving.step = "create"
       /\ saving.core = j.core /\ saving.controls = controls /\ saving.chunk = chunk
  <2>1. DOMAIN next = JobFields
    BY <1>10 DEF SamePair
  <2> QED
    BY <1>8, <1>10, <2>1 DEF JobFields, SamePair
<1>12. \A k \in DOMAIN controls : MeasuredFor(j.predictions, j.pair, k, controls[k])'
  <2> TAKE k \in DOMAIN controls
  <2>1. CASE k = chunk
    BY <1>4, <1>6, <2>1
  <2>2. CASE k # chunk
    <3>1. k \in DOMAIN j.controls /\ controls[k] = j.controls[k]
      BY <1>4, <2>2
    <3> QED
      BY <1>7, <3>1 DEF ProducerSound, MeasurementsSound
  <2> QED
    BY <2>1, <2>2
<1>13. chunk \in DOMAIN controls /\ DOMAIN controls \subseteq 1 .. Controls
  <2>1. DOMAIN j.controls \subseteq 1 .. Controls
    BY <1>7 DEF ProducerSound, MeasurementsSound
  <2>2. DOMAIN j.controls # 1 .. Controls
    BY <1>1 DEF MeasureChunk
  <2> QED
    BY <1>2, <1>4, <2>1, <2>2, FirstMissingIsMissing
<1>14. CASE Goto(p, saving)
  <2>1. MeasurementsSound(saving)' /\ StageSound(saving)'
    BY <1>6, <1>7, <1>11, <1>12, <1>13
    DEF ProducerSound, MeasurementsSound, StageSound, SamePair
  <2>2. saving.at \in Writing
    BY <1>11 DEF Writing
  <2> QED
    BY <1>6, <1>7, <1>11, <1>14, <2>1, <2>2, StageStepIsSound
<1>15. CASE Goto(p, next)
  <2>1. MeasurementsSound(next)' /\ StageSound(next)'
    BY <1>6, <1>7, <1>10, <1>12, <1>13
    DEF ProducerSound, MeasurementsSound, StageSound, SamePair
  <2> QED
    BY <1>6, <1>7, <1>10, <1>15, <2>1, StageStepIsSound
<1>16. CASE Goto(p, Over("refused"))
  BY <1>6, <1>16, RefuseIsSound
<1> QED
  BY <1>9, <1>14, <1>15, <1>16

\* A producer that puts sound evidence together goes on to write it.
LEMMA EvidenceStepIsSound ==
    ASSUME Sound, NEW p \in Procs, NEW j, j = proc[p], j.at \in {"gpu", "doses"}, NEW e,
           Goto(p, [At(j, "evidence") EXCEPT !.evidence = e]),
           EvidenceSound(j.cmd, Source(j), j.pair, e)',
           files' = files, measured' = measured, opened' = opened
    PROVE  Sound'
<1>1. PICK k : k = [At(j, "evidence") EXCEPT !.evidence = e]
  OBVIOUS
<1>2. ProducerSound(j) /\ ProducerSound(j)'
  BY ProducerBefore
<1>3. /\ SamePair(k, j) /\ k.at = "evidence" /\ k.step = "ready" /\ k.core = j.core
      /\ k.controls = j.controls /\ k.evidence = e
  BY <1>1, <1>2 DEF ProducerSound, JobFields, At, SamePair
<1>4. MeasurementsSound(k)'
  BY <1>2, <1>3 DEF ProducerSound, MeasurementsSound, SamePair
<1>5. Source(k) = Source(j) /\ k.cmd = j.cmd /\ k.pair = j.pair
  BY <1>3 DEF Source, SamePair
<1>6. StageSound(k)'
  BY <1>3, <1>5 DEF StageSound, Source
<1>7. Goto(p, k)
  BY <1>1
<1> QED
  BY <1>2, <1>3, <1>4, <1>6, <1>7, StageStepIsSound

\* The evidence assembled from core and chunks is sound.
LEMMA AssembleIsSound ==
    ASSUME Sound, NEW p \in Procs, AssembleEvidence(p)
    PROVE  Sound'
<1>1. PICK j : j = proc[p]
  OBVIOUS
<1>2. PICK controls : controls = [k \in 1 .. Controls |-> j.controls[k]]
  OBVIOUS
<1>3. PICK e : e = ValidEvidence(Source(j), j.pair, Plan[j.pair], j.core, controls)
  OBVIOUS
<1>4. /\ j.at = "gpu" /\ j.core # Unavailable /\ DOMAIN j.controls = 1 .. Controls
      /\ Goto(p, [At(j, "evidence") EXCEPT !.evidence = e])
      /\ files' = files /\ measured' = measured /\ opened' = opened
  BY <1>1, <1>2, <1>3 DEF AssembleEvidence, Ready, Quiet
<1>5. ProducerSound(j) /\ ProducerSound(j)'
  BY <1>1, <1>4, ProducerBefore
<1>6. /\ j.cmd = "causal" /\ Source(j).predictions = j.predictions
      /\ InvalidReason(Plan[j.pair]) = "none"
  BY <1>4, <1>5 DEF ProducerSound, StageSound, Source, CausalSource
<1>7. CoreMeasured(j.predictions, j.pair, j.core)'
  BY <1>4, <1>5 DEF ProducerSound, MeasurementsSound
<1>8. /\ e.controls = controls /\ DOMAIN e.controls = 1 .. Controls /\ e.pair.valid = TRUE
      /\ e.source = Source(j) /\ e.pair.index = j.pair
  BY <1>2, <1>3 DEF ValidEvidence, PairIdentity
<1>9. \A k \in 1 .. Controls : MeasuredFor(j.predictions, j.pair, k, e.controls[k])'
  BY <1>2, <1>4, <1>5, <1>8 DEF ProducerSound, MeasurementsSound
<1>10. EvidenceSound(j.cmd, Source(j), j.pair, e)'
  <2>1. PICK source : source = Source(j)
    OBVIOUS
  <2>2. e = ValidEvidence(source, j.pair, Plan[j.pair], j.core, e.controls)
    BY <1>3, <1>8, <2>1
  <2>3. EvidenceSound(j.cmd, source, j.pair, e)'
    BY <1>6, <1>7, <1>8, <1>9, <2>1, <2>2 DEF EvidenceSound, CoreMeasured
  <2> QED
    BY <2>1, <2>3 DEF Source
<1> QED
  BY <1>1, <1>4, <1>10, EvidenceStepIsSound

\* The evidence of a sensitivity pair is sound.
LEMMA MeasureDosesIsSound ==
    ASSUME Sound, NEW p \in Procs, MeasureDoses(p)
    PROVE  Sound'
<1>1. PICK j : j = proc[p]
  OBVIOUS
<1>2. PICK core \in CoreResults :
        Goto(p, [At(j, "evidence") EXCEPT !.evidence =
               ValidDoses(Source(j), j.pair, Plan[j.pair], core)])
  BY <1>1 DEF MeasureDoses
<1>3. PICK e : e = ValidDoses(Source(j), j.pair, Plan[j.pair], core)
  OBVIOUS
<1>4. /\ j.at = "doses" /\ Goto(p, [At(j, "evidence") EXCEPT !.evidence = e])
      /\ files' = files /\ measured' = measured /\ opened' = opened
  BY <1>1, <1>2, <1>3 DEF MeasureDoses, Ready, Quiet
<1>5. ProducerSound(j) /\ ProducerSound(j)'
  BY <1>1, <1>4, ProducerBefore
<1>6. /\ j.cmd = "sensitivity" /\ Source(j).causal = j.causal
      /\ j.pair \in Pairs => j.causal.evidence[j.pair].pair.valid = TRUE
  BY <1>4, <1>5 DEF ProducerSound, StageSound, Source, SensitivitySource
<1>7. e.pair.valid = TRUE /\ e.source = Source(j) /\ e.pair.index = j.pair
  BY <1>3 DEF ValidDoses, PairIdentity
<1>8. EvidenceSound(j.cmd, Source(j), j.pair, e)'
  <2>1. PICK source : source = Source(j)
    OBVIOUS
  <2> QED
    BY <1>3, <1>6, <1>7, <2>1 DEF EvidenceSound
<1> QED
  BY <1>1, <1>4, <1>8, EvidenceStepIsSound

\* Plan, evidence and pointer are written or verified soundly.
LEMMA ProducerWritesSound ==
    ASSUME Sound, NEW p \in Procs, WritePlan(p) \/ WriteEvidence(p) \/ WritePointer(p)
    PROVE  Sound'
<1>1. PICK j : j = proc[p]
  OBVIOUS
<1>2. /\ j.at \in {"plan", "evidence", "pointer"} /\ WriteOrVerify(p, j)
      /\ files' = files /\ measured' = measured /\ opened' = opened
  BY <1>1 DEF WritePlan, WriteEvidence, WritePointer, Ready, WriteOrVerify, Quiet
<1>3. ProducerSound(j)'
  BY <1>1, <1>2, ProducerBefore
<1> QED
  BY <1>2, <1>3, VerifyIsSound DEF Writing

\* The decision to publish keeps everything sound.
LEMMA PublishTreeIsSound ==
    ASSUME Sound, NEW p \in Procs, PublishTree(p)
    PROVE  Sound'
<1>1. PICK j : j = proc[p]
  OBVIOUS
<1>2. PICK k : k = At(j, "rename")
  OBVIOUS
<1>3. /\ j.at = "publish" /\ files' = files /\ measured' = measured /\ opened' = opened
      /\ Goto(p, Over("refused")) \/ Goto(p, Over("idle")) \/ Goto(p, k)
  BY <1>1, <1>2 DEF PublishTree, Ready, Quiet
<1>4. ProducerSound(j) /\ ProducerSound(j)'
  BY <1>1, <1>3, ProducerBefore
<1>5. CASE Goto(p, Over("refused")) \/ Goto(p, Over("idle"))
  BY <1>3, <1>5, RefuseIsSound
<1>6. CASE Goto(p, k)
  <2>1. /\ k.cmd = j.cmd /\ k.root = j.root /\ k.predictions = j.predictions
        /\ k.causal = j.causal /\ k.pair = j.pair /\ k.rows = j.rows /\ k.core = j.core
        /\ k.controls = j.controls /\ k.at = "rename" /\ k.step = "ready"
        /\ DOMAIN k = DOMAIN j
    BY <1>2, <1>4 DEF ProducerSound, JobFields, At
  <2>2. PlanPayload(k) = PlanPayload(j)
    BY <2>1 DEF PlanPayload, Source
  <2>3. InputsSound(k)' /\ RowsSound(k)'
    BY <1>3, <1>4, <2>1 DEF ProducerSound, InputsSound, RowsSound
  <2>4. MeasurementsSound(k)' /\ StageSound(k)'
    BY <1>4, <2>1 DEF ProducerSound, MeasurementsSound, StageSound
  <2>5. Complete(PlanIn(k.cmd, k.root))' /\ Content(PlanIn(k.cmd, k.root))' = PlanPayload(k)
    BY <1>3, <1>4, <2>1, <2>2, PlanKnown
  <2>6. ProducerSound(k)'
    BY <1>4, <2>1, <2>3, <2>4, <2>5 DEF ProducerSound, PlanPayload, Source
  <2>7. JobSound(k)' /\ ~Owns(k)
    BY <2>1, <2>6 DEF JobSound, Owns
  <2> QED
    BY <1>3, <1>6, <2>7, GotoUpdates, QuietStepIsSound
<1> QED
  BY <1>3, <1>5, <1>6

\* The rename puts the receipt in place that plan and pointers determine.
LEMMA RenameTreeIsSound ==
    ASSUME Sound, NEW p \in Procs, RenameTree(p)
    PROVE  Sound'
<1>1. PICK j : j = proc[p]
  OBVIOUS
<1>2. PICK receipt : receipt = Receipt(j)
  OBVIOUS
<1>3. PICK path : path = ReceiptPath(j.cmd, j.root, receipt)
  OBVIOUS
<1>4. j.at = "rename" /\ measured' = measured /\ opened' = opened
  BY <1>1 DEF RenameTree, Ready, Quiet
<1>5. ProducerSound(j)
  BY <1>1, <1>4, KindsApart DEF Sound
<1>6. CASE Exists(path)
  <2>1. Goto(p, Over("refused")) /\ files' = files
    BY <1>1, <1>2, <1>3, <1>6 DEF RenameTree, Refuse
  <2> QED
    BY <1>4, <2>1, RefuseIsSound
<1>7. CASE ~Exists(path)
  <2>1. Put(path, Holding(receipt)) /\ Goto(p, Over("idle"))
    BY <1>1, <1>2, <1>3, <1>7 DEF RenameTree
  <2>2. ~Complete(path) /\ \A q \in Procs : Owns(proc[q]) => Target(proc[q]).path # path
    BY <1>7, FreshPath
  <2>3. Grow /\ path \in DOMAIN files' /\ files'[path] = Holding(receipt)
    BY <1>4, <2>1, <2>2, PutGrows
  <2>4. Complete(path)' /\ Content(path)' = receipt /\ files'[path] = Holding(receipt)
    BY <2>3 DEF Complete, Exists, Content, Holding
  <2>5. ProducerSound(j)'
    BY <1>5, <2>3, ProducerSoundStays
  <2>6. /\ path[1] = j.cmd /\ path[2] = j.root /\ path[3] = "receipt" /\ path[4] = receipt
        /\ path = Path(path[1], path[2], path[3], path[4])
    BY <1>3, PathParts DEF ReceiptPath
  <2>7. /\ Complete(PlanIn(j.cmd, j.root))'
        /\ SourceIn(j.cmd, j.root)' = Source(j)
    BY <1>4, <2>5 DEF ProducerSound, SourceIn, PlanPayload, Source
  <2>8. receipt = ReceiptOver(j.cmd, Source(j), j.rows) /\ receipt.evidence = j.rows
    BY <1>2 DEF Receipt, ReceiptOver
  <2>9. ReceiptSound(j.cmd, j.root, receipt)'
    <3>1. /\ IsSequence(j.rows) /\ Len(j.rows) = Len(Plan)
          /\ \A i \in 1 .. Len(Plan) : PointsTo(j.cmd, j.root, i, j.rows[i])'
      BY <1>4, <2>5 DEF ProducerSound, RowsSound
    <3>2. PICK source : source = Source(j)
      OBVIOUS
    <3>3. SourceIn(j.cmd, j.root)' = source /\ receipt = ReceiptOver(j.cmd, source, j.rows)
      BY <2>7, <2>8, <3>2
    <3> QED
      BY <2>8, <3>1, <3>3 DEF ReceiptSound, Pairs
  <2>10. j.cmd \in Producers /\ j.cmd # "report"
    BY <1>5 DEF ProducerSound, InputsSound, Producers
  <2>11. ContentSound(j.cmd, j.root, "receipt", receipt, receipt)'
    BY <2>7, <2>9, <2>10 DEF ContentSound
  <2>12. FileSound(path)'
    BY <2>4, <2>6, <2>11 DEF FileSound
  <2>13. \A q \in Procs \ {p} : Owns(proc[q]) => Target(proc[q]).path # path
    BY <2>2
  <2> QED
    BY <1>4, <2>1, <2>2, <2>12, <2>13, OverIsSound, PutStepIsSound
<1> QED
  BY <1>6, <1>7

\* Making the directory of a cost or report file keeps everything sound.
LEMMA PublishFileIsSound ==
    ASSUME Sound, NEW p \in Procs, PublishFile(p)
    PROVE  Sound'
<1>1. PICK j : j = proc[p]
  OBVIOUS
<1>2. PICK path : path = j.path
  OBVIOUS
<1>3. j.at = "mkdir" /\ measured' = measured /\ opened' = opened
  BY <1>1 DEF PublishFile, Ready, Quiet
<1>4. PublicationSound(j)
  BY <1>1, <1>3, KindsApart DEF Sound
<1>5. CASE Exists(path)
  <2>1. (Goto(p, Over("idle")) \/ Goto(p, Over("refused"))) /\ files' = files
    BY <1>1, <1>2, <1>5 DEF PublishFile, Refuse
  <2> QED
    BY <1>3, <2>1, RefuseIsSound
<1>6. CASE ~Exists(path)
  <2>1. PICK n : n = At(j, "open")
    OBVIOUS
  <2>2. Put(path, EmptyDir) /\ Goto(p, n)
    BY <1>1, <1>2, <1>6, <2>1 DEF PublishFile
  <2>3. ~Complete(path) /\ \A q \in Procs : Owns(proc[q]) => Target(proc[q]).path # path
    BY <1>6, FreshPath
  <2>4. files'[path] = EmptyDir
    BY <1>3, <2>2, <2>3, PutGrows
  <2>5. /\ n.cmd = j.cmd /\ n.root = j.root /\ n.at = "open" /\ n.step = "ready"
        /\ n.path = j.path /\ n.content = j.content /\ DOMAIN n = DOMAIN j
    BY <1>4, <2>1 DEF PublicationSound, PublishFields, At
  <2>6. JobSound(n)' /\ Target(n).path = path
    <3>1. PublicationSound(n)'
      BY <1>3, <1>4, <2>5 DEF PublicationSound
    <3> QED
      BY <1>2, <2>5, <3>1, TargetPaths DEF JobSound
  <2>7. FileSound(path)'
    <3>1. /\ path[1] = j.cmd /\ path = Path(path[1], path[2], path[3], path[4])
      BY <1>2, <1>4, PathParts DEF PublicationSound, ReceiptPath
    <3>2. ~Complete(path)' /\ j.cmd \notin Producers
      BY <1>4, <2>4 DEF Complete, EmptyDir, PublicationSound, Producers
    <3> QED
      BY <3>1, <3>2 DEF FileSound
  <2>8. \A q \in Procs \ {p} : Owns(proc[q]) => Target(proc[q]).path # path
    BY <2>3
  <2>9. EmptyDir.state # "whole"
    BY DEF EmptyDir
  <2> QED
    BY <1>3, <2>2, <2>3, <2>6, <2>7, <2>8, <2>9, PutStepIsSound
<1> QED
  BY <1>5, <1>6

\* Creating the file in it keeps everything sound.
LEMMA OpenFileIsSound ==
    ASSUME Sound, NEW p \in Procs, OpenFile(p)
    PROVE  Sound'
<1>1. PICK j : j = proc[p]
  OBVIOUS
<1>2. PICK path : path = j.path
  OBVIOUS
<1>3. PICK n : n = [j EXCEPT !.step = "write"]
  OBVIOUS
<1>4. /\ j.at = "open" /\ measured' = measured /\ opened' = opened
      /\ Put(path, Torn) /\ Goto(p, n)
  BY <1>1, <1>2, <1>3 DEF OpenFile, Ready, Quiet
<1>5. PublicationSound(j) /\ Target(j).path = path
  BY <1>1, <1>2, <1>4, KindsApart, TargetPaths DEF Sound
<1>6. ~Complete(path) /\ \A q \in Procs \ {p} : Owns(proc[q]) => Target(proc[q]).path # path
  BY <1>1, <1>4, <1>5, OwnPath DEF Owns
<1>7. files'[path] = Torn
  BY <1>4, <1>6, PutGrows
<1>8. /\ n.cmd = j.cmd /\ n.root = j.root /\ n.at = "open" /\ n.step = "write"
      /\ n.path = j.path /\ n.content = j.content /\ DOMAIN n = DOMAIN j
  BY <1>3, <1>4, <1>5 DEF PublicationSound, PublishFields
<1>9. JobSound(n)' /\ Target(n).path = path
  <2>1. PublicationSound(n)'
    BY <1>4, <1>5, <1>8 DEF PublicationSound
  <2> QED
    BY <1>2, <1>8, <2>1, TargetPaths DEF JobSound
<1>10. FileSound(path)'
  <2>1. path[1] = j.cmd /\ path = Path(path[1], path[2], path[3], path[4])
    BY <1>2, <1>5, PathParts DEF PublicationSound, ReceiptPath
  <2>2. ~Complete(path)' /\ j.cmd \notin Producers
    BY <1>5, <1>7 DEF Complete, Torn, PublicationSound, Producers
  <2> QED
    BY <2>1, <2>2 DEF FileSound
<1>11. Torn.state # "whole"
  BY DEF Torn
<1> QED
  BY <1>4, <1>6, <1>9, <1>10, <1>11, PutStepIsSound

\* An evaluation that accepts its receipts holds a sound chain.
LEMMA LoadReceiptsIsSound ==
    ASSUME Sound, NEW p \in Procs, LoadReceipts(p)
    PROVE  Sound'
<1>1. PICK j : j = proc[p]
  OBVIOUS
<1>2. PICK k : k = At(j, "raw")
  OBVIOUS
<1>3. j.at = "load" /\ files' = files /\ measured' = measured /\ opened' = opened
  BY <1>1 DEF LoadReceipts, Ready, Quiet, Refuse
<1>4. EvaluationSound(j)
  BY <1>1, <1>3, KindsApart DEF Sound
<1>5. CASE /\ CausalAccepted(j.causal, j.predictions)
           /\ SensitivityAccepted(j.sensitivity, j.predictions, j.causal)
           /\ CostAccepted(j.cost, j.predictions)
  <2>1. Goto(p, k)
    BY <1>1, <1>2, <1>5 DEF LoadReceipts
  <2>2. ChainSound(j)
    BY <1>4, <1>5 DEF ChainSound, EvaluationSound, CausalAccepted, SensitivityAccepted
  <2>3. /\ k.cmd = j.cmd /\ k.root = j.root /\ k.causal = j.causal /\ k.sensitivity = j.sensitivity
        /\ k.cost = j.cost /\ k.predictions = j.predictions /\ k.at = "raw"
        /\ k.step = "ready" /\ DOMAIN k = DOMAIN j
    BY <1>2, <1>4 DEF EvaluationSound, ReportFields, At
  <2>4. EvaluationSound(k)
    BY <1>4, <2>2, <2>3 DEF EvaluationSound, ChainSound
  <2>5. Grow
    BY <1>3 DEF Grow
  <2>6. JobSound(k)' /\ ~Owns(k)
    BY <2>3, <2>4, <2>5, JobSoundStays DEF JobSound, Owns
  <2> QED
    BY <1>3, <2>1, <2>6, GotoUpdates, QuietStepIsSound
<1>6. CASE ~(/\ CausalAccepted(j.causal, j.predictions)
             /\ SensitivityAccepted(j.sensitivity, j.predictions, j.causal)
             /\ CostAccepted(j.cost, j.predictions))
  <2>1. Goto(p, Over("refused"))
    BY <1>1, <1>6 DEF LoadReceipts, Refuse
  <2> QED
    BY <1>3, <2>1, RefuseIsSound
<1> QED
  BY <1>5, <1>6

\* Raw outcomes are opened on a sound chain, and the report names it.
LEMMA OpenRawIsSound ==
    ASSUME Sound, NEW p \in Procs, OpenRaw(p)
    PROVE  Sound'
<1>1. PICK j : j = proc[p]
  OBVIOUS
<1>2. PICK w : w = raw'
  OBVIOUS
<1>3. PICK o : o = Inputs(j)
  OBVIOUS
<1>4. PICK n : n = [Publishing("report", [inputs |-> o, raw |-> w]) EXCEPT !.alone = j.alone]
  OBVIOUS
<1>5. /\ j.at = "raw" /\ files' = files /\ measured' = measured
      /\ opened' = opened \cup {o}
      /\ Goto(p, n) \/ Goto(p, Over("refused"))
  BY <1>1, <1>2, <1>3, <1>4 DEF OpenRaw, Ready
<1>6. EvaluationSound(j)
  BY <1>1, <1>5, KindsApart DEF Sound
<1>7. Grow
  BY <1>5 DEF Grow
<1>8. ChainSound(o)
  <2>1. /\ o.predictions = j.predictions /\ o.causal = j.causal
        /\ o.sensitivity = j.sensitivity /\ o.cost = j.cost
    BY <1>3 DEF Inputs
  <2>2. ChainSound(j)
    BY <1>5, <1>6 DEF EvaluationSound
  <2> QED
    BY <2>1, <2>2 DEF ChainSound
<1>9. ChainSound(o)'
  BY <1>7, <1>8, ChainSoundStays
<1>10. JobSound(n)' /\ ~Owns(n)
  <2>1. PICK content : content = [inputs |-> o, raw |-> w]
    OBVIOUS
  <2>2. n = [Publishing("report", content) EXCEPT !.alone = j.alone]
    BY <1>4, <2>1
  <2>3. /\ n.cmd = "report" /\ n.root = "out" /\ n.at = "mkdir" /\ n.step = "ready"
        /\ n.content = content
        /\ n.path = ReceiptPath("report", "out", content) /\ DOMAIN n = PublishFields
    BY <2>2 DEF Publishing, PublishFields
  <2>4. content.inputs \in opened'
    BY <1>5, <2>1
  <2> QED
    BY <2>3, <2>4 DEF JobSound, PublicationSound, Owns
<1>11. \A q \in Procs \ {p} : Owns(proc[q]) => files'[Target(proc[q]).path].state # "whole"
  BY <1>5 DEF Sound, OwnersSound, Complete, Exists
<1>12. \A x \in opened' \ opened : ChainSound(x)'
  BY <1>5, <1>9
<1>13. CASE Goto(p, n)
  BY <1>5, <1>7, <1>10, <1>11, <1>12, <1>13, GotoUpdates, StepIsSound
<1>14. CASE Goto(p, Over("refused"))
  <2>1. PICK over : over = Over("refused")
    OBVIOUS
  <2>2. JobSound(over)' /\ ~Owns(over) /\ proc' = [proc EXCEPT ![p] = over]
    BY <1>14, <2>1, OverIsSound, GotoUpdates
  <2> QED
    BY <1>5, <1>7, <1>11, <1>12, <2>2, StepIsSound
<1> QED
  BY <1>5, <1>13, <1>14

\* A killed process leaves everything sound.
LEMMA DieIsSound ==
    ASSUME Sound, NEW p \in Procs, Die(p)
    PROVE  Sound'
<1>1. Goto(p, Over("idle")) /\ files' = files /\ measured' = measured /\ opened' = opened
  BY DEF Die
<1> QED
  BY <1>1, RefuseIsSound

\* Beginning next to others in the same root tells only `alone`.
LEMMA LaunchIsSound ==
    ASSUME Sound, NEW p \in Procs, NEW j, Launch(p, j),
           \A b \in BOOLEAN : JobSound([j EXCEPT !.alone = b]) /\ ~Owns([j EXCEPT !.alone = b])
    PROVE  Sound'
<1>1. PICK others : others = {q \in Procs \ {p} : SharesRoot(q, j)}
  OBVIOUS
<1>2. PICK n : n = [j EXCEPT !.alone = others = {}]
  OBVIOUS
<1>3. /\ files' = files /\ measured' = measured /\ opened' = opened
      /\ proc' = [q \in Procs |-> IF q = p THEN n
                                  ELSE IF q \in others THEN Alone(proc[q]) ELSE proc[q]]
  BY <1>1, <1>2 DEF Launch, Quiet, Alone
<1>4. Grow
  BY <1>3 DEF Grow
<1>5. JobSound(n) /\ ~Owns(n)
  <2>1. PICK b \in BOOLEAN : b = (others = {})
    OBVIOUS
  <2>2. n = [j EXCEPT !.alone = b]
    BY <1>2, <2>1
  <2> QED
    BY <2>2
<1>6. ASSUME NEW q \in Procs
      PROVE  /\ JobSound(proc'[q])
             /\ Owns(proc'[q]) =>
                  q # p /\ Owns(proc[q]) /\ Target(proc'[q]).path = Target(proc[q]).path
  <2>1. CASE q = p
    BY <1>3, <1>5, <2>1
  <2>2. CASE q # p /\ q \in others
    <3>1. PICK k : k = proc[q]
      OBVIOUS
    <3>2. JobSound(k) /\ k.at \notin {"idle", "refused"}
      BY <1>1, <2>2, <3>1 DEF Sound, SharesRoot, Active
    <3>3. ~OverSound(k)
      BY <3>2 DEF OverSound
    <3>4. proc'[q] = Alone(k)
      BY <1>3, <2>2, <3>1
    <3>5. JobSound(Alone(k)) /\ Owns(Alone(k)) = Owns(k)
          /\ (Owns(k) => Target(Alone(k)).path = Target(k).path)
      BY <3>2, <3>3, AloneIsSound
    <3> QED
      BY <2>2, <3>1, <3>4, <3>5
  <2>3. CASE q # p /\ q \notin others
    BY <1>3, <2>3 DEF Sound
  <2> QED
    BY <2>1, <2>2, <2>3
<1>7. \A q \in Procs : JobSound(proc[q])'
  <2> TAKE q \in Procs
  <2>1. PICK k : k = proc'[q]
    OBVIOUS
  <2>2. JobSound(k)
    BY <1>6, <2>1
  <2>3. JobSound(k)'
    BY <1>4, <2>2, JobSoundStays
  <2> QED
    BY <2>1, <2>3
<1>8. OwnersSound'
  <2>1. \A q \in Procs : Owns(proc[q])' =>
            Exists(Target(proc[q]).path)' /\ ~Complete(Target(proc[q]).path)'
    <3> TAKE q \in Procs
    <3> HAVE Owns(proc[q])'
    <3>1. PICK path : path = Target(proc'[q]).path
      OBVIOUS
    <3>2. Owns(proc[q]) /\ path = Target(proc[q]).path
      BY <1>6, <3>1
    <3>3. path \in DOMAIN files /\ files[path].state # "whole"
      BY <3>2 DEF Sound, OwnersSound, Exists, Complete
    <3> QED
      BY <1>3, <3>1, <3>3 DEF Exists, Complete
  <2>2. ASSUME NEW q \in Procs, NEW r \in Procs, q # r, Owns(proc[q])', Owns(proc[r])'
        PROVE  Target(proc[q]).path' # Target(proc[r]).path'
    BY <1>6, <2>2 DEF Sound, OwnersSound
  <2> QED
    BY <2>1, <2>2 DEF OwnersSound
<1>9. \A path \in DOMAIN files' : FileSound(path)'
  BY <1>3, <1>4, FileSoundStays DEF Sound
<1>10. \A o \in opened' : ChainSound(o)'
  BY <1>3, <1>4, ChainSoundStays DEF Sound
<1>11. DOMAIN proc' = Procs
  BY <1>3
<1> QED
  BY <1>7, <1>8, <1>9, <1>10, <1>11 DEF Sound

\* A producer that has just been started is sound, alone or not.
LEMMA JobBegins ==
    ASSUME NEW cmd \in Producers, NEW root \in Roots, NEW q \in Predictions, NEW causal,
           cmd = "sensitivity" => causal \in Published("causal")
                                    /\ causal.source = CausalSource(q),
           NEW b \in BOOLEAN
    PROVE  LET k == [Job(cmd, root, q, causal) EXCEPT !.alone = b]
           IN JobSound(k) /\ ~Owns(k)
<1> DEFINE k == [Job(cmd, root, q, causal) EXCEPT !.alone = b]
<1>1. /\ k.cmd = cmd /\ k.root = root /\ k.predictions = q /\ k.causal = causal
      /\ k.at = "plan" /\ k.step = "ready" /\ k.pair = 1 /\ k.core = Unavailable
      /\ k.controls = << >> /\ k.rows = << >> /\ DOMAIN k = JobFields
  BY DEF Job, JobFields
<1> HIDE DEF k
<1>2. InputsSound(k)
  BY <1>1 DEF InputsSound
<1>3. RowsSound(k)
  BY <1>1 DEF RowsSound, IsSequence
<1>4. MeasurementsSound(k) /\ StageSound(k)
  BY <1>1 DEF MeasurementsSound, StageSound
<1>5. ProducerSound(k) /\ ~Owns(k)
  BY <1>1, <1>2, <1>3, <1>4 DEF ProducerSound, Owns
<1> QED
  BY <1>5 DEF JobSound, k

\* Every command starts soundly.
LEMMA StartIsSound ==
    ASSUME Sound, NEW p \in Procs, Start(p)
    PROVE  Sound'
<1>1. CASE StartCausal(p)
  <2>1. PICK root \in Roots, q \in Predictions : Launch(p, Job("causal", root, q, Unavailable))
    BY <1>1 DEF StartCausal
  <2>2. \A b \in BOOLEAN :
            LET k == [Job("causal", root, q, Unavailable) EXCEPT !.alone = b]
            IN JobSound(k) /\ ~Owns(k)
    BY JobBegins DEF Producers
  <2> QED
    BY <2>1, <2>2, LaunchIsSound
<1>2. CASE StartSensitivity(p)
  <2>1. PICK root \in Roots, q \in Predictions, c \in Published("causal") :
            c.source = CausalSource(q) /\ Launch(p, Job("sensitivity", root, q, c))
    BY <1>2 DEF StartSensitivity
  <2>2. \A b \in BOOLEAN :
            LET k == [Job("sensitivity", root, q, c) EXCEPT !.alone = b]
            IN JobSound(k) /\ ~Owns(k)
    BY <2>1, JobBegins DEF Producers
  <2> QED
    BY <2>1, <2>2, LaunchIsSound
<1>3. CASE StartCost(p)
  <2>1. PICK q \in Predictions : Launch(p, Publishing("cost", [predictions |-> q]))
    BY <1>3 DEF StartCost
  <2>2. ASSUME NEW b \in BOOLEAN
        PROVE  LET k == [Publishing("cost", [predictions |-> q]) EXCEPT !.alone = b]
               IN JobSound(k) /\ ~Owns(k)
    <3>1. PICK content : content = [predictions |-> q]
      OBVIOUS
    <3>2. PICK k : k = [Publishing("cost", content) EXCEPT !.alone = b]
      OBVIOUS
    <3>3. /\ k.cmd = "cost" /\ k.root = "out" /\ k.at = "mkdir" /\ k.step = "ready"
          /\ k.content = content
          /\ k.path = ReceiptPath("cost", "out", content) /\ DOMAIN k = PublishFields
      BY <3>2 DEF Publishing, PublishFields
    <3>4. JobSound(k) /\ ~Owns(k)
      BY <3>3 DEF JobSound, PublicationSound, Owns
    <3> QED
      BY <3>1, <3>2, <3>4
  <2> QED
    BY <2>1, <2>2, LaunchIsSound
<1>4. CASE StartEvaluate(p)
  <2>1. PICK q \in Predictions, c \in Published("causal"), s \in Published("sensitivity"),
             path \in DOMAIN files :
            Launch(p, [cmd |-> "report", root |-> "out", at |-> "load", step |-> "ready",
                       alone |-> TRUE, predictions |-> q, causal |-> c, sensitivity |-> s,
                       cost |-> path])
    BY <1>4 DEF StartEvaluate
  <2>2. PICK j : j = [cmd |-> "report", root |-> "out", at |-> "load", step |-> "ready",
                      alone |-> TRUE, predictions |-> q, causal |-> c, sensitivity |-> s,
                      cost |-> path]
    OBVIOUS
  <2>3. ASSUME NEW b \in BOOLEAN
        PROVE  JobSound([j EXCEPT !.alone = b]) /\ ~Owns([j EXCEPT !.alone = b])
    <3>1. PICK k : k = [j EXCEPT !.alone = b]
      OBVIOUS
    <3>2. /\ k.cmd = "report" /\ k.root = "out" /\ k.at = "load" /\ k.step = "ready" /\ k.causal = c
          /\ k.sensitivity = s /\ DOMAIN k = ReportFields
      BY <2>2, <3>1 DEF ReportFields
    <3>3. JobSound(k) /\ ~Owns(k)
      BY <3>2 DEF JobSound, EvaluationSound, Owns
    <3> QED
      BY <3>1, <3>3
  <2>4. Launch(p, j)
    BY <2>1, <2>2
  <2> QED
    BY <2>3, <2>4, LaunchIsSound
<1> QED
  BY <1>1, <1>2, <1>3, <1>4 DEF Start

\* Every step of a running process keeps everything sound.
LEMMA ContinueIsSound ==
    ASSUME Sound, NEW p \in Procs, Continue(p)
    PROVE  Sound'
BY ProducerWritesSound, LoadPairIsSound, LoadCoreIsSound, LoadChunksIsSound,
   MeasureCoreIsSound, MeasureChunkIsSound, AssembleIsSound, MeasureDosesIsSound,
   PublishTreeIsSound, RenameTreeIsSound, PublishFileIsSound, OpenFileIsSound,
   LoadReceiptsIsSound, OpenRawIsSound, CreateIsSound, WriteIsSound
DEF Continue

\* An empty file system without processes is sound.
LEMMA InitIsSound == Init => Sound
<1> SUFFICES ASSUME Init PROVE Sound
  OBVIOUS
<1>1. \A p \in Procs : proc[p] = Over("idle")
  BY DEF Init
<1>2. \A p \in Procs : JobSound(proc[p]) /\ ~Owns(proc[p])
  BY <1>1, OverIsSound
<1>3. DOMAIN files = {} /\ opened = {} /\ DOMAIN proc = Procs
  BY DEF Init
<1> QED
  BY <1>2, <1>3 DEF Sound, OwnersSound

\* A stuttering step keeps everything sound.
LEMMA StutterIsSound ==
    ASSUME Sound, UNCHANGED vars
    PROVE  Sound'
<1>1. files' = files /\ proc' = proc /\ measured' = measured /\ opened' = opened
  BY DEF vars
<1>2. Grow
  BY <1>1 DEF Grow
<1>3. \A p \in Procs : JobSound(proc[p])'
  <2> TAKE p \in Procs
  <2>1. PICK j : j = proc[p]
    OBVIOUS
  <2>2. JobSound(j)'
    BY <1>2, <2>1, JobSoundStays DEF Sound
  <2> QED
    BY <1>1, <2>1, <2>2
<1>4. OwnersSound'
  BY <1>1 DEF Sound, OwnersSound, Exists, Complete
<1>5. \A path \in DOMAIN files' : FileSound(path)'
  BY <1>1, <1>2, FileSoundStays DEF Sound
<1>6. \A o \in opened' : ChainSound(o)'
  BY <1>1, <1>2, ChainSoundStays DEF Sound
<1> QED
  BY <1>1, <1>3, <1>4, <1>5, <1>6 DEF Sound

(* In every reachable state, whatever was started, interleaved or killed, every whole
   file is sound, every process holds only what sound files and its own measurements
   gave it, and a file being written belongs to one process. *)
THEOREM AlwaysSound == Spec => []Sound
<1>1. Sound /\ [Next]_vars => Sound'
  BY StartIsSound, ContinueIsSound, DieIsSound, StutterIsSound DEF Next
<1> QED
  BY <1>1, InitIsSound, PTL DEF Spec

(* A published causal receipt covers the whole plan, and every number in it was
   measured for its own predictions: the checkpoints that other processes and other
   lives left behind never bring in a measurement for other inputs. *)
THEOREM ReceiptsAreMeasured == Spec => []CausalReceiptsMeasured
<1>1. ASSUME Sound PROVE CausalReceiptsMeasured
  <2>1. ASSUME NEW c \in Published("causal")
        PROVE  \E q \in Predictions :
                 /\ c.source = CausalSource(q)
                 /\ Len(c.evidence) = Len(Plan)
                 /\ \A i \in {n \in Pairs : c.evidence[n].pair.valid} :
                      /\ \E core \in CoreResults :
                           /\ MeasuredFor(q, i, 0, core)
                           /\ c.evidence[i] = ValidEvidence(c.source, i, Plan[i], core,
                                                            c.evidence[i].controls)
                      /\ \A k \in 1 .. Controls :
                           MeasuredFor(q, i, k, c.evidence[i].controls[k])
    <3>1. PICK q \in Predictions : c.source = CausalSource(q)
      BY <1>1, <2>1, ReceiptRows DEF PayloadSound, Producers
    <3>2. c.source.predictions = q
      BY <3>1 DEF CausalSource
    <3>3. Len(c.evidence) = Len(Plan)
      BY <1>1, <2>1, ReceiptRows DEF Producers
    <3>4. ASSUME NEW i \in Pairs, c.evidence[i].pair.valid
          PROVE  /\ \E core \in CoreResults :
                      /\ MeasuredFor(q, i, 0, core)
                      /\ c.evidence[i] = ValidEvidence(c.source, i, Plan[i], core,
                                                       c.evidence[i].controls)
                 /\ \A k \in 1 .. Controls :
                      MeasuredFor(q, i, k, c.evidence[i].controls[k])
      <4>1. EvidenceSound("causal", c.source, i, c.evidence[i])
        BY <1>1, <2>1, <3>4, ReceiptRows DEF Producers
      <4> QED
        BY <3>2, <3>4, <4>1 DEF EvidenceSound
    <3> QED
      BY <3>1, <3>3, <3>4
  <2> QED
    BY <2>1 DEF CausalReceiptsMeasured
<1> QED
  BY <1>1, AlwaysSound, PTL

(* Raw outcomes are opened only on a published chain of causal receipt, sensitivity
   receipt and costs for one prediction receipt, and a report names such a chain. *)
THEOREM RawOpenedLast == Spec => []OutcomesOpenedLast
<1>1. ASSUME Sound PROVE OutcomesOpenedLast
  <2>1. ASSUME NEW o \in opened
        PROVE  /\ o.causal \in Published("causal")
               /\ o.sensitivity \in Published("sensitivity")
               /\ o.sensitivity.source.causal = o.causal
               /\ o.causal.source = CausalSource(o.predictions)
               /\ o.sensitivity.source.predictions = o.predictions
               /\ CostAccepted(o.cost, o.predictions)
               /\ \A i \in Pairs : o.sensitivity.evidence[i].pair.valid
                                     = o.causal.evidence[i].pair.valid
    <3>1. ChainSound(o)
      BY <1>1, <2>1 DEF Sound
    <3>2. /\ o.sensitivity.source.causal = o.causal
          /\ o.sensitivity.source.predictions = o.predictions
      BY <3>1 DEF ChainSound, SensitivitySource
    <3>3. ASSUME NEW i \in Pairs
          PROVE  o.sensitivity.evidence[i].pair.valid = o.causal.evidence[i].pair.valid
      <4>1. o.sensitivity \in Published("sensitivity")
        BY <3>1 DEF ChainSound
      <4>2. EvidenceSound("sensitivity", o.sensitivity.source, i, o.sensitivity.evidence[i])
        BY <1>1, <3>3, <4>1, ReceiptRows DEF Producers
      <4> QED
        BY <3>2, <3>3, <4>2 DEF EvidenceSound
    <3> QED
      BY <3>1, <3>2, <3>3 DEF ChainSound
  <2>2. ASSUME NEW r \in Published("report")
        PROVE  r.inputs \in opened
    <3>1. PICK path \in DOMAIN files :
              path[1] = "report" /\ path[3] = "receipt" /\ Complete(path) /\ r = path[4]
      BY <2>2 DEF Published
    <3> QED
      BY <1>1, <3>1 DEF Sound, FileSound, ContentSound
  <2> QED
    BY <2>1, <2>2 DEF OutcomesOpenedLast
<1> QED
  BY <1>1, AlwaysSound, PTL

\* Two sequences that agree on every index are equal.
LEMMA SameSequence ==
    ASSUME NEW s, NEW t, IsSequence(s), IsSequence(t), Len(s) = Len(t),
           \A i \in 1 .. Len(s) : s[i] = t[i]
    PROVE  s = t
<1>1. /\ s \in Seq({s[i] : i \in DOMAIN s} \cup {t[i] : i \in DOMAIN t})
      /\ t \in Seq({s[i] : i \in DOMAIN s} \cup {t[i] : i \in DOMAIN t})
  BY DEF IsSequence
<1> QED
  BY <1>1

\* A root has at most one receipt of either producer.
LEMMA SameReceipt ==
    ASSUME Sound, NEW cmd \in Producers, NEW root,
           NEW x \in DOMAIN files, x[1] = cmd, x[2] = root, x[3] = "receipt",
           NEW y \in DOMAIN files, y[1] = cmd, y[2] = root, y[3] = "receipt"
    PROVE  x = y
<1>1. PICK c : c = x[4]
  OBVIOUS
<1>2. PICK d : d = y[4]
  OBVIOUS
<1>3. /\ x = Path(cmd, root, "receipt", c) /\ ReceiptSound(cmd, root, c)
      /\ y = Path(cmd, root, "receipt", d) /\ ReceiptSound(cmd, root, d)
  <2>1. ReceiptSound(cmd, root, c)
    <3>1. ContentSound(cmd, root, "receipt", c, Content(x))
      BY <1>1 DEF Sound, FileSound
    <3> QED
      BY <3>1 DEF ContentSound
  <2>2. ReceiptSound(cmd, root, d)
    <3>1. ContentSound(cmd, root, "receipt", d, Content(y))
      BY <1>2 DEF Sound, FileSound
    <3> QED
      BY <3>1 DEF ContentSound
  <2>3. x = Path(x[1], x[2], x[3], x[4]) /\ y = Path(y[1], y[2], y[3], y[4])
    BY DEF Sound, FileSound
  <2> QED
    BY <1>1, <1>2, <2>1, <2>2, <2>3
<1>4. c.evidence = d.evidence
  <2>1. /\ IsSequence(c.evidence) /\ IsSequence(d.evidence)
        /\ Len(c.evidence) = Len(Plan) /\ Len(d.evidence) = Len(Plan)
        /\ \A i \in Pairs : c.evidence[i] = d.evidence[i]
    BY <1>3 DEF ReceiptSound, PointsTo
  <2>2. PICK s : s = c.evidence
    OBVIOUS
  <2>3. PICK t : t = d.evidence
    OBVIOUS
  <2>4. s = t
    BY <2>1, <2>2, <2>3, SameSequence DEF Pairs
  <2> QED
    BY <2>2, <2>3, <2>4
<1>5. c = d
  <2>1. /\ c = ReceiptOver(cmd, SourceIn(cmd, root), c.evidence)
        /\ d = ReceiptOver(cmd, SourceIn(cmd, root), d.evidence)
    BY <1>3 DEF ReceiptSound
  <2> QED
    BY <1>4, <2>1
<1> QED
  BY <1>3, <1>5

(* One output root has one causal receipt, by however many processes, in however many
   lives it is produced. *)
THEOREM OneReceiptPerRoot == Spec => []OneCausalReceiptPerRoot
<1>1. ASSUME Sound PROVE OneCausalReceiptPerRoot
  <2> SUFFICES ASSUME NEW root \in Roots
               PROVE  Cardinality({path \in DOMAIN files :
                          path[1] = "causal" /\ path[2] = root /\ path[3] = "receipt"}) <= 1
    BY DEF OneCausalReceiptPerRoot
  <2> DEFINE S == {path \in DOMAIN files :
                       path[1] = "causal" /\ path[2] = root /\ path[3] = "receipt"}
  <2>1. \A x, y \in S : x = y
    BY <1>1, SameReceipt DEF Producers
  <2> HIDE DEF S
  <2>2. CASE S = {}
    <3>1. Cardinality(S) = 0
      BY <2>2, FS_EmptySet
    <3> QED
      BY <3>1 DEF S
  <2>3. CASE S # {}
    <3>1. PICK x : S = {x}
      BY <2>1, <2>3
    <3>2. Cardinality(S) = 1
      BY <3>1, FS_Singleton
    <3> QED
      BY <3>2 DEF S
  <2> QED
    BY <2>2, <2>3
<1> QED
  BY <1>1, AlwaysSound, PTL

-----------------------------------------------------------------------------
(* The evaluation accepts what the producers publish. *)

\* The plan has PairLimit slots for every seed, each one that the evaluation can check.
LEMMA PlanFits ==
    /\ Len(Plan) = Len(Seeds) * PairLimit /\ Len(Plan) \in Nat /\ DOMAIN Plan = Pairs
    /\ IsFiniteSet(Pairs)
    /\ \A i \in Pairs : SlotFits(States, Seeds[(i - 1) \div PairLimit + 1], Plan[i])
<1>1. IsCohort(States) /\ EnoughStates(States)
  BY PostScoreAssumption
<1>2. /\ Len(Plan) = Len(Seeds) * PairLimit /\ DOMAIN Plan = 1 .. Len(Seeds) * PairLimit
      /\ \A i \in DOMAIN Plan : SlotFits(States, Seeds[(i - 1) \div PairLimit + 1], Plan[i])
  BY <1>1, PlanIsFit DEF Plan
<1>3. Len(Seeds) * PairLimit \in Nat
  BY PairPlanAssumption
<1>4. IsFiniteSet(1 .. Len(Plan))
  BY <1>2, <1>3, FS_Interval
<1> QED
  BY <1>2, <1>3, <1>4 DEF Pairs

\* The rows of a published receipt are one for every pair, and its sums are the
\* producer's.
LEMMA ReceiptIsWhole ==
    ASSUME Sound, NEW cmd \in Producers, NEW c \in Published(cmd)
    PROVE  DOMAIN c.evidence = Pairs /\ c = ReceiptOver(cmd, c.source, c.evidence)
<1>1. PICK path \in DOMAIN files :
          path[1] = cmd /\ path[3] = "receipt" /\ Complete(path) /\ c = path[4]
  BY DEF Published
<1>2. ContentSound(cmd, path[2], "receipt", c, Content(path))
  BY <1>1 DEF Sound, FileSound
<1>3. PICK source : source = SourceIn(cmd, path[2])
  OBVIOUS
<1>4. PICK rows : rows = c.evidence
  OBVIOUS
<1>5. IsSequence(rows) /\ Len(rows) = Len(Plan) /\ c = ReceiptOver(cmd, source, rows)
  BY <1>2, <1>3, <1>4 DEF ContentSound, ReceiptSound
<1>6. c.source = source
  <2>1. ReceiptOver(cmd, source, rows).source = source
    BY DEF ReceiptOver
  <2> QED
    BY <1>5, <2>1
<1>7. DOMAIN rows = Pairs
  BY <1>5 DEF IsSequence, Pairs
<1> QED
  BY <1>4, <1>5, <1>6, <1>7

\* A ratio the GPU may measure is a number of hundredths.
LEMMA MeasuredRatio ==
    ASSUME NEW core \in CoreResults
    PROVE  core.ratio \in Nat
BY PostScoreAssumption

\* Whoever names the right predictions for a published causal receipt gets it accepted.
LEMMA CausalIsAccepted ==
    ASSUME Sound, NEW c \in Published("causal"), NEW q, c.source = CausalSource(q)
    PROVE  CausalAccepted(c, q)
<1>1. PICK rows : rows = c.evidence
  OBVIOUS
<1>2. PICK source : source = c.source
  OBVIOUS
<1>3. /\ Len(rows) = Len(Plan) /\ DOMAIN rows = Pairs
      /\ \A i \in Pairs : EvidenceSound("causal", source, i, rows[i])
      /\ c = ReceiptOver("causal", source, rows)
  BY <1>1, <1>2, ReceiptRows, ReceiptIsWhole DEF Producers
<1>4. IsCohort(States)
  BY PostScoreAssumption
<1>5. ASSUME NEW i \in Pairs
      PROVE  /\ CausalPairAccepted(source, States, i, rows[i])
             /\ rows[i].pair.valid =>
                  \E r \in Nat : rows[i].selected.ratio = RatioPayload(r)
  <2>1. PICK e : e = rows[i]
    OBVIOUS
  <2>2. PICK slot : slot = Plan[i]
    OBVIOUS
  <2>3. SlotFits(States, Seeds[(i - 1) \div PairLimit + 1], slot)
    BY <2>2, PlanFits
  <2>4. CASE e.pair.valid = TRUE
    <3>1. PICK core \in CoreResults : e = ValidEvidence(source, i, slot, core, e.controls)
      BY <1>3, <2>1, <2>2, <2>4 DEF EvidenceSound
    <3>2. InvalidReason(slot) = "none" /\ DOMAIN e.controls = 1 .. Controls
      BY <1>3, <2>1, <2>2, <2>4 DEF EvidenceSound
    <3>3. PICK controls : controls = e.controls
      OBVIOUS
    <3>4. core.ratio \in Nat
      BY MeasuredRatio
    <3>5. CausalPairAccepted(source, States, i, ValidEvidence(source, i, slot, core, controls))
      BY <1>4, <2>3, <3>2, <3>3, <3>4, ValidPairAccepted
    <3>6. ValidEvidence(source, i, slot, core, controls).selected.ratio = RatioPayload(core.ratio)
      BY DEF ValidEvidence
    <3> QED
      BY <2>1, <3>1, <3>3, <3>4, <3>5, <3>6
  <2>5. CASE e.pair.valid # TRUE
    <3>1. /\ e.pair.valid = FALSE /\ InvalidReason(slot) # "none"
          /\ e = InvalidEvidence(source, i, slot)
      BY <1>3, <2>1, <2>2, <2>5 DEF EvidenceSound
    <3>2. CausalPairAccepted(source, States, i, InvalidEvidence(source, i, slot))
      BY <1>4, <2>3, <3>1, InvalidPairAccepted
    <3> QED
      BY <2>1, <3>1, <3>2
  <2> QED
    BY <2>4, <2>5
<1>6. SummaryAccepted(SummarizeCausalEvidence(rows), rows)
  <2>1. RowsFit(rows)
    BY <1>3, <1>5, PlanFits DEF RowsFit
  <2> QED
    BY <1>3, <2>1, PlanFits, SummariesAgree
<1>7. c.summary = SummarizeCausalEvidence(rows)
  <2>1. ReceiptOver("causal", source, rows).summary = SummarizeCausalEvidence(rows)
    BY DEF ReceiptOver
  <2> QED
    BY <1>3, <2>1
<1> QED
  BY <1>1, <1>2, <1>3, <1>5, <1>6, <1>7 DEF CausalAccepted

\* A pair that did not run has one of two reasons.
LEMMA CausalReason ==
    ASSUME Sound, NEW c \in Published("causal"), NEW i \in Pairs,
           c.evidence[i].pair.valid = FALSE
    PROVE  c.evidence[i].pair.reason \in {"no_eligible_matched_donor",
                                          "no_eligible_confirmatory_donor"}
<1>1. PICK e : e = c.evidence[i]
  OBVIOUS
<1>2. PICK slot : slot = Plan[i]
  OBVIOUS
<1>3. EvidenceSound("causal", c.source, i, e)
  BY <1>1, ReceiptRows DEF Producers
<1>4. InvalidReason(slot) # "none" /\ e = InvalidEvidence(c.source, i, slot)
  BY <1>1, <1>2, <1>3 DEF EvidenceSound
<1>5. e.pair.reason = InvalidReason(slot)
  <2>1. PICK reason : reason = InvalidReason(slot)
    OBVIOUS
  <2>2. InvalidEvidence(c.source, i, slot).pair.reason = reason
    BY <2>1 DEF InvalidEvidence, PairIdentity
  <2> QED
    BY <1>4, <2>1, <2>2
<1>6. SlotFits(States, Seeds[(i - 1) \div PairLimit + 1], slot)
  BY <1>2, PlanFits
<1>7. slot.reason \in {"none", "no_eligible_confirmatory_donor"}
  BY <1>6 DEF SlotFits
<1> QED
  BY <1>1, <1>4, <1>5, <1>7 DEF InvalidReason

\* Whoever names the right predictions and causal receipt for a published sensitivity
\* receipt gets it accepted.
LEMMA SensitivityIsAccepted ==
    ASSUME Sound, NEW s \in Published("sensitivity"), NEW q, NEW c,
           s.source = SensitivitySource(q, c)
    PROVE  SensitivityAccepted(s, q, c)
<1>1. PICK rows : rows = s.evidence
  OBVIOUS
<1>2. PICK source : source = s.source
  OBVIOUS
<1>3. /\ Len(rows) = Len(Plan) /\ DOMAIN rows = Pairs
      /\ \A i \in Pairs : EvidenceSound("sensitivity", source, i, rows[i])
      /\ s = ReceiptOver("sensitivity", source, rows)
  BY <1>1, <1>2, ReceiptRows, ReceiptIsWhole DEF Producers
<1>4. source.causal \in Published("causal")
  <2>1. PICK r \in Predictions, d \in Published("causal") : source = SensitivitySource(r, d)
    BY <1>2, ReceiptRows DEF PayloadSound, Producers
  <2> QED
    BY <2>1 DEF SensitivitySource
<1>5. ASSUME NEW i \in Pairs
      PROVE  /\ DosePairAccepted(source, i, rows[i])
             /\ rows[i].pair.valid => \A a \in DOMAIN Alphas : \E r \in Nat :
                                         rows[i].alphas[a].ratio = RatioPayload(r)
  <2>1. PICK e : e = rows[i]
    OBVIOUS
  <2>2. PICK slot : slot = Plan[i]
    OBVIOUS
  <2>3. slot.seed = Seeds[(i - 1) \div PairLimit + 1]
    BY <2>2, PlanFits DEF SlotFits
  <2>4. PICK reason : reason = source.causal.evidence[i].pair.reason
    OBVIOUS
  <2>5. /\ e.pair.valid = source.causal.evidence[i].pair.valid
        /\ \/ \E core \in CoreResults : e = ValidDoses(source, i, slot, core)
           \/ e = InvalidDoses(source, i, slot, reason)
    BY <1>3, <2>1, <2>2, <2>4 DEF EvidenceSound
  <2>6. ASSUME NEW core \in CoreResults, e = ValidDoses(source, i, slot, core)
        PROVE  /\ DosePairAccepted(source, i, e)
               /\ \A a \in DOMAIN Alphas : \E r \in Nat : e.alphas[a].ratio = RatioPayload(r)
    <3>1. core.ratio \in Nat
      BY MeasuredRatio
    <3>2. DosePairAccepted(source, i, e)
      BY <2>3, <2>6, <3>1, ValidDosesAccepted
    <3>3. e.alphas = [a \in DOMAIN Alphas |-> Dose(Alphas[a], core)]
      BY <2>6 DEF ValidDoses
    <3>4. \A a \in DOMAIN Alphas : e.alphas[a].ratio = RatioPayload(core.ratio)
      BY <3>3 DEF Dose
    <3> QED
      BY <3>1, <3>2, <3>4
  <2>7. ASSUME e = InvalidDoses(source, i, slot, reason)
        PROVE  DosePairAccepted(source, i, e) /\ e.pair.valid = FALSE
    <3>1. e.pair.valid = FALSE
      BY <2>7 DEF InvalidDoses, PairIdentity
    <3>2. source.causal.evidence[i].pair.valid = FALSE
      BY <2>5, <3>1
    <3>3. reason \in {"no_eligible_matched_donor", "no_eligible_confirmatory_donor"}
      BY <1>4, <2>4, <3>2, CausalReason
    <3> QED
      BY <2>3, <2>7, <3>1, <3>3, InvalidDosesAccepted
  <2> QED
    BY <2>1, <2>5, <2>6, <2>7
<1>6. DoseGridAccepted(SummarizeDoseEvidence(rows, Cells), rows, Cells)
  <2>1. DosesFit(rows)
    BY <1>3, <1>5, PlanFits DEF DosesFit
  <2> QED
    BY <2>1, GridsAgree
<1>7. s.doses = SummarizeDoseEvidence(rows, Cells)
  <2>1. ReceiptOver("sensitivity", source, rows).doses = SummarizeDoseEvidence(rows, Cells)
    BY DEF ReceiptOver
  <2> QED
    BY <1>3, <2>1
<1> QED
  BY <1>1, <1>2, <1>3, <1>5, <1>6, <1>7 DEF SensitivityAccepted

-----------------------------------------------------------------------------
(* What a step does to the files, to the process that takes it, and why it refuses. *)

\* A job goes on for the same command, in the same root.
Follows(n, j) == n.cmd = j.cmd /\ n.root = j.root /\ n.alone = j.alone

(* A step of p to n: it adds to its own root at most, touches no whole file, leaves p
   undisturbed if p is alone, and refuses only for a reason. *)
Careful(p, n) ==
    /\ Goto(p, n) /\ Active(p)
    /\ n.at \in {"idle", "refused"} \/ Follows(n, proc[p])
    /\ \/ files' = files
       \/ \E path, held : /\ Put(path, held) /\ ~Complete(path)
                          /\ path[1] = proc[p].cmd /\ path[2] = proc[p].root
    /\ (proc[p].alone /\ proc[p].cmd \in Producers)
         => n.at \in {"idle", "refused"} \/ Undisturbed(n)'
    /\ n.at = "refused" => Excused(p)

\* A producer is sound, and undisturbed as long as it is alone.
LEMMA ProducerOnItsOwn ==
    ASSUME Sound, OnItsOwn, NEW p \in Procs, NEW j, j = proc[p],
           j.at \in {"plan", "pair", "core", "chunks", "gpu", "saveCore", "saveChunk",
                     "doses", "evidence", "pointer", "publish", "rename"}
    PROVE  /\ ProducerSound(j) /\ Active(p) /\ j.cmd \in Producers
           /\ j.alone => Undisturbed(j)
<1>1. ProducerSound(j)
  BY KindsApart DEF Sound
<1>2. Active(p) /\ j.cmd \in Producers
  BY <1>1 DEF Active, ProducerSound, InputsSound
<1> QED
  BY <1>1, <1>2 DEF OnItsOwn

\* A torn file, another root or a second producer: what excuses a producer's refusal.
LEMMA TornExcuses ==
    ASSUME NEW p, NEW path, Exists(path), ~Complete(path),
           path[1] = proc[p].cmd, path[2] = proc[p].root
    PROVE  Excused(p)
BY DEF Excused, TornIn, Exists

\* A second producer in the root excuses every refusal.
LEMMA NotAloneExcuses ==
    ASSUME NEW p, ~proc[p].alone
    PROVE  Excused(p)
BY DEF Excused

\* A whole file is known by its content.
LEMMA WholeFile ==
    ASSUME Sound, NEW path, Complete(path)
    PROVE  /\ path \in DOMAIN files /\ files[path] = Holding(Content(path))
           /\ ContentSound(path[1], path[2], path[3], path[4], Content(path))
BY DEF Sound, FileSound, Complete, Exists

\* The evidence that a pointer names is there, and is what its pair asks for.
LEMMA PointerFile ==
    ASSUME Sound, NEW j, ProducerSound(j), j.at # "plan", NEW i, NEW path,
           path = PointerIn(j.cmd, j.root, i), Complete(path)
    PROVE  /\ EvidenceSound(j.cmd, Source(j), i, Content(path))
           /\ Complete(EvidenceIn(j.cmd, j.root, Content(path)))
<1>1. path[1] = j.cmd /\ path[2] = j.root /\ path[3] = "pointer" /\ path[4] = i
  BY PathParts DEF PointerIn
<1>2. PICK e : e = Content(path)
  OBVIOUS
<1>3. ContentSound(j.cmd, j.root, "pointer", i, e)
  BY <1>1, <1>2, WholeFile
<1>4. j.cmd \in Producers
  BY DEF ProducerSound, InputsSound
<1>5. SourceIn(j.cmd, j.root) = Source(j)
  BY DEF ProducerSound, SourceIn, PlanPayload
<1>6. PICK source : source = Source(j)
  OBVIOUS
<1>7. EvidenceSound(j.cmd, source, i, e) /\ Complete(EvidenceIn(j.cmd, j.root, e))
  BY <1>3, <1>4, <1>5, <1>6 DEF ContentSound
<1> QED
  BY <1>2, <1>6, <1>7

\* What a producer that finds its target there refuses for.
LEMMA VerifyExcused ==
    ASSUME Sound, NEW p, NEW j, j = proc[p], ProducerSound(j),
           j.at \in {"plan", "evidence"}, NEW path, path = Target(j).path, Exists(path),
           files[path] # Holding(Target(j).content)
    PROVE  Excused(p)
<1>1. CASE j.at = "plan"
  <2>1. path = PlanPath(j) /\ Target(j).content = PlanPayload(j)
    BY <1>1 DEF Target
  <2>2. j.cmd \in Producers
    BY DEF ProducerSound, InputsSound
  <2> QED
    BY <2>1, <2>2 DEF Excused
<1>2. CASE j.at = "evidence"
  <2>1. path = EvidenceIn(j.cmd, j.root, j.evidence) /\ Target(j).content = j.evidence
    BY <1>2 DEF Target, EvidencePath, EvidenceIn
  <2>2. /\ path[1] = j.cmd /\ path[2] = j.root /\ path[3] = "evidence"
        /\ path[4] = j.evidence
    BY <2>1, PathParts DEF EvidenceIn
  <2>3. CASE ~Complete(path)
    BY <2>2, <2>3, TornExcuses
  <2>4. CASE Complete(path)
    <3>1. PICK e : e = Content(path)
      OBVIOUS
    <3>2. ContentSound(j.cmd, j.root, "evidence", j.evidence, e) /\ files[path] = Holding(e)
      BY <2>2, <2>4, <3>1, WholeFile
    <3>3. e = j.evidence
      BY <3>2 DEF ContentSound, ProducerSound, InputsSound
    <3> QED
      BY <2>1, <3>2, <3>3
  <2> QED
    BY <2>3, <2>4
<1> QED
  BY <1>1, <1>2

\* The paths of one pair are different from each other.
LEMMA PathsApart ==
    ASSUME NEW j
    PROVE  /\ PointerPath(j) # CorePath(j)
           /\ \A k : PointerPath(j) # ChunkPath(j, k) /\ CorePath(j) # ChunkPath(j, k)
           /\ \A e : /\ PointerPath(j) # EvidencePath(j, e)
                     /\ CorePath(j) # EvidencePath(j, e)
           /\ \A k, m : ChunkPath(j, k) = ChunkPath(j, m) => k = m
<1>1. \A k : <<j.pair, k>>[2] = k
  OBVIOUS
<1>2. ASSUME NEW k, NEW m, ChunkPath(j, k) = ChunkPath(j, m) PROVE k = m
  <2>1. <<j.pair, k>> = <<j.pair, m>>
    BY <1>2 DEF ChunkPath, Path
  <2> QED
    BY <2>1
<1> QED
  BY <1>2 DEF PointerPath, CorePath, ChunkPath, EvidencePath, Path

\* A producer's step that leaves the files alone.
LEMMA QuietIsCareful ==
    ASSUME Sound, OnItsOwn, NEW p \in Procs, NEW j, j = proc[p],
           j.at \in {"plan", "pair", "core", "chunks", "gpu", "saveCore", "saveChunk",
                     "doses", "evidence", "pointer", "publish", "rename"},
           NEW n, Goto(p, n), files' = files,
           \/ n.at \in {"idle", "refused"}
           \/ Follows(n, j) /\ (j.alone => Undisturbed(n)'),
           n.at = "refused" => Excused(p)
    PROVE  Careful(p, n)
<1>1. Active(p)
  BY ProducerOnItsOwn
<1> QED
  BY <1>1 DEF Careful

\* A producer's job after some of its fields changed.
LEMMA JobFollows ==
    ASSUME NEW j, DOMAIN j = JobFields, NEW at
    PROVE  /\ Follows(At(j, at), j) /\ At(j, at).at = at /\ At(j, at).step = "ready"
           /\ At(j, at).pair = j.pair /\ At(j, at).core = j.core
           /\ At(j, at).controls = j.controls /\ DOMAIN At(j, at) = JobFields
           /\ At(j, at).rows = j.rows /\ At(j, at).predictions = j.predictions
           /\ At(j, at).causal = j.causal /\ At(j, at).evidence = j.evidence
           /\ At(j, at).chunk = j.chunk
BY DEF At, Follows, JobFields

\* Two jobs on one pair of one root share the paths of that pair.
LEMMA SamePaths ==
    ASSUME NEW k, NEW j, k.cmd = j.cmd, k.root = j.root, k.pair = j.pair
    PROVE  /\ PointerPath(k) = PointerPath(j) /\ CorePath(k) = CorePath(j)
           /\ \A c : ChunkPath(k, c) = ChunkPath(j, c)
BY DEF PointerPath, CorePath, ChunkPath

\* A producer that begins its next pair expects nothing there yet.
LEMMA NextPairUndisturbed ==
    ASSUME NEW j, DOMAIN j = JobFields, NEW e
    PROVE  Follows(NextPair(j, e), j) /\ Undisturbed(NextPair(j, e))'
<1>1. PICK k : k = NextPair(j, e)
  OBVIOUS
<1>2. /\ k.cmd = j.cmd /\ k.root = j.root /\ k.alone = j.alone /\ k.step = "ready"
      /\ k.at \in {"publish", "pair"}
  BY <1>1 DEF NextPair, JobFields
<1> QED
  BY <1>1, <1>2 DEF Follows, Undisturbed

\* The stage of a process that is over.
LEMMA OverAt ==
    ASSUME NEW how
    PROVE  Over(how).at = how
BY DEF Over

(* Taking over a pair's evidence: refused only over a torn file, since a whole pointer
   leads to evidence that fits. *)
LEMMA LoadPairIsCareful ==
    ASSUME Sound, OnItsOwn, NEW p \in Procs, LoadPair(p)
    PROVE  \E n : Careful(p, n)
<1>1. PICK j : j = proc[p]
  OBVIOUS
<1>2. j.at = "pair" /\ files' = files
  BY <1>1 DEF LoadPair, Ready
<1>3. ProducerSound(j) /\ DOMAIN j = JobFields
  BY <1>1, <1>2, ProducerOnItsOwn DEF ProducerSound
<1>4. PICK path : path = PointerPath(j)
  OBVIOUS
<1>5. PICK e : e = Content(path)
  OBVIOUS
<1>6. path[1] = j.cmd /\ path[2] = j.root
  BY <1>4, PathParts DEF PointerPath
<1>7. CASE Exists(path) /\ Complete(path) /\ Complete(EvidencePath(j, e)) /\ EvidenceUsable(j, e)
  <2>1. PICK n : n = NextPair(j, e)
    OBVIOUS
  <2>2. Goto(p, n)
    BY <1>1, <1>4, <1>5, <1>7, <2>1 DEF LoadPair
  <2>3. Follows(n, j) /\ Undisturbed(n)'
    BY <1>3, <2>1, NextPairUndisturbed
  <2>4. n.at # "refused"
    BY <1>3, <2>1 DEF NextPair, JobFields
  <2> QED
    BY <1>1, <1>2, <2>2, <2>3, <2>4, QuietIsCareful
<1>8. CASE Exists(path)
           /\ ~(Complete(path) /\ Complete(EvidencePath(j, e)) /\ EvidenceUsable(j, e))
  <2>1. PICK n : n = Over("refused")
    OBVIOUS
  <2>2. Goto(p, n) /\ n.at = "refused"
    BY <1>1, <1>4, <1>5, <1>8, <2>1, OverAt DEF LoadPair
  <2>3. Excused(p)
    <3>1. CASE ~Complete(path)
      BY <1>1, <1>6, <1>8, <3>1, TornExcuses
    <3>2. CASE Complete(path)
      <4>1. /\ EvidenceSound(j.cmd, Source(j), j.pair, e)
            /\ Complete(EvidenceIn(j.cmd, j.root, e))
        BY <1>2, <1>3, <1>4, <1>5, <3>2, PointerFile DEF PointerPath, PointerIn
      <4>2. EvidenceUsable(j, e) /\ Complete(EvidencePath(j, e))
        BY <4>1 DEF EvidenceSound, EvidenceUsable, EvidencePath, EvidenceIn
      <4> QED
        BY <1>8, <3>2, <4>2
    <3> QED
      BY <3>1, <3>2
  <2> QED
    BY <1>1, <1>2, <2>2, <2>3, QuietIsCareful
<1>9. CASE ~Exists(path)
  <2>1. ASSUME NEW n, Goto(p, n), n.at \in {"core", "doses", "evidence"}, n.step = "ready",
               Follows(n, j), n.pair = j.pair
        PROVE  Careful(p, n)
    <3>1. PointerPath(n) = path
      BY <1>4, <2>1, SamePaths DEF Follows
    <3>2. ~Exists(PointerPath(n))'
      BY <1>2, <1>9, <3>1 DEF Exists
    <3>3. Undisturbed(n)'
      BY <2>1, <3>2 DEF Undisturbed
    <3> QED
      BY <1>1, <1>2, <2>1, <3>3, QuietIsCareful
  <2>2. CASE PairIsValid(j)
    <3>1. PICK at \in {"core", "doses"} : at = IF j.cmd = "causal" THEN "core" ELSE "doses"
      OBVIOUS
    <3>2. PICK n : n = At(j, at)
      OBVIOUS
    <3>3. Goto(p, n)
      BY <1>1, <1>4, <1>9, <2>2, <3>1, <3>2 DEF LoadPair
    <3> QED
      BY <1>3, <2>1, <3>1, <3>2, <3>3, JobFollows
  <2>3. CASE ~PairIsValid(j)
    <3>1. PICK x : x = IF j.cmd = "causal"
                         THEN InvalidEvidence(Source(j), j.pair, Plan[j.pair])
                         ELSE InvalidDoses(Source(j), j.pair, Plan[j.pair],
                                           j.causal.evidence[j.pair].pair.reason)
      OBVIOUS
    <3>2. PICK n : n = [At(j, "evidence") EXCEPT !.evidence = x]
      OBVIOUS
    <3>3. Goto(p, n)
      BY <1>1, <1>4, <1>9, <2>3, <3>1, <3>2 DEF LoadPair
    <3>4. /\ n.at = "evidence" /\ n.step = "ready" /\ Follows(n, j) /\ n.pair = j.pair
      BY <1>3, <3>2 DEF At, JobFields, Follows
    <3> QED
      BY <2>1, <3>3, <3>4
  <2> QED
    BY <2>2, <2>3
<1> QED
  BY <1>7, <1>8, <1>9

(* Taking over a core: refused only over a torn file, since a whole one is bound to the
   source of its root. *)
LEMMA LoadCoreIsCareful ==
    ASSUME Sound, OnItsOwn, NEW p \in Procs, LoadCore(p)
    PROVE  \E n : Careful(p, n)
<1>1. PICK j : j = proc[p]
  OBVIOUS
<1>2. j.at = "core" /\ files' = files
  BY <1>1 DEF LoadCore, Ready
<1>3. ProducerSound(j) /\ DOMAIN j = JobFields /\ (j.alone => Undisturbed(j))
      /\ j.cmd \in Producers
  BY <1>1, <1>2, ProducerOnItsOwn DEF ProducerSound
<1>4. PICK path : path = CorePath(j)
  OBVIOUS
<1>5. PICK core : core = Content(path)
  OBVIOUS
<1>6. path[1] = j.cmd /\ path[2] = j.root /\ path[3] = "core" /\ path[4] = j.pair
  BY <1>4, PathParts DEF CorePath
<1>7. Complete(path) => CoreUsable(j, core) /\ core.result \in CoreResults
  <2> HAVE Complete(path)
  <2>1. ContentSound(j.cmd, j.root, "core", j.pair, core)
    BY <1>5, <1>6, WholeFile
  <2>2. SourceIn(j.cmd, j.root) = Source(j)
    BY <1>2, <1>3 DEF ProducerSound, SourceIn, PlanPayload
  <2>3. core.source = SourceIn(j.cmd, j.root) /\ core.index = j.pair
        /\ core.result \in CoreResults
    BY <1>3, <2>1 DEF ContentSound, CoreMeasured
  <2> QED
    BY <2>2, <2>3 DEF CoreUsable
<1>8. ASSUME NEW n, Goto(p, n), n.at = "chunks", n.step = "ready", Follows(n, j),
             n.pair = j.pair, n.core = Unavailable => ~Exists(path)
      PROVE  Careful(p, n)
  <2>1. PointerPath(n) = PointerPath(j) /\ CorePath(n) = path
    BY <1>4, <1>8, SamePaths DEF Follows
  <2>2. n.core = Unavailable => ~Exists(CorePath(n))'
    BY <1>2, <1>8, <2>1 DEF Exists
  <2>3. j.alone => ~Exists(PointerPath(n))'
    BY <1>2, <1>3, <2>1 DEF Undisturbed, Exists
  <2>4. j.alone => Undisturbed(n)'
    BY <1>8, <2>2, <2>3 DEF Undisturbed
  <2> QED
    BY <1>1, <1>2, <1>8, <2>4, QuietIsCareful
<1>9. CASE ~Exists(path)
  <2>1. PICK n : n = At(j, "chunks")
    OBVIOUS
  <2>2. Goto(p, n)
    BY <1>1, <1>4, <1>9, <2>1 DEF LoadCore
  <2> QED
    BY <1>3, <1>8, <1>9, <2>1, <2>2, JobFollows
<1>10. CASE Exists(path) /\ Complete(path)
  <2>1. PICK n : n = [At(j, "chunks") EXCEPT !.core = core.result]
    OBVIOUS
  <2>2. Goto(p, n)
    BY <1>1, <1>4, <1>5, <1>7, <1>10, <2>1 DEF LoadCore
  <2>3. /\ n.at = "chunks" /\ n.step = "ready" /\ Follows(n, j) /\ n.pair = j.pair
        /\ n.core = core.result
    BY <1>3, <2>1 DEF At, JobFields, Follows
  <2>4. n.core # Unavailable
    BY <1>7, <1>10, <2>3, PostScoreAssumption
  <2> QED
    BY <1>8, <2>2, <2>3, <2>4
<1>11. CASE Exists(path) /\ ~Complete(path)
  <2>1. PICK n : n = Over("refused")
    OBVIOUS
  <2>2. Goto(p, n) /\ n.at = "refused"
    BY <1>1, <1>4, <1>11, <2>1, OverAt DEF LoadCore
  <2>3. Excused(p)
    BY <1>1, <1>6, <1>11, TornExcuses
  <2> QED
    BY <1>1, <1>2, <2>2, <2>3, QuietIsCareful
<1> QED
  BY <1>9, <1>10, <1>11

\* Taking over chunks: refused only over a torn file.
LEMMA LoadChunksIsCareful ==
    ASSUME Sound, OnItsOwn, NEW p \in Procs, LoadChunks(p)
    PROVE  \E n : Careful(p, n)
<1>1. PICK j : j = proc[p]
  OBVIOUS
<1>2. j.at = "chunks" /\ files' = files
  BY <1>1 DEF LoadChunks, Ready
<1>3. ProducerSound(j) /\ DOMAIN j = JobFields /\ (j.alone => Undisturbed(j))
      /\ j.cmd \in Producers
  BY <1>1, <1>2, ProducerOnItsOwn DEF ProducerSound
<1>4. PICK here : here = {k \in 1 .. Controls : Exists(ChunkPath(j, k))}
  OBVIOUS
<1>5. CASE \E k \in here : ~Complete(ChunkPath(j, k))
  <2>1. PICK n : n = Over("refused")
    OBVIOUS
  <2>2. Goto(p, n) /\ n.at = "refused"
    BY <1>1, <1>4, <1>5, <2>1, OverAt DEF LoadChunks
  <2>3. PICK k \in here : ~Complete(ChunkPath(j, k))
    BY <1>5
  <2>4. PICK path : path = ChunkPath(j, k)
    OBVIOUS
  <2>5. Exists(path) /\ ~Complete(path) /\ path[1] = j.cmd /\ path[2] = j.root
    BY <1>4, <2>3, <2>4, PathParts DEF ChunkPath
  <2>6. Excused(p)
    BY <1>1, <2>5, TornExcuses
  <2> QED
    BY <1>1, <1>2, <2>2, <2>6, QuietIsCareful
<1>6. CASE \A k \in here : Complete(ChunkPath(j, k))
  <2>1. PICK controls : controls = [k \in here |-> Content(ChunkPath(j, k))]
    OBVIOUS
  <2>2. PICK n : n = [At(j, "gpu") EXCEPT !.controls = controls]
    OBVIOUS
  <2>3. Goto(p, n)
    BY <1>1, <1>4, <1>6, <2>1, <2>2 DEF LoadChunks
  <2>4. /\ n.at = "gpu" /\ n.step = "ready" /\ Follows(n, j) /\ n.pair = j.pair
        /\ n.core = j.core /\ n.controls = controls
    BY <1>3, <2>2 DEF At, JobFields, Follows
  <2>5. /\ PointerPath(n) = PointerPath(j) /\ CorePath(n) = CorePath(j)
        /\ \A c : ChunkPath(n, c) = ChunkPath(j, c)
    BY <2>4, SamePaths DEF Follows
  <2>6. \A k \in 1 .. Controls : Exists(ChunkPath(n, k))' => k \in DOMAIN n.controls
    BY <1>2, <1>4, <2>1, <2>4, <2>5 DEF Exists
  <2>7. j.alone => ~Exists(PointerPath(n))' /\ (n.core = Unavailable => ~Exists(CorePath(n))')
    BY <1>2, <1>3, <2>4, <2>5 DEF Undisturbed, Exists
  <2>8. j.alone => Undisturbed(n)'
    BY <2>4, <2>6, <2>7 DEF Undisturbed
  <2> QED
    BY <1>1, <1>2, <2>3, <2>4, <2>8, QuietIsCareful
<1> QED
  BY <1>5, <1>6

\* A producer that found its target missing is undisturbed about to create it.
LEMMA CreateUndisturbed ==
    ASSUME NEW k, DOMAIN k = JobFields, k.at \in Writing, k.step = "ready",
           Undisturbed(k), ~Exists(Target(k).path), NEW n, n = [k EXCEPT !.step = "create"]
    PROVE  Undisturbed(n) /\ Follows(n, k) /\ n.at = k.at
<1>1. /\ n.cmd = k.cmd /\ n.root = k.root /\ n.at = k.at /\ n.pair = k.pair
      /\ n.chunk = k.chunk /\ n.evidence = k.evidence /\ n.core = k.core
      /\ n.controls = k.controls /\ n.alone = k.alone /\ n.step = "create"
  BY DEF JobFields
<1>2. Target(n).path = Target(k).path
  BY <1>1, SameTarget
<1>3. /\ PointerPath(n) = PointerPath(k) /\ CorePath(n) = CorePath(k)
      /\ \A c : ChunkPath(n, c) = ChunkPath(k, c)
  BY <1>1, SamePaths
<1>4. n.at # "rename"
  BY <1>1 DEF Writing
<1>5. Undisturbed(n)
  BY <1>1, <1>2, <1>3, <1>4 DEF Undisturbed
<1> QED
  BY <1>1, <1>5 DEF Follows

\* Where a producer goes on to once its file is written.
LEMMA NextFollows ==
    ASSUME NEW k, DOMAIN k = JobFields, k.at \in Writing, NEW n, n = Target(k).next
    PROVE  /\ Follows(n, k) /\ n.at \in {"pair", "gpu", "pointer", "publish"}
           /\ n.step = "ready"
           /\ k.at = "plan" => n.at = "pair"
           /\ k.at \in {"saveCore", "saveChunk"} =>
                n.at = "gpu" /\ n.pair = k.pair /\ n.core = k.core /\ n.controls = k.controls
           /\ k.at = "evidence" => n.at = "pointer" /\ n.pair = k.pair
           /\ k.at = "pointer" => n.at \in {"pair", "publish"}
<1>1. CASE k.at = "plan"
  <2>1. n = At(k, "pair")
    BY <1>1 DEF Target
  <2> QED
    BY <1>1, <2>1, JobFollows
<1>2. CASE k.at = "saveCore"
  <2>1. n = At(k, "gpu")
    BY <1>2 DEF Target
  <2> QED
    BY <1>2, <2>1, JobFollows
<1>3. CASE k.at = "saveChunk"
  <2>1. n = [At(k, "gpu") EXCEPT !.chunk = 0]
    BY <1>3 DEF Target
  <2> QED
    BY <1>3, <2>1 DEF At, JobFields, Follows
<1>4. CASE k.at = "evidence"
  <2>1. n = At(k, "pointer")
    BY <1>4 DEF Target
  <2> QED
    BY <1>4, <2>1, JobFollows
<1>5. CASE k.at = "pointer"
  <2>1. n = NextPair(k, k.evidence)
    BY <1>5 DEF Target
  <2> QED
    BY <1>5, <2>1 DEF NextPair, JobFields, Follows
<1> QED
  BY <1>1, <1>2, <1>3, <1>4, <1>5 DEF Writing

\* What a producer has written does not disturb it.
LEMMA NextUndisturbed ==
    ASSUME NEW k, DOMAIN k = JobFields, k.at \in Writing, Undisturbed(k),
           k.at = "saveCore" => k.core # Unavailable,
           k.at = "saveChunk" => k.chunk \in DOMAIN k.controls,
           \A f : Exists(f)' => f = Target(k).path \/ Exists(f),
           NEW n, n = Target(k).next
    PROVE  Undisturbed(n)'
<1>1. /\ Follows(n, k) /\ n.at \in {"pair", "gpu", "pointer", "publish"} /\ n.step = "ready"
      /\ k.at \in {"plan", "pointer"} => n.at \in {"pair", "publish"}
      /\ k.at \in {"saveCore", "saveChunk"} =>
           n.at = "gpu" /\ n.pair = k.pair /\ n.core = k.core /\ n.controls = k.controls
      /\ k.at = "evidence" => n.at = "pointer" /\ n.pair = k.pair
  BY NextFollows
<1>2. CASE k.at \in {"plan", "pointer"}
  BY <1>1, <1>2 DEF Undisturbed
<1>3. CASE k.at \in {"saveCore", "saveChunk", "evidence"}
  <2>1. /\ PointerPath(n) = PointerPath(k) /\ CorePath(n) = CorePath(k)
        /\ \A c : ChunkPath(n, c) = ChunkPath(k, c)
    BY <1>1, <1>3, SamePaths DEF Follows
  <2>2. /\ k.at = "saveCore" => Target(k).path = CorePath(k)
        /\ k.at = "saveChunk" => Target(k).path = ChunkPath(k, k.chunk)
        /\ k.at = "evidence" => Target(k).path = EvidencePath(k, k.evidence)
    BY TargetPaths DEF CorePath, ChunkPath, EvidencePath
  <2>3. ~Exists(PointerPath(k)) /\ PointerPath(k) # Target(k).path
    BY <1>3, <2>2, PathsApart DEF Undisturbed
  <2>4. ~Exists(PointerPath(n))'
    BY <2>1, <2>3
  <2>5. k.at \in {"saveCore", "saveChunk"} /\ n.core = Unavailable => ~Exists(CorePath(n))'
    BY <1>1, <2>1, <2>2, PathsApart DEF Undisturbed
  <2>6. ASSUME k.at \in {"saveCore", "saveChunk"}, NEW c \in 1 .. Controls,
               Exists(ChunkPath(n, c))'
        PROVE  c \in DOMAIN n.controls
    <3>1. ChunkPath(k, c) = Target(k).path \/ Exists(ChunkPath(k, c))
      BY <2>1, <2>6
    <3>2. CASE Exists(ChunkPath(k, c))
      BY <1>1, <2>6, <3>2 DEF Undisturbed
    <3>3. CASE ChunkPath(k, c) = Target(k).path
      <4>1. k.at = "saveChunk" /\ ChunkPath(k, c) = ChunkPath(k, k.chunk)
        BY <2>2, <2>6, <3>3, PathsApart
      <4>2. c = k.chunk
        BY <4>1, PathsApart
      <4> QED
        BY <1>1, <4>1, <4>2
    <3> QED
      BY <3>1, <3>2, <3>3
  <2> QED
    BY <1>1, <1>3, <2>4, <2>5, <2>6 DEF Undisturbed
<1> QED
  BY <1>2, <1>3 DEF Writing

\* _write_or_verify_json: refused only for a reason, and undisturbed as long as alone.
LEMMA VerifyIsCareful ==
    ASSUME Sound, OnItsOwn, NEW p \in Procs, NEW j, j = proc[p],
           j.at \in {"plan", "pair", "core", "chunks", "gpu", "saveCore", "saveChunk",
                     "doses", "evidence", "pointer", "publish", "rename"},
           NEW k, DOMAIN k = JobFields, k.at \in Writing, k.step = "ready", Follows(k, j),
           j.alone => Undisturbed(k),
           k.at = "saveCore" => k.core # Unavailable,
           k.at = "saveChunk" => k.chunk \in DOMAIN k.controls,
           NEW path, path = Target(k).path,
           Exists(path) /\ files[path] # Holding(Target(k).content) => Excused(p),
           WriteOrVerify(p, k)
    PROVE  \E n : Careful(p, n)
<1>1. files' = files
  BY DEF WriteOrVerify
<1>2. CASE ~Exists(path)
  <2>1. PICK n : n = [k EXCEPT !.step = "create"]
    OBVIOUS
  <2>2. Goto(p, n)
    BY <1>2, <2>1 DEF WriteOrVerify
  <2>3. n.at = k.at /\ n.at # "refused" /\ Follows(n, j)
    BY <2>1 DEF JobFields, Follows, Writing
  <2>4. j.alone => Undisturbed(n)
    BY <1>2, <2>1, CreateUndisturbed
  <2>5. j.alone => Undisturbed(n)'
    BY <1>1, <2>4 DEF Undisturbed, Exists, Target, Receipt
  <2> QED
    BY <1>1, <2>2, <2>3, <2>5, QuietIsCareful
<1>3. CASE Exists(path) /\ files[path] = Holding(Target(k).content)
  <2>1. PICK n : n = Target(k).next
    OBVIOUS
  <2>2. Goto(p, n)
    BY <1>3, <2>1 DEF WriteOrVerify
  <2>3. n.at # "refused" /\ Follows(n, j)
    BY <2>1, NextFollows DEF Follows
  <2>4. \A f : Exists(f)' => Exists(f)
    BY <1>1 DEF Exists
  <2>5. j.alone => Undisturbed(n)'
    BY <2>1, <2>4, NextUndisturbed
  <2> QED
    BY <1>1, <2>2, <2>3, <2>5, QuietIsCareful
<1>4. CASE Exists(path) /\ files[path] # Holding(Target(k).content)
  <2>1. PICK n : n = Over("refused")
    OBVIOUS
  <2>2. Goto(p, n) /\ n.at = "refused"
    BY <1>4, <2>1, OverAt DEF WriteOrVerify
  <2> QED
    BY <1>1, <1>4, <2>2, QuietIsCareful
<1> QED
  BY <1>2, <1>3, <1>4

(* Plan, evidence and pointer: refused only over another root's plan, a torn file or a
   second producer's pointer. *)
LEMMA ProducerWritesCareful ==
    ASSUME Sound, OnItsOwn, NEW p \in Procs, WritePlan(p) \/ WriteEvidence(p) \/ WritePointer(p)
    PROVE  \E n : Careful(p, n)
<1>1. PICK j : j = proc[p]
  OBVIOUS
<1>2. /\ j.at \in {"plan", "evidence", "pointer"} /\ j.step = "ready" /\ WriteOrVerify(p, j)
  BY <1>1 DEF WritePlan, WriteEvidence, WritePointer, Ready
<1>3. ProducerSound(j) /\ DOMAIN j = JobFields /\ (j.alone => Undisturbed(j))
  BY <1>1, <1>2, ProducerOnItsOwn DEF ProducerSound
<1>4. PICK path : path = Target(j).path
  OBVIOUS
<1>5. Exists(path) /\ files[path] # Holding(Target(j).content) => Excused(p)
  <2>1. CASE j.at \in {"plan", "evidence"}
    BY <1>1, <1>3, <1>4, <2>1, VerifyExcused
  <2>2. CASE j.at = "pointer" /\ j.alone
    BY <1>2, <1>3, <1>4, <2>2, TargetPaths DEF Undisturbed, PointerPath, PointerIn
  <2>3. CASE j.at = "pointer" /\ ~j.alone
    BY <1>1, <2>3, NotAloneExcuses
  <2> QED
    BY <1>2, <2>1, <2>2, <2>3
<1>6. Follows(j, j) /\ j.at \in Writing
  BY <1>2 DEF Follows, Writing
<1> QED
  BY <1>1, <1>2, <1>3, <1>4, <1>5, <1>6, VerifyIsCareful

\* A measured core: a core that somebody else has saved meanwhile means company.
LEMMA MeasureCoreIsCareful ==
    ASSUME Sound, OnItsOwn, NEW p \in Procs, MeasureCore(p)
    PROVE  \E n : Careful(p, n)
<1>1. PICK j : j = proc[p]
  OBVIOUS
<1>2. PICK result \in CoreResults : WriteOrVerify(p, [At(j, "saveCore") EXCEPT !.core = result])
  BY <1>1 DEF MeasureCore
<1>3. j.at = "gpu" /\ j.core = Unavailable
  BY <1>1 DEF MeasureCore, Ready
<1>4. ProducerSound(j) /\ DOMAIN j = JobFields /\ (j.alone => Undisturbed(j))
  BY <1>1, <1>3, ProducerOnItsOwn DEF ProducerSound
<1>5. PICK k : k = [At(j, "saveCore") EXCEPT !.core = result]
  OBVIOUS
<1>6. /\ DOMAIN k = JobFields /\ k.at = "saveCore" /\ k.step = "ready" /\ Follows(k, j)
      /\ k.core = result /\ k.controls = j.controls /\ k.pair = j.pair
  BY <1>4, <1>5 DEF At, JobFields, Follows
<1>7. k.core # Unavailable
  BY <1>6, PostScoreAssumption
<1>8. /\ PointerPath(k) = PointerPath(j) /\ CorePath(k) = CorePath(j)
      /\ \A c : ChunkPath(k, c) = ChunkPath(j, c)
  BY <1>6, SamePaths DEF Follows
<1>9. j.alone => Undisturbed(k) /\ ~Exists(CorePath(k))
  BY <1>3, <1>4, <1>6, <1>7, <1>8 DEF Undisturbed
<1>10. PICK path : path = Target(k).path
  OBVIOUS
<1>11. path = CorePath(k)
  BY <1>6, <1>10, TargetPaths DEF CorePath
<1>12. Exists(path) /\ files[path] # Holding(Target(k).content) => Excused(p)
  BY <1>1, <1>9, <1>11, NotAloneExcuses
<1>13. k.at \in Writing /\ WriteOrVerify(p, k)
  BY <1>2, <1>5, <1>6 DEF Writing
<1> QED
  BY <1>1, <1>3, <1>6, <1>7, <1>9, <1>10, <1>12, <1>13, VerifyIsCareful

\* A measured chunk in the controls of a job.
LEMMA ChunkMeasuredIsCareful ==
    ASSUME Sound, OnItsOwn, NEW p \in Procs, NEW j, j = proc[p], j.at = "gpu",
           j.step = "ready", NEW k \in 1 .. Controls, k \notin DOMAIN j.controls,
           NEW n, DOMAIN n = JobFields, Follows(n, j), n.pair = j.pair, n.core = j.core,
           DOMAIN n.controls = DOMAIN j.controls \cup {k}, files' = files, Goto(p, n),
           \/ n.at = "gpu" /\ n.step = "ready" /\ ~j.alone
           \/ n.at = "saveChunk" /\ n.step = "create" /\ n.chunk = k
    PROVE  Careful(p, n)
<1>1. j.alone => Undisturbed(j)
  BY ProducerOnItsOwn
<1>2. /\ PointerPath(n) = PointerPath(j) /\ CorePath(n) = CorePath(j)
      /\ \A c : ChunkPath(n, c) = ChunkPath(j, c)
  BY SamePaths DEF Follows
<1>3. n.at = "saveChunk" => Target(n).path = ChunkPath(j, k)
  BY <1>2, TargetPaths DEF ChunkPath
<1>4. ASSUME j.alone
      PROVE  Undisturbed(n)
  <2>1. n.at = "saveChunk" /\ n.step = "create" /\ Undisturbed(j)
    BY <1>1, <1>4
  <2>2. ~Exists(Target(n).path)
    BY <1>3, <2>1 DEF Undisturbed
  <2> QED
    BY <1>2, <2>1, <2>2 DEF Undisturbed
<1>5. j.alone => Undisturbed(n)'
  BY <1>4 DEF Undisturbed, Exists, Target, Receipt
<1> QED
  BY <1>5, QuietIsCareful

\* A measured chunk: the same.
LEMMA MeasureChunkIsCareful ==
    ASSUME Sound, OnItsOwn, NEW p \in Procs, MeasureChunk(p)
    PROVE  \E n : Careful(p, n)
<1>1. PICK j : j = proc[p]
  OBVIOUS
<1>2. PICK k : k = FirstMissing(j)
  OBVIOUS
<1>3. PICK effect \in EffectResults :
        LET next == [j EXCEPT !.controls = [i \in DOMAIN @ \cup {k} |->
                                               IF i = k THEN effect ELSE @[i]]] IN
        Goto(p, IF ~Exists(ChunkPath(j, k))
                     THEN [next EXCEPT !.at = "saveChunk", !.chunk = k, !.step = "create"]
                   ELSE IF \E i \in 1 .. Controls :
                             Exists(ChunkPath(j, i)) /\ ~Complete(ChunkPath(j, i))
                     THEN Over("refused") ELSE next)
  BY <1>1, <1>2, Zenon DEF MeasureChunk
<1>4. /\ j.at = "gpu" /\ j.step = "ready" /\ DOMAIN j.controls # 1 .. Controls
      /\ files' = files
  BY <1>1 DEF MeasureChunk, Ready
<1>5. ProducerSound(j) /\ DOMAIN j = JobFields /\ (j.alone => Undisturbed(j))
  BY <1>1, <1>4, ProducerOnItsOwn DEF ProducerSound
<1>6. DOMAIN j.controls \subseteq 1 .. Controls
  BY <1>5 DEF ProducerSound, MeasurementsSound
<1>7. k \in 1 .. Controls /\ k \notin DOMAIN j.controls
  BY <1>2, <1>4, <1>6, FirstMissingIsMissing
<1>8. PICK controls : controls = [i \in DOMAIN j.controls \cup {k} |->
                                     IF i = k THEN effect ELSE j.controls[i]]
  OBVIOUS
<1>9. PICK next : next = [j EXCEPT !.controls = controls]
  OBVIOUS
<1>10. Goto(p, IF ~Exists(ChunkPath(j, k))
                     THEN [next EXCEPT !.at = "saveChunk", !.chunk = k, !.step = "create"]
                   ELSE IF \E i \in 1 .. Controls :
                             Exists(ChunkPath(j, i)) /\ ~Complete(ChunkPath(j, i))
                     THEN Over("refused") ELSE next)
  <2>1. next = [j EXCEPT !.controls = [i \in DOMAIN @ \cup {k} |->
                                               IF i = k THEN effect ELSE @[i]]]
    BY <1>8, <1>9
  <2> QED
    BY <1>3, <2>1
<1>11. CASE ~Exists(ChunkPath(j, k))
  <2>1. PICK n : n = [next EXCEPT !.at = "saveChunk", !.chunk = k, !.step = "create"]
    OBVIOUS
  <2>2. Goto(p, n)
    BY <1>10, <1>11, <2>1
  <2>3. /\ DOMAIN n = JobFields /\ Follows(n, j) /\ n.pair = j.pair /\ n.core = j.core
        /\ n.at = "saveChunk" /\ n.step = "create" /\ n.chunk = k /\ n.controls = controls
    BY <1>5, <1>9, <2>1 DEF JobFields, Follows
  <2>4. DOMAIN n.controls = DOMAIN j.controls \cup {k}
    BY <1>8, <2>3
  <2> QED
    BY <1>1, <1>4, <1>7, <2>2, <2>3, <2>4, ChunkMeasuredIsCareful
<1>12. CASE Exists(ChunkPath(j, k))
  <2>1. ~j.alone
    BY <1>4, <1>5, <1>7, <1>12 DEF Undisturbed
  <2>2. Excused(p)
    BY <1>1, <2>1, NotAloneExcuses
  <2>3. CASE Goto(p, Over("refused"))
    <3>1. Over("refused").at = "refused"
      BY OverAt
    <3>2. PICK n : n = Over("refused")
      OBVIOUS
    <3> QED
      BY <1>1, <1>4, <2>2, <2>3, <3>1, <3>2, QuietIsCareful
  <2>4. CASE Goto(p, next)
    <3>1. /\ DOMAIN next = JobFields /\ Follows(next, j) /\ next.pair = j.pair
          /\ next.core = j.core /\ next.at = "gpu" /\ next.step = "ready"
          /\ next.controls = controls
      BY <1>4, <1>5, <1>9 DEF JobFields, Follows
    <3>2. DOMAIN next.controls = DOMAIN j.controls \cup {k}
      BY <1>8, <3>1
    <3> QED
      BY <1>1, <1>4, <1>7, <2>1, <2>4, <3>1, <3>2, ChunkMeasuredIsCareful
  <2> QED
    BY <1>10, <1>12, <2>3, <2>4
<1> QED
  BY <1>11, <1>12

\* Evidence in memory disturbs nobody.
LEMMA EvidenceStepIsCareful ==
    ASSUME Sound, OnItsOwn, NEW p \in Procs, NEW j, j = proc[p], j.at \in {"gpu", "doses"}, NEW e,
           Goto(p, [At(j, "evidence") EXCEPT !.evidence = e]), files' = files
    PROVE  \E n : Careful(p, n)
<1>1. ProducerSound(j) /\ DOMAIN j = JobFields /\ (j.alone => Undisturbed(j))
  BY ProducerOnItsOwn DEF ProducerSound
<1>2. PICK n : n = [At(j, "evidence") EXCEPT !.evidence = e]
  OBVIOUS
<1>3. n.at = "evidence" /\ n.step = "ready" /\ Follows(n, j) /\ n.pair = j.pair
  BY <1>1, <1>2 DEF At, JobFields, Follows
<1>4. PointerPath(n) = PointerPath(j)
  BY <1>3, SamePaths DEF Follows
<1>5. j.alone => ~Exists(PointerPath(n))'
  BY <1>1, <1>4 DEF Undisturbed, Exists
<1>6. j.alone => Undisturbed(n)'
  BY <1>3, <1>5 DEF Undisturbed
<1>7. Goto(p, n)
  BY <1>2
<1> QED
  BY <1>3, <1>6, <1>7, QuietIsCareful

\* Assembling evidence, from chunks or from doses, disturbs nobody and never refuses.
LEMMA AssembleIsCareful ==
    ASSUME Sound, OnItsOwn, NEW p \in Procs, AssembleEvidence(p) \/ MeasureDoses(p)
    PROVE  \E n : Careful(p, n)
<1>1. PICK j : j = proc[p]
  OBVIOUS
<1>2. j.at \in {"gpu", "doses"} /\ files' = files
  BY <1>1 DEF AssembleEvidence, MeasureDoses, Ready
<1>3. \E e : Goto(p, [At(j, "evidence") EXCEPT !.evidence = e])
  BY <1>1 DEF AssembleEvidence, MeasureDoses
<1> QED
  BY <1>1, <1>2, <1>3, EvidenceStepIsCareful

\* The evidence of every row of a job that publishes is there.
LEMMA RowsAreKept ==
    ASSUME Sound, NEW j, ProducerSound(j), j.at = "publish", NEW i \in DOMAIN j.rows
    PROVE  Complete(EvidencePath(j, j.rows[i]))
<1>1. i \in 1 .. j.pair - 1
  BY DEF ProducerSound, RowsSound, IsSequence
<1>2. PICK path : path = PointerIn(j.cmd, j.root, i)
  OBVIOUS
<1>3. Complete(path) /\ Content(path) = j.rows[i]
  BY <1>1, <1>2 DEF ProducerSound, RowsSound, PointsTo
<1>4. Complete(EvidenceIn(j.cmd, j.root, Content(path)))
  BY <1>2, <1>3, PointerFile
<1> QED
  BY <1>3, <1>4 DEF EvidenceIn, EvidencePath

\* The decision to publish never refuses: the evidence of every row is there.
LEMMA PublishTreeIsCareful ==
    ASSUME Sound, OnItsOwn, NEW p \in Procs, PublishTree(p)
    PROVE  \E n : Careful(p, n)
<1>1. PICK j : j = proc[p]
  OBVIOUS
<1>2. j.at = "publish" /\ files' = files
  BY <1>1 DEF PublishTree, Ready
<1>3. ProducerSound(j) /\ DOMAIN j = JobFields
  BY <1>1, <1>2, ProducerOnItsOwn DEF ProducerSound
<1>4. \A i \in DOMAIN j.rows : Complete(EvidencePath(j, j.rows[i]))
  BY <1>2, <1>3, RowsAreKept
<1>5. PICK receipt : receipt = Receipt(j)
  OBVIOUS
<1>6. PICK path : path = ReceiptPath(j.cmd, j.root, receipt)
  OBVIOUS
<1>7. Goto(p, IF Exists(path) THEN Over("idle") ELSE At(j, "rename"))
  BY <1>1, <1>4, <1>5, <1>6 DEF PublishTree
<1>8. CASE Exists(path)
  <2>1. PICK n : n = Over("idle")
    OBVIOUS
  <2>2. Goto(p, n) /\ n.at = "idle"
    BY <1>7, <1>8, <2>1, OverAt
  <2> QED
    BY <1>1, <1>2, <2>2, QuietIsCareful
<1>9. CASE ~Exists(path)
  <2>1. PICK n : n = At(j, "rename")
    OBVIOUS
  <2>2. Goto(p, n)
    BY <1>7, <1>9, <2>1
  <2>3. /\ n.at = "rename" /\ n.step = "ready" /\ Follows(n, j) /\ n.rows = j.rows
        /\ n.predictions = j.predictions /\ n.causal = j.causal
    BY <1>3, <2>1, JobFollows
  <2>4. Receipt(n) = receipt
    BY <1>5, <2>3 DEF Receipt, Source, Follows
  <2>5. ReceiptPath(n.cmd, n.root, Receipt(n)) = path
    BY <1>6, <2>3, <2>4 DEF Follows
  <2>6. Undisturbed(n)
    BY <1>9, <2>3, <2>5 DEF Undisturbed
  <2>7. Undisturbed(n)'
    BY <1>2, <2>6 DEF Undisturbed, Exists, Target, Receipt
  <2> QED
    BY <1>1, <1>2, <2>2, <2>3, <2>7, QuietIsCareful
<1> QED
  BY <1>8, <1>9

\* The rename is refused only if another producer has published meanwhile.
LEMMA RenameTreeIsCareful ==
    ASSUME Sound, OnItsOwn, NEW p \in Procs, RenameTree(p)
    PROVE  \E n : Careful(p, n)
<1>1. PICK j : j = proc[p]
  OBVIOUS
<1>2. PICK path : path = ReceiptPath(j.cmd, j.root, Receipt(j))
  OBVIOUS
<1>3. j.at = "rename"
  BY <1>1 DEF RenameTree, Ready
<1>4. /\ ProducerSound(j) /\ (j.alone => Undisturbed(j)) /\ Active(p)
  BY <1>1, <1>3, ProducerOnItsOwn
<1>5. CASE Exists(path)
  <2>1. PICK n : n = Over("refused")
    OBVIOUS
  <2>2. Goto(p, n) /\ n.at = "refused" /\ files' = files
    BY <1>1, <1>2, <1>5, <2>1, OverAt DEF RenameTree, Refuse
  <2>3. Excused(p)
    BY <1>1, <1>2, <1>3, <1>4, <1>5, NotAloneExcuses DEF Undisturbed
  <2> QED
    BY <1>1, <1>3, <2>2, <2>3, QuietIsCareful
<1>6. CASE ~Exists(path)
  <2>1. PICK n : n = Over("idle")
    OBVIOUS
  <2>2. Put(path, Holding(Receipt(j))) /\ Goto(p, n) /\ n.at = "idle"
    BY <1>1, <1>2, <1>6, <2>1, OverAt DEF RenameTree
  <2>3. path[1] = j.cmd /\ path[2] = j.root /\ ~Complete(path)
    BY <1>2, <1>6, PathParts DEF ReceiptPath, Complete
  <2> QED
    BY <1>1, <1>4, <2>2, <2>3 DEF Careful
<1> QED
  BY <1>5, <1>6

\* A producer writes in its own root.
LEMMA TargetParts ==
    ASSUME NEW j, j.at \in Writing, NEW path, path = Target(j).path
    PROVE  path[1] = j.cmd /\ path[2] = j.root
<1>1. \E kind, of : path = Path(j.cmd, j.root, kind, of)
  BY TargetPaths DEF Writing, PlanIn, PointerIn
<1> QED
  BY <1>1, PathParts

\* An exclusive creation is refused only if another producer came in between.
LEMMA CreateIsCareful ==
    ASSUME Sound, OnItsOwn, NEW p \in Procs, Create(p)
    PROVE  \E n : Careful(p, n)
<1>1. PICK j : j = proc[p]
  OBVIOUS
<1>2. PICK path : path = Target(j).path
  OBVIOUS
<1>3. ProducerSound(j) /\ j.at \in Writing /\ j.step = "create" /\ DOMAIN j = JobFields
  <2>1. JobSound(j) /\ j.step = "create"
    BY <1>1 DEF Sound, Create
  <2> QED
    BY <2>1 DEF JobSound, OverSound, ProducerSound, PublicationSound, EvaluationSound
<1>4. Active(p) /\ (j.alone => Undisturbed(j))
  BY <1>1, <1>3, ProducerOnItsOwn DEF Writing
<1>5. CASE Exists(path)
  <2>1. PICK n : n = Over("refused")
    OBVIOUS
  <2>2. Goto(p, n) /\ n.at = "refused" /\ files' = files
    BY <1>1, <1>2, <1>5, <2>1, OverAt DEF Create, Refuse
  <2>3. Excused(p)
    BY <1>1, <1>2, <1>3, <1>4, <1>5, NotAloneExcuses DEF Undisturbed
  <2> QED
    BY <1>1, <1>3, <2>2, <2>3, QuietIsCareful DEF Writing
<1>6. CASE ~Exists(path)
  <2>1. PICK n : n = [j EXCEPT !.step = "write"]
    OBVIOUS
  <2>2. Put(path, Torn) /\ Goto(p, n)
    BY <1>1, <1>2, <1>6, <2>1 DEF Create
  <2>3. /\ n.at = j.at /\ n.step = "write" /\ Follows(n, j) /\ n.pair = j.pair
        /\ n.core = j.core /\ n.controls = j.controls /\ n.chunk = j.chunk
    BY <1>3, <2>1 DEF JobFields, Follows
  <2>4. path[1] = j.cmd /\ path[2] = j.root /\ ~Complete(path)
    BY <1>2, <1>3, <1>6, TargetParts DEF Complete
  <2>5. \A f : Exists(f)' => f = path \/ Exists(f)
    BY <2>2 DEF Put, Exists
  <2>6. ASSUME j.alone
        PROVE  Undisturbed(n)'
    <3>1. Undisturbed(j)
      BY <1>4, <2>6
    <3>2. /\ PointerPath(n) = PointerPath(j) /\ CorePath(n) = CorePath(j)
          /\ \A c : ChunkPath(n, c) = ChunkPath(j, c)
      BY <2>3, SamePaths DEF Follows
    <3>3. /\ j.at = "saveCore" => path = CorePath(j)
          /\ j.at = "saveChunk" => path = ChunkPath(j, j.chunk)
          /\ j.at = "evidence" => path = EvidencePath(j, j.evidence)
      BY <1>2, TargetPaths DEF CorePath, ChunkPath, EvidencePath
    <3>4. j.at \in {"saveCore", "saveChunk", "evidence"} => ~Exists(PointerPath(n))'
      BY <2>5, <3>1, <3>2, <3>3, PathsApart DEF Undisturbed
    <3>5. j.at = "saveChunk" /\ n.core = Unavailable => ~Exists(CorePath(n))'
      BY <2>3, <2>5, <3>1, <3>2, <3>3, PathsApart DEF Undisturbed
    <3>6. ASSUME j.at \in {"saveCore", "saveChunk"}, NEW c \in 1 .. Controls,
                 Exists(ChunkPath(n, c))'
          PROVE  c \in DOMAIN n.controls
      <4>1. ChunkPath(j, c) = path \/ Exists(ChunkPath(j, c))
        BY <2>5, <3>2, <3>6
      <4>2. CASE Exists(ChunkPath(j, c))
        BY <2>3, <3>1, <3>6, <4>2 DEF Undisturbed
      <4>3. CASE ChunkPath(j, c) = path
        <5>1. j.at = "saveChunk" /\ ChunkPath(j, c) = ChunkPath(j, j.chunk)
          BY <3>3, <3>6, <4>3, PathsApart
        <5>2. c = j.chunk
          BY <5>1, PathsApart
        <5>3. j.chunk \in DOMAIN j.controls
          BY <1>3, <5>1 DEF ProducerSound, MeasurementsSound
        <5> QED
          BY <2>3, <5>2, <5>3
      <4> QED
        BY <4>1, <4>2, <4>3
    <3> QED
      BY <1>3, <2>3, <3>4, <3>5, <3>6 DEF Undisturbed, Writing
  <2>7. n.at # "refused"
    BY <1>3, <2>3 DEF Writing
  <2> QED
    BY <1>1, <1>4, <2>2, <2>3, <2>4, <2>6, <2>7 DEF Careful
<1> QED
  BY <1>5, <1>6

\* Filling a file never refuses.
LEMMA WriteIsCareful ==
    ASSUME Sound, OnItsOwn, NEW p \in Procs, Write(p)
    PROVE  \E n : Careful(p, n)
<1>1. PICK j : j = proc[p]
  OBVIOUS
<1>2. PICK path : path = Target(j).path
  OBVIOUS
<1>3. PICK n : n = Target(j).next
  OBVIOUS
<1>4. JobSound(j) /\ j.step = "write" /\ Active(p)
  <2>1. JobSound(j) /\ j.step = "write"
    BY <1>1 DEF Sound, Write
  <2> QED
    BY <1>1, <2>1 DEF JobSound, OverSound, ProducerSound, PublicationSound, EvaluationSound,
                      Active
<1>5. Put(path, Holding(Target(j).content)) /\ Goto(p, n)
  BY <1>1, <1>2, <1>3 DEF Write
<1>6. ~Complete(path)
  BY <1>1, <1>2, <1>4, OwnPath DEF Owns
<1>7. CASE ProducerSound(j)
  <2>1. j.at \in Writing /\ DOMAIN j = JobFields /\ (j.alone => Undisturbed(j))
    BY <1>1, <1>4, <1>7, ProducerOnItsOwn DEF ProducerSound
  <2>2. path[1] = j.cmd /\ path[2] = j.root
    BY <1>2, <2>1, TargetParts
  <2>3. Follows(n, j) /\ n.at # "refused"
    BY <1>3, <2>1, NextFollows
  <2>4. \A f : Exists(f)' => f = path \/ Exists(f)
    BY <1>5 DEF Put, Exists
  <2>5. j.at = "saveCore" => j.core # Unavailable
    BY <1>7, PostScoreAssumption DEF ProducerSound, MeasurementsSound, CoreMeasured
  <2>6. j.at = "saveChunk" => j.chunk \in DOMAIN j.controls
    BY <1>7 DEF ProducerSound, MeasurementsSound
  <2>7. j.alone => Undisturbed(n)'
    BY <1>2, <1>3, <2>1, <2>4, <2>5, <2>6, NextUndisturbed
  <2> QED
    BY <1>1, <1>4, <1>5, <1>6, <2>2, <2>3, <2>7 DEF Careful
<1>8. CASE PublicationSound(j)
  <2>1. j.at = "open"
    BY <1>4, <1>8 DEF PublicationSound
  <2>2. path = j.path /\ n = Over("idle")
    BY <1>2, <1>3, <2>1 DEF Target
  <2>3. path[1] = j.cmd /\ path[2] = j.root
    BY <1>8, <2>2, PathParts DEF PublicationSound, ReceiptPath
  <2>4. n.at = "idle"
    BY <2>2, OverAt
  <2> QED
    BY <1>1, <1>4, <1>5, <1>6, <2>3, <2>4 DEF Careful
<1> QED
  BY <1>4, <1>7, <1>8 DEF JobSound, OverSound, EvaluationSound

(* Costs and report: refused only over a file that a kill left torn, since a whole one
   holds what its path is addressed by. *)
LEMMA PublishFileIsCareful ==
    ASSUME Sound, OnItsOwn, NEW p \in Procs, PublishFile(p) \/ OpenFile(p)
    PROVE  \E n : Careful(p, n)
<1>1. PICK j : j = proc[p]
  OBVIOUS
<1>2. PICK path : path = j.path
  OBVIOUS
<1>3. j.at \in {"mkdir", "open"} /\ j.step = "ready"
  BY <1>1 DEF PublishFile, OpenFile, Ready
<1>4. PublicationSound(j)
  BY <1>1, <1>3, KindsApart DEF Sound
<1>5. Active(p) /\ j.cmd \notin Producers
  BY <1>1, <1>3, <1>4 DEF Active, PublicationSound, Producers
<1>6. path[1] = j.cmd /\ path[2] = j.root /\ path[4] = j.content
  BY <1>2, <1>4, PathParts DEF PublicationSound, ReceiptPath
<1>7. CASE OpenFile(p)
  <2>1. PICK n : n = [j EXCEPT !.step = "write"]
    OBVIOUS
  <2>2. Put(path, Torn) /\ Goto(p, n) /\ j.at = "open"
    BY <1>1, <1>2, <1>7, <2>1 DEF OpenFile, Ready
  <2>3. Follows(n, j) /\ n.at = "open"
    BY <1>4, <2>1, <2>2 DEF PublicationSound, PublishFields, Follows
  <2>4. ~Complete(path)
    BY <1>1, <1>2, <2>2, OwnPath, TargetPaths DEF Owns
  <2> QED
    BY <1>1, <1>5, <1>6, <2>2, <2>3, <2>4 DEF Careful
<1>8. CASE PublishFile(p) /\ ~Exists(path)
  <2>1. PICK n : n = At(j, "open")
    OBVIOUS
  <2>2. Put(path, EmptyDir) /\ Goto(p, n)
    BY <1>1, <1>2, <1>8, <2>1 DEF PublishFile
  <2>3. Follows(n, j) /\ n.at = "open"
    BY <1>4, <2>1, <2>2 DEF PublicationSound, PublishFields, Follows, At
  <2>4. ~Complete(path)
    BY <1>8 DEF Complete
  <2> QED
    BY <1>1, <1>5, <1>6, <2>2, <2>3, <2>4 DEF Careful
<1>9. CASE PublishFile(p) /\ Exists(path) /\ files[path] = Holding(j.content)
  <2>1. PICK n : n = Over("idle")
    OBVIOUS
  <2>2. Goto(p, n) /\ files' = files /\ n.at = "idle"
    BY <1>1, <1>2, <1>9, <2>1, OverAt DEF PublishFile
  <2> QED
    BY <1>1, <1>5, <2>2 DEF Careful
<1>10. CASE PublishFile(p) /\ Exists(path) /\ files[path] # Holding(j.content)
  <2>1. PICK n : n = Over("refused")
    OBVIOUS
  <2>2. Goto(p, n) /\ files' = files /\ n.at = "refused"
    BY <1>1, <1>2, <1>10, <2>1, OverAt DEF PublishFile, Refuse
  <2>3. CASE ~Complete(path)
    <3>1. Excused(p)
      BY <1>1, <1>6, <1>10, <2>3, TornExcuses
    <3> QED
      BY <1>1, <1>5, <2>2, <3>1 DEF Careful
  <2>4. CASE Complete(path)
    <3>1. PICK content : content = Content(path)
      OBVIOUS
    <3>2. /\ ContentSound(j.cmd, j.root, path[3], j.content, content)
          /\ files[path] = Holding(content)
      BY <1>6, <2>4, <3>1, WholeFile
    <3>3. content = j.content
      BY <1>5, <3>2 DEF ContentSound
    <3> QED
      BY <1>10, <3>2, <3>3
  <2> QED
    BY <2>3, <2>4
<1> QED
  BY <1>7, <1>8, <1>9, <1>10

\* The evaluation: refused on the receipts, or because of the raw outcomes.
LEMMA EvaluationIsCareful ==
    ASSUME Sound, OnItsOwn, NEW p \in Procs, LoadReceipts(p) \/ OpenRaw(p)
    PROVE  \E n : Careful(p, n)
<1>1. PICK j : j = proc[p]
  OBVIOUS
<1>2. j.at \in {"load", "raw"} /\ files' = files
  BY <1>1 DEF LoadReceipts, OpenRaw, Ready, Refuse
<1>3. EvaluationSound(j)
  BY <1>1, <1>2, KindsApart DEF Sound
<1>4. Active(p) /\ j.cmd = "report" /\ j.cmd \notin Producers /\ j.root = "out"
  BY <1>1, <1>2, <1>3 DEF Active, EvaluationSound, Producers
<1>5. CASE LoadReceipts(p)
  <2>1. PICK n \in {At(j, "raw"), Over("refused")} : Goto(p, n)
    BY <1>1, <1>5 DEF LoadReceipts, Refuse
  <2>2. CASE n = At(j, "raw")
    <3>1. Follows(n, j) /\ n.at = "raw"
      BY <1>3, <2>2 DEF EvaluationSound, ReportFields, Follows, At
    <3> QED
      BY <1>1, <1>2, <1>4, <2>1, <3>1 DEF Careful
  <2>3. CASE n = Over("refused")
    <3>1. n.at = "refused" /\ n # At(j, "raw") /\ j.at = "load"
      <4>1. n.at = "refused" /\ j.at = "load"
        BY <1>1, <1>5, <2>3, OverAt DEF LoadReceipts, Ready
      <4>2. At(j, "raw").at = "raw"
        BY <1>3 DEF EvaluationSound, ReportFields, At
      <4> QED
        BY <4>1, <4>2
    <3>2. ~ (/\ CausalAccepted(j.causal, j.predictions)
             /\ SensitivityAccepted(j.sensitivity, j.predictions, j.causal)
             /\ CostAccepted(j.cost, j.predictions))
      <4> SUFFICES ASSUME /\ CausalAccepted(j.causal, j.predictions)
                          /\ SensitivityAccepted(j.sensitivity, j.predictions, j.causal)
                          /\ CostAccepted(j.cost, j.predictions)
                   PROVE  FALSE
        OBVIOUS
      <4>1. Goto(p, At(j, "raw")) /\ DOMAIN proc = Procs
        BY <1>1, <1>5 DEF LoadReceipts, Sound
      <4>2. proc'[p] = At(j, "raw") /\ proc'[p] = n
        BY <2>1, <4>1 DEF Goto
      <4> QED
        BY <3>1, <4>2
    <3>3. Excused(p)
      <4>1. j.causal.source = CausalSource(j.predictions) =>
              CausalAccepted(j.causal, j.predictions)
        BY <1>3, CausalIsAccepted DEF EvaluationSound
      <4>2. j.sensitivity.source = SensitivitySource(j.predictions, j.causal) =>
              SensitivityAccepted(j.sensitivity, j.predictions, j.causal)
        BY <1>3, SensitivityIsAccepted DEF EvaluationSound
      <4> QED
        BY <1>1, <1>4, <3>1, <3>2, <4>1, <4>2 DEF Excused
    <3> QED
      BY <1>1, <1>2, <1>4, <2>1, <3>1, <3>3 DEF Careful
  <2> QED
    BY <2>1, <2>2, <2>3
<1>6. CASE OpenRaw(p)
  <2>1. CASE RawAccepted(raw')
    <3>1. PICK n : n = [Publishing("report", [inputs |-> Inputs(j), raw |-> raw'])
                          EXCEPT !.alone = j.alone]
      OBVIOUS
    <3>2. Goto(p, n)
      BY <1>1, <1>6, <2>1, <3>1 DEF OpenRaw
    <3>3. Follows(n, j) /\ n.at = "mkdir"
      BY <1>4, <3>1 DEF Follows, Publishing
    <3> QED
      BY <1>1, <1>2, <1>4, <3>2, <3>3 DEF Careful
  <2>2. CASE ~RawAccepted(raw')
    <3>1. PICK n : n = Over("refused")
      OBVIOUS
    <3>2. Goto(p, n) /\ n.at = "refused" /\ j.at = "raw"
      BY <1>1, <1>6, <2>2, <3>1, OverAt DEF OpenRaw, Ready
    <3>3. Excused(p)
      BY <1>1, <1>4, <2>2, <3>2 DEF Excused
    <3> QED
      BY <1>1, <1>2, <1>4, <3>2, <3>3 DEF Careful
  <2> QED
    BY <2>1, <2>2
<1> QED
  BY <1>5, <1>6

\* A kill is not a refusal.
LEMMA DieIsCareful ==
    ASSUME Sound, OnItsOwn, NEW p \in Procs, Die(p)
    PROVE  \E n : Careful(p, n)
<1>1. PICK n : n = Over("idle")
  OBVIOUS
<1>2. Goto(p, n) /\ n.at = "idle" /\ files' = files /\ Active(p)
  BY <1>1, OverAt DEF Die
<1> QED
  BY <1>2 DEF Careful

\* Every step of a running process is careful.
LEMMA ContinueIsCareful ==
    ASSUME Sound, OnItsOwn, NEW p \in Procs, Continue(p) \/ Die(p)
    PROVE  \E n : Careful(p, n)
BY LoadPairIsCareful, LoadCoreIsCareful, LoadChunksIsCareful, ProducerWritesCareful,
   MeasureCoreIsCareful, MeasureChunkIsCareful, AssembleIsCareful, PublishTreeIsCareful,
   RenameTreeIsCareful, CreateIsCareful, WriteIsCareful, PublishFileIsCareful,
   EvaluationIsCareful, DieIsCareful
   DEF Continue

\* The target of a producer that is about to write lies in its root.
LEMMA TargetRoot ==
    ASSUME NEW j, ProducerSound(j), j.step # "ready", NEW path, path = Target(j).path
    PROVE  path[1] = j.cmd /\ path[2] = j.root
BY TargetParts DEF ProducerSound

\* A file in another root, or of another command, disturbs nobody.
LEMMA ElsewhereUndisturbed ==
    ASSUME NEW j, ProducerSound(j), Undisturbed(j),
           \A f : Exists(f)' => Exists(f) \/ f[1] # j.cmd \/ f[2] # j.root
    PROVE  Undisturbed(j)'
<1>1. ASSUME NEW f, f[1] = j.cmd, f[2] = j.root, ~Exists(f)
      PROVE  ~Exists(f)'
  BY <1>1
<1>2. /\ PointerPath(j)[1] = j.cmd /\ PointerPath(j)[2] = j.root
      /\ CorePath(j)[1] = j.cmd /\ CorePath(j)[2] = j.root
      /\ ReceiptPath(j.cmd, j.root, Receipt(j))[1] = j.cmd
      /\ ReceiptPath(j.cmd, j.root, Receipt(j))[2] = j.root
  BY DEF PointerPath, CorePath, ReceiptPath, Path
<1>3. \A k : ChunkPath(j, k)[1] = j.cmd /\ ChunkPath(j, k)[2] = j.root
  BY DEF ChunkPath, Path
<1>4. j.step = "create" => Target(j).path[1] = j.cmd /\ Target(j).path[2] = j.root
  BY TargetRoot
<1>5. /\ ~Exists(PointerPath(j)) => ~Exists(PointerPath(j))'
      /\ ~Exists(CorePath(j)) => ~Exists(CorePath(j))'
      /\ \A k : ~Exists(ChunkPath(j, k)) => ~Exists(ChunkPath(j, k))'
      /\ ~Exists(ReceiptPath(j.cmd, j.root, Receipt(j)))
           => ~Exists(ReceiptPath(j.cmd, j.root, Receipt(j)))'
      /\ j.step = "create" /\ ~Exists(Target(j).path) => ~Exists(Target(j).path)'
  BY <1>1, <1>2, <1>3, <1>4
<1>6. Target(j)' = Target(j) /\ Receipt(j)' = Receipt(j)
  BY DEF Target, Receipt
<1> QED
  BY <1>5, <1>6 DEF Undisturbed

\* A careful step leaves every lonely producer undisturbed, itself and the others.
LEMMA ContinueOnItsOwn ==
    ASSUME Sound, OnItsOwn, NEW p \in Procs, NEW n, Careful(p, n)
    PROVE  OnItsOwn'
<1>1. DOMAIN proc = Procs /\ proc' = [proc EXCEPT ![p] = n]
  BY DEF Sound, Careful, Goto
<1>2. proc'[p] = n /\ \A q \in Procs \ {p} : proc'[q] = proc[q]
  BY <1>1
<1>3. \/ n.at \in {"idle", "refused"}
      \/ n.cmd = proc[p].cmd /\ n.root = proc[p].root /\ n.alone = proc[p].alone
  BY DEF Careful, Follows
<1>4. Active(p)
  BY DEF Careful
<1>5. \A q \in Procs : Active(q)' => /\ Active(q) /\ proc'[q].cmd = proc[q].cmd
                                     /\ proc'[q].root = proc[q].root
                                     /\ proc'[q].alone = proc[q].alone
  BY <1>2, <1>3, <1>4 DEF Active
<1>6. ASSUME NEW q \in Procs, Active(q)', proc'[q].alone
      PROVE  /\ \A r \in Procs \ {q} : ~SharesRoot(r, proc[q])'
             /\ proc'[q].cmd \in Producers => Undisturbed(proc[q])'
  <2>1. /\ Active(q) /\ proc[q].alone
        /\ proc'[q].cmd = proc[q].cmd /\ proc'[q].root = proc[q].root
    BY <1>5, <1>6
  <2>2. \A r \in Procs \ {q} : ~SharesRoot(r, proc[q])
    BY <2>1 DEF OnItsOwn
  <2>3. \A r \in Procs \ {q} : ~SharesRoot(r, proc[q])'
    BY <1>5, <2>1, <2>2 DEF SharesRoot
  <2>4. ASSUME q = p, proc'[q].cmd \in Producers
        PROVE  Undisturbed(proc[q])'
    <3>1. n.at \notin {"idle", "refused"}
      BY <1>2, <1>6, <2>4 DEF Active
    <3>2. Undisturbed(n)'
      BY <2>1, <2>4, <3>1 DEF Careful
    <3>3. PICK k : k = proc'[q]
      OBVIOUS
    <3>4. Undisturbed(k)'
      BY <1>2, <2>4, <3>2, <3>3
    <3> QED
      BY <3>3, <3>4
  <2>5. ASSUME q # p, proc'[q].cmd \in Producers
        PROVE  Undisturbed(proc[q])'
    <3>1. PICK k : k = proc[q]
      OBVIOUS
    <3>2. k = proc'[q] /\ Undisturbed(k)
      BY <1>2, <2>1, <2>5, <3>1 DEF OnItsOwn
    <3>3. ProducerSound(k)
      <4>1. JobSound(k) /\ k.cmd \in Producers /\ k.at \notin {"idle", "refused"}
        BY <2>1, <2>5, <3>1 DEF Sound, Active
      <4> QED
        BY <4>1 DEF JobSound, OverSound, PublicationSound, EvaluationSound, Producers
    <3>4. proc[p].cmd # k.cmd \/ proc[p].root # k.root
      BY <1>4, <2>2, <2>5, <3>1 DEF SharesRoot
    <3>5. \A f : Exists(f)' => Exists(f) \/ f[1] # k.cmd \/ f[2] # k.root
      BY <3>4 DEF Careful, Put, Exists
    <3>6. Undisturbed(k)'
      BY <3>2, <3>3, <3>5, ElsewhereUndisturbed
    <3> QED
      BY <3>2, <3>6
  <2> QED
    BY <2>3, <2>4, <2>5
<1> QED
  BY <1>6 DEF OnItsOwn

\* Losing its root to another process changes nothing else of a job.
LEMMA AloneFields ==
    ASSUME NEW j, JobSound(j), j.at \notin {"idle", "refused"}, NEW k, k = Alone(j)
    PROVE  k.at = j.at /\ k.cmd = j.cmd /\ k.root = j.root /\ k.alone = FALSE
<1>1. {"at", "cmd", "root", "alone"} \subseteq DOMAIN j
  BY DEF JobSound, OverSound, ProducerSound, PublicationSound, EvaluationSound, JobFields,
         PublishFields, ReportFields
<1> QED
  BY <1>1 DEF Alone

\* A launch takes a root from whoever had it to himself.
LEMMA LaunchOnItsOwn ==
    ASSUME Sound, OnItsOwn, NEW p \in Procs, NEW j, Launch(p, j),
           {"at", "step", "cmd", "root", "alone"} \subseteq DOMAIN j,
           j.at \in {"plan", "mkdir", "load"}, j.step = "ready"
    PROVE  /\ OnItsOwn'
           /\ \A q \in Procs : proc'[q].at = "refused" => proc[q].at = "refused"
<1>1. PICK others : others = {q \in Procs \ {p} : SharesRoot(q, j)}
  OBVIOUS
<1>2. PICK b : b = (others = {})
  OBVIOUS
<1>3. PICK n : n = [j EXCEPT !.alone = b]
  OBVIOUS
<1>4. /\ files' = files
      /\ proc' = [q \in Procs |-> IF q = p THEN n
                                  ELSE IF q \in others THEN Alone(proc[q]) ELSE proc[q]]
  BY <1>1, <1>2, <1>3 DEF Launch, Alone
<1>5. /\ n.at = j.at /\ n.step = "ready" /\ n.cmd = j.cmd /\ n.root = j.root
      /\ n.alone = b
  BY <1>3
<1>6. proc'[p] = n
  BY <1>4
<1>7. ASSUME NEW q \in Procs \ {p}
      PROVE  /\ proc'[q].at = proc[q].at
             /\ Active(q) => proc'[q].cmd = proc[q].cmd /\ proc'[q].root = proc[q].root
             /\ Active(q) /\ proc'[q].alone = TRUE => proc'[q] = proc[q] /\ ~SharesRoot(q, j)
  <2>1. CASE q \in others
    <3>1. PICK k : k = proc[q]
      OBVIOUS
    <3>2. JobSound(k) /\ k.at \notin {"idle", "refused"}
      BY <1>1, <2>1, <3>1 DEF Sound, SharesRoot, Active
    <3>3. PICK m : m = Alone(k)
      OBVIOUS
    <3>4. m.at = k.at /\ m.cmd = k.cmd /\ m.root = k.root /\ m.alone = FALSE
      BY <3>2, <3>3, AloneFields
    <3>5. proc'[q] = m
      BY <1>4, <2>1, <3>1, <3>3
    <3> QED
      BY <3>1, <3>4, <3>5
  <2>2. CASE q \notin others
    BY <1>1, <1>4, <2>2
  <2> QED
    BY <2>1, <2>2
<1>8. \A q \in Procs \ {p} : Active(q)' => Active(q)
  BY <1>7 DEF Active
<1>9. ASSUME NEW q \in Procs, Active(q)', proc'[q].alone = TRUE
      PROVE  \A r \in Procs \ {q} : ~SharesRoot(r, proc[q])'
  <2>1. CASE q = p
    <3>1. others = {}
      BY <1>2, <1>5, <1>6, <1>9, <2>1
    <3>2. ASSUME NEW r \in Procs \ {p}, SharesRoot(r, proc[q])'
          PROVE  FALSE
      <4>1. Active(r) /\ proc[r].cmd = j.cmd /\ proc[r].root = j.root
        BY <1>5, <1>6, <1>7, <1>8, <2>1, <3>2 DEF SharesRoot
      <4> QED
        BY <1>1, <3>1, <4>1 DEF SharesRoot
    <3> QED
      BY <2>1, <3>2
  <2>2. CASE q # p
    <3>1. Active(q) /\ proc'[q] = proc[q] /\ ~SharesRoot(q, j) /\ proc[q].alone = TRUE
      BY <1>7, <1>8, <1>9, <2>2
    <3>2. \A r \in Procs \ {q} : ~SharesRoot(r, proc[q])
      BY <3>1 DEF OnItsOwn
    <3>3. ~SharesRoot(p, proc[q])'
      BY <1>5, <1>6, <3>1 DEF SharesRoot
    <3>4. \A r \in Procs \ {p, q} : ~SharesRoot(r, proc[q])'
      BY <1>7, <1>8, <3>1, <3>2 DEF SharesRoot
    <3> QED
      BY <3>3, <3>4
  <2> QED
    BY <2>1, <2>2
<1>10. ASSUME NEW q \in Procs, Active(q)', proc'[q].alone = TRUE, proc'[q].cmd \in Producers
       PROVE  Undisturbed(proc[q])'
  <2>1. CASE q = p
    <3>1. Undisturbed(n)'
      BY <1>5 DEF Undisturbed
    <3>2. PICK k : k = proc'[q]
      OBVIOUS
    <3>3. Undisturbed(k)'
      BY <1>6, <2>1, <3>1, <3>2
    <3> QED
      BY <3>2, <3>3
  <2>2. CASE q # p
    <3>1. PICK k : k = proc[q]
      OBVIOUS
    <3>2. Active(q) /\ proc'[q] = k /\ k.alone = TRUE /\ k.cmd \in Producers
      BY <1>7, <1>8, <1>10, <2>2, <3>1
    <3>3. Undisturbed(k)
      BY <3>1, <3>2 DEF OnItsOwn
    <3>4. Undisturbed(k)'
      BY <1>4, <3>3 DEF Undisturbed, Exists, Target, Receipt
    <3> QED
      BY <3>2, <3>4
  <2> QED
    BY <2>1, <2>2
<1>11. ASSUME NEW q \in Procs, Active(q)', proc'[q].alone
       PROVE  proc'[q].alone = TRUE
  <2>1. CASE q = p
    BY <1>2, <1>5, <1>6, <1>11, <2>1
  <2>2. CASE q # p
    <3>1. PICK a : a = proc'[q].alone
      OBVIOUS
    <3>2. a
      BY <1>11, <3>1
    <3> QED
      BY <3>1, <3>2
  <2> QED
    BY <2>1, <2>2
<1>12. OnItsOwn'
  BY <1>9, <1>10, <1>11 DEF OnItsOwn
<1>13. \A q \in Procs : proc'[q].at = "refused" => proc[q].at = "refused"
  BY <1>5, <1>6, <1>7
<1> QED
  BY <1>12, <1>13

\* Every start leaves the lonely producers undisturbed and refuses nobody.
LEMMA StartOnItsOwn ==
    ASSUME Sound, OnItsOwn, NEW p \in Procs, Start(p)
    PROVE  /\ OnItsOwn'
           /\ \A q \in Procs : proc'[q].at = "refused" => proc[q].at = "refused"
<1>1. PICK j : /\ Launch(p, j) /\ {"at", "step", "cmd", "root", "alone"} \subseteq DOMAIN j
               /\ j.at \in {"plan", "mkdir", "load"} /\ j.step = "ready"
  <2>1. \A cmd, root, q, causal :
            /\ {"at", "step", "cmd", "root", "alone"} \subseteq DOMAIN Job(cmd, root, q, causal)
            /\ Job(cmd, root, q, causal).at = "plan"
            /\ Job(cmd, root, q, causal).step = "ready"
    BY DEF Job
  <2>2. \A cmd, content :
            /\ {"at", "step", "cmd", "root", "alone"} \subseteq DOMAIN Publishing(cmd, content)
            /\ Publishing(cmd, content).at = "mkdir"
            /\ Publishing(cmd, content).step = "ready"
    BY DEF Publishing
  <2>3. CASE StartCausal(p) \/ StartSensitivity(p)
    BY <2>1, <2>3 DEF StartCausal, StartSensitivity
  <2>4. CASE StartCost(p)
    BY <2>2, <2>4 DEF StartCost
  <2>5. CASE StartEvaluate(p)
    <3>1. PICK q, c, s, path :
              Launch(p, [cmd |-> "report", root |-> "out", at |-> "load", step |-> "ready",
                         alone |-> TRUE, predictions |-> q, causal |-> c, sensitivity |-> s,
                         cost |-> path])
      BY <2>5 DEF StartEvaluate
    <3> QED
      BY <3>1
  <2> QED
    BY <2>3, <2>4, <2>5 DEF Start
<1> QED
  BY <1>1, LaunchOnItsOwn

\* A stuttering step disturbs nobody.
LEMMA StutterOnItsOwn ==
    ASSUME OnItsOwn, UNCHANGED vars
    PROVE  OnItsOwn'
<1>1. files' = files /\ proc' = proc
  BY DEF vars
<1>2. ASSUME NEW j, Undisturbed(j)
      PROVE  Undisturbed(j)'
  BY <1>1, <1>2 DEF Undisturbed, Exists, Target, Receipt
<1>3. ASSUME NEW p \in Procs, Active(p)', proc'[p].alone, proc'[p].cmd \in Producers
      PROVE  Undisturbed(proc[p])'
  <2>1. PICK j : j = proc[p]
    OBVIOUS
  <2>2. Undisturbed(j)
    BY <1>1, <1>3, <2>1 DEF OnItsOwn, Active
  <2>3. Undisturbed(j)'
    BY <1>2, <2>2
  <2> QED
    BY <1>1, <2>1, <2>3
<1> QED
  BY <1>1, <1>3 DEF OnItsOwn, Active, SharesRoot

\* OnItsOwn is preserved by every step.
LEMMA NextOnItsOwn ==
    ASSUME Sound, OnItsOwn, [Next]_vars
    PROVE  OnItsOwn'
<1>1. ASSUME NEW p \in Procs, Continue(p) \/ Die(p)
      PROVE  OnItsOwn'
  BY <1>1, ContinueIsCareful, ContinueOnItsOwn
<1> QED
  BY <1>1, StartOnItsOwn, StutterOnItsOwn DEF Next

\* Nobody runs initially.
LEMMA InitOnItsOwn == Init => OnItsOwn
<1>1. ASSUME Init, NEW p \in Procs
      PROVE  ~Active(p)
  BY <1>1, OverAt DEF Init, Active
<1> QED
  BY <1>1 DEF OnItsOwn

(* A producer that has had its root to itself finds there what it has left there, at
   every moment: this is what makes resuming after a kill safe. *)
THEOREM AlwaysOnItsOwn == Spec => []OnItsOwn
<1>1. Sound /\ OnItsOwn /\ [Next]_vars => OnItsOwn'
  BY NextOnItsOwn
<1> QED
  BY <1>1, InitOnItsOwn, AlwaysSound, PTL DEF Spec

\* Every refusal has an excuse.
LEMMA RefusalsExcused ==
    ASSUME Sound, OnItsOwn, [Next]_vars, NEW p \in Procs,
           proc[p].at # "refused", proc'[p].at = "refused"
    PROVE  Excused(p)
<1>1. PICK q \in Procs : Start(q) \/ Continue(q) \/ Die(q)
  BY DEF Next, vars
<1>2. CASE Start(q)
  BY <1>2, StartOnItsOwn
<1>3. CASE Continue(q) \/ Die(q)
  <2>1. PICK n : Careful(q, n)
    BY <1>3, ContinueIsCareful
  <2>2. proc' = [proc EXCEPT ![q] = n] /\ DOMAIN proc = Procs
    BY <2>1 DEF Careful, Goto, Sound
  <2>3. q = p /\ proc'[p] = n
    BY <2>2
  <2> QED
    BY <2>1, <2>3 DEF Careful
<1> QED
  BY <1>1, <1>2, <1>3

(* A process is refused only for a reason: a second producer, a torn file, a root of other
   inputs, receipts that do not chain, outcomes outside the envelope.  What the producers
   publish the evaluation accepts, whatever was measured. *)
THEOREM RefusalsHaveCause == Spec => RefusedOnlyForCause
<1> DEFINE A == \A p \in Procs :
        (proc[p].at # "refused" /\ proc'[p].at = "refused") => Excused(p)
<1>1. Sound /\ OnItsOwn /\ [Next]_vars => [A]_vars
  BY RefusalsExcused
<1> QED
  BY <1>1, AlwaysSound, AlwaysOnItsOwn, PTL DEF Spec, RefusedOnlyForCause

=============================================================================
