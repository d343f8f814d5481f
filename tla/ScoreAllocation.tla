------------------------------- MODULE ScoreAllocation -------------------------------
(***************************************************************************)
(* Which episodes of a split the analysis may use: the audit of the raw    *)
(* artifacts against the manifest, the probe bound to the audited          *)
(* Calibration episodes, the audit of the score sidecars against both, and *)
(* the check a feature cohort makes of its inputs against the receipt of   *)
(* those audits.  A digest is the content it is the digest of.             *)
(***************************************************************************)
EXTENDS Integers, Sequences, FiniteSets, Functions

CONSTANTS Expected(_, _, _, _),  \* split, task, policy and commit to the manifest's episodes
          Refit(_),              \* training rows to the probe a deterministic refit gives
          Stride,                \* SCORE_STRIDE_STEPS
          CapDenominator         \* a tenth of the resets may be invalid

Ids(identities) == {x.id : x \in identities}
NoDuplicates(seq) == \A i, j \in DOMAIN seq : seq[i].id = seq[j].id => i = j

-----------------------------------------------------------------------------
(* A manifest is [split, task, episodes]; an episode [id, init, cell, policy, commit]. *)

ManifestAccepted(manifest) ==
    \E e \in manifest.episodes :
        manifest.episodes = Expected(manifest.split, manifest.task, e.policy, e.commit)

(* A raw artifact is [id, episode, task, policy, base, valid, success, steps,
   trajectory]; the first digest covers everything but the last field. *)
MetadataDigest(raw) == [raw EXCEPT !.trajectory = "none"]
RawIdentity(raw) ==
    [id |-> raw.id, metadata |-> MetadataDigest(raw), trajectory |-> raw.trajectory]

RawMatchesManifest(raw, manifest) ==
    /\ raw.episode \in manifest.episodes /\ raw.episode.id = raw.id
    /\ raw.task = manifest.task
    /\ raw.policy = raw.episode.policy

RolloutAuditAccepted(manifest, raws) ==
    /\ ManifestAccepted(manifest)
    /\ NoDuplicates(raws)
    /\ Ids(Range(raws)) = Ids(manifest.episodes)
    /\ \A raw \in Range(raws) : RawMatchesManifest(raw, manifest)
    /\ Cardinality({raw.base : raw \in Range(raws)}) = 1

RolloutReceipt(manifest, raws) ==
    [manifest |-> manifest,
     source |-> LET raw == CHOOSE r \in Range(raws) : TRUE
                IN  [split |-> manifest.split, task |-> manifest.task, base |-> raw.base,
                     policy |-> raw.episode.policy, commit |-> raw.episode.commit],
     valid |-> {RawIdentity(raw) : raw \in {r \in Range(raws) : r.valid}},
     invalid |-> {RawIdentity(raw) : raw \in {r \in Range(raws) : ~r.valid}}]

\* revalidate_rollout_receipt: the manifest is regenerated, the receipt constructed again.
RolloutReceiptAccepted(receipt) ==
    LET all == receipt.valid \cup receipt.invalid
    IN  /\ ManifestAccepted(receipt.manifest)
        /\ receipt.source.split = receipt.manifest.split
        /\ receipt.source.task = receipt.manifest.task
        /\ \A e \in receipt.manifest.episodes :
              e.policy = receipt.source.policy /\ e.commit = receipt.source.commit
        /\ Ids(receipt.valid) \cap Ids(receipt.invalid) = {}
        /\ Cardinality(Ids(all)) = Cardinality(all)
        /\ Ids(all) = Ids(receipt.manifest.episodes)

\* _validate_invalid_allocation: the cap on invalid resets, over the split and in each cell.
InvalidWithinCap(receipt) ==
    LET Fits(episodes) ==
            CapDenominator * Cardinality({e \in episodes : e.id \in Ids(receipt.invalid)})
              <= Cardinality(episodes)
        episodes == receipt.manifest.episodes
    IN  Fits(episodes) /\ \A d \in episodes : Fits({e \in episodes : e.cell = d.cell})

-----------------------------------------------------------------------------
(* A checkout is [config, code], the two digests a score is bound to.  A bound
   probe is [model, rollout, rows, raws, config, code]: the rows it was fitted on,
   each [id, init, step], and the raw identities they were read from. *)

ProbeRowsCover(rows, rollout) ==
    /\ Ids(rows) = Ids(rollout.valid)
    /\ \A r \in rows :
          /\ r.step % Stride = 0
          /\ \E e \in rollout.manifest.episodes : e.id = r.id /\ e.init = r.init

BoundProbe(model, rollout, cohort, repo) ==
    [model |-> model, rollout |-> rollout, rows |-> cohort.rows, raws |-> cohort.raws,
     config |-> repo.config, code |-> repo.code]

\* validate_bound_probe_artifact, made again wherever a probe is used.
ProbeAccepted(probe, repo) ==
    /\ probe.rollout.source.split = "calibration"
    /\ RolloutReceiptAccepted(probe.rollout)
    /\ ProbeRowsCover(probe.rows, probe.rollout)
    /\ probe.raws = probe.rollout.valid \cup probe.rollout.invalid
    /\ probe.config = repo.config /\ probe.code = repo.code

BindAccepted(model, rollout, cohort, repo) ==
    /\ ProbeAccepted(BoundProbe(model, rollout, cohort, repo), repo)
    /\ model = Refit(cohort.rows)

\* A probe scores the split it was fitted on, or another of the same task and model.
Compatible(source, probe) ==
    /\ source.task = probe.rollout.source.task
    /\ source.policy = probe.rollout.source.policy
    /\ source.base = probe.rollout.source.base

ProbeFits(receipt, probe) ==
    IF receipt.source.split = "calibration" THEN receipt = probe.rollout
                                            ELSE Compatible(receipt.source, probe)

-----------------------------------------------------------------------------
(* A score sidecar is [id, split, links, success, steps, primitives, declared]. *)

Links(identity, probe, repo) ==
    [metadata |-> identity.metadata, trajectory |-> identity.trajectory, probe |-> probe,
     config |-> repo.config, code |-> repo.code]

SidecarDigest(sidecar) == [sidecar EXCEPT !.primitives = "none"]

ScoreIdentity(sidecar) ==
    [id |-> sidecar.id, metadata |-> SidecarDigest(sidecar), primitives |-> sidecar.primitives,
     links |-> sidecar.links]

ScoreAuditAccepted(receipt, sidecars, probe, repo) ==
    /\ ProbeAccepted(probe, repo)
    /\ ProbeFits(receipt, probe)
    /\ sidecars # << >> /\ NoDuplicates(sidecars)
    /\ Ids(Range(sidecars)) = Ids(receipt.valid)
    /\ \A s \in Range(sidecars) :
          /\ s.split = receipt.source.split
          /\ \E raw \in receipt.valid : raw.id = s.id /\ s.links = Links(raw, probe, repo)
          /\ s.declared = s.primitives

ScoreReceipt(receipt, sidecars, probe, repo) ==
    [rollout |-> receipt, probe |-> probe, config |-> repo.config, code |-> repo.code,
     scores |-> {ScoreIdentity(s) : s \in Range(sidecars)}]

\* revalidate_score_receipt.
ScoreReceiptAccepted(scored, probe, repo) ==
    /\ ProbeAccepted(probe, repo)
    /\ RolloutReceiptAccepted(scored.rollout)
    /\ scored.config = repo.config /\ scored.code = repo.code
    /\ Ids(scored.scores) = Ids(scored.rollout.valid)
    /\ Cardinality(scored.scores) = Cardinality(scored.rollout.valid)
    /\ \A s \in scored.scores : \E raw \in scored.rollout.valid :
          raw.id = s.id /\ s.links = Links(raw, scored.probe, repo)
    /\ scored.probe = probe
    /\ scored.rollout.source.split \in {"calibration", "locked_test"}
    /\ ProbeFits(scored.rollout, probe)

\* _validate_pair: the score is of this artifact, whole, and repeats its outcome.
PairAccepted(raw, sidecar, split, probe) ==
    /\ raw.id = sidecar.id
    /\ sidecar.split = split
    /\ sidecar.links.metadata = MetadataDigest(raw)
    /\ sidecar.links.trajectory = raw.trajectory
    /\ sidecar.links.probe = probe
    /\ raw.valid /\ raw.steps > 0
    /\ sidecar.success = raw.success /\ sidecar.steps = raw.steps

FeatureInputsAccepted(scored, raws, sidecars, probe, repo, split) ==
    /\ ScoreReceiptAccepted(scored, probe, repo)
    /\ scored.rollout.source.split = split
    /\ raws # << >> /\ NoDuplicates(raws) /\ NoDuplicates(sidecars)
    /\ Ids(Range(raws)) = Ids(Range(sidecars))
    /\ {RawIdentity(raw) : raw \in Range(raws)} = scored.rollout.valid
    /\ {ScoreIdentity(s) : s \in Range(sidecars)} = scored.scores
    /\ \A raw \in Range(raws), s \in Range(sidecars) :
          raw.id = s.id => PairAccepted(raw, s, split, probe)
======================================================================================
