------------------------- MODULE MCTwoWorkerScoring -------------------------
(***************************************************************************)
(* TLC instances of TwoWorkerScoring: the worker program points where a    *)
(* death may land in each run, and the symmetry of coordinator identities. *)
(***************************************************************************)
EXTENDS TwoWorkerScoring, TLC

\* Deaths anywhere.
AnyPoint == WorkerLivePoints \cup (CoordinatorPoints \ {"off"})

\* Deaths anywhere except between the two steps of a receipt write, between a
\* staged sidecar's rename and the removal of its publish lock, and between
\* its promotion and the prune: what resume is written to survive.
ResumablePoints ==
    AnyPoint \ {"retiring", "unlocking", "preparing", "prune", "promoting",
                "summarizing", "closing", "completing"}

\* A death between the promotion rename and the prune.
PrunePoint == {"prune"}

CoordinatorSymmetry == Permutations(Coordinators)

=============================================================================
