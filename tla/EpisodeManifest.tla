------------------------------- MODULE EpisodeManifest -------------------------------
(***************************************************************************)
(* The deterministic episode manifests of manifest.py: which initial state *)
(* is run under which condition in each split, and the reset seed of every *)
(* such cell.  A task is its rank in the shortlist.  The order a SHA-256   *)
(* puts the members of a set in is a constant operator: nothing is assumed *)
(* of it but that it is an order.                                          *)
(***************************************************************************)
EXTENDS Integers, Sequences, FiniteSets, SequencesExt

CONSTANTS Inits,          \* [split -> its initial state ids]
          SeedBase,       \* [split -> its seed base]
          YawMagnitudes,  \* the yaws of the Discovery grid, without their sign
          Conditions,     \* [protected split -> sequence of [family, values]]
          HashOrder(_, _) \* a set and a label to the set as a sequence

Splits == {"discovery", "calibration", "locked_test"}

Position(seq, x) == CHOOSE i \in DOMAIN seq : seq[i] = x

Episode(split, task, init, index, family, value) ==
    [split |-> split, task |-> task, init |-> init, index |-> index, family |-> family,
     value |-> value, seed |-> SeedBase[split] + 1000 * task + 10 * init + index]

\* _discovery_assignments: of each magnitude the first half of the initial states, in
\* hash order, gets one sign and the second half the other.
AssignedYaw(task, init, magnitude) ==
    LET ids   == HashOrder(Inits["discovery"], <<"sign assignment", task, magnitude>>)
        signs == HashOrder({-1, 1}, <<"sign order", task, magnitude>>)
    IN  magnitude * (IF Position(ids, init) <= Len(ids) \div 2 THEN signs[1] ELSE signs[2])

\* _balanced_directions and _realized_translation: the directions in turn over the
\* initial states, both in hash order.
AssignedDirection(split, task, init, directions) ==
    LET ids == HashOrder(Inits[split], <<"init order", task, split>>)
        ds  == HashOrder(directions, <<"direction order", task, split>>)
    IN  ds[((Position(ids, init) - 1) % Len(ds)) + 1]

DiscoveryManifest(task) ==
    LET magnitudes == SetToSortSeq(YawMagnitudes, <)
    IN  {Episode("discovery", task, i, 0, "iid", 0) : i \in Inits["discovery"]}
        \cup {Episode("discovery", task, i, k, "object_yaw",
                      AssignedYaw(task, i, magnitudes[k])) :
                i \in Inits["discovery"], k \in DOMAIN magnitudes}

ProtectedManifest(split, task) ==
    {LET c == Conditions[split][k]
     IN  Episode(split, task, i, k - 1, c.family,
                 IF c.family = "object_planar_translation"
                   THEN AssignedDirection(split, task, i, c.values)
                   ELSE c.values) :
        i \in Inits[split], k \in DOMAIN Conditions[split]}

\* reconstruct_episode_manifest.
Manifest(split, task) ==
    IF split = "discovery" THEN DiscoveryManifest(task) ELSE ProtectedManifest(split, task)

\* EpisodeSpec.episode_id names neither the condition's parameters nor the commit.
EpisodeId(e) == <<e.split, e.task, e.init, e.index>>

\* reconstruct_episode_manifest raises when this fails.
DistinctIdsAndSeeds(episodes) ==
    \A d, e \in episodes : d # e => EpisodeId(d) # EpisodeId(e) /\ d.seed # e.seed
======================================================================================
