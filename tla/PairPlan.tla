---------------------------------- MODULE PairPlan ----------------------------------
(***************************************************************************)
(* The outcome-blind pairing of Locked Test states (causal.py and          *)
(* locked_test_causal.py): which state is patched towards which donor.     *)
(*                                                                         *)
(* A state is a record: its episode, the attributes that must be equal     *)
(* (symmetry order, phase, contact, predicates) as one "stratum", the      *)
(* distances that must be small (gripper, end effector, object, time) as   *)
(* one integer coordinate with tolerance Tolerance, and its yaw in whole   *)
(* degrees.  SHA-256 traversals are arbitrary fixed orders.                *)
(***************************************************************************)
EXTENDS Integers, Sequences, FiniteSets, SequencesExt

CONSTANTS Seeds,      \* PAIRING_SEEDS, a sequence
          PairLimit,  \* PAIR_LIMIT_PER_SEED
          Tolerance,  \* the largest coordinate difference that still matches
          HashOrder   \* [seed -> the candidate identities in the order of their seeded hashes]

ASSUME PairPlanAssumption ==
    /\ PairLimit \in Nat \ {0} /\ Tolerance \in Nat
    /\ Len(Seeds) \in Nat /\ DOMAIN Seeds = 1 .. Len(Seeds)

NoState == 0

\* Seeds are different numbers, and an order has each identity once.
OrdersAreTraversals ==
    /\ \A i, j \in DOMAIN Seeds : Seeds[i] = Seeds[j] => i = j
    /\ \A i \in DOMAIN Seeds : \A m, n \in DOMAIN HashOrder[Seeds[i]] :
         HashOrder[Seeds[i]][m] = HashOrder[Seeds[i]][n] => m = n

\* Candidates: an identity is one state's, and every order has all of them.
IsCohort(candidates) ==
    /\ IsFiniteSet(candidates)
    /\ \A c \in candidates : c.id \in Nat \ {NoState} /\ c.position \in Int
    /\ \A c, d \in candidates : c.id = d.id => c = d
    /\ \A i \in DOMAIN Seeds :
         /\ Len(HashOrder[Seeds[i]]) \in Nat
         /\ DOMAIN HashOrder[Seeds[i]] = 1 .. Len(HashOrder[Seeds[i]])
         /\ \A c \in candidates : \E n \in DOMAIN HashOrder[Seeds[i]] : HashOrder[Seeds[i]][n] = c.id

\* Angles in whole degrees: every symmetry order divides the turn into at least a degree.
HasAngles(candidates) ==
    \A c \in candidates : c.yaw \in Int /\ c.symmetry \in 1 .. 360

Abs(x) == IF x < 0 THEN -x ELSE x

\* symmetry_aware_orientation_difference, in degrees.
OrientationDifference(a, b) ==
    LET turn == 360 \div a.symmetry
        gap  == (a.yaw - b.yaw) % turn
    IN IF 2 * gap > turn THEN turn - gap ELSE gap

Distance(a, b) == Abs(a.position - b.position)

\* pair_eligibility.
PairEligible(a, b, mode) ==
    /\ a.id # b.id
    /\ a.symmetry = b.symmetry
    /\ a.stratum = b.stratum
    /\ Distance(a, b) <= Tolerance
    /\ IF mode = "confirmatory" THEN OrientationDifference(a, b) \in 30 .. 90
                                ELSE OrientationDifference(a, b) < 5

ById(candidates, id) == CHOOSE c \in candidates : c.id = id

\* The k-th smallest value of a function with a finite domain.
Ranked(f, k) ==
    CHOOSE v \in Range(f) : /\ Cardinality({i \in DOMAIN f : f[i] < v}) < k
                            /\ k <= Cardinality({i \in DOMAIN f : f[i] <= v})

\* min over (distance, candidate_id).
Nearest(a, options) ==
    CHOOSE b \in options : \A o \in options :
        \/ Distance(a, b) < Distance(a, o)
        \/ Distance(a, b) = Distance(a, o) /\ b.id <= o.id

\* The greedy loop of both selections, over a table of eligible edges: a state takes
\* its nearest unused donor, as long as the seed has pairs to give.
Visit(acc, id, edges) ==
    LET a       == ById(acc.unused, id)
        options == {b \in acc.unused : <<a, b>> \in edges}
        b       == Nearest(a, options)
    IN IF \/ Len(acc.pairs) >= PairLimit
          \/ \A c \in acc.unused : c.id # id
          \/ options = {}
         THEN acc
         ELSE [unused |-> acc.unused \ {a, b},
               pairs  |-> Append(acc.pairs, [recipient |-> a.id, donor |-> b.id])]

Greedy(candidates, seed, edges) ==
    LET order == HashOrder[seed]
        after[n \in 0 .. Len(order)] ==
            IF n = 0 THEN [unused |-> candidates, pairs |-> << >>]
            ELSE Visit(after[n - 1], order[n], edges)
    IN after[Len(order)].pairs

\* causal.select_pairs: eligibility is decided once per unordered edge, the state
\* with the smaller identity in the recipient's place.
SelectPairs(candidates, seed, mode) ==
    LET edges == {e \in candidates \X candidates :
                    IF e[1].id < e[2].id THEN PairEligible(e[1], e[2], mode)
                                         ELSE PairEligible(e[2], e[1], mode)}
    IN Greedy(candidates, seed, edges)

\* locked_test_causal._fast_pairs: eligibility is decided as recipients are visited.
FastPairs(candidates, seed, mode) ==
    LET edges == {e \in candidates \X candidates : PairEligible(e[1], e[2], mode)}
    IN Greedy(candidates, seed, edges)

\* _matched_donors: the nearest control donor that is neither used nor a recipient
\* of the seed; NoState where there is none.
ControlOptions(candidates, pairs, n, donors) ==
    {b \in candidates :
        /\ \A i \in DOMAIN pairs : pairs[i].recipient # b.id
        /\ \A i \in DOMAIN donors : donors[i] # b.id
        /\ PairEligible(ById(candidates, pairs[n].recipient), b, "matched_control")}

ControlDonor(candidates, pairs, n, donors) ==
    LET options == ControlOptions(candidates, pairs, n, donors)
    IN IF options = {} THEN NoState
       ELSE Nearest(ById(candidates, pairs[n].recipient), options).id

MatchedDonors(candidates, pairs) ==
    LET upTo[n \in 0 .. Len(pairs)] ==
            IF n = 0 THEN << >>
            ELSE Append(upTo[n - 1], ControlDonor(candidates, pairs, n, upTo[n - 1]))
    IN upTo[Len(pairs)]

Slot(candidates, seed, recipient, donor, control, reason) ==
    [seed      |-> seed,
     cell      |-> ById(candidates, recipient).cell,
     init      |-> ById(candidates, recipient).init,
     recipient |-> recipient, donor |-> donor, control |-> control, reason |-> reason]

\* The places in a seed's order of the candidates that are in none of its pairs.
Spare(candidates, seed, pairs) ==
    LET used(id) == \E i \in DOMAIN pairs : id \in {pairs[i].recipient, pairs[i].donor}
    IN [n \in {m \in DOMAIN HashOrder[seed] :
                 /\ \E c \in candidates : c.id = HashOrder[seed][m]
                 /\ ~used(HashOrder[seed][m])} |-> n]

\* build_pair_plan, one seed: the selected pairs, then unused states that fill the
\* remaining slots as invalid attempts.
SeedSlots(candidates, seed) ==
    LET order    == HashOrder[seed]
        pairs    == FastPairs(candidates, seed, "confirmatory")
        controls == MatchedDonors(candidates, pairs)
        spare    == Spare(candidates, seed, pairs)
    IN [i \in 1 .. PairLimit |->
          IF i <= Len(pairs)
            THEN Slot(candidates, seed, pairs[i].recipient, pairs[i].donor, controls[i], "none")
            ELSE Slot(candidates, seed, order[Ranked(spare, i - Len(pairs))], NoState, NoState,
                      "no_eligible_confirmatory_donor")]

\* Fewer states than slots is an error.
EnoughStates(candidates) ==
    \A i \in DOMAIN Seeds :
        2 * Len(FastPairs(candidates, Seeds[i], "confirmatory"))
          + PairLimit - Len(FastPairs(candidates, Seeds[i], "confirmatory"))
            <= Cardinality(candidates)

BuildPairPlan(candidates) ==
    LET slots == [i \in DOMAIN Seeds |-> SeedSlots(candidates, Seeds[i])]
    IN [n \in 1 .. Len(Seeds) * PairLimit |->
          slots[(n - 1) \div PairLimit + 1][((n - 1) % PairLimit) + 1]]

\* What makes a plan fit for a paired analysis: no state is in two slots of a seed, no
\* control donor serves twice in one, and none is a recipient.
SlotStates(slot) == {slot.recipient, slot.donor} \ {NoState}

UsesEachStateOnce(plan) ==
    \A i, j \in DOMAIN plan : plan[i].seed = plan[j].seed =>
        /\ i # j => SlotStates(plan[i]) \cap SlotStates(plan[j]) = {}
        /\ i # j /\ plan[i].control = plan[j].control => plan[i].control = NoState
        /\ plan[j].reason = "none" => plan[i].control # plan[j].recipient

\* The reason a slot is run as an invalid pair, or "none".
InvalidReason(slot) ==
    IF slot.reason # "none" THEN slot.reason
    ELSE IF slot.control = NoState THEN "no_eligible_matched_donor"
    ELSE "none"
=============================================================================
