-------------------------------- MODULE MCPostScore --------------------------------
(***************************************************************************)
(* Two pairing seeds with one slot each, over four states: the first seed  *)
(* finds a pair with a matched control, the second a pair without one.     *)
(***************************************************************************)
EXTENDS PostScore, AnalysisChecks, TLC

MCSeeds == <<7, 11>>
MCHashOrder == (7 :> <<2, 1, 3, 4>>) @@ (11 :> <<4, 3, 2, 1>>)

State(id, cell, init, position, yaw) ==
    [id |-> id, cell |-> cell, init |-> init, stratum |-> "approach", symmetry |-> 1,
     position |-> position, yaw |-> yaw]

MCStates == {State(1, 0, 51, 0, 0), State(2, 0, 52, 1, 3),
             State(3, 1, 51, 1, 60), State(4, 1, 52, 2, 100)}

CoreA == [effect |-> 2, sign |-> TRUE, ratio |-> 10, off |-> FALSE, matched |-> FALSE]
CoreB == [effect |-> -1, sign |-> FALSE, ratio |-> Infinite, off |-> TRUE, matched |-> TRUE]
MCCores == {CoreA, CoreB}

MCRaw == {[invalid |-> [c \in {0, 1} |-> n], violations |-> [c \in {0, 1} |-> 0],
           perCell |-> 20, annotated |-> TRUE] : n \in {2, 3}}

MCInterval(drawn) == \A i \in DOMAIN drawn : drawn[i][1]
Symmetry == Permutations(Procs) \cup Permutations(Predictions)

\* Different commands share only published receipts, which never change, and the two
\* producers share their checkpoint code: processes overlap only when they are causal
\* producers and none was killed yet, and costs are accounted for once a causal receipt is out.  The second
\* root is there for one more causal receipt, made undisturbed after the first with
\* the first core and effect; nothing else runs in it.
InR2(p) == Active(p) /\ proc[p].root = "r2"
R2Used  == (\E f \in DOMAIN files : f[2] = "r2") \/ (\E p \in Procs : InR2(p))

InR2AsIntended(p) ==
    /\ proc[p].cmd = "causal" /\ proc[p].alone
    /\ \A f \in DOMAIN files : f[1] = "causal"
    /\ proc[p].core \in {Unavailable, CoreA} /\ proc[p].controls \in {<< >>, <<0>>}

Bound ==
    /\ \A p, q \in Procs : p # q /\ Active(p) /\ Active(q) =>
          proc[p].cmd = "causal" /\ deaths = 0
    /\ (\E f \in DOMAIN files : f[1] = "cost") => Published("causal") # {}
    /\ R2Used =>
          /\ \E f \in DOMAIN files : f[1] = "causal" /\ f[2] = "r1" /\ f[3] = "receipt"
          /\ deaths = 0
          /\ \A p \in Procs :
               /\ InR2(p) => InR2AsIntended(p)
               /\ Active(p) /\ proc[p].cmd = "causal" => InR2(p)
               /\ Active(p) /\ proc[p].cmd = "sensitivity" /\ proc[p].pair = 1 =>
                      \/ proc[p].evidence = Unavailable
                      \/ proc[p].evidence.alphas[1].effect = CoreA.effect
               /\ proc[p].at = "refused" => opened # {}

-----------------------------------------------------------------------------
(* The fast selection and the frozen one agree, and the plan built from it never
   uses a state twice for one seed, on every small cohort. *)

Cohorts ==
    {{[id |-> i, cell |-> 0, init |-> i, stratum |-> s[i], symmetry |-> 2,
       position |-> x[i], yaw |-> y[i]] : i \in 1 .. 4} :
        s \in {<<1, 1, 1, 1>>, <<1, 1, 2, 1>>},
        x \in [1 .. 4 -> {0, 2}], y \in [1 .. 4 -> {0, 4, 40, 100}]}

ASSUME SelectionsAgree ==
    \A c \in Cohorts, i \in DOMAIN Seeds, mode \in {"confirmatory", "matched_control"} :
        FastPairs(c, Seeds[i], mode) = SelectPairs(c, Seeds[i], mode)

ASSUME PlansUseEachStateOnce ==
    \A c \in Cohorts : EnoughStates(c) =>
        /\ Len(BuildPairPlan(c)) = Len(Seeds) * PairLimit
        /\ UsesEachStateOnce(BuildPairPlan(c))

\* What the theorems about plans ask of a cohort, these have.
ASSUME CohortsAreCohorts ==
    OrdersAreTraversals /\ \A c \in Cohorts \cup {MCStates} : IsCohort(c) /\ HasAngles(c)
=============================================================================
