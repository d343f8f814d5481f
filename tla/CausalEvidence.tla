------------------------------- MODULE CausalEvidence -------------------------------
(***************************************************************************)
(* What a patched pair leaves behind, how locked_test_causal.py sums it up *)
(* in its receipts, and how locked_test_evaluate.py, which recomputes the  *)
(* same sums with code of its own, decides whether to accept a receipt.    *)
(*                                                                         *)
(* A measured effect is an integer, an off-target ratio a number of        *)
(* hundredths; medians are kept doubled and percentiles times forty, so    *)
(* that all arithmetic is exact.                                           *)
(***************************************************************************)
EXTENDS PairPlan

CONSTANTS Controls,              \* RANDOM_CONTROL_COUNT, random controls of a pair
          MinValidPairs,         \* 30: fewer valid pairs leave the analysis inconclusive
          Unavailable,           \* a null in a receipt
          IntervalExcludesHalf(_) \* whether the bootstrap interval of a sequence of
                                  \* <<sign, cluster>> lies above one half (external: PCG64)

ASSUME EvidenceAssumption ==
    Controls \in Nat \ {0} /\ MinValidPairs \in Nat \ {0} /\ Unavailable \notin Nat

Infinite    == 1000000
Alphas      == <<50, 100>>        \* SENSITIVITY_ALPHAS, in hundredths

-----------------------------------------------------------------------------
(* Evidence. *)

\* Mutant: an infinite ratio is a null that claims to be finite.
RatioPayloadUnmarked(ratio) ==
    [value |-> IF ratio = Infinite THEN Unavailable ELSE ratio, status |-> "finite"]

\* _effect_payload: an infinite ratio is a null with a status of its own.
RatioPayload(ratio) ==
    IF ratio = Infinite THEN [value |-> Unavailable, status |-> "infinite_zero_yaw_effect"]
                        ELSE [value |-> ratio, status |-> "finite"]

\* _ratio_for_decision (the producer) and _validated_ratio (the evaluation).
RatioForDecision(payload) == IF payload.value = Unavailable THEN Infinite ELSE payload.value
RatioWellFormed(payload)  ==
    (payload.status = "finite") = (payload.value # Unavailable)
ValidatedRatio(payload)   == IF payload.status = "finite" THEN payload.value ELSE Infinite

PairIdentity(index, slot, valid, reason) ==
    [index |-> index, seed |-> slot.seed, cell |-> slot.cell, init |-> slot.init,
     recipient |-> slot.recipient, donor |-> slot.donor, valid |-> valid, reason |-> reason]

InvalidEvidence(source, index, slot) ==
    [source |-> source, pair |-> PairIdentity(index, slot, FALSE, InvalidReason(slot)),
     selected |-> Unavailable, off |-> Unavailable, matched |-> Unavailable,
     controls |-> << >>]

\* The same for a sensitivity pair, which takes the reason from the causal evidence.
InvalidDoses(source, index, slot, reason) ==
    [source |-> source, pair |-> PairIdentity(index, slot, FALSE, reason), alphas |-> << >>]

\* A measured core is [effect, sign, ratio, off, matched].
ValidEvidence(source, index, slot, core, controls) ==
    [source |-> source, pair |-> PairIdentity(index, slot, TRUE, "none"),
     selected |-> [effect |-> core.effect, sign |-> core.sign,
                   ratio |-> RatioPayload(core.ratio)],
     off |-> core.off,
     matched |-> [donor |-> slot.control, sign |-> core.matched],
     controls |-> controls]

\* A sensitivity pair has one core per alpha, and no controls.
Dose(alpha, core) == [alpha |-> alpha, effect |-> core.effect, sign |-> core.sign,
                      ratio |-> RatioPayload(core.ratio)]

ValidDoses(source, index, slot, core) ==
    [source |-> source, pair |-> PairIdentity(index, slot, TRUE, "none"),
     alphas |-> [a \in DOMAIN Alphas |-> Dose(Alphas[a], core)]]

-----------------------------------------------------------------------------
(* Arithmetic over rows, which keep their place in the plan. *)

Plus(a, b) == IF a >= Infinite \/ b >= Infinite THEN Infinite ELSE a + b

\* Twice the median of some values.
Median(values) ==
    LET n == Cardinality(DOMAIN values)
    IN Plus(Ranked(values, (n + 1) \div 2), Ranked(values, n \div 2 + 1))

\* np.percentile(values, 95), linear between the neighbours, times twenty.
Percentile95(values) ==
    LET at  == 19 * (Cardinality(DOMAIN values) - 1)
        low == Ranked(values, at \div 20 + 1)
    IN IF at % 20 = 0 THEN 20 * low
                      ELSE 20 * low + (at % 20) * (Ranked(values, at \div 20 + 2) - low)

Column(rows, Value(_)) == [i \in DOMAIN rows |-> Value(rows[i])]
CountTrue(flags)       == Cardinality({i \in DOMAIN flags : flags[i]})
Count(values)          == Cardinality(DOMAIN values)
Rate(flags)            == <<CountTrue(flags), Count(flags)>>
NoRows(rows)           == DOMAIN rows = {}
ValidRows(rows)        == [i \in {n \in DOMAIN rows : rows[n].pair.valid} |-> rows[i]]
SeedRows(rows, seed)   == [i \in {n \in DOMAIN rows : rows[n].pair.seed = seed} |-> rows[i]]
CellRows(rows, cell)   == [i \in {n \in DOMAIN rows : rows[n].pair.cell = cell} |-> rows[i]]

Effect(row)  == row.selected.effect
Sign(row)    == row.selected.sign
Cluster(row) == row.pair.init

\* random_control_distribution: per control index, the median over the valid pairs.
RandomControlDistribution(valid) ==
    [k \in 1 .. Controls |-> Median(Column(valid, LAMBDA row : row.controls[k]))]

NullableMedian(values) ==
    IF NoRows(values) THEN [value |-> Unavailable, status |-> "unavailable_no_valid_pairs"]
    ELSE IF Median(values) = Infinite
         THEN [value |-> Unavailable, status |-> "infinite_zero_yaw_effect"]
         ELSE [value |-> Median(values), status |-> "finite"]

SignInterval(rows) ==
    LET drawn == Column(rows, LAMBDA row : <<Sign(row), Cluster(row)>>)
    IN IF Cardinality({drawn[i][2] : i \in DOMAIN drawn}) >= 2
         THEN [drawn |-> drawn, aboveHalf |-> IntervalExcludesHalf(drawn)]
         ELSE Unavailable

IntervalPasses(interval, signs) ==
    interval # Unavailable /\ 2 * CountTrue(signs) > Count(signs) /\ interval.aboveHalf

PositiveSeeds(rows) ==
    Cardinality({i \in DOMAIN Seeds :
        /\ ~NoRows(SeedRows(rows, Seeds[i]))
        /\ Median(Column(SeedRows(rows, Seeds[i]), Effect)) > 0})

-----------------------------------------------------------------------------
(* The producer's sums. *)

EmptySummary(rows) ==
    [status |-> "inconclusive_insufficient_valid_pairs",
     attempted |-> Len(rows), valid |-> 0, signs |-> 0, interval |-> Unavailable,
     effect |-> Unavailable, ratio |-> NullableMedian(<< >>),
     offRate |-> Unavailable, matchedRate |-> Unavailable, control95 |-> Unavailable,
     randomPasses |-> FALSE, specificity |-> FALSE, signPasses |-> FALSE,
     positiveSeeds |-> 0, seedPasses |-> FALSE]

\* summarize_causal_evidence.
SummarizeCausalEvidence(rows) ==
    LET valid    == ValidRows(rows)
        signs    == Column(valid, Sign)
        effect   == Median(Column(valid, Effect))
        ratio    == NullableMedian(Column(valid, LAMBDA row :
                                       RatioForDecision(row.selected.ratio)))
        threshold == Percentile95(RandomControlDistribution(valid))
        interval == SignInterval(valid)
    IN IF NoRows(valid) THEN EmptySummary(rows)
       ELSE [status |-> IF Count(valid) >= MinValidPairs THEN "complete"
                        ELSE "inconclusive_insufficient_valid_pairs",
             attempted |-> Len(rows), valid |-> Count(valid),
             signs |-> CountTrue(signs), interval |-> interval,
             effect |-> effect, ratio |-> ratio,
             offRate |-> Rate(Column(valid, LAMBDA row : row.off)),
             matchedRate |-> Rate(Column(valid, LAMBDA row : row.matched.sign)),
             control95 |-> threshold,
             randomPasses |-> 20 * effect > threshold,
             specificity |-> ratio.value # Unavailable /\ ratio.value <= 50,
             signPasses |-> IntervalPasses(interval, signs),
             positiveSeeds |-> PositiveSeeds(valid),
             seedPasses |-> PositiveSeeds(valid) >= 2]

\* summarize_dose_evidence, over rows whose valid entries have one core per alpha.
SummarizeDoseEvidence(rows, cells) ==
    [at \in (DOMAIN Alphas) \X cells |->
        LET attempted == CellRows(rows, at[2])
            doses     == Column(ValidRows(attempted), LAMBDA row : row.alphas[at[1]])
            ratio     == NullableMedian(Column(doses, LAMBDA d : RatioForDecision(d.ratio)))
        IN [pairs |-> Column(attempted, LAMBDA row : row.pair.index),
            valid |-> Count(doses),
            signs |-> CountTrue(Column(doses, LAMBDA d : d.sign)),
            effect |-> IF NoRows(doses) THEN Unavailable
                       ELSE Median(Column(doses, LAMBDA d : d.effect)),
            ratio |-> ratio,
            specificity |-> ratio.value # Unavailable /\ ratio.value <= 50]]

-----------------------------------------------------------------------------
(* What the evaluation accepts. *)

\* One causal pair row against its evidence file, the plan's order, the predicted
\* states and the manifest's cells and initial states.
CausalPairAccepted(source, states, index, evidence) ==
    LET pair  == evidence.pair
        State(id) == ById(states, id)
        roles == {pair.recipient} \cup
                     (IF pair.valid \/ pair.reason = "no_eligible_matched_donor"
                        THEN {pair.donor} ELSE {})
    IN /\ evidence.source = source
       /\ pair.index = index
       /\ pair.seed = Seeds[(index - 1) \div PairLimit + 1]
       /\ pair.valid \/ pair.reason \in {"no_eligible_matched_donor",
                                         "no_eligible_confirmatory_donor"}
       /\ pair.reason = "no_eligible_confirmatory_donor" => pair.donor = NoState
       /\ \A id \in roles : \E s \in states : s.id = id
       /\ pair.cell = State(pair.recipient).cell /\ pair.init = State(pair.recipient).init
       /\ pair.reason # "no_eligible_confirmatory_donor" =>
              OrientationDifference(State(pair.recipient), State(pair.donor)) \in 30 .. 90
       /\ IF pair.valid
            THEN /\ RatioWellFormed(evidence.selected.ratio)
                 /\ \E s \in states : s.id = evidence.matched.donor
                 /\ OrientationDifference(State(pair.recipient),
                                          State(evidence.matched.donor)) < 5
                 /\ DOMAIN evidence.controls = 1 .. Controls
            ELSE /\ evidence.selected = Unavailable /\ evidence.off = Unavailable
                 /\ evidence.matched = Unavailable /\ evidence.controls = << >>

\* The selected-layer summary, derived again from the accepted rows.
SummaryAccepted(summary, rows) ==
    LET valid    == ValidRows(rows)
        signs    == Column(valid, Sign)
        effect   == Median(Column(valid, Effect))
        ratio    == Median(Column(valid, LAMBDA row : ValidatedRatio(row.selected.ratio)))
        controls == Percentile95([k \in 1 .. Controls |->
                                     Median([i \in DOMAIN valid |-> valid[i].controls[k]])])
    IN /\ summary.attempted = Len(Seeds) * PairLimit
       /\ summary.valid = Count(valid)
       /\ (summary.status = "complete") = (Count(valid) >= MinValidPairs)
       /\ summary.signs = CountTrue(signs)
       /\ IF NoRows(valid) THEN summary = EmptySummary(rows)
          ELSE /\ summary.interval = SignInterval(valid)
               /\ summary.effect = effect
               /\ RatioWellFormed(summary.ratio) /\ ValidatedRatio(summary.ratio) = ratio
               /\ summary.offRate = Rate(Column(valid, LAMBDA row : row.off))
               /\ summary.matchedRate = Rate(Column(valid, LAMBDA row : row.matched.sign))
               /\ summary.control95 = controls
               /\ summary.randomPasses = (20 * effect > controls)
               /\ summary.specificity = (ratio <= 50)
               /\ summary.signPasses = IntervalPasses(summary.interval, signs)
               /\ summary.positiveSeeds = PositiveSeeds(valid)
               /\ summary.seedPasses = (PositiveSeeds(valid) >= 2)

\* The dose rows and their 2 x 8 grid, derived again from the evidence files.
DosePairAccepted(source, index, evidence) ==
    /\ evidence.source = source
    /\ evidence.pair.index = index
    /\ evidence.pair.seed = Seeds[(index - 1) \div PairLimit + 1]
    /\ IF evidence.pair.valid
         THEN /\ DOMAIN evidence.alphas = DOMAIN Alphas
              /\ \A a \in DOMAIN Alphas : /\ evidence.alphas[a].alpha = Alphas[a]
                                          /\ RatioWellFormed(evidence.alphas[a].ratio)
         ELSE /\ evidence.pair.reason \in {"no_eligible_matched_donor",
                                           "no_eligible_confirmatory_donor"}
              /\ evidence.alphas = << >>

DoseGridAccepted(grid, rows, cells) ==
    /\ DOMAIN grid = (DOMAIN Alphas) \X cells
    /\ \A alpha \in DOMAIN Alphas, cell \in cells :
        LET item  == grid[<<alpha, cell>>]
            here  == CellRows(rows, cell)
            doses == Column(ValidRows(here), LAMBDA row : row.alphas[alpha])
            ratio == Median(Column(doses, LAMBDA d : ValidatedRatio(d.ratio)))
        IN /\ item.pairs = Column(here, LAMBDA row : row.pair.index)
           /\ item.valid = Count(doses)
           /\ item.signs = CountTrue(Column(doses, LAMBDA d : d.sign))
           /\ IF NoRows(doses)
                THEN /\ item.effect = Unavailable
                     /\ item.ratio = NullableMedian(<< >>)
                     /\ ~item.specificity
                ELSE /\ item.effect = Median(Column(doses, LAMBDA d : d.effect))
                     /\ RatioWellFormed(item.ratio) /\ ValidatedRatio(item.ratio) = ratio
                     /\ item.specificity = (ratio <= 50)
=============================================================================
