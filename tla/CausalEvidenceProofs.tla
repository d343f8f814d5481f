---------------------------- MODULE CausalEvidenceProofs ----------------------------
(***************************************************************************)
(* What the pair plan contains and what the two programs make of evidence, *)
(* for every cohort and every length of the plan: each slot is one that    *)
(* the evaluation would accept (PlanIsFit), no state is in two of a seed's *)
(* slots (PlanUsesStatesOnce), the faster selection is the library's       *)
(* (SelectionsMatch), and the sums of the producer are those that the      *)
(* evaluation derives again from the same rows (SummariesAgree,            *)
(* GridsAgree).                                                            *)
(*                                                                         *)
(* A loop of the source is a recursive function over the length of what    *)
(* it goes through.  That there is one, and that it keeps to a set its     *)
(* steps keep to, is Recursion and Stays.                                  *)
(***************************************************************************)
EXTENDS CausalEvidence, FiniteSetTheorems, WellFoundedInduction, TLAPS

-----------------------------------------------------------------------------
(* Natural numbers and recursion over them. *)

\* Every nonempty set of natural numbers has a least element.
LEMMA LeastNatural ==
    ASSUME NEW T, T \subseteq Nat, T # {}
    PROVE  \E n \in T : \A m \in T : n <= m
<1> DEFINE R == {ss \in Nat \X Nat : ss[1] < ss[2]}
<1>1. IsWellFoundedOn(R, Nat)
  BY NatLessThanWellFounded DEF OpToRel
<1> HIDE DEF R
<1>2. PICK x \in T : \A y \in T : ~ (<<y, x>> \in R)
  BY <1>1, WFMin
<1>3. ASSUME NEW y \in T PROVE x <= y
  <2>1. x \in Nat /\ y \in Nat /\ ~ (<<y, x>> \in R)
    BY <1>2
  <2> QED
    BY <2>1 DEF R
<1> QED
  BY <1>3

\* Induction: a set that has 0 and, with a number, its successor, has every number.
LEMMA AllNaturals ==
    ASSUME NEW S, 0 \in S, \A n \in Nat : n \in S => n + 1 \in S
    PROVE  \A n \in Nat : n \in S
<1> SUFFICES ASSUME ~ (Nat \subseteq S) PROVE FALSE
  OBVIOUS
<1>1. PICK n \in Nat \ S : \A m \in Nat \ S : n <= m
  BY LeastNatural
<1>2. n # 0 /\ n - 1 \in Nat /\ n - 1 \in S
  BY <1>1
<1> QED
  BY <1>1, <1>2

\* A function whose first value is in a set, and whose next value is whenever the one
\* before is, has all its values there.
LEMMA Stays ==
    ASSUME NEW V, NEW N \in Nat, NEW f, f[0] \in V,
           \A n \in 1 .. N : f[n - 1] \in V => f[n] \in V
    PROVE  \A n \in 0 .. N : f[n] \in V
<1> DEFINE S == {n \in Nat : n <= N => f[n] \in V}
<1>1. 0 \in S
  OBVIOUS
<1>2. ASSUME NEW n \in Nat, n \in S PROVE n + 1 \in S
  <2>1. n + 1 <= N => n + 1 \in 1 .. N /\ (n + 1) - 1 = n /\ n <= N
    OBVIOUS
  <2> QED
    BY <1>2, <2>1
<1> HIDE DEF S
<1>3. \A n \in Nat : n \in S
  BY <1>1, <1>2, AllNaturals
<1> QED
  BY <1>3 DEF S

\* Steps that keep to a set can be taken one after the other.
LEMMA Recursion ==
    ASSUME NEW V, NEW b \in V, NEW N \in Nat, NEW step \in [1 .. N -> [V -> V]]
    PROVE  \E f \in [0 .. N -> V] : f[0] = b /\ \A n \in 1 .. N : f[n] = step[n][f[n - 1]]
<1> DEFINE Goes(f, m) == f[0] = b /\ \A n \in 1 .. m : f[n] = step[n][f[n - 1]]
           S == {m \in Nat : m <= N => \E f \in [0 .. m -> V] : Goes(f, m)}
<1>1. 0 \in S
  <2>1. [n \in 0 .. 0 |-> b] \in [0 .. 0 -> V] /\ Goes([n \in 0 .. 0 |-> b], 0)
    OBVIOUS
  <2> QED
    BY <2>1
<1>2. ASSUME NEW m \in Nat, m \in S PROVE m + 1 \in S
  <2> SUFFICES ASSUME m + 1 <= N PROVE \E f \in [0 .. m + 1 -> V] : Goes(f, m + 1)
    OBVIOUS
  <2>1. PICK f \in [0 .. m -> V] : Goes(f, m)
    BY <1>2
  <2>2. PICK v : v = step[m + 1][f[m]]
    OBVIOUS
  <2>3. v \in V
    <3>1. m + 1 \in 1 .. N /\ f[m] \in V
      OBVIOUS
    <3> QED
      BY <2>2, <3>1
  <2>4. PICK g : g = [n \in 0 .. m + 1 |-> IF n = m + 1 THEN v ELSE f[n]]
    OBVIOUS
  <2>5. g \in [0 .. m + 1 -> V]
    BY <2>3, <2>4
  <2>6. g[0] = b
    BY <2>1, <2>4
  <2>7. ASSUME NEW n \in 1 .. m + 1 PROVE g[n] = step[n][g[n - 1]]
    <3>1. CASE n = m + 1
      <4>1. g[n] = v /\ g[n - 1] = f[m]
        BY <2>4, <3>1
      <4> QED
        BY <2>2, <3>1, <4>1
    <3>2. CASE n # m + 1
      <4>1. n \in 1 .. m /\ g[n] = f[n] /\ g[n - 1] = f[n - 1]
        BY <2>4, <3>2
      <4> QED
        BY <2>1, <4>1
    <3> QED
      BY <3>1, <3>2
  <2> QED
    BY <2>5, <2>6, <2>7
<1> HIDE DEF S
<1>3. N \in S
  BY <1>1, <1>2, AllNaturals
<1> QED
  BY <1>3 DEF S

-----------------------------------------------------------------------------
(* Ranks. *)

\* Finitely many natural numbers have a bound.
LEMMA Bounded ==
    ASSUME NEW f, IsFiniteSet(DOMAIN f), \A i \in DOMAIN f : f[i] \in Nat
    PROVE  \E m \in Nat : \A i \in DOMAIN f : f[i] <= m
<1>0. PICK N \in Nat : ExistsBijection(1 .. N, DOMAIN f)
  BY FS_CardinalityType
<1>1. PICK e : e \in Bijection(1 .. N, DOMAIN f)
  BY <1>0 DEF ExistsBijection
<1>2. /\ \A n \in 1 .. N : e[n] \in DOMAIN f
      /\ \A i \in DOMAIN f : \E n \in 1 .. N : e[n] = i
  BY <1>1 DEF Bijection, Surjection, Injection
<1> DEFINE S == {k \in Nat : k <= N => \E m \in Nat : \A n \in 1 .. k : f[e[n]] <= m}
<1>3. 0 \in S
  OBVIOUS
<1>4. ASSUME NEW k \in Nat, k \in S PROVE k + 1 \in S
  <2> SUFFICES ASSUME k + 1 <= N PROVE \E m \in Nat : \A n \in 1 .. k + 1 : f[e[n]] <= m
    OBVIOUS
  <2>1. PICK m \in Nat : \A n \in 1 .. k : f[e[n]] <= m
    BY <1>4
  <2>2. PICK v \in Nat : v = f[e[k + 1]]
    BY <1>2
  <2>3. ASSUME NEW n \in 1 .. k + 1 PROVE f[e[n]] <= m + v
    <3>1. f[e[n]] \in Nat
      BY <1>2
    <3>2. n = k + 1 \/ n \in 1 .. k
      OBVIOUS
    <3> QED
      BY <2>1, <2>2, <3>1, <3>2
  <2>4. m + v \in Nat
    OBVIOUS
  <2> QED
    BY <2>3, <2>4
<1> HIDE DEF S
<1>5. N \in S
  BY <1>3, <1>4, AllNaturals
<1>6. PICK m \in Nat : \A n \in 1 .. N : f[e[n]] <= m
  BY <1>5 DEF S
<1> QED
  BY <1>2, <1>6

\* The k-th smallest of at least k natural numbers is one of them: fewer than k are
\* smaller, and at least k are not larger.
LEMMA RankedIsAValue ==
    ASSUME NEW f, IsFiniteSet(DOMAIN f), \A i \in DOMAIN f : f[i] \in Nat,
           NEW k \in 1 .. Cardinality(DOMAIN f)
    PROVE  /\ \E i \in DOMAIN f : Ranked(f, k) = f[i]
           /\ Cardinality({i \in DOMAIN f : f[i] < Ranked(f, k)}) < k
           /\ k <= Cardinality({i \in DOMAIN f : f[i] <= Ranked(f, k)})
<1> DEFINE Upto(v) == {i \in DOMAIN f : f[i] <= v}
           T == {v \in Nat : k <= Cardinality(Upto(v))}
<1>0. Cardinality(DOMAIN f) \in Nat /\ k \in Nat /\ k >= 1 /\ k <= Cardinality(DOMAIN f)
  BY FS_CardinalityType
<1>1. T # {}
  <2>1. PICK m \in Nat : \A i \in DOMAIN f : f[i] <= m
    BY Bounded
  <2>2. Upto(m) = DOMAIN f
    BY <2>1
  <2>3. m \in T
    BY <1>0, <2>2
  <2> QED
    BY <2>3
<1>2. PICK v \in T : \A w \in T : v <= w
  <2>1. T \subseteq Nat
    OBVIOUS
  <2> HIDE DEF T
  <2> QED
    BY <1>1, <2>1, LeastNatural
<1>3. v \in Nat /\ k <= Cardinality(Upto(v))
  OBVIOUS
<1>4. \A w \in Nat : k <= Cardinality(Upto(w)) => v <= w
  BY <1>2
<1> HIDE DEF T
<1>5. ASSUME NEW w PROVE IsFiniteSet(Upto(w)) /\ Cardinality(Upto(w)) \in Nat
  <2>1. Upto(w) \in SUBSET (DOMAIN f)
    OBVIOUS
  <2> HIDE DEF Upto
  <2> QED
    BY <2>1, FS_Subset, FS_CardinalityType
<1>6. Cardinality({i \in DOMAIN f : f[i] < v}) < k
  <2>1. CASE v = 0
    <3>1. {i \in DOMAIN f : f[i] < v} = {}
      BY <2>1
    <3> QED
      BY <1>0, <3>1, FS_EmptySet
  <2>2. CASE v # 0
    <3>1. v - 1 \in Nat
      BY <1>3, <2>2
    <3>2. {i \in DOMAIN f : f[i] < v} = Upto(v - 1)
      BY <1>3
    <3>3. ~ (k <= Cardinality(Upto(v - 1)))
      BY <1>3, <1>4, <3>1
    <3>4. Cardinality(Upto(v - 1)) \in Nat
      BY <1>5
    <3> QED
      BY <1>0, <3>2, <3>3, <3>4
  <2> QED
    BY <2>1, <2>2
<1>7. \E i \in DOMAIN f : f[i] = v
  <2> SUFFICES ASSUME \A i \in DOMAIN f : f[i] # v PROVE FALSE
    OBVIOUS
  <2>1. Upto(v) = {i \in DOMAIN f : f[i] < v}
    BY <1>3
  <2> QED
    BY <1>0, <1>3, <1>5, <1>6, <2>1
<1> DEFINE P(w) == /\ Cardinality({i \in DOMAIN f : f[i] < w}) < k
                   /\ k <= Cardinality({i \in DOMAIN f : f[i] <= w})
<1>8. v \in Range(f) /\ P(v)
  BY <1>3, <1>6, <1>7 DEF Range
<1>9. Ranked(f, k) = CHOOSE w \in Range(f) : P(w)
  BY DEF Ranked
<1> HIDE DEF P
<1>10. Ranked(f, k) \in Range(f) /\ P(Ranked(f, k))
  BY <1>8, <1>9
<1> QED
  BY <1>10 DEF Range, P

-----------------------------------------------------------------------------
(* The greedy selection. *)

\* Among options that are not none the nearest one is an option.
LEMMA NearestIsAnOption ==
    ASSUME NEW candidates, IsCohort(candidates), NEW a \in candidates,
           NEW options \in SUBSET candidates, options # {}
    PROVE  Nearest(a, options) \in options
<1>1. \A o \in options : Distance(a, o) \in Nat /\ o.id \in Nat
  BY DEF IsCohort, Distance, Abs
<1> DEFINE D == {Distance(a, o) : o \in options}
<1>2. PICK d \in D : \A m \in D : d <= m
  <2>1. D \subseteq Nat /\ D # {}
    BY <1>1
  <2> HIDE DEF D
  <2> QED
    BY <2>1, LeastNatural
<1> DEFINE I == {o.id : o \in {c \in options : Distance(a, c) = d}}
<1>3. PICK n \in I : \A m \in I : n <= m
  <2>1. I \subseteq Nat /\ I # {}
    BY <1>1, <1>2
  <2> HIDE DEF I
  <2> QED
    BY <2>1, LeastNatural
<1>4. PICK b \in options : Distance(a, b) = d /\ b.id = n
  BY <1>3
<1>5. ASSUME NEW o \in options
      PROVE  \/ Distance(a, b) < Distance(a, o)
             \/ Distance(a, b) = Distance(a, o) /\ b.id <= o.id
  <2>1. Distance(a, o) \in Nat /\ Distance(a, b) \in Nat /\ Distance(a, b) <= Distance(a, o)
    BY <1>1, <1>2, <1>4
  <2>2. Distance(a, b) = Distance(a, o) => b.id <= o.id
    BY <1>3, <1>4
  <2> QED
    BY <2>1, <2>2
<1> DEFINE P(c) == \A o \in options :
                \/ Distance(a, c) < Distance(a, o)
                \/ Distance(a, c) = Distance(a, o) /\ c.id <= o.id
<1>6. P(b)
  BY <1>5
<1>7. Nearest(a, options) = CHOOSE c \in options : P(c)
  BY DEF Nearest
<1> HIDE DEF P
<1> QED
  BY <1>6, <1>7

\* An identity of a candidate is found again.
LEMMA FoundById ==
    ASSUME NEW candidates, NEW id, \E c \in candidates : c.id = id
    PROVE  ById(candidates, id) \in candidates /\ ById(candidates, id).id = id
BY DEF ById

\* In a cohort it is that candidate's.
LEMMA FoundItself ==
    ASSUME NEW candidates, IsCohort(candidates), NEW c \in candidates
    PROVE  ById(candidates, c.id) = c
BY FoundById DEF IsCohort

\* The two states of a pair; pairs that share no state, with each other or with a set.
Joined(pair) == {pair.recipient, pair.donor}
Apart(pairs) ==
    \A m, n \in 1 .. Len(pairs) : m # n => Joined(pairs[m]) \cap Joined(pairs[n]) = {}
Spared(pairs, states) == \A n \in 1 .. Len(pairs), c \in states : c.id \notin Joined(pairs[n])

\* The pairs that a table of edges allows, and what the greedy loop may have so far.
PairsOf(edges) == {[recipient |-> e[1].id, donor |-> e[2].id] : e \in edges}
Accs(candidates, edges) ==
    {acc \in [unused : SUBSET candidates, pairs : Seq(PairsOf(edges))] :
        Len(acc.pairs) <= PairLimit /\ Apart(acc.pairs) /\ Spared(acc.pairs, acc.unused)}

\* Visiting a candidate adds at most one pair that the table allows.
LEMMA VisitKeeps ==
    ASSUME NEW candidates, IsCohort(candidates), NEW edges \in SUBSET (candidates \X candidates),
           NEW acc \in Accs(candidates, edges), NEW id
    PROVE  Visit(acc, id, edges) \in Accs(candidates, edges)
<1>1. PICK a : a = ById(acc.unused, id)
  OBVIOUS
<1>2. PICK options : options = {b \in acc.unused : <<a, b>> \in edges}
  OBVIOUS
<1>3. PICK b : b = Nearest(a, options)
  OBVIOUS
<1>4. Visit(acc, id, edges) =
        IF Len(acc.pairs) >= PairLimit \/ (\A c \in acc.unused : c.id # id) \/ options = {}
          THEN acc
          ELSE [unused |-> acc.unused \ {a, b},
                pairs  |-> Append(acc.pairs, [recipient |-> a.id, donor |-> b.id])]
  BY <1>1, <1>2, <1>3 DEF Visit
<1>5. /\ acc.unused \in SUBSET candidates /\ acc.pairs \in Seq(PairsOf(edges))
      /\ Len(acc.pairs) \in Nat /\ Len(acc.pairs) <= PairLimit
      /\ Apart(acc.pairs) /\ Spared(acc.pairs, acc.unused)
  BY DEF Accs
<1>6. CASE Len(acc.pairs) >= PairLimit \/ (\A c \in acc.unused : c.id # id) \/ options = {}
  BY <1>4, <1>6
<1>7. CASE ~(Len(acc.pairs) >= PairLimit \/ (\A c \in acc.unused : c.id # id) \/ options = {})
  <2>1. a \in acc.unused
    BY <1>1, <1>7, FoundById
  <2>2. b \in options
    <3>1. a \in candidates /\ options \in SUBSET candidates /\ options # {}
      BY <1>2, <1>5, <1>7, <2>1
    <3>2. Nearest(a, options) \in options
      BY <3>1, NearestIsAnOption, Zenon
    <3> QED
      BY <1>3, <3>2
  <2>3. <<a, b>> \in edges
    BY <1>2, <2>2
  <2>4. PICK pair : pair = [recipient |-> a.id, donor |-> b.id]
    OBVIOUS
  <2>5. pair \in PairsOf(edges)
    BY <2>3, <2>4 DEF PairsOf
  <2>6. PICK more : more = Append(acc.pairs, pair)
    OBVIOUS
  <2>7. more \in Seq(PairsOf(edges)) /\ Len(more) = Len(acc.pairs) + 1
    BY <1>5, <2>5, <2>6
  <2>8. Len(more) <= PairLimit
    BY <1>5, <1>7, <2>7, PairPlanAssumption
  <2>9. Visit(acc, id, edges) = [unused |-> acc.unused \ {a, b}, pairs |-> more]
    BY <1>4, <1>7, <2>4, <2>6
  <2>10. PICK L \in Nat : L = Len(acc.pairs)
    BY <1>5
  <2>11. /\ Len(more) = L + 1 /\ more[L + 1] = pair
         /\ \A n \in 1 .. L : more[n] = acc.pairs[n]
    BY <1>5, <2>5, <2>6, <2>10
  <2>12. a \in acc.unused /\ b \in acc.unused /\ Joined(pair) = {a.id, b.id}
    BY <1>2, <2>1, <2>2, <2>4 DEF Joined
  <2>13. \A n \in 1 .. L : Joined(acc.pairs[n]) \cap Joined(pair) = {}
    BY <1>5, <2>10, <2>12 DEF Spared
  <2>14. Apart(more)
    <3> SUFFICES ASSUME NEW m \in 1 .. L + 1, NEW n \in 1 .. L + 1, m # n
                 PROVE  Joined(more[m]) \cap Joined(more[n]) = {}
      BY <2>11 DEF Apart
    <3>1. CASE m \in 1 .. L /\ n \in 1 .. L
      BY <1>5, <2>10, <2>11, <3>1 DEF Apart
    <3>2. CASE m \in 1 .. L /\ n = L + 1
      BY <2>11, <2>13, <3>2
    <3>3. CASE m = L + 1 /\ n \in 1 .. L
      BY <2>11, <2>13, <3>3
    <3> QED
      BY <3>1, <3>2, <3>3
  <2>15. Spared(more, acc.unused \ {a, b})
    <3> SUFFICES ASSUME NEW n \in 1 .. L + 1, NEW c \in acc.unused \ {a, b}
                 PROVE  c.id \notin Joined(more[n])
      BY <2>11 DEF Spared
    <3>1. CASE n \in 1 .. L
      BY <1>5, <2>10, <2>11, <3>1 DEF Spared
    <3>2. CASE n = L + 1
      <4>1. c.id # a.id /\ c.id # b.id
        BY <1>5, <2>12 DEF IsCohort
      <4> QED
        BY <2>11, <2>12, <3>2, <4>1
    <3> QED
      BY <3>1, <3>2
  <2>16. PICK rest : rest = acc.unused \ {a, b}
    OBVIOUS
  <2>17. PICK next : next = [unused |-> rest, pairs |-> more]
    OBVIOUS
  <2>18. next \in [unused : SUBSET candidates, pairs : Seq(PairsOf(edges))]
    BY <1>5, <2>7, <2>16, <2>17
  <2>19. next.pairs = more /\ next.unused = rest
    BY <2>17
  <2>20. next \in Accs(candidates, edges)
    BY <2>8, <2>14, <2>15, <2>16, <2>18, <2>19, Zenon DEF Accs
  <2> QED
    BY <2>9, <2>16, <2>17, <2>20
<1> QED
  BY <1>6, <1>7

\* The greedy loop ends with pairs that its table allows, at most PairLimit of them, and
\* no state in two.
LEMMA GreedyIsFit ==
    ASSUME NEW candidates, IsCohort(candidates), NEW edges \in SUBSET (candidates \X candidates),
           NEW i \in DOMAIN Seeds
    PROVE  /\ Greedy(candidates, Seeds[i], edges) \in Seq(PairsOf(edges))
           /\ Len(Greedy(candidates, Seeds[i], edges)) <= PairLimit
           /\ Apart(Greedy(candidates, Seeds[i], edges))
<1>1. PICK order : order = HashOrder[Seeds[i]]
  OBVIOUS
<1>2. PICK N \in Nat : N = Len(order)
  BY <1>1 DEF IsCohort
<1>3. PICK b : b = [unused |-> candidates, pairs |-> << >>]
  OBVIOUS
<1>4. PICK V : V = Accs(candidates, edges)
  OBVIOUS
<1>5. b \in V
  <2>1. << >> \in Seq(PairsOf(edges)) /\ Len(<< >>) = 0
    OBVIOUS
  <2>2. Apart(<< >>) /\ Spared(<< >>, candidates)
    BY <2>1 DEF Apart, Spared
  <2> QED
    BY <1>3, <1>4, <2>1, <2>2, PairPlanAssumption DEF Accs
<1>6. \A acc \in V : \A id : Visit(acc, id, edges) \in V
  BY <1>4, VisitKeeps
<1> DEFINE loop(h) == h = [n \in 0 .. N |-> IF n = 0 THEN b ELSE Visit(h[n - 1], order[n], edges)]
           after == CHOOSE h : loop(h)
<1>7. \E h : loop(h)
  <2>1. PICK step : step = [n \in 1 .. N |-> [acc \in V |-> Visit(acc, order[n], edges)]]
    OBVIOUS
  <2>2. step \in [1 .. N -> [V -> V]]
    BY <1>6, <2>1
  <2>3. PICK f \in [0 .. N -> V] : f[0] = b /\ \A n \in 1 .. N : f[n] = step[n][f[n - 1]]
    <3> HIDE DEF loop, after
    <3> QED
      BY <1>5, <2>2, Recursion, SMT
  <2>4. ASSUME NEW n \in 0 .. N
        PROVE  f[n] = IF n = 0 THEN b ELSE Visit(f[n - 1], order[n], edges)
    <3>1. CASE n = 0
      BY <2>3, <3>1
    <3>2. CASE n # 0
      <4>1. n \in 1 .. N /\ n - 1 \in 0 .. N
        BY <3>2
      <4>2. f[n - 1] \in V
        BY <2>3, <4>1
      <4>3. f[n] = step[n][f[n - 1]]
        BY <2>3, <4>1
      <4> QED
        BY <2>1, <3>2, <4>1, <4>2, <4>3
    <3> QED
      BY <3>1, <3>2
  <2>5. f = [n \in 0 .. N |-> IF n = 0 THEN b ELSE Visit(f[n - 1], order[n], edges)]
    BY <2>4
  <2> QED
    BY <2>5
<1>8. loop(after)
  BY <1>7
<1>9. Greedy(candidates, Seeds[i], edges) = after[N].pairs
  BY <1>1, <1>2, <1>3, Zenon DEF Greedy
<1> HIDE DEF after
<1>10. after[0] = b /\ \A n \in 1 .. N : after[n] = Visit(after[n - 1], order[n], edges)
  BY <1>8
<1> HIDE DEF loop
<1>11. \A n \in 0 .. N : after[n] \in V
  BY <1>5, <1>6, <1>10, Stays
<1>12. after[N] \in V
  BY <1>11
<1> QED
  BY <1>4, <1>9, <1>12 DEF Accs

-----------------------------------------------------------------------------
(* The two selections. *)

\* Turning the other way round: what is left of a difference of angles is complementary.
LEMMA Remainders ==
    ASSUME NEW t \in Nat \ {0}, NEW x \in Int
    PROVE  \/ x % t = 0 /\ (-x) % t = 0
           \/ x % t \in 1 .. t - 1 /\ (-x) % t = t - (x % t)
<1>1. PICK q \in Int : q = x \div t
  OBVIOUS
<1>2. PICK r \in Int : r = x % t
  OBVIOUS
<1>3. x = t * q + r /\ r >= 0 /\ r < t
  BY <1>1, <1>2
<1>4. PICK p \in Int : p = (-x) \div t
  OBVIOUS
<1>5. PICK s \in Int : s = (-x) % t
  OBVIOUS
<1>6. -x = t * p + s /\ s >= 0 /\ s < t
  BY <1>4, <1>5
<1>7. t * (q + p) + (r + s) = 0
  BY <1>3, <1>6
<1>8. PICK k \in Int : k = q + p
  OBVIOUS
<1>9. t * k + (r + s) = 0 /\ r + s >= 0 /\ r + s < 2 * t
  BY <1>3, <1>6, <1>7, <1>8
<1>10. k <= 0
  <2> SUFFICES ASSUME k >= 1 PROVE FALSE
    OBVIOUS
  <2>1. t * k >= t
    OBVIOUS
  <2> QED
    BY <1>9, <2>1
<1>11. k >= -1
  <2> SUFFICES ASSUME k <= -2 PROVE FALSE
    OBVIOUS
  <2>1. t * k <= t * (-2)
    OBVIOUS
  <2>2. t * (-2) = - (2 * t)
    OBVIOUS
  <2> QED
    BY <1>9, <2>1, <2>2
<1>12. CASE k = 0
  <2>1. r + s = 0
    BY <1>9, <1>12
  <2> QED
    BY <1>2, <1>3, <1>5, <1>6, <2>1
<1>13. CASE k = -1
  <2>1. r + s = t
    BY <1>9, <1>13
  <2> QED
    BY <1>2, <1>3, <1>5, <1>6, <2>1
<1> QED
  BY <1>10, <1>11, <1>12, <1>13

\* The difference of two yaws does not depend on which of the two is turned.
LEMMA DifferenceIsMutual ==
    ASSUME NEW a, NEW b, a.symmetry = b.symmetry, a.symmetry \in 1 .. 360,
           a.yaw \in Int, b.yaw \in Int
    PROVE  OrientationDifference(a, b) = OrientationDifference(b, a)
<1>1. PICK o \in 1 .. 360 : o = a.symmetry
  OBVIOUS
<1>2. PICK t \in Nat \ {0} : t = 360 \div o
  <2>1. 360 \div o \in Int /\ 360 = o * (360 \div o) + (360 % o) /\ 360 % o < o /\ 360 % o >= 0
    OBVIOUS
  <2>2. PICK q \in Int : q = 360 \div o
    BY <2>1
  <2>3. q >= 1
    <3> SUFFICES ASSUME q <= 0 PROVE FALSE
      BY <2>2
    <3>1. o * q <= 0
      OBVIOUS
    <3> QED
      BY <2>1, <2>2, <3>1
  <2> QED
    BY <2>2, <2>3
<1>3. PICK x \in Int : x = a.yaw - b.yaw
  OBVIOUS
<1>4. b.yaw - a.yaw = -x
  BY <1>3
<1>5. /\ OrientationDifference(a, b) = IF 2 * (x % t) > t THEN t - (x % t) ELSE x % t
      /\ OrientationDifference(b, a) = IF 2 * ((-x) % t) > t THEN t - ((-x) % t) ELSE (-x) % t
  BY <1>1, <1>2, <1>3, <1>4 DEF OrientationDifference
<1>6. \/ x % t = 0 /\ (-x) % t = 0
      \/ x % t \in 1 .. t - 1 /\ (-x) % t = t - (x % t)
  BY Remainders
<1>7. x % t \in Int /\ (-x) % t \in Int
  OBVIOUS
<1> QED
  BY <1>5, <1>6, <1>7

\* Eligibility is mutual, so it may be decided from either end of an edge.
LEMMA EligibilityIsMutual ==
    ASSUME NEW candidates, IsCohort(candidates), HasAngles(candidates),
           NEW a \in candidates, NEW b \in candidates, NEW mode
    PROVE  PairEligible(a, b, mode) <=> PairEligible(b, a, mode)
<1>1. Distance(a, b) = Distance(b, a)
  BY DEF Distance, Abs, IsCohort
<1>2. a.symmetry = b.symmetry => OrientationDifference(a, b) = OrientationDifference(b, a)
  BY DifferenceIsMutual DEF HasAngles
<1> QED
  BY <1>1, <1>2, Zenon DEF PairEligible

\* The selection of the library (causal.select_pairs) and the faster one of the post-score
\* program (_fast_pairs), which has loops and tables of its own, choose the same pairs of
\* any cohort, in the same order.
THEOREM SelectionsMatch ==
    ASSUME NEW candidates, IsCohort(candidates), HasAngles(candidates), NEW seed, NEW mode
    PROVE  FastPairs(candidates, seed, mode) = SelectPairs(candidates, seed, mode)
<1>1. PICK fast : fast = {e \in candidates \X candidates : PairEligible(e[1], e[2], mode)}
  OBVIOUS
<1>2. PICK slow : slow = {e \in candidates \X candidates :
                            IF e[1].id < e[2].id THEN PairEligible(e[1], e[2], mode)
                                                 ELSE PairEligible(e[2], e[1], mode)}
  OBVIOUS
<1>3. ASSUME NEW e \in candidates \X candidates PROVE e \in fast <=> e \in slow
  <2>1. e[1] \in candidates /\ e[2] \in candidates
    OBVIOUS
  <2>2. PairEligible(e[1], e[2], mode) <=> PairEligible(e[2], e[1], mode)
    BY <2>1, EligibilityIsMutual
  <2> QED
    BY <1>1, <1>2, <2>2
<1>4. fast = slow
  BY <1>1, <1>2, <1>3
<1> QED
  BY <1>1, <1>2, <1>4 DEF FastPairs, SelectPairs

-----------------------------------------------------------------------------
(* The slots of the plan. *)

\* Every pair of a seed joins two candidates that are eligible for each other, and no
\* candidate is in two pairs.
LEMMA FastPairsAreFit ==
    ASSUME NEW candidates, IsCohort(candidates), NEW i \in DOMAIN Seeds, NEW pairs,
           pairs = FastPairs(candidates, Seeds[i], "confirmatory")
    PROVE  /\ Len(pairs) \in Nat /\ Len(pairs) <= PairLimit /\ DOMAIN pairs = 1 .. Len(pairs)
           /\ \A n \in 1 .. Len(pairs) : \E a, b \in candidates :
                /\ pairs[n].recipient = a.id /\ pairs[n].donor = b.id
                /\ PairEligible(a, b, "confirmatory")
           /\ Apart(pairs)
<1>1. PICK edges : edges = {e \in candidates \X candidates :
                              PairEligible(e[1], e[2], "confirmatory")}
  OBVIOUS
<1>2. edges \in SUBSET (candidates \X candidates)
  BY <1>1
<1>3. pairs = Greedy(candidates, Seeds[i], edges)
  BY <1>1 DEF FastPairs
<1>4. pairs \in Seq(PairsOf(edges)) /\ Len(pairs) <= PairLimit /\ Apart(pairs)
  BY <1>2, <1>3, GreedyIsFit
<1>5. Len(pairs) \in Nat /\ DOMAIN pairs = 1 .. Len(pairs)
  BY <1>4
<1>6. ASSUME NEW n \in 1 .. Len(pairs)
      PROVE  \E a, b \in candidates : /\ pairs[n].recipient = a.id /\ pairs[n].donor = b.id
                                      /\ PairEligible(a, b, "confirmatory")
  <2>1. pairs[n] \in PairsOf(edges)
    BY <1>4
  <2>2. PICK e \in edges : pairs[n] = [recipient |-> e[1].id, donor |-> e[2].id]
    BY <2>1 DEF PairsOf
  <2>3. e[1] \in candidates /\ e[2] \in candidates /\ PairEligible(e[1], e[2], "confirmatory")
    BY <1>1
  <2>4. pairs[n].recipient = e[1].id /\ pairs[n].donor = e[2].id
    BY <2>2
  <2> QED
    BY <2>3, <2>4
<1> QED
  BY <1>4, <1>5, <1>6

\* What a control donor of a recipient may be: none, or a candidate at nearly its angle.
ControlFits(candidates, recipient, id) ==
    \/ id = NoState
    \/ \E b \in candidates :
         b.id = id /\ OrientationDifference(ById(candidates, recipient), b) < 5

\* A control donor that is in no one's way: not one of the others, and nobody's recipient.
ControlIsFree(pairs, donors, id) ==
    \/ id = NoState
    \/ /\ \A m \in DOMAIN donors : donors[m] # id
       /\ \A m \in DOMAIN pairs : pairs[m].recipient # id

\* Whatever donors are taken already, the next one fits its recipient and is free.
LEMMA ControlDonorFits ==
    ASSUME NEW candidates, IsCohort(candidates), NEW pairs, NEW n, NEW donors,
           ById(candidates, pairs[n].recipient) \in candidates
    PROVE  /\ ControlDonor(candidates, pairs, n, donors) \in Nat
           /\ ControlFits(candidates, pairs[n].recipient,
                          ControlDonor(candidates, pairs, n, donors))
           /\ ControlIsFree(pairs, donors, ControlDonor(candidates, pairs, n, donors))
<1>1. PICK a : a = ById(candidates, pairs[n].recipient)
  OBVIOUS
<1>2. PICK options : options = ControlOptions(candidates, pairs, n, donors)
  OBVIOUS
<1>3. options \in SUBSET candidates
  BY <1>2 DEF ControlOptions
<1>4. ControlDonor(candidates, pairs, n, donors)
        = IF options = {} THEN NoState ELSE Nearest(a, options).id
  BY <1>1, <1>2 DEF ControlDonor
<1>5. CASE options = {}
  BY <1>4, <1>5 DEF NoState, ControlFits, ControlIsFree
<1>6. CASE options # {}
  <2>1. PICK b : b = Nearest(a, options)
    OBVIOUS
  <2>2. b \in options
    <3>1. a \in candidates
      BY <1>1
    <3>2. Nearest(a, options) \in options
      BY <1>3, <1>6, <3>1, NearestIsAnOption, Zenon
    <3> QED
      BY <2>1, <3>2
  <2>3. b \in candidates /\ PairEligible(a, b, "matched_control")
    BY <1>1, <1>2, <2>2 DEF ControlOptions
  <2>4. OrientationDifference(a, b) < 5
    BY <2>3 DEF PairEligible
  <2>5. b.id \in Nat
    BY <2>3 DEF IsCohort
  <2>6. ControlDonor(candidates, pairs, n, donors) = b.id
    BY <1>4, <1>6, <2>1
  <2>7. ControlIsFree(pairs, donors, b.id)
    BY <1>2, <2>2 DEF ControlOptions, ControlIsFree
  <2> QED
    BY <1>1, <2>3, <2>4, <2>5, <2>6, <2>7 DEF ControlFits
<1> QED
  BY <1>5, <1>6

\* The same of a donor in the list of them, for those before it.
FreeAt(pairs, donors, n) ==
    \/ donors[n] = NoState
    \/ /\ \A m \in 1 .. n - 1 : donors[m] # donors[n]
       /\ \A m \in DOMAIN pairs : pairs[m].recipient # donors[n]

\* Every pair of a seed has a control donor that fits it and is free, or none.
LEMMA MatchedDonorsAreFit ==
    ASSUME NEW candidates, IsCohort(candidates), NEW pairs, Len(pairs) \in Nat,
           \A n \in 1 .. Len(pairs) : ById(candidates, pairs[n].recipient) \in candidates
    PROVE  \A n \in 1 .. Len(pairs) :
              /\ ControlFits(candidates, pairs[n].recipient, MatchedDonors(candidates, pairs)[n])
              /\ FreeAt(pairs, MatchedDonors(candidates, pairs), n)
<1>1. PICK N \in Nat : N = Len(pairs)
  OBVIOUS
<1>2. PICK V : V = Seq(Nat)
  OBVIOUS
<1>3. PICK b : b = << >>
  OBVIOUS
<1>4. b \in V
  BY <1>2, <1>3
<1> DEFINE More(n, ds) == Append(ds, ControlDonor(candidates, pairs, n, ds))
<1>5. \A n \in 1 .. N : \A ds \in V : More(n, ds) \in V
  <2> SUFFICES ASSUME NEW n \in 1 .. N, NEW ds \in V PROVE More(n, ds) \in V
    OBVIOUS
  <2>1. PICK d : d = ControlDonor(candidates, pairs, n, ds)
    OBVIOUS
  <2>2. d \in Nat
    BY <1>1, <2>1, ControlDonorFits
  <2>3. Append(ds, d) \in V
    BY <1>2, <2>2
  <2> QED
    BY <2>1, <2>3
<1> DEFINE loop(h) == h = [n \in 0 .. N |-> IF n = 0 THEN b ELSE More(n, h[n - 1])]
           upTo == CHOOSE h : loop(h)
<1>6. \E h : loop(h)
  <2> HIDE DEF More
  <2>1. PICK step : step = [n \in 1 .. N |-> [ds \in V |-> More(n, ds)]]
    OBVIOUS
  <2>2. step \in [1 .. N -> [V -> V]]
    BY <1>5, <2>1
  <2>3. PICK f \in [0 .. N -> V] : f[0] = b /\ \A n \in 1 .. N : f[n] = step[n][f[n - 1]]
    <3> HIDE DEF loop, upTo
    <3> QED
      BY ONLY <1>4, <2>2, N \in Nat, Recursion, SMT
  <2>4. ASSUME NEW n \in 0 .. N
        PROVE  f[n] = IF n = 0 THEN b ELSE More(n, f[n - 1])
    <3>1. CASE n = 0
      BY <2>3, <3>1
    <3>2. CASE n # 0
      <4>1. n \in 1 .. N /\ n - 1 \in 0 .. N
        BY <3>2
      <4>2. f[n - 1] \in V
        BY <2>3, <4>1
      <4>3. f[n] = step[n][f[n - 1]]
        BY <2>3, <4>1
      <4> QED
        BY <2>1, <3>2, <4>1, <4>2, <4>3
    <3> QED
      BY <3>1, <3>2
  <2>5. f = [n \in 0 .. N |-> IF n = 0 THEN b ELSE More(n, f[n - 1])]
    BY <2>4
  <2> QED
    BY <2>5
<1>7. loop(upTo)
  BY <1>6
<1>8. MatchedDonors(candidates, pairs) = upTo[N]
  BY <1>1, <1>3, Zenon DEF MatchedDonors
<1> HIDE DEF upTo, More
<1>9. upTo[0] = b /\ \A n \in 1 .. N : upTo[n] = More(n, upTo[n - 1])
  BY <1>7
<1> HIDE DEF loop
<1> DEFINE Good(n) == /\ upTo[n] \in Seq(Nat) /\ Len(upTo[n]) = n
                      /\ \A m \in 1 .. n : /\ ControlFits(candidates, pairs[m].recipient, upTo[n][m])
                                           /\ FreeAt(pairs, upTo[n], m)
           S == {n \in Nat : n <= N => Good(n)}
<1>10. 0 \in S
  <2>1. upTo[0] = << >>
    BY <1>3, <1>9
  <2>2. upTo[0] \in Seq(Nat) /\ Len(upTo[0]) = 0
    BY ONLY <2>1
  <2>3. Good(0)
    BY <2>2
  <2> QED
    BY <2>3
<1>11. ASSUME NEW n \in Nat, n \in S PROVE n + 1 \in S
  <2> SUFFICES ASSUME n + 1 <= N PROVE Good(n + 1)
    OBVIOUS
  <2>1. Good(n)
    BY <1>11
  <2>2. PICK d : d = ControlDonor(candidates, pairs, n + 1, upTo[n])
    OBVIOUS
  <2>3. n + 1 \in 1 .. N /\ (n + 1) - 1 = n
    OBVIOUS
  <2>4. /\ d \in Nat /\ ControlFits(candidates, pairs[n + 1].recipient, d)
        /\ ControlIsFree(pairs, upTo[n], d)
    BY <1>1, <2>2, <2>3, ControlDonorFits
  <2>5. upTo[n + 1] = Append(upTo[n], d)
    BY <1>9, <2>2, <2>3 DEF More
  <2>6. PICK ds \in Seq(Nat) : ds = upTo[n]
    BY <2>1
  <2>7. Append(ds, d) \in Seq(Nat) /\ Len(Append(ds, d)) = n + 1
    BY <2>1, <2>4, <2>6
  <2>8. ASSUME NEW m \in 1 .. n + 1
        PROVE  /\ ControlFits(candidates, pairs[m].recipient, Append(ds, d)[m])
               /\ FreeAt(pairs, Append(ds, d), m)
    <3>0. \A l \in 1 .. n : Append(ds, d)[l] = ds[l]
      BY <2>1, <2>6
    <3>1. CASE m = n + 1
      <4>1. Append(ds, d)[m] = d
        BY <2>1, <2>6, <3>1
      <4>2. DOMAIN ds = 1 .. n /\ m - 1 = n
        BY <2>1, <2>6, <3>1
      <4>3. FreeAt(pairs, Append(ds, d), m)
        BY <2>4, <2>6, <3>0, <4>1, <4>2 DEF ControlIsFree, FreeAt
      <4> QED
        BY <2>4, <3>1, <4>1, <4>3
    <3>2. CASE m # n + 1
      <4>1. m \in 1 .. n /\ Append(ds, d)[m] = upTo[n][m]
        BY <2>1, <2>6, <3>2
      <4>2. \A l \in 1 .. m - 1 : l \in 1 .. n /\ Append(ds, d)[l] = ds[l]
        <5>1. \A l \in 1 .. m - 1 : l \in 1 .. n
          BY ONLY <4>1, n \in Nat
        <5> QED
          BY ONLY <3>0, <5>1
      <4>3. FreeAt(pairs, ds, m)
        BY <2>1, <2>6, <4>1
      <4>4. FreeAt(pairs, Append(ds, d), m)
        BY <2>6, <4>1, <4>2, <4>3 DEF FreeAt
      <4> QED
        BY <2>1, <4>1, <4>4
    <3> QED
      BY <3>1, <3>2
  <2> QED
    BY <2>5, <2>6, <2>7, <2>8
<1> HIDE DEF S
<1>12. N \in S
  BY <1>10, <1>11, AllNaturals
<1> QED
  BY <1>1, <1>8, <1>12 DEF S

\* Whether a candidate is in one of the pairs.
Used(pairs, id) == \E n \in 1 .. Len(pairs) : id \in {pairs[n].recipient, pairs[n].donor}

\* At least as many places of a seed's order are spare as there are candidates beyond
\* two for each pair.
LEMMA SpareIsEnough ==
    ASSUME NEW candidates, IsCohort(candidates), NEW i \in DOMAIN Seeds, NEW pairs,
           Len(pairs) \in Nat, DOMAIN pairs = 1 .. Len(pairs),
           \A n \in 1 .. Len(pairs) : \E a, b \in candidates :
              pairs[n].recipient = a.id /\ pairs[n].donor = b.id
    PROVE  /\ IsFiniteSet(DOMAIN Spare(candidates, Seeds[i], pairs))
           /\ Cardinality(DOMAIN Spare(candidates, Seeds[i], pairs)) \in Nat
           /\ Cardinality(candidates) \in Nat
           /\ Cardinality(candidates)
                <= Cardinality(DOMAIN Spare(candidates, Seeds[i], pairs)) + 2 * Len(pairs)
<1>1. PICK order : order = HashOrder[Seeds[i]]
  OBVIOUS
<1>2. PICK M \in Nat : M = Len(order) /\ DOMAIN order = 1 .. M
  BY <1>1 DEF IsCohort
<1>3. PICK L \in Nat : L = Len(pairs)
  OBVIOUS
<1>4. PICK D : D = DOMAIN Spare(candidates, Seeds[i], pairs)
  OBVIOUS
<1>5. D = {m \in 1 .. M : (\E c \in candidates : c.id = order[m]) /\ ~ Used(pairs, order[m])}
  BY <1>1, <1>2, <1>3, <1>4 DEF Spare, Used
<1>6. IsFiniteSet(candidates) /\ Cardinality(candidates) \in Nat
  BY FS_CardinalityType DEF IsCohort
<1>7. IsFiniteSet(D) /\ Cardinality(D) \in Nat
  <2>1. IsFiniteSet(1 .. M)
    BY FS_Interval
  <2>2. D \in SUBSET (1 .. M)
    BY <1>5
  <2> QED
    BY <2>1, <2>2, FS_Subset, FS_CardinalityType
<1>8. PICK used \in SUBSET candidates : used = {c \in candidates : Used(pairs, c.id)}
  OBVIOUS
<1>9. IsFiniteSet(used) /\ Cardinality(used) \in Nat /\ Cardinality(used) <= 2 * L
  <2>1. IsFiniteSet(used) /\ Cardinality(used) \in Nat
    BY <1>6, FS_Subset, FS_CardinalityType
  <2>2. CASE used = {}
    BY <2>2, FS_EmptySet
  <2>3. CASE used # {}
    <3>1. PICK u0 \in used : TRUE
      BY <2>3
    <3>2. PICK at : at = [k \in 1 .. 2 * L |-> IF k <= L THEN pairs[k].recipient
                                                          ELSE pairs[k - L].donor]
      OBVIOUS
    <3>3. PICK g : g = [k \in 1 .. 2 * L |-> ById(candidates, at[k])]
      OBVIOUS
    <3>4. \A k \in 1 .. 2 * L : g[k] \in used
      <4> TAKE k \in 1 .. 2 * L
      <4>1. PICK n \in 1 .. L : at[k] \in {pairs[n].recipient, pairs[n].donor}
        <5>1. CASE k <= L
          BY <3>2, <5>1
        <5>2. CASE ~ (k <= L)
          <6>1. k - L \in 1 .. L /\ at[k] = pairs[k - L].donor
            BY <3>2, <5>2
          <6> QED
            BY <6>1
        <5> QED
          BY <5>1, <5>2
      <4>2. PICK c \in candidates : c.id = at[k]
        BY <1>3, <4>1
      <4>3. Used(pairs, at[k])
        BY <1>3, <4>1 DEF Used
      <4>4. g[k] = c
        BY <3>3, <4>2, FoundItself
      <4> QED
        BY <1>8, <4>2, <4>3, <4>4
    <3>5. \A c \in used : \E k \in 1 .. 2 * L : g[k] = c
      <4> TAKE c \in used
      <4>1. PICK n \in 1 .. L : c.id \in {pairs[n].recipient, pairs[n].donor}
        BY <1>3, <1>8 DEF Used
      <4>2. PICK k \in 1 .. 2 * L : at[k] = c.id
        <5>1. CASE c.id = pairs[n].recipient
          <6>1. n \in 1 .. 2 * L /\ at[n] = c.id
            BY <3>2, <5>1
          <6> QED
            BY <6>1
        <5>2. CASE c.id = pairs[n].donor
          <6>1. n + L \in 1 .. 2 * L /\ ~ (n + L <= L) /\ (n + L) - L = n
            OBVIOUS
          <6>2. at[n + L] = c.id
            BY <3>2, <5>2, <6>1
          <6> QED
            BY <6>1, <6>2
        <5> QED
          BY <4>1, <5>1, <5>2
      <4>3. g[k] = c
        BY <3>3, <4>2, FoundItself
      <4> QED
        BY <4>3
    <3>6. PICK K \in Nat : K = 2 * L
      OBVIOUS
    <3>7. g \in Surjection(1 .. K, used)
      BY <3>3, <3>4, <3>5, <3>6 DEF Surjection
    <3>8. ExistsSurjection(1 .. K, used)
      BY <3>7 DEF ExistsSurjection
    <3>9. Cardinality(used) <= K
      BY <3>8, FS_SurjCardinalityBound
    <3> QED
      BY <2>1, <3>6, <3>9
  <2> QED
    BY <2>2, <2>3
<1>10. PICK idle : idle = candidates \ used
  OBVIOUS
<1>11. /\ IsFiniteSet(idle) /\ Cardinality(idle) \in Nat
       /\ Cardinality(idle) = Cardinality(candidates) - Cardinality(used)
  <2>1. candidates \cap used = used
    BY <1>8
  <2> QED
    BY <1>6, <1>10, <2>1, FS_Difference, FS_CardinalityType
<1>12. Cardinality(idle) <= Cardinality(D)
  <2>1. PICK h : h = [m \in D |-> ById(candidates, order[m])]
    OBVIOUS
  <2>2. \A m \in D : h[m] \in idle
    <3> TAKE m \in D
    <3>1. PICK c \in candidates : c.id = order[m] /\ ~ Used(pairs, c.id)
      BY <1>5
    <3>2. h[m] = c
      BY <2>1, <3>1, FoundItself
    <3> QED
      BY <1>8, <1>10, <3>1, <3>2
  <2>3. \A c \in idle : \E m \in D : h[m] = c
    <3> TAKE c \in idle
    <3>1. c \in candidates /\ ~ Used(pairs, c.id)
      BY <1>8, <1>10
    <3>2. PICK m \in 1 .. M : order[m] = c.id
      BY <1>1, <1>2, <3>1 DEF IsCohort
    <3>3. m \in D
      BY <1>5, <3>1, <3>2
    <3>4. h[m] = c
      BY <2>1, <3>1, <3>2, <3>3, FoundItself
    <3> QED
      BY <3>3, <3>4
  <2>4. h \in Surjection(D, idle)
    BY <2>1, <2>2, <2>3 DEF Surjection
  <2> QED
    BY <1>7, <2>4, FS_Surjection
<1> QED
  BY <1>3, <1>4, <1>6, <1>7, <1>9, <1>11, <1>12

\* What the evaluation can check of a slot: it names a candidate with its cell and initial
\* state and is either a pair with a donor at 30 to 90 degrees and a control, if it has
\* one, at nearly the recipient's angle, or an attempt that found no donor.
SlotFits(candidates, seed, slot) ==
    \E a \in candidates :
        /\ slot.seed = seed /\ slot.recipient = a.id
        /\ slot.cell = a.cell /\ slot.init = a.init
        /\ \/ /\ slot.reason = "none"
              /\ \E b \in candidates :
                   slot.donor = b.id /\ OrientationDifference(a, b) \in 30 .. 90
              /\ \/ slot.control = NoState
                 \/ \E b \in candidates :
                      slot.control = b.id /\ OrientationDifference(a, b) < 5
           \/ /\ slot.reason = "no_eligible_confirmatory_donor"
              /\ slot.donor = NoState /\ slot.control = NoState

\* Every slot of a seed is one the evaluation can check.
LEMMA SeedSlotsAreFit ==
    ASSUME NEW candidates, IsCohort(candidates), EnoughStates(candidates),
           NEW i \in DOMAIN Seeds, NEW k \in 1 .. PairLimit
    PROVE  SlotFits(candidates, Seeds[i], SeedSlots(candidates, Seeds[i])[k])
<1>1. PICK pairs : pairs = FastPairs(candidates, Seeds[i], "confirmatory")
  OBVIOUS
<1>2. /\ Len(pairs) \in Nat /\ Len(pairs) <= PairLimit /\ DOMAIN pairs = 1 .. Len(pairs)
      /\ \A n \in 1 .. Len(pairs) : \E a, b \in candidates :
           /\ pairs[n].recipient = a.id /\ pairs[n].donor = b.id
           /\ PairEligible(a, b, "confirmatory")
  BY <1>1, FastPairsAreFit
<1>3. PICK L \in Nat : L = Len(pairs)
  BY <1>2
<1>4. PICK controls : controls = MatchedDonors(candidates, pairs)
  OBVIOUS
<1>5. PICK order : order = HashOrder[Seeds[i]]
  OBVIOUS
<1>6. PICK spare : spare = Spare(candidates, Seeds[i], pairs)
  OBVIOUS
<1>7. PICK slot : slot = SeedSlots(candidates, Seeds[i])[k]
  OBVIOUS
<1>8. slot = IF k <= L
               THEN Slot(candidates, Seeds[i], pairs[k].recipient, pairs[k].donor, controls[k],
                         "none")
               ELSE Slot(candidates, Seeds[i], order[Ranked(spare, k - L)], NoState, NoState,
                         "no_eligible_confirmatory_donor")
  BY <1>1, <1>3, <1>4, <1>5, <1>6, <1>7 DEF SeedSlots
<1>9. PairLimit \in Nat /\ k \in Nat /\ k <= PairLimit /\ k >= 1
  BY PairPlanAssumption
<1>10. CASE k <= L
  <2>1. k \in 1 .. L
    BY <1>9, <1>10
  <2>2. PICK a, b \in candidates : /\ pairs[k].recipient = a.id /\ pairs[k].donor = b.id
                                   /\ PairEligible(a, b, "confirmatory")
    BY <1>2, <1>3, <2>1
  <2>3. ById(candidates, pairs[k].recipient) = a
    BY <2>2, FoundItself
  <2>4. slot = [seed |-> Seeds[i], cell |-> a.cell, init |-> a.init, recipient |-> a.id,
                donor |-> b.id, control |-> controls[k], reason |-> "none"]
    BY <1>8, <1>10, <2>2, <2>3 DEF Slot
  <2>5. OrientationDifference(a, b) \in 30 .. 90
    BY <2>2 DEF PairEligible
  <2>6. ControlFits(candidates, pairs[k].recipient, controls[k])
    <3>1. \A n \in 1 .. Len(pairs) : ById(candidates, pairs[n].recipient) \in candidates
      BY <1>2, FoundById
    <3> QED
      BY <1>2, <1>3, <1>4, <2>1, <3>1, MatchedDonorsAreFit
  <2>7. \/ slot.control = NoState
        \/ \E d \in candidates : slot.control = d.id /\ OrientationDifference(a, d) < 5
    BY <2>3, <2>4, <2>6 DEF ControlFits
  <2> QED
    BY <1>7, <2>4, <2>5, <2>7 DEF SlotFits
<1>11. CASE ~ (k <= L)
  <2>1. Cardinality(candidates) \in Nat /\ 2 * L + PairLimit - L <= Cardinality(candidates)
    <3>1. Cardinality(candidates) \in Nat
      BY FS_CardinalityType DEF IsCohort
    <3> QED
      BY <1>1, <1>3, <3>1 DEF EnoughStates
  <2>2. /\ IsFiniteSet(DOMAIN spare) /\ Cardinality(DOMAIN spare) \in Nat
        /\ Cardinality(candidates) <= Cardinality(DOMAIN spare) + 2 * L
    BY <1>2, <1>3, <1>6, SpareIsEnough
  <2>3. PICK j \in 1 .. Cardinality(DOMAIN spare) : j = k - L
    BY <1>9, <1>11, <2>1, <2>2
  <2>4. /\ DOMAIN spare \subseteq Nat
        /\ \A n \in DOMAIN spare : spare[n] = n /\ \E c \in candidates : c.id = order[n]
    BY <1>5, <1>6 DEF Spare, IsCohort
  <2>5. PICK n \in DOMAIN spare : Ranked(spare, j) = spare[n]
    <3>1. \A m \in DOMAIN spare : spare[m] \in Nat
      BY <2>4
    <3> QED
      BY <2>2, <3>1, RankedIsAValue
  <2>6. PICK a \in candidates : a.id = order[Ranked(spare, j)]
    BY <2>4, <2>5
  <2>7. ById(candidates, order[Ranked(spare, j)]) = a
    BY <2>6, FoundItself
  <2>8. slot = [seed |-> Seeds[i], cell |-> a.cell, init |-> a.init, recipient |-> a.id,
                donor |-> NoState, control |-> NoState,
                reason |-> "no_eligible_confirmatory_donor"]
    BY <1>8, <1>11, <2>3, <2>6, <2>7 DEF Slot
  <2> QED
    BY <1>7, <2>8 DEF SlotFits
<1> QED
  BY <1>10, <1>11

\* Different ranks among some places are different places.
LEMMA RanksDiffer ==
    ASSUME NEW f, IsFiniteSet(DOMAIN f), \A n \in DOMAIN f : n \in Nat /\ f[n] = n,
           NEW j \in 1 .. Cardinality(DOMAIN f), NEW k \in 1 .. Cardinality(DOMAIN f), j < k
    PROVE  Ranked(f, j) # Ranked(f, k)
<1> SUFFICES ASSUME Ranked(f, j) = Ranked(f, k) PROVE FALSE
  OBVIOUS
<1>1. PICK v : v = Ranked(f, k)
  OBVIOUS
<1>2. PICK below : below = {n \in DOMAIN f : f[n] < v}
  OBVIOUS
<1>3. PICK upto : upto = {n \in DOMAIN f : f[n] <= v}
  OBVIOUS
<1>4. v \in DOMAIN f /\ v \in Nat /\ k <= Cardinality(upto)
  BY <1>1, <1>3, RankedIsAValue
<1>5. Cardinality(below) < j
  BY <1>1, <1>2, RankedIsAValue
<1>6. IsFiniteSet(below) /\ Cardinality(below) \in Nat
  <2>1. below \in SUBSET (DOMAIN f)
    BY <1>2
  <2> QED
    BY <2>1, FS_Subset, FS_CardinalityType
<1>7. upto = below \cup {v} /\ v \notin below
  BY <1>2, <1>3, <1>4
<1>8. Cardinality(upto) = Cardinality(below) + 1
  BY <1>6, <1>7, FS_AddElement
<1>9. j \in Int /\ k \in Int
  BY FS_CardinalityType
<1> QED
  BY <1>4, <1>5, <1>6, <1>8, <1>9

\* What a slot of a seed is made of: a pair with its control donor, or a candidate that
\* is in no pair, at the place of its rank.
LEMMA SeedSlotIs ==
    ASSUME NEW candidates, IsCohort(candidates), EnoughStates(candidates),
           NEW i \in DOMAIN Seeds, NEW k \in 1 .. PairLimit, NEW pairs, NEW spare, NEW slot,
           pairs = FastPairs(candidates, Seeds[i], "confirmatory"),
           spare = Spare(candidates, Seeds[i], pairs),
           slot = SeedSlots(candidates, Seeds[i])[k]
    PROVE  \/ /\ k \in 1 .. Len(pairs) /\ slot.reason = "none"
              /\ slot.recipient = pairs[k].recipient /\ slot.donor = pairs[k].donor
              /\ slot.control = MatchedDonors(candidates, pairs)[k]
           \/ /\ k \notin 1 .. Len(pairs) /\ slot.reason # "none"
              /\ k - Len(pairs) \in 1 .. Cardinality(DOMAIN spare)
              /\ Ranked(spare, k - Len(pairs)) \in DOMAIN spare
              /\ slot.recipient = HashOrder[Seeds[i]][Ranked(spare, k - Len(pairs))]
              /\ slot.donor = NoState /\ slot.control = NoState
<1>1. /\ Len(pairs) \in Nat /\ DOMAIN pairs = 1 .. Len(pairs)
      /\ \A n \in 1 .. Len(pairs) : \E a, b \in candidates :
           pairs[n].recipient = a.id /\ pairs[n].donor = b.id
  BY FastPairsAreFit
<1>2. PICK L \in Nat : L = Len(pairs)
  BY <1>1
<1>3. slot = IF k <= L
               THEN Slot(candidates, Seeds[i], pairs[k].recipient, pairs[k].donor,
                         MatchedDonors(candidates, pairs)[k], "none")
               ELSE Slot(candidates, Seeds[i], HashOrder[Seeds[i]][Ranked(spare, k - L)],
                         NoState, NoState, "no_eligible_confirmatory_donor")
  BY <1>2 DEF SeedSlots
<1>4. PairLimit \in Nat /\ k \in Nat /\ k <= PairLimit /\ k >= 1
  BY PairPlanAssumption
<1>5. CASE k <= L
  <2>1. k \in 1 .. L
    BY <1>4, <1>5
  <2> QED
    BY <1>2, <1>3, <1>5, <2>1 DEF Slot
<1>6. CASE ~ (k <= L)
  <2>1. Cardinality(candidates) \in Nat /\ 2 * L + PairLimit - L <= Cardinality(candidates)
    <3>1. Cardinality(candidates) \in Nat
      BY FS_CardinalityType DEF IsCohort
    <3> QED
      BY <1>2, <3>1 DEF EnoughStates
  <2>2. /\ IsFiniteSet(DOMAIN spare) /\ Cardinality(DOMAIN spare) \in Nat
        /\ Cardinality(candidates) <= Cardinality(DOMAIN spare) + 2 * L
    BY <1>1, <1>2, SpareIsEnough
  <2>3. PICK j \in 1 .. Cardinality(DOMAIN spare) : j = k - L
    BY <1>4, <1>6, <2>1, <2>2
  <2>4. \A n \in DOMAIN spare : n \in Nat /\ spare[n] = n
    BY DEF Spare, IsCohort
  <2>5. Ranked(spare, j) \in DOMAIN spare
    <3>1. PICK n \in DOMAIN spare : Ranked(spare, j) = spare[n]
      BY <2>2, <2>4, RankedIsAValue
    <3> QED
      BY <2>4, <3>1
  <2> QED
    BY <1>2, <1>3, <1>6, <2>3, <2>5 DEF Slot
<1> QED
  BY <1>5, <1>6

\* The slots of a seed share no state, and their control donors are different and never
\* a recipient of the seed.
LEMMA SeedSlotsApart ==
    ASSUME NEW candidates, IsCohort(candidates), EnoughStates(candidates), OrdersAreTraversals,
           NEW i \in DOMAIN Seeds, NEW j \in 1 .. PairLimit, NEW k \in 1 .. PairLimit
    PROVE  LET slots == SeedSlots(candidates, Seeds[i]) IN
           /\ j # k => SlotStates(slots[j]) \cap SlotStates(slots[k]) = {}
           /\ j # k /\ slots[j].control = slots[k].control => slots[j].control = NoState
           /\ slots[k].reason = "none" => slots[j].control # slots[k].recipient
<1>1. PICK pairs : pairs = FastPairs(candidates, Seeds[i], "confirmatory")
  OBVIOUS
<1>2. PICK spare : spare = Spare(candidates, Seeds[i], pairs)
  OBVIOUS
<1>3. PICK order : order = HashOrder[Seeds[i]]
  OBVIOUS
<1>4. /\ Len(pairs) \in Nat /\ DOMAIN pairs = 1 .. Len(pairs) /\ Apart(pairs)
      /\ \A n \in 1 .. Len(pairs) : \E a, b \in candidates :
           pairs[n].recipient = a.id /\ pairs[n].donor = b.id
  BY <1>1, FastPairsAreFit
<1>5. PICK controls : controls = MatchedDonors(candidates, pairs)
  OBVIOUS
<1>6. \A n \in 1 .. Len(pairs) : FreeAt(pairs, controls, n)
  <2>1. \A n \in 1 .. Len(pairs) : ById(candidates, pairs[n].recipient) \in candidates
    BY <1>4, FoundById
  <2> QED
    BY <1>4, <1>5, <2>1, MatchedDonorsAreFit
<1>7. /\ DOMAIN spare \subseteq DOMAIN order
      /\ \A n \in DOMAIN spare : /\ n \in Nat /\ spare[n] = n
                                 /\ \E c \in candidates : c.id = order[n]
                                 /\ \A m \in 1 .. Len(pairs) : order[n] \notin Joined(pairs[m])
  <2>1. DOMAIN order \subseteq Nat
    BY <1>3 DEF IsCohort
  <2>2. DOMAIN spare = {m \in DOMAIN order :
            /\ \E c \in candidates : c.id = order[m]
            /\ ~ \E n \in DOMAIN pairs : order[m] \in {pairs[n].recipient, pairs[n].donor}}
    BY <1>2, <1>3 DEF Spare
  <2>3. \A n \in DOMAIN spare : spare[n] = n
    BY <1>2 DEF Spare
  <2>4. ASSUME NEW n \in DOMAIN spare, NEW m \in 1 .. Len(pairs)
        PROVE  order[n] \notin Joined(pairs[m])
    BY <1>4, <2>2 DEF Joined
  <2> QED
    BY <2>1, <2>2, <2>3, <2>4
<1>8. PICK s : s = SeedSlots(candidates, Seeds[i])[j]
  OBVIOUS
<1>9. PICK t : t = SeedSlots(candidates, Seeds[i])[k]
  OBVIOUS
<1> DEFINE Pair(slot, n) == /\ n \in 1 .. Len(pairs) /\ slot.reason = "none"
                            /\ slot.recipient = pairs[n].recipient
                            /\ slot.donor = pairs[n].donor /\ slot.control = controls[n]
           Rank(n) == Ranked(spare, n - Len(pairs))
           Filler(slot, n) == /\ n \notin 1 .. Len(pairs) /\ slot.reason # "none"
                              /\ n - Len(pairs) \in 1 .. Cardinality(DOMAIN spare)
                              /\ Rank(n) \in DOMAIN spare
                              /\ slot.recipient = order[Rank(n)]
                              /\ slot.donor = NoState /\ slot.control = NoState
<1>9a. ASSUME NEW n \in 1 .. PairLimit, NEW slot, slot = SeedSlots(candidates, Seeds[i])[n]
      PROVE  Pair(slot, n) \/ Filler(slot, n)
  BY <1>9a, <1>1, <1>2, <1>3, <1>5, SeedSlotIs
<1>10. Pair(s, j) \/ Filler(s, j)
  BY <1>9a, <1>8
<1>11. Pair(t, k) \/ Filler(t, k)
  <2> HIDE DEF Pair, Filler
  <2> QED
    BY <1>9a, <1>9
<1>12. \A n \in 1 .. Len(pairs) : pairs[n].recipient # NoState
  BY <1>4 DEF IsCohort
<1>13. j \in Nat /\ k \in Nat
  BY PairPlanAssumption
<1>14. \A slot, n : Pair(slot, n) => SlotStates(slot) \subseteq Joined(pairs[n])
  BY DEF SlotStates, Joined
<1>15. \A slot, n : Filler(slot, n) => SlotStates(slot) \subseteq {order[Rank(n)]}
  BY DEF SlotStates
<1>16. ASSUME j # k PROVE SlotStates(s) \cap SlotStates(t) = {}
  <2>1. CASE Pair(s, j) /\ Pair(t, k)
    <3>1. Joined(pairs[j]) \cap Joined(pairs[k]) = {}
      BY <1>4, <1>16, <2>1 DEF Apart
    <3>2. SlotStates(s) \subseteq Joined(pairs[j]) /\ SlotStates(t) \subseteq Joined(pairs[k])
      BY <1>14, <2>1
    <3> QED
      BY <3>1, <3>2
  <2>2. CASE Pair(s, j) /\ Filler(t, k)
    <3>1. order[Rank(k)] \notin Joined(pairs[j])
      BY <1>7, <2>2
    <3>2. SlotStates(s) \subseteq Joined(pairs[j]) /\ SlotStates(t) \subseteq {order[Rank(k)]}
      BY <1>14, <1>15, <2>2
    <3> HIDE DEF Pair, Filler, Rank
    <3> QED
      BY <3>1, <3>2
  <2>3. CASE Filler(s, j) /\ Pair(t, k)
    <3>1. order[Rank(j)] \notin Joined(pairs[k])
      BY <1>7, <2>3
    <3>2. SlotStates(t) \subseteq Joined(pairs[k]) /\ SlotStates(s) \subseteq {order[Rank(j)]}
      BY <1>14, <1>15, <2>3
    <3> HIDE DEF Pair, Filler, Rank
    <3> QED
      BY <3>1, <3>2
  <2>4. CASE Filler(s, j) /\ Filler(t, k)
    <3>1. IsFiniteSet(DOMAIN spare)
      BY <1>2, <1>4, SpareIsEnough
    <3>2. j - Len(pairs) < k - Len(pairs) \/ k - Len(pairs) < j - Len(pairs)
      BY <1>4, <1>13, <1>16
    <3>3. Rank(j) # Rank(k)
      BY <1>7, <2>4, <3>1, <3>2, RanksDiffer
    <3>4. order[Rank(j)] # order[Rank(k)]
      BY <1>3, <1>7, <2>4, <3>3 DEF OrdersAreTraversals
    <3>5. SlotStates(s) \subseteq {order[Rank(j)]} /\ SlotStates(t) \subseteq {order[Rank(k)]}
      BY <1>15, <2>4
    <3> HIDE DEF Pair, Filler, Rank
    <3> QED
      BY <3>4, <3>5
  <2> QED
    BY <1>10, <1>11, <2>1, <2>2, <2>3, <2>4
<1>17. ASSUME j # k, s.control = t.control PROVE s.control = NoState
  <2>1. CASE Filler(s, j) \/ Filler(t, k)
    BY <1>17, <2>1
  <2>2. CASE Pair(s, j) /\ Pair(t, k)
    <3>1. CASE j < k
      <4>1. j \in 1 .. k - 1 /\ FreeAt(pairs, controls, k)
        BY <1>6, <1>13, <2>2, <3>1
      <4> QED
        BY <1>17, <2>2, <4>1 DEF FreeAt
    <3>2. CASE k < j
      <4>1. k \in 1 .. j - 1 /\ FreeAt(pairs, controls, j)
        BY <1>6, <1>13, <2>2, <3>2
      <4> QED
        BY <1>17, <2>2, <4>1 DEF FreeAt
    <3> QED
      BY <1>13, <1>17, <3>1, <3>2
  <2> QED
    BY <1>10, <1>11, <2>1, <2>2
<1>18. ASSUME t.reason = "none" PROVE s.control # t.recipient
  <2>1. k \in 1 .. Len(pairs) /\ t.recipient = pairs[k].recipient
    BY <1>11, <1>18
  <2>2. CASE Filler(s, j)
    BY <1>12, <2>1, <2>2
  <2>3. CASE Pair(s, j)
    <3>1. FreeAt(pairs, controls, j) /\ s.control = controls[j]
      BY <1>6, <2>3
    <3> QED
      BY <1>4, <1>12, <2>1, <3>1 DEF FreeAt
  <2> QED
    BY <1>10, <2>2, <2>3
<1> QED
  BY <1>8, <1>9, <1>16, <1>17, <1>18

\* The seed and the place in it of a slot of the plan.
LEMMA PlanPlace ==
    ASSUME NEW l \in Nat, NEW p \in Nat \ {0}, NEW n \in 1 .. l * p
    PROVE  (n - 1) \div p + 1 \in 1 .. l /\ ((n - 1) % p) + 1 \in 1 .. p
<1>1. PICK q \in Int : q = (n - 1) \div p
  OBVIOUS
<1>2. PICK r \in Int : r = (n - 1) % p
  OBVIOUS
<1>3. l * p \in Nat /\ n \in Nat /\ n >= 1 /\ n <= l * p
  OBVIOUS
<1>4. n - 1 = p * q + r /\ r >= 0 /\ r < p
  BY <1>1, <1>2, <1>3
<1>5. q >= 0
  <2> SUFFICES ASSUME q <= -1 PROVE FALSE
    BY <1>4
  <2>1. p * q <= -p
    OBVIOUS
  <2> QED
    BY <1>3, <1>4, <2>1
<1>6. q < l
  <2> SUFFICES ASSUME q >= l PROVE FALSE
    BY <1>4
  <2>1. p * q >= p * l
    OBVIOUS
  <2>2. p * l = l * p /\ p * q \in Int
    OBVIOUS
  <2> QED
    BY <1>3, <1>4, <2>1, <2>2
<1> QED
  BY <1>1, <1>2, <1>4, <1>5, <1>6

\* The plan of a cohort with enough states: PairLimit slots for every seed, in the order
\* of the seeds, each one that the evaluation can check (build_pair_plan).
THEOREM PlanIsFit ==
    ASSUME NEW candidates, IsCohort(candidates), EnoughStates(candidates)
    PROVE  /\ Len(BuildPairPlan(candidates)) = Len(Seeds) * PairLimit
           /\ DOMAIN BuildPairPlan(candidates) = 1 .. Len(Seeds) * PairLimit
           /\ \A n \in DOMAIN BuildPairPlan(candidates) :
                /\ (n - 1) \div PairLimit + 1 \in DOMAIN Seeds
                /\ SlotFits(candidates, Seeds[(n - 1) \div PairLimit + 1],
                            BuildPairPlan(candidates)[n])
<1>1. PICK slots : slots = [i \in DOMAIN Seeds |-> SeedSlots(candidates, Seeds[i])]
  OBVIOUS
<1>2. PICK N \in Nat : N = Len(Seeds) * PairLimit
  BY PairPlanAssumption
<1>3. PICK plan : plan = BuildPairPlan(candidates)
  OBVIOUS
<1>4. plan = [n \in 1 .. N |-> slots[(n - 1) \div PairLimit + 1][((n - 1) % PairLimit) + 1]]
  BY <1>1, <1>2, <1>3 DEF BuildPairPlan
<1>5. DOMAIN plan = 1 .. N /\ Len(plan) = N
  <2>1. plan \in [1 .. N -> {plan[n] : n \in 1 .. N}]
    BY <1>4
  <2>2. plan \in Seq({plan[n] : n \in 1 .. N})
    BY <2>1
  <2>3. DOMAIN plan = 1 .. N
    BY <1>4
  <2> QED
    BY <2>2, <2>3
<1>6. ASSUME NEW n \in 1 .. N
      PROVE  /\ (n - 1) \div PairLimit + 1 \in DOMAIN Seeds
             /\ SlotFits(candidates, Seeds[(n - 1) \div PairLimit + 1], plan[n])
  <2>1. PICK i : i = (n - 1) \div PairLimit + 1
    OBVIOUS
  <2>2. PICK k : k = ((n - 1) % PairLimit) + 1
    OBVIOUS
  <2>3. i \in DOMAIN Seeds /\ k \in 1 .. PairLimit
    BY <1>2, <2>1, <2>2, PlanPlace, PairPlanAssumption
  <2>4. plan[n] = slots[i][k]
    BY <1>4, <2>1, <2>2
  <2>5. slots[i] = SeedSlots(candidates, Seeds[i])
    BY <1>1, <2>3
  <2>6. SlotFits(candidates, Seeds[i], plan[n])
    BY <2>3, <2>4, <2>5, SeedSlotsAreFit
  <2> QED
    BY <2>1, <2>3, <2>6
<1> QED
  BY <1>2, <1>3, <1>5, <1>6

\* The number of a slot is known from the place of its seed and its place in the seed.
LEMMA PlaceIsPlain ==
    ASSUME NEW p \in Nat \ {0}, NEW m \in Nat \ {0}, NEW n \in Nat \ {0},
           (m - 1) \div p = (n - 1) \div p, (m - 1) % p = (n - 1) % p
    PROVE  m = n
<1>1. PICK q \in Int : q = (m - 1) \div p
  OBVIOUS
<1>2. PICK r \in Int : r = (m - 1) % p
  OBVIOUS
<1>3. m - 1 = p * q + r
  BY <1>1, <1>2
<1>4. n - 1 = p * q + r
  BY <1>1, <1>2
<1> QED
  BY <1>3, <1>4

\* A cohort with enough states gives a plan in which, for every seed, no state is patched
\* or given twice, no control donor serves two recipients, and none is itself a recipient
\* (build_pair_plan with _fast_pairs and _matched_donors).
THEOREM PlanUsesStatesOnce ==
    ASSUME NEW candidates, IsCohort(candidates), EnoughStates(candidates), OrdersAreTraversals
    PROVE  UsesEachStateOnce(BuildPairPlan(candidates))
<1>1. PICK slots : slots = [i \in DOMAIN Seeds |-> SeedSlots(candidates, Seeds[i])]
  OBVIOUS
<1>2. PICK N \in Nat : N = Len(Seeds) * PairLimit
  BY PairPlanAssumption
<1>3. PICK plan : plan = BuildPairPlan(candidates)
  OBVIOUS
<1>4. plan = [n \in 1 .. N |-> slots[(n - 1) \div PairLimit + 1][((n - 1) % PairLimit) + 1]]
  BY <1>1, <1>2, <1>3 DEF BuildPairPlan
<1>5. ASSUME NEW n \in 1 .. N, NEW i, NEW k,
             i = (n - 1) \div PairLimit + 1, k = ((n - 1) % PairLimit) + 1
      PROVE  /\ i \in DOMAIN Seeds /\ k \in 1 .. PairLimit
             /\ plan[n] = SeedSlots(candidates, Seeds[i])[k]
             /\ plan[n].seed = Seeds[i]
  <2>1. i \in DOMAIN Seeds /\ k \in 1 .. PairLimit
    BY <1>2, <1>5, PlanPlace, PairPlanAssumption
  <2>2. plan[n] = slots[i][k]
    BY <1>4, <1>5
  <2>3. plan[n] = SeedSlots(candidates, Seeds[i])[k]
    BY <1>1, <2>1, <2>2
  <2>4. SlotFits(candidates, Seeds[i], plan[n])
    BY <2>1, <2>3, SeedSlotsAreFit
  <2> QED
    BY <2>1, <2>3, <2>4 DEF SlotFits
<1> SUFFICES ASSUME NEW m \in 1 .. N, NEW n \in 1 .. N, plan[m].seed = plan[n].seed
             PROVE  /\ m # n => SlotStates(plan[m]) \cap SlotStates(plan[n]) = {}
                    /\ m # n /\ plan[m].control = plan[n].control => plan[m].control = NoState
                    /\ plan[n].reason = "none" => plan[m].control # plan[n].recipient
  <2>1. DOMAIN plan = 1 .. N
    BY <1>4
  <2> QED
    BY <1>3, <2>1, Zenon DEF UsesEachStateOnce
<1>6. PICK i, j : i = (m - 1) \div PairLimit + 1 /\ j = ((m - 1) % PairLimit) + 1
  OBVIOUS
<1>7. PICK h, k : h = (n - 1) \div PairLimit + 1 /\ k = ((n - 1) % PairLimit) + 1
  OBVIOUS
<1>8. /\ i \in DOMAIN Seeds /\ j \in 1 .. PairLimit
      /\ plan[m] = SeedSlots(candidates, Seeds[i])[j] /\ plan[m].seed = Seeds[i]
  BY <1>5, <1>6
<1>9. /\ h \in DOMAIN Seeds /\ k \in 1 .. PairLimit
      /\ plan[n] = SeedSlots(candidates, Seeds[h])[k] /\ plan[n].seed = Seeds[h]
  BY <1>5, <1>7
<1>10. i = h
  BY <1>8, <1>9 DEF OrdersAreTraversals
<1>11. m # n => j # k
  <2> SUFFICES ASSUME j = k PROVE m = n
    OBVIOUS
  <2>1. m \in Nat \ {0} /\ n \in Nat \ {0} /\ PairLimit \in Nat \ {0}
    BY PairPlanAssumption
  <2>2. /\ (m - 1) \div PairLimit = (n - 1) \div PairLimit
        /\ (m - 1) % PairLimit = (n - 1) % PairLimit
    <3>1. PICK p \in Nat \ {0} : p = PairLimit
      BY <2>1
    <3>2. /\ (m - 1) \div p \in Int /\ (m - 1) % p \in Int
          /\ (n - 1) \div p \in Int /\ (n - 1) % p \in Int
      BY <2>1
    <3>3. (m - 1) \div p + 1 = (n - 1) \div p + 1 /\ ((m - 1) % p) + 1 = ((n - 1) % p) + 1
      BY <1>6, <1>7, <1>10, <3>1
    <3>4. ASSUME NEW x \in Int, NEW y \in Int, x + 1 = y + 1 PROVE x = y
      BY <3>4
    <3>5. (m - 1) \div p = (n - 1) \div p /\ (m - 1) % p = (n - 1) % p
      BY ONLY <3>2, <3>3, <3>4
    <3> QED
      BY <3>1, <3>5
  <2> QED
    BY <2>1, <2>2, PlaceIsPlain
<1>12. /\ j # k => SlotStates(plan[m]) \cap SlotStates(plan[n]) = {}
       /\ j # k /\ plan[m].control = plan[n].control => plan[m].control = NoState
       /\ plan[n].reason = "none" => plan[m].control # plan[n].recipient
  BY <1>8, <1>9, <1>10, SeedSlotsApart
<1> QED
  BY <1>11, <1>12

-----------------------------------------------------------------------------
(* One pair. *)

\* A ratio survives its payload: well formed, and the same for both programs.
LEMMA RatioSurvives ==
    ASSUME NEW r \in Nat
    PROVE  /\ RatioWellFormed(RatioPayload(r))
           /\ RatioForDecision(RatioPayload(r)) = r
           /\ ValidatedRatio(RatioPayload(r)) = r
<1>1. Infinite \in Nat /\ Unavailable \notin Nat
  BY EvidenceAssumption DEF Infinite
<1>2. CASE r = Infinite
  <2>1. RatioPayload(r) = [value |-> Unavailable, status |-> "infinite_zero_yaw_effect"]
    BY <1>2 DEF RatioPayload
  <2> QED
    BY <1>2, <2>1 DEF RatioWellFormed, RatioForDecision, ValidatedRatio
<1>3. CASE r # Infinite
  <2>1. RatioPayload(r) = [value |-> r, status |-> "finite"]
    BY <1>3 DEF RatioPayload
  <2> QED
    BY <1>1, <2>1 DEF RatioWellFormed, RatioForDecision, ValidatedRatio
<1> QED
  BY <1>2, <1>3

\* The evidence of a slot that runs is accepted, whatever was measured.
LEMMA ValidPairAccepted ==
    ASSUME NEW states, IsCohort(states), NEW source, NEW i, NEW slot,
           SlotFits(states, Seeds[(i - 1) \div PairLimit + 1], slot),
           InvalidReason(slot) = "none",
           NEW core, core.ratio \in Nat, NEW controls, DOMAIN controls = 1 .. Controls
    PROVE  CausalPairAccepted(source, states, i, ValidEvidence(source, i, slot, core, controls))
<1>1. slot.reason = "none" /\ slot.control # NoState
  BY DEF InvalidReason
<1>2. PICK a \in states :
        /\ slot.seed = Seeds[(i - 1) \div PairLimit + 1] /\ slot.recipient = a.id
        /\ slot.cell = a.cell /\ slot.init = a.init
        /\ \E b \in states : slot.donor = b.id /\ OrientationDifference(a, b) \in 30 .. 90
        /\ \E b \in states : slot.control = b.id /\ OrientationDifference(a, b) < 5
  BY <1>1 DEF SlotFits
<1>3. PICK b \in states : slot.donor = b.id /\ OrientationDifference(a, b) \in 30 .. 90
  BY <1>2
<1>4. PICK d \in states : slot.control = d.id /\ OrientationDifference(a, d) < 5
  BY <1>2
<1>5. ById(states, a.id) = a /\ ById(states, b.id) = b /\ ById(states, d.id) = d
  BY FoundItself
<1>6. PICK e : e = ValidEvidence(source, i, slot, core, controls)
  OBVIOUS
<1>7. /\ e.source = source /\ e.controls = controls
      /\ e.selected.ratio = RatioPayload(core.ratio)
      /\ e.matched.donor = d.id
      /\ e.pair = [index |-> i, seed |-> slot.seed, cell |-> a.cell, init |-> a.init,
                   recipient |-> a.id, donor |-> b.id, valid |-> TRUE, reason |-> "none"]
  BY <1>2, <1>3, <1>4, <1>6 DEF ValidEvidence, PairIdentity
<1>8. RatioWellFormed(e.selected.ratio)
  BY <1>7, RatioSurvives
<1>9. PICK pair : pair = e.pair
  OBVIOUS
<1>10. /\ pair.index = i /\ pair.seed = slot.seed /\ pair.cell = a.cell /\ pair.init = a.init
       /\ pair.recipient = a.id /\ pair.donor = b.id /\ pair.valid = TRUE
       /\ pair.reason = "none"
  BY <1>7, <1>9
<1> QED
  BY <1>2, <1>3, <1>4, <1>5, <1>6, <1>7, <1>8, <1>9, <1>10 DEF CausalPairAccepted

\* The record of a slot that never runs is accepted.
LEMMA InvalidPairAccepted ==
    ASSUME NEW states, IsCohort(states), NEW source, NEW i, NEW slot,
           SlotFits(states, Seeds[(i - 1) \div PairLimit + 1], slot),
           InvalidReason(slot) # "none"
    PROVE  CausalPairAccepted(source, states, i, InvalidEvidence(source, i, slot))
<1>1. PICK reason : reason = InvalidReason(slot)
  OBVIOUS
<1>2. PICK e : e = InvalidEvidence(source, i, slot)
  OBVIOUS
<1>3. PICK a \in states :
        /\ slot.seed = Seeds[(i - 1) \div PairLimit + 1] /\ slot.recipient = a.id
        /\ slot.cell = a.cell /\ slot.init = a.init
        /\ \/ /\ slot.reason = "none"
              /\ \E b \in states : slot.donor = b.id /\ OrientationDifference(a, b) \in 30 .. 90
           \/ slot.reason = "no_eligible_confirmatory_donor" /\ slot.donor = NoState
  BY DEF SlotFits
<1>4. ById(states, a.id) = a
  BY FoundItself
<1>5. PICK pair : pair = [index |-> i, seed |-> slot.seed, cell |-> a.cell, init |-> a.init,
                          recipient |-> a.id, donor |-> slot.donor, valid |-> FALSE,
                          reason |-> reason]
  OBVIOUS
<1>6. /\ pair.index = i /\ pair.seed = slot.seed /\ pair.cell = a.cell /\ pair.init = a.init
      /\ pair.recipient = a.id /\ pair.donor = slot.donor /\ pair.valid = FALSE
      /\ pair.reason = reason
  BY <1>5
<1>7. /\ e.source = source /\ e.pair = pair /\ e.controls = << >>
      /\ e.selected = Unavailable /\ e.off = Unavailable /\ e.matched = Unavailable
  BY <1>1, <1>2, <1>3, <1>5 DEF InvalidEvidence, PairIdentity
<1>8. CASE slot.reason = "none"
  <2>1. reason = "no_eligible_matched_donor"
    BY <1>1, <1>8 DEF InvalidReason
  <2>2. PICK b \in states : slot.donor = b.id /\ OrientationDifference(a, b) \in 30 .. 90
    BY <1>3, <1>8
  <2>3. ById(states, b.id) = b
    BY FoundItself
  <2> QED
    BY <1>2, <1>3, <1>4, <1>6, <1>7, <2>1, <2>2, <2>3 DEF CausalPairAccepted
<1>9. CASE slot.reason # "none"
  <2>1. reason = "no_eligible_confirmatory_donor" /\ slot.donor = NoState
    BY <1>1, <1>3, <1>9 DEF InvalidReason
  <2> QED
    BY <1>2, <1>3, <1>4, <1>6, <1>7, <2>1 DEF CausalPairAccepted
<1> QED
  BY <1>8, <1>9

\* The doses of a pair are accepted, whatever was measured.
LEMMA ValidDosesAccepted ==
    ASSUME NEW source, NEW i, NEW slot, slot.seed = Seeds[(i - 1) \div PairLimit + 1],
           NEW core, core.ratio \in Nat
    PROVE  DosePairAccepted(source, i, ValidDoses(source, i, slot, core))
<1>1. PICK e : e = ValidDoses(source, i, slot, core)
  OBVIOUS
<1>2. /\ e.source = source /\ e.pair.index = i /\ e.pair.seed = slot.seed
      /\ e.pair.valid = TRUE
      /\ e.alphas = [a \in DOMAIN Alphas |-> Dose(Alphas[a], core)]
  BY <1>1 DEF ValidDoses, PairIdentity
<1>3. \A a \in DOMAIN Alphas : /\ e.alphas[a].alpha = Alphas[a]
                               /\ e.alphas[a].ratio = RatioPayload(core.ratio)
  BY <1>2 DEF Dose
<1>4. RatioWellFormed(RatioPayload(core.ratio))
  BY RatioSurvives
<1> QED
  BY <1>1, <1>2, <1>3, <1>4 DEF DosePairAccepted

\* The record of a pair that has no doses is accepted.
LEMMA InvalidDosesAccepted ==
    ASSUME NEW source, NEW i, NEW slot, slot.seed = Seeds[(i - 1) \div PairLimit + 1],
           NEW reason \in {"no_eligible_matched_donor", "no_eligible_confirmatory_donor"}
    PROVE  DosePairAccepted(source, i, InvalidDoses(source, i, slot, reason))
<1>1. PICK e : e = InvalidDoses(source, i, slot, reason)
  OBVIOUS
<1>2. /\ e.source = source /\ e.pair.index = i /\ e.pair.seed = slot.seed
      /\ e.pair.valid = FALSE /\ e.pair.reason = reason /\ e.alphas = << >>
  BY <1>1 DEF InvalidDoses, PairIdentity
<1> QED
  BY <1>1, <1>2 DEF DosePairAccepted

-----------------------------------------------------------------------------
(* The sums. *)

\* The median of some natural numbers is one.
LEMMA MedianIsNatural ==
    ASSUME NEW f, IsFiniteSet(DOMAIN f), DOMAIN f # {}, \A i \in DOMAIN f : f[i] \in Nat
    PROVE  Median(f) \in Nat
<1>1. PICK n \in Nat : n = Cardinality(DOMAIN f)
  BY FS_CardinalityType
<1>2. n >= 1
  BY <1>1, FS_EmptySet
<1>3. (n + 1) \div 2 \in 1 .. n /\ n \div 2 + 1 \in 1 .. n
  BY <1>2
<1>4. Ranked(f, (n + 1) \div 2) \in Nat /\ Ranked(f, n \div 2 + 1) \in Nat
  BY <1>1, <1>3, RankedIsAValue
<1> QED
  BY <1>1, <1>4 DEF Median, Plus, Infinite

\* The median ratio of the producer is the one that the evaluation derives.
LEMMA MediansAgree ==
    ASSUME NEW f, IsFiniteSet(DOMAIN f), DOMAIN f # {}, \A i \in DOMAIN f : f[i] \in Nat
    PROVE  LET m == NullableMedian(f) IN
           /\ RatioWellFormed(m) /\ ValidatedRatio(m) = Median(f)
           /\ (m.value # Unavailable /\ m.value <= 50) = (Median(f) <= 50)
<1>1. PICK v \in Nat : v = Median(f)
  BY MedianIsNatural
<1>2. Unavailable \notin Nat
  BY EvidenceAssumption
<1>3. PICK m : m = NullableMedian(f)
  OBVIOUS
<1>4. m = IF v = Infinite THEN [value |-> Unavailable, status |-> "infinite_zero_yaw_effect"]
                          ELSE [value |-> v, status |-> "finite"]
  BY <1>1, <1>3 DEF NullableMedian, NoRows
<1>5. CASE v = Infinite
  <2>1. m.value = Unavailable /\ m.status = "infinite_zero_yaw_effect"
    BY <1>4, <1>5
  <2> QED
    BY <1>1, <1>3, <1>5, <2>1 DEF RatioWellFormed, ValidatedRatio, Infinite
<1>6. CASE v # Infinite
  <2>1. m.value = v /\ m.status = "finite" /\ v # Unavailable
    BY <1>2, <1>4, <1>6
  <2> QED
    BY <1>1, <1>3, <2>1 DEF RatioWellFormed, ValidatedRatio
<1> QED
  BY <1>5, <1>6

\* Rows whose valid ones carry a ratio as the producer writes it.
RowsFit(rows) ==
    /\ IsFiniteSet(DOMAIN rows)
    /\ \A i \in DOMAIN rows : rows[i].pair.valid =>
          \E r \in Nat : rows[i].selected.ratio = RatioPayload(r)

\* The summary of a whole plan's rows is the one that the evaluation derives from them.
THEOREM SummariesAgree ==
    ASSUME NEW rows, RowsFit(rows), Len(rows) = Len(Seeds) * PairLimit
    PROVE  SummaryAccepted(SummarizeCausalEvidence(rows), rows)
<1>1. PICK valid : valid = ValidRows(rows)
  OBVIOUS
<1>2. PICK D : D = {n \in DOMAIN rows : rows[n].pair.valid}
  OBVIOUS
<1>3. DOMAIN valid = D /\ \A i \in D : valid[i] = rows[i]
  BY <1>1, <1>2 DEF ValidRows
<1>4. IsFiniteSet(D) /\ Cardinality(D) \in Nat
  <2>1. D \in SUBSET (DOMAIN rows)
    BY <1>2
  <2> QED
    BY <2>1, FS_Subset, FS_CardinalityType DEF RowsFit
<1>5. PICK signs : signs = Column(valid, Sign)
  OBVIOUS
<1>6. DOMAIN signs = D
  BY <1>3, <1>5 DEF Column
<1>7. PICK ratios : ratios = [i \in D |-> RatioForDecision(valid[i].selected.ratio)]
  OBVIOUS
<1>8. DOMAIN ratios = D /\ \A i \in D : /\ ratios[i] \in Nat
                                        /\ ratios[i] = ValidatedRatio(valid[i].selected.ratio)
  <2>1. \A i \in D : \E r \in Nat : valid[i].selected.ratio = RatioPayload(r)
    BY <1>2, <1>3 DEF RowsFit
  <2> QED
    BY <1>7, <2>1, RatioSurvives
<1>9. ratios = [i \in D |-> ValidatedRatio(valid[i].selected.ratio)]
  BY <1>7, <1>8
<1>10. /\ Column(valid, LAMBDA row : RatioForDecision(row.selected.ratio)) = ratios
       /\ Column(valid, LAMBDA row : ValidatedRatio(row.selected.ratio)) = ratios
  BY <1>3, <1>7, <1>9 DEF Column
<1>11. PICK summary : summary = SummarizeCausalEvidence(rows)
  OBVIOUS
<1>12. CASE D = {}
  <2>1. NoRows(valid) /\ Count(valid) = 0 /\ CountTrue(signs) = 0
    <3>1. {i \in DOMAIN signs : signs[i]} = {}
      BY <1>6, <1>12
    <3> QED
      BY <1>3, <1>12, <3>1, FS_EmptySet DEF NoRows, Count, CountTrue
  <2>2. summary = EmptySummary(rows)
    BY <1>1, <1>11, <2>1 DEF SummarizeCausalEvidence
  <2>3. /\ summary.attempted = Len(Seeds) * PairLimit /\ summary.valid = 0
        /\ summary.signs = 0 /\ summary.status = "inconclusive_insufficient_valid_pairs"
    BY <2>2 DEF EmptySummary
  <2>4. ~ (0 >= MinValidPairs)
    BY EvidenceAssumption
  <2> QED
    BY <1>1, <1>5, <1>11, <2>1, <2>2, <2>3, <2>4 DEF SummaryAccepted
<1>13. CASE D # {}
  <2>1. ~ NoRows(valid)
    BY <1>3, <1>13 DEF NoRows
  <2>2. PICK ratio : ratio = NullableMedian(ratios)
    OBVIOUS
  <2>3. /\ RatioWellFormed(ratio) /\ ValidatedRatio(ratio) = Median(ratios)
        /\ (ratio.value # Unavailable /\ ratio.value <= 50) = (Median(ratios) <= 50)
    BY <1>4, <1>8, <1>13, <2>2, MediansAgree
  <2>4. PICK effect : effect = Median(Column(valid, Effect))
    OBVIOUS
  <2>5. PICK threshold : threshold = Percentile95(RandomControlDistribution(valid))
    OBVIOUS
  <2>6. threshold = Percentile95([k \in 1 .. Controls |->
                                    Median([i \in DOMAIN valid |-> valid[i].controls[k]])])
    BY <2>5 DEF RandomControlDistribution, Column
  <2>7. PICK off : off = Rate(Column(valid, LAMBDA row : row.off))
    OBVIOUS
  <2>8. PICK matched : matched = Rate(Column(valid, LAMBDA row : row.matched.sign))
    OBVIOUS
  <2>9. summary = [status |-> IF Count(valid) >= MinValidPairs THEN "complete"
                              ELSE "inconclusive_insufficient_valid_pairs",
             attempted |-> Len(rows), valid |-> Count(valid),
             signs |-> CountTrue(signs), interval |-> SignInterval(valid),
             effect |-> effect, ratio |-> ratio, offRate |-> off, matchedRate |-> matched,
             control95 |-> threshold, randomPasses |-> 20 * effect > threshold,
             specificity |-> ratio.value # Unavailable /\ ratio.value <= 50,
             signPasses |-> IntervalPasses(SignInterval(valid), signs),
             positiveSeeds |-> PositiveSeeds(valid),
             seedPasses |-> PositiveSeeds(valid) >= 2]
    BY <1>1, <1>5, <1>10, <1>11, <2>1, <2>2, <2>4, <2>5, <2>7, <2>8, Zenon
       DEF SummarizeCausalEvidence
  <2>10. /\ summary.status = IF Count(valid) >= MinValidPairs THEN "complete"
                             ELSE "inconclusive_insufficient_valid_pairs"
         /\ summary.attempted = Len(rows) /\ summary.valid = Count(valid)
         /\ summary.signs = CountTrue(signs) /\ summary.interval = SignInterval(valid)
         /\ summary.effect = effect /\ summary.ratio = ratio
         /\ summary.offRate = off /\ summary.matchedRate = matched
         /\ summary.control95 = threshold
         /\ summary.randomPasses = (20 * effect > threshold)
         /\ summary.specificity = (ratio.value # Unavailable /\ ratio.value <= 50)
         /\ summary.signPasses = IntervalPasses(SignInterval(valid), signs)
         /\ summary.positiveSeeds = PositiveSeeds(valid)
         /\ summary.seedPasses = (PositiveSeeds(valid) >= 2)
    BY <2>9
  <2>11. (summary.status = "complete") = (Count(valid) >= MinValidPairs)
    BY <2>10
  <2> QED
    BY <1>1, <1>5, <1>10, <1>11, <2>1, <2>2, <2>3, <2>4, <2>6, <2>7, <2>8, <2>10, <2>11
       DEF SummaryAccepted
<1> QED
  BY <1>12, <1>13

\* Rows whose valid ones have a dose for every alpha, with a ratio as the producer writes it.
DosesFit(rows) ==
    /\ IsFiniteSet(DOMAIN rows)
    /\ \A i \in DOMAIN rows : rows[i].pair.valid =>
          \A alpha \in DOMAIN Alphas : \E r \in Nat :
              rows[i].alphas[alpha].ratio = RatioPayload(r)

\* The grid of a whole plan's rows is the one that the evaluation derives from them.
THEOREM GridsAgree ==
    ASSUME NEW rows, DosesFit(rows), NEW cells
    PROVE  DoseGridAccepted(SummarizeDoseEvidence(rows, cells), rows, cells)
<1>1. PICK grid : grid = SummarizeDoseEvidence(rows, cells)
  OBVIOUS
<1> DEFINE Doses(alpha, cell) == Column(ValidRows(CellRows(rows, cell)),
                                        LAMBDA row : row.alphas[alpha])
           Item(alpha, cell) ==
             LET doses == Doses(alpha, cell)
                 ratio == NullableMedian(Column(doses, LAMBDA d : RatioForDecision(d.ratio)))
             IN [pairs |-> Column(CellRows(rows, cell), LAMBDA row : row.pair.index),
                 valid |-> Count(doses),
                 signs |-> CountTrue(Column(doses, LAMBDA d : d.sign)),
                 effect |-> IF NoRows(doses) THEN Unavailable
                            ELSE Median(Column(doses, LAMBDA d : d.effect)),
                 ratio |-> ratio,
                 specificity |-> ratio.value # Unavailable /\ ratio.value <= 50]
<1>2. grid = [at \in (DOMAIN Alphas) \X cells |-> Item(at[1], at[2])]
  BY <1>1 DEF SummarizeDoseEvidence
<1>3. /\ DOMAIN grid = (DOMAIN Alphas) \X cells
      /\ \A alpha \in DOMAIN Alphas, cell \in cells : grid[<<alpha, cell>>] = Item(alpha, cell)
  <2> HIDE DEF Item
  <2> QED
    BY <1>2
<1>4. ASSUME NEW alpha \in DOMAIN Alphas, NEW cell \in cells
      PROVE
        LET item  == grid[<<alpha, cell>>]
            here  == CellRows(rows, cell)
            doses == Column(ValidRows(here), LAMBDA row : row.alphas[alpha])
            ratio == Median(Column(doses, LAMBDA d : ValidatedRatio(d.ratio)))
        IN /\ item.pairs = Column(here, LAMBDA row : row.pair.index)
           /\ item.valid = Count(doses)
           /\ item.signs = CountTrue(Column(doses, LAMBDA d : d.sign))
           /\ IF NoRows(doses)
                THEN /\ item.effect = Unavailable
                     /\ item.ratio = NullableMedian(<< >>)
                     /\ ~item.specificity
                ELSE /\ item.effect = Median(Column(doses, LAMBDA d : d.effect))
                     /\ RatioWellFormed(item.ratio) /\ ValidatedRatio(item.ratio) = ratio
                     /\ item.specificity = (ratio <= 50)
  <2>1. PICK doses : doses = Doses(alpha, cell)
    OBVIOUS
  <2>2. PICK D : D = DOMAIN doses
    OBVIOUS
  <2>3. D \in SUBSET (DOMAIN rows)
    BY <2>1, <2>2 DEF Column, ValidRows, CellRows
  <2>4. IsFiniteSet(D)
    BY <2>3, FS_Subset DEF DosesFit
  <2>5. \A i \in D : \E r \in Nat : doses[i].ratio = RatioPayload(r)
    BY <2>1, <2>2 DEF Column, ValidRows, CellRows, DosesFit
  <2>6. PICK ratios : ratios = [i \in D |-> RatioForDecision(doses[i].ratio)]
    OBVIOUS
  <2>7. DOMAIN ratios = D /\ \A i \in D : /\ ratios[i] \in Nat
                                          /\ ratios[i] = ValidatedRatio(doses[i].ratio)
    BY <2>5, <2>6, RatioSurvives
  <2>8. ratios = [i \in D |-> ValidatedRatio(doses[i].ratio)]
    BY <2>6, <2>7
  <2>9. /\ Column(doses, LAMBDA d : RatioForDecision(d.ratio)) = ratios
        /\ Column(doses, LAMBDA d : ValidatedRatio(d.ratio)) = ratios
    BY <2>2, <2>6, <2>8 DEF Column
  <2>10. PICK ratio : ratio = NullableMedian(ratios)
    OBVIOUS
  <2>11. PICK item : item = grid[<<alpha, cell>>]
    OBVIOUS
  <2>12. item = [pairs |-> Column(CellRows(rows, cell), LAMBDA row : row.pair.index),
                 valid |-> Count(doses),
                 signs |-> CountTrue(Column(doses, LAMBDA d : d.sign)),
                 effect |-> IF NoRows(doses) THEN Unavailable
                            ELSE Median(Column(doses, LAMBDA d : d.effect)),
                 ratio |-> ratio,
                 specificity |-> ratio.value # Unavailable /\ ratio.value <= 50]
    <3>1. item = Item(alpha, cell)
      BY <1>3, <2>11
    <3> QED
      BY <2>1, <2>9, <2>10, <3>1, Zenon
  <2>13. /\ item.pairs = Column(CellRows(rows, cell), LAMBDA row : row.pair.index)
         /\ item.valid = Count(doses)
         /\ item.signs = CountTrue(Column(doses, LAMBDA d : d.sign))
         /\ item.effect = IF NoRows(doses) THEN Unavailable
                          ELSE Median(Column(doses, LAMBDA d : d.effect))
         /\ item.ratio = ratio
         /\ item.specificity = (ratio.value # Unavailable /\ ratio.value <= 50)
    BY <2>12
  <2>14. CASE D = {}
    <3>1. NoRows(doses)
      BY <2>2, <2>14 DEF NoRows
    <3>2. ratios = << >>
      BY <2>6, <2>14
    <3>3. ratio = [value |-> Unavailable, status |-> "unavailable_no_valid_pairs"]
      BY <2>7, <2>10, <2>14 DEF NullableMedian, NoRows
    <3>4. item.ratio = NullableMedian(<< >>)
      BY <2>10, <2>13, <3>2
    <3>5. ~ item.specificity
      <4>1. ratio.value = Unavailable
        BY <3>3
      <4>2. (ratio.value # Unavailable /\ ratio.value <= 50) = FALSE
        BY <4>1
      <4>3. item.specificity = FALSE
        BY <2>13, <4>2, Zenon
      <4> QED
        BY <4>3, Zenon
    <3> QED
      BY <2>1, <2>11, <2>13, <3>1, <3>4, <3>5
  <2>15. CASE D # {}
    <3>1. ~ NoRows(doses)
      BY <2>2, <2>15 DEF NoRows
    <3>2. /\ RatioWellFormed(ratio) /\ ValidatedRatio(ratio) = Median(ratios)
          /\ (ratio.value # Unavailable /\ ratio.value <= 50) = (Median(ratios) <= 50)
      BY <2>4, <2>7, <2>10, <2>15, MediansAgree
    <3> QED
      BY <2>1, <2>9, <2>11, <2>13, <3>1, <3>2
  <2> QED
    BY <2>14, <2>15
<1> QED
  BY <1>1, <1>3, <1>4 DEF DoseGridAccepted

=============================================================================
