------------------------------ MODULE StudyGatesProofs ------------------------------
(***************************************************************************)
(* The two properties of the study's gates, for every shortlist, manifest, *)
(* set of models, simulator and order of the operator's commands.  A lock  *)
(* selects what the simulator does (LockSelects); what holds of a file     *)
(* holds of it in the worktree and in every commit (TreeSound).            *)
(***************************************************************************)
EXTENDS StudyGates, FiniteSetTheorems, SequenceTheorems, TLAPS

-----------------------------------------------------------------------------
(* The Reality Gate. *)

\* One attempt's rollouts ran under one model.
LEMMA OneModel ==
    ASSUME NEW R, R \subseteq raws, IsFiniteSet(raws), \A raw \in raws : RawTrue(raw),
           NEW t \in 1 .. Tasks, NEW any \in R,
           AttemptAccepted(t, any.commit, any.model, R)
    PROVE  \A raw \in R : raw.model = any.model
  <1> DEFINE V == {raw.model.vlm : raw \in R}
             f == [raw \in R |-> raw.model.vlm]
  <1>1. Cardinality(V) = 1 /\ \A raw \in R : raw.model.policy = any.model.policy
    BY DEF AttemptAccepted, Manifested
  <1>2. IsFiniteSet(V)
    <2>1. f \in Surjection(R, V)
      BY DEF Surjection
    <2>2. IsFiniteSet(R)
      BY FS_Subset
    <2> HIDE DEF f, V
    <2>. QED  BY <2>1, <2>2, FS_Surjection
  <1> SUFFICES ASSUME NEW raw \in R PROVE raw.model = any.model
    OBVIOUS
  <1>3. raw.model.vlm \in V /\ any.model.vlm \in V
    OBVIOUS
  <1> HIDE DEF V
  <1>4. raw.model.vlm = any.model.vlm
    <2>1. PICK x : V = {x}
      BY <1>1, <1>2, FS_Singleton
    <2>. QED  BY <1>3, <2>1
  <1>5. raw.model \in Models /\ any.model \in Models
    BY DEF RawTrue
  <1>. QED  BY <1>1, <1>4, <1>5, StudyAssumption

\* The cells of an attempt say what the simulator does under its model.
LEMMA CellsTrue ==
    ASSUME NEW R, R \subseteq raws, \A raw \in raws : RawTrue(raw), NEW t, NEW m,
           \A raw \in R : raw.model = m,
           NEW e \in Cells(t), CellsFrom(t, R)[e].executed
    PROVE  /\ CellsFrom(t, R)[e].valid = Outcome(world, m, e).valid
           /\ CellsFrom(t, R)[e].success = Outcome(world, m, e).success
  <1> DEFINE c == CHOOSE raw \in R : raw.episode = e
  <1>1. CellsFrom(t, R)[e] = IF \E raw \in R : raw.episode = e THEN CellResult(c) ELSE NotExecuted
    BY DEF CellsFrom
  <1>2. \E raw \in R : raw.episode = e
    BY <1>1 DEF NotExecuted
  <1>3. c \in R /\ c.episode = e
    BY <1>2
  <1>4. CellsFrom(t, R)[e] = CellResult(c)
    BY <1>1, <1>2
  <1> HIDE DEF c
  <1>5. CellResult(c).valid = c.valid /\ CellResult(c).success = c.success
    BY DEF CellResult
  <1>6. RawTrue(c) /\ c.model = m
    BY <1>3
  <1>. QED  BY <1>3, <1>4, <1>5, <1>6 DEF RawTrue

\* An attempt passes exactly when its task does what the gate asks for.
LEMMA AttemptTrue ==
    ASSUME NEW R, R \subseteq raws, IsFiniteSet(raws), \A raw \in raws : RawTrue(raw),
           NEW t \in 1 .. Tasks, NEW any \in R, NEW host,
           AttemptAccepted(t, any.commit, any.model, R),
           EvaluationAccepted(Attempt(t, any.commit, any.model, R))
    PROVE  Evaluate(Attempt(t, any.commit, any.model, R), host).passes
              <=> Reproduces(t, any.model) /\ HasRange(t, any.model)
  <1> DEFINE m == any.model
             a == Attempt(t, any.commit, any.model, R)
             cells == CellsFrom(t, R)
             n == SuccessCount(cells)
  <1>1. \A raw \in R : raw.model = m
    BY OneModel
  <1>2. a.task = t /\ a.cells = cells
    BY DEF Attempt
  <1>3. \A e \in Cells(t) : cells[e].executed =>
            /\ cells[e].valid = Outcome(world, m, e).valid
            /\ cells[e].success = Outcome(world, m, e).success
    BY <1>1, CellsTrue
  <1>4. DOMAIN cells = Cells(t)
    BY DEF CellsFrom
  <1>5. /\ \A e \in Iid(t) : cells[e].executed
        /\ \A e \in Yawed(t) : cells[e].executed <=> n >= MinSuccesses
        /\ n >= MinSuccesses => Valid(a) # {}
    BY <1>2, Zenon DEF EvaluationAccepted
  <1> DEFINE yawedValid == {e \in Yawed(t) : Outcome(world, m, e).valid}
             yawedFailed == {e \in yawedValid : ~Outcome(world, m, e).success}
  <1> HIDE DEF cells, m, n
  <1>6. n = Cardinality({e \in Iid(t) : Outcome(world, m, e).success})
    <2>1. {e \in DOMAIN cells : IsIid(e) /\ cells[e].executed /\ cells[e].success}
             = {e \in Iid(t) : Outcome(world, m, e).success}
      BY <1>3, <1>4, <1>5 DEF Iid
    <2>. QED  BY <2>1 DEF SuccessCount, n
  <1>7. Reproduces(t, m) <=> n >= MinSuccesses
    BY <1>6, Zenon DEF Reproduces
  <1>8. ASSUME n >= MinSuccesses PROVE Valid(a) = yawedValid /\ Failures(a) = yawedFailed
    <2>1. \A e \in Yawed(t) : e \in Cells(t) /\ cells[e].executed
      BY <1>5, <1>8 DEF Yawed
    <2>2. Valid(a) = yawedValid
      BY <1>2, <1>3, <2>1 DEF Valid
    <2>3. Failures(a) = yawedFailed
      BY <1>2, <1>3, <2>1, <2>2 DEF Failures
    <2>. QED  BY <2>2, <2>3
  <1> DEFINE dr == DynamicRange(a, host)
             rg == ReproductionGate(n, Cardinality(Iid(t)), host)
  <1>9. ASSUME n >= MinSuccesses PROVE dr.passes <=> HasRange(t, m)
    <2> DEFINE v == Cardinality(yawedValid)
               w == Cardinality(yawedFailed)
               y == Cardinality(Yawed(t))
    <2>1. dr = DynamicRangeGate(v, y, w, host)
      BY <1>2, <1>8, <1>9, Zenon DEF DynamicRange
    <2>2. yawedValid # {}
      BY <1>5, <1>8, <1>9
    <2>3. HasRange(t, m) <=> /\ yawedValid # {}
                            /\ 100 * v >= MinValidPercent * y
                            /\ 100 * w >= MinFailurePercent * v
                            /\ 100 * w <= MaxFailurePercent * v
      BY Zenon DEF HasRange
    <2> HIDE DEF v, w, y, dr
    <2>4. dr.passes = (/\ 100 * v >= MinValidPercent * y
                       /\ 100 * w >= MinFailurePercent * v
                       /\ 100 * w <= MaxFailurePercent * v)
      BY <2>1, Zenon DEF DynamicRangeGate
    <2>. QED  BY <2>2, <2>3, <2>4, Zenon
  <1>10. rg.passes <=> n >= MinSuccesses
    BY Zenon DEF ReproductionGate
  <1>11. Evaluate(a, host).passes
            <=> rg.passes /\ (IF rg.passes THEN <<dr>> ELSE << >>)[1].passes
    BY <1>2, Zenon DEF Evaluate, cells, n
  <1> HIDE DEF dr, rg, a
  <1>12. Evaluate(a, host).passes <=> rg.passes /\ dr.passes
    <2>1. CASE rg.passes
      BY <1>11, <2>1
    <2>2. CASE ~rg.passes
      BY <1>11, <2>2, Zenon
    <2>. QED  BY <2>1, <2>2
  <1>13. Evaluate(a, host).passes <=> Reproduces(t, m) /\ HasRange(t, m)
    BY <1>7, <1>9, <1>10, <1>12, Zenon
  <1>. QED  BY <1>13 DEF a, m

\* A lock that can be built selects what the simulator does.
LEMMA LockSelects ==
    ASSUME IsFiniteSet(raws), \A raw \in raws : RawTrue(raw),
           NEW n \in 1 .. Tasks, NEW any, NEW attempts, NEW orientation,
           attempts = [t \in 1 .. n |->
                         Attempt(t, any[t].commit, any[t].model, RolloutsOf(t))],
           \A t \in 1 .. n : /\ any[t] \in RolloutsOf(t)
                             /\ AttemptAccepted(t, any[t].commit, any[t].model, RolloutsOf(t)),
           DecisionAccepted(attempts, Host),
           LockAccepted(GateReceipt(attempts, Host), orientation)
    PROVE  Selects(GateReceipt(attempts, Host).selected, GateReceipt(attempts, Host).policy)
  <1> DEFINE D == Decisions(attempts, Host)
  <1>1. n \in Nat /\ Tasks \in Nat /\ DOMAIN attempts = 1 .. n
    BY RealityGateAssumption
  <1>2. D = [i \in 1 .. n |-> Evaluate(attempts[i], Host)]
    BY <1>1 DEF Decisions
  <1>3. Len(D) = n /\ DOMAIN D = 1 .. n
    BY <1>1, <1>2
  <1>4. ASSUME NEW i \in 1 .. n
        PROVE  /\ D[i].passes <=> Reproduces(i, any[i].model) /\ HasRange(i, any[i].model)
               /\ D[i].task = i /\ D[i].policy = any[i].model.policy
               /\ any[i].model \in Models
    <2>1. attempts[i] = Attempt(i, any[i].commit, any[i].model, RolloutsOf(i))
      OBVIOUS
    <2>2. /\ any[i] \in RolloutsOf(i) /\ RolloutsOf(i) \subseteq raws /\ i \in 1 .. Tasks
          /\ AttemptAccepted(i, any[i].commit, any[i].model, RolloutsOf(i))
      <3>1. any[i] \in RolloutsOf(i) /\ AttemptAccepted(i, any[i].commit, any[i].model, RolloutsOf(i))
        OBVIOUS
      <3>2. i \in 1 .. Tasks
        BY <1>1
      <3>3. RolloutsOf(i) \subseteq raws
        BY DEF RolloutsOf
      <3>. QED  BY <3>1, <3>2, <3>3
    <2>3. EvaluationAccepted(attempts[i])
      BY <1>1 DEF DecisionAccepted
    <2>4. D[i] = Evaluate(attempts[i], Host)
      BY <1>2
    <2>5. D[i].passes <=> Reproduces(i, any[i].model) /\ HasRange(i, any[i].model)
      <3> DEFINE r == any[i]
                 R == RolloutsOf(i)
      <3>1. /\ r \in R /\ R \subseteq raws /\ AttemptAccepted(i, r.commit, r.model, R)
            /\ EvaluationAccepted(Attempt(i, r.commit, r.model, R))
            /\ D[i] = Evaluate(Attempt(i, r.commit, r.model, R), Host)
        BY <2>1, <2>2, <2>3, <2>4
      <3> HIDE DEF r, R, D
      <3>2. D[i].passes <=> Reproduces(i, r.model) /\ HasRange(i, r.model)
        BY <2>2, <3>1, AttemptTrue
      <3>. QED  BY <3>2 DEF r
    <2>6. D[i].task = i /\ D[i].policy = any[i].model.policy
      <3>1. D[i].task = attempts[i].task /\ D[i].policy = attempts[i].policy
        BY <2>4 DEF Evaluate
      <3>. QED  BY <2>1, <3>1 DEF Attempt
    <2>. QED  BY <2>2, <2>5, <2>6 DEF RawTrue
  <1>5. DecisionsAccepted(D)
    BY DEF DecisionAccepted
  <1>6. /\ GateReceipt(attempts, Host).policy = D[n].policy
        /\ GateReceipt(attempts, Host).selected = IF D[n].passes THEN D[n].task ELSE NoTask
    BY <1>3, Zenon DEF GateReceipt
  <1>7. D[n].passes /\ GateReceipt(attempts, Host).selected = n
    <2>1. GateReceipt(attempts, Host).selected # NoTask
      BY DEF LockAccepted
    <2>2. n \in 1 .. n
      BY <1>1
    <2>. QED  BY <1>4, <1>6, <2>1, <2>2
  <1> HIDE DEF D
  <1>8. /\ \A i \in 1 .. n - 1 : ~D[i].passes
        /\ \A i \in 1 .. n : D[i].policy = D[n].policy
    <2>1. n \in 1 .. n
      BY <1>1
    <2>. QED  BY <1>3, <1>5, <2>1 DEF DecisionsAccepted, SameRevisions
  <1>9. \E model \in Models : /\ model.policy = D[n].policy
                              /\ Reproduces(n, model) /\ HasRange(n, model)
    <2>1. n \in 1 .. n
      BY <1>1
    <2>. QED  BY <1>4, <1>7, <2>1
  <1>10. \A t \in 1 .. n - 1 :
            \E model \in Models : /\ model.policy = D[n].policy
                                  /\ ~(Reproduces(t, model) /\ HasRange(t, model))
    <2> SUFFICES ASSUME NEW t \in 1 .. n - 1
                 PROVE  /\ any[t].model \in Models /\ any[t].model.policy = D[n].policy
                        /\ ~(Reproduces(t, any[t].model) /\ HasRange(t, any[t].model))
      OBVIOUS
    <2>1. t \in 1 .. n
      BY <1>1
    <2>. QED  BY <1>4, <1>8, <2>1
  <1>. QED  BY <1>6, <1>7, <1>9, <1>10, Zenon DEF Selects

\* A gate that could be locked is not refused afterwards on a host whose floating point
\* leaves the same last bits: reading the receipt back computes every interval, gate and
\* cell as decide_reality_gate did, also for the attempts that did not reproduce.  (On a
\* host with other last bits the comparison of the intervals refuses it.)
THEOREM GateReopens ==
    ASSUME NEW n \in 1 .. Tasks, NEW any, NEW attempts, NEW host,
           Rounding(host) = Rounding(Host),
           attempts = [t \in 1 .. n |->
                         Attempt(t, any[t].commit, any[t].model, RolloutsOf(t))],
           \A t \in 1 .. n : AttemptAccepted(t, any[t].commit, any[t].model, RolloutsOf(t)),
           DecisionAccepted(attempts, Host)
    PROVE  ReceiptRehydrates(GateReceipt(attempts, Host), host)
  <1> DEFINE D == Decisions(attempts, Host)
             g == GateReceipt(attempts, Host)
  <1>1. n \in Nat /\ n >= 1 /\ DOMAIN attempts = 1 .. n
    BY RealityGateAssumption
  <1>2. D = [i \in 1 .. n |-> Evaluate(attempts[i], Host)]
    BY <1>1 DEF Decisions
  <1>3. Len(D) = n /\ DOMAIN D = 1 .. n
    BY <1>1, <1>2
  <1>4. DecisionsAccepted(D) /\ \A i \in 1 .. n : EvaluationAccepted(attempts[i])
    BY <1>1 DEF DecisionAccepted
  <1>5. /\ g.attempts = D /\ g.commit = D[Len(D)].commit /\ g.policy = D[Len(D)].policy
        /\ g.selected = IF D[Len(D)].passes THEN D[Len(D)].task ELSE NoTask
    BY Zenon DEF GateReceipt
  <1>6. \A s, t : Wilson(s, t, host) = Wilson(s, t, Host)
    BY DEF Wilson
  <1>7. ASSUME NEW i \in 1 .. n PROVE DecisionRehydrates(D[i], host)
    <2> DEFINE a == attempts[i]
               d == D[i]
    <2>1. d = Evaluate(a, Host)
      BY <1>2
    <2>2. /\ d.task = a.task /\ d.commit = a.commit /\ d.policy = a.policy /\ d.cells = a.cells
      BY <2>1 DEF Evaluate
    <2>3. a.task = i /\ a.cells = CellsFrom(i, RolloutsOf(i))
      BY DEF Attempt
    <2>4. EvaluationAccepted(a)
      BY <1>4
    <2>5. \A raw \in RolloutsOf(i) : raw.valid \/ ~raw.success
      BY DEF AttemptAccepted, Manifested
    <2> HIDE DEF a, d
    <2>6. Valid(d) = Valid(a) /\ Failures(d) = Failures(a)
      BY <2>2 DEF Valid, Failures
    <2>7. DynamicRange(d, host) = DynamicRange(a, Host)
      BY <1>6, <2>2, <2>6, Zenon DEF DynamicRange, DynamicRangeGate
    <2>8. \A s, t : ReproductionGate(s, t, host) = ReproductionGate(s, t, Host)
      BY <1>6, Zenon DEF ReproductionGate
    <2>9. Evaluate(d, host) = d
      BY <2>1, <2>2, <2>7, <2>8, Zenon DEF Evaluate
    <2>10. EvaluationAccepted(d)
      BY <2>2, <2>4, <2>6, Zenon DEF EvaluationAccepted
    <2>11. DOMAIN d.cells = Cells(d.task)
      BY <2>2, <2>3 DEF CellsFrom
    <2>12. ASSUME NEW e \in Cells(i) PROVE CellRehydrates(d.cells[e])
      <3> DEFINE c == CHOOSE raw \in RolloutsOf(i) : raw.episode = e
      <3>1. d.cells[e] = IF \E raw \in RolloutsOf(i) : raw.episode = e
                         THEN CellResult(c) ELSE NotExecuted
        BY <2>2, <2>3 DEF CellsFrom
      <3>2. CASE \E raw \in RolloutsOf(i) : raw.episode = e
        <4>1. c \in RolloutsOf(i)
          BY <3>2
        <4> HIDE DEF c
        <4>2. d.cells[e] = CellResult(c) /\ (c.valid \/ ~c.success)
          BY <2>5, <3>1, <3>2, <4>1
        <4>3. /\ CellResult(c).valid = c.valid /\ CellResult(c).success = c.success
              /\ CellResult(c).retry.performed = ~c.valid
          <5>1. CASE c.valid
            BY <5>1 DEF CellResult
          <5>2. CASE ~c.valid
            BY <5>2 DEF CellResult
          <5>. QED  BY <5>1, <5>2
        <4>. QED  BY <4>2, <4>3, Zenon DEF CellRehydrates
      <3>3. CASE ~\E raw \in RolloutsOf(i) : raw.episode = e
        BY <3>1, <3>3 DEF CellRehydrates, NotExecuted
      <3>. QED  BY <3>2, <3>3
    <2>13. d.task = i
      BY <2>2, <2>3
    <2>. QED  BY <2>9, <2>10, <2>11, <2>12, <2>13 DEF DecisionRehydrates, d
  <1> HIDE DEF D, g
  <1>8. \A i \in DOMAIN g.attempts : DecisionRehydrates(g.attempts[i], host)
    BY <1>3, <1>5, <1>7
  <1>. QED  BY <1>4, <1>5, <1>8, Zenon DEF ReceiptRehydrates, g

-----------------------------------------------------------------------------
(* Trees and commits. *)

\* Changing one file leaves what holds of the others.
LEMMA OtherFilesSound ==
    ASSUME NEW tree, TreeSound(tree), NEW file \in Files, NEW content,
           file = "model" => content \in Models,
           file = "lock" /\ content # Nothing => Selects(content.task, content.policy),
           file = "freeze" /\ content # Nothing => DOMAIN content.hashes = Hashed,
           file = "predictor" /\ content # Nothing => FittedOnAll(content)
    PROVE  TreeSound([tree EXCEPT ![file] = content])
  <1> DEFINE new == [tree EXCEPT ![file] = content]
  <1>1. DOMAIN new = Files /\ \A g \in Files : new[g] = IF g = file THEN content ELSE tree[g]
    BY DEF TreeSound
  <1> HIDE DEF new
  <1>2. new.model \in Models
    BY <1>1 DEF TreeSound, Files
  <1>3. new.lock # Nothing => Selects(new.lock.task, new.lock.policy)
    BY <1>1 DEF TreeSound, Files
  <1>4. new.freeze # Nothing => DOMAIN new.freeze.hashes = Hashed
    BY <1>1 DEF TreeSound, Files
  <1>5. new.predictor # Nothing => FittedOnAll(new.predictor)
    BY <1>1 DEF TreeSound, Files
  <1>. QED  BY <1>1, <1>2, <1>3, <1>4, <1>5 DEF TreeSound, new

\* A commit is appended, and the history stays what it is.
LEMMA HistoryGrows ==
    ASSUME HistorySound, NEW c
    PROVE  /\ Len(commits) \in Nat
           /\ Len(Append(commits, c)) = Len(commits) + 1
           /\ \A i \in 1 .. Len(commits) : Append(commits, c)[i] = commits[i]
           /\ Append(commits, c)[Len(commits) + 1] = c
           /\ Append(commits, c) \in
                 Seq({Append(commits, c)[i] : i \in 1 .. Len(Append(commits, c))})
  <1> DEFINE S == {commits[i] : i \in 1 .. Len(commits)}
             T == S \cup {c}
             new == Append(commits, c)
  <1>1. commits \in Seq(S) /\ Len(commits) \in Nat
    BY DEF HistorySound
  <1> HIDE DEF S
  <1>2. commits \in Seq(T)
    BY <1>1
  <1> HIDE DEF T
  <1>3. /\ new \in Seq(T) /\ Len(new) = Len(commits) + 1
        /\ \A i \in 1 .. Len(commits) : new[i] = commits[i]
        /\ new[Len(commits) + 1] = c
    BY <1>2, AppendProperties DEF T
  <1> HIDE DEF new
  <1>4. new \in Seq({new[i] : i \in 1 .. Len(new)})
    BY <1>3
  <1>. QED  BY <1>1, <1>3, <1>4 DEF new

\* What a task does is the simulator's.
LEMMA SelectsStays ==
    ASSUME world' = world, NEW task, NEW policy
    PROVE  Selects(task, policy)' <=> Selects(task, policy)
  <1>1. ASSUME NEW t, NEW model PROVE Reproduces(t, model)' <=> Reproduces(t, model)
    <2>1. \A e : Outcome(world', model, e) = Outcome(world, model, e)
      OBVIOUS
    <2>2. {e \in Iid(t) : Outcome(world', model, e).success}
             = {e \in Iid(t) : Outcome(world, model, e).success}
      BY <2>1
    <2>. QED  BY <2>2, Zenon DEF Reproduces
  <1>2. ASSUME NEW t, NEW model PROVE HasRange(t, model)' <=> HasRange(t, model)
    <2> DEFINE V == {e \in Yawed(t) : Outcome(world, model, e).valid}
               W == {e \in Yawed(t) : Outcome(world', model, e).valid}
               F == {e \in V : ~Outcome(world, model, e).success}
               G == {e \in W : ~Outcome(world', model, e).success}
    <2>1. W = V /\ G = F
      OBVIOUS
    <2>2. HasRange(t, model) <=> /\ V # {}
                                 /\ 100 * Cardinality(V) >= MinValidPercent * Cardinality(Yawed(t))
                                 /\ 100 * Cardinality(F) >= MinFailurePercent * Cardinality(V)
                                 /\ 100 * Cardinality(F) <= MaxFailurePercent * Cardinality(V)
      BY Zenon DEF HasRange
    <2>3. HasRange(t, model)' <=> /\ W # {}
                                 /\ 100 * Cardinality(W) >= MinValidPercent * Cardinality(Yawed(t))
                                 /\ 100 * Cardinality(G) >= MinFailurePercent * Cardinality(W)
                                 /\ 100 * Cardinality(G) <= MaxFailurePercent * Cardinality(W)
      BY Zenon DEF HasRange
    <2> HIDE DEF V, W, F, G
    <2>. QED  BY <2>1, <2>2, <2>3, Zenon
  <1>. QED  BY <1>1, <1>2, Zenon DEF Selects

\* A tree stays sound while what it was made under stays.
LEMMA SoundStays ==
    ASSUME world' = world, authority' = authority \/ authority = Nothing,
           NEW tree, TreeSound(tree)
    PROVE  TreeSound(tree)'
  <1>1. tree.lock # Nothing => Selects(tree.lock.task, tree.lock.policy)'
    BY SelectsStays DEF TreeSound
  <1>2. tree.predictor # Nothing => FittedOnAll(tree.predictor)'
    BY DEF TreeSound, FittedOnAll
  <1>. QED  BY <1>1, <1>2 DEF TreeSound

\* What an action does not touch stays as it is.
LEMMA PartsStay ==
    ASSUME StudyInvariant, world' = world, authority' = authority \/ authority = Nothing
    PROVE  /\ UNCHANGED git => HistorySound'
           /\ UNCHANGED work => TreeSound(work)'
           /\ UNCHANGED raws => IsFiniteSet(raws') /\ (\A raw \in raws : RawTrue(raw))'
           /\ UNCHANGED calibration =>
                 (\A a \in calibration : authority # Nothing /\ a.commit = authority.commit)'
           /\ UNCHANGED authority => CalibrationStandsOnOneStudy'
           /\ UNCHANGED <<git, locked>> => LockedTestIsReproducible'
                                           /\ (\A a \in locked : a.ran \in 1 .. Len(commits))'
  <1>1. ASSUME UNCHANGED git PROVE HistorySound'
    <2>1. commits' = commits /\ head' = head /\ tags' = tags
      BY <1>1 DEF git
    <2>2. \A c \in 1 .. Len(commits) : TreeSound(commits[c].tree)
      BY DEF StudyInvariant, HistorySound
    <2>3. ASSUME NEW c \in 1 .. Len(commits') PROVE TreeSound(commits[c].tree)'
      <3>1. PICK x : x = commits[c].tree
        OBVIOUS
      <3>2. TreeSound(x)
        BY <2>1, <2>2, <3>1
      <3>3. TreeSound(x)'
        BY <3>2, SoundStays
      <3>. QED  BY <2>1, <3>1, <3>3
    <2>. QED  BY <2>1, <2>3 DEF StudyInvariant, HistorySound
  <1>2. ASSUME UNCHANGED work PROVE TreeSound(work)'
    <2>1. PICK x : x = work
      OBVIOUS
    <2>2. TreeSound(x)'
      BY <2>1, SoundStays DEF StudyInvariant
    <2>. QED  BY <1>2, <2>1, <2>2
  <1>3. ASSUME UNCHANGED raws PROVE IsFiniteSet(raws') /\ (\A raw \in raws : RawTrue(raw))'
    BY <1>3 DEF StudyInvariant, RawTrue
  <1>4. ASSUME UNCHANGED calibration
        PROVE  (\A a \in calibration : authority # Nothing /\ a.commit = authority.commit)'
    BY <1>4 DEF StudyInvariant
  <1>5. ASSUME UNCHANGED authority PROVE CalibrationStandsOnOneStudy'
    BY <1>5, SelectsStays DEF StudyInvariant, CalibrationStandsOnOneStudy
  <1>6. ASSUME UNCHANGED <<git, locked>>
        PROVE  /\ LockedTestIsReproducible'
               /\ (\A a \in locked : a.ran \in 1 .. Len(commits))'
    BY <1>6 DEF StudyInvariant, LockedTestIsReproducible, git
  <1>. QED  BY <1>1, <1>2, <1>3, <1>4, <1>5, <1>6

-----------------------------------------------------------------------------
(* The operator's commands. *)

\* A command that only writes to the worktree, and leaves it sound.
LEMMA WorkWritten ==
    ASSUME StudyInvariant, UNCHANGED <<world, git, gate, authority, calibration, locked>>,
           TreeSound(work)'
    PROVE  StudyInvariant'
  <1>1. UNCHANGED <<world, git, raws, authority, calibration, locked>>
    BY DEF gate
  <1>. QED  BY <1>1, PartsStay DEF StudyInvariant

\* It leaves it sound when the file it writes is.
LEMMA FileWritten ==
    ASSUME StudyInvariant, UNCHANGED <<world, git, gate, authority, calibration, locked>>,
           NEW file \in Files, NEW content,
           file = "model" => content \in Models,
           file = "lock" /\ content # Nothing => Selects(content.task, content.policy),
           file = "freeze" /\ content # Nothing => DOMAIN content.hashes = Hashed,
           file = "predictor" /\ content # Nothing => FittedOnAll(content),
           Edit(file, content)
    PROVE  StudyInvariant'
  <1>1. PICK x : x = [work EXCEPT ![file] = content]
    OBVIOUS
  <1>2. TreeSound(x)
    BY <1>1, OtherFilesSound DEF StudyInvariant
  <1>3. TreeSound(x)'
    BY <1>2, SoundStays
  <1>4. work' = x
    BY <1>1 DEF Edit
  <1>5. TreeSound(work)'
    BY <1>3, <1>4
  <1>. QED  BY <1>5, WorkWritten

\* The models may be amended.
LEMMA ChangeModelKeeps == ASSUME StudyInvariant, ChangeModel PROVE StudyInvariant'
  <1>1. PICK model \in Models : Edit("model", model)
    BY DEF ChangeModel
  <1>. QED  BY <1>1, FileWritten DEF ChangeModel, Files

\* A freeze may be withdrawn.
LEMMA WithdrawFreezeKeeps == ASSUME StudyInvariant, WithdrawFreeze PROVE StudyInvariant'
  BY FileWritten DEF WithdrawFreeze, Files

\* A lock is built of what the simulator did.
LEMMA BuildLockKeeps == ASSUME StudyInvariant, BuildLock PROVE StudyInvariant'
  <1>1. PICK n \in 1 .. Tasks, c \in DOMAIN commits :
         LET any(t)      == CHOOSE raw \in RolloutsOf(t) : TRUE
             attempts    == [t \in 1 .. n |->
                               Attempt(t, any(t).commit, any(t).model, RolloutsOf(t))]
             receipt     == GateReceipt(attempts, Host)
             orientation == Orientation(RolloutsOf(n), SymmetryOrder[n])
         IN  /\ \A t \in 1 .. n :
                  /\ RolloutsOf(t) # {}
                  /\ AttemptAccepted(t, any(t).commit, any(t).model, RolloutsOf(t))
             /\ DecisionAccepted(attempts, Host)
             /\ LockAccepted(receipt, orientation)
             /\ BoundsAccepted(RolloutsOf(n), SelectedArtifacts(receipt))
             /\ Edit("lock", GuardPayload(receipt, orientation,
                                          FreezeManifest(n, RolloutsOf(n), c)))
    BY Zenon DEF BuildLock
  <1> DEFINE any == [t \in 1 .. n |-> CHOOSE raw \in RolloutsOf(t) : TRUE]
             attempts == [t \in 1 .. n |->
                            Attempt(t, any[t].commit, any[t].model, RolloutsOf(t))]
             receipt == GateReceipt(attempts, Host)
             orientation == Orientation(RolloutsOf(n), SymmetryOrder[n])
             payload == GuardPayload(receipt, orientation, FreezeManifest(n, RolloutsOf(n), c))
  <1>2. attempts = [t \in 1 .. n |->
                      Attempt(t, (CHOOSE raw \in RolloutsOf(t) : TRUE).commit,
                                 (CHOOSE raw \in RolloutsOf(t) : TRUE).model, RolloutsOf(t))]
    OBVIOUS
  <1>3. \A t \in 1 .. n : /\ any[t] \in RolloutsOf(t)
                          /\ AttemptAccepted(t, any[t].commit, any[t].model, RolloutsOf(t))
    BY <1>1
  <1>4. /\ DecisionAccepted(attempts, Host) /\ LockAccepted(receipt, orientation)
        /\ Edit("lock", payload)
    BY <1>1, <1>2, Zenon
  <1> HIDE DEF any, orientation
  <1>5. Selects(receipt.selected, receipt.policy)
    BY <1>3, <1>4, LockSelects, Zenon DEF StudyInvariant
  <1>6. payload.task = receipt.selected /\ payload.policy = receipt.policy
    BY DEF GuardPayload
  <1> HIDE DEF payload, receipt
  <1>. QED  BY <1>4, <1>5, <1>6, FileWritten DEF BuildLock, Files

\* Calibration is fitted when it is complete.
LEMMA AnalyseKeeps == ASSUME StudyInvariant, Analyse PROVE StudyInvariant'
  <1>1. PICK fitted : /\ fitted.from = calibration
                      /\ work' = [work EXCEPT !.predictor = fitted, !.arrays = fitted]
    BY DEF Analyse
  <1>2. /\ authority # Nothing /\ CalibrationComplete
        /\ UNCHANGED <<world, git, gate, authority, calibration, locked>>
    BY DEF Analyse
  <1>3. FittedOnAll(fitted)
    BY <1>1, <1>2 DEF FittedOnAll, CalibrationComplete, StudyInvariant
  <1> DEFINE one == [work EXCEPT !["predictor"] = fitted]
             both == [one EXCEPT !["arrays"] = fitted]
  <1>4. TreeSound(one)
    BY <1>3, OtherFilesSound DEF StudyInvariant, Files
  <1>5. work' = both
    BY <1>1
  <1> HIDE DEF one
  <1>6. TreeSound(both)
    BY <1>4, OtherFilesSound DEF Files
  <1> HIDE DEF both
  <1>7. PICK x : x = both
    OBVIOUS
  <1>8. TreeSound(x)'
    BY <1>2, <1>6, <1>7, SoundStays
  <1>9. TreeSound(work)'
    BY <1>5, <1>7, <1>8
  <1>. QED  BY <1>2, <1>9, WorkWritten

\* The freeze hashes the lock and what was fitted.
LEMMA BuildFreezeKeeps == ASSUME StudyInvariant, BuildFreeze PROVE StudyInvariant'
  <1>1. PICK freeze : /\ Edit("freeze", freeze)
                      /\ freeze = [task |-> work.lock.task, policy |-> work.lock.policy,
                                   hashes |-> [file \in Hashed |-> work[file]]]
    BY DEF BuildFreeze
  <1>2. DOMAIN freeze.hashes = Hashed
    BY <1>1
  <1>. QED  BY <1>1, <1>2, FileWritten DEF BuildFreeze, Files

\* Bookkeeping is of no consequence.
LEMMA BookkeepingKeeps ==
    ASSUME StudyInvariant, PrepareLockedTest \/ MoveBookkeeping PROVE StudyInvariant'
  <1>1. PICK content : Edit("bookkeeping", content)
    BY DEF PrepareLockedTest, MoveBookkeeping
  <1>2. UNCHANGED <<world, git, gate, authority, calibration, locked>>
    BY DEF PrepareLockedTest, MoveBookkeeping
  <1>. QED  BY <1>1, <1>2, FileWritten DEF Files

-----------------------------------------------------------------------------
(* Git. *)

\* A commit adds a sound tree and changes none.
LEMMA CommitKeeps == ASSUME StudyInvariant, Commit PROVE StudyInvariant'
  <1>1. PICK content :
           commits' = Append(commits, [parent |-> head,
                                       tree |-> [work EXCEPT !.arrays = content]])
    <2>1. PICK forced \in BOOLEAN :
             commits' = Append(commits, [parent |-> head, tree |->
                           [work EXCEPT !.arrays = IF forced \/ Tree.arrays # Nothing
                                                   THEN @ ELSE Nothing]])
      BY DEF Commit
    <2>2. PICK content : content = IF forced \/ Tree.arrays # Nothing THEN work.arrays ELSE Nothing
      OBVIOUS
    <2>3. commits' = Append(commits, [parent |-> head, tree |-> [work EXCEPT !.arrays = content]])
      BY <2>1, <2>2
    <2>. QED  BY <2>3
  <1> DEFINE tree == [work EXCEPT !["arrays"] = content]
             c == [parent |-> head, tree |-> tree]
  <1>2. /\ head' = Len(commits')
        /\ UNCHANGED <<world, tags, work, raws, authority, calibration, locked>>
    BY DEF Commit, gate
  <1>3. commits' = Append(commits, c) /\ c.tree = tree
    BY <1>1
  <1>4. TreeSound(tree)
    BY OtherFilesSound DEF StudyInvariant, Files
  <1> HIDE DEF tree, c
  <1>5. /\ Len(commits) \in Nat /\ Len(commits') = Len(commits) + 1
        /\ \A i \in 1 .. Len(commits) : commits'[i] = commits[i]
        /\ commits'[Len(commits) + 1] = c
        /\ commits' \in Seq({commits'[i] : i \in 1 .. Len(commits')})
    <2>1. PICK d : d = c
      OBVIOUS
    <2>2. /\ Len(commits) \in Nat
          /\ Len(Append(commits, d)) = Len(commits) + 1
          /\ \A i \in 1 .. Len(commits) : Append(commits, d)[i] = commits[i]
          /\ Append(commits, d)[Len(commits) + 1] = d
          /\ Append(commits, d) \in
                Seq({Append(commits, d)[i] : i \in 1 .. Len(Append(commits, d))})
      BY HistoryGrows, Zenon DEF StudyInvariant
    <2>3. commits' = Append(commits, d)
      BY <1>3, <2>1
    <2>. QED  BY <2>1, <2>2, <2>3, Zenon
  <1>6. ASSUME NEW i \in 1 .. Len(commits') PROVE TreeSound(commits[i].tree)'
    <2>1. PICK x : x = commits'[i].tree
      OBVIOUS
    <2>2. CASE i \in 1 .. Len(commits)
      <3>1. TreeSound(commits[i].tree) /\ x = commits[i].tree
        BY <1>5, <2>1, <2>2 DEF StudyInvariant, HistorySound
      <3>2. TreeSound(x)'
        BY <1>2, <3>1, SoundStays
      <3>. QED  BY <2>1, <3>2
    <2>3. CASE i = Len(commits) + 1
      <3>1. x = tree
        BY <1>3, <1>5, <2>1, <2>3
      <3>2. TreeSound(x)'
        BY <1>2, <1>4, <3>1, SoundStays
      <3>. QED  BY <2>1, <3>2
    <2>. QED  BY <1>5, <2>2, <2>3
  <1>7. HistorySound'
    <2>1. DOMAIN tags' = {PreregTag, FreezeTag}
      BY <1>2 DEF StudyInvariant, HistorySound
    <2>2. head' \in 1 .. Len(commits')
      BY <1>2, <1>5
    <2>. QED  BY <1>5, <1>6, <2>1, <2>2 DEF HistorySound
  <1>8. \A a \in locked' : a.ran \in 1 .. Len(commits)
    BY <1>2 DEF StudyInvariant
  <1>9. LockedTestIsReproducible'
    BY <1>2, <1>5, <1>8 DEF StudyInvariant, LockedTestIsReproducible
  <1>10. \A a \in locked' : a.ran \in 1 .. Len(commits')
    BY <1>5, <1>8
  <1>. QED  BY <1>2, <1>7, <1>9, <1>10, PartsStay DEF StudyInvariant

\* A checkout is of a sound tree.
LEMMA CheckoutKeeps == ASSUME StudyInvariant, Checkout PROVE StudyInvariant'
  <1>1. PICK c \in DOMAIN commits \ {head} :
         /\ head' = c
         /\ work' = [commits[c].tree EXCEPT !.arrays =
                        IF @ = Nothing /\ Tree.arrays = Nothing THEN work.arrays ELSE @]
    BY DEF Checkout
  <1>2. PICK content : content = IF commits[c].tree.arrays = Nothing /\ Tree.arrays = Nothing
                                 THEN work.arrays ELSE commits[c].tree.arrays
    OBVIOUS
  <1>3. PICK x : x = [commits[c].tree EXCEPT !["arrays"] = content]
    OBVIOUS
  <1>4. c \in 1 .. Len(commits)
    BY DEF StudyInvariant, HistorySound
  <1>5. TreeSound(commits[c].tree)
    BY <1>4 DEF StudyInvariant, HistorySound
  <1>6. TreeSound(x)
    BY <1>3, <1>5, OtherFilesSound DEF Files
  <1>7. UNCHANGED <<world, commits, tags, raws, authority, calibration, locked>>
    BY DEF Checkout, gate
  <1>8. TreeSound(work)'
    <2>1. TreeSound(x)' /\ work' = x
      BY <1>1, <1>2, <1>3, <1>6, <1>7, SoundStays
    <2>. QED  BY <2>1
  <1>9. HistorySound'
    <2>1. ASSUME NEW i \in 1 .. Len(commits') PROVE TreeSound(commits[i].tree)'
      <3>1. PICK y : y = commits[i].tree
        OBVIOUS
      <3>2. TreeSound(y)
        BY <1>7, <3>1 DEF StudyInvariant, HistorySound
      <3>3. TreeSound(y)'
        BY <1>7, <3>2, SoundStays
      <3>. QED  BY <1>7, <3>1, <3>3
    <2>. QED  BY <1>1, <1>4, <1>7, <2>1 DEF StudyInvariant, HistorySound
  <1>10. LockedTestIsReproducible' /\ (\A a \in locked : a.ran \in 1 .. Len(commits))'
    BY <1>7 DEF StudyInvariant, LockedTestIsReproducible
  <1>. QED  BY <1>7, <1>8, <1>9, <1>10, PartsStay DEF StudyInvariant

\* A tag does not move, and the freeze tag is there before a Locked Test rollout is.
LEMMA TagKeeps ==
    ASSUME StudyInvariant, Tag(PreregTag) \/ Tag(FreezeTag) PROVE StudyInvariant'
  <1>1. PICK tag \in {PreregTag, FreezeTag} : Tag(tag)
    OBVIOUS
  <1>2. /\ tags[tag] = Nothing /\ tags' = [tags EXCEPT ![tag] = head]
        /\ UNCHANGED <<world, commits, head, work, raws, authority, calibration, locked>>
    BY <1>1 DEF Tag, gate
  <1>3. \A a \in locked : a.ran # Nothing
    BY StudyAssumption DEF StudyInvariant
  <1>4. locked # {} => tags'[FreezeTag] = tags[FreezeTag]
    BY <1>2, <1>3 DEF StudyInvariant, HistorySound, LockedTestIsReproducible
  <1>5. LockedTestIsReproducible' /\ (\A a \in locked : a.ran \in 1 .. Len(commits))'
    BY <1>2, <1>4 DEF StudyInvariant, LockedTestIsReproducible
  <1>6. HistorySound'
    <2>1. ASSUME NEW i \in 1 .. Len(commits') PROVE TreeSound(commits[i].tree)'
      <3>1. PICK y : y = commits[i].tree
        OBVIOUS
      <3>2. TreeSound(y)
        BY <1>2, <3>1 DEF StudyInvariant, HistorySound
      <3>3. TreeSound(y)'
        BY <1>2, <3>2, SoundStays
      <3>. QED  BY <1>2, <3>1, <3>3
    <2>2. DOMAIN tags' = {PreregTag, FreezeTag}
      BY <1>2 DEF StudyInvariant, HistorySound
    <2>. QED  BY <1>2, <2>1, <2>2 DEF StudyInvariant, HistorySound
  <1>. QED  BY <1>2, <1>5, <1>6, PartsStay DEF StudyInvariant

-----------------------------------------------------------------------------
(* The splits. *)

\* A rollout is recorded with what the simulator did.
LEMMA DiscoveryKeeps ==
    ASSUME StudyInvariant,
           StartDiscovery \/ ManifestDiscovery \/ FinishDiscovery \/ NewArtifactRoot
    PROVE  StudyInvariant'
  <1>1. UNCHANGED <<world, git, work, authority, calibration, locked>>
    BY DEF StartDiscovery, ManifestDiscovery, FinishDiscovery, NewArtifactRoot
  <1>2. IsFiniteSet(raws') /\ (\A raw \in raws : RawTrue(raw))'
    <2>1. CASE UNCHANGED raws
      BY <1>1, <2>1, PartsStay
    <2>2. CASE raws' = {}
      BY <2>2, FS_EmptySet
    <2>3. CASE FinishDiscovery /\ raws' # raws
      <3>1. PICK raw : /\ raws' = raws \cup {raw}
                       /\ raw.episode = running.episode /\ raw.model = work.model
                       /\ raw.valid = Outcome(world, work.model, running.episode).valid
                       /\ raw.success = Outcome(world, work.model, running.episode).success
        BY <2>3 DEF FinishDiscovery
      <3>2. /\ raw.model \in Models
            /\ raw.valid = Outcome(world, raw.model, raw.episode).valid
            /\ raw.success = Outcome(world, raw.model, raw.episode).success
        BY <3>1 DEF StudyInvariant, TreeSound
      <3>3. IsFiniteSet(raws')
        BY <3>1, FS_AddElement DEF StudyInvariant
      <3>4. ASSUME NEW r \in raws' PROVE RawTrue(r)'
        BY <1>1, <3>1, <3>2 DEF RawTrue, StudyInvariant
      <3>. QED  BY <3>3, <3>4
    <2>. QED  BY <2>1, <2>2, <2>3 DEF StartDiscovery, ManifestDiscovery, NewArtifactRoot
  <1>. QED  BY <1>1, <1>2, PartsStay DEF StudyInvariant

\* The guard opens Calibration for what a lock selects.
LEMMA AuthorizeKeeps == ASSUME StudyInvariant, AuthorizeCalibration PROVE StudyInvariant'
  <1>1. /\ authority = Nothing
        /\ UNCHANGED <<world, git, work, raws, calibration, locked>>
    BY DEF AuthorizeCalibration, gate
  <1>2. PICK t \in 1 .. Tasks, host \in GuardHosts :
         /\ CalibrationReady(t, host)
         /\ authority' = [task |-> t, commit |-> head, policy |-> work.model.policy]
    BY DEF AuthorizeCalibration
  <1>3. work.lock # Nothing /\ work.lock.task = t /\ work.lock.policy = work.model.policy
    BY <1>2 DEF CalibrationReady, LockRead, Tracked
  <1>4. Selects(t, work.model.policy)
    BY <1>3 DEF StudyInvariant, TreeSound
  <1>5. CalibrationStandsOnOneStudy'
    <2>1. PICK policy : policy = work.model.policy
      OBVIOUS
    <2>2. Selects(t, policy)'
      BY <1>1, <1>4, <2>1, SelectsStays
    <2>3. authority'.task = t /\ authority'.policy = policy
      BY <1>2, <2>1
    <2>. QED  BY <2>2, <2>3 DEF CalibrationStandsOnOneStudy
  <1>. QED  BY <1>1, <1>5, PartsStay DEF StudyInvariant

\* A Calibration artifact carries the authority's commit.
LEMMA CalibrationKeeps == ASSUME StudyInvariant, CalibrationCell PROVE StudyInvariant'
  <1>1. /\ authority # Nothing
        /\ UNCHANGED <<world, git, work, raws, authority, locked>>
    BY DEF CalibrationCell, gate
  <1>2. PICK e : calibration' = calibration \cup {[episode |-> e, commit |-> authority.commit]}
    BY DEF CalibrationCell
  <1>3. (\A a \in calibration : authority # Nothing /\ a.commit = authority.commit)'
    BY <1>1, <1>2 DEF StudyInvariant
  <1>. QED  BY <1>1, <1>3, PartsStay DEF StudyInvariant

\* A Locked Test rollout runs at the tagged commit, on tracked files that are as frozen.
LEMMA LockedTestKeeps == ASSUME StudyInvariant, LockedTestCell PROVE StudyInvariant'
  <1>1. /\ authority # Nothing /\ LockedTestReady(1)
        /\ UNCHANGED <<world, git, work, raws, authority, calibration>>
    BY DEF LockedTestCell, gate
  <1>2. PICK e : locked' = locked \cup {[episode |-> e, commit |-> authority.commit, ran |-> head]}
    BY DEF LockedTestCell
  <1>3. head \in 1 .. Len(commits) /\ TreeSound(Tree) /\ TreeSound(work)
    BY DEF StudyInvariant, HistorySound, Tree
  <1>4. head = tags[FreezeTag]
    BY <1>1 DEF LockedTestReady, LockRead, Tagged
  <1>5. /\ work.freeze # Nothing /\ DOMAIN work.freeze.hashes = Hashed
        /\ \A file \in Hashed : /\ Tree[file] # Nothing
                                /\ work[file] = work.freeze.hashes[file]
    BY <1>1, <1>3 DEF LockedTestReady, LockRead, Tracked, TreeSound, HashesMatch
  <1>6. \A file \in Files : work[file] = Tree[file]
    <2>1. Tree.arrays # Nothing
      BY <1>5 DEF Hashed
    <2>2. Visible = Files
      BY <1>3, <2>1 DEF Visible, TreeSound
    <2>3. Clean
      BY <1>1 DEF LockedTestReady, LockRead
    <2>. QED  BY <2>2, <2>3 DEF Clean
  <1>7. \A file \in Hashed : Tree[file] = Tree.freeze.hashes[file]
    <2>1. Hashed \subseteq Files /\ Tree.freeze = work.freeze
      BY <1>6 DEF Hashed, Files
    <2>. QED  BY <1>5, <1>6, <2>1
  <1>8. FittedOnAll(Tree.predictor)
    <2>1. Tree.predictor # Nothing
      BY <1>5 DEF Hashed
    <2>. QED  BY <1>3, <2>1 DEF TreeSound
  <1>9. LockedTestIsReproducible'
    <2> SUFFICES ASSUME NEW a \in locked'
                 PROVE  /\ a.ran = tags[FreezeTag]
                        /\ \A file \in Hashed : commits[a.ran].tree[file]
                                                  = commits[a.ran].tree.freeze.hashes[file]
                        /\ {c.episode : c \in commits[a.ran].tree.predictor.from}
                              = Manifest("calibration", 1)
                        /\ \A c \in commits[a.ran].tree.predictor.from : c.commit = a.commit
      BY <1>1, Zenon DEF LockedTestIsReproducible, git
    <2>1. CASE a \in locked
      BY <2>1 DEF StudyInvariant, LockedTestIsReproducible
    <2>2. CASE a = [episode |-> e, commit |-> authority.commit, ran |-> head]
      <3>1. a.ran = head /\ a.commit = authority.commit
        BY <2>2
      <3>2. commits[a.ran].tree = Tree
        BY <3>1 DEF Tree
      <3>. QED  BY <1>4, <1>7, <1>8, <3>1, <3>2 DEF FittedOnAll
    <2>. QED  BY <1>2, <2>1, <2>2
  <1>10. \A a \in locked' : a.ran \in 1 .. Len(commits')
    BY <1>1, <1>2, <1>3 DEF StudyInvariant, git
  <1>. QED  BY <1>1, <1>9, <1>10, PartsStay DEF StudyInvariant

-----------------------------------------------------------------------------
(* The theorems. *)

\* The study starts with one commit, and nothing made.
LEMMA StudyStarts == Init => StudyInvariant
  <1> SUFFICES ASSUME Init PROVE StudyInvariant
    OBVIOUS
  <1>1. TreeSound(work)
    BY StudyAssumption DEF Init, TreeSound, Files
  <1>2. HistorySound
    <2>1. commits = <<[parent |-> 0, tree |-> work]>> /\ head = 1
      BY DEF Init
    <2>2. Len(commits) = 1 /\ commits[1] = [parent |-> 0, tree |-> work]
      BY <2>1
    <2>3. commits \in Seq({commits[c] : c \in 1 .. Len(commits)})
      BY <2>1, <2>2
    <2>4. \A c \in 1 .. Len(commits) : commits[c].tree = work
      BY <2>2
    <2>5. \A c \in 1 .. Len(commits) : TreeSound(commits[c].tree)
      BY <1>1, <2>4
    <2>6. DOMAIN tags = {PreregTag, FreezeTag}
      BY DEF Init
    <2>. QED  BY <2>1, <2>2, <2>3, <2>5, <2>6 DEF HistorySound
  <1>. QED  BY <1>1, <1>2, FS_EmptySet
            DEF Init, StudyInvariant, CalibrationStandsOnOneStudy, LockedTestIsReproducible

\* Every step keeps the invariant.
LEMMA StepKeeps == StudyInvariant /\ [Next]_vars => StudyInvariant'
  <1> SUFFICES ASSUME StudyInvariant, [Next]_vars PROVE StudyInvariant'
    OBVIOUS
  <1>1. CASE Next
    BY <1>1, ChangeModelKeeps, WithdrawFreezeKeeps, CommitKeeps, CheckoutKeeps, TagKeeps,
       DiscoveryKeeps, BuildLockKeeps, AuthorizeKeeps, CalibrationKeeps, AnalyseKeeps,
       BuildFreezeKeeps, BookkeepingKeeps, LockedTestKeeps DEF Next
  <1>2. CASE UNCHANGED vars
    <2>1. UNCHANGED <<world, git, work, raws, authority, calibration, locked>>
      BY <1>2 DEF vars, git
    <2>. QED  BY <2>1, PartsStay DEF StudyInvariant
  <1>. QED  BY <1>1, <1>2

\* What holds of trees, rollouts and receipts holds however the operator works.
THEOREM StudyInvariantHolds == Spec => []StudyInvariant
  BY StudyStarts, StepKeeps, PTL DEF Spec

\* Calibration is only opened for the task that the simulator selects under one policy.
THEOREM CalibrationStands == Spec => []CalibrationStandsOnOneStudy
  <1>1. StudyInvariant => CalibrationStandsOnOneStudy
    BY DEF StudyInvariant
  <1>. QED  BY <1>1, StudyInvariantHolds, PTL

\* Every Locked Test rollout can be had again from the commit of the freeze tag.
THEOREM LockedTestReproduces == Spec => []LockedTestIsReproducible
  <1>1. StudyInvariant => LockedTestIsReproducible
    BY DEF StudyInvariant
  <1>. QED  BY <1>1, StudyInvariantHolds, PTL

=====================================================================================
