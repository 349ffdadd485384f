----------------------------- MODULE CallProofs -----------------------------
(***************************************************************************)
(* Theorems about CallLedger, for any calls, kinds, tables and faults, and *)
(* about the CircuitBreaker that every call passes (the last part).        *)
(***************************************************************************)
EXTENDS CallLedger, CircuitBreaker, SumTheorems

(***************************************************************************)
(* What rows cost.                                                         *)
(***************************************************************************)
Costs(S) == [e \in S |-> e.cost]
KeysOf(S, K) == {K[e] : e \in S}
Priced(S) == IsFiniteSet(S) /\ \A e \in S : e.cost \in Nat

LEMMA CostIsSum ==
  ASSUME NEW S, IsFiniteSet(S)
  PROVE  Cost(S) = SumFunctionOnSet(Costs(S), S)
<1> DEFINE E(it) == it = [s \in SUBSET S |->
                            IF s = {} THEN 0 ELSE Pick(s).cost + it[s \ {Pick(s)}]]
           it == CHOOSE it : E(it)
<1>1. \A f : E(f) <=> Sums(f, Costs(S), S)
  <2> SUFFICES ASSUME NEW f PROVE E(f) <=> Sums(f, Costs(S), S)
    OBVIOUS
  <2>1. \A s \in SUBSET S : s # {} => Pick(s) \in S /\ Costs(S)[Pick(s)] = Pick(s).cost
    BY DEF Pick, Costs
  <2> QED BY <2>1 DEF Sums, Adds
<1>2. \E f : E(f)
  BY <1>1, AddsUp
<1>3. E(it)
  BY <1>2
<1>4. Cost(S) = it[S]
  BY DEF Cost, MapThenSumSet, MapThenFoldSet, Pick
<1> HIDE DEF E, it
<1>5. Sums(it, Costs(S), S)
  BY <1>1, <1>3
<1>6. PICK jt : Sums(jt, Costs(S), S) /\ SumFunctionOnSet(Costs(S), S) = jt[S]
  BY SumAdds
<1>7. it[S] = jt[S]
  BY <1>5, <1>6, AddsAgree
<1> QED BY <1>4, <1>6, <1>7

LEMMA CostIn ==
  ASSUME NEW S, Priced(S)
  PROVE  /\ Cost(S) \in Nat
         /\ \A T \in SUBSET S : Priced(T) /\ Cost(T) = SumFunctionOnSet(Costs(S), T)
<1>1. ASSUME NEW T \in SUBSET S
      PROVE  Priced(T) /\ Cost(T) = SumFunctionOnSet(Costs(S), T) /\ Cost(T) \in Nat
  <2>1. Priced(T)
    BY FS_Subset DEF Priced
  <2>2. \A e \in T : Costs(T)[e] = Costs(S)[e] /\ Costs(T)[e] \in Nat
    BY <2>1 DEF Costs, Priced
  <2>3. SumFunctionOnSet(Costs(T), T) = SumFunctionOnSet(Costs(S), T)
    BY <2>1, <2>2, SumsAgree DEF Priced
  <2>4. SumFunctionOnSet(Costs(T), T) \in Nat
    BY <2>1, <2>2, SumIn DEF Priced
  <2> QED BY <2>1, <2>3, <2>4, CostIsSum DEF Priced
<1> QED BY <1>1

LEMMA CostOfNothing == Cost({}) = 0
  BY CostIsSum, SumOfNothing, FS_EmptySet

LEMMA CostWithOne ==
  ASSUME NEW S, Priced(S), NEW e, e \notin S, e.cost \in Nat
  PROVE  Priced(S \cup {e}) /\ Cost(S \cup {e}) = Cost(S) + e.cost
<1> DEFINE A == S \cup {e}
<1>1. Priced(A) /\ e \in A /\ S \subseteq A
  BY FS_AddElement DEF Priced
<1>2. \A x \in A : Costs(A)[x] \in Int /\ Costs(A)[x] = x.cost
  BY <1>1 DEF Costs, Priced
<1>3. Cost(S) = SumFunctionOnSet(Costs(A), S) /\ Cost(A) = SumFunctionOnSet(Costs(A), A)
  <2> HIDE DEF A
  <2> QED BY <1>1, CostIn
<1>4. SumFunctionOnSet(Costs(A), S \cup {e}) = SumFunctionOnSet(Costs(A), S) + Costs(A)[e]
  <2>1. IsFiniteSet(S) /\ \A x \in S \cup {e} : Costs(A)[x] \in Int
    BY <1>2 DEF Priced
  <2> HIDE DEF A
  <2> QED BY <2>1, SumWithOne
<1> QED BY <1>1, <1>2, <1>3, <1>4

LEMMA CostOfDisjoint ==
  ASSUME NEW S, Priced(S), NEW A, NEW B, S = A \cup B, A \cap B = {}
  PROVE  Cost(S) = Cost(A) + Cost(B)
<1>1. /\ IsFiniteSet(A) /\ IsFiniteSet(B) /\ A \subseteq S /\ B \subseteq S
      /\ \A x \in A \cup B : Costs(S)[x] \in Int
  BY FS_Subset DEF Priced, Costs
<1>2. SumFunctionOnSet(Costs(S), A \cup B)
        = SumFunctionOnSet(Costs(S), A) + SumFunctionOnSet(Costs(S), B)
  BY <1>1, SumOfDisjoint
<1> QED BY <1>1, <1>2, CostIn

\* Group by group, for any key.
LEMMA CostByKey ==
  ASSUME NEW S, Priced(S), NEW K, NEW D, D = KeysOf(S, K),
         NEW h, \A k \in D : h[k] = Cost(Group(S, K, k))
  PROVE  IsFiniteSet(D) /\ SumFunctionOnSet(h, D) = Cost(S)
<1>1. IsFiniteSet(D)
  <2> DEFINE f == [e \in S |-> K[e]]
  <2>1. f \in Surjection(S, D)
    BY DEF Surjection, KeysOf
  <2> QED BY <2>1, FS_Surjection DEF Priced
<1>2. \A k \in D : h[k] = SumFunctionOnSet(Costs(S), Group(S, K, k))
  <2>1. \A k : Group(S, K, k) \in SUBSET S
    BY DEF Group
  <2> QED BY <2>1, CostIn
<1>3. IsFiniteSet(S) /\ (\A e \in S : Costs(S)[e] \in Int) /\ \A e \in S : K[e] \in D
  BY DEF Priced, Costs, KeysOf
<1>4. SumFunctionOnSet(h, D) = SumFunctionOnSet(Costs(S), S)
  BY <1>1, <1>2, <1>3, SumByKey
<1> QED BY <1>1, <1>3, <1>4, CostIsSum

(***************************************************************************)
(* The tables of the administration.                                       *)
(***************************************************************************)

\* What a table adds up to is a sum over its keys.
LEMMA GroupedIsSum ==
  ASSUME NEW groups, IsFiniteSet(DOMAIN groups)
  PROVE  GroupedCost(groups)
           = SumFunctionOnSet([k \in DOMAIN groups |-> groups[k].cost], DOMAIN groups)
<1> DEFINE D == DOMAIN groups
           g == [k \in D |-> groups[k].cost]
           E(it) == it = [s \in SUBSET D |->
                            IF s = {} THEN 0 ELSE groups[Pick(s)].cost + it[s \ {Pick(s)}]]
           it == CHOOSE it : E(it)
<1>1. \A f : E(f) <=> Sums(f, g, D)
  <2> SUFFICES ASSUME NEW f PROVE E(f) <=> Sums(f, g, D)
    OBVIOUS
  <2>1. \A s \in SUBSET D : s # {} => Pick(s) \in D /\ g[Pick(s)] = groups[Pick(s)].cost
    BY DEF Pick
  <2> QED BY <2>1 DEF Sums, Adds
<1>2. \E f : E(f)
  <2> HIDE DEF E, g
  <2> QED BY <1>1, AddsUp
<1>3. E(it)
  BY <1>2
<1>4. GroupedCost(groups) = it[D]
  BY DEF GroupedCost, MapThenSumSet, MapThenFoldSet, Pick
<1> HIDE DEF E, it, g
<1>5. Sums(it, g, D)
  BY <1>1, <1>3
<1>6. PICK jt : Sums(jt, g, D) /\ SumFunctionOnSet(g, D) = jt[D]
  BY SumAdds
<1>7. it[D] = jt[D]
  BY <1>5, <1>6, AddsAgree
<1> QED BY <1>4, <1>6, <1>7 DEF g

LEMMA MergedIsSum ==
  ASSUME NEW groups, IsFiniteSet(DOMAIN groups)
  PROVE  MergedCost(groups)
           = SumFunctionOnSet([k \in DOMAIN groups |->
                                 groups[k].llm.cost + groups[k].external.cost], DOMAIN groups)
<1> DEFINE D == DOMAIN groups
           both(k) == groups[k].llm.cost + groups[k].external.cost
           g == [k \in D |-> both(k)]
           E(it) == it = [s \in SUBSET D |->
                            IF s = {} THEN 0 ELSE both(Pick(s)) + it[s \ {Pick(s)}]]
           it == CHOOSE it : E(it)
<1>1. \A f : E(f) <=> Sums(f, g, D)
  <2> SUFFICES ASSUME NEW f PROVE E(f) <=> Sums(f, g, D)
    OBVIOUS
  <2>1. \A s \in SUBSET D : s # {} => Pick(s) \in D /\ g[Pick(s)] = both(Pick(s))
    BY DEF Pick
  <2> HIDE DEF both
  <2> QED BY <2>1 DEF Sums, Adds
<1>2. \E f : E(f)
  <2> HIDE DEF E, g
  <2> QED BY <1>1, AddsUp
<1>3. E(it)
  BY <1>2
<1>4. MergedCost(groups) = it[D]
  BY DEF MergedCost, MapThenSumSet, MapThenFoldSet, Pick
<1> HIDE DEF E, it, g
<1>5. Sums(it, g, D)
  BY <1>1, <1>3
<1>6. PICK jt : Sums(jt, g, D) /\ SumFunctionOnSet(g, D) = jt[D]
  BY SumAdds
<1>7. it[D] = jt[D]
  BY <1>5, <1>6, AddsAgree
<1> QED BY <1>4, <1>6, <1>7 DEF g

\* A table with a line for each key of its rows.
Lines(G, S, K) ==
  /\ DOMAIN G = KeysOf(S, K)
  /\ \A k \in DOMAIN G : G[k].cost = Cost(Group(S, K, k))

LEMMA LinesAddUp ==
  ASSUME NEW S, Priced(S), NEW K, NEW G, Lines(G, S, K)
  PROVE  GroupedCost(G) = Cost(S)
<1> DEFINE D == DOMAIN G
           h == [k \in D |-> G[k].cost]
<1>1. D = KeysOf(S, K) /\ \A k \in D : h[k] = Cost(Group(S, K, k))
  BY DEF Lines
<1>2. IsFiniteSet(D) /\ SumFunctionOnSet(h, D) = Cost(S)
  <2> HIDE DEF D, h
  <2> QED BY <1>1, CostByKey
<1> QED BY <1>2, GroupedIsSum

\* A key without rows costs nothing.
LEMMA LineOf ==
  ASSUME NEW S, NEW K, NEW G, Lines(G, S, K), NEW k
  PROVE  Of(G, k).cost = Cost(Group(S, K, k))
<1>1. CASE k \in DOMAIN G
  BY <1>1 DEF Of, Lines
<1>2. CASE k \notin DOMAIN G
  <2>1. Group(S, K, k) = {}
    BY <1>2 DEF Lines, Group, KeysOf
  <2> QED BY <1>2, <2>1, CostOfNothing DEF Of
<1> QED BY <1>1, <1>2

\* The lines of both tables, key by key.
TwoTables(S) == \A e \in S : e.about.source \in {"llm", "external"}

LEMMA MergedAddUp ==
  ASSUME NEW S, Priced(S), TwoTables(S), NEW K, NEW L, NEW X,
         Lines(L, Llm(S), K), Lines(X, External(S), K)
  PROVE  /\ MergedCost(Merged(L, X)) = Cost(S)
         /\ DOMAIN Merged(L, X) = KeysOf(S, K)
         /\ \A k \in KeysOf(S, K) :
              Merged(L, X)[k].llm.cost + Merged(L, X)[k].external.cost = Cost(Group(S, K, k))
<1> DEFINE M == Merged(L, X)
           D == KeysOf(S, K)
<1>1. S = Llm(S) \cup External(S) /\ Llm(S) \cap External(S) = {}
  BY DEF Llm, External, TwoTables
<1>2. DOMAIN M = D
  BY <1>1 DEF Merged, Lines, KeysOf
<1>3. ASSUME NEW k \in D
      PROVE  M[k].llm.cost + M[k].external.cost = Cost(Group(S, K, k))
  <2>1. M[k].llm = Of(L, k) /\ M[k].external = Of(X, k)
    BY <1>2 DEF Merged
  <2>2. /\ Of(L, k).cost = Cost(Group(Llm(S), K, k))
        /\ Of(X, k).cost = Cost(Group(External(S), K, k))
    BY LineOf
  <2>3. /\ Group(S, K, k) = Group(Llm(S), K, k) \cup Group(External(S), K, k)
        /\ Group(Llm(S), K, k) \cap Group(External(S), K, k) = {}
        /\ Group(S, K, k) \in SUBSET S
    BY <1>1 DEF Group
  <2>4. Priced(Group(S, K, k))
    BY <2>3, CostIn
  <2>5. Cost(Group(S, K, k)) = Cost(Group(Llm(S), K, k)) + Cost(Group(External(S), K, k))
    BY <2>3, <2>4, CostOfDisjoint
  <2> QED BY <2>1, <2>2, <2>5
<1> DEFINE h == [k \in D |-> M[k].llm.cost + M[k].external.cost]
<1>4. \A k \in D : h[k] = Cost(Group(S, K, k))
  BY <1>3
<1>5. IsFiniteSet(D) /\ SumFunctionOnSet(h, D) = Cost(S)
  <2> HIDE DEF h
  <2> QED BY <1>4, CostByKey
<1>6. MergedCost(M) = SumFunctionOnSet(h, D)
  <2>1. DOMAIN M = D /\ IsFiniteSet(DOMAIN M)
    BY <1>2, <1>5
  <2>2. MergedCost(M) = SumFunctionOnSet(
          [k \in DOMAIN M |-> M[k].llm.cost + M[k].external.cost], DOMAIN M)
    <3> HIDE DEF M
    <3> QED BY <2>1, MergedIsSum
  <2> HIDE DEF M
  <2> QED BY <2>1, <2>2
<1> QED BY <1>2, <1>3, <1>5, <1>6

RowsOfUser(S, u) == {e \in Scoped(S) : Owner[e.about.experiment] = u}

LEMMA ScopedRows ==
  ASSUME NEW S, Priced(S), TwoTables(S)
  PROVE  Priced(Scoped(S)) /\ TwoTables(Scoped(S))
<1>1. Scoped(S) \in SUBSET S
  BY DEF Scoped
<1> QED BY <1>1, CostIn DEF TwoTables

\* Each table, over the keys that rollup.py groups by.
LEMMA CategoriesAddUp ==
  ASSUME NEW S, Priced(S), TwoTables(S)
  PROVE  MergedCost(ByCategory(S)) = Cost(S)
<1> DEFINE K == [e \in S |-> Category[e.about.phase]]
           G(T) == [k \in {Category[e.about.phase] : e \in T} |->
                      LET B == {e \in T : Category[e.about.phase] = k}
                      IN [cost |-> Cost(B), calls |-> Cardinality(B)]]
<1>1. ByCategory(S) = Merged(G(Llm(S)), G(External(S)))
  BY DEF ByCategory, Grouped
<1>2. ASSUME NEW T \in SUBSET S PROVE Lines(G(T), T, K)
  <2>1. \A k : {e \in T : Category[e.about.phase] = k} = Group(T, K, k)
    BY DEF Group
  <2>2. {Category[e.about.phase] : e \in T} = KeysOf(T, K)
    BY DEF KeysOf
  <2> QED BY <2>1, <2>2 DEF Lines
<1>3. Lines(G(Llm(S)), Llm(S), K) /\ Lines(G(External(S)), External(S), K)
  <2>1. Llm(S) \in SUBSET S /\ External(S) \in SUBSET S
    BY DEF Llm, External
  <2> HIDE DEF G, K
  <2> QED BY <1>2, <2>1
<1> HIDE DEF G, K
<1> QED BY <1>1, <1>3, MergedAddUp

LEMMA ExperimentsAddUp ==
  ASSUME NEW S, Priced(S), TwoTables(S)
  PROVE  MergedCost(ByExperiment(S)) = Cost(Scoped(S))
<1> DEFINE K == [e \in S |-> e.about.experiment]
           G(T) == [k \in {e.about.experiment : e \in T} |->
                      LET B == {e \in T : e.about.experiment = k}
                      IN [cost |-> Cost(B), calls |-> Cardinality(B)]]
<1>1. ByExperiment(S) = Merged(G(Llm(Scoped(S))), G(External(Scoped(S))))
  BY DEF ByExperiment, Grouped
<1>2. ASSUME NEW T \in SUBSET S PROVE Lines(G(T), T, K)
  <2>1. \A k : {e \in T : e.about.experiment = k} = Group(T, K, k)
    BY DEF Group
  <2>2. {e.about.experiment : e \in T} = KeysOf(T, K)
    BY DEF KeysOf
  <2> QED BY <2>1, <2>2 DEF Lines
<1>3. Lines(G(Llm(Scoped(S))), Llm(Scoped(S)), K) /\ Lines(G(External(Scoped(S))), External(Scoped(S)), K)
  <2>1. Llm(Scoped(S)) \in SUBSET S /\ External(Scoped(S)) \in SUBSET S
    BY DEF Llm, External, Scoped
  <2> HIDE DEF G, K
  <2> QED BY <1>2, <2>1
<1> HIDE DEF G, K
<1> QED BY <1>1, <1>3, ScopedRows, MergedAddUp

LEMMA UsersAddUp ==
  ASSUME NEW S, Priced(S), TwoTables(S)
  PROVE  /\ MergedCost(ByUser(S)) = Cost(Scoped(S))
         /\ \A u \in DOMAIN ByUser(S) :
              ByUser(S)[u].llm.cost + ByUser(S)[u].external.cost
                = Cost(RowsOfUser(S, u))
<1> DEFINE K == [e \in S |-> Owner[e.about.experiment]]
           G(T) == [k \in {Owner[e.about.experiment] : e \in T} |->
                      LET B == {e \in T : Owner[e.about.experiment] = k}
                      IN [cost |-> Cost(B), calls |-> Cardinality(B)]]
<1>1. ByUser(S) = Merged(G(Llm(Scoped(S))), G(External(Scoped(S))))
  BY DEF ByUser, Grouped
<1>2. ASSUME NEW T \in SUBSET S PROVE Lines(G(T), T, K)
  <2>1. \A k : {e \in T : Owner[e.about.experiment] = k} = Group(T, K, k)
    BY DEF Group
  <2>2. {Owner[e.about.experiment] : e \in T} = KeysOf(T, K)
    BY DEF KeysOf
  <2> QED BY <2>1, <2>2 DEF Lines
<1>3. Lines(G(Llm(Scoped(S))), Llm(Scoped(S)), K) /\ Lines(G(External(Scoped(S))), External(Scoped(S)), K)
  <2>1. Llm(Scoped(S)) \in SUBSET S /\ External(Scoped(S)) \in SUBSET S
    BY DEF Llm, External, Scoped
  <2> HIDE DEF G, K
  <2> QED BY <1>2, <2>1
<1>4. \A k : Group(Scoped(S), K, k) = RowsOfUser(S, k)
  BY DEF Group, Scoped, RowsOfUser
<1> HIDE DEF G, K
<1>5. LET M == ByUser(S) IN
        /\ MergedCost(M) = Cost(Scoped(S)) /\ DOMAIN M = KeysOf(Scoped(S), K)
        /\ \A u \in KeysOf(Scoped(S), K) :
             M[u].llm.cost + M[u].external.cost = Cost(Group(Scoped(S), K, u))
  BY <1>1, <1>3, ScopedRows, MergedAddUp
<1> QED BY <1>4, <1>5

LEMMA ProvidersAddUp ==
  ASSUME NEW S, Priced(S)
  PROVE  GroupedCost(ByProvider(S)) = Cost(S)
<1> DEFINE R == S
           K == [e \in R |-> <<e.about.source, e.about.provider>>]
           G == [k \in {<<e.about.source, e.about.provider>> : e \in R} |->
                   LET B == {e \in R : <<e.about.source, e.about.provider>> = k}
                   IN [cost |-> Cost(B), calls |-> Cardinality(B)]]
<1>1. ByProvider(S) = G
  BY DEF ByProvider, Grouped
<1>2. Lines(G, R, K)
  <2>1. \A k : {e \in R : <<e.about.source, e.about.provider>> = k} = Group(R, K, k)
    BY DEF Group
  <2>2. {<<e.about.source, e.about.provider>> : e \in R} = KeysOf(R, K)
    BY DEF KeysOf
  <2> HIDE DEF K, R
  <2> QED BY <2>1, <2>2 DEF Lines
<1>3. Priced(R)
  <2>1. R \in SUBSET S
    BY DEF Scoped
  <2> HIDE DEF R
  <2> QED BY <2>1, CostIn
<1>4. GroupedCost(G) = Cost(R)
  <2> HIDE DEF G, K, R
  <2> QED BY <1>2, <1>3, LinesAddUp
<1>5. R = S
  OBVIOUS
<1> HIDE DEF G, R
<1> QED BY <1>1, <1>4, <1>5

LEMMA PhasesAddUp ==
  ASSUME NEW S, Priced(S), NEW u
  PROVE  GroupedCost(Breakdown(S, u)) = Cost(RowsOfUser(S, u))
<1> DEFINE R == {e \in Scoped(S) : Owner[e.about.experiment] = u}
           K == [e \in R |-> <<e.about.experiment, e.about.source, e.about.phase>>]
           G == [k \in {<<e.about.experiment, e.about.source, e.about.phase>> : e \in R} |->
                   LET B == {e \in R : <<e.about.experiment, e.about.source, e.about.phase>> = k}
                   IN [cost |-> Cost(B), calls |-> Cardinality(B)]]
<1>1. Breakdown(S, u) = G
  BY DEF Breakdown, Grouped
<1>2. Lines(G, R, K)
  <2>1. \A k : {e \in R : <<e.about.experiment, e.about.source, e.about.phase>> = k} = Group(R, K, k)
    BY DEF Group
  <2>2. {<<e.about.experiment, e.about.source, e.about.phase>> : e \in R} = KeysOf(R, K)
    BY DEF KeysOf
  <2> HIDE DEF K, R
  <2> QED BY <2>1, <2>2 DEF Lines
<1>3. Priced(R)
  <2>1. R \in SUBSET S
    BY DEF Scoped
  <2> HIDE DEF R
  <2> QED BY <2>1, CostIn
<1>4. GroupedCost(G) = Cost(R)
  <2> HIDE DEF G, K, R
  <2> QED BY <1>2, <1>3, LinesAddUp
<1>5. R = RowsOfUser(S, u)
  BY DEF RowsOfUser
<1> HIDE DEF G, R
<1> QED BY <1>1, <1>4, <1>5

\* All tables tell one story, whatever rows they are made from.
LEMMA TablesAgree ==
  ASSUME Priced(saved), TwoTables(saved)
  PROVE  RollupsAgree
<1>1. /\ MergedCost(ByCategory(saved)) = Cost(saved)
      /\ GroupedCost(ByProvider(saved)) = Cost(saved)
      /\ MergedCost(ByExperiment(saved)) = Cost(Scoped(saved))
      /\ MergedCost(ByUser(saved)) = Cost(Scoped(saved))
  BY CategoriesAddUp, ProvidersAddUp, ExperimentsAddUp, UsersAddUp
<1>2. ASSUME NEW u \in DOMAIN ByUser(saved)
      PROVE  GroupedCost(Breakdown(saved, u))
               = ByUser(saved)[u].llm.cost + ByUser(saved)[u].external.cost
  BY PhasesAddUp, UsersAddUp
<1> QED BY <1>1, <1>2 DEF RollupsAgree

(***************************************************************************)
(* The session and the rows of its calls.                                  *)
(***************************************************************************)
LEMMA CallTypes ==
  ASSUME CallInv, NEW c \in Calls
  PROVE  /\ call \in [Calls -> Call] /\ call[c] \in Call
         /\ call[c].at \in {"unused", "new", "asked", "resting", "logging", "flushing", "ended"}
         /\ call[c].then \in {"return", "fail", "retry"}
         /\ call[c].retries \in 0..MaxRetries /\ call[c].answers \in 0..MaxAnswers
         /\ call[c].used \in Nat /\ call[c].owed \in Nat
         /\ MaxRetries \in Nat /\ MaxAnswers \in Nat \ {0} /\ MaxFaults \in Nat
         /\ Kind[c] \in {"plain", "structured", "search", "lookup"} /\ c # NoCall
<1>1. call \in [Calls -> Call] /\ call[c] \in Call
  BY DEF CallInv, TypeOK
<1> QED BY <1>1, CallAssumption DEF Call

\* While a call is open the task is, and nothing is saved.
LEMMA OpenTask ==
  ASSUME CallInv, NEW c \in Calls, Open(c)
  PROVE  over = "open" /\ saved = {}
BY DEF CallInv, Whole, AllReturned, TypeOK

\* A row has a price.
LEMMA PricedRows ==
  ASSUME NEW S, S \subseteq Row, IsFiniteSet(S)
  PROVE  Priced(S) /\ TwoTables(S)
<1> SUFFICES ASSUME NEW e \in S
             PROVE  e.cost \in Nat /\ e.about.source \in {"llm", "external"}
  BY DEF Priced, TwoTables
<1>1. e \in Row
  OBVIOUS
<1>2. e.cost \in Nat /\ e.about \in {About[c] : c \in Calls}
  BY <1>1 DEF Row
<1> QED BY <1>2, CallAssumption

\* While the task is open, the rows of a call are those it has flushed.
LEMMA WrittenShows ==
  ASSUME over = "open", saved = {}, \A c \in Calls : Written(c)
  PROVE  SpendIsWritten
<1> SUFFICES ASSUME ~cancelled, ~broken, NEW c \in Calls, Accountable(c)
             PROVE  LET mine == {r \in rows \cup saved : r.call = c}
                    IN mine # {} /\ Cost(mine) = call[c].owed
  BY DEF SpendIsWritten
<1>1. {r \in rows \cup saved : r.call = c} = RowsOfCall(c)
  BY DEF RowsOfCall
<1> QED BY <1>1 DEF Written

\* The same of the state that follows.
LEMMA WrittenShowsNext ==
  ASSUME over' = "open", saved' = {}, (\A c \in Calls : Written(c))'
  PROVE  SpendIsWritten'
<1> SUFFICES ASSUME ~cancelled', ~broken', NEW c \in Calls, Accountable(c)'
             PROVE  (LET mine == {r \in rows \cup saved : r.call = c}
                     IN mine # {} /\ Cost(mine) = call[c].owed)'
  BY DEF SpendIsWritten
<1>1. {r \in rows' \cup saved' : r.call = c} = RowsOfCall(c)'
  BY DEF RowsOfCall
<1>2. RowsOfCall(c)' # {} /\ Cost(RowsOfCall(c)') = call'[c].owed
  BY DEF Written
<1>3. \A S : S = RowsOfCall(c)' => S # {} /\ Cost(S) = call'[c].owed
  BY <1>2
<1> QED BY <1>1, <1>3

\* What one call may become while the others and the session rest.
Fit(c, x) ==
  /\ x.at \in {"new", "asked", "resting"} =>
       /\ x.used = x.owed /\ x.answers < MaxAnswers
       /\ Kind[c] # "structured" => x.used = 0
  /\ x.at \in {"logging", "flushing"} =>
       /\ x.then = "retry" =>
            /\ Kind[c] = "search" /\ x.used = 0 /\ x.owed = 0
            /\ x.retries < MaxRetries /\ x.answers < MaxAnswers
       /\ ~broken => x.used = x.owed \/ (Kind[c] = "plain" /\ x.then = "fail")

Talks(c, x) ==
  /\ call[c].at \in {"new", "asked", "resting"}
  /\ call' = [call EXCEPT ![c] = x] /\ x \in Call
  /\ x.at \in {"asked", "resting", "logging", "ended"}
  /\ x.at = "ended" => Kind[c] = "lookup"
  /\ Fit(c, x)
  /\ UNCHANGED <<holder, rows, saved, broken, cancelled, over, faults>>

LEMMA TalkInv ==
  ASSUME CallInv, NEW c \in Calls, NEW x, Talks(c, x)
  PROVE  CallInv'
<1>1. /\ call[c].at \in {"new", "asked", "resting"} /\ call' = [call EXCEPT ![c] = x]
      /\ x \in Call /\ x.at \in {"asked", "resting", "logging", "ended"}
      /\ x.at = "ended" => Kind[c] = "lookup"
      /\ Fit(c, x)
      /\ UNCHANGED <<holder, rows, saved, broken, cancelled, over, faults>>
      /\ call \in [Calls -> Call]
  BY CallTypes DEF Talks
<1>2. /\ call' \in [Calls -> Call] /\ call'[c] = x
      /\ \A d \in Calls \ {c} : call'[d] = call[d]
  BY <1>1
<1>3. over = "open" /\ saved = {}
  BY <1>1, OpenTask DEF Open
<1>4. TypeOK'
  BY <1>1, <1>2 DEF CallInv, TypeOK
<1>5. OneWriter' /\ Whole' /\ OnlyFaultsBreak'
  BY <1>1, <1>2, <1>3 DEF CallInv, OneWriter, Whole, OnlyFaultsBreak
<1>6. Numbered'
  BY <1>1 DEF CallInv, Numbered, RowsOfCall
<1>7. ASSUME NEW d \in Calls PROVE Counted(d)'
  <2>1. CASE d = c
    BY <1>1, <1>2, <2>1 DEF Counted, Fit
  <2>2. CASE d # c
    BY <1>1, <1>2, <2>2 DEF Counted, CallInv
  <2> QED BY <2>1, <2>2
<1>8. ASSUME NEW d \in Calls PROVE Written(d)'
  <2>1. RowsOfCall(d)' = RowsOfCall(d) /\ Written(d)
    BY <1>1 DEF RowsOfCall, CallInv
  <2>2. CASE d = c
    BY <1>1, <1>2, <1>3, <2>1, <2>2 DEF Written, Accountable
  <2>3. CASE d # c
    BY <1>1, <1>2, <2>1, <2>3 DEF Written, Accountable
  <2> QED BY <2>2, <2>3
<1>9. SpendIsWritten'
  <2>1. over' = "open" /\ saved' = {}
    BY <1>1, <1>3
  <2> QED BY <2>1, <1>8, WrittenShowsNext
<1> QED BY <1>4, <1>5, <1>6, <1>7, <1>8, <1>9 DEF CallInv

\* The conversation of a call with its service.
LEMMA ConversationInv ==
  ASSUME CallInv, NEW c \in Calls,
         Ask(c) \/ Reject(c) \/ Answer(c) \/ BadAnswer(c) \/ BadSeries(c) \/ Retry(c) \/ Fail(c)
  PROVE  CallInv'
<1> DEFINE q == call[c]
           unmoved == UNCHANGED <<holder, rows, saved, broken, cancelled, over, faults>>
<1>0. /\ call \in [Calls -> Call] /\ q \in Call /\ Counted(c)
      /\ q.then \in {"return", "fail", "retry"}
      /\ q.retries \in 0..MaxRetries /\ q.answers \in 0..MaxAnswers
      /\ q.used \in Nat /\ q.owed \in Nat
      /\ MaxRetries \in Nat /\ MaxAnswers \in Nat \ {0}
      /\ Kind[c] \in {"plain", "structured", "search", "lookup"}
      /\ q.at \in {"new", "asked", "resting"}
  <2>1. q.at \in {"new", "asked", "resting"}
    BY DEF Ask, Reject, Answer, BadAnswer, BadSeries, Retry, Fail
  <2> QED BY <2>1, CallTypes DEF CallInv
<1>1. /\ q.used = q.owed /\ q.answers < MaxAnswers
      /\ Kind[c] # "structured" => q.used = 0
  BY <1>0 DEF Counted
<1>2. CASE Ask(c)
  <2> DEFINE x == [q EXCEPT !.at = "asked"]
  <2>1. call' = [call EXCEPT ![c] = x] /\ unmoved
    BY <1>2 DEF Ask
  <2>2. x \in Call /\ x.at = "asked" /\ Fit(c, x)
    BY <1>0, <1>1 DEF Call, Fit
  <2>3. Talks(c, x)
    BY <1>0, <2>1, <2>2 DEF Talks
  <2> QED BY <2>3, TalkInv
<1>3. CASE Reject(c) \/ Fail(c)
  <2> DEFINE x == WriteRow(c, q.used, "fail")
  <2>1. call' = [call EXCEPT ![c] = x] /\ unmoved
    BY <1>3 DEF Reject, Fail
  <2>2. x = [q EXCEPT !.at = "logging", !.used = q.used, !.then = "fail"]
    BY DEF WriteRow
  <2>3. x \in Call /\ x.at = "logging" /\ Fit(c, x)
    BY <1>0, <1>1, <2>2 DEF Call, Fit
  <2>4. Talks(c, x)
    BY <1>0, <2>1, <2>3 DEF Talks
  <2> QED BY <2>4, TalkInv
<1>4. CASE Answer(c)
  <2> DEFINE x == [WriteRow(c, q.used + Price(c), "return") EXCEPT !.owed = q.owed + Price(c)]
  <2>1. call' = [call EXCEPT ![c] = x] /\ unmoved
    BY <1>4 DEF Answer
  <2>2. Price(c) \in Nat
    BY DEF Price
  <2>3. x = [q EXCEPT !.at = "logging", !.used = q.used + Price(c), !.then = "return",
                      !.owed = q.owed + Price(c)]
    BY <1>0 DEF WriteRow, Call
  <2>4. x \in Call /\ x.at = "logging" /\ Fit(c, x)
    <3> HIDE DEF x
    <3>1. q.used + Price(c) \in Nat /\ q.owed + Price(c) \in Nat
      BY <1>0, <2>2
    <3>2. x \in Call
      BY <1>0, <2>3, <3>1 DEF Call
    <3>3. /\ x.at = "logging" /\ x.then = "return"
          /\ x.used = q.used + Price(c) /\ x.owed = q.owed + Price(c)
      BY <1>0, <2>3 DEF Call
    <3> QED BY <1>1, <3>2, <3>3 DEF Fit
  <2>5. Talks(c, x)
    BY <1>0, <2>1, <2>4 DEF Talks
  <2> QED BY <2>5, TalkInv
<1>5. CASE BadAnswer(c)
  <2> DEFINE billed == [q EXCEPT !.owed = @ + 1, !.answers = @ + 1]
             x == IF Kind[c] = "plain"
                  THEN [billed EXCEPT !.at = "logging", !.used = 0, !.then = "fail"]
                  ELSE IF billed.answers < MaxAnswers
                  THEN [billed EXCEPT !.used = q.used + 1]
                  ELSE [billed EXCEPT !.at = "logging", !.used = q.used + 1, !.then = "fail"]
  <2>1. call' = [call EXCEPT ![c] = x] /\ unmoved /\ q.at = "asked"
    BY <1>5 DEF BadAnswer
  <2>2. /\ billed \in Call /\ billed.owed = q.owed + 1 /\ billed.answers = q.answers + 1
        /\ billed.at = "asked"
    <3>1. q.owed + 1 \in Nat /\ q.answers + 1 \in 0..MaxAnswers
      BY <1>0, <1>1
    <3>2. billed = [q EXCEPT !.owed = q.owed + 1, !.answers = q.answers + 1]
      OBVIOUS
    <3> HIDE DEF billed
    <3>3. billed \in Call
      BY <1>0, <3>1, <3>2 DEF Call
    <3>4. billed.owed = q.owed + 1 /\ billed.answers = q.answers + 1 /\ billed.at = "asked"
      BY <1>0, <2>1, <3>2 DEF Call
    <3> QED BY <3>3, <3>4
  <2>3. x \in Call /\ x.at \in {"asked", "logging"} /\ Fit(c, x)
    <3>1. CASE Kind[c] = "plain"
      <4>1. x = [billed EXCEPT !.at = "logging", !.used = 0, !.then = "fail"]
        BY <3>1
      <4> HIDE DEF billed, x
      <4> QED BY <1>0, <1>1, <2>2, <3>1, <4>1 DEF Call, Fit
    <3>2. CASE Kind[c] # "plain" /\ billed.answers < MaxAnswers
      <4>0. Kind[c] = "structured"
        BY <1>5, <3>2 DEF BadAnswer
      <4>1. x = [billed EXCEPT !.used = q.used + 1]
        BY <3>2
      <4> HIDE DEF billed, x
      <4> QED BY <1>0, <1>1, <2>2, <3>2, <4>0, <4>1 DEF Call, Fit
    <3>3. CASE Kind[c] # "plain" /\ ~(billed.answers < MaxAnswers)
      <4>0. Kind[c] = "structured"
        BY <1>5, <3>3 DEF BadAnswer
      <4>1. x = [billed EXCEPT !.at = "logging", !.used = q.used + 1, !.then = "fail"]
        BY <3>3
      <4> HIDE DEF billed, x
      <4> QED BY <1>0, <1>1, <2>2, <3>3, <4>0, <4>1 DEF Call, Fit
    <3> QED BY <3>1, <3>2, <3>3
  <2> HIDE DEF x
  <2>4. Talks(c, x)
    BY <1>0, <2>1, <2>3 DEF Talks
  <2> QED BY <2>4, TalkInv
<1>6. CASE BadSeries(c)
  <2> DEFINE x == [q EXCEPT !.at = "ended", !.then = "fail"]
  <2>1. call' = [call EXCEPT ![c] = x] /\ unmoved /\ Kind[c] = "lookup"
    BY <1>6, <1>0 DEF BadSeries, Call
  <2>2. x \in Call /\ x.at = "ended" /\ Fit(c, x)
    BY <1>0, <1>1 DEF Call, Fit
  <2>3. Talks(c, x)
    BY <1>0, <2>1, <2>2 DEF Talks
  <2> QED BY <2>3, TalkInv
<1>7. CASE Retry(c)
  <2>0. q.at = "asked" /\ q.retries < MaxRetries
    BY <1>7 DEF Retry
  <2>1. CASE Kind[c] = "search"
    <3> DEFINE x == WriteRow(c, 0, "retry")
    <3>1. call' = [call EXCEPT ![c] = x] /\ unmoved
      BY <1>7, <2>1 DEF Retry
    <3>2. x = [q EXCEPT !.at = "logging", !.used = 0, !.then = "retry"]
      BY DEF WriteRow
    <3>3. x \in Call /\ x.at = "logging" /\ Fit(c, x)
      BY <1>0, <1>1, <2>0, <2>1, <3>2 DEF Call, Fit
    <3>4. Talks(c, x)
      BY <1>0, <3>1, <3>3 DEF Talks
    <3> QED BY <3>4, TalkInv
  <2>2. CASE Kind[c] # "search"
    <3> DEFINE x == [q EXCEPT !.at = "resting", !.retries = q.retries + 1, !.answers = 0]
    <3>1. call' = [call EXCEPT ![c] = x] /\ unmoved
      BY <1>7, <2>2 DEF Retry
    <3>2. x \in Call /\ x.at = "resting" /\ Fit(c, x)
      <4>1. q.retries + 1 \in 0..MaxRetries /\ 0 \in 0..MaxAnswers /\ 0 < MaxAnswers
        BY <1>0, <2>0
      <4>2. x \in Call
        BY <1>0, <4>1 DEF Call
      <4>3. x.at = "resting" /\ x.used = q.used /\ x.owed = q.owed /\ x.answers = 0
        BY <1>0 DEF Call
      <4> HIDE DEF x
      <4> QED BY <1>1, <4>1, <4>2, <4>3 DEF Fit
    <3>3. Talks(c, x)
      BY <1>0, <3>1, <3>2 DEF Talks
    <3> QED BY <3>3, TalkInv
  <2> QED BY <2>1, <2>2
<1> QED BY <1>2, <1>3, <1>4, <1>5, <1>6, <1>7

\* The lock is taken: nobody else is writing.
LEMMA LockInv ==
  ASSUME CallInv, NEW c \in Calls, Lock(c)
  PROVE  CallInv'
<1> DEFINE x == [call[c] EXCEPT !.at = "flushing"]
<1>1. /\ call[c].at = "logging" /\ holder = NoCall /\ holder' = c
      /\ call' = [call EXCEPT ![c] = x]
      /\ broken' = (broken \/ \E d \in Calls : call[d].at = "flushing")
      /\ UNCHANGED <<rows, saved, cancelled, over, faults>>
  BY DEF Lock
<1>2. \A d \in Calls : call[d].at # "flushing"
  BY <1>1, CallAssumption DEF CallInv, OneWriter
<1>3. broken' = broken
  BY <1>1, <1>2 DEF CallInv, TypeOK
<1>4. over = "open" /\ saved = {}
  BY <1>1, OpenTask DEF Open
<1>5. call \in [Calls -> Call] /\ call[c] \in Call
  BY CallTypes
<1>6. /\ x \in Call /\ x.at = "flushing" /\ x.then = call[c].then /\ x.used = call[c].used
      /\ x.owed = call[c].owed /\ x.retries = call[c].retries /\ x.answers = call[c].answers
  BY <1>5 DEF Call
<1> HIDE DEF x
<1>7. call' \in [Calls -> Call] /\ call'[c] = x /\ \A d \in Calls \ {c} : call'[d] = call[d]
  BY <1>1, <1>5, <1>6
<1>8. TypeOK'
  BY <1>1, <1>3, <1>7 DEF CallInv, TypeOK
<1>9. OneWriter' /\ Whole' /\ OnlyFaultsBreak' /\ Numbered'
  <2>1. OneWriter'
    BY <1>1, <1>2, <1>7 DEF OneWriter
  <2>2. Whole' /\ OnlyFaultsBreak'
    BY <1>1, <1>3, <1>4 DEF CallInv, Whole, OnlyFaultsBreak
  <2>3. Numbered'
    BY <1>1 DEF CallInv, Numbered, RowsOfCall
  <2> QED BY <2>1, <2>2, <2>3
<1>10. ASSUME NEW d \in Calls PROVE Counted(d)' /\ Written(d)'
  <2>1. Counted(d) /\ Written(d) /\ RowsOfCall(d)' = RowsOfCall(d)
    BY <1>1 DEF CallInv, RowsOfCall
  <2>2. CASE d = c
    <3>1. Counted(c)'
      BY <1>1, <1>3, <1>6, <1>7, <2>1, <2>2 DEF Counted
    <3>2. Written(c)'
      BY <1>1, <1>3, <1>6, <1>7, <2>1, <2>2 DEF Written, Accountable
    <3> QED BY <3>1, <3>2, <2>2
  <2>3. CASE d # c
    <3>1. call'[d] = call[d]
      BY <1>7, <2>3
    <3> QED BY <1>1, <1>3, <2>1, <3>1 DEF Counted, Written, Accountable
  <2> QED BY <2>2, <2>3
<1>11. SpendIsWritten'
  BY <1>1, <1>4, <1>10, WrittenShowsNext
<1> QED BY <1>8, <1>9, <1>10, <1>11 DEF CallInv

\* The rows of a call can be counted.
LEMMA CountedRows ==
  ASSUME CallInv, NEW d
  PROVE  /\ IsFiniteSet(RowsOfCall(d)) /\ Cardinality(RowsOfCall(d)) \in Nat
         /\ Priced(RowsOfCall(d)) /\ RowsOfCall(d) \subseteq Row
<1>1. RowsOfCall(d) \in SUBSET rows /\ IsFiniteSet(rows) /\ rows \subseteq Row
  BY DEF RowsOfCall, CallInv, Numbered, TypeOK
<1> QED BY <1>1, FS_Subset, FS_CardinalityType, PricedRows

\* A call goes on after its row: a search rests and asks again, all others return.
LEMMA GoesOn ==
  ASSUME CallInv, NEW c \in Calls, call[c].at = "flushing"
  PROVE  LET x == Onward(c) IN
         /\ x \in Call /\ x.used = call[c].used /\ x.owed = call[c].owed
         /\ x.then = call[c].then /\ x.at = IF x.then = "retry" THEN "resting" ELSE "ended"
         /\ x.then = "retry" =>
              Kind[c] = "search" /\ x.used = 0 /\ x.owed = 0 /\ x.answers < MaxAnswers
<1>1. /\ call[c] \in Call /\ call[c].retries \in 0..MaxRetries /\ MaxRetries \in Nat
      /\ call[c].then \in {"return", "fail", "retry"}
      /\ Counted(c)
  BY CallTypes DEF CallInv
<1>2. CASE call[c].then = "retry"
  <2> DEFINE x == [call[c] EXCEPT !.at = "resting", !.retries = call[c].retries + 1]
  <2>1. /\ Kind[c] = "search" /\ call[c].used = 0 /\ call[c].owed = 0
        /\ call[c].retries < MaxRetries /\ call[c].answers < MaxAnswers
    BY <1>1, <1>2 DEF Counted
  <2>2. call[c].retries + 1 \in 0..MaxRetries
    BY <1>1, <2>1
  <2>3. /\ x \in Call /\ x.used = call[c].used /\ x.owed = call[c].owed
        /\ x.then = call[c].then /\ x.at = "resting" /\ x.answers = call[c].answers
    BY <1>1, <2>2 DEF Call
  <2>4. Onward(c) = x
    BY <1>2 DEF Onward
  <2> HIDE DEF x
  <2> QED BY <1>2, <2>1, <2>3, <2>4
<1>3. CASE call[c].then # "retry"
  <2> DEFINE x == [call[c] EXCEPT !.at = "ended"]
  <2>1. /\ x \in Call /\ x.used = call[c].used /\ x.owed = call[c].owed
        /\ x.then = call[c].then /\ x.at = "ended"
    BY <1>1 DEF Call
  <2>2. Onward(c) = x
    BY <1>3 DEF Onward
  <2> HIDE DEF x
  <2> QED BY <1>3, <2>1, <2>2
<1> QED BY <1>2, <1>3

\* A row more.
LEMMA FlushInv ==
  ASSUME CallInv, NEW c \in Calls, Flush(c)
  PROVE  CallInv'
<1> DEFINE x == Onward(c)
           e == RowOf(c)
<1>1. /\ call[c].at = "flushing" /\ ~broken /\ rows' = rows \cup {e} /\ holder' = NoCall
      /\ call' = [call EXCEPT ![c] = x]
      /\ UNCHANGED <<saved, broken, cancelled, over, faults>>
  BY DEF Flush
<1>2. over = "open" /\ saved = {}
  BY <1>1, OpenTask DEF Open
<1>3. call \in [Calls -> Call] /\ Counted(c) /\ Written(c) /\ call[c].used \in Nat
  BY CallTypes DEF CallInv
<1>4. /\ x \in Call /\ x.used = call[c].used /\ x.owed = call[c].owed
      /\ x.then = call[c].then /\ x.at = IF x.then = "retry" THEN "resting" ELSE "ended"
      /\ x.then = "retry" =>
           Kind[c] = "search" /\ x.used = 0 /\ x.owed = 0 /\ x.answers < MaxAnswers
  BY <1>1, GoesOn
<1>5. /\ e.call = c /\ e.cost = call[c].used /\ e.number = Cardinality(RowsOfCall(c))
      /\ e \in Row
  <2>1. e = [call |-> c, number |-> Cardinality(RowsOfCall(c)), cost |-> call[c].used,
             about |-> About[c]]
    BY DEF RowOf, RowsOfCall
  <2>2. Cardinality(RowsOfCall(c)) \in Nat
    BY CountedRows
  <2> HIDE DEF e
  <2> QED BY <1>3, <2>1, <2>2 DEF Row
<1> HIDE DEF x, e
<1>6. call' \in [Calls -> Call] /\ call'[c] = x /\ \A d \in Calls \ {c} : call'[d] = call[d]
  BY <1>1, <1>3, <1>4
<1>7. \A d : RowsOfCall(d)' = IF d = c THEN RowsOfCall(c) \cup {e} ELSE RowsOfCall(d)
  BY <1>1, <1>5 DEF RowsOfCall
<1>8. e \notin RowsOfCall(c)
  <2> SUFFICES ASSUME e \in RowsOfCall(c) PROVE FALSE
    OBVIOUS
  <2>1. e.number < Cardinality(RowsOfCall(c))
    BY <1>5 DEF RowsOfCall, CallInv, Numbered
  <2> QED BY <1>5, <2>1, CountedRows
<1>9. TypeOK'
  BY <1>1, <1>5, <1>6 DEF CallInv, TypeOK
<1>10. OneWriter' /\ Whole' /\ OnlyFaultsBreak'
  <2>1. \A d \in Calls \ {c} : call'[d].at # "flushing"
    BY <1>1, <1>6 DEF CallInv, OneWriter
  <2>2. OneWriter'
    BY <1>4, <1>6, <2>1 DEF OneWriter
  <2>3. Whole' /\ OnlyFaultsBreak'
    BY <1>1, <1>2 DEF Whole, OnlyFaultsBreak
  <2> QED BY <2>2, <2>3
<1>11. Numbered'
  <2>1. IsFiniteSet(rows) /\ IsFiniteSet(saved) /\ IsFiniteSet(RowsOfCall(c))
        /\ Cardinality(RowsOfCall(c)) \in Nat
    BY CountedRows DEF CallInv, Numbered
  <2>2. IsFiniteSet(rows') /\ IsFiniteSet(saved')
    BY <1>1, <2>1, FS_AddElement
  <2>3. Cardinality(RowsOfCall(c) \cup {e}) = Cardinality(RowsOfCall(c)) + 1
    BY <1>8, <2>1, FS_AddElement
  <2>4. ASSUME NEW r \in rows' PROVE r.number < Cardinality(RowsOfCall(r.call)')
    <3>1. CASE r = e
      <4>1. RowsOfCall(r.call)' = RowsOfCall(c) \cup {e}
        BY <1>5, <1>7, <3>1
      <4>2. Cardinality(RowsOfCall(r.call)') = Cardinality(RowsOfCall(c)) + 1
        BY <2>3, <4>1
      <4>3. r.number = Cardinality(RowsOfCall(c))
        BY <1>5, <3>1
      <4> QED BY <2>1, <4>2, <4>3
    <3>2. CASE r \in rows
      <4>1. r.number < Cardinality(RowsOfCall(r.call)) /\ r.number \in Nat
        BY <3>2 DEF CallInv, Numbered, TypeOK, Row
      <4>2. CASE r.call = c
        <5>1. RowsOfCall(r.call)' = RowsOfCall(c) \cup {e}
          BY <1>7, <4>2
        <5>2. r.number < Cardinality(RowsOfCall(c)) /\ r.number \in Nat
          BY <4>1, <4>2
        <5>3. r.number < Cardinality(RowsOfCall(c) \cup {e})
          BY <2>1, <2>3, <5>2
        <5> QED BY <5>1, <5>3
      <4>3. CASE r.call # c
        <5>1. RowsOfCall(r.call)' = RowsOfCall(r.call)
          BY <1>7, <4>3
        <5> QED BY <4>1, <5>1
      <4> QED BY <4>2, <4>3
    <3> QED BY <1>1, <3>1, <3>2
  <2> QED BY <2>2, <2>4 DEF Numbered
<1>12. ASSUME NEW d \in Calls PROVE Counted(d)' /\ Written(d)'
  <2>1. CASE d = c
    <3>1. Counted(c)'
      BY <1>4, <1>6 DEF Counted
    <3>2. Written(c)'
      <4> SUFFICES ASSUME ~cancelled
                   PROVE /\ x.at \notin {"unused", "ended"} => Cost(RowsOfCall(c)') = 0
                         /\ Accountable(c)' => RowsOfCall(c)' # {} /\ Cost(RowsOfCall(c)') = x.owed
        BY <1>1, <1>6 DEF Written
      <4>1. Cost(RowsOfCall(c)) = 0
        BY <1>1, <1>2, <1>3 DEF Written
      <4>2. RowsOfCall(c)' = RowsOfCall(c) \cup {e}
        BY <1>7
      <4>3. Cost(RowsOfCall(c)') = call[c].used
        BY <1>3, <1>5, <1>8, <4>1, <4>2, CostWithOne, CountedRows
      <4>4. x.at \notin {"unused", "ended"} => Cost(RowsOfCall(c)') = 0
        BY <1>4, <4>3
      <4>5. ASSUME Accountable(c)' PROVE RowsOfCall(c)' # {} /\ Cost(RowsOfCall(c)') = x.owed
        <5>1. x.at = "ended" /\ (Kind[c] = "plain" => x.then = "return")
          BY <1>6, <4>5 DEF Accountable
        <5>2. call[c].used = call[c].owed
          BY <1>1, <1>3, <1>4, <5>1 DEF Counted
        <5> QED BY <1>4, <4>2, <4>3, <5>2
      <4> QED BY <4>4, <4>5
    <3> QED BY <2>1, <3>1, <3>2
  <2>2. CASE d # c
    <3>1. call'[d] = call[d] /\ RowsOfCall(d)' = RowsOfCall(d) /\ Counted(d) /\ Written(d)
      BY <1>6, <1>7, <2>2 DEF CallInv
    <3> QED BY <1>1, <3>1 DEF Counted, Written, Accountable
  <2> QED BY <2>1, <2>2
<1>13. SpendIsWritten'
  BY <1>1, <1>2, <1>12, WrittenShowsNext
<1> QED BY <1>9, <1>10, <1>11, <1>12, <1>13 DEF CallInv

\* A flush fails: the rows of all calls are gone.
LEMMA FlushFailsInv ==
  ASSUME CallInv, NEW c \in Calls, FlushFails(c)
  PROVE  CallInv'
<1> DEFINE x == IF call[c].then = "return"
                THEN WriteRow(c, IF Kind[c] = "structured" THEN call[c].used ELSE 0, "fail")
                ELSE Onward(c)
<1>1. /\ call[c].at = "flushing" /\ (broken \/ faults < MaxFaults)
      /\ faults' = (IF broken THEN faults ELSE faults + 1)
      /\ broken' = TRUE /\ rows' = {} /\ holder' = NoCall
      /\ call' = [call EXCEPT ![c] = x]
      /\ UNCHANGED <<saved, cancelled, over>>
  BY DEF FlushFails
<1>2. over = "open" /\ saved = {}
  BY <1>1, OpenTask DEF Open
<1>3. /\ call \in [Calls -> Call] /\ call[c] \in Call
      /\ call[c].used \in Nat /\ call[c].owed \in Nat /\ MaxFaults \in Nat
  BY CallTypes
<1>4. /\ x \in Call /\ x.at \in {"logging", "resting", "ended"}
      /\ x.at = "logging" => x.then = "fail"
      /\ x.at = "resting" => x.used = x.owed /\ x.answers < MaxAnswers /\ x.used = 0
  <2>1. CASE call[c].then = "return"
    <3> DEFINE cost == IF Kind[c] = "structured" THEN call[c].used ELSE 0
    <3>1. x = [call[c] EXCEPT !.at = "logging", !.used = cost, !.then = "fail"]
      BY <2>1 DEF WriteRow
    <3>2. cost \in Nat
      BY <1>3
    <3> HIDE DEF x, cost
    <3>3. x \in Call /\ x.at = "logging" /\ x.then = "fail"
      BY <1>3, <3>1, <3>2 DEF Call
    <3> QED BY <3>3
  <2>2. CASE call[c].then # "return"
    <3>1. x = Onward(c)
      BY <2>2
    <3> HIDE DEF x
    <3> QED BY <1>1, <3>1, GoesOn
  <2> QED BY <2>1, <2>2
<1> HIDE DEF x
<1>5. call' \in [Calls -> Call] /\ call'[c] = x /\ \A d \in Calls \ {c} : call'[d] = call[d]
  BY <1>1, <1>3, <1>4
<1>6. TypeOK'
  <2>1. faults' \in 0..MaxFaults
    <3>1. faults \in 0..MaxFaults
      BY DEF CallInv, TypeOK
    <3>2. CASE broken
      BY <1>1, <3>1, <3>2
    <3>3. CASE ~broken
      BY <1>1, <1>3, <3>1, <3>3
    <3> QED BY <3>2, <3>3
  <2> QED BY <1>1, <1>5, <2>1 DEF CallInv, TypeOK
<1>7. OneWriter' /\ Whole' /\ OnlyFaultsBreak' /\ SpendIsWritten'
  <2>1. \A d \in Calls \ {c} : call'[d].at # "flushing"
    BY <1>1, <1>5 DEF CallInv, OneWriter
  <2>2. OneWriter'
    BY <1>4, <1>5, <2>1 DEF OneWriter
  <2>3. OnlyFaultsBreak'
    <3>1. faults \in 0..MaxFaults /\ OnlyFaultsBreak
      BY DEF CallInv, TypeOK
    <3>2. CASE broken
      BY <1>1, <3>1, <3>2 DEF OnlyFaultsBreak
    <3>3. CASE ~broken
      <4>1. faults' = faults + 1
        BY <1>1, <3>3
      <4> QED BY <1>3, <3>1, <4>1 DEF OnlyFaultsBreak
    <3> QED BY <3>2, <3>3
  <2> QED BY <1>1, <1>2, <2>2, <2>3 DEF Whole, SpendIsWritten
<1>8. Numbered'
  <2>1. IsFiniteSet(rows') /\ IsFiniteSet(saved')
    BY <1>1, FS_EmptySet DEF CallInv, Numbered
  <2> QED BY <1>1, <2>1 DEF Numbered
<1>9. ASSUME NEW d \in Calls PROVE Counted(d)' /\ Written(d)'
  <2>1. Written(d)'
    BY <1>1 DEF Written
  <2>2. CASE d = c
    <3>1. Counted(c)'
      BY <1>1, <1>4, <1>5 DEF Counted
    <3> QED BY <2>1, <2>2, <3>1
  <2>3. CASE d # c
    <3>1. call'[d] = call[d] /\ Counted(d)
      BY <1>5, <2>3 DEF CallInv
    <3> QED BY <1>1, <2>1, <3>1 DEF Counted
  <2> QED BY <2>2, <2>3
<1> QED BY <1>6, <1>7, <1>8, <1>9 DEF CallInv

\* The task is cancelled, and its calls with it.
LEMMA CancelInv ==
  ASSUME CallInv, Cancel
  PROVE  CallInv'
<1>1. /\ \E c \in Calls : Open(c)
      /\ cancelled' = TRUE /\ holder' = NoCall
      /\ call' = [c \in Calls |-> IF Open(c) THEN [call[c] EXCEPT !.at = "ended"] ELSE call[c]]
      /\ broken' \in BOOLEAN /\ rows' \in {rows, {}}
      /\ UNCHANGED <<saved, over, faults>>
  BY DEF Cancel
<1>2. over = "open" /\ saved = {}
  BY <1>1, OpenTask
<1>3. ASSUME NEW c \in Calls
      PROVE  call'[c] \in Call /\ call'[c].at \in {"unused", "ended"}
  <2>1. call[c] \in Call
    BY CallTypes
  <2>2. CASE Open(c)
    <3>1. call'[c] = [call[c] EXCEPT !.at = "ended"]
      BY <1>1, <2>2
    <3> QED BY <2>1, <3>1 DEF Call
  <2>3. CASE ~Open(c)
    <3>1. call'[c] = call[c]
      BY <1>1, <2>3
    <3> QED BY <2>1, <2>3, <3>1 DEF Open
  <2> QED BY <2>2, <2>3
<1>4. call' \in [Calls -> Call]
  BY <1>1, <1>3
<1>5. TypeOK'
  BY <1>1, <1>4 DEF CallInv, TypeOK
<1>6. OneWriter' /\ Whole' /\ OnlyFaultsBreak' /\ SpendIsWritten'
  BY <1>1, <1>2, <1>3 DEF OneWriter, Whole, OnlyFaultsBreak, SpendIsWritten
<1>7. Numbered'
  <2>1. CASE rows' = rows
    BY <1>1, <2>1 DEF CallInv, Numbered, RowsOfCall
  <2>2. CASE rows' = {}
    BY <1>1, <2>2, FS_EmptySet DEF CallInv, Numbered
  <2> QED BY <1>1, <2>1, <2>2
<1>8. ASSUME NEW c \in Calls PROVE Counted(c)' /\ Written(c)'
  BY <1>1, <1>3 DEF Counted, Written
<1> QED BY <1>5, <1>6, <1>7, <1>8 DEF CallInv

\* The transaction ends: its rows are saved, or gone.
LEMMA EndInv ==
  ASSUME CallInv, Commit \/ Rollback
  PROVE  CallInv'
<1>1. /\ over = "open" /\ AllReturned /\ rows' = {}
      /\ UNCHANGED <<call, holder, broken, cancelled, faults>>
      /\ \/ saved' = rows /\ over' = "committed" /\ ~broken
         \/ saved' = saved /\ over' = "rolled back"
  BY DEF Commit, Rollback
<1>2. saved = {}
  BY <1>1 DEF CallInv, Whole
<1>3. TypeOK'
  BY <1>1 DEF CallInv, TypeOK
<1>4. OneWriter' /\ Whole' /\ OnlyFaultsBreak'
  BY <1>1, <1>2 DEF CallInv, OneWriter, Whole, OnlyFaultsBreak, AllReturned, Open
<1>5. Numbered'
  BY <1>1, FS_EmptySet DEF CallInv, Numbered
<1>6. ASSUME NEW c \in Calls PROVE Counted(c)' /\ Written(c)'
  BY <1>1 DEF CallInv, Counted, Written
<1>7. SpendIsWritten'
  <2>1. CASE over' = "rolled back"
    BY <2>1 DEF SpendIsWritten
  <2>2. CASE over' = "committed"
    <3>1. rows' \cup saved' = rows \cup saved
      BY <1>1, <1>2, <2>2
    <3>2. SpendIsWritten /\ over # "rolled back"
      BY <1>1 DEF CallInv
    <3> QED BY <1>1, <3>1, <3>2 DEF SpendIsWritten, Accountable
  <2> QED BY <1>1, <2>1, <2>2
<1> QED BY <1>3, <1>4, <1>5, <1>6, <1>7 DEF CallInv

\* A task begins with calls that have neither asked nor written.
LEMMA CallInit ==
  ASSUME Init
  PROVE  CallInv
<1>1. PICK task \in Tasks :
        call = [c \in Calls |-> [at |-> IF c \in task THEN "new" ELSE "unused",
                  then |-> "return", retries |-> 0, answers |-> 0, used |-> 0, owed |-> 0]]
  BY DEF Init
<1>2. /\ holder = NoCall /\ rows = {} /\ saved = {} /\ broken = FALSE
      /\ cancelled = FALSE /\ over = "open" /\ faults = 0
  BY DEF Init
<1>3. MaxRetries \in Nat /\ MaxAnswers \in Nat \ {0} /\ MaxFaults \in Nat
  BY CallAssumption
<1>4. ASSUME NEW c \in Calls
      PROVE  /\ call[c] \in Call /\ call[c].at \in {"new", "unused"}
             /\ call[c].used = 0 /\ call[c].owed = 0 /\ call[c].answers = 0
  BY <1>1, <1>3 DEF Call
<1>5. call \in [Calls -> Call]
  BY <1>1, <1>4
<1>6. TypeOK
  <2>1. 0 \in 0..MaxFaults
    BY <1>3
  <2>2. {FALSE} \subseteq BOOLEAN
    OBVIOUS
  <2> QED BY <1>2, <1>5, <2>1, <2>2 DEF TypeOK
<1>7. OneWriter /\ Whole /\ OnlyFaultsBreak /\ SpendIsWritten
  BY <1>2, <1>4 DEF OneWriter, Whole, OnlyFaultsBreak, SpendIsWritten, Accountable
<1>8. Numbered
  BY <1>2, FS_EmptySet DEF Numbered
<1>9. ASSUME NEW c \in Calls PROVE Counted(c) /\ Written(c)
  <2>1. RowsOfCall(c) = {}
    BY <1>2 DEF RowsOfCall
  <2> QED BY <1>2, <1>3, <1>4, <2>1, CostOfNothing DEF Counted, Written, Accountable
<1> QED BY <1>6, <1>7, <1>8, <1>9 DEF CallInv

-----------------------------------------------------------------------------
(* The theorems.                                                           *)

\* What a call has used, the rows it has written, who writes and how the transaction
\* stands fit together after any step of any task (llm/client.py, tavily.py,
\* session_lock.py).
THEOREM CallInvariantHolds == Spec => []CallInv
<1>1. CallInv /\ [Next]_vars => CallInv'
  <2> SUFFICES ASSUME CallInv, [Next]_vars PROVE CallInv'
    OBVIOUS
  <2>1. CASE UNCHANGED vars
    <3>1. TypeOK' /\ OneWriter' /\ Numbered' /\ Whole' /\ SpendIsWritten' /\ OnlyFaultsBreak'
      BY <2>1 DEF CallInv, vars, TypeOK, OneWriter, Numbered, RowsOfCall, Whole, AllReturned,
                  Open, SpendIsWritten, Accountable, OnlyFaultsBreak
    <3>2. ASSUME NEW c \in Calls PROVE Counted(c)' /\ Written(c)'
      <4>1. Counted(c) /\ Written(c)
        BY DEF CallInv
      <4> QED BY <2>1, <4>1 DEF vars, Counted, Written, RowsOfCall, Accountable
    <3> QED BY <3>1, <3>2 DEF CallInv
  <2>2. ASSUME NEW c \in Calls, Step(c) PROVE CallInv'
    BY <2>2, ConversationInv, LockInv, FlushInv, FlushFailsInv DEF Step
  <2>3. CASE Cancel \/ Commit \/ Rollback
    BY <2>3, CancelInv, EndInv
  <2> QED BY <2>1, <2>2, <2>3 DEF Next
<1> QED BY CallInit, <1>1, PTL DEF Spec

\* Every value of the calls, of their rows and of their session is one the code knows.
THEOREM CallTypesHold == Spec => []TypeOK
<1>1. CallInv => TypeOK
  BY DEF CallInv
<1> QED BY CallInvariantHolds, <1>1, PTL

\* Whatever was retried, asked again or refused, the rows of a call that has returned
\* add up to what was billed for it (complete_structured, search, log_external_call).
THEOREM CallsArePaidFor == Spec => []SpendIsWritten
<1>1. CallInv => SpendIsWritten
  BY DEF CallInv
<1> QED BY CallInvariantHolds, <1>1, PTL

\* Any number of calls may share a session: only a database error or a cancellation
\* breaks it (session_lock.py).
THEOREM SharingIsSafe == Spec => []OnlyFaultsBreak
<1>1. CallInv => OnlyFaultsBreak
  BY DEF CallInv
<1> QED BY CallInvariantHolds, <1>1, PTL

\* The tables of the administration agree about any rows that tasks commit
\* (services/cost_rollup.py, routers/admin.py).
THEOREM TablesTellOneStory == Spec => []RollupsAgree
<1>1. CallInv => RollupsAgree
  BY PricedRows, TablesAgree DEF CallInv, TypeOK, Numbered
<1> QED BY CallInvariantHolds, <1>1, PTL

-----------------------------------------------------------------------------
(***************************************************************************)
(* The circuit breaker that every call passes, for any set of callers,     *)
(* threshold, cooldown and number of retries.                              *)
(***************************************************************************)
Spots == [at : {"idle", "ready", "call", "probe"}, attempt : 0 .. RetryLimit]

LEMMA IdleSpot == Idle \in Spots
  BY BreakerAssumption DEF Idle, Spots

LEMMA RetrySpots ==
  ASSUME req \in [Callers -> Spots], NEW c \in Callers, RetryCall(c)
  PROVE  req' \in [Callers -> Spots]
<1>1. req[c].attempt \in 0 .. RetryLimit
  BY DEF Spots
<1>2. req[c].attempt < RetryLimit =>
        [at |-> "ready", attempt |-> req[c].attempt + 1] \in Spots
  BY <1>1, BreakerAssumption DEF Spots
<1> QED BY <1>2, IdleSpot DEF RetryCall

(* A step that moves callers between "idle" and "ready" only and lets the  *)
(* clock of an open breaker alone.                                         *)
LEMMA BreakerWaits ==
  ASSUME BreakerInv, NEW c \in Callers, Start(c) \/ Abandon(c) \/ RejectCall(c)
  PROVE  BreakerInv'
<1>1. BreakerTypeOK'
  BY BreakerAssumption DEF BreakerInv, BreakerTypeOK, Start, Abandon, RejectCall, Goto, Idle
<1>2. Probes' = Probes /\ \A d \in Callers : InFlight(d)' => InFlight(d)
  BY DEF BreakerInv, BreakerTypeOK, Start, Abandon, RejectCall, Goto, Idle, Probes, InFlight
<1>3. UNCHANGED <<state, failures, age, probing, streak>>
  BY DEF Start, Abandon, RejectCall
<1> QED BY <1>1, <1>2, <1>3
     DEF BreakerInv, SlotHeld, CounterIsStreak, PromptInv, OneProbe, CooledDown

LEMMA BreakerPasses ==
  ASSUME BreakerInv, NEW c \in Callers, Pass(c)
  PROVE  BreakerInv'
<1>1. BreakerTypeOK'
  BY DEF BreakerInv, BreakerTypeOK, Pass, Goto
<1>2. Probes' = Probes
  BY DEF BreakerInv, BreakerTypeOK, Pass, Goto, Probes
<1>3. UNCHANGED <<state, failures, age, probing, streak>> /\ ~CooledDown'
  BY DEF Pass, CooledDown
<1> QED BY <1>1, <1>2, <1>3
     DEF BreakerInv, SlotHeld, CounterIsStreak, PromptInv, OneProbe

(* A prompt probe finds no other: the slot is free only when none is under *)
(* way, and nothing is when the cooldown ends.                             *)
LEMMA BreakerProbes ==
  ASSUME BreakerInv, NEW c \in Callers, Probe(c)
  PROVE  BreakerInv'
<1>1. BreakerTypeOK'
  BY DEF BreakerInv, BreakerTypeOK, Probe, Goto
<1>2. Probes' = Probes \cup {c}
  BY DEF BreakerInv, BreakerTypeOK, Probe, Goto, Probes
<1>3. /\ state' = "HALF_OPEN" /\ probing' = TRUE /\ ~CooledDown'
      /\ UNCHANGED <<failures, age, streak>>
  BY DEF Probe, CooledDown
<1>4. Prompt => Probes = {}
  <2>1. CASE CooledDown
    BY <2>1 DEF BreakerInv, PromptInv, Probes, InFlight
  <2>2. CASE state = "HALF_OPEN" /\ ~probing
    BY <2>2 DEF BreakerInv, PromptInv
  <2> QED BY <2>1, <2>2 DEF Probe
<1> QED BY <1>1, <1>2, <1>3, <1>4
     DEF BreakerInv, SlotHeld, CounterIsStreak, PromptInv, OneProbe

(* What every answer does to the places of the callers.                    *)
LEMMA BreakerAnswerFrame ==
  ASSUME BreakerTypeOK, NEW c \in Callers, AnswerCaller(c)
  PROVE  /\ InFlight(c) /\ ~InFlight(c)'
         /\ \A d \in Callers \ {c} : req'[d] = req[d]
         /\ Probes' = Probes \ {c}
         /\ c \in Probes <=> req[c].at = "probe"
         /\ req[c].at = "probe" => probing' = FALSE
         /\ req[c].at # "probe" => probing' = probing
<1>1. \E r \in [at : {"idle", "ready"}, attempt : 0 .. RetryLimit] :
        req' = [req EXCEPT ![c] = r]
  BY BreakerAssumption
     DEF AnswerCaller, Succeed, FailTransient, FailOther, RetryCall, Idle, BreakerTypeOK
<1>2. InFlight(c)
  BY DEF AnswerCaller, Succeed, FailTransient, FailedCall, FailedProbe, FailOther, InFlight
<1>3. /\ req[c].at = "probe" => probing' = FALSE
      /\ req[c].at # "probe" => probing' = probing
  BY DEF AnswerCaller, Succeed, FailTransient, FailedCall, FailedProbe, FailOther, BreakerTypeOK
<1> QED BY <1>1, <1>2, <1>3 DEF Probes, InFlight, BreakerTypeOK

LEMMA BreakerAnswerType ==
  ASSUME BreakerTypeOK, NEW c \in Callers, AnswerCaller(c)
  PROVE  BreakerTypeOK'
<1>1. req' \in [Callers -> Spots]
  <2>1. req \in [Callers -> Spots]
    BY DEF BreakerTypeOK, Spots
  <2>2. CASE Succeed(c) \/ FailOther(c)
    BY <2>1, <2>2, IdleSpot DEF Succeed, FailOther
  <2>3. CASE FailTransient(c)
    BY <2>1, <2>3, RetrySpots DEF FailTransient
  <2> QED BY <2>2, <2>3 DEF AnswerCaller
<1>2. probing' \in BOOLEAN
  BY BreakerAnswerFrame DEF BreakerTypeOK
<1>3. CASE Succeed(c) \/ FailOther(c)
  <2>1. /\ state' \in {"CLOSED", "OPEN", "HALF_OPEN"} /\ failures' \in Nat
    BY <1>3 DEF BreakerTypeOK, Succeed, FailOther
  <2>2. age' \in 0 .. Cooldown /\ streak' \in 0 .. Threshold /\ healthy' \in BOOLEAN
    BY <1>3, BreakerAssumption DEF BreakerTypeOK, Succeed, FailOther
  <2> QED BY <1>1, <1>2, <2>1, <2>2 DEF BreakerTypeOK, Spots
<1>4. CASE FailTransient(c)
  <2>1. /\ state' \in {"CLOSED", "OPEN", "HALF_OPEN"} /\ failures' \in Nat
    BY <1>4 DEF BreakerTypeOK, FailTransient, FailedCall, FailedProbe
  <2>2. age' \in 0 .. Cooldown /\ streak' \in 0 .. Threshold /\ healthy' \in BOOLEAN
    BY <1>4, BreakerAssumption DEF BreakerTypeOK, FailTransient
  <2> QED BY <1>1, <1>2, <2>1, <2>2 DEF BreakerTypeOK, Spots
<1> QED BY <1>3, <1>4 DEF AnswerCaller

LEMMA BreakerAnswerCounts ==
  ASSUME BreakerTypeOK, CounterIsStreak, NEW c \in Callers, AnswerCaller(c)
  PROVE  CounterIsStreak'
<1>1. CASE Succeed(c) \/ FailOther(c)
  BY <1>1 DEF BreakerTypeOK, CounterIsStreak, Succeed, FailOther
<1>2. CASE FailTransient(c)
  BY <1>2, BreakerAssumption
     DEF BreakerTypeOK, CounterIsStreak, FailTransient, FailedCall, FailedProbe
<1> QED BY <1>1, <1>2 DEF AnswerCaller

(* An answer never makes an open breaker cool, and closes it only when it  *)
(* is the answer of a probe.                                               *)
LEMMA BreakerAnswerState ==
  ASSUME BreakerTypeOK, NEW c \in Callers, AnswerCaller(c)
  PROVE  /\ CooledDown' => CooledDown
         /\ state' = "CLOSED" => state = "CLOSED" \/ c \in Probes
<1>1. CASE Succeed(c) \/ FailOther(c)
  BY <1>1 DEF BreakerTypeOK, Succeed, FailOther, CooledDown, Probes
<1>2. CASE FailTransient(c)
  BY <1>2, BreakerAssumption
     DEF BreakerTypeOK, FailTransient, FailedCall, FailedProbe, CooledDown
<1> QED BY <1>1, <1>2 DEF AnswerCaller

LEMMA BreakerAnswerStep ==
  ASSUME BreakerInv, NEW c \in Callers, AnswerCaller(c)
  PROVE  BreakerInv'
<1>1. BreakerTypeOK /\ CounterIsStreak /\ SlotHeld
  BY DEF BreakerInv
<1>2. BreakerTypeOK' /\ CounterIsStreak'
  BY <1>1, BreakerAnswerType, BreakerAnswerCounts
<1>3. SlotHeld'
  BY <1>1, BreakerAnswerFrame DEF SlotHeld
<1>4. ASSUME Prompt PROVE PromptInv'
  <2>1. PromptInv
    BY <1>4 DEF BreakerInv
  <2>2. OneProbe'
    BY <1>1, <2>1, BreakerAnswerFrame DEF PromptInv, OneProbe
  <2>3. Probes' # {} => probing' /\ state' # "CLOSED"
    <3>1. c \in Probes => Probes' = {}
      BY <1>1, <2>1, BreakerAnswerFrame DEF PromptInv, OneProbe
    <3>2. c \notin Probes => Probes' = Probes /\ probing' = probing
      BY <1>1, BreakerAnswerFrame
    <3> QED BY <1>1, <2>1, <3>1, <3>2, BreakerAnswerState DEF PromptInv
  <2>4. CooledDown' => \A d \in Callers : ~InFlight(d)'
    BY <1>1, <2>1, BreakerAnswerFrame, BreakerAnswerState DEF PromptInv
  <2> QED BY <2>2, <2>3, <2>4 DEF PromptInv
<1> QED BY <1>2, <1>3, <1>4 DEF BreakerInv

LEMMA BreakerTicks ==
  ASSUME BreakerInv, Tick
  PROVE  BreakerInv'
<1>1. BreakerTypeOK'
  BY BreakerAssumption DEF BreakerInv, BreakerTypeOK, Tick
<1>2. UNCHANGED <<state, failures, probing, req, streak>>
  BY DEF Tick
<1>3. (Prompt /\ CooledDown') => \A c \in Callers : ~InFlight(c)
  BY BreakerAssumption DEF BreakerInv, BreakerTypeOK, Tick, CooledDown
<1> QED BY <1>1, <1>2, <1>3
     DEF BreakerInv, SlotHeld, CounterIsStreak, PromptInv, OneProbe, Probes, InFlight

LEMMA BreakerRests ==
  ASSUME BreakerInv, UNCHANGED breakerVars \/ Weather
  PROVE  BreakerInv'
<1>1. UNCHANGED <<state, failures, age, probing, req, streak>> /\ healthy' \in BOOLEAN
  BY DEF breakerVars, Weather, BreakerInv, BreakerTypeOK
<1> QED BY <1>1 DEF BreakerInv, BreakerTypeOK, SlotHeld, CounterIsStreak, PromptInv, OneProbe,
     CooledDown, Probes, InFlight

LEMMA BreakerBegins == BreakerInit => BreakerInv
<1> SUFFICES ASSUME BreakerInit PROVE BreakerInv
  OBVIOUS
<1>1. BreakerTypeOK
  <2>1. req \in [Callers -> Spots]
    BY IdleSpot DEF BreakerInit
  <2>2. age \in 0 .. Cooldown /\ streak \in 0 .. Threshold
    BY BreakerAssumption DEF BreakerInit
  <2> QED BY <2>1, <2>2 DEF BreakerInit, BreakerTypeOK, Spots
<1>2. Probes = {} /\ ~CooledDown /\ ~probing /\ failures = 0 /\ streak = 0
  BY DEF BreakerInit, Idle, Probes, CooledDown
<1> QED BY <1>1, <1>2 DEF BreakerInv, SlotHeld, CounterIsStreak, PromptInv, OneProbe

LEMMA BreakerSteps == BreakerInv /\ [BreakerNext]_breakerVars => BreakerInv'
<1> SUFFICES ASSUME BreakerInv, [BreakerNext]_breakerVars PROVE BreakerInv'
  OBVIOUS
<1>1. ASSUME NEW c \in Callers, Start(c) \/ Abandon(c) \/ Enter(c) \/ AnswerCaller(c)
      PROVE  BreakerInv'
  BY <1>1, BreakerWaits, BreakerPasses, BreakerProbes, BreakerAnswerStep DEF Enter
<1> QED BY <1>1, BreakerTicks, BreakerRests DEF BreakerNext

THEOREM BreakerInvariantHolds == BreakerSpec => []BreakerInv
<1>1. BreakerInit => BreakerInv
  BY BreakerBegins
<1>2. BreakerInv /\ [BreakerNext]_breakerVars => BreakerInv'
  BY BreakerSteps
<1> QED BY <1>1, <1>2, PTL DEF BreakerSpec

(* A caller makes at most MaxRetries + 1 attempts.                         *)
THEOREM BreakerTypes == BreakerSpec => []BreakerTypeOK
<1>1. BreakerInv => BreakerTypeOK
  BY DEF BreakerInv
<1> QED BY <1>1, BreakerInvariantHolds, PTL

(* Whatever raises, the probe slot is taken only by a probe under way.     *)
THEOREM SlotNeverLeaks == BreakerSpec => []SlotHeld
<1>1. BreakerInv => SlotHeld
  BY DEF BreakerInv
<1> QED BY <1>1, BreakerInvariantHolds, PTL

(* When no call outlasts the cooldown, probes exclude each other.          *)
THEOREM ProbesExclude == ASSUME Prompt PROVE BreakerSpec => []OneProbe
<1>1. BreakerInv => OneProbe
  BY DEF BreakerInv, PromptInv
<1> QED BY <1>1, BreakerInvariantHolds, PTL

(* When no call outlasts the cooldown, only Threshold failures in a row    *)
(* open a closed breaker.                                                  *)
THEOREM OpensOnlyAfterStreak == ASSUME Prompt PROVE BreakerSpec => OpensAfterStreak
<1>1. BreakerInv /\ [BreakerNext]_breakerVars =>
        [(state = "CLOSED" /\ state' = "OPEN") => streak' = Threshold]_breakerVars
  <2> SUFFICES ASSUME BreakerInv, BreakerNext, state = "CLOSED", state' = "OPEN"
               PROVE  streak' = Threshold
    OBVIOUS
  <2>1. PICK c \in Callers : FailTransient(c)
    BY DEF BreakerNext, Start, Abandon, Enter, Pass, Probe, RejectCall, AnswerCaller, Succeed,
       FailOther, Tick, Weather, CooledDown
  <2>2. c \notin Probes /\ FailedCall(c)
    BY <2>1 DEF BreakerInv, PromptInv, FailTransient, FailedProbe, Probes
  <2> QED BY <2>1, <2>2, BreakerAssumption
       DEF BreakerInv, BreakerTypeOK, CounterIsStreak, FailTransient, FailedCall
<1> QED BY <1>1, BreakerInvariantHolds, PTL DEF BreakerSpec, OpensAfterStreak
=============================================================================
