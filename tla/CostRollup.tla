----------------------------- MODULE CostRollup -----------------------------
(***************************************************************************)
(* How the administration adds up what was spent (cost/rollup.py).  An     *)
(* entry is a row of llm_calls or external_api_calls: e.cost is its price, *)
(* e.about the call it was written for - the table (source), the phase or  *)
(* service, the provider and the experiment.  The filters on time apply to *)
(* both tables alike and are left out, as are labels and sort orders.      *)
(***************************************************************************)
EXTENDS Naturals, FiniteSetsExt

CONSTANTS
  Experiments,  \* the experiments
  Owner,        \* the user each belongs to
  Category      \* the product category of each phase and of each service

NoExperiment == "none"

ASSUME RollupAssumption == NoExperiment \notin Experiments /\ DOMAIN Owner = Experiments

Cost(S) == MapThenSumSet(LAMBDA e : e.cost, S)
Llm(S) == {e \in S : e.about.source = "llm"}
External(S) == {e \in S : e.about.source = "external"}

\* The rows that belong to an experiment; only these reach a user.
Scoped(S) == {e \in S : e.about.experiment # NoExperiment}

\* SELECT key, sum(cost_usd), count(id) ... GROUP BY key.
Grouped(S, Key(_)) ==
  [k \in {Key(e) : e \in S} |->
     LET G == {e \in S : Key(e) = k} IN [cost |-> Cost(G), calls |-> Cardinality(G)]]

\* The groups of the two tables under their common keys.
Of(groups, k) == IF k \in DOMAIN groups THEN groups[k] ELSE [cost |-> 0, calls |-> 0]

\* Mutant of Merged: the rows of the second table take the place of the first's.
MergedOver(llm, external) ==
  [k \in DOMAIN llm \cup DOMAIN external |->
     [llm |-> IF k \in DOMAIN external THEN [cost |-> 0, calls |-> 0] ELSE llm[k],
      external |-> Of(external, k)]]

Merged(llm, external) ==
  [k \in DOMAIN llm \cup DOMAIN external |->
     [llm |-> Of(llm, k), external |-> Of(external, k)]]

ByCategory(S) ==
  LET Key(e) == Category[e.about.phase] IN Merged(Grouped(Llm(S), Key), Grouped(External(S), Key))

ByExperiment(S) ==
  LET Key(e) == e.about.experiment
  IN Merged(Grouped(Llm(Scoped(S)), Key), Grouped(External(Scoped(S)), Key))

ByUser(S) ==
  LET Key(e) == Owner[e.about.experiment]
  IN Merged(Grouped(Llm(Scoped(S)), Key), Grouped(External(Scoped(S)), Key))

\* One line for each provider of each table.
ByProvider(S) == Grouped(S, LAMBDA e : <<e.about.source, e.about.provider>>)

\* The phases of each experiment of a user.
Breakdown(S, user) ==
  LET mine == {e \in Scoped(S) : Owner[e.about.experiment] = user}
  IN Grouped(mine, LAMBDA e : <<e.about.experiment, e.about.source, e.about.phase>>)

\* What a table of merged groups, or of plain ones, adds up to.
MergedCost(groups) ==
  MapThenSumSet(LAMBDA k : groups[k].llm.cost + groups[k].external.cost, DOMAIN groups)
GroupedCost(groups) == MapThenSumSet(LAMBDA k : groups[k].cost, DOMAIN groups)
=============================================================================
