-------------------------- MODULE ResearchPipeline --------------------------
(***************************************************************************)
(* One run of the research engine (research_engine_service.py): the        *)
(* planner asks questions, the searcher finds pages for each, the reader   *)
(* extracts evidence from them, the reflector searches and reads again     *)
(* where the evidence is thin, voices are collected and the synthesizer    *)
(* writes a report that cites pages of the evidence.                       *)
(*                                                                         *)
(* Every phase asks its questions in parallel (asyncio.gather) and waits   *)
(* for all answers. The tasks of a phase share nothing but the session,    *)
(* whose writes session_lock.py makes serial, and each answers for its own *)
(* question: their order is not visible, and a phase is one step that      *)
(* takes any combination of answers.                                       *)
(*                                                                         *)
(* A page is a URL, an item one piece of extracted evidence. Scores are    *)
(* left out: any TopN pages may be the best ones.                          *)
(***************************************************************************)
EXTENDS Naturals, FiniteSets

CONSTANTS
  Questions,     \* the numbers of the plan's questions, in plan order
  Pages,         \* the URLs
  Items,         \* the pieces of evidence a model may extract
  Page,          \* the URL each of them quotes
  Domain,        \* the domain of each URL
  TopN,          \* pages kept for each question
  AtomCap,       \* items of each question the synthesizer is given
  Sparse,        \* evidence of this size or less is thin
  MaxScheduled,  \* questions searched again in one wave
  MaxWaves,      \* waves of the reflector
  Tolerance      \* the part of invented URLs above which an extraction is discarded

ASSUME PipelineAssumption ==
  /\ Questions \subseteq Nat /\ IsFiniteSet(Questions) /\ IsFiniteSet(Items)
  /\ IsFiniteSet(Pages)
  /\ Page \in [Items -> Pages]
  /\ TopN \in Nat /\ AtomCap \in Nat /\ Sparse \in Nat
  /\ MaxScheduled \in Nat /\ MaxWaves \in Nat
  /\ Tolerance \in [num : Nat, den : Nat \ {0}]

VARIABLES
  stage,    \* where the task is
  status,   \* experiments.status, as committed
  given,    \* search results and reader outputs of the orchestrator
  current,  \* those of the reflector while it works
  hits,     \* questions with new search results, not read again yet
  wave,     \* waves begun
  called,   \* phases that have called a service
  saved,    \* phases whose calls are committed as LLMCall or ExternalAPICall rows
  report,   \* the validation report this run has committed, and what it cites
  cut       \* the process died, or the database refused the session

pipelineVars == <<stage, status, given, current, hits, wave, called, saved, report, cut>>

Stages == {"load", "plan", "search", "read", "reflect", "reread", "voices", "synthesize",
           "over"}
RunStatuses ==
  {"RESEARCHING", "RESEARCH_PLANNING", "RESEARCH_SEARCHING", "RESEARCH_READING",
   "RESEARCH_REFLECTING", "RESEARCH_VOICES", "RESEARCH_SYNTHESIZING",
   "RESEARCH_READY", "RESEARCH_FAILED"}
Verdicts == {"RESEARCH_READY", "RESEARCH_FAILED"}
PhaseNames == {"plan", "search", "read", "reflect", "voices", "synthesize"}
Output == [items : SUBSET Items, gap : BOOLEAN]
Findings == [found : [Questions -> SUBSET Pages], read : [Questions -> Output]]

NotRead == [items |-> {}, gap |-> FALSE]
Nothing == [found |-> [q \in Questions |-> {}], read |-> [q \in Questions |-> NotRead]]

\* What a question gets whose extraction failed or invented too many URLs.
Sentinel == [items |-> {}, gap |-> TRUE]

-----------------------------------------------------------------------------
(* Results and evidence.                                                    *)

\* The best n of a set, whatever the scores.
Best(S, n) ==
  IF Cardinality(S) <= n THEN {S} ELSE {B \in SUBSET S : Cardinality(B) = n}

\* Each question's results cut to the best TopN.
Capped(F) ==
  {f \in [Questions -> UNION {Best(F[q], TopN) : q \in Questions}] :
      \A q \in Questions : f[q] \in Best(F[q], TopN)}

\* The URL guard: what remains of a draft, and whether too much was invented.
Supported(draft, pages) == {i \in draft : Page[i] \in pages}
Invented(draft, pages) ==
  Tolerance.num * Cardinality(draft)
    < Tolerance.den * Cardinality(draft \ Supported(draft, pages))

\* What reading these pages may yield.
Outputs(pages) ==
  {Sentinel} \cup
  {[items |-> Supported(d, pages), gap |-> g] :
      d \in {e \in SUBSET Items : ~Invented(e, pages)}, g \in BOOLEAN}

\* What reading the questions of H makes of these findings: the outputs of the others stay.
ReadOnce(w, H) ==
  {[w EXCEPT !.read = [q \in Questions |-> IF q \in H THEN r[q] ELSE w.read[q]]] :
      r \in {r \in [H -> UNION {Outputs(w.found[q]) : q \in H}] :
               \A q \in H : r[q] \in Outputs(w.found[q])}}

\* The rules of the reflector: a gap is noted, the evidence is thin, or it is of one domain.
Thin(o) ==
  \/ o.gap
  \/ Cardinality(o.items) <= Sparse
  \/ /\ Cardinality(o.items) >= 2
     /\ Cardinality({Domain[Page[i]] : i \in o.items}) <= 1

Flagged(w) == {q \in Questions : Thin(w.read[q])}

\* The first MaxScheduled of them, in plan order.
Scheduled(w) ==
  {q \in Flagged(w) : Cardinality({p \in Flagged(w) : p <= q}) <= MaxScheduled}

\* The evidence of each question cut to the most relevant items.
Prompted(w) ==
  {e \in [Questions -> SUBSET Items] :
      \A q \in Questions : e[q] \in Best(w.read[q].items, AtomCap)}

AllowedPages(e) == {Page[i] : i \in UNION {e[q] : q \in Questions}}
HydrationIndex(w) == UNION {w.found[q] : q \in Questions}

-----------------------------------------------------------------------------
(* The orchestrator.                                                        *)

PipelineInit ==
  /\ stage = "load" /\ status = "RESEARCHING"
  /\ given = Nothing /\ current = Nothing
  /\ hits = {} /\ wave = 0
  /\ called = {} /\ saved = {}
  /\ report = [new |-> FALSE, cites |-> {}]
  /\ cut = FALSE

Call(phase) == called' = called \cup {phase}

\* Mutant of CommitStatus: a failure is written after a rollback.
CommitAfterRollback(s) ==
  status' = s /\ saved' = IF s = "RESEARCH_FAILED" THEN saved ELSE called'

\* A commit writes the status and every row flushed before it.
CommitStatus(s) == status' = s /\ saved' = called'

Advance(s, next) == CommitStatus(s) /\ stage' = next

Fail == Advance("RESEARCH_FAILED", "over") /\ UNCHANGED <<given, current, hits, wave, report, cut>>

\* The idea is loaded; a missing or malformed one fails the run.
Load ==
  /\ stage = "load" /\ called' = called
  /\ \/ Fail
     \/ /\ Advance("RESEARCH_PLANNING", "plan")
        /\ UNCHANGED <<given, current, hits, wave, report, cut>>

Plan ==
  /\ stage = "plan" /\ Call("plan")
  /\ \/ Fail
     \/ /\ Advance("RESEARCH_SEARCHING", "search")
        /\ UNCHANGED <<given, current, hits, wave, report, cut>>

\* All searches of all questions; it fails only when every single one does.
Search ==
  /\ stage = "search" /\ Call("search")
  /\ \/ Fail
     \/ /\ \E f \in [Questions -> {P \in SUBSET Pages : Cardinality(P) <= TopN}] :
             given' = [given EXCEPT !.found = f]
        /\ Advance("RESEARCH_READING", "read")
        /\ UNCHANGED <<current, hits, wave, report, cut>>

\* All questions are read. No evidence for any of them fails the run.
ReadPages ==
  /\ stage = "read" /\ Call("read")
  /\ \E w \in ReadOnce(given, Questions) :
       IF \A q \in Questions : w.read[q].items = {}
       THEN Fail
       ELSE /\ given' = w /\ current' = w
            /\ Advance("RESEARCH_REFLECTING", "reflect")
            /\ UNCHANGED <<hits, wave, report, cut>>

-----------------------------------------------------------------------------
(* The reflector.                                                           *)

\* What the reflector returns.
Return(w) ==
  /\ given' = w /\ current' = Nothing
  /\ hits' = {} /\ wave' = 0
  /\ Advance("RESEARCH_VOICES", "voices")
  /\ UNCHANGED <<report, cut>>

\* New results added to those there are.
Merged(F, new) == [q \in Questions |-> F[q] \cup IF q \in DOMAIN new THEN new[q] ELSE {}]

\* Nothing is thin or the waves are used up.
Settle ==
  /\ stage = "reflect"
  /\ wave = MaxWaves \/ Flagged(current) = {}
  /\ called' = called /\ Return(current)

\* No query could be refined, or no search brought a page.
Fizzle ==
  /\ stage = "reflect"
  /\ wave < MaxWaves /\ Flagged(current) # {}
  /\ Call("reflect") /\ Return(current)

\* Mutant of SearchAgain: waves are not counted.
SearchAgainForEver ==
  /\ stage = "reflect" /\ wave < MaxWaves
  /\ \E H \in SUBSET Scheduled(current) \ {{}} : hits' = H
  /\ stage' = "reread" /\ Call("reflect")
  /\ UNCHANGED <<status, given, current, wave, saved, report, cut>>

\* Refined queries bring pages for some of the scheduled questions. The results are
\* merged, ranked and cut to TopN again.
SearchAgain ==
  /\ stage = "reflect" /\ wave < MaxWaves
  /\ \E H \in SUBSET Scheduled(current) \ {{}} :
       /\ \E new \in [H -> SUBSET Pages \ {{}}] : \E f \in Capped(Merged(current.found, new)) :
            current' = [current EXCEPT !.found = f]
       /\ hits' = H
  /\ wave' = wave + 1
  /\ stage' = "reread" /\ Call("reflect")
  /\ UNCHANGED <<status, given, saved, report, cut>>

\* Mutant of ReadAgain: a failed extraction leaves the earlier evidence.
ReadAgainOrKeep ==
  /\ stage = "reread"
  /\ \E w \in ReadOnce(current, hits) :
       current' = [w EXCEPT !.read = [q \in Questions |->
                     IF w.read[q] = Sentinel THEN current.read[q] ELSE w.read[q]]]
  /\ hits' = {} /\ stage' = "reflect"
  /\ UNCHANGED <<status, given, wave, called, saved, report, cut>>

\* The questions with new pages are read again and their outputs replaced,
\* _extract_for_question answering a failure with the sentinel.
ReadAgain ==
  /\ stage = "reread"
  /\ current' \in ReadOnce(current, hits)
  /\ hits' = {} /\ stage' = "reflect"
  /\ UNCHANGED <<status, given, wave, called, saved, report, cut>>

\* An error in the reflector: the orchestrator keeps what it had.
Degrade ==
  /\ stage \in {"reflect", "reread"}
  /\ called' = called /\ Return(given)

-----------------------------------------------------------------------------
(* The last phases.                                                         *)

\* Voices are collected or skipped; then the reasoning engine runs, whose error
\* is one of the orchestrator.
Voices ==
  /\ stage = "voices" /\ Call("voices")
  /\ \/ Fail
     \/ /\ Advance("RESEARCH_SYNTHESIZING", "synthesize")
        /\ UNCHANGED <<given, current, hits, wave, report, cut>>

\* The draft's citations must be pages of the evidence it was given, and the index must
\* know them.
Accepted(e, C) == C \subseteq AllowedPages(e) /\ C \subseteq HydrationIndex(given)

Synthesize ==
  /\ stage = "synthesize" /\ Call("synthesize")
  /\ \/ Fail
     \/ \E e \in Prompted(given), C \in SUBSET Pages :
          /\ Accepted(e, C)
          /\ report' = [new |-> TRUE, cites |-> C]
          /\ Advance("RESEARCH_READY", "over")
          /\ UNCHANGED <<given, current, hits, wave, cut>>

\* The process ends, or the database refuses a statement. The handlers write on the
\* same session without a rollback, so after such a refusal nothing more is written.
Cut ==
  /\ stage # "over" /\ stage' = "over" /\ cut' = TRUE
  /\ UNCHANGED <<status, given, current, hits, wave, called, saved, report>>

RunStep ==
  \/ Load \/ Plan \/ Search \/ ReadPages
  \/ Settle \/ Fizzle \/ SearchAgain \/ ReadAgain \/ Degrade
  \/ Voices \/ Synthesize

PipelineNext == RunStep \/ Cut

PipelineSpec == PipelineInit /\ [][PipelineNext]_pipelineVars

(* The event loop runs the task and every call is answered or times out.    *)
FairPipelineSpec == PipelineSpec /\ WF_pipelineVars(RunStep)

-----------------------------------------------------------------------------
(* Properties.                                                              *)

PipelineTypeOK ==
  /\ stage \in Stages /\ status \in RunStatuses
  /\ given \in Findings /\ current \in Findings
  /\ hits \subseteq Questions /\ wave \in 0..MaxWaves
  /\ called \subseteq PhaseNames /\ saved \subseteq PhaseNames
  /\ report \in [new : BOOLEAN, cites : SUBSET Pages] /\ cut \in BOOLEAN

Grounded(w) == \A q \in Questions : \A i \in w.read[q].items : Page[i] \in w.found[q]

(* Whatever the waves merge, cut and read again, evidence quotes only pages *)
(* still among the results of its question: a citation that passes the      *)
(* synthesizer's allow-list is in the hydration index, and the error        *)
(* "hydration index missing URL that passed URL guard" is never raised      *)
(* (_rank_and_cap_per_question, _merge_reader_outputs, _hydrate_draft).     *)
CitationsResolve ==
  /\ Grounded(given) /\ (stage = "reflect" => Grounded(current))
  /\ \A e \in Prompted(given) : AllowedPages(e) \subseteq HydrationIndex(given)

(* The report is saved exactly when the run ends well: "RESEARCH_FAILED     *)
(* (research_error_detail written, report NOT saved)", and a crash leaves   *)
(* neither half (run_research_engine_pipeline).                             *)
AllOrNothing == report.new <=> status = "RESEARCH_READY"

(* A run that ends by itself, well or not, has committed the rows of all    *)
(* calls it paid for ("Persist Tavily/Trends ExternalAPICall rows before    *)
(* later phases can fail").                                                 *)
SpendIsKept == stage = "over" /\ ~cut => saved = called

(* Every run comes to a verdict the founder sees, unless it is cut off:     *)
(* the waves end (execute_reflector) and every error is caught.             *)
ComesToAVerdict == <>(cut \/ status \in Verdicts)

(* "The Synthesizer is never asked to synthesize from nothing" (ADR 0012),  *)
(* for "do not overwrite good prior output" on a failed re-read             *)
(* (b3-reflector-phase.md). The code does: MCResearchReread.cfg shows it.  *)
NeverFromNothing ==
  stage = "synthesize" => \E q \in Questions : given.read[q].items # {}

(***************************************************************************)
(* The inductive invariant.                                                *)
(***************************************************************************)

\* No question has more than TopN pages, so cutting the others changes nothing.
WithinTopN ==
  \A q \in Questions : /\ Cardinality(given.found[q]) <= TopN
                       /\ Cardinality(current.found[q]) <= TopN

\* Between a search and the reading only the questions to be read again may quote
\* pages that were cut.
StaleOnlyInHits ==
  stage \in {"reflect", "reread"} =>
    \A q \in Questions \ hits : \A i \in current.read[q].items : Page[i] \in current.found[q]

HitsAreRead == hits # {} => stage \in {"reread", "over"}

NothingYet == stage \in {"load", "plan", "search"} => given = Nothing

VerdictIsLast == status \in Verdicts => stage = "over"

PipelineInv ==
  /\ PipelineTypeOK /\ WithinTopN /\ Grounded(given) /\ StaleOnlyInHits /\ HitsAreRead
  /\ NothingYet /\ VerdictIsLast /\ AllOrNothing /\ SpendIsKept
=============================================================================
