------------------------ MODULE ExperimentLifecycle ------------------------
(***************************************************************************)
(* The life of one project (an Experiment row): the endpoints that move    *)
(* its status, the three background jobs they dispatch (research, landing  *)
(* page, insight) and the credits they take and give back.                 *)
(*                                                                         *)
(* A transaction is one step.  An endpoint that reads the row without      *)
(* FOR UPDATE reads it in one step and writes it in a later one, from what *)
(* it read; SQLAlchemy writes only the columns whose value it changed      *)
(* (Stored).  confirm and rerun lock the row, but commit the debit, which  *)
(* gives the lock up, before they move the status.  A job is an asyncio    *)
(* task of the same process: it writes the status whatever it finds there, *)
(* and dies with the process (Crash).                                      *)
(***************************************************************************)
EXTENDS Naturals, Sequences, FiniteSets

CONSTANTS
  Requests,       \* the requests; each runs at most one job and one debit
  Ops,            \* the endpoints the requests may call
  Starts,         \* the rows the project may start from
  MayRefuse,      \* TRUE when a dispatcher may raise DispatchError
  MaxFaults,      \* bound on crashes and on failed failure handlers
  NoRequest       \* "no task registered" in _active_tasks

AllOps == {"turn", "regenerate", "finalize", "reset", "confirm", "rerun",
           "landing", "publish", "insight", "archive", "unarchive"}

(* The phases of the research pipeline, in order.                           *)
Phases == <<"RESEARCH_PLANNING", "RESEARCH_SEARCHING", "RESEARCH_READING",
            "RESEARCH_REFLECTING", "RESEARCH_VOICES", "RESEARCH_SYNTHESIZING">>

ResearchActive == {"RESEARCHING"} \cup {Phases[i] : i \in 1..6}

Statuses == ResearchActive \cup
  {"SPARK", "DRAFT", "REFINING", "REFINED", "RESEARCH_READY", "RESEARCH_FAILED",
   "LANDING_GENERATING", "LANDING_DRAFT", "LANDING_LIVE",
   "INSIGHT_GENERATING", "INSIGHT_READY", "INSIGHT_FAILED", "ARCHIVED"}

(* idea: refined_idea; draft: refined_idea_current; report: validation      *)
(* report; page: landing page; live: its live_at (and with it a publish     *)
(* cohort); insight: insight report.                                        *)
Rows == [status : Statuses, idea : BOOLEAN, draft : BOOLEAN, report : BOOLEAN,
         page : BOOLEAN, live : BOOLEAN, insight : BOOLEAN]

ASSUME LifecycleAssumption ==
  /\ Ops \subseteq AllOps
  /\ MayRefuse \in BOOLEAN
  /\ MaxFaults \in Nat
  /\ NoRequest \notin Requests
  /\ Starts \subseteq Rows

(* The children a status s tells the founder row x has.                     *)
Promised(s, x) ==
  /\ s \in {"RESEARCH_READY", "LANDING_GENERATING"} => x.report
  /\ s = "LANDING_DRAFT" => x.page
  /\ s \in {"LANDING_LIVE", "INSIGHT_GENERATING", "INSIGHT_FAILED"} => x.live
  /\ s = "INSIGHT_READY" => x.insight

(* A page is generated from a report, published once it is there, and an    *)
(* insight is about a published page.                                      *)
Grown(x) ==
  /\ x.page => x.report
  /\ x.live => x.page
  /\ x.insight => x.live

Sound(x) == Promised(x.status, x) /\ Grown(x)

ASSUME StartAssumption == \A x \in Starts : Sound(x)

VARIABLES
  row,        \* the experiment with its children
  req,        \* what each request does, how far it is, the row it read
  task,       \* the job each request dispatched
  charge,     \* what the request's debit came to
  active,     \* the landing task registered for the experiment
  faults      \* crashes and failed failure handlers so far

vars == <<row, req, task, charge, active, faults>>

NoTask == [kind |-> "none", at |-> "none", step |-> 0, wasLive |-> FALSE]

(* What a request holds that has not selected the row, or has ended.        *)
Unread == [status |-> "SPARK", idea |-> FALSE, draft |-> FALSE, report |-> FALSE,
           page |-> FALSE, live |-> FALSE, insight |-> FALSE]

Init ==
  /\ row \in Starts
  /\ req = [r \in Requests |-> [op |-> "none", at |-> "new", seen |-> Unread]]
  /\ task = [r \in Requests |-> NoTask]
  /\ charge = [r \in Requests |-> "none"]
  /\ active = NoRequest
  /\ faults = 0

(***************************************************************************)
(* Requests                                                                *)
(***************************************************************************)
UserConfirmAllowed == {"REFINED", "RESEARCH_FAILED"}

EvidenceRerunAllowed ==
  {"RESEARCH_READY", "RESEARCH_FAILED", "LANDING_GENERATING", "LANDING_DRAFT",
   "LANDING_LIVE", "INSIGHT_GENERATING", "INSIGHT_READY", "INSIGHT_FAILED"}

ReopenStatuses ==
  {"REFINED", "RESEARCH_READY", "RESEARCH_FAILED", "LANDING_DRAFT",
   "LANDING_LIVE", "INSIGHT_READY", "INSIGHT_FAILED"}

FinalizeStatuses == ReopenStatuses \cup {"SPARK", "REFINING", "DRAFT"}

Running(t) == t.at \in {"load", "phase", "generate", "transit", "fail"}

(* landing_generation_in_progress                                          *)
LandingInProgress == active # NoRequest /\ Running(task[active])

(* What an endpoint without row lock accepts, else it answers 409.          *)
TurnAccepts == row.status \in ReopenStatuses \cup {"SPARK", "REFINING"}

RegenerateAccepts == row.status \in {"REFINED", "REFINING"}

LandingAccepts ==
  \/ row.status \in {"RESEARCH_READY", "LANDING_DRAFT", "LANDING_LIVE"}
  \/ row.status = "LANDING_GENERATING" /\ ~LandingInProgress

PublishAccepts == row.status = "LANDING_DRAFT" /\ row.page /\ ~row.live

Accepts(op) ==
  \/ op = "turn" /\ TurnAccepts
  \/ op = "regenerate" /\ RegenerateAccepts
  \/ op = "finalize" /\ row.draft
  \/ op = "reset"
  \/ op = "landing" /\ LandingAccepts
  \/ op = "publish" /\ PublishAccepts
  \/ op = "archive" /\ row.status # "ARCHIVED"
  \/ op = "unarchive" /\ row.status = "ARCHIVED"

At(r, op, where) == req[r].op = op /\ req[r].at = where

Goto(r, where) == req' = [req EXCEPT ![r].at = where]

Ended(where) == [op |-> "none", at |-> where, seen |-> Unread]

(* The response is sent and the session closed.                            *)
Answer(r) == req' = [req EXCEPT ![r] = Ended("done")]

Enter(r, op, where) ==
  /\ op \in Ops
  /\ req[r].at = "new"
  /\ req' = [req EXCEPT ![r] = [op |-> op, at |-> where, seen |-> row]]

(* A request selects the experiment.                                       *)
Read(r, op) ==
  /\ Accepts(op)
  /\ Enter(r, op, "read")
  /\ UNCHANGED <<row, task, charge, active, faults>>

(* It fails before its commit (an LLM error, a unique violation): get_session *)
(* rolls back.                                                             *)
Drop(r) ==
  /\ req[r].at = "read"
  /\ Answer(r)
  /\ UNCHANGED <<row, task, charge, active, faults>>

(* What a column holds once r has assigned v to it and flushed: nothing is  *)
(* written when v is the value r read.                                     *)
Stored(r, column, v) == IF req[r].seen[column] = v THEN row[column] ELSE v

(* The refined idea goes through unless it equals the one r read.           *)
StoredIdeas(r) == {TRUE} \cup (IF req[r].seen.idea THEN {row.idea} ELSE {})

(* A deep-research chat turn begins or reopens the refinement and may       *)
(* produce a new draft of the idea.                                        *)
TurnCommit(r) ==
  /\ At(r, "turn", "read")
  /\ \E drafted \in BOOLEAN :
       row' = [row EXCEPT !.status = Stored(r, "status", "REFINING"),
                          !.draft = @ \/ drafted]
  /\ Answer(r)
  /\ UNCHANGED <<task, charge, active, faults>>

(* The flushed REFINING and the final REFINED are one commit.               *)
RegenerateCommit(r) ==
  /\ At(r, "regenerate", "read")
  /\ \E idea \in StoredIdeas(r) :
       row' = [row EXCEPT !.status = "REFINED", !.idea = idea]
  /\ Answer(r)
  /\ UNCHANGED <<task, charge, active, faults>>

FinalizeCommit(r) ==
  /\ At(r, "finalize", "read")
  /\ \E idea \in StoredIdeas(r) :
       row' = [row EXCEPT
         !.status = IF req[r].seen.status \in FinalizeStatuses
                      THEN Stored(r, "status", "REFINED") ELSE @,
         !.idea = idea]
  /\ Answer(r)
  /\ UNCHANGED <<task, charge, active, faults>>

(* Whether evidence exists is asked again, just before the commit.          *)
ResetCommit(r) ==
  /\ At(r, "reset", "read")
  /\ row' = [row EXCEPT
       !.draft = Stored(r, "draft", FALSE),
       !.idea = IF row.report THEN @ ELSE Stored(r, "idea", FALSE),
       !.status = IF ~row.report /\ req[r].seen.status = "REFINED"
                    THEN "SPARK" ELSE @]
  /\ Answer(r)
  /\ UNCHANGED <<task, charge, active, faults>>

(* The first cohort is unique: a second one is dropped (see Drop).          *)
PublishCommit(r) ==
  /\ At(r, "publish", "read")
  /\ ~row.live
  /\ row' = [row EXCEPT !.status = "LANDING_LIVE", !.live = TRUE]
  /\ Answer(r)
  /\ UNCHANGED <<task, charge, active, faults>>

ArchiveCommit(r) ==
  /\ At(r, "archive", "read")
  /\ row' = [row EXCEPT !.status = "ARCHIVED"]
  /\ Answer(r)
  /\ UNCHANGED <<task, charge, active, faults>>

InferStatusAfterUnarchive(x) ==
  IF x.insight THEN "INSIGHT_READY"
  ELSE IF x.page THEN "LANDING_DRAFT"
  ELSE IF x.report THEN "RESEARCH_READY"
  ELSE IF x.idea THEN "REFINED"
  ELSE "DRAFT"

UnarchiveCommit(r) ==
  /\ At(r, "unarchive", "read")
  /\ row' = [row EXCEPT !.status = InferStatusAfterUnarchive(req[r].seen)]
  /\ Answer(r)
  /\ UNCHANGED <<task, charge, active, faults>>

(***************************************************************************)
(* confirm and rerun: debit, then launch, then dispatch                    *)
(***************************************************************************)
Billed == {"confirm", "rerun"}

(* SELECT ... FOR UPDATE, debit, commit: the lock is gone afterwards.       *)
ChargeResearch(r, op) ==
  /\ op \in Billed
  /\ row.status \notin ResearchActive
  /\ op = "confirm" => row.status \in UserConfirmAllowed
  /\ Enter(r, op, "charged")
  /\ charge' = [charge EXCEPT ![r] = "debited"]
  /\ UNCHANGED <<row, task, active, faults>>

(* refund_for_service does not ask what was given back before.              *)
Refund(r) ==
  charge' = [charge EXCEPT ![r] = IF @ = "debited" THEN "refunded" ELSE "overpaid"]

Allowed(op) == IF op = "confirm" THEN UserConfirmAllowed ELSE EvidenceRerunAllowed

(* transition_to_researching_and_dispatch up to its commit, on the object   *)
(* read before the debit.                                                  *)
Launch(r) ==
  /\ req[r].op \in Billed /\ req[r].at = "charged"
  /\ req[r].seen.status \in Allowed(req[r].op)
  /\ row' = [row EXCEPT !.status = "RESEARCHING"]
  /\ Goto(r, "dispatch")
  /\ UNCHANGED <<task, charge, active, faults>>

(* Mutant of RefuseLaunch: the handler of InvalidExperimentState answers    *)
(* without the refund.                                                     *)
RefuseUnrefunded(r) ==
  /\ req[r].op \in Billed /\ req[r].at = "charged"
  /\ req[r].seen.status \notin Allowed(req[r].op)
  /\ Answer(r)
  /\ UNCHANGED <<row, task, charge, active, faults>>

(* InvalidExperimentState: refund and 409.                                 *)
RefuseLaunch(r) ==
  /\ req[r].op \in Billed /\ req[r].at = "charged"
  /\ req[r].seen.status \notin Allowed(req[r].op)
  /\ Refund(r)
  /\ Answer(r)
  /\ UNCHANGED <<row, task, active, faults>>

(* asyncio.create_task                                                     *)
Spawn(r, kind, where, wasLive) ==
  task' = [task EXCEPT ![r] = [kind |-> kind, at |-> where, step |-> 1,
                               wasLive |-> wasLive]]

DispatchResearch(r) ==
  /\ req[r].op \in Billed /\ req[r].at = "dispatch"
  /\ Spawn(r, "research", "load", FALSE)
  /\ Answer(r)
  /\ UNCHANGED <<row, charge, active, faults>>

(* DispatchError: refund and 502; the status stays RESEARCHING.             *)
RefuseResearch(r) ==
  /\ MayRefuse
  /\ req[r].op \in Billed /\ req[r].at = "dispatch"
  /\ Refund(r)
  /\ Answer(r)
  /\ UNCHANGED <<row, task, active, faults>>

(***************************************************************************)
(* generate-insight: status and debit in one transaction under the lock     *)
(***************************************************************************)
InsightSources == {"LANDING_LIVE", "INSIGHT_READY", "INSIGHT_FAILED"}

ChargeInsight(r) ==
  /\ row.status \in InsightSources
  /\ Enter(r, "insight", "dispatch")
  /\ row' = [row EXCEPT !.status = "INSIGHT_GENERATING"]
  /\ charge' = [charge EXCEPT ![r] = "debited"]
  /\ UNCHANGED <<task, active, faults>>

DispatchInsight(r) ==
  /\ At(r, "insight", "dispatch")
  /\ Spawn(r, "insight", "generate", FALSE)
  /\ Answer(r)
  /\ UNCHANGED <<row, charge, active, faults>>

RefuseInsight(r) ==
  /\ MayRefuse
  /\ At(r, "insight", "dispatch")
  /\ row' = [row EXCEPT !.status = "INSIGHT_FAILED"]
  /\ Refund(r)
  /\ Answer(r)
  /\ UNCHANGED <<task, active, faults>>

(***************************************************************************)
(* generate-landing-page: no lock, no debit                                *)
(***************************************************************************)
StartLanding(r) ==
  /\ At(r, "landing", "read")
  /\ row' = [row EXCEPT !.status = Stored(r, "status", "LANDING_GENERATING")]
  /\ Goto(r, "dispatch")
  /\ UNCHANGED <<task, charge, active, faults>>

DispatchLanding(r) ==
  /\ At(r, "landing", "dispatch")
  /\ Spawn(r, "landing", "generate", req[r].seen.status = "LANDING_LIVE")
  /\ active' = r
  /\ Answer(r)
  /\ UNCHANGED <<row, charge, faults>>

RefuseLanding(r) ==
  /\ MayRefuse
  /\ At(r, "landing", "dispatch")
  /\ row' = [row EXCEPT !.status = "RESEARCH_READY"]
  /\ Answer(r)
  /\ UNCHANGED <<task, charge, active, faults>>

(***************************************************************************)
(* The research pipeline                                                   *)
(***************************************************************************)
Is(r, kind, where) == task[r].kind = kind /\ task[r].at = where

TaskTo(r, where) == task' = [task EXCEPT ![r].at = where]

Stopped(where) == [NoTask EXCEPT !.at = where]

TaskEnds(r, where) == task' = [task EXCEPT ![r] = Stopped(where)]

SetStatus(s) == row' = [row EXCEPT !.status = s]

(* The refined idea is loaded once, before the first phase.                 *)
LoadIdea(r) ==
  /\ Is(r, "research", "load")
  /\ row.idea
  /\ TaskTo(r, "phase")
  /\ UNCHANGED <<row, req, charge, active, faults>>

NoIdea(r) ==
  /\ Is(r, "research", "load")
  /\ ~row.idea
  /\ SetStatus("RESEARCH_FAILED")
  /\ TaskEnds(r, "over")
  /\ UNCHANGED <<req, charge, active, faults>>

EnterPhase(r) ==
  /\ Is(r, "research", "phase")
  /\ task[r].step <= Len(Phases)
  /\ SetStatus(Phases[task[r].step])
  /\ task' = [task EXCEPT ![r].step = @ + 1]
  /\ UNCHANGED <<req, charge, active, faults>>

(* Report and RESEARCH_READY are one commit.                                *)
FinishResearch(r) ==
  /\ Is(r, "research", "phase")
  /\ task[r].step > Len(Phases)
  /\ row' = [row EXCEPT !.status = "RESEARCH_READY", !.report = TRUE]
  /\ TaskEnds(r, "over")
  /\ UNCHANGED <<req, charge, active, faults>>

(* Mutant of FailResearch: the catch-all only logs.                         *)
FailResearchSilently(r) ==
  /\ Is(r, "research", "phase")
  /\ TaskEnds(r, "over")
  /\ UNCHANGED <<row, req, charge, active, faults>>

(* A phase fails, or the catch-all takes what escaped; nothing is refunded. *)
FailResearch(r) ==
  /\ Is(r, "research", "phase")
  /\ SetStatus("RESEARCH_FAILED")
  /\ TaskEnds(r, "over")
  /\ UNCHANGED <<req, charge, active, faults>>

(***************************************************************************)
(* The landing page job                                                    *)
(***************************************************************************)
MaxAttempts == 2

(* _cleanup, the task's done callback                                      *)
Deregister(r) == active' = IF active = r THEN NoRequest ELSE active

GeneratePage(r) ==
  /\ Is(r, "landing", "generate")
  /\ row.report /\ row.idea
  /\ row' = [row EXCEPT !.page = TRUE]
  /\ TaskTo(r, "transit")
  /\ UNCHANGED <<req, charge, active, faults>>

FinishLanding(r) ==
  /\ Is(r, "landing", "transit")
  /\ SetStatus(IF task[r].wasLive THEN "LANDING_LIVE" ELSE "LANDING_DRAFT")
  /\ TaskEnds(r, "over")
  /\ Deregister(r)
  /\ UNCHANGED <<req, charge, faults>>

(* An error of the attempt, in the generation or in the status write: once  *)
(* more, unless the report is missing.                                     *)
FailAttempt(r) ==
  /\ task[r].kind = "landing" /\ task[r].at \in {"generate", "transit"}
  /\ task' = [task EXCEPT ![r] =
       IF task[r].step < MaxAttempts /\ row.report
         THEN [task[r] EXCEPT !.at = "generate", !.step = task[r].step + 1]
         ELSE [task[r] EXCEPT !.at = "fail"]]
  /\ UNCHANGED <<row, req, charge, active, faults>>

(* Mutant of FailLanding: the status of success is written.                 *)
FailAsDraft(r) ==
  /\ Is(r, "landing", "fail")
  /\ SetStatus(IF task[r].wasLive THEN "LANDING_LIVE" ELSE "LANDING_DRAFT")
  /\ TaskEnds(r, "over")
  /\ Deregister(r)
  /\ UNCHANGED <<req, charge, faults>>

FailLanding(r) ==
  /\ Is(r, "landing", "fail")
  /\ SetStatus(IF task[r].wasLive THEN "LANDING_LIVE" ELSE "RESEARCH_READY")
  /\ TaskEnds(r, "over")
  /\ Deregister(r)
  /\ UNCHANGED <<req, charge, faults>>

(***************************************************************************)
(* The insight job                                                         *)
(***************************************************************************)
GenerateInsight(r) ==
  /\ Is(r, "insight", "generate")
  /\ row.report /\ row.live
  /\ row' = [row EXCEPT !.insight = TRUE]
  /\ TaskTo(r, "transit")
  /\ UNCHANGED <<req, charge, active, faults>>

FinishInsight(r) ==
  /\ Is(r, "insight", "transit")
  /\ SetStatus("INSIGHT_READY")
  /\ TaskEnds(r, "over")
  /\ UNCHANGED <<req, charge, active, faults>>

(* Mutant of FailInsight: the job tries again after the refund.             *)
RefundAndRetry(r) ==
  /\ task[r].kind = "insight" /\ Running(task[r])
  /\ Refund(r)
  /\ TaskTo(r, "generate")
  /\ UNCHANGED <<row, req, active, faults>>

(* _fail_insight_generation: refund and INSIGHT_FAILED in one commit.       *)
FailInsight(r) ==
  /\ task[r].kind = "insight" /\ Running(task[r])
  /\ SetStatus("INSIGHT_FAILED")
  /\ Refund(r)
  /\ TaskEnds(r, "over")
  /\ UNCHANGED <<req, active, faults>>

(***************************************************************************)
(* Faults                                                                  *)
(***************************************************************************)
(* The write of a failure handler fails too: the task ends, the row stays.  *)
GiveUp(r) ==
  /\ faults < MaxFaults
  /\ Running(task[r])
  /\ TaskEnds(r, "lost")
  /\ Deregister(r)
  /\ faults' = faults + 1
  /\ UNCHANGED <<row, req, charge>>

Pending(r) == req[r].at \notin {"new", "done", "lost"}

(* The process restarts: its requests and its tasks are gone.               *)
Crash ==
  /\ faults < MaxFaults
  /\ \E r \in Requests : Pending(r) \/ Running(task[r])
  /\ req' = [r \in Requests |-> IF Pending(r) THEN Ended("lost") ELSE req[r]]
  /\ task' = [r \in Requests |-> IF Running(task[r]) THEN Stopped("lost") ELSE task[r]]
  /\ active' = NoRequest
  /\ faults' = faults + 1
  /\ UNCHANGED <<row, charge>>

(***************************************************************************)
(* Next                                                                    *)
(***************************************************************************)
Commit(r) ==
  \/ TurnCommit(r) \/ RegenerateCommit(r) \/ FinalizeCommit(r) \/ ResetCommit(r)
  \/ PublishCommit(r) \/ ArchiveCommit(r) \/ UnarchiveCommit(r) \/ StartLanding(r)

Dispatch(r) ==
  \/ Launch(r) \/ RefuseLaunch(r)
  \/ DispatchResearch(r) \/ RefuseResearch(r)
  \/ DispatchInsight(r) \/ RefuseInsight(r)
  \/ DispatchLanding(r) \/ RefuseLanding(r)

Work(r) ==
  \/ LoadIdea(r) \/ NoIdea(r) \/ EnterPhase(r) \/ FinishResearch(r) \/ FailResearch(r)
  \/ GeneratePage(r) \/ FinishLanding(r) \/ FailAttempt(r) \/ FailLanding(r)
  \/ GenerateInsight(r) \/ FinishInsight(r) \/ FailInsight(r)

(* Every request was answered and every job has ended.                      *)
Quiet == \A r \in Requests : ~Pending(r) /\ ~Running(task[r])

(* The founder may leave the project as it is.                              *)
Rest == Quiet /\ UNCHANGED vars

Next ==
  \/ \E r \in Requests :
       \/ \E op \in Ops : Read(r, op)
       \/ \E op \in Ops : ChargeResearch(r, op)
       \/ ChargeInsight(r) \/ Drop(r)
       \/ Commit(r) \/ Dispatch(r) \/ Work(r) \/ GiveUp(r)
  \/ Crash
  \/ Rest

Spec == Init /\ [][Next]_vars

(* The event loop runs every task and every request past its first commit.  *)
FairSpec == Spec /\ \A r \in Requests : WF_vars(Dispatch(r)) /\ WF_vars(Work(r))

(***************************************************************************)
(* Properties                                                              *)
(***************************************************************************)
TypeOK ==
  /\ row \in Rows
  /\ req \in [Requests -> [op : AllOps \cup {"none"}, seen : Rows,
                at : {"new", "read", "charged", "dispatch", "done", "lost"}]]
  /\ task \in [Requests -> [kind : {"none", "research", "landing", "insight"},
                at : {"none", "load", "phase", "generate", "transit", "fail", "over", "lost"},
                step : 0 .. Len(Phases) + 1, wasLive : BOOLEAN]]
  /\ charge \in [Requests -> {"none", "debited", "refunded", "overpaid"}]
  /\ active \in Requests \cup {NoRequest}
  /\ faults \in 0 .. MaxFaults

(* What a status tells the founder is there is there, whatever order jobs,  *)
(* stale requests and crashes write the status in (Promised): no draft      *)
(* without a page, no live stage without a publication, no insight stage    *)
(* without an insight report (experiments.py, the dispatchers).             *)
ArtifactsBehindStatus == Promised(row.status, row)

(* The strengthening under which ArtifactsBehindStatus is inductive: the    *)
(* children only ever appear, so what a request read or a job was started   *)
(* on is still there when the status is written.                           *)
Children(x, y) ==
  /\ x.report => y.report
  /\ x.page => y.page
  /\ x.live => y.live
  /\ x.insight => y.insight

RequestBacked(q, x) ==
  /\ Sound(q.seen) /\ Children(q.seen, x)
  /\ q.op = "publish" /\ q.at = "read" => q.seen.page
  /\ q.op = "landing" /\ q.at \in {"read", "dispatch"} => q.seen.report
  /\ q.op = "insight" /\ q.at = "dispatch" => x.live

TaskBacked(t, x) ==
  /\ t.kind = "landing" => x.report /\ (t.wasLive => x.live)
  /\ t.kind = "landing" /\ t.at = "transit" => x.page
  /\ t.kind = "insight" => x.live
  /\ t.kind = "insight" /\ t.at = "transit" => x.insight

TypeInv == TypeOK /\ \A r \in Requests : task[r].kind # "none" => task[r].step >= 1

LifecycleInv ==
  /\ TypeInv
  /\ Sound(row)
  /\ \A r \in Requests : RequestBacked(req[r], row) /\ TaskBacked(task[r], row)

(* Once a billed request has been answered, its credits were given back or  *)
(* its job was started (confirm_research, rerun_evidence, generate_insight).*)
ChargeSettled ==
  \A r \in Requests :
    req[r].at = "done" /\ charge[r] = "debited" => task[r].at # "none"

(* Where the purchase with debit c, request q and job t stands; "free" is   *)
(* no state of an order: a job that runs on credits given back, or credits  *)
(* given back twice.                                                       *)
Purchase(c, q, t) ==
  IF c = "none" THEN "new"
  ELSE IF c = "refunded" /\ ~Running(t) THEN "refunded"
  ELSE IF c # "debited" THEN "free"
  ELSE IF Running(t) THEN "running"
  ELSE IF t.at = "over" THEN "done"
  ELSE IF t.at = "lost" \/ q.at = "lost" THEN "lost"
  ELSE "paid"

PaidOrder == [r \in Requests |-> Purchase(charge[r], req[r], task[r])]

Paid == INSTANCE PaidWork WITH Orders <- Requests, order <- PaidOrder

(* Credits are only debited for a request that is on its way to its job,    *)
(* or whose job has started; the refinement to PaidWork rests on it.        *)
Costs(q) == q.op \in Billed \cup {"insight"}

PurchaseKept(c, q, t) ==
  /\ q.at \in {"new", "read"} => c = "none"
  /\ q.at = "charged" => c = "debited"
  /\ q.at = "dispatch" => c = (IF Costs(q) THEN "debited" ELSE "none")
  /\ q.at # "done" => t.at = "none"
  /\ q.at = "done" /\ c = "debited" => t.at # "none"
  /\ Running(t) => c = (IF t.kind = "landing" THEN "none" ELSE "debited")

PurchaseInv == \A r \in Requests : PurchaseKept(charge[r], req[r], task[r])

(* The billed jobs keep the promise of PaidWork: no job runs on credits     *)
(* that were given back, nothing is given back twice.                       *)
ImplementsPaidWork == Paid!WorkSpec

(* A project that shows a job in progress leaves that status: no job that   *)
(* is not refused, lost or abandoned leaves the founder waiting.            *)
Busy == row.status \in ResearchActive \cup {"LANDING_GENERATING", "INSIGHT_GENERATING"}

BusyEnds == Busy ~> ~Busy

(* Research starts only from a status its trigger allows ("Single source of *)
(* truth for the REFINED|REFINING|RESEARCH_FAILED -> RESEARCHING            *)
(* transition", dispatch_service.py).                                       *)
ResearchStartsAllowed ==
  [][\A r \in Requests : Launch(r) => row.status \in Allowed(req[r].op)]_vars

(* An archived project stays archived until it is unarchived (enums.py      *)
(* lists ARCHIVED under "Terminal").                                        *)
ArchivedIsTerminal ==
  [][row.status = "ARCHIVED" /\ row'.status # "ARCHIVED"
       => \E r \in Requests : UnarchiveCommit(r)]_vars

(* A page that is ready to publish and has been published before can be     *)
(* published: publish refers such a page to republish, which needs          *)
(* LANDING_LIVE (publish_landing_page, republish_landing_page).             *)
DraftCanBePublished == row.status = "LANDING_DRAFT" => ~row.live

(* Reset clears the refined idea only "if Evidence has not run"             *)
(* (reset_refinement_session_endpoint): every report has its idea.          *)
ReportHasIdea == row.report => row.idea
=============================================================================
