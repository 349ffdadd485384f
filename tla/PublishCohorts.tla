--------------------------- MODULE PublishCohorts ---------------------------
(***************************************************************************)
(* The publications of one landing page: publish and republish, the page   *)
(* views and signups of visitors, the purchase of the metrics and the      *)
(* insight report, which count the visitors of the open cohort.            *)
(*                                                                         *)
(* Each request is one transaction at READ COMMITTED.  What it selects     *)
(* without FOR UPDATE may have changed when it writes.  unlock-metrics and *)
(* generate-insight hold the experiment row FOR UPDATE; whatever updates   *)
(* that row, or inserts a row that refers to it, waits for them.           *)
(***************************************************************************)
EXTENDS Integers, Sequences

CONSTANTS
  Requests,     \* the requests; each is made once
  Ops,          \* the endpoints they may call
  MinViews,     \* MIN_PAGE_VIEWS
  MinSignups,   \* MIN_SIGNUPS
  MinDays,      \* MIN_DAYS_LIVE
  NoRequest     \* no transaction holds the experiment row

AllOps == {"publish", "republish", "view", "signup", "unlock", "insight"}

ASSUME CohortAssumption ==
  /\ Ops \subseteq AllOps
  /\ NoRequest \notin Requests
  /\ MinViews \in Nat \ {0} /\ MinSignups \in Nat \ {0} /\ MinDays \in Nat \ {0}

VARIABLES
  status,    \* of the experiment
  live,      \* landing_pages.live_at is set
  cohorts,   \* landing_page_publishes in the order of their insertion
  orphans,   \* page views and signups without a publish_id
  metrics,   \* debits of metricsAnalysis for the experiment
  report,    \* the cohort of the insight report, 0 when there is none
  lock,      \* the transaction that holds the experiment row
  req        \* what each request does, how far it is, the cohorts it found

vars == <<status, live, cohorts, orphans, metrics, report, lock, req>>

InsightSources == {"LANDING_LIVE", "INSIGHT_READY", "INSIGHT_FAILED"}

(* "OTHER" stands for every status that none of these requests asks for.    *)
Statuses == InsightSources \cup
  {"LANDING_DRAFT", "INSIGHT_GENERATING", "ARCHIVED", "OTHER"}

(* A row of landing_page_publishes, the rows that refer to it and the days  *)
(* since it was published, counted no further than MinDays.                 *)
Cohort(n) == [number |-> n, open |-> TRUE, views |-> 0, signups |-> 0, days |-> 0]

New == [op |-> "none", at |-> "new", cohort |-> 0, judged |-> 0]

Init ==
  /\ status = "LANDING_DRAFT" /\ live = FALSE /\ cohorts = <<>>
  /\ orphans = 0 /\ metrics = 0 /\ report = 0
  /\ lock = NoRequest
  /\ req = [r \in Requests |-> New]

-----------------------------------------------------------------------------
Rows == DOMAIN cohorts

(* get_open_cohort: the open row with the highest number, 0 for None.       *)
IsOpenCohort(i) ==
  \/ /\ i \in Rows /\ cohorts[i].open
     /\ \A j \in Rows : cohorts[j].open => cohorts[j].number <= cohorts[i].number
  \/ i = 0 /\ \A j \in Rows : ~cohorts[j].open

(* The unique constraint over (landing_page_id, publish_number).            *)
NumberIsFree(n) == \A i \in Rows : cohorts[i].number # n

At(r, op, where) == req[r].op = op /\ req[r].at = where

Goto(r, where) == req' = [req EXCEPT ![r].at = where]

Enter(r, op, where) ==
  /\ op \in Ops /\ req[r].at = "new"
  /\ req' = [req EXCEPT ![r] = [New EXCEPT !.op = op, !.at = where]]

Found(r, i, where) == req' = [req EXCEPT ![r].cohort = i, ![r].at = where]

Done(r) == req' = [req EXCEPT ![r] = [New EXCEPT !.at = "done"]]

Unlocked == lock = NoRequest

Release(r) == lock' = IF lock = r THEN NoRequest ELSE lock

data == <<status, live, cohorts, orphans, metrics, report>>

(* A refusal, a lost race for a publish number, not enough credits, a lost  *)
(* connection: rollback.                                                    *)
Drop(r) ==
  /\ req[r].at \in {"read", "close", "visit", "record", "locked", "judge", "buy"}
  /\ Done(r) /\ Release(r)
  /\ UNCHANGED data

-----------------------------------------------------------------------------
(* publish and republish.                                                   *)

PublishRead(r) ==
  /\ status = "LANDING_DRAFT" /\ cohorts = <<>>
  /\ Enter(r, "publish", "read")
  /\ UNCHANGED <<data, lock>>

(* Mutant of PublishCommit: live_at is committed before the cohort.         *)
PublishLiveFirst(r) ==
  /\ At(r, "publish", "read") /\ Unlocked
  /\ status' = "LANDING_LIVE" /\ live' = TRUE
  /\ IF live /\ NumberIsFree(1)
       THEN cohorts' = Append(cohorts, Cohort(1)) /\ Done(r)
       ELSE UNCHANGED <<cohorts, req>>
  /\ UNCHANGED <<orphans, metrics, report, lock>>

PublishCommit(r) ==
  /\ At(r, "publish", "read") /\ Unlocked
  /\ NumberIsFree(1)
  /\ status' = "LANDING_LIVE" /\ live' = TRUE
  /\ cohorts' = Append(cohorts, Cohort(1))
  /\ Done(r)
  /\ UNCHANGED <<orphans, metrics, report, lock>>

RepublishRead(r) ==
  /\ status = "LANDING_LIVE" /\ live
  /\ ~IsOpenCohort(0)
  /\ Enter(r, "republish", "read")
  /\ UNCHANGED <<data, lock>>

(* close_and_open_next_cohort selects the open cohort once more.            *)
RepublishFind(r) ==
  /\ At(r, "republish", "read")
  /\ \E i \in Rows : IsOpenCohort(i) /\ Found(r, i, "close")
  /\ UNCHANGED <<data, lock>>

(* Mutant of RepublishCommit: no unique constraint.                         *)
RepublishAnyNumber(r) ==
  /\ At(r, "republish", "close")
  /\ LET i == req[r].cohort IN
       cohorts' = Append([cohorts EXCEPT ![i].open = FALSE],
                         Cohort(cohorts[i].number + 1))
  /\ Done(r)
  /\ UNCHANGED <<status, live, orphans, metrics, report, lock>>

(* ended_at and the next row in one commit; status is not asked again.      *)
RepublishCommit(r) ==
  /\ At(r, "republish", "close")
  /\ LET i == req[r].cohort IN
       /\ NumberIsFree(cohorts[i].number + 1)
       /\ cohorts' = Append([cohorts EXCEPT ![i].open = FALSE],
                            Cohort(cohorts[i].number + 1))
  /\ Done(r)
  /\ UNCHANGED <<status, live, orphans, metrics, report, lock>>

-----------------------------------------------------------------------------
(* Visitors.                                                                *)

Visit(r) ==
  /\ live /\ status # "ARCHIVED"
  /\ \E op \in {"view", "signup"} : Enter(r, op, "visit")
  /\ UNCHANGED <<data, lock>>

(* A signup now waits for the geolocation of its address.                   *)
FindCohort(r) ==
  /\ req[r].at = "visit"
  /\ \E i \in Rows \cup {0} : IsOpenCohort(i) /\ Found(r, i, "record")
  /\ UNCHANGED <<data, lock>>

(* The cohort found is written, open or not.                                *)
Record(r) ==
  /\ req[r].at = "record" /\ Unlocked
  /\ LET i == req[r].cohort IN
       \/ /\ i = 0 /\ orphans' = orphans + 1
          /\ UNCHANGED cohorts
       \/ /\ i # 0 /\ req[r].op = "view"
          /\ cohorts' = [cohorts EXCEPT ![i].views = cohorts[i].views + 1]
          /\ UNCHANGED orphans
       \/ /\ i # 0 /\ req[r].op = "signup"
          /\ cohorts' = [cohorts EXCEPT ![i].signups = cohorts[i].signups + 1]
          /\ UNCHANGED orphans
  /\ Done(r)
  /\ UNCHANGED <<status, live, metrics, report, lock>>

-----------------------------------------------------------------------------
(* unlock-metrics and generate-insight, under the lock of the row.          *)

Lock(r) == Unlocked /\ lock' = r

(* Mutant of LockMetrics: the row is selected without FOR UPDATE.           *)
SelectMetrics(r) ==
  /\ live /\ status # "ARCHIVED"
  /\ Enter(r, "unlock", "locked")
  /\ UNCHANGED <<data, lock>>

LockMetrics(r) ==
  /\ live /\ status # "ARCHIVED"
  /\ Lock(r)
  /\ Enter(r, "unlock", "locked")
  /\ UNCHANGED data

(* has_purchased_service_for_experiment                                     *)
AskPurchased(r) ==
  /\ At(r, "unlock", "locked")
  /\ \/ metrics = 0 /\ Goto(r, "buy") /\ UNCHANGED lock
     \/ metrics # 0 /\ Done(r) /\ Release(r)
  /\ UNCHANGED data

BuyMetrics(r) ==
  /\ At(r, "unlock", "buy")
  /\ metrics' = metrics + 1
  /\ Done(r) /\ Release(r)
  /\ UNCHANGED <<status, live, cohorts, orphans, report>>

LockInsight(r) ==
  /\ status \in InsightSources
  /\ Lock(r)
  /\ Enter(r, "insight", "locked")
  /\ UNCHANGED data

(* compute_insight_threshold selects the cohort, then counts its rows.      *)
JudgeCohort(r) ==
  /\ At(r, "insight", "locked")
  /\ \E i \in Rows : IsOpenCohort(i) /\ Found(r, i, "judge")
  /\ UNCHANGED <<data, lock>>

(* Mutant of Met: the visitors of every cohort count.                       *)
MetByAny(i) ==
  \E j \in Rows : /\ j <= i
                  /\ \/ cohorts[j].views >= MinViews
                     \/ cohorts[j].signups >= MinSignups
                     \/ cohorts[j].days >= MinDays

Met(i) ==
  \/ cohorts[i].views >= MinViews
  \/ cohorts[i].signups >= MinSignups
  \/ cohorts[i].days >= MinDays

(* Debit, status and commit; the job is dispatched.                         *)
ChargeInsight(r) ==
  /\ At(r, "insight", "judge") /\ Met(req[r].cohort)
  /\ status' = "INSIGHT_GENERATING"
  /\ req' = [req EXCEPT ![r].at = "job", ![r].judged = req[r].cohort]
  /\ Release(r)
  /\ UNCHANGED <<live, cohorts, orphans, metrics, report>>

(* build_analytics_aggregate selects the open cohort anew.                  *)
Aggregate(r) ==
  /\ At(r, "insight", "job")
  /\ \E i \in Rows : IsOpenCohort(i) /\ Found(r, i, "write")
  /\ UNCHANGED <<data, lock>>

(* The report replaces the previous one; the status follows in a commit of  *)
(* its own.                                                                 *)
WriteReport(r) ==
  /\ At(r, "insight", "write") /\ Unlocked
  /\ report' = req[r].cohort
  /\ Goto(r, "transit")
  /\ UNCHANGED <<status, live, cohorts, orphans, metrics, lock>>

FinishInsight(r) ==
  /\ At(r, "insight", "transit") /\ Unlocked
  /\ status' = "INSIGHT_READY"
  /\ Done(r)
  /\ UNCHANGED <<live, cohorts, orphans, metrics, report, lock>>

FailInsight(r) ==
  /\ req[r].at \in {"job", "write", "transit"} /\ Unlocked
  /\ status' = "INSIGHT_FAILED"
  /\ Done(r)
  /\ UNCHANGED <<live, cohorts, orphans, metrics, report, lock>>

-----------------------------------------------------------------------------
(* The other endpoints and jobs (ExperimentLifecycle) set the status to     *)
(* anything its invariant ArtifactsBehindStatus allows.                     *)
Elsewhere ==
  /\ Unlocked
  /\ \E s \in Statuses \ {status} :
       /\ s \in {"LANDING_LIVE", "INSIGHT_GENERATING", "INSIGHT_FAILED"} => live
       /\ s = "INSIGHT_READY" => report # 0
       /\ status' = s
  /\ UNCHANGED <<live, cohorts, orphans, metrics, report, lock, req>>

(* Another day is full since a cohort was published.                        *)
Age ==
  /\ \E i \in Rows :
       /\ cohorts[i].days < MinDays
       /\ cohorts' = [cohorts EXCEPT ![i].days = cohorts[i].days + 1]
  /\ UNCHANGED <<status, live, orphans, metrics, report, lock, req>>

Publish(r) ==
  PublishRead(r) \/ PublishCommit(r) \/ RepublishRead(r) \/ RepublishFind(r) \/ RepublishCommit(r)

Traffic(r) == Visit(r) \/ FindCohort(r) \/ Record(r)

Unlock(r) == LockMetrics(r) \/ AskPurchased(r) \/ BuyMetrics(r)

Insight(r) ==
  \/ LockInsight(r) \/ JudgeCohort(r) \/ ChargeInsight(r)
  \/ Aggregate(r) \/ WriteReport(r) \/ FinishInsight(r) \/ FailInsight(r)

Next ==
  \/ \E r \in Requests : Publish(r) \/ Traffic(r) \/ Unlock(r) \/ Insight(r) \/ Drop(r)
  \/ Elsewhere \/ Age

Spec == Init /\ [][Next]_vars

-----------------------------------------------------------------------------
CohortRow == [number : Nat \ {0}, open : BOOLEAN, views : Nat, signups : Nat,
              days : 0 .. MinDays]

TypeOK ==
  /\ status \in Statuses /\ live \in BOOLEAN
  /\ cohorts \in Seq(CohortRow)
  /\ orphans \in Nat /\ metrics \in Nat
  /\ report \in Rows \cup {0}
  /\ lock \in Requests \cup {NoRequest}
  /\ req \in [Requests ->
       [op : AllOps \cup {"none"},
        at : {"new", "read", "close", "visit", "record", "locked", "judge", "buy",
              "job", "write", "transit", "done"},
        cohort : Rows \cup {0}, judged : Rows \cup {0}]]

(* However publications race, the rows are numbered 1, 2, 3, ... and of a   *)
(* published page exactly the last is open (landing_page_publish_service):  *)
(* two open cohorts, or none, would split or lose the visitors.             *)
OneOpenCohort ==
  /\ live <=> cohorts # <<>>
  /\ \A i \in Rows : cohorts[i].number = i /\ (cohorts[i].open <=> i = Len(cohorts))

(* Every page view and signup has a cohort: the warnings                    *)
(* page_view_missing_cohort and waitlist_signup_missing_cohort are never    *)
(* logged (record_page_view, record_waitlist_signup).                       *)
EveryVisitAttributed == orphans = 0

(* "Debit once per experiment+service" (purchase_service_for_experiment),   *)
(* however often the button is pressed.                                     *)
MetricsPaidOnce == metrics <= 1

(* An insight is charged for a cohort that has earned it by its own         *)
(* visitors or its own age, and reports on that cohort, or on one that a    *)
(* republication has opened since: never on an earlier one.                 *)
InsightOnData ==
  \A r \in Requests : req[r].at \in {"job", "write", "transit"} =>
    LET c == cohorts[req[r].judged] IN
    /\ c.views >= MinViews \/ c.signups >= MinSignups \/ c.days >= MinDays
    /\ req[r].cohort >= req[r].judged

(* The strengthening under which all of them are inductive: what a request  *)
(* that is on its way has found or holds.                                   *)
RequestInv ==
  \A r \in Requests :
    /\ req[r].at \in {"locked", "judge", "buy"} => lock = r
    /\ req[r].at = "buy" => metrics = 0
    /\ req[r].at = "visit" => live
    /\ req[r].at \in {"close", "record", "judge", "job", "write", "transit"}
         => req[r].cohort # 0
    /\ req[r].at \in {"job", "write", "transit"} => req[r].judged # 0

CohortInv ==
  TypeOK /\ OneOpenCohort /\ EveryVisitAttributed /\ MetricsPaidOnce /\ InsightOnData /\ RequestInv
=============================================================================
