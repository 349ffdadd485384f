---------------------------- MODULE CohortProofs ----------------------------
(***************************************************************************)
(* Theorems about PublishCohorts, for any requests and thresholds.         *)
(***************************************************************************)
EXTENDS PublishCohorts, SequenceTheorems, TLAPS

Places == {"new", "read", "close", "visit", "record", "locked", "judge", "buy",
           "job", "write", "transit", "done"}

Request == [op : AllOps \cup {"none"}, at : Places,
            cohort : Rows \cup {0}, judged : Rows \cup {0}]

LEMMA RowType ==
  ASSUME NEW c \in CohortRow
  PROVE  c.views \in Nat /\ c.signups \in Nat /\ c.days \in Nat
<1>1. c.views \in Nat /\ c.signups \in Nat /\ c.days \in 0 .. MinDays
  BY DEF CohortRow
<1> QED BY <1>1, CohortAssumption

(* What the invariant says of one request r that stands at q.              *)
Held(q, r) ==
  /\ q.at \in {"locked", "judge", "buy"} => lock = r
  /\ q.at = "buy" => metrics = 0
  /\ q.at = "visit" => live
  /\ q.at \in {"close", "record", "judge", "job", "write", "transit"} => q.cohort # 0
  /\ q.at \in {"job", "write", "transit"} =>
       q.judged # 0 /\ Met(q.judged) /\ q.cohort >= q.judged

LEMMA Split ==
  CohortInv <=> /\ TypeOK /\ OneOpenCohort /\ EveryVisitAttributed /\ MetricsPaidOnce
                /\ \A r \in Requests : Held(req[r], r)
  BY DEF CohortInv, RequestInv, InsightOnData, Held, Met

(* The open cohort is the last row, and there is one once the page is live. *)
LEMMA OpenIsLast ==
  ASSUME CohortInv
  PROVE  /\ Len(cohorts) \in Nat /\ Rows = 1 .. Len(cohorts)
         /\ \A i \in Rows \cup {0} : IsOpenCohort(i) => i = Len(cohorts)
         /\ live => Len(cohorts) # 0
<1>1. Len(cohorts) \in Nat /\ Rows = 1 .. Len(cohorts)
  BY DEF CohortInv, TypeOK, Rows
<1>2. live => Len(cohorts) # 0
  BY DEF CohortInv, TypeOK, OneOpenCohort
<1>3. ASSUME NEW i \in Rows \cup {0}, IsOpenCohort(i)
      PROVE  i = Len(cohorts)
  BY <1>1, <1>3 DEF CohortInv, OneOpenCohort, IsOpenCohort
<1> QED BY <1>1, <1>2, <1>3

(* A step of r that leaves the tables of the page alone.                    *)
LEMMA MoveStep ==
  ASSUME CohortInv, NEW r \in Requests, NEW q \in Request,
         req' = [req EXCEPT ![r] = q],
         UNCHANGED <<live, cohorts, orphans, metrics>>,
         status' \in Statuses, report' \in Rows \cup {0},
         lock' \in Requests \cup {NoRequest},
         \A d \in Requests \ {r} : lock = d => lock' = d,
         Held(q, r)'
  PROVE  CohortInv'
<1>1. TypeOK'
  BY DEF CohortInv, TypeOK, Request, Places, Rows
<1>2. OneOpenCohort' /\ EveryVisitAttributed' /\ MetricsPaidOnce'
  BY DEF CohortInv, OneOpenCohort, EveryVisitAttributed, MetricsPaidOnce, Rows
<1>3. ASSUME NEW d \in Requests PROVE Held(req[d], d)'
  <2>1. CASE d = r
    BY <2>1 DEF CohortInv, TypeOK
  <2>2. CASE d # r
    <3>1. req'[d] = req[d] /\ Held(req[d], d)
      BY <2>2, Split DEF CohortInv, TypeOK
    <3>2. lock = d => lock' = d
      BY <2>2
    <3> QED BY <3>1, <3>2 DEF Held, Met
  <2> QED BY <2>1, <2>2
<1> QED BY <1>1, <1>2, <1>3 DEF CohortInv, RequestInv, InsightOnData, Held, Met

(* A step that adds to the cohorts, and ends r if it is a request's.        *)
LEMMA GrowStep ==
  ASSUME CohortInv, NEW r,
         \/ req' = req
         \/ r \in Requests /\ Done(r),
         cohorts' \in Seq(CohortRow), OneOpenCohort',
         Len(cohorts) <= Len(cohorts'),
         \A i \in Rows : /\ cohorts[i].views <= cohorts'[i].views
                         /\ cohorts[i].signups <= cohorts'[i].signups
                         /\ cohorts[i].days <= cohorts'[i].days,
         live => live', live' \in BOOLEAN, status' \in Statuses,
         UNCHANGED <<orphans, metrics, report, lock>>
  PROVE  CohortInv'
<1>1. Rows \subseteq Rows' /\ Len(cohorts) \in Nat /\ Rows = 1 .. Len(cohorts)
  BY DEF CohortInv, TypeOK, Rows
<1>2. TypeOK'
  <2> DEFINE T == [op : AllOps \cup {"none"}, at : Places,
                   cohort : Rows' \cup {0}, judged : Rows' \cup {0}]
  <2>1. req \in [Requests -> T]
    BY <1>1 DEF CohortInv, TypeOK, Places
  <2>2. [New EXCEPT !.at = "done"] \in T
    BY DEF New, Places
  <2>3. req' \in [Requests -> T]
    BY <2>1, <2>2 DEF Done
  <2>4. report' \in Rows' \cup {0} /\ lock' \in Requests \cup {NoRequest}
        /\ orphans' \in Nat /\ metrics' \in Nat
    BY <1>1 DEF CohortInv, TypeOK
  <2> QED BY <2>3, <2>4 DEF TypeOK, Places
<1>3. EveryVisitAttributed' /\ MetricsPaidOnce'
  BY DEF CohortInv, EveryVisitAttributed, MetricsPaidOnce
<1>4. ASSUME NEW i \in Rows, Met(i) PROVE Met(i)'
  <2>1. cohorts[i] \in CohortRow /\ cohorts'[i] \in CohortRow
    BY <1>1 DEF CohortInv, TypeOK, Rows
  <2>2. /\ cohorts[i].views \in Nat /\ cohorts'[i].views \in Nat
        /\ cohorts[i].signups \in Nat /\ cohorts'[i].signups \in Nat
        /\ cohorts[i].days \in Nat /\ cohorts'[i].days \in Nat
    BY <2>1, CohortAssumption DEF CohortRow
  <2>3. /\ cohorts[i].views <= cohorts'[i].views
        /\ cohorts[i].signups <= cohorts'[i].signups
        /\ cohorts[i].days <= cohorts'[i].days
    OBVIOUS
  <2>4. cohorts[i].views >= MinViews => cohorts'[i].views >= MinViews
    BY <2>2, <2>3, CohortAssumption
  <2>5. cohorts[i].signups >= MinSignups => cohorts'[i].signups >= MinSignups
    BY <2>2, <2>3, CohortAssumption
  <2>6. cohorts[i].days >= MinDays => cohorts'[i].days >= MinDays
    BY <2>2, <2>3, CohortAssumption
  <2> QED BY <1>4, <2>4, <2>5, <2>6 DEF Met
<1>5. ASSUME NEW d \in Requests PROVE Held(req[d], d)'
  <2>1. CASE req'[d] = req[d]
    <3>1. Held(req[d], d) /\ req[d].judged \in Rows \cup {0}
      BY Split DEF CohortInv, TypeOK
    <3>2. req[d].at \in {"job", "write", "transit"} => Met(req[d].judged)'
      BY <2>1, <3>1, <1>4 DEF Held
    <3> QED BY <2>1, <3>1, <3>2 DEF Held
  <2>2. CASE req'[d] # req[d]
    <3>1. req'[d].at = "done"
      BY <2>2 DEF CohortInv, TypeOK, Done, New
    <3> QED BY <3>1 DEF Held
  <2> QED BY <2>1, <2>2
<1> QED BY <1>2, <1>3, <1>5 DEF CohortInv, RequestInv, InsightOnData, Held, Met

-----------------------------------------------------------------------------
(* Reads and selections for update.                                        *)

LEMMA EnterStep ==
  ASSUME CohortInv, NEW r \in Requests,
         PublishRead(r) \/ RepublishRead(r) \/ Visit(r) \/ LockMetrics(r) \/ LockInsight(r)
  PROVE  CohortInv'
<1>1. PICK op \in AllOps, where \in {"read", "visit", "locked"} :
        /\ req' = [req EXCEPT ![r] = [New EXCEPT !.op = op, !.at = where]]
        /\ where = "visit" => live
        /\ where = "locked" => lock = NoRequest /\ lock' = r
        /\ where # "locked" => lock' = lock
  BY DEF PublishRead, RepublishRead, Visit, LockMetrics, LockInsight, Enter, Lock,
         Unlocked, AllOps
<1> DEFINE q == [New EXCEPT !.op = op, !.at = where]
<1>2. q \in Request /\ q.at = where
  BY DEF Request, New, Places, AllOps
<1>3. UNCHANGED data
  BY DEF PublishRead, RepublishRead, Visit, LockMetrics, LockInsight
<1>4. Held(q, r)'
  BY <1>1, <1>2, <1>3 DEF Held, data
<1>5. lock' \in Requests \cup {NoRequest} /\ \A d \in Requests \ {r} : lock = d => lock' = d
  BY <1>1, CohortAssumption DEF CohortInv, TypeOK
<1> HIDE DEF q
<1> QED BY <1>1, <1>2, <1>3, <1>4, <1>5, MoveStep DEF CohortInv, TypeOK, data, q

(* A request finds the open cohort.                                        *)
LEMMA FindStep ==
  ASSUME CohortInv, NEW r \in Requests,
         RepublishFind(r) \/ FindCohort(r) \/ JudgeCohort(r) \/ Aggregate(r)
  PROVE  CohortInv'
<1>1. PICK i \in Rows \cup {0}, where \in {"close", "record", "judge", "write"} :
        /\ IsOpenCohort(i) /\ Found(r, i, where)
        /\ req[r].at = "visit" \/ i # 0
        /\ where = "judge" => req[r].at = "locked"
        /\ where = "write" <=> req[r].at = "job"
  BY OpenIsLast DEF RepublishFind, FindCohort, JudgeCohort, Aggregate, At, Rows
<1>2. PICK q \in Request : /\ req' = [req EXCEPT ![r] = q] /\ q.at = where
                         /\ q.cohort = i /\ q.judged = req[r].judged
  <2> DEFINE p == [req[r] EXCEPT !.cohort = i, !.at = where]
  <2>1. p \in Request /\ p.at = where /\ p.cohort = i /\ p.judged = req[r].judged
    BY DEF CohortInv, TypeOK, Request, Places
  <2>2. req' = [req EXCEPT ![r] = p]
    BY <1>1 DEF Found, CohortInv, TypeOK
  <2> HIDE DEF p
  <2> QED BY <2>1, <2>2
<1>4. UNCHANGED <<data, lock>>
  BY DEF RepublishFind, FindCohort, JudgeCohort, Aggregate
<1>5. Held(req[r], r) /\ req[r].judged \in Rows \cup {0}
  BY Split DEF CohortInv, TypeOK
<1>6. i # 0 /\ i = Len(cohorts) /\ req[r].judged <= i
  BY <1>1, <1>5, OpenIsLast DEF Held
<1>7. Held(q, r)'
  <2>1. \A j : Met(j)' <=> Met(j)
    BY <1>4 DEF Met, data
  <2> QED BY <1>1, <1>2, <1>4, <1>5, <1>6, <2>1 DEF Held, data
<1> QED BY <1>2, <1>4, <1>7, MoveStep DEF CohortInv, TypeOK, data

(* A request ends without a trace in the tables of the page.               *)
LEMMA EndStep ==
  ASSUME CohortInv, NEW r \in Requests, Done(r), Release(r) \/ UNCHANGED lock,
         UNCHANGED <<live, cohorts, orphans, metrics, report>>, status' \in Statuses
  PROVE  CohortInv'
<1> DEFINE q == [New EXCEPT !.at = "done"]
<1>1. q \in Request /\ q.at = "done"
  BY DEF Request, New, Places, AllOps
<1>2. Held(q, r)'
  BY <1>1 DEF Held
<1>3. req' = [req EXCEPT ![r] = q]
  BY DEF Done
<1>4. lock' \in Requests \cup {NoRequest} /\ \A d \in Requests \ {r} : lock = d => lock' = d
  BY DEF CohortInv, TypeOK, Release
<1> HIDE DEF q
<1> QED BY <1>1, <1>2, <1>3, <1>4, MoveStep DEF CohortInv, TypeOK

-----------------------------------------------------------------------------
(* The steps that write.                                                   *)

LEMMA PublishCommitStep ==
  ASSUME CohortInv, NEW r \in Requests, PublishCommit(r)
  PROVE  CohortInv'
<1>1. cohorts = <<>>
  <2>1. \A j \in Rows : cohorts[j].number = j /\ cohorts[j].number # 1
    BY DEF CohortInv, OneOpenCohort, PublishCommit, NumberIsFree
  <2>2. 1 \notin Rows
    BY <2>1
  <2>3. Len(cohorts) = 0
    BY <2>2, OpenIsLast
  <2>4. cohorts # <<>> => Len(cohorts) \in Nat \ {0}
    <3>1. cohorts \in Seq(CohortRow)
      BY DEF CohortInv, TypeOK
    <3> HIDE DEF CohortRow
    <3> QED BY <3>1, EmptySeq
  <2>5. Len(cohorts) \notin Nat \ {0}
    BY <2>3
  <2> QED BY <2>4, <2>5, Zenon
<1>2. Cohort(1) \in CohortRow /\ Cohort(1).number = 1 /\ Cohort(1).open = TRUE
  BY CohortAssumption DEF Cohort, CohortRow
<1> HIDE DEF Cohort
<1>3. /\ cohorts' = <<Cohort(1)>> /\ Len(cohorts') = 1
      /\ cohorts' \in Seq(CohortRow) /\ Rows' = {1}
  BY <1>1, <1>2 DEF PublishCommit, Rows
<1>4. OneOpenCohort'
  BY <1>2, <1>3 DEF OneOpenCohort, PublishCommit
<1>5. Len(cohorts) = 0 /\ Rows = {}
  BY <1>1 DEF Rows
<1> QED BY <1>3, <1>4, <1>5, GrowStep DEF PublishCommit, Statuses, InsightSources

(* Only the last cohort can be closed: the next number of any other is     *)
(* taken.                                                                  *)
LEMMA RepublishCommitStep ==
  ASSUME CohortInv, NEW r \in Requests, RepublishCommit(r)
  PROVE  CohortInv'
<1> DEFINE i == req[r].cohort
           n == Len(cohorts)
           c == Cohort(n + 1)
           old == [cohorts[n] EXCEPT !.open = FALSE]
<1>1. n \in Nat /\ Rows = 1 .. n /\ i \in Rows
  <2>1. i # 0 /\ i \in Rows \cup {0}
    BY Split DEF Held, RepublishCommit, At, CohortInv, TypeOK
  <2> QED BY <2>1, OpenIsLast
<1>2. \A j \in Rows : cohorts[j] \in CohortRow /\ cohorts[j].number = j
                      /\ (cohorts[j].open <=> j = n)
  BY <1>1 DEF CohortInv, TypeOK, OneOpenCohort
<1>3. i = n
  <2>1. cohorts[i].number = i
    BY <1>1, <1>2
  <2>2. NumberIsFree(cohorts[i].number + 1)
    BY DEF RepublishCommit
  <2>3. NumberIsFree(i + 1)
    BY <2>1, <2>2
  <2>4. i + 1 \notin Rows
    BY <1>2, <2>3 DEF NumberIsFree
  <2>5. i + 1 \notin 1 .. n /\ i \in 1 .. n
    BY <1>1, <2>4
  <2> HIDE DEF n, i
  <2> QED BY <1>1, <2>5
<1>4. /\ c \in CohortRow /\ c.number = n + 1 /\ c.open = TRUE
      /\ old \in CohortRow /\ old.number = n /\ old.open = FALSE
      /\ old.views = cohorts[n].views /\ old.signups = cohorts[n].signups
      /\ old.days = cohorts[n].days
  <2>1. cohorts[n] \in CohortRow /\ cohorts[n].number = n
    BY <1>1, <1>2, <1>3
  <2>2. c \in CohortRow /\ c.number = n + 1 /\ c.open = TRUE
    BY <1>1, CohortAssumption DEF Cohort, CohortRow
  <2> QED BY <2>1, <2>2 DEF CohortRow
<1>5. cohorts' = Append([cohorts EXCEPT ![n] = old], c)
  BY <1>1, <1>2, <1>3 DEF RepublishCommit
<1> HIDE DEF c, old
<1>6. /\ cohorts' \in Seq(CohortRow) /\ Len(cohorts') = n + 1 /\ Rows' = 1 .. n + 1
      /\ \A j \in Rows \ {n} : cohorts'[j] = cohorts[j]
      /\ cohorts'[n] = old /\ cohorts'[n + 1] = c
  <2> DEFINE s == [cohorts EXCEPT ![n] = old]
  <2>1. /\ s \in Seq(CohortRow) /\ Len(s) = n /\ s[n] = old
        /\ \A j \in Rows \ {n} : s[j] = cohorts[j]
    <3>1. n \in 1 .. Len(cohorts) /\ cohorts \in Seq(CohortRow)
      BY <1>1, <1>3 DEF CohortInv, TypeOK
    <3> QED BY <1>1, <1>4, <3>1
  <2>2. cohorts' = Append(s, c) /\ n + 1 \in Nat
    BY <1>1, <1>5
  <2> HIDE DEF s, n
  <2>3. /\ cohorts' \in Seq(CohortRow) /\ Len(cohorts') = n + 1
        /\ \A j \in 1 .. n : cohorts'[j] = s[j]
        /\ cohorts'[n + 1] = c
    BY <1>4, <2>1, <2>2, AppendProperties
  <2> QED BY <1>1, <1>3, <2>1, <2>3 DEF Rows
<1>7. live /\ live'
  BY <1>1, OpenIsLast DEF RepublishCommit, CohortInv, OneOpenCohort, Rows
<1>8. OneOpenCohort'
  BY <1>1, <1>2, <1>4, <1>6, <1>7 DEF OneOpenCohort
<1>9. \A j \in Rows : /\ cohorts[j].views <= cohorts'[j].views
                      /\ cohorts[j].signups <= cohorts'[j].signups
                      /\ cohorts[j].days <= cohorts'[j].days
  <2>1. \A j \in Rows : cohorts[j].views \in Nat /\ cohorts[j].signups \in Nat
                      /\ cohorts[j].days \in Nat
    BY <1>2, RowType
  <2> QED BY <1>4, <1>6, <2>1
<1>10. /\ Done(r) /\ UNCHANGED <<status, orphans, metrics, report, lock>>
       /\ status' \in Statuses /\ live' \in BOOLEAN
  BY DEF RepublishCommit, CohortInv, TypeOK
<1>11. n <= Len(cohorts')
  BY <1>1, <1>6
<1> HIDE DEF i, n
<1> QED BY <1>6, <1>7, <1>8, <1>9, <1>10, <1>11, GrowStep DEF n

(* One row of a cohort is counted up or ages; its number and whether it is *)
(* open stay.                                                              *)
LEMMA CountStep ==
  ASSUME CohortInv, NEW r, req' = req \/ (r \in Requests /\ Done(r)),
         NEW i \in Rows, NEW c \in CohortRow,
         cohorts' = [cohorts EXCEPT ![i] = c],
         c.number = cohorts[i].number, c.open = cohorts[i].open,
         cohorts[i].views <= c.views, cohorts[i].signups <= c.signups,
         cohorts[i].days <= c.days,
         UNCHANGED <<status, live, orphans, metrics, report, lock>>
  PROVE  CohortInv'
<1>1. /\ cohorts' \in Seq(CohortRow) /\ Len(cohorts') = Len(cohorts) /\ Rows' = Rows
      /\ \A j \in Rows \ {i} : cohorts'[j] = cohorts[j]
      /\ cohorts'[i] = c /\ Len(cohorts) \in Nat
      /\ \A j \in Rows : cohorts[j] \in CohortRow
      /\ cohorts # <<>> /\ cohorts' # <<>>
  BY DEF CohortInv, TypeOK, Rows
<1>2. OneOpenCohort'
  BY <1>1 DEF CohortInv, OneOpenCohort
<1>3. \A j \in Rows : /\ cohorts[j].views <= cohorts'[j].views
                      /\ cohorts[j].signups <= cohorts'[j].signups
                      /\ cohorts[j].days <= cohorts'[j].days
  <2>1. \A j \in Rows : cohorts[j].views \in Nat /\ cohorts[j].signups \in Nat
                      /\ cohorts[j].days \in Nat
    BY <1>1, RowType
  <2> QED BY <1>1, <2>1
<1>4. Len(cohorts) <= Len(cohorts') /\ live' \in BOOLEAN /\ status' \in Statuses
  BY <1>1 DEF CohortInv, TypeOK
<1> QED BY <1>1, <1>2, <1>3, <1>4, GrowStep

LEMMA RecordStep ==
  ASSUME CohortInv, NEW r \in Requests, Record(r)
  PROVE  CohortInv'
<1> DEFINE i == req[r].cohort
<1>1. i # 0 /\ i \in Rows
  BY Split DEF Held, Record, CohortInv, TypeOK
<1>2. cohorts[i] \in CohortRow
  BY <1>1 DEF CohortInv, TypeOK, Rows
<1>3. PICK c \in CohortRow :
        /\ cohorts' = [cohorts EXCEPT ![i] = c]
        /\ c.number = cohorts[i].number /\ c.open = cohorts[i].open
        /\ cohorts[i].views <= c.views /\ cohorts[i].signups <= c.signups
        /\ cohorts[i].days <= c.days
  <2>1. CASE req[r].op = "view"
    <3> DEFINE c == [cohorts[i] EXCEPT !.views = cohorts[i].views + 1]
    <3>1. cohorts' = [cohorts EXCEPT ![i] = c]
      BY <1>1, <2>1 DEF Record
    <3>2. c \in CohortRow
      BY <1>2 DEF CohortRow
    <3>3. /\ c.number = cohorts[i].number /\ c.open = cohorts[i].open
          /\ cohorts[i].views <= c.views /\ cohorts[i].signups <= c.signups
          /\ cohorts[i].days <= c.days
      BY <1>2, CohortAssumption DEF CohortRow
    <3> HIDE DEF c
    <3> QED BY <3>1, <3>2, <3>3
  <2>2. CASE req[r].op = "signup"
    <3> DEFINE c == [cohorts[i] EXCEPT !.signups = cohorts[i].signups + 1]
    <3>1. cohorts' = [cohorts EXCEPT ![i] = c]
      BY <1>1, <2>2 DEF Record
    <3>2. c \in CohortRow
      BY <1>2 DEF CohortRow
    <3>3. /\ c.number = cohorts[i].number /\ c.open = cohorts[i].open
          /\ cohorts[i].views <= c.views /\ cohorts[i].signups <= c.signups
          /\ cohorts[i].days <= c.days
      BY <1>2, CohortAssumption DEF CohortRow
    <3> HIDE DEF c
    <3> QED BY <3>1, <3>2, <3>3
  <2> QED BY <1>1, <2>1, <2>2 DEF Record
<1>4. Done(r) /\ UNCHANGED <<status, live, orphans, metrics, report, lock>>
  BY <1>1 DEF Record
<1> QED BY <1>1, <1>3, <1>4, CountStep

LEMMA AgeStep ==
  ASSUME CohortInv, Age
  PROVE  CohortInv'
<1>1. PICK i \in Rows : /\ cohorts[i].days < MinDays
                        /\ cohorts' = [cohorts EXCEPT ![i].days = cohorts[i].days + 1]
  BY DEF Age
<1>2. cohorts[i] \in CohortRow
  BY <1>1 DEF CohortInv, TypeOK, Rows
<1> DEFINE c == [cohorts[i] EXCEPT !.days = cohorts[i].days + 1]
<1>3. /\ c \in CohortRow /\ c.number = cohorts[i].number /\ c.open = cohorts[i].open
      /\ cohorts[i].views <= c.views /\ cohorts[i].signups <= c.signups
      /\ cohorts[i].days <= c.days
  BY <1>1, <1>2, CohortAssumption DEF CohortRow
<1>4. cohorts' = [cohorts EXCEPT ![i] = c]
  BY <1>1
<1> HIDE DEF c
<1> QED BY <1>3, <1>4, CountStep DEF Age

LEMMA AskPurchasedStep ==
  ASSUME CohortInv, NEW r \in Requests, AskPurchased(r)
  PROVE  CohortInv'
<1>1. CASE metrics = 0 /\ Goto(r, "buy") /\ UNCHANGED lock
  <2>1. PICK q \in Request : q.at = "buy" /\ req' = [req EXCEPT ![r] = q]
    <3> DEFINE p == [req[r] EXCEPT !.at = "buy"]
    <3> SUFFICES p \in Request /\ p.at = "buy" /\ req' = [req EXCEPT ![r] = p]
      OBVIOUS
    <3> QED BY <1>1 DEF Goto, CohortInv, TypeOK, Request, Places
  <2>2. lock = r
    BY Split DEF Held, AskPurchased, At
  <2>3. Held(q, r)'
    BY <1>1, <2>1, <2>2 DEF Held, AskPurchased, data
  <2> QED BY <1>1, <2>1, <2>3, MoveStep DEF AskPurchased, data, CohortInv, TypeOK
<1>2. CASE Done(r) /\ Release(r)
  BY <1>2, EndStep DEF AskPurchased, data, CohortInv, TypeOK
<1> QED BY <1>1, <1>2 DEF AskPurchased

(* Under the lock of the row no other request stands before its purchase.  *)
LEMMA BuyMetricsStep ==
  ASSUME CohortInv, NEW r \in Requests, BuyMetrics(r)
  PROVE  CohortInv'
<1>1. metrics = 0 /\ lock = r
  BY Split DEF Held, BuyMetrics, At
<1>2. TypeOK'
  BY <1>1 DEF CohortInv, TypeOK, BuyMetrics, Done, New, AllOps, Release, Rows
<1>3. OneOpenCohort' /\ EveryVisitAttributed' /\ MetricsPaidOnce'
  BY <1>1 DEF CohortInv, OneOpenCohort, EveryVisitAttributed, MetricsPaidOnce, BuyMetrics, Rows
<1>4. ASSUME NEW d \in Requests PROVE Held(req[d], d)'
  <2>1. CASE d = r
    BY <2>1 DEF Held, BuyMetrics, Done, New, CohortInv, TypeOK
  <2>2. CASE d # r
    <3>1. req'[d] = req[d] /\ Held(req[d], d)
      BY <2>2, Split DEF CohortInv, TypeOK, BuyMetrics, Done
    <3> QED BY <1>1, <2>2, <3>1 DEF Held, Met, BuyMetrics
  <2> QED BY <2>1, <2>2
<1> QED BY <1>2, <1>3, <1>4 DEF CohortInv, RequestInv, InsightOnData, Held, Met

LEMMA ChargeInsightStep ==
  ASSUME CohortInv, NEW r \in Requests, ChargeInsight(r)
  PROVE  CohortInv'
<1>1. req[r].cohort # 0 /\ req[r].cohort \in Rows /\ Met(req[r].cohort)
  BY Split DEF Held, ChargeInsight, At, CohortInv, TypeOK
<1>2. PICK q \in Request :
        /\ req' = [req EXCEPT ![r] = q]
        /\ q.at = "job" /\ q.cohort = req[r].cohort /\ q.judged = req[r].cohort
  <2> DEFINE p == [req[r] EXCEPT !.at = "job", !.judged = req[r].cohort]
  <2> SUFFICES /\ p \in Request /\ req' = [req EXCEPT ![r] = p]
               /\ p.at = "job" /\ p.cohort = req[r].cohort /\ p.judged = req[r].cohort
    OBVIOUS
  <2> QED BY <1>1 DEF ChargeInsight, CohortInv, TypeOK, Request, Places
<1>3. (\A j : Met(j)' <=> Met(j)) /\ req[r].cohort >= req[r].cohort
  <2>1. Rows = 1 .. Len(cohorts) /\ Len(cohorts) \in Nat
    BY OpenIsLast
  <2> QED BY <1>1, <2>1 DEF Met, ChargeInsight
<1>4. Held(q, r)'
  BY <1>1, <1>2, <1>3 DEF Held
<1>5. /\ lock' \in Requests \cup {NoRequest} /\ \A d \in Requests \ {r} : lock = d => lock' = d
      /\ UNCHANGED <<live, cohorts, orphans, metrics, report>> /\ status' \in Statuses
  BY DEF CohortInv, TypeOK, Release, ChargeInsight, Statuses
<1> QED BY <1>2, <1>4, <1>5, MoveStep DEF CohortInv, TypeOK

LEMMA WriteReportStep ==
  ASSUME CohortInv, NEW r \in Requests, WriteReport(r)
  PROVE  CohortInv'
<1>1. PICK q \in Request :
        /\ req' = [req EXCEPT ![r] = q]
        /\ q.at = "transit" /\ q.cohort = req[r].cohort /\ q.judged = req[r].judged
  <2> DEFINE p == [req[r] EXCEPT !.at = "transit"]
  <2> SUFFICES /\ p \in Request /\ req' = [req EXCEPT ![r] = p]
               /\ p.at = "transit" /\ p.cohort = req[r].cohort /\ p.judged = req[r].judged
    OBVIOUS
  <2> QED BY DEF WriteReport, Goto, CohortInv, TypeOK, Request, Places
<1>2. /\ UNCHANGED <<status, live, cohorts, orphans, metrics, lock>>
      /\ report' \in Rows \cup {0}
  BY DEF WriteReport, CohortInv, TypeOK
<1>3. Held(req[r], r) /\ req[r].at = "write"
  BY Split DEF WriteReport, At
<1>4. Held(q, r)'
  BY <1>1, <1>2, <1>3 DEF Held, Met
<1> QED BY <1>1, <1>2, <1>4, MoveStep DEF CohortInv, TypeOK

LEMMA ElsewhereStep ==
  ASSUME CohortInv, Elsewhere
  PROVE  CohortInv'
  BY DEF CohortInv, TypeOK, OneOpenCohort, EveryVisitAttributed, MetricsPaidOnce,
         InsightOnData, RequestInv, Rows, Elsewhere

-----------------------------------------------------------------------------
(* CohortInv holds of every behaviour: the numbering makes the open cohort *)
(* the last one, the lock of the row separates the purchases, and a judged *)
(* cohort stays good since its visitors are only ever added.               *)
THEOREM Invariance == Spec => []CohortInv
<1>1. Init => CohortInv
  <2> SUFFICES ASSUME Init PROVE CohortInv
    OBVIOUS
  <2>1. cohorts = <<>> /\ cohorts \in Seq(CohortRow) /\ Rows = {}
    BY DEF Init, Rows
  <2>2. \A r \in Requests : req[r] = New /\ New.at = "new"
    BY DEF Init, New
  <2>3. TypeOK
    BY <2>1 DEF Init, TypeOK, Statuses, New, AllOps
  <2>4. OneOpenCohort /\ EveryVisitAttributed /\ MetricsPaidOnce
    BY <2>1 DEF Init, OneOpenCohort, EveryVisitAttributed, MetricsPaidOnce
  <2> QED BY <2>2, <2>3, <2>4 DEF CohortInv, InsightOnData, RequestInv
<1>2. CohortInv /\ [Next]_vars => CohortInv'
  <2> SUFFICES ASSUME CohortInv, [Next]_vars PROVE CohortInv'
    OBVIOUS
  <2>1. ASSUME NEW r \in Requests, Publish(r) PROVE CohortInv'
    BY <2>1, EnterStep, PublishCommitStep, FindStep, RepublishCommitStep DEF Publish
  <2>2. ASSUME NEW r \in Requests, Traffic(r) PROVE CohortInv'
    BY <2>2, EnterStep, FindStep, RecordStep DEF Traffic
  <2>3. ASSUME NEW r \in Requests, Unlock(r) PROVE CohortInv'
    BY <2>3, EnterStep, AskPurchasedStep, BuyMetricsStep DEF Unlock
  <2>4. ASSUME NEW r \in Requests, Insight(r) PROVE CohortInv'
    <3>1. CASE FinishInsight(r) \/ FailInsight(r)
      BY <3>1, EndStep DEF FinishInsight, FailInsight, Statuses, InsightSources
    <3> QED BY <2>4, <3>1, EnterStep, FindStep, ChargeInsightStep, WriteReportStep
            DEF Insight
  <2>5. ASSUME NEW r \in Requests, Drop(r) PROVE CohortInv'
    BY <2>5, EndStep DEF Drop, data, CohortInv, TypeOK
  <2>6. CASE UNCHANGED vars
    BY <2>6 DEF vars, CohortInv, TypeOK, OneOpenCohort, EveryVisitAttributed,
                MetricsPaidOnce, InsightOnData, RequestInv, Rows
  <2> QED BY <2>1, <2>2, <2>3, <2>4, <2>5, <2>6, ElsewhereStep, AgeStep DEF Next
<1> QED BY <1>1, <1>2, PTL DEF Spec

(* The tables and the requests keep their types.                           *)
THEOREM TypeCorrect == Spec => []TypeOK
  BY Invariance, PTL DEF CohortInv

(* However many publications race: of a published page exactly the last    *)
(* cohort is open, and the numbers have no gap and no repetition.          *)
THEOREM CohortsLineUp == Spec => []OneOpenCohort
  BY Invariance, PTL DEF CohortInv

(* No page view and no signup is stored without its cohort.                *)
THEOREM VisitsAttributed == Spec => []EveryVisitAttributed
  BY Invariance, PTL DEF CohortInv

(* The metrics of an experiment are paid for at most once.                 *)
THEOREM MetricsChargedOnce == Spec => []MetricsPaidOnce
  BY Invariance, PTL DEF CohortInv

(* An insight is charged on a cohort that met the threshold and never      *)
(* reports on an earlier one.                                              *)
THEOREM InsightsEarned == Spec => []InsightOnData
  BY Invariance, PTL DEF CohortInv
=============================================================================
