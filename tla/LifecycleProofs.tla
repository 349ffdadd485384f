-------------------------- MODULE LifecycleProofs --------------------------
(***************************************************************************)
(* Theorems about ExperimentLifecycle, for any number of requests, any     *)
(* endpoints, any sound starting rows and any number of faults, and about  *)
(* the ResearchPipeline that its research jobs run (the last part).        *)
(***************************************************************************)
EXTENDS ExperimentLifecycle, ResearchPipeline, FiniteSetTheorems, TLAPS

(***************************************************************************)
(* Types                                                                   *)
(***************************************************************************)
Places == {"new", "read", "charged", "dispatch", "done", "lost"}

RequestSet == [op : AllOps \cup {"none"}, seen : Rows, at : Places]

JobPlaces == {"none", "load", "phase", "generate", "transit", "fail", "over", "lost"}

TaskSet == [kind : {"none", "research", "landing", "insight"}, at : JobPlaces,
            step : 0 .. Len(Phases) + 1, wasLive : BOOLEAN]

Charges == {"none", "debited", "refunded", "overpaid"}

(* There are six phases, and they are research statuses.                   *)
LEMMA PhaseValues ==
  /\ Len(Phases) = 6
  /\ \A i \in 1..6 :
       Phases[i] \in {"RESEARCH_PLANNING", "RESEARCH_SEARCHING", "RESEARCH_READING",
                      "RESEARCH_REFLECTING", "RESEARCH_VOICES", "RESEARCH_SYNTHESIZING"}
<1>1. Len(Phases) = 6
  BY DEF Phases
<1>2. ASSUME NEW i \in 1..6
      PROVE  Phases[i] \in {"RESEARCH_PLANNING", "RESEARCH_SEARCHING", "RESEARCH_READING",
                      "RESEARCH_REFLECTING", "RESEARCH_VOICES", "RESEARCH_SYNTHESIZING"}
  <2>1. i = 1 \/ i = 2 \/ i = 3 \/ i = 4 \/ i = 5 \/ i = 6
    BY <1>2
  <2> QED BY <2>1 DEF Phases
<1> QED BY <1>1, <1>2

(* A row keeps its type when its status and its flags are written.          *)
LEMMA RowStatus ==
  ASSUME NEW x \in Rows, NEW s \in Statuses
  PROVE  [x EXCEPT !.status = s] \in Rows
BY DEF Rows

LEMMA RowDraft ==
  ASSUME NEW x \in Rows, NEW s \in Statuses, NEW b \in BOOLEAN
  PROVE  [x EXCEPT !.status = s, !.draft = b] \in Rows
BY DEF Rows

LEMMA RowIdea ==
  ASSUME NEW x \in Rows, NEW s \in Statuses, NEW b \in BOOLEAN
  PROVE  [x EXCEPT !.status = s, !.idea = b] \in Rows
BY DEF Rows

LEMMA RowReset ==
  ASSUME NEW x \in Rows, NEW s \in Statuses, NEW b \in BOOLEAN, NEW c \in BOOLEAN
  PROVE  [x EXCEPT !.draft = b, !.idea = c, !.status = s] \in Rows
BY DEF Rows

(* The rows and requests written literally.                                *)
LEMMA UnreadRow == Unread \in Rows
BY DEF Unread, Rows, Statuses

LEMMA EndedRequest ==
  ASSUME NEW p \in Places
  PROVE  Ended(p) \in RequestSet
BY UnreadRow DEF Ended, RequestSet

LEMMA StoppedTask ==
  ASSUME NEW p \in JobPlaces
  PROVE  Stopped(p) \in TaskSet /\ Stopped(p).kind = "none" /\ Stopped(p).at = p
<1>1. 0 \in 0 .. Len(Phases) + 1
  BY PhaseValues
<1> QED BY <1>1 DEF Stopped, NoTask, TaskSet

LEMMA TypeSets ==
  TypeOK <=> /\ row \in Rows
             /\ req \in [Requests -> RequestSet]
             /\ task \in [Requests -> TaskSet]
             /\ charge \in [Requests -> Charges]
             /\ active \in Requests \cup {NoRequest}
             /\ faults \in 0 .. MaxFaults
BY DEF TypeOK, RequestSet, Places, TaskSet, JobPlaces, Charges

(***************************************************************************)
(* What the helpers of the actions do to the request or job they are about  *)
(***************************************************************************)
Alone(f, g, r) == \A q \in Requests \ {r} : g[q] = f[q]

LEMMA EnterEffect ==
  ASSUME TypeOK, NEW r \in Requests, NEW op \in AllOps, NEW p \in Places, Enter(r, op, p)
  PROVE  /\ req' \in [Requests -> RequestSet]
         /\ req'[r] = [op |-> op, at |-> p, seen |-> row]
         /\ Alone(req, req', r)
<1>1. [op |-> op, at |-> p, seen |-> row] \in RequestSet
  BY TypeSets DEF RequestSet
<1> QED BY <1>1, TypeSets DEF Enter, Alone

LEMMA AnswerEffect ==
  ASSUME TypeOK, NEW r \in Requests, Answer(r)
  PROVE  /\ req' \in [Requests -> RequestSet]
         /\ req'[r] = Ended("done")
         /\ Alone(req, req', r)
<1>1. Ended("done") \in RequestSet
  BY EndedRequest DEF Places
<1> QED BY <1>1, TypeSets DEF Answer, Alone

LEMMA GotoEffect ==
  ASSUME TypeOK, NEW r \in Requests, NEW p \in Places, Goto(r, p)
  PROVE  /\ req' \in [Requests -> RequestSet]
         /\ req'[r] = [req[r] EXCEPT !.at = p]
         /\ Alone(req, req', r)
<1>1. [req[r] EXCEPT !.at = p] \in RequestSet
  BY TypeSets DEF RequestSet
<1> QED BY <1>1, TypeSets DEF Goto, Alone

LEMMA NewTask ==
  ASSUME NEW k \in {"research", "landing", "insight"}, NEW p \in JobPlaces, NEW w \in BOOLEAN
  PROVE  [kind |-> k, at |-> p, step |-> 1, wasLive |-> w] \in TaskSet
<1>1. 1 \in 0 .. Len(Phases) + 1
  BY PhaseValues
<1> QED BY <1>1 DEF TaskSet

LEMMA TaskToEffect ==
  ASSUME TypeOK, NEW r \in Requests, NEW p \in JobPlaces, TaskTo(r, p)
  PROVE  /\ task' \in [Requests -> TaskSet]
         /\ task'[r] = [task[r] EXCEPT !.at = p]
         /\ Alone(task, task', r)
<1>1. [task[r] EXCEPT !.at = p] \in TaskSet
  BY TypeSets DEF TaskSet
<1> QED BY <1>1, TypeSets DEF TaskTo, Alone

LEMMA TaskEndsEffect ==
  ASSUME TypeOK, NEW r \in Requests, NEW p \in JobPlaces, TaskEnds(r, p)
  PROVE  /\ task' \in [Requests -> TaskSet]
         /\ task'[r] = Stopped(p)
         /\ Alone(task, task', r)
<1>1. Stopped(p) \in TaskSet
  BY StoppedTask
<1> QED BY <1>1, TypeSets DEF TaskEnds, Alone

LEMMA RefundEffect ==
  ASSUME TypeOK, NEW r \in Requests, Refund(r)
  PROVE  /\ charge' \in [Requests -> Charges]
         /\ charge'[r] = (IF charge[r] = "debited" THEN "refunded" ELSE "overpaid")
         /\ Alone(charge, charge', r)
BY TypeSets DEF Refund, Alone, Charges

LEMMA DeregisterType ==
  ASSUME TypeOK, NEW r \in Requests, Deregister(r)
  PROVE  active' \in Requests \cup {NoRequest}
BY TypeSets DEF Deregister

(***************************************************************************)
(* Every action keeps the types and touches one request                    *)
(***************************************************************************)
Kept(r) ==
  /\ TypeInv'
  /\ Alone(req, req', r) /\ Alone(task, task', r) /\ Alone(charge, charge', r)

LEMMA KeptParts ==
  ASSUME TypeInv, NEW r \in Requests,
         row' \in Rows,
         req' \in [Requests -> RequestSet], Alone(req, req', r),
         task' \in [Requests -> TaskSet], Alone(task, task', r),
         charge' \in [Requests -> Charges], Alone(charge, charge', r),
         active' \in Requests \cup {NoRequest}, faults' \in 0 .. MaxFaults,
         task'[r].kind # "none" => task'[r].step >= 1
  PROVE  Kept(r)
<1>1. TypeOK'
  BY DEF TypeOK, RequestSet, Places, TaskSet, JobPlaces, Charges
<1>2. \A q \in Requests : task'[q].kind # "none" => task'[q].step >= 1
  BY DEF TypeInv, Alone
<1> QED BY <1>1, <1>2 DEF Kept, TypeInv

(* What a request read, and what it writes back, has the type of a row.     *)
LEMMA StoredTypes ==
  ASSUME TypeOK, NEW r \in Requests
  PROVE  /\ req[r].seen \in Rows
         /\ \A v \in Statuses : Stored(r, "status", v) \in Statuses
         /\ \A v \in BOOLEAN : Stored(r, "draft", v) \in BOOLEAN
         /\ \A v \in BOOLEAN : Stored(r, "idea", v) \in BOOLEAN
         /\ StoredIdeas(r) \subseteq BOOLEAN
<1>1. req[r].seen \in Rows
  BY TypeSets DEF RequestSet
<1> QED BY <1>1, TypeSets DEF Stored, StoredIdeas, Rows

LEMMA KeptTurn ==
  ASSUME TypeInv, NEW r \in Requests, TurnCommit(r)
  PROVE  Kept(r)
<1>0. TypeOK
  BY DEF TypeInv
<1>1. /\ task' \in [Requests -> TaskSet] /\ Alone(task, task', r)
         /\ (task'[r].kind # "none" => task'[r].step >= 1)
      /\ charge' \in [Requests -> Charges] /\ Alone(charge, charge', r)
      /\ active' \in Requests \cup {NoRequest}
      /\ faults' \in 0 .. MaxFaults
  BY <1>0, TypeSets DEF TurnCommit, TypeInv, Alone
<1>2. row' \in Rows
  <2>1. PICK d \in BOOLEAN : row' = [row EXCEPT !.status = Stored(r, "status", "REFINING"),
                                              !.draft = @ \/ d]
    BY DEF TurnCommit
  <2>2. row \in Rows /\ Stored(r, "status", "REFINING") \in Statuses
    BY <1>0, StoredTypes, TypeSets DEF Statuses
  <2>3. (row.draft \/ d) \in BOOLEAN
    OBVIOUS
  <2> QED BY <2>1, <2>2, <2>3, RowDraft
<1>3. req' \in [Requests -> RequestSet] /\ Alone(req, req', r)
  BY <1>0, AnswerEffect DEF TurnCommit
<1> QED BY <1>1, <1>2, <1>3, KeptParts

LEMMA KeptRegenerate ==
  ASSUME TypeInv, NEW r \in Requests, RegenerateCommit(r)
  PROVE  Kept(r)
<1>0. TypeOK
  BY DEF TypeInv
<1>1. /\ task' \in [Requests -> TaskSet] /\ Alone(task, task', r)
         /\ (task'[r].kind # "none" => task'[r].step >= 1)
      /\ charge' \in [Requests -> Charges] /\ Alone(charge, charge', r)
      /\ active' \in Requests \cup {NoRequest}
      /\ faults' \in 0 .. MaxFaults
  BY <1>0, TypeSets DEF RegenerateCommit, TypeInv, Alone
<1>2. row' \in Rows
  <2>1. row \in Rows /\ "REFINED" \in Statuses /\ StoredIdeas(r) \subseteq BOOLEAN
    BY <1>0, StoredTypes, TypeSets DEF Statuses
  <2>2. PICK i \in StoredIdeas(r) : row' = [row EXCEPT !.status = "REFINED", !.idea = i]
    BY DEF RegenerateCommit
  <2> QED BY <2>1, <2>2, RowIdea
<1>3. req' \in [Requests -> RequestSet] /\ Alone(req, req', r)
  BY <1>0, AnswerEffect DEF RegenerateCommit
<1> QED BY <1>1, <1>2, <1>3, KeptParts

LEMMA KeptFinalize ==
  ASSUME TypeInv, NEW r \in Requests, FinalizeCommit(r)
  PROVE  Kept(r)
<1>0. TypeOK
  BY DEF TypeInv
<1>1. /\ task' \in [Requests -> TaskSet] /\ Alone(task, task', r)
         /\ (task'[r].kind # "none" => task'[r].step >= 1)
      /\ charge' \in [Requests -> Charges] /\ Alone(charge, charge', r)
      /\ active' \in Requests \cup {NoRequest}
      /\ faults' \in 0 .. MaxFaults
  BY <1>0, TypeSets DEF FinalizeCommit, TypeInv, Alone
<1>2. row' \in Rows
  <2> DEFINE s == IF req[r].seen.status \in FinalizeStatuses
                    THEN Stored(r, "status", "REFINED") ELSE row.status
  <2>1. row \in Rows /\ row.status \in Statuses /\ StoredIdeas(r) \subseteq BOOLEAN
        /\ Stored(r, "status", "REFINED") \in Statuses
    BY <1>0, StoredTypes, TypeSets DEF Statuses, Rows
  <2>2. s \in Statuses
    BY <2>1
  <2>3. PICK i \in StoredIdeas(r) : row' = [row EXCEPT !.status = s, !.idea = i]
    BY DEF FinalizeCommit
  <2> HIDE DEF s
  <2> QED BY <2>1, <2>2, <2>3, RowIdea
<1>3. req' \in [Requests -> RequestSet] /\ Alone(req, req', r)
  BY <1>0, AnswerEffect DEF FinalizeCommit
<1> QED BY <1>1, <1>2, <1>3, KeptParts

LEMMA KeptReset ==
  ASSUME TypeInv, NEW r \in Requests, ResetCommit(r)
  PROVE  Kept(r)
<1>0. TypeOK
  BY DEF TypeInv
<1>1. /\ task' \in [Requests -> TaskSet] /\ Alone(task, task', r)
         /\ (task'[r].kind # "none" => task'[r].step >= 1)
      /\ charge' \in [Requests -> Charges] /\ Alone(charge, charge', r)
      /\ active' \in Requests \cup {NoRequest}
      /\ faults' \in 0 .. MaxFaults
  BY <1>0, TypeSets DEF ResetCommit, TypeInv, Alone
<1>2. row' \in Rows
  <2> DEFINE d == Stored(r, "draft", FALSE)
             i == IF row.report THEN row.idea ELSE Stored(r, "idea", FALSE)
             s == IF ~row.report /\ req[r].seen.status = "REFINED" THEN "SPARK" ELSE row.status
  <2>1. row \in Rows /\ row.status \in Statuses /\ "SPARK" \in Statuses /\ row.idea \in BOOLEAN
        /\ Stored(r, "idea", FALSE) \in BOOLEAN /\ Stored(r, "draft", FALSE) \in BOOLEAN
    BY <1>0, StoredTypes, TypeSets DEF Statuses, Rows
  <2>2. d \in BOOLEAN /\ i \in BOOLEAN /\ s \in Statuses
    BY <2>1
  <2>3. row' = [row EXCEPT !.draft = d, !.idea = i, !.status = s]
    BY DEF ResetCommit
  <2> HIDE DEF d, i, s
  <2> QED BY <2>1, <2>2, <2>3, RowReset
<1>3. req' \in [Requests -> RequestSet] /\ Alone(req, req', r)
  BY <1>0, AnswerEffect DEF ResetCommit
<1> QED BY <1>1, <1>2, <1>3, KeptParts

LEMMA KeptPublish ==
  ASSUME TypeInv, NEW r \in Requests, PublishCommit(r)
  PROVE  Kept(r)
<1>0. TypeOK
  BY DEF TypeInv
<1>1. /\ task' \in [Requests -> TaskSet] /\ Alone(task, task', r)
         /\ (task'[r].kind # "none" => task'[r].step >= 1)
      /\ charge' \in [Requests -> Charges] /\ Alone(charge, charge', r)
      /\ active' \in Requests \cup {NoRequest}
      /\ faults' \in 0 .. MaxFaults
  BY <1>0, TypeSets DEF PublishCommit, TypeInv, Alone
<1>2. row' \in Rows
  <2>1. row \in Rows /\ "LANDING_LIVE" \in Statuses
    BY <1>0 DEF TypeOK, Statuses
  <2> QED BY <2>1 DEF PublishCommit, Rows
<1>3. req' \in [Requests -> RequestSet] /\ Alone(req, req', r)
  BY <1>0, AnswerEffect DEF PublishCommit
<1> QED BY <1>1, <1>2, <1>3, KeptParts

LEMMA KeptArchive ==
  ASSUME TypeInv, NEW r \in Requests, ArchiveCommit(r)
  PROVE  Kept(r)
<1>0. TypeOK
  BY DEF TypeInv
<1>1. /\ task' \in [Requests -> TaskSet] /\ Alone(task, task', r)
         /\ (task'[r].kind # "none" => task'[r].step >= 1)
      /\ charge' \in [Requests -> Charges] /\ Alone(charge, charge', r)
      /\ active' \in Requests \cup {NoRequest}
      /\ faults' \in 0 .. MaxFaults
  BY <1>0, TypeSets DEF ArchiveCommit, TypeInv, Alone
<1>2. row' \in Rows
  BY <1>0, RowStatus, TypeSets DEF ArchiveCommit, SetStatus, Statuses
<1>3. req' \in [Requests -> RequestSet] /\ Alone(req, req', r)
  BY <1>0, AnswerEffect DEF ArchiveCommit
<1> QED BY <1>1, <1>2, <1>3, KeptParts

LEMMA KeptUnarchive ==
  ASSUME TypeInv, NEW r \in Requests, UnarchiveCommit(r)
  PROVE  Kept(r)
<1>0. TypeOK
  BY DEF TypeInv
<1>1. /\ task' \in [Requests -> TaskSet] /\ Alone(task, task', r)
         /\ (task'[r].kind # "none" => task'[r].step >= 1)
      /\ charge' \in [Requests -> Charges] /\ Alone(charge, charge', r)
      /\ active' \in Requests \cup {NoRequest}
      /\ faults' \in 0 .. MaxFaults
  BY <1>0, TypeSets DEF UnarchiveCommit, TypeInv, Alone
<1>2. row' \in Rows
  BY <1>0, RowStatus, TypeSets DEF UnarchiveCommit, InferStatusAfterUnarchive, Statuses
<1>3. req' \in [Requests -> RequestSet] /\ Alone(req, req', r)
  BY <1>0, AnswerEffect DEF UnarchiveCommit
<1> QED BY <1>1, <1>2, <1>3, KeptParts

LEMMA KeptStartLanding ==
  ASSUME TypeInv, NEW r \in Requests, StartLanding(r)
  PROVE  Kept(r)
<1>0. TypeOK
  BY DEF TypeInv
<1>1. /\ task' \in [Requests -> TaskSet] /\ Alone(task, task', r)
         /\ (task'[r].kind # "none" => task'[r].step >= 1)
      /\ charge' \in [Requests -> Charges] /\ Alone(charge, charge', r)
      /\ active' \in Requests \cup {NoRequest}
      /\ faults' \in 0 .. MaxFaults
  BY <1>0, TypeSets DEF StartLanding, TypeInv, Alone
<1>2. row' \in Rows
  <2>1. Stored(r, "status", "LANDING_GENERATING") \in Statuses
    BY <1>0, StoredTypes DEF Statuses
  <2> QED BY <2>1, <1>0, RowStatus, TypeSets DEF StartLanding
<1>3. req' \in [Requests -> RequestSet] /\ Alone(req, req', r)
  BY <1>0, GotoEffect DEF StartLanding, Places
<1> QED BY <1>1, <1>2, <1>3, KeptParts

LEMMA KeptRead ==
  ASSUME TypeInv, NEW r \in Requests, NEW op \in Ops, Read(r, op)
  PROVE  Kept(r)
<1>0. TypeOK
  BY DEF TypeInv
<1>1. /\ row' \in Rows
      /\ task' \in [Requests -> TaskSet] /\ Alone(task, task', r)
         /\ (task'[r].kind # "none" => task'[r].step >= 1)
      /\ charge' \in [Requests -> Charges] /\ Alone(charge, charge', r)
      /\ active' \in Requests \cup {NoRequest}
      /\ faults' \in 0 .. MaxFaults
  BY <1>0, TypeSets DEF Read, TypeInv, Alone
<1>2. req' \in [Requests -> RequestSet] /\ Alone(req, req', r)
  BY <1>0, EnterEffect, LifecycleAssumption DEF Read, Places
<1> QED BY <1>1, <1>2, KeptParts

LEMMA KeptChargeResearch ==
  ASSUME TypeInv, NEW r \in Requests, NEW op \in Ops, ChargeResearch(r, op)
  PROVE  Kept(r)
<1>0. TypeOK
  BY DEF TypeInv
<1>1. /\ row' \in Rows
      /\ task' \in [Requests -> TaskSet] /\ Alone(task, task', r)
         /\ (task'[r].kind # "none" => task'[r].step >= 1)
      /\ active' \in Requests \cup {NoRequest}
      /\ faults' \in 0 .. MaxFaults
  BY <1>0, TypeSets DEF ChargeResearch, TypeInv, Alone
<1>2. req' \in [Requests -> RequestSet] /\ Alone(req, req', r)
  BY <1>0, EnterEffect, LifecycleAssumption DEF ChargeResearch, Places
<1>3. charge' \in [Requests -> Charges] /\ Alone(charge, charge', r)
  BY <1>0, TypeSets DEF ChargeResearch, Charges, Alone
<1> QED BY <1>1, <1>2, <1>3, KeptParts

LEMMA KeptDrop ==
  ASSUME TypeInv, NEW r \in Requests, Drop(r)
  PROVE  Kept(r)
<1>0. TypeOK
  BY DEF TypeInv
<1>1. /\ row' \in Rows
      /\ task' \in [Requests -> TaskSet] /\ Alone(task, task', r)
         /\ (task'[r].kind # "none" => task'[r].step >= 1)
      /\ charge' \in [Requests -> Charges] /\ Alone(charge, charge', r)
      /\ active' \in Requests \cup {NoRequest}
      /\ faults' \in 0 .. MaxFaults
  BY <1>0, TypeSets DEF Drop, TypeInv, Alone
<1>2. req' \in [Requests -> RequestSet] /\ Alone(req, req', r)
  BY <1>0, AnswerEffect DEF Drop
<1> QED BY <1>1, <1>2, KeptParts

LEMMA KeptLaunch ==
  ASSUME TypeInv, NEW r \in Requests, Launch(r)
  PROVE  Kept(r)
<1>0. TypeOK
  BY DEF TypeInv
<1>1. /\ task' \in [Requests -> TaskSet] /\ Alone(task, task', r)
         /\ (task'[r].kind # "none" => task'[r].step >= 1)
      /\ charge' \in [Requests -> Charges] /\ Alone(charge, charge', r)
      /\ active' \in Requests \cup {NoRequest}
      /\ faults' \in 0 .. MaxFaults
  BY <1>0, TypeSets DEF Launch, TypeInv, Alone
<1>2. row' \in Rows
  BY <1>0, RowStatus, TypeSets DEF Launch, SetStatus, Statuses, ResearchActive
<1>3. req' \in [Requests -> RequestSet] /\ Alone(req, req', r)
  BY <1>0, GotoEffect DEF Launch, Places
<1> QED BY <1>1, <1>2, <1>3, KeptParts

LEMMA KeptRefuseLaunch ==
  ASSUME TypeInv, NEW r \in Requests, RefuseLaunch(r)
  PROVE  Kept(r)
<1>0. TypeOK
  BY DEF TypeInv
<1>1. /\ row' \in Rows
      /\ task' \in [Requests -> TaskSet] /\ Alone(task, task', r)
         /\ (task'[r].kind # "none" => task'[r].step >= 1)
      /\ active' \in Requests \cup {NoRequest}
      /\ faults' \in 0 .. MaxFaults
  BY <1>0, TypeSets DEF RefuseLaunch, TypeInv, Alone
<1>2. req' \in [Requests -> RequestSet] /\ Alone(req, req', r)
  BY <1>0, AnswerEffect DEF RefuseLaunch
<1>3. charge' \in [Requests -> Charges] /\ Alone(charge, charge', r)
  BY <1>0, RefundEffect DEF RefuseLaunch
<1> QED BY <1>1, <1>2, <1>3, KeptParts

LEMMA KeptDispatchResearch ==
  ASSUME TypeInv, NEW r \in Requests, DispatchResearch(r)
  PROVE  Kept(r)
<1>0. TypeOK
  BY DEF TypeInv
<1>1. /\ row' \in Rows
      /\ charge' \in [Requests -> Charges] /\ Alone(charge, charge', r)
      /\ active' \in Requests \cup {NoRequest}
      /\ faults' \in 0 .. MaxFaults
  BY <1>0, TypeSets DEF DispatchResearch, TypeInv, Alone
<1>2. req' \in [Requests -> RequestSet] /\ Alone(req, req', r)
  BY <1>0, AnswerEffect DEF DispatchResearch
<1>3. task' \in [Requests -> TaskSet] /\ Alone(task, task', r) /\ task'[r].step = 1
  <2>1. task' = [task EXCEPT ![r] =
                   [kind |-> "research", at |-> "load", step |-> 1, wasLive |-> FALSE]]
    BY DEF DispatchResearch, Spawn
  <2>2. (FALSE) \in BOOLEAN
    OBVIOUS
  <2> QED BY <1>0, <2>1, <2>2, NewTask, TypeSets DEF Alone, JobPlaces
<1>4. task'[r].kind # "none" => task'[r].step >= 1
  BY <1>3
<1> QED BY <1>1, <1>2, <1>3, <1>4, KeptParts

LEMMA KeptRefuseResearch ==
  ASSUME TypeInv, NEW r \in Requests, RefuseResearch(r)
  PROVE  Kept(r)
<1>0. TypeOK
  BY DEF TypeInv
<1>1. /\ row' \in Rows
      /\ task' \in [Requests -> TaskSet] /\ Alone(task, task', r)
         /\ (task'[r].kind # "none" => task'[r].step >= 1)
      /\ active' \in Requests \cup {NoRequest}
      /\ faults' \in 0 .. MaxFaults
  BY <1>0, TypeSets DEF RefuseResearch, TypeInv, Alone
<1>2. req' \in [Requests -> RequestSet] /\ Alone(req, req', r)
  BY <1>0, AnswerEffect DEF RefuseResearch
<1>3. charge' \in [Requests -> Charges] /\ Alone(charge, charge', r)
  BY <1>0, RefundEffect DEF RefuseResearch
<1> QED BY <1>1, <1>2, <1>3, KeptParts

LEMMA KeptChargeInsight ==
  ASSUME TypeInv, NEW r \in Requests, ChargeInsight(r)
  PROVE  Kept(r)
<1>0. TypeOK
  BY DEF TypeInv
<1>1. /\ task' \in [Requests -> TaskSet] /\ Alone(task, task', r)
         /\ (task'[r].kind # "none" => task'[r].step >= 1)
      /\ active' \in Requests \cup {NoRequest}
      /\ faults' \in 0 .. MaxFaults
  BY <1>0, TypeSets DEF ChargeInsight, TypeInv, Alone
<1>2. row' \in Rows
  BY <1>0, RowStatus, TypeSets DEF ChargeInsight, SetStatus, Statuses
<1>3. req' \in [Requests -> RequestSet] /\ Alone(req, req', r)
  <2>1. "insight" \in AllOps /\ "dispatch" \in Places
    BY DEF AllOps, Places
  <2> QED BY <1>0, <2>1, EnterEffect DEF ChargeInsight
<1>4. charge' \in [Requests -> Charges] /\ Alone(charge, charge', r)
  BY <1>0, TypeSets DEF ChargeInsight, Charges, Alone
<1> QED BY <1>1, <1>2, <1>3, <1>4, KeptParts

LEMMA KeptDispatchInsight ==
  ASSUME TypeInv, NEW r \in Requests, DispatchInsight(r)
  PROVE  Kept(r)
<1>0. TypeOK
  BY DEF TypeInv
<1>1. /\ row' \in Rows
      /\ charge' \in [Requests -> Charges] /\ Alone(charge, charge', r)
      /\ active' \in Requests \cup {NoRequest}
      /\ faults' \in 0 .. MaxFaults
  BY <1>0, TypeSets DEF DispatchInsight, TypeInv, Alone
<1>2. req' \in [Requests -> RequestSet] /\ Alone(req, req', r)
  BY <1>0, AnswerEffect DEF DispatchInsight
<1>3. task' \in [Requests -> TaskSet] /\ Alone(task, task', r) /\ task'[r].step = 1
  <2>1. task' = [task EXCEPT ![r] =
                   [kind |-> "insight", at |-> "generate", step |-> 1, wasLive |-> FALSE]]
    BY DEF DispatchInsight, Spawn
  <2>2. (FALSE) \in BOOLEAN
    OBVIOUS
  <2> QED BY <1>0, <2>1, <2>2, NewTask, TypeSets DEF Alone, JobPlaces
<1>4. task'[r].kind # "none" => task'[r].step >= 1
  BY <1>3
<1> QED BY <1>1, <1>2, <1>3, <1>4, KeptParts

LEMMA KeptRefuseInsight ==
  ASSUME TypeInv, NEW r \in Requests, RefuseInsight(r)
  PROVE  Kept(r)
<1>0. TypeOK
  BY DEF TypeInv
<1>1. /\ task' \in [Requests -> TaskSet] /\ Alone(task, task', r)
         /\ (task'[r].kind # "none" => task'[r].step >= 1)
      /\ active' \in Requests \cup {NoRequest}
      /\ faults' \in 0 .. MaxFaults
  BY <1>0, TypeSets DEF RefuseInsight, TypeInv, Alone
<1>2. row' \in Rows
  BY <1>0, RowStatus, TypeSets DEF RefuseInsight, SetStatus, Statuses
<1>3. req' \in [Requests -> RequestSet] /\ Alone(req, req', r)
  BY <1>0, AnswerEffect DEF RefuseInsight
<1>4. charge' \in [Requests -> Charges] /\ Alone(charge, charge', r)
  BY <1>0, RefundEffect DEF RefuseInsight
<1> QED BY <1>1, <1>2, <1>3, <1>4, KeptParts

LEMMA KeptDispatchLanding ==
  ASSUME TypeInv, NEW r \in Requests, DispatchLanding(r)
  PROVE  Kept(r)
<1>0. TypeOK
  BY DEF TypeInv
<1>1. /\ row' \in Rows
      /\ charge' \in [Requests -> Charges] /\ Alone(charge, charge', r)
      /\ faults' \in 0 .. MaxFaults
  BY <1>0, TypeSets DEF DispatchLanding, TypeInv, Alone
<1>2. req' \in [Requests -> RequestSet] /\ Alone(req, req', r)
  BY <1>0, AnswerEffect DEF DispatchLanding
<1>3. task' \in [Requests -> TaskSet] /\ Alone(task, task', r) /\ task'[r].step = 1
  <2>1. task' = [task EXCEPT ![r] =
                   [kind |-> "landing", at |-> "generate", step |-> 1, wasLive |-> req[r].seen.status = "LANDING_LIVE"]]
    BY DEF DispatchLanding, Spawn
  <2>2. (req[r].seen.status = "LANDING_LIVE") \in BOOLEAN
    OBVIOUS
  <2> QED BY <1>0, <2>1, <2>2, NewTask, TypeSets DEF Alone, JobPlaces
<1>4. task'[r].kind # "none" => task'[r].step >= 1
  BY <1>3
<1>5. active' \in Requests \cup {NoRequest}
  BY DEF DispatchLanding
<1> QED BY <1>1, <1>2, <1>3, <1>4, <1>5, KeptParts

LEMMA KeptRefuseLanding ==
  ASSUME TypeInv, NEW r \in Requests, RefuseLanding(r)
  PROVE  Kept(r)
<1>0. TypeOK
  BY DEF TypeInv
<1>1. /\ task' \in [Requests -> TaskSet] /\ Alone(task, task', r)
         /\ (task'[r].kind # "none" => task'[r].step >= 1)
      /\ charge' \in [Requests -> Charges] /\ Alone(charge, charge', r)
      /\ active' \in Requests \cup {NoRequest}
      /\ faults' \in 0 .. MaxFaults
  BY <1>0, TypeSets DEF RefuseLanding, TypeInv, Alone
<1>2. row' \in Rows
  BY <1>0, RowStatus, TypeSets DEF RefuseLanding, SetStatus, Statuses
<1>3. req' \in [Requests -> RequestSet] /\ Alone(req, req', r)
  BY <1>0, AnswerEffect DEF RefuseLanding
<1> QED BY <1>1, <1>2, <1>3, KeptParts

LEMMA KeptLoadIdea ==
  ASSUME TypeInv, NEW r \in Requests, LoadIdea(r)
  PROVE  Kept(r)
<1>0. TypeOK
  BY DEF TypeInv
<1>1. /\ row' \in Rows
      /\ req' \in [Requests -> RequestSet] /\ Alone(req, req', r)
      /\ charge' \in [Requests -> Charges] /\ Alone(charge, charge', r)
      /\ active' \in Requests \cup {NoRequest}
      /\ faults' \in 0 .. MaxFaults
  BY <1>0, TypeSets DEF LoadIdea, TypeInv, Alone
<1>2. task' \in [Requests -> TaskSet] /\ Alone(task, task', r)
         /\ task'[r] = [task[r] EXCEPT !.at = "phase"]
  BY <1>0, TaskToEffect DEF LoadIdea, JobPlaces
<1>3. task'[r].kind # "none" => task'[r].step >= 1
  BY <1>0, <1>2, TypeSets DEF TypeInv, TaskSet
<1> QED BY <1>1, <1>2, <1>3, KeptParts

LEMMA KeptNoIdea ==
  ASSUME TypeInv, NEW r \in Requests, NoIdea(r)
  PROVE  Kept(r)
<1>0. TypeOK
  BY DEF TypeInv
<1>1. /\ req' \in [Requests -> RequestSet] /\ Alone(req, req', r)
      /\ charge' \in [Requests -> Charges] /\ Alone(charge, charge', r)
      /\ active' \in Requests \cup {NoRequest}
      /\ faults' \in 0 .. MaxFaults
  BY <1>0, TypeSets DEF NoIdea, TypeInv, Alone
<1>2. row' \in Rows
  BY <1>0, RowStatus, TypeSets DEF NoIdea, SetStatus, Statuses
<1>3. task' \in [Requests -> TaskSet] /\ Alone(task, task', r) /\ task'[r] = Stopped("over")
  BY <1>0, TaskEndsEffect DEF NoIdea, JobPlaces
<1>4. task'[r].kind # "none" => task'[r].step >= 1
  BY <1>3, StoppedTask DEF JobPlaces
<1> QED BY <1>1, <1>2, <1>3, <1>4, KeptParts

LEMMA KeptEnterPhase ==
  ASSUME TypeInv, NEW r \in Requests, EnterPhase(r)
  PROVE  Kept(r)
<1>0. TypeOK
  BY DEF TypeInv
<1>1. /\ req' \in [Requests -> RequestSet] /\ Alone(req, req', r)
      /\ charge' \in [Requests -> Charges] /\ Alone(charge, charge', r)
      /\ active' \in Requests \cup {NoRequest}
      /\ faults' \in 0 .. MaxFaults
  BY <1>0, TypeSets DEF EnterPhase, TypeInv, Alone
<1>2. row' \in Rows
  <2>1. task[r].kind # "none" /\ task[r].step \in Nat /\ task[r].step <= 6
    BY <1>0, PhaseValues, TypeSets DEF EnterPhase, Is, TaskSet
  <2>2. task[r].step \in 1..6
    BY <2>1 DEF TypeInv
  <2>3. Phases[task[r].step] \in Statuses
    BY <2>2 DEF Statuses, ResearchActive
  <2> QED BY <1>0, <2>3, RowStatus, TypeSets DEF EnterPhase, SetStatus
<1>3. task' \in [Requests -> TaskSet] /\ Alone(task, task', r)
         /\ task'[r] = [task[r] EXCEPT !.step = @ + 1]
  <2>1. [task[r] EXCEPT !.step = @ + 1] \in TaskSet
    BY <1>0, PhaseValues, TypeSets DEF EnterPhase, TaskSet
  <2> QED BY <1>0, <2>1, TypeSets DEF EnterPhase, Alone
<1>4. task'[r].kind # "none" => task'[r].step >= 1
  BY <1>0, <1>3, TypeSets DEF TypeInv, TaskSet
<1> QED BY <1>1, <1>2, <1>3, <1>4, KeptParts

LEMMA KeptFinishResearch ==
  ASSUME TypeInv, NEW r \in Requests, FinishResearch(r)
  PROVE  Kept(r)
<1>0. TypeOK
  BY DEF TypeInv
<1>1. /\ req' \in [Requests -> RequestSet] /\ Alone(req, req', r)
      /\ charge' \in [Requests -> Charges] /\ Alone(charge, charge', r)
      /\ active' \in Requests \cup {NoRequest}
      /\ faults' \in 0 .. MaxFaults
  BY <1>0, TypeSets DEF FinishResearch, TypeInv, Alone
<1>2. row' \in Rows
  <2>1. row \in Rows /\ "RESEARCH_READY" \in Statuses
    BY <1>0 DEF TypeOK, Statuses
  <2> QED BY <2>1 DEF FinishResearch, Rows
<1>3. task' \in [Requests -> TaskSet] /\ Alone(task, task', r) /\ task'[r] = Stopped("over")
  BY <1>0, TaskEndsEffect DEF FinishResearch, JobPlaces
<1>4. task'[r].kind # "none" => task'[r].step >= 1
  BY <1>3, StoppedTask DEF JobPlaces
<1> QED BY <1>1, <1>2, <1>3, <1>4, KeptParts

LEMMA KeptFailResearch ==
  ASSUME TypeInv, NEW r \in Requests, FailResearch(r)
  PROVE  Kept(r)
<1>0. TypeOK
  BY DEF TypeInv
<1>1. /\ req' \in [Requests -> RequestSet] /\ Alone(req, req', r)
      /\ charge' \in [Requests -> Charges] /\ Alone(charge, charge', r)
      /\ active' \in Requests \cup {NoRequest}
      /\ faults' \in 0 .. MaxFaults
  BY <1>0, TypeSets DEF FailResearch, TypeInv, Alone
<1>2. row' \in Rows
  BY <1>0, RowStatus, TypeSets DEF FailResearch, SetStatus, Statuses
<1>3. task' \in [Requests -> TaskSet] /\ Alone(task, task', r) /\ task'[r] = Stopped("over")
  BY <1>0, TaskEndsEffect DEF FailResearch, JobPlaces
<1>4. task'[r].kind # "none" => task'[r].step >= 1
  BY <1>3, StoppedTask DEF JobPlaces
<1> QED BY <1>1, <1>2, <1>3, <1>4, KeptParts

LEMMA KeptGeneratePage ==
  ASSUME TypeInv, NEW r \in Requests, GeneratePage(r)
  PROVE  Kept(r)
<1>0. TypeOK
  BY DEF TypeInv
<1>1. /\ req' \in [Requests -> RequestSet] /\ Alone(req, req', r)
      /\ charge' \in [Requests -> Charges] /\ Alone(charge, charge', r)
      /\ active' \in Requests \cup {NoRequest}
      /\ faults' \in 0 .. MaxFaults
  BY <1>0, TypeSets DEF GeneratePage, TypeInv, Alone
<1>2. row' \in Rows
  BY <1>0 DEF GeneratePage, TypeOK, Rows
<1>3. task' \in [Requests -> TaskSet] /\ Alone(task, task', r)
         /\ task'[r] = [task[r] EXCEPT !.at = "transit"]
  BY <1>0, TaskToEffect DEF GeneratePage, JobPlaces
<1>4. task'[r].kind # "none" => task'[r].step >= 1
  BY <1>0, <1>3, TypeSets DEF TypeInv, TaskSet
<1> QED BY <1>1, <1>2, <1>3, <1>4, KeptParts

LEMMA KeptFinishLanding ==
  ASSUME TypeInv, NEW r \in Requests, FinishLanding(r)
  PROVE  Kept(r)
<1>0. TypeOK
  BY DEF TypeInv
<1>1. /\ req' \in [Requests -> RequestSet] /\ Alone(req, req', r)
      /\ charge' \in [Requests -> Charges] /\ Alone(charge, charge', r)
      /\ faults' \in 0 .. MaxFaults
  BY <1>0, TypeSets DEF FinishLanding, TypeInv, Alone
<1>2. row' \in Rows
  <2>1. (IF task[r].wasLive THEN "LANDING_LIVE" ELSE "LANDING_DRAFT") \in Statuses
    BY DEF Statuses
  <2> QED BY <1>0, <2>1, RowStatus, TypeSets DEF FinishLanding, SetStatus
<1>3. task' \in [Requests -> TaskSet] /\ Alone(task, task', r) /\ task'[r] = Stopped("over")
  BY <1>0, TaskEndsEffect DEF FinishLanding, JobPlaces
<1>4. task'[r].kind # "none" => task'[r].step >= 1
  BY <1>3, StoppedTask DEF JobPlaces
<1>5. active' \in Requests \cup {NoRequest}
  BY <1>0, DeregisterType DEF FinishLanding
<1> QED BY <1>1, <1>2, <1>3, <1>4, <1>5, KeptParts

LEMMA KeptFailAttempt ==
  ASSUME TypeInv, NEW r \in Requests, FailAttempt(r)
  PROVE  Kept(r)
<1>0. TypeOK
  BY DEF TypeInv
<1>1. /\ row' \in Rows
      /\ req' \in [Requests -> RequestSet] /\ Alone(req, req', r)
      /\ charge' \in [Requests -> Charges] /\ Alone(charge, charge', r)
      /\ active' \in Requests \cup {NoRequest}
      /\ faults' \in 0 .. MaxFaults
  BY <1>0, TypeSets DEF FailAttempt, TypeInv, Alone
<1>2. task' \in [Requests -> TaskSet] /\ Alone(task, task', r)
         /\ task'[r].kind = task[r].kind
         /\ task'[r].step \in {task[r].step, task[r].step + 1}
  <2>1. task[r] \in TaskSet /\ DOMAIN task = Requests
    BY <1>0, TypeSets
  <2>2. CASE task[r].step < MaxAttempts /\ row.report
    <3>1. task' = [task EXCEPT ![r] = [task[r] EXCEPT !.at = "generate", !.step = task[r].step + 1]]
      BY <2>1, <2>2 DEF FailAttempt
    <3>2. task[r].step + 1 \in 0 .. Len(Phases) + 1
      BY <2>1, <2>2, PhaseValues DEF TaskSet, MaxAttempts
    <3>3. [task[r] EXCEPT !.at = "generate", !.step = task[r].step + 1] \in TaskSet
      BY <2>1, <3>2 DEF TaskSet, JobPlaces
    <3> QED BY <1>0, <2>1, <3>1, <3>3, TypeSets DEF Alone, TaskSet
  <2>3. CASE ~(task[r].step < MaxAttempts /\ row.report)
    <3>1. task' = [task EXCEPT ![r] = [task[r] EXCEPT !.at = "fail"]]
      BY <2>1, <2>3 DEF FailAttempt
    <3>2. [task[r] EXCEPT !.at = "fail"] \in TaskSet
      BY <2>1 DEF TaskSet, JobPlaces
    <3> QED BY <1>0, <2>1, <3>1, <3>2, TypeSets DEF Alone, TaskSet
  <2> QED BY <2>2, <2>3
<1>3. task'[r].kind # "none" => task'[r].step >= 1
  <2>1. task[r].step \in Nat
    BY <1>0, TypeSets, PhaseValues DEF TaskSet
  <2> QED BY <1>2, <2>1 DEF TypeInv
<1> QED BY <1>1, <1>2, <1>3, KeptParts

LEMMA KeptFailLanding ==
  ASSUME TypeInv, NEW r \in Requests, FailLanding(r)
  PROVE  Kept(r)
<1>0. TypeOK
  BY DEF TypeInv
<1>1. /\ req' \in [Requests -> RequestSet] /\ Alone(req, req', r)
      /\ charge' \in [Requests -> Charges] /\ Alone(charge, charge', r)
      /\ faults' \in 0 .. MaxFaults
  BY <1>0, TypeSets DEF FailLanding, TypeInv, Alone
<1>2. row' \in Rows
  <2>1. (IF task[r].wasLive THEN "LANDING_LIVE" ELSE "RESEARCH_READY") \in Statuses
    BY DEF Statuses
  <2> QED BY <1>0, <2>1, RowStatus, TypeSets DEF FailLanding, SetStatus
<1>3. task' \in [Requests -> TaskSet] /\ Alone(task, task', r) /\ task'[r] = Stopped("over")
  BY <1>0, TaskEndsEffect DEF FailLanding, JobPlaces
<1>4. task'[r].kind # "none" => task'[r].step >= 1
  BY <1>3, StoppedTask DEF JobPlaces
<1>5. active' \in Requests \cup {NoRequest}
  BY <1>0, DeregisterType DEF FailLanding
<1> QED BY <1>1, <1>2, <1>3, <1>4, <1>5, KeptParts

LEMMA KeptGenerateInsight ==
  ASSUME TypeInv, NEW r \in Requests, GenerateInsight(r)
  PROVE  Kept(r)
<1>0. TypeOK
  BY DEF TypeInv
<1>1. /\ req' \in [Requests -> RequestSet] /\ Alone(req, req', r)
      /\ charge' \in [Requests -> Charges] /\ Alone(charge, charge', r)
      /\ active' \in Requests \cup {NoRequest}
      /\ faults' \in 0 .. MaxFaults
  BY <1>0, TypeSets DEF GenerateInsight, TypeInv, Alone
<1>2. row' \in Rows
  BY <1>0 DEF GenerateInsight, TypeOK, Rows
<1>3. task' \in [Requests -> TaskSet] /\ Alone(task, task', r)
         /\ task'[r] = [task[r] EXCEPT !.at = "transit"]
  BY <1>0, TaskToEffect DEF GenerateInsight, JobPlaces
<1>4. task'[r].kind # "none" => task'[r].step >= 1
  BY <1>0, <1>3, TypeSets DEF TypeInv, TaskSet
<1> QED BY <1>1, <1>2, <1>3, <1>4, KeptParts

LEMMA KeptFinishInsight ==
  ASSUME TypeInv, NEW r \in Requests, FinishInsight(r)
  PROVE  Kept(r)
<1>0. TypeOK
  BY DEF TypeInv
<1>1. /\ req' \in [Requests -> RequestSet] /\ Alone(req, req', r)
      /\ charge' \in [Requests -> Charges] /\ Alone(charge, charge', r)
      /\ active' \in Requests \cup {NoRequest}
      /\ faults' \in 0 .. MaxFaults
  BY <1>0, TypeSets DEF FinishInsight, TypeInv, Alone
<1>2. row' \in Rows
  BY <1>0, RowStatus, TypeSets DEF FinishInsight, SetStatus, Statuses
<1>3. task' \in [Requests -> TaskSet] /\ Alone(task, task', r) /\ task'[r] = Stopped("over")
  BY <1>0, TaskEndsEffect DEF FinishInsight, JobPlaces
<1>4. task'[r].kind # "none" => task'[r].step >= 1
  BY <1>3, StoppedTask DEF JobPlaces
<1> QED BY <1>1, <1>2, <1>3, <1>4, KeptParts

LEMMA KeptFailInsight ==
  ASSUME TypeInv, NEW r \in Requests, FailInsight(r)
  PROVE  Kept(r)
<1>0. TypeOK
  BY DEF TypeInv
<1>1. /\ req' \in [Requests -> RequestSet] /\ Alone(req, req', r)
      /\ active' \in Requests \cup {NoRequest}
      /\ faults' \in 0 .. MaxFaults
  BY <1>0, TypeSets DEF FailInsight, TypeInv, Alone
<1>2. row' \in Rows
  BY <1>0, RowStatus, TypeSets DEF FailInsight, SetStatus, Statuses
<1>3. task' \in [Requests -> TaskSet] /\ Alone(task, task', r) /\ task'[r] = Stopped("over")
  BY <1>0, TaskEndsEffect DEF FailInsight, JobPlaces
<1>4. task'[r].kind # "none" => task'[r].step >= 1
  BY <1>3, StoppedTask DEF JobPlaces
<1>5. charge' \in [Requests -> Charges] /\ Alone(charge, charge', r)
  BY <1>0, RefundEffect DEF FailInsight
<1> QED BY <1>1, <1>2, <1>3, <1>4, <1>5, KeptParts

LEMMA KeptGiveUp ==
  ASSUME TypeInv, NEW r \in Requests, GiveUp(r)
  PROVE  Kept(r)
<1>0. TypeOK
  BY DEF TypeInv
<1>1. /\ row' \in Rows
      /\ req' \in [Requests -> RequestSet] /\ Alone(req, req', r)
      /\ charge' \in [Requests -> Charges] /\ Alone(charge, charge', r)
  BY <1>0, TypeSets DEF GiveUp, TypeInv, Alone
<1>2. task' \in [Requests -> TaskSet] /\ Alone(task, task', r) /\ task'[r] = Stopped("lost")
  BY <1>0, TaskEndsEffect DEF GiveUp, JobPlaces
<1>3. task'[r].kind # "none" => task'[r].step >= 1
  BY <1>2, StoppedTask DEF JobPlaces
<1>4. active' \in Requests \cup {NoRequest}
  BY <1>0, DeregisterType DEF GiveUp
<1>5. faults' \in 0 .. MaxFaults
  BY <1>0, LifecycleAssumption DEF GiveUp, TypeOK
<1> QED BY <1>1, <1>2, <1>3, <1>4, <1>5, KeptParts

(***************************************************************************)
(* Type correctness                                                        *)
(***************************************************************************)
LEMMA TypeInit == Init => TypeInv
<1> SUFFICES ASSUME Init PROVE TypeInv
  OBVIOUS
<1>1. row \in Rows
  BY LifecycleAssumption DEF Init
<1>2. \A r \in Requests : req[r] \in RequestSet
  BY UnreadRow DEF Init, RequestSet, Places
<1>3. NoTask \in TaskSet /\ NoTask.kind = "none"
  BY PhaseValues DEF NoTask, TaskSet, JobPlaces
<1> QED BY <1>1, <1>2, <1>3, LifecycleAssumption, TypeSets DEF Init, TypeInv, Charges

LEMMA TypeCrash ==
  ASSUME TypeInv, Crash
  PROVE  TypeInv'
<1>0. TypeOK
  BY DEF TypeInv
<1>1. Ended("lost") \in RequestSet
  BY EndedRequest DEF Places
<1>2. Stopped("lost") \in TaskSet /\ Stopped("lost").kind = "none"
  BY StoppedTask DEF JobPlaces
<1>3. req' \in [Requests -> RequestSet]
  BY <1>0, <1>1, TypeSets DEF Crash
<1>4. task' \in [Requests -> TaskSet]
  BY <1>0, <1>2, TypeSets DEF Crash
<1>5. \A r \in Requests : task'[r].kind # "none" => task'[r].step >= 1
  BY <1>2 DEF Crash, TypeInv
<1>6. row' \in Rows /\ charge' \in [Requests -> Charges]
      /\ active' \in Requests \cup {NoRequest} /\ faults' \in 0 .. MaxFaults
  BY <1>0, LifecycleAssumption, TypeSets DEF Crash, TypeOK
<1>7. TypeOK'
  BY <1>3, <1>4, <1>6 DEF TypeOK, RequestSet, Places, TaskSet, JobPlaces, Charges
<1> QED BY <1>5, <1>7 DEF TypeInv

(* What one request may do in a step.                                      *)
Step(r) ==
  \/ \E op \in Ops : Read(r, op) \/ ChargeResearch(r, op)
  \/ ChargeInsight(r) \/ Drop(r)
  \/ Commit(r) \/ Dispatch(r) \/ Work(r) \/ GiveUp(r)

LEMMA StepKept ==
  ASSUME TypeInv, NEW r \in Requests, Step(r)
  PROVE  Kept(r)
<1>1. CASE \E op \in Ops : Read(r, op) \/ ChargeResearch(r, op)
  BY <1>1, KeptRead, KeptChargeResearch
<1>2. CASE ChargeInsight(r) \/ Drop(r) \/ GiveUp(r)
  BY <1>2, KeptChargeInsight, KeptDrop, KeptGiveUp
<1>3. CASE Commit(r)
  BY <1>3, KeptTurn, KeptRegenerate, KeptFinalize, KeptReset, KeptPublish,
     KeptArchive, KeptUnarchive, KeptStartLanding DEF Commit
<1>4. CASE Dispatch(r)
  BY <1>4, KeptLaunch, KeptRefuseLaunch, KeptDispatchResearch, KeptRefuseResearch,
     KeptDispatchInsight, KeptRefuseInsight, KeptDispatchLanding, KeptRefuseLanding
     DEF Dispatch
<1>5. CASE Work(r)
  BY <1>5, KeptLoadIdea, KeptNoIdea, KeptEnterPhase, KeptFinishResearch, KeptFailResearch,
     KeptGeneratePage, KeptFinishLanding, KeptFailAttempt, KeptFailLanding,
     KeptGenerateInsight, KeptFinishInsight, KeptFailInsight DEF Work
<1> QED BY <1>1, <1>2, <1>3, <1>4, <1>5 DEF Step

LEMMA NextSteps == Next => (\E r \in Requests : Step(r)) \/ Crash \/ UNCHANGED vars
BY DEF Next, Step, Rest

LEMMA TypeNext == TypeInv /\ [Next]_vars => TypeInv'
<1> SUFFICES ASSUME TypeInv, [Next]_vars PROVE TypeInv'
  OBVIOUS
<1>1. CASE UNCHANGED vars
  BY <1>1 DEF TypeInv, TypeOK, vars
<1>2. CASE Crash
  BY <1>2, TypeCrash
<1>3. CASE \E r \in Requests : Step(r)
  BY <1>3, StepKept DEF Kept
<1> QED BY <1>1, <1>2, <1>3, NextSteps

(* Every variable keeps its type whatever requests, jobs, crashes and       *)
(* retries do: in particular the research pipeline never runs past its last *)
(* phase and the landing page job counts its attempts.                     *)
THEOREM TypeCorrect == Spec => []TypeOK
<1>1. Spec => []TypeInv
  BY TypeInit, TypeNext, PTL DEF Spec
<1>2. TypeInv => TypeOK
  BY DEF TypeInv
<1> QED BY <1>1, <1>2, PTL

(***************************************************************************)
(* A status never tells the founder of something that is not there         *)
(***************************************************************************)
(* The statuses that tell the founder of something.                        *)
Promising == {"RESEARCH_READY", "LANDING_GENERATING", "LANDING_DRAFT", "LANDING_LIVE",
              "INSIGHT_GENERATING", "INSIGHT_FAILED", "INSIGHT_READY"}

LEMMA Unpromised ==
  ASSUME NEW x \in Rows,
         x.status \notin Promising
  PROVE  Promised(x.status, x)
BY DEF Promised, Promising

LEMMA SameChildren ==
  ASSUME NEW x \in Rows, NEW y \in Rows, Sound(x), Promised(y.status, y),
         y.report = x.report, y.page = x.page, y.live = x.live, y.insight = x.insight
  PROVE  Sound(y) /\ Children(x, y)
BY DEF Sound, Grown, Children

LEMMA SameRow ==
  ASSUME NEW x, Sound(x)
  PROVE  Sound(x) /\ Children(x, x)
BY DEF Children

(* What backs a request or a job is not undone by a row that grows.         *)
LEMMA RequestGrows ==
  ASSUME NEW x \in Rows, NEW y \in Rows, Children(x, y), NEW q, RequestBacked(q, x)
  PROVE  RequestBacked(q, y)
BY DEF RequestBacked, Children

LEMMA TaskGrows ==
  ASSUME NEW x \in Rows, NEW y \in Rows, Children(x, y), NEW t, TaskBacked(t, x)
  PROVE  TaskBacked(t, y)
BY DEF TaskBacked, Children

LEMMA EndedBacked ==
  ASSUME NEW p, NEW x
  PROVE  RequestBacked(Ended(p), x)
BY DEF RequestBacked, Ended, Unread, Sound, Promised, Grown, Children

LEMMA StoppedBacked ==
  ASSUME NEW p \in JobPlaces, NEW x
  PROVE  TaskBacked(Stopped(p), x)
BY StoppedTask DEF TaskBacked

LEMMA SoundParts ==
  ASSUME LifecycleInv, NEW r \in Requests, Kept(r),
         Sound(row'), Children(row, row'),
         RequestBacked(req'[r], row'), TaskBacked(task'[r], row')
  PROVE  LifecycleInv'
<1>1. row \in Rows /\ row' \in Rows
  BY DEF LifecycleInv, Kept, TypeInv, TypeOK
<1>2. ASSUME NEW q \in Requests
      PROVE  RequestBacked(req'[q], row') /\ TaskBacked(task'[q], row')
  <2>1. CASE q = r
    BY <2>1
  <2>2. CASE q # r
    <3>1. req'[q] = req[q] /\ task'[q] = task[q]
      BY <2>2 DEF Kept, Alone
    <3>2. RequestBacked(req[q], row) /\ TaskBacked(task[q], row)
      BY DEF LifecycleInv
    <3>3. RequestBacked(req[q], row') /\ TaskBacked(task[q], row')
      BY <1>1, <3>2, RequestGrows, TaskGrows
    <3> QED BY <3>1, <3>3
  <2> QED BY <2>1, <2>2
<1> QED BY <1>2 DEF LifecycleInv, Kept

(* The same for a request that is answered or left alone, and a job that    *)
(* ends or is left alone.                                                  *)
LEMMA SoundAnswered ==
  ASSUME LifecycleInv, NEW r \in Requests, Kept(r),
         Sound(row'), Children(row, row'),
         req'[r] = req[r] \/ req'[r] = Ended("done"),
         task'[r] = task[r] \/ task'[r] = Stopped("over") \/ task'[r] = Stopped("lost")
  PROVE  LifecycleInv'
<1>1. /\ row \in Rows /\ row' \in Rows
      /\ RequestBacked(req[r], row) /\ TaskBacked(task[r], row)
  BY DEF LifecycleInv, Kept, TypeInv, TypeOK
<1>2. RequestBacked(req'[r], row')
  BY <1>1, RequestGrows, EndedBacked
<1>3. TaskBacked(task'[r], row')
  BY <1>1, TaskGrows, StoppedBacked DEF JobPlaces
<1> QED BY <1>2, <1>3, SoundParts

LEMMA Facts ==
  ASSUME LifecycleInv, NEW r \in Requests
  PROVE  /\ TypeInv /\ TypeOK /\ row \in Rows /\ Sound(row)
         /\ req \in [Requests -> RequestSet] /\ req[r] \in RequestSet /\ req[r].seen \in Rows
         /\ task \in [Requests -> TaskSet] /\ task[r] \in TaskSet
         /\ RequestBacked(req[r], row) /\ TaskBacked(task[r], row)
BY TypeSets DEF LifecycleInv, TypeInv, RequestSet

LEMMA SoundRead ==
  ASSUME LifecycleInv, NEW r \in Requests, NEW op \in Ops, Read(r, op)
  PROVE  LifecycleInv'
<1>1. Kept(r)
  BY Facts, KeptRead
<1>2. row' = row
  BY DEF Read
<1>3. Sound(row') /\ Children(row, row')
  BY Facts, <1>2, SameRow
<1>4. RequestBacked(req'[r], row')
  <2>1. req'[r] = [op |-> op, at |-> "read", seen |-> row]
    BY Facts, EnterEffect, LifecycleAssumption DEF Read, Places
  <2>2. op = "publish" => row.page
    BY DEF Read, Accepts, PublishAccepts
  <2>3. op = "landing" => row.report
    BY Facts DEF Read, Accepts, LandingAccepts, Sound, Promised, Grown
  <2> QED BY Facts, <1>2, <1>3, <2>1, <2>2, <2>3 DEF RequestBacked
<1>5. TaskBacked(task'[r], row')
  <2>1. task'[r] = task[r]
    BY DEF Read
  <2> QED BY Facts, <1>1, <1>3, <2>1, TaskGrows DEF Kept, TypeInv, TypeOK
<1> QED BY <1>1, <1>3, <1>4, <1>5, SoundParts

LEMMA SoundChargeResearch ==
  ASSUME LifecycleInv, NEW r \in Requests, NEW op \in Ops, ChargeResearch(r, op)
  PROVE  LifecycleInv'
<1>1. Kept(r)
  BY Facts, KeptChargeResearch
<1>2. row' = row
  BY DEF ChargeResearch
<1>3. Sound(row') /\ Children(row, row')
  BY Facts, <1>2, SameRow
<1>4. RequestBacked(req'[r], row')
  <2>1. req'[r] = [op |-> op, at |-> "charged", seen |-> row]
    BY Facts, EnterEffect, LifecycleAssumption DEF ChargeResearch, Places
  <2> QED BY Facts, <1>2, <1>3, <2>1 DEF ChargeResearch, Billed, RequestBacked
<1>5. TaskBacked(task'[r], row')
  <2>1. task'[r] = task[r]
    BY DEF ChargeResearch
  <2> QED BY Facts, <1>1, <1>3, <2>1, TaskGrows DEF Kept, TypeInv, TypeOK
<1> QED BY <1>1, <1>3, <1>4, <1>5, SoundParts

LEMMA SoundDrop ==
  ASSUME LifecycleInv, NEW r \in Requests, Drop(r)
  PROVE  LifecycleInv'
<1>1. Kept(r)
  BY Facts, KeptDrop
<1>2. row' = row
  BY DEF Drop
<1>3. Sound(row') /\ Children(row, row')
  BY Facts, <1>2, SameRow
<1>4. req'[r] = Ended("done")
  BY Facts, AnswerEffect DEF Drop
<1>5. task'[r] = task[r]
  BY DEF Drop
<1> QED BY <1>1, <1>3, <1>4, <1>5, SoundAnswered

LEMMA SoundTurn ==
  ASSUME LifecycleInv, NEW r \in Requests, TurnCommit(r)
  PROVE  LifecycleInv'
<1>1. Kept(r)
  BY Facts, KeptTurn
<1>2. /\ row'.status = row.status \/ row'.status \notin Promising
      /\ row'.report = row.report /\ row'.page = row.page
      /\ row'.live = row.live /\ row'.insight = row.insight
  BY Facts DEF TurnCommit, Stored, Rows, Promising
<1>3. Sound(row') /\ Children(row, row')
  BY Facts, <1>1, <1>2, Unpromised, SameChildren DEF Sound, Promised, Kept, TypeInv, TypeOK
<1>4. req'[r] = Ended("done")
  BY Facts, AnswerEffect DEF TurnCommit
<1>5. task'[r] = task[r]
  BY DEF TurnCommit
<1> QED BY <1>1, <1>3, <1>4, <1>5, SoundAnswered

LEMMA SoundRegenerate ==
  ASSUME LifecycleInv, NEW r \in Requests, RegenerateCommit(r)
  PROVE  LifecycleInv'
<1>1. Kept(r)
  BY Facts, KeptRegenerate
<1>2. /\ row'.status = row.status \/ row'.status \notin Promising
      /\ row'.report = row.report /\ row'.page = row.page
      /\ row'.live = row.live /\ row'.insight = row.insight
  BY Facts DEF RegenerateCommit, Rows, Promising
<1>3. Sound(row') /\ Children(row, row')
  BY Facts, <1>1, <1>2, Unpromised, SameChildren DEF Sound, Promised, Kept, TypeInv, TypeOK
<1>4. req'[r] = Ended("done")
  BY Facts, AnswerEffect DEF RegenerateCommit
<1>5. task'[r] = task[r]
  BY DEF RegenerateCommit
<1> QED BY <1>1, <1>3, <1>4, <1>5, SoundAnswered

LEMMA SoundFinalize ==
  ASSUME LifecycleInv, NEW r \in Requests, FinalizeCommit(r)
  PROVE  LifecycleInv'
<1>1. Kept(r)
  BY Facts, KeptFinalize
<1>2. /\ row'.status = row.status \/ row'.status \notin Promising
      /\ row'.report = row.report /\ row'.page = row.page
      /\ row'.live = row.live /\ row'.insight = row.insight
  BY Facts DEF FinalizeCommit, Stored, Rows, Promising
<1>3. Sound(row') /\ Children(row, row')
  BY Facts, <1>1, <1>2, Unpromised, SameChildren DEF Sound, Promised, Kept, TypeInv, TypeOK
<1>4. req'[r] = Ended("done")
  BY Facts, AnswerEffect DEF FinalizeCommit
<1>5. task'[r] = task[r]
  BY DEF FinalizeCommit
<1> QED BY <1>1, <1>3, <1>4, <1>5, SoundAnswered

LEMMA SoundReset ==
  ASSUME LifecycleInv, NEW r \in Requests, ResetCommit(r)
  PROVE  LifecycleInv'
<1>1. Kept(r)
  BY Facts, KeptReset
<1>2. /\ row'.status = row.status \/ row'.status \notin Promising
      /\ row'.report = row.report /\ row'.page = row.page
      /\ row'.live = row.live /\ row'.insight = row.insight
  BY Facts DEF ResetCommit, Stored, Rows, Promising
<1>3. Sound(row') /\ Children(row, row')
  BY Facts, <1>1, <1>2, Unpromised, SameChildren DEF Sound, Promised, Kept, TypeInv, TypeOK
<1>4. req'[r] = Ended("done")
  BY Facts, AnswerEffect DEF ResetCommit
<1>5. task'[r] = task[r]
  BY DEF ResetCommit
<1> QED BY <1>1, <1>3, <1>4, <1>5, SoundAnswered

LEMMA SoundArchive ==
  ASSUME LifecycleInv, NEW r \in Requests, ArchiveCommit(r)
  PROVE  LifecycleInv'
<1>1. Kept(r)
  BY Facts, KeptArchive
<1>2. /\ row'.status = row.status \/ row'.status \notin Promising
      /\ row'.report = row.report /\ row'.page = row.page
      /\ row'.live = row.live /\ row'.insight = row.insight
  BY Facts DEF ArchiveCommit, Rows, Promising
<1>3. Sound(row') /\ Children(row, row')
  BY Facts, <1>1, <1>2, Unpromised, SameChildren DEF Sound, Promised, Kept, TypeInv, TypeOK
<1>4. req'[r] = Ended("done")
  BY Facts, AnswerEffect DEF ArchiveCommit
<1>5. task'[r] = task[r]
  BY DEF ArchiveCommit
<1> QED BY <1>1, <1>3, <1>4, <1>5, SoundAnswered

LEMMA SoundPublish ==
  ASSUME LifecycleInv, NEW r \in Requests, PublishCommit(r)
  PROVE  LifecycleInv'
<1>1. Kept(r)
  BY Facts, KeptPublish
<1>3. Sound(row') /\ Children(row, row')
  BY Facts DEF PublishCommit, At, RequestBacked, Sound, Promised, Grown, Children, Rows
<1>4. req'[r] = Ended("done")
  BY Facts, AnswerEffect DEF PublishCommit
<1>5. task'[r] = task[r]
  BY DEF PublishCommit
<1> QED BY <1>1, <1>3, <1>4, <1>5, SoundAnswered

LEMMA SoundUnarchive ==
  ASSUME LifecycleInv, NEW r \in Requests, UnarchiveCommit(r)
  PROVE  LifecycleInv'
<1>1. Kept(r)
  BY Facts, KeptUnarchive
<1>3. Sound(row') /\ Children(row, row')
  BY Facts DEF UnarchiveCommit, InferStatusAfterUnarchive, RequestBacked, Sound, Promised, Grown, Children, Rows
<1>4. req'[r] = Ended("done")
  BY Facts, AnswerEffect DEF UnarchiveCommit
<1>5. task'[r] = task[r]
  BY DEF UnarchiveCommit
<1> QED BY <1>1, <1>3, <1>4, <1>5, SoundAnswered

LEMMA SoundStartLanding ==
  ASSUME LifecycleInv, NEW r \in Requests, StartLanding(r)
  PROVE  LifecycleInv'
<1>1. Kept(r)
  BY Facts, KeptStartLanding
<1>3. Sound(row') /\ Children(row, row')
  BY Facts DEF StartLanding, At, RequestBacked, Stored, Sound, Promised, Grown, Children, Rows
<1>4. RequestBacked(req'[r], row')
  <2>1. req'[r] = [req[r] EXCEPT !.at = "dispatch"]
    BY Facts, GotoEffect DEF StartLanding, Places
  <2>2. RequestBacked(req[r], row')
    BY Facts, <1>1, <1>3, RequestGrows DEF Kept, TypeInv, TypeOK
  <2> QED BY Facts, <2>1, <2>2 DEF StartLanding, At, RequestBacked, RequestSet, Billed
<1>5. TaskBacked(task'[r], row')
  <2>1. task'[r] = task[r]
    BY DEF StartLanding
  <2> QED BY Facts, <1>1, <1>3, <2>1, TaskGrows DEF Kept, TypeInv, TypeOK
<1> QED BY <1>1, <1>3, <1>4, <1>5, SoundParts

LEMMA SoundLaunch ==
  ASSUME LifecycleInv, NEW r \in Requests, Launch(r)
  PROVE  LifecycleInv'
<1>1. Kept(r)
  BY Facts, KeptLaunch
<1>2. /\ row'.status = row.status \/ row'.status \notin Promising
      /\ row'.report = row.report /\ row'.page = row.page
      /\ row'.live = row.live /\ row'.insight = row.insight
  BY Facts DEF Launch, Rows, Promising
<1>3. Sound(row') /\ Children(row, row')
  BY Facts, <1>1, <1>2, Unpromised, SameChildren DEF Sound, Promised, Kept, TypeInv, TypeOK
<1>4. RequestBacked(req'[r], row')
  <2>1. req'[r] = [req[r] EXCEPT !.at = "dispatch"]
    BY Facts, GotoEffect DEF Launch, Places
  <2>2. RequestBacked(req[r], row')
    BY Facts, <1>1, <1>3, RequestGrows DEF Kept, TypeInv, TypeOK
  <2> QED BY Facts, <2>1, <2>2 DEF Launch, At, RequestBacked, RequestSet, Billed
<1>5. TaskBacked(task'[r], row')
  <2>1. task'[r] = task[r]
    BY DEF Launch
  <2> QED BY Facts, <1>1, <1>3, <2>1, TaskGrows DEF Kept, TypeInv, TypeOK
<1> QED BY <1>1, <1>3, <1>4, <1>5, SoundParts

LEMMA SoundRefuseLaunch ==
  ASSUME LifecycleInv, NEW r \in Requests, RefuseLaunch(r)
  PROVE  LifecycleInv'
<1>1. Kept(r)
  BY Facts, KeptRefuseLaunch
<1>2. row' = row
  BY DEF RefuseLaunch
<1>3. Sound(row') /\ Children(row, row')
  BY Facts, <1>2, SameRow
<1>4. req'[r] = Ended("done")
  BY Facts, AnswerEffect DEF RefuseLaunch
<1>5. task'[r] = task[r]
  BY DEF RefuseLaunch
<1> QED BY <1>1, <1>3, <1>4, <1>5, SoundAnswered

LEMMA SoundDispatchResearch ==
  ASSUME LifecycleInv, NEW r \in Requests, DispatchResearch(r)
  PROVE  LifecycleInv'
<1>1. Kept(r)
  BY Facts, KeptDispatchResearch
<1>2. row' = row
  BY DEF DispatchResearch
<1>3. Sound(row') /\ Children(row, row')
  BY Facts, <1>2, SameRow
<1>4. RequestBacked(req'[r], row')
  <2>1. req'[r] = Ended("done")
    BY Facts, AnswerEffect DEF DispatchResearch
  <2> QED BY <2>1, EndedBacked
<1>5. TaskBacked(task'[r], row')
  <2>1. task'[r] = [kind |-> "research", at |-> "load", step |-> 1, wasLive |-> FALSE]
    BY Facts DEF DispatchResearch, Spawn
  <2> QED BY Facts, <1>2, <2>1 DEF DispatchResearch, At, RequestBacked, TaskBacked, Children, Sound, Promised, Grown, Billed
<1> QED BY <1>1, <1>3, <1>4, <1>5, SoundParts

LEMMA SoundRefuseResearch ==
  ASSUME LifecycleInv, NEW r \in Requests, RefuseResearch(r)
  PROVE  LifecycleInv'
<1>1. Kept(r)
  BY Facts, KeptRefuseResearch
<1>2. row' = row
  BY DEF RefuseResearch
<1>3. Sound(row') /\ Children(row, row')
  BY Facts, <1>2, SameRow
<1>4. req'[r] = Ended("done")
  BY Facts, AnswerEffect DEF RefuseResearch
<1>5. task'[r] = task[r]
  BY DEF RefuseResearch
<1> QED BY <1>1, <1>3, <1>4, <1>5, SoundAnswered

LEMMA SoundChargeInsight ==
  ASSUME LifecycleInv, NEW r \in Requests, ChargeInsight(r)
  PROVE  LifecycleInv'
<1>1. Kept(r)
  BY Facts, KeptChargeInsight
<1>3. Sound(row') /\ Children(row, row')
  BY Facts DEF ChargeInsight, InsightSources, Sound, Promised, Grown, Children, Rows
<1>4. RequestBacked(req'[r], row')
  <2>1. "insight" \in AllOps /\ "dispatch" \in Places
    BY DEF AllOps, Places
  <2>2. req'[r] = [op |-> "insight", at |-> "dispatch", seen |-> row]
    BY Facts, <2>1, EnterEffect DEF ChargeInsight
  <2>3. row'.live
    BY Facts, <1>3 DEF ChargeInsight, InsightSources, Sound, Promised, Grown, Children
  <2> QED BY Facts, <1>3, <2>2, <2>3 DEF RequestBacked
<1>5. TaskBacked(task'[r], row')
  <2>1. task'[r] = task[r]
    BY DEF ChargeInsight
  <2> QED BY Facts, <1>1, <1>3, <2>1, TaskGrows DEF Kept, TypeInv, TypeOK
<1> QED BY <1>1, <1>3, <1>4, <1>5, SoundParts

LEMMA SoundDispatchInsight ==
  ASSUME LifecycleInv, NEW r \in Requests, DispatchInsight(r)
  PROVE  LifecycleInv'
<1>1. Kept(r)
  BY Facts, KeptDispatchInsight
<1>2. row' = row
  BY DEF DispatchInsight
<1>3. Sound(row') /\ Children(row, row')
  BY Facts, <1>2, SameRow
<1>4. RequestBacked(req'[r], row')
  <2>1. req'[r] = Ended("done")
    BY Facts, AnswerEffect DEF DispatchInsight
  <2> QED BY <2>1, EndedBacked
<1>5. TaskBacked(task'[r], row')
  <2>1. task'[r] = [kind |-> "insight", at |-> "generate", step |-> 1, wasLive |-> FALSE]
    BY Facts DEF DispatchInsight, Spawn
  <2> QED BY Facts, <1>2, <2>1 DEF DispatchInsight, At, RequestBacked, TaskBacked, Children, Sound, Promised, Grown, Billed
<1> QED BY <1>1, <1>3, <1>4, <1>5, SoundParts

LEMMA SoundRefuseInsight ==
  ASSUME LifecycleInv, NEW r \in Requests, RefuseInsight(r)
  PROVE  LifecycleInv'
<1>1. Kept(r)
  BY Facts, KeptRefuseInsight
<1>3. Sound(row') /\ Children(row, row')
  BY Facts DEF RefuseInsight, At, RequestBacked, Sound, Promised, Grown, Children, Rows
<1>4. req'[r] = Ended("done")
  BY Facts, AnswerEffect DEF RefuseInsight
<1>5. task'[r] = task[r]
  BY DEF RefuseInsight
<1> QED BY <1>1, <1>3, <1>4, <1>5, SoundAnswered

LEMMA SoundDispatchLanding ==
  ASSUME LifecycleInv, NEW r \in Requests, DispatchLanding(r)
  PROVE  LifecycleInv'
<1>1. Kept(r)
  BY Facts, KeptDispatchLanding
<1>2. row' = row
  BY DEF DispatchLanding
<1>3. Sound(row') /\ Children(row, row')
  BY Facts, <1>2, SameRow
<1>4. RequestBacked(req'[r], row')
  <2>1. req'[r] = Ended("done")
    BY Facts, AnswerEffect DEF DispatchLanding
  <2> QED BY <2>1, EndedBacked
<1>5. TaskBacked(task'[r], row')
  <2> DEFINE w == req[r].seen.status = "LANDING_LIVE"
  <2>1. task'[r] = [kind |-> "landing", at |-> "generate", step |-> 1, wasLive |-> w]
    BY Facts DEF DispatchLanding, Spawn
  <2>2. row.report /\ (w => row.live)
    BY Facts DEF DispatchLanding, At, RequestBacked, Children, Sound, Promised
  <2> HIDE DEF w
  <2>3. task'[r].kind = "landing" /\ task'[r].at = "generate" /\ task'[r].wasLive = w
    BY <2>1
  <2> QED BY <1>2, <2>2, <2>3 DEF TaskBacked
<1> QED BY <1>1, <1>3, <1>4, <1>5, SoundParts

LEMMA SoundRefuseLanding ==
  ASSUME LifecycleInv, NEW r \in Requests, RefuseLanding(r)
  PROVE  LifecycleInv'
<1>1. Kept(r)
  BY Facts, KeptRefuseLanding
<1>3. Sound(row') /\ Children(row, row')
  BY Facts DEF RefuseLanding, At, RequestBacked, Sound, Promised, Grown, Children, Rows
<1>4. req'[r] = Ended("done")
  BY Facts, AnswerEffect DEF RefuseLanding
<1>5. task'[r] = task[r]
  BY DEF RefuseLanding
<1> QED BY <1>1, <1>3, <1>4, <1>5, SoundAnswered

LEMMA SoundLoadIdea ==
  ASSUME LifecycleInv, NEW r \in Requests, LoadIdea(r)
  PROVE  LifecycleInv'
<1>1. Kept(r)
  BY Facts, KeptLoadIdea
<1>2. row' = row
  BY DEF LoadIdea
<1>3. Sound(row') /\ Children(row, row')
  BY Facts, <1>2, SameRow
<1>4. RequestBacked(req'[r], row')
  <2>1. req'[r] = req[r]
    BY DEF LoadIdea
  <2> QED BY Facts, <1>1, <1>3, <2>1, RequestGrows DEF Kept, TypeInv, TypeOK
<1>5. TaskBacked(task'[r], row')
  <2>1. task'[r] = [task[r] EXCEPT !.at = "phase"] /\ "phase" \in JobPlaces
    BY Facts, TaskToEffect DEF LoadIdea, JobPlaces
  <2> QED BY Facts, <1>3, <2>1 DEF LoadIdea, Is, TaskBacked, TaskSet, Children, Rows
<1> QED BY <1>1, <1>3, <1>4, <1>5, SoundParts

LEMMA SoundNoIdea ==
  ASSUME LifecycleInv, NEW r \in Requests, NoIdea(r)
  PROVE  LifecycleInv'
<1>1. Kept(r)
  BY Facts, KeptNoIdea
<1>2. /\ row'.status = row.status \/ row'.status \notin Promising
      /\ row'.report = row.report /\ row'.page = row.page
      /\ row'.live = row.live /\ row'.insight = row.insight
  BY Facts DEF NoIdea, SetStatus, Rows, Promising
<1>3. Sound(row') /\ Children(row, row')
  BY Facts, <1>1, <1>2, Unpromised, SameChildren DEF Sound, Promised, Kept, TypeInv, TypeOK
<1>4. req'[r] = req[r]
  BY DEF NoIdea
<1>5. task'[r] = Stopped("over")
  BY Facts, TaskEndsEffect DEF NoIdea, JobPlaces
<1> QED BY <1>1, <1>3, <1>4, <1>5, SoundAnswered

LEMMA SoundEnterPhase ==
  ASSUME LifecycleInv, NEW r \in Requests, EnterPhase(r)
  PROVE  LifecycleInv'
<1>1. Kept(r)
  BY Facts, KeptEnterPhase
<1>9. Phases[task[r].step] \in {"RESEARCH_PLANNING", "RESEARCH_SEARCHING", "RESEARCH_READING",
                      "RESEARCH_REFLECTING", "RESEARCH_VOICES", "RESEARCH_SYNTHESIZING"}
  <2>1. task[r].kind # "none" /\ task[r].step \in Nat /\ task[r].step <= 6
    BY Facts, PhaseValues DEF EnterPhase, Is, TaskSet
  <2>2. task[r].step \in 1..6
    BY Facts, <2>1 DEF TypeInv
  <2> QED BY <2>2, PhaseValues
<1>2. /\ row'.status = row.status \/ row'.status \notin Promising
      /\ row'.report = row.report /\ row'.page = row.page
      /\ row'.live = row.live /\ row'.insight = row.insight
  BY Facts, <1>9 DEF EnterPhase, SetStatus, Rows, Promising
<1>3. Sound(row') /\ Children(row, row')
  BY Facts, <1>1, <1>2, Unpromised, SameChildren DEF Sound, Promised, Kept, TypeInv, TypeOK
<1>4. RequestBacked(req'[r], row')
  <2>1. req'[r] = req[r]
    BY DEF EnterPhase
  <2> QED BY Facts, <1>1, <1>3, <2>1, RequestGrows DEF Kept, TypeInv, TypeOK
<1>5. TaskBacked(task'[r], row')
  <2>1. task'[r] = [task[r] EXCEPT !.step = @ + 1]
    BY Facts DEF EnterPhase
  <2> QED BY Facts, <2>1 DEF EnterPhase, Is, TaskBacked, TaskSet
<1> QED BY <1>1, <1>3, <1>4, <1>5, SoundParts

LEMMA SoundFinishResearch ==
  ASSUME LifecycleInv, NEW r \in Requests, FinishResearch(r)
  PROVE  LifecycleInv'
<1>1. Kept(r)
  BY Facts, KeptFinishResearch
<1>3. Sound(row') /\ Children(row, row')
  BY Facts DEF FinishResearch, Is, Sound, Promised, Grown, Children, Rows
<1>4. req'[r] = req[r]
  BY DEF FinishResearch
<1>5. task'[r] = Stopped("over")
  BY Facts, TaskEndsEffect DEF FinishResearch, JobPlaces
<1> QED BY <1>1, <1>3, <1>4, <1>5, SoundAnswered

LEMMA SoundFailResearch ==
  ASSUME LifecycleInv, NEW r \in Requests, FailResearch(r)
  PROVE  LifecycleInv'
<1>1. Kept(r)
  BY Facts, KeptFailResearch
<1>2. /\ row'.status = row.status \/ row'.status \notin Promising
      /\ row'.report = row.report /\ row'.page = row.page
      /\ row'.live = row.live /\ row'.insight = row.insight
  BY Facts DEF FailResearch, SetStatus, Rows, Promising
<1>3. Sound(row') /\ Children(row, row')
  BY Facts, <1>1, <1>2, Unpromised, SameChildren DEF Sound, Promised, Kept, TypeInv, TypeOK
<1>4. req'[r] = req[r]
  BY DEF FailResearch
<1>5. task'[r] = Stopped("over")
  BY Facts, TaskEndsEffect DEF FailResearch, JobPlaces
<1> QED BY <1>1, <1>3, <1>4, <1>5, SoundAnswered

LEMMA SoundGeneratePage ==
  ASSUME LifecycleInv, NEW r \in Requests, GeneratePage(r)
  PROVE  LifecycleInv'
<1>1. Kept(r)
  BY Facts, KeptGeneratePage
<1>3. Sound(row') /\ Children(row, row')
  BY Facts DEF GeneratePage, Is, Sound, Promised, Grown, Children, Rows
<1>4. RequestBacked(req'[r], row')
  <2>1. req'[r] = req[r]
    BY DEF GeneratePage
  <2> QED BY Facts, <1>1, <1>3, <2>1, RequestGrows DEF Kept, TypeInv, TypeOK
<1>5. TaskBacked(task'[r], row')
  <2>1. task'[r] = [task[r] EXCEPT !.at = "transit"] /\ "transit" \in JobPlaces
    BY Facts, TaskToEffect DEF GeneratePage, JobPlaces
  <2> QED BY Facts, <1>3, <2>1 DEF GeneratePage, Is, TaskBacked, TaskSet, Children, Rows
<1> QED BY <1>1, <1>3, <1>4, <1>5, SoundParts

LEMMA SoundFinishLanding ==
  ASSUME LifecycleInv, NEW r \in Requests, FinishLanding(r)
  PROVE  LifecycleInv'
<1>1. Kept(r)
  BY Facts, KeptFinishLanding
<1>3. Sound(row') /\ Children(row, row')
  BY Facts DEF FinishLanding, Is, SetStatus, TaskBacked, Sound, Promised, Grown, Children, Rows
<1>4. req'[r] = req[r]
  BY DEF FinishLanding
<1>5. task'[r] = Stopped("over")
  BY Facts, TaskEndsEffect DEF FinishLanding, JobPlaces
<1> QED BY <1>1, <1>3, <1>4, <1>5, SoundAnswered

LEMMA SoundFailAttempt ==
  ASSUME LifecycleInv, NEW r \in Requests, FailAttempt(r)
  PROVE  LifecycleInv'
<1>1. Kept(r)
  BY Facts, KeptFailAttempt
<1>2. row' = row
  BY DEF FailAttempt
<1>3. Sound(row') /\ Children(row, row')
  BY Facts, <1>2, SameRow
<1>4. RequestBacked(req'[r], row')
  <2>1. req'[r] = req[r]
    BY DEF FailAttempt
  <2> QED BY Facts, <1>1, <1>3, <2>1, RequestGrows DEF Kept, TypeInv, TypeOK
<1>5. TaskBacked(task'[r], row')
  <2>1. task'[r] = IF task[r].step < MaxAttempts /\ row.report
                     THEN [task[r] EXCEPT !.at = "generate", !.step = task[r].step + 1]
                     ELSE [task[r] EXCEPT !.at = "fail"]
    BY Facts DEF FailAttempt
  <2> QED BY Facts, <1>2, <2>1 DEF FailAttempt, TaskBacked, TaskSet
<1> QED BY <1>1, <1>3, <1>4, <1>5, SoundParts

LEMMA SoundFailLanding ==
  ASSUME LifecycleInv, NEW r \in Requests, FailLanding(r)
  PROVE  LifecycleInv'
<1>1. Kept(r)
  BY Facts, KeptFailLanding
<1>3. Sound(row') /\ Children(row, row')
  BY Facts DEF FailLanding, Is, SetStatus, TaskBacked, Sound, Promised, Grown, Children, Rows
<1>4. req'[r] = req[r]
  BY DEF FailLanding
<1>5. task'[r] = Stopped("over")
  BY Facts, TaskEndsEffect DEF FailLanding, JobPlaces
<1> QED BY <1>1, <1>3, <1>4, <1>5, SoundAnswered

LEMMA SoundGenerateInsight ==
  ASSUME LifecycleInv, NEW r \in Requests, GenerateInsight(r)
  PROVE  LifecycleInv'
<1>1. Kept(r)
  BY Facts, KeptGenerateInsight
<1>3. Sound(row') /\ Children(row, row')
  BY Facts DEF GenerateInsight, Is, Sound, Promised, Grown, Children, Rows
<1>4. RequestBacked(req'[r], row')
  <2>1. req'[r] = req[r]
    BY DEF GenerateInsight
  <2> QED BY Facts, <1>1, <1>3, <2>1, RequestGrows DEF Kept, TypeInv, TypeOK
<1>5. TaskBacked(task'[r], row')
  <2>1. task'[r] = [task[r] EXCEPT !.at = "transit"] /\ "transit" \in JobPlaces
    BY Facts, TaskToEffect DEF GenerateInsight, JobPlaces
  <2> QED BY Facts, <1>3, <2>1 DEF GenerateInsight, Is, TaskBacked, TaskSet, Children, Rows
<1> QED BY <1>1, <1>3, <1>4, <1>5, SoundParts

LEMMA SoundFinishInsight ==
  ASSUME LifecycleInv, NEW r \in Requests, FinishInsight(r)
  PROVE  LifecycleInv'
<1>1. Kept(r)
  BY Facts, KeptFinishInsight
<1>3. Sound(row') /\ Children(row, row')
  BY Facts DEF FinishInsight, Is, SetStatus, TaskBacked, Sound, Promised, Grown, Children, Rows
<1>4. req'[r] = req[r]
  BY DEF FinishInsight
<1>5. task'[r] = Stopped("over")
  BY Facts, TaskEndsEffect DEF FinishInsight, JobPlaces
<1> QED BY <1>1, <1>3, <1>4, <1>5, SoundAnswered

LEMMA SoundFailInsight ==
  ASSUME LifecycleInv, NEW r \in Requests, FailInsight(r)
  PROVE  LifecycleInv'
<1>1. Kept(r)
  BY Facts, KeptFailInsight
<1>3. Sound(row') /\ Children(row, row')
  BY Facts DEF FailInsight, SetStatus, TaskBacked, Sound, Promised, Grown, Children, Rows
<1>4. req'[r] = req[r]
  BY DEF FailInsight
<1>5. task'[r] = Stopped("over")
  BY Facts, TaskEndsEffect DEF FailInsight, JobPlaces
<1> QED BY <1>1, <1>3, <1>4, <1>5, SoundAnswered

LEMMA SoundGiveUp ==
  ASSUME LifecycleInv, NEW r \in Requests, GiveUp(r)
  PROVE  LifecycleInv'
<1>1. Kept(r)
  BY Facts, KeptGiveUp
<1>2. row' = row
  BY DEF GiveUp
<1>3. Sound(row') /\ Children(row, row')
  BY Facts, <1>2, SameRow
<1>4. req'[r] = req[r]
  BY DEF GiveUp
<1>5. task'[r] = Stopped("lost")
  BY Facts, TaskEndsEffect DEF GiveUp, JobPlaces
<1> QED BY <1>1, <1>3, <1>4, <1>5, SoundAnswered

LEMMA SoundInit == Init => LifecycleInv
<1> SUFFICES ASSUME Init PROVE LifecycleInv
  OBVIOUS
<1>1. TypeInv
  BY TypeInit
<1>2. Sound(row)
  BY StartAssumption DEF Init
<1>3. ASSUME NEW r \in Requests
      PROVE  RequestBacked(req[r], row) /\ TaskBacked(task[r], row)
  BY DEF Init, RequestBacked, TaskBacked, NoTask, Unread, Sound, Promised, Grown, Children
<1> QED BY <1>1, <1>2, <1>3 DEF LifecycleInv

LEMMA SoundCrash ==
  ASSUME LifecycleInv, Crash
  PROVE  LifecycleInv'
<1>1. TypeInv'
  BY TypeCrash DEF LifecycleInv
<1>2. row' = row
  BY DEF Crash
<1>3. ASSUME NEW r \in Requests
      PROVE  RequestBacked(req'[r], row) /\ TaskBacked(task'[r], row)
  <2>1. req'[r] \in {req[r], Ended("lost")} /\ task'[r] \in {task[r], Stopped("lost")}
    BY DEF Crash
  <2>2. RequestBacked(req[r], row) /\ TaskBacked(task[r], row)
    BY DEF LifecycleInv
  <2>3. RequestBacked(Ended("lost"), row) /\ TaskBacked(Stopped("lost"), row)
    BY EndedBacked, StoppedBacked DEF JobPlaces
  <2> QED BY <2>1, <2>2, <2>3
<1> QED BY <1>1, <1>2, <1>3 DEF LifecycleInv

LEMMA SoundStep ==
  ASSUME LifecycleInv, NEW r \in Requests, Step(r)
  PROVE  LifecycleInv'
<1>1. CASE \E op \in Ops : Read(r, op) \/ ChargeResearch(r, op)
  BY <1>1, SoundRead, SoundChargeResearch
<1>2. CASE ChargeInsight(r) \/ Drop(r) \/ GiveUp(r)
  BY <1>2, SoundChargeInsight, SoundDrop, SoundGiveUp
<1>3. CASE Commit(r)
  BY <1>3, SoundTurn, SoundRegenerate, SoundFinalize, SoundReset, SoundPublish,
     SoundArchive, SoundUnarchive, SoundStartLanding DEF Commit
<1>4. CASE Dispatch(r)
  BY <1>4, SoundLaunch, SoundRefuseLaunch, SoundDispatchResearch, SoundRefuseResearch,
     SoundDispatchInsight, SoundRefuseInsight, SoundDispatchLanding, SoundRefuseLanding
     DEF Dispatch
<1>5. CASE Work(r)
  BY <1>5, SoundLoadIdea, SoundNoIdea, SoundEnterPhase, SoundFinishResearch,
     SoundFailResearch, SoundGeneratePage, SoundFinishLanding, SoundFailAttempt,
     SoundFailLanding, SoundGenerateInsight, SoundFinishInsight, SoundFailInsight DEF Work
<1> QED BY <1>1, <1>2, <1>3, <1>4, <1>5 DEF Step

LEMMA SoundNext == LifecycleInv /\ [Next]_vars => LifecycleInv'
<1> SUFFICES ASSUME LifecycleInv, [Next]_vars PROVE LifecycleInv'
  OBVIOUS
<1>1. CASE UNCHANGED vars
  BY <1>1 DEF LifecycleInv, TypeInv, TypeOK, vars
<1>2. CASE Crash
  BY <1>2, SoundCrash
<1>3. CASE \E r \in Requests : Step(r)
  BY <1>3, SoundStep
<1> QED BY <1>1, <1>2, <1>3, NextSteps

LEMMA Lifecycle == Spec => []LifecycleInv
BY SoundInit, SoundNext, PTL DEF Spec

(* The status of a project never tells the founder of a report, a page, a   *)
(* publication or an insight report that is not there, in whatever order    *)
(* endpoints, jobs, failures and crashes write it.                         *)
THEOREM ArtifactsExist == Spec => []ArtifactsBehindStatus
<1>1. LifecycleInv => ArtifactsBehindStatus
  BY DEF LifecycleInv, Sound, ArtifactsBehindStatus
<1> QED BY <1>1, Lifecycle, PTL

(***************************************************************************)
(* What was paid for is delivered or paid back                             *)
(***************************************************************************)
OrderStep(a, b) ==
  \/ b = a
  \/ a = "new" /\ b = "paid"
  \/ a = "paid" /\ b = "running"
  \/ a = "running" /\ b = "done"
  \/ a \in {"paid", "running"} /\ b \in {"refunded", "lost"}

(* The purchase of request r before and after a step.                      *)
PurchaseStep(r) ==
  /\ PurchaseKept(charge'[r], req'[r], task'[r])
  /\ OrderStep(Purchase(charge[r], req[r], task[r]), Purchase(charge'[r], req'[r], task'[r]))

LEMMA StoppedRunsNot ==
  ASSUME NEW p \in JobPlaces
  PROVE  Stopped(p).kind = "none" /\ Stopped(p).at = p
BY StoppedTask

LEMMA PurchaseFacts ==
  ASSUME TypeInv, PurchaseInv, NEW r \in Requests
  PROVE  /\ TypeOK /\ PurchaseKept(charge[r], req[r], task[r])
         /\ req \in [Requests -> RequestSet] /\ req[r] \in RequestSet
         /\ task \in [Requests -> TaskSet] /\ task[r] \in TaskSet
         /\ charge \in [Requests -> Charges] /\ charge[r] \in Charges
BY TypeSets DEF PurchaseInv, TypeInv

(* Nothing is bought and nothing is worked on.                             *)
LEMMA PurchaseSame ==
  ASSUME TypeInv, PurchaseInv, NEW r \in Requests,
         charge'[r] = charge[r], req'[r] = req[r], task'[r] = task[r]
  PROVE  PurchaseStep(r)
BY DEF PurchaseInv, PurchaseStep, OrderStep

(* A request without debit is answered, or goes on to its dispatch.         *)
LEMMA PurchaseFree ==
  ASSUME TypeInv, PurchaseInv, NEW r \in Requests,
         req[r].at = "read", req[r].op \notin Billed \cup {"insight"},
         charge'[r] = charge[r], task'[r] = task[r],
         \/ req'[r] = Ended("done")
         \/ req'[r].at = "dispatch" /\ req'[r].op = req[r].op
  PROVE  PurchaseStep(r)
<1>1. PurchaseKept(charge[r], req[r], task[r])
  BY PurchaseFacts
<1> QED BY <1>1 DEF PurchaseStep, PurchaseKept, Purchase, OrderStep, Running, Costs, Ended

(* A job starts.                                                           *)
LEMMA PurchaseBegins ==
  ASSUME TypeInv, PurchaseInv, NEW r \in Requests,
         req[r].at = "dispatch", req'[r] = Ended("done"), charge'[r] = charge[r],
         Running(task'[r]), Costs(req[r]) <=> task'[r].kind # "landing"
  PROVE  PurchaseStep(r)
<1>1. PurchaseKept(charge[r], req[r], task[r])
  BY PurchaseFacts
<1> QED BY <1>1 DEF PurchaseStep, PurchaseKept, Purchase, OrderStep, Running, Ended

(* A job goes on, or ends.                                                 *)
LEMMA PurchaseWorks ==
  ASSUME TypeInv, PurchaseInv, NEW r \in Requests,
         req'[r] = req[r], charge'[r] = charge[r], Running(task[r]),
         \/ Running(task'[r]) /\ task'[r].kind = task[r].kind
         \/ task'[r].at \in {"over", "lost"}
  PROVE  PurchaseStep(r)
<1>1. PurchaseKept(charge[r], req[r], task[r])
  BY PurchaseFacts
<1> QED BY <1>1 DEF PurchaseStep, PurchaseKept, Purchase, OrderStep, Running

(* The credits are given back.                                             *)
LEMMA PurchaseRefunds ==
  ASSUME TypeInv, PurchaseInv, NEW r \in Requests, charge[r] = "debited",
         charge'[r] = (IF charge[r] = "debited" THEN "refunded" ELSE "overpaid"),
         \/ /\ req[r].at \in {"charged", "dispatch"} /\ req'[r] = Ended("done")
            /\ task'[r] = task[r]
         \/ Running(task[r]) /\ req'[r] = req[r] /\ task'[r].at = "over"
  PROVE  PurchaseStep(r)
<1>1. PurchaseKept(charge[r], req[r], task[r])
  BY PurchaseFacts
<1> QED BY <1>1 DEF PurchaseStep, PurchaseKept, Purchase, OrderStep, Running, Ended

LEMMA BoughtRead ==
  ASSUME TypeInv, PurchaseInv, NEW r \in Requests, NEW op \in Ops, Read(r, op)
  PROVE  PurchaseStep(r)
<1>1. req'[r] = [op |-> op, at |-> "read", seen |-> row] /\ req[r].at = "new"
  BY PurchaseFacts, EnterEffect, LifecycleAssumption DEF Read, Enter, Places
<1>2. charge'[r] = charge[r] /\ task'[r] = task[r]
  BY DEF Read
<1> QED BY PurchaseFacts, <1>1, <1>2 DEF PurchaseStep, PurchaseKept, Purchase, OrderStep, Running

LEMMA BoughtChargeResearch ==
  ASSUME TypeInv, PurchaseInv, NEW r \in Requests, NEW op \in Ops, ChargeResearch(r, op)
  PROVE  PurchaseStep(r)
<1>1. req'[r] = [op |-> op, at |-> "charged", seen |-> row] /\ req[r].at = "new"
  BY PurchaseFacts, EnterEffect, LifecycleAssumption DEF ChargeResearch, Enter, Places
<1>2. charge'[r] = "debited" /\ task'[r] = task[r]
  BY PurchaseFacts DEF ChargeResearch
<1> QED BY PurchaseFacts, <1>1, <1>2 DEF PurchaseStep, PurchaseKept, Purchase, OrderStep, Running

LEMMA BoughtChargeInsight ==
  ASSUME TypeInv, PurchaseInv, NEW r \in Requests, ChargeInsight(r)
  PROVE  PurchaseStep(r)
<1>1. "insight" \in AllOps /\ "dispatch" \in Places
  BY DEF AllOps, Places
<1>2. req'[r] = [op |-> "insight", at |-> "dispatch", seen |-> row] /\ req[r].at = "new"
  BY PurchaseFacts, <1>1, EnterEffect DEF ChargeInsight, Enter
<1>3. charge'[r] = "debited" /\ task'[r] = task[r]
  BY PurchaseFacts DEF ChargeInsight
<1> QED BY PurchaseFacts, <1>2, <1>3 DEF PurchaseStep, PurchaseKept, Purchase, OrderStep, Running, Costs

LEMMA BoughtTurn ==
  ASSUME TypeInv, PurchaseInv, NEW r \in Requests, TurnCommit(r)
  PROVE  PurchaseStep(r)
<1>1. req'[r] = Ended("done")
  BY PurchaseFacts, AnswerEffect DEF TurnCommit
<1>2. req[r].at = "read" /\ req[r].op \notin Billed \cup {"insight"}
      /\ charge'[r] = charge[r] /\ task'[r] = task[r]
  BY DEF TurnCommit, At, Billed
<1> QED BY <1>1, <1>2, PurchaseFree

LEMMA BoughtRegenerate ==
  ASSUME TypeInv, PurchaseInv, NEW r \in Requests, RegenerateCommit(r)
  PROVE  PurchaseStep(r)
<1>1. req'[r] = Ended("done")
  BY PurchaseFacts, AnswerEffect DEF RegenerateCommit
<1>2. req[r].at = "read" /\ req[r].op \notin Billed \cup {"insight"}
      /\ charge'[r] = charge[r] /\ task'[r] = task[r]
  BY DEF RegenerateCommit, At, Billed
<1> QED BY <1>1, <1>2, PurchaseFree

LEMMA BoughtFinalize ==
  ASSUME TypeInv, PurchaseInv, NEW r \in Requests, FinalizeCommit(r)
  PROVE  PurchaseStep(r)
<1>1. req'[r] = Ended("done")
  BY PurchaseFacts, AnswerEffect DEF FinalizeCommit
<1>2. req[r].at = "read" /\ req[r].op \notin Billed \cup {"insight"}
      /\ charge'[r] = charge[r] /\ task'[r] = task[r]
  BY DEF FinalizeCommit, At, Billed
<1> QED BY <1>1, <1>2, PurchaseFree

LEMMA BoughtReset ==
  ASSUME TypeInv, PurchaseInv, NEW r \in Requests, ResetCommit(r)
  PROVE  PurchaseStep(r)
<1>1. req'[r] = Ended("done")
  BY PurchaseFacts, AnswerEffect DEF ResetCommit
<1>2. req[r].at = "read" /\ req[r].op \notin Billed \cup {"insight"}
      /\ charge'[r] = charge[r] /\ task'[r] = task[r]
  BY DEF ResetCommit, At, Billed
<1> QED BY <1>1, <1>2, PurchaseFree

LEMMA BoughtPublish ==
  ASSUME TypeInv, PurchaseInv, NEW r \in Requests, PublishCommit(r)
  PROVE  PurchaseStep(r)
<1>1. req'[r] = Ended("done")
  BY PurchaseFacts, AnswerEffect DEF PublishCommit
<1>2. req[r].at = "read" /\ req[r].op \notin Billed \cup {"insight"}
      /\ charge'[r] = charge[r] /\ task'[r] = task[r]
  BY DEF PublishCommit, At, Billed
<1> QED BY <1>1, <1>2, PurchaseFree

LEMMA BoughtArchive ==
  ASSUME TypeInv, PurchaseInv, NEW r \in Requests, ArchiveCommit(r)
  PROVE  PurchaseStep(r)
<1>1. req'[r] = Ended("done")
  BY PurchaseFacts, AnswerEffect DEF ArchiveCommit
<1>2. req[r].at = "read" /\ req[r].op \notin Billed \cup {"insight"}
      /\ charge'[r] = charge[r] /\ task'[r] = task[r]
  BY DEF ArchiveCommit, At, Billed
<1> QED BY <1>1, <1>2, PurchaseFree

LEMMA BoughtUnarchive ==
  ASSUME TypeInv, PurchaseInv, NEW r \in Requests, UnarchiveCommit(r)
  PROVE  PurchaseStep(r)
<1>1. req'[r] = Ended("done")
  BY PurchaseFacts, AnswerEffect DEF UnarchiveCommit
<1>2. req[r].at = "read" /\ req[r].op \notin Billed \cup {"insight"}
      /\ charge'[r] = charge[r] /\ task'[r] = task[r]
  BY DEF UnarchiveCommit, At, Billed
<1> QED BY <1>1, <1>2, PurchaseFree

LEMMA BoughtStartLanding ==
  ASSUME TypeInv, PurchaseInv, NEW r \in Requests, StartLanding(r)
  PROVE  PurchaseStep(r)
<1>1. req'[r].at = "dispatch" /\ req'[r].op = req[r].op
  <2>1. req'[r] = [req[r] EXCEPT !.at = "dispatch"]
    BY PurchaseFacts, GotoEffect DEF StartLanding, Places
  <2> QED BY PurchaseFacts, <2>1 DEF RequestSet
<1>2. req[r].at = "read" /\ req[r].op \notin Billed \cup {"insight"}
      /\ charge'[r] = charge[r] /\ task'[r] = task[r]
  BY DEF StartLanding, At, Billed
<1> QED BY <1>1, <1>2, PurchaseFree

LEMMA BoughtDrop ==
  ASSUME TypeInv, PurchaseInv, NEW r \in Requests, Drop(r)
  PROVE  PurchaseStep(r)
<1>1. req'[r] = Ended("done")
  BY PurchaseFacts, AnswerEffect DEF Drop
<1>2. req[r].at = "read" /\ charge'[r] = charge[r] /\ task'[r] = task[r]
  BY DEF Drop
<1> QED BY PurchaseFacts, <1>1, <1>2 DEF PurchaseStep, PurchaseKept, Purchase, OrderStep, Running, Ended

LEMMA BoughtLaunch ==
  ASSUME TypeInv, PurchaseInv, NEW r \in Requests, Launch(r)
  PROVE  PurchaseStep(r)
<1>1. req'[r].at = "dispatch" /\ req'[r].op = req[r].op
  <2>1. req'[r] = [req[r] EXCEPT !.at = "dispatch"]
    BY PurchaseFacts, GotoEffect DEF Launch, Places
  <2> QED BY PurchaseFacts, <2>1 DEF RequestSet
<1>2. req[r].at = "charged" /\ req[r].op \in Billed /\ charge'[r] = charge[r] /\ task'[r] = task[r]
  BY DEF Launch
<1> QED BY PurchaseFacts, <1>1, <1>2 DEF PurchaseStep, PurchaseKept, Purchase, OrderStep, Running, Costs

LEMMA BoughtDispatchResearch ==
  ASSUME TypeInv, PurchaseInv, NEW r \in Requests, DispatchResearch(r)
  PROVE  PurchaseStep(r)
<1>1. req'[r] = Ended("done")
  BY PurchaseFacts, AnswerEffect DEF DispatchResearch
<1>2. task'[r].kind = "research" /\ Running(task'[r])
  BY PurchaseFacts DEF DispatchResearch, Spawn, Running
<1>3. req[r].at = "dispatch" /\ charge'[r] = charge[r]
      /\ (Costs(req[r]) <=> "research" # "landing")
  BY DEF DispatchResearch, At, Costs, Billed
<1> QED BY <1>1, <1>2, <1>3, PurchaseBegins

LEMMA BoughtDispatchInsight ==
  ASSUME TypeInv, PurchaseInv, NEW r \in Requests, DispatchInsight(r)
  PROVE  PurchaseStep(r)
<1>1. req'[r] = Ended("done")
  BY PurchaseFacts, AnswerEffect DEF DispatchInsight
<1>2. task'[r].kind = "insight" /\ Running(task'[r])
  BY PurchaseFacts DEF DispatchInsight, Spawn, Running
<1>3. req[r].at = "dispatch" /\ charge'[r] = charge[r]
      /\ (Costs(req[r]) <=> "insight" # "landing")
  BY DEF DispatchInsight, At, Costs, Billed
<1> QED BY <1>1, <1>2, <1>3, PurchaseBegins

LEMMA BoughtDispatchLanding ==
  ASSUME TypeInv, PurchaseInv, NEW r \in Requests, DispatchLanding(r)
  PROVE  PurchaseStep(r)
<1>1. req'[r] = Ended("done")
  BY PurchaseFacts, AnswerEffect DEF DispatchLanding
<1>2. task'[r].kind = "landing" /\ Running(task'[r])
  BY PurchaseFacts DEF DispatchLanding, Spawn, Running
<1>3. req[r].at = "dispatch" /\ charge'[r] = charge[r]
      /\ (Costs(req[r]) <=> "landing" # "landing")
  BY DEF DispatchLanding, At, Costs, Billed
<1> QED BY <1>1, <1>2, <1>3, PurchaseBegins

LEMMA BoughtRefuseLaunch ==
  ASSUME TypeInv, PurchaseInv, NEW r \in Requests, RefuseLaunch(r)
  PROVE  PurchaseStep(r)
<1>1. req'[r] = Ended("done")
  BY PurchaseFacts, AnswerEffect DEF RefuseLaunch
<1>2. charge'[r] = (IF charge[r] = "debited" THEN "refunded" ELSE "overpaid")
  BY PurchaseFacts, RefundEffect DEF RefuseLaunch
<1>3. req[r].at \in {"charged", "dispatch"} /\ charge[r] = "debited" /\ task'[r] = task[r]
  BY PurchaseFacts DEF RefuseLaunch, At, Costs, Billed, PurchaseKept
<1> QED BY <1>1, <1>2, <1>3, PurchaseRefunds

LEMMA BoughtRefuseResearch ==
  ASSUME TypeInv, PurchaseInv, NEW r \in Requests, RefuseResearch(r)
  PROVE  PurchaseStep(r)
<1>1. req'[r] = Ended("done")
  BY PurchaseFacts, AnswerEffect DEF RefuseResearch
<1>2. charge'[r] = (IF charge[r] = "debited" THEN "refunded" ELSE "overpaid")
  BY PurchaseFacts, RefundEffect DEF RefuseResearch
<1>3. req[r].at \in {"charged", "dispatch"} /\ charge[r] = "debited" /\ task'[r] = task[r]
  BY PurchaseFacts DEF RefuseResearch, At, Costs, Billed, PurchaseKept
<1> QED BY <1>1, <1>2, <1>3, PurchaseRefunds

LEMMA BoughtRefuseInsight ==
  ASSUME TypeInv, PurchaseInv, NEW r \in Requests, RefuseInsight(r)
  PROVE  PurchaseStep(r)
<1>1. req'[r] = Ended("done")
  BY PurchaseFacts, AnswerEffect DEF RefuseInsight
<1>2. charge'[r] = (IF charge[r] = "debited" THEN "refunded" ELSE "overpaid")
  BY PurchaseFacts, RefundEffect DEF RefuseInsight
<1>3. req[r].at \in {"charged", "dispatch"} /\ charge[r] = "debited" /\ task'[r] = task[r]
  BY PurchaseFacts DEF RefuseInsight, At, Costs, Billed, PurchaseKept
<1> QED BY <1>1, <1>2, <1>3, PurchaseRefunds

LEMMA BoughtRefuseLanding ==
  ASSUME TypeInv, PurchaseInv, NEW r \in Requests, RefuseLanding(r)
  PROVE  PurchaseStep(r)
<1>1. req'[r] = Ended("done")
  BY PurchaseFacts, AnswerEffect DEF RefuseLanding
<1>2. req[r].at = "dispatch" /\ req[r].op = "landing" /\ charge'[r] = charge[r] /\ task'[r] = task[r]
  BY DEF RefuseLanding, At
<1> QED BY PurchaseFacts, <1>1, <1>2 DEF PurchaseStep, PurchaseKept, Purchase, OrderStep, Running, Ended, Costs, Billed

LEMMA BoughtLoadIdea ==
  ASSUME TypeInv, PurchaseInv, NEW r \in Requests, LoadIdea(r)
  PROVE  PurchaseStep(r)
<1>1. task'[r].at = "phase" /\ task'[r].kind = task[r].kind
  <2>1. task'[r] = [task[r] EXCEPT !.at = "phase"]
    BY PurchaseFacts, TaskToEffect DEF LoadIdea, JobPlaces
  <2> QED BY PurchaseFacts, <2>1 DEF TaskSet
<1>2. req'[r] = req[r] /\ charge'[r] = charge[r] /\ Running(task[r])
  BY DEF LoadIdea, Is, Running
<1> QED BY <1>1, <1>2, PurchaseWorks DEF Running

LEMMA BoughtGeneratePage ==
  ASSUME TypeInv, PurchaseInv, NEW r \in Requests, GeneratePage(r)
  PROVE  PurchaseStep(r)
<1>1. task'[r].at = "transit" /\ task'[r].kind = task[r].kind
  <2>1. task'[r] = [task[r] EXCEPT !.at = "transit"]
    BY PurchaseFacts, TaskToEffect DEF GeneratePage, JobPlaces
  <2> QED BY PurchaseFacts, <2>1 DEF TaskSet
<1>2. req'[r] = req[r] /\ charge'[r] = charge[r] /\ Running(task[r])
  BY DEF GeneratePage, Is, Running
<1> QED BY <1>1, <1>2, PurchaseWorks DEF Running

LEMMA BoughtGenerateInsight ==
  ASSUME TypeInv, PurchaseInv, NEW r \in Requests, GenerateInsight(r)
  PROVE  PurchaseStep(r)
<1>1. task'[r].at = "transit" /\ task'[r].kind = task[r].kind
  <2>1. task'[r] = [task[r] EXCEPT !.at = "transit"]
    BY PurchaseFacts, TaskToEffect DEF GenerateInsight, JobPlaces
  <2> QED BY PurchaseFacts, <2>1 DEF TaskSet
<1>2. req'[r] = req[r] /\ charge'[r] = charge[r] /\ Running(task[r])
  BY DEF GenerateInsight, Is, Running
<1> QED BY <1>1, <1>2, PurchaseWorks DEF Running

LEMMA BoughtNoIdea ==
  ASSUME TypeInv, PurchaseInv, NEW r \in Requests, NoIdea(r)
  PROVE  PurchaseStep(r)
<1>1. task'[r].at = "over"
  BY PurchaseFacts, TaskEndsEffect, StoppedRunsNot DEF NoIdea, JobPlaces
<1>2. req'[r] = req[r] /\ charge'[r] = charge[r] /\ Running(task[r])
  BY DEF NoIdea, Is, Running
<1> QED BY <1>1, <1>2, PurchaseWorks

LEMMA BoughtFinishResearch ==
  ASSUME TypeInv, PurchaseInv, NEW r \in Requests, FinishResearch(r)
  PROVE  PurchaseStep(r)
<1>1. task'[r].at = "over"
  BY PurchaseFacts, TaskEndsEffect, StoppedRunsNot DEF FinishResearch, JobPlaces
<1>2. req'[r] = req[r] /\ charge'[r] = charge[r] /\ Running(task[r])
  BY DEF FinishResearch, Is, Running
<1> QED BY <1>1, <1>2, PurchaseWorks

LEMMA BoughtFailResearch ==
  ASSUME TypeInv, PurchaseInv, NEW r \in Requests, FailResearch(r)
  PROVE  PurchaseStep(r)
<1>1. task'[r].at = "over"
  BY PurchaseFacts, TaskEndsEffect, StoppedRunsNot DEF FailResearch, JobPlaces
<1>2. req'[r] = req[r] /\ charge'[r] = charge[r] /\ Running(task[r])
  BY DEF FailResearch, Is, Running
<1> QED BY <1>1, <1>2, PurchaseWorks

LEMMA BoughtFinishLanding ==
  ASSUME TypeInv, PurchaseInv, NEW r \in Requests, FinishLanding(r)
  PROVE  PurchaseStep(r)
<1>1. task'[r].at = "over"
  BY PurchaseFacts, TaskEndsEffect, StoppedRunsNot DEF FinishLanding, JobPlaces
<1>2. req'[r] = req[r] /\ charge'[r] = charge[r] /\ Running(task[r])
  BY DEF FinishLanding, Is, Running
<1> QED BY <1>1, <1>2, PurchaseWorks

LEMMA BoughtFailLanding ==
  ASSUME TypeInv, PurchaseInv, NEW r \in Requests, FailLanding(r)
  PROVE  PurchaseStep(r)
<1>1. task'[r].at = "over"
  BY PurchaseFacts, TaskEndsEffect, StoppedRunsNot DEF FailLanding, JobPlaces
<1>2. req'[r] = req[r] /\ charge'[r] = charge[r] /\ Running(task[r])
  BY DEF FailLanding, Is, Running
<1> QED BY <1>1, <1>2, PurchaseWorks

LEMMA BoughtFinishInsight ==
  ASSUME TypeInv, PurchaseInv, NEW r \in Requests, FinishInsight(r)
  PROVE  PurchaseStep(r)
<1>1. task'[r].at = "over"
  BY PurchaseFacts, TaskEndsEffect, StoppedRunsNot DEF FinishInsight, JobPlaces
<1>2. req'[r] = req[r] /\ charge'[r] = charge[r] /\ Running(task[r])
  BY DEF FinishInsight, Is, Running
<1> QED BY <1>1, <1>2, PurchaseWorks

LEMMA BoughtGiveUp ==
  ASSUME TypeInv, PurchaseInv, NEW r \in Requests, GiveUp(r)
  PROVE  PurchaseStep(r)
<1>1. task'[r].at = "lost"
  BY PurchaseFacts, TaskEndsEffect, StoppedRunsNot DEF GiveUp, JobPlaces
<1>2. req'[r] = req[r] /\ charge'[r] = charge[r] /\ Running(task[r])
  BY DEF GiveUp, Is, Running
<1> QED BY <1>1, <1>2, PurchaseWorks

LEMMA BoughtEnterPhase ==
  ASSUME TypeInv, PurchaseInv, NEW r \in Requests, EnterPhase(r)
  PROVE  PurchaseStep(r)
<1>1. task'[r].at = task[r].at /\ task'[r].kind = task[r].kind
  BY PurchaseFacts DEF EnterPhase, TaskSet
<1>2. req'[r] = req[r] /\ charge'[r] = charge[r] /\ Running(task[r])
  BY DEF EnterPhase, Is, Running
<1> QED BY <1>1, <1>2, PurchaseWorks DEF Running

LEMMA BoughtFailAttempt ==
  ASSUME TypeInv, PurchaseInv, NEW r \in Requests, FailAttempt(r)
  PROVE  PurchaseStep(r)
<1>1. task'[r].at \in {"generate", "fail"} /\ task'[r].kind = task[r].kind
  <2>1. task'[r] = IF task[r].step < MaxAttempts /\ row.report
                     THEN [task[r] EXCEPT !.at = "generate", !.step = task[r].step + 1]
                     ELSE [task[r] EXCEPT !.at = "fail"]
    BY PurchaseFacts DEF FailAttempt
  <2> QED BY PurchaseFacts, <2>1 DEF TaskSet
<1>2. req'[r] = req[r] /\ charge'[r] = charge[r] /\ Running(task[r])
  BY DEF FailAttempt, Running
<1> QED BY <1>1, <1>2, PurchaseWorks DEF Running

LEMMA BoughtFailInsight ==
  ASSUME TypeInv, PurchaseInv, NEW r \in Requests, FailInsight(r)
  PROVE  PurchaseStep(r)
<1>1. task'[r].at = "over"
  BY PurchaseFacts, TaskEndsEffect, StoppedRunsNot DEF FailInsight, JobPlaces
<1>2. charge'[r] = (IF charge[r] = "debited" THEN "refunded" ELSE "overpaid")
  BY PurchaseFacts, RefundEffect DEF FailInsight
<1>3. Running(task[r]) /\ req'[r] = req[r] /\ charge[r] = "debited"
  BY PurchaseFacts DEF FailInsight, PurchaseKept
<1> QED BY <1>1, <1>2, <1>3, PurchaseRefunds

LEMMA BoughtStep ==
  ASSUME TypeInv, PurchaseInv, NEW r \in Requests, Step(r)
  PROVE  PurchaseStep(r)
<1>1. CASE \E op \in Ops : Read(r, op) \/ ChargeResearch(r, op)
  BY <1>1, BoughtRead, BoughtChargeResearch
<1>2. CASE ChargeInsight(r) \/ Drop(r) \/ GiveUp(r)
  BY <1>2, BoughtChargeInsight, BoughtDrop, BoughtGiveUp
<1>3. CASE Commit(r)
  BY <1>3, BoughtTurn, BoughtRegenerate, BoughtFinalize, BoughtReset, BoughtPublish,
     BoughtArchive, BoughtUnarchive, BoughtStartLanding DEF Commit
<1>4. CASE Dispatch(r)
  BY <1>4, BoughtLaunch, BoughtRefuseLaunch, BoughtDispatchResearch, BoughtRefuseResearch,
     BoughtDispatchInsight, BoughtRefuseInsight, BoughtDispatchLanding, BoughtRefuseLanding
     DEF Dispatch
<1>5. CASE Work(r)
  BY <1>5, BoughtLoadIdea, BoughtNoIdea, BoughtEnterPhase, BoughtFinishResearch,
     BoughtFailResearch, BoughtGeneratePage, BoughtFinishLanding, BoughtFailAttempt,
     BoughtFailLanding, BoughtGenerateInsight, BoughtFinishInsight, BoughtFailInsight DEF Work
<1> QED BY <1>1, <1>2, <1>3, <1>4, <1>5 DEF Step

(* A crash loses what was paid and not delivered, and nothing else.        *)
LEMMA BoughtCrash ==
  ASSUME TypeInv, PurchaseInv, Crash, NEW r \in Requests
  PROVE  /\ PurchaseKept(charge'[r], req'[r], task'[r])
         /\ LET a == Purchase(charge[r], req[r], task[r])
                b == Purchase(charge'[r], req'[r], task'[r])
            IN  b = a \/ (a \in {"paid", "running"} /\ b = "lost")
<1>1. PurchaseKept(charge[r], req[r], task[r]) /\ charge[r] \in Charges
  BY PurchaseFacts
<1>2. charge'[r] = charge[r]
      /\ req'[r] = (IF Pending(r) THEN Ended("lost") ELSE req[r])
      /\ task'[r] = (IF Running(task[r]) THEN Stopped("lost") ELSE task[r])
  BY DEF Crash
<1>3. Ended("lost").at = "lost" /\ Stopped("lost").at = "lost"
  BY StoppedRunsNot DEF Ended, JobPlaces
<1>4. req[r].at \in Places
  BY PurchaseFacts DEF RequestSet
<1>5. CASE Running(task[r])
  BY <1>1, <1>2, <1>3, <1>4, <1>5 DEF PurchaseKept, Purchase, Running, Pending, Places
<1>6. CASE ~Running(task[r]) /\ Pending(r)
  BY <1>1, <1>2, <1>3, <1>4, <1>6 DEF PurchaseKept, Purchase, Running, Pending, Charges
<1>7. CASE ~Running(task[r]) /\ ~Pending(r)
  BY <1>1, <1>2, <1>7
<1> QED BY <1>5, <1>6, <1>7

LEMMA BoughtInit == Init => PurchaseInv
BY DEF Init, PurchaseInv, PurchaseKept, Running, NoTask

LEMMA BoughtNext == TypeInv /\ PurchaseInv /\ [Next]_vars => PurchaseInv'
<1> SUFFICES ASSUME TypeInv, PurchaseInv, [Next]_vars PROVE PurchaseInv'
  OBVIOUS
<1>1. CASE UNCHANGED vars
  BY <1>1 DEF PurchaseInv, vars
<1>2. CASE Crash
  BY <1>2, BoughtCrash DEF PurchaseInv
<1>3. CASE \E r \in Requests : Step(r)
  <2>1. PICK r \in Requests : Step(r)
    BY <1>3
  <2>2. PurchaseKept(charge'[r], req'[r], task'[r])
    BY <2>1, BoughtStep DEF PurchaseStep
  <2>3. ASSUME NEW q \in Requests, q # r
        PROVE  charge'[q] = charge[q] /\ req'[q] = req[q] /\ task'[q] = task[q]
    BY <2>1, <2>3, StepKept DEF Kept, Alone
  <2>4. ASSUME NEW q \in Requests
        PROVE  PurchaseKept(charge'[q], req'[q], task'[q])
    BY <2>2, <2>3 DEF PurchaseInv
  <2> QED BY <2>4 DEF PurchaseInv
<1> QED BY <1>1, <1>2, <1>3, NextSteps

LEMMA Purchases == Spec => [](TypeInv /\ PurchaseInv)
<1>1. Init => TypeInv /\ PurchaseInv
  BY TypeInit, BoughtInit
<1>2. TypeInv /\ PurchaseInv /\ [Next]_vars => (TypeInv /\ PurchaseInv)'
  BY TypeNext, BoughtNext
<1> QED BY <1>1, <1>2, PTL DEF Spec

(* A billed request that was answered had its job started or its credits    *)
(* given back, whatever the dispatchers and the races do.                  *)
THEOREM ChargesSettle == Spec => []ChargeSettled
<1>1. TypeInv /\ PurchaseInv => ChargeSettled
  BY DEF PurchaseInv, PurchaseKept, ChargeSettled
<1> QED BY <1>1, Purchases, PTL

(***************************************************************************)
(* The refinement                                                          *)
(***************************************************************************)
LEMMA WorkStep ==
  ASSUME TypeInv, PurchaseInv, [Next]_vars
  PROVE  [Paid!WorkNext]_PaidOrder
<1>1. CASE UNCHANGED vars
  BY <1>1 DEF PaidOrder, vars
<1>2. CASE Crash
  <2> DEFINE S == {q \in Requests : PaidOrder[q] \in {"paid", "running"}
                                      /\ PaidOrder'[q] = "lost"}
  <2>1. ASSUME NEW q \in Requests
        PROVE  PaidOrder'[q] = IF q \in S THEN "lost" ELSE PaidOrder[q]
    BY <1>2, BoughtCrash DEF PaidOrder
  <2>2. S \in SUBSET Paid!InFlight
    BY DEF Paid!InFlight
  <2>3. PaidOrder' = [q \in Requests |-> IF q \in S THEN "lost" ELSE PaidOrder[q]]
    <3> HIDE DEF S
    <3> QED BY <2>1 DEF PaidOrder
  <2>4. Paid!Lose(S)
    BY <2>3 DEF Paid!Lose
  <2> HIDE DEF S
  <2> QED BY <2>2, <2>4 DEF Paid!WorkNext
<1>3. CASE \E r \in Requests : Step(r)
  <2>1. PICK r \in Requests : Step(r)
    BY <1>3
  <2> DEFINE a == Purchase(charge[r], req[r], task[r])
             b == Purchase(charge'[r], req'[r], task'[r])
  <2>2. OrderStep(a, b)
    BY <2>1, BoughtStep DEF PurchaseStep
  <2>3. ASSUME NEW q \in Requests, q # r
        PROVE  charge'[q] = charge[q] /\ req'[q] = req[q] /\ task'[q] = task[q]
    BY <2>1, <2>3, StepKept DEF Kept, Alone
  <2>4. PaidOrder[r] = a
    BY DEF PaidOrder
  <2>5. PaidOrder' = [PaidOrder EXCEPT ![r] = b]
    BY <2>3 DEF PaidOrder
  <2> HIDE DEF a, b
  <2>6. CASE b = a
    <3>1. PaidOrder' = PaidOrder
      BY <2>4, <2>5, <2>6 DEF PaidOrder
    <3> QED BY <3>1
  <2>7. CASE b # a /\ b # "lost"
    <3>1. Paid!Pay(r) \/ Paid!Begin(r) \/ Paid!Finish(r) \/ Paid!PayBack(r)
      BY <2>2, <2>4, <2>5, <2>7
         DEF OrderStep, Paid!Pay, Paid!Begin, Paid!Finish, Paid!PayBack, Paid!Move
    <3> QED BY <3>1 DEF Paid!WorkNext
  <2>8. CASE b # a /\ b = "lost"
    <3>1. {r} \in SUBSET Paid!InFlight
      BY <2>2, <2>4, <2>8 DEF OrderStep, Paid!InFlight
    <3>2. Paid!Lose({r})
      BY <2>5, <2>8 DEF Paid!Lose, PaidOrder
    <3> QED BY <3>1, <3>2 DEF Paid!WorkNext
  <2> QED BY <2>6, <2>7, <2>8
<1> QED BY <1>1, <1>2, <1>3, NextSteps

(* The endpoints and jobs implement PaidWork: credits are taken once, a job *)
(* runs only on credits that were not given back, nothing is given back     *)
(* twice, and only a crash or a failed failure handler loses an order.      *)
THEOREM LifecycleImplementsPaidWork == Spec => ImplementsPaidWork
<1>1. Init => Paid!WorkInit
  BY DEF Init, Paid!WorkInit, PaidOrder, Purchase
<1>2. TypeInv /\ PurchaseInv /\ [Next]_vars => [Paid!WorkNext]_PaidOrder
  BY WorkStep
<1> QED BY <1>1, <1>2, Purchases, PTL DEF Spec, ImplementsPaidWork, Paid!WorkSpec

-----------------------------------------------------------------------------
(***************************************************************************)
(* The research pipeline that the research job of the lifecycle runs, for  *)
(* any plan, pages, evidence and bounds.                                   *)
(***************************************************************************)
\* The best of a set are some of it, no more than asked for.
LEMMA BestIsSome ==
  ASSUME NEW S, NEW n \in Nat, NEW B \in Best(S, n), Cardinality(S) \in Nat
  PROVE  B \subseteq S /\ Cardinality(B) <= n
<1>1. CASE Cardinality(S) <= n
  BY <1>1 DEF Best
<1>2. CASE ~(Cardinality(S) <= n)
  <2>1. B \in {T \in SUBSET S : Cardinality(T) = n}
    BY <1>2 DEF Best
  <2> QED BY <2>1
<1> QED BY <1>1, <1>2

\* A set that is small enough is its own best.
LEMMA BestOfFew ==
  ASSUME NEW S, NEW n \in Nat, Cardinality(S) <= n
  PROVE  Best(S, n) = {S}
<1> QED BY DEF Best

\* What is read from some pages quotes these pages.
LEMMA OutputsAreGrounded ==
  ASSUME NEW P, NEW o \in Outputs(P)
  PROVE  o \in Output /\ \A i \in o.items : Page[i] \in P
<1>1. CASE o = Sentinel
  BY <1>1 DEF Sentinel, Output
<1>2. CASE o # Sentinel
  <2>1. PICK d \in SUBSET Items, g \in BOOLEAN : o = [items |-> Supported(d, P), gap |-> g]
    BY <1>2 DEF Outputs
  <2>2. Supported(d, P) \in SUBSET Items /\ \A i \in Supported(d, P) : Page[i] \in P
    BY DEF Supported
  <2> HIDE DEF Supported
  <2> QED BY <2>1, <2>2 DEF Output
<1> QED BY <1>1, <1>2

\* Reading leaves the results and the other questions alone.
LEMMA ReadingGrounds ==
  ASSUME NEW w \in Findings, NEW H \in SUBSET Questions, NEW v \in ReadOnce(w, H)
  PROVE  /\ v \in Findings /\ v.found = w.found
         /\ \A q \in H : \A i \in v.read[q].items : Page[i] \in v.found[q]
         /\ \A q \in Questions \ H : v.read[q] = w.read[q]
<1>1. PICK r \in [H -> UNION {Outputs(w.found[q]) : q \in H}] :
        /\ \A q \in H : r[q] \in Outputs(w.found[q])
        /\ v = [w EXCEPT !.read = [q \in Questions |-> IF q \in H THEN r[q] ELSE w.read[q]]]
  BY DEF ReadOnce
<1>2. \A q \in H : r[q] \in Output /\ \A i \in r[q].items : Page[i] \in w.found[q]
  BY <1>1, OutputsAreGrounded
<1>3. w.found \in [Questions -> SUBSET Pages] /\ w.read \in [Questions -> Output]
      /\ w = [found |-> w.found, read |-> w.read]
  BY DEF Findings
<1> DEFINE n == [q \in Questions |-> IF q \in H THEN r[q] ELSE w.read[q]]
<1>4. n \in [Questions -> Output]
  BY <1>2, <1>3
<1>5. v = [found |-> w.found, read |-> n]
  BY <1>1, <1>3 DEF Findings
<1>6. v \in Findings /\ v.found = w.found /\ v.read = n
  <2> HIDE DEF n
  <2> QED BY <1>3, <1>4, <1>5 DEF Findings
<1>7. \A q \in Questions \ H : v.read[q] = w.read[q]
  BY <1>6
<1>8. ASSUME NEW q \in H PROVE \A i \in v.read[q].items : Page[i] \in v.found[q]
  <2>1. v.read[q] = r[q]
    BY <1>6
  <2> QED BY <1>2, <1>6, <2>1
<1> QED BY <1>6, <1>7, <1>8

LEMMA SubsetsAreSmall ==
  ASSUME NEW P \in SUBSET Pages
  PROVE  Cardinality(P) \in Nat
<1> QED BY PipelineAssumption, FS_Subset, FS_CardinalityType

\* Cutting leaves every question at most TopN of its pages, and those alone that have few.
LEMMA CappedResults ==
  ASSUME NEW F \in [Questions -> SUBSET Pages], NEW f \in Capped(F)
  PROVE  /\ f \in [Questions -> SUBSET Pages]
         /\ \A q \in Questions : /\ Cardinality(f[q]) <= TopN
                                 /\ Cardinality(F[q]) <= TopN => f[q] = F[q]
<1>1. /\ f \in [Questions -> UNION {Best(F[q], TopN) : q \in Questions}]
      /\ \A q \in Questions : f[q] \in Best(F[q], TopN)
  BY DEF Capped
<1>2. ASSUME NEW q \in Questions
      PROVE  /\ f[q] \in SUBSET Pages /\ Cardinality(f[q]) <= TopN
             /\ Cardinality(F[q]) <= TopN => f[q] = F[q]
  <2>1. F[q] \in SUBSET Pages /\ Cardinality(F[q]) \in Nat /\ TopN \in Nat
    BY SubsetsAreSmall, PipelineAssumption
  <2>2. f[q] \subseteq F[q] /\ Cardinality(f[q]) <= TopN
    BY <1>1, <2>1, BestIsSome
  <2>3. Cardinality(F[q]) <= TopN => f[q] = F[q]
    BY <1>1, <2>1, BestOfFew
  <2> QED BY <2>1, <2>2, <2>3
<1> QED BY <1>1, <1>2

-----------------------------------------------------------------------------
(* The invariant.                                                           *)

\* Nothing found and nothing read.
LEMMA NothingIsNothing ==
  /\ Nothing \in Findings
  /\ \A q \in Questions : Nothing.found[q] = {} /\ Nothing.read[q].items = {}
<1>1. NotRead \in Output /\ NotRead.items = {}
  BY DEF NotRead, Output
<1> DEFINE f == [q \in Questions |-> {}]
           r == [q \in Questions |-> NotRead]
<1>2. f \in [Questions -> SUBSET Pages] /\ r \in [Questions -> Output]
  BY <1>1
<1>3. Nothing = [found |-> f, read |-> r]
  BY DEF Nothing
<1>4. Nothing.found = f /\ Nothing.read = r /\ Nothing \in Findings
  <2> HIDE DEF f, r
  <2> QED BY <1>2, <1>3 DEF Findings
<1> QED BY <1>1, <1>4

\* Initially nothing has been found, read or paid for.
LEMMA PipelineBegins == PipelineInit => PipelineInv
<1> SUFFICES ASSUME PipelineInit PROVE PipelineInv
  OBVIOUS
<1> USE PipelineAssumption
<1>1. /\ Nothing \in Findings /\ \A q \in Questions : Nothing.found[q] = {}
      /\ \A q \in Questions : Nothing.read[q].items = {}
  BY NothingIsNothing
<1>2. PipelineTypeOK
  <2>1. given \in Findings /\ current \in Findings
    BY <1>1 DEF PipelineInit
  <2>2. /\ stage \in Stages /\ status \in RunStatuses /\ hits \subseteq Questions
        /\ called \subseteq PhaseNames /\ saved \subseteq PhaseNames /\ cut \in BOOLEAN
    BY DEF PipelineInit, Stages, RunStatuses
  <2>3. wave \in 0..MaxWaves /\ report \in [new : BOOLEAN, cites : SUBSET Pages]
    BY DEF PipelineInit
  <2> QED BY <2>1, <2>2, <2>3 DEF PipelineTypeOK
<1>3. WithinTopN
  <2>1. ASSUME NEW q \in Questions PROVE Cardinality(Nothing.found[q]) <= TopN
    <3>1. Nothing.found[q] = {}
      BY <1>1
    <3>2. Cardinality(Nothing.found[q]) = 0
      BY <3>1, FS_EmptySet
    <3> QED BY <3>2
  <2> QED BY <2>1 DEF PipelineInit, WithinTopN
<1>4. Grounded(given)
  BY <1>1 DEF PipelineInit, Grounded
<1>5. /\ StaleOnlyInHits /\ HitsAreRead /\ NothingYet /\ VerdictIsLast /\ AllOrNothing
      /\ SpendIsKept
  BY DEF PipelineInit, StaleOnlyInHits, HitsAreRead, NothingYet, VerdictIsLast, Verdicts, AllOrNothing, SpendIsKept
<1> QED BY <1>2, <1>3, <1>4, <1>5 DEF PipelineInv

\* A failure is the last step, keeps every row and saves no report.
LEMMA PhaseFails ==
  ASSUME PipelineInv, stage # "over", called' \in SUBSET PhaseNames, Fail
  PROVE  PipelineInv'
<1>1. /\ stage' = "over" /\ status' = "RESEARCH_FAILED" /\ saved' = called'
      /\ given' = given /\ current' = current /\ hits' = hits /\ wave' = wave
      /\ report' = report /\ cut' = cut
  BY DEF Fail, Advance, CommitStatus
<1>2. PipelineTypeOK'
  BY <1>1 DEF PipelineInv, PipelineTypeOK, Stages, RunStatuses
<1>3. WithinTopN' /\ Grounded(given)'
  BY <1>1 DEF PipelineInv, WithinTopN, Grounded
<1>4. StaleOnlyInHits' /\ HitsAreRead' /\ NothingYet' /\ VerdictIsLast' /\ SpendIsKept'
  BY <1>1 DEF StaleOnlyInHits, HitsAreRead, NothingYet, VerdictIsLast, SpendIsKept
<1>5. AllOrNothing'
  BY <1>1 DEF PipelineInv, AllOrNothing, VerdictIsLast, Verdicts
<1> QED BY <1>2, <1>3, <1>4, <1>5 DEF PipelineInv

\* A phase that goes well leads to the next one and commits every row.
LEMMA PhaseAdvances ==
  ASSUME PipelineInv, stage # "over", called' \in SUBSET PhaseNames,
         NEW s \in RunStatuses \ Verdicts, NEW n \in Stages \ {"over"}, Advance(s, n),
         given' \in Findings, current' \in Findings, hits' = {}, wave' \in 0..MaxWaves,
         WithinTopN', Grounded(given)', n \in {"reflect", "reread"} => Grounded(current)',
         n \in {"load", "plan", "search"} => given' = Nothing,
         report' = report, cut' = cut
  PROVE  PipelineInv'
<1>1. stage' = n /\ status' = s /\ saved' = called'
  BY DEF Advance, CommitStatus
<1>2. PipelineTypeOK'
  BY <1>1 DEF PipelineInv, PipelineTypeOK
<1>3. StaleOnlyInHits'
  BY <1>1 DEF StaleOnlyInHits, Grounded
<1>4. HitsAreRead' /\ NothingYet' /\ VerdictIsLast' /\ SpendIsKept'
  BY <1>1 DEF HitsAreRead, NothingYet, VerdictIsLast, SpendIsKept
<1>5. AllOrNothing'
  BY <1>1 DEF PipelineInv, AllOrNothing, VerdictIsLast, Verdicts
<1> QED BY <1>2, <1>3, <1>4, <1>5 DEF PipelineInv

\* What a step that leaves the findings alone keeps.
LEMMA SameFindings ==
  ASSUME PipelineInv, UNCHANGED <<given, current, hits, wave>>
  PROVE  /\ given' \in Findings /\ current' \in Findings /\ wave' \in 0..MaxWaves
         /\ WithinTopN' /\ Grounded(given)'
<1> QED BY DEF PipelineInv, PipelineTypeOK, WithinTopN, Grounded

\* Load, Plan and Voices only move on.
LEMMA PhaseMoves ==
  ASSUME PipelineInv, Load \/ Plan \/ Voices
  PROVE  PipelineInv'
<1>1. stage \in {"load", "plan", "voices"} /\ called' \in SUBSET PhaseNames
  BY DEF PipelineInv, PipelineTypeOK, Load, Plan, Voices, Call, PhaseNames
<1>2. hits = {}
  BY <1>1 DEF PipelineInv, HitsAreRead
<1>3. CASE Fail
  BY <1>1, <1>3, PhaseFails
<1>4. CASE ~Fail
  <2>1. PICK s \in RunStatuses \ Verdicts, n \in {"plan", "search", "synthesize"} :
          /\ Advance(s, n) /\ UNCHANGED <<given, current, hits, wave, report, cut>>
          /\ n # "synthesize" => stage \in {"load", "plan"}
    BY <1>4 DEF Load, Plan, Voices, RunStatuses, Verdicts
  <2>2. n \in Stages \ {"over"} /\ n \notin {"reflect", "reread"}
    BY DEF Stages
  <2>3. /\ given' \in Findings /\ current' \in Findings /\ wave' \in 0..MaxWaves
        /\ WithinTopN' /\ Grounded(given)'
    BY <2>1, SameFindings
  <2>4. n \in {"load", "plan", "search"} => given' = Nothing
    BY <2>1 DEF PipelineInv, NothingYet
  <2> QED BY <1>1, <1>2, <2>1, <2>2, <2>3, <2>4, PhaseAdvances
<1> QED BY <1>3, <1>4

LEMMA PhaseSearches ==
  ASSUME PipelineInv, Search
  PROVE  PipelineInv'
<1>1. stage = "search" /\ called' \in SUBSET PhaseNames
  BY DEF PipelineInv, PipelineTypeOK, Search, Call, PhaseNames
<1>2. hits = {} /\ given = Nothing
  BY <1>1 DEF PipelineInv, HitsAreRead, NothingYet
<1>3. CASE Fail
  BY <1>1, <1>3, PhaseFails
<1>4. CASE ~Fail
  <2>1. PICK f \in [Questions -> {P \in SUBSET Pages : Cardinality(P) <= TopN}] :
          given' = [given EXCEPT !.found = f]
    BY <1>4 DEF Search
  <2>2. Advance("RESEARCH_READING", "read") /\ UNCHANGED <<current, hits, wave, report, cut>>
    BY <1>4 DEF Search
  <2>3. /\ f \in [Questions -> SUBSET Pages]
        /\ \A q \in Questions : Cardinality(f[q]) <= TopN
    OBVIOUS
  <2>4. given' \in Findings /\ given'.found = f /\ given'.read = given.read
    BY <2>1, <2>3 DEF PipelineInv, PipelineTypeOK, Findings
  <2>5. current' \in Findings /\ wave' \in 0..MaxWaves
    BY <2>2 DEF PipelineInv, PipelineTypeOK
  <2>6. WithinTopN'
    BY <2>2, <2>3, <2>4 DEF PipelineInv, WithinTopN
  <2>7. Grounded(given)'
    BY <1>2, <2>4, NothingIsNothing DEF Grounded
  <2>8. "read" \in Stages \ {"over"} /\ "RESEARCH_READING" \in RunStatuses \ Verdicts
    BY DEF Stages, RunStatuses, Verdicts
  <2> QED BY <1>1, <1>2, <2>2, <2>4, <2>5, <2>6, <2>7, <2>8, PhaseAdvances
<1> QED BY <1>3, <1>4

LEMMA PhaseReads ==
  ASSUME PipelineInv, ReadPages
  PROVE  PipelineInv'
<1>1. stage = "read" /\ called' \in SUBSET PhaseNames
  BY DEF PipelineInv, PipelineTypeOK, ReadPages, Call, PhaseNames
<1>2. hits = {}
  BY <1>1 DEF PipelineInv, HitsAreRead
<1>3. CASE Fail
  BY <1>1, <1>3, PhaseFails
<1>4. CASE ~Fail
  <2>1. PICK w \in ReadOnce(given, Questions) :
          /\ given' = w /\ current' = w
          /\ Advance("RESEARCH_REFLECTING", "reflect")
          /\ UNCHANGED <<hits, wave, report, cut>>
    BY <1>4 DEF ReadPages
  <2>2. given \in Findings
    BY DEF PipelineInv, PipelineTypeOK
  <2>3. /\ w \in Findings /\ w.found = given.found
        /\ \A q \in Questions : \A i \in w.read[q].items : Page[i] \in w.found[q]
    BY <2>2, ReadingGrounds
  <2>4. Grounded(given)' /\ Grounded(current)'
    BY <2>1, <2>3 DEF Grounded
  <2>5. WithinTopN'
    BY <2>1, <2>3 DEF PipelineInv, WithinTopN
  <2>6. given' \in Findings /\ current' \in Findings /\ wave' \in 0..MaxWaves
    BY <2>1, <2>3 DEF PipelineInv, PipelineTypeOK
  <2>7. "reflect" \in Stages \ {"over"} /\ "RESEARCH_REFLECTING" \in RunStatuses \ Verdicts
    BY DEF Stages, RunStatuses, Verdicts
  <2> QED BY <1>1, <1>2, <2>1, <2>4, <2>5, <2>6, <2>7, PhaseAdvances
<1> QED BY <1>3, <1>4

-----------------------------------------------------------------------------
(* The reflector.                                                           *)

\* What the reflector returns is as grounded as what it held.
LEMMA ReflectorEnds ==
  ASSUME PipelineInv, stage \in {"reflect", "reread"}, called' \in SUBSET PhaseNames,
         NEW w \in Findings, Return(w), Grounded(w),
         \A q \in Questions : Cardinality(w.found[q]) <= TopN
  PROVE  PipelineInv'
<1>1. /\ given' = w /\ current' = Nothing /\ hits' = {} /\ wave' = 0
      /\ Advance("RESEARCH_VOICES", "voices") /\ report' = report /\ cut' = cut
  BY DEF Return
<1>2. given' \in Findings /\ current' \in Findings /\ wave' \in 0..MaxWaves
  BY <1>1, NothingIsNothing, PipelineAssumption
<1>3. WithinTopN'
  <2>1. ASSUME NEW q \in Questions PROVE Cardinality(Nothing.found[q]) <= TopN
    <3>1. Nothing.found[q] = {}
      BY NothingIsNothing
    <3>2. Cardinality(Nothing.found[q]) = 0
      BY <3>1, FS_EmptySet
    <3> QED BY <3>2, PipelineAssumption
  <2> QED BY <1>1, <2>1 DEF WithinTopN
<1>4. Grounded(given)'
  BY <1>1 DEF Grounded
<1>5. "voices" \in Stages \ {"over"} /\ "RESEARCH_VOICES" \in RunStatuses \ Verdicts
  BY DEF Stages, RunStatuses, Verdicts
<1> QED BY <1>1, <1>2, <1>3, <1>4, <1>5, PhaseAdvances

LEMMA ReflectorReturns ==
  ASSUME PipelineInv, Settle \/ Fizzle \/ Degrade
  PROVE  PipelineInv'
<1>1. stage \in {"reflect", "reread"} /\ called' \in SUBSET PhaseNames
  BY DEF PipelineInv, PipelineTypeOK, Settle, Fizzle, Degrade, Call, PhaseNames
<1>2. CASE Settle \/ Fizzle
  <2>1. stage = "reflect" /\ Return(current)
    BY <1>2 DEF Settle, Fizzle
  <2>2. current \in Findings /\ \A q \in Questions : Cardinality(current.found[q]) <= TopN
    BY DEF PipelineInv, PipelineTypeOK, WithinTopN
  <2>3. Grounded(current)
    BY <2>1 DEF PipelineInv, HitsAreRead, StaleOnlyInHits, Grounded
  <2> QED BY <1>1, <2>1, <2>2, <2>3, ReflectorEnds
<1>3. CASE Degrade
  <2>1. Return(given)
    BY <1>3 DEF Degrade
  <2>2. /\ given \in Findings /\ Grounded(given)
        /\ \A q \in Questions : Cardinality(given.found[q]) <= TopN
    BY DEF PipelineInv, PipelineTypeOK, WithinTopN
  <2> QED BY <1>1, <2>1, <2>2, ReflectorEnds
<1> QED BY <1>2, <1>3

\* What the steps within the reflector leave alone.
LEMMA ReflectorWorks ==
  ASSUME PipelineInv, stage \in {"reflect", "reread"}, stage' \in {"reflect", "reread"},
         UNCHANGED <<status, given, saved, report, cut>>,
         called' \in SUBSET PhaseNames, current' \in Findings, hits' \in SUBSET Questions,
         wave' \in 0..MaxWaves, hits' # {} => stage' = "reread", StaleOnlyInHits',
         \A q \in Questions : Cardinality(current'.found[q]) <= TopN
  PROVE  PipelineInv'
<1>1. PipelineTypeOK'
  BY DEF PipelineInv, PipelineTypeOK, Stages
<1>2. WithinTopN' /\ Grounded(given)'
  BY DEF PipelineInv, WithinTopN, Grounded
<1>3. HitsAreRead' /\ NothingYet' /\ SpendIsKept' /\ AllOrNothing'
  BY DEF PipelineInv, HitsAreRead, NothingYet, SpendIsKept, AllOrNothing
<1>4. VerdictIsLast'
  BY DEF PipelineInv, VerdictIsLast, Verdicts
<1> QED BY <1>1, <1>2, <1>3, <1>4 DEF PipelineInv

\* A question without new pages keeps all it had, so its evidence stays grounded.
LEMMA ReflectorSearches ==
  ASSUME PipelineInv, SearchAgain
  PROVE  PipelineInv'
<1>1. /\ stage = "reflect" /\ stage' = "reread" /\ called' \in SUBSET PhaseNames
      /\ UNCHANGED <<status, given, saved, report, cut>>
  BY DEF PipelineInv, PipelineTypeOK, SearchAgain, Call, PhaseNames
<1>2. current \in Findings /\ hits = {}
  BY <1>1 DEF PipelineInv, PipelineTypeOK, HitsAreRead
<1>3. PICK H \in SUBSET Scheduled(current) \ {{}} :
        /\ \E new \in [H -> SUBSET Pages \ {{}}] : \E f \in Capped(Merged(current.found, new)) :
             current' = [current EXCEPT !.found = f]
        /\ hits' = H
  BY DEF SearchAgain
<1>3a. PICK new \in [H -> SUBSET Pages \ {{}}] :
         \E f \in Capped(Merged(current.found, new)) : current' = [current EXCEPT !.found = f]
  BY <1>3
<1>4. PICK f \in Capped(Merged(current.found, new)) : current' = [current EXCEPT !.found = f]
  BY <1>3a
<1>5. H \in SUBSET Questions
  BY DEF Scheduled, Flagged
<1> DEFINE F == Merged(current.found, new)
<1>6. /\ F \in [Questions -> SUBSET Pages]
      /\ \A q \in Questions \ H : F[q] = current.found[q]
  BY <1>2 DEF Merged, Findings
<1>7. /\ f \in [Questions -> SUBSET Pages]
      /\ \A q \in Questions : /\ Cardinality(f[q]) <= TopN
                              /\ Cardinality(F[q]) <= TopN => f[q] = F[q]
  <2> HIDE DEF F
  <2>1. f \in Capped(F)
    BY <1>4 DEF F
  <2> QED BY <1>6, <2>1, CappedResults
<1>8. current' \in Findings /\ current'.found = f /\ current'.read = current.read
  BY <1>2, <1>4, <1>7 DEF Findings
<1>9. \A q \in Questions \ H : f[q] = current.found[q]
  BY <1>6, <1>7 DEF PipelineInv, WithinTopN
<1>10. StaleOnlyInHits'
  BY <1>1, <1>2, <1>3, <1>8, <1>9 DEF PipelineInv, StaleOnlyInHits
<1>11. wave' \in 0..MaxWaves
  BY PipelineAssumption DEF PipelineInv, PipelineTypeOK, SearchAgain
<1> QED BY <1>1, <1>3, <1>5, <1>7, <1>8, <1>10, <1>11, ReflectorWorks

\* The questions with new pages are read from them, whether that succeeds or not.
LEMMA ReflectorReads ==
  ASSUME PipelineInv, ReadAgain
  PROVE  PipelineInv'
<1>1. /\ stage = "reread" /\ stage' = "reflect" /\ hits' = {} /\ called' = called
      /\ UNCHANGED <<status, given, wave, saved, report, cut>>
      /\ current' \in ReadOnce(current, hits)
  BY DEF ReadAgain
<1>2. /\ current \in Findings /\ hits \in SUBSET Questions /\ called' \in SUBSET PhaseNames
      /\ wave' \in 0..MaxWaves
  BY <1>1 DEF PipelineInv, PipelineTypeOK
<1>3. PICK v \in ReadOnce(current, hits) : current' = v
  BY <1>1
<1>4. /\ v \in Findings /\ v.found = current.found
      /\ \A q \in hits : \A i \in v.read[q].items : Page[i] \in v.found[q]
      /\ \A q \in Questions \ hits : v.read[q] = current.read[q]
  BY <1>2, ReadingGrounds
<1>5. StaleOnlyInHits'
  BY <1>1, <1>3, <1>4 DEF PipelineInv, StaleOnlyInHits
<1>6. \A q \in Questions : Cardinality(current'.found[q]) <= TopN
  BY <1>3, <1>4 DEF PipelineInv, WithinTopN
<1> QED BY <1>1, <1>2, <1>3, <1>4, <1>5, <1>6, ReflectorWorks

-----------------------------------------------------------------------------
(* The last phases.                                                         *)

LEMMA PhaseSynthesizes ==
  ASSUME PipelineInv, Synthesize
  PROVE  PipelineInv'
<1>1. stage = "synthesize" /\ called' \in SUBSET PhaseNames
  BY DEF PipelineInv, PipelineTypeOK, Synthesize, Call, PhaseNames
<1>2. CASE Fail
  BY <1>1, <1>2, PhaseFails
<1>3. CASE ~Fail
  <2>1. PICK C \in SUBSET Pages : report' = [new |-> TRUE, cites |-> C]
    BY <1>3 DEF Synthesize
  <2>2. /\ stage' = "over" /\ status' = "RESEARCH_READY" /\ saved' = called'
        /\ UNCHANGED <<given, current, hits, wave, cut>>
    BY <1>3 DEF Synthesize, Advance, CommitStatus
  <2>3. PipelineTypeOK'
    BY <1>1, <2>1, <2>2 DEF PipelineInv, PipelineTypeOK, Stages, RunStatuses
  <2>4. WithinTopN' /\ Grounded(given)'
    BY <2>2 DEF PipelineInv, WithinTopN, Grounded
  <2>5. StaleOnlyInHits' /\ HitsAreRead' /\ NothingYet' /\ VerdictIsLast' /\ SpendIsKept'
    BY <2>2 DEF StaleOnlyInHits, HitsAreRead, NothingYet, VerdictIsLast, SpendIsKept
  <2>6. AllOrNothing'
    BY <2>1, <2>2 DEF AllOrNothing
  <2> QED BY <2>3, <2>4, <2>5, <2>6 DEF PipelineInv
<1> QED BY <1>2, <1>3

LEMMA PipelineIsCut ==
  ASSUME PipelineInv, Cut
  PROVE  PipelineInv'
<1>1. /\ stage' = "over" /\ cut' = TRUE
      /\ UNCHANGED <<status, given, current, hits, wave, called, saved, report>>
  BY DEF Cut
<1>2. PipelineTypeOK'
  BY <1>1 DEF PipelineInv, PipelineTypeOK, Stages
<1>3. WithinTopN' /\ Grounded(given)'
  BY <1>1 DEF PipelineInv, WithinTopN, Grounded
<1>4. /\ StaleOnlyInHits' /\ HitsAreRead' /\ NothingYet' /\ VerdictIsLast' /\ SpendIsKept'
      /\ AllOrNothing'
  BY <1>1 DEF PipelineInv, StaleOnlyInHits, HitsAreRead, NothingYet, VerdictIsLast,
              SpendIsKept, AllOrNothing
<1> QED BY <1>2, <1>3, <1>4 DEF PipelineInv

LEMMA PipelineRests ==
  ASSUME PipelineInv, UNCHANGED pipelineVars
  PROVE  PipelineInv'
<1>1. PipelineTypeOK'
  BY DEF PipelineInv, PipelineTypeOK, pipelineVars
<1>2. WithinTopN' /\ Grounded(given)'
  BY DEF PipelineInv, WithinTopN, Grounded, pipelineVars
<1>3. /\ StaleOnlyInHits' /\ HitsAreRead' /\ NothingYet' /\ VerdictIsLast' /\ SpendIsKept'
      /\ AllOrNothing'
  BY DEF PipelineInv, StaleOnlyInHits, HitsAreRead, NothingYet, VerdictIsLast,
         SpendIsKept, AllOrNothing, pipelineVars
<1> QED BY <1>1, <1>2, <1>3 DEF PipelineInv

-----------------------------------------------------------------------------
(* The theorems.                                                            *)

(* The inductive invariant: no question keeps more than TopN pages, so a    *)
(* wave can cut the pages of those questions alone that it reads again, and *)
(* a verdict is the last step (execute_reflector,                           *)
(* run_research_engine_pipeline).                                           *)
THEOREM PipelineInvariantHolds == PipelineSpec => []PipelineInv
<1>1. PipelineInv /\ [PipelineNext]_pipelineVars => PipelineInv'
  BY PhaseMoves, PhaseSearches, PhaseReads, ReflectorReturns, ReflectorSearches, ReflectorReads,
     PhaseSynthesizes, PipelineIsCut, PipelineRests DEF PipelineNext, RunStep
<1> QED BY PipelineBegins, <1>1, PTL DEF PipelineSpec

(* The state of a run has its type (run_research_engine_pipeline).          *)
THEOREM PipelineTypes == PipelineSpec => []PipelineTypeOK
<1>1. PipelineInv => PipelineTypeOK
  BY DEF PipelineInv
<1> QED BY PipelineInvariantHolds, <1>1, PTL

\* Pages that grounded evidence quotes are known to the index, whatever the prompt keeps.
LEMMA GroundedIsKnown ==
  ASSUME given \in Findings, Grounded(given), NEW e \in Prompted(given)
  PROVE  AllowedPages(e) \subseteq HydrationIndex(given)
<1>1. ASSUME NEW q \in Questions PROVE e[q] \subseteq given.read[q].items
  <2>1. given.read[q].items \in SUBSET Items
    BY DEF Findings, Output
  <2>2. Cardinality(given.read[q].items) \in Nat /\ AtomCap \in Nat
    BY <2>1, PipelineAssumption, FS_Subset, FS_CardinalityType
  <2>3. e[q] \in Best(given.read[q].items, AtomCap)
    BY DEF Prompted
  <2> QED BY <2>2, <2>3, BestIsSome
<1>2. ASSUME NEW q \in Questions, NEW i \in e[q] PROVE Page[i] \in HydrationIndex(given)
  BY <1>1, <1>2 DEF Grounded, HydrationIndex
<1> QED BY <1>2 DEF AllowedPages

(* A citation that passes the allow-list is in the hydration index, for any *)
(* plan, pages, waves and caps (_rank_and_cap_per_question,                 *)
(* _merge_reader_outputs, _hydrate_draft).                                  *)
THEOREM CitationsAlwaysResolve == PipelineSpec => []CitationsResolve
<1>1. PipelineInv => CitationsResolve
  <2> SUFFICES ASSUME PipelineInv PROVE CitationsResolve
    OBVIOUS
  <2>1. given \in Findings /\ Grounded(given)
    BY DEF PipelineInv, PipelineTypeOK
  <2>2. stage = "reflect" => Grounded(current)
    BY DEF PipelineInv, HitsAreRead, StaleOnlyInHits, Grounded
  <2>3. \A e \in Prompted(given) : AllowedPages(e) \subseteq HydrationIndex(given)
    BY <2>1, GroundedIsKnown
  <2> QED BY <2>1, <2>2, <2>3 DEF CitationsResolve
<1> QED BY PipelineInvariantHolds, <1>1, PTL

(* The report is saved exactly when the run ends well                       *)
(* (run_research_engine_pipeline).                                          *)
THEOREM ReportIsAllOrNothing == PipelineSpec => []AllOrNothing
<1>1. PipelineInv => AllOrNothing
  BY DEF PipelineInv
<1> QED BY PipelineInvariantHolds, <1>1, PTL

(* A run that ends by itself has committed the rows of its calls            *)
(* (_set_status, the handlers of run_research_engine_pipeline).             *)
THEOREM SpendIsAlwaysKept == PipelineSpec => []SpendIsKept
<1>1. PipelineInv => SpendIsKept
  BY DEF PipelineInv
<1> QED BY PipelineInvariantHolds, <1>1, PTL
=============================================================================
