------------------------- MODULE PhaseVersionsProofs ------------------------
(***************************************************************************)
(* Theorems about PhaseVersions, for any requests, jobs and faults, and    *)
(* about FounderEdits, the edits of the same documents (the last part).    *)
(***************************************************************************)
EXTENDS PhaseVersions, FounderEdits, TLAPS

LEMMA FieldTypes ==
  ASSUME TypeOK
  PROVE  /\ idea \in Idea /\ idea.version \in Nat /\ idea.text \in Text /\ overlay \in Nat
         /\ report \in Report /\ report.version \in Nat /\ status \in Status
         /\ \A g \in Pages : page[g] \in Page /\ page[g].version \in Nat /\ page[g].overlay \in Nat
         /\ \A a \in Actors :
              /\ job[a] \in Job /\ job[a].idea \in Idea /\ job[a].idea.version \in Nat
              /\ job[a].idea.text \in Text /\ job[a].overlay \in Nat /\ job[a].role \in Roles
              /\ job[a].view \in Status /\ job[a].stamps \in Page
<1>1. /\ idea \in Idea /\ report \in Report /\ overlay \in Nat /\ status \in Status
      /\ \A g \in Pages : page[g] \in Page
      /\ \A a \in Actors : job[a] \in Job
  BY DEF TypeOK
<1>2. \A a \in Actors : job[a].idea \in Idea
  BY <1>1 DEF Job
<1> QED BY <1>1, <1>2 DEF Idea, Report, Page, Job

LEMMA DefaultTypes ==
  /\ NoJob \in Job /\ Draft \in Idea /\ Idle \in Status /\ NoReport \in Report /\ NoPage \in Page
  /\ Draft.text = NoText /\ Draft.version = 0 /\ NoJob.idea = Draft /\ NoJob.overlay = 0
<1>1. Draft \in Idea /\ Idle \in Status
  BY DEF Draft, Idea, Text, Idle, Status
<1>3. NoReport \in Report /\ NoPage \in Page
  BY DEF NoReport, Report, NoPage, Page, Text
<1>2. NoJob \in Job
  BY <1>1, <1>3 DEF NoJob, Job, Roles
<1> QED BY <1>1, <1>2, <1>3 DEF NoJob, Draft

\* The job of an actor that is over.
LEMMA Ended ==
  ASSUME TypeOK, NEW a \in Actors
  PROVE  \E q \in Job : /\ End(a) = [job EXCEPT ![a] = q] /\ q.pc = "over"
                        /\ q.idea = Draft /\ q.overlay = 0 /\ q.role = job[a].role
<1> DEFINE q == [NoJob EXCEPT !.pc = "over", !.role = job[a].role]
<1>1. q \in Job
  BY FieldTypes, DefaultTypes DEF Job
<1>2. q.pc = "over" /\ q.idea = Draft /\ q.overlay = 0 /\ q.role = job[a].role
  BY DEF NoJob
<1> QED BY <1>1, <1>2 DEF End

LEMMA Initially == Init => PhaseInv
<1> SUFFICES ASSUME Init PROVE PhaseInv
  OBVIOUS
<1>1. TypeOK
  <2>1. idea \in Idea /\ task \in Actors \cup {NoText}
    BY DEF Init, Idea, Text
  <2>2. raced \in BOOLEAN /\ doubled \in BOOLEAN /\ died \in BOOLEAN
    BY DEF Init
  <2>3. faults \in 0..MaxFaults /\ overlay \in Nat
    BY VersionBounds DEF Init
  <2>4. report \in Report /\ status \in Status /\ page \in [Pages -> Page] /\ job \in [Actors -> Job]
    BY DefaultTypes DEF Init
  <2> QED BY <2>1, <2>2, <2>3, <2>4 DEF TypeOK
<1>2. IdeasKnown
  BY DefaultTypes DEF Init, IdeasKnown, Known, NoReport, NoPage, NoJob, Is
<1>3. OverlaysKnown
  BY DEF Init, OverlaysKnown, NoPage, NoJob
<1>5. StampsSeen
  BY DEF Init, StampsSeen, HoldsRow, NoJob
<1>4. StatusKept
  <2>1. \A a \in Actors : job[a].role = "finalize" /\ job[a].pc = "idle"
    BY DEF Init, NoJob
  <2>2. status.is = "idle" /\ ~status.error
    BY DEF Init, Idle
  <2> QED BY <2>1, <2>2 DEF StatusKept, LiveTasks, Generates, Is, TaskPcs
<1> QED BY <1>1, <1>2, <1>3, <1>4, <1>5 DEF PhaseInv

-----------------------------------------------------------------------------
(* A step of one job leaves the versions known.                            *)

LEMMA IdeaStep ==
  ASSUME PhaseInv, NEW a \in Actors, NEW q \in Job,
         job' = [job EXCEPT ![a] = q],
         UNCHANGED <<idea, report, overlay, page, raced>>, doubled => doubled',
         q.idea \in {Draft, idea, job[a].idea}, q.overlay \in {0, overlay, job[a].overlay},
         q.role = "finalize" /\ q.pc = "read" => q.idea = idea
  PROVE  IdeasKnown' /\ OverlaysKnown'
<1>1. TypeOK /\ IdeasKnown /\ OverlaysKnown
  BY DEF PhaseInv
<1>2. job'[a] = q /\ \A b \in Actors \ {a} : job'[b] = job[b]
  BY <1>1 DEF TypeOK
<1>3. idea.version \in Nat /\ overlay \in Nat
  BY <1>1, FieldTypes
<1>4. IdeasKnown'
  <2>1. ~raced => Known(q.idea.text, q.idea.version)
    BY <1>1, <1>3, DefaultTypes DEF IdeasKnown, Known
  <2>2. ~raced => ((Is(a, "finalize", "read"))' => q.idea.version = idea.version)
    BY <1>2 DEF Is
  <2>3. \A b \in Actors \ {a} : Is(b, "finalize", "read")' <=> Is(b, "finalize", "read")
    BY <1>2 DEF Is
  <2>4. \A g \in Pages : OwnStamps(g)' => OwnStamps(g)
    BY DEF OwnStamps
  <2> QED BY <1>1, <1>2, <2>1, <2>2, <2>3, <2>4 DEF IdeasKnown, Known
<1>5. OverlaysKnown'
  BY <1>1, <1>2, <1>3 DEF OverlaysKnown, OwnStamps
<1> QED BY <1>4, <1>5

\* A task takes its view of the row when it loads it, and keeps it.
LEMMA SeenStep ==
  ASSUME PhaseInv, NEW a \in Actors, NEW q \in Job,
         job' = [job EXCEPT ![a] = q], page'["v2"] = page["v2"], doubled => doubled',
         \/ ~(q.role = "v2" /\ q.pc \in {"loaded", "read", "running"})
         \/ HoldsRow(a) /\ q.stamps = job[a].stamps
         \/ q.stamps = page["v2"]
  PROVE  StampsSeen'
<1>1. TypeOK /\ StampsSeen
  BY DEF PhaseInv
<1>2. job'[a] = q /\ \A b \in Actors \ {a} : job'[b] = job[b]
  BY <1>1 DEF TypeOK
<1> SUFFICES ASSUME ~doubled', NEW b \in Actors, HoldsRow(b)'
             PROVE  job'[b].stamps = page'["v2"]
  BY DEF StampsSeen
<1>3. CASE b = a
  BY <1>1, <1>2, <1>3 DEF StampsSeen, HoldsRow
<1>4. CASE b # a
  BY <1>1, <1>2, <1>4 DEF StampsSeen, HoldsRow
<1> QED BY <1>3, <1>4

\* A step of a job that is no task of the second generator, before and after.
LEMMA OtherStep ==
  ASSUME PhaseInv, NEW a \in Actors, NEW q \in Job,
         job' = [job EXCEPT ![a] = q], UNCHANGED <<status, doubled, died>>,
         ~(job[a].role = "v2" /\ job[a].pc \in TaskPcs),
         ~(q.role = "v2" /\ q.pc \in TaskPcs)
  PROVE  StatusKept'
<1>1. TypeOK /\ StatusKept
  BY DEF PhaseInv
<1>2. job'[a] = q /\ \A b \in Actors \ {a} : job'[b] = job[b]
  BY <1>1 DEF TypeOK
<1>3. LiveTasks' = LiveTasks
  BY <1>2 DEF LiveTasks
<1>4. \A b \in Actors : /\ Generates(b)' <=> Generates(b)
                        /\ Is(b, "v2", "loaded")' <=> Is(b, "v2", "loaded")
                        /\ Generates(b) \/ Is(b, "v2", "loaded") => job'[b] = job[b]
  BY <1>2 DEF Generates, Is, TaskPcs
<1> QED BY <1>1, <1>3, <1>4 DEF StatusKept

\* The steps that read into a job of another kind.
LEMMA ReadingStep ==
  ASSUME PhaseInv, NEW a \in Actors, NEW q \in Job,
         job' = [job EXCEPT ![a] = q],
         UNCHANGED <<idea, report, overlay, page, raced, second>>, faults' \in 0..MaxFaults,
         ~(job[a].role = "v2" /\ job[a].pc \in TaskPcs),
         ~(q.role = "v2" /\ q.pc \in TaskPcs),
         q.idea \in {Draft, idea, job[a].idea}, q.overlay \in {0, overlay, job[a].overlay},
         q.role = "finalize" /\ q.pc = "read" => q.idea = idea
  PROVE  PhaseInv'
<1>1. TypeOK'
  BY DEF PhaseInv, TypeOK, second
<1>2. IdeasKnown' /\ OverlaysKnown'
  BY IdeaStep DEF second
<1>3. StatusKept'
  BY OtherStep DEF second
<1>4. StampsSeen'
  BY SeenStep DEF second, TaskPcs
<1> QED BY <1>1, <1>2, <1>3, <1>4 DEF PhaseInv

LEMMA ReadForFinalizeStep ==
  ASSUME PhaseInv, NEW a \in Actors, ReadForFinalize(a) PROVE PhaseInv'
<1> DEFINE n == [job[a] EXCEPT !.role = "finalize", !.pc = "read", !.idea = idea]
<1>1. TypeOK /\ job[a] \in Job /\ idea \in Idea /\ job[a].pc = "idle"
  BY FieldTypes DEF PhaseInv, ReadForFinalize, May
<1>2. n \in Job
  BY <1>1 DEF Job, Roles
<1>3. PICK q \in Job : q = n
  BY <1>2
<1>4. q.role = "finalize" /\ q.idea = idea /\ q.overlay = job[a].overlay
  BY <1>1, <1>3 DEF Job
<1>5. job' = [job EXCEPT ![a] = q]
  BY <1>1, <1>3 DEF ReadForFinalize, TypeOK
<1> QED BY <1>1, <1>4, <1>5, ReadingStep DEF ReadForFinalize, TaskPcs, TypeOK

LEMMA StartResearchStep ==
  ASSUME PhaseInv, NEW a \in Actors, StartResearch(a) PROVE PhaseInv'
<1> DEFINE n == [job[a] EXCEPT !.role = "research", !.pc = "running", !.idea = idea]
<1>1. TypeOK /\ job[a] \in Job /\ idea \in Idea /\ job[a].pc = "idle"
  BY FieldTypes DEF PhaseInv, StartResearch, May
<1>2. n \in Job
  BY <1>1 DEF Job, Roles
<1>3. PICK q \in Job : q = n
  BY <1>2
<1>4. q.role = "research" /\ q.idea = idea /\ q.overlay = job[a].overlay
  BY <1>1, <1>3, SMTT(30) DEF Job
<1>5. job' = [job EXCEPT ![a] = q]
  BY <1>1, <1>3, ZenonT(30) DEF StartResearch, TypeOK
<1> QED BY <1>1, <1>4, <1>5, ReadingStep DEF StartResearch, TaskPcs, TypeOK

LEMMA ReadReportStep ==
  ASSUME PhaseInv, NEW a \in Actors, ReadReport(a) PROVE PhaseInv'
<1> DEFINE n == [job[a] EXCEPT !.role = "v1", !.pc = "read", !.overlay = overlay]
<1>1. TypeOK /\ job[a] \in Job /\ overlay \in Nat /\ job[a].pc = "idle"
  BY FieldTypes DEF PhaseInv, ReadReport, May
<1>2. n \in Job
  BY <1>1 DEF Job, Roles
<1>3. PICK q \in Job : q = n
  BY <1>2
<1>4. q.role = "v1" /\ q.idea = job[a].idea /\ q.overlay = overlay
  BY <1>1, <1>3 DEF Job
<1>5. job' = [job EXCEPT ![a] = q]
  BY <1>1, <1>3 DEF ReadReport, TypeOK
<1> QED BY <1>1, <1>4, <1>5, ReadingStep DEF ReadReport, TaskPcs, TypeOK

LEMMA ReadIdeaStep ==
  ASSUME PhaseInv, NEW a \in Actors, ReadIdea(a) PROVE PhaseInv'
<1> DEFINE n == [job[a] EXCEPT !.pc = "running", !.idea = idea]
<1>1. TypeOK /\ job[a] \in Job /\ idea \in Idea /\ job[a].role = "v1"
  BY FieldTypes DEF PhaseInv, ReadIdea, Is
<1>2. n \in Job
  BY <1>1 DEF Job
<1>3. PICK q \in Job : q = n
  BY <1>2
<1>4. q.role = "v1" /\ q.idea = idea /\ q.overlay = job[a].overlay
  BY <1>1, <1>3 DEF Job
<1>5. job' = [job EXCEPT ![a] = q]
  BY <1>1, <1>3 DEF ReadIdea, TypeOK
<1> QED BY <1>1, <1>4, <1>5, ReadingStep DEF ReadIdea, TypeOK

LEMMA CheckStatusStep ==
  ASSUME PhaseInv, NEW a \in Actors, CheckStatus(a) PROVE PhaseInv'
<1> DEFINE n == [job[a] EXCEPT !.role = "v2", !.pc = "checked", !.view = status]
<1>1. TypeOK /\ job[a] \in Job /\ status \in Status /\ job[a].pc = "idle"
  BY FieldTypes DEF PhaseInv, CheckStatus, May
<1>2. PICK b \in Job : b = job[a]
  BY <1>1
<1>3. PICK q \in Job : q = n
  <2>1. [b EXCEPT !.role = "v2", !.pc = "checked", !.view = status] \in Job
    BY <1>1, <1>2 DEF Job, Roles
  <2> QED BY <1>2, <2>1
<1>4. q.role = "v2" /\ q.pc = "checked" /\ q.idea = job[a].idea /\ q.overlay = job[a].overlay
  <2>1. LET c == [b EXCEPT !.role = "v2", !.pc = "checked", !.view = status]
        IN c.role = "v2" /\ c.pc = "checked" /\ c.idea = b.idea /\ c.overlay = b.overlay
    BY DEF Job
  <2> QED BY <1>2, <1>3, <2>1
<1>5. job' = [job EXCEPT ![a] = q]
  BY <1>1, <1>3, ZenonT(30) DEF CheckStatus, TypeOK
<1>6. q.idea \in {Draft, idea, job[a].idea} /\ q.overlay \in {0, overlay, job[a].overlay}
      /\ ~(q.role = "finalize" /\ q.pc = "read") /\ q.pc \notin TaskPcs
  BY <1>4 DEF TaskPcs
<1>7. UNCHANGED <<idea, report, overlay, page, raced, second>> /\ faults' \in 0..MaxFaults
      /\ ~(job[a].role = "v2" /\ job[a].pc \in TaskPcs)
  BY <1>1 DEF CheckStatus, TaskPcs, TypeOK
<1> HIDE DEF n
<1> QED BY <1>5, <1>6, <1>7, ReadingStep

LEMMA AlreadyGeneratingStep ==
  ASSUME PhaseInv, NEW a \in Actors, AlreadyGenerating(a) PROVE PhaseInv'
<1>1. TypeOK /\ job[a].pc = "checked"
  BY DEF PhaseInv, AlreadyGenerating, Is
<1>2. PICK q \in Job : /\ End(a) = [job EXCEPT ![a] = q] /\ q.pc = "over"
                       /\ q.idea = Draft /\ q.overlay = 0 /\ q.role = job[a].role
  BY <1>1, Ended
<1> QED BY <1>1, <1>2, ReadingStep DEF AlreadyGenerating, TaskPcs, TypeOK

-----------------------------------------------------------------------------
(* The steps that write the idea, the report, its overlay or a page.       *)

LEMMA FinalizeStep ==
  ASSUME PhaseInv, NEW a \in Actors, Finalize(a) PROVE PhaseInv'
<1>1. TypeOK /\ IdeasKnown /\ OverlaysKnown /\ Is(a, "finalize", "read")
  BY DEF PhaseInv, Finalize
<1>2. PICK q \in Job : /\ End(a) = [job EXCEPT ![a] = q] /\ q.pc = "over"
                       /\ q.idea = Draft /\ q.overlay = 0 /\ q.role = job[a].role
  BY <1>1, Ended
<1>3. /\ job' = [job EXCEPT ![a] = q]
      /\ idea' = [text |-> a, version |-> job[a].idea.version + 1]
      /\ raced' = (raced \/ \E b \in Actors \ {a} : Is(b, "finalize", "read"))
      /\ UNCHANGED <<report, overlay, page, faults, second>>
  BY <1>2 DEF Finalize
<1>4. job'[a] = q /\ \A b \in Actors \ {a} : job'[b] = job[b]
  BY <1>1, <1>3 DEF TypeOK
<1>5. idea' \in Idea /\ job[a].idea.version \in Nat /\ idea.version \in Nat
  BY <1>1, <1>3, FieldTypes DEF Idea, Text
<1>6. TypeOK'
  <2>1. raced' \in BOOLEAN
    BY <1>3
  <2> QED BY <1>1, <1>3, <1>5, <2>1 DEF TypeOK, second
<1>7. IdeasKnown'
  <2>1. idea'.version = job[a].idea.version + 1 /\ idea'.version >= 1
    BY <1>3, <1>5
  <2>2. ASSUME ~raced' PROVE ~raced /\ idea'.version = idea.version + 1
    BY <1>1, <1>3, <2>1, <2>2 DEF IdeasKnown
  <2>3. \A b \in Actors : ~raced' => ~Is(b, "finalize", "read")'
    BY <1>2, <1>3, <1>4 DEF Is
  <2>4. ASSUME ~raced', NEW t, NEW v \in Nat, Known(t, v) PROVE Known(t, v)'
    BY <1>5, <2>2, <2>4 DEF Known
  <2>5. ASSUME ~raced' PROVE Known(report.text, report.version)'
    BY <1>1, <1>3, <1>5, <2>2, <2>5, FieldTypes DEF Known, IdeasKnown
  <2>6. ASSUME ~raced', NEW g \in Pages, OwnStamps(g)' PROVE Known(page[g].text, page[g].version)'
    <3>1. OwnStamps(g) /\ page'[g] = page[g]
      BY <1>3, <2>6 DEF OwnStamps, second
    <3> QED BY <1>1, <1>3, <1>5, <2>2, <2>6, <3>1, FieldTypes DEF Known, IdeasKnown
  <2>7. ASSUME ~raced', NEW b \in Actors PROVE Known(job[b].idea.text, job[b].idea.version)'
    <3>1. CASE b = a
      BY <1>2, <1>4, <2>1, <3>1, DefaultTypes, <1>5 DEF Known
    <3>2. CASE b # a
      BY <1>1, <1>4, <1>5, <2>2, <2>7, <3>2, FieldTypes DEF Known, IdeasKnown
    <3> QED BY <3>1, <3>2
  <2> QED BY <2>1, <2>3, <2>5, <2>6, <2>7 DEF IdeasKnown
<1>8. OverlaysKnown'
  BY <1>1, <1>2, <1>3, <1>4, FieldTypes DEF OverlaysKnown, OwnStamps, second
<1>9. StatusKept'
  BY <1>1, <1>2, <1>3, OtherStep DEF second, Is
<1>10. StampsSeen'
  BY <1>2, <1>3, SeenStep DEF second
<1> QED BY <1>6, <1>7, <1>8, <1>9, <1>10 DEF PhaseInv

LEMMA ResetRefinementStep ==
  ASSUME PhaseInv, NEW a \in Actors, ResetRefinement(a) PROVE PhaseInv'
<1>1. TypeOK /\ IdeasKnown /\ OverlaysKnown /\ job[a].pc = "idle"
  BY DEF PhaseInv, ResetRefinement, May
<1>2. PICK q \in Job : /\ End(a) = [job EXCEPT ![a] = q] /\ q.pc = "over"
                       /\ q.idea = Draft /\ q.overlay = 0 /\ q.role = job[a].role
  BY <1>1, Ended
<1>3. /\ job' = [job EXCEPT ![a] = q] /\ idea' = [idea EXCEPT !.text = NoText]
      /\ UNCHANGED <<report, overlay, page, faults, raced, second>>
  BY <1>2 DEF ResetRefinement
<1>4. job'[a] = q /\ \A b \in Actors \ {a} : job'[b] = job[b]
  BY <1>1, <1>3 DEF TypeOK
<1>5. idea' \in Idea /\ idea'.version = idea.version /\ idea'.text = NoText /\ idea.version \in Nat
  BY <1>1, <1>3, FieldTypes DEF Idea, Text
<1>6. TypeOK'
  BY <1>1, <1>3, <1>5 DEF TypeOK, second
<1>7. IdeasKnown'
  <2>1. \A b \in Actors : Is(b, "finalize", "read")' => b # a /\ Is(b, "finalize", "read")
    BY <1>2, <1>4 DEF Is
  <2>2. ~raced => \A b \in Actors : Known(job[b].idea.text, job[b].idea.version)'
    BY <1>1, <1>2, <1>4, <1>5, DefaultTypes DEF IdeasKnown, Known
  <2>3. \A g \in Pages : OwnStamps(g)' <=> OwnStamps(g)
    BY <1>3 DEF OwnStamps, second
  <2> QED BY <1>1, <1>3, <1>4, <1>5, <2>1, <2>2, <2>3 DEF IdeasKnown, Known
<1>8. OverlaysKnown'
  BY <1>1, <1>2, <1>3, <1>4, FieldTypes DEF OverlaysKnown, OwnStamps, second
<1>9. StatusKept'
  BY <1>1, <1>2, <1>3, OtherStep DEF second, TaskPcs
<1>10. StampsSeen'
  BY <1>2, <1>3, SeenStep DEF second
<1> QED BY <1>6, <1>7, <1>8, <1>9, <1>10 DEF PhaseInv

\* A job of another kind ends, and what it had read becomes the report or a page.
LEMMA OutcomeStep ==
  ASSUME PhaseInv, NEW a \in Actors,
         job' = End(a), UNCHANGED <<idea, raced, doubled>>, overlay' >= overlay,
         overlay' \in Nat, report' \in Report, page' \in [Pages -> Page],
         \/ report' = report
         \/ report'.text = job[a].idea.text /\ report'.version = job[a].idea.version,
         \A g \in Pages :
           \/ page'[g] = page[g]
           \/ /\ page'[g].overlay \in Nat /\ page'[g].overlay <= overlay
              /\ OwnStamps(g) => /\ page'[g].text = job[a].idea.text
                                 /\ page'[g].version = job[a].idea.version
                                 /\ page'[g].base = page'[g].overlay
  PROVE  IdeasKnown' /\ OverlaysKnown'
<1>1. TypeOK /\ IdeasKnown /\ OverlaysKnown
  BY DEF PhaseInv
<1>2. PICK q \in Job : /\ End(a) = [job EXCEPT ![a] = q] /\ q.pc = "over"
                       /\ q.idea = Draft /\ q.overlay = 0 /\ q.role = job[a].role
  BY <1>1, Ended
<1>3. job'[a] = q /\ \A b \in Actors \ {a} : job'[b] = job[b]
  BY <1>1, <1>2 DEF TypeOK
<1>4. IdeasKnown'
  <2>1. \A b \in Actors : Is(b, "finalize", "read")' => b # a /\ Is(b, "finalize", "read")
    BY <1>2, <1>3 DEF Is
  <2>2. ~raced => \A b \in Actors : Known(job[b].idea.text, job[b].idea.version)'
    BY <1>1, <1>2, <1>3, DefaultTypes, FieldTypes DEF IdeasKnown, Known
  <2>3. ~raced => Known(report.text, report.version)'
    BY <1>1 DEF IdeasKnown, Known
  <2>4. ~raced => \A g \in Pages : OwnStamps(g) => Known(page[g].text, page[g].version)'
    BY <1>1 DEF IdeasKnown, Known
  <2>5. \A g \in Pages : OwnStamps(g)' <=> OwnStamps(g)
    BY DEF OwnStamps
  <2> QED BY <1>1, <1>3, <2>1, <2>2, <2>3, <2>4, <2>5 DEF IdeasKnown
<1>5. OverlaysKnown'
  <2>1. /\ overlay \in Nat
        /\ \A g \in Pages : page[g].overlay \in Nat /\ page[g].overlay <= overlay
        /\ \A b \in Actors : job[b].overlay \in Nat /\ job[b].overlay <= overlay
    BY <1>1, FieldTypes DEF OverlaysKnown
  <2>2. \A g \in Pages : page'[g].overlay <= overlay'
    BY <2>1
  <2>3. \A b \in Actors : job'[b].overlay <= overlay'
    BY <1>2, <1>3, <2>1
  <2>4. \A g \in Pages : OwnStamps(g)' => page'[g].base = page'[g].overlay
    BY <1>1 DEF OverlaysKnown, OwnStamps
  <2> QED BY <2>2, <2>3, <2>4 DEF OverlaysKnown
<1> QED BY <1>4, <1>5

LEMMA FinishResearchStep ==
  ASSUME PhaseInv, NEW a \in Actors, FinishResearch(a) PROVE PhaseInv'
<1>1. TypeOK /\ Is(a, "research", "running")
  BY DEF PhaseInv, FinishResearch
<1>2. /\ report' = [exists |-> TRUE, text |-> job[a].idea.text, version |-> job[a].idea.version]
      /\ job' = End(a) /\ UNCHANGED <<idea, overlay, page, faults, raced, second>>
  BY DEF FinishResearch
<1>3. PICK q \in Job : /\ End(a) = [job EXCEPT ![a] = q] /\ q.pc = "over"
                       /\ q.idea = Draft /\ q.overlay = 0 /\ q.role = job[a].role
  BY <1>1, Ended
<1>4. report' \in Report /\ overlay \in Nat
  BY <1>1, <1>2, FieldTypes DEF Report
<1>8. /\ page' \in [Pages -> Page] /\ overlay' = overlay /\ \A g \in Pages : page'[g] = page[g]
      /\ report'.text = job[a].idea.text /\ report'.version = job[a].idea.version
  BY <1>1, <1>2 DEF TypeOK
<1>9. UNCHANGED <<idea, raced, doubled>> /\ overlay' >= overlay
  BY <1>2, <1>4 DEF second
<1>5. TypeOK'
  BY <1>1, <1>2, <1>3, <1>4 DEF TypeOK, second
<1>6. IdeasKnown' /\ OverlaysKnown'
  BY <1>2, <1>4, <1>8, <1>9, OutcomeStep
<1>7. StatusKept'
  BY <1>1, <1>2, <1>3, OtherStep DEF second, Is
<1>10. StampsSeen'
  BY <1>1, <1>2, <1>3, SeenStep DEF second, TypeOK, Pages
<1> QED BY <1>5, <1>6, <1>7, <1>10 DEF PhaseInv

LEMMA EditOverlayStep ==
  ASSUME PhaseInv, NEW a \in Actors, EditOverlay(a) PROVE PhaseInv'
<1>1. TypeOK /\ job[a].pc = "idle"
  BY DEF PhaseInv, EditOverlay, May
<1>2. /\ overlay' = overlay + 1 /\ job' = End(a)
      /\ UNCHANGED <<idea, report, page, faults, raced, second>>
  BY DEF EditOverlay
<1>3. PICK q \in Job : /\ End(a) = [job EXCEPT ![a] = q] /\ q.pc = "over"
                       /\ q.idea = Draft /\ q.overlay = 0 /\ q.role = job[a].role
  BY <1>1, Ended
<1>4. report' \in Report /\ overlay \in Nat /\ overlay' \in Nat /\ overlay' >= overlay
  BY <1>1, <1>2, FieldTypes
<1>8. page' \in [Pages -> Page] /\ report' = report /\ \A g \in Pages : page'[g] = page[g]
  BY <1>1, <1>2 DEF TypeOK
<1>9. UNCHANGED <<idea, raced, doubled>>
  BY <1>2 DEF second
<1>5. TypeOK'
  BY <1>1, <1>2, <1>3, <1>4 DEF TypeOK, second
<1>6. IdeasKnown' /\ OverlaysKnown'
  BY <1>2, <1>4, <1>8, <1>9, OutcomeStep
<1>7. StatusKept'
  BY <1>1, <1>2, <1>3, OtherStep DEF second, TaskPcs
<1>10. StampsSeen'
  BY <1>2, <1>3, SeenStep DEF second
<1> QED BY <1>5, <1>6, <1>7, <1>10 DEF PhaseInv

LEMMA StampedPage ==
  ASSUME TypeOK, NEW a \in Actors
  PROVE  /\ Stamped(a) \in Page /\ Stamped(a).text = job[a].idea.text
         /\ Stamped(a).version = job[a].idea.version /\ Stamped(a).overlay = job[a].overlay
         /\ Stamped(a).base = job[a].overlay
BY FieldTypes DEF Stamped, Page

\* A page of the second generator may keep stamps of the row, but not when its task
\* saw the row as it is.
LEMMA StampedOverPage ==
  ASSUME TypeOK, NEW a \in Actors
  PROVE  /\ StampedOver(a) \in Page /\ StampedOver(a).text = job[a].idea.text
         /\ StampedOver(a).base = job[a].overlay
         /\ StampedOver(a).overlay \in {job[a].overlay, page["v2"].overlay}
         /\ job[a].stamps = page["v2"] =>
              /\ StampedOver(a).version = job[a].idea.version
              /\ StampedOver(a).overlay = job[a].overlay
<1> DEFINE seen == job[a].stamps
           v == IF seen.exists /\ seen.version = Stamped(a).version
                THEN page["v2"].version ELSE Stamped(a).version
           o == IF seen.exists /\ seen.overlay = Stamped(a).overlay
                THEN page["v2"].overlay ELSE Stamped(a).overlay
<1>1. v \in Nat /\ o \in Nat
  BY StampedPage, FieldTypes DEF Pages
<1>5. PICK own \in Page : own = Stamped(a)
  BY StampedPage
<1>6. StampedOver(a) = [own EXCEPT !.version = v, !.overlay = o]
  BY <1>5, Zenon DEF StampedOver
<1>4. /\ o \in {job[a].overlay, page["v2"].overlay}
      /\ seen = page["v2"] => v = job[a].idea.version /\ o = job[a].overlay
  BY StampedPage
<1> HIDE DEF v, o
<1>2. PICK put \in Page : put = [own EXCEPT !.version = v, !.overlay = o]
  BY <1>1 DEF Page
<1>3. put.text = own.text /\ put.base = own.base /\ put.version = v /\ put.overlay = o
  BY <1>2 DEF Page
<1> QED BY <1>2, <1>3, <1>4, <1>5, <1>6, StampedPage

LEMMA SavePageStep ==
  ASSUME PhaseInv, NEW a \in Actors, SavePage(a) PROVE PhaseInv'
<1>1. TypeOK /\ Is(a, "v1", "running")
  BY DEF PhaseInv, SavePage
<1>2. /\ page' = [page EXCEPT !["v1"] = Stamped(a)] /\ job' = End(a)
      /\ UNCHANGED <<idea, report, overlay, faults, raced, second>>
  BY DEF SavePage
<1>3. PICK q \in Job : /\ End(a) = [job EXCEPT ![a] = q] /\ q.pc = "over"
                       /\ q.idea = Draft /\ q.overlay = 0 /\ q.role = job[a].role
  BY <1>1, Ended
<1>4. /\ page' \in [Pages -> Page] /\ overlay \in Nat /\ report \in Report
      /\ \A g \in Pages : page'[g] = page[g] \/ page'[g] = Stamped(a)
  BY <1>1, <1>2, StampedPage, FieldTypes DEF TypeOK
<1>5. TypeOK'
  BY <1>1, <1>2, <1>3, <1>4 DEF TypeOK, second
<1>8. job[a].overlay \in Nat /\ job[a].overlay <= overlay
  BY <1>1, FieldTypes DEF PhaseInv, OverlaysKnown
<1>9. UNCHANGED <<idea, report, overlay, raced, doubled>>
  BY <1>2 DEF second
<1>6. IdeasKnown' /\ OverlaysKnown'
  BY <1>1, <1>2, <1>4, <1>8, <1>9, StampedPage, OutcomeStep
<1>7. StatusKept'
  BY <1>1, <1>2, <1>3, OtherStep DEF second, Is
<1>10. StampsSeen'
  BY <1>1, <1>2, <1>3, SeenStep DEF second, TypeOK, Pages
<1> QED BY <1>5, <1>6, <1>7, <1>10 DEF PhaseInv

-----------------------------------------------------------------------------
(* The tasks of the second generator.                                      *)

\* A step of one job, from what it was to q.
LEMMA Moved ==
  ASSUME TypeOK, NEW a \in Actors, NEW q \in Job, job' = [job EXCEPT ![a] = q]
  PROVE  /\ job' \in [Actors -> Job] /\ job'[a] = q
         /\ \A b \in Actors \ {a} : job'[b] = job[b]
         /\ \A b \in Actors \ {a} : /\ Generates(b)' <=> Generates(b)
                                    /\ Is(b, "v2", "loaded")' <=> Is(b, "v2", "loaded")
                                    /\ b \in LiveTasks' <=> b \in LiveTasks
BY DEF TypeOK, Generates, Is, LiveTasks

LEMMA Live ==
  ASSUME NEW a \in Actors
  PROVE  /\ a \in LiveTasks <=> job[a].role = "v2" /\ job[a].pc \in TaskPcs
         /\ Generates(a) => a \in LiveTasks
         /\ Is(a, "v2", "loaded") => a \in LiveTasks
         /\ Is(a, "v2", "created") => a \in LiveTasks
BY DEF LiveTasks, Generates, Is, TaskPcs

LEMMA DispatchStep ==
  ASSUME PhaseInv, NEW a \in Actors, Dispatch(a) PROVE PhaseInv'
<1> DEFINE n == [job[a] EXCEPT !.pc = "created"]
<1>1. TypeOK /\ StatusKept /\ job[a] \in Job /\ job[a].role = "v2" /\ job[a].pc = "checked"
  BY FieldTypes DEF PhaseInv, Dispatch, Is
<1>2. n \in Job
  BY <1>1 DEF Job
<1>3. PICK q \in Job : q = n
  BY <1>2
<1>4. /\ q.role = "v2" /\ q.pc = "created" /\ q.idea = job[a].idea
      /\ q.overlay = job[a].overlay
  BY <1>1, <1>3 DEF Job
<1>5. /\ job' = [job EXCEPT ![a] = q] /\ task' = a /\ doubled' = (doubled \/ LiveTasks # {})
      /\ UNCHANGED <<idea, report, overlay, page, status, faults, raced, died>>
  BY <1>1, <1>3 DEF Dispatch, TypeOK
<1>6. TypeOK'
  <2>1. doubled' \in BOOLEAN /\ died' \in BOOLEAN /\ raced' \in BOOLEAN
    BY <1>1, <1>5 DEF TypeOK
  <2> QED BY <1>1, <1>5, <2>1 DEF TypeOK
<1>7. IdeasKnown' /\ OverlaysKnown'
  BY <1>4, <1>5, IdeaStep DEF second
<1>8. StatusKept'
  <2>1. job'[a] = q /\ \A b \in Actors \ {a} : job'[b] = job[b]
    BY <1>1, <1>5, Moved
  <2>2. ~Generates(a) /\ ~Generates(a)' /\ ~Is(a, "v2", "loaded")'
    BY <1>1, <1>4, <2>1 DEF Generates, Is
  <2>3. (\E b \in Actors : Generates(b)) => \E b \in Actors : Generates(b)'
    BY <1>1, <1>5, <2>2, Moved
  <2>4. ASSUME ~doubled' PROVE ~doubled /\ LiveTasks = {} /\ LiveTasks' \subseteq {a}
    <3>1. ~doubled /\ LiveTasks = {}
      BY <1>5, <2>4
    <3>2. \A b \in Actors \ {a} : b \notin LiveTasks'
      BY <1>1, <1>5, <3>1, Moved
    <3> QED BY <3>1, <3>2 DEF LiveTasks
  <2>5. ASSUME ~doubled', NEW b \in Actors PROVE ~Is(b, "v2", "loaded")' /\ ~Generates(b)'
    BY <1>1, <1>5, <2>2, <2>4, <2>5, Moved, Live
  <2> QED BY <1>1, <1>5, <2>3, <2>4, <2>5 DEF StatusKept
<1>9. StampsSeen'
  BY <1>4, <1>5, SeenStep
<1> QED BY <1>6, <1>7, <1>8, <1>9 DEF PhaseInv

\* A task reads the row or its sources: the row is not written.
LEMMA TaskReads ==
  ASSUME PhaseInv, NEW a \in Actors, NEW q \in Job,
         job' = [job EXCEPT ![a] = q], UNCHANGED <<status, doubled, died>>,
         a \in LiveTasks, q.role = "v2", q.pc \in TaskPcs,
         (q.pc \in {"read", "running"}) <=> Generates(a),
         q.pc = "loaded" => q.view = status
  PROVE  StatusKept'
<1>1. TypeOK /\ StatusKept
  BY DEF PhaseInv
<1>2. job'[a] = q
  BY <1>1, Moved
<1>3. Generates(a)' <=> Generates(a)
  BY <1>2 DEF Generates
<1>4. Is(a, "v2", "loaded")' => job'[a].view = status
  BY <1>2 DEF Is
<1>5. LiveTasks' = LiveTasks
  <2>1. a \in LiveTasks'
    BY <1>2 DEF LiveTasks
  <2> QED BY <1>1, <2>1, Moved DEF LiveTasks
<1>6. \A b \in Actors : Generates(b)' <=> Generates(b)
  BY <1>1, <1>3, Moved
<1>7. \A b \in Actors : Is(b, "v2", "loaded")' =>
        (Is(b, "v2", "loaded") /\ job'[b] = job[b]) \/ job'[b].view = status
  BY <1>1, <1>4, Moved
<1> QED BY <1>1, <1>5, <1>6, <1>7 DEF StatusKept

LEMMA LoadRowStep ==
  ASSUME PhaseInv, NEW a \in Actors, LoadRow(a) PROVE PhaseInv'
<1> DEFINE n == [job[a] EXCEPT !.pc = "loaded", !.view = status, !.stamps = page["v2"]]
<1>1. TypeOK /\ job[a] \in Job /\ Is(a, "v2", "created") /\ status \in Status
      /\ page["v2"] \in Page
  BY FieldTypes DEF PhaseInv, LoadRow, Pages
<1>2. n \in Job
  BY <1>1 DEF Job
<1>3. PICK q \in Job : q = n
  BY <1>2
<1>4. /\ q.role = "v2" /\ q.pc = "loaded" /\ q.idea = job[a].idea
      /\ q.overlay = job[a].overlay /\ q.view = status /\ q.stamps = page["v2"]
  BY <1>1, <1>3 DEF Job, Is
<1>5. /\ job' = [job EXCEPT ![a] = q]
      /\ UNCHANGED <<idea, report, overlay, page, faults, raced, second>>
  BY <1>1, <1>3 DEF LoadRow, TypeOK
<1>6. TypeOK'
  BY <1>1, <1>5 DEF TypeOK, second
<1>7. IdeasKnown' /\ OverlaysKnown'
  BY <1>4, <1>5, IdeaStep DEF second
<1>8. StatusKept'
  <2>1. a \in LiveTasks /\ ~Generates(a)
    BY <1>1, Live DEF Generates, Is
  <2> QED BY <1>4, <1>5, <2>1, TaskReads DEF second, TaskPcs
<1>9. StampsSeen'
  BY <1>4, <1>5, SeenStep DEF second
<1> QED BY <1>6, <1>7, <1>8, <1>9 DEF PhaseInv

LEMMA ReadSourcesStep ==
  ASSUME PhaseInv, NEW a \in Actors, ReadSources(a) PROVE PhaseInv'
<1> DEFINE n == [job[a] EXCEPT !.pc = "running", !.idea = idea, !.overlay = overlay]
<1>1. TypeOK /\ job[a] \in Job /\ Is(a, "v2", "read") /\ idea \in Idea /\ overlay \in Nat
  BY FieldTypes DEF PhaseInv, ReadSources
<1>2. n \in Job
  BY <1>1 DEF Job
<1>3. PICK q \in Job : q = n
  BY <1>2
<1>4. q.role = "v2" /\ q.pc = "running" /\ q.idea = idea /\ q.overlay = overlay
      /\ q.stamps = job[a].stamps
  BY <1>1, <1>3 DEF Job, Is
<1>5. /\ job' = [job EXCEPT ![a] = q]
      /\ UNCHANGED <<idea, report, overlay, page, faults, raced, second>>
  BY <1>1, <1>3 DEF ReadSources, TypeOK
<1>6. TypeOK'
  BY <1>1, <1>5 DEF TypeOK, second
<1>7. IdeasKnown' /\ OverlaysKnown'
  BY <1>4, <1>5, IdeaStep DEF second
<1>8. StatusKept'
  <2>1. a \in LiveTasks /\ Generates(a)
    BY <1>1, Live DEF Generates, Is
  <2> QED BY <1>4, <1>5, <2>1, TaskReads DEF second, TaskPcs
<1>9. StampsSeen'
  BY <1>1, <1>4, <1>5, SeenStep DEF second, HoldsRow, Is
<1> QED BY <1>6, <1>7, <1>8, <1>9 DEF PhaseInv

LEMMA BeginV2Step ==
  ASSUME PhaseInv, NEW a \in Actors, BeginV2(a) PROVE PhaseInv'
<1> DEFINE n == [job[a] EXCEPT !.pc = "read", !.view = [is |-> "generating", error |-> FALSE]]
<1>1. TypeOK /\ StatusKept /\ job[a] \in Job /\ Is(a, "v2", "loaded") /\ status \in Status
      /\ job[a].view \in Status
  BY FieldTypes DEF PhaseInv, BeginV2
<1>2. n \in Job
  BY <1>1 DEF Job, Status
<1>3. PICK q \in Job : q = n
  BY <1>2
<1>4. q.role = "v2" /\ q.pc = "read" /\ q.idea = job[a].idea /\ q.overlay = job[a].overlay
      /\ q.stamps = job[a].stamps
  BY <1>1, <1>3 DEF Job, Is
<1>5. /\ job' = [job EXCEPT ![a] = q]
      /\ status' = [is |-> IF job[a].view.is = "generating" THEN status.is ELSE "generating",
                    error |-> ~job[a].view.error /\ status.error]
      /\ UNCHANGED <<idea, report, overlay, page, task, faults, raced, doubled, died>>
  BY <1>1, <1>3 DEF BeginV2, TypeOK
<1>6. TypeOK'
  <2>1. status' \in Status
    BY <1>1, <1>5 DEF Status
  <2>2. doubled' \in BOOLEAN /\ died' \in BOOLEAN /\ raced' \in BOOLEAN
    BY <1>1, <1>5 DEF TypeOK
  <2> QED BY <1>1, <1>5, <2>1, <2>2 DEF TypeOK
<1>7. IdeasKnown' /\ OverlaysKnown'
  BY <1>4, <1>5, IdeaStep DEF second
<1>8. StatusKept'
  <2>1. job'[a] = q /\ Generates(a)' /\ ~Is(a, "v2", "loaded")' /\ a \in LiveTasks /\ a \in LiveTasks'
    BY <1>1, <1>4, <1>5, Moved, Live DEF Generates, Is, LiveTasks, TaskPcs
  <2>2. LiveTasks' = LiveTasks
    BY <1>1, <1>5, <2>1, Moved DEF LiveTasks
  <2>3. ASSUME ~doubled PROVE status' = [is |-> "generating", error |-> FALSE]
    <3>1. job[a].view = status
      BY <1>1, <2>3 DEF StatusKept
    <3>2. status'.is = "generating"
      BY <1>5, <3>1
    <3>3. status'.error = FALSE
      BY <1>5, <3>1
    <3> QED BY <1>5, <3>2, <3>3
  <2>4. ASSUME ~doubled, NEW b \in Actors PROVE ~Is(b, "v2", "loaded")'
    <3>1. Is(b, "v2", "loaded")' => b \in LiveTasks'
      BY DEF Is, LiveTasks, TaskPcs
    <3> QED BY <1>1, <2>1, <2>2, <2>4, <3>1 DEF StatusKept
  <2>5. ~doubled => (status'.error <=> status'.is = "failed")
    BY <2>3
  <2> QED BY <1>1, <1>5, <2>1, <2>2, <2>3, <2>4, <2>5 DEF StatusKept
<1>9. StampsSeen'
  BY <1>1, <1>4, <1>5, SeenStep DEF HoldsRow, Is
<1> QED BY <1>6, <1>7, <1>8, <1>9 DEF PhaseInv

\* When a task ends and tasks have not doubled, none is left.
LEMMA TaskEnds ==
  ASSUME PhaseInv, NEW a \in LiveTasks, job' = End(a), doubled' = doubled
  PROVE  /\ ~Generates(a)' /\ a \notin LiveTasks'
         /\ \A b \in Actors \ {a} : Generates(b)' <=> Generates(b)
         /\ ~doubled => /\ LiveTasks' = {}
                        /\ \A b \in Actors : ~Generates(b)' /\ ~Is(b, "v2", "loaded")'
<1>1. TypeOK /\ StatusKept /\ a \in Actors
  BY DEF PhaseInv, LiveTasks
<1>2. PICK q \in Job : /\ End(a) = [job EXCEPT ![a] = q] /\ q.pc = "over"
                       /\ q.idea = Draft /\ q.overlay = 0 /\ q.role = job[a].role
  BY <1>1, Ended
<1>3. job'[a].pc = "over"
  BY <1>1, <1>2, Moved
<1>4. ~Generates(a)' /\ a \notin LiveTasks'
  BY <1>3 DEF Generates, LiveTasks, TaskPcs
<1>5. \A b \in Actors \ {a} : (Generates(b)' <=> Generates(b)) /\ (b \in LiveTasks' <=> b \in LiveTasks)
  BY <1>1, <1>2, Moved
<1>6. ASSUME ~doubled PROVE LiveTasks' = {}
  <2>1. \A b \in Actors : b \notin LiveTasks'
    BY <1>1, <1>4, <1>5, <1>6 DEF StatusKept
  <2> QED BY <2>1 DEF LiveTasks
<1>7. \A b \in Actors : Generates(b)' \/ Is(b, "v2", "loaded")' => b \in LiveTasks'
  BY DEF Generates, Is, LiveTasks, TaskPcs
<1> QED BY <1>4, <1>5, <1>6, <1>7

LEMMA FinishV2Step ==
  ASSUME PhaseInv, NEW a \in Actors, FinishV2(a) PROVE PhaseInv'
<1>1. TypeOK /\ StatusKept /\ Is(a, "v2", "running") /\ a \in LiveTasks /\ Generates(a)
  BY DEF PhaseInv, FinishV2, Is, LiveTasks, TaskPcs, Generates
<1>2. /\ page' = [page EXCEPT !["v2"] = StampedOver(a)] /\ job' = End(a)
      /\ status' = [status EXCEPT !.is = "ready"] /\ task' = Unregistered(a)
      /\ UNCHANGED <<idea, report, overlay, faults, raced, doubled, died>>
  BY DEF FinishV2
<1>3. PICK q \in Job : /\ End(a) = [job EXCEPT ![a] = q] /\ q.pc = "over"
                       /\ q.idea = Draft /\ q.overlay = 0 /\ q.role = job[a].role
  BY <1>1, Ended
<1>4. /\ page' \in [Pages -> Page] /\ overlay \in Nat /\ report \in Report
      /\ page'["v1"] = page["v1"] /\ page'["v2"] = StampedOver(a)
  BY <1>1, <1>2, StampedOverPage, FieldTypes DEF TypeOK, Pages
<1>5. status' \in Status /\ status'.is = "ready" /\ status'.error = status.error
  BY <1>1, <1>2, FieldTypes DEF Status
<1>6. TypeOK'
  <2>1. doubled' \in BOOLEAN /\ died' \in BOOLEAN /\ raced' \in BOOLEAN
    BY <1>1, <1>2 DEF TypeOK
  <2> QED BY <1>1, <1>2, <1>3, <1>4, <1>5, <2>1 DEF TypeOK, Unregistered
<1>7. IdeasKnown' /\ OverlaysKnown'
  <2>1. /\ job[a].overlay \in Nat /\ job[a].overlay <= overlay
        /\ page["v2"].overlay \in Nat /\ page["v2"].overlay <= overlay
    BY <1>1, FieldTypes DEF PhaseInv, OverlaysKnown, Pages
  <2>2. StampedOver(a).overlay \in Nat /\ StampedOver(a).overlay <= overlay
    BY <1>1, <2>1, StampedOverPage
  <2>3. OwnStamps("v2") => job[a].stamps = page["v2"]
    BY <1>1 DEF PhaseInv, StampsSeen, OwnStamps, HoldsRow, Is
  <2>4. OwnStamps("v2") => /\ StampedOver(a).text = job[a].idea.text
                          /\ StampedOver(a).version = job[a].idea.version
                          /\ StampedOver(a).base = StampedOver(a).overlay
    BY <1>1, <2>3, StampedOverPage
  <2>5. \A g \in Pages : g = "v1" \/ g = "v2"
    BY DEF Pages
  <2>6. overlay' >= overlay /\ overlay' \in Nat /\ report' \in Report /\ report' = report
    BY <1>2, <1>4
  <2> QED BY <1>1, <1>2, <1>4, <2>2, <2>4, <2>5, <2>6, OutcomeStep
<1>9. StampsSeen'
  <2>1. ~doubled' => \A b \in Actors : ~HoldsRow(b)'
    <3>1. \A b \in Actors : HoldsRow(b)' => b \in LiveTasks'
      BY DEF HoldsRow, LiveTasks, TaskPcs
    <3> QED BY <1>1, <1>2, <3>1, TaskEnds
  <2> QED BY <2>1 DEF StampsSeen
<1>8. StatusKept'
  <2>1. ~doubled => ~status.error
    BY <1>1 DEF StatusKept
  <2> QED BY <1>1, <1>2, <1>5, <2>1, TaskEnds DEF StatusKept
<1> QED BY <1>6, <1>7, <1>8, <1>9 DEF PhaseInv

LEMMA FailV2Step ==
  ASSUME PhaseInv, NEW a \in Actors, FailV2(a) PROVE PhaseInv'
<1>1. TypeOK /\ StatusKept /\ a \in LiveTasks
  BY DEF PhaseInv, FailV2, LiveTasks, TaskPcs
<1>2. /\ job' = End(a) /\ task' = Unregistered(a)
      /\ faults' = faults + 1 /\ faults < MaxFaults
      /\ \/ status' = [is |-> "failed", error |-> TRUE] /\ died' = died
         \/ died' = TRUE /\ status' = status
      /\ UNCHANGED <<idea, report, overlay, page, raced, doubled>>
  BY DEF FailV2, Fault
<1>3. PICK q \in Job : /\ End(a) = [job EXCEPT ![a] = q] /\ q.pc = "over"
                       /\ q.idea = Draft /\ q.overlay = 0 /\ q.role = job[a].role
  BY <1>1, Ended
<1>4. TypeOK'
  <2>1. doubled' \in BOOLEAN /\ died' \in BOOLEAN /\ raced' \in BOOLEAN
    BY <1>1, <1>2 DEF TypeOK
  <2>2. faults' \in 0..MaxFaults
    BY <1>1, <1>2, VersionBounds DEF TypeOK
  <2>3. status' \in Status
    <3>1. [is |-> "failed", error |-> TRUE] \in Status
      BY DEF Status
    <3>2. status \in Status
      BY <1>1, FieldTypes
    <3> QED BY <1>2, <3>1, <3>2
  <2> QED BY <1>1, <1>2, <1>3, <2>1, <2>2, <2>3 DEF TypeOK, Unregistered
<1>5. IdeasKnown' /\ OverlaysKnown'
  <2>1. job' = [job EXCEPT ![a] = q]
    BY <1>2, <1>3
  <2> QED BY <1>1, <1>2, <1>3, <2>1, IdeaStep
<1>6. StatusKept'
  <2>1. CASE status' = [is |-> "failed", error |-> TRUE] /\ died' = died
    <3>1. status'.is = "failed" /\ status'.error
      BY <2>1
    <3> QED BY <1>1, <1>2, <3>1, TaskEnds DEF StatusKept
  <2>2. CASE died' = TRUE /\ status' = status
    BY <1>1, <1>2, <2>2, TaskEnds DEF StatusKept
  <2> QED BY <1>2, <2>1, <2>2
<1>7. StampsSeen'
  BY <1>2, <1>3, SeenStep
<1> QED BY <1>4, <1>5, <1>6, <1>7 DEF PhaseInv

LEMMA RollbackStep ==
  ASSUME PhaseInv, NEW a \in Actors, Rollback(a) PROVE PhaseInv'
<1>1. TypeOK /\ StatusKept
  BY DEF PhaseInv
<1>2. /\ job' = End(a) /\ task' = Unregistered(a)
      /\ faults' = faults + 1 /\ faults < MaxFaults
      /\ UNCHANGED <<idea, report, overlay, page, status, raced, doubled, died>>
      /\ job[a].role = "v2" => job[a].pc \in {"checked", "created", "loaded"}
  BY DEF Rollback, Fault
<1>3. PICK q \in Job : /\ End(a) = [job EXCEPT ![a] = q] /\ q.pc = "over"
                       /\ q.idea = Draft /\ q.overlay = 0 /\ q.role = job[a].role
  BY <1>1, Ended
<1>4. TypeOK'
  <2>1. doubled' \in BOOLEAN /\ died' \in BOOLEAN /\ raced' \in BOOLEAN
    BY <1>1, <1>2 DEF TypeOK
  <2>2. faults' \in 0..MaxFaults
    BY <1>1, <1>2, VersionBounds DEF TypeOK
  <2> QED BY <1>1, <1>2, <1>3, <2>1, <2>2 DEF TypeOK, Unregistered
<1>5. job' = [job EXCEPT ![a] = q]
  BY <1>2, <1>3
<1>6. IdeasKnown' /\ OverlaysKnown'
  BY <1>1, <1>2, <1>3, <1>5, IdeaStep
<1>7. StatusKept'
  <2>1. CASE a \notin LiveTasks
    BY <1>2, <1>3, <1>5, <2>1, OtherStep DEF LiveTasks, TaskPcs
  <2>2. CASE a \in LiveTasks
    <3>1. ~Generates(a)
      BY <1>2 DEF Generates
    <3> QED BY <1>1, <1>2, <2>2, <3>1, TaskEnds DEF StatusKept
  <2> QED BY <2>1, <2>2
<1>8. StampsSeen'
  BY <1>2, <1>3, <1>5, SeenStep
<1> QED BY <1>4, <1>6, <1>7, <1>8 DEF PhaseInv

LEMMA CrashStep == ASSUME PhaseInv, Crash PROVE PhaseInv'
<1>1. TypeOK /\ IdeasKnown /\ OverlaysKnown /\ StatusKept
  BY DEF PhaseInv
<1>2. /\ job' = [a \in Actors |-> IF job[a].pc = "idle" THEN NoJob ELSE End(a)[a]]
      /\ died' = (died \/ LiveTasks # {}) /\ task' = NoText
      /\ faults' = faults + 1 /\ faults < MaxFaults
      /\ UNCHANGED <<idea, report, overlay, page, status, raced, doubled>>
  BY DEF Crash, Fault
<1>3. ASSUME NEW a \in Actors
      PROVE  /\ job'[a] \in Job /\ job'[a].pc \in {"idle", "over"}
             /\ job'[a].idea = Draft /\ job'[a].overlay = 0
  <2>1. CASE job[a].pc = "idle"
    BY <1>2, <2>1, DefaultTypes DEF NoJob
  <2>2. CASE job[a].pc # "idle"
    <3>1. PICK q \in Job : /\ End(a) = [job EXCEPT ![a] = q] /\ q.pc = "over"
                           /\ q.idea = Draft /\ q.overlay = 0 /\ q.role = job[a].role
      BY <1>1, Ended
    <3> QED BY <1>1, <1>2, <2>2, <3>1 DEF TypeOK
  <2> QED BY <2>1, <2>2
<1>4. TypeOK'
  <2>1. doubled' \in BOOLEAN /\ died' \in BOOLEAN /\ raced' \in BOOLEAN
    BY <1>1, <1>2 DEF TypeOK
  <2>2. faults' \in 0..MaxFaults /\ job' \in [Actors -> Job]
    BY <1>1, <1>2, <1>3, VersionBounds DEF TypeOK
  <2> QED BY <1>1, <1>2, <2>1, <2>2 DEF TypeOK
<1>5. IdeasKnown'
  <2>1. \A a \in Actors : ~Is(a, "finalize", "read")'
    BY <1>3 DEF Is
  <2>2. \A a \in Actors : Known(job[a].idea.text, job[a].idea.version)'
    BY <1>1, <1>2, <1>3, DefaultTypes, FieldTypes DEF Known, IdeasKnown
  <2> QED BY <1>1, <1>2, <2>1, <2>2 DEF IdeasKnown, Known, OwnStamps
<1>6. OverlaysKnown'
  BY <1>1, <1>2, <1>3, FieldTypes DEF OverlaysKnown, OwnStamps
<1>7. StatusKept'
  <2>1. \A a \in Actors : ~Generates(a)' /\ ~Is(a, "v2", "loaded")' /\ a \notin LiveTasks'
    BY <1>3 DEF Generates, Is, LiveTasks, TaskPcs
  <2>2. LiveTasks' = {}
    BY <2>1 DEF LiveTasks
  <2>3. ~died' => status.is # "generating"
    BY <1>1, <1>2, Live DEF StatusKept
  <2> QED BY <1>1, <1>2, <2>1, <2>2, <2>3 DEF StatusKept
<1>8. StampsSeen'
  BY <1>3 DEF StampsSeen, HoldsRow
<1> QED BY <1>4, <1>5, <1>6, <1>7, <1>8 DEF PhaseInv

LEMMA PhaseInductive == ASSUME PhaseInv, [Next]_vars PROVE PhaseInv'
<1>1. ASSUME NEW a \in Actors,
             \/ ReadForFinalize(a) \/ Finalize(a) \/ ResetRefinement(a)
             \/ StartResearch(a) \/ FinishResearch(a) \/ EditOverlay(a)
             \/ ReadReport(a) \/ ReadIdea(a) \/ SavePage(a)
      PROVE  PhaseInv'
  BY <1>1, ReadForFinalizeStep, FinalizeStep, ResetRefinementStep, StartResearchStep,
     FinishResearchStep, EditOverlayStep, ReadReportStep, ReadIdeaStep, SavePageStep
<1>2. ASSUME NEW a \in Actors,
             \/ CheckStatus(a) \/ Dispatch(a) \/ AlreadyGenerating(a)
             \/ LoadRow(a) \/ BeginV2(a) \/ ReadSources(a) \/ FinishV2(a)
             \/ FailV2(a) \/ Rollback(a)
      PROVE  PhaseInv'
  BY <1>2, CheckStatusStep, DispatchStep, AlreadyGeneratingStep, LoadRowStep, BeginV2Step,
     ReadSourcesStep, FinishV2Step, FailV2Step, RollbackStep
<1>3. CASE Crash
  BY <1>3, CrashStep
<1>4. CASE UNCHANGED vars
  BY <1>4 DEF vars, PhaseInv, TypeOK, IdeasKnown, Known, Is, OverlaysKnown, StatusKept,
              Generates, LiveTasks, OwnStamps, StampsSeen, HoldsRow
<1> QED BY <1>1, <1>2, <1>3, <1>4 DEF Next

THEOREM InvariantHolds == Spec => []PhaseInv
<1> QED BY Initially, PhaseInductive, PTL DEF Spec

\* Rows, stamps and jobs keep their types for any number of actors and faults.
THEOREM TypeCorrect == Spec => []TypeOK
<1>1. PhaseInv => TypeOK
  BY DEF PhaseInv
<1> QED BY <1>1, InvariantHolds, PTL

\* What is not called stale is current, whatever overlaps a generation: for the page of
\* the second generator, as long as no two of its tasks lived at once.
THEOREM FreshnessIsTrue == Spec => []FreshIsCurrent
<1>1. PhaseInv => FreshIsCurrent
  <2> SUFFICES ASSUME PhaseInv, ~raced, idea.text # NoText
               PROVE  /\ report.exists /\ ~EvidenceIsStale => report.text = idea.text
                      /\ ~LaunchIsStale => \A g \in Pages : page[g].exists /\ OwnStamps(g) =>
                           page[g].text = idea.text /\ page[g].base = overlay
    BY DEF FreshIsCurrent
  <2>1. TypeOK /\ IdeasKnown /\ OverlaysKnown
    BY DEF PhaseInv
  <2>2. report.exists /\ ~EvidenceIsStale => report.text = idea.text
    BY <2>1, FieldTypes DEF IdeasKnown, Known, EvidenceIsStale, Behind
  <2>3. ASSUME ~LaunchIsStale, NEW g \in Pages, page[g].exists, OwnStamps(g)
        PROVE  page[g].text = idea.text /\ page[g].base = overlay
    <3>1. ~Behind(page[g].version, idea.version) /\ ~Behind(page[g].overlay, overlay)
      BY <2>3 DEF LaunchIsStale
    <3>2. page[g].text = idea.text
      BY <2>1, <2>3, <3>1, FieldTypes DEF IdeasKnown, Known, Behind
    <3>3. page[g].base = overlay
      BY <2>1, <2>3, <3>1, FieldTypes DEF OverlaysKnown, Behind
    <3> QED BY <3>2, <3>3
  <2> QED BY <2>2, <2>3
<1> QED BY <1>1, InvariantHolds, PTL

\* The status row of the second generator is not left at generating.
THEOREM GeneratorSettles == Spec => []V2Settles
<1>1. PhaseInv => V2Settles
  <2> SUFFICES ASSUME PhaseInv PROVE V2Settles
    OBVIOUS
  <2>1. StatusKept /\ \A a \in Actors : Generates(a) => a \in LiveTasks
    BY Live DEF PhaseInv
  <2>2. LiveTasks = {} /\ ~died => status.is # "generating"
    BY <2>1 DEF StatusKept
  <2>3. ~doubled /\ ~died => (status.error <=> status.is = "failed")
    BY <2>1 DEF StatusKept
  <2> QED BY <2>2, <2>3 DEF V2Settles
<1> QED BY <1>1, InvariantHolds, PTL

\* Versions only grow, unless two finalizes race.
LEMMA VersionsGrow ==
  ASSUME PhaseInv, [Next]_vars
  PROVE  overlay' >= overlay /\ (~raced' => idea'.version >= idea.version)
<1>1. TypeOK /\ overlay \in Nat /\ idea \in Idea /\ idea.version \in Nat
  BY FieldTypes DEF PhaseInv
<1>2. ASSUME NEW a \in Actors, Finalize(a) PROVE ~raced' => idea'.version = idea.version + 1
  <2>1. Is(a, "finalize", "read") /\ idea'.version = job[a].idea.version + 1 /\ (~raced' => ~raced)
    BY <1>2 DEF Finalize
  <2> QED BY <2>1 DEF PhaseInv, IdeasKnown
<1>3. ASSUME NEW a \in Actors, Finalize(a) PROVE overlay' = overlay
  BY <1>3 DEF Finalize
<1>4. ASSUME NEW a \in Actors, ResetRefinement(a)
      PROVE  idea'.version = idea.version /\ overlay' = overlay
  BY <1>1, <1>4 DEF ResetRefinement, Idea
<1>5. ASSUME NEW a \in Actors, EditOverlay(a) PROVE idea' = idea /\ overlay' = overlay + 1
  BY <1>5 DEF EditOverlay
<1>6. ASSUME NEW a \in Actors,
             \/ ReadForFinalize(a) \/ StartResearch(a) \/ FinishResearch(a)
             \/ ReadReport(a) \/ ReadIdea(a) \/ SavePage(a) \/ CheckStatus(a) \/ Dispatch(a)
             \/ AlreadyGenerating(a) \/ LoadRow(a) \/ BeginV2(a) \/ ReadSources(a)
             \/ FinishV2(a) \/ FailV2(a) \/ Rollback(a)
      PROVE  idea' = idea /\ overlay' = overlay
  BY <1>6 DEF ReadForFinalize, StartResearch, FinishResearch, ReadReport, ReadIdea, SavePage,
              CheckStatus, Dispatch, AlreadyGenerating, LoadRow, BeginV2, ReadSources,
              FinishV2, FailV2, Rollback
<1>7. CASE Crash \/ UNCHANGED vars
  BY <1>1, <1>7 DEF Crash, vars
<1> QED BY <1>1, <1>2, <1>3, <1>4, <1>5, <1>6, <1>7 DEF Next

\* A launch phase that is called stale stays stale until a page is written, for any
\* interleaving in which finalizes do not race.
THEOREM StalenessPersists == Spec => StaleStays
<1>1. ASSUME PhaseInv, [Next]_vars PROVE [LaunchIsStale /\ page' = page /\ ~raced' => LaunchIsStale']_vars
  <2> SUFFICES ASSUME LaunchIsStale, page' = page, ~raced' PROVE LaunchIsStale'
    OBVIOUS
  <2>1. PICK g \in Pages : page[g].exists /\
          (Behind(page[g].version, idea.version) \/ Behind(page[g].overlay, overlay))
    BY DEF LaunchIsStale
  <2>2. /\ idea.version \in Nat /\ overlay \in Nat
        /\ page[g].version \in Nat /\ page[g].overlay \in Nat
    BY <1>1, FieldTypes DEF PhaseInv
  <2>3. idea'.version \in Nat /\ overlay' \in Nat
    BY <1>1, PhaseInductive DEF PhaseInv, TypeOK, Idea
  <2>4. overlay' >= overlay /\ idea'.version >= idea.version
    BY <1>1, VersionsGrow
  <2>5. Behind(page[g].version, idea'.version) \/ Behind(page[g].overlay, overlay')
    BY <2>1, <2>2, <2>3, <2>4 DEF Behind
  <2> QED BY <2>1, <2>5 DEF LaunchIsStale
<1>2. PhaseInv /\ [Next]_vars => [LaunchIsStale /\ page' = page /\ ~raced' => LaunchIsStale']_vars
  BY <1>1
<1> QED BY <1>2, InvariantHolds, PTL DEF Spec, StaleStays

-----------------------------------------------------------------------------
(***************************************************************************)
(* The founder's own edits of the report, the kit and the decision, for    *)
(* any requests, parts and documents.                                      *)
(***************************************************************************)
LEMMA EditDefaults ==
  RawText \in DocText /\ NewDoc \in Doc /\ NoKit \in Doc /\ NoRequest \in Request
<1>1. RawText \in DocText
  BY DEF RawText, DocText
<1>2. NewDoc \in Doc /\ NoKit \in Doc
  BY <1>1 DEF NewDoc, NoKit, Doc
<1> QED BY <1>1, <1>2 DEF NoRequest, Request, Kinds, Docs

\* What a well-typed request and document are made of.
LEMMA EditFields ==
  ASSUME EditTypeOK, NEW r \in Requests
  PROVE  /\ req[r] \in Request /\ req[r].of \in Docs /\ req[r].read \in Doc
         /\ req[r].base \in Nat /\ req[r].seen \in DocText /\ req[r].read.version \in Nat
         /\ req[r].read.text \in DocText /\ req[r].parts \subseteq Parts
         /\ \A d \in Docs : doc[d] \in Doc /\ doc[d].version \in Nat /\ doc[d].text \in DocText
<1>1. req[r] \in Request /\ \A d \in Docs : doc[d] \in Doc
  BY DEF EditTypeOK
<1> QED BY <1>1 DEF Request, Doc

\* A step of r that leaves the documents alone.
LEMMA EditRests ==
  ASSUME EditInv, NEW r \in Requests, NEW q \in Request,
         req' = [req EXCEPT ![r] = q],
         UNCHANGED <<doc, edits, overtaken, rendered, blind>>,
         lock' \in Requests \cup {NoReq},
         \A s \in Requests \ {r} : lock = s => lock' = s,
         Standing(q, r)'
  PROVE  EditInv'
<1>1. EditTypeOK'
  BY DEF EditInv, EditTypeOK
<1>2. EditsCounted' /\ AcceptedAsSeen'
  BY DEF EditInv, EditsCounted, AcceptedAsSeen
<1>3. ASSUME NEW s \in Requests PROVE Standing(req[s], s)'
  <2>1. CASE s = r
    BY <2>1 DEF EditInv, EditTypeOK
  <2>2. CASE s # r
    <3>1. req'[s] = req[s] /\ Standing(req[s], s) /\ (lock = s => lock' = s)
      BY <2>2 DEF EditInv, EditTypeOK
    <3> QED BY <3>1 DEF Standing
  <2> QED BY <2>1, <2>2
<1> QED BY <1>1, <1>2, <1>3 DEF EditInv

LEMMA EditsBegin == EditInit => EditInv
<1> SUFFICES ASSUME EditInit PROVE EditInv
  OBVIOUS
<1>1. EditTypeOK
  BY EditDefaults DEF EditInit, EditTypeOK, Docs
<1>2. EditsCounted /\ AcceptedAsSeen
  BY DEF EditInit, EditsCounted, AcceptedAsSeen, NewDoc, NoKit
<1>3. ASSUME NEW r \in Requests PROVE Standing(req[r], r)
  BY DEF EditInit, Standing, NoRequest
<1> QED BY <1>1, <1>2, <1>3 DEF EditInv

LEMMA EditLoads ==
  ASSUME EditInv, NEW r \in Requests, NEW d \in Docs, NEW parts \in SUBSET Parts,
         Load(r, d, parts)
  PROVE  EditInv'
<1> DEFINE loaded == [NoRequest EXCEPT !.pc = "loaded", !.of = d, !.parts = parts,
                                       !.base = doc[d].version, !.seen = doc[d].text]
<1>1. EditTypeOK /\ doc[d].version \in Nat /\ doc[d].text \in DocText
  BY EditFields DEF EditInv
<1>2. loaded \in Request
  BY <1>1, EditDefaults DEF NoRequest, Request
<1>3. PICK q \in Request : q = loaded
  BY <1>2
<1>4. req' = [req EXCEPT ![r] = q] /\ UNCHANGED <<doc, lock, edits, overtaken, rendered, blind>>
  BY <1>3 DEF Load
<1>5. /\ q.pc = "loaded" /\ q.kind = "patch" /\ q.of = d
      /\ q.base = doc[d].version /\ q.seen = doc[d].text
  BY <1>3 DEF NoRequest
<1>6. Standing(q, r)'
  BY <1>1, <1>4, <1>5 DEF Standing
<1> QED BY <1>1, <1>4, <1>6, EditRests DEF EditInv, EditTypeOK

LEMMA EditReads ==
  ASSUME EditInv, NEW r \in Requests, ReadRow(r)
  PROVE  EditInv'
<1> DEFINE d == req[r].of
           writing == [req[r] EXCEPT !.pc = "writing", !.read = doc[d]]
<1>1. /\ EditTypeOK /\ req[r] \in Request /\ d \in Docs /\ doc[d] \in Doc
      /\ doc[d].version \in Nat /\ req[r].base \in Nat
  BY EditFields DEF EditInv
<1>2. writing \in Request
  BY <1>1 DEF Request
<1>3. PICK q \in Request : q = writing
  BY <1>2
<1>4. req' = [req EXCEPT ![r] = q] /\ UNCHANGED <<doc, edits, overtaken, rendered, blind>>
  BY <1>3 DEF ReadRow, EditTypeOK
<1>5. /\ lock' \in Requests \cup {NoReq} /\ (d = "decision" => lock' = r)
      /\ \A s \in Requests \ {r} : lock = s => lock' = s
  BY <1>1, EditBounds DEF ReadRow, EditTypeOK, Locks
<1>6. /\ q.pc = "writing" /\ q.kind = req[r].kind /\ q.of = d /\ q.base = req[r].base
      /\ q.seen = req[r].seen /\ q.read = doc[d]
  BY <1>1, <1>3 DEF Request
<1>7. req[r].pc = "loaded" /\ req[r].base = doc[d].version /\ Standing(req[r], r)
  BY DEF ReadRow, EditInv
<1>8. Standing(q, r)'
  BY <1>1, <1>4, <1>5, <1>6, <1>7 DEF Standing
<1> QED BY <1>4, <1>5, <1>8, EditRests

LEMMA EditConflicts ==
  ASSUME EditInv, NEW r \in Requests, Conflict(r)
  PROVE  EditInv'
<1>1. req' = [req EXCEPT ![r] = NoRequest] /\ UNCHANGED <<doc, lock, edits, overtaken, rendered, blind>>
  BY DEF Conflict
<1>2. NoRequest \in Request /\ Standing(NoRequest, r)'
  BY EditDefaults DEF Standing, NoRequest
<1> QED BY <1>1, <1>2, EditRests DEF EditInv, EditTypeOK

\* A rewrite or a generation begins: it has read the kit.
LEMMA KitBegins ==
  ASSUME EditInv, NEW r \in Requests, NEW k \in {"variant", "generate"},
         NEW parts \in SUBSET Parts,
         req' = [req EXCEPT ![r] = [NoRequest EXCEPT
           !.pc = "writing", !.kind = k, !.of = "kit", !.parts = parts, !.read = doc["kit"]]],
         UNCHANGED <<doc, lock, edits, overtaken, rendered, blind>>
  PROVE  EditInv'
<1> DEFINE writing == [NoRequest EXCEPT
      !.pc = "writing", !.kind = k, !.of = "kit", !.parts = parts, !.read = doc["kit"]]
<1>1. EditTypeOK /\ "kit" \in Docs /\ doc["kit"] \in Doc
  BY EditFields DEF EditInv, Docs
<1>2. writing \in Request
  BY <1>1, EditDefaults DEF NoRequest, Request, Kinds
<1>3. PICK q \in Request : q = writing
  BY <1>2
<1>4. q.pc = "writing" /\ q.kind = k /\ q.of = "kit" /\ q.read = doc["kit"]
  BY <1>3 DEF NoRequest
<1>5. Standing(q, r)'
  BY <1>4 DEF Standing
<1> QED BY <1>1, <1>3, <1>5, EditRests DEF EditTypeOK

LEMMA EditRollsBack ==
  ASSUME EditInv, NEW r \in Requests, RollbackEdit(r)
  PROVE  EditInv'
<1>1. PICK q : q = [NoRequest EXCEPT !.pc = "over"]
  OBVIOUS
<1>2. q \in Request /\ Standing(q, r)'
  BY <1>1, EditDefaults DEF NoRequest, Request, Standing
<1>3. req' = [req EXCEPT ![r] = q] /\ UNCHANGED <<doc, edits, overtaken, rendered, blind>>
  BY <1>1 DEF RollbackEdit, EndEdit
<1>4. lock' \in Requests \cup {NoReq} /\ \A s \in Requests \ {r} : lock = s => lock' = s
  BY DEF RollbackEdit, Unlocked, EditInv, EditTypeOK
<1> QED BY <1>2, <1>3, <1>4, EditRests


\* What a commit does to the types.
LEMMA EditCommitTypes ==
  ASSUME EditInv, NEW r \in Requests, CommitEdit(r)
  PROVE  EditTypeOK'
<1> DEFINE d == req[r].of
<1>1. /\ EditTypeOK /\ d \in Docs /\ req[r].read.version \in Nat /\ req[r].read.text \in DocText
  BY EditFields DEF EditInv
<1>2. Written(r) \in Doc
  <2>1. [p \in Parts |-> IF p \in req[r].parts THEN r ELSE req[r].read.text[p]] \in DocText
    BY <1>1 DEF DocText
  <2> QED BY <1>1, <2>1 DEF Written, Doc
<1>3. doc' \in [Docs -> Doc] /\ edits' \in [Docs -> Nat]
  BY <1>1, <1>2 DEF CommitEdit, EditTypeOK
<1>4. req' \in [Requests -> Request] /\ lock' \in Requests \cup {NoReq}
  BY <1>1, EditDefaults DEF CommitEdit, EditTypeOK, EndEdit, Unlocked, NoRequest, Request
<1>5. overtaken' \subseteq Docs /\ blind' \subseteq Docs /\ rendered' \in BOOLEAN
  BY <1>1 DEF CommitEdit, EditTypeOK, Overtakes
<1> QED BY <1>3, <1>4, <1>5 DEF EditTypeOK

\* While nothing raced, the committed version is the one that was read plus one.
LEMMA EditCommitCounts ==
  ASSUME EditInv, NEW r \in Requests, CommitEdit(r)
  PROVE  /\ "decision" \notin overtaken'
         /\ \A d \in Docs \ overtaken' : doc'[d].version = edits'[d]
         /\ req[r].of \notin overtaken => doc'[req[r].of].version = doc[req[r].of].version + 1
         /\ overtaken \subseteq overtaken'
<1> DEFINE d == req[r].of
<1>1. /\ EditTypeOK /\ EditsCounted /\ d \in Docs /\ Standing(req[r], r)
      /\ req[r].pc = "writing"
  BY EditFields DEF EditInv, CommitEdit
<1>2. doc' = [doc EXCEPT ![d] = Written(r)] /\ edits' = [edits EXCEPT ![d] = edits[d] + 1]
      /\ Overtakes(r, d)
  BY DEF CommitEdit
<1>3. overtaken \subseteq overtaken' /\ overtaken' \subseteq overtaken \cup {d}
  BY <1>2 DEF Overtakes
<1>4. d \notin overtaken => doc'[d].version = doc[d].version + 1
  BY <1>1, <1>2 DEF Standing, Written, EditTypeOK
<1>5. "decision" \notin overtaken'
  <2>1. CASE d # "decision"
    BY <1>1, <1>3, <2>1 DEF EditsCounted
  <2>2. CASE d = "decision"
    <3>1. lock = r
      BY <1>1, <2>2 DEF Standing
    <3>2. ASSUME NEW q \in Requests \ {r} PROVE ~Writing(q, d)
      BY <2>2, <3>1 DEF EditInv, Standing, Writing
    <3> QED BY <1>1, <1>2, <3>2 DEF Overtakes, EditsCounted
  <2> QED BY <2>1, <2>2
<1>6. ASSUME NEW e \in Docs \ overtaken' PROVE doc'[e].version = edits'[e]
  <2>1. doc[e].version = edits[e] /\ e \notin overtaken
    BY <1>1, <1>3 DEF EditsCounted
  <2> QED BY <1>1, <1>2, <1>4, <2>1 DEF EditTypeOK
<1> QED BY <1>3, <1>4, <1>5, <1>6

LEMMA EditCommits ==
  ASSUME EditInv, NEW r \in Requests, CommitEdit(r)
  PROVE  EditInv'
<1> DEFINE d == req[r].of
<1>1. /\ EditTypeOK /\ EditTypeOK' /\ d \in Docs /\ Standing(req[r], r)
      /\ req[r].pc = "writing"
  BY EditFields, EditCommitTypes DEF EditInv, CommitEdit
<1>2. /\ doc' = [doc EXCEPT ![d] = Written(r)] /\ req' = EndEdit(r)
      /\ Overtakes(r, d) /\ Unlocked(r) /\ rendered' = rendered
  BY DEF CommitEdit
<1>3. EditsCounted'
  BY EditCommitCounts DEF EditsCounted
<1>4. AcceptedAsSeen'
  <2>1. overtaken \subseteq overtaken' /\ AcceptedAsSeen
    BY EditCommitCounts DEF EditInv
  <2>2. CASE blind' = blind
    BY <1>2, <2>1, <2>2 DEF AcceptedAsSeen
  <2>3. CASE blind' # blind
    <3>1. blind' = blind \cup {d} /\ req[r].kind = "patch" /\ req[r].seen # doc[d].text
      BY <2>3 DEF CommitEdit
    <3>2. d \in overtaken \/ (d = "report" /\ rendered)
      BY <1>1, <3>1 DEF Standing
    <3>3. "decision" \notin overtaken
      BY DEF EditInv, EditsCounted
    <3> QED BY <1>2, <2>1, <3>1, <3>2, <3>3 DEF AcceptedAsSeen
  <2> QED BY <2>2, <2>3
<1>5. ASSUME NEW s \in Requests PROVE Standing(req[s], s)'
  <2>1. CASE s = r
    <3>1. req'[s].pc = "over"
      BY <1>1, <1>2, <2>1 DEF EndEdit, EditTypeOK, NoRequest
    <3> QED BY <3>1 DEF Standing
  <2>2. CASE s # r
    <3>1. req'[s] = req[s] /\ Standing(req[s], s) /\ req[s].of \in Docs /\ req[s].base \in Nat
      BY <1>1, <1>2, <2>2, EditFields DEF EditInv, EditTypeOK, EndEdit
    <3>2. lock = s => lock' = s
      BY <1>2, <2>2 DEF Unlocked
    <3>3. req[s].of # d => doc'[req[s].of] = doc[req[s].of]
      BY <1>1, <1>2, <3>1 DEF EditTypeOK
    <3>4. req[s].of = d /\ req[s].pc = "writing" => d \in overtaken'
      BY <1>2, <2>2 DEF Overtakes, Writing
    <3>5. doc[d].version \in Nat /\ (d \notin overtaken => doc'[d].version = doc[d].version + 1)
          /\ overtaken \subseteq overtaken'
      BY <1>1, EditCommitCounts, EditFields
    <3>6. CASE req[s].of # d
      BY <1>2, <3>1, <3>2, <3>3, <3>5, <3>6 DEF Standing
    <3>7. CASE req[s].of = d
      BY <1>2, <3>1, <3>2, <3>4, <3>5, <3>7 DEF Standing
    <3> QED BY <3>6, <3>7
  <2> QED BY <2>1, <2>2
<1> QED BY <1>1, <1>3, <1>4, <1>5 DEF EditInv

LEMMA ReportWritten ==
  ASSUME EditInv, NEW r \in Requests, WriteReport(r)
  PROVE  EditInv'
<1> DEFINE new == [doc EXCEPT !["report"].text = [p \in Parts |-> r]]
<1>1. /\ EditTypeOK /\ "report" \in Docs /\ req' = EndEdit(r)
      /\ UNCHANGED <<lock, edits, overtaken, blind>>
      /\ doc' = doc \/ doc' = new
      /\ rendered' = (rendered \/ \E q \in Requests :
                        req[q].pc \in {"loaded", "writing"} /\ req[q].of = "report")
  BY DEF EditInv, WriteReport, Docs
<1>2. /\ \A d \in Docs : doc'[d].version = doc[d].version
      /\ \A d \in Docs \ {"report"} : doc'[d] = doc[d]
      /\ doc' \in [Docs -> Doc]
  <2>1. [p \in Parts |-> r] \in DocText
    BY DEF DocText
  <2>2. CASE doc' = new
    BY <1>1, <2>1, <2>2 DEF EditTypeOK, Doc
  <2> QED BY <1>1, <2>2 DEF EditTypeOK
<1>3. EditTypeOK'
  BY <1>1, <1>2, EditDefaults DEF EditTypeOK, EndEdit, NoRequest, Request
<1>4. EditsCounted' /\ AcceptedAsSeen'
  BY <1>1, <1>2 DEF EditInv, EditsCounted, AcceptedAsSeen
<1>5. ASSUME NEW s \in Requests PROVE Standing(req[s], s)'
  <2>1. CASE s = r
    <3>1. req'[s].pc = "over"
      BY <1>1, <2>1 DEF EndEdit, EditTypeOK, NoRequest
    <3> QED BY <3>1 DEF Standing
  <2>2. CASE s # r
    <3>1. req'[s] = req[s] /\ Standing(req[s], s) /\ req[s].of \in Docs
      BY <1>1, <2>2, EditFields DEF EditInv, EditTypeOK, EndEdit
    <3>2. CASE req[s].of = "report" /\ req[s].pc \in {"loaded", "writing"}
      <4>1. rendered'
        BY <1>1, <3>2
      <4> QED BY <1>1, <1>2, <3>1, <3>2, <4>1 DEF Standing
    <3>3. CASE ~(req[s].of = "report" /\ req[s].pc \in {"loaded", "writing"})
      BY <1>1, <1>2, <3>1, <3>3 DEF Standing
    <3> QED BY <3>2, <3>3
  <2> QED BY <2>1, <2>2
<1> QED BY <1>3, <1>4, <1>5 DEF EditInv

LEMMA EditsStep ==
  ASSUME EditInv, [EditNext]_editVars
  PROVE  EditInv'
<1>1. ASSUME NEW r \in Requests, NEW d \in Docs, NEW parts \in SUBSET Parts, Load(r, d, parts)
      PROVE  EditInv'
  BY <1>1, EditLoads
<1>2. ASSUME NEW r \in Requests, NEW p \in Parts, ReadForVariant(r, p) PROVE EditInv'
  <2>1. {p} \in SUBSET Parts /\ "variant" \in {"variant", "generate"}
    OBVIOUS
  <2>2. /\ req' = [req EXCEPT ![r] = [NoRequest EXCEPT !.pc = "writing",
             !.kind = "variant", !.of = "kit", !.parts = {p}, !.read = doc["kit"]]]
        /\ UNCHANGED <<doc, lock, edits, overtaken, rendered, blind>>
    BY <1>2 DEF ReadForVariant
  <2> QED BY <2>1, <2>2, KitBegins
<1>3. ASSUME NEW r \in Requests, ReadForKit(r) PROVE EditInv'
  BY <1>3, KitBegins DEF ReadForKit
<1>4. ASSUME NEW r \in Requests,
             ReadRow(r) \/ Conflict(r) \/ CommitEdit(r) \/ RollbackEdit(r) \/ WriteReport(r)
      PROVE  EditInv'
  BY <1>4, EditReads, EditConflicts, EditCommits, EditRollsBack, ReportWritten
<1>5. CASE UNCHANGED editVars
  BY <1>5 DEF editVars, EditInv, EditTypeOK, EditsCounted, AcceptedAsSeen, Standing
<1> QED BY <1>1, <1>2, <1>3, <1>4, <1>5 DEF EditNext

THEOREM EditInvariantHolds == EditSpec => []EditInv
<1> QED BY EditsBegin, EditsStep, PTL DEF EditSpec

\* Every row and every request keeps its type; in particular a version is a number
\* and only the parts of a document are written.
THEOREM EditTypes == EditSpec => []EditTypeOK
<1>1. EditInv => EditTypeOK
  BY DEF EditInv
<1> QED BY <1>1, EditInvariantHolds, PTL

\* The version of a document that was never edited over a stale read counts its
\* edits, for any number of them, and the decision never is edited over one.
THEOREM VersionsCount == EditSpec => []EditsCounted
<1>1. EditInv => EditsCounted
  BY DEF EditInv
<1> QED BY <1>1, EditInvariantHolds, PTL

\* The comparison of the versions protects what the browser saw: only a race, or a
\* report regenerated before its first edit, lets an edit replace an unseen text.
THEOREM AcceptedEditsSaw == EditSpec => []AcceptedAsSeen
<1>1. EditInv => AcceptedAsSeen
  BY DEF EditInv
<1> QED BY <1>1, EditInvariantHolds, PTL
=============================================================================
