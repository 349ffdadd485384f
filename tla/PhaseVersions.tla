---------------------------- MODULE PhaseVersions ----------------------------
(***************************************************************************)
(* What each phase of an experiment was made from, and whether the canvas  *)
(* says that it is behind.  Finalizing the refinement writes the idea and  *)
(* its version; the research writes a report; the two landing generators   *)
(* read the report with the founder's overlay and then the idea, ask the   *)
(* models and stamp the page with the versions; spark_version_service      *)
(* compares the stamps.  The second generator keeps a status row and a     *)
(* registry of its tasks, which are modelled too.                          *)
(*                                                                         *)
(* A text is the request or job that made it.  Every version is the number *)
(* the row has; the races of the overlay are those of FounderEdits, and an *)
(* edit is one step here.  The first generator reads its row again when it *)
(* writes, which is one step; a task of the second one holds the row from  *)
(* its start, and a session writes only the columns that differ from its   *)
(* own view of the row.  No code makes a new version of the spark any more, so its       *)
(* stamps are left out; the insight stamps what it finds when it ends and  *)
(* makes no claim here.                                                    *)
(***************************************************************************)
EXTENDS Naturals, FiniteSets

CONSTANTS
  Actors,   \* requests and jobs, each of which acts once
  RolesOf,  \* bound: what each of them may be
  MaxFaults \* bound: failures of a model or of the database, deaths of the process

NoText == "none"
First == "first"          \* the idea the refiner had before any actor
Roles == {"finalize", "reset", "research", "v1", "v2", "edit"}
Pages == {"v1", "v2"}

ASSUME VersionBounds ==
  /\ {NoText, First} \cap Actors = {} /\ RolesOf \in [Actors -> SUBSET Roles]
  /\ MaxFaults \in Nat

VARIABLES
  idea,     \* experiments.refined_idea and refined_idea_version
  report,   \* validation_reports: the idea it was made from and its stamp
  overlay,  \* validation_reports.edited_doc_version
  page,     \* [Pages -> Page]: the two landing rows and their stamps
  status,   \* landing_page_v2: generation_status and error_detail
  task,     \* _v2_tasks: the registered task, or NoText
  job,      \* [Actors -> Job]
  faults,
  raced,    \* history: one finalize committed between the read and the commit of another
  doubled,  \* history: two tasks of the second generator lived at once
  died      \* history: a task ended without a word

vars == <<idea, report, overlay, page, status, task, job, faults, raced, doubled, died>>

Text == Actors \cup {NoText, First}
Idea == [text : Text, version : Nat]
Report == [exists : BOOLEAN, text : Text, version : Nat]
\* text and base are the idea and the overlay that the page was made from, version and
\* overlay what its row says it was made from.
Page == [exists : BOOLEAN, text : Text, base : Nat, version : Nat, overlay : Nat]
Status == [is : {"idle", "generating", "ready", "failed"}, error : BOOLEAN]
Job == [pc : {"idle", "checked", "created", "read", "loaded", "running", "over"},
        role : Roles, idea : Idea, overlay : Nat, view : Status, stamps : Page]

NoReport == [exists |-> FALSE, text |-> NoText, version |-> 0]
NoPage == [exists |-> FALSE, text |-> NoText, base |-> 0, version |-> 0, overlay |-> 0]
Idle == [is |-> "idle", error |-> FALSE]
Draft == [text |-> NoText, version |-> 0]
NoJob == [pc |-> "idle", role |-> "finalize", idea |-> Draft, overlay |-> 0, view |-> Idle,
          stamps |-> NoPage]

Init ==
  /\ idea = [text |-> First, version |-> 1]
  /\ report = NoReport /\ overlay = 0
  /\ page = [g \in Pages |-> NoPage]
  /\ status = Idle /\ task = NoText
  /\ job = [a \in Actors |-> NoJob]
  /\ faults = 0 /\ raced = FALSE /\ doubled = FALSE /\ died = FALSE

Fault == faults < MaxFaults /\ faults' = faults + 1
May(a, role) == job[a].pc = "idle" /\ role \in RolesOf[a]
Is(a, role, pc) == job[a].role = role /\ job[a].pc = pc
End(a) == [job EXCEPT ![a] = [NoJob EXCEPT !.pc = "over", !.role = job[a].role]]

TaskPcs == {"created", "read", "loaded", "running"}
LiveTasks == {a \in Actors : job[a].role = "v2" /\ job[a].pc \in TaskPcs}

second == <<status, task, doubled, died>>

-----------------------------------------------------------------------------
(* The idea.                                                               *)

\* finalize_refinement reads the row without a lock, and commits the working idea
\* with the version it read plus one.
ReadForFinalize(a) ==
  /\ May(a, "finalize")
  /\ job' = [job EXCEPT ![a].role = "finalize", ![a].pc = "read", ![a].idea = idea]
  /\ UNCHANGED <<idea, report, overlay, page, faults, raced, second>>

Finalize(a) ==
  /\ Is(a, "finalize", "read")
  /\ idea' = [text |-> a, version |-> job[a].idea.version + 1]
  /\ raced' = (raced \/ \E b \in Actors \ {a} : Is(b, "finalize", "read"))
  /\ job' = End(a)
  /\ UNCHANGED <<report, overlay, page, faults, second>>

\* Starting the refinement over takes the idea away while there is no report.
ResetRefinement(a) ==
  /\ May(a, "reset") /\ ~report.exists
  /\ idea' = [idea EXCEPT !.text = NoText]
  /\ job' = End(a)
  /\ UNCHANGED <<report, overlay, page, faults, raced, second>>

-----------------------------------------------------------------------------
(* The report and its overlay.                                             *)

StartResearch(a) ==
  /\ May(a, "research") /\ idea.text # NoText
  /\ job' = [job EXCEPT ![a].role = "research", ![a].pc = "running", ![a].idea = idea]
  /\ UNCHANGED <<idea, report, overlay, page, faults, raced, second>>

\* Mutant of FinishResearch: the upsert starts the overlay over.
FinishResearchAfresh(a) ==
  /\ Is(a, "research", "running")
  /\ report' = [exists |-> TRUE, text |-> job[a].idea.text, version |-> job[a].idea.version]
  /\ overlay' = 0 /\ job' = End(a)
  /\ UNCHANGED <<idea, page, faults, raced, second>>

\* The upsert replaces the report and its stamp and leaves the overlay.
FinishResearch(a) ==
  /\ Is(a, "research", "running")
  /\ report' = [exists |-> TRUE, text |-> job[a].idea.text, version |-> job[a].idea.version]
  /\ job' = End(a)
  /\ UNCHANGED <<idea, overlay, page, faults, raced, second>>

EditOverlay(a) ==
  /\ May(a, "edit") /\ report.exists
  /\ overlay' = overlay + 1 /\ job' = End(a)
  /\ UNCHANGED <<idea, report, page, faults, raced, second>>

-----------------------------------------------------------------------------
(* The landing generators.                                                 *)

\* v1 reads the report with its overlay, then the idea with its version.
ReadReport(a) ==
  /\ May(a, "v1") /\ report.exists
  /\ job' = [job EXCEPT ![a].role = "v1", ![a].pc = "read", ![a].overlay = overlay]
  /\ UNCHANGED <<idea, report, overlay, page, faults, raced, second>>

ReadIdea(a) ==
  /\ Is(a, "v1", "read") /\ idea.text # NoText
  /\ job' = [job EXCEPT ![a].pc = "running", ![a].idea = idea]
  /\ UNCHANGED <<idea, report, overlay, page, faults, raced, second>>

\* Mutant of Stamped: the version the experiment has when the page is saved.
StampedLate(a) ==
  [exists |-> TRUE, text |-> job[a].idea.text, base |-> job[a].overlay,
   version |-> idea.version, overlay |-> job[a].overlay]

Stamped(a) ==
  [exists |-> TRUE, text |-> job[a].idea.text, base |-> job[a].overlay,
   version |-> job[a].idea.version, overlay |-> job[a].overlay]

SavePage(a) ==
  /\ Is(a, "v1", "running")
  /\ page' = [page EXCEPT !["v1"] = Stamped(a)]
  /\ job' = End(a)
  /\ UNCHANGED <<idea, report, overlay, faults, raced, second>>

\* v2 reads its status row, and the registry when it says that it is generating;
\* the row is read before the registry is looked up.
CheckStatus(a) ==
  /\ May(a, "v2") /\ report.exists /\ idea.text # NoText
  /\ job' = [job EXCEPT ![a].role = "v2", ![a].pc = "checked", ![a].view = status]
  /\ UNCHANGED <<idea, report, overlay, page, faults, raced, second>>

UnderWay(a) == job[a].view.is = "generating" /\ task \in LiveTasks

Dispatch(a) ==
  /\ Is(a, "v2", "checked") /\ ~UnderWay(a)
  /\ job' = [job EXCEPT ![a].pc = "created"]
  /\ task' = a
  /\ doubled' = (doubled \/ LiveTasks # {})
  /\ UNCHANGED <<idea, report, overlay, page, status, faults, raced, died>>

AlreadyGenerating(a) ==
  /\ Is(a, "v2", "checked") /\ UnderWay(a)
  /\ job' = End(a)
  /\ UNCHANGED <<idea, report, overlay, page, faults, raced, second>>

\* The task loads the row, which it holds until it ends, and commits that it is
\* generating; its session writes a column only when its own view of it changes.
LoadRow(a) ==
  /\ Is(a, "v2", "created")
  /\ job' = [job EXCEPT ![a].pc = "loaded", ![a].view = status,
                          ![a].stamps = page["v2"]]
  /\ UNCHANGED <<idea, report, overlay, page, faults, raced, second>>

BeginV2(a) ==
  /\ Is(a, "v2", "loaded")
  /\ status' = [is |-> IF job[a].view.is = "generating" THEN status.is ELSE "generating",
                error |-> ~job[a].view.error /\ status.error]
  /\ job' = [job EXCEPT ![a].pc = "read", ![a].view = [is |-> "generating", error |-> FALSE]]
  /\ UNCHANGED <<idea, report, overlay, page, task, faults, raced, doubled, died>>

\* The idea first, then the report with its overlay.
ReadSources(a) ==
  /\ Is(a, "v2", "read") /\ idea.text # NoText
  /\ job' = [job EXCEPT ![a].pc = "running", ![a].idea = idea, ![a].overlay = overlay]
  /\ UNCHANGED <<idea, report, overlay, page, faults, raced, second>>

Unregistered(a) == IF task = a THEN NoText ELSE task

\* The spec is new, but a stamp that equals the one the task saw when it loaded the row
\* is not written: the row keeps the stamp it has by now.
StampedOver(a) ==
  LET seen == job[a].stamps
  IN [Stamped(a) EXCEPT
        !.version = IF seen.exists /\ seen.version = @ THEN page["v2"].version ELSE @,
        !.overlay = IF seen.exists /\ seen.overlay = @ THEN page["v2"].overlay ELSE @]

\* The spec, the stamps and the status in one commit.
FinishV2(a) ==
  /\ Is(a, "v2", "running")
  /\ page' = [page EXCEPT !["v2"] = StampedOver(a)]
  /\ status' = [status EXCEPT !.is = "ready"]
  /\ task' = Unregistered(a) /\ job' = End(a)
  /\ UNCHANGED <<idea, report, overlay, faults, raced, doubled, died>>

\* Mutant of FailV2: nobody writes the status of a failed generation.
FailV2Silently(a) ==
  /\ Fault /\ job[a].role = "v2" /\ job[a].pc \in {"read", "running"}
  /\ task' = Unregistered(a) /\ job' = End(a)
  /\ UNCHANGED <<idea, report, overlay, page, status, raced, doubled, died>>

\* A failure is written on another session, which reads the row again; when that
\* fails too the task ends without a word.
FailV2(a) ==
  /\ Fault /\ job[a].role = "v2" /\ job[a].pc \in {"read", "running"}
  /\ \/ status' = [is |-> "failed", error |-> TRUE] /\ UNCHANGED died
     \/ died' = TRUE /\ UNCHANGED status
  /\ task' = Unregistered(a) /\ job' = End(a)
  /\ UNCHANGED <<idea, report, overlay, page, raced, doubled>>

\* Any other job or request fails, or a task that has not begun: its session is
\* rolled back.
Rollback(a) ==
  /\ Fault /\ job[a].pc \in {"checked", "created", "loaded", "read", "running"}
  /\ job[a].role = "v2" => job[a].pc \in {"checked", "created", "loaded"}
  /\ task' = Unregistered(a) /\ job' = End(a)
  /\ UNCHANGED <<idea, report, overlay, page, status, raced, doubled, died>>

\* The process dies with its tasks and its registry.
Crash ==
  /\ Fault /\ \E a \in Actors : job[a].pc \notin {"idle", "over"}
  /\ job' = [a \in Actors |-> IF job[a].pc = "idle" THEN NoJob ELSE End(a)[a]]
  /\ died' = (died \/ LiveTasks # {}) /\ task' = NoText
  /\ UNCHANGED <<idea, report, overlay, page, status, raced, doubled>>

Next ==
  \/ \E a \in Actors :
       \/ ReadForFinalize(a) \/ Finalize(a) \/ ResetRefinement(a)
       \/ StartResearch(a) \/ FinishResearch(a) \/ EditOverlay(a)
       \/ ReadReport(a) \/ ReadIdea(a) \/ SavePage(a)
       \/ CheckStatus(a) \/ Dispatch(a) \/ AlreadyGenerating(a)
       \/ LoadRow(a) \/ BeginV2(a) \/ ReadSources(a) \/ FinishV2(a)
       \/ FailV2(a) \/ Rollback(a)
  \/ Crash

Spec == Init /\ [][Next]_vars

-----------------------------------------------------------------------------
(* spark_version_service: what the canvas is told.                         *)

Behind(stamp, current) == current > 0 /\ stamp < current

\* The union of the reasons of the generators that have a page.
LaunchIsStale ==
  \E g \in Pages : page[g].exists /\
    \/ Behind(page[g].version, idea.version)
    \/ Behind(page[g].overlay, overlay)

EvidenceIsStale == report.exists /\ Behind(report.version, idea.version)

-----------------------------------------------------------------------------
(* Properties.                                                             *)

TypeOK ==
  /\ idea \in Idea /\ report \in Report /\ overlay \in Nat /\ page \in [Pages -> Page]
  /\ status \in Status /\ task \in Actors \cup {NoText} /\ job \in [Actors -> Job]
  /\ faults \in 0..MaxFaults /\ raced \in BOOLEAN /\ doubled \in BOOLEAN /\ died \in BOOLEAN

\* The stamps of a page are those of the job that made it.
OwnStamps(g) == g = "v1" \/ ~doubled

\* Unless two finalizes raced, a phase that is not called stale was made from the
\* idea the experiment has and, for a page, from the overlay the report has: the
\* stamps are those of what the models were given, however late a page is saved.
\* When tasks of the second generator doubled, one may leave the stamps of the other
\* on its own page, of which nothing is claimed then.
FreshIsCurrent ==
  (~raced /\ idea.text # NoText) =>
    /\ report.exists /\ ~EvidenceIsStale => report.text = idea.text
    /\ ~LaunchIsStale => \A g \in Pages : page[g].exists /\ OwnStamps(g) =>
         page[g].text = idea.text /\ page[g].base = overlay

\* A launch phase that is called stale stays so until a page is generated.
StaleStays ==
  [][LaunchIsStale /\ page' = page /\ ~raced' => LaunchIsStale']_vars

\* When no task of the second generator lives its status row does not say that one is
\* generating, unless one ended without a word: a task that got as far as to say so has
\* said how it ended (one that failed before leaves the row as it was).  While tasks do
\* not double, the row has an error exactly when it says failed.
V2Settles ==
  /\ LiveTasks = {} /\ ~died => status.is # "generating"
  /\ ~doubled /\ ~died => (status.error <=> status.is = "failed")

-----------------------------------------------------------------------------
(* The inductive invariant of the proofs.                                  *)

\* A version stands for one idea: what has the version of the experiment has its idea.
Known(text, version) ==
  /\ version <= idea.version
  /\ version = idea.version /\ idea.text # NoText => text = idea.text

IdeasKnown ==
  /\ idea.version >= 1
  /\ ~raced =>
       /\ Known(report.text, report.version)
       /\ \A g \in Pages : OwnStamps(g) => Known(page[g].text, page[g].version)
       /\ \A a \in Actors :
            /\ Known(job[a].idea.text, job[a].idea.version)
            /\ Is(a, "finalize", "read") => job[a].idea.version = idea.version

OverlaysKnown ==
  /\ \A g \in Pages :
       page[g].overlay <= overlay /\ (OwnStamps(g) => page[g].base = page[g].overlay)
  /\ \A a \in Actors : job[a].overlay <= overlay

\* A task that holds the row of the second generator sees it as it is.
HoldsRow(a) == job[a].role = "v2" /\ job[a].pc \in {"loaded", "read", "running"}

StampsSeen == ~doubled => \A a \in Actors : HoldsRow(a) => job[a].stamps = page["v2"]

Generates(a) == job[a].role = "v2" /\ job[a].pc \in {"read", "running"}

\* A task that generates owns the status row, and is alone unless tasks doubled.
StatusKept ==
  /\ status.is = "generating" /\ ~died => \E a \in Actors : Generates(a)
  /\ ~doubled =>
       /\ \A a, b \in LiveTasks : a = b
       /\ \A a \in Actors :
            /\ Is(a, "v2", "loaded") => job[a].view = status
            /\ Generates(a) => status = [is |-> "generating", error |-> FALSE]
       /\ ~died => (status.error <=> status.is = "failed")

PhaseInv == TypeOK /\ IdeasKnown /\ OverlaysKnown /\ StampsSeen /\ StatusKept

=============================================================================
