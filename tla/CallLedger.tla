----------------------------- MODULE CallLedger -----------------------------
(***************************************************************************)
(* The calls a task makes in parallel (asyncio.gather) and their rows in   *)
(* the one database session of the task: plain and structured completions  *)
(* (llm/client.py), web searches (tavily.py) and free lookups (reddit.py,  *)
(* trends.py).  Every call goes through a breaker under retry_async, then  *)
(* writes its row, holding the lock of the session while it flushes.  The  *)
(* task waits for all calls and commits.                                   *)
(*                                                                         *)
(* One answer of a paid service costs one unit.  A database error in a     *)
(* flush rolls the transaction back and leaves the session refusing every  *)
(* statement, so the rows of all calls are gone.  Streams are billed by    *)
(* their endpoint (ThreadChat); the breaker is CircuitBreaker.             *)
(***************************************************************************)
EXTENDS CostRollup

CONSTANTS
  Calls,       \* calls a task may make
  Tasks,       \* the sets of calls that make up a task
  Kind,        \* what each is: "plain", "structured", "search" or "lookup"
  About,       \* what its rows say: source, phase, provider and experiment
  MaxRetries,  \* attempts after the first (retry_async)
  MaxAnswers,  \* answers Instructor asks for in one attempt
  MaxFaults    \* bound: database errors

NoCall == "none"

ASSUME CallAssumption ==
  /\ NoCall \notin Calls /\ IsFiniteSet(Calls) /\ Tasks \subseteq SUBSET Calls
  /\ Kind \in [Calls -> {"plain", "structured", "search", "lookup"}]
  /\ DOMAIN About = Calls /\ \A c \in Calls : About[c].source \in {"llm", "external"}
  /\ MaxRetries \in Nat /\ MaxAnswers \in Nat \ {0} /\ MaxFaults \in Nat

VARIABLES
  call,       \* [Calls -> Call]
  holder,     \* the call that holds the lock of the session
  rows,       \* rows flushed and not committed
  saved,      \* rows committed
  broken,     \* the session was rolled back and refuses all statements
  cancelled,  \* the task was cancelled
  over,       \* how the transaction ended
  faults

vars == <<call, holder, rows, saved, broken, cancelled, over, faults>>

\* then: what follows the row that is being written; used: what that row will say;
\* owed: what the service has billed.
Call == [at : {"unused", "new", "asked", "resting", "logging", "flushing", "ended"},
         then : {"return", "fail", "retry"},
         retries : 0..MaxRetries, answers : 0..MaxAnswers, used : Nat, owed : Nat]
Row == [call : Calls, number : Nat, cost : Nat, about : {About[c] : c \in Calls}]

Init ==
  /\ \E task \in Tasks :
       call = [c \in Calls |-> [at |-> IF c \in task THEN "new" ELSE "unused",
                 then |-> "return", retries |-> 0, answers |-> 0, used |-> 0, owed |-> 0]]
  /\ holder = NoCall /\ rows = {} /\ saved = {} /\ broken = FALSE
  /\ cancelled = FALSE /\ over = "open" /\ faults = 0

Price(c) == IF Kind[c] = "lookup" THEN 0 ELSE 1
Open(c) == call[c].at \notin {"unused", "ended"}
AllReturned == \A c \in Calls : ~Open(c)

-----------------------------------------------------------------------------
(* The conversation with the service.                                      *)

\* An attempt begins.
Ask(c) ==
  /\ call[c].at \in {"new", "resting"}
  /\ call' = [call EXCEPT ![c].at = "asked"]
  /\ UNCHANGED <<holder, rows, saved, broken, cancelled, over, faults>>

\* The row with this cost is to be written next.
WriteRow(c, cost, then) ==
  [call[c] EXCEPT !.at = "logging", !.used = cost, !.then = then]

\* The breaker is open: no retry, and a row of what came before.
Reject(c) ==
  /\ call[c].at \in {"new", "resting"}
  /\ call' = [call EXCEPT ![c] = WriteRow(c, call[c].used, "fail")]
  /\ UNCHANGED <<holder, rows, saved, broken, cancelled, over, faults>>

\* A good answer.  A structured call adds it to the usage of the answers before.
Answer(c) ==
  /\ call[c].at = "asked"
  /\ call' = [call EXCEPT ![c] = [WriteRow(c, call[c].used + Price(c), "return")
                                    EXCEPT !.owed = call[c].owed + Price(c)]]
  /\ UNCHANGED <<holder, rows, saved, broken, cancelled, over, faults>>

\* A completion that cannot be read: a plain call fails with an empty row, a
\* structured one asks again, as long as Instructor does.
BadAnswer(c) ==
  /\ call[c].at = "asked" /\ Kind[c] \in {"plain", "structured"}
  /\ LET billed == [call[c] EXCEPT !.owed = @ + 1, !.answers = @ + 1]
         total == call[c].used + 1
     IN call' = [call EXCEPT ![c] =
          IF Kind[c] = "plain"
          THEN [billed EXCEPT !.at = "logging", !.used = 0, !.then = "fail"]
          ELSE IF billed.answers < MaxAnswers
          THEN [billed EXCEPT !.used = total]
          ELSE [billed EXCEPT !.at = "logging", !.used = total, !.then = "fail"]]
  /\ UNCHANGED <<holder, rows, saved, broken, cancelled, over, faults>>

\* The series of a trends lookup do not validate: it ends without a row.
BadSeries(c) ==
  /\ call[c].at = "asked" /\ Kind[c] = "lookup"
  /\ call' = [call EXCEPT ![c].at = "ended", ![c].then = "fail"]
  /\ UNCHANGED <<holder, rows, saved, broken, cancelled, over, faults>>

\* Mutant of Retry: the usage is counted inside the attempt.
RetryAnew(c) ==
  /\ call[c].at = "asked" /\ call[c].retries < MaxRetries
  /\ call' = [call EXCEPT ![c] =
       IF Kind[c] = "search"
       THEN WriteRow(c, 0, "retry")
       ELSE [@ EXCEPT !.at = "resting", !.retries = @ + 1, !.answers = 0, !.used = 0]]
  /\ UNCHANGED <<holder, rows, saved, broken, cancelled, over, faults>>

\* A transient error.  A search writes a row for every attempt, before it rests;
\* the answers to a structured call stay counted.
Retry(c) ==
  /\ call[c].at = "asked" /\ call[c].retries < MaxRetries
  /\ call' = [call EXCEPT ![c] =
       IF Kind[c] = "search"
       THEN WriteRow(c, 0, "retry")
       ELSE [call[c] EXCEPT !.at = "resting", !.retries = call[c].retries + 1, !.answers = 0]]
  /\ UNCHANGED <<holder, rows, saved, broken, cancelled, over, faults>>

\* An error that is not transient, or one too many.
Fail(c) ==
  /\ call[c].at = "asked"
  /\ call' = [call EXCEPT ![c] = WriteRow(c, call[c].used, "fail")]
  /\ UNCHANGED <<holder, rows, saved, broken, cancelled, over, faults>>

-----------------------------------------------------------------------------
(* The row.  Two flushes of one session at the same time break it.         *)

\* Mutant of Lock: add and flush without the lock.
LockNothing(c) ==
  /\ call[c].at = "logging"
  /\ holder' = c
  /\ call' = [call EXCEPT ![c].at = "flushing"]
  /\ broken' = (broken \/ \E d \in Calls : call[d].at = "flushing")
  /\ UNCHANGED <<rows, saved, cancelled, over, faults>>

Lock(c) ==
  /\ call[c].at = "logging" /\ holder = NoCall
  /\ holder' = c
  /\ call' = [call EXCEPT ![c].at = "flushing"]
  /\ broken' = (broken \/ \E d \in Calls : call[d].at = "flushing")
  /\ UNCHANGED <<rows, saved, cancelled, over, faults>>

RowOf(c) ==
  [call |-> c, number |-> Cardinality({r \in rows : r.call = c}), cost |-> call[c].used,
   about |-> About[c]]

\* After the row: the next attempt of a search, or back to the caller.
Onward(c) ==
  IF call[c].then = "retry"
  THEN [call[c] EXCEPT !.at = "resting", !.retries = call[c].retries + 1]
  ELSE [call[c] EXCEPT !.at = "ended"]

Flush(c) ==
  /\ call[c].at = "flushing" /\ ~broken
  /\ rows' = rows \cup {RowOf(c)}
  /\ holder' = NoCall
  /\ call' = [call EXCEPT ![c] = Onward(c)]
  /\ UNCHANGED <<saved, broken, cancelled, over, faults>>

\* Mutant of FlushFails: the lock is given back only after a good flush.
FlushFailsLocked(c) ==
  /\ call[c].at = "flushing"
  /\ broken \/ faults < MaxFaults
  /\ faults' = IF broken THEN faults ELSE faults + 1
  /\ broken' = TRUE /\ rows' = {}
  /\ call' = [call EXCEPT ![c] =
       IF call[c].then = "return"
       THEN WriteRow(c, IF Kind[c] = "structured" THEN call[c].used ELSE 0, "fail")
       ELSE Onward(c)]
  /\ UNCHANGED <<saved, holder, cancelled, over>>

\* The database refuses the row.  A call that had succeeded now fails and tries to
\* write a failure row; the failure of that one is only logged.
FlushFails(c) ==
  /\ call[c].at = "flushing"
  /\ broken \/ faults < MaxFaults
  /\ faults' = IF broken THEN faults ELSE faults + 1
  /\ broken' = TRUE /\ rows' = {}
  /\ holder' = NoCall
  /\ call' = [call EXCEPT ![c] =
       IF call[c].then = "return"
       THEN WriteRow(c, IF Kind[c] = "structured" THEN call[c].used ELSE 0, "fail")
       ELSE Onward(c)]
  /\ UNCHANGED <<saved, cancelled, over>>

-----------------------------------------------------------------------------
(* The task.                                                               *)

\* The task is cancelled, and its calls with it: no handler catches CancelledError,
\* no row is written, and a flush that was under way is rolled back.
Cancel ==
  /\ \E c \in Calls : Open(c)
  /\ cancelled' = TRUE /\ holder' = NoCall
  /\ call' = [c \in Calls |-> IF Open(c) THEN [call[c] EXCEPT !.at = "ended"] ELSE call[c]]
  /\ broken' = (broken \/ \E c \in Calls : call[c].at = "flushing")
  /\ rows' = IF broken' THEN {} ELSE rows
  /\ UNCHANGED <<saved, over, faults>>

\* All calls have returned; the task commits, as a stopped chat turn does too.
Commit ==
  /\ over = "open" /\ AllReturned
  /\ ~broken /\ saved' = rows /\ rows' = {} /\ over' = "committed"
  /\ UNCHANGED <<call, holder, broken, cancelled, faults>>

\* The session is broken, or the task fails or is cancelled, and rolls back.
Rollback ==
  /\ over = "open" /\ AllReturned
  /\ rows' = {} /\ over' = "rolled back"
  /\ UNCHANGED <<call, holder, saved, broken, cancelled, faults>>

Step(c) ==
  \/ Ask(c) \/ Reject(c) \/ Answer(c) \/ BadAnswer(c) \/ BadSeries(c) \/ Retry(c) \/ Fail(c)
  \/ Lock(c) \/ Flush(c) \/ FlushFails(c)

Next == (\E c \in Calls : Step(c)) \/ Cancel \/ Commit \/ Rollback

Spec == Init /\ [][Next]_vars

\* Every service answers or times out and the event loop runs every ready task.
FairSpec == Spec /\ \A c \in Calls : WF_vars(Step(c))

-----------------------------------------------------------------------------
(* Properties.                                                             *)

TypeOK ==
  /\ call \in [Calls -> Call] /\ holder \in Calls \cup {NoCall}
  /\ rows \subseteq Row /\ saved \subseteq Row
  /\ {broken, cancelled} \subseteq BOOLEAN
  /\ over \in {"open", "committed", "rolled back"} /\ faults \in 0..MaxFaults

\* A plain completion that could not be used leaves an empty row whatever it cost,
\* and a trends lookup may leave none.
Accountable(c) ==
  /\ call[c].at = "ended" /\ Kind[c] # "lookup"
  /\ Kind[c] = "plain" => call[c].then = "return"

\* Retries, repeated answers and failures included, the rows of a call that has
\* returned add up to what the services billed for it, and it has one: "Every call
\* MUST log to LLMCall", "capture every paid operation".  Only a cancellation or a
\* transaction that was rolled back takes rows away (complete_structured, search).
SpendIsWritten ==
  ~cancelled /\ ~broken /\ over # "rolled back" =>
    \A c \in Calls : Accountable(c) =>
      LET mine == {r \in rows \cup saved : r.call = c}
      IN mine # {} /\ Cost(mine) = call[c].owed

\* Calls that share a session never break it by writing at the same time
\* (session_lock.py: "so that code paths which must add + flush rows concurrently
\* can serialize their session mutations").
OnlyFaultsBreak == broken => faults > 0 \/ cancelled

\* No call waits for ever, not even for the lock of one whose flush failed.
EveryCallReturns == \A c \in Calls : <>~Open(c)

\* All tables of the administration tell one story of the committed rows: the
\* categories and the providers add up to everything, the experiments and the users
\* to what belongs to an experiment, and a user's phases to that user's total.
RollupsAgree ==
  LET scoped == Cost(Scoped(saved)) IN
  /\ MergedCost(ByCategory(saved)) = Cost(saved)
  /\ GroupedCost(ByProvider(saved)) = Cost(saved)
  /\ MergedCost(ByExperiment(saved)) = scoped
  /\ MergedCost(ByUser(saved)) = scoped
  /\ \A u \in DOMAIN ByUser(saved) :
       GroupedCost(Breakdown(saved, u)) =
         ByUser(saved)[u].llm.cost + ByUser(saved)[u].external.cost

-----------------------------------------------------------------------------
(* The inductive invariant of the proofs.                                  *)

\* One call at a time writes, and it holds the lock.
OneWriter == \A c \in Calls : call[c].at = "flushing" => holder = c

\* The rows of a call are numbered in the order they were flushed.
RowsOfCall(c) == {r \in rows : r.call = c}
Numbered ==
  /\ IsFiniteSet(rows) /\ IsFiniteSet(saved)
  /\ \A r \in rows : r.number < Cardinality(RowsOfCall(r.call))

\* Nothing is saved while the task runs, nothing runs when it is over.
Whole ==
  /\ over # "committed" => saved = {}
  /\ over # "open" => AllReturned /\ rows = {}

\* What a call has used and owes, at each place.
Counted(c) ==
  /\ call[c].at \in {"new", "asked", "resting"} =>
       /\ call[c].used = call[c].owed /\ call[c].answers < MaxAnswers
       /\ Kind[c] # "structured" => call[c].used = 0
  /\ call[c].at \in {"logging", "flushing"} =>
       /\ call[c].then = "retry" =>
            /\ Kind[c] = "search" /\ call[c].used = 0 /\ call[c].owed = 0
            /\ call[c].retries < MaxRetries /\ call[c].answers < MaxAnswers
       /\ ~broken => call[c].used = call[c].owed
                     \/ (Kind[c] = "plain" /\ call[c].then = "fail")

\* The rows written so far: none with a price before the last one.
Written(c) ==
  ~cancelled /\ ~broken /\ over = "open" =>
    /\ call[c].at \notin {"unused", "ended"} => Cost(RowsOfCall(c)) = 0
    /\ Accountable(c) => RowsOfCall(c) # {} /\ Cost(RowsOfCall(c)) = call[c].owed

CallInv ==
  /\ TypeOK /\ OneWriter /\ Numbered /\ Whole /\ SpendIsWritten /\ OnlyFaultsBreak
  /\ \A c \in Calls : Counted(c) /\ Written(c)
=============================================================================
