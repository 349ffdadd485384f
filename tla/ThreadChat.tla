----------------------------- MODULE ThreadChat -----------------------------
(***************************************************************************)
(* The two chats that answer inside the request: the evidence chat over a  *)
(* finished report (evidence_chat_service) and the refinement chat         *)
(* (chat_service).  Requests interleave at every await; the model is asked *)
(* between the flush of the user row and the commit of the reply.          *)
(*                                                                         *)
(* The evidence thread is created by the first message, under the lock     *)
(* that the UPDATE of the experiment takes; the refinement thread exists.  *)
(* Abstractions: the history handed to the model is the branch above the   *)
(* user row and is not kept; the feedback of a message is left out, and so *)
(* are the effects of a refinement turn on the status of the experiment,   *)
(* which ExperimentLifecycle has.                                          *)
(***************************************************************************)
EXTENDS ChatTree

CONSTANTS
  Requests,   \* the requests of the founder's browsers
  Kinds,      \* the chats the run looks at, a subset of {"evidence", "refine"}
  KeyOf,      \* idempotency keys: equal for a request and its repeat
  MaxFaults   \* bound: failures of the database, of the model, crashes

NoThread == "none"
Given == "given"           \* the refinement thread, there from the start
Ops(kind) == IF kind = "evidence" THEN {"send", "stream", "edit", "retry", "activate"}
             ELSE {"send", "plain", "edit", "retry"}

ASSUME ThreadBounds ==
  /\ {NoThread, Given} \cap Requests = {}
  /\ Kinds \subseteq {"evidence", "refine"} /\ MaxFaults \in Nat

VARIABLES
  kind,      \* which chat this is
  rows,      \* the rows of the threads of this chat
  thread,    \* experiments.evidence_thread_id or thread_id
  leaf,      \* chat_threads.active_leaf_message_id of each thread
  req,       \* [Requests -> Request]
  stored,    \* refinement_idempotency: the keys with a stored result
  billed,    \* the streams whose LLMCall row is committed
  faults,
  raced,     \* history: keys whose turns overlapped, failed or died unstored
  overlapped \* history: two requests were under way at once

vars == <<kind, rows, thread, leaf, req, stored, billed, faults, raced, overlapped>>

Threads == Requests \cup {Given}
Request == [pc : {"idle", "claiming", "reading", "asking", "storing", "prepared",
                  "streaming", "persisting", "switching", "over"},
            op : Ops("evidence") \cup Ops("refine"), thread : Threads \cup {NoThread}, new : BOOLEAN,
            parent : Nat, row : Nat, cut : BOOLEAN]
Rows == [parent : Nat, role : {"user", "assistant"}, by : Requests,
         thread : Threads, visible : BOOLEAN]

NoRequest == [pc |-> "idle", op |-> "send", thread |-> NoThread, new |-> FALSE,
              parent |-> NoRow, row |-> NoRow, cut |-> FALSE]

Init ==
  /\ kind \in Kinds
  /\ thread = IF kind = "refine" THEN Given ELSE NoThread
  /\ rows = <<>> /\ leaf = [h \in Threads |-> NoRow]
  /\ req = [r \in Requests |-> NoRequest]
  /\ stored = {} /\ billed = {} /\ faults = 0 /\ raced = {} /\ overlapped = FALSE

InFlight(r) == req[r].pc \notin {"idle", "over"}
Fault == faults < MaxFaults /\ faults' = faults + 1
End(r) == [req EXCEPT ![r] = [NoRequest EXCEPT !.pc = "over", !.op = req[r].op,
                                               !.cut = req[r].cut]]

NewRow(r, p, role, v) ==
  [parent |-> p, role |-> role, by |-> r, thread |-> req[r].thread, visible |-> v]

\* The commit of a request shows the rows it flushed and the thread it made.
Shown(rs, r) ==
  [k \in DOMAIN rs |-> IF rs[k].by = r THEN [rs[k] EXCEPT !.visible = TRUE] ELSE rs[k]]
CommitThread(r) == thread' = IF req[r].new THEN req[r].thread ELSE thread

RowsOf(h) == {k \in VisibleRows(rows) : rows[k].thread = h}

-----------------------------------------------------------------------------
(* The head of a handler: the thread, the parent, the target.              *)

\* A turn with deep_research carries a key; plain chat and discussion do not.  A
\* keyed turn whose result is stored is answered from it.
Keyed(op) == kind = "refine" /\ op = "send"

Begin(r, op) ==
  /\ req[r].pc = "idle" /\ op \in Ops(kind)
  /\ overlapped' = (overlapped \/ \E q \in Requests \ {r} : InFlight(q))
  /\ raced' = raced \cup {KeyOf[q] : q \in {x \in Requests \ {r} :
                            InFlight(x) /\ KeyOf[x] = KeyOf[r] /\ Keyed(op)}}

AnswerStored(r) ==
  /\ Begin(r, "send") /\ Keyed("send") /\ KeyOf[r] \in stored
  /\ req' = [req EXCEPT ![r].pc = "over"]
  /\ UNCHANGED <<kind, rows, thread, leaf, stored, billed, faults>>

\* The parent of the new user row: the active leaf, or in the evidence chat any
\* message of the thread.
ParentsFor(op) ==
  {leaf[thread]} \cup (IF kind = "evidence" THEN RowsOf(thread) ELSE {})

Send(r, op) ==
  /\ op \in {"send", "stream", "plain"} /\ Begin(r, op)
  /\ Keyed(op) => KeyOf[r] \notin stored
  /\ IF thread = NoThread
     THEN req' = [req EXCEPT ![r].pc = "claiming", ![r].op = op]
     ELSE \E p \in ParentsFor(op) :
            req' = [req EXCEPT ![r].pc = "reading", ![r].op = op,
                               ![r].thread = thread, ![r].parent = p]
  /\ UNCHANGED <<kind, rows, thread, leaf, stored, billed, faults>>

\* A sibling of a user row, to be answered anew.
Edit(r, m) ==
  /\ thread # NoThread /\ m \in RowsOf(thread) /\ rows[m].role = "user"
  /\ Begin(r, "edit")
  /\ req' = [req EXCEPT ![r].op = "edit", ![r].pc = "reading", ![r].thread = thread,
                        ![r].parent = rows[m].parent]
  /\ UNCHANGED <<kind, rows, thread, leaf, stored, billed, faults>>

\* Another reply to the user row above an assistant row.
Retry(r, m) ==
  /\ thread # NoThread /\ m \in RowsOf(thread) /\ rows[m].role = "assistant"
  /\ Begin(r, "retry")
  /\ req' = [req EXCEPT ![r].op = "retry", ![r].pc = "asking", ![r].thread = thread,
                        ![r].row = rows[m].parent]
  /\ UNCHANGED <<kind, rows, thread, leaf, stored, billed, faults>>

\* Mutant of Activate: the message itself becomes the leaf.
ActivateTarget(r, m) ==
  /\ thread # NoThread /\ m \in RowsOf(thread) /\ Begin(r, "activate")
  /\ req' = [req EXCEPT ![r].pc = "switching", ![r].op = "activate",
                        ![r].thread = thread, ![r].row = m]
  /\ UNCHANGED <<kind, rows, thread, leaf, stored, billed, faults>>

\* Activate walks to a leaf of the branch, and sets it in a second statement.
Activate(r, m) ==
  /\ thread # NoThread /\ m \in RowsOf(thread) /\ Begin(r, "activate")
  /\ req' = [req EXCEPT ![r].pc = "switching", ![r].op = "activate",
                        ![r].thread = thread, ![r].row = LeafOfBranch(rows, m)]
  /\ UNCHANGED <<kind, rows, thread, leaf, stored, billed, faults>>

Switch(r) ==
  /\ req[r].pc = "switching"
  /\ leaf' = [leaf EXCEPT ![req[r].thread] = req[r].row]
  /\ req' = End(r)
  /\ UNCHANGED <<kind, rows, thread, stored, billed, faults, raced, overlapped>>

\* The first message makes the thread; the UPDATE of the experiment waits for any
\* other transaction that has made one.
ClaimThread(r) ==
  /\ req[r].pc = "claiming" /\ \A q \in Requests : ~req[q].new
  /\ req' = [req EXCEPT ![r].pc = "reading", ![r].thread = r, ![r].new = TRUE]
  /\ UNCHANGED <<kind, rows, thread, leaf, stored, billed, faults, raced, overlapped>>

-----------------------------------------------------------------------------
(* The turn.                                                               *)

\* Mutant of FlushUser: the row is committed before the model is asked.
FlushUserCommitted(r) ==
  /\ req[r].pc = "reading" /\ req[r].op # "stream"
  /\ rows' = Append(rows, NewRow(r, req[r].parent, "user", TRUE))
  /\ req' = [req EXCEPT ![r].pc = "asking", ![r].row = Len(rows) + 1]
  /\ UNCHANGED <<kind, thread, leaf, stored, billed, faults, raced, overlapped>>

\* The user row is flushed; the transaction stays open while the model answers.
FlushUser(r) ==
  /\ req[r].pc = "reading" /\ req[r].op # "stream"
  /\ rows' = Append(rows, NewRow(r, req[r].parent, "user", FALSE))
  /\ req' = [req EXCEPT ![r].pc = "asking", ![r].row = Len(rows) + 1]
  /\ UNCHANGED <<kind, thread, leaf, stored, billed, faults, raced, overlapped>>

\* prepare_evidence_stream: the user row and the leaf are committed at once.
PrepareStream(r) ==
  /\ req[r].pc = "reading" /\ req[r].op = "stream"
  /\ rows' = Append(rows, NewRow(r, req[r].parent, "user", TRUE))
  /\ leaf' = [leaf EXCEPT ![req[r].thread] = Len(rows) + 1]
  /\ CommitThread(r)
  /\ req' = [req EXCEPT ![r].pc = "prepared", ![r].row = Len(rows) + 1, ![r].new = FALSE]
  /\ UNCHANGED <<kind, stored, billed, faults, raced, overlapped>>

\* The reply, the leaf and everything flushed before, in one commit.
CommitReply(r) ==
  /\ rows' = Shown(Append(rows, NewRow(r, req[r].row, "assistant", TRUE)), r)
  /\ leaf' = [leaf EXCEPT ![req[r].thread] = Len(rows) + 1]
  /\ CommitThread(r)

Reply(r) ==
  /\ req[r].pc = "asking" /\ ~Keyed(req[r].op)
  /\ CommitReply(r) /\ req' = End(r)
  /\ UNCHANGED <<kind, stored, billed, faults, raced, overlapped>>

\* A keyed turn stores its result in a transaction of its own, afterwards.
ReplyKeyed(r) ==
  /\ req[r].pc = "asking" /\ Keyed(req[r].op)
  /\ CommitReply(r)
  /\ req' = [req EXCEPT ![r].pc = "storing", ![r].new = FALSE]
  /\ UNCHANGED <<kind, stored, billed, faults, raced, overlapped>>

\* Mutant of StoreKey: the second commit is missing.
StoreKeyUncommitted(r) ==
  /\ req[r].pc = "storing" /\ req' = End(r)
  /\ UNCHANGED <<kind, rows, thread, leaf, stored, billed, faults, raced, overlapped>>

\* on_conflict_do_nothing: the first result stays.
StoreKey(r) ==
  /\ req[r].pc = "storing"
  /\ stored' = stored \cup {KeyOf[r]} /\ req' = End(r)
  /\ UNCHANGED <<kind, rows, thread, leaf, billed, faults, raced, overlapped>>

\* The model raises.  A turn of the refinement, sent, edited or tried again, answers
\* with an apology and stores no result ...
Apologize(r) ==
  /\ Fault /\ req[r].pc = "asking" /\ kind = "refine" /\ req[r].op # "plain"
  /\ CommitReply(r) /\ req' = End(r)
  /\ raced' = IF Keyed(req[r].op) THEN raced \cup {KeyOf[r]} ELSE raced
  /\ UNCHANGED <<kind, stored, billed, overlapped>>

\* ... while plain chat, the edit or retry of a plain or discussion turn, and the
\* evidence chat let the session roll back.
ModelFails(r) ==
  /\ Fault /\ req[r].pc = "asking" /\ ~Keyed(req[r].op)
  /\ req' = End(r)
  /\ UNCHANGED <<kind, rows, thread, leaf, stored, billed, raced, overlapped>>

\* A statement or the commit of the handler fails.
Rollback(r) ==
  /\ Fault /\ req[r].pc \in {"claiming", "reading", "asking", "switching", "storing"}
  /\ raced' = IF req[r].pc = "storing" THEN raced \cup {KeyOf[r]} ELSE raced
  /\ req' = End(r)
  /\ UNCHANGED <<kind, rows, thread, leaf, stored, billed, overlapped>>

-----------------------------------------------------------------------------
(* The response of a stream, on a session of its own.                      *)

StartStream(r) ==
  /\ req[r].pc = "prepared"
  /\ req' = [req EXCEPT ![r].pc = "streaming"]
  /\ UNCHANGED <<kind, rows, thread, leaf, stored, billed, faults, raced, overlapped>>

LastToken(r) ==
  /\ req[r].pc = "streaming"
  /\ req' = [req EXCEPT ![r].pc = "persisting"]
  /\ UNCHANGED <<kind, rows, thread, leaf, stored, billed, faults, raced, overlapped>>

PersistReply(r) ==
  /\ req[r].pc = "persisting" /\ CommitReply(r)
  /\ billed' = billed \cup {r} /\ req' = End(r)
  /\ UNCHANGED <<kind, stored, faults, raced, overlapped>>

\* The provider fails, or the client leaves while tokens flow: the cost is
\* logged, no row is written.
CutStream(r) ==
  /\ req[r].pc = "streaming"
  /\ billed' = billed \cup {r} /\ req' = End(r)
  /\ UNCHANGED <<kind, rows, thread, leaf, stored, faults, raced, overlapped>>

\* The client leaves before the response starts, or while the reply is persisted.
Disconnect(r) ==
  /\ req[r].pc \in {"prepared", "persisting"}
  /\ req' = [End(r) EXCEPT ![r].cut = (req[r].pc = "persisting")]
  /\ UNCHANGED <<kind, rows, thread, leaf, stored, billed, faults, raced, overlapped>>

Crash ==
  /\ Fault /\ \E r \in Requests : InFlight(r)
  /\ raced' = raced \cup {KeyOf[r] : r \in {q \in Requests : req[q].pc = "storing"}}
  /\ req' = [r \in Requests |-> IF InFlight(r) THEN End(r)[r] ELSE req[r]]
  /\ UNCHANGED <<kind, rows, thread, leaf, stored, billed, overlapped>>

-----------------------------------------------------------------------------
Next ==
  \/ \E r \in Requests :
       \/ AnswerStored(r) \/ ClaimThread(r)
       \/ \E op \in {"send", "stream", "plain"} : Send(r, op)
       \/ \E m \in DOMAIN rows : Edit(r, m) \/ Retry(r, m) \/ Activate(r, m)
       \/ Switch(r) \/ FlushUser(r) \/ PrepareStream(r)
       \/ Reply(r) \/ ReplyKeyed(r) \/ StoreKey(r)
       \/ Apologize(r) \/ ModelFails(r) \/ Rollback(r)
       \/ StartStream(r) \/ LastToken(r) \/ PersistReply(r)
       \/ CutStream(r) \/ Disconnect(r)
  \/ Crash

Spec == Init /\ [][Next]_vars

-----------------------------------------------------------------------------
(* Properties.                                                             *)

TypeOK ==
  /\ kind \in Kinds /\ thread \in Threads \cup {NoThread}
  /\ rows \in Seq(Rows) /\ leaf \in [Threads -> 0..Len(rows)]
  /\ req \in [Requests -> Request] /\ overlapped \in BOOLEAN
  /\ stored \subseteq {KeyOf[r] : r \in Requests}
  /\ raced \subseteq {KeyOf[r] : r \in Requests}
  /\ billed \subseteq Requests /\ faults \in 0..MaxFaults

\* A turn that does not stream is there with its reply or not at all, whatever
\* fails or dies between the flush of its user row and the commit.
WholeTurns ==
  \A k \in VisibleRows(rows) : rows[k].role = "user" =>
    \/ \E c \in Children(rows, k) : rows[c].role = "assistant" /\ rows[c].by = rows[k].by
    \/ req[rows[k].by].op = "stream"

\* A keyed turn is taken twice only if its requests overlapped, the first was
\* answered with an apology, or it died before its result was stored.
KeyedOnce ==
  \A j, k \in VisibleRows(rows) :
    (/\ kind = "refine" /\ j # k /\ rows[j].role = "user" /\ rows[k].role = "user"
     /\ req[rows[j].by].op = "send" /\ req[rows[k].by].op = "send"
     /\ KeyOf[rows[j].by] = KeyOf[rows[k].by]) => KeyOf[rows[j].by] \in raced

\* While requests do not overlap nothing is hidden: every row is in the thread the
\* experiment shows, and the active leaf ends a branch.
AloneNothingHidden ==
  ~overlapped =>
    /\ \A k \in VisibleRows(rows) : rows[k].thread = thread
    /\ thread # NoThread /\ leaf[thread] # NoRow => Children(rows, leaf[thread]) = {}

\* "The LLMCall is written on EVERY terminal path" (stream_evidence_reply): a
\* stream that asked the model and ended while the process lived is billed.
StreamsAreBilled ==
  faults = 0 => \A r \in Requests : req[r].cut => r \in billed

\* "Created on the first evidence-chat message" (experiment.py): the experiment
\* keeps the thread it has.
ThreadStays == [][thread # NoThread => thread' = thread]_vars

-----------------------------------------------------------------------------
(* The inductive invariant of the proofs.                                  *)

\* A row points back to an earlier one.
PointsBack ==
  /\ \A k \in DOMAIN rows : rows[k].parent < k
  /\ \A r \in Requests : req[r].parent <= Len(rows) /\ req[r].row <= Len(rows)

RowsBy(r) == {k \in DOMAIN rows : rows[k].by = r}

\* The rows a request has flushed at each place.
Staged(r) ==
  /\ req[r].pc \in {"idle", "claiming", "reading", "switching"} => RowsBy(r) = {}
  /\ req[r].pc = "asking" =>
       req[r].op # "stream" /\ \A k \in RowsBy(r) : k = req[r].row
  /\ req[r].pc = "storing" => Keyed(req[r].op)
  /\ req[r].pc \in {"prepared", "streaming", "persisting"} =>
       req[r].op = "stream" /\ \A k \in RowsBy(r) : k = req[r].row
  /\ req[r].pc \in {"asking", "prepared", "streaming", "persisting"} =>
       \A k \in RowsBy(r) : rows[k].thread = req[r].thread
  /\ req[r].pc \in {"reading", "asking", "switching", "prepared", "streaming", "persisting"} =>
       req[r].thread # NoThread
  /\ req[r].new => req[r].pc \in {"reading", "asking"} /\ req[r].thread = r

\* A request puts one question.
OneQuestion ==
  \A j, k \in DOMAIN rows :
    rows[j].by = rows[k].by /\ rows[j].role = "user" /\ rows[k].role = "user" => j = k

\* What the idempotency key of a turn says of its repeats.
Keys(r) == Keyed(req[r].op) =>
  /\ \A k \in VisibleRows(rows) :
       rows[k].by = r => req[r].pc = "storing" \/ KeyOf[r] \in stored \cup raced
  /\ InFlight(r) /\ req[r].pc # "storing" /\ KeyOf[r] \in stored => KeyOf[r] \in raced
  /\ \A q \in Requests \ {r} :
       InFlight(r) /\ InFlight(q) /\ Keyed(req[q].op) /\ KeyOf[q] = KeyOf[r]
         => KeyOf[r] \in raced

\* One request at a time: where it writes, and where it will move the leaf.
OneAtATime(r) ==
  /\ \A q \in Requests \ {r} : ~(InFlight(r) /\ InFlight(q))
  /\ req[r].pc = "claiming" => thread = NoThread
  /\ InFlight(r) /\ req[r].pc # "claiming" =>
       IF req[r].new THEN thread = NoThread ELSE req[r].thread = thread
  /\ req[r].pc = "switching" => Children(rows, req[r].row) = {}

ThreadInv ==
  /\ TypeOK /\ PointsBack /\ OneQuestion /\ WholeTurns /\ KeyedOnce /\ AloneNothingHidden
  /\ \A r \in Requests : Staged(r) /\ Keys(r) /\ (~overlapped => OneAtATime(r))
=============================================================================
