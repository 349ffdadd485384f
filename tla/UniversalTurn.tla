--------------------------- MODULE UniversalTurn ----------------------------
(***************************************************************************)
(* The universal chat of one experiment: the requests that open a turn,    *)
(* the detached task that runs the body of a turn with a session of its    *)
(* own, the registry that finds it, the stream that watches it, the stop   *)
(* button and the death of the process.  The rows of the thread are a      *)
(* ChatTree; the status of a turn is kept in the metadata of a row.        *)
(*                                                                         *)
(* Abstractions.  A streamed row is flushed and committed in one step: the *)
(* session does nothing else in between.  The text of a reply is one token *)
(* event, published with the row.  The providers, the prompts, the         *)
(* payloads of tools and what a tool does outside this thread are left     *)
(* out: the refine tool writes to the refine chat, in its own thread.      *)
(***************************************************************************)
EXTENDS ChatTree

CONSTANTS
  Turns,          \* the requests that open a turn, streamed or not
  ModesOf,        \* bound: the kinds of request each of them may be
  MaxToolRounds,  \* _MAX_TOOL_ROUNDS
  MaxTools,       \* bound: the tools the model asks for in one round, for each turn
  Watched,        \* bound: the turns whose response may be read
  MaxFaults       \* bound: stops, failures, crashes and turns run twice

VARIABLES
  rows,      \* the rows of the thread
  leaf,      \* chat_threads.active_leaf_message_id
  req,       \* [Turns -> Request]: the request handler and its UniversalStreamPrep
  body,      \* [Runtimes -> Body]: the UniversalTurnRuntime and its task
  cancel,    \* the runtimes whose cancel event is set
  history,   \* [Runtimes -> Seq(Events)]: the events a runtime has published
  registry,  \* [Turns -> 0..2]: _active_turns, 0 for no entry
  stream,    \* [Turns -> Stream]: the SSE response of the request
  faults,    \* the stops, failures and crashes so far
  lost,      \* history: turns whose last status write failed or never ran
  overlapped \* history: two turns were under way at once, or one ran twice

vars == <<rows, leaf, req, body, cancel, history, registry, stream,
          faults, lost, overlapped>>

(* A request starts the task of its turn in the handler and again in the   *)
(* generator of the response, so a turn has at most two runtimes.          *)
Runtimes == Turns \X (1..2)

States == {"running", "done", "failed"}
NoMark == [turn |-> "none", state |-> "none"]
Marks == {NoMark} \cup [turn : Turns, state : States]
Rows == [parent : Nat, role : Roles, by : Turns, mark : Marks, visible : BOOLEAN]

Modes == {"message", "edit", "quiet", "send"}

ASSUME TurnBounds ==
  /\ ModesOf \in [Turns -> SUBSET Modes]
  /\ MaxToolRounds \in Nat \ {0} /\ MaxTools \in [Turns -> Nat \ {0}] /\ MaxFaults \in Nat

Request == [pc : {"idle", "reading", "sending", "ready", "started", "over"},
            mode : Modes, row : Nat, chain : Nat, rounds : Nat]
Body == [pc : {"none", "loop", "call", "tool", "final", "closing", "closed", "killed"},
         chain : Nat, rounds : Nat, todo : Nat, refine : BOOLEAN,
         fellBack : BOOLEAN,
         reply : {"none", "refined", "silent"}]
Events == {"tool_call", "tool_result", "token", "done", "error"}
Stream == [pc : {"none", "attached", "live", "ended", "gone"},
           run : 0..2, got : Seq(Events)]

Gone == {"none", "closed", "killed"}     \* a body with no task
Live(t, g) == body[<<t, g>>].pc \notin Gone
InRequest(t) == req[t].pc \in {"reading", "sending", "ready"}
Busy(t) == InRequest(t) \/ \E g \in 1..2 : Live(t, g)

NewRow(p, r, t, mk, v) ==
  [parent |-> p, role |-> r, by |-> t, mark |-> mk, visible |-> v]
Marked(rs, m, t, s) ==
  IF m = NoRow THEN rs
  ELSE [rs EXCEPT ![m].mark = [turn |-> t, state |-> s]]
StatusRow(t) == req[t].row

NoRequest == [pc |-> "idle", mode |-> "message", row |-> NoRow, chain |-> NoRow, rounds |-> 0]
NoBody == [pc |-> "none", chain |-> NoRow, rounds |-> 0, todo |-> 0, refine |-> FALSE,
           fellBack |-> FALSE, reply |-> "none"]

Init ==
  /\ rows = <<>> /\ leaf = NoRow
  /\ req = [t \in Turns |-> NoRequest]
  /\ body = [b \in Runtimes |-> NoBody]
  /\ cancel = {}
  /\ history = [b \in Runtimes |-> <<>>]
  /\ registry = [t \in Turns |-> 0]
  /\ stream = [t \in Turns |-> [pc |-> "none", run |-> 0, got |-> <<>>]]
  /\ faults = 0 /\ lost = {} /\ overlapped = FALSE

Fault == faults < MaxFaults /\ faults' = faults + 1

-----------------------------------------------------------------------------
(* The request handler.                                                    *)

tasks == <<body, cancel, history, registry, stream>>

\* The parent of the coming rows is read at the start of the handler: the
\* active leaf, or the parent of the message that is edited.
Open(t, mode) ==
  /\ req[t].pc = "idle" /\ mode \in ModesOf[t]
  /\ \E p \in 0..Len(rows) :
       /\ IF mode = "edit"
          THEN \E m \in VisibleRows(rows) : rows[m].role = "user" /\ rows[m].parent = p
          ELSE p = leaf
       /\ req' = [req EXCEPT ![t].pc = "reading", ![t].mode = mode, ![t].row = p]
  /\ overlapped' = (overlapped \/ \E u \in Turns \ {t} : Busy(u))
  /\ UNCHANGED <<rows, leaf, faults, lost, tasks>>

\* Mutant of CommitMessage: the leaf stays on the row that was answered last.
CommitKeepsLeaf(t) ==
  /\ req[t].pc = "reading" /\ req[t].mode \in {"message", "edit"}
  /\ rows' = Append(rows, NewRow(req[t].row, "user", t,
                                 [turn |-> t, state |-> "running"], TRUE))
  /\ req' = [req EXCEPT ![t].pc = "ready", ![t].row = Len(rows) + 1]
  /\ UNCHANGED <<leaf, faults, lost, overlapped, tasks>>

\* prepare_universal_stream commits the user row, the leaf and the status.
CommitMessage(t) ==
  /\ req[t].pc = "reading" /\ req[t].mode \in {"message", "edit"}
  /\ rows' = Append(rows, NewRow(req[t].row, "user", t,
                                 [turn |-> t, state |-> "running"], TRUE))
  /\ leaf' = Len(rows) + 1
  /\ req' = [req EXCEPT ![t].pc = "ready", ![t].row = Len(rows) + 1]
  /\ UNCHANGED <<faults, lost, overlapped, tasks>>

\* A card answer or the kick after the capture (suppress_user_echo): no row, the
\* status goes to the row that was the leaf.
CommitQuiet(t) ==
  /\ req[t].pc = "reading" /\ req[t].mode = "quiet"
  /\ rows' = Marked(rows, req[t].row, t, "running")
  /\ req' = [req EXCEPT ![t].pc = "ready"]
  /\ UNCHANGED <<leaf, faults, lost, overlapped, tasks>>

\* The handler refuses the request or its transaction fails; the rows a
\* non-streamed turn had flushed are rolled back.
Refuse(t) ==
  /\ req[t].pc \in {"reading", "sending"}
  /\ req' = [req EXCEPT ![t] = [NoRequest EXCEPT !.pc = "over"]]
  /\ UNCHANGED <<rows, leaf, faults, lost, overlapped, tasks>>

\* send_universal_chat_message: the whole turn inside the request's transaction.
SendUser(t) ==
  /\ req[t].pc = "reading" /\ req[t].mode = "send"
  /\ rows' = Append(rows, NewRow(req[t].row, "user", t, NoMark, FALSE))
  /\ req' = [req EXCEPT ![t].pc = "sending", ![t].row = Len(rows) + 1,
                        ![t].chain = Len(rows) + 1]
  /\ UNCHANGED <<leaf, faults, lost, overlapped, tasks>>

Commit(rs, t) ==
  [k \in DOMAIN rs |-> IF rs[k].by = t THEN [rs[k] EXCEPT !.visible = TRUE] ELSE rs[k]]

\* A tool of a non-streamed turn.  The refine tool commits the session it was
\* given, and with it the rows the turn has flushed so far.
SendTool(t, committed) ==
  /\ req[t].pc = "sending" /\ req[t].rounds < MaxToolRounds
  /\ LET called == Append(rows, NewRow(req[t].chain, "tool_call", t, NoMark, FALSE))
         ran == IF committed THEN Commit(called, t) ELSE called
     IN rows' = Append(ran, NewRow(Len(called), "tool_result", t, NoMark, FALSE))
  /\ req' = [req EXCEPT ![t].rounds = @ + 1, ![t].chain = Len(rows) + 2]
  /\ UNCHANGED <<leaf, faults, lost, overlapped, tasks>>

\* The assistant row, or none when the refine tool only asked a question.
SendDone(t, silent) ==
  /\ req[t].pc = "sending"
  /\ silent => req[t].rounds > 0
  /\ LET written == IF silent THEN rows
                    ELSE Append(rows, NewRow(req[t].chain, "assistant", t, NoMark, FALSE))
     IN /\ rows' = Commit(written, t)
        /\ leaf' = Len(written)
  /\ req' = [req EXCEPT ![t] = [NoRequest EXCEPT !.pc = "over"]]
  /\ UNCHANGED <<faults, lost, overlapped, tasks>>

-----------------------------------------------------------------------------
(* The registry, the stream and the stop button.                           *)

\* Mutant of StartTurn: a runtime whose task is not done is replaced.
StartTurnAnew(t, g) ==
  /\ g = IF body[<<t, 1>>].pc = "none" THEN 1 ELSE 2
  /\ registry' = [registry EXCEPT ![t] = g]
  /\ body' = [body EXCEPT ![<<t, g>>].pc = "loop", ![<<t, g>>].chain = req[t].row]

\* register_turn_runtime and create_task: nothing if the task of the
\* registered runtime is not done.
StartTurn(t, g) ==
  IF registry[t] # 0 /\ Live(t, registry[t])
  THEN g = registry[t] /\ UNCHANGED <<body, registry>>
  ELSE /\ g = IF body[<<t, 1>>].pc = "none" THEN 1 ELSE 2
       /\ registry' = [registry EXCEPT ![t] = g]
       /\ body' = [body EXCEPT ![<<t, g>>].pc = "loop",
                               ![<<t, g>>].chain = req[t].row]

\* The handler starts the task before it returns the response.
Start(t) ==
  /\ req[t].pc = "ready"
  /\ \E g \in 1..2 : StartTurn(t, g)
  /\ req' = [req EXCEPT ![t].pc = "started"]
  /\ UNCHANGED <<rows, leaf, cancel, history, stream, faults, lost, overlapped>>

\* The generator of the response starts the turn once more.
Attach(t) ==
  /\ req[t].pc = "started" /\ stream[t].pc = "none" /\ t \in Watched
  /\ \E g \in 1..2 :
       /\ StartTurn(t, g)
       /\ stream' = [stream EXCEPT ![t].pc = "attached", ![t].run = g]
       /\ overlapped' = (overlapped \/ g = 2)
       /\ IF g = 2 THEN Fault ELSE UNCHANGED faults
  /\ UNCHANGED <<rows, leaf, req, cancel, history, lost>>

\* Mutant of Subscribe: nothing is replayed.
SubscribeLate(t) ==
  /\ stream[t].pc = "attached"
  /\ stream' = [stream EXCEPT ![t].pc = IF body[<<t, stream[t].run>>].pc = "closed"
                                        THEN "ended" ELSE "live"]
  /\ UNCHANGED <<rows, leaf, req, body, cancel, history, registry, faults, lost, overlapped>>

\* Replay what was published, then the sentinel or live events.
Subscribe(t) ==
  /\ stream[t].pc = "attached"
  /\ LET b == <<t, stream[t].run>> IN
       stream' = [stream EXCEPT ![t].got = history[b],
                                ![t].pc = IF body[b].pc = "closed" THEN "ended" ELSE "live"]
  /\ UNCHANGED <<rows, leaf, req, body, cancel, history, registry, faults, lost, overlapped>>

\* The client closes the connection, before or after the response began.
Disconnect(t) ==
  /\ req[t].pc = "started" /\ stream[t].pc \in {"attached", "live"}
  /\ stream' = [stream EXCEPT ![t].pc = "gone", ![t].got = <<>>]
  /\ UNCHANGED <<rows, leaf, req, body, cancel, history, registry, faults, lost, overlapped>>

RequestCancel(t) ==
  /\ Fault
  /\ registry[t] # 0
  /\ cancel' = cancel \cup {<<t, registry[t]>>}
  /\ UNCHANGED <<rows, leaf, req, body, history, registry, stream, lost, overlapped>>

-----------------------------------------------------------------------------
(* The body of a turn, in its detached task.                               *)

outside == <<req, cancel, registry, overlapped>>

\* publish_turn_event: append to the history, put to every subscriber.
Publish(t, g, events) ==
  /\ history' = [history EXCEPT ![<<t, g>>] = @ \o events]
  /\ stream' = IF stream[t].pc = "live" /\ stream[t].run = g
               THEN [stream EXCEPT ![t].got = @ \o events]
               ELSE stream

\* The generator of the body returns or raises; its locals are gone.
Leave(t, g, to) == body' = [body EXCEPT ![<<t, g>>] = [NoBody EXCEPT !.pc = to]]

\* Mutant of WriteRow: the leaf does not follow the rows of tools.
WriteRowBesideLeaf(t, g, role) ==
  /\ rows' = Append(rows, NewRow(body[<<t, g>>].chain, role, t, NoMark, TRUE))
  /\ UNCHANGED leaf

\* A row of the turn: committed with the leaf, and the turn's chain moves on.
WriteRow(t, g, role) ==
  /\ rows' = Append(rows, NewRow(body[<<t, g>>].chain, role, t, NoMark, TRUE))
  /\ leaf' = Len(rows) + 1

\* The user or the experiment is gone, or the provider is not one of the two.
LoadFails(t, g) ==
  /\ Fault
  /\ body[<<t, g>>].rounds = 0 /\ ~body[<<t, g>>].fellBack
  /\ body[<<t, g>>].pc = "loop" /\ Leave(t, g, "closing")
  /\ \/ /\ rows' = Marked(rows, StatusRow(t), t, "failed")
        /\ Publish(t, g, <<"error">>)
        /\ UNCHANGED lost
     \/ /\ lost' = lost \cup {t}
        /\ UNCHANGED <<rows, history, stream>>
  /\ UNCHANGED <<leaf, outside>>

\* A card answer and the kick force the refine tool in the first round.
Forced(t, g) == req[t].mode = "quiet" /\ body[<<t, g>>].rounds = 0

ForceTool(t, g) ==
  /\ body[<<t, g>>].pc = "loop" /\ <<t, g>> \notin cancel /\ Forced(t, g)
  /\ WriteRow(t, g, "tool_call")
  /\ body' = [body EXCEPT ![<<t, g>>].pc = "tool", ![<<t, g>>].chain = Len(rows) + 1,
                          ![<<t, g>>].rounds = 1, ![<<t, g>>].todo = 1,
                          ![<<t, g>>].refine = TRUE]
  /\ Publish(t, g, <<"tool_call">>)
  /\ UNCHANGED <<faults, lost, outside>>

\* The head of the loop and the call of the model that follows it.
Asking(t, g) == body[<<t, g>>].pc = "loop" /\ ~Forced(t, g)

\* The model asks for n tools.
AnswerTools(t, g, n) ==
  /\ Asking(t, g) /\ body[<<t, g>>].rounds < MaxToolRounds
  /\ body' = [body EXCEPT ![<<t, g>>].pc = "call", ![<<t, g>>].todo = n,
                          ![<<t, g>>].rounds = body[<<t, g>>].rounds + 1]
  /\ UNCHANGED <<rows, leaf, history, stream, faults, lost, outside>>

\* The first call of the model fails and nothing but the user row exists.
MayFallBack(t, g) ==
  /\ Asking(t, g) /\ ~body[<<t, g>>].fellBack
  /\ body[<<t, g>>].rounds = 0 /\ req[t].mode # "quiet"
  /\ body[<<t, g>>].chain = req[t].row

FallBack(t, g) ==
  /\ Fault /\ MayFallBack(t, g)
  /\ body' = [body EXCEPT ![<<t, g>>].fellBack = TRUE]
  /\ UNCHANGED <<rows, leaf, history, stream, lost, outside>>

\* The row of the next tool of the round.
CallTool(t, g, refine) ==
  /\ body[<<t, g>>].pc = "call"
  /\ WriteRow(t, g, "tool_call")
  /\ body' = [body EXCEPT ![<<t, g>>].pc = "tool", ![<<t, g>>].chain = Len(rows) + 1,
                          ![<<t, g>>].refine = refine]
  /\ Publish(t, g, <<"tool_call">>)
  /\ UNCHANGED <<faults, lost, outside>>

\* The reply a tool leaves: prose, only a question, or nothing (an error, a
\* reading tool).
ToolReplies(t, g) ==
  IF body[<<t, g>>].refine THEN {"refined", "silent", "none"} ELSE {"none"}

FinishTool(t, g, reply) ==
  LET b == body[<<t, g>>]
      owned == IF reply = "none" THEN b.reply ELSE reply
  IN /\ b.pc = "tool" /\ reply \in ToolReplies(t, g)
     /\ WriteRow(t, g, "tool_result")
     /\ body' = [body EXCEPT ![<<t, g>>] =
          [b EXCEPT !.chain = Len(rows) + 1, !.todo = b.todo - 1, !.reply = owned,
                    !.refine = FALSE,
                    !.pc = IF b.todo > 1 THEN "call"
                           ELSE IF owned # "none" THEN "final" ELSE "loop"]]
     /\ Publish(t, g, IF reply = "refined" THEN <<"token", "tool_result">>
                                           ELSE <<"tool_result">>)
     /\ UNCHANGED <<faults, lost, outside>>

\* The assistant row, the leaf and the status in one transaction; without text
\* the leaf is set to the last row of the turn.  The words of the master are
\* published before, those of the refine tool have been.
Finish(t, g) ==
  LET b == body[<<t, g>>] IN
  /\ Asking(t, g) \/ b.pc = "final"
  /\ Leave(t, g, "closing")
  /\ IF b.reply = "silent"
     THEN /\ rows' = Marked(rows, StatusRow(t), t, "done")
          /\ leaf' = b.chain
     ELSE /\ rows' = Append(Marked(rows, StatusRow(t), t, "done"),
                            NewRow(b.chain, "assistant", t, NoMark, TRUE))
          /\ leaf' = Len(rows) + 1
  /\ Publish(t, g, IF b.reply = "none" THEN <<"token", "done">> ELSE <<"done">>)
  /\ UNCHANGED <<faults, lost, outside>>

\* The cancel event is seen at the head of the loop, before and while the model
\* or a tool is awaited, and between the words of a reply.
StopsAt == {"loop", "tool"}

\* Mutant of Stop: the status of the turn is left as it is.
StopForgetsStatus(t, g) ==
  /\ <<t, g>> \in cancel /\ body[<<t, g>>].pc \in StopsAt
  /\ Leave(t, g, "closing")
  /\ UNCHANGED <<rows, leaf, history, stream, faults, lost, outside>>

\* The handler of CancelledError writes the status, and gives up if it cannot.
Stop(t, g) ==
  /\ <<t, g>> \in cancel /\ body[<<t, g>>].pc \in StopsAt
  /\ Leave(t, g, "closing")
  /\ \/ /\ rows' = Marked(rows, StatusRow(t), t, "failed")
        /\ UNCHANGED <<faults, lost>>
     \/ /\ Fault
        /\ lost' = lost \cup {t}
        /\ UNCHANGED rows
  /\ UNCHANGED <<leaf, history, stream, outside>>

\* Any other exception: roll back, then an assistant row with the apology, the
\* leaf and the status; or the status alone; or nothing, when the database
\* refuses every write.
Fail(t, g) ==
  /\ Fault
  /\ body[<<t, g>>].pc \in {"loop", "call", "tool", "final"}
  /\ ~MayFallBack(t, g)
  /\ Leave(t, g, "closing")
  /\ \/ /\ rows' = Append(Marked(rows, StatusRow(t), t, "failed"),
                          NewRow(body[<<t, g>>].chain, "assistant", t, NoMark, TRUE))
        /\ leaf' = Len(rows) + 1
        /\ Publish(t, g, <<"token", "done">>)
        /\ UNCHANGED lost
     \/ /\ rows' = Marked(rows, StatusRow(t), t, "failed")
        /\ Publish(t, g, <<"error">>)
        /\ UNCHANGED <<leaf, lost>>
     \/ /\ lost' = lost \cup {t}
        /\ Publish(t, g, <<"error">>)
        /\ UNCHANGED <<rows, leaf>>
     \/ /\ lost' = lost \cup {t}
        /\ UNCHANGED <<rows, leaf, history, stream>>
  /\ UNCHANGED outside

\* Mutant of Close: no sentinel for the subscribers.
CloseSilently(t, g) ==
  /\ body[<<t, g>>].pc = "closing" /\ Leave(t, g, "closed")
  /\ registry' = [registry EXCEPT ![t] = 0]
  /\ UNCHANGED <<rows, leaf, req, cancel, history, stream, faults, lost, overlapped>>

\* close_turn_runtime: the sentinel to every subscriber, the entry of the
\* registry removed by turn id.
Close(t, g) ==
  /\ body[<<t, g>>].pc = "closing" /\ Leave(t, g, "closed")
  /\ registry' = [registry EXCEPT ![t] = 0]
  /\ stream' = IF stream[t].pc = "live" /\ stream[t].run = g
               THEN [stream EXCEPT ![t].pc = "ended"] ELSE stream
  /\ UNCHANGED <<rows, leaf, req, cancel, history, faults, lost, overlapped>>

\* The process dies: tasks, registry, streams and open transactions are gone.
Crash ==
  /\ Fault
  /\ \E t \in Turns : Busy(t)
  /\ lost' = lost \cup {t \in Turns : Busy(t)}
  /\ body' = [b \in Runtimes |->
               IF body[b].pc \in Gone THEN body[b]
               ELSE [NoBody EXCEPT !.pc = "killed"]]
  /\ req' = [t \in Turns |-> IF req[t].pc = "idle" THEN NoRequest
                             ELSE [NoRequest EXCEPT !.pc = "over"]]
  /\ stream' = [t \in Turns |-> IF stream[t].pc \in {"attached", "live"}
                                THEN [stream[t] EXCEPT !.pc = "gone", !.got = <<>>]
                                ELSE stream[t]]
  /\ registry' = [t \in Turns |-> 0]
  /\ cancel' = {}
  /\ UNCHANGED <<rows, leaf, history, overlapped>>

-----------------------------------------------------------------------------
Handler(t) ==
  \/ CommitMessage(t) \/ CommitQuiet(t) \/ SendUser(t) \/ Refuse(t) \/ Start(t)
  \/ \E committed \in BOOLEAN : SendTool(t, committed)
  \/ \E silent \in BOOLEAN : SendDone(t, silent)

Task(t, g) ==
  \/ LoadFails(t, g) \/ ForceTool(t, g)
  \/ FallBack(t, g) \/ Finish(t, g)
  \/ \E n \in 1..MaxTools[t] : AnswerTools(t, g, n)
  \/ \E refine \in BOOLEAN : CallTool(t, g, refine)
  \/ \E reply \in {"none", "refined", "silent"} : FinishTool(t, g, reply)
  \/ Stop(t, g) \/ Fail(t, g) \/ Close(t, g)

Next ==
  \/ \E t \in Turns :
       \/ \E mode \in Modes : Open(t, mode)
       \/ Handler(t) \/ Attach(t) \/ Subscribe(t) \/ Disconnect(t) \/ RequestCancel(t)
       \/ \E g \in 1..2 : Task(t, g)
  \/ Crash

Spec == Init /\ [][Next]_vars

(* The event loop runs every handler, task and stream; the model and the   *)
(* tools answer or raise.  Nothing obliges a client to open, stop or watch. *)
FairSpec ==
  /\ Spec
  /\ \A t \in Turns : WF_vars(Handler(t)) /\ WF_vars(Subscribe(t))
  /\ \A t \in Turns, g \in 1..2 : WF_vars(Task(t, g))

-----------------------------------------------------------------------------
(* Properties.                                                             *)

\* The types of the state.
TypeOK ==
  /\ rows \in Seq(Rows) /\ leaf \in 0..Len(rows)
  /\ req \in [Turns -> Request] /\ body \in [Runtimes -> Body]
  /\ cancel \subseteq Runtimes /\ lost \subseteq Turns /\ overlapped \in BOOLEAN
  /\ history \in [Runtimes -> Seq(Events)]
  /\ registry \in [Turns -> 0..2] /\ faults \in 0..MaxFaults /\ stream \in [Turns -> Stream]

\* Whenever a stream subscribes, early, late or after the end, what it has been
\* sent is exactly what its runtime published, and it is ended exactly when that
\* runtime closed (subscribe_turn_events, publish_turn_event, close_turn_runtime).
StreamSeesItsTurn ==
  \A t \in Turns : stream[t].pc \in {"live", "ended"} =>
    LET b == <<t, stream[t].run>> IN
    /\ stream[t].got = history[b]
    /\ stream[t].pc = "ended" <=> body[b].pc = "closed"

\* The registry names a runtime exactly while its task runs, so a stop reaches
\* the body that writes and no closing task removes the entry of another.
RegistryIsTheLiveTask ==
  \A t \in Turns, g \in 1..2 : registry[t] = g <=> Live(t, g)

\* A row says that a turn is running only while that turn is prepared or has a
\* task that will still write its end, unless the process died or the database
\* refused the last write (_set_turn_status on every way out of the body).
RunningMeansAlive ==
  \A k \in DOMAIN rows : rows[k].mark.state = "running" =>
    LET t == rows[k].mark.turn IN t \in lost \/ Busy(t)

\* The turn the messages endpoint reports as in progress.
InProgress ==
  LET branch == BranchUpTo(rows, leaf)
      running == {i \in DOMAIN branch : rows[branch[i]].mark.state = "running"}
  IN IF running = {} THEN "none" ELSE rows[branch[Max(running)]].mark.turn

\* While turns do not overlap and none was lost, a client that polls is told of
\* the turn that runs, until its end is written, and of no other.
PollTellsTheTruth ==
  (~overlapped /\ lost = {}) =>
    /\ InProgress # "none" => Busy(InProgress)
    /\ \A t \in Turns : req[t].pc = "started" /\ req[t].row # NoRow =>
         \A g \in 1..2 : (Live(t, g) /\ body[<<t, g>>].pc # "closing") => InProgress = t

\* A non-streamed turn whose refine tool committed a part of it.
HalfSent(t) == \E j, k \in DOMAIN rows :
  rows[j].by = t /\ rows[k].by = t /\ rows[j].visible /\ ~rows[k].visible

\* While turns do not overlap and none was torn, the rows of tools are linear
\* children ("They MUST NOT have sibling groups", chat_message.py) and the active
\* leaf is a leaf: no reply is hidden behind another branch.
AloneIsLinear ==
  (~overlapped /\ \A t \in Turns : ~HalfSent(t)) =>
    /\ \A k \in VisibleRows(rows) :
         rows[k].role \in {"tool_call", "tool_result"} => Siblings(rows, k) = {k}
    /\ leaf # NoRow => Children(rows, leaf) = {}

\* Every turn that is opened comes to its end, and every client that watches is
\* released by the sentinel or by the end of its connection: whatever happens, the
\* thread comes to rest again.
EveryTurnEnds ==
  []<>(\A t \in Turns : ~Busy(t) /\ stream[t].pc \notin {"attached", "live"})

(* The inductive invariant of the proofs: what a row, a chain and a round may *)
(* be, when a runtime can exist, and who will write the end of a turn.     *)
InRange ==
  /\ \A t \in Turns : req[t].row <= Len(rows)
  /\ \A t \in Turns, g \in 1..2 :
       /\ body[<<t, g>>].chain <= Len(rows)
       /\ body[<<t, g>>].pc \in {"call", "tool"} => body[<<t, g>>].todo > 0

Unstarted == {"idle", "reading", "sending", "ready"}
OneAfterTheOther ==
  \A t \in Turns :
    /\ req[t].pc \in Unstarted => /\ stream[t].pc = "none"
                                  /\ body[<<t, 1>>].pc = "none"
    /\ stream[t].pc = "none" => body[<<t, 2>>].pc = "none"
    /\ stream[t].pc \in {"attached", "live", "ended"} => stream[t].run # 0

WillWriteItsEnd(t) ==
  req[t].pc = "ready" \/ \E g \in 1..2 : Live(t, g) /\ body[<<t, g>>].pc # "closing"
StatusKept ==
  \A k \in DOMAIN rows : rows[k].mark.state = "running" =>
    LET t == rows[k].mark.turn IN
    t \in lost \/ (k = StatusRow(t) /\ WillWriteItsEnd(t))

TurnInv ==
  /\ TypeOK /\ InRange /\ OneAfterTheOther /\ RegistryIsTheLiveTask
  /\ StreamSeesItsTurn /\ StatusKept

-----------------------------------------------------------------------------
(* What holds besides while turns do not overlap, for AloneIsLinear and    *)
(* PollTellsTheTruth.                                                      *)

\* A row points back to an earlier one.
PointsBack == \A k \in DOMAIN rows : rows[k].parent < k

\* Only a turn that is sent without a stream has rows that are not committed, and
\* while it is sent its last row is one of them.
Unsent ==
  /\ \A k \in DOMAIN rows : ~rows[k].visible => req[rows[k].by].pc \in {"sending", "over"}
  /\ \A t \in Turns : req[t].pc = "sending" =>
       /\ req[t].chain \in DOMAIN rows
       /\ rows[req[t].chain].by = t /\ ~rows[req[t].chain].visible

\* A response is opened for a turn whose task has begun.
Begun == \A t \in Turns : req[t].pc = "started" => body[<<t, 1>>].pc # "none"

Writing == {"loop", "call", "tool", "final"}

\* The next row of a turn follows the active leaf or, when it edits a message, is a
\* sibling of that message.
InOrder(t) ==
  /\ body[<<t, 2>>].pc = "none"
  /\ req[t].pc = "reading" =>
       IF req[t].mode = "edit"
       THEN \E m \in VisibleRows(rows) : rows[m].role = "user" /\ rows[m].parent = req[t].row
       ELSE req[t].row = leaf
  /\ req[t].pc = "sending" => req[t].chain = Len(rows)
  /\ req[t].pc = "ready" => req[t].row = leaf
  /\ body[<<t, 1>>].pc \in Writing => body[<<t, 1>>].chain = leaf

OneAtATime ==
  /\ \A t, u \in Turns : Busy(t) /\ Busy(u) => t = u
  /\ \A t \in Turns : InOrder(t)

\* The rows of the thread, and those that will be when their turn commits.
Kept == {k \in DOMAIN rows : rows[k].visible \/ req[rows[k].by].pc = "sending"}
KeptChildren(m) == {k \in Kept : rows[k].parent = m}

\* The rows of tools have no siblings, and nothing follows the active leaf but the
\* rows of a turn that has not committed yet.
OneBranch ==
  /\ \A k \in Kept : rows[k].role \in {"tool_call", "tool_result"} =>
       KeptChildren(rows[k].parent) = {k}
  /\ \A k \in KeptChildren(leaf) : req[rows[k].by].pc = "sending"

\* A turn that was torn and will not be mended.
Torn(t) == HalfSent(t) /\ req[t].pc # "sending"

OnBranch(rs, m, k) == \E i \in DOMAIN BranchUpTo(rs, m) : BranchUpTo(rs, m)[i] = k

\* The row with the status of a turn that runs says so, and a client that polls sees it.
StatusStands ==
  \A t \in Turns : WillWriteItsEnd(t) /\ req[t].row # NoRow =>
    /\ rows[req[t].row].mark = [turn |-> t, state |-> "running"]
    /\ OnBranch(rows, leaf, req[t].row)

AloneInv ==
  /\ PointsBack /\ Unsent /\ Begun
  /\ ~overlapped => OneAtATime
  /\ (~overlapped /\ \A t \in Turns : ~Torn(t)) => OneBranch
  /\ (~overlapped /\ lost = {}) => StatusStands

=============================================================================
