------------------------ MODULE UniversalTurnProofs -------------------------
(***************************************************************************)
(* Theorems about UniversalTurn, for any requests, rounds and faults.      *)
(***************************************************************************)
EXTENDS UniversalTurn, SumTheorems

(***************************************************************************)
(* The rows.                                                               *)
(***************************************************************************)

LEMMA MarkTypes ==
  /\ NoMark \in Marks /\ NoMark.state # "running"
  /\ \A t \in Turns, s \in States : [turn |-> t, state |-> s] \in Marks
<1> QED BY DEF NoMark, Marks, States

LEMMA RowTypes ==
  ASSUME NEW p \in Nat, NEW r \in Roles, NEW t \in Turns, NEW mk \in Marks, NEW v \in BOOLEAN
  PROVE  NewRow(p, r, t, mk, v) \in Rows /\ NewRow(p, r, t, mk, v).mark = mk
<1> QED BY DEF NewRow, Rows

\* Nothing in rs says that a turn runs that rows did not say before.
NoNewRunning(rs) ==
  \A k \in DOMAIN rs : rs[k].mark.state = "running" =>
    k \in DOMAIN rows /\ rs[k].mark = rows[k].mark

LEMMA AppendedRow ==
  ASSUME rows \in Seq(Rows), NEW row \in Rows, row.mark.state # "running",
         NEW rs \in Seq(Rows), Len(rs) = Len(rows), NoNewRunning(rs)
  PROVE  /\ Append(rs, row) \in Seq(Rows)
         /\ Len(Append(rs, row)) = Len(rows) + 1
         /\ NoNewRunning(Append(rs, row))
<1> DEFINE app == Append(rs, row)
<1>1. app \in Seq(Rows) /\ Len(app) = Len(rows) + 1 /\ DOMAIN app = 1..(Len(rows) + 1)
  OBVIOUS
<1>2. ASSUME NEW k \in DOMAIN app, app[k].mark.state = "running"
      PROVE  k \in DOMAIN rows /\ app[k].mark = rows[k].mark
  <2>1. k # Len(rows) + 1
    BY <1>2
  <2>2. k \in DOMAIN rs /\ app[k] = rs[k]
    BY <1>1, <2>1
  <2> QED BY <1>2, <2>2 DEF NoNewRunning
<1> QED BY <1>1, <1>2 DEF NoNewRunning

LEMMA SameRows ==
  ASSUME rows \in Seq(Rows)
  PROVE  NoNewRunning(rows)
<1> QED BY DEF NoNewRunning

\* The status of a turn that ended.
LEMMA MarkedRows ==
  ASSUME rows \in Seq(Rows), NEW m \in Nat, NEW t \in Turns, NEW s \in {"done", "failed"}
  PROVE  LET rs == Marked(rows, m, t, s) IN
         /\ rs \in Seq(Rows) /\ Len(rs) = Len(rows) /\ NoNewRunning(rs)
         /\ \A k \in DOMAIN rs : rs[k].mark.state = "running" => k # m
<1> DEFINE rs == Marked(rows, m, t, s)
           mk == [turn |-> t, state |-> s]
<1>1. CASE m = NoRow
  <2>1. rs = rows
    BY <1>1 DEF Marked
  <2>2. \A k \in DOMAIN rows : k # m
    BY <1>1 DEF NoRow
  <2> QED BY <2>1, <2>2, SameRows
<1>2. CASE m # NoRow
  <2>1. rs = [rows EXCEPT ![m].mark = mk]
    BY <1>2 DEF Marked
  <2>2. mk \in Marks /\ mk.state # "running"
    BY DEF Marks, States
  <2>3. DOMAIN rs = DOMAIN rows /\ \A k \in DOMAIN rows : k # m => rs[k] = rows[k]
    BY <2>1
  <2>4. ASSUME m \in DOMAIN rows
        PROVE  rs[m] \in Rows /\ rs[m].mark = mk
    <3>1. rows[m] \in Rows
      BY <2>4
    <3>2. rs[m] = [rows[m] EXCEPT !.mark = mk]
      BY <2>1, <2>4
    <3> QED BY <2>2, <3>1, <3>2 DEF Rows
  <2>5. \A k \in 1..Len(rows) : rs[k] \in Rows
    BY <2>3, <2>4
  <2>6. rs \in Seq(Rows) /\ Len(rs) = Len(rows)
    <3>1. rs = [k \in 1..Len(rows) |-> rs[k]]
      <4> HIDE DEF mk
      <4> DEFINE new == [rows[m] EXCEPT !.mark = mk]
      <4>1. rs = [rows EXCEPT ![m] = new]
        BY <2>1
      <4>2. DOMAIN rows = 1..Len(rows)
        OBVIOUS
      <4> HIDE DEF new, rs
      <4> QED BY <4>1, <4>2
    <3>2. rs \in [1..Len(rows) -> Rows]
      BY <2>5, <3>1
    <3> QED BY <3>2
  <2>7. \A k \in DOMAIN rs : rs[k].mark.state = "running" => k # m
    BY <2>2, <2>3, <2>4
  <2> QED BY <2>3, <2>6, <2>7 DEF NoNewRunning
<1> QED BY <1>1, <1>2

LEMMA CommittedRows ==
  ASSUME rows \in Seq(Rows), NEW t \in Turns, NEW rs \in Seq(Rows)
  PROVE  /\ Commit(rs, t) \in Seq(Rows) /\ Len(Commit(rs, t)) = Len(rs)
         /\ NoNewRunning(rs) => NoNewRunning(Commit(rs, t))
<1> DEFINE c == Commit(rs, t)
<1>0. DOMAIN rs = 1..Len(rs)
  OBVIOUS
<1>1. \A k \in 1..Len(rs) : c[k] \in Rows /\ c[k].mark = rs[k].mark
  <2> SUFFICES ASSUME NEW k \in 1..Len(rs)
               PROVE  c[k] \in Rows /\ c[k].mark = rs[k].mark
    OBVIOUS
  <2>1. rs[k] \in Rows
    OBVIOUS
  <2>2. c[k] = IF rs[k].by = t THEN [rs[k] EXCEPT !.visible = TRUE] ELSE rs[k]
    BY <1>0 DEF Commit
  <2>3. [rs[k] EXCEPT !.visible = TRUE] \in Rows
    BY <2>1 DEF Rows
  <2>4. [rs[k] EXCEPT !.visible = TRUE].mark = rs[k].mark
    BY <2>1 DEF Rows
  <2> QED BY <2>1, <2>2, <2>3, <2>4
<1>2. c \in [1..Len(rs) -> Rows]
  <2>1. c = [k \in 1..Len(rs) |-> c[k]]
    BY <1>0 DEF Commit
  <2> QED BY <1>1, <2>1
<1>3. c \in Seq(Rows) /\ Len(c) = Len(rs) /\ DOMAIN c = 1..Len(rs) /\ DOMAIN rs = 1..Len(rs)
  BY <1>2
<1> QED BY <1>1, <1>3 DEF NoNewRunning

(***************************************************************************)
(* What every step of one kind does.                                       *)
(***************************************************************************)

LEMMA DefaultTypes ==
  /\ NoRequest \in Request /\ NoBody \in Body
  /\ [NoRequest EXCEPT !.pc = "over"] \in Request
  /\ [NoBody EXCEPT !.pc = "closing"] \in Body
  /\ [NoBody EXCEPT !.pc = "closed"] \in Body
  /\ [NoBody EXCEPT !.pc = "killed"] \in Body
<1> QED BY DEF NoRequest, Request, NoBody, Body, Modes, NoRow

\* What the invariant says of one turn and one runtime.
LEMMA FieldTypes ==
  ASSUME TypeOK, NEW t \in Turns
  PROVE  /\ req[t] \in Request /\ req[t].row \in Nat /\ req[t].chain \in Nat
         /\ req[t].rounds \in Nat /\ req[t].mode \in Modes
         /\ stream[t] \in Stream /\ registry[t] \in 0..2
         /\ \A g \in 1..2 : /\ <<t, g>> \in Runtimes
                            /\ body[<<t, g>>] \in Body
                            /\ body[<<t, g>>].chain \in Nat
                            /\ body[<<t, g>>].rounds \in Nat
                            /\ body[<<t, g>>].todo \in Nat
                            /\ history[<<t, g>>] \in Seq(Events)
<1>1. req[t] \in Request /\ stream[t] \in Stream /\ registry[t] \in 0..2
  BY DEF TypeOK
<1>2. \A g \in 1..2 : <<t, g>> \in Runtimes
  BY DEF Runtimes
<1>3. \A g \in 1..2 : body[<<t, g>>] \in Body /\ history[<<t, g>>] \in Seq(Events)
  BY <1>2 DEF TypeOK
<1> QED BY <1>1, <1>2, <1>3 DEF Request, Body

LEMMA Initially == Init => TurnInv
<1> SUFFICES ASSUME Init PROVE TurnInv
  OBVIOUS
<1>1. TypeOK
  <2>1. rows \in Seq(Rows) /\ leaf \in 0..Len(rows) /\ faults \in 0..MaxFaults
    BY TurnBounds DEF Init, NoRow
  <2>2. req \in [Turns -> Request] /\ body \in [Runtimes -> Body]
    BY DefaultTypes DEF Init
  <2>3. overlapped \in BOOLEAN /\ cancel \subseteq Runtimes /\ lost \subseteq Turns
    BY DEF Init
  <2>4. history \in [Runtimes -> Seq(Events)] /\ registry \in [Turns -> 0..2]
    BY DEF Init
  <2>5. stream \in [Turns -> Stream]
    BY DEF Init, Stream
  <2> QED BY <2>1, <2>2, <2>3, <2>4, <2>5 DEF TypeOK
<1>2. \A t \in Turns, g \in 1..2 : body[<<t, g>>] = NoBody
  BY DEF Init, Runtimes
<1>7. \A t \in Turns : req[t] = NoRequest /\ stream[t].pc = "none" /\ registry[t] = 0
  BY DEF Init
<1>8. /\ NoBody.pc = "none" /\ NoBody.chain = 0 /\ NoRequest.row = 0
      /\ Len(rows) = 0
  BY DEF NoBody, NoRequest, NoRow, Init
<1>3. InRange /\ RegistryIsTheLiveTask
  BY <1>2, <1>7, <1>8 DEF InRange, RegistryIsTheLiveTask, Live, Gone
<1>4. OneAfterTheOther
  <2>1. 1 \in 1..2 /\ 2 \in 1..2
    OBVIOUS
  <2>2. \A t \in Turns : body[<<t, 1>>].pc = "none" /\ body[<<t, 2>>].pc = "none"
    BY <1>2, <1>8, <2>1
  <2> QED BY <1>7, <2>2 DEF OneAfterTheOther
<1>5. StreamSeesItsTurn /\ StatusKept
  BY DEF Init, StreamSeesItsTurn, StatusKept
<1> QED BY <1>1, <1>3, <1>4, <1>5 DEF TurnInv

\* A step of a request that has no task yet.
LEMMA RequestStep ==
  ASSUME TurnInv, NEW t \in Turns, req[t].pc \in {"idle", "reading", "sending"},
         NEW q \in Request, req' = [req EXCEPT ![t] = q],
         q.pc \in {"reading", "sending", "ready", "over"},
         rows' \in Seq(Rows), Len(rows) <= Len(rows'), leaf' \in 0..Len(rows'),
         q.row <= Len(rows'),
         \A k \in DOMAIN rows' : rows'[k].mark.state = "running" =>
           \/ k \in DOMAIN rows /\ rows'[k].mark = rows[k].mark
           \/ rows'[k].mark.turn = t /\ k = q.row /\ q.pc = "ready",
         overlapped' \in BOOLEAN, UNCHANGED <<faults, lost, tasks>>
  PROVE  TurnInv'
<1>0. UNCHANGED <<body, cancel, history, registry, stream>>
  BY DEF tasks
<1>1. TypeOK'
  BY <1>0 DEF TurnInv, TypeOK
<1>2. req'[t] = q /\ \A u \in Turns \ {t} : req'[u] = req[u]
  BY DEF TurnInv, TypeOK
<1>3. InRange'
  <2>1. \A u \in Turns : req'[u].row <= Len(rows')
    <3> TAKE u \in Turns
    <3>1. CASE u = t
      BY <1>2, <3>1
    <3>2. CASE u # t
      <4>1. req'[u].row = req[u].row /\ req[u].row <= Len(rows) /\ req[u].row \in Nat
        BY <1>2, <3>2, FieldTypes DEF TurnInv, InRange
      <4>2. Len(rows) \in Nat /\ Len(rows') \in Nat
        BY DEF TurnInv, TypeOK
      <4> QED BY <4>1, <4>2
    <3> QED BY <3>1, <3>2
  <2>2. \A u \in Turns, g \in 1..2 : body[<<u, g>>].chain <= Len(rows')
    <3> TAKE u \in Turns, g \in 1..2
    <3>1. body[<<u, g>>].chain <= Len(rows) /\ body[<<u, g>>].chain \in Nat
      BY FieldTypes DEF TurnInv, InRange
    <3>2. Len(rows) \in Nat /\ Len(rows') \in Nat
      BY DEF TurnInv, TypeOK
    <3> QED BY <3>1, <3>2
  <2> QED BY <1>0, <2>1, <2>2 DEF TurnInv, InRange
<1>4. OneAfterTheOther'
  BY <1>0, <1>2 DEF TurnInv, OneAfterTheOther, Unstarted
<1>5. RegistryIsTheLiveTask' /\ StreamSeesItsTurn'
  BY <1>0 DEF TurnInv, RegistryIsTheLiveTask, StreamSeesItsTurn, Live
<1>6. StatusKept'
  <2> SUFFICES ASSUME NEW k \in DOMAIN rows', rows'[k].mark.state = "running",
                      NEW u, u = rows'[k].mark.turn
               PROVE  u \in lost' \/ (k = req'[u].row /\ WillWriteItsEnd(u)')
    BY DEF StatusKept, StatusRow, WillWriteItsEnd, Live
  <2>1. CASE u = t /\ k = q.row /\ q.pc = "ready"
    BY <1>2, <2>1 DEF WillWriteItsEnd
  <2>2. CASE k \in DOMAIN rows /\ rows'[k].mark = rows[k].mark
    <3>1. u \in lost \/ (k = req[u].row /\ WillWriteItsEnd(u))
      BY <2>2 DEF TurnInv, StatusKept, StatusRow
    <3>2. u \in Turns
      <4>1. rows[k] \in Rows
        BY <2>2 DEF TurnInv, TypeOK
      <4> QED BY <2>2, <4>1 DEF Rows, Marks, NoMark
    <3>3. CASE u = t
      <4>1. ~Live(t, 1) /\ ~Live(t, 2)
        BY DEF TurnInv, OneAfterTheOther, Unstarted, Live, Gone
      <4>2. \A g \in 1..2 : g = 1 \/ g = 2
        OBVIOUS
      <4> QED BY <1>0, <3>1, <3>3, <4>1, <4>2 DEF WillWriteItsEnd
    <3>4. CASE u # t
      BY <1>0, <1>2, <3>1, <3>2, <3>4 DEF WillWriteItsEnd, Live
    <3> QED BY <3>3, <3>4
  <2> QED BY <2>1, <2>2
<1> QED BY <1>1, <1>3, <1>4, <1>5, <1>6 DEF TurnInv

LEMMA BaseTypes ==
  ASSUME TurnInv
  PROVE  /\ rows \in Seq(Rows) /\ Len(rows) \in Nat /\ leaf \in 0..Len(rows)
         /\ overlapped \in BOOLEAN /\ lost \subseteq Turns /\ NoNewRunning(rows)
         /\ \A t \in Turns : /\ req[t] \in Request /\ req[t].row \in Nat
                              /\ req[t].chain \in Nat /\ req[t].rounds \in Nat
                              /\ req[t].row <= Len(rows)
<1>1. /\ rows \in Seq(Rows) /\ leaf \in 0..Len(rows) /\ overlapped \in BOOLEAN
      /\ lost \subseteq Turns
  BY DEF TurnInv, TypeOK
<1>2. \A t \in Turns : /\ req[t] \in Request /\ req[t].row \in Nat
                       /\ req[t].chain \in Nat /\ req[t].rounds \in Nat
  BY FieldTypes DEF TurnInv
<1>3. \A t \in Turns : req[t].row <= Len(rows)
  BY DEF TurnInv, InRange
<1> QED BY <1>1, <1>2, <1>3, SameRows

LEMMA OpenStep ==
  ASSUME TurnInv, NEW t \in Turns, NEW mode \in Modes, Open(t, mode)
  PROVE  TurnInv'
<1>1. PICK p \in 0..Len(rows) :
        req' = [req EXCEPT ![t].pc = "reading", ![t].mode = mode, ![t].row = p]
  BY DEF Open
<1> DEFINE q == [req[t] EXCEPT !.pc = "reading", !.mode = mode, !.row = p]
<1>2. q \in Request /\ q.pc = "reading" /\ q.row = p
  <2>1. req[t] \in Request /\ p \in Nat
    BY BaseTypes
  <2> QED BY <2>1 DEF Request
<1>3. PICK r \in Request : r = q
  BY <1>2
<1>9. req' = [req EXCEPT ![t] = r] /\ r.pc = "reading" /\ r.row = p
  BY <1>1, <1>2, <1>3
<1>4. req[t].pc = "idle" /\ UNCHANGED <<rows, leaf, faults, lost, tasks>>
  BY DEF Open
<1>5. overlapped' \in BOOLEAN
  <2>1. overlapped \in BOOLEAN
    BY DEF TurnInv, TypeOK
  <2>2. overlapped' = (overlapped \/ \E u \in Turns \ {t} : Busy(u))
    BY DEF Open
  <2> QED BY <2>1, <2>2
<1>6. rows \in Seq(Rows) /\ leaf \in 0..Len(rows) /\ Len(rows) \in Nat
  BY DEF TurnInv, TypeOK
<1>7. \A k \in DOMAIN rows' : k \in DOMAIN rows /\ rows'[k].mark = rows[k].mark
  BY <1>4
<1>8. /\ rows' \in Seq(Rows) /\ Len(rows) <= Len(rows') /\ leaf' \in 0..Len(rows')
      /\ r.row <= Len(rows')
  BY <1>4, <1>6, <1>9
<1> HIDE DEF q
<1> QED BY <1>4, <1>5, <1>7, <1>8, <1>9, RequestStep

LEMMA MessageStep ==
  ASSUME TurnInv, NEW t \in Turns, CommitMessage(t)
  PROVE  TurnInv'
<1> DEFINE n == Len(rows) + 1
           q == [req[t] EXCEPT !.pc = "ready", !.row = n]
           mk == [turn |-> t, state |-> "running"]
           row == NewRow(req[t].row, "user", t, mk, TRUE)
<1>1. rows \in Seq(Rows) /\ req[t] \in Request /\ req[t].row \in Nat /\ n \in Nat
  BY BaseTypes
<1>2. q \in Request /\ q.pc = "ready" /\ q.row = n
  BY <1>1 DEF Request
<1>3. req' = [req EXCEPT ![t] = q] /\ rows' = Append(rows, row) /\ leaf' = n
  BY DEF CommitMessage
<1>4. row \in Rows /\ row.mark = mk
  <2>1. mk \in Marks
    BY MarkTypes DEF States
  <2>2. "user" \in Roles /\ TRUE \in BOOLEAN
    BY DEF Roles
  <2> HIDE DEF mk
  <2>3. PICK p \in Nat : p = req[t].row
    BY <1>1
  <2>4. NewRow(p, "user", t, mk, TRUE) \in Rows /\ NewRow(p, "user", t, mk, TRUE).mark = mk
    BY <2>1, <2>2, RowTypes
  <2> QED BY <2>3, <2>4
<1>5. rows' \in Seq(Rows) /\ Len(rows') = n /\ DOMAIN rows' = 1..n
  <2> HIDE DEF row
  <2>1. Append(rows, row) \in Seq(Rows) /\ Len(Append(rows, row)) = n
    BY <1>1, <1>4
  <2> QED BY <1>3, <2>1
<1>6. ASSUME NEW k \in DOMAIN rows'
      PROVE  \/ k \in DOMAIN rows /\ rows'[k].mark = rows[k].mark
             \/ rows'[k].mark.turn = t /\ k = n
  <2> HIDE DEF row
  <2>1. CASE k = n
    BY <1>1, <1>3, <1>4, <2>1
  <2>2. CASE k # n
    <3>1. k \in DOMAIN rows /\ rows'[k] = rows[k]
      BY <1>1, <1>3, <1>5, <2>2
    <3> QED BY <3>1
  <2> QED BY <2>1, <2>2
<1>7. /\ req[t].pc = "reading" /\ UNCHANGED <<faults, lost, tasks>>
      /\ overlapped' = overlapped /\ overlapped \in BOOLEAN
  BY DEF CommitMessage, TurnInv, TypeOK
<1>8. Len(rows) <= n /\ n \in 0..n /\ n <= n
  BY <1>1
<1>9. PICK r \in Request : r = q
  BY <1>2
<1>10. req' = [req EXCEPT ![t] = r] /\ r.pc = "ready" /\ r.row = n
  BY <1>2, <1>3, <1>9
<1> HIDE DEF q, row
<1>11. /\ Len(rows) <= Len(rows') /\ leaf' \in 0..Len(rows') /\ r.row <= Len(rows')
  BY <1>3, <1>5, <1>8, <1>10
<1>12. \A k \in DOMAIN rows' : rows'[k].mark.state = "running" =>
           \/ k \in DOMAIN rows /\ rows'[k].mark = rows[k].mark
           \/ rows'[k].mark.turn = t /\ k = r.row /\ r.pc = "ready"
  BY <1>6, <1>10
<1> HIDE DEF n
<1> QED BY <1>5, <1>7, <1>10, <1>11, <1>12, RequestStep

LEMMA RunningRows ==
  ASSUME rows \in Seq(Rows), NEW m \in Nat, NEW t \in Turns
  PROVE  LET rs == Marked(rows, m, t, "running") IN
         /\ rs \in Seq(Rows) /\ Len(rs) = Len(rows)
         /\ \A k \in DOMAIN rs : rs[k].mark.state = "running" =>
              \/ k \in DOMAIN rows /\ rs[k].mark = rows[k].mark
              \/ rs[k].mark.turn = t /\ k = m
<1> DEFINE rs == Marked(rows, m, t, "running")
           mk == [turn |-> t, state |-> "running"]
           new == [rows[m] EXCEPT !.mark = mk]
<1>1. CASE m = NoRow
  BY <1>1 DEF Marked
<1>2. CASE m # NoRow
  <2>1. rs = [rows EXCEPT ![m] = new]
    BY <1>2 DEF Marked
  <2>2. m \in DOMAIN rows => new \in Rows /\ new.mark = mk
    <3> SUFFICES ASSUME m \in DOMAIN rows PROVE new \in Rows /\ new.mark = mk
      OBVIOUS
    <3>1. rows[m] \in Rows /\ mk \in Marks
      BY DEF States, Marks
    <3> HIDE DEF mk
    <3> QED BY <3>1 DEF Rows
  <2>3. mk.turn = t
    OBVIOUS
  <2> HIDE DEF rs, new, mk
  <2>4. rs \in Seq(Rows) /\ Len(rs) = Len(rows) /\ DOMAIN rs = DOMAIN rows
    <3>1. DOMAIN rows = 1..Len(rows)
      OBVIOUS
    <3>2. rs = [k \in 1..Len(rows) |-> IF k = m THEN new ELSE rows[k]]
      BY <2>1, <3>1
    <3>3. rs \in [1..Len(rows) -> Rows]
      BY <2>2, <3>1, <3>2
    <3>4. rs \in Seq(Rows)
      BY <3>3
    <3> QED BY <3>1, <3>2, <3>4
  <2>5. \A k \in DOMAIN rs : rs[k].mark = rows[k].mark \/ (rs[k].mark.turn = t /\ k = m)
    BY <2>1, <2>2, <2>3, <2>4
  <2> QED BY <2>4, <2>5 DEF rs
<1> QED BY <1>1, <1>2

LEMMA QuietStep ==
  ASSUME TurnInv, NEW t \in Turns, CommitQuiet(t)
  PROVE  TurnInv'
<1> DEFINE q == [req[t] EXCEPT !.pc = "ready"]
<1>1. rows \in Seq(Rows) /\ req[t] \in Request /\ req[t].row \in Nat
  BY BaseTypes
<1>2. q \in Request /\ q.pc = "ready" /\ q.row = req[t].row
  BY <1>1 DEF Request
<1>3. req' = [req EXCEPT ![t] = q] /\ rows' = Marked(rows, req[t].row, t, "running")
  BY DEF CommitQuiet
<1>4. /\ rows' \in Seq(Rows) /\ Len(rows') = Len(rows) /\ Len(rows) \in Nat
      /\ \A k \in DOMAIN rows' : rows'[k].mark.state = "running" =>
           \/ k \in DOMAIN rows /\ rows'[k].mark = rows[k].mark
           \/ rows'[k].mark.turn = t /\ k = req[t].row
  BY <1>1, <1>3, RunningRows
<1>5. /\ req[t].pc = "reading" /\ UNCHANGED <<leaf, faults, lost, tasks>>
      /\ overlapped' = overlapped /\ overlapped \in BOOLEAN /\ leaf \in 0..Len(rows)
  BY DEF CommitQuiet, TurnInv, TypeOK
<1>6. req[t].row <= Len(rows)
  BY DEF TurnInv, InRange
<1>7. PICK r \in Request : r = q
  BY <1>2
<1>8. req' = [req EXCEPT ![t] = r] /\ r.pc = "ready" /\ r.row = req[t].row
  BY <1>2, <1>3, <1>7
<1>9. \A k \in DOMAIN rows' : rows'[k].mark.state = "running" =>
           \/ k \in DOMAIN rows /\ rows'[k].mark = rows[k].mark
           \/ rows'[k].mark.turn = t /\ k = r.row /\ r.pc = "ready"
  BY <1>4, <1>8
<1>10. Len(rows) <= Len(rows') /\ leaf' \in 0..Len(rows') /\ r.row <= Len(rows')
  BY <1>4, <1>5, <1>6, <1>8
<1> HIDE DEF q
<1> QED BY <1>4, <1>5, <1>8, <1>9, <1>10, RequestStep

LEMMA RefuseStep ==
  ASSUME TurnInv, NEW t \in Turns, Refuse(t)
  PROVE  TurnInv'
<1> DEFINE q == [NoRequest EXCEPT !.pc = "over"]
<1>1. q \in Request /\ q.pc = "over" /\ q.row = 0
  BY DefaultTypes DEF NoRequest, NoRow
<1>2. /\ req[t].pc \in {"reading", "sending"} /\ req' = [req EXCEPT ![t] = q]
      /\ UNCHANGED <<rows, leaf, faults, lost, tasks>> /\ overlapped' = overlapped
  BY DEF Refuse
<1>3. rows \in Seq(Rows) /\ leaf \in 0..Len(rows) /\ overlapped \in BOOLEAN /\ Len(rows) \in Nat
  BY DEF TurnInv, TypeOK
<1>4. PICK r \in Request : r = q
  BY <1>1
<1>5. req' = [req EXCEPT ![t] = r] /\ r.pc = "over" /\ r.row = 0
  BY <1>1, <1>2, <1>4
<1>6. \A k \in DOMAIN rows' : k \in DOMAIN rows /\ rows'[k].mark = rows[k].mark
  BY <1>2
<1>7. /\ rows' \in Seq(Rows) /\ Len(rows) <= Len(rows') /\ leaf' \in 0..Len(rows')
      /\ 0 <= Len(rows')
  BY <1>2, <1>3
<1> HIDE DEF q
<1> QED BY <1>2, <1>3, <1>5, <1>6, <1>7, RequestStep

\* A row that the turn writes without a status.
LEMMA PlainRow ==
  ASSUME TurnInv, NEW p \in Nat, NEW r \in Roles, NEW t \in Turns, NEW v \in BOOLEAN,
         NEW rs \in Seq(Rows), Len(rs) = Len(rows), NoNewRunning(rs)
  PROVE  LET new == Append(rs, NewRow(p, r, t, NoMark, v)) IN
         new \in Seq(Rows) /\ Len(new) = Len(rows) + 1 /\ NoNewRunning(new)
<1>1. rows \in Seq(Rows)
  BY DEF TurnInv, TypeOK
<1> DEFINE row == NewRow(p, r, t, NoMark, v)
<1>2. row \in Rows /\ row.mark.state # "running"
  BY MarkTypes, RowTypes
<1> HIDE DEF row
<1>3. Append(rs, row) \in Seq(Rows) /\ Len(Append(rs, row)) = Len(rows) + 1
      /\ NoNewRunning(Append(rs, row))
  BY <1>1, <1>2, AppendedRow
<1> QED BY <1>3 DEF row

LEMMA SendUserStep ==
  ASSUME TurnInv, NEW t \in Turns, SendUser(t)
  PROVE  TurnInv'
<1> DEFINE n == Len(rows) + 1
           q == [req[t] EXCEPT !.pc = "sending", !.row = n, !.chain = n]
<1>1. /\ rows \in Seq(Rows) /\ req[t] \in Request /\ req[t].row \in Nat /\ n \in Nat
      /\ leaf \in 0..Len(rows)
  BY BaseTypes
<1>2. q \in Request /\ q.pc = "sending" /\ q.row = n
  BY <1>1 DEF Request
<1>3. /\ req' = [req EXCEPT ![t] = q]
      /\ rows' = Append(rows, NewRow(req[t].row, "user", t, NoMark, FALSE))
  BY DEF SendUser
<1>4. NoNewRunning(rows)
  BY <1>1, SameRows
<1>5. rows' \in Seq(Rows) /\ Len(rows') = n /\ NoNewRunning(rows')
  BY <1>1, <1>3, <1>4, PlainRow DEF Roles
<1>6. /\ req[t].pc = "reading" /\ UNCHANGED <<leaf, faults, lost, tasks>>
      /\ overlapped' = overlapped /\ overlapped \in BOOLEAN
  BY DEF SendUser, TurnInv, TypeOK
<1>7. Len(rows) <= n /\ leaf \in 0..n
  BY <1>1
<1>8. PICK r \in Request : r = q
  BY <1>2
<1>9. req' = [req EXCEPT ![t] = r] /\ r.pc = "sending" /\ r.row = n
  BY <1>2, <1>3, <1>8
<1>10. n <= n
  BY <1>1
<1> HIDE DEF q, n
<1> QED BY <1>5, <1>6, <1>7, <1>9, <1>10, RequestStep DEF NoNewRunning

LEMMA SendToolStep ==
  ASSUME TurnInv, NEW t \in Turns, NEW committed \in BOOLEAN, SendTool(t, committed)
  PROVE  TurnInv'
<1> DEFINE n == Len(rows) + 2
           q == [req[t] EXCEPT !.rounds = req[t].rounds + 1, !.chain = n]
           called == Append(rows, NewRow(req[t].chain, "tool_call", t, NoMark, FALSE))
           ran == IF committed THEN Commit(called, t) ELSE called
           result == NewRow(Len(called), "tool_result", t, NoMark, FALSE)
<1>1. /\ rows \in Seq(Rows) /\ req[t] \in Request /\ req[t].row \in Nat /\ Len(rows) \in Nat
      /\ leaf \in 0..Len(rows) /\ req[t].chain \in Nat /\ req[t].rounds \in Nat
      /\ req[t].row <= Len(rows) /\ NoNewRunning(rows)
  BY BaseTypes
<1>2. req[t].pc = "sending"
  BY DEF SendTool
<1>3. q \in Request /\ q.pc = "sending" /\ q.row = req[t].row
  <2>1. PICK a \in Nat : a = req[t].rounds + 1
    BY <1>1
  <2>2. q = [req[t] EXCEPT !.rounds = a, !.chain = n] /\ n \in Nat
    BY <1>1, <2>1
  <2> HIDE DEF n, q
  <2> QED BY <1>1, <1>2, <2>2 DEF Request
<1>4. PICK r \in Request : r = q
  BY <1>3
<1>5. req' = [req EXCEPT ![t] = r] /\ r.pc = "sending" /\ r.row = req[t].row
  BY <1>3, <1>4 DEF SendTool
<1>6. called \in Seq(Rows) /\ Len(called) = Len(rows) + 1 /\ NoNewRunning(called)
  BY <1>1, PlainRow DEF Roles
<1>7. rows' = Append(ran, result)
  BY DEF SendTool
<1> HIDE DEF called
<1>8. ran \in Seq(Rows) /\ Len(ran) = Len(rows) + 1 /\ NoNewRunning(ran)
  BY <1>1, <1>6, CommittedRows
<1>9. result \in Rows /\ result.mark.state # "running"
  <2>1. Len(called) \in Nat /\ "tool_result" \in Roles /\ FALSE \in BOOLEAN
    BY <1>1, <1>6 DEF Roles
  <2>2. NoMark \in Marks /\ NoMark.state # "running"
    BY MarkTypes
  <2>3. PICK n2 \in Nat : n2 = Len(called)
    BY <2>1
  <2>4. NewRow(n2, "tool_result", t, NoMark, FALSE) \in Rows
        /\ NewRow(n2, "tool_result", t, NoMark, FALSE).mark = NoMark
    BY <2>1, <2>2, RowTypes
  <2> QED BY <2>2, <2>3, <2>4
<1> HIDE DEF ran, result
<1>10. rows' \in Seq(Rows) /\ Len(rows') = n /\ NoNewRunning(rows')
  <2>1. PICK new \in Rows : new = result
    BY <1>9
  <2>2. Append(ran, new) \in Seq(Rows) /\ Len(Append(ran, new)) = Len(ran) + 1
    BY <1>8
  <2>3. \A k \in DOMAIN Append(ran, new) :
          Append(ran, new)[k].mark.state = "running" =>
            k \in DOMAIN ran /\ Append(ran, new)[k] = ran[k]
    BY <1>8, <1>9, <2>1
  <2> QED BY <1>1, <1>7, <1>8, <2>1, <2>2, <2>3 DEF NoNewRunning
<1>11. /\ UNCHANGED <<leaf, faults, lost, tasks>>
       /\ overlapped' = overlapped /\ overlapped \in BOOLEAN
  BY BaseTypes DEF SendTool
<1>12. Len(rows) <= Len(rows') /\ leaf' \in 0..Len(rows') /\ r.row <= Len(rows')
  BY <1>1, <1>5, <1>10, <1>11
<1> HIDE DEF q, n
<1> QED BY <1>2, <1>5, <1>10, <1>11, <1>12, RequestStep DEF NoNewRunning

LEMMA SendDoneStep ==
  ASSUME TurnInv, NEW t \in Turns, NEW silent \in BOOLEAN, SendDone(t, silent)
  PROVE  TurnInv'
<1> DEFINE q == [NoRequest EXCEPT !.pc = "over"]
           written == IF silent THEN rows
                      ELSE Append(rows, NewRow(req[t].chain, "assistant", t, NoMark, FALSE))
<1>1. /\ rows \in Seq(Rows) /\ Len(rows) \in Nat /\ req[t].chain \in Nat
      /\ NoNewRunning(rows)
  BY BaseTypes
<1>2. PICK r \in Request : r = q
  BY DefaultTypes
<1>3. /\ req[t].pc = "sending" /\ req' = [req EXCEPT ![t] = r] /\ r.pc = "over" /\ r.row = 0
      /\ rows' = Commit(written, t) /\ leaf' = Len(written)
  BY <1>2 DEF SendDone, NoRequest, NoRow
<1>4. written \in Seq(Rows) /\ Len(rows) <= Len(written) /\ NoNewRunning(written)
  <2>1. CASE silent
    BY <1>1, <2>1
  <2>2. CASE ~silent
    <3> DEFINE new == Append(rows, NewRow(req[t].chain, "assistant", t, NoMark, FALSE))
    <3>1. new \in Seq(Rows) /\ Len(new) = Len(rows) + 1 /\ NoNewRunning(new)
      BY <1>1, PlainRow DEF Roles
    <3>2. written = new
      BY <2>2
    <3> HIDE DEF new, written
    <3> QED BY <1>1, <3>1, <3>2
  <2> QED BY <2>1, <2>2
<1> HIDE DEF written, q
<1>5. rows' \in Seq(Rows) /\ Len(rows') = Len(written) /\ NoNewRunning(rows')
  BY <1>1, <1>3, <1>4, CommittedRows
<1>6. /\ UNCHANGED <<faults, lost, tasks>>
      /\ overlapped' = overlapped /\ overlapped \in BOOLEAN
  BY BaseTypes DEF SendDone
<1>7. Len(rows) <= Len(rows') /\ leaf' \in 0..Len(rows') /\ r.row <= Len(rows')
  BY <1>1, <1>3, <1>4, <1>5
<1> QED BY <1>3, <1>5, <1>6, <1>7, RequestStep DEF NoNewRunning

(***************************************************************************)
(* The body of a turn.                                                     *)
(***************************************************************************)

\* The invariant of one body.
LEMMA BodyTypes ==
  ASSUME TurnInv, NEW t \in Turns, NEW g \in 1..2
  PROVE  /\ body[<<t, g>>] \in Body /\ body[<<t, g>>].chain \in Nat
         /\ body[<<t, g>>].chain <= Len(rows) /\ body[<<t, g>>].rounds \in Nat
         /\ body[<<t, g>>].todo \in Nat /\ StatusRow(t) \in Nat
         /\ body[<<t, g>>].pc \in {"call", "tool"} => body[<<t, g>>].todo > 0
         /\ faults \in 0..MaxFaults /\ lost \subseteq Turns
<1>1. body[<<t, g>>] \in Body /\ body[<<t, g>>].chain \in Nat
      /\ body[<<t, g>>].rounds \in Nat /\ body[<<t, g>>].todo \in Nat /\ StatusRow(t) \in Nat
  BY FieldTypes DEF TurnInv, StatusRow
<1>2. body[<<t, g>>].chain <= Len(rows)
      /\ (body[<<t, g>>].pc \in {"call", "tool"} => body[<<t, g>>].todo > 0)
  BY DEF TurnInv, InRange
<1>3. faults \in 0..MaxFaults /\ lost \subseteq Turns
  BY DEF TurnInv, TypeOK
<1> QED BY <1>1, <1>2, <1>3

(***************************************************************************)
(* The branch above a row.                                                 *)
(***************************************************************************)

\* The recursion of BranchUpTo, on the rows in D.
Climbs(f, rs, D) ==
  f = [k \in D |-> IF k = NoRow THEN <<>> ELSE Append(f[rs[k].parent], k)]

\* Rows of which every one follows an earlier one.
Rooted(rs) == Len(rs) \in Nat /\ \A k \in 1..Len(rs) : rs[k].parent \in 0..(k-1)

LEMMA ClimbExists ==
  ASSUME NEW rs, Rooted(rs)
  PROVE  \E f : Climbs(f, rs, 0..Len(rs))
<1> DEFINE T == {i \in Nat : i <= Len(rs) /\ ~\E f : Climbs(f, rs, 0..i)}
<1>1. T = {}
  <2> SUFFICES ASSUME T # {} PROVE FALSE
    OBVIOUS
  <2>1. PICK i \in T : \A j \in T : i <= j
    <3> HIDE DEF T
    <3>1. T \subseteq Nat
      BY DEF T
    <3> QED BY <3>1, LeastNat
  <2>2. i # 0
    <3> SUFFICES ASSUME i = 0 PROVE FALSE
      OBVIOUS
    <3>1. Climbs([k \in 0..0 |-> <<>>], rs, 0..0)
      BY DEF Climbs, NoRow
    <3> QED BY <2>1, <3>1
  <2>3. i \in Nat /\ i <= Len(rs) /\ i-1 \in Nat /\ i-1 <= Len(rs) /\ i-1 \notin T
    <3>1. i \in Nat /\ i <= Len(rs) /\ Len(rs) \in Nat
      BY <2>1 DEF Rooted
    <3>2. i-1 \in Nat /\ i-1 <= Len(rs) /\ ~(i <= i-1)
      BY <2>2, <3>1
    <3> HIDE DEF T
    <3> QED BY <2>1, <3>1, <3>2
  <2>4. PICK f : Climbs(f, rs, 0..(i-1))
    BY <2>3
  <2> DEFINE A == 0..i
             B == 0..(i-1)
             g == [k \in A |-> IF k = NoRow THEN <<>> ELSE Append(f[rs[k].parent], k)]
  <2>5. \A k \in A : k # NoRow => rs[k].parent \in B
    <3> TAKE k \in A
    <3>1. k # NoRow => k \in 1..Len(rs) /\ k <= i /\ k \in Nat
      BY <2>3 DEF NoRow, Rooted
    <3>2. k # NoRow => rs[k].parent \in 0..(k-1)
      BY <3>1 DEF Rooted
    <3> QED BY <2>3, <3>1, <3>2
  <2>6. ~\E h : Climbs(h, rs, A)
    BY <2>1
  <2>7. B \subseteq A
    BY <2>3
  <2>8. A = DOMAIN g
        /\ \A k \in A : g[k] = IF k = NoRow THEN <<>> ELSE Append(f[rs[k].parent], k)
    OBVIOUS
  <2>9. \A k \in B : f[k] = IF k = NoRow THEN <<>> ELSE Append(f[rs[k].parent], k)
    BY <2>4 DEF Climbs
  <2> HIDE DEF A, B
  <2>10. \A k \in B : g[k] = f[k]
    BY <2>7, <2>8, <2>9
  <2>11. \A k \in A : g[k] = IF k = NoRow THEN <<>> ELSE Append(g[rs[k].parent], k)
    BY <2>5, <2>8, <2>10
  <2>12. g = [k \in A |-> IF k = NoRow THEN <<>> ELSE Append(g[rs[k].parent], k)]
    BY <2>8, <2>11
  <2>13. Climbs(g, rs, A)
    <3> HIDE DEF g
    <3> QED BY <2>12 DEF Climbs
  <2> QED BY <2>6, <2>13
<1>2. Len(rs) \notin T
  BY <1>1
<1> QED BY <1>2 DEF Rooted

\* One step of the climb.
LEMMA ClimbsTo ==
  ASSUME NEW rs, Rooted(rs)
  PROVE  /\ BranchUpTo(rs, NoRow) = <<>>
         /\ \A m \in 1..Len(rs) :
              BranchUpTo(rs, m) = Append(BranchUpTo(rs, rs[m].parent), m)
<1> DEFINE D == 0..Len(rs)
           f == CHOOSE f : Climbs(f, rs, D)
<1>1. Climbs(f, rs, D)
  BY ClimbExists
<1>2. \A m : BranchUpTo(rs, m) = f[m]
  BY DEF BranchUpTo, Climbs
<1> HIDE DEF f
<1>3. \A k \in D : f[k] = IF k = NoRow THEN <<>> ELSE Append(f[rs[k].parent], k)
  BY <1>1 DEF Climbs
<1>4. NoRow \in D /\ \A m \in 1..Len(rs) : m \in D /\ m # NoRow
  BY DEF NoRow, Rooted
<1> QED BY <1>2, <1>3, <1>4

\* A property of every branch: true of the root, and kept by one more row.
LEMMA ClimbIn ==
  ASSUME NEW rs, Rooted(rs), NEW m \in 0..Len(rs)
  PROVE  BranchUpTo(rs, m) \in Seq(1..Len(rs))
<1> DEFINE T == {k \in 0..Len(rs) : BranchUpTo(rs, k) \notin Seq(1..Len(rs))}
<1>1. T = {}
  <2> SUFFICES ASSUME T # {} PROVE FALSE
    OBVIOUS
  <2>1. PICK k \in T : \A j \in T : k <= j
    <3> HIDE DEF T
    <3>1. T \subseteq Nat
      BY DEF T
    <3> QED BY <3>1, LeastNat
  <2>2. k \in 0..Len(rs) /\ BranchUpTo(rs, k) \notin Seq(1..Len(rs)) /\ Len(rs) \in Nat
    BY <2>1 DEF Rooted
  <2>3. k # NoRow
    <3>1. \A S : <<>> \in Seq(S)
      OBVIOUS
    <3> QED BY <2>2, <3>1, ClimbsTo
  <2>4. k \in 1..Len(rs) /\ k \in Nat
    BY <2>2, <2>3 DEF NoRow
  <2>5. rs[k].parent \in 0..(k-1)
    BY <2>4 DEF Rooted
  <2>6. rs[k].parent \in 0..Len(rs) /\ ~(k <= rs[k].parent)
    BY <2>2, <2>4, <2>5
  <2>7. rs[k].parent \notin T
    <3> HIDE DEF T
    <3> QED BY <2>1, <2>6
  <2>8. BranchUpTo(rs, rs[k].parent) \in Seq(1..Len(rs))
    BY <2>6, <2>7
  <2>9. BranchUpTo(rs, k) = Append(BranchUpTo(rs, rs[k].parent), k)
    BY <2>4, ClimbsTo
  <2> HIDE DEF T
  <2> QED BY <2>2, <2>4, <2>8, <2>9
<1> QED BY <1>1

\* Rows that come later, and other marks, change no branch.
LEMMA ClimbSame ==
  ASSUME NEW rs, Rooted(rs), NEW qs, Rooted(qs), Len(rs) <= Len(qs),
         \A k \in 1..Len(rs) : qs[k].parent = rs[k].parent,
         NEW m \in 0..Len(rs)
  PROVE  BranchUpTo(qs, m) = BranchUpTo(rs, m)
<1> DEFINE T == {k \in 0..Len(rs) : BranchUpTo(qs, k) # BranchUpTo(rs, k)}
<1>1. T = {}
  <2> SUFFICES ASSUME T # {} PROVE FALSE
    OBVIOUS
  <2>1. PICK k \in T : \A j \in T : k <= j
    <3> HIDE DEF T
    <3>1. T \subseteq Nat
      BY DEF T
    <3> QED BY <3>1, LeastNat
  <2>2. /\ k \in 0..Len(rs) /\ BranchUpTo(qs, k) # BranchUpTo(rs, k)
        /\ Len(rs) \in Nat /\ Len(qs) \in Nat
    BY <2>1 DEF Rooted
  <2>3. k # NoRow
    BY <2>2, ClimbsTo
  <2>4. k \in 1..Len(rs) /\ k \in 1..Len(qs) /\ k \in Nat
    BY <2>2, <2>3 DEF NoRow
  <2>5. rs[k].parent \in 0..(k-1) /\ qs[k].parent = rs[k].parent
    BY <2>4 DEF Rooted
  <2>6. rs[k].parent \in 0..Len(rs) /\ ~(k <= rs[k].parent)
    BY <2>2, <2>4, <2>5
  <2>7. rs[k].parent \notin T
    <3> HIDE DEF T
    <3> QED BY <2>1, <2>6
  <2>8. BranchUpTo(qs, rs[k].parent) = BranchUpTo(rs, rs[k].parent)
    BY <2>6, <2>7
  <2>9. /\ BranchUpTo(rs, k) = Append(BranchUpTo(rs, rs[k].parent), k)
        /\ BranchUpTo(qs, k) = Append(BranchUpTo(qs, rs[k].parent), k)
    BY <2>4, <2>5, ClimbsTo
  <2> QED BY <2>2, <2>8, <2>9
<1> QED BY <1>1

LEMMA BranchParts ==
  /\ \A rs, m : Rooted(rs) /\ m \in 1..Len(rs) => OnBranch(rs, m, m)
  /\ \A rs, m, k : Rooted(rs) /\ m \in 1..Len(rs) /\ OnBranch(rs, rs[m].parent, k)
                   => OnBranch(rs, m, k)
<1>1. ASSUME NEW rs, Rooted(rs), NEW m \in 1..Len(rs)
      PROVE  /\ OnBranch(rs, m, m)
             /\ \A k : OnBranch(rs, rs[m].parent, k) => OnBranch(rs, m, k)
  <2> DEFINE up == BranchUpTo(rs, rs[m].parent)
             S == 1..Len(rs)
  <2>1. rs[m].parent \in 0..(m-1) /\ Len(rs) \in Nat
    BY <1>1 DEF Rooted
  <2>2. up \in Seq(S)
    <3>1. rs[m].parent \in 0..Len(rs)
      BY <2>1
    <3> QED BY <1>1, <3>1, ClimbIn
  <2>3. BranchUpTo(rs, m) = Append(up, m)
    BY <1>1, ClimbsTo
  <2>4. m \in S
    OBVIOUS
  <2> HIDE DEF up, S
  <2>5. /\ Append(up, m) \in Seq(S) /\ Len(Append(up, m)) = Len(up) + 1 /\ Len(up) \in Nat
        /\ Append(up, m)[Len(up) + 1] = m
        /\ \A i \in DOMAIN up : i \in DOMAIN Append(up, m) /\ Append(up, m)[i] = up[i]
    BY <2>2, <2>4
  <2>6. Len(up) + 1 \in DOMAIN Append(up, m)
    BY <2>5
  <2>7. OnBranch(rs, m, m)
    BY <2>3, <2>5, <2>6 DEF OnBranch
  <2>8. ASSUME NEW k, OnBranch(rs, rs[m].parent, k) PROVE OnBranch(rs, m, k)
    <3>1. PICK i \in DOMAIN up : up[i] = k
      BY <2>8 DEF OnBranch, up
    <3> QED BY <2>3, <2>5, <3>1 DEF OnBranch
  <2> QED BY <2>7, <2>8
<1> QED BY <1>1

LEMMA BranchStays ==
  ASSUME NEW rs, Rooted(rs), NEW qs, Rooted(qs), Len(rs) <= Len(qs),
         \A k \in 1..Len(rs) : qs[k].parent = rs[k].parent,
         NEW m \in 0..Len(rs), NEW k
  PROVE  OnBranch(qs, m, k) <=> OnBranch(rs, m, k)
<1>1. BranchUpTo(qs, m) = BranchUpTo(rs, m)
  BY ClimbSame
<1> QED BY <1>1 DEF OnBranch

(***************************************************************************)
(* How a step changes the rows.                                            *)
(***************************************************************************)

\* The same thread, with other marks.
SameShape(rs) ==
  /\ rs \in Seq(Rows) /\ Len(rs) = Len(rows)
  /\ \A k \in DOMAIN rows :
       /\ rs[k].parent = rows[k].parent /\ rs[k].role = rows[k].role
       /\ rs[k].by = rows[k].by /\ rs[k].visible = rows[k].visible

\* The turn t adds rows, one below the other, the first below p; what it had not
\* committed may become visible.
Grows(t, p) ==
  /\ rows' \in Seq(Rows) /\ Len(rows) <= Len(rows') /\ p \in 0..Len(rows)
  /\ \A k \in DOMAIN rows :
       /\ rows'[k].parent = rows[k].parent /\ rows'[k].role = rows[k].role
       /\ rows'[k].by = rows[k].by
       /\ rows[k].visible => rows'[k].visible
       /\ rows'[k].visible /\ ~rows[k].visible => rows[k].by = t /\ req[t].pc = "sending"
  /\ \A k \in DOMAIN rows' \ DOMAIN rows :
       /\ rows'[k].by = t
       /\ rows'[k].parent = IF k = Len(rows) + 1 THEN p ELSE k - 1

Others(t) == \A u \in Turns \ {t} :
  req'[u] = req[u] /\ \A g \in 1..2 : body'[<<u, g>>] = body[<<u, g>>]
Alone(t) == \A u \in Turns \ {t} : ~Busy(u)

LEMMA RowFields ==
  ASSUME NEW rs \in Seq(Rows), NEW k \in DOMAIN rs
  PROVE  /\ k \in 1..Len(rs) /\ k \in Nat /\ rs[k] \in Rows
         /\ rs[k].parent \in Nat /\ rs[k].role \in Roles /\ rs[k].by \in Turns
         /\ rs[k].visible \in BOOLEAN /\ rs[k].mark \in Marks
<1>1. rs[k] \in Rows /\ k \in 1..Len(rs) /\ Len(rs) \in Nat
  OBVIOUS
<1> QED BY <1>1 DEF Rows

LEMMA Domains ==
  ASSUME TurnInv
  PROVE  /\ rows \in Seq(Rows) /\ Len(rows) \in Nat /\ DOMAIN rows = 1..Len(rows)
         /\ leaf \in 0..Len(rows) /\ leaf \in Nat
<1>1. rows \in Seq(Rows) /\ leaf \in 0..Len(rows)
  BY DEF TurnInv, TypeOK
<1> QED BY <1>1

LEMMA NowRooted ==
  ASSUME TurnInv, PointsBack
  PROVE  Rooted(rows)
<1>1. ASSUME NEW k \in 1..Len(rows) PROVE rows[k].parent \in 0..(k-1)
  <2>1. k \in DOMAIN rows /\ rows \in Seq(Rows)
    BY Domains
  <2>2. rows[k].parent < k /\ rows[k].parent \in Nat /\ k \in Nat
    BY <2>1, RowFields DEF PointsBack
  <2> QED BY <2>2
<1> QED BY <1>1, Domains DEF Rooted

LEMMA NewRows ==
  ASSUME TurnInv, NEW t, NEW p, Grows(t, p)
  PROVE  /\ Len(rows) \in Nat /\ Len(rows') \in Nat /\ p \in Nat /\ p <= Len(rows)
         /\ DOMAIN rows = 1..Len(rows) /\ DOMAIN rows' = 1..Len(rows')
         /\ \A k \in DOMAIN rows' : k \in DOMAIN rows \/ (k \in Nat /\ Len(rows) < k)
<1>1. rows \in Seq(Rows) /\ Len(rows) \in Nat /\ rows' \in Seq(Rows) /\ p \in 0..Len(rows)
  BY Domains DEF Grows
<1>2. Len(rows') \in Nat /\ DOMAIN rows = 1..Len(rows) /\ DOMAIN rows' = 1..Len(rows')
  BY <1>1
<1>3. p \in Nat /\ p <= Len(rows)
  BY <1>1
<1>4. \A k \in DOMAIN rows' : k \in DOMAIN rows \/ (k \in Nat /\ Len(rows) < k)
  BY <1>1, <1>2
<1> QED BY <1>1, <1>2, <1>3, <1>4

LEMMA PointsStep ==
  ASSUME TurnInv, PointsBack, NEW t, NEW p, Grows(t, p)
  PROVE  PointsBack'
<1>1. ASSUME NEW k \in DOMAIN rows' PROVE rows'[k].parent < k
  <2>1. CASE k \in DOMAIN rows
    BY <2>1 DEF Grows, PointsBack
  <2>2. CASE k \notin DOMAIN rows
    <3>1. k \in Nat /\ Len(rows) < k /\ p \in Nat /\ p <= Len(rows) /\ Len(rows) \in Nat
      BY <2>2, NewRows
    <3>2. rows'[k].parent = IF k = Len(rows) + 1 THEN p ELSE k - 1
      BY <2>2 DEF Grows
    <3> QED BY <3>1, <3>2
  <2> QED BY <2>1, <2>2
<1> QED BY <1>1 DEF PointsBack

\* What holds whether or not turns overlap.
FirstInv == PointsBack /\ Unsent /\ Begun

LEMMA FirstStep ==
  ASSUME TurnInv, FirstInv, NEW t \in Turns, NEW p, Grows(t, p), Others(t),
         \A k \in DOMAIN rows' \ DOMAIN rows : rows'[k].visible \/ req'[t].pc = "sending",
         req[t].pc \in {"sending", "over"} => req'[t].pc \in {"sending", "over"},
         req'[t].pc = "sending" => /\ req'[t].chain \in DOMAIN rows'
                                   /\ rows'[req'[t].chain].by = t
                                   /\ ~rows'[req'[t].chain].visible,
         req'[t].pc = "started" => body'[<<t, 1>>].pc # "none"
  PROVE  FirstInv'
<1>1. PointsBack'
  BY PointsStep DEF FirstInv
<1>2. ASSUME NEW k \in DOMAIN rows', ~rows'[k].visible
      PROVE  req'[rows'[k].by].pc \in {"sending", "over"}
  <2>1. CASE k \notin DOMAIN rows
    <3>1. rows'[k].by = t /\ req'[t].pc = "sending"
      BY <1>2, <2>1 DEF Grows
    <3> QED BY <3>1
  <2>2. CASE k \in DOMAIN rows
    <3>1. rows'[k].by = rows[k].by /\ ~rows[k].visible
      BY <1>2, <2>2 DEF Grows
    <3>2. req[rows[k].by].pc \in {"sending", "over"}
      BY <2>2, <3>1 DEF FirstInv, Unsent
    <3>3. rows[k].by \in Turns
      BY <2>2, RowFields, Domains
    <3> QED BY <3>1, <3>2, <3>3 DEF Others
  <2> QED BY <2>1, <2>2
<1>3. ASSUME NEW u \in Turns, req'[u].pc = "sending"
      PROVE  /\ req'[u].chain \in DOMAIN rows'
             /\ rows'[req'[u].chain].by = u /\ ~rows'[req'[u].chain].visible
  <2>1. CASE u = t
    BY <1>3, <2>1
  <2>2. CASE u # t
    <3>1. req'[u] = req[u] /\ req[u].pc = "sending"
      BY <1>3, <2>2 DEF Others
    <3> DEFINE c == req[u].chain
    <3>2. c \in DOMAIN rows /\ rows[c].by = u /\ ~rows[c].visible
      BY <3>1 DEF FirstInv, Unsent
    <3> HIDE DEF c
    <3>3. c \in DOMAIN rows'
      BY <3>2, NewRows DEF Grows
    <3>4. rows'[c].by = u /\ ~rows'[c].visible
      BY <2>2, <3>2 DEF Grows
    <3> QED BY <3>1, <3>3, <3>4 DEF c
  <2> QED BY <2>1, <2>2
<1>4. ASSUME NEW u \in Turns, req'[u].pc = "started" PROVE body'[<<u, 1>>].pc # "none"
  <2>1. CASE u = t
    BY <1>4, <2>1
  <2>2. CASE u # t
    <3>1. 1 \in 1..2
      OBVIOUS
    <3> QED BY <1>4, <2>2, <3>1 DEF Others, FirstInv, Begun
  <2> QED BY <2>1, <2>2
<1> QED BY <1>1, <1>2, <1>3, <1>4 DEF FirstInv, Unsent, Begun

\* The turns that are not busy have nothing to keep in order.
LEMMA OrderStep ==
  ASSUME OneAtATime, NEW t \in Turns, Others(t), Alone(t), InOrder(t)'
  PROVE  OneAtATime' /\ Alone(t)'
<1>0. 1 \in 1..2 /\ 2 \in 1..2
  OBVIOUS
<1>1. ASSUME NEW u \in Turns \ {t} PROVE ~Busy(u)' /\ InOrder(u)'
  <2>1. req'[u] = req[u] /\ \A g \in 1..2 : body'[<<u, g>>] = body[<<u, g>>]
    BY DEF Others
  <2>2. ~Busy(u)
    BY DEF Alone
  <2>3. ~Busy(u)'
    BY <2>1, <2>2 DEF Busy, InRequest, Live
  <2>4. req'[u].pc \notin {"reading", "sending", "ready"} /\ body'[<<u, 1>>].pc \in Gone
    BY <1>0, <2>3 DEF Busy, InRequest, Live
  <2>5. body'[<<u, 2>>].pc = "none"
    BY <1>0, <2>1 DEF OneAtATime, InOrder
  <2> QED BY <2>3, <2>4, <2>5 DEF InOrder, Writing, Gone
<1>2. Alone(t)'
  BY <1>1 DEF Alone
<1>3. \A u, v \in Turns : Busy(u)' /\ Busy(v)' => u = v
  BY <1>1
<1>4. OneAtATime'
  BY <1>1, <1>3 DEF OneAtATime
<1> QED BY <1>2, <1>4

\* A torn turn stays torn.
LEMMA TornStays ==
  ASSUME TurnInv, FirstInv, NEW t \in Turns, NEW p, Grows(t, p), Others(t),
         req'[t].pc = "sending" => req[t].pc \in {"reading", "sending"},
         NEW u \in Turns, Torn(u)
  PROVE  Torn(u)'
<1>1. PICK j \in DOMAIN rows, k \in DOMAIN rows :
        rows[j].by = u /\ rows[k].by = u /\ rows[j].visible /\ ~rows[k].visible
  BY DEF Torn, HalfSent
<1>2. req[u].pc = "over"
  <2>1. req[rows[k].by].pc \in {"sending", "over"}
    BY <1>1 DEF FirstInv, Unsent
  <2> QED BY <1>1, <2>1 DEF Torn
<1>3. req'[u].pc # "sending"
  BY <1>2 DEF Others
<1>4. j \in DOMAIN rows' /\ k \in DOMAIN rows'
  BY <1>1, NewRows DEF Grows
<1>5. rows'[j].by = u /\ rows'[j].visible /\ rows'[k].by = u
  BY <1>1 DEF Grows
<1>6. ~rows'[k].visible
  <2>1. rows'[k].visible => rows[k].by = t /\ req[t].pc = "sending"
    BY <1>1 DEF Grows
  <2> QED BY <1>1, <1>2, <2>1
<1> QED BY <1>3, <1>4, <1>5, <1>6 DEF Torn, HalfSent

LEMMA NothingBelow ==
  ASSUME TurnInv, PointsBack
  PROVE  KeptChildren(Len(rows)) = {}
<1>1. ASSUME NEW k \in KeptChildren(Len(rows)) PROVE FALSE
  <2>1. k \in DOMAIN rows /\ rows[k].parent = Len(rows)
    BY DEF KeptChildren, Kept
  <2> QED BY <2>1, Domains DEF PointsBack
<1> QED BY <1>1

Tools == {"tool_call", "tool_result"}

LEMMA BranchStep ==
  ASSUME TurnInv, FirstInv, FirstInv', OneBranch, \A u \in Turns : ~Torn(u)',
         NEW t \in Turns, NEW p, Grows(t, p), Others(t), Alone(t),
         req'[t].pc = "sending" => req[t].pc \in {"reading", "sending"},
         Len(rows') # Len(rows) =>
           /\ \A k \in Kept : rows[k].role \in Tools => rows[k].parent # p
           /\ rows'[Len(rows) + 1].role \in Tools => KeptChildren(p) = {},
         \/ leaf' = Len(rows')
         \/ /\ leaf' = leaf
            /\ Len(rows') # Len(rows) => req'[t].pc = "sending"
            /\ req[t].pc = "sending" => req'[t].pc = "sending" \/ rows' = rows
  PROVE  OneBranch'
<1> DEFINE n == Len(rows)
           m == Len(rows')
<1>0. /\ n \in Nat /\ m \in Nat /\ p \in Nat /\ p <= n
      /\ DOMAIN rows = 1..n /\ DOMAIN rows' = 1..m
  BY NewRows
<1>1. ASSUME NEW k \in Kept', k \in DOMAIN rows
      PROVE  k \in Kept
  <2>1. rows'[k].visible \/ req'[rows'[k].by].pc = "sending"
    BY <1>1 DEF Kept
  <2>2. rows'[k].by = rows[k].by /\ rows[k].by \in Turns
    BY <1>1, RowFields, Domains DEF Grows
  <2>3. CASE rows[k].visible
    BY <1>1, <2>3 DEF Kept
  <2>4. CASE ~rows[k].visible
    <3>1. req[rows[k].by].pc \in {"sending", "over"}
      BY <1>1, <2>4 DEF FirstInv, Unsent
    <3>2. req[rows[k].by].pc = "sending"
      <4>1. CASE rows'[k].visible
        BY <1>1, <2>4, <4>1 DEF Grows
      <4>2. CASE req'[rows[k].by].pc = "sending"
        <5>1. CASE rows[k].by = t
          BY <3>1, <4>2, <5>1
        <5>2. CASE rows[k].by # t
          BY <2>2, <4>2, <5>2 DEF Others
        <5> QED BY <5>1, <5>2
      <4> QED BY <2>1, <2>2, <4>1, <4>2
    <3> QED BY <1>1, <3>2 DEF Kept
  <2> QED BY <2>3, <2>4
<1>2. \A k \in Kept' : k \in DOMAIN rows'
  BY DEF Kept
<1>3. ASSUME NEW k \in DOMAIN rows', k \notin DOMAIN rows
      PROVE  /\ k \in Nat /\ n < k /\ m # n
             /\ rows'[k].by = t /\ rows'[k].parent = IF k = n + 1 THEN p ELSE k - 1
  <2>1. k \in Nat /\ n < k /\ k <= m
    <3> HIDE DEF n, m
    <3> QED BY <1>0, <1>3
  <2>2. rows'[k].by = t /\ rows'[k].parent = IF k = n + 1 THEN p ELSE k - 1
    BY <1>3 DEF Grows
  <2> HIDE DEF n, m
  <2> QED BY <1>0, <2>1, <2>2
<1>4. ASSUME NEW k \in DOMAIN rows
      PROVE  /\ k \in Nat /\ k <= n /\ rows[k].parent \in Nat /\ rows[k].parent < k
             /\ rows'[k].parent = rows[k].parent /\ rows'[k].role = rows[k].role
             /\ rows'[k].by = rows[k].by /\ rows[k].by \in Turns
  <2>1. rows[k].parent < k
    BY DEF FirstInv, PointsBack
  <2>2. /\ rows'[k].parent = rows[k].parent /\ rows'[k].role = rows[k].role
        /\ rows'[k].by = rows[k].by
    BY DEF Grows
  <2>3. rows[k].parent \in Nat /\ rows[k].by \in Turns
    BY RowFields, Domains
  <2>4. k \in Nat /\ k <= n
    <3> HIDE DEF n, m
    <3> QED BY <1>0
  <2> QED BY <2>1, <2>2, <2>3, <2>4
<1> HIDE DEF n, m
<1>5. ASSUME NEW k \in Kept', rows'[k].role \in Tools,
             NEW j \in Kept', rows'[j].parent = rows'[k].parent
      PROVE  j = k
  <2>1. CASE j \in DOMAIN rows /\ k \in DOMAIN rows
    <3>1. j \in Kept /\ k \in Kept
      BY <1>1, <2>1
    <3>2. KeptChildren(rows[k].parent) = {k}
      BY <1>4, <1>5, <2>1, <3>1 DEF OneBranch, Tools
    <3>3. j \in KeptChildren(rows[k].parent)
      BY <1>4, <1>5, <2>1, <3>1 DEF KeptChildren
    <3> QED BY <3>2, <3>3
  <2>2. CASE j \notin DOMAIN rows /\ k \in DOMAIN rows
    <3>1. k \in Kept /\ rows[k].role \in Tools
      BY <1>1, <1>4, <1>5, <2>2
    <3>2. /\ j \in Nat /\ n < j /\ m # n
          /\ rows'[j].parent = IF j = n + 1 THEN p ELSE j - 1
      BY <1>2, <1>3, <2>2
    <3>3. rows[k].parent # p
      BY <3>1, <3>2 DEF n, m
    <3>4. rows[k].parent < n /\ rows[k].parent \in Nat
      BY <1>0, <1>4, <2>2
    <3>5. rows'[j].parent = rows[k].parent
      BY <1>4, <1>5, <2>2
    <3> QED BY <1>0, <3>2, <3>3, <3>4, <3>5
  <2>3. CASE j \in DOMAIN rows /\ k \notin DOMAIN rows
    <3>1. /\ k \in Nat /\ n < k /\ m # n
          /\ rows'[k].parent = IF k = n + 1 THEN p ELSE k - 1
      BY <1>2, <1>3, <2>3
    <3>2. j \in Kept /\ rows[j].parent < n /\ rows'[j].parent = rows[j].parent
      BY <1>0, <1>1, <1>4, <2>3
    <3>3. k = n + 1
      BY <1>0, <1>4, <1>5, <2>3, <3>1, <3>2
    <3>4. KeptChildren(p) = {}
      BY <1>5, <3>1, <3>3 DEF n, m
    <3>5. j \in KeptChildren(p)
      BY <1>5, <3>1, <3>2, <3>3 DEF KeptChildren
    <3> QED BY <3>4, <3>5
  <2>4. CASE j \notin DOMAIN rows /\ k \notin DOMAIN rows
    <3>1. /\ k \in Nat /\ n < k /\ rows'[k].parent = IF k = n + 1 THEN p ELSE k - 1
          /\ j \in Nat /\ n < j /\ rows'[j].parent = IF j = n + 1 THEN p ELSE j - 1
      BY <1>2, <1>3, <2>4
    <3> QED BY <1>0, <1>5, <3>1
  <2> QED BY <2>1, <2>2, <2>3, <2>4
<1>6. ASSUME NEW k \in Kept', rows'[k].parent = leaf'
      PROVE  req'[rows'[k].by].pc = "sending"
  <2>1. CASE leaf' = Len(rows')
    <3>1. rows'[k].parent < k
      BY <1>2 DEF FirstInv, PointsBack
    <3>2. k \in 1..m /\ rows'[k].parent = m
      BY <1>0, <1>2, <1>6, <2>1 DEF m
    <3> QED BY <1>0, <3>1, <3>2
  <2>2. CASE /\ leaf' = leaf
             /\ Len(rows') # Len(rows) => req'[t].pc = "sending"
             /\ req[t].pc = "sending" => req'[t].pc = "sending" \/ rows' = rows
    <3>1. CASE k \notin DOMAIN rows
      BY <1>2, <1>3, <2>2, <3>1 DEF n, m
    <3>2. CASE k \in DOMAIN rows
      <4>1. k \in KeptChildren(leaf) /\ rows'[k].by = rows[k].by /\ rows[k].by \in Turns
        BY <1>1, <1>4, <1>6, <2>2, <3>2 DEF KeptChildren
      <4>2. req[rows[k].by].pc = "sending"
        BY <4>1 DEF OneBranch
      <4>3. rows[k].by = t
        BY <4>1, <4>2 DEF Alone, Busy, InRequest
      <4>4. CASE req'[t].pc # "sending"
        <5>1. rows' = rows
          BY <2>2, <4>2, <4>3, <4>4
        <5>2. rows'[k].visible
          BY <4>1, <4>3, <4>4 DEF Kept
        <5> DEFINE c == req[t].chain
        <5>3. c \in DOMAIN rows /\ rows[c].by = t /\ ~rows[c].visible
          BY <4>2, <4>3 DEF FirstInv, Unsent
        <5> HIDE DEF c
        <5>4. HalfSent(t)'
          BY <3>2, <4>3, <5>1, <5>2, <5>3 DEF HalfSent
        <5>5. Torn(t)'
          BY <4>4, <5>4 DEF Torn
        <5> QED BY <5>5
      <4> QED BY <4>1, <4>3, <4>4
    <3> QED BY <3>1, <3>2
  <2> QED BY <2>1, <2>2
<1>7. ASSUME NEW k \in Kept', rows'[k].role \in {"tool_call", "tool_result"}
      PROVE  KeptChildren(rows[k].parent)' = {k}
  <2>1. k \in KeptChildren(rows[k].parent)'
    BY DEF KeptChildren
  <2>2. ASSUME NEW j \in KeptChildren(rows[k].parent)' PROVE j = k
    <3>1. j \in Kept' /\ rows'[j].parent = rows'[k].parent
      BY <2>2 DEF KeptChildren
    <3> QED BY <1>5, <1>7, <3>1 DEF Tools
  <2> QED BY <2>1, <2>2
<1>8. ASSUME NEW k \in KeptChildren(leaf)' PROVE req'[rows'[k].by].pc = "sending"
  <2>1. k \in Kept' /\ rows'[k].parent = leaf'
    BY <1>8 DEF KeptChildren
  <2> QED BY <1>6, <2>1
<1> QED BY <1>7, <1>8 DEF OneBranch

\* The status row of the turn that acts is the only one that can be wrong.
LEMMA StatusStep ==
  ASSUME NEW t \in Turns, Alone(t)',
         WillWriteItsEnd(t)' /\ req'[t].row # NoRow =>
           /\ rows'[req'[t].row].mark = [turn |-> t, state |-> "running"]
           /\ OnBranch(rows', leaf', req'[t].row)
  PROVE  StatusStands'
<1>1. ASSUME NEW u \in Turns, WillWriteItsEnd(u)' PROVE u = t
  <2>1. Busy(u)'
    BY <1>1 DEF WillWriteItsEnd, Busy, InRequest, Live
  <2> QED BY <2>1 DEF Alone
<1> QED BY <1>1 DEF StatusStands

LEMMA SeqRooted ==
  ASSUME NEW rs \in Seq(Rows), \A k \in DOMAIN rs : rs[k].parent < k
  PROVE  Rooted(rs)
<1>1. ASSUME NEW k \in 1..Len(rs) PROVE rs[k].parent \in 0..(k-1)
  <2>1. k \in DOMAIN rs
    OBVIOUS
  <2>2. rs[k].parent < k /\ rs[k].parent \in Nat /\ k \in Nat
    BY <2>1, RowFields
  <2> QED BY <2>2
<1> QED BY <1>1 DEF Rooted

\* The status of a turn is written without touching the thread.
LEMMA MarkedShape ==
  ASSUME rows \in Seq(Rows), NEW m \in Nat, NEW t \in Turns, NEW st \in States
  PROVE  LET rs == Marked(rows, m, t, st) IN
         /\ SameShape(rs)
         /\ m \in DOMAIN rows => rs[m].mark = [turn |-> t, state |-> st]
<1> DEFINE rs == Marked(rows, m, t, st)
           mk == [turn |-> t, state |-> st]
           new == [rows[m] EXCEPT !.mark = mk]
<1>0. DOMAIN rows = 1..Len(rows) /\ Len(rows) \in Nat
  OBVIOUS
<1>1. CASE m = NoRow
  <2>1. rs = rows /\ m \notin DOMAIN rows
    BY <1>0, <1>1 DEF Marked, NoRow
  <2> QED BY <2>1 DEF SameShape
<1>2. CASE m # NoRow
  <2>1. rs = [rows EXCEPT ![m] = new]
    BY <1>2 DEF Marked
  <2>2. mk \in Marks
    BY MarkTypes
  <2> HIDE DEF mk, rs
  <2>3. ASSUME m \in DOMAIN rows
        PROVE  /\ new \in Rows /\ new.mark = mk /\ new.parent = rows[m].parent
               /\ new.role = rows[m].role /\ new.by = rows[m].by
               /\ new.visible = rows[m].visible
    <3>1. rows[m] \in Rows
      BY <2>3
    <3> QED BY <2>2, <3>1 DEF Rows
  <2> HIDE DEF new
  <2>4. rs = [k \in 1..Len(rows) |-> IF k = m THEN new ELSE rows[k]]
    BY <1>0, <2>1
  <2>5. rs \in [1..Len(rows) -> Rows]
    BY <1>0, <2>3, <2>4
  <2>6. rs \in Seq(Rows) /\ Len(rs) = Len(rows)
    BY <1>0, <2>5
  <2>7. \A k \in DOMAIN rows : rs[k] = rows[k] \/ (k = m /\ rs[k] = new)
    BY <1>0, <2>4
  <2>8. m \in DOMAIN rows => rs[m].mark = mk
    BY <1>0, <2>3, <2>4
  <2>9. SameShape(rs)
    BY <2>3, <2>6, <2>7 DEF SameShape
  <2> QED BY <2>8, <2>9 DEF rs, mk
<1> QED BY <1>1, <1>2

\* A step that leaves the rows, the leaf, the requests and the tasks as they are.
LEMMA AloneStays ==
  ASSUME AloneInv, UNCHANGED <<rows, leaf, req, body>>,
         overlapped => overlapped', lost \subseteq lost'
  PROVE  AloneInv'
<1>1. FirstInv'
  BY DEF AloneInv, FirstInv, PointsBack, Unsent, Begun
<1>2. ASSUME ~overlapped' PROVE OneAtATime'
  <2>1. OneAtATime
    BY <1>2 DEF AloneInv
  <2> QED BY <2>1 DEF OneAtATime, InOrder, Busy, InRequest, Live, VisibleRows
<1>3. ASSUME ~overlapped', \A u \in Turns : ~Torn(u)' PROVE OneBranch'
  <2>1. \A u \in Turns : ~Torn(u)
    BY <1>3 DEF Torn, HalfSent
  <2>2. OneBranch
    BY <1>3, <2>1 DEF AloneInv
  <2> QED BY <2>2 DEF OneBranch, KeptChildren, Kept
<1>4. ASSUME ~overlapped', lost' = {} PROVE StatusStands'
  <2>1. StatusStands
    BY <1>4 DEF AloneInv
  <2> QED BY <2>1 DEF StatusStands, WillWriteItsEnd, Live
<1> QED BY <1>1, <1>2, <1>3, <1>4 DEF AloneInv, FirstInv

\* A task runs for a request that has been answered.
LEMMA BodyRuns ==
  ASSUME TurnInv, NEW t \in Turns, NEW g \in 1..2, Live(t, g)
  PROVE  req[t].pc \notin Unstarted /\ req[t].pc \notin {"reading", "sending", "ready"}
<1>1. g = 1 \/ g = 2
  OBVIOUS
<1>2. body[<<t, g>>].pc # "none"
  BY DEF Live, Gone
<1>3. ASSUME req[t].pc \in Unstarted PROVE FALSE
  <2>1. stream[t].pc = "none" /\ body[<<t, 1>>].pc = "none"
    BY <1>3 DEF TurnInv, OneAfterTheOther
  <2>2. body[<<t, 2>>].pc = "none"
    BY <2>1 DEF TurnInv, OneAfterTheOther
  <2> QED BY <1>1, <1>2, <2>1, <2>2
<1> QED BY <1>3 DEF Unstarted

\* While no other turn is busy and this one is not being sent, nothing follows the leaf.
LEMMA LeafIsFree ==
  ASSUME TurnInv, OneBranch, NEW t \in Turns, Alone(t), req[t].pc # "sending"
  PROVE  /\ KeptChildren(leaf) = {}
         /\ \A k \in Kept : rows[k].parent # leaf
<1>1. ASSUME NEW k \in KeptChildren(leaf) PROVE FALSE
  <2>1. k \in DOMAIN rows /\ req[rows[k].by].pc = "sending"
    BY DEF OneBranch, KeptChildren, Kept
  <2>2. rows[k].by \in Turns
    BY <2>1, RowFields, Domains
  <2>3. rows[k].by # t
    BY <2>1
  <2> QED BY <2>1, <2>2, <2>3 DEF Alone, Busy, InRequest
<1> QED BY <1>1 DEF KeptChildren

\* One row more, at the end.
LEMMA OneMore ==
  ASSUME TurnInv, NEW rs, SameShape(rs), NEW row \in Rows, row.parent <= Len(rows),
         rows' = Append(rs, row)
  PROVE  /\ rows' \in Seq(Rows) /\ Len(rows') = Len(rows) + 1
         /\ rows'[Len(rows) + 1] = row /\ Grows(row.by, row.parent)
         /\ \A k \in DOMAIN rows' \ DOMAIN rows : k = Len(rows) + 1
         /\ \A k \in DOMAIN rows : rows'[k] = rs[k]
<1> DEFINE n == Len(rows)
<1>1. /\ rs \in Seq(Rows) /\ Len(rs) = n /\ n \in Nat
      /\ DOMAIN rows = 1..n /\ DOMAIN rs = 1..n
  <2>1. rs \in Seq(Rows) /\ Len(rs) = n /\ n \in Nat /\ DOMAIN rows = 1..n
    BY Domains DEF SameShape
  <2> QED BY <2>1
<1> HIDE DEF n
<1>2. /\ rows' \in Seq(Rows) /\ Len(rows') = n + 1 /\ DOMAIN rows' = 1..(n + 1)
      /\ rows'[n + 1] = row /\ \A k \in 1..n : rows'[k] = rs[k]
  BY <1>1
<1>3. row.parent \in 0..n /\ n <= n + 1
  <2>1. row.parent \in Nat
    BY DEF Rows
  <2> QED BY <1>1, <2>1 DEF n
<1>4. \A k \in DOMAIN rows' \ DOMAIN rows : k = n + 1
  BY <1>1, <1>2
<1>5. ASSUME NEW k \in DOMAIN rows
      PROVE  /\ rows'[k].parent = rows[k].parent /\ rows'[k].role = rows[k].role
             /\ rows'[k].by = rows[k].by /\ rows'[k].visible = rows[k].visible
  <2>1. rows'[k] = rs[k]
    BY <1>1, <1>2
  <2> QED BY <2>1 DEF SameShape
<1>6. Grows(row.by, row.parent)
  BY <1>2, <1>3, <1>4, <1>5 DEF Grows, n
<1> QED BY <1>1, <1>2, <1>4, <1>6 DEF n

LEMMA NoMore ==
  ASSUME TurnInv, SameShape(rows'), NEW t, NEW p \in 0..Len(rows)
  PROVE  Grows(t, p) /\ DOMAIN rows' = DOMAIN rows
<1>1. /\ rows' \in Seq(Rows) /\ Len(rows') = Len(rows) /\ Len(rows) \in Nat
      /\ DOMAIN rows = 1..Len(rows)
  BY Domains DEF SameShape
<1>2. DOMAIN rows' = DOMAIN rows
  <2>1. DOMAIN rows' = 1..Len(rows')
    BY <1>1
  <2> QED BY <1>1, <2>1
<1>3. Len(rows) <= Len(rows')
  BY <1>1
<1> QED BY <1>1, <1>2, <1>3 DEF SameShape, Grows

\* A step of the body of a turn: it goes on, with or without one more row, or ends.
LEMMA BodyAlone ==
  ASSUME TurnInv, AloneInv, NEW t \in Turns, NEW g \in 1..2, Live(t, g),
         req' = req, overlapped' = overlapped, lost \subseteq lost',
         NEW nb \in Body, body' = [body EXCEPT ![<<t, g>>] = nb], nb.pc # "none",
         NEW rs, SameShape(rs),
         \/ /\ rows' = rs
            /\ \/ leaf' = leaf
               \/ body[<<t, g>>].pc \in Writing /\ leaf' = body[<<t, g>>].chain
            /\ nb.pc \in Writing => leaf' = leaf /\ nb.chain = body[<<t, g>>].chain
         \/ /\ body[<<t, g>>].pc \in Writing /\ leaf' = Len(rows) + 1
            /\ \E row \in Rows : /\ row.parent = body[<<t, g>>].chain /\ row.by = t
                                 /\ row.visible /\ rows' = Append(rs, row)
            /\ nb.pc \in Writing => nb.chain = Len(rows) + 1,
         nb.pc \in Writing => body[<<t, g>>].pc \in Writing /\ rs = rows,
         nb.pc \in Writing \/ nb.pc \in {"closing", "closed"}
  PROVE  AloneInv'
<1> DEFINE b == body[<<t, g>>]
           p == b.chain
           More == /\ b.pc \in Writing /\ leaf' = Len(rows) + 1
                   /\ \E row \in Rows : /\ row.parent = p /\ row.by = t
                                        /\ row.visible /\ rows' = Append(rs, row)
                   /\ nb.pc \in Writing => nb.chain = Len(rows) + 1
           Same == /\ rows' = rs
                   /\ leaf' = leaf \/ (b.pc \in Writing /\ leaf' = p)
                   /\ nb.pc \in Writing => leaf' = leaf /\ nb.chain = p
<1>0. FirstInv /\ p \in 0..Len(rows) /\ p <= Len(rows) /\ (Same \/ More)
  <2>1. p \in Nat /\ p <= Len(rows)
    BY BodyTypes, FieldTypes DEF TurnInv, InRange
  <2>2. Len(rows) \in Nat
    BY Domains
  <2>3. FirstInv
    BY DEF AloneInv, FirstInv
  <2>4. p \in 0..Len(rows)
    BY <2>1, <2>2
  <2> QED BY <2>1, <2>3, <2>4
<1>1. req[t].pc \notin {"reading", "sending", "ready"}
  BY BodyRuns
<1>2. /\ body' \in [Runtimes -> Body] /\ body'[<<t, g>>] = nb
      /\ \A u \in Turns, h \in 1..2 : <<u, h>> # <<t, g>> => body'[<<u, h>>] = body[<<u, h>>]
  <2>1. body \in [Runtimes -> Body] /\ \A u \in Turns, h \in 1..2 : <<u, h>> \in Runtimes
    BY DEF TurnInv, TypeOK, Runtimes
  <2> QED BY <2>1
<1> HIDE DEF p, b
<1>3. Others(t)
  BY <1>2 DEF Others
<1>4. Same => Grows(t, p) /\ DOMAIN rows' = DOMAIN rows /\ Len(rows') = Len(rows)
  BY <1>0, NoMore DEF SameShape
<1>5. ASSUME More
      PROVE  /\ Grows(t, p) /\ rows' \in Seq(Rows) /\ Len(rows') = Len(rows) + 1
             /\ rows'[Len(rows) + 1].parent = p /\ leaf' = Len(rows')
             /\ \A k \in DOMAIN rows' \ DOMAIN rows : rows'[k].visible
             /\ \A k \in DOMAIN rows : rows'[k] = rs[k]
  <2>1. PICK row \in Rows : /\ row.parent = p /\ row.by = t
                            /\ row.visible /\ rows' = Append(rs, row)
    BY <1>5
  <2>2. /\ rows' \in Seq(Rows) /\ Len(rows') = Len(rows) + 1
        /\ rows'[Len(rows) + 1] = row /\ Grows(row.by, row.parent)
        /\ \A k \in DOMAIN rows' \ DOMAIN rows : k = Len(rows) + 1
        /\ \A k \in DOMAIN rows : rows'[k] = rs[k]
    BY <1>0, <2>1, OneMore
  <2>3. \A k \in DOMAIN rows' \ DOMAIN rows : rows'[k].visible
    BY <2>1, <2>2
  <2> QED BY <1>5, <2>1, <2>2, <2>3
<1>6. Grows(t, p)
  BY <1>0, <1>4, <1>5
<1>7. FirstInv'
  <2>1. \A k \in DOMAIN rows' \ DOMAIN rows : rows'[k].visible
    BY <1>0, <1>4, <1>5
  <2>2. req'[t].pc = "started" => body'[<<t, 1>>].pc # "none"
    <3>1. CASE g = 1
      BY <1>2, <3>1
    <3>2. CASE g # 1
      <4>1. 1 \in 1..2
        OBVIOUS
      <4>2. body'[<<t, 1>>] = body[<<t, 1>>]
        BY <1>2, <3>2, <4>1
      <4> QED BY <1>0, <4>2 DEF FirstInv, Begun
    <3> QED BY <3>1, <3>2
  <2> QED BY <1>0, <1>1, <1>3, <1>6, <2>1, <2>2, FirstStep
<1> HIDE DEF Same, More
<1>8. ASSUME ~overlapped'
      PROVE  /\ OneAtATime /\ Alone(t) /\ g = 1 /\ OneAtATime' /\ Alone(t)'
             /\ b.pc \in Writing => p = leaf
  <2>0. g = 1 \/ g = 2
    OBVIOUS
  <2>1. OneAtATime
    BY <1>8 DEF AloneInv
  <2>2. Alone(t)
    BY <2>1 DEF OneAtATime, Alone, Busy
  <2>3. g = 1
    <3>1. body[<<t, 2>>].pc = "none"
      BY <2>1 DEF OneAtATime, InOrder
    <3> QED BY <2>0, <3>1 DEF Live, Gone
  <2>4. b.pc \in Writing => p = leaf
    BY <2>1, <2>3 DEF OneAtATime, InOrder, b, p
  <2>5. nb.pc \in Writing => nb.chain = leaf'
    <3>1. nb.pc \in Writing => b.pc \in Writing
      BY DEF b
    <3> QED BY <1>0, <2>4, <3>1 DEF Same, More
  <2>6. body'[<<t, 2>>].pc = "none"
    <3>1. 2 \in 1..2 /\ <<t, 2>> # <<t, g>>
      BY <2>3
    <3>2. body'[<<t, 2>>] = body[<<t, 2>>]
      BY <1>2, <3>1
    <3> QED BY <2>1, <3>2 DEF OneAtATime, InOrder
  <2>7. InOrder(t)'
    BY <1>1, <1>2, <2>3, <2>5, <2>6 DEF InOrder
  <2> QED BY <1>3, <2>1, <2>2, <2>3, <2>4, <2>7, OrderStep
<1>9. ASSUME ~overlapped', \A u \in Turns : ~Torn(u)'
      PROVE  OneBranch'
  <2>1. \A u \in Turns : ~Torn(u)
    BY <1>0, <1>1, <1>3, <1>6, <1>9, TornStays
  <2>2. OneBranch
    BY <1>9, <2>1 DEF AloneInv
  <2>3. KeptChildren(leaf) = {} /\ \A k \in Kept : rows[k].parent # leaf
    BY <1>1, <1>8, <1>9, <2>2, LeafIsFree
  <2>4. b.pc \in Writing => p = leaf
    BY <1>8, <1>9
  <2>5. Len(rows') # Len(rows) => b.pc \in Writing
    BY <1>0, <1>4 DEF More
  <2>6. Len(rows') # Len(rows) =>
           /\ \A k \in Kept : rows[k].role \in Tools => rows[k].parent # p
           /\ rows'[Len(rows) + 1].role \in Tools => KeptChildren(p) = {}
    BY <2>3, <2>4, <2>5
  <2>7. \/ leaf' = Len(rows')
        \/ leaf' = leaf /\ Len(rows') = Len(rows)
    BY <1>0, <1>4, <1>5, <2>4 DEF Same, More
  <2> QED BY <1>0, <1>1, <1>3, <1>6, <1>7, <1>8, <1>9, <2>2, <2>6, <2>7, BranchStep
<1>10. ASSUME ~overlapped', lost' = {}
       PROVE  StatusStands'
  <2>1. StatusStands
    BY <1>10 DEF AloneInv
  <2>2. Alone(t)' /\ g = 1 /\ (b.pc \in Writing => p = leaf)
    BY <1>8, <1>10
  <2> SUFFICES ASSUME WillWriteItsEnd(t)', req'[t].row # NoRow
               PROVE  /\ rows'[req'[t].row].mark = [turn |-> t, state |-> "running"]
                      /\ OnBranch(rows', leaf', req'[t].row)
    BY <2>2, StatusStep
  <2>3. nb.pc \in Writing
    <3>1. PICK h \in 1..2 : Live(t, h)' /\ body'[<<t, h>>].pc # "closing"
      BY <1>1 DEF WillWriteItsEnd
    <3>2. h = 1
      <4>1. body'[<<t, 2>>].pc = "none"
        BY <1>8, <1>10 DEF OneAtATime, InOrder
      <4>2. h = 1 \/ h = 2
        OBVIOUS
      <4> QED BY <3>1, <4>1, <4>2 DEF Live, Gone
    <3> QED BY <1>2, <2>2, <3>1, <3>2 DEF Live, Gone
  <2>4. b.pc \in Writing /\ rs = rows /\ p = leaf
    BY <2>2, <2>3 DEF b
  <2>5. WillWriteItsEnd(t)
    BY <2>4 DEF WillWriteItsEnd, Live, Gone, Writing, b
  <2> DEFINE r == req[t].row
  <2>6. r \in DOMAIN rows
    <3>1. r \in Nat /\ r <= Len(rows) /\ r # 0
      BY BaseTypes DEF NoRow
    <3> QED BY <3>1, Domains
  <2>7. rows[r].mark = [turn |-> t, state |-> "running"] /\ OnBranch(rows, leaf, r)
    BY <2>1, <2>5 DEF StatusStands
  <2>8. req'[t].row = r
    OBVIOUS
  <2> HIDE DEF r
  <2>9. CASE Same
    BY <2>3, <2>4, <2>7, <2>8, <2>9 DEF Same
  <2>10. CASE More
    <3> DEFINE n == Len(rows')
    <3>1. /\ rows' \in Seq(Rows) /\ n = Len(rows) + 1 /\ leaf' = n
          /\ rows'[n].parent = leaf /\ rows'[r] = rows[r]
      BY <1>5, <2>4, <2>6, <2>10
    <3>2. Rooted(rows) /\ Rooted(rows')
      BY <1>0, <1>7, <3>1, SeqRooted, NowRooted DEF FirstInv, PointsBack
    <3>3. /\ Len(rows) <= n /\ leaf \in 0..Len(rows) /\ n \in 1..n
          /\ \A k \in 1..Len(rows) : rows'[k].parent = rows[k].parent
      <4>1. \A k \in 1..Len(rows) : rows'[k].parent = rows[k].parent
        BY <1>6, Domains DEF Grows
      <4>2. Len(rows) \in Nat /\ leaf \in 0..Len(rows)
        BY Domains
      <4> QED BY <3>1, <4>1, <4>2
    <3>4. OnBranch(rows', leaf, r)
      BY <2>7, <3>2, <3>3, BranchStays
    <3>5. OnBranch(rows', n, r)
      BY <3>1, <3>2, <3>3, <3>4, BranchParts
    <3> QED BY <2>7, <2>8, <3>1, <3>5
  <2> QED BY <1>0, <2>9, <2>10
<1> QED BY <1>7, <1>8, <1>9, <1>10 DEF AloneInv, FirstInv

\* A turn has one task at a time, and its status is written once.
LEMMA OneTask ==
  ASSUME TurnInv, NEW t \in Turns, NEW g \in 1..2, Live(t, g)
  PROVE  /\ registry[t] = g /\ \A h \in 1..2 : Live(t, h) => h = g
         /\ req[t].pc \notin Unstarted
         /\ stream[t].pc = "none" => g # 2
<1>1. registry[t] = g
  BY DEF TurnInv, RegistryIsTheLiveTask
<1>2. \A h \in 1..2 : Live(t, h) => h = g
  BY <1>1 DEF TurnInv, RegistryIsTheLiveTask
<1>3. g = 1 \/ g = 2
  OBVIOUS
<1>4. stream[t].pc = "none" => g # 2
  BY DEF TurnInv, OneAfterTheOther, Live, Gone
<1>5. req[t].pc \notin Unstarted
  BY <1>3 DEF TurnInv, OneAfterTheOther, Live, Gone
<1> QED BY <1>1, <1>2, <1>4, <1>5

\* What a task that goes on, or is about to close, must keep.
LEMMA BodyStep ==
  ASSUME TurnInv, NEW t \in Turns, NEW g \in 1..2, Live(t, g),
         NEW q \in Body, body' = [body EXCEPT ![<<t, g>>] = q], q.pc \notin Gone,
         q.pc \in {"call", "tool"} => q.todo > 0,
         rows' \in Seq(Rows), Len(rows) <= Len(rows'), leaf' \in 0..Len(rows'),
         q.chain <= Len(rows'), NoNewRunning(rows'),
         lost \subseteq lost', lost' \subseteq Turns,
         q.pc = "closing" /\ t \notin lost' =>
           \A k \in DOMAIN rows' : rows'[k].mark.state = "running" => k # StatusRow(t),
         body[<<t, g>>].pc # "closing",
         NEW events \in Seq(Events), Publish(t, g, events),
         faults' \in 0..MaxFaults, UNCHANGED outside
  PROVE  TurnInv'
<1>0. /\ UNCHANGED <<req, cancel, registry, overlapped>>
      /\ Len(rows) \in Nat /\ Len(rows') \in Nat /\ <<t, g>> \in Runtimes
  BY BaseTypes DEF outside, Runtimes
<1>1. /\ body'[<<t, g>>] = q
      /\ \A u \in Turns, h \in 1..2 : <<u, h>> # <<t, g>> => body'[<<u, h>>] = body[<<u, h>>]
      /\ \A u \in Turns, h \in 1..2 : Live(u, h)' <=> Live(u, h)
  <2>1. body \in [Runtimes -> Body]
    BY DEF TurnInv, TypeOK
  <2>2. \A u \in Turns, h \in 1..2 : <<u, h>> \in Runtimes
    BY DEF Runtimes
  <2>3. body'[<<t, g>>] = q
    BY <1>0, <2>1
  <2>4. \A u \in Turns, h \in 1..2 : <<u, h>> # <<t, g>> => body'[<<u, h>>] = body[<<u, h>>]
    BY <2>1, <2>2
  <2>5. ASSUME NEW u \in Turns, NEW h \in 1..2
        PROVE  Live(u, h)' <=> Live(u, h)
    <3>1. CASE <<u, h>> = <<t, g>>
      BY <2>3, <3>1 DEF Live
    <3>2. CASE <<u, h>> # <<t, g>>
      BY <2>4, <3>2 DEF Live
    <3> QED BY <3>1, <3>2
  <2> QED BY <2>3, <2>4, <2>5
<1>2. /\ history' = [history EXCEPT ![<<t, g>>] = history[<<t, g>>] \o events]
      /\ history' \in [Runtimes -> Seq(Events)]
      /\ stream' \in [Turns -> Stream]
      /\ \A u \in Turns : stream'[u].pc = stream[u].pc /\ stream'[u].run = stream[u].run
      /\ \A u \in Turns : stream'[u].got =
           IF u = t /\ stream[t].pc = "live" /\ stream[t].run = g
           THEN stream[t].got \o events ELSE stream[u].got
  <2>1. history \in [Runtimes -> Seq(Events)] /\ stream \in [Turns -> Stream]
    BY DEF TurnInv, TypeOK
  <2>2. history' = [history EXCEPT ![<<t, g>>] = history[<<t, g>>] \o events]
    BY DEF Publish
  <2>3. history[<<t, g>>] \o events \in Seq(Events)
    BY <1>0, <2>1
  <2>4. history' \in [Runtimes -> Seq(Events)]
    BY <2>1, <2>2, <2>3
  <2>5. CASE ~(stream[t].pc = "live" /\ stream[t].run = g)
    <3>1. stream' = stream
      BY <2>5 DEF Publish
    <3> QED BY <2>1, <2>2, <2>4, <2>5, <3>1
  <2>6. CASE stream[t].pc = "live" /\ stream[t].run = g
    <3> DEFINE new == [stream[t] EXCEPT !.got = stream[t].got \o events]
    <3>1. stream' = [stream EXCEPT ![t] = new]
      BY <2>6 DEF Publish
    <3>2. stream[t] \in Stream /\ stream[t].got \in Seq(Events)
      BY <2>1 DEF Stream
    <3>3. stream[t].got \o events \in Seq(Events)
      BY <3>2
    <3>4. PICK a \in Seq(Events) : a = stream[t].got \o events
      BY <3>3
    <3>5. new \in Stream /\ new.pc = stream[t].pc /\ new.run = stream[t].run /\ new.got = a
      BY <3>2, <3>4 DEF Stream
    <3> HIDE DEF new
    <3> QED BY <2>1, <2>2, <2>4, <2>6, <3>1, <3>4, <3>5
  <2> QED BY <2>5, <2>6
<1>3. TypeOK'
  BY <1>0, <1>2 DEF TurnInv, TypeOK
<1>4. InRange'
  <2>1. \A u \in Turns : req'[u].row <= Len(rows')
    BY <1>0, BaseTypes
  <2>2. ASSUME NEW u \in Turns, NEW h \in 1..2
        PROVE  /\ body'[<<u, h>>].chain <= Len(rows')
               /\ body'[<<u, h>>].pc \in {"call", "tool"} => body'[<<u, h>>].todo > 0
    <3>1. CASE <<u, h>> = <<t, g>>
      BY <1>1, <3>1
    <3>2. CASE <<u, h>> # <<t, g>>
      <4>1. body'[<<u, h>>] = body[<<u, h>>]
        BY <1>1, <3>2
      <4>2. body[<<u, h>>].chain \in Nat /\ body[<<u, h>>].chain <= Len(rows)
        BY FieldTypes DEF TurnInv, InRange
      <4>3. body[<<u, h>>].pc \in {"call", "tool"} => body[<<u, h>>].todo > 0
        BY DEF TurnInv, InRange
      <4> QED BY <1>0, <4>1, <4>2, <4>3
    <3> QED BY <3>1, <3>2
  <2> QED BY <2>1, <2>2 DEF InRange
<1>5. OneAfterTheOther'
  <2>1. ASSUME NEW u \in Turns
        PROVE  /\ req[u].pc \in Unstarted => stream[u].pc = "none" /\ body'[<<u, 1>>].pc = "none"
               /\ stream[u].pc = "none" => body'[<<u, 2>>].pc = "none"
               /\ stream[u].pc \in {"attached", "live", "ended"} => stream[u].run # 0
    <3>1. CASE u = t
      <4>1. req[t].pc \notin Unstarted /\ (stream[t].pc = "none" => g # 2)
        BY OneTask
      <4>2. stream[t].pc = "none" => body'[<<t, 2>>].pc = "none"
        <5>1. g # 2 => body'[<<t, 2>>] = body[<<t, 2>>]
          BY <1>1
        <5> QED BY <4>1, <5>1 DEF TurnInv, OneAfterTheOther
      <4> QED BY <3>1, <4>1, <4>2 DEF TurnInv, OneAfterTheOther
    <3>2. CASE u # t
      <4>1. body'[<<u, 1>>] = body[<<u, 1>>] /\ body'[<<u, 2>>] = body[<<u, 2>>]
        BY <1>1, <3>2
      <4> QED BY <4>1 DEF TurnInv, OneAfterTheOther
    <3> QED BY <3>1, <3>2
  <2> QED BY <1>0, <1>2, <2>1 DEF OneAfterTheOther
<1>6. RegistryIsTheLiveTask'
  BY <1>0, <1>1 DEF TurnInv, RegistryIsTheLiveTask
<1>7. StreamSeesItsTurn'
  <2> SUFFICES ASSUME NEW u \in Turns, stream'[u].pc \in {"live", "ended"},
                      NEW h, h = stream'[u].run
               PROVE  /\ stream'[u].got = history'[<<u, h>>]
                      /\ stream'[u].pc = "ended" <=> body'[<<u, h>>].pc = "closed"
    BY DEF StreamSeesItsTurn
  <2>0. stream'[u].pc = stream[u].pc /\ stream[u].run = h
    BY <1>2
  <2>1. h \in 1..2
    <3>1. h # 0 /\ stream[u] \in Stream
      BY <2>0, FieldTypes DEF TurnInv, OneAfterTheOther
    <3> QED BY <2>0, <3>1 DEF Stream
  <2>2. /\ stream[u].got = history[<<u, h>>]
        /\ stream[u].pc = "ended" <=> body[<<u, h>>].pc = "closed"
    BY <2>0 DEF TurnInv, StreamSeesItsTurn
  <2>3. CASE <<u, h>> = <<t, g>>
    <3>1. stream[u].pc = "live"
      BY <2>0, <2>2, <2>3 DEF Live, Gone
    <3>2. history'[<<t, g>>] = history[<<t, g>>] \o events
      <4>1. history \in [Runtimes -> Seq(Events)]
        BY DEF TurnInv, TypeOK
      <4> QED BY <1>0, <1>2, <4>1
    <3>3. q.pc # "closed"
      BY DEF Gone
    <3> QED BY <1>1, <1>2, <2>0, <2>2, <2>3, <3>1, <3>2, <3>3
  <2>4. CASE <<u, h>> # <<t, g>>
    <3>1. body'[<<u, h>>] = body[<<u, h>>]
      BY <1>1, <2>1, <2>4
    <3>2. history'[<<u, h>>] = history[<<u, h>>]
      <4>1. history \in [Runtimes -> Seq(Events)] /\ <<u, h>> \in Runtimes
        BY <2>1 DEF TurnInv, TypeOK, Runtimes
      <4> QED BY <1>2, <2>4, <4>1
    <3>3. stream'[u].got = stream[u].got
      BY <1>2, <2>0, <2>4
    <3> QED BY <2>0, <2>2, <3>1, <3>2, <3>3
  <2> QED BY <2>3, <2>4
<1>8. StatusKept'
  <2> SUFFICES ASSUME NEW k \in DOMAIN rows', rows'[k].mark.state = "running",
                      NEW u, u = rows'[k].mark.turn
               PROVE  u \in lost' \/ (k = req'[u].row /\ WillWriteItsEnd(u)')
    BY DEF StatusKept, StatusRow, WillWriteItsEnd, Live
  <2>1. k \in DOMAIN rows /\ rows[k].mark = rows'[k].mark
    BY DEF NoNewRunning
  <2>2. u \in lost \/ (k = req[u].row /\ WillWriteItsEnd(u))
    BY <2>1 DEF TurnInv, StatusKept, StatusRow
  <2>3. u \in Turns
    <3>1. rows[k] \in Rows
      BY <2>1 DEF TurnInv, TypeOK
    <3> QED BY <2>1, <3>1 DEF Rows, Marks, NoMark
  <2>4. CASE u \in lost
    BY <2>4
  <2>5. CASE u \notin lost /\ req[u].pc = "ready"
    BY <1>0, <2>2, <2>5 DEF WillWriteItsEnd
  <2>6. CASE u \notin lost /\ req[u].pc # "ready"
    <3>1. PICK h \in 1..2 : Live(u, h) /\ body[<<u, h>>].pc # "closing"
      BY <2>2, <2>6 DEF WillWriteItsEnd
    <3>2. CASE <<u, h>> # <<t, g>>
      BY <1>0, <1>1, <2>2, <2>3, <2>6, <3>1, <3>2 DEF WillWriteItsEnd
    <3>3. CASE <<u, h>> = <<t, g>> /\ q.pc = "closing"
      BY <2>2, <2>6, <3>3 DEF StatusRow
    <3>4. CASE <<u, h>> = <<t, g>> /\ q.pc # "closing"
      BY <1>0, <1>1, <2>2, <2>3, <2>6, <3>1, <3>4 DEF WillWriteItsEnd
    <3> QED BY <3>2, <3>3, <3>4
  <2> QED BY <2>4, <2>5, <2>6
<1> QED BY <1>3, <1>4, <1>5, <1>6, <1>7, <1>8 DEF TurnInv

\* Nothing is published.
LEMMA Silence ==
  ASSUME TurnInv, NEW t \in Turns, NEW g \in 1..2, UNCHANGED <<history, stream>>
  PROVE  << >> \in Seq(Events) /\ Publish(t, g, << >>)
<1>1. history \in [Runtimes -> Seq(Events)] /\ stream \in [Turns -> Stream]
      /\ <<t, g>> \in Runtimes
  BY DEF TurnInv, TypeOK, Runtimes
<1>2. history[<<t, g>>] \o << >> = history[<<t, g>>]
  <2>1. history[<<t, g>>] \in Seq(Events)
    BY <1>1
  <2> QED BY <2>1
<1>3. [stream[t] EXCEPT !.got = stream[t].got \o << >>] = stream[t]
  <2>1. stream[t] \in Stream /\ stream[t].got \in Seq(Events)
    BY <1>1 DEF Stream
  <2>2. stream[t].got \o << >> = stream[t].got
    BY <2>1
  <2> QED BY <2>1, <2>2 DEF Stream
<1>4. history' = [history EXCEPT ![<<t, g>>] = history[<<t, g>>] \o << >>]
  BY <1>1, <1>2
<1>0. << >> \in Seq(Events)
  OBVIOUS
<1>5. PICK e \in Seq(Events) : e = << >>
  BY <1>0
<1>6. stream' = IF stream[t].pc = "live" /\ stream[t].run = g
                THEN [stream EXCEPT ![t] = [stream[t] EXCEPT !.got = stream[t].got \o e]]
                ELSE stream
  BY <1>1, <1>3, <1>5
<1>7. Publish(t, g, e)
  BY <1>4, <1>5, <1>6 DEF Publish
<1> QED BY <1>5, <1>7

\* A row of a tool: the leaf moves with it.
LEMMA WriteStep ==
  ASSUME TurnInv, NEW t \in Turns, NEW g \in 1..2, Live(t, g), NEW role \in Roles,
         WriteRow(t, g, role), NEW q \in Body, body' = [body EXCEPT ![<<t, g>>] = q],
         q.pc \in {"call", "tool", "loop", "final"}, q.chain = Len(rows) + 1,
         q.pc \in {"call", "tool"} => q.todo > 0,
         body[<<t, g>>].pc # "closing",
         NEW events \in Seq(Events), Publish(t, g, events), UNCHANGED <<faults, lost, outside>>
  PROVE  TurnInv' /\ (AloneInv => AloneInv')
<1>1. rows \in Seq(Rows) /\ Len(rows) \in Nat /\ NoNewRunning(rows)
  BY BaseTypes
<1>2. body[<<t, g>>].chain \in Nat /\ faults \in 0..MaxFaults /\ lost \subseteq Turns
  BY BodyTypes
<1>3. rows' \in Seq(Rows) /\ Len(rows') = Len(rows) + 1 /\ NoNewRunning(rows')
  <2>1. PICK p \in Nat : p = body[<<t, g>>].chain
    BY <1>2
  <2>2. rows' = Append(rows, NewRow(p, role, t, NoMark, TRUE))
    BY <2>1 DEF WriteRow
  <2>3. TRUE \in BOOLEAN
    OBVIOUS
  <2> QED BY <1>1, <2>2, <2>3, PlainRow
<1>4. leaf' = Len(rows) + 1
  BY DEF WriteRow
<1>5. Len(rows) <= Len(rows') /\ leaf' \in 0..Len(rows') /\ q.chain <= Len(rows')
  BY <1>1, <1>3, <1>4
<1>6. faults' \in 0..MaxFaults /\ lost \subseteq lost' /\ lost' \subseteq Turns
      /\ UNCHANGED outside
  BY <1>2
<1>7. q.pc \notin Gone /\ q.pc # "closing"
  BY DEF Gone
<1>8. ASSUME AloneInv PROVE AloneInv'
  <2>1. PICK row \in Rows : /\ row.parent = body[<<t, g>>].chain /\ row.by = t
                            /\ row.visible /\ rows' = Append(rows, row)
    <3>1. PICK p \in Nat : p = body[<<t, g>>].chain
      BY <1>2
    <3>2. rows' = Append(rows, NewRow(p, role, t, NoMark, TRUE))
      BY <3>1 DEF WriteRow
    <3>3. NewRow(p, role, t, NoMark, TRUE) \in Rows
      BY MarkTypes, RowTypes
    <3> QED BY <3>1, <3>2, <3>3 DEF NewRow
  <2>2. body[<<t, g>>].pc \in Writing
    <3>1. body[<<t, g>>] \in Body
      BY BodyTypes
    <3> QED BY <3>1 DEF Body, Live, Gone, Writing
  <2>3. q.pc \in Writing /\ q.pc # "none"
    BY DEF Writing
  <2>4. req' = req /\ overlapped' = overlapped /\ lost \subseteq lost'
    BY DEF outside
  <2>5. SameShape(rows)
    BY <1>1 DEF SameShape
  <2> HIDE DEF Publish, outside
  <2> QED BY <1>4, <1>8, <2>1, <2>2, <2>3, <2>4, <2>5, BodyAlone
<1> HIDE DEF outside, Publish
<1> QED BY <1>3, <1>5, <1>6, <1>7, <1>8, BodyStep

\* The body a forced tool leaves.
LEMMA ForcedBody ==
  ASSUME NEW b \in Body, NEW n \in Nat
  PROVE  LET q == [b EXCEPT !.pc = "tool", !.chain = n, !.rounds = 1, !.todo = 1,
                            !.refine = TRUE]
         IN q \in Body /\ q.pc = "tool" /\ q.chain = n /\ q.todo = 1
<1> QED BY DEF Body

LEMMA ForceToolStep ==
  ASSUME TurnInv, NEW t \in Turns, NEW g \in 1..2, ForceTool(t, g)
  PROVE  TurnInv' /\ (AloneInv => AloneInv')
<1> DEFINE q == [body[<<t, g>>] EXCEPT !.pc = "tool", !.chain = Len(rows) + 1,
                                       !.rounds = 1, !.todo = 1, !.refine = TRUE]
<1>1. body[<<t, g>>] \in Body /\ Len(rows) \in Nat
  BY BaseTypes, BodyTypes
<1>2. q \in Body /\ q.pc = "tool" /\ q.chain = Len(rows) + 1 /\ q.todo = 1
  <2>1. PICK n \in Nat : n = Len(rows) + 1
    BY <1>1
  <2>2. PICK b \in Body : b = body[<<t, g>>]
    BY <1>1
  <2>3. LET k == [b EXCEPT !.pc = "tool", !.chain = n, !.rounds = 1, !.todo = 1,
                          !.refine = TRUE]
        IN k \in Body /\ k.pc = "tool" /\ k.chain = n /\ k.todo = 1
    BY ForcedBody
  <2> QED BY <2>1, <2>2, <2>3
<1>3. PICK r \in Body : r = q
  BY <1>2
<1>4. body' = [body EXCEPT ![<<t, g>>] = r]
  BY <1>3 DEF ForceTool
<1>5. r.pc = "tool" /\ r.chain = Len(rows) + 1 /\ r.todo > 0
  BY <1>2, <1>3
<1>6. /\ body[<<t, g>>].pc = "loop" /\ Live(t, g)
      /\ WriteRow(t, g, "tool_call") /\ Publish(t, g, <<"tool_call">>)
      /\ UNCHANGED <<faults, lost, outside>>
  BY DEF ForceTool, Live, Gone
<1>7. <<"tool_call">> \in Seq(Events) /\ "tool_call" \in Roles
  BY DEF Events, Roles
<1> HIDE DEF q
<1> QED BY <1>4, <1>5, <1>6, <1>7, WriteStep

LEMMA CallToolStep ==
  ASSUME TurnInv, NEW t \in Turns, NEW g \in 1..2, NEW refine \in BOOLEAN, CallTool(t, g, refine)
  PROVE  TurnInv' /\ (AloneInv => AloneInv')
<1> DEFINE q == [body[<<t, g>>] EXCEPT !.pc = "tool", !.chain = Len(rows) + 1,
                                       !.refine = refine]
<1>1. body[<<t, g>>] \in Body /\ Len(rows) \in Nat /\ body[<<t, g>>].pc = "call"
      /\ body[<<t, g>>].todo > 0
  BY BaseTypes, BodyTypes DEF CallTool
<1>2. q \in Body /\ q.pc = "tool" /\ q.chain = Len(rows) + 1 /\ q.todo = body[<<t, g>>].todo
  <2>1. PICK n \in Nat : n = Len(rows) + 1
    BY <1>1
  <2>2. PICK b \in Body : b = body[<<t, g>>]
    BY <1>1
  <2>3. LET v == [b EXCEPT !.pc = "tool", !.chain = n, !.refine = refine]
        IN v \in Body /\ v.pc = "tool" /\ v.chain = n /\ v.todo = b.todo
    <3> HIDE DEF q
    <3> QED BY DEF Body
  <2> QED BY <2>1, <2>2, <2>3, Zenon
<1>3. PICK r \in Body : r = q
  BY <1>2
<1>4. body' = [body EXCEPT ![<<t, g>>] = r]
  BY <1>3 DEF CallTool
<1>5. r.pc = "tool" /\ r.chain = Len(rows) + 1 /\ r.todo > 0
  BY <1>1, <1>2, <1>3
<1>6. /\ body[<<t, g>>].pc # "closing" /\ Live(t, g)
      /\ WriteRow(t, g, "tool_call") /\ Publish(t, g, <<"tool_call">>)
      /\ UNCHANGED <<faults, lost, outside>>
  BY DEF CallTool, Live, Gone
<1>7. <<"tool_call">> \in Seq(Events) /\ "tool_call" \in Roles
  BY DEF Events, Roles
<1> HIDE DEF q
<1> QED BY <1>4, <1>5, <1>6, <1>7, WriteStep

LEMMA FinishToolStep ==
  ASSUME TurnInv, NEW t \in Turns, NEW g \in 1..2,
         NEW reply \in {"none", "refined", "silent"}, FinishTool(t, g, reply)
  PROVE  TurnInv' /\ (AloneInv => AloneInv')
<1> DEFINE b == body[<<t, g>>]
           owned == IF reply = "none" THEN b.reply ELSE reply
           next == IF b.todo > 1 THEN "call"
                   ELSE IF owned # "none" THEN "final" ELSE "loop"
           q == [b EXCEPT !.chain = Len(rows) + 1, !.todo = b.todo - 1, !.reply = owned,
                          !.refine = FALSE, !.pc = next]
           ev == IF reply = "refined" THEN <<"token", "tool_result">> ELSE <<"tool_result">>
<1>1. b \in Body /\ Len(rows) \in Nat /\ b.todo \in Nat /\ b.pc = "tool" /\ b.todo > 0
  BY BaseTypes, BodyTypes DEF FinishTool
<1>2. /\ q \in Body /\ q.pc \in {"call", "final", "loop"} /\ q.chain = Len(rows) + 1
      /\ q.pc = "call" => q.todo > 0
  <2>1. PICK n \in Nat : n = b.todo - 1
    BY <1>1
  <2>2. PICK o \in {"none", "refined", "silent"} : o = owned
    BY <1>1 DEF Body
  <2>3. PICK pc \in {"call", "final", "loop"} : pc = next
    OBVIOUS
  <2>4. q = [b EXCEPT !.chain = Len(rows) + 1, !.todo = n, !.reply = o, !.refine = FALSE,
                      !.pc = pc]
    BY <2>1, <2>2, <2>3
  <2>5. pc = "call" => n > 0
    BY <1>1, <2>1, <2>3
  <2>6. PICK c \in Nat : c = Len(rows) + 1
    BY <1>1
  <2> DEFINE w == [b EXCEPT !.chain = c, !.todo = n, !.reply = o, !.refine = FALSE, !.pc = pc]
  <2>7. w \in Body /\ w.pc = pc /\ w.chain = c /\ w.todo = n
    <3>1. PICK x \in Body : x = b
      BY <1>1
    <3>2. w = [x EXCEPT !.chain = c, !.todo = n, !.reply = o, !.refine = FALSE, !.pc = pc]
      BY <3>1
    <3>3. LET v == [x EXCEPT !.chain = c, !.todo = n, !.reply = o, !.refine = FALSE, !.pc = pc]
          IN v \in Body /\ v.pc = pc /\ v.chain = c /\ v.todo = n
      <4> HIDE DEF b, w, q, owned, next, ev
      <4> QED BY DEF Body
    <3> HIDE DEF b, w
    <3> QED BY <3>2, <3>3, Zenon
  <2>8. q = w
    BY <2>4, <2>6
  <2> HIDE DEF b, owned, next, q, w
  <2> QED BY <2>5, <2>6, <2>7, <2>8
<1>3. PICK r \in Body : r = q
  BY <1>2
<1>4. body' = [body EXCEPT ![<<t, g>>] = r]
  BY <1>3 DEF FinishTool
<1>5. PICK events \in Seq(Events) : events = ev
  <2>1. <<"token", "tool_result">> \in Seq(Events) /\ <<"tool_result">> \in Seq(Events)
    BY DEF Events
  <2>2. ev \in Seq(Events)
    BY <2>1
  <2> HIDE DEF ev
  <2> QED BY <2>2
<1>6. /\ b.pc # "closing" /\ Live(t, g) /\ WriteRow(t, g, "tool_result")
      /\ Publish(t, g, events) /\ UNCHANGED <<faults, lost, outside>>
  BY <1>1, <1>5 DEF FinishTool, Live, Gone
<1>7. "tool_result" \in Roles
  BY DEF Roles
<1>8. /\ r.pc \in {"call", "tool", "loop", "final"} /\ r.chain = Len(rows) + 1
      /\ r.pc \in {"call", "tool"} => r.todo > 0
  BY <1>2, <1>3
<1> HIDE DEF q, ev, owned, next
<1> QED BY <1>4, <1>6, <1>7, <1>8, WriteStep

\* The body leaves: its status is written, or known to be lost.
LEMMA EndStep ==
  ASSUME TurnInv, NEW t \in Turns, NEW g \in 1..2,
         body[<<t, g>>].pc \in {"loop", "call", "tool", "final"}, Leave(t, g, "closing"),
         rows' \in Seq(Rows), Len(rows) <= Len(rows'), leaf' \in 0..Len(rows'),
         NoNewRunning(rows'), lost \subseteq lost', lost' \subseteq Turns,
         t \notin lost' =>
           \A k \in DOMAIN rows' : rows'[k].mark.state = "running" => k # StatusRow(t),
         NEW rs, SameShape(rs),
         \/ /\ rows' = rs
            /\ leaf' \in {leaf, body[<<t, g>>].chain}
         \/ /\ leaf' = Len(rows) + 1
            /\ rows' = Append(rs, NewRow(body[<<t, g>>].chain, "assistant", t, NoMark, TRUE)),
         NEW events \in Seq(Events), Publish(t, g, events),
         faults' \in 0..MaxFaults, UNCHANGED outside
  PROVE  TurnInv' /\ (AloneInv => AloneInv')
<1>1. PICK q \in Body : q = [NoBody EXCEPT !.pc = "closing"]
  BY DefaultTypes
<1>2. q.pc = "closing" /\ q.chain = 0 /\ body' = [body EXCEPT ![<<t, g>>] = q]
  BY <1>1 DEF Leave, NoBody, NoRow
<1>3. q.pc \notin Gone /\ Live(t, g) /\ body[<<t, g>>].pc # "closing"
      /\ ~(q.pc \in {"call", "tool"})
  BY <1>2 DEF Live, Gone
<1>4. q.chain <= Len(rows')
  BY <1>2
<1>5. ASSUME AloneInv PROVE AloneInv'
  <2> DEFINE row == NewRow(body[<<t, g>>].chain, "assistant", t, NoMark, TRUE)
  <2>1. row \in Rows /\ row.parent = body[<<t, g>>].chain /\ row.by = t /\ row.visible
    <3>1. PICK p \in Nat : p = body[<<t, g>>].chain
      BY BodyTypes
    <3>2. NewRow(p, "assistant", t, NoMark, TRUE) \in Rows
      BY MarkTypes, RowTypes DEF Roles
    <3> QED BY <3>1, <3>2 DEF NewRow
  <2>2. body[<<t, g>>].pc \in Writing /\ q.pc \notin Writing /\ q.pc # "none"
    BY <1>2 DEF Writing
  <2>3. req' = req /\ overlapped' = overlapped
    BY DEF outside
  <2> HIDE DEF Publish, outside, Leave, row
  <2>4. \/ rows' = rs /\ leaf' \in {leaf, body[<<t, g>>].chain}
        \/ leaf' = Len(rows) + 1 /\ rows' = Append(rs, row)
    BY DEF row
  <2>5. \/ /\ rows' = rs
           /\ \/ leaf' = leaf
              \/ body[<<t, g>>].pc \in Writing /\ leaf' = body[<<t, g>>].chain
           /\ q.pc \in Writing => leaf' = leaf /\ q.chain = body[<<t, g>>].chain
        \/ /\ body[<<t, g>>].pc \in Writing /\ leaf' = Len(rows) + 1
           /\ \E x \in Rows : /\ x.parent = body[<<t, g>>].chain /\ x.by = t
                              /\ x.visible /\ rows' = Append(rs, x)
           /\ q.pc \in Writing => q.chain = Len(rows) + 1
    BY <2>1, <2>2, <2>4
  <2> QED BY <1>2, <1>3, <1>5, <2>2, <2>3, <2>5, BodyAlone
<1> HIDE DEF Publish, outside, Leave
<1> QED BY <1>2, <1>3, <1>4, <1>5, BodyStep

LEMMA EndedRows ==
  ASSUME TurnInv, NEW t \in Turns, NEW s \in {"done", "failed"}, NEW p \in Nat
  PROVE  LET rs == Marked(rows, StatusRow(t), t, s)
             app == Append(rs, NewRow(p, "assistant", t, NoMark, TRUE))
         IN /\ rs \in Seq(Rows) /\ Len(rs) = Len(rows) /\ NoNewRunning(rs)
            /\ SameShape(rs)
            /\ app \in Seq(Rows) /\ Len(app) = Len(rows) + 1 /\ NoNewRunning(app)
            /\ \A k \in DOMAIN rs : rs[k].mark.state = "running" => k # StatusRow(t)
            /\ \A k \in DOMAIN app : app[k].mark.state = "running" => k # StatusRow(t)
<1> DEFINE rs == Marked(rows, StatusRow(t), t, s)
           row == NewRow(p, "assistant", t, NoMark, TRUE)
           app == Append(rs, row)
<1>1. rows \in Seq(Rows) /\ StatusRow(t) \in Nat
  BY BaseTypes DEF StatusRow
<1>2. /\ rs \in Seq(Rows) /\ Len(rs) = Len(rows) /\ NoNewRunning(rs)
      /\ \A k \in DOMAIN rs : rs[k].mark.state = "running" => k # StatusRow(t)
  <2>1. PICK m \in Nat : m = StatusRow(t)
    BY <1>1
  <2> QED BY <1>1, <2>1, MarkedRows
<1>3. row \in Rows /\ row.mark.state # "running"
  <2>1. NoMark \in Marks /\ NoMark.state # "running" /\ "assistant" \in Roles /\ TRUE \in BOOLEAN
    BY MarkTypes DEF Roles
  <2>2. NewRow(p, "assistant", t, NoMark, TRUE) \in Rows
        /\ NewRow(p, "assistant", t, NoMark, TRUE).mark = NoMark
    BY <2>1, RowTypes
  <2> QED BY <2>1, <2>2
<1>0. SameShape(rs)
  BY <1>1, MarkedShape DEF States
<1> HIDE DEF rs, row
<1>4. app \in Seq(Rows) /\ Len(app) = Len(rows) + 1 /\ NoNewRunning(app)
  BY <1>1, <1>2, <1>3, AppendedRow
<1>5. \A k \in DOMAIN app : app[k].mark.state = "running" => k \in DOMAIN rs /\ app[k] = rs[k]
  BY <1>2, <1>3
<1> HIDE DEF app
<1>6. \A k \in DOMAIN app : app[k].mark.state = "running" => k # StatusRow(t)
  BY <1>2, <1>5
<1> QED BY <1>0, <1>2, <1>4, <1>6 DEF rs, app, row

\* A fault keeps the count within its bound.
LEMMA FaultType ==
  ASSUME TurnInv, Fault
  PROVE  faults' \in 0..MaxFaults
<1> QED BY TurnBounds DEF TurnInv, TypeOK, Fault

LEMMA LoadFailsStep ==
  ASSUME TurnInv, NEW t \in Turns, NEW g \in 1..2, LoadFails(t, g)
  PROVE  TurnInv' /\ (AloneInv => AloneInv')
<1>1. /\ body[<<t, g>>].pc \in {"loop", "call", "tool", "final"} /\ Leave(t, g, "closing")
      /\ UNCHANGED outside /\ leaf' = leaf
  BY DEF LoadFails
<1>2. faults' \in 0..MaxFaults
  BY FaultType DEF LoadFails
<1>3. /\ rows \in Seq(Rows) /\ Len(rows) \in Nat /\ leaf \in 0..Len(rows)
      /\ lost \subseteq Turns /\ NoNewRunning(rows)
  BY BaseTypes
<1>4. CASE /\ rows' = Marked(rows, StatusRow(t), t, "failed")
           /\ Publish(t, g, <<"error">>) /\ UNCHANGED lost
  <2>1. /\ rows' \in Seq(Rows) /\ Len(rows') = Len(rows) /\ NoNewRunning(rows')
        /\ SameShape(rows')
        /\ \A k \in DOMAIN rows' : rows'[k].mark.state = "running" => k # StatusRow(t)
    BY <1>4, EndedRows
  <2>2. <<"error">> \in Seq(Events)
    BY DEF Events
  <2>3. Len(rows) <= Len(rows') /\ leaf' \in 0..Len(rows')
    BY <1>1, <1>3, <2>1
  <2>4. lost \subseteq lost' /\ lost' \subseteq Turns
    BY <1>3, <1>4
  <2> HIDE DEF Publish, outside, Leave
  <2> QED BY <1>1, <1>2, <1>4, <2>1, <2>2, <2>3, <2>4, EndStep
<1>5. CASE lost' = lost \cup {t} /\ UNCHANGED <<rows, history, stream>>
  <2>1. /\ rows' \in Seq(Rows) /\ Len(rows) <= Len(rows') /\ leaf' \in 0..Len(rows')
        /\ NoNewRunning(rows') /\ lost \subseteq lost' /\ lost' \subseteq Turns /\ t \in lost'
        /\ SameShape(rows')
    BY <1>1, <1>3, <1>5 DEF NoNewRunning, SameShape
  <2>2. << >> \in Seq(Events) /\ Publish(t, g, << >>)
    BY <1>5, Silence
  <2> HIDE DEF Publish, outside, Leave
  <2> QED BY <1>1, <1>2, <2>1, <2>2, EndStep
<1> QED BY <1>4, <1>5 DEF LoadFails

LEMMA StopStep ==
  ASSUME TurnInv, NEW t \in Turns, NEW g \in 1..2, Stop(t, g)
  PROVE  TurnInv' /\ (AloneInv => AloneInv')
<1>1. /\ body[<<t, g>>].pc \in {"loop", "call", "tool", "final"} /\ Leave(t, g, "closing")
      /\ UNCHANGED outside /\ leaf' = leaf /\ UNCHANGED <<history, stream>>
  BY DEF Stop, StopsAt
<1>2. << >> \in Seq(Events) /\ Publish(t, g, << >>)
  BY <1>1, Silence
<1>3. /\ rows \in Seq(Rows) /\ Len(rows) \in Nat /\ leaf \in 0..Len(rows)
      /\ lost \subseteq Turns /\ NoNewRunning(rows)
  BY BaseTypes
<1>4. CASE rows' = Marked(rows, StatusRow(t), t, "failed") /\ UNCHANGED <<faults, lost>>
  <2>1. /\ rows' \in Seq(Rows) /\ Len(rows') = Len(rows) /\ NoNewRunning(rows')
        /\ SameShape(rows')
        /\ \A k \in DOMAIN rows' : rows'[k].mark.state = "running" => k # StatusRow(t)
    BY <1>4, EndedRows
  <2>2. Len(rows) <= Len(rows') /\ leaf' \in 0..Len(rows')
    BY <1>1, <1>3, <2>1
  <2>4. faults' \in 0..MaxFaults
    BY <1>4 DEF TurnInv, TypeOK
  <2>3. lost \subseteq lost' /\ lost' \subseteq Turns
    BY <1>3, <1>4
  <2> HIDE DEF Publish, outside, Leave
  <2> QED BY <1>1, <1>2, <2>1, <2>2, <2>3, <2>4, EndStep
<1>5. CASE Fault /\ lost' = lost \cup {t} /\ UNCHANGED rows
  <2>1. /\ rows' \in Seq(Rows) /\ Len(rows) <= Len(rows') /\ leaf' \in 0..Len(rows')
        /\ NoNewRunning(rows') /\ lost \subseteq lost' /\ lost' \subseteq Turns /\ t \in lost'
        /\ SameShape(rows')
    BY <1>1, <1>3, <1>5 DEF NoNewRunning, SameShape
  <2>2. faults' \in 0..MaxFaults
    BY <1>5, FaultType
  <2> HIDE DEF Publish, outside, Leave, Fault
  <2> QED BY <1>1, <1>2, <2>1, <2>2, EndStep
<1> QED BY <1>4, <1>5 DEF Stop

LEMMA FailStep ==
  ASSUME TurnInv, NEW t \in Turns, NEW g \in 1..2, Fail(t, g)
  PROVE  TurnInv' /\ (AloneInv => AloneInv')
<1>1. /\ body[<<t, g>>].pc \in {"loop", "call", "tool", "final"} /\ Leave(t, g, "closing")
      /\ UNCHANGED outside
  BY DEF Fail
<1>2. faults' \in 0..MaxFaults
  BY FaultType DEF Fail
<1>3. /\ rows \in Seq(Rows) /\ Len(rows) \in Nat /\ leaf \in 0..Len(rows)
      /\ lost \subseteq Turns /\ NoNewRunning(rows)
  BY BaseTypes
<1>4. <<"error">> \in Seq(Events) /\ <<"token", "done">> \in Seq(Events)
  BY DEF Events
<1>5. PICK p \in Nat : p = body[<<t, g>>].chain
  BY BodyTypes
<1>6. CASE /\ rows' = Append(Marked(rows, StatusRow(t), t, "failed"),
                             NewRow(body[<<t, g>>].chain, "assistant", t, NoMark, TRUE))
           /\ leaf' = Len(rows) + 1
           /\ Publish(t, g, <<"token", "done">>)
           /\ UNCHANGED lost
  <2>1. /\ rows' \in Seq(Rows) /\ Len(rows') = Len(rows) + 1 /\ NoNewRunning(rows')
        /\ SameShape(Marked(rows, StatusRow(t), t, "failed"))
        /\ \A k \in DOMAIN rows' : rows'[k].mark.state = "running" => k # StatusRow(t)
    BY <1>5, <1>6, EndedRows
  <2>2. Len(rows) <= Len(rows') /\ leaf' \in 0..Len(rows')
    BY <1>3, <1>6, <2>1
  <2>3. lost \subseteq lost' /\ lost' \subseteq Turns
    BY <1>3, <1>6
  <2> HIDE DEF Publish, outside, Leave
  <2> QED BY <1>1, <1>2, <1>4, <1>6, <2>1, <2>2, <2>3, EndStep
<1>7. CASE /\ rows' = Marked(rows, StatusRow(t), t, "failed")
           /\ Publish(t, g, <<"error">>) /\ UNCHANGED <<leaf, lost>>
  <2>1. /\ rows' \in Seq(Rows) /\ Len(rows') = Len(rows) /\ NoNewRunning(rows')
        /\ SameShape(rows')
        /\ \A k \in DOMAIN rows' : rows'[k].mark.state = "running" => k # StatusRow(t)
    BY <1>7, EndedRows
  <2>2. Len(rows) <= Len(rows') /\ leaf' \in 0..Len(rows')
    BY <1>3, <1>7, <2>1
  <2>3. lost \subseteq lost' /\ lost' \subseteq Turns
    BY <1>3, <1>7
  <2> HIDE DEF Publish, outside, Leave
  <2> QED BY <1>1, <1>2, <1>4, <1>7, <2>1, <2>2, <2>3, EndStep
<1>8. CASE /\ lost' = lost \cup {t} /\ UNCHANGED <<rows, leaf>>
           /\ Publish(t, g, <<"error">>) \/ UNCHANGED <<history, stream>>
  <2>1. /\ rows' \in Seq(Rows) /\ Len(rows) <= Len(rows') /\ leaf' \in 0..Len(rows')
        /\ NoNewRunning(rows') /\ lost \subseteq lost' /\ lost' \subseteq Turns /\ t \in lost'
        /\ SameShape(rows')
    BY <1>3, <1>8 DEF NoNewRunning, SameShape
  <2>2. PICK events \in Seq(Events) : Publish(t, g, events)
    BY <1>4, <1>8, Silence
  <2> HIDE DEF Publish, outside, Leave
  <2> QED BY <1>1, <1>2, <1>8, <2>1, <2>2, EndStep
<1> QED BY <1>6, <1>7, <1>8 DEF Fail

LEMMA FinishStep ==
  ASSUME TurnInv, NEW t \in Turns, NEW g \in 1..2, Finish(t, g)
  PROVE  TurnInv' /\ (AloneInv => AloneInv')
<1> DEFINE b == body[<<t, g>>]
           ev == IF b.reply = "none" THEN <<"token", "done">> ELSE <<"done">>
<1>1. /\ b.pc \in {"loop", "call", "tool", "final"} /\ Leave(t, g, "closing")
      /\ UNCHANGED <<faults, lost>> /\ UNCHANGED outside
  BY DEF Finish, Asking
<1>2. faults' \in 0..MaxFaults
  BY <1>1 DEF TurnInv, TypeOK
<1>3. /\ rows \in Seq(Rows) /\ Len(rows) \in Nat
      /\ lost \subseteq lost' /\ lost' \subseteq Turns
  BY <1>1, BaseTypes
<1>4. PICK events \in Seq(Events) : events = ev
  <2>1. <<"done">> \in Seq(Events) /\ <<"token", "done">> \in Seq(Events)
    BY DEF Events
  <2>2. ev \in Seq(Events)
    BY <2>1
  <2> HIDE DEF ev
  <2> QED BY <2>2
<1>5. Publish(t, g, events)
  BY <1>4 DEF Finish
<1>6. PICK p \in Nat : p = b.chain /\ p <= Len(rows)
  BY BodyTypes
<1>7. CASE /\ rows' = Marked(rows, StatusRow(t), t, "done") /\ leaf' = b.chain
  <2>1. /\ rows' \in Seq(Rows) /\ Len(rows') = Len(rows) /\ NoNewRunning(rows')
        /\ SameShape(rows')
        /\ \A k \in DOMAIN rows' : rows'[k].mark.state = "running" => k # StatusRow(t)
    BY <1>7, EndedRows
  <2>2. Len(rows) <= Len(rows') /\ leaf' \in 0..Len(rows')
    BY <1>3, <1>6, <1>7, <2>1
  <2> HIDE DEF Publish, outside, Leave
  <2> QED BY <1>1, <1>2, <1>3, <1>5, <1>7, <2>1, <2>2, EndStep
<1>8. CASE /\ rows' = Append(Marked(rows, StatusRow(t), t, "done"),
                             NewRow(b.chain, "assistant", t, NoMark, TRUE))
           /\ leaf' = Len(rows) + 1
  <2>1. /\ rows' \in Seq(Rows) /\ Len(rows') = Len(rows) + 1 /\ NoNewRunning(rows')
        /\ SameShape(Marked(rows, StatusRow(t), t, "done"))
        /\ \A k \in DOMAIN rows' : rows'[k].mark.state = "running" => k # StatusRow(t)
    BY <1>6, <1>8, EndedRows
  <2>2. Len(rows) <= Len(rows') /\ leaf' \in 0..Len(rows')
    BY <1>3, <1>8, <2>1
  <2> HIDE DEF Publish, outside, Leave
  <2> QED BY <1>1, <1>2, <1>3, <1>5, <1>8, <2>1, <2>2, EndStep
<1> QED BY <1>7, <1>8 DEF Finish

\* A step that only moves the body on: no row, no event.
LEMMA TurnStep ==
  ASSUME TurnInv, NEW t \in Turns, NEW g \in 1..2, body[<<t, g>>].pc = "loop",
         NEW q \in Body, body' = [body EXCEPT ![<<t, g>>] = q], q.pc \in {"loop", "call"},
         q.pc = "call" => q.todo > 0, q.chain = body[<<t, g>>].chain,
         faults' \in 0..MaxFaults,
         UNCHANGED <<rows, leaf, history, stream, lost, outside>>
  PROVE  TurnInv' /\ (AloneInv => AloneInv')
<1>1. << >> \in Seq(Events) /\ Publish(t, g, << >>)
  BY Silence
<1>2. /\ rows' \in Seq(Rows) /\ Len(rows) <= Len(rows') /\ leaf' \in 0..Len(rows')
      /\ NoNewRunning(rows') /\ lost \subseteq lost' /\ lost' \subseteq Turns
  BY BaseTypes DEF NoNewRunning
<1>3. q.chain <= Len(rows')
  BY BodyTypes
<1>4. /\ q.pc \notin Gone /\ q.pc # "closing" /\ Live(t, g)
      /\ (q.pc \in {"call", "tool"} => q.todo > 0) /\ body[<<t, g>>].pc # "closing"
  BY DEF Gone, Live
<1>5. ASSUME AloneInv PROVE AloneInv'
  <2>1. SameShape(rows)
    BY BaseTypes DEF SameShape
  <2>2. body[<<t, g>>].pc \in Writing /\ q.pc \in Writing /\ q.pc # "none"
    BY DEF Writing
  <2>3. req' = req /\ overlapped' = overlapped
    BY DEF outside
  <2> HIDE DEF outside
  <2> QED BY <1>4, <1>5, <2>1, <2>2, <2>3, BodyAlone
<1> HIDE DEF Publish, outside
<1> QED BY <1>1, <1>2, <1>3, <1>4, <1>5, BodyStep

LEMMA AnswerToolsStep ==
  ASSUME TurnInv, NEW t \in Turns, NEW g \in 1..2, NEW n \in 1..MaxTools[t],
         AnswerTools(t, g, n)
  PROVE  TurnInv' /\ (AloneInv => AloneInv')
<1> DEFINE b == body[<<t, g>>]
           q == [b EXCEPT !.pc = "call", !.todo = n, !.rounds = b.rounds + 1]
<1>1. b \in Body /\ b.rounds \in Nat /\ n \in Nat /\ n > 0 /\ faults \in 0..MaxFaults
  <2>1. MaxTools[t] \in Nat
    BY TurnBounds
  <2>2. n \in Nat /\ n > 0
    BY <2>1
  <2> QED BY <2>2, BodyTypes
<1>2. q \in Body /\ q.pc = "call" /\ q.todo = n /\ q.chain = b.chain
  <2>1. PICK r \in Nat : r = b.rounds + 1
    BY <1>1
  <2>2. q = [b EXCEPT !.pc = "call", !.todo = n, !.rounds = r]
    BY <2>1
  <2> HIDE DEF b, q
  <2> QED BY <1>1, <2>2 DEF Body
<1>3. PICK x \in Body : x = q
  BY <1>2
<1>4. body' = [body EXCEPT ![<<t, g>>] = x] /\ b.pc = "loop"
      /\ UNCHANGED <<rows, leaf, history, stream, faults, lost, outside>>
  BY <1>3 DEF AnswerTools, Asking
<1>5. x.pc \in {"loop", "call"} /\ (x.pc = "call" => x.todo > 0) /\ x.chain = b.chain
  BY <1>1, <1>2, <1>3
<1>6. faults' \in 0..MaxFaults
  BY <1>1, <1>4
<1> HIDE DEF q, outside
<1> QED BY <1>4, <1>5, <1>6, TurnStep

LEMMA FallBackStep ==
  ASSUME TurnInv, NEW t \in Turns, NEW g \in 1..2, FallBack(t, g)
  PROVE  TurnInv' /\ (AloneInv => AloneInv')
<1> DEFINE b == body[<<t, g>>]
           q == [b EXCEPT !.fellBack = TRUE]
<1>1. b \in Body /\ b.pc = "loop"
  BY BodyTypes DEF FallBack, MayFallBack, Asking
<1>2. q \in Body /\ q.pc = "loop" /\ q.chain = b.chain
  <2>1. PICK y \in Body : y = b
    BY <1>1
  <2>2. LET z == [y EXCEPT !.fellBack = TRUE] IN z \in Body /\ z.pc = y.pc /\ z.chain = y.chain
    <3> HIDE DEF b, q
    <3> QED BY DEF Body
  <2> QED BY <1>1, <2>1, <2>2, Zenon
<1>3. PICK x \in Body : x = q
  BY <1>2
<1>4. body' = [body EXCEPT ![<<t, g>>] = x]
      /\ UNCHANGED <<rows, leaf, history, stream, lost, outside>>
  BY <1>3 DEF FallBack
<1>5. x.pc = "loop" /\ x.chain = b.chain
  BY <1>2, <1>3
<1>6. faults' \in 0..MaxFaults
  BY FaultType DEF FallBack
<1> HIDE DEF q, outside
<1> QED BY <1>1, <1>4, <1>5, <1>6, TurnStep

(***************************************************************************)
(* The registry and the streams.                                           *)
(***************************************************************************)

\* The rows of the invariant when rows, requests and losses stay.
LEMMA StreamStep ==
  ASSUME TurnInv, NEW t \in Turns, NEW x \in Stream, stream' = [stream EXCEPT ![t] = x],
         stream[t].pc \in {"attached", "live"}, x.run = stream[t].run,
         x.pc \in {"live", "ended", "gone"},
         x.pc # "gone" => /\ x.got = history[<<t, x.run>>]
                          /\ x.pc = "ended" <=> body[<<t, x.run>>].pc = "closed",
         UNCHANGED <<rows, leaf, req, body, cancel, history, registry, faults, lost, overlapped>>
  PROVE  TurnInv'
<1>1. stream \in [Turns -> Stream]
  BY DEF TurnInv, TypeOK
<1>2. stream'[t] = x /\ \A u \in Turns \ {t} : stream'[u] = stream[u]
  BY <1>1
<1>3. TypeOK' /\ InRange'
  BY <1>1 DEF TurnInv, TypeOK, InRange
<1>4. OneAfterTheOther'
  <2>1. req[t].pc \notin Unstarted /\ x.run # 0
    BY DEF TurnInv, OneAfterTheOther
  <2>2. ASSUME NEW u \in Turns
        PROVE  /\ req[u].pc \in Unstarted => /\ stream'[u].pc = "none"
                                            /\ body[<<u, 1>>].pc = "none"
               /\ stream'[u].pc = "none" => body[<<u, 2>>].pc = "none"
               /\ stream'[u].pc \in {"attached", "live", "ended"} => stream'[u].run # 0
    <3>1. CASE u = t
      BY <1>2, <2>1, <3>1
    <3>2. CASE u # t
      BY <1>2, <3>2 DEF TurnInv, OneAfterTheOther
    <3> QED BY <3>1, <3>2
  <2> QED BY <2>2 DEF OneAfterTheOther
<1>5. RegistryIsTheLiveTask'
  BY DEF TurnInv, RegistryIsTheLiveTask, Live
<1>6. StreamSeesItsTurn'
  <2> SUFFICES ASSUME NEW u \in Turns, stream'[u].pc \in {"live", "ended"},
                      NEW h, h = stream'[u].run
               PROVE  /\ stream'[u].got = history[<<u, h>>]
                      /\ stream'[u].pc = "ended" <=> body[<<u, h>>].pc = "closed"
    BY DEF StreamSeesItsTurn
  <2>1. CASE u = t
    BY <1>2, <2>1
  <2>2. CASE u # t
    BY <1>2, <2>2 DEF TurnInv, StreamSeesItsTurn
  <2> QED BY <2>1, <2>2
<1>7. StatusKept'
  BY DEF TurnInv, StatusKept, StatusRow, WillWriteItsEnd, Live
<1> QED BY <1>3, <1>4, <1>5, <1>6, <1>7 DEF TurnInv

LEMMA SubscribeStep ==
  ASSUME TurnInv, NEW t \in Turns, Subscribe(t)
  PROVE  TurnInv'
<1> DEFINE b == <<t, stream[t].run>>
           pc == IF body[b].pc = "closed" THEN "ended" ELSE "live"
           x == [stream[t] EXCEPT !.got = history[b], !.pc = pc]
<1>1. stream[t] \in Stream /\ stream[t].pc = "attached" /\ stream[t].run \in 0..2
  <2>1. stream[t] \in Stream
    BY FieldTypes DEF TurnInv
  <2> QED BY <2>1 DEF Subscribe, Stream
<1>2. stream[t].run \in 1..2
  <2>1. stream[t].run # 0
    BY <1>1 DEF TurnInv, OneAfterTheOther
  <2> QED BY <1>1, <2>1
<1>3. history[b] \in Seq(Events)
  BY <1>2, FieldTypes DEF TurnInv
<1>4. PICK e \in Seq(Events) : e = history[b]
  BY <1>3
<1>5. x \in Stream /\ x.run = stream[t].run /\ x.pc = pc /\ x.got = history[b]
  <2>1. x = [stream[t] EXCEPT !.got = e, !.pc = pc] /\ pc \in {"ended", "live"}
    BY <1>4
  <2> HIDE DEF x, pc
  <2> QED BY <1>1, <1>4, <2>1 DEF Stream
<1>6. PICK y \in Stream : y = x
  BY <1>5
<1>7. /\ stream' = [stream EXCEPT ![t] = y]
      /\ UNCHANGED <<rows, leaf, req, body, cancel, history, registry, faults, lost, overlapped>>
  BY <1>6 DEF Subscribe
<1>8. /\ y.run = stream[t].run /\ y.pc \in {"live", "ended", "gone"}
      /\ y.pc = "ended" <=> body[<<t, y.run>>].pc = "closed"
      /\ y.got = history[<<t, y.run>>]
  BY <1>5, <1>6
<1> HIDE DEF x, pc, b
<1> QED BY <1>1, <1>7, <1>8, StreamStep

LEMMA DisconnectStep ==
  ASSUME TurnInv, NEW t \in Turns, Disconnect(t)
  PROVE  TurnInv'
<1> DEFINE x == [stream[t] EXCEPT !.pc = "gone", !.got = << >>]
<1>1. stream[t] \in Stream /\ stream[t].pc \in {"attached", "live"}
  BY FieldTypes DEF TurnInv, Disconnect
<1>2. x \in Stream /\ x.run = stream[t].run /\ x.pc = "gone"
  <2>1. << >> \in Seq(Events)
    OBVIOUS
  <2>2. PICK e \in Seq(Events) : e = << >>
    BY <2>1
  <2>3. x = [stream[t] EXCEPT !.pc = "gone", !.got = e]
    BY <2>2
  <2> HIDE DEF x
  <2> QED BY <1>1, <2>3 DEF Stream
<1>3. PICK y \in Stream : y = x
  BY <1>2
<1>4. /\ stream' = [stream EXCEPT ![t] = y] /\ y.run = stream[t].run /\ y.pc = "gone"
      /\ UNCHANGED <<rows, leaf, req, body, cancel, history, registry, faults, lost, overlapped>>
  BY <1>2, <1>3 DEF Disconnect
<1> HIDE DEF x
<1> QED BY <1>1, <1>4, StreamStep

LEMMA CancelStep ==
  ASSUME TurnInv, NEW t \in Turns, RequestCancel(t)
  PROVE  TurnInv'
<1>1. /\ registry[t] # 0 /\ cancel' = cancel \cup {<<t, registry[t]>>}
      /\ UNCHANGED <<rows, leaf, req, body, history, registry, stream, lost, overlapped>>
  BY DEF RequestCancel
<1>2. faults' \in 0..MaxFaults
  BY FaultType DEF RequestCancel
<1>3. cancel' \subseteq Runtimes
  <2>1. registry[t] \in 1..2
    <3>1. registry[t] \in 0..2
      BY FieldTypes DEF TurnInv
    <3> QED BY <1>1, <3>1
  <2>2. <<t, registry[t]>> \in Runtimes
    BY <2>1 DEF Runtimes
  <2> QED BY <1>1, <2>2 DEF TurnInv, TypeOK
<1>4. TypeOK' /\ InRange'
  BY <1>1, <1>2, <1>3 DEF TurnInv, TypeOK, InRange
<1>5. OneAfterTheOther' /\ RegistryIsTheLiveTask' /\ StreamSeesItsTurn'
  BY <1>1 DEF TurnInv, OneAfterTheOther, RegistryIsTheLiveTask, Live, StreamSeesItsTurn
<1>6. StatusKept'
  BY <1>1 DEF TurnInv, StatusKept, StatusRow, WillWriteItsEnd, Live
<1> QED BY <1>4, <1>5, <1>6 DEF TurnInv

LEMMA CloseStep ==
  ASSUME TurnInv, NEW t \in Turns, NEW g \in 1..2, Close(t, g)
  PROVE  TurnInv'
<1> DEFINE q == [NoBody EXCEPT !.pc = "closed"]
           b == body[<<t, g>>]
<1>1. PICK r \in Body : r = q
  BY DefaultTypes
<1>2. r.pc = "closed" /\ r.chain = 0 /\ body' = [body EXCEPT ![<<t, g>>] = r]
  BY <1>1 DEF Close, Leave, NoBody, NoRow
<1>3. /\ registry' = [registry EXCEPT ![t] = 0] /\ b.pc = "closing" /\ Live(t, g)
      /\ UNCHANGED <<rows, leaf, req, cancel, history, faults, lost, overlapped>>
  BY DEF Close, Live, Gone
<1>4. /\ body' \in [Runtimes -> Body] /\ body'[<<t, g>>] = r
      /\ \A u \in Turns, h \in 1..2 : <<u, h>> # <<t, g>> => body'[<<u, h>>] = body[<<u, h>>]
  <2>1. body \in [Runtimes -> Body]
    BY DEF TurnInv, TypeOK
  <2>2. \A u \in Turns, h \in 1..2 : <<u, h>> \in Runtimes
    BY DEF Runtimes
  <2> HIDE DEF q, b
  <2> QED BY <1>2, <2>1, <2>2
<1>5. /\ registry[t] = g /\ req[t].pc \notin Unstarted /\ (stream[t].pc = "none" => g # 2)
      /\ \A h \in 1..2 : Live(t, h) => h = g
  BY <1>3, OneTask
<1>6. stream \in [Turns -> Stream] /\ registry \in [Turns -> 0..2]
  BY DEF TurnInv, TypeOK
<1>7. /\ stream' \in [Turns -> Stream]
      /\ \A u \in Turns : /\ stream'[u].run = stream[u].run /\ stream'[u].got = stream[u].got
                          /\ stream'[u].pc =
                               IF u = t /\ stream[t].pc = "live" /\ stream[t].run = g
                               THEN "ended" ELSE stream[u].pc
  <2>1. CASE stream[t].pc = "live" /\ stream[t].run = g
    <3> DEFINE x == [stream[t] EXCEPT !.pc = "ended"]
    <3>1. stream' = [stream EXCEPT ![t] = x]
      BY <2>1 DEF Close
    <3>2. x \in Stream /\ x.run = stream[t].run /\ x.got = stream[t].got /\ x.pc = "ended"
      <4>1. stream[t] \in Stream
        BY <1>6
      <4> QED BY <4>1 DEF Stream
    <3> HIDE DEF x
    <3> QED BY <1>6, <2>1, <3>1, <3>2
  <2>2. CASE ~(stream[t].pc = "live" /\ stream[t].run = g)
    <3>1. stream' = stream
      BY <2>2 DEF Close
    <3> QED BY <1>6, <2>2, <3>1
  <2> QED BY <2>1, <2>2
<1>8. TypeOK'
  <2>1. registry' \in [Turns -> 0..2]
    BY <1>3, <1>6
  <2> QED BY <1>3, <1>4, <1>7, <2>1 DEF TurnInv, TypeOK
<1>9. InRange'
  <2>1. ASSUME NEW u \in Turns, NEW h \in 1..2
        PROVE  /\ body'[<<u, h>>].chain <= Len(rows)
               /\ body'[<<u, h>>].pc \in {"call", "tool"} => body'[<<u, h>>].todo > 0
    <3>1. CASE <<u, h>> = <<t, g>>
      BY <1>2, <1>4, <3>1, BaseTypes
    <3>2. CASE <<u, h>> # <<t, g>>
      BY <1>4, <3>2 DEF TurnInv, InRange
    <3> QED BY <3>1, <3>2
  <2> QED BY <1>3, <2>1 DEF TurnInv, InRange
<1>10. OneAfterTheOther'
  <2>1. ASSUME NEW u \in Turns
        PROVE  /\ req[u].pc \in Unstarted => /\ stream'[u].pc = "none"
                                             /\ body'[<<u, 1>>].pc = "none"
               /\ stream'[u].pc = "none" => body'[<<u, 2>>].pc = "none"
               /\ stream'[u].pc \in {"attached", "live", "ended"} => stream'[u].run # 0
    <3>1. CASE u = t
      <4>1. stream[t].pc = "none" => body'[<<t, 2>>] = body[<<t, 2>>]
        BY <1>4, <1>5
      <4>2. stream'[t].pc = "none" => stream[t].pc = "none"
        BY <1>7
      <4>3. stream'[t].pc \in {"attached", "live", "ended"} =>
              stream[t].pc \in {"attached", "live", "ended"}
        BY <1>7
      <4> QED BY <1>5, <1>7, <3>1, <4>1, <4>2, <4>3 DEF TurnInv, OneAfterTheOther
    <3>2. CASE u # t
      <4>1. /\ body'[<<u, 1>>] = body[<<u, 1>>] /\ body'[<<u, 2>>] = body[<<u, 2>>]
            /\ stream'[u].pc = stream[u].pc /\ stream'[u].run = stream[u].run
        BY <1>4, <1>7, <3>2
      <4> QED BY <4>1 DEF TurnInv, OneAfterTheOther
    <3> QED BY <3>1, <3>2
  <2> QED BY <1>3, <2>1 DEF OneAfterTheOther
<1>11. RegistryIsTheLiveTask'
  <2>1. ASSUME NEW u \in Turns, NEW h \in 1..2
        PROVE  registry'[u] = h <=> Live(u, h)'
    <3>1. CASE u = t /\ h = g
      BY <1>2, <1>3, <1>4, <1>6, <3>1 DEF Live, Gone
    <3>2. CASE u = t /\ h # g
      <4>1. body'[<<u, h>>] = body[<<u, h>>] /\ ~Live(u, h)
        BY <1>4, <1>5, <3>2
      <4> QED BY <1>3, <1>6, <3>2, <4>1 DEF Live
    <3>3. CASE u # t
      <4>1. body'[<<u, h>>] = body[<<u, h>>] /\ registry'[u] = registry[u]
        BY <1>3, <1>4, <1>6, <3>3
      <4>2. registry[u] = h <=> Live(u, h)
        BY DEF TurnInv, RegistryIsTheLiveTask
      <4>3. Live(u, h)' <=> Live(u, h)
        BY <4>1 DEF Live
      <4> QED BY <4>1, <4>2, <4>3
    <3> QED BY <3>1, <3>2, <3>3
  <2> QED BY <2>1 DEF RegistryIsTheLiveTask
<1>12. StreamSeesItsTurn'
  <2> SUFFICES ASSUME NEW u \in Turns, stream'[u].pc \in {"live", "ended"},
                      NEW h, h = stream'[u].run
               PROVE  /\ stream'[u].got = history'[<<u, h>>]
                      /\ stream'[u].pc = "ended" <=> body'[<<u, h>>].pc = "closed"
    BY DEF StreamSeesItsTurn
  <2>1. stream[u].pc \in {"live", "ended"} /\ stream[u].run = h /\ stream'[u].got = stream[u].got
    BY <1>7
  <2>2. h \in 1..2
    <3>1. h # 0 /\ h \in 0..2
      <4>1. stream[u] \in Stream
        BY <1>6
      <4> QED BY <2>1, <4>1 DEF TurnInv, OneAfterTheOther, Stream
    <3> QED BY <3>1
  <2>3. /\ stream[u].got = history[<<u, h>>]
        /\ stream[u].pc = "ended" <=> body[<<u, h>>].pc = "closed"
    BY <2>1 DEF TurnInv, StreamSeesItsTurn
  <2>4. CASE <<u, h>> = <<t, g>>
    <3>1. stream[t].pc = "live" /\ stream[t].run = g
      BY <1>3, <2>1, <2>3, <2>4
    <3>2. stream'[u].pc = "ended" /\ body'[<<u, h>>].pc = "closed"
      BY <1>2, <1>4, <1>7, <2>4, <3>1
    <3> QED BY <1>3, <2>1, <2>3, <3>2
  <2>5. CASE <<u, h>> # <<t, g>>
    BY <1>3, <1>4, <1>7, <2>1, <2>2, <2>3, <2>5
  <2> QED BY <2>4, <2>5
<1>13. StatusKept'
  <2> SUFFICES ASSUME NEW k \in DOMAIN rows, rows[k].mark.state = "running",
                      NEW u, u = rows[k].mark.turn
               PROVE  u \in lost \/ (k = req[u].row /\ WillWriteItsEnd(u)')
    BY <1>3 DEF StatusKept, StatusRow, WillWriteItsEnd, Live
  <2>1. u \in lost \/ (k = req[u].row /\ WillWriteItsEnd(u))
    BY DEF TurnInv, StatusKept, StatusRow
  <2>2. u \in Turns
    <3>1. rows[k] \in Rows
      BY DEF TurnInv, TypeOK
    <3> QED BY <3>1 DEF Rows, Marks, NoMark
  <2>3. ASSUME NEW h \in 1..2, Live(u, h), body[<<u, h>>].pc # "closing"
        PROVE  Live(u, h)' /\ body'[<<u, h>>].pc # "closing"
    <3>1. <<u, h>> # <<t, g>>
      BY <1>3, <2>3
    <3>2. body'[<<u, h>>] = body[<<u, h>>]
      BY <1>4, <2>2, <3>1
    <3> QED BY <2>3, <3>2 DEF Live
  <2> QED BY <1>3, <2>1, <2>3 DEF WillWriteItsEnd
<1> QED BY <1>8, <1>9, <1>10, <1>11, <1>12, <1>13 DEF TurnInv

LEMMA CrashStep ==
  ASSUME TurnInv, Crash
  PROVE  TurnInv'
<1>1. faults' \in 0..MaxFaults
  BY FaultType DEF Crash
<1>2. /\ lost' = lost \cup {t \in Turns : Busy(t)}
      /\ body' = [b \in Runtimes |->
                   IF body[b].pc \in Gone THEN body[b] ELSE [NoBody EXCEPT !.pc = "killed"]]
      /\ req' = [t \in Turns |-> IF req[t].pc = "idle" THEN NoRequest
                                 ELSE [NoRequest EXCEPT !.pc = "over"]]
      /\ stream' = [t \in Turns |-> IF stream[t].pc \in {"attached", "live"}
                                    THEN [stream[t] EXCEPT !.pc = "gone", !.got = << >>]
                                    ELSE stream[t]]
      /\ registry' = [t \in Turns |-> 0] /\ cancel' = {}
      /\ UNCHANGED <<rows, leaf, history, overlapped>>
  BY DEF Crash
<1>3. \A t \in Turns, g \in 1..2 :
        /\ body'[<<t, g>>].pc \in Gone
        /\ body'[<<t, g>>] = body[<<t, g>>] \/ body'[<<t, g>>] = [NoBody EXCEPT !.pc = "killed"]
        /\ body[<<t, g>>].pc \in {"none", "closed"} => body'[<<t, g>>] = body[<<t, g>>]
        /\ body[<<t, g>>].pc # "closed" => body'[<<t, g>>].pc # "closed"
  <2> TAKE t \in Turns, g \in 1..2
  <2>1. <<t, g>> \in Runtimes
    BY DEF Runtimes
  <2> QED BY <1>2, <2>1 DEF Gone, NoBody
<1>4. /\ stream' \in [Turns -> Stream]
      /\ \A t \in Turns : IF stream[t].pc \in {"attached", "live"} THEN stream'[t].pc = "gone"
                          ELSE stream'[t] = stream[t]
  <2>1. ASSUME NEW t \in Turns
        PROVE  LET x == [stream[t] EXCEPT !.pc = "gone", !.got = << >>]
               IN x \in Stream /\ x.pc = "gone"
    <3>1. << >> \in Seq(Events)
      OBVIOUS
    <3>2. PICK e \in Seq(Events) : e = << >>
      BY <3>1
    <3>3. stream[t] \in Stream
      BY FieldTypes DEF TurnInv
    <3>4. LET x == [stream[t] EXCEPT !.pc = "gone", !.got = e]
          IN x \in Stream /\ x.pc = "gone"
      BY <3>3 DEF Stream
    <3> QED BY <3>2, <3>4
  <2>2. \A t \in Turns : stream[t] \in Stream
    BY DEF TurnInv, TypeOK
  <2> QED BY <1>2, <2>1, <2>2
<1>5. TypeOK'
  <2>1. req' \in [Turns -> Request]
    BY <1>2, DefaultTypes
  <2>2. body' \in [Runtimes -> Body]
    <3>1. body \in [Runtimes -> Body]
      BY DEF TurnInv, TypeOK
    <3> QED BY <1>2, <3>1, DefaultTypes
  <2>3. registry' \in [Turns -> 0..2] /\ cancel' \subseteq Runtimes
    <3>1. registry' = [t \in Turns |-> 0] /\ cancel' = {}
      BY DEF Crash
    <3>2. 0 \in 0..2
      OBVIOUS
    <3> QED BY <3>1, <3>2
  <2>4. lost' \subseteq Turns
    BY <1>2, BaseTypes
  <2> QED BY <1>1, <1>2, <1>4, <2>1, <2>2, <2>3, <2>4 DEF TurnInv, TypeOK
<1>6. \A t \in Turns : req'[t].row = 0 /\ (req'[t].pc \in Unstarted => req[t].pc = "idle")
  BY <1>2 DEF NoRequest, NoRow, Unstarted
<1>7. InRange'
  <2>1. \A t \in Turns : req'[t].row <= Len(rows)
    BY <1>6, BaseTypes
  <2>2. ASSUME NEW t \in Turns, NEW g \in 1..2
        PROVE  /\ body'[<<t, g>>].chain <= Len(rows)
               /\ body'[<<t, g>>].pc \notin {"call", "tool"}
    <3>1. body'[<<t, g>>].pc \notin {"call", "tool"}
      BY <1>3 DEF Gone
    <3>2. body'[<<t, g>>].chain <= Len(rows)
      <4>1. [NoBody EXCEPT !.pc = "killed"].chain = 0
        BY DEF NoBody, NoRow
      <4>2. body[<<t, g>>].chain <= Len(rows) /\ Len(rows) \in Nat
        BY BaseTypes, BodyTypes
      <4>3. CASE body'[<<t, g>>] = body[<<t, g>>]
        BY <4>2, <4>3
      <4>4. CASE body'[<<t, g>>] = [NoBody EXCEPT !.pc = "killed"]
        <5>1. body'[<<t, g>>].chain = 0
          BY <4>1, <4>4
        <5> QED BY <4>2, <5>1
      <4> QED BY <1>3, <4>3, <4>4
    <3> QED BY <3>1, <3>2
  <2> QED BY <1>2, <2>1, <2>2 DEF InRange
<1>8. OneAfterTheOther'
  <2>1. ASSUME NEW t \in Turns
        PROVE  /\ req'[t].pc \in Unstarted => /\ stream'[t].pc = "none"
                                              /\ body'[<<t, 1>>].pc = "none"
               /\ stream'[t].pc = "none" => body'[<<t, 2>>].pc = "none"
               /\ stream'[t].pc \in {"attached", "live", "ended"} => stream'[t].run # 0
    <3>1. /\ body[<<t, 1>>].pc = "none" => body'[<<t, 1>>].pc = "none"
          /\ body[<<t, 2>>].pc = "none" => body'[<<t, 2>>].pc = "none"
      <4>1. 1 \in 1..2 /\ 2 \in 1..2
        OBVIOUS
      <4> QED BY <1>3, <4>1
    <3>2. req'[t].pc \in Unstarted => stream[t].pc = "none" /\ body[<<t, 1>>].pc = "none"
      BY <1>6 DEF TurnInv, OneAfterTheOther, Unstarted
    <3>3. stream[t].pc = "none" => body[<<t, 2>>].pc = "none"
      BY DEF TurnInv, OneAfterTheOther
    <3>4. stream[t].pc \in {"attached", "live", "ended"} => stream[t].run # 0
      BY DEF TurnInv, OneAfterTheOther
    <3> QED BY <1>4, <3>1, <3>2, <3>3, <3>4
  <2> QED BY <2>1 DEF OneAfterTheOther
<1>9. RegistryIsTheLiveTask'
  <2>1. \A t \in Turns, g \in 1..2 : registry'[t] # g
    <3>1. \A t \in Turns : registry'[t] = 0
      BY DEF Crash
    <3> QED BY <3>1
  <2> QED BY <1>3, <2>1 DEF RegistryIsTheLiveTask, Live
<1>10. StreamSeesItsTurn'
  <2> SUFFICES ASSUME NEW t \in Turns, stream'[t].pc \in {"live", "ended"},
                      NEW h, h = stream'[t].run
               PROVE  /\ stream'[t].got = history'[<<t, h>>]
                      /\ stream'[t].pc = "ended" <=> body'[<<t, h>>].pc = "closed"
    BY DEF StreamSeesItsTurn
  <2>1. stream'[t] = stream[t] /\ stream[t].pc = "ended" /\ stream[t].run = h
    BY <1>4
  <2>2. h \in 1..2
    <3>1. h # 0 /\ stream[t] \in Stream
      BY <2>1, FieldTypes DEF TurnInv, OneAfterTheOther
    <3> QED BY <2>1, <3>1 DEF Stream
  <2>3. stream[t].got = history[<<t, h>>] /\ body[<<t, h>>].pc = "closed"
    BY <2>1 DEF TurnInv, StreamSeesItsTurn
  <2>4. body'[<<t, h>>] = body[<<t, h>>]
    BY <1>3, <2>2, <2>3
  <2> QED BY <1>2, <2>1, <2>3, <2>4
<1>11. StatusKept'
  <2> SUFFICES ASSUME NEW k \in DOMAIN rows, rows[k].mark.state = "running",
                      NEW u, u = rows[k].mark.turn
               PROVE  u \in lost'
    BY <1>2 DEF StatusKept, StatusRow, WillWriteItsEnd, Live
  <2>1. u \in lost \/ WillWriteItsEnd(u)
    BY DEF TurnInv, StatusKept
  <2>2. u \in Turns
    <3>1. rows[k] \in Rows
      BY DEF TurnInv, TypeOK
    <3> QED BY <3>1 DEF Rows, Marks, NoMark
  <2>3. WillWriteItsEnd(u) => Busy(u)
    BY DEF WillWriteItsEnd, Busy, InRequest
  <2> QED BY <1>2, <2>1, <2>2, <2>3
<1> QED BY <1>5, <1>7, <1>8, <1>9, <1>10, <1>11 DEF TurnInv

LEMMA StartStep ==
  ASSUME TurnInv, NEW t \in Turns, NEW g \in 1..2, StartTurn(t, g),
         req[t].pc \in {"ready", "started"}, stream[t].pc = "none"
  PROVE  /\ body' \in [Runtimes -> Body] /\ registry' \in [Turns -> 0..2]
         /\ RegistryIsTheLiveTask' /\ registry'[t] = g
         /\ \A u \in Turns, h \in 1..2 :
              \/ body'[<<u, h>>] = body[<<u, h>>]
              \/ /\ u = t /\ h = g /\ ~Live(t, g)
                 /\ body'[<<u, h>>].pc = "loop"
                 /\ body'[<<u, h>>].chain = req[t].row
         /\ req[t].pc = "ready" => g = 1 /\ body'[<<t, 1>>].pc = "loop"
<1>0. /\ body \in [Runtimes -> Body] /\ registry \in [Turns -> 0..2]
      /\ \A u \in Turns, h \in 1..2 : <<u, h>> \in Runtimes
      /\ req[t].row \in Nat
  BY BaseTypes DEF TurnInv, TypeOK, Runtimes
<1>1. RegistryIsTheLiveTask
  BY DEF TurnInv
<1>2. req[t].pc = "ready" => ~Live(t, 1) /\ ~Live(t, 2) /\ body[<<t, 1>>].pc = "none"
  BY DEF TurnInv, OneAfterTheOther, Unstarted, Live, Gone
<1>3. registry[t] # 0 => Live(t, registry[t]) /\ registry[t] \in 1..2
  <2>1. registry[t] \in 0..2
    BY <1>0
  <2> QED BY <1>1, <2>1 DEF RegistryIsTheLiveTask
<1>4. CASE registry[t] # 0 /\ Live(t, registry[t])
  <2>1. g = registry[t] /\ UNCHANGED <<body, registry>>
    BY <1>4 DEF StartTurn
  <2>2. req[t].pc # "ready"
    <3>1. g = 1 \/ g = 2
      OBVIOUS
    <3> QED BY <1>2, <1>4, <2>1, <3>1
  <2>3. RegistryIsTheLiveTask'
    BY <1>1, <2>1 DEF RegistryIsTheLiveTask, Live
  <2> QED BY <1>0, <2>1, <2>2, <2>3
<1>5. CASE ~(registry[t] # 0 /\ Live(t, registry[t]))
  <2>1. registry[t] = 0
    BY <1>3, <1>5
  <2>2. \A h \in 1..2 : ~Live(t, h)
    BY <1>1, <2>1 DEF RegistryIsTheLiveTask
  <2> DEFINE q == [body[<<t, g>>] EXCEPT !.pc = "loop", !.chain = req[t].row]
  <2>3. /\ g = IF body[<<t, 1>>].pc = "none" THEN 1 ELSE 2
        /\ registry' = [registry EXCEPT ![t] = g]
        /\ body' = [body EXCEPT ![<<t, g>>] = q]
    BY <1>5 DEF StartTurn
  <2>4. q \in Body /\ q.pc = "loop" /\ q.chain = req[t].row
    <3>1. body[<<t, g>>] \in Body
      BY <1>0
    <3> QED BY <1>0, <3>1 DEF Body
  <2> HIDE DEF q
  <2>5. /\ body' \in [Runtimes -> Body] /\ registry' \in [Turns -> 0..2] /\ registry'[t] = g
        /\ body'[<<t, g>>] = q
        /\ \A u \in Turns, h \in 1..2 : <<u, h>> # <<t, g>> => body'[<<u, h>>] = body[<<u, h>>]
        /\ \A u \in Turns \ {t} : registry'[u] = registry[u]
    <3>1. g \in 0..2
      OBVIOUS
    <3>2. registry' \in [Turns -> 0..2] /\ registry'[t] = g
          /\ \A u \in Turns \ {t} : registry'[u] = registry[u]
      BY <1>0, <2>3, <3>1
    <3>3. body' \in [Runtimes -> Body] /\ body'[<<t, g>>] = q
      BY <1>0, <2>3, <2>4
    <3>4. \A u \in Turns, h \in 1..2 : <<u, h>> # <<t, g>> => body'[<<u, h>>] = body[<<u, h>>]
      BY <1>0, <2>3
    <3> QED BY <3>2, <3>3, <3>4
  <2>6. ASSUME NEW u \in Turns, NEW h \in 1..2
        PROVE  registry'[u] = h <=> Live(u, h)'
    <3>1. CASE <<u, h>> = <<t, g>>
      BY <2>4, <2>5, <3>1 DEF Live, Gone
    <3>2. CASE u = t /\ h # g
      BY <2>2, <2>5, <3>2 DEF Live
    <3>3. CASE u # t
      <4>1. body'[<<u, h>>] = body[<<u, h>>] /\ registry'[u] = registry[u]
        BY <2>5, <3>3
      <4>2. registry[u] = h <=> Live(u, h)
        BY <1>1 DEF RegistryIsTheLiveTask
      <4>3. Live(u, h)' <=> Live(u, h)
        BY <4>1 DEF Live
      <4> QED BY <4>1, <4>2, <4>3
    <3> QED BY <3>1, <3>2, <3>3
  <2>7. req[t].pc = "ready" => g = 1 /\ body'[<<t, 1>>].pc = "loop"
    BY <1>2, <2>3, <2>4, <2>5
  <2>8. ASSUME NEW u \in Turns, NEW h \in 1..2
        PROVE  \/ body'[<<u, h>>] = body[<<u, h>>]
               \/ /\ u = t /\ h = g /\ ~Live(t, g)
                  /\ body'[<<u, h>>].pc = "loop" /\ body'[<<u, h>>].chain = req[t].row
    <3>1. CASE <<u, h>> = <<t, g>>
      BY <2>2, <2>4, <2>5, <3>1
    <3>2. CASE <<u, h>> # <<t, g>>
      BY <2>5, <3>2
    <3> QED BY <3>1, <3>2
  <2> QED BY <2>5, <2>6, <2>7, <2>8 DEF RegistryIsTheLiveTask
<1> QED BY <1>4, <1>5

\* What Start and Attach share.
LEMMA StartKeeps ==
  ASSUME TurnInv, NEW t \in Turns, NEW g \in 1..2, StartTurn(t, g),
         req[t].pc \in {"ready", "started"}, stream[t].pc = "none",
         req' \in [Turns -> Request], stream' \in [Turns -> Stream],
         \A u \in Turns : req'[u].row = req[u].row,
         req'[t].pc = "started",
         \A u \in Turns \ {t} : req'[u] = req[u] /\ stream'[u] = stream[u],
         stream'[t].pc \in {"none", "attached"},
         stream'[t].pc = "none" => g = 1 /\ req[t].pc = "ready",
         stream'[t].pc = "attached" => stream'[t].run # 0,
         overlapped' \in BOOLEAN, faults' \in 0..MaxFaults,
         UNCHANGED <<rows, leaf, cancel, history, lost>>
  PROVE  TurnInv'
<1>0. /\ body' \in [Runtimes -> Body] /\ registry' \in [Turns -> 0..2]
      /\ RegistryIsTheLiveTask' /\ registry'[t] = g
      /\ \A u \in Turns, h \in 1..2 :
           \/ body'[<<u, h>>] = body[<<u, h>>]
           \/ /\ u = t /\ h = g /\ ~Live(t, g)
              /\ body'[<<u, h>>].pc = "loop"
              /\ body'[<<u, h>>].chain = req[t].row
      /\ req[t].pc = "ready" => g = 1 /\ body'[<<t, 1>>].pc = "loop"
  BY StartStep, Zenon
<1>1. /\ body' \in [Runtimes -> Body] /\ registry' \in [Turns -> 0..2]
      /\ RegistryIsTheLiveTask' /\ registry'[t] = g
      /\ req[t].pc = "ready" => g = 1 /\ body'[<<t, 1>>].pc = "loop"
  BY <1>0, Zenon
<1>2. \A u \in Turns, h \in 1..2 :
        \/ body'[<<u, h>>] = body[<<u, h>>]
        \/ /\ u = t /\ h = g /\ ~Live(t, g)
           /\ body'[<<u, h>>].pc = "loop"
           /\ body'[<<u, h>>].chain = req[t].row
  BY <1>0, Zenon
<1>3. TypeOK'
  BY <1>1 DEF TurnInv, TypeOK
<1>4. InRange'
  <2>1. \A u \in Turns, h \in 1..2 :
          /\ body'[<<u, h>>].chain <= Len(rows)
          /\ body'[<<u, h>>].pc \in {"call", "tool"} => body'[<<u, h>>].todo > 0
    BY <1>2, BaseTypes DEF TurnInv, InRange
  <2> QED BY <2>1 DEF TurnInv, InRange
<1>5. OneAfterTheOther'
  <2>1. ASSUME NEW u \in Turns
        PROVE  /\ req'[u].pc \in Unstarted => /\ stream'[u].pc = "none"
                                              /\ body'[<<u, 1>>].pc = "none"
               /\ stream'[u].pc = "none" => body'[<<u, 2>>].pc = "none"
               /\ stream'[u].pc \in {"attached", "live", "ended"} => stream'[u].run # 0
    <3>0. 1 \in 1..2 /\ 2 \in 1..2
      OBVIOUS
    <3>1. CASE u = t
      <4>1. stream'[t].pc = "none" => body'[<<t, 2>>] = body[<<t, 2>>]
        <5>1. stream'[t].pc = "none" => g # 2
          OBVIOUS
        <5> QED BY <1>2, <3>0, <5>1
      <4>2. body[<<t, 2>>].pc = "none"
        BY DEF TurnInv, OneAfterTheOther
      <4> QED BY <3>1, <4>1, <4>2 DEF Unstarted
    <3>2. CASE u # t
      <4>1. body'[<<u, 1>>] = body[<<u, 1>>] /\ body'[<<u, 2>>] = body[<<u, 2>>]
        BY <1>2, <3>0, <3>2
      <4> QED BY <3>2, <4>1 DEF TurnInv, OneAfterTheOther
    <3> QED BY <3>1, <3>2
  <2> QED BY <2>1 DEF OneAfterTheOther
<1>6. StreamSeesItsTurn'
  <2> SUFFICES ASSUME NEW u \in Turns, stream'[u].pc \in {"live", "ended"},
                      NEW h, h = stream'[u].run
               PROVE  /\ stream'[u].got = history'[<<u, h>>]
                      /\ stream'[u].pc = "ended" <=> body'[<<u, h>>].pc = "closed"
    BY DEF StreamSeesItsTurn
  <2>1. u # t /\ stream'[u] = stream[u]
    OBVIOUS
  <2>2. h \in 1..2
    <3>1. h # 0 /\ stream[u] \in Stream
      BY <2>1, FieldTypes DEF TurnInv, OneAfterTheOther
    <3> QED BY <2>1, <3>1 DEF Stream
  <2>3. body'[<<u, h>>] = body[<<u, h>>]
    BY <1>2, <2>1, <2>2
  <2> QED BY <2>1, <2>3 DEF TurnInv, StreamSeesItsTurn
<1>7. StatusKept'
  <2> SUFFICES ASSUME NEW k \in DOMAIN rows, rows[k].mark.state = "running",
                      NEW u, u = rows[k].mark.turn
               PROVE  u \in lost \/ (k = req'[u].row /\ WillWriteItsEnd(u)')
    BY DEF StatusKept, StatusRow, WillWriteItsEnd, Live
  <2>1. u \in lost \/ (k = req[u].row /\ WillWriteItsEnd(u))
    BY DEF TurnInv, StatusKept, StatusRow
  <2>2. u \in Turns
    <3>1. rows[k] \in Rows
      BY DEF TurnInv, TypeOK
    <3> QED BY <3>1 DEF Rows, Marks, NoMark
  <2>3. ASSUME NEW h \in 1..2, Live(u, h), body[<<u, h>>].pc # "closing"
        PROVE  Live(u, h)' /\ body'[<<u, h>>].pc # "closing"
    BY <1>2, <2>2, <2>3 DEF Live
  <2>4. u = t /\ req[t].pc = "ready" => Live(t, 1)' /\ body'[<<t, 1>>].pc # "closing"
    BY <1>1 DEF Live, Gone
  <2>5. 1 \in 1..2
    OBVIOUS
  <2>6. WillWriteItsEnd(u) => WillWriteItsEnd(u)'
    BY <2>2, <2>3, <2>4, <2>5 DEF WillWriteItsEnd
  <2> QED BY <2>1, <2>2, <2>6
<1> QED BY <1>1, <1>3, <1>4, <1>5, <1>6, <1>7 DEF TurnInv

LEMMA StartActionStep ==
  ASSUME TurnInv, NEW t \in Turns, Start(t)
  PROVE  TurnInv'
<1>1. PICK g \in 1..2 : StartTurn(t, g)
  BY DEF Start
<1>2. /\ req[t].pc = "ready" /\ req' = [req EXCEPT ![t].pc = "started"]
      /\ UNCHANGED <<rows, leaf, cancel, history, stream, faults, lost, overlapped>>
  BY DEF Start
<1>3. stream[t].pc = "none"
  BY <1>2 DEF TurnInv, OneAfterTheOther, Unstarted
<1>4. g = 1
  BY <1>1, <1>2, <1>3, StartStep
<1>5. /\ req' \in [Turns -> Request] /\ req'[t].pc = "started" /\ req'[t].row = req[t].row
      /\ \A u \in Turns \ {t} : req'[u] = req[u]
  <2>1. req \in [Turns -> Request] /\ req[t] \in Request
    BY DEF TurnInv, TypeOK
  <2> DEFINE q == [req[t] EXCEPT !.pc = "started"]
  <2>2. q \in Request /\ q.pc = "started" /\ q.row = req[t].row
    BY <2>1 DEF Request
  <2>3. req' = [req EXCEPT ![t] = q]
    BY <1>2
  <2> HIDE DEF q
  <2> QED BY <2>1, <2>2, <2>3
<1>6. /\ stream' \in [Turns -> Stream] /\ overlapped' \in BOOLEAN /\ faults' \in 0..MaxFaults
  BY <1>2 DEF TurnInv, TypeOK
<1> HIDE DEF StartTurn
<1> QED BY <1>1, <1>2, <1>3, <1>4, <1>5, <1>6, StartKeeps

LEMMA AttachStep ==
  ASSUME TurnInv, NEW t \in Turns, Attach(t)
  PROVE  TurnInv'
<1>1. PICK g \in 1..2 :
        /\ StartTurn(t, g)
        /\ stream' = [stream EXCEPT ![t].pc = "attached", ![t].run = g]
        /\ overlapped' = (overlapped \/ g = 2)
        /\ IF g = 2 THEN Fault ELSE UNCHANGED faults
  BY DEF Attach
<1>2. /\ req[t].pc = "started" /\ stream[t].pc = "none"
      /\ UNCHANGED <<rows, leaf, req, cancel, history, lost>>
  BY DEF Attach
<1>3. /\ stream' \in [Turns -> Stream] /\ stream'[t].pc = "attached" /\ stream'[t].run = g
      /\ \A u \in Turns \ {t} : stream'[u] = stream[u]
  <2>1. stream \in [Turns -> Stream] /\ stream[t] \in Stream /\ g \in 0..2
    BY DEF TurnInv, TypeOK
  <2> DEFINE q == [stream[t] EXCEPT !.pc = "attached", !.run = g]
  <2>2. q \in Stream /\ q.pc = "attached" /\ q.run = g
    BY <2>1 DEF Stream
  <2>3. stream' = [stream EXCEPT ![t] = q]
    BY <1>1
  <2> HIDE DEF q
  <2> QED BY <2>1, <2>2, <2>3
<1>4. faults' \in 0..MaxFaults
  <2>1. faults \in 0..MaxFaults
    BY DEF TurnInv, TypeOK
  <2> QED BY <1>1, <2>1, FaultType
<1>5. overlapped' \in BOOLEAN
  BY <1>1
<1>6. req' \in [Turns -> Request]
  BY <1>2 DEF TurnInv, TypeOK
<1> HIDE DEF StartTurn
<1> QED BY <1>1, <1>2, <1>3, <1>4, <1>5, <1>6, StartKeeps

(***************************************************************************)
(* The steps of a turn that has no task, while turns do not overlap.       *)
(***************************************************************************)

\* A step of a request that has no task yet, while no other turn is busy.
LEMMA RequestAlone ==
  ASSUME TurnInv, AloneInv, NEW t \in Turns, req[t].pc \in {"idle", "reading", "sending"},
         NEW q \in Request, req' = [req EXCEPT ![t] = q],
         q.pc \in {"reading", "sending", "ready", "over"},
         body' = body, lost' = lost, overlapped => overlapped',
         ~overlapped' => Busy(t) \/ Alone(t),
         NEW p, Grows(t, p),
         \A k \in DOMAIN rows' \ DOMAIN rows : rows'[k].visible \/ q.pc = "sending",
         req[t].pc = "sending" => q.pc \in {"sending", "over"},
         q.pc = "sending" => /\ req[t].pc # "idle" /\ q.chain = Len(rows')
                             /\ q.chain \in DOMAIN rows' /\ rows'[q.chain].by = t
                             /\ ~rows'[q.chain].visible,
         q.pc = "reading" =>
           /\ rows' = rows /\ leaf' = leaf
           /\ IF q.mode = "edit"
              THEN \E m \in VisibleRows(rows) : rows[m].role = "user" /\ rows[m].parent = q.row
              ELSE q.row = leaf,
         q.pc = "ready" =>
           /\ OneAtATime => q.row = leaf'
           /\ q.row # NoRow => rows'[q.row].mark = [turn |-> t, state |-> "running"],
         Len(rows') # Len(rows) =>
           \/ /\ req[t].pc = "reading" /\ p = req[t].row
              /\ rows'[Len(rows) + 1].role = "user"
           \/ req[t].pc = "sending" /\ p = req[t].chain,
         leaf' \in 0..Len(rows'),
         \/ leaf' = Len(rows')
         \/ /\ leaf' = leaf
            /\ Len(rows') # Len(rows) => q.pc = "sending"
            /\ req[t].pc = "sending" => q.pc = "sending" \/ rows' = rows
  PROVE  AloneInv'
<1>0. FirstInv /\ 1 \in 1..2 /\ 2 \in 1..2
  BY DEF AloneInv, FirstInv
<1>1. req'[t] = q /\ \A u \in Turns \ {t} : req'[u] = req[u]
  BY DEF TurnInv, TypeOK
<1>2. Others(t)
  BY <1>1 DEF Others
<1>3. body[<<t, 1>>].pc = "none" /\ body[<<t, 2>>].pc = "none"
  <2>1. stream[t].pc = "none" /\ body[<<t, 1>>].pc = "none"
    BY DEF TurnInv, OneAfterTheOther, Unstarted
  <2> QED BY <2>1 DEF TurnInv, OneAfterTheOther
<1>4. FirstInv'
  <2>1. req[t].pc \in {"sending", "over"} => req'[t].pc \in {"sending", "over"}
    BY <1>1
  <2>2. req'[t].pc # "started"
    BY <1>1
  <2> QED BY <1>0, <1>1, <1>2, <2>1, <2>2, FirstStep
<1>5. ASSUME ~overlapped'
      PROVE  OneAtATime /\ Alone(t) /\ OneAtATime' /\ Alone(t)'
  <2>1. OneAtATime
    BY <1>5 DEF AloneInv
  <2>2. Alone(t)
    BY <1>5, <2>1 DEF OneAtATime, Alone
  <2>3. InOrder(t)'
    <3>1. body'[<<t, 2>>].pc = "none" /\ body'[<<t, 1>>].pc \notin Writing
      BY <1>3 DEF Writing
    <3>2. CASE q.pc = "reading"
      <4>1. rows' = rows /\ leaf' = leaf
        BY <3>2
      <4> QED BY <1>1, <3>1, <3>2, <4>1 DEF InOrder, VisibleRows
    <3>3. CASE q.pc # "reading"
      BY <1>1, <2>1, <3>1, <3>3 DEF InOrder
    <3> QED BY <3>2, <3>3
  <2> QED BY <1>2, <2>1, <2>2, <2>3, OrderStep
<1>6. ASSUME ~overlapped', \A u \in Turns : ~Torn(u)'
      PROVE  OneBranch'
  <2>1. req'[t].pc = "sending" => req[t].pc \in {"reading", "sending"}
    BY <1>1
  <2>2. \A u \in Turns : ~Torn(u)
    BY <1>0, <1>2, <1>6, <2>1, TornStays
  <2>3. OneBranch /\ OneAtATime /\ Alone(t)
    BY <1>5, <1>6, <2>2 DEF AloneInv
  <2>4. ASSUME Len(rows') # Len(rows)
        PROVE  /\ \A k \in Kept : rows[k].role \in Tools => rows[k].parent # p
               /\ rows'[Len(rows) + 1].role \in Tools => KeptChildren(p) = {}
    <3>1. CASE req[t].pc = "sending" /\ p = req[t].chain
      <4>1. p = Len(rows)
        BY <2>3, <3>1 DEF OneAtATime, InOrder
      <4>2. KeptChildren(p) = {}
        BY <1>0, <4>1, NothingBelow DEF FirstInv
      <4> QED BY <4>2 DEF KeptChildren
    <3>2. CASE /\ req[t].pc = "reading" /\ p = req[t].row
               /\ rows'[Len(rows) + 1].role = "user"
      <4>1. CASE req[t].mode # "edit"
        <5>1. p = leaf
          BY <2>3, <3>2, <4>1 DEF OneAtATime, InOrder
        <5>2. \A k \in Kept : rows[k].parent # leaf
          BY <2>3, <3>2, LeafIsFree
        <5> QED BY <3>2, <5>1, <5>2 DEF Tools
      <4>2. CASE req[t].mode = "edit"
        <5>1. PICK m \in VisibleRows(rows) : rows[m].role = "user" /\ rows[m].parent = p
          BY <2>3, <3>2, <4>2 DEF OneAtATime, InOrder
        <5>2. m \in Kept
          BY DEF VisibleRows, Kept
        <5>3. ASSUME NEW k \in Kept, rows[k].role \in Tools, rows[k].parent = p PROVE FALSE
          <6>1. KeptChildren(p) = {k}
            BY <2>3, <5>3 DEF OneBranch, Tools
          <6>2. m = k
            BY <5>1, <5>2, <6>1 DEF KeptChildren
          <6> QED BY <5>1, <5>3, <6>2 DEF Tools
        <5> QED BY <3>2, <5>3 DEF Tools
      <4> QED BY <4>1, <4>2
    <3> QED BY <2>4, <3>1, <3>2
  <2>5. \/ leaf' = Len(rows')
        \/ /\ leaf' = leaf
           /\ Len(rows') # Len(rows) => req'[t].pc = "sending"
           /\ req[t].pc = "sending" => req'[t].pc = "sending" \/ rows' = rows
    BY <1>1
  <2> QED BY <1>0, <1>2, <1>4, <1>6, <2>1, <2>3, <2>4, <2>5, BranchStep
<1>7. ASSUME ~overlapped', lost' = {}
      PROVE  StatusStands'
  <2>1. Alone(t)' /\ OneAtATime
    BY <1>5, <1>7
  <2> SUFFICES ASSUME WillWriteItsEnd(t)', req'[t].row # NoRow
               PROVE  /\ rows'[req'[t].row].mark = [turn |-> t, state |-> "running"]
                      /\ OnBranch(rows', leaf', req'[t].row)
    BY <2>1, StatusStep
  <2>2. q.pc = "ready"
    <3>1. \A g \in 1..2 : ~Live(t, g)'
      <4>1. \A g \in 1..2 : g = 1 \/ g = 2
        OBVIOUS
      <4> QED BY <1>3, <4>1 DEF Live, Gone
    <3> QED BY <1>1, <3>1 DEF WillWriteItsEnd
  <2>3. q.row = leaf' /\ rows'[q.row].mark = [turn |-> t, state |-> "running"]
    BY <1>1, <2>1, <2>2
  <2>4. rows' \in Seq(Rows) /\ Rooted(rows')
    <3>1. rows' \in Seq(Rows)
      BY DEF Grows
    <3> QED BY <1>4, <3>1, SeqRooted DEF FirstInv, PointsBack
  <2>5. leaf' \in 1..Len(rows')
    <3>1. leaf' # 0
      BY <1>1, <2>3 DEF NoRow
    <3>2. Len(rows') \in Nat
      BY <2>4
    <3> QED BY <3>1, <3>2
  <2>6. OnBranch(rows', leaf', leaf')
    BY <2>4, <2>5, BranchParts
  <2> QED BY <1>1, <2>3, <2>6
<1> QED BY <1>4, <1>5, <1>6, <1>7 DEF AloneInv, FirstInv

LEMMA OpenAlone ==
  ASSUME TurnInv, AloneInv, NEW t \in Turns, NEW mode \in Modes, Open(t, mode)
  PROVE  AloneInv'
<1>1. PICK p \in 0..Len(rows) :
        /\ IF mode = "edit"
           THEN \E m \in VisibleRows(rows) : rows[m].role = "user" /\ rows[m].parent = p
           ELSE p = leaf
        /\ req' = [req EXCEPT ![t].pc = "reading", ![t].mode = mode, ![t].row = p]
  BY DEF Open
<1>2. /\ req[t].pc = "idle" /\ rows' = rows /\ leaf' = leaf /\ body' = body /\ lost' = lost
      /\ overlapped' = (overlapped \/ \E u \in Turns \ {t} : Busy(u))
  BY DEF Open, tasks
<1> DEFINE q == [req[t] EXCEPT !.pc = "reading", !.mode = mode, !.row = p]
<1>3. q \in Request /\ q.pc = "reading" /\ q.row = p /\ q.mode = mode
  <2>1. req[t] \in Request /\ p \in Nat
    BY BaseTypes
  <2> QED BY <2>1 DEF Request
<1>4. PICK r \in Request : r = q
  BY <1>3
<1>5. req' = [req EXCEPT ![t] = r] /\ r.pc = "reading" /\ r.row = p /\ r.mode = mode
  BY <1>1, <1>3, <1>4
<1> HIDE DEF q
<1>6. Grows(t, 0) /\ leaf' \in 0..Len(rows') /\ DOMAIN rows' = DOMAIN rows
  <2>1. SameShape(rows')
    BY <1>2, Domains DEF SameShape
  <2>2. 0 \in 0..Len(rows)
    BY Domains
  <2> QED BY <1>2, <2>1, <2>2, NoMore, Domains
<1>7. ~overlapped' => Alone(t)
  BY <1>2 DEF Alone
<1>8. r.pc = "reading" =>
        /\ rows' = rows /\ leaf' = leaf
        /\ IF r.mode = "edit"
           THEN \E m \in VisibleRows(rows) : rows[m].role = "user" /\ rows[m].parent = r.row
           ELSE r.row = leaf
  BY <1>1, <1>2, <1>5
<1> QED BY <1>2, <1>5, <1>6, <1>7, <1>8, RequestAlone

LEMMA RefuseAlone ==
  ASSUME TurnInv, AloneInv, NEW t \in Turns, Refuse(t)
  PROVE  AloneInv'
<1>1. /\ req[t].pc \in {"reading", "sending"}
      /\ rows' = rows /\ leaf' = leaf /\ body' = body /\ lost' = lost
      /\ overlapped' = overlapped
  BY DEF Refuse, tasks
<1>2. PICK r \in Request : r = [NoRequest EXCEPT !.pc = "over"]
  BY DefaultTypes
<1>3. req' = [req EXCEPT ![t] = r] /\ r.pc = "over"
  BY <1>2 DEF Refuse, NoRequest
<1>4. Grows(t, 0) /\ leaf' \in 0..Len(rows') /\ DOMAIN rows' = DOMAIN rows
  <2>1. SameShape(rows')
    BY <1>1, Domains DEF SameShape
  <2>2. 0 \in 0..Len(rows)
    BY Domains
  <2> QED BY <1>1, <2>1, <2>2, NoMore, Domains
<1>5. Busy(t)
  BY <1>1 DEF Busy, InRequest
<1> QED BY <1>1, <1>3, <1>4, <1>5, RequestAlone

LEMMA MessageAlone ==
  ASSUME TurnInv, AloneInv, NEW t \in Turns, CommitMessage(t)
  PROVE  AloneInv'
<1> DEFINE n == Len(rows) + 1
           mk == [turn |-> t, state |-> "running"]
           row == NewRow(req[t].row, "user", t, mk, TRUE)
<1>1. rows \in Seq(Rows) /\ req[t] \in Request /\ req[t].row \in Nat /\ req[t].row <= Len(rows)
      /\ n \in Nat
  BY BaseTypes
<1>2. /\ req[t].pc = "reading" /\ rows' = Append(rows, row) /\ leaf' = n /\ body' = body
      /\ lost' = lost /\ overlapped' = overlapped
  BY DEF CommitMessage, tasks
<1>3. PICK r \in Request : /\ req' = [req EXCEPT ![t] = r] /\ r.pc = "ready" /\ r.row = n
  <2> DEFINE q == [req[t] EXCEPT !.pc = "ready", !.row = n]
  <2>1. q \in Request /\ q.pc = "ready" /\ q.row = n
    BY <1>1 DEF Request
  <2>2. req' = [req EXCEPT ![t] = q]
    BY DEF CommitMessage
  <2> HIDE DEF q
  <2> QED BY <2>1, <2>2
<1>4. /\ row \in Rows /\ row.parent = req[t].row /\ row.by = t /\ row.visible
      /\ row.role = "user" /\ row.mark = mk
  <2>1. PICK p \in Nat : p = req[t].row
    BY <1>1
  <2>2. NewRow(p, "user", t, mk, TRUE) \in Rows
    BY MarkTypes, RowTypes DEF Roles, States
  <2> QED BY <2>1, <2>2 DEF NewRow
<1>5. SameShape(rows)
  BY <1>1 DEF SameShape
<1> HIDE DEF row, mk
<1>6. /\ rows' \in Seq(Rows) /\ Len(rows') = n /\ rows'[n] = row /\ Grows(t, req[t].row)
      /\ \A k \in DOMAIN rows' \ DOMAIN rows : k = n
  BY <1>1, <1>2, <1>4, <1>5, OneMore
<1>7. \A k \in DOMAIN rows' \ DOMAIN rows : rows'[k].visible
  BY <1>4, <1>6
<1>8. leaf' \in 0..Len(rows') /\ leaf' = Len(rows')
  BY <1>1, <1>2, <1>6
<1>9. Busy(t)
  BY <1>2 DEF Busy, InRequest
<1>10. r.pc = "ready" =>
         /\ OneAtATime => r.row = leaf'
         /\ r.row # NoRow => rows'[r.row].mark = [turn |-> t, state |-> "running"]
  BY <1>2, <1>3, <1>4, <1>6 DEF mk
<1>11. rows'[n].role = "user"
  BY <1>4, <1>6
<1> QED BY <1>2, <1>3, <1>6, <1>7, <1>8, <1>9, <1>10, <1>11, RequestAlone

LEMMA QuietAlone ==
  ASSUME TurnInv, AloneInv, NEW t \in Turns, CommitQuiet(t)
  PROVE  AloneInv'
<1>1. /\ rows \in Seq(Rows) /\ req[t] \in Request /\ req[t].row \in Nat
      /\ req[t].row <= Len(rows)
  BY BaseTypes
<1>2. /\ req[t].pc = "reading" /\ req[t].mode = "quiet"
      /\ rows' = Marked(rows, req[t].row, t, "running") /\ leaf' = leaf /\ body' = body
      /\ lost' = lost /\ overlapped' = overlapped
  BY DEF CommitQuiet, tasks
<1>3. PICK r \in Request : /\ req' = [req EXCEPT ![t] = r] /\ r.pc = "ready"
                           /\ r.row = req[t].row
  <2> DEFINE q == [req[t] EXCEPT !.pc = "ready"]
  <2>1. q \in Request /\ q.pc = "ready" /\ q.row = req[t].row
    BY <1>1 DEF Request
  <2>2. req' = [req EXCEPT ![t] = q]
    BY DEF CommitQuiet
  <2> HIDE DEF q
  <2> QED BY <2>1, <2>2
<1>4. /\ SameShape(rows')
      /\ req[t].row \in DOMAIN rows =>
           rows'[req[t].row].mark = [turn |-> t, state |-> "running"]
  <2>1. PICK m \in Nat : m = req[t].row
    BY <1>1
  <2> QED BY <1>1, <1>2, <2>1, MarkedShape DEF States
<1>5. Grows(t, 0) /\ leaf' \in 0..Len(rows') /\ DOMAIN rows' = DOMAIN rows
      /\ Len(rows') = Len(rows)
  <2>1. 0 \in 0..Len(rows)
    BY Domains
  <2> QED BY <1>2, <1>4, <2>1, NoMore, Domains DEF SameShape
<1>6. Busy(t)
  BY <1>2 DEF Busy, InRequest
<1>7. r.row # NoRow => rows'[r.row].mark = [turn |-> t, state |-> "running"]
  <2>1. r.row # NoRow => req[t].row \in DOMAIN rows
    BY <1>1, <1>3, Domains DEF NoRow
  <2> QED BY <1>3, <1>4, <2>1
<1>8. OneAtATime => r.row = leaf'
  BY <1>2, <1>3 DEF OneAtATime, InOrder
<1> QED BY <1>2, <1>3, <1>5, <1>6, <1>7, <1>8, RequestAlone

LEMMA SendUserAlone ==
  ASSUME TurnInv, AloneInv, NEW t \in Turns, SendUser(t)
  PROVE  AloneInv'
<1> DEFINE n == Len(rows) + 1
           row == NewRow(req[t].row, "user", t, NoMark, FALSE)
<1>1. rows \in Seq(Rows) /\ req[t] \in Request /\ req[t].row \in Nat /\ req[t].row <= Len(rows)
      /\ n \in Nat /\ leaf \in 0..n
  <2>1. Len(rows) \in Nat /\ leaf \in 0..Len(rows)
    BY BaseTypes
  <2> QED BY <2>1, BaseTypes
<1>2. /\ req[t].pc = "reading" /\ rows' = Append(rows, row) /\ leaf' = leaf /\ body' = body
      /\ lost' = lost /\ overlapped' = overlapped
  BY DEF SendUser, tasks
<1>3. PICK r \in Request : /\ req' = [req EXCEPT ![t] = r] /\ r.pc = "sending" /\ r.chain = n
  <2> DEFINE q == [req[t] EXCEPT !.pc = "sending", !.row = n, !.chain = n]
  <2>1. q \in Request /\ q.pc = "sending" /\ q.chain = n
    BY <1>1 DEF Request
  <2>2. req' = [req EXCEPT ![t] = q]
    BY DEF SendUser
  <2> HIDE DEF q
  <2> QED BY <2>1, <2>2
<1>4. /\ row \in Rows /\ row.parent = req[t].row /\ row.by = t /\ ~row.visible
      /\ row.role = "user"
  <2>1. PICK p \in Nat : p = req[t].row
    BY <1>1
  <2>2. NewRow(p, "user", t, NoMark, FALSE) \in Rows
    BY MarkTypes, RowTypes DEF Roles
  <2> QED BY <2>1, <2>2 DEF NewRow
<1>5. SameShape(rows)
  BY <1>1 DEF SameShape
<1> HIDE DEF row
<1>6. /\ rows' \in Seq(Rows) /\ Len(rows') = n /\ rows'[n] = row /\ Grows(t, req[t].row)
  BY <1>1, <1>2, <1>4, <1>5, OneMore
<1>7. leaf' \in 0..Len(rows') /\ n \in DOMAIN rows'
  BY <1>1, <1>2, <1>6
<1>8. Busy(t)
  BY <1>2 DEF Busy, InRequest
<1>9. rows'[n].role = "user" /\ rows'[n].by = t /\ ~rows'[n].visible
  BY <1>4, <1>6
<1> QED BY <1>2, <1>3, <1>6, <1>7, <1>8, <1>9, RequestAlone

\* What a commit makes of the rows of a turn.
LEMMA CommittedShape ==
  ASSUME NEW rs \in Seq(Rows), NEW t \in Turns
  PROVE  /\ Commit(rs, t) \in Seq(Rows) /\ Len(Commit(rs, t)) = Len(rs)
         /\ \A k \in DOMAIN rs :
              /\ Commit(rs, t)[k].parent = rs[k].parent /\ Commit(rs, t)[k].role = rs[k].role
              /\ Commit(rs, t)[k].by = rs[k].by
              /\ rs[k].visible => Commit(rs, t)[k].visible
              /\ rs[k].by = t => Commit(rs, t)[k].visible
              /\ rs[k].by # t => Commit(rs, t)[k] = rs[k]
<1> DEFINE c == Commit(rs, t)
<1>0. DOMAIN rs = 1..Len(rs)
  OBVIOUS
<1>1. ASSUME NEW k \in 1..Len(rs)
      PROVE  /\ c[k] \in Rows /\ c[k].parent = rs[k].parent /\ c[k].role = rs[k].role
             /\ c[k].by = rs[k].by /\ (rs[k].visible => c[k].visible)
             /\ (rs[k].by = t => c[k].visible) /\ (rs[k].by # t => c[k] = rs[k])
  <2>1. rs[k] \in Rows
    OBVIOUS
  <2>2. c[k] = IF rs[k].by = t THEN [rs[k] EXCEPT !.visible = TRUE] ELSE rs[k]
    BY <1>0 DEF Commit
  <2> DEFINE new == [rs[k] EXCEPT !.visible = TRUE]
  <2>3. /\ new \in Rows /\ new.parent = rs[k].parent /\ new.role = rs[k].role
        /\ new.by = rs[k].by /\ new.visible
    BY <2>1 DEF Rows
  <2> HIDE DEF new, c
  <2> QED BY <2>1, <2>2, <2>3 DEF new
<1>2. c \in [1..Len(rs) -> Rows]
  <2>1. c = [k \in 1..Len(rs) |-> c[k]]
    BY <1>0 DEF Commit
  <2> HIDE DEF c
  <2> QED BY <1>1, <2>1
<1> HIDE DEF c
<1>3. c \in Seq(Rows) /\ Len(c) = Len(rs)
  BY <1>2
<1> QED BY <1>0, <1>1, <1>3 DEF c

\* A row at the end of any rows.
LEMMA RowAtEnd ==
  ASSUME NEW rs \in Seq(Rows), NEW row \in Rows
  PROVE  /\ Append(rs, row) \in Seq(Rows) /\ Len(Append(rs, row)) = Len(rs) + 1
         /\ Append(rs, row)[Len(rs) + 1] = row
         /\ \A k \in DOMAIN rs : Append(rs, row)[k] = rs[k]
         /\ DOMAIN rs = 1..Len(rs) /\ DOMAIN Append(rs, row) = 1..(Len(rs) + 1)
         /\ Len(rs) \in Nat
<1> QED OBVIOUS

LEMMA SendToolAlone ==
  ASSUME TurnInv, AloneInv, NEW t \in Turns, NEW committed \in BOOLEAN, SendTool(t, committed)
  PROVE  AloneInv'
<1> DEFINE n == Len(rows)
           p == req[t].chain
           one == NewRow(p, "tool_call", t, NoMark, FALSE)
           called == Append(rows, one)
           ran == IF committed THEN Commit(called, t) ELSE called
           two == NewRow(n + 1, "tool_result", t, NoMark, FALSE)
<1>1. rows \in Seq(Rows) /\ req[t] \in Request /\ n \in Nat /\ leaf \in 0..n /\ p \in Nat
  BY BaseTypes
<1>2. /\ req[t].pc = "sending" /\ leaf' = leaf /\ body' = body
      /\ lost' = lost /\ overlapped' = overlapped
      /\ rows' = Append(ran, NewRow(Len(called), "tool_result", t, NoMark, FALSE))
  BY DEF SendTool, tasks
<1>3. PICK r \in Request : /\ req' = [req EXCEPT ![t] = r] /\ r.pc = "sending"
                           /\ r.chain = n + 2
  <2> DEFINE q == [req[t] EXCEPT !.rounds = @ + 1, !.chain = n + 2]
  <2>1. q \in Request /\ q.pc = "sending" /\ q.chain = n + 2
    <3>1. PICK m \in Nat : m = req[t].rounds + 1
      <4>1. req[t].rounds \in Nat
        BY BaseTypes
      <4> QED BY <4>1
    <3>2. PICK c \in Nat : c = n + 2
      BY <1>1
    <3>3. PICK x \in Request : x = req[t]
      BY <1>1
    <3>4. q = [x EXCEPT !.rounds = m, !.chain = c]
      BY <3>1, <3>2, <3>3
    <3> HIDE DEF q, n
    <3>5. q \in Request /\ q.pc = x.pc /\ q.chain = c
      BY <3>4 DEF Request
    <3> QED BY <1>2, <3>2, <3>3, <3>5
  <2>2. req' = [req EXCEPT ![t] = q]
    BY DEF SendTool
  <2> HIDE DEF q
  <2> QED BY <2>1, <2>2
<1>4. /\ one \in Rows /\ one.parent = p /\ one.by = t /\ ~one.visible
      /\ two \in Rows /\ two.parent = n + 1 /\ two.by = t /\ ~two.visible
  <2>1. PICK x \in Nat : x = p
    BY <1>1
  <2>2. PICK y \in Nat : y = n + 1
    BY <1>1
  <2>3. /\ NewRow(x, "tool_call", t, NoMark, FALSE) \in Rows
        /\ NewRow(y, "tool_result", t, NoMark, FALSE) \in Rows
    BY MarkTypes, RowTypes DEF Roles
  <2> QED BY <2>1, <2>2, <2>3 DEF NewRow
<1>5. p \in 1..n
  BY <1>1, <1>2 DEF AloneInv, Unsent
<1> HIDE DEF one
<1>6. /\ called \in Seq(Rows) /\ Len(called) = n + 1 /\ called[n + 1] = one
      /\ \A k \in 1..n : called[k] = rows[k]
      /\ DOMAIN called = 1..(n + 1) /\ DOMAIN rows = 1..n
  BY <1>1, <1>4, RowAtEnd
<1> HIDE DEF called
<1>7. /\ ran \in Seq(Rows) /\ Len(ran) = n + 1
      /\ \A k \in 1..(n + 1) :
           /\ ran[k].parent = called[k].parent /\ ran[k].role = called[k].role
           /\ ran[k].by = called[k].by /\ (called[k].visible => ran[k].visible)
           /\ called[k].by # t => ran[k] = called[k]
  <2>1. CASE committed
    BY <1>6, <2>1, CommittedShape
  <2>2. CASE ~committed
    BY <1>6, <2>2
  <2> QED BY <2>1, <2>2
<1>8. rows' = Append(ran, two)
  BY <1>2, <1>6
<1> HIDE DEF ran, two, p, n
<1>9. /\ rows' \in Seq(Rows) /\ Len(rows') = n + 2 /\ DOMAIN rows' = 1..(n + 2)
      /\ rows'[n + 2] = two /\ \A k \in 1..(n + 1) : rows'[k] = ran[k]
  <2>1. Len(ran) + 1 = n + 2
    BY <1>1, <1>7
  <2> QED BY <1>4, <1>7, <1>8, <2>1, RowAtEnd
<1>10. ASSUME NEW k \in DOMAIN rows
       PROVE  /\ rows'[k].parent = rows[k].parent /\ rows'[k].role = rows[k].role
              /\ rows'[k].by = rows[k].by
              /\ rows[k].visible => rows'[k].visible
              /\ rows'[k].visible /\ ~rows[k].visible => rows[k].by = t /\ req[t].pc = "sending"
  <2>1. k \in 1..n /\ k \in 1..(n + 1)
    BY <1>1, <1>6
  <2>2. rows'[k] = ran[k] /\ called[k] = rows[k]
    BY <1>6, <1>9, <2>1
  <2> QED BY <1>2, <1>7, <2>1, <2>2
<1>11. ASSUME NEW k \in DOMAIN rows' \ DOMAIN rows
       PROVE  rows'[k].by = t /\ rows'[k].parent = IF k = n + 1 THEN p ELSE k - 1
  <2>1. k = n + 1 \/ k = n + 2
    BY <1>1, <1>6, <1>9
  <2>2. n + 1 \in 1..(n + 1)
    BY <1>1
  <2>3. rows'[n + 1].by = t /\ rows'[n + 1].parent = p
    BY <1>4, <1>6, <1>7, <1>9, <2>2
  <2>4. rows'[n + 2].by = t /\ rows'[n + 2].parent = n + 1
    BY <1>4, <1>9
  <2>5. CASE k = n + 1
    BY <2>3, <2>5
  <2>6. CASE k = n + 2
    <3>1. k # n + 1 /\ k - 1 = n + 1
      BY <1>1, <2>6
    <3> QED BY <2>4, <2>6, <3>1
  <2> QED BY <2>1, <2>5, <2>6
<1>12. Grows(t, p)
  <2>1. n <= n + 2 /\ p \in 0..n
    BY <1>1, <1>5
  <2> QED BY <1>9, <1>10, <1>11, <2>1 DEF Grows, n
<1>13. /\ Len(rows') = n + 2 /\ n + 2 \in DOMAIN rows' /\ leaf' \in 0..Len(rows')
       /\ rows'[n + 2].by = t /\ ~rows'[n + 2].visible
  <2>1. leaf \in 0..(n + 2) /\ n + 2 \in 1..(n + 2)
    BY <1>1
  <2> QED BY <1>2, <1>4, <1>9, <2>1
<1>14. Busy(t)
  BY <1>2 DEF Busy, InRequest
<1> QED BY <1>2, <1>3, <1>12, <1>13, <1>14, RequestAlone DEF p

LEMMA SendDoneAlone ==
  ASSUME TurnInv, AloneInv, NEW t \in Turns, NEW silent \in BOOLEAN, SendDone(t, silent)
  PROVE  AloneInv'
<1> DEFINE n == Len(rows)
           p == req[t].chain
           row == NewRow(p, "assistant", t, NoMark, FALSE)
           written == IF silent THEN rows ELSE Append(rows, row)
<1>1. rows \in Seq(Rows) /\ req[t] \in Request /\ n \in Nat /\ p \in Nat /\ DOMAIN rows = 1..n
  BY BaseTypes, Domains
<1>2. /\ req[t].pc = "sending" /\ rows' = Commit(written, t) /\ leaf' = Len(written)
      /\ body' = body /\ lost' = lost /\ overlapped' = overlapped
  BY DEF SendDone, tasks
<1>3. PICK r \in Request : req' = [req EXCEPT ![t] = r] /\ r.pc = "over"
  <2>1. PICK r \in Request : r = [NoRequest EXCEPT !.pc = "over"]
    BY DefaultTypes
  <2> QED BY <2>1 DEF SendDone, NoRequest
<1>4. row \in Rows /\ row.parent = p /\ row.by = t
  <2>1. PICK x \in Nat : x = p
    BY <1>1
  <2>2. NewRow(x, "assistant", t, NoMark, FALSE) \in Rows
    BY MarkTypes, RowTypes DEF Roles
  <2> QED BY <2>1, <2>2 DEF NewRow
<1>5. p \in 1..n
  BY <1>1, <1>2 DEF AloneInv, Unsent
<1> HIDE DEF row, n, p
<1>6. /\ written \in Seq(Rows) /\ n <= Len(written)
      /\ \A k \in 1..n : written[k] = rows[k]
      /\ \A k \in DOMAIN written \ DOMAIN rows : k = n + 1 /\ written[k] = row
  <2>1. CASE silent
    BY <1>1, <2>1 DEF n
  <2>2. CASE ~silent
    <3>1. /\ written \in Seq(Rows) /\ Len(written) = n + 1 /\ written[n + 1] = row
          /\ \A k \in 1..n : written[k] = rows[k]
          /\ DOMAIN written = 1..(n + 1)
      BY <1>1, <1>4, <2>2, RowAtEnd DEF n
    <3>2. \A k \in DOMAIN written \ DOMAIN rows : k = n + 1
      BY <1>1, <3>1
    <3>3. n <= n + 1
      BY <1>1
    <3> QED BY <3>1, <3>2, <3>3
  <2> QED BY <2>1, <2>2
<1> HIDE DEF written
<1>7. /\ rows' \in Seq(Rows) /\ Len(rows') = Len(written)
      /\ \A k \in DOMAIN written :
           /\ rows'[k].parent = written[k].parent /\ rows'[k].role = written[k].role
           /\ rows'[k].by = written[k].by
           /\ written[k].visible => rows'[k].visible
           /\ written[k].by = t => rows'[k].visible
           /\ written[k].by # t => rows'[k] = written[k]
  BY <1>2, <1>6, CommittedShape
<1>8. DOMAIN rows' = DOMAIN written /\ Len(written) \in Nat /\ DOMAIN rows \subseteq DOMAIN written
  BY <1>1, <1>6, <1>7
<1>9. ASSUME NEW k \in DOMAIN rows
      PROVE  /\ rows'[k].parent = rows[k].parent /\ rows'[k].role = rows[k].role
             /\ rows'[k].by = rows[k].by
             /\ rows[k].visible => rows'[k].visible
             /\ rows'[k].visible /\ ~rows[k].visible => rows[k].by = t /\ req[t].pc = "sending"
  <2>1. k \in DOMAIN written /\ written[k] = rows[k]
    BY <1>1, <1>6, <1>8
  <2> QED BY <1>2, <1>7, <2>1
<1>10. ASSUME NEW k \in DOMAIN rows' \ DOMAIN rows
       PROVE  /\ rows'[k].by = t /\ rows'[k].parent = IF k = n + 1 THEN p ELSE k - 1
              /\ rows'[k].visible
  <2>1. k \in DOMAIN written /\ k = n + 1 /\ written[k] = row
    BY <1>6, <1>8
  <2> QED BY <1>4, <1>7, <2>1
<1>11. Grows(t, p)
  <2>1. p \in 0..n /\ n <= Len(rows')
    BY <1>1, <1>5, <1>6, <1>7
  <2> QED BY <1>7, <1>9, <1>10, <2>1 DEF Grows, n
<1>12. leaf' = Len(rows') /\ leaf' \in 0..Len(rows')
  BY <1>2, <1>7, <1>8
<1>13. Busy(t)
  BY <1>2 DEF Busy, InRequest
<1>14. \A k \in DOMAIN rows' \ DOMAIN rows : rows'[k].visible
  BY <1>10
<1> QED BY <1>2, <1>3, <1>11, <1>12, <1>13, <1>14, RequestAlone DEF p

(***************************************************************************)
(* The start and the end of a task, while turns do not overlap.            *)
(***************************************************************************)

LEMMA CloseAlone ==
  ASSUME TurnInv, AloneInv, NEW t \in Turns, NEW g \in 1..2, Close(t, g)
  PROVE  AloneInv'
<1>1. PICK r \in Body : r = [NoBody EXCEPT !.pc = "closed"]
  BY DefaultTypes
<1>2. r.pc = "closed" /\ body' = [body EXCEPT ![<<t, g>>] = r]
  BY <1>1 DEF Close, Leave, NoBody
<1>3. /\ Live(t, g) /\ rows' = rows /\ leaf' = leaf /\ req' = req
      /\ lost' = lost /\ overlapped' = overlapped
  BY DEF Close, Live, Gone
<1>4. SameShape(rows)
  BY Domains DEF SameShape
<1>5. r.pc \notin Writing /\ r.pc # "none"
  BY <1>2 DEF Writing
<1> QED BY <1>2, <1>3, <1>4, <1>5, BodyAlone

LEMMA StartAlone ==
  ASSUME TurnInv, AloneInv, NEW t \in Turns, Start(t)
  PROVE  AloneInv'
<1>0. FirstInv /\ 1 \in 1..2 /\ 2 \in 1..2
  BY DEF AloneInv, FirstInv
<1>1. /\ req[t].pc = "ready" /\ req' = [req EXCEPT ![t].pc = "started"]
      /\ UNCHANGED <<rows, leaf, cancel, history, stream, faults, lost, overlapped>>
  BY DEF Start
<1>2. stream[t].pc = "none" /\ body[<<t, 1>>].pc = "none"
  BY <1>1 DEF TurnInv, OneAfterTheOther, Unstarted
<1>3. PICK g \in 1..2 : StartTurn(t, g)
  BY DEF Start
<1> HIDE DEF StartTurn
<1>4. /\ \A u \in Turns, h \in 1..2 :
           \/ body'[<<u, h>>] = body[<<u, h>>]
           \/ /\ u = t /\ h = g
              /\ body'[<<u, h>>].pc = "loop"
              /\ body'[<<u, h>>].chain = req[t].row
      /\ g = 1 /\ body'[<<t, 1>>].pc = "loop"
  <2>1. req[t].pc \in {"ready", "started"}
    BY <1>1
  <2>2. /\ body' \in [Runtimes -> Body] /\ registry' \in [Turns -> 0..2]
        /\ RegistryIsTheLiveTask' /\ registry'[t] = g
        /\ \A u \in Turns, h \in 1..2 :
             \/ body'[<<u, h>>] = body[<<u, h>>]
             \/ /\ u = t /\ h = g /\ ~Live(t, g)
                /\ body'[<<u, h>>].pc = "loop"
                /\ body'[<<u, h>>].chain = req[t].row
        /\ req[t].pc = "ready" => g = 1 /\ body'[<<t, 1>>].pc = "loop"
    BY <1>2, <1>3, <2>1, StartStep, Zenon
  <2> QED BY <1>1, <2>2, Zenon
<1>5. /\ req'[t].pc = "started" /\ req'[t].row = req[t].row
      /\ \A u \in Turns \ {t} : req'[u] = req[u]
  BY <1>1 DEF TurnInv, TypeOK, Request
<1>6. Others(t)
  BY <1>4, <1>5 DEF Others
<1>7. Grows(t, 0) /\ DOMAIN rows' = DOMAIN rows
  <2>1. SameShape(rows')
    BY <1>1, Domains DEF SameShape
  <2>2. 0 \in 0..Len(rows)
    BY Domains
  <2> QED BY <2>1, <2>2, NoMore
<1>8. FirstInv'
  BY <1>0, <1>1, <1>4, <1>5, <1>6, <1>7, FirstStep
<1>9. ASSUME ~overlapped'
      PROVE  Alone(t) /\ OneAtATime' /\ Alone(t)'
  <2>1. OneAtATime
    BY <1>1, <1>9 DEF AloneInv
  <2>2. Alone(t)
    BY <1>1, <2>1 DEF OneAtATime, Alone, Busy, InRequest
  <2>3. body'[<<t, 2>>].pc = "none"
    <3>1. body'[<<t, 2>>] = body[<<t, 2>>]
      BY <1>0, <1>4
    <3> QED BY <2>1, <3>1 DEF OneAtATime, InOrder
  <2>4. body'[<<t, 1>>].chain = leaf'
    <3>1. body'[<<t, 1>>].chain = req[t].row
      BY <1>0, <1>2, <1>4
    <3>2. req[t].row = leaf
      BY <1>1, <2>1 DEF OneAtATime, InOrder
    <3> QED BY <1>1, <3>1, <3>2
  <2>5. InOrder(t)'
    BY <1>5, <2>3, <2>4 DEF InOrder
  <2> QED BY <1>6, <2>1, <2>2, <2>5, OrderStep
<1>10. ASSUME ~overlapped', \A u \in Turns : ~Torn(u)'
       PROVE  OneBranch'
  <2>1. \A u \in Turns : ~Torn(u)
    BY <1>0, <1>5, <1>6, <1>7, <1>10, TornStays
  <2>2. OneBranch
    BY <1>1, <1>10, <2>1 DEF AloneInv
  <2> QED BY <1>0, <1>1, <1>5, <1>6, <1>7, <1>8, <1>9, <1>10, <2>2, BranchStep
<1>11. ASSUME ~overlapped', lost' = {}
       PROVE  StatusStands'
  <2>1. StatusStands
    BY <1>1, <1>11 DEF AloneInv
  <2>2. WillWriteItsEnd(t)
    BY <1>1 DEF WillWriteItsEnd
  <2>3. req[t].row # NoRow => /\ rows[req[t].row].mark = [turn |-> t, state |-> "running"]
                              /\ OnBranch(rows, leaf, req[t].row)
    BY <2>1, <2>2 DEF StatusStands
  <2>4. req'[t].row # NoRow => /\ rows'[req'[t].row].mark = [turn |-> t, state |-> "running"]
                               /\ OnBranch(rows', leaf', req'[t].row)
    BY <1>1, <1>5, <2>3
  <2> QED BY <1>9, <1>11, <2>4, StatusStep
<1> QED BY <1>8, <1>9, <1>10, <1>11 DEF AloneInv, FirstInv

LEMMA AttachAlone ==
  ASSUME TurnInv, AloneInv, NEW t \in Turns, Attach(t)
  PROVE  AloneInv'
<1>1. PICK g \in 1..2 : StartTurn(t, g) /\ overlapped' = (overlapped \/ g = 2)
  BY DEF Attach
<1>2. /\ req[t].pc = "started" /\ stream[t].pc = "none"
      /\ UNCHANGED <<rows, leaf, req, cancel, history, lost>>
  BY DEF Attach
<1>3. CASE body' = body
  BY <1>1, <1>2, <1>3, AloneStays
<1>4. CASE body' # body
  <2>1. g = 2
    BY <1>1, <1>2, <1>4 DEF StartTurn, AloneInv, Begun
  <2>2. overlapped'
    BY <1>1, <2>1
  <2> HIDE DEF StartTurn
  <2>3. \A u \in Turns, h \in 1..2 :
          body'[<<u, h>>] = body[<<u, h>>] \/ body'[<<u, h>>].pc = "loop"
    <3>1. req[t].pc \in {"ready", "started"}
      BY <1>2
    <3>2. /\ body' \in [Runtimes -> Body] /\ registry' \in [Turns -> 0..2]
          /\ RegistryIsTheLiveTask' /\ registry'[t] = g
          /\ \A u \in Turns, h \in 1..2 :
               \/ body'[<<u, h>>] = body[<<u, h>>]
               \/ /\ u = t /\ h = g /\ ~Live(t, g)
                  /\ body'[<<u, h>>].pc = "loop"
                  /\ body'[<<u, h>>].chain = req[t].row
          /\ req[t].pc = "ready" => g = 1 /\ body'[<<t, 1>>].pc = "loop"
      BY <1>1, <1>2, <3>1, StartStep, Zenon
    <3> QED BY <3>2, Zenon
  <2>4. 1 \in 1..2
    OBVIOUS
  <2>5. Begun'
    BY <1>2, <2>3, <2>4 DEF AloneInv, Begun
  <2>6. PointsBack' /\ Unsent'
    BY <1>2 DEF AloneInv, PointsBack, Unsent
  <2> QED BY <2>2, <2>5, <2>6 DEF AloneInv
<1> QED BY <1>3, <1>4

LEMMA CrashAlone ==
  ASSUME TurnInv, AloneInv, Crash
  PROVE  AloneInv'
<1>1. /\ lost' = lost \cup {t \in Turns : Busy(t)} /\ \E t \in Turns : Busy(t)
      /\ body' = [b \in Runtimes |->
                   IF body[b].pc \in Gone THEN body[b] ELSE [NoBody EXCEPT !.pc = "killed"]]
      /\ req' = [t \in Turns |-> IF req[t].pc = "idle" THEN NoRequest
                                 ELSE [NoRequest EXCEPT !.pc = "over"]]
      /\ rows' = rows /\ leaf' = leaf /\ overlapped' = overlapped
  BY DEF Crash
<1>2. ASSUME NEW t \in Turns, NEW g \in 1..2
      PROVE  /\ body'[<<t, g>>].pc \in Gone
             /\ body[<<t, g>>].pc = "none" => body'[<<t, g>>].pc = "none"
  <2>1. <<t, g>> \in Runtimes
    BY DEF Runtimes
  <2> QED BY <1>1, <2>1 DEF Gone, NoBody
<1>3. ASSUME NEW t \in Turns
      PROVE  /\ req'[t].pc \in {"idle", "over"}
             /\ req[t].pc # "idle" => req'[t].pc = "over"
  BY <1>1 DEF NoRequest
<1>4. PointsBack' /\ Begun'
  BY <1>1, <1>3 DEF AloneInv, PointsBack, Begun
<1>5. Unsent'
  <2>1. ASSUME NEW k \in DOMAIN rows, ~rows[k].visible
        PROVE  req'[rows[k].by].pc \in {"sending", "over"}
    <3>1. req[rows[k].by].pc \in {"sending", "over"}
      BY <2>1 DEF AloneInv, Unsent
    <3>2. rows[k].by \in Turns
      BY RowFields, Domains
    <3> QED BY <1>3, <3>1, <3>2
  <2> QED BY <1>1, <1>3, <2>1 DEF Unsent
<1>6. ASSUME ~overlapped' PROVE OneAtATime'
  <2>1. OneAtATime
    BY <1>1, <1>6 DEF AloneInv
  <2>2. ASSUME NEW t \in Turns PROVE ~Busy(t)' /\ InOrder(t)'
    <3>0. 1 \in 1..2 /\ 2 \in 1..2
      OBVIOUS
    <3>1. ~Busy(t)'
      BY <1>2, <1>3 DEF Busy, InRequest, Live
    <3>2. body'[<<t, 2>>].pc = "none"
      BY <1>2, <2>1, <3>0 DEF OneAtATime, InOrder
    <3>3. body'[<<t, 1>>].pc \notin Writing
      BY <1>2, <3>0 DEF Gone, Writing
    <3> QED BY <1>3, <3>1, <3>2, <3>3 DEF InOrder
  <2> QED BY <2>2 DEF OneAtATime
<1>7. ASSUME ~overlapped', \A u \in Turns : ~Torn(u)' PROVE OneBranch'
  <2>1. ASSUME NEW u \in Turns PROVE ~HalfSent(u)
    BY <1>1, <1>3, <1>7 DEF Torn, HalfSent
  <2>2. OneBranch
    BY <1>1, <1>7, <2>1 DEF AloneInv, Torn
  <2>3. ASSUME NEW k \in Kept' PROVE k \in Kept /\ rows[k].visible
    <3>1. k \in DOMAIN rows
      BY <1>1 DEF Kept
    <3>2. rows[k].by \in Turns
      BY <3>1, RowFields, Domains
    <3>3. req'[rows[k].by].pc # "sending"
      BY <1>3, <3>2
    <3> QED BY <1>1, <3>1, <3>3 DEF Kept
  <2>4. \A m : KeptChildren(m)' \subseteq KeptChildren(m)
    BY <1>1, <2>3 DEF KeptChildren
  <2>5. ASSUME NEW k \in Kept', rows[k].role \in {"tool_call", "tool_result"}
        PROVE  KeptChildren(rows[k].parent)' = {k}
    <3>1. KeptChildren(rows[k].parent) = {k}
      BY <2>2, <2>3, <2>5 DEF OneBranch
    <3>2. k \in KeptChildren(rows[k].parent)'
      BY <1>1 DEF KeptChildren
    <3>3. KeptChildren(rows[k].parent)' \subseteq {k}
      BY <1>1, <2>3, <3>1 DEF KeptChildren
    <3> QED BY <3>2, <3>3
  <2>6. ASSUME NEW k \in KeptChildren(leaf)' PROVE FALSE
    <3>1. k \in KeptChildren(leaf) /\ k \in DOMAIN rows /\ rows[k].visible
      BY <1>1, <2>3 DEF KeptChildren, Kept
    <3>2. req[rows[k].by].pc = "sending" /\ rows[k].by \in Turns
      BY <2>2, <3>1, RowFields, Domains DEF OneBranch
    <3>3. PICK c \in DOMAIN rows : rows[c].by = rows[k].by /\ ~rows[c].visible
      BY <3>2 DEF AloneInv, Unsent
    <3>4. HalfSent(rows[k].by)
      BY <3>1, <3>3 DEF HalfSent
    <3> QED BY <2>1, <3>2, <3>4
  <2> QED BY <1>1, <2>5, <2>6 DEF OneBranch
<1>8. lost' # {}
  BY <1>1
<1> QED BY <1>4, <1>5, <1>6, <1>7, <1>8 DEF AloneInv

LEMMA AloneInitially == Init => AloneInv
<1> SUFFICES ASSUME Init PROVE AloneInv
  OBVIOUS
<1>1. rows = << >> /\ DOMAIN rows = {} /\ leaf = 0 /\ Len(rows) = 0
  BY DEF Init, NoRow
<1>2. \A t \in Turns : req[t].pc = "idle"
  BY DEF Init, NoRequest
<1>3. \A t \in Turns, g \in 1..2 : body[<<t, g>>].pc = "none"
  BY DEF Init, NoBody, Runtimes
<1>4. \A t \in Turns : body[<<t, 1>>].pc = "none" /\ body[<<t, 2>>].pc = "none"
  <2>1. 1 \in 1..2 /\ 2 \in 1..2
    OBVIOUS
  <2> QED BY <1>3, <2>1
<1>5. PointsBack /\ Unsent /\ Begun
  BY <1>1, <1>2 DEF PointsBack, Unsent, Begun
<1>6. \A t \in Turns : ~Busy(t) /\ ~WillWriteItsEnd(t)
  BY <1>2, <1>3 DEF Busy, InRequest, Live, Gone, WillWriteItsEnd
<1>7. OneAtATime
  BY <1>2, <1>4, <1>6 DEF OneAtATime, InOrder, Writing
<1>8. OneBranch
  BY <1>1 DEF OneBranch, KeptChildren, Kept
<1>9. StatusStands
  BY <1>6 DEF StatusStands
<1> QED BY <1>5, <1>7, <1>8, <1>9 DEF AloneInv

\* A set of numbers up to n has a greatest one.
LEMMA MaxIn ==
  ASSUME NEW n \in Nat, NEW S, S \subseteq 1..n, S # {}
  PROVE  Max(S) \in S
<1> DEFINE T == {n - x : x \in S}
<1>1. T \subseteq Nat /\ T # {}
  <2>1. \A x \in S : x \in 1..n
    OBVIOUS
  <2>2. \A x \in S : n - x \in Nat
    BY <2>1
  <2> QED BY <2>2
<1>2. PICK t \in T : \A u \in T : t <= u
  <2> HIDE DEF T
  <2> QED BY <1>1, LeastNat
<1>3. PICK x \in S : t = n - x
  BY <1>2
<1>4. \A y \in S : n - y \in T
  OBVIOUS
<1> HIDE DEF T
<1>5. \A y \in S : x >= y
  <2> SUFFICES ASSUME NEW y \in S PROVE x >= y
    OBVIOUS
  <2>1. t <= n - y
    BY <1>2, <1>4
  <2> QED BY <1>3, <2>1
<1> QED BY <1>3, <1>5 DEF Max

(***************************************************************************)
(* The theorems.                                                           *)
(***************************************************************************)

LEMMA EveryStep == TurnInv /\ [Next]_vars => TurnInv'
<1> SUFFICES ASSUME TurnInv, [Next]_vars PROVE TurnInv'
  OBVIOUS
<1>1. CASE UNCHANGED vars
  BY <1>1 DEF vars, TurnInv, TypeOK, InRange, OneAfterTheOther, RegistryIsTheLiveTask, Live,
              StreamSeesItsTurn, StatusKept, StatusRow, WillWriteItsEnd
<1>2. ASSUME NEW t \in Turns, NEW mode \in Modes, Open(t, mode) PROVE TurnInv'
  BY <1>2, OpenStep
<1>3. ASSUME NEW t \in Turns, Handler(t) PROVE TurnInv'
  BY <1>3, MessageStep, QuietStep, SendUserStep, RefuseStep, StartActionStep, SendToolStep,
     SendDoneStep DEF Handler
<1>4. ASSUME NEW t \in Turns, Attach(t) \/ Subscribe(t) \/ Disconnect(t) \/ RequestCancel(t)
      PROVE  TurnInv'
  BY <1>4, AttachStep, SubscribeStep, DisconnectStep, CancelStep
<1>5. ASSUME NEW t \in Turns, NEW g \in 1..2, Task(t, g) PROVE TurnInv'
  BY <1>5, LoadFailsStep, ForceToolStep, FallBackStep, FinishStep, AnswerToolsStep,
     CallToolStep, FinishToolStep, StopStep, FailStep, CloseStep DEF Task
<1>6. ASSUME Crash PROVE TurnInv'
  BY <1>6, CrashStep
<1> QED BY <1>1, <1>2, <1>3, <1>4, <1>5, <1>6 DEF Next

LEMMA EveryAloneStep == TurnInv /\ AloneInv /\ [Next]_vars => AloneInv'
<1> SUFFICES ASSUME TurnInv, AloneInv, [Next]_vars PROVE AloneInv'
  OBVIOUS
<1>1. CASE UNCHANGED vars
  BY <1>1, AloneStays DEF vars
<1>2. ASSUME NEW t \in Turns, NEW mode \in Modes, Open(t, mode) PROVE AloneInv'
  BY <1>2, OpenAlone
<1>3. ASSUME NEW t \in Turns, Handler(t) PROVE AloneInv'
  BY <1>3, MessageAlone, QuietAlone, SendUserAlone, RefuseAlone, StartAlone, SendToolAlone,
     SendDoneAlone DEF Handler
<1>4. ASSUME NEW t \in Turns, Attach(t) PROVE AloneInv'
  BY <1>4, AttachAlone
<1>5. ASSUME NEW t \in Turns, Subscribe(t) \/ Disconnect(t) \/ RequestCancel(t)
      PROVE  AloneInv'
  BY <1>5, AloneStays DEF Subscribe, Disconnect, RequestCancel
<1>6. ASSUME NEW t \in Turns, NEW g \in 1..2, Task(t, g) PROVE AloneInv'
  BY <1>6, LoadFailsStep, ForceToolStep, FallBackStep, FinishStep, AnswerToolsStep,
     CallToolStep, FinishToolStep, StopStep, FailStep, CloseAlone DEF Task
<1>7. ASSUME Crash PROVE AloneInv'
  BY <1>7, CrashAlone
<1> QED BY <1>1, <1>2, <1>3, <1>4, <1>5, <1>6, <1>7 DEF Next

\* The inductive invariant holds in every behaviour of the chat, whatever the
\* number of requests, rounds, tools and faults.
THEOREM InvariantHolds == Spec => []TurnInv
<1> QED BY Initially, EveryStep, PTL DEF Spec

\* The state has its types: the leaf is a row of the thread, a chain points at a
\* row that was written, no more faults are counted than there are.
THEOREM TypeCorrect == Spec => []TypeOK
<1>1. TurnInv => TypeOK
  BY DEF TurnInv
<1> QED BY <1>1, InvariantHolds, PTL

\* The registry names the runtime whose task runs and no other: two tasks of one
\* turn never write at the same time (start_universal_turn, close_turn_runtime).
THEOREM StopReachesTheTask == Spec => []RegistryIsTheLiveTask
<1>1. TurnInv => RegistryIsTheLiveTask
  BY DEF TurnInv
<1> QED BY <1>1, InvariantHolds, PTL

\* What a subscriber has been sent is what its runtime published, whenever it
\* subscribed (subscribe_turn_events, publish_turn_event, close_turn_runtime).
THEOREM ReplayIsComplete == Spec => []StreamSeesItsTurn
<1>1. TurnInv => StreamSeesItsTurn
  BY DEF TurnInv
<1> QED BY <1>1, InvariantHolds, PTL

\* A turn that is called running will still write its end, unless the process
\* died or the database refused that write (_set_turn_status).
THEOREM StatusIsWritten == Spec => []RunningMeansAlive
<1>1. TurnInv => RunningMeansAlive
  <2> SUFFICES ASSUME TurnInv, NEW k \in DOMAIN rows, rows[k].mark.state = "running",
                      NEW u, u = rows[k].mark.turn
               PROVE  u \in lost \/ Busy(u)
    BY DEF RunningMeansAlive, Busy, InRequest, Live
  <2>1. u \in lost \/ WillWriteItsEnd(u)
    BY DEF TurnInv, StatusKept
  <2> QED BY <2>1 DEF WillWriteItsEnd, Busy, InRequest
<1> QED BY <1>1, InvariantHolds, PTL

\* While turns do not overlap, what a turn finds when it writes is what it left:
\* the second inductive invariant holds in every behaviour of the chat.
THEOREM TurnsInOrder == Spec => []AloneInv
<1>1. Init => TurnInv /\ AloneInv
  BY Initially, AloneInitially
<1>2. (TurnInv /\ AloneInv) /\ [Next]_vars => (TurnInv /\ AloneInv)'
  BY EveryStep, EveryAloneStep
<1> QED BY <1>1, <1>2, PTL DEF Spec

\* While turns do not overlap and none was torn by the commit of its refine tool, no
\* row of a tool has a sibling and nothing hangs below the active leaf
\* (WriteRow's chain, "They MUST NOT have sibling groups" in chat_message.py).
THEOREM ThreadIsOneBranch == Spec => []AloneIsLinear
<1>1. TurnInv /\ AloneInv => AloneIsLinear
  <2> SUFFICES ASSUME TurnInv, AloneInv, ~overlapped, \A t \in Turns : ~HalfSent(t)
               PROVE  /\ \A k \in VisibleRows(rows) :
                           rows[k].role \in {"tool_call", "tool_result"} =>
                             Siblings(rows, k) = {k}
                      /\ leaf # NoRow => Children(rows, leaf) = {}
    BY DEF AloneIsLinear
  <2>1. OneBranch
    BY DEF AloneInv, Torn
  <2>2. \A m : Children(rows, m) \subseteq KeptChildren(m)
    BY DEF Children, VisibleRows, KeptChildren, Kept
  <2>3. ASSUME NEW k \in VisibleRows(rows), rows[k].role \in {"tool_call", "tool_result"}
        PROVE  Siblings(rows, k) = {k}
    <3>1. KeptChildren(rows[k].parent) = {k}
      BY <2>1, <2>3 DEF OneBranch, VisibleRows, Kept
    <3>2. k \in Children(rows, rows[k].parent)
      BY DEF Children
    <3> QED BY <2>2, <3>1, <3>2 DEF Siblings
  <2>4. ASSUME NEW k \in Children(rows, leaf) PROVE FALSE
    <3>1. k \in KeptChildren(leaf) /\ k \in DOMAIN rows /\ rows[k].visible
      BY <2>2 DEF Children, VisibleRows
    <3>2. req[rows[k].by].pc = "sending" /\ rows[k].by \in Turns
      BY <2>1, <3>1, RowFields, Domains DEF OneBranch
    <3>3. PICK c \in DOMAIN rows : rows[c].by = rows[k].by /\ ~rows[c].visible
      BY <3>2 DEF AloneInv, Unsent
    <3> QED BY <3>1, <3>2, <3>3 DEF HalfSent
  <2> QED BY <2>3, <2>4
<1> QED BY <1>1, InvariantHolds, TurnsInOrder, PTL

\* While turns do not overlap and none was lost, a client that polls the thread is
\* told of the turn that runs, until its end is written, and of no other
\* (_set_turn_status, and the branch the messages endpoint reads).
THEOREM PollsAreTrue == Spec => []PollTellsTheTruth
<1>1. TurnInv /\ AloneInv => PollTellsTheTruth
  <2> DEFINE branch == BranchUpTo(rows, leaf)
             running == {i \in DOMAIN branch : rows[branch[i]].mark.state = "running"}
             Told == /\ InProgress # "none" => Busy(InProgress)
                     /\ \A t \in Turns : req[t].pc = "started" /\ req[t].row # NoRow =>
                          \A g \in 1..2 : (Live(t, g) /\ body[<<t, g>>].pc # "closing")
                                          => InProgress = t
  <2> SUFFICES ASSUME TurnInv, AloneInv, ~overlapped, lost = {} PROVE Told
    BY DEF PollTellsTheTruth
  <2>1. OneAtATime /\ StatusStands
    BY DEF AloneInv
  <2>2. branch \in Seq(1..Len(rows))
    BY NowRooted, ClimbIn, Domains DEF AloneInv
  <2>3. InProgress = IF running = {} THEN "none" ELSE rows[branch[Max(running)]].mark.turn
    BY DEF InProgress
  <2>4. ASSUME NEW t \in Turns, req[t].row # NoRow, NEW g \in 1..2, Live(t, g),
               body[<<t, g>>].pc # "closing"
        PROVE  Busy(t) /\ running # {}
    <3>1. WillWriteItsEnd(t)
      BY <2>4 DEF WillWriteItsEnd
    <3>2. /\ rows[req[t].row].mark = [turn |-> t, state |-> "running"]
          /\ OnBranch(rows, leaf, req[t].row)
      BY <2>1, <2>4, <3>1 DEF StatusStands
    <3>3. PICK i \in DOMAIN branch : branch[i] = req[t].row
      BY <3>2 DEF OnBranch
    <3>4. i \in running
      BY <3>2, <3>3
    <3> QED BY <2>4, <3>4 DEF Busy
  <2>5. ASSUME running # {}
        PROVE  InProgress \in Turns /\ Busy(InProgress)
    <3> HIDE DEF branch
    <3>1. Len(branch) \in Nat /\ running \subseteq 1..Len(branch)
      BY <2>2
    <3> HIDE DEF running
    <3>2. Max(running) \in running
      BY <2>5, <3>1, MaxIn
    <3>3. PICK k \in DOMAIN rows : k = branch[Max(running)] /\ rows[k].mark.state = "running"
      <4>1. PICK i \in DOMAIN branch : i = Max(running)
                                      /\ rows[branch[i]].mark.state = "running"
        BY <3>2 DEF running
      <4>2. branch[i] \in DOMAIN rows
        BY <2>2, <4>1, Domains
      <4> QED BY <4>1, <4>2
    <3>4. InProgress = rows[k].mark.turn
      BY <2>3, <2>5, <3>3
    <3>5. WillWriteItsEnd(rows[k].mark.turn)
      BY <3>3 DEF TurnInv, StatusKept
    <3>6. rows[k].mark.turn \in Turns
      <4>1. rows[k].mark \in Marks
        BY RowFields, Domains
      <4> QED BY <3>3, <4>1 DEF Marks, NoMark
    <3> QED BY <3>4, <3>5, <3>6 DEF WillWriteItsEnd, Busy, InRequest
  <2>6. InProgress # "none" => Busy(InProgress)
    BY <2>3, <2>5
  <2>7. ASSUME NEW t \in Turns, req[t].row # NoRow, NEW g \in 1..2, Live(t, g),
               body[<<t, g>>].pc # "closing"
        PROVE  InProgress = t
    <3>1. Busy(t) /\ running # {}
      BY <2>4, <2>7
    <3> HIDE DEF running
    <3>2. InProgress \in Turns /\ Busy(InProgress)
      BY <2>5, <3>1
    <3> QED BY <2>1, <3>1, <3>2 DEF OneAtATime
  <2> QED BY <2>6, <2>7
<1> QED BY <1>1, InvariantHolds, TurnsInOrder, PTL

=============================================================================
