---------------------------- MODULE ThreadProofs ----------------------------
(***************************************************************************)
(* Theorems about ThreadChat, for any requests and faults.                 *)
(***************************************************************************)
EXTENDS ThreadChat, SumTheorems

(***************************************************************************)
(* The walk from a message down to the end of its branch.                  *)
(***************************************************************************)

\* A set of numbers up to n has a greatest one.
LEMMA MaxIn ==
  ASSUME NEW n \in Nat, NEW S, S \subseteq 1..n, S # {}
  PROVE  Max(S) \in S
<1> DEFINE T == {n - x : x \in S}
<1>1. T \subseteq Nat /\ T # {}
  <2>1. \A x \in S : x \in 1..n
    OBVIOUS
  <2>2. \A x \in S : n - x \in Nat
    BY <2>1
  <2> QED BY <2>2
<1>2. PICK t \in T : \A u \in T : t <= u
  <2> HIDE DEF T
  <2> QED BY <1>1, LeastNat
<1>3. PICK x \in S : t = n - x
  BY <1>2
<1>4. \A y \in S : n - y \in T
  OBVIOUS
<1> HIDE DEF T
<1>5. \A y \in S : x >= y
  <2> SUFFICES ASSUME NEW y \in S PROVE x >= y
    OBVIOUS
  <2>1. t <= n - y
    BY <1>2, <1>4
  <2> QED BY <1>3, <2>1
<1> QED BY <1>3, <1>5 DEF Max

\* The recursion of LeafOfBranch, on the rows in D.
Next1(rs, k) == Max(Children(rs, k))
Walks(f, rs, D) == f = [k \in D |-> IF Children(rs, k) = {} THEN k ELSE f[Next1(rs, k)]]

\* Rows of which every child comes later.
Forest(rs, n) == n \in Nat /\ DOMAIN rs = 1..n /\ \A k \in DOMAIN rs : rs[k].parent < k

LEMMA ChildrenLater ==
  ASSUME NEW rs, NEW n, Forest(rs, n), NEW k \in 1..n
  PROVE  /\ Children(rs, k) \subseteq (k+1)..n
         /\ Children(rs, k) # {} => Next1(rs, k) \in (k+1)..n
<1>1. Children(rs, k) \subseteq (k+1)..n
  <2> SUFFICES ASSUME NEW c \in Children(rs, k) PROVE c \in (k+1)..n
    OBVIOUS
  <2>1. c \in 1..n /\ rs[c].parent = k /\ rs[c].parent < c
    BY DEF Children, VisibleRows, Forest
  <2> QED BY <2>1 DEF Forest
<1>2. ASSUME Children(rs, k) # {} PROVE Next1(rs, k) \in (k+1)..n
  <2>1. n \in Nat /\ Children(rs, k) \subseteq 1..n
    BY <1>1 DEF Forest
  <2>2. Max(Children(rs, k)) \in Children(rs, k)
    BY <1>2, <2>1, MaxIn
  <2> QED BY <1>1, <2>2 DEF Next1
<1> QED BY <1>1, <1>2

LEMMA WalkExists ==
  ASSUME NEW rs, NEW n, Forest(rs, n)
  PROVE  \E f : Walks(f, rs, 1..n)
<1> DEFINE T == {i \in Nat : i <= n /\ ~\E f : Walks(f, rs, (n-i+1)..n)}
<1>0. n \in Nat
  BY DEF Forest
<1>1. T = {}
  <2> SUFFICES ASSUME T # {} PROVE FALSE
    OBVIOUS
  <2>1. PICK i \in T : \A j \in T : i <= j
    <3> HIDE DEF T
    <3>1. T \subseteq Nat
      BY DEF T
    <3> QED BY <3>1, LeastNat
  <2>2. i # 0
    <3> SUFFICES ASSUME i = 0 PROVE FALSE
      OBVIOUS
    <3>1. (n-i+1)..n = {}
      BY <1>0
    <3>2. Walks([k \in {} |-> k], rs, {})
      BY DEF Walks
    <3> QED BY <2>1, <3>1, <3>2
  <2>3. i \in Nat /\ i <= n /\ i-1 \in Nat /\ i-1 \notin T /\ i-1 <= n
    <3>1. i \in Nat /\ i <= n
      BY <2>1
    <3>2. i-1 \in Nat /\ i-1 <= n /\ ~(i <= i-1)
      BY <1>0, <2>2, <3>1
    <3> HIDE DEF T
    <3> QED BY <2>1, <3>1, <3>2
  <2>4. PICK f : Walks(f, rs, (n-(i-1)+1)..n)
    BY <2>3
  <2> DEFINE A == (n-i+1)..n
             B == (n-i+2)..n
             g == [k \in A |-> IF Children(rs, k) = {} THEN k ELSE f[Next1(rs, k)]]
  <2>5. A \subseteq 1..n /\ B \subseteq A /\ \A k \in A : (k+1)..n \subseteq B
    BY <1>0, <2>3
  <2>6. Walks(f, rs, B)
    <3>1. n-(i-1)+1 = n-i+2
      BY <1>0, <2>3
    <3> QED BY <2>4, <3>1
  <2>7. ~\E h : Walks(h, rs, A)
    BY <2>1
  <2>8. A = DOMAIN g /\ \A k \in A :
          g[k] = IF Children(rs, k) = {} THEN k ELSE f[Next1(rs, k)]
    OBVIOUS
  <2>9. \A k \in B : f[k] = IF Children(rs, k) = {} THEN k ELSE f[Next1(rs, k)]
    BY <2>6 DEF Walks
  <2> HIDE DEF A, B
  <2>10. \A k \in B : g[k] = f[k]
    BY <2>5, <2>8, <2>9
  <2>11. ASSUME NEW k \in A, Children(rs, k) # {}
         PROVE  g[k] = g[Next1(rs, k)]
    <3>1. Next1(rs, k) \in B
      BY <2>5, <2>11, ChildrenLater
    <3> QED BY <2>8, <2>10, <2>11, <3>1
  <2>12. g = [k \in A |-> IF Children(rs, k) = {} THEN k ELSE g[Next1(rs, k)]]
    BY <2>8, <2>11
  <2>13. Walks(g, rs, A)
    <3> HIDE DEF g
    <3> QED BY <2>12 DEF Walks
  <2> QED BY <2>7, <2>13
<1>2. n \notin T
  BY <1>1
<1>3. n-n+1 = 1
  BY <1>0
<1> QED BY <1>0, <1>2, <1>3

\* The walk ends, at a row that nobody has answered.
LEMMA LeafEnds ==
  ASSUME NEW rs, NEW n, Forest(rs, n), NEW m \in 1..n
  PROVE  LeafOfBranch(rs, m) \in 1..n /\ Children(rs, LeafOfBranch(rs, m)) = {}
<1> DEFINE f == CHOOSE f : Walks(f, rs, 1..n)
           Ends(k) == f[k] \in 1..n /\ Children(rs, f[k]) = {}
           T == {n - k : k \in {x \in 1..n : ~Ends(x)}}
<1>0. n \in Nat /\ DOMAIN rs = 1..n
  BY DEF Forest
<1>1. Walks(f, rs, 1..n)
  BY WalkExists
<1>2. LeafOfBranch(rs, m) = f[m]
  BY <1>0 DEF LeafOfBranch, Walks, Next1
<1>3. \A k \in 1..n : f[k] = IF Children(rs, k) = {} THEN k ELSE f[Next1(rs, k)]
  BY <1>1 DEF Walks
<1> HIDE DEF f
<1>4. T = {}
  <2> SUFFICES ASSUME T # {} PROVE FALSE
    OBVIOUS
  <2>1. T \subseteq Nat
    BY <1>0
  <2>2. PICK t \in T : \A u \in T : t <= u
    <3> HIDE DEF T
    <3> QED BY <2>1, LeastNat
  <2>3. PICK k \in 1..n : t = n - k /\ ~Ends(k)
    BY <2>2
  <2>4. Children(rs, k) # {}
    BY <1>3, <2>3
  <2>5. Next1(rs, k) \in (k+1)..n
    BY <2>4, ChildrenLater
  <2>6. f[k] = f[Next1(rs, k)]
    BY <1>3, <2>4
  <2>7. Next1(rs, k) \in 1..n /\ ~Ends(Next1(rs, k))
    BY <2>3, <2>5, <2>6
  <2>8. n - Next1(rs, k) \in T
    BY <2>7
  <2>9. n - k <= n - Next1(rs, k)
    BY <2>2, <2>3, <2>8
  <2> QED BY <1>0, <2>5, <2>9
<1>5. Ends(m)
  BY <1>4
<1> QED BY <1>2, <1>5

(***************************************************************************)
(* What a step does, field by field.                                       *)
(***************************************************************************)
Move(r, q) == req' = [req EXCEPT ![r] = q] /\ q \in Request

\* A request that begins.
BegunAs(r, q, op) ==
  /\ Begin(r, op)
  /\ q.pc # "over" => q.op = op /\ (Keyed(op) => KeyOf[r] \notin stored)

Begun(r, q) ==
  /\ Move(r, q) /\ req[r].pc = "idle"
  /\ UNCHANGED <<kind, rows, thread, leaf, stored, billed, faults>>
  /\ q.pc \in {"claiming", "reading", "asking", "switching", "over"}
  /\ q.parent <= Len(rows) /\ q.row <= Len(rows) /\ ~q.new
  /\ q.pc = "claiming" => thread = NoThread
  /\ q.pc \in {"reading", "asking", "switching"} => q.thread = thread /\ thread # NoThread
  /\ q.pc = "asking" => q.op = "retry"
  /\ q.pc = "switching" => Children(rows, q.row) = {}
  /\ \E op : BegunAs(r, q, op)

Claimed(r, q) ==
  /\ Move(r, q) /\ req[r].pc = "claiming" /\ q.pc = "reading"
  /\ UNCHANGED <<kind, rows, thread, leaf, stored, billed, faults, raced, overlapped>>
  /\ q.op = req[r].op /\ q.parent = req[r].parent /\ q.row = req[r].row
  /\ q.thread = r /\ q.new

\* The question is flushed, and in a stream committed.
Flushed(r, q, row) ==
  /\ Move(r, q) /\ req[r].pc = "reading"
  /\ UNCHANGED <<kind, stored, billed, faults, raced, overlapped>>
  /\ rows' = Append(rows, row) /\ row \in Rows
  /\ row.parent = req[r].parent /\ row.by = r /\ row.thread = req[r].thread
  /\ row.role = "user"
  /\ q.op = req[r].op /\ q.parent = req[r].parent /\ q.row = Len(rows) + 1
  /\ q.thread = req[r].thread
  /\ \/ /\ ~row.visible /\ q.pc = "asking" /\ req[r].op # "stream" /\ q.new = req[r].new
        /\ UNCHANGED <<thread, leaf>>
     \/ /\ row.visible /\ q.pc = "prepared" /\ req[r].op = "stream" /\ ~q.new
        /\ leaf' = [leaf EXCEPT ![req[r].thread] = Len(rows) + 1] /\ CommitThread(r)

Answered(r, q) ==
  /\ Move(r, q) /\ req[r].pc \in {"asking", "persisting"} /\ q.pc \in {"over", "storing"}
  /\ UNCHANGED <<kind, stored, overlapped>>
  /\ billed' \subseteq Requests /\ faults' \in 0..MaxFaults
  /\ CommitReply(r)
  /\ q.op = req[r].op /\ q.parent <= Len(rows) /\ q.row <= Len(rows) /\ ~q.new
  /\ raced' \in {raced, raced \cup {KeyOf[r]}}
  /\ q.pc = "storing" => Keyed(q.op) /\ q.thread = req[r].thread
  /\ q.pc = "over" /\ Keyed(q.op) => KeyOf[r] \in raced'

Ended(r, q) ==
  /\ Move(r, q) /\ InFlight(r) /\ q.pc = "over"
  /\ UNCHANGED <<kind, rows, thread, overlapped>>
  /\ billed' \subseteq Requests /\ faults' \in 0..MaxFaults
  /\ q.op = req[r].op /\ q.parent <= Len(rows) /\ q.row <= Len(rows) /\ ~q.new
  /\ \/ leaf' = leaf
     \/ req[r].pc = "switching" /\ leaf' = [leaf EXCEPT ![req[r].thread] = req[r].row]
  /\ \/ stored' = stored
     \/ req[r].pc = "storing" /\ stored' = stored \cup {KeyOf[r]}
  /\ raced' \in {raced, raced \cup {KeyOf[r]}}
  /\ req[r].pc = "storing" => KeyOf[r] \in stored' \cup raced'

Advanced(r, q) ==
  /\ Move(r, q) /\ req[r].pc \in {"prepared", "streaming"}
  /\ q.pc \in {"streaming", "persisting"}
  /\ UNCHANGED <<kind, rows, thread, leaf, stored, billed, faults, raced, overlapped>>
  /\ q.op = req[r].op /\ q.parent = req[r].parent /\ q.row = req[r].row
  /\ q.thread = req[r].thread /\ q.new = req[r].new

LEMMA Types ==
  ASSUME ThreadInv
  PROVE  /\ rows \in Seq(Rows) /\ Len(rows) \in Nat /\ DOMAIN rows = 1..Len(rows)
         /\ Forest(rows, Len(rows)) /\ leaf \in [Threads -> 0..Len(rows)]
         /\ \A k \in DOMAIN rows :
              /\ rows[k].parent \in Nat /\ rows[k].role \in {"user", "assistant"}
              /\ rows[k].by \in Requests /\ rows[k].thread \in Threads
              /\ rows[k].visible \in BOOLEAN
         /\ \A r \in Requests :
              /\ req[r] \in Request /\ req[r].parent \in 0..Len(rows)
              /\ req[r].row \in 0..Len(rows) /\ req[r].new \in BOOLEAN
              /\ req[r].thread \in Threads \cup {NoThread}
              /\ req[r].op \in Ops("evidence") \cup Ops("refine")
<1>1. /\ rows \in Seq(Rows) /\ leaf \in [Threads -> 0..Len(rows)]
      /\ req \in [Requests -> Request]
  BY DEF ThreadInv, TypeOK
<1>2. Len(rows) \in Nat /\ DOMAIN rows = 1..Len(rows)
  BY <1>1
<1>3. Forest(rows, Len(rows))
  BY <1>2 DEF ThreadInv, PointsBack, Forest
<1>4. ASSUME NEW k \in DOMAIN rows
      PROVE  /\ rows[k].parent \in Nat /\ rows[k].role \in {"user", "assistant"}
             /\ rows[k].by \in Requests /\ rows[k].thread \in Threads
             /\ rows[k].visible \in BOOLEAN
  <2>1. rows[k] \in Rows
    BY <1>1
  <2> QED BY <2>1 DEF Rows
<1>5. ASSUME NEW r \in Requests
      PROVE  /\ req[r] \in Request /\ req[r].parent \in 0..Len(rows)
             /\ req[r].row \in 0..Len(rows) /\ req[r].new \in BOOLEAN
             /\ req[r].thread \in Threads \cup {NoThread}
             /\ req[r].op \in Ops("evidence") \cup Ops("refine")
  <2>1. req[r] \in Request
    BY <1>1
  <2>2. /\ req[r].parent \in Nat /\ req[r].row \in Nat /\ req[r].new \in BOOLEAN
        /\ req[r].thread \in Threads \cup {NoThread}
        /\ req[r].op \in Ops("evidence") \cup Ops("refine")
    BY <2>1 DEF Request
  <2>3. req[r].parent <= Len(rows) /\ req[r].row <= Len(rows)
    BY DEF ThreadInv, PointsBack
  <2> QED BY <1>2, <2>1, <2>2, <2>3
<1> QED BY <1>1, <1>2, <1>3, <1>4, <1>5

\* One request moves.
LEMMA Moved ==
  ASSUME ThreadInv, NEW r \in Requests, NEW q, Move(r, q)
  PROVE  /\ req' \in [Requests -> Request] /\ req'[r] = q
         /\ \A p \in Requests \ {r} : req'[p] = req[p]
<1>1. req \in [Requests -> Request] /\ req' = [req EXCEPT ![r] = q] /\ q \in Request
  BY DEF ThreadInv, TypeOK, Move
<1> QED BY <1>1

\* Steps that leave the rows alone keep what is said of them.
LEMMA QuietRows ==
  ASSUME ThreadInv, UNCHANGED <<kind, rows>>, raced \subseteq raced',
         \A r \in Requests : RowsBy(r) # {} => req'[r].op = req[r].op
  PROVE  OneQuestion' /\ WholeTurns' /\ KeyedOnce'
<1>1. \A k \in DOMAIN rows : req'[rows[k].by].op = req[rows[k].by].op
  BY Types DEF RowsBy
<1>2. VisibleRows(rows)' = VisibleRows(rows) /\ VisibleRows(rows) \subseteq DOMAIN rows
  BY DEF VisibleRows
<1>3. \A k : Children(rows, k)' = Children(rows, k)
  BY DEF Children, VisibleRows
<1>4. OneQuestion'
  BY DEF ThreadInv, OneQuestion
<1>5. WholeTurns'
  BY <1>1, <1>2, <1>3 DEF ThreadInv, WholeTurns
<1>6. KeyedOnce'
  BY <1>1, <1>2 DEF ThreadInv, KeyedOnce
<1> QED BY <1>4, <1>5, <1>6

\* A request that does not move keeps its place.
LEMMA OthersStaged ==
  ASSUME NEW p \in Requests, Staged(p), req'[p] = req[p], kind' = kind,
         RowsBy(p)' = RowsBy(p), \A k \in RowsBy(p) : rows'[k].thread = rows[k].thread
  PROVE  Staged(p)'
BY DEF Staged, Keyed

\* The keys of the requests that do not move; what overlaps is raced already.
LEMMA OthersKeys ==
  ASSUME ThreadInv, NEW r \in Requests, NEW p \in Requests \ {r},
         req'[p] = req[p], \A s \in Requests \ {r} : req'[s] = req[s],
         kind' = kind, raced \subseteq raced', stored \subseteq stored',
         \A k \in VisibleRows(rows)' : rows'[k].by = p =>
           k \in VisibleRows(rows) /\ rows[k].by = p,
         KeyOf[p] \in stored' => \/ KeyOf[p] \in stored \cup raced'
                                 \/ req[r].pc = "storing" /\ KeyOf[p] = KeyOf[r],
         (InFlight(p) /\ req'[r].pc \notin {"idle", "over"} /\ KeyOf[p] = KeyOf[r]
            /\ Keyed(req[p].op) /\ Keyed(req'[r].op))
           => KeyOf[p] \in raced' \/ (InFlight(r) /\ Keyed(req[r].op))
  PROVE  Keys(p)'
<1> SUFFICES ASSUME Keyed(req[p].op)
             PROVE  /\ \A k \in VisibleRows(rows)' : rows'[k].by = p =>
                         req[p].pc = "storing" \/ KeyOf[p] \in stored' \cup raced'
                    /\ InFlight(p) /\ req[p].pc # "storing" /\ KeyOf[p] \in stored'
                         => KeyOf[p] \in raced'
                    /\ \A s \in Requests \ {p} :
                         InFlight(p) /\ InFlight(s)' /\ Keyed(req[s].op)' /\ KeyOf[s] = KeyOf[p]
                           => KeyOf[p] \in raced'
  BY DEF Keys, Keyed, InFlight
<1>1. Keys(p) /\ Staged(r)
  BY DEF ThreadInv
<1>2. \A k \in VisibleRows(rows)' : rows'[k].by = p =>
        req[p].pc = "storing" \/ KeyOf[p] \in stored' \cup raced'
  BY <1>1 DEF Keys
<1>3. InFlight(p) /\ req[p].pc # "storing" /\ KeyOf[p] \in stored' => KeyOf[p] \in raced'
  <2>1. req[r].pc = "storing" => InFlight(r) /\ Keyed(req[r].op)
    BY <1>1 DEF Staged, InFlight
  <2> QED BY <1>1, <2>1 DEF Keys
<1>4. ASSUME NEW s \in Requests \ {p}, InFlight(p), InFlight(s)', Keyed(req[s].op)',
             KeyOf[s] = KeyOf[p]
      PROVE  KeyOf[p] \in raced'
  <2>1. CASE s = r
    <3>1. req'[r].pc \notin {"idle", "over"} /\ Keyed(req'[r].op)
      BY <1>4, <2>1 DEF InFlight, Keyed
    <3> QED BY <1>1, <1>4, <2>1, <3>1 DEF Keys
  <2>2. CASE s # r
    <3>1. InFlight(s) /\ Keyed(req[s].op)
      BY <1>4, <2>2 DEF InFlight, Keyed
    <3> QED BY <1>1, <1>4, <3>1 DEF Keys
  <2> QED BY <2>1, <2>2
<1> QED BY <1>2, <1>3, <1>4

\* A request begins.
LEMMA BegunInv ==
  ASSUME ThreadInv, NEW r \in Requests, NEW q, Begun(r, q)
  PROVE  ThreadInv'
<1>0. /\ Move(r, q) /\ req[r].pc = "idle"
      /\ UNCHANGED <<kind, rows, thread, leaf, stored, billed, faults>>
      /\ Staged(r)
  BY DEF Begun, ThreadInv
<1>1. /\ req' \in [Requests -> Request] /\ req'[r] = q
      /\ \A p \in Requests \ {r} : req'[p] = req[p]
  BY <1>0, Moved
<1>2. PICK op : BegunAs(r, q, op)
  BY DEF Begun
<1>3. /\ raced \subseteq raced' /\ raced' \subseteq {KeyOf[x] : x \in Requests}
      /\ overlapped' = (overlapped \/ \E p \in Requests \ {r} : InFlight(p))
      /\ \A p \in Requests \ {r} :
           InFlight(p) /\ KeyOf[p] = KeyOf[r] /\ Keyed(op) => KeyOf[p] \in raced'
  <2> DEFINE X == {x \in Requests \ {r} : InFlight(x) /\ KeyOf[x] = KeyOf[r] /\ Keyed(op)}
  <2>1. /\ raced' = raced \cup {KeyOf[x] : x \in X} /\ X \subseteq Requests
        /\ overlapped' = (overlapped \/ \E p \in Requests \ {r} : InFlight(p))
    BY <1>2 DEF BegunAs, Begin
  <2>2. raced \subseteq {KeyOf[x] : x \in Requests}
    BY DEF ThreadInv, TypeOK
  <2>3. \A p \in Requests \ {r} :
          InFlight(p) /\ KeyOf[p] = KeyOf[r] /\ Keyed(op) => p \in X
    OBVIOUS
  <2> HIDE DEF X
  <2> QED BY <2>1, <2>2, <2>3
<1>4. TypeOK'
  BY <1>0, <1>1, <1>3 DEF ThreadInv, TypeOK
<1>5. PointsBack'
  BY <1>0, <1>1 DEF ThreadInv, PointsBack, Begun
<1>6. RowsBy(r) = {} /\ \A p : RowsBy(p)' = RowsBy(p)
  BY <1>0 DEF Staged, RowsBy
<1>7. OneQuestion' /\ WholeTurns' /\ KeyedOnce'
  BY <1>0, <1>1, <1>3, <1>6, QuietRows
<1>8. AloneNothingHidden'
  BY <1>0, <1>3 DEF ThreadInv, AloneNothingHidden, VisibleRows, Children
<1>9. ASSUME NEW p \in Requests PROVE Staged(p)'
  <2>1. CASE p = r
    <3>1. /\ q.pc \in {"claiming", "reading", "asking", "switching", "over"} /\ ~q.new
          /\ q.pc \in {"reading", "asking", "switching"} => q.thread = thread /\ thread # NoThread
          /\ q.pc = "asking" => q.op = "retry"
      BY DEF Begun
    <3> QED BY <1>1, <1>6, <2>1, <3>1 DEF Staged
  <2>2. CASE p # r
    BY <1>0, <1>1, <1>6, <2>2, OthersStaged DEF ThreadInv
  <2> QED BY <2>1, <2>2
<1>10. ASSUME NEW p \in Requests PROVE Keys(p)'
  <2>0. VisibleRows(rows)' = VisibleRows(rows) /\ InFlight(r)' = (q.pc # "over")
    BY <1>0, <1>1 DEF VisibleRows, InFlight, Begun
  <2>1. CASE p = r
    <3>1. \A k \in VisibleRows(rows)' : rows'[k].by # r
      BY <1>0, <1>6, <2>0 DEF RowsBy, VisibleRows
    <3>2. Keyed(req[r].op)' = Keyed(q.op) /\ \A s \in Requests \ {r} : InFlight(s)' = InFlight(s)
      BY <1>0, <1>1 DEF Keyed, InFlight
    <3>3. InFlight(r)' /\ Keyed(q.op) => Keyed(op) /\ KeyOf[r] \notin stored'
      BY <1>0, <1>2, <2>0 DEF BegunAs
    <3> QED BY <1>3, <2>0, <2>1, <3>1, <3>2, <3>3 DEF Keys
  <2>2. CASE p # r
    <3>2. (InFlight(p) /\ req'[r].pc \notin {"idle", "over"} /\ KeyOf[p] = KeyOf[r]
            /\ Keyed(req'[r].op)) => KeyOf[p] \in raced'
      BY <1>1, <1>2, <1>3, <2>2 DEF BegunAs
    <3>3. \A k \in VisibleRows(rows)' : rows'[k].by = p =>
            k \in VisibleRows(rows) /\ rows[k].by = p
      BY <1>0, <2>0
    <3>4. req'[p] = req[p] /\ \A s \in Requests \ {r} : req'[s] = req[s]
      BY <1>1, <2>2
    <3>5. stored \subseteq stored' /\ (KeyOf[p] \in stored' => KeyOf[p] \in stored \cup raced')
      BY <1>0
    <3>6. p \in Requests \ {r} /\ kind' = kind /\ raced \subseteq raced'
      BY <1>0, <1>3, <2>2
    <3> QED BY <3>2, <3>3, <3>4, <3>5, <3>6, OthersKeys
  <2> QED BY <2>1, <2>2
<1>11. ASSUME ~overlapped', NEW p \in Requests PROVE OneAtATime(p)'
  <2>1. ~overlapped /\ \A s \in Requests \ {r} : ~InFlight(s) /\ ~InFlight(s)'
    BY <1>1, <1>3, <1>11 DEF InFlight
  <2>2. CASE p = r
    <3>1. \A s \in Requests \ {r} : ~(InFlight(r)' /\ InFlight(s)')
      BY <2>1
    <3>2. /\ q.pc = "claiming" => thread = NoThread
          /\ q.pc \in {"reading", "asking", "switching"} => q.thread = thread
          /\ q.pc = "switching" => Children(rows, q.row) = {}
          /\ q.pc \in {"claiming", "reading", "asking", "switching", "over"} /\ ~q.new
      BY DEF Begun
    <3>3. Children(rows, q.row)' = Children(rows, q.row)
      BY <1>0 DEF Children, VisibleRows
    <3> QED BY <1>0, <1>1, <2>2, <3>1, <3>2, <3>3 DEF OneAtATime, InFlight, Children, VisibleRows
  <2>3. CASE p # r
    BY <1>1, <2>1, <2>3 DEF OneAtATime, InFlight
  <2> QED BY <2>2, <2>3
<1> QED BY <1>4, <1>5, <1>7, <1>8, <1>9, <1>10, <1>11 DEF ThreadInv

\* The key of the request that moves.
LEMMA OwnKeys ==
  ASSUME ThreadInv, NEW r \in Requests, NEW q, Move(r, q), InFlight(r), q.op = req[r].op,
         kind' = kind, raced \subseteq raced', stored \subseteq stored',
         \A k \in VisibleRows(rows)' : rows'[k].by = r =>
           \/ k \in VisibleRows(rows) /\ rows[k].by = r
           \/ Keyed(q.op) => q.pc = "storing" \/ KeyOf[r] \in stored' \cup raced',
         req[r].pc = "storing" => q.pc = "storing" \/ KeyOf[r] \in stored' \cup raced',
         q.pc \in {"over", "storing"} \/ (stored' = stored /\ req[r].pc # "storing")
  PROVE  Keys(r)'
<1> SUFFICES ASSUME Keyed(req[r].op)
             PROVE  /\ \A k \in VisibleRows(rows)' : rows'[k].by = r =>
                         q.pc = "storing" \/ KeyOf[r] \in stored' \cup raced'
                    /\ q.pc \notin {"idle", "over", "storing"} /\ KeyOf[r] \in stored'
                         => KeyOf[r] \in raced'
                    /\ \A s \in Requests \ {r} :
                         InFlight(r) /\ InFlight(s) /\ Keyed(req[s].op) /\ KeyOf[s] = KeyOf[r]
                           => KeyOf[r] \in raced'
  BY Moved DEF Keys, Keyed, InFlight
<1>1. Keys(r)
  BY DEF ThreadInv
<1> QED BY <1>1 DEF Keys

\* While requests come one at a time, the others rest.
LEMMA OthersAlone ==
  ASSUME ThreadInv, ~overlapped, NEW r \in Requests, InFlight(r), NEW q, Move(r, q)
  PROVE  /\ OneAtATime(r)
         /\ \A s \in Requests \ {r} : ~InFlight(s) /\ ~InFlight(s)'
         /\ \A p \in Requests \ {r} : OneAtATime(p)'
<1>1. OneAtATime(r) /\ \A s \in Requests \ {r} : req'[s] = req[s]
  BY Moved DEF ThreadInv
<1>2. \A s \in Requests \ {r} : ~InFlight(s) /\ ~InFlight(s)'
  BY <1>1 DEF OneAtATime, InFlight
<1>3. ASSUME NEW p \in Requests \ {r} PROVE OneAtATime(p)'
  BY <1>2 DEF OneAtATime, InFlight
<1> QED BY <1>1, <1>2, <1>3

\* A request in flight moves, and the rows stay.
LEMMA QuietMove ==
  ASSUME ThreadInv, NEW r \in Requests, NEW q, Move(r, q), InFlight(r),
         UNCHANGED <<kind, rows>>, q.op = req[r].op,
         q.parent <= Len(rows), q.row <= Len(rows),
         raced' \in {raced, raced \cup {KeyOf[r]}},
         stored' = stored \/ (req[r].pc = "storing" /\ stored' = stored \cup {KeyOf[r]}),
         req[r].pc = "storing" => q.pc = "storing" \/ KeyOf[r] \in stored' \cup raced',
         q.pc \in {"over", "storing"} \/ (stored' = stored /\ req[r].pc # "storing"),
         Staged(r)'
  PROVE  /\ PointsBack' /\ OneQuestion' /\ WholeTurns' /\ KeyedOnce'
         /\ \A p \in Requests : Staged(p)' /\ Keys(p)'
         /\ raced' \subseteq {KeyOf[x] : x \in Requests}
         /\ stored' \subseteq {KeyOf[x] : x \in Requests}
<1>1. /\ req' \in [Requests -> Request] /\ req'[r] = q
      /\ \A p \in Requests \ {r} : req'[p] = req[p]
  BY Moved
<1>2. /\ raced \subseteq raced' /\ stored \subseteq stored'
      /\ raced' \subseteq {KeyOf[x] : x \in Requests}
      /\ stored' \subseteq {KeyOf[x] : x \in Requests}
  <2>1. /\ raced \subseteq {KeyOf[x] : x \in Requests}
        /\ stored \subseteq {KeyOf[x] : x \in Requests}
    BY DEF ThreadInv, TypeOK
  <2> QED BY <2>1
<1>3. PointsBack'
  BY <1>1 DEF ThreadInv, PointsBack
<1>4. OneQuestion' /\ WholeTurns' /\ KeyedOnce'
  BY <1>1, <1>2, QuietRows
<1>5. /\ VisibleRows(rows)' = VisibleRows(rows) /\ rows' = rows
      /\ \A p \in Requests : RowsBy(p)' = RowsBy(p)
  BY DEF VisibleRows, RowsBy
<1>6. ASSUME NEW p \in Requests \ {r} PROVE Staged(p)' /\ Keys(p)'
  <2>1. Staged(p)'
    BY <1>1, <1>5, OthersStaged DEF ThreadInv
  <2>2. KeyOf[p] \in stored' => \/ KeyOf[p] \in stored \cup raced'
                                \/ req[r].pc = "storing" /\ KeyOf[p] = KeyOf[r]
    OBVIOUS
  <2>3. (InFlight(p) /\ req'[r].pc \notin {"idle", "over"} /\ KeyOf[p] = KeyOf[r]
           /\ Keyed(req[p].op) /\ Keyed(req'[r].op))
          => KeyOf[p] \in raced' \/ (InFlight(r) /\ Keyed(req[r].op))
    BY <1>1
  <2>4. \A k \in VisibleRows(rows)' : rows'[k].by = p =>
          k \in VisibleRows(rows) /\ rows[k].by = p
    BY <1>5
  <2>5. Keys(p)'
    BY <1>1, <1>2, <2>2, <2>3, <2>4, OthersKeys
  <2> QED BY <2>1, <2>5
<1>7. Keys(r)'
  <2>1. \A k \in VisibleRows(rows)' : rows'[k].by = r =>
          k \in VisibleRows(rows) /\ rows[k].by = r
    BY <1>5
  <2> QED BY <1>2, <2>1, OwnKeys
<1> QED BY <1>2, <1>3, <1>4, <1>6, <1>7

LEMMA ClaimedInv ==
  ASSUME ThreadInv, NEW r \in Requests, NEW q, Claimed(r, q)
  PROVE  ThreadInv'
<1>1. /\ Move(r, q) /\ InFlight(r) /\ req[r].pc = "claiming" /\ q.pc = "reading"
      /\ UNCHANGED <<kind, rows, thread, leaf, stored, billed, faults, raced, overlapped>>
      /\ q.op = req[r].op /\ q.parent <= Len(rows) /\ q.row <= Len(rows)
      /\ q.thread = r /\ q.new /\ req'[r] = q /\ req' \in [Requests -> Request]
  BY Moved DEF Claimed, InFlight, ThreadInv, PointsBack
<1>2. RowsBy(r) = {} /\ RowsBy(r)' = RowsBy(r) /\ r # NoThread
  <2>1. Staged(r)
    BY DEF ThreadInv
  <2> QED BY <1>1, <2>1, ThreadBounds DEF Staged, RowsBy
<1>3. Staged(r)'
  BY <1>1, <1>2 DEF Staged
<1>4. PointsBack' /\ OneQuestion' /\ WholeTurns' /\ KeyedOnce'
      /\ \A p \in Requests : Staged(p)' /\ Keys(p)'
  BY <1>1, <1>3, QuietMove
<1>5. TypeOK'
  BY <1>1 DEF ThreadInv, TypeOK
<1>6. AloneNothingHidden'
  BY <1>1 DEF ThreadInv, AloneNothingHidden, VisibleRows, Children
<1>7. ASSUME ~overlapped' PROVE \A p \in Requests : OneAtATime(p)'
  <2>1. ~overlapped /\ OneAtATime(r) /\ \A s \in Requests \ {r} : ~InFlight(s)'
        /\ \A p \in Requests \ {r} : OneAtATime(p)'
    BY <1>1, <1>7, OthersAlone
  <2>2. OneAtATime(r)'
    BY <1>1, <2>1 DEF OneAtATime
  <2> QED BY <2>1, <2>2
<1> QED BY <1>4, <1>5, <1>6, <1>7 DEF ThreadInv

LEMMA AdvancedInv ==
  ASSUME ThreadInv, NEW r \in Requests, NEW q, Advanced(r, q)
  PROVE  ThreadInv'
<1>1. /\ Move(r, q) /\ InFlight(r) /\ req[r].pc \in {"prepared", "streaming"}
      /\ q.pc \in {"streaming", "persisting"}
      /\ UNCHANGED <<kind, rows, thread, leaf, stored, billed, faults, raced, overlapped>>
      /\ q.op = req[r].op /\ q.parent <= Len(rows) /\ q.row <= Len(rows)
      /\ q.thread = req[r].thread /\ q.new = req[r].new /\ q.row = req[r].row
      /\ req'[r] = q /\ req' \in [Requests -> Request]
  BY Moved DEF Advanced, InFlight, ThreadInv, PointsBack
<1>2. Staged(r) /\ RowsBy(r)' = RowsBy(r)
  BY <1>1 DEF ThreadInv, RowsBy
<1>3. Staged(r)'
  BY <1>1, <1>2 DEF Staged
<1>4. PointsBack' /\ OneQuestion' /\ WholeTurns' /\ KeyedOnce'
      /\ \A p \in Requests : Staged(p)' /\ Keys(p)'
  BY <1>1, <1>3, QuietMove
<1>5. TypeOK'
  BY <1>1 DEF ThreadInv, TypeOK
<1>6. AloneNothingHidden'
  BY <1>1 DEF ThreadInv, AloneNothingHidden, VisibleRows, Children
<1>7. ASSUME ~overlapped' PROVE \A p \in Requests : OneAtATime(p)'
  <2>1. ~overlapped /\ OneAtATime(r) /\ \A s \in Requests \ {r} : ~InFlight(s)'
        /\ \A p \in Requests \ {r} : OneAtATime(p)'
    BY <1>1, <1>7, OthersAlone
  <2>2. OneAtATime(r)'
    BY <1>1, <2>1 DEF OneAtATime, InFlight
  <2> QED BY <2>1, <2>2
<1> QED BY <1>4, <1>5, <1>6, <1>7 DEF ThreadInv

LEMMA EndedInv ==
  ASSUME ThreadInv, NEW r \in Requests, NEW q, Ended(r, q)
  PROVE  ThreadInv'
<1>1. /\ Move(r, q) /\ InFlight(r) /\ q.pc = "over"
      /\ UNCHANGED <<kind, rows, thread, overlapped>>
      /\ billed' \subseteq Requests /\ faults' \in 0..MaxFaults
      /\ q.op = req[r].op /\ q.parent <= Len(rows) /\ q.row <= Len(rows) /\ ~q.new
      /\ req'[r] = q /\ req' \in [Requests -> Request]
  BY Moved DEF Ended
<1>2. \/ leaf' = leaf
      \/ req[r].pc = "switching" /\ leaf' = [leaf EXCEPT ![req[r].thread] = req[r].row]
  BY DEF Ended
<1>3. Staged(r)'
  BY <1>1 DEF Staged
<1>4. PointsBack' /\ OneQuestion' /\ WholeTurns' /\ KeyedOnce'
      /\ (\A p \in Requests : Staged(p)' /\ Keys(p)')
      /\ raced' \subseteq {KeyOf[x] : x \in Requests}
      /\ stored' \subseteq {KeyOf[x] : x \in Requests}
  <2>1. /\ raced' \in {raced, raced \cup {KeyOf[r]}}
        /\ stored' = stored \/ (req[r].pc = "storing" /\ stored' = stored \cup {KeyOf[r]})
        /\ req[r].pc = "storing" => KeyOf[r] \in stored' \cup raced'
    BY DEF Ended
  <2> QED BY <1>1, <1>3, <2>1, QuietMove
<1>5. TypeOK'
  <2>1. leaf' \in [Threads -> 0..Len(rows)]
    BY <1>2, Types DEF ThreadInv
  <2> QED BY <1>1, <1>4, <2>1 DEF ThreadInv, TypeOK
<1>6. AloneNothingHidden'
  <2> SUFFICES ASSUME ~overlapped
               PROVE  /\ \A k \in VisibleRows(rows) : rows[k].thread = thread
                      /\ thread # NoThread /\ leaf'[thread] # NoRow =>
                           Children(rows, leaf'[thread]) = {}
    BY <1>1 DEF AloneNothingHidden, VisibleRows, Children
  <2>1. /\ \A k \in VisibleRows(rows) : rows[k].thread = thread
        /\ thread # NoThread /\ leaf[thread] # NoRow => Children(rows, leaf[thread]) = {}
    BY DEF ThreadInv, AloneNothingHidden
  <2>2. CASE leaf' = leaf
    BY <2>1, <2>2
  <2>3. CASE req[r].pc = "switching" /\ leaf' = [leaf EXCEPT ![req[r].thread] = req[r].row]
    <3>1. OneAtATime(r) /\ Staged(r)
      BY DEF ThreadInv
    <3>2. Children(rows, req[r].row) = {} /\ req[r].thread = thread
      BY <1>1, <2>3, <3>1 DEF OneAtATime, Staged
    <3>3. leaf \in [Threads -> 0..Len(rows)] /\ thread \in Threads \cup {NoThread}
      BY DEF ThreadInv, TypeOK
    <3> QED BY <2>1, <2>3, <3>2, <3>3
  <2> QED BY <1>2, <2>2, <2>3
<1>7. ASSUME ~overlapped' PROVE \A p \in Requests : OneAtATime(p)'
  <2>1. /\ ~overlapped /\ OneAtATime(r) /\ \A s \in Requests \ {r} : ~InFlight(s)'
        /\ \A p \in Requests \ {r} : OneAtATime(p)'
    BY <1>1, <1>7, OthersAlone
  <2>2. OneAtATime(r)'
    BY <1>1, <2>1 DEF OneAtATime, InFlight
  <2> QED BY <2>1, <2>2
<1> QED BY <1>4, <1>5, <1>6, <1>7 DEF ThreadInv

\* One row more, of request r; the commit of r shows the rows it had flushed.
Grown(r, row) ==
  /\ rows' \in Seq(Rows) /\ Len(rows') = Len(rows) + 1 /\ DOMAIN rows' = 1..(Len(rows) + 1)
  /\ \A k \in DOMAIN rows :
       /\ rows'[k].parent = rows[k].parent /\ rows'[k].role = rows[k].role
       /\ rows'[k].by = rows[k].by /\ rows'[k].thread = rows[k].thread
       /\ rows[k].visible => rows'[k].visible
       /\ rows[k].by # r => rows'[k].visible = rows[k].visible
  /\ LET new == rows'[Len(rows) + 1] IN
       /\ new.parent = row.parent /\ new.role = row.role
       /\ new.by = r /\ new.thread = row.thread /\ new.visible = row.visible

LEMMA FlushGrows ==
  ASSUME ThreadInv, NEW r \in Requests, NEW row \in Rows, row.by = r,
         rows' = Append(rows, row)
  PROVE  Grown(r, row)
<1>1. rows \in Seq(Rows) /\ Len(rows) \in Nat
  BY Types
<1>2. /\ rows' \in Seq(Rows) /\ Len(rows') = Len(rows) + 1 /\ DOMAIN rows' = 1..(Len(rows) + 1)
      /\ rows'[Len(rows) + 1] = row /\ \A k \in DOMAIN rows : rows'[k] = rows[k]
  BY <1>1
<1> QED BY <1>2 DEF Grown

LEMMA CommitGrows ==
  ASSUME ThreadInv, NEW r \in Requests, NEW row \in Rows, row.by = r, row.visible,
         rows' = Shown(Append(rows, row), r)
  PROVE  Grown(r, row)
<1> DEFINE app == Append(rows, row)
<1>1. rows \in Seq(Rows) /\ Len(rows) \in Nat
  BY Types
<1>2. /\ app \in Seq(Rows) /\ Len(app) = Len(rows) + 1 /\ DOMAIN app = 1..(Len(rows) + 1)
      /\ app[Len(rows) + 1] = row /\ \A k \in DOMAIN rows : app[k] = rows[k]
  BY <1>1
<1> HIDE DEF app
<1>3. rows' = [k \in DOMAIN app |-> IF app[k].by = r THEN [app[k] EXCEPT !.visible = TRUE]
                                                     ELSE app[k]]
  BY DEF Shown, app
<1>4. ASSUME NEW k \in DOMAIN app
      PROVE  /\ rows'[k] \in Rows
             /\ rows'[k].parent = app[k].parent /\ rows'[k].role = app[k].role
             /\ rows'[k].by = app[k].by /\ rows'[k].thread = app[k].thread
             /\ rows'[k].visible = (app[k].visible \/ app[k].by = r)
  <2>1. app[k] \in Rows
    BY <1>2
  <2>2. [app[k] EXCEPT !.visible = TRUE] \in Rows /\ app[k].visible \in BOOLEAN
    BY <2>1 DEF Rows
  <2>3. rows'[k] = IF app[k].by = r THEN [app[k] EXCEPT !.visible = TRUE] ELSE app[k]
    BY <1>3
  <2> QED BY <2>1, <2>2, <2>3 DEF Rows
<1>5. DOMAIN rows' = 1..(Len(rows) + 1)
  BY <1>2, <1>3
<1>6. rows' \in Seq(Rows)
  <2>1. rows' \in [1..(Len(rows) + 1) -> Rows]
    BY <1>2, <1>3, <1>4, <1>5
  <2> QED BY <1>1, <2>1
<1>7. Len(rows') = Len(rows) + 1
  BY <1>1, <1>5, <1>6
<1>8. Len(rows) + 1 \in DOMAIN app /\ DOMAIN rows \subseteq DOMAIN app
  BY <1>1, <1>2
<1>9. ASSUME NEW k \in DOMAIN rows
      PROVE  /\ rows'[k].parent = rows[k].parent /\ rows'[k].role = rows[k].role
             /\ rows'[k].by = rows[k].by /\ rows'[k].thread = rows[k].thread
             /\ rows[k].visible => rows'[k].visible
             /\ rows[k].by # r => rows'[k].visible = rows[k].visible
  <2>1. app[k] = rows[k] /\ k \in DOMAIN app /\ rows[k].visible \in BOOLEAN
    BY <1>2, <1>8, Types
  <2>2. /\ rows'[k].parent = rows[k].parent /\ rows'[k].role = rows[k].role
        /\ rows'[k].by = rows[k].by /\ rows'[k].thread = rows[k].thread
        /\ rows'[k].visible = (rows[k].visible \/ rows[k].by = r)
    BY <1>4, <2>1
  <2> QED BY <2>1, <2>2
<1>10. LET new == rows'[Len(rows) + 1] IN
         /\ new.parent = row.parent /\ new.role = row.role
         /\ new.by = r /\ new.thread = row.thread /\ new.visible = row.visible
  <2>1. app[Len(rows) + 1] = row /\ Len(rows) + 1 \in DOMAIN app /\ row.visible \in BOOLEAN
    BY <1>2, <1>8 DEF Rows
  <2>2. LET new == rows'[Len(rows) + 1] IN
          /\ new.parent = row.parent /\ new.role = row.role
          /\ new.by = row.by /\ new.thread = row.thread
          /\ new.visible = (row.visible \/ row.by = r)
    BY <1>4, <2>1
  <2> QED BY <2>1, <2>2
<1> QED BY <1>5, <1>6, <1>7, <1>9, <1>10 DEF Grown

\* Rows stay where they are, and nobody has answered the newest one.
LEMMA GrownTree ==
  ASSUME ThreadInv, NEW r \in Requests, NEW row, Grown(r, row), row.parent \in 0..Len(rows)
  PROVE  /\ VisibleRows(rows) \subseteq VisibleRows(rows)'
         /\ \A k \in VisibleRows(rows)' :
              \/ k \in VisibleRows(rows)
              \/ k \in DOMAIN rows /\ rows[k].by = r
              \/ k = Len(rows) + 1 /\ row.visible
         /\ \A m : Children(rows, m) \subseteq Children(rows', m)
         /\ Children(rows', Len(rows) + 1) = {}
         /\ \A k \in DOMAIN rows' : rows'[k].parent < k
<1>1. /\ Len(rows) \in Nat /\ DOMAIN rows = 1..Len(rows)
      /\ \A k \in DOMAIN rows : rows[k].parent \in Nat /\ rows[k].parent < k
  BY Types DEF Forest
<1>2. \A k \in DOMAIN rows' : k \in DOMAIN rows \/ k = Len(rows) + 1
  BY <1>1 DEF Grown
<1>3. \A k \in DOMAIN rows' : rows'[k].parent < k
  BY <1>1, <1>2 DEF Grown
<1>4. Children(rows', Len(rows) + 1) = {}
  <2> SUFFICES ASSUME NEW k \in DOMAIN rows', rows'[k].parent = Len(rows) + 1 PROVE FALSE
    BY DEF Children, VisibleRows
  <2> QED BY <1>1, <1>2, <1>3
<1>5. DOMAIN rows \subseteq DOMAIN rows'
  BY <1>1 DEF Grown
<1>6. VisibleRows(rows) \subseteq VisibleRows(rows)'
  BY <1>5 DEF VisibleRows, Grown
<1>7. \A m : Children(rows, m) \subseteq Children(rows', m)
  BY <1>5 DEF Children, VisibleRows, Grown
<1>8. ASSUME NEW k \in VisibleRows(rows)'
      PROVE  \/ k \in VisibleRows(rows)
             \/ k \in DOMAIN rows /\ rows[k].by = r
             \/ k = Len(rows) + 1 /\ row.visible
  BY <1>2 DEF VisibleRows, Grown
<1> QED BY <1>3, <1>4, <1>6, <1>7, <1>8

\* A row of request r says nothing of the others.
LEMMA GrownOthers ==
  ASSUME ThreadInv, NEW r \in Requests, NEW row, Grown(r, row), row.parent \in 0..Len(rows),
         NEW q, Move(r, q), q.op = req[r].op, InFlight(r),
         UNCHANGED <<kind, stored>>, raced \subseteq raced'
  PROVE  \A p \in Requests \ {r} : Staged(p)' /\ Keys(p)'
<1> SUFFICES ASSUME NEW p \in Requests \ {r} PROVE Staged(p)' /\ Keys(p)'
  OBVIOUS
<1>1. /\ req'[r] = q /\ req'[p] = req[p]
      /\ \A s \in Requests \ {r} : req'[s] = req[s]
  BY Moved
<1>2. \A k \in DOMAIN rows' : k \in DOMAIN rows \/ k = Len(rows) + 1
  BY Types DEF Grown
<1>3. DOMAIN rows \subseteq DOMAIN rows'
  BY Types DEF Grown
<1>4. RowsBy(p)' = RowsBy(p)
  BY <1>2, <1>3 DEF RowsBy, Grown
<1>5. \A k \in RowsBy(p) : rows'[k].thread = rows[k].thread
  BY DEF RowsBy, Grown
<1>6. Staged(p)'
  BY <1>1, <1>4, <1>5, OthersStaged DEF ThreadInv
<1>7. \A k \in VisibleRows(rows)' : rows'[k].by = p => k \in VisibleRows(rows) /\ rows[k].by = p
  BY <1>2 DEF VisibleRows, Grown
<1>8. (InFlight(p) /\ req'[r].pc \notin {"idle", "over"} /\ KeyOf[p] = KeyOf[r]
         /\ Keyed(req[p].op) /\ Keyed(req'[r].op))
        => KeyOf[p] \in raced' \/ (InFlight(r) /\ Keyed(req[r].op))
  BY <1>1
<1>9. stored \subseteq stored' /\ (KeyOf[p] \in stored' => KeyOf[p] \in stored \cup raced')
  OBVIOUS
<1>10. Keys(p)'
  BY <1>1, <1>7, <1>8, <1>9, OthersKeys
<1> QED BY <1>6, <1>10

\* The question is flushed.
LEMMA FlushedInv ==
  ASSUME ThreadInv, NEW r \in Requests, NEW q, NEW row, Flushed(r, q, row)
  PROVE  ThreadInv'
<1>1. /\ Move(r, q) /\ InFlight(r) /\ req[r].pc = "reading"
      /\ UNCHANGED <<kind, stored, billed, faults, raced, overlapped>>
      /\ row \in Rows /\ row.parent = req[r].parent /\ row.by = r
      /\ row.thread = req[r].thread /\ row.role = "user"
      /\ q.op = req[r].op /\ q.parent = req[r].parent /\ q.row = Len(rows) + 1
      /\ q.thread = req[r].thread
      /\ req'[r] = q /\ req' \in [Requests -> Request]
      /\ \A p \in Requests \ {r} : req'[p] = req[p]
  BY Moved DEF Flushed, InFlight
<1>2. \/ /\ ~row.visible /\ q.pc = "asking" /\ req[r].op # "stream" /\ q.new = req[r].new
         /\ UNCHANGED <<thread, leaf>>
      \/ /\ row.visible /\ q.pc = "prepared" /\ req[r].op = "stream" /\ ~q.new
         /\ leaf' = [leaf EXCEPT ![req[r].thread] = Len(rows) + 1] /\ CommitThread(r)
  BY DEF Flushed
<1>3. /\ Len(rows) \in Nat /\ DOMAIN rows = 1..Len(rows) /\ row.parent \in 0..Len(rows)
      /\ leaf \in [Threads -> 0..Len(rows)] /\ req[r].thread \in Threads
      /\ Staged(r) /\ RowsBy(r) = {} /\ \A k \in DOMAIN rows : rows[k].by # r
  <2>1. Staged(r)
    BY DEF ThreadInv
  <2>2. RowsBy(r) = {} /\ req[r].thread # NoThread
    BY <1>1, <2>1 DEF Staged
  <2>3. \A k \in DOMAIN rows : rows[k].by # r
    BY <2>2 DEF RowsBy
  <2> QED BY <1>1, <2>1, <2>2, <2>3, Types
<1>4. Grown(r, row)
  BY <1>1, FlushGrows DEF Flushed
<1>5. /\ VisibleRows(rows) \subseteq VisibleRows(rows)'
      /\ \A k \in VisibleRows(rows)' :
           k \in VisibleRows(rows) \/ (k = Len(rows) + 1 /\ row.visible)
      /\ \A m : Children(rows, m) \subseteq Children(rows', m)
      /\ Children(rows', Len(rows) + 1) = {}
      /\ \A k \in DOMAIN rows' : rows'[k].parent < k
  BY <1>3, <1>4, GrownTree
<1>6. RowsBy(r)' = {Len(rows) + 1} /\ rows'[Len(rows) + 1].thread = q.thread
  <2>1. /\ DOMAIN rows' = DOMAIN rows \cup {Len(rows) + 1}
        /\ rows'[Len(rows) + 1].by = r /\ rows'[Len(rows) + 1].thread = row.thread
        /\ \A k \in DOMAIN rows : rows'[k].by = rows[k].by
    BY <1>3, <1>4 DEF Grown
  <2>2. \A k \in DOMAIN rows' : rows'[k].by = r <=> k = Len(rows) + 1
    BY <1>3, <2>1
  <2> QED BY <1>1, <2>1, <2>2 DEF RowsBy
<1>7. Staged(r)'
  BY <1>1, <1>2, <1>3, <1>6 DEF Staged
<1>8. \A p \in Requests \ {r} : Staged(p)' /\ Keys(p)'
  BY <1>1, <1>3, <1>4, GrownOthers
<1>9. Keys(r)'
  <2>1. \A k \in VisibleRows(rows)' : rows'[k].by = r =>
          \/ k \in VisibleRows(rows) /\ rows[k].by = r
          \/ Keyed(q.op) => q.pc = "storing" \/ KeyOf[r] \in stored' \cup raced'
    BY <1>1, <1>2, <1>3, <1>4, <1>5 DEF Grown, Keyed, VisibleRows
  <2> QED BY <1>1, <2>1, OwnKeys
<1>10. PointsBack'
  <2>1. Len(rows') = Len(rows) + 1
    BY <1>4 DEF Grown
  <2>2. \A p \in Requests : req'[p].parent <= Len(rows') /\ req'[p].row <= Len(rows')
    BY <1>1, <1>3, <2>1, Types
  <2> QED BY <1>5, <2>2 DEF PointsBack
<1>11. TypeOK'
  <2>0. Len(rows') = Len(rows) + 1 /\ thread \in Threads \cup {NoThread}
    BY <1>4 DEF Grown, ThreadInv, TypeOK
  <2>1. leaf' \in [Threads -> 0..Len(rows')] /\ thread' \in Threads \cup {NoThread}
    <3>1. thread' \in Threads \cup {NoThread}
      BY <1>2, <1>3, <2>0 DEF CommitThread
    <3>2. leaf' = leaf \/ leaf' = [leaf EXCEPT ![req[r].thread] = Len(rows) + 1]
      BY <1>2
    <3>3. leaf' \in [Threads -> 0..(Len(rows) + 1)]
      BY <1>3, <3>2
    <3> QED BY <2>0, <3>1, <3>3
  <2>2. rows' \in Seq(Rows)
    BY <1>4 DEF Grown
  <2> QED BY <1>1, <2>1, <2>2 DEF ThreadInv, TypeOK
<1>12. OneQuestion'
  BY <1>3, <1>4 DEF ThreadInv, OneQuestion, Grown
<1>13. WholeTurns'
  <2> SUFFICES ASSUME NEW k \in VisibleRows(rows)', rows'[k].role = "user"
               PROVE  \/ \E c \in Children(rows, k)' :
                           rows'[c].role = "assistant" /\ rows'[c].by = rows'[k].by
                      \/ req'[rows'[k].by].op = "stream"
    BY DEF WholeTurns
  <2>1. CASE k = Len(rows) + 1 /\ row.visible
    BY <1>1, <1>2, <1>4, <2>1 DEF Grown
  <2>2. CASE k \in VisibleRows(rows)
    <3>1. k \in DOMAIN rows /\ rows'[k].role = rows[k].role /\ rows'[k].by = rows[k].by
      BY <1>4, <2>2 DEF VisibleRows, Grown
    <3>2. \/ \E c \in Children(rows, k) : rows[c].role = "assistant" /\ rows[c].by = rows[k].by
          \/ req[rows[k].by].op = "stream"
      BY <2>2, <3>1 DEF ThreadInv, WholeTurns
    <3>3. \A c \in Children(rows, k) : c \in DOMAIN rows /\ c \in Children(rows', k)
      BY <1>5 DEF Children, VisibleRows
    <3>4. req'[rows[k].by].op = req[rows[k].by].op
      BY <1>1, <3>1, Types
    <3> QED BY <1>4, <3>1, <3>2, <3>3, <3>4 DEF Grown
  <2> QED BY <1>5, <2>1, <2>2
<1>14. KeyedOnce'
  <2> SUFFICES ASSUME NEW j \in VisibleRows(rows)', NEW k \in VisibleRows(rows)',
                      kind = "refine", j # k, rows'[j].role = "user", rows'[k].role = "user",
                      req'[rows'[j].by].op = "send", req'[rows'[k].by].op = "send",
                      KeyOf[rows'[j].by] = KeyOf[rows'[k].by]
               PROVE  KeyOf[rows'[j].by] \in raced
    BY <1>1 DEF KeyedOnce
  <2>1. \A i \in VisibleRows(rows)' : req'[rows'[i].by].op = "send" =>
          i \in VisibleRows(rows) /\ rows'[i].by = rows[i].by /\ rows'[i].role = rows[i].role
    BY <1>1, <1>2, <1>4, <1>5 DEF Grown, VisibleRows
  <2>2. \A i \in DOMAIN rows : req'[rows[i].by].op = req[rows[i].by].op
    BY <1>1, Types
  <2> QED BY <2>1, <2>2 DEF ThreadInv, KeyedOnce, VisibleRows
<1>15. AloneNothingHidden'
  <2> SUFFICES ASSUME ~overlapped
               PROVE  /\ \A k \in VisibleRows(rows)' : rows'[k].thread = thread'
                      /\ thread' # NoThread /\ leaf'[thread'] # NoRow =>
                           Children(rows', leaf'[thread']) = {}
    BY <1>1 DEF AloneNothingHidden, VisibleRows, Children
  <2>1. /\ \A k \in VisibleRows(rows) : rows[k].thread = thread
        /\ thread # NoThread /\ leaf[thread] # NoRow => Children(rows, leaf[thread]) = {}
    BY DEF ThreadInv, AloneNothingHidden
  <2>2. OneAtATime(r)
    BY DEF ThreadInv
  <2>3. \A k \in VisibleRows(rows) : k \in DOMAIN rows /\ rows'[k].thread = rows[k].thread
    BY <1>4 DEF VisibleRows, Grown
  <2>4. CASE ~row.visible /\ UNCHANGED <<thread, leaf>>
    <3>1. VisibleRows(rows)' = VisibleRows(rows)
      BY <1>5, <2>4
    <3>2. \A m : Children(rows', m) = Children(rows, m)
      BY <1>4, <3>1 DEF Children, VisibleRows, Grown
    <3> QED BY <2>1, <2>3, <2>4, <3>1, <3>2
  <2>5. CASE /\ row.visible /\ CommitThread(r)
             /\ leaf' = [leaf EXCEPT ![req[r].thread] = Len(rows) + 1]
    <3>1. thread' = req[r].thread
      BY <1>1, <2>2, <2>5 DEF CommitThread, OneAtATime
    <3>2. req[r].new => VisibleRows(rows) = {}
      <4>1. \A k \in VisibleRows(rows) : rows[k].thread \in Threads
        BY Types DEF VisibleRows
      <4>2. NoThread \notin Threads
        BY ThreadBounds DEF Threads, NoThread, Given
      <4> QED BY <1>1, <2>1, <2>2, <4>1, <4>2 DEF OneAtATime
    <3>3. ~req[r].new => thread = req[r].thread
      BY <1>1, <2>2 DEF OneAtATime
    <3>4. \A k \in VisibleRows(rows)' : rows'[k].thread = thread'
      BY <1>1, <1>5, <1>6, <2>1, <2>3, <3>1, <3>2, <3>3
    <3>5. leaf'[thread'] = Len(rows) + 1
      BY <1>3, <2>5, <3>1
    <3> QED BY <1>5, <3>4, <3>5
  <2> QED BY <1>2, <2>4, <2>5
<1>16. ASSUME ~overlapped' PROVE \A p \in Requests : OneAtATime(p)'
  <2>1. /\ ~overlapped /\ OneAtATime(r) /\ \A s \in Requests \ {r} : ~InFlight(s)'
        /\ \A p \in Requests \ {r} : OneAtATime(p)'
    BY <1>1, <1>16, OthersAlone
  <2>2. IF req[r].new THEN thread = NoThread ELSE req[r].thread = thread
    BY <1>1, <2>1 DEF OneAtATime
  <2>3. q.pc \in {"asking", "prepared"}
        /\ IF q.new THEN thread' = NoThread ELSE q.thread = thread'
    BY <1>1, <1>2, <2>2 DEF CommitThread
  <2>4. OneAtATime(r)'
    BY <1>1, <2>1, <2>3 DEF OneAtATime
  <2> QED BY <2>1, <2>4
<1> QED BY <1>7, <1>8, <1>9, <1>10, <1>11, <1>12, <1>13, <1>14, <1>15, <1>16 DEF ThreadInv

\* A reply is committed, with all that its request had flushed.
LEMMA AnsweredInv ==
  ASSUME ThreadInv, NEW r \in Requests, NEW q, Answered(r, q)
  PROVE  ThreadInv'
<1> DEFINE row == NewRow(r, req[r].row, "assistant", TRUE)
           new == Len(rows) + 1
<1>1. /\ Move(r, q) /\ InFlight(r) /\ req[r].pc \in {"asking", "persisting"}
      /\ q.pc \in {"over", "storing"} /\ UNCHANGED <<kind, stored, overlapped>>
      /\ billed' \subseteq Requests /\ faults' \in 0..MaxFaults
      /\ q.op = req[r].op /\ q.parent <= Len(rows) /\ q.row <= Len(rows) /\ ~q.new
      /\ req'[r] = q /\ req' \in [Requests -> Request]
      /\ \A p \in Requests \ {r} : req'[p] = req[p]
  BY Moved DEF Answered, InFlight
<1>2. /\ rows' = Shown(Append(rows, row), r)
      /\ leaf' = [leaf EXCEPT ![req[r].thread] = new] /\ CommitThread(r)
  BY DEF Answered, CommitReply
<1>3. /\ Len(rows) \in Nat /\ DOMAIN rows = 1..Len(rows) /\ req[r].row \in 0..Len(rows)
      /\ leaf \in [Threads -> 0..Len(rows)] /\ req[r].thread \in Threads
      /\ Staged(r)
      /\ \A k \in RowsBy(r) : rows[k].thread = req[r].thread
      /\ req[r].pc = "asking" => \A k \in RowsBy(r) : k = req[r].row
      /\ req[r].pc = "persisting" => req[r].op = "stream"
  <2>1. Staged(r)
    BY DEF ThreadInv
  <2>2. /\ req[r].thread # NoThread
        /\ \A k \in RowsBy(r) : rows[k].thread = req[r].thread
        /\ req[r].pc = "asking" => \A k \in RowsBy(r) : k = req[r].row
        /\ req[r].pc = "persisting" => req[r].op = "stream"
    BY <1>1, <2>1 DEF Staged
  <2> QED BY <2>1, <2>2, Types
<1>4. /\ row \in Rows /\ row.visible /\ row.by = r /\ row.parent = req[r].row
      /\ row.role = "assistant" /\ row.thread = req[r].thread
  BY <1>3 DEF NewRow, Rows
<1> HIDE DEF row
<1>5. Grown(r, row)
  BY <1>2, <1>4, CommitGrows
<1>6. /\ VisibleRows(rows) \subseteq VisibleRows(rows)'
      /\ \A k \in VisibleRows(rows)' :
           k \in VisibleRows(rows) \/ (k \in DOMAIN rows /\ rows[k].by = r) \/ k = new
      /\ \A m : Children(rows, m) \subseteq Children(rows', m)
      /\ Children(rows', new) = {}
      /\ \A k \in DOMAIN rows' : rows'[k].parent < k
  BY <1>3, <1>4, <1>5, GrownTree
<1>7. /\ Len(rows') = new /\ new \in DOMAIN rows' /\ DOMAIN rows' = DOMAIN rows \cup {new}
      /\ rows'[new].parent = req[r].row /\ rows'[new].role = "assistant"
      /\ rows'[new].by = r /\ rows'[new].thread = req[r].thread /\ rows'[new].visible
      /\ \A k \in DOMAIN rows :
           /\ rows'[k].role = rows[k].role /\ rows'[k].by = rows[k].by
           /\ rows'[k].thread = rows[k].thread
  BY <1>3, <1>4, <1>5 DEF Grown
<1>8. /\ raced \subseteq raced' /\ raced' \subseteq {KeyOf[x] : x \in Requests}
      /\ q.pc = "over" /\ Keyed(q.op) => KeyOf[r] \in raced'
      /\ q.pc = "storing" => Keyed(q.op) /\ q.thread = req[r].thread
  BY DEF Answered, ThreadInv, TypeOK
<1>9. \A k \in DOMAIN rows : req'[rows[k].by].op = req[rows[k].by].op
  BY <1>1, Types
<1>10. Staged(r)'
  BY <1>1, <1>8 DEF Staged, Keyed
<1>11. \A p \in Requests \ {r} : Staged(p)' /\ Keys(p)'
  BY <1>1, <1>3, <1>4, <1>5, <1>8, GrownOthers
<1>12. Keys(r)'
  <2>1. \A k \in VisibleRows(rows)' : rows'[k].by = r =>
          \/ k \in VisibleRows(rows) /\ rows[k].by = r
          \/ Keyed(q.op) => q.pc = "storing" \/ KeyOf[r] \in stored' \cup raced'
    BY <1>1, <1>8
  <2> QED BY <1>1, <1>8, <2>1, OwnKeys
<1>13. PointsBack'
  <2>1. q.parent \in Nat /\ q.row \in Nat
    BY <1>1 DEF Move, Request
  <2>2. ASSUME NEW p \in Requests PROVE req'[p].parent <= new /\ req'[p].row <= new
    <3>1. CASE p = r
      BY <1>1, <1>3, <2>1, <3>1
    <3>2. CASE p # r
      BY <1>1, <1>3, <3>2, Types
    <3> QED BY <3>1, <3>2
  <2> QED BY <1>6, <1>7, <2>2 DEF PointsBack
<1>14. TypeOK'
  <2>1. thread \in Threads \cup {NoThread}
    BY DEF ThreadInv, TypeOK
  <2>2. leaf' \in [Threads -> 0..Len(rows')] /\ thread' \in Threads \cup {NoThread}
    BY <1>2, <1>3, <1>7, <2>1 DEF CommitThread
  <2>3. rows' \in Seq(Rows)
    BY <1>5 DEF Grown
  <2> QED BY <1>1, <1>8, <2>2, <2>3 DEF ThreadInv, TypeOK
<1>15. OneQuestion'
  BY <1>7 DEF ThreadInv, OneQuestion
<1>16. WholeTurns'
  <2> SUFFICES ASSUME NEW k \in VisibleRows(rows)', rows'[k].role = "user"
               PROVE  \/ \E c \in Children(rows, k)' :
                           rows'[c].role = "assistant" /\ rows'[c].by = rows'[k].by
                      \/ req'[rows'[k].by].op = "stream"
    BY DEF WholeTurns
  <2>1. CASE k \in DOMAIN rows /\ rows[k].by = r
    <3>1. req[r].pc = "asking" => k = req[r].row /\ new \in Children(rows, k)'
      BY <1>3, <1>7, <2>1 DEF RowsBy, Children, VisibleRows
    <3> QED BY <1>1, <1>3, <1>7, <2>1, <3>1
  <2>2. CASE k \in VisibleRows(rows)
    <3>1. k \in DOMAIN rows /\ rows'[k].role = rows[k].role /\ rows'[k].by = rows[k].by
      BY <1>7, <2>2 DEF VisibleRows
    <3>2. \/ \E c \in Children(rows, k) : rows[c].role = "assistant" /\ rows[c].by = rows[k].by
          \/ req[rows[k].by].op = "stream"
      BY <2>2, <3>1 DEF ThreadInv, WholeTurns
    <3>3. \A c \in Children(rows, k) : c \in DOMAIN rows /\ c \in Children(rows', k)
      BY <1>6 DEF Children, VisibleRows
    <3> QED BY <1>7, <1>9, <3>1, <3>2, <3>3
  <2> QED BY <1>6, <1>7, <2>1, <2>2
<1>17. KeyedOnce'
  <2>1. ASSUME NEW k \in VisibleRows(rows), rows[k].by # r, Keyed(req[r].op),
               Keyed(req[rows[k].by].op), KeyOf[rows[k].by] = KeyOf[r]
        PROVE  KeyOf[r] \in raced
    <3>1. rows[k].by \in Requests \ {r} /\ Keys(rows[k].by) /\ Keys(r)
      BY <2>1, Types DEF ThreadInv, VisibleRows
    <3>2. req[rows[k].by].pc = "storing" \/ KeyOf[rows[k].by] \in stored \cup raced
      BY <2>1, <3>1 DEF Keys
    <3>3. req[rows[k].by].pc = "storing" => InFlight(rows[k].by)
      BY DEF InFlight
    <3>4. req[r].pc # "storing"
      BY <1>1
    <3> QED BY <1>1, <2>1, <3>1, <3>2, <3>3, <3>4 DEF Keys
  <2> SUFFICES ASSUME NEW j \in VisibleRows(rows)', NEW k \in VisibleRows(rows)',
                      kind = "refine", j # k, rows'[j].role = "user", rows'[k].role = "user",
                      req'[rows'[j].by].op = "send", req'[rows'[k].by].op = "send",
                      KeyOf[rows'[j].by] = KeyOf[rows'[k].by]
               PROVE  KeyOf[rows'[j].by] \in raced'
    BY <1>1 DEF KeyedOnce
  <2>2. \A i \in VisibleRows(rows)' : rows'[i].role = "user" =>
          /\ i \in DOMAIN rows /\ rows'[i].by = rows[i].by /\ rows'[i].role = rows[i].role
          /\ rows[i].by # r => i \in VisibleRows(rows)
          /\ req'[rows[i].by].op = "send" => Keyed(req[rows[i].by].op)
    BY <1>6, <1>7, <1>9 DEF Keyed, VisibleRows
  <2>3. CASE rows[j].by = r /\ rows[k].by = r
    BY <2>2, <2>3 DEF ThreadInv, OneQuestion
  <2>4. CASE rows[j].by = r /\ rows[k].by # r
    BY <1>8, <2>1, <2>2, <2>4
  <2>5. CASE rows[j].by # r /\ rows[k].by = r
    BY <1>8, <2>1, <2>2, <2>5
  <2>6. CASE rows[j].by # r /\ rows[k].by # r
    <3>1. KeyOf[rows[j].by] \in raced
      BY <1>9, <2>2, <2>6 DEF ThreadInv, KeyedOnce
    <3> QED BY <1>8, <2>2, <3>1
  <2> QED BY <2>3, <2>4, <2>5, <2>6
<1>18. ASSUME ~overlapped PROVE thread' = req[r].thread
  BY <1>1, <1>2, <1>18 DEF ThreadInv, CommitThread, OneAtATime
<1>19. AloneNothingHidden'
  <2> SUFFICES ASSUME ~overlapped
               PROVE  /\ \A k \in VisibleRows(rows)' : rows'[k].thread = thread'
                      /\ thread' # NoThread /\ leaf'[thread'] # NoRow =>
                           Children(rows', leaf'[thread']) = {}
    BY <1>1 DEF AloneNothingHidden, VisibleRows, Children
  <2>1. \A k \in VisibleRows(rows) : k \in DOMAIN rows /\ rows[k].thread = thread
    BY DEF ThreadInv, AloneNothingHidden, VisibleRows
  <2>2. IF req[r].new THEN thread = NoThread ELSE req[r].thread = thread
    BY <1>1 DEF ThreadInv, OneAtATime
  <2>3. req[r].new => VisibleRows(rows) = {}
    <3>1. \A k \in VisibleRows(rows) : rows[k].thread \in Threads
      BY Types DEF VisibleRows
    <3>2. NoThread \notin Threads
      BY ThreadBounds DEF Threads, NoThread, Given
    <3> QED BY <2>1, <2>2, <3>1, <3>2
  <2>4. ASSUME NEW k \in VisibleRows(rows)' PROVE rows'[k].thread = thread'
    <3>1. CASE k \in VisibleRows(rows)
      BY <1>7, <1>18, <2>1, <2>2, <2>3, <3>1
    <3>2. CASE k \in DOMAIN rows /\ rows[k].by = r
      BY <1>3, <1>7, <1>18, <3>2 DEF RowsBy
    <3>3. CASE k = new
      BY <1>7, <1>18, <3>3
    <3> QED BY <1>6, <3>1, <3>2, <3>3
  <2>5. leaf'[thread'] = new
    BY <1>2, <1>3, <1>18
  <2> QED BY <1>6, <2>4, <2>5
<1>20. ASSUME ~overlapped' PROVE \A p \in Requests : OneAtATime(p)'
  <2>1. /\ ~overlapped /\ OneAtATime(r) /\ \A s \in Requests \ {r} : ~InFlight(s)'
        /\ \A p \in Requests \ {r} : OneAtATime(p)'
    BY <1>1, <1>20, OthersAlone
  <2>2. OneAtATime(r)'
    BY <1>1, <1>8, <1>18, <2>1 DEF OneAtATime, InFlight
  <2> QED BY <2>1, <2>2
<1> QED BY <1>10, <1>11, <1>12, <1>13, <1>14, <1>15, <1>16, <1>17, <1>19, <1>20 DEF ThreadInv

\* The process dies, and every request with it.
LEMMA CrashInv ==
  ASSUME ThreadInv, Crash
  PROVE  ThreadInv'
<1> DEFINE Lost == {q \in Requests : req[q].pc = "storing"}
           Gone(r) == [NoRequest EXCEPT !.pc = "over", !.op = req[r].op, !.cut = req[r].cut]
<1>1. /\ UNCHANGED <<kind, rows, thread, leaf, stored, billed, overlapped>>
      /\ faults' = faults + 1 /\ faults < MaxFaults
      /\ raced' = raced \cup {KeyOf[r] : r \in Lost}
      /\ req' = [r \in Requests |-> IF InFlight(r) THEN End(r)[r] ELSE req[r]]
  BY DEF Crash, Fault
<1>2. ASSUME NEW r \in Requests
      PROVE  /\ req'[r] = IF InFlight(r) THEN Gone(r) ELSE req[r]
             /\ Gone(r) \in Request
             /\ Gone(r).pc = "over" /\ Gone(r).op = req[r].op /\ ~Gone(r).new
             /\ Gone(r).parent = 0 /\ Gone(r).row = 0
  <2>1. req[r] \in Request /\ req \in [Requests -> Request]
    BY DEF ThreadInv, TypeOK
  <2>2. req[r].op \in Ops("evidence") \cup Ops("refine") /\ req[r].cut \in BOOLEAN
    BY <2>1 DEF Request
  <2>3. End(r)[r] = Gone(r)
    BY <2>1 DEF End
  <2>4. Gone(r) \in Request
    BY <2>2 DEF NoRequest, NoRow, Request
  <2> QED BY <1>1, <2>3, <2>4 DEF NoRequest, NoRow
<1> HIDE DEF Gone
<1>3. \A r \in Requests : /\ req'[r] \in Request /\ req'[r].op = req[r].op
                          /\ req'[r].pc = (IF InFlight(r) THEN "over" ELSE req[r].pc)
                          /\ ~InFlight(r)'
  BY <1>2, Types DEF InFlight
<1>4. \A r \in Requests : req'[r].new => ~InFlight(r) /\ req[r].new
  BY <1>2
<1>5. /\ raced \subseteq raced' /\ raced' \subseteq {KeyOf[x] : x \in Requests}
      /\ \A r \in Requests : req[r].pc = "storing" => KeyOf[r] \in raced'
  <2>1. raced \subseteq {KeyOf[x] : x \in Requests}
    BY DEF ThreadInv, TypeOK
  <2> QED BY <1>1, <2>1
<1>6. TypeOK'
  <2>1. req' \in [Requests -> Request]
    BY <1>1, <1>3
  <2>2. faults' \in 0..MaxFaults
    BY <1>1, ThreadBounds DEF ThreadInv, TypeOK
  <2> QED BY <1>1, <1>5, <2>1, <2>2 DEF ThreadInv, TypeOK
<1>7. PointsBack'
  BY <1>1, <1>2, Types DEF ThreadInv, PointsBack
<1>8. OneQuestion' /\ WholeTurns' /\ KeyedOnce'
  BY <1>1, <1>3, <1>5, QuietRows
<1>9. AloneNothingHidden'
  BY <1>1 DEF ThreadInv, AloneNothingHidden, VisibleRows, Children
<1>10. ASSUME NEW r \in Requests PROVE Staged(r)' /\ Keys(r)'
  <2>1. Staged(r) /\ Keys(r) /\ RowsBy(r)' = RowsBy(r)
    BY <1>1 DEF ThreadInv, RowsBy
  <2>2. Staged(r)'
    <3>1. CASE InFlight(r)
      BY <1>2, <1>3, <1>4, <3>1 DEF Staged
    <3>2. CASE ~InFlight(r)
      BY <1>1, <1>2, <2>1, <3>2 DEF Staged, Keyed
    <3> QED BY <3>1, <3>2
  <2>3. Keys(r)'
    <3>1. VisibleRows(rows)' = VisibleRows(rows) /\ Keyed(req[r].op)' = Keyed(req[r].op)
      BY <1>1, <1>3 DEF VisibleRows, Keyed
    <3> QED BY <1>1, <1>3, <1>5, <2>1, <3>1 DEF Keys
  <2> QED BY <2>2, <2>3
<1>11. \A r \in Requests : OneAtATime(r)'
  BY <1>3 DEF OneAtATime, InFlight
<1> QED BY <1>6, <1>7, <1>8, <1>9, <1>10, <1>11 DEF ThreadInv

\* What a handler leaves of its request.
LEMMA EndMoves ==
  ASSUME ThreadInv, NEW r \in Requests
  PROVE  \E q : /\ End(r) = [req EXCEPT ![r] = q] /\ q \in Request
                /\ q.pc = "over" /\ q.op = req[r].op /\ ~q.new
                /\ q.parent <= Len(rows) /\ q.row <= Len(rows)
<1> DEFINE q == [NoRequest EXCEPT !.pc = "over", !.op = req[r].op, !.cut = req[r].cut]
<1>1. req[r] \in Request /\ Len(rows) \in Nat
  BY Types
<1>2. req[r].op \in Ops("evidence") \cup Ops("refine") /\ req[r].cut \in BOOLEAN
  BY <1>1 DEF Request
<1>3. q \in Request
  BY <1>2 DEF NoRequest, NoRow, Request
<1>4. /\ q.pc = "over" /\ q.op = req[r].op /\ ~q.new
      /\ q.parent <= Len(rows) /\ q.row <= Len(rows)
  BY <1>1 DEF NoRequest, NoRow
<1>5. End(r) = [req EXCEPT ![r] = q]
  BY DEF End
<1> HIDE DEF q
<1> QED BY <1>3, <1>4, <1>5

\* Ops of both chats.
LEMMA OpsIn ==
  ASSUME NEW k, NEW op \in Ops(k)
  PROVE  op \in Ops("evidence") \cup Ops("refine")
BY DEF Ops

\* The heads of the handlers.
LEMMA Starts ==
  ASSUME ThreadInv, NEW r \in Requests, NEW q,
         req' = [req EXCEPT ![r] = q], NEW op, BegunAs(r, q, op), q \in Request,
         UNCHANGED <<kind, rows, thread, leaf, stored, billed, faults>>,
         q.parent <= Len(rows), q.row <= Len(rows), ~q.new,
         \/ q.pc = "over"
         \/ q.pc = "claiming" /\ thread = NoThread
         \/ /\ q.pc \in {"reading", "asking", "switching"}
            /\ q.thread = thread /\ thread # NoThread
            /\ q.pc = "asking" => q.op = "retry"
            /\ q.pc = "switching" => Children(rows, q.row) = {}
  PROVE  ThreadInv'
<1>1. Begun(r, q)
  BY DEF Begun, Move, BegunAs, Begin
<1> QED BY <1>1, BegunInv

LEMMA AnswerStoredInv ==
  ASSUME ThreadInv, NEW r \in Requests, AnswerStored(r)
  PROVE  ThreadInv'
<1> DEFINE q == [req[r] EXCEPT !.pc = "over"]
<1>1. /\ req[r] \in Request /\ req' = [req EXCEPT ![r] = q] /\ Begin(r, "send")
      /\ UNCHANGED <<kind, rows, thread, leaf, stored, billed, faults>>
      /\ req[r].parent <= Len(rows) /\ req[r].row <= Len(rows)
  BY Types DEF AnswerStored
<1>2. req[r].pc = "idle" /\ Staged(r)
  BY <1>1 DEF Begin, ThreadInv
<1>3. ~req[r].new
  BY <1>2 DEF Staged
<1>4. q \in Request /\ q.pc = "over" /\ q.parent = req[r].parent /\ q.row = req[r].row
      /\ q.new = req[r].new
  BY <1>1 DEF Request
<1> HIDE DEF q
<1>5. BegunAs(r, q, "send")
  BY <1>1, <1>4 DEF BegunAs
<1> QED BY <1>1, <1>3, <1>4, <1>5, Starts

LEMMA SendInv ==
  ASSUME ThreadInv, NEW r \in Requests, NEW op \in {"send", "stream", "plain"}, Send(r, op)
  PROVE  ThreadInv'
<1>1. /\ req[r] \in Request /\ Begin(r, op)
      /\ UNCHANGED <<kind, rows, thread, leaf, stored, billed, faults>>
      /\ req[r].parent <= Len(rows) /\ req[r].row <= Len(rows)
      /\ req[r].parent \in Nat /\ req[r].row \in Nat /\ Len(rows) \in Nat
      /\ Keyed(op) => KeyOf[r] \notin stored
  BY Types DEF Send
<1>2. /\ req[r].pc = "idle" /\ ~req[r].new /\ op \in Ops("evidence") \cup Ops("refine")
  <2>1. req[r].pc = "idle" /\ op \in Ops(kind) /\ Staged(r)
    BY <1>1 DEF Begin, ThreadInv
  <2> QED BY <2>1, OpsIn DEF Staged
<1>3. CASE thread = NoThread
  <2> DEFINE q == [req[r] EXCEPT !.pc = "claiming", !.op = op]
  <2>1. req' = [req EXCEPT ![r] = q]
    BY <1>3, Types DEF Send
  <2>2. /\ q \in Request /\ q.pc = "claiming" /\ q.op = op /\ q.new = req[r].new
        /\ q.parent = req[r].parent /\ q.row = req[r].row
    BY <1>1, <1>2 DEF Request
  <2> HIDE DEF q
  <2>3. BegunAs(r, q, op)
    BY <1>1, <2>2 DEF BegunAs
  <2> QED BY <1>1, <1>2, <1>3, <2>1, <2>2, <2>3, Starts
<1>4. CASE thread # NoThread
  <2>1. PICK p \in ParentsFor(op) :
          req' = [req EXCEPT ![r].pc = "reading", ![r].op = op,
                             ![r].thread = thread, ![r].parent = p]
    BY <1>4 DEF Send
  <2>2. thread \in Threads
    BY <1>4 DEF ThreadInv, TypeOK
  <2>3. p \in 0..Len(rows)
    <3>1. leaf[thread] \in 0..Len(rows)
      BY <2>2, Types
    <3>2. RowsOf(thread) \subseteq 1..Len(rows)
      BY Types DEF RowsOf, VisibleRows
    <3> QED BY <1>1, <3>1, <3>2 DEF ParentsFor
  <2> DEFINE q == [req[r] EXCEPT !.pc = "reading", !.op = op, !.thread = thread, !.parent = p]
  <2>4. req' = [req EXCEPT ![r] = q]
    BY <2>1
  <2>5. /\ q \in Request /\ q.pc = "reading" /\ q.op = op /\ q.new = req[r].new
        /\ q.parent = p /\ q.row = req[r].row /\ q.thread = thread
    <3>1. p \in Nat
      BY <1>1, <2>3
    <3>2. q \in Request
      BY <1>1, <1>2, <2>2, <3>1 DEF Request
    <3> QED BY <1>1, <3>2 DEF Request
  <2> HIDE DEF q
  <2>6. BegunAs(r, q, op)
    BY <1>1, <2>5 DEF BegunAs
  <2>7. q.parent <= Len(rows) /\ q.row <= Len(rows) /\ ~q.new
    BY <1>1, <1>2, <2>3, <2>5
  <2> QED BY <1>1, <1>4, <2>4, <2>5, <2>6, <2>7, Starts
<1> QED BY <1>3, <1>4

\* Edits, retries and activations of a message.
LEMMA TargetInv ==
  ASSUME ThreadInv, NEW r \in Requests, NEW m \in DOMAIN rows,
         Edit(r, m) \/ Retry(r, m) \/ Activate(r, m)
  PROVE  ThreadInv'
<1>1. /\ req[r] \in Request /\ UNCHANGED <<kind, rows, thread, leaf, stored, billed, faults>>
      /\ req[r].parent <= Len(rows) /\ req[r].row <= Len(rows)
      /\ req[r].parent \in Nat /\ req[r].row \in Nat /\ Len(rows) \in Nat
      /\ rows[m].parent \in 0..Len(rows) /\ thread \in Threads /\ thread # NoThread
  <2>1. /\ UNCHANGED <<kind, rows, thread, leaf, stored, billed, faults>>
        /\ thread # NoThread
    BY DEF Edit, Retry, Activate
  <2>2. thread \in Threads
    BY <2>1 DEF ThreadInv, TypeOK
  <2>3. m \in 1..Len(rows) /\ rows[m].parent \in Nat /\ rows[m].parent < m
    BY Types DEF Forest
  <2> QED BY <2>1, <2>2, <2>3, Types
<1>2. req[r].pc = "idle" /\ ~req[r].new
  <2>1. req[r].pc = "idle" /\ Staged(r)
    BY DEF Begin, ThreadInv, Edit, Retry, Activate
  <2> QED BY <2>1 DEF Staged
<1>3. CASE Edit(r, m)
  <2> DEFINE q == [req[r] EXCEPT !.op = "edit", !.pc = "reading", !.thread = thread,
                                 !.parent = rows[m].parent]
  <2>1. req' = [req EXCEPT ![r] = q] /\ Begin(r, "edit")
    BY <1>3 DEF Edit
  <2>2. /\ q \in Request /\ q.pc = "reading" /\ q.op = "edit" /\ q.new = req[r].new
        /\ q.parent = rows[m].parent /\ q.row = req[r].row /\ q.thread = thread
    <3>1. "edit" \in Ops("evidence") \cup Ops("refine") /\ rows[m].parent \in Nat
      BY <1>1 DEF Ops
    <3>2. q \in Request
      BY <1>1, <3>1 DEF Request
    <3> QED BY <1>1, <3>2 DEF Request
  <2> HIDE DEF q
  <2>3. BegunAs(r, q, "edit")
    BY <2>1, <2>2 DEF BegunAs, Keyed
  <2>4. q.parent <= Len(rows) /\ q.row <= Len(rows) /\ ~q.new
    BY <1>1, <1>2, <2>2
  <2> QED BY <1>1, <2>1, <2>2, <2>3, <2>4, Starts
<1>4. CASE Retry(r, m)
  <2> DEFINE q == [req[r] EXCEPT !.op = "retry", !.pc = "asking", !.thread = thread,
                                 !.row = rows[m].parent]
  <2>1. req' = [req EXCEPT ![r] = q] /\ Begin(r, "retry")
    BY <1>4 DEF Retry
  <2>2. /\ q \in Request /\ q.pc = "asking" /\ q.op = "retry" /\ q.new = req[r].new
        /\ q.row = rows[m].parent /\ q.parent = req[r].parent /\ q.thread = thread
    <3>1. "retry" \in Ops("evidence") \cup Ops("refine") /\ rows[m].parent \in Nat
      BY <1>1 DEF Ops
    <3>2. q \in Request
      BY <1>1, <3>1 DEF Request
    <3> QED BY <1>1, <3>2 DEF Request
  <2> HIDE DEF q
  <2>3. BegunAs(r, q, "retry")
    BY <2>1, <2>2 DEF BegunAs, Keyed
  <2>4. q.parent <= Len(rows) /\ q.row <= Len(rows) /\ ~q.new
    BY <1>1, <1>2, <2>2
  <2> QED BY <1>1, <2>1, <2>2, <2>3, <2>4, Starts
<1>5. CASE Activate(r, m)
  <2> DEFINE l == LeafOfBranch(rows, m)
             q == [req[r] EXCEPT !.pc = "switching", !.op = "activate", !.thread = thread,
                                 !.row = l]
  <2>1. req' = [req EXCEPT ![r] = q] /\ Begin(r, "activate")
    BY <1>5 DEF Activate
  <2>2. l \in 1..Len(rows) /\ Children(rows, l) = {}
    BY Types, LeafEnds
  <2> HIDE DEF l
  <2>3. /\ q \in Request /\ q.pc = "switching" /\ q.op = "activate" /\ q.new = req[r].new
        /\ q.row = l /\ q.parent = req[r].parent /\ q.thread = thread
    <3>1. "activate" \in Ops("evidence") \cup Ops("refine") /\ l \in Nat
      BY <1>1, <2>2 DEF Ops
    <3>2. q \in Request
      BY <1>1, <3>1 DEF Request
    <3> QED BY <1>1, <3>2 DEF Request
  <2> HIDE DEF q
  <2>4. BegunAs(r, q, "activate")
    BY <2>1, <2>3 DEF BegunAs, Keyed
  <2>5. q.parent <= Len(rows) /\ q.row <= Len(rows) /\ ~q.new /\ Children(rows, q.row) = {}
    BY <1>1, <1>2, <2>2, <2>3
  <2> QED BY <1>1, <2>1, <2>3, <2>4, <2>5, Starts
<1> QED BY <1>3, <1>4, <1>5

\* The steps of a turn, each one of the shapes above.
LEMMA ClaimThreadInv ==
  ASSUME ThreadInv, NEW r \in Requests, ClaimThread(r)
  PROVE  ThreadInv'
<1> DEFINE q == [req[r] EXCEPT !.pc = "reading", !.thread = r, !.new = TRUE]
<1>1. req[r] \in Request /\ req' = [req EXCEPT ![r] = q]
  BY Types DEF ClaimThread
<1>2. q \in Request
  BY <1>1 DEF Request, Threads
<1>3. /\ q.pc = "reading" /\ q.op = req[r].op /\ q.parent = req[r].parent
      /\ q.row = req[r].row /\ q.thread = r /\ q.new
  BY <1>1 DEF Request
<1> HIDE DEF q
<1>4. Claimed(r, q)
  BY <1>1, <1>2, <1>3 DEF Claimed, Move, ClaimThread
<1> QED BY <1>4, ClaimedInv

LEMMA FlushInv ==
  ASSUME ThreadInv, NEW r \in Requests, FlushUser(r) \/ PrepareStream(r)
  PROVE  ThreadInv'
<1>1. /\ req[r] \in Request /\ Len(rows) + 1 \in Nat /\ req[r].parent \in Nat
      /\ req[r].pc = "reading" /\ Staged(r)
  <2>1. req[r].pc = "reading" /\ Staged(r)
    BY DEF FlushUser, PrepareStream, ThreadInv
  <2> QED BY <2>1, Types
<1>2. req[r].thread \in Threads
  BY <1>1, Types DEF Staged
<1>3. ASSUME NEW v \in BOOLEAN
      PROVE  LET row == NewRow(r, req[r].parent, "user", v) IN
               /\ row \in Rows /\ row.parent = req[r].parent /\ row.by = r
               /\ row.thread = req[r].thread /\ row.role = "user" /\ row.visible = v
  BY <1>1, <1>2 DEF NewRow, Rows
<1>4. CASE FlushUser(r)
  <2> DEFINE q == [req[r] EXCEPT !.pc = "asking", !.row = Len(rows) + 1]
             row == NewRow(r, req[r].parent, "user", FALSE)
  <2>1. req' = [req EXCEPT ![r] = q] /\ rows' = Append(rows, row)
    BY <1>4 DEF FlushUser
  <2>2. q \in Request
    BY <1>1 DEF Request
  <2>3. /\ q.pc = "asking" /\ q.op = req[r].op /\ q.parent = req[r].parent
        /\ q.row = Len(rows) + 1 /\ q.thread = req[r].thread /\ q.new = req[r].new
    BY <1>1 DEF Request
  <2>4. /\ row \in Rows /\ row.parent = req[r].parent /\ row.by = r
        /\ row.thread = req[r].thread /\ row.role = "user" /\ ~row.visible
    BY <1>3
  <2> HIDE DEF q, row
  <2>5. Flushed(r, q, row)
    BY <1>1, <1>4, <2>1, <2>2, <2>3, <2>4 DEF Flushed, Move, FlushUser
  <2> QED BY <2>5, FlushedInv
<1>5. CASE PrepareStream(r)
  <2> DEFINE q == [req[r] EXCEPT !.pc = "prepared", !.row = Len(rows) + 1, !.new = FALSE]
             row == NewRow(r, req[r].parent, "user", TRUE)
  <2>1. req' = [req EXCEPT ![r] = q] /\ rows' = Append(rows, row)
    BY <1>5 DEF PrepareStream
  <2>2. q \in Request
    BY <1>1 DEF Request
  <2>3. /\ q.pc = "prepared" /\ q.op = req[r].op /\ q.parent = req[r].parent
        /\ q.row = Len(rows) + 1 /\ q.thread = req[r].thread /\ ~q.new
    BY <1>1 DEF Request
  <2>4. /\ row \in Rows /\ row.parent = req[r].parent /\ row.by = r
        /\ row.thread = req[r].thread /\ row.role = "user" /\ row.visible
    BY <1>3
  <2> HIDE DEF q, row
  <2>5. Flushed(r, q, row)
    BY <1>1, <1>5, <2>1, <2>2, <2>3, <2>4 DEF Flushed, Move, PrepareStream
  <2> QED BY <2>5, FlushedInv
<1> QED BY <1>4, <1>5

LEMMA AnswerInv ==
  ASSUME ThreadInv, NEW r \in Requests,
         \/ Reply(r) \/ ReplyKeyed(r) \/ PersistReply(r)
         \/ Apologize(r)
  PROVE  ThreadInv'
<1>1. /\ req[r] \in Request /\ CommitReply(r) /\ UNCHANGED <<kind, stored, overlapped>>
      /\ req[r].pc \in {"asking", "persisting"} /\ req[r].parent <= Len(rows)
      /\ req[r].row <= Len(rows)
  BY Types DEF Reply, ReplyKeyed, PersistReply, Apologize
<1>2. billed' \subseteq Requests /\ faults' \in 0..MaxFaults
  <2>1. /\ billed \subseteq Requests /\ faults \in 0..MaxFaults /\ MaxFaults \in Nat
    BY ThreadBounds DEF ThreadInv, TypeOK
  <2> QED BY <2>1 DEF Reply, ReplyKeyed, PersistReply, Apologize, Fault
<1>3. Staged(r)
  BY DEF ThreadInv
<1>4. CASE ReplyKeyed(r)
  <2> DEFINE q == [req[r] EXCEPT !.pc = "storing", !.new = FALSE]
  <2>1. /\ req' = [req EXCEPT ![r] = q] /\ Keyed(req[r].op) /\ raced' = raced
    BY <1>4 DEF ReplyKeyed
  <2>2. q \in Request
    BY <1>1 DEF Request
  <2>3. /\ q.pc = "storing" /\ q.op = req[r].op /\ q.parent = req[r].parent
        /\ q.row = req[r].row /\ q.thread = req[r].thread /\ ~q.new
    BY <1>1 DEF Request
  <2> HIDE DEF q
  <2>4. Answered(r, q)
    BY <1>1, <1>2, <2>1, <2>2, <2>3 DEF Answered, Move
  <2> QED BY <2>4, AnsweredInv
<1>5. CASE ~ReplyKeyed(r)
  <2>1. PICK q : /\ End(r) = [req EXCEPT ![r] = q] /\ q \in Request
                 /\ q.pc = "over" /\ q.op = req[r].op /\ ~q.new
                 /\ q.parent <= Len(rows) /\ q.row <= Len(rows)
    BY EndMoves
  <2>2. Move(r, q)
    BY <1>5, <2>1 DEF Reply, PersistReply, Apologize, Move
  <2>3. /\ raced' \in {raced, raced \cup {KeyOf[r]}}
        /\ Keyed(req[r].op) => KeyOf[r] \in raced'
    <3>1. CASE Reply(r)
      BY <3>1 DEF Reply
    <3>2. CASE PersistReply(r)
      <4>1. req[r].op = "stream" /\ raced' = raced
        BY <1>3, <3>2 DEF PersistReply, Staged
      <4> QED BY <4>1 DEF Keyed
    <3>3. CASE Apologize(r)
      BY <3>3 DEF Apologize
    <3> QED BY <1>5, <3>1, <3>2, <3>3
  <2>4. Answered(r, q)
    BY <1>1, <1>2, <2>1, <2>2, <2>3 DEF Answered
  <2> QED BY <2>4, AnsweredInv
<1> QED BY <1>4, <1>5

\* Disconnect ends the request and notes what was cut.
LEMMA EndInv ==
  ASSUME ThreadInv, NEW r \in Requests,
         \/ Switch(r) \/ StoreKey(r) \/ Rollback(r) \/ CutStream(r) \/ Disconnect(r)
         \/ ModelFails(r)
  PROVE  ThreadInv'
<1>1. PICK q : /\ End(r) = [req EXCEPT ![r] = q] /\ q \in Request
               /\ q.pc = "over" /\ q.op = req[r].op /\ ~q.new
               /\ q.parent <= Len(rows) /\ q.row <= Len(rows)
  BY EndMoves
<1>2. /\ InFlight(r) /\ UNCHANGED <<kind, rows, thread, overlapped>>
      /\ \/ leaf' = leaf
         \/ req[r].pc = "switching" /\ leaf' = [leaf EXCEPT ![req[r].thread] = req[r].row]
      /\ \/ stored' = stored
         \/ req[r].pc = "storing" /\ stored' = stored \cup {KeyOf[r]}
      /\ raced' \in {raced, raced \cup {KeyOf[r]}}
      /\ req[r].pc = "storing" => KeyOf[r] \in stored' \cup raced'
  BY DEF Switch, StoreKey, Rollback, CutStream, Disconnect, ModelFails, InFlight
<1>3. billed' \subseteq Requests /\ faults' \in 0..MaxFaults
  <2>1. /\ billed \subseteq Requests /\ faults \in 0..MaxFaults /\ MaxFaults \in Nat
    BY ThreadBounds DEF ThreadInv, TypeOK
  <2> QED BY <2>1 DEF Switch, StoreKey, Rollback, CutStream, Disconnect, ModelFails, Fault
<1>4. CASE ~Disconnect(r)
  <2>1. req' = End(r)
    BY <1>4 DEF Switch, StoreKey, Rollback, CutStream, ModelFails
  <2>2. Ended(r, q)
    BY <1>1, <1>2, <1>3, <2>1 DEF Ended, Move
  <2> QED BY <2>2, EndedInv
<1>5. CASE Disconnect(r)
  <2> DEFINE d == [q EXCEPT !.cut = (req[r].pc = "persisting")]
  <2>1. req' = [End(r) EXCEPT ![r].cut = (req[r].pc = "persisting")]
    BY <1>5 DEF Disconnect
  <2>2. req' = [req EXCEPT ![r] = d]
    <3>1. req \in [Requests -> Request]
      BY DEF ThreadInv, TypeOK
    <3> QED BY <1>1, <2>1, <3>1
  <2>3. d \in Request
    BY <1>1 DEF Request
  <2>4. /\ d.pc = "over" /\ d.op = req[r].op /\ ~d.new
        /\ d.parent <= Len(rows) /\ d.row <= Len(rows)
    BY <1>1 DEF Request
  <2> HIDE DEF d
  <2>5. Ended(r, d)
    BY <1>2, <1>3, <2>2, <2>3, <2>4 DEF Ended, Move
  <2> QED BY <2>5, EndedInv
<1> QED BY <1>4, <1>5

LEMMA StreamInv ==
  ASSUME ThreadInv, NEW r \in Requests, StartStream(r) \/ LastToken(r)
  PROVE  ThreadInv'
<1>1. /\ req[r] \in Request /\ req[r].pc \in {"prepared", "streaming"}
      /\ UNCHANGED <<kind, rows, thread, leaf, stored, billed, faults, raced, overlapped>>
  BY Types DEF StartStream, LastToken
<1>2. PICK pc \in {"streaming", "persisting"} :
        req' = [req EXCEPT ![r] = [req[r] EXCEPT !.pc = pc]]
  BY DEF StartStream, LastToken
<1> DEFINE q == [req[r] EXCEPT !.pc = pc]
<1>3. /\ q \in Request /\ q.pc = pc /\ q.op = req[r].op /\ q.parent = req[r].parent
      /\ q.row = req[r].row /\ q.thread = req[r].thread /\ q.new = req[r].new
  BY <1>1 DEF Request
<1>4. req' = [req EXCEPT ![r] = q]
  BY <1>2
<1> HIDE DEF q
<1>5. Advanced(r, q)
  BY <1>1, <1>3, <1>4 DEF Advanced, Move
<1> QED BY <1>5, AdvancedInv

(***************************************************************************)
(* The theorems.                                                           *)
(***************************************************************************)

LEMMA ThreadInit ==
  ASSUME Init
  PROVE  ThreadInv
<1>1. /\ kind \in Kinds /\ thread \in {Given, NoThread} /\ rows = <<>>
      /\ leaf = [h \in Threads |-> 0] /\ req = [r \in Requests |-> NoRequest]
      /\ stored = {} /\ billed = {} /\ faults = 0 /\ raced = {} /\ overlapped = FALSE
  BY DEF Init, NoRow
<1>2. /\ NoRequest \in Request /\ NoRequest.pc = "idle" /\ ~NoRequest.new
      /\ NoRequest.parent = 0 /\ NoRequest.row = 0
  BY DEF NoRequest, NoRow, Request, Ops
<1>3. \A r \in Requests : req[r] = NoRequest
  BY <1>1
<1>4. rows \in Seq(Rows) /\ Len(rows) = 0 /\ DOMAIN rows = {}
  BY <1>1
<1>5. TypeOK
  <2>1. leaf \in [Threads -> 0..Len(rows)] /\ thread \in Threads \cup {NoThread}
    BY <1>1, <1>4 DEF Threads
  <2>2. req \in [Requests -> Request]
    BY <1>1, <1>2
  <2>3. faults \in 0..MaxFaults
    BY <1>1, ThreadBounds
  <2> QED BY <1>1, <1>4, <2>1, <2>2, <2>3 DEF TypeOK
<1>6. VisibleRows(rows) = {} /\ \A m : Children(rows, m) = {}
  BY <1>4 DEF VisibleRows, Children
<1>7. PointsBack /\ OneQuestion /\ WholeTurns /\ KeyedOnce /\ AloneNothingHidden
  BY <1>2, <1>3, <1>4, <1>6
     DEF PointsBack, OneQuestion, WholeTurns, KeyedOnce, AloneNothingHidden
<1>8. ASSUME NEW r \in Requests PROVE Staged(r) /\ Keys(r) /\ OneAtATime(r)
  <2>1. RowsBy(r) = {}
    BY <1>4 DEF RowsBy
  <2> QED BY <1>2, <1>3, <1>6, <2>1 DEF Staged, Keys, OneAtATime, InFlight
<1> QED BY <1>5, <1>7, <1>8 DEF ThreadInv

LEMMA ThreadStep ==
  ASSUME ThreadInv, [Next]_vars
  PROVE  ThreadInv'
<1>1. ASSUME NEW r \in Requests,
             \/ AnswerStored(r) \/ ClaimThread(r)
             \/ \E op \in {"send", "stream", "plain"} : Send(r, op)
             \/ \E m \in DOMAIN rows : Edit(r, m) \/ Retry(r, m) \/ Activate(r, m)
      PROVE  ThreadInv'
  BY <1>1, AnswerStoredInv, ClaimThreadInv, SendInv, TargetInv
<1>2. ASSUME NEW r \in Requests,
             \/ Switch(r) \/ FlushUser(r) \/ PrepareStream(r)
             \/ Reply(r) \/ ReplyKeyed(r) \/ StoreKey(r)
             \/ Apologize(r) \/ ModelFails(r) \/ Rollback(r)
             \/ StartStream(r) \/ LastToken(r) \/ PersistReply(r)
             \/ CutStream(r) \/ Disconnect(r)
      PROVE  ThreadInv'
  BY <1>2, FlushInv, AnswerInv, EndInv, StreamInv
<1>3. CASE Crash
  BY <1>3, CrashInv
<1>4. CASE UNCHANGED vars
  BY <1>4 DEF vars, ThreadInv, TypeOK, PointsBack, OneQuestion, WholeTurns, KeyedOnce,
              AloneNothingHidden, Staged, Keys, OneAtATime, RowsBy, Keyed, InFlight,
              VisibleRows, Children
<1> QED BY <1>1, <1>2, <1>3, <1>4 DEF Next

\* The invariant of the chats that answer inside the request.
THEOREM ThreadInvariantHolds == Spec => []ThreadInv
<1> QED BY ThreadInit, ThreadStep, PTL DEF Spec

\* The state keeps its shape: the rows, the leaf of each thread and the requests
\* of both chats are what the handlers expect to find.
THEOREM ThreadTypes == Spec => []TypeOK
<1>1. ThreadInv => TypeOK
  BY DEF ThreadInv
<1> QED BY <1>1, ThreadInvariantHolds, PTL

\* A turn that does not stream is in the thread with its reply or not at all,
\* whichever await of send_message the failure or the crash hits, and whatever
\* other requests do to the same thread meanwhile.
THEOREM TurnsStayWhole == Spec => []WholeTurns
<1>1. ThreadInv => WholeTurns
  BY DEF ThreadInv
<1> QED BY <1>1, ThreadInvariantHolds, PTL

\* refinement_idempotency: two turns of one key are in the thread only if their
\* requests overlapped, the first was answered with an apology, or it died
\* between the commit of its reply and the commit of its result.
THEOREM KeysAreTakenOnce == Spec => []KeyedOnce
<1>1. ThreadInv => KeyedOnce
  BY DEF ThreadInv
<1> QED BY <1>1, ThreadInvariantHolds, PTL

\* A founder whose requests do not overlap sees every row of the chat, and the
\* active leaf ends a branch, the one set by activate_evidence_leaf among them.
THEOREM AloneNothingIsHidden == Spec => []AloneNothingHidden
<1>1. ThreadInv => AloneNothingHidden
  BY DEF ThreadInv
<1> QED BY <1>1, ThreadInvariantHolds, PTL

=============================================================================
