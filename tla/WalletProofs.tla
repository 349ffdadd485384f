---------------------------- MODULE WalletProofs ----------------------------
(***************************************************************************)
(* Theorems about WalletService, for every set of users, coupons, orders   *)
(* and concurrent requests.                                                *)
(***************************************************************************)
EXTENDS WalletService, SequenceTheorems, FiniteSetTheorems, SumTheorems, TLAPS

USE WalletAssumption

(* How the session part of the state changes at the end of a request.      *)
LEMMA EndTypes ==
  ASSUME TypeOK, NEW s \in Sessions, End(s)
  PROVE  /\ lock' \in [Rows -> Sessions \cup {None}]
         /\ pc' \in [Sessions -> Places]
         /\ req' \in [Sessions -> Request]
         /\ snap' \in [Sessions -> WalletRow \cup {None}]
         /\ clock' = clock
  BY DEF TypeOK, End, Goto, ReleaseAll, Request, NoRequest, Places

LEMMA EndFrame ==
  ASSUME TypeOK, NEW s \in Sessions, End(s)
  PROVE  /\ pc'[s] = "idle"
         /\ snap'[s] = None
         /\ \A t \in Sessions \ {s} :
              pc'[t] = pc[t] /\ req'[t] = req[t] /\ snap'[t] = snap[t]
         /\ \A r \in Rows : lock[r] # s => lock'[r] = lock[r]
  BY DEF TypeOK, End, Goto, ReleaseAll

(* A session that a step leaves alone stays as the invariant wants it.     *)
LEMMA OthersAskedRight ==
  ASSUME NEW s \in Sessions, NEW t \in Sessions \ {s}, AskedRight(t),
         pc'[t] = pc[t], req'[t] = req[t]
  PROVE  AskedRight(t)'
  BY DEF AskedRight, User

LEMMA OthersReadsCurrent ==
  ASSUME NEW s \in Sessions, NEW t \in Sessions \ {s},
         AskedRight(t), ReadsCurrent(t),
         pc'[t] = pc[t], req'[t] = req[t], snap'[t] = snap[t],
         \A r \in Rows : lock[r] \notin {s, None} => lock'[r] = lock[r],
         \A u \in Users : lock[u] \notin {s, None} => wallet'[u] = wallet[u]
  PROVE  ReadsCurrent(t)'
<1> SUFFICES ASSUME pc[t] = "post" \/ (pc[t] = "gateway" /\ snap[t] # None)
             PROVE  lock'[User(t)] = t /\ snap'[t] = Current(User(t))'
  BY DEF ReadsCurrent, User
<1>1. User(t) \in Users /\ lock[User(t)] = t /\ snap[t] = Current(User(t))
  BY DEF AskedRight, ReadsCurrent
<1>2. t \notin {s, None}
  BY WalletAssumption
<1> QED BY <1>1, <1>2 DEF Rows, Current, User

(* What a step of session s must leave alone.                              *)
Frame(s) ==
  /\ \A t \in Sessions \ {s} :
       pc'[t] = pc[t] /\ req'[t] = req[t] /\ snap'[t] = snap[t]
  /\ \A r \in Rows : lock[r] \notin {s, None} => lock'[r] = lock[r]
  /\ \A u \in Users : lock[u] \notin {s, None} => wallet'[u] = wallet[u]

LEMMA StepInv ==
  ASSUME WalletInv, NEW s \in Sessions,
         TypeOK', Frame(s), AskedRight(s)', ReadsCurrent(s)'
  PROVE  WalletInv'
<1>1. WellFormed /\ ReadsAreCurrent
  BY DEF WalletInv
<1>2. WellFormed'
  BY <1>1, OthersAskedRight DEF WellFormed, Frame
<1>3. ReadsAreCurrent'
  BY <1>1, OthersReadsCurrent DEF WellFormed, ReadsAreCurrent, Frame
<1> QED BY <1>2, <1>3 DEF WalletInv

LEMMA RefuseInv ==
  ASSUME WalletInv, NEW s \in Sessions, Refuse(s)
  PROVE  WalletInv'
<1>1. TypeOK /\ End(s)
  BY DEF WalletInv, Refuse
<1>2. TypeOK'
  <2>1. UNCHANGED tables
    BY DEF Refuse
  <2> QED BY <1>1, <2>1, EndTypes DEF tables, TypeOK
<1>3. Frame(s)
  BY <1>1, EndFrame DEF Frame, Refuse, tables
<1>4. AskedRight(s)' /\ ReadsCurrent(s)'
  BY <1>1, EndFrame DEF AskedRight, ReadsCurrent
<1> QED BY <1>2, <1>3, <1>4, StepInv

(* A request arrives.                                                      *)
LEMMA StartInv ==
  ASSUME WalletInv, NEW s \in Sessions, NEW r \in Request, NEW where,
         Start(s, r, where),
         \/ where = "wallet" /\ r.op = "order" /\ r.user \in Users
         \/ /\ where = "experiment" /\ r.op = "debit"
            /\ r.experiment \in Experiments /\ r.user = OwnerOf[r.experiment]
         \/ /\ where = "coupon" /\ r.op = "redeem"
            /\ r.user \in Users /\ r.coupon \in Coupons
         \/ where = "erase" /\ r.op = "delete" /\ r.coupon \in Coupons
         \/ /\ where = "order" /\ r.op = "verify" /\ r.user \in Users
            /\ r.order \in Orders /\ r.payment \in Payments
  PROVE  WalletInv'
<1>1. TypeOK
  BY DEF WalletInv
<1>3. /\ pc' = [pc EXCEPT ![s] = where]
      /\ req' = [req EXCEPT ![s] = r]
      /\ UNCHANGED <<tables, lock, snap>>
      /\ clock' = clock + 1
  BY DEF Start, Goto
<1>4. TypeOK'
  <2>1. where \in Places
    BY DEF Places
  <2>2. pc' \in [Sessions -> Places]
    BY <1>1, <1>3, <2>1 DEF TypeOK
  <2>3. req' \in [Sessions -> Request]
    BY <1>1, <1>3 DEF TypeOK
  <2>4. clock' \in Nat
    BY <1>1, <1>3 DEF TypeOK
  <2> QED BY <1>1, <1>3, <2>2, <2>3, <2>4 DEF TypeOK, tables
<1>5. Frame(s)
  BY <1>1, <1>3 DEF Frame, TypeOK, tables
<1>6. AskedRight(s)'
  <2>1. pc'[s] = where /\ req'[s] = r
    BY <1>1, <1>3 DEF TypeOK
  <2> QED BY <2>1, ExperimentAssumption DEF AskedRight, User
<1>7. ReadsCurrent(s)'
  <2>1. pc[s] = "idle" /\ ReadsCurrent(s)
    BY DEF Start, WalletInv, ReadsAreCurrent
  <2> QED BY <1>1, <1>3, <2>1 DEF ReadsCurrent, TypeOK
<1> QED BY <1>4, <1>5, <1>6, <1>7, StepInv

(* A session moves on inside its transaction and writes nothing.           *)
LEMMA MoveInv ==
  ASSUME WalletInv, NEW s \in Sessions, UNCHANGED tables,
         NEW where \in Places, NEW r \in Request, NEW x \in WalletRow \cup {None},
         pc' = [pc EXCEPT ![s] = where], req' = [req EXCEPT ![s] = r],
         snap' = [snap EXCEPT ![s] = x],
         lock' = lock \/ (\E k \in Rows : Acquire(s, k)),
         clock' \in Nat,
         AskedRight(s)', ReadsCurrent(s)'
  PROVE  WalletInv'
<1>1. TypeOK
  BY DEF WalletInv
<1>2. lock' \in [Rows -> Sessions \cup {None}]
  BY <1>1 DEF TypeOK, Acquire
<1>3. /\ pc' \in [Sessions -> Places] /\ req' \in [Sessions -> Request]
      /\ snap' \in [Sessions -> WalletRow \cup {None}]
  BY <1>1 DEF TypeOK
<1>4. TypeOK'
  BY <1>1, <1>2, <1>3 DEF TypeOK, tables
<1>5. \A q \in Rows : lock[q] \notin {s, None} => lock'[q] = lock[q]
  BY <1>1 DEF TypeOK, Acquire
<1>6. Frame(s)
  BY <1>1, <1>5 DEF Frame, TypeOK, tables
<1> QED BY <1>4, <1>6, StepInv

LEMMA FindWalletInv ==
  ASSUME WalletInv, NEW s \in Sessions, FindWallet(s)
  PROVE  WalletInv'
<1>1. TypeOK /\ AskedRight(s) /\ ReadsCurrent(s) /\ pc[s] = "wallet"
  BY DEF WalletInv, WellFormed, ReadsAreCurrent, FindWallet
<1>2. User(s) \in Users /\ User(s) \in Rows
  BY <1>1 DEF AskedRight, Rows
<1>3. UNCHANGED <<tables, clock>> /\ req' = [req EXCEPT ![s] = req[s]]
  BY <1>1 DEF FindWallet, TypeOK
<1>4. clock' \in Nat /\ req[s] \in Request
  BY <1>1, <1>3 DEF TypeOK
<1>5. CASE wallet[User(s)] = None \/ req[s].op = "order"
  <2>1. PICK where \in {"insert", "gateway"} :
          /\ Goto(s, where) /\ UNCHANGED <<lock, snap>>
          /\ where = "gateway" => req[s].op = "order"
    BY <1>5 DEF FindWallet
  <2>2. snap' = [snap EXCEPT ![s] = snap[s]] /\ snap[s] \in WalletRow \cup {None}
    BY <1>1, <2>1 DEF TypeOK
  <2>3. AskedRight(s)' /\ ReadsCurrent(s)'
    <3>1. pc'[s] = where /\ req'[s] = req[s] /\ snap'[s] = None
      BY <1>1, <1>3, <2>1 DEF TypeOK, Goto, ReadsCurrent
    <3> QED BY <1>1, <2>1, <3>1 DEF AskedRight, ReadsCurrent, User
  <2>4. where \in Places
    BY DEF Places
  <2> QED BY <1>3, <1>4, <2>1, <2>2, <2>3, <2>4, MoveInv DEF Goto
<1>6. CASE wallet[User(s)] # None /\ req[s].op # "order"
  <2>1. /\ Acquire(s, User(s)) /\ Goto(s, "post")
        /\ snap' = [snap EXCEPT ![s] = wallet[User(s)]]
    BY <1>6 DEF FindWallet
  <2>2. wallet[User(s)] \in WalletRow \cup {None} /\ "post" \in Places
    BY <1>1, <1>2 DEF TypeOK, Places
  <2>3. AskedRight(s)' /\ ReadsCurrent(s)'
    <3>1. /\ pc'[s] = "post" /\ req'[s] = req[s] /\ snap'[s] = wallet[User(s)]
          /\ lock'[User(s)] = s /\ wallet' = wallet
      BY <1>1, <1>2, <1>3, <2>1 DEF TypeOK, Goto, Acquire, tables
    <3> QED BY <1>1, <1>6, <3>1 DEF AskedRight, ReadsCurrent, User, Current
  <2> QED BY <1>2, <1>3, <1>4, <2>1, <2>2, <2>3, MoveInv DEF Goto
<1> QED BY <1>5, <1>6

LEMMA InsertWalletInv ==
  ASSUME WalletInv, NEW s \in Sessions, InsertWallet(s)
  PROVE  WalletInv'
<1>1. TypeOK /\ AskedRight(s) /\ pc[s] = "insert"
  BY DEF WalletInv, WellFormed, InsertWallet
<1>2. User(s) \in Users /\ User(s) \in Rows
  BY <1>1 DEF AskedRight, Rows
<1>3. CASE Refuse(s)
  BY <1>3, RefuseInv
<1>4. CASE wallet[User(s)] = None /\ ~Refuse(s)
  <2>1. PICK where \in {"post", "gateway"} :
          /\ Acquire(s, User(s)) /\ Goto(s, where)
          /\ snap' = [snap EXCEPT ![s] = NewWallet]
          /\ UNCHANGED <<tables, req, clock>>
          /\ where = IF req[s].op = "order" THEN "gateway" ELSE "post"
    BY <1>4 DEF InsertWallet
  <2>2. req' = [req EXCEPT ![s] = req[s]] /\ req[s] \in Request
    BY <1>1, <2>1 DEF TypeOK
  <2>3. clock' \in Nat
    BY <1>1, <2>1 DEF TypeOK
  <2>4. NewWallet \in WalletRow \cup {None} /\ where \in Places
    BY DEF NewWallet, WalletRow, Places
  <2>5. AskedRight(s)' /\ ReadsCurrent(s)'
    <3>1. /\ pc'[s] = where /\ req'[s] = req[s] /\ snap'[s] = NewWallet
          /\ lock'[User(s)] = s /\ wallet' = wallet
      BY <1>1, <1>2, <2>1 DEF TypeOK, Goto, Acquire, tables
    <3> QED BY <1>1, <1>4, <2>1, <3>1 DEF AskedRight, ReadsCurrent, User, Current
  <2> QED BY <1>2, <2>1, <2>2, <2>3, <2>4, <2>5, MoveInv DEF Goto
<1> QED BY <1>3, <1>4 DEF InsertWallet

(* Locking an experiment, a coupon or an order, and the checks made under  *)
(* the lock.                                                               *)
LEMMA CheckInv ==
  ASSUME WalletInv, NEW s \in Sessions,
         \/ LockExperiment(s) \/ LockCoupon(s) \/ CheckCoupon(s)
         \/ LockOrder(s) \/ CheckPayment(s)
  PROVE  WalletInv'
<1>1. /\ TypeOK /\ AskedRight(s) /\ ReadsCurrent(s)
      /\ pc[s] \in {"experiment", "coupon", "check coupon", "order", "check payment"}
  BY DEF WalletInv, WellFormed, ReadsAreCurrent, LockExperiment, LockCoupon,
     CheckCoupon, LockOrder, CheckPayment
<1>2. req[s].op = "redeem" => req[s].coupon \in Rows
  BY <1>1 DEF AskedRight, Rows
<1>3. req[s].op = "verify" => req[s].order \in Rows
  BY <1>1 DEF AskedRight, Rows
<1>6. req[s].op \in {"debit", "refund"} => req[s].experiment \in Rows
  BY <1>1 DEF AskedRight, Rows
<1>4. CASE Refuse(s)
  BY <1>4, RefuseInv
<1>5. CASE ~Refuse(s)
  <2>1. PICK where \in {"check coupon", "check payment", "wallet"} :
          /\ Goto(s, where) /\ UNCHANGED <<tables, req, snap, clock>>
          /\ lock' = lock \/ (\E k \in Rows : Acquire(s, k))
          /\ where = "check coupon" => req[s].op = "redeem"
          /\ where = "check payment" => req[s].op = "verify"
    BY <1>1, <1>2, <1>3, <1>5, <1>6 DEF AskedRight, LockExperiment, LockCoupon,
       CheckCoupon, LockOrder, CheckPayment
  <2>2. /\ req' = [req EXCEPT ![s] = req[s]] /\ req[s] \in Request
        /\ snap' = [snap EXCEPT ![s] = snap[s]] /\ snap[s] \in WalletRow \cup {None}
    BY <1>1, <2>1 DEF TypeOK
  <2>3. clock' \in Nat
    BY <1>1, <2>1 DEF TypeOK
  <2>4. where \in Places
    BY DEF Places
  <2>5. AskedRight(s)' /\ ReadsCurrent(s)'
    <3>1. pc'[s] = where /\ req'[s] = req[s] /\ snap'[s] = None
      BY <1>1, <2>1 DEF TypeOK, Goto, ReadsCurrent
    <3> QED BY <1>1, <2>1, <3>1 DEF AskedRight, ReadsCurrent, User
  <2> QED BY <2>1, <2>2, <2>3, <2>4, <2>5, MoveInv DEF Goto
<1> QED BY <1>4, <1>5

LEMMA StartRefundInv ==
  ASSUME WalletInv, NEW s \in Sessions, StartRefund(s)
  PROVE  WalletInv'
<1>1. TypeOK /\ AskedRight(s) /\ ReadsCurrent(s) /\ pc[s] = "charged"
  BY DEF WalletInv, WellFormed, ReadsAreCurrent, StartRefund
<1> DEFINE r == [req[s] EXCEPT !.op = "refund"]
<1>2. r \in Request /\ req' = [req EXCEPT ![s] = r]
  <2>1. req[s] \in Request
    BY <1>1 DEF TypeOK
  <2> QED BY <1>1, <2>1 DEF StartRefund, Request, TypeOK
<1>6. PICK first \in {"experiment", "wallet"} : Goto(s, first)
  BY DEF StartRefund
<1>3. /\ Goto(s, first) /\ UNCHANGED tables /\ lock' = lock
      /\ snap' = [snap EXCEPT ![s] = snap[s]] /\ snap[s] \in WalletRow \cup {None}
  BY <1>1, <1>6 DEF StartRefund, TypeOK
<1>4. clock' \in Nat /\ first \in Places
  <2>1. clock' = clock + 1
    BY DEF StartRefund
  <2>2. clock' \in Nat
    BY <1>1, <2>1 DEF TypeOK
  <2> QED BY <2>2 DEF Places
<1>5. AskedRight(s)' /\ ReadsCurrent(s)'
  <2>1. /\ pc'[s] = first /\ req'[s].op = "refund" /\ req'[s].user = req[s].user
        /\ req'[s].experiment = req[s].experiment /\ snap'[s] = None
    <3>1. req[s] \in Request /\ req'[s] = r
      BY <1>1, <1>2 DEF TypeOK
    <3> QED BY <1>1, <1>3, <3>1 DEF TypeOK, Goto, ReadsCurrent, Request
  <2> QED BY <1>1, <2>1 DEF AskedRight, ReadsCurrent, User
<1> HIDE DEF r
<1> QED BY <1>2, <1>3, <1>4, <1>5, MoveInv DEF Goto

(***************************************************************************)
(* Commits.                                                                *)
(***************************************************************************)
LEMMA WriteTypes ==
  ASSUME TypeOK, NEW u \in Users, NEW w \in WalletRow, NEW es \in Seq(LedgerRow),
         Write(u, w, es)
  PROVE  /\ wallet' \in [Users -> WalletRow \cup {None}]
         /\ ledger' \in [Users -> Seq(LedgerRow)]
         /\ \A v \in Users \ {u} : wallet'[v] = wallet[v]
<1>1. ledger[u] \o es \in Seq(LedgerRow)
  BY ConcatProperties DEF TypeOK
<1> QED BY <1>1 DEF TypeOK, Write

LEMMA BalanceUpdate ==
  ASSUME NEW w \in WalletRow, NEW b \in Nat, NEW k \in Nat
  PROVE  /\ [w EXCEPT !.balance = b, !.consumed = k] \in WalletRow
         /\ [w EXCEPT !.balance = b, !.purchased = k] \in WalletRow
  BY DEF WalletRow

(* A session that commits a wallet row ends: the others did not read it.   *)
LEMMA CommitInv ==
  ASSUME WalletInv, NEW s \in Sessions, pc[s] = "post",
         NEW w \in WalletRow, NEW es \in Seq(LedgerRow),
         Write(User(s), w, es), End(s),
         coupon' \in [Coupons -> CouponRow \cup {None}],
         redeemed' \in [Coupons -> SUBSET Users], welcomed' \in [Users -> BOOLEAN],
         order' \in [Orders -> OrderRow \cup {None}], webhooks' \in SUBSET Payments
  PROVE  WalletInv'
<1>1. TypeOK /\ User(s) \in Users /\ lock[User(s)] = s
  BY DEF WalletInv, WellFormed, AskedRight, ReadsAreCurrent, ReadsCurrent
<1>2. TypeOK'
  <2>1. /\ wallet' \in [Users -> WalletRow \cup {None}]
        /\ ledger' \in [Users -> Seq(LedgerRow)]
    BY <1>1, WriteTypes
  <2> QED BY <1>1, <2>1, EndTypes DEF TypeOK
<1>3. Frame(s)
  <2>1. \A v \in Users \ {User(s)} : wallet'[v] = wallet[v]
    BY <1>1, WriteTypes
  <2> QED BY <1>1, <2>1, EndFrame DEF Frame
<1>4. AskedRight(s)' /\ ReadsCurrent(s)'
  BY <1>1, EndFrame DEF AskedRight, ReadsCurrent
<1> QED BY <1>2, <1>3, <1>4, StepInv

(* What a session that is about to write knows.                            *)
LEMMA AtPost ==
  ASSUME WalletInv, NEW s \in Sessions, pc[s] = "post"
  PROVE  /\ TypeOK /\ AskedRight(s) /\ User(s) \in Users
         /\ lock[User(s)] = s /\ snap[s] = Current(User(s)) /\ snap[s] \in WalletRow
         /\ req[s] \in Request
<1>1. /\ TypeOK /\ AskedRight(s) /\ User(s) \in Users
      /\ lock[User(s)] = s /\ snap[s] = Current(User(s))
  BY DEF WalletInv, WellFormed, AskedRight, ReadsAreCurrent, ReadsCurrent
<1>2. snap[s] \in WalletRow
  BY <1>1 DEF TypeOK, Current, NewWallet, WalletRow
<1> QED BY <1>1, <1>2 DEF TypeOK

LEMMA RowType ==
  ASSUME NEW type \in {"topup", "bonus", "coupon", "usage", "refund"},
         NEW credits \in Int, NEW ref \in Coupons \cup Payments \cup {None}
  PROVE  Row(type, credits, ref) \in LedgerRow
  BY DEF Row, LedgerRow

LEMMA DebitInv ==
  ASSUME WalletInv, NEW s \in Sessions, DebitCredits(s)
  PROVE  WalletInv'
<1>0. pc[s] = "post" /\ req[s].op = "debit"
  BY DEF DebitCredits
<1> DEFINE a == req[s].amount
           w == [snap[s] EXCEPT !.balance = @ - a, !.consumed = @ + a]
           es == <<Row("usage", -a, None)>>
<1>1. /\ TypeOK /\ AskedRight(s) /\ User(s) \in Users /\ lock[User(s)] = s
      /\ snap[s] \in WalletRow /\ a \in Nat
  BY <1>0, AtPost DEF Request
<1>2. CASE snap[s].balance < a
  BY <1>2, RefuseInv DEF DebitCredits
<1>3. CASE ~(snap[s].balance < a)
  <2>1. /\ Write(User(s), w, es) /\ Goto(s, "charged") /\ ReleaseAll(s)
        /\ snap' = [snap EXCEPT ![s] = None]
        /\ UNCHANGED <<coupon, redeemed, welcomed, order, webhooks, req, clock>>
    BY <1>3 DEF DebitCredits
  <2>2. w \in WalletRow
    <3>1. snap[s].balance - a \in Nat /\ snap[s].consumed + a \in Nat
      BY <1>1, <1>3 DEF WalletRow
    <3> QED BY <1>1, <3>1, BalanceUpdate
  <2>3. es \in Seq(LedgerRow)
    <3>1. Row("usage", -a, None) \in LedgerRow
      BY <1>1, RowType
    <3> QED BY <3>1
  <2> HIDE DEF w, es
  <2>4. /\ wallet' \in [Users -> WalletRow \cup {None}]
        /\ ledger' \in [Users -> Seq(LedgerRow)]
        /\ \A v \in Users \ {User(s)} : wallet'[v] = wallet[v]
    BY <1>1, <2>1, <2>2, <2>3, WriteTypes
  <2>5. /\ lock' \in [Rows -> Sessions \cup {None}]
        /\ \A r \in Rows : lock[r] # s => lock'[r] = lock[r]
    BY <1>1, <2>1 DEF ReleaseAll, TypeOK
  <2>6. /\ pc' \in [Sessions -> Places]
        /\ snap' \in [Sessions -> WalletRow \cup {None}]
        /\ pc'[s] = "charged" /\ snap'[s] = None
        /\ \A t \in Sessions \ {s} : pc'[t] = pc[t] /\ snap'[t] = snap[t]
    BY <1>1, <2>1 DEF Goto, TypeOK, Places
  <2>7. TypeOK'
    BY <1>1, <2>1, <2>4, <2>5, <2>6 DEF TypeOK
  <2>8. Frame(s)
    BY <1>1, <2>1, <2>4, <2>5, <2>6 DEF Frame
  <2>9. AskedRight(s)' /\ ReadsCurrent(s)'
    BY <1>0, <1>1, <2>1, <2>6 DEF AskedRight, ReadsCurrent, User
  <2> QED BY <2>7, <2>8, <2>9, StepInv
<1> QED BY <1>2, <1>3

LEMMA RefundInv ==
  ASSUME WalletInv, NEW s \in Sessions, RefundCredits(s)
  PROVE  WalletInv'
<1>0. pc[s] = "post"
  BY DEF RefundCredits
<1> DEFINE a == req[s].amount
           w == [snap[s] EXCEPT !.balance = @ + a,
                                !.consumed = IF @ >= a THEN @ - a ELSE @]
           es == <<Row("refund", a, None)>>
<1>1. TypeOK /\ snap[s] \in WalletRow /\ a \in Nat
  BY <1>0, AtPost DEF Request
<1>2. Write(User(s), w, es) /\ End(s)
      /\ UNCHANGED <<coupon, redeemed, welcomed, order, webhooks>>
  BY DEF RefundCredits
<1>3. w \in WalletRow
  <2>1. /\ snap[s].balance + a \in Nat
        /\ (IF snap[s].consumed >= a THEN snap[s].consumed - a ELSE snap[s].consumed) \in Nat
    BY <1>1 DEF WalletRow
  <2> QED BY <1>1, <2>1, BalanceUpdate
<1>4. es \in Seq(LedgerRow)
  <2>1. Row("refund", a, None) \in LedgerRow
    BY <1>1, RowType
  <2> QED BY <2>1
<1> HIDE DEF w, es
<1> QED BY <1>0, <1>1, <1>2, <1>3, <1>4, CommitInv DEF TypeOK

LEMMA RedeemInv ==
  ASSUME WalletInv, NEW s \in Sessions, RedeemCoupon(s)
  PROVE  WalletInv'
<1>0. pc[s] = "post" /\ req[s].op = "redeem"
  BY DEF RedeemCoupon
<1> DEFINE c == req[s].coupon
           k == coupon[c].credits
           w == [snap[s] EXCEPT !.balance = @ + k, !.purchased = @ + k]
           es == <<Row("coupon", k, c)>>
<1>1. /\ TypeOK /\ AskedRight(s) /\ User(s) \in Users
      /\ snap[s] \in WalletRow
  BY <1>0, AtPost
<1>2. c \in Coupons
  BY <1>0, <1>1 DEF AskedRight
<1>3. CASE coupon[c] = None \/ User(s) \in redeemed[c]
  BY <1>3, RefuseInv DEF RedeemCoupon
<1>4. CASE ~(coupon[c] = None \/ User(s) \in redeemed[c])
  <2>1. /\ Write(User(s), w, es) /\ End(s)
        /\ redeemed' = [redeemed EXCEPT ![c] = @ \cup {User(s)}]
        /\ welcomed' = [welcomed EXCEPT ![User(s)] = @ \/ c = Welcome]
        /\ UNCHANGED <<coupon, order, webhooks>>
    BY <1>4 DEF RedeemCoupon
  <2>2. k \in Nat
    BY <1>1, <1>2, <1>4 DEF TypeOK, CouponRow
  <2>3. w \in WalletRow
    <3>1. snap[s].balance + k \in Nat /\ snap[s].purchased + k \in Nat
      BY <1>1, <2>2 DEF WalletRow
    <3> QED BY <1>1, <3>1, BalanceUpdate
  <2>4. es \in Seq(LedgerRow)
    <3>1. Row("coupon", k, c) \in LedgerRow
      BY <1>1, <1>2, <2>2, RowType
    <3> QED BY <3>1
  <2>5. redeemed' \in [Coupons -> SUBSET Users] /\ welcomed' \in [Users -> BOOLEAN]
    BY <1>1, <1>2, <2>1 DEF TypeOK
  <2> HIDE DEF w, es
  <2> QED BY <1>0, <1>1, <2>1, <2>3, <2>4, <2>5, CommitInv DEF TypeOK
<1> QED BY <1>3, <1>4

LEMMA PackRowsType ==
  ASSUME NEW s \in Sessions, req[s].payment \in Payments
  PROVE  /\ PackRows(s) \in Seq(LedgerRow) /\ Len(PackRows(s)) \in 1..2
         /\ Len(PackRows(s)) = 1 => PackRows(s)[1].credits = PackBase + PackBonus
         /\ Len(PackRows(s)) = 2 =>
              PackRows(s)[1].credits + PackRows(s)[2].credits = PackBase + PackBonus
<1> DEFINE e == Row("topup", PackBase, req[s].payment)
           f == Row("bonus", PackBonus, req[s].payment)
<1>1. e \in LedgerRow /\ f \in LedgerRow
  BY WalletAssumption DEF Row, LedgerRow
<1>2. e.credits = PackBase /\ f.credits = PackBonus /\ PackBase \in Nat /\ PackBonus \in Nat
  BY WalletAssumption DEF Row
<1>3. PackRows(s) = IF PackBonus > 0 THEN <<e, f>> ELSE <<e>>
  BY DEF PackRows
<1> HIDE DEF e, f
<1> QED BY <1>1, <1>2, <1>3

LEMMA FulfillInv ==
  ASSUME WalletInv, NEW s \in Sessions, FulfillPayment(s)
  PROVE  WalletInv'
<1>0. pc[s] = "post" /\ req[s].op = "verify"
  BY DEF FulfillPayment
<1> DEFINE o == req[s].order
           p == req[s].payment
           w == [snap[s] EXCEPT !.balance = @ + PackBase + PackBonus,
                                !.purchased = @ + PackBase + PackBonus]
<1>1. /\ TypeOK /\ AskedRight(s) /\ User(s) \in Users
      /\ snap[s] \in WalletRow
  BY <1>0, AtPost
<1>2. o \in Orders /\ p \in Payments
  BY <1>0, <1>1 DEF AskedRight
<1>3. CASE p \in webhooks
  BY <1>3, RefuseInv DEF FulfillPayment
<1>4. CASE p \notin webhooks
  <2>1. /\ Write(User(s), w, PackRows(s)) /\ End(s)
        /\ webhooks' = webhooks \cup {p}
        /\ order' = [order EXCEPT ![o] = [user |-> User(s), status |-> "PAID",
                                         payment |-> p]]
        /\ UNCHANGED <<coupon, redeemed, welcomed>>
    BY <1>4 DEF FulfillPayment
  <2>2. w \in WalletRow
    <3>1. /\ snap[s].balance + PackBase + PackBonus \in Nat
          /\ snap[s].purchased + PackBase + PackBonus \in Nat
      BY <1>1, WalletAssumption DEF WalletRow
    <3> QED BY <1>1, <3>1, BalanceUpdate
  <2>3. PackRows(s) \in Seq(LedgerRow)
    BY <1>1, <1>2, PackRowsType
  <2>4. order' \in [Orders -> OrderRow \cup {None}]
    <3>1. [user |-> User(s), status |-> "PAID", payment |-> p] \in OrderRow
      BY <1>1, <1>2 DEF OrderRow
    <3> QED BY <1>1, <1>2, <2>1, <3>1 DEF TypeOK
  <2>5. webhooks' \in SUBSET Payments
    BY <1>1, <1>2, <2>1 DEF TypeOK
  <2> HIDE DEF w
  <2> QED BY <1>0, <1>1, <2>1, <2>2, <2>3, <2>4, <2>5, CommitInv DEF TypeOK
<1> QED BY <1>3, <1>4

LEMMA PlaceOrderInv ==
  ASSUME WalletInv, NEW s \in Sessions, NEW o \in Orders, PlaceOrder(s, o)
  PROVE  WalletInv'
<1>1. TypeOK /\ AskedRight(s) /\ ReadsCurrent(s) /\ pc[s] = "gateway" /\ End(s)
  BY DEF WalletInv, WellFormed, ReadsAreCurrent, PlaceOrder
<1>2. User(s) \in Users
  BY <1>1 DEF AskedRight
<1>3. /\ wallet' = [wallet EXCEPT ![User(s)] = IF snap[s] = None THEN @ ELSE snap[s]]
      /\ UNCHANGED <<ledger, coupon, redeemed, welcomed, webhooks>>
  BY DEF PlaceOrder
<1>4. wallet' \in [Users -> WalletRow \cup {None}]
  BY <1>1, <1>3 DEF TypeOK
<1>5. order' \in [Orders -> OrderRow \cup {None}]
  <2>1. [user |-> User(s), status |-> "CREATED", payment |-> None] \in OrderRow
    BY <1>2 DEF OrderRow
  <2> QED BY <1>1, <2>1 DEF TypeOK, PlaceOrder
<1>6. TypeOK'
  BY <1>1, <1>3, <1>4, <1>5, EndTypes DEF TypeOK
<1>7. \A u \in Users : lock[u] \notin {s, None} => wallet'[u] = wallet[u]
  BY <1>1, <1>2, <1>3 DEF ReadsCurrent, TypeOK
<1>8. Frame(s)
  BY <1>1, <1>7, EndFrame DEF Frame
<1>9. AskedRight(s)' /\ ReadsCurrent(s)'
  BY <1>1, EndFrame DEF AskedRight, ReadsCurrent
<1> QED BY <1>6, <1>8, <1>9, StepInv

LEMMA DeleteInv ==
  ASSUME WalletInv, NEW s \in Sessions, DeleteCoupon(s)
  PROVE  WalletInv'
<1>1. TypeOK /\ End(s) /\ UNCHANGED <<wallet, ledger, welcomed, order, webhooks>>
  BY DEF WalletInv, DeleteCoupon
<1>2. /\ coupon' \in [Coupons -> CouponRow \cup {None}]
      /\ redeemed' \in [Coupons -> SUBSET Users]
  BY <1>1 DEF DeleteCoupon, TypeOK
<1>3. TypeOK'
  BY <1>1, <1>2, EndTypes DEF TypeOK
<1>4. Frame(s)
  BY <1>1, EndFrame DEF Frame
<1>5. AskedRight(s)' /\ ReadsCurrent(s)'
  BY <1>1, EndFrame DEF AskedRight, ReadsCurrent
<1> QED BY <1>3, <1>4, <1>5, StepInv

(* Administrators and time only touch coupon rows.                         *)
LEMMA AdministerInv ==
  ASSUME WalletInv, NEW c \in Coupons, Administer(c)
  PROVE  WalletInv'
<1>1. TypeOK /\ WellFormed /\ ReadsAreCurrent
  BY DEF WalletInv
<1>2. /\ UNCHANGED <<wallet, ledger, redeemed, welcomed, order, webhooks, lock, pc,
                     req, snap, clock>>
      /\ \E row \in CouponRow : coupon' = [coupon EXCEPT ![c] = row]
  <2>1. coupon[c] # None => coupon[c] \in CouponRow
    BY <1>1 DEF TypeOK
  <2>2. CASE CreateCoupon(c)
    BY <2>2, WalletAssumption DEF CreateCoupon, SetCoupon, CouponRow
  <2>3. CASE UpdateCoupon(c) \/ ArchiveCoupon(c) \/ RestoreCoupon(c)
    BY <2>1, <2>3, WalletAssumption DEF UpdateCoupon, ArchiveCoupon, RestoreCoupon,
       SetCoupon, CouponRow
  <2>4. CASE CouponWindow(c)
    BY <1>1, <2>1, <2>4 DEF CouponWindow, CouponRow, TypeOK
  <2> QED BY <2>2, <2>3, <2>4 DEF Administer
<1>3. TypeOK'
  BY <1>1, <1>2 DEF TypeOK
<1>4. WellFormed' /\ ReadsAreCurrent'
  BY <1>1, <1>2 DEF WellFormed, AskedRight, ReadsAreCurrent, ReadsCurrent, User, Current
<1> QED BY <1>3, <1>4 DEF WalletInv

LEMMA ArriveInv ==
  ASSUME WalletInv, NEW s \in Sessions, Arrive(s)
  PROVE  WalletInv'
<1>1. CASE \E e \in Experiments, a \in Prices : StartDebit(s, e, a)
  <2>1. PICK e \in Experiments, a \in Prices : StartDebit(s, e, a)
    BY <1>1
  <2>2. a \in Nat /\ OwnerOf[e] \in Users
    BY WalletAssumption, ExperimentAssumption
  <2>3. [NoRequest EXCEPT !.op = "debit", !.user = OwnerOf[e], !.experiment = e,
                          !.amount = a] \in Request
    BY <2>2 DEF NoRequest, Request
  <2> QED BY <2>1, <2>3, StartInv DEF StartDebit, NoRequest
<1>2. CASE \E u \in Users, c \in Coupons : StartRedeem(s, u, c)
  <2>1. PICK u \in Users, c \in Coupons : StartRedeem(s, u, c)
    BY <1>2
  <2>2. welcomed[u] \in BOOLEAN
    BY DEF WalletInv, TypeOK
  <2>3. [NoRequest EXCEPT !.op = "redeem", !.user = u, !.coupon = c,
                          !.flag = welcomed[u]] \in Request
    BY <2>2 DEF NoRequest, Request
  <2> QED BY <2>1, <2>3, StartInv DEF StartRedeem, NoRequest
<1>3. CASE \E u \in Users : StartOrder(s, u)
  <2>1. PICK u \in Users : StartOrder(s, u)
    BY <1>3
  <2>2. [NoRequest EXCEPT !.op = "order", !.user = u] \in Request
    BY DEF NoRequest, Request
  <2> QED BY <2>1, <2>2, StartInv DEF StartOrder, NoRequest
<1>4. CASE \E u \in Users, o \in Orders, p \in Payments : StartVerify(s, u, o, p)
  <2>1. PICK u \in Users, o \in Orders, p \in Payments : StartVerify(s, u, o, p)
    BY <1>4
  <2>2. [NoRequest EXCEPT !.op = "verify", !.user = u, !.order = o,
                          !.payment = p] \in Request
    BY DEF NoRequest, Request
  <2> QED BY <2>1, <2>2, StartInv DEF StartVerify, NoRequest
<1>5. CASE \E c \in Coupons : StartDelete(s, c)
  <2>1. PICK c \in Coupons : StartDelete(s, c)
    BY <1>5
  <2>2. [NoRequest EXCEPT !.op = "delete", !.coupon = c] \in Request
    BY DEF NoRequest, Request
  <2> QED BY <2>1, <2>2, StartInv DEF StartDelete, NoRequest
<1> QED BY <1>1, <1>2, <1>3, <1>4, <1>5 DEF Arrive

LEMMA WorkInv ==
  ASSUME WalletInv, NEW s \in Sessions, Work(s)
  PROVE  WalletInv'
<1>1. CASE Deliver(s) \/ GatewayFails(s) \/ Victim(s)
  BY <1>1, RefuseInv DEF Deliver, GatewayFails, Victim
<1> QED BY <1>1, FindWalletInv, InsertWalletInv, DebitInv, StartRefundInv, RefundInv,
       CheckInv, RedeemInv, DeleteInv, FulfillInv, PlaceOrderInv DEF Work

LEMMA NextInv ==
  ASSUME WalletInv, [Next]_vars
  PROVE  WalletInv'
<1>1. CASE UNCHANGED vars \/ Served
  <2>1. UNCHANGED vars
    BY <1>1 DEF Served
  <2>2. TypeOK' /\ WellFormed'
    BY <2>1 DEF WalletInv, vars, TypeOK, WellFormed, AskedRight, User
  <2>3. ReadsAreCurrent'
    BY <2>1 DEF WalletInv, vars, ReadsAreCurrent, ReadsCurrent, User, Current
  <2> QED BY <2>2, <2>3 DEF WalletInv
<1>2. CASE \E s \in Sessions : Rollback(s)
  BY <1>2, RefuseInv DEF Rollback
<1>3. CASE \E s \in Sessions : Work(s) \/ Arrive(s)
  BY <1>3, WorkInv, ArriveInv
<1>4. CASE \E c \in Coupons : Administer(c)
  BY <1>4, AdministerInv
<1> QED BY <1>1, <1>2, <1>3, <1>4 DEF Next

LEMMA InitInv == Init => WalletInv
<1> SUFFICES ASSUME Init PROVE WalletInv
  OBVIOUS
<1>1. TypeOK
  BY DEF Init, TypeOK, NoRequest, Request, Places
<1>2. WellFormed /\ ReadsAreCurrent
  BY DEF Init, WellFormed, AskedRight, ReadsAreCurrent, ReadsCurrent, Rows
<1> QED BY <1>1, <1>2 DEF WalletInv

(* Every row keeps its type; in particular no balance is ever negative and *)
(* no ledger row is malformed.                                             *)
THEOREM TypeCorrect == Spec => []TypeOK
<1>1. WalletInv => TypeOK
  BY DEF WalletInv
<1> QED BY <1>1, InitInv, NextInv, PTL DEF Spec

(* A session that is about to write a wallet row holds the row's lock and  *)
(* has read its committed values: no update is lost.                       *)
THEOREM NoStaleWrite == Spec => [](WellFormed /\ ReadsAreCurrent)
<1>1. WalletInv => WellFormed /\ ReadsAreCurrent
  BY DEF WalletInv
<1> QED BY <1>1, InitInv, NextInv, PTL DEF Spec

(***************************************************************************)
(* Refinement: every commit is one movement on one account.                *)
(***************************************************************************)
Balance == [u \in Users |-> IF wallet[u] = None THEN 0 ELSE wallet[u].balance]

LEMMA SuffixOfConcat ==
  ASSUME NEW S, NEW x \in Seq(S), NEW y \in Seq(S)
  PROVE  SubSeq(x \o y, Len(x) + 1, Len(x \o y)) = y
<1> DEFINE z == SubSeq(x \o y, Len(x) + 1, Len(x \o y))
<1>1. x \o y \in Seq(S) /\ Len(x \o y) = Len(x) + Len(y)
  BY ConcatProperties
<1>2. z \in Seq(S) /\ Len(z) = Len(y)
  BY <1>1
<1>3. \A i \in 1..Len(y) : z[i] = y[i]
  BY <1>1
<1> HIDE DEF z
<1>4. z = y
  BY <1>2, <1>3, SeqEqual
<1> QED BY <1>4 DEF z

LEMMA WritePosts ==
  ASSUME TypeOK, TypeOK', NEW u \in Users, NEW w \in WalletRow, NEW es \in Seq(LedgerRow),
         Len(es) \in 1..2, w.balance = Current(u).balance + Account!Net(es),
         Write(u, w, es)
  PROVE  Account!Post(u)
<1>1. ledger'[u] = ledger[u] \o es /\ ledger[u] \in Seq(LedgerRow)
  BY DEF TypeOK, Write
<1>2. Account!NewRows(u) = es
  BY <1>1, SuffixOfConcat DEF Account!NewRows
<1>3. ledger' = [ledger EXCEPT ![u] = @ \o es]
  BY DEF Write
<1>4. w # None /\ w.balance \in Nat
  <2>1. w.balance \in Nat
    BY DEF WalletRow
  <2> QED BY <2>1, MissingRow
<1>5. wallet' = [wallet EXCEPT ![u] = w] /\ wallet \in [Users -> WalletRow \cup {None}]
  BY DEF Write, TypeOK
<1>6. Balance'[u] = Balance[u] + Account!Net(es) /\ Balance'[u] >= 0
  BY <1>4, <1>5 DEF Balance, Current, NewWallet
<1>7. Balance' = [Balance EXCEPT ![u] = @ + Account!Net(es)]
  BY <1>5, <1>6 DEF Balance
<1> QED BY <1>2, <1>3, <1>6, <1>7 DEF Account!Post, Balance

(* A movement of credits: one wallet row is written, with the ledger rows  *)
(* that explain the change of its balance.                                 *)
Movement(u, w, es) ==
  /\ w \in WalletRow /\ es \in Seq(LedgerRow) /\ Len(es) \in 1..2
  /\ w.balance = Current(u).balance + Account!Net(es)
  /\ Write(u, w, es)

Moves == \E u \in Users : \E w, es : Movement(u, w, es)

LEMMA DebitPosts ==
  ASSUME WalletInv, WalletInv', NEW s \in Sessions, DebitCredits(s), ~Refuse(s)
  PROVE  Moves
<1>0. pc[s] = "post"
  BY DEF DebitCredits
<1> DEFINE a == req[s].amount
           w == [snap[s] EXCEPT !.balance = @ - a, !.consumed = @ + a]
           e == Row("usage", -a, None)
           es == <<e>>
<1>1. /\ TypeOK /\ TypeOK' /\ User(s) \in Users /\ snap[s] = Current(User(s))
      /\ snap[s] \in WalletRow /\ a \in Nat
  BY <1>0, AtPost DEF Request, WalletInv
<1>2. Write(User(s), w, es) /\ ~(snap[s].balance < a)
  BY DEF DebitCredits
<1>3. w \in WalletRow
  <2>1. snap[s].balance - a \in Nat /\ snap[s].consumed + a \in Nat
    BY <1>1, <1>2 DEF WalletRow
  <2> QED BY <1>1, <2>1, BalanceUpdate
<1>4. e \in LedgerRow /\ e.credits = -a
  <2>1. e.credits = -a
    BY DEF Row
  <2>2. -a \in Int
    BY <1>1
  <2> QED BY <2>1, <2>2, RowType
<1>5. w.balance = Current(User(s)).balance - a
  <2>1. snap[s] = [balance |-> snap[s].balance, purchased |-> snap[s].purchased,
                   consumed |-> snap[s].consumed]
    BY <1>1 DEF WalletRow
  <2>2. w.balance = snap[s].balance - a
    BY <2>1
  <2> QED BY <1>1, <2>2
<1> HIDE DEF w, e
<1>6. es \in Seq(LedgerRow) /\ Len(es) = 1 /\ Account!Net(es) = -a
  BY <1>4 DEF Account!Net
<1> HIDE DEF es
<1>7. w.balance = Current(User(s)).balance + Account!Net(es)
  BY <1>1, <1>5, <1>6 DEF WalletRow
<1>8. PICK u \in Users : u = User(s)
  BY <1>1
<1>9. Movement(u, w, es)
  BY <1>1, <1>2, <1>3, <1>6, <1>7, <1>8 DEF Movement
<1> QED BY <1>9 DEF Moves

LEMMA RefundPosts ==
  ASSUME WalletInv, WalletInv', NEW s \in Sessions, RefundCredits(s)
  PROVE  Moves
<1>0. pc[s] = "post"
  BY DEF RefundCredits
<1> DEFINE a == req[s].amount
           w == [snap[s] EXCEPT !.balance = @ + a,
                                !.consumed = IF @ >= a THEN @ - a ELSE @]
           e == Row("refund", a, None)
           es == <<e>>
<1>1. /\ TypeOK /\ TypeOK' /\ User(s) \in Users /\ snap[s] = Current(User(s))
      /\ snap[s] \in WalletRow /\ a \in Nat
  BY <1>0, AtPost DEF Request, WalletInv
<1>2. Write(User(s), w, es)
  BY DEF RefundCredits
<1>3. w \in WalletRow
  <2>1. /\ snap[s].balance + a \in Nat
        /\ (IF snap[s].consumed >= a THEN snap[s].consumed - a ELSE snap[s].consumed) \in Nat
    BY <1>1 DEF WalletRow
  <2> QED BY <1>1, <2>1, BalanceUpdate
<1>4. e \in LedgerRow /\ e.credits = a
  BY <1>1, RowType DEF Row
<1>5. w.balance = Current(User(s)).balance + a
  BY <1>1 DEF WalletRow
<1> HIDE DEF w, e
<1>6. es \in Seq(LedgerRow) /\ Len(es) = 1 /\ Account!Net(es) = a
  BY <1>4 DEF Account!Net
<1> HIDE DEF es
<1>8. PICK u \in Users : u = User(s)
  BY <1>1
<1>9. Movement(u, w, es)
  BY <1>1, <1>2, <1>3, <1>5, <1>6, <1>8 DEF Movement
<1> QED BY <1>9 DEF Moves

LEMMA RedeemPosts ==
  ASSUME WalletInv, WalletInv', NEW s \in Sessions, RedeemCoupon(s), ~Refuse(s)
  PROVE  Moves
<1>0. pc[s] = "post" /\ req[s].op = "redeem"
  BY DEF RedeemCoupon
<1> DEFINE c == req[s].coupon
           k == coupon[c].credits
           w == [snap[s] EXCEPT !.balance = @ + k, !.purchased = @ + k]
           e == Row("coupon", k, c)
           es == <<e>>
<1>1. /\ TypeOK /\ TypeOK' /\ User(s) \in Users /\ snap[s] = Current(User(s))
      /\ snap[s] \in WalletRow /\ AskedRight(s)
  BY <1>0, AtPost DEF WalletInv
<1>2. c \in Coupons
  BY <1>0, <1>1 DEF AskedRight
<1>3. Write(User(s), w, es) /\ coupon[c] # None
  BY DEF RedeemCoupon
<1>4. k \in Nat
  BY <1>1, <1>2, <1>3 DEF TypeOK, CouponRow
<1>5. w \in WalletRow
  <2>1. snap[s].balance + k \in Nat /\ snap[s].purchased + k \in Nat
    BY <1>1, <1>4 DEF WalletRow
  <2> QED BY <1>1, <2>1, BalanceUpdate
<1>6. e \in LedgerRow /\ e.credits = k
  BY <1>1, <1>2, <1>4, RowType DEF Row
<1>7. w.balance = Current(User(s)).balance + k
  BY <1>1 DEF WalletRow
<1> HIDE DEF w, e
<1>8. es \in Seq(LedgerRow) /\ Len(es) = 1 /\ Account!Net(es) = k
  BY <1>6 DEF Account!Net
<1> HIDE DEF es
<1>9. PICK u \in Users : u = User(s)
  BY <1>1
<1>10. Movement(u, w, es)
  BY <1>1, <1>3, <1>5, <1>7, <1>8, <1>9 DEF Movement
<1> QED BY <1>10 DEF Moves

LEMMA FulfillPosts ==
  ASSUME WalletInv, WalletInv', NEW s \in Sessions, FulfillPayment(s), ~Refuse(s)
  PROVE  Moves
<1>0. pc[s] = "post" /\ req[s].op = "verify"
  BY DEF FulfillPayment
<1> DEFINE w == [snap[s] EXCEPT !.balance = @ + PackBase + PackBonus,
                                !.purchased = @ + PackBase + PackBonus]
<1>1. /\ TypeOK /\ TypeOK' /\ User(s) \in Users /\ snap[s] = Current(User(s))
      /\ snap[s] \in WalletRow /\ req[s].payment \in Payments
  BY <1>0, AtPost DEF WalletInv, AskedRight
<1>2. Write(User(s), w, PackRows(s))
  BY DEF FulfillPayment
<1>3. w \in WalletRow
  <2>1. /\ snap[s].balance + PackBase + PackBonus \in Nat
        /\ snap[s].purchased + PackBase + PackBonus \in Nat
    BY <1>1, WalletAssumption DEF WalletRow
  <2> QED BY <1>1, <2>1, BalanceUpdate
<1>4. w.balance = Current(User(s)).balance + (PackBase + PackBonus)
  BY <1>1, WalletAssumption DEF WalletRow
<1>5. /\ PackRows(s) \in Seq(LedgerRow) /\ Len(PackRows(s)) \in 1..2
      /\ Account!Net(PackRows(s)) = PackBase + PackBonus
  BY <1>1, PackRowsType DEF Account!Net
<1> HIDE DEF w
<1>8. PICK u \in Users : u = User(s)
  BY <1>1
<1>9. Movement(u, w, PackRows(s))
  BY <1>1, <1>2, <1>3, <1>4, <1>5, <1>8 DEF Movement
<1> QED BY <1>9 DEF Moves

(* Steps that touch neither balances nor rows.                             *)
LEMMA QuietStep ==
  ASSUME WalletInv, [Next]_vars
  PROVE  \/ UNCHANGED <<wallet, ledger, webhooks>>
         \/ \E s \in Sessions : \E o \in Orders : PlaceOrder(s, o)
         \/ \E s \in Sessions : DebitCredits(s) /\ ~Refuse(s)
         \/ \E s \in Sessions : RefundCredits(s)
         \/ \E s \in Sessions : RedeemCoupon(s) /\ ~Refuse(s)
         \/ \E s \in Sessions : FulfillPayment(s) /\ ~Refuse(s)
<1>1. ASSUME NEW s \in Sessions, Refuse(s) PROVE UNCHANGED <<wallet, ledger, webhooks>>
  BY <1>1 DEF Refuse, tables
<1>2. ASSUME NEW s \in Sessions, Arrive(s) PROVE UNCHANGED <<wallet, ledger, webhooks>>
  BY <1>2 DEF Arrive, Start, tables, StartDebit, StartRedeem, StartOrder,
     StartVerify, StartDelete
<1>3. ASSUME NEW c \in Coupons, Administer(c) PROVE UNCHANGED <<wallet, ledger, webhooks>>
  BY <1>3 DEF Administer, CreateCoupon, UpdateCoupon, ArchiveCoupon, RestoreCoupon,
     CouponWindow, SetCoupon
<1>4. ASSUME NEW s \in Sessions,
             \/ LockExperiment(s) \/ FindWallet(s) \/ InsertWallet(s) \/ Victim(s)
             \/ Deliver(s) \/ StartRefund(s) \/ LockCoupon(s) \/ CheckCoupon(s)
             \/ DeleteCoupon(s) \/ LockOrder(s) \/ CheckPayment(s) \/ GatewayFails(s)
             \/ Rollback(s)
      PROVE  UNCHANGED <<wallet, ledger, webhooks>>
  BY <1>4 DEF LockExperiment, FindWallet, InsertWallet, Victim, Deliver, StartRefund,
     LockCoupon, CheckCoupon, DeleteCoupon, LockOrder, CheckPayment, GatewayFails,
     Rollback, Refuse, tables
<1>5. CASE UNCHANGED vars \/ Served
  BY <1>5 DEF Served, vars
<1>6. CASE \E s \in Sessions : Work(s)
  BY <1>1, <1>4, <1>6 DEF Work
<1> QED BY <1>2, <1>3, <1>4, <1>5, <1>6 DEF Next

(* A movement is one step of the account ledger.                           *)
LEMMA MovesPost ==
  ASSUME WalletInv, WalletInv', Moves
  PROVE  Account!AbstractNext
<1>1. PICK u \in Users : \E w, es : Movement(u, w, es)
  BY DEF Moves
<1>2. PICK w, es : Movement(u, w, es)
  BY <1>1
<1>3. Account!Post(u)
  BY <1>2, WritePosts DEF Movement, WalletInv
<1> QED BY <1>3 DEF Account!AbstractNext

(* The wallet implements the account ledger: each step moves credits of at *)
(* most one account, by what the rows it appends say, never below zero.    *)
THEOREM WalletImplementsAccount == Spec => ImplementsAccount
<1>1. Init => Account!AbstractInit
  BY DEF Init, Account!AbstractInit
<1>2. ASSUME WalletInv, WalletInv', [Next]_vars
      PROVE  [Account!AbstractNext]_(Account!abstractVars)
  <2>1. CASE UNCHANGED <<wallet, ledger, webhooks>>
    BY <2>1 DEF Account!abstractVars
  <2>2. CASE \E s \in Sessions : \E o \in Orders : PlaceOrder(s, o)
    <3>1. PICK s \in Sessions, o \in Orders : PlaceOrder(s, o)
      BY <2>2
    <3>2. TypeOK /\ ReadsCurrent(s) /\ AskedRight(s) /\ pc[s] = "gateway"
      BY <1>2, <3>1 DEF WalletInv, WellFormed, ReadsAreCurrent, PlaceOrder
    <3>3. User(s) \in Users
      BY <3>2 DEF AskedRight
    <3>4. /\ wallet' = [wallet EXCEPT ![User(s)] = IF snap[s] = None THEN @ ELSE snap[s]]
          /\ ledger' = ledger
      BY <3>1 DEF PlaceOrder
    <3>5. Balance' = Balance
      <4>1. ASSUME NEW u \in Users PROVE Balance'[u] = Balance[u]
        BY <3>2, <3>3, <3>4, MissingRow DEF Balance, ReadsCurrent, Current, NewWallet,
           TypeOK
      <4> QED BY <4>1 DEF Balance
    <3> QED BY <3>4, <3>5 DEF Account!abstractVars, Balance
  <2>4. CASE \E s \in Sessions : DebitCredits(s) /\ ~Refuse(s)
    BY <1>2, <2>4, DebitPosts, MovesPost
  <2>5. CASE \E s \in Sessions : RefundCredits(s)
    BY <1>2, <2>5, RefundPosts, MovesPost
  <2>6. CASE \E s \in Sessions : RedeemCoupon(s) /\ ~Refuse(s)
    BY <1>2, <2>6, RedeemPosts, MovesPost
  <2>7. CASE \E s \in Sessions : FulfillPayment(s) /\ ~Refuse(s)
    BY <1>2, <2>7, FulfillPosts, MovesPost
  <2> QED BY <1>2, <2>1, <2>2, <2>4, <2>5, <2>6, <2>7, QuietStep
<1> QED BY <1>1, <1>2, InitInv, NextInv, PTL
    DEF Spec, ImplementsAccount, Account!AbstractSpec

(***************************************************************************)
(* The ledger adds up to the balance.                                      *)
(***************************************************************************)
Credits(entries) == [i \in DOMAIN entries |-> entries[i].credits]

(* A ledger adds up to a number.                                           *)
LEMMA TotalType ==
  ASSUME NEW entries \in Seq(LedgerRow)
  PROVE  Total(entries) \in Int
<1>1. DOMAIN entries = 1..Len(entries) /\ IsFiniteSet(DOMAIN entries)
  BY FS_Interval
<1>2. \A i \in DOMAIN entries : Credits(entries)[i] \in Int
  <2> SUFFICES ASSUME NEW i \in DOMAIN entries PROVE Credits(entries)[i] \in Int
    OBVIOUS
  <2>1. entries[i] \in LedgerRow
    OBVIOUS
  <2>2. entries[i].credits \in Int
    BY <2>1 DEF LedgerRow
  <2> QED BY <2>2 DEF Credits
<1>3. SumFunctionOnSet(Credits(entries), DOMAIN entries) \in Int
  BY <1>1, <1>2, SumIn
<1> QED BY <1>3 DEF Total, Credits

(* An empty ledger adds up to zero.                                        *)
LEMMA TotalOfNone == Total(<<>>) = 0
<1>1. DOMAIN <<>> = {}
  OBVIOUS
<1> QED BY <1>1, SumOfNothing DEF Total

(* One more row adds its credits.                                          *)
LEMMA TotalWithOne ==
  ASSUME NEW entries \in Seq(LedgerRow), NEW e \in LedgerRow
  PROVE  Total(Append(entries, e)) = Total(entries) + e.credits
<1> DEFINE more == Append(entries, e)
           S == 1..Len(entries)
           n == Len(entries) + 1
<1>1. /\ DOMAIN entries = S /\ DOMAIN more = S \cup {n} /\ n \notin S
      /\ more[n] = e /\ \A i \in S : more[i] = entries[i]
  OBVIOUS
<1>2. IsFiniteSet(S)
  BY FS_Interval
<1>3. /\ \A i \in S : Credits(more)[i] = Credits(entries)[i]
      /\ Credits(more)[n] = e.credits
      /\ \A i \in S : Credits(entries)[i] = entries[i].credits
  BY <1>1 DEF Credits
<1>4. \A i \in S \cup {n} : Credits(more)[i] \in Int
  <2>1. \A i \in S : entries[i] \in LedgerRow
    OBVIOUS
  <2>2. e.credits \in Int /\ \A i \in S : entries[i].credits \in Int
    BY <2>1 DEF LedgerRow
  <2> QED BY <1>3, <2>2
<1>5. Total(more) = SumFunctionOnSet(Credits(more), S \cup {n})
  BY <1>1 DEF Total, Credits
<1>6. Total(entries) = SumFunctionOnSet(Credits(entries), S)
  BY <1>1 DEF Total, Credits
<1> HIDE DEF more, S, n
<1>7. SumFunctionOnSet(Credits(more), S \cup {n})
        = SumFunctionOnSet(Credits(more), S) + Credits(more)[n]
  BY <1>1, <1>2, <1>4, SumWithOne
<1>8. SumFunctionOnSet(Credits(more), S) = SumFunctionOnSet(Credits(entries), S)
  BY <1>2, <1>3, SumsAgree
<1>9. Total(more) = Total(entries) + e.credits
  BY <1>3, <1>5, <1>6, <1>7, <1>8
<1> QED BY <1>9 DEF more

(* Rows joined one at a time.                                              *)
LEMMA AppendOne ==
  ASSUME NEW S, NEW x \in Seq(S), NEW y \in Seq(S), Len(y) = 1
  PROVE  x \o y = Append(x, y[1])
<1> DEFINE z == x \o y
           a == Append(x, y[1])
<1>1. y[1] \in S
  OBVIOUS
<1>2. z \in Seq(S) /\ Len(z) = Len(x) + 1
  <2>1. z \in Seq(S) /\ Len(z) = Len(x) + Len(y)
    BY ConcatProperties
  <2> QED BY <2>1
<1>3. a \in Seq(S) /\ Len(a) = Len(x) + 1
  BY <1>1
<1>4. \A i \in 1..Len(z) : z[i] = a[i]
  BY <1>1, <1>2, <1>3
<1> HIDE DEF z, a
<1>5. z = a
  BY <1>2, <1>3, <1>4, SeqEqual
<1> QED BY <1>5 DEF z, a

LEMMA AppendTwo ==
  ASSUME NEW S, NEW x \in Seq(S), NEW y \in Seq(S), Len(y) = 2
  PROVE  x \o y = Append(Append(x, y[1]), y[2])
<1> DEFINE z == x \o y
           one == Append(x, y[1])
           a == Append(one, y[2])
<1>1. y[1] \in S /\ y[2] \in S
  OBVIOUS
<1>2. z \in Seq(S) /\ Len(z) = Len(x) + Len(y)
  BY ConcatProperties
<1>3. one \in Seq(S) /\ Len(one) = Len(x) + 1
  BY <1>1
<1>4. a \in Seq(S) /\ Len(a) = Len(x) + 2
  BY <1>1, <1>3, AppendProperties
<1>5. Len(z) = Len(a) /\ \A i \in 1..Len(z) : z[i] = a[i]
  BY <1>1, <1>2, <1>3, <1>4
<1> HIDE DEF z, a
<1>6. z = a
  BY <1>2, <1>4, <1>5, SeqEqual
<1> QED BY <1>6 DEF z, a

(* The rows of a movement add what they explain.                           *)
LEMMA TotalWithNet ==
  ASSUME NEW entries \in Seq(LedgerRow), NEW es \in Seq(LedgerRow), Len(es) \in 1..2
  PROVE  Total(entries \o es) = Total(entries) + Account!Net(es)
<1>1. CASE Len(es) = 1
  <2>1. es[1] \in LedgerRow
    BY <1>1
  <2>2. entries \o es = Append(entries, es[1])
    BY <1>1, AppendOne
  <2> QED BY <1>1, <2>1, <2>2, TotalWithOne DEF Account!Net
<1>2. CASE Len(es) = 2
  <2>1. es[1] \in LedgerRow /\ es[2] \in LedgerRow
    BY <1>2
  <2> DEFINE one == Append(entries, es[1])
  <2>2. one \in Seq(LedgerRow) /\ entries \o es = Append(one, es[2])
    BY <1>2, <2>1, AppendTwo
  <2>3. Total(one) = Total(entries) + es[1].credits
    BY <2>1, TotalWithOne
  <2> HIDE DEF one
  <2>4. Total(Append(one, es[2])) = Total(one) + es[2].credits
    BY <2>1, <2>2, TotalWithOne
  <2>5. Total(entries) \in Int /\ es[1].credits \in Int /\ es[2].credits \in Int
    BY <2>1, TotalType DEF LedgerRow
  <2> QED BY <1>2, <2>2, <2>3, <2>4, <2>5 DEF Account!Net
<1> QED BY <1>1, <1>2

(* The balance of every user is what the rows of the ledger say, and a     *)
(* user without a wallet has no rows.                                      *)
Explained ==
  \A u \in Users : /\ Balance[u] = Total(ledger[u])
                   /\ wallet[u] = None => ledger[u] = <<>>

LEMMA MovesExplained ==
  ASSUME WalletInv, Explained, NEW u \in Users, NEW w, NEW es, Movement(u, w, es)
  PROVE  Explained'
<1>1. /\ wallet' = [wallet EXCEPT ![u] = w] /\ ledger' = [ledger EXCEPT ![u] = @ \o es]
      /\ wallet \in [Users -> WalletRow \cup {None}] /\ ledger \in [Users -> Seq(LedgerRow)]
      /\ w \in WalletRow /\ w # None
      /\ es \in Seq(LedgerRow) /\ Len(es) \in 1..2
  BY MissingRow DEF Movement, Write, WalletInv, TypeOK
<1>2. ASSUME NEW v \in Users \ {u}
      PROVE  Balance'[v] = Total(ledger'[v]) /\ (wallet'[v] = None => ledger'[v] = <<>>)
  BY <1>1 DEF Explained, Balance
<1>3. Balance'[u] = Balance[u] + Account!Net(es)
  BY <1>1 DEF Movement, Balance, Current, NewWallet
<1>4. Total(ledger'[u]) = Total(ledger[u]) + Account!Net(es)
  BY <1>1, TotalWithNet
<1>5. wallet'[u] # None
  BY <1>1
<1> QED BY <1>2, <1>3, <1>4, <1>5 DEF Explained

(* Placing an order creates at most an empty wallet.                       *)
LEMMA OrderExplained ==
  ASSUME WalletInv, Explained, NEW s \in Sessions, NEW o \in Orders, PlaceOrder(s, o)
  PROVE  Explained'
<1>1. TypeOK /\ ReadsCurrent(s) /\ AskedRight(s) /\ pc[s] = "gateway"
  BY DEF WalletInv, WellFormed, ReadsAreCurrent, PlaceOrder
<1>2. User(s) \in Users
  BY <1>1 DEF AskedRight
<1>3. /\ wallet' = [wallet EXCEPT ![User(s)] = IF snap[s] = None THEN @ ELSE snap[s]]
      /\ ledger' = ledger
  BY DEF PlaceOrder
<1>4. ASSUME NEW u \in Users
      PROVE  Balance'[u] = Balance[u] /\ (wallet'[u] = None => wallet[u] = None)
  BY <1>1, <1>2, <1>3, MissingRow DEF Balance, ReadsCurrent, Current, NewWallet, TypeOK
<1> QED BY <1>3, <1>4 DEF Explained

(* The ledger explains the balance after any number of transactions of any *)
(* number of sessions: no update is lost and no refusal writes half.       *)
THEOREM LedgersExplainBalances == Spec => []LedgerExplainsBalance
<1>1. Init => Explained
  BY TotalOfNone DEF Init, Explained, Balance
<1>2. ASSUME WalletInv, WalletInv', Explained, [Next]_vars PROVE Explained'
  <2>1. CASE UNCHANGED <<wallet, ledger, webhooks>>
    BY <1>2, <2>1 DEF Explained, Balance
  <2>2. CASE \E s \in Sessions : \E o \in Orders : PlaceOrder(s, o)
    BY <1>2, <2>2, OrderExplained
  <2>3. CASE Moves
    BY <1>2, <2>3, MovesExplained DEF Moves
  <2> QED BY <1>2, <2>1, <2>2, <2>3, QuietStep, DebitPosts, RefundPosts, RedeemPosts,
             FulfillPosts
<1>3. WalletInv /\ Explained => LedgerExplainsBalance
  <2> SUFFICES ASSUME WalletInv, Explained, NEW u \in Users
               PROVE  /\ Total(ledger[u]) >= 0
                      /\ IF wallet[u] = None THEN ledger[u] = <<>>
                         ELSE wallet[u].balance = Total(ledger[u])
    BY DEF LedgerExplainsBalance
  <2>1. wallet[u] \in WalletRow \cup {None}
    BY DEF WalletInv, TypeOK
  <2>2. Balance[u] \in Nat
    BY <2>1 DEF Balance, WalletRow
  <2>3. Balance[u] = Total(ledger[u])
    BY DEF Explained
  <2> QED BY <2>2, <2>3 DEF Explained, Balance
<1> QED BY <1>1, <1>2, <1>3, InitInv, NextInv, PTL DEF Spec

(***************************************************************************)
(* The lifetime counters.                                                  *)
(***************************************************************************)

(* A step of session s leaves the requests of the others as they are.      *)
Alone(s) == \A t \in Sessions \ {s} : pc'[t] = pc[t] /\ req'[t] = req[t]

LEMMA DebtType ==
  ASSUME TypeOK, NEW u \in Users
  PROVE  \A s \in Sessions : Debt(u)[s] \in Nat
<1> SUFFICES ASSUME NEW s \in Sessions PROVE Debt(u)[s] \in Nat
  OBVIOUS
<1>1. req[s] \in Request
  BY DEF TypeOK
<1>2. req[s].amount \in Nat
  BY <1>1 DEF Request
<1> QED BY <1>2 DEF Debt

(* What is owed to a user covers what each session owes.                   *)
LEMMA OwedCovers ==
  ASSUME TypeOK, NEW u \in Users, NEW s \in Sessions
  PROVE  Owed(u) \in Nat /\ Debt(u)[s] \in Nat /\ Debt(u)[s] <= Owed(u)
<1>1. IsFiniteSet(Sessions) /\ \A t \in Sessions : Debt(u)[t] \in Nat
  BY FinitePool, DebtType
<1>2. Debt(u)[s] <= SumFunctionOnSet(Debt(u), Sessions)
  BY <1>1, SumBounds
<1>3. SumFunctionOnSet(Debt(u), Sessions) \in Nat
  BY <1>1, SumIn
<1> QED BY <1>1, <1>2, <1>3 DEF Owed

(* A step of one session moves what is owed by what that session owes.     *)
LEMMA OwedStep ==
  ASSUME TypeOK, TypeOK', NEW u \in Users, NEW s \in Sessions, Alone(s)
  PROVE  Owed(u)' = Owed(u) - Debt(u)[s] + Debt(u)'[s]
<1> DEFINE g == Debt(u)
           h == Debt(u)'
<1>1. IsFiniteSet(Sessions) /\ \A t \in Sessions : g[t] \in Int
  BY FinitePool, DebtType
<1>2. \A t \in Sessions : h[t] \in Nat
  <2>1. ASSUME NEW t \in Sessions PROVE h[t] \in Nat
    <3>1. req'[t] \in Request
      BY DEF TypeOK
    <3>2. req'[t].amount \in Nat
      BY <3>1 DEF Request
    <3> QED BY <3>2 DEF Debt
  <2> QED BY <2>1
<1>3. \A t \in Sessions \ {s} : h[t] = g[t]
  BY DEF Alone, Debt, Owing, User
<1>4. Owed(u) = SumFunctionOnSet(g, Sessions) /\ Owed(u)' = SumFunctionOnSet(h, Sessions)
  BY DEF Owed
<1> HIDE DEF g, h
<1>5. h[s] \in Int
  BY <1>2
<1>6. SumFunctionOnSet(h, Sessions) = SumFunctionOnSet(g, Sessions) - g[s] + h[s]
  BY <1>1, <1>3, <1>5, SumExcept
<1> QED BY <1>4, <1>6 DEF g, h

(* A step after which session s owes no more than before, and nobody's     *)
(* consumption was corrected downwards.                                    *)
LEMMA SettledStep ==
  ASSUME TypeOK, TypeOK', CountersKept, NEW s \in Sessions, Alone(s),
         \A u \in Users :
           /\ Debt(u)'[s] <= Debt(u)[s]
           /\ Current(u)'.consumed = Current(u).consumed
           /\ Current(u)'.balance - Current(u)'.purchased
                = Current(u).balance - Current(u).purchased
  PROVE  CountersKept'
<1> SUFFICES ASSUME NEW u \in Users
             PROVE  /\ Current(u)'.balance = Current(u)'.purchased - Current(u)'.consumed
                    /\ Owed(u)' <= Current(u)'.consumed
  BY DEF CountersKept
<1>1. /\ Current(u) \in WalletRow /\ Current(u)' \in WalletRow
      /\ Owed(u) \in Nat /\ Debt(u)[s] \in Nat /\ Debt(u)'[s] \in Nat
  <2>1. Current(u) \in WalletRow
    BY DEF TypeOK, Current, NewWallet, WalletRow
  <2>2. Current(u)' \in WalletRow
    BY DEF TypeOK, Current, NewWallet, WalletRow
  <2>3. req'[s] \in Request
    BY DEF TypeOK
  <2>4. req'[s].amount \in Nat
    BY <2>3 DEF Request
  <2>5. Debt(u)'[s] \in Nat
    BY <2>4 DEF Debt
  <2> QED BY <2>1, <2>2, <2>5, OwedCovers
<1>2. /\ Current(u).balance \in Nat /\ Current(u).purchased \in Nat
      /\ Current(u).consumed \in Nat /\ Current(u)'.balance \in Nat
      /\ Current(u)'.purchased \in Nat /\ Current(u)'.consumed \in Nat
  BY <1>1 DEF WalletRow
<1>3. /\ Current(u).balance = Current(u).purchased - Current(u).consumed
      /\ Owed(u) <= Current(u).consumed
  BY DEF CountersKept
<1>4. Owed(u)' = Owed(u) - Debt(u)[s] + Debt(u)'[s]
  BY OwedStep
<1>5. Owed(u)' <= Owed(u)
  BY <1>1, <1>4
<1>6. Owed(u)' \in Int
  BY <1>1, <1>4
<1>7. /\ Debt(u)'[s] <= Debt(u)[s]
      /\ Current(u)'.consumed = Current(u).consumed
      /\ Current(u)'.balance - Current(u)'.purchased
           = Current(u).balance - Current(u).purchased
  OBVIOUS
<1>8. Owed(u)' <= Current(u)'.consumed
  BY <1>1, <1>2, <1>3, <1>5, <1>6, <1>7
<1>9. Current(u)'.balance = Current(u)'.purchased - Current(u)'.consumed
  BY <1>2, <1>3, <1>7
<1> QED BY <1>8, <1>9

(* A request that ends owes nothing.                                       *)
LEMMA EndDebt ==
  ASSUME TypeOK, NEW s \in Sessions, End(s)
  PROVE  Alone(s) /\ \A u \in Users : Debt(u)'[s] = 0
<1>1. Alone(s)
  BY EndFrame DEF Alone
<1>2. pc'[s] = "idle" /\ req'[s] = NoRequest
  BY DEF TypeOK, End, Goto
<1>3. ASSUME NEW u \in Users PROVE Debt(u)'[s] = 0
  BY <1>2 DEF Debt, Owing, NoRequest
<1> QED BY <1>1, <1>3

(* Steps that move no credits of a wallet.                                 *)
LEMMA QuietCounters ==
  ASSUME WalletInv, TypeOK', CountersKept, NEW s \in Sessions, Alone(s),
         UNCHANGED wallet, \A u \in Users : Debt(u)'[s] <= Debt(u)[s]
  PROVE  CountersKept'
BY SettledStep DEF WalletInv, Current

LEMMA EndCounters ==
  ASSUME WalletInv, TypeOK', CountersKept, NEW s \in Sessions, End(s), UNCHANGED wallet
  PROVE  CountersKept'
<1>1. TypeOK /\ Alone(s)
  BY EndDebt DEF WalletInv
<1>2. ASSUME NEW u \in Users PROVE Debt(u)'[s] <= Debt(u)[s]
  BY <1>1, EndDebt, OwedCovers
<1> QED BY <1>1, <1>2, QuietCounters

(* A move inside a request that is neither a charge nor a refund.          *)
LEMMA MoveCounters ==
  ASSUME WalletInv, TypeOK', CountersKept, NEW s \in Sessions, NEW where,
         Goto(s, where), UNCHANGED <<wallet, req>>, pc[s] # "charged", where # "charged"
  PROVE  CountersKept'
<1>1. TypeOK /\ pc' = [pc EXCEPT ![s] = where]
  BY DEF WalletInv, Goto
<1>2. Alone(s) /\ pc'[s] = where
  BY <1>1 DEF Alone, TypeOK
<1>3. ASSUME NEW u \in Users PROVE Debt(u)'[s] <= Debt(u)[s]
  <2>1. Debt(u)'[s] = Debt(u)[s]
    BY <1>2 DEF Debt, Owing, User
  <2> QED BY <1>1, <2>1, OwedCovers
<1> QED BY <1>2, <1>3, QuietCounters

LEMMA StartCounters ==
  ASSUME WalletInv, TypeOK', CountersKept, NEW s \in Sessions, NEW r, NEW where,
         Start(s, r, where), where # "charged", r.op # "refund"
  PROVE  CountersKept'
<1>1. /\ TypeOK /\ UNCHANGED wallet
      /\ pc' = [pc EXCEPT ![s] = where] /\ req' = [req EXCEPT ![s] = r]
  BY DEF WalletInv, Start, tables, Goto
<1>2. Alone(s) /\ pc'[s] = where /\ req'[s] = r
  BY <1>1 DEF Alone, TypeOK
<1>3. ASSUME NEW u \in Users PROVE Debt(u)'[s] <= Debt(u)[s]
  <2>1. Debt(u)'[s] = 0
    BY <1>2 DEF Debt, Owing
  <2> QED BY <1>1, <2>1, OwedCovers
<1> QED BY <1>1, <1>2, <1>3, QuietCounters

LEMMA ArriveCounters ==
  ASSUME WalletInv, TypeOK', CountersKept, NEW s \in Sessions, Arrive(s)
  PROVE  CountersKept'
<1>1. ASSUME NEW e, NEW a, StartDebit(s, e, a) PROVE CountersKept'
  <2> DEFINE r == [NoRequest EXCEPT !.op = "debit", !.user = OwnerOf[e],
                                    !.experiment = e, !.amount = a]
  <2>1. Start(s, r, "experiment") /\ r.op = "debit"
    BY <1>1 DEF StartDebit, NoRequest
  <2> HIDE DEF r
  <2> QED BY <2>1, StartCounters
<1>2. ASSUME NEW u, NEW c, StartRedeem(s, u, c) PROVE CountersKept'
  <2> DEFINE r == [NoRequest EXCEPT !.op = "redeem", !.user = u, !.coupon = c,
                                    !.flag = welcomed[u]]
  <2>1. Start(s, r, "coupon") /\ r.op = "redeem"
    BY <1>2 DEF StartRedeem, NoRequest
  <2> HIDE DEF r
  <2> QED BY <2>1, StartCounters
<1>3. ASSUME NEW u, StartOrder(s, u) PROVE CountersKept'
  <2> DEFINE r == [NoRequest EXCEPT !.op = "order", !.user = u]
  <2>1. Start(s, r, "wallet") /\ r.op = "order"
    BY <1>3 DEF StartOrder, NoRequest
  <2> HIDE DEF r
  <2> QED BY <2>1, StartCounters
<1>4. ASSUME NEW u, NEW o, NEW p, StartVerify(s, u, o, p) PROVE CountersKept'
  <2> DEFINE r == [NoRequest EXCEPT !.op = "verify", !.user = u, !.order = o,
                                    !.payment = p]
  <2>1. Start(s, r, "order") /\ r.op = "verify"
    BY <1>4 DEF StartVerify, NoRequest
  <2> HIDE DEF r
  <2> QED BY <2>1, StartCounters
<1>5. ASSUME NEW c, StartDelete(s, c) PROVE CountersKept'
  <2> DEFINE r == [NoRequest EXCEPT !.op = "delete", !.coupon = c]
  <2>1. Start(s, r, "erase") /\ r.op = "delete"
    BY <1>5 DEF StartDelete, NoRequest
  <2> HIDE DEF r
  <2> QED BY <2>1, StartCounters
<1> QED BY <1>1, <1>2, <1>3, <1>4, <1>5 DEF Arrive

(* A refund that starts owes what the charge owed.                         *)
LEMMA StartRefundCounters ==
  ASSUME WalletInv, TypeOK', CountersKept, NEW s \in Sessions, StartRefund(s)
  PROVE  CountersKept'
<1>1. /\ TypeOK /\ UNCHANGED wallet /\ pc[s] = "charged"
      /\ \E first : pc' = [pc EXCEPT ![s] = first]
      /\ req' = [req EXCEPT ![s].op = "refund"]
  BY DEF WalletInv, StartRefund, tables, Goto
<1>2. Alone(s) /\ req'[s] = [req[s] EXCEPT !.op = "refund"] /\ req[s] \in Request
  BY <1>1 DEF Alone, TypeOK
<1>3. req'[s].op = "refund" /\ req'[s].user = User(s) /\ req'[s].amount = req[s].amount
  BY <1>2 DEF Request, User
<1>4. ASSUME NEW u \in Users PROVE Debt(u)'[s] <= Debt(u)[s]
  <2>1. Debt(u)'[s] = Debt(u)[s]
    BY <1>1, <1>3 DEF Debt, Owing, User
  <2> QED BY <1>1, <2>1, OwedCovers
<1> QED BY <1>1, <1>2, <1>4, QuietCounters

(* What a commit at place "post" writes, and what it reads first.          *)
LEMMA PostedWallet ==
  ASSUME WalletInv, NEW s \in Sessions, pc[s] = "post", NEW w \in WalletRow, NEW es,
         Write(User(s), w, es)
  PROVE  /\ TypeOK /\ User(s) \in Users /\ snap[s] = Current(User(s))
         /\ snap[s] \in WalletRow
         /\ \A u \in Users : Current(u)' = IF u = User(s) THEN w ELSE Current(u)
<1>1. TypeOK /\ User(s) \in Users /\ snap[s] = Current(User(s)) /\ snap[s] \in WalletRow
  BY AtPost DEF WalletInv
<1>2. wallet' = [wallet EXCEPT ![User(s)] = w] /\ w # None
  BY MissingRow DEF Write
<1> QED BY <1>1, <1>2 DEF Current, TypeOK

(* Credits bought or given are purchased; nothing is owed for them.        *)
LEMMA PurchaseCounters ==
  ASSUME WalletInv, TypeOK', CountersKept, NEW s \in Sessions, pc[s] = "post", End(s),
         NEW k \in Nat, NEW es,
         Write(User(s), [snap[s] EXCEPT !.balance = @ + k, !.purchased = @ + k], es)
  PROVE  CountersKept'
<1> DEFINE w == [snap[s] EXCEPT !.balance = @ + k, !.purchased = @ + k]
<1>1. TypeOK /\ User(s) \in Users /\ snap[s] \in WalletRow /\ snap[s] = Current(User(s))
  BY AtPost DEF WalletInv
<1>2. /\ snap[s].balance \in Nat /\ snap[s].purchased \in Nat /\ snap[s].consumed \in Nat
      /\ w.balance = snap[s].balance + k /\ w.purchased = snap[s].purchased + k
      /\ w.consumed = snap[s].consumed
  BY <1>1 DEF WalletRow
<1>3. w \in WalletRow
  <2>1. snap[s].balance + k \in Nat /\ snap[s].purchased + k \in Nat
    BY <1>2
  <2> QED BY <1>1, <2>1, BalanceUpdate
<1>4. Write(User(s), w, es)
  OBVIOUS
<1> HIDE DEF w
<1>5. \A u \in Users : Current(u)' = IF u = User(s) THEN w ELSE Current(u)
  BY <1>3, <1>4, PostedWallet
<1>6. ASSUME NEW u \in Users PROVE Debt(u)'[s] <= Debt(u)[s]
  BY <1>1, EndDebt, OwedCovers
<1>7. ASSUME NEW u \in Users
      PROVE  /\ Current(u)'.consumed = Current(u).consumed
             /\ Current(u)'.balance - Current(u)'.purchased
                  = Current(u).balance - Current(u).purchased
  BY <1>1, <1>2, <1>5
<1>8. Alone(s)
  BY <1>1, EndDebt
<1> QED BY <1>1, <1>6, <1>7, <1>8, SettledStep

(* A debit: consumed, and owed until it is delivered.                      *)
LEMMA DebitCounters ==
  ASSUME WalletInv, TypeOK', CountersKept, NEW s \in Sessions,
         DebitCredits(s), ~Refuse(s)
  PROVE  CountersKept'
<1> DEFINE a == req[s].amount
           w == [snap[s] EXCEPT !.balance = @ - a, !.consumed = @ + a]
<1>1. /\ TypeOK /\ User(s) \in Users /\ snap[s] \in WalletRow
      /\ snap[s] = Current(User(s)) /\ a \in Nat /\ pc[s] = "post" /\ req[s].op = "debit"
  BY AtPost DEF WalletInv, DebitCredits, Request
<1>2. /\ Write(User(s), w, <<Row("usage", -a, None)>>)
      /\ pc' = [pc EXCEPT ![s] = "charged"] /\ req' = req /\ snap[s].balance >= a
  BY <1>1 DEF DebitCredits, Goto, WalletRow
<1>3. /\ snap[s].balance \in Nat /\ snap[s].purchased \in Nat /\ snap[s].consumed \in Nat
      /\ w.balance = snap[s].balance - a /\ w.purchased = snap[s].purchased
      /\ w.consumed = snap[s].consumed + a
  BY <1>1 DEF WalletRow
<1>4. w \in WalletRow
  <2>1. snap[s].balance - a \in Nat /\ snap[s].consumed + a \in Nat
    BY <1>1, <1>2, <1>3
  <2> QED BY <1>1, <2>1, BalanceUpdate
<1>5. Alone(s) /\ pc'[s] = "charged" /\ req'[s] = req[s]
  BY <1>1, <1>2 DEF Alone, TypeOK
<1>6. ASSUME NEW u \in Users
      PROVE  Debt(u)[s] = 0 /\ Debt(u)'[s] = IF u = User(s) THEN a ELSE 0
  BY <1>1, <1>5 DEF Debt, Owing, User
<1> HIDE DEF w, a
<1>7. \A u \in Users : Current(u)' = IF u = User(s) THEN w ELSE Current(u)
  BY <1>1, <1>2, <1>4, PostedWallet
<1>8. ASSUME NEW u \in Users
      PROVE  /\ Current(u)'.balance = Current(u)'.purchased - Current(u)'.consumed
             /\ Owed(u)' <= Current(u)'.consumed
  <2>1. /\ Current(u).balance = Current(u).purchased - Current(u).consumed
        /\ Owed(u) <= Current(u).consumed
    BY DEF CountersKept
  <2>2. Owed(u)' = Owed(u) - Debt(u)[s] + Debt(u)'[s] /\ Owed(u) \in Nat
    BY <1>1, <1>5, OwedStep, OwedCovers
  <2>3. CASE u = User(s)
    BY <1>1, <1>3, <1>6, <1>7, <2>1, <2>2, <2>3
  <2>4. CASE u # User(s)
    BY <1>1, <1>6, <1>7, <2>1, <2>2, <2>4
  <2> QED BY <2>3, <2>4
<1> QED BY <1>8 DEF CountersKept

(* A refund gives back what the session owes: the clamp does not bite.     *)
LEMMA RefundCounters ==
  ASSUME WalletInv, TypeOK', CountersKept, NEW s \in Sessions, RefundCredits(s)
  PROVE  CountersKept'
<1> DEFINE a == req[s].amount
           c == IF snap[s].consumed >= a THEN snap[s].consumed - a ELSE snap[s].consumed
           w == [snap[s] EXCEPT !.balance = @ + a,
                                !.consumed = IF @ >= a THEN @ - a ELSE @]
<1>1. /\ TypeOK /\ User(s) \in Users /\ snap[s] \in WalletRow
      /\ snap[s] = Current(User(s)) /\ a \in Nat
      /\ pc[s] = "post" /\ req[s].op = "refund"
  BY AtPost DEF WalletInv, RefundCredits, Request
<1>2. Write(User(s), w, <<Row("refund", a, None)>>) /\ End(s)
  BY DEF RefundCredits
<1>3. Alone(s) /\ \A u \in Users : Debt(u)'[s] = 0
  BY <1>1, <1>2, EndDebt
<1>4. ASSUME NEW u \in Users PROVE Debt(u)[s] = IF u = User(s) THEN a ELSE 0
  BY <1>1 DEF Debt, Owing
<1>5. /\ snap[s].balance \in Nat /\ snap[s].purchased \in Nat /\ snap[s].consumed \in Nat
      /\ w.balance = snap[s].balance + a /\ w.purchased = snap[s].purchased
      /\ w.consumed = c
  BY <1>1 DEF WalletRow
<1>6. w \in WalletRow
  <2>1. snap[s].balance + a \in Nat /\ c \in Nat
    BY <1>1, <1>5
  <2> QED BY <1>1, <2>1, BalanceUpdate
<1>7. Current(User(s)).consumed >= a
  <2>1. Debt(User(s))[s] <= Owed(User(s)) /\ Owed(User(s)) \in Nat
    BY <1>1, OwedCovers
  <2>2. Owed(User(s)) <= Current(User(s)).consumed
    BY <1>1 DEF CountersKept
  <2> QED BY <1>1, <1>4, <1>5, <2>1, <2>2
<1>8. w.consumed = snap[s].consumed - a
  BY <1>1, <1>5, <1>7
<1> HIDE DEF w, a, c
<1>9. \A u \in Users : Current(u)' = IF u = User(s) THEN w ELSE Current(u)
  BY <1>1, <1>2, <1>6, PostedWallet
<1>10. ASSUME NEW u \in Users
      PROVE  /\ Current(u)'.balance = Current(u)'.purchased - Current(u)'.consumed
             /\ Owed(u)' <= Current(u)'.consumed
  <2>1. /\ Current(u).balance = Current(u).purchased - Current(u).consumed
        /\ Owed(u) <= Current(u).consumed
    BY DEF CountersKept
  <2>2. Owed(u)' = Owed(u) - Debt(u)[s] + Debt(u)'[s] /\ Owed(u) \in Nat
    BY <1>1, <1>3, OwedStep, OwedCovers
  <2>3. CASE u = User(s)
    BY <1>1, <1>3, <1>4, <1>5, <1>8, <1>9, <2>1, <2>2, <2>3
  <2>4. CASE u # User(s)
    BY <1>1, <1>3, <1>4, <1>9, <2>1, <2>2, <2>4
  <2> QED BY <2>3, <2>4
<1> QED BY <1>10 DEF CountersKept

(* Placing an order creates at most an empty wallet.                       *)
LEMMA OrderCounters ==
  ASSUME WalletInv, TypeOK', CountersKept, NEW s \in Sessions, NEW o \in Orders,
         PlaceOrder(s, o)
  PROVE  CountersKept'
<1>1. /\ TypeOK /\ ReadsCurrent(s) /\ AskedRight(s) /\ pc[s] = "gateway" /\ End(s)
      /\ wallet' = [wallet EXCEPT ![User(s)] = IF snap[s] = None THEN @ ELSE snap[s]]
  BY DEF WalletInv, WellFormed, ReadsAreCurrent, PlaceOrder
<1>2. User(s) \in Users
  BY <1>1 DEF AskedRight
<1>3. ASSUME NEW u \in Users PROVE Current(u)' = Current(u)
  BY <1>1, <1>2, MissingRow DEF ReadsCurrent, Current, NewWallet, TypeOK
<1>4. Alone(s)
  BY <1>1, EndDebt
<1>5. ASSUME NEW u \in Users PROVE Debt(u)'[s] <= Debt(u)[s]
  BY <1>1, EndDebt, OwedCovers
<1> QED BY <1>1, <1>3, <1>4, <1>5, SettledStep

LEMMA WorkCounters ==
  ASSUME WalletInv, TypeOK', CountersKept, NEW s \in Sessions, Work(s) \/ Rollback(s)
  PROVE  CountersKept'
<1>1. ASSUME Refuse(s) PROVE CountersKept'
  BY <1>1, EndCounters DEF Refuse, tables
<1>2. CASE \/ LockExperiment(s) \/ FindWallet(s) \/ InsertWallet(s)
           \/ LockCoupon(s) \/ CheckCoupon(s) \/ LockOrder(s) \/ CheckPayment(s)
  <2>1. \/ Refuse(s)
        \/ \E where : /\ Goto(s, where) /\ UNCHANGED <<wallet, req>>
                      /\ pc[s] # "charged" /\ where # "charged"
    BY <1>2 DEF LockExperiment, FindWallet, InsertWallet, LockCoupon, CheckCoupon,
       LockOrder, CheckPayment, tables
  <2> QED BY <1>1, <2>1, MoveCounters
<1>3. CASE Deliver(s) \/ GatewayFails(s) \/ Rollback(s) \/ Victim(s)
  BY <1>1, <1>3 DEF Deliver, GatewayFails, Rollback, Victim
<1>4. CASE DeleteCoupon(s)
  BY <1>4, EndCounters DEF DeleteCoupon
<1>5. CASE RedeemCoupon(s) /\ ~Refuse(s)
  <2> DEFINE k == coupon[req[s].coupon].credits
  <2>1. /\ pc[s] = "post" /\ End(s)
        /\ Write(User(s), [snap[s] EXCEPT !.balance = @ + k, !.purchased = @ + k],
                 <<Row("coupon", k, req[s].coupon)>>)
    BY <1>5 DEF RedeemCoupon
  <2>2. k \in Nat
    <3>1. req[s].coupon \in Coupons /\ coupon[req[s].coupon] # None
      BY <1>5, <2>1 DEF WalletInv, WellFormed, AskedRight, RedeemCoupon
    <3>2. coupon[req[s].coupon] \in CouponRow
      BY <3>1 DEF WalletInv, TypeOK
    <3> QED BY <3>2 DEF CouponRow
  <2> HIDE DEF k
  <2> QED BY <2>1, <2>2, PurchaseCounters
<1>6. CASE FulfillPayment(s) /\ ~Refuse(s)
  <2> DEFINE k == PackBase + PackBonus
             w == [snap[s] EXCEPT !.balance = @ + PackBase + PackBonus,
                                  !.purchased = @ + PackBase + PackBonus]
  <2>1. pc[s] = "post" /\ End(s) /\ Write(User(s), w, PackRows(s)) /\ k \in Nat
    BY <1>6 DEF FulfillPayment
  <2>2. snap[s] \in WalletRow
    BY <2>1, AtPost DEF WalletInv
  <2>3. w = [snap[s] EXCEPT !.balance = @ + k, !.purchased = @ + k]
    <3>1. snap[s].balance \in Nat /\ snap[s].purchased \in Nat
      BY <2>2 DEF WalletRow
    <3>2. /\ snap[s].balance + PackBase + PackBonus = snap[s].balance + k
          /\ snap[s].purchased + PackBase + PackBonus = snap[s].purchased + k
      BY <3>1
    <3> QED BY <3>2
  <2> HIDE DEF k, w
  <2>4. Write(User(s), [snap[s] EXCEPT !.balance = @ + k, !.purchased = @ + k], PackRows(s))
    BY <2>1, <2>3
  <2> QED BY <2>1, <2>4, PurchaseCounters
<1>7. CASE DebitCredits(s) /\ ~Refuse(s)
  BY <1>7, DebitCounters
<1>8. CASE \E o \in Orders : PlaceOrder(s, o)
  BY <1>8, OrderCounters
<1> QED BY <1>1, <1>2, <1>3, <1>4, <1>5, <1>6, <1>7, <1>8, StartRefundCounters,
           RefundCounters DEF Work

(* Steps of no session.                                                    *)
LEMMA IdleCounters ==
  ASSUME CountersKept, UNCHANGED <<wallet, pc, req>>
  PROVE  CountersKept'
<1> SUFFICES ASSUME NEW u \in Users
             PROVE  /\ Current(u)'.balance = Current(u)'.purchased - Current(u)'.consumed
                    /\ Owed(u)' <= Current(u)'.consumed
  BY DEF CountersKept
<1>1. Current(u)' = Current(u)
  BY DEF Current
<1>2. Owed(u)' = Owed(u)
  BY DEF Owed, Debt, Owing, User
<1> QED BY <1>1, <1>2 DEF CountersKept

(* Nothing is owed before the first request.                               *)
LEMMA InitCounters == Init => CountersKept
<1> SUFFICES ASSUME Init, NEW u \in Users
             PROVE  /\ Current(u).balance = Current(u).purchased - Current(u).consumed
                    /\ Owed(u) <= Current(u).consumed
  BY DEF CountersKept
<1>1. Current(u) = NewWallet
  BY DEF Init, Current
<1>2. \A s \in Sessions : Debt(u)[s] = 0
  BY DEF Init, Debt, Owing, User, NoRequest
<1>3. \A s \in Sessions : Debt(u)[s] \in {0}
  BY <1>2
<1>4. SumFunctionOnSet(Debt(u), Sessions) \in {0}
  BY <1>3, FinitePool, SumIn
<1> QED BY <1>1, <1>4 DEF Owed, NewWallet

(* The lifetime counters of a wallet agree with its balance, however many  *)
(* debits and refunds are under way.                                       *)
THEOREM CountersAlwaysAgree == Spec => []CountersAgree
<1>1. ASSUME WalletInv, WalletInv', CountersKept, [Next]_vars PROVE CountersKept'
  <2>0. TypeOK'
    BY <1>1 DEF WalletInv
  <2>1. CASE UNCHANGED vars \/ Served
    BY <1>1, <2>1, IdleCounters DEF Served, vars
  <2>2. CASE \E s \in Sessions : Work(s) \/ Rollback(s)
    BY <1>1, <2>0, <2>2, WorkCounters
  <2>3. CASE \E s \in Sessions : Arrive(s)
    BY <1>1, <2>0, <2>3, ArriveCounters
  <2>4. CASE \E c \in Coupons : Administer(c)
    <3>1. UNCHANGED <<wallet, pc, req>>
      BY <2>4 DEF Administer, CreateCoupon, UpdateCoupon, ArchiveCoupon, RestoreCoupon,
         CouponWindow, SetCoupon
    <3> QED BY <1>1, <3>1, IdleCounters
  <2> QED BY <1>1, <2>1, <2>2, <2>3, <2>4 DEF Next
<1>2. CountersKept => CountersAgree
  BY DEF CountersKept, CountersAgree, Current
<1> QED BY <1>1, <1>2, InitInv, InitCounters, NextInv, PTL DEF Spec

(***************************************************************************)
(* Payments.                                                               *)
(***************************************************************************)

(* A payment that appears in a ledger is remembered as fulfilled.          *)
PaidIsProcessed ==
  \A u \in Users : \A i \in DOMAIN ledger[u] :
    Paid(u, i) => ledger[u][i].ref \in webhooks

LEMMA AppendedRows ==
  ASSUME TypeOK, NEW u \in Users, NEW es \in Seq(LedgerRow),
         ledger' = [ledger EXCEPT ![u] = @ \o es],
         NEW v \in Users, NEW i \in DOMAIN ledger'[v]
  PROVE  \/ i \in DOMAIN ledger[v] /\ ledger'[v][i] = ledger[v][i]
         \/ /\ v = u /\ i - Len(ledger[u]) \in DOMAIN es
            /\ ledger'[v][i] = es[i - Len(ledger[u])]
<1>1. CASE v # u
  BY <1>1 DEF TypeOK
<1>2. CASE v = u
  <2>1. ledger'[v] = ledger[u] \o es /\ ledger[u] \in Seq(LedgerRow)
    BY <1>2 DEF TypeOK
  <2>2. /\ Len(ledger[u] \o es) = Len(ledger[u]) + Len(es)
        /\ \A k \in 1..Len(ledger[u]) + Len(es) : (ledger[u] \o es)[k] =
             IF k <= Len(ledger[u]) THEN ledger[u][k] ELSE es[k - Len(ledger[u])]
        /\ ledger[u] \o es \in Seq(LedgerRow)
    BY <2>1, ConcatProperties
  <2>3. i \in 1..Len(ledger[u]) + Len(es)
    BY <2>1, <2>2
  <2> QED BY <1>2, <2>1, <2>2, <2>3
<1> QED BY <1>1, <1>2

LEMMA PaymentsStep ==
  ASSUME TypeOK, PaidIsProcessed, PaymentCreditedOnce,
         NEW u \in Users, NEW es \in Seq(LedgerRow),
         ledger' = [ledger EXCEPT ![u] = @ \o es], webhooks \subseteq webhooks',
         \A k \in DOMAIN es : es[k].type = "topup" =>
           k = 1 /\ es[k].ref \in webhooks' /\ es[k].ref \notin webhooks
  PROVE  PaidIsProcessed' /\ PaymentCreditedOnce'
<1>1. PaidIsProcessed'
  <2> SUFFICES ASSUME NEW v \in Users, NEW i \in DOMAIN ledger'[v],
                      ledger'[v][i].type = "topup"
               PROVE  ledger'[v][i].ref \in webhooks'
    BY DEF PaidIsProcessed, Paid
  <2> QED BY AppendedRows DEF PaidIsProcessed, Paid
<1>2. PaymentCreditedOnce'
  <2> SUFFICES ASSUME NEW v \in Users, NEW x \in Users,
                      NEW i \in DOMAIN ledger'[v], NEW j \in DOMAIN ledger'[x],
                      ledger'[v][i].type = "topup", ledger'[x][j].type = "topup",
                      ledger'[v][i].ref = ledger'[x][j].ref
               PROVE  v = x /\ i = j
    BY DEF PaymentCreditedOnce, Paid
  <2> DEFINE n == Len(ledger[u])
             Old(y, k) == k \in DOMAIN ledger[y] /\ ledger'[y][k] = ledger[y][k]
             New(y, k) == y = u /\ k - n \in DOMAIN es /\ ledger'[y][k] = es[k - n]
  <2>1. (Old(v, i) \/ New(v, i)) /\ (Old(x, j) \/ New(x, j))
    BY AppendedRows
  <2>2. CASE Old(v, i) /\ Old(x, j)
    BY <2>2 DEF PaymentCreditedOnce, Paid
  <2>3. CASE Old(v, i) /\ New(x, j)
    BY <2>3 DEF PaidIsProcessed, Paid
  <2>4. CASE New(v, i) /\ Old(x, j)
    BY <2>4 DEF PaidIsProcessed, Paid
  <2>5. CASE New(v, i) /\ New(x, j)
    <3>1. i - n = 1 /\ j - n = 1
      BY <2>5
    <3>2. n \in Nat /\ i \in Int /\ j \in Int
      BY DEF TypeOK
    <3> QED BY <2>5, <3>1, <3>2
  <2> QED BY <2>1, <2>2, <2>3, <2>4, <2>5
<1> QED BY <1>1, <1>2

(* A payment is credited at most once, to one user, in one row.            *)
THEOREM PaidOnce == Spec => []PaymentCreditedOnce
<1>1. Init => PaidIsProcessed /\ PaymentCreditedOnce
  BY DEF Init, PaidIsProcessed, PaymentCreditedOnce
<1>2. ASSUME WalletInv, PaidIsProcessed, PaymentCreditedOnce, [Next]_vars
      PROVE  PaidIsProcessed' /\ PaymentCreditedOnce'
  <2>1. CASE UNCHANGED <<ledger, webhooks>>
    BY <1>2, <2>1 DEF PaidIsProcessed, PaymentCreditedOnce, Paid
  <2>2. CASE \E s \in Sessions : \E o \in Orders : PlaceOrder(s, o)
    BY <2>1, <2>2 DEF PlaceOrder
  <2>3. ASSUME NEW s \in Sessions, pc[s] = "post", webhooks' = webhooks,
               NEW w, NEW e \in LedgerRow, e.type # "topup", Write(User(s), w, <<e>>)
        PROVE  PaidIsProcessed' /\ PaymentCreditedOnce'
    <3>1. TypeOK /\ User(s) \in Users
      BY <1>2, <2>3, AtPost
    <3>2. PICK u \in Users : u = User(s)
      BY <3>1
    <3> DEFINE es == <<e>>
    <3>3. /\ es \in Seq(LedgerRow) /\ ledger' = [ledger EXCEPT ![u] = @ \o es]
          /\ \A k \in DOMAIN es : es[k].type # "topup"
      BY <2>3, <3>2 DEF Write
    <3> HIDE DEF es
    <3> QED BY <1>2, <2>3, <3>1, <3>2, <3>3, PaymentsStep
  <2>4. CASE \E s \in Sessions : DebitCredits(s) /\ ~Refuse(s)
    <3>1. PICK s \in Sessions : DebitCredits(s) /\ ~Refuse(s)
      BY <2>4
    <3> DEFINE a == req[s].amount
               e == Row("usage", -a, None)
               w == [snap[s] EXCEPT !.balance = @ - a, !.consumed = @ + a]
    <3>2. pc[s] = "post" /\ webhooks' = webhooks /\ Write(User(s), w, <<e>>)
      BY <3>1 DEF DebitCredits
    <3>3. a \in Nat
      BY <1>2, <3>2, AtPost DEF Request
    <3>4. e \in LedgerRow /\ e.type # "topup"
      BY <3>3 DEF Row, LedgerRow
    <3> HIDE DEF e, w
    <3> QED BY <2>3, <3>2, <3>4
  <2>5. CASE \E s \in Sessions : RefundCredits(s)
    <3>1. PICK s \in Sessions : RefundCredits(s)
      BY <2>5
    <3> DEFINE a == req[s].amount
               e == Row("refund", a, None)
               w == [snap[s] EXCEPT !.balance = @ + a,
                                    !.consumed = IF @ >= a THEN @ - a ELSE @]
    <3>2. pc[s] = "post" /\ webhooks' = webhooks /\ Write(User(s), w, <<e>>)
      BY <3>1 DEF RefundCredits
    <3>3. a \in Nat
      BY <1>2, <3>2, AtPost DEF Request
    <3>4. e \in LedgerRow /\ e.type # "topup"
      BY <3>3, RowType DEF Row
    <3> HIDE DEF e, w
    <3> QED BY <2>3, <3>2, <3>4
  <2>6. CASE \E s \in Sessions : RedeemCoupon(s) /\ ~Refuse(s)
    <3>1. PICK s \in Sessions : RedeemCoupon(s) /\ ~Refuse(s)
      BY <2>6
    <3> DEFINE c == req[s].coupon
               k == coupon[c].credits
               e == Row("coupon", k, c)
               w == [snap[s] EXCEPT !.balance = @ + k, !.purchased = @ + k]
    <3>2. /\ pc[s] = "post" /\ webhooks' = webhooks /\ Write(User(s), w, <<e>>)
          /\ req[s].op = "redeem" /\ coupon[c] # None
      BY <3>1 DEF RedeemCoupon
    <3>3. TypeOK /\ c \in Coupons
      BY <1>2, <3>2, AtPost DEF AskedRight
    <3>4. k \in Nat
      BY <3>2, <3>3 DEF TypeOK, CouponRow
    <3>5. e \in LedgerRow /\ e.type # "topup"
      BY <3>3, <3>4, RowType DEF Row
    <3> HIDE DEF e, w
    <3> QED BY <2>3, <3>2, <3>5
  <2>7. CASE \E s \in Sessions : FulfillPayment(s) /\ ~Refuse(s)
    <3>1. PICK s \in Sessions : FulfillPayment(s) /\ ~Refuse(s)
      BY <2>7
    <3>2. /\ pc[s] = "post" /\ req[s].payment \notin webhooks
          /\ webhooks' = webhooks \cup {req[s].payment}
          /\ ledger' = [ledger EXCEPT ![User(s)] = @ \o PackRows(s)]
      BY <3>1 DEF FulfillPayment, Write
    <3>3. /\ TypeOK /\ User(s) \in Users
          /\ req[s].payment \in Payments
      BY <1>2, <3>1, <3>2, AtPost DEF AskedRight, FulfillPayment
    <3>4. PICK u \in Users : u = User(s)
      BY <3>3
    <3>5. PackRows(s) \in Seq(LedgerRow)
      BY <3>3, PackRowsType
    <3>6. \A k \in DOMAIN PackRows(s) : PackRows(s)[k].type = "topup" =>
            k = 1 /\ PackRows(s)[k].ref = req[s].payment
      BY DEF PackRows, Row
    <3> QED BY <1>2, <3>2, <3>3, <3>4, <3>5, <3>6, PaymentsStep
  <2> QED BY <1>2, <2>1, <2>2, <2>4, <2>5, <2>6, <2>7, QuietStep
<1> QED BY <1>1, <1>2, InitInv, NextInv, PTL DEF Spec

(***************************************************************************)
(* Redemptions.                                                            *)
(***************************************************************************)

Allowed(c) ==
  /\ coupon[c] # None /\ coupon[c].enabled /\ ~coupon[c].archived
  /\ BelowLimit(c)

(* From the check to the commit a redemption holds the coupon row, and what *)
(* the check has found still holds.                                        *)
HoldsCoupon(s) ==
  /\ pc[s] = "check coupon" => lock[req[s].coupon] = s
  /\ (pc[s] \in {"wallet", "insert", "post"} /\ req[s].op = "redeem") =>
       lock[req[s].coupon] = s /\ Allowed(req[s].coupon)

CouponsAreHeld == \A s \in Sessions : HoldsCoupon(s)

(* The steps that may change what a redemption relies on leave a coupon    *)
(* row alone that is locked by another session; time passes all the same.  *)
Stays(c) ==
  /\ lock'[c] = lock[c] /\ redeemed'[c] = redeemed[c]
  /\ coupon[c] # None =>
       /\ coupon'[c] # None
       /\ coupon'[c].enabled = coupon[c].enabled
       /\ coupon'[c].archived = coupon[c].archived
       /\ coupon'[c].limit = coupon[c].limit

LEMMA StaysAllowed ==
  ASSUME NEW c \in Coupons, Stays(c), Allowed(c)
  PROVE  Allowed(c)'
  BY DEF Stays, Allowed, BelowLimit

LEMMA OthersHoldCoupon ==
  ASSUME NEW s \in Sessions, NEW t \in Sessions \ {s}, AskedRight(t), HoldsCoupon(t),
         pc'[t] = pc[t], req'[t] = req[t],
         \A c \in Coupons : lock[c] \notin {s, None} => Stays(c)
  PROVE  HoldsCoupon(t)'
<1>1. t \notin {s, None}
  BY WalletAssumption
<1>2. CASE pc[t] = "check coupon"
  <2>1. req[t].coupon \in Coupons
    BY <1>2 DEF AskedRight
  <2> QED BY <1>1, <1>2, <2>1 DEF HoldsCoupon, Stays
<1>3. CASE pc[t] \in {"wallet", "insert", "post"} /\ req[t].op = "redeem"
  <2>1. req[t].coupon \in Coupons
    BY <1>3 DEF AskedRight
  <2>2. lock[req[t].coupon] = t /\ Allowed(req[t].coupon)
    BY <1>3 DEF HoldsCoupon
  <2>3. Stays(req[t].coupon)
    BY <1>1, <2>1, <2>2
  <2>4. PICK c \in Coupons : c = req[t].coupon
    BY <2>1
  <2>5. lock'[c] = t /\ Allowed(c)'
    BY <2>2, <2>3, <2>4, StaysAllowed DEF Stays
  <2> QED BY <1>3, <2>4, <2>5 DEF HoldsCoupon, Allowed, BelowLimit
<1>4. CASE /\ pc[t] # "check coupon"
           /\ ~(pc[t] \in {"wallet", "insert", "post"} /\ req[t].op = "redeem")
  BY <1>4 DEF HoldsCoupon
<1> QED BY <1>2, <1>3, <1>4

(* A step of session s leaves the coupons of the others alone.             *)
Beside(s) ==
  /\ \A t \in Sessions \ {s} : pc'[t] = pc[t] /\ req'[t] = req[t]
  /\ \A c \in Coupons : lock[c] \notin {s, None} => Stays(c)

LEMMA HeldStep ==
  ASSUME WalletInv, CouponsAreHeld, NEW s \in Sessions, Beside(s), HoldsCoupon(s)'
  PROVE  CouponsAreHeld'
  BY OthersHoldCoupon DEF WalletInv, WellFormed, CouponsAreHeld, Beside

LEMMA EndHeld ==
  ASSUME WalletInv, CouponsAreHeld, NEW s \in Sessions, End(s),
         \A c \in Coupons : lock[c] \notin {s, None} =>
           coupon'[c] = coupon[c] /\ redeemed'[c] = redeemed[c]
  PROVE  CouponsAreHeld'
<1>1. TypeOK
  BY DEF WalletInv
<1>2. Beside(s)
  BY <1>1, EndFrame DEF Beside, Stays, Rows
<1>3. HoldsCoupon(s)'
  BY <1>1, EndFrame DEF HoldsCoupon
<1> QED BY <1>2, <1>3, HeldStep

LEMMA RefuseHeld ==
  ASSUME WalletInv, CouponsAreHeld, NEW s \in Sessions, Refuse(s)
  PROVE  CouponsAreHeld'
  BY EndHeld DEF Refuse, tables

(* A session moves on, and may take the lock of a free row on its way.     *)
LEMMA MoveHeld ==
  ASSUME WalletInv, CouponsAreHeld, NEW s \in Sessions,
         UNCHANGED <<coupon, redeemed>>, NEW where, NEW r,
         pc' = [pc EXCEPT ![s] = where], req' = [req EXCEPT ![s] = r],
         lock' = lock \/ (\E k \in Rows : Acquire(s, k)),
         HoldsCoupon(s)'
  PROVE  CouponsAreHeld'
<1>1. TypeOK
  BY DEF WalletInv
<1>2. \A c \in Coupons : lock[c] \notin {s, None} => lock'[c] = lock[c]
  BY <1>1 DEF TypeOK, Acquire, Rows
<1>3. Beside(s)
  BY <1>1, <1>2 DEF Beside, Stays, TypeOK
<1> QED BY <1>3, HeldStep

LEMMA StartHeld ==
  ASSUME WalletInv, CouponsAreHeld, NEW s \in Sessions, NEW r, NEW where, Start(s, r, where),
         \/ where = "wallet" /\ r.op # "redeem"
         \/ where \in {"experiment", "coupon", "erase", "order"}
  PROVE  CouponsAreHeld'
<1>1. /\ pc' = [pc EXCEPT ![s] = where] /\ req' = [req EXCEPT ![s] = r]
      /\ lock' = lock /\ UNCHANGED <<coupon, redeemed>>
  BY DEF Start, Goto, tables
<1>2. pc'[s] = where /\ req'[s] = r
  BY <1>1 DEF WalletInv, TypeOK
<1>3. HoldsCoupon(s)'
  BY <1>2 DEF HoldsCoupon
<1> QED BY <1>1, <1>3, MoveHeld

LEMMA ArriveHeld ==
  ASSUME WalletInv, CouponsAreHeld, NEW s \in Sessions, Arrive(s)
  PROVE  CouponsAreHeld'
<1>1. ASSUME NEW e \in Experiments, NEW a \in Prices, StartDebit(s, e, a)
      PROVE  CouponsAreHeld'
  BY <1>1, StartHeld DEF StartDebit
<1>2. ASSUME NEW u \in Users, NEW c \in Coupons, StartRedeem(s, u, c) PROVE CouponsAreHeld'
  BY <1>2, StartHeld DEF StartRedeem
<1>3. ASSUME NEW u \in Users, StartOrder(s, u) PROVE CouponsAreHeld'
  BY <1>3, StartHeld DEF StartOrder, NoRequest
<1>4. ASSUME NEW u \in Users, NEW o \in Orders, NEW p \in Payments, StartVerify(s, u, o, p)
      PROVE  CouponsAreHeld'
  BY <1>4, StartHeld DEF StartVerify
<1>5. ASSUME NEW c \in Coupons, StartDelete(s, c) PROVE CouponsAreHeld'
  BY <1>5, StartHeld DEF StartDelete
<1> QED BY <1>1, <1>2, <1>3, <1>4, <1>5 DEF Arrive

(* On the way to the commit: the row of the wallet is no coupon.           *)
LEMMA WalletHeld ==
  ASSUME WalletInv, CouponsAreHeld, NEW s \in Sessions,
         FindWallet(s) \/ (InsertWallet(s) /\ ~Refuse(s))
  PROVE  CouponsAreHeld'
<1>1. TypeOK /\ AskedRight(s) /\ HoldsCoupon(s) /\ pc[s] \in {"wallet", "insert"}
  BY DEF WalletInv, WellFormed, CouponsAreHeld, FindWallet, InsertWallet
<1>2. User(s) \in Users
  BY <1>1 DEF AskedRight
<1>3. PICK where \in {"insert", "gateway", "post"} :
        /\ Goto(s, where) /\ UNCHANGED <<tables, req>>
        /\ lock' = lock \/ Acquire(s, User(s))
  BY DEF FindWallet, InsertWallet
<1>4. /\ pc' = [pc EXCEPT ![s] = where] /\ req' = [req EXCEPT ![s] = req[s]]
      /\ UNCHANGED <<coupon, redeemed>> /\ pc'[s] = where /\ req'[s] = req[s]
  BY <1>1, <1>3 DEF Goto, TypeOK, tables
<1>5. \A c \in Coupons : lock'[c] = lock[c]
  <2>1. \A c \in Coupons : c \in Rows /\ c # User(s)
    BY <1>2, WalletAssumption DEF Rows
  <2>2. lock' = lock \/ lock' = [lock EXCEPT ![User(s)] = s]
    BY <1>3 DEF Acquire
  <2> QED BY <1>1, <2>1, <2>2 DEF TypeOK
<1>6. HoldsCoupon(s)'
  <2>1. CASE req[s].op = "redeem"
    <3>1. req[s].coupon \in Coupons
      BY <1>1, <2>1 DEF AskedRight
    <3> QED BY <1>1, <1>4, <1>5, <2>1, <3>1 DEF HoldsCoupon, Allowed, BelowLimit
  <2> QED BY <1>4, <2>1 DEF HoldsCoupon
<1>7. lock' = lock \/ (\E k \in Rows : Acquire(s, k))
  BY <1>2, <1>3 DEF Rows
<1> QED BY <1>4, <1>6, <1>7, MoveHeld

LEMMA LockCouponHeld ==
  ASSUME WalletInv, CouponsAreHeld, NEW s \in Sessions,
         LockCoupon(s) \/ CheckCoupon(s), ~Refuse(s)
  PROVE  CouponsAreHeld'
<1>1. TypeOK /\ AskedRight(s) /\ HoldsCoupon(s) /\ pc[s] \in {"coupon", "check coupon"}
  BY DEF WalletInv, WellFormed, CouponsAreHeld, LockCoupon, CheckCoupon
<1>2. req[s].op = "redeem" /\ req[s].coupon \in Coupons
  BY <1>1 DEF AskedRight
<1>3. req' = [req EXCEPT ![s] = req[s]] /\ req'[s] = req[s] /\ UNCHANGED <<coupon, redeemed>>
  BY <1>1 DEF LockCoupon, CheckCoupon, tables, TypeOK
<1>4. CASE LockCoupon(s)
  <2>1. /\ Acquire(s, req[s].coupon) /\ pc' = [pc EXCEPT ![s] = "check coupon"]
        /\ req[s].coupon \in Rows
    BY <1>2, <1>4 DEF LockCoupon, Goto, Rows
  <2>2. pc'[s] = "check coupon" /\ lock'[req[s].coupon] = s
    BY <1>1, <2>1 DEF Acquire, TypeOK
  <2>3. HoldsCoupon(s)'
    BY <1>3, <2>2 DEF HoldsCoupon
  <2> QED BY <1>3, <2>1, <2>3, MoveHeld
<1>5. CASE CheckCoupon(s)
  <2>1. /\ pc[s] = "check coupon" /\ lock' = lock /\ pc' = [pc EXCEPT ![s] = "wallet"]
        /\ Open(req[s].coupon) /\ BelowLimit(req[s].coupon)
    BY <1>5 DEF CheckCoupon, Goto, MayRedeem
  <2>2. pc'[s] = "wallet" /\ lock'[req[s].coupon] = s
    BY <1>1, <2>1 DEF TypeOK, HoldsCoupon
  <2>3. HoldsCoupon(s)'
    BY <1>3, <2>1, <2>2 DEF HoldsCoupon, Allowed, Open, BelowLimit
  <2> QED BY <1>3, <2>1, <2>3, MoveHeld
<1> QED BY <1>4, <1>5

(* Steps of requests that are no redemption, to a place that asks nothing. *)
LEMMA OtherHeld ==
  ASSUME WalletInv, CouponsAreHeld, NEW s \in Sessions,
         \/ (LockOrder(s) \/ CheckPayment(s) \/ DebitCredits(s)) /\ ~Refuse(s)
         \/ LockExperiment(s) \/ StartRefund(s)
  PROVE  CouponsAreHeld'
<1>1. TypeOK /\ AskedRight(s)
  BY DEF WalletInv, WellFormed
<1>2. CASE (LockOrder(s) \/ CheckPayment(s)) /\ ~Refuse(s)
  <2>1. req[s].op = "verify" /\ req[s].order \in Rows
    BY <1>1, <1>2 DEF AskedRight, LockOrder, CheckPayment, Rows
  <2>2. PICK where : /\ pc' = [pc EXCEPT ![s] = where] /\ where \in {"check payment", "wallet"}
                     /\ UNCHANGED <<tables, req>>
                     /\ lock' = lock \/ Acquire(s, req[s].order)
    BY <1>2 DEF LockOrder, CheckPayment, Goto
  <2>3. pc'[s] = where /\ req' = [req EXCEPT ![s] = req[s]] /\ req'[s] = req[s]
    BY <1>1, <2>2 DEF TypeOK
  <2>4. HoldsCoupon(s)'
    BY <2>1, <2>2, <2>3 DEF HoldsCoupon
  <2> QED BY <2>1, <2>2, <2>3, <2>4, MoveHeld DEF tables
<1>3. CASE DebitCredits(s) /\ ~Refuse(s)
  <2>1. /\ pc' = [pc EXCEPT ![s] = "charged"] /\ UNCHANGED <<coupon, redeemed, req>>
        /\ ReleaseAll(s)
    BY <1>3 DEF DebitCredits, Goto
  <2>2. \A c \in Coupons : lock[c] \notin {s, None} => lock'[c] = lock[c]
    BY <1>1, <2>1 DEF ReleaseAll, Rows, TypeOK
  <2>3. Beside(s)
    BY <1>1, <2>1, <2>2 DEF Beside, Stays, TypeOK
  <2>4. pc'[s] = "charged"
    BY <1>1, <2>1 DEF TypeOK
  <2>5. HoldsCoupon(s)'
    BY <2>4 DEF HoldsCoupon
  <2> QED BY <2>3, <2>5, HeldStep
<1>4. CASE StartRefund(s)
  <2> DEFINE r == [req[s] EXCEPT !.op = "refund"]
  <2>1. PICK first \in {"experiment", "wallet"} :
          /\ pc' = [pc EXCEPT ![s] = first] /\ req' = [req EXCEPT ![s] = r]
          /\ lock' = lock /\ UNCHANGED <<coupon, redeemed>>
    BY <1>1, <1>4 DEF StartRefund, Goto, tables, TypeOK
  <2>2. r.op = "refund"
    <3>1. req[s] \in Request
      BY <1>1 DEF TypeOK
    <3> QED BY <3>1 DEF Request
  <2> HIDE DEF r
  <2>3. pc'[s] = first /\ req'[s] = r
    BY <1>1, <2>1 DEF TypeOK
  <2>4. HoldsCoupon(s)'
    BY <2>1, <2>2, <2>3 DEF HoldsCoupon
  <2> QED BY <2>1, <2>4, MoveHeld
<1>5. CASE LockExperiment(s)
  <2>1. req[s].op \in {"debit", "refund"} /\ req[s].experiment \in Rows
    BY <1>1, <1>5 DEF AskedRight, LockExperiment, Rows
  <2>2. /\ pc' = [pc EXCEPT ![s] = "wallet"] /\ req' = [req EXCEPT ![s] = req[s]]
        /\ req'[s] = req[s] /\ pc'[s] = "wallet"
        /\ Acquire(s, req[s].experiment) /\ UNCHANGED <<coupon, redeemed>>
    BY <1>1, <1>5 DEF LockExperiment, Goto, tables, TypeOK
  <2>3. HoldsCoupon(s)'
    BY <2>1, <2>2 DEF HoldsCoupon
  <2> QED BY <2>1, <2>2, <2>3, MoveHeld
<1> QED BY <1>2, <1>3, <1>4, <1>5

(* Commits: a redemption changes the coupon it holds, a delete a free one. *)
LEMMA CommitHeld ==
  ASSUME WalletInv, CouponsAreHeld, NEW s \in Sessions,
         \/ RefundCredits(s) \/ RedeemCoupon(s) \/ DeleteCoupon(s) \/ FulfillPayment(s)
         \/ \E o \in Orders : PlaceOrder(s, o)
  PROVE  CouponsAreHeld'
<1>1. TypeOK /\ AskedRight(s) /\ HoldsCoupon(s)
  BY DEF WalletInv, WellFormed, CouponsAreHeld
<1>2. CASE RedeemCoupon(s) /\ ~Refuse(s)
  <2>1. /\ End(s) /\ coupon' = coupon
        /\ redeemed' = [redeemed EXCEPT ![req[s].coupon] = @ \cup {User(s)}]
        /\ lock[req[s].coupon] = s
    BY <1>1, <1>2 DEF RedeemCoupon, HoldsCoupon
  <2>2. \A c \in Coupons : lock[c] \notin {s, None} => redeemed'[c] = redeemed[c]
    BY <1>1, <2>1 DEF TypeOK
  <2> QED BY <2>1, <2>2, EndHeld
<1>3. CASE DeleteCoupon(s)
  <2>1. /\ End(s) /\ lock[req[s].coupon] = None
        /\ coupon' = [coupon EXCEPT ![req[s].coupon] = None]
        /\ redeemed' = [redeemed EXCEPT ![req[s].coupon] = {}]
    BY <1>3 DEF DeleteCoupon
  <2>2. \A c \in Coupons : lock[c] # None =>
          coupon'[c] = coupon[c] /\ redeemed'[c] = redeemed[c]
    BY <1>1, <2>1 DEF TypeOK
  <2> QED BY <2>1, <2>2, EndHeld
<1>4. CASE Refuse(s)
  BY <1>4, RefuseHeld
<1>5. CASE RefundCredits(s) \/ (FulfillPayment(s) /\ ~Refuse(s))
           \/ (\E o \in Orders : PlaceOrder(s, o))
  <2>1. End(s) /\ UNCHANGED <<coupon, redeemed>>
    BY <1>5 DEF RefundCredits, FulfillPayment, PlaceOrder
  <2> QED BY <2>1, EndHeld
<1> QED BY <1>2, <1>3, <1>4, <1>5

(* Administrators wait for the row; time does not, and is not asked again. *)
LEMMA AdministerHeld ==
  ASSUME WalletInv, CouponsAreHeld, NEW d \in Coupons, Administer(d)
  PROVE  CouponsAreHeld'
<1>1. TypeOK
  BY DEF WalletInv
<1>2. UNCHANGED <<lock, pc, req, redeemed>>
  BY DEF Administer, CreateCoupon, UpdateCoupon, ArchiveCoupon, RestoreCoupon,
     CouponWindow, SetCoupon
<1>3. ASSUME NEW c \in Coupons, lock[c] # None PROVE Stays(c)
  <2>1. CASE CouponWindow(d)
    <3>1. /\ coupon[d] \in CouponRow
          /\ coupon' = [coupon EXCEPT ![d].window = IF @ = "before" THEN "open" ELSE "after"]
      BY <1>1, <2>1 DEF CouponWindow, TypeOK
    <3>2. CASE c = d
      <4>1. coupon'[c] = [coupon[c] EXCEPT !.window = IF @ = "before" THEN "open" ELSE "after"]
        BY <1>1, <3>1, <3>2 DEF TypeOK
      <4>2. coupon'[c] \in CouponRow
        BY <3>1, <3>2, <4>1 DEF CouponRow
      <4> QED BY <1>2, <3>1, <3>2, <4>1, <4>2, MissingRow DEF Stays, CouponRow
    <3>3. CASE c # d
      BY <1>1, <1>2, <3>1, <3>3 DEF Stays, TypeOK
    <3> QED BY <3>2, <3>3
  <2>2. CASE \E op, row : SetCoupon(op, d, row)
    BY <1>1, <1>2, <1>3, <2>2 DEF SetCoupon, Stays, TypeOK
  <2>3. CouponWindow(d) \/ \E op, row : SetCoupon(op, d, row)
    BY DEF Administer, CreateCoupon, UpdateCoupon, ArchiveCoupon, RestoreCoupon
  <2> QED BY <2>1, <2>2, <2>3
<1>4. ASSUME NEW s \in Sessions PROVE HoldsCoupon(s)'
  <2>1. AskedRight(s) /\ HoldsCoupon(s) /\ s # None
    BY WalletAssumption DEF WalletInv, WellFormed, CouponsAreHeld
  <2>2. CASE pc[s] = "check coupon"
    BY <1>2, <2>1, <2>2 DEF HoldsCoupon
  <2>3. CASE pc[s] \in {"wallet", "insert", "post"} /\ req[s].op = "redeem"
    <3>1. req[s].coupon \in Coupons /\ lock[req[s].coupon] = s /\ Allowed(req[s].coupon)
      BY <2>1, <2>3 DEF AskedRight, HoldsCoupon
    <3>2. PICK c \in Coupons : c = req[s].coupon
      BY <3>1
    <3>3. Allowed(c)'
      BY <1>3, <2>1, <3>1, <3>2, StaysAllowed
    <3> QED BY <1>2, <2>3, <3>1, <3>2, <3>3 DEF HoldsCoupon, Allowed, BelowLimit
  <2> QED BY <1>2, <2>2, <2>3 DEF HoldsCoupon
<1> QED BY <1>4 DEF CouponsAreHeld

LEMMA HeldInv ==
  ASSUME WalletInv, CouponsAreHeld, [Next]_vars
  PROVE  CouponsAreHeld'
<1>1. CASE UNCHANGED vars \/ Served
  <2>1. UNCHANGED vars
    BY <1>1 DEF Served
  <2> QED BY <2>1 DEF vars, CouponsAreHeld, HoldsCoupon, Allowed, BelowLimit
<1>2. ASSUME NEW s \in Sessions, Work(s) PROVE CouponsAreHeld'
  <2>1. CASE Refuse(s)
    BY <2>1, RefuseHeld
  <2>2. CASE ~Refuse(s)
    <3>1. \/ FindWallet(s) \/ InsertWallet(s) \/ LockCoupon(s) \/ CheckCoupon(s)
          \/ LockOrder(s) \/ CheckPayment(s) \/ DebitCredits(s) \/ StartRefund(s)
          \/ RefundCredits(s) \/ RedeemCoupon(s) \/ DeleteCoupon(s) \/ FulfillPayment(s)
          \/ LockExperiment(s) \/ \E o \in Orders : PlaceOrder(s, o)
      BY <1>2, <2>2 DEF Work, Deliver, GatewayFails, Victim
    <3> QED BY <2>2, <3>1, WalletHeld, LockCouponHeld, OtherHeld, CommitHeld
  <2> QED BY <2>1, <2>2
<1>3. ASSUME NEW s \in Sessions, Arrive(s) PROVE CouponsAreHeld'
  BY <1>3, ArriveHeld
<1>4. ASSUME NEW s \in Sessions, Rollback(s) PROVE CouponsAreHeld'
  BY <1>4, RefuseHeld DEF Rollback
<1>5. ASSUME NEW c \in Coupons, Administer(c) PROVE CouponsAreHeld'
  BY <1>5, AdministerHeld
<1> QED BY <1>1, <1>2, <1>3, <1>4, <1>5 DEF Next

(* A redemption commits only while its coupon is enabled, not archived and *)
(* below its limit, whoever edits or redeems it in between.                *)
THEOREM RedemptionsAllowed == Spec => RedemptionIsAllowed
<1>1. Init => CouponsAreHeld
  BY DEF Init, CouponsAreHeld, HoldsCoupon
<1>2. ASSUME WalletInv, CouponsAreHeld, [Next]_vars, NEW c \in Coupons,
             NEW u \in redeemed'[c] \ redeemed[c]
      PROVE  Allowed(c)
  <2>1. TypeOK
    BY <1>2 DEF WalletInv
  <2>2. PICK s \in Sessions : RedeemCoupon(s) /\ ~Refuse(s)
    <3>1. redeemed' # redeemed
      BY <1>2
    <3>2. ~(\E s \in Sessions : DeleteCoupon(s))
      BY <1>2, <2>1 DEF DeleteCoupon, TypeOK
    <3>3. ASSUME NEW s \in Sessions, Work(s) PROVE RedeemCoupon(s) /\ ~Refuse(s)
      BY <3>1, <3>2, <3>3 DEF Work, LockExperiment, FindWallet, InsertWallet, Victim,
         DebitCredits, Deliver, StartRefund, RefundCredits, LockCoupon, CheckCoupon, LockOrder, CheckPayment,
         FulfillPayment, PlaceOrder, GatewayFails, Refuse, tables
    <3>4. \A s \in Sessions : ~Arrive(s)
      BY <3>1 DEF Arrive, StartDebit, StartRedeem, StartOrder, StartVerify, StartDelete,
         Start, tables
    <3>5. \A d \in Coupons : ~Administer(d)
      BY <3>1 DEF Administer, CreateCoupon, UpdateCoupon, ArchiveCoupon, RestoreCoupon,
         CouponWindow, SetCoupon
    <3>6. ~Served /\ ~UNCHANGED vars /\ \A s \in Sessions : ~Rollback(s)
      BY <3>1 DEF Served, vars, Rollback, Refuse, tables
    <3> QED BY <1>2, <3>3, <3>4, <3>5, <3>6 DEF Next
  <2>3. /\ pc[s] = "post" /\ req[s].op = "redeem"
        /\ redeemed' = [redeemed EXCEPT ![req[s].coupon] = @ \cup {User(s)}]
    BY <2>2 DEF RedeemCoupon
  <2>4. c = req[s].coupon
    BY <1>2, <2>1, <2>3 DEF TypeOK
  <2> QED BY <1>2, <2>3, <2>4 DEF CouponsAreHeld, HoldsCoupon
<1>3. ASSUME WalletInv, CouponsAreHeld, [Next]_vars
      PROVE  [\A c \in Coupons : \A u \in redeemed'[c] \ redeemed[c] :
                /\ coupon[c] # None /\ coupon[c].enabled /\ ~coupon[c].archived
                /\ BelowLimit(c)]_vars
  BY <1>2, <1>3 DEF Allowed
<1> QED BY <1>1, <1>3, HeldInv, InitInv, NextInv, PTL DEF Spec, RedemptionIsAllowed

(***************************************************************************)
(* Coupons are credited once.                                              *)
(***************************************************************************)

(* A credit of a coupon has its redemption, and no coupon is being deleted. *)
CreditIsRedeemed ==
  /\ \A u \in Users : \A i \in DOMAIN ledger[u] :
       ledger[u][i].type = "coupon" =>
         ledger[u][i].ref \in Coupons /\ u \in redeemed[ledger[u][i].ref]
  /\ \A s \in Sessions : pc[s] # "erase"

LEMMA NoErase ==
  ASSUME "delete" \notin AdminOps, TypeOK, [Next]_vars, \A s \in Sessions : pc[s] # "erase"
  PROVE  \A s \in Sessions : pc'[s] # "erase" /\ ~DeleteCoupon(s)
<1>1. ASSUME NEW s \in Sessions PROVE ~DeleteCoupon(s)
  BY DEF DeleteCoupon
<1>2. \/ pc' = pc
      \/ \E s \in Sessions : \E where \in Places \ {"erase"} : pc' = [pc EXCEPT ![s] = where]
  <2>1. CASE UNCHANGED vars \/ Served
    BY <2>1 DEF Served, vars
  <2>2. ASSUME NEW s \in Sessions, Refuse(s)
        PROVE  \E where \in Places \ {"erase"} : pc' = [pc EXCEPT ![s] = where]
    BY <2>2 DEF Refuse, End, Goto, Places
  <2>3. ASSUME NEW s \in Sessions, Work(s)
        PROVE  \E where \in Places \ {"erase"} : pc' = [pc EXCEPT ![s] = where]
    BY <1>1, <2>2, <2>3 DEF Work, LockExperiment, FindWallet, InsertWallet, Victim,
       DebitCredits, Deliver, StartRefund, RefundCredits, LockCoupon, CheckCoupon, RedeemCoupon, LockOrder,
       CheckPayment, FulfillPayment, PlaceOrder, GatewayFails, End, Goto, Places
  <2>4. ASSUME NEW s \in Sessions, Arrive(s)
        PROVE  \E where \in Places \ {"erase"} : pc' = [pc EXCEPT ![s] = where]
    <3>1. ~(\E c \in Coupons : StartDelete(s, c))
      BY DEF StartDelete
    <3> QED BY <2>4, <3>1 DEF Arrive, StartDebit, StartRedeem, StartOrder, StartVerify,
               Start, Goto, Places
  <2>5. ASSUME NEW c \in Coupons, Administer(c) PROVE pc' = pc
    BY <2>5 DEF Administer, CreateCoupon, UpdateCoupon, ArchiveCoupon, RestoreCoupon,
       CouponWindow, SetCoupon
  <2> QED BY <2>1, <2>2, <2>3, <2>4, <2>5 DEF Next, Rollback
<1> QED BY <1>1, <1>2 DEF TypeOK

(* Redemptions are only added, by the session that credits them.           *)
LEMMA RedeemedGrows ==
  ASSUME TypeOK, [Next]_vars, \A s \in Sessions : ~DeleteCoupon(s)
  PROVE  \/ redeemed' = redeemed
         \/ \E s \in Sessions : RedeemCoupon(s) /\ ~Refuse(s)
<1>1. ASSUME NEW s \in Sessions, Refuse(s) PROVE redeemed' = redeemed
  BY <1>1 DEF Refuse, tables
<1>2. ASSUME NEW s \in Sessions, Arrive(s) PROVE redeemed' = redeemed
  BY <1>2 DEF Arrive, Start, tables, StartDebit, StartRedeem, StartOrder,
     StartVerify, StartDelete
<1>3. ASSUME NEW c \in Coupons, Administer(c) PROVE redeemed' = redeemed
  BY <1>3 DEF Administer, CreateCoupon, UpdateCoupon, ArchiveCoupon, RestoreCoupon,
     CouponWindow, SetCoupon
<1>4. CASE UNCHANGED vars \/ Served
  BY <1>4 DEF Served, vars
<1>5. ASSUME NEW s \in Sessions, Work(s)
      PROVE  redeemed' = redeemed \/ (RedeemCoupon(s) /\ ~Refuse(s))
  BY <1>1, <1>5 DEF Work, LockExperiment, FindWallet, InsertWallet, Victim,
     DebitCredits, Deliver, StartRefund, RefundCredits, LockCoupon, CheckCoupon, LockOrder, CheckPayment,
     FulfillPayment, PlaceOrder, GatewayFails, tables
<1> QED BY <1>1, <1>2, <1>3, <1>4, <1>5 DEF Next, Rollback

(* Rows of another type make no credit of a coupon.                        *)
LEMMA NoCouponRow ==
  ASSUME TypeOK, CreditIsRedeemed, CouponCreditedOnce,
         NEW u \in Users, NEW es \in Seq(LedgerRow),
         ledger' = [ledger EXCEPT ![u] = @ \o es], redeemed' = redeemed,
         \A k \in DOMAIN es : es[k].type # "coupon"
  PROVE  /\ \A v \in Users : \A i \in DOMAIN ledger'[v] :
              ledger'[v][i].type = "coupon" =>
                ledger'[v][i].ref \in Coupons /\ v \in redeemed'[ledger'[v][i].ref]
         /\ CouponCreditedOnce'
<1>1. ASSUME NEW v \in Users, NEW i \in DOMAIN ledger'[v], ledger'[v][i].type = "coupon"
      PROVE  i \in DOMAIN ledger[v] /\ ledger'[v][i] = ledger[v][i]
  BY <1>1, AppendedRows
<1> QED BY <1>1 DEF CreditIsRedeemed, CouponCreditedOnce

(* The row of a new redemption is the first of its coupon for its user.    *)
LEMMA CouponRowStep ==
  ASSUME TypeOK, CreditIsRedeemed, CouponCreditedOnce,
         NEW u \in Users, NEW c \in Coupons, u \notin redeemed[c],
         NEW e \in LedgerRow, e.ref = c,
         ledger' = [ledger EXCEPT ![u] = @ \o <<e>>],
         redeemed' = [redeemed EXCEPT ![c] = @ \cup {u}]
  PROVE  /\ \A v \in Users : \A i \in DOMAIN ledger'[v] :
              ledger'[v][i].type = "coupon" =>
                ledger'[v][i].ref \in Coupons /\ v \in redeemed'[ledger'[v][i].ref]
         /\ CouponCreditedOnce'
<1> DEFINE n == Len(ledger[u])
           Old(y, k) == k \in DOMAIN ledger[y] /\ ledger'[y][k] = ledger[y][k]
           New(y, k) == y = u /\ k = n + 1 /\ ledger'[y][k] = e
<1>1. ASSUME NEW v \in Users, NEW i \in DOMAIN ledger'[v] PROVE Old(v, i) \/ New(v, i)
  <2> DEFINE es == <<e>>
  <2>1. es \in Seq(LedgerRow) /\ DOMAIN es = {1} /\ es[1] = e /\ n \in Nat
    BY DEF TypeOK
  <2>2. ledger' = [ledger EXCEPT ![u] = @ \o es]
    OBVIOUS
  <2>3. DOMAIN ledger'[v] \subseteq Int
    <3>1. ledger[u] \o es \in Seq(LedgerRow)
      BY <2>1, ConcatProperties DEF TypeOK
    <3>2. ledger'[v] \in Seq(LedgerRow)
      BY <2>2, <3>1 DEF TypeOK
    <3> QED BY <3>2
  <2> HIDE DEF es
  <2>4. \/ i \in DOMAIN ledger[v] /\ ledger'[v][i] = ledger[v][i]
        \/ v = u /\ i - n \in DOMAIN es /\ ledger'[v][i] = es[i - n]
    BY <2>1, <2>2, AppendedRows
  <2> QED BY <2>1, <2>3, <2>4
<1>2. \A d \in Coupons : redeemed[d] \subseteq redeemed'[d] /\ u \in redeemed'[c]
  BY DEF TypeOK
<1>3. ASSUME NEW v \in Users, NEW i \in DOMAIN ledger'[v], ledger'[v][i].type = "coupon"
      PROVE  ledger'[v][i].ref \in Coupons /\ v \in redeemed'[ledger'[v][i].ref]
  BY <1>1, <1>2, <1>3 DEF CreditIsRedeemed
<1>4. ASSUME NEW v \in Users, NEW i \in DOMAIN ledger'[v], NEW j \in DOMAIN ledger'[v],
             ledger'[v][i].type = "coupon", ledger'[v][j].type = "coupon",
             ledger'[v][i].ref = ledger'[v][j].ref
      PROVE  i = j
  <2>1. (Old(v, i) \/ New(v, i)) /\ (Old(v, j) \/ New(v, j))
    BY <1>1
  <2>2. CASE Old(v, i) /\ Old(v, j)
    BY <1>4, <2>2 DEF CouponCreditedOnce
  <2>3. CASE Old(v, i) /\ New(v, j)
    BY <1>4, <2>3 DEF CreditIsRedeemed
  <2>4. CASE New(v, i) /\ Old(v, j)
    BY <1>4, <2>4 DEF CreditIsRedeemed
  <2>5. CASE New(v, i) /\ New(v, j)
    BY <2>5
  <2> QED BY <2>1, <2>2, <2>3, <2>4, <2>5
<1> QED BY <1>3, <1>4 DEF CouponCreditedOnce

LEMMA CouponsStep ==
  ASSUME "delete" \notin AdminOps, WalletInv, CreditIsRedeemed, CouponCreditedOnce, [Next]_vars
  PROVE  CreditIsRedeemed' /\ CouponCreditedOnce'
<1>1. TypeOK /\ \A s \in Sessions : pc[s] # "erase"
  BY DEF WalletInv, CreditIsRedeemed
<1>2. \A s \in Sessions : pc'[s] # "erase" /\ ~DeleteCoupon(s)
  BY <1>1, NoErase
<1> DEFINE Goal == /\ \A v \in Users : \A i \in DOMAIN ledger'[v] :
                        ledger'[v][i].type = "coupon" =>
                          ledger'[v][i].ref \in Coupons /\ v \in redeemed'[ledger'[v][i].ref]
                   /\ CouponCreditedOnce'
<1>3. SUFFICES Goal
  BY <1>2 DEF CreditIsRedeemed
<1>4. ASSUME NEW s \in Sessions, RedeemCoupon(s), ~Refuse(s) PROVE Goal
  <2> DEFINE c == req[s].coupon
             k == coupon[c].credits
             e == Row("coupon", k, c)
  <2>1. /\ pc[s] = "post" /\ req[s].op = "redeem" /\ coupon[c] # None
        /\ User(s) \notin redeemed[c]
        /\ ledger' = [ledger EXCEPT ![User(s)] = @ \o <<e>>]
        /\ redeemed' = [redeemed EXCEPT ![c] = @ \cup {User(s)}]
    BY <1>4 DEF RedeemCoupon, Write
  <2>2. User(s) \in Users /\ c \in Coupons
    BY <2>1, AtPost DEF AskedRight
  <2>3. k \in Int
    BY <1>1, <2>1, <2>2 DEF TypeOK, CouponRow
  <2>4. e \in LedgerRow /\ e.ref = c
    BY <2>2, <2>3, RowType DEF Row
  <2> HIDE DEF e, k
  <2>5. PICK u \in Users, d \in Coupons : u = User(s) /\ d = c
    BY <2>2
  <2> QED BY <1>1, <2>1, <2>4, <2>5, CouponRowStep
<1>5. ASSUME NEW s \in Sessions, pc[s] = "post", redeemed' = redeemed,
             NEW es \in Seq(LedgerRow), ledger' = [ledger EXCEPT ![User(s)] = @ \o es],
             \A k \in DOMAIN es : es[k].type # "coupon"
      PROVE  Goal
  <2>1. PICK u \in Users : u = User(s)
    BY <1>5, AtPost
  <2> QED BY <1>1, <1>5, <2>1, NoCouponRow
<1>6. CASE redeemed' = redeemed
  <2>1. CASE ledger' = ledger
    BY <1>6, <2>1 DEF CreditIsRedeemed, CouponCreditedOnce
  <2>2. CASE \E s \in Sessions : DebitCredits(s) /\ ~Refuse(s)
    <3>1. PICK s \in Sessions : DebitCredits(s) /\ ~Refuse(s)
      BY <2>2
    <3> DEFINE e == Row("usage", -req[s].amount, None)
               es == <<e>>
    <3>2. pc[s] = "post" /\ ledger' = [ledger EXCEPT ![User(s)] = @ \o es]
      BY <3>1 DEF DebitCredits, Write
    <3>3. req[s].amount \in Nat
      BY <3>2, AtPost DEF Request
    <3>4. e \in LedgerRow /\ e.type # "coupon"
      BY <3>3 DEF Row, LedgerRow
    <3> HIDE DEF e
    <3>5. es \in Seq(LedgerRow) /\ \A k \in DOMAIN es : es[k].type # "coupon"
      BY <3>4
    <3> QED BY <1>5, <1>6, <3>2, <3>5
  <2>3. CASE \E s \in Sessions : RefundCredits(s)
    <3>1. PICK s \in Sessions : RefundCredits(s)
      BY <2>3
    <3> DEFINE e == Row("refund", req[s].amount, None)
               es == <<e>>
    <3>2. pc[s] = "post" /\ ledger' = [ledger EXCEPT ![User(s)] = @ \o es]
      BY <3>1 DEF RefundCredits, Write
    <3>3. req[s].amount \in Nat
      BY <3>2, AtPost DEF Request
    <3>4. e \in LedgerRow /\ e.type # "coupon"
      BY <3>3, RowType DEF Row
    <3> HIDE DEF e
    <3>5. es \in Seq(LedgerRow) /\ \A k \in DOMAIN es : es[k].type # "coupon"
      BY <3>4
    <3> QED BY <1>5, <1>6, <3>2, <3>5
  <2>4. CASE \E s \in Sessions : FulfillPayment(s) /\ ~Refuse(s)
    <3>1. PICK s \in Sessions : FulfillPayment(s) /\ ~Refuse(s)
      BY <2>4
    <3>2. pc[s] = "post" /\ ledger' = [ledger EXCEPT ![User(s)] = @ \o PackRows(s)]
      BY <3>1 DEF FulfillPayment, Write
    <3>3. req[s].payment \in Payments
      BY <3>1, <3>2, AtPost DEF AskedRight, FulfillPayment
    <3>4. PackRows(s) \in Seq(LedgerRow)
      BY <3>3, PackRowsType
    <3>5. \A k \in DOMAIN PackRows(s) : PackRows(s)[k].type # "coupon"
      BY DEF PackRows, Row
    <3> QED BY <1>5, <1>6, <3>2, <3>4, <3>5
  <2>5. CASE \E s \in Sessions : \E o \in Orders : PlaceOrder(s, o)
    BY <2>1, <2>5 DEF PlaceOrder
  <2> QED BY <1>4, <2>1, <2>2, <2>3, <2>4, <2>5, QuietStep
<1> QED BY <1>1, <1>2, <1>4, <1>6, RedeemedGrows

(* As long as no administrator deletes coupons, a code is credited to a    *)
(* user at most once, however often it is edited, archived and restored.   *)
THEOREM CouponsCreditedOnce ==
  ASSUME "delete" \notin AdminOps
  PROVE  Spec => []CouponCreditedOnce
<1>1. Init => CreditIsRedeemed /\ CouponCreditedOnce
  BY DEF Init, CreditIsRedeemed, CouponCreditedOnce
<1>2. ASSUME WalletInv, CreditIsRedeemed, CouponCreditedOnce, [Next]_vars
      PROVE  CreditIsRedeemed' /\ CouponCreditedOnce'
  BY <1>2, CouponsStep
<1> QED BY <1>1, <1>2, InitInv, NextInv, PTL DEF Spec

(***************************************************************************)
(* Orders.                                                                 *)
(***************************************************************************)

Placed(o, u) == order[o] # None /\ order[o].status = "CREATED" /\ order[o].user = u

(* From the check to the commit a verification holds the row of its order, *)
(* which is not paid.                                                      *)
HoldsOrder(s) ==
  /\ pc[s] = "check payment" => lock[req[s].order] = s /\ order[req[s].order] # None
  /\ (pc[s] \in {"wallet", "insert", "post"} /\ req[s].op = "verify") =>
       /\ lock[req[s].order] = s /\ Placed(req[s].order, User(s))
       /\ <<req[s].order, req[s].payment>> \in ValidPairs

OrdersAreHeld == \A s \in Sessions : HoldsOrder(s)

(* A step of session s leaves the orders of the others alone.              *)
BesideOrders(s) ==
  /\ \A t \in Sessions \ {s} : pc'[t] = pc[t] /\ req'[t] = req[t]
  /\ \A o \in Orders : (lock[o] \notin {s, None} /\ order[o] # None) =>
       lock'[o] = lock[o] /\ order'[o] = order[o]

LEMMA OrderStep ==
  ASSUME WalletInv, OrdersAreHeld, NEW s \in Sessions, BesideOrders(s), HoldsOrder(s)'
  PROVE  OrdersAreHeld'
<1> SUFFICES ASSUME NEW t \in Sessions \ {s} PROVE HoldsOrder(t)'
  BY DEF OrdersAreHeld
<1>1. /\ AskedRight(t) /\ HoldsOrder(t) /\ t \notin {s, None}
      /\ pc'[t] = pc[t] /\ req'[t] = req[t]
  BY WalletAssumption DEF WalletInv, WellFormed, OrdersAreHeld, BesideOrders
<1>2. CASE \/ pc[t] = "check payment"
           \/ pc[t] \in {"wallet", "insert", "post"} /\ req[t].op = "verify"
  <2>1. req[t].order \in Orders /\ lock[req[t].order] = t /\ order[req[t].order] # None
    BY <1>1, <1>2 DEF AskedRight, HoldsOrder, Placed
  <2>2. lock'[req[t].order] = t /\ order'[req[t].order] = order[req[t].order]
    BY <1>1, <2>1 DEF BesideOrders
  <2> QED BY <1>1, <1>2, <2>2 DEF HoldsOrder, Placed, User
<1> QED BY <1>1, <1>2 DEF HoldsOrder

LEMMA EndOrder ==
  ASSUME WalletInv, OrdersAreHeld, NEW s \in Sessions, End(s),
         \A o \in Orders : (lock[o] \notin {s, None} /\ order[o] # None) =>
           order'[o] = order[o]
  PROVE  OrdersAreHeld'
<1>1. TypeOK
  BY DEF WalletInv
<1>2. BesideOrders(s)
  BY <1>1, EndFrame DEF BesideOrders, Rows
<1>3. HoldsOrder(s)'
  BY <1>1, EndFrame DEF HoldsOrder
<1> QED BY <1>2, <1>3, OrderStep

LEMMA MoveOrder ==
  ASSUME WalletInv, OrdersAreHeld, NEW s \in Sessions, order' = order, NEW where, NEW r,
         pc' = [pc EXCEPT ![s] = where], req' = [req EXCEPT ![s] = r],
         lock' = lock \/ (\E k \in Rows : Acquire(s, k)),
         HoldsOrder(s)'
  PROVE  OrdersAreHeld'
<1>1. TypeOK
  BY DEF WalletInv
<1>2. \A o \in Orders : lock[o] \notin {s, None} => lock'[o] = lock[o]
  BY <1>1 DEF TypeOK, Acquire, Rows
<1>3. BesideOrders(s)
  BY <1>1, <1>2 DEF BesideOrders, TypeOK
<1> QED BY <1>3, OrderStep

LEMMA StartOrderHeld ==
  ASSUME WalletInv, OrdersAreHeld, NEW s \in Sessions, NEW r, NEW where, Start(s, r, where),
         \/ where = "wallet" /\ r.op # "verify"
         \/ where \in {"experiment", "coupon", "erase", "order"}
  PROVE  OrdersAreHeld'
<1>1. /\ pc' = [pc EXCEPT ![s] = where] /\ req' = [req EXCEPT ![s] = r]
      /\ lock' = lock /\ order' = order
  BY DEF Start, Goto, tables
<1>2. pc'[s] = where /\ req'[s] = r
  BY <1>1 DEF WalletInv, TypeOK
<1>3. HoldsOrder(s)'
  BY <1>2 DEF HoldsOrder
<1> QED BY <1>1, <1>3, MoveOrder

LEMMA ArriveOrder ==
  ASSUME WalletInv, OrdersAreHeld, NEW s \in Sessions, Arrive(s)
  PROVE  OrdersAreHeld'
<1>1. ASSUME NEW e \in Experiments, NEW a \in Prices, StartDebit(s, e, a)
      PROVE  OrdersAreHeld'
  BY <1>1, StartOrderHeld DEF StartDebit
<1>2. ASSUME NEW u \in Users, NEW c \in Coupons, StartRedeem(s, u, c) PROVE OrdersAreHeld'
  BY <1>2, StartOrderHeld DEF StartRedeem
<1>3. ASSUME NEW u \in Users, StartOrder(s, u) PROVE OrdersAreHeld'
  BY <1>3, StartOrderHeld DEF StartOrder, NoRequest
<1>4. ASSUME NEW u \in Users, NEW o \in Orders, NEW p \in Payments, StartVerify(s, u, o, p)
      PROVE  OrdersAreHeld'
  BY <1>4, StartOrderHeld DEF StartVerify
<1>5. ASSUME NEW c \in Coupons, StartDelete(s, c) PROVE OrdersAreHeld'
  BY <1>5, StartOrderHeld DEF StartDelete
<1> QED BY <1>1, <1>2, <1>3, <1>4, <1>5 DEF Arrive

(* On the way to the commit: the row of the wallet is no order.            *)
LEMMA WalletOrder ==
  ASSUME WalletInv, OrdersAreHeld, NEW s \in Sessions,
         FindWallet(s) \/ (InsertWallet(s) /\ ~Refuse(s))
  PROVE  OrdersAreHeld'
<1>1. TypeOK /\ AskedRight(s) /\ HoldsOrder(s) /\ pc[s] \in {"wallet", "insert"}
  BY DEF WalletInv, WellFormed, OrdersAreHeld, FindWallet, InsertWallet
<1>2. User(s) \in Users
  BY <1>1 DEF AskedRight
<1>3. PICK where \in {"insert", "gateway", "post"} :
        /\ Goto(s, where) /\ UNCHANGED <<tables, req>>
        /\ lock' = lock \/ Acquire(s, User(s))
  BY DEF FindWallet, InsertWallet
<1>4. /\ pc' = [pc EXCEPT ![s] = where] /\ req' = [req EXCEPT ![s] = req[s]]
      /\ order' = order /\ pc'[s] = where /\ req'[s] = req[s]
  BY <1>1, <1>3 DEF Goto, TypeOK, tables
<1>5. \A o \in Orders : lock'[o] = lock[o]
  <2>1. \A o \in Orders : o \in Rows /\ o # User(s)
    BY <1>2, WalletAssumption DEF Rows
  <2>2. lock' = lock \/ lock' = [lock EXCEPT ![User(s)] = s]
    BY <1>3 DEF Acquire
  <2> QED BY <1>1, <2>1, <2>2 DEF TypeOK
<1>6. HoldsOrder(s)'
  <2>1. CASE req[s].op = "verify"
    <3>1. req[s].order \in Orders
      BY <1>1, <2>1 DEF AskedRight
    <3> QED BY <1>1, <1>4, <1>5, <2>1, <3>1 DEF HoldsOrder, Placed, User
  <2> QED BY <1>4, <2>1 DEF HoldsOrder
<1>7. lock' = lock \/ (\E k \in Rows : Acquire(s, k))
  BY <1>2, <1>3 DEF Rows
<1> QED BY <1>4, <1>6, <1>7, MoveOrder

LEMMA LockOrderHeld ==
  ASSUME WalletInv, OrdersAreHeld, NEW s \in Sessions,
         LockOrder(s) \/ CheckPayment(s), ~Refuse(s)
  PROVE  OrdersAreHeld'
<1>1. TypeOK /\ AskedRight(s) /\ HoldsOrder(s) /\ pc[s] \in {"order", "check payment"}
  BY DEF WalletInv, WellFormed, OrdersAreHeld, LockOrder, CheckPayment
<1>2. req[s].op = "verify" /\ req[s].order \in Orders
  BY <1>1 DEF AskedRight
<1>3. req' = [req EXCEPT ![s] = req[s]] /\ req'[s] = req[s] /\ order' = order
  BY <1>1 DEF LockOrder, CheckPayment, tables, TypeOK
<1>4. CASE LockOrder(s)
  <2>1. /\ Acquire(s, req[s].order) /\ pc' = [pc EXCEPT ![s] = "check payment"]
        /\ req[s].order \in Rows /\ order[req[s].order] # None
    BY <1>2, <1>4 DEF LockOrder, Goto, Rows
  <2>2. pc'[s] = "check payment" /\ lock'[req[s].order] = s
    BY <1>1, <2>1 DEF Acquire, TypeOK
  <2>3. HoldsOrder(s)'
    BY <1>3, <2>1, <2>2 DEF HoldsOrder
  <2> QED BY <1>3, <2>1, <2>3, MoveOrder
<1>5. CASE CheckPayment(s)
  <2>1. /\ pc[s] = "check payment" /\ lock' = lock /\ pc' = [pc EXCEPT ![s] = "wallet"]
        /\ Payable(User(s), req[s].order, req[s].payment)
    BY <1>5 DEF CheckPayment, Goto
  <2>2. pc'[s] = "wallet" /\ lock'[req[s].order] = s /\ order[req[s].order] \in OrderRow
    BY <1>1, <1>2, <2>1 DEF TypeOK, HoldsOrder
  <2>3. Placed(req[s].order, User(s)) /\ <<req[s].order, req[s].payment>> \in ValidPairs
    BY <1>1, <2>1, <2>2 DEF HoldsOrder, Placed, Payable, OrderRow
  <2>4. HoldsOrder(s)'
    BY <1>3, <2>2, <2>3 DEF HoldsOrder, Placed, User
  <2> QED BY <1>3, <2>1, <2>4, MoveOrder
<1> QED BY <1>4, <1>5

(* Steps of requests that are no verification.                             *)
LEMMA OtherOrder ==
  ASSUME WalletInv, OrdersAreHeld, NEW s \in Sessions,
         \/ (LockCoupon(s) \/ CheckCoupon(s) \/ DebitCredits(s)) /\ ~Refuse(s)
         \/ LockExperiment(s) \/ StartRefund(s)
  PROVE  OrdersAreHeld'
<1>1. TypeOK /\ AskedRight(s)
  BY DEF WalletInv, WellFormed
<1>2. CASE (LockCoupon(s) \/ CheckCoupon(s)) /\ ~Refuse(s)
  <2>1. req[s].op = "redeem" /\ req[s].coupon \in Rows
    BY <1>1, <1>2 DEF AskedRight, LockCoupon, CheckCoupon, Rows
  <2>2. PICK where : /\ pc' = [pc EXCEPT ![s] = where] /\ where \in {"check coupon", "wallet"}
                     /\ UNCHANGED <<tables, req>>
                     /\ lock' = lock \/ Acquire(s, req[s].coupon)
    BY <1>2 DEF LockCoupon, CheckCoupon, Goto
  <2>3. pc'[s] = where /\ req' = [req EXCEPT ![s] = req[s]] /\ req'[s] = req[s]
    BY <1>1, <2>2 DEF TypeOK
  <2>4. HoldsOrder(s)'
    BY <2>1, <2>2, <2>3 DEF HoldsOrder
  <2> QED BY <2>1, <2>2, <2>3, <2>4, MoveOrder DEF tables
<1>3. CASE DebitCredits(s) /\ ~Refuse(s)
  <2>1. /\ pc' = [pc EXCEPT ![s] = "charged"] /\ UNCHANGED <<order, req>> /\ ReleaseAll(s)
    BY <1>3 DEF DebitCredits, Goto
  <2>2. \A o \in Orders : lock[o] \notin {s, None} => lock'[o] = lock[o]
    BY <1>1, <2>1 DEF ReleaseAll, Rows, TypeOK
  <2>3. BesideOrders(s)
    BY <1>1, <2>1, <2>2 DEF BesideOrders, TypeOK
  <2>4. pc'[s] = "charged"
    BY <1>1, <2>1 DEF TypeOK
  <2>5. HoldsOrder(s)'
    BY <2>4 DEF HoldsOrder
  <2> QED BY <2>3, <2>5, OrderStep
<1>4. CASE StartRefund(s)
  <2> DEFINE r == [req[s] EXCEPT !.op = "refund"]
  <2>1. PICK first \in {"experiment", "wallet"} :
          /\ pc' = [pc EXCEPT ![s] = first] /\ req' = [req EXCEPT ![s] = r]
          /\ lock' = lock /\ order' = order
    BY <1>1, <1>4 DEF StartRefund, Goto, tables, TypeOK
  <2>2. r.op = "refund"
    <3>1. req[s] \in Request
      BY <1>1 DEF TypeOK
    <3> QED BY <3>1 DEF Request
  <2> HIDE DEF r
  <2>3. pc'[s] = first /\ req'[s] = r
    BY <1>1, <2>1 DEF TypeOK
  <2>4. HoldsOrder(s)'
    BY <2>1, <2>2, <2>3 DEF HoldsOrder
  <2> QED BY <2>1, <2>4, MoveOrder
<1>5. CASE LockExperiment(s)
  <2>1. req[s].op \in {"debit", "refund"} /\ req[s].experiment \in Rows
    BY <1>1, <1>5 DEF AskedRight, LockExperiment, Rows
  <2>2. /\ pc' = [pc EXCEPT ![s] = "wallet"] /\ req' = [req EXCEPT ![s] = req[s]]
        /\ req'[s] = req[s] /\ pc'[s] = "wallet"
        /\ Acquire(s, req[s].experiment) /\ order' = order
    BY <1>1, <1>5 DEF LockExperiment, Goto, tables, TypeOK
  <2>3. HoldsOrder(s)'
    BY <2>1, <2>2 DEF HoldsOrder
  <2> QED BY <2>1, <2>2, <2>3, MoveOrder
<1> QED BY <1>2, <1>3, <1>4, <1>5

Fulfills(s) == FulfillPayment(s) /\ ~Refuse(s)

(* Orders change when they are placed and when they are paid.              *)
LEMMA OrderChanges ==
  ASSUME [Next]_vars
  PROVE  \/ order' = order
         \/ \E s \in Sessions : Fulfills(s)
         \/ \E s \in Sessions : \E o \in Orders : PlaceOrder(s, o)
<1>1. ASSUME NEW s \in Sessions, Refuse(s) PROVE order' = order
  BY <1>1 DEF Refuse, tables
<1>2. ASSUME NEW s \in Sessions, Arrive(s) PROVE order' = order
  BY <1>2 DEF Arrive, Start, tables, StartDebit, StartRedeem, StartOrder,
     StartVerify, StartDelete
<1>3. ASSUME NEW c \in Coupons, Administer(c) PROVE order' = order
  BY <1>3 DEF Administer, CreateCoupon, UpdateCoupon, ArchiveCoupon, RestoreCoupon,
     CouponWindow, SetCoupon
<1>4. CASE UNCHANGED vars \/ Served
  BY <1>4 DEF Served, vars
<1>5. ASSUME NEW s \in Sessions, Work(s)
      PROVE  order' = order \/ Fulfills(s) \/ \E o \in Orders : PlaceOrder(s, o)
  BY <1>1, <1>5 DEF Work, LockExperiment, FindWallet, InsertWallet, Victim,
     DebitCredits, Deliver, StartRefund, RefundCredits, LockCoupon, CheckCoupon, RedeemCoupon, DeleteCoupon,
     LockOrder, CheckPayment, GatewayFails, Fulfills, tables
<1> QED BY <1>1, <1>2, <1>3, <1>4, <1>5 DEF Next, Rollback

(* A fulfilment pays the order its session holds, which was not paid.      *)
Fulfilled(s, o, p, u) ==
  /\ lock[o] = s /\ Placed(o, u) /\ <<o, p>> \in ValidPairs
  /\ order' = [order EXCEPT ![o] = [user |-> u, status |-> "PAID", payment |-> p]]
  /\ ledger' = [ledger EXCEPT ![u] = @ \o PackRows(s)]
  /\ PackRows(s) \in Seq(LedgerRow) /\ 1 \in DOMAIN PackRows(s)
  /\ PackRows(s)[1].type = "topup" /\ PackRows(s)[1].ref = p
  /\ \A k \in DOMAIN PackRows(s) :
       PackRows(s)[k].type = "topup" => PackRows(s)[k].ref = p

LEMMA FulfillPays ==
  ASSUME WalletInv, OrdersAreHeld, NEW s \in Sessions, Fulfills(s)
  PROVE  /\ End(s)
         /\ \E o \in Orders, p \in Payments, u \in Users : Fulfilled(s, o, p, u)
<1>1. /\ pc[s] = "post" /\ req[s].op = "verify" /\ End(s)
      /\ order' = [order EXCEPT ![req[s].order] =
                     [user |-> User(s), status |-> "PAID", payment |-> req[s].payment]]
      /\ ledger' = [ledger EXCEPT ![User(s)] = @ \o PackRows(s)]
  BY DEF Fulfills, FulfillPayment, Write
<1>2. req[s].order \in Orders /\ req[s].payment \in Payments /\ User(s) \in Users
  BY <1>1, AtPost DEF AskedRight
<1>3. /\ lock[req[s].order] = s /\ Placed(req[s].order, User(s))
      /\ <<req[s].order, req[s].payment>> \in ValidPairs
  BY <1>1 DEF OrdersAreHeld, HoldsOrder
<1>4. PackRows(s) \in Seq(LedgerRow)
  BY <1>2, PackRowsType
<1>5. /\ 1 \in DOMAIN PackRows(s) /\ PackRows(s)[1].type = "topup"
      /\ PackRows(s)[1].ref = req[s].payment
      /\ \A k \in DOMAIN PackRows(s) :
           PackRows(s)[k].type = "topup" => PackRows(s)[k].ref = req[s].payment
  BY DEF PackRows, Row
<1>6. Fulfilled(s, req[s].order, req[s].payment, User(s))
  BY <1>1, <1>3, <1>4, <1>5 DEF Fulfilled
<1> QED BY <1>1, <1>2, <1>6

LEMMA CommitOrder ==
  ASSUME WalletInv, OrdersAreHeld, NEW s \in Sessions,
         \/ RefundCredits(s) \/ RedeemCoupon(s) \/ DeleteCoupon(s) \/ FulfillPayment(s)
         \/ Refuse(s)
         \/ \E o \in Orders : PlaceOrder(s, o)
  PROVE  OrdersAreHeld'
<1>1. TypeOK
  BY DEF WalletInv
<1>2. CASE Fulfills(s)
  <2>1. PICK o \in Orders, p \in Payments, u \in Users : Fulfilled(s, o, p, u)
    BY <1>2, FulfillPays
  <2>2. \A x \in Orders : lock[x] \notin {s, None} => order'[x] = order[x]
    BY <1>1, <2>1 DEF TypeOK, Fulfilled
  <2> QED BY <1>2, <2>2, EndOrder, FulfillPays
<1>3. CASE \E o \in Orders : PlaceOrder(s, o)
  <2>1. PICK o \in Orders : PlaceOrder(s, o)
    BY <1>3
  <2>2. End(s) /\ \A x \in Orders : order[x] # None => order'[x] = order[x]
    BY <1>1, <2>1 DEF PlaceOrder, TypeOK
  <2> QED BY <2>2, EndOrder
<1>4. CASE Refuse(s) \/ RefundCredits(s) \/ RedeemCoupon(s) \/ DeleteCoupon(s)
  <2>1. End(s) /\ order' = order
    BY <1>4 DEF Refuse, tables, RefundCredits, RedeemCoupon, DeleteCoupon
  <2> QED BY <2>1, EndOrder
<1> QED BY <1>2, <1>3, <1>4 DEF Fulfills

LEMMA OrdersHeldInv ==
  ASSUME WalletInv, OrdersAreHeld, [Next]_vars
  PROVE  OrdersAreHeld'
<1>1. CASE UNCHANGED vars \/ Served
  <2>1. UNCHANGED vars
    BY <1>1 DEF Served
  <2> QED BY <2>1 DEF vars, OrdersAreHeld, HoldsOrder, Placed, User
<1>2. ASSUME NEW s \in Sessions, Work(s) PROVE OrdersAreHeld'
  <2>1. CASE Refuse(s)
    BY <2>1, CommitOrder
  <2>2. CASE ~Refuse(s)
    <3>1. \/ FindWallet(s) \/ InsertWallet(s) \/ LockCoupon(s) \/ CheckCoupon(s)
          \/ LockOrder(s) \/ CheckPayment(s) \/ DebitCredits(s) \/ StartRefund(s)
          \/ RefundCredits(s) \/ RedeemCoupon(s) \/ DeleteCoupon(s) \/ FulfillPayment(s)
          \/ LockExperiment(s) \/ \E o \in Orders : PlaceOrder(s, o)
      BY <1>2, <2>2 DEF Work, Deliver, GatewayFails, Victim
    <3> QED BY <2>2, <3>1, WalletOrder, LockOrderHeld, OtherOrder, CommitOrder
  <2> QED BY <2>1, <2>2
<1>3. ASSUME NEW s \in Sessions, Arrive(s) PROVE OrdersAreHeld'
  BY <1>3, ArriveOrder
<1>4. ASSUME NEW s \in Sessions, Rollback(s) PROVE OrdersAreHeld'
  BY <1>4, CommitOrder DEF Rollback
<1>5. ASSUME NEW c \in Coupons, Administer(c) PROVE OrdersAreHeld'
  <2>1. UNCHANGED <<lock, pc, req, order>>
    BY <1>5 DEF Administer, CreateCoupon, UpdateCoupon, ArchiveCoupon, RestoreCoupon,
       CouponWindow, SetCoupon
  <2> QED BY <2>1 DEF OrdersAreHeld, HoldsOrder, Placed, User
<1> QED BY <1>1, <1>2, <1>3, <1>4, <1>5 DEF Next

(* A pack belongs to the order that its payment has paid, and a paid order *)
(* has its pack.                                                           *)
PaidFor(row, o, u, p) ==
  /\ row # None /\ row.status = "PAID" /\ row.user = u
  /\ row.payment = p /\ <<o, p>> \in ValidPairs

PacksMatch ==
  /\ \A u \in Users : \A i \in DOMAIN ledger[u] :
       Paid(u, i) => \E o \in Orders : PaidFor(order[o], o, u, ledger[u][i].ref)
  /\ \A o \in Orders : (order[o] # None /\ order[o].status = "PAID") =>
       /\ order[o].user \in Users /\ <<o, order[o].payment>> \in ValidPairs
       /\ \E i \in DOMAIN ledger[order[o].user] :
            Paid(order[o].user, i) /\ ledger[order[o].user][i].ref = order[o].payment

LEMMA KeptRows ==
  ASSUME TypeOK, NEW u \in Users, NEW es \in Seq(LedgerRow),
         ledger' = [ledger EXCEPT ![u] = @ \o es]
  PROVE  /\ \A v \in Users : \A i \in DOMAIN ledger[v] :
              i \in DOMAIN ledger'[v] /\ ledger'[v][i] = ledger[v][i]
         /\ \A k \in DOMAIN es : /\ Len(ledger[u]) + k \in DOMAIN ledger'[u]
                                 /\ ledger'[u][Len(ledger[u]) + k] = es[k]
<1>1. /\ ledger[u] \in Seq(LedgerRow) /\ ledger'[u] = ledger[u] \o es
      /\ \A v \in Users \ {u} : ledger'[v] = ledger[v]
  BY DEF TypeOK
<1>2. /\ Len(ledger[u] \o es) = Len(ledger[u]) + Len(es)
      /\ \A k \in 1..Len(ledger[u]) + Len(es) : (ledger[u] \o es)[k] =
           IF k <= Len(ledger[u]) THEN ledger[u][k] ELSE es[k - Len(ledger[u])]
      /\ ledger[u] \o es \in Seq(LedgerRow)
  BY <1>1, ConcatProperties
<1>3. DOMAIN (ledger[u] \o es) = 1..Len(ledger[u]) + Len(es)
  BY <1>2
<1>4. /\ DOMAIN ledger[u] = 1..Len(ledger[u]) /\ DOMAIN es = 1..Len(es)
      /\ Len(ledger[u]) \in Nat /\ Len(es) \in Nat
  BY <1>1
<1>5. ASSUME NEW i \in DOMAIN ledger[u]
      PROVE  i \in DOMAIN ledger'[u] /\ ledger'[u][i] = ledger[u][i]
  BY <1>1, <1>2, <1>3, <1>4
<1>6. ASSUME NEW k \in DOMAIN es
      PROVE  /\ Len(ledger[u]) + k \in DOMAIN ledger'[u]
             /\ ledger'[u][Len(ledger[u]) + k] = es[k]
  <2>1. /\ k \in 1..Len(es) /\ Len(ledger[u]) + k \in 1..Len(ledger[u]) + Len(es)
        /\ ~(Len(ledger[u]) + k <= Len(ledger[u])) /\ Len(ledger[u]) + k - Len(ledger[u]) = k
    BY <1>4
  <2> QED BY <1>1, <1>2, <1>3, <2>1
<1> QED BY <1>1, <1>5, <1>6

(* Rows that are no pack leave the match of packs and orders as it is.     *)
LEMMA OtherRowsMatch ==
  ASSUME TypeOK, PacksMatch, order' = order,
         NEW u \in Users, NEW es \in Seq(LedgerRow),
         ledger' = [ledger EXCEPT ![u] = @ \o es],
         \A k \in DOMAIN es : es[k].type # "topup"
  PROVE  PacksMatch'
<1>1. ASSUME NEW v \in Users, NEW i \in DOMAIN ledger'[v], ledger'[v][i].type = "topup"
      PROVE  \E o \in Orders : PaidFor(order'[o], o, v, ledger'[v][i].ref)
  <2>1. i \in DOMAIN ledger[v] /\ ledger'[v][i] = ledger[v][i]
    BY <1>1, AppendedRows
  <2>2. PICK o \in Orders : PaidFor(order[o], o, v, ledger[v][i].ref)
    BY <1>1, <2>1 DEF PacksMatch, Paid
  <2> QED BY <2>1, <2>2 DEF PaidFor
<1>2. ASSUME NEW o \in Orders, order[o] # None, order[o].status = "PAID"
      PROVE  /\ order[o].user \in Users /\ <<o, order[o].payment>> \in ValidPairs
             /\ \E i \in DOMAIN ledger'[order[o].user] :
                  /\ ledger'[order[o].user][i].type = "topup"
                  /\ ledger'[order[o].user][i].ref = order[o].payment
  <2>1. PICK v \in Users : v = order[o].user
    BY <1>2 DEF PacksMatch
  <2>2. PICK i \in DOMAIN ledger[v] : Paid(v, i) /\ ledger[v][i].ref = order[o].payment
    BY <1>2, <2>1 DEF PacksMatch
  <2>3. i \in DOMAIN ledger'[v] /\ ledger'[v][i] = ledger[v][i]
    BY KeptRows
  <2> QED BY <1>2, <2>1, <2>2, <2>3 DEF PacksMatch, Paid
<1>3. \A v \in Users : \A i \in DOMAIN ledger'[v] :
        Paid(v, i)' => \E o \in Orders : PaidFor(order'[o], o, v, ledger'[v][i].ref)
  BY <1>1 DEF Paid
<1>4. \A o \in Orders : (order'[o] # None /\ order'[o].status = "PAID") =>
        /\ order'[o].user \in Users /\ <<o, order'[o].payment>> \in ValidPairs
        /\ \E i \in DOMAIN ledger'[order'[o].user] :
             /\ ledger'[order'[o].user][i].type = "topup"
             /\ ledger'[order'[o].user][i].ref = order'[o].payment
  BY <1>2
<1> QED BY <1>3, <1>4 DEF PacksMatch, Paid

LEMMA FulfillMatches ==
  ASSUME WalletInv, OrdersAreHeld, PacksMatch, NEW s \in Sessions, Fulfills(s)
  PROVE  PacksMatch'
<1>0. TypeOK
  BY DEF WalletInv
<1>1. PICK o \in Orders, p \in Payments, u \in Users : Fulfilled(s, o, p, u)
  BY FulfillPays
<1>6. /\ Placed(o, u) /\ <<o, p>> \in ValidPairs
      /\ order' = [order EXCEPT ![o] = [user |-> u, status |-> "PAID", payment |-> p]]
      /\ ledger' = [ledger EXCEPT ![u] = @ \o PackRows(s)]
      /\ PackRows(s) \in Seq(LedgerRow) /\ 1 \in DOMAIN PackRows(s)
      /\ PackRows(s)[1].type = "topup" /\ PackRows(s)[1].ref = p
      /\ \A k \in DOMAIN PackRows(s) :
           PackRows(s)[k].type = "topup" => PackRows(s)[k].ref = p
  BY <1>1 DEF Fulfilled
<1>2. /\ order'[o] = [user |-> u, status |-> "PAID", payment |-> p]
      /\ \A x \in Orders \ {o} : order'[x] = order[x]
  BY <1>0, <1>6 DEF TypeOK
<1>3. PaidFor(order'[o], o, u, p)
  <2>1. [user |-> u, status |-> "PAID", payment |-> p] \in OrderRow
    BY DEF OrderRow
  <2>2. order'[o] # None
    BY <1>2, <2>1, MissingRow
  <2> QED BY <1>6, <1>2, <2>2 DEF PaidFor
<1>4. ASSUME NEW v \in Users, NEW i \in DOMAIN ledger'[v], ledger'[v][i].type = "topup"
      PROVE  \E x \in Orders : PaidFor(order'[x], x, v, ledger'[v][i].ref)
  <2> DEFINE es == PackRows(s)
  <2>1. \/ i \in DOMAIN ledger[v] /\ ledger'[v][i] = ledger[v][i]
        \/ v = u /\ i - Len(ledger[u]) \in DOMAIN es /\ ledger'[v][i] = es[i - Len(ledger[u])]
    <3> HIDE DEF es
    <3> QED BY <1>0, <1>6, AppendedRows DEF es
  <2>2. CASE i \in DOMAIN ledger[v] /\ ledger'[v][i] = ledger[v][i]
    <3>1. PICK x \in Orders : PaidFor(order[x], x, v, ledger[v][i].ref)
      BY <1>4, <2>2 DEF PacksMatch, Paid
    <3>2. x # o
      BY <1>6, <3>1 DEF PaidFor, Placed
    <3> QED BY <1>2, <2>2, <3>1, <3>2 DEF PaidFor
  <2>3. CASE v = u /\ i - Len(ledger[u]) \in DOMAIN es /\ ledger'[v][i] = es[i - Len(ledger[u])]
    <3>1. ledger'[v][i].ref = p
      BY <1>6, <1>4, <2>3
    <3> QED BY <1>3, <2>3, <3>1
  <2> QED BY <2>1, <2>2, <2>3
<1>5. ASSUME NEW x \in Orders, order'[x] # None, order'[x].status = "PAID"
      PROVE  /\ order'[x].user \in Users /\ <<x, order'[x].payment>> \in ValidPairs
             /\ \E i \in DOMAIN ledger'[order'[x].user] :
                  /\ ledger'[order'[x].user][i].type = "topup"
                  /\ ledger'[order'[x].user][i].ref = order'[x].payment
  <2>1. CASE x = o
    <3>1. /\ Len(ledger[u]) + 1 \in DOMAIN ledger'[u]
          /\ ledger'[u][Len(ledger[u]) + 1] = PackRows(s)[1]
      <4> DEFINE es == PackRows(s)
      <4>1. es \in Seq(LedgerRow) /\ ledger' = [ledger EXCEPT ![u] = @ \o es]
            /\ 1 \in DOMAIN es
        BY <1>6
      <4> HIDE DEF es
      <4>2. Len(ledger[u]) + 1 \in DOMAIN ledger'[u] /\ ledger'[u][Len(ledger[u]) + 1] = es[1]
        <5>1. \A k \in DOMAIN es : /\ Len(ledger[u]) + k \in DOMAIN ledger'[u]
                                  /\ ledger'[u][Len(ledger[u]) + k] = es[k]
          BY <1>0, <4>1, KeptRows
        <5> QED BY <4>1, <5>1
      <4> QED BY <4>2 DEF es
    <3>2. order'[x].user = u /\ order'[x].payment = p
      BY <1>2, <2>1
    <3>3. PICK i \in DOMAIN ledger'[u] : ledger'[u][i] = PackRows(s)[1]
      BY <3>1
    <3> QED BY <1>6, <2>1, <3>2, <3>3
  <2>2. CASE x # o
    <3>1. order'[x] = order[x]
      BY <1>2, <2>2
    <3>2. PICK v \in Users : v = order[x].user
      BY <1>5, <3>1 DEF PacksMatch
    <3>3. PICK i \in DOMAIN ledger[v] : Paid(v, i) /\ ledger[v][i].ref = order[x].payment
      BY <1>5, <3>1, <3>2 DEF PacksMatch
    <3>4. i \in DOMAIN ledger'[v] /\ ledger'[v][i] = ledger[v][i]
      BY <1>0, <1>6, KeptRows
    <3> QED BY <1>5, <3>1, <3>2, <3>3, <3>4 DEF PacksMatch, Paid
  <2> QED BY <2>1, <2>2
<1> QED BY <1>4, <1>5 DEF PacksMatch, Paid

LEMMA PlaceMatches ==
  ASSUME TypeOK, PacksMatch, NEW s \in Sessions, NEW n \in Orders, PlaceOrder(s, n)
  PROVE  PacksMatch'
<1>1. /\ order[n] = None /\ ledger' = ledger
      /\ order' = [order EXCEPT ![n] = [user |-> User(s), status |-> "CREATED",
                                       payment |-> None]]
  BY DEF PlaceOrder
<1>2. order'[n].status = "CREATED" /\ \A x \in Orders \ {n} : order'[x] = order[x]
  BY <1>1 DEF TypeOK
<1>3. ASSUME NEW x \in Orders, NEW u \in Users, NEW p, PaidFor(order[x], x, u, p)
      PROVE  PaidFor(order'[x], x, u, p)
  BY <1>1, <1>2, <1>3 DEF PaidFor
<1>4. ASSUME NEW u \in Users, NEW i \in DOMAIN ledger[u], ledger[u][i].type = "topup"
      PROVE  \E x \in Orders : PaidFor(order'[x], x, u, ledger[u][i].ref)
  BY <1>3, <1>4 DEF PacksMatch, Paid
<1>5. ASSUME NEW x \in Orders, order'[x] # None, order'[x].status = "PAID"
      PROVE  order'[x] = order[x]
  BY <1>2, <1>5
<1> QED BY <1>1, <1>4, <1>5 DEF PacksMatch, Paid

LEMMA MatchInv ==
  ASSUME WalletInv, OrdersAreHeld, PacksMatch, [Next]_vars
  PROVE  PacksMatch'
<1>1. TypeOK
  BY DEF WalletInv
<1>2. CASE \E s \in Sessions : Fulfills(s)
  BY <1>2, FulfillMatches
<1>3. CASE \E s \in Sessions : \E o \in Orders : PlaceOrder(s, o)
  BY <1>1, <1>3, PlaceMatches
<1>4. ASSUME order' = order, NEW s \in Sessions, pc[s] = "post",
             NEW e \in LedgerRow, e.type # "topup",
             ledger' = [ledger EXCEPT ![User(s)] = @ \o <<e>>]
      PROVE  PacksMatch'
  <2> DEFINE es == <<e>>
  <2>1. PICK u \in Users : u = User(s)
    BY <1>4, AtPost
  <2>2. /\ es \in Seq(LedgerRow) /\ ledger' = [ledger EXCEPT ![u] = @ \o es]
        /\ \A k \in DOMAIN es : es[k].type # "topup"
    BY <1>4, <2>1
  <2> HIDE DEF es
  <2> QED BY <1>1, <1>4, <2>2, OtherRowsMatch
<1>5. CASE order' = order /\ ~(\E s \in Sessions : Fulfills(s))
           /\ ~(\E s \in Sessions : \E o \in Orders : PlaceOrder(s, o))
  <2>1. CASE ledger' = ledger
    BY <1>5, <2>1 DEF PacksMatch, Paid, PaidFor
  <2>2. CASE \E s \in Sessions : DebitCredits(s) /\ ~Refuse(s)
    <3>1. PICK s \in Sessions : DebitCredits(s) /\ ~Refuse(s)
      BY <2>2
    <3> DEFINE e == Row("usage", -req[s].amount, None)
    <3>2. pc[s] = "post" /\ ledger' = [ledger EXCEPT ![User(s)] = @ \o <<e>>]
      BY <3>1 DEF DebitCredits, Write
    <3>3. req[s].amount \in Nat
      BY <3>2, AtPost DEF Request
    <3>4. e \in LedgerRow /\ e.type # "topup"
      BY <3>3 DEF Row, LedgerRow
    <3> HIDE DEF e
    <3> QED BY <1>4, <1>5, <3>2, <3>4
  <2>3. CASE \E s \in Sessions : RefundCredits(s)
    <3>1. PICK s \in Sessions : RefundCredits(s)
      BY <2>3
    <3> DEFINE e == Row("refund", req[s].amount, None)
    <3>2. pc[s] = "post" /\ ledger' = [ledger EXCEPT ![User(s)] = @ \o <<e>>]
      BY <3>1 DEF RefundCredits, Write
    <3>3. req[s].amount \in Nat
      BY <3>2, AtPost DEF Request
    <3>4. e \in LedgerRow /\ e.type # "topup"
      BY <3>3, RowType DEF Row
    <3> HIDE DEF e
    <3> QED BY <1>4, <1>5, <3>2, <3>4
  <2>4. CASE \E s \in Sessions : RedeemCoupon(s) /\ ~Refuse(s)
    <3>1. PICK s \in Sessions : RedeemCoupon(s) /\ ~Refuse(s)
      BY <2>4
    <3> DEFINE c == req[s].coupon
               k == coupon[c].credits
               e == Row("coupon", k, c)
    <3>2. /\ pc[s] = "post" /\ req[s].op = "redeem" /\ coupon[c] # None
          /\ ledger' = [ledger EXCEPT ![User(s)] = @ \o <<e>>]
      BY <3>1 DEF RedeemCoupon, Write
    <3>3. c \in Coupons
      BY <3>2, AtPost DEF AskedRight
    <3>4. k \in Nat
      BY <1>1, <3>2, <3>3 DEF TypeOK, CouponRow
    <3>5. e \in LedgerRow /\ e.type # "topup"
      BY <3>3, <3>4, RowType DEF Row
    <3> HIDE DEF e
    <3> QED BY <1>4, <1>5, <3>2, <3>5
  <2> QED BY <1>5, <2>1, <2>2, <2>3, <2>4, QuietStep DEF Fulfills
<1> QED BY <1>2, <1>3, <1>5, OrderChanges

(* A signature is made for one order: no payment verifies for two.         *)
OnePaymentOneOrder ==
  \A o, x \in Orders : \A p \in Payments :
    (<<o, p>> \in ValidPairs /\ <<x, p>> \in ValidPairs) => o = x

LEMMA OnePack ==
  ASSUME OnePaymentOneOrder, PacksMatch, PaymentCreditedOnce
  PROVE  OrderCreditedOnce
<1> SUFFICES ASSUME NEW o \in Orders
    PROVE LET payments == {p \in Payments : <<o, p>> \in ValidPairs}
              PacksOf(u) == {i \in DOMAIN ledger[u] :
                               Paid(u, i) /\ ledger[u][i].ref \in payments}
              packs == UNION {{u} \X PacksOf(u) : u \in Users}
          IN /\ Cardinality(packs) <= 1
             /\ \A pack \in packs : order[o].user = pack[1] /\ order[o].status = "PAID"
             /\ (order[o] # None /\ order[o].status = "PAID") => packs # {}
  BY DEF OrderCreditedOnce
<1> DEFINE payments == {p \in Payments : <<o, p>> \in ValidPairs}
           PacksOf(u) == {i \in DOMAIN ledger[u] :
                            Paid(u, i) /\ ledger[u][i].ref \in payments}
           packs == UNION {{u} \X PacksOf(u) : u \in Users}
<1>1. ASSUME NEW pack \in packs
      PROVE  /\ pack = <<pack[1], pack[2]>> /\ pack[1] \in Users
             /\ pack[2] \in DOMAIN ledger[pack[1]] /\ Paid(pack[1], pack[2])
             /\ PaidFor(order[o], o, pack[1], ledger[pack[1]][pack[2]].ref)
  <2>1. PICK u \in Users : pack \in {u} \X PacksOf(u)
    OBVIOUS
  <2>2. /\ pack = <<pack[1], pack[2]>> /\ pack[1] = u /\ pack[2] \in DOMAIN ledger[u]
        /\ Paid(u, pack[2]) /\ ledger[u][pack[2]].ref \in payments
    BY <2>1
  <2>3. PICK x \in Orders : PaidFor(order[x], x, u, ledger[u][pack[2]].ref)
    BY <2>2 DEF PacksMatch
  <2>4. x = o
    BY <2>2, <2>3 DEF PaidFor, OnePaymentOneOrder
  <2> QED BY <2>2, <2>3, <2>4
<1>2. ASSUME NEW a \in packs, NEW b \in packs PROVE a = b
  <2>1. /\ ledger[a[1]][a[2]].ref = order[o].payment /\ ledger[b[1]][b[2]].ref = order[o].payment
    BY <1>1 DEF PaidFor
  <2>2. /\ a = <<a[1], a[2]>> /\ a[1] \in Users
        /\ a[2] \in DOMAIN ledger[a[1]] /\ Paid(a[1], a[2])
    BY <1>1
  <2>3. /\ b = <<b[1], b[2]>> /\ b[1] \in Users
        /\ b[2] \in DOMAIN ledger[b[1]] /\ Paid(b[1], b[2])
    BY <1>1
  <2> HIDE DEF packs
  <2>4. a[1] = b[1] /\ a[2] = b[2]
    BY <2>1, <2>2, <2>3 DEF PaymentCreditedOnce
  <2> QED BY <2>2, <2>3, <2>4
<1> HIDE DEF packs
<1>3. Cardinality(packs) <= 1
  <2>1. CASE packs = {}
    BY <2>1, FS_EmptySet
  <2>2. CASE packs # {}
    <3>1. PICK a \in packs : TRUE
      BY <2>2
    <3>2. packs = {a}
      BY <1>2, <3>1
    <3>3. Cardinality({a}) = 1
      BY FS_Singleton
    <3> QED BY <3>2, <3>3
  <2> QED BY <2>1, <2>2
<1>4. ASSUME NEW pack \in packs PROVE order[o].user = pack[1] /\ order[o].status = "PAID"
  BY <1>1 DEF PaidFor
<1>5. ASSUME order[o] # None, order[o].status = "PAID" PROVE packs # {}
  <2>1. PICK u \in Users : u = order[o].user
    BY <1>5 DEF PacksMatch
  <2>2. PICK i \in DOMAIN ledger[u] : Paid(u, i) /\ ledger[u][i].ref = order[o].payment
    BY <1>5, <2>1 DEF PacksMatch
  <2>3. ledger[u][i].ref \in payments
    BY <1>5, <2>2, WalletAssumption DEF PacksMatch
  <2>4. <<u, i>> \in {u} \X PacksOf(u)
    BY <2>2, <2>3
  <2> QED BY <2>4 DEF packs
<1> QED BY <1>3, <1>4, <1>5 DEF packs

(* An order yields one pack to its owner, and is paid exactly when it has, *)
(* also when two payments of it are verified at once.                      *)
THEOREM OrdersCreditedOnce ==
  ASSUME OnePaymentOneOrder
  PROVE  Spec => []OrderCreditedOnce
<1>1. Init => OrdersAreHeld /\ PacksMatch
  BY DEF Init, OrdersAreHeld, HoldsOrder, PacksMatch
<1>2. ASSUME WalletInv, OrdersAreHeld, PacksMatch, [Next]_vars
      PROVE  OrdersAreHeld' /\ PacksMatch'
  BY <1>2, OrdersHeldInv, MatchInv
<1>3. PacksMatch /\ PaymentCreditedOnce => OrderCreditedOnce
  BY OnePack
<1> QED BY <1>1, <1>2, <1>3, InitInv, NextInv, PaidOnce, PTL DEF Spec
=============================================================================
