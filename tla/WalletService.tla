--------------------------- MODULE WalletService ---------------------------
(***************************************************************************)
(* The credit wallet: wallet_service.py, coupon_service.py and             *)
(* payment_service.py, as transactions of a PostgreSQL database at READ    *)
(* COMMITTED.                                                              *)
(*                                                                         *)
(* A session is one HTTP request.  It reads rows with SELECT ... FOR       *)
(* UPDATE, which blocks while another transaction holds the row; it works  *)
(* on the values it read (snap) and writes them back when it commits, and  *)
(* it keeps its row locks until it commits or rolls back.  Rows read       *)
(* without FOR UPDATE may change before the session uses them.  Debits and *)
(* refunds also lock the row of the experiment they are for, in different  *)
(* orders: PostgreSQL refuses one of two requests that wait for each other.*)
(***************************************************************************)
EXTENDS Integers, Sequences, FiniteSets, Functions

CONSTANTS
  Users, Coupons, Orders, Payments, Experiments, Sessions,
  OwnerOf,        \* the user of each experiment
  None,           \* no row, no value
  Welcome,        \* the coupon code that is also flagged on the user
  Prices,         \* the prices of the services that can be debited
  PackBase,       \* credits of a pack
  PackBonus,      \* bonus credits of a pack
  CouponCredits,  \* the credits an administrator may give a coupon
  Limits,         \* the redemption limits an administrator may set
  ValidPairs,     \* <<order, payment>> pairs whose signature verifies
  AdminOps,       \* what administrators do: subset of AdminOperations
  MaxRequests     \* bound: requests started in a behaviour

AdminOperations == {"create", "update", "archive", "restore", "delete"}

ASSUME WalletAssumption ==
  /\ IsFiniteSet(Users)
  /\ None \notin Users \cup Coupons \cup Orders \cup Payments \cup Sessions
  /\ Coupons \cap (Users \cup Orders) = {} /\ Users \cap Orders = {}
  /\ Prices \subseteq Nat \ {0}
  /\ PackBase \in Nat \ {0} /\ PackBonus \in Nat
  /\ CouponCredits \subseteq Nat \ {0}
  /\ Limits \subseteq Nat \ {0}
  /\ ValidPairs \subseteq Orders \X Payments
  /\ AdminOps \subseteq AdminOperations
  /\ MaxRequests \in Nat

(* An experiment belongs to one user for as long as it exists.             *)
ASSUME ExperimentAssumption ==
  /\ Experiments \cap (Users \cup Coupons \cup Orders \cup {None}) = {}
  /\ OwnerOf \in [Experiments -> Users]

VARIABLES
  wallet,      \* wallets: a row for each user, or None
  ledger,      \* wallet_transactions: the rows of each user in commit order
  coupon,      \* coupons: a row for each code, or None
  redeemed,    \* coupon_redemptions: the users that redeemed each coupon
  welcomed,    \* users.has_redeemed_welcome_coupon
  order,       \* payment_orders: a row for each Razorpay order id, or None
  webhooks,    \* processed_webhooks: the payment ids already fulfilled
  lock,        \* the session that holds each row, or None
  pc,          \* where each session is
  req,         \* what each session was asked
  snap,        \* the wallet row each session read
  clock        \* requests begun so far

vars == <<wallet, ledger, coupon, redeemed, welcomed, order, webhooks,
          lock, pc, req, snap, clock>>

Rows == Users \cup Coupons \cup Orders \cup Experiments

WalletRow == [balance : Nat, purchased : Nat, consumed : Nat]
LedgerRow == [type : {"topup", "bonus", "coupon", "usage", "refund"},
              credits : Int, ref : Coupons \cup Payments \cup {None}]
CouponRow == [credits : Nat \ {0}, enabled : BOOLEAN, archived : BOOLEAN,
              limit : Nat \cup {None}, window : {"before", "open", "after"}]
OrderRow  == [user : Users, status : {"CREATED", "PAID"},
              payment : Payments \cup {None}]
Request   == [op : {"debit", "refund", "redeem", "order", "verify", "delete"},
              user : Users \cup {None}, coupon : Coupons \cup {None},
              order : Orders \cup {None}, payment : Payments \cup {None},
              experiment : Experiments \cup {None},
              amount : Nat, flag : BOOLEAN]

(* A request holds a connection of the pool, which has a fixed size.       *)
ASSUME FinitePool == IsFiniteSet(Sessions)

(* None stands for a missing row.                                          *)
ASSUME MissingRow == None \notin WalletRow \cup CouponRow \cup OrderRow

Places == {"idle", "experiment", "wallet", "insert", "post", "charged",
           "coupon", "check coupon", "erase", "gateway", "order", "check payment"}

NewWallet == [balance |-> 0, purchased |-> 0, consumed |-> 0]
NoRequest == [op |-> "debit", user |-> None, coupon |-> None, order |-> None,
              payment |-> None, experiment |-> None, amount |-> 0, flag |-> FALSE]

Init ==
  /\ wallet = [u \in Users |-> None]
  /\ ledger = [u \in Users |-> <<>>]
  /\ coupon = [c \in Coupons |-> None]
  /\ redeemed = [c \in Coupons |-> {}]
  /\ welcomed = [u \in Users |-> FALSE]
  /\ order = [o \in Orders |-> None]
  /\ webhooks = {}
  /\ lock = [r \in Rows |-> None]
  /\ pc = [s \in Sessions |-> "idle"]
  /\ req = [s \in Sessions |-> NoRequest]
  /\ snap = [s \in Sessions |-> None]
  /\ clock = 0

-----------------------------------------------------------------------------
(* Transactions.                                                           *)

User(s) == req[s].user

Acquire(s, r) == lock[r] = None /\ lock' = [lock EXCEPT ![r] = s]

(* Mutant of ReleaseAll: the connection goes back to the pool with its     *)
(* transaction open.                                                       *)
ReleaseNothing(s) == lock' = lock

ReleaseAll(s) == lock' = [r \in Rows |-> IF lock[r] = s THEN None ELSE lock[r]]

tables == <<wallet, ledger, coupon, redeemed, welcomed, order, webhooks>>

Goto(s, where) == pc' = [pc EXCEPT ![s] = where]

(* The request ends: commit or rollback, the row locks are released.       *)
End(s) ==
  /\ Goto(s, "idle")
  /\ req' = [req EXCEPT ![s] = NoRequest]
  /\ snap' = [snap EXCEPT ![s] = None]
  /\ ReleaseAll(s)
  /\ UNCHANGED clock

(* An exception, a refusal or a lost connection: nothing is written.       *)
Refuse(s) == End(s) /\ UNCHANGED tables

Rollback(s) == pc[s] \notin {"idle", "charged"} /\ Refuse(s)

Start(s, r, where) ==
  /\ pc[s] = "idle" /\ clock < MaxRequests
  /\ clock' = clock + 1
  /\ req' = [req EXCEPT ![s] = r]
  /\ Goto(s, where)
  /\ UNCHANGED <<tables, lock, snap>>

(* The wallet row of u becomes w and the ledger gains the rows es.         *)
Write(u, w, es) ==
  /\ wallet' = [wallet EXCEPT ![u] = w]
  /\ ledger' = [ledger EXCEPT ![u] = @ \o es]

Row(type, credits, ref) == [type |-> type, credits |-> credits, ref |-> ref]

(* Mutant of FindWallet: SELECT without FOR UPDATE.                        *)
FindWalletUnlocked(s) ==
  /\ pc[s] = "wallet"
  /\ IF wallet[User(s)] = None
     THEN Goto(s, "insert") /\ UNCHANGED snap
     ELSE IF req[s].op = "order"
     THEN Goto(s, "gateway") /\ UNCHANGED snap
     ELSE snap' = [snap EXCEPT ![s] = wallet[User(s)]] /\ Goto(s, "post")
  /\ UNCHANGED <<tables, lock, req, clock>>

(* get_wallet_for_update: lock the row and read it, or find none.  An      *)
(* order only needs the row to exist (get_or_create_wallet).               *)
FindWallet(s) ==
  /\ pc[s] = "wallet"
  /\ \/ wallet[User(s)] = None /\ Goto(s, "insert") /\ UNCHANGED <<lock, snap>>
     \/ /\ wallet[User(s)] # None /\ req[s].op = "order"
        /\ Goto(s, "gateway") /\ UNCHANGED <<lock, snap>>
     \/ /\ wallet[User(s)] # None /\ req[s].op # "order"
        /\ Acquire(s, User(s))
        /\ snap' = [snap EXCEPT ![s] = wallet[User(s)]]
        /\ Goto(s, "post")
  /\ UNCHANGED <<tables, req, clock>>

(* INSERT of the missing row: waits for an uncommitted insert of the same  *)
(* key, and fails on the unique index when that one committed.             *)
InsertWallet(s) ==
  /\ pc[s] = "insert"
  /\ \/ /\ wallet[User(s)] = None
        /\ Acquire(s, User(s))
        /\ snap' = [snap EXCEPT ![s] = NewWallet]
        /\ Goto(s, IF req[s].op = "order" THEN "gateway" ELSE "post")
        /\ UNCHANGED <<tables, req, clock>>
     \/ wallet[User(s)] # None /\ Refuse(s)

-----------------------------------------------------------------------------
(* Debits and refunds of a service.                                        *)

StartDebit(s, e, a) ==
  Start(s, [NoRequest EXCEPT !.op = "debit", !.user = OwnerOf[e], !.experiment = e,
                             !.amount = a], "experiment")

(* _get_owned_experiment_for_update, which every debit begins with.        *)
LockExperiment(s) ==
  /\ pc[s] = "experiment"
  /\ Acquire(s, req[s].experiment)
  /\ Goto(s, "wallet")
  /\ UNCHANGED <<tables, req, snap, clock>>

DebitCredits(s) ==
  /\ pc[s] = "post" /\ req[s].op = "debit"
  /\ LET w == snap[s]  a == req[s].amount
     IN IF w.balance < a
        THEN Refuse(s)
        ELSE /\ Write(User(s),
                      [w EXCEPT !.balance = @ - a, !.consumed = @ + a],
                      <<Row("usage", -a, None)>>)
             /\ Goto(s, "charged") /\ ReleaseAll(s)
             /\ snap' = [snap EXCEPT ![s] = None]
             /\ UNCHANGED <<coupon, redeemed, welcomed, order, webhooks, req, clock>>

(* The service the credits paid for was delivered ...                      *)
Deliver(s) == pc[s] = "charged" /\ Refuse(s)

(* ... or failed: the caller refunds it in a transaction of its own.  A    *)
(* refused insight dispatch locks the experiment again and then takes the  *)
(* wallet; all other refunds take the wallet first.                        *)
StartRefund(s) ==
  /\ pc[s] = "charged"
  /\ clock' = clock + 1
  /\ req' = [req EXCEPT ![s].op = "refund"]
  /\ \E first \in {"experiment", "wallet"} : Goto(s, first)
  /\ UNCHANGED <<tables, lock, snap>>

(* The row of an experiment that no other transaction holds for update.    *)
MayTouch(s, e) == lock[e] \in {None, s}

(* Mutant of RefundCredits: the lifetime counter is not corrected.         *)
RefundKeepsConsumed(s) ==
  /\ pc[s] = "post" /\ req[s].op = "refund"
  /\ MayTouch(s, req[s].experiment)
  /\ Write(User(s), [snap[s] EXCEPT !.balance = @ + req[s].amount],
           <<Row("refund", req[s].amount, None)>>)
  /\ End(s)
  /\ UNCHANGED <<coupon, redeemed, welcomed, order, webhooks>>

(* The ledger row refers to the experiment: the foreign key check, like    *)
(* the status write of a failed insight job, waits for whoever holds it.   *)
RefundCredits(s) ==
  /\ pc[s] = "post" /\ req[s].op = "refund"
  /\ MayTouch(s, req[s].experiment)
  /\ LET w == snap[s]  a == req[s].amount
     IN Write(User(s),
              [w EXCEPT !.balance = @ + a,
                        !.consumed = IF @ >= a THEN @ - a ELSE @],
              <<Row("refund", a, None)>>)
  /\ End(s)
  /\ UNCHANGED <<coupon, redeemed, welcomed, order, webhooks>>

-----------------------------------------------------------------------------
(* Coupons.                                                                *)

StartRedeem(s, u, c) ==
  Start(s, [NoRequest EXCEPT !.op = "redeem", !.user = u, !.coupon = c,
                             !.flag = welcomed[u]], "coupon")

(* Mutant of LockCoupon: the coupon is read without FOR UPDATE.            *)
ReadCoupon(s) ==
  /\ pc[s] = "coupon"
  /\ IF coupon[req[s].coupon] = None
     THEN Refuse(s)
     ELSE Goto(s, "check coupon") /\ UNCHANGED <<tables, lock, req, snap, clock>>

LockCoupon(s) ==
  /\ pc[s] = "coupon"
  /\ \/ coupon[req[s].coupon] = None /\ Refuse(s)
     \/ /\ coupon[req[s].coupon] # None
        /\ Acquire(s, req[s].coupon)
        /\ Goto(s, "check coupon")
        /\ UNCHANGED <<tables, req, snap, clock>>

Open(c) ==
  /\ coupon[c] # None
  /\ ~coupon[c].archived /\ coupon[c].enabled /\ coupon[c].window = "open"

BelowLimit(c) ==
  coupon[c].limit = None \/ Cardinality(redeemed[c]) < coupon[c].limit

MayRedeem(u, c, flag) ==
  /\ Open(c)
  /\ u \notin redeemed[c]
  /\ ~(c = Welcome /\ flag)
  /\ BelowLimit(c)

CheckCoupon(s) ==
  /\ pc[s] = "check coupon"
  /\ IF MayRedeem(User(s), req[s].coupon, req[s].flag)
     THEN Goto(s, "wallet") /\ UNCHANGED <<tables, lock, req, snap, clock>>
     ELSE Refuse(s)

(* Mutant of RedeemCoupon: no coupon_redemptions row is inserted.          *)
RedeemUnrecorded(s) ==
  /\ pc[s] = "post" /\ req[s].op = "redeem"
  /\ LET w == snap[s]  c == req[s].coupon  u == User(s)
     IN /\ coupon[c] # None
        /\ Write(u, [w EXCEPT !.balance = @ + coupon[c].credits,
                              !.purchased = @ + coupon[c].credits],
                 <<Row("coupon", coupon[c].credits, c)>>)
  /\ End(s)
  /\ UNCHANGED <<coupon, redeemed, welcomed, order, webhooks>>

(* uq_coupon_redemptions_coupon_user makes a second row fail.              *)
RedeemCoupon(s) ==
  /\ pc[s] = "post" /\ req[s].op = "redeem"
  /\ LET w == snap[s]  c == req[s].coupon  u == User(s)
     IN IF coupon[c] = None \/ u \in redeemed[c]
        THEN Refuse(s)
        ELSE /\ Write(u, [w EXCEPT !.balance = @ + coupon[c].credits,
                                   !.purchased = @ + coupon[c].credits],
                      <<Row("coupon", coupon[c].credits, c)>>)
             /\ redeemed' = [redeemed EXCEPT ![c] = @ \cup {u}]
             /\ welcomed' = [welcomed EXCEPT ![u] = @ \/ c = Welcome]
             /\ End(s)
             /\ UNCHANGED <<coupon, order, webhooks>>

(* Administrators read a coupon without locking it; their UPDATE or DELETE *)
(* waits for the row lock.                                                 *)
SetCoupon(op, c, row) ==
  /\ op \in AdminOps
  /\ lock[c] = None
  /\ coupon' = [coupon EXCEPT ![c] = row]
  /\ UNCHANGED <<wallet, ledger, redeemed, welcomed, order, webhooks,
                 lock, pc, req, snap, clock>>

CreateCoupon(c) ==
  /\ coupon[c] = None
  /\ \E k \in CouponCredits, l \in Limits \cup {None}, e \in BOOLEAN,
        w \in {"before", "open"} :
       SetCoupon("create", c, [credits |-> k, enabled |-> e, archived |-> FALSE,
                               limit |-> l, window |-> w])

UpdateCoupon(c) ==
  /\ coupon[c] # None
  /\ \/ \E e \in BOOLEAN : SetCoupon("update", c, [coupon[c] EXCEPT !.enabled = e])
     \/ \E l \in Limits : SetCoupon("update", c, [coupon[c] EXCEPT !.limit = l])
     \/ \E k \in CouponCredits : SetCoupon("update", c, [coupon[c] EXCEPT !.credits = k])
     \/ \E w \in {"before", "open", "after"} :
          SetCoupon("update", c, [coupon[c] EXCEPT !.window = w])

ArchiveCoupon(c) ==
  /\ coupon[c] # None
  /\ SetCoupon("archive", c, [coupon[c] EXCEPT !.archived = TRUE, !.enabled = FALSE])

RestoreCoupon(c) ==
  /\ coupon[c] # None
  /\ SetCoupon("restore", c, [coupon[c] EXCEPT !.archived = FALSE])

(* Time passes starts_at, then ends_at; no lock holds time back.           *)
CouponWindow(c) ==
  /\ coupon[c] # None /\ coupon[c].window # "after"
  /\ coupon' = [coupon EXCEPT ![c].window =
                  IF @ = "before" THEN "open" ELSE "after"]
  /\ UNCHANGED <<wallet, ledger, redeemed, welcomed, order, webhooks,
                 lock, pc, req, snap, clock>>

(* delete_admin_coupon counts the redemptions, then deletes; the DELETE    *)
(* cascades to the redemptions committed in between.  One administrator    *)
(* deletes at a time.                                                      *)
StartDelete(s, c) ==
  /\ "delete" \in AdminOps
  /\ \A t \in Sessions : req[t].op # "delete"
  /\ coupon[c] # None /\ redeemed[c] = {}
  /\ Start(s, [NoRequest EXCEPT !.op = "delete", !.coupon = c], "erase")

DeleteCoupon(s) ==
  /\ pc[s] = "erase"
  /\ LET c == req[s].coupon
     IN /\ lock[c] = None
        /\ coupon' = [coupon EXCEPT ![c] = None]
        /\ redeemed' = [redeemed EXCEPT ![c] = {}]
  /\ End(s)
  /\ UNCHANGED <<wallet, ledger, welcomed, order, webhooks>>

-----------------------------------------------------------------------------
(* Payments.                                                               *)

StartOrder(s, u) ==
  Start(s, [NoRequest EXCEPT !.op = "order", !.user = u], "wallet")

(* create_order at Razorpay answers with a new order id o; the row (and the *)
(* wallet row, when it was missing) is committed.                          *)
PlaceOrder(s, o) ==
  /\ pc[s] = "gateway" /\ order[o] = None
  /\ order' = [order EXCEPT ![o] = [user |-> User(s), status |-> "CREATED",
                                   payment |-> None]]
  /\ wallet' = [wallet EXCEPT ![User(s)] = IF snap[s] = None THEN @ ELSE snap[s]]
  /\ End(s)
  /\ UNCHANGED <<ledger, coupon, redeemed, welcomed, webhooks>>

(* RazorpayApiError: 502, the wallet row is rolled back too.               *)
GatewayFails(s) == pc[s] = "gateway" /\ Refuse(s)

StartVerify(s, u, o, p) ==
  Start(s, [NoRequest EXCEPT !.op = "verify", !.user = u, !.order = o,
                             !.payment = p], "order")

LockOrder(s) ==
  /\ pc[s] = "order"
  /\ \/ order[req[s].order] = None /\ Refuse(s)
     \/ /\ order[req[s].order] # None
        /\ Acquire(s, req[s].order)
        /\ Goto(s, "check payment")
        /\ UNCHANGED <<tables, req, snap, clock>>

(* Mutant of Payable: the status of the order is not asked.                *)
PayableTwice(u, o, p) ==
  /\ order[o].user = u
  /\ p \notin webhooks
  /\ <<o, p>> \in ValidPairs

(* Everything verify_and_fulfill_payment asks before it pays out; a repeat *)
(* of a fulfilled payment is answered without paying out again.            *)
Payable(u, o, p) ==
  /\ order[o].user = u
  /\ order[o].status # "PAID"
  /\ \A x \in Orders : order[x] = None \/ order[x].payment # p
  /\ p \notin webhooks
  /\ <<o, p>> \in ValidPairs

CheckPayment(s) ==
  /\ pc[s] = "check payment"
  /\ IF Payable(User(s), req[s].order, req[s].payment)
     THEN Goto(s, "wallet") /\ UNCHANGED <<tables, lock, req, snap, clock>>
     ELSE Refuse(s)

(* Mutant of PackRows: the bonus is added to the balance without a row.    *)
BaseRowOnly(s) == <<Row("topup", PackBase, req[s].payment)>>

PackRows(s) ==
  LET base  == Row("topup", PackBase, req[s].payment)
      bonus == Row("bonus", PackBonus, req[s].payment)
  IN IF PackBonus > 0 THEN <<base, bonus>> ELSE <<base>>

(* processed_webhooks.event_id and payment_orders.razorpay_payment_id are  *)
(* unique: a second fulfilment of the same payment fails to commit.        *)
FulfillPayment(s) ==
  /\ pc[s] = "post" /\ req[s].op = "verify"
  /\ LET w == snap[s]  o == req[s].order  p == req[s].payment
     IN IF p \in webhooks
        THEN Refuse(s)
        ELSE /\ Write(User(s), [w EXCEPT !.balance = @ + PackBase + PackBonus,
                                         !.purchased = @ + PackBase + PackBonus],
                      PackRows(s))
             /\ webhooks' = webhooks \cup {p}
             /\ order' = [order EXCEPT ![o] = [user |-> User(s), status |-> "PAID",
                                              payment |-> p]]
             /\ End(s)
             /\ UNCHANGED <<coupon, redeemed, welcomed>>

-----------------------------------------------------------------------------
(* s waits for a row that t holds.  Coupons and orders are taken before    *)
(* the wallet, by requests that take no experiment.                        *)
WaitsFor(s, t) ==
  /\ s # t
  /\ \/ pc[s] = "experiment" /\ lock[req[s].experiment] = t
     \/ /\ pc[s] = "wallet" /\ wallet[User(s)] # None /\ req[s].op # "order"
        /\ lock[User(s)] = t
     \/ pc[s] = "insert" /\ wallet[User(s)] = None /\ lock[User(s)] = t
     \/ pc[s] = "post" /\ req[s].op = "refund" /\ lock[req[s].experiment] = t

(* Two transactions wait for each other: PostgreSQL fails one of them.  No *)
(* longer cycle exists: who holds an experiment waits for nothing but the  *)
(* wallet of its owner, and only a refund of that owner waits while it     *)
(* holds the wallet.                                                       *)
Victim(s) ==
  /\ \E t \in Sessions : WaitsFor(s, t) /\ WaitsFor(t, s)
  /\ Refuse(s)

Work(s) ==
  \/ LockExperiment(s) \/ FindWallet(s) \/ InsertWallet(s) \/ Victim(s)
  \/ DebitCredits(s) \/ Deliver(s) \/ StartRefund(s) \/ RefundCredits(s)
  \/ LockCoupon(s) \/ CheckCoupon(s) \/ RedeemCoupon(s) \/ DeleteCoupon(s)
  \/ LockOrder(s) \/ CheckPayment(s) \/ FulfillPayment(s)
  \/ (\E o \in Orders : PlaceOrder(s, o)) \/ GatewayFails(s)

Arrive(s) ==
  \/ \E e \in Experiments, a \in Prices : StartDebit(s, e, a)
  \/ \E u \in Users :
       \/ \E c \in Coupons : StartRedeem(s, u, c)
       \/ StartOrder(s, u)
       \/ \E o \in Orders, p \in Payments : StartVerify(s, u, o, p)
  \/ \E c \in Coupons : StartDelete(s, c)

Administer(c) ==
  \/ CreateCoupon(c) \/ UpdateCoupon(c) \/ ArchiveCoupon(c)
  \/ RestoreCoupon(c) \/ CouponWindow(c)

(* Every admitted request has been served: the bound MaxRequests is met.   *)
Served ==
  /\ clock >= MaxRequests /\ \A s \in Sessions : pc[s] = "idle"
  /\ UNCHANGED vars

Next ==
  \/ Served
  \/ \E s \in Sessions : Work(s) \/ Arrive(s) \/ Rollback(s)
  \/ \E c \in Coupons : Administer(c)

Spec == Init /\ [][Next]_vars

(* A request in progress is not left alone for ever: PostgreSQL grants row *)
(* locks in the order they were asked for.                                 *)
FairSpec == Spec /\ \A s \in Sessions : SF_vars(Work(s))

-----------------------------------------------------------------------------
(* Types.                                                                  *)

TypeOK ==
  /\ wallet \in [Users -> WalletRow \cup {None}]
  /\ ledger \in [Users -> Seq(LedgerRow)]
  /\ coupon \in [Coupons -> CouponRow \cup {None}]
  /\ redeemed \in [Coupons -> SUBSET Users]
  /\ welcomed \in [Users -> BOOLEAN]
  /\ order \in [Orders -> OrderRow \cup {None}]
  /\ webhooks \in SUBSET Payments
  /\ lock \in [Rows -> Sessions \cup {None}]
  /\ pc \in [Sessions -> Places]
  /\ req \in [Sessions -> Request]
  /\ snap \in [Sessions -> WalletRow \cup {None}]
  /\ clock \in Nat

-----------------------------------------------------------------------------
(* Safety.                                                                 *)

(* The credits that the rows of a ledger add up to.                        *)
Total(entries) ==
  SumFunctionOnSet([i \in DOMAIN entries |-> entries[i].credits], DOMAIN entries)

(* wallet_transaction.py: "Balance changes on wallets must always be       *)
(* accompanied by a row": the balance is the sum of the user's rows, and   *)
(* it is never negative.  Two requests that read the same balance and both *)
(* write it, or a refusal that writes half, would break it.                *)
LedgerExplainsBalance ==
  \A u \in Users :
    /\ Total(ledger[u]) >= 0
    /\ IF wallet[u] = None THEN ledger[u] = <<>> ELSE wallet[u].balance = Total(ledger[u])

(* The lifetime counters agree with the balance: the clamp in              *)
(* refund_credits never drops the correction of total_credits_consumed.    *)
CountersAgree ==
  \A u \in Users :
    wallet[u] # None =>
      wallet[u].balance = wallet[u].purchased - wallet[u].consumed

Paid(u, i) == ledger[u][i].type = "topup"

(* A payment is paid out at most once, whoever asks and however often the  *)
(* browser repeats the verification.                                       *)
PaymentCreditedOnce ==
  \A u, v \in Users : \A i \in DOMAIN ledger[u], j \in DOMAIN ledger[v] :
    (Paid(u, i) /\ Paid(v, j) /\ ledger[u][i].ref = ledger[v][j].ref)
      => (u = v /\ i = j)

(* An order yields one pack, also when two payments of it verify at once;  *)
(* it is paid exactly when its owner's ledger has the pack.                *)
OrderCreditedOnce ==
  \A o \in Orders :
    LET payments == {p \in Payments : <<o, p>> \in ValidPairs}
        PacksOf(u) == {i \in DOMAIN ledger[u] :
                         Paid(u, i) /\ ledger[u][i].ref \in payments}
        packs == UNION {{u} \X PacksOf(u) : u \in Users}
    IN /\ Cardinality(packs) <= 1
       /\ \A pack \in packs : order[o].user = pack[1] /\ order[o].status = "PAID"
       /\ (order[o] # None /\ order[o].status = "PAID") => packs # {}

(* A code is credited to a user at most once, whatever administrators do   *)
(* to the coupon short of deleting it.                                     *)
CouponCreditedOnce ==
  \A u \in Users : \A i, j \in DOMAIN ledger[u] :
    (/\ ledger[u][i].type = "coupon" /\ ledger[u][j].type = "coupon"
     /\ ledger[u][i].ref = ledger[u][j].ref) => i = j

(* A redemption commits only while the coupon is enabled, not archived and *)
(* below its limit: the check made earlier in the request still holds.     *)
RedemptionIsAllowed ==
  [][\A c \in Coupons :
       \A u \in redeemed'[c] \ redeemed[c] :
         /\ coupon[c] # None /\ coupon[c].enabled /\ ~coupon[c].archived
         /\ BelowLimit(c)]_vars

(* admin_coupons.py refuses to delete a coupon that has redemptions, "to   *)
(* keep redemption history": no step loses a redemption.                   *)
RedemptionHistoryKept ==
  [][\A c \in Coupons : redeemed[c] \subseteq redeemed'[c]]_vars

-----------------------------------------------------------------------------
(* The inductive invariant of the proofs.                                  *)

(* What a session at each place was asked, and with which rows.            *)
AskedRight(s) ==
  /\ pc[s] \notin {"idle", "erase"} => User(s) \in Users
  /\ pc[s] \in {"wallet", "insert", "post"} =>
       req[s].op \in {"debit", "refund", "redeem", "verify", "order"}
  /\ pc[s] = "post" => req[s].op # "order"
  /\ pc[s] = "charged" => req[s].op = "debit"
  /\ pc[s] = "experiment" => req[s].op \in {"debit", "refund"}
  /\ (pc[s] # "idle" /\ req[s].op \in {"debit", "refund"}) =>
       req[s].experiment \in Experiments /\ User(s) = OwnerOf[req[s].experiment]
  /\ pc[s] \in {"coupon", "check coupon"} => req[s].op = "redeem"
  /\ pc[s] \in {"order", "check payment"} => req[s].op = "verify"
  /\ pc[s] = "gateway" => req[s].op = "order"
  /\ pc[s] = "erase" => req[s].op = "delete"
  /\ (pc[s] # "idle" /\ req[s].op \in {"redeem", "delete"}) => req[s].coupon \in Coupons
  /\ (pc[s] # "idle" /\ req[s].op = "verify") =>
       req[s].order \in Orders /\ req[s].payment \in Payments

WellFormed == \A s \in Sessions : AskedRight(s)

(* The wallet row as the next transaction will find it.                    *)
Current(u) == IF wallet[u] = None THEN NewWallet ELSE wallet[u]

(* A session about to write a wallet row holds its lock, and the values it *)
(* read are the committed ones: no write is based on a stale balance.      *)
ReadsCurrent(s) ==
  /\ pc[s] \notin {"post", "gateway"} => snap[s] = None
  /\ pc[s] = "post" \/ (pc[s] = "gateway" /\ snap[s] # None) =>
       lock[User(s)] = s /\ snap[s] = Current(User(s))

ReadsAreCurrent == \A s \in Sessions : ReadsCurrent(s)

WalletInv == TypeOK /\ WellFormed /\ ReadsAreCurrent

(* What the requests may still give back to u: the charges that are not    *)
(* yet delivered, and the refunds under way.                               *)
Owing(s, u) == User(s) = u /\ (pc[s] = "charged" \/ req[s].op = "refund")

Debt(u) == [s \in Sessions |-> IF Owing(s, u) THEN req[s].amount ELSE 0]

Owed(u) == SumFunctionOnSet(Debt(u), Sessions)

(* The clamp of refund_credits never bites: what is owed to a user was     *)
(* consumed and not given back since.                                      *)
CountersKept ==
  \A u \in Users :
    /\ Current(u).balance = Current(u).purchased - Current(u).consumed
    /\ Owed(u) <= Current(u).consumed

-----------------------------------------------------------------------------
(* Refinement and liveness.                                                *)

Account == INSTANCE AccountLedger WITH
  balance <- [u \in Users |-> IF wallet[u] = None THEN 0 ELSE wallet[u].balance],
  rows <- ledger

(* Each commit is one movement on one account, explained by its rows.      *)
ImplementsAccount == Account!AbstractSpec

(* No request waits for ever.  Coupons, orders and wallets are taken in    *)
(* one order by every request, but debits take the experiment before the   *)
(* wallet and most refunds the wallet before the experiment: a debit and a *)
(* refund of one experiment end only because PostgreSQL refuses one of     *)
(* them, and a refund that is refused is lost.                             *)
EveryRequestEnds ==
  \A s \in Sessions : pc[s] # "idle" ~> pc[s] = "idle"
=============================================================================
