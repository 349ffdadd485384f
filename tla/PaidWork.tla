------------------------------ MODULE PaidWork ------------------------------
(***************************************************************************)
(* What the billed background jobs promise the founder: credits are taken  *)
(* once per order; a paid order is either worked on or paid back, never    *)
(* both at a time; an order that was paid back stays paid back.  A crash   *)
(* of the process may lose the orders in flight.                           *)
(***************************************************************************)
CONSTANT Orders     \* the requests that may buy a service

VARIABLE order      \* where each order stands

OrderStates == {"new", "paid", "running", "done", "refunded", "lost"}

InFlight == {o \in Orders : order[o] \in {"paid", "running"}}

WorkInit == order = [o \in Orders |-> "new"]

Move(o, from, to) ==
  /\ order[o] \in from
  /\ order' = [order EXCEPT ![o] = to]

Pay(o)    == Move(o, {"new"}, "paid")
Begin(o)  == Move(o, {"paid"}, "running")
Finish(o) == Move(o, {"running"}, "done")
PayBack(o) == Move(o, {"paid", "running"}, "refunded")

(* The process dies with the orders of S in flight.                        *)
Lose(S) == order' = [o \in Orders |-> IF o \in S THEN "lost" ELSE order[o]]

WorkNext ==
  \/ \E o \in Orders : Pay(o) \/ Begin(o) \/ Finish(o) \/ PayBack(o)
  \/ \E S \in SUBSET InFlight : Lose(S)

WorkSpec == WorkInit /\ [][WorkNext]_order
=============================================================================
