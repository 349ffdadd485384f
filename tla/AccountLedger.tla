--------------------------- MODULE AccountLedger ---------------------------
(***************************************************************************)
(* What the wallet promises: every user has a balance of credits and an    *)
(* append-only list of ledger rows; a movement of credits changes one      *)
(* balance and appends the rows that explain the change, in one step, and  *)
(* no balance is ever negative.                                            *)
(***************************************************************************)
EXTENDS Integers, Sequences

CONSTANT Users      \* the account holders

VARIABLES
  balance,          \* the credits of each user
  rows              \* the ledger of each user, oldest row first

abstractVars == <<balance, rows>>

(* The change of balance that one or two rows explain. *)
Net(es) == IF Len(es) = 1 THEN es[1].credits ELSE es[1].credits + es[2].credits

NewRows(u) == SubSeq(rows'[u], Len(rows[u]) + 1, Len(rows'[u]))

AbstractInit ==
  /\ balance = [u \in Users |-> 0]
  /\ rows = [u \in Users |-> <<>>]

(* One movement of credits on the account of u, explained by one or two     *)
(* new rows (a pack's base credits and its bonus are two rows).             *)
Post(u) ==
  /\ Len(NewRows(u)) \in 1..2
  /\ rows' = [rows EXCEPT ![u] = @ \o NewRows(u)]
  /\ balance' = [balance EXCEPT ![u] = @ + Net(NewRows(u))]
  /\ balance'[u] >= 0

AbstractNext == \E u \in Users : Post(u)

AbstractSpec == AbstractInit /\ [][AbstractNext]_abstractVars
=============================================================================
