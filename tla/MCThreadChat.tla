---------------------------- MODULE MCThreadChat ----------------------------
(* Small instances of ThreadChat for TLC. *)
EXTENDS ThreadChat
MCKeyOf == [r \in Requests |-> IF r = "r3" THEN "k2" ELSE "k1"]
=============================================================================
