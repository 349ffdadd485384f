-------------------------- MODULE MCUniversalTurn ---------------------------
(* Small instances of UniversalTurn for TLC. *)
EXTENDS UniversalTurn
MCModesOf == [t \in Turns |-> IF t = "t1" THEN {"message"}
                              ELSE {"edit", "quiet", "send"}]
MCMaxTools == [t \in Turns |-> 1]
=============================================================================
