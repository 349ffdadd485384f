------------------------------ MODULE MCBreaker ------------------------------
(* Small instances of CircuitBreaker for TLC. *)
EXTENDS CircuitBreaker
=============================================================================
