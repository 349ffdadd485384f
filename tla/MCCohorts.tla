------------------------------ MODULE MCCohorts ------------------------------
(* Small instances of PublishCohorts for TLC.                              *)
EXTENDS PublishCohorts, TLC

CONSTANTS r1, r2, r3, r4, r5

(* Requests are interchangeable.                                           *)
RequestSymmetry == Permutations(Requests)
=============================================================================
