------------------------------ MODULE MCWallet ------------------------------
(* Small instances of WalletService for TLC. *)
EXTENDS WalletService, TLC

CONSTANTS u1, u2, o1, o2, p1, p2, p3, e1, e2, s1, s2, s3

(* Requests are interchangeable.                                           *)
SessionSymmetry == Permutations({s1, s2, s3})

(* Two payments of order o1 verify: a retried checkout.                    *)
TwoPaymentsForOne == {<<o1, p1>>, <<o1, p2>>}

OnePair == {<<o1, p1>>}

(* An experiment of each user.                                             *)
OneEach == e1 :> u1 @@ e2 :> u2

OnlyFirst == e1 :> u1
=============================================================================
