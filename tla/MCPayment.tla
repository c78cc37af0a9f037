------------------------------ MODULE MCPayment ------------------------------
(***************************************************************************)
(* Payment on small instances: every payment row is for the one            *)
(* appointment a1.                                                         *)
(***************************************************************************)
EXTENDS Payment, TLC

CONSTANT a1

OneAppt == {a1}
ForOneAppt == [p \in Payments |-> a1]

PaymentSymmetry == Permutations(Payments) \cup Permutations(Workers) \cup Permutations(RefundIds)
=============================================================================
