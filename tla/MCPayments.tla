----------------------------- MODULE MCPayments -----------------------------
(***************************************************************************)
(* Small instances of Payments for TLC.                                    *)
(***************************************************************************)
EXTENDS PaymentsClaims, PaymentsInv, TLC

CONSTANTS o1, t1, n1, q1, q2

SameBase == [x \in Payables |-> 10]
SlotSymmetry == Permutations(Procs)
=============================================================================
