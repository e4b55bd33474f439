-------------------------- MODULE WithdrawalClaims --------------------------
(***************************************************************************)
(* What the code says of withdrawals, refuted by the handlers as they are. *)
(***************************************************************************)
EXTENDS Withdrawal

\* "return nil // Already processed": a withdrawal that is ended again is left
\* alone, so it is given back once (FinalizeWithdrawal).
RefundedOnce ==
    \A w \in Withdrawals : Stored(w) => returned[w] <= WithFee(rows[w])
=============================================================================
