--------------------------- MODULE WithdrawalInv ---------------------------
(***************************************************************************)
(* The inductive invariants from which the properties of Withdrawal follow *)
(***************************************************************************)
EXTENDS Withdrawal

\* Whoever is about to end a withdrawal found it stored, and calls it failed
\* only after the gateway refused.
EndsOnGrounds ==
    \A q \in Handlers :
        Handles(q, "finalize") \/ Handles(q, "approve") =>
            /\ Stored(handler[q].id)
            /\ Handles(q, "finalize") /\ handler[q].status = "failed"
                 => gateway[handler[q].id] = "refused"

RefundInv == WithdrawalTypeOK /\ EndsOnGrounds /\ RefundAgrees /\ FailedIsRefused

-----------------------------------------------------------------------------
(* What users own.                                                         *)

\* Also of a withdrawal that was ended twice, the fee row tells whether there
\* was a fee, so what is given back is what was taken.
FeesAreKnown ==
    \A w \in Withdrawals :
        Stored(w) =>
            (rows[w].fee = "none" <=> Fee(rows[w].channel, rows[w].amount) = 0)

FinitelyMany == IsFiniteSet({w \in Withdrawals : Stored(w)})

MoneyInv == FinitelyMany /\ FeesAreKnown /\ MoneyKept

-----------------------------------------------------------------------------
(* The daily limit, provided that the sum can be read and that locks        *)
(* outlive their requests.                                                  *)

\* Nobody else asks for a withdrawal of the same user meanwhile.
LocksAreHeld == \A q \in Handlers : Handles(q, "request") => lock[handler[q].user] = q

\* What a request found below the limit still is.
RoomIsLeft ==
    \A q \in Handlers :
        /\ Handles(q, "request") /\ handler[q].step # "limit"
        /\ handler[q].user \notin Verified /\ Intact(handler[q].user)
        => Asked(Today(handler[q].user)) + handler[q].amount <= DailyLimit

LimitInv == LocksAreHeld /\ RoomIsLeft /\ LimitKept
=============================================================================
