---------------------------- MODULE PromotionInv ----------------------------
(***************************************************************************)
(* The inductive invariant from which the properties of Promotion follow.  *)
(* The properties are not inductive: a request has decided that there is   *)
(* room for one more use before the use is written.  What makes that safe  *)
(* is the row lock, which it holds from before the decision until it ends. *)
(***************************************************************************)
EXTENDS Promotion

Placing(q) == Busy(q) /\ req[q].kind = "create"
Reserves(q) ==
    Placing(q) /\ req[q].step \in {"check", "pay", "hold"} /\ req[q].promo # NoPromo
Decided(q) == Reserves(q) /\ req[q].step # "check"

\* A request that goes on with a promotion holds its lock.
HoldsItsPromo ==
    \A q \in Procs : Reserves(q) => /\ Stored(req[q].promo)
                                    /\ promoLock[req[q].promo] = q

\* What a request decided on is still true.
RoomIsLeft ==
    \A q \in Procs : Decided(q) =>
        LET row == promos[req[q].promo] IN
        /\ row.count < row.offer.max
        /\ row.used + req[q].amount <= row.offer.budget + Rupiah \div 2
        /\ "usages" \notin MayFail
             => Cardinality(UsedBy(req[q].promo, req[q].user)) < row.offer.perUser
        /\ req[q].amount > 0

\* Amount and promotion go together.
NothingWithoutPromo ==
    \A q \in Procs :
        /\ Placing(q) /\ req[q].promo = NoPromo => req[q].amount = 0
        /\ Creates(q, "pick") => req[q].promo = NoPromo
        /\ Creates(q, "check") => req[q].promo # NoPromo

\* Orders being placed are new, and nobody else's; cancelled ones exist.
OrdersAreNew ==
    \A q \in Procs :
        /\ Placing(q) => orders[req[q].order] = NoRow
        /\ Busy(q) /\ req[q].kind = "cancel" => orders[req[q].order] # NoRow
        /\ \A r \in Procs : Placing(q) /\ Busy(r) /\ q # r
                             => req[q].order # req[r].order

\* A usage belongs to a stored promotion and to the order that was discounted.
UsageHasOwner ==
    \A x \in usages :
        /\ Stored(x.promo)
        /\ orders[x.order] # NoRow
        /\ orders[x.order].promo = x.promo

UsesAreCounted ==
    /\ IsFiniteSet(usages)
    /\ \A p \in Promos :
         Stored(p) => promos[p].count = Cardinality(UsagesOf(p))

ReservationInv == HoldsItsPromo /\ RoomIsLeft /\ NothingWithoutPromo /\ OrdersAreNew
LedgerInv ==
    UsageHasOwner /\ UsesAreCounted /\ DiscountIsAccounted /\ QuotaKept /\ BudgetKept
\* The budget is charged exactly what the usages say.
UsesAreSummed == \A p \in Promos : Stored(p) => promos[p].used = Given(p)

AccountingInv == TypeOK /\ ReservationInv /\ LedgerInv
=============================================================================
