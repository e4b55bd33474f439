----------------------------- MODULE Promotion -----------------------------
(***************************************************************************)
(* Promotions of nitip-core: vouchers and automatic discounts with a       *)
(* budget, a number of uses and a limit per customer, shared by orders     *)
(* that are placed and cancelled at the same time while an administrator   *)
(* edits the rows.                                                         *)
(*                                                                         *)
(* Placing an order is one database transaction of several statements: it  *)
(* locks the promotion row, counts on other connections what the customer  *)
(* used before, and locks the customer's wallet; cancelling one locks the  *)
(* order, the wallet and then the promotion.  A request keeps its locks    *)
(* and its connection until it ends.  What a transaction writes appears    *)
(* when it commits.                                                        *)
(*                                                                         *)
(* Amounts are in hundredths of a rupiah, the scale of the columns.        *)
(***************************************************************************)
EXTENDS Integers, FiniteSets, Functions

CONSTANTS
    Promos,       \* identities of promotion rows, also their voucher codes
    Age,          \* Promos -> Nat, the order in which they were created
    Orders, Users, Merchants,
    Procs,        \* requests in flight
    Connections,  \* connections to the database, 50 in the code
    Offers,       \* terms an administrator may give a promotion
    Baskets,      \* what customers order: [item, delivery]
    MayFail,      \* which counts may fail, a subset of Counts
    NoRow, Idle, Free, NoPromo, NoCode, AnyMerchant

\* What is counted on a connection of its own; if that fails, nothing is refused.
Counts == {"usages", "orders"}
ASSUME MayFailAssumption == MayFail \subseteq Counts

Rupiah == 100
MinBudget == 1000 * Rupiah

Offer == [reach : {"auto", "code", "none"}, merchant : Merchants \cup {AnyMerchant},
          percent : BOOLEAN, value : Nat, scope : {"item", "delivery", "total"},
          minimum : Nat, perUser : Nat, first : BOOLEAN, budget : Nat, max : Nat]
Basket == [item : Nat, delivery : Nat]

\* The table's CHECK constraints and the validation of the request.
ASSUME OffersAssumption ==
    /\ Offers \subseteq Offer /\ Baskets \subseteq Basket
    /\ Age \in [Promos -> Nat]
    /\ \A x \in Offers : /\ x.value > 0 /\ x.max >= 1 /\ x.perUser >= 1
                         /\ x.percent => x.value <= 90

VARIABLES
    promos,     \* the promotions table
    usages,     \* the promotion_usages table
    orders,     \* the orders table, as far as discounts go
    promoLock,  \* which request has locked a promotion row
    req         \* what each request is doing

vars == <<promos, usages, orders, promoLock, req>>

Payments == {"wallet", "qris", "cod"}
PromoRow == [offer : Offers, active : BOOLEAN, live : BOOLEAN,
             used : Nat, count : Nat]
Usage == [promo : Promos, order : Orders, user : Users, amount : Nat]
OrderRow == [user : Users, payment : Payments, promo : Promos \cup {NoPromo},
             discount : Nat, status : {"open", "completed", "cancelled", "expired"}]
Creating == [kind : {"create"}, step : {"pick", "check", "pay", "hold"},
             order : Orders, user : Users, merchant : Merchants,
             payment : Payments, basket : Baskets, code : Promos \cup {NoCode},
             found : SUBSET Promos, promo : Promos \cup {NoPromo}, amount : Nat]
Cancelling == [kind : {"cancel"}, step : {"row", "refund", "release"},
               order : Orders]

ASSUME SentinelsAssumption ==
    /\ NoRow \notin PromoRow /\ NoRow \notin OrderRow
    /\ NoPromo \notin Promos /\ NoCode \notin Promos /\ Free \notin Procs
    /\ AnyMerchant \notin Merchants

TypeOK ==
    /\ promos \in [Promos -> PromoRow \cup {NoRow}]
    /\ usages \subseteq Usage
    /\ orders \in [Orders -> OrderRow \cup {NoRow}]
    /\ promoLock \in [Promos -> Procs \cup {Free}]
    /\ req \in [Procs -> Creating \cup Cancelling \cup {Idle}]

Init ==
    /\ promos = [p \in Promos |-> NoRow]
    /\ usages = {}
    /\ orders = [o \in Orders |-> NoRow]
    /\ promoLock = [p \in Promos |-> Free]
    /\ req = [q \in Procs |-> Idle]

-----------------------------------------------------------------------------
(* Who holds what.                                                         *)

Busy(q) == req[q] # Idle
Creates(q, step) == Busy(q) /\ req[q].kind = "create" /\ req[q].step = step
Cancels(q, step) == Busy(q) /\ req[q].kind = "cancel" /\ req[q].step = step

\* A transaction has one connection; a query beside it needs one more.
FreeConnections == Connections - Cardinality({q \in Procs : Busy(q)})
FreeConnection == FreeConnections > 0

LocksOrder(q, o) ==
    (Cancels(q, "refund") \/ Cancels(q, "release")) /\ req[q].order = o
\* A refund leaves the customer's wallet locked until the cancellation commits.
LocksWallet(q, u) ==
    /\ Cancels(q, "release")
    /\ orders[req[q].order].payment # "cod" /\ orders[req[q].order].user = u

Stored(p) == promos[p] # NoRow
UsagesOf(p) == {x \in usages : x.promo = p}
UsedBy(p, u) == {x \in UsagesOf(p) : x.user = u}

\* Mutant: a way out of the handler that does not end the transaction.
ReleaseForgotten(q) == UNCHANGED promoLock
Release(q) ==
    promoLock' = [p \in Promos |-> IF promoLock[p] = q THEN Free ELSE promoLock[p]]

\* The end of a transaction, whether it commits or is rolled back.
End(q) == req' = [req EXCEPT ![q] = Idle] /\ Release(q)

Rollback(q) == End(q) /\ UNCHANGED <<promos, usages, orders>>

-----------------------------------------------------------------------------
(* The rules of a promotion.                                               *)

Lesser(a, b) == IF a < b THEN a ELSE b
Round(x) == Rupiah * ((x + Rupiah \div 2) \div Rupiah)

\* Mutant: one use too many.
SpentLate(row) == row.count > row.offer.max \/ row.used >= row.offer.budget
Spent(row) == row.count >= row.offer.max \/ row.used >= row.offer.budget

\* FindAutoActiveForMerchantForUpdate
AutoActive(row, m) ==
    /\ row.offer.reach = "auto" /\ row.active /\ row.live /\ ~Spent(row)
    /\ row.offer.merchant \in {m, AnyMerchant}

HasCompleted(u) ==
    \E o \in Orders : /\ orders[o] # NoRow
                      /\ orders[o].user = u /\ orders[o].status = "completed"

\* Mutant: one use per customer too many.
OverLimitLate(p, u) == Cardinality(UsedBy(p, u)) > promos[p].offer.perUser
OverLimit(p, u) == Cardinality(UsedBy(p, u)) >= promos[p].offer.perUser

\* The reasons for which ValidateAndReserveForOrder refuses, given what it
\* could count.
Refused(p, r, counted) ==
    LET row == promos[p] IN
    \/ ~row.active \/ ~row.live \/ Spent(row)
    \/ "usages" \in counted /\ OverLimit(p, r.user)
    \/ "orders" \in counted /\ row.offer.first /\ HasCompleted(r.user)
    \/ r.basket.item + r.basket.delivery < row.offer.minimum
    \/ row.offer.merchant \notin {r.merchant, AnyMerchant}

\* What an order is discounted: the offer, capped by what it applies to and by
\* what is left of the budget, in whole rupiahs.
ScopedCap(offer, basket) ==
    CASE offer.scope = "item" -> basket.item
      [] offer.scope = "delivery" -> basket.delivery
      [] offer.scope = "total" -> basket.item + basket.delivery
Wanted(offer, basket) ==
    LET cap == ScopedCap(offer, basket)
    IN  Lesser(cap, IF offer.percent THEN (cap * offer.value) \div 100 ELSE offer.value)

Discount(row, basket) ==
    Round(Lesser(Wanted(row.offer, basket), row.offer.budget - row.used))

-----------------------------------------------------------------------------
(* Administrators.  Each is one transaction that locks the row first, so    *)
(* that it waits for orders that use the promotion.                         *)

Unlocked(p) == promoLock[p] = Free

CreatePromotion(p, offer, live) ==
    /\ ~Stored(p) /\ Unlocked(p) /\ FreeConnection
    /\ offer.reach # "none" /\ offer.budget >= MinBudget
    /\ promos' = [promos EXCEPT ![p] = [offer |-> offer, active |-> TRUE,
                                        live |-> live, used |-> 0, count |-> 0]]
    /\ UNCHANGED <<usages, orders, promoLock, req>>

\* A changed budget or maximum may not be less than what is used already.
Updatable(row, offer) ==
    /\ offer.budget # row.offer.budget => offer.budget >= row.used
    /\ offer.max # row.offer.max => offer.max >= row.count
UpdatePromotion(p, offer, active, live) ==
    /\ Stored(p) /\ Unlocked(p) /\ FreeConnections > 1
    /\ Updatable(promos[p], offer)
    /\ promos' = [promos EXCEPT ![p].offer = offer, ![p].active = active,
                                ![p].live = live]
    /\ UNCHANGED <<usages, orders, promoLock, req>>

\* A promotion that is in use is only switched off.  Deleting a row deletes its
\* usages and clears it from the orders (ON DELETE CASCADE and SET NULL).
\* Mutant: one that is switched off already is deleted.
KeptIfActive(row) == row.active
KeptIfUsed(row) == row.count > 0
DeletePromotion(p) ==
    /\ Stored(p) /\ Unlocked(p) /\ FreeConnection
    /\ IF KeptIfUsed(promos[p])
       THEN /\ promos' = [promos EXCEPT ![p].active = FALSE]
            /\ UNCHANGED <<usages, orders>>
       ELSE /\ promos' = [promos EXCEPT ![p] = NoRow]
            /\ usages' = usages \ UsagesOf(p)
            /\ orders' = [o \in Orders |->
                            IF orders[o] # NoRow /\ orders[o].promo = p
                            THEN [orders[o] EXCEPT !.promo = NoPromo]
                            ELSE orders[o]]
    /\ UNCHANGED <<promoLock, req>>

\* valid_from or valid_until passes.
ClockTicks(p) ==
    /\ Stored(p)
    /\ promos' = [promos EXCEPT ![p].live = ~@]
    /\ UNCHANGED <<usages, orders, promoLock, req>>

-----------------------------------------------------------------------------
(* Placing an order.                                                       *)

\* The rows the locking SELECT sees when it starts.
Found(code, m) ==
    {p \in Promos : /\ Stored(p)
                    /\ IF code = NoCode THEN AutoActive(promos[p], m)
                       ELSE p = code /\ promos[p].offer.reach = "code"}

CreateOrder(q, o, u, m, payment, basket, code) ==
    /\ ~Busy(q) /\ FreeConnection
    /\ orders[o] = NoRow /\ \A r \in Procs : Busy(r) => req[r].order # o
    /\ code # NoCode => payment # "cod"
    /\ req' = [req EXCEPT ![q] =
         [kind |-> "create", step |-> "pick", order |-> o, user |-> u,
          merchant |-> m, payment |-> payment, basket |-> basket, code |-> code,
          found |-> Found(code, m), promo |-> NoPromo, amount |-> 0]]
    /\ UNCHANGED <<promos, usages, orders, promoLock>>

\* The locking SELECT takes the oldest row.  If it had to wait, the row is read
\* again, and skipped, still locked, if it no longer qualifies.
Oldest(S) == CHOOSE p \in S : \A x \in S : Age[p] <= Age[x]
Qualifies(p, r) == p \in Found(r.code, r.merchant)
PickPromo(q) ==
    /\ Creates(q, "pick") /\ req[q].found # {}
    /\ LET p == Oldest(req[q].found) IN
       /\ promoLock[p] \in {Free, q}
       /\ promoLock' = IF Stored(p) THEN [promoLock EXCEPT ![p] = q] ELSE promoLock
       /\ req' = [req EXCEPT ![q] =
                    IF Qualifies(p, req[q])
                    THEN [req[q] EXCEPT !.step = "check", !.promo = p]
                    ELSE [req[q] EXCEPT !.found = @ \ {p}]]
    /\ UNCHANGED <<promos, usages, orders>>

\* Only an order without a code goes on without a promotion.
NoPromotionFound(q) ==
    /\ Creates(q, "pick") /\ req[q].found = {}
    /\ IF req[q].code = NoCode
       THEN /\ req' = [req EXCEPT ![q].step = "pay"]
            /\ UNCHANGED <<promos, usages, orders, promoLock>>
       ELSE Rollback(q)

\* The usages and the completed orders are counted on another connection, and a
\* count that fails is not missed.
ValidateAndReserve(q) ==
    /\ Creates(q, "check") /\ FreeConnection
    /\ LET p == req[q].promo
           d == Discount(promos[p], req[q].basket) IN
       \E failed \in SUBSET MayFail :
       IF Refused(p, req[q], Counts \ failed) THEN Rollback(q)
       ELSE /\ req' = [req EXCEPT ![q].step = "pay", ![q].amount = d,
                                  ![q].promo = IF d > 0 THEN p ELSE NoPromo]
            /\ UNCHANGED <<promos, usages, orders, promoLock>>

\* The balance is read on another connection before the escrow is held.
CheckBalance(q) ==
    /\ Creates(q, "pay") /\ req[q].payment = "wallet" /\ FreeConnection
    /\ req' = [req EXCEPT ![q].step = "hold"]
    /\ UNCHANGED <<promos, usages, orders, promoLock>>

\* Mutant: the budget is not charged.
ApplyUsageUncharged(p, amount) == promos' = [promos EXCEPT ![p].count = @ + 1]
\* The counters are incremented in the database, not written from what was read.
ApplyUsage(p, amount) ==
    promos' = [promos EXCEPT ![p].used = @ + amount, ![p].count = @ + 1]

Discounted(r) == r.promo # NoPromo

CommitOrder(q) ==
    /\ \/ Creates(q, "pay") /\ req[q].payment # "wallet"
       \/ Creates(q, "hold") /\ \A r \in Procs : ~LocksWallet(r, req[q].user)
    /\ LET r == req[q] IN
       /\ orders' = [orders EXCEPT ![r.order] =
            [user |-> r.user, payment |-> r.payment, promo |-> r.promo,
             discount |-> r.amount, status |-> "open"]]
       /\ IF Discounted(r)
          THEN /\ usages' = usages \cup {[promo |-> r.promo, order |-> r.order,
                                          user |-> r.user, amount |-> r.amount]}
               /\ ApplyUsage(r.promo, r.amount)
          ELSE UNCHANGED <<promos, usages>>
    /\ End(q)

-----------------------------------------------------------------------------
(* Closing an order.                                                       *)

CancelOrder(q, o) ==
    /\ ~Busy(q) /\ FreeConnection
    /\ orders[o] # NoRow /\ orders[o].status = "open"
    /\ req' = [req EXCEPT ![q] = [kind |-> "cancel", step |-> "row", order |-> o]]
    /\ UNCHANGED <<promos, usages, orders, promoLock>>

Others(q) == Procs \ {q}

\* The row is locked and its status looked at again.
LockOrder(q) ==
    /\ Cancels(q, "row") /\ \A r \in Others(q) : ~LocksOrder(r, req[q].order)
    /\ IF orders[req[q].order].status = "open"
       THEN /\ req' = [req EXCEPT ![q].step = "refund"]
            /\ UNCHANGED <<promos, usages, orders, promoLock>>
       ELSE Rollback(q)

RefundEscrow(q) ==
    /\ Cancels(q, "refund")
    /\ LET row == orders[req[q].order] IN
       row.payment # "cod" => \A r \in Others(q) : ~LocksWallet(r, row.user)
    /\ req' = [req EXCEPT ![q].step = "release"]
    /\ UNCHANGED <<promos, usages, orders, promoLock>>

UsageOf(o) == {x \in usages : x.order = o}

\* The usage is deleted and the counters lowered; an order whose promotion or
\* usage is gone has nothing to give back.
ReleaseUsage(o) ==
    IF orders[o].promo = NoPromo \/ UsageOf(o) = {} THEN UNCHANGED <<promos, usages>>
    ELSE \E x \in UsageOf(o) :
           /\ promoLock[x.promo] = Free
           /\ usages' = usages \ {x}
           /\ promos' = [promos EXCEPT
                ![x.promo].used = IF @ > x.amount THEN @ - x.amount ELSE 0,
                ![x.promo].count = IF @ > 0 THEN @ - 1 ELSE 0]

CommitCancel(q) ==
    /\ Cancels(q, "release")
    /\ ReleaseUsage(req[q].order)
    /\ orders' = [orders EXCEPT ![req[q].order].status = "cancelled"]
    /\ End(q)

\* Completion and expiry lock the order too; they keep the usage.
CloseOrder(o, status) ==
    /\ orders[o] # NoRow /\ orders[o].status = "open"
    /\ \A r \in Procs : ~LocksOrder(r, o)
    /\ orders' = [orders EXCEPT ![o].status = status]
    /\ UNCHANGED <<promos, usages, promoLock, req>>
CompleteOrder(o) == CloseOrder(o, "completed")
ExpireOrder(o) == CloseOrder(o, "expired")

-----------------------------------------------------------------------------
(* What may happen to a request.                                           *)

\* It fails: an error, a refused payment, a lost connection, a crash.
Fail(q) == Busy(q) /\ Rollback(q)

\* r waits for a lock that h holds.
WaitsFor(r, h) ==
    /\ r # h
    /\ \/ /\ Creates(r, "pick") /\ req[r].found # {}
          /\ promoLock[Oldest(req[r].found)] = h
       \/ Creates(r, "hold") /\ LocksWallet(h, req[r].user)
       \/ Cancels(r, "row") /\ LocksOrder(h, req[r].order)
       \/ /\ Cancels(r, "refund") /\ orders[req[r].order].payment # "cod"
          /\ LocksWallet(h, orders[req[r].order].user)
       \/ /\ Cancels(r, "release") /\ orders[req[r].order].promo # NoPromo
          /\ \E x \in UsageOf(req[r].order) : promoLock[x.promo] = h
InDeadlock(q) ==
    \E S \in SUBSET Procs : /\ q \in S
                            /\ \A r \in S : \E h \in S : WaitsFor(r, h)
                            /\ \A h \in S : \E r \in S : WaitsFor(r, h)
\* The database rolls back one of the transactions that wait in a cycle.
AbortDeadlock(q) == InDeadlock(q) /\ Rollback(q)

Continue(q) ==
    \/ PickPromo(q) \/ NoPromotionFound(q) \/ ValidateAndReserve(q)
    \/ CheckBalance(q) \/ CommitOrder(q)
    \/ LockOrder(q) \/ RefundEscrow(q) \/ CommitCancel(q)

Next ==
    \/ \E p \in Promos, x \in Offers, live \in BOOLEAN : CreatePromotion(p, x, live)
    \/ \E p \in Promos, x \in Offers, active, live \in BOOLEAN :
         UpdatePromotion(p, x, active, live)
    \/ \E p \in Promos : DeletePromotion(p) \/ ClockTicks(p)
    \/ \E q \in Procs, o \in Orders, u \in Users, m \in Merchants,
          payment \in Payments, b \in Baskets, code \in Promos \cup {NoCode} :
         CreateOrder(q, o, u, m, payment, b, code)
    \/ \E q \in Procs, o \in Orders : CancelOrder(q, o)
    \/ \E q \in Procs : Continue(q) \/ AbortDeadlock(q) \/ Fail(q)
    \/ \E o \in Orders : CompleteOrder(o) \/ ExpireOrder(o)

Spec == Init /\ [][Next]_vars

\* The database serves waiting transactions in the order in which they came and
\* breaks deadlocks; connections are handed out in order too.
FairSpec == Spec /\ \A q \in Procs : SF_vars(Continue(q)) /\ WF_vars(AbortDeadlock(q))

-----------------------------------------------------------------------------
(* Properties.                                                             *)

\* A promotion is never used more often than it allows, whatever orders and
\* administrators do at the same time.
QuotaKept == \A p \in Promos : Stored(p) => promos[p].count <= promos[p].offer.max

\* The budget is overspent by half a rupiah at most: the last discount is what
\* is left, rounded.
BudgetKept ==
    \A p \in Promos :
        Stored(p) => promos[p].used <= promos[p].offer.budget + Rupiah \div 2

\* However many orders are placed at once, none goes beyond the terms.
TermsKept == QuotaKept /\ BudgetKept

\* What the orders that use a promotion are discounted, together.
Given(p) == SumFunction([x \in UsagesOf(p) |-> x.amount])

\* The counters say what the usage rows say.
CountersAgree ==
    \A p \in Promos :
        /\ Stored(p) => /\ promos[p].count = Cardinality(UsagesOf(p))
                        /\ promos[p].used = Given(p)
        /\ ~Stored(p) => UsagesOf(p) = {}

\* Every discount given has its usage, on which the settlement with the merchant
\* is based, exactly until the order is cancelled.
DiscountIsAccounted ==
    \A o \in Orders :
        orders[o] # NoRow =>
            UsageOf(o) = IF orders[o].discount = 0 \/ orders[o].status = "cancelled"
                         THEN {}
                         ELSE {[promo |-> orders[o].promo, order |-> o,
                                user |-> orders[o].user,
                                amount |-> orders[o].discount]}

\* No order gives a customer more uses of a promotion than its limit, also when
\* several of them are placed at once.  (Provided usages can be counted.)
UserLimitKept ==
    [][\A p \in Promos, u \in Users :
         Cardinality(UsedBy(p, u)') > Cardinality(UsedBy(p, u))
           => Cardinality(UsedBy(p, u)) < promos[p].offer.perUser]_vars

\* A request does not wait for ever: neither for a lock that is not released nor
\* in a circle.  (Provided there are more connections than requests.)
RequestsEnd == \A q \in Procs : Busy(q) ~> ~Busy(q)
=============================================================================
