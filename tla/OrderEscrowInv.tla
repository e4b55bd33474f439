--------------------------- MODULE OrderEscrowInv ---------------------------
(***************************************************************************)
(* The inductive invariant behind the theorems of OrderEscrow_proofs,      *)
(* checked by TLC on the small instances first.                            *)
(***************************************************************************)
EXTENDS OrderEscrow

\* A price only goes up, so that the parts of a settlement are never negative.
PricedUp(row) ==
    /\ row.cost >= row.shape.cost
    /\ row.adj = "pending" => row.adjCost > row.cost
    /\ row.adj = "none" => row.cost = row.shape.cost

PricesOnlyRise ==
    /\ \A o \in Orders : Exists(o) => PricedUp(order[o])
    /\ \A p \in Procs : req[p] # Idle /\ req[p].snap # NoRow =>
          PricedUp(req[p].snap)

\* The row in flight still satisfies what its handler tested when it read it.
Remembers(q) ==
    /\ q.op \in AcceptSteps => Acceptable(q.snap)
    /\ q.op = "pickup" =>
          q.snap.runner # NoRunner /\ q.snap.status \in PickupStatuses(q.snap)
    /\ q.op = "receipt" =>
          q.snap.runner # NoRunner /\ q.snap.status = "accepted"
    /\ q.op = "requestAdj" =>
          /\ q.snap.runner # NoRunner /\ q.snap.adj = "none"
          /\ q.snap.status \in {"accepted", "purchasing"}
    /\ q.op \in {"approveAdj", "rejectAdj"} => q.snap.adj = "pending"
    /\ q.op = "dispute" => q.snap.status = "completed"
    /\ q.op = "merchantAccept" =>
          /\ q.snap.status = "pending"
          /\ q.snap.pay = "escrow" \/ q.snap.shape.method = "cod"
    /\ q.op = "merchantReady" => q.snap.status = "cooking"
ReadersRemember ==
    \A p \in Procs : req[p] # Idle => Exists(req[p].o) /\ Remembers(req[p])

\* Money is waiting to be settled exactly while the order is being worked on.
StatusAgreesWithPayment(row) ==
    /\ row.shape.method = "escrow" /\ row.pay = "unpaid" =>
          /\ row.runner = NoRunner /\ row.adj = "none"
          /\ row.status \in {"pending", "cancelled", "expired"}
    /\ row.pay = "released" => row.status \in {"completed", "disputed", "cancelled"}
    /\ row.pay = "refunded" => row.status = "cancelled"
    /\ row.status \in {"completed", "disputed"} => row.pay = "released"
    /\ row.shape.method = "cod" => row.pay \in {"unpaid", "released"}

\* How much is held for an order, by its payment status.
HeldAgreesWithPayment(row, amount) ==
    /\ row.shape.method = "cod" \/ row.pay = "unpaid" => amount = 0
    /\ row.pay = "escrow" => amount + Allowance(row.shape) = Gross(row)
    /\ row.shape.method = "escrow" /\ row.pay \in {"released", "refunded"}
         => IF row.adj = "accepted" THEN amount + Allowance(row.shape) >= 0
            ELSE amount + Allowance(row.shape) = 0

InOrder(row, amount) ==
    /\ StatusAgreesWithPayment(row)
    /\ HeldAgreesWithPayment(row, amount)

IntactOrders ==
    \A o \in Orders :
        /\ ~Exists(o) => held[o] = 0
        /\ Intact(o) => InOrder(order[o], held[o])

TypeInv == TypeOK /\ PricesOnlyRise /\ ReadersRemember
SettlementInv == TypeInv /\ IntactOrders

\* How the amount held for an order follows its row: a settlement hands out all of
\* it, a payment brings what was asked for, an approved price its difference.
HeldFollows(row, amount, new, left) ==
    /\ new.cost >= row.cost
    /\ left = IF row.pay = "escrow" /\ new.pay # "escrow" THEN amount - Gross(row)
              ELSE IF row.pay = "unpaid" /\ new.pay = "escrow"
              THEN amount + TotalPayment(row)
              ELSE IF row.shape.method = "escrow" THEN amount + new.cost - row.cost
              ELSE amount
MoneyFollows ==
    \A o \in Orders :
        IntactStep(o) => HeldFollows(order[o], held[o], order'[o], held'[o])
MoneySteps == [][MoneyFollows]_vars

-----------------------------------------------------------------------------
(* The life of an order: what is owed to and by the runners it has had.    *)

\* Until somebody takes it, and once it has expired, an order has no runner and
\* no price to discuss; on food there never is one.
Untaken == {"pending", "merchant_accepted", "expired"}
StatusAgreesWithWork(row) ==
    /\ row.status \in Untaken => row.runner = NoRunner /\ row.adj = "none"
    /\ Food(row) => row.adj = "none" /\ row.status \notin {"accepted", "purchasing"}
WorkAgrees ==
    \A o \in Orders : Intact(o) => StatusAgreesWithWork(order[o])

\* A runner who completes an order or gives it back had taken it before.
RunnersHadTaken ==
    \A p \in Procs :
        req[p] # Idle /\ req[p].op \in RunnerSteps /\ Intact(req[p].o)
            => order[req[p].o].status \notin Untaken

\* Deposits come from runners who must leave one, and until the order is closed
\* no more is given back than was left.
DepositsAddUp ==
    \A o \in Orders :
        /\ ~Exists(o) => deposits[o] = {} /\ owed[o] = [r \in Runners |-> 0]
        /\ Intact(o) => deposits[o] \subseteq Unverified
        /\ Intact(o) /\ order[o].adj # "accepted" /\ order[o].status \notin Finished
              => \A r \in Runners : owed[o][r] >= 0

\* A voucher is used on an order that exists.
VouchersHaveOrders == \A o \in promo : Exists(o)

\* The orders on a trip can be counted.
OrdersCounted == IsFiniteSet({o \in Orders : Exists(o)})

LifeInv ==
    /\ WorkAgrees
    /\ RunnersHadTaken
    /\ DepositsAddUp
    /\ VouchersHaveOrders
    /\ OrdersCounted
    /\ VoucherFollowsOrder
    /\ WorkIsBacked
OrderInv == SettlementInv /\ LifeInv

\* A request can only undo what was written to an order that exists.
FreshOrders == \A o \in Orders : ~Exists(o) => stale[o] = 0
LedgerInv == OrderInv /\ FreshOrders

-----------------------------------------------------------------------------
(* The moves an order can make while it stays intact.  Every step of every *)
(* request comes down to one of them, whichever row the request had read.  *)

\* Order o becomes row, in the columns the properties look at.
Becomes(o, row) ==
    /\ order'[o].shape = row.shape
    /\ order'[o].status = row.status
    /\ order'[o].pay = row.pay
    /\ order'[o].runner = row.runner
    /\ order'[o].trip = row.trip
    /\ order'[o].cost = row.cost
    /\ order'[o].adj = row.adj

DepositsRest(o) == owed'[o] = owed[o] /\ deposits'[o] = deposits[o]
VoucherRests(o) == o \in promo' <=> o \in promo
EffectsRest(o) == DepositsRest(o) /\ VoucherRests(o) /\ UNCHANGED avail

\* What the order returns to its runner: his deposit and the place on his trip.
DepositMovesBack(o) == owed' = DepositReturned(o, order[o]) /\ UNCHANGED deposits

Rests(o) == Becomes(o, order[o]) /\ EffectsRest(o)

StatusSteps ==
    {<<"pending", "merchant_accepted">>, <<"pending", "expired">>,
     <<"cooking", "ready">>, <<"accepted", "purchasing">>,
     <<"cooking", "delivering">>, <<"ready", "delivering">>,
     <<"accepted", "delivering">>, <<"purchasing", "delivering">>,
     <<"completed", "disputed">>, <<"disputed", "completed">>}
MovesOn(o) ==
    /\ \E s \in Statuses :
          /\ <<order[o].status, s>> \in StatusSteps
          /\ Becomes(o, [order[o] EXCEPT !.status = s])
    /\ EffectsRest(o)

IsTaken(o) ==
    /\ Acceptable(order[o])
    /\ \E r \in Runners, onTrip \in BOOLEAN :
          LET deposit == LiabilityHold(o, r, order[o])
          IN  /\ Becomes(o, [order[o] EXCEPT !.runner = r,
                                !.status = AcceptedStatus(order[o]),
                                !.trip = IF onTrip THEN r ELSE @])
              /\ owed' = [owed EXCEPT ![o][r] = @ + deposit]
              /\ deposits'[o] \subseteq deposits[o] \cup ({r} \cap Unverified)
              /\ avail' = IF onTrip THEN [avail EXCEPT ![r] = @ - 1] ELSE avail
    /\ VoucherRests(o)

IsPaid(o) ==
    /\ order[o].shape.method = "escrow" /\ order[o].pay = "unpaid"
    /\ Becomes(o, [order[o] EXCEPT !.pay = "escrow"])
    /\ EffectsRest(o)

IsGivenBack(o) ==
    /\ order[o].status \notin Untaken \cup {"completed", "cancelled"}
    /\ Becomes(o, FreedRow(order[o]))
    /\ DepositMovesBack(o)
    /\ avail' = RestoreCapacity(order[o])
    /\ VoucherRests(o)

IsCompleted(o) ==
    /\ order[o].status = "delivering"
    /\ Becomes(o, CompletedRow(order[o]))
    /\ DepositMovesBack(o)
    /\ UNCHANGED avail
    /\ VoucherRests(o)

IsCancelled(o) ==
    /\ order[o].status \notin {"completed", "cancelled", "expired"}
    /\ Becomes(o, CancelledRow(order[o]))
    /\ DepositMovesBack(o)
    /\ avail' = RestoreCapacity(order[o])
    /\ o \notin promo'

AdjustmentAsked(o) ==
    /\ order[o].status \in {"accepted", "purchasing"} /\ order[o].adj = "none"
    /\ Becomes(o, [order[o] EXCEPT !.adj = "pending"])
    /\ EffectsRest(o)

AdjustmentAnswered(o) ==
    /\ order[o].adj = "pending"
    /\ \/ Becomes(o, [order[o] EXCEPT !.adj = "rejected"])
       \/ Becomes(o, [order[o] EXCEPT !.adj = "accepted",
                                       !.cost = order'[o].cost])
    /\ EffectsRest(o)

CancelledOverPrice(o) ==
    /\ order[o].adj = "pending"
    /\ Becomes(o, [CancelledRow(order[o]) EXCEPT !.adj = "rejected"])
    /\ DepositsRest(o)
    /\ VoucherRests(o)

Moves(o) ==
    \/ Rests(o)
    \/ MovesOn(o)
    \/ IsTaken(o)
    \/ IsPaid(o)
    \/ IsGivenBack(o)
    \/ IsCompleted(o)
    \/ IsCancelled(o)
    \/ AdjustmentAsked(o)
    \/ AdjustmentAnswered(o)
    \/ CancelledOverPrice(o)

\* A step leaves every order but o as it is.
OthersRest(o) ==
    \A x \in Orders \ {o} :
        /\ order'[x] = order[x] /\ stale'[x] = stale[x]
        /\ DepositsRest(x) /\ VoucherRests(x)

\* A step of a request, or an event, concerns one order, and moves it.
OrderMoves(o) ==
    /\ Exists(o)
    /\ OthersRest(o)
    /\ order'[o] # NoRow
    /\ stale'[o] >= stale[o]
    /\ IntactStep(o) => Moves(o)

IsCreated(o) ==
    /\ ~Exists(o)
    /\ OthersRest(o)
    /\ \E s \in Shapes, pay \in Payments : order'[o] = NewRow(s, pay)
    /\ DepositsRest(o)
    /\ o \in promo' <=> order'[o].shape.discount > 0
    /\ UNCHANGED <<avail, req, stale>>

\* In what the properties of an order's life look at, a step does nothing, or
\* creates an order, or moves one.
LifeStep ==
    \/ UNCHANGED <<order, stale, owed, deposits, promo, avail>>
    \/ \E o \in Orders : IsCreated(o) \/ OrderMoves(o)
LifeSteps == [][LifeStep]_vars
=============================================================================
