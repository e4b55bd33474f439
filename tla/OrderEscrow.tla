---------------------------- MODULE OrderEscrow ----------------------------
(***************************************************************************)
(* The life of an order of nitip-core: who may move it, what money and     *)
(* what capacity each move takes or gives back, and what happens when two  *)
(* HTTP requests handle the same order at once.                            *)
(*                                                                         *)
(* Source: internal/domain/order/service.go, with the wallet, trip and     *)
(* promotion operations its transactions call.                             *)
(*                                                                         *)
(* Half of the handlers read the order row without a lock, decide, and     *)
(* then write EVERY column of what they read back (repository.go Update).  *)
(* Such a handler is two actions here: XRead keeps the row it saw in       *)
(* req[p].snap and XWrite stores it.  The other half lock the row and      *)
(* check it again inside the transaction that writes it.  A transaction    *)
(* that returns an error is rolled back: the request ends with Abort.      *)
(*                                                                         *)
(* A definition whose comment begins with "Mutant" is the one after it     *)
(* with a plausible bug.  No specification uses it: PROJECT.json names the *)
(* property that must fail when it takes the other's place.                *)
(***************************************************************************)
EXTENDS Integers, FiniteSets

CONSTANTS
    Orders,          \* order ids
    Runners,         \* accounts of runners
    Customer,        \* the account that creates and pays the orders
    Merchant,        \* the account of the merchant's owner
    System,          \* the platform's wallet
    NoRunner,        \* runner_id or trip_id IS NULL
    NoRow,           \* the order has not been inserted yet
    Procs,           \* slots for requests in flight
    Idle,            \* a free slot
    Shapes,          \* what may be ordered: the columns no handler changes
    AdjustedCosts,   \* prices a runner may ask for in a price adjustment
    Unverified,      \* runners without e-KYC, who leave a deposit
    MinBalance,      \* balance a runner needs before accepting
    Travellers,      \* runners who may have an active trip
    Capacity,        \* orders that fit on a trip
    InitialBalance,  \* the wallets at the start
    MaxStale         \* bound: stale whole-row writes per order

Accounts == Runners \cup {Customer, Merchant, System}

Statuses == {"pending", "merchant_accepted", "cooking", "ready", "accepted",
             "purchasing", "delivering", "completed", "cancelled",
             "expired", "disputed"}
Payments == {"unpaid", "escrow", "released", "refunded"}
Adjustments == {"none", "pending", "accepted", "rejected"}

\* A food order is one with a merchant_id; the other two are service categories.
Shape == [kind : {"food", "beli", "kirim"},
          method : {"escrow", "cod"},
          source : {"wallet", "qris"},
          cost : Nat, fee : Nat, service : Nat, checking : Nat,
          discount : Nat, commission : Nat]

\* An order row.  trip names the runner whose trip it is on.
Row == [shape : Shapes,
        status : Statuses,
        pay : Payments,
        runner : Runners \cup {NoRunner},
        trip : Runners \cup {NoRunner},
        cost : Nat,
        adj : Adjustments,
        adjCost : Nat,
        escalated : BOOLEAN]

\* The steps a request can be at: those that will write back the row they read,
\* and those that will read it again under FOR UPDATE.
AcceptSteps == {"accept", "acceptChecked"}
WriterSteps == {"pickup", "receipt", "dispute", "requestAdj", "approveAdj",
                "rejectAdj", "refreshQRIS", "merchantAccept", "merchantReady",
                "escalate"}
RunnerSteps == {"reassign", "reassignTx", "finalCancel", "complete"}
CancelSteps == {"cancel", "cancelCharged"}

\* A request in flight.  by is the runner who sent it, where a later step needs
\* to know; snap is the row it read, where it will write that back.
Request ==
    [op : AcceptSteps, o : Orders, by : Runners, snap : Row] \cup
    [op : WriterSteps, o : Orders, by : {NoRunner}, snap : Row] \cup
    [op : RunnerSteps, o : Orders, by : Runners, snap : {NoRow}] \cup
    [op : CancelSteps, o : Orders, by : {NoRunner}, snap : {NoRow}]

ASSUME AccountsAssumption ==
    /\ Customer \notin Runners
    /\ Merchant \notin Runners
    /\ System \notin Runners
    /\ Customer # Merchant /\ Customer # System /\ Merchant # System
    /\ NoRunner \notin Runners
    /\ NoRow \notin Row
    /\ Idle \notin Request
    /\ Idle \notin Procs

\* Create computes the fees so that their parts never exceed them, charges no
\* checking fee on food and gives discounts only on food.  (A code is refused
\* with cash on delivery, a promotion that applies by itself is not.)
ASSUME ShapesAssumption ==
    /\ Shapes \subseteq Shape
    /\ \A s \in Shapes :
          /\ s.service + s.checking <= s.fee
          /\ s.commission <= s.cost
          /\ s.kind # "kirim" => s.cost > 0
          /\ s.kind = "food" => s.checking = 0
          /\ s.discount > 0 => s.kind = "food"

ASSUME ParametersAssumption ==
    /\ AdjustedCosts \subseteq Nat
    /\ Unverified \subseteq Runners
    /\ Travellers \subseteq Runners
    /\ MinBalance \in [Runners -> Nat]
    /\ InitialBalance \in [Accounts -> Nat]
    /\ Capacity \in Nat
    /\ MaxStale \in Nat

VARIABLES
    order,       \* the orders table
    bal,         \* wallet balances
    deposits,    \* runners with a LIABILITY_HOLD ledger row for the order
    avail,       \* free places on each runner's trip
    promo,       \* orders with a row in promotion_usages
    acceptLock,  \* redis lock:order:accept:<id>
    reassigns,   \* redis reassign:count:<id>
    sweep,       \* orders the cron job has listed and not yet handled
    req,         \* requests in flight
    held,        \* ghost: money taken for the order and not yet paid out
    owed,        \* ghost: deposit taken from a runner and not yet returned
    stale        \* ghost: whole-row writes that undid another request's write

table == <<order, stale>>
money == <<bal, deposits, held, owed>>
places == <<avail, promo>>
redis == <<acceptLock, reassigns>>
vars == <<order, bal, deposits, avail, promo, acceptLock, reassigns, sweep,
          req, held, owed, stale>>

ReassignLimit == 2

Init ==
    /\ order = [o \in Orders |-> NoRow]
    /\ bal = InitialBalance
    /\ deposits = [o \in Orders |-> {}]
    /\ avail = [r \in Runners |-> Capacity]
    /\ promo = {}
    /\ acceptLock = [o \in Orders |-> Idle]
    /\ reassigns = [o \in Orders |-> 0]
    /\ sweep = [escalate |-> {}, cancel |-> {}]
    /\ req = [p \in Procs |-> Idle]
    /\ held = [o \in Orders |-> 0]
    /\ owed = [o \in Orders |-> [r \in Runners |-> 0]]
    /\ stale = [o \in Orders |-> 0]

-----------------------------------------------------------------------------
(* Money.  A payout says what each party gets when an order is settled.    *)

Exists(o) == order[o] # NoRow
Food(row) == row.shape.kind = "food"

\* Mutant: money that never arrived is refunded.
InEscrowUnlessCod(row) == row.shape.method = "escrow"
InEscrow(row) == row.shape.method = "escrow" /\ row.pay = "escrow"

\* What cancelling gives back: the columns estimated_cost + delivery_fee.
Gross(row) == row.cost + row.shape.fee

\* The column total_payment: what the customer is asked to pay.  Only an
\* approved price adjustment changes it after Create.
AtLeastZero(n) == IF n < 0 THEN 0 ELSE n
ListPrice(s) == IF s.kind = "kirim" THEN s.fee ELSE s.cost + s.fee
TotalPayment(row) ==
    IF row.adj = "accepted"
    THEN Gross(row)
    ELSE AtLeastZero(ListPrice(row.shape) - row.shape.discount)

Payouts == [customer : Nat, runner : Nat, merchant : Nat, system : Nat]
Payout(customer, runner, merchant, system) ==
    [customer |-> customer, runner |-> runner,
     merchant |-> merchant, system |-> system]
NoPayout == Payout(0, 0, 0, 0)
Sum(pay) == pay.customer + pay.runner + pay.merchant + pay.system

RefundEscrow(row) == Payout(Gross(row), 0, 0, 0)

\* Mutant: the fee is paid out on top of a full refund.
PartialReleaseOnTop(row) ==
    Payout(Gross(row), row.shape.checking, 0, 0)

\* The runner keeps the checking fee, or everything when that is less.
PartialReleaseEscrow(row) ==
    LET fee == IF row.shape.checking <= Gross(row)
               THEN row.shape.checking ELSE Gross(row)
    IN  Payout(Gross(row) - fee, fee, 0, 0)

ReleaseEscrowWithRefund(row) ==
    LET s == row.shape
    IN  Payout(s.checking, row.cost + s.fee - s.service - s.checking,
               0, s.service)

ReleaseMerchantEscrow(row) ==
    LET s == row.shape
    IN  Payout(s.checking, s.fee - s.service - s.checking,
               row.cost - s.commission, s.commission + s.service)

Paid(b, pay, r) ==
    [a \in Accounts |->
        b[a] + (IF a = Customer THEN pay.customer ELSE 0)
             + (IF a = r THEN pay.runner ELSE 0)
             + (IF a = Merchant THEN pay.merchant ELSE 0)
             + (IF a = System THEN pay.system ELSE 0)]

\* ReleaseLiability pays the order's cost whenever a hold row exists for this
\* runner and order; it does not look for an earlier release.
ReturnsDeposit(o, row) ==
    row.runner # NoRunner /\ row.cost > 0 /\ row.runner \in deposits[o]
ReleaseLiability(b, o, row) ==
    IF ReturnsDeposit(o, row) THEN [b EXCEPT ![row.runner] = @ + row.cost] ELSE b
DepositReturned(o, row) ==
    IF ReturnsDeposit(o, row)
    THEN [owed EXCEPT ![o][row.runner] = @ - row.cost]
    ELSE owed

RestoreCapacity(row) ==
    IF row.runner # NoRunner /\ row.trip # NoRunner
    THEN [avail EXCEPT ![row.trip] = @ + 1]
    ELSE avail

\* Settle order o as pay says, to the runner on row, and return the deposit.
Settle(o, row, pay) ==
    /\ bal' = ReleaseLiability(Paid(bal, pay, row.runner), o, row)
    /\ held' = [held EXCEPT ![o] = @ - Sum(pay)]
    /\ owed' = DepositReturned(o, row)
    /\ UNCHANGED deposits

\* The same without touching the deposit.
SettleOnly(o, row, pay) ==
    /\ bal' = Paid(bal, pay, row.runner)
    /\ held' = [held EXCEPT ![o] = @ - Sum(pay)]
    /\ UNCHANGED <<deposits, owed>>

-----------------------------------------------------------------------------
(* Requests and row writes.                                                *)

Arrive(p, op, o, r, snap) ==
    /\ req[p] = Idle
    /\ Exists(o)
    /\ req' = [req EXCEPT ![p] = [op |-> op, o |-> o, by |-> r, snap |-> snap]]

\* A handler that will write the row back keeps all of it.
Load(p, op, o) ==
    /\ Arrive(p, op, o, NoRunner, order[o])
    /\ UNCHANGED <<table, money, places, redis, sweep>>

\* A handler that will lock the row and read it again keeps nothing.
Peek(p, op, o, r) ==
    /\ Arrive(p, op, o, r, NoRow)
    /\ UNCHANGED <<table, money, places, redis, sweep>>

In(p, op) == req[p] # Idle /\ req[p].op = op
Finish(p) == req' = [req EXCEPT ![p] = Idle]
Advance(p, op) == req' = [req EXCEPT ![p].op = op]

\* A write of the row just read under FOR UPDATE, or of single columns.
LockedWrite(o, row) ==
    /\ order' = [order EXCEPT ![o] = row]
    /\ UNCHANGED stale

\* Does writing back snap undo something another request wrote meanwhile?
Diverged(o, snap) == order[o] # [snap EXCEPT !.escalated = order[o].escalated]

\* repository.go Update: every column of the row the request read earlier.
\* (MaxStale bounds how often this may undo another write.)
WholeRowWrite(p, row) ==
    LET o == req[p].o
        undoes == Diverged(o, req[p].snap)
    IN  /\ undoes => stale[o] < MaxStale
        /\ order' = [order EXCEPT ![o] = row]
        /\ stale' = [stale EXCEPT ![o] = IF undoes THEN @ + 1 ELSE @]
        /\ Finish(p)

SetStatus(p, status) ==
    /\ WholeRowWrite(p, [req[p].snap EXCEPT !.status = status])
    /\ UNCHANGED <<money, places, redis, sweep>>

\* ReleaseLock deletes the lock only while it still holds this request's token.
Released(p) ==
    LET o == req[p].o
    IN  IF acceptLock[o] = p THEN [acceptLock EXCEPT ![o] = Idle] ELSE acceptLock

\* The handler returns an error and its transaction, if any, is rolled back.
Abort(p) ==
    /\ req[p] # Idle
    /\ Finish(p)
    /\ acceptLock' = IF req[p].op \in AcceptSteps
                     THEN Released(p) ELSE acceptLock
    /\ UNCHANGED <<table, money, places, reassigns, sweep>>

\* The process dies with the request: nothing runs its deferred ReleaseLock.
Crash(p) ==
    /\ req[p] # Idle
    /\ Finish(p)
    /\ UNCHANGED <<table, money, places, redis, sweep>>

-----------------------------------------------------------------------------
(* Creating and paying.                                                    *)

NewRow(s, pay) ==
    [shape |-> s, status |-> "pending", pay |-> pay, runner |-> NoRunner,
     trip |-> NoRunner, cost |-> s.cost, adj |-> "none", adjCost |-> 0,
     escalated |-> FALSE]

Create(o, s) ==
    /\ ~Exists(o)
    /\ LET wallet == s.method = "escrow" /\ s.source = "wallet"
           row == NewRow(s, IF wallet THEN "escrow" ELSE "unpaid")
           amount == IF wallet THEN TotalPayment(row) ELSE 0
       IN  /\ bal[Customer] >= amount
           /\ order' = [order EXCEPT ![o] = row]
           /\ bal' = [bal EXCEPT ![Customer] = @ - amount]
           /\ held' = [held EXCEPT ![o] = @ + amount]
    /\ promo' = IF s.discount > 0 THEN promo \cup {o} ELSE promo
    /\ UNCHANGED <<deposits, owed, avail, redis, sweep, req, stale>>

\* Mutant: every report of the payment is booked.
ProcessPaymentAgain(o) ==
    /\ Exists(o)
    /\ order[o].shape.method = "escrow" /\ order[o].shape.source = "qris"
    /\ order[o].pay \in {"unpaid", "escrow"}
    /\ LockedWrite(o, [order[o] EXCEPT !.pay = "escrow"])
    /\ held' = [held EXCEPT ![o] = @ + TotalPayment(order[o])]
    /\ UNCHANGED <<bal, deposits, owed, places, redis, sweep, req>>

\* The gateway reports the QRIS payment: unpaid -> escrow whatever the
\* order's status is.  Any later report changes no row.
ProcessPayment(o) ==
    /\ Exists(o)
    /\ order[o].shape.method = "escrow" /\ order[o].shape.source = "qris"
    /\ order[o].pay = "unpaid"
    /\ LockedWrite(o, [order[o] EXCEPT !.pay = "escrow"])
    /\ held' = [held EXCEPT ![o] = @ + TotalPayment(order[o])]
    /\ UNCHANGED <<bal, deposits, owed, places, redis, sweep, req>>

\* A new QR code: the row is written back with new timestamps only.
RefreshQRISRead(p, o) ==
    /\ Load(p, "refreshQRIS", o)
    /\ order[o].status # "cancelled"
    /\ order[o].pay = "unpaid"
    /\ order[o].shape.method = "escrow" /\ order[o].shape.source = "qris"

RefreshQRISWrite(p) ==
    /\ In(p, "refreshQRIS")
    /\ WholeRowWrite(p, req[p].snap)
    /\ UNCHANGED <<money, places, redis, sweep>>

-----------------------------------------------------------------------------
(* The merchant's kitchen.                                                 *)

MerchantAcceptRead(p, o) ==
    /\ Load(p, "merchantAccept", o)
    /\ Food(order[o])
    /\ order[o].status = "pending"
    /\ order[o].pay = "escrow" \/ order[o].shape.method = "cod"

MerchantAcceptWrite(p) ==
    In(p, "merchantAccept") /\ SetStatus(p, "merchant_accepted")

MerchantReadyRead(p, o) ==
    /\ Load(p, "merchantReady", o)
    /\ Food(order[o])
    /\ order[o].status = "cooking"

MerchantReadyWrite(p) ==
    In(p, "merchantReady") /\ SetStatus(p, "ready")

-----------------------------------------------------------------------------
(* A runner takes the order.  AcceptOrder holds a redis lock with a        *)
(* five second time to live, reads the row, then the runner's wallet,      *)
(* other orders and trip, and commits only if the status is still the one  *)
(* it read.                                                                *)

\* Mutant: an errand that has a runner may be taken.
AcceptableTwice(row) ==
    IF Food(row)
    THEN row.status \in {"merchant_accepted", "cooking", "ready"}
    ELSE row.status \in {"pending", "accepted"}

Acceptable(row) ==
    IF Food(row)
    THEN row.status \in {"merchant_accepted", "cooking", "ready"}
    ELSE row.status = "pending"

AcceptedStatus(row) ==
    CASE ~Food(row) -> "accepted"
      [] Food(row) /\ row.status = "merchant_accepted" -> "cooking"
      [] OTHER -> row.status

Finished == {"completed", "cancelled", "expired", "disputed"}
ActiveOrders(r) ==
    {o \in Orders : Exists(o) /\ order[o].runner = r
                              /\ order[o].status \notin Finished}

AcceptOrderRead(p, o, r) ==
    /\ acceptLock[o] = Idle
    /\ Arrive(p, "accept", o, r, order[o])
    /\ Acceptable(order[o])
    /\ acceptLock' = [acceptLock EXCEPT ![o] = p]
    /\ UNCHANGED <<table, money, places, reassigns, sweep>>

AcceptOrderCheck(p) ==
    /\ In(p, "accept")
    /\ bal[req[p].by] >= MinBalance[req[p].by]
    /\ ActiveOrders(req[p].by) = {}
    /\ Advance(p, "acceptChecked")
    /\ UNCHANGED <<table, money, places, redis, sweep>>

\* Mutant: no deposit from a runner who left one for this order before.
LiabilityHoldOnce(o, r, row) ==
    IF row.cost > 0 /\ r \in Unverified /\ r \notin deposits[o] THEN row.cost ELSE 0

\* The deposit runner r leaves for the goods.
LiabilityHold(o, r, row) ==
    IF row.cost > 0 /\ r \in Unverified THEN row.cost ELSE 0

\* onTrip: the runner had an active trip when its trips were read.
AcceptOrderCommit(p, onTrip) ==
    LET o == req[p].o
        r == req[p].by
        snap == req[p].snap
        deposit == LiabilityHold(o, r, snap)
        row == [snap EXCEPT !.runner = r, !.status = AcceptedStatus(snap),
                            !.trip = IF onTrip THEN r ELSE @]
    IN  /\ In(p, "acceptChecked")
        /\ snap.shape.method = "escrow" => snap.pay = "escrow"
        /\ bal[r] >= deposit
        /\ onTrip => r \in Travellers /\ avail[r] >= 1
        /\ order[o].status = snap.status
        /\ WholeRowWrite(p, row)
        /\ bal' = [bal EXCEPT ![r] = @ - deposit]
        /\ owed' = [owed EXCEPT ![o][r] = @ + deposit]
        /\ deposits' = IF deposit > 0
                       THEN [deposits EXCEPT ![o] = @ \cup {r}] ELSE deposits
        /\ avail' = IF onTrip THEN [avail EXCEPT ![r] = @ - 1] ELSE avail
        /\ acceptLock' = Released(p)
        /\ UNCHANGED <<held, promo, reassigns, sweep>>

\* The lock's time to live runs out, whether or not its holder has finished.
AcceptLockExpire(o) ==
    /\ acceptLock[o] # Idle
    /\ acceptLock' = [acceptLock EXCEPT ![o] = Idle]
    /\ UNCHANGED <<table, money, places, reassigns, sweep, req>>

-----------------------------------------------------------------------------
(* The runner works on the order.                                          *)

SubmitPurchaseReceiptRead(p, o, r) ==
    /\ Load(p, "receipt", o)
    /\ order[o].runner = r
    /\ order[o].shape.kind # "kirim"
    /\ order[o].status = "accepted"

SubmitPurchaseReceiptWrite(p) ==
    In(p, "receipt") /\ SetStatus(p, "purchasing")

PickupStatuses(row) ==
    CASE row.shape.kind = "food" -> {"ready", "cooking", "accepted"}
      [] row.shape.kind = "beli" -> {"purchasing"}
      [] row.shape.kind = "kirim" -> {"accepted"}

PickupOrderRead(p, o, r) ==
    /\ Load(p, "pickup", o)
    /\ order[o].runner = r
    /\ order[o].status \in PickupStatuses(order[o])

PickupOrderWrite(p) ==
    In(p, "pickup") /\ SetStatus(p, "delivering")

CompleteOrderRead(p, o, r) ==
    /\ Peek(p, "complete", o, r)
    /\ order[o].runner = r
    /\ order[o].status = "delivering"

CompletionPayout(row) ==
    IF row.shape.method = "cod" THEN NoPayout
    ELSE IF Food(row) THEN ReleaseMerchantEscrow(row)
    ELSE ReleaseEscrowWithRefund(row)

\* DeductCODPlatformFee moves the service fee from the runner to the platform.
CODFee(row) == IF row.shape.method = "cod" THEN row.shape.service ELSE 0

CompletedRow(row) == [row EXCEPT !.status = "completed", !.pay = "released"]

CompleteOrderCommit(p) ==
    LET o == req[p].o
        r == req[p].by
        row == order[o]
        fee == CODFee(row)
        charged == [bal EXCEPT ![r] = @ - fee, ![System] = @ + fee]
        pay == CompletionPayout(row)
    IN  /\ In(p, "complete")
        /\ row.status = "delivering"
        /\ row.runner = r
        /\ bal[r] >= fee
        /\ LockedWrite(o, CompletedRow(row))
        /\ bal' = ReleaseLiability(Paid(charged, pay, r), o, row)
        /\ held' = [held EXCEPT ![o] = @ - Sum(pay)]
        /\ owed' = DepositReturned(o, row)
        /\ Finish(p)
        /\ UNCHANGED <<deposits, places, redis, sweep>>

-----------------------------------------------------------------------------
(* Cancelling.                                                             *)

\* Mutant: the payment status is left as it was.
CancelledRowStatusOnly(row) == [row EXCEPT !.status = "cancelled"]

\* The columns every cancellation writes.
CancelledRow(row) ==
    [row EXCEPT !.status = "cancelled",
                !.pay = IF InEscrow(row) THEN "refunded" ELSE @]

\* Mutant: the voucher is not given back.
CancelTxKeepsVoucher(o, pay) ==
    /\ LockedWrite(o, CancelledRow(order[o]))
    /\ Settle(o, order[o], IF InEscrow(order[o]) THEN pay ELSE NoPayout)
    /\ avail' = RestoreCapacity(order[o])
    /\ UNCHANGED promo

\* A transaction that locked the row, cancels it and pays what pay says.
CancelTx(o, pay) ==
    /\ LockedWrite(o, CancelledRow(order[o]))
    /\ Settle(o, order[o], IF InEscrow(order[o]) THEN pay ELSE NoPayout)
    /\ avail' = RestoreCapacity(order[o])
    /\ promo' = promo \ {o}

\* Times are abstracted: an order may or may not have been left for 30 minutes.
MayCancel(row, u) ==
    /\ row.status \notin {"completed", "cancelled"}
    /\ \/ u = Customer
       \/ /\ u = Merchant /\ Food(row)
          /\ row.status \notin {"purchasing", "delivering"}
       \/ /\ u = row.runner
          /\ row.status \notin {"purchasing", "delivering", "pending",
                "merchant_accepted", "cooking", "ready", "accepted"}

\* Whether the checking fee is charged is decided before the row is locked.
ChargesFee(row) == row.status = "purchasing" \/ row.adj # "none"

CancelOrderRead(p, o, u) ==
    /\ Peek(p, IF ChargesFee(order[o]) THEN "cancelCharged" ELSE "cancel",
            o, NoRunner)
    /\ MayCancel(order[o], u)

CancelOrderCommit(p) ==
    LET o == req[p].o
    IN  /\ In(p, "cancel") \/ In(p, "cancelCharged")
        /\ order[o].status \notin {"completed", "cancelled", "expired"}
        /\ CancelTx(o, IF In(p, "cancelCharged") /\ order[o].runner # NoRunner
                       THEN PartialReleaseEscrow(order[o])
                       ELSE RefundEscrow(order[o]))
        /\ Finish(p)
        /\ UNCHANGED <<redis, sweep>>

\* A runner gives the order back.  CancelOrder comes here too when its caller
\* is the runner and the goods were not picked up yet.
ReassignOrderRead(p, o, r) ==
    Peek(p, "reassign", o, r) /\ order[o].runner = r

\* reassign:count is read after the row and before the transaction.
ReassignOrderLimit(p) ==
    /\ In(p, "reassign")
    /\ Advance(p, IF reassigns[req[p].o] >= ReassignLimit
                  THEN "finalCancel" ELSE "reassignTx")
    /\ UNCHANGED <<table, money, places, redis, sweep>>

FreedRow(row) == [row EXCEPT !.runner = NoRunner, !.trip = NoRunner]

\* counted: the INCR that follows the commit reached redis.
ReassignOrderCommit(p, counted) ==
    LET o == req[p].o
        row == order[o]
    IN  /\ In(p, "reassignTx")
        /\ row.status \notin {"completed", "cancelled", "expired"}
        /\ row.runner = req[p].by
        /\ LockedWrite(o, FreedRow(row))
        /\ Settle(o, row, NoPayout)
        /\ avail' = RestoreCapacity(row)
        /\ reassigns' = IF counted THEN [reassigns EXCEPT ![o] = @ + 1]
                        ELSE reassigns
        /\ Finish(p)
        /\ UNCHANGED <<promo, acceptLock, sweep>>

FinalCancelAfterReassignLimit(p) ==
    LET o == req[p].o
    IN  /\ In(p, "finalCancel")
        /\ order[o].status \notin {"completed", "cancelled"}
        /\ CancelTx(o, RefundEscrow(order[o]))
        /\ Finish(p)
        /\ UNCHANGED <<redis, sweep>>

\* The counter's time to live of 24 hours runs out.
ReassignCountExpire(o) ==
    /\ reassigns[o] > 0
    /\ reassigns' = [reassigns EXCEPT ![o] = 0]
    /\ UNCHANGED <<table, money, places, acceptLock, sweep, req>>

ForceCancelTx(o) ==
    /\ Exists(o)
    /\ order[o].status \notin {"completed", "cancelled", "expired"}
    /\ CancelTx(o, RefundEscrow(order[o]))

ForceCancelOrder(o) ==
    ForceCancelTx(o) /\ UNCHANGED <<redis, sweep, req>>

-----------------------------------------------------------------------------
(* Disputes.                                                               *)

DisputeOrderRead(p, o) ==
    /\ Load(p, "dispute", o)
    /\ order[o].status = "completed"
    /\ order[o].pay # "refunded"

DisputeOrderWrite(p) ==
    In(p, "dispute") /\ SetStatus(p, "disputed")

ResolveForRequester(o) ==
    LET row == order[o]
    IN  /\ row.pay = "escrow"
        /\ LockedWrite(o, [row EXCEPT !.status = "cancelled", !.pay = "refunded"])
        /\ SettleOnly(o, row, RefundEscrow(row))
        /\ avail' = RestoreCapacity(row)

ResolveForRunner(o) ==
    LET row == order[o]
    IN  /\ row.pay = "escrow"
        /\ row.runner # NoRunner
        /\ LockedWrite(o, [row EXCEPT !.status = "completed", !.pay = "released"])
        /\ Settle(o, row, ReleaseEscrowWithRefund(row))
        /\ UNCHANGED avail

ResolveCOD(o) ==
    /\ LockedWrite(o, [order[o] EXCEPT !.status = "completed"])
    /\ UNCHANGED <<money, avail>>

ResolveDispute(o, side) ==
    /\ Exists(o)
    /\ order[o].status = "disputed"
    /\ IF order[o].shape.method = "cod" THEN ResolveCOD(o)
       ELSE IF side = "requester" THEN ResolveForRequester(o)
       ELSE ResolveForRunner(o)
    /\ UNCHANGED <<promo, redis, sweep, req>>

-----------------------------------------------------------------------------
(* Price adjustments.  All three handlers decide on an unlocked read.      *)

RequestPriceAdjustmentRead(p, o, r) ==
    /\ Load(p, "requestAdj", o)
    /\ order[o].runner = r
    /\ order[o].status \in {"accepted", "purchasing"}
    /\ order[o].adj = "none"

RequestPriceAdjustmentWrite(p, price) ==
    /\ In(p, "requestAdj")
    /\ price > req[p].snap.cost
    /\ WholeRowWrite(p, [req[p].snap EXCEPT !.adj = "pending", !.adjCost = price])
    /\ UNCHANGED <<money, places, redis, sweep>>

ApprovePriceAdjustmentRead(p, o) ==
    Load(p, "approveAdj", o) /\ order[o].adj = "pending"

ApprovePriceAdjustmentCommit(p) ==
    LET o == req[p].o
        snap == req[p].snap
        diff == IF snap.shape.method = "escrow"
                THEN snap.adjCost - snap.cost ELSE 0
    IN  /\ In(p, "approveAdj")
        /\ bal[Customer] >= diff
        /\ WholeRowWrite(p, [snap EXCEPT !.cost = snap.adjCost, !.adj = "accepted"])
        /\ bal' = [bal EXCEPT ![Customer] = @ - diff]
        /\ held' = [held EXCEPT ![o] = @ + diff]
        /\ UNCHANGED <<deposits, owed, places, redis, sweep>>

RejectPriceAdjustmentRead(p, o) ==
    Load(p, "rejectAdj", o) /\ order[o].adj = "pending"

RejectPriceAdjustmentKeep(p) ==
    /\ In(p, "rejectAdj")
    /\ WholeRowWrite(p, [req[p].snap EXCEPT !.adj = "rejected"])
    /\ UNCHANGED <<money, places, redis, sweep>>

\* With cancel_order: the deposit and the promotion are left as they are.
RejectPriceAdjustmentCancel(p) ==
    LET o == req[p].o
        snap == req[p].snap
        pay == IF ~InEscrow(snap) THEN NoPayout
               ELSE IF snap.runner # NoRunner THEN PartialReleaseEscrow(snap)
               ELSE RefundEscrow(snap)
    IN  /\ In(p, "rejectAdj")
        /\ WholeRowWrite(p, [CancelledRow(snap) EXCEPT !.adj = "rejected"])
        /\ SettleOnly(o, snap, pay)
        /\ avail' = RestoreCapacity(snap)
        /\ UNCHANGED <<promo, redis, sweep>>

-----------------------------------------------------------------------------
(* The cron jobs.                                                          *)

\* Orders the escalation query returns; food orders are never "regular".
Escalatable ==
    {o \in Orders : Exists(o) /\ ~Food(order[o]) /\ order[o].status = "pending"
                      /\ order[o].runner = NoRunner /\ ~order[o].escalated}

\* Mutant: the query forgets food orders the kitchen has finished.
UnassignedUnlessReady ==
    {o \in Orders : Exists(o) /\ order[o].runner = NoRunner
        /\ order[o].status \in {"pending", "merchant_accepted", "cooking"}}

\* Orders the auto-cancel query returns, once they are old enough.
Unassigned ==
    {o \in Orders : Exists(o) /\ order[o].runner = NoRunner
        /\ order[o].status \in {"pending", "merchant_accepted", "cooking", "ready"}}

EscalateScan(S) ==
    /\ sweep.escalate = {}
    /\ S # {} /\ S \subseteq Escalatable
    /\ sweep' = [sweep EXCEPT !.escalate = S]
    /\ UNCHANGED <<table, money, places, redis, req>>

\* EscalateMatching reads the row again and writes it back after dispatching.
EscalateMatchingRead(p, o) ==
    /\ o \in sweep.escalate
    /\ Arrive(p, "escalate", o, NoRunner, order[o])
    /\ sweep' = [sweep EXCEPT !.escalate = @ \ {o}]
    /\ UNCHANGED <<table, money, places, redis>>

EscalateMatchingWrite(p) ==
    /\ In(p, "escalate")
    /\ WholeRowWrite(p, [req[p].snap EXCEPT !.escalated = TRUE])
    /\ UNCHANGED <<money, places, redis, sweep>>

AutoCancelScan(S) ==
    /\ sweep.cancel = {}
    /\ S # {} /\ S \subseteq Unassigned
    /\ sweep' = [sweep EXCEPT !.cancel = S]
    /\ UNCHANGED <<table, money, places, redis, req>>

\* ForceCancelOrder locks the row but does not ask again whether it is unassigned.
AutoCancelOrder(o) ==
    /\ o \in sweep.cancel
    /\ ForceCancelTx(o)
    /\ sweep' = [sweep EXCEPT !.cancel = @ \ {o}]
    /\ UNCHANGED <<redis, req>>

AutoCancelSkip(o) ==
    /\ o \in sweep.cancel
    /\ order[o].status \in {"completed", "cancelled", "expired"}
    /\ sweep' = [sweep EXCEPT !.cancel = @ \ {o}]
    /\ UNCHANGED <<table, money, places, redis, req>>

ExpireOldOrder(o) ==
    /\ Exists(o)
    /\ order[o].status = "pending"
    /\ LockedWrite(o, [order[o] EXCEPT !.status = "expired"])
    /\ UNCHANGED <<money, places, redis, sweep, req>>

-----------------------------------------------------------------------------
\* A request arrives and reads what it needs.
Read(p, o) ==
    \/ RefreshQRISRead(p, o)
    \/ MerchantAcceptRead(p, o)
    \/ MerchantReadyRead(p, o)
    \/ DisputeOrderRead(p, o)
    \/ ApprovePriceAdjustmentRead(p, o)
    \/ RejectPriceAdjustmentRead(p, o)
    \/ EscalateMatchingRead(p, o)
    \/ \E u \in Accounts : CancelOrderRead(p, o, u)
    \/ \E r \in Runners :
          \/ AcceptOrderRead(p, o, r)
          \/ SubmitPurchaseReceiptRead(p, o, r)
          \/ PickupOrderRead(p, o, r)
          \/ CompleteOrderRead(p, o, r)
          \/ ReassignOrderRead(p, o, r)
          \/ RequestPriceAdjustmentRead(p, o, r)

\* A request in flight takes its next step.
Step(p) ==
    \/ AcceptOrderCheck(p)
    \/ \E onTrip \in BOOLEAN : AcceptOrderCommit(p, onTrip)
    \/ RefreshQRISWrite(p)
    \/ MerchantAcceptWrite(p)
    \/ MerchantReadyWrite(p)
    \/ SubmitPurchaseReceiptWrite(p)
    \/ PickupOrderWrite(p)
    \/ CompleteOrderCommit(p)
    \/ CancelOrderCommit(p)
    \/ ReassignOrderLimit(p)
    \/ \E counted \in BOOLEAN : ReassignOrderCommit(p, counted)
    \/ FinalCancelAfterReassignLimit(p)
    \/ DisputeOrderWrite(p)
    \/ \E price \in AdjustedCosts : RequestPriceAdjustmentWrite(p, price)
    \/ ApprovePriceAdjustmentCommit(p)
    \/ RejectPriceAdjustmentKeep(p)
    \/ RejectPriceAdjustmentCancel(p)
    \/ EscalateMatchingWrite(p)
    \/ Abort(p)
    \/ Crash(p)

\* What happens to an order without a request slot.
Event(o) ==
    \/ \E s \in Shapes : Create(o, s)
    \/ ProcessPayment(o)
    \/ ForceCancelOrder(o)
    \/ \E side \in {"requester", "runner"} : ResolveDispute(o, side)
    \/ AutoCancelOrder(o)
    \/ AutoCancelSkip(o)
    \/ ExpireOldOrder(o)
    \/ AcceptLockExpire(o)
    \/ ReassignCountExpire(o)

Scan ==
    \E S \in SUBSET Orders : EscalateScan(S) \/ AutoCancelScan(S)

Next ==
    \/ \E p \in Procs, o \in Orders : Read(p, o)
    \/ \E p \in Procs : Step(p)
    \/ \E o \in Orders : Event(o)
    \/ Scan

Spec == Init /\ [][Next]_vars

-----------------------------------------------------------------------------
(* Type invariant.                                                         *)

TypeOK ==
    /\ order \in [Orders -> Row \cup {NoRow}]
    /\ bal \in [Accounts -> Nat]
    /\ deposits \in [Orders -> SUBSET Runners]
    /\ avail \in [Runners -> Nat]
    /\ promo \subseteq Orders
    /\ acceptLock \in [Orders -> Procs \cup {Idle}]
    /\ reassigns \in [Orders -> Nat]
    /\ sweep \in [escalate : SUBSET Orders, cancel : SUBSET Orders]
    /\ req \in [Procs -> Request \cup {Idle}]
    /\ held \in [Orders -> Int]
    /\ owed \in [Orders -> [Runners -> Int]]
    /\ stale \in [Orders -> 0..MaxStale]

-----------------------------------------------------------------------------
(* Safety.  Unlocked whole-row writes can undo what another request did;   *)
(* what each property promises for such orders is nothing, and the         *)
(* properties that drop this condition are the ones the violation runs     *)
(* refute.                                                                 *)

Intact(o) == Exists(o) /\ stale[o] = 0

\* The customer is asked for exactly what a settlement hands out: not so for
\* an order with a voucher, nor for a "kirim" order with a declared value.
FullyPriced(row) ==
    LET s == row.shape IN ListPrice(s) - s.discount = s.cost + s.fee

\* While an order's payment is in escrow, the money taken for it is exactly
\* what any settlement will hand out, through late QRIS callbacks, price
\* adjustments approved at any moment and two cancels racing.
EscrowBacked ==
    \A o \in Orders :
        Intact(o) /\ InEscrow(order[o]) /\ FullyPriced(order[o])
            => held[o] = Gross(order[o])

\* Once an order is released or refunded, every party together got what was
\* taken, no more and no less, whichever of the eight settling paths ran and
\* whichever others it raced with.  A price adjustment approved afterwards is
\* outside: ApprovePriceAdjustment does not look at the order's status.
SettledInFull ==
    \A o \in Orders :
        /\ Intact(o) /\ FullyPriced(order[o]) /\ order[o].adj # "accepted"
        /\ order[o].pay \in {"released", "refunded"}
      => held[o] = 0

\* A runner without e-KYC who is on an order has at least its price on deposit,
\* also after it was given back and taken again, by the same runner or another.
DepositBacksWork ==
    \A o \in Orders :
        /\ Intact(o) /\ order[o].adj # "accepted"
        /\ order[o].status \in {"cooking", "ready", "accepted", "purchasing",
                                "delivering"}
        /\ order[o].runner \in Unverified
      => owed[o][order[o].runner] >= order[o].cost

\* Every order that is not cancelled keeps the place it took on a trip, so the
\* trip never carries more than fits.  (Rejecting a price adjustment on an
\* order that is already cancelled gives its place back a second time.)
OnTrip(r) ==
    {o \in Orders : Exists(o) /\ order[o].trip = r /\ order[o].status # "cancelled"}
TripNotOverbooked ==
    (\A o \in Orders : Exists(o) => stale[o] = 0 /\ order[o].adj = "none")
        => \A r \in Runners : avail[r] + Cardinality(OnTrip(r)) <= Capacity

\* What an order needs of its runner besides his time, it has exactly once.
WorkIsBacked == DepositBacksWork /\ TripNotOverbooked

\* A voucher is used up by exactly the discounted orders that were not cancelled:
\* no cancellation keeps it, no other path gives it back.
VoucherFollowsOrder ==
    \A o \in Orders :
        Intact(o) => (o \in promo <=> /\ order[o].shape.discount > 0
                                      /\ order[o].status # "cancelled")

\* Goods handed over are paid for: an order that is completed, or was before it
\* was disputed, has had its escrow released.
DeliveredIsReleased ==
    \A o \in Orders :
        Intact(o) /\ order[o].status \in {"completed", "disputed"}
            => order[o].pay = "released"

-----------------------------------------------------------------------------
(* What a step may never do.                                               *)

IntactStep(o) == Intact(o) /\ stale'[o] = 0

\* Only giving an errand back takes its runner away, and only to nobody: two
\* runners racing for it cannot replace one another.
RunnerKept ==
    [][\A o \in Orders :
        IntactStep(o) /\ ~Food(order[o]) /\ order[o].runner # NoRunner
            => order'[o].runner \in {order[o].runner, NoRunner}]_vars

\* Cancelled and expired are final, and a completed order can only be disputed
\* or, through a price adjustment nobody answered in time, cancelled.
FinalStays ==
    [][\A o \in Orders :
        IntactStep(o) =>
            /\ order[o].status \in {"cancelled", "expired"}
                  => order'[o].status = order[o].status
            /\ order[o].status = "completed" =>
                  order'[o].status \in {"completed", "disputed"}
                      \cup (IF order[o].adj = "pending" THEN {"cancelled"} ELSE {})]_vars

\* The payment status only moves forward: money is taken once and handed out
\* once, although payment callbacks, cancels and completions are retried.
PaymentMovesForward ==
    [][\A o \in Orders :
        IntactStep(o) /\ order'[o].pay # order[o].pay =>
            \/ order[o].pay = "unpaid" /\ order'[o].pay = "escrow"
            \/ order[o].pay = "escrow" /\ order'[o].pay \in {"released", "refunded"}
            \/ /\ order[o].shape.method = "cod"
               /\ order[o].pay = "unpaid" /\ order'[o].pay = "released"]_vars

\* Neither status nor payment of an order ever goes back.
OrderMovesForward == PaymentMovesForward /\ FinalStays

-----------------------------------------------------------------------------
(* Progress.  The cron job runs every minute for as long as the server is  *)
(* up, and its query returns every order that is old enough.               *)

ScanFor(o) == \E S \in SUBSET Orders : o \in S /\ AutoCancelScan(S)

FairSpec ==
    /\ Spec
    /\ \A o \in Orders : WF_vars(ScanFor(o))
    /\ \A o \in Orders : WF_vars(AutoCancelOrder(o) \/ AutoCancelSkip(o))

\* No order waits for a runner for ever: it gets one, or it is closed.
WaitsForRunner(o) ==
    /\ Exists(o) /\ order[o].runner = NoRunner
    /\ order[o].status \in {"pending", "merchant_accepted", "cooking", "ready"}
NobodyWaitsForEver == \A o \in Orders : WaitsForRunner(o) ~> ~WaitsForRunner(o)

-----------------------------------------------------------------------------
(* The promise about an order's money, and how the tables keep it.         *)

\* What settling an order hands out beyond what its customer was asked for: the
\* discount of a voucher, and the declared value of a "kirim" order.
Allowance(s) == s.cost + s.fee - AtLeastZero(ListPrice(s) - s.discount)

\* The account of a row whose order has amount taken and not yet handed out.
Phase(row) ==
    CASE row.pay = "unpaid" -> "asked"
      [] row.pay = "escrow" -> "held"
      [] OTHER -> "settled"
Due(row, amount) ==
    IF row.pay = "unpaid" THEN Gross(row)
    ELSE IF row.shape.method = "cod" THEN amount
    ELSE amount + Allowance(row.shape)
Booked(row, amount) ==
    [phase |-> Phase(row), due |-> Due(row, amount), raised |-> row.adj = "accepted"]
NothingBooked(phase) == [phase |-> phase, due |-> 0, raised |-> FALSE]
AccountOf(o) ==
    IF Intact(o) THEN Booked(order[o], held[o])
    ELSE NothingBooked(IF Exists(o) THEN "unknown" ELSE "none")

\* The handlers keep the promise, whichever requests race: what was taken for an
\* order is what its settlement hands out, once, and no step moves money between
\* orders or takes it back from a settled one.
Promise == INSTANCE OrderMoney WITH account <- [o \in Orders |-> AccountOf(o)]
KeepsPromise == Promise!Spec
=============================================================================
