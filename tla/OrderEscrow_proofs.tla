------------------------- MODULE OrderEscrow_proofs -------------------------
(***************************************************************************)
(* What holds of OrderEscrow for any number of orders, runners, requests   *)
(* in flight and stale writes, and for any prices.                         *)
(***************************************************************************)
EXTENDS OrderEscrowInv, FiniteSetTheorems, TLAPS

-----------------------------------------------------------------------------
(* Payouts and balances.                                                   *)

\* Every settlement of a row whose price only rose hands out natural amounts,
\* and all of them together hand out estimated_cost + delivery_fee.
LEMMA SettlementSums ==
    ASSUME NEW row \in Row, PricedUp(row)
    PROVE  /\ NoPayout \in Payouts /\ Sum(NoPayout) = 0
           /\ RefundEscrow(row) \in Payouts /\ Sum(RefundEscrow(row)) = Gross(row)
           /\ PartialReleaseEscrow(row) \in Payouts
           /\ Sum(PartialReleaseEscrow(row)) = Gross(row)
           /\ ReleaseEscrowWithRefund(row) \in Payouts
           /\ Sum(ReleaseEscrowWithRefund(row)) = Gross(row)
           /\ ReleaseMerchantEscrow(row) \in Payouts
           /\ Sum(ReleaseMerchantEscrow(row)) = Gross(row)
<1>1. /\ row.shape \in Shape /\ row.cost \in Nat
      /\ row.shape.service + row.shape.checking <= row.shape.fee
      /\ row.shape.commission <= row.shape.cost
  BY ShapesAssumption DEF Row
<1>2. row.shape.commission <= row.cost
  BY <1>1 DEF PricedUp, Shape
<1> QED
  BY <1>1, <1>2 DEF NoPayout, RefundEscrow, PartialReleaseEscrow,
     ReleaseEscrowWithRefund, ReleaseMerchantEscrow, Payout, Payouts, Sum,
     Gross, Shape

\* Adding to one entry of a table.
LEMMA EntryAdded ==
    ASSUME NEW S, NEW f \in [S -> Int], NEW i \in S, NEW n \in Int
    PROVE  /\ [f EXCEPT ![i] = @ + n] \in [S -> Int]
           /\ [f EXCEPT ![i] = @ - n] \in [S -> Int]
OBVIOUS

LEMMA PaidTyped ==
    ASSUME NEW b \in [Accounts -> Nat], NEW pay \in Payouts, NEW r
    PROVE  Paid(b, pay, r) \in [Accounts -> Nat]
BY DEF Paid, Payouts

LEMMA ReleaseLiabilityTyped ==
    ASSUME NEW b \in [Accounts -> Nat], NEW o \in Orders, NEW row \in Row
    PROVE  ReleaseLiability(b, o, row) \in [Accounts -> Nat]
BY DEF ReleaseLiability, ReturnsDeposit, Row, Accounts

LEMMA DepositReturnedTyped ==
    ASSUME TypeOK, NEW o \in Orders, NEW row \in Row
    PROVE  DepositReturned(o, row) \in [Orders -> [Runners -> Int]]
BY DEF DepositReturned, ReturnsDeposit, Row, TypeOK

LEMMA RestoreCapacityTyped ==
    ASSUME TypeOK, NEW row \in Row
    PROVE  RestoreCapacity(row) \in [Runners -> Nat]
BY DEF RestoreCapacity, Row, TypeOK

MoneyTyped ==
    /\ bal \in [Accounts -> Nat]
    /\ deposits \in [Orders -> SUBSET Runners]
    /\ held \in [Orders -> Int]
    /\ owed \in [Orders -> [Runners -> Int]]

LEMMA SettleTyped ==
    ASSUME TypeOK, NEW o \in Orders, NEW row \in Row, NEW pay \in Payouts,
           Settle(o, row, pay) \/ SettleOnly(o, row, pay)
    PROVE  MoneyTyped'
<1>1. Paid(bal, pay, row.runner) \in [Accounts -> Nat]
  BY PaidTyped DEF TypeOK
<1>2. ReleaseLiability(Paid(bal, pay, row.runner), o, row) \in [Accounts -> Nat]
  BY <1>1, ReleaseLiabilityTyped
<1>3. DepositReturned(o, row) \in [Orders -> [Runners -> Int]]
  BY DepositReturnedTyped
<1>4. [held EXCEPT ![o] = @ - Sum(pay)] \in [Orders -> Int]
  BY DEF TypeOK, Sum, Payouts
<1> QED
  BY <1>1, <1>2, <1>3, <1>4 DEF Settle, SettleOnly, MoneyTyped, TypeOK

-----------------------------------------------------------------------------
(* The two halves of TypeInv a step disturbs: the rows and the requests.   *)

RowsTyped ==
    /\ order \in [Orders -> Row \cup {NoRow}]
    /\ stale \in [Orders -> 0..MaxStale]
    /\ \A o \in Orders : Exists(o) => PricedUp(order[o])

\* What TypeInv says of one request.
Sound(q) ==
    /\ q \in Request
    /\ q.snap # NoRow => PricedUp(q.snap)
    /\ Exists(q.o)
    /\ Remembers(q)

RequestsTyped == \A p \in Procs : req[p] = Idle \/ Sound(req[p])

PlacesTyped ==
    /\ avail \in [Runners -> Nat]
    /\ promo \subseteq Orders

RedisTyped ==
    /\ acceptLock \in [Orders -> Procs \cup {Idle}]
    /\ reassigns \in [Orders -> Nat]

SweepTyped == sweep \in [escalate : SUBSET Orders, cancel : SUBSET Orders]

\* No order row is ever deleted.
RowsStay == \A o \in Orders : Exists(o) => Exists(o)'

LEMMA TypeInvParts ==
    TypeInv <=> /\ RowsTyped /\ MoneyTyped /\ PlacesTyped /\ RedisTyped
                /\ SweepTyped
                /\ req \in [Procs -> Request \cup {Idle}] /\ RequestsTyped
<1>1. Idle \notin Request
  BY AccountsAssumption
<1> QED
  BY <1>1 DEF TypeInv, TypeOK, PricesOnlyRise, ReadersRemember, RowsTyped,
     RequestsTyped, Sound, MoneyTyped, PlacesTyped, RedisTyped, SweepTyped

\* The same after a step.
LEMMA TypeInvNext ==
    ASSUME RowsTyped', MoneyTyped', PlacesTyped', RedisTyped', SweepTyped',
           req' \in [Procs -> Request \cup {Idle}], RequestsTyped'
    PROVE  TypeInv'
<1>1. Idle \notin Request
  BY AccountsAssumption
<1> QED
  BY <1>1 DEF TypeInv, TypeOK, PricesOnlyRise, ReadersRemember, RowsTyped,
     RequestsTyped, Sound, MoneyTyped, PlacesTyped, RedisTyped, SweepTyped

\* What is known of the request a step belongs to.
LEMMA RequestKinds ==
    ASSUME TypeInv, NEW p \in Procs, req[p] # Idle
    PROVE  /\ Sound(req[p])
           /\ req[p].o \in Orders
           /\ order[req[p].o] \in Row /\ PricedUp(order[req[p].o])
           /\ req[p].op \in AcceptSteps \cup WriterSteps =>
                 req[p].snap \in Row /\ PricedUp(req[p].snap)
           /\ req[p].op \in AcceptSteps \cup RunnerSteps => req[p].by \in Runners
<1>1. Sound(req[p])
  BY TypeInvParts DEF RequestsTyped
<1>2. req[p].o \in Orders
  BY <1>1 DEF Sound, Request
<1>3. order[req[p].o] \in Row /\ PricedUp(order[req[p].o])
  BY <1>1, <1>2, TypeInvParts DEF Sound, Exists, RowsTyped
<1>4. req[p].op \in AcceptSteps \cup WriterSteps =>
         req[p].snap \in Row /\ PricedUp(req[p].snap)
  <2>1. req[p].op \in AcceptSteps \cup WriterSteps => req[p].snap \in Row
    BY <1>1 DEF Sound, Request, AcceptSteps, WriterSteps, RunnerSteps, CancelSteps
  <2> QED
    BY <1>1, <2>1, AccountsAssumption DEF Sound
<1>5. req[p].op \in AcceptSteps \cup RunnerSteps => req[p].by \in Runners
  BY <1>1 DEF Sound, Request, AcceptSteps, WriterSteps, RunnerSteps, CancelSteps
<1> QED
  BY <1>1, <1>2, <1>3, <1>4, <1>5

LEMMA LockedTyped ==
    ASSUME TypeInv, NEW o \in Orders, NEW row \in Row, PricedUp(row),
           LockedWrite(o, row)
    PROVE  RowsTyped' /\ RowsStay
BY TypeInvParts, AccountsAssumption DEF LockedWrite, RowsTyped, RowsStay, Exists

LEMMA WholeRowTyped ==
    ASSUME TypeInv, NEW p \in Procs, req[p] # Idle, NEW row \in Row,
           PricedUp(row), WholeRowWrite(p, row)
    PROVE  RowsTyped' /\ RowsStay /\ Finish(p)
<1> DEFINE o == req[p].o
<1>1. o \in Orders
  BY RequestKinds
<1>2. order' = [order EXCEPT ![o] = row]
  BY DEF WholeRowWrite
<1>3. stale' \in [Orders -> 0..MaxStale]
  BY <1>1, TypeInvParts, ParametersAssumption DEF WholeRowWrite, RowsTyped
<1>4. RowsTyped' /\ RowsStay
  BY <1>1, <1>2, <1>3, TypeInvParts, AccountsAssumption
  DEF RowsTyped, RowsStay, Exists
<1> QED
  BY <1>4 DEF WholeRowWrite

LEMMA UntouchedTyped ==
    ASSUME TypeInv, UNCHANGED table
    PROVE  RowsTyped' /\ RowsStay
BY TypeInvParts DEF table, RowsTyped, RowsStay, Exists

\* Requests stay sound when some end, and when one is replaced by a sound one.
LEMMA RequestsKept ==
    ASSUME TypeInv, RowsStay,
           \/ UNCHANGED req
           \/ \E p \in Procs : Finish(p)
           \/ \E p \in Procs, q \in Request :
                 req' = [req EXCEPT ![p] = q] /\ Sound(q)
    PROVE  req' \in [Procs -> Request \cup {Idle}] /\ RequestsTyped'
<1>1. /\ req \in [Procs -> Request \cup {Idle}]
      /\ RequestsTyped
  BY TypeInvParts
<1>2. ASSUME NEW q, Sound(q) PROVE Sound(q)'
  <2>1. q.o \in Orders
    BY <1>2 DEF Sound, Request
  <2> QED
    BY <1>2, <2>1 DEF Sound, RowsStay
<1>3. CASE UNCHANGED req
  BY <1>1, <1>2, <1>3 DEF RequestsTyped
<1>4. CASE \E p \in Procs : Finish(p)
  BY <1>1, <1>2, <1>4 DEF RequestsTyped, Finish
<1>5. CASE \E p \in Procs, q \in Request :
              req' = [req EXCEPT ![p] = q] /\ Sound(q)
  BY <1>1, <1>2, <1>5 DEF RequestsTyped
<1> QED
  BY <1>3, <1>4, <1>5

LEMMA CancelTxTyped ==
    ASSUME TypeInv, NEW o \in Orders, order[o] \in Row, PricedUp(order[o]),
           NEW pay \in Payouts, CancelTx(o, pay)
    PROVE  RowsTyped' /\ RowsStay /\ MoneyTyped' /\ PlacesTyped'
<1>1. CancelledRow(order[o]) \in Row
  BY DEF CancelledRow, Row, Statuses, Payments
<1>2. PricedUp(CancelledRow(order[o]))
  BY DEF CancelledRow, PricedUp, Row
<1>3. RowsTyped' /\ RowsStay
  BY <1>1, <1>2, LockedTyped DEF CancelTx
<1>4. NoPayout \in Payouts
  BY DEF NoPayout, Payout, Payouts
<1>5. MoneyTyped'
  BY <1>4, SettleTyped DEF CancelTx, TypeInv
<1>6. avail' \in [Runners -> Nat]
  BY RestoreCapacityTyped DEF CancelTx, TypeInv
<1> QED
  BY <1>3, <1>5, <1>6 DEF CancelTx, TypeInv, TypeOK, PlacesTyped

-----------------------------------------------------------------------------
(* Type correctness of each action.                                        *)

\* A handler that only reads, by the row it keeps.
LEMMA LoadTyped ==
    ASSUME TypeInv, NEW p \in Procs, NEW o \in Orders, NEW op \in WriterSteps,
           Arrive(p, op, o, NoRunner, order[o]),
           Remembers([op |-> op, o |-> o, by |-> NoRunner, snap |-> order[o]]),
           UNCHANGED <<table, money, places, redis>>, SweepTyped'
    PROVE  TypeInv'
<1> DEFINE q == [op |-> op, o |-> o, by |-> NoRunner, snap |-> order[o]]
<1>1. Exists(o) /\ order[o] \in Row /\ PricedUp(order[o])
  BY TypeInvParts DEF Arrive, RowsTyped, Exists
<1>2. q \in Request /\ Sound(q)
  BY <1>1 DEF Request, Sound
<1>3. RowsTyped' /\ RowsStay
  BY UntouchedTyped
<1>4. req' = [req EXCEPT ![p] = q]
  BY DEF Arrive
<1>5. req' \in [Procs -> Request \cup {Idle}] /\ RequestsTyped'
  BY <1>2, <1>3, <1>4, RequestsKept
<1> QED
  BY <1>3, <1>5, TypeInvParts, TypeInvNext
  DEF MoneyTyped, PlacesTyped, RedisTyped, money, places, redis

LEMMA PeekTyped ==
    ASSUME TypeInv, NEW p \in Procs, NEW o \in Orders, NEW op, NEW r,
           \/ op \in RunnerSteps /\ r \in Runners
           \/ op \in CancelSteps /\ r = NoRunner,
           Peek(p, op, o, r)
    PROVE  TypeInv'
<1> DEFINE q == [op |-> op, o |-> o, by |-> r, snap |-> NoRow]
<1>1. q \in Request
  BY DEF Request
<1>2. Sound(q)
  BY <1>1 DEF Sound, Peek, Arrive, Remembers, AcceptSteps, RunnerSteps,
     CancelSteps
<1>3. RowsTyped' /\ RowsStay
  BY UntouchedTyped DEF Peek
<1>4. req' = [req EXCEPT ![p] = q]
  BY DEF Peek, Arrive
<1>5. req' \in [Procs -> Request \cup {Idle}] /\ RequestsTyped'
  BY <1>1, <1>2, <1>3, <1>4, RequestsKept
<1> QED
  BY <1>3, <1>5, TypeInvParts, TypeInvNext
  DEF Peek, MoneyTyped, PlacesTyped, RedisTyped, SweepTyped, money, places, redis

LEMMA AcceptOrderReadTyped ==
    ASSUME TypeInv, NEW p \in Procs, NEW o \in Orders, NEW r \in Runners,
           AcceptOrderRead(p, o, r)
    PROVE  TypeInv'
<1> DEFINE q == [op |-> "accept", o |-> o, by |-> r, snap |-> order[o]]
<1>1. Exists(o) /\ order[o] \in Row /\ PricedUp(order[o])
  BY TypeInvParts DEF AcceptOrderRead, Arrive, RowsTyped, Exists
<1>2. q \in Request
  BY <1>1 DEF Request, AcceptSteps
<1>3. Sound(q)
  BY <1>1, <1>2 DEF Sound, Remembers, AcceptOrderRead, AcceptSteps
<1>4. RowsTyped' /\ RowsStay
  BY UntouchedTyped DEF AcceptOrderRead
<1>5. req' = [req EXCEPT ![p] = q]
  BY DEF AcceptOrderRead, Arrive
<1>6. req' \in [Procs -> Request \cup {Idle}] /\ RequestsTyped'
  BY <1>2, <1>3, <1>4, <1>5, RequestsKept
<1> QED
  BY <1>4, <1>6, TypeInvParts, TypeInvNext
  DEF AcceptOrderRead, MoneyTyped, PlacesTyped, RedisTyped, SweepTyped, money,
      places

LEMMA ReadTyped ==
    ASSUME TypeInv, NEW p \in Procs, NEW o \in Orders, Read(p, o)
    PROVE  TypeInv'
<1>1. ASSUME NEW op \in WriterSteps, Load(p, op, o),
             Remembers([op |-> op, o |-> o, by |-> NoRunner, snap |-> order[o]])
      PROVE  TypeInv'
  BY <1>1, LoadTyped, TypeInvParts DEF Load, SweepTyped
<1> USE DEF WriterSteps, AcceptSteps, Remembers
<1>2. CASE RefreshQRISRead(p, o)
  BY <1>1, <1>2 DEF RefreshQRISRead
<1>3. CASE MerchantAcceptRead(p, o)
  BY <1>1, <1>3 DEF MerchantAcceptRead
<1>4. CASE MerchantReadyRead(p, o)
  BY <1>1, <1>4 DEF MerchantReadyRead
<1>5. CASE DisputeOrderRead(p, o)
  BY <1>1, <1>5 DEF DisputeOrderRead
<1>6. CASE ApprovePriceAdjustmentRead(p, o)
  BY <1>1, <1>6 DEF ApprovePriceAdjustmentRead
<1>7. CASE RejectPriceAdjustmentRead(p, o)
  BY <1>1, <1>7 DEF RejectPriceAdjustmentRead
<1>8. CASE EscalateMatchingRead(p, o)
  <2>1. SweepTyped'
    BY <1>8, TypeInvParts DEF EscalateMatchingRead, SweepTyped
  <2> QED
    BY <1>8, <2>1, LoadTyped DEF EscalateMatchingRead
<1>9. CASE \E u \in Accounts : CancelOrderRead(p, o, u)
  BY <1>9, PeekTyped DEF CancelOrderRead, CancelSteps
<1>10. CASE \E r \in Runners : AcceptOrderRead(p, o, r)
  BY <1>10, AcceptOrderReadTyped
<1>11. CASE \E r \in Runners : SubmitPurchaseReceiptRead(p, o, r)
  BY <1>1, <1>11, AccountsAssumption DEF SubmitPurchaseReceiptRead
<1>12. CASE \E r \in Runners : PickupOrderRead(p, o, r)
  BY <1>1, <1>12, AccountsAssumption DEF PickupOrderRead
<1>13. CASE \E r \in Runners : CompleteOrderRead(p, o, r)
  BY <1>13, PeekTyped DEF CompleteOrderRead, RunnerSteps
<1>14. CASE \E r \in Runners : ReassignOrderRead(p, o, r)
  BY <1>14, PeekTyped DEF ReassignOrderRead, RunnerSteps
<1>15. CASE \E r \in Runners : RequestPriceAdjustmentRead(p, o, r)
  BY <1>1, <1>15, AccountsAssumption DEF RequestPriceAdjustmentRead
<1> QED
  BY <1>2, <1>3, <1>4, <1>5, <1>6, <1>7, <1>8, <1>9, <1>10, <1>11, <1>12,
     <1>13, <1>14, <1>15 DEF Read

\* A step that ends its request or leaves all requests alone.
LEMMA StepTyped ==
    ASSUME TypeInv, RowsTyped', RowsStay, MoneyTyped', PlacesTyped',
           RedisTyped', SweepTyped',
           UNCHANGED req \/ \E p \in Procs : Finish(p)
    PROVE  TypeInv'
<1>1. req' \in [Procs -> Request \cup {Idle}] /\ RequestsTyped'
  BY RequestsKept
<1> QED
  BY <1>1, TypeInvNext

\* A request that does nothing but write the row back.
LEMMA WriteBackTyped ==
    ASSUME TypeInv, NEW p \in Procs, req[p] # Idle, NEW row \in Row,
           PricedUp(row), WholeRowWrite(p, row),
           UNCHANGED <<money, places, redis, sweep>>
    PROVE  TypeInv'
<1>1. RowsTyped' /\ RowsStay /\ Finish(p)
  BY WholeRowTyped
<1>2. MoneyTyped' /\ PlacesTyped' /\ RedisTyped' /\ SweepTyped'
  BY TypeInvParts
  DEF MoneyTyped, PlacesTyped, RedisTyped, SweepTyped, money, places, redis
<1> QED
  BY <1>1, <1>2, StepTyped

LEMMA SetStatusTyped ==
    ASSUME TypeInv, NEW p \in Procs, NEW op \in WriterSteps, In(p, op),
           NEW status \in Statuses, SetStatus(p, status)
    PROVE  TypeInv'
<1> DEFINE row == [req[p].snap EXCEPT !.status = status]
<1>1. req[p] # Idle /\ req[p].snap \in Row /\ PricedUp(req[p].snap)
  BY RequestKinds DEF In
<1>2. row \in Row /\ PricedUp(row)
  BY <1>1 DEF Row, PricedUp
<1> QED
  BY <1>1, <1>2, WriteBackTyped DEF SetStatus

LEMMA ReleasedTyped ==
    ASSUME TypeInv, NEW p \in Procs, req[p] # Idle
    PROVE  Released(p) \in [Orders -> Procs \cup {Idle}]
BY RequestKinds DEF Released, TypeInv, TypeOK

LEMMA AcceptOrderCommitTyped ==
    ASSUME TypeInv, NEW p \in Procs, NEW onTrip \in BOOLEAN,
           AcceptOrderCommit(p, onTrip)
    PROVE  TypeInv'
<1> DEFINE o == req[p].o
           r == req[p].by
           snap == req[p].snap
           deposit == LiabilityHold(o, r, snap)
           row == [snap EXCEPT !.runner = r, !.status = AcceptedStatus(snap),
                               !.trip = IF onTrip THEN r ELSE @]
<1>1. /\ req[p] # Idle /\ o \in Orders /\ r \in Runners
      /\ snap \in Row /\ PricedUp(snap)
  BY RequestKinds DEF AcceptOrderCommit, In, AcceptSteps
<1>2. AcceptedStatus(snap) \in Statuses
  BY <1>1 DEF AcceptedStatus, Row, Statuses
<1>3. row \in Row /\ PricedUp(row)
  BY <1>1, <1>2 DEF Row, PricedUp
<1>4. RowsTyped' /\ RowsStay /\ Finish(p)
  BY <1>1, <1>3, WholeRowTyped DEF AcceptOrderCommit
<1>5. deposit \in Nat
  BY <1>1 DEF LiabilityHold, Row
<1>6. bal' \in [Accounts -> Nat]
  <2>1. bal' = [bal EXCEPT ![r] = @ - deposit] /\ bal[r] >= deposit
    BY DEF AcceptOrderCommit
  <2>2. bal \in [Accounts -> Nat] /\ r \in Accounts
    BY <1>1 DEF TypeInv, TypeOK, Accounts
  <2> QED
    BY <1>5, <2>1, <2>2
<1>7. owed' \in [Orders -> [Runners -> Int]]
  <2>1. owed' = [owed EXCEPT ![o][r] = @ + deposit]
    BY DEF AcceptOrderCommit
  <2> QED
    BY <1>1, <1>5, <2>1 DEF TypeInv, TypeOK
<1>8. MoneyTyped'
  BY <1>1, <1>6, <1>7 DEF AcceptOrderCommit, TypeInv, TypeOK, MoneyTyped
<1>9. PlacesTyped'
  BY <1>1 DEF AcceptOrderCommit, TypeInv, TypeOK, PlacesTyped
<1>10. RedisTyped'
  BY <1>1, ReleasedTyped
  DEF AcceptOrderCommit, TypeInv, TypeOK, RedisTyped
<1>11. SweepTyped'
  BY DEF AcceptOrderCommit, TypeInv, TypeOK, SweepTyped
<1> QED
  BY <1>4, <1>8, <1>9, <1>10, <1>11, StepTyped

LEMMA CompleteOrderCommitTyped ==
    ASSUME TypeInv, NEW p \in Procs, CompleteOrderCommit(p)
    PROVE  TypeInv'
<1> DEFINE o == req[p].o
           r == req[p].by
           row == order[o]
           done == CompletedRow(row)
           fee == CODFee(row)
           charged == [bal EXCEPT ![r] = @ - fee, ![System] = @ + fee]
           pay == CompletionPayout(row)
<1>1. /\ req[p] # Idle /\ o \in Orders /\ r \in Runners
      /\ row \in Row /\ PricedUp(row)
  BY RequestKinds DEF CompleteOrderCommit, In, RunnerSteps
<1>2. fee \in Nat
  BY <1>1, ShapesAssumption DEF CODFee, Row, Shape
<1>3. pay \in Payouts
  BY <1>1, SettlementSums DEF CompletionPayout
<1>4. charged \in [Accounts -> Nat]
  <2>1. bal[r] >= fee
    BY DEF CompleteOrderCommit
  <2>2. bal \in [Accounts -> Nat] /\ r \in Accounts /\ System \in Accounts
    BY <1>1 DEF TypeInv, TypeOK, Accounts
  <2>3. r # System
    BY <1>1, AccountsAssumption
  <2> HIDE DEF fee
  <2> QED
    BY <1>2, <2>1, <2>2, <2>3
<1>5. Paid(charged, pay, r) \in [Accounts -> Nat]
  BY <1>3, <1>4, PaidTyped
<1>6. bal' \in [Accounts -> Nat]
  BY <1>1, <1>5, ReleaseLiabilityTyped DEF CompleteOrderCommit
<1>7. held' \in [Orders -> Int]
  <2>1. held' = [held EXCEPT ![o] = @ - Sum(pay)]
    BY DEF CompleteOrderCommit
  <2>2. Sum(pay) \in Int
    BY <1>3 DEF Sum, Payouts
  <2>3. held \in [Orders -> Int]
    BY DEF TypeInv, TypeOK
  <2> HIDE DEF pay, o
  <2> QED
    BY <1>1, <2>1, <2>2, <2>3, EntryAdded
<1>8. owed' \in [Orders -> [Runners -> Int]]
  BY <1>1, DepositReturnedTyped DEF CompleteOrderCommit, TypeInv
<1>9. MoneyTyped'
  BY <1>6, <1>7, <1>8 DEF CompleteOrderCommit, MoneyTyped, TypeInv, TypeOK
<1>10. done \in Row /\ PricedUp(done)
  BY <1>1 DEF CompletedRow, Row, Statuses, Payments, PricedUp
<1>11. RowsTyped' /\ RowsStay
  BY <1>1, <1>10, LockedTyped DEF CompleteOrderCommit
<1>12. PlacesTyped' /\ RedisTyped' /\ SweepTyped'
  BY TypeInvParts DEF CompleteOrderCommit, PlacesTyped, RedisTyped, SweepTyped,
     places, redis
<1>13. Finish(p)
  BY DEF CompleteOrderCommit
<1> QED
  BY <1>9, <1>11, <1>12, <1>13, StepTyped

\* The transactions that cancel an order and end their request.
LEMMA CancelOrderCommitTyped ==
    ASSUME TypeInv, NEW p \in Procs,
           CancelOrderCommit(p) \/ FinalCancelAfterReassignLimit(p)
    PROVE  TypeInv'
<1> DEFINE o == req[p].o
           row == order[o]
<1>1. /\ req[p] # Idle /\ o \in Orders
      /\ row \in Row /\ PricedUp(row)
  BY RequestKinds DEF CancelOrderCommit, FinalCancelAfterReassignLimit, In
<1>2. PICK pay \in Payouts : CancelTx(o, pay)
  <2>1. RefundEscrow(row) \in Payouts /\ PartialReleaseEscrow(row) \in Payouts
    BY <1>1, SettlementSums
  <2> QED
    BY <2>1 DEF CancelOrderCommit, FinalCancelAfterReassignLimit
<1>3. RowsTyped' /\ RowsStay /\ MoneyTyped' /\ PlacesTyped'
  BY <1>1, <1>2, CancelTxTyped
<1>4. RedisTyped' /\ SweepTyped' /\ Finish(p)
  BY TypeInvParts DEF CancelOrderCommit, FinalCancelAfterReassignLimit,
     RedisTyped, SweepTyped, redis
<1> QED
  BY <1>3, <1>4, StepTyped

\* The administrator's and the cron job's.
LEMMA ForceCancelTyped ==
    ASSUME TypeInv, NEW o \in Orders, ForceCancelOrder(o) \/ AutoCancelOrder(o)
    PROVE  TypeInv'
<1> DEFINE row == order[o]
<1>1. row \in Row /\ PricedUp(row)
  BY TypeInvParts DEF ForceCancelOrder, AutoCancelOrder, ForceCancelTx, Exists,
     RowsTyped
<1>2. RefundEscrow(row) \in Payouts
  BY <1>1, SettlementSums
<1>3. CancelTx(o, RefundEscrow(row))
  BY DEF ForceCancelOrder, AutoCancelOrder, ForceCancelTx
<1>4. RowsTyped' /\ RowsStay /\ MoneyTyped' /\ PlacesTyped'
  BY <1>1, <1>2, <1>3, CancelTxTyped
<1>5. RedisTyped' /\ SweepTyped' /\ UNCHANGED req
  BY TypeInvParts DEF ForceCancelOrder, AutoCancelOrder, RedisTyped, SweepTyped,
     redis
<1> QED
  BY <1>4, <1>5, StepTyped

LEMMA ReassignOrderCommitTyped ==
    ASSUME TypeInv, NEW p \in Procs, NEW counted \in BOOLEAN,
           ReassignOrderCommit(p, counted)
    PROVE  TypeInv'
<1> DEFINE o == req[p].o
           row == order[o]
           freed == FreedRow(row)
<1>1. /\ req[p] # Idle /\ o \in Orders
      /\ row \in Row /\ PricedUp(row)
  BY RequestKinds DEF ReassignOrderCommit, In
<1>2. freed \in Row /\ PricedUp(freed)
  BY <1>1 DEF FreedRow, Row, PricedUp
<1>3. RowsTyped' /\ RowsStay
  BY <1>1, <1>2, LockedTyped DEF ReassignOrderCommit
<1>4. MoneyTyped'
  BY <1>1, SettlementSums, SettleTyped DEF ReassignOrderCommit, TypeInv
<1>5. PlacesTyped'
  BY <1>1, RestoreCapacityTyped
  DEF ReassignOrderCommit, PlacesTyped, TypeInv, TypeOK
<1>6. RedisTyped' /\ SweepTyped' /\ Finish(p)
  BY <1>1, TypeInvParts DEF ReassignOrderCommit, RedisTyped, SweepTyped
<1> QED
  BY <1>3, <1>4, <1>5, <1>6, StepTyped

LEMMA PriceAdjustmentTyped ==
    ASSUME TypeInv, NEW p \in Procs,
           \/ \E price \in AdjustedCosts : RequestPriceAdjustmentWrite(p, price)
           \/ ApprovePriceAdjustmentCommit(p)
           \/ RejectPriceAdjustmentKeep(p)
           \/ RejectPriceAdjustmentCancel(p)
    PROVE  TypeInv'
<1> DEFINE o == req[p].o
           snap == req[p].snap
<1>1. /\ req[p] # Idle /\ o \in Orders
      /\ snap \in Row /\ PricedUp(snap) /\ Sound(req[p])
  BY RequestKinds DEF RequestPriceAdjustmentWrite, ApprovePriceAdjustmentCommit,
     RejectPriceAdjustmentKeep, RejectPriceAdjustmentCancel, In, WriterSteps
<1>2. ASSUME NEW price \in AdjustedCosts, RequestPriceAdjustmentWrite(p, price)
      PROVE  TypeInv'
  <2> DEFINE row == [snap EXCEPT !.adj = "pending", !.adjCost = price]
  <2>1. row \in Row /\ PricedUp(row)
    BY <1>1, <1>2, ParametersAssumption
    DEF RequestPriceAdjustmentWrite, Row, PricedUp, Adjustments
  <2> QED
    BY <1>1, <1>2, <2>1, WriteBackTyped DEF RequestPriceAdjustmentWrite
<1>3. CASE ApprovePriceAdjustmentCommit(p)
  <2> DEFINE diff == IF snap.shape.method = "escrow"
                     THEN snap.adjCost - snap.cost ELSE 0
             row == [snap EXCEPT !.cost = snap.adjCost, !.adj = "accepted"]
  <2>1. snap.adj = "pending"
    BY <1>1, <1>3 DEF ApprovePriceAdjustmentCommit, In, Sound, Remembers
  <2>2. row \in Row
    BY <1>1 DEF Row, Adjustments
  <2>3. diff \in Nat /\ snap.adjCost > snap.cost /\ snap.cost >= snap.shape.cost
    BY <1>1, <2>1 DEF Row, PricedUp
  <2>4. PricedUp(row)
    <3>1. /\ row.cost = snap.adjCost /\ row.adj = "accepted"
          /\ row.shape = snap.shape
      BY <1>1 DEF Row
    <3>2. snap.shape.cost \in Nat /\ snap.cost \in Nat /\ snap.adjCost \in Nat
      BY <1>1, ShapesAssumption DEF Row, Shape
    <3> HIDE DEF row, snap
    <3> QED
      BY <2>3, <3>1, <3>2 DEF PricedUp
  <2>5. RowsTyped' /\ RowsStay /\ Finish(p)
    BY <1>1, <1>3, <2>2, <2>4, WholeRowTyped DEF ApprovePriceAdjustmentCommit
  <2>6. /\ bal' = [bal EXCEPT ![Customer] = @ - diff] /\ bal[Customer] >= diff
        /\ held' = [held EXCEPT ![o] = @ + diff]
        /\ UNCHANGED <<deposits, owed, places, redis, sweep>>
    BY <1>3 DEF ApprovePriceAdjustmentCommit
  <2> HIDE DEF diff, o
  <2>7. bal \in [Accounts -> Nat] /\ held \in [Orders -> Int]
    BY DEF TypeInv, TypeOK
  <2>8. diff \in Int /\ Customer \in Accounts
    BY <2>3 DEF Accounts
  <2>9. bal' \in [Accounts -> Nat]
    BY <2>3, <2>6, <2>7, <2>8
  <2>10. held' \in [Orders -> Int]
    BY <1>1, <2>6, <2>7, <2>8, EntryAdded
  <2>11. MoneyTyped' /\ PlacesTyped' /\ RedisTyped' /\ SweepTyped'
    BY <2>6, <2>9, <2>10, TypeInvParts
    DEF MoneyTyped, PlacesTyped, RedisTyped, SweepTyped, places, redis
  <2> QED
    BY <2>5, <2>11, StepTyped
<1>4. CASE RejectPriceAdjustmentKeep(p)
  <2> DEFINE row == [snap EXCEPT !.adj = "rejected"]
  <2>1. row \in Row /\ PricedUp(row)
    BY <1>1 DEF Row, PricedUp, Adjustments
  <2> QED
    BY <1>1, <1>4, <2>1, WriteBackTyped DEF RejectPriceAdjustmentKeep
<1>5. CASE RejectPriceAdjustmentCancel(p)
  <2> DEFINE row == [CancelledRow(snap) EXCEPT !.adj = "rejected"]
             pay == IF ~InEscrow(snap) THEN NoPayout
                    ELSE IF snap.runner # NoRunner THEN PartialReleaseEscrow(snap)
                    ELSE RefundEscrow(snap)
  <2>1. row \in Row /\ PricedUp(row)
    BY <1>1 DEF CancelledRow, Row, Statuses, Payments, Adjustments, PricedUp
  <2>2. pay \in Payouts
    BY <1>1, SettlementSums
  <2>3. RowsTyped' /\ RowsStay /\ Finish(p)
    BY <1>1, <1>5, <2>1, WholeRowTyped DEF RejectPriceAdjustmentCancel
  <2>4. MoneyTyped'
    BY <1>1, <1>5, <2>2, SettleTyped DEF RejectPriceAdjustmentCancel, TypeInv
  <2>5. PlacesTyped'
    BY <1>1, <1>5, RestoreCapacityTyped
    DEF RejectPriceAdjustmentCancel, PlacesTyped, TypeInv, TypeOK
  <2>6. RedisTyped' /\ SweepTyped'
    BY <1>5, TypeInvParts
    DEF RejectPriceAdjustmentCancel, RedisTyped, SweepTyped, redis
  <2> QED
    BY <2>3, <2>4, <2>5, <2>6, StepTyped
<1> QED
  BY <1>2, <1>3, <1>4, <1>5

LEMMA StepsTyped ==
    ASSUME TypeInv, NEW p \in Procs, Step(p)
    PROVE  TypeInv'
<1> USE DEF WriterSteps, Statuses
<1>1. CASE AcceptOrderCheck(p) \/ ReassignOrderLimit(p)
  <2> DEFINE next == IF In(p, "accept") THEN "acceptChecked"
                     ELSE IF reassigns[req[p].o] >= ReassignLimit
                     THEN "finalCancel" ELSE "reassignTx"
             q == [req[p] EXCEPT !.op = next]
  <2>1. req[p] # Idle /\ Sound(req[p]) /\ Advance(p, next)
    BY <1>1, RequestKinds DEF AcceptOrderCheck, ReassignOrderLimit, In
  <2>2. req' = [req EXCEPT ![p] = q]
    BY <2>1 DEF Advance
  <2>3. q \in Request /\ Sound(q)
    <3>1. CASE AcceptOrderCheck(p)
      BY <2>1, <3>1 DEF AcceptOrderCheck, In, Sound, Request, Remembers,
         AcceptSteps, RunnerSteps, CancelSteps
    <3>2. CASE ReassignOrderLimit(p)
      BY <2>1, <3>2 DEF ReassignOrderLimit, In, Sound, Request, Remembers,
         AcceptSteps, RunnerSteps, CancelSteps
    <3> QED
      BY <1>1, <3>1, <3>2
  <2>4. RowsTyped' /\ RowsStay
    BY <1>1, UntouchedTyped DEF AcceptOrderCheck, ReassignOrderLimit
  <2>5. req' \in [Procs -> Request \cup {Idle}] /\ RequestsTyped'
    BY <2>2, <2>3, <2>4, RequestsKept
  <2> QED
    BY <1>1, <2>4, <2>5, TypeInvParts, TypeInvNext
    DEF AcceptOrderCheck, ReassignOrderLimit, MoneyTyped, PlacesTyped,
        RedisTyped, SweepTyped, money, places, redis
<1>2. CASE \E onTrip \in BOOLEAN : AcceptOrderCommit(p, onTrip)
  BY <1>2, AcceptOrderCommitTyped
<1>3. CASE RefreshQRISWrite(p)
  BY <1>3, RequestKinds, WriteBackTyped DEF RefreshQRISWrite, In
<1>4. CASE MerchantAcceptWrite(p)
  BY <1>4, SetStatusTyped DEF MerchantAcceptWrite
<1>5. CASE MerchantReadyWrite(p)
  BY <1>5, SetStatusTyped DEF MerchantReadyWrite
<1>6. CASE SubmitPurchaseReceiptWrite(p)
  BY <1>6, SetStatusTyped DEF SubmitPurchaseReceiptWrite
<1>7. CASE PickupOrderWrite(p)
  BY <1>7, SetStatusTyped DEF PickupOrderWrite
<1>8. CASE CompleteOrderCommit(p)
  BY <1>8, CompleteOrderCommitTyped
<1>9. CASE CancelOrderCommit(p) \/ FinalCancelAfterReassignLimit(p)
  BY <1>9, CancelOrderCommitTyped
<1>10. CASE \E counted \in BOOLEAN : ReassignOrderCommit(p, counted)
  BY <1>10, ReassignOrderCommitTyped
<1>11. CASE DisputeOrderWrite(p)
  BY <1>11, SetStatusTyped DEF DisputeOrderWrite
<1>12. CASE \/ \E price \in AdjustedCosts : RequestPriceAdjustmentWrite(p, price)
            \/ ApprovePriceAdjustmentCommit(p)
            \/ RejectPriceAdjustmentKeep(p)
            \/ RejectPriceAdjustmentCancel(p)
  BY <1>12, PriceAdjustmentTyped
<1>13. CASE EscalateMatchingWrite(p)
  <2> DEFINE row == [req[p].snap EXCEPT !.escalated = TRUE]
  <2>1. req[p] # Idle /\ req[p].snap \in Row /\ PricedUp(req[p].snap)
    BY <1>13, RequestKinds DEF EscalateMatchingWrite, In
  <2>2. row \in Row /\ PricedUp(row)
    BY <2>1 DEF Row, PricedUp
  <2> QED
    BY <1>13, <2>1, <2>2, WriteBackTyped DEF EscalateMatchingWrite
<1>14. CASE Abort(p) \/ Crash(p)
  <2>1. req[p] # Idle /\ Finish(p)
    BY <1>14 DEF Abort, Crash
  <2>2. RowsTyped' /\ RowsStay
    BY <1>14, UntouchedTyped DEF Abort, Crash
  <2>3. RedisTyped'
    BY <1>14, <2>1, ReleasedTyped, TypeInvParts DEF Abort, Crash, RedisTyped, redis
  <2>4. MoneyTyped' /\ PlacesTyped' /\ SweepTyped'
    BY <1>14, TypeInvParts
    DEF Abort, Crash, MoneyTyped, PlacesTyped, SweepTyped, money, places
  <2> QED
    BY <2>1, <2>2, <2>3, <2>4, StepTyped
<1> QED
  BY <1>1, <1>2, <1>3, <1>4, <1>5, <1>6, <1>7, <1>8, <1>9, <1>10, <1>11,
     <1>12, <1>13, <1>14 DEF Step

LEMMA CreateTyped ==
    ASSUME TypeInv, NEW o \in Orders, NEW s \in Shapes, Create(o, s)
    PROVE  TypeInv'
<1> DEFINE wallet == s.method = "escrow" /\ s.source = "wallet"
           row == NewRow(s, IF wallet THEN "escrow" ELSE "unpaid")
           amount == IF wallet THEN TotalPayment(row) ELSE 0
<1>1. row \in Row /\ PricedUp(row)
  BY ShapesAssumption, AccountsAssumption
  DEF NewRow, Row, Shape, Statuses, Payments, Adjustments, PricedUp
<1>2. amount \in Nat
  BY ShapesAssumption
  DEF TotalPayment, NewRow, ListPrice, AtLeastZero, Shape, Gross
<1>3. /\ order' = [order EXCEPT ![o] = row]
      /\ bal[Customer] >= amount
      /\ bal' = [bal EXCEPT ![Customer] = @ - amount]
      /\ held' = [held EXCEPT ![o] = @ + amount]
      /\ promo' \subseteq promo \cup {o}
      /\ UNCHANGED <<deposits, owed, avail, redis, sweep, req, stale>>
  BY DEF Create
<1> HIDE DEF row, amount
<1>4. RowsTyped' /\ RowsStay
  BY <1>1, <1>3, LockedTyped DEF LockedWrite
<1>5. MoneyTyped'
  <2>1. amount \in Int /\ Customer \in Accounts
    BY <1>2 DEF Accounts
  <2>2. bal' \in [Accounts -> Nat]
    BY <1>2, <1>3, <2>1 DEF TypeInv, TypeOK
  <2>3. held' \in [Orders -> Int]
    BY <1>3, <2>1, EntryAdded DEF TypeInv, TypeOK
  <2> QED
    BY <1>3, <2>2, <2>3 DEF MoneyTyped, TypeInv, TypeOK
<1>6. PlacesTyped' /\ RedisTyped' /\ SweepTyped'
  BY <1>3, TypeInvParts DEF PlacesTyped, RedisTyped, SweepTyped, redis
<1> QED
  BY <1>3, <1>4, <1>5, <1>6, StepTyped

LEMMA ResolveDisputeTyped ==
    ASSUME TypeInv, NEW o \in Orders, NEW side, ResolveDispute(o, side)
    PROVE  TypeInv'
<1> DEFINE row == order[o]
<1>1. row \in Row /\ PricedUp(row)
  BY TypeInvParts DEF ResolveDispute, Exists, RowsTyped
<1>2. ASSUME NEW status \in {"completed", "cancelled"}, NEW pay \in Payments
      PROVE  /\ [row EXCEPT !.status = status, !.pay = pay] \in Row
             /\ PricedUp([row EXCEPT !.status = status, !.pay = pay])
             /\ [row EXCEPT !.status = status] \in Row
             /\ PricedUp([row EXCEPT !.status = status])
  BY <1>1 DEF Row, Statuses, PricedUp
<1>3. RedisTyped' /\ SweepTyped' /\ promo' \subseteq Orders /\ UNCHANGED req
  BY TypeInvParts
  DEF ResolveDispute, RedisTyped, SweepTyped, PlacesTyped, redis
<1>4. RowsTyped' /\ RowsStay /\ MoneyTyped' /\ avail' \in [Runners -> Nat]
  <2>1. CASE ResolveForRequester(o)
    <3>1. RowsTyped' /\ RowsStay
      BY <1>2, <2>1, LockedTyped DEF ResolveForRequester, Payments
    <3> QED
      BY <1>1, <2>1, <3>1, SettlementSums, SettleTyped, RestoreCapacityTyped
      DEF ResolveForRequester, TypeInv
  <2>2. CASE ResolveForRunner(o)
    <3>1. RowsTyped' /\ RowsStay
      BY <1>2, <2>2, LockedTyped DEF ResolveForRunner, Payments
    <3> QED
      BY <1>1, <2>2, <3>1, SettlementSums, SettleTyped
      DEF ResolveForRunner, TypeInv, TypeOK
  <2>3. CASE ResolveCOD(o)
    <3>1. RowsTyped' /\ RowsStay
      BY <1>2, <2>3, LockedTyped DEF ResolveCOD, Payments
    <3> QED
      BY <2>3, <3>1 DEF ResolveCOD, money, MoneyTyped, TypeInv, TypeOK
  <2> QED
    BY <2>1, <2>2, <2>3 DEF ResolveDispute
<1> QED
  BY <1>3, <1>4, StepTyped DEF PlacesTyped

LEMMA EventTyped ==
    ASSUME TypeInv, NEW o \in Orders, Event(o)
    PROVE  TypeInv'
<1>1. CASE \E s \in Shapes : Create(o, s)
  BY <1>1, CreateTyped
<1>2. CASE ProcessPayment(o)
  <2> DEFINE row == [order[o] EXCEPT !.pay = "escrow"]
             amount == TotalPayment(order[o])
  <2>1. order[o] \in Row /\ PricedUp(order[o])
    BY <1>2, TypeInvParts DEF ProcessPayment, Exists, RowsTyped
  <2>2. row \in Row /\ PricedUp(row)
    BY <2>1 DEF Row, Payments, PricedUp
  <2>3. amount \in Int
    BY <2>1, ShapesAssumption
    DEF TotalPayment, ListPrice, AtLeastZero, Gross, Row, Shape
  <2>4. RowsTyped' /\ RowsStay
    BY <1>2, <2>2, LockedTyped DEF ProcessPayment
  <2>5. held' = [held EXCEPT ![o] = @ + amount]
    BY <1>2 DEF ProcessPayment
  <2> HIDE DEF amount
  <2>6. MoneyTyped'
    <3>1. held' \in [Orders -> Int]
      BY <2>3, <2>5, EntryAdded DEF TypeInv, TypeOK
    <3> QED
      BY <1>2, <3>1 DEF ProcessPayment, MoneyTyped, TypeInv, TypeOK
  <2>7. PlacesTyped' /\ RedisTyped' /\ SweepTyped' /\ UNCHANGED req
    BY <1>2, TypeInvParts
    DEF ProcessPayment, PlacesTyped, RedisTyped, SweepTyped, places, redis
  <2> QED
    BY <2>4, <2>6, <2>7, StepTyped
<1>3. CASE ForceCancelOrder(o) \/ AutoCancelOrder(o)
  BY <1>3, ForceCancelTyped
<1>4. CASE \E side \in {"requester", "runner"} : ResolveDispute(o, side)
  BY <1>4, ResolveDisputeTyped
<1>5. CASE ExpireOldOrder(o)
  <2> DEFINE row == [order[o] EXCEPT !.status = "expired"]
  <2>1. order[o] \in Row /\ PricedUp(order[o])
    BY <1>5, TypeInvParts DEF ExpireOldOrder, Exists, RowsTyped
  <2>2. row \in Row /\ PricedUp(row)
    BY <2>1 DEF Row, Statuses, PricedUp
  <2>3. RowsTyped' /\ RowsStay
    BY <1>5, <2>2, LockedTyped DEF ExpireOldOrder
  <2>4. MoneyTyped' /\ PlacesTyped' /\ RedisTyped' /\ SweepTyped' /\ UNCHANGED req
    BY <1>5, TypeInvParts DEF ExpireOldOrder, MoneyTyped, PlacesTyped, RedisTyped,
       SweepTyped, money, places, redis
  <2> QED
    BY <2>3, <2>4, StepTyped
<1>6. CASE AutoCancelSkip(o) \/ AcceptLockExpire(o) \/ ReassignCountExpire(o)
  <2>1. RowsTyped' /\ RowsStay /\ UNCHANGED req
    BY <1>6, UntouchedTyped DEF AutoCancelSkip, AcceptLockExpire, ReassignCountExpire
  <2>2. MoneyTyped' /\ PlacesTyped' /\ RedisTyped' /\ SweepTyped'
    <3>1. MoneyTyped' /\ PlacesTyped'
      BY <1>6, TypeInvParts
      DEF AutoCancelSkip, AcceptLockExpire, ReassignCountExpire, MoneyTyped,
          PlacesTyped, money, places
    <3>2. RedisTyped'
      BY <1>6, TypeInvParts
      DEF AutoCancelSkip, AcceptLockExpire, ReassignCountExpire, RedisTyped, redis
    <3>3. SweepTyped'
      BY <1>6, TypeInvParts
      DEF AutoCancelSkip, AcceptLockExpire, ReassignCountExpire, SweepTyped
    <3> QED
      BY <3>1, <3>2, <3>3
  <2> QED
    BY <2>1, <2>2, StepTyped
<1> QED
  BY <1>1, <1>2, <1>3, <1>4, <1>5, <1>6 DEF Event

LEMMA InitTyped == Init => TypeInv
<1> SUFFICES ASSUME Init PROVE TypeInv
  OBVIOUS
<1>1. TypeOK
  BY ParametersAssumption DEF Init, TypeOK
<1> QED
  BY <1>1 DEF Init, TypeInv, PricesOnlyRise, ReadersRemember, Exists

LEMMA NextTyped == TypeInv /\ [Next]_vars => TypeInv'
<1> SUFFICES ASSUME TypeInv, [Next]_vars PROVE TypeInv'
  OBVIOUS
<1>1. CASE \E p \in Procs, o \in Orders : Read(p, o)
  BY <1>1, ReadTyped
<1>2. CASE \E p \in Procs : Step(p)
  BY <1>2, StepsTyped
<1>3. CASE \E o \in Orders : Event(o)
  BY <1>3, EventTyped
<1>4. CASE Scan \/ UNCHANGED vars
  <2>1. RowsTyped' /\ RowsStay /\ UNCHANGED req
    BY <1>4, UntouchedTyped DEF Scan, EscalateScan, AutoCancelScan, vars, table
  <2>2. MoneyTyped' /\ PlacesTyped' /\ RedisTyped' /\ SweepTyped'
    BY <1>4, TypeInvParts
    DEF Scan, EscalateScan, AutoCancelScan, MoneyTyped, PlacesTyped, RedisTyped,
        SweepTyped, vars, money, places, redis
  <2> QED
    BY <2>1, <2>2, StepTyped
<1> QED
  BY <1>1, <1>2, <1>3, <1>4 DEF Next

\* TypeInv is inductive.
THEOREM TypeInvariance == Spec => []TypeInv
BY InitTyped, NextTyped, PTL DEF Spec

\* Every reachable state is well typed: no wallet and no trip ever goes below
\* zero, for any prices, whatever requests race.
THEOREM TypeCorrect == Spec => []TypeOK
<1>1. TypeInv => TypeOK
  BY DEF TypeInv
<1> QED
  BY <1>1, TypeInvariance, PTL


-----------------------------------------------------------------------------
(* What is asked for, and what settling hands out.                         *)

\* A settlement never hands out less than the customer was asked for; the same where
\* neither a discount nor a declared value stands between the two.
LEMMA AllowanceNatural ==
    ASSUME NEW row \in Row
    PROVE  /\ Allowance(row.shape) \in Nat
           /\ FullyPriced(row) => Allowance(row.shape) = 0
BY ShapesAssumption
DEF Row, Shape, Allowance, AtLeastZero, ListPrice, FullyPriced

\* Before its price is adjusted, a row is asked for what settling it hands out, less
\* the allowance.
LEMMA AskedPrice ==
    ASSUME NEW row \in Row, PricedUp(row), row.adj = "none"
    PROVE  /\ TotalPayment(row) \in Int
           /\ TotalPayment(row) + Allowance(row.shape) = Gross(row)
<1>1. /\ row.shape \in Shape /\ row.cost \in Nat
      /\ row.cost = row.shape.cost
  BY ShapesAssumption DEF Row, PricedUp
<1> QED
  BY <1>1 DEF TotalPayment, Gross, Allowance, AtLeastZero, ListPrice, Shape

-----------------------------------------------------------------------------
(* How one row's write carries IntactOrders over a step.                   *)

LEMMA LockedKeepsOrder ==
    ASSUME SettlementInv, NEW o \in Orders, NEW row \in Row, NEW amount \in Int,
           order' = [order EXCEPT ![o] = row],
           held' = [held EXCEPT ![o] = amount],
           UNCHANGED stale,
           Intact(o) /\ InOrder(order[o], held[o]) => InOrder(row, amount),
           Exists(o)
    PROVE  IntactOrders'
<1> SUFFICES ASSUME NEW x \in Orders
             PROVE  /\ ~Exists(x)' => held'[x] = 0
                    /\ Intact(x)' => InOrder(order'[x], held'[x])
  BY DEF IntactOrders
<1>1. /\ order \in [Orders -> Row \cup {NoRow}] /\ held \in [Orders -> Int]
      /\ IntactOrders
  BY DEF SettlementInv, TypeInv, TypeOK
<1>2. CASE x = o
  BY <1>1, <1>2, AccountsAssumption DEF IntactOrders, Intact, Exists
<1>3. CASE x # o
  BY <1>1, <1>3 DEF IntactOrders, Intact, Exists
<1> QED
  BY <1>2, <1>3

\* The properties below do not look at whether matching was escalated.
LEMMA EscalatedIsIgnored ==
    ASSUME NEW row \in Row, NEW flag \in BOOLEAN, NEW amount \in Int
    PROVE  InOrder([row EXCEPT !.escalated = flag], amount) <=> InOrder(row, amount)
<1> DEFINE other == [row EXCEPT !.escalated = flag]
<1>1. /\ other.shape = row.shape /\ other.status = row.status
      /\ other.pay = row.pay /\ other.runner = row.runner
      /\ other.cost = row.cost /\ other.adj = row.adj
  BY DEF Row
<1> HIDE DEF other
<1>2. InOrder(other, amount) <=> InOrder(row, amount)
  BY <1>1 DEF InOrder, StatusAgreesWithPayment, HeldAgreesWithPayment, Gross
<1> QED
  BY <1>2 DEF other

\* A request that writes its row back: while the order stays intact, that row
\* is the one in the table.
LEMMA WriteBackKeepsOrder ==
    ASSUME SettlementInv, NEW p \in Procs, req[p] # Idle, req[p].snap \in Row,
           NEW row \in Row, NEW amount \in Int, WholeRowWrite(p, row),
           held' = [held EXCEPT ![req[p].o] = amount],
           InOrder(req[p].snap, held[req[p].o]) => InOrder(row, amount)
    PROVE  IntactOrders'
<1> DEFINE o == req[p].o
           snap == req[p].snap
<1> SUFFICES ASSUME NEW x \in Orders
             PROVE  /\ ~Exists(x)' => held'[x] = 0
                    /\ Intact(x)' => InOrder(order'[x], held'[x])
  BY DEF IntactOrders
<1>1. /\ order \in [Orders -> Row \cup {NoRow}] /\ held \in [Orders -> Int]
      /\ stale \in [Orders -> 0..MaxStale]
      /\ IntactOrders
  BY DEF SettlementInv, TypeInv, TypeOK
<1>2. o \in Orders /\ order[o] \in Row
  BY RequestKinds DEF SettlementInv
<1>3. order' = [order EXCEPT ![o] = row]
  BY DEF WholeRowWrite
<1>4. CASE x = o
  <2>1. order'[o] = row /\ held'[o] = amount
    BY <1>1, <1>2, <1>3
  <2>2. ASSUME stale'[o] = 0 PROVE InOrder(row, amount)
    <3>1. ~Diverged(o, snap) /\ stale[o] = 0
      BY <1>1, <1>2, <2>2, ParametersAssumption DEF WholeRowWrite
    <3>2. order[o] = [snap EXCEPT !.escalated = order[o].escalated]
      BY <3>1 DEF Diverged
    <3>3. InOrder(order[o], held[o])
      BY <1>1, <1>2, <3>1, AccountsAssumption DEF IntactOrders, Intact, Exists
    <3>4. order[o].escalated \in BOOLEAN /\ held[o] \in Int
      BY <1>1, <1>2 DEF Row
    <3>5. InOrder(snap, held[o])
      BY <3>2, <3>3, <3>4, EscalatedIsIgnored
    <3> QED
      BY <3>5
  <2> QED
    BY <1>4, <2>1, <2>2, AccountsAssumption DEF Intact, Exists
<1>5. CASE x # o
  <2>1. order'[x] = order[x] /\ held'[x] = held[x] /\ stale'[x] = stale[x]
    BY <1>1, <1>3, <1>5 DEF WholeRowWrite
  <2> QED
    BY <1>1, <2>1 DEF IntactOrders, Intact, Exists
<1> QED
  BY <1>4, <1>5

LEMMA UntouchedKeepsOrder ==
    ASSUME SettlementInv, UNCHANGED table, UNCHANGED held
    PROVE  IntactOrders'
BY DEF SettlementInv, IntactOrders, Intact, Exists, table

\* What SettlementInv says of the request a step belongs to.
LEMMA WriterFacts ==
    ASSUME SettlementInv, NEW p \in Procs, req[p] # Idle,
           req[p].op \in AcceptSteps \cup WriterSteps
    PROVE  /\ req[p].o \in Orders /\ held[req[p].o] \in Int
           /\ req[p].snap \in Row /\ PricedUp(req[p].snap)
           /\ Remembers(req[p])
           /\ held = [held EXCEPT ![req[p].o] = held[req[p].o]]
<1>1. /\ req[p].o \in Orders
      /\ req[p].snap \in Row /\ PricedUp(req[p].snap)
      /\ Sound(req[p])
  BY RequestKinds DEF SettlementInv
<1>2. held \in [Orders -> Int]
  BY DEF SettlementInv, TypeInv, TypeOK
<1> QED
  BY <1>1, <1>2 DEF Sound

-----------------------------------------------------------------------------
(* Settlements empty what is held.                                         *)

\* An intact row whose money is in escrow holds exactly what it hands out.
LEMMA RefundKeepsOrder ==
    ASSUME NEW row \in Row, NEW amount \in Int, InOrder(row, amount)
    PROVE  InOrder(CancelledRow(row),
                   amount - (IF InEscrow(row) THEN Gross(row) ELSE 0))
<1> DEFINE gone == CancelledRow(row)
<1>1. /\ gone.shape = row.shape /\ gone.status = "cancelled"
      /\ gone.runner = row.runner /\ gone.cost = row.cost /\ gone.adj = row.adj
      /\ gone.pay = IF InEscrow(row) THEN "refunded" ELSE row.pay
  BY DEF CancelledRow, Row
<1>2. /\ row.shape.method \in {"escrow", "cod"} /\ Gross(row) \in Int
      /\ row.pay \in Payments /\ Allowance(row.shape) \in Int
  BY ShapesAssumption, AllowanceNatural DEF Row, Shape, Gross
<1> HIDE DEF gone
<1>3. StatusAgreesWithPayment(gone)
  BY <1>1, <1>2 DEF InOrder, StatusAgreesWithPayment, InEscrow, Payments
<1>4. HeldAgreesWithPayment(gone,
         amount - (IF InEscrow(row) THEN Gross(row) ELSE 0))
  <2>1. StatusAgreesWithPayment(row) /\ HeldAgreesWithPayment(row, amount)
    BY DEF InOrder
  <2>2. CASE InEscrow(row)
    BY <1>1, <1>2, <2>1, <2>2 DEF HeldAgreesWithPayment, InEscrow
  <2>3. CASE ~InEscrow(row)
    BY <1>1, <1>2, <2>1, <2>3
    DEF HeldAgreesWithPayment, StatusAgreesWithPayment, InEscrow, Payments
  <2> QED
    BY <2>2, <2>3
<1>5. InOrder(gone, amount - (IF InEscrow(row) THEN Gross(row) ELSE 0))
  BY <1>3, <1>4 DEF InOrder
<1> QED
  BY <1>5 DEF gone

LEMMA CompletionKeepsOrder ==
    ASSUME NEW row \in Row, NEW amount \in Int, InOrder(row, amount),
           row.status = "delivering"
    PROVE  InOrder(CompletedRow(row),
                   amount - (IF row.shape.method = "cod" THEN 0 ELSE Gross(row)))
<1> DEFINE done == CompletedRow(row)
<1>1. /\ done.shape = row.shape /\ done.status = "completed"
      /\ done.runner = row.runner /\ done.cost = row.cost /\ done.adj = row.adj
      /\ done.pay = "released"
  BY DEF CompletedRow, Row
<1>2. /\ row.shape.method \in {"escrow", "cod"} /\ Gross(row) \in Int
      /\ row.pay \in Payments /\ Allowance(row.shape) \in Int
  BY ShapesAssumption, AllowanceNatural DEF Row, Shape, Gross
<1> HIDE DEF done
<1>3. StatusAgreesWithPayment(done)
  BY <1>1, <1>2 DEF StatusAgreesWithPayment
<1>4. row.shape.method = "cod" \/ row.pay = "escrow"
  BY <1>2 DEF InOrder, StatusAgreesWithPayment, Payments
<1>5. HeldAgreesWithPayment(done,
         amount - (IF row.shape.method = "cod" THEN 0 ELSE Gross(row)))
  BY <1>1, <1>2, <1>4 DEF InOrder, HeldAgreesWithPayment
<1>6. InOrder(done, amount - (IF row.shape.method = "cod" THEN 0 ELSE Gross(row)))
  BY <1>3, <1>5 DEF InOrder
<1> QED
  BY <1>6 DEF done

\* Every transaction that cancels a locked row.
LEMMA CancelTxKeepsOrder ==
    ASSUME SettlementInv, NEW o \in Orders, Exists(o), NEW pay,
           Sum(pay) = Gross(order[o]), CancelTx(o, pay)
    PROVE  IntactOrders'
<1> DEFINE row == order[o]
           out == IF InEscrow(row) THEN Gross(row) ELSE 0
           amount == held[o] - out
<1>1. row \in Row /\ PricedUp(row) /\ held \in [Orders -> Int]
  BY DEF SettlementInv, TypeInv, TypeOK, PricesOnlyRise, Exists
<1>2. out \in Int /\ amount \in Int
  BY <1>1, ShapesAssumption DEF Row, Shape, Gross
<1>3. /\ order' = [order EXCEPT ![o] = CancelledRow(row)]
      /\ UNCHANGED stale
  BY DEF CancelTx, LockedWrite
<1>4. held' = [held EXCEPT ![o] = amount]
  BY <1>1, SettlementSums DEF CancelTx, Settle
<1>5. CancelledRow(row) \in Row
  BY <1>1 DEF CancelledRow, Row, Statuses, Payments
<1>6. InOrder(row, held[o]) => InOrder(CancelledRow(row), amount)
  BY <1>1, RefundKeepsOrder
<1> QED
  BY <1>2, <1>3, <1>4, <1>5, <1>6, LockedKeepsOrder

-----------------------------------------------------------------------------
(* The settlement invariant of each action.                                *)


Working == {"merchant_accepted", "cooking", "ready", "accepted", "purchasing",
            "delivering"}

\* Moves between statuses that leave the money where it is.
LEMMA StatusKeepsOrder ==
    ASSUME NEW row \in Row, NEW amount \in Int, NEW status \in Statuses,
           InOrder(row, amount),
           \/ row.status \in Working /\ status \in Working
           \/ /\ row.status = "pending" /\ status \in Working
              /\ row.pay = "escrow" \/ row.shape.method = "cod"
           \/ row.status = "completed" /\ status = "disputed"
    PROVE  InOrder([row EXCEPT !.status = status], amount)
<1> DEFINE moved == [row EXCEPT !.status = status]
<1>1. /\ moved.shape = row.shape /\ moved.status = status
      /\ moved.runner = row.runner /\ moved.cost = row.cost
      /\ moved.adj = row.adj /\ moved.pay = row.pay
  BY DEF Row
<1> HIDE DEF moved
<1>2. row.pay \in Payments
  BY DEF Row
<1>3. StatusAgreesWithPayment(moved)
  BY <1>1, <1>2 DEF InOrder, StatusAgreesWithPayment, Working, Payments
<1>4. HeldAgreesWithPayment(moved, amount)
  BY <1>1 DEF InOrder, HeldAgreesWithPayment, Gross
<1>5. InOrder(moved, amount)
  BY <1>3, <1>4 DEF InOrder
<1> QED
  BY <1>5 DEF moved

LEMMA SetStatusKeepsOrder ==
    ASSUME SettlementInv, NEW p \in Procs,
           \/ MerchantAcceptWrite(p) \/ MerchantReadyWrite(p)
           \/ SubmitPurchaseReceiptWrite(p) \/ PickupOrderWrite(p)
           \/ DisputeOrderWrite(p)
    PROVE  IntactOrders'
<1> DEFINE o == req[p].o
           snap == req[p].snap
<1>1. req[p] # Idle /\ req[p].op \in AcceptSteps \cup WriterSteps
  BY DEF MerchantAcceptWrite, MerchantReadyWrite, SubmitPurchaseReceiptWrite,
     PickupOrderWrite, DisputeOrderWrite, In, WriterSteps
<1>2. PICK status \in Statuses :
        /\ SetStatus(p, status)
        /\ \/ snap.status \in Working /\ status \in Working
           \/ /\ snap.status = "pending" /\ status \in Working
              /\ snap.pay = "escrow" \/ snap.shape.method = "cod"
           \/ snap.status = "completed" /\ status = "disputed"
  <2>1. Remembers(req[p]) /\ snap.shape.kind \in {"food", "beli", "kirim"}
    BY <1>1, WriterFacts, ShapesAssumption DEF Row, Shape
  <2>2. CASE MerchantAcceptWrite(p)
    <3>1. "merchant_accepted" \in Statuses \cap Working
      BY DEF Statuses, Working
    <3> QED
      BY <2>1, <2>2, <3>1 DEF MerchantAcceptWrite, In, Remembers
  <2>3. CASE MerchantReadyWrite(p)
    <3>1. "ready" \in Statuses \cap Working /\ "cooking" \in Working
      BY DEF Statuses, Working
    <3> QED
      BY <2>1, <2>3, <3>1 DEF MerchantReadyWrite, In, Remembers
  <2>4. CASE SubmitPurchaseReceiptWrite(p)
    <3>1. "purchasing" \in Statuses \cap Working /\ "accepted" \in Working
      BY DEF Statuses, Working
    <3> QED
      BY <2>1, <2>4, <3>1 DEF SubmitPurchaseReceiptWrite, In, Remembers
  <2>5. CASE PickupOrderWrite(p)
    <3>1. "delivering" \in Statuses \cap Working
      BY DEF Statuses, Working
    <3>2. snap.status \in PickupStatuses(snap)
      BY <2>1, <2>5 DEF PickupOrderWrite, In, Remembers
    <3>3. snap.status \in Working
      BY <2>1, <3>2 DEF PickupStatuses, Working
    <3> QED
      BY <2>5, <3>1, <3>3 DEF PickupOrderWrite
  <2>6. CASE DisputeOrderWrite(p)
    BY <2>1, <2>6 DEF DisputeOrderWrite, In, Remembers, Statuses
  <2> QED
    BY <2>2, <2>3, <2>4, <2>5, <2>6
<1>3. /\ o \in Orders /\ held[o] \in Int /\ snap \in Row
      /\ held = [held EXCEPT ![o] = held[o]]
  BY <1>1, WriterFacts
<1>4. [snap EXCEPT !.status = status] \in Row
  BY <1>3 DEF Row
<1>5. InOrder(snap, held[o]) => InOrder([snap EXCEPT !.status = status], held[o])
  BY <1>2, <1>3, StatusKeepsOrder
<1>6. /\ WholeRowWrite(p, [snap EXCEPT !.status = status])
      /\ held' = [held EXCEPT ![o] = held[o]]
  BY <1>2, <1>3 DEF SetStatus, money
<1> QED
  BY <1>1, <1>3, <1>4, <1>5, <1>6, WriteBackKeepsOrder

LEMMA AcceptKeepsOrder ==
    ASSUME SettlementInv, NEW p \in Procs, NEW onTrip \in BOOLEAN,
           AcceptOrderCommit(p, onTrip)
    PROVE  IntactOrders'
<1> DEFINE o == req[p].o
           r == req[p].by
           snap == req[p].snap
           row == [snap EXCEPT !.runner = r, !.status = AcceptedStatus(snap),
                               !.trip = IF onTrip THEN r ELSE @]
<1>1. req[p] # Idle /\ req[p].op \in AcceptSteps \cup WriterSteps
  BY DEF AcceptOrderCommit, In, AcceptSteps
<1>2. /\ o \in Orders /\ held[o] \in Int /\ snap \in Row /\ Remembers(req[p])
      /\ held = [held EXCEPT ![o] = held[o]] /\ r \in Runners
  BY <1>1, WriterFacts, RequestKinds DEF AcceptOrderCommit, In, AcceptSteps,
     SettlementInv
<1>3. Acceptable(snap)
  BY <1>2 DEF AcceptOrderCommit, In, Remembers, AcceptSteps
<1>4. AcceptedStatus(snap) \in Statuses \cap Working
  BY <1>3 DEF Acceptable, AcceptedStatus, Statuses, Working
<1>5. row \in Row
  BY <1>2, <1>4 DEF Row
<1>6. /\ row.shape = snap.shape /\ row.cost = snap.cost /\ row.pay = snap.pay
      /\ row.adj = snap.adj /\ row.status \in Working
  BY <1>2, <1>4 DEF Row
<1>7. snap.status \notin {"completed", "disputed", "cancelled"}
  BY <1>3 DEF Acceptable
<1>8. snap.shape.method = "escrow" => snap.pay = "escrow"
  BY DEF AcceptOrderCommit
<1>9. WholeRowWrite(p, row) /\ held' = [held EXCEPT ![o] = held[o]]
  BY <1>2 DEF AcceptOrderCommit
<1>10. snap.pay \in Payments
  BY <1>2 DEF Row
<1> HIDE DEF row, snap, o
<1>11. InOrder(snap, held[o]) => InOrder(row, held[o])
  BY <1>6, <1>7, <1>8, <1>10 DEF InOrder, StatusAgreesWithPayment,
     HeldAgreesWithPayment, Gross, Working, Payments
<1> QED
  BY <1>1, <1>2, <1>5, <1>9, <1>11, WriteBackKeepsOrder DEF snap, o

LEMMA SameRowKeepsOrder ==
    ASSUME SettlementInv, NEW p \in Procs,
           RefreshQRISWrite(p) \/ EscalateMatchingWrite(p)
    PROVE  IntactOrders'
<1> DEFINE o == req[p].o
           snap == req[p].snap
<1>1. req[p] # Idle /\ req[p].op \in AcceptSteps \cup WriterSteps
  BY DEF RefreshQRISWrite, EscalateMatchingWrite, In, WriterSteps
<1>2. /\ o \in Orders /\ held[o] \in Int /\ snap \in Row
      /\ held = [held EXCEPT ![o] = held[o]]
  BY <1>1, WriterFacts
<1>3. PICK row \in Row : /\ WholeRowWrite(p, row)
                         /\ InOrder(snap, held[o]) => InOrder(row, held[o])
  <2>1. CASE RefreshQRISWrite(p)
    BY <1>2, <2>1 DEF RefreshQRISWrite
  <2>2. CASE EscalateMatchingWrite(p)
    <3>1. [snap EXCEPT !.escalated = TRUE] \in Row
      BY <1>2 DEF Row
    <3>2. InOrder([snap EXCEPT !.escalated = TRUE], held[o])
             <=> InOrder(snap, held[o])
      BY <1>2, EscalatedIsIgnored
    <3> QED
      BY <2>2, <3>1, <3>2 DEF EscalateMatchingWrite
  <2> QED
    BY <2>1, <2>2
<1>4. held' = [held EXCEPT ![o] = held[o]]
  BY <1>2 DEF RefreshQRISWrite, EscalateMatchingWrite, money
<1> QED
  BY <1>1, <1>2, <1>3, <1>4, WriteBackKeepsOrder

LEMMA RequestAdjustmentKeepsOrder ==
    ASSUME SettlementInv, NEW p \in Procs, NEW price \in AdjustedCosts,
           RequestPriceAdjustmentWrite(p, price)
    PROVE  IntactOrders'
<1> DEFINE o == req[p].o
           snap == req[p].snap
           row == [snap EXCEPT !.adj = "pending", !.adjCost = price]
<1>1. req[p] # Idle /\ req[p].op \in AcceptSteps \cup WriterSteps
  BY DEF RequestPriceAdjustmentWrite, In, WriterSteps
<1>2. /\ o \in Orders /\ held[o] \in Int /\ snap \in Row /\ Remembers(req[p])
      /\ held = [held EXCEPT ![o] = held[o]]
  BY <1>1, WriterFacts
<1>3. row \in Row
  BY <1>2, ParametersAssumption DEF Row, Adjustments
<1>4. /\ row.shape = snap.shape /\ row.cost = snap.cost /\ row.pay = snap.pay
      /\ row.status = snap.status /\ row.runner = snap.runner
      /\ row.adj = "pending"
  BY <1>2 DEF Row
<1>5. snap.runner # NoRunner /\ snap.adj = "none"
  BY <1>2 DEF RequestPriceAdjustmentWrite, In, Remembers
<1>6. WholeRowWrite(p, row) /\ held' = [held EXCEPT ![o] = held[o]]
  BY <1>2 DEF RequestPriceAdjustmentWrite, money
<1> HIDE DEF row, snap, o
<1>7. InOrder(snap, held[o]) => InOrder(row, held[o])
  BY <1>4, <1>5 DEF InOrder, StatusAgreesWithPayment, HeldAgreesWithPayment,
     Gross
<1> QED
  BY <1>1, <1>2, <1>3, <1>6, <1>7, WriteBackKeepsOrder DEF snap, o

LEMMA ApproveAdjustmentKeepsOrder ==
    ASSUME SettlementInv, NEW p \in Procs, ApprovePriceAdjustmentCommit(p)
    PROVE  IntactOrders'
<1> DEFINE o == req[p].o
           snap == req[p].snap
           diff == IF snap.shape.method = "escrow"
                   THEN snap.adjCost - snap.cost ELSE 0
           row == [snap EXCEPT !.cost = snap.adjCost, !.adj = "accepted"]
           amount == held[o] + diff
<1>1. req[p] # Idle /\ req[p].op \in AcceptSteps \cup WriterSteps
  BY DEF ApprovePriceAdjustmentCommit, In, WriterSteps
<1>2. /\ o \in Orders /\ held[o] \in Int
      /\ snap \in Row /\ PricedUp(snap) /\ Remembers(req[p])
      /\ held = [held EXCEPT ![o] = held[o]]
  BY <1>1, WriterFacts
<1>3. row \in Row
  BY <1>2 DEF Row, Adjustments
<1>4. /\ row.shape = snap.shape /\ row.cost = snap.adjCost
      /\ row.pay = snap.pay /\ row.status = snap.status
      /\ row.runner = snap.runner /\ row.adj = "accepted"
  BY <1>2 DEF Row
<1>5. snap.adj = "pending"
  BY <1>2 DEF ApprovePriceAdjustmentCommit, In, Remembers
<1>6. /\ snap.adjCost \in Nat /\ snap.cost \in Nat /\ snap.shape.fee \in Nat
      /\ snap.shape.method \in {"escrow", "cod"}
  BY <1>2, ShapesAssumption DEF Row, Shape
<1>7. WholeRowWrite(p, row) /\ held' = [held EXCEPT ![o] = amount]
  BY DEF ApprovePriceAdjustmentCommit
<1>8. amount \in Int
  BY <1>2, <1>6
<1>9. snap.shape.method = "escrow" => amount = held[o] + snap.adjCost - snap.cost
  BY <1>2, <1>6
<1>10. snap.shape.method = "cod" => amount = held[o]
  BY <1>2
<1> HIDE DEF row, snap, o, amount
<1>11. InOrder(snap, held[o]) => InOrder(row, amount)
  <2> SUFFICES ASSUME InOrder(snap, held[o]) PROVE InOrder(row, amount)
    OBVIOUS
  <2>1. StatusAgreesWithPayment(row)
    BY <1>4, <1>5 DEF InOrder, StatusAgreesWithPayment
  <2>2. HeldAgreesWithPayment(row, amount)
    <3>1. StatusAgreesWithPayment(snap) /\ HeldAgreesWithPayment(snap, held[o])
      BY DEF InOrder
    <3>2. CASE snap.shape.method = "cod"
      BY <1>4, <1>6, <1>10, <3>1, <3>2
      DEF HeldAgreesWithPayment, StatusAgreesWithPayment, Gross
    <3>3. CASE snap.shape.method = "escrow"
      <4>1. snap.pay # "unpaid"
        BY <1>5, <3>1, <3>3 DEF StatusAgreesWithPayment
      <4>2. snap.pay = "escrow" =>
               amount + Allowance(snap.shape) = snap.adjCost + snap.shape.fee
        BY <1>2, <1>6, <1>9, <3>1, <3>3, AllowanceNatural
        DEF HeldAgreesWithPayment, Gross
      <4>3. /\ amount = held[o] + snap.adjCost - snap.cost
            /\ snap.adjCost > snap.cost
        BY <1>2, <1>5, <1>9, <3>3 DEF PricedUp
      <4>4. /\ Allowance(snap.shape) \in Nat
            /\ snap.pay \in {"released", "refunded"}
                  => held[o] + Allowance(snap.shape) = 0
        BY <1>2, <1>5, <3>1, <3>3, AllowanceNatural DEF HeldAgreesWithPayment
      <4>5. snap.pay \in {"released", "refunded"}
               => amount + Allowance(snap.shape) >= 0
        BY <1>2, <1>6, <4>3, <4>4
      <4> QED
        BY <1>4, <3>3, <4>1, <4>2, <4>5 DEF HeldAgreesWithPayment, Gross
    <3> QED
      BY <1>6, <3>2, <3>3
  <2> QED
    BY <2>1, <2>2 DEF InOrder
<1> QED
  BY <1>1, <1>2, <1>3, <1>7, <1>8, <1>11, WriteBackKeepsOrder DEF snap, o

LEMMA RejectAdjustmentKeepsOrder ==
    ASSUME SettlementInv, NEW p \in Procs,
           RejectPriceAdjustmentKeep(p) \/ RejectPriceAdjustmentCancel(p)
    PROVE  IntactOrders'
<1> DEFINE o == req[p].o
           snap == req[p].snap
<1>1. req[p] # Idle /\ req[p].op \in AcceptSteps \cup WriterSteps
  BY DEF RejectPriceAdjustmentKeep, RejectPriceAdjustmentCancel, In, WriterSteps
<1>2. /\ o \in Orders /\ held[o] \in Int
      /\ snap \in Row /\ PricedUp(snap) /\ Remembers(req[p])
      /\ held = [held EXCEPT ![o] = held[o]]
  BY <1>1, WriterFacts
<1>3. snap.adj = "pending"
  BY <1>2 DEF RejectPriceAdjustmentKeep, RejectPriceAdjustmentCancel, In,
     Remembers
<1>4. ASSUME NEW row \in Row, NEW amount \in Int, row.adj = "pending",
             InOrder(row, amount)
      PROVE  InOrder([row EXCEPT !.adj = "rejected"], amount)
  <2> DEFINE new == [row EXCEPT !.adj = "rejected"]
  <2>1. /\ new.shape = row.shape /\ new.status = row.status
        /\ new.pay = row.pay /\ new.runner = row.runner
        /\ new.cost = row.cost /\ new.adj = "rejected"
    BY DEF Row
  <2> HIDE DEF new
  <2>2. InOrder(new, amount)
    BY <1>4, <2>1 DEF InOrder, StatusAgreesWithPayment, HeldAgreesWithPayment,
       Gross
  <2> QED
    BY <2>2 DEF new
<1>5. CASE RejectPriceAdjustmentKeep(p)
  <2> DEFINE row == [snap EXCEPT !.adj = "rejected"]
  <2>1. row \in Row
    BY <1>2 DEF Row, Adjustments
  <2>2. WholeRowWrite(p, row) /\ held' = [held EXCEPT ![o] = held[o]]
    BY <1>2, <1>5 DEF RejectPriceAdjustmentKeep, money
  <2>3. InOrder(snap, held[o]) => InOrder(row, held[o])
    BY <1>2, <1>3, <1>4
  <2> QED
    BY <1>1, <1>2, <2>1, <2>2, <2>3, WriteBackKeepsOrder
<1>6. CASE RejectPriceAdjustmentCancel(p)
  <2> DEFINE gone == CancelledRow(snap)
             row == [gone EXCEPT !.adj = "rejected"]
             out == IF InEscrow(snap) THEN Gross(snap) ELSE 0
             amount == held[o] - out
             pay == IF ~InEscrow(snap) THEN NoPayout
                    ELSE IF snap.runner # NoRunner THEN PartialReleaseEscrow(snap)
                    ELSE RefundEscrow(snap)
  <2>1. gone \in Row /\ gone.adj = "pending"
    BY <1>2, <1>3 DEF CancelledRow, Row, Statuses, Payments
  <2>2. row \in Row
    BY <2>1 DEF Row, Adjustments
  <2>3. Sum(pay) = out
    BY <1>2, SettlementSums
  <2>4. WholeRowWrite(p, row)
    BY <1>6 DEF RejectPriceAdjustmentCancel
  <2>5. held' = [held EXCEPT ![o] = amount]
    <3>1. held' = [held EXCEPT ![o] = @ - Sum(pay)]
      BY <1>6 DEF RejectPriceAdjustmentCancel, SettleOnly
    <3> QED
      BY <2>3, <3>1
  <2>6. out \in Int /\ amount \in Int
    BY <1>2, ShapesAssumption DEF Row, Shape, Gross
  <2>7. InOrder(snap, held[o]) => InOrder(gone, amount)
    BY <1>2, RefundKeepsOrder
  <2> HIDE DEF gone, amount
  <2>8. InOrder(gone, amount) => InOrder(row, amount)
    BY <1>4, <2>1, <2>6
  <2> QED
    BY <1>1, <1>2, <2>2, <2>4, <2>5, <2>6, <2>7, <2>8, WriteBackKeepsOrder
<1> QED
  BY <1>5, <1>6

LEMMA CompleteKeepsOrder ==
    ASSUME SettlementInv, NEW p \in Procs, CompleteOrderCommit(p)
    PROVE  IntactOrders'
<1> DEFINE o == req[p].o
           row == order[o]
           pay == CompletionPayout(row)
           out == IF row.shape.method = "cod" THEN 0 ELSE Gross(row)
           amount == held[o] - out
           done == CompletedRow(row)
<1>1. /\ o \in Orders /\ row \in Row /\ PricedUp(row)
      /\ held \in [Orders -> Int]
  BY RequestKinds DEF CompleteOrderCommit, In, SettlementInv, TypeInv, TypeOK
<1>2. Sum(pay) = out
  BY <1>1, SettlementSums DEF CompletionPayout
<1>3. out \in Int /\ amount \in Int
  BY <1>1, ShapesAssumption DEF Row, Shape, Gross
<1>4. done \in Row
  BY <1>1 DEF CompletedRow, Row, Statuses, Payments
<1>5. held' = [held EXCEPT ![o] = amount]
  <2>1. held' = [held EXCEPT ![o] = @ - Sum(pay)]
    BY DEF CompleteOrderCommit
  <2> QED
    BY <1>2, <2>1
<1>6. /\ order' = [order EXCEPT ![o] = done] /\ UNCHANGED stale
      /\ row.status = "delivering"
  BY DEF CompleteOrderCommit, LockedWrite
<1>7. InOrder(row, held[o]) => InOrder(done, amount)
  BY <1>1, <1>6, CompletionKeepsOrder
<1>8. Exists(o)
  BY <1>1, AccountsAssumption DEF Exists
<1> HIDE DEF done, amount, o
<1> QED
  BY <1>1, <1>3, <1>4, <1>5, <1>6, <1>7, <1>8, LockedKeepsOrder

LEMMA ReassignKeepsOrder ==
    ASSUME SettlementInv, NEW p \in Procs, NEW counted \in BOOLEAN,
           ReassignOrderCommit(p, counted)
    PROVE  IntactOrders'
<1> DEFINE o == req[p].o
           row == order[o]
           freed == FreedRow(row)
<1>1. o \in Orders /\ row \in Row /\ PricedUp(row) /\ held \in [Orders -> Int]
  BY RequestKinds DEF ReassignOrderCommit, In, SettlementInv, TypeInv, TypeOK
<1>2. freed \in Row
  BY <1>1 DEF FreedRow, Row
<1>3. held' = [held EXCEPT ![o] = held[o]]
  <2>1. held' = [held EXCEPT ![o] = @ - Sum(NoPayout)]
    BY DEF ReassignOrderCommit, Settle
  <2>2. Sum(NoPayout) = 0 /\ held[o] \in Int
    BY <1>1, SettlementSums
  <2>3. held[o] - Sum(NoPayout) = held[o]
    BY <2>2
  <2> QED
    BY <2>1, <2>3
<1>4. order' = [order EXCEPT ![o] = freed] /\ UNCHANGED stale
  BY DEF ReassignOrderCommit, LockedWrite
<1>5. /\ freed.shape = row.shape /\ freed.status = row.status
      /\ freed.pay = row.pay /\ freed.runner = NoRunner
      /\ freed.cost = row.cost /\ freed.adj = row.adj
  BY <1>1 DEF FreedRow, Row
<1>6. Exists(o)
  BY <1>1, AccountsAssumption DEF Exists
<1>7. held[o] \in Int
  BY <1>1
<1> HIDE DEF freed, row, o
<1>8. InOrder(row, held[o]) => InOrder(freed, held[o])
  BY <1>5 DEF InOrder, StatusAgreesWithPayment, HeldAgreesWithPayment,
     Gross
<1> QED
  BY <1>1, <1>2, <1>3, <1>4, <1>6, <1>7, <1>8, LockedKeepsOrder DEF row

LEMMA CancelsKeepOrder ==
    ASSUME SettlementInv,
           \/ \E p \in Procs : CancelOrderCommit(p) \/ FinalCancelAfterReassignLimit(p)
           \/ \E o \in Orders : ForceCancelOrder(o) \/ AutoCancelOrder(o)
    PROVE  IntactOrders'
<1>1. ASSUME NEW p \in Procs,
             CancelOrderCommit(p) \/ FinalCancelAfterReassignLimit(p)
      PROVE  IntactOrders'
  <2> DEFINE o == req[p].o
             row == order[o]
  <2>1. o \in Orders /\ row \in Row /\ PricedUp(row)
    BY <1>1, RequestKinds
    DEF CancelOrderCommit, FinalCancelAfterReassignLimit, In, SettlementInv
  <2>2. Exists(o)
    BY <2>1, AccountsAssumption DEF Exists
  <2>3. /\ Sum(RefundEscrow(row)) = Gross(row)
        /\ Sum(PartialReleaseEscrow(row)) = Gross(row)
    BY <2>1, SettlementSums
  <2>4. PICK pay : CancelTx(o, pay) /\ Sum(pay) = Gross(row)
    BY <1>1, <2>3 DEF CancelOrderCommit, FinalCancelAfterReassignLimit
  <2> QED
    BY <2>1, <2>2, <2>4, CancelTxKeepsOrder
<1>2. ASSUME NEW o \in Orders, ForceCancelOrder(o) \/ AutoCancelOrder(o)
      PROVE  IntactOrders'
  <2>1. Exists(o) /\ CancelTx(o, RefundEscrow(order[o]))
    BY <1>2 DEF ForceCancelOrder, AutoCancelOrder, ForceCancelTx
  <2>2. order[o] \in Row /\ PricedUp(order[o])
    BY <2>1 DEF SettlementInv, TypeInv, TypeOK, PricesOnlyRise, Exists
  <2> QED
    BY <2>1, <2>2, SettlementSums, CancelTxKeepsOrder
<1> QED
  BY <1>1, <1>2

LEMMA CreateKeepsOrder ==
    ASSUME SettlementInv, NEW o \in Orders, NEW s \in Shapes, Create(o, s)
    PROVE  IntactOrders'
<1> DEFINE wallet == s.method = "escrow" /\ s.source = "wallet"
           row == NewRow(s, IF wallet THEN "escrow" ELSE "unpaid")
           amount == IF wallet THEN TotalPayment(row) ELSE 0
<1>1. row \in Row /\ PricedUp(row) /\ row.adj = "none"
  BY ShapesAssumption, AccountsAssumption
  DEF NewRow, Row, Shape, Statuses, Payments, Adjustments, PricedUp
<1>2. /\ row.shape = s /\ row.status = "pending" /\ row.runner = NoRunner
      /\ row.pay = IF wallet THEN "escrow" ELSE "unpaid"
  BY DEF NewRow
<1>3. s.method \in {"escrow", "cod"}
  BY ShapesAssumption DEF Shape
<1>4. amount \in Int
  <2>1. TotalPayment(row) \in Int
    BY ShapesAssumption
    DEF TotalPayment, NewRow, ListPrice, AtLeastZero, Shape, Gross
  <2> QED
    BY <2>1
<1>5. /\ order' = [order EXCEPT ![o] = row] /\ ~Exists(o)
      /\ held' = [held EXCEPT ![o] = @ + amount] /\ UNCHANGED stale
  BY DEF Create
<1>6. /\ order \in [Orders -> Row \cup {NoRow}] /\ held \in [Orders -> Int]
      /\ IntactOrders
  BY DEF SettlementInv, TypeInv, TypeOK
<1>7. InOrder(row, amount)
  <2>1. StatusAgreesWithPayment(row)
    BY <1>1, <1>2, <1>3 DEF StatusAgreesWithPayment
  <2>2. HeldAgreesWithPayment(row, amount)
    <3>1. wallet => amount + Allowance(row.shape) = Gross(row)
      BY <1>1, AskedPrice
    <3>2. ~wallet => amount = 0
      OBVIOUS
    <3>3. wallet => s.method = "escrow"
      OBVIOUS
    <3>4. wallet \/ ~wallet
      OBVIOUS
    <3> HIDE DEF row, amount, wallet
    <3> QED
      BY <1>2, <1>3, <3>1, <3>2, <3>3, <3>4 DEF HeldAgreesWithPayment
  <2> QED
    BY <2>1, <2>2 DEF InOrder
<1> HIDE DEF row, amount
<1>8. held'[o] = amount
  BY <1>4, <1>5, <1>6 DEF IntactOrders
<1> SUFFICES ASSUME NEW x \in Orders
             PROVE  /\ ~Exists(x)' => held'[x] = 0
                    /\ Intact(x)' => InOrder(order'[x], held'[x])
  BY DEF IntactOrders
<1>9. CASE x = o
  <2>1. order'[o] = row /\ row # NoRow
    BY <1>1, <1>5, <1>6, AccountsAssumption
  <2> QED
    BY <1>7, <1>8, <1>9, <2>1 DEF Exists
<1>10. CASE x # o
  BY <1>5, <1>6, <1>10 DEF IntactOrders, Intact, Exists
<1> QED
  BY <1>9, <1>10

LEMMA ProcessPaymentKeepsOrder ==
    ASSUME SettlementInv, NEW o \in Orders, ProcessPayment(o)
    PROVE  IntactOrders'
<1> DEFINE row == order[o]
           paid == [row EXCEPT !.pay = "escrow"]
           amount == held[o] + TotalPayment(row)
<1>1. row \in Row /\ PricedUp(row) /\ held[o] \in Int /\ Exists(o)
  BY DEF ProcessPayment, SettlementInv, TypeInv, TypeOK, PricesOnlyRise, Exists
<1>2. TotalPayment(row) \in Int
  BY <1>1, ShapesAssumption
  DEF TotalPayment, ListPrice, AtLeastZero, Gross, Row, Shape
<1>3. amount \in Int
  BY <1>1, <1>2
<1>4. paid \in Row
  BY <1>1 DEF Row, Payments
<1>5. /\ paid.shape = row.shape /\ paid.status = row.status
      /\ paid.pay = "escrow" /\ paid.runner = row.runner
      /\ paid.cost = row.cost /\ paid.adj = row.adj
  BY <1>1 DEF Row
<1>6. /\ row.pay = "unpaid" /\ row.shape.method = "escrow"
      /\ order' = [order EXCEPT ![o] = paid] /\ UNCHANGED stale
      /\ held' = [held EXCEPT ![o] = amount]
  BY DEF ProcessPayment, LockedWrite
<1>7. ASSUME InOrder(row, held[o]) PROVE InOrder(paid, amount)
  <2>1. row.adj = "none" /\ row.status \in {"pending", "cancelled", "expired"}
    BY <1>6, <1>7 DEF InOrder, StatusAgreesWithPayment
  <2>2. StatusAgreesWithPayment(paid)
    BY <1>5, <1>6, <2>1 DEF StatusAgreesWithPayment
  <2>3. HeldAgreesWithPayment(paid, amount)
    <3>1. held[o] = 0
      BY <1>6, <1>7 DEF InOrder, HeldAgreesWithPayment
    <3>2. amount + Allowance(row.shape) = Gross(row)
      BY <1>1, <1>2, <2>1, <3>1, AskedPrice
    <3> HIDE DEF paid, amount, row
    <3> QED
      BY <1>5, <1>6, <3>2 DEF HeldAgreesWithPayment, Gross
  <2> QED
    BY <2>2, <2>3 DEF InOrder
<1> HIDE DEF paid, amount
<1> QED
  BY <1>1, <1>3, <1>4, <1>6, <1>7, LockedKeepsOrder

LEMMA ResolveKeepsOrder ==
    ASSUME SettlementInv, NEW o \in Orders, NEW side, ResolveDispute(o, side)
    PROVE  IntactOrders'
<1> DEFINE row == order[o]
<1>1. /\ row \in Row /\ PricedUp(row) /\ held \in [Orders -> Int] /\ Exists(o)
      /\ row.status = "disputed"
  BY DEF ResolveDispute, SettlementInv, TypeInv, TypeOK, PricesOnlyRise, Exists
<1>2. Intact(o) => InOrder(row, held[o]) /\ row.pay = "released"
  BY <1>1 DEF SettlementInv, IntactOrders, InOrder, StatusAgreesWithPayment
<1>3. PICK new \in Row, amount \in Int :
        /\ order' = [order EXCEPT ![o] = new] /\ UNCHANGED stale
        /\ held' = [held EXCEPT ![o] = amount]
        /\ row.pay = "released" =>
              /\ new = [row EXCEPT !.status = "completed"] /\ amount = held[o]
  <2>1. Gross(row) \in Int
    BY <1>1, ShapesAssumption DEF Row, Shape, Gross
  <2>2. CASE ResolveForRequester(o)
    <3>1. [row EXCEPT !.status = "cancelled", !.pay = "refunded"] \in Row
      BY <1>1 DEF Row, Statuses, Payments
    <3>2. Sum(RefundEscrow(row)) = Gross(row)
      BY <1>1, SettlementSums
    <3>3. held' = [held EXCEPT ![o] = held[o] - Gross(row)] /\ row.pay = "escrow"
      BY <2>2, <3>2 DEF ResolveForRequester, SettleOnly
    <3>4. held[o] - Gross(row) \in Int
      BY <1>1, <2>1
    <3> QED
      BY <2>2, <3>1, <3>3, <3>4 DEF ResolveForRequester, LockedWrite
  <2>3. CASE ResolveForRunner(o)
    <3>1. [row EXCEPT !.status = "completed", !.pay = "released"] \in Row
      BY <1>1 DEF Row, Statuses, Payments
    <3>2. Sum(ReleaseEscrowWithRefund(row)) = Gross(row)
      BY <1>1, SettlementSums
    <3>3. held' = [held EXCEPT ![o] = held[o] - Gross(row)] /\ row.pay = "escrow"
      BY <2>3, <3>2 DEF ResolveForRunner, Settle
    <3>4. held[o] - Gross(row) \in Int
      BY <1>1, <2>1
    <3> QED
      BY <2>3, <3>1, <3>3, <3>4 DEF ResolveForRunner, LockedWrite
  <2>4. CASE ResolveCOD(o)
    <3>1. [row EXCEPT !.status = "completed"] \in Row
      BY <1>1 DEF Row, Statuses
    <3> QED
      BY <1>1, <2>4, <3>1 DEF ResolveCOD, LockedWrite, money
  <2> QED
    BY <2>2, <2>3, <2>4 DEF ResolveDispute
<1>4. ASSUME Intact(o) PROVE InOrder(new, amount)
  <2> DEFINE done == [row EXCEPT !.status = "completed"]
  <2>1. new = done /\ amount = held[o] /\ InOrder(row, held[o])
    BY <1>2, <1>3, <1>4
  <2>2. /\ done.shape = row.shape /\ done.status = "completed"
        /\ done.pay = row.pay /\ done.runner = row.runner
        /\ done.cost = row.cost /\ done.adj = row.adj
    BY <1>1 DEF Row
  <2> HIDE DEF done
  <2> QED
    BY <1>1, <1>2, <1>4, <2>1, <2>2 DEF InOrder, StatusAgreesWithPayment,
       HeldAgreesWithPayment, Gross
<1> QED
  BY <1>1, <1>3, <1>4, LockedKeepsOrder

LEMMA ExpireKeepsOrder ==
    ASSUME SettlementInv, NEW o \in Orders, ExpireOldOrder(o)
    PROVE  IntactOrders'
<1> DEFINE row == order[o]
           gone == [row EXCEPT !.status = "expired"]
<1>1. /\ row \in Row /\ held \in [Orders -> Int] /\ Exists(o)
      /\ row.status = "pending"
  BY DEF ExpireOldOrder, SettlementInv, TypeInv, TypeOK, Exists
<1>2. gone \in Row
  BY <1>1 DEF Row, Statuses
<1>3. /\ gone.shape = row.shape /\ gone.status = "expired"
      /\ gone.pay = row.pay /\ gone.runner = row.runner
      /\ gone.cost = row.cost /\ gone.adj = row.adj
  BY <1>1 DEF Row
<1>4. /\ order' = [order EXCEPT ![o] = gone] /\ UNCHANGED stale
      /\ held' = [held EXCEPT ![o] = held[o]] /\ held[o] \in Int
  BY <1>1 DEF ExpireOldOrder, LockedWrite, money
<1> HIDE DEF gone
<1>5. InOrder(row, held[o]) => InOrder(gone, held[o])
  BY <1>1, <1>3 DEF InOrder, StatusAgreesWithPayment, HeldAgreesWithPayment,
     Gross
<1> QED
  BY <1>1, <1>2, <1>4, <1>5, LockedKeepsOrder

LEMMA NextKeepsOrder == SettlementInv /\ [Next]_vars => IntactOrders'
<1> SUFFICES ASSUME SettlementInv, [Next]_vars PROVE IntactOrders'
  OBVIOUS
<1>1. CASE \E p \in Procs, o \in Orders : Read(p, o)
  <2>1. UNCHANGED table /\ UNCHANGED held
    BY <1>1 DEF Read, RefreshQRISRead, MerchantAcceptRead, MerchantReadyRead,
       DisputeOrderRead, ApprovePriceAdjustmentRead, RejectPriceAdjustmentRead,
       EscalateMatchingRead, CancelOrderRead, AcceptOrderRead,
       SubmitPurchaseReceiptRead, PickupOrderRead, CompleteOrderRead,
       ReassignOrderRead, RequestPriceAdjustmentRead, Load, Peek, money
  <2> QED
    BY <2>1, UntouchedKeepsOrder
<1>2. ASSUME NEW p \in Procs, Step(p) PROVE IntactOrders'
  <2>1. CASE AcceptOrderCheck(p) \/ ReassignOrderLimit(p) \/ Abort(p) \/ Crash(p)
    BY <2>1, UntouchedKeepsOrder
    DEF AcceptOrderCheck, ReassignOrderLimit, Abort, Crash, money
  <2>2. CASE \/ MerchantAcceptWrite(p) \/ MerchantReadyWrite(p)
             \/ SubmitPurchaseReceiptWrite(p) \/ PickupOrderWrite(p)
             \/ DisputeOrderWrite(p)
    BY <2>2, SetStatusKeepsOrder
  <2>3. CASE \/ RefreshQRISWrite(p) \/ EscalateMatchingWrite(p)
    BY <2>3, SameRowKeepsOrder
  <2>4. CASE \/ \E onTrip \in BOOLEAN : AcceptOrderCommit(p, onTrip)
             \/ CompleteOrderCommit(p)
             \/ \E counted \in BOOLEAN : ReassignOrderCommit(p, counted)
    BY <2>4, AcceptKeepsOrder, CompleteKeepsOrder, ReassignKeepsOrder
  <2>5. CASE CancelOrderCommit(p) \/ FinalCancelAfterReassignLimit(p)
    BY <2>5, CancelsKeepOrder
  <2>6. CASE \/ \E price \in AdjustedCosts : RequestPriceAdjustmentWrite(p, price)
             \/ ApprovePriceAdjustmentCommit(p)
             \/ RejectPriceAdjustmentKeep(p) \/ RejectPriceAdjustmentCancel(p)
    BY <2>6, RequestAdjustmentKeepsOrder, ApproveAdjustmentKeepsOrder,
       RejectAdjustmentKeepsOrder
  <2> QED
    BY <1>2, <2>1, <2>2, <2>3, <2>4, <2>5, <2>6 DEF Step
<1>3. ASSUME NEW o \in Orders, Event(o) PROVE IntactOrders'
  <2>1. CASE AutoCancelSkip(o) \/ AcceptLockExpire(o) \/ ReassignCountExpire(o)
    BY <2>1, UntouchedKeepsOrder
    DEF AutoCancelSkip, AcceptLockExpire, ReassignCountExpire, money
  <2>2. CASE ForceCancelOrder(o) \/ AutoCancelOrder(o)
    BY <2>2, CancelsKeepOrder
  <2> QED
    BY <1>3, <2>1, <2>2, CreateKeepsOrder, ProcessPaymentKeepsOrder,
       ResolveKeepsOrder, ExpireKeepsOrder DEF Event
<1>4. CASE Scan \/ UNCHANGED vars
  <2>1. UNCHANGED table /\ UNCHANGED held
    BY <1>4 DEF Scan, EscalateScan, AutoCancelScan, vars, table, money
  <2> QED
    BY <2>1, UntouchedKeepsOrder
<1> QED
  BY <1>1, <1>2, <1>3, <1>4 DEF Next

-----------------------------------------------------------------------------
(* Every step comes down to one of the moves of an order's life.           *)

\* Deposits and vouchers of every order but o are left alone.
TouchesOnly(o) == \A x \in Orders \ {o} : DepositsRest(x) /\ VoucherRests(x)

\* Two rows agree in the columns the properties look at.
SameColumns(a, b) ==
    /\ a.shape = b.shape /\ a.status = b.status /\ a.pay = b.pay
    /\ a.runner = b.runner /\ a.trip = b.trip /\ a.cost = b.cost /\ a.adj = b.adj

LEMMA LockedMoves ==
    ASSUME TypeInv, NEW o \in Orders, Exists(o), NEW row \in Row,
           LockedWrite(o, row), TouchesOnly(o), Intact(o) => Moves(o)
    PROVE  OrderMoves(o)
<1>1. /\ order \in [Orders -> Row \cup {NoRow}]
      /\ stale \in [Orders -> 0..MaxStale] /\ MaxStale \in Nat
  BY ParametersAssumption DEF TypeInv, TypeOK
<1>2. order' = [order EXCEPT ![o] = row] /\ stale' = stale
  BY DEF LockedWrite
<1>3. OthersRest(o)
  BY <1>1, <1>2 DEF OthersRest, TouchesOnly
<1>4. order'[o] # NoRow
  BY <1>1, <1>2, AccountsAssumption DEF Exists
<1>5. stale'[o] >= stale[o]
  BY <1>1, <1>2
<1> QED
  BY <1>3, <1>4, <1>5 DEF OrderMoves, IntactStep

\* Request p is about order o, whose row it keeps as snap.
Has(p, o, snap) == req[p] # Idle /\ req[p].o = o /\ req[p].snap = snap

LEMMA WriteBackMoves ==
    ASSUME TypeInv, NEW p \in Procs, NEW o \in Orders, NEW snap \in Row,
           Has(p, o, snap), NEW row \in Row, WholeRowWrite(p, row), TouchesOnly(o),
           /\ Intact(o) /\ SameColumns(snap, order[o]) /\ order'[o] = row
              => Moves(o)
    PROVE  OrderMoves(o)
<1>1. /\ order \in [Orders -> Row \cup {NoRow}]
      /\ stale \in [Orders -> 0..MaxStale] /\ MaxStale \in Nat
  BY ParametersAssumption DEF TypeInv, TypeOK
<1>2. order[o] \in Row
  BY RequestKinds DEF Has
<1>3. /\ order' = [order EXCEPT ![o] = row]
      /\ stale' = [stale EXCEPT ![o] =
                      IF Diverged(o, snap) THEN stale[o] + 1 ELSE stale[o]]
  BY DEF WholeRowWrite, Has
<1>4. order'[o] = row /\ \A x \in Orders \ {o} : order'[x] = order[x]
  BY <1>1, <1>2, <1>3
<1>5. /\ stale'[o] = IF Diverged(o, snap) THEN stale[o] + 1 ELSE stale[o]
      /\ \A x \in Orders \ {o} : stale'[x] = stale[x]
  BY <1>1, <1>2, <1>3
<1>6. stale[o] \in Nat
  BY <1>1
<1>7. stale'[o] >= stale[o]
  BY <1>5, <1>6
<1>8. OthersRest(o)
  BY <1>4, <1>5 DEF OthersRest, TouchesOnly
<1>9. Exists(o) /\ order'[o] # NoRow
  BY <1>2, <1>4, AccountsAssumption DEF Exists
<1>10. ASSUME IntactStep(o) PROVE Moves(o)
  <2>1. ~Diverged(o, snap)
    BY <1>5, <1>6, <1>10 DEF IntactStep, Intact
  <2>2. order[o] = [snap EXCEPT !.escalated = order[o].escalated]
    BY <2>1 DEF Diverged
  <2>3. SameColumns(snap, order[o])
    BY <2>2 DEF SameColumns, Row
  <2> QED
    BY <1>4, <1>10, <2>3 DEF IntactStep
<1> QED
  BY <1>7, <1>8, <1>9, <1>10 DEF OrderMoves

LEMMA EffectsTouchOnly ==
    ASSUME NEW o \in Orders, UNCHANGED <<owed, deposits, promo>>
    PROVE  TouchesOnly(o) /\ DepositsRest(o) /\ VoucherRests(o)
BY DEF TouchesOnly, DepositsRest, VoucherRests

LEMMA DepositTouchesOnly ==
    ASSUME TypeInv, NEW o \in Orders, NEW row, owed' = DepositReturned(o, row),
           UNCHANGED deposits, promo' \in {promo, promo \ {o}}
    PROVE  TouchesOnly(o)
<1>1. owed \in [Orders -> [Runners -> Int]]
  BY DEF TypeInv, TypeOK
<1>2. \A x \in Orders \ {o} : owed'[x] = owed[x]
  BY <1>1 DEF DepositReturned
<1> QED
  BY <1>2 DEF TouchesOnly, DepositsRest, VoucherRests

\* The row a request writes back with another status is the order's own.
LEMMA StatusWriteMoves ==
    ASSUME TypeInv, NEW p \in Procs, NEW o \in Orders, NEW snap \in Row,
           Has(p, o, snap), NEW status \in Statuses, SetStatus(p, status),
           <<snap.status, status>> \in StatusSteps
    PROVE  OrderMoves(o)
<1> DEFINE row == [snap EXCEPT !.status = status]
<1>1. order[o] \in Row
  BY RequestKinds DEF Has
<1>2. WholeRowWrite(p, row) /\ UNCHANGED <<owed, deposits, promo, avail>>
  BY DEF SetStatus, money, places, Has
<1>3. row \in Row
  BY DEF Row
<1>4. TouchesOnly(o) /\ EffectsRest(o)
  BY <1>1, <1>2, EffectsTouchOnly DEF EffectsRest
<1>5. ASSUME SameColumns(snap, order[o]), order'[o] = row PROVE Moves(o)
  <2>1. Becomes(o, [order[o] EXCEPT !.status = status])
    BY <1>1, <1>5 DEF Becomes, SameColumns, Row
  <2>2. <<order[o].status, status>> \in StatusSteps
    BY <1>5 DEF SameColumns
  <2>3. MovesOn(o)
    BY <1>4, <2>1, <2>2 DEF MovesOn
  <2> QED
    BY <2>3 DEF Moves
<1> HIDE DEF row
<1> QED
  BY <1>2, <1>3, <1>4, <1>5, WriteBackMoves

\* What a request knows of its order and of the row it keeps.
LEMMA RequestHas ==
    ASSUME TypeInv, NEW p \in Procs, req[p] # Idle,
           req[p].op \in AcceptSteps \cup WriterSteps
    PROVE  \E o \in Orders, snap \in Row : Has(p, o, snap)
BY RequestKinds DEF Has

LEMMA SetStatusMoves ==
    ASSUME TypeInv, NEW p \in Procs,
           \/ MerchantAcceptWrite(p) \/ MerchantReadyWrite(p)
           \/ SubmitPurchaseReceiptWrite(p) \/ PickupOrderWrite(p)
           \/ DisputeOrderWrite(p)
    PROVE  \E o \in Orders : OrderMoves(o)
<1>1. req[p] # Idle /\ req[p].op \in AcceptSteps \cup WriterSteps
  BY DEF MerchantAcceptWrite, MerchantReadyWrite, SubmitPurchaseReceiptWrite,
     PickupOrderWrite, DisputeOrderWrite, In, WriterSteps
<1>2. PICK o \in Orders, snap \in Row : Has(p, o, snap)
  BY <1>1, RequestHas
<1>3. Remembers(req[p]) /\ req[p].snap = snap
  BY <1>1, <1>2, RequestKinds DEF Sound, Has
<1>4. PICK status \in Statuses :
        SetStatus(p, status) /\ <<snap.status, status>> \in StatusSteps
  <2>1. CASE MerchantAcceptWrite(p)
    BY <1>3, <2>1 DEF MerchantAcceptWrite, In, Remembers, Statuses, StatusSteps
  <2>2. CASE MerchantReadyWrite(p)
    BY <1>3, <2>2 DEF MerchantReadyWrite, In, Remembers, Statuses, StatusSteps
  <2>3. CASE SubmitPurchaseReceiptWrite(p)
    BY <1>3, <2>3
    DEF SubmitPurchaseReceiptWrite, In, Remembers, Statuses, StatusSteps
  <2>4. CASE PickupOrderWrite(p)
    <3>1. snap.status \in {"ready", "cooking", "accepted", "purchasing"}
      <4>1. snap.status \in PickupStatuses(snap)
        BY <1>3, <2>4 DEF PickupOrderWrite, In, Remembers
      <4>2. snap.shape.kind \in {"food", "beli", "kirim"}
        BY ShapesAssumption DEF Row, Shape
      <4> QED
        BY <4>1, <4>2 DEF PickupStatuses
    <3>2. <<snap.status, "delivering">> \in StatusSteps
      BY <3>1 DEF StatusSteps
    <3> QED
      BY <2>4, <3>2 DEF PickupOrderWrite, Statuses
  <2>5. CASE DisputeOrderWrite(p)
    BY <1>3, <2>5 DEF DisputeOrderWrite, In, Remembers, Statuses, StatusSteps
  <2> QED
    BY <2>1, <2>2, <2>3, <2>4, <2>5
<1>5. OrderMoves(o)
  BY <1>2, <1>4, StatusWriteMoves
<1> QED
  BY <1>5

LEMMA SameRowMoves ==
    ASSUME TypeInv, NEW p \in Procs, RefreshQRISWrite(p) \/ EscalateMatchingWrite(p)
    PROVE  \E o \in Orders : OrderMoves(o)
<1>1. req[p] # Idle /\ req[p].op \in AcceptSteps \cup WriterSteps
  BY DEF RefreshQRISWrite, EscalateMatchingWrite, In, WriterSteps
<1>2. PICK o \in Orders, snap \in Row : Has(p, o, snap)
  BY <1>1, RequestHas
<1>3. PICK row \in Row : WholeRowWrite(p, row) /\ SameColumns(row, snap)
  <2>1. CASE RefreshQRISWrite(p)
    BY <1>2, <2>1 DEF RefreshQRISWrite, SameColumns, Has
  <2>2. CASE EscalateMatchingWrite(p)
    <3> DEFINE row == [snap EXCEPT !.escalated = TRUE]
    <3>1. row \in Row /\ SameColumns(row, snap)
      BY DEF Row, SameColumns
    <3>2. WholeRowWrite(p, row)
      BY <1>2, <2>2 DEF EscalateMatchingWrite, Has
    <3> HIDE DEF row
    <3> QED
      BY <3>1, <3>2
  <2> QED
    BY <2>1, <2>2
<1>4. UNCHANGED <<owed, deposits, promo, avail>>
  BY DEF RefreshQRISWrite, EscalateMatchingWrite, money, places
<1>5. TouchesOnly(o) /\ EffectsRest(o)
  BY <1>4, EffectsTouchOnly DEF EffectsRest
<1>6. ASSUME SameColumns(snap, order[o]), order'[o] = row PROVE Moves(o)
  BY <1>3, <1>5, <1>6 DEF SameColumns, Becomes, Rests, Moves
<1>7. OrderMoves(o)
  BY <1>2, <1>3, <1>5, <1>6, WriteBackMoves
<1> QED
  BY <1>7

LEMMA AcceptMoves ==
    ASSUME TypeInv, NEW p \in Procs, NEW onTrip \in BOOLEAN,
           AcceptOrderCommit(p, onTrip)
    PROVE  \E o \in Orders : OrderMoves(o)
<1>1. req[p] # Idle /\ req[p].op \in AcceptSteps
  BY DEF AcceptOrderCommit, In, AcceptSteps
<1>2. PICK o \in Orders, snap \in Row : Has(p, o, snap)
  BY <1>1, RequestHas
<1>3. PICK r \in Runners : req[p].by = r
  BY <1>1, RequestKinds
<1>4. Acceptable(snap)
  BY <1>1, <1>2, RequestKinds DEF Sound, Remembers, Has
<1> DEFINE deposit == LiabilityHold(o, r, snap)
           row == [snap EXCEPT !.runner = r, !.status = AcceptedStatus(snap),
                               !.trip = IF onTrip THEN r ELSE @]
<1>5. /\ WholeRowWrite(p, row)
      /\ owed' = [owed EXCEPT ![o][r] = @ + deposit]
      /\ deposits' = IF deposit > 0
                     THEN [deposits EXCEPT ![o] = @ \cup {r}] ELSE deposits
      /\ avail' = IF onTrip THEN [avail EXCEPT ![r] = @ - 1] ELSE avail
      /\ promo' = promo
  BY <1>2, <1>3 DEF AcceptOrderCommit, Has
<1>6. /\ owed \in [Orders -> [Runners -> Int]]
      /\ deposits \in [Orders -> SUBSET Runners]
      /\ order[o] \in Row
  BY <1>1, <1>2, RequestKinds DEF TypeInv, TypeOK, Has
<1>7. TouchesOnly(o)
  BY <1>5, <1>6 DEF TouchesOnly, DepositsRest, VoucherRests
<1>8. row \in Row
  <2>1. AcceptedStatus(snap) \in Statuses
    BY <1>4 DEF Acceptable, AcceptedStatus, Statuses
  <2> QED
    BY <2>1 DEF Row
<1>9. deposits'[o] \subseteq deposits[o] \cup ({r} \cap Unverified)
  <2>1. deposit > 0 => r \in Unverified
    BY DEF LiabilityHold
  <2> QED
    BY <1>5, <1>6, <2>1
<1>10. ASSUME SameColumns(snap, order[o]), order'[o] = row PROVE Moves(o)
  <2>1. /\ Acceptable(order[o])
        /\ AcceptedStatus(order[o]) = AcceptedStatus(snap)
        /\ LiabilityHold(o, r, order[o]) = deposit
    BY <1>4, <1>10
    DEF SameColumns, Acceptable, AcceptedStatus, LiabilityHold, Food
  <2>2. Becomes(o, [order[o] EXCEPT !.runner = r,
                       !.status = AcceptedStatus(order[o]),
                       !.trip = IF onTrip THEN r ELSE @])
    BY <1>6, <1>10, <2>1 DEF Becomes, SameColumns, Row
  <2>3. VoucherRests(o)
    BY <1>5 DEF VoucherRests
  <2> HIDE DEF row, deposit
  <2>4. IsTaken(o)
    BY <1>5, <1>9, <2>1, <2>2, <2>3 DEF IsTaken
  <2> QED
    BY <2>4 DEF Moves
<1> HIDE DEF row, deposit
<1>11. OrderMoves(o)
  BY <1>2, <1>5, <1>7, <1>8, <1>10, WriteBackMoves
<1> QED
  BY <1>11

LEMMA AdjustmentMoves ==
    ASSUME TypeInv, NEW p \in Procs,
           \/ \E price \in AdjustedCosts : RequestPriceAdjustmentWrite(p, price)
           \/ ApprovePriceAdjustmentCommit(p)
           \/ RejectPriceAdjustmentKeep(p)
           \/ RejectPriceAdjustmentCancel(p)
    PROVE  \E o \in Orders : OrderMoves(o)
<1>1. req[p] # Idle /\ req[p].op \in AcceptSteps \cup WriterSteps
  BY DEF RequestPriceAdjustmentWrite, ApprovePriceAdjustmentCommit,
     RejectPriceAdjustmentKeep, RejectPriceAdjustmentCancel, In, WriterSteps
<1>2. PICK o \in Orders, snap \in Row : Has(p, o, snap)
  BY <1>1, RequestHas
<1>3. /\ Remembers(req[p]) /\ req[p].snap = snap /\ req[p].o = o
      /\ order[o] \in Row
  BY <1>1, <1>2, RequestKinds DEF Sound, Has
<1>4. UNCHANGED <<owed, deposits, promo>>
  BY DEF RequestPriceAdjustmentWrite, ApprovePriceAdjustmentCommit,
     RejectPriceAdjustmentKeep, RejectPriceAdjustmentCancel, SettleOnly,
     money, places
<1>5. TouchesOnly(o) /\ DepositsRest(o) /\ VoucherRests(o)
  BY <1>4, EffectsTouchOnly
<1> SUFFICES OrderMoves(o)
  OBVIOUS
<1>6. ASSUME NEW price \in AdjustedCosts, RequestPriceAdjustmentWrite(p, price)
      PROVE  OrderMoves(o)
  <2> DEFINE row == [snap EXCEPT !.adj = "pending", !.adjCost = price]
  <2>1. WholeRowWrite(p, row) /\ UNCHANGED avail
    BY <1>3, <1>6 DEF RequestPriceAdjustmentWrite, places
  <2>2. row \in Row
    BY ParametersAssumption DEF Row, Adjustments
  <2>3. snap.status \in {"accepted", "purchasing"} /\ snap.adj = "none"
    BY <1>3, <1>6 DEF RequestPriceAdjustmentWrite, In, Remembers
  <2>4. ASSUME SameColumns(snap, order[o]), order'[o] = row PROVE Moves(o)
    <3>1. Becomes(o, [order[o] EXCEPT !.adj = "pending"])
      BY <1>3, <2>4 DEF Becomes, SameColumns, Row
    <3>2. AdjustmentAsked(o)
      BY <1>5, <2>1, <2>3, <2>4, <3>1
      DEF AdjustmentAsked, EffectsRest, SameColumns
    <3> QED
      BY <3>2 DEF Moves
  <2> HIDE DEF row
  <2> QED
    BY <1>2, <1>5, <2>1, <2>2, <2>4, WriteBackMoves
<1>7. CASE ApprovePriceAdjustmentCommit(p)
  <2> DEFINE row == [snap EXCEPT !.cost = snap.adjCost, !.adj = "accepted"]
  <2>1. WholeRowWrite(p, row) /\ UNCHANGED avail
    BY <1>3, <1>7 DEF ApprovePriceAdjustmentCommit, places
  <2>2. row \in Row
    BY DEF Row, Adjustments
  <2>3. snap.adj = "pending"
    BY <1>3, <1>7 DEF ApprovePriceAdjustmentCommit, In, Remembers
  <2>4. ASSUME SameColumns(snap, order[o]), order'[o] = row PROVE Moves(o)
    <3>1. Becomes(o, [order[o] EXCEPT !.adj = "accepted", !.cost = order'[o].cost])
      BY <1>3, <2>4 DEF Becomes, SameColumns, Row
    <3>2. AdjustmentAnswered(o)
      BY <1>5, <2>1, <2>3, <2>4, <3>1
      DEF AdjustmentAnswered, EffectsRest, SameColumns
    <3> QED
      BY <3>2 DEF Moves
  <2> HIDE DEF row
  <2> QED
    BY <1>2, <1>5, <2>1, <2>2, <2>4, WriteBackMoves
<1>8. CASE RejectPriceAdjustmentKeep(p)
  <2> DEFINE row == [snap EXCEPT !.adj = "rejected"]
  <2>1. WholeRowWrite(p, row) /\ UNCHANGED avail
    BY <1>3, <1>8 DEF RejectPriceAdjustmentKeep, places
  <2>2. row \in Row
    BY DEF Row, Adjustments
  <2>3. snap.adj = "pending"
    BY <1>3, <1>8 DEF RejectPriceAdjustmentKeep, In, Remembers
  <2>4. ASSUME SameColumns(snap, order[o]), order'[o] = row PROVE Moves(o)
    <3>1. Becomes(o, [order[o] EXCEPT !.adj = "rejected"])
      BY <1>3, <2>4 DEF Becomes, SameColumns, Row
    <3>2. AdjustmentAnswered(o)
      BY <1>5, <2>1, <2>3, <2>4, <3>1
      DEF AdjustmentAnswered, EffectsRest, SameColumns
    <3> QED
      BY <3>2 DEF Moves
  <2> HIDE DEF row
  <2> QED
    BY <1>2, <1>5, <2>1, <2>2, <2>4, WriteBackMoves
<1>9. CASE RejectPriceAdjustmentCancel(p)
  <2> DEFINE row == [CancelledRow(snap) EXCEPT !.adj = "rejected"]
  <2>1. WholeRowWrite(p, row)
    BY <1>3, <1>9 DEF RejectPriceAdjustmentCancel
  <2>2. row \in Row
    BY DEF Row, CancelledRow, Adjustments, Payments, Statuses
  <2>3. snap.adj = "pending"
    BY <1>3, <1>9 DEF RejectPriceAdjustmentCancel, In, Remembers
  <2>4. ASSUME SameColumns(snap, order[o]), order'[o] = row PROVE Moves(o)
    <3>1. InEscrow(snap) <=> InEscrow(order[o])
      BY <2>4 DEF SameColumns, InEscrow
    <3>2. Becomes(o, [CancelledRow(order[o]) EXCEPT !.adj = "rejected"])
      BY <1>3, <2>4, <3>1 DEF Becomes, SameColumns, Row, CancelledRow
    <3>3. CancelledOverPrice(o)
      BY <1>5, <2>3, <2>4, <3>2 DEF CancelledOverPrice, SameColumns
    <3> QED
      BY <3>3 DEF Moves
  <2> HIDE DEF row
  <2> QED
    BY <1>2, <1>5, <2>1, <2>2, <2>4, WriteBackMoves
<1>10. (\E price \in AdjustedCosts : RequestPriceAdjustmentWrite(p, price))
           => OrderMoves(o)
  BY <1>6
<1> QED
  BY <1>7, <1>8, <1>9, <1>10

LEMMA CompletionMoves ==
    ASSUME TypeInv, NEW p \in Procs, CompleteOrderCommit(p)
    PROVE  \E o \in Orders : OrderMoves(o)
<1>1. req[p] # Idle
  BY DEF CompleteOrderCommit, In
<1>2. PICK o \in Orders : req[p].o = o /\ order[o] \in Row
  BY <1>1, RequestKinds
<1> DEFINE row == CompletedRow(order[o])
<1>3. /\ order[o].status = "delivering"
      /\ LockedWrite(o, row)
      /\ owed' = DepositReturned(o, order[o])
      /\ UNCHANGED <<deposits, avail, promo>>
  BY <1>2 DEF CompleteOrderCommit, places
<1>4. row \in Row
  BY <1>2 DEF Row, CompletedRow, Statuses, Payments
<1>5. TouchesOnly(o)
  BY <1>3, DepositTouchesOnly
<1>6. Becomes(o, row)
  <2>1. order'[o] = row
    BY <1>2, <1>3 DEF LockedWrite, TypeInv, TypeOK
  <2> HIDE DEF row
  <2> QED
    BY <2>1 DEF Becomes
<1>7. IsCompleted(o)
  BY <1>3, <1>6 DEF IsCompleted, DepositMovesBack, VoucherRests
<1>8. Exists(o)
  BY <1>2, AccountsAssumption DEF Exists
<1> HIDE DEF row
<1>9. OrderMoves(o)
  BY <1>3, <1>4, <1>5, <1>7, <1>8, LockedMoves DEF Moves
<1> QED
  BY <1>9

\* A transaction that cancels the row it has locked.
LEMMA CancelTxMoves ==
    ASSUME TypeInv, NEW o \in Orders, Exists(o), NEW pay, CancelTx(o, pay),
           Intact(o) => order[o].status \notin {"completed", "cancelled", "expired"}
    PROVE  OrderMoves(o)
<1> DEFINE row == CancelledRow(order[o])
<1>1. order[o] \in Row
  BY DEF Exists, TypeInv, TypeOK
<1>2. /\ LockedWrite(o, row)
      /\ owed' = DepositReturned(o, order[o])
      /\ avail' = RestoreCapacity(order[o])
      /\ promo' = promo \ {o}
      /\ UNCHANGED deposits
  BY DEF CancelTx, Settle
<1>3. row \in Row
  BY <1>1 DEF Row, CancelledRow, Statuses, Payments
<1>4. TouchesOnly(o)
  BY <1>2, DepositTouchesOnly
<1>5. Becomes(o, row)
  <2>1. order'[o] = row
    BY <1>2 DEF LockedWrite, TypeInv, TypeOK
  <2> HIDE DEF row
  <2> QED
    BY <2>1 DEF Becomes
<1>6. Intact(o) => IsCancelled(o)
  BY <1>2, <1>5 DEF IsCancelled, DepositMovesBack
<1> HIDE DEF row
<1> QED
  BY <1>2, <1>3, <1>4, <1>6, LockedMoves DEF Moves

LEMMA CancelsMove ==
    ASSUME TypeInv, RunnersHadTaken,
           \/ \E p \in Procs :
                 CancelOrderCommit(p) \/ FinalCancelAfterReassignLimit(p)
           \/ \E o \in Orders : ForceCancelOrder(o) \/ AutoCancelOrder(o)
    PROVE  \E o \in Orders : OrderMoves(o)
<1>1. ASSUME NEW p \in Procs,
             CancelOrderCommit(p) \/ FinalCancelAfterReassignLimit(p)
      PROVE  \E o \in Orders : OrderMoves(o)
  <2>1. req[p] # Idle
    BY <1>1 DEF CancelOrderCommit, FinalCancelAfterReassignLimit, In
  <2>2. PICK o \in Orders : req[p].o = o /\ order[o] \in Row
    BY <2>1, RequestKinds
  <2>3. PICK pay : CancelTx(o, pay)
    BY <1>1, <2>2 DEF CancelOrderCommit, FinalCancelAfterReassignLimit
  <2>4. Intact(o) => order[o].status \notin {"completed", "cancelled", "expired"}
    <3>1. CASE CancelOrderCommit(p)
      BY <2>2, <3>1 DEF CancelOrderCommit
    <3>2. CASE FinalCancelAfterReassignLimit(p)
      BY <2>1, <2>2, <3>2 DEF FinalCancelAfterReassignLimit, RunnersHadTaken,
         In, RunnerSteps, Untaken
    <3> QED
      BY <1>1, <3>1, <3>2
  <2>5. Exists(o)
    BY <2>2, AccountsAssumption DEF Exists
  <2>6. OrderMoves(o)
    BY <2>3, <2>4, <2>5, CancelTxMoves
  <2> QED
    BY <2>6
<1>2. ASSUME NEW o \in Orders, ForceCancelOrder(o) \/ AutoCancelOrder(o)
      PROVE  \E x \in Orders : OrderMoves(x)
  <2>1. ForceCancelTx(o)
    BY <1>2 DEF ForceCancelOrder, AutoCancelOrder
  <2>2. OrderMoves(o)
    BY <2>1, CancelTxMoves DEF ForceCancelTx
  <2> QED
    BY <2>2
<1> QED
  BY <1>1, <1>2

LEMMA ReassignMoves ==
    ASSUME TypeInv, RunnersHadTaken, NEW p \in Procs, NEW counted \in BOOLEAN,
           ReassignOrderCommit(p, counted)
    PROVE  \E o \in Orders : OrderMoves(o)
<1>1. req[p] # Idle
  BY DEF ReassignOrderCommit, In
<1>2. PICK o \in Orders : req[p].o = o /\ order[o] \in Row
  BY <1>1, RequestKinds
<1> DEFINE row == FreedRow(order[o])
<1>3. /\ order[o].status \notin {"completed", "cancelled"}
      /\ LockedWrite(o, row)
      /\ owed' = DepositReturned(o, order[o])
      /\ avail' = RestoreCapacity(order[o])
      /\ UNCHANGED <<deposits, promo>>
  BY <1>2 DEF ReassignOrderCommit, Settle
<1>4. row \in Row
  BY <1>2 DEF Row, FreedRow
<1>5. TouchesOnly(o)
  BY <1>3, DepositTouchesOnly
<1>6. Becomes(o, row)
  <2>1. order'[o] = row
    BY <1>2, <1>3 DEF LockedWrite, TypeInv, TypeOK
  <2> HIDE DEF row
  <2> QED
    BY <2>1 DEF Becomes
<1>7. Intact(o) => order[o].status \notin Untaken
  BY <1>1, <1>2 DEF RunnersHadTaken, ReassignOrderCommit, In, RunnerSteps
<1>8. Intact(o) => IsGivenBack(o)
  BY <1>3, <1>6, <1>7 DEF IsGivenBack, DepositMovesBack, VoucherRests
<1>9. Exists(o)
  BY <1>2, AccountsAssumption DEF Exists
<1> HIDE DEF row
<1>10. OrderMoves(o)
  BY <1>3, <1>4, <1>5, <1>8, <1>9, LockedMoves DEF Moves
<1> QED
  BY <1>10

LEMMA EventMoves ==
    ASSUME SettlementInv, NEW o \in Orders,
           \/ ProcessPayment(o)
           \/ ExpireOldOrder(o)
           \/ \E side \in {"requester", "runner"} : ResolveDispute(o, side)
    PROVE  OrderMoves(o)
<1>1. TypeInv /\ Exists(o)
  BY DEF SettlementInv, ProcessPayment, ExpireOldOrder, ResolveDispute
<1>2. order \in [Orders -> Row \cup {NoRow}] /\ order[o] \in Row
  BY <1>1 DEF Exists, TypeInv, TypeOK
<1>3. CASE ProcessPayment(o)
  <2> DEFINE row == [order[o] EXCEPT !.pay = "escrow"]
  <2>1. LockedWrite(o, row) /\ UNCHANGED <<owed, deposits, avail, promo>>
    BY <1>3 DEF ProcessPayment, places
  <2>2. row \in Row
    BY <1>2 DEF Row, Payments
  <2>3. TouchesOnly(o) /\ EffectsRest(o)
    BY <2>1, EffectsTouchOnly DEF EffectsRest
  <2>4. Becomes(o, row)
    <3>1. order'[o] = row
      BY <1>2, <2>1 DEF LockedWrite
    <3> HIDE DEF row
    <3> QED
      BY <3>1 DEF Becomes
  <2>5. IsPaid(o)
    BY <1>3, <2>3, <2>4 DEF IsPaid, ProcessPayment
  <2> HIDE DEF row
  <2> QED
    BY <1>1, <2>1, <2>2, <2>3, <2>5, LockedMoves DEF Moves
<1>4. ASSUME NEW s \in Statuses, <<order[o].status, s>> \in StatusSteps,
             LockedWrite(o, [order[o] EXCEPT !.status = s]),
             UNCHANGED <<owed, deposits, avail, promo>>
      PROVE  OrderMoves(o)
  <2> DEFINE row == [order[o] EXCEPT !.status = s]
  <2>1. row \in Row
    BY <1>2 DEF Row
  <2>2. TouchesOnly(o) /\ EffectsRest(o)
    BY <1>4, EffectsTouchOnly DEF EffectsRest
  <2>3. Becomes(o, row)
    <3>1. order'[o] = row
      BY <1>2, <1>4 DEF LockedWrite
    <3> HIDE DEF row
    <3> QED
      BY <3>1 DEF Becomes
  <2>4. MovesOn(o)
    BY <1>4, <2>2, <2>3 DEF MovesOn
  <2> HIDE DEF row
  <2>5. LockedWrite(o, row)
    BY <1>4 DEF row
  <2> QED
    BY <1>1, <2>1, <2>2, <2>4, <2>5, LockedMoves DEF Moves
<1>5. CASE ExpireOldOrder(o)
  <2>1. /\ order[o].status = "pending"
        /\ LockedWrite(o, [order[o] EXCEPT !.status = "expired"])
        /\ UNCHANGED <<owed, deposits, avail, promo>>
    BY <1>5 DEF ExpireOldOrder, money, places
  <2>2. "expired" \in Statuses /\ <<order[o].status, "expired">> \in StatusSteps
    BY <2>1 DEF Statuses, StatusSteps
  <2> QED
    BY <1>4, <2>1, <2>2
<1>6. ASSUME NEW side \in {"requester", "runner"}, ResolveDispute(o, side)
      PROVE  OrderMoves(o)
  <2>1. order[o].status = "disputed" /\ promo' = promo
    BY <1>6 DEF ResolveDispute
  <2>2. CASE ResolveCOD(o)
    <3>1. order[o].status = "disputed"
      BY <1>6 DEF ResolveDispute
    <3>2. "completed" \in Statuses /\ <<order[o].status, "completed">> \in StatusSteps
      BY <3>1 DEF Statuses, StatusSteps
    <3>3. UNCHANGED <<owed, deposits, avail, promo>>
      BY <2>1, <2>2 DEF ResolveCOD, money
    <3>4. order[o].pay \in Payments
      BY <1>2 DEF Row
    <3>5. LockedWrite(o, [order[o] EXCEPT !.status = "completed"])
      BY <2>2 DEF ResolveCOD
    <3> QED
      BY <1>4, <3>2, <3>3, <3>5
  <2>3. CASE ResolveForRequester(o) \/ ResolveForRunner(o)
    <3>1. ~Intact(o)
      <4>1. order[o].pay = "escrow"
        BY <2>3 DEF ResolveForRequester, ResolveForRunner
      <4> QED
        BY <2>1, <4>1 DEF SettlementInv, IntactOrders, InOrder,
           StatusAgreesWithPayment
    <3>2. TouchesOnly(o)
      <4>1. CASE ResolveForRequester(o)
        BY <2>1, <4>1, EffectsTouchOnly DEF ResolveForRequester, SettleOnly
      <4>2. CASE ResolveForRunner(o)
        BY <1>1, <2>1, <4>2, DepositTouchesOnly DEF ResolveForRunner, Settle
      <4> QED
        BY <2>3, <4>1, <4>2
    <3>3. PICK row \in Row : LockedWrite(o, row)
      <4>1. CASE ResolveForRequester(o)
        <5>1. [order[o] EXCEPT !.status = "cancelled", !.pay = "refunded"] \in Row
          BY <1>2 DEF Row, Statuses, Payments
        <5> QED
          BY <4>1, <5>1 DEF ResolveForRequester
      <4>2. CASE ResolveForRunner(o)
        <5>1. [order[o] EXCEPT !.status = "completed", !.pay = "released"] \in Row
          BY <1>2 DEF Row, Statuses, Payments
        <5> QED
          BY <4>2, <5>1 DEF ResolveForRunner
      <4> QED
        BY <2>3, <4>1, <4>2
    <3> QED
      BY <1>1, <3>1, <3>2, <3>3, LockedMoves
  <2> QED
    BY <1>6, <2>2, <2>3 DEF ResolveDispute
<1> QED
  BY <1>3, <1>5, <1>6

LEMMA CreateMoves ==
    ASSUME SettlementInv, VouchersHaveOrders, NEW o \in Orders, NEW s \in Shapes,
           Create(o, s)
    PROVE  IsCreated(o)
<1>1. order \in [Orders -> Row \cup {NoRow}]
  BY DEF SettlementInv, TypeInv, TypeOK
<1>2. PICK pay \in Payments : order' = [order EXCEPT ![o] = NewRow(s, pay)]
  BY DEF Create, Payments
<1>3. /\ order'[o] = NewRow(s, pay)
      /\ \A x \in Orders \ {o} : order'[x] = order[x]
  BY <1>1, <1>2
<1>4. /\ ~Exists(o)
      /\ promo' = IF s.discount > 0 THEN promo \cup {o} ELSE promo
      /\ UNCHANGED <<deposits, owed, avail, req, stale>>
  BY DEF Create
<1>5. OthersRest(o)
  BY <1>3, <1>4 DEF OthersRest, DepositsRest, VoucherRests
<1>6. order'[o].shape = s
  BY <1>3 DEF NewRow
<1> QED
  BY <1>3, <1>4, <1>5, <1>6 DEF IsCreated, DepositsRest, VouchersHaveOrders

\* Every step does nothing to the orders' lives, or creates one, or moves one.
LEMMA NextMoves ==
    ASSUME SettlementInv, RunnersHadTaken, VouchersHaveOrders, [Next]_vars
    PROVE  LifeStep
<1>1. TypeInv
  BY DEF SettlementInv
<1>2. CASE \/ \E p \in Procs, o \in Orders : Read(p, o)
           \/ Scan
           \/ UNCHANGED vars
  <2>1. UNCHANGED <<table, money, places>>
    BY <1>2 DEF Read, RefreshQRISRead, MerchantAcceptRead, MerchantReadyRead,
       DisputeOrderRead, ApprovePriceAdjustmentRead, RejectPriceAdjustmentRead,
       EscalateMatchingRead, CancelOrderRead, AcceptOrderRead,
       SubmitPurchaseReceiptRead, PickupOrderRead, CompleteOrderRead,
       ReassignOrderRead, RequestPriceAdjustmentRead, Load, Peek, Scan,
       EscalateScan, AutoCancelScan, vars, table, money, places
  <2> QED
    BY <2>1 DEF LifeStep, table, money, places
<1>3. ASSUME NEW p \in Procs, Step(p) PROVE LifeStep
  <2>1. CASE AcceptOrderCheck(p) \/ ReassignOrderLimit(p) \/ Abort(p) \/ Crash(p)
    BY <2>1 DEF AcceptOrderCheck, ReassignOrderLimit, Abort, Crash, LifeStep,
       table, money, places
  <2>2. CASE \/ MerchantAcceptWrite(p) \/ MerchantReadyWrite(p)
             \/ SubmitPurchaseReceiptWrite(p) \/ PickupOrderWrite(p)
             \/ DisputeOrderWrite(p)
    BY <1>1, <2>2, SetStatusMoves DEF LifeStep
  <2>3. CASE RefreshQRISWrite(p) \/ EscalateMatchingWrite(p)
    BY <1>1, <2>3, SameRowMoves DEF LifeStep
  <2>4. CASE \/ \E onTrip \in BOOLEAN : AcceptOrderCommit(p, onTrip)
             \/ CompleteOrderCommit(p)
             \/ \E counted \in BOOLEAN : ReassignOrderCommit(p, counted)
    BY <1>1, <2>4, AcceptMoves, CompletionMoves, ReassignMoves DEF LifeStep
  <2>5. CASE CancelOrderCommit(p) \/ FinalCancelAfterReassignLimit(p)
    BY <1>1, <2>5, CancelsMove DEF LifeStep
  <2>6. CASE \/ \E price \in AdjustedCosts : RequestPriceAdjustmentWrite(p, price)
             \/ ApprovePriceAdjustmentCommit(p)
             \/ RejectPriceAdjustmentKeep(p)
             \/ RejectPriceAdjustmentCancel(p)
    BY <1>1, <2>6, AdjustmentMoves DEF LifeStep
  <2> QED
    BY <1>3, <2>1, <2>2, <2>3, <2>4, <2>5, <2>6 DEF Step
<1>4. ASSUME NEW o \in Orders, Event(o) PROVE LifeStep
  <2>1. CASE AutoCancelSkip(o) \/ AcceptLockExpire(o) \/ ReassignCountExpire(o)
    BY <2>1 DEF AutoCancelSkip, AcceptLockExpire, ReassignCountExpire, LifeStep,
       table, money, places
  <2>2. CASE ForceCancelOrder(o) \/ AutoCancelOrder(o)
    BY <1>1, <2>2, CancelsMove DEF LifeStep
  <2>3. CASE \E s \in Shapes : Create(o, s)
    BY <2>3, CreateMoves DEF LifeStep
  <2>4. CASE \/ ProcessPayment(o)
             \/ ExpireOldOrder(o)
             \/ \E side \in {"requester", "runner"} : ResolveDispute(o, side)
    BY <2>4, EventMoves DEF LifeStep
  <2> QED
    BY <1>4, <2>1, <2>2, <2>3, <2>4 DEF Event
<1> QED
  BY <1>2, <1>3, <1>4 DEF Next

\* A runner's request starts at an order that has a runner, and stays with it.
RunnerAsks(q) ==
    req'[q] # Idle /\ req'[q].op \in RunnerSteps =>
        \/ /\ req[q] # Idle /\ req[q].op \in RunnerSteps
           /\ req'[q].o = req[q].o
        \/ /\ Exists(req'[q].o) /\ order[req'[q].o].runner \in Runners
           /\ UNCHANGED <<order, stale>>

LEMMA RunnersAsk ==
    ASSUME TypeInv, [Next]_vars, NEW q \in Procs
    PROVE  RunnerAsks(q)
<1>1. req \in [Procs -> Request \cup {Idle}]
  BY DEF TypeInv, TypeOK
<1>2. ASSUME NEW p \in Procs, NEW op, NEW o \in Orders, NEW r, NEW snap,
             Arrive(p, op, o, r, snap), UNCHANGED <<order, stale>>,
             op \in RunnerSteps => order[o].runner \in Runners
      PROVE  RunnerAsks(q)
  BY <1>1, <1>2 DEF RunnerAsks, Arrive
<1>3. ASSUME NEW p \in Procs, Finish(p) PROVE RunnerAsks(q)
  BY <1>1, <1>3 DEF RunnerAsks, Finish
<1>4. ASSUME NEW p \in Procs, NEW o \in Orders, Read(p, o) PROVE RunnerAsks(q)
  <2>1. CASE \E r \in Runners : CompleteOrderRead(p, o, r) \/ ReassignOrderRead(p, o, r)
    BY <1>2, <2>1 DEF CompleteOrderRead, ReassignOrderRead, Peek, table
  <2>2. CASE \E u \in Accounts : CancelOrderRead(p, o, u)
    BY <1>2, <2>2 DEF CancelOrderRead, Peek, table, RunnerSteps
  <2>3. CASE EscalateMatchingRead(p, o) \/ \E r \in Runners : AcceptOrderRead(p, o, r)
    BY <1>2, <2>3 DEF EscalateMatchingRead, AcceptOrderRead, table, RunnerSteps
  <2>4. CASE \/ RefreshQRISRead(p, o) \/ MerchantAcceptRead(p, o)
             \/ MerchantReadyRead(p, o) \/ DisputeOrderRead(p, o)
             \/ ApprovePriceAdjustmentRead(p, o) \/ RejectPriceAdjustmentRead(p, o)
             \/ \E r \in Runners :
                   \/ SubmitPurchaseReceiptRead(p, o, r) \/ PickupOrderRead(p, o, r)
                   \/ RequestPriceAdjustmentRead(p, o, r)
    <3>1. PICK op : Load(p, op, o) /\ op \notin RunnerSteps
      BY <2>4 DEF RefreshQRISRead, MerchantAcceptRead, MerchantReadyRead,
         DisputeOrderRead, ApprovePriceAdjustmentRead, RejectPriceAdjustmentRead,
         SubmitPurchaseReceiptRead, PickupOrderRead, RequestPriceAdjustmentRead,
         RunnerSteps
    <3> QED
      BY <1>2, <3>1 DEF Load, table
  <2> QED
    BY <1>4, <2>1, <2>2, <2>3, <2>4 DEF Read
<1>5. ASSUME NEW p \in Procs, Step(p) PROVE RunnerAsks(q)
  <2>1. CASE AcceptOrderCheck(p)
    BY <1>1, <2>1 DEF AcceptOrderCheck, Advance, RunnerAsks, In, RunnerSteps
  <2>2. CASE ReassignOrderLimit(p)
    BY <1>1, <2>2 DEF ReassignOrderLimit, Advance, RunnerAsks, In, RunnerSteps
  <2>3. CASE ~AcceptOrderCheck(p) /\ ~ReassignOrderLimit(p)
    <3>1. Finish(p)
      BY <1>5, <2>3 DEF Step, AcceptOrderCommit, RefreshQRISWrite,
         MerchantAcceptWrite, MerchantReadyWrite, SubmitPurchaseReceiptWrite,
         PickupOrderWrite, CompleteOrderCommit, CancelOrderCommit,
         ReassignOrderCommit, FinalCancelAfterReassignLimit, DisputeOrderWrite,
         RequestPriceAdjustmentWrite, ApprovePriceAdjustmentCommit,
         RejectPriceAdjustmentKeep, RejectPriceAdjustmentCancel,
         EscalateMatchingWrite, Abort, Crash, SetStatus, WholeRowWrite
    <3> QED
      BY <1>3, <3>1
  <2> QED
    BY <2>1, <2>2, <2>3
<1>6. ASSUME UNCHANGED req PROVE RunnerAsks(q)
  BY <1>6 DEF RunnerAsks
<1>7. ASSUME NEW o \in Orders, Event(o) PROVE UNCHANGED req
  BY <1>7 DEF Event, Create, ProcessPayment, ForceCancelOrder, ResolveDispute,
     AutoCancelOrder, AutoCancelSkip, ExpireOldOrder, AcceptLockExpire,
     ReassignCountExpire
<1>8. ASSUME Scan \/ UNCHANGED vars PROVE UNCHANGED req
  BY <1>8 DEF Scan, EscalateScan, AutoCancelScan, vars
<1> QED
  BY <1>4, <1>5, <1>6, <1>7, <1>8 DEF Next

-----------------------------------------------------------------------------
(* What each move keeps.                                                   *)

MovesDown(o) == order[o] \in Row /\ Intact(o) /\ Moves(o)

LEMMA TakenStaysTaken ==
    ASSUME NEW o \in Orders, MovesDown(o), order[o].status \notin Untaken
    PROVE  order'[o].status \notin Untaken
<1>1. order[o] \in Row
  BY DEF MovesDown
<1>2. CASE Rests(o) \/ IsPaid(o) \/ IsGivenBack(o)
  BY <1>1, <1>2 DEF Rests, IsPaid, IsGivenBack, FreedRow, Becomes, Row
<1>3. CASE MovesOn(o)
  BY <1>1, <1>3 DEF MovesOn, StatusSteps, Becomes, Row, Untaken
<1>4. CASE IsTaken(o)
  <2>1. AcceptedStatus(order[o]) \notin Untaken
    BY <1>4 DEF IsTaken, Acceptable, AcceptedStatus, Untaken
  <2> QED
    BY <1>1, <1>4, <2>1 DEF IsTaken, Becomes, Row
<1>5. CASE IsCompleted(o) \/ IsCancelled(o) \/ CancelledOverPrice(o)
  BY <1>1, <1>5 DEF IsCompleted, IsCancelled, CancelledOverPrice, CompletedRow,
     CancelledRow, Becomes, Row, Untaken
<1>6. CASE AdjustmentAsked(o) \/ AdjustmentAnswered(o)
  BY <1>1, <1>6 DEF AdjustmentAsked, AdjustmentAnswered, Becomes, Row
<1> QED
  BY <1>2, <1>3, <1>4, <1>5, <1>6 DEF MovesDown, Moves

LEMMA WorkMoves ==
    ASSUME NEW o \in Orders, MovesDown(o), StatusAgreesWithWork(order[o])
    PROVE  StatusAgreesWithWork(order'[o])
<1>1. order[o] \in Row
  BY DEF MovesDown
<1> USE DEF StatusAgreesWithWork, Food, Untaken, Becomes
<1>2. CASE Rests(o) \/ IsPaid(o)
  BY <1>1, <1>2 DEF Rests, IsPaid, Row
<1>3. CASE MovesOn(o)
  BY <1>1, <1>3 DEF MovesOn, StatusSteps, Row
<1>4. CASE IsTaken(o)
  <2>1. /\ AcceptedStatus(order[o]) \notin Untaken
        /\ Food(order[o]) => AcceptedStatus(order[o]) \notin {"accepted", "purchasing"}
    BY <1>4 DEF IsTaken, Acceptable, AcceptedStatus
  <2> QED
    BY <1>1, <1>4, <2>1 DEF IsTaken, Row
<1>5. CASE IsCompleted(o) \/ IsCancelled(o) \/ IsGivenBack(o)
  BY <1>1, <1>5 DEF IsCompleted, IsCancelled, IsGivenBack, CompletedRow,
     CancelledRow, FreedRow, Row
<1>6. CASE CancelledOverPrice(o)
  BY <1>1, <1>6 DEF CancelledOverPrice, CancelledRow, Row
<1>7. CASE AdjustmentAsked(o) \/ AdjustmentAnswered(o)
  BY <1>1, <1>7 DEF AdjustmentAsked, AdjustmentAnswered, Row
<1> QED
  BY <1>2, <1>3, <1>4, <1>5, <1>6, <1>7 DEF MovesDown, Moves

VoucherFollows(o) ==
    o \in promo <=> order[o].shape.discount > 0 /\ order[o].status # "cancelled"
VoucherFollowsNext(o) ==
    o \in promo' <=> order'[o].shape.discount > 0 /\ order'[o].status # "cancelled"

LEMMA VoucherMoves ==
    ASSUME NEW o \in Orders, MovesDown(o), StatusAgreesWithWork(order[o]),
           VoucherFollows(o)
    PROVE  VoucherFollowsNext(o)
<1>1. order[o] \in Row
  BY DEF MovesDown
<1> USE DEF VoucherFollows, VoucherFollowsNext, VoucherRests, EffectsRest, Becomes
<1>2. CASE Rests(o) \/ IsPaid(o)
  BY <1>1, <1>2 DEF Rests, IsPaid, Row
<1>3. CASE MovesOn(o)
  BY <1>1, <1>3 DEF MovesOn, StatusSteps, Row
<1>4. CASE IsTaken(o)
  <2>1. AcceptedStatus(order[o]) # "cancelled" /\ order[o].status # "cancelled"
    BY <1>4 DEF IsTaken, Acceptable, AcceptedStatus
  <2> QED
    BY <1>1, <1>4, <2>1 DEF IsTaken, Row
<1>5. CASE IsCompleted(o) \/ IsCancelled(o) \/ IsGivenBack(o)
  BY <1>1, <1>5 DEF IsCompleted, IsCancelled, IsGivenBack, CompletedRow,
     CancelledRow, FreedRow, Row
<1>6. CASE CancelledOverPrice(o)
  <2>1. ~Food(order[o])
    BY <1>6 DEF CancelledOverPrice, StatusAgreesWithWork
  <2>2. ~(order[o].shape.discount > 0)
    BY <1>1, <2>1, ShapesAssumption DEF Row, Food
  <2>3. order'[o].shape = order[o].shape /\ (o \in promo' <=> o \in promo)
    BY <1>1, <1>6 DEF CancelledOverPrice, CancelledRow, Row
  <2> QED
    BY <2>2, <2>3
<1>7. CASE AdjustmentAsked(o) \/ AdjustmentAnswered(o)
  BY <1>1, <1>7 DEF AdjustmentAsked, AdjustmentAnswered, Row
<1> QED
  BY <1>2, <1>3, <1>4, <1>5, <1>6, <1>7 DEF MovesDown, Moves

\* DepositBacksWork and DepositsAddUp, of one order.
OnTheWay == {"cooking", "ready", "accepted", "purchasing", "delivering"}
DepositStands(row, left) ==
    row.adj # "accepted" =>
        /\ row.status \notin Finished => \A r \in Runners : left[r] >= 0
        /\ row.status \in OnTheWay /\ row.runner \in Unverified
              => left[row.runner] >= row.cost

LEMMA DepositMoves ==
    ASSUME TypeInv, NEW o \in Orders, MovesDown(o), deposits[o] \subseteq Unverified,
           DepositStands(order[o], owed[o])
    PROVE  DepositStands(order'[o], owed'[o])
<1>1. order[o] \in Row
  BY DEF MovesDown
<1>2. owed \in [Orders -> [Runners -> Int]]
  BY DEF TypeInv, TypeOK
<1>3. /\ order[o].status \in Statuses /\ order[o].cost \in Nat
      /\ order[o].runner \in Runners \cup {NoRunner}
  BY <1>1 DEF Row
<1> USE DEF DepositStands, Becomes
<1>4. CASE Rests(o) \/ IsPaid(o) \/ AdjustmentAsked(o) \/ AdjustmentAnswered(o)
  BY <1>1, <1>4 DEF Rests, IsPaid, AdjustmentAsked, AdjustmentAnswered,
     EffectsRest, DepositsRest, Row
<1>5. CASE MovesOn(o)
  BY <1>1, <1>5 DEF MovesOn, StatusSteps, EffectsRest, DepositsRest, Row,
     Finished, OnTheWay
<1>6. CASE IsTaken(o)
  <2>1. PICK r \in Runners :
          /\ order'[o].runner = r /\ order'[o].cost = order[o].cost
          /\ order'[o].adj = order[o].adj
          /\ owed' = [owed EXCEPT ![o][r] = @ + LiabilityHold(o, r, order[o])]
    BY <1>1, <1>6 DEF IsTaken, Row
  <2>2. order[o].status \notin Finished
    BY <1>6 DEF IsTaken, Acceptable, Finished
  <2>3. /\ LiabilityHold(o, r, order[o]) \in Nat
        /\ r \in Unverified => LiabilityHold(o, r, order[o]) = order[o].cost
    BY <1>3 DEF LiabilityHold
  <2>4. /\ owed'[o][r] = owed[o][r] + LiabilityHold(o, r, order[o])
        /\ \A x \in Runners \ {r} : owed'[o][x] = owed[o][x]
    BY <1>2, <2>1, <2>3
  <2>5. \A x \in Runners : owed[o][x] \in Int
    BY <1>2
  <2> QED
    BY <1>3, <2>1, <2>2, <2>3, <2>4, <2>5
<1>7. CASE IsGivenBack(o)
  <2>1. /\ order'[o].runner = NoRunner /\ order'[o].status = order[o].status
        /\ order'[o].adj = order[o].adj
        /\ order[o].status \notin Untaken \cup {"completed", "cancelled"}
        /\ owed' = DepositReturned(o, order[o])
    BY <1>1, <1>7 DEF IsGivenBack, FreedRow, DepositMovesBack, Row
  <2>2. order[o].status \notin Finished => order[o].status \in OnTheWay
    BY <1>3, <2>1 DEF Statuses, Untaken, Finished, OnTheWay
  <2>3. NoRunner \notin Unverified
    BY AccountsAssumption, ParametersAssumption
  <2>4. CASE ReturnsDeposit(o, order[o])
    <3>1. order[o].runner \in Unverified /\ order[o].runner \in Runners
      BY <1>3, <2>4 DEF ReturnsDeposit
    <3>2. /\ owed'[o][order[o].runner] = owed[o][order[o].runner] - order[o].cost
          /\ \A x \in Runners \ {order[o].runner} : owed'[o][x] = owed[o][x]
      BY <1>2, <2>1, <2>4, <3>1 DEF DepositReturned
    <3>3. \A x \in Runners : owed[o][x] \in Int
      BY <1>2
    <3> QED
      BY <1>3, <2>1, <2>2, <2>3, <3>1, <3>2, <3>3
  <2>5. CASE ~ReturnsDeposit(o, order[o])
    BY <2>1, <2>2, <2>3, <2>5 DEF DepositReturned
  <2> QED
    BY <2>4, <2>5
<1>8. CASE IsCompleted(o) \/ IsCancelled(o) \/ CancelledOverPrice(o)
  BY <1>1, <1>8 DEF IsCompleted, IsCancelled, CancelledOverPrice, CompletedRow,
     CancelledRow, Row, Finished, OnTheWay
<1> QED
  BY <1>4, <1>5, <1>6, <1>7, <1>8 DEF MovesDown, Moves

LEMMA DepositorsUnverified ==
    ASSUME NEW o \in Orders, MovesDown(o), deposits[o] \subseteq Unverified
    PROVE  deposits'[o] \subseteq Unverified
BY DEF MovesDown, Moves, Rests, MovesOn, IsTaken, IsPaid, IsGivenBack, IsCompleted,
   IsCancelled, AdjustmentAsked, AdjustmentAnswered, CancelledOverPrice,
   EffectsRest, DepositsRest, DepositMovesBack

\* An order joins, stays on or leaves the trip of r, which then has a place
\* less, as many, or one more.
OnTripOf(row, r) == row.trip = r /\ row.status # "cancelled"
PlacesFollow(o, r) ==
    /\ OnTripOf(order'[o], r) /\ ~OnTripOf(order[o], r) => avail'[r] <= avail[r] - 1
    /\ (OnTripOf(order'[o], r) <=> OnTripOf(order[o], r)) => avail'[r] <= avail[r]
    /\ OnTripOf(order[o], r) /\ ~OnTripOf(order'[o], r) => avail'[r] <= avail[r] + 1

LEMMA PlacesMove ==
    ASSUME TypeInv, NEW o \in Orders, MovesDown(o), order'[o].adj = "none",
           NEW r \in Runners
    PROVE  PlacesFollow(o, r)
<1>1. order[o] \in Row /\ avail \in [Runners -> Nat]
  BY DEF MovesDown, TypeInv, TypeOK
<1>2. /\ order[o].trip \in Runners \cup {NoRunner}
      /\ avail[r] \in Int
  BY <1>1 DEF Row
<1>3. CASE \/ Rests(o) \/ IsPaid(o) \/ AdjustmentAsked(o) \/ AdjustmentAnswered(o)
           \/ MovesOn(o) \/ IsCompleted(o)
  <2>1. order'[o].trip = order[o].trip
    BY <1>1, <1>3 DEF Rests, IsPaid, AdjustmentAsked, AdjustmentAnswered,
       MovesOn, IsCompleted, CompletedRow, Becomes, Row
  <2>2. avail' = avail
    BY <1>3 DEF Rests, IsPaid, AdjustmentAsked, AdjustmentAnswered, MovesOn,
       IsCompleted, EffectsRest
  <2>3. order'[o].status = "cancelled" <=> order[o].status = "cancelled"
    BY <1>1, <1>3 DEF Rests, IsPaid, AdjustmentAsked, AdjustmentAnswered,
       MovesOn, StatusSteps, IsCompleted, CompletedRow, Becomes, Row
  <2> QED
    BY <1>2, <2>1, <2>2, <2>3 DEF PlacesFollow, OnTripOf
<1>4. CASE IsTaken(o)
  <2>1. PICK x \in Runners, onTrip \in BOOLEAN :
          /\ order'[o].status = AcceptedStatus(order[o])
          /\ order'[o].trip = IF onTrip THEN x ELSE order[o].trip
          /\ avail' = IF onTrip THEN [avail EXCEPT ![x] = @ - 1] ELSE avail
    BY <1>1, <1>4 DEF IsTaken, Becomes, Row
  <2>2. AcceptedStatus(order[o]) # "cancelled" /\ order[o].status # "cancelled"
    BY <1>4 DEF IsTaken, Acceptable, AcceptedStatus
  <2>3. avail'[r] = IF onTrip /\ r = x THEN avail[r] - 1 ELSE avail[r]
    BY <1>1, <2>1
  <2> QED
    BY <1>2, <2>1, <2>2, <2>3 DEF PlacesFollow, OnTripOf
<1>5. CASE IsGivenBack(o) \/ IsCancelled(o)
  <2>1. ~OnTripOf(order'[o], r)
    BY <1>1, <1>5, AccountsAssumption
    DEF IsGivenBack, IsCancelled, FreedRow, CancelledRow, Becomes, Row, OnTripOf
  <2>2. order[o].status # "cancelled" /\ avail' = RestoreCapacity(order[o])
    BY <1>5 DEF IsGivenBack, IsCancelled
  <2>3. avail'[r] <= IF r = order[o].trip THEN avail[r] + 1 ELSE avail[r]
    BY <1>1, <1>2, <2>2, AccountsAssumption DEF RestoreCapacity
  <2> QED
    BY <1>2, <2>1, <2>2, <2>3 DEF PlacesFollow, OnTripOf
<1>6. ~CancelledOverPrice(o)
  BY <1>1 DEF CancelledOverPrice, CancelledRow, Becomes, Row
<1> QED
  BY <1>3, <1>4, <1>5, <1>6 DEF MovesDown, Moves

\* What that makes of the number of orders on the trip.
TripFits(r) == avail[r] + Cardinality(OnTrip(r)) <= Capacity

LEMMA TripMoves ==
    ASSUME TypeInv, TypeInv', OrdersCounted, NEW o \in Orders, Exists(o),
           order'[o] # NoRow, OthersRest(o), NEW r \in Runners,
           PlacesFollow(o, r), TripFits(r)
    PROVE  TripFits(r)'
<1> DEFINE S == OnTrip(r)
           T == OnTrip(r)'
<1>1. IsFiniteSet(S)
  <2>1. S \subseteq {x \in Orders : Exists(x)}
    BY DEF OnTrip
  <2> QED
    BY <2>1, FS_Subset DEF OrdersCounted
<1>2. Cardinality(S) \in Nat /\ avail[r] \in Nat /\ avail'[r] \in Nat
      /\ Capacity \in Nat
  BY <1>1, FS_CardinalityType, ParametersAssumption DEF TypeInv, TypeOK
<1>3. \A x \in Orders \ {o} : x \in T <=> x \in S
  BY DEF OnTrip, OthersRest, Exists
<1>4. /\ o \in S <=> OnTripOf(order[o], r)
      /\ o \in T <=> OnTripOf(order'[o], r)
  BY DEF OnTrip, OnTripOf, Exists
<1>5. S \subseteq Orders /\ T \subseteq Orders
  BY DEF OnTrip
<1> HIDE DEF S, T
<1>6. CASE o \in T /\ o \notin S
  <2>1. T = S \cup {o}
    BY <1>3, <1>5, <1>6
  <2>2. Cardinality(T) = Cardinality(S) + 1
    BY <1>1, <1>6, <2>1, FS_AddElement
  <2>3. avail'[r] <= avail[r] - 1
    BY <1>4, <1>6 DEF PlacesFollow
  <2> QED
    BY <1>2, <2>2, <2>3 DEF TripFits, S, T
<1>7. CASE o \in S /\ o \notin T
  <2>1. T = S \ {o}
    BY <1>3, <1>5, <1>7
  <2>2. Cardinality(T) = Cardinality(S) - 1
    BY <1>1, <1>7, <2>1, FS_RemoveElement
  <2>3. avail'[r] <= avail[r] + 1
    BY <1>4, <1>7 DEF PlacesFollow
  <2> QED
    BY <1>2, <2>2, <2>3 DEF TripFits, S, T
<1>8. CASE o \in S <=> o \in T
  <2>1. T = S
    BY <1>3, <1>5, <1>8
  <2>2. avail'[r] <= avail[r]
    BY <1>4, <1>8 DEF PlacesFollow
  <2> QED
    BY <1>2, <2>1, <2>2 DEF TripFits, S, T
<1> QED
  BY <1>6, <1>7, <1>8

-----------------------------------------------------------------------------
(* LifeInv is kept.                                                        *)

\* What became of an order that a step leaves intact.
Unmoved(x) ==
    /\ order'[x] = order[x] /\ Intact(x) /\ DepositsRest(x) /\ VoucherRests(x)

LEMMA Followed ==
    ASSUME TypeInv, LifeStep, NEW x \in Orders, order'[x] # NoRow, stale'[x] = 0
    PROVE  Unmoved(x) \/ IsCreated(x) \/ MovesDown(x)
<1>1. /\ order \in [Orders -> Row \cup {NoRow}]
      /\ stale \in [Orders -> 0..MaxStale] /\ MaxStale \in Nat
  BY ParametersAssumption DEF TypeInv, TypeOK
<1>2. CASE UNCHANGED <<order, stale, owed, deposits, promo, avail>>
  BY <1>2 DEF Unmoved, Intact, Exists, DepositsRest, VoucherRests
<1>3. ASSUME NEW o \in Orders, IsCreated(o) \/ OrderMoves(o), x # o
      PROVE  Unmoved(x)
  <2>1. OthersRest(o)
    BY <1>3 DEF IsCreated, OrderMoves
  <2> QED
    BY <1>3, <2>1 DEF OthersRest, Unmoved, Intact, Exists
<1>4. ASSUME OrderMoves(x) PROVE MovesDown(x)
  <2>1. Exists(x) /\ stale[x] = 0
    BY <1>1, <1>4 DEF OrderMoves
  <2> QED
    BY <1>1, <1>4, <2>1 DEF OrderMoves, MovesDown, IntactStep, Intact, Exists
<1> QED
  BY <1>2, <1>3, <1>4 DEF LifeStep

\* What became of an order that is still not there.
LEMMA StillMissing ==
    ASSUME LifeStep, NEW x \in Orders, order'[x] = NoRow
    PROVE  ~Exists(x) /\ DepositsRest(x) /\ VoucherRests(x)
<1>1. CASE UNCHANGED <<order, stale, owed, deposits, promo, avail>>
  BY <1>1 DEF Exists, DepositsRest, VoucherRests
<1>2. ASSUME NEW o \in Orders, IsCreated(o) \/ OrderMoves(o)
      PROVE  ~Exists(x) /\ DepositsRest(x) /\ VoucherRests(x)
  <2>1. order'[o] # NoRow
    <3>1. CASE IsCreated(o)
      <4>1. PICK s \in Shapes, pay \in Payments : order'[o] = NewRow(s, pay)
        BY <3>1 DEF IsCreated
      <4>2. NewRow(s, pay) \in Row
        BY <4>1, ShapesAssumption
        DEF NewRow, Row, Statuses, Adjustments, Shape
      <4> QED
        BY <4>1, <4>2, AccountsAssumption
    <3>2. CASE OrderMoves(o)
      BY <3>2 DEF OrderMoves
    <3> QED
      BY <1>2, <3>1, <3>2
  <2>2. OthersRest(o) /\ x # o
    BY <1>2, <2>1 DEF IsCreated, OrderMoves
  <2> QED
    BY <2>2 DEF OthersRest, Exists
<1> QED
  BY <1>1, <1>2 DEF LifeStep

LEMMA WorkAgreesNext ==
    ASSUME TypeInv, LifeStep, WorkAgrees
    PROVE  WorkAgrees'
<1> SUFFICES ASSUME NEW x \in Orders, order'[x] # NoRow, stale'[x] = 0
             PROVE  StatusAgreesWithWork(order'[x])
  BY DEF WorkAgrees, Intact, Exists
<1>1. CASE Unmoved(x)
  BY <1>1 DEF Unmoved, WorkAgrees
<1>2. CASE IsCreated(x)
  BY <1>2 DEF IsCreated, NewRow, StatusAgreesWithWork, Untaken
<1>3. CASE MovesDown(x)
  BY <1>3, WorkMoves DEF WorkAgrees, MovesDown
<1> QED
  BY <1>1, <1>2, <1>3, Followed

LEMMA VouchersNext ==
    ASSUME TypeInv, LifeStep, WorkAgrees, VoucherFollowsOrder, VouchersHaveOrders
    PROVE  VoucherFollowsOrder' /\ (promo' \subseteq Orders => VouchersHaveOrders')
<1>1. ASSUME NEW x \in Orders, order'[x] # NoRow, stale'[x] = 0
      PROVE  VoucherFollowsNext(x)
  <2>1. CASE Unmoved(x)
    BY <2>1 DEF Unmoved, VoucherRests, VoucherFollowsOrder, VoucherFollowsNext
  <2>2. CASE IsCreated(x)
    BY <2>2 DEF IsCreated, NewRow, VoucherFollowsNext
  <2>3. CASE MovesDown(x)
    BY <2>3, VoucherMoves
    DEF WorkAgrees, MovesDown, VoucherFollows, VoucherFollowsOrder
  <2> QED
    BY <1>1, <2>1, <2>2, <2>3, Followed
<1>2. ASSUME NEW x \in Orders, x \in promo' PROVE order'[x] # NoRow
  BY <1>2, StillMissing DEF VouchersHaveOrders, VoucherRests
<1>3. VoucherFollowsOrder'
  BY <1>1 DEF VoucherFollowsOrder, VoucherFollowsNext, Intact, Exists
<1>4. promo' \subseteq Orders => VouchersHaveOrders'
  BY <1>2 DEF VouchersHaveOrders, Exists
<1> QED
  BY <1>3, <1>4

LEMMA DepositsNext ==
    ASSUME TypeInv, LifeStep, DepositsAddUp, DepositBacksWork
    PROVE  DepositsAddUp' /\ DepositBacksWork'
<1>1. ASSUME NEW x \in Orders, order'[x] # NoRow, stale'[x] = 0
      PROVE  DepositStands(order'[x], owed'[x]) /\ deposits'[x] \subseteq Unverified
  <2>1. ASSUME Intact(x)
        PROVE  DepositStands(order[x], owed[x]) /\ deposits[x] \subseteq Unverified
    BY <2>1 DEF DepositsAddUp, DepositBacksWork, DepositStands, OnTheWay
  <2>2. CASE Unmoved(x)
    BY <2>1, <2>2 DEF Unmoved, DepositsRest
  <2>3. CASE IsCreated(x)
    <3>1. ~Exists(x) /\ DepositsRest(x)
      BY <2>3 DEF IsCreated
    <3>2. deposits'[x] = {} /\ owed'[x] = [r \in Runners |-> 0]
      BY <3>1 DEF DepositsAddUp, DepositsRest
    <3>3. order'[x].status = "pending"
      BY <2>3 DEF IsCreated, NewRow
    <3> QED
      BY <3>2, <3>3 DEF DepositStands, OnTheWay
  <2>4. CASE MovesDown(x)
    BY <2>1, <2>4, DepositMoves, DepositorsUnverified DEF MovesDown
  <2> QED
    BY <1>1, <2>2, <2>3, <2>4, Followed
<1>2. ASSUME NEW x \in Orders, order'[x] = NoRow
      PROVE  deposits'[x] = {} /\ owed'[x] = [r \in Runners |-> 0]
  BY <1>2, StillMissing DEF DepositsAddUp, DepositsRest
<1>3. DepositsAddUp'
  BY <1>1, <1>2 DEF DepositsAddUp, DepositStands, Intact, Exists
<1>4. DepositBacksWork'
  BY <1>1 DEF DepositBacksWork, DepositStands, OnTheWay, Intact, Exists
<1> QED
  BY <1>3, <1>4

LEMMA RunnersHadTakenNext ==
    ASSUME TypeInv, TypeInv', [Next]_vars, LifeStep, WorkAgrees, RunnersHadTaken
    PROVE  RunnersHadTaken'
<1> SUFFICES ASSUME NEW q \in Procs, req'[q] # Idle, req'[q].op \in RunnerSteps,
                    order'[req'[q].o] # NoRow, stale'[req'[q].o] = 0
             PROVE  order'[req'[q].o].status \notin Untaken
  BY DEF RunnersHadTaken, Intact, Exists
<1>1. PICK x \in Orders : req'[q].o = x
  <2>1. req'[q] \in Request
    BY DEF TypeInv, TypeOK
  <2> QED
    BY <2>1 DEF Request
<1>2. CASE /\ req[q] # Idle /\ req[q].op \in RunnerSteps
           /\ req'[q].o = req[q].o
  <2>1. Exists(x)
    BY <1>1, <1>2, RequestKinds, AccountsAssumption DEF Exists
  <2>2. CASE Unmoved(x)
    BY <1>1, <1>2, <2>2 DEF Unmoved, RunnersHadTaken
  <2>3. CASE MovesDown(x)
    <3>1. order[x].status \notin Untaken
      BY <1>1, <1>2, <2>3 DEF MovesDown, RunnersHadTaken
    <3> QED
      BY <1>1, <2>3, <3>1, TakenStaysTaken
  <2>4. ~IsCreated(x)
    BY <2>1 DEF IsCreated
  <2> QED
    BY <1>1, <2>2, <2>3, <2>4, Followed
<1>3. CASE /\ Exists(req'[q].o) /\ order[req'[q].o].runner \in Runners
           /\ UNCHANGED <<order, stale>>
  BY <1>1, <1>3, AccountsAssumption DEF WorkAgrees, StatusAgreesWithWork, Intact
<1>4. RunnerAsks(q)
  BY RunnersAsk
<1> QED
  BY <1>2, <1>3, <1>4 DEF RunnerAsks

\* No move takes back that a price was discussed.
LEMMA AdjustmentStays ==
    ASSUME NEW o \in Orders, MovesDown(o), order'[o].adj = "none"
    PROVE  order[o].adj = "none"
<1>1. order[o] \in Row
  BY DEF MovesDown
<1> USE DEF Becomes
<1>2. CASE Rests(o) \/ IsPaid(o) \/ MovesOn(o) \/ IsTaken(o)
  BY <1>1, <1>2 DEF Rests, IsPaid, MovesOn, IsTaken, Row
<1>3. CASE IsGivenBack(o) \/ IsCompleted(o) \/ IsCancelled(o)
  BY <1>1, <1>3 DEF IsGivenBack, IsCompleted, IsCancelled, FreedRow,
     CompletedRow, CancelledRow, Row
<1>4. ~AdjustmentAsked(o) /\ ~AdjustmentAnswered(o) /\ ~CancelledOverPrice(o)
  BY <1>1 DEF AdjustmentAsked, AdjustmentAnswered, CancelledOverPrice,
     CancelledRow, Row
<1> QED
  BY <1>2, <1>3, <1>4 DEF MovesDown, Moves

LEMMA TripsNext ==
    ASSUME TypeInv, TypeInv', LifeStep, OrdersCounted, TripNotOverbooked
    PROVE  TripNotOverbooked'
<1> DEFINE Calm == \A o \in Orders : Exists(o) => stale[o] = 0 /\ order[o].adj = "none"
<1> SUFFICES ASSUME Calm', NEW r \in Runners PROVE TripFits(r)'
  BY DEF TripNotOverbooked, TripFits
<1>1. Calm => TripFits(r)
  BY DEF TripNotOverbooked, TripFits
<1>2. ASSUME NEW x \in Orders, order'[x] # NoRow
      PROVE  stale'[x] = 0 /\ order'[x].adj = "none"
  BY <1>2 DEF Exists
<1>3. Calm
  <2> SUFFICES ASSUME NEW x \in Orders, Exists(x)
               PROVE  stale[x] = 0 /\ order[x].adj = "none"
    OBVIOUS
  <2>1. order'[x] # NoRow
    BY StillMissing
  <2>2. stale'[x] = 0 /\ order'[x].adj = "none"
    BY <1>2, <2>1
  <2>3. ~IsCreated(x)
    BY DEF IsCreated
  <2>4. CASE Unmoved(x)
    BY <2>2, <2>4 DEF Unmoved, Intact
  <2>5. CASE MovesDown(x)
    BY <2>2, <2>5, AdjustmentStays DEF MovesDown, Intact
  <2> QED
    BY <2>1, <2>2, <2>3, <2>4, <2>5, Followed
<1> HIDE DEF Calm
<1>4. CASE UNCHANGED <<order, stale, owed, deposits, promo, avail>>
  <2>1. OnTrip(r)' = OnTrip(r)
    BY <1>4 DEF OnTrip, Exists
  <2> QED
    BY <1>1, <1>3, <1>4, <2>1 DEF TripFits
<1>5. ASSUME NEW o \in Orders, IsCreated(o) PROVE TripFits(r)'
  <2>1. order'[o].trip = NoRunner /\ OthersRest(o) /\ ~Exists(o) /\ avail' = avail
    BY <1>5 DEF IsCreated, NewRow
  <2>2. OnTrip(r)' = OnTrip(r)
    BY <2>1, AccountsAssumption DEF OnTrip, OthersRest, Exists
  <2> QED
    BY <1>1, <1>3, <2>1, <2>2 DEF TripFits
<1>6. ASSUME NEW o \in Orders, OrderMoves(o) PROVE TripFits(r)'
  <2>1. Exists(o) /\ OthersRest(o) /\ order'[o] # NoRow
    BY <1>6 DEF OrderMoves
  <2>2. stale'[o] = 0 /\ order'[o].adj = "none" /\ stale[o] = 0
    BY <1>2, <1>3, <2>1 DEF Calm
  <2>3. order[o] \in Row
    BY <2>1 DEF Exists, TypeInv, TypeOK
  <2>4. MovesDown(o)
    BY <1>6, <2>1, <2>2, <2>3 DEF OrderMoves, MovesDown, IntactStep, Intact
  <2>5. PlacesFollow(o, r)
    BY <2>2, <2>4, PlacesMove
  <2> QED
    BY <1>1, <1>3, <2>1, <2>5, TripMoves
<1> QED
  BY <1>4, <1>5, <1>6 DEF LifeStep

LEMMA OrdersCountedNext ==
    ASSUME LifeStep, OrdersCounted
    PROVE  OrdersCounted'
<1> DEFINE S == {x \in Orders : Exists(x)}
<1>1. CASE UNCHANGED order
  BY <1>1 DEF OrdersCounted, Exists
<1>2. ASSUME NEW o \in Orders, OthersRest(o) PROVE OrdersCounted'
  <2>1. {x \in Orders : Exists(x)}' \subseteq S \cup {o}
    BY <1>2 DEF OthersRest, Exists
  <2>2. IsFiniteSet(S \cup {o})
    BY FS_AddElement DEF OrdersCounted
  <2> QED
    BY <2>1, <2>2, FS_Subset DEF OrdersCounted
<1> QED
  BY <1>1, <1>2 DEF LifeStep, IsCreated, OrderMoves

LEMMA NextKeepsLife == OrderInv /\ [Next]_vars => LifeInv'
<1> SUFFICES ASSUME OrderInv, [Next]_vars PROVE LifeInv'
  OBVIOUS
<1>1. /\ SettlementInv /\ TypeInv /\ WorkAgrees /\ RunnersHadTaken
      /\ DepositsAddUp /\ VouchersHaveOrders /\ OrdersCounted
      /\ VoucherFollowsOrder /\ DepositBacksWork /\ TripNotOverbooked
  BY DEF OrderInv, LifeInv, SettlementInv, WorkIsBacked
<1>2. TypeInv'
  BY <1>1, NextTyped
<1>3. LifeStep
  BY <1>1, NextMoves
<1>4. WorkAgrees' /\ RunnersHadTaken' /\ OrdersCounted'
  BY <1>1, <1>2, <1>3, WorkAgreesNext, RunnersHadTakenNext, OrdersCountedNext
<1>5. DepositsAddUp' /\ DepositBacksWork' /\ TripNotOverbooked'
  BY <1>1, <1>2, <1>3, DepositsNext, TripsNext
<1>6. VoucherFollowsOrder' /\ VouchersHaveOrders'
  <2>1. promo' \subseteq Orders
    BY <1>2 DEF TypeInv, TypeOK
  <2> QED
    BY <1>1, <1>3, <2>1, VouchersNext
<1> QED
  BY <1>4, <1>5, <1>6 DEF LifeInv, WorkIsBacked

LEMMA InitLife == Init => LifeInv
<1> SUFFICES ASSUME Init PROVE LifeInv
  OBVIOUS
<1>1. \A o \in Orders : ~Exists(o)
  BY DEF Init, Exists
<1>2. OrdersCounted
  <2>1. {o \in Orders : Exists(o)} = {}
    BY <1>1
  <2> QED
    BY <2>1, FS_EmptySet DEF OrdersCounted
<1>3. TripNotOverbooked
  <2> SUFFICES ASSUME NEW r \in Runners
               PROVE  avail[r] + Cardinality(OnTrip(r)) <= Capacity
    BY DEF TripNotOverbooked
  <2>1. OnTrip(r) = {}
    BY <1>1 DEF OnTrip
  <2>2. avail[r] = Capacity /\ Capacity \in Nat
    BY ParametersAssumption DEF Init
  <2> QED
    BY <2>1, <2>2, FS_EmptySet
<1>4. WorkAgrees /\ DepositBacksWork /\ VoucherFollowsOrder
  BY <1>1 DEF WorkAgrees, DepositBacksWork, VoucherFollowsOrder, Intact
<1>5. RunnersHadTaken /\ DepositsAddUp /\ VouchersHaveOrders
  BY <1>1 DEF Init, RunnersHadTaken, DepositsAddUp, VouchersHaveOrders, Intact
<1> QED
  BY <1>2, <1>3, <1>4, <1>5 DEF LifeInv, WorkIsBacked

-----------------------------------------------------------------------------
(* The theorems.                                                           *)

\* SettlementInv is inductive.
THEOREM SettlementInvariance == Spec => []SettlementInv
<1>1. Init => SettlementInv
  BY InitTyped DEF Init, SettlementInv, IntactOrders, Intact, Exists
<1>2. SettlementInv /\ [Next]_vars => SettlementInv'
  BY NextTyped, NextKeepsOrder DEF SettlementInv
<1> QED
  BY <1>1, <1>2, PTL DEF Spec

\* While an order's payment is in escrow, what is held for it is exactly what
\* any of the eight settling paths will hand out.
THEOREM EscrowIsBacked == Spec => []EscrowBacked
<1>1. SettlementInv => EscrowBacked
  <2> SUFFICES ASSUME SettlementInv, NEW o \in Orders, Intact(o),
                      FullyPriced(order[o]), InEscrow(order[o])
               PROVE  held[o] = Gross(order[o])
    BY DEF EscrowBacked
  <2>1. order[o] \in Row /\ held[o] \in Int
    BY DEF SettlementInv, TypeInv, TypeOK, Intact, Exists
  <2>2. Allowance(order[o].shape) = 0 /\ Gross(order[o]) \in Int
    BY <2>1, AllowanceNatural, ShapesAssumption DEF Row, Shape, Gross
  <2>3. order[o].shape.method \in {"escrow", "cod"}
    BY <2>1, ShapesAssumption DEF Row, Shape
  <2>4. HeldAgreesWithPayment(order[o], held[o])
    BY DEF SettlementInv, IntactOrders, InOrder
  <2> QED
    BY <2>1, <2>2, <2>3, <2>4 DEF HeldAgreesWithPayment, InEscrow
<1> QED
  BY <1>1, SettlementInvariance, PTL

\* Once an order is released or refunded, nothing is left of what was taken for
\* it and nothing more was paid out.
THEOREM IsSettledInFull == Spec => []SettledInFull
<1>1. SettlementInv => SettledInFull
  <2> SUFFICES ASSUME SettlementInv, NEW o \in Orders, Intact(o),
                      FullyPriced(order[o]), order[o].adj # "accepted",
                    order[o].pay \in {"released", "refunded"}
               PROVE  held[o] = 0
    BY DEF SettledInFull
  <2>1. order[o] \in Row /\ held[o] \in Int
    BY DEF SettlementInv, TypeInv, TypeOK, Intact, Exists
  <2>2. Allowance(order[o].shape) = 0 /\ Gross(order[o]) \in Int
    BY <2>1, AllowanceNatural, ShapesAssumption DEF Row, Shape, Gross
  <2>3. order[o].shape.method \in {"escrow", "cod"}
    BY <2>1, ShapesAssumption DEF Row, Shape
  <2>4. HeldAgreesWithPayment(order[o], held[o])
    BY DEF SettlementInv, IntactOrders, InOrder
  <2> QED
    BY <2>1, <2>2, <2>3, <2>4 DEF HeldAgreesWithPayment
<1> QED
  BY <1>1, SettlementInvariance, PTL

\* An order that is completed or disputed has had its escrow released.
THEOREM DeliveredOrdersAreReleased == Spec => []DeliveredIsReleased
<1>1. SettlementInv => DeliveredIsReleased
  BY DEF SettlementInv, IntactOrders, InOrder, StatusAgreesWithPayment,
     DeliveredIsReleased, Intact
<1> QED
  BY <1>1, SettlementInvariance, PTL

\* SettlementInv and LifeInv together are inductive.
THEOREM OrderInvariance == Spec => []OrderInv
<1>1. Init => OrderInv
  BY InitTyped, InitLife
  DEF Init, OrderInv, SettlementInv, IntactOrders, Intact, Exists
<1>2. OrderInv /\ [Next]_vars => OrderInv'
  BY NextTyped, NextKeepsOrder, NextKeepsLife DEF OrderInv, SettlementInv
<1> QED
  BY <1>1, <1>2, PTL DEF Spec

\* A voucher is used up by exactly the discounted orders that were not cancelled.
THEOREM VouchersFollowOrders == Spec => []VoucherFollowsOrder
<1>1. OrderInv => VoucherFollowsOrder
  BY DEF OrderInv, LifeInv
<1> QED
  BY <1>1, OrderInvariance, PTL

\* A runner who must leave a deposit has left it while he works on an order, and
\* a trip never carries more than fits.
THEOREM WorkIsAlwaysBacked == Spec => []WorkIsBacked
<1>1. OrderInv => WorkIsBacked
  BY DEF OrderInv, LifeInv
<1> QED
  BY <1>1, OrderInvariance, PTL

\* Every step of every request, whatever row it read and whatever others wrote
\* meanwhile, comes down to one of ten moves of an order that stays intact.
THEOREM OnlyMoves == Spec => LifeSteps
<1>1. OrderInv /\ [Next]_vars => [LifeStep]_vars
  BY NextMoves DEF OrderInv, LifeInv
<1> QED
  BY <1>1, OrderInvariance, PTL DEF Spec, LifeSteps

\* What an intact step does to one order.
LEMMA IntactStepMoves ==
    ASSUME OrderInv, [Next]_vars, NEW o \in Orders, IntactStep(o)
    PROVE  Unmoved(o) \/ MovesDown(o)
<1>1. TypeInv /\ LifeStep
  BY NextMoves DEF OrderInv, LifeInv, SettlementInv
<1>2. Exists(o) /\ stale'[o] = 0
  BY DEF IntactStep, Intact
<1>3. order'[o] # NoRow
  BY <1>1, <1>2, StillMissing
<1>4. ~IsCreated(o)
  BY <1>2 DEF IsCreated
<1> QED
  BY <1>1, <1>2, <1>3, <1>4, Followed

\* Only giving an errand back takes its runner away: no other runner ever
\* replaces one who has it.
THEOREM RunnersAreKept == Spec => RunnerKept
<1> DEFINE Kept ==
        \A o \in Orders :
            IntactStep(o) /\ ~Food(order[o]) /\ order[o].runner # NoRunner
                => order'[o].runner \in {order[o].runner, NoRunner}
<1>1. ASSUME OrderInv, [Next]_vars PROVE Kept
  <2> SUFFICES ASSUME NEW o \in Orders, IntactStep(o), ~Food(order[o]),
                      order[o].runner # NoRunner
               PROVE  order'[o].runner \in {order[o].runner, NoRunner}
    OBVIOUS
  <2>1. CASE Unmoved(o)
    BY <2>1 DEF Unmoved
  <2>2. CASE MovesDown(o)
    <3>1. order[o] \in Row
      BY <2>2 DEF MovesDown
    <3>2. ~IsTaken(o)
      <4>1. StatusAgreesWithWork(order[o])
        BY <1>1 DEF OrderInv, LifeInv, WorkAgrees, IntactStep
      <4> QED
        BY <4>1 DEF IsTaken, Acceptable, StatusAgreesWithWork, Untaken
    <3>3. CASE Rests(o) \/ IsPaid(o) \/ MovesOn(o)
      BY <3>1, <3>3 DEF Rests, IsPaid, MovesOn, Becomes, Row
    <3>4. CASE IsGivenBack(o) \/ IsCompleted(o) \/ IsCancelled(o)
      BY <3>1, <3>4 DEF IsGivenBack, IsCompleted, IsCancelled, FreedRow,
         CompletedRow, CancelledRow, Becomes, Row
    <3>5. CASE \/ AdjustmentAsked(o) \/ AdjustmentAnswered(o)
               \/ CancelledOverPrice(o)
      BY <3>1, <3>5 DEF AdjustmentAsked, AdjustmentAnswered, CancelledOverPrice,
         CancelledRow, Becomes, Row
    <3> QED
      BY <2>2, <3>2, <3>3, <3>4, <3>5 DEF MovesDown, Moves
  <2> QED
    BY <1>1, <2>1, <2>2, IntactStepMoves
<1>2. OrderInv /\ [Next]_vars => [Kept]_vars
  BY <1>1
<1> QED
  BY <1>2, OrderInvariance, PTL DEF Spec, RunnerKept

\* Cancelled and expired are final; what is completed can be disputed, or be
\* cancelled through a price adjustment nobody answered; and the payment status
\* never goes back.
THEOREM OrdersMoveForward == Spec => OrderMovesForward
<1> DEFINE Final(o) ==
        IntactStep(o) =>
            /\ order[o].status \in {"cancelled", "expired"}
                  => order'[o].status = order[o].status
            /\ order[o].status = "completed" =>
                  order'[o].status \in {"completed", "disputed"}
                      \cup (IF order[o].adj = "pending" THEN {"cancelled"} ELSE {})
           Forward(o) ==
        IntactStep(o) /\ order'[o].pay # order[o].pay =>
            \/ order[o].pay = "unpaid" /\ order'[o].pay = "escrow"
            \/ order[o].pay = "escrow" /\ order'[o].pay \in {"released", "refunded"}
            \/ /\ order[o].shape.method = "cod"
               /\ order[o].pay = "unpaid" /\ order'[o].pay = "released"
<1>1. ASSUME OrderInv, [Next]_vars, NEW o \in Orders PROVE Final(o) /\ Forward(o)
  <2> SUFFICES ASSUME IntactStep(o) PROVE Final(o) /\ Forward(o)
    OBVIOUS
  <2>1. CASE Unmoved(o)
    BY <2>1 DEF Unmoved
  <2>2. CASE MovesDown(o)
    <3>1. /\ order[o] \in Row /\ order[o].pay \in Payments
          /\ order[o].shape.method \in {"escrow", "cod"}
      BY <2>2, ShapesAssumption DEF MovesDown, Row, Shape
    <3>2. StatusAgreesWithWork(order[o]) /\ StatusAgreesWithPayment(order[o])
      BY <1>1, <2>2 DEF OrderInv, LifeInv, WorkAgrees, SettlementInv,
         IntactOrders, InOrder, MovesDown
    <3>3. CASE Rests(o) \/ AdjustmentAsked(o) \/ AdjustmentAnswered(o)
      BY <3>1, <3>3 DEF Rests, AdjustmentAsked, AdjustmentAnswered, Becomes, Row
    <3>4. CASE MovesOn(o)
      BY <3>1, <3>4 DEF MovesOn, StatusSteps, Becomes, Row
    <3>5. CASE IsTaken(o)
      BY <3>1, <3>5 DEF IsTaken, Acceptable, Becomes, Row
    <3>6. CASE IsPaid(o)
      BY <3>1, <3>6 DEF IsPaid, Becomes, Row
    <3>7. CASE IsGivenBack(o)
      BY <3>1, <3>7 DEF IsGivenBack, FreedRow, Becomes, Row, Untaken
    <3>8. CASE IsCompleted(o)
      <4>1. \/ order[o].pay = "escrow"
            \/ order[o].pay = "unpaid" /\ order[o].shape.method = "cod"
        <5>1. order[o].status = "delivering"
          BY <3>8 DEF IsCompleted
        <5>2. order[o].pay \notin {"released", "refunded"}
          BY <3>2, <5>1 DEF StatusAgreesWithPayment
        <5>3. order[o].pay = "unpaid" => order[o].shape.method # "escrow"
          BY <3>2, <5>1 DEF StatusAgreesWithPayment
        <5> QED
          BY <3>1, <5>2, <5>3 DEF Payments
      <4>2. order'[o].pay = "released" /\ order[o].status = "delivering"
        BY <3>1, <3>8 DEF IsCompleted, CompletedRow, Becomes, Row
      <4> QED
        BY <4>1, <4>2
    <3>9. CASE IsCancelled(o) \/ CancelledOverPrice(o)
      <4>1. order'[o].status = "cancelled"
        BY <3>1, <3>9 DEF IsCancelled, CancelledOverPrice, CancelledRow, Becomes, Row
      <4>2. order'[o].pay = IF InEscrow(order[o]) THEN "refunded" ELSE order[o].pay
        BY <3>1, <3>9 DEF IsCancelled, CancelledOverPrice, CancelledRow, Becomes, Row
      <4>3. order[o].status = "expired" => order[o].adj = "none"
        BY <3>2 DEF StatusAgreesWithWork, Untaken
      <4> QED
        BY <3>9, <4>1, <4>2, <4>3 DEF IsCancelled, CancelledOverPrice, InEscrow
    <3> QED
      BY <2>2, <3>3, <3>4, <3>5, <3>6, <3>7, <3>8, <3>9 DEF MovesDown, Moves
  <2> HIDE DEF Final, Forward
  <2> QED
    BY <1>1, <2>1, <2>2, IntactStepMoves
<1>2. OrderInv /\ [Next]_vars => [\A o \in Orders : Forward(o)]_vars
  BY <1>1
<1>3. OrderInv /\ [Next]_vars => [\A o \in Orders : Final(o)]_vars
  BY <1>1
<1>4. Spec => PaymentMovesForward
  BY <1>2, OrderInvariance, PTL DEF Spec, PaymentMovesForward
<1>5. Spec => FinalStays
  BY <1>3, OrderInvariance, PTL DEF Spec, FinalStays
<1> QED
  BY <1>4, <1>5 DEF OrderMovesForward
-----------------------------------------------------------------------------
(* What is held for an order follows its row, step by step.                *)

\* A row that keeps its payment status and its price keeps what is held for it.
LEMMA SamePriceFollows ==
    ASSUME NEW row \in Row, NEW new \in Row, NEW amount \in Int,
           new.pay = row.pay, new.cost = row.cost
    PROVE  HeldFollows(row, amount, new, amount)
BY DEF HeldFollows, Row

\* Only the columns the properties look at count.
LEMMA ColumnsFollow ==
    ASSUME NEW a \in Row, NEW b \in Row, SameColumns(a, b), NEW amount, NEW new,
           NEW left, HeldFollows(a, amount, new, left)
    PROVE  HeldFollows(b, amount, new, left)
BY DEF SameColumns, HeldFollows, Gross, TotalPayment

LEMMA LockedFollows ==
    ASSUME TypeInv, NEW o \in Orders, Exists(o), NEW row \in Row, NEW amount \in Int,
           order' = [order EXCEPT ![o] = row], UNCHANGED stale,
           held' = [held EXCEPT ![o] = amount],
           Intact(o) => HeldFollows(order[o], held[o], row, amount)
    PROVE  MoneyFollows
<1>1. order \in [Orders -> Row \cup {NoRow}] /\ held \in [Orders -> Int]
  BY DEF TypeInv, TypeOK
<1> SUFFICES ASSUME NEW x \in Orders, IntactStep(x)
             PROVE  HeldFollows(order[x], held[x], order'[x], held'[x])
  BY DEF MoneyFollows
<1>2. CASE x = o
  BY <1>1, <1>2 DEF IntactStep
<1>3. CASE x # o
  <2>1. /\ order'[x] = order[x] /\ held'[x] = held[x]
        /\ order[x] \in Row /\ held[x] \in Int
    BY <1>1, <1>3 DEF IntactStep, Intact, Exists
  <2> QED
    BY <2>1, SamePriceFollows
<1> QED
  BY <1>2, <1>3

\* A request that writes its row back: while the order stays intact, that row is the
\* one in the table, but for the flag of matching.
LEMMA WriteBackFollows ==
    ASSUME TypeInv, NEW p \in Procs, NEW o \in Orders, NEW snap \in Row,
           Has(p, o, snap), NEW row \in Row, NEW amount \in Int,
           WholeRowWrite(p, row), held' = [held EXCEPT ![o] = amount],
           Intact(o) /\ SameColumns(snap, order[o])
              => HeldFollows(snap, held[o], row, amount)
    PROVE  MoneyFollows
<1>1. /\ order \in [Orders -> Row \cup {NoRow}] /\ held \in [Orders -> Int]
      /\ stale \in [Orders -> 0..MaxStale]
  BY DEF TypeInv, TypeOK
<1>2. order[o] \in Row
  BY RequestKinds DEF Has
<1>3. /\ order' = [order EXCEPT ![o] = row]
      /\ stale' = [stale EXCEPT ![o] =
                      IF Diverged(o, snap) THEN stale[o] + 1 ELSE stale[o]]
  BY DEF WholeRowWrite, Has
<1> SUFFICES ASSUME NEW x \in Orders, IntactStep(x)
             PROVE  HeldFollows(order[x], held[x], order'[x], held'[x])
  BY DEF MoneyFollows
<1>4. CASE x = o
  <2>1. ~Diverged(o, snap)
    BY <1>1, <1>3, <1>4 DEF IntactStep, Intact
  <2>2. order[o] = [snap EXCEPT !.escalated = order[o].escalated]
    BY <2>1 DEF Diverged
  <2>3. SameColumns(snap, order[o])
    BY <2>2 DEF SameColumns, Row
  <2>4. HeldFollows(order[o], held[o], row, amount)
    BY <1>2, <1>4, <2>3, ColumnsFollow DEF IntactStep
  <2> QED
    BY <1>1, <1>3, <1>4, <2>4
<1>5. CASE x # o
  <2>1. /\ order'[x] = order[x] /\ held'[x] = held[x]
        /\ order[x] \in Row /\ held[x] \in Int
    BY <1>1, <1>3, <1>5 DEF IntactStep, Intact, Exists
  <2> QED
    BY <2>1, SamePriceFollows
<1> QED
  BY <1>4, <1>5

LEMMA UntouchedFollows ==
    ASSUME TypeInv, UNCHANGED <<order, held>>
    PROVE  MoneyFollows
<1> SUFFICES ASSUME NEW x \in Orders, IntactStep(x)
             PROVE  HeldFollows(order[x], held[x], order'[x], held'[x])
  BY DEF MoneyFollows
<1>1. order[x] \in Row /\ held[x] \in Int
  BY DEF TypeInv, TypeOK, IntactStep, Intact, Exists
<1> QED
  BY <1>1, SamePriceFollows

\* Requests that write their row back with the price and the payment it had.
LEMMA SamePriceWritten ==
    ASSUME TypeInv, NEW p \in Procs, NEW o \in Orders, NEW snap \in Row,
           Has(p, o, snap), NEW row \in Row, WholeRowWrite(p, row), UNCHANGED held,
           row.pay = snap.pay, row.cost = snap.cost
    PROVE  MoneyFollows
<1>1. held[o] \in Int /\ held' = [held EXCEPT ![o] = held[o]]
  BY DEF TypeInv, TypeOK
<1>2. HeldFollows(snap, held[o], row, held[o])
  BY <1>1, SamePriceFollows
<1> QED
  BY <1>1, <1>2, WriteBackFollows

LEMMA StatusFollows ==
    ASSUME TypeInv, NEW p \in Procs, NEW status \in Statuses, SetStatus(p, status),
           req[p] # Idle, req[p].op \in AcceptSteps \cup WriterSteps
    PROVE  MoneyFollows
<1>1. PICK o \in Orders, snap \in Row : Has(p, o, snap)
  BY RequestHas
<1> DEFINE row == [snap EXCEPT !.status = status]
<1>2. row \in Row /\ row.pay = snap.pay /\ row.cost = snap.cost
  BY DEF Row
<1>3. WholeRowWrite(p, row) /\ UNCHANGED held
  BY <1>1 DEF SetStatus, Has, money
<1> QED
  BY <1>1, <1>2, <1>3, SamePriceWritten

LEMMA SetStatusFollows ==
    ASSUME TypeInv, NEW p \in Procs,
           \/ MerchantAcceptWrite(p) \/ MerchantReadyWrite(p)
           \/ SubmitPurchaseReceiptWrite(p) \/ PickupOrderWrite(p)
           \/ DisputeOrderWrite(p)
    PROVE  MoneyFollows
<1>1. req[p] # Idle /\ req[p].op \in AcceptSteps \cup WriterSteps
  BY DEF MerchantAcceptWrite, MerchantReadyWrite, SubmitPurchaseReceiptWrite,
     PickupOrderWrite, DisputeOrderWrite, In, WriterSteps
<1>2. {"merchant_accepted", "ready", "purchasing", "delivering", "disputed"}
         \subseteq Statuses
  BY DEF Statuses
<1>3. \E status \in Statuses : SetStatus(p, status)
  BY <1>2 DEF MerchantAcceptWrite, MerchantReadyWrite, SubmitPurchaseReceiptWrite,
     PickupOrderWrite, DisputeOrderWrite
<1> QED
  BY <1>1, <1>3, StatusFollows

LEMMA SameRowFollows ==
    ASSUME TypeInv, NEW p \in Procs, RefreshQRISWrite(p) \/ EscalateMatchingWrite(p)
    PROVE  MoneyFollows
<1>1. req[p] # Idle /\ req[p].op \in AcceptSteps \cup WriterSteps
  BY DEF RefreshQRISWrite, EscalateMatchingWrite, In, WriterSteps
<1>2. PICK o \in Orders, snap \in Row : Has(p, o, snap)
  BY <1>1, RequestHas
<1>3. UNCHANGED held
  BY DEF RefreshQRISWrite, EscalateMatchingWrite, money
<1>4. CASE RefreshQRISWrite(p)
  BY <1>2, <1>3, <1>4, SamePriceWritten DEF RefreshQRISWrite, Has
<1>5. CASE EscalateMatchingWrite(p)
  <2> DEFINE row == [snap EXCEPT !.escalated = TRUE]
  <2>1. row \in Row /\ row.pay = snap.pay /\ row.cost = snap.cost
    BY DEF Row
  <2>2. WholeRowWrite(p, row)
    BY <1>2, <1>5 DEF EscalateMatchingWrite, Has
  <2> QED
    BY <1>2, <1>3, <2>1, <2>2, SamePriceWritten
<1> QED
  BY <1>4, <1>5

LEMMA AcceptFollows ==
    ASSUME TypeInv, NEW p \in Procs, NEW onTrip \in BOOLEAN,
           AcceptOrderCommit(p, onTrip)
    PROVE  MoneyFollows
<1>1. req[p] # Idle /\ req[p].op \in AcceptSteps
  BY DEF AcceptOrderCommit, In, AcceptSteps
<1>2. PICK o \in Orders, snap \in Row : Has(p, o, snap)
  BY <1>1, RequestHas
<1>3. PICK r \in Runners : req[p].by = r
  BY <1>1, RequestKinds
<1>4. Acceptable(snap)
  BY <1>1, <1>2, RequestKinds DEF Sound, Remembers, Has
<1> DEFINE row == [snap EXCEPT !.runner = r, !.status = AcceptedStatus(snap),
                               !.trip = IF onTrip THEN r ELSE @]
<1>5. WholeRowWrite(p, row) /\ UNCHANGED held
  BY <1>2, <1>3 DEF AcceptOrderCommit, Has
<1>6. AcceptedStatus(snap) \in Statuses
  BY <1>4 DEF Acceptable, AcceptedStatus, Statuses
<1>7. row \in Row /\ row.pay = snap.pay /\ row.cost = snap.cost
  BY <1>6 DEF Row
<1> HIDE DEF row
<1> QED
  BY <1>2, <1>5, <1>7, SamePriceWritten

LEMMA AskingFollows ==
    ASSUME TypeInv, NEW p \in Procs, NEW price \in AdjustedCosts,
           RequestPriceAdjustmentWrite(p, price)
    PROVE  MoneyFollows
<1>1. req[p] # Idle /\ req[p].op \in AcceptSteps \cup WriterSteps
  BY DEF RequestPriceAdjustmentWrite, In, WriterSteps
<1>2. PICK o \in Orders, snap \in Row : Has(p, o, snap)
  BY <1>1, RequestHas
<1> DEFINE row == [snap EXCEPT !.adj = "pending", !.adjCost = price]
<1>3. row \in Row /\ row.pay = snap.pay /\ row.cost = snap.cost
  BY ParametersAssumption DEF Row, Adjustments
<1>4. WholeRowWrite(p, row) /\ UNCHANGED held
  BY <1>2 DEF RequestPriceAdjustmentWrite, Has, money
<1> QED
  BY <1>2, <1>3, <1>4, SamePriceWritten

LEMMA RefusalFollows ==
    ASSUME TypeInv, NEW p \in Procs, RejectPriceAdjustmentKeep(p)
    PROVE  MoneyFollows
<1>1. req[p] # Idle /\ req[p].op \in AcceptSteps \cup WriterSteps
  BY DEF RejectPriceAdjustmentKeep, In, WriterSteps
<1>2. PICK o \in Orders, snap \in Row : Has(p, o, snap)
  BY <1>1, RequestHas
<1> DEFINE row == [snap EXCEPT !.adj = "rejected"]
<1>3. row \in Row /\ row.pay = snap.pay /\ row.cost = snap.cost
  BY DEF Row, Adjustments
<1>4. WholeRowWrite(p, row) /\ UNCHANGED held
  BY <1>2 DEF RejectPriceAdjustmentKeep, Has, money
<1> QED
  BY <1>2, <1>3, <1>4, SamePriceWritten

\* An approved price: its difference is taken where the platform holds the money.
LEMMA ApprovalFollows ==
    ASSUME SettlementInv, NEW p \in Procs, ApprovePriceAdjustmentCommit(p)
    PROVE  MoneyFollows
<1>1. TypeInv
  BY DEF SettlementInv
<1>2. req[p] # Idle /\ req[p].op \in AcceptSteps \cup WriterSteps
  BY DEF ApprovePriceAdjustmentCommit, In, WriterSteps
<1>3. PICK o \in Orders, snap \in Row : Has(p, o, snap)
  BY <1>1, <1>2, RequestHas
<1> DEFINE row == [snap EXCEPT !.cost = snap.adjCost, !.adj = "accepted"]
           diff == IF snap.shape.method = "escrow"
                   THEN snap.adjCost - snap.cost ELSE 0
<1>4. /\ row \in Row /\ row.pay = snap.pay /\ row.cost = snap.adjCost
      /\ snap.adjCost \in Nat /\ snap.cost \in Nat
      /\ snap.shape.method \in {"escrow", "cod"}
  BY ShapesAssumption DEF Row, Adjustments, Shape
<1>5. WholeRowWrite(p, row) /\ held' = [held EXCEPT ![o] = @ + diff]
  BY <1>3 DEF ApprovePriceAdjustmentCommit, Has
<1>6. held[o] \in Int
  BY <1>1 DEF TypeInv, TypeOK
<1>7. diff \in Int /\ held[o] + diff \in Int
  BY <1>4, <1>6
<1>8. HeldFollows(snap, held[o], row, held[o] + diff)
  <2>1. snap.adjCost > snap.cost
    <3>1. snap.adj = "pending" /\ PricedUp(snap)
      BY <1>1, <1>2, <1>3, RequestKinds
      DEF Sound, Remembers, Has, ApprovePriceAdjustmentCommit, In
    <3> QED
      BY <3>1 DEF PricedUp
  <2> QED
    BY <1>4, <1>6, <2>1 DEF HeldFollows
<1> HIDE DEF row, diff
<1> QED
  BY <1>1, <1>3, <1>4, <1>5, <1>7, <1>8, WriteBackFollows

\* What a cancellation takes from what is held.
LEMMA CancelledFollows ==
    ASSUME NEW row \in Row, NEW amount \in Int, NEW new \in Row,
           new.pay = CancelledRow(row).pay, new.cost = row.cost,
           row.pay = "escrow" => row.shape.method = "escrow"
    PROVE  HeldFollows(row, amount, new,
                       amount - (IF InEscrow(row) THEN Gross(row) ELSE 0))
<1>1. CancelledRow(row).pay = IF InEscrow(row) THEN "refunded" ELSE row.pay
  BY DEF CancelledRow, Row
<1>2. row.cost \in Nat
  BY DEF Row
<1> QED
  BY <1>1, <1>2 DEF HeldFollows, InEscrow

LEMMA RejectionFollows ==
    ASSUME SettlementInv, NEW p \in Procs, RejectPriceAdjustmentCancel(p)
    PROVE  MoneyFollows
<1>1. TypeInv
  BY DEF SettlementInv
<1>2. req[p] # Idle /\ req[p].op \in AcceptSteps \cup WriterSteps
  BY DEF RejectPriceAdjustmentCancel, In, WriterSteps
<1>3. PICK o \in Orders, snap \in Row : Has(p, o, snap)
  BY <1>1, <1>2, RequestHas
<1> DEFINE row == [CancelledRow(snap) EXCEPT !.adj = "rejected"]
           out == IF InEscrow(snap) THEN Gross(snap) ELSE 0
<1>4. /\ row \in Row /\ row.pay = CancelledRow(snap).pay /\ row.cost = snap.cost
  BY DEF Row, CancelledRow, Statuses, Payments, Adjustments
<1>5. WholeRowWrite(p, row) /\ held' = [held EXCEPT ![o] = held[o] - out]
  <2>1. PricedUp(snap)
    BY <1>1, <1>2, <1>3, RequestKinds DEF Has
  <2> QED
    BY <1>3, <2>1, SettlementSums
    DEF RejectPriceAdjustmentCancel, SettleOnly, Has
<1>6. held[o] \in Int /\ held[o] - out \in Int
  BY <1>1, ShapesAssumption DEF TypeInv, TypeOK, Gross, Row, Shape
<1>7. ASSUME Intact(o), SameColumns(snap, order[o])
      PROVE  HeldFollows(snap, held[o], row, held[o] - out)
  <2>1. StatusAgreesWithPayment(order[o])
    BY <1>7 DEF SettlementInv, IntactOrders, InOrder
  <2>2. snap.shape.method \in {"escrow", "cod"}
    BY ShapesAssumption DEF Row, Shape
  <2>3. snap.pay = "escrow" => snap.shape.method = "escrow"
    BY <1>7, <2>1, <2>2 DEF StatusAgreesWithPayment, SameColumns
  <2> QED
    BY <1>4, <1>6, <2>3, CancelledFollows
<1> HIDE DEF row, out
<1> QED
  BY <1>1, <1>3, <1>4, <1>5, <1>6, <1>7, WriteBackFollows

-----------------------------------------------------------------------------
(* Transactions that lock the row.                                         *)

LEMMA CancelTxFollows ==
    ASSUME SettlementInv, NEW o \in Orders, Exists(o), NEW pay,
           Sum(pay) = Gross(order[o]), CancelTx(o, pay)
    PROVE  MoneyFollows
<1> DEFINE row == order[o]
           new == CancelledRow(row)
           out == IF InEscrow(row) THEN Gross(row) ELSE 0
<1>1. TypeInv /\ row \in Row /\ PricedUp(row) /\ held \in [Orders -> Int]
  BY DEF SettlementInv, TypeInv, TypeOK, PricesOnlyRise, Exists
<1>2. out \in Int /\ held[o] - out \in Int
  BY <1>1, ShapesAssumption DEF Row, Shape, Gross
<1>3. order' = [order EXCEPT ![o] = new] /\ UNCHANGED stale
  BY DEF CancelTx, LockedWrite
<1>4. held' = [held EXCEPT ![o] = held[o] - out]
  BY <1>1, SettlementSums DEF CancelTx, Settle
<1>5. new \in Row /\ new.cost = row.cost
  BY <1>1 DEF CancelledRow, Row, Statuses, Payments
<1>6. ASSUME Intact(o) PROVE HeldFollows(row, held[o], new, held[o] - out)
  <2>1. StatusAgreesWithPayment(row) /\ row.shape.method \in {"escrow", "cod"}
    BY <1>1, <1>6, ShapesAssumption
    DEF SettlementInv, IntactOrders, InOrder, Row, Shape
  <2>2. row.pay = "escrow" => row.shape.method = "escrow"
    BY <2>1 DEF StatusAgreesWithPayment
  <2> QED
    BY <1>1, <1>5, <2>2, CancelledFollows
<1> HIDE DEF new, out
<1> QED
  BY <1>1, <1>2, <1>3, <1>4, <1>5, <1>6, LockedFollows

LEMMA CancelsFollow ==
    ASSUME SettlementInv,
           \/ \E p \in Procs : CancelOrderCommit(p) \/ FinalCancelAfterReassignLimit(p)
           \/ \E o \in Orders : ForceCancelOrder(o) \/ AutoCancelOrder(o)
    PROVE  MoneyFollows
<1>1. ASSUME NEW p \in Procs,
             CancelOrderCommit(p) \/ FinalCancelAfterReassignLimit(p)
      PROVE  MoneyFollows
  <2> DEFINE o == req[p].o
  <2>1. o \in Orders /\ order[o] \in Row /\ PricedUp(order[o])
    BY <1>1, RequestKinds
    DEF CancelOrderCommit, FinalCancelAfterReassignLimit, In, SettlementInv
  <2>2. Exists(o)
    BY <2>1, AccountsAssumption DEF Exists
  <2>3. PICK pay : CancelTx(o, pay) /\ Sum(pay) = Gross(order[o])
    BY <1>1, <2>1, SettlementSums
    DEF CancelOrderCommit, FinalCancelAfterReassignLimit
  <2> QED
    BY <2>1, <2>2, <2>3, CancelTxFollows
<1>2. ASSUME NEW o \in Orders, ForceCancelOrder(o) \/ AutoCancelOrder(o)
      PROVE  MoneyFollows
  <2>1. Exists(o) /\ CancelTx(o, RefundEscrow(order[o]))
    BY <1>2 DEF ForceCancelOrder, AutoCancelOrder, ForceCancelTx
  <2>2. order[o] \in Row /\ PricedUp(order[o])
    BY <2>1 DEF SettlementInv, TypeInv, TypeOK, PricesOnlyRise, Exists
  <2> QED
    BY <2>1, <2>2, SettlementSums, CancelTxFollows
<1> QED
  BY <1>1, <1>2

LEMMA CompletionFollows ==
    ASSUME SettlementInv, NEW p \in Procs, CompleteOrderCommit(p)
    PROVE  MoneyFollows
<1> DEFINE o == req[p].o
           row == order[o]
           out == IF row.shape.method = "cod" THEN 0 ELSE Gross(row)
           done == CompletedRow(row)
<1>1. /\ TypeInv /\ o \in Orders /\ row \in Row /\ PricedUp(row)
      /\ held \in [Orders -> Int]
  BY RequestKinds DEF CompleteOrderCommit, In, SettlementInv, TypeInv, TypeOK
<1>2. out \in Int /\ held[o] - out \in Int
  BY <1>1, ShapesAssumption DEF Row, Shape, Gross
<1>3. held' = [held EXCEPT ![o] = held[o] - out]
  <2>1. Sum(CompletionPayout(row)) = out
    BY <1>1, SettlementSums DEF CompletionPayout
  <2> QED
    BY <2>1 DEF CompleteOrderCommit
<1>4. /\ order' = [order EXCEPT ![o] = done] /\ UNCHANGED stale
      /\ row.status = "delivering"
  BY DEF CompleteOrderCommit, LockedWrite
<1>5. done \in Row /\ done.pay = "released" /\ done.cost = row.cost
  BY <1>1 DEF CompletedRow, Row, Statuses, Payments
<1>6. ASSUME Intact(o) PROVE HeldFollows(row, held[o], done, held[o] - out)
  <2>1. StatusAgreesWithPayment(row)
    BY <1>1, <1>6 DEF SettlementInv, IntactOrders, InOrder
  <2>2. /\ row.shape.method \in {"escrow", "cod"} /\ row.pay \in Payments
        /\ row.cost \in Nat
    BY <1>1, ShapesAssumption DEF Row, Shape
  <2>3. IF row.shape.method = "cod" THEN row.pay = "unpaid" ELSE row.pay = "escrow"
    BY <1>4, <2>1, <2>2 DEF StatusAgreesWithPayment, Payments
  <2> HIDE DEF done, row
  <2> QED
    BY <1>1, <1>5, <2>2, <2>3 DEF HeldFollows
<1>7. Exists(o)
  BY <1>1, AccountsAssumption DEF Exists
<1> HIDE DEF done, out, o
<1> QED
  BY <1>1, <1>2, <1>3, <1>4, <1>5, <1>6, <1>7, LockedFollows

LEMMA ReassignFollows ==
    ASSUME SettlementInv, NEW p \in Procs, NEW counted \in BOOLEAN,
           ReassignOrderCommit(p, counted)
    PROVE  MoneyFollows
<1> DEFINE o == req[p].o
           freed == FreedRow(order[o])
<1>1. TypeInv /\ o \in Orders /\ order[o] \in Row /\ held \in [Orders -> Int]
  BY RequestKinds DEF ReassignOrderCommit, In, SettlementInv, TypeInv, TypeOK
<1>2. Sum(NoPayout) = 0 /\ held[o] - 0 = held[o]
  BY <1>1 DEF Sum, NoPayout, Payout
<1>3. held' = [held EXCEPT ![o] = held[o]]
  <2>1. held' = [held EXCEPT ![o] = held[o] - Sum(NoPayout)]
    BY DEF ReassignOrderCommit, Settle
  <2> QED
    BY <1>2, <2>1
<1>4. order' = [order EXCEPT ![o] = freed] /\ UNCHANGED stale
  BY DEF ReassignOrderCommit, LockedWrite
<1>5. freed \in Row /\ freed.pay = order[o].pay /\ freed.cost = order[o].cost
  BY <1>1 DEF FreedRow, Row
<1>6. Exists(o)
  BY <1>1, AccountsAssumption DEF Exists
<1>7. held[o] \in Int
  BY <1>1
<1>8. HeldFollows(order[o], held[o], freed, held[o])
  BY <1>1, <1>5, <1>7, SamePriceFollows
<1> HIDE DEF freed, o
<1> QED
  BY <1>1, <1>3, <1>4, <1>5, <1>6, <1>7, <1>8, LockedFollows

\* A step on one order's row, locked or by single columns, that is not a settlement.
LEMMA EventsFollow ==
    ASSUME SettlementInv, NEW o \in Orders,
           \/ ProcessPayment(o) \/ ExpireOldOrder(o)
           \/ \E side \in {"requester", "runner"} : ResolveDispute(o, side)
    PROVE  MoneyFollows
<1> DEFINE row == order[o]
<1>1. /\ TypeInv /\ Exists(o) /\ row \in Row /\ PricedUp(row)
      /\ held \in [Orders -> Int] /\ held[o] \in Int
  BY DEF SettlementInv, TypeInv, TypeOK, PricesOnlyRise, Exists, ProcessPayment,
     ExpireOldOrder, ResolveDispute
<1>2. CASE ProcessPayment(o)
  <2> DEFINE paid == [row EXCEPT !.pay = "escrow"]
             amount == held[o] + TotalPayment(row)
  <2>1. /\ paid \in Row /\ paid.pay = "escrow"
        /\ row.cost \in Nat /\ paid.cost = row.cost
    BY <1>1 DEF Row, Payments
  <2>2. /\ order' = [order EXCEPT ![o] = paid] /\ UNCHANGED stale
        /\ held' = [held EXCEPT ![o] = amount] /\ row.pay = "unpaid"
    BY <1>2 DEF ProcessPayment, LockedWrite
  <2>3. amount \in Int
    BY <1>1, ShapesAssumption
    DEF TotalPayment, ListPrice, AtLeastZero, Gross, Row, Shape
  <2>4. HeldFollows(row, held[o], paid, amount)
    BY <2>1, <2>2 DEF HeldFollows
  <2> HIDE DEF paid, amount
  <2> QED
    BY <1>1, <2>1, <2>2, <2>3, <2>4, LockedFollows
<1>3. CASE ExpireOldOrder(o)
  <2> DEFINE gone == [row EXCEPT !.status = "expired"]
  <2>1. gone \in Row /\ gone.pay = row.pay /\ gone.cost = row.cost
    BY <1>1 DEF Row, Statuses
  <2>2. /\ order' = [order EXCEPT ![o] = gone] /\ UNCHANGED stale
        /\ held' = [held EXCEPT ![o] = held[o]]
    BY <1>1, <1>3 DEF ExpireOldOrder, LockedWrite, money
  <2>3. HeldFollows(row, held[o], gone, held[o])
    BY <1>1, <2>1, SamePriceFollows
  <2> HIDE DEF gone
  <2> QED
    BY <1>1, <2>1, <2>2, <2>3, LockedFollows
<1>4. ASSUME NEW side, ResolveDispute(o, side) PROVE MoneyFollows
  <2>1. row.status = "disputed" /\ (Intact(o) => row.pay = "released")
    BY <1>4 DEF ResolveDispute, SettlementInv, IntactOrders, InOrder,
       StatusAgreesWithPayment
  <2>2. /\ order' = [order EXCEPT ![o] = order'[o]] /\ UNCHANGED stale
        /\ order'[o] \in Row
        /\ held' = [held EXCEPT ![o] = held'[o]] /\ held'[o] \in Int
        /\ Intact(o) => /\ order'[o].pay = row.pay /\ order'[o].cost = row.cost
                        /\ held'[o] = held[o]
    <3>1. /\ Gross(row) \in Int /\ Sum(RefundEscrow(row)) = Gross(row)
          /\ Sum(ReleaseEscrowWithRefund(row)) = Gross(row)
          /\ order \in [Orders -> Row \cup {NoRow}]
      BY <1>1, SettlementSums, ShapesAssumption DEF Row, Shape, Gross, TypeInv, TypeOK
    <3>2. CASE ResolveForRequester(o)
      <4> DEFINE new == [row EXCEPT !.status = "cancelled", !.pay = "refunded"]
      <4>1. new \in Row
        BY <1>1 DEF Row, Statuses, Payments
      <4>2. /\ order' = [order EXCEPT ![o] = new] /\ UNCHANGED stale
            /\ held' = [held EXCEPT ![o] = held[o] - Gross(row)]
            /\ row.pay = "escrow"
        BY <3>1, <3>2 DEF ResolveForRequester, SettleOnly, LockedWrite
      <4> HIDE DEF new
      <4> QED
        BY <1>1, <2>1, <3>1, <4>1, <4>2
    <3>3. CASE ResolveForRunner(o)
      <4> DEFINE new == [row EXCEPT !.status = "completed", !.pay = "released"]
      <4>1. new \in Row
        BY <1>1 DEF Row, Statuses, Payments
      <4>2. /\ order' = [order EXCEPT ![o] = new] /\ UNCHANGED stale
            /\ held' = [held EXCEPT ![o] = held[o] - Gross(row)]
            /\ row.pay = "escrow"
        BY <3>1, <3>3 DEF ResolveForRunner, Settle, LockedWrite
      <4> HIDE DEF new
      <4> QED
        BY <1>1, <2>1, <3>1, <4>1, <4>2
    <3>4. CASE ResolveCOD(o)
      <4> DEFINE new == [row EXCEPT !.status = "completed"]
      <4>1. new \in Row /\ new.pay = row.pay /\ new.cost = row.cost
        BY <1>1 DEF Row, Statuses
      <4>2. /\ order' = [order EXCEPT ![o] = new] /\ UNCHANGED stale
            /\ UNCHANGED held
        BY <3>4 DEF ResolveCOD, LockedWrite, money
      <4> HIDE DEF new
      <4> QED
        BY <1>1, <3>1, <4>1, <4>2
    <3> QED
      BY <1>4, <3>2, <3>3, <3>4 DEF ResolveDispute
  <2>3. Intact(o) => HeldFollows(row, held[o], order'[o], held'[o])
    BY <1>1, <2>2, SamePriceFollows
  <2> QED
    BY <1>1, <2>2, <2>3, LockedFollows
<1> QED
  BY <1>2, <1>3, <1>4

\* A new order changes no other.
LEMMA CreateFollows ==
    ASSUME SettlementInv, NEW o \in Orders, NEW s \in Shapes, Create(o, s)
    PROVE  MoneyFollows
<1> SUFFICES ASSUME NEW x \in Orders, IntactStep(x)
             PROVE  HeldFollows(order[x], held[x], order'[x], held'[x])
  BY DEF MoneyFollows
<1>1. /\ order \in [Orders -> Row \cup {NoRow}] /\ held \in [Orders -> Int]
  BY DEF SettlementInv, TypeInv, TypeOK
<1>2. x # o
  BY DEF Create, IntactStep, Intact
<1>3. order'[x] = order[x] /\ held'[x] = held[x]
  BY <1>1, <1>2 DEF Create
<1>4. order[x] \in Row /\ held[x] \in Int
  BY <1>1 DEF IntactStep, Intact, Exists
<1> QED
  BY <1>3, <1>4, SamePriceFollows

LEMMA NextFollows == ASSUME SettlementInv, [Next]_vars PROVE MoneyFollows
<1>1. TypeInv
  BY DEF SettlementInv
<1>2. CASE \/ \E p \in Procs, o \in Orders : Read(p, o)
           \/ Scan
           \/ UNCHANGED vars
  <2>1. UNCHANGED <<table, money>>
    BY <1>2 DEF Read, RefreshQRISRead, MerchantAcceptRead, MerchantReadyRead,
       DisputeOrderRead, ApprovePriceAdjustmentRead, RejectPriceAdjustmentRead,
       EscalateMatchingRead, CancelOrderRead, AcceptOrderRead,
       SubmitPurchaseReceiptRead, PickupOrderRead, CompleteOrderRead,
       ReassignOrderRead, RequestPriceAdjustmentRead, Load, Peek, Scan,
       EscalateScan, AutoCancelScan, vars, table, money
  <2> QED
    BY <1>1, <2>1, UntouchedFollows DEF table, money
<1>3. ASSUME NEW p \in Procs, Step(p) PROVE MoneyFollows
  <2>1. CASE AcceptOrderCheck(p) \/ ReassignOrderLimit(p) \/ Abort(p) \/ Crash(p)
    BY <1>1, <2>1, UntouchedFollows
    DEF AcceptOrderCheck, ReassignOrderLimit, Abort, Crash, table, money
  <2>2. CASE \/ MerchantAcceptWrite(p) \/ MerchantReadyWrite(p)
             \/ SubmitPurchaseReceiptWrite(p) \/ PickupOrderWrite(p)
             \/ DisputeOrderWrite(p)
    BY <1>1, <2>2, SetStatusFollows
  <2>3. CASE RefreshQRISWrite(p) \/ EscalateMatchingWrite(p)
    BY <1>1, <2>3, SameRowFollows
  <2>4. CASE \/ \E onTrip \in BOOLEAN : AcceptOrderCommit(p, onTrip)
             \/ CompleteOrderCommit(p)
             \/ \E counted \in BOOLEAN : ReassignOrderCommit(p, counted)
    BY <1>1, <2>4, AcceptFollows, CompletionFollows, ReassignFollows
  <2>5. CASE CancelOrderCommit(p) \/ FinalCancelAfterReassignLimit(p)
    BY <2>5, CancelsFollow
  <2>6. CASE \/ \E price \in AdjustedCosts : RequestPriceAdjustmentWrite(p, price)
             \/ ApprovePriceAdjustmentCommit(p)
             \/ RejectPriceAdjustmentKeep(p)
             \/ RejectPriceAdjustmentCancel(p)
    BY <1>1, <2>6, AskingFollows, ApprovalFollows, RefusalFollows, RejectionFollows
  <2> QED
    BY <1>3, <2>1, <2>2, <2>3, <2>4, <2>5, <2>6 DEF Step
<1>4. ASSUME NEW o \in Orders, Event(o) PROVE MoneyFollows
  <2>1. CASE AutoCancelSkip(o) \/ AcceptLockExpire(o) \/ ReassignCountExpire(o)
    BY <1>1, <2>1, UntouchedFollows
    DEF AutoCancelSkip, AcceptLockExpire, ReassignCountExpire, table, money
  <2>2. CASE ForceCancelOrder(o) \/ AutoCancelOrder(o)
    BY <2>2, CancelsFollow
  <2>3. CASE \E s \in Shapes : Create(o, s)
    BY <2>3, CreateFollows
  <2>4. CASE \/ ProcessPayment(o) \/ ExpireOldOrder(o)
             \/ \E side \in {"requester", "runner"} : ResolveDispute(o, side)
    BY <2>4, EventsFollow
  <2> QED
    BY <1>4, <2>1, <2>2, <2>3, <2>4 DEF Event
<1> QED
  BY <1>2, <1>3, <1>4 DEF Next

\* Prices only rise, and what is held follows the row, at every step of an order no
\* request has undone.
THEOREM MoneyAlwaysFollows == Spec => MoneySteps
<1>1. SettlementInv /\ [Next]_vars => [MoneyFollows]_vars
  BY NextFollows
<1> QED
  BY <1>1, SettlementInvariance, PTL DEF Spec, MoneySteps

-----------------------------------------------------------------------------
(* OrderEscrow implements OrderMoney.                                      *)

\* What happens to an order's row, as far as its money is concerned.
SameBooks(row, new) ==
    /\ new.pay = row.pay /\ new.cost = row.cost
    /\ new.adj = "accepted" <=> row.adj = "accepted"
PaidBooks(row, new) ==
    /\ row.shape.method = "escrow" /\ row.pay = "unpaid" /\ new.pay = "escrow"
    /\ new.cost = row.cost /\ new.adj = row.adj
ClosedBooks(row, new) ==
    /\ \/ row.pay = "escrow" /\ new.pay \in {"released", "refunded"}
       \/ /\ row.shape.method = "cod"
          /\ row.pay = "unpaid" /\ new.pay = "released"
    /\ new.cost = row.cost
    /\ new.adj = "accepted" <=> row.adj = "accepted"
RaisedBooks(row, new) ==
    new.pay = row.pay /\ row.adj # "accepted" /\ new.adj = "accepted"

\* Every move of an intact order is one of these four.
LEMMA MovesKeepBooks ==
    ASSUME OrderInv, NEW o \in Orders, MovesDown(o)
    PROVE  /\ order'[o].shape = order[o].shape
           /\ \/ SameBooks(order[o], order'[o])
              \/ PaidBooks(order[o], order'[o])
              \/ ClosedBooks(order[o], order'[o])
              \/ RaisedBooks(order[o], order'[o])
<1>1. /\ order[o] \in Row /\ order[o].pay \in Payments
      /\ order[o].shape.method \in {"escrow", "cod"}
  BY ShapesAssumption DEF MovesDown, Row, Shape
<1>2. StatusAgreesWithPayment(order[o]) /\ StatusAgreesWithWork(order[o])
  BY DEF OrderInv, LifeInv, WorkAgrees, SettlementInv, IntactOrders, InOrder, MovesDown
<1>3. CASE Rests(o) \/ MovesOn(o) \/ IsTaken(o) \/ IsGivenBack(o)
  BY <1>1, <1>3 DEF Rests, MovesOn, IsTaken, IsGivenBack, FreedRow, Becomes, Row, SameBooks
<1>4. CASE IsPaid(o)
  BY <1>1, <1>4 DEF IsPaid, Becomes, Row, PaidBooks
<1>5. CASE IsCompleted(o)
  <2>1. \/ order[o].pay = "escrow"
        \/ order[o].pay = "unpaid" /\ order[o].shape.method = "cod"
    <3>1. order[o].status = "delivering"
      BY <1>5 DEF IsCompleted
    <3>2. order[o].pay \notin {"released", "refunded"}
      BY <1>2, <3>1 DEF StatusAgreesWithPayment
    <3>3. order[o].pay = "unpaid" => order[o].shape.method # "escrow"
      BY <1>2, <3>1 DEF StatusAgreesWithPayment
    <3> QED
      BY <1>1, <3>2, <3>3 DEF Payments
  <2>2. /\ order'[o].shape = order[o].shape /\ order'[o].pay = "released"
        /\ order'[o].cost = order[o].cost /\ order'[o].adj = order[o].adj
    BY <1>1, <1>5 DEF IsCompleted, CompletedRow, Becomes, Row
  <2> QED
    BY <2>1, <2>2 DEF ClosedBooks
<1>6. CASE IsCancelled(o) \/ CancelledOverPrice(o)
  <2>1. /\ order'[o].shape = order[o].shape /\ order'[o].cost = order[o].cost
        /\ order'[o].pay = IF InEscrow(order[o]) THEN "refunded" ELSE order[o].pay
        /\ order'[o].adj = "accepted" <=> order[o].adj = "accepted"
    BY <1>1, <1>6 DEF IsCancelled, CancelledOverPrice, CancelledRow, Becomes, Row
  <2> QED
    BY <2>1 DEF InEscrow, SameBooks, ClosedBooks
<1>7. CASE AdjustmentAsked(o)
  BY <1>1, <1>7 DEF AdjustmentAsked, Becomes, Row, SameBooks
<1>8. CASE AdjustmentAnswered(o)
  BY <1>1, <1>8 DEF AdjustmentAnswered, Becomes, Row, SameBooks, RaisedBooks
<1> QED
  BY <1>3, <1>4, <1>5, <1>6, <1>7, <1>8 DEF MovesDown, Moves

\* An orderly row makes an account: what is due is never less than nothing.
LEMMA BookedIsAccount ==
    ASSUME NEW row \in Row, NEW amount \in Int, InOrder(row, amount)
    PROVE  Booked(row, amount) \in Promise!Account
<1>1. /\ row.shape.method \in {"escrow", "cod"} /\ Gross(row) \in Nat
      /\ row.pay \in Payments /\ Allowance(row.shape) \in Nat
  BY ShapesAssumption, AllowanceNatural DEF Row, Shape, Gross
<1>2. Due(row, amount) \in Nat
  <2>1. CASE row.pay = "unpaid"
    BY <1>1, <2>1 DEF Due
  <2>2. CASE row.pay # "unpaid" /\ row.shape.method = "cod"
    BY <2>2 DEF Due, InOrder, HeldAgreesWithPayment
  <2>3. CASE row.pay # "unpaid" /\ row.shape.method = "escrow"
    <3>1. Due(row, amount) = amount + Allowance(row.shape)
      BY <2>3 DEF Due
    <3>2. CASE row.pay = "escrow"
      BY <1>1, <3>1, <3>2 DEF InOrder, HeldAgreesWithPayment
    <3>3. CASE row.pay \in {"released", "refunded"}
      BY <1>1, <2>3, <3>1, <3>3 DEF InOrder, HeldAgreesWithPayment
    <3> QED
      BY <1>1, <2>3, <3>2, <3>3 DEF Payments
  <2> QED
    BY <1>1, <2>1, <2>2, <2>3
<1>3. Phase(row) \in {"asked", "held", "settled"}
  BY DEF Phase
<1> QED
  BY <1>2, <1>3 DEF Booked, Promise!Account

\* What each of them does to the account.
LEMMA SameBooksRest ==
    ASSUME NEW row \in Row, NEW new \in Row, NEW amount \in Int, NEW left \in Int,
           new.shape = row.shape, SameBooks(row, new),
           HeldFollows(row, amount, new, left)
    PROVE  Booked(new, left) = Booked(row, amount)
<1>1. row.cost \in Nat
  BY DEF Row
<1>2. left = amount
  BY <1>1 DEF SameBooks, HeldFollows
<1>3. Phase(new) = Phase(row) /\ Due(new, left) = Due(row, amount)
  BY <1>2 DEF Phase, Due, Gross, SameBooks
<1> QED
  BY <1>3 DEF Booked, SameBooks

LEMMA PaidBooksReceive ==
    ASSUME NEW row \in Row, NEW new \in Row, NEW amount \in Int, NEW left \in Int,
           new.shape = row.shape, PaidBooks(row, new), InOrder(new, left)
    PROVE  /\ Booked(row, amount).phase = "asked"
           /\ Booked(new, left) = [Booked(row, amount) EXCEPT !.phase = "held"]
<1>1. Phase(row) = "asked" /\ Phase(new) = "held"
  BY DEF PaidBooks, Phase
<1>2. Due(row, amount) = Gross(row)
  BY DEF PaidBooks, Due
<1>3. Due(new, left) = Gross(new)
  BY DEF PaidBooks, Due, InOrder, HeldAgreesWithPayment
<1>4. Gross(new) = Gross(row)
  BY DEF PaidBooks, Gross
<1> QED
  BY <1>1, <1>2, <1>3, <1>4 DEF Booked, PaidBooks

LEMMA ClosedBooksSettle ==
    ASSUME NEW row \in Row, NEW new \in Row, NEW amount \in Int, NEW left \in Int,
           new.shape = row.shape, ClosedBooks(row, new), InOrder(row, amount),
           HeldFollows(row, amount, new, left)
    PROVE  /\ Booked(row, amount).phase \in {"asked", "held"}
           /\ Booked(new, left) = Promise!Closed(Booked(row, amount))
<1>1. /\ row.shape.method \in {"escrow", "cod"} /\ Gross(row) \in Nat
      /\ row.cost \in Nat /\ Allowance(row.shape) \in Nat
  BY ShapesAssumption, AllowanceNatural DEF Row, Shape, Gross
<1>2. /\ Phase(row) = IF row.pay = "unpaid" THEN "asked" ELSE "held"
      /\ Phase(new) = "settled" /\ new.pay # "unpaid" /\ new.pay # "escrow"
  BY DEF ClosedBooks, Phase
<1>3. Due(new, left) = 0
  <2>1. CASE row.shape.method = "cod"
    <3>1. amount = 0 /\ row.pay = "unpaid" /\ new.pay = "released"
      BY <2>1 DEF InOrder, HeldAgreesWithPayment, StatusAgreesWithPayment, ClosedBooks
    <3>2. left = amount
      BY <2>1, <3>1 DEF HeldFollows
    <3> QED
      BY <1>2, <2>1, <3>1, <3>2 DEF Due
  <2>2. CASE row.shape.method = "escrow"
    <3>1. row.pay = "escrow"
      BY <2>2 DEF ClosedBooks
    <3>2. amount + Allowance(row.shape) = Gross(row) /\ left = amount - Gross(row)
      BY <1>2, <3>1 DEF InOrder, HeldAgreesWithPayment, HeldFollows
    <3>3. Due(new, left) = left + Allowance(row.shape)
      BY <1>2, <2>2 DEF Due
    <3> QED
      BY <1>1, <3>2, <3>3
  <2> QED
    BY <1>1, <2>1, <2>2
<1>4. (new.adj = "accepted") = (row.adj = "accepted")
  BY DEF ClosedBooks
<1>5. Booked(row, amount).phase = Phase(row)
  BY DEF Booked
<1>6. Booked(row, amount).raised = (new.adj = "accepted")
  BY <1>4 DEF Booked
<1> QED
  BY <1>2, <1>3, <1>5, <1>6 DEF Booked, Promise!Closed

LEMMA RaisedBooksRaise ==
    ASSUME NEW row \in Row, NEW new \in Row, NEW amount \in Int, NEW left \in Int,
           new.shape = row.shape, RaisedBooks(row, new),
           HeldFollows(row, amount, new, left)
    PROVE  /\ ~Booked(row, amount).raised /\ Booked(new, left).raised
           /\ Booked(new, left).phase = Booked(row, amount).phase
           /\ Booked(new, left).due >= Booked(row, amount).due
<1>1. /\ row.shape.method \in {"escrow", "cod"} /\ row.shape.fee \in Nat
      /\ row.cost \in Nat /\ new.cost \in Nat /\ Allowance(row.shape) \in Nat
  BY ShapesAssumption, AllowanceNatural DEF Row, Shape
<1>2. Phase(new) = Phase(row)
  BY DEF Phase, RaisedBooks
<1>3. new.cost >= row.cost
  BY DEF HeldFollows
<1>4. left = IF row.shape.method = "escrow" THEN amount + new.cost - row.cost
             ELSE amount
  BY DEF HeldFollows, RaisedBooks
<1>5. Due(new, left) >= Due(row, amount)
  <2>1. CASE row.pay = "unpaid"
    BY <1>1, <1>3, <2>1 DEF Due, Gross, RaisedBooks
  <2>2. CASE row.pay # "unpaid" /\ row.shape.method = "cod"
    BY <1>4, <2>2 DEF Due, RaisedBooks
  <2>3. CASE row.pay # "unpaid" /\ row.shape.method = "escrow"
    <3>1. /\ Due(new, left) = left + Allowance(row.shape)
          /\ Due(row, amount) = amount + Allowance(row.shape)
      BY <2>3 DEF Due, RaisedBooks
    <3> QED
      BY <1>1, <1>3, <1>4, <2>3, <3>1
  <2> QED
    BY <1>1, <2>1, <2>2, <2>3
<1> QED
  BY <1>2, <1>5 DEF Booked, RaisedBooks

-----------------------------------------------------------------------------
(* Every step is a step of the promise, or none.                           *)

\* The account of an order after a step.
After(o) == AccountOf(o)'
Ledger == [o \in Orders |-> AccountOf(o)]

\* An order no step concerns keeps its account.
LEMMA AccountRests ==
    ASSUME OrderInv, MoneyFollows, NEW o \in Orders,
           order'[o] = order[o], stale'[o] = stale[o]
    PROVE  After(o) = AccountOf(o)
<1>1. CASE Intact(o)
  <2>1. IntactStep(o) /\ Intact(o)'
    BY <1>1 DEF IntactStep, Intact, Exists
  <2>2. HeldFollows(order[o], held[o], order[o], held'[o])
    BY <2>1 DEF MoneyFollows
  <2>3. order[o] \in Row /\ held[o] \in Int
    BY <1>1 DEF OrderInv, SettlementInv, TypeInv, TypeOK, Intact, Exists
  <2>4. order[o].cost \in Nat
    BY <2>3 DEF Row
  <2>5. held'[o] = held[o]
    BY <2>2, <2>3, <2>4 DEF HeldFollows
  <2> QED
    BY <1>1, <2>1, <2>5 DEF After, AccountOf
<1>2. CASE ~Intact(o)
  BY <1>2 DEF After, AccountOf, Intact, Exists
<1> QED
  BY <1>1, <1>2

\* An account changes through one of the moves the promise names.
LEMMA AccountMoves ==
    ASSUME OrderInv, OrderInv', MoneyFollows, NEW o \in Orders, OrderMoves(o)
    PROVE  After(o) = AccountOf(o) \/ Promise!Moves(o)
<1>1. Ledger[o] = AccountOf(o) /\ Ledger'[o] = After(o)
  BY DEF Ledger, After
<1>2. /\ Exists(o) /\ Exists(o)' /\ stale[o] \in Nat /\ stale'[o] \in Nat
      /\ stale'[o] >= stale[o]
  BY ParametersAssumption DEF OrderMoves, Exists, OrderInv, SettlementInv, TypeInv, TypeOK
<1>3. CASE stale[o] # 0
  BY <1>2, <1>3 DEF After, AccountOf, Intact
<1>4. ASSUME stale[o] = 0 PROVE AccountOf(o) = Booked(order[o], held[o])
                                /\ AccountOf(o) \in Promise!Account
  <2>1. Intact(o)
    BY <1>2, <1>4 DEF Intact
  <2>2. order[o] \in Row /\ held[o] \in Int /\ InOrder(order[o], held[o])
    BY <2>1 DEF OrderInv, SettlementInv, TypeInv, TypeOK, IntactOrders, Exists, Intact
  <2> QED
    BY <2>1, <2>2, BookedIsAccount DEF AccountOf
<1>5. CASE stale[o] = 0 /\ stale'[o] # 0
  <2>1. After(o) = NothingBooked("unknown")
    BY <1>2, <1>5 DEF After, AccountOf, Intact
  <2>2. Promise!LoseTrack(o)
    BY <1>1, <1>4, <1>5, <2>1 DEF Promise!LoseTrack, Promise!Unknown, NothingBooked, Ledger
  <2> QED
    BY <2>2 DEF Promise!Moves
<1>6. CASE stale[o] = 0 /\ stale'[o] = 0
  <2> DEFINE row == order[o]
             new == order'[o]
             amount == held[o]
             left == held'[o]
  <2>1. /\ Intact(o) /\ IntactStep(o) /\ Intact(o)'
    BY <1>2, <1>6 DEF IntactStep, Intact
  <2>2. /\ row \in Row /\ amount \in Int /\ InOrder(row, amount)
        /\ new \in Row /\ left \in Int /\ InOrder(new, left)
    BY <2>1 DEF OrderInv, SettlementInv, TypeInv, TypeOK, IntactOrders, Exists, Intact
  <2>3. HeldFollows(row, amount, new, left)
    BY <2>1 DEF MoneyFollows
  <2>4. MovesDown(o)
    BY <2>1, <2>2 DEF MovesDown, OrderMoves
  <2>5. /\ new.shape = row.shape
        /\ \/ SameBooks(row, new) \/ PaidBooks(row, new)
           \/ ClosedBooks(row, new) \/ RaisedBooks(row, new)
    BY <2>4, MovesKeepBooks
  <2>6. /\ AccountOf(o) = Booked(row, amount) /\ AccountOf(o) \in Promise!Account
        /\ After(o) = Booked(new, left) /\ After(o) \in Promise!Account
    BY <1>4, <1>6, <2>1, <2>2, BookedIsAccount DEF After, AccountOf
  <2> HIDE DEF row, new, amount, left
  <2>7. CASE SameBooks(row, new)
    BY <2>2, <2>3, <2>5, <2>6, <2>7, SameBooksRest
  <2>8. CASE PaidBooks(row, new)
    <3>1. Promise!Receive(o)
      BY <1>1, <2>2, <2>5, <2>6, <2>8, PaidBooksReceive DEF Promise!Receive, Ledger
    <3> QED
      BY <3>1 DEF Promise!Moves
  <2>9. CASE ClosedBooks(row, new)
    <3>1. Promise!Settle(o) \/ Promise!PayCash(o)
      <4>1. /\ AccountOf(o).phase \in {"asked", "held"}
            /\ After(o) = Promise!Closed(AccountOf(o))
        BY <2>2, <2>3, <2>5, <2>6, <2>9, ClosedBooksSettle
      <4> QED
        BY <1>1, <4>1 DEF Promise!Settle, Promise!PayCash, Ledger
    <3> QED
      BY <3>1 DEF Promise!Moves
  <2>10. CASE RaisedBooks(row, new)
    <3>1. Promise!Raise(o)
      BY <1>1, <2>2, <2>3, <2>5, <2>6, <2>10, RaisedBooksRaise
      DEF Promise!Raise, Ledger
    <3> QED
      BY <3>1 DEF Promise!Moves
  <2> QED
    BY <2>5, <2>7, <2>8, <2>9, <2>10
<1> QED
  BY <1>3, <1>5, <1>6

LEMMA AccountOpens ==
    ASSUME LedgerInv, OrderInv', NEW o \in Orders, IsCreated(o)
    PROVE  Promise!Open(o)
<1>1. Ledger[o] = AccountOf(o) /\ Ledger'[o] = After(o)
  BY DEF Ledger, After
<1>2. AccountOf(o) = NothingBooked("none")
  BY DEF AccountOf, Intact, IsCreated
<1>3. PICK s \in Shapes, pay \in Payments : order'[o] = NewRow(s, pay)
  BY DEF IsCreated
<1> DEFINE row == order'[o]
<1>4. /\ row.status = "pending" /\ row.adj = "none" /\ row \in Row
      /\ held'[o] \in Int
  <2>1. /\ NewRow(s, pay).status = "pending" /\ NewRow(s, pay).adj = "none"
        /\ NewRow(s, pay) \in Row
    BY ShapesAssumption, AccountsAssumption
    DEF NewRow, Row, Shape, Statuses, Payments, Adjustments
  <2>2. held'[o] \in Int
    BY DEF OrderInv, SettlementInv, TypeInv, TypeOK
  <2> QED
    BY <1>3, <2>1, <2>2
<1>5. Intact(o)'
  BY <1>4, AccountsAssumption DEF LedgerInv, FreshOrders, Intact, Exists, IsCreated
<1>6. InOrder(row, held'[o])
  BY <1>5 DEF OrderInv, SettlementInv, IntactOrders
<1>7. /\ After(o) = Booked(row, held'[o]) /\ After(o) \in Promise!Account
  BY <1>4, <1>5, <1>6, BookedIsAccount DEF After, AccountOf
<1>8. After(o).phase # "settled" /\ ~After(o).raised
  <2>1. row.pay \in {"unpaid", "escrow"}
    BY <1>4, <1>6 DEF InOrder, StatusAgreesWithPayment, Row, Payments
  <2>2. After(o).phase # "settled"
    BY <1>7, <2>1 DEF Booked, Phase
  <2>3. After(o).raised = (row.adj = "accepted")
    BY <1>7 DEF Booked
  <2>4. row.adj # "accepted"
    BY <1>4
  <2> QED
    BY <2>2, <2>3, <2>4
<1> QED
  BY <1>1, <1>2, <1>7, <1>8 DEF Promise!Open, Promise!NoAccount, NothingBooked, Ledger

\* An order that is not there yet has no history.
LEMMA FreshNext ==
    ASSUME LedgerInv, LifeStep
    PROVE  FreshOrders'
<1> SUFFICES ASSUME NEW x \in Orders, ~Exists(x)' PROVE stale'[x] = 0
  BY DEF FreshOrders
<1>1. FreshOrders
  BY DEF LedgerInv
<1>2. CASE UNCHANGED <<order, stale, owed, deposits, promo, avail>>
  BY <1>1, <1>2 DEF FreshOrders, Exists
<1>3. ASSUME NEW o \in Orders, IsCreated(o) PROVE stale'[x] = 0
  BY <1>1, <1>3 DEF FreshOrders, IsCreated, OthersRest, Exists
<1>4. ASSUME NEW o \in Orders, OrderMoves(o) PROVE stale'[x] = 0
  BY <1>1, <1>4 DEF FreshOrders, OrderMoves, OthersRest, Exists
<1> QED
  BY <1>2, <1>3, <1>4 DEF LifeStep

LEMMA PromiseStep ==
    ASSUME LedgerInv, OrderInv', LifeStep, MoneyFollows
    PROVE  Promise!Next \/ UNCHANGED Ledger
<1>1. OrderInv
  BY DEF LedgerInv
<1>2. Ledger' = [x \in Orders |-> After(x)]
  BY DEF Ledger, After
<1>3. CASE UNCHANGED <<order, stale, owed, deposits, promo, avail>>
  <2>1. \A x \in Orders : After(x) = AccountOf(x)
    BY <1>1, <1>3, AccountRests
  <2> QED
    BY <1>2, <2>1 DEF Ledger
<1>4. ASSUME NEW o \in Orders, OthersRest(o),
             After(o) = AccountOf(o) \/ Promise!Moves(o)
      PROVE  Promise!Next \/ UNCHANGED Ledger
  <2>1. \A x \in Orders \ {o} : After(x) = AccountOf(x)
    BY <1>1, <1>4, AccountRests DEF OthersRest
  <2>2. Ledger' = [Ledger EXCEPT ![o] = Ledger'[o]]
    BY <1>2, <2>1 DEF Ledger
  <2>3. CASE After(o) = AccountOf(o)
    BY <1>2, <2>1, <2>3 DEF Ledger
  <2>4. CASE Promise!Moves(o)
    BY <2>2, <2>4 DEF Promise!Next, Ledger
  <2> QED
    BY <1>4, <2>3, <2>4
<1>5. ASSUME NEW o \in Orders, IsCreated(o)
      PROVE  Promise!Next \/ UNCHANGED Ledger
  <2>1. Promise!Moves(o)
    BY <1>5, AccountOpens DEF Promise!Moves
  <2> QED
    BY <1>4, <1>5, <2>1 DEF IsCreated
<1>6. ASSUME NEW o \in Orders, OrderMoves(o)
      PROVE  Promise!Next \/ UNCHANGED Ledger
  <2>1. After(o) = AccountOf(o) \/ Promise!Moves(o)
    BY <1>1, <1>6, AccountMoves
  <2> QED
    BY <1>4, <1>6, <2>1 DEF OrderMoves
<1> QED
  BY <1>3, <1>5, <1>6 DEF LifeStep

\* The order handlers keep the promise: what settling an order hands out is due once,
\* whole, and never again, whichever requests race, while none of them undoes what
\* another wrote.
THEOREM PromiseIsKept == Spec => KeepsPromise
<1>1. Init => Promise!Init /\ FreshOrders
  BY DEF Init, Promise!Init, Promise!NoAccount, NothingBooked, AccountOf, Intact,
     Exists, FreshOrders
<1>2. ASSUME OrderInv, OrderInv', FreshOrders, [Next]_vars
      PROVE  FreshOrders' /\ (Promise!Next \/ UNCHANGED Ledger)
  <2>1. LedgerInv
    BY <1>2 DEF LedgerInv
  <2>2. LifeStep /\ MoneyFollows
    BY <1>2, NextMoves, NextFollows DEF OrderInv, LifeInv
  <2> QED
    BY <1>2, <2>1, <2>2, FreshNext, PromiseStep
<1>3. OrderInv /\ OrderInv' /\ FreshOrders /\ [Next]_vars
         => FreshOrders' /\ [Promise!Next]_[o \in Orders |-> AccountOf(o)]
  BY <1>2 DEF Ledger
<1> QED
  BY <1>1, <1>3, OrderInvariance, PTL DEF Spec, KeepsPromise, Promise!Spec
=============================================================================
