-------------------------- MODULE Promotion_proofs --------------------------
(***************************************************************************)
(* AccountingInv is an invariant of Promotion, and with it the limits of a *)
(* promotion and the accounting of discounts.                              *)
(***************************************************************************)
EXTENDS PromotionInv, Sums, FiniteSetTheorems, TLAPS

-----------------------------------------------------------------------------
(* The discount.                                                           *)

\* Rounding to whole rupiahs adds at most half a rupiah.
LEMMA RoundBound ==
    ASSUME NEW x \in Nat
    PROVE  Round(x) \in Nat /\ Round(x) <= x + Rupiah \div 2
  BY DEF Round, Rupiah

\* What an offer asks for is a natural number.
LEMMA WantedType ==
    ASSUME NEW offer \in Offers, NEW basket \in Baskets
    PROVE  Wanted(offer, basket) \in Nat
  <1>1. offer \in Offer /\ basket \in Basket
    BY OffersAssumption
  <1> DEFINE cap == ScopedCap(offer, basket)
  <1>2. cap \in Nat
    BY <1>1 DEF ScopedCap, Offer, Basket
  <1>3. offer.value \in Nat
    BY <1>1 DEF Offer
  <1>4. cap * offer.value \in Nat
    BY <1>2, <1>3
  <1>5. (cap * offer.value) \div 100 \in Nat
    <2> DEFINE n == cap * offer.value
    <2> HIDE DEF n
    <2>1. n \in Nat => n \div 100 \in Nat
      OBVIOUS
    <2> QED
      BY <2>1, <1>4 DEF n
  <1> HIDE DEF cap
  <1> QED
    BY <1>2, <1>3, <1>5 DEF Wanted, Lesser, cap

\* A discount fits into what is left of the budget, up to the rounding.
LEMMA DiscountBound ==
    ASSUME NEW row \in PromoRow, NEW basket \in Baskets, ~Spent(row)
    PROVE  /\ Discount(row, basket) \in Nat
           /\ row.used + Discount(row, basket) <= row.offer.budget + Rupiah \div 2
  <1> DEFINE left == row.offer.budget - row.used
             w == Wanted(row.offer, basket)
  <1>1. row.offer \in Offers /\ row.used \in Nat /\ row.offer.budget \in Nat
    BY OffersAssumption DEF PromoRow, Offer
  <1>2. left \in Nat /\ row.used + left = row.offer.budget
    <2>1. ~(row.used >= row.offer.budget)
      BY DEF Spent
    <2> QED
      BY <1>1, <2>1
  <1>3. w \in Nat
    BY <1>1, WantedType
  <1>4. Lesser(w, left) \in Nat /\ Lesser(w, left) <= left
    BY <1>2, <1>3 DEF Lesser
  <1>5. /\ Round(Lesser(w, left)) \in Nat
        /\ Round(Lesser(w, left)) <= Lesser(w, left) + Rupiah \div 2
    BY <1>4, RoundBound
  <1>6. Discount(row, basket) = Round(Lesser(w, left))
    BY DEF Discount
  <1>7. Rupiah \div 2 \in Nat
    BY DEF Rupiah
  <1> HIDE DEF left, w
  <1> QED
    BY <1>1, <1>2, <1>4, <1>5, <1>6, <1>7

-----------------------------------------------------------------------------
(* Type correctness.                                                       *)

\* A request at work places an order or cancels one.
LEMMA RequestTypes ==
    ASSUME TypeOK, NEW q \in Procs, Busy(q)
    PROVE  /\ req[q].kind = "create" => req[q] \in Creating
           /\ req[q].kind = "cancel" => req[q] \in Cancelling
           /\ req[q].kind \in {"create", "cancel"}
  BY DEF TypeOK, Busy, Creating, Cancelling

\* A row stays a row when an administrator, a use or the clock changes it.
LEMMA RowUpdates ==
    ASSUME NEW row \in PromoRow, NEW x \in Offers, NEW active \in BOOLEAN,
           NEW live \in BOOLEAN, NEW used \in Nat, NEW count \in Nat
    PROVE  /\ [row EXCEPT !.offer = x, !.active = active, !.live = live] \in PromoRow
           /\ [row EXCEPT !.active = active] \in PromoRow
           /\ [row EXCEPT !.live = live] \in PromoRow
           /\ [row EXCEPT !.used = used, !.count = count] \in PromoRow
           /\ row.used \in Nat /\ row.count \in Nat /\ row.offer \in Offers
           /\ row.live \in BOOLEAN
  BY DEF PromoRow

\* What administrators and the clock write are rows.
LEMMA AdminTypes ==
    ASSUME TypeOK, NEW p \in Promos
    PROVE  /\ \A x \in Offers, live \in BOOLEAN : CreatePromotion(p, x, live) => TypeOK'
           /\ \A x \in Offers, active, live \in BOOLEAN :
                UpdatePromotion(p, x, active, live) => TypeOK'
           /\ DeletePromotion(p) => TypeOK'
           /\ ClockTicks(p) => TypeOK'
  <1>1. Stored(p) => promos[p] \in PromoRow
    BY DEF TypeOK, Stored
  <1>2. ASSUME NEW x \in Offers, NEW live \in BOOLEAN, CreatePromotion(p, x, live)
        PROVE  TypeOK'
    <2>1. [offer |-> x, active |-> TRUE, live |-> live, used |-> 0, count |-> 0]
            \in PromoRow
      BY DEF PromoRow
    <2> QED
      BY <1>2, <2>1 DEF CreatePromotion, TypeOK
  <1>3. ASSUME NEW x \in Offers, NEW active \in BOOLEAN, NEW live \in BOOLEAN,
               UpdatePromotion(p, x, active, live)
        PROVE  TypeOK'
    <2>1. [promos[p] EXCEPT !.offer = x, !.active = active, !.live = live] \in PromoRow
      BY <1>1, <1>3, RowUpdates DEF UpdatePromotion
    <2>2. promos' = [promos EXCEPT ![p] =
                       [promos[p] EXCEPT !.offer = x, !.active = active, !.live = live]]
      BY <1>3 DEF UpdatePromotion, TypeOK
    <2> QED
      BY <1>3, <2>1, <2>2 DEF UpdatePromotion, TypeOK
  <1>4. ASSUME DeletePromotion(p)
        PROVE  TypeOK'
    <2>1. CASE KeptIfUsed(promos[p])
      <3>1. promos' = [promos EXCEPT ![p] = [promos[p] EXCEPT !.active = FALSE]]
        BY <1>4, <2>1 DEF DeletePromotion, TypeOK
      <3>2. [promos[p] EXCEPT !.active = FALSE] \in PromoRow
        BY <1>1, <1>4, RowUpdates DEF DeletePromotion, PromoRow
      <3>3. UNCHANGED <<usages, orders, promoLock, req>>
        BY <1>4, <2>1 DEF DeletePromotion
      <3>4. PICK row \in PromoRow : promos' = [promos EXCEPT ![p] = row]
        BY <3>1, <3>2, Zenon
      <3> QED
        BY <3>3, <3>4 DEF TypeOK
    <2>2. CASE ~KeptIfUsed(promos[p])
      <3>1. \A o \in Orders : orders[o] # NoRow =>
              [orders[o] EXCEPT !.promo = NoPromo] \in OrderRow
        BY DEF TypeOK, OrderRow
      <3>2. orders' \in [Orders -> OrderRow \cup {NoRow}]
        BY <1>4, <2>2, <3>1 DEF DeletePromotion, TypeOK
      <3> QED
        BY <1>4, <2>2, <3>2 DEF DeletePromotion, TypeOK
    <2> QED
      BY <2>1, <2>2
  <1>5. ASSUME ClockTicks(p)
        PROVE  TypeOK'
    <2>1. promos' = [promos EXCEPT ![p] = [promos[p] EXCEPT !.live = ~promos[p].live]]
      BY <1>5 DEF ClockTicks, TypeOK
    <2>2. [promos[p] EXCEPT !.live = ~promos[p].live] \in PromoRow
      BY <1>1, <1>5 DEF ClockTicks, PromoRow
    <2> QED
      BY <1>5, <2>1, <2>2 DEF ClockTicks, TypeOK
  <1> QED
    BY <1>2, <1>3, <1>4, <1>5

\* What the end of a transaction leaves of its request and its locks.
LEMMA EndTypes ==
    ASSUME TypeOK, NEW q \in Procs, End(q)
    PROVE  /\ promoLock' \in [Promos -> Procs \cup {Free}]
           /\ req' \in [Procs -> Creating \cup Cancelling \cup {Idle}]
           /\ req'[q] = Idle
           /\ \A r \in Procs \ {q} : req'[r] = req[r]
           /\ \A p \in Promos : promoLock'[p] = IF promoLock[p] = q THEN Free
                                                 ELSE promoLock[p]
  BY DEF End, Release, TypeOK

\* A transaction that is rolled back leaves the tables as they are.
LEMMA RollbackTypes ==
    ASSUME TypeOK, NEW q \in Procs, Rollback(q)
    PROVE  TypeOK'
  BY EndTypes DEF Rollback, TypeOK

\* A request that takes a step remains a request.
LEMMA StepTypes ==
    ASSUME TypeOK, NEW q \in Procs,
           NEW r \in Creating \cup Cancelling, req' = [req EXCEPT ![q] = r],
           UNCHANGED <<promos, usages, orders>>,
           promoLock' \in [Promos -> Procs \cup {Free}]
    PROVE  TypeOK'
  BY DEF TypeOK

LEMMA PlacingTypes ==
    ASSUME TypeOK, NEW q \in Procs, HoldsItsPromo, NothingWithoutPromo
    PROVE  /\ \A o \in Orders, u \in Users, m \in Merchants, payment \in Payments,
                b \in Baskets, code \in Promos \cup {NoCode} :
                CreateOrder(q, o, u, m, payment, b, code) => TypeOK'
           /\ PickPromo(q) => TypeOK'
           /\ NoPromotionFound(q) => TypeOK'
           /\ ValidateAndReserve(q) => TypeOK'
           /\ CheckBalance(q) => TypeOK'
  <1> USE DEF Creates
  <1>1. ASSUME NEW o \in Orders, NEW u \in Users, NEW m \in Merchants,
               NEW payment \in Payments, NEW b \in Baskets,
               NEW code \in Promos \cup {NoCode},
               CreateOrder(q, o, u, m, payment, b, code)
        PROVE  TypeOK'
    <2> DEFINE r == [kind |-> "create", step |-> "pick", order |-> o, user |-> u,
                     merchant |-> m, payment |-> payment, basket |-> b, code |-> code,
                     found |-> Found(code, m), promo |-> NoPromo, amount |-> 0]
    <2>1. r \in Creating
      BY DEF Creating, Found
    <2> QED
      BY <1>1, <2>1, StepTypes DEF CreateOrder, TypeOK
  <1>2. ASSUME PickPromo(q)
        PROVE  TypeOK'
    <2> DEFINE p == Oldest(req[q].found)
               r == IF Qualifies(p, req[q])
                    THEN [req[q] EXCEPT !.step = "check", !.promo = p]
                    ELSE [req[q] EXCEPT !.found = req[q].found \ {p}]
    <2>1. req[q] \in Creating
      BY <1>2, RequestTypes DEF PickPromo
    <2>2. Qualifies(p, req[q]) => p \in Promos
      BY DEF Qualifies, Found
    <2>3. r \in Creating
      BY <2>1, <2>2 DEF Creating
    <2>4. req' = [req EXCEPT ![q] = r]
      BY <1>2 DEF PickPromo, TypeOK
    <2>5. promoLock' \in [Promos -> Procs \cup {Free}]
      BY <1>2 DEF PickPromo, TypeOK
    <2> QED
      BY <1>2, <2>3, <2>4, <2>5, StepTypes DEF PickPromo
  <1>3. ASSUME NoPromotionFound(q)
        PROVE  TypeOK'
    <2>1. req[q] \in Creating
      BY <1>3, RequestTypes DEF NoPromotionFound
    <2>2. [req[q] EXCEPT !.step = "pay"] \in Creating
      BY <2>1 DEF Creating
    <2>3. CASE req[q].code = NoCode
      BY <1>3, <2>2, <2>3, StepTypes DEF NoPromotionFound, TypeOK
    <2>4. CASE req[q].code # NoCode
      BY <1>3, <2>4, RollbackTypes DEF NoPromotionFound
    <2> QED
      BY <2>3, <2>4
  <1>4. ASSUME ValidateAndReserve(q)
        PROVE  TypeOK'
    <2> DEFINE p == req[q].promo
               d == Discount(promos[p], req[q].basket)
               r == [req[q] EXCEPT !.step = "pay", !.amount = d,
                                   !.promo = IF d > 0 THEN p ELSE NoPromo]
    <2>1. req[q] \in Creating
      BY <1>4, RequestTypes DEF ValidateAndReserve
    <2>2. PICK counted \in SUBSET Counts :
            IF Refused(p, req[q], counted) THEN Rollback(q)
            ELSE /\ req' = [req EXCEPT ![q].step = "pay", ![q].amount = d,
                                       ![q].promo = IF d > 0 THEN p ELSE NoPromo]
                 /\ UNCHANGED <<promos, usages, orders, promoLock>>
      BY <1>4 DEF ValidateAndReserve
    <2>3. CASE Refused(p, req[q], counted)
      BY <2>3, <2>2, RollbackTypes
    <2>4. promos[p] \in PromoRow
      BY <1>4, <2>1 DEF ValidateAndReserve, HoldsItsPromo, NothingWithoutPromo, Reserves,
         Placing, Stored, TypeOK, Creating
    <2>5. CASE ~Refused(p, req[q], counted)
      <3>1. ~Spent(promos[p])
        BY <2>5 DEF Refused
      <3>2. d \in Nat
        BY <2>1, <2>4, <3>1, DiscountBound DEF Creating
      <3>3. r \in Creating
        <4> HIDE DEF d
        <4> QED
          BY <2>1, <3>2 DEF Creating
      <3>4. req' = [req EXCEPT ![q] = r]
        BY <2>5, <2>2 DEF TypeOK
      <3> QED
        BY <2>5, <2>2, <3>3, <3>4, StepTypes DEF TypeOK
    <2> QED
      BY <2>3, <2>5
  <1>5. ASSUME CheckBalance(q)
        PROVE  TypeOK'
    <2>1. req[q] \in Creating
      BY <1>5, RequestTypes DEF CheckBalance
    <2>2. [req[q] EXCEPT !.step = "hold"] \in Creating
      BY <2>1 DEF Creating
    <2> QED
      BY <1>5, <2>2, StepTypes DEF CheckBalance, TypeOK
  <1> QED
    BY <1>1, <1>2, <1>3, <1>4, <1>5

-----------------------------------------------------------------------------
(* Steps that change nothing but requests and locks.                       *)

\* What a request must satisfy for the invariant.
Fits(q, r, lock) ==
    /\ r.kind = "create" =>
         /\ orders[r.order] = NoRow
         /\ r.promo = NoPromo => r.amount = 0 /\ r.step # "check"
         /\ r.promo # NoPromo =>
              /\ r.step # "pick"
              /\ Stored(r.promo) /\ lock[r.promo] = q
              /\ r.step # "check" =>
                   /\ promos[r.promo].count < promos[r.promo].offer.max
                   /\ promos[r.promo].used + r.amount
                        <= promos[r.promo].offer.budget + Rupiah \div 2
                   /\ "usages" \notin MayFail
                        => Cardinality(UsedBy(r.promo, r.user))
                             < promos[r.promo].offer.perUser
                   /\ r.amount > 0
    /\ r.kind = "cancel" => orders[r.order] # NoRow

\* No two requests place the same order.
Apart(q, r) ==
    \A t \in Procs \ {q} :
        Busy(t) /\ (r.kind = "create" \/ req[t].kind = "create")
          => r.order # req[t].order

\* The invariant says that every request fits.
RequestsFit ==
    \A q \in Procs : Busy(q) => Fits(q, req[q], promoLock) /\ Apart(q, req[q])

\* The two ways to state the part of the invariant about requests agree.
LEMMA RequestsFitIsInv ==
    ASSUME TypeOK
    PROVE  RequestsFit <=> ReservationInv
  <1>1. \A q \in Procs : Busy(q) => \/ req[q] \in Creating /\ req[q].kind = "create"
                                    \/ req[q] \in Cancelling /\ req[q].kind = "cancel"
    BY RequestTypes DEF Creating, Cancelling
  <1>2. \A q \in Procs : Busy(q) /\ req[q].kind = "create"
                          => req[q].step \in {"pick", "check", "pay", "hold"}
    BY <1>1 DEF Creating, Cancelling
  <1>3. ASSUME RequestsFit
        PROVE  ReservationInv
    BY <1>1, <1>2, <1>3 DEF RequestsFit, Fits, Apart, HoldsItsPromo, RoomIsLeft,
       NothingWithoutPromo, OrdersAreNew, Reserves, Decided, Placing, Creates,
       ReservationInv
  <1>4. ASSUME ReservationInv
        PROVE  RequestsFit
    BY <1>1, <1>2, <1>4 DEF RequestsFit, Fits, Apart, HoldsItsPromo, RoomIsLeft,
       NothingWithoutPromo, OrdersAreNew, Reserves, Decided, Placing, Creates,
       ReservationInv
  <1> QED
    BY <1>3, <1>4

\* The tables agree as long as nobody writes to them.
LEMMA QuietLedger ==
    ASSUME LedgerInv, UNCHANGED <<promos, usages, orders>>
    PROVE  LedgerInv'
  BY DEF LedgerInv, UsageHasOwner, UsesAreCounted, DiscountIsAccounted, QuotaKept,
     BudgetKept, Stored, UsagesOf, UsageOf

\* A request takes a step that fits and takes no lock from another.
LEMMA QuietStep ==
    ASSUME AccountingInv, NEW q \in Procs,
           NEW r \in Creating \cup Cancelling, req' = [req EXCEPT ![q] = r],
           UNCHANGED <<promos, usages, orders>>,
           promoLock' \in [Promos -> Procs \cup {Free}],
           \A p \in Promos : promoLock[p] \notin {q, Free} => promoLock'[p] = promoLock[p],
           Fits(q, r, promoLock'), Apart(q, r)
    PROVE  AccountingInv'
  <1>1. TypeOK' /\ LedgerInv'
    BY StepTypes, QuietLedger DEF AccountingInv
  <1>2. RequestsFit
    BY RequestsFitIsInv DEF AccountingInv
  <1>3. req'[q] = r /\ \A t \in Procs \ {q} : req'[t] = req[t]
    BY DEF AccountingInv, TypeOK
  <1>4. ASSUME NEW t \in Procs, Busy(t)'
        PROVE  Fits(t, req[t], promoLock)' /\ Apart(t, req[t])'
    <2>1. CASE t = q
      <3>1. Fits(t, req[t], promoLock)'
        <4>1. UsedBy(r.promo, r.user)' = UsedBy(r.promo, r.user)
          BY DEF UsedBy, UsagesOf
        <4>2. req'[t] = r
          BY <1>3, <2>1
        <4>3. Fits(q, r, promoLock)' <=> Fits(q, r, promoLock')
          BY <4>1 DEF Fits, Stored
        <4> QED
          BY <2>1, <4>2, <4>3
      <3>2. \A u \in Procs \ {q} : Busy(u)' <=> Busy(u)
        BY <1>3 DEF Busy
      <3>3. Apart(t, req[t])'
        BY <1>3, <2>1, <3>2 DEF Apart
      <3> QED
        BY <3>1, <3>3
    <2>2. CASE t # q
      <3>1. Busy(t) /\ req'[t] = req[t] /\ Fits(t, req[t], promoLock) /\ Apart(t, req[t])
        BY <1>2, <1>3, <1>4, <2>2 DEF RequestsFit, Busy
      <3>2. Fits(t, req[t], promoLock)'
        <4>1. req[t].kind = "create" /\ req[t].promo # NoPromo => req[t].promo \in Promos
          BY <3>1, RequestTypes DEF AccountingInv, Creating
        <4>2. t # Free
          BY SentinelsAssumption
        <4>3. req[t].kind = "create" /\ req[t].promo # NoPromo
                => promoLock'[req[t].promo] = t
          BY <3>1, <4>1, <4>2, <2>2 DEF Fits
        <4>4. UsedBy(req[t].promo, req[t].user)' = UsedBy(req[t].promo, req[t].user)
          BY <3>1 DEF UsedBy, UsagesOf
        <4>5. Fits(t, req[t], promoLock')
          BY <3>1, <4>3 DEF Fits
        <4>6. Fits(t, req[t], promoLock)' <=> Fits(t, req[t], promoLock')
          BY <3>1, <4>4 DEF Fits, Stored
        <4> QED
          BY <4>5, <4>6
      <3>3. Apart(t, req[t])'
        BY <1>3, <2>2, <3>1 DEF Apart, Busy
      <3> QED
        BY <3>2, <3>3
    <2> QED
      BY <2>1, <2>2
  <1>5. RequestsFit'
    BY <1>4 DEF RequestsFit
  <1>6. TypeOK' => (RequestsFit' <=> ReservationInv')
    BY RequestsFitIsInv, PTL
  <1> QED
    BY <1>1, <1>5, <1>6 DEF AccountingInv

\* A request that ends, and a table that changes in a way that leaves what the
\* others decided true.
LEMMA EndedStep ==
    ASSUME AccountingInv, NEW q \in Procs, End(q), TypeOK', LedgerInv',
           \A t \in Procs \ {q} :
              Busy(t) /\ Fits(t, req[t], promoLock) /\ Apart(t, req[t])
                => Fits(t, req[t], promoLock)'
    PROVE  AccountingInv'
  <1>1. RequestsFit
    BY RequestsFitIsInv DEF AccountingInv
  <1>2. req'[q] = Idle /\ \A t \in Procs \ {q} : req'[t] = req[t]
    BY EndTypes DEF AccountingInv
  <1>3. ASSUME NEW t \in Procs, Busy(t)'
        PROVE  Fits(t, req[t], promoLock)' /\ Apart(t, req[t])'
    <2>1. t # q /\ req'[t] = req[t] /\ Busy(t)
      BY <1>2, <1>3 DEF Busy
    <2>2. Fits(t, req[t], promoLock) /\ Apart(t, req[t])
      BY <1>1, <2>1 DEF RequestsFit
    <2>3. Fits(t, req[t], promoLock)'
      BY <2>1, <2>2
    <2>4. \A u \in Procs : Busy(u)' => Busy(u) /\ req'[u] = req[u]
      BY <1>2 DEF Busy
    <2>5. Apart(t, req[t])'
      BY <2>1, <2>2, <2>4 DEF Apart
    <2> QED
      BY <2>3, <2>5
  <1>4. RequestsFit'
    BY <1>3 DEF RequestsFit
  <1>5. TypeOK' => (RequestsFit' <=> ReservationInv')
    BY RequestsFitIsInv, PTL
  <1> QED
    BY <1>4, <1>5 DEF AccountingInv

\* What a request holds is not released when another one ends.
LEMMA LocksSurvive ==
    ASSUME TypeOK, NEW q \in Procs, End(q), NEW t \in Procs \ {q}, NEW p \in Promos,
           promoLock[p] = t
    PROVE  promoLock'[p] = t
  BY EndTypes

\* A request may fail at any moment.
LEMMA RollbackStep ==
    ASSUME AccountingInv, NEW q \in Procs, Rollback(q)
    PROVE  AccountingInv'
  <1>1. End(q) /\ UNCHANGED <<promos, usages, orders>>
    BY DEF Rollback
  <1>2. TypeOK' /\ LedgerInv'
    BY <1>1, RollbackTypes, QuietLedger DEF AccountingInv
  <1>3. ASSUME NEW t \in Procs \ {q}, Busy(t), Fits(t, req[t], promoLock)
        PROVE  Fits(t, req[t], promoLock)'
    <2>1. req'[t] = req[t]
      BY <1>1, EndTypes DEF AccountingInv
    <2>2. req[t].kind = "create" /\ req[t].promo # NoPromo => req[t].promo \in Promos
      BY <1>3, RequestTypes DEF AccountingInv, Creating
    <2>3. req[t].kind = "create" /\ req[t].promo # NoPromo
            => promoLock'[req[t].promo] = t
      BY <1>1, <1>3, <2>2, LocksSurvive DEF AccountingInv, Fits
    <2>4. UsedBy(req[t].promo, req[t].user)' = UsedBy(req[t].promo, req[t].user)
      BY <1>1, <2>1 DEF UsedBy, UsagesOf
    <2> QED
      BY <1>1, <1>3, <2>1, <2>3, <2>4 DEF Fits, Stored
  <1> QED
    BY <1>1, <1>2, <1>3, EndedStep

-----------------------------------------------------------------------------
(* Placing and cancelling up to the commit.                                *)

\* A new order has no promotion yet.
LEMMA CreateOrderInv ==
    ASSUME AccountingInv, NEW q \in Procs, NEW o \in Orders, NEW u \in Users,
           NEW m \in Merchants, NEW payment \in Payments, NEW b \in Baskets,
           NEW code \in Promos \cup {NoCode},
           CreateOrder(q, o, u, m, payment, b, code)
    PROVE  AccountingInv'
  <1> DEFINE r == [kind |-> "create", step |-> "pick", order |-> o, user |-> u,
                   merchant |-> m, payment |-> payment, basket |-> b, code |-> code,
                   found |-> Found(code, m), promo |-> NoPromo, amount |-> 0]
  <1>1. r \in Creating
    BY DEF Creating, Found
  <1>2. req' = [req EXCEPT ![q] = r] /\ UNCHANGED <<promos, usages, orders, promoLock>>
    BY DEF CreateOrder
  <1>3. Fits(q, r, promoLock')
    BY DEF Fits, CreateOrder
  <1>4. Apart(q, r)
    BY DEF Apart, CreateOrder
  <1>5. promoLock' \in [Promos -> Procs \cup {Free}]
    BY <1>2 DEF AccountingInv, TypeOK
  <1> HIDE DEF r
  <1> QED
    BY <1>1, <1>2, <1>3, <1>4, <1>5, QuietStep

\* A request that goes on with the same order stays apart from the others.
LEMMA StaysApart ==
    ASSUME AccountingInv, NEW q \in Procs, Busy(q), NEW r,
           r.kind = req[q].kind, r.order = req[q].order
    PROVE  Apart(q, r)
  <1>1. Apart(q, req[q])
    BY RequestsFitIsInv DEF AccountingInv, RequestsFit
  <1> QED
    BY <1>1 DEF Apart

\* A cancellation begins with an order that exists.
LEMMA CancelOrderInv ==
    ASSUME AccountingInv, NEW q \in Procs, NEW o \in Orders, CancelOrder(q, o)
    PROVE  AccountingInv'
  <1> DEFINE r == [kind |-> "cancel", step |-> "row", order |-> o]
  <1>1. r \in Cancelling
    BY DEF Cancelling
  <1>2. req' = [req EXCEPT ![q] = r] /\ UNCHANGED <<promos, usages, orders, promoLock>>
    BY DEF CancelOrder
  <1>3. Fits(q, r, promoLock')
    BY DEF Fits, CancelOrder
  <1>4. RequestsFit
    BY RequestsFitIsInv DEF AccountingInv
  <1>5. Apart(q, r)
    BY <1>4 DEF Apart, CancelOrder, RequestsFit, Fits
  <1>6. promoLock' \in [Promos -> Procs \cup {Free}]
    BY <1>2 DEF AccountingInv, TypeOK
  <1> HIDE DEF r
  <1> QED
    BY <1>1, <1>2, <1>3, <1>5, <1>6, QuietStep

\* Locking the order and the wallet writes nothing to promotions.
LEMMA CancelStepsInv ==
    ASSUME AccountingInv, NEW q \in Procs, LockOrder(q) \/ RefundEscrow(q)
    PROVE  AccountingInv'
  <1>1. Busy(q) /\ req[q] \in Cancelling
    BY RequestTypes DEF AccountingInv, LockOrder, RefundEscrow, Cancels
  <1>2. orders[req[q].order] # NoRow
    BY <1>1, RequestsFitIsInv DEF AccountingInv, RequestsFit, Fits, Cancelling
  <1>3. ASSUME NEW step \in {"refund", "release"}, req' = [req EXCEPT ![q].step = step],
               UNCHANGED <<promos, usages, orders, promoLock>>
        PROVE  AccountingInv'
    <2> DEFINE r == [req[q] EXCEPT !.step = step]
    <2>1. r \in Cancelling /\ r.kind = req[q].kind /\ r.order = req[q].order
      BY <1>1 DEF Cancelling
    <2>2. Fits(q, r, promoLock') /\ Apart(q, r)
      BY <1>1, <1>2, <2>1, StaysApart DEF Fits, Cancelling
    <2>3. req' = [req EXCEPT ![q] = r]
      BY <1>3 DEF AccountingInv, TypeOK
    <2>4. promoLock' \in [Promos -> Procs \cup {Free}]
      BY <1>3 DEF AccountingInv, TypeOK
    <2> HIDE DEF r
    <2> QED
      BY <1>3, <2>1, <2>2, <2>3, <2>4, QuietStep
  <1>4. CASE LockOrder(q)
    BY <1>3, <1>4, RollbackStep DEF LockOrder
  <1>5. CASE RefundEscrow(q)
    BY <1>3, <1>5 DEF RefundEscrow
  <1> QED
    BY <1>4, <1>5

\* The lock comes with the promotion, before anything is decided about it.
LEMMA PickPromoInv ==
    ASSUME AccountingInv, NEW q \in Procs, PickPromo(q)
    PROVE  AccountingInv'
  <1> DEFINE p == Oldest(req[q].found)
             r == IF Qualifies(p, req[q])
                  THEN [req[q] EXCEPT !.step = "check", !.promo = p]
                  ELSE [req[q] EXCEPT !.found = req[q].found \ {p}]
  <1>1. Busy(q) /\ req[q] \in Creating /\ req[q].step = "pick"
    BY RequestTypes DEF AccountingInv, PickPromo, Creates
  <1>2. Fits(q, req[q], promoLock)
    BY <1>1, RequestsFitIsInv DEF AccountingInv, RequestsFit
  <1>3. Qualifies(p, req[q]) => p \in Promos /\ Stored(p)
    BY DEF Qualifies, Found
  <1>4. r \in Creating /\ r.kind = req[q].kind /\ r.order = req[q].order
    BY <1>1, <1>3 DEF Creating
  <1>5. req' = [req EXCEPT ![q] = r]
    BY DEF PickPromo, AccountingInv, TypeOK
  <1>6. promoLock' \in [Promos -> Procs \cup {Free}]
    BY DEF PickPromo, AccountingInv, TypeOK
  <1>7. \A x \in Promos : promoLock[x] \notin {q, Free} => promoLock'[x] = promoLock[x]
    BY DEF PickPromo, AccountingInv, TypeOK
  <1>8. Qualifies(p, req[q]) => promoLock'[p] = q
    BY <1>3 DEF PickPromo, AccountingInv, TypeOK
  <1>9. req[q].kind = "create" /\ req[q].promo = NoPromo
    BY <1>1, <1>2 DEF Fits, Creating
  <1>10. Fits(q, r, promoLock')
    <2>1. CASE Qualifies(p, req[q])
      <3>1. /\ r.kind = "create" /\ r.order = req[q].order
            /\ r.promo = p /\ r.step = "check"
        BY <1>1, <1>9, <2>1 DEF Creating
      <3>2. p # NoPromo
        BY <1>3, <2>1, SentinelsAssumption
      <3> HIDE DEF r, p
      <3> QED
        BY <1>2, <1>3, <1>8, <1>9, <2>1, <3>1, <3>2 DEF Fits
    <2>2. CASE ~Qualifies(p, req[q])
      <3>1. /\ r.kind = "create" /\ r.order = req[q].order
            /\ r.promo = NoPromo /\ r.step = "pick" /\ r.amount = req[q].amount
        BY <1>1, <1>9, <2>2 DEF Creating
      <3> HIDE DEF r, p
      <3> QED
        BY <1>2, <1>9, <3>1 DEF Fits
    <2> QED
      BY <2>1, <2>2
  <1>11. Apart(q, r)
    BY <1>1, <1>4, StaysApart
  <1>12. UNCHANGED <<promos, usages, orders>>
    BY DEF PickPromo
  <1> HIDE DEF p, r
  <1> QED
    BY <1>4, <1>5, <1>6, <1>7, <1>10, <1>11, <1>12, QuietStep

\* Without a promotion, the amount stays zero.
LEMMA NoPromotionFoundInv ==
    ASSUME AccountingInv, NEW q \in Procs, NoPromotionFound(q)
    PROVE  AccountingInv'
  <1> DEFINE r == [req[q] EXCEPT !.step = "pay"]
  <1>1. Busy(q) /\ req[q] \in Creating /\ req[q].step = "pick"
    BY RequestTypes DEF AccountingInv, NoPromotionFound, Creates
  <1>2. Fits(q, req[q], promoLock)
    BY <1>1, RequestsFitIsInv DEF AccountingInv, RequestsFit
  <1>3. CASE req[q].code = NoCode
    <2>1. r \in Creating
      BY <1>1 DEF Creating
    <2>2. /\ r.kind = req[q].kind /\ r.order = req[q].order
          /\ r.promo = req[q].promo /\ r.amount = req[q].amount /\ r.step = "pay"
      BY <1>1 DEF Creating
    <2>3. req' = [req EXCEPT ![q] = r] /\ UNCHANGED <<promos, usages, orders, promoLock>>
      BY <1>3 DEF NoPromotionFound, AccountingInv, TypeOK
    <2>4. promoLock' \in [Promos -> Procs \cup {Free}]
      BY <2>3 DEF AccountingInv, TypeOK
    <2> HIDE DEF r
    <2>5. Apart(q, r)
      BY <1>1, <2>2, StaysApart
    <2>6. req[q].kind = "create" /\ req[q].promo = NoPromo
      BY <1>1, <1>2 DEF Fits, Creating
    <2>7. Fits(q, r, promoLock')
      BY <1>2, <2>2, <2>6 DEF Fits
    <2> QED
      BY <2>1, <2>3, <2>4, <2>5, <2>7, QuietStep
  <1>4. CASE req[q].code # NoCode
    BY <1>4, RollbackStep DEF NoPromotionFound
  <1> QED
    BY <1>3, <1>4

\* A request decides under the lock that there is room for its use.
LEMMA ValidateAndReserveInv ==
    ASSUME AccountingInv, NEW q \in Procs, ValidateAndReserve(q)
    PROVE  AccountingInv'
  <1> DEFINE p == req[q].promo
             d == Discount(promos[p], req[q].basket)
             r == [req[q] EXCEPT !.step = "pay", !.amount = d,
                                 !.promo = IF d > 0 THEN p ELSE NoPromo]
  <1>1. Busy(q) /\ req[q] \in Creating /\ req[q].step = "check"
    BY RequestTypes DEF AccountingInv, ValidateAndReserve, Creates
  <1>2. Fits(q, req[q], promoLock)
    BY <1>1, RequestsFitIsInv DEF AccountingInv, RequestsFit
  <1>3. req[q].kind = "create" /\ p # NoPromo /\ p \in Promos
    BY <1>1, <1>2 DEF Fits, Creating
  <1>4. Stored(p) /\ promoLock[p] = q /\ orders[req[q].order] = NoRow
    BY <1>2, <1>3 DEF Fits
  <1>5. promos[p] \in PromoRow
    BY <1>3, <1>4 DEF Stored, AccountingInv, TypeOK
  <1>6. PICK failed \in SUBSET MayFail :
          IF Refused(p, req[q], Counts \ failed) THEN Rollback(q)
          ELSE /\ req' = [req EXCEPT ![q].step = "pay", ![q].amount = d,
                                     ![q].promo = IF d > 0 THEN p ELSE NoPromo]
               /\ UNCHANGED <<promos, usages, orders, promoLock>>
    BY DEF ValidateAndReserve
  <1>7. CASE Refused(p, req[q], Counts \ failed)
    BY <1>7, <1>6, RollbackStep
  <1>8. CASE ~Refused(p, req[q], Counts \ failed)
    <2>1. ~Spent(promos[p]) /\ ("usages" \notin MayFail => ~OverLimit(p, req[q].user))
      BY <1>8 DEF Refused, Counts
    <2>2. /\ d \in Nat
          /\ promos[p].used + d <= promos[p].offer.budget + Rupiah \div 2
      BY <1>1, <1>5, <2>1, DiscountBound DEF Creating
    <2>3. promos[p].count < promos[p].offer.max
      <3>1. promos[p].count \in Nat /\ promos[p].offer.max \in Nat
        BY <1>5, OffersAssumption DEF PromoRow, Offer
      <3>2. ~(promos[p].count >= promos[p].offer.max)
        BY <2>1 DEF Spent
      <3> QED
        BY <3>1, <3>2
    <2>4. "usages" \notin MayFail
            => Cardinality(UsedBy(p, req[q].user)) < promos[p].offer.perUser
      <3>1. IsFiniteSet(UsedBy(p, req[q].user))
        BY FS_Subset DEF UsedBy, UsagesOf, AccountingInv, LedgerInv, UsesAreCounted
      <3>2. Cardinality(UsedBy(p, req[q].user)) \in Nat
        BY <3>1, FS_CardinalityType
      <3>3. promos[p].offer.perUser \in Nat
        BY <1>5, OffersAssumption DEF PromoRow, Offer
      <3> QED
        BY <2>1, <3>2, <3>3 DEF OverLimit
    <2>5. req' = [req EXCEPT ![q] = r] /\ UNCHANGED <<promos, usages, orders, promoLock>>
      BY <1>8, <1>6 DEF AccountingInv, TypeOK
    <2> HIDE DEF d
    <2>6. r \in Creating
      BY <1>1, <2>2 DEF Creating
    <2>7. /\ r.kind = req[q].kind /\ r.order = req[q].order /\ r.step = "pay"
          /\ r.amount = d /\ r.user = req[q].user
          /\ r.promo = IF d > 0 THEN p ELSE NoPromo
      BY <1>1 DEF Creating
    <2>8. promoLock' \in [Promos -> Procs \cup {Free}]
      BY <2>5 DEF AccountingInv, TypeOK
    <2> HIDE DEF r
    <2>9. Apart(q, r)
      BY <1>1, <2>7, StaysApart
    <2>10. Fits(q, r, promoLock')
      <3>1. CASE d > 0
        <4>1. r.promo = p
          BY <2>7, <3>1
        <4> HIDE DEF p
        <4> QED
          BY <1>3, <1>4, <2>2, <2>3, <2>4, <2>5, <2>7, <3>1, <4>1 DEF Fits
      <3>2. CASE ~(d > 0)
        BY <1>3, <1>4, <2>2, <2>7, <3>2 DEF Fits
      <3> QED
        BY <3>1, <3>2
    <2> HIDE DEF p
    <2> QED
      BY <2>5, <2>6, <2>8, <2>9, <2>10, QuietStep
  <1> QED
    BY <1>7, <1>8

\* The balance is read while the promotion stays locked.
LEMMA CheckBalanceInv ==
    ASSUME AccountingInv, NEW q \in Procs, CheckBalance(q)
    PROVE  AccountingInv'
  <1> DEFINE r == [req[q] EXCEPT !.step = "hold"]
  <1>1. Busy(q) /\ req[q] \in Creating /\ req[q].step = "pay"
    BY RequestTypes DEF AccountingInv, CheckBalance, Creates
  <1>2. Fits(q, req[q], promoLock)
    BY <1>1, RequestsFitIsInv DEF AccountingInv, RequestsFit
  <1>3. r \in Creating
    BY <1>1 DEF Creating
  <1>4. /\ r.kind = req[q].kind /\ r.order = req[q].order /\ r.user = req[q].user
        /\ r.promo = req[q].promo /\ r.amount = req[q].amount /\ r.step = "hold"
    BY <1>1 DEF Creating
  <1>5. req' = [req EXCEPT ![q] = r] /\ UNCHANGED <<promos, usages, orders, promoLock>>
    BY DEF CheckBalance, AccountingInv, TypeOK
  <1>6. promoLock' \in [Promos -> Procs \cup {Free}]
    BY <1>5 DEF AccountingInv, TypeOK
  <1> HIDE DEF r
  <1>7. Apart(q, r)
    BY <1>1, <1>4, StaysApart
  <1>8. Fits(q, r, promoLock')
    BY <1>1, <1>2, <1>4, <1>5 DEF Fits, Creating
  <1> QED
    BY <1>3, <1>5, <1>6, <1>7, <1>8, QuietStep

-----------------------------------------------------------------------------
(* Steps that write to the tables.                                         *)

\* What a request decided under its lock stays true if nobody changes the
\* counters, the terms and the usages of the promotion it holds.
LEMMA KeepsFitting ==
    ASSUME AccountingInv, NEW t \in Procs, Busy(t), Fits(t, req[t], promoLock),
           req'[t] = req[t],
           req[t].kind = "create" => orders'[req[t].order] = NoRow,
           req[t].kind = "cancel" => orders'[req[t].order] # NoRow,
           \A p \in Promos : Stored(p) /\ promoLock[p] = t =>
             /\ promoLock'[p] = t /\ Stored(p)' /\ UsagesOf(p)' = UsagesOf(p)
             /\ promos'[p].offer = promos[p].offer
             /\ promos'[p].used = promos[p].used /\ promos'[p].count = promos[p].count
    PROVE  Fits(t, req[t], promoLock)'
  <1>1. req[t].kind = "create" /\ req[t].promo # NoPromo => req[t].promo \in Promos
    BY RequestTypes DEF AccountingInv, Creating
  <1>2. CASE req[t].kind = "create" /\ req[t].promo # NoPromo
    <2> DEFINE p == req[t].promo
    <2>1. p \in Promos /\ Stored(p) /\ promoLock[p] = t
      BY <1>1, <1>2 DEF Fits
    <2>2. /\ promoLock'[p] = t /\ Stored(req[t].promo)'
          /\ promos'[p].offer = promos[p].offer
          /\ promos'[p].used = promos[p].used /\ promos'[p].count = promos[p].count
      BY <2>1 DEF Stored
    <2>3. UsedBy(req[t].promo, req[t].user)' = UsedBy(req[t].promo, req[t].user)
      BY <2>1 DEF UsedBy, UsagesOf
    <2> QED
      BY <1>2, <2>1, <2>2, <2>3 DEF Fits
  <1>3. CASE ~(req[t].kind = "create" /\ req[t].promo # NoPromo)
    BY <1>3 DEF Fits
  <1> QED
    BY <1>2, <1>3

\* A statement that no request takes part in.
LEMMA OutsideStep ==
    ASSUME AccountingInv, UNCHANGED <<promoLock, req>>, TypeOK', LedgerInv',
           \A t \in Procs :
              Busy(t) /\ Fits(t, req[t], promoLock) => Fits(t, req[t], promoLock)'
    PROVE  AccountingInv'
  <1>1. RequestsFit
    BY RequestsFitIsInv DEF AccountingInv
  <1>2. RequestsFit'
    BY <1>1 DEF RequestsFit, Apart, Busy
  <1>3. TypeOK' => (RequestsFit' <=> ReservationInv')
    BY RequestsFitIsInv, PTL
  <1> QED
    BY <1>2, <1>3 DEF AccountingInv

\* An order that is closed otherwise keeps its discount and its usage.
LEMMA CloseOrderInv ==
    ASSUME AccountingInv, NEW o \in Orders, NEW status \in {"completed", "expired"},
           CloseOrder(o, status)
    PROVE  AccountingInv'
  <1>1. /\ orders[o] \in OrderRow /\ orders[o].status = "open"
        /\ UNCHANGED <<promos, usages, promoLock, req>>
    BY DEF CloseOrder, AccountingInv, TypeOK
  <1>2. orders' = [orders EXCEPT ![o] = [orders[o] EXCEPT !.status = status]]
    BY DEF CloseOrder, AccountingInv, TypeOK
  <1>3. [orders[o] EXCEPT !.status = status] \in OrderRow
    BY <1>1 DEF OrderRow
  <1>4. TypeOK'
    BY <1>1, <1>2, <1>3 DEF AccountingInv, TypeOK
  <1>5. \A x \in Orders : /\ (orders'[x] = NoRow) <=> (orders[x] = NoRow)
                          /\ x # o => orders'[x] = orders[x]
    BY <1>1, <1>2, <1>3, SentinelsAssumption DEF AccountingInv, TypeOK
  <1>6. /\ orders'[o].promo = orders[o].promo /\ orders'[o].status = status
        /\ orders'[o].discount = orders[o].discount /\ orders'[o].user = orders[o].user
    BY <1>1, <1>2 DEF AccountingInv, TypeOK, OrderRow
  <1>7. UsageHasOwner'
    <2>1. \A x \in usages : x.order \in Orders
      BY DEF AccountingInv, TypeOK, Usage
    <2> QED
      BY <1>1, <1>5, <1>6, <2>1 DEF AccountingInv, LedgerInv, UsageHasOwner, Stored
  <1>8. DiscountIsAccounted'
    <2>1. ASSUME NEW x \in Orders, orders'[x] # NoRow
          PROVE  UsageOf(x)' = IF orders'[x].discount = 0 \/ orders'[x].status = "cancelled"
                               THEN {}
                               ELSE {[promo |-> orders'[x].promo, order |-> x,
                                      user |-> orders'[x].user,
                                      amount |-> orders'[x].discount]}
      <3>1. UsageOf(x)' = UsageOf(x)
        BY <1>1 DEF UsageOf
      <3>2. orders[x] # NoRow
        BY <1>5, <2>1
      <3> QED
        BY <1>1, <1>5, <1>6, <3>1, <3>2
        DEF AccountingInv, LedgerInv, DiscountIsAccounted
    <2> QED
      BY <2>1 DEF DiscountIsAccounted
  <1>9. LedgerInv'
    BY <1>1, <1>7, <1>8 DEF AccountingInv, LedgerInv, UsesAreCounted, QuotaKept,
       BudgetKept, Stored, UsagesOf
  <1>10. ASSUME NEW t \in Procs, Busy(t), Fits(t, req[t], promoLock)
         PROVE  Fits(t, req[t], promoLock)'
    <2>1. req[t].order \in Orders
      BY <1>10, RequestTypes DEF AccountingInv, Creating, Cancelling
    <2>2. /\ req[t].kind = "create" => orders'[req[t].order] = NoRow
          /\ req[t].kind = "cancel" => orders'[req[t].order] # NoRow
      BY <1>5, <1>10, <2>1 DEF Fits
    <2> QED
      BY <1>1, <1>10, <2>2, KeepsFitting DEF Stored, UsagesOf
  <1> QED
    BY <1>1, <1>4, <1>9, <1>10, OutsideStep

\* One more row in a finite set of usages, and one less.
LEMMA CountUsages ==
    ASSUME TypeOK, IsFiniteSet(usages), NEW x
    PROVE  /\ usages' = usages \cup {x} /\ x \notin usages
                => /\ IsFiniteSet(usages')
                   /\ \A p \in Promos :
                        /\ x.promo # p => UsagesOf(p)' = UsagesOf(p)
                        /\ x.promo = p => /\ Cardinality(UsagesOf(p)) \in Nat
                                          /\ Cardinality(UsagesOf(p)')
                                               = Cardinality(UsagesOf(p)) + 1
           /\ usages' = usages \ {x} /\ x \in usages
                => /\ IsFiniteSet(usages')
                   /\ \A p \in Promos :
                        /\ x.promo # p => UsagesOf(p)' = UsagesOf(p)
                        /\ x.promo = p => /\ Cardinality(UsagesOf(p)) \in Nat
                                          /\ Cardinality(UsagesOf(p)) > 0
                                          /\ Cardinality(UsagesOf(p)')
                                               = Cardinality(UsagesOf(p)) - 1
  <1>1. \A p \in Promos : /\ IsFiniteSet(UsagesOf(p))
                          /\ Cardinality(UsagesOf(p)) \in Nat
    BY FS_Subset, FS_CardinalityType DEF UsagesOf
  <1>2. ASSUME usages' = usages \cup {x}, x \notin usages
        PROVE  /\ IsFiniteSet(usages')
               /\ \A p \in Promos :
                    /\ x.promo # p => UsagesOf(p)' = UsagesOf(p)
                    /\ x.promo = p => Cardinality(UsagesOf(p)') = Cardinality(UsagesOf(p)) + 1
    <2>1. IsFiniteSet(usages')
      BY <1>2, FS_AddElement
    <2>2. \A p \in Promos : x.promo # p => UsagesOf(p)' = UsagesOf(p)
      BY <1>2 DEF UsagesOf
    <2>3. ASSUME NEW p \in Promos, x.promo = p
          PROVE  Cardinality(UsagesOf(p)') = Cardinality(UsagesOf(p)) + 1
      <3>1. UsagesOf(p)' = UsagesOf(p) \cup {x} /\ x \notin UsagesOf(p)
        BY <1>2, <2>3 DEF UsagesOf
      <3> QED
        BY <1>1, <3>1, FS_AddElement
    <2> QED
      BY <2>1, <2>2, <2>3
  <1>3. ASSUME usages' = usages \ {x}, x \in usages
        PROVE  /\ IsFiniteSet(usages')
               /\ \A p \in Promos :
                    /\ x.promo # p => UsagesOf(p)' = UsagesOf(p)
                    /\ x.promo = p => /\ Cardinality(UsagesOf(p)) > 0
                                      /\ Cardinality(UsagesOf(p)') = Cardinality(UsagesOf(p)) - 1
    <2>1. IsFiniteSet(usages')
      BY <1>3, FS_Subset
    <2>2. \A p \in Promos : x.promo # p => UsagesOf(p)' = UsagesOf(p)
      BY <1>3 DEF UsagesOf
    <2>3. ASSUME NEW p \in Promos, x.promo = p
          PROVE  /\ Cardinality(UsagesOf(p)) > 0
                 /\ Cardinality(UsagesOf(p)') = Cardinality(UsagesOf(p)) - 1
      <3>1. UsagesOf(p)' = UsagesOf(p) \ {x} /\ x \in UsagesOf(p)
        BY <1>3, <2>3 DEF UsagesOf
      <3>2. Cardinality(UsagesOf(p)') = Cardinality(UsagesOf(p)) - 1
        BY <1>1, <3>1, FS_RemoveElement
      <3>3. Cardinality(UsagesOf(p)) # 0
        BY <1>1, <3>1, FS_EmptySet
      <3> QED
        BY <1>1, <3>2, <3>3
    <2> QED
      BY <2>1, <2>2, <2>3
  <1> QED
    BY <1>1, <1>2, <1>3

\* The use is written while the lock under which it was decided is still held.
LEMMA CommitOrderInv ==
    ASSUME AccountingInv, NEW q \in Procs, CommitOrder(q)
    PROVE  AccountingInv'
  <1>1. Busy(q) /\ req[q] \in Creating /\ req[q].step \in {"pay", "hold"}
    BY RequestTypes DEF AccountingInv, CommitOrder, Creates
  <1>2. PICK r \in Creating : r = req[q]
    BY <1>1
  <1> DEFINE row == [user |-> r.user, payment |-> r.payment, promo |-> r.promo,
                     discount |-> r.amount, status |-> "open"]
             x == [promo |-> r.promo, order |-> r.order, user |-> r.user,
                   amount |-> r.amount]
  <1>3. Fits(q, r, promoLock) /\ Apart(q, r) /\ r.kind = "create" /\ r.step # "check"
    BY <1>1, <1>2, RequestsFitIsInv DEF AccountingInv, RequestsFit, Creating
  <1>4. /\ r.order \in Orders /\ r.user \in Users /\ r.amount \in Nat
        /\ r.promo \in Promos \cup {NoPromo} /\ row \in OrderRow
    BY DEF Creating, OrderRow
  <1>5. orders[r.order] = NoRow
    BY <1>3 DEF Fits
  <1>6. End(q) /\ orders' = [orders EXCEPT ![r.order] = row]
    BY <1>2 DEF CommitOrder
  <1>7. /\ orders'[r.order] = row /\ orders'[r.order] # NoRow
        /\ \A o \in Orders \ {r.order} : orders'[o] = orders[o]
        /\ orders' \in [Orders -> OrderRow \cup {NoRow}]
    BY <1>4, <1>6, SentinelsAssumption DEF AccountingInv, TypeOK
  <1>8. /\ row.promo = r.promo /\ row.discount = r.amount /\ row.status = "open"
        /\ row.user = r.user /\ x.promo = r.promo /\ x.order = r.order
    OBVIOUS
  <1>9. \A y \in usages :
          /\ y.promo \in Promos /\ y.order \in Orders \ {r.order} /\ Stored(y.promo)
          /\ orders[y.order] # NoRow /\ orders[y.order].promo = y.promo
    BY <1>5 DEF AccountingInv, TypeOK, Usage, LedgerInv, UsageHasOwner
  <1>10. \A t \in Procs \ {q} : Busy(t) =>
           /\ req'[t] = req[t] /\ req[t].order \in Orders \ {r.order}
    BY <1>3, <1>6, EndTypes, RequestTypes DEF AccountingInv, Apart, Creating, Cancelling
  <1>11. \A t \in Procs \ {q} : Busy(t) /\ Fits(t, req[t], promoLock) =>
           /\ req[t].kind = "create" => orders'[req[t].order] = NoRow
           /\ req[t].kind = "cancel" => orders'[req[t].order] # NoRow
    BY <1>7, <1>10 DEF Fits
  <1>12. \A o \in Orders : UsageOf(o)' = {y \in usages' : y.order = o}
    BY DEF UsageOf
  <1>13. \A o \in Orders : orders[o] # NoRow =>
           UsageOf(o) = IF orders[o].discount = 0 \/ orders[o].status = "cancelled" THEN {}
                        ELSE {[promo |-> orders[o].promo, order |-> o,
                               user |-> orders[o].user, amount |-> orders[o].discount]}
    BY DEF AccountingInv, LedgerInv, DiscountIsAccounted
  <1>14. CASE Discounted(r)
    <2> DEFINE p == r.promo
    <2>1. p \in Promos /\ p # NoPromo
      BY <1>4, <1>14 DEF Discounted
    <2>2. /\ Stored(p) /\ promoLock[p] = q /\ r.amount > 0
          /\ promos[p].count < promos[p].offer.max
          /\ promos[p].used + r.amount <= promos[p].offer.budget + Rupiah \div 2
      BY <1>3, <2>1 DEF Fits
    <2>3. promos[p] \in PromoRow
      BY <2>1, <2>2 DEF Stored, AccountingInv, TypeOK
    <2>4. PICK used \in Nat : used = promos[p].used + r.amount
      BY <1>4, <2>3 DEF PromoRow
    <2>5. PICK count \in Nat : count = promos[p].count + 1
      BY <2>3 DEF PromoRow
    <2>6. PICK old \in PromoRow : old = promos[p]
      BY <2>3
    <2> DEFINE p2 == [old EXCEPT !.used = used, !.count = count]
    <2>7. p2 \in PromoRow /\ p2.offer = old.offer /\ p2.used = used /\ p2.count = count
      BY DEF PromoRow
    <2>8. usages' = usages \cup {x} /\ promos' = [promos EXCEPT ![p] = p2]
      <3>1. usages' = usages \cup {x}
        BY <1>2, <1>14 DEF CommitOrder
      <3>2. promos' = [promos EXCEPT ![p] =
                         [promos[p] EXCEPT !.used = promos[p].used + r.amount,
                                           !.count = promos[p].count + 1]]
        BY <1>2, <1>14, <2>1 DEF CommitOrder, ApplyUsage, AccountingInv, TypeOK
      <3> QED
        BY <2>4, <2>5, <2>6, <3>1, <3>2, Zenon
    <2>9. x \notin usages /\ x \in Usage
      BY <1>4, <1>8, <1>9, <2>1 DEF Usage
    <2>10. /\ p2 \in PromoRow /\ p2.offer = promos[p].offer
          /\ p2.used = promos[p].used + r.amount /\ p2.count = promos[p].count + 1
      BY <2>4, <2>5, <2>6, <2>7
    <2>11. /\ promos'[p] = p2 /\ \A y \in Promos \ {p} : promos'[y] = promos[y]
          /\ promos' \in [Promos -> PromoRow \cup {NoRow}]
      BY <2>1, <2>8, <2>10 DEF AccountingInv, TypeOK
    <2>12. TypeOK'
      BY <1>6, <1>7, <2>8, <2>9, <2>11, EndTypes DEF AccountingInv, TypeOK
    <2>13. \A y \in Promos : Stored(y)' <=> Stored(y)
      BY <2>2, <2>10, <2>11, SentinelsAssumption DEF Stored
    <2>14. /\ IsFiniteSet(usages')
           /\ \A y \in Promos \ {p} : UsagesOf(y)' = UsagesOf(y)
           /\ Cardinality(UsagesOf(p)) \in Nat
           /\ Cardinality(UsagesOf(p)') = Cardinality(UsagesOf(p)) + 1
      <3> HIDE DEF x
      <3> QED
        BY <1>8, <2>1, <2>8, <2>9, CountUsages
        DEF AccountingInv, LedgerInv, UsesAreCounted
    <2>15. UsageHasOwner'
      <3>1. \A y \in usages : /\ Stored(y.promo)' /\ orders'[y.order] # NoRow
                              /\ orders'[y.order].promo = y.promo
        BY <1>7, <1>9, <2>13
      <3>2. /\ Stored(x.promo)' /\ orders'[x.order] # NoRow
            /\ orders'[x.order].promo = x.promo
        BY <1>7, <1>8, <2>1, <2>2, <2>13
      <3> HIDE DEF x
      <3> QED
        BY <2>8, <3>1, <3>2 DEF UsageHasOwner
    <2>16. UsesAreCounted'
      <3>1. \A y \in Promos : Stored(y) => promos[y].count = Cardinality(UsagesOf(y))
        BY DEF AccountingInv, LedgerInv, UsesAreCounted
      <3>2. promos'[p].count = Cardinality(UsagesOf(p)')
        BY <2>1, <2>2, <2>10, <2>11, <2>14, <3>1
      <3>3. ASSUME NEW y \in Promos, Stored(y)'
            PROVE  promos'[y].count = Cardinality(UsagesOf(y)')
        <4> HIDE DEF p
        <4>1. CASE y = p
          BY <3>2, <4>1
        <4>2. CASE y # p
          <5>1. Stored(y) /\ promos'[y] = promos[y] /\ UsagesOf(y)' = UsagesOf(y)
            BY <2>11, <2>13, <2>14, <3>3, <4>2
          <5> QED
            BY <3>1, <5>1
        <4> QED
          BY <4>1, <4>2
      <3> QED
        BY <2>14, <3>3 DEF UsesAreCounted
    <2>17. DiscountIsAccounted'
      <3>1. ASSUME NEW o \in Orders, orders'[o] # NoRow
            PROVE  UsageOf(o)' =
                     IF orders'[o].discount = 0 \/ orders'[o].status = "cancelled" THEN {}
                     ELSE {[promo |-> orders'[o].promo, order |-> o,
                            user |-> orders'[o].user, amount |-> orders'[o].discount]}
        <4>1. CASE o = r.order
          <5>1. UsageOf(o)' = {x}
            <6>1. \A y \in usages : y.order # o
              BY <1>9, <4>1
            <6> HIDE DEF x
            <6> QED
              BY <1>8, <1>12, <2>8, <4>1, <6>1
          <5> QED
            BY <1>7, <1>8, <2>2, <4>1, <5>1
        <4>2. CASE o # r.order
          <5>1. UsageOf(o)' = UsageOf(o)
            <6> HIDE DEF x
            <6> QED
              BY <1>8, <2>8, <4>2 DEF UsageOf
          <5> QED
            BY <1>7, <1>13, <3>1, <4>2, <5>1
        <4> QED
          BY <4>1, <4>2
      <3> QED
        BY <3>1 DEF DiscountIsAccounted
    <2>18. QuotaKept' /\ BudgetKept'
      <3>1. ASSUME NEW y \in Promos, Stored(y)'
            PROVE  /\ promos'[y].count <= promos'[y].offer.max
                   /\ promos'[y].used <= promos'[y].offer.budget + Rupiah \div 2
        <4>1. CASE y = p
          <5>1. promos[p].count \in Nat /\ promos[p].offer.max \in Nat
            BY <2>3, OffersAssumption DEF PromoRow, Offer
          <5>2. promos'[y] = p2
            BY <2>11, <4>1
          <5> HIDE DEF p
          <5>3. p2.count <= p2.offer.max
            BY <2>2, <2>10, <5>1
          <5>4. p2.used <= p2.offer.budget + Rupiah \div 2
            BY <2>2, <2>10
          <5> QED
            BY <5>2, <5>3, <5>4
        <4>2. CASE y # p
          <5>1. Stored(y) /\ promos'[y] = promos[y]
            BY <2>11, <2>13, <3>1, <4>2
          <5> QED
            BY <5>1 DEF AccountingInv, LedgerInv, QuotaKept, BudgetKept
        <4> QED
          BY <4>1, <4>2
      <3> QED
        BY <3>1 DEF QuotaKept, BudgetKept
    <2>19. LedgerInv'
      BY <2>15, <2>16, <2>17, <2>18 DEF LedgerInv
    <2>20. ASSUME NEW t \in Procs \ {q}, Busy(t), Fits(t, req[t], promoLock)
           PROVE  Fits(t, req[t], promoLock)'
      <3>1. \A y \in Promos : Stored(y) /\ promoLock[y] = t =>
              /\ promoLock'[y] = t /\ Stored(y)' /\ UsagesOf(y)' = UsagesOf(y)
              /\ promos'[y] = promos[y]
        BY <1>6, <2>2, <2>11, <2>13, <2>14, LocksSurvive DEF AccountingInv
      <3> QED
        BY <1>10, <1>11, <2>20, <3>1, KeepsFitting
    <2> QED
      BY <1>6, <2>12, <2>19, <2>20, EndedStep
  <1>15. CASE ~Discounted(r)
    <2>1. r.promo = NoPromo /\ r.amount = 0
      BY <1>3, <1>15 DEF Discounted, Fits
    <2>2. UNCHANGED <<promos, usages>>
      BY <1>2, <1>15 DEF CommitOrder
    <2>3. TypeOK'
      BY <1>6, <1>7, <2>2, EndTypes DEF AccountingInv, TypeOK
    <2>4. UsageHasOwner'
      BY <1>7, <1>9, <2>2 DEF UsageHasOwner, Stored
    <2>5. DiscountIsAccounted'
      <3>1. ASSUME NEW o \in Orders, orders'[o] # NoRow
            PROVE  UsageOf(o)' =
                     IF orders'[o].discount = 0 \/ orders'[o].status = "cancelled" THEN {}
                     ELSE {[promo |-> orders'[o].promo, order |-> o,
                            user |-> orders'[o].user, amount |-> orders'[o].discount]}
        <4>1. UsageOf(o)' = UsageOf(o)
          BY <2>2 DEF UsageOf
        <4>2. CASE o = r.order
          <5>1. UsageOf(o) = {}
            BY <1>9, <4>2 DEF UsageOf
          <5> QED
            BY <1>7, <1>8, <2>1, <4>1, <4>2, <5>1
        <4>3. CASE o # r.order
          BY <1>7, <1>13, <3>1, <4>1, <4>3
        <4> QED
          BY <4>2, <4>3
      <3> QED
        BY <3>1 DEF DiscountIsAccounted
    <2>6. LedgerInv'
      BY <2>2, <2>4, <2>5 DEF AccountingInv, LedgerInv, UsesAreCounted, QuotaKept,
         BudgetKept, Stored, UsagesOf
    <2>7. ASSUME NEW t \in Procs \ {q}, Busy(t), Fits(t, req[t], promoLock)
          PROVE  Fits(t, req[t], promoLock)'
      <3>1. \A y \in Promos : Stored(y) /\ promoLock[y] = t =>
              /\ promoLock'[y] = t /\ Stored(y)' /\ UsagesOf(y)' = UsagesOf(y)
              /\ promos'[y] = promos[y]
        BY <1>6, <2>2, LocksSurvive DEF AccountingInv, Stored, UsagesOf
      <3> QED
        BY <1>10, <1>11, <2>7, <3>1, KeepsFitting
    <2> QED
      BY <1>6, <2>3, <2>6, <2>7, EndedStep
  <1> QED
    BY <1>14, <1>15

\* The end of a cancellation gives back what the usage row says.  No request can
\* rely on the promotion meanwhile, since its row has to be free.
LEMMA CommitCancelInv ==
    ASSUME AccountingInv, NEW q \in Procs, CommitCancel(q)
    PROVE  AccountingInv'
  <1>1. Busy(q) /\ req[q] \in Cancelling
    BY RequestTypes DEF AccountingInv, CommitCancel, Cancels
  <1>2. PICK r \in Cancelling : r = req[q]
    BY <1>1
  <1>3. Fits(q, r, promoLock) /\ Apart(q, r) /\ r.kind = "cancel" /\ r.order \in Orders
    BY <1>1, <1>2, RequestsFitIsInv DEF AccountingInv, RequestsFit, Cancelling
  <1> DEFINE c == r.order
  <1>4. orders[c] # NoRow /\ orders[c] \in OrderRow
    BY <1>3 DEF Fits, AccountingInv, TypeOK
  <1>5. PICK old \in OrderRow : old = orders[c]
    BY <1>4
  <1> DEFINE row == [old EXCEPT !.status = "cancelled"]
  <1>6. row \in OrderRow /\ row.status = "cancelled" /\ row.promo = old.promo
    BY DEF OrderRow
  <1>7. End(q) /\ orders' = [orders EXCEPT ![c] = row]
    BY <1>2, <1>5 DEF CommitCancel, AccountingInv, TypeOK
  <1> HIDE DEF row
  <1>8. /\ orders'[c] = row /\ orders'[c] # NoRow
        /\ \A o \in Orders \ {c} : orders'[o] = orders[o]
        /\ \A o \in Orders : (orders'[o] = NoRow) <=> (orders[o] = NoRow)
        /\ orders' \in [Orders -> OrderRow \cup {NoRow}]
    BY <1>3, <1>4, <1>6, <1>7, SentinelsAssumption DEF AccountingInv, TypeOK
  <1>9. \A t \in Procs \ {q} : Busy(t) =>
          /\ req'[t] = req[t]
          /\ req[t].order \in Orders
          /\ Fits(t, req[t], promoLock)
               => /\ req[t].kind = "create" => orders'[req[t].order] = NoRow
                  /\ req[t].kind = "cancel" => orders'[req[t].order] # NoRow
    BY <1>7, <1>8, EndTypes, RequestTypes DEF AccountingInv, Creating, Cancelling, Fits
  <1>10. \A y \in usages :
           /\ y.promo \in Promos /\ y.order \in Orders /\ Stored(y.promo)
           /\ orders[y.order] # NoRow /\ orders[y.order].promo = y.promo
    BY DEF AccountingInv, TypeOK, Usage, LedgerInv, UsageHasOwner
  <1>11. \A y \in usages : orders'[y.order] # NoRow /\ orders'[y.order].promo = y.promo
    BY <1>5, <1>6, <1>8, <1>10
  <1>12. \A o \in Orders : orders[o] # NoRow =>
           UsageOf(o) = IF orders[o].discount = 0 \/ orders[o].status = "cancelled" THEN {}
                        ELSE {[promo |-> orders[o].promo, order |-> o,
                               user |-> orders[o].user, amount |-> orders[o].discount]}
    BY DEF AccountingInv, LedgerInv, DiscountIsAccounted
  <1>13. ASSUME UsageOf(c)' = {}, \A o \in Orders \ {c} : UsageOf(o)' = UsageOf(o)
         PROVE  DiscountIsAccounted'
    <2>1. ASSUME NEW o \in Orders, orders'[o] # NoRow
          PROVE  UsageOf(o)' =
                   IF orders'[o].discount = 0 \/ orders'[o].status = "cancelled" THEN {}
                   ELSE {[promo |-> orders'[o].promo, order |-> o,
                          user |-> orders'[o].user, amount |-> orders'[o].discount]}
      <3>1. CASE o = c
        BY <1>6, <1>8, <1>13, <3>1
      <3>2. CASE o # c
        BY <1>8, <1>12, <1>13, <2>1, <3>2
      <3> QED
        BY <3>1, <3>2
    <2> QED
      BY <2>1 DEF DiscountIsAccounted
  <1>14. CASE UNCHANGED <<promos, usages>> /\ UsageOf(c) = {}
    <2>1. TypeOK'
      BY <1>7, <1>8, <1>14, EndTypes DEF AccountingInv, TypeOK
    <2>2. UsageHasOwner'
      BY <1>10, <1>11, <1>14 DEF UsageHasOwner, Stored
    <2>3. DiscountIsAccounted'
      BY <1>13, <1>14 DEF UsageOf
    <2>4. LedgerInv'
      BY <1>14, <2>2, <2>3 DEF AccountingInv, LedgerInv, UsesAreCounted, QuotaKept,
         BudgetKept, Stored, UsagesOf
    <2>5. ASSUME NEW t \in Procs \ {q}, Busy(t), Fits(t, req[t], promoLock)
          PROVE  Fits(t, req[t], promoLock)'
      <3>1. \A y \in Promos : Stored(y) /\ promoLock[y] = t =>
              /\ promoLock'[y] = t /\ Stored(y)' /\ UsagesOf(y)' = UsagesOf(y)
              /\ promos'[y] = promos[y]
        BY <1>7, <1>14, LocksSurvive DEF AccountingInv, Stored, UsagesOf
      <3> QED
        BY <1>9, <2>5, <3>1, KeepsFitting
    <2> QED
      BY <1>7, <2>1, <2>4, <2>5, EndedStep
  <1>15. CASE \E x \in UsageOf(c) :
                /\ promoLock[x.promo] = Free
                /\ usages' = usages \ {x}
                /\ promos' = [promos EXCEPT
                     ![x.promo].used = IF @ > x.amount THEN @ - x.amount ELSE 0,
                     ![x.promo].count = IF @ > 0 THEN @ - 1 ELSE 0]
    <2>1. PICK x \in UsageOf(c) :
            /\ promoLock[x.promo] = Free
            /\ usages' = usages \ {x}
            /\ promos' = [promos EXCEPT
                 ![x.promo].used = IF @ > x.amount THEN @ - x.amount ELSE 0,
                 ![x.promo].count = IF @ > 0 THEN @ - 1 ELSE 0]
      BY <1>15
    <2>2. x \in usages /\ x.order = c /\ x.amount \in Nat
      BY DEF UsageOf, AccountingInv, TypeOK, Usage
    <2>3. PICK p \in Promos : p = x.promo
      BY <1>10, <2>2
    <2>4. Stored(p)
      BY <1>10, <2>2, <2>3
    <2>5. PICK before \in PromoRow : before = promos[p]
      BY <2>4 DEF Stored, AccountingInv, TypeOK
    <2>6. before.used \in Nat /\ before.count \in Nat /\ before.offer \in Offers
      BY DEF PromoRow
    <2>7. PICK used \in Nat :
            used = IF before.used > x.amount THEN before.used - x.amount ELSE 0
      BY <2>2, <2>6
    <2>8. PICK count \in Nat : count = IF before.count > 0 THEN before.count - 1 ELSE 0
      BY <2>6
    <2> DEFINE after == [before EXCEPT !.used = used, !.count = count]
    <2>9. /\ after \in PromoRow /\ after.offer = before.offer
          /\ after.used = used /\ after.count = count
      BY DEF PromoRow
    <2>10. promos' = [promos EXCEPT ![p] = after]
      <3>1. promos' = [promos EXCEPT ![p] =
                         [promos[p] EXCEPT
                            !.used = IF promos[p].used > x.amount
                                     THEN promos[p].used - x.amount ELSE 0,
                            !.count = IF promos[p].count > 0
                                      THEN promos[p].count - 1 ELSE 0]]
        BY <2>1, <2>3 DEF AccountingInv, TypeOK
      <3> QED
        BY <2>5, <2>7, <2>8, <3>1, Zenon
    <2> HIDE DEF after, c
    <2>11. /\ promos'[p] = after /\ \A y \in Promos \ {p} : promos'[y] = promos[y]
           /\ promos' \in [Promos -> PromoRow \cup {NoRow}]
      BY <2>9, <2>10 DEF AccountingInv, TypeOK
    <2>12. TypeOK'
      BY <1>7, <1>8, <2>1, <2>11, EndTypes DEF AccountingInv, TypeOK
    <2>13. \A y \in Promos : Stored(y)' <=> Stored(y)
      BY <2>4, <2>9, <2>11, SentinelsAssumption DEF Stored
    <2>14. /\ IsFiniteSet(usages')
           /\ \A y \in Promos \ {p} : UsagesOf(y)' = UsagesOf(y)
           /\ Cardinality(UsagesOf(p)) \in Nat /\ Cardinality(UsagesOf(p)) > 0
           /\ Cardinality(UsagesOf(p)') = Cardinality(UsagesOf(p)) - 1
      BY <2>1, <2>2, <2>3, CountUsages DEF AccountingInv, LedgerInv, UsesAreCounted
    <2>15. before.count = Cardinality(UsagesOf(p))
      BY <2>4, <2>5 DEF AccountingInv, LedgerInv, UsesAreCounted
    <2>16. count = Cardinality(UsagesOf(p)') /\ count <= before.count
      BY <2>6, <2>8, <2>14, <2>15
    <2>17. UsageHasOwner'
      BY <1>10, <1>11, <2>1, <2>13 DEF UsageHasOwner
    <2>18. ASSUME NEW y \in Promos, Stored(y)'
           PROVE  /\ promos'[y].count = Cardinality(UsagesOf(y)')
                  /\ promos'[y].count <= promos'[y].offer.max
                  /\ promos'[y].used <= promos'[y].offer.budget + Rupiah \div 2
      <3>1. /\ Stored(y)
            /\ promos[y].count = Cardinality(UsagesOf(y))
            /\ promos[y].count <= promos[y].offer.max
            /\ promos[y].used <= promos[y].offer.budget + Rupiah \div 2
        BY <2>13, <2>18 DEF AccountingInv, LedgerInv, UsesAreCounted, QuotaKept, BudgetKept
      <3>2. CASE y = p
        <4>1. promos'[y] = after /\ Cardinality(UsagesOf(y)') = count
          BY <2>11, <2>16, <3>2
        <4>2. /\ before.count <= before.offer.max
              /\ before.used <= before.offer.budget + Rupiah \div 2
          BY <2>5, <3>1, <3>2
        <4>3. before.offer.max \in Nat /\ before.offer.budget \in Nat /\ Rupiah \div 2 \in Nat
          BY <2>6, OffersAssumption DEF Offer, Rupiah
        <4>4. used <= before.used \/ used = 0
          BY <2>2, <2>6, <2>7
        <4>5. count <= before.offer.max /\ used <= before.offer.budget + Rupiah \div 2
          BY <2>6, <2>16, <4>2, <4>3, <4>4
        <4> QED
          BY <2>9, <4>1, <4>5
      <3>3. CASE y # p
        BY <2>11, <2>14, <3>1, <3>3
      <3> QED
        BY <3>2, <3>3
    <2>19. UsesAreCounted' /\ QuotaKept' /\ BudgetKept'
      BY <2>14, <2>18 DEF UsesAreCounted, QuotaKept, BudgetKept
    <2>20. DiscountIsAccounted'
      <3>1. \A y \in UsageOf(c) : y = x
        BY <1>3, <1>4, <1>12 DEF c
      <3>2. UsageOf(c)' = {} /\ \A o \in Orders \ {c} : UsageOf(o)' = UsageOf(o)
        <4>1. {y \in usages' : y.order = r.order} = {}
          BY <2>1, <3>1 DEF UsageOf, c
        <4>2. \A o \in Orders \ {r.order} :
                {y \in usages' : y.order = o} = {y \in usages : y.order = o}
          BY <2>1, <2>2 DEF c
        <4> QED
          BY <4>1, <4>2 DEF UsageOf, c
      <3> QED
        BY <1>13, <3>2
    <2>21. LedgerInv'
      BY <2>17, <2>19, <2>20 DEF LedgerInv
    <2>22. ASSUME NEW t \in Procs \ {q}, Busy(t), Fits(t, req[t], promoLock)
           PROVE  Fits(t, req[t], promoLock)'
      <3>1. promoLock[p] # t
        BY <2>1, <2>3, SentinelsAssumption
      <3>2. \A y \in Promos : Stored(y) /\ promoLock[y] = t =>
              /\ promoLock'[y] = t /\ Stored(y)' /\ UsagesOf(y)' = UsagesOf(y)
              /\ promos'[y] = promos[y]
        BY <1>7, <2>11, <2>13, <2>14, <3>1, LocksSurvive DEF AccountingInv
      <3> QED
        BY <1>9, <2>22, <3>2, KeepsFitting
    <2> QED
      BY <1>7, <2>12, <2>21, <2>22, EndedStep
  <1>16. \/ UNCHANGED <<promos, usages>> /\ UsageOf(c) = {}
         \/ \E x \in UsageOf(c) :
              /\ promoLock[x.promo] = Free
              /\ usages' = usages \ {x}
              /\ promos' = [promos EXCEPT
                   ![x.promo].used = IF @ > x.amount THEN @ - x.amount ELSE 0,
                   ![x.promo].count = IF @ > 0 THEN @ - 1 ELSE 0]
    <2>1. orders[c].promo = NoPromo => UsageOf(c) = {}
      BY <1>10, SentinelsAssumption DEF UsageOf
    <2> QED
      BY <1>2, <2>1 DEF CommitCancel, ReleaseUsage
  <1> QED
    BY <1>14, <1>15, <1>16

-----------------------------------------------------------------------------
(* Administrators.                                                         *)

\* A row is written whose counters stay within its terms, and on which no
\* request relies unless only switches change.
LEMMA RowWritten ==
    ASSUME AccountingInv, NEW p \in Promos, NEW row \in PromoRow,
           promos' = [promos EXCEPT ![p] = row],
           UNCHANGED <<usages, orders, promoLock, req>>,
           row.count = Cardinality(UsagesOf(p)),
           row.count <= row.offer.max,
           row.used <= row.offer.budget + Rupiah \div 2,
           \/ promoLock[p] = Free
           \/ /\ Stored(p) /\ row.offer = promos[p].offer
              /\ row.used = promos[p].used /\ row.count = promos[p].count
    PROVE  AccountingInv'
  <1>1. /\ promos'[p] = row /\ \A y \in Promos \ {p} : promos'[y] = promos[y]
        /\ TypeOK'
    BY DEF AccountingInv, TypeOK
  <1>2. Stored(p)' /\ \A y \in Promos \ {p} : Stored(y)' <=> Stored(y)
    BY <1>1, SentinelsAssumption DEF Stored
  <1>3. \A y \in Promos : UsagesOf(y)' = UsagesOf(y)
    BY DEF UsagesOf
  <1>4. UsageHasOwner' /\ DiscountIsAccounted'
    <2>1. \A x \in usages : x.promo \in Promos
      BY DEF AccountingInv, TypeOK, Usage
    <2> QED
      BY <1>2, <2>1 DEF AccountingInv, LedgerInv, UsageHasOwner, DiscountIsAccounted,
         UsageOf
  <1>5. UsesAreCounted' /\ QuotaKept' /\ BudgetKept'
    <2>1. ASSUME NEW y \in Promos, Stored(y)'
          PROVE  /\ promos'[y].count = Cardinality(UsagesOf(y)')
                 /\ promos'[y].count <= promos'[y].offer.max
                 /\ promos'[y].used <= promos'[y].offer.budget + Rupiah \div 2
      <3>1. CASE y = p
        BY <1>1, <1>3, <3>1
      <3>2. CASE y # p
        BY <1>1, <1>2, <1>3, <2>1, <3>2
        DEF AccountingInv, LedgerInv, UsesAreCounted, QuotaKept, BudgetKept
      <3> QED
        BY <3>1, <3>2
    <2> QED
      BY <2>1 DEF AccountingInv, LedgerInv, UsesAreCounted, QuotaKept, BudgetKept
  <1>6. LedgerInv'
    BY <1>4, <1>5 DEF LedgerInv
  <1>7. ASSUME NEW t \in Procs, Busy(t), Fits(t, req[t], promoLock)
        PROVE  Fits(t, req[t], promoLock)'
    <2>1. \A y \in Promos : Stored(y) /\ promoLock[y] = t =>
            /\ promoLock'[y] = t /\ Stored(y)' /\ UsagesOf(y)' = UsagesOf(y)
            /\ promos'[y].offer = promos[y].offer
            /\ promos'[y].used = promos[y].used /\ promos'[y].count = promos[y].count
      <3>1. ASSUME NEW y \in Promos, Stored(y), promoLock[y] = t
            PROVE  /\ Stored(y)' /\ promos'[y].offer = promos[y].offer
                   /\ promos'[y].used = promos[y].used
                   /\ promos'[y].count = promos[y].count
        <4>1. CASE y = p
          <5>1. promoLock[p] # Free
            BY <3>1, <4>1, SentinelsAssumption
          <5> QED
            BY <1>1, <1>2, <4>1, <5>1
        <4>2. CASE y # p
          BY <1>1, <1>2, <3>1, <4>2
        <4> QED
          BY <4>1, <4>2
      <3> QED
        BY <1>3, <3>1
    <2>2. /\ req'[t] = req[t]
          /\ req[t].kind = "create" => orders'[req[t].order] = NoRow
          /\ req[t].kind = "cancel" => orders'[req[t].order] # NoRow
      BY <1>7 DEF Fits
    <2> QED
      BY <1>7, <2>1, <2>2, KeepsFitting
  <1> QED
    BY <1>1, <1>6, <1>7, OutsideStep

\* A new promotion has no usages.
LEMMA CreatePromotionInv ==
    ASSUME AccountingInv, NEW p \in Promos, NEW x \in Offers, NEW live \in BOOLEAN,
           CreatePromotion(p, x, live)
    PROVE  AccountingInv'
  <1> DEFINE row == [offer |-> x, active |-> TRUE, live |-> live, used |-> 0, count |-> 0]
  <1>1. row \in PromoRow
    BY DEF PromoRow
  <1>2. UsagesOf(p) = {}
    BY DEF CreatePromotion, UsagesOf, AccountingInv, LedgerInv, UsageHasOwner
  <1>3. Cardinality(UsagesOf(p)) = 0
    BY <1>2, FS_EmptySet
  <1>4. x.max \in Nat /\ x.budget \in Nat /\ Rupiah \div 2 \in Nat
    BY OffersAssumption DEF Offer, Rupiah
  <1>5. /\ row.count = Cardinality(UsagesOf(p)) /\ row.count <= row.offer.max
        /\ row.used <= row.offer.budget + Rupiah \div 2
    BY <1>3, <1>4
  <1>6. /\ promos' = [promos EXCEPT ![p] = row] /\ promoLock[p] = Free
        /\ UNCHANGED <<usages, orders, promoLock, req>>
    BY DEF CreatePromotion, Unlocked
  <1> HIDE DEF row
  <1> QED
    BY <1>1, <1>5, <1>6, RowWritten

\* What the invariant says of one row.
LEMMA StoredRow ==
    ASSUME AccountingInv, NEW p \in Promos, Stored(p)
    PROVE  /\ promos[p] \in PromoRow
           /\ promos[p].count = Cardinality(UsagesOf(p))
           /\ promos[p].count <= promos[p].offer.max
           /\ promos[p].used <= promos[p].offer.budget + Rupiah \div 2
  BY DEF AccountingInv, TypeOK, Stored, LedgerInv, UsesAreCounted, QuotaKept, BudgetKept

\* New terms are not below what is used already.
LEMMA UpdatePromotionInv ==
    ASSUME AccountingInv, NEW p \in Promos, NEW x \in Offers, NEW active \in BOOLEAN,
           NEW live \in BOOLEAN, UpdatePromotion(p, x, active, live)
    PROVE  AccountingInv'
  <1>1. Stored(p) /\ promoLock[p] = Free /\ Updatable(promos[p], x)
    BY DEF UpdatePromotion, Unlocked
  <1>2. PICK old \in PromoRow : old = promos[p]
    BY <1>1, StoredRow
  <1> DEFINE row == [old EXCEPT !.offer = x, !.active = active, !.live = live]
  <1>3. /\ row \in PromoRow /\ row.offer = x
        /\ row.used = old.used /\ row.count = old.count
    BY DEF PromoRow
  <1>4. promos' = [promos EXCEPT ![p] = row]
    <2>1. promos' = [promos EXCEPT ![p] =
                       [promos[p] EXCEPT !.offer = x, !.active = active, !.live = live]]
      BY DEF UpdatePromotion, AccountingInv, TypeOK
    <2> QED
      BY <1>2, <2>1, Zenon
  <1> HIDE DEF row
  <1>5. /\ old.count = Cardinality(UsagesOf(p)) /\ old.count <= old.offer.max
        /\ old.used <= old.offer.budget + Rupiah \div 2
    BY <1>1, <1>2, StoredRow
  <1>6. row.count <= row.offer.max
    <2>1. x.max \in Nat /\ old.count \in Nat
      BY OffersAssumption DEF Offer, PromoRow
    <2> QED
      BY <1>1, <1>2, <1>3, <1>5, <2>1 DEF Updatable
  <1>7. row.used <= row.offer.budget + Rupiah \div 2
    <2>1. x.budget \in Nat /\ old.used \in Nat /\ Rupiah \div 2 \in Nat
      BY OffersAssumption DEF Offer, PromoRow, Rupiah
    <2> QED
      BY <1>1, <1>2, <1>3, <1>5, <2>1 DEF Updatable
  <1>8. UNCHANGED <<usages, orders, promoLock, req>>
    BY DEF UpdatePromotion
  <1> QED
    BY <1>1, <1>3, <1>4, <1>5, <1>6, <1>7, <1>8, RowWritten

\* A switch changes, by an administrator or by time.
LEMMA SwitchInv ==
    ASSUME AccountingInv, NEW p \in Promos, Stored(p), NEW active \in BOOLEAN,
           NEW live \in BOOLEAN, NEW row,
           row = [promos[p] EXCEPT !.active = active, !.live = live],
           promos' = [promos EXCEPT ![p] = row],
           UNCHANGED <<usages, orders, promoLock, req>>
    PROVE  AccountingInv'
  <1>1. PICK old \in PromoRow : old = promos[p]
    BY StoredRow
  <1>2. row = [old EXCEPT !.active = active, !.live = live]
    BY <1>1
  <1>3. /\ row \in PromoRow /\ row.offer = old.offer
        /\ row.used = old.used /\ row.count = old.count
    BY <1>2 DEF PromoRow
  <1>4. /\ old.count = Cardinality(UsagesOf(p)) /\ old.count <= old.offer.max
        /\ old.used <= old.offer.budget + Rupiah \div 2
    BY <1>1, StoredRow
  <1> QED
    BY <1>1, <1>3, <1>4, RowWritten

\* A promotion is deleted only if no usage refers to it.
LEMMA DeletePromotionInv ==
    ASSUME AccountingInv, NEW p \in Promos, DeletePromotion(p)
    PROVE  AccountingInv'
  <1>1. Stored(p) /\ promoLock[p] = Free /\ UNCHANGED <<promoLock, req>>
    BY DEF DeletePromotion, Unlocked
  <1>2. PICK old \in PromoRow : old = promos[p]
    BY <1>1, StoredRow
  <1>3. /\ old.count = Cardinality(UsagesOf(p)) /\ old.count <= old.offer.max
        /\ old.used <= old.offer.budget + Rupiah \div 2
    BY <1>1, <1>2, StoredRow
  <1>4. CASE KeptIfUsed(promos[p])
    <2> DEFINE row == [old EXCEPT !.active = FALSE]
    <2>1. /\ row \in PromoRow /\ row.offer = old.offer
          /\ row.used = old.used /\ row.count = old.count
      BY DEF PromoRow
    <2>2. promos' = [promos EXCEPT ![p] = row]
      <3>1. promos' = [promos EXCEPT ![p] = [promos[p] EXCEPT !.active = FALSE]]
        BY <1>4 DEF DeletePromotion, AccountingInv, TypeOK
      <3> QED
        BY <1>2, <3>1, Zenon
    <2>3. UNCHANGED <<usages, orders, promoLock, req>>
      BY <1>4 DEF DeletePromotion
    <2> HIDE DEF row
    <2> QED
      BY <1>1, <1>2, <1>3, <2>1, <2>2, <2>3, RowWritten
  <1>5. CASE ~KeptIfUsed(promos[p])
    <2>1. UsagesOf(p) = {}
      <3>1. IsFiniteSet(UsagesOf(p))
        BY FS_Subset DEF UsagesOf, AccountingInv, LedgerInv, UsesAreCounted
      <3>2. old.count \in Nat /\ ~(old.count > 0)
        BY <1>2, <1>5 DEF KeptIfUsed, PromoRow
      <3>3. Cardinality(UsagesOf(p)) = 0
        BY <1>3, <3>2
      <3> QED
        BY <3>1, <3>3, FS_EmptySet
    <2>2. usages' = usages /\ promos' = [promos EXCEPT ![p] = NoRow]
      BY <1>5, <2>1 DEF DeletePromotion
    <2>3. orders' = [o \in Orders |->
                       IF orders[o] # NoRow /\ orders[o].promo = p
                       THEN [orders[o] EXCEPT !.promo = NoPromo] ELSE orders[o]]
      BY <1>5 DEF DeletePromotion
    <2>4. TypeOK'
      BY AdminTypes DEF AccountingInv
    <2>5. \A y \in Promos \ {p} : promos'[y] = promos[y] /\ (Stored(y)' <=> Stored(y))
      BY <2>2 DEF AccountingInv, TypeOK, Stored
    <2>6. ~Stored(p)' /\ \A y \in Promos : UsagesOf(y)' = UsagesOf(y)
      BY <2>2 DEF AccountingInv, TypeOK, Stored, UsagesOf
    <2>7. \A o \in Orders :
            /\ (orders'[o] = NoRow) <=> (orders[o] = NoRow)
            /\ orders[o] # NoRow =>
                 /\ orders'[o].user = orders[o].user
                 /\ orders'[o].discount = orders[o].discount
                 /\ orders'[o].status = orders[o].status
                 /\ orders[o].promo # p => orders'[o] = orders[o]
      <3>1. ASSUME NEW o \in Orders, orders[o] # NoRow, orders[o].promo = p
            PROVE  /\ orders'[o] # NoRow
                   /\ orders'[o].user = orders[o].user
                   /\ orders'[o].discount = orders[o].discount
                   /\ orders'[o].status = orders[o].status
        <4>1. PICK row \in OrderRow : row = orders[o]
          BY <3>1 DEF AccountingInv, TypeOK
        <4> DEFINE new == [row EXCEPT !.promo = NoPromo]
        <4>2. /\ new \in OrderRow /\ new.user = row.user
              /\ new.discount = row.discount /\ new.status = row.status
          BY DEF OrderRow
        <4>3. orders'[o] = new
          BY <2>3, <3>1, <4>1, Zenon
        <4> HIDE DEF new
        <4> QED
          BY <4>1, <4>2, <4>3, SentinelsAssumption
      <3>2. ASSUME NEW o \in Orders, ~(orders[o] # NoRow /\ orders[o].promo = p)
            PROVE  orders'[o] = orders[o]
        BY <2>3, <3>2, Zenon
      <3> QED
        BY <3>1, <3>2
    <2>8. \A x \in usages :
            /\ x.promo \in Promos \ {p} /\ x.order \in Orders /\ Stored(x.promo)
            /\ orders[x.order] # NoRow /\ orders[x.order].promo = x.promo
      BY <2>1 DEF UsagesOf, AccountingInv, TypeOK, Usage, LedgerInv, UsageHasOwner
    <2>9. UsageHasOwner'
      BY <2>2, <2>5, <2>7, <2>8 DEF UsageHasOwner
    <2>10. UsesAreCounted' /\ QuotaKept' /\ BudgetKept'
      BY <2>2, <2>5, <2>6 DEF AccountingInv, LedgerInv, UsesAreCounted, QuotaKept, BudgetKept
    <2>11. DiscountIsAccounted'
      <3>1. ASSUME NEW o \in Orders, orders'[o] # NoRow
            PROVE  UsageOf(o)' =
                     IF orders'[o].discount = 0 \/ orders'[o].status = "cancelled" THEN {}
                     ELSE {[promo |-> orders'[o].promo, order |-> o,
                            user |-> orders'[o].user, amount |-> orders'[o].discount]}
        <4>1. orders[o] # NoRow /\ UsageOf(o)' = UsageOf(o)
          BY <2>2, <2>7, <3>1 DEF UsageOf
        <4>2. UsageOf(o) =
                IF orders[o].discount = 0 \/ orders[o].status = "cancelled" THEN {}
                ELSE {[promo |-> orders[o].promo, order |-> o,
                       user |-> orders[o].user, amount |-> orders[o].discount]}
          BY <4>1 DEF AccountingInv, LedgerInv, DiscountIsAccounted
        <4>3. orders[o].promo = p => UsageOf(o) = {}
          BY <2>8 DEF UsageOf
        <4>4. CASE orders[o].promo = p
          <5>1. orders[o].discount = 0 \/ orders[o].status = "cancelled"
            BY <4>2, <4>3, <4>4
          <5> QED
            BY <2>7, <4>1, <4>3, <4>4, <5>1
        <4>5. CASE orders[o].promo # p
          BY <2>7, <4>1, <4>2, <4>5
        <4> QED
          BY <4>4, <4>5
      <3> QED
        BY <3>1 DEF DiscountIsAccounted
    <2>12. LedgerInv'
      BY <2>9, <2>10, <2>11 DEF LedgerInv
    <2>13. ASSUME NEW t \in Procs, Busy(t), Fits(t, req[t], promoLock)
           PROVE  Fits(t, req[t], promoLock)'
      <3>1. \A y \in Promos : Stored(y) /\ promoLock[y] = t =>
              /\ promoLock'[y] = t /\ Stored(y)' /\ UsagesOf(y)' = UsagesOf(y)
              /\ promos'[y] = promos[y]
        BY <1>1, <2>5, <2>6, SentinelsAssumption
      <3>2. req[t].order \in Orders
        BY <2>13, RequestTypes DEF AccountingInv, Creating, Cancelling
      <3>3. /\ req'[t] = req[t]
            /\ req[t].kind = "create" => orders'[req[t].order] = NoRow
            /\ req[t].kind = "cancel" => orders'[req[t].order] # NoRow
        BY <1>1, <2>7, <2>13, <3>2 DEF Fits
      <3> QED
        BY <2>13, <3>1, <3>3, KeepsFitting
    <2> QED
      BY <1>1, <2>4, <2>12, <2>13, OutsideStep
  <1> QED
    BY <1>4, <1>5

\* The period of validity begins or ends, which no decision taken looks at again.
LEMMA ClockTicksInv ==
    ASSUME AccountingInv, NEW p \in Promos, ClockTicks(p)
    PROVE  AccountingInv'
  <1>1. PICK old \in PromoRow : old = promos[p]
    BY StoredRow DEF ClockTicks
  <1> DEFINE row == [old EXCEPT !.live = ~old.live]
  <1>2. /\ row \in PromoRow /\ row.offer = old.offer
        /\ row.used = old.used /\ row.count = old.count
    BY DEF PromoRow
  <1>3. promos' = [promos EXCEPT ![p] = row]
    <2>1. promos' = [promos EXCEPT ![p] = [promos[p] EXCEPT !.live = ~promos[p].live]]
      BY DEF ClockTicks, AccountingInv, TypeOK
    <2> QED
      BY <1>1, <2>1, Zenon
  <1> HIDE DEF row
  <1>4. Stored(p) /\ UNCHANGED <<usages, orders, promoLock, req>>
    BY DEF ClockTicks
  <1>5. /\ row.count = Cardinality(UsagesOf(p)) /\ row.count <= row.offer.max
        /\ row.used <= row.offer.budget + Rupiah \div 2
    BY <1>1, <1>2, <1>4, StoredRow
  <1> QED
    BY <1>1, <1>2, <1>3, <1>4, <1>5, RowWritten

-----------------------------------------------------------------------------
(* The theorems.                                                           *)

\* Initially there are neither rows nor requests.
LEMMA InitInv == Init => AccountingInv
  <1> SUFFICES ASSUME Init PROVE AccountingInv
    OBVIOUS
  <1>1. TypeOK
    BY DEF Init, TypeOK
  <1>2. ReservationInv
    BY DEF Init, ReservationInv, HoldsItsPromo, RoomIsLeft, NothingWithoutPromo,
       OrdersAreNew, Reserves, Decided, Placing, Creates, Busy
  <1>3. LedgerInv
    BY FS_EmptySet DEF Init, LedgerInv, UsageHasOwner, UsesAreCounted,
       DiscountIsAccounted, QuotaKept, BudgetKept, Stored
  <1> QED
    BY <1>1, <1>2, <1>3 DEF AccountingInv

\* Every statement and every transaction preserves the invariant.
LEMMA NextInv == AccountingInv /\ [Next]_vars => AccountingInv'
  <1> SUFFICES ASSUME AccountingInv, [Next]_vars PROVE AccountingInv'
    OBVIOUS
  <1>1. ASSUME NEW p \in Promos, NEW x \in Offers, NEW live \in BOOLEAN,
               CreatePromotion(p, x, live)
        PROVE  AccountingInv'
    BY <1>1, CreatePromotionInv
  <1>2. ASSUME NEW p \in Promos, NEW x \in Offers, NEW active \in BOOLEAN,
               NEW live \in BOOLEAN, UpdatePromotion(p, x, active, live)
        PROVE  AccountingInv'
    BY <1>2, UpdatePromotionInv
  <1>3. ASSUME NEW p \in Promos, DeletePromotion(p) \/ ClockTicks(p)
        PROVE  AccountingInv'
    BY <1>3, DeletePromotionInv, ClockTicksInv
  <1>4. ASSUME NEW q \in Procs, NEW o \in Orders, NEW u \in Users, NEW m \in Merchants,
               NEW payment \in Payments, NEW b \in Baskets,
               NEW code \in Promos \cup {NoCode},
               CreateOrder(q, o, u, m, payment, b, code)
        PROVE  AccountingInv'
    BY <1>4, CreateOrderInv
  <1>5. ASSUME NEW q \in Procs, NEW o \in Orders, CancelOrder(q, o)
        PROVE  AccountingInv'
    BY <1>5, CancelOrderInv
  <1>6. ASSUME NEW q \in Procs, Continue(q) \/ AbortDeadlock(q) \/ Fail(q)
        PROVE  AccountingInv'
    BY <1>6, PickPromoInv, NoPromotionFoundInv, ValidateAndReserveInv, CheckBalanceInv,
       CommitOrderInv, CancelStepsInv, CommitCancelInv, RollbackStep
    DEF Continue, AbortDeadlock, Fail
  <1>7. ASSUME NEW o \in Orders, CompleteOrder(o) \/ ExpireOrder(o)
        PROVE  AccountingInv'
    BY <1>7, CloseOrderInv DEF CompleteOrder, ExpireOrder
  <1>8. CASE UNCHANGED vars
    <2>1. /\ UNCHANGED <<promoLock, req>> /\ TypeOK' /\ LedgerInv'
      BY <1>8, QuietLedger DEF vars, AccountingInv, TypeOK
    <2>2. ASSUME NEW t \in Procs, Busy(t), Fits(t, req[t], promoLock)
          PROVE  Fits(t, req[t], promoLock)'
      BY <1>8, <2>2 DEF vars, Fits, Stored, UsedBy, UsagesOf
    <2> QED
      BY <2>1, <2>2, OutsideStep
  <1> QED
    BY <1>1, <1>2, <1>3, <1>4, <1>5, <1>6, <1>7, <1>8 DEF Next

\* Whatever orders, cancellations, administrators and failures do at the same
\* time, what a request decided under its row lock stays true until it commits,
\* and counters, usages and discounts agree.
THEOREM AccountingInvariance == Spec => []AccountingInv
  BY InitInv, NextInv, PTL DEF Spec

\* A promotion is never used more often than it allows (ValidateAndReserveForOrder,
\* ApplyUsage and UpdatePromotion of promotion/service.go).
THEOREM QuotaIsKept == Spec => []QuotaKept
  <1>1. AccountingInv => QuotaKept
    BY DEF AccountingInv, LedgerInv
  <1> QED
    BY <1>1, AccountingInvariance, PTL

\* Its budget is overspent by half a rupiah at most.
THEOREM BudgetIsKept == Spec => []BudgetKept
  <1>1. AccountingInv => BudgetKept
    BY DEF AccountingInv, LedgerInv
  <1> QED
    BY <1>1, AccountingInvariance, PTL

\* Quota and budget together: what an administrator set as the terms of a promotion holds
\* of what was used of it.
THEOREM TermsAreKept == Spec => []TermsKept
  <1>1. AccountingInv => TermsKept
    BY DEF AccountingInv, LedgerInv, TermsKept
  <1> QED
    BY <1>1, AccountingInvariance, PTL

\* The usage row of a discounted order exists exactly until the order is cancelled,
\* also if administrators try to delete the promotion meanwhile.
THEOREM DiscountsAreAccounted == Spec => []DiscountIsAccounted
  <1>1. AccountingInv => DiscountIsAccounted
    BY DEF AccountingInv, LedgerInv
  <1> QED
    BY <1>1, AccountingInvariance, PTL

\* The tables and the requests hold what the columns and structs allow.
THEOREM TypeCorrect == Spec => []TypeOK
  <1>1. AccountingInv => TypeOK
    BY DEF AccountingInv
  <1> QED
    BY <1>1, AccountingInvariance, PTL

\* Only the commit of an order adds a usage, and that order was found to be within
\* the customer's limit under the lock it still holds.
LEMMA LimitStep ==
    ASSUME AccountingInv, [Next]_vars, "usages" \notin MayFail,
           NEW p \in Promos, NEW u \in Users,
           Cardinality(UsedBy(p, u)') > Cardinality(UsedBy(p, u))
    PROVE  Cardinality(UsedBy(p, u)) < promos[p].offer.perUser
  <1>1. /\ IsFiniteSet(UsedBy(p, u))
        /\ UsedBy(p, u) = {y \in usages : y.promo = p /\ y.user = u}
        /\ UsedBy(p, u)' = {y \in usages' : y.promo = p /\ y.user = u}
    <2>1. UsedBy(p, u) \subseteq usages
      BY DEF UsedBy, UsagesOf
    <2> QED
      BY <2>1, FS_Subset DEF UsedBy, UsagesOf, AccountingInv, LedgerInv, UsesAreCounted
  <1>2. ~(usages' \subseteq usages)
    <2>1. SUFFICES ASSUME usages' \subseteq usages PROVE FALSE
      OBVIOUS
    <2>2. UsedBy(p, u)' \subseteq UsedBy(p, u)
      BY <1>1, <2>1
    <2>3. /\ Cardinality(UsedBy(p, u)') <= Cardinality(UsedBy(p, u))
          /\ Cardinality(UsedBy(p, u)') \in Nat /\ Cardinality(UsedBy(p, u)) \in Nat
      BY <1>1, <2>2, FS_Subset, FS_CardinalityType
    <2> QED
      BY <2>3
  <1>3. PICK q \in Procs : CommitOrder(q)
    <2>1. ASSUME NEW o \in Orders, ReleaseUsage(o)
          PROVE  usages' \subseteq usages
      BY <2>1 DEF ReleaseUsage
    <2>2. ASSUME NEW q \in Procs, CommitCancel(q)
          PROVE  usages' \subseteq usages
      <3>1. req[q].order \in Orders
        BY <2>2, RequestTypes DEF CommitCancel, Cancels, AccountingInv, Cancelling
      <3> QED
        BY <2>1, <2>2, <3>1 DEF CommitCancel
    <2>3. ASSUME NEW q \in Procs, Continue(q), ~CommitOrder(q)
          PROVE  usages' \subseteq usages
      BY <2>2, <2>3 DEF Continue, PickPromo, NoPromotionFound, ValidateAndReserve,
         CheckBalance, LockOrder, RefundEscrow, Rollback
    <2>4. ASSUME NEW y \in Promos, DeletePromotion(y)
          PROVE  usages' \subseteq usages
      BY <2>4 DEF DeletePromotion
    <2>5. ASSUME NEW q \in Procs, AbortDeadlock(q) \/ Fail(q)
          PROVE  usages' \subseteq usages
      BY <2>5 DEF AbortDeadlock, Fail, Rollback
    <2>6. ASSUME NEW o \in Orders, CompleteOrder(o) \/ ExpireOrder(o)
          PROVE  usages' \subseteq usages
      BY <2>6 DEF CompleteOrder, ExpireOrder, CloseOrder
    <2>7. ASSUME NEW y \in Promos, NEW x \in Offers, NEW active \in BOOLEAN,
                 NEW live \in BOOLEAN,
                 CreatePromotion(y, x, live) \/ UpdatePromotion(y, x, active, live)
          PROVE  usages' \subseteq usages
      BY <2>7 DEF CreatePromotion, UpdatePromotion
    <2>8. ASSUME NEW y \in Promos, ClockTicks(y)
          PROVE  usages' \subseteq usages
      BY <2>8 DEF ClockTicks
    <2>9. ASSUME NEW q \in Procs, NEW o \in Orders, CancelOrder(q, o)
          PROVE  usages' \subseteq usages
      BY <2>9 DEF CancelOrder
    <2>10. ASSUME NEW q \in Procs, NEW o \in Orders, NEW v \in Users,
                  NEW m \in Merchants, NEW payment \in Payments, NEW b \in Baskets,
                  NEW code \in Promos \cup {NoCode},
                  CreateOrder(q, o, v, m, payment, b, code)
           PROVE  usages' \subseteq usages
      BY <2>10 DEF CreateOrder
    <2>11. ~UNCHANGED vars
      BY <1>2 DEF vars
    <2> QED
      BY <1>2, <2>3, <2>4, <2>5, <2>6, <2>7, <2>8, <2>9, <2>10, <2>11 DEF Next
  <1>4. Busy(q) /\ req[q] \in Creating /\ req[q].step \in {"pay", "hold"}
    BY <1>3, RequestTypes DEF AccountingInv, CommitOrder, Creates
  <1>5. Fits(q, req[q], promoLock) /\ req[q].kind = "create"
    BY <1>4, RequestsFitIsInv DEF AccountingInv, RequestsFit, Creating
  <1>6. PICK r \in Creating : r = req[q]
    BY <1>4
  <1> DEFINE x == [promo |-> r.promo, order |-> r.order, user |-> r.user,
                   amount |-> r.amount]
  <1>7. Discounted(r) /\ usages' = usages \cup {x}
    BY <1>2, <1>3, <1>6 DEF CommitOrder
  <1>8. Cardinality(UsedBy(r.promo, r.user)) < promos[r.promo].offer.perUser
    BY <1>4, <1>5, <1>6, <1>7 DEF Fits, Discounted
  <1>9. CASE r.promo = p /\ r.user = u
    BY <1>8, <1>9
  <1>10. CASE ~(r.promo = p /\ r.user = u)
    <2>1. UsedBy(p, u)' = UsedBy(p, u)
      BY <1>1, <1>7, <1>10
    <2>2. Cardinality(UsedBy(p, u)) \in Nat
      BY <1>1, FS_CardinalityType
    <2>3. Cardinality(UsedBy(p, u)') = Cardinality(UsedBy(p, u))
      BY <2>1
    <2> QED
      BY <2>2, <2>3
  <1> QED
    BY <1>9, <1>10

\* No order gives a customer more uses of a promotion than its limit, also when
\* the customer places several orders at once (CountUserUsage of
\* promotion/repository.go is read under the promotion's row lock), unless that
\* count fails, which the code ignores.
THEOREM UserLimitIsKept ==
    ASSUME "usages" \notin MayFail
    PROVE  Spec => UserLimitKept
  <1>1. AccountingInv /\ [Next]_vars =>
          [\A p \in Promos, u \in Users :
             Cardinality(UsedBy(p, u)') > Cardinality(UsedBy(p, u))
               => Cardinality(UsedBy(p, u)) < promos[p].offer.perUser]_vars
    BY LimitStep
  <1> QED
    BY <1>1, AccountingInvariance, PTL DEF Spec, UserLimitKept

-----------------------------------------------------------------------------
(* The sums.  They are not needed for what a request decides, so that they *)
(* are an invariant on top of AccountingInv.                               *)

\* The usages of a promotion, as the argument of a sum.
Amounts(p) == [x \in UsagesOf(p) |-> x.amount]

\* They are finitely many naturals.
LEMMA AmountsTypes ==
    ASSUME TypeOK, UsesAreCounted, NEW p \in Promos
    PROVE  /\ IsFiniteSet(UsagesOf(p)) /\ Amounts(p) \in [UsagesOf(p) -> Nat]
           /\ Given(p) = SumFunction(Amounts(p)) /\ Given(p) \in Nat
  <1>1. IsFiniteSet(UsagesOf(p))
    BY FS_Subset DEF UsesAreCounted, UsagesOf
  <1>2. Amounts(p) \in [UsagesOf(p) -> Nat]
    BY DEF Amounts, UsagesOf, TypeOK, Usage
  <1>3. Given(p) = SumFunction(Amounts(p))
    BY DEF Given, Amounts
  <1> QED
    BY <1>1, <1>2, <1>3, SumType

\* Of the rows before and after a step alike.
AmountsAreTyped ==
    \A p \in Promos :
        /\ IsFiniteSet(UsagesOf(p)) /\ Amounts(p) \in [UsagesOf(p) -> Nat]
        /\ Given(p) = SumFunction(Amounts(p)) /\ Given(p) \in Nat
LEMMA AmountsTyped == AccountingInv => AmountsAreTyped
  BY AmountsTypes DEF AmountsAreTyped, AccountingInv, LedgerInv

\* One usage more or less is its amount more or less, for its promotion only.
LEMMA SumUsages ==
    ASSUME AmountsAreTyped, AmountsAreTyped', NEW x, NEW p \in Promos
    PROVE  /\ usages' = usages \cup {x} /\ x \notin usages
                => Given(p)' = Given(p) + (IF x.promo = p THEN x.amount ELSE 0)
           /\ usages' = usages \ {x} /\ x \in usages
                => Given(p) = Given(p)' + (IF x.promo = p THEN x.amount ELSE 0)
  <1>1. /\ IsFiniteSet(UsagesOf(p)) /\ Amounts(p) \in [UsagesOf(p) -> Nat]
        /\ Given(p) = SumFunction(Amounts(p)) /\ Given(p) \in Nat
        /\ IsFiniteSet(UsagesOf(p)') /\ Amounts(p)' \in [UsagesOf(p)' -> Nat]
        /\ Given(p)' = SumFunction(Amounts(p)') /\ Given(p)' \in Nat
    BY DEF AmountsAreTyped
  <1>2. /\ \A y \in UsagesOf(p) : Amounts(p)[y] = y.amount
        /\ \A y \in UsagesOf(p)' : Amounts(p)'[y] = y.amount
    BY DEF Amounts
  <1>3. CASE UsagesOf(p)' = UsagesOf(p)
    <2>1. Given(p)' = Given(p)
      BY <1>3 DEF Given
    <2>2. x.promo = p => ~(x \in usages <=> x \notin usages')
      BY <1>3 DEF UsagesOf
    <2> QED
      BY <1>1, <2>1, <2>2
  <1>4. CASE UsagesOf(p)' = UsagesOf(p) \cup {x} /\ x \notin UsagesOf(p)
    <2>1. SumFunction(Amounts(p)') = SumFunction(Amounts(p)) + x.amount
      <3>1. PICK f \in [UsagesOf(p) -> Nat] : f = Amounts(p)
        BY <1>1
      <3>2. PICK g \in [UsagesOf(p) \cup {x} -> Nat] : g = Amounts(p)'
        BY <1>1, <1>4
      <3>3. /\ f \in [UsagesOf(p) -> Int] /\ g \in [UsagesOf(p) \cup {x} -> Int]
            /\ g[x] = x.amount /\ \A y \in UsagesOf(p) : g[y] = f[y]
        BY <1>2, <1>4, <3>1, <3>2
      <3>4. SumFunction(g) = SumFunction(f) + g[x]
        BY <1>1, <1>4, <3>3, SumExtended
      <3> QED
        BY <3>1, <3>2, <3>3, <3>4
    <2>2. x.promo = p
      BY <1>4 DEF UsagesOf
    <2>3. ~(usages' = usages \ {x})
      BY <1>4 DEF UsagesOf
    <2> QED
      BY <1>1, <2>1, <2>2, <2>3
  <1>5. CASE UsagesOf(p) = UsagesOf(p)' \cup {x} /\ x \notin UsagesOf(p)'
    <2>1. SumFunction(Amounts(p)) = SumFunction(Amounts(p)') + x.amount
      <3>0. PICK T : T = UsagesOf(p)'
        OBVIOUS
      <3>1. PICK f \in [T -> Nat] : f = Amounts(p)'
        BY <1>1, <3>0
      <3>2. PICK g \in [T \cup {x} -> Nat] : g = Amounts(p)
        BY <1>1, <1>5, <3>0
      <3>3. /\ f \in [T -> Int] /\ g \in [T \cup {x} -> Int]
            /\ g[x] = x.amount /\ \A y \in T : g[y] = f[y]
            /\ IsFiniteSet(T) /\ x \notin T
        BY <1>1, <1>2, <1>5, <3>0, <3>1, <3>2
      <3>4. SumFunction(g) = SumFunction(f) + g[x]
        BY <3>3, SumExtended
      <3>5. SumFunction(g) = SumFunction(f) + x.amount
        BY <3>3, <3>4
      <3> QED
        BY <3>1, <3>2, <3>5, Zenon
    <2>2. x.promo = p
      BY <1>5 DEF UsagesOf
    <2>3. ~(usages' = usages \cup {x})
      BY <1>5 DEF UsagesOf
    <2> QED
      BY <1>1, <2>1, <2>2, <2>3
  <1>6. /\ usages' = usages \cup {x} /\ x \notin usages =>
             IF x.promo = p THEN UsagesOf(p)' = UsagesOf(p) \cup {x} /\ x \notin UsagesOf(p)
             ELSE UsagesOf(p)' = UsagesOf(p)
        /\ usages' = usages \ {x} /\ x \in usages =>
             IF x.promo = p THEN UsagesOf(p) = UsagesOf(p)' \cup {x} /\ x \notin UsagesOf(p)'
             ELSE UsagesOf(p)' = UsagesOf(p)
    BY DEF UsagesOf
  <1> QED
    BY <1>3, <1>4, <1>5, <1>6

\* Where no usage comes or goes and no budget is charged, the sums stay right.
LEMMA SumsUntouched ==
    ASSUME UsesAreSummed, UNCHANGED usages,
           \A p \in Promos : Stored(p)' => Stored(p) /\ promos'[p].used = promos[p].used
    PROVE  UsesAreSummed'
  BY DEF UsesAreSummed, Given, UsagesOf

\* The budget is charged what the new usage says.
LEMMA CommitOrderSums ==
    ASSUME AccountingInv, AccountingInv', UsesAreSummed, NEW q \in Procs, CommitOrder(q)
    PROVE  UsesAreSummed'
  <1>1. AmountsAreTyped /\ AmountsAreTyped'
    BY AmountsTyped, PTL
  <1>2. PICK r \in Creating : r = req[q]
    BY RequestTypes DEF AccountingInv, CommitOrder, Creates
  <1>3. CASE ~Discounted(r)
    <2>1. UNCHANGED <<promos, usages>>
      BY <1>2, <1>3 DEF CommitOrder
    <2> QED
      BY <2>1, SumsUntouched DEF Stored
  <1>4. CASE Discounted(r)
    <2> DEFINE x == [promo |-> r.promo, order |-> r.order, user |-> r.user,
                     amount |-> r.amount]
    <2>1. /\ usages' = usages \cup {x}
          /\ promos' = [promos EXCEPT ![r.promo].used = @ + r.amount,
                                      ![r.promo].count = @ + 1]
          /\ orders[r.order] = NoRow /\ r.promo \in Promos /\ Stored(r.promo)
      <3>1. Fits(q, r, promoLock) /\ r.kind = "create" /\ r.step # "check"
        BY <1>2, RequestTypes, RequestsFitIsInv
        DEF AccountingInv, RequestsFit, CommitOrder, Creates
      <3>2. Reserves(q) /\ orders[r.order] = NoRow
        BY <1>2, <1>4, <3>1
        DEF CommitOrder, Creates, Reserves, Placing, Discounted, Fits
      <3> QED
        BY <1>2, <1>4, <3>1, <3>2
        DEF CommitOrder, ApplyUsage, Discounted, Creating, AccountingInv, ReservationInv,
            HoldsItsPromo
    <2>2. x \notin usages /\ x.promo = r.promo /\ x.amount = r.amount /\ r.amount \in Nat
      BY <2>1 DEF AccountingInv, LedgerInv, UsageHasOwner, Creating
    <2> HIDE DEF x
    <2>3. ASSUME NEW p \in Promos, Stored(p)'
          PROVE  promos'[p].used = Given(p)'
      <3>1. Given(p)' = Given(p) + (IF x.promo = p THEN x.amount ELSE 0)
        BY <1>1, <2>1, <2>2, SumUsages
      <3>2. CASE p = r.promo
        <4>1. promos[p] \in PromoRow
          BY <2>1, <3>2, StoredRow
        <4>2. promos'[p].used = promos[p].used + r.amount
          BY <2>1, <3>2, <4>1 DEF AccountingInv, TypeOK, PromoRow
        <4> QED
          BY <2>1, <2>2, <3>1, <3>2, <4>2 DEF UsesAreSummed
      <3>3. CASE p # r.promo
        <4>1. promos'[p] = promos[p] /\ Stored(p)
          BY <2>1, <2>3, <3>3 DEF AccountingInv, TypeOK, Stored
        <4>2. Given(p) \in Nat
          BY <1>1 DEF AmountsAreTyped
        <4> QED
          BY <2>2, <3>1, <3>3, <4>1, <4>2 DEF UsesAreSummed
      <3> QED
        BY <3>2, <3>3
    <2> QED
      BY <2>3 DEF UsesAreSummed
  <1> QED
    BY <1>3, <1>4

\* The budget gets back what the usage said.
LEMMA CommitCancelSums ==
    ASSUME AccountingInv, AccountingInv', UsesAreSummed, NEW q \in Procs, CommitCancel(q)
    PROVE  UsesAreSummed'
  <1>1. AmountsAreTyped /\ AmountsAreTyped'
    BY AmountsTyped, PTL
  <1>2. CASE UNCHANGED <<promos, usages>>
    BY <1>2, SumsUntouched DEF Stored
  <1>3. CASE ~UNCHANGED <<promos, usages>>
    <2>1. PICK x \in usages :
            /\ usages' = usages \ {x}
            /\ promos' = [promos EXCEPT
                 ![x.promo].used = IF @ > x.amount THEN @ - x.amount ELSE 0,
                 ![x.promo].count = IF @ > 0 THEN @ - 1 ELSE 0]
      BY <1>3 DEF CommitCancel, ReleaseUsage, UsageOf
    <2>2. x.promo \in Promos /\ x.amount \in Nat /\ Stored(x.promo)
      BY DEF AccountingInv, TypeOK, Usage, LedgerInv, UsageHasOwner
    <2>3. ASSUME NEW p \in Promos, Stored(p)'
          PROVE  promos'[p].used = Given(p)'
      <3>1. Given(p) = Given(p)' + (IF x.promo = p THEN x.amount ELSE 0)
        BY <1>1, <2>1, SumUsages
      <3>2. Given(p) \in Nat /\ Given(p)' \in Nat
        BY <1>1 DEF AmountsAreTyped
      <3>3. CASE p = x.promo
        <4>1. promos[p] \in PromoRow /\ promos[p].used = Given(p)
          BY <2>2, <3>3, StoredRow DEF UsesAreSummed
        <4>2. promos'[p].used
                = IF promos[p].used > x.amount THEN promos[p].used - x.amount ELSE 0
          BY <2>1, <3>3, <4>1 DEF AccountingInv, TypeOK, PromoRow
        <4> QED
          BY <2>2, <3>1, <3>2, <3>3, <4>1, <4>2
      <3>4. CASE p # x.promo
        <4>1. promos'[p] = promos[p] /\ Stored(p)
          BY <2>1, <2>2, <2>3, <3>4 DEF AccountingInv, TypeOK, Stored
        <4> QED
          BY <3>1, <3>2, <3>4, <4>1 DEF UsesAreSummed
      <3> QED
        BY <3>3, <3>4
    <2> QED
      BY <2>3 DEF UsesAreSummed
  <1> QED
    BY <1>2, <1>3

\* A promotion without a row has no usages, and a row starts with nothing used.
LEMMA CreatePromotionSums ==
    ASSUME AccountingInv, UsesAreSummed, NEW p \in Promos, NEW x \in Offers,
           NEW live \in BOOLEAN, CreatePromotion(p, x, live)
    PROVE  UsesAreSummed'
  <1>1. /\ promos' = [promos EXCEPT ![p] = [offer |-> x, active |-> TRUE, live |-> live,
                                            used |-> 0, count |-> 0]]
        /\ usages' = usages /\ ~Stored(p)
    BY DEF CreatePromotion
  <1>2. UsagesOf(p)' = {}
    BY <1>1 DEF UsagesOf, AccountingInv, LedgerInv, UsageHasOwner
  <1>3. Given(p)' = 0
    <2>1. Given(p)' = SumFunction([y \in {} |-> y.amount])
      BY <1>2 DEF Given
    <2>2. DOMAIN [y \in {} |-> y.amount] = {}
      OBVIOUS
    <2> QED
      BY <2>1, <2>2, SumEmpty DEF SumFunction
  <1>4. ASSUME NEW t \in Promos, Stored(t)'
        PROVE  promos'[t].used = Given(t)'
    <2>1. CASE t = p
      BY <1>1, <1>3, <2>1 DEF AccountingInv, TypeOK
    <2>2. CASE t # p
      <3>1. promos'[t] = promos[t] /\ Stored(t)
        BY <1>1, <1>4, <2>2 DEF AccountingInv, TypeOK, Stored
      <3>2. Given(t)' = Given(t)
        BY <1>1 DEF Given, UsagesOf
      <3> QED
        BY <3>1, <3>2 DEF UsesAreSummed
    <2> QED
      BY <2>1, <2>2
  <1> QED
    BY <1>4 DEF UsesAreSummed

\* A row rewritten with what was used leaves the sums right.
LEMMA RowRewrittenSums ==
    ASSUME AccountingInv, UsesAreSummed, NEW p \in Promos, Stored(p), NEW row,
           row.used = promos[p].used, promos' = [promos EXCEPT ![p] = row],
           UNCHANGED usages
    PROVE  UsesAreSummed'
  <1>1. ASSUME NEW t \in Promos, Stored(t)'
        PROVE  Stored(t) /\ promos'[t].used = promos[t].used
    BY <1>1 DEF Stored, AccountingInv, TypeOK
  <1> QED
    BY <1>1, SumsUntouched

\* An administrator changes terms and switches only.
LEMMA UpdatePromotionSums ==
    ASSUME AccountingInv, UsesAreSummed, NEW p \in Promos, NEW x \in Offers,
           NEW active \in BOOLEAN, NEW live \in BOOLEAN,
           UpdatePromotion(p, x, active, live)
    PROVE  UsesAreSummed'
  <1>1. PICK old \in PromoRow : old = promos[p]
    BY StoredRow DEF UpdatePromotion
  <1> DEFINE row == [old EXCEPT !.offer = x, !.active = active, !.live = live]
  <1>2. row.used = old.used
    BY DEF PromoRow
  <1>3. promos' = [promos EXCEPT ![p] = row]
    BY <1>1 DEF UpdatePromotion, AccountingInv, TypeOK
  <1> HIDE DEF row
  <1>4. Stored(p) /\ UNCHANGED usages
    BY DEF UpdatePromotion
  <1> QED
    BY <1>1, <1>2, <1>3, <1>4, RowRewrittenSums

\* Time changes whether the promotion is live only.
LEMMA ClockTicksSums ==
    ASSUME AccountingInv, UsesAreSummed, NEW p \in Promos, ClockTicks(p)
    PROVE  UsesAreSummed'
  <1>1. PICK old \in PromoRow : old = promos[p]
    BY StoredRow DEF ClockTicks
  <1> DEFINE row == [old EXCEPT !.live = ~old.live]
  <1>2. row.used = old.used
    BY DEF PromoRow
  <1>3. promos' = [promos EXCEPT ![p] = row]
    BY <1>1 DEF ClockTicks, AccountingInv, TypeOK
  <1> HIDE DEF row
  <1>4. Stored(p) /\ UNCHANGED usages
    BY DEF ClockTicks
  <1> QED
    BY <1>1, <1>2, <1>3, <1>4, RowRewrittenSums

\* A promotion that is used is only switched off, and one that is deleted takes
\* nobody else's usages along.
LEMMA DeletePromotionSums ==
    ASSUME AccountingInv, UsesAreSummed, NEW p \in Promos, DeletePromotion(p)
    PROVE  UsesAreSummed'
  <1>1. CASE KeptIfUsed(promos[p])
    <2>1. PICK old \in PromoRow : old = promos[p]
      BY StoredRow DEF DeletePromotion
    <2> DEFINE row == [old EXCEPT !.active = FALSE]
    <2>2. row.used = old.used
      BY DEF PromoRow
    <2>3. promos' = [promos EXCEPT ![p] = row] /\ usages' = usages
      BY <1>1, <2>1 DEF DeletePromotion, AccountingInv, TypeOK
    <2> QED
      BY <2>1, <2>2, <2>3, RowRewrittenSums DEF DeletePromotion
  <1>2. CASE ~KeptIfUsed(promos[p])
    <2>1. promos' = [promos EXCEPT ![p] = NoRow] /\ usages' = usages \ UsagesOf(p)
      BY <1>2 DEF DeletePromotion
    <2>2. ASSUME NEW t \in Promos, Stored(t)'
          PROVE  promos'[t].used = Given(t)'
      <3>1. t # p /\ promos'[t] = promos[t] /\ Stored(t)
        BY <2>1, <2>2 DEF AccountingInv, TypeOK, Stored
      <3>2. UsagesOf(t)' = UsagesOf(t)
        BY <2>1, <3>1 DEF UsagesOf
      <3>3. Given(t)' = Given(t)
        BY <3>2 DEF Given
      <3> QED
        BY <3>1, <3>3 DEF UsesAreSummed
    <2> QED
      BY <2>2 DEF UsesAreSummed
  <1> QED
    BY <1>1, <1>2

\* No step leaves a budget and its usages apart.
LEMMA SumsNext ==
    ASSUME AccountingInv, AccountingInv', UsesAreSummed, [Next]_vars
    PROVE  UsesAreSummed'
  <1>1. ASSUME NEW p \in Promos, NEW x \in Offers, NEW live \in BOOLEAN,
               CreatePromotion(p, x, live)
        PROVE  UsesAreSummed'
    BY <1>1, CreatePromotionSums
  <1>2. ASSUME NEW p \in Promos, NEW x \in Offers, NEW active \in BOOLEAN,
               NEW live \in BOOLEAN, UpdatePromotion(p, x, active, live)
        PROVE  UsesAreSummed'
    BY <1>2, UpdatePromotionSums
  <1>3. ASSUME NEW p \in Promos, DeletePromotion(p) \/ ClockTicks(p)
        PROVE  UsesAreSummed'
    BY <1>3, DeletePromotionSums, ClockTicksSums
  <1>4. ASSUME NEW q \in Procs, CommitOrder(q) \/ CommitCancel(q)
        PROVE  UsesAreSummed'
    BY <1>4, CommitOrderSums, CommitCancelSums
  <1>5. ASSUME NEW q \in Procs, Continue(q) \/ AbortDeadlock(q) \/ Fail(q),
               ~CommitOrder(q), ~CommitCancel(q)
        PROVE  UsesAreSummed'
    <2>1. UNCHANGED <<promos, usages>>
      BY <1>5 DEF Continue, PickPromo, NoPromotionFound, ValidateAndReserve, CheckBalance,
         LockOrder, RefundEscrow, AbortDeadlock, Fail, Rollback
    <2> QED
      BY <2>1, SumsUntouched DEF Stored
  <1>6. ASSUME NEW q \in Procs, NEW o \in Orders, CancelOrder(q, o)
        PROVE  UsesAreSummed'
    BY <1>6, SumsUntouched DEF CancelOrder, Stored
  <1>7. ASSUME NEW q \in Procs, NEW o \in Orders, NEW u \in Users, NEW m \in Merchants,
               NEW payment \in Payments, NEW b \in Baskets,
               NEW code \in Promos \cup {NoCode},
               CreateOrder(q, o, u, m, payment, b, code)
        PROVE  UsesAreSummed'
    BY <1>7, SumsUntouched DEF CreateOrder, Stored
  <1>8. ASSUME NEW o \in Orders, CompleteOrder(o) \/ ExpireOrder(o)
        PROVE  UsesAreSummed'
    BY <1>8, SumsUntouched DEF CompleteOrder, ExpireOrder, CloseOrder, Stored
  <1>9. CASE UNCHANGED vars
    BY <1>9, SumsUntouched DEF vars, Stored
  <1> QED
    BY <1>1, <1>2, <1>3, <1>4, <1>5, <1>6, <1>7, <1>8, <1>9 DEF Next

\* The counters of a promotion say what its usage rows say, however orders,
\* cancellations, failures and administrators interleave (ApplyUsage,
\* ReleaseUsage of promotion/service.go increment and decrement them in the
\* transaction that writes or deletes the row).
THEOREM CountersAreRight == Spec => []CountersAgree
  <1>1. Init => UsesAreSummed
    BY DEF Init, UsesAreSummed, Stored
  <1>2. AccountingInv /\ AccountingInv' /\ UsesAreSummed /\ [Next]_vars => UsesAreSummed'
    BY SumsNext
  <1>3. AccountingInv /\ UsesAreSummed => CountersAgree
    BY DEF AccountingInv, LedgerInv, UsesAreCounted, UsageHasOwner, UsesAreSummed,
       CountersAgree, UsagesOf
  <1> QED
    BY <1>1, <1>2, <1>3, AccountingInvariance, PTL DEF Spec
=============================================================================
