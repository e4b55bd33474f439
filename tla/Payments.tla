------------------------------ MODULE Payments ------------------------------
(***************************************************************************)
(* Payments by QRIS in nitip-core, for orders and for top-ups of a wallet. *)
(* The bank tells only that some amount arrived, so what is to be paid is  *)
(* made unique: a code between 1 and MaxCode is added to the price, and    *)
(* the sum is reserved in Redis for 15 minutes.  A notification is matched *)
(* with the oldest order that has this sum, then with the oldest top-up.   *)
(*                                                                         *)
(* Trouble says what an instance allows to go wrong:                       *)
(*   "lapse"    a reservation expires before its sum is paid               *)
(*   "views"    two requests at once write the code of one order          *)
(*   "gateway"  no QR code is made for a code that was taken               *)
(*   "crowd"    all codes of a price are taken                             *)
(*   "overlap"  a notification is delivered again before it was answered   *)
(*   "crash"    a request is given up (after five seconds, or by a dying   *)
(*              server) while its payment is being booked                  *)
(*   "commit"   the transaction that credits a top-up fails at its commit  *)
(***************************************************************************)
EXTENDS Integers, Sequences, FiniteSets, SequencesExt

CONSTANTS
    Orders, Tops,   \* orders that are paid by QRIS, and top-ups
    Base,           \* what each costs without its code
    PGFee,          \* qris_pg_fee, the fee of the gateway: 0 unless configured
    MaxCode,        \* 99 in the code
    Notes,          \* notifications of the bank
    Procs,          \* requests in flight
    Trouble,
    NoRow, Idle, Free, Nobody

Payables == Orders \cup Tops
Codes == 1 .. MaxCode

ASSUME PaymentsAssumption ==
    /\ Orders \cap Tops = {}
    /\ Base \in [Payables -> Nat \ {0}]
    /\ PGFee \in Nat /\ MaxCode \in Nat \ {0}
    /\ Trouble \subseteq {"lapse", "views", "gateway", "crowd", "overlap", "crash",
                          "commit"}

\* What is to be paid for x; before it has a code, that is its price.
SumOf(x, c) == Base[x] + (IF c = 0 THEN 0 ELSE PGFee + c)
Totals == {SumOf(x, c) : x \in Payables, c \in 0 .. MaxCode}
Shown == {SumOf(x, c) : x \in Payables, c \in Codes}

VARIABLES
    orders,    \* QRIS orders
    tops,      \* TOP_UP rows of wallet_transactions
    made,      \* both in the order of created_at
    reserved,  \* active_total_payment:<total>
    notes,     \* sums that arrived, with the payer who waits for it (ghost)
    processed, \* payment_listener:processed:<notification>
    amtLock,   \* lock:payment_listener:amount:<total>
    queue,     \* jobs of the payment workers
    req,       \* what each request is doing
    bal,       \* what each top-up added to its wallet
    strays,    \* ghost: what may wait for a sum that is not reserved for it
    booked,    \* ghost: what each notification was counted for
    doubtful   \* ghost: notifications whose booking was interrupted or doubled

vars == <<orders, tops, made, reserved, notes, processed, amtLock, queue, req, bal,
          strays, booked, doubtful>>
rowsOf == <<orders, tops, made, strays>>
sums == <<reserved, notes>>
books == <<processed, amtLock, queue, bal, booked, doubtful>>

OrderRow == [cancelled : BOOLEAN, paid : BOOLEAN, code : 0 .. MaxCode]
TopRow == [status : {"pending", "completed", "failed"}, code : Codes]
Note == [total : Totals, payer : Payables \cup {Nobody}]
Viewing == [kind : {"view"}, step : {"take", "save"}, id : Orders,
            code : 0 .. MaxCode]
Refreshing == [kind : {"refresh"}, id : Orders, code : 0 .. MaxCode]
ToppingUp == [kind : {"topup"}, id : Tops, code : Codes]
Cancelling == [kind : {"cancel"}, id : Tops]
Booking == [kind : {"book"}, step : {"lock", "wait", "credit", "mark"},
            note : Notes, id : Payables \cup {Nobody}]
Job == [order : Orders, note : Notes, waiter : Procs \cup {Nobody}]

Requests == Viewing \cup Refreshing \cup ToppingUp \cup Cancelling \cup Booking

ASSUME SentinelAssumption ==
    /\ NoRow \notin OrderRow \cup TopRow \cup Note /\ Idle \notin Requests
    /\ Free \notin Payables \cup Procs
    /\ Nobody \notin Payables \cup Procs \cup Notes

TypeOK ==
    /\ orders \in [Orders -> OrderRow \cup {NoRow}]
    /\ tops \in [Tops -> TopRow \cup {NoRow}]
    /\ made \in Seq(Payables)
    /\ reserved \in [Totals -> Payables \cup {Free}]
    /\ notes \in [Notes -> Note \cup {NoRow}]
    /\ processed \subseteq Notes
    /\ amtLock \in [Totals -> Procs \cup {Free}]
    /\ queue \subseteq Job
    /\ req \in [Procs -> Requests \cup {Idle}]
    /\ bal \in [Tops -> Nat]
    /\ strays \subseteq Payables /\ booked \in [Notes -> SUBSET Payables]
    /\ doubtful \subseteq Notes

Init ==
    /\ orders = [o \in Orders |-> NoRow] /\ tops = [t \in Tops |-> NoRow]
    /\ made = <<>>
    /\ reserved = [s \in Totals |-> Free]
    /\ notes = [n \in Notes |-> NoRow] /\ processed = {}
    /\ amtLock = [s \in Totals |-> Free]
    /\ queue = {} /\ req = [q \in Procs |-> Idle]
    /\ bal = [t \in Tops |-> 0] /\ strays = {}
    /\ booked = [n \in Notes |-> {}] /\ doubtful = {}

-----------------------------------------------------------------------------

Does(q, kind) == req[q] # Idle /\ req[q].kind = kind
At(q, kind, step) == Does(q, kind) /\ req[q].step = step
Begin(q, r) == req[q] = Idle /\ req' = [req EXCEPT ![q] = r]
Done(q) == req' = [req EXCEPT ![q] = Idle]

RowOf(x) == IF x \in Orders THEN orders[x] ELSE tops[x]
Total(x) == SumOf(x, RowOf(x).code)

\* What a notification can still pay.  An order that has expired is among them.
Unpaid(o) == orders[o] # NoRow /\ ~orders[o].paid /\ ~orders[o].cancelled
Waits(t) == tops[t] # NoRow /\ tops[t].status = "pending"
Payable(x) == IF x \in Orders THEN Unpaid(x) ELSE Waits(x)

\* Whoever paid this sum for x before it was given up is not waited for any more
\* (except by the notification that is being booked).
Forgets(x, s, n) ==
    notes' = [m \in Notes |->
        IF notes[m] # NoRow /\ m # n /\ booked[m] = {} /\ notes[m].total = s
           /\ notes[m].payer = x
        THEN [notes[m] EXCEPT !.payer = Nobody] ELSE notes[m]]

\* ReleaseLock deletes the key only if it holds the caller's reference.
\* Mutant: it is deleted whoever holds it.
ReleasedAnyhow(s, x) == [reserved EXCEPT ![s] = Free]
Released(s, x) == [reserved EXCEPT ![s] = IF @ = x THEN Free ELSE @]
GivesUp(x, s, n) == reserved' = Released(s, x) /\ Forgets(x, s, n)
GivesUpIfCoded(o, n) ==
    IF orders[o].code > 0 THEN GivesUp(o, Total(o), n) ELSE UNCHANGED sums

\* The first code whose sum is not reserved; when there is none, a random one
\* without a reservation.
FreeCodes(x) == {d \in Codes : reserved[SumOf(x, d)] = Free}
TakesCode(x, c) ==
    IF FreeCodes(x) # {}
    THEN /\ c \in FreeCodes(x) /\ \A d \in FreeCodes(x) : c <= d
         /\ reserved' = [reserved EXCEPT ![SumOf(x, c)] = x]
    ELSE "crowd" \in Trouble /\ c \in Codes /\ UNCHANGED reserved

\* x waits for another sum from now on: a stray unless it is reserved for x.
Astray(x, code) == IF code > 0 /\ reserved[SumOf(x, code)] = x THEN strays \ {x}
                   ELSE strays \cup {x}

-----------------------------------------------------------------------------
(* Top-ups.                                                                *)

InitiateTopUp(q, t) ==
    /\ tops[t] = NoRow /\ \A p \in Procs : Does(p, "topup") => req[p].id # t
    /\ \E c \in 0 .. MaxCode :
         TakesCode(t, c) /\ Begin(q, [kind |-> "topup", id |-> t, code |-> c])
    /\ UNCHANGED <<rowsOf, notes, books>>

\* After the gateway answered, the row is written and the QR code shown.
InsertTopUp(q) ==
    /\ Does(q, "topup")
    /\ LET t == req[q].id IN
       /\ tops' = [tops EXCEPT ![t] = [status |-> "pending", code |-> req[q].code]]
       /\ made' = Append(made, t)
       /\ strays' = Astray(t, req[q].code)
    /\ Done(q)
    /\ UNCHANGED <<orders, sums, books>>

\* An administrator cancels: found pending, then written without looking again.
AdminCancelTopUp(q, t) ==
    /\ Waits(t) /\ Begin(q, [kind |-> "cancel", id |-> t])
    /\ UNCHANGED <<rowsOf, sums, books>>
CommitCancelTopUp(q) ==
    /\ Does(q, "cancel")
    /\ LET t == req[q].id IN
       /\ tops' = [tops EXCEPT ![t].status = "failed"]
       /\ GivesUp(t, Total(t), Nobody)
    /\ Done(q)
    /\ UNCHANGED <<orders, made, strays, books>>

\* What is credited: amount and code.
Credited(t) == Base[t] + tops[t].code

\* FinalizeTopUp writes only if the top-up is pending.
\* Mutant: without the condition on the status.
MayCreditAlways(t) == tops[t] # NoRow
MayCredit(t) == Waits(t)
Credit(t, n) ==
    /\ MayCredit(t)
    /\ tops' = [tops EXCEPT ![t].status = "completed"]
    /\ bal' = [bal EXCEPT ![t] = @ + Credited(t)]
    /\ GivesUp(t, Total(t), n)

\* The gateway's webhook, and an administrator without a notification, name the
\* top-up.
FinalizeTopUp(t) ==
    /\ Credit(t, Nobody)
    /\ UNCHANGED <<orders, made, strays, processed, amtLock, queue, req, booked,
                   doubtful>>

-----------------------------------------------------------------------------
(* Orders and their codes.                                                 *)

View(o) == [kind |-> "view", step |-> "take", id |-> o, code |-> 0]

\* The row is stored without a code; then one is made.
CreateOrder(q, o) ==
    /\ orders[o] = NoRow
    /\ orders' = [orders EXCEPT ![o] = [cancelled |-> FALSE, paid |-> FALSE,
                                        code |-> 0]]
    /\ made' = Append(made, o) /\ strays' = Astray(o, 0)
    /\ Begin(q, View(o))
    /\ UNCHANGED <<tops, sums, books>>

Changing(o) ==
    /\ "views" \notin Trouble
    /\ \E p \in Procs : (Does(p, "view") \/ Does(p, "refresh")) /\ req[p].id = o

\* populatePaymentInfo: looking at an unpaid order that has no code, or is older
\* than 15 minutes, makes a new one, every time.  (An order may be that old at any
\* moment.)  generateOrderQRIS first gives up the old sum.
ViewOrder(q, o) ==
    /\ Unpaid(o) /\ ~Changing(o)
    /\ GivesUpIfCoded(o, Nobody) /\ strays' = strays \cup {o}
    /\ Begin(q, View(o))
    /\ UNCHANGED <<orders, tops, made, books>>

\* The loop over the codes, and what it found.
TakeNewCode(q) ==
    /\ At(q, "view", "take")
    /\ \E c \in 0 .. MaxCode :
         /\ TakesCode(req[q].id, c)
         /\ req' = [req EXCEPT ![q] = [kind |-> "view", step |-> "save",
                                       id |-> req[q].id, code |-> c]]
    /\ UNCHANGED <<rowsOf, notes, books>>

\* Code and sum are written; status and payment are not.
SaveQRIS(q) ==
    /\ At(q, "view", "save")
    /\ orders' = [orders EXCEPT ![req[q].id].code = req[q].code]
    /\ strays' = Astray(req[q].id, req[q].code)
    /\ Done(q)
    /\ UNCHANGED <<tops, made, sums, books>>

\* The gateway makes no QR code: what was taken stays reserved.
NoQRIS(q) ==
    /\ "gateway" \in Trouble
    /\ At(q, "view", "save") \/ Does(q, "topup")
    /\ Done(q)
    /\ UNCHANGED <<rowsOf, sums, books>>

\* RefreshQRIS reads an unpaid order and writes the whole row back with a new
\* created_at: unpaid, and with the code it had.  It makes one if there is none.
RefreshQRIS(q, o) ==
    /\ Unpaid(o) /\ ~Changing(o)
    /\ Begin(q, [kind |-> "refresh", id |-> o, code |-> orders[o].code])
    /\ UNCHANGED <<rowsOf, sums, books>>
WriteRefreshed(q) ==
    /\ Does(q, "refresh")
    /\ LET o == req[q].id
           code == req[q].code IN
       /\ orders' = [orders EXCEPT ![o] = [cancelled |-> FALSE, paid |-> FALSE,
                                           code |-> code]]
       /\ made' = Append(Remove(made, o), o) /\ strays' = Astray(o, code)
       /\ req' = [req EXCEPT ![q] = IF code > 0 THEN Idle ELSE View(o)]
    /\ UNCHANGED <<tops, sums, books>>

CancelOrder(o) ==
    /\ orders[o] # NoRow /\ ~orders[o].cancelled /\ ~Changing(o)
    /\ orders' = [orders EXCEPT ![o].cancelled = TRUE]
    /\ GivesUpIfCoded(o, Nobody)
    /\ UNCHANGED <<tops, made, strays, req, books>>

\* A reservation lives for 15 minutes.
Lapse(s) ==
    /\ "lapse" \in Trouble /\ reserved[s] # Free
    /\ LET x == reserved[s] IN
       GivesUp(x, s, Nobody) /\ strays' = strays \cup {x}
    /\ UNCHANGED <<orders, tops, made, req, books>>

-----------------------------------------------------------------------------
(* Booking a payment.                                                      *)

\* Somebody pays: the sum that is reserved for x, or a sum nobody waits for.
Pay(n, x, s) ==
    /\ notes[n] = NoRow
    /\ IF x = Nobody THEN s \in Shown
       ELSE Payable(x) /\ s = Total(x) /\ reserved[s] = x
    /\ notes' = [notes EXCEPT ![n] = [total |-> s, payer |-> x]]
    /\ UNCHANGED <<rowsOf, reserved, req, books>>

\* The lock on an amount, which belongs to its token, and lives for five seconds.
Unlocked(q) == [s \in Totals |-> IF amtLock[s] = q THEN Free ELSE amtLock[s]]
AmountLockExpires(s) ==
    /\ "lapse" \in Trouble /\ amtLock[s] # Free
    /\ amtLock' = [amtLock EXCEPT ![s] = Free]
    /\ UNCHANGED <<rowsOf, sums, processed, queue, req, bal, booked, doubtful>>

Counts(n, x) == IF n = Nobody THEN booked ELSE [booked EXCEPT ![n] = @ \cup {x}]

\* processPayment looks at the payment status only; a paid order is a success too.
MarkPaid(o, n) ==
    /\ IF orders[o].paid THEN UNCHANGED <<orders, sums>>
       ELSE orders' = [orders EXCEPT ![o].paid = TRUE] /\ GivesUpIfCoded(o, n)
    /\ booked' = Counts(n, o)
ProcessPayment(j) ==
    /\ j \in queue /\ queue' = queue \ {j}
    /\ MarkPaid(j.order, j.note)
    /\ req' = IF j.waiter = Nobody THEN req
              ELSE [req EXCEPT ![j.waiter] = [kind |-> "book", step |-> "mark",
                                              note |-> j.note, id |-> j.order]]
    /\ UNCHANGED <<tops, made, strays, processed, amtLock, bal, doubtful>>

\* The database refuses, or the server dies: nothing is booked.
JobFails(j) ==
    /\ j \in queue /\ queue' = queue \ {j}
    /\ IF j.waiter = Nobody THEN UNCHANGED <<req, amtLock>>
       ELSE Done(j.waiter) /\ amtLock' = Unlocked(j.waiter)
    /\ UNCHANGED <<rowsOf, sums, processed, bal, booked, doubtful>>

\* The gateway's webhook, and an administrator without a notification, name the
\* order; nobody else looks at their job or its answer.
WebhookOrder(o) ==
    /\ orders[o] # NoRow /\ ~orders[o].paid
    /\ MarkPaid(o, Nobody)
    /\ UNCHANGED <<tops, made, strays, processed, amtLock, queue, req, bal, doubtful>>

InFlight(n) == \E p \in Procs : Does(p, "book") /\ req[p].note = n

\* The key of the notification is looked at before the amount is locked.
\* Mutant: it is not looked at.
IsNewAlways(n) == TRUE
IsNew(n) == n \notin processed
Delivered(n) ==
    /\ notes[n] # NoRow /\ IsNew(n)
    /\ IF InFlight(n) THEN "overlap" \in Trouble /\ doubtful' = doubtful \cup {n}
       ELSE UNCHANGED doubtful

PaymentListener(q, n) ==
    /\ Delivered(n)
    /\ Begin(q, [kind |-> "book", step |-> "lock", note |-> n, id |-> Nobody])
    /\ UNCHANGED <<rowsOf, sums, processed, amtLock, queue, bal, booked>>

\* The oldest with this sum, orders before top-ups.
Candidates(s, S) == {x \in S : Payable(x) /\ Total(x) = s}
Older(x, y) == \E i, j \in DOMAIN made : i < j /\ made[i] = x /\ made[j] = y
Oldest(x, S) == x \in S /\ \A y \in S \ {x} : Older(x, y)
Matches(x, s) == IF Candidates(s, Orders) # {} THEN Oldest(x, Candidates(s, Orders))
                 ELSE Oldest(x, Candidates(s, Tops))

Proceed(q, n, x) ==
    LET step == IF x \in Orders THEN "wait" ELSE "credit" IN
    /\ req' = [req EXCEPT ![q] = [kind |-> "book", step |-> step, note |-> n,
                                  id |-> x]]
    /\ queue' = IF x \in Orders
                THEN queue \cup {[order |-> x, note |-> n, waiter |-> q]} ELSE queue

\* The amount is locked for as long as its payment is booked.
LockAndMatch(q) ==
    /\ At(q, "book", "lock")
    /\ LET n == req[q].note
           s == notes[n].total IN
       \E x \in Payables :
         /\ amtLock[s] = Free /\ Matches(x, s)
         /\ amtLock' = [amtLock EXCEPT ![s] = q]
         /\ Proceed(q, n, x)
         /\ notes' = IF x \in strays THEN [notes EXCEPT ![n].payer = Nobody] ELSE notes
    /\ UNCHANGED <<rowsOf, reserved, processed, bal, booked, doubtful>>

\* An administrator names the notification and what it pays, without the lock.
AdminConfirm(q, n) ==
    /\ Delivered(n) /\ req[q] = Idle
    /\ LET x == notes[n].payer IN x # Nobody /\ Payable(x) /\ Proceed(q, n, x)
    /\ UNCHANGED <<rowsOf, sums, processed, amtLock, bal, booked>>

CreditByNote(q) ==
    /\ At(q, "book", "credit")
    /\ LET n == req[q].note
           t == req[q].id IN
       /\ Credit(t, n)
       /\ processed' = processed \cup {n} /\ booked' = Counts(n, t)
    /\ Done(q) /\ amtLock' = Unlocked(q)
    /\ UNCHANGED <<orders, made, strays, queue, doubtful>>

\* Key and reservation are written to Redis inside the transaction.
CreditRollsBack(q) ==
    /\ "commit" \in Trouble /\ At(q, "book", "credit")
    /\ LET n == req[q].note
           t == req[q].id IN
       /\ MayCredit(t)
       /\ processed' = processed \cup {n} /\ GivesUp(t, Total(t), n)
       /\ doubtful' = doubtful \cup {n} /\ strays' = strays \cup {t}
    /\ Done(q) /\ amtLock' = Unlocked(q)
    /\ UNCHANGED <<orders, tops, made, queue, bal, booked>>

Mark(q) ==
    /\ At(q, "book", "mark")
    /\ processed' = processed \cup {req[q].note}
    /\ Done(q) /\ amtLock' = Unlocked(q)
    /\ UNCHANGED <<rowsOf, sums, queue, bal, booked, doubtful>>

\* No match, no lock, or an error before anything is booked.
BookingFails(q) ==
    /\ At(q, "book", "lock") \/ At(q, "book", "credit")
    /\ Done(q) /\ amtLock' = Unlocked(q)
    /\ UNCHANGED <<rowsOf, sums, processed, queue, bal, booked, doubtful>>

\* The notification is answered with an error, or not at all; the job goes on.
BookingAbandoned(q) ==
    /\ "crash" \in Trouble
    /\ At(q, "book", "wait") \/ At(q, "book", "mark")
    /\ Done(q) /\ amtLock' = Unlocked(q)
    /\ queue' = {[j EXCEPT !.waiter = IF @ = q THEN Nobody ELSE @] : j \in queue}
    /\ doubtful' = doubtful \cup {req[q].note}
    /\ UNCHANGED <<rowsOf, sums, processed, bal, booked>>

Next ==
    \/ \E q \in Procs, t \in Tops : InitiateTopUp(q, t) \/ AdminCancelTopUp(q, t)
    \/ \E q \in Procs, o \in Orders :
         CreateOrder(q, o) \/ ViewOrder(q, o) \/ RefreshQRIS(q, o)
    \/ \E q \in Procs, n \in Notes : PaymentListener(q, n) \/ AdminConfirm(q, n)
    \/ \E q \in Procs :
         \/ InsertTopUp(q) \/ CommitCancelTopUp(q)
         \/ TakeNewCode(q) \/ SaveQRIS(q) \/ WriteRefreshed(q) \/ NoQRIS(q)
         \/ LockAndMatch(q) \/ CreditByNote(q) \/ CreditRollsBack(q)
         \/ Mark(q) \/ BookingFails(q) \/ BookingAbandoned(q)
    \/ \E t \in Tops : FinalizeTopUp(t)
    \/ \E o \in Orders :
         CancelOrder(o) \/ WebhookOrder(o)
    \/ \E s \in Totals : Lapse(s) \/ AmountLockExpires(s)
    \/ \E n \in Notes, x \in Payables \cup {Nobody}, s \in Totals : Pay(n, x, s)
    \/ \E j \in queue : ProcessPayment(j) \/ JobFails(j)

Spec == Init /\ [][Next]_vars

-----------------------------------------------------------------------------
(* Properties.                                                             *)

\* What waits for its payment waits for a sum of its own, as long as nothing took
\* its reservation away.
TotalsDiffer ==
    \A x, y \in Payables \ strays :
        x # y /\ Payable(x) /\ Payable(y) => Total(x) # Total(y)

\* A notification is counted once, however often it is delivered, and for the one who paid,
\* as long as that one has not given up the sum, by cancelling, by a new code or by another
\* payment; and the key that silences it is written only when it was counted.
NoteCountsOnce ==
    \A n \in Notes \ doubtful :
        /\ Cardinality(booked[n]) <= 1
        /\ notes[n] # NoRow /\ notes[n].payer # Nobody => booked[n] \subseteq {notes[n].payer}
        /\ n \in processed => booked[n] # {}

\* A wallet is credited once with what was to be paid, less the fee, for the
\* top-ups that are completed; one that has failed may have been cancelled after it was paid.
CreditAgrees ==
    \A t \in Tops :
        /\ bal[t] > 0 => tops[t].status # "pending" /\ bal[t] + PGFee = Total(t)
        /\ tops[t] # NoRow /\ tops[t].status = "completed" => bal[t] > 0

=============================================================================
