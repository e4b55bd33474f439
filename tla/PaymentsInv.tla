---------------------------- MODULE PaymentsInv ----------------------------
(***************************************************************************)
(* The inductive invariants of Payments.  Wallets: what is credited agrees *)
(* with the top-up's row, because its reference is known to one request    *)
(* before the row is stored.  Sums: a sum is reserved for the one that     *)
(* waits for it.  Notifications: as long as nothing was interrupted, one   *)
(* request books a notification, and what it counts for is who paid.       *)
(***************************************************************************)
EXTENDS Payments

-----------------------------------------------------------------------------
(* Wallets.                                                                *)

\* What is not stored has not been credited, and rows keep their shape.
Uncredited ==
    /\ tops \in [Tops -> TopRow \cup {NoRow}] /\ bal \in [Tops -> Nat]
    /\ \A t \in Tops : tops[t] = NoRow => bal[t] = 0

\* A top-up is written by the only request that knows its reference; who is about
\* to cancel one found it.
KnowsItsTopUp ==
    /\ req = [q \in Procs |-> req[q]]
    /\ \A q \in Procs :
         /\ Does(q, "topup") =>
              /\ req[q] \in ToppingUp /\ tops[req[q].id] = NoRow
              /\ \A p \in Procs \ {q} : Does(p, "topup") => req[p].id # req[q].id
         /\ Does(q, "cancel") => req[q].id \in Tops /\ tops[req[q].id] # NoRow

\* CreditAgrees with what makes it inductive.
CreditInv == Uncredited /\ KnowsItsTopUp /\ CreditAgrees

-----------------------------------------------------------------------------
(* Sums.                                                                   *)

\* Rows and requests have their shapes, and what a request works on is there.
Typed ==
    /\ orders \in [Orders -> OrderRow \cup {NoRow}]
    /\ tops \in [Tops -> TopRow \cup {NoRow}]
    /\ notes \in [Notes -> Note \cup {NoRow}]
    /\ req \in [Procs -> Requests \cup {Idle}]
    /\ queue \subseteq Job
    /\ reserved \in [Totals -> Payables \cup {Free}]
    /\ strays \subseteq Payables
    /\ \A q \in Procs :
         /\ Does(q, "view") \/ Does(q, "refresh") => orders[req[q].id] # NoRow
         /\ Does(q, "cancel") => tops[req[q].id] # NoRow
         /\ Does(q, "book") => notes[req[q].note] # NoRow
         /\ At(q, "book", "credit") => req[q].id \in Tops
    /\ \A j \in queue : orders[j.order] # NoRow /\ notes[j.note] # NoRow

\* Who waits for a payment holds the reservation of its sum, as long as nothing
\* took it away.
Holds == \A x \in Payables \ strays : Payable(x) => reserved[Total(x)] = x

-----------------------------------------------------------------------------
(* Notifications.                                                          *)

BookTyped ==
    /\ processed \subseteq Notes /\ doubtful \subseteq Notes
    /\ booked \in [Notes -> SUBSET Payables]

Books(q, n) == Does(q, "book") /\ req[q].note = n

\* What has not arrived is not booked.
Arrived == \A n \in Notes : notes[n] = NoRow => booked[n] = {} /\ n \notin processed

\* The one who paid holds the sum until the payment is booked.
PayerHolds ==
    \A n \in Notes \ doubtful :
        notes[n] # NoRow /\ notes[n].payer # Nobody /\ booked[n] = {}
            => reserved[notes[n].total] = notes[n].payer

\* A notification is booked by one request, before its key is written; what that
\* request found is who paid, if that one still waits.
BookedByOne(n) ==
    \A q \in Procs : Books(q, n) =>
        /\ n \notin processed
        /\ \A p \in Procs : Books(p, n) => p = q
        /\ booked[n] = {} <=> req[q].step # "mark"
        /\ req[q].step \in {"wait", "credit"} => notes[n].payer \in {req[q].id, Nobody}

\* What a notification was counted for is one, and the one who paid; the key
\* follows the booking, and the request that writes it is between them.
CountedForOne(n) ==
    /\ n \in processed => booked[n] # {}
    /\ booked[n] # {} =>
         /\ \E x \in Payables : booked[n] = {x} /\ notes[n].payer \in {x, Nobody}
         /\ n \in processed \/ \E q \in Procs : Books(q, n) /\ req[q].step = "mark"

BookedOnce == \A n \in Notes \ doubtful : BookedByOne(n) /\ CountedForOne(n)

\* A job has a request that waits for it, unless that one gave up.
JobsAwaited ==
    \A j \in queue :
        IF j.waiter = Nobody THEN j.note \in doubtful
        ELSE /\ At(j.waiter, "book", "wait")
             /\ req[j.waiter].note = j.note /\ req[j.waiter].id = j.order

NoteInv == BookTyped /\ Arrived /\ PayerHolds /\ BookedOnce /\ JobsAwaited

SumInv == Typed /\ Holds

PaymentInv == CreditInv /\ SumInv /\ NoteInv
=============================================================================
