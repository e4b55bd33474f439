---------------------------- MODULE Handlers_proofs ----------------------------
(***************************************************************************)
(* The proofs of Support and of Merchants with Reviews: two systems whose  *)
(* handlers read a row, answer something else, and write the row back.     *)
(*                                                                         *)
(* Support.  TicketsInv is invariant: between two writes that put a ticket *)
(* in the queue one agent at most takes it, whatever old rows the handlers *)
(* write back.  With it, a ticket is not opened by accident.  MessagesInv  *)
(* is one too: a side that polls for messages misses none.                 *)
(*                                                                         *)
(* Merchants.  MerchantsInvariant is invariant: every picture belongs to   *)
(* one row at most, in the table, in a form or in the hands of a sweep, so *)
(* a sweep never removes what a live row shows; the owner of a shop has    *)
(* the role; the list of shops nearby is told of every change; and the     *)
(* numbers shown are the averages of the reviews.                          *)
(***************************************************************************)
EXTENDS SupportInv, MerchantsInv, Sums, FiniteSetTheorems, TLAPS

-----------------------------------------------------------------------------
(* Rows.                                                                   *)

\* A row that is not in the queue for the taking is never written as one, but by Released
\* and Queued.
LEMMA RowsWritten ==
    ASSUME NEW r \in Row
    PROVE  /\ Resolved(r) \in Row /\ Closed(r) \in Row /\ Queued(r) \in Row
           /\ r.status \in Open => Released(r) \in Row
           /\ r.status = "resolved" => AutoClosed(r) \in Row
  <1>1. Resolved(r) \in Row
    BY DEF Row, Open, Resolved
  <1>2. Closed(r) \in Row
    BY DEF Row, Open, Closed
  <1>3. Queued(r) \in Row
    BY DEF Row, Open, Queued
  <1>4. r.status \in Open => Released(r) \in Row
    BY DEF Row, Open, Released
  <1>5. r.status = "resolved" => AutoClosed(r) \in Row
    BY DEF Row, Open, AutoClosed
  <1> QED
    BY <1>1, <1>2, <1>3, <1>4, <1>5

\* After a message a row is still one, and closed only if it was.
LEMMA RowAnswered ==
    ASSUME NEW r \in Row, NEW side \in Sides, side = "cs" => r.agent \in Agents
    PROVE  /\ Answered(r, side) \in Row
           /\ r.status # "closed" => Answered(r, side).status # "closed"
  <1>1. r.status = "queued" => side = "user"
    BY SupportAssumption DEF Row, Open, Sides
  <1>2. StatusAfter(r, side) \in IF r.status \in Open THEN Open ELSE {r.status}
    BY <1>1 DEF StatusAfter, Open, Sides
  <1>3. CASE r.status \in Open
    BY <1>2, <1>3 DEF Answered, Row, Open
  <1>4. CASE r.status \notin Open
    BY <1>2, <1>4 DEF Answered, Row, Open
  <1> QED
    BY <1>3, <1>4

-----------------------------------------------------------------------------
(* Writes to the table.                                                    *)

\* A handler that writes back the row it has, or a version of it, keeps the rows in order.
LEMMA Updated ==
    ASSUME TicketsInv, NEW t \in Tickets, ticket[t] # NoRow, NEW r \in Row,
           UpdateTicket(t, r), UNCHANGED clock
    PROVE  /\ RowsOK' /\ Untaken'
           /\ \A u \in Tickets : ticket[u] # NoRow => ticket'[u] # NoRow
  <1> USE DEF TicketsInv
  <1>1. ticket' = [ticket EXCEPT ![t] = r] /\ r # NoRow
    BY RowAssumption DEF UpdateTicket
  <1>2. winners' \in [Tickets -> SUBSET Agents]
    BY DEF UpdateTicket, RowsOK
  <1>3. aged' \subseteq aged
    BY DEF UpdateTicket
  <1>4. \A u \in Tickets : ticket[u] # NoRow => ticket'[u] # NoRow
    BY <1>1 DEF RowsOK
  <1>5. RowsOK'
    BY <1>1, <1>2, <1>3, <1>4 DEF RowsOK
  <1>6. Untaken'
    <2> SUFFICES ASSUME NEW u \in Tickets
                 PROVE  /\ ticket'[u] = NoRow \/ Claimable(ticket'[u]) => winners'[u] = {}
                        /\ winners'[u] = {} \/ \E a \in Agents : winners'[u] = {a}
      BY DEF Untaken
    <2>1. CASE u # t
      <3>1. ticket'[u] = ticket[u] /\ winners'[u] = winners[u]
        BY <1>1, <2>1 DEF RowsOK, UpdateTicket
      <3> QED
        BY <3>1 DEF Untaken
    <2>2. CASE u = t /\ r.status = "queued"
      BY <2>2 DEF RowsOK, UpdateTicket
    <2>3. CASE u = t /\ r.status # "queued"
      <3>1. ticket'[u] = r /\ winners'[u] = winners[u]
        BY <1>1, <2>3 DEF RowsOK, UpdateTicket
      <3> QED
        BY <1>1, <2>3, <3>1 DEF Untaken, Claimable
    <2> QED
      BY <2>1, <2>2, <2>3
  <1> QED
    BY <1>4, <1>5, <1>6

\* Taking a ticket.
LEMMA Claimed ==
    ASSUME TicketsInv, NEW t \in Tickets, ticket[t] # NoRow, NEW a \in Agents,
           ClaimTicketAtomic(t, a), UNCHANGED clock
    PROVE  /\ RowsOK' /\ Untaken'
           /\ \A u \in Tickets : ticket[u] # NoRow => ticket'[u] # NoRow
  <1> USE DEF TicketsInv
  <1>1. CASE ~Claimable(ticket[t])
    BY <1>1 DEF ClaimTicketAtomic, ticketVars, RowsOK, Untaken
  <1>2. CASE Claimable(ticket[t])
    <2> DEFINE row == [ticket[t] EXCEPT !.agent = a, !.status = "in_progress"]
    <2>1. ticket[t] \in Row
      BY DEF RowsOK
    <2>2. row \in Row /\ row # NoRow /\ ~Claimable(row)
      <3>1. row \in Row
        BY <1>2, <2>1 DEF Row, Open, Claimable
      <3>2. row.status = "in_progress"
        BY <2>1 DEF Row, Open
      <3> QED
        BY <3>1, <3>2, RowAssumption DEF Claimable
    <2>3. ticket' = [ticket EXCEPT ![t] = row]
      BY <1>2 DEF ClaimTicketAtomic, RowsOK
    <2>4. winners[t] = {}
      BY <1>2 DEF Untaken
    <2>5. winners' = [winners EXCEPT ![t] = {a}] /\ aged' = aged
      BY <1>2, <2>4 DEF ClaimTicketAtomic, RowsOK
    <2> HIDE DEF row
    <2>6. \A u \in Tickets : ticket[u] # NoRow => ticket'[u] # NoRow
      BY <2>2, <2>3 DEF RowsOK
    <2>7. RowsOK'
      BY <2>2, <2>3, <2>5, <2>6 DEF RowsOK
    <2>8. Untaken'
      BY <2>2, <2>3, <2>5 DEF RowsOK, Untaken
    <2> QED
      BY <2>6, <2>7, <2>8
  <1> QED
    BY <1>1, <1>2

-----------------------------------------------------------------------------
(* Handlers.                                                               *)

\* What handlers carry, when only p's changes.
LEMMA HandlerSteps ==
    ASSUME TicketsInv, NEW p \in Procs, NEW w, handler' = [handler EXCEPT ![p] = w],
           w \in TicketWork \cup FAQWork \cup {Idle},
           w = Idle \/ w.op = "faq" \/ Has(p)',
           \A u \in Tickets : ticket[u] # NoRow => ticket'[u] # NoRow
    PROVE  ProcsOK'
  <1> USE DEF TicketsInv
  <1>1. handler' \in [Procs -> TicketWork \cup FAQWork \cup {Idle}]
    BY DEF ProcsOK
  <1>2. \A q \in Procs \ {p} : handler'[q] = handler[q]
    BY DEF ProcsOK
  <1>3. \A q \in Procs : handler[q] \in FAQWork => handler[q].op = "faq"
    BY DEF FAQWork
  <1>4. ASSUME NEW q \in Procs \ {p}, handler[q] # Idle, handler[q].op # "faq"
        PROVE  Has(q)'
    <2>1. handler[q].ticket \in Tickets /\ Has(q)
      BY <1>3, <1>4 DEF ProcsOK, TicketWork
    <2> QED
      BY <1>2, <2>1 DEF Has
  <1>5. handler'[p] = w
    BY DEF ProcsOK
  <1> QED
    BY <1>1, <1>2, <1>4, <1>5 DEF ProcsOK

\* A handler that has not started yet, or is over.
LEMMA RestApart ==
    ASSUME TicketsInv, NEW p \in Procs, handler' = [handler EXCEPT ![p] = Idle],
           \A u \in Tickets : ticket[u] # NoRow => ticket'[u] # NoRow
    PROVE  ProcsOK'
  BY HandlerSteps

\* Tickets that are left alone.
LEMMA TicketsKept ==
    ASSUME TicketsInv, UNCHANGED ticketVars, clock' \in Nat
    PROVE  RowsOK' /\ Untaken'
  BY DEF TicketsInv, RowsOK, Untaken, ticketVars

\* Reading a ticket, for any of the operations.
LEMMA ReadsOK ==
    ASSUME TicketsInv, NEW p \in Procs, NEW t \in Tickets, NEW by \in Agents \cup {NoAgent},
           NEW class, NEW op \in {"claim", "release", "resolve", "close", "reopen"},
           op = "claim" => by \in Agents, op = "release" => ticket[t].status \in Open,
           Reads(p, class, op, t, by)
    PROVE  TicketsInv'
  <1> DEFINE w == [op |-> op, at |-> "write", ticket |-> t, row |-> ticket[t], by |-> by,
                   message |-> NoMessage]
  <1>1. handler' = [handler EXCEPT ![p] = w] /\ ticket[t] # NoRow /\ UNCHANGED ticketVars
        /\ UNCHANGED clock
    BY DEF Reads
  <1>2. w \in TicketWork
    BY <1>1 DEF TicketsInv, RowsOK, TicketWork
  <1>3. handler'[p] = w
    BY <1>1 DEF TicketsInv, ProcsOK
  <1>4. Has(p)'
    BY <1>1, <1>3 DEF Has, ticketVars
  <1> HIDE DEF w
  <1>5. RowsOK' /\ Untaken'
    BY <1>1, TicketsKept DEF TicketsInv, RowsOK
  <1>6. ProcsOK'
    BY <1>1, <1>2, <1>4, HandlerSteps DEF ticketVars
  <1> QED
    BY <1>5, <1>6 DEF TicketsInv

\* What a handler that is about to write knows.
LEMMA AboutToWrite ==
    ASSUME TicketsInv, NEW p \in Procs, NEW step,
           NEW op \in {"claim", "release", "resolve", "close", "reopen", "message"},
           Stands(p, op, step)
    PROVE  /\ handler[p] \in TicketWork /\ handler[p].ticket \in Tickets /\ handler[p].row \in Row
           /\ Has(p) /\ ticket[handler[p].ticket] # NoRow
  <1>1. handler[p] \in TicketWork
    BY DEF TicketsInv, ProcsOK, Stands, FAQWork
  <1> QED
    BY <1>1 DEF TicketsInv, ProcsOK, Stands, TicketWork, Has

\* The row each of the handlers writes.
LEMMA WritesRow ==
    ASSUME TicketsInv, NEW p \in Procs
    PROVE  /\ Stands(p, "release", "write") => Released(handler[p].row) \in Row
           /\ Stands(p, "resolve", "write") => Resolved(handler[p].row) \in Row
           /\ Stands(p, "close", "write") => Closed(handler[p].row) \in Row
           /\ Stands(p, "reopen", "write") => Queued(handler[p].row) \in Row
           /\ Stands(p, "message", "write") =>
                 Answered(handler[p].row, handler[p].message.by) \in Row
  <1>1. Stands(p, "release", "write") => Released(handler[p].row) \in Row
    BY AboutToWrite, RowsWritten DEF Has, Stands
  <1>2. Stands(p, "resolve", "write") => Resolved(handler[p].row) \in Row
    BY AboutToWrite, RowsWritten
  <1>3. Stands(p, "close", "write") => Closed(handler[p].row) \in Row
    BY AboutToWrite, RowsWritten
  <1>4. Stands(p, "reopen", "write") => Queued(handler[p].row) \in Row
    BY AboutToWrite, RowsWritten
  <1>5. ASSUME Stands(p, "message", "write")
        PROVE  Answered(handler[p].row, handler[p].message.by) \in Row
    <2>1. handler[p].row \in Row /\ Has(p)
      BY <1>5, AboutToWrite
    <2>2. handler[p].message.by \in Sides
          /\ (handler[p].message.by = "cs" => handler[p].row.agent \in Agents)
      BY <1>5, <2>1 DEF Has, Stands, Message
    <2> QED
      BY <2>1, <2>2, RowAnswered
  <1> QED
    BY <1>1, <1>2, <1>3, <1>4, <1>5

\* Writing a row back.
LEMMA WritesOK ==
    ASSUME TicketsInv, NEW p \in Procs, NEW r \in Row,
           NEW op \in {"release", "resolve", "close", "reopen", "message"},
           WritesTicket(p, op, r)
    PROVE  TicketsInv'
  <1>1. Stands(p, op, "write") /\ UpdateTicket(handler[p].ticket, r) /\ UNCHANGED clock
        /\ handler' = [handler EXCEPT ![p] = Idle]
    BY DEF WritesTicket, Done
  <1>2. handler[p].ticket \in Tickets /\ ticket[handler[p].ticket] # NoRow
    BY <1>1, AboutToWrite
  <1>3. /\ RowsOK' /\ Untaken'
        /\ \A u \in Tickets : ticket[u] # NoRow => ticket'[u] # NoRow
    BY <1>1, <1>2, Updated
  <1> QED
    BY <1>1, <1>3, RestApart DEF TicketsInv

-----------------------------------------------------------------------------
(* Operations.                                                             *)

\* A claim, its read and its write.
LEMMA ClaimStep ==
    ASSUME TicketsInv, NEW p \in Procs, ClaimTicket(p)
    PROVE  TicketsInv'
  <1>1. CASE \E t \in Tickets, a \in Agents :
                 CountActiveByCS(a) < MaxConcurrent /\ Reads(p, "claim", "claim", t, a)
    BY <1>1, ReadsOK
  <1>2. CASE /\ Stands(p, "claim", "write") /\ Done(p)
             /\ ClaimTicketAtomic(handler[p].ticket, handler[p].by)
    <2>1. /\ handler[p].ticket \in Tickets /\ handler[p].by \in Agents
          /\ ticket[handler[p].ticket] # NoRow
      BY <1>2, AboutToWrite DEF Has, Stands
    <2>2. UNCHANGED clock /\ handler' = [handler EXCEPT ![p] = Idle]
      BY <1>2 DEF Done
    <2>3. /\ RowsOK' /\ Untaken'
          /\ \A u \in Tickets : ticket[u] # NoRow => ticket'[u] # NoRow
      BY <1>2, <2>1, <2>2, Claimed
    <2> QED
      BY <2>2, <2>3, RestApart DEF TicketsInv
  <1> QED
    BY <1>1, <1>2 DEF ClaimTicket

\* Release, resolve, close and reopen.
LEMMA TicketEditStep ==
    ASSUME TicketsInv, NEW p \in Procs,
           ReleaseTicket(p) \/ ResolveTicket(p) \/ CloseTicket(p) \/ ReopenTicket(p)
    PROVE  TicketsInv'
  <1>1. CASE ReleaseTicket(p)
    <2>1. ASSUME NEW t \in Tickets, NEW a \in Agents, ticket[t] # NoRow,
                 Releasable(ticket[t], a), Reads(p, "edit", "release", t, a)
          PROVE  TicketsInv'
      <3>1. ticket[t] \in Row
        BY <2>1 DEF TicketsInv, RowsOK
      <3>2. ticket[t].status \in Open
        BY <2>1, <3>1, SupportAssumption DEF Row, Open, Releasable
      <3> QED
        BY <2>1, <3>2, ReadsOK
    <2>2. ASSUME WritesTicket(p, "release", Released(handler[p].row))
          PROVE  TicketsInv'
      BY <2>2, WritesRow, WritesOK DEF WritesTicket
    <2> QED
      BY <1>1, <2>1, <2>2 DEF ReleaseTicket
  <1>2. CASE ResolveTicket(p)
    <2>1. ASSUME WritesTicket(p, "resolve", Resolved(handler[p].row))
          PROVE  TicketsInv'
      BY <2>1, WritesRow, WritesOK DEF WritesTicket
    <2> QED
      BY <1>2, <2>1, ReadsOK DEF ResolveTicket
  <1>3. CASE CloseTicket(p)
    <2>1. ASSUME WritesTicket(p, "close", Closed(handler[p].row))
          PROVE  TicketsInv'
      BY <2>1, WritesRow, WritesOK DEF WritesTicket
    <2> QED
      BY <1>3, <2>1, ReadsOK DEF CloseTicket
  <1>4. CASE ReopenTicket(p)
    <2>1. ASSUME WritesTicket(p, "reopen", Queued(handler[p].row))
          PROVE  TicketsInv'
      BY <2>1, WritesRow, WritesOK DEF WritesTicket
    <2> QED
      BY <1>4, <2>1, ReadsOK DEF ReopenTicket
  <1> QED
    BY <1>1, <1>2, <1>3, <1>4

\* Reading the ticket a message is for.
LEMMA MessageRead ==
    ASSUME TicketsInv, NEW p \in Procs, NEW t \in Tickets, NEW side \in Sides,
           NEW a \in Agents \cup {NoAgent}, side = "cs" => a \in Agents,
           SendMessageRead(p, t, side, a)
    PROVE  TicketsInv'
  <1>1. PICK internal \in BOOLEAN, id \in 1 .. MaxMessages :
            handler' = [handler EXCEPT ![p] =
              [op |-> "message", at |-> "insert", ticket |-> t, row |-> ticket[t], by |-> a,
               message |-> [id |-> id, ticket |-> t, by |-> side, internal |-> internal,
                            at |-> clock]]]
    BY DEF SendMessageRead
  <1> DEFINE n == [id |-> id, ticket |-> t, by |-> side, internal |-> internal, at |-> clock]
             w == [op |-> "message", at |-> "insert", ticket |-> t, row |-> ticket[t],
                   by |-> a, message |-> n]
  <1>2. n \in Message /\ n.by = side
    BY DEF TicketsInv, RowsOK, Message
  <1> HIDE DEF n
  <1>3. /\ ticket[t] # NoRow /\ ticket[t].status # "closed"
        /\ side = "cs" => ticket[t].agent = a
        /\ UNCHANGED ticketVars /\ UNCHANGED clock
    BY DEF SendMessageRead
  <1>4. w \in TicketWork
    BY <1>2, <1>3 DEF TicketsInv, RowsOK, TicketWork
  <1>5. handler' = [handler EXCEPT ![p] = w]
    BY <1>1 DEF n
  <1>6. handler'[p] = w
    BY <1>5 DEF TicketsInv, ProcsOK
  <1>7. Has(p)'
    BY <1>2, <1>3, <1>6 DEF Has, ticketVars
  <1> HIDE DEF w
  <1>8. RowsOK' /\ Untaken'
    BY <1>3, TicketsKept DEF TicketsInv, RowsOK
  <1>9. ProcsOK'
    BY <1>3, <1>4, <1>5, <1>7, HandlerSteps DEF ticketVars
  <1> QED
    BY <1>8, <1>9 DEF TicketsInv

\* Inserting a message, and what it does to the ticket.
LEMMA MessageStep ==
    ASSUME TicketsInv, NEW p \in Procs, CreateMessage(p) \/ SendMessage(p)
    PROVE  TicketsInv'
  <1>1. CASE CreateMessage(p)
    <2> DEFINE w == [handler[p] EXCEPT !.at = "write"]
    <2>1. /\ Stands(p, "message", "insert") /\ handler' = [handler EXCEPT ![p] = w]
          /\ UNCHANGED ticketVars /\ UNCHANGED clock
      BY <1>1 DEF CreateMessage
    <2>2. handler[p] \in TicketWork /\ Has(p)
      BY <2>1, AboutToWrite
    <2>3. /\ w \in TicketWork /\ w.op = handler[p].op
          /\ w.row = handler[p].row /\ w.by = handler[p].by
          /\ w.ticket = handler[p].ticket /\ w.message = handler[p].message
      BY <2>2 DEF TicketWork
    <2> HIDE DEF w
    <2>4. handler'[p] = w
      BY <2>1 DEF TicketsInv, ProcsOK
    <2>5. Has(p)'
      BY <2>1, <2>2, <2>3, <2>4 DEF Has, ticketVars
    <2>6. RowsOK' /\ Untaken'
      BY <2>1, TicketsKept DEF TicketsInv, RowsOK
    <2>7. ProcsOK'
      BY <2>1, <2>3, <2>5, HandlerSteps DEF ticketVars
    <2> QED
      BY <2>6, <2>7 DEF TicketsInv
  <1>2. CASE SendMessage(p)
    <2>1. WritesTicket(p, "message", Answered(handler[p].row, handler[p].message.by))
      BY <1>2 DEF SendMessage
    <2> QED
      BY <2>1, WritesRow, WritesOK DEF WritesTicket
  <1> QED
    BY <1>1, <1>2

\* The worker closes resolved tickets.
LEMMA WorkerStep ==
    ASSUME TicketsInv, AutoCloseResolved
    PROVE  TicketsInv'
  <1> DEFINE expired == {t \in aged : ticket[t].status = "resolved" /\ ticket[t].resolved}
  <1>1. /\ ticket' = [t \in Tickets |->
                        IF t \in expired THEN AutoClosed(ticket[t]) ELSE ticket[t]]
        /\ UNCHANGED <<aged, winners, handler, clock>>
    BY DEF AutoCloseResolved
  <1>2. \A t \in Tickets : t \in expired =>
            /\ ticket[t] \in Row /\ ticket[t].status = "resolved" /\ ticket[t] # NoRow
            /\ AutoClosed(ticket[t]) \in Row
    BY RowsWritten DEF TicketsInv, RowsOK
  <1>3. \A t \in Tickets : t \in expired => ~Claimable(AutoClosed(ticket[t]))
    BY <1>2 DEF AutoClosed, Claimable, Row, Open
  <1> HIDE DEF expired
  <1>4. \A t \in Tickets : ticket[t] # NoRow => ticket'[t] # NoRow
    BY <1>1, <1>2, RowAssumption
  <1>5. ticket' \in [Tickets -> Row \cup {NoRow}]
    BY <1>1, <1>2 DEF TicketsInv, RowsOK
  <1>6. RowsOK'
    BY <1>1, <1>4, <1>5 DEF TicketsInv, RowsOK
  <1>7. Untaken'
    <2> SUFFICES ASSUME NEW u \in Tickets
                 PROVE  ticket'[u] = NoRow \/ Claimable(ticket'[u]) => winners[u] = {}
      BY <1>1 DEF TicketsInv, Untaken
    <2>1. CASE u \in expired
      <3>1. ticket'[u] = AutoClosed(ticket[u])
        BY <1>1, <2>1
      <3> QED
        BY <1>2, <1>3, <1>4, <2>1, <3>1
    <2>2. CASE u \notin expired
      BY <1>1, <2>2 DEF TicketsInv, Untaken
    <2> QED
      BY <2>1, <2>2
  <1>8. ProcsOK'
    BY <1>1, <1>4 DEF TicketsInv, ProcsOK, Has, TicketWork, FAQWork
  <1> QED
    BY <1>6, <1>7, <1>8 DEF TicketsInv

\* A new ticket is in the queue.
LEMMA NewTicketStep ==
    ASSUME TicketsInv, CreateTicket
    PROVE  TicketsInv'
  <1>1. PICK n \in Tickets : ticket[n] = NoRow /\ n = NewTicket
    BY DEF CreateTicket, NewTicket
  <1>2. /\ ticket' = [ticket EXCEPT ![n] = NewRow]
        /\ UNCHANGED <<aged, winners, handler, clock>>
    BY <1>1 DEF CreateTicket
  <1>3. NewRow \in Row
    BY DEF NewRow, Row
  <1> HIDE DEF NewRow
  <1>4. \A t \in Tickets : ticket[t] # NoRow => ticket'[t] = ticket[t]
    BY <1>1, <1>2 DEF TicketsInv, RowsOK
  <1>5. RowsOK'
    BY <1>2, <1>3, <1>4 DEF TicketsInv, RowsOK
  <1>6. Untaken'
    BY <1>1, <1>2 DEF TicketsInv, RowsOK, Untaken
  <1>7. ProcsOK'
    BY <1>2, <1>4 DEF TicketsInv, ProcsOK, Has, TicketWork, FAQWork
  <1> QED
    BY <1>5, <1>6, <1>7 DEF TicketsInv

\* Editing the FAQ, and handlers that break.
LEMMA AsideStep ==
    ASSUME TicketsInv, NEW p \in Procs,
           TicketFails(p) \/ \E f \in FAQs : UpdateFAQ(p, f)
    PROVE  TicketsInv'
  <1>1. UNCHANGED ticketVars /\ UNCHANGED clock
    BY DEF TicketFails, UpdateFAQ, FAQRests
  <1>2. PICK w \in FAQWork \cup {Idle} : handler' = [handler EXCEPT ![p] = w]
    BY DEF TicketFails, UpdateFAQ, FAQWork
  <1>3. w = Idle \/ w.op = "faq"
    BY DEF FAQWork
  <1>4. RowsOK' /\ Untaken'
    BY <1>1, TicketsKept DEF TicketsInv, RowsOK
  <1>5. ProcsOK'
    BY <1>1, <1>2, <1>3, HandlerSteps DEF ticketVars
  <1> QED
    BY <1>4, <1>5 DEF TicketsInv

\* Reading messages, time, and steps of the FAQ that no handler is needed for.
LEMMA QuietStep ==
    ASSUME TicketsInv, UNCHANGED <<ticket, winners, handler>>, clock' \in Nat,
           aged' \subseteq {t \in Tickets : ticket[t] # NoRow}
    PROVE  TicketsInv'
  <1>1. RowsOK' /\ Untaken'
    BY DEF TicketsInv, RowsOK, Untaken
  <1>2. ProcsOK'
    BY DEF TicketsInv, ProcsOK, Has, TicketWork, FAQWork
  <1> QED
    BY <1>1, <1>2 DEF TicketsInv

-----------------------------------------------------------------------------
(* The invariant.                                                          *)

\* One agent at most, as a number.
LEMMA InvImpliesOneWinner ==
    ASSUME TicketsInv
    PROVE  OneWinner
  <1> SUFFICES ASSUME NEW t \in Tickets
               PROVE  Cardinality(winners[t]) <= 1
    BY DEF OneWinner
  <1>1. CASE winners[t] = {}
    BY <1>1, FS_EmptySet
  <1>2. ASSUME NEW a \in Agents, winners[t] = {a}
        PROVE  Cardinality(winners[t]) <= 1
    BY <1>2, FS_Singleton
  <1> QED
    BY <1>1, <1>2 DEF TicketsInv, Untaken

\* At the start nobody has a ticket.
LEMMA InvInit ==
    ASSUME SupportInit
    PROVE  TicketsInv
  BY DEF SupportInit, TicketsInv, RowsOK, ProcsOK, Untaken

\* Every step of every operation keeps the invariant.
LEMMA InvNext ==
    ASSUME TicketsInv, [SupportNext]_supportVars
    PROVE  TicketsInv'
  <1>1. ASSUME NEW p \in Procs, TicketStep(p)
        PROVE  TicketsInv'
    <2>1. CASE ClaimTicket(p)
      BY <2>1, ClaimStep
    <2>2. CASE ReleaseTicket(p) \/ ResolveTicket(p) \/ CloseTicket(p) \/ ReopenTicket(p)
      BY <2>2, TicketEditStep
    <2>3. ASSUME NEW t \in Tickets, SendMessageUser(p, t)
          PROVE  TicketsInv'
      BY <2>3, MessageRead DEF SendMessageUser, Sides
    <2>4. ASSUME NEW t \in Tickets, NEW a \in Agents, SendMessageCS(p, t, a)
          PROVE  TicketsInv'
      BY <2>4, MessageRead DEF SendMessageCS, Sides
    <2>5. CASE CreateMessage(p) \/ SendMessage(p)
      BY <2>5, MessageStep
    <2>6. CASE TicketFails(p)
      BY <2>6, AsideStep
    <2> QED
      BY <1>1, <2>1, <2>2, <2>3, <2>4, <2>5, <2>6 DEF TicketStep
  <1>2. ASSUME NEW p \in Procs, NEW f \in FAQs, UpdateFAQ(p, f)
        PROVE  TicketsInv'
    BY <1>2, AsideStep
  <1>3. ASSUME NEW t \in Tickets, DaysPass(t)
        PROVE  TicketsInv'
    <2>1. /\ UNCHANGED <<ticket, winners, handler, clock>> /\ ticket[t] # NoRow
          /\ aged' = aged \cup {t}
      BY <1>3 DEF DaysPass
    <2> QED
      BY <2>1, QuietStep DEF TicketsInv, RowsOK
  <1>4. ASSUME NEW t \in Tickets, GetMessagesUser(t) \/ GetMessagesAdmin(t)
        PROVE  TicketsInv'
    <2>1. UNCHANGED <<ticket, winners, handler, clock, aged>>
      BY <1>4 DEF GetMessagesUser, GetMessagesAdmin, GetMessages, ticketVars
    <2> QED
      BY <2>1, QuietStep DEF TicketsInv, RowsOK
  <1>5. CASE Tick \/ \E f \in FAQs : CreateFAQ(f) \/ DeleteFAQ(f)
    <2>1. UNCHANGED <<ticket, winners, handler, aged>> /\ (clock' = clock \/ clock' = clock + 1)
      BY <1>5 DEF Tick, CreateFAQ, DeleteFAQ, FAQRests, ticketVars
    <2> QED
      BY <2>1, QuietStep DEF TicketsInv, RowsOK
  <1>6. CASE CreateTicket
    BY <1>6, NewTicketStep
  <1>7. CASE AutoCloseResolved
    BY <1>7, WorkerStep
  <1>8. CASE UNCHANGED supportVars
    BY <1>8, QuietStep DEF supportVars, ticketVars, TicketsInv, RowsOK
  <1> QED
    BY <1>1, <1>2, <1>3, <1>4, <1>5, <1>6, <1>7, <1>8 DEF SupportNext

\* Rows stay in order, and a ticket that may be taken has not been taken since it was last
\* queued, whatever reads and whole-row writes interleave.
THEOREM TicketsInvHolds == SupportSpec => []TicketsInv
  <1>1. SupportInit => TicketsInv
    BY InvInit
  <1>2. TicketsInv /\ [SupportNext]_supportVars => TicketsInv'
    BY InvNext
  <1> QED
    BY <1>1, <1>2, PTL DEF SupportSpec

\* Between two writes that put a ticket in the queue, one agent at most takes it: the
\* condition of ClaimTicketAtomic's UPDATE decides, not the row that was read.
THEOREM OneAgentWins == SupportSpec => []OneWinner
  <1>1. TicketsInv => OneWinner
    BY InvImpliesOneWinner
  <1> QED
    BY <1>1, TicketsInvHolds, PTL

-----------------------------------------------------------------------------
(* Closed tickets.                                                         *)

\* What may become of a ticket that is closed.
ClosedKept ==
    \A t \in Tickets :
        ticket[t] # NoRow /\ ticket[t].status = "closed" /\ ticket'[t].status # "closed"
            => \E p \in Procs : Reviving(p, t)

\* A write opens a closed ticket only when it is meant to, or its row is old.
LEMMA WritesRevive ==
    ASSUME TicketsInv, NEW p \in Procs, NEW r \in Row,
           NEW op \in {"release", "resolve", "close", "reopen", "message"},
           WritesTicket(p, op, r),
           r.status = "closed" \/ op \in {"reopen", "resolve"} \/ handler[p].row.status # "closed"
    PROVE  ClosedKept
  <1>1. handler[p].ticket \in Tickets /\ handler[p] # Idle /\ handler[p].op = op
    BY AboutToWrite DEF WritesTicket, Stands
  <1>2. handler'[p] = Idle /\ ticket' = [ticket EXCEPT ![handler[p].ticket] = r]
    BY DEF WritesTicket, Done, UpdateTicket, TicketsInv, ProcsOK
  <1>3. ASSUME NEW t \in Tickets, ticket[t].status = "closed", ticket'[t].status # "closed"
        PROVE  Reviving(p, t)
    <2>1. t = handler[p].ticket /\ ticket'[t] = r
      BY <1>1, <1>2, <1>3 DEF TicketsInv, RowsOK
    <2>2. op \in {"reopen", "resolve"} \/ handler[p].row # ticket[t]
      BY <1>3, <2>1
    <2> QED
      BY <1>1, <1>2, <2>1, <2>2 DEF Reviving
  <1> QED
    BY <1>3 DEF ClosedKept

\* Steps that change no ticket that is closed.
LEMMA ClosedAlone ==
    ASSUME \A t \in Tickets : ticket[t] # NoRow /\ ticket[t].status = "closed" =>
                                   ticket'[t].status = "closed"
    PROVE  ClosedKept
  BY DEF ClosedKept

\* The steps of Support open no closed ticket but those that put it in the queue.
LEMMA ClosedNext ==
    ASSUME TicketsInv, [SupportNext]_supportVars
    PROVE  ClosedKept
  <1>0. ASSUME UNCHANGED ticket
        PROVE  ClosedKept
    BY <1>0, ClosedAlone
  <1>1. ASSUME NEW p \in Procs, TicketStep(p)
        PROVE  ClosedKept
    <2>1. CASE ClaimTicket(p)
      <3>1. CASE \E t \in Tickets, a \in Agents :
                     CountActiveByCS(a) < MaxConcurrent /\ Reads(p, "claim", "claim", t, a)
        BY <1>0, <3>1 DEF Reads, ticketVars
      <3>2. CASE /\ Stands(p, "claim", "write")
                 /\ ClaimTicketAtomic(handler[p].ticket, handler[p].by)
        <4>1. handler[p].ticket \in Tickets
          BY <3>2, AboutToWrite
        <4> QED
          BY <3>2, <4>1, ClosedAlone
            DEF ClaimTicketAtomic, Claimable, TicketsInv, RowsOK, ticketVars
      <3> QED
        BY <2>1, <3>1, <3>2 DEF ClaimTicket
    <2>2. CASE ReleaseTicket(p)
      <3>1. ASSUME WritesTicket(p, "release", Released(handler[p].row))
            PROVE  ClosedKept
        <4>1. Stands(p, "release", "write") /\ handler[p].row.status \in Open
          BY <3>1, AboutToWrite DEF WritesTicket, Has, Stands
        <4> QED
          BY <3>1, <4>1, WritesRow, WritesRevive DEF Open
      <3> QED
        BY <1>0, <2>2, <3>1 DEF ReleaseTicket, Reads, ticketVars
    <2>3. CASE ResolveTicket(p)
      <3>1. ASSUME WritesTicket(p, "resolve", Resolved(handler[p].row))
            PROVE  ClosedKept
        BY <3>1, WritesRow, WritesRevive DEF WritesTicket
      <3> QED
        BY <1>0, <2>3, <3>1 DEF ResolveTicket, Reads, ticketVars
    <2>4. CASE CloseTicket(p)
      <3>1. ASSUME WritesTicket(p, "close", Closed(handler[p].row))
            PROVE  ClosedKept
        <4>1. Stands(p, "close", "write") /\ handler[p].row \in Row
          BY <3>1, AboutToWrite DEF WritesTicket
        <4>2. Closed(handler[p].row).status = "closed"
          BY <4>1 DEF Closed, Row
        <4> QED
          BY <3>1, <4>1, <4>2, WritesRow, WritesRevive
      <3> QED
        BY <1>0, <2>4, <3>1 DEF CloseTicket, Reads, ticketVars
    <2>5. CASE ReopenTicket(p)
      <3>1. ASSUME WritesTicket(p, "reopen", Queued(handler[p].row))
            PROVE  ClosedKept
        BY <3>1, WritesRow, WritesRevive DEF WritesTicket
      <3> QED
        BY <1>0, <2>5, <3>1 DEF ReopenTicket, Reads, ticketVars
    <2>6. CASE \E t \in Tickets :
                   SendMessageUser(p, t) \/ \E a \in Agents : SendMessageCS(p, t, a)
      BY <1>0, <2>6 DEF SendMessageUser, SendMessageCS, SendMessageRead, ticketVars
    <2>7. CASE CreateMessage(p) \/ TicketFails(p)
      BY <1>0, <2>7 DEF CreateMessage, TicketFails, ticketVars
    <2>8. CASE SendMessage(p)
      <3>1. WritesTicket(p, "message", Answered(handler[p].row, handler[p].message.by))
        BY <2>8 DEF SendMessage
      <3>2. Stands(p, "message", "write") /\ handler[p].row.status # "closed"
        BY <3>1, AboutToWrite DEF WritesTicket, Has, Stands
      <3> QED
        BY <3>1, <3>2, WritesRow, WritesRevive
    <2> QED
      BY <1>1, <2>1, <2>2, <2>3, <2>4, <2>5, <2>6, <2>7, <2>8 DEF TicketStep
  <1>2. CASE CreateTicket
    <2>1. PICK n \in Tickets : ticket[n] = NoRow /\ ticket' = [ticket EXCEPT ![n] = NewRow]
      BY <1>2 DEF CreateTicket, NewTicket
    <2> QED
      BY <2>1, ClosedAlone DEF TicketsInv, RowsOK
  <1>3. CASE AutoCloseResolved
    BY <1>3, ClosedAlone DEF AutoCloseResolved
  <1>4. CASE \E t \in Tickets : DaysPass(t) \/ GetMessagesUser(t) \/ GetMessagesAdmin(t)
    BY <1>0, <1>4 DEF DaysPass, GetMessagesUser, GetMessagesAdmin, GetMessages, ticketVars
  <1>5. CASE \/ \E p \in Procs, f \in FAQs : UpdateFAQ(p, f)
             \/ \E f \in FAQs : CreateFAQ(f) \/ DeleteFAQ(f)
             \/ Tick
    BY <1>0, <1>5 DEF UpdateFAQ, CreateFAQ, DeleteFAQ, FAQRests, Tick, ticketVars
  <1>6. CASE UNCHANGED supportVars
    BY <1>0, <1>6 DEF supportVars, ticketVars
  <1> QED
    BY <1>1, <1>2, <1>3, <1>4, <1>5, <1>6 DEF SupportNext

\* A closed ticket is open again when its owner reopens it or an agent resolves it once more,
\* or where a handler writes back a row it read before the ticket was closed; not by a
\* release, and not by a message.
THEOREM ClosedTicketsStay == SupportSpec => ClosedStays
  <1>1. TicketsInv /\ [SupportNext]_supportVars => [ClosedKept]_supportVars
    BY ClosedNext
  <1> QED
    BY <1>1, TicketsInvHolds, PTL DEF SupportSpec, ClosedStays, ClosedKept

-----------------------------------------------------------------------------
(* Pages of messages.                                                      *)

\* The order of messages is a strict one, and total where identities differ.
LEMMA BeforeIsOrder ==
    ASSUME NEW l \in Message, NEW m \in Message, NEW n \in Message
    PROVE  /\ ~Before(m, m)
           /\ Before(l, m) /\ Before(m, n) => Before(l, n)
           /\ m.id = n.id \/ Before(m, n) \/ Before(n, m)
           /\ m.at < n.at => Before(m, n)
           /\ Before(m, n) => m.at <= n.at
  <1>1. /\ l.at \in Nat /\ m.at \in Nat /\ n.at \in Nat
        /\ l.id \in Int /\ m.id \in Int /\ n.id \in Int
    BY DEF Message
  <1> QED
    BY <1>1 DEF Before

\* A page that is not empty has a last message.
LEMMA LastOfPage ==
    ASSUME NEW S, S \subseteq Message, IsFiniteSet(S), S # {},
           \A m, n \in S : m.id = n.id => m = n
    PROVE  LastOf(S) \in S /\ \A n \in S : n = LastOf(S) \/ Before(n, LastOf(S))
  <1> DEFINE Later(m) == {n \in S : Before(m, n)}
             F == {Later(m) : m \in S}
  <1>1. F # {} /\ \A T \in F : IsFiniteSet(T)
    <2>1. \A m \in S : Later(m) \in SUBSET S
      OBVIOUS
    <2>2. \A m \in S : IsFiniteSet(Later(m))
      <3> HIDE DEF Later
      <3> QED
        BY <2>1, FS_Subset
    <2>3. ASSUME NEW T \in F
          PROVE  IsFiniteSet(T)
      <3>1. PICK m \in S : T = Later(m)
        OBVIOUS
      <3> QED
        BY <2>2, <3>1, Zenon
    <2>4. PICK m \in S : Later(m) \in F
      <3>1. PICK m \in S : TRUE
        OBVIOUS
      <3> QED
        BY <3>1
    <2> HIDE DEF F
    <2> QED
      BY <2>3, <2>4
  <1>2. PICK T \in F : \A U \in F : ~(Cardinality(U) < Cardinality(T))
    <2> HIDE DEF F
    <2> QED
      BY <1>1, SmallestSet
  <1>3. PICK m \in S : T = Later(m)
    BY <1>2
  <1>4. ASSUME NEW n \in S, n # m, ~Before(n, m)
        PROVE  FALSE
    <2>1. Before(m, n)
      BY <1>4, BeforeIsOrder
    <2>2. Later(n) \subseteq Later(m) /\ n \in Later(m) /\ n \notin Later(n)
      BY <2>1, BeforeIsOrder
    <2>3. IsFiniteSet(Later(m)) /\ IsFiniteSet(Later(n)) /\ Later(n) \in F
      BY <1>1, <1>3
    <2> HIDE DEF Later, F
    <2>4. /\ Cardinality(Later(n)) <= Cardinality(Later(m))
          /\ Cardinality(Later(n)) # Cardinality(Later(m))
          /\ Cardinality(Later(n)) \in Nat /\ Cardinality(Later(m)) \in Nat
      BY <2>2, <2>3, FS_Subset, FS_CardinalityType
    <2> QED
      BY <1>2, <1>3, <2>3, <2>4
  <1>5. \A n \in S : n = m \/ Before(n, m)
    BY <1>4
  <1> HIDE DEF Later, F
  <1> QED
    BY <1>5 DEF LastOf

\* What comes before a message of the page is on the page.
LEMMA PageIsPrefix ==
    ASSUME NEW S, S \subseteq Message, IsFiniteSet(S),
           NEW m \in FirstPage(S), NEW n \in S, Before(n, m)
    PROVE  n \in FirstPage(S)
  <1> DEFINE Earlier(x) == {l \in S : Before(l, x)}
  <1>1. m \in S /\ Earlier(n) \subseteq Earlier(m)
    BY BeforeIsOrder DEF FirstPage
  <1>2. IsFiniteSet(Earlier(m)) /\ IsFiniteSet(Earlier(n))
    BY FS_Subset
  <1>3. Cardinality(Earlier(m)) < Limit
    BY DEF FirstPage
  <1>4. Cardinality(Earlier(n)) < Limit
    <2> HIDE DEF Earlier
    <2>1. /\ Cardinality(Earlier(n)) <= Cardinality(Earlier(m))
          /\ Cardinality(Earlier(n)) \in Nat /\ Cardinality(Earlier(m)) \in Nat
      BY <1>1, <1>2, FS_Subset, FS_CardinalityType
    <2> QED
      BY <1>3, <2>1, SupportAssumption
  <1> QED
    BY <1>4 DEF FirstPage

-----------------------------------------------------------------------------
(* Messages and their readers.                                             *)

\* What is left of an agenda stays a number.
LEMMA AgendaLeft ==
    ASSUME RestOK, NEW class \in AgendaClasses, Spends(class)
    PROVE  left' \in [AgendaClasses -> Nat]
  BY DEF RestOK, Spends

\* Steps that neither insert nor read messages.
LEMMA MessagesAlone ==
    ASSUME MessagesInv, UNCHANGED messageVars, UNCHANGED readerVars,
           faq' \in [FAQs -> FAQStates], left' \in [AgendaClasses -> Nat],
           \A p \in Procs : Inserting(p)' => Inserting(p) /\ handler'[p] = handler[p]
    PROVE  MessagesInv'
  <1>1. UNCHANGED <<message, late, cursor, seen>>
    BY DEF messageVars, readerVars
  <1>2. MessagesOK' /\ RestOK'
    BY <1>1 DEF MessagesInv, MessagesOK, RestOK
  <1>3. ReadersOK' /\ PollMissesNothing'
    BY <1>1 DEF MessagesInv, ReadersOK, PollMissesNothing, Cursors, ShownTo
  <1>4. IdsAreFresh'
    BY <1>1 DEF MessagesInv, IdsAreFresh
  <1> QED
    BY <1>2, <1>3, <1>4 DEF MessagesInv

\* A handler starts, goes on or ends, but not with a message to insert.
LEMMA NothingToInsert ==
    ASSUME TicketsInv, NEW p \in Procs, NEW w, handler' = [handler EXCEPT ![p] = w],
           w = Idle \/ w.op # "message" \/ w.at # "insert"
    PROVE  \A q \in Procs : Inserting(q)' => Inserting(q) /\ handler'[q] = handler[q]
  BY DEF TicketsInv, ProcsOK, Inserting, Stands

\* The identity of a message is one that nobody has.
LEMMA MessageReadFresh ==
    ASSUME TicketsInv, MessagesInv, NEW p \in Procs, NEW t \in Tickets,
           NEW side \in Sides, NEW a, SendMessageRead(p, t, side, a)
    PROVE  MessagesInv'
  <1>1. PICK internal \in BOOLEAN, id \in 1 .. MaxMessages :
          /\ \A m \in message \cup BeingSent : m.id # id
          /\ handler' = [handler EXCEPT ![p] =
              [op |-> "message", at |-> "insert", ticket |-> t, row |-> ticket[t], by |-> a,
               message |-> [id |-> id, ticket |-> t, by |-> side, internal |-> internal,
                            at |-> clock]]]
    BY DEF SendMessageRead
  <1>2. /\ UNCHANGED <<messageVars, readerVars, faq>> /\ handler[p] = Idle
        /\ left' \in [AgendaClasses -> Nat]
    BY AgendaLeft DEF SendMessageRead, MessagesInv, AgendaClasses
  <1>3. /\ UNCHANGED <<message, late, cursor, seen>>
    BY <1>2 DEF messageVars, readerVars
  <1>4. /\ handler'[p] # Idle => /\ handler'[p].message.id = id
                              /\ handler'[p].message.ticket = t /\ handler'[p].ticket = t
        /\ \A q \in Procs \ {p} : handler'[q] = handler[q]
    BY <1>1 DEF TicketsInv, ProcsOK
  <1>5. ASSUME NEW q \in Procs \ {p}, Inserting(q)
        PROVE  handler[q].message.id # id
    BY <1>1, <1>5 DEF Inserting, BeingSent
  <1>6. IdsAreFresh'
    <2> SUFFICES ASSUME NEW q \in Procs, Inserting(q)'
                 PROVE  /\ handler'[q].message.ticket = handler'[q].ticket
                        /\ \A m \in message : m.id # handler'[q].message.id
                        /\ \A r \in Procs \ {q} :
                             Inserting(r)' => handler'[r].message.id # handler'[q].message.id
      BY <1>3 DEF IdsAreFresh
    <2>1. \A r \in Procs \ {p} : Inserting(r)' => Inserting(r)
      BY <1>4 DEF Inserting, Stands
    <2>2. CASE q = p
      <3>1. handler'[q] # Idle
        BY DEF Inserting, Stands
      <3> QED
        BY <1>1, <1>4, <1>5, <2>1, <2>2, <3>1
    <2>3. CASE q # p
      <3>1. Inserting(q) /\ handler'[q] = handler[q]
        BY <1>4, <2>1, <2>3
      <3>2. ASSUME NEW r \in Procs \ {q}, Inserting(r)'
            PROVE  handler'[r].message.id # handler'[q].message.id
        <4>1. CASE r = p
          BY <1>4, <1>5, <2>3, <3>1, <3>2, <4>1 DEF Inserting, Stands
        <4>2. CASE r # p
          BY <1>4, <2>1, <3>1, <3>2, <4>2 DEF MessagesInv, IdsAreFresh
        <4> QED
          BY <4>1, <4>2
      <3> QED
        BY <3>1, <3>2 DEF MessagesInv, IdsAreFresh
    <2> QED
      BY <2>2, <2>3
  <1>7. MessagesOK' /\ RestOK'
    BY <1>2, <1>3 DEF MessagesInv, MessagesOK, RestOK
  <1>8. ReadersOK' /\ PollMissesNothing'
    BY <1>3 DEF MessagesInv, ReadersOK, PollMissesNothing, Cursors, ShownTo
  <1> QED
    BY <1>6, <1>7, <1>8 DEF MessagesInv

\* A message that a side may have passed over is a late one.
LEMMA CreateMessageStep ==
    ASSUME TicketsInv, MessagesInv, NEW p \in Procs, CreateMessage(p)
    PROVE  MessagesInv'
  <1>1. PICK w \in TicketWork : w = handler[p]
    BY AboutToWrite DEF CreateMessage
  <1>2. PICK n \in Message : n = w.message
    BY <1>1, AboutToWrite DEF CreateMessage, Has, Stands
  <1>3. /\ message' = message \cup {n}
        /\ late' = IF \E m \in message : m.ticket = n.ticket /\ m.at > n.at
                   THEN late \cup {n} ELSE late
        /\ UNCHANGED <<cursor, seen, faq, left>>
        /\ \A m \in message : m.id # n.id
        /\ \A q \in Procs \ {p} : Inserting(q) => handler[q].message.id # n.id
    <2>1. Inserting(p)
      BY DEF CreateMessage, Inserting
    <2>2. w.ticket = n.ticket
      BY <1>1, <1>2, <2>1 DEF MessagesInv, IdsAreFresh
    <2> QED
      BY <1>1, <1>2, <2>1, <2>2 DEF CreateMessage, readerVars, MessagesInv, IdsAreFresh
  <1>4. \A q \in Procs : Inserting(q)' => Inserting(q) /\ q # p /\ handler'[q] = handler[q]
    BY <1>1 DEF CreateMessage, TicketsInv, ProcsOK, Inserting, Stands, TicketWork
  <1>5. MessagesOK'
    <2>1. IsFiniteSet(message')
      BY <1>3, FS_AddElement DEF MessagesInv, MessagesOK
    <2>2. message' \subseteq Message /\ late' \subseteq message'
      BY <1>3 DEF MessagesInv, MessagesOK
    <2>3. \A k, m \in message' : k.id = m.id => k = m
      BY <1>3 DEF MessagesInv, MessagesOK
    <2> QED
      BY <2>1, <2>2, <2>3 DEF MessagesOK
  <1>6. IdsAreFresh'
    BY <1>3, <1>4 DEF MessagesInv, IdsAreFresh
  <1>7. \A side \in Sides, t \in Tickets :
          /\ ShownTo(side, t) \subseteq ShownTo(side, t)'
          /\ ShownTo(side, t)' \subseteq ShownTo(side, t) \cup (IF n.ticket = t THEN {n} ELSE {})
    BY <1>3 DEF ShownTo
  <1>8. ReadersOK'
    BY <1>3, <1>7 DEF MessagesInv, ReadersOK, Cursors
  <1>9. PollMissesNothing'
    <2> SUFFICES ASSUME NEW side \in Sides, NEW t \in Tickets,
                        cursor[side][t] # NoMessage, NEW m \in ShownTo(side, t)',
                        m.at < cursor[side][t].at
                 PROVE  m \in seen[side] \/ m \in late'
      BY <1>3 DEF PollMissesNothing
    <2>1. CASE m \in ShownTo(side, t)
      BY <1>3, <2>1 DEF MessagesInv, PollMissesNothing
    <2>2. CASE m \notin ShownTo(side, t)
      <3>1. m = n /\ n.ticket = t
        BY <1>7, <2>2
      <3>2. cursor[side][t] \in message /\ cursor[side][t].ticket = t
        BY DEF MessagesInv, ReadersOK, Cursors, ShownTo
      <3>3. cursor[side][t].at > n.at
        BY <3>1, <3>2 DEF MessagesInv, MessagesOK, Message
      <3> QED
        BY <1>3, <3>1, <3>2, <3>3
    <2> QED
      BY <2>1, <2>2
  <1>10. RestOK'
    BY <1>3 DEF MessagesInv, RestOK
  <1> QED
    BY <1>5, <1>6, <1>8, <1>9, <1>10 DEF MessagesInv

\* A page begins where the last one ended and has no gaps.
LEMMA GetMessagesStep ==
    ASSUME MessagesInv, NEW side \in Sides, NEW t \in Tickets, GetMessages(side, t)
    PROVE  MessagesInv'
  <1> DEFINE c == cursor[side][t]
             S == IF c = NoMessage THEN ShownTo(side, t) ELSE After(ShownTo(side, t), c)
  <1>1. PICK page : page = FirstPage(S)
    OBVIOUS
  <1>2. /\ page # {} /\ Spends("read")
        /\ cursor' = [cursor EXCEPT ![side][t] = LastOf(page)]
        /\ seen' = [seen EXCEPT ![side] = @ \cup page]
        /\ UNCHANGED <<message, late, faq, handler>>
    BY <1>1 DEF GetMessages, FindMessagesByTicketID, messageVars
  <1>3. /\ S \subseteq ShownTo(side, t) /\ ShownTo(side, t) \subseteq message
        /\ S \subseteq Message /\ IsFiniteSet(S)
        /\ \A m, n \in S : m.id = n.id => m = n
    <2>1. S \subseteq ShownTo(side, t) /\ ShownTo(side, t) \subseteq message
      BY DEF After, ShownTo
    <2> QED
      BY <2>1, FS_Subset DEF MessagesInv, MessagesOK
  <1>4. /\ page \subseteq S /\ page \subseteq Message /\ IsFiniteSet(page)
        /\ \A m, n \in page : m.id = n.id => m = n
    <2>1. page \subseteq S
      BY <1>1 DEF FirstPage
    <2> QED
      BY <1>3, <2>1, FS_Subset
  <1>5. PICK d \in page : d = LastOf(page) /\ \A n \in page : n = d \/ Before(n, d)
    BY <1>2, <1>4, LastOfPage
  <1>6. /\ seen \in [Sides -> SUBSET message]
        /\ cursor \in [Sides -> [Tickets -> message \cup {NoMessage}]]
    BY DEF MessagesInv, ReadersOK
  <1>7. /\ seen' \in [Sides -> SUBSET message] /\ seen'[side] = seen[side] \cup page
        /\ \A u \in Sides \ {side} : seen'[u] = seen[u]
    BY <1>2, <1>3, <1>4, <1>6
  <1>8. /\ cursor' \in [Sides -> [Tickets -> message \cup {NoMessage}]]
        /\ cursor'[side][t] = d
        /\ \A u \in Sides, v \in Tickets :
             ~(u = side /\ v = t) => cursor'[u][v] = cursor[u][v]
    BY <1>2, <1>3, <1>4, <1>5, <1>6
  <1>9. \A u \in Sides, v \in Tickets : ShownTo(u, v)' = ShownTo(u, v)
    BY <1>2 DEF ShownTo
  <1>10. ReadersOK'
    <2>1. ASSUME NEW u \in Sides, NEW v \in Tickets
          PROVE  cursor'[u][v] \in {NoMessage} \cup (ShownTo(u, v) \cap seen'[u])
      <3>1. CASE u = side /\ v = t
        BY <1>3, <1>4, <1>7, <1>8, <3>1
      <3>2. CASE ~(u = side /\ v = t)
        <4>1. cursor[u][v] \in {NoMessage} \cup (ShownTo(u, v) \cap seen[u])
          BY DEF MessagesInv, ReadersOK, Cursors
        <4>2. seen[u] \subseteq seen'[u]
          BY <1>7
        <4> QED
          BY <1>8, <3>2, <4>1, <4>2
      <3> QED
        BY <3>1, <3>2
    <2> QED
      BY <1>2, <1>7, <1>8, <1>9, <2>1 DEF ReadersOK, Cursors
  <1>11. ASSUME NEW m \in ShownTo(side, t), m.at < d.at
         PROVE  m \in seen'[side] \/ m \in late
    <2>1. m \in message /\ m \in Message /\ d \in Message /\ Before(m, d)
      BY <1>3, <1>4, <1>5, <1>11, BeforeIsOrder DEF MessagesInv, MessagesOK
    <2>2. CASE m \in S
      <3>1. m \in page
        BY <1>1, <1>3, <1>5, <2>1, <2>2, PageIsPrefix
      <3> QED
        BY <1>7, <3>1
    <2>3. CASE m \notin S
      <3>1. c # NoMessage /\ ~(m.at >= c.at /\ m.id # c.id)
        BY <2>3 DEF After
      <3>2. c \in message /\ c \in Message /\ c \in seen[side]
        BY <3>1 DEF MessagesInv, ReadersOK, Cursors, ShownTo, MessagesOK
      <3>3. CASE m.at < c.at
        BY <1>7, <3>1, <3>3 DEF MessagesInv, PollMissesNothing
      <3>4. CASE ~(m.at < c.at)
        <4>1. m.id = c.id
          BY <2>1, <3>1, <3>2, <3>4 DEF Message
        <4> QED
          BY <1>7, <2>1, <3>2, <4>1 DEF MessagesInv, MessagesOK
      <3> QED
        BY <3>3, <3>4
    <2> QED
      BY <2>2, <2>3
  <1>12. PollMissesNothing'
    <2>1. ASSUME NEW u \in Sides, NEW v \in Tickets, cursor'[u][v] # NoMessage,
                 NEW m \in ShownTo(u, v), m.at < cursor'[u][v].at
          PROVE  m \in seen'[u] \/ m \in late
      <3>1. CASE u = side /\ v = t
        BY <1>8, <1>11, <2>1, <3>1
      <3>2. CASE ~(u = side /\ v = t)
        <4>1. cursor'[u][v] = cursor[u][v] /\ seen[u] \subseteq seen'[u]
          BY <1>7, <1>8, <3>2
        <4> QED
          BY <2>1, <4>1 DEF MessagesInv, PollMissesNothing
      <3> QED
        BY <3>1, <3>2
    <2> QED
      BY <1>2, <1>9, <2>1 DEF PollMissesNothing
  <1>13. MessagesOK' /\ IdsAreFresh'
    BY <1>2 DEF MessagesInv, MessagesOK, IdsAreFresh, Inserting, Stands
  <1>14. RestOK'
    BY <1>2, AgendaLeft DEF MessagesInv, RestOK, AgendaClasses
  <1> QED
    BY <1>10, <1>12, <1>13, <1>14 DEF MessagesInv

\* The other steps of handlers.
LEMMA TicketStepMessages ==
    ASSUME TicketsInv, MessagesInv, NEW p \in Procs, TicketStep(p)
    PROVE  MessagesInv'
  <1>1. ASSUME NEW class \in AgendaClasses, NEW op, op # "message", NEW t, NEW by,
               Reads(p, class, op, t, by)
        PROVE  MessagesInv'
    <2>1. /\ UNCHANGED messageVars /\ UNCHANGED readerVars /\ UNCHANGED faq
          /\ left' \in [AgendaClasses -> Nat]
      BY <1>1, AgendaLeft DEF Reads, MessagesInv
    <2> DEFINE w == [op |-> op, at |-> "write", ticket |-> t, row |-> ticket[t], by |-> by,
                     message |-> NoMessage]
    <2>2. handler' = [handler EXCEPT ![p] = w] /\ w.op # "message"
      BY <1>1 DEF Reads
    <2> HIDE DEF w
    <2> QED
      BY <2>1, <2>2, NothingToInsert, MessagesAlone DEF MessagesInv, RestOK
  <1>2. ASSUME Done(p)
        PROVE  MessagesInv'
    BY <1>2, NothingToInsert, MessagesAlone DEF Done, MessagesInv, RestOK
  <1>3. CASE ClaimTicket(p)
    BY <1>1, <1>2, <1>3 DEF ClaimTicket, AgendaClasses
  <1>4. CASE ReleaseTicket(p)
    BY <1>1, <1>2, <1>4 DEF ReleaseTicket, WritesTicket, AgendaClasses
  <1>5. CASE ResolveTicket(p)
    BY <1>1, <1>2, <1>5 DEF ResolveTicket, WritesTicket, AgendaClasses
  <1>6. CASE CloseTicket(p)
    BY <1>1, <1>2, <1>6 DEF CloseTicket, WritesTicket, AgendaClasses
  <1>7. CASE ReopenTicket(p)
    BY <1>1, <1>2, <1>7 DEF ReopenTicket, WritesTicket, AgendaClasses
  <1>8. ASSUME NEW t \in Tickets,
               SendMessageUser(p, t) \/ \E a \in Agents : SendMessageCS(p, t, a)
        PROVE  MessagesInv'
    BY <1>8, MessageReadFresh DEF SendMessageUser, SendMessageCS, Sides
  <1>9. CASE CreateMessage(p)
    BY <1>9, CreateMessageStep
  <1>10. CASE SendMessage(p)
    BY <1>2, <1>10 DEF SendMessage, WritesTicket
  <1>11. CASE TicketFails(p)
    <2>1. /\ UNCHANGED <<messageVars, readerVars, faq>> /\ left' \in [AgendaClasses -> Nat]
          /\ handler' = [handler EXCEPT ![p] = Idle]
      BY <1>11, AgendaLeft DEF TicketFails, MessagesInv, AgendaClasses
    <2> QED
      BY <2>1, NothingToInsert, MessagesAlone DEF MessagesInv, RestOK
  <1> QED
    BY <1>3, <1>4, <1>5, <1>6, <1>7, <1>8, <1>9, <1>10, <1>11 DEF TicketStep

\* Steps of the FAQ keep its states.
LEMMA FAQStepMessages ==
    ASSUME TicketsInv, MessagesInv, NEW f \in FAQs,
           \/ CreateFAQ(f) \/ DeleteFAQ(f)
           \/ \E p \in Procs : UpdateFAQ(p, f)
    PROVE  MessagesInv'
  <1>1. CASE CreateFAQ(f) \/ DeleteFAQ(f)
    <2>1. /\ UNCHANGED messageVars /\ UNCHANGED readerVars /\ UNCHANGED handler
          /\ faq' \in [FAQs -> FAQStates]
      BY <1>1 DEF CreateFAQ, DeleteFAQ, FAQRests, FAQStates, MessagesInv, RestOK
    <2>2. left' \in [AgendaClasses -> Nat]
      BY <1>1, AgendaLeft DEF CreateFAQ, DeleteFAQ, FAQRests, MessagesInv, AgendaClasses
    <2> QED
      BY <2>1, <2>2, MessagesAlone DEF Inserting, Stands
  <1>2. ASSUME NEW p \in Procs, UpdateFAQ(p, f)
        PROVE  MessagesInv'
    <2>1. CASE handler[p] = Idle
      <3>1. UNCHANGED <<messageVars, readerVars, faq>> /\ left' \in [AgendaClasses -> Nat]
        BY <1>2, <2>1, AgendaLeft DEF UpdateFAQ, FAQRests, Stands, MessagesInv, AgendaClasses
      <3>2. PICK s \in FAQStates : handler' =
                [handler EXCEPT ![p] = [op |-> "faq", at |-> "write", faq |-> f, as |-> s]]
        BY <1>2, <2>1 DEF UpdateFAQ, Stands
      <3> DEFINE w == [op |-> "faq", at |-> "write", faq |-> f, as |-> s]
      <3>3. handler' = [handler EXCEPT ![p] = w] /\ w.op # "message"
        BY <3>2
      <3> HIDE DEF w
      <3> QED
        BY <3>1, <3>3, NothingToInsert, MessagesAlone DEF MessagesInv, RestOK
    <2>2. CASE handler[p] # Idle
      <3>1. /\ Stands(p, "faq", "write")
            /\ faq' = IF faq[f] = "absent" THEN faq ELSE [faq EXCEPT ![f] = handler[p].as]
            /\ handler' = [handler EXCEPT ![p] = Idle]
            /\ UNCHANGED <<messageVars, readerVars, left>>
        BY <1>2, <2>2 DEF UpdateFAQ
      <3>2. handler[p].as \in FAQStates
        BY <3>1 DEF Stands, TicketsInv, ProcsOK, TicketWork, FAQWork
      <3>3. faq' \in [FAQs -> FAQStates]
        BY <3>1, <3>2 DEF MessagesInv, RestOK
      <3> QED
        BY <3>1, <3>3, NothingToInsert, MessagesAlone DEF MessagesInv, RestOK
    <2> QED
      BY <2>1, <2>2
  <1> QED
    BY <1>1, <1>2

\* There are no messages in the beginning.
LEMMA MessagesInit ==
    ASSUME SupportInit
    PROVE  MessagesInv
  <1>1. MessagesOK /\ RestOK
    BY FS_EmptySet, SupportAssumption DEF SupportInit, MessagesOK, RestOK, FAQStates
  <1>2. IdsAreFresh
    BY DEF SupportInit, IdsAreFresh, Inserting, Stands
  <1>3. ReadersOK /\ PollMissesNothing
    BY DEF SupportInit, ReadersOK, PollMissesNothing, Cursors
  <1> QED
    BY <1>1, <1>2, <1>3 DEF MessagesInv

\* Every step keeps messages, identities and readers in order.
LEMMA MessagesNext ==
    ASSUME TicketsInv, MessagesInv, [SupportNext]_supportVars
    PROVE  MessagesInv'
  <1>1. ASSUME NEW p \in Procs, TicketStep(p)
        PROVE  MessagesInv'
    BY <1>1, TicketStepMessages
  <1>2. ASSUME NEW f \in FAQs,
               CreateFAQ(f) \/ DeleteFAQ(f) \/ \E p \in Procs : UpdateFAQ(p, f)
        PROVE  MessagesInv'
    BY <1>2, FAQStepMessages
  <1>3. ASSUME NEW t \in Tickets, GetMessagesUser(t) \/ GetMessagesAdmin(t)
        PROVE  MessagesInv'
    BY <1>3, GetMessagesStep DEF GetMessagesUser, GetMessagesAdmin, Sides
  <1>4. CASE \/ \E t \in Tickets : DaysPass(t)
             \/ AutoCloseResolved
             \/ UNCHANGED supportVars
    <2>1. UNCHANGED messageVars /\ UNCHANGED readerVars /\ UNCHANGED <<faq, handler, left>>
      BY <1>4 DEF DaysPass, AutoCloseResolved, supportVars
    <2> QED
      BY <2>1, MessagesAlone DEF Inserting, Stands, MessagesInv, RestOK
  <1>5. CASE CreateTicket \/ Tick
    <2>1. UNCHANGED messageVars /\ UNCHANGED readerVars /\ UNCHANGED <<faq, handler>>
      BY <1>5 DEF CreateTicket, Tick
    <2>2. left' \in [AgendaClasses -> Nat]
      BY <1>5, AgendaLeft DEF CreateTicket, Tick, MessagesInv, AgendaClasses
    <2> QED
      BY <2>1, <2>2, MessagesAlone DEF Inserting, Stands, MessagesInv, RestOK
  <1> QED
    BY <1>1, <1>2, <1>3, <1>4, <1>5 DEF SupportNext

\* Identities of messages are their own, and readers go on where they were.
THEOREM MessagesInvHolds == SupportSpec => []MessagesInv
  <1>1. SupportInit => MessagesInv
    BY MessagesInit
  <1>2. TicketsInv /\ MessagesInv /\ [SupportNext]_supportVars => MessagesInv'
    BY MessagesNext
  <1> QED
    BY <1>1, <1>2, TicketsInvHolds, PTL DEF SupportSpec

\* A side that asks for what follows the last message it has misses none but late ones
\* (FindMessagesByTicketID of support/repository.go), however long the pages, and
\* whatever messages bear the same time.
THEOREM PollingMissesNothing == SupportSpec => []PollMissesNothing
  <1>1. MessagesInv => PollMissesNothing
    BY DEF MessagesInv
  <1> QED
    BY <1>1, MessagesInvHolds, PTL

\* Rows, and the copies of them that handlers carry about, agree in their columns, and
\* messages and readers are what the tables allow.
THEOREM SupportTyped == SupportSpec => []TicketsTypeOK
  <1>1. TicketsInv /\ MessagesInv => TicketsTypeOK
    BY DEF TicketsInv, RowsOK, ProcsOK, MessagesInv, MessagesOK, ReadersOK, RestOK,
       Cursors, ShownTo, FAQWork, TicketWork, TicketsTypeOK
  <1> QED
    BY <1>1, TicketsInvHolds, MessagesInvHolds, PTL

-----------------------------------------------------------------------------
(* Averages.                                                               *)

\* Averages are numbers.
LEMMA MeanTyped ==
    ASSUME NEW S \in SUBSET Review, IsFiniteSet(S)
    PROVE  Mean(S) \in Number /\ (S # {} => Mean(S) # Nothing)
<1>1. [r \in S |-> r.stars] \in [S -> Nat]
  <2>1. \A r \in S : r.stars \in Ratings
    BY DEF Review
  <2>2. Ratings \subseteq Nat
    BY ReviewsAssumption
  <2> QED
    BY <2>1, <2>2
<1>2. Stars(S) \in Nat
    BY <1>1, SumType DEF Stars
<1>3. Cardinality(S) \in Nat
    BY FS_CardinalityType
<1> QED
    BY <1>2, <1>3, SentinelAssumption DEF Mean, Number

\* The averages of users and shops.
LEMMA AveragesTyped ==
    ASSUME NEW S \in SUBSET Review, IsFiniteSet(S), NEW u
    PROVE  /\ GetAverageRatingByReviewee(S, u) \in Number
           /\ OfRunner(S, u) # {} => GetAverageRatingByReviewee(S, u) # Nothing
           /\ GetAverageRatingByRequester(S, u) \in Number
           /\ OfRequester(S, u) # {} => GetAverageRatingByRequester(S, u) # Nothing
           /\ GetAverageRatingByMerchant(S, u) \in Number
<1>1. /\ OfRunner(S, u) \in SUBSET Review /\ IsFiniteSet(OfRunner(S, u))
      /\ OfRequester(S, u) \in SUBSET Review /\ IsFiniteSet(OfRequester(S, u))
      /\ OfShop(S, u) \in SUBSET Review /\ IsFiniteSet(OfShop(S, u))
  <2>1. /\ OfRunner(S, u) \in SUBSET S /\ OfRequester(S, u) \in SUBSET S
        /\ OfShop(S, u) \in SUBSET S
    BY DEF OfRunner, OfRequester, OfShop
  <2> QED
    BY <2>1, FS_Subset
<1>2. \A x : /\ OfRunner(S, u) \ {x} \in SUBSET Review
             /\ IsFiniteSet(OfRunner(S, u) \ {x})
             /\ Cardinality(OfRunner(S, u)) >= 3 => OfRunner(S, u) \ {x} # {}
  <2> TAKE x
  <2>1. IsFiniteSet(OfRunner(S, u) \ {x})
    BY <1>1, FS_RemoveElement
  <2>2. OfRunner(S, u) \ {x} = {} => Cardinality(OfRunner(S, u)) <= 1
    <3>1. CASE x \in OfRunner(S, u)
      <4>1. Cardinality(OfRunner(S, u) \ {x}) = Cardinality(OfRunner(S, u)) - 1
        BY <1>1, <3>1, FS_RemoveElement
      <4>2. OfRunner(S, u) \ {x} = {} => Cardinality(OfRunner(S, u) \ {x}) = 0
        BY FS_EmptySet
      <4> QED
        BY <4>1, <4>2, <1>1, FS_CardinalityType
    <3>2. CASE x \notin OfRunner(S, u)
      <4>1. OfRunner(S, u) \ {x} = OfRunner(S, u)
        BY <3>2
      <4> QED
        BY <4>1, <1>1, FS_EmptySet
    <3> QED
      BY <3>1, <3>2
  <2> QED
    BY <1>1, <2>1, <2>2, FS_CardinalityType
<1>3. /\ GetAverageRatingByReviewee(S, u) \in Number
      /\ OfRunner(S, u) # {} => GetAverageRatingByReviewee(S, u) # Nothing
  <2> DEFINE all == OfRunner(S, u)
             lowest == CHOOSE r \in all : \A s \in all : r.stars <= s.stars
             rest == all \ {lowest}
             outlier == lowest.stars <= 2 /\ Stars(rest) >= 4 * Cardinality(rest)
  <2>1. /\ Mean(all) \in Number /\ (all # {} => Mean(all) # Nothing)
        /\ Mean(rest) \in Number /\ (rest # {} => Mean(rest) # Nothing)
    BY <1>1, <1>2, MeanTyped
  <2>2. Cardinality(all) >= 3 => rest # {}
    BY <1>2
  <2>3. GetAverageRatingByReviewee(S, u)
          = Mean(IF Cardinality(all) >= 3 /\ outlier THEN rest ELSE all)
    BY DEF GetAverageRatingByReviewee
  <2> HIDE DEF all, rest, outlier
  <2> QED
    BY <2>1, <2>2, <2>3 DEF all
<1>4. /\ GetAverageRatingByRequester(S, u) \in Number
      /\ OfRequester(S, u) # {} => GetAverageRatingByRequester(S, u) # Nothing
    BY <1>1, MeanTyped DEF GetAverageRatingByRequester
<1>5. GetAverageRatingByMerchant(S, u) \in Number
  <2> DEFINE all == OfShop(S, u)
             f == [r \in all |-> r.shopStars]
  <2>1. f \in [all -> Nat]
    <3>1. \A r \in all : r.shopStars \in Ratings
      BY DEF Review, OfShop
    <3>2. Ratings \subseteq Nat
      BY ReviewsAssumption
    <3> QED
      BY <3>1, <3>2
  <2>2. SumFunction(f) \in Nat /\ Cardinality(all) \in Nat
    <3> HIDE DEF f
    <3> QED
      BY <2>1, <1>1, SumType, FS_CardinalityType
  <2>3. GetAverageRatingByMerchant(S, u)
          = IF all = {} THEN Nothing ELSE <<SumFunction(f), Cardinality(all)>>
    BY DEF GetAverageRatingByMerchant
  <2> HIDE DEF f, all
  <2> QED
    BY <2>2, <2>3 DEF Number
<1> QED
    BY <1>3, <1>4, <1>5

-----------------------------------------------------------------------------
(* Handlers, field by field.                                               *)

\* The fields of a handler.
LEMMA HandlerFields ==
    ASSUME NEW w \in Handler
    PROVE  /\ w.op \in UserOps \cup ShopOps \cup Kinds \cup {"list"} /\ w.at \in Steps
           /\ w.on \in Users \cup Shops \cup Parts \cup {Nothing}
           /\ w.user \in Users \cup {Nothing}
           /\ w.row \in UserCopy \cup ShopCopy \cup Part \cup {Nothing}
           /\ w.base \in Picture /\ w.form \in Form /\ w.open \in BOOLEAN
           /\ w.list \in Cached \cup {Nothing} /\ w.images \in SUBSET Picture
           /\ w # Nothing
    BY SentinelAssumption DEF Handler

\* A new handler.
LEMMA NewHandler ==
    ASSUME NEW op \in UserOps \cup ShopOps \cup Kinds \cup {"list"}, NEW s \in Steps,
           NEW x \in Users \cup Shops \cup Parts \cup {Nothing}
    PROVE  Work(op, s, x) \in Handler
    BY DEF Work, Handler, Picture, Form

\* Nothing is not a picture; no two kinds of handler share an operation.
LEMMA Kinds3 ==
    /\ UserOps \cap ShopOps = {} /\ UserOps \cap Kinds = {} /\ ShopOps \cap Kinds = {}
    /\ "list" \notin UserOps \cup ShopOps \cup Kinds
    BY DEF UserOps, ShopOps, Kinds

\* A handler that goes on to its next step.
LEMMA NextStep ==
    ASSUME NEW w \in Handler, NEW s \in Steps
    PROVE  LET v == [w EXCEPT !.at = s] IN
           /\ v \in Handler /\ v.at = s /\ v.op = w.op /\ v.on = w.on /\ v.user = w.user
           /\ v.row = w.row /\ v.base = w.base /\ v.form = w.form /\ v.open = w.open
           /\ v.list = w.list /\ v.images = w.images /\ v # Nothing
    BY SentinelAssumption DEF Handler

-----------------------------------------------------------------------------
(* The steps of a clerk, told by what his handler v becomes, w.            *)

To(p, w) == proc' = [proc EXCEPT ![p] = w]
Lawful(w) == w \in Handler /\ WorksOn(w)
\* All is the same but the step, the row, the form and what the page showed.
Alike(v, w) == /\ w.op = v.op /\ w.on = v.on /\ w.user = v.user /\ w.images = v.images
Same4(v, w) == Alike(v, w) /\ w.row = v.row /\ w.form = v.form /\ w.base = v.base
Timed == UNCHANGED scene \/ \E class \in Classes : Takes(class)

StartsUser(p, w) ==
    /\ proc[p] = Nothing /\ To(p, w) /\ Rests
    /\ Lawful(w) /\ w.op \in {"create", "user"} /\ w.at = "user"
FindsUser(p, w) ==
    /\ proc[p] # Nothing /\ To(p, w) /\ Rests /\ Lawful(w) /\ Alike(proc[p], w)
    /\ w.op \in UserOps /\ w.at = "role" /\ proc[p].at = "user"
    /\ w.row = [role |-> role[w.user], score |-> score[w.user]]
WritesUser(p, w, r) ==
    /\ proc[p] # Nothing /\ To(p, w) /\ proc[p].op \in UserOps /\ proc[p].at = "role"
    /\ WriteUser(proc[p].user, proc[p].row, r)
    /\ \/ w = Nothing /\ proc[p].op = "user" /\ r = proc[p].row.role
       \/ /\ Lawful(w) /\ Same4(proc[p], w)
          /\ \/ w.op = "create" /\ r = "merchant" /\ w.at = "insert"
             \/ w.op = "delete" /\ r = "requester" /\ w.at = "delete"
FailsUser(p, w) ==
    /\ proc[p] # Nothing /\ To(p, w) /\ Lawful(w) /\ Same4(proc[p], w)
    /\ w.op = "delete" /\ w.at = "delete" /\ proc[p].at \in {"user", "role"}
    /\ tangled' = tangled \cup {w.user}
    /\ UNCHANGED <<reviewVars, role, shop, partVars, cacheVars>>
OpensShop(p, w) ==
    /\ proc[p] # Nothing /\ To(p, w) /\ Lawful(w) /\ Same4(proc[p], w)
    /\ CreateMerchant(p) /\ w.op = "create" /\ w.at = "flush" /\ proc[p].at = "insert"
StartsDelete(p, w) ==
    /\ proc[p] = Nothing /\ To(p, w) /\ Rests /\ Lawful(w) /\ w.op = "delete" /\ w.at = "user"
    /\ Live(w.on) /\ w.user = shop[w.on].owner /\ w.images = ListAllImagesByMerchantID(w.on)
ClosesShop(p, w) ==
    /\ proc[p] # Nothing /\ To(p, w) /\ Lawful(w) /\ Same4(proc[p], w)
    /\ DeleteMerchant(p) /\ w.op = "delete" /\ w.at = "sweep" /\ proc[p].at = "delete"
ReadsShop(p, w) ==
    /\ To(p, w) /\ Rests /\ Lawful(w) /\ WritesShop(w) /\ Live(w.on)
    /\ w.row = [shop |-> shop[w.on], rating |-> rating[w.on]]
    /\ \/ proc[p] = Nothing /\ w.op # "profile"
       \/ /\ proc[p] # Nothing /\ proc[p].op \in ShopOps /\ proc[p].on = w.on
          /\ FillsShop(w) => FillsShop(proc[p]) /\ proc[p].form = w.form
\* A handler that ends, its row being gone, before anything was written, or with its write.
Gives(p) ==
    /\ proc[p] # Nothing /\ To(p, Nothing) /\ Rests
    /\ \/ proc[p].op \in ShopOps /\ ~Live(proc[p].on)
       \/ proc[p].op \in Kinds
StartsProfile(p, w) ==
    /\ proc[p] = Nothing /\ To(p, w) /\ Rests /\ Lawful(w) /\ w.op = "profile" /\ w.at = "form"
    /\ Live(w.on) /\ w.form = SignedURL(shop[w.on].image)
SavesShop(p, w, new) ==
    /\ proc[p] # Nothing /\ To(p, w) /\ Lawful(w) /\ Same4(proc[p], w) /\ WritesShop(proc[p])
    /\ w.at \in {"flush", "open", "auto"} /\ SaveShop(p, w.op, new, w.at)
    /\ new \in Shop /\ new.life = "live" /\ new.owner = w.row.shop.owner
    /\ new.image = w.row.shop.image \/ (w.op = "profile" /\ new.image = Key(w))
Flushes(p) == proc[p] # Nothing /\ To(p, Nothing) /\ Flush(p)
StartsList(p, w) ==
    /\ proc[p] = Nothing /\ To(p, w) /\ Rests /\ Lawful(w) /\ w.op = "list"
FillsList(p) ==
    /\ proc[p] # Nothing /\ To(p, Nothing) /\ proc[p].op = "list" /\ proc[p].list \in Cached
    /\ nearby' = proc[p].list /\ old' = (proc[p].list # View)
    /\ ShopRests /\ UNCHANGED partVars
BreaksOff(p) == proc[p] # Nothing /\ To(p, Nothing) /\ Breaks(p)

StartsDraft(p, w) ==
    /\ proc[p] = Nothing /\ To(p, w) /\ Rests /\ Lawful(w) /\ w.op \in Kinds /\ w.at = "form"
    /\ part[w.on].life = "none" /\ \A q \in Clerks : proc[q] # Nothing => proc[q].on # w.on
    /\ w.base = Nothing /\ w.form = Nothing /\ w.images = {}
StartsEdit(p, w) ==
    /\ proc[p] = Nothing /\ To(p, w) /\ Rests /\ Lawful(w) /\ w.op \in Kinds /\ Live(w.on)
    /\ w.base = part[w.on].image /\ w.images = {}
    /\ \/ w.at = "form" /\ w.form = SignedURL(w.base)
       \/ w.at = "write" /\ w.form = Nothing /\ w.row = part[w.on]
ReadsPart(p, w) ==
    /\ proc[p] # Nothing /\ To(p, w) /\ Rests /\ Lawful(w) /\ Alike(proc[p], w)
    /\ w.op \in Kinds /\ w.at = "write" /\ proc[p].at = "form" /\ w.base = proc[p].base
    /\ part[w.on].life # "none"
    /\ \/ w.row = part[w.on] /\ w.form \in {proc[p].form, Nothing}
       \/ w.row.image = Nothing /\ w.form = proc[p].form
StartsErase(p, w) ==
    /\ proc[p] = Nothing /\ To(p, w) /\ Rests /\ Lawful(w) /\ w.op \in Kinds /\ w.at = "erase"
    /\ Live(w.on) /\ w.images = ImagesOf(w.op, w.on) \ {Nothing}
InsertsPart(p, w) ==
    /\ proc[p] # Nothing /\ To(p, w) /\ proc[p].op \in Kinds /\ proc[p].at = "form"
    /\ LET x == proc[p].on IN
        /\ part[x].life = "none"
        /\ \/ /\ Exists(Parent[x])
              /\ part' = [part EXCEPT ![x] = [life |-> "live", image |-> Key(proc[p])]]
              /\ \/ w = Nothing
                 \/ /\ Lawful(w) /\ Alike(proc[p], w) /\ w.at = "form"
                    /\ w.form = proc[p].form /\ w.base = Key(proc[p])
           \/ w = Nothing /\ ~Exists(Parent[x]) /\ UNCHANGED part
    /\ ShopRests /\ UNCHANGED <<store, muddled, cacheVars>>
SavesPart(p, w) ==
    /\ proc[p] # Nothing /\ To(p, w) /\ Lawful(w) /\ Writes(proc[p]) /\ w.at = "sweep"
    /\ w.op = proc[p].op /\ w.on = proc[p].on
    /\ LET x == w.on
           new == Replaced(proc[p].row, proc[p].form)
       IN /\ part' = IF Live(x) THEN [part EXCEPT ![x] = new] ELSE part
          /\ muddled' = IF part[x].image # proc[p].base THEN muddled \cup {x} ELSE muddled
          /\ w.images = OldImage(proc[p].row, new) \ {Nothing}
    /\ ShopRests /\ UNCHANGED <<store, cacheVars>>
ErasesPart(p, w) ==
    /\ proc[p] # Nothing /\ To(p, w) /\ Lawful(w) /\ Same4(proc[p], w) /\ w.op \in Kinds
    /\ proc[p].at = "erase" /\ w.at = "sweep" /\ Erases(p, w.op)
SweepsStore(p, w) ==
    /\ proc[p] # Nothing /\ To(p, w) /\ Sweeps(proc[p]) /\ proc[p].at = "sweep"
    /\ Remove(proc[p].images \ {Nothing})
    /\ \/ w = Nothing /\ proc[p].op \in Kinds
       \/ Lawful(w) /\ Same4(proc[p], w) /\ w.op = "delete" /\ w.at = "flush"
    /\ ShopRests /\ UNCHANGED <<part, muddled, cacheVars>>
Uploads(p, w, i) ==
    /\ proc[p] # Nothing /\ To(p, w) /\ Lawful(w) /\ Alike(proc[p], w) /\ w.row = proc[p].row
    /\ w.base = proc[p].base /\ w.at = "form" /\ proc[p].at = "form"
    /\ store[i] = "unused" /\ store' = [store EXCEPT ![i] = "stored"] /\ w.form = i
    /\ ShopRests /\ UNCHANGED <<part, muddled, cacheVars>>

\* A step of a clerk, one of the above.
UserStep(p) ==
    \/ \E w \in Handler : StartsUser(p, w) \/ FindsUser(p, w) \/ FailsUser(p, w)
    \/ \E w \in Handler \cup {Nothing}, r \in Roles : WritesUser(p, w, r)
ShopStep(p) ==
    \/ \E w \in Handler : \/ OpensShop(p, w) \/ StartsDelete(p, w) \/ ClosesShop(p, w)
                          \/ ReadsShop(p, w) \/ StartsProfile(p, w)
    \/ \E w \in Handler, new \in Shop : SavesShop(p, w, new)
    \/ Gives(p)
ListStep(p) == Flushes(p) \/ FillsList(p) \/ BreaksOff(p) \/ \E w \in Handler : StartsList(p, w)
PartStep(p) ==
    \/ \E w \in Handler : \/ StartsDraft(p, w) \/ StartsEdit(p, w) \/ ReadsPart(p, w)
                          \/ StartsErase(p, w) \/ SavesPart(p, w) \/ ErasesPart(p, w)
    \/ \E w \in Handler \cup {Nothing} : InsertsPart(p, w) \/ SweepsStore(p, w)
    \/ \E w \in Handler, i \in Images : Uploads(p, w, i)
    \/ Gives(p)
ClerkStep(p) == Timed /\ (UserStep(p) \/ ShopStep(p) \/ ListStep(p) \/ PartStep(p))

\* A handler that is under way.
LEMMA UnderWay ==
    ASSUME Basics, NEW p \in Clerks, proc[p] # Nothing
    PROVE  proc[p] \in Handler /\ WorksOn(proc[p]) /\ OwnerKept(proc[p])
    BY DEF Basics, HandlersOK, Owned

\* A handler that goes on to its next step.
LEMMA GoesOn ==
    ASSUME Basics, NEW p \in Clerks, proc[p] # Nothing, NEW s \in Steps, Goes(p, s)
    PROVE  \E w \in Handler : To(p, w) /\ Same4(proc[p], w) /\ w.at = s
<1> DEFINE w == [proc[p] EXCEPT !.at = s]
<1>1. w \in Handler /\ Same4(proc[p], w) /\ w.at = s
    BY UnderWay, NextStep DEF Same4, Alike
<1>2. To(p, w)
    BY DEF To, Goes
<1> QED
    BY <1>1, <1>2

\* The rows and what they hold.
LEMMA RowsTyped ==
    ASSUME Basics
    PROVE  /\ \A u \in Users : role[u] \in Roles /\ score[u] \in Number
           /\ \A s \in Shops : /\ shop[s] \in Shop /\ rating[s] \in Number
                               /\ shop[s].image \in Picture
                               /\ shop[s].life # "none" => shop[s].owner \in Users
           /\ \A x \in Parts : part[x] \in Part /\ part[x].image \in Picture
           /\ \A x \in Parts : x \notin Shops /\ Kind[x] \in Kinds
                               /\ Parent[x] \in Parts \cup Shops /\ ShopOfPart(x) \in Shops
    BY MerchantsAssumption
    DEF Basics, TypeOK, ReviewsTypeOK, Owned, Shop, Part, Picture

\* A picture's address is its own.
LEMMA AddressOf ==
    \A i \in Picture : /\ SignedURL(i) \in Form /\ SanitizeStorageKey(SignedURL(i)) = i
                       /\ SignedURL(i) \notin Images
                       /\ i # Nothing => SignedURL(i) \in Address
<1> SUFFICES ASSUME NEW i \in Picture
             PROVE  /\ SignedURL(i) \in Form /\ SanitizeStorageKey(SignedURL(i)) = i
                    /\ SignedURL(i) \notin Images
                    /\ i # Nothing => SignedURL(i) \in Address
    OBVIOUS
<1>1. CASE i = Nothing
    BY <1>1, MerchantsAssumption DEF SignedURL, SanitizeStorageKey, Form, Picture
<1>2. CASE i # Nothing
  <2>1. i \in Images /\ SignedURL(i) = [url |-> i]
    BY <1>2 DEF Picture, SignedURL
  <2>2. [url |-> i] \in Address /\ [url |-> i] \notin Picture
    BY <2>1, SentinelAssumption DEF Address
  <2>3. SanitizeStorageKey([url |-> i]) = [url |-> i].url
    BY <2>2 DEF SanitizeStorageKey, Picture
  <2> QED
    BY <2>1, <2>2, <2>3 DEF Form, Picture
<1> QED
    BY <1>1, <1>2

\* The picture a form brings is one.
LEMMA KeyTyped ==
    ASSUME NEW f \in Form
    PROVE  SanitizeStorageKey(f) \in Picture
<1>1. CASE f \in Picture
    BY <1>1 DEF SanitizeStorageKey, Picture
<1>2. CASE f \in Address
    BY <1>2 DEF SanitizeStorageKey, Picture, Address
<1> QED
    BY <1>1, <1>2 DEF Form

\* Starting to open a shop.
LEMMA StartUserStep ==
    ASSUME Basics, NEW p \in Clerks, NEW u \in Users, NEW s \in Shops, AdminCreate(p, s, u)
    PROVE  ClerkStep(p)
<1> DEFINE w == [Work("create", "user", s) EXCEPT !.user = u]
<1>1. w \in Handler /\ w.op = "create" /\ w.at = "user" /\ w.user = u /\ w.on = s
    BY DEF Work, Handler, Picture, Form, UserOps, Steps
<1>2. WorksOn(w)
    BY <1>1 DEF WorksOn, UserOps, ShopOps, Kinds
<1>3. StartsUser(p, w)
    BY <1>1, <1>2 DEF AdminCreate, Begin, StartsUser, To, Lawful
<1>4. Timed
    BY DEF AdminCreate, Timed, Classes
<1> QED
    BY <1>1, <1>3, <1>4 DEF ClerkStep, UserStep

\* Starting to write the row of a user.
LEMMA UpdateUserStep ==
    ASSUME Basics, NEW p \in Clerks, NEW u \in Users, UpdateUser(p, u)
    PROVE  ClerkStep(p)
<1> DEFINE w == [Work("user", "user", u) EXCEPT !.user = u]
<1>1. w \in Handler /\ w.op = "user" /\ w.at = "user" /\ w.user = u
    BY DEF Work, Handler, Picture, Form, UserOps, Steps
<1>2. WorksOn(w)
    BY <1>1 DEF WorksOn, UserOps, ShopOps, Kinds
<1>3. StartsUser(p, w)
    BY <1>1, <1>2 DEF UpdateUser, Begin, StartsUser, To, Lawful
<1>4. Timed
    BY DEF UpdateUser, Timed, Classes
<1> QED
    BY <1>1, <1>3, <1>4 DEF ClerkStep, UserStep

\* Reading the row of a user.
LEMMA FindUserStep ==
    ASSUME Basics, NEW p \in Clerks, FindUser(p)
    PROVE  ClerkStep(p)
<1> DEFINE v == proc[p]
           row == [role |-> role[v.user], score |-> score[v.user]]
           w == [v EXCEPT !.row = row, !.at = "role"]
<1>1. v \in Handler /\ WorksOn(v) /\ v.op \in UserOps /\ v.at = "user" /\ v # Nothing
    BY UnderWay DEF FindUser, Is, UserOps
<1>2. v.user \in Users
    BY <1>1 DEF WorksOn
<1>3. row \in UserCopy
    BY <1>2, RowsTyped DEF UserCopy
<1>4. /\ w \in Handler /\ w.op = v.op /\ w.on = v.on /\ w.user = v.user /\ w.images = v.images
      /\ w.row = row /\ w.at = "role"
  <2>1. "role" \in Steps
    BY DEF Steps
  <2> HIDE DEF row
  <2> DEFINE v1 == [v EXCEPT !.row = row]
  <2>2. v1 \in Handler /\ v1.op = v.op /\ v1.on = v.on /\ v1.user = v.user
        /\ v1.images = v.images /\ v1.row = row
    BY <1>1, <1>3 DEF Handler
  <2>3. w = [v1 EXCEPT !.at = "role"]
    BY <1>1 DEF Handler
  <2> HIDE DEF v1, w
  <2> QED
    BY <2>1, <2>2, <2>3, NextStep
<1>5. WorksOn(w)
  <2> HIDE DEF w, row
  <2> QED
    BY <1>1, <1>3, <1>4, Kinds3 DEF WorksOn, UserOps
<1>6. To(p, w)
    BY DEF FindUser, To
<1>7. FindsUser(p, w)
  <2> HIDE DEF w
  <2> QED
    BY <1>1, <1>4, <1>5, <1>6 DEF FindsUser, FindUser, Lawful, Alike
<1>8. Timed
    BY DEF FindUser, Timed
<1> QED
    BY <1>4, <1>7, <1>8 DEF ClerkStep, UserStep

\* Writing it.
LEMMA WriteUserStep ==
    ASSUME Basics, NEW p \in Clerks, Promote(p) \/ Demote(p) \/ WriteBack(p)
    PROVE  ClerkStep(p)
<1>1. proc[p] # Nothing /\ proc[p].op \in UserOps /\ proc[p].at = "role"
    BY DEF Promote, Demote, WriteBack, Is, UserOps
<1>2. /\ proc[p] \in Handler /\ WorksOn(proc[p]) /\ proc[p].user \in Users
      /\ proc[p].row \in UserCopy
    BY <1>1, UnderWay DEF WorksOn
<1>3. Timed
    BY DEF Promote, Demote, WriteBack, WriteUser, Timed
<1>4. CASE Promote(p)
  <2>1. PICK w \in Handler : To(p, w) /\ Same4(proc[p], w) /\ w.at = "insert"
    BY <1>1, <1>4, GoesOn DEF Promote, Steps
  <2>2. w.op = "create"
    BY <2>1, <1>4 DEF Promote, Is, Same4, Alike
  <2>3. WorksOn(w)
    BY <2>1, <2>2, <1>2, Kinds3 DEF WorksOn, Same4, Alike, UserOps
  <2>4. WritesUser(p, w, "merchant")
    BY <1>1, <1>4, <2>1, <2>2, <2>3 DEF WritesUser, Promote, Lawful
  <2> QED
    BY <2>4, <1>3 DEF ClerkStep, UserStep, Roles
<1>5. CASE Demote(p)
  <2>1. PICK w \in Handler : To(p, w) /\ Same4(proc[p], w) /\ w.at = "delete"
    BY <1>1, <1>5, GoesOn DEF Demote, Steps
  <2>2. w.op = "delete"
    BY <2>1, <1>5 DEF Demote, Is, Same4, Alike
  <2>3. WorksOn(w)
    BY <2>1, <2>2, <1>2, Kinds3 DEF WorksOn, Same4, Alike, UserOps
  <2>4. WritesUser(p, w, "requester")
    BY <1>1, <1>5, <2>1, <2>2, <2>3 DEF WritesUser, Demote, Lawful
  <2> QED
    BY <2>4, <1>3 DEF ClerkStep, UserStep, Roles
<1>6. CASE WriteBack(p)
  <2>1. WritesUser(p, Nothing, proc[p].row.role)
    BY <1>1, <1>6 DEF WritesUser, WriteBack, Ends, To, Is
  <2>2. proc[p].row.role \in Roles
    BY <1>2 DEF UserCopy
  <2> QED
    BY <2>1, <2>2, <1>3 DEF ClerkStep, UserStep
<1> QED
    BY <1>4, <1>5, <1>6

\* Failing to.
LEMMA FailUserStep ==
    ASSUME Basics, NEW p \in Clerks, DemoteFails(p)
    PROVE  ClerkStep(p)
<1>1. proc[p] # Nothing /\ proc[p].op = "delete" /\ proc[p].at \in {"user", "role"}
    BY DEF DemoteFails, Is
<1>2. PICK w \in Handler : To(p, w) /\ Same4(proc[p], w) /\ w.at = "delete"
    BY <1>1, GoesOn DEF DemoteFails, Steps
<1>3. WorksOn(w)
    BY <1>1, <1>2, UnderWay, Kinds3 DEF WorksOn, Same4, Alike, UserOps
<1>4. FailsUser(p, w)
    BY <1>1, <1>2, <1>3 DEF FailsUser, DemoteFails, Lawful, Same4, Alike
<1>5. Timed
    BY DEF DemoteFails, Timed, Classes
<1> QED
    BY <1>4, <1>5 DEF ClerkStep, UserStep

\* Opening a shop, and closing it.
LEMMA OpenCloseStep ==
    ASSUME Basics, NEW p \in Clerks, CreateMerchant(p) \/ DeleteMerchant(p)
    PROVE  ClerkStep(p)
<1>1. CASE CreateMerchant(p)
  <2>1. proc[p] # Nothing /\ proc[p].op = "create" /\ proc[p].at = "insert"
    BY <1>1 DEF CreateMerchant, Is
  <2>2. PICK w \in Handler : To(p, w) /\ Same4(proc[p], w) /\ w.at = "flush"
    BY <1>1, <2>1, GoesOn DEF CreateMerchant, Steps
  <2>3. WorksOn(w)
    BY <2>1, <2>2, UnderWay, Kinds3 DEF WorksOn, Same4, Alike, UserOps
  <2>4. OpensShop(p, w)
    BY <1>1, <2>1, <2>2, <2>3 DEF OpensShop, Lawful, Same4, Alike
  <2>5. Timed
    BY <1>1 DEF CreateMerchant, Timed
  <2> QED
    BY <2>4, <2>5 DEF ClerkStep, ShopStep
<1>2. CASE DeleteMerchant(p)
  <2>1. proc[p] # Nothing /\ proc[p].op = "delete" /\ proc[p].at = "delete"
    BY <1>2 DEF DeleteMerchant, Is
  <2>2. PICK w \in Handler : To(p, w) /\ Same4(proc[p], w) /\ w.at = "sweep"
    BY <1>2, <2>1, GoesOn DEF DeleteMerchant, Steps
  <2>3. WorksOn(w)
    BY <2>1, <2>2, UnderWay, Kinds3 DEF WorksOn, Same4, Alike, UserOps
  <2>4. ClosesShop(p, w)
    BY <1>2, <2>1, <2>2, <2>3 DEF ClosesShop, Lawful, Same4, Alike
  <2>5. Timed
    BY <1>2 DEF DeleteMerchant, Timed
  <2> QED
    BY <2>4, <2>5 DEF ClerkStep, ShopStep
<1> QED
    BY <1>1, <1>2

\* Starting to delete one.
LEMMA StartDeleteStep ==
    ASSUME Basics, NEW p \in Clerks, NEW s \in Shops, AdminDelete(p, s)
    PROVE  ClerkStep(p)
<1> DEFINE images == ListAllImagesByMerchantID(s)
           w == [Work("delete", "user", s) EXCEPT !.user = shop[s].owner, !.images = images]
<1>1. shop[s].owner \in Users /\ Live(s)
    BY RowsTyped DEF AdminDelete, Live
<1>2. images \in SUBSET Picture
    BY RowsTyped DEF ListAllImagesByMerchantID
<1>3. /\ w \in Handler /\ w.op = "delete" /\ w.at = "user" /\ w.user = shop[s].owner
      /\ w.on = s /\ w.images = images
  <2> HIDE DEF images
  <2> QED
    BY <1>1, <1>2 DEF Work, Handler, Picture, Form, UserOps, Steps
<1>4. To(p, w) /\ proc[p] = Nothing /\ Rests /\ Timed
    BY DEF AdminDelete, Begin, To, Timed, Classes
<1> HIDE DEF w
<1>5. WorksOn(w)
    BY <1>1, <1>3, Kinds3 DEF WorksOn, UserOps
<1>6. StartsDelete(p, w)
    BY <1>1, <1>3, <1>4, <1>5 DEF StartsDelete, Lawful
<1> QED
    BY <1>3, <1>4, <1>6 DEF ClerkStep, ShopStep

\* A row of a shop is read to be written.
LEMMA ReadShopStep ==
    ASSUME Basics, NEW p \in Clerks, NEW op \in ShopOps, NEW s \in Shops, NEW form \in Form,
           NEW open \in BOOLEAN, ReadShop(p, op, s, form, open), Rests, Timed,
           \/ proc[p] = Nothing /\ op # "profile" /\ Live(s)
           \/ /\ proc[p] # Nothing /\ proc[p].op \in ShopOps /\ proc[p].on = s
              /\ op = "profile" => FillsShop(proc[p]) /\ proc[p].form = form
    PROVE  ClerkStep(p)
<1>1. CASE Live(s)
  <2> DEFINE row == [shop |-> shop[s], rating |-> rating[s]]
             w == [Work(op, "write", s) EXCEPT !.row = row, !.form = form, !.open = open]
  <2>1. row \in ShopCopy /\ row.shop = shop[s] /\ row.shop.life = "live"
    BY <1>1, RowsTyped DEF ShopCopy, Live
  <2>2. To(p, w)
    BY <1>1 DEF ReadShop, To
  <2> HIDE DEF row
  <2>3. /\ w \in Handler /\ w.op = op /\ w.at = "write" /\ w.on = s /\ w.row = row
        /\ w.form = form
    BY <2>1 DEF Work, Handler, Picture, Form, Steps
  <2> HIDE DEF w
  <2>4. WorksOn(w)
    BY <2>1, <2>3, Kinds3 DEF WorksOn
  <2>5. WritesShop(w) /\ (FillsShop(w) => op = "profile")
    BY <2>3 DEF WritesShop, FillsShop
  <2>6. ReadsShop(p, w)
    BY <1>1, <2>2, <2>3, <2>4, <2>5 DEF ReadsShop, Lawful, row
  <2> QED
    BY <2>3, <2>6 DEF ClerkStep, ShopStep
<1>2. CASE ~Live(s)
  <2>1. Gives(p)
    BY <1>2 DEF Gives, ReadShop, Ends, To
  <2> QED
    BY <2>1 DEF ClerkStep, ShopStep
<1> QED
    BY <1>1, <1>2

\* Where it is read.
LEMMA ReadShopSteps ==
    ASSUME Basics, NEW p \in Clerks, NEW s \in Shops, NEW open \in BOOLEAN,
           AdminUpdate(p, s) \/ UpdateStatus(p, s, open)
    PROVE  ClerkStep(p)
<1>1. Nothing \in Form /\ FALSE \in BOOLEAN
    BY DEF Form, Picture
<1>2. Timed
    BY DEF AdminUpdate, UpdateStatus, Timed, Classes
<1>3. CASE AdminUpdate(p, s)
    BY <1>1, <1>2, <1>3, ReadShopStep DEF AdminUpdate, ShopOps
<1>4. CASE UpdateStatus(p, s, open)
    BY <1>1, <1>2, <1>4, ReadShopStep DEF UpdateStatus, ShopOps
<1> QED
    BY <1>3, <1>4

\* Where it is read again.
LEMMA RereadShopStep ==
    ASSUME Basics, NEW p \in Clerks, Again(p, "limit", "open") \/ Again(p, "open", "auto")
    PROVE  ClerkStep(p)
<1>1. ASSUME NEW op \in ShopOps, NEW next \in ShopOps, next # "profile", Again(p, op, next)
      PROVE  ClerkStep(p)
  <2>1. proc[p] # Nothing /\ proc[p].op \in ShopOps
    BY <1>1 DEF Again, Is
  <2>2. proc[p].on \in Shops /\ proc[p].open \in BOOLEAN /\ Nothing \in Form
    BY <2>1, UnderWay, HandlerFields DEF WorksOn, Form, Picture
  <2>3. Timed
    BY <1>1 DEF Again, Timed
  <2>4. ReadShop(p, next, proc[p].on, Nothing, proc[p].open) /\ Rests
    BY <1>1 DEF Again
  <2> QED
    BY <1>1, <2>1, <2>2, <2>3, <2>4, ReadShopStep
<1> QED
    BY <1>1 DEF ShopOps

\* The form of a shop.
LEMMA ProfileStep ==
    ASSUME Basics, NEW p \in Clerks, NEW s \in Shops, UpdateProfile(p, s)
    PROVE  ClerkStep(p)
<1>1. CASE Live(s) /\ Takes("edit") /\ Rests /\
           Begin(p, [Work("profile", "form", s) EXCEPT !.form = SignedURL(shop[s].image)])
  <2> DEFINE f == SignedURL(shop[s].image)
             w == [Work("profile", "form", s) EXCEPT !.form = f]
  <2>1. f \in Form
    BY RowsTyped, AddressOf
  <2>2. To(p, w) /\ proc[p] = Nothing /\ Rests /\ Timed /\ Live(s)
    BY <1>1 DEF Begin, To, Timed, Classes
  <2> HIDE DEF f
  <2>3. w \in Handler /\ w.op = "profile" /\ w.at = "form" /\ w.on = s /\ w.form = f
    BY <2>1 DEF Work, Handler, Picture, Form, Steps, ShopOps
  <2> HIDE DEF w
  <2>4. WorksOn(w)
    BY <2>3, Kinds3 DEF WorksOn, ShopOps
  <2>5. StartsProfile(p, w)
    BY <2>2, <2>3, <2>4 DEF StartsProfile, Lawful, f
  <2> QED
    BY <2>2, <2>3, <2>5 DEF ClerkStep, ShopStep
<1>2. CASE Is(p, {"profile"}, "form") /\ proc[p].on = s /\ Rests /\ UNCHANGED scene
           /\ ReadShop(p, "profile", s, proc[p].form, FALSE)
  <2>1. proc[p] # Nothing /\ proc[p].op \in ShopOps /\ FillsShop(proc[p])
    BY <1>2 DEF Is, ShopOps, FillsShop
  <2>2. proc[p].form \in Form
    BY <2>1, UnderWay, HandlerFields
  <2>3. Timed
    BY <1>2 DEF Timed
  <2> QED
    BY <1>2, <2>1, <2>2, <2>3, ReadShopStep DEF ShopOps
<1> QED
    BY <1>1, <1>2 DEF UpdateProfile

\* A row of a shop is written.
LEMMA SaveShopStep ==
    ASSUME Basics, NEW p \in Clerks, NEW op \in ShopOps, NEW new, NEW s \in Steps,
           SaveShop(p, op, new, s), s \in {"flush", "open", "auto"}, new \in Shop,
           new.life = "live", new.owner = proc[p].row.shop.owner,
           new.image = proc[p].row.shop.image \/ (op = "profile" /\ new.image = Key(proc[p]))
    PROVE  ClerkStep(p)
<1>1. proc[p] # Nothing /\ proc[p].op = op /\ proc[p].at = "write"
    BY DEF SaveShop, Is
<1>2. PICK w \in Handler : To(p, w) /\ Same4(proc[p], w) /\ w.at = s
    BY <1>1, GoesOn DEF SaveShop
<1>3. /\ w.op = op /\ w.row = proc[p].row /\ w.on = proc[p].on /\ Key(w) = Key(proc[p])
      /\ w.user = proc[p].user
    BY <1>1, <1>2 DEF Same4, Alike, Key
<1>4. WorksOn(w)
    BY <1>1, <1>2, <1>3, UnderWay, Kinds3 DEF WorksOn
<1>5. WritesShop(proc[p])
    BY <1>1 DEF WritesShop
<1>6. SavesShop(p, w, new)
    BY <1>1, <1>2, <1>3, <1>4, <1>5 DEF SavesShop, Lawful
<1>7. Timed
    BY DEF SaveShop, Timed
<1> QED
    BY <1>6, <1>7 DEF ClerkStep, ShopStep

\* What is written.
LEMMA SaveShopSteps ==
    ASSUME Basics, NEW p \in Clerks,
           \/ UpdateMerchant(p) \/ UpdateMerchantFull(p) \/ UpdateLimit(p)
           \/ SaveShop(p, "open", [Kept(p) EXCEPT !.open = proc[p].open], "auto")
           \/ SaveShop(p, "auto", AutoNever(Kept(p)), "flush")
    PROVE  ClerkStep(p)
<1>1. proc[p] # Nothing /\ proc[p].op \in ShopOps /\ proc[p].at = "write"
    BY DEF UpdateMerchant, UpdateMerchantFull, UpdateLimit, SaveShop, Is, ShopOps
<1>2. proc[p].row \in ShopCopy /\ proc[p].row.shop.life = "live"
    BY <1>1, UnderWay DEF WorksOn
<1> DEFINE row == proc[p].row.shop
<1>3. row \in Shop /\ row.life = "live"
    BY <1>2 DEF ShopCopy
<1>4. Key(proc[p]) \in Picture /\ proc[p].open \in BOOLEAN
    BY <1>1, UnderWay, HandlerFields, KeyTyped DEF Key
<1>5. Kept(p) = row
    BY DEF Kept
<1> HIDE DEF row
<1>6. /\ [row EXCEPT !.image = Key(proc[p])] \in Shop
      /\ [row EXCEPT !.image = Key(proc[p])].life = "live"
      /\ [row EXCEPT !.image = Key(proc[p])].owner = row.owner
      /\ [row EXCEPT !.image = Key(proc[p])].image = Key(proc[p])
    BY <1>3, <1>4 DEF Shop, Picture
<1>7. \A b \in BOOLEAN : /\ [row EXCEPT !.open = b] \in Shop
                         /\ [row EXCEPT !.open = b].life = "live"
                         /\ [row EXCEPT !.open = b].owner = row.owner
                         /\ [row EXCEPT !.open = b].image = row.image
    BY <1>3 DEF Shop
<1>8. /\ AutoNever(row) \in Shop /\ AutoNever(row).life = "live"
      /\ AutoNever(row).owner = row.owner /\ AutoNever(row).image = row.image
    BY <1>3 DEF Shop, AutoNever
<1>9. {"flush", "open", "auto"} \subseteq Steps
    BY DEF Steps
<1>10. {"admin", "profile", "limit", "open", "auto"} \subseteq ShopOps
    BY DEF ShopOps
<1>11. CASE UpdateMerchant(p)
    BY <1>3, <1>5, <1>9, <1>10, <1>11, SaveShopStep DEF UpdateMerchant, row
<1>12. CASE UpdateMerchantFull(p)
  <2>1. SaveShop(p, "profile", [row EXCEPT !.image = Key(proc[p])], "flush")
    BY <1>5, <1>12 DEF UpdateMerchantFull, Key
  <2> QED
    BY <2>1, <1>6, <1>9, <1>10, SaveShopStep DEF row
<1>13. CASE UpdateLimit(p)
    BY <1>3, <1>5, <1>9, <1>10, <1>13, SaveShopStep DEF UpdateLimit, row
<1>14. CASE SaveShop(p, "open", [Kept(p) EXCEPT !.open = proc[p].open], "auto")
    BY <1>4, <1>5, <1>7, <1>9, <1>10, <1>14, SaveShopStep DEF row
<1>15. CASE SaveShop(p, "auto", AutoNever(Kept(p)), "flush")
    BY <1>5, <1>8, <1>9, <1>10, <1>15, SaveShopStep DEF row
<1> QED
    BY <1>11, <1>12, <1>13, <1>14, <1>15

\* The cached list.
LEMMA ListSteps ==
    ASSUME Basics, NEW p \in Clerks, Flush(p) \/ ListNearby(p) \/ Breaks(p)
    PROVE  ClerkStep(p)
<1>1. CASE Flush(p)
  <2>1. Flushes(p) /\ Timed
    BY <1>1 DEF Flush, Flushes, Ends, To, Timed
  <2> QED
    BY <2>1 DEF ClerkStep, ListStep
<1>2. CASE Breaks(p)
  <2>1. BreaksOff(p) /\ Timed
    BY <1>2 DEF Breaks, BreaksOff, Ends, To, Timed, Classes
  <2> QED
    BY <2>1 DEF ClerkStep, ListStep
<1>3. CASE /\ Takes("fill") /\ Rests
           /\ Begin(p, [Work("list", "fill", Nothing) EXCEPT !.list = View])
  <2> DEFINE w == [Work("list", "fill", Nothing) EXCEPT !.list = View]
  <2>1. View \in Cached
    BY RowsTyped DEF View, Cached, Shop
  <2>2. w \in Handler /\ w.op = "list" /\ w.at = "fill" /\ w.list = View
    BY <2>1 DEF Work, Handler, Picture, Form, Steps
  <2>3. To(p, w) /\ proc[p] = Nothing /\ Rests /\ Timed
    BY <1>3 DEF Begin, To, Timed, Classes
  <2> HIDE DEF w
  <2>4. WorksOn(w)
    BY <2>1, <2>2, Kinds3 DEF WorksOn, UserOps
  <2>5. StartsList(p, w)
    BY <2>2, <2>3, <2>4 DEF StartsList, Lawful
  <2> QED
    BY <2>2, <2>3, <2>5 DEF ClerkStep, ListStep
<1>4. CASE Is(p, {"list"}, "fill") /\ Ends(p) /\ nearby' = proc[p].list
           /\ old' = (proc[p].list # View) /\ ShopRests /\ UNCHANGED <<partVars, scene>>
  <2>1. proc[p] # Nothing /\ proc[p].op = "list"
    BY <1>4 DEF Is
  <2>2. proc[p].list \in Cached
    BY <2>1, UnderWay DEF WorksOn
  <2>3. FillsList(p) /\ Timed
    BY <1>4, <2>1, <2>2 DEF FillsList, Timed, Ends, To
  <2> QED
    BY <2>3 DEF ClerkStep, ListStep
<1> QED
    BY <1>1, <1>2, <1>3, <1>4 DEF ListNearby

\* A handler with another row, form, picture shown, or list of pictures.
LEMMA Rewritten ==
    ASSUME NEW w \in Handler
    PROVE  /\ \A r \in Part : LET v == [w EXCEPT !.row = r] IN
                v \in Handler /\ Alike(w, v) /\ v.row = r /\ v.base = w.base /\ v.form = w.form
                /\ v.at = w.at
           /\ \A f \in Form : LET v == [w EXCEPT !.form = f] IN
                v \in Handler /\ Alike(w, v) /\ v.form = f /\ v.base = w.base /\ v.row = w.row
                /\ v.at = w.at
           /\ \A b \in Picture : LET v == [w EXCEPT !.base = b] IN
                v \in Handler /\ Alike(w, v) /\ v.base = b /\ v.form = w.form /\ v.row = w.row
                /\ v.at = w.at
           /\ \A I \in SUBSET Picture : LET v == [w EXCEPT !.images = I] IN
                v \in Handler /\ v.images = I /\ v.op = w.op /\ v.on = w.on /\ v.at = w.at
                /\ v.user = w.user /\ v.base = w.base /\ v.form = w.form /\ v.row = w.row
    BY DEF Handler, Alike

\* What a handler does to a part, he does to one of its kind.
LEMMA PartHandler ==
    ASSUME NEW w \in Handler, NEW x \in Parts, w.op = Kind[x], w.on = x,
           w.at \in {"form", "write", "erase", "sweep"},
           w.at = "write" => w.row \in Part /\ w.row.life = "live"
    PROVE  Lawful(w) /\ w.op \in Kinds
<1>1. w.op \in Kinds
    BY MerchantsAssumption
<1> QED
    BY <1>1, Kinds3 DEF WorksOn, Lawful, UserOps

\* A form for a part that is to be.
LEMMA DraftStep ==
    ASSUME Basics, NEW p \in Clerks, NEW k \in Kinds, NEW x \in Parts, Drafts(p, k, x)
    PROVE  ClerkStep(p)
<1> DEFINE w == Work(k, "form", x)
<1>1. Kind[x] = k
    BY DEF Drafts
<1>2. /\ w \in Handler /\ w.op = k /\ w.at = "form" /\ w.on = x /\ w.base = Nothing
      /\ w.form = Nothing /\ w.images = {}
    BY DEF Work, Handler, Picture, Form, Steps
<1>3. /\ To(p, w) /\ proc[p] = Nothing /\ Rests /\ Timed /\ part[x].life = "none"
      /\ \A q \in Clerks : proc[q] # Nothing => proc[q].on # x
    BY DEF Drafts, Begin, To, Timed, Classes
<1> HIDE DEF w
<1>4. StartsDraft(p, w)
    BY <1>1, <1>2, <1>3, PartHandler DEF StartsDraft
<1> QED
    BY <1>2, <1>3, <1>4 DEF ClerkStep, PartStep

\* A form that shows a part, and what is read when it comes back.
LEMMA EditStep ==
    ASSUME Basics, NEW p \in Clerks, NEW k \in Kinds, NEW x \in Parts,
           Edits(p, k, x) \/ ToggleMenuAvailability(p, x)
    PROVE  ClerkStep(p)
<1>0. /\ part[x] \in Part /\ part[x].image \in Picture /\ SignedURL(part[x].image) \in Form
      /\ Nothing \in Form /\ x \notin Shops
    BY RowsTyped, AddressOf DEF Form, Picture
<1>1. CASE /\ Kind[x] = k /\ Live(x) /\ Takes("part") /\ Rests
           /\ Begin(p, [Work(k, "form", x) EXCEPT !.base = part[x].image,
                            !.form = SignedURL(part[x].image)])
  <2> DEFINE f == SignedURL(part[x].image)
             w == [Work(k, "form", x) EXCEPT !.base = part[x].image, !.form = f]
  <2>1. To(p, w) /\ proc[p] = Nothing /\ Timed
    BY <1>1 DEF Begin, To, Timed, Classes
  <2> HIDE DEF f
  <2>2. /\ w \in Handler /\ w.op = k /\ w.at = "form" /\ w.on = x
        /\ w.base = part[x].image /\ w.form = f /\ w.images = {}
    <3>1. f \in Form
      BY <1>0 DEF f
    <3> QED
      BY <3>1, <1>0 DEF Work, Handler, Steps
  <2> HIDE DEF w
  <2>3. StartsEdit(p, w)
    BY <1>1, <2>1, <2>2, PartHandler DEF StartsEdit, f
  <2> QED
    BY <2>1, <2>2, <2>3 DEF ClerkStep, PartStep
<1>2. CASE ToggleMenuAvailability(p, x)
  <2> DEFINE w == [Work("menu", "write", x) EXCEPT !.base = part[x].image, !.row = part[x]]
  <2>1. To(p, w) /\ proc[p] = Nothing /\ Timed /\ Rests /\ Live(x) /\ Kind[x] = "menu"
    BY <1>2 DEF ToggleMenuAvailability, Begin, To, Timed, Classes
  <2>2. part[x].life = "live"
    BY <2>1, <1>0 DEF Live
  <2>3. /\ w \in Handler /\ w.op = "menu" /\ w.at = "write" /\ w.on = x
        /\ w.base = part[x].image /\ w.form = Nothing /\ w.row = part[x] /\ w.images = {}
    BY <1>0 DEF Work, Handler, Form, Kinds, Steps
  <2> HIDE DEF w
  <2>4. StartsEdit(p, w)
    BY <1>0, <2>1, <2>2, <2>3, PartHandler DEF StartsEdit
  <2> QED
    BY <2>1, <2>3, <2>4 DEF ClerkStep, PartStep
<1>3. CASE /\ Is(p, {k}, "form") /\ proc[p].on = x /\ part[x].life # "none"
           /\ IF Live(x)
              THEN \E f \in {proc[p].form, Nothing} :
                     proc' = [proc EXCEPT ![p].at = "write", ![p].row = part[x], ![p].form = f]
              ELSE Ends(p)
           /\ Rests /\ UNCHANGED scene
  <2>1. /\ proc[p] # Nothing /\ proc[p].op = k /\ proc[p].at = "form"
        /\ proc[p] \in Handler /\ proc[p].form \in Form /\ WorksOn(proc[p])
    BY <1>3, UnderWay, HandlerFields DEF Is
  <2>2. CASE Live(x)
    <3>1. PICK f \in {proc[p].form, Nothing} :
            proc' = [proc EXCEPT ![p].at = "write", ![p].row = part[x], ![p].form = f]
      BY <1>3, <2>2
    <3> DEFINE v == proc[p]
               w == [v EXCEPT !.at = "write", !.row = part[x], !.form = f]
    <3>2. To(p, w) /\ Timed
      BY <1>3, <3>1 DEF To, Timed
    <3>3. f \in Form /\ "write" \in Steps /\ part[x].life = "live"
      BY <1>0, <2>1, <2>2, <3>1 DEF Steps, Live
    <3>4. /\ w \in Handler /\ Alike(v, w) /\ w.base = v.base /\ w.at = "write"
          /\ w.row = part[x] /\ w.form = f
      <4> DEFINE v1 == [v EXCEPT !.at = "write"]
                 v2 == [v1 EXCEPT !.row = part[x]]
      <4>1. v1 \in Handler /\ Alike(v, v1) /\ v1.at = "write" /\ v1.base = v.base
        BY <2>1, <3>3, NextStep DEF Alike
      <4> HIDE DEF v1
      <4>2. /\ v2 \in Handler /\ Alike(v1, v2) /\ v2.at = "write" /\ v2.base = v1.base
            /\ v2.row = part[x]
        BY <1>0, <4>1, Rewritten
      <4>3. w = [v2 EXCEPT !.form = f]
        BY DEF v1
      <4> HIDE DEF v2, w, v
      <4> QED
        BY <3>3, <4>1, <4>2, <4>3, Rewritten DEF Alike
    <3> HIDE DEF w
    <3>5. WorksOn(w)
      BY <1>0, <2>1, <3>3, <3>4, Kinds3 DEF WorksOn, Alike
    <3>6. ReadsPart(p, w)
      BY <1>3, <2>1, <3>1, <3>2, <3>4, <3>5 DEF ReadsPart, Lawful, Alike
    <3> QED
      BY <3>2, <3>4, <3>6 DEF ClerkStep, PartStep
  <2>3. CASE ~Live(x)
    BY <1>3, <2>1, <2>3 DEF Gives, Ends, To, Timed, ClerkStep, PartStep
  <2> QED
    BY <2>2, <2>3
<1> QED
    BY <1>1, <1>2, <1>3 DEF Edits

\* An option whose row cannot be read.
LEMMA UnreadStep ==
    ASSUME Basics, NEW p \in Clerks, NEW k \in Kinds, Unread(p, k)
    PROVE  ClerkStep(p)
<1> DEFINE v == proc[p]
           row == [life |-> "live", image |-> Nothing]
           w == [v EXCEPT !.at = "write", !.row = row]
<1>1. /\ v # Nothing /\ v.op = k /\ v.at = "form" /\ v \in Handler /\ WorksOn(v)
      /\ part[v.on].life # "none"
    BY UnderWay DEF Unread, Is
<1>2. To(p, w) /\ Timed /\ Rests
    BY DEF Unread, To, Timed, Classes
<1>3. row \in Part /\ row.life = "live" /\ row.image = Nothing /\ "write" \in Steps
    BY DEF Part, Life, Steps
<1> HIDE DEF row
<1>4. /\ w \in Handler /\ Alike(v, w) /\ w.base = v.base /\ w.at = "write" /\ w.row = row
      /\ w.form = v.form
  <2> DEFINE v1 == [v EXCEPT !.at = "write"]
  <2>1. /\ v1 \in Handler /\ Alike(v, v1) /\ v1.at = "write" /\ v1.base = v.base
        /\ v1.form = v.form
    BY <1>1, <1>3, NextStep DEF Alike
  <2>2. w = [v1 EXCEPT !.row = row]
    OBVIOUS
  <2> HIDE DEF v1, w, v
  <2> QED
    BY <1>3, <2>1, <2>2, Rewritten DEF Alike
<1> HIDE DEF w
<1>5. WorksOn(w)
    BY <1>1, <1>3, <1>4, Kinds3 DEF WorksOn, Alike
<1>6. ReadsPart(p, w)
    BY <1>1, <1>2, <1>3, <1>4, <1>5 DEF ReadsPart, Lawful, Alike
<1> QED
    BY <1>2, <1>4, <1>6 DEF ClerkStep, PartStep

\* A part is to be deleted.
LEMMA DiscardStep ==
    ASSUME Basics, NEW p \in Clerks, NEW k \in Kinds, NEW x \in Parts, Discards(p, k, x)
    PROVE  ClerkStep(p)
<1> DEFINE images == ImagesOf(k, x) \ {Nothing}
           w == [Work(k, "erase", x) EXCEPT !.images = images]
<1>1. /\ To(p, w) /\ proc[p] = Nothing /\ Rests /\ Timed /\ Live(x) /\ Kind[x] = k
    BY DEF Discards, Begin, To, Timed, Classes
<1>2. images \in SUBSET Picture
  <2>1. Below(x) \subseteq Parts
    BY DEF Below, Inside
  <2>2. ImagesOf(k, x) \subseteq Picture
    BY <2>1, RowsTyped DEF ImagesOf
  <2> QED
    BY <2>2
<1> HIDE DEF images
<1>3. w \in Handler /\ w.op = k /\ w.at = "erase" /\ w.on = x /\ w.images = images
    BY <1>2 DEF Work, Handler, Picture, Form, Steps
<1> HIDE DEF w
<1>4. StartsErase(p, w)
    BY <1>1, <1>3, PartHandler DEF StartsErase, images
<1> QED
    BY <1>1, <1>3, <1>4 DEF ClerkStep, PartStep

\* A new part is inserted.
LEMMA InsertStep ==
    ASSUME Basics, NEW p \in Clerks, NEW k \in Kinds, Inserts(p, k)
    PROVE  ClerkStep(p)
<1> DEFINE v == proc[p]
           x == v.on
           key == SanitizeStorageKey(v.form)
<1>1. /\ v # Nothing /\ v.op = k /\ v.at = "form" /\ v \in Handler /\ WorksOn(v)
      /\ v.form \in Form /\ key \in Picture
    BY UnderWay, HandlerFields, KeyTyped DEF Inserts, Is
<1>2. Timed /\ part[x].life = "none" /\ ShopRests /\ UNCHANGED <<store, muddled, cacheVars>>
    BY DEF Inserts, Timed
<1>3. part' = IF Exists(Parent[x]) THEN [part EXCEPT ![x] = [life |-> "live", image |-> key]]
              ELSE part
    BY DEF Inserts
<1>4. CASE Ends(p)
  <2>1. InsertsPart(p, Nothing)
    BY <1>1, <1>2, <1>3, <1>4 DEF InsertsPart, Ends, To, Key
  <2> QED
    BY <1>2, <2>1 DEF ClerkStep, PartStep
<1>5. CASE Exists(Parent[x]) /\ ThenFull(p)
  <2> DEFINE w == [v EXCEPT !.base = key]
  <2>1. To(p, w)
    BY <1>5 DEF ThenFull, To
  <2> HIDE DEF key
  <2>2. /\ w \in Handler /\ Alike(v, w) /\ w.base = key /\ w.at = "form" /\ w.form = v.form
        /\ w.row = v.row
    BY <1>1 DEF Handler, Alike
  <2> HIDE DEF w
  <2>3. WorksOn(w)
    BY <1>1, <2>2, Kinds3 DEF WorksOn, Alike
  <2>4. InsertsPart(p, w)
    BY <1>1, <1>2, <1>3, <1>5, <2>1, <2>2, <2>3 DEF InsertsPart, Lawful, Key, key
  <2> QED
    BY <1>2, <2>2, <2>4 DEF ClerkStep, PartStep
<1> QED
    BY <1>4, <1>5 DEF Inserts

\* A part is written.
LEMMA SaveStep ==
    ASSUME Basics, NEW p \in Clerks, NEW k \in Kinds, Saves(p, k)
    PROVE  ClerkStep(p)
<1> DEFINE v == proc[p]
           images == OldImage(v.row, Replaced(v.row, v.form)) \ {Nothing}
           w == [v EXCEPT !.at = "sweep", !.images = images]
<1>1. /\ v # Nothing /\ v.op = k /\ v.at = "write" /\ v \in Handler /\ WorksOn(v)
    BY UnderWay DEF Saves, Is
<1>2. images \in SUBSET Picture /\ "sweep" \in Steps
    BY <1>1 DEF WorksOn, OldImage, Part, Picture, Steps
<1>3. To(p, w) /\ Timed
    BY DEF Saves, To, Timed
<1> HIDE DEF images
<1>4. /\ w \in Handler /\ w.op = v.op /\ w.on = v.on /\ w.at = "sweep" /\ w.images = images
  <2> DEFINE v1 == [v EXCEPT !.at = "sweep"]
  <2>1. v1 \in Handler /\ v1.op = v.op /\ v1.on = v.on /\ v1.at = "sweep"
    BY <1>1, <1>2, NextStep
  <2>2. w = [v1 EXCEPT !.images = images]
    OBVIOUS
  <2> HIDE DEF v1, w, v
  <2> QED
    BY <1>2, <2>1, <2>2, Rewritten
<1> HIDE DEF w
<1>5. WorksOn(w)
    BY <1>1, <1>4, Kinds3 DEF WorksOn
<1>6. SavesPart(p, w)
    BY <1>1, <1>3, <1>4, <1>5 DEF SavesPart, Saves, Lawful, Writes, images
<1> QED
    BY <1>3, <1>4, <1>6 DEF ClerkStep, PartStep

\* A part goes, and pictures go.
LEMMA EraseStep ==
    ASSUME Basics, NEW p \in Clerks, NEW k \in Kinds, Erases(p, k)
    PROVE  ClerkStep(p)
<1>1. proc[p] # Nothing /\ proc[p].op = k /\ proc[p].at = "erase" /\ Goes(p, "sweep") /\ Timed
    BY DEF Erases, Is, Timed
<1>2. PICK w \in Handler : To(p, w) /\ Same4(proc[p], w) /\ w.at = "sweep"
    BY <1>1, GoesOn DEF Steps
<1>3. WorksOn(w)
    BY <1>1, <1>2, UnderWay, Kinds3 DEF WorksOn, Same4, Alike
<1>4. ErasesPart(p, w)
    BY <1>1, <1>2, <1>3 DEF ErasesPart, Lawful, Same4, Alike
<1> QED
    BY <1>1, <1>4 DEF ClerkStep, PartStep

\* Pictures are removed from the store.
LEMMA SweepStep ==
    ASSUME Basics, NEW p \in Clerks, Sweep(p)
    PROVE  ClerkStep(p)
<1>1. /\ proc[p] # Nothing /\ proc[p].at = "sweep" /\ Remove(proc[p].images \ {Nothing})
      /\ ShopRests /\ UNCHANGED <<part, muddled, cacheVars>> /\ Timed
    BY DEF Sweep, Timed
<1>2. WorksOn(proc[p]) /\ proc[p] \in Handler
    BY <1>1, UnderWay
<1>3. proc[p].op = "delete" \/ proc[p].op \in Kinds
    BY <1>1, <1>2, HandlerFields DEF WorksOn
<1>4. CASE proc[p].op = "delete"
  <2>1. PICK w \in Handler : To(p, w) /\ Same4(proc[p], w) /\ w.at = "flush"
    BY <1>1, <1>4, GoesOn DEF Sweep, Steps
  <2>2. WorksOn(w)
    BY <1>2, <1>4, <2>1, Kinds3 DEF WorksOn, Same4, Alike, UserOps
  <2>3. SweepsStore(p, w)
    BY <1>1, <1>4, <2>1, <2>2 DEF SweepsStore, Lawful, Sweeps, Same4, Alike
  <2> QED
    BY <1>1, <2>3 DEF ClerkStep, PartStep
<1>5. CASE proc[p].op \in Kinds
  <2>1. SweepsStore(p, Nothing)
    BY <1>1, <1>5 DEF SweepsStore, Sweep, Ends, To, Sweeps, Kinds
  <2> QED
    BY <1>1, <2>1 DEF ClerkStep, PartStep
<1> QED
    BY <1>3, <1>4, <1>5

\* A picture is uploaded for a form.
LEMMA UploadStep ==
    ASSUME Basics, NEW p \in Clerks, UploadMenuImage(p)
    PROVE  ClerkStep(p)
<1> DEFINE v == proc[p]
<1>1. PICK i \in Images : /\ store[i] = "unused" /\ store' = [store EXCEPT ![i] = "stored"]
                          /\ proc' = [proc EXCEPT ![p].form = i]
    BY DEF UploadMenuImage
<1>2. /\ v # Nothing /\ v.at = "form" /\ ShopRests /\ UNCHANGED <<part, muddled, cacheVars>>
      /\ Timed /\ v \in Handler /\ WorksOn(v)
    BY UnderWay DEF UploadMenuImage, Timed, Classes
<1> DEFINE w == [v EXCEPT !.form = i]
<1>3. To(p, w)
    BY <1>1 DEF To
<1>4. /\ w \in Handler /\ Alike(v, w) /\ w.row = v.row /\ w.base = v.base /\ w.at = v.at
      /\ w.form = i /\ w.list = v.list
    BY <1>2 DEF Handler, Alike, Form, Picture
<1> HIDE DEF w
<1>5. WorksOn(w)
    BY <1>2, <1>4 DEF WorksOn, Alike
<1>6. Uploads(p, w, i)
    BY <1>1, <1>2, <1>3, <1>4, <1>5 DEF Uploads, Lawful
<1> QED
    BY <1>2, <1>4, <1>6 DEF ClerkStep, PartStep

-----------------------------------------------------------------------------

\* The next-state relation, told that way.
LEMMA FormsSteps ==
    ASSUME Basics, NEW p \in Clerks, NEW x \in scene.parts, Forms(p, x)
    PROVE  ClerkStep(p)
<1>1. x \in Parts
    BY DEF Basics, SceneOK
<1>2. CASE \E k \in Kinds : Drafts(p, k, x)
    BY <1>1, <1>2, DraftStep
<1>3. CASE \E k \in Kinds : Edits(p, k, x) \/ ToggleMenuAvailability(p, x)
    BY <1>1, <1>3, EditStep
<1>4. CASE \E k \in Kinds : Discards(p, k, x)
    BY <1>1, <1>4, DiscardStep
<1>5. CASE \E k \in Kinds : Unread(p, k)
    BY <1>5, UnreadStep
<1>6. /\ {"menu", "category", "variantGroup", "variantOption"} \subseteq Kinds
      /\ {"toppingGroup", "toppingOption", "addonMaster", "addonOption"} \subseteq Kinds
    BY DEF Kinds
<1>7. CASE \/ CreateMenu(p, x) \/ CreateCategory(p, x) \/ CreateVariantGroup(p, x)
           \/ CreateVariantOption(p, x) \/ CreateToppingGroup(p, x)
           \/ CreateToppingOption(p, x) \/ CreateAddonMaster(p, x) \/ CreateAddonOption(p, x)
    BY <1>2, <1>6, <1>7
    DEF CreateMenu, CreateCategory, CreateVariantGroup, CreateVariantOption,
        CreateToppingGroup, CreateToppingOption, CreateAddonMaster, CreateAddonOption
<1>8. CASE \/ UpdateMenu(p, x) \/ UpdateCategory(p, x) \/ UpdateVariantGroup(p, x)
           \/ UpdateVariantOption(p, x) \/ UpdateToppingGroup(p, x)
           \/ UpdateToppingOption(p, x) \/ UpdateAddonMaster(p, x) \/ UpdateAddonOption(p, x)
    BY <1>3, <1>5, <1>6, <1>8
    DEF UpdateMenu, UpdateCategory, UpdateVariantGroup, UpdateVariantOption,
        UpdateToppingGroup, UpdateToppingOption, UpdateAddonMaster, UpdateAddonOption
<1>9. CASE \/ DeleteMenu(p, x) \/ DeleteCategory(p, x) \/ DeleteVariantGroup(p, x)
           \/ DeleteVariantOption(p, x) \/ DeleteToppingGroup(p, x)
           \/ DeleteToppingOption(p, x) \/ DeleteAddonMaster(p, x) \/ DeleteAddonOption(p, x)
    BY <1>4, <1>6, <1>9
    DEF DeleteMenu, DeleteCategory, DeleteVariantGroup, DeleteVariantOption,
        DeleteToppingGroup, DeleteToppingOption, DeleteAddonMaster, DeleteAddonOption
<1>10. CASE ToggleMenuAvailability(p, x)
    BY <1>3, <1>6, <1>10
<1> QED
    BY <1>7, <1>8, <1>9, <1>10 DEF Forms

\* The same of what the service does for them.
LEMMA RowsSteps ==
    ASSUME Basics, NEW p \in Clerks, Rows(p)
    PROVE  ClerkStep(p)
<1>1. CASE \E k \in Kinds : Inserts(p, k)
    BY <1>1, InsertStep
<1>2. CASE \E k \in Kinds : Saves(p, k)
    BY <1>2, SaveStep
<1>3. CASE \E k \in Kinds : Erases(p, k)
    BY <1>3, EraseStep
<1>4. /\ {"menu", "category", "variantGroup", "variantOption"} \subseteq Kinds
      /\ {"toppingGroup", "toppingOption", "addonMaster", "addonOption"} \subseteq Kinds
    BY DEF Kinds
<1>5. CASE \/ InsertMenu(p) \/ InsertCategory(p) \/ InsertVariantGroup(p)
           \/ InsertVariantOption(p) \/ InsertToppingGroup(p) \/ InsertToppingOption(p)
           \/ InsertAddonMaster(p) \/ InsertAddonOption(p)
    BY <1>1, <1>4, <1>5
    DEF InsertMenu, InsertCategory, InsertVariantGroup, InsertVariantOption,
        InsertToppingGroup, InsertToppingOption, InsertAddonMaster, InsertAddonOption
<1>6. CASE \/ SaveMenu(p) \/ SaveCategory(p) \/ SaveVariantGroup(p)
           \/ SaveVariantOption(p) \/ SaveToppingGroup(p) \/ SaveToppingOption(p)
           \/ SaveAddonMaster(p) \/ SaveAddonOption(p)
    BY <1>2, <1>4, <1>6
    DEF SaveMenu, SaveCategory, SaveVariantGroup, SaveVariantOption,
        SaveToppingGroup, SaveToppingOption, SaveAddonMaster, SaveAddonOption
<1>7. CASE \/ EraseMenu(p) \/ EraseCategory(p) \/ EraseVariantGroup(p)
           \/ EraseVariantOption(p) \/ EraseToppingGroup(p) \/ EraseToppingOption(p)
           \/ EraseAddonMaster(p) \/ EraseAddonOption(p)
    BY <1>3, <1>4, <1>7
    DEF EraseMenu, EraseCategory, EraseVariantGroup, EraseVariantOption,
        EraseToppingGroup, EraseToppingOption, EraseAddonMaster, EraseAddonOption
<1> QED
    BY <1>5, <1>6, <1>7 DEF Rows

\* A step is a review's, a clerk's, or the end of the minute.
LEMMA NextCases ==
    ASSUME Basics, Next
    PROVE  \/ \E p \in Reviewers : Reviewing(p)
           \/ \E p \in Clerks : ClerkStep(p)
           \/ MinutePasses
<1>1. ASSUME NEW p \in Clerks, OfUsers(p) PROVE ClerkStep(p)
  <2>1. CASE \E u \in Users : UpdateUser(p, u) \/ \E s \in Shops : AdminCreate(p, s, u)
                                                    \/ CreateProfile(p, s, u)
    <3>1. PICK u \in Users : UpdateUser(p, u) \/ \E s \in Shops : AdminCreate(p, s, u)
      BY <2>1 DEF CreateProfile
    <3>2. CASE \E s \in Shops : AdminCreate(p, s, u)
      BY <3>2, StartUserStep
    <3>3. CASE UpdateUser(p, u)
      BY <3>3, UpdateUserStep
    <3> QED
      BY <3>1, <3>2, <3>3
  <2> QED
    BY <1>1, <2>1, FindUserStep, WriteUserStep, FailUserStep DEF OfUsers
<1>2. ASSUME NEW p \in Clerks, OfShops(p) PROVE ClerkStep(p)
  <2>1. CASE \E s \in Shops : \/ AdminUpdate(p, s) \/ UpdateProfile(p, s) \/ AdminDelete(p, s)
                              \/ \E open \in BOOLEAN : UpdateStatus(p, s, open)
    BY <2>1, ReadShopSteps, ProfileStep, StartDeleteStep
  <2>2. CASE ToggleOpenStatus(p) \/ ToggleAutoConfirm(p)
    <3>1. Again(p, "limit", "open") \/ Again(p, "open", "auto")
            => ClerkStep(p)
      BY RereadShopStep
    <3> QED
      BY <2>2, <3>1, SaveShopSteps DEF ToggleOpenStatus, ToggleAutoConfirm
  <2> QED
    BY <1>2, <2>1, <2>2, SaveShopSteps, OpenCloseStep DEF OfShops
<1>3. ASSUME NEW p \in Clerks, OfParts(p) PROVE ClerkStep(p)
    BY <1>3, FormsSteps, RowsSteps, UploadStep, SweepStep DEF OfParts
<1> QED
    BY <1>1, <1>2, <1>3, ListSteps DEF Next

-----------------------------------------------------------------------------
(* What every step may count on is kept.                                   *)

\* The reviews' part of it.
TxBasics == ReviewsTypeOK /\ TxTyped /\ InsertedOnce
\* The rows' part.
RowBasics ==
    /\ role \in [Users -> Roles] /\ shop \in [Shops -> Shop] /\ part \in [Parts -> Part]
    /\ store \in [Images -> {"unused", "stored", "removed"}]
    /\ nearby \in {NoCache} \cup Cached
    /\ muddled \subseteq Parts /\ tangled \subseteq Users /\ old \in BOOLEAN

\* What every step may count on, in parts.
LEMMA BasicsParts ==
    /\ Basics <=> TxBasics /\ RowBasics /\ HandlersOK /\ SceneOK /\ Owned
    /\ Basics' <=> TxBasics' /\ RowBasics' /\ HandlersOK' /\ SceneOK' /\ Owned'
    BY DEF Basics, TypeOK, TxBasics, RowBasics, SceneOK, Cached

\* One handler changes.
LEMMA ToTyped ==
    ASSUME HandlersOK, NEW p \in Clerks, NEW w, To(p, w), w = Nothing \/ Lawful(w)
    PROVE  HandlersOK' /\ proc'[p] = w /\ \A q \in Clerks : q # p => proc'[q] = proc[q]
<1>1. proc \in [Clerks -> Handler \cup {Nothing}]
    BY DEF HandlersOK
<1>2. /\ proc'[p] = w /\ \A q \in Clerks : q # p => proc'[q] = proc[q]
      /\ proc' \in [Clerks -> Handler \cup {Nothing}]
    BY <1>1 DEF To, Lawful
<1> QED
    BY <1>2 DEF HandlersOK, Lawful

\* What may still happen becomes less.
LEMMA TimedTyped ==
    ASSUME SceneOK, Timed
    PROVE  SceneOK'
<1>1. CASE UNCHANGED scene
    BY <1>1 DEF SceneOK
<1>2. ASSUME NEW class \in Classes, Takes(class) PROVE SceneOK'
  <2>1. class # "parts" /\ class \in DOMAIN scene
    BY DEF Classes, SceneOK
  <2>2. /\ DOMAIN scene' = DOMAIN scene /\ scene'.parts = scene.parts
        /\ \A c \in Classes : scene'[c] = IF c = class THEN scene[c] - 1 ELSE scene[c]
    BY <1>2, <2>1 DEF Takes, SceneOK
  <2>3. scene[class] - 1 \in Nat
    BY <1>2 DEF Takes, SceneOK
  <2> QED
    BY <2>2, <2>3 DEF SceneOK
<1> QED
    BY <1>1, <1>2 DEF Timed

\* Owners stay.
LEMMA OwnedStep ==
    ASSUME HandlersOK, Owned, NEW p \in Clerks, NEW w, To(p, w), w = Nothing \/ Lawful(w),
           \A s \in Shops : /\ shop[s].life # "none" =>
                                  shop'[s].life # "none" /\ shop'[s].owner = shop[s].owner
                            /\ shop'[s].life # "none" => shop'[s].owner \in Users,
           w # Nothing => OwnerKept(w)'
    PROVE  Owned'
<1>1. ASSUME NEW q \in Clerks
      PROVE  (proc[q] # Nothing => OwnerKept(proc[q]))'
  <2>1. CASE q = p
    BY <2>1, ToTyped DEF OwnerKept
  <2>2. CASE q # p
    <3>1. /\ proc'[q] = proc[q]
          /\ proc[q] # Nothing => WorksOn(proc[q]) /\ OwnerKept(proc[q])
      BY <2>2, ToTyped DEF HandlersOK, Owned
    <3> DEFINE v == proc[q]
    <3>2. v # Nothing /\ (v.op \in ShopOps \/ v.op = "delete") => v.on \in Shops
      BY <3>1 DEF WorksOn
    <3> QED
      BY <3>1, <3>2 DEF OwnerKept
  <2> QED
    BY <2>1, <2>2
<1> QED
    BY <1>1 DEF Owned

\* A step that only changes a handler.
LEMMA RestsBasics ==
    ASSUME Basics, NEW p \in Clerks, NEW w, To(p, w), w = Nothing \/ Lawful(w), Rests, Timed,
           w # Nothing => OwnerKept(w)
    PROVE  Basics'
<1>1. TxBasics' /\ RowBasics' /\ UNCHANGED shop
    BY BasicsParts DEF Rests, TxBasics, RowBasics, reviewVars, shopVars, partVars, cacheVars,
                       ReviewsTypeOK, TxTyped, InsertedOnce, Inserted, Past
<1>2. HandlersOK' /\ SceneOK'
    BY BasicsParts, ToTyped, TimedTyped
<1>3. Owned'
  <2>1. w # Nothing => OwnerKept(w)'
    BY <1>1 DEF OwnerKept
  <2>2. \A s \in Shops : shop[s].life # "none" => shop[s].owner \in Users
    BY BasicsParts DEF Owned
  <2> QED
    BY <1>1, <2>1, <2>2, BasicsParts, OwnedStep
<1> QED
    BY <1>1, <1>2, <1>3, BasicsParts

\* A step that leaves the reviews and the shops alone.
LEMMA ShopRestsBasics ==
    ASSUME Basics, NEW p \in Clerks, NEW w, To(p, w), w = Nothing \/ Lawful(w), ShopRests,
           Timed, RowBasics', w # Nothing => OwnerKept(w)
    PROVE  Basics'
<1>1. TxBasics' /\ UNCHANGED shop
    BY BasicsParts DEF ShopRests, TxBasics, reviewVars, shopVars,
                       ReviewsTypeOK, TxTyped, InsertedOnce, Inserted, Past
<1>2. HandlersOK' /\ SceneOK'
    BY BasicsParts, ToTyped, TimedTyped
<1>3. Owned'
  <2>1. w # Nothing => OwnerKept(w)'
    BY <1>1 DEF OwnerKept
  <2>2. \A s \in Shops : shop[s].life # "none" => shop[s].owner \in Users
    BY BasicsParts DEF Owned
  <2> QED
    BY <1>1, <2>1, <2>2, BasicsParts, OwnedStep
<1> QED
    BY <1>1, <1>2, <1>3, BasicsParts

\* A handler that goes on knows the owner as before.
LEMMA KeptOwner ==
    ASSUME Basics, NEW p \in Clerks, proc[p] # Nothing, NEW w \in Handler, Alike(proc[p], w),
           w.op \in ShopOps => w.at # "write"
    PROVE  OwnerKept(w)
    BY UnderWay DEF OwnerKept, Alike

\* Handlers of users.
LEMMA UserStepBasics ==
    ASSUME Basics, NEW p \in Clerks, UserStep(p), Timed
    PROVE  Basics'
<1>1. ASSUME NEW w \in Handler, StartsUser(p, w) PROVE Basics'
  <2>1. OwnerKept(w)
    BY <1>1 DEF StartsUser, OwnerKept, ShopOps
  <2> QED
    BY <1>1, <2>1, RestsBasics DEF StartsUser
<1>2. ASSUME NEW w \in Handler, FindsUser(p, w) PROVE Basics'
  <2>1. OwnerKept(w)
    BY <1>2, KeptOwner, Kinds3 DEF FindsUser
  <2> QED
    BY <1>2, <2>1, RestsBasics DEF FindsUser
<1>3. ASSUME NEW w \in Handler \cup {Nothing}, NEW r \in Roles, WritesUser(p, w, r)
      PROVE  Basics'
  <2>1. /\ w = Nothing \/ Lawful(w)
        /\ w # Nothing => OwnerKept(w)
    BY <1>3, KeptOwner, Kinds3 DEF WritesUser, Same4, Alike
  <2>2. proc[p].user \in Users /\ proc[p].row \in UserCopy
    BY <1>3, UnderWay DEF WritesUser, WorksOn
  <2>3. proc[p].row.score \in Number
    BY <2>2 DEF UserCopy
  <2>4. UNCHANGED <<review, rating, tx, shop, part, store, muddled, nearby, old>>
    BY <1>3 DEF WritesUser, WriteUser, partVars, cacheVars
  <2>5. TxBasics'
    <3>1. score' \in [Users -> Number] /\ crossed' \subseteq Users \cup Shops
      BY <1>3, <2>2, <2>3, BasicsParts
      DEF WritesUser, WriteUser, TxBasics, ReviewsTypeOK
    <3> QED
      BY <3>1, <2>4, BasicsParts
      DEF TxBasics, ReviewsTypeOK, TxTyped, InsertedOnce, Inserted, Past
  <2>6. RowBasics'
    <3>1. role' \in [Users -> Roles] /\ tangled' \subseteq Users
      BY <1>3, <2>2, BasicsParts DEF WritesUser, WriteUser, RowBasics
    <3> QED
      BY <3>1, <2>4, BasicsParts DEF RowBasics
  <2>7. HandlersOK' /\ SceneOK'
    BY <1>3, <2>1, BasicsParts, ToTyped, TimedTyped DEF WritesUser
  <2>8. Owned'
    <3>1. w # Nothing => OwnerKept(w)'
      BY <2>1, <2>4 DEF OwnerKept
    <3>2. \A s \in Shops : shop[s].life # "none" => shop[s].owner \in Users
      BY BasicsParts DEF Owned
    <3> QED
      BY <1>3, <2>1, <2>4, <3>1, <3>2, BasicsParts, OwnedStep DEF WritesUser
  <2> QED
    BY <2>5, <2>6, <2>7, <2>8, BasicsParts
<1>4. ASSUME NEW w \in Handler, FailsUser(p, w) PROVE Basics'
  <2>1. OwnerKept(w)
    BY <1>4, KeptOwner, Kinds3 DEF FailsUser, Same4, ShopOps
  <2>2. w.user \in Users
    BY <1>4 DEF FailsUser, Lawful, WorksOn, UserOps
  <2>3. UNCHANGED <<reviewVars, role, shop, part, store, muddled, nearby, old>>
    BY <1>4 DEF FailsUser, partVars, cacheVars
  <2>4. TxBasics' /\ RowBasics'
    BY <1>4, <2>2, <2>3, BasicsParts
    DEF FailsUser, TxBasics, RowBasics, reviewVars, ReviewsTypeOK, TxTyped, InsertedOnce,
        Inserted, Past
  <2>5. HandlersOK' /\ SceneOK'
    BY <1>4, BasicsParts, ToTyped, TimedTyped DEF FailsUser
  <2>6. Owned'
    <3>1. OwnerKept(w)'
      BY <2>1, <2>3 DEF OwnerKept
    <3>2. \A s \in Shops : shop[s].life # "none" => shop[s].owner \in Users
      BY BasicsParts DEF Owned
    <3> QED
      BY <1>4, <2>3, <3>1, <3>2, BasicsParts, OwnedStep DEF FailsUser
  <2> QED
    BY <2>4, <2>5, <2>6, BasicsParts
<1> QED
    BY <1>1, <1>2, <1>3, <1>4 DEF UserStep

\* Shops and their handlers.
LEMMA ShopStepBasics ==
    ASSUME Basics, NEW p \in Clerks, ShopStep(p), Timed
    PROVE  Basics'
<1>1. ASSUME NEW w \in Handler, OpensShop(p, w) PROVE Basics'
  <2>1. OwnerKept(w) /\ w.on \in Shops /\ w.user \in Users
    BY <1>1, Kinds3 DEF OpensShop, OwnerKept, Lawful, WorksOn, UserOps, ShopOps
  <2>2. UNCHANGED <<review, score, rating, tx, crossed, role, part, store, muddled, nearby, old>>
    BY <1>1 DEF OpensShop, CreateMerchant, reviewVars, partVars, cacheVars
  <2>3. proc[p].on = w.on /\ proc[p].user = w.user
    BY <1>1 DEF OpensShop, Same4, Alike
  <2>4. tangled' \subseteq Users
    BY <1>1, <2>1, <2>3, BasicsParts DEF OpensShop, CreateMerchant, RowBasics
  <2> DEFINE new == [life |-> "live", owner |-> w.user, open |-> TRUE, auto |-> FALSE,
                     image |-> Nothing]
  <2>5. new \in Shop /\ new.owner = w.user
    BY <2>1 DEF Shop, Life
  <2>6. \/ UNCHANGED shop
        \/ shop[w.on].life = "none" /\ shop' = [shop EXCEPT ![w.on] = new]
    BY <1>1, <2>3 DEF OpensShop, CreateMerchant
  <2> HIDE DEF new
  <2>7. shop' \in [Shops -> Shop]
    BY <2>5, <2>6, BasicsParts DEF RowBasics
  <2>8. TxBasics' /\ RowBasics'
    BY <2>2, <2>4, <2>7, BasicsParts
    DEF TxBasics, RowBasics, ReviewsTypeOK, TxTyped, InsertedOnce, Inserted, Past
  <2>9. HandlersOK' /\ SceneOK'
    BY <1>1, BasicsParts, ToTyped, TimedTyped DEF OpensShop
  <2>10. Owned'
    <3>1. OwnerKept(w)'
      BY <1>1 DEF OwnerKept, OpensShop, ShopOps
    <3>2. \A s \in Shops : /\ shop[s].life # "none" =>
                                 shop'[s].life # "none" /\ shop'[s].owner = shop[s].owner
                           /\ shop'[s].life # "none" => shop'[s].owner \in Users
      BY <2>1, <2>5, <2>6, BasicsParts DEF Owned, RowBasics
    <3> QED
      BY <1>1, <3>1, <3>2, BasicsParts, OwnedStep DEF OpensShop
  <2> QED
    BY <2>8, <2>9, <2>10, BasicsParts
<1>2. ASSUME NEW w \in Handler, StartsDelete(p, w) PROVE Basics'
  <2>1. OwnerKept(w)
    BY <1>2, Kinds3 DEF StartsDelete, OwnerKept, Lawful, WorksOn, Live, UserOps
  <2> QED
    BY <1>2, <2>1, RestsBasics DEF StartsDelete
<1>3. ASSUME NEW w \in Handler, ClosesShop(p, w) PROVE Basics'
  <2>1. /\ OwnerKept(w) /\ w.on \in Shops /\ w.user \in Users /\ proc[p].on = w.on
        /\ proc[p].user = w.user /\ shop[w.on].life # "none" /\ w.user = shop[w.on].owner
    <3>1. /\ proc[p] # Nothing /\ w.op = "delete" /\ proc[p].op = w.op /\ proc[p].on = w.on
          /\ proc[p].user = w.user /\ WorksOn(w) /\ w.at = "sweep"
      BY <1>3 DEF ClosesShop, Same4, Alike, Lawful
    <3>2. w.on \in Shops /\ w.user \in Users
      BY <3>1 DEF WorksOn, UserOps
    <3>3. shop[w.on].life # "none" /\ w.user = shop[w.on].owner
      BY <3>1, UnderWay DEF OwnerKept
    <3> QED
      BY <3>1, <3>2, <3>3 DEF OwnerKept, ShopOps
  <2>2. UNCHANGED <<review, score, rating, tx, crossed, role, part, store, muddled, nearby, old>>
    BY <1>3 DEF ClosesShop, DeleteMerchant, reviewVars, partVars, cacheVars
  <2>3. shop' = [shop EXCEPT ![w.on].life = "gone"] /\ tangled' \subseteq Users
    BY <1>3, <2>1, BasicsParts DEF ClosesShop, DeleteMerchant, RowBasics
  <2>4. /\ shop'[w.on] \in Shop /\ shop'[w.on].life = "gone"
        /\ shop'[w.on].owner = shop[w.on].owner
        /\ \A s \in Shops : s # w.on => shop'[s] = shop[s]
        /\ shop' \in [Shops -> Shop]
    <3>1. shop[w.on] \in Shop /\ shop \in [Shops -> Shop]
      BY <2>1, BasicsParts DEF RowBasics
    <3>2. /\ [shop[w.on] EXCEPT !.life = "gone"] \in Shop
          /\ [shop[w.on] EXCEPT !.life = "gone"].life = "gone"
          /\ [shop[w.on] EXCEPT !.life = "gone"].owner = shop[w.on].owner
      BY <3>1 DEF Shop, Life
    <3>3. shop' = [shop EXCEPT ![w.on] = [shop[w.on] EXCEPT !.life = "gone"]]
      BY <2>3
    <3> QED
      BY <2>1, <3>1, <3>2, <3>3
  <2>5. TxBasics' /\ RowBasics'
    BY <2>2, <2>3, <2>4, BasicsParts
    DEF TxBasics, RowBasics, ReviewsTypeOK, TxTyped, InsertedOnce, Inserted, Past
  <2>6. HandlersOK' /\ SceneOK'
    BY <1>3, BasicsParts, ToTyped, TimedTyped DEF ClosesShop
  <2>7. Owned'
    <3>1. OwnerKept(w)'
      BY <1>3, <2>1, <2>4 DEF OwnerKept, ClosesShop, ShopOps
    <3>2. \A s \in Shops : /\ shop[s].life # "none" =>
                                 shop'[s].life # "none" /\ shop'[s].owner = shop[s].owner
                           /\ shop'[s].life # "none" => shop'[s].owner \in Users
      BY <2>1, <2>4, BasicsParts DEF Owned
    <3> QED
      BY <1>3, <3>1, <3>2, BasicsParts, OwnedStep DEF ClosesShop
  <2> QED
    BY <2>5, <2>6, <2>7, BasicsParts
<1>4. ASSUME NEW w \in Handler, ReadsShop(p, w) PROVE Basics'
  <2>1. OwnerKept(w)
    BY <1>4 DEF ReadsShop, OwnerKept, Live, WritesShop, Lawful, WorksOn, ShopOps
  <2> QED
    BY <1>4, <2>1, RestsBasics DEF ReadsShop
<1>5. ASSUME NEW w \in Handler, StartsProfile(p, w) PROVE Basics'
  <2>1. OwnerKept(w)
    BY <1>5 DEF StartsProfile, OwnerKept
  <2> QED
    BY <1>5, <2>1, RestsBasics DEF StartsProfile
<1>6. ASSUME NEW w \in Handler, NEW new \in Shop, SavesShop(p, w, new) PROVE Basics'
  <2>1. /\ OwnerKept(w) /\ w.on \in Shops /\ proc[p].on = w.on /\ w.op \in ShopOps
        /\ proc[p].row = w.row /\ shop[w.on].life # "none" /\ w.row \in ShopCopy
        /\ w.row.shop.owner = shop[w.on].owner
    BY <1>6, UnderWay, Kinds3
    DEF SavesShop, OwnerKept, Lawful, WorksOn, UserOps, Same4, Alike, WritesShop
  <2>2. UNCHANGED <<review, score, tx, role, tangled, part, store, muddled, nearby, old>>
    BY <1>6 DEF SavesShop, SaveShop, partVars, cacheVars
  <2>3. /\ \/ UNCHANGED shop
           \/ shop' = [shop EXCEPT ![w.on] = new]
        /\ rating' \in [Shops -> Number] /\ crossed' \subseteq Users \cup Shops
    <3>1. w.row.rating \in Number
      BY <2>1 DEF ShopCopy
    <3> QED
      BY <1>6, <2>1, <3>1, BasicsParts DEF SavesShop, SaveShop, TxBasics, ReviewsTypeOK
  <2>4. new.life = "live" /\ new.owner = shop[w.on].owner
    BY <1>6, <2>1 DEF SavesShop
  <2>5. shop' \in [Shops -> Shop]
    BY <2>1, <2>3, BasicsParts DEF RowBasics
  <2>6. TxBasics' /\ RowBasics'
    BY <2>2, <2>3, <2>5, BasicsParts
    DEF TxBasics, RowBasics, ReviewsTypeOK, TxTyped, InsertedOnce, Inserted, Past
  <2>7. HandlersOK' /\ SceneOK'
    BY <1>6, BasicsParts, ToTyped, TimedTyped DEF SavesShop
  <2>8. Owned'
    <3>1. OwnerKept(w)'
      BY <1>6, <2>1, Kinds3 DEF OwnerKept, SavesShop, UserOps
    <3>2. \A s \in Shops : /\ shop[s].life # "none" =>
                                 shop'[s].life # "none" /\ shop'[s].owner = shop[s].owner
                           /\ shop'[s].life # "none" => shop'[s].owner \in Users
      BY <2>1, <2>3, <2>4, BasicsParts DEF Owned, RowBasics
    <3> QED
      BY <1>6, <3>1, <3>2, BasicsParts, OwnedStep DEF SavesShop
  <2> QED
    BY <2>6, <2>7, <2>8, BasicsParts
<1>7. CASE Gives(p)
    BY <1>7, RestsBasics DEF Gives
<1> QED
    BY <1>1, <1>2, <1>3, <1>4, <1>5, <1>6, <1>7 DEF ShopStep

\* The cached list and its handlers.
LEMMA ListStepBasics ==
    ASSUME Basics, NEW p \in Clerks, ListStep(p), Timed
    PROVE  Basics'
<1>1. CASE Flushes(p)
  <2>1. RowBasics' /\ ShopRests
    BY <1>1, BasicsParts
    DEF Flushes, Flush, InvalidateCache, ShopRests, shopVars, partVars, RowBasics
  <2> QED
    BY <1>1, <2>1, ShopRestsBasics DEF Flushes
<1>2. CASE FillsList(p)
  <2>1. RowBasics' /\ ShopRests
    BY <1>2, BasicsParts DEF FillsList, ShopRests, shopVars, partVars, RowBasics
  <2> QED
    BY <1>2, <2>1, ShopRestsBasics DEF FillsList
<1>3. CASE BreaksOff(p)
  <2>1. /\ UNCHANGED <<reviewVars, role, shop, part, store, muddled, nearby>>
        /\ tangled' \subseteq Users /\ old' \in BOOLEAN
    <3>1. proc[p] # Nothing /\ WorksOn(proc[p])
      BY <1>3, UnderWay DEF BreaksOff
    <3>2. proc[p].op \in {"create", "delete"} => proc[p].user \in Users
      BY <3>1 DEF WorksOn, UserOps
    <3> QED
      BY <1>3, <3>2, BasicsParts DEF BreaksOff, Breaks, partVars, RowBasics
  <2>2. TxBasics' /\ RowBasics'
    BY <2>1, BasicsParts
    DEF TxBasics, RowBasics, reviewVars, ReviewsTypeOK, TxTyped, InsertedOnce, Inserted, Past
  <2>3. HandlersOK' /\ SceneOK'
    BY <1>3, BasicsParts, ToTyped, TimedTyped DEF BreaksOff
  <2>4. Owned'
    <3>1. \A s \in Shops : shop[s].life # "none" => shop[s].owner \in Users
      BY BasicsParts DEF Owned
    <3> QED
      BY <1>3, <2>1, <3>1, BasicsParts, OwnedStep DEF BreaksOff
  <2> QED
    BY <2>2, <2>3, <2>4, BasicsParts
<1>4. ASSUME NEW w \in Handler, StartsList(p, w) PROVE Basics'
  <2>1. OwnerKept(w)
    BY <1>4, Kinds3 DEF StartsList, OwnerKept
  <2> QED
    BY <1>4, <2>1, RestsBasics DEF StartsList
<1> QED
    BY <1>1, <1>2, <1>3, <1>4 DEF ListStep

\* Parts and their handlers.
LEMMA PartStepBasics ==
    ASSUME Basics, NEW p \in Clerks, PartStep(p), Timed
    PROVE  Basics'
<1>0. ASSUME NEW w, w.op \in Kinds PROVE OwnerKept(w)
  <2>1. w.op \notin ShopOps /\ w.op # "delete"
    BY <1>0, Kinds3 DEF UserOps
  <2> QED
    BY <2>1 DEF OwnerKept
<1>1. ASSUME NEW w \in Handler,
             StartsDraft(p, w) \/ StartsEdit(p, w) \/ ReadsPart(p, w) \/ StartsErase(p, w)
      PROVE  Basics'
    BY <1>0, <1>1, RestsBasics DEF StartsDraft, StartsEdit, ReadsPart, StartsErase
<1>2. ASSUME NEW w \in Handler, SavesPart(p, w) PROVE Basics'
  <2>1. /\ w.op \in Kinds /\ w.on \in Parts /\ proc[p].row \in Part /\ proc[p].form \in Form
    <3>1. Writes(proc[p]) /\ proc[p] # Nothing /\ w.op = proc[p].op /\ w.on = proc[p].on
      BY <1>2 DEF SavesPart
    <3> QED
      BY <3>1, UnderWay, HandlerFields DEF Writes, WorksOn
  <2>2. Replaced(proc[p].row, proc[p].form) \in Part
    BY <2>1, KeyTyped DEF Replaced, Part, Picture
  <2>3. part' \in [Parts -> Part] /\ muddled' \subseteq Parts
    BY <1>2, <2>1, <2>2, BasicsParts DEF SavesPart, RowBasics
  <2>4. RowBasics'
    BY <1>2, <2>3, BasicsParts DEF SavesPart, ShopRests, shopVars, cacheVars, RowBasics
  <2> QED
    BY <1>0, <1>2, <2>1, <2>4, ShopRestsBasics DEF SavesPart
<1>3. ASSUME NEW w \in Handler, ErasesPart(p, w) PROVE Basics'
  <2>1. proc[p].on = w.on /\ w.on \in Parts
    BY <1>3 DEF ErasesPart, Same4, Alike, Lawful, WorksOn
  <2>2. part' \in [Parts -> Part]
    <3>1. CASE part' = [part EXCEPT ![w.on].life = "gone"]
      <4>1. [part[w.on] EXCEPT !.life = "gone"] \in Part
        BY <2>1, BasicsParts DEF RowBasics, Part, Life
      <4>2. part' = [part EXCEPT ![w.on] = [part[w.on] EXCEPT !.life = "gone"]]
        BY <3>1
      <4> QED
        BY <2>1, <4>1, <4>2, BasicsParts DEF RowBasics
    <3>2. CASE part' = [x \in Parts |-> IF x \in {proc[p].on} \cup Below(proc[p].on)
                                              /\ Exists(x)
                                        THEN [NoPart EXCEPT !.life = "erased"] ELSE part[x]]
      <4>1. [NoPart EXCEPT !.life = "erased"] \in Part
        BY DEF NoPart, Part, Life
      <4> QED
        BY <3>2, <4>1, BasicsParts DEF RowBasics
    <3> QED
      BY <1>3, <2>1, <3>1, <3>2 DEF ErasesPart, Erases
  <2>3. RowBasics' /\ ShopRests
    BY <1>3, <2>2, BasicsParts DEF ErasesPart, Erases, ShopRests, shopVars, cacheVars, RowBasics
  <2> QED
    BY <1>0, <1>3, <2>3, ShopRestsBasics DEF ErasesPart
<1>4. ASSUME NEW w \in Handler \cup {Nothing}, InsertsPart(p, w) PROVE Basics'
  <2>1. /\ proc[p] # Nothing /\ proc[p].op \in Kinds /\ proc[p].on \in Parts
        /\ Key(proc[p]) \in Picture
    BY <1>4, UnderWay, HandlerFields, KeyTyped DEF InsertsPart, WorksOn, Key
  <2>2. [life |-> "live", image |-> Key(proc[p])] \in Part
    BY <2>1 DEF Part, Life, Picture
  <2>3. part' \in [Parts -> Part]
    BY <1>4, <2>1, <2>2, BasicsParts DEF InsertsPart, RowBasics
  <2>4. RowBasics'
    BY <1>4, <2>3, BasicsParts DEF InsertsPart, ShopRests, shopVars, cacheVars, RowBasics
  <2>5. w = Nothing \/ (Lawful(w) /\ w.op \in Kinds)
    BY <1>4 DEF InsertsPart, Alike
  <2> QED
    BY <1>0, <1>4, <2>4, <2>5, ShopRestsBasics DEF InsertsPart
<1>5. ASSUME NEW w \in Handler \cup {Nothing}, SweepsStore(p, w) PROVE Basics'
  <2>1. RowBasics'
    BY <1>5, BasicsParts DEF SweepsStore, Remove, ShopRests, shopVars, cacheVars, RowBasics
  <2>2. w = Nothing \/ Lawful(w)
    BY <1>5 DEF SweepsStore
  <2>3. w # Nothing => OwnerKept(w)
    BY <1>5, KeptOwner DEF SweepsStore, Same4
  <2> QED
    BY <1>5, <2>1, <2>2, <2>3, ShopRestsBasics DEF SweepsStore
<1>6. ASSUME NEW w \in Handler, NEW i \in Images, Uploads(p, w, i) PROVE Basics'
  <2>1. RowBasics'
    BY <1>6, BasicsParts DEF Uploads, ShopRests, shopVars, cacheVars, RowBasics
  <2>2. OwnerKept(w)
    BY <1>6, KeptOwner DEF Uploads
  <2> QED
    BY <1>6, <2>1, <2>2, ShopRestsBasics DEF Uploads
<1>7. CASE Gives(p)
    BY <1>7, RestsBasics DEF Gives
<1> QED
    BY <1>1, <1>2, <1>3, <1>4, <1>5, <1>6, <1>7 DEF PartStep

\* The end of the minute.
LEMMA MinuteBasics ==
    ASSUME Basics, MinutePasses
    PROVE  Basics'
<1>1. UNCHANGED <<reviewVars, role, shop, tangled, part, store, muddled, proc, scene>>
      /\ nearby' = NoCache /\ old' = FALSE
    BY DEF MinutePasses, ShopRests, shopVars, partVars
<1>2. TxBasics' /\ RowBasics' /\ HandlersOK' /\ SceneOK'
    BY <1>1, BasicsParts
    DEF TxBasics, RowBasics, HandlersOK, SceneOK, reviewVars, ReviewsTypeOK, TxTyped,
        InsertedOnce, Inserted, Past
<1>3. Owned'
    BY <1>1, BasicsParts DEF Owned, OwnerKept
<1> QED
    BY <1>2, <1>3, BasicsParts

-----------------------------------------------------------------------------
(* Reviews.                                                                *)

TxSteps == {"insert", "average", "score", "shop", "rating", "commit"}

\* A transaction under way.
LEMMA TxFields ==
    ASSUME TxBasics, NEW p \in Reviewers, tx[p] # Nothing
    PROVE  /\ tx[p] \in Transaction /\ tx[p].review \in Review /\ tx[p].at \in TxSteps
           /\ tx[p].score \in Number /\ tx[p].rating \in Number
           /\ tx[p].late \subseteq Users \cup Shops
           /\ Subject(tx[p].review) \in Users
           /\ RatesShop(tx[p].review) => ShopOf[tx[p].review.order] \in Shops
<1>1. tx[p] \in Transaction
    BY DEF TxBasics, TxTyped
<1>2. tx[p].review \in Review
    BY <1>1 DEF Transaction
<1>3. tx[p].review.order \in Orders
    BY <1>2 DEF Review
<1> QED
    BY <1>1, <1>2, <1>3, ReviewsAssumption DEF Transaction, TxSteps, Subject, RatesShop

\* A transaction that goes on.
LEMMA TxGoesOn ==
    ASSUME TxBasics, NEW p \in Reviewers, tx[p] # Nothing, NEW s \in TxSteps, Moves(p, s)
    PROVE  /\ tx'[p] = [tx[p] EXCEPT !.at = s] /\ tx'[p] \in Transaction
           /\ tx'[p].review = tx[p].review /\ tx'[p].at = s /\ tx'[p].late = tx[p].late
           /\ tx'[p].score = tx[p].score /\ tx'[p].rating = tx[p].rating
           /\ \A q \in Reviewers \ {p} : tx'[q] = tx[q]
           /\ tx' \in [Reviewers -> Transaction \cup {Nothing}]
<1>1. tx \in [Reviewers -> Transaction \cup {Nothing}] /\ tx[p] \in Transaction
    BY TxFields DEF TxBasics, TxTyped
<1>2. tx' = [tx EXCEPT ![p] = [tx[p] EXCEPT !.at = s]]
    BY DEF Moves
<1>3. /\ [tx[p] EXCEPT !.at = s] \in Transaction
      /\ [tx[p] EXCEPT !.at = s].review = tx[p].review /\ [tx[p] EXCEPT !.at = s].at = s
      /\ [tx[p] EXCEPT !.at = s].late = tx[p].late
      /\ [tx[p] EXCEPT !.at = s].score = tx[p].score
      /\ [tx[p] EXCEPT !.at = s].rating = tx[p].rating
    BY <1>1 DEF Transaction, TxSteps
<1> QED
    BY <1>1, <1>2, <1>3

\* What a transaction sees.
LEMMA SeesTyped ==
    ASSUME TxBasics, NEW p \in Reviewers, tx[p] # Nothing
    PROVE  /\ Sees(p) \in SUBSET Review /\ IsFiniteSet(Sees(p)) /\ IsFiniteSet(review)
           /\ review \in SUBSET Review
    BY TxFields, FS_AddElement DEF TxBasics, TxTyped, ReviewsTypeOK, Sees

\* Averages only depend on the ratings of the one they are of.
LEMMA AverageLocal ==
    ASSUME NEW S, NEW T, NEW u
    PROVE  /\ OfRunner(S, u) = OfRunner(T, u) =>
                GetAverageRatingByReviewee(S, u) = GetAverageRatingByReviewee(T, u)
           /\ OfRequester(S, u) = OfRequester(T, u) =>
                GetAverageRatingByRequester(S, u) = GetAverageRatingByRequester(T, u)
           /\ OfShop(S, u) = OfShop(T, u) =>
                GetAverageRatingByMerchant(S, u) = GetAverageRatingByMerchant(T, u)
    BY DEF GetAverageRatingByReviewee, GetAverageRatingByRequester, GetAverageRatingByMerchant

\* One more review changes the ratings of those it rates, on its side.
LEMMA OneMore ==
    ASSUME NEW S, NEW r \in Review
    PROVE  /\ \A u : r.by # "requester" \/ Subject(r) # u =>
                OfRunner(S \cup {r}, u) = OfRunner(S, u)
           /\ \A u : r.by # "runner" \/ Subject(r) # u =>
                OfRequester(S \cup {r}, u) = OfRequester(S, u)
           /\ \A s \in Shops : ~RatesShop(r) \/ ShopOf[r.order] # s =>
                OfShop(S \cup {r}, s) = OfShop(S, s)
<1>1. r.by \in {"requester", "runner"}
    BY DEF Review
<1>2. \A s \in Shops : s # Nothing
    BY ReviewsAssumption
<1> QED
    BY <1>1, <1>2 DEF OfRunner, OfRequester, OfShop, Subject, RatesShop

\* The one who is rated has a rating.
LEMMA Counted ==
    ASSUME NEW S, NEW r \in S, r \in Review
    PROVE  /\ r.by = "requester" => OfRunner(S, Subject(r)) # {}
           /\ r.by = "runner" => OfRequester(S, Subject(r)) # {}
    BY DEF OfRunner, OfRequester, Subject, Review

-----------------------------------------------------------------------------

\* The steps of a transaction other than its commit change nothing but itself.
LEMMA QuietTx ==
    ASSUME NEW p \in Reviewers,
           \/ SubmitReview(p) \/ SubmitRunnerReview(p) \/ Rollback(p) \/ Create(p)
           \/ Average(p) \/ UpdateUserTrustScore(p) \/ AverageOfShop(p)
           \/ UpdateMerchantRating(p)
    PROVE  Keeps
    BY DEF SubmitReview, SubmitRunnerReview, Starts, Rollback, Create, Average,
           UpdateUserTrustScore, AverageOfShop, UpdateMerchantRating

\* The columns that a transaction writes are typed, if the transactions are.
LEMMA QuietTxTyped ==
    ASSUME TxBasics, Keeps, tx' \in [Reviewers -> Transaction \cup {Nothing}]
    PROVE  ReviewsTypeOK' /\ TxTyped'
<1>1. \A p \in Reviewers : tx'[p] # Nothing => tx'[p] \in Transaction
    OBVIOUS
<1>2. \A t \in Transaction :
        /\ t.review \in Review /\ t.score \in Number /\ t.rating \in Number
        /\ t.at \in TxSteps /\ t.late \subseteq Users \cup Shops
    BY DEF Transaction, TxSteps
<1> QED
    BY <1>1, <1>2 DEF TxBasics, ReviewsTypeOK, TxTyped, Keeps, TxSteps

\* What a transaction holds, once it holds it.
TxHolds(t, S) ==
    LET r == t.review IN
    /\ t.at \in {"score", "shop", "rating", "commit"} /\ Subject(r) \notin t.late
         => t.score = AverageFor(r, S)
    /\ t.at \in {"shop", "rating"} => RatesShop(r)
    /\ t.at \in {"rating", "commit"} /\ RatesShop(r) /\ ShopOf[r.order] \notin t.late
         => t.rating = GetAverageRatingByMerchant(S, ShopOf[r.order])

\* The same of all.
LEMMA NumbersHoldAll ==
    /\ NumbersHold <=> \A p \in Reviewers :
          tx[p] # Nothing => TxHolds(tx[p], review \cup {tx[p].review})
    /\ NumbersHold' <=> \A p \in Reviewers :
          tx'[p] # Nothing => TxHolds(tx'[p], review' \cup {tx'[p].review})
    BY DEF NumbersHold, TxHolds, Past, Sees

InsertedSteps == {"average", "score", "shop", "rating", "commit"}

\* A step of a transaction other than its commit, which becomes t.
LEMMA QuietTxKept ==
    ASSUME TxBasics, NEW p \in Reviewers, Keeps, NEW t \in Transaction \cup {Nothing},
           tx' = [tx EXCEPT ![p] = t],
           t # Nothing /\ t.at \in InsertedSteps =>
              \/ tx[p] # Nothing /\ tx[p].at \in InsertedSteps /\ t.review = tx[p].review
              \/ /\ \A r \in review : ~Same(r, t.review)
                 /\ \A q \in Reviewers \ {p} : Inserted(q) => ~Same(t.review, tx[q].review),
           ReviewsInv /\ t # Nothing => TxHolds(t, review \cup {t.review})
    PROVE  TxBasics' /\ (ReviewsInv => ReviewsInv')
<1>1. tx \in [Reviewers -> Transaction \cup {Nothing}]
    BY DEF TxBasics, TxTyped
<1>2. /\ tx' \in [Reviewers -> Transaction \cup {Nothing}] /\ tx'[p] = t
      /\ \A q \in Reviewers : q # p => tx'[q] = tx[q]
    BY <1>1
<1>3. ReviewsTypeOK' /\ TxTyped'
    BY <1>2, QuietTxTyped
<1>4. InsertedOnce'
  <2>1. review' = review
    BY DEF Keeps
  <2>2. \A q \in Reviewers : Inserted(q) <=> tx[q] # Nothing /\ tx[q].at \in InsertedSteps
    BY DEF Inserted, Past, InsertedSteps
  <2>3. \A q \in Reviewers : Inserted(q)' <=> tx'[q] # Nothing /\ tx'[q].at \in InsertedSteps
    BY DEF Inserted, Past, InsertedSteps
  <2>4. \A q \in Reviewers : tx[q] # Nothing /\ tx[q].at \in InsertedSteps =>
            /\ \A r \in review : ~Same(r, tx[q].review)
            /\ \A o \in Reviewers \ {q} : tx[o] # Nothing /\ tx[o].at \in InsertedSteps =>
                  ~Same(tx[q].review, tx[o].review)
    BY <2>2 DEF TxBasics, InsertedOnce
  <2>5. \A r, s : Same(r, s) <=> Same(s, r)
    BY DEF Same
  <2>6. \A q \in Reviewers : tx'[q] # Nothing /\ tx'[q].at \in InsertedSteps =>
            /\ \A r \in review : ~Same(r, tx'[q].review)
            /\ \A o \in Reviewers \ {q} : tx'[o] # Nothing /\ tx'[o].at \in InsertedSteps =>
                  ~Same(tx'[q].review, tx'[o].review)
    <3> SUFFICES ASSUME NEW q \in Reviewers, tx'[q] # Nothing, tx'[q].at \in InsertedSteps
                 PROVE  /\ \A r \in review : ~Same(r, tx'[q].review)
                        /\ \A o \in Reviewers \ {q} :
                              tx'[o] # Nothing /\ tx'[o].at \in InsertedSteps =>
                                  ~Same(tx'[q].review, tx'[o].review)
      OBVIOUS
    <3>1. CASE q = p
      BY <1>2, <2>2, <2>4, <3>1
    <3>2. CASE q # p
      BY <1>2, <2>2, <2>4, <2>5, <3>2
    <3> QED
      BY <3>1, <3>2
  <2> QED
    BY <2>1, <2>3, <2>6 DEF InsertedOnce
<1>5. ASSUME ReviewsInv PROVE NumbersHold'
  <2>1. review' = review
    BY DEF Keeps
  <2>2. \A q \in Reviewers : tx'[q] # Nothing => TxHolds(tx'[q], review \cup {tx'[q].review})
    BY <1>2, <1>5, NumbersHoldAll DEF ReviewsInv
  <2> QED
    BY <2>1, <2>2, NumbersHoldAll
<1>6. ASSUME ReviewsInv PROVE ScoresAgree'
    BY <1>6 DEF ReviewsInv, ScoresAgree, Keeps
<1> QED
    BY <1>3, <1>4, <1>5, <1>6 DEF TxBasics, ReviewsInv

\* A transaction begins.
LEMMA StartsKept ==
    ASSUME TxBasics, NEW p \in Reviewers, SubmitReview(p) \/ SubmitRunnerReview(p)
    PROVE  TxBasics' /\ (ReviewsInv => ReviewsInv')
<1>1. PICK r \in Review : Starts(p, r)
    BY DEF SubmitReview, SubmitRunnerReview, Review
<1> DEFINE t == [review |-> r, at |-> "insert", score |-> Nothing, rating |-> Nothing,
                 late |-> {}]
<1>2. t \in Transaction /\ t.at = "insert"
    BY DEF Transaction, Number
<1>3. tx' = [tx EXCEPT ![p] = t] /\ Keeps
    BY <1>1 DEF Starts
<1> HIDE DEF t
<1>4. t.at \notin InsertedSteps /\ TxHolds(t, review \cup {t.review})
    BY <1>2 DEF InsertedSteps, TxHolds
<1> QED
    BY <1>2, <1>3, <1>4, QuietTxKept

\* A transaction goes on, to another step and with numbers it has taken.
LEMMA TxStepsKept ==
    ASSUME TxBasics, NEW p \in Reviewers,
           \/ Rollback(p) \/ Create(p) \/ Average(p) \/ UpdateUserTrustScore(p)
           \/ AverageOfShop(p) \/ UpdateMerchantRating(p)
    PROVE  TxBasics' /\ (ReviewsInv => ReviewsInv')
<1>0. tx[p] # Nothing /\ tx[p] \in Transaction
    BY TxFields DEF Rollback, Create, Average, UpdateUserTrustScore, AverageOfShop,
                    UpdateMerchantRating, At
<1> DEFINE v == tx[p]
           r == v.review
<1>1. /\ Keeps
      /\ ReviewsInv => TxHolds(v, Sees(p))
    BY <1>0, QuietTx, NumbersHoldAll DEF ReviewsInv, Sees
<1>2. Subject(r) \in Users
    BY <1>0, TxFields
<1>3. CASE tx' = [tx EXCEPT ![p] = Nothing]
    BY <1>1, <1>3, QuietTxKept
<1>4. ASSUME NEW s \in TxSteps, Moves(p, s), v.at \in InsertedSteps,
             ReviewsInv => TxHolds([v EXCEPT !.at = s], Sees(p))
      PROVE  TxBasics' /\ (ReviewsInv => ReviewsInv')
  <2> DEFINE t == [v EXCEPT !.at = s]
  <2>1. tx' = [tx EXCEPT ![p] = t]
    BY <1>4 DEF Moves
  <2>2. t \in Transaction /\ t.review = r
    BY <1>0 DEF Transaction, TxSteps
  <2> HIDE DEF t
  <2>3. Sees(p) = review \cup {t.review}
    BY <2>2 DEF Sees
  <2> QED
    BY <1>0, <1>1, <1>4, <2>1, <2>2, <2>3, QuietTxKept DEF t
<1>5. CASE Create(p) /\ Moves(p, "average")
  <2> DEFINE t == [v EXCEPT !.at = "average"]
  <2>1. tx' = [tx EXCEPT ![p] = t]
    BY <1>5 DEF Moves
  <2>2. t \in Transaction /\ t.review = r /\ t.at = "average"
    BY <1>0 DEF Transaction
  <2> HIDE DEF t
  <2>3. /\ \A q \in Reviewers \ {p} : Inserted(q) => ~Same(t.review, tx[q].review)
        /\ v.at = "insert"
    BY <1>5, <2>2 DEF Create, Inserted, At
  <2>4. \A s \in review : ~Same(s, t.review)
    <3>1. tx'[p] = t
      BY <2>1 DEF TxBasics, TxTyped
    <3>2. t # Nothing
      BY <2>2, SentinelAssumption
    <3>3. tx'[p] = Nothing \/ ~\E s \in review : Same(s, tx[p].review)
      <4>1. CASE \E s \in review : Same(s, tx[p].review)
        <5>1. tx' = [tx EXCEPT ![p] = Nothing]
          BY <1>5, <4>1 DEF Create
        <5> QED
          BY <5>1 DEF TxBasics, TxTyped
      <4> QED
        BY <4>1
    <3> QED
      BY <2>2, <3>1, <3>2, <3>3
  <2>5. TxHolds(t, review \cup {t.review})
    BY <2>2 DEF TxHolds
  <2> QED
    BY <1>1, <2>1, <2>2, <2>3, <2>4, <2>5, QuietTxKept
<1>6. CASE Average(p)
  <2> DEFINE a == AverageFor(r, Sees(p))
             t == [v EXCEPT !.at = "score", !.score = a]
  <2>1. tx' = [tx EXCEPT ![p] = t]
    BY <1>6 DEF Average, AverageFor
  <2>2. a \in Number
    BY <1>0, SeesTyped, AveragesTyped DEF AverageFor
  <2> HIDE DEF a
  <2>3. t \in Transaction /\ t.review = r /\ t.at = "score" /\ t.score = a
    BY <1>0, <2>2 DEF Transaction
  <2>4. v.at \in InsertedSteps
    BY <1>6 DEF Average, At, InsertedSteps
  <2> HIDE DEF t
  <2>5. TxHolds(t, Sees(p))
    BY <2>3 DEF TxHolds, a
  <2>6. Sees(p) = review \cup {t.review}
    BY <2>3 DEF Sees
  <2> QED
    BY <1>0, <1>1, <2>1, <2>3, <2>4, <2>5, <2>6, QuietTxKept
<1>7. CASE UpdateUserTrustScore(p)
  <2>1. v.at = "score"
    BY <1>7 DEF UpdateUserTrustScore, At
  <2>2. ASSUME RatesShop(r), Moves(p, "shop") PROVE TxBasics' /\ (ReviewsInv => ReviewsInv')
    <3>1. ReviewsInv => TxHolds([v EXCEPT !.at = "shop"], Sees(p))
      BY <1>0, <1>1, <2>1, <2>2 DEF TxHolds, Transaction
    <3> QED
      BY <1>4, <2>1, <2>2, <3>1 DEF TxSteps, InsertedSteps
  <2>3. ASSUME ~RatesShop(r), Moves(p, "commit")
        PROVE  TxBasics' /\ (ReviewsInv => ReviewsInv')
    <3>1. ReviewsInv => TxHolds([v EXCEPT !.at = "commit"], Sees(p))
      BY <1>0, <1>1, <2>1, <2>3 DEF TxHolds, Transaction
    <3> QED
      BY <1>4, <2>1, <2>3, <3>1 DEF TxSteps, InsertedSteps
  <2> QED
    BY <1>7, <2>2, <2>3 DEF UpdateUserTrustScore
<1>8. CASE AverageOfShop(p)
  <2> DEFINE a == GetAverageRatingByMerchant(Sees(p), ShopOf[r.order])
             t == [v EXCEPT !.at = "rating", !.rating = a]
  <2>1. tx' = [tx EXCEPT ![p] = t]
    BY <1>8 DEF AverageOfShop
  <2>2. a \in Number
    BY <1>0, SeesTyped, AveragesTyped
  <2> HIDE DEF a
  <2>3. /\ t \in Transaction /\ t.review = r /\ t.at = "rating" /\ t.rating = a
        /\ t.score = v.score /\ t.late = v.late
    BY <1>0, <2>2 DEF Transaction
  <2>4. v.at \in InsertedSteps /\ v.at = "shop"
    BY <1>8 DEF AverageOfShop, At, InsertedSteps
  <2> HIDE DEF t
  <2>5. ReviewsInv => TxHolds(t, Sees(p))
    BY <1>1, <2>3, <2>4 DEF TxHolds, a
  <2>6. Sees(p) = review \cup {t.review}
    BY <2>3 DEF Sees
  <2> QED
    BY <1>0, <1>1, <2>1, <2>3, <2>4, <2>5, <2>6, QuietTxKept
<1>9. CASE UpdateMerchantRating(p)
  <2>1. v.at = "rating" /\ Moves(p, "commit")
    BY <1>9 DEF UpdateMerchantRating, At
  <2>2. ReviewsInv => TxHolds([v EXCEPT !.at = "commit"], Sees(p))
    BY <1>0, <1>1, <2>1 DEF TxHolds, Transaction
  <2> QED
    BY <1>4, <2>1, <2>2 DEF TxSteps, InsertedSteps
<1> QED
    BY <1>3, <1>5, <1>6, <1>7, <1>8, <1>9 DEF Rollback, Create

\* The commit of a transaction, seen by another, q.
LEMMA CommitSeen ==
    ASSUME TxBasics, NEW p \in Reviewers, Commit(p), NEW q \in Reviewers \ {p},
           tx[q] # Nothing
    PROVE  /\ tx'[q] \in Transaction /\ tx'[q].review = tx[q].review /\ tx'[q].at = tx[q].at
           /\ tx'[q].score = tx[q].score /\ tx'[q].rating = tx[q].rating
           /\ tx'[q].late = tx[q].late \cup Misses(q, tx[p].review)
<1> DEFINE m == Misses(q, tx[p].review)
           v == tx[q]
<1>1. tx'[q] = [v EXCEPT !.late = @ \cup m]
    BY DEF Commit
<1>2. tx[p] # Nothing
    BY DEF Commit, At
<1>3. m \subseteq Users \cup Shops
    BY <1>2, TxFields DEF Misses, RatesShop
<1>4. v \in Transaction /\ v.late \subseteq Users \cup Shops
    BY TxFields
<1> HIDE DEF m, v
<1>5. v.late \cup m \in SUBSET (Users \cup Shops)
    BY <1>3, <1>4
<1>6. [v EXCEPT !.late = @ \cup m] = [v EXCEPT !.late = v.late \cup m]
    OBVIOUS
<1> DEFINE l == v.late \cup m
<1> HIDE DEF l
<1>7. /\ [v EXCEPT !.late = l] \in Transaction /\ [v EXCEPT !.late = l].review = v.review
      /\ [v EXCEPT !.late = l].at = v.at /\ [v EXCEPT !.late = l].score = v.score
      /\ [v EXCEPT !.late = l].rating = v.rating /\ [v EXCEPT !.late = l].late = l
    BY <1>4, <1>5 DEF Transaction, l
<1> QED
    BY <1>1, <1>6, <1>7 DEF l, m, v

\* One more review leaves the average another has taken, unless he has missed it.
LEMMA HeldStill ==
    ASSUME NEW S, NEW r \in Review, NEW t \in Transaction, NEW v \in Transaction,
           NEW missed, TxHolds(t, S), v.review = t.review, v.at = t.at, v.score = t.score,
           v.rating = t.rating, v.late = t.late \cup missed, t.at \in TxSteps,
           RatesShop(t.review) => ShopOf[t.review.order] \in Shops,
           /\ t.at \in {"score", "shop", "rating", "commit"} /\ Subject(t.review) = Subject(r)
              /\ t.review.by = r.by => Subject(r) \in missed
           /\ t.at \in {"rating", "commit"} /\ RatesShop(t.review) /\ RatesShop(r)
              /\ ShopOf[t.review.order] = ShopOf[r.order] => ShopOf[r.order] \in missed
    PROVE  TxHolds(v, S \cup {r})
<1> DEFINE s == t.review
<1>1. s \in Review /\ s.by \in {"requester", "runner"}
    BY DEF Transaction, Review
<1>2. ASSUME t.at \in {"score", "shop", "rating", "commit"}, Subject(s) \notin v.late
      PROVE  v.score = AverageFor(s, S \cup {r})
  <2>1. Subject(s) # Subject(r) \/ s.by # r.by
    BY <1>2
  <2>2. t.score = AverageFor(s, S)
    BY <1>2 DEF TxHolds
  <2>3. AverageFor(s, S \cup {r}) = AverageFor(s, S)
    <3> DEFINE u == Subject(s)
    <3>1. CASE s.by = "requester"
      <4>1. r.by # "requester" \/ Subject(r) # u
        BY <2>1, <3>1
      <4>2. OfRunner(S \cup {r}, u) = OfRunner(S, u)
        BY <4>1, OneMore
      <4>3. GetAverageRatingByReviewee(S \cup {r}, u) = GetAverageRatingByReviewee(S, u)
        BY <4>2, AverageLocal
      <4> QED
        BY <3>1, <4>3 DEF AverageFor
    <3>2. CASE s.by = "runner"
      <4>1. r.by # "runner" \/ Subject(r) # u
        BY <2>1, <3>2
      <4>2. OfRequester(S \cup {r}, u) = OfRequester(S, u)
        BY <4>1, OneMore
      <4>3. GetAverageRatingByRequester(S \cup {r}, u) = GetAverageRatingByRequester(S, u)
        BY <4>2, AverageLocal
      <4> QED
        BY <3>2, <4>3 DEF AverageFor
    <3> QED
      BY <1>1, <3>1, <3>2
  <2> QED
    BY <2>2, <2>3
<1>3. ASSUME t.at \in {"rating", "commit"}, RatesShop(s), ShopOf[s.order] \notin v.late
      PROVE  v.rating = GetAverageRatingByMerchant(S \cup {r}, ShopOf[s.order])
  <2>1. ~RatesShop(r) \/ ShopOf[r.order] # ShopOf[s.order]
    BY <1>3
  <2>2. OfShop(S \cup {r}, ShopOf[s.order]) = OfShop(S, ShopOf[s.order])
    BY <1>3, <2>1, OneMore
  <2>3. t.rating = GetAverageRatingByMerchant(S, ShopOf[s.order])
    BY <1>3 DEF TxHolds
  <2> QED
    BY <2>2, <2>3, AverageLocal
<1> QED
    BY <1>2, <1>3 DEF TxHolds

\* The commit of a review.
LEMMA CommitKept ==
    ASSUME TxBasics, NEW p \in Reviewers, Commit(p)
    PROVE  TxBasics' /\ (ReviewsInv => ReviewsInv')
<1> DEFINE t == tx[p]
           r == t.review
<1>1. /\ t # Nothing /\ t.at = "commit" /\ r \in Review /\ Subject(r) \in Users
      /\ t.score \in Number /\ t.rating \in Number /\ t.late \subseteq Users \cup Shops
      /\ RatesShop(r) => ShopOf[r.order] \in Shops
    BY TxFields DEF Commit, At
<1>2. /\ review' = review \cup {r}
      /\ score' = [score EXCEPT ![Subject(r)] = t.score]
      /\ rating' = IF RatesShop(r) THEN [rating EXCEPT ![ShopOf[r.order]] = t.rating]
                                   ELSE rating
      /\ crossed' = (crossed \ Rated(r)) \cup t.late
      /\ tx' = [q \in Reviewers |->
                   IF q = p \/ tx[q] = Nothing THEN IF q = p THEN Nothing ELSE tx[q]
                   ELSE [tx[q] EXCEPT !.late = @ \cup Misses(q, r)]]
    BY DEF Commit
<1>3. /\ tx'[p] = Nothing
      /\ \A q \in Reviewers : q # p /\ tx[q] = Nothing => tx'[q] = Nothing
      /\ \A q \in Reviewers : q # p /\ tx[q] # Nothing => tx'[q] # Nothing
    <2>1. \A q \in Reviewers : q # p /\ tx[q] # Nothing => tx'[q] \in Transaction
      BY CommitSeen
    <2> QED
      BY <1>2, <2>1, SentinelAssumption
<1>4. tx' \in [Reviewers -> Transaction \cup {Nothing}]
  <2>1. \A q \in Reviewers : tx'[q] \in Transaction \cup {Nothing}
    BY <1>3, CommitSeen
  <2>2. DOMAIN tx' = Reviewers /\ tx' = [q \in Reviewers |-> tx'[q]]
    BY <1>2
  <2> QED
    BY <2>1, <2>2
<1>5. \A s \in review : ~Same(s, r)
    BY <1>1 DEF TxBasics, InsertedOnce, Inserted, Past
<1>6. \A a, b : Same(a, b) <=> Same(b, a)
    BY DEF Same
<1>7. ReviewsTypeOK' /\ TxTyped'
  <2>1. /\ score' \in [Users -> Number] /\ rating' \in [Shops -> Number]
        /\ crossed' \subseteq Users \cup Shops
    BY <1>1, <1>2 DEF TxBasics, ReviewsTypeOK
  <2>2. review' \subseteq Review /\ IsFiniteSet(review')
    BY <1>1, <1>2, FS_AddElement DEF TxBasics, ReviewsTypeOK, TxTyped
  <2>3. \A a, b \in review' : Same(a, b) => a = b
    BY <1>2, <1>5, <1>6 DEF TxBasics, ReviewsTypeOK
  <2>4. \A q \in Reviewers : tx'[q] # Nothing =>
          /\ tx'[q].review \in Review /\ tx'[q].score \in Number /\ tx'[q].rating \in Number
          /\ tx'[q].at \in TxSteps /\ tx'[q].late \subseteq Users \cup Shops
    BY <1>4 DEF Transaction, TxSteps
  <2> QED
    BY <1>4, <2>1, <2>2, <2>3, <2>4 DEF ReviewsTypeOK, TxTyped, TxSteps
<1>8. InsertedOnce'
  <2>1. \A q \in Reviewers : Inserted(q)' =>
            q # p /\ Inserted(q) /\ tx'[q].review = tx[q].review
    BY <1>3, CommitSeen DEF Inserted, Past
  <2>2. Inserted(p)
    BY <1>1 DEF Inserted, Past
  <2>3. \A q \in Reviewers : Inserted(q)' =>
            /\ \A s \in review' : ~Same(s, tx'[q].review)
            /\ \A o \in Reviewers \ {q} : Inserted(o)' => ~Same(tx'[q].review, tx'[o].review)
    BY <1>2, <1>6, <2>1, <2>2 DEF TxBasics, InsertedOnce
  <2> QED
    BY <2>3 DEF InsertedOnce
<1>9. ASSUME ReviewsInv PROVE NumbersHold'
  <2> SUFFICES ASSUME NEW q \in Reviewers, tx'[q] # Nothing
               PROVE  TxHolds(tx'[q], review' \cup {tx'[q].review})
    BY NumbersHoldAll
  <2>1. q \in Reviewers \ {p} /\ tx[q] # Nothing
    BY <1>3
  <2> DEFINE S == review \cup {tx[q].review}
  <2>2. TxHolds(tx[q], S)
    BY <1>9, <2>1, NumbersHoldAll DEF ReviewsInv
  <2>3. review' \cup {tx'[q].review} = S \cup {r}
    BY <1>2, <2>1, CommitSeen
  <2>4. /\ tx[q].at \in {"score", "shop", "rating", "commit"}
           /\ Subject(tx[q].review) = Subject(r) /\ tx[q].review.by = r.by
             => Subject(r) \in Misses(q, r)
        /\ tx[q].at \in {"rating", "commit"} /\ RatesShop(tx[q].review) /\ RatesShop(r)
           /\ ShopOf[tx[q].review.order] = ShopOf[r.order] => ShopOf[r.order] \in Misses(q, r)
    BY <2>1 DEF Misses, Past
  <2>5. /\ tx[q] \in Transaction /\ tx[q].at \in TxSteps
        /\ RatesShop(tx[q].review) => ShopOf[tx[q].review.order] \in Shops
    BY <2>1, TxFields
  <2> DEFINE missed == Misses(q, r)
             v == tx'[q]
             o == tx[q]
  <2>6. /\ v \in Transaction /\ v.review = o.review /\ v.at = o.at /\ v.score = o.score
        /\ v.rating = o.rating /\ v.late = o.late \cup missed
    BY <2>1, CommitSeen
  <2>7. TxHolds(v, S \cup {r})
    <3>1. r \in Review
      BY <1>1
    <3> HIDE DEF S, missed, v, o, r
    <3> QED
      BY <3>1, <2>2, <2>4, <2>5, <2>6, HeldStill DEF o, missed
  <2> QED
    BY <2>3, <2>7
<1>10. ASSUME ReviewsInv PROVE ScoresAgree'
  <2>1. TxHolds(t, Sees(p)) /\ review' = Sees(p) /\ ScoresAgree
    BY <1>1, <1>2, <1>10, NumbersHoldAll DEF ReviewsInv, Sees
  <2>2. Rated(r) \subseteq {Subject(r)} \cup Shops /\ Subject(r) \in Rated(r)
    BY <1>1 DEF Rated
  <2>3. \A u \in Users : u \notin Shops
    BY ReviewsAssumption
  <2>4. ASSUME NEW u \in Users, u \notin crossed'
        PROVE  score'[u] \in IF OfRunner(review', u) \cup OfRequester(review', u) = {}
                             THEN {Nothing}
                             ELSE {GetAverageRatingByReviewee(review', u),
                                   GetAverageRatingByRequester(review', u)} \ {Nothing}
    <3>1. CASE u = Subject(r)
      <4>1. score'[u] = t.score
        BY <1>1, <1>2, <3>1 DEF TxBasics, ReviewsTypeOK
      <4>2. u \notin t.late
        BY <1>2, <2>4
      <4>3. t.score = AverageFor(r, review')
        BY <1>1, <2>1, <3>1, <4>2 DEF TxHolds
      <4>4. review' \in SUBSET Review /\ IsFiniteSet(review') /\ r \in review'
        BY <1>2, <1>7 DEF ReviewsTypeOK, TxTyped
      <4>5. CASE r.by = "requester"
        <5>1. OfRunner(review', u) # {}
          BY <1>1, <3>1, <4>4, <4>5, Counted
        <5>2. t.score = GetAverageRatingByReviewee(review', u)
          BY <3>1, <4>3, <4>5 DEF AverageFor
        <5>3. GetAverageRatingByReviewee(review', u) # Nothing
          BY <4>4, <5>1, AveragesTyped
        <5> QED
          BY <4>1, <5>1, <5>2, <5>3
      <4>6. CASE r.by = "runner"
        <5>1. OfRequester(review', u) # {}
          BY <1>1, <3>1, <4>4, <4>6, Counted
        <5>2. t.score = GetAverageRatingByRequester(review', u)
          BY <3>1, <4>3, <4>6 DEF AverageFor
        <5>3. GetAverageRatingByRequester(review', u) # Nothing
          BY <4>4, <5>1, AveragesTyped
        <5> QED
          BY <4>1, <5>1, <5>2, <5>3
      <4> QED
        BY <1>1, <4>5, <4>6 DEF Review
    <3>2. CASE u # Subject(r)
      <4>1. u \notin crossed /\ score'[u] = score[u]
        BY <1>1, <1>2, <2>2, <2>3, <2>4, <3>2 DEF TxBasics, ReviewsTypeOK
      <4>2. /\ OfRunner(review', u) = OfRunner(review, u)
            /\ OfRequester(review', u) = OfRequester(review, u)
        BY <1>1, <1>2, <3>2, OneMore
      <4> QED
        BY <2>1, <4>1, <4>2, AverageLocal DEF ScoresAgree
    <3> QED
      BY <3>1, <3>2
  <2>5. ASSUME NEW s \in Shops, s \notin crossed'
        PROVE  rating'[s] = GetAverageRatingByMerchant(review', s)
    <3>1. CASE RatesShop(r) /\ s = ShopOf[r.order]
      <4>1. rating'[s] = t.rating /\ s \notin t.late
        BY <1>1, <1>2, <2>5, <3>1 DEF TxBasics, ReviewsTypeOK
      <4> QED
        BY <1>1, <2>1, <3>1, <4>1 DEF TxHolds
    <3>2. CASE ~(RatesShop(r) /\ s = ShopOf[r.order])
      <4>1. s \notin Rated(r)
        BY <1>1, <2>3, <3>2 DEF Rated
      <4>2. s \notin crossed /\ rating'[s] = rating[s]
        BY <1>1, <1>2, <2>5, <3>2, <4>1 DEF TxBasics, ReviewsTypeOK
      <4>3. OfShop(review', s) = OfShop(review, s)
        BY <1>1, <1>2, <3>2, OneMore
      <4> QED
        BY <2>1, <4>2, <4>3, AverageLocal DEF ScoresAgree
    <3> QED
      BY <3>1, <3>2
  <2> QED
    BY <2>4, <2>5 DEF ScoresAgree
<1> QED
    BY <1>7, <1>8, <1>9, <1>10 DEF TxBasics, ReviewsInv

\* The reviews' part of a step.
LEMMA ReviewingBasics ==
    ASSUME Basics, NEW p \in Reviewers, Reviewing(p)
    PROVE  Basics' /\ (ReviewsInv => ReviewsInv')
<1>1. TxBasics' /\ (ReviewsInv => ReviewsInv')
    BY BasicsParts, StartsKept, TxStepsKept, CommitKept DEF Reviewing, TxStep
<1>2. UNCHANGED <<role, shop, tangled, part, store, muddled, nearby, old, proc>> /\ Timed
    BY DEF Reviewing, shopVars, partVars, cacheVars, Timed, Classes
<1>3. RowBasics' /\ HandlersOK' /\ SceneOK'
    BY <1>2, BasicsParts, TimedTyped DEF RowBasics, HandlersOK
<1>4. Owned'
    BY <1>2, BasicsParts DEF Owned, OwnerKept
<1> QED
    BY <1>1, <1>3, <1>4, BasicsParts

\* The numbers under the steps of the clerks.
LEMMA ClerkReviews ==
    ASSUME Basics, ReviewsInv, NEW p \in Clerks, ClerkStep(p)
    PROVE  ReviewsInv'
<1>1. ASSUME UNCHANGED reviewVars PROVE ReviewsInv'
    BY <1>1 DEF ReviewsInv, reviewVars, NumbersHold, ScoresAgree, Past, Sees
<1>2. ASSUME UNCHANGED <<review, tx>>, ScoresAgree' PROVE ReviewsInv'
    BY <1>2 DEF ReviewsInv, NumbersHold, Past, Sees
<1>3. CASE UserStep(p)
  <2>1. ASSUME NEW w \in Handler \cup {Nothing}, NEW r \in Roles, WritesUser(p, w, r)
        PROVE  ReviewsInv'
    <3> DEFINE u == proc[p].user
               n == proc[p].row.score
    <3>1. /\ UNCHANGED <<review, tx, rating>> /\ score' = [score EXCEPT ![u] = n]
          /\ crossed' = IF score[u] # n THEN crossed \cup {u} ELSE crossed
      BY <2>1 DEF WritesUser, WriteUser
    <3>2. \A v \in Users : v \notin crossed' => v \notin crossed /\ score'[v] = score[v]
      BY <3>1, BasicsParts DEF TxBasics, ReviewsTypeOK
    <3> QED
      BY <1>2, <3>1, <3>2 DEF ReviewsInv, ScoresAgree
  <2> QED
    BY <1>1, <1>3, <2>1 DEF UserStep, StartsUser, FindsUser, FailsUser, Rests
<1>4. CASE ShopStep(p)
  <2>1. ASSUME NEW w \in Handler, NEW new \in Shop, SavesShop(p, w, new)
        PROVE  ReviewsInv'
    <3> DEFINE s == proc[p].on
               n == proc[p].row.rating
    <3>1. /\ UNCHANGED <<review, tx, score>>
          /\ \/ UNCHANGED <<rating, crossed>>
             \/ /\ rating' = [rating EXCEPT ![s] = n]
                /\ crossed' = IF rating[s] # n THEN crossed \cup {s} ELSE crossed
      BY <2>1 DEF SavesShop, SaveShop
    <3>2. \A z \in Shops : z \notin crossed' => z \notin crossed /\ rating'[z] = rating[z]
      BY <3>1, BasicsParts DEF TxBasics, ReviewsTypeOK
    <3>3. \A v \in Users : v \notin crossed' => v \notin crossed
      BY <3>1
    <3> QED
      BY <1>2, <3>1, <3>2, <3>3 DEF ReviewsInv, ScoresAgree
  <2> QED
    BY <1>1, <1>4, <2>1
    DEF ShopStep, OpensShop, CreateMerchant, StartsDelete, ClosesShop, DeleteMerchant,
        ReadsShop, StartsProfile, Gives, Rests
<1>5. CASE ListStep(p)
    BY <1>1, <1>5
    DEF ListStep, Flushes, Flush, FillsList, BreaksOff, Breaks, StartsList, Rests, ShopRests
<1>6. CASE PartStep(p)
    BY <1>1, <1>6
    DEF PartStep, StartsDraft, StartsEdit, ReadsPart, StartsErase, SavesPart, ErasesPart,
        Erases, InsertsPart, SweepsStore, Uploads, Gives, Rests, ShopRests
<1> QED
    BY <1>3, <1>4, <1>5, <1>6 DEF ClerkStep

-----------------------------------------------------------------------------
(* Owners.                                                                 *)

Opens(w) == w # Nothing /\ w.op = "create" /\ w.at = "insert"
Deletes(w) == w # Nothing /\ w.op = "delete" /\ w.at = "delete"

\* What is said of owners, spelled out.
LEMMA OwnersParts ==
    /\ OwnersInv <=>
        /\ \A s, t \in Shops : shop[s].life = "live" /\ shop[t].life = "live"
              /\ shop[s].owner = shop[t].owner => s = t \/ shop[s].owner \in tangled
        /\ \A p \in Clerks : Opens(proc[p]) =>
              proc[p].user \in tangled \/ role[proc[p].user] = "merchant"
        /\ \A s \in Shops : shop[s].life = "live" /\ shop[s].owner \notin tangled =>
              \/ role[shop[s].owner] = "merchant"
              \/ \E p \in Clerks : Deletes(proc[p]) /\ proc[p].user = shop[s].owner
    /\ OwnersInv' <=>
        /\ \A s, t \in Shops : shop'[s].life = "live" /\ shop'[t].life = "live"
              /\ shop'[s].owner = shop'[t].owner => s = t \/ shop'[s].owner \in tangled'
        /\ \A p \in Clerks : Opens(proc'[p]) =>
              proc'[p].user \in tangled' \/ role'[proc'[p].user] = "merchant"
        /\ \A s \in Shops : shop'[s].life = "live" /\ shop'[s].owner \notin tangled' =>
              \/ role'[shop'[s].owner] = "merchant"
              \/ \E p \in Clerks : Deletes(proc'[p]) /\ proc'[p].user = shop'[s].owner
    BY DEF OwnersInv, OneShopEach, Promoted, RoleFollowsShop, Live, Is, Opens, Deletes

\* No shop is opened, no role is written, and nobody ends the deletion of a shop.
LEMMA OwnersKept ==
    ASSUME Basics, OwnersInv, NEW p \in Clerks, NEW w, To(p, w), w = Nothing \/ Lawful(w),
           \A s \in Shops : shop'[s].life = "live" =>
                shop[s].life = "live" /\ shop'[s].owner = shop[s].owner,
           tangled \subseteq tangled', role' = role,
           Deletes(proc[p]) => proc[p].user \in tangled',
           Opens(w) => w.user \in tangled' \/ role[w.user] = "merchant"
    PROVE  OwnersInv'
<1>1. proc'[p] = w /\ \A q \in Clerks : q # p => proc'[q] = proc[q]
    BY BasicsParts, ToTyped
<1>2. ASSUME NEW q \in Clerks, Opens(proc'[q])
      PROVE  proc'[q].user \in tangled' \/ role'[proc'[q].user] = "merchant"
    BY <1>1, <1>2, OwnersParts
<1>3. ASSUME NEW s \in Shops, shop'[s].life = "live", shop'[s].owner \notin tangled'
      PROVE  \/ role'[shop'[s].owner] = "merchant"
             \/ \E q \in Clerks : Deletes(proc'[q]) /\ proc'[q].user = shop'[s].owner
  <2>1. \/ role[shop[s].owner] = "merchant"
        \/ \E q \in Clerks : Deletes(proc[q]) /\ proc[q].user = shop[s].owner
    BY <1>3, OwnersParts
  <2>2. ASSUME NEW q \in Clerks, Deletes(proc[q]), proc[q].user = shop[s].owner
        PROVE  q # p /\ Deletes(proc'[q]) /\ proc'[q].user = shop'[s].owner
    BY <1>1, <1>3, <2>2
  <2> QED
    BY <1>3, <2>1, <2>2
<1>4. \A s, t \in Shops : shop'[s].life = "live" /\ shop'[t].life = "live"
         /\ shop'[s].owner = shop'[t].owner => s = t \/ shop'[s].owner \in tangled'
    BY OwnersParts
<1> QED
    BY <1>2, <1>3, <1>4, OwnersParts

\* Owners under the steps of the clerks.
LEMMA ClerkOwners ==
    ASSUME Basics, OwnersInv, NEW p \in Clerks, ClerkStep(p)
    PROVE  OwnersInv'
<1>0. Kinds \cap {"create", "delete", "user"} = {} /\ ShopOps \cap {"create", "delete"} = {}
    BY DEF Kinds, ShopOps
<1>1. ASSUME NEW w, To(p, w), w = Nothing \/ Lawful(w), UNCHANGED <<role, shop, tangled>>,
             ~Deletes(proc[p]), ~Opens(w)
      PROVE  OwnersInv'
    BY <1>1, OwnersKept
<1>2. CASE UserStep(p)
  <2>1. ASSUME NEW w \in Handler, StartsUser(p, w) \/ FindsUser(p, w) PROVE OwnersInv'
    BY <1>1, <2>1
    DEF StartsUser, FindsUser, Rests, shopVars, Alike, Deletes, Opens
  <2>2. ASSUME NEW w \in Handler, FailsUser(p, w) PROVE OwnersInv'
    BY <2>2, OwnersKept DEF FailsUser, Deletes, Opens
  <2>3. ASSUME NEW w \in Handler \cup {Nothing}, NEW r \in Roles, WritesUser(p, w, r)
        PROVE  OwnersInv'
    <3> DEFINE v == proc[p]
               u == v.user
    <3>1. /\ role' = [role EXCEPT ![u] = r]
          /\ tangled' = IF \/ role[u] # v.row.role
                           \/ r = "requester" /\ \E q \in Clerks :
                                 Is(q, {"create"}, "insert") /\ proc[q].user = u
                        THEN tangled \cup {u} ELSE tangled
          /\ UNCHANGED shop
      BY <2>3 DEF WritesUser, WriteUser
    <3>2. v # Nothing /\ u \in Users /\ v.at = "role"
      BY <2>3, UnderWay DEF WritesUser, WorksOn
    <3>3. \A x \in Users : role'[x] = IF x = u THEN r ELSE role[x]
      BY <3>1, BasicsParts DEF RowBasics
    <3>4. /\ proc'[p] = w /\ \A q \in Clerks : q # p => proc'[q] = proc[q]
      BY <2>3, BasicsParts, ToTyped DEF WritesUser
    <3>5. /\ w = Nothing \/ w.user = u
          /\ Opens(w) => r = "merchant"
          /\ r = "requester" => Deletes(w) \/ v.row.role = "requester"
      <4>1. CASE w = Nothing /\ v.op = "user" /\ r = v.row.role
        BY <4>1 DEF Opens, Deletes
      <4>2. CASE /\ Lawful(w) /\ Same4(v, w)
                 /\ \/ w.op = "create" /\ r = "merchant" /\ w.at = "insert"
                    \/ w.op = "delete" /\ r = "requester" /\ w.at = "delete"
        <5>1. w # Nothing
          BY <4>2, HandlerFields DEF Lawful
        <5> QED
          BY <4>2, <5>1 DEF Same4, Alike, Opens, Deletes
      <4> QED
        BY <2>3, <4>1, <4>2 DEF WritesUser
    <3>6. r = "merchant" \/ r = "requester"
      BY DEF Roles
    <3>7. tangled \subseteq tangled'
      BY <3>1
    <3>8. ASSUME NEW q \in Clerks, Opens(proc'[q])
          PROVE  proc'[q].user \in tangled' \/ role'[proc'[q].user] = "merchant"
      <4>1. CASE q = p
        BY <3>2, <3>3, <3>4, <3>5, <3>8, <4>1 DEF Opens
      <4>2. CASE q # p
        <5>1. proc'[q] = proc[q] /\ Opens(proc[q])
          BY <3>4, <3>8, <4>2
        <5>2. proc[q].user \in tangled \/ role[proc[q].user] = "merchant"
          BY <5>1, OwnersParts
        <5>3. proc[q].user \in Users
          BY <5>1, UnderWay DEF Opens, WorksOn, UserOps
        <5>4. CASE proc[q].user = u /\ r = "requester"
          BY <3>1, <5>1, <5>4 DEF Opens, Is
        <5>5. CASE proc[q].user # u \/ r = "merchant"
          BY <3>3, <3>7, <5>1, <5>2, <5>3, <5>5
        <5> QED
          BY <3>6, <5>4, <5>5
      <4> QED
        BY <4>1, <4>2
    <3>9. ASSUME NEW s \in Shops, shop[s].life = "live", shop[s].owner \notin tangled'
          PROVE  \/ role'[shop[s].owner] = "merchant"
                 \/ \E q \in Clerks : Deletes(proc'[q]) /\ proc'[q].user = shop[s].owner
      <4>1. \/ role[shop[s].owner] = "merchant"
            \/ \E q \in Clerks : Deletes(proc[q]) /\ proc[q].user = shop[s].owner
        BY <3>7, <3>9, OwnersParts
      <4>2. shop[s].owner \in Users
        BY <3>9, RowsTyped
      <4>3. \A q \in Clerks : Deletes(proc[q]) => q # p /\ proc'[q] = proc[q]
        BY <3>2, <3>4 DEF Deletes
      <4>4. CASE shop[s].owner # u \/ r = "merchant"
        BY <3>3, <4>1, <4>2, <4>3, <4>4
      <4>5. CASE shop[s].owner = u /\ Deletes(w)
        BY <3>4, <3>5, <4>5 DEF Deletes
      <4>6. CASE shop[s].owner = u /\ v.row.role = "requester"
        <5>1. role[u] = "requester"
          BY <3>1, <3>9, <4>6
        <5> QED
          BY <4>1, <4>3, <4>6, <5>1
      <4> QED
        BY <3>5, <3>6, <4>4, <4>5, <4>6
    <3>10. \A s, t \in Shops : shop[s].life = "live" /\ shop[t].life = "live"
             /\ shop[s].owner = shop[t].owner => s = t \/ shop[s].owner \in tangled'
      BY <3>7, OwnersParts
    <3> QED
      BY <3>1, <3>8, <3>9, <3>10, OwnersParts
  <2> QED
    BY <1>2, <2>1, <2>2, <2>3 DEF UserStep
<1>3. CASE ShopStep(p)
  <2>1. ASSUME NEW w \in Handler, OpensShop(p, w) PROVE OwnersInv'
    <3> DEFINE v == proc[p]
    <3>1. /\ v # Nothing /\ Opens(v) /\ v.on \in Shops /\ v.user \in Users /\ role' = role
          /\ ~Deletes(v) /\ ~Opens(w)
      BY <2>1, UnderWay
      DEF OpensShop, CreateMerchant, Same4, Alike, WorksOn, UserOps, Opens, Deletes
    <3>2. CASE UNCHANGED <<shop, tangled>>
      BY <1>1, <2>1, <3>1, <3>2 DEF OpensShop
    <3>3. CASE /\ shop' = [shop EXCEPT ![v.on] =
                              [life |-> "live", owner |-> v.user, open |-> TRUE,
                               auto |-> FALSE, image |-> Nothing]]
               /\ tangled' = IF ShopsOf(v.user) # {} THEN tangled \cup {v.user} ELSE tangled
      <4>1. /\ shop'[v.on].owner = v.user
            /\ \A s \in Shops : s # v.on => shop'[s] = shop[s]
        BY <3>1, <3>3, BasicsParts DEF RowBasics
      <4>2. tangled \subseteq tangled' /\ (v.user \in tangled' \/ role[v.user] = "merchant")
        BY <3>1, <3>3, OwnersParts
      <4>3. proc'[p] = w /\ \A q \in Clerks : q # p => proc'[q] = proc[q]
        BY <2>1, BasicsParts, ToTyped DEF OpensShop
      <4>4. \A s \in Shops : shop[s].life = "live" /\ shop[s].owner = v.user
                                => v.user \in tangled'
        BY <3>3 DEF ShopsOf, Live
      <4>5. \A s, t \in Shops : shop'[s].life = "live" /\ shop'[t].life = "live"
              /\ shop'[s].owner = shop'[t].owner => s = t \/ shop'[s].owner \in tangled'
        BY <3>3, <4>1, <4>4, OwnersParts
      <4>6. \A q \in Clerks : Opens(proc'[q]) =>
              proc'[q].user \in tangled' \/ role'[proc'[q].user] = "merchant"
        BY <3>1, <3>3, <4>3, OwnersParts
      <4>7. ASSUME NEW s \in Shops, shop'[s].life = "live", shop'[s].owner \notin tangled'
            PROVE  \/ role'[shop'[s].owner] = "merchant"
                   \/ \E q \in Clerks : Deletes(proc'[q]) /\ proc'[q].user = shop'[s].owner
        <5>1. CASE s = v.on
          BY <3>1, <4>1, <4>2, <4>7, <5>1
        <5>2. CASE s # v.on
          <6>1. \/ role[shop[s].owner] = "merchant"
                \/ \E q \in Clerks : Deletes(proc[q]) /\ proc[q].user = shop[s].owner
            BY <3>3, <4>1, <4>7, <5>2, OwnersParts
          <6>2. \A q \in Clerks : Deletes(proc[q]) => proc'[q] = proc[q]
            BY <3>1, <4>3
          <6> QED
            BY <3>1, <4>1, <5>2, <6>1, <6>2
        <5> QED
          BY <5>1, <5>2
      <4> QED
        BY <4>5, <4>6, <4>7, OwnersParts
    <3> QED
      BY <2>1, <3>2, <3>3 DEF OpensShop, CreateMerchant
  <2>2. ASSUME NEW w \in Handler, ClosesShop(p, w) PROVE OwnersInv'
    <3> DEFINE v == proc[p]
    <3>1. /\ v # Nothing /\ Deletes(v) /\ v.on \in Shops /\ v.user = shop[v.on].owner
          /\ role' = role /\ ~Opens(w) /\ ~Deletes(w)
          /\ shop' = [shop EXCEPT ![v.on].life = "gone"]
          /\ tangled' = IF Live(v.on) THEN tangled ELSE tangled \cup {v.user}
      <4>1. v # Nothing /\ v.op = "delete" /\ v.at = "delete" /\ w.at = "sweep"
            /\ DeleteMerchant(p)
        BY <2>2 DEF ClosesShop, Same4, Alike
      <4>2. v.on \in Shops /\ v.user = shop[v.on].owner
        BY <4>1, UnderWay DEF WorksOn, OwnerKept
      <4> QED
        BY <4>1, <4>2 DEF DeleteMerchant, Opens, Deletes
    <3>2. /\ shop'[v.on].life = "gone" /\ \A s \in Shops : s # v.on => shop'[s] = shop[s]
      BY <3>1, BasicsParts DEF RowBasics, Shop
    <3>3. proc'[p] = w /\ \A q \in Clerks : q # p => proc'[q] = proc[q]
      BY <2>2, BasicsParts, ToTyped DEF ClosesShop
    <3>4. tangled \subseteq tangled'
      BY <3>1
    <3>5. \A s, t \in Shops : shop'[s].life = "live" /\ shop'[t].life = "live"
             /\ shop'[s].owner = shop'[t].owner => s = t \/ shop'[s].owner \in tangled'
      BY <3>2, <3>4, OwnersParts
    <3>6. \A q \in Clerks : Opens(proc'[q]) =>
              proc'[q].user \in tangled' \/ role'[proc'[q].user] = "merchant"
      BY <3>1, <3>3, <3>4, OwnersParts
    <3>7. ASSUME NEW s \in Shops, shop'[s].life = "live", shop'[s].owner \notin tangled'
          PROVE  \/ role'[shop'[s].owner] = "merchant"
                 \/ \E q \in Clerks : Deletes(proc'[q]) /\ proc'[q].user = shop'[s].owner
      <4>1. s # v.on /\ shop'[s] = shop[s]
        BY <3>2, <3>7
      <4>2. shop[s].owner # v.user
        <5>1. CASE Live(v.on)
          <6>1. shop[v.on].life = "live"
            BY <3>1, <5>1 DEF Live
          <6> QED
            BY <3>1, <3>4, <3>7, <4>1, <6>1, OwnersParts
        <5>2. CASE ~Live(v.on)
          BY <3>1, <3>7, <4>1, <5>2
        <5> QED
          BY <5>1, <5>2
      <4>3. \/ role[shop[s].owner] = "merchant"
            \/ \E q \in Clerks : Deletes(proc[q]) /\ proc[q].user = shop[s].owner
        BY <3>4, <3>7, <4>1, OwnersParts
      <4> QED
        BY <3>1, <3>3, <4>1, <4>2, <4>3
    <3> QED
      BY <3>5, <3>6, <3>7, OwnersParts
  <2>3. ASSUME NEW w \in Handler, NEW new \in Shop, SavesShop(p, w, new) PROVE OwnersInv'
    <3> DEFINE v == proc[p]
    <3>1. /\ v # Nothing /\ v.op \in ShopOps /\ v.at = "write" /\ v.on \in Shops
          /\ v.row.shop.owner = shop[v.on].owner /\ w.op = v.op
      BY <2>3, UnderWay
      DEF SavesShop, WritesShop, WorksOn, OwnerKept, Same4, Alike
    <3>2. ~Deletes(v) /\ ~Opens(w)
      BY <1>0, <3>1 DEF Deletes, Opens
    <3>3. /\ role' = role /\ tangled' = tangled /\ new.owner = v.row.shop.owner
          /\ (UNCHANGED shop \/ (Live(v.on) /\ shop' = [shop EXCEPT ![v.on] = new]))
      BY <2>3 DEF SavesShop, SaveShop, Same4
    <3>4. \A s \in Shops : shop'[s].life = "live" =>
                shop[s].life = "live" /\ shop'[s].owner = shop[s].owner
      BY <3>1, <3>3, BasicsParts DEF RowBasics, Live
    <3> QED
      BY <2>3, <3>2, <3>3, <3>4, OwnersKept DEF SavesShop
  <2>4. ASSUME NEW w \in Handler,
               StartsDelete(p, w) \/ ReadsShop(p, w) \/ StartsProfile(p, w)
        PROVE  OwnersInv'
    <3>1. ~Deletes(proc[p]) /\ ~Opens(w)
      BY <1>0, <2>4
      DEF StartsDelete, ReadsShop, StartsProfile, WritesShop, Deletes, Opens
    <3> QED
      BY <1>1, <2>4, <3>1 DEF StartsDelete, ReadsShop, StartsProfile, Rests, shopVars
  <2>5. CASE Gives(p)
    BY <1>0, <1>1, <2>5 DEF Gives, Rests, shopVars, Deletes, Opens
  <2> QED
    BY <1>3, <2>1, <2>2, <2>3, <2>4, <2>5 DEF ShopStep
<1>4. CASE ListStep(p)
  <2>1. CASE Flushes(p)
    BY <1>1, <2>1 DEF Flushes, Flush, ShopRests, shopVars, Deletes, Opens
  <2>2. CASE FillsList(p)
    BY <1>1, <2>2 DEF FillsList, ShopRests, shopVars, Deletes, Opens
  <2>3. CASE BreaksOff(p)
    <3>1. /\ UNCHANGED <<role, shop>> /\ tangled \subseteq tangled'
          /\ Deletes(proc[p]) => proc[p].user \in tangled'
      BY <2>3 DEF BreaksOff, Breaks, Deletes
    <3> QED
      BY <2>3, <3>1, OwnersKept DEF BreaksOff, Opens
  <2>4. ASSUME NEW w \in Handler, StartsList(p, w) PROVE OwnersInv'
    BY <1>1, <2>4 DEF StartsList, Rests, shopVars, Deletes, Opens
  <2> QED
    BY <1>4, <2>1, <2>2, <2>3, <2>4 DEF ListStep
<1>5. CASE PartStep(p)
  <2>1. ASSUME NEW w \in Handler,
               \/ StartsDraft(p, w) \/ StartsEdit(p, w) \/ ReadsPart(p, w)
               \/ StartsErase(p, w) \/ SavesPart(p, w) \/ ErasesPart(p, w)
        PROVE  OwnersInv'
    <3>1. /\ w.op \in Kinds /\ (proc[p] = Nothing \/ proc[p].op = w.op)
          /\ UNCHANGED <<role, shop, tangled>> /\ To(p, w) /\ Lawful(w)
      <4>1. SavesPart(p, w) => w.op \in Kinds
        BY DEF SavesPart, Writes
      <4> QED
        BY <2>1, <4>1
        DEF StartsDraft, StartsEdit, ReadsPart, StartsErase, SavesPart, ErasesPart, Erases,
            Rests, ShopRests, shopVars, Same4, Alike
    <3> QED
      BY <1>0, <1>1, <3>1 DEF Deletes, Opens
  <2>2. ASSUME NEW w \in Handler \cup {Nothing}, InsertsPart(p, w) \/ SweepsStore(p, w)
        PROVE  OwnersInv'
    <3>1. /\ UNCHANGED <<role, shop, tangled>> /\ To(p, w) /\ (w = Nothing \/ Lawful(w))
      BY <2>2 DEF InsertsPart, SweepsStore, ShopRests, shopVars
    <3>2. ~Deletes(proc[p]) /\ ~Opens(w)
      BY <1>0, <2>2 DEF InsertsPart, SweepsStore, Deletes, Opens, Alike
    <3> QED
      BY <1>1, <3>1, <3>2
  <2>3. ASSUME NEW w \in Handler, NEW i \in Images, Uploads(p, w, i) PROVE OwnersInv'
    BY <1>1, <2>3 DEF Uploads, ShopRests, shopVars, Deletes, Opens
  <2>4. CASE Gives(p)
    BY <1>0, <1>1, <2>4 DEF Gives, Rests, shopVars, Deletes, Opens
  <2> QED
    BY <1>5, <2>1, <2>2, <2>3, <2>4 DEF PartStep
<1> QED
    BY <1>2, <1>3, <1>4, <1>5 DEF ClerkStep

-----------------------------------------------------------------------------
(* The cached list.                                                        *)

Listed(s) == IF shop[s].life = "live" THEN {shop[s].open} ELSE {}
TellsOf(w, s) ==
    /\ w # Nothing /\ w.op \in ShopOps \cup {"create", "delete"} /\ w.on = s
    /\ shop[s].life = "live" \/ (w.op = "delete" /\ w.at \in {"sweep", "flush"})

\* What is said of the list, spelled out.
LEMMA ListParts ==
    /\ ListInv <=>
         \/ nearby = NoCache \/ old
         \/ \A s \in Shops : nearby[s] = Listed(s) \/ \E p \in Clerks : TellsOf(proc[p], s)
    /\ ListInv' <=>
         \/ nearby' = NoCache \/ old'
         \/ \A s \in Shops : nearby'[s] = Listed(s)'
                               \/ \E p \in Clerks : TellsOf(proc[p], s)'
    BY DEF ListInv, Told, Tells, TellsOf, Listed, View, Live

\* No shop changes, and nobody who was to tell of it stops.
LEMMA ListKept ==
    ASSUME Basics, ListInv, NEW p \in Clerks, NEW w, To(p, w), w = Nothing \/ Lawful(w),
           UNCHANGED <<shop, nearby, old>>,
           \A s \in Shops : TellsOf(proc[p], s) => TellsOf(w, s)
    PROVE  ListInv'
<1>1. proc'[p] = w /\ \A q \in Clerks : q # p => proc'[q] = proc[q]
    BY BasicsParts, ToTyped
<1>2. ASSUME NEW s \in Shops, NEW q \in Clerks, TellsOf(proc[q], s)
      PROVE  TellsOf(proc[q], s)'
  <2>1. CASE q = p
    <3>1. TellsOf(w, s)
      BY <1>2, <2>1
    <3> QED
      BY <1>1, <2>1, <3>1 DEF TellsOf
  <2>2. CASE q # p
    BY <1>1, <1>2, <2>2 DEF TellsOf
  <2> QED
    BY <2>1, <2>2
<1>3. \A s \in Shops : Listed(s)' = Listed(s)
    BY DEF Listed
<1> QED
    BY <1>2, <1>3, ListParts

\* One shop changes, and he who changed it is to tell.
LEMMA ListTold ==
    ASSUME Basics, ListInv, NEW p \in Clerks, NEW w \in Handler, To(p, w), Lawful(w),
           NEW s0 \in Shops, \A s \in Shops : s # s0 => shop'[s] = shop[s],
           UNCHANGED <<nearby, old>>, proc[p] # Nothing, proc[p].on = s0, w.on = s0,
           w.op \in ShopOps \cup {"create", "delete"},
           shop'[s0].life = "live" \/ (w.op = "delete" /\ w.at \in {"sweep", "flush"})
    PROVE  ListInv'
<1>1. proc'[p] = w /\ \A q \in Clerks : q # p => proc'[q] = proc[q]
    BY BasicsParts, ToTyped
<1>2. TellsOf(proc[p], s0)'
    BY <1>1, HandlerFields DEF TellsOf
<1>3. ASSUME NEW s \in Shops, s # s0, NEW q \in Clerks, TellsOf(proc[q], s)
      PROVE  TellsOf(proc[q], s)'
  <2>1. q # p
    BY <1>3 DEF TellsOf
  <2> QED
    BY <1>1, <1>3, <2>1 DEF TellsOf
<1>4. \A s \in Shops : s # s0 => Listed(s)' = Listed(s)
    BY DEF Listed
<1> QED
    BY <1>2, <1>3, <1>4, ListParts

\* The list under the steps of the clerks.
LEMMA ClerkList ==
    ASSUME Basics, ListInv, NEW p \in Clerks, ClerkStep(p)
    PROVE  ListInv'
<1>1. ASSUME NEW w, To(p, w), w = Nothing \/ Lawful(w), UNCHANGED <<shop, cacheVars>>,
             \A s \in Shops : TellsOf(proc[p], s) => TellsOf(w, s)
      PROVE  ListInv'
    BY <1>1, ListKept DEF cacheVars
<1>2. CASE UserStep(p)
  <2>1. ASSUME NEW w \in Handler, StartsUser(p, w) PROVE ListInv'
    BY <1>1, <2>1 DEF StartsUser, Rests, shopVars, TellsOf
  <2>2. ASSUME NEW w \in Handler, FindsUser(p, w) \/ FailsUser(p, w) PROVE ListInv'
    <3>1. /\ To(p, w) /\ Lawful(w) /\ UNCHANGED <<shop, cacheVars>> /\ Alike(proc[p], w)
          /\ proc[p].at \in {"user", "role"} /\ w # Nothing
      BY <2>2, HandlerFields DEF FindsUser, FailsUser, Rests, shopVars, Same4
    <3> QED
      BY <1>1, <3>1 DEF TellsOf, Alike
  <2>3. ASSUME NEW w \in Handler \cup {Nothing}, NEW r \in Roles, WritesUser(p, w, r)
        PROVE  ListInv'
    <3>1. UNCHANGED <<shop, cacheVars>> /\ To(p, w)
      BY <2>3 DEF WritesUser, WriteUser
    <3>2. CASE w = Nothing /\ proc[p].op = "user"
      BY <1>1, <3>1, <3>2 DEF TellsOf, ShopOps
    <3>3. CASE Lawful(w) /\ Same4(proc[p], w)
      <4>1. w # Nothing /\ proc[p].at = "role"
        BY <2>3, <3>3, HandlerFields DEF WritesUser, Lawful
      <4> QED
        BY <1>1, <3>1, <3>3, <4>1 DEF TellsOf, Same4, Alike
    <3> QED
      BY <2>3, <3>2, <3>3 DEF WritesUser
  <2> QED
    BY <1>2, <2>1, <2>2, <2>3 DEF UserStep
<1>3. CASE ShopStep(p)
  <2>1. ASSUME NEW w \in Handler, OpensShop(p, w) PROVE ListInv'
    <3> DEFINE v == proc[p]
    <3>1. /\ v # Nothing /\ v.op = "create" /\ w.op = "create" /\ v.on \in Shops /\ w.on = v.on
          /\ To(p, w) /\ Lawful(w) /\ UNCHANGED <<nearby, old>>
      BY <2>1, UnderWay DEF OpensShop, Same4, Alike, WorksOn, CreateMerchant, cacheVars
    <3>2. CASE UNCHANGED <<shop, tangled>>
      <4>1. w # Nothing
        BY HandlerFields
      <4> QED
        BY <1>1, <3>1, <3>2, <4>1 DEF TellsOf, cacheVars
    <3>3. CASE shop' = [shop EXCEPT ![v.on] =
                              [life |-> "live", owner |-> v.user, open |-> TRUE,
                               auto |-> FALSE, image |-> Nothing]]
      <4>1. /\ shop'[v.on].life = "live"
            /\ \A s \in Shops : s # v.on => shop'[s] = shop[s]
        BY <3>1, <3>3, BasicsParts DEF RowBasics
      <4> QED
        BY <3>1, <4>1, ListTold
    <3> QED
      BY <2>1, <3>2, <3>3 DEF OpensShop, CreateMerchant
  <2>2. ASSUME NEW w \in Handler, ClosesShop(p, w) PROVE ListInv'
    <3> DEFINE v == proc[p]
    <3>1. /\ v # Nothing /\ w.op = "delete" /\ w.at = "sweep" /\ v.on \in Shops /\ w.on = v.on
          /\ To(p, w) /\ Lawful(w) /\ UNCHANGED <<nearby, old>>
          /\ shop' = [shop EXCEPT ![v.on].life = "gone"]
      BY <2>2, UnderWay DEF ClosesShop, Same4, Alike, WorksOn, DeleteMerchant, cacheVars
    <3>2. \A s \in Shops : s # v.on => shop'[s] = shop[s]
      BY <3>1, BasicsParts DEF RowBasics
    <3> QED
      BY <3>1, <3>2, ListTold
  <2>3. ASSUME NEW w \in Handler, NEW new \in Shop, SavesShop(p, w, new) PROVE ListInv'
    <3> DEFINE v == proc[p]
    <3>1. /\ v # Nothing /\ w.op = v.op /\ v.op \in ShopOps /\ v.on \in Shops /\ w.on = v.on
          /\ To(p, w) /\ Lawful(w) /\ UNCHANGED <<nearby, old>> /\ new.life = "live"
          /\ (UNCHANGED shop \/ (Live(v.on) /\ shop' = [shop EXCEPT ![v.on] = new]))
      BY <2>3, UnderWay DEF SavesShop, SaveShop, Same4, Alike, WorksOn, WritesShop, cacheVars
    <3>2. CASE UNCHANGED shop
      <4>1. w # Nothing
        BY HandlerFields
      <4>2. v.op # "delete"
        BY <3>1 DEF ShopOps
      <4> QED
        BY <1>1, <3>1, <3>2, <4>1, <4>2 DEF TellsOf, cacheVars
    <3>3. CASE shop' = [shop EXCEPT ![v.on] = new]
      <4>1. /\ shop'[v.on].life = "live"
            /\ \A s \in Shops : s # v.on => shop'[s] = shop[s]
        BY <3>1, <3>3, BasicsParts DEF RowBasics
      <4> QED
        BY <3>1, <4>1, ListTold
    <3> QED
      BY <3>1, <3>2, <3>3
  <2>4. ASSUME NEW w \in Handler, StartsDelete(p, w) \/ StartsProfile(p, w)
        PROVE  ListInv'
    BY <1>1, <2>4 DEF StartsDelete, StartsProfile, Rests, shopVars, TellsOf
  <2>5. ASSUME NEW w \in Handler, ReadsShop(p, w) PROVE ListInv'
    <3>1. /\ To(p, w) /\ Lawful(w) /\ UNCHANGED <<shop, cacheVars>> /\ w # Nothing
          /\ w.op \in ShopOps /\ Live(w.on)
          /\ proc[p] = Nothing \/ proc[p].on = w.on
      BY <2>5, HandlerFields DEF ReadsShop, Rests, shopVars, WritesShop
    <3>2. \A s \in Shops : TellsOf(proc[p], s) => TellsOf(w, s)
      BY <3>1 DEF TellsOf, Live
    <3> QED
      BY <1>1, <3>1, <3>2
  <2>6. CASE Gives(p)
    <3>1. \A s \in Shops : ~TellsOf(proc[p], s)
      BY <2>6 DEF Gives, TellsOf, Live, ShopOps, Kinds
    <3> QED
      BY <1>1, <2>6, <3>1 DEF Gives, Rests, shopVars
  <2> QED
    BY <1>3, <2>1, <2>2, <2>3, <2>4, <2>5, <2>6 DEF ShopStep
<1>4. CASE ListStep(p)
  <2>1. CASE Flushes(p)
    BY <2>1, ListParts DEF Flushes, Flush, InvalidateCache
  <2>2. CASE FillsList(p)
    <3>1. nearby' = proc[p].list /\ (old' \/ nearby' = View) /\ UNCHANGED shop
      BY <2>2 DEF FillsList, ShopRests, shopVars
    <3>2. CASE nearby' = View
      <4>1. \A s \in Shops : nearby'[s] = Listed(s)'
        BY <3>1, <3>2 DEF View, Listed, Live
      <4> QED
        BY <4>1, ListParts
    <3> QED
      BY <3>1, <3>2, ListParts
  <2>3. CASE BreaksOff(p)
    <3>1. /\ UNCHANGED <<shop, nearby>>
          /\ old' \/ nearby = NoCache \/ nearby = View
      BY <2>3 DEF BreaksOff, Breaks
    <3>2. CASE nearby = View
      <4>1. \A s \in Shops : nearby'[s] = Listed(s)'
        BY <3>1, <3>2 DEF View, Listed, Live
      <4> QED
        BY <4>1, ListParts
    <3> QED
      BY <3>1, <3>2, ListParts
  <2>4. ASSUME NEW w \in Handler, StartsList(p, w) PROVE ListInv'
    BY <1>1, <2>4 DEF StartsList, Rests, shopVars, TellsOf
  <2> QED
    BY <1>4, <2>1, <2>2, <2>3, <2>4 DEF ListStep
<1>5. CASE PartStep(p)
  <2>1. ASSUME NEW w \in Handler,
               \/ StartsDraft(p, w) \/ StartsEdit(p, w) \/ ReadsPart(p, w)
               \/ StartsErase(p, w) \/ SavesPart(p, w) \/ ErasesPart(p, w)
        PROVE  ListInv'
    <3>1. /\ w.op \in Kinds /\ (proc[p] = Nothing \/ proc[p].op = w.op)
          /\ UNCHANGED <<shop, cacheVars>> /\ To(p, w) /\ Lawful(w)
      <4>1. SavesPart(p, w) => w.op \in Kinds
        BY DEF SavesPart, Writes
      <4> QED
        BY <2>1, <4>1
        DEF StartsDraft, StartsEdit, ReadsPart, StartsErase, SavesPart, ErasesPart, Erases,
            Rests, ShopRests, shopVars, Same4, Alike
    <3>2. \A s \in Shops : ~TellsOf(proc[p], s)
      BY <3>1 DEF TellsOf, ShopOps, Kinds
    <3> QED
      BY <1>1, <3>1, <3>2
  <2>2. ASSUME NEW w \in Handler \cup {Nothing}, InsertsPart(p, w) PROVE ListInv'
    <3>1. /\ UNCHANGED <<shop, cacheVars>> /\ To(p, w) /\ (w = Nothing \/ Lawful(w))
          /\ proc[p].op \in Kinds
      BY <2>2 DEF InsertsPart, ShopRests, shopVars
    <3>2. \A s \in Shops : ~TellsOf(proc[p], s)
      BY <3>1 DEF TellsOf, ShopOps, Kinds
    <3> QED
      BY <1>1, <3>1, <3>2
  <2>3. ASSUME NEW w \in Handler \cup {Nothing}, SweepsStore(p, w) PROVE ListInv'
    <3>1. UNCHANGED <<shop, cacheVars>> /\ To(p, w)
      BY <2>3 DEF SweepsStore, ShopRests, shopVars
    <3>2. CASE w = Nothing /\ proc[p].op \in Kinds
      <4>1. \A s \in Shops : ~TellsOf(proc[p], s)
        BY <3>2 DEF TellsOf, ShopOps, Kinds
      <4> QED
        BY <1>1, <3>1, <3>2, <4>1
    <3>3. CASE Lawful(w) /\ Same4(proc[p], w) /\ w.op = "delete" /\ w.at = "flush"
      <4>1. w # Nothing
        BY <3>3, HandlerFields DEF Lawful
      <4> QED
        BY <1>1, <3>1, <3>3, <4>1 DEF TellsOf, Same4, Alike
    <3> QED
      BY <2>3, <3>2, <3>3 DEF SweepsStore
  <2>4. ASSUME NEW w \in Handler, NEW i \in Images, Uploads(p, w, i) PROVE ListInv'
    <3>1. /\ UNCHANGED <<shop, cacheVars>> /\ To(p, w) /\ Lawful(w) /\ w # Nothing
          /\ Alike(proc[p], w) /\ proc[p].at = "form"
      BY <2>4, HandlerFields DEF Uploads, ShopRests, shopVars
    <3> QED
      BY <1>1, <3>1 DEF TellsOf, Alike
  <2>5. CASE Gives(p)
    BY <1>3, <2>5 DEF ShopStep
  <2> QED
    BY <1>5, <2>1, <2>2, <2>3, <2>4, <2>5 DEF PartStep
<1> QED
    BY <1>2, <1>3, <1>4, <1>5 DEF ClerkStep

\* Neither the owners nor the list concern the reviewers; after a minute there is no list.
LEMMA OthersOwnersList ==
    ASSUME OwnersInv, ListInv,
           (\E p \in Reviewers : Reviewing(p)) \/ MinutePasses \/ UNCHANGED vars
    PROVE  OwnersInv' /\ ListInv'
<1>1. UNCHANGED <<role, shop, tangled, proc>>
    BY DEF Reviewing, MinutePasses, ShopRests, shopVars, vars
<1>2. UNCHANGED <<nearby, old>> \/ nearby' = NoCache
    BY DEF Reviewing, MinutePasses, cacheVars, vars
<1>3. OwnersInv'
    BY <1>1, OwnersParts DEF Opens, Deletes
<1>4. CASE UNCHANGED <<nearby, old>>
  <2>1. /\ \A s \in Shops : Listed(s)' = Listed(s)
        /\ \A s \in Shops, p \in Clerks : TellsOf(proc[p], s) => TellsOf(proc[p], s)'
    BY <1>1 DEF Listed, TellsOf
  <2>2. nearby' = nearby /\ old' = old
    BY <1>4
  <2>3. CASE \A s \in Shops : nearby[s] = Listed(s) \/ \E p \in Clerks : TellsOf(proc[p], s)
    <3>1. \A s \in Shops : nearby'[s] = Listed(s)' \/ \E p \in Clerks : TellsOf(proc[p], s)'
      BY <2>1, <2>2, <2>3
    <3> QED
      BY <1>3, <3>1, ListParts
  <2>4. CASE nearby = NoCache \/ old
    BY <1>3, <2>2, <2>4, ListParts
  <2> QED
    BY <2>3, <2>4, ListParts
<1> QED
    BY <1>2, <1>3, <1>4, ListParts

-----------------------------------------------------------------------------
(* Pictures.                                                               *)

HomeMap == [Images -> Places \cup {Nothing}]

\* One handler changes, and what is in the rows belongs to them.
LEMMA HomesStep ==
    ASSUME Basics, NEW home \in HomeMap, AllBelong(home), NEW p \in Clerks, NEW w, To(p, w),
           w = Nothing \/ Lawful(w), w # Nothing => WorkBelongs(home, w), RowsBelong(home)'
    PROVE  Homes'
<1>1. proc'[p] = w /\ \A q \in Clerks : q # p => proc'[q] = proc[q]
    BY BasicsParts, ToTyped
<1>2. \A q \in Clerks : proc'[q] # Nothing => WorkBelongs(home, proc'[q])
    BY <1>1 DEF AllBelong
<1>3. AllBelong(home)'
    BY <1>2 DEF AllBelong
<1> QED
    BY <1>3 DEF Homes, HomeMap

\* What a form brings is right for one handler.
LEMMA FormsStep ==
    ASSUME Basics, FormsOK, NEW p \in Clerks, NEW w, To(p, w), w = Nothing \/ Lawful(w),
           w # Nothing /\ Fills(w) => FormOK(w)
    PROVE  FormsOK'
<1>1. proc'[p] = w /\ \A q \in Clerks : q # p => proc'[q] = proc[q]
    BY BasicsParts, ToTyped
<1>2. \A q \in Clerks : proc'[q] # Nothing /\ Fills(proc'[q]) => FormOK(proc'[q])
    BY <1>1 DEF FormsOK
<1> QED
    BY <1>2 DEF FormsOK

\* What nobody knew stays so: the others' handlers, and one's own.
LEMMA FreshStep ==
    ASSUME Basics, FreshOK, NEW p \in Clerks, NEW w, To(p, w), w = Nothing \/ Lawful(w),
           \A q \in Clerks : q # p /\ proc[q] # Nothing /\ Fresh(proc[q]) =>
               LET i == proc[q].form IN
               /\ store'[i] = "stored" /\ \A x \in Parts : part'[x].image # i
               /\ w # Nothing => ~Knows(w, i) /\ ~Brings(w, i),
           w # Nothing /\ Fresh(w) =>
               /\ store'[w.form] = "stored" /\ ~Knows(w, w.form)
               /\ \A x \in Parts : part'[x].image # w.form
               /\ \A q \in Clerks : q # p /\ proc[q] # Nothing =>
                      ~Knows(proc[q], w.form) /\ ~Brings(proc[q], w.form)
    PROVE  FreshOK'
<1>1. proc'[p] = w /\ \A q \in Clerks : q # p => proc'[q] = proc[q]
    BY BasicsParts, ToTyped
<1>2. ASSUME NEW q \in Clerks, proc'[q] # Nothing, Fresh(proc'[q])
      PROVE  /\ store'[proc'[q].form] = "stored"
             /\ \A x \in Parts : part'[x].image # proc'[q].form
             /\ \A r \in Clerks : proc'[r] # Nothing =>
                    /\ ~Knows(proc'[r], proc'[q].form)
                    /\ Brings(proc'[r], proc'[q].form) => r = q
  <2>1. CASE q = p
    BY <1>1, <1>2, <2>1
  <2>2. CASE q # p
    BY <1>1, <1>2, <2>2 DEF FreshOK, Unknown
  <2> QED
    BY <2>1, <2>2
<1> QED
    BY <1>2 DEF FreshOK, Unknown

\* Parts that are new: rows stay or come alive, and one handler changes.
LEMMA NewStep ==
    ASSUME Basics, NewParts, NEW p \in Clerks, NEW w, To(p, w), w = Nothing \/ Lawful(w),
           \A x \in Parts : part'[x].life = "none" =>
               part[x].life = "none" /\ part'[x].image = part[x].image,
           \A z \in Places : LifeOf(z) # "none" => (LifeOf(z) # "none")',
           \A x \in Parts : part'[x].life # "none" /\ part[x].life = "none" =>
               LifeOf(Parent[x]) # "none",
           w # Nothing /\ w.op \in Kinds /\ part'[w.on].life = "none" =>
               /\ w.at = "form" /\ w.base = Nothing
               /\ \A q \in Clerks : q # p /\ proc[q] # Nothing => ~OnPart(proc[q], w.on)
    PROVE  NewParts'
<1>1. proc'[p] = w /\ \A q \in Clerks : q # p => proc'[q] = proc[q]
    BY BasicsParts, ToTyped
<1>2. ASSUME NEW x \in Parts, part'[x].life = "none"
      PROVE  /\ part'[x].image = Nothing
             /\ \A q \in Clerks : proc'[q] # Nothing /\ OnPart(proc'[q], x) =>
                  /\ proc'[q].at = "form" /\ proc'[q].base = Nothing
                  /\ \A r \in Clerks : proc'[r] # Nothing /\ OnPart(proc'[r], x) => r = q
  <2>1. part[x].life = "none" /\ part'[x].image = Nothing
    BY <1>2 DEF NewParts
  <2>2. ASSUME NEW q \in Clerks, proc'[q] # Nothing, OnPart(proc'[q], x)
        PROVE  /\ proc'[q].at = "form" /\ proc'[q].base = Nothing
               /\ \A r \in Clerks : proc'[r] # Nothing /\ OnPart(proc'[r], x) => r = q
    <3>1. CASE q = p
      BY <1>1, <1>2, <2>2, <3>1 DEF OnPart
    <3>2. CASE q # p
      <4>1. /\ proc[q] # Nothing /\ OnPart(proc[q], x) /\ proc'[q] = proc[q]
            /\ proc[q].at = "form" /\ proc[q].base = Nothing
            /\ \A r \in Clerks : proc[r] # Nothing /\ OnPart(proc[r], x) => r = q
        BY <1>1, <2>1, <2>2, <3>2 DEF NewParts
      <4>2. ~(proc'[p] # Nothing /\ OnPart(proc'[p], x))
        BY <1>1, <1>2, <3>2, <4>1 DEF OnPart
      <4> QED
        BY <1>1, <4>1, <4>2
    <3> QED
      BY <3>1, <3>2
  <2> QED
    BY <2>1, <2>2
<1>3. ASSUME NEW x \in Parts, part'[x].life # "none" PROVE (LifeOf(Parent[x]) # "none")'
  <2>1. LifeOf(Parent[x]) # "none"
    BY <1>3 DEF NewParts
  <2> QED
    BY <2>1, MerchantsAssumption DEF Places
<1>4. \A x \in Parts : part'[x].life # "none" => (LifeOf(Parent[x]) # "none")'
    BY <1>3
<1> QED
    BY <1>2, <1>4 DEF NewParts

\* Those who are about to write a part still agree, if his picture is the same, or none of
\* their pages shows it.
LEMMA WritersStep ==
    ASSUME Basics, WritersAgree, NEW p \in Clerks, NEW w, To(p, w), w = Nothing \/ Lawful(w),
           muddled \subseteq muddled',
           \A q \in Clerks, x \in Parts :
               /\ q # p /\ proc[q] # Nothing /\ Writes(proc[q]) /\ proc[q].on = x
               /\ part'[x].life = "live" /\ x \notin muddled' /\ proc[q].base = part'[x].image
               => part[x].life = "live" /\ proc[q].base = part[x].image,
           w # Nothing /\ Writes(w) /\ w.base = part'[w.on].image => ReadSo(w)
    PROVE  WritersAgree'
<1>1. proc'[p] = w /\ \A q \in Clerks : q # p => proc'[q] = proc[q]
    BY BasicsParts, ToTyped
<1>2. ASSUME NEW q \in Clerks, proc'[q] # Nothing, Writes(proc'[q]),
             part'[proc'[q].on].life = "live", proc'[q].on \notin muddled',
             proc'[q].base = part'[proc'[q].on].image, proc'[q].on \in Parts
      PROVE  ReadSo(proc'[q])
  <2>1. CASE q = p
    BY <1>1, <1>2, <2>1
  <2>2. CASE q # p
    <3>1. proc[q].on \notin Shops
      BY <1>1, <1>2, <2>2, MerchantsAssumption
    <3>2. proc'[q] = proc[q] /\ Live(proc[q].on) /\ proc[q].base = part[proc[q].on].image
      BY <1>1, <1>2, <2>2, <3>1 DEF Live
    <3> QED
      BY <1>2, <3>2 DEF WritersAgree
  <2> QED
    BY <2>1, <2>2
<1>3. ASSUME NEW q \in Clerks, proc'[q] # Nothing, Writes(proc'[q])
      PROVE  proc'[q].on \in Parts
  <2>1. CASE q = p
    BY <1>1, <1>3, <2>1 DEF Lawful, WorksOn, Writes
  <2>2. CASE q # p
    BY <1>1, <1>3, <2>2, UnderWay DEF WorksOn, Writes
  <2> QED
    BY <2>1, <2>2
<1>4. ASSUME NEW q \in Clerks, proc'[q] # Nothing, Writes(proc'[q]),
             IF proc'[q].on \in Shops THEN shop'[proc'[q].on].life = "live"
                                     ELSE part'[proc'[q].on].life = "live",
             proc'[q].on \notin muddled', proc'[q].base = part'[proc'[q].on].image
      PROVE  ReadSo(proc'[q])
  <2>1. proc'[q].on \in Parts /\ part'[proc'[q].on].life = "live"
    BY <1>3, <1>4, MerchantsAssumption
  <2> QED
    BY <1>2, <1>4, <2>1
<1> QED
    BY <1>4 DEF WritersAgree, Live

-----------------------------------------------------------------------------
(* What is shown.                                                          *)

\* z is x, or what x is in.
Above(x, z) ==
    \/ z = x \/ z = ShopOfPart(x)
    \/ Parent[x] \in Parts /\ (\/ z = Parent[x]
                               \/ Parent[Parent[x]] \in Parts /\ z = Parent[Parent[x]])

\* A part is shown when all that it is in is live.
LEMMA ShownParts ==
    ASSUME NEW x \in Parts
    PROVE  /\ Shown(x) <=> \A z \in Places : Above(x, z) => LifeOf(z) = "live"
           /\ Shown(x)' <=> \A z \in Places : Above(x, z) => (LifeOf(z) = "live")'
           /\ \A z : Above(x, z) => z \in Places
<1>1. ShopOfPart(x) \in Shops /\ x \notin Shops
    BY MerchantsAssumption
<1>2. \A z : Above(x, z) => z \in Places
    BY <1>1 DEF Above, Places
<1>3. /\ Shown(x) <=> \A z \in Places : Above(x, z) => LifeOf(z) = "live"
      /\ Shown(x)' <=> \A z \in Places : Above(x, z) => (LifeOf(z) = "live")'
    BY <1>1, <1>2, MerchantsAssumption DEF Above, Places, Shown, Live, LifeOf
<1> QED
    BY <1>2, <1>3

\* What a part that is there is in, is there.
LEMMA ThereAbove ==
    ASSUME NewParts, NEW x \in Parts, LifeOf(x) # "none", NEW z, Above(x, z)
    PROVE  LifeOf(z) # "none"
<1> DEFINE y1 == Parent[x]
           y2 == Parent[y1]
<1>1. \A y \in Parts : LifeOf(y) # "none" => LifeOf(Parent[y]) # "none"
    BY MerchantsAssumption DEF NewParts, LifeOf
<1>2. Parent \in [Parts -> Parts \cup Shops] /\ Shops \cap Parts = {} /\ ShopOfPart(x) \in Shops
    BY MerchantsAssumption
<1>3. LifeOf(y1) # "none"
    BY <1>1
<1>4. y1 \in Parts => LifeOf(y2) # "none"
    BY <1>1, <1>3
<1>5. y1 \in Parts /\ y2 \in Parts => LifeOf(Parent[y2]) # "none"
    BY <1>1, <1>4
<1>6. z = ShopOfPart(x) => LifeOf(z) # "none"
    BY <1>2, <1>3, <1>4, <1>5 DEF ShopOfPart
<1> QED
    BY <1>3, <1>4, <1>6 DEF Above

\* A part that is shown was shown before, if at most one thing came alive, another one.
LEMMA ShownBefore ==
    ASSUME NewParts, NEW z0, NEW x \in Parts, Shown(x)', x # z0,
           \A z \in Places : (LifeOf(z) = "live")' =>
               LifeOf(z) = "live" \/ (z = z0 /\ LifeOf(z) = "none")
    PROVE  Shown(x)
<1>1. x \in Places /\ Above(x, x)
    BY DEF Places, Above
<1>2. LifeOf(x) = "live"
    BY <1>1, ShownParts
<1>3. \A z \in Places : Above(x, z) => LifeOf(z) = "live"
    BY <1>2, ThereAbove, ShownParts
<1> QED
    BY <1>3, ShownParts

-----------------------------------------------------------------------------
(* Pictures, while rows and store stay as they are.                        *)

\* What is shown is in the store, and nobody is about to remove it, if it was so before or
\* the picture is known to nobody else.
LEMMA SafeStep ==
    ASSUME Basics, ImagesKept, SweepsSafe, NEW p \in Clerks, NEW w, To(p, w),
           w = Nothing \/ Lawful(w), muddled \subseteq muddled',
           \A x \in Parts : x \notin muddled' /\ Shown(x)' /\ part'[x].image # Nothing =>
               /\ \/ Shown(x) /\ part'[x].image = part[x].image
                  \/ /\ store[part'[x].image] = "stored"
                     /\ \A q \in Clerks : q # p /\ proc[q] # Nothing /\ Sweeps(proc[q]) =>
                            part'[x].image \notin proc[q].images
               /\ store[part'[x].image] = "stored" => store'[part'[x].image] = "stored"
               /\ w # Nothing /\ w.at = "sweep" => part'[x].image \notin w.images
    PROVE  SweepsSafe' /\ ImagesKept'
<1>1. proc'[p] = w /\ \A q \in Clerks : q # p => proc'[q] = proc[q]
    BY BasicsParts, ToTyped
<1>2. ASSUME NEW x \in Parts, x \notin muddled', Shown(x)', part'[x].image # Nothing
      PROVE  store'[part'[x].image] = "stored"
    BY <1>2 DEF ImagesKept
<1>3. ASSUME NEW q \in Clerks, NEW x \in Parts, x \notin muddled', proc'[q] # Nothing,
             proc'[q].at = "sweep", Shown(x)', part'[x].image # Nothing
      PROVE  part'[x].image \notin proc'[q].images
  <2>1. CASE q = p
    BY <1>1, <1>3, <2>1
  <2>2. CASE q # p
    <3>1. proc'[q] = proc[q]
      BY <1>1, <2>2
    <3>2. Sweeps(proc[q])
      BY <1>3, <3>1, UnderWay, HandlerFields DEF WorksOn, Sweeps
    <3> QED
      BY <1>3, <2>2, <3>1, <3>2 DEF SweepsSafe
  <2> QED
    BY <2>1, <2>2
<1> QED
    BY <1>2, <1>3 DEF SweepsSafe, ImagesKept

Unseen(i) ==
    /\ \A x \in Parts : part[x].image # i
    /\ \A s \in Shops : shop[s].image # i

\* A picture that was uploaded and is not yet saved is in no row.
LEMMA FreshUnseen ==
    ASSUME Basics, PicturesInv, NEW q \in Clerks, proc[q] # Nothing, Fresh(proc[q])
    PROVE  /\ Unseen(proc[q].form) /\ Unknown(q, proc[q].form)
           /\ proc[q].form \in Images /\ proc[q].form # Nothing
<1> DEFINE i == proc[q].form
<1>1. PICK home \in HomeMap : AllBelong(home)
    BY DEF PicturesInv, Homes, HomeMap
<1>2. Unknown(q, i)
    BY DEF PicturesInv, FreshOK
<1>3. i \in Images /\ Key(proc[q]) = i /\ i # Nothing /\ Fills(proc[q])
    BY MerchantsAssumption DEF Fresh, Key, SanitizeStorageKey
<1>4. home[i] = proc[q].on /\ proc[q].on \in Parts
    BY <1>1, <1>3, UnderWay DEF AllBelong, WorkBelongs, Belongs, WorksOn, Fills
<1>5. \A s \in Shops : shop[s].image # i
    BY <1>1, <1>3, <1>4, MerchantsAssumption DEF AllBelong, RowsBelong, Belongs
<1> QED
    BY <1>2, <1>3, <1>5 DEF Unseen, Unknown

\* What a handler may become while nothing else changes.
WorkOK(p, w) ==
    /\ \A home \in HomeMap : AllBelong(home) => WorkBelongs(home, w)
    /\ Fills(w) => FormOK(w)
    /\ \A i \in Images :
          Unseen(i) /\ (proc[p] # Nothing => ~Knows(proc[p], i) /\ ~Brings(proc[p], i))
              => ~Knows(w, i) /\ ~Brings(w, i)
    /\ Fresh(w) => /\ proc[p] # Nothing /\ Fresh(proc[p]) /\ w.form = proc[p].form
                   /\ ~Knows(w, w.form)
    /\ w.op \in Kinds /\ part[w.on].life = "none" =>
          /\ w.at = "form" /\ w.base = Nothing
          /\ \A q \in Clerks : q # p /\ proc[q] # Nothing => ~OnPart(proc[q], w.on)
    /\ Writes(w) /\ w.base = part[w.on].image => ReadSo(w)
    /\ w.at # "sweep"

Still == UNCHANGED <<part, shop, store, muddled>>

\* A step that changes no row and no file keeps the pictures, when the work it leaves is in order.
LEMMA StillStep ==
    ASSUME Basics, PicturesInv, NEW p \in Clerks, NEW w, To(p, w), w = Nothing \/ Lawful(w),
           Still, w # Nothing => WorkOK(p, w)
    PROVE  PicturesInv'
<1>0. /\ part' = part /\ shop' = shop /\ store' = store /\ muddled' = muddled
      /\ \A x \in Parts : Shown(x)' <=> Shown(x)
      /\ \A z \in Places : LifeOf(z)' = LifeOf(z)
    BY DEF Still, Shown, Live, LifeOf
<1>1. Homes'
  <2>1. PICK home \in HomeMap : AllBelong(home)
    BY DEF PicturesInv, Homes, HomeMap
  <2>2. RowsBelong(home)'
    BY <1>0, <2>1 DEF AllBelong, RowsBelong
  <2> QED
    BY <2>1, <2>2, HomesStep DEF WorkOK
<1>2. FormsOK'
    BY FormsStep DEF PicturesInv, WorkOK
<1>3. FreshOK'
  <2>1. ASSUME NEW q \in Clerks, q # p, proc[q] # Nothing, Fresh(proc[q])
        PROVE  LET i == proc[q].form IN
               /\ store'[i] = "stored" /\ \A x \in Parts : part'[x].image # i
               /\ w # Nothing => ~Knows(w, i) /\ ~Brings(w, i)
    <3>1. /\ Unseen(proc[q].form) /\ Unknown(q, proc[q].form) /\ proc[q].form \in Images
      BY <2>1, FreshUnseen
    <3>2. proc[p] # Nothing => ~Knows(proc[p], proc[q].form) /\ ~Brings(proc[p], proc[q].form)
      BY <2>1, <3>1 DEF Unknown
    <3> QED
      BY <1>0, <3>1, <3>2 DEF WorkOK, Unknown
  <2>2. ASSUME w # Nothing, Fresh(w)
        PROVE  /\ store'[w.form] = "stored" /\ ~Knows(w, w.form)
               /\ \A x \in Parts : part'[x].image # w.form
               /\ \A q \in Clerks : q # p /\ proc[q] # Nothing =>
                      ~Knows(proc[q], w.form) /\ ~Brings(proc[q], w.form)
    <3>1. proc[p] # Nothing /\ Fresh(proc[p]) /\ w.form = proc[p].form /\ ~Knows(w, w.form)
      BY <2>2 DEF WorkOK
    <3>2. Unknown(p, w.form)
      BY <3>1, FreshUnseen
    <3> QED
      BY <1>0, <3>1, <3>2 DEF Unknown
  <2>3. FreshOK
    BY DEF PicturesInv
  <2> QED
    BY <2>1, <2>2, <2>3, FreshStep
<1>4. NewParts'
  <2>1. \A z \in Places : LifeOf(z) # "none" => (LifeOf(z) # "none")'
    BY <1>0
  <2> QED
    BY <1>0, <2>1, NewStep DEF PicturesInv, WorkOK
<1>5. WritersAgree'
    BY <1>0, WritersStep DEF PicturesInv, WorkOK
<1>6. SweepsSafe' /\ ImagesKept'
    BY <1>0, SafeStep DEF PicturesInv, WorkOK
<1> QED
    BY <1>1, <1>2, <1>3, <1>4, <1>5, <1>6 DEF PicturesInv

\* Handlers of users, of shops and of the list.
LEMMA PlainOK ==
    ASSUME Basics, NEW p \in Clerks, NEW w \in Handler, WorksOn(w), w.op \notin Kinds,
           w.at # "sweep",
           FillsShop(w) => \A home \in HomeMap : AllBelong(home) => Belongs(home, Key(w), w.on),
           WritesShop(w) => w.row.shop.image = shop[w.on].image,
           w.op = "delete" => Alike(proc[p], w) /\ proc[p] # Nothing
    PROVE  WorkOK(p, w)
<1>1. ~Fills(w) /\ ~Writes(w) /\ ~Fresh(w) /\ \A i : ~Brings(w, i)
    BY DEF Fills, Writes, Fresh, Brings
<1>2. ASSUME NEW home \in HomeMap, AllBelong(home) PROVE WorkBelongs(home, w)
  <2>1. FillsShop(w) => Belongs(home, Key(w), w.on)
    BY <1>2
  <2>2. WritesShop(w) => Belongs(home, w.row.shop.image, w.on)
    BY <1>2 DEF AllBelong, RowsBelong, WorksOn, WritesShop
  <2>3. Sweeps(w) => \A i \in w.images \ {Nothing} : home[i] \in Places /\ Reach(w, home[i])
    BY <1>2 DEF AllBelong, WorkBelongs, Sweeps, Alike, Reach
  <2> QED
    BY <1>1, <2>1, <2>2, <2>3 DEF WorkBelongs
<1>3. \A i \in Images :
          (proc[p] # Nothing => ~Knows(proc[p], i)) => ~Knows(w, i)
    BY <1>1 DEF Knows, Sweeps, Alike
<1> QED
    BY <1>1, <1>2, <1>3 DEF WorkOK

\* A deletion begins.
LEMMA DeleteOK ==
    ASSUME Basics, NEW p \in Clerks, NEW w \in Handler, StartsDelete(p, w)
    PROVE  WorkOK(p, w)
<1>1. /\ proc[p] = Nothing /\ WorksOn(w) /\ w.op = "delete" /\ w.at = "user" /\ w.on \in Shops
      /\ w.images = ListAllImagesByMerchantID(w.on)
    BY DEF StartsDelete, Lawful, WorksOn
<1>2. ~Fills(w) /\ ~FillsShop(w) /\ ~Writes(w) /\ ~WritesShop(w) /\ ~Fresh(w) /\ w.op \notin Kinds
      /\ \A i : ~Brings(w, i)
    BY <1>1, Kinds3 DEF Fills, FillsShop, Writes, WritesShop, Fresh, Brings, UserOps
<1>3. ASSUME NEW home \in HomeMap, AllBelong(home), NEW i \in w.images \ {Nothing}
      PROVE  home[i] \in Places /\ Reach(w, home[i])
  <2>1. \/ i = shop[w.on].image
        \/ \E x \in Parts : i = part[x].image /\ ShopOfPart(x) = w.on
    BY <1>1, <1>3 DEF ListAllImagesByMerchantID
  <2>2. CASE i = shop[w.on].image
    BY <1>1, <1>3, <2>2 DEF AllBelong, RowsBelong, Belongs, Reach, Places
  <2>3. ASSUME NEW x \in Parts, i = part[x].image, ShopOfPart(x) = w.on
        PROVE  home[i] \in Places /\ Reach(w, home[i])
    BY <1>1, <1>3, <2>3 DEF AllBelong, RowsBelong, Belongs, Reach, Places
  <2> QED
    BY <2>1, <2>2, <2>3
<1>4. \A home \in HomeMap : AllBelong(home) => WorkBelongs(home, w)
    BY <1>2, <1>3 DEF WorkBelongs
<1>5. \A i \in Images : Unseen(i) => ~Knows(w, i)
    BY <1>1, <1>2 DEF Unseen, Knows, ListAllImagesByMerchantID
<1> QED
    BY <1>1, <1>2, <1>4, <1>5 DEF WorkOK

\* Forms of parts are opened and read.
LEMMA DraftOK ==
    ASSUME Basics, NEW p \in Clerks, NEW w \in Handler, StartsDraft(p, w)
    PROVE  WorkOK(p, w)
<1>1. /\ proc[p] = Nothing /\ w.op \in Kinds /\ w.at = "form" /\ w.base = Nothing
      /\ w.form = Nothing /\ w.images = {}
      /\ \A q \in Clerks : proc[q] # Nothing => proc[q].on # w.on
    BY DEF StartsDraft
<1>2. Key(w) = Nothing /\ Nothing \notin Address /\ Nothing \notin Images
    BY <1>1, SentinelAssumption, MerchantsAssumption DEF Key, SanitizeStorageKey, Picture
<1>3. ~FillsShop(w) /\ ~Writes(w) /\ ~WritesShop(w) /\ ~Fresh(w)
    BY <1>1, <1>2, Kinds3 DEF FillsShop, Writes, WritesShop, Fresh, ShopOps
<1>4. \A home \in HomeMap : WorkBelongs(home, w)
    BY <1>1, <1>2, <1>3 DEF WorkBelongs, Belongs
<1>5. \A i \in Images : ~Knows(w, i) /\ ~Brings(w, i)
    BY <1>1, <1>2, <1>3 DEF Knows, Brings
<1>6. FormOK(w)
    BY <1>1, <1>2 DEF FormOK
<1> QED
    BY <1>1, <1>3, <1>4, <1>5, <1>6 DEF WorkOK, OnPart

\* The handler that has just read the row it edits is in order.
LEMMA EditOK ==
    ASSUME Basics, NEW p \in Clerks, NEW w \in Handler, StartsEdit(p, w)
    PROVE  WorkOK(p, w)
<1>1. /\ proc[p] = Nothing /\ w.op \in Kinds /\ w.on \in Parts /\ w.base = part[w.on].image
      /\ w.images = {} /\ part[w.on].life = "live" /\ w.base \in Picture
      /\ \/ w.at = "form" /\ w.form = SignedURL(w.base)
         \/ w.at = "write" /\ w.form = Nothing /\ w.row = part[w.on]
    BY RowsTyped, MerchantsAssumption DEF StartsEdit, Lawful, WorksOn, Live
<1>2. /\ Key(w) = w.base \/ Key(w) = Nothing
      /\ w.form \notin Images
    BY <1>1, AddressOf, MerchantsAssumption DEF Key, SanitizeStorageKey
<1>3. ~FillsShop(w) /\ ~WritesShop(w) /\ ~Fresh(w)
    BY <1>1, <1>2, Kinds3 DEF FillsShop, WritesShop, Fresh, ShopOps
<1>4. \A home \in HomeMap : AllBelong(home) => WorkBelongs(home, w)
    BY <1>1, <1>2, <1>3 DEF WorkBelongs, Belongs, AllBelong, RowsBelong, Writes
<1>5. \A i \in Images : Unseen(i) => ~Knows(w, i) /\ ~Brings(w, i)
    BY <1>1, <1>2, MerchantsAssumption DEF Knows, Brings, Unseen, Writes
<1>6. FormOK(w)
    BY <1>1, AddressOf, SentinelAssumption DEF FormOK, Picture
<1>7. Writes(w) => ReadSo(w)
    BY <1>1 DEF Writes, ReadSo
<1> QED
    BY <1>1, <1>3, <1>4, <1>5, <1>6, <1>7 DEF WorkOK

\* So is the handler that reads its row again before it writes it.
LEMMA ReadOK ==
    ASSUME Basics, PicturesInv, NEW p \in Clerks, NEW w \in Handler, ReadsPart(p, w)
    PROVE  WorkOK(p, w)
<1> DEFINE v == proc[p]
<1>1. /\ v # Nothing /\ w.op \in Kinds /\ w.op = v.op /\ w.on = v.on /\ w.on \in Parts
      /\ w.images = v.images /\ w.base = v.base /\ w.at = "write" /\ v.at = "form"
      /\ part[w.on].life # "none"
      /\ w.form \in {v.form, Nothing}
      /\ w.row = part[w.on] \/ (w.row.image = Nothing /\ w.form = v.form)
    BY DEF ReadsPart, Lawful, WorksOn, Alike
<1>2. /\ Fills(v) /\ Fills(w) /\ ~FillsShop(w) /\ ~WritesShop(w) /\ Sweeps(w) /\ Sweeps(v)
      /\ ~Writes(v) /\ Writes(w)
    BY <1>1, Kinds3 DEF Fills, FillsShop, WritesShop, Sweeps, Writes, ShopOps
<1>3. Key(w) = Key(v) \/ Key(w) = Nothing
    BY <1>1 DEF Key, SanitizeStorageKey
<1>4. FormOK(v)
    BY <1>1, <1>2 DEF PicturesInv, FormsOK
<1>5. Nothing \notin Address /\ Nothing \notin Images
    BY SentinelAssumption, MerchantsAssumption DEF Picture
<1>6. ASSUME NEW home \in HomeMap, AllBelong(home) PROVE WorkBelongs(home, w)
  <2>1. WorkBelongs(home, v) /\ Belongs(home, part[w.on].image, w.on)
    BY <1>1, <1>6 DEF AllBelong, RowsBelong
  <2>2. Belongs(home, Key(w), w.on) /\ Belongs(home, w.base, w.on)
    BY <1>1, <1>2, <1>3, <2>1 DEF WorkBelongs, Belongs
  <2>3. Belongs(home, w.row.image, w.on)
    BY <1>1, <2>1 DEF Belongs
  <2>4. \A i \in w.images \ {Nothing} : home[i] \in Places /\ Reach(w, home[i])
    BY <1>1, <1>2, <2>1 DEF WorkBelongs, Reach
  <2> QED
    BY <1>2, <2>2, <2>3, <2>4 DEF WorkBelongs
<1>7. FormOK(w)
    BY <1>1, <1>4, <1>5 DEF FormOK
<1>8. \A i \in Images : Unseen(i) /\ ~Knows(v, i) /\ ~Brings(v, i)
                           => ~Knows(w, i) /\ ~Brings(w, i)
    BY <1>1, <1>2, <1>3, <1>5 DEF Knows, Brings, Unseen
<1>9. ASSUME Fresh(w)
      PROVE  Fresh(v) /\ w.form = v.form /\ ~Knows(w, w.form)
  <2>1. Fresh(v) /\ w.form = v.form /\ w.form \in Images /\ w.form # w.base
    BY <1>1, <1>2, <1>5, <1>9 DEF Fresh
  <2>2. Unseen(v.form) /\ Unknown(p, v.form)
    BY <1>1, <2>1, FreshUnseen
  <2> QED
    BY <1>1, <1>2, <1>5, <2>1, <2>2 DEF Knows, Unseen, Unknown
<1>10. w.base = part[w.on].image => ReadSo(w)
    BY <1>1, <1>4 DEF ReadSo, FormOK
<1> QED
    BY <1>1, <1>2, <1>6, <1>7, <1>8, <1>9, <1>10 DEF WorkOK

\* A part is about to be deleted.
LEMMA EraseOK ==
    ASSUME Basics, NEW p \in Clerks, NEW w \in Handler, StartsErase(p, w)
    PROVE  WorkOK(p, w)
<1>1. /\ proc[p] = Nothing /\ w.op \in Kinds /\ w.on \in Parts /\ w.at = "erase"
      /\ part[w.on].life = "live" /\ w.images = ImagesOf(w.op, w.on) \ {Nothing}
    BY MerchantsAssumption DEF StartsErase, Lawful, WorksOn, Live
<1>2. ~Fills(w) /\ ~FillsShop(w) /\ ~WritesShop(w) /\ ~Fresh(w) /\ ~Writes(w)
    BY <1>1, Kinds3 DEF Fills, FillsShop, WritesShop, Fresh, ShopOps, Writes
<1>3. \A i \in w.images : \E y \in Parts : i = part[y].image /\ Reach(w, y)
  <2>1. CASE w.op \in Options
    BY <1>1, <2>1 DEF ImagesOf, Options
  <2>2. CASE w.op = "category"
    BY <1>1, <2>2 DEF ImagesOf, Options, Reach
  <2>3. CASE w.op \notin Options /\ w.op # "category"
    <3>1. \A i \in w.images : \E y \in {w.on} \cup Below(w.on) : i = part[y].image
      BY <1>1, <2>3 DEF ImagesOf
    <3>2. Below(w.on) \subseteq Parts
      BY DEF Below, Inside
    <3> QED
      BY <1>1, <2>3, <3>1, <3>2 DEF Reach
  <2> QED
    BY <2>1, <2>2, <2>3
<1>4. \A home \in HomeMap : AllBelong(home) => WorkBelongs(home, w)
    BY <1>2, <1>3 DEF WorkBelongs, Belongs, AllBelong, RowsBelong, Places
<1>5. \A i \in Images : Unseen(i) => ~Knows(w, i) /\ ~Brings(w, i)
    BY <1>2, <1>3 DEF Knows, Brings, Unseen
<1> QED
    BY <1>1, <1>2, <1>4, <1>5 DEF WorkOK

\* Steps that leave the rows of parts and shops and the store as they are.
LEMMA StillPictures ==
    ASSUME Basics, PicturesInv, NEW p \in Clerks,
           \/ UserStep(p) \/ ListStep(p) \/ Gives(p)
           \/ \E w \in Handler :
                 \/ StartsDelete(p, w) \/ ReadsShop(p, w) \/ StartsProfile(p, w)
                 \/ StartsDraft(p, w) \/ StartsEdit(p, w) \/ ReadsPart(p, w)
                 \/ StartsErase(p, w)
    PROVE  PicturesInv'
<1>1. ASSUME NEW w \in Handler, To(p, w), Lawful(w), Still, WorkOK(p, w) PROVE PicturesInv'
    BY <1>1, StillStep
<1>2. ASSUME To(p, Nothing), Still PROVE PicturesInv'
    BY <1>2, StillStep
<1>3. Rests => Still
    BY DEF Rests, Still, shopVars, partVars
<1>4. CASE UserStep(p)
  <2>1. ASSUME NEW w \in Handler, w.op \in UserOps, w.at # "sweep", To(p, w), Lawful(w), Still,
               w.op = "delete" => Alike(proc[p], w) /\ proc[p] # Nothing
        PROVE  PicturesInv'
    <3>1. ~FillsShop(w) /\ ~WritesShop(w) /\ w.op \notin Kinds
      BY <2>1, Kinds3 DEF FillsShop, WritesShop, ShopOps
    <3> QED
      BY <1>1, <2>1, <3>1, PlainOK DEF Lawful
  <2>2. ASSUME NEW w \in Handler, StartsUser(p, w) PROVE PicturesInv'
    BY <1>3, <2>1, <2>2 DEF StartsUser, UserOps
  <2>3. ASSUME NEW w \in Handler, FindsUser(p, w) PROVE PicturesInv'
    BY <1>3, <2>1, <2>3 DEF FindsUser
  <2>4. ASSUME NEW w \in Handler, FailsUser(p, w) PROVE PicturesInv'
    <3>1. Still
      BY <2>4 DEF FailsUser, Still, partVars
    <3> QED
      BY <2>1, <2>4, <3>1 DEF FailsUser, Same4, UserOps
  <2>5. ASSUME NEW w \in Handler \cup {Nothing}, NEW r \in Roles, WritesUser(p, w, r)
        PROVE  PicturesInv'
    <3>1. Still
      BY <2>5 DEF WritesUser, WriteUser, Still, partVars
    <3>2. CASE w = Nothing
      BY <1>2, <2>5, <3>1, <3>2 DEF WritesUser
    <3>3. CASE w # Nothing
      BY <2>1, <2>5, <3>1, <3>3 DEF WritesUser, Same4, UserOps
    <3> QED
      BY <3>2, <3>3
  <2> QED
    BY <1>4, <2>2, <2>3, <2>4, <2>5 DEF UserStep
<1>5. CASE ListStep(p)
  <2>1. CASE Flushes(p) \/ FillsList(p) \/ BreaksOff(p)
    <3>1. Still /\ To(p, Nothing)
      BY <2>1
      DEF Flushes, Flush, FillsList, BreaksOff, Breaks, Still, ShopRests, partVars, shopVars
    <3> QED
      BY <1>2, <3>1
  <2>2. ASSUME NEW w \in Handler, StartsList(p, w) PROVE PicturesInv'
    <3>1. /\ ~FillsShop(w) /\ ~WritesShop(w) /\ w.op \notin Kinds /\ w.at # "sweep"
          /\ w.op # "delete"
      BY <2>2, Kinds3 DEF StartsList, FillsShop, WritesShop, ShopOps, Lawful, WorksOn
    <3> QED
      BY <1>1, <1>3, <2>2, <3>1, PlainOK DEF StartsList, Lawful
  <2> QED
    BY <1>5, <2>1, <2>2 DEF ListStep
<1>6. CASE Gives(p)
    BY <1>2, <1>3, <1>6 DEF Gives
<1>7. ASSUME NEW w \in Handler, ReadsShop(p, w) PROVE PicturesInv'
  <2>1. /\ Lawful(w) /\ WritesShop(w) /\ w.op \notin Kinds /\ w.at # "sweep"
        /\ w.op # "delete" /\ w.row.shop.image = shop[w.on].image
    BY <1>7, Kinds3 DEF ReadsShop, WritesShop, ShopOps
  <2>2. ASSUME FillsShop(w), NEW home \in HomeMap, AllBelong(home)
        PROVE  Belongs(home, Key(w), w.on)
    <3>1. proc[p] # Nothing /\ FillsShop(proc[p]) /\ proc[p].form = w.form /\ proc[p].on = w.on
      BY <1>7, <2>2 DEF ReadsShop, FillsShop
    <3> QED
      BY <2>2, <3>1 DEF AllBelong, WorkBelongs, Key
  <2> QED
    BY <1>1, <1>3, <1>7, <2>1, <2>2, PlainOK DEF ReadsShop, Lawful
<1>8. ASSUME NEW w \in Handler, StartsProfile(p, w) PROVE PicturesInv'
  <2>1. /\ Lawful(w) /\ ~WritesShop(w) /\ w.op \notin Kinds /\ w.at # "sweep"
        /\ w.op # "delete" /\ w.on \in Shops /\ w.form = SignedURL(shop[w.on].image)
    BY <1>8, Kinds3 DEF StartsProfile, WritesShop, ShopOps, Lawful, WorksOn
  <2>2. Key(w) = shop[w.on].image
    BY <2>1, RowsTyped, AddressOf DEF Key
  <2>3. ASSUME NEW home \in HomeMap, AllBelong(home) PROVE Belongs(home, Key(w), w.on)
    BY <2>1, <2>2, <2>3 DEF AllBelong, RowsBelong
  <2> QED
    BY <1>1, <1>3, <1>8, <2>1, <2>3, PlainOK DEF StartsProfile, Lawful
<1>9. ASSUME NEW w \in Handler,
             \/ StartsDelete(p, w) \/ StartsDraft(p, w) \/ StartsEdit(p, w)
             \/ ReadsPart(p, w) \/ StartsErase(p, w)
      PROVE  PicturesInv'
  <2>1. WorkOK(p, w)
    BY <1>9, DeleteOK, DraftOK, EditOK, ReadOK, EraseOK
  <2> QED
    BY <1>1, <1>3, <1>9, <2>1
    DEF StartsDelete, StartsDraft, StartsEdit, ReadsPart, StartsErase
<1> QED
    BY <1>4, <1>5, <1>6, <1>7, <1>8, <1>9

-----------------------------------------------------------------------------
(* Pictures, while a shop changes.                                         *)

\* A shop is opened, closed or saved by one who is done with its form.
LEMMA ShopChanges ==
    ASSUME Basics, PicturesInv, NEW p \in Clerks, proc[p] # Nothing, NEW w \in Handler,
           To(p, w), Lawful(w), UNCHANGED <<part, store, muddled>>, w.op \notin Kinds,
           ~FillsShop(w), ~WritesShop(w), w.op = "delete" => Alike(proc[p], w),
           NEW s0 \in Shops, \A s \in Shops : s # s0 => shop'[s] = shop[s],
           shop[s0].life # "none" => shop'[s0].life # "none",
           shop'[s0].life = "live" => shop[s0].life \in {"live", "none"},
           \A home \in HomeMap : AllBelong(home) => Belongs(home, shop'[s0].image, s0),
           w.at = "sweep" => w.op = "delete" /\ w.on = s0 /\ shop'[s0].life # "live"
    PROVE  PicturesInv'
<1> DEFINE v == proc[p]
<1>0. /\ ~Fills(w) /\ ~Writes(w) /\ ~Fresh(w) /\ w # Nothing /\ Shops \cap Parts = {}
      /\ part' = part /\ store' = store /\ muddled' = muddled /\ \A i : ~Brings(w, i)
    BY HandlerFields, MerchantsAssumption DEF Fills, Writes, Fresh, Brings
<1>1. PICK home \in HomeMap : AllBelong(home)
    BY DEF PicturesInv, Homes, HomeMap
<1>2. WorkBelongs(home, w)
  <2>1. Sweeps(w) => Sweeps(v) /\ w.on = v.on /\ w.op = v.op /\ w.images = v.images
    BY DEF Sweeps, Alike
  <2> QED
    BY <1>0, <1>1, <2>1 DEF AllBelong, WorkBelongs, Reach
<1>3. Homes'
  <2>1. RowsBelong(home)'
    BY <1>0, <1>1 DEF AllBelong, RowsBelong
  <2> QED
    BY <1>1, <1>2, <2>1, HomesStep
<1>4. FormsOK'
    BY <1>0, FormsStep DEF PicturesInv
<1>5. FreshOK'
  <2>1. ASSUME NEW q \in Clerks, q # p, proc[q] # Nothing, Fresh(proc[q])
        PROVE  LET i == proc[q].form IN
               /\ store'[i] = "stored" /\ \A x \in Parts : part'[x].image # i
               /\ w # Nothing => ~Knows(w, i) /\ ~Brings(w, i)
    <3>1. Unknown(q, proc[q].form)
      BY <2>1, FreshUnseen
    <3>2. ~Knows(v, proc[q].form)
      BY <3>1 DEF Unknown
    <3> QED
      BY <1>0, <3>1, <3>2 DEF Knows, Unknown, Sweeps, Alike
  <2> QED
    BY <1>0, <2>1, FreshStep DEF PicturesInv
<1>6. \A z \in Places : /\ LifeOf(z) # "none" => (LifeOf(z) # "none")'
                        /\ (LifeOf(z) = "live")' =>
                              LifeOf(z) = "live" \/ (z = s0 /\ LifeOf(z) = "none")
    BY <1>0 DEF LifeOf, Places
<1>7. NewParts'
    BY <1>0, <1>6, NewStep DEF PicturesInv
<1>8. WritersAgree'
    BY <1>0, WritersStep DEF PicturesInv
<1>9. ASSUME NEW x \in Parts, Shown(x)', part[x].image # Nothing
      PROVE  Shown(x) /\ (w.at = "sweep" => part[x].image \notin w.images)
  <2>1. Shown(x)
    BY <1>0, <1>6, <1>9, ShownBefore DEF PicturesInv
  <2>2. ASSUME w.at = "sweep", part[x].image \in w.images PROVE FALSE
    <3>1. home[part[x].image] = x
      BY <1>1, <1>9 DEF AllBelong, RowsBelong, Belongs
    <3>2. Reach(w, x)
      BY <1>2, <1>9, <2>2, <3>1 DEF WorkBelongs, Sweeps
    <3>3. Above(x, s0)
      BY <1>0, <2>2, <3>2 DEF Reach, Above
    <3>4. (LifeOf(s0) = "live")'
      BY <1>9, <3>3, ShownParts DEF Places
    <3> QED
      BY <2>2, <3>4 DEF LifeOf
  <2> QED
    BY <2>1, <2>2
<1>10. SweepsSafe' /\ ImagesKept'
    BY <1>0, <1>9, SafeStep DEF PicturesInv
<1> QED
    BY <1>3, <1>4, <1>5, <1>7, <1>8, <1>10 DEF PicturesInv

\* Steps that may write the row of a shop.
LEMMA ShopPictures ==
    ASSUME Basics, PicturesInv, NEW p \in Clerks,
           \/ \E w \in Handler : OpensShop(p, w) \/ ClosesShop(p, w)
           \/ \E w \in Handler, new \in Shop : SavesShop(p, w, new)
    PROVE  PicturesInv'
<1> DEFINE v == proc[p]
<1>1. ASSUME NEW w \in Handler, OpensShop(p, w) PROVE PicturesInv'
  <2>1. /\ v # Nothing /\ w.op = "create" /\ w.at = "flush" /\ v.on \in Shops /\ To(p, w)
        /\ Lawful(w) /\ UNCHANGED <<part, store, muddled>>
    BY <1>1, UnderWay
    DEF OpensShop, Same4, Alike, WorksOn, CreateMerchant, partVars
  <2>2. w.op \notin Kinds /\ ~FillsShop(w) /\ ~WritesShop(w)
    BY <2>1, Kinds3 DEF UserOps, FillsShop, WritesShop
  <2>3. CASE UNCHANGED <<shop, tangled>>
    <3>1. WorkOK(p, w)
      BY <2>1, <2>2, PlainOK DEF Lawful
    <3> QED
      BY <2>1, <2>3, <3>1, StillStep DEF Still
  <2>4. CASE shop[v.on].life = "none"
             /\ shop' = [shop EXCEPT ![v.on] =
                              [life |-> "live", owner |-> v.user, open |-> TRUE,
                               auto |-> FALSE, image |-> Nothing]]
    <3>1. /\ shop'[v.on].life = "live" /\ shop'[v.on].image = Nothing
          /\ \A s \in Shops : s # v.on => shop'[s] = shop[s]
      BY <2>1, <2>4, BasicsParts DEF RowBasics
    <3> QED
      BY <2>1, <2>2, <2>4, <3>1, ShopChanges DEF Belongs
  <2> QED
    BY <1>1, <2>3, <2>4 DEF OpensShop, CreateMerchant
<1>2. ASSUME NEW w \in Handler, ClosesShop(p, w) PROVE PicturesInv'
  <2>1. /\ v # Nothing /\ w.op = "delete" /\ w.at = "sweep" /\ v.on \in Shops /\ w.on = v.on
        /\ To(p, w) /\ Lawful(w) /\ UNCHANGED <<part, store, muddled>> /\ Alike(v, w)
        /\ shop' = [shop EXCEPT ![v.on].life = "gone"]
    BY <1>2, UnderWay DEF ClosesShop, Same4, Alike, WorksOn, DeleteMerchant, partVars
  <2>2. w.op \notin Kinds /\ ~FillsShop(w) /\ ~WritesShop(w)
    BY <2>1, Kinds3 DEF UserOps, FillsShop, WritesShop
  <2>3. /\ shop'[v.on].life = "gone" /\ shop'[v.on].image = shop[v.on].image
        /\ \A s \in Shops : s # v.on => shop'[s] = shop[s]
    BY <2>1, BasicsParts DEF RowBasics, Shop
  <2>4. \A home \in HomeMap : AllBelong(home) => Belongs(home, shop'[v.on].image, v.on)
    BY <2>1, <2>3 DEF AllBelong, RowsBelong
  <2> QED
    BY <2>1, <2>2, <2>3, <2>4, ShopChanges
<1>3. ASSUME NEW w \in Handler, NEW new \in Shop, SavesShop(p, w, new) PROVE PicturesInv'
  <2>1. /\ v # Nothing /\ w.op = v.op /\ v.op \in ShopOps /\ v.on \in Shops /\ w.on = v.on
        /\ To(p, w) /\ Lawful(w) /\ UNCHANGED <<part, store, muddled>>
        /\ new.life = "live" /\ w.at \in {"flush", "open", "auto"} /\ WritesShop(v)
        /\ w.row = v.row /\ w.form = v.form
        /\ new.image = w.row.shop.image \/ (w.op = "profile" /\ new.image = Key(w))
        /\ (UNCHANGED shop \/ (Live(v.on) /\ shop' = [shop EXCEPT ![v.on] = new]))
    BY <1>3, UnderWay DEF SavesShop, SaveShop, Same4, Alike, WorksOn, WritesShop, partVars
  <2>2. /\ w.op \notin Kinds /\ ~FillsShop(w) /\ ~WritesShop(w) /\ w.at # "sweep"
        /\ w.op # "delete"
    BY <2>1, Kinds3 DEF ShopOps, FillsShop, WritesShop
  <2>3. CASE UNCHANGED shop
    <3>1. WorkOK(p, w)
      BY <2>1, <2>2, PlainOK DEF Lawful
    <3> QED
      BY <2>1, <2>3, <3>1, StillStep DEF Still
  <2>4. CASE Live(v.on) /\ shop' = [shop EXCEPT ![v.on] = new]
    <3>1. /\ shop'[v.on] = new /\ shop[v.on].life = "live"
          /\ \A s \in Shops : s # v.on => shop'[s] = shop[s]
      BY <2>1, <2>4, BasicsParts DEF RowBasics, Live
    <3>2. ASSUME NEW home \in HomeMap, AllBelong(home) PROVE Belongs(home, new.image, v.on)
      <4>1. WorkBelongs(home, v)
        BY <2>1, <3>2 DEF AllBelong
      <4>2. Belongs(home, v.row.shop.image, v.on)
        BY <2>1, <4>1 DEF WorkBelongs
      <4>3. v.op = "profile" => Belongs(home, Key(v), v.on)
        BY <2>1, <4>1 DEF WorkBelongs, FillsShop, WritesShop
      <4> QED
        BY <2>1, <4>2, <4>3 DEF Key
    <3> QED
      BY <2>1, <2>2, <3>1, <3>2, ShopChanges
  <2> QED
    BY <2>1, <2>3, <2>4
<1> QED
    BY <1>1, <1>2, <1>3

-----------------------------------------------------------------------------
(* Pictures, while a part is inserted.                                     *)

\* The picture a new part gets is one nobody else knows.
LEMMA InsertedImage ==
    ASSUME Basics, PicturesInv, NEW p \in Clerks, proc[p] # Nothing, proc[p].op \in Kinds,
           proc[p].at = "form", part[proc[p].on].life = "none"
    PROVE  LET v == proc[p] IN
           /\ v.on \in Parts /\ v.base = Nothing /\ Fills(v) /\ v.form \in Picture
           /\ Key(v) = v.form
           /\ v.form # Nothing => Fresh(v) /\ Unknown(p, v.form) /\ v.form \in Images
           /\ \A q \in Clerks : q # p /\ proc[q] # Nothing => ~OnPart(proc[q], v.on)
<1> DEFINE v == proc[p]
<1>1. v.on \in Parts /\ Fills(v) /\ v.form \in Form
    BY UnderWay, HandlerFields DEF WorksOn, Fills
<1>2. /\ v.base = Nothing
      /\ \A q \in Clerks : proc[q] # Nothing /\ OnPart(proc[q], v.on) => q = p
    BY <1>1 DEF PicturesInv, NewParts, OnPart
<1>3. Nothing \notin Address
    BY SentinelAssumption DEF Picture
<1>4. v.form \in Picture
    BY <1>1, <1>2, <1>3 DEF PicturesInv, FormsOK, FormOK, SignedURL, Form
<1>5. Key(v) = v.form
    BY <1>4 DEF Key, SanitizeStorageKey, Picture
<1>6. v.form # Nothing => Fresh(v) /\ v.form \in Images
    BY <1>1, <1>2, <1>4 DEF Fresh, Picture
<1> QED
    BY <1>1, <1>2, <1>4, <1>5, <1>6, FreshUnseen

\* The insert of a new menu or item puts its picture in a row of its own.
LEMMA InsertPictures ==
    ASSUME Basics, PicturesInv, NEW p \in Clerks, NEW w \in Handler \cup {Nothing},
           InsertsPart(p, w)
    PROVE  PicturesInv'
<1> DEFINE v == proc[p]
           x == v.on
<1>1. /\ v # Nothing /\ To(p, w) /\ v.op \in Kinds /\ v.at = "form" /\ part[x].life = "none"
      /\ UNCHANGED <<shop, store, muddled>> /\ (w = Nothing \/ Lawful(w))
    BY DEF InsertsPart, ShopRests, shopVars
<1>2. /\ x \in Parts /\ v.base = Nothing /\ Fills(v) /\ v.form \in Picture /\ Key(v) = v.form
      /\ v.form # Nothing => Fresh(v) /\ Unknown(p, v.form) /\ v.form \in Images
      /\ \A q \in Clerks : q # p /\ proc[q] # Nothing => ~OnPart(proc[q], x)
      /\ x \notin Shops /\ x # Nothing /\ Nothing \notin Images
    BY <1>1, InsertedImage, MerchantsAssumption
<1>3. CASE w = Nothing /\ UNCHANGED part
    BY <1>1, <1>3, StillStep DEF Still
<1>4. CASE /\ Exists(Parent[x])
           /\ part' = [part EXCEPT ![x] = [life |-> "live", image |-> Key(v)]]
           /\ \/ w = Nothing
              \/ /\ Lawful(w) /\ Alike(v, w) /\ w.at = "form"
                 /\ w.form = v.form /\ w.base = Key(v)
  <2>1. /\ part'[x] = [life |-> "live", image |-> v.form]
        /\ part'[x].life = "live" /\ part'[x].image = v.form
        /\ \A y \in Parts : y # x => part'[y] = part[y]
        /\ store' = store /\ muddled' = muddled /\ shop' = shop
    BY <1>1, <1>2, <1>4, BasicsParts DEF RowBasics
  <2>2. w # Nothing => /\ ~FillsShop(w) /\ ~Writes(w) /\ ~WritesShop(w) /\ ~Fresh(w)
                       /\ Key(w) = v.form /\ w.base = v.form /\ w.form = v.form
                       /\ w.op = v.op /\ w.on = x /\ w.images = v.images /\ w.at = "form"
    BY <1>1, <1>2, <1>4, Kinds3
    DEF FillsShop, Writes, WritesShop, Fresh, Key, Alike, ShopOps
  <2>3. PICK home \in HomeMap : AllBelong(home)
    BY DEF PicturesInv, Homes, HomeMap
  <2>4. Homes'
    <3>1. WorkBelongs(home, v)
      BY <1>1, <2>3 DEF AllBelong
    <3>2. Belongs(home, v.form, x)
      BY <1>2, <3>1 DEF WorkBelongs
    <3>3. w # Nothing => WorkBelongs(home, w)
      BY <2>2, <3>1, <3>2 DEF WorkBelongs, Sweeps, Reach
    <3>4. RowsBelong(home)'
      BY <2>1, <2>3, <3>2 DEF AllBelong, RowsBelong
    <3> QED
      BY <1>1, <2>3, <3>3, <3>4, HomesStep
  <2>5. FormsOK'
    <3>1. w # Nothing => FormOK(w)
      BY <1>2, <2>2, SentinelAssumption DEF FormOK
    <3> QED
      BY <1>1, <3>1, FormsStep DEF PicturesInv
  <2>6. FreshOK'
    <3>1. ASSUME NEW q \in Clerks, q # p, proc[q] # Nothing, Fresh(proc[q])
          PROVE  LET i == proc[q].form IN
                 /\ store'[i] = "stored" /\ \A y \in Parts : part'[y].image # i
                 /\ w # Nothing => ~Knows(w, i) /\ ~Brings(w, i)
      <4>1. Unknown(q, proc[q].form)
        BY <3>1, FreshUnseen
      <4>2. ~Knows(v, proc[q].form) /\ v.form # proc[q].form
        BY <1>1, <1>2, <3>1, <4>1 DEF Unknown, Brings
      <4> QED
        BY <2>1, <2>2, <4>1, <4>2 DEF Knows, Brings, Unknown, Sweeps
    <3> QED
      BY <1>1, <2>2, <3>1, FreshStep DEF PicturesInv
  <2>7. \A z \in Places : /\ LifeOf(z) # "none" => (LifeOf(z) # "none")'
                          /\ (LifeOf(z) = "live")' =>
                                LifeOf(z) = "live" \/ (z = x /\ LifeOf(z) = "none")
    BY <1>1, <1>2, <2>1 DEF LifeOf, Places
  <2>8. NewParts'
    <3>1. LifeOf(Parent[x]) # "none"
      BY <1>4 DEF Exists, LifeOf
    <3> QED
      BY <1>1, <2>1, <2>2, <2>7, <3>1, NewStep DEF PicturesInv
  <2>9. WritersAgree'
    <3>1. \A q \in Clerks : q # p /\ proc[q] # Nothing /\ Writes(proc[q]) => proc[q].on # x
      BY <1>2 DEF OnPart, Writes
    <3> QED
      BY <1>1, <2>1, <2>2, <3>1, WritersStep DEF PicturesInv
  <2>10. ASSUME NEW y \in Parts, Shown(y)', part'[y].image # Nothing
         PROVE  \/ Shown(y) /\ part'[y].image = part[y].image
                \/ /\ store[part'[y].image] = "stored"
                   /\ \A q \in Clerks : q # p /\ proc[q] # Nothing /\ Sweeps(proc[q]) =>
                            part'[y].image \notin proc[q].images
    <3>1. CASE y = x
      BY <1>2, <2>1, <2>10, <3>1 DEF Unknown, Knows
    <3>2. CASE y # x
      BY <2>1, <2>7, <2>10, <3>2, ShownBefore DEF PicturesInv
    <3> QED
      BY <3>1, <3>2
  <2>11. SweepsSafe' /\ ImagesKept'
    BY <1>1, <2>1, <2>2, <2>10, SafeStep DEF PicturesInv
  <2> QED
    BY <2>4, <2>5, <2>6, <2>8, <2>9, <2>11 DEF PicturesInv
<1> QED
    BY <1>3, <1>4 DEF InsertsPart

-----------------------------------------------------------------------------
(* Pictures, while a part is saved.                                        *)

\* What is saved is what the page showed or a picture nobody else knows, unless the row is
\* another than the page showed; it belongs to the part in any case.
LEMMA SavedImage ==
    ASSUME Basics, PicturesInv, NEW p \in Clerks, proc[p] # Nothing, Writes(proc[p])
    PROVE  LET v == proc[p]
               new == Replaced(v.row, v.form)
           IN /\ v.on \in Parts /\ Fills(v) /\ part[v.on].life # "none"
              /\ new.life = "live" /\ new.image \in {v.row.image, Key(v)}
              /\ Live(v.on) /\ v.on \notin muddled /\ part[v.on].image = v.base =>
                    \/ new.image = part[v.on].image
                    \/ new.image = v.form /\ Fresh(v) /\ Unknown(p, v.form)
<1> DEFINE v == proc[p]
           new == Replaced(v.row, v.form)
<1>1. /\ v.on \in Parts /\ v.row \in Part /\ v.row.life = "live" /\ Fills(v) /\ v.at = "write"
      /\ v.form \in Form /\ OnPart(v, v.on)
    BY UnderWay, HandlerFields DEF WorksOn, Writes, Fills, OnPart
<1>2. part[v.on].life # "none"
    BY <1>1 DEF PicturesInv, NewParts
<1>3. /\ v.form = Nothing => new = v.row
      /\ v.form # Nothing => new.image = Key(v) /\ new.life = "live"
    BY <1>1 DEF Replaced, Key, Part
<1>4. FormOK(v)
    BY <1>1 DEF PicturesInv, FormsOK
<1>5. ASSUME Live(v.on), v.on \notin muddled, part[v.on].image = v.base
      PROVE  \/ new.image = part[v.on].image
             \/ new.image = v.form /\ Fresh(v) /\ Unknown(p, v.form)
  <2>1. ReadSo(v)
    BY <1>5 DEF PicturesInv, WritersAgree
  <2>2. CASE v.form = Nothing
    BY <1>3, <1>5, <2>1, <2>2 DEF ReadSo
  <2>3. CASE v.form \in Address
    <3>1. v.form # Nothing /\ Key(v) = v.base
      BY <1>4, <2>3, AddressOf, HandlerFields, UnderWay, SentinelAssumption
      DEF FormOK, Key, Picture
    <3> QED
      BY <1>3, <1>5, <3>1
  <2>4. CASE v.form \in Images
    <3>1. v.form # Nothing /\ Key(v) = v.form
      BY <2>4, MerchantsAssumption DEF Key, SanitizeStorageKey
    <3>2. CASE v.form = v.base
      BY <1>3, <1>5, <3>1, <3>2
    <3>3. CASE v.form # v.base
      BY <1>1, <1>3, <2>4, <3>1, <3>3, FreshUnseen DEF Fresh
    <3> QED
      BY <3>2, <3>3
  <2> QED
    BY <1>1, <2>2, <2>3, <2>4 DEF Form, Picture
<1> QED
    BY <1>1, <1>2, <1>3, <1>5

\* The write of an edited row takes the old picture, or a new one nobody else knows.
LEMMA SavePictures ==
    ASSUME Basics, PicturesInv, NEW p \in Clerks, NEW w \in Handler, SavesPart(p, w)
    PROVE  PicturesInv'
<1> DEFINE v == proc[p]
           x == v.on
           new == Replaced(v.row, v.form)
           i0 == v.row.image
<1>1. /\ v # Nothing /\ To(p, w) /\ Lawful(w) /\ Writes(v) /\ w.at = "sweep" /\ w.op = v.op
      /\ w.on = x /\ part' = IF Live(x) THEN [part EXCEPT ![x] = new] ELSE part
      /\ muddled' = IF part[x].image # v.base THEN muddled \cup {x} ELSE muddled
      /\ w.images = OldImage(v.row, new) \ {Nothing}
      /\ UNCHANGED <<shop, store>> /\ w # Nothing
    BY HandlerFields DEF SavesPart, ShopRests, shopVars
<1>2. /\ x \in Parts /\ Fills(v) /\ part[x].life # "none" /\ x \notin Shops /\ x # Nothing
      /\ new.life = "live" /\ new.image \in {i0, Key(v)}
      /\ Live(x) /\ x \notin muddled /\ part[x].image = v.base =>
                    \/ new.image = part[x].image
                    \/ new.image = v.form /\ Fresh(v) /\ Unknown(p, v.form)
    BY <1>1, SavedImage, MerchantsAssumption
<1> HIDE DEF new
<1>3. /\ part[x].life = "live" => part'[x] = new /\ part'[x].image = new.image
      /\ part[x].life # "live" => part'[x] = part[x]
      /\ \A y \in Parts : y # x => part'[y] = part[y]
      /\ \A y \in Parts : part'[y].life = part[y].life
      /\ store' = store /\ shop' = shop /\ muddled \subseteq muddled'
      /\ x \notin muddled' => x \notin muddled /\ part[x].image = v.base
      /\ Live(x) <=> part[x].life = "live"
    BY <1>1, <1>2, BasicsParts DEF RowBasics, Live
<1>4. /\ w.images \subseteq {i0} /\ w.op \in Kinds /\ Nothing \notin w.images
      /\ i0 \in w.images => new.image # i0
      /\ ~Fills(w) /\ ~Writes(w) /\ ~FillsShop(w) /\ ~WritesShop(w) /\ ~Fresh(w)
      /\ \A i : ~Brings(w, i)
    BY <1>1, Kinds3
    DEF OldImage, Writes, Fills, FillsShop, WritesShop, Fresh, Brings, ShopOps
<1>5. PICK home \in HomeMap : AllBelong(home)
    BY DEF PicturesInv, Homes, HomeMap
<1>6. WorkBelongs(home, v) /\ Belongs(home, i0, x) /\ Belongs(home, Key(v), x)
    BY <1>1, <1>2, <1>5 DEF AllBelong, WorkBelongs
<1>7. Homes'
  <2>1. WorkBelongs(home, w)
    BY <1>1, <1>2, <1>4, <1>6 DEF WorkBelongs, Belongs, Places, Reach
  <2>2. Belongs(home, new.image, x)
    BY <1>2, <1>6
  <2>3. RowsBelong(home)'
    BY <1>3, <1>5, <2>2 DEF AllBelong, RowsBelong
  <2> QED
    BY <1>1, <1>5, <2>1, <2>3, HomesStep
<1>8. FormsOK'
    BY <1>1, <1>4, FormsStep DEF PicturesInv
<1>9. FreshOK'
  <2>1. ASSUME NEW q \in Clerks, q # p, proc[q] # Nothing, Fresh(proc[q])
        PROVE  LET i == proc[q].form IN
               /\ store'[i] = "stored" /\ \A y \in Parts : part'[y].image # i
               /\ w # Nothing => ~Knows(w, i) /\ ~Brings(w, i)
    <3> DEFINE i == proc[q].form
    <3>1. Unknown(q, i)
      BY <2>1, FreshUnseen
    <3>2. i0 # i /\ Key(v) # i
      BY <1>1, <1>2, <2>1, <3>1 DEF Unknown, Brings, Knows
    <3>3. new.image # i
      BY <1>2, <3>2
    <3>4. \A y \in Parts : part'[y].image # i
      BY <1>3, <3>1, <3>3 DEF Unknown
    <3> QED
      BY <1>3, <1>4, <3>1, <3>2, <3>4 DEF Knows, Unknown
  <2> QED
    BY <1>1, <1>4, <2>1, FreshStep DEF PicturesInv
<1>10. \A z \in Places : (LifeOf(z))' = LifeOf(z)
    BY <1>3 DEF LifeOf, Places
<1>11. NewParts'
  <2>1. \A y \in Parts : part'[y].life = "none" => part'[y] = part[y]
    BY <1>2, <1>3
  <2> QED
    BY <1>1, <1>2, <1>3, <1>10, <2>1, NewStep DEF PicturesInv
<1>12. WritersAgree'
  <2>1. ASSUME NEW q \in Clerks, q # p, proc[q] # Nothing, Writes(proc[q]), proc[q].on = x,
               part'[x].life = "live", x \notin muddled', proc[q].base = part'[x].image
        PROVE  proc[q].base = part[x].image
    <3>1. part[x].life = "live" /\ x \notin muddled /\ part[x].image = v.base
      BY <1>2, <1>3, <2>1
    <3>2. CASE new.image = part[x].image
      BY <1>3, <2>1, <3>1, <3>2
    <3>3. CASE new.image = v.form /\ Unknown(p, v.form)
      <4>1. ~Knows(proc[q], v.form) /\ Fills(proc[q])
        BY <2>1, <3>3 DEF Unknown, Writes, Fills
      <4> QED
        BY <1>3, <2>1, <3>1, <3>3, <4>1 DEF Knows
    <3> QED
      BY <1>2, <1>3, <3>1, <3>2, <3>3
  <2> QED
    BY <1>1, <1>3, <1>4, <2>1, WritersStep DEF PicturesInv
<1>13. ASSUME NEW y \in Parts, y \notin muddled', Shown(y)', part'[y].image # Nothing
       PROVE  /\ \/ Shown(y) /\ part'[y].image = part[y].image
                 \/ /\ store[part'[y].image] = "stored"
                    /\ \A q \in Clerks : q # p /\ proc[q] # Nothing /\ Sweeps(proc[q]) =>
                            part'[y].image \notin proc[q].images
              /\ part'[y].image \notin w.images
  <2>1. Shown(y)
    BY <1>3, <1>10, <1>13, ShownParts
  <2>2. CASE y = x
    <3>1. part[x].life = "live" /\ x \notin muddled /\ part[x].image = v.base
      BY <1>2, <1>3, <1>13, <2>1, <2>2, ShownParts DEF Above, Places, LifeOf
    <3>2. \/ new.image = part[x].image
          \/ new.image = v.form /\ Unknown(p, v.form)
      BY <1>2, <1>3, <3>1
    <3>3. part'[y].image \notin w.images
      BY <1>3, <1>4, <2>2, <3>1
    <3> QED
      BY <1>3, <2>1, <2>2, <3>1, <3>2, <3>3 DEF Unknown, Knows
  <2>3. CASE y # x
    <3>1. part'[y].image = part[y].image /\ home[part[y].image] = y
      BY <1>3, <1>5, <1>13, <2>3 DEF AllBelong, RowsBelong, Belongs
    <3>2. part[y].image # i0
      BY <1>6, <1>13, <2>3, <3>1 DEF Belongs
    <3> QED
      BY <1>4, <2>1, <3>1, <3>2
  <2> QED
    BY <2>2, <2>3
<1>14. SweepsSafe' /\ ImagesKept'
    BY <1>1, <1>3, <1>13, SafeStep DEF PicturesInv
<1> QED
    BY <1>7, <1>8, <1>9, <1>11, <1>12, <1>14 DEF PicturesInv

-----------------------------------------------------------------------------
(* Pictures, while a part is deleted.                                      *)

\* What a deletion does to the rows of parts.
LEMMA ErasedRows ==
    ASSUME Basics, PicturesInv, NEW p \in Clerks, NEW w \in Handler, ErasesPart(p, w)
    PROVE  LET x == w.on IN
           /\ x \in Parts /\ part[x].life # "none"
           /\ \A y \in Parts : /\ part'[y].life = "live" => part'[y] = part[y]
                               /\ part'[y].life = "none" => part'[y] = part[y]
                               /\ part[y].life = "none" => part'[y] = part[y]
                               /\ part'[y].image \in {Nothing, part[y].image}
           /\ part'[x].life # "live"
           /\ w.op # "menu" => \A y \in Below(x) : part'[y].life # "live"
<1> DEFINE x == w.on
<1>1. /\ w.op \in Kinds /\ proc[p] # Nothing /\ proc[p].op = w.op /\ proc[p].on = x
      /\ proc[p].at = "erase" /\ Erases(p, w.op) /\ x \in Parts
    BY DEF ErasesPart, Same4, Alike, Lawful, WorksOn
<1>2. part[x].life # "none" /\ Shops \cap Parts = {} /\ Below(x) \subseteq Parts
    BY <1>1, MerchantsAssumption DEF PicturesInv, NewParts, OnPart, Below, Inside
<1>3. part \in [Parts -> Part] /\ \A y \in Parts : part[y].life \in Life
    BY BasicsParts DEF RowBasics, Part
<1>4. CASE w.op = "menu"
  <2>1. part' = [part EXCEPT ![x].life = "gone"]
    BY <1>1, <1>4 DEF Erases
  <2>2. /\ part'[x].life = "gone" /\ part'[x].image = part[x].image
        /\ \A y \in Parts : y # x => part'[y] = part[y]
    BY <1>1, <1>3, <2>1 DEF Part
  <2> QED
    BY <1>1, <1>2, <1>4, <2>2
<1>5. CASE w.op # "menu"
  <2>1. part' = [y \in Parts |-> IF y \in {x} \cup Below(x) /\ Exists(y)
                                     THEN [NoPart EXCEPT !.life = "erased"] ELSE part[y]]
    BY <1>1, <1>5 DEF Erases
  <2>2. \A y \in Parts : Exists(y) <=> part[y].life \in {"live", "gone"}
    BY <1>2 DEF Exists
  <2>3. \A y \in Parts :
          IF y \in {x} \cup Below(x) /\ part[y].life \in {"live", "gone"}
          THEN part'[y].life = "erased" /\ part'[y].image = Nothing
          ELSE part'[y] = part[y]
    BY <2>1, <2>2 DEF NoPart
  <2> QED
    BY <1>1, <1>2, <1>3, <1>5, <2>3 DEF Life
<1> QED
    BY <1>4, <1>5

\* A delete leaves its pictures to its own sweep alone.
LEMMA ErasePictures ==
    ASSUME Basics, PicturesInv, NEW p \in Clerks, NEW w \in Handler, ErasesPart(p, w)
    PROVE  PicturesInv'
<1> DEFINE v == proc[p]
           x == w.on
<1>1. /\ v # Nothing /\ To(p, w) /\ Lawful(w) /\ w.at = "sweep" /\ w.op = v.op /\ w.op \in Kinds
      /\ v.on = x /\ w.images = v.images /\ w # Nothing
      /\ store' = store /\ muddled' = muddled /\ shop' = shop
    BY HandlerFields DEF ErasesPart, Erases, ShopRests, shopVars, Same4, Alike
<1>2. /\ x \in Parts /\ part[x].life # "none" /\ x \notin Shops
      /\ \A y \in Parts : /\ part'[y].life = "live" => part'[y] = part[y]
                          /\ part'[y].life = "none" => part'[y] = part[y]
                          /\ part[y].life = "none" => part'[y] = part[y]
                          /\ part'[y].image \in {Nothing, part[y].image}
      /\ part'[x].life # "live"
      /\ w.op # "menu" => \A y \in Below(x) : part'[y].life # "live"
    BY ErasedRows, MerchantsAssumption
<1>3. /\ ~Fills(w) /\ ~Writes(w) /\ ~FillsShop(w) /\ ~WritesShop(w) /\ ~Fresh(w)
      /\ \A i : ~Brings(w, i)
      /\ Sweeps(w) /\ Sweeps(v)
    BY <1>1, Kinds3 DEF Writes, Fills, FillsShop, WritesShop, Fresh, Brings, ShopOps, Sweeps
<1>4. PICK home \in HomeMap : AllBelong(home)
    BY DEF PicturesInv, Homes, HomeMap
<1>5. WorkBelongs(home, w)
    BY <1>1, <1>3, <1>4 DEF AllBelong, WorkBelongs, Reach
<1>6. Homes'
  <2>1. RowsBelong(home)'
    BY <1>1, <1>2, <1>4 DEF AllBelong, RowsBelong, Belongs
  <2> QED
    BY <1>1, <1>4, <1>5, <2>1, HomesStep
<1>7. FormsOK'
    BY <1>1, <1>3, FormsStep DEF PicturesInv
<1>8. FreshOK'
  <2>1. ASSUME NEW q \in Clerks, q # p, proc[q] # Nothing, Fresh(proc[q])
        PROVE  LET i == proc[q].form IN
               /\ store'[i] = "stored" /\ \A y \in Parts : part'[y].image # i
               /\ w # Nothing => ~Knows(w, i) /\ ~Brings(w, i)
    <3> DEFINE i == proc[q].form
    <3>1. Unknown(q, i) /\ i # Nothing
      BY <2>1, FreshUnseen
    <3>2. \A y \in Parts : part'[y].image # i
      BY <1>2, <3>1 DEF Unknown
    <3>3. ~Knows(w, i)
      BY <1>1, <1>3, <3>1 DEF Unknown, Knows
    <3> QED
      BY <1>1, <1>3, <3>1, <3>2, <3>3 DEF Unknown
  <2> QED
    BY <1>1, <1>3, <2>1, FreshStep DEF PicturesInv
<1>9. \A z \in Places : /\ LifeOf(z) # "none" => (LifeOf(z) # "none")'
                        /\ (LifeOf(z) = "live")' => LifeOf(z) = "live"
    BY <1>1, <1>2 DEF LifeOf, Places
<1>10. NewParts'
    BY <1>1, <1>2, <1>9, NewStep DEF PicturesInv
<1>11. WritersAgree'
    BY <1>1, <1>2, <1>3, WritersStep DEF PicturesInv
<1>12. ASSUME NEW y \in Parts, Shown(y)', part'[y].image # Nothing
       PROVE  Shown(y) /\ part'[y].image = part[y].image /\ part'[y].image \notin w.images
  <2>1. Shown(y)
    BY <1>9, <1>12, ShownParts
  <2>2. part'[y].life = "live"
    <3>1. y \in Places /\ Above(y, y) /\ y \notin Shops
      BY MerchantsAssumption DEF Places, Above
    <3> QED
      BY <1>12, <3>1, ShownParts DEF LifeOf
  <2>3. part'[y].image = part[y].image /\ home[part[y].image] = y
    BY <1>2, <1>4, <1>12, <2>2 DEF AllBelong, RowsBelong, Belongs
  <2>4. ASSUME part[y].image \in w.images PROVE FALSE
    <3>1. Reach(w, y) /\ y # x /\ w.op # "delete"
      BY <1>1, <1>2, <1>3, <1>5, <1>12, <2>2, <2>3, <2>4, Kinds3
      DEF WorkBelongs, UserOps
    <3>2. y \in Below(x)
      BY <3>1 DEF Reach
    <3>3. w.op = "menu"
      BY <1>2, <2>2, <3>2
    <3>4. Above(y, x)
      BY <1>2, <3>2 DEF Above, Below, Inside
    <3>5. (LifeOf(x) = "live")'
      BY <1>2, <1>12, <3>4, ShownParts DEF Places
    <3> QED
      BY <1>2, <3>5 DEF LifeOf
  <2> QED
    BY <2>1, <2>3, <2>4
<1>13. SweepsSafe' /\ ImagesKept'
    BY <1>1, <1>12, SafeStep DEF PicturesInv
<1> QED
    BY <1>6, <1>7, <1>8, <1>10, <1>11, <1>13 DEF PicturesInv

-----------------------------------------------------------------------------
(* Pictures, while the store changes.                                      *)

\* A sweep removes pictures that no live row shows.
LEMMA SweepPictures ==
    ASSUME Basics, PicturesInv, NEW p \in Clerks, NEW w \in Handler \cup {Nothing},
           SweepsStore(p, w)
    PROVE  PicturesInv'
<1> DEFINE v == proc[p]
<1>1. /\ v # Nothing /\ To(p, w) /\ Sweeps(v) /\ v.at = "sweep"
      /\ w = Nothing \/ Lawful(w)
      /\ w # Nothing => w.op = "delete" /\ w.at = "flush" /\ Alike(v, w)
      /\ store' = [i \in Images |-> IF i \in v.images \ {Nothing} THEN "removed" ELSE store[i]]
      /\ part' = part /\ shop' = shop /\ muddled' = muddled
    BY DEF SweepsStore, Remove, ShopRests, shopVars, Same4
<1>2. w # Nothing => /\ ~Fills(w) /\ ~Writes(w) /\ ~FillsShop(w) /\ ~WritesShop(w) /\ ~Fresh(w)
                     /\ w.op \notin Kinds /\ \A i : ~Brings(w, i)
    BY <1>1, Kinds3
    DEF Writes, Fills, FillsShop, WritesShop, Fresh, Brings, UserOps
<1>3. PICK home \in HomeMap : AllBelong(home)
    BY DEF PicturesInv, Homes, HomeMap
<1>4. Homes'
  <2>1. w # Nothing => WorkBelongs(home, w)
    BY <1>1, <1>2, <1>3 DEF AllBelong, WorkBelongs, Reach, Alike
  <2>2. RowsBelong(home)'
    BY <1>1, <1>3 DEF AllBelong, RowsBelong
  <2> QED
    BY <1>1, <1>3, <2>1, <2>2, HomesStep
<1>5. FormsOK'
    BY <1>1, <1>2, FormsStep DEF PicturesInv
<1>6. FreshOK'
  <2>1. ASSUME NEW q \in Clerks, q # p, proc[q] # Nothing, Fresh(proc[q])
        PROVE  LET i == proc[q].form IN
               /\ store'[i] = "stored" /\ \A y \in Parts : part'[y].image # i
               /\ w # Nothing => ~Knows(w, i) /\ ~Brings(w, i)
    <3> DEFINE i == proc[q].form
    <3>1. Unknown(q, i) /\ i \in Images
      BY <2>1, FreshUnseen
    <3>2. i \notin v.images
      BY <1>1, <3>1 DEF Unknown, Knows
    <3>3. store'[i] = "stored"
      BY <1>1, <3>1, <3>2 DEF Unknown
    <3>4. w # Nothing => ~Knows(w, i)
      BY <1>1, <1>2, <3>2 DEF Knows, Alike
    <3> QED
      BY <1>1, <1>2, <3>1, <3>3, <3>4 DEF Unknown
  <2> QED
    BY <1>1, <1>2, <2>1, FreshStep DEF PicturesInv
<1>7. \A z \in Places : (LifeOf(z))' = LifeOf(z)
    BY <1>1 DEF LifeOf, Places
<1>8. NewParts'
    BY <1>1, <1>2, <1>7, NewStep DEF PicturesInv
<1>9. WritersAgree'
    BY <1>1, <1>2, WritersStep DEF PicturesInv
<1>10. ASSUME NEW x \in Parts, x \notin muddled, Shown(x)', part[x].image # Nothing
       PROVE  Shown(x) /\ (store[part[x].image] = "stored" => store'[part[x].image] = "stored")
  <2>1. Shown(x)
    BY <1>7, <1>10, ShownParts
  <2>2. part[x].image \notin v.images
    BY <1>1, <1>10, <2>1 DEF PicturesInv, SweepsSafe
  <2>3. part[x].image \in Images
    BY <1>10, RowsTyped DEF Picture
  <2> QED
    BY <1>1, <2>1, <2>2, <2>3
<1>11. SweepsSafe' /\ ImagesKept'
    BY <1>1, <1>10, SafeStep DEF PicturesInv
<1> QED
    BY <1>4, <1>5, <1>6, <1>8, <1>9, <1>11 DEF PicturesInv

\* A picture that is uploaded belongs to what it is uploaded for.
LEMMA NewHome ==
    ASSUME Basics, NEW home \in HomeMap, NEW i \in Images, home[i] = Nothing, NEW x \in Places
    PROVE  LET after == [home EXCEPT ![i] = x] IN
           /\ after \in HomeMap /\ after[i] = x
           /\ \A j \in Picture, z \in Places : Belongs(home, j, z) => Belongs(after, j, z)
           /\ \A w \in Handler : WorksOn(w) /\ WorkBelongs(home, w) => WorkBelongs(after, w)
<1> DEFINE after == [home EXCEPT ![i] = x]
<1>1. after \in HomeMap /\ after[i] = x /\ \A j \in Images : j # i => after[j] = home[j]
    BY DEF HomeMap
<1>2. Nothing \notin Places
    BY MerchantsAssumption, ReviewsAssumption DEF Places
<1> HIDE DEF after
<1>3. \A j \in Picture, z \in Places : Belongs(home, j, z) => Belongs(after, j, z)
    BY <1>1, <1>2 DEF Belongs, Picture
<1>4. ASSUME NEW w \in Handler, WorksOn(w), WorkBelongs(home, w) PROVE WorkBelongs(after, w)
  <2>1. /\ w.base \in Picture /\ Key(w) \in Picture /\ w.images \in SUBSET Picture
    BY HandlerFields, KeyTyped DEF Key
  <2>2. Fills(w) \/ FillsShop(w) \/ Writes(w) \/ WritesShop(w) => w.on \in Places
    BY <1>4 DEF WorksOn, Fills, FillsShop, Writes, WritesShop, Places, ShopOps
  <2>3. /\ Writes(w) => w.row.image \in Picture
        /\ WritesShop(w) => w.row.shop.image \in Picture
    BY <1>4 DEF WorksOn, Writes, WritesShop, Part, ShopCopy, Shop, Picture
  <2>4. \A j \in w.images \ {Nothing} : home[j] \in Places /\ Reach(w, home[j])
                                           => after[j] \in Places /\ Reach(w, after[j])
    BY <1>1, <1>2, <2>1 DEF Picture
  <2> QED
    BY <1>3, <1>4, <2>1, <2>2, <2>3, <2>4 DEF WorkBelongs
<1> QED
    BY <1>1, <1>3, <1>4 DEF after

\* An upload gives the form a picture that nobody knew.
LEMMA UploadPictures ==
    ASSUME Basics, PicturesInv, NEW p \in Clerks, NEW w \in Handler, NEW i \in Images,
           Uploads(p, w, i)
    PROVE  PicturesInv'
<1> DEFINE v == proc[p]
           x == w.on
<1>1. /\ v # Nothing /\ To(p, w) /\ Lawful(w) /\ w.op = v.op /\ v.on = x /\ w.images = v.images
      /\ w.row = v.row /\ w.base = v.base /\ w.at = "form" /\ v.at = "form" /\ w.form = i
      /\ store[i] = "unused" /\ store' = [store EXCEPT ![i] = "stored"] /\ w # Nothing
      /\ part' = part /\ shop' = shop /\ muddled' = muddled
    BY HandlerFields DEF Uploads, Alike, ShopRests, shopVars
<1>2. /\ ~Writes(w) /\ ~WritesShop(w) /\ Key(w) = i /\ i # Nothing
      /\ Sweeps(w) => Sweeps(v)
      /\ Fills(w) => Fills(v)
      /\ FillsShop(w) => FillsShop(v)
      /\ i \notin Address
    BY <1>1, MerchantsAssumption, SentinelAssumption
    DEF Writes, WritesShop, Key, SanitizeStorageKey, Sweeps, Fills, FillsShop, Picture
<1>3. x \in Places /\ (Fills(w) => w.op \in Kinds)
    BY <1>1, Kinds3 DEF Lawful, WorksOn, Places, Fills, Handler
<1>4. /\ store'[i] = "stored" /\ \A j \in Images : j # i => store'[j] = store[j]
    BY <1>1, BasicsParts DEF RowBasics
<1>5. PICK home \in HomeMap : AllBelong(home)
    BY DEF PicturesInv, Homes, HomeMap
<1>6. home[i] = Nothing /\ Nothing \notin Places
    BY <1>1, <1>5, MerchantsAssumption, ReviewsAssumption DEF AllBelong, RowsBelong, Places
<1> DEFINE after == [home EXCEPT ![i] = x]
<1>7. /\ after \in HomeMap /\ after[i] = x
      /\ \A j \in Picture, z \in Places : Belongs(home, j, z) => Belongs(after, j, z)
      /\ \A u \in Handler : WorksOn(u) /\ WorkBelongs(home, u) => WorkBelongs(after, u)
    BY <1>3, <1>6, NewHome
<1>8. \A j \in Images : j # i => after[j] = home[j]
    BY DEF HomeMap
<1> HIDE DEF after
\* Nobody knew it.
<1>9. /\ \A y \in Parts : part[y].image # i
      /\ \A q \in Clerks : proc[q] # Nothing => ~Knows(proc[q], i) /\ ~Brings(proc[q], i)
  <2>1. \A y \in Parts : part[y].image # i
    BY <1>2, <1>5, <1>6 DEF AllBelong, RowsBelong, Belongs, Places
  <2>2. ASSUME NEW q \in Clerks, proc[q] # Nothing
        PROVE  ~Knows(proc[q], i) /\ ~Brings(proc[q], i)
    <3>1. WorkBelongs(home, proc[q])
      BY <1>5, <2>2 DEF AllBelong
    <3>2. Fills(proc[q]) \/ Writes(proc[q]) => proc[q].on \in Places
      BY <2>2, UnderWay DEF WorksOn, Fills, Writes, Places
    <3> QED
      BY <1>2, <1>6, <3>1, <3>2 DEF WorkBelongs, Belongs, Knows, Brings
  <2> QED
    BY <2>1, <2>2
<1>10. Homes'
  <2>1. WorkBelongs(after, v)
    BY <1>1, <1>5, <1>7, UnderWay DEF AllBelong
  <2>2. WorkBelongs(after, w)
    BY <1>1, <1>2, <1>7, <2>1 DEF WorkBelongs, Belongs, Reach
  <2>3. proc'[p] = w /\ \A q \in Clerks : q # p => proc'[q] = proc[q]
    BY <1>1, BasicsParts, ToTyped
  <2>4. \A q \in Clerks : proc'[q] # Nothing => WorkBelongs(after, proc'[q])
    BY <1>5, <1>7, <2>2, <2>3, UnderWay DEF AllBelong
  <2>5. RowsBelong(after)'
    <3>1. \A j \in Images : store'[j] = "unused" => after[j] = Nothing
      BY <1>4, <1>5, <1>8 DEF AllBelong, RowsBelong
    <3>2. /\ \A y \in Parts : Belongs(after, part'[y].image, y)
          /\ \A s \in Shops : Belongs(after, shop'[s].image, s)
      BY <1>1, <1>5, <1>7, RowsTyped DEF AllBelong, RowsBelong, Places
    <3> QED
      BY <3>1, <3>2 DEF RowsBelong
  <2>6. AllBelong(after)'
    BY <2>4, <2>5 DEF AllBelong
  <2> QED
    BY <1>7, <2>6 DEF Homes, HomeMap
<1>11. FormsOK'
    BY <1>1, <1>2, FormsStep DEF PicturesInv, FormOK
<1>12. FreshOK'
  <2>1. ASSUME NEW q \in Clerks, q # p, proc[q] # Nothing, Fresh(proc[q])
        PROVE  LET j == proc[q].form IN
               /\ store'[j] = "stored" /\ \A y \in Parts : part'[y].image # j
               /\ w # Nothing => ~Knows(w, j) /\ ~Brings(w, j)
    <3> DEFINE j == proc[q].form
    <3>1. Unknown(q, j) /\ j \in Images
      BY <2>1, FreshUnseen
    <3>2. j # i
      BY <1>1, <3>1 DEF Unknown
    <3>3. ~Knows(v, j)
      BY <1>1, <2>1, <3>1 DEF Unknown
    <3>4. ~Knows(w, j) /\ ~Brings(w, j)
      BY <1>1, <1>2, <3>2, <3>3 DEF Knows, Brings
    <3> QED
      BY <1>1, <1>4, <3>1, <3>2, <3>4 DEF Unknown
  <2>2. ~Knows(w, i)
    BY <1>1, <1>2, <1>9 DEF Knows
  <2> QED
    BY <1>1, <1>4, <1>9, <2>1, <2>2, FreshStep DEF PicturesInv
<1>13. \A z \in Places : (LifeOf(z))' = LifeOf(z)
    BY <1>1 DEF LifeOf, Places
<1>14. NewParts'
  <2>1. ASSUME w.op \in Kinds, part'[w.on].life = "none"
        PROVE  /\ w.base = Nothing
               /\ \A q \in Clerks : q # p /\ proc[q] # Nothing => ~OnPart(proc[q], w.on)
    <3>1. w.on \in Parts /\ part[w.on].life = "none" /\ OnPart(v, w.on)
      BY <1>1, <2>1 DEF Lawful, WorksOn, OnPart
    <3> QED
      BY <1>1, <3>1 DEF PicturesInv, NewParts
  <2> QED
    BY <1>1, <1>13, <2>1, NewStep DEF PicturesInv
<1>15. WritersAgree'
    BY <1>1, <1>2, WritersStep DEF PicturesInv
<1>16. \A y \in Parts : Shown(y)' => Shown(y)
    BY <1>13, ShownParts
<1>17. \A y \in Parts : part[y].image # Nothing /\ store[part[y].image] = "stored"
                           => store'[part[y].image] = "stored"
    BY <1>4, RowsTyped DEF Picture
<1>18. SweepsSafe' /\ ImagesKept'
    BY <1>1, <1>16, <1>17, SafeStep DEF PicturesInv
<1> QED
    BY <1>10, <1>11, <1>12, <1>14, <1>15, <1>18 DEF PicturesInv

-----------------------------------------------------------------------------
(* The invariant.                                                          *)

\* Pictures under the steps of the clerks, and under those of others.
LEMMA ClerkPictures ==
    ASSUME Basics, PicturesInv, NEW p \in Clerks, ClerkStep(p)
    PROVE  PicturesInv'
<1>1. CASE UserStep(p) \/ ListStep(p)
    BY <1>1, StillPictures
<1>2. CASE ShopStep(p)
    BY <1>2, StillPictures, ShopPictures DEF ShopStep
<1>3. CASE PartStep(p)
    BY <1>3, StillPictures, InsertPictures, SavePictures, ErasePictures, SweepPictures,
       UploadPictures DEF PartStep
<1> QED
    BY <1>1, <1>2, <1>3 DEF ClerkStep

\* The steps of the other tables leave the pictures alone.
LEMMA OthersPictures ==
    ASSUME PicturesInv, UNCHANGED <<part, shop, store, muddled, proc>>
    PROVE  PicturesInv'
<1>0. /\ part' = part /\ shop' = shop /\ store' = store /\ muddled' = muddled /\ proc' = proc
      /\ \A x \in Parts : Shown(x)' <=> Shown(x)
    BY DEF Shown, Live
<1>1. Homes'
    BY <1>0 DEF PicturesInv, Homes, AllBelong, RowsBelong
<1>2. FormsOK' /\ FreshOK'
    BY <1>0 DEF PicturesInv, FormsOK, FreshOK, Unknown
<1>3. NewParts'
    BY <1>0 DEF PicturesInv, NewParts, LifeOf
<1>4. WritersAgree'
    BY <1>0 DEF PicturesInv, WritersAgree, Live
<1>5. SweepsSafe' /\ ImagesKept'
    BY <1>0 DEF PicturesInv, SweepsSafe, ImagesKept
<1> QED
    BY <1>1, <1>2, <1>3, <1>4, <1>5 DEF PicturesInv

\* At the start.
LEMMA InitRows ==
    ASSUME Init
    PROVE  RowBasics /\ HandlersOK /\ SceneOK /\ Owned
<1>1. /\ scene \in Scenes /\ proc = [p \in Clerks |-> Nothing]
      /\ scene.owner \in [Shops -> Users \cup {Nothing}]
      /\ scene.shows \in [Parts -> Images \cup {Nothing}]
    BY ScenesAssumption DEF Init
<1>2. shop \in [Shops -> Shop]
    BY <1>1 DEF Init, NoShop, Shop, Life
<1>3. part \in [Parts -> Part]
    BY <1>1 DEF Init, NoPart, Part, Life
<1>4. RowBasics
    BY <1>2, <1>3 DEF Init, RowBasics, Roles
<1>5. HandlersOK
    BY <1>1 DEF HandlersOK
<1>6. SceneOK
    BY <1>1, ScenesAssumption DEF SceneOK
<1>7. Owned
    BY <1>1 DEF Init, Owned, NoShop
<1> QED
    BY <1>4, <1>5, <1>6, <1>7

\* The reviews there are at the start agree with the numbers shown.
LEMMA InitReviews ==
    ASSUME Init
    PROVE  TxBasics /\ ReviewsInv
<1> DEFINE past == scene.past
<1>1. /\ past \subseteq Review /\ IsFiniteSet(past)
      /\ \A r, s \in past : r.by = "requester" /\ (Same(r, s) => r = s)
      /\ review = past /\ score = [u \in Users |-> GetAverageRatingByReviewee(past, u)]
      /\ rating = [s \in Shops |-> GetAverageRatingByMerchant(past, s)]
      /\ tx = [p \in Reviewers |-> Nothing] /\ crossed = {}
    BY ScenesAssumption DEF Init, ReviewsInit
<1> HIDE DEF past
<1>2. \A u : /\ GetAverageRatingByReviewee(past, u) \in Number
             /\ OfRunner(past, u) # {} => GetAverageRatingByReviewee(past, u) # Nothing
             /\ GetAverageRatingByMerchant(past, u) \in Number
    BY <1>1, AveragesTyped
<1>3. TxBasics
    BY <1>1, <1>2 DEF TxBasics, ReviewsTypeOK, TxTyped, InsertedOnce, Inserted, Past
<1>4. \A u : OfRequester(past, u) = {}
    BY <1>1 DEF OfRequester
<1>5. \A u : OfRunner(past, u) = {} => GetAverageRatingByReviewee(past, u) = Nothing
    BY FS_EmptySet DEF GetAverageRatingByReviewee, Mean
<1>6. ScoresAgree
    BY <1>1, <1>2, <1>4, <1>5 DEF ScoresAgree
<1>7. NumbersHold
    BY <1>1 DEF NumbersHold, Past
<1> QED
    BY <1>3, <1>6, <1>7 DEF ReviewsInv

\* At the start no two rows show one picture.
LEMMA InitPictures ==
    ASSUME Init
    PROVE  PicturesInv
<1>1. /\ scene \in Scenes /\ proc = [p \in Clerks |-> Nothing] /\ muddled = {}
      /\ scene.owner \in [Shops -> Users \cup {Nothing}]
      /\ scene.shows \in [Parts -> Images \cup {Nothing}] /\ scene.stock \subseteq Parts
      /\ \A x, y \in scene.stock :
            scene.shows[x] = scene.shows[y] => x = y \/ scene.shows[x] = Nothing
      /\ \A x \in scene.stock : IF Parent[x] \in Parts THEN Parent[x] \in scene.stock
                                                       ELSE scene.owner[Parent[x]] # Nothing
    BY ScenesAssumption DEF Init
<1>2. /\ \A s \in Shops : /\ shop[s].image = Nothing
                          /\ shop[s].life = IF scene.owner[s] = Nothing THEN "none" ELSE "live"
      /\ \A x \in Parts : /\ part[x].image = IF x \in scene.stock THEN scene.shows[x] ELSE Nothing
                          /\ part[x].life = IF x \in scene.stock THEN "live" ELSE "none"
      /\ \A i \in Images : store[i] = IF \E x \in scene.stock : scene.shows[x] = i
                                       THEN "stored" ELSE "unused"
    BY DEF Init, NoShop, NoPart
<1>3. /\ \A x \in Parts : Parent[x] \in Parts \cup Shops
      /\ Nothing \notin Images /\ Shops \cap Parts = {}
    BY MerchantsAssumption
<1>4. Homes
  <2> DEFINE home == [i \in Images |->
                        IF \E x \in scene.stock : scene.shows[x] = i
                        THEN CHOOSE x \in scene.stock : scene.shows[x] = i ELSE Nothing]
  <2>1. home \in HomeMap
    BY <1>1 DEF HomeMap, Places
  <2>2. ASSUME NEW x \in Parts, part[x].image # Nothing PROVE home[part[x].image] = x
    <3>1. x \in scene.stock /\ part[x].image = scene.shows[x] /\ scene.shows[x] \in Images
      BY <1>1, <1>2, <2>2
    <3> QED
      BY <1>1, <2>2, <3>1
  <2>3. \A i \in Images : store[i] = "unused" => home[i] = Nothing
    BY <1>2
  <2> HIDE DEF home
  <2>4. AllBelong(home)
    BY <1>1, <1>2, <2>2, <2>3 DEF AllBelong, RowsBelong, Belongs
  <2> QED
    BY <2>1, <2>4 DEF Homes, HomeMap
<1>5. FormsOK /\ FreshOK /\ WritersAgree /\ SweepsSafe
    BY <1>1 DEF FormsOK, FreshOK, WritersAgree, SweepsSafe
<1>6. NewParts
  <2>1. ASSUME NEW x \in Parts, part[x].life # "none" PROVE LifeOf(Parent[x]) # "none"
    <3>1. x \in scene.stock
      BY <1>2, <2>1
    <3> QED
      BY <1>1, <1>2, <1>3, <3>1 DEF LifeOf
  <2> QED
    BY <1>1, <1>2, <2>1 DEF NewParts
<1>7. ImagesKept
  <2>1. ASSUME NEW x \in Parts, part[x].image # Nothing PROVE store[part[x].image] = "stored"
    BY <1>1, <1>2, <2>1
  <2> QED
    BY <2>1 DEF ImagesKept
<1> QED
    BY <1>4, <1>5, <1>6, <1>7 DEF PicturesInv

\* The scene a run starts from satisfies the invariant.
LEMMA InitInvariant == Init => MerchantsInvariant
<1> SUFFICES ASSUME Init PROVE MerchantsInvariant
    OBVIOUS
<1>1. Basics
    BY InitRows, InitReviews, BasicsParts
<1>2. /\ scene \in Scenes /\ proc = [p \in Clerks |-> Nothing] /\ nearby = NoCache
      /\ scene.owner \in [Shops -> Users \cup {Nothing}]
      /\ \A s, t \in Shops :
            scene.owner[s] = scene.owner[t] => s = t \/ scene.owner[s] = Nothing
    BY ScenesAssumption DEF Init
<1>3. /\ \A s \in Shops : shop[s].life = "live" =>
            shop[s].owner = scene.owner[s] /\ scene.owner[s] \in Users
      /\ role = [u \in Users |-> IF \E s \in Shops : scene.owner[s] = u THEN "merchant"
                                  ELSE "requester"]
    BY <1>2 DEF Init, NoShop
<1>4. OwnersInv
    BY <1>2, <1>3, ReviewsAssumption, OwnersParts DEF Opens
<1>5. ListInv
    BY <1>2 DEF ListInv
<1> QED
    BY <1>1, <1>4, <1>5, InitReviews, InitPictures DEF MerchantsInvariant

\* Every step keeps it.
LEMMA NextInvariant == MerchantsInvariant /\ [Next]_vars => MerchantsInvariant'
<1> SUFFICES ASSUME MerchantsInvariant, [Next]_vars PROVE MerchantsInvariant'
    OBVIOUS
<1>0. Basics /\ ReviewsInv /\ OwnersInv /\ ListInv /\ PicturesInv
    BY DEF MerchantsInvariant
<1>1. ASSUME NEW p \in Clerks, ClerkStep(p) PROVE MerchantsInvariant'
  <2>1. Basics'
    BY <1>0, <1>1, UserStepBasics, ShopStepBasics, ListStepBasics, PartStepBasics
    DEF ClerkStep
  <2> QED
    BY <1>0, <1>1, <2>1, ClerkReviews, ClerkOwners, ClerkList, ClerkPictures
    DEF MerchantsInvariant
<1>2. ASSUME NEW p \in Reviewers, Reviewing(p) PROVE MerchantsInvariant'
  <2>1. PicturesInv'
    BY <1>0, <1>2, OthersPictures DEF Reviewing, shopVars, partVars
  <2> QED
    BY <1>0, <1>2, <2>1, ReviewingBasics, OthersOwnersList DEF MerchantsInvariant
<1>3. CASE MinutePasses
  <2>1. PicturesInv'
    BY <1>0, <1>3, OthersPictures DEF MinutePasses, ShopRests, shopVars, partVars
  <2>2. ReviewsInv'
    BY <1>0, <1>3
    DEF MinutePasses, ShopRests, reviewVars, ReviewsInv, NumbersHold, ScoresAgree, Past, Sees
  <2> QED
    BY <1>0, <1>3, <2>1, <2>2, MinuteBasics, OthersOwnersList DEF MerchantsInvariant
<1>4. CASE UNCHANGED vars
  <2>1. PicturesInv'
    BY <1>0, <1>4, OthersPictures DEF vars, shopVars, partVars
  <2>2. ReviewsInv'
    BY <1>0, <1>4
    DEF vars, reviewVars, ReviewsInv, NumbersHold, ScoresAgree, Past, Sees
  <2>3. UNCHANGED <<review, score, rating, tx, crossed, role, shop, tangled, part, store,
                    muddled, nearby, old, proc, scene>>
    BY <1>4 DEF vars, reviewVars, shopVars, partVars, cacheVars
  <2>4. Basics'
    BY <1>0, <2>3, BasicsParts
    DEF TxBasics, ReviewsTypeOK, TxTyped, InsertedOnce, Inserted, Past, RowBasics, HandlersOK,
        SceneOK, Owned, OwnerKept
  <2> QED
    BY <1>0, <1>4, <2>1, <2>2, <2>4, OthersOwnersList DEF MerchantsInvariant
<1> QED
    BY <1>0, <1>1, <1>2, <1>3, <1>4, NextCases

-----------------------------------------------------------------------------
(* Theorems.                                                               *)

\* The invariant holds in every state.
THEOREM MerchantsInvariance == Spec => []MerchantsInvariant
<1> QED
    BY InitInvariant, NextInvariant, PTL DEF Spec

\* No merchant confirms orders by himself, and every column has a value of its type.
THEOREM MerchantsTyped == Spec => []TypeOK
<1>1. MerchantsInvariant => TypeOK
    BY DEF MerchantsInvariant, Basics
<1> QED
    BY <1>1, MerchantsInvariance, PTL

\* The picture of a part that is shown is in the store.
THEOREM PicturesAreKept == Spec => []ImagesKept
<1>1. MerchantsInvariant => ImagesKept
    BY DEF MerchantsInvariant, PicturesInv
<1> QED
    BY <1>1, MerchantsInvariance, PTL

\* The owner of a shop has the role of a merchant.
THEOREM OwnersAreMerchants == Spec => []RoleFollowsShop
<1>1. MerchantsInvariant => RoleFollowsShop
    BY DEF MerchantsInvariant, OwnersInv
<1> QED
    BY <1>1, MerchantsInvariance, PTL

\* The cached list is the table, or a change is about to be told.
THEOREM ListIsTold == Spec => []NearbyAgrees
<1>1. ASSUME MerchantsInvariant PROVE NearbyAgrees
  <2>1. CASE nearby = NoCache \/ old
    BY <2>1 DEF NearbyAgrees
  <2>2. CASE nearby # NoCache /\ \A s \in Shops : nearby[s] = View[s]
    <3>1. nearby \in [Shops -> SUBSET BOOLEAN]
      BY <1>1, <2>2 DEF MerchantsInvariant, Basics, TypeOK
    <3>2. nearby = View
      BY <2>2, <3>1 DEF View
    <3> QED
      BY <3>2 DEF NearbyAgrees
  <2>3. CASE \E s \in Shops : Told(s)
    BY <2>3 DEF Told, Tells, NearbyAgrees, ShopOps
  <2> QED
    BY <1>1, <2>1, <2>2, <2>3 DEF MerchantsInvariant, ListInv
<1> QED
    BY <1>1, MerchantsInvariance, PTL

\* The number in a row is the average of all ratings there are.
THEOREM RatingsAreRight == Spec => []ScoresAgree
<1>1. MerchantsInvariant => ScoresAgree
    BY DEF MerchantsInvariant, ReviewsInv
<1> QED
    BY <1>1, MerchantsInvariance, PTL
=============================================================================
