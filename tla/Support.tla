------------------------------- MODULE Support -------------------------------
(***************************************************************************)
(* Support tickets: a user opens a ticket, an agent of the customer        *)
(* service takes it off the queue, they exchange messages, the ticket is   *)
(* resolved, closed, opened again, and closed by a worker when it has been *)
(* resolved for some days.                                                 *)
(*                                                                         *)
(* Handlers read the row of the ticket and write the whole row back later; *)
(* only taking a ticket and the worker change columns under a condition.   *)
(* A handler is a process: it reads, it may insert a message, it writes.   *)
(*                                                                         *)
(* Agendas bounds a behaviour: how many operations of each class there are.*)
(***************************************************************************)
EXTENDS Naturals, FiniteSets

CONSTANTS
    Tickets, Agents,
    MaxConcurrent,   \* config support_cs_max_concurrent
    Limit,           \* messages to a page
    MaxMessages,     \* bound
    FAQs, Procs, Agendas, NoRow, NoAgent, NoMessage, Idle

AgendaClasses == {"open", "claim", "edit", "message", "read", "tick", "faq", "fault"}

ASSUME SupportAssumption ==
    /\ {MaxConcurrent, Limit} \subseteq Nat \ {0} /\ MaxMessages \in Nat
    /\ NoAgent \notin Agents /\ Agendas \subseteq [AgendaClasses -> Nat]

VARIABLES
    ticket,   \* table support_tickets
    aged,     \* tickets resolved so many days ago that the worker closes them
    message,  \* table support_messages
    faq,      \* table support_faq
    handler,     \* handlers under way
    clock,    \* time of the server
    cursor,   \* the last message each side has been shown
    seen,     \* ghost: messages each side has been shown
    late,     \* ghost: messages inserted after one with a later time
    winners,  \* ghost: agents who have taken a ticket since it was last queued
    left      \* bound: what may still happen

ticketVars == <<ticket, aged, winners>>
messageVars == <<message, late>>
readerVars == <<cursor, seen>>
supportVars == <<ticketVars, messageVars, readerVars, faq, handler, clock, left>>

Spends(class) == left[class] > 0 /\ left' = [left EXCEPT ![class] = @ - 1]

-----------------------------------------------------------------------------
(* Tables                                                                   *)

Open == {"in_progress", "waiting_user"}

\* What a row may hold, whoever wrote it and however old what he had read was: a ticket in
\* the queue has no agent, one being worked on has one, and neither has an end; a resolved
\* one has the time of it, and so has a closed one.
Row ==
    [status : {"queued"}, agent : {NoAgent}, resolved : {FALSE}, closed : {FALSE}]
    \cup [status : Open, agent : Agents, resolved : {FALSE}, closed : {FALSE}]
    \cup [status : {"resolved"}, agent : Agents \cup {NoAgent},
          resolved : {TRUE}, closed : BOOLEAN]
    \cup [status : {"closed"}, agent : Agents \cup {NoAgent},
          resolved : BOOLEAN, closed : {TRUE}]

ASSUME RowAssumption == NoRow \notin Row

Sides == {"user", "cs"}
Message == [id : 1 .. MaxMessages, ticket : Tickets, by : Sides, internal : BOOLEAN, at : Nat]

\* Columns of a message a side is shown.
ShownTo(side, t) ==
    {m \in message : m.ticket = t /\ (side = "cs" \/ ~m.internal)}

\* UpdateTicket writes every column of the row that was read; a row that is queued again
\* may be taken again.
UpdateTicket(t, r) ==
    /\ ticket' = [ticket EXCEPT ![t] = r]
    /\ aged' = IF r.status = "resolved" /\ ticket[t].resolved THEN aged ELSE aged \ {t}
    /\ winners' = IF r.status = "queued" THEN [winners EXCEPT ![t] = {}] ELSE winners

-----------------------------------------------------------------------------
(* Handlers                                                                 *)

Reads(p, class, op, t, by) ==
    /\ handler[p] = Idle /\ ticket[t] # NoRow
    /\ handler' = [handler EXCEPT ![p] =
                   [op |-> op, at |-> "write", ticket |-> t, row |-> ticket[t], by |-> by,
                    message |-> NoMessage]]
    /\ Spends(class) /\ UNCHANGED <<ticketVars, messageVars, readerVars, faq, clock>>
Stands(p, op, step) == handler[p] # Idle /\ handler[p].op = op /\ handler[p].at = step
Done(p) ==
    /\ handler' = [handler EXCEPT ![p] = Idle]
    /\ UNCHANGED <<messageVars, readerVars, faq, clock, left>>
\* The database fails: the handler answers with an error.
TicketFails(p) ==
    /\ handler[p] # Idle /\ handler' = [handler EXCEPT ![p] = Idle] /\ Spends("fault")
    /\ UNCHANGED <<ticketVars, messageVars, readerVars, faq, clock>>
WritesTicket(p, op, row) ==
    /\ Stands(p, op, "write") /\ UpdateTicket(handler[p].ticket, row)
    /\ Done(p)

NewRow == [status |-> "queued", agent |-> NoAgent, resolved |-> FALSE, closed |-> FALSE]
NewTicket == CHOOSE t \in Tickets : ticket[t] = NoRow
CreateTicket ==
    /\ \E t \in Tickets : ticket[t] = NoRow
    /\ Spends("open") /\ ticket' = [ticket EXCEPT ![NewTicket] = NewRow]
    /\ UNCHANGED <<aged, winners, messageVars, readerVars, faq, handler, clock>>

\* Mutant: whoever was first is overwritten.
AnyRow(r) == r # NoRow
Claimable(r) == r.status = "queued" /\ r.agent = NoAgent
CountActiveByCS(a) ==
    Cardinality({t \in {u \in Tickets : ticket[u] # NoRow} :
                    ticket[t].agent = a /\ ticket[t].status \in Open})
\* The number of tickets an agent has is read first; SELECT ... FOR UPDATE outside a
\* transaction holds nothing, so what it reads is only checked again by the UPDATE.
ClaimTicketAtomic(t, a) ==
    IF Claimable(ticket[t])
    THEN /\ ticket' = [ticket EXCEPT ![t].agent = a, ![t].status = "in_progress"]
         /\ winners' = [winners EXCEPT ![t] = @ \cup {a}] /\ UNCHANGED aged
    ELSE UNCHANGED ticketVars
ClaimTicket(p) ==
    \/ \E t \in Tickets, a \in Agents :
        CountActiveByCS(a) < MaxConcurrent /\ Reads(p, "claim", "claim", t, a)
    \/ /\ Stands(p, "claim", "write") /\ Done(p)
       /\ ClaimTicketAtomic(handler[p].ticket, handler[p].by)

Releasable(r, a) == r.agent = a /\ r.status \notin {"resolved", "closed"}
Released(r) == [r EXCEPT !.agent = NoAgent, !.status = "queued"]
ReleaseTicket(p) ==
    \/ \E t \in Tickets, a \in Agents :
        /\ ticket[t] # NoRow /\ Releasable(ticket[t], a)
        /\ Reads(p, "edit", "release", t, a)
    \/ WritesTicket(p, "release", Released(handler[p].row))

\* Any agent, whatever the status: a ticket in the queue, or one that is closed.
\* Mutant: without the time.
ResolvedNow(r) == [r EXCEPT !.status = "resolved"]
Resolved(r) == [r EXCEPT !.status = "resolved", !.resolved = TRUE]
ResolveTicket(p) ==
    \/ \E t \in Tickets, a \in Agents : Reads(p, "edit", "resolve", t, a)
    \/ WritesTicket(p, "resolve", Resolved(handler[p].row))

\* By the user or any agent.
Closed(r) == [r EXCEPT !.status = "closed", !.closed = TRUE]
CloseTicket(p) ==
    \/ \E t \in Tickets : Reads(p, "edit", "close", t, NoAgent)
    \/ WritesTicket(p, "close", Closed(handler[p].row))

Queued(r) ==
    [r EXCEPT !.status = "queued", !.agent = NoAgent, !.resolved = FALSE, !.closed = FALSE]
ReopenTicket(p) ==
    \/ \E t \in Tickets :
        /\ ticket[t] # NoRow /\ ticket[t].status \in {"resolved", "closed"}
        /\ Reads(p, "edit", "reopen", t, NoAgent)
    \/ WritesTicket(p, "reopen", Queued(handler[p].row))

\* After a message: the agent waits for the user, the user's answer sets the agent to work.
StatusAfter(r, side) ==
    CASE side = "cs" /\ r.status \in {"in_progress", "queued"} -> "waiting_user"
      [] side = "user" /\ r.status = "waiting_user" -> "in_progress"
      [] OTHER -> r.status

Answered(r, side) == [r EXCEPT !.status = StatusAfter(r, side)]

BeingSent == {handler[p].message : p \in {q \in Procs : Stands(q, "message", "insert")}}
\* Only the agent of the ticket may write; the user never internally.
SendMessageRead(p, t, side, a) ==
    /\ handler[p] = Idle /\ ticket[t] # NoRow /\ ticket[t].status # "closed"
    /\ side = "cs" => ticket[t].agent = a
    /\ \E internal \in IF side = "cs" THEN BOOLEAN ELSE {FALSE}, id \in 1 .. MaxMessages :
        /\ \A m \in message \cup BeingSent : m.id # id
        /\ handler' = [handler EXCEPT ![p] =
              [op |-> "message", at |-> "insert", ticket |-> t, row |-> ticket[t], by |-> a,
               message |-> [id |-> id, ticket |-> t, by |-> side, internal |-> internal,
                            at |-> clock]]]
    /\ Spends("message") /\ UNCHANGED <<ticketVars, messageVars, readerVars, faq, clock>>
CreateMessage(p) ==
    /\ Stands(p, "message", "insert") /\ message' = message \cup {handler[p].message}
    /\ late' = IF \E m \in message : m.ticket = handler[p].ticket /\ m.at > handler[p].message.at
               THEN late \cup {handler[p].message} ELSE late
    /\ handler' = [handler EXCEPT ![p].at = "write"]
    /\ UNCHANGED <<ticketVars, readerVars, faq, clock, left>>
SendMessageUser(p, t) == SendMessageRead(p, t, "user", NoAgent)
SendMessageCS(p, t, a) == SendMessageRead(p, t, "cs", a)
SendMessage(p) ==
    WritesTicket(p, "message", Answered(handler[p].row, handler[p].message.by))

-----------------------------------------------------------------------------
(* Reading messages                                                         *)

Before(m, n) == m.at < n.at \/ (m.at = n.at /\ m.id < n.id)

\* Mutant: messages of the same instant are passed over.
StrictlyAfter(S, c) == {m \in S : m.at > c.at}
After(S, c) == {m \in S : m.at >= c.at /\ m.id # c.id}
\* ORDER BY created_at, id LIMIT: fewer than Limit of them come before.
FirstPage(S) == {m \in S : Cardinality({n \in S : Before(n, m)}) < Limit}
LastOf(S) == CHOOSE m \in S : \A n \in S : n = m \/ Before(n, m)
FindMessagesByTicketID(side, t) ==
    FirstPage(IF cursor[side][t] = NoMessage THEN ShownTo(side, t)
              ELSE After(ShownTo(side, t), cursor[side][t]))

\* The app asks for what follows the last message it has.
GetMessages(side, t) ==
    LET page == FindMessagesByTicketID(side, t) IN
    /\ page # {} /\ Spends("read")
    /\ cursor' = [cursor EXCEPT ![side][t] = LastOf(page)]
    /\ seen' = [seen EXCEPT ![side] = @ \cup page]
    /\ UNCHANGED <<ticketVars, messageVars, faq, handler, clock>>
GetMessagesUser(t) == GetMessages("user", t)
GetMessagesAdmin(t) == GetMessages("cs", t)

Tick ==
    /\ Spends("tick") /\ clock' = clock + 1
    /\ UNCHANGED <<ticketVars, messageVars, readerVars, faq, handler>>

-----------------------------------------------------------------------------
(* The worker that closes resolved tickets, and the FAQ                     *)

DaysPass(t) ==
    /\ ticket[t] # NoRow /\ ticket[t].resolved /\ t \notin aged /\ aged' = aged \cup {t}
    /\ UNCHANGED <<ticket, winners, messageVars, readerVars, faq, handler, clock, left>>

\* Mutant: only the time is set.
StampedOnly(r) == [r EXCEPT !.closed = TRUE]
AutoClosed(r) == [r EXCEPT !.status = "closed", !.closed = TRUE]
AutoCloseResolved ==
    LET old == {t \in aged : ticket[t].status = "resolved" /\ ticket[t].resolved} IN
    /\ old # {}
    /\ ticket' = [t \in Tickets |-> IF t \in old THEN AutoClosed(ticket[t]) ELSE ticket[t]]
    /\ UNCHANGED <<aged, winners, messageVars, readerVars, faq, handler, clock, left>>

FAQStates == {"absent", "active", "inactive"}
FAQRests == Spends("faq") /\ UNCHANGED <<ticketVars, messageVars, readerVars, clock>>
CreateFAQ(f) ==
    /\ faq[f] = "absent" /\ \E s \in FAQStates \ {"absent"} : faq' = [faq EXCEPT ![f] = s]
    /\ FAQRests /\ UNCHANGED handler
DeleteFAQ(f) == faq' = [faq EXCEPT ![f] = "absent"] /\ FAQRests /\ UNCHANGED handler
\* A row that is gone by then is not updated.
UpdateFAQ(p, f) ==
    \/ /\ handler[p] = Idle /\ faq[f] # "absent"
       /\ \E s \in FAQStates \ {"absent"} : handler' =
             [handler EXCEPT ![p] = [op |-> "faq", at |-> "write", faq |-> f, as |-> s]]
       /\ FAQRests /\ UNCHANGED faq
    \/ /\ Stands(p, "faq", "write") /\ handler[p].faq = f
       /\ faq' = IF faq[f] = "absent" THEN faq ELSE [faq EXCEPT ![f] = handler[p].as]
       /\ handler' = [handler EXCEPT ![p] = Idle]
       /\ UNCHANGED <<ticketVars, messageVars, readerVars, clock, left>>

-----------------------------------------------------------------------------

SupportInit ==
    /\ ticket = [t \in Tickets |-> NoRow] /\ aged = {} /\ winners = [t \in Tickets |-> {}]
    /\ message = {} /\ late = {} /\ faq = [f \in FAQs |-> "absent"]
    /\ handler = [p \in Procs |-> Idle] /\ clock = 0
    /\ cursor = [side \in Sides |-> [t \in Tickets |-> NoMessage]]
    /\ seen = [side \in Sides |-> {}]
    /\ left \in Agendas

TicketStep(p) ==
    \/ ClaimTicket(p) \/ ReleaseTicket(p) \/ ResolveTicket(p)
    \/ CloseTicket(p) \/ ReopenTicket(p)
    \/ \E t \in Tickets : SendMessageUser(p, t) \/ \E a \in Agents : SendMessageCS(p, t, a)
    \/ CreateMessage(p) \/ SendMessage(p) \/ TicketFails(p)

SupportNext ==
    \/ \E t \in Tickets : DaysPass(t) \/ GetMessagesUser(t) \/ GetMessagesAdmin(t)
    \/ \E p \in Procs :
        \/ TicketStep(p)
        \/ \E f \in FAQs : UpdateFAQ(p, f)
    \/ \E f \in FAQs : CreateFAQ(f) \/ DeleteFAQ(f)
    \/ CreateTicket \/ Tick \/ AutoCloseResolved

\* Days pass, and the ticker of the worker fires.
Fairness == WF_supportVars(AutoCloseResolved) /\ \A t \in Tickets : WF_supportVars(DaysPass(t))

SupportSpec == SupportInit /\ [][SupportNext]_supportVars
FairSupportSpec == SupportSpec /\ Fairness

-----------------------------------------------------------------------------
(* Properties                                                               *)

TicketWork == [op : {"claim", "release", "resolve", "close", "reopen", "message"},
         at : {"insert", "write"}, ticket : Tickets, row : Row, by : Agents \cup {NoAgent},
         message : Message \cup {NoMessage}]
FAQWork == [op : {"faq"}, at : {"write"}, faq : FAQs, as : FAQStates]

\* Rows, and the copies of them that handlers carry about, agree in their columns (Row):
\* no mixture of whole-row writes and conditional updates leaves a ticket that is in the
\* queue with an agent, or being worked on without.
TicketsTypeOK ==
    /\ ticket \in [Tickets -> Row \cup {NoRow}] /\ aged \subseteq Tickets
    /\ winners \in [Tickets -> SUBSET Agents]
    /\ message \subseteq Message /\ late \subseteq message
    /\ faq \in [FAQs -> FAQStates]
    /\ \A p \in Procs : handler[p] = Idle \/ IF handler[p].op = "faq" THEN handler[p] \in FAQWork
                                                            ELSE handler[p] \in TicketWork
    /\ clock \in Nat /\ \A side \in Sides, t \in Tickets :
                            cursor[side][t] \in message \cup {NoMessage}
    /\ seen \in [Sides -> SUBSET message] /\ left \in [AgendaClasses -> Nat]

\* "Atomic conditional update: prevents double claim": between two writes that put a ticket
\* in the queue, one agent at most takes it.
OneWinner == \A t \in Tickets : Cardinality(winners[t]) <= 1

\* A closed ticket is open again when its owner reopens it or an agent resolves it once
\* more, or where a handler writes back a row it read before the ticket was closed; not by
\* releasing it, and not by a message, which a closed ticket refuses.
Reviving(p, t) ==
    /\ handler[p] # Idle /\ handler'[p] = Idle /\ handler[p].op # "faq" /\ handler[p].ticket = t
    /\ handler[p].op \in {"reopen", "resolve"} \/ handler[p].row # ticket[t]
ClosedStays ==
    [][\A t \in Tickets :
        ticket[t] # NoRow /\ ticket[t].status = "closed" /\ ticket'[t].status # "closed"
            => \E p \in Procs : Reviving(p, t)]_supportVars

\* A side that asks for what follows the last message it has misses none, though messages
\* bear the same time and come in pages; but one inserted after a later one, as the time is
\* taken before the row is inserted.
PollMissesNothing ==
    \A side \in Sides, t \in Tickets :
        cursor[side][t] # NoMessage =>
            \A m \in ShownTo(side, t) :
                m.at < cursor[side][t].at => m \in seen[side] \/ m \in late

IsResolved(t) == ticket[t] # NoRow /\ ticket[t].status = "resolved"
\* A ticket that is resolved is closed by the worker some days later, if nobody opens it
\* again before.
ResolvedEnds == \A t \in Tickets : IsResolved(t) ~> ~IsResolved(t)

\* Tickets end: what is resolved is closed in the end, and what is closed is not opened
\* again by accident.
TicketsEnd == ResolvedEnds /\ ClosedStays
=============================================================================
