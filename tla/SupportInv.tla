------------------------------ MODULE SupportInv ------------------------------
(***************************************************************************)
(* The inductive invariants from which the properties of Support follow.   *)
(* OneWinner rests on what handlers carry: no row that puts a ticket in    *)
(* the queue unnoticed, or takes it out of it without an agent.  And       *)
(* PollMissesNothing rests on identities: a message being inserted has one *)
(* of its own, and the last message a side has is one it was shown.        *)
(***************************************************************************)
EXTENDS Support

\* A handler knows what it was started for.
Has(p) ==
    /\ ticket[handler[p].ticket] # NoRow
    /\ handler[p].op = "claim" => handler[p].by \in Agents
    /\ handler[p].op = "release" => handler[p].row.status \in Open
    /\ handler[p].op = "message" =>
          /\ handler[p].message \in Message /\ handler[p].row.status # "closed"
          /\ handler[p].message.by = "cs" => handler[p].row.agent \in Agents
\* The rows of the table.
RowsOK ==
    /\ ticket \in [Tickets -> Row \cup {NoRow}] /\ winners \in [Tickets -> SUBSET Agents]
    /\ aged \subseteq {t \in Tickets : ticket[t] # NoRow} /\ clock \in Nat
\* What handlers carry about.
ProcsOK ==
    /\ handler \in [Procs -> TicketWork \cup FAQWork \cup {Idle}]
    /\ \A p \in Procs : handler[p] = Idle \/ handler[p].op = "faq" \/ Has(p)
\* A ticket that may be taken has not been taken since it was last queued.
Untaken ==
    \A t \in Tickets :
        /\ ticket[t] = NoRow \/ Claimable(ticket[t]) => winners[t] = {}
        /\ winners[t] = {} \/ \E a \in Agents : winners[t] = {a}

TicketsInv == RowsOK /\ ProcsOK /\ Untaken

\* Messages are told apart by their identity.
MessagesOK ==
    /\ message \subseteq Message /\ IsFiniteSet(message) /\ late \subseteq message
    /\ \A m, n \in message : m.id = n.id => m = n

\* One being inserted has an identity that nobody else has.
Inserting(p) == Stands(p, "message", "insert")
IdsAreFresh ==
    \A p \in Procs : Inserting(p) =>
        /\ handler[p].message.ticket = handler[p].ticket
        /\ \A m \in message : m.id # handler[p].message.id
        /\ \A q \in Procs \ {p} : Inserting(q) => handler[q].message.id # handler[p].message.id

\* The last message a side has is one of the ticket, and it has been shown.
Cursors(side, t) == {NoMessage} \cup (ShownTo(side, t) \cap seen[side])
ReadersOK ==
    /\ seen \in [Sides -> SUBSET message]
    /\ cursor \in [Sides -> [Tickets -> message \cup {NoMessage}]]
    /\ \A side \in Sides, t \in Tickets : cursor[side][t] \in Cursors(side, t)

\* The tables nothing else depends on.
RestOK == faq \in [FAQs -> FAQStates] /\ left \in [AgendaClasses -> Nat]

MessagesInv == MessagesOK /\ IdsAreFresh /\ ReadersOK /\ PollMissesNothing /\ RestOK
=============================================================================
