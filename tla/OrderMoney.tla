----------------------------- MODULE OrderMoney -----------------------------
(***************************************************************************)
(* What the platform promises whoever pays for an order: the price is      *)
(* taken once, it stays until the order is settled, a settlement hands all *)
(* of it out, and after that nothing is handed out again.                  *)
(***************************************************************************)
EXTENDS Naturals

CONSTANT Orders

VARIABLE account   \* the money of each order

\* due is what settling the order will hand out, and once it is settled what was
\* left over; raised, whether its customer has agreed to a higher price.
Account == [phase : {"asked", "held", "settled"}, due : Nat, raised : BOOLEAN]
NoAccount == [phase |-> "none", due |-> 0, raised |-> FALSE]
Unknown == [phase |-> "unknown", due |-> 0, raised |-> FALSE]

TypeOK == account \in [Orders -> Account \cup {NoAccount, Unknown}]

Init == account = [o \in Orders |-> NoAccount]

\* The order is placed, and paid for at once or later.
Open(o) ==
    /\ account[o] = NoAccount
    /\ account'[o] \in Account
    /\ account'[o].phase # "settled" /\ ~account'[o].raised

\* Its price arrives, whole.
Receive(o) ==
    /\ account[o].phase = "asked"
    /\ account'[o] = [account[o] EXCEPT !.phase = "held"]

\* The customer agrees to a higher price, once; also when the order is settled, and
\* then nobody gets what he adds.
Raise(o) ==
    /\ account[o] \in Account /\ ~account[o].raised
    /\ account'[o] \in Account /\ account'[o].raised
    /\ account'[o].phase = account[o].phase
    /\ account'[o].due >= account[o].due

\* Everything held is handed out.
Closed(a) == [phase |-> "settled", due |-> 0, raised |-> a.raised]
Settle(o) ==
    /\ account[o].phase = "held"
    /\ account'[o] = Closed(account[o])

\* The goods are handed over for cash, which never reaches the platform.
PayCash(o) ==
    /\ account[o].phase = "asked"
    /\ account'[o] = Closed(account[o])

\* A request undid what another had written: nothing is promised any more.
LoseTrack(o) ==
    /\ account[o] \in Account
    /\ account'[o] = Unknown

Moves(o) ==
    \/ Open(o) \/ Receive(o) \/ Raise(o)
    \/ Settle(o) \/ PayCash(o) \/ LoseTrack(o)

\* Money never moves from one order to another.
Next ==
    \E o \in Orders :
        /\ account' = [account EXCEPT ![o] = account'[o]]
        /\ Moves(o)

Spec == Init /\ [][Next]_account
=============================================================================
