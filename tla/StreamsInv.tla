------------------------------ MODULE StreamsInv ------------------------------
(***************************************************************************)
(* The inductive invariant behind EachEventOnce: what the goroutines that  *)
(* announce a change are about to send, to whom, and that no two of them   *)
(* are about the same.                                                     *)
(***************************************************************************)
EXTENDS Streams

\* What a goroutine may have to send.
Plans ==
    {BroadcastOrderCreated(o) : o \in Orders} \cup {BroadcastOrderClaimed(o) : o \in Orders}
    \cup {BroadcastOrderCancelled(o) : o \in Orders}
    \cup {BroadcastOrderStatus(o, type) : o \in Orders, type \in Types}
    \cup {BroadcastMerchant(type) : type \in Types}
Cells ==
    {OrderCell(o) : o \in Orders} \cup NearCells \cup {Global, MerchantCell, MerchantGlobal}

\* The cells of a stream that is not a merchant's: each plan has one call of a type for them.
OwnCells == {{}, NearCells, {Global}} \cup {{OrderCell(o)} : o \in Orders}

Task ==
    [order : Orders, change : Nat, by : 1 .. 3, call : 1 .. 4, plan : Plans, to : SUBSET Streams]
Stream ==
    [at : {"new", "asked", "on", "gone"}, cells : SUBSET Cells,
     seen : Statuses \cup TrackingStates \cup {"none"}, buffer : Seq(Event)]

\* A goroutine announces a change that was made, and is at a call to those who asked for it.
TasksOK ==
    \A t \in tasks :
        /\ t \in Task /\ t.call \in DOMAIN t.plan /\ t.change <= changes[t.order]
        /\ \A s \in t.to : /\ stream[s].at \in {"on", "gone"}
                           /\ Subscribed(s, t.plan[t.call].cells)
TasksDiffer ==
    \A t, u \in tasks : t.order = u.order /\ t.change = u.change /\ t.by = u.by => t = u

\* A stream has asked for what it is told of, and was told nothing before it was registered.
StreamsOK ==
    /\ stream \in [Streams -> Stream]
    /\ \A s \in Streams :
        /\ Len(stream[s].buffer) <= BufferSize
        /\ s \notin MerchantStreams => stream[s].cells \in OwnCells
        /\ stream[s].at = "asked" /\ s \notin TrackStreams => stream[s].cells \subseteq Reachable
        /\ stream[s].at = "on" => stream[s].cells \subseteq Reachable
        /\ stream[s].at \in {"new", "asked"} => due[s] \cup told[s] \cup missed[s] = {}
GhostsOK ==
    /\ due \in [Streams -> SUBSET Event] /\ told \in [Streams -> SUBSET Event]
    /\ missed \in [Streams -> SUBSET Event]
    /\ \A s \in Registered : \A e \in told[s] \cup missed[s] : e.change <= changes[e.order]

ComingTo(s) == UNION {Coming(t, s) : t \in tasks}
Same(e, f) == e.order = f.order /\ e.change = f.change /\ e.by = f.by /\ e.type = f.type
NothingLost == \A s \in Registered : due[s] \subseteq told[s] \cup missed[s] \cup ComingTo(s)
\* What a stream was told of and what it still will be is of one kind once.
OneOfAKind ==
    \A s \in Registered \ MerchantStreams :
        \A e, f \in told[s] \cup missed[s] \cup ComingTo(s) : Same(e, f) => e = f

\* Tables, requests, index, sweeper and bounds.
RestOK ==
    /\ row \in [Orders -> Row] /\ request \in [Requests -> Request \cup {Idle}]
    /\ changes \in [Orders -> Nat] /\ pool \subseteq Orders
    /\ \A c \in geo : c.order \in Orders /\ c.call \in Calls /\ c.change \in Nat
    /\ sweep \in [at : {"rest", "list", "set"}, live : SUBSET Orders, drop : SUBSET Orders]
    /\ scene \in Bounds

HubInv == TasksOK /\ TasksDiffer /\ StreamsOK /\ GhostsOK /\ NothingLost /\ OneOfAKind
StreamsInvariant == RestOK /\ HubInv
=============================================================================
