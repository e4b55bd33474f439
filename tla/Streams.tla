------------------------------- MODULE Streams -------------------------------
(***************************************************************************)
(* What the apps see of the orders as they change: the hub in the memory   *)
(* of the server with its streams of events, the goroutines that announce  *)
(* a change to it, and the geo index in Redis of the orders a runner may   *)
(* take, with the sweeper that sets it right.                              *)
(*                                                                         *)
(* The life of an order is that of OrderEscrow without its money and its   *)
(* disputes.  Who may open which stream, and what an event carries besides *)
(* its order and its type, are left out; so are places: every order is     *)
(* near, in the cells Near.                                                *)
(*                                                                         *)
(* Scenes bounds a behaviour: which streams are opened, whether the index  *)
(* and its sweeper are looked at, the orders that change and what they are *)
(* at first, and how many operations on orders, disconnections, failures   *)
(* of Redis or the database and restarts there are.                        *)
(***************************************************************************)
EXTENDS Naturals, Sequences, FiniteSets, SequencesExt

CONSTANTS
    Orders, MerchantOrders,  \* those of the one merchant; the others are for a runner alone
    OrderStreams, RunnerStreams, MerchantStreams, TrackStreams,
    Near,                    \* grid cells around the place of pickup
    Requests,                \* handlers that read an order and write it later
    BufferSize, Scenes, Idle

Classes == {"act", "leave", "fault", "restart"}
Streams == OrderStreams \cup RunnerStreams \cup MerchantStreams \cup TrackStreams

ASSUME StreamsAssumption ==
    MerchantOrders \subseteq Orders /\ BufferSize \in Nat \ {0} /\ Near # {}

VARIABLES
    row,      \* orders.status, whether a runner is set, whether paid or on delivery
    request,  \* handlers between reading an order and writing it
    pool,     \* geo set orders:live
    geo,      \* calls that handlers still make to change that set
    sweep,    \* what the sweeper is doing
    stream,   \* the streams, with the registry of the hub
    tasks,    \* goroutines that announce a change
    changes,  \* ghost: announced changes of each order
    due,      \* ghost: events sent off to each stream while it was registered
    told,     \* ghost: events put into the buffer of each stream
    missed,   \* ghost: events each stream had no room for
    scene     \* bounds

orderVars == <<row, request, changes>>
indexVars == <<pool, geo, sweep>>
ghosts == <<due, told, missed>>
vars == <<orderVars, indexVars, stream, tasks, ghosts, scene>>

Takes(class) == scene.left[class] > 0 /\ scene' = [scene EXCEPT !.left[class] = @ - 1]
Works == UNCHANGED scene
Fails == Takes("fault")

-----------------------------------------------------------------------------
(* Orders                                                                   *)

Statuses == {"absent", "pending", "merchant_accepted", "accepted", "cooking", "ready",
             "purchasing", "delivering", "completed", "cancelled", "expired"}
Final == {"completed", "cancelled", "expired"}
Row == [status : Statuses, taken : BOOLEAN, paid : BOOLEAN]

Bounds == [opened : SUBSET Streams, indexed : BOOLEAN, orders : SUBSET Orders,
           start : [Orders -> Row], left : [Classes -> Nat]]
ASSUME ScenesAssumption == Scenes \subseteq Bounds

\* WHERE of the sweeper.
Live(r) == r.paid /\ r.status \in {"pending", "merchant_accepted", "accepted", "cooking", "ready"}

\* WHERE of FindAvailable, for fewer than a hundred orders of less than a day.
Actionable(o, r) == Live(r) /\ (o \in MerchantOrders => r.status # "pending")

\* What GET /orders/available answers to a runner: with a place, of the index.
GetAvailableOrders(located) ==
    {o \in Orders : Actionable(o, row[o]) /\ (located => o \in pool)}

\* What AcceptOrder lets a runner take.
Acceptable(o, r) ==
    r.paid /\ r.status \in IF o \in MerchantOrders THEN {"merchant_accepted", "cooking", "ready"}
                                                   ELSE {"pending"}

-----------------------------------------------------------------------------
(* Announcing: what a goroutine sends, to which cells                       *)

OrderCell(o) == <<"order", o>>
Global == <<"global">>
NearCells == {<<"cell", c>> : c \in Near}
MerchantCell == <<"merchant", "own">>
MerchantGlobal == <<"merchant", "global">>

To(cells, type) == [cells |-> cells, type |-> type]

BroadcastMerchant(type) == <<To({MerchantCell}, type), To({MerchantGlobal}, type)>>
BroadcastMerchantEvent(o, type) ==
    IF o \in MerchantOrders THEN <<BroadcastMerchant(type)>> ELSE <<>>
BroadcastOrderCreated(o) ==
    <<To(NearCells, "order_created"), To({Global}, "order_created")>>
        \o IF o \in MerchantOrders THEN BroadcastMerchant("order_created") ELSE <<>>
BroadcastOrderClaimed(o) ==
    <<To(NearCells, "order_claimed"), To({Global}, "order_claimed"),
      To({OrderCell(o)}, "order_status")>>
BroadcastOrderCancelled(o) ==
    <<To(NearCells, "order_cancelled"), To({Global}, "order_cancelled"),
      To({OrderCell(o)}, "order_cancelled")>>
BroadcastOrderStatus(o, type) == <<To({OrderCell(o)}, type)>>

Types == {"order_created", "order_claimed", "order_cancelled", "order_status", "order_requeued",
          "reassigned", "purchased", "completed"}
\* An event, known by the change, the goroutine and the call it comes from.
Event == [order : Orders, change : Nat, by : 1 .. 3, call : 1 .. 4, type : Types]
EventOf(t) ==
    [order |-> t.order, change |-> t.change, by |-> t.by, call |-> t.call,
     type |-> t.plan[t.call].type]

Registered == {s \in Streams : stream[s].at = "on"}
Subscribed(s, cells) == stream[s].cells \cap cells # {}

\* Events a goroutine has yet to send to a stream, as things are.
Coming(t, s) ==
    {EventOf([t EXCEPT !.call = i]) : i \in {i \in t.call .. Len(t.plan) :
        IF i = t.call /\ t.to # {} THEN s \in t.to ELSE Subscribed(s, t.plan[i].cells)}}

\* Cells that a stream of the scene may be subscribed to: sending to others reaches nobody
\* and is left out.
Reachable ==
    {OrderCell(o) : o \in IF scene.opened \cap OrderStreams = {} THEN {} ELSE Orders}
    \cup (IF scene.opened \cap RunnerStreams = {} THEN {} ELSE NearCells \cup {Global})
    \cup (IF scene.opened \cap MerchantStreams = {} THEN {} ELSE {MerchantCell, MerchantGlobal})

Heard(plan) == {i \in DOMAIN plan : plan[i].cells \cap Reachable # {}}

\* A handler spawns one goroutine for each plan, after it has written the order.
Says(o, plans) ==
    LET new == {[order |-> o, change |-> changes[o] + 1, by |-> i, call |-> Min(Heard(plans[i])),
                 plan |-> plans[i], to |-> {}] : i \in {i \in DOMAIN plans : Heard(plans[i]) # {}}}
    IN /\ changes' = [changes EXCEPT ![o] = @ + 1]
       /\ tasks' = tasks \cup new
       /\ due' = [s \in Streams |-> IF s \in Registered
                     THEN due[s] \cup UNION {Coming(t, s) : t \in new} ELSE due[s]]
SaysNothing == UNCHANGED <<changes, tasks, due>>

\* The call to the index in the same handler, left out where the index is.
Then(o, call) ==
    geo' = IF scene.indexed THEN geo \cup {[order |-> o, change |-> changes[o] + 1, call |-> call]}
                            ELSE {}

-----------------------------------------------------------------------------
(* Operations on orders.  Those that take no lock write the row they read.  *)

Become(o, r) == row' = [row EXCEPT ![o] = r]
Status(r, s) == [r EXCEPT !.status = s]
Rests == UNCHANGED <<pool, sweep, stream, told, missed>>

Reads(q, op, o) ==
    /\ request[q] = Idle
    /\ request' = [request EXCEPT ![q] = [op |-> op, order |-> o, row |-> row[o]]]
    /\ Takes("act") /\ UNCHANGED <<row, geo>> /\ SaysNothing /\ Rests
Writes(q, op, o) ==
    /\ request[q] # Idle /\ request[q].op = op /\ request[q].order = o
    /\ request' = [request EXCEPT ![q] = Idle] /\ Works /\ Rests
AtOnce == Takes("act") /\ UNCHANGED request /\ Rests

Create(o) ==
    /\ row[o].status = "absent"
    /\ \E paid \in BOOLEAN :
        /\ Become(o, [status |-> "pending", taken |-> FALSE, paid |-> paid])
        /\ IF paid THEN /\ Then(o, "add")
                        /\ Says(o, <<BroadcastOrderCreated(o)>>
                                       \o BroadcastMerchantEvent(o, "order_created"))
                   ELSE SaysNothing /\ UNCHANGED geo
    /\ AtOnce

\* UPDATE ... WHERE payment_status = unpaid: the status of the order is not looked at.
ProcessPayment(o) ==
    /\ row[o].status # "absent" /\ ~row[o].paid
    /\ Become(o, [row[o] EXCEPT !.paid = TRUE])
    /\ Then(o, "add")
    /\ IF o \in MerchantOrders THEN SaysNothing ELSE Says(o, <<BroadcastOrderCreated(o)>>)
    /\ AtOnce

MerchantAcceptOrder(q, o) ==
    \/ /\ o \in MerchantOrders /\ row[o].status = "pending" /\ row[o].paid
       /\ Reads(q, "merchant_accept", o)
    \/ /\ Writes(q, "merchant_accept", o)
       /\ Become(o, Status(request[q].row, "merchant_accepted"))
       /\ Says(o, <<BroadcastOrderStatus(o, "order_status"), BroadcastOrderCreated(o)>>)
       /\ UNCHANGED geo

\* UPDATE ... WHERE status = the one that was read.
AcceptOrder(q, o) ==
    \/ Acceptable(o, row[o]) /\ Reads(q, "accept", o)
    \/ /\ Writes(q, "accept", o)
       /\ LET seen == request[q].row
              status == CASE seen.status = "pending" -> "accepted"
                          [] seen.status = "merchant_accepted" -> "cooking"
                          [] OTHER -> seen.status
          IN IF row[o].status = seen.status
             THEN /\ Become(o, [Status(seen, status) EXCEPT !.taken = TRUE])
                  /\ Says(o, <<BroadcastOrderClaimed(o), BroadcastOrderStatus(o, "order_status")>>)
                  /\ Then(o, "remove")
             ELSE SaysNothing /\ UNCHANGED <<row, geo>>

\* The category of an order is left out: whether its runner buys something first is open.
SubmitPurchaseReceipt(q, o) ==
    \/ /\ o \notin MerchantOrders /\ row[o].taken /\ row[o].status = "accepted"
       /\ Reads(q, "receipt", o)
    \/ /\ Writes(q, "receipt", o) /\ Become(o, Status(request[q].row, "purchasing"))
       /\ Says(o, <<BroadcastOrderStatus(o, "purchased")>>) /\ UNCHANGED geo
MerchantReadyOrder(q, o) ==
    \/ o \in MerchantOrders /\ row[o].status = "cooking" /\ Reads(q, "ready", o)
    \/ /\ Writes(q, "ready", o) /\ Become(o, Status(request[q].row, "ready"))
       /\ Says(o, <<BroadcastOrderStatus(o, "order_status")>>) /\ UNCHANGED geo
PickupOrder(q, o) ==
    \/ /\ row[o].taken
       /\ row[o].status \in IF o \in MerchantOrders THEN {"ready", "cooking", "accepted"}
                                                    ELSE {"purchasing", "accepted"}
       /\ Reads(q, "pickup", o)
    \/ /\ Writes(q, "pickup", o) /\ Become(o, Status(request[q].row, "delivering"))
       /\ Says(o, <<BroadcastOrderStatus(o, "order_status")>>) /\ UNCHANGED geo

\* SELECT ... FOR UPDATE: the row is the present one.  After two reassignments the order
\* is cancelled instead, which no stream is told and the index does not learn.
RunnerCancelForReassign(q, o) ==
    \/ /\ row[o].taken
       /\ row[o].status \in {"pending", "merchant_accepted", "cooking", "ready", "accepted"}
       /\ Reads(q, "reassign", o)
    \/ /\ Writes(q, "reassign", o)
       /\ \/ /\ row[o].taken /\ row[o].status \notin Final
             /\ Become(o, [row[o] EXCEPT !.taken = FALSE])
             /\ Says(o, <<BroadcastOrderCreated(o), BroadcastOrderStatus(o, "reassigned")>>
                          \o BroadcastMerchantEvent(o, "order_requeued"))
             /\ Then(o, "add")
          \/ /\ row[o].status \notin {"completed", "cancelled"}
             /\ Become(o, Status(row[o], "cancelled")) /\ SaysNothing /\ UNCHANGED geo
          \/ (~row[o].taken \/ row[o].status \in Final) /\ SaysNothing /\ UNCHANGED <<row, geo>>

CancelOrder(o) ==
    /\ row[o].status \notin Final \cup {"absent"} /\ Become(o, Status(row[o], "cancelled"))
    /\ Says(o, <<BroadcastOrderCancelled(o)>> \o BroadcastMerchantEvent(o, "order_cancelled"))
    /\ Then(o, "remove") /\ AtOnce
CompleteOrder(o) ==
    /\ row[o].taken /\ row[o].status = "delivering" /\ Become(o, Status(row[o], "completed"))
    /\ Says(o, <<BroadcastOrderStatus(o, "completed")>>) /\ UNCHANGED geo /\ AtOnce

\* By an administrator, or by the cron job for an order nobody took; and the job that
\* expires old orders.  Neither tells the streams.
ForceCancelOrder(o) ==
    /\ row[o].status \notin Final \cup {"absent"} /\ Become(o, Status(row[o], "cancelled"))
    /\ SaysNothing /\ Then(o, "remove") /\ AtOnce
ExpireOldOrders(o) ==
    /\ row[o].status = "pending" /\ Become(o, Status(row[o], "expired"))
    /\ SaysNothing /\ UNCHANGED geo /\ AtOnce

OrderStep(o) ==
    \/ Create(o) \/ ProcessPayment(o) \/ CancelOrder(o) \/ CompleteOrder(o)
    \/ ForceCancelOrder(o) \/ ExpireOldOrders(o)
    \/ \E q \in Requests :
        \/ MerchantAcceptOrder(q, o) \/ AcceptOrder(q, o) \/ SubmitPurchaseReceipt(q, o)
        \/ MerchantReadyOrder(q, o) \/ PickupOrder(q, o) \/ RunnerCancelForReassign(q, o)

-----------------------------------------------------------------------------
(* The index of orders near a place                                         *)

IndexRests == UNCHANGED <<orderVars, stream, tasks, ghosts>>

\* Errors of these calls are ignored.
GeoAddOrder(o) == pool' = pool \cup {o}
GeoRemoveOrder(o) == pool' = pool \ {o}
GeoStep(c) ==
    /\ c \in geo /\ geo' = geo \ {c}
    /\ \/ c.call = "add" /\ GeoAddOrder(c.order) /\ Works
       \/ c.call = "remove" /\ GeoRemoveOrder(c.order) /\ Works
       \/ Fails /\ UNCHANGED pool
    /\ UNCHANGED sweep /\ IndexRests

\* The sweeper reads the orders, then the index, removes what the orders did not have and
\* adds what they had.
SweepOrders ==
    /\ scene.indexed /\ sweep.at = "rest"
    /\ sweep' = [at |-> "list", live |-> {o \in Orders : Live(row[o])}, drop |-> {}]
    /\ Works /\ UNCHANGED <<pool, geo>> /\ IndexRests
SweepIndex ==
    /\ sweep.at = "list"
    /\ \/ sweep' = [sweep EXCEPT !.at = "set", !.drop = pool \ sweep.live] /\ Works
       \/ Fails /\ sweep' = [at |-> "rest", live |-> {}, drop |-> {}]
    /\ UNCHANGED <<pool, geo>> /\ IndexRests

\* Mutant: what is stale stays.
DropNothing(o) == UNCHANGED pool
Drop(o) == GeoRemoveOrder(o)
SweepDrop(o) ==
    /\ o \in sweep.drop /\ sweep' = [sweep EXCEPT !.drop = @ \ {o}]
    /\ \/ Drop(o) /\ Works
       \/ Fails /\ UNCHANGED pool
    /\ UNCHANGED geo /\ IndexRests
SweepAdd(o) ==
    /\ sweep.at = "set" /\ sweep.drop = {} /\ o \in sweep.live
    /\ sweep' = [sweep EXCEPT !.live = @ \ {o}]
    /\ \/ GeoAddOrder(o) /\ Works
       \/ Fails /\ UNCHANGED pool
    /\ UNCHANGED geo /\ IndexRests
SweepEnds ==
    /\ sweep.at = "set" /\ sweep.drop = {} /\ sweep.live = {}
    /\ sweep' = [sweep EXCEPT !.at = "rest"] /\ Works /\ UNCHANGED <<pool, geo>> /\ IndexRests
SyncRedisGeoOrderPool ==
    SweepOrders \/ SweepIndex \/ SweepEnds \/ \E o \in Orders : SweepDrop(o) \/ SweepAdd(o)

-----------------------------------------------------------------------------
(* The hub: the calls of a goroutine, one after the other                   *)

HubRests == UNCHANGED <<orderVars, indexVars>>

\* What becomes of a goroutine that has sent a call's event to all.
NextCall(t) ==
    LET calls == {i \in Heard(t.plan) : i > t.call}
    IN IF calls = {} THEN {} ELSE {[t EXCEPT !.call = Min(calls), !.to = {}]}

\* The clients in the buckets of the cells, each once; the copy is made under the lock.
BroadcastToCells(t) ==
    /\ t \in tasks /\ t.to = {}
    /\ LET to == {s \in Registered : Subscribed(s, t.plan[t.call].cells)}
       IN tasks' = (tasks \ {t}) \cup IF to # {} THEN {[t EXCEPT !.to = to]} ELSE NextCall(t)
    /\ Works /\ HubRests /\ UNCHANGED <<stream, ghosts>>

\* Mutant: one event more than the channel holds.
RoomForOneMore(s) == Len(stream[s].buffer) <= BufferSize
HasRoom(s) == Len(stream[s].buffer) < BufferSize

\* select with a default: a client whose channel is full is passed over; the channel of one
\* that has left still takes events.
Send(t, s) ==
    /\ t \in tasks /\ s \in t.to
    /\ LET rest == [t EXCEPT !.to = @ \ {s}]
       IN tasks' = (tasks \ {t}) \cup IF rest.to # {} THEN {rest} ELSE NextCall(t)
    /\ IF stream[s].at # "on" THEN UNCHANGED <<stream, told, missed>>
       ELSE IF HasRoom(s)
       THEN /\ stream' = [stream EXCEPT ![s].buffer = Append(@, EventOf(t))]
            /\ told' = [told EXCEPT ![s] = @ \cup {EventOf(t)}] /\ UNCHANGED missed
       ELSE missed' = [missed EXCEPT ![s] = @ \cup {EventOf(t)}] /\ UNCHANGED <<stream, told>>
    /\ Works /\ HubRests /\ UNCHANGED due

-----------------------------------------------------------------------------
(* Streams                                                                  *)

StreamRests == UNCHANGED <<orderVars, indexVars, tasks>>
Keeps == UNCHANGED ghosts

Asks(s, cells, seen) ==
    /\ s \in scene.opened /\ stream[s].at = "new"
    /\ stream' = [stream EXCEPT ![s] = [@ EXCEPT !.at = "asked", !.cells = cells, !.seen = seen]]
    /\ Works /\ StreamRests /\ Keeps

\* GetByID: what the order is before the stream is registered for its changes.
StreamAsk(s, o) ==
    s \in OrderStreams /\ row[o].status # "absent" /\ Asks(s, {OrderCell(o)}, row[o].status)

\* Mutant: the cells near by and the global one too.
PoolCellsAndGlobal(located) == NearCells \cup {Global}
PoolCells(located) == IF located THEN NearCells ELSE {Global}
PoolStreamAsk(s) ==
    s \in RunnerStreams /\ \E located \in BOOLEAN : Asks(s, PoolCells(located), "none")

\* The merchants of the orders the owner has; none where reading them fails or is too slow.
MerchantPoolStreamAsk(s) ==
    /\ s \in MerchantStreams
    /\ \/ (\E o \in MerchantOrders : row[o].status # "absent")
          /\ Asks(s, {MerchantGlobal, MerchantCell}, "none")
       \/ Asks(s, {MerchantGlobal}, "none")

RegisterSSE(s) ==
    /\ stream[s].at = "asked" /\ s \notin TrackStreams
    /\ stream' = [stream EXCEPT ![s].at = "on"]
    /\ Works /\ StreamRests /\ Keeps

\* Leaves the registry; what is still in the channel is never read.
Gone(client) == [client EXCEPT !.at = "gone", !.buffer = <<>>]
UnregisterSSE(s) ==
    /\ stream' = [stream EXCEPT ![s] = Gone(@)]
    /\ due' = [due EXCEPT ![s] = {}] /\ told' = [told EXCEPT ![s] = {}]
    /\ missed' = [missed EXCEPT ![s] = {}]

\* Mutant: a cancelled order does not end its stream.
EndsWhenComplete(type) == type \in {"order_completed", "order_expired"}
EndsStream(type) == type \in {"order_completed", "order_cancelled", "order_expired"}

\* The loop of a stream: ends at once for an order that was final, or takes an event.
Receive(s) ==
    /\ stream[s].at = "on" /\ stream[s].seen \notin Final /\ stream[s].buffer # <<>>
    /\ IF s \in OrderStreams /\ EndsStream(Head(stream[s].buffer).type)
       THEN UnregisterSSE(s)
       ELSE stream' = [stream EXCEPT ![s].buffer = Tail(@)] /\ Keeps
EndsAtOnce(s) == stream[s].at = "on" /\ stream[s].seen \in Final /\ UnregisterSSE(s)
Loop(s) == (Receive(s) \/ EndsAtOnce(s)) /\ Works /\ StreamRests

\* The client is gone: writing the next event or heartbeat fails.
Disconnect(s) ==
    /\ stream[s].at \in {"asked", "on"} /\ UnregisterSSE(s)
    /\ Takes("leave") /\ StreamRests

\* Tracking reads the order every five seconds, until the client is gone or reading fails.
TrackingStates == {"waiting_for_runner", "moving", "stopping_by", "weak_signal"}
GetTrackingState(o) ==
    IF ~row[o].taken THEN {"waiting_for_runner"} ELSE TrackingStates \ {"waiting_for_runner"}
TrackAsk(s, o) ==
    s \in TrackStreams /\ row[o].status # "absent" /\ Asks(s, {OrderCell(o)}, row[o].status)
Track(s, o) ==
    /\ s \in TrackStreams /\ stream[s].at = "asked" /\ stream[s].cells = {OrderCell(o)}
    /\ \/ /\ \E state \in GetTrackingState(o) : stream' = [stream EXCEPT ![s].seen = state]
          /\ Works /\ Keeps
       \/ UnregisterSSE(s) /\ Fails
    /\ StreamRests

StreamStep(s) ==
    \/ PoolStreamAsk(s) \/ MerchantPoolStreamAsk(s) \/ Disconnect(s)
    \/ \E o \in Orders : StreamAsk(s, o) \/ TrackAsk(s, o) \/ Track(s, o)

\* What is in memory is lost; the clients see their streams end.
Restart ==
    /\ Takes("restart")
    /\ stream' = [s \in Streams |-> IF stream[s].at \in {"asked", "on"}
                                    THEN Gone(stream[s]) ELSE stream[s]]
    /\ request' = [q \in Requests |-> Idle] /\ tasks' = {} /\ geo' = {}
    /\ sweep' = [at |-> "rest", live |-> {}, drop |-> {}]
    /\ UNCHANGED <<row, changes, pool, ghosts>>

-----------------------------------------------------------------------------

Init ==
    /\ scene \in Scenes /\ row = scene.start
    /\ request = [q \in Requests |-> Idle] /\ changes = [o \in Orders |-> 0]
    /\ pool = {o \in Orders : scene.indexed /\ Live(row[o])} /\ geo = {}
    /\ sweep = [at |-> "rest", live |-> {}, drop |-> {}]
    /\ stream = [s \in Streams |-> [at |-> "new", cells |-> {}, seen |-> "none", buffer |-> <<>>]]
    /\ tasks = {}
    /\ due = [s \in Streams |-> {}] /\ told = due /\ missed = due

TaskStep == \E t \in tasks : BroadcastToCells(t) \/ \E s \in t.to : Send(t, s)

Next ==
    \/ \E o \in scene.orders : OrderStep(o)
    \/ \E c \in geo : GeoStep(c)
    \/ SyncRedisGeoOrderPool
    \/ TaskStep
    \/ \E s \in Streams : StreamStep(s) \/ RegisterSSE(s) \/ Loop(s)
    \/ Restart

\* Goroutines run, streams read what is in their channel (writing to a client succeeds or
\* fails), handlers make the calls they are at, the ticker fires.
Fairness ==
    /\ WF_vars(TaskStep)
    /\ \A s \in Streams : WF_vars(Loop(s))
    /\ WF_vars(\E c \in geo : GeoStep(c))
    /\ WF_vars(SyncRedisGeoOrderPool)

Spec == Init /\ [][Next]_vars
FairSpec == Spec /\ Fairness

-----------------------------------------------------------------------------
(* Properties                                                               *)

Calls == {"add", "remove"}
Request == [op : {"merchant_accept", "accept", "receipt", "ready", "pickup", "reassign"},
            order : Orders, row : Row]
TypeOK ==
    /\ row \in [Orders -> Row] /\ request \in [Requests -> Request \cup {Idle}]
    /\ changes \in [Orders -> Nat] /\ pool \subseteq Orders
    /\ \A c \in geo : c.order \in Orders /\ c.call \in Calls /\ c.change \in Nat
    /\ sweep \in [at : {"rest", "list", "set"}, live : SUBSET Orders, drop : SUBSET Orders]
    /\ \A s \in Streams :
        /\ stream[s].at \in {"new", "asked", "on", "gone"}
        /\ stream[s].seen \in Statuses \cup TrackingStates \cup {"none"}
        /\ stream[s].buffer \in Seq(Event) /\ Len(stream[s].buffer) <= BufferSize
    /\ \A t \in tasks : t.order \in Orders /\ t.to \subseteq Streams /\ t.call \in DOMAIN t.plan
    /\ \A s \in Streams : due[s] \cup told[s] \cup missed[s] \subseteq Event
    /\ scene \in Bounds

\* Goroutines of several handlers announce changes to several cells while clients come and
\* go.  What was announced while a stream was registered is in its channel or was, was
\* passed over for want of room, or is still to come; and a runner and the reader of an
\* order are told of one change once, though cells overlap ("clientID dedup").
EachEventOnce ==
    \A s \in Registered :
        LET coming == UNION {Coming(t, s) : t \in tasks}
            same(e, f) == /\ e.order = f.order /\ e.change = f.change
                          /\ e.by = f.by /\ e.type = f.type
        IN /\ due[s] \subseteq told[s] \cup missed[s] \cup coming
           /\ s \notin MerchantStreams =>
                \A e, f \in told[s] \cup missed[s] : same(e, f) => e = f

\* "End stream if terminal status reached", for the one final status the hub announces
\* under the name the loop waits for: a stream of an order that is cancelled while it is
\* registered ends, unless its channel had no room for the event.
IsCancelled(e) == e.type = "order_cancelled"
CancelledStreamEnds ==
    \A s \in OrderStreams :
        stream[s].at = "on" /\ (\E e \in due[s] : IsCancelled(e))
            ~> stream[s].at = "gone" \/ \E e \in missed[s] : IsCancelled(e)

\* GeoAddOrder and GeoRemoveOrder of the handlers race one another and the sweeper, and may
\* fail; from some time on the index holds the live orders, and a runner with a place is
\* offered every order that AcceptOrder would let him take.
PoolSettles ==
    <>[](scene.indexed =>
            /\ pool = {o \in Orders : Live(row[o])}
            /\ \A o \in Orders : Acceptable(o, row[o]) => o \in GetAvailableOrders(TRUE))
=============================================================================
