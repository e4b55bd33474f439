------------------------------ MODULE Matching ------------------------------
(***************************************************************************)
(* Finding runners for an order: the queue of orders in the memory of the  *)
(* server, the workers that look for runners near an instant order or on   *)
(* the way of a regular one, the cron job that looks once more for a       *)
(* regular order nobody took, the keys in Redis that say which runner is   *)
(* where, and the cooldown that keeps an order from being announced twice  *)
(* to a runner.  An announcement is handed over to the dispatcher of       *)
(* notifications (Notifier), which runs beside it.                         *)
(*                                                                         *)
(* Places, distances and scores are left out: every runner listed is near, *)
(* and which of them are the best is chosen freely.                        *)
(***************************************************************************)
EXTENDS Notifier, FiniteSetsExt

CONSTANTS
    Orders, Regular,  \* the others are instant orders
    Runners, OnTrip,  \* runners; those with a trip that passes by
    Matchers, Cron,   \* workers, each with the dispatch it started; the cron job
    QueueSize, Fanout, Attempts

ASSUME MatchingAssumption ==
    /\ Orders \subseteq Subjects /\ Regular \subseteq Orders
    /\ Runners \subseteq Users /\ OnTrip \subseteq Runners
    /\ {QueueSize, Fanout, Attempts} \subseteq Nat \ {0} /\ Cron \notin Matchers
    /\ IsFiniteSet(Matchers)

VARIABLES
    row,        \* orders.status, .runner_id and .escalated_at, as far as matching goes
    queue,      \* channel jobQueue
    post,       \* attempts a request still has to queue the order
    overflow,   \* list matching:overflow
    finder,     \* what each worker and the cron job are doing
    sweep,      \* orders the cron job still has on its list
    online,     \* column users.is_accepting_orders
    track,      \* keys runner:track:<id>
    near,       \* keys runner:heartbeat:last:<id>
    live,       \* geo set runners_live
    beat,       \* runners whose request has set the keys and not yet the place
    cooling,    \* keys fcm:cooldown:<runner>:<order>
    pushes,     \* ghost: announcements of an order to a runner since its key was there
    unmarked    \* ghost: times Redis failed to read or set the key

presenceVars == <<online, track, near, live, beat>>
coolingVars == <<cooling, pushes, unmarked>>
queueVars == <<queue, post, overflow>>
matchingVars == <<row, queueVars, finder, sweep, presenceVars, coolingVars>>
vars == <<notifierVars, matchingVars>>

Finders == Matchers \cup {Cron}
Pairs == Runners \X Orders
Row == [status : {"absent", "waiting", "taken"}, escalated : BOOLEAN]
Work == [order : Orders, row : Row, at : {"find", "prune", "dispatch", "mark", "push", "note"},
         todo : SUBSET Runners, hand : SUBSET Runners, found : SUBSET Runners,
         silent : SUBSET Runners]

ASSUME FinderAssumption == Idle \notin Work

TypeOK ==
    /\ NotifierTypeOK
    /\ row \in [Orders -> Row]
    /\ queue \in Seq(Orders) /\ Len(queue) <= QueueSize
    /\ post \in [Orders -> 0 .. Attempts] /\ overflow \subseteq Orders
    /\ finder \in [Finders -> Work \cup {Idle}] /\ sweep \subseteq Orders
    /\ online \subseteq Runners /\ track \subseteq Runners /\ near \subseteq Runners
    /\ live \subseteq Runners /\ beat \subseteq Runners
    /\ cooling \subseteq Pairs /\ unmarked \in [Pairs -> Nat] /\ pushes \in [Pairs -> Nat]

Init ==
    /\ NotifierInit
    /\ row = [o \in Orders |-> [status |-> "absent", escalated |-> FALSE]]
    /\ queue = <<>> /\ post = [o \in Orders |-> 0] /\ overflow = {}
    /\ finder = [f \in Finders |-> Idle] /\ sweep = {}
    /\ online = Runners /\ track = Runners /\ near = Runners /\ live = Runners /\ beat = {}
    /\ cooling = {} /\ pushes = [p \in Pairs |-> 0] /\ unmarked = [p \in Pairs |-> 0]

-----------------------------------------------------------------------------
(* Requests that leave an order to be matched                               *)

\* A step that leaves the dispatcher alone, and what it spends.
NotifierRests == UNCHANGED <<redisVars, bucketVars, token, sender, drain, accepted, ended, lost>>
Spends(class) == Takes(class) /\ UNCHANGED troubled /\ NotifierRests

\* Placing, paying or accepting the order, or a runner giving it back.
\* Bound: no request queues an order that another is still trying to queue.
Posts(o, class) ==
    /\ post[o] = 0 /\ post' = [post EXCEPT ![o] = Attempts]
    /\ Spends(class)
    /\ UNCHANGED <<queue, overflow, finder, sweep, presenceVars, coolingVars>>

Create(o) ==
    /\ row[o].status = "absent" /\ row' = [row EXCEPT ![o].status = "waiting"]
    /\ Posts(o, "order")
ReassignOrder(o) ==
    /\ row[o].status = "taken" /\ row' = [row EXCEPT ![o].status = "waiting"]
    /\ Posts(o, "return")
AcceptOrder(o) ==
    /\ row[o].status = "waiting" /\ row' = [row EXCEPT ![o].status = "taken"]
    /\ Spends("take")
    /\ UNCHANGED <<queueVars, finder, sweep, presenceVars, coolingVars>>

\* Mutant: one order more than the channel holds.
RoomForOneMore == Len(queue) <= QueueSize
HasRoom == Len(queue) < QueueSize

\* The last attempt spills the order to Redis, where nobody looks; or drops it.
EnqueueMatching(o) ==
    /\ post[o] > 0
    /\ \/ /\ HasRoom /\ queue' = Append(queue, o)
          /\ post' = [post EXCEPT ![o] = 0] /\ UNCHANGED overflow /\ Works
       \/ /\ ~HasRoom /\ post' = [post EXCEPT ![o] = @ - 1]
          /\ \/ overflow' = (IF post[o] = 1 THEN overflow \cup {o} ELSE overflow) /\ Works
             \/ post[o] = 1 /\ Fails /\ UNCHANGED overflow
          /\ UNCHANGED queue
    /\ NotifierRests /\ UNCHANGED <<row, finder, sweep, presenceVars, coolingVars>>

-----------------------------------------------------------------------------
(* Looking for runners                                                      *)

Doing(f, step) == finder[f] # Idle /\ finder[f].at = step
Begins(f, o, step, runners) ==
    finder' = [finder EXCEPT ![f] =
        [order |-> o, row |-> row[o], at |-> step, todo |-> runners, hand |-> {}, found |-> {},
         silent |-> {r \in runners : step = "dispatch" /\ token[r] = NoToken}]]
Leaves(f) == finder' = [finder EXCEPT ![f] = Idle]
\* The cron job notes the order as escalated, whether or not a runner was found.
Closes(f) ==
    IF f = Cron THEN finder' = [finder EXCEPT ![f].at = "note"] ELSE Leaves(f)

\* The best of those found, not more than are told of an order.
Best(S) == IF Cardinality(S) <= Fanout THEN {S} ELSE kSubset(Fanout, S)

\* A worker takes the next order; it does not look at the status.  For a regular order it
\* has the runners from the trips in the database; where that fails the order is given up.
\* GEOSEARCH lists who is near; where it fails the database does, online or not.
NearInDatabase == Runners
Searches(f, o) ==
    \/ Begins(f, o, "find", live) /\ Works
    \/ Fails /\ \E S \in Best(NearInDatabase) : Begins(f, o, "dispatch", S)
ProcessMatching(f) ==
    /\ f \in Matchers /\ finder[f] = Idle /\ queue # <<>> /\ queue' = Tail(queue)
    /\ LET o == Head(queue) IN
       \/ o \in Regular /\ (\E S \in Best(OnTrip) : Begins(f, o, "dispatch", S)) /\ Works
       \/ o \notin Regular /\ Searches(f, o)
       \/ Fails /\ UNCHANGED finder
    /\ NotifierRests /\ UNCHANGED <<row, post, overflow, sweep, presenceVars, coolingVars>>

\* A runner without a track key is pruned from the set, in a second step; where EXISTS
\* fails the runner is taken for live.
Keeps(f, r) ==
    finder' = [finder EXCEPT ![f].todo = @ \ {r},
                             ![f].found = IF r \in online THEN @ \cup {r} ELSE @,
                             ![f].silent = IF token[r] = NoToken THEN @ \cup {r} ELSE @]
CheckTrack(f, r) ==
    /\ Doing(f, "find") /\ r \in finder[f].todo
    /\ \/ r \in track /\ Keeps(f, r) /\ Works
       \/ r \notin track /\ Fails /\ Keeps(f, r)
       \/ /\ r \notin track /\ Works
          /\ finder' = [finder EXCEPT ![f].todo = @ \ {r}, ![f].hand = {r}, ![f].at = "prune"]
    /\ NotifierRests /\ UNCHANGED <<row, queueVars, sweep, presenceVars, coolingVars>>
Prune(f) ==
    /\ Doing(f, "prune") /\ finder' = [finder EXCEPT ![f].hand = {}, ![f].at = "find"]
    /\ \/ live' = live \ finder[f].hand /\ Works
       \/ Fails /\ UNCHANGED live
    /\ NotifierRests /\ UNCHANGED <<row, queueVars, sweep, online, track, near, beat, coolingVars>>
FindNearestRunners(f) ==
    /\ Doing(f, "find") /\ finder[f].todo = {}
    /\ \E S \in Best(finder[f].found) :
          finder' = [finder EXCEPT ![f].todo = S, ![f].at = "dispatch"]
    /\ Works /\ NotifierRests /\ UNCHANGED <<row, queueVars, sweep, presenceVars, coolingVars>>

-----------------------------------------------------------------------------
(* Telling them of the order                                                *)

\* EXISTS; where it fails the runner is taken for one who was not told.
DispatchCheck(f, r) ==
    /\ Doing(f, "dispatch") /\ r \in finder[f].todo
    /\ LET told == <<r, finder[f].order>> \in cooling
           skips == finder' = [finder EXCEPT ![f].todo = @ \ {r}]
           tells == finder' = [finder EXCEPT ![f].todo = @ \ {r}, ![f].hand = {r}, ![f].at = "mark"]
       IN \/ (r \in finder[f].silent \/ told) /\ skips /\ Works /\ UNCHANGED unmarked
          \/ r \notin finder[f].silent /\ ~told /\ tells /\ Works /\ UNCHANGED unmarked
          \/ /\ r \notin finder[f].silent /\ told /\ tells /\ Fails
             /\ unmarked' = [unmarked EXCEPT ![<<r, finder[f].order>>] = @ + 1]
    /\ NotifierRests /\ UNCHANGED <<row, queueVars, sweep, presenceVars, cooling, pushes>>

\* Mutant: the key is not set.
NotMarked(p) == cooling
Marked(p) == cooling \cup {p}
DispatchMark(f) ==
    /\ Doing(f, "mark") /\ finder' = [finder EXCEPT ![f].at = "push"]
    /\ \A r \in finder[f].hand : LET p == <<r, finder[f].order>> IN
       \/ cooling' = Marked(p) /\ Works /\ UNCHANGED unmarked
       \/ Fails /\ unmarked' = [unmarked EXCEPT ![p] = @ + 1] /\ UNCHANGED cooling
    /\ NotifierRests /\ UNCHANGED <<row, queueVars, sweep, presenceVars, pushes>>

DispatchPush(f) ==
    /\ Doing(f, "push") /\ finder' = [finder EXCEPT ![f].hand = {}, ![f].at = "dispatch"]
    /\ \A r \in finder[f].hand :
        /\ Enqueue([user |-> r, subject |-> finder[f].order, priority |-> "high"], left)
        /\ pushes' = [pushes EXCEPT ![<<r, finder[f].order>>] = @ + 1]
    /\ UNCHANGED <<row, queueVars, sweep, presenceVars, cooling, unmarked>>

DispatchOrder(f) ==
    /\ Doing(f, "dispatch") /\ finder[f].todo = {} /\ Closes(f)
    /\ Works /\ NotifierRests /\ UNCHANGED <<row, queueVars, sweep, presenceVars, coolingVars>>

\* Five minutes: longer than a dispatch that has seen no key takes to come to its end.
CooldownEnds(p) ==
    /\ p \in cooling /\ cooling' = cooling \ {p}
    /\ \A f \in Finders : Doing(f, "mark") \/ Doing(f, "push") =>
                              p \notin finder[f].hand \X {finder[f].order}
    /\ pushes' = [pushes EXCEPT ![p] = 0] /\ unmarked' = [unmarked EXCEPT ![p] = 0]
    /\ Spends("quiet")
    /\ UNCHANGED <<row, queueVars, finder, sweep, presenceVars>>

-----------------------------------------------------------------------------
(* The cron job                                                             *)

Unassigned == {o \in Regular : row[o].status = "waiting" /\ ~row[o].escalated}
EscalateScan ==
    /\ finder[Cron] = Idle /\ sweep = {} /\ Unassigned # {} /\ sweep' = Unassigned
    /\ Works /\ NotifierRests /\ UNCHANGED <<row, queueVars, finder, presenceVars, coolingVars>>

EscalateMatching(o) ==
    /\ finder[Cron] = Idle /\ o \in sweep /\ sweep' = sweep \ {o}
    /\ \/ Searches(Cron, o)
       \/ Fails /\ UNCHANGED finder
    /\ NotifierRests /\ UNCHANGED <<row, queueVars, presenceVars, coolingVars>>

\* The row is written back as it was read before the search.
\* Mutant: the time of the escalation is not set.
NotEscalated(r) == r
Escalated(r) == [r EXCEPT !.escalated = TRUE]
EscalateNote ==
    /\ Doing(Cron, "note") /\ Leaves(Cron)
    /\ \/ row' = [row EXCEPT ![finder[Cron].order] = Escalated(finder[Cron].row)] /\ Works
       \/ Fails /\ UNCHANGED row
    /\ NotifierRests /\ UNCHANGED <<queueVars, sweep, presenceVars, coolingVars>>

-----------------------------------------------------------------------------
(* Runners                                                                  *)

\* Within 20 m of the last place only the expiry of the keys is put off; otherwise the
\* keys are set, and then the place.
UpdateHeartbeat(r) ==
    /\ r \notin beat
    /\ \/ r \in near /\ UNCHANGED <<track, near, beat>>
       \/ /\ r \in online /\ track' = track \cup {r} /\ near' = near \cup {r}
          /\ beat' = beat \cup {r}
    /\ Spends("beat")
    /\ UNCHANGED <<row, queueVars, finder, sweep, online, live, coolingVars>>
UpdateLocation(r) ==
    /\ r \notin beat /\ track' = track \cup {r} /\ beat' = beat \cup {r}
    /\ Spends("beat")
    /\ UNCHANGED <<row, queueVars, finder, sweep, online, near, live, coolingVars>>
GeoAdd(r) ==
    /\ r \in beat /\ beat' = beat \ {r}
    /\ \/ live' = live \cup {r} /\ Works
       \/ Fails /\ UNCHANGED live
    /\ NotifierRests /\ UNCHANGED <<row, queueVars, finder, sweep, online, track, near, coolingVars>>
UpdateAcceptingOrders(r) ==
    /\ online' \in {online \cup {r}, online \ {r}} /\ Spends("beat")
    /\ UNCHANGED <<row, queueVars, finder, sweep, track, near, live, beat, coolingVars>>

\* After ten minutes without a sign, or when Redis needs the room.
KeysExpire(r) ==
    /\ \/ r \in track /\ track' = track \ {r} /\ UNCHANGED near
       \/ r \in near /\ near' = near \ {r} /\ UNCHANGED track
    /\ Spends("quiet")
    /\ UNCHANGED <<row, queueVars, finder, sweep, online, live, beat, coolingVars>>

-----------------------------------------------------------------------------

\* A notification of another service.
Notify(n) ==
    /\ left["note"] > 0 /\ n.subject \notin Orders
    /\ Enqueue(n, [left EXCEPT !["note"] = @ - 1]) /\ UNCHANGED matchingVars
ChangeToken(u) ==
    /\ \E t \in Tokens \cup {NoToken} : UpdateFcmToken(u, t)
    /\ UNCHANGED matchingVars

\* What is in memory is lost.
ServerRestart ==
    /\ Restart
    /\ queue' = <<>> /\ post' = [o \in Orders |-> 0] /\ sweep' = {} /\ beat' = {}
    /\ finder' = [f \in Finders |-> Idle]
    /\ UNCHANGED <<row, overflow, online, track, near, live, coolingVars>>

FinderStep(f) ==
    \/ ProcessMatching(f) \/ Prune(f) \/ FindNearestRunners(f)
    \/ \E r \in Runners : CheckTrack(f, r) \/ DispatchCheck(f, r)
    \/ DispatchMark(f) \/ DispatchPush(f) \/ DispatchOrder(f)
CronStep ==
    EscalateScan \/ EscalateNote \/ FinderStep(Cron) \/ \E o \in Orders : EscalateMatching(o)
RunnerStep(r) ==
    \/ UpdateHeartbeat(r) \/ UpdateLocation(r) \/ UpdateAcceptingOrders(r) \/ KeysExpire(r)
OrderStep(o) == Create(o) \/ AcceptOrder(o) \/ ReassignOrder(o)

Next ==
    \/ NotifierStep /\ UNCHANGED matchingVars
    \/ \E n \in Note : Notify(n)
    \/ \E u \in Users : ChangeToken(u)
    \/ \E o \in Orders : OrderStep(o) \/ EnqueueMatching(o)
    \/ \E f \in Matchers : FinderStep(f)
    \/ CronStep
    \/ \E r \in Runners : RunnerStep(r) \/ GeoAdd(r)
    \/ \E p \in Pairs : CooldownEnds(p)
    \/ ServerRestart

\* The server runs: its workers, its loops, its cron job and the requests it is serving.
Fairness ==
    /\ NotifierFairness
    /\ \A o \in Orders : WF_vars(EnqueueMatching(o))
    /\ \A f \in Matchers : WF_vars(FinderStep(f))
    /\ WF_vars(CronStep)
    /\ \A r \in Runners : WF_vars(GeoAdd(r))

Spec == Init /\ [][Next]_vars
FairSpec == Spec /\ Fairness

-----------------------------------------------------------------------------
(* Properties                                                               *)

\* A finder that sets the key of a runner, or tells him, has one runner in hand.
FinderInv ==
    \A f \in Finders :
        Doing(f, "mark") \/ Doing(f, "push") => \E r \in Runners : finder[f].hand = {r}

\* What SpamBounded rests on: while its key is not there only finders that failed to set it
\* tell a runner of an order; once it is there only those that had not seen it do.
Marks(p) == {f \in Finders : Doing(f, "mark") /\ p \in finder[f].hand \X {finder[f].order}}
Pushes(p) == {f \in Finders : Doing(f, "push") /\ p \in finder[f].hand \X {finder[f].order}}
SpamInv ==
    \A p \in Pairs :
        IF p \in cooling
        THEN pushes[p] + Cardinality(Pushes(p)) + Cardinality(Marks(p))
                 <= Cardinality(Finders) + unmarked[p]
        ELSE pushes[p] + Cardinality(Pushes(p)) <= unmarked[p]

DispatchInv == TypeOK /\ HandInv /\ FinderInv /\ BurstInv /\ SpamInv

\* "Deduplicate per order-runner cooldown 5min to avoid spamming same runner": the key is
\* looked at and set in two steps, so as many announcements of an order reach a runner
\* as there are finders; however often the order is queued, given back and escalated.
SpamBounded ==
    \A p \in Pairs : pushes[p] <= Cardinality(Finders) + unmarked[p]

\* No runner is flooded: neither the search, by announcing an order over and over, nor the
\* dispatcher below it (BurstKept), by a burst of whatever kinds of notes at one device.
NobodyIsFlooded == BurstKept /\ SpamBounded

\* A regular order that waits is looked at once more by the cron job or leaves the wait,
\* whatever the queue, the overflow, a failure or a restart did to its first search.
OrderLookedAt ==
    \A o \in Regular :
        row[o].status = "waiting" /\ ~row[o].escalated
            ~> row[o].status # "waiting" \/ row[o].escalated
=============================================================================
