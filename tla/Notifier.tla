------------------------------ MODULE Notifier ------------------------------
(***************************************************************************)
(* The dispatcher of push notifications of nitip-core: two lists in Redis, *)
(* workers that take a job off them, find the token of the user, count it  *)
(* against the burst of the device and send it; a sorted set of jobs to be *)
(* tried again later and the loop that moves them back.                    *)
(*                                                                         *)
(* A job is known by its payload, as it is in Redis.  Titles, texts and    *)
(* data are its subject.                                                   *)
(*                                                                         *)
(* Scenes bounds a behaviour: who has a device at first, how many calls to *)
(* Redis and the database fail or how often the server stops, how many     *)
(* calls to FCM fail, and how often the services around do something.      *)
(***************************************************************************)
EXTENDS Naturals, Sequences, FiniteSets, SequencesExt

CONSTANTS
    Users, Tokens, Subjects,
    Senders,     \* workers of the dispatcher
    BurstLimit,  \* sends to a device in a window
    MaxRetries,
    Scenes,
    NoToken, Idle

Classes == {"fault", "error", "note", "order", "take", "return", "beat", "quiet"}

ASSUME NotifierAssumption ==
    /\ BurstLimit \in Nat \ {0} /\ MaxRetries \in Nat
    /\ IsFiniteSet(Senders)
    /\ NoToken \notin Tokens
    /\ Scenes \subseteq [left : [Classes -> Nat], devices : SUBSET Users]

VARIABLES
    high, global,  \* lists fcm:queue:high and fcm:queue:global, the oldest first
    delayed, due,  \* sorted set fcm:delayed, and its members whose time has come
    dlq,           \* list fcm:dlq, as a set
    count,         \* fcm:device:<token>:count
    expiring,      \* the counters that have an expiry
    token,         \* column users.fcm_token
    sender,        \* what each worker is doing
    drain,         \* what the delayed loop is doing
    left,          \* bound: what may still happen
    troubled,      \* ghost: something has failed
    sends,         \* ghost: calls to FCM per device since its counter was forgotten
    uncounted,     \* ghost: those of them that were not counted, as Redis had failed
    accepted, ended, lost  \* ghosts of the contract: see Outbox

Priorities == {"high", "normal"}
Job == [user : Users, subject : Subjects, priority : Priorities, retry : 0 .. MaxRetries]
Note == [user : Users, subject : Subjects, priority : Priorities]
\* What a worker is doing: the device is known once it has been looked up.
Sending ==
    [job : Job, token : {NoToken}, at : {"look"}]
    \cup [job : Job, token : Tokens, at : {"count", "send", "postpone"}]

ASSUME SentinelAssumption == Idle \notin Sending

NoteOf(j) == [user |-> j.user, subject |-> j.subject, priority |-> j.priority]

contractVars == <<accepted, ended, lost, troubled>>
redisVars == <<high, global, delayed, due, dlq>>
bucketVars == <<count, expiring, sends, uncounted>>
notifierVars == <<redisVars, bucketVars, token, sender, drain, left, contractVars>>

NotifierTypeOK ==
    /\ high \in Seq(Job) /\ global \in Seq(Job)
    /\ due \subseteq delayed /\ delayed \subseteq Job /\ dlq \subseteq Job
    /\ count \in [Tokens -> Nat] /\ expiring \subseteq Tokens
    /\ token \in [Users -> Tokens \cup {NoToken}]
    /\ sender \in [Senders -> {Idle} \cup Sending]
    /\ drain \in [on : BOOLEAN, todo : SUBSET Job, hand : SUBSET Job]
    /\ left \in [Classes -> Nat] /\ troubled \in BOOLEAN
    /\ sends \in [Tokens -> Nat] /\ uncounted \in [Tokens -> Nat]
    /\ accepted \subseteq Note /\ lost \subseteq Note
    /\ ended \subseteq Note \X {"sent", "unreachable", "invalid", "buried"}

NotifierInit ==
    /\ high = <<>> /\ global = <<>> /\ delayed = {} /\ due = {} /\ dlq = {}
    /\ count = [t \in Tokens |-> 0] /\ expiring = {}
    /\ sender = [s \in Senders |-> Idle] /\ drain = [on |-> FALSE, todo |-> {}, hand |-> {}]
    /\ \E scene \in Scenes : left = scene.left /\ \E t \in Tokens :
          token = [u \in Users |-> IF u \in scene.devices THEN t ELSE NoToken]
    /\ troubled = FALSE
    /\ sends = [t \in Tokens |-> 0] /\ uncounted = [t \in Tokens |-> 0]
    /\ accepted = {} /\ ended = {} /\ lost = {}

-----------------------------------------------------------------------------

Takes(class) == left[class] > 0 /\ left' = [left EXCEPT ![class] = @ - 1]
Fails == Takes("fault") /\ troubled' = TRUE
Works == UNCHANGED <<left, troubled>>
Loses(notes) == Fails /\ lost' = lost \cup notes
Ends(n, how) == ended' = ended \cup {<<n, how>>}

At(s, step) == sender[s] # Idle /\ sender[s].at = step
Goes(s, step) == sender' = [sender EXCEPT ![s].at = step]
Free(s) == sender' = [sender EXCEPT ![s] = Idle]

\* LPUSH to the list of the priority; the services ignore its error.  rest: what the
\* caller leaves of the bounds.
Pushed(j) ==
    IF j.priority = "high" THEN high' = Append(high, j) /\ UNCHANGED global
                           ELSE global' = Append(global, j) /\ UNCHANGED high
Enqueue(n, rest) ==
    /\ accepted' = accepted \cup {n}
    /\ \/ Pushed([user |-> n.user, subject |-> n.subject, priority |-> n.priority, retry |-> 0])
          /\ left' = rest /\ UNCHANGED <<lost, troubled>>
       \/ rest["fault"] > 0 /\ left' = [rest EXCEPT !["fault"] = @ - 1]
          /\ troubled' = TRUE /\ lost' = lost \cup {n} /\ UNCHANGED <<high, global>>
    /\ UNCHANGED <<delayed, due, dlq, bucketVars, token, sender, drain, ended>>

\* BRPOP takes the oldest, from the list of high priority first; its answer may be lost.
Pop(s) ==
    /\ sender[s] = Idle
    /\ \E j \in Job :
        /\ \/ high # <<>> /\ j = Head(high) /\ high' = Tail(high) /\ UNCHANGED global
           \/ high = <<>> /\ global # <<>> /\ j = Head(global) /\ global' = Tail(global)
              /\ UNCHANGED high
        /\ \/ sender' = [sender EXCEPT ![s] = [job |-> j, token |-> NoToken, at |-> "look"]]
              /\ Works /\ UNCHANGED lost
           \/ Loses({NoteOf(j)}) /\ UNCHANGED sender
    /\ UNCHANGED <<delayed, due, dlq, bucketVars, token, drain, accepted, ended>>

\* A failing select is taken for a user without a device.
Look(s) ==
    /\ At(s, "look")
    /\ LET j == sender[s].job IN
       \/ /\ token[j.user] # NoToken
          /\ sender' = [sender EXCEPT ![s].at = "count", ![s].token = token[j.user]]
          /\ UNCHANGED <<left, contractVars>>
       \/ /\ token[j.user] = NoToken /\ Ends(NoteOf(j), "unreachable") /\ Free(s)
          /\ Works /\ UNCHANGED <<accepted, lost>>
       \/ Loses({NoteOf(j)}) /\ Free(s) /\ UNCHANGED <<accepted, ended>>
    /\ UNCHANGED <<redisVars, bucketVars, token, drain>>

Exceeds(j, n) == n > BurstLimit

\* INCR, and the expiry for the first of a window; where INCR fails there is no limit.
\* Bound: a counter above the limit stays where it is.
Counted(t) == IF count[t] > BurstLimit THEN count[t] ELSE count[t] + 1
Count(s) ==
    /\ At(s, "count")
    /\ LET t == sender[s].token
           n == Counted(t)
       IN \/ /\ count' = [count EXCEPT ![t] = n]
             /\ \/ expiring' = (IF n = 1 THEN expiring \cup {t} ELSE expiring)
                   /\ Works
                \/ n = 1 /\ Fails /\ UNCHANGED expiring
             /\ Goes(s, IF Exceeds(sender[s].job, n) THEN "postpone" ELSE "send")
             /\ UNCHANGED uncounted
          \/ /\ Fails /\ uncounted' = [uncounted EXCEPT ![t] = @ + 1]
             /\ Goes(s, "send") /\ UNCHANGED <<count, expiring>>
    /\ UNCHANGED <<redisVars, sends, token, drain, accepted, ended, lost>>

TriedAgain(j) == [j EXCEPT !.retry = @ + 1]

\* What FCM answers, or it fails.
Answers == {"sent", "invalid"}

\* FCM takes the message, or calls the token invalid, or fails.  The row that is then
\* written to forget an invalid token has no name and no date: the database refuses it.
Send(s) ==
    /\ At(s, "send")
    /\ LET j == sender[s].job
           t == sender[s].token
       IN /\ sends' = [sends EXCEPT ![t] = @ + 1]
          /\ \/ \E how \in Answers : Ends(NoteOf(j), how)
                /\ Free(s) /\ Works /\ UNCHANGED <<dlq, lost>>
             \/ /\ j.retry < MaxRetries /\ Takes("error")
                /\ sender' = [sender EXCEPT ![s].job = TriedAgain(j), ![s].at = "postpone"]
                /\ UNCHANGED <<dlq, ended, lost, troubled>>
             \/ /\ j.retry = MaxRetries /\ Takes("error")
                /\ dlq' = dlq \cup {j} /\ Ends(NoteOf(j), "buried") /\ Free(s)
                /\ UNCHANGED <<lost, troubled>>
             \/ /\ j.retry = MaxRetries /\ Loses({NoteOf(j)})
                /\ Free(s) /\ UNCHANGED <<dlq, ended>>
    /\ UNCHANGED <<high, global, delayed, due, count, expiring, uncounted, token, drain, accepted>>

\* ZADD gives a payload that is there already its new time.
DelayEnqueue(s) ==
    /\ At(s, "postpone")
    /\ LET j == sender[s].job IN
       \/ delayed' = delayed \cup {j} /\ due' = due \ {j} /\ Works /\ UNCHANGED lost
       \/ Loses({NoteOf(j)}) /\ UNCHANGED <<delayed, due>>
    /\ Free(s)
    /\ UNCHANGED <<high, global, dlq, bucketVars, token, drain, accepted, ended>>

DelayPasses(j) ==
    /\ j \in delayed \ due /\ due' = due \cup {j}
    /\ UNCHANGED <<high, global, delayed, dlq, bucketVars, token, sender, drain, left, contractVars>>

WindowEnds(t) ==
    /\ t \in expiring /\ expiring' = expiring \ {t}
    /\ count' = [count EXCEPT ![t] = 0] /\ sends' = [sends EXCEPT ![t] = 0]
    /\ uncounted' = [uncounted EXCEPT ![t] = 0]
    /\ UNCHANGED <<redisVars, token, sender, drain, left, contractVars>>

-----------------------------------------------------------------------------
(* The delayed loop: it reads what is due, and moves one after the other.   *)

DrainRead ==
    /\ ~drain.on /\ due # {}
    /\ drain' = [on |-> TRUE, todo |-> due, hand |-> {}]
    /\ UNCHANGED <<redisVars, bucketVars, token, sender, left, contractVars>>

\* ZREM; its error is ignored.
\* Mutant: the job stays in the sorted set.
LeftThere(j) == delayed
Removed(j) == delayed \ {j}
DrainTake(j) ==
    /\ drain.on /\ drain.hand = {} /\ j \in drain.todo
    /\ drain' = [drain EXCEPT !.todo = @ \ {j}, !.hand = {j}]
    /\ \/ delayed' = Removed(j) /\ due' = due \cap delayed' /\ Works
       \/ Fails /\ UNCHANGED <<delayed, due>>
    /\ UNCHANGED <<high, global, dlq, bucketVars, token, sender, accepted, ended, lost>>

\* LPUSH, always to the list of low priority.
\* Mutant: the push is forgotten.
RequeuedNowhere(j) == global
Requeued(j) == Append(global, j)
DrainPush ==
    /\ drain.hand # {}
    /\ drain' = [drain EXCEPT !.hand = {}, !.on = drain.todo # {}]
    /\ \A j \in drain.hand :
        \/ global' = Requeued(j) /\ Works /\ UNCHANGED lost
        \/ Loses({NoteOf(j)}) /\ UNCHANGED global
    /\ UNCHANGED <<high, delayed, due, dlq, bucketVars, token, sender, accepted, ended>>

UpdateFcmToken(u, t) ==
    /\ token' = [token EXCEPT ![u] = t] /\ Takes("note")
    /\ UNCHANGED <<redisVars, bucketVars, sender, drain, contractVars>>

\* The server stops: Redis keeps the lists, what was in hand is lost.
InHand == {NoteOf(sender[s].job) : s \in {x \in Senders : sender[x] # Idle}}
              \cup {NoteOf(j) : j \in drain.hand}
Restart ==
    /\ Loses(InHand)
    /\ sender' = [s \in Senders |-> Idle] /\ drain' = [on |-> FALSE, todo |-> {}, hand |-> {}]
    /\ UNCHANGED <<redisVars, bucketVars, token, accepted, ended>>

SenderStep(s) == Pop(s) \/ Look(s) \/ Count(s) \/ Send(s) \/ DelayEnqueue(s)
DrainStep == DrainRead \/ DrainPush \/ \E j \in drain.todo : DrainTake(j)
NotifierStep ==
    \/ \E s \in Senders : SenderStep(s)
    \/ DrainStep
    \/ \E j \in delayed : DelayPasses(j)
    \/ \E t \in Tokens : WindowEnds(t)

\* The workers run, the ticker ticks, time passes.
NotifierFairness ==
    /\ \A s \in Senders : WF_notifierVars(SenderStep(s))
    /\ WF_notifierVars(DrainStep)
    /\ WF_notifierVars(\E j \in delayed : DelayPasses(j))
    /\ \A t \in Tokens : WF_notifierVars(WindowEnds(t))

-----------------------------------------------------------------------------
(* Properties                                                               *)

Kept == {NoteOf(j) : j \in ToSet(high) \cup ToSet(global) \cup delayed} \cup InHand

\* "20 burst per device": whatever workers, retries and delayed jobs do at once, the
\* calls for one device between two ends of its window are no more than the limit and
\* the calls the workers had under way, but for those made while Redis did not count.
BurstKept ==
    \A t \in Tokens : sends[t] <= BurstLimit + Cardinality(Senders) + uncounted[t]

\* What BurstKept rests on: the calls that were made and those under way have been counted,
\* but for as many as there are workers, which were under way when the window ended.
Sends(t) == {s \in Senders : At(s, "send") /\ sender[s].token = t}
BurstInv ==
    \A t \in Tokens : sends[t] + Cardinality(Sends(t)) <=
        (IF count[t] > BurstLimit THEN BurstLimit ELSE count[t])
            + Cardinality(Senders) + uncounted[t]

\* What is kept ends: again and again nothing is kept, unless the counter of a device has
\* lost its expiry: such a device is over its limit for good.
NotesEnd ==
    []<>(Kept = {} \/ \E t \in Tokens : count[t] > 0 /\ t \notin expiring)

\* What the contract rests on: the loop takes one job after the other, those it has read
\* are still delayed, and what is kept or lost was handed over once.
LoopInv ==
    /\ drain.hand = {} \/ (drain.on /\ \E j \in Job : drain.hand = {j})
    /\ drain.todo \subseteq delayed
HandInv == LoopInv /\ Kept \cup lost \subseteq accepted

\* The dispatcher keeps its contract.
Contract == INSTANCE Outbox WITH Notes <- Note, owed <- Kept
ImplementsOutbox == Contract!Spec
=============================================================================
