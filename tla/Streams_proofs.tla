---------------------------- MODULE Streams_proofs ----------------------------
EXTENDS StreamsInv, SequenceTheorems, TLAPS

-----------------------------------------------------------------------------
(* Cells and plans.                                                        *)

\* Cells of different kinds differ.
LEMMA CellsDiffer ==
    /\ \A o \in Orders, c \in Near : OrderCell(o) # <<"cell", c>>
    /\ \A o \in Orders : /\ OrderCell(o) # Global /\ OrderCell(o) # MerchantCell
                         /\ OrderCell(o) # MerchantGlobal
    /\ \A c \in Near : /\ <<"cell", c>> # Global /\ <<"cell", c>> # MerchantCell
                       /\ <<"cell", c>> # MerchantGlobal
    /\ Global # MerchantCell /\ Global # MerchantGlobal /\ MerchantCell # MerchantGlobal
<1>1. /\ \A o \in Orders : OrderCell(o)[1] = "order"
      /\ \A c \in Near : <<"cell", c>>[1] = "cell"
      /\ Global[1] = "global" /\ MerchantCell[1] = "merchant" /\ MerchantGlobal[1] = "merchant"
      /\ MerchantCell[2] = "own" /\ MerchantGlobal[2] = "global"
    BY DEF OrderCell, Global, MerchantCell, MerchantGlobal
<1> QED
    BY <1>1

\* Two calls before two.
LEMMA TwoAndTwo ==
    ASSUME NEW a, NEW b, NEW c, NEW d
    PROVE  <<a, b>> \o <<c, d>> = <<a, b, c, d>>
<1> DEFINE S == {a, b, c, d}
           u == <<a, b>>
           v == <<c, d>>
           w == u \o v
           z == <<a, b, c, d>>
<1>1. /\ u \in Seq(S) /\ v \in Seq(S) /\ Len(u) = 2 /\ Len(v) = 2
      /\ u[1] = a /\ u[2] = b /\ v[1] = c /\ v[2] = d
    OBVIOUS
<1>2. z \in Seq(S) /\ Len(z) = 4 /\ z[1] = a /\ z[2] = b /\ z[3] = c /\ z[4] = d
    OBVIOUS
<1> HIDE DEF u, v, z, S
<1>3. /\ w \in Seq(S) /\ Len(w) = 4
      /\ w[1] = u[1] /\ w[2] = u[2] /\ w[3] = v[1] /\ w[4] = v[2]
  <2>1. /\ w \in Seq(S) /\ Len(w) = Len(u) + Len(v)
        /\ \A i \in 1 .. Len(u) + Len(v) : w[i] = IF i <= Len(u) THEN u[i] ELSE v[i - Len(u)]
    BY <1>1, ConcatProperties
  <2> HIDE DEF w
  <2>2. \A i \in 1 .. 4 : w[i] = IF i <= 2 THEN u[i] ELSE v[i - 2]
    BY <1>1, <2>1
  <2> QED
    BY <1>1, <2>1, <2>2
<1> HIDE DEF w
<1>4. \A i \in 1 .. 4 : w[i] = z[i]
  <2>1. \A i \in 1 .. 4 : i = 1 \/ i = 2 \/ i = 3 \/ i = 4
    OBVIOUS
  <2> QED
    BY <1>1, <1>2, <1>3, <2>1
<1>5. w = z
    BY <1>2, <1>3, <1>4, SeqEqual
<1> QED
    BY <1>5 DEF w, u, v, z

\* The calls of each plan.
LEMMA PlanShapes ==
    ASSUME NEW plan \in Plans
    PROVE  \/ \E o \in Orders, type \in Types : plan = <<To({OrderCell(o)}, type)>>
           \/ \E type \in Types : plan = <<To({MerchantCell}, type), To({MerchantGlobal}, type)>>
           \/ \E o \in Orders, type \in Types, last \in Types :
                 plan = <<To(NearCells, type), To({Global}, type), To({OrderCell(o)}, last)>>
           \/ \E type \in Types : plan = <<To(NearCells, type), To({Global}, type)>>
           \/ \E type \in Types :
                 plan = <<To(NearCells, type), To({Global}, type),
                          To({MerchantCell}, type), To({MerchantGlobal}, type)>>
<1>1. ASSUME NEW o \in Orders, plan = BroadcastOrderCreated(o)
      PROVE  \/ plan = <<To(NearCells, "order_created"), To({Global}, "order_created")>>
             \/ plan = <<To(NearCells, "order_created"), To({Global}, "order_created"),
                     To({MerchantCell}, "order_created"), To({MerchantGlobal}, "order_created")>>
  <2>1. CASE o \in MerchantOrders
    <3> DEFINE a == To(NearCells, "order_created")
               b == To({Global}, "order_created")
               c == To({MerchantCell}, "order_created")
               d == To({MerchantGlobal}, "order_created")
    <3>1. plan = <<a, b>> \o <<c, d>>
      BY <1>1, <2>1 DEF BroadcastOrderCreated, BroadcastMerchant
    <3> HIDE DEF a, b, c, d
    <3>2. <<a, b>> \o <<c, d>> = <<a, b, c, d>>
      BY TwoAndTwo
    <3> QED
      BY <3>1, <3>2 DEF a, b, c, d
  <2>2. CASE o \notin MerchantOrders
    BY <1>1, <2>2 DEF BroadcastOrderCreated
  <2> QED
    BY <2>1, <2>2
<1>2. "order_created" \in Types /\ "order_claimed" \in Types /\ "order_cancelled" \in Types
      /\ "order_status" \in Types
    BY DEF Types
<1>3. CASE \E o \in Orders : plan = BroadcastOrderCreated(o)
    BY <1>1, <1>2, <1>3
<1>4. CASE \E o \in Orders : plan = BroadcastOrderClaimed(o)
    BY <1>2, <1>4 DEF BroadcastOrderClaimed
<1>5. CASE \E o \in Orders : plan = BroadcastOrderCancelled(o)
    BY <1>2, <1>5 DEF BroadcastOrderCancelled
<1>6. CASE \E o \in Orders, type \in Types : plan = BroadcastOrderStatus(o, type)
    BY <1>6 DEF BroadcastOrderStatus
<1>7. CASE \E type \in Types : plan = BroadcastMerchant(type)
    BY <1>7 DEF BroadcastMerchant
<1>8. \/ \E o \in Orders : plan = BroadcastOrderCreated(o)
      \/ \E o \in Orders : plan = BroadcastOrderClaimed(o)
      \/ \E o \in Orders : plan = BroadcastOrderCancelled(o)
      \/ \E o \in Orders, type \in Types : plan = BroadcastOrderStatus(o, type)
      \/ \E type \in Types : plan = BroadcastMerchant(type)
    BY SMT DEF Plans
<1> QED
    BY <1>3, <1>4, <1>5, <1>6, <1>7, <1>8, Zenon

\* A plan is a sequence.
LEMMA PlanDomain ==
    ASSUME NEW plan \in Plans
    PROVE  Len(plan) \in 1 .. 4 /\ DOMAIN plan = 1 .. Len(plan)
<1>1. CASE \E o \in Orders, type \in Types : plan = <<To({OrderCell(o)}, type)>>
    BY <1>1
<1>2. CASE \E type \in Types : plan = <<To({MerchantCell}, type), To({MerchantGlobal}, type)>>
    BY <1>2
<1>3. CASE \E o \in Orders, type \in Types, last \in Types :
                 plan = <<To(NearCells, type), To({Global}, type), To({OrderCell(o)}, last)>>
    BY <1>3
<1>4. CASE \E type \in Types : plan = <<To(NearCells, type), To({Global}, type)>>
    BY <1>4
<1>5. CASE \E type \in Types : plan = <<To(NearCells, type), To({Global}, type),
                                     To({MerchantCell}, type), To({MerchantGlobal}, type)>>
    BY <1>5
<1> QED
    BY PlanShapes, <1>1, <1>2, <1>3, <1>4, <1>5

\* A plan has one to four calls.
LEMMA PlanTyped ==
    ASSUME NEW plan \in Plans
    PROVE  /\ DOMAIN plan \subseteq 1 .. 4
           /\ \A i \in DOMAIN plan : plan[i].type \in Types
    BY PlanShapes, SMTT(30) DEF To

\* A stream that is not a merchant's hears of one call of a type.
LEMMA OneCallEach ==
    ASSUME NEW plan \in Plans, NEW cells \in OwnCells,
           NEW i \in DOMAIN plan, NEW j \in DOMAIN plan, plan[i].type = plan[j].type,
           cells \cap plan[i].cells # {}, cells \cap plan[j].cells # {}
    PROVE  i = j
<1>1. /\ \A o \in Orders : {OrderCell(o)} \cap NearCells = {}
      /\ \A o \in Orders : {OrderCell(o)} \cap {Global} = {}
      /\ \A o \in Orders : {OrderCell(o)} \cap {MerchantCell} = {}
      /\ \A o \in Orders : {OrderCell(o)} \cap {MerchantGlobal} = {}
      /\ NearCells \cap {Global} = {} /\ NearCells \cap {MerchantCell} = {}
      /\ NearCells \cap {MerchantGlobal} = {} /\ {Global} \cap {MerchantCell} = {}
      /\ {Global} \cap {MerchantGlobal} = {} /\ {Global} \cap NearCells = {}
      /\ \A o \in Orders : NearCells \cap {OrderCell(o)} = {} /\ {Global} \cap {OrderCell(o)} = {}
    BY CellsDiffer DEF NearCells
<1>2. cells \in {{}, NearCells, {Global}} \/ \E o \in Orders : cells = {OrderCell(o)}
    BY DEF OwnCells
<1>3. CASE \E o \in Orders, type \in Types : plan = <<To({OrderCell(o)}, type)>>
    BY <1>3
<1>4. CASE \E type \in Types : plan = <<To({MerchantCell}, type), To({MerchantGlobal}, type)>>
  <2>1. \A k \in DOMAIN plan : plan[k].cells \in {{MerchantCell}, {MerchantGlobal}}
    BY <1>4 DEF To
  <2> QED
    BY <1>1, <1>2, <2>1
<1>5. CASE \/ \E o \in Orders, type \in Types, last \in Types :
                 plan = <<To(NearCells, type), To({Global}, type), To({OrderCell(o)}, last)>>
           \/ \E type \in Types : plan = <<To(NearCells, type), To({Global}, type)>>
           \/ \E type \in Types :
                 plan = <<To(NearCells, type), To({Global}, type),
                          To({MerchantCell}, type), To({MerchantGlobal}, type)>>
  <2>1. \A k \in DOMAIN plan : \/ k = 1 /\ plan[k].cells = NearCells
                               \/ k = 2 /\ plan[k].cells = {Global}
                               \/ k = 3 /\ \E o \in Orders : plan[k].cells = {OrderCell(o)}
                               \/ k \in {3, 4} /\ plan[k].cells \in {{MerchantCell}, {MerchantGlobal}}
    BY <1>5, SMTT(30) DEF To
  <2>2. CASE cells = {}
    BY <2>2
  <2>3. CASE cells = NearCells
    BY <1>1, <2>1, <2>3
  <2>4. CASE cells = {Global}
    BY <1>1, <2>1, <2>4
  <2>5. CASE \E o \in Orders : cells = {OrderCell(o)}
    BY <1>1, <2>1, <2>5
  <2> QED
    BY <1>2, <2>2, <2>3, <2>4, <2>5
<1> QED
    BY PlanShapes, <1>3, <1>4, <1>5

\* The first of some calls.
LEMMA FirstCall ==
    ASSUME NEW S \in SUBSET (1 .. 4), S # {}
    PROVE  Min(S) \in S /\ \A i \in S : Min(S) <= i
<1>1. \E i \in S : \A j \in S : i <= j
  <2>1. CASE 1 \in S
    BY <2>1
  <2>2. CASE 1 \notin S /\ 2 \in S
    BY <2>2
  <2>3. CASE 1 \notin S /\ 2 \notin S /\ 3 \in S
    BY <2>3
  <2>4. CASE 1 \notin S /\ 2 \notin S /\ 3 \notin S
    <3>1. \A i \in S : i = 4
      BY <2>4
    <3>2. PICK i \in S : TRUE
      OBVIOUS
    <3> QED
      BY <3>1, <3>2
  <2> QED
    BY <2>1, <2>2, <2>3, <2>4
<1> QED
    BY <1>1 DEF Min

-----------------------------------------------------------------------------
(* What is coming.                                                         *)

\* The events of a goroutine are its own, one for a call.
LEMMA ComingTyped ==
    ASSUME NEW t \in Task, t.call \in DOMAIN t.plan, NEW s, NEW e \in Coming(t, s)
    PROVE  /\ e \in Event /\ e.order = t.order /\ e.change = t.change /\ e.by = t.by
           /\ e.call \in DOMAIN t.plan /\ e.call >= t.call /\ e.type = t.plan[e.call].type
           /\ e = EventOf([t EXCEPT !.call = e.call])
           /\ IF e.call = t.call /\ t.to # {} THEN s \in t.to
                                             ELSE Subscribed(s, t.plan[e.call].cells)
<1>1. DOMAIN t.plan \subseteq 1 .. 4 /\ \A i \in DOMAIN t.plan : t.plan[i].type \in Types
    BY PlanTyped DEF Task
<1>2. \A i : /\ [t EXCEPT !.call = i].order = t.order /\ [t EXCEPT !.call = i].change = t.change
             /\ [t EXCEPT !.call = i].by = t.by /\ [t EXCEPT !.call = i].call = i
             /\ [t EXCEPT !.call = i].plan = t.plan
    BY DEF Task
<1>3. \A i : EventOf([t EXCEPT !.call = i]) =
                [order |-> t.order, change |-> t.change, by |-> t.by, call |-> i,
                 type |-> t.plan[i].type]
    BY <1>2 DEF EventOf
<1>4. PICK i \in {i \in t.call .. Len(t.plan) :
                    IF i = t.call /\ t.to # {} THEN s \in t.to
                                              ELSE Subscribed(s, t.plan[i].cells)} :
              e = EventOf([t EXCEPT !.call = i])
    BY Zenon DEF Coming
<1>5. i \in DOMAIN t.plan /\ i \in 1 .. 4
    BY <1>1, <1>4, PlanDomain DEF Task
<1>6. e = [order |-> t.order, change |-> t.change, by |-> t.by, call |-> i,
           type |-> t.plan[i].type]
    BY <1>3, <1>4
<1>7. e \in Event
    BY <1>1, <1>5, <1>6 DEF Event, Task
<1>8. e.order = t.order /\ e.change = t.change /\ e.by = t.by /\ e.call = i
      /\ e.type = t.plan[i].type
    BY <1>6
<1> QED
    BY <1>4, <1>5, <1>7, <1>8

\* An event is known by the goroutine and the call.
Alike(t, u) == t.order = u.order /\ t.change = u.change /\ t.by = u.by /\ t.plan = u.plan
LEMMA AlikeEvents ==
    ASSUME NEW t \in Task, NEW u \in Task, Alike(t, u), NEW i
    PROVE  /\ EventOf([u EXCEPT !.call = i]) = EventOf([t EXCEPT !.call = i])
           /\ EventOf([t EXCEPT !.call = i]).call = i
<1>1. /\ [t EXCEPT !.call = i].order = t.order /\ [t EXCEPT !.call = i].change = t.change
      /\ [t EXCEPT !.call = i].by = t.by /\ [t EXCEPT !.call = i].call = i
      /\ [t EXCEPT !.call = i].plan = t.plan
    BY DEF Task
<1>2. /\ [u EXCEPT !.call = i].order = u.order /\ [u EXCEPT !.call = i].change = u.change
      /\ [u EXCEPT !.call = i].by = u.by /\ [u EXCEPT !.call = i].call = i
      /\ [u EXCEPT !.call = i].plan = u.plan
    BY DEF Task
<1> QED
    BY <1>1, <1>2 DEF EventOf, Alike

\* What is coming, by the call it comes from.
LEMMA ComingHas ==
    ASSUME NEW t \in Task, NEW s, NEW i \in DOMAIN t.plan, t.call <= i, t.call \in DOMAIN t.plan,
           IF i = t.call /\ t.to # {} THEN s \in t.to ELSE Subscribed(s, t.plan[i].cells)
    PROVE  EventOf([t EXCEPT !.call = i]) \in Coming(t, s)
<1>1. i \in t.call .. Len(t.plan)
    BY PlanDomain DEF Task
<1>2. i \in {j \in t.call .. Len(t.plan) :
               IF j = t.call /\ t.to # {} THEN s \in t.to ELSE Subscribed(s, t.plan[j].cells)}
    BY <1>1
<1> QED
    BY <1>2, Zenon DEF Coming

\* No two events that are coming to a stream but a merchant's are of one kind.
LEMMA ComingSole ==
    ASSUME NEW T, NEW s, stream[s].cells \in OwnCells,
           \A t \in T : /\ t \in Task /\ t.call \in DOMAIN t.plan
                        /\ s \in t.to => Subscribed(s, t.plan[t.call].cells),
           \A t, u \in T : t.order = u.order /\ t.change = u.change /\ t.by = u.by => t = u,
           NEW e \in UNION {Coming(t, s) : t \in T}, NEW f \in UNION {Coming(t, s) : t \in T},
           Same(e, f)
    PROVE  e = f
<1>1. PICK t \in T : e \in Coming(t, s)
    OBVIOUS
<1>2. PICK u \in T : f \in Coming(u, s)
    OBVIOUS
<1>3. /\ t \in Task /\ t.call \in DOMAIN t.plan /\ u \in Task /\ u.call \in DOMAIN u.plan
      /\ s \in t.to => Subscribed(s, t.plan[t.call].cells)
      /\ s \in u.to => Subscribed(s, u.plan[u.call].cells)
    BY <1>1, <1>2
<1>4. /\ e.order = t.order /\ e.change = t.change /\ e.by = t.by
      /\ e.call \in DOMAIN t.plan /\ e.type = t.plan[e.call].type
      /\ e = EventOf([t EXCEPT !.call = e.call])
      /\ Subscribed(s, t.plan[e.call].cells)
    BY <1>1, <1>3, ComingTyped
<1>5. /\ f.order = u.order /\ f.change = u.change /\ f.by = u.by
      /\ f.call \in DOMAIN u.plan /\ f.type = u.plan[f.call].type
      /\ f = EventOf([u EXCEPT !.call = f.call])
      /\ Subscribed(s, u.plan[f.call].cells)
    BY <1>2, <1>3, ComingTyped
<1>6. t = u
    BY <1>1, <1>2, <1>4, <1>5 DEF Same
<1>7. e.call = f.call
  <2>1. t.plan \in Plans /\ t.plan[e.call].type = t.plan[f.call].type
    BY <1>3, <1>4, <1>5, <1>6 DEF Same, Task
  <2>2. /\ stream[s].cells \cap t.plan[e.call].cells # {}
        /\ stream[s].cells \cap t.plan[f.call].cells # {}
    BY <1>4, <1>5, <1>6 DEF Subscribed
  <2> QED
    BY <1>4, <1>5, <1>6, <2>1, <2>2, OneCallEach
<1> QED
    BY <1>4, <1>5, <1>6, <1>7

\* A goroutine that goes on to its next call.
LEMMA NextCallOK ==
    ASSUME NEW t \in Task, t.call \in DOMAIN t.plan
    PROVE  /\ \A u \in NextCall(t) :
                 /\ u \in Task /\ u.call \in DOMAIN u.plan /\ Alike(t, u) /\ u.to = {}
                 /\ \A s : Coming(u, s) \subseteq Coming(t, s)
           /\ NextCall(t) = {} \/ \E u : NextCall(t) = {u}
           /\ \A s : \A e \in Coming(t, s) :
                 e.call # t.call /\ stream[s].cells \subseteq Reachable
                     => \E u \in NextCall(t) : e \in Coming(u, s)
<1> DEFINE calls == {i \in Heard(t.plan) : i > t.call}
           v == [t EXCEPT !.call = Min(calls), !.to = {}]
<1>1. t.plan \in Plans /\ DOMAIN t.plan \subseteq 1 .. 4 /\ t.call \in 1 .. 4
    BY PlanDomain DEF Task
<1>2. calls \in SUBSET (1 .. 4) /\ calls \subseteq DOMAIN t.plan
    BY <1>1 DEF Heard
<1>3. NextCall(t) = IF calls = {} THEN {} ELSE {v}
    BY DEF NextCall
<1>4. ASSUME calls # {}
      PROVE  /\ v \in Task /\ v.call \in DOMAIN v.plan /\ Alike(t, v) /\ v.to = {}
             /\ v.call > t.call /\ \A i \in calls : v.call <= i
  <2>1. Min(calls) \in calls /\ \A i \in calls : Min(calls) <= i
    BY <1>2, <1>4, FirstCall
  <2> HIDE DEF calls
  <2>2. Min(calls) \in 1 .. 4 /\ Min(calls) \in DOMAIN t.plan /\ Min(calls) > t.call
    BY <1>2, <2>1 DEF calls
  <2> QED
    BY <2>1, <2>2 DEF Task, Alike
<1> HIDE DEF v, calls
<1>5. ASSUME calls # {}, NEW s
      PROVE  Coming(v, s) \subseteq Coming(t, s)
  <2> SUFFICES ASSUME NEW e \in Coming(v, s)
               PROVE  e \in Coming(t, s)
    OBVIOUS
  <2>1. /\ e.call \in DOMAIN v.plan /\ e.call >= v.call /\ e = EventOf([v EXCEPT !.call = e.call])
        /\ Subscribed(s, v.plan[e.call].cells)
    BY <1>4, <1>5, ComingTyped
  <2>2. e.call \in DOMAIN t.plan /\ Subscribed(s, t.plan[e.call].cells) /\ e.call # t.call
        /\ t.call <= e.call
    BY <1>1, <1>4, <1>5, <2>1 DEF Alike, Task
  <2>3. e = EventOf([t EXCEPT !.call = e.call])
    BY <1>4, <1>5, <2>1, AlikeEvents
  <2>4. EventOf([t EXCEPT !.call = e.call]) \in Coming(t, s)
    BY <2>2, ComingHas
  <2> QED
    BY <2>3, <2>4
<1>6. ASSUME NEW s, NEW e \in Coming(t, s), e.call # t.call, stream[s].cells \subseteq Reachable
      PROVE  calls # {} /\ e \in Coming(v, s)
  <2>1. /\ e.call \in DOMAIN t.plan /\ e.call >= t.call /\ e = EventOf([t EXCEPT !.call = e.call])
        /\ Subscribed(s, t.plan[e.call].cells)
    BY <1>6, ComingTyped
  <2>2. e.call \in calls
    BY <1>1, <1>6, <2>1 DEF calls, Heard, Subscribed
  <2>3. e.call \in DOMAIN v.plan /\ v.call <= e.call /\ Subscribed(s, v.plan[e.call].cells)
    BY <1>4, <2>1, <2>2 DEF Alike
  <2>4. e = EventOf([v EXCEPT !.call = e.call])
    BY <1>4, <2>1, <2>2, AlikeEvents
  <2>5. EventOf([v EXCEPT !.call = e.call]) \in Coming(v, s)
    BY <1>4, <2>2, <2>3, ComingHas
  <2> QED
    BY <2>2, <2>4, <2>5
<1> QED
    BY <1>3, <1>4, <1>5, <1>6

-----------------------------------------------------------------------------
(* Steps that announce nothing.                                            *)

\* What is coming to a stream depends on its cells alone.
LEMMA ComingStays ==
    ASSUME NEW s, stream'[s].cells = stream[s].cells
    PROVE  \A t : Coming(t, s)' = Coming(t, s)
    BY DEF Coming, Subscribed

\* What can be reached depends on the streams that may be opened.
LEMMA ReachableStays ==
    ASSUME scene'.opened = scene.opened
    PROVE  Reachable' = Reachable
    BY DEF Reachable

\* The steps that leave the hub alone.
LEMMA QuietStep ==
    ASSUME HubInv, UNCHANGED <<stream, tasks, ghosts, changes>>, scene'.opened = scene.opened
    PROVE  HubInv'
<1>0. stream' = stream /\ tasks' = tasks /\ due' = due /\ told' = told /\ missed' = missed
      /\ changes' = changes
    BY DEF ghosts
<1>1. Reachable' = Reachable /\ Registered' = Registered
    BY <1>0, ReachableStays DEF Registered
<1>2. \A s : ComingTo(s)' = ComingTo(s)
    BY <1>0 DEF ComingTo, Coming, Subscribed
<1>3. TasksOK' /\ TasksDiffer'
    BY <1>0 DEF HubInv, TasksOK, TasksDiffer, Subscribed
<1>4. StreamsOK' /\ GhostsOK'
    BY <1>0, <1>1 DEF HubInv, StreamsOK, GhostsOK
<1>5. NothingLost' /\ OneOfAKind'
    BY <1>0, <1>1, <1>2 DEF HubInv, NothingLost, OneOfAKind
<1> QED
    BY <1>3, <1>4, <1>5 DEF HubInv

-----------------------------------------------------------------------------
(* Steps of one stream.                                                    *)

\* The step of a stream that comes, stays or goes.
LEMMA OneStream ==
    ASSUME HubInv, NEW s \in Streams, NEW r \in Stream, stream' = [stream EXCEPT ![s] = r],
           UNCHANGED <<tasks, changes>>, scene'.opened = scene.opened,
           Len(r.buffer) <= BufferSize,
           r.cells # stream[s].cells => stream[s].at = "new" /\ r.at = "asked",
           s \notin MerchantStreams => r.cells \in OwnCells,
           r.at = "asked" /\ s \notin TrackStreams => r.cells \subseteq Reachable,
           r.at = "on" => stream[s].at = "on" \/ (stream[s].at = "asked" /\ s \notin TrackStreams),
           r.at \in {"new", "asked"} => stream[s].at \in {"new", "asked"},
           \/ UNCHANGED ghosts
           \/ /\ r.at = "gone" /\ due' = [due EXCEPT ![s] = {}]
              /\ told' = [told EXCEPT ![s] = {}] /\ missed' = [missed EXCEPT ![s] = {}]
    PROVE  HubInv'
<1>0. /\ tasks' = tasks /\ changes' = changes /\ stream'[s] = r
      /\ \A x \in Streams : x # s => stream'[x] = stream[x]
      /\ stream' \in [Streams -> Stream] /\ stream \in [Streams -> Stream]
    BY DEF HubInv, StreamsOK
<1>1. Reachable' = Reachable
    BY ReachableStays
<1>2. /\ due' \in [Streams -> SUBSET Event] /\ told' \in [Streams -> SUBSET Event]
      /\ missed' \in [Streams -> SUBSET Event]
      /\ \A x \in Streams : due'[x] \subseteq due[x] /\ told'[x] \subseteq told[x]
                            /\ missed'[x] \subseteq missed[x]
      /\ \A x \in Streams : x # s \/ r.at # "gone" => /\ due'[x] = due[x] /\ told'[x] = told[x]
                                                     /\ missed'[x] = missed[x]
    BY DEF HubInv, GhostsOK, ghosts
<1>3. \A x \in Streams : stream[x].at # "new" => stream'[x].cells = stream[x].cells
  <2>1. stream[s].at # "new" => r.cells = stream[s].cells
    OBVIOUS
  <2> QED
    BY <1>0, <2>1
<1>4. TasksOK'
  <2> SUFFICES ASSUME NEW t \in tasks, NEW x \in t.to
               PROVE  stream'[x].at \in {"on", "gone"} /\ Subscribed(x, t.plan[t.call].cells)'
    BY <1>0 DEF HubInv, TasksOK
  <2>1. /\ stream[x].at \in {"on", "gone"} /\ Subscribed(x, t.plan[t.call].cells)
        /\ x \in Streams
    BY DEF HubInv, TasksOK, Task
  <2>2. stream'[x].cells = stream[x].cells
    BY <1>3, <2>1
  <2>3. r.at \in {"new", "asked", "on", "gone"}
    BY DEF Stream
  <2>4. stream'[x].at \in {"on", "gone"}
    BY <1>0, <2>1, <2>3
  <2> QED
    BY <2>1, <2>2, <2>4 DEF Subscribed
<1>5. TasksDiffer'
    BY <1>0 DEF HubInv, TasksDiffer
<1>6. StreamsOK'
  <2> SUFFICES ASSUME NEW x \in Streams
               PROVE  /\ Len(stream'[x].buffer) <= BufferSize
                      /\ x \notin MerchantStreams => stream'[x].cells \in OwnCells
                      /\ stream'[x].at = "asked" /\ x \notin TrackStreams
                            => stream'[x].cells \subseteq Reachable
                      /\ stream'[x].at = "on" => stream'[x].cells \subseteq Reachable
                      /\ stream'[x].at \in {"new", "asked"}
                            => due'[x] \cup told'[x] \cup missed'[x] = {}
    BY <1>0, <1>1 DEF StreamsOK
  <2>1. CASE x # s
    BY <1>0, <1>2, <2>1 DEF HubInv, StreamsOK
  <2>2. CASE x = s
    <3>1. r.at = "on" => r.cells \subseteq Reachable
      BY DEF HubInv, StreamsOK
    <3>2. r.at \in {"new", "asked"} => due'[s] \cup told'[s] \cup missed'[s] = {}
      BY <1>2 DEF HubInv, StreamsOK
    <3> QED
      BY <1>0, <2>2, <3>1, <3>2
  <2> QED
    BY <2>1, <2>2
<1>7. \A x \in Registered' :
         /\ x \in Streams /\ ComingTo(x)' = ComingTo(x)
         /\ due'[x] = due[x] /\ told'[x] = told[x] /\ missed'[x] = missed[x]
         /\ \/ x \in Registered
            \/ stream[x].at = "asked" /\ due[x] \cup told[x] \cup missed[x] = {}
  <2> SUFFICES ASSUME NEW x \in Streams, stream'[x].at = "on"
               PROVE  /\ ComingTo(x)' = ComingTo(x)
                      /\ due'[x] = due[x] /\ told'[x] = told[x] /\ missed'[x] = missed[x]
                      /\ \/ stream[x].at = "on"
                         \/ stream[x].at = "asked" /\ due[x] \cup told[x] \cup missed[x] = {}
    BY DEF Registered
  <2>1. stream[x].at = "on" \/ stream[x].at = "asked"
    BY <1>0
  <2>2. stream'[x].cells = stream[x].cells
    BY <1>3, <2>1
  <2>3. ComingTo(x)' = ComingTo(x)
    BY <1>0, <2>2, ComingStays DEF ComingTo
  <2>4. x # s \/ r.at # "gone"
    BY <1>0
  <2> QED
    BY <1>2, <2>1, <2>3, <2>4 DEF HubInv, StreamsOK
<1>8. GhostsOK'
    BY <1>0, <1>2, <1>7 DEF HubInv, GhostsOK
<1>9. NothingLost'
    BY <1>7 DEF HubInv, NothingLost
<1>10. OneOfAKind'
  <2> SUFFICES ASSUME NEW x \in Registered', x \notin MerchantStreams,
                      NEW e \in told'[x] \cup missed'[x] \cup ComingTo(x)',
                      NEW f \in told'[x] \cup missed'[x] \cup ComingTo(x)', Same(e, f)
               PROVE  e = f
    BY DEF OneOfAKind, Same
  <2>1. CASE x \in Registered
    BY <1>7, <2>1 DEF HubInv, OneOfAKind
  <2>2. CASE stream[x].at = "asked" /\ due[x] \cup told[x] \cup missed[x] = {}
    <3>1. e \in ComingTo(x) /\ f \in ComingTo(x) /\ x \in Streams
      BY <1>7, <2>2
    <3>2. stream[x].cells \in OwnCells
      BY <3>1 DEF HubInv, StreamsOK
    <3> QED
      BY <3>1, <3>2, ComingSole DEF HubInv, TasksOK, TasksDiffer, ComingTo
  <2> QED
    BY <1>7, <2>1, <2>2
<1> QED
    BY <1>4, <1>5, <1>6, <1>8, <1>9, <1>10 DEF HubInv

-----------------------------------------------------------------------------
(* Steps of a goroutine.                                                   *)

\* What a goroutine was is what it will be, or less.
LEMMA TaskMoves ==
    ASSUME HubInv, NEW t \in tasks, NEW n, n = {} \/ \E u : n = {u},
           \A u \in n :
              /\ u \in Task /\ u.call \in DOMAIN u.plan /\ Alike(t, u)
              /\ \A s \in u.to : stream[s].at \in {"on", "gone"}
                               /\ Subscribed(s, u.plan[u.call].cells)
              /\ \A s : Coming(u, s) \subseteq Coming(t, s),
           tasks' = (tasks \ {t}) \cup n, changes' = changes,
           \A s \in Streams : stream'[s].at = stream[s].at /\ stream'[s].cells = stream[s].cells
    PROVE  /\ TasksOK' /\ TasksDiffer' /\ Registered' = Registered
           /\ \A s \in Streams :
                 /\ ComingTo(s)' \subseteq ComingTo(s)
                 /\ \A e \in ComingTo(s) :
                       \/ e \in ComingTo(s)'
                       \/ e \in Coming(t, s) /\ \A u \in n : e \notin Coming(u, s)
<1>1. TasksOK'
  <2> SUFFICES ASSUME NEW u \in tasks'
               PROVE  /\ u \in Task /\ u.call \in DOMAIN u.plan /\ u.change <= changes[u.order]
                      /\ \A s \in u.to : /\ stream'[s].at \in {"on", "gone"}
                                         /\ Subscribed(s, u.plan[u.call].cells)'
    BY DEF TasksOK
  <2>1. /\ u \in Task /\ u.call \in DOMAIN u.plan /\ u.change <= changes[u.order]
        /\ \A s \in u.to : /\ stream[s].at \in {"on", "gone"}
                           /\ Subscribed(s, u.plan[u.call].cells)
    <3>1. CASE u \in tasks
      BY <3>1 DEF HubInv, TasksOK
    <3>2. CASE u \in n
      <4>1. t.change <= changes[t.order]
        BY DEF HubInv, TasksOK
      <4> QED
        BY <3>2, <4>1 DEF Alike
    <3> QED
      BY <3>1, <3>2
  <2>2. u.to \subseteq Streams
    BY <2>1 DEF Task
  <2>3. \A s \in u.to : Subscribed(s, u.plan[u.call].cells)'
    BY <2>1, <2>2 DEF Subscribed
  <2> QED
    BY <2>1, <2>2, <2>3
<1>2. TasksDiffer'
  <2> SUFFICES ASSUME NEW u \in tasks', NEW v \in tasks',
                      u.order = v.order, u.change = v.change, u.by = v.by
               PROVE  u = v
    BY DEF TasksDiffer
  <2>1. \A x \in n : x.order = t.order /\ x.change = t.change /\ x.by = t.by
    BY DEF Alike
  <2>2. CASE u \in n /\ v \in n
    BY <2>2
  <2>3. CASE u \in n /\ v \in tasks \ {t}
    BY <2>1, <2>3 DEF HubInv, TasksDiffer
  <2>4. CASE u \in tasks \ {t} /\ v \in n
    BY <2>1, <2>4 DEF HubInv, TasksDiffer
  <2>5. CASE u \in tasks \ {t} /\ v \in tasks \ {t}
    BY <2>5 DEF HubInv, TasksDiffer
  <2> QED
    BY <2>2, <2>3, <2>4, <2>5
<1>3. Registered' = Registered
    BY DEF Registered
<1>4. ASSUME NEW s \in Streams
      PROVE  /\ ComingTo(s)' \subseteq ComingTo(s)
             /\ \A e \in ComingTo(s) :
                   \/ e \in ComingTo(s)'
                   \/ e \in Coming(t, s) /\ \A u \in n : e \notin Coming(u, s)
  <2>1. ComingTo(s)' = UNION {Coming(u, s) : u \in tasks'}
    BY ComingStays DEF ComingTo
  <2>2. \A u \in n : Coming(u, s) \subseteq Coming(t, s)
    OBVIOUS
  <2> QED
    BY <2>1, <2>2 DEF ComingTo
<1> QED
    BY <1>1, <1>2, <1>3, <1>4

\* A goroutine copies the clients of its call.
LEMMA BroadcastStep ==
    ASSUME HubInv, NEW t, BroadcastToCells(t)
    PROVE  HubInv'
<1> DEFINE to == {s \in Registered : Subscribed(s, t.plan[t.call].cells)}
           v == [t EXCEPT !.to = to]
           n == IF to # {} THEN {v} ELSE NextCall(t)
<1>1. /\ t \in tasks /\ t.to = {} /\ tasks' = (tasks \ {t}) \cup n /\ changes' = changes
      /\ stream' = stream /\ due' = due /\ told' = told /\ missed' = missed /\ scene' = scene
    BY DEF BroadcastToCells, HubRests, orderVars, ghosts, Works
<1>2. t \in Task /\ t.call \in DOMAIN t.plan
    BY <1>1 DEF HubInv, TasksOK
<1>3. /\ v \in Task /\ v.call = t.call /\ v.plan = t.plan /\ Alike(t, v) /\ v.to = to
      /\ \A s \in to : stream[s].at = "on" /\ Subscribed(s, t.plan[t.call].cells)
    BY <1>2 DEF Task, Alike, Registered
<1> HIDE DEF v, to
<1>4. \A s : Coming(v, s) \subseteq Coming(t, s)
  <2> SUFFICES ASSUME NEW s, NEW e \in Coming(v, s)
               PROVE  e \in Coming(t, s)
    OBVIOUS
  <2>1. /\ e.call \in DOMAIN t.plan /\ e.call >= t.call
        /\ e = EventOf([v EXCEPT !.call = e.call])
        /\ Subscribed(s, t.plan[e.call].cells)
    BY <1>2, <1>3, ComingTyped
  <2>2. e = EventOf([t EXCEPT !.call = e.call])
    BY <1>2, <1>3, <2>1, AlikeEvents
  <2>3. e.call \in 1 .. 4 /\ t.call \in 1 .. 4
    BY <1>2, <2>1, PlanTyped DEF Task
  <2>4. t.call <= e.call
    BY <2>1, <2>3
  <2>5. EventOf([t EXCEPT !.call = e.call]) \in Coming(t, s)
    BY <1>1, <1>2, <2>1, <2>4, ComingHas
  <2> QED
    BY <2>2, <2>5
<1>5. /\ n = {} \/ \E u : n = {u}
      /\ \A u \in n :
           /\ u \in Task /\ u.call \in DOMAIN u.plan /\ Alike(t, u)
           /\ \A s \in u.to : stream[s].at \in {"on", "gone"}
                            /\ Subscribed(s, u.plan[u.call].cells)
           /\ \A s : Coming(u, s) \subseteq Coming(t, s)
    BY <1>2, <1>3, <1>4, NextCallOK
<1>6. ASSUME NEW s \in Registered, NEW e \in Coming(t, s)
      PROVE  \E u \in n : e \in Coming(u, s)
  <2>1. /\ e.call \in DOMAIN t.plan /\ e.call >= t.call
        /\ e = EventOf([t EXCEPT !.call = e.call])
        /\ Subscribed(s, t.plan[e.call].cells)
    BY <1>1, <1>2, <1>6, ComingTyped
  <2>2. e.call = t.call => s \in to
    BY <2>1 DEF to
  <2>3. CASE to # {}
    <3>1. e = EventOf([v EXCEPT !.call = e.call])
      BY <1>2, <1>3, <2>1, AlikeEvents
    <3>2. e.call \in 1 .. 4 /\ t.call \in 1 .. 4
      BY <1>2, <2>1, PlanTyped DEF Task
    <3>3. v.call <= e.call
      BY <1>3, <2>1, <3>2
    <3>4. EventOf([v EXCEPT !.call = e.call]) \in Coming(v, s)
      BY <1>2, <1>3, <2>1, <2>2, <3>3, ComingHas
    <3> QED
      BY <2>3, <3>1, <3>4
  <2>4. CASE to = {}
    <3>1. stream[s].cells \subseteq Reachable
      BY DEF HubInv, StreamsOK, Registered
    <3>2. n = NextCall(t) /\ e.call # t.call
      BY <2>2, <2>4
    <3> QED
      BY <1>2, <1>6, <3>1, <3>2, NextCallOK
  <2> QED
    BY <2>3, <2>4
<1> HIDE DEF n
<1>7. /\ TasksOK' /\ TasksDiffer' /\ Registered' = Registered
      /\ \A s \in Streams :
           /\ ComingTo(s)' \subseteq ComingTo(s)
           /\ \A e \in ComingTo(s) :
                 \/ e \in ComingTo(s)'
                 \/ e \in Coming(t, s) /\ \A u \in n : e \notin Coming(u, s)
    BY <1>1, <1>5, TaskMoves
<1>8. Registered \subseteq Streams /\ Reachable' = Reachable
    BY <1>1 DEF Registered, Reachable
<1>9. StreamsOK' /\ GhostsOK'
    BY <1>1, <1>7, <1>8 DEF HubInv, StreamsOK, GhostsOK
<1>10. NothingLost' /\ OneOfAKind'
    BY <1>1, <1>6, <1>7, <1>8 DEF HubInv, NothingLost, OneOfAKind, Same
<1> QED
    BY <1>7, <1>9, <1>10 DEF HubInv

\* A goroutine hands its event to one client.
LEMMA SendStep ==
    ASSUME HubInv, NEW t, NEW s, Send(t, s)
    PROVE  HubInv'
<1> DEFINE rest == [t EXCEPT !.to = @ \ {s}]
           n == IF rest.to # {} THEN {rest} ELSE NextCall(t)
           e0 == EventOf(t)
<1>1. /\ t \in tasks /\ s \in t.to /\ tasks' = (tasks \ {t}) \cup n /\ changes' = changes
      /\ due' = due /\ scene' = scene
    BY DEF Send, HubRests, orderVars, Works
<1>2. /\ t \in Task /\ t.call \in DOMAIN t.plan /\ t.change <= changes[t.order] /\ s \in Streams
      /\ \A x \in t.to : stream[x].at \in {"on", "gone"} /\ Subscribed(x, t.plan[t.call].cells)
    BY <1>1 DEF HubInv, TasksOK, Task
<1>3. /\ rest \in Task /\ rest.call = t.call /\ rest.plan = t.plan /\ Alike(t, rest)
      /\ rest.to = t.to \ {s}
    BY <1>2 DEF Task, Alike
<1>4. e0 = EventOf([t EXCEPT !.call = t.call])
    BY <1>2 DEF Task
<1>5. e0 \in Coming(t, s)
    BY <1>1, <1>2, <1>4, ComingHas DEF Task
<1>6. e0 \in Event /\ e0.order = t.order /\ e0.change = t.change
    BY <1>2, <1>5, ComingTyped
<1> HIDE DEF rest, e0
<1>7. \/ stream[s].at # "on" /\ UNCHANGED <<stream, told, missed>>
      \/ /\ stream[s].at = "on" /\ Len(stream[s].buffer) < BufferSize
         /\ stream' = [stream EXCEPT ![s].buffer = Append(@, e0)]
         /\ told' = [told EXCEPT ![s] = @ \cup {e0}] /\ missed' = missed
      \/ /\ stream[s].at = "on" /\ stream' = stream /\ told' = told
         /\ missed' = [missed EXCEPT ![s] = @ \cup {e0}]
    BY DEF Send, HasRoom, e0
<1>8. /\ stream' \in [Streams -> Stream]
      /\ \A x \in Streams : /\ stream'[x].at = stream[x].at /\ stream'[x].cells = stream[x].cells
                            /\ Len(stream'[x].buffer) <= BufferSize
  <2>1. stream \in [Streams -> Stream] /\ \A x \in Streams : Len(stream[x].buffer) <= BufferSize
    BY DEF HubInv, StreamsOK
  <2>2. CASE stream' = stream
    BY <2>1, <2>2
  <2>3. CASE /\ stream[s].at = "on" /\ Len(stream[s].buffer) < BufferSize
             /\ stream' = [stream EXCEPT ![s].buffer = Append(@, e0)]
    <3> DEFINE b == stream[s].buffer
    <3>1. b \in Seq(Event)
      BY <1>2, <2>1 DEF Stream
    <3>2. Append(b, e0) \in Seq(Event) /\ Len(Append(b, e0)) = Len(b) + 1 /\ Len(b) \in Nat
      BY <1>6, <3>1
    <3>3. [stream[s] EXCEPT !.buffer = Append(b, e0)] \in Stream
      BY <1>2, <2>1, <3>2 DEF Stream
    <3>4. stream' = [stream EXCEPT ![s] = [stream[s] EXCEPT !.buffer = Append(b, e0)]]
      BY <2>3
    <3>5. Len(Append(b, e0)) <= BufferSize
      BY <2>3, <3>2, StreamsAssumption
    <3>6. /\ stream'[s].at = stream[s].at /\ stream'[s].cells = stream[s].cells
          /\ stream'[s].buffer = Append(b, e0)
      BY <1>2, <2>1, <3>4 DEF Stream
    <3> QED
      BY <1>2, <2>1, <3>3, <3>4, <3>5, <3>6
  <2> QED
    BY <1>7, <2>2, <2>3
<1>9. /\ told' \in [Streams -> SUBSET Event] /\ missed' \in [Streams -> SUBSET Event]
      /\ \A x \in Streams : /\ x # s => told'[x] = told[x] /\ missed'[x] = missed[x]
                            /\ told[x] \subseteq told'[x] /\ missed[x] \subseteq missed'[x]
                            /\ told'[x] \cup missed'[x] \subseteq told[x] \cup missed[x] \cup {e0}
                            /\ x \notin Registered => told'[x] = told[x] /\ missed'[x] = missed[x]
      /\ s \in Registered => e0 \in told'[s] \cup missed'[s]
    BY <1>2, <1>6, <1>7 DEF HubInv, GhostsOK, Registered
<1>10. \A x : Coming(rest, x) \subseteq Coming(t, x) \/ rest.to = {}
  <2> SUFFICES ASSUME NEW x, rest.to # {}, NEW e \in Coming(rest, x)
               PROVE  e \in Coming(t, x)
    OBVIOUS
  <2>1. /\ e.call \in DOMAIN t.plan /\ e.call >= t.call
        /\ e = EventOf([rest EXCEPT !.call = e.call])
        /\ IF e.call = t.call THEN x \in t.to ELSE Subscribed(x, t.plan[e.call].cells)
    BY <1>2, <1>3, ComingTyped
  <2>2. e = EventOf([t EXCEPT !.call = e.call])
    BY <1>2, <1>3, <2>1, AlikeEvents
  <2>3. e.call \in 1 .. 4 /\ t.call \in 1 .. 4
    BY <1>2, <2>1, PlanTyped DEF Task
  <2>4. t.call <= e.call
    BY <2>1, <2>3
  <2>5. EventOf([t EXCEPT !.call = e.call]) \in Coming(t, x)
    BY <1>1, <1>2, <2>1, <2>4, ComingHas
  <2> QED
    BY <2>2, <2>5
<1>11. /\ n = {} \/ \E u : n = {u}
       /\ \A u \in n :
           /\ u \in Task /\ u.call \in DOMAIN u.plan /\ Alike(t, u)
           /\ \A x \in u.to : stream[x].at \in {"on", "gone"}
                            /\ Subscribed(x, u.plan[u.call].cells)
           /\ \A x : Coming(u, x) \subseteq Coming(t, x)
    BY <1>2, <1>3, <1>10, NextCallOK
<1>12. ASSUME NEW x \in Registered, NEW e \in Coming(t, x), x # s \/ e # e0
       PROVE  \E u \in n : e \in Coming(u, x)
  <2>1. /\ e.call \in DOMAIN t.plan /\ e.call >= t.call
        /\ e = EventOf([t EXCEPT !.call = e.call])
        /\ IF e.call = t.call THEN x \in t.to ELSE Subscribed(x, t.plan[e.call].cells)
    BY <1>1, <1>2, <1>12, ComingTyped
  <2>2. e.call = t.call => x \in rest.to
    BY <1>3, <1>4, <1>12, <2>1
  <2>3. CASE rest.to # {}
    <3>1. e = EventOf([rest EXCEPT !.call = e.call])
      BY <1>2, <1>3, <2>1, AlikeEvents
    <3>2. e.call \in 1 .. 4 /\ t.call \in 1 .. 4
      BY <1>2, <2>1, PlanTyped DEF Task
    <3>3. rest.call <= e.call
      BY <1>3, <2>1, <3>2
    <3>4. EventOf([rest EXCEPT !.call = e.call]) \in Coming(rest, x)
      BY <1>2, <1>3, <2>1, <2>2, <2>3, <3>3, ComingHas
    <3> QED
      BY <2>3, <3>1, <3>4
  <2>4. CASE rest.to = {}
    <3>1. stream[x].cells \subseteq Reachable
      BY DEF HubInv, StreamsOK, Registered
    <3>2. n = NextCall(t) /\ e.call # t.call
      BY <2>2, <2>4
    <3> QED
      BY <1>2, <1>12, <3>1, <3>2, NextCallOK
  <2> QED
    BY <2>3, <2>4
<1> HIDE DEF n
<1>13. /\ TasksOK' /\ TasksDiffer' /\ Registered' = Registered
       /\ \A x \in Streams :
            /\ ComingTo(x)' \subseteq ComingTo(x)
            /\ \A e \in ComingTo(x) :
                  \/ e \in ComingTo(x)'
                  \/ e \in Coming(t, x) /\ \A u \in n : e \notin Coming(u, x)
    BY <1>1, <1>8, <1>11, TaskMoves
<1>14. Registered \subseteq Streams /\ Reachable' = Reachable
    BY <1>1 DEF Registered, Reachable
<1>15. StreamsOK'
    BY <1>1, <1>8, <1>9, <1>14 DEF HubInv, StreamsOK, Registered
<1>16. GhostsOK'
    BY <1>1, <1>2, <1>6, <1>9, <1>13, <1>14 DEF HubInv, GhostsOK
<1>17. NothingLost'
  <2> SUFFICES ASSUME NEW x \in Registered, NEW e \in due[x]
               PROVE  e \in told'[x] \cup missed'[x] \cup ComingTo(x)'
    BY <1>1, <1>13 DEF NothingLost
  <2>1. e \in told[x] \cup missed[x] \cup ComingTo(x)
    BY DEF HubInv, NothingLost
  <2>2. CASE e \in told[x] \cup missed[x]
    BY <1>9, <1>14, <2>2
  <2>3. CASE e \in ComingTo(x) /\ x = s /\ e = e0
    BY <1>9, <2>3
  <2>4. CASE e \in ComingTo(x) /\ (x # s \/ e # e0)
    BY <1>12, <1>13, <1>14, <2>4
  <2> QED
    BY <2>1, <2>2, <2>3, <2>4
<1>18. e0 \in ComingTo(s)
    BY <1>1, <1>5 DEF ComingTo
<1>19. \A x \in Registered : told'[x] \cup missed'[x] \cup ComingTo(x)'
                                \subseteq told[x] \cup missed[x] \cup ComingTo(x)
  <2> SUFFICES ASSUME NEW x \in Registered, NEW e \in told'[x] \cup missed'[x] \cup ComingTo(x)'
               PROVE  e \in told[x] \cup missed[x] \cup ComingTo(x)
    OBVIOUS
  <2>1. CASE e \in ComingTo(x)'
    BY <1>13, <1>14, <2>1
  <2>2. CASE e \in told'[x] \cup missed'[x] /\ x # s
    BY <1>9, <1>14, <2>2
  <2>3. CASE e \in told'[x] \cup missed'[x] /\ x = s
    BY <1>9, <1>14, <1>18, <2>3
  <2> QED
    BY <2>1, <2>2, <2>3
<1>20. OneOfAKind'
    BY <1>13, <1>19 DEF HubInv, OneOfAKind, Same
<1> QED
    BY <1>13, <1>15, <1>16, <1>17, <1>20 DEF HubInv

-----------------------------------------------------------------------------
(* Steps that announce a change, and restarts.                             *)

\* A handler sends off goroutines for a change nobody has told of.
LEMMA SaysStep ==
    ASSUME HubInv, changes \in [Orders -> Nat], NEW o \in Orders, NEW plans,
           DOMAIN plans \subseteq 1 .. 3, \A i \in DOMAIN plans : plans[i] \in Plans,
           Says(o, plans), UNCHANGED <<stream, told, missed>>, scene'.opened = scene.opened
    PROVE  HubInv'
<1> DEFINE task(i) == [order |-> o, change |-> changes[o] + 1, by |-> i,
                       call |-> Min(Heard(plans[i])), plan |-> plans[i], to |-> {}]
           I == {i \in DOMAIN plans : Heard(plans[i]) # {}}
           new == {task(i) : i \in I}
<1>1. /\ changes' = [changes EXCEPT ![o] = @ + 1] /\ tasks' = tasks \cup new
      /\ due' = [s \in Streams |-> IF s \in Registered
                     THEN due[s] \cup UNION {Coming(t, s) : t \in new} ELSE due[s]]
      /\ stream' = stream /\ told' = told /\ missed' = missed
    BY DEF Says
<1>2. \A i \in I : /\ task(i) \in Task /\ task(i).call \in DOMAIN task(i).plan
                   /\ task(i).order = o /\ task(i).change = changes[o] + 1 /\ task(i).by = i
                   /\ task(i).to = {}
  <2> SUFFICES ASSUME NEW i \in I
               PROVE  /\ task(i) \in Task /\ task(i).call \in DOMAIN task(i).plan
                      /\ task(i).order = o /\ task(i).change = changes[o] + 1 /\ task(i).by = i
                      /\ task(i).to = {}
    OBVIOUS
  <2>1. plans[i] \in Plans /\ DOMAIN plans[i] \subseteq 1 .. 4 /\ i \in 1 .. 3
    BY PlanTyped
  <2>2. Heard(plans[i]) \in SUBSET (1 .. 4) /\ Heard(plans[i]) # {}
        /\ Heard(plans[i]) \subseteq DOMAIN plans[i]
    BY <2>1 DEF Heard
  <2>3. Min(Heard(plans[i])) \in DOMAIN plans[i] /\ Min(Heard(plans[i])) \in 1 .. 4
    BY <2>2, FirstCall
  <2> QED
    BY <2>1, <2>3 DEF Task
<1> HIDE DEF task, I
<1>3. \A t \in new : /\ t \in Task /\ t.call \in DOMAIN t.plan /\ t.order = o
                     /\ t.change = changes[o] + 1 /\ t.to = {}
    BY <1>2
<1>4. \A t, u \in new : t.by = u.by => t = u
    BY <1>2
<1> HIDE DEF new
<1>5. /\ changes[o] \in Nat /\ changes'[o] = changes[o] + 1
      /\ \A x \in Orders : changes'[x] \in Nat /\ changes[x] \in Nat /\ changes[x] <= changes'[x]
    BY <1>1
<1>6. TasksOK'
  <2> SUFFICES ASSUME NEW t \in tasks'
               PROVE  /\ t \in Task /\ t.call \in DOMAIN t.plan /\ t.change <= changes'[t.order]
                      /\ \A s \in t.to : /\ stream[s].at \in {"on", "gone"}
                                         /\ Subscribed(s, t.plan[t.call].cells)
    BY <1>1 DEF TasksOK, Subscribed
  <2>1. CASE t \in tasks
    <3>1. /\ t \in Task /\ t.call \in DOMAIN t.plan /\ t.change <= changes[t.order]
          /\ \A s \in t.to : /\ stream[s].at \in {"on", "gone"}
                             /\ Subscribed(s, t.plan[t.call].cells)
      BY <2>1 DEF HubInv, TasksOK
    <3>2. t.order \in Orders /\ t.change \in Nat
      BY <3>1 DEF Task
    <3>3. t.change <= changes'[t.order]
      BY <1>5, <3>1, <3>2
    <3> QED
      BY <3>1, <3>3
  <2>2. CASE t \in new
    BY <1>3, <1>5, <2>2
  <2> QED
    BY <1>1, <2>1, <2>2
<1>7. \A t \in tasks, u \in new : t.order = o => t.change # u.change
  <2> SUFFICES ASSUME NEW t \in tasks, NEW u \in new, t.order = o
               PROVE  t.change # u.change
    OBVIOUS
  <2>1. t.change \in Nat /\ t.change <= changes[o]
    BY DEF HubInv, TasksOK, Task
  <2> QED
    BY <1>3, <1>5, <2>1
<1>8. TasksDiffer'
  <2> SUFFICES ASSUME NEW t \in tasks', NEW u \in tasks',
                      t.order = u.order, t.change = u.change, t.by = u.by
               PROVE  t = u
    BY DEF TasksDiffer
  <2>1. CASE t \in tasks /\ u \in tasks
    BY <2>1 DEF HubInv, TasksDiffer
  <2>2. CASE t \in new /\ u \in new
    BY <1>4, <2>2
  <2>3. CASE t \in tasks /\ u \in new
    BY <1>3, <1>7, <2>3
  <2>4. CASE t \in new /\ u \in tasks
    BY <1>3, <1>7, <2>4
  <2> QED
    BY <1>1, <2>1, <2>2, <2>3, <2>4
<1>9. /\ Registered' = Registered /\ Reachable' = Reachable /\ Registered \subseteq Streams
    BY <1>1, ReachableStays DEF Registered
<1>10. \A s \in Streams : ComingTo(s)' = UNION {Coming(t, s) : t \in tasks'}
    BY <1>1, ComingStays DEF ComingTo
<1>11. \A s \in Streams : ComingTo(s)' = ComingTo(s) \cup UNION {Coming(t, s) : t \in new}
    BY <1>1, <1>10 DEF ComingTo
<1>12. \A s : \A e \in UNION {Coming(t, s) : t \in new} :
                 e \in Event /\ e.order = o /\ e.change = changes[o] + 1
  <2> SUFFICES ASSUME NEW s, NEW t \in new, NEW e \in Coming(t, s)
               PROVE  e \in Event /\ e.order = o /\ e.change = changes[o] + 1
    OBVIOUS
  <2>1. t \in Task /\ t.call \in DOMAIN t.plan /\ t.order = o /\ t.change = changes[o] + 1
    BY <1>3
  <2> QED
    BY <2>1, ComingTyped
<1>13. StreamsOK'
    BY <1>1, <1>9 DEF HubInv, StreamsOK, Registered
<1>14. GhostsOK'
  <2>1. due' \in [Streams -> SUBSET Event]
    BY <1>1, <1>12 DEF HubInv, GhostsOK
  <2>2. ASSUME NEW s \in Registered, NEW e \in told[s] \cup missed[s]
        PROVE  e.change <= changes'[e.order]
    <3>1. e \in Event /\ e.change <= changes[e.order]
      BY <1>9, <2>2 DEF HubInv, GhostsOK
    <3>2. e.order \in Orders /\ e.change \in Nat
      BY <3>1 DEF Event
    <3> QED
      BY <1>5, <3>1, <3>2
  <2> QED
    BY <1>1, <1>9, <2>1, <2>2 DEF HubInv, GhostsOK
<1>15. NothingLost'
    BY <1>1, <1>9, <1>11 DEF HubInv, NothingLost
<1>16. OneOfAKind'
  <2> SUFFICES ASSUME NEW s \in Registered, s \notin MerchantStreams,
                      NEW e \in told[s] \cup missed[s] \cup ComingTo(s)',
                      NEW f \in told[s] \cup missed[s] \cup ComingTo(s)', Same(e, f)
               PROVE  e = f
    BY <1>1, <1>9 DEF OneOfAKind, Same
  <2>1. s \in Streams /\ stream[s].cells \in OwnCells
    BY <1>9 DEF HubInv, StreamsOK
  <2>2. CASE e \in ComingTo(s)' /\ f \in ComingTo(s)'
    <3>1. \A t \in tasks' : /\ t \in Task /\ t.call \in DOMAIN t.plan
                            /\ s \in t.to => Subscribed(s, t.plan[t.call].cells)
      BY <1>1, <1>6 DEF TasksOK, Subscribed
    <3>2. /\ e \in UNION {Coming(t, s) : t \in tasks'} /\ f \in UNION {Coming(t, s) : t \in tasks'}
      BY <1>10, <2>1, <2>2
    <3>3. \A t, u \in tasks' : t.order = u.order /\ t.change = u.change /\ t.by = u.by => t = u
      BY <1>8 DEF TasksDiffer
    <3> DEFINE T == tasks'
    <3> HIDE DEF T
    <3>4. /\ \A t \in T : /\ t \in Task /\ t.call \in DOMAIN t.plan
                          /\ s \in t.to => Subscribed(s, t.plan[t.call].cells)
          /\ \A t, u \in T : t.order = u.order /\ t.change = u.change /\ t.by = u.by => t = u
          /\ e \in UNION {Coming(t, s) : t \in T} /\ f \in UNION {Coming(t, s) : t \in T}
      BY <3>1, <3>2, <3>3 DEF T
    <3> QED
      BY <2>1, <3>4, ComingSole
  <2>3. \A x \in told[s] \cup missed[s] : x.change \in Nat /\ x.change <= changes[x.order]
    BY <2>1 DEF HubInv, GhostsOK, Event
  <2>4. CASE e \in told[s] \cup missed[s] \cup ComingTo(s) /\ f \in told[s] \cup missed[s] \cup ComingTo(s)
    BY <2>4 DEF HubInv, OneOfAKind
  <2>5. CASE e \in told[s] \cup missed[s] /\ f \in UNION {Coming(t, s) : t \in new}
    BY <1>5, <1>12, <2>3, <2>5 DEF Same
  <2>6. CASE f \in told[s] \cup missed[s] /\ e \in UNION {Coming(t, s) : t \in new}
    BY <1>5, <1>12, <2>3, <2>6 DEF Same
  <2> QED
    BY <1>11, <2>1, <2>2, <2>4, <2>5, <2>6
<1> QED
    BY <1>6, <1>8, <1>13, <1>14, <1>15, <1>16 DEF HubInv

\* A stream that ends.
LEMMA GoneOK ==
    ASSUME NEW r \in Stream
    PROVE  Gone(r) \in Stream /\ Gone(r).at = "gone" /\ Gone(r).buffer = <<>> /\ Gone(r).cells = r.cells
<1>1. <<>> \in Seq(Event)
    OBVIOUS
<1>2. [r EXCEPT !.at = "gone"] \in Stream
    BY DEF Stream
<1>3. /\ Gone(r) \in Stream /\ Gone(r).at = [r EXCEPT !.at = "gone"].at /\ Gone(r).buffer = <<>>
      /\ Gone(r).cells = [r EXCEPT !.at = "gone"].cells
  <2> DEFINE g == [r EXCEPT !.at = "gone"]
  <2>1. Gone(r) = [g EXCEPT !.buffer = <<>>]
    BY DEF Gone
  <2> HIDE DEF g
  <2> QED
    BY <1>1, <1>2, <2>1 DEF Stream, g
<1> QED
    BY <1>3 DEF Stream

\* A restart ends every stream and every goroutine.
LEMMA RestartStep ==
    ASSUME HubInv, Restart
    PROVE  HubInv'
<1>1. /\ tasks' = {} /\ changes' = changes /\ due' = due /\ told' = told /\ missed' = missed
      /\ stream' = [s \in Streams |-> IF stream[s].at \in {"asked", "on"}
                                     THEN Gone(stream[s]) ELSE stream[s]]
    BY DEF Restart, ghosts
<1>2. stream \in [Streams -> Stream]
    BY DEF HubInv, StreamsOK
<1>3. \A s \in Streams : \/ stream'[s] = stream[s] /\ stream[s].at \notin {"asked", "on"}
                       \/ /\ stream'[s] \in Stream /\ stream'[s].at = "gone"
                          /\ stream'[s].buffer = <<>> /\ stream'[s].cells = stream[s].cells
    BY <1>1, <1>2, GoneOK
<1>4. Registered' = {}
    BY <1>3 DEF Registered
<1>5. TasksOK' /\ TasksDiffer'
    BY <1>1 DEF TasksOK, TasksDiffer
<1>6. StreamsOK'
  <2>1. stream' \in [Streams -> Stream]
    BY <1>1, <1>2, <1>3
  <2>2. \A s \in Streams : Len(stream'[s].buffer) <= BufferSize
    BY <1>3, StreamsAssumption DEF HubInv, StreamsOK
  <2> QED
    BY <1>1, <1>3, <2>1, <2>2 DEF HubInv, StreamsOK
<1>7. GhostsOK' /\ NothingLost' /\ OneOfAKind'
    BY <1>1, <1>4 DEF HubInv, GhostsOK, NothingLost, OneOfAKind
<1> QED
    BY <1>5, <1>6, <1>7 DEF HubInv

-----------------------------------------------------------------------------
(* The actions.                                                            *)

\* The bounds of a scene are used up.
LEMMA BoundsStep ==
    ASSUME scene \in Bounds, Works \/ \E class \in Classes : Takes(class)
    PROVE  scene' \in Bounds /\ scene'.opened = scene.opened
<1>1. CASE Works
    BY <1>1 DEF Works
<1>2. ASSUME NEW class \in Classes, Takes(class)
      PROVE  scene' \in Bounds /\ scene'.opened = scene.opened
  <2>1. scene.left \in [Classes -> Nat] /\ scene.left[class] > 0
    BY <1>2 DEF Takes, Bounds
  <2>2. [scene.left EXCEPT ![class] = @ - 1] \in [Classes -> Nat]
    BY <2>1
  <2>3. scene' = [scene EXCEPT !.left = [scene.left EXCEPT ![class] = @ - 1]]
    BY <1>2 DEF Takes
  <2> QED
    BY <2>2, <2>3 DEF Bounds
<1> QED
    BY <1>1, <1>2

\* Steps of the index.
LEMMA IndexStep ==
    ASSUME StreamsInvariant, (\E c \in geo : GeoStep(c)) \/ SyncRedisGeoOrderPool
    PROVE  StreamsInvariant'
<1>1. /\ UNCHANGED <<row, request, changes, stream, tasks, ghosts>>
      /\ Works \/ Fails
      /\ "fault" \in Classes
    BY DEF GeoStep, SyncRedisGeoOrderPool, SweepOrders, SweepIndex, SweepEnds, SweepDrop, SweepAdd,
           IndexRests, orderVars, Classes
<1>2. scene' \in Bounds /\ scene'.opened = scene.opened
    BY <1>1, BoundsStep DEF StreamsInvariant, RestOK, Fails
<1>3. HubInv'
    BY <1>1, <1>2, QuietStep DEF StreamsInvariant
<1>4. pool' \subseteq Orders /\ (\A c \in geo' : c.order \in Orders /\ c.call \in Calls /\ c.change \in Nat)
      /\ sweep' \in [at : {"rest", "list", "set"}, live : SUBSET Orders, drop : SUBSET Orders]
  <2> USE DEF StreamsInvariant, RestOK
  <2>1. CASE \E c \in geo : GeoStep(c)
    BY <2>1 DEF GeoStep, GeoAddOrder, GeoRemoveOrder
  <2>2. CASE SweepOrders
    <3>1. {o \in Orders : Live(row[o])} \in SUBSET Orders
      OBVIOUS
    <3> QED
      BY <2>2, <3>1 DEF SweepOrders
  <2>4. CASE SweepIndex
    <3>1. pool \ sweep.live \in SUBSET Orders
      OBVIOUS
    <3>2. pool' = pool /\ geo' = geo
      BY <2>4 DEF SweepIndex
    <3>3. \/ sweep' = [sweep EXCEPT !.at = "set", !.drop = pool \ sweep.live]
          \/ sweep' = [at |-> "rest", live |-> {}, drop |-> {}]
      BY <2>4 DEF SweepIndex
    <3>4. CASE sweep' = [sweep EXCEPT !.at = "set", !.drop = pool \ sweep.live]
      <4> DEFINE half == [sweep EXCEPT !.at = "set"]
      <4>1. half \in [at : {"rest", "list", "set"}, live : SUBSET Orders, drop : SUBSET Orders]
        OBVIOUS
      <4>2. sweep' = [half EXCEPT !.drop = pool \ sweep.live]
        BY <3>4
      <4> HIDE DEF half
      <4>3. sweep' \in [at : {"rest", "list", "set"}, live : SUBSET Orders, drop : SUBSET Orders]
        BY <3>1, <4>1, <4>2
      <4> QED
        BY <3>2, <4>3
    <3>5. CASE sweep' = [at |-> "rest", live |-> {}, drop |-> {}]
      BY <3>2, <3>5
    <3> QED
      BY <3>3, <3>4, <3>5
  <2>5. CASE SweepEnds
    BY <2>5 DEF SweepEnds
  <2>3. CASE \E o \in Orders : SweepDrop(o) \/ SweepAdd(o)
    BY <2>3 DEF SweepDrop, SweepAdd, Drop, GeoRemoveOrder, GeoAddOrder
  <2> QED
    BY <2>1, <2>2, <2>3, <2>4, <2>5 DEF SyncRedisGeoOrderPool
<1> QED
    BY <1>1, <1>2, <1>3, <1>4 DEF StreamsInvariant, RestOK

\* Steps of a goroutine.
LEMMA HubStep ==
    ASSUME StreamsInvariant, TaskStep
    PROVE  StreamsInvariant'
<1>1. HubInv'
    BY BroadcastStep, SendStep DEF TaskStep, StreamsInvariant
<1>2. UNCHANGED <<orderVars, indexVars, scene>>
    BY DEF TaskStep, BroadcastToCells, Send, HubRests, Works
<1> QED
    BY <1>1, <1>2 DEF StreamsInvariant, RestOK, orderVars, indexVars

\* What an operation announces, if anything.
Announced(o) == SaysNothing \/ \E plans \in Seq(Plans) : Len(plans) <= 3 /\ Says(o, plans)

\* Plans of the operations.
LEMMA PlanKinds ==
    ASSUME NEW o \in Orders, NEW type \in Types
    PROVE  /\ BroadcastOrderCreated(o) \in Plans /\ BroadcastOrderClaimed(o) \in Plans
           /\ BroadcastOrderCancelled(o) \in Plans /\ BroadcastOrderStatus(o, type) \in Plans
           /\ BroadcastMerchant(type) \in Plans
    BY DEF Plans
LEMMA AnnouncedOf ==
    ASSUME NEW o \in Orders, NEW type \in Types, NEW u \in Seq(Plans), Len(u) <= 2,
           Says(o, u) \/ Says(o, u \o BroadcastMerchantEvent(o, type))
    PROVE  Announced(o)
<1> DEFINE v == BroadcastMerchantEvent(o, type)
<1>1. v \in Seq(Plans) /\ Len(v) <= 1 /\ Len(v) \in Nat /\ Len(u) \in Nat
  <2>1. BroadcastMerchant(type) \in Plans
    BY PlanKinds
  <2> QED
    BY <2>1 DEF BroadcastMerchantEvent
<1> HIDE DEF v
<1>2. u \o v \in Seq(Plans) /\ Len(u \o v) <= 3
  <2>1. u \o v \in Seq(Plans) /\ Len(u \o v) = Len(u) + Len(v)
    BY <1>1, ConcatProperties
  <2> QED
    BY <1>1, <2>1
<1>3. CASE Says(o, u)
    BY <1>3 DEF Announced
<1>4. CASE Says(o, u \o v)
    BY <1>2, <1>4 DEF Announced
<1> QED
    BY <1>3, <1>4 DEF v

\* The step of an operation on an order.
OrderMoves(o) ==
    /\ Announced(o) /\ UNCHANGED <<pool, sweep, stream, told, missed>>
    /\ Works \/ Takes("act")
    /\ row' \in [Orders -> Row] /\ request' \in [Requests -> Request \cup {Idle}]
    /\ geo' = geo \/ \E call \in Calls : Then(o, call)

\* What reads and writes come to.
LEMMA ReadMoves ==
    ASSUME RestOK, NEW q \in Requests, NEW o \in Orders,
           NEW op \in {"merchant_accept", "accept", "receipt", "ready", "pickup", "reassign"},
           Reads(q, op, o)
    PROVE  OrderMoves(o)
<1>1. [op |-> op, order |-> o, row |-> row[o]] \in Request
    BY DEF RestOK, Request
<1>2. request' \in [Requests -> Request \cup {Idle}]
    BY <1>1 DEF Reads, RestOK
<1> QED
    BY <1>2 DEF Reads, OrderMoves, Announced, Rests, RestOK

LEMMA WriteRests ==
    ASSUME RestOK, NEW q \in Requests, NEW o \in Orders, NEW op, Writes(q, op, o)
    PROVE  /\ request' \in [Requests -> Request \cup {Idle}] /\ request[q].row \in Row
           /\ UNCHANGED <<pool, sweep, stream, told, missed>> /\ Works
    BY DEF Writes, RestOK, Rests, Request

LEMMA BecomesRow ==
    ASSUME RestOK, NEW o \in Orders, NEW r \in Row, Become(o, r)
    PROVE  row' \in [Orders -> Row]
    BY DEF Become, RestOK

LEMMA StatusRow ==
    ASSUME NEW r \in Row, NEW status \in Statuses
    PROVE  Status(r, status) \in Row
    BY DEF Status, Row

\* The types of events that operations announce.
LEMMA TypesOf ==
    /\ "order_created" \in Types /\ "order_cancelled" \in Types /\ "order_status" \in Types
    /\ "order_requeued" \in Types /\ "reassigned" \in Types /\ "purchased" \in Types
    /\ "completed" \in Types
    BY DEF Types

\* Operations that are one transaction.
LEMMA AtOnceMoves ==
    ASSUME RestOK, NEW o \in Orders,
           \/ Create(o) \/ ProcessPayment(o) \/ CancelOrder(o) \/ CompleteOrder(o)
           \/ ForceCancelOrder(o) \/ ExpireOldOrders(o)
    PROVE  OrderMoves(o)
<1>0. ASSUME AtOnce, Announced(o), row' \in [Orders -> Row],
             geo' = geo \/ \E call \in Calls : Then(o, call)
      PROVE  OrderMoves(o)
    BY <1>0 DEF AtOnce, Rests, OrderMoves, RestOK
<1>c. BroadcastOrderCreated(o) \in Plans /\ BroadcastOrderCancelled(o) \in Plans
      /\ BroadcastOrderStatus(o, "completed") \in Plans /\ Calls = {"add", "remove"}
      /\ row[o] \in Row
    BY PlanKinds, TypesOf DEF RestOK, Calls
<1>1. CASE Create(o)
  <2>1. PICK paid \in BOOLEAN :
           /\ Become(o, [status |-> "pending", taken |-> FALSE, paid |-> paid])
           /\ IF paid THEN /\ Then(o, "add")
                           /\ Says(o, <<BroadcastOrderCreated(o)>>
                                          \o BroadcastMerchantEvent(o, "order_created"))
                      ELSE SaysNothing /\ UNCHANGED geo
    BY <1>1 DEF Create
  <2>2. [status |-> "pending", taken |-> FALSE, paid |-> paid] \in Row
    BY DEF Row, Statuses
  <2>3. <<BroadcastOrderCreated(o)>> \in Seq(Plans) /\ Len(<<BroadcastOrderCreated(o)>>) <= 2
    BY <1>c
  <2>4. Announced(o)
    <3>1. CASE paid
      BY <2>1, <2>3, <3>1, TypesOf, AnnouncedOf
    <3>2. CASE ~paid
      BY <2>1, <3>2 DEF Announced
    <3> QED
      BY <3>1, <3>2
  <2>5. AtOnce /\ row' \in [Orders -> Row]
    BY <1>1, <2>1, <2>2, BecomesRow DEF Create
  <2> QED
    BY <1>0, <1>c, <2>1, <2>4, <2>5
<1>2. CASE ProcessPayment(o)
  <2>1. [row[o] EXCEPT !.paid = TRUE] \in Row
    BY <1>c DEF Row
  <2>2. AtOnce /\ row' \in [Orders -> Row] /\ Then(o, "add")
    BY <1>2, <2>1, BecomesRow DEF ProcessPayment
  <2>3. <<BroadcastOrderCreated(o)>> \in Seq(Plans) /\ Len(<<BroadcastOrderCreated(o)>>) <= 2
    BY <1>c
  <2>4. Announced(o)
    <3>1. SaysNothing \/ Says(o, <<BroadcastOrderCreated(o)>>)
      BY <1>2 DEF ProcessPayment
    <3> QED
      BY <2>3, <3>1, TypesOf, AnnouncedOf DEF Announced
  <2> QED
    BY <1>0, <1>c, <2>2, <2>4
<1>3. CASE CancelOrder(o)
  <2>1. AtOnce /\ row' \in [Orders -> Row] /\ Then(o, "remove")
    BY <1>3, <1>c, BecomesRow, StatusRow DEF CancelOrder, Statuses
  <2>2. <<BroadcastOrderCancelled(o)>> \in Seq(Plans) /\ Len(<<BroadcastOrderCancelled(o)>>) <= 2
    BY <1>c
  <2>3. Announced(o)
    BY <1>3, <2>2, TypesOf, AnnouncedOf DEF CancelOrder
  <2> QED
    BY <1>0, <1>c, <2>1, <2>3
<1>4. CASE CompleteOrder(o)
  <2>1. AtOnce /\ row' \in [Orders -> Row] /\ geo' = geo
    BY <1>4, <1>c, BecomesRow, StatusRow DEF CompleteOrder, Statuses
  <2>2. /\ <<BroadcastOrderStatus(o, "completed")>> \in Seq(Plans)
        /\ Len(<<BroadcastOrderStatus(o, "completed")>>) <= 2
    BY <1>c
  <2>3. Announced(o)
    BY <1>4, <2>2, TypesOf, AnnouncedOf DEF CompleteOrder
  <2> QED
    BY <1>0, <2>1, <2>3
<1>5. CASE ForceCancelOrder(o)
  <2>1. AtOnce /\ row' \in [Orders -> Row] /\ Then(o, "remove") /\ SaysNothing
    BY <1>5, <1>c, BecomesRow, StatusRow DEF ForceCancelOrder, Statuses
  <2> QED
    BY <1>0, <1>c, <2>1 DEF Announced
<1>6. CASE ExpireOldOrders(o)
  <2>1. AtOnce /\ row' \in [Orders -> Row] /\ geo' = geo /\ SaysNothing
    BY <1>6, <1>c, BecomesRow, StatusRow DEF ExpireOldOrders, Statuses
  <2> QED
    BY <1>0, <2>1 DEF Announced
<1> QED
    BY <1>1, <1>2, <1>3, <1>4, <1>5, <1>6

\* Operations that read an order and write it later.
LEMMA RequestMoves ==
    ASSUME RestOK, NEW o \in Orders, NEW q \in Requests,
           \/ MerchantAcceptOrder(q, o) \/ SubmitPurchaseReceipt(q, o)
           \/ MerchantReadyOrder(q, o) \/ PickupOrder(q, o)
    PROVE  OrderMoves(o)
<1>1. ASSUME NEW op, NEW status \in Statuses, NEW u \in Seq(Plans), Len(u) <= 2, Writes(q, op, o),
             Become(o, Status(request[q].row, status)), Says(o, u), geo' = geo
      PROVE  OrderMoves(o)
  <2>1. /\ request' \in [Requests -> Request \cup {Idle}] /\ request[q].row \in Row
        /\ UNCHANGED <<pool, sweep, stream, told, missed>> /\ Works
    BY <1>1, WriteRests
  <2>2. row' \in [Orders -> Row]
    BY <1>1, <2>1, StatusRow, BecomesRow
  <2>3. Announced(o)
    BY <1>1, TypesOf, AnnouncedOf
  <2> QED
    BY <1>1, <2>1, <2>2, <2>3 DEF OrderMoves
<1>2. \A type \in Types : /\ <<BroadcastOrderStatus(o, type)>> \in Seq(Plans)
                          /\ Len(<<BroadcastOrderStatus(o, type)>>) <= 2
    BY PlanKinds
<1>3. /\ <<BroadcastOrderStatus(o, "order_status"), BroadcastOrderCreated(o)>> \in Seq(Plans)
      /\ Len(<<BroadcastOrderStatus(o, "order_status"), BroadcastOrderCreated(o)>>) <= 2
    BY PlanKinds, TypesOf
<1>4. "merchant_accepted" \in Statuses /\ "purchasing" \in Statuses /\ "ready" \in Statuses
      /\ "delivering" \in Statuses
    BY DEF Statuses
<1>5. CASE MerchantAcceptOrder(q, o)
    BY <1>1, <1>3, <1>4, <1>5, ReadMoves DEF MerchantAcceptOrder
<1>6. CASE SubmitPurchaseReceipt(q, o)
    BY <1>1, <1>2, <1>4, <1>6, ReadMoves, TypesOf DEF SubmitPurchaseReceipt
<1>7. CASE MerchantReadyOrder(q, o)
    BY <1>1, <1>2, <1>4, <1>7, ReadMoves, TypesOf DEF MerchantReadyOrder
<1>8. CASE PickupOrder(q, o)
    BY <1>1, <1>2, <1>4, <1>8, ReadMoves, TypesOf DEF PickupOrder
<1> QED
    BY <1>5, <1>6, <1>7, <1>8

\* A runner takes an order.
LEMMA AcceptMoves ==
    ASSUME RestOK, NEW o \in Orders, NEW q \in Requests, AcceptOrder(q, o)
    PROVE  OrderMoves(o)
<1>1. CASE Reads(q, "accept", o)
    BY <1>1, ReadMoves
<1>2. CASE Writes(q, "accept", o)
  <2> DEFINE seen == request[q].row
             u == <<BroadcastOrderClaimed(o), BroadcastOrderStatus(o, "order_status")>>
  <2>1. /\ request' \in [Requests -> Request \cup {Idle}] /\ seen \in Row
        /\ UNCHANGED <<pool, sweep, stream, told, missed>> /\ Works
    BY <1>2, WriteRests
  <2>2. u \in Seq(Plans) /\ Len(u) <= 2
    BY PlanKinds, TypesOf
  <2>3. CASE row[o].status = seen.status
    <3>1. PICK status \in Statuses :
             /\ Become(o, [Status(seen, status) EXCEPT !.taken = TRUE]) /\ Says(o, u)
             /\ Then(o, "remove")
      <4> DEFINE st == CASE seen.status = "pending" -> "accepted"
                         [] seen.status = "merchant_accepted" -> "cooking"
                         [] OTHER -> seen.status
      <4>1. st \in Statuses
        BY <2>1 DEF Row, Statuses
      <4>2. ~Reads(q, "accept", o)
        BY <1>2 DEF Writes, Reads
      <4>3. /\ Become(o, [Status(seen, st) EXCEPT !.taken = TRUE]) /\ Says(o, u)
            /\ Then(o, "remove")
        BY <2>3, <4>2 DEF AcceptOrder
      <4> HIDE DEF st
      <4> QED
        BY <4>1, <4>3
    <3>2. [Status(seen, status) EXCEPT !.taken = TRUE] \in Row
      <4>1. Status(seen, status) \in Row
        BY <2>1, StatusRow
      <4> QED
        BY <4>1 DEF Row
    <3>3. row' \in [Orders -> Row]
      BY <3>1, <3>2, BecomesRow
    <3>4. Announced(o)
      BY <2>2, <3>1, TypesOf, AnnouncedOf
    <3> QED
      BY <2>1, <3>1, <3>3, <3>4 DEF OrderMoves, Calls
  <2>4. CASE row[o].status # seen.status
    <3>1. SaysNothing /\ row' = row /\ geo' = geo
      <4>1. ~(Reads(q, "accept", o))
        BY <1>2 DEF Writes, Reads
      <4> QED
        BY <2>4, <4>1 DEF AcceptOrder
    <3> QED
      BY <2>1, <3>1 DEF OrderMoves, Announced, RestOK
  <2> QED
    BY <2>3, <2>4
<1> QED
    BY <1>1, <1>2 DEF AcceptOrder

\* A runner gives an order up.
LEMMA ReassignMoves ==
    ASSUME RestOK, NEW o \in Orders, NEW q \in Requests, RunnerCancelForReassign(q, o)
    PROVE  OrderMoves(o)
<1> DEFINE u == <<BroadcastOrderCreated(o), BroadcastOrderStatus(o, "reassigned")>>
<1>1. CASE Reads(q, "reassign", o)
    BY <1>1, ReadMoves
<1>2. u \in Seq(Plans) /\ Len(u) <= 2 /\ row[o] \in Row
    BY PlanKinds, TypesOf DEF RestOK
<1>3. CASE Writes(q, "reassign", o)
  <2>1. /\ request' \in [Requests -> Request \cup {Idle}]
        /\ UNCHANGED <<pool, sweep, stream, told, missed>> /\ Works
    BY <1>3, WriteRests
  <2>2. ~Reads(q, "reassign", o)
    BY <1>3 DEF Writes, Reads
  <2>3. \/ /\ Become(o, [row[o] EXCEPT !.taken = FALSE])
           /\ Says(o, u \o BroadcastMerchantEvent(o, "order_requeued")) /\ Then(o, "add")
        \/ Become(o, Status(row[o], "cancelled")) /\ SaysNothing /\ geo' = geo
        \/ SaysNothing /\ row' = row /\ geo' = geo
    BY <2>2 DEF RunnerCancelForReassign
  <2>4. [row[o] EXCEPT !.taken = FALSE] \in Row /\ Status(row[o], "cancelled") \in Row
    BY <1>2 DEF Row, Status, Statuses
  <2> HIDE DEF u
  <2>5. row' \in [Orders -> Row]
    BY <2>3, <2>4, BecomesRow DEF RestOK
  <2>6. Announced(o)
    BY <1>2, <2>3, TypesOf, AnnouncedOf DEF Announced
  <2> QED
    BY <2>1, <2>3, <2>5, <2>6 DEF OrderMoves, Calls
<1> QED
    BY <1>1, <1>3 DEF RunnerCancelForReassign

\* Operations on orders.
LEMMA OrderSteps ==
    ASSUME StreamsInvariant, NEW o \in Orders, OrderStep(o)
    PROVE  StreamsInvariant'
<1>1. OrderMoves(o)
    BY AtOnceMoves, RequestMoves, AcceptMoves, ReassignMoves DEF OrderStep, StreamsInvariant
<1>2. RestOK /\ HubInv /\ changes \in [Orders -> Nat] /\ scene \in Bounds
    BY DEF StreamsInvariant, RestOK
<1>3. scene' \in Bounds /\ scene'.opened = scene.opened
    BY <1>1, <1>2, BoundsStep DEF OrderMoves, Classes
<1>4. changes' \in [Orders -> Nat] /\ HubInv'
  <2>1. CASE SaysNothing
    BY <1>1, <1>2, <1>3, <2>1, QuietStep DEF OrderMoves, SaysNothing, ghosts
  <2>2. ASSUME NEW plans \in Seq(Plans), Len(plans) <= 3, Says(o, plans)
        PROVE  changes' \in [Orders -> Nat] /\ HubInv'
    <3>1. DOMAIN plans \subseteq 1 .. 3 /\ \A i \in DOMAIN plans : plans[i] \in Plans
      BY <2>2
    <3>2. changes' \in [Orders -> Nat]
      BY <1>2, <2>2 DEF Says
    <3> QED
      BY <1>1, <1>2, <1>3, <2>2, <3>1, <3>2, SaysStep DEF OrderMoves
  <2> QED
    BY <1>1, <2>1, <2>2 DEF OrderMoves, Announced
<1>5. \A c \in geo' : c.order \in Orders /\ c.call \in Calls /\ c.change \in Nat
  <2>1. \A c \in geo : c.order \in Orders /\ c.call \in Calls /\ c.change \in Nat
    BY <1>2 DEF RestOK
  <2>2. changes[o] + 1 \in Nat
    BY <1>2
  <2>3. ASSUME NEW call \in Calls, Then(o, call)
        PROVE  \A c \in geo' : c.order \in Orders /\ c.call \in Calls /\ c.change \in Nat
    BY <2>1, <2>2, <2>3 DEF Then
  <2> QED
    BY <1>1, <2>1, <2>3 DEF OrderMoves
<1> QED
    BY <1>1, <1>2, <1>3, <1>4, <1>5 DEF StreamsInvariant, RestOK, OrderMoves

-----------------------------------------------------------------------------
(* Streams.                                                                *)

\* A client asks for a stream.
LEMMA AsksStep ==
    ASSUME StreamsInvariant, NEW s \in Streams, NEW cells \in SUBSET Cells,
           NEW seen \in Statuses \cup {"none"}, Asks(s, cells, seen),
           s \notin MerchantStreams => cells \in OwnCells,
           s \notin TrackStreams => cells \subseteq Reachable
    PROVE  StreamsInvariant'
<1>1. stream[s] \in Stream /\ stream[s].at = "new" /\ Len(stream[s].buffer) <= BufferSize
    BY DEF Asks, StreamsInvariant, HubInv, StreamsOK
<1> DEFINE r == [at |-> "asked", cells |-> cells, seen |-> seen, buffer |-> stream[s].buffer]
<1>2. r \in Stream
    BY <1>1 DEF Stream
<1>3. stream' = [stream EXCEPT ![s] = r]
  <2>1. [stream[s] EXCEPT !.at = "asked", !.cells = cells, !.seen = seen] = r
    <3> DEFINE a == [stream[s] EXCEPT !.at = "asked"]
               b == [a EXCEPT !.cells = cells]
               c == [b EXCEPT !.seen = seen]
    <3>1. a = [at |-> "asked", cells |-> stream[s].cells, seen |-> stream[s].seen,
               buffer |-> stream[s].buffer]
      BY <1>1 DEF Stream
    <3>2. [stream[s] EXCEPT !.at = "asked", !.cells = cells, !.seen = seen] = c
      OBVIOUS
    <3> HIDE DEF a
    <3>3. b = [at |-> "asked", cells |-> cells, seen |-> stream[s].seen, buffer |-> stream[s].buffer]
      BY <3>1
    <3> HIDE DEF b
    <3>4. c = r
      BY <3>3
    <3> HIDE DEF c
    <3> QED
      BY <3>2, <3>4
  <2>2. stream' = [stream EXCEPT ![s] = [stream[s] EXCEPT !.at = "asked", !.cells = cells,
                                                           !.seen = seen]]
    BY DEF Asks
  <2> QED
    BY <2>1, <2>2
<1>4. UNCHANGED <<orderVars, indexVars, tasks, ghosts, scene>>
    BY DEF Asks, StreamRests, Keeps, Works
<1>5. HubInv'
  <2>1. r.at = "asked" /\ r.cells = cells /\ r.buffer = stream[s].buffer
    OBVIOUS
  <2> HIDE DEF r
  <2> QED
    BY <1>1, <1>2, <1>3, <1>4, <2>1, OneStream DEF StreamsInvariant, orderVars
<1> QED
    BY <1>4, <1>5 DEF StreamsInvariant, RestOK, orderVars, indexVars

\* The streams that clients ask for.
LEMMA AskingStep ==
    ASSUME StreamsInvariant, NEW s \in Streams,
           \/ PoolStreamAsk(s) \/ MerchantPoolStreamAsk(s)
           \/ \E o \in Orders : StreamAsk(s, o) \/ TrackAsk(s, o)
    PROVE  StreamsInvariant'
<1>1. \A cells, seen : Asks(s, cells, seen) => s \in scene.opened
    BY DEF Asks
<1>2. \A o \in Orders : row[o].status \in Statuses
    BY DEF StreamsInvariant, RestOK, Row
<1>3. CASE PoolStreamAsk(s)
  <2>1. PICK cells \in {NearCells, {Global}} : Asks(s, cells, "none") /\ s \in RunnerStreams
    BY <1>3 DEF PoolStreamAsk, PoolCells
  <2>2. cells \in SUBSET Cells /\ cells \in OwnCells
    BY <2>1 DEF Cells, OwnCells
  <2>3. cells \subseteq Reachable
    BY <1>1, <2>1 DEF Reachable
  <2> QED
    BY <2>1, <2>2, <2>3, AsksStep
<1>4. CASE MerchantPoolStreamAsk(s)
  <2>1. PICK cells \in SUBSET {MerchantGlobal, MerchantCell} :
           Asks(s, cells, "none") /\ s \in MerchantStreams
    BY <1>4 DEF MerchantPoolStreamAsk
  <2>2. cells \in SUBSET Cells
    BY <2>1 DEF Cells
  <2>3. cells \subseteq Reachable
    BY <1>1, <2>1 DEF Reachable
  <2> QED
    BY <2>1, <2>2, <2>3, AsksStep
<1>5. ASSUME NEW o \in Orders, StreamAsk(s, o) \/ TrackAsk(s, o)
      PROVE  StreamsInvariant'
  <2>1. Asks(s, {OrderCell(o)}, row[o].status) /\ (s \in OrderStreams \/ s \in TrackStreams)
    BY <1>5 DEF StreamAsk, TrackAsk
  <2>2. {OrderCell(o)} \in SUBSET Cells /\ {OrderCell(o)} \in OwnCells
    BY DEF Cells, OwnCells
  <2>3. s \notin TrackStreams => {OrderCell(o)} \subseteq Reachable
    BY <1>1, <2>1 DEF Reachable
  <2> QED
    BY <1>2, <2>1, <2>2, <2>3, AsksStep
<1> QED
    BY <1>3, <1>4, <1>5

\* A stream that stays where it is, is registered, or ends.
LEMMA MoveStep ==
    ASSUME StreamsInvariant, NEW s \in Streams, NEW r \in Stream,
           stream' = [stream EXCEPT ![s] = r], UNCHANGED <<orderVars, indexVars, tasks>>,
           Works \/ Takes("leave") \/ Fails,
           r.cells = stream[s].cells, Len(r.buffer) <= BufferSize,
           \/ r.at = stream[s].at /\ UNCHANGED ghosts
           \/ r.at = "on" /\ stream[s].at = "asked" /\ s \notin TrackStreams /\ UNCHANGED ghosts
           \/ /\ r.at = "gone" /\ due' = [due EXCEPT ![s] = {}]
              /\ told' = [told EXCEPT ![s] = {}] /\ missed' = [missed EXCEPT ![s] = {}]
    PROVE  StreamsInvariant'
<1>1. scene \in Bounds /\ HubInv /\ RestOK
    BY DEF StreamsInvariant, RestOK
<1>2. scene' \in Bounds /\ scene'.opened = scene.opened
    BY <1>1, BoundsStep DEF Fails, Classes
<1>3. /\ s \notin MerchantStreams => stream[s].cells \in OwnCells
      /\ stream[s].at = "asked" /\ s \notin TrackStreams => stream[s].cells \subseteq Reachable
      /\ stream[s].at = "on" => stream[s].cells \subseteq Reachable
    BY <1>1 DEF HubInv, StreamsOK
<1>4. HubInv'
  <2>1. /\ r.at = "asked" /\ s \notin TrackStreams => r.cells \subseteq Reachable
        /\ r.at = "on" => stream[s].at = "on" \/ (stream[s].at = "asked" /\ s \notin TrackStreams)
        /\ r.at \in {"new", "asked"} => stream[s].at \in {"new", "asked"}
        /\ \/ UNCHANGED ghosts
           \/ /\ r.at = "gone" /\ due' = [due EXCEPT ![s] = {}]
              /\ told' = [told EXCEPT ![s] = {}] /\ missed' = [missed EXCEPT ![s] = {}]
    BY <1>3
  <2>2. UNCHANGED <<tasks, changes>>
    BY DEF orderVars
  <2> QED
    BY <1>1, <1>2, <1>3, <2>1, <2>2, OneStream
<1> QED
    BY <1>1, <1>2, <1>4 DEF StreamsInvariant, RestOK, orderVars, indexVars

\* Steps of a stream once it was asked for.
LEMMA StreamMoves ==
    ASSUME StreamsInvariant, NEW s \in Streams,
           RegisterSSE(s) \/ Loop(s) \/ Disconnect(s) \/ \E o \in Orders : Track(s, o)
    PROVE  StreamsInvariant'
<1>1. stream[s] \in Stream /\ Len(stream[s].buffer) <= BufferSize
    BY DEF StreamsInvariant, HubInv, StreamsOK
<1>2. ASSUME UnregisterSSE(s), StreamRests, Works \/ Takes("leave") \/ Fails
      PROVE  StreamsInvariant'
  <2>1. Gone(stream[s]) \in Stream /\ Gone(stream[s]).at = "gone" /\ Gone(stream[s]).buffer = <<>>
        /\ Gone(stream[s]).cells = stream[s].cells
    BY <1>1, GoneOK
  <2>2. stream' = [stream EXCEPT ![s] = Gone(stream[s])]
    BY <1>2 DEF UnregisterSSE
  <2>3. Len(Gone(stream[s]).buffer) <= BufferSize
    BY <2>1, StreamsAssumption
  <2> QED
    BY <1>2, <2>1, <2>2, <2>3, MoveStep DEF UnregisterSSE, StreamRests
<1>3. CASE RegisterSSE(s)
  <2> DEFINE r == [stream[s] EXCEPT !.at = "on"]
  <2>1. r \in Stream /\ r.at = "on" /\ r.cells = stream[s].cells /\ r.buffer = stream[s].buffer
    BY <1>1 DEF Stream
  <2>2. stream' = [stream EXCEPT ![s] = r] /\ stream[s].at = "asked" /\ s \notin TrackStreams
    BY <1>3 DEF RegisterSSE
  <2> HIDE DEF r
  <2> QED
    BY <1>1, <1>3, <2>1, <2>2, MoveStep DEF RegisterSSE, StreamRests, Keeps
<1>4. CASE Loop(s)
  <2>1. CASE UnregisterSSE(s)
    BY <1>2, <1>4, <2>1 DEF Loop
  <2>2. CASE stream[s].buffer # <<>> /\ stream' = [stream EXCEPT ![s].buffer = Tail(@)] /\ Keeps
    <3> DEFINE r == [stream[s] EXCEPT !.buffer = Tail(stream[s].buffer)]
    <3>1. stream[s].buffer \in Seq(Event)
      BY <1>1 DEF Stream
    <3>2. /\ Tail(stream[s].buffer) \in Seq(Event)
          /\ Len(Tail(stream[s].buffer)) = Len(stream[s].buffer) - 1
      BY <2>2, <3>1
    <3>3. /\ r \in Stream /\ r.at = stream[s].at /\ r.cells = stream[s].cells
          /\ r.buffer = Tail(stream[s].buffer)
      BY <1>1, <3>2 DEF Stream
    <3>4. stream' = [stream EXCEPT ![s] = r]
      BY <2>2
    <3>5. Len(r.buffer) <= BufferSize
      BY <1>1, <3>1, <3>2, <3>3, StreamsAssumption
    <3> HIDE DEF r
    <3> QED
      BY <1>4, <2>2, <3>3, <3>4, <3>5, MoveStep DEF Loop, StreamRests, Keeps
  <2> QED
    BY <1>4, <2>1, <2>2 DEF Loop, Receive, EndsAtOnce
<1>5. CASE Disconnect(s)
    BY <1>2, <1>5 DEF Disconnect
<1>6. ASSUME NEW o \in Orders, Track(s, o)
      PROVE  StreamsInvariant'
  <2>1. CASE UnregisterSSE(s) /\ Fails
    BY <1>2, <1>6, <2>1 DEF Track
  <2>2. CASE /\ \E state \in GetTrackingState(o) : stream' = [stream EXCEPT ![s].seen = state]
             /\ Works /\ Keeps
    <3>1. PICK state \in TrackingStates : stream' = [stream EXCEPT ![s].seen = state]
      BY <2>2 DEF GetTrackingState, TrackingStates
    <3> DEFINE r == [stream[s] EXCEPT !.seen = state]
    <3>2. /\ r \in Stream /\ r.at = stream[s].at /\ r.cells = stream[s].cells
          /\ r.buffer = stream[s].buffer
      BY <1>1 DEF Stream
    <3>3. stream' = [stream EXCEPT ![s] = r]
      BY <3>1
    <3> HIDE DEF r
    <3> QED
      BY <1>1, <1>6, <2>2, <3>2, <3>3, MoveStep DEF Track, StreamRests, Keeps
  <2> QED
    BY <1>6, <2>1, <2>2 DEF Track
<1> QED
    BY <1>3, <1>4, <1>5, <1>6

-----------------------------------------------------------------------------
(* The invariant.                                                          *)

LEMMA StreamsInit ==
    ASSUME Init
    PROVE  StreamsInvariant
<1>1. scene \in Bounds
    BY ScenesAssumption DEF Init
<1>2. RestOK
    BY <1>1 DEF Init, RestOK, Bounds
<1>3. \A s \in Streams : /\ stream[s] = [at |-> "new", cells |-> {}, seen |-> "none", buffer |-> <<>>]
                         /\ due[s] = {} /\ told[s] = {} /\ missed[s] = {}
    BY DEF Init
<1>4. Registered = {} /\ tasks = {}
    BY <1>3 DEF Registered, Init
<1>5. StreamsOK
  <2>1. [at |-> "new", cells |-> {}, seen |-> "none", buffer |-> <<>>] \in Stream
    BY DEF Stream
  <2>2. stream \in [Streams -> Stream]
    BY <2>1 DEF Init
  <2> QED
    BY <1>3, <2>2, StreamsAssumption DEF StreamsOK, OwnCells
<1>6. GhostsOK
    BY <1>4 DEF Init, GhostsOK
<1> QED
    BY <1>2, <1>4, <1>5, <1>6 DEF StreamsInvariant, HubInv, TasksOK, TasksDiffer, NothingLost, OneOfAKind

LEMMA StreamsSteps ==
    ASSUME StreamsInvariant, [Next]_vars
    PROVE  StreamsInvariant'
<1>1. CASE UNCHANGED vars
  <2>1. UNCHANGED <<stream, tasks, ghosts, changes>> /\ scene'.opened = scene.opened
    BY <1>1 DEF vars, orderVars
  <2>2. HubInv'
    BY <2>1, QuietStep DEF StreamsInvariant
  <2> QED
    BY <1>1, <2>2 DEF StreamsInvariant, RestOK, vars, orderVars, indexVars
<1>2. ASSUME NEW o \in scene.orders, OrderStep(o)
      PROVE  StreamsInvariant'
  <2>1. o \in Orders
    BY DEF StreamsInvariant, RestOK, Bounds
  <2> QED
    BY <1>2, <2>1, OrderSteps
<1>3. CASE (\E c \in geo : GeoStep(c)) \/ SyncRedisGeoOrderPool
    BY <1>3, IndexStep
<1>4. CASE TaskStep
    BY <1>4, HubStep
<1>5. ASSUME NEW s \in Streams, StreamStep(s) \/ RegisterSSE(s) \/ Loop(s)
      PROVE  StreamsInvariant'
    BY <1>5, AskingStep, StreamMoves DEF StreamStep
<1>6. CASE Restart
  <2>1. HubInv'
    BY <1>6, RestartStep DEF StreamsInvariant
  <2>2. scene' \in Bounds
    BY <1>6, BoundsStep DEF Restart, StreamsInvariant, RestOK, Classes
  <2> QED
    BY <1>6, <2>1, <2>2 DEF StreamsInvariant, RestOK, Restart
<1> QED
    BY <1>1, <1>2, <1>3, <1>4, <1>5, <1>6 DEF Next

\* What goroutines are about to send, to whom, and what streams were told of agree in every
\* reachable state.
THEOREM StreamsInvariance == Spec => []StreamsInvariant
<1>1. Init => StreamsInvariant
    BY StreamsInit
<1>2. StreamsInvariant /\ [Next]_vars => StreamsInvariant'
    BY StreamsSteps
<1> QED
    BY <1>1, <1>2, PTL DEF Spec

\* The variables of the orders, the index and the hub have their types.
THEOREM StreamsTyped == Spec => []TypeOK
<1>1. StreamsInvariant => TypeOK
  <2> SUFFICES ASSUME StreamsInvariant PROVE TypeOK
    OBVIOUS
  <2>1. \A s \in Streams :
           /\ stream[s].at \in {"new", "asked", "on", "gone"}
           /\ stream[s].seen \in Statuses \cup TrackingStates \cup {"none"}
           /\ stream[s].buffer \in Seq(Event) /\ Len(stream[s].buffer) <= BufferSize
    BY DEF StreamsInvariant, HubInv, StreamsOK, Stream
  <2>2. \A t \in tasks : t.order \in Orders /\ t.to \subseteq Streams /\ t.call \in DOMAIN t.plan
    BY DEF StreamsInvariant, HubInv, TasksOK, Task
  <2>3. \A s \in Streams : due[s] \cup told[s] \cup missed[s] \subseteq Event
    BY DEF StreamsInvariant, HubInv, GhostsOK
  <2> QED
    BY <2>1, <2>2, <2>3 DEF StreamsInvariant, RestOK, TypeOK
<1> QED
    BY <1>1, StreamsInvariance, PTL

\* Whatever the orders, the streams and the size of a channel: what was announced while a
\* stream was registered reaches it, is passed over or is still to come, and a runner or the
\* reader of an order is told of one change once.
THEOREM EventsComeOnce == Spec => []EachEventOnce
<1>1. StreamsInvariant => EachEventOnce
  <2> SUFFICES ASSUME StreamsInvariant, NEW s \in Registered
               PROVE  /\ due[s] \subseteq told[s] \cup missed[s] \cup ComingTo(s)
                      /\ s \notin MerchantStreams =>
                            \A e, f \in told[s] \cup missed[s] : Same(e, f) => e = f
    BY DEF EachEventOnce, ComingTo, Same
  <2>1. due[s] \subseteq told[s] \cup missed[s] \cup ComingTo(s)
    BY DEF StreamsInvariant, HubInv, NothingLost
  <2>2. ASSUME s \notin MerchantStreams
        PROVE  \A e, f \in told[s] \cup missed[s] : Same(e, f) => e = f
    BY <2>2 DEF StreamsInvariant, HubInv, OneOfAKind
  <2> QED
    BY <2>1, <2>2
<1> QED
    BY <1>1, StreamsInvariance, PTL

=============================================================================
