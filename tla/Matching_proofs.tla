--------------------------- MODULE Matching_proofs ---------------------------
(***************************************************************************)
(* DispatchInv is an invariant of the search for runners and of the        *)
(* dispatcher that runs beside it: no runner is flooded, neither by the    *)
(* announcements of an order nor by a burst at his device, and what runs   *)
(* beside the search is an implementation of Outbox.  The dispatcher's own *)
(* steps come first.                                                       *)
(***************************************************************************)
EXTENDS Matching, FiniteSetTheorems, TLAPS

NotifierInv == NotifierTypeOK /\ HandInv /\ BurstInv

\* A step is one of the contract, or leaves what the contract is about alone.
Stutters == Kept' = Kept /\ UNCHANGED contractVars
ContractStep == Contract!Next \/ Stutters

-----------------------------------------------------------------------------
(* Jobs on their way.                                                      *)

LEMMA PushSet ==
    ASSUME NEW list \in Seq(Job), NEW j \in Job
    PROVE  /\ Append(list, j) \in Seq(Job)
           /\ ToSet(Append(list, j)) = ToSet(list) \cup {j}
  <1>1. Append(list, j) \in Seq(Job)
    OBVIOUS
  <1>2. /\ DOMAIN list = 1 .. Len(list) /\ Len(list) \in Nat
        /\ DOMAIN Append(list, j) = 1 .. Len(list) + 1
        /\ \A i \in 1 .. Len(list) : Append(list, j)[i] = list[i]
        /\ Append(list, j)[Len(list) + 1] = j
    OBVIOUS
  <1>3. 1 .. Len(list) + 1 = (1 .. Len(list)) \cup {Len(list) + 1}
    BY <1>2
  <1>4. ToSet(Append(list, j)) = ToSet(list) \cup {j}
    BY <1>2, <1>3 DEF ToSet
  <1> QED
    BY <1>1, <1>4

LEMMA PopSet ==
    ASSUME NEW list \in Seq(Job), list # <<>>
    PROVE  /\ Head(list) \in Job /\ Tail(list) \in Seq(Job)
           /\ ToSet(list) = {Head(list)} \cup ToSet(Tail(list))
  <1>1. /\ DOMAIN list = 1 .. Len(list) /\ Len(list) \in Nat \ {0}
        /\ Head(list) = list[1] /\ Tail(list) \in Seq(Job)
        /\ DOMAIN Tail(list) = 1 .. Len(list) - 1
        /\ \A i \in 1 .. Len(list) - 1 : Tail(list)[i] = list[i + 1]
    OBVIOUS
  <1>2. ASSUME NEW x \in ToSet(list)
        PROVE  x \in {Head(list)} \cup ToSet(Tail(list))
    <2>1. PICK i \in 1 .. Len(list) : x = list[i]
      BY <1>1 DEF ToSet
    <2>2. CASE i = 1
      BY <1>1, <2>1, <2>2
    <2>3. CASE i # 1
      <3>1. i - 1 \in 1 .. Len(list) - 1 /\ list[i] = Tail(list)[i - 1]
        BY <1>1, <2>3
      <3> QED
        BY <1>1, <2>1, <3>1 DEF ToSet
    <2> QED
      BY <2>2, <2>3
  <1>3. ASSUME NEW x \in {Head(list)} \cup ToSet(Tail(list))
        PROVE  x \in ToSet(list)
    <2>1. CASE x = Head(list)
      BY <1>1, <2>1 DEF ToSet
    <2>2. CASE x \in ToSet(Tail(list))
      <3>1. PICK i \in 1 .. Len(list) - 1 : x = Tail(list)[i]
        BY <1>1, <2>2 DEF ToSet
      <3>2. i + 1 \in 1 .. Len(list) /\ x = list[i + 1]
        BY <1>1, <3>1
      <3> QED
        BY <1>1, <3>2 DEF ToSet
    <2> QED
      BY <1>3, <2>1, <2>2
  <1> QED
    BY <1>1, <1>2, <1>3

\* What is kept: on the lists, delayed, with the workers, in the hand of the loop.
Listed == {NoteOf(j) : j \in ToSet(high) \cup ToSet(global) \cup delayed}
Own(w) == IF w = Idle THEN {} ELSE {NoteOf(w.job)}
Carried == UNION {Own(sender[s]) : s \in Senders}
Drained == {NoteOf(j) : j \in drain.hand}

LEMMA KeptIs ==
    /\ Kept = Listed \cup Carried \cup Drained
    /\ Kept' = Listed' \cup Carried' \cup Drained'
  <1>1. {NoteOf(sender[s].job) : s \in {x \in Senders : sender[x] # Idle}} = Carried
    BY DEF Carried, Own
  <1>2. {NoteOf(sender'[s].job) : s \in {x \in Senders : sender'[x] # Idle}} = Carried'
    BY DEF Carried, Own
  <1> QED
    BY <1>1, <1>2 DEF Kept, InHand, Listed, Drained

\* The others keep what they carry.
LEMMA CarriedBy ==
    ASSUME NotifierTypeOK, NEW s \in Senders, NEW w, sender' = [sender EXCEPT ![s] = w]
    PROVE  \E others : Carried = others \cup Own(sender[s]) /\ Carried' = others \cup Own(w)
  <1> DEFINE others == UNION {Own(sender[x]) : x \in Senders \ {s}}
  <1>1. sender' = [x \in Senders |-> IF x = s THEN w ELSE sender[x]]
    BY DEF NotifierTypeOK
  <1>2. Carried = others \cup Own(sender[s])
    BY DEF Carried
  <1>3. Carried' = UNION {Own(sender'[x]) : x \in Senders}
    BY DEF Carried, Own
  <1>4. Carried' = others \cup Own(w)
    BY <1>1, <1>3
  <1> QED
    BY <1>2, <1>4

\* What is spent is a number still.
LEMMA TakesType ==
    ASSUME left \in [Classes -> Nat], NEW class, Takes(class)
    PROVE  left' \in [Classes -> Nat]
  <1>1. left' = [left EXCEPT ![class] = left[class] - 1] /\ left[class] > 0
    BY DEF Takes
  <1>2. class \in Classes => left[class] - 1 \in Nat
    BY <1>1
  <1> QED
    BY <1>1, <1>2

LEMMA FailsType ==
    ASSUME NotifierTypeOK
    PROVE  /\ Fails => left' \in [Classes -> Nat] /\ troubled' = TRUE
           /\ Works => left' \in [Classes -> Nat] /\ troubled' \in BOOLEAN
  BY TakesType DEF Fails, Works, NotifierTypeOK

LEMMA LosesType ==
    ASSUME NotifierTypeOK, NEW notes \in SUBSET Note, Loses(notes)
    PROVE  /\ left' \in [Classes -> Nat] /\ troubled' = TRUE
           /\ lost' = lost \cup notes /\ lost' \subseteq Note
  BY FailsType DEF Loses, NotifierTypeOK

Ways == {"sent", "unreachable", "invalid", "buried"}

LEMMA EndsType ==
    ASSUME NotifierTypeOK, NEW n \in Note, NEW how \in Ways, Ends(n, how)
    PROVE  ended' \subseteq Note \X Ways
  <1>1. <<n, how>> \in Note \X Ways
    OBVIOUS
  <1> QED
    BY <1>1 DEF Ends, NotifierTypeOK, Ways

\* A job is that of a note.
LEMMA NoteType ==
    ASSUME NEW j \in Job
    PROVE  NoteOf(j) \in Note
  BY DEF Job, Note, NoteOf

-----------------------------------------------------------------------------
(* Steps of the contract.                                                  *)

\* A note ends; a copy of it may be kept.
LEMMA EndStep ==
    ASSUME NEW n \in Note, NEW how \in Ways,
           Ends(n, how), UNCHANGED <<accepted, lost, troubled>>,
           NEW others, Kept = others \cup {n}, Kept' = others
    PROVE  ContractStep /\ Kept' \subseteq Kept
  <1>1. Kept' \in {Kept, Kept \ {n}} /\ n \in Kept
    OBVIOUS
  <1>2. Contract!End(n, how)
    BY <1>1 DEF Contract!End, Ends
  <1> QED
    BY <1>2 DEF ContractStep, Contract!Next, Contract!Ends, Ways

\* A failure loses notes that were kept.
LEMMA LossStep ==
    ASSUME HandInv, accepted \subseteq Note, NEW notes, notes \subseteq Kept,
           troubled' = TRUE, lost' = lost \cup notes, UNCHANGED <<accepted, ended>>,
           Kept' \subseteq Kept, Kept \subseteq Kept' \cup notes
    PROVE  ContractStep
  <1>1. Contract!Trouble
    BY DEF Contract!Trouble, HandInv
  <1> QED
    BY <1>1 DEF ContractStep, Contract!Next

\* A failure that loses nothing.
LEMMA NoLoss ==
    ASSUME NotifierTypeOK, HandInv, troubled' = TRUE, UNCHANGED <<accepted, ended, lost>>,
           Kept' = Kept
    PROVE  ContractStep
  <1>1. Contract!Trouble
    BY DEF Contract!Trouble, HandInv, NotifierTypeOK
  <1> QED
    BY <1>1 DEF ContractStep, Contract!Next

\* Nothing is kept that was not kept before.
LEMMA KeptAccepted ==
    ASSUME HandInv, Kept' \subseteq Kept, UNCHANGED accepted, lost' \subseteq lost \cup Kept,
           LoopInv'
    PROVE  HandInv'
  BY DEF HandInv

-----------------------------------------------------------------------------
(* Bursts.                                                                 *)

LEMMA SendsFinite ==
    ASSUME NEW t \in Tokens
    PROVE  /\ IsFiniteSet(Sends(t)) /\ Cardinality(Sends(t)) \in Nat
           /\ Cardinality(Senders) \in Nat /\ Cardinality(Sends(t)) <= Cardinality(Senders)
  BY NotifierAssumption, FS_Subset, FS_CardinalityType DEF Sends

\* A worker that is not about to send, and will not be next.
LEMMA BurstElsewhere ==
    ASSUME NotifierTypeOK, BurstInv, UNCHANGED <<sends, count, uncounted>>,
           NEW s \in Senders, NEW w, sender' = [sender EXCEPT ![s] = w],
           ~At(s, "send"), w = Idle \/ w.at # "send"
    PROVE  BurstInv'
  <1>1. sender' = [x \in Senders |-> IF x = s THEN w ELSE sender[x]]
    BY DEF NotifierTypeOK
  <1>2. \A t \in Tokens : Sends(t)' = Sends(t)
    BY <1>1 DEF Sends, At
  <1> QED
    BY <1>2 DEF BurstInv

\* Nobody begins or ends a call.
LEMMA BurstAlone ==
    ASSUME BurstInv, UNCHANGED <<bucketVars, sender>>
    PROVE  BurstInv'
  <1>1. \A t \in Tokens : Sends(t)' = Sends(t)
    BY DEF Sends, At
  <1> QED
    BY <1>1 DEF BurstInv, bucketVars

-----------------------------------------------------------------------------
(* Workers.                                                                *)

\* What a worker that has a job knows.
LEMMA HasJob ==
    ASSUME NotifierTypeOK, NEW s \in Senders, NEW step, At(s, step)
    PROVE  /\ sender[s] \in Sending /\ sender[s].job \in Job /\ sender[s].at = step
           /\ NoteOf(sender[s].job) \in Note /\ Own(sender[s]) = {NoteOf(sender[s].job)}
  <1>1. sender[s] \in Sending /\ sender[s].at = step /\ sender[s] # Idle
    BY DEF NotifierTypeOK, At
  <1> QED
    BY <1>1, NoteType DEF Sending, Own

LEMMA PopStep ==
    ASSUME NotifierInv, NEW s \in Senders, Pop(s)
    PROVE  NotifierInv' /\ ContractStep
  <1> USE DEF NotifierInv
  <1>0. /\ sender[s] = Idle /\ accepted \subseteq Note
        /\ UNCHANGED <<delayed, due, dlq, bucketVars, token, drain, accepted, ended>>
    BY DEF Pop, NotifierTypeOK
  <1>1. PICK j \in Job :
            /\ \/ high # <<>> /\ j = Head(high) /\ high' = Tail(high) /\ UNCHANGED global
               \/ high = <<>> /\ global # <<>> /\ j = Head(global) /\ global' = Tail(global)
                  /\ UNCHANGED high
            /\ \/ sender' = [sender EXCEPT ![s] = [job |-> j, token |-> NoToken, at |-> "look"]]
                  /\ Works /\ UNCHANGED lost
               \/ Loses({NoteOf(j)}) /\ UNCHANGED sender
    BY DEF Pop
  <1>2. /\ high' \in Seq(Job) /\ global' \in Seq(Job)
        /\ ToSet(high) \cup ToSet(global) = ToSet(high') \cup ToSet(global') \cup {j}
    BY <1>1, PopSet DEF NotifierTypeOK
  <1>3. Listed = Listed' \cup {NoteOf(j)}
    BY <1>0, <1>2 DEF Listed
  <1>4. NoteOf(j) \in Note /\ Drained' = Drained
    BY <1>0, NoteType DEF Drained
  <1>5. CASE /\ sender' = [sender EXCEPT ![s] = [job |-> j, token |-> NoToken, at |-> "look"]]
             /\ Works /\ UNCHANGED lost
    <2> DEFINE w == [job |-> j, token |-> NoToken, at |-> "look"]
    <2>1. w \in Sending /\ w.at # "send" /\ Own(w) = {NoteOf(j)}
      BY SentinelAssumption DEF Sending, Own
    <2>2. sender' = [sender EXCEPT ![s] = w]
      BY <1>5
    <2> HIDE DEF w
    <2>3. PICK others : Carried = others \cup Own(sender[s]) /\ Carried' = others \cup Own(w)
      BY <2>2, CarriedBy
    <2>4. Own(sender[s]) = {}
      BY <1>0 DEF Own
    <2>5. Kept' = Kept
      BY <1>3, <1>4, <2>1, <2>3, <2>4, KeptIs
    <2>6. Stutters
      BY <1>0, <1>5, <2>5 DEF Stutters, contractVars, Works
    <2>7. NotifierTypeOK'
      BY <1>0, <1>2, <1>5, <2>1, <2>2 DEF NotifierTypeOK, bucketVars, Works
    <2>8. BurstInv'
      BY <1>0, <2>1, <2>2, BurstElsewhere DEF bucketVars, At
    <2>9. HandInv'
      BY <1>0, <1>5, <2>5, KeptAccepted DEF HandInv, LoopInv
    <2> QED
      BY <2>6, <2>7, <2>8, <2>9 DEF ContractStep
  <1>6. CASE Loses({NoteOf(j)}) /\ UNCHANGED sender
    <2>1. Carried' = Carried
      BY <1>6 DEF Carried, Own
    <2>2. Kept = Kept' \cup {NoteOf(j)}
      BY <1>3, <1>4, <2>1, KeptIs
    <2>3. troubled' = TRUE /\ lost' = lost \cup {NoteOf(j)} /\ left' \in [Classes -> Nat]
      BY <1>4, <1>6, LosesType
    <2>4. ContractStep
      BY <1>0, <2>2, <2>3, LossStep
    <2>5. NotifierTypeOK'
      BY <1>0, <1>2, <1>4, <1>6, <2>3 DEF NotifierTypeOK, bucketVars
    <2>6. BurstInv'
      BY <1>0, <1>6, BurstAlone
    <2>7. HandInv'
      BY <1>0, <2>2, <2>3, KeptAccepted DEF HandInv, LoopInv
    <2> QED
      BY <2>4, <2>5, <2>6, <2>7
  <1> QED
    BY <1>1, <1>5, <1>6

\* A worker that goes on with its job, or is through with it, when nothing but the contract
\* is about it.
LEMMA WorkerGoes ==
    ASSUME NotifierTypeOK, HandInv, NEW s \in Senders, NEW w \in Sending,
           sender[s] # Idle, NoteOf(w.job) = NoteOf(sender[s].job),
           sender' = [sender EXCEPT ![s] = w],
           UNCHANGED <<high, global, delayed, drain, accepted, ended, lost>>
    PROVE  Kept' = Kept /\ HandInv'
  <1>1. PICK others : Carried = others \cup Own(sender[s]) /\ Carried' = others \cup Own(w)
    BY CarriedBy
  <1>2. Own(sender[s]) = Own(w)
    BY SentinelAssumption DEF Own
  <1>3. Listed' = Listed /\ Drained' = Drained
    BY DEF Listed, Drained
  <1>4. Kept' = Kept
    BY <1>1, <1>2, <1>3, KeptIs
  <1> QED
    BY <1>4, KeptAccepted DEF HandInv, LoopInv

LEMMA WorkerFree ==
    ASSUME NotifierTypeOK, HandInv, NEW s \in Senders,
           NEW step, At(s, step), Free(s),
           UNCHANGED <<high, global, delayed, drain, accepted>>,
           lost' \subseteq lost \cup Kept
    PROVE  /\ Kept = Kept' \cup {NoteOf(sender[s].job)} /\ HandInv'
           /\ sender' \in [Senders -> {Idle} \cup Sending]
  <1>1. sender' = [sender EXCEPT ![s] = Idle]
    BY DEF Free
  <1>2. PICK others : Carried = others \cup Own(sender[s]) /\ Carried' = others \cup Own(Idle)
    BY <1>1, CarriedBy
  <1>3. Own(sender[s]) = {NoteOf(sender[s].job)} /\ Own(Idle) = {}
    BY HasJob DEF Own
  <1>4. Listed' = Listed /\ Drained' = Drained
    BY DEF Listed, Drained
  <1>5. Kept = Kept' \cup {NoteOf(sender[s].job)}
    BY <1>2, <1>3, <1>4, KeptIs
  <1> QED
    BY <1>1, <1>5, KeptAccepted DEF HandInv, LoopInv, NotifierTypeOK

LEMMA LookStep ==
    ASSUME NotifierInv, NEW s \in Senders, Look(s)
    PROVE  NotifierInv' /\ ContractStep
  <1> USE DEF NotifierInv
  <1> DEFINE j == sender[s].job
  <1>1. At(s, "look") /\ UNCHANGED <<redisVars, bucketVars, token, drain>>
    BY DEF Look
  <1>2. /\ sender[s] \in Sending /\ sender[s].at = "look" /\ j \in Job /\ NoteOf(j) \in Note
        /\ sender[s] # Idle
    BY <1>1, HasJob DEF At
  <1>3. UNCHANGED <<high, global, delayed, due, dlq, sends, count, uncounted, expiring>>
    BY <1>1 DEF redisVars, bucketVars
  <1>4. ~At(s, "send")
    BY <1>2 DEF At
  <1>5. CASE /\ token[j.user] # NoToken /\ UNCHANGED <<left, contractVars>>
             /\ sender' = [sender EXCEPT ![s].at = "count", ![s].token = token[j.user]]
    <2> DEFINE w == [sender[s] EXCEPT !.at = "count", !.token = token[j.user]]
    <2>1. token[j.user] \in Tokens
      BY <1>2, <1>5 DEF NotifierTypeOK, Job
    <2>2. w \in Sending /\ w.job = j /\ w.at = "count"
      BY <1>2, <2>1 DEF Sending
    <2>3. sender' = [sender EXCEPT ![s] = w]
      BY <1>5, <1>2 DEF Sending, NotifierTypeOK
    <2> HIDE DEF w
    <2>4. Kept' = Kept /\ HandInv'
      BY <1>1, <1>2, <1>3, <1>5, <2>2, <2>3, WorkerGoes DEF contractVars
    <2>5. NotifierTypeOK'
      <3>1. sender' \in [Senders -> {Idle} \cup Sending]
        BY <2>2, <2>3 DEF NotifierTypeOK
      <3>2. UNCHANGED <<high, global, delayed, due, dlq, sends, count, uncounted, expiring, token,
                        drain, left, accepted, ended, lost, troubled>>
        BY <1>1, <1>3, <1>5 DEF contractVars
      <3> HIDE DEF j
      <3> QED
        BY <3>1, <3>2 DEF NotifierTypeOK
    <2>6. BurstInv'
      BY <1>3, <1>4, <2>2, <2>3, BurstElsewhere
    <2> QED
      BY <1>5, <2>4, <2>5, <2>6 DEF ContractStep, Stutters
  <1>6. CASE /\ Free(s) /\ UNCHANGED accepted
             /\ \/ Ends(NoteOf(j), "unreachable") /\ Works /\ UNCHANGED lost
                \/ Loses({NoteOf(j)}) /\ UNCHANGED ended
    <2>1. NoteOf(j) \in Kept
      BY <1>2 DEF Kept, InHand
    <2>2. lost' \subseteq lost \cup Kept
      BY <1>6, <2>1 DEF Loses
    <2>3. Kept = Kept' \cup {NoteOf(j)} /\ HandInv' /\ sender' \in [Senders -> {Idle} \cup Sending]
      BY <1>1, <1>3, <1>6, <2>2, WorkerFree
    <2>4. /\ left' \in [Classes -> Nat] /\ troubled' \in BOOLEAN
          /\ lost' \subseteq Note
          /\ ended' \subseteq Note \X Ways
      <3>1. CASE Ends(NoteOf(j), "unreachable") /\ Works /\ UNCHANGED lost
        BY <1>2, <3>1, FailsType, EndsType DEF NotifierTypeOK, Ways
      <3>2. CASE Loses({NoteOf(j)}) /\ UNCHANGED ended
        BY <1>2, <3>2, LosesType DEF NotifierTypeOK, Ways
      <3> QED
        BY <1>6, <3>1, <3>2
    <2>5. NotifierTypeOK'
      BY <1>1, <1>3, <1>6, <2>3, <2>4 DEF NotifierTypeOK, Ways
    <2>6. BurstInv'
      BY <1>3, <1>4, <1>6, BurstElsewhere DEF Free
    <2>7. ContractStep
      <3>1. CASE Ends(NoteOf(j), "unreachable") /\ Works /\ UNCHANGED lost
        BY <1>2, <1>6, <2>3, <3>1, EndStep DEF Works, Ways
      <3>2. CASE Loses({NoteOf(j)}) /\ UNCHANGED ended
        <4>1. troubled' = TRUE /\ lost' = lost \cup {NoteOf(j)} /\ accepted \subseteq Note
          BY <3>2 DEF Loses, Fails, NotifierTypeOK
        <4> QED
          BY <1>6, <2>1, <2>3, <3>2, <4>1, LossStep
      <3> QED
        BY <1>6, <3>1, <3>2
    <2> QED
      BY <2>3, <2>5, <2>6, <2>7
  <1> QED
    BY <1>5, <1>6 DEF Look

\* A call begins, or ends.
LEMMA SendBegins ==
    ASSUME NotifierTypeOK, NEW s \in Senders, NEW w \in Sending, w.at = "send",
           ~At(s, "send"), sender' = [sender EXCEPT ![s] = w], NEW t \in Tokens
    PROVE  Cardinality(Sends(t)') =
              IF t = w.token THEN Cardinality(Sends(t)) + 1 ELSE Cardinality(Sends(t))
  <1>1. sender' = [x \in Senders |-> IF x = s THEN w ELSE sender[x]] /\ w # Idle
    BY SentinelAssumption DEF NotifierTypeOK
  <1>2. Sends(t)' = IF t = w.token THEN Sends(t) \cup {s} ELSE Sends(t)
    BY <1>1 DEF Sends, At
  <1>3. s \notin Sends(t)
    BY DEF Sends
  <1> QED
    BY <1>2, <1>3, SendsFinite, FS_AddElement

LEMMA SendEnds ==
    ASSUME NotifierTypeOK, NEW s \in Senders, NEW w, w = Idle \/ w.at # "send",
           At(s, "send"), sender' = [sender EXCEPT ![s] = w], NEW t \in Tokens
    PROVE  Cardinality(Sends(t)') =
              IF t = sender[s].token THEN Cardinality(Sends(t)) - 1 ELSE Cardinality(Sends(t))
  <1>1. sender' = [x \in Senders |-> IF x = s THEN w ELSE sender[x]]
    BY DEF NotifierTypeOK
  <1>2. Sends(t)' = IF t = sender[s].token THEN Sends(t) \ {s} ELSE Sends(t)
    BY <1>1 DEF Sends, At
  <1>3. t = sender[s].token => s \in Sends(t)
    BY DEF Sends
  <1> QED
    BY <1>2, <1>3, SendsFinite, FS_RemoveElement

\* Counting a call before it begins.
LEMMA CountStep ==
    ASSUME NotifierInv, NEW s \in Senders, Count(s)
    PROVE  NotifierInv' /\ ContractStep
  <1> USE DEF NotifierInv
  <1> DEFINE t == sender[s].token
             n == Counted(t)
             next == IF Exceeds(sender[s].job, n) THEN "postpone" ELSE "send"
  <1>1. At(s, "count") /\ UNCHANGED <<redisVars, sends, token, drain, accepted, ended, lost>>
    BY DEF Count
  <1>2. /\ sender[s] \in Sending /\ sender[s].at = "count" /\ sender[s] # Idle
        /\ ~At(s, "send") /\ t \in Tokens
    <2>1. sender[s] \in Sending /\ sender[s].at = "count" /\ sender[s] # Idle
      BY <1>1, HasJob DEF At
    <2> QED
      BY <2>1 DEF At, Sending
  <1>3. UNCHANGED <<high, global, delayed, due, dlq>>
    BY <1>1 DEF redisVars
  <1>4. ASSUME NEW step \in {"postpone", "send"}, Goes(s, step)
        PROVE  LET w == [sender[s] EXCEPT !.at = step] IN
               /\ w \in Sending /\ w.at = step /\ w.token = t /\ sender' = [sender EXCEPT ![s] = w]
               /\ sender' \in [Senders -> {Idle} \cup Sending] /\ Kept' = Kept /\ HandInv'
    <2> DEFINE w == [sender[s] EXCEPT !.at = step]
    <2>1. w \in Sending /\ w.at = step /\ w.token = t /\ w.job = sender[s].job
      BY <1>2 DEF Sending
    <2>2. sender' = [sender EXCEPT ![s] = w]
      BY <1>4 DEF Goes
    <2> HIDE DEF w
    <2>3. Kept' = Kept /\ HandInv'
      BY <1>1, <1>2, <1>3, <2>1, <2>2, WorkerGoes
    <2> QED
      BY <2>1, <2>2, <2>3 DEF NotifierTypeOK, w
  <1>5. \A u \in Tokens : /\ count[u] \in Nat /\ uncounted[u] \in Nat /\ sends[u] \in Nat
                          /\ Cardinality(Sends(u)) \in Nat /\ Cardinality(Senders) \in Nat
                          /\ BurstLimit \in Nat
                          /\ Counted(u) = IF count[u] > BurstLimit THEN count[u] ELSE count[u] + 1
    BY SendsFinite, NotifierAssumption DEF NotifierTypeOK, Counted
  <1>6. next \in {"postpone", "send"}
    OBVIOUS
  <1>7. CASE /\ count' = [count EXCEPT ![t] = n] /\ Goes(s, next) /\ UNCHANGED uncounted
             /\ \/ expiring' = (IF n = 1 THEN expiring \cup {t} ELSE expiring) /\ Works
                \/ n = 1 /\ Fails /\ UNCHANGED expiring
    <2> DEFINE w == [sender[s] EXCEPT !.at = next]
    <2>1. /\ w \in Sending /\ w.at = next /\ w.token = t /\ sender' = [sender EXCEPT ![s] = w]
          /\ sender' \in [Senders -> {Idle} \cup Sending] /\ Kept' = Kept /\ HandInv'
      BY <1>4, <1>6, <1>7
    <2> HIDE DEF w
    <2>2. count' \in [Tokens -> Nat]
      <3>1. n \in Nat
        BY <1>2, <1>5
      <3> QED
        BY <1>7, <3>1 DEF NotifierTypeOK
    <2>3. left' \in [Classes -> Nat] /\ troubled' \in BOOLEAN
      BY <1>7, FailsType
    <2>4. ContractStep
      <3>1. CASE Works
        BY <1>1, <2>1, <3>1 DEF ContractStep, Stutters, contractVars, Works
      <3>2. CASE Fails
        BY <1>1, <2>1, <3>2, NoLoss DEF Fails
      <3> QED
        BY <1>7, <3>1, <3>2
    <2>5. BurstInv'
      <3> SUFFICES ASSUME NEW u \in Tokens
                   PROVE  (sends[u] + Cardinality(Sends(u)) <=
                            (IF count[u] > BurstLimit THEN BurstLimit ELSE count[u])
                                + Cardinality(Senders) + uncounted[u])'
        BY DEF BurstInv
      <3>1. /\ sends'[u] = sends[u] /\ uncounted'[u] = uncounted[u]
            /\ count'[u] = IF u = t THEN n ELSE count[u]
        BY <1>1, <1>7 DEF NotifierTypeOK
      <3>2. CASE u = t /\ next = "send"
        <4>1. Cardinality(Sends(u)') = Cardinality(Sends(u)) + 1
          BY <1>2, <2>1, <3>2, SendBegins
        <4>2. n = count[u] + 1 /\ count[u] < BurstLimit
          BY <1>5, <3>2 DEF Exceeds
        <4> QED
          BY <1>5, <3>1, <3>2, <4>1, <4>2 DEF BurstInv
      <3>3. CASE u # t \/ next # "send"
        <4>1. Cardinality(Sends(u)') = Cardinality(Sends(u))
          <5>1. CASE next = "send"
            BY <1>2, <2>1, <3>3, <5>1, SendBegins
          <5>2. CASE next # "send"
            <6>1. sender' = [x \in Senders |-> IF x = s THEN w ELSE sender[x]]
              BY <2>1 DEF NotifierTypeOK
            <6>2. Sends(u)' = Sends(u)
              BY <1>2, <2>1, <5>2, <6>1 DEF Sends, At
            <6> QED
              BY <6>2
          <5> QED
            BY <5>1, <5>2
        <4>2. u = t => count'[u] \in {count[u], count[u] + 1}
          BY <1>5, <3>1
        <4> HIDE DEF n, next, t
        <4> QED
          BY <1>5, <3>1, <4>1, <4>2 DEF BurstInv
      <3> QED
        BY <3>2, <3>3
    <2>6. NotifierTypeOK'
      <3>1. expiring' \subseteq Tokens
        BY <1>2, <1>7 DEF NotifierTypeOK
      <3> QED
        BY <1>1, <1>3, <1>7, <2>1, <2>2, <2>3, <3>1 DEF NotifierTypeOK
    <2> QED
      BY <2>1, <2>4, <2>5, <2>6
  <1>8. CASE /\ Fails /\ uncounted' = [uncounted EXCEPT ![t] = @ + 1]
             /\ Goes(s, "send") /\ UNCHANGED <<count, expiring>>
    <2> DEFINE w == [sender[s] EXCEPT !.at = "send"]
    <2>1. /\ w \in Sending /\ w.at = "send" /\ w.token = t /\ sender' = [sender EXCEPT ![s] = w]
          /\ sender' \in [Senders -> {Idle} \cup Sending] /\ Kept' = Kept /\ HandInv'
      BY <1>4, <1>8
    <2> HIDE DEF w
    <2>2. uncounted' \in [Tokens -> Nat]
      <3>1. uncounted' = [uncounted EXCEPT ![t] = uncounted[t] + 1] /\ uncounted[t] + 1 \in Nat
        BY <1>2, <1>5, <1>8
      <3> QED
        BY <3>1 DEF NotifierTypeOK
    <2>3. left' \in [Classes -> Nat] /\ troubled' = TRUE
      BY <1>8, FailsType
    <2>4. ContractStep
      BY <1>1, <2>1, <2>3, NoLoss
    <2>5. BurstInv'
      <3> SUFFICES ASSUME NEW u \in Tokens
                   PROVE  (sends[u] + Cardinality(Sends(u)) <=
                            (IF count[u] > BurstLimit THEN BurstLimit ELSE count[u])
                                + Cardinality(Senders) + uncounted[u])'
        BY DEF BurstInv
      <3>1. /\ sends'[u] = sends[u] /\ count'[u] = count[u]
            /\ uncounted'[u] = IF u = t THEN uncounted[u] + 1 ELSE uncounted[u]
        BY <1>1, <1>8 DEF NotifierTypeOK
      <3>2. Cardinality(Sends(u)') =
                IF u = t THEN Cardinality(Sends(u)) + 1 ELSE Cardinality(Sends(u))
        BY <1>2, <2>1, SendBegins
      <3> HIDE DEF n, next, t
      <3> QED
        BY <1>5, <3>1, <3>2 DEF BurstInv
    <2>6. NotifierTypeOK'
      BY <1>1, <1>3, <1>8, <2>1, <2>2, <2>3 DEF NotifierTypeOK
    <2> QED
      BY <2>1, <2>4, <2>5, <2>6
  <1> QED
    BY <1>7, <1>8 DEF Count

\* Calling FCM.
LEMMA BurstSent ==
    ASSUME NotifierTypeOK, BurstInv, NEW s \in Senders, NEW w, w = Idle \/ w.at # "send",
           At(s, "send"), sender' = [sender EXCEPT ![s] = w],
           sends' = [sends EXCEPT ![sender[s].token] = @ + 1], UNCHANGED <<count, uncounted>>
    PROVE  BurstInv' /\ sends' \in [Tokens -> Nat]
  <1> DEFINE t == sender[s].token
  <1>1. t \in Tokens /\ sends[t] \in Nat
    BY HasJob DEF Sending, NotifierTypeOK
  <1>2. sends' = [sends EXCEPT ![t] = sends[t] + 1]
    OBVIOUS
  <1>3. ASSUME NEW u \in Tokens
        PROVE  (sends[u] + Cardinality(Sends(u)) <=
                   (IF count[u] > BurstLimit THEN BurstLimit ELSE count[u])
                       + Cardinality(Senders) + uncounted[u])'
    <2>1. sends'[u] = IF u = t THEN sends[u] + 1 ELSE sends[u]
      BY <1>2 DEF NotifierTypeOK
    <2>2. Cardinality(Sends(u)') =
              IF u = t THEN Cardinality(Sends(u)) - 1 ELSE Cardinality(Sends(u))
      BY SendEnds
    <2>3. sends[u] \in Nat /\ Cardinality(Sends(u)) \in Nat
      BY SendsFinite DEF NotifierTypeOK
    <2> HIDE DEF t
    <2>4. sends'[u] + Cardinality(Sends(u)') = sends[u] + Cardinality(Sends(u))
      BY <2>1, <2>2, <2>3
    <2> QED
      BY <2>4 DEF BurstInv
  <1>4. sends' \in [Tokens -> Nat]
    BY <1>1, <1>2 DEF NotifierTypeOK
  <1> QED
    BY <1>3, <1>4 DEF BurstInv

LEMMA SendStep ==
    ASSUME NotifierInv, NEW s \in Senders, Send(s)
    PROVE  NotifierInv' /\ ContractStep
  <1> USE DEF NotifierInv
  <1> DEFINE j == sender[s].job
  <1>1. /\ At(s, "send") /\ sends' = [sends EXCEPT ![sender[s].token] = @ + 1]
        /\ UNCHANGED <<high, global, delayed, due, count, expiring, uncounted, token, drain, accepted>>
    BY DEF Send
  <1>2. /\ sender[s] \in Sending /\ sender[s].at = "send" /\ j \in Job /\ NoteOf(j) \in Note
        /\ sender[s] # Idle
    BY <1>1, HasJob DEF At
  <1>3. NoteOf(j) \in Kept
    BY <1>2 DEF Kept, InHand
  <1>4. CASE /\ Free(s) /\ dlq' \in {dlq, dlq \cup {j}}
             /\ \/ \E how \in Ways : Ends(NoteOf(j), how) /\ UNCHANGED <<lost, troubled>>
                                        /\ left' \in [Classes -> Nat]
                \/ Loses({NoteOf(j)}) /\ UNCHANGED ended
    <2>1. lost' \subseteq lost \cup Kept
      BY <1>3, <1>4 DEF Loses
    <2>2. /\ Kept = Kept' \cup {NoteOf(j)} /\ HandInv'
          /\ sender' \in [Senders -> {Idle} \cup Sending]
      BY <1>1, <1>4, <2>1, WorkerFree
    <2>3. /\ left' \in [Classes -> Nat] /\ troubled' \in BOOLEAN
          /\ lost' \subseteq Note /\ ended' \subseteq Note \X Ways
      <3>1. CASE \E how \in Ways : Ends(NoteOf(j), how) /\ UNCHANGED <<lost, troubled>>
                                     /\ left' \in [Classes -> Nat]
        BY <1>2, <3>1, EndsType DEF NotifierTypeOK
      <3>2. CASE Loses({NoteOf(j)}) /\ UNCHANGED ended
        BY <1>2, <3>2, LosesType DEF NotifierTypeOK, Ways
      <3> QED
        BY <1>4, <3>1, <3>2
    <2>4. BurstInv' /\ sends' \in [Tokens -> Nat]
      BY <1>1, <1>4, BurstSent DEF Free
    <2>5. NotifierTypeOK'
      BY <1>1, <1>2, <1>4, <2>2, <2>3, <2>4 DEF NotifierTypeOK, Ways
    <2>6. ContractStep
      <3>1. CASE \E how \in Ways : Ends(NoteOf(j), how) /\ UNCHANGED <<lost, troubled>>
        BY <1>1, <1>2, <2>2, <3>1, EndStep
      <3>2. CASE Loses({NoteOf(j)}) /\ UNCHANGED ended
        <4>1. troubled' = TRUE /\ lost' = lost \cup {NoteOf(j)} /\ accepted \subseteq Note
          BY <3>2 DEF Loses, Fails, NotifierTypeOK
        <4> QED
          BY <1>1, <1>3, <2>2, <3>2, <4>1, LossStep
      <3> QED
        BY <1>4, <3>1, <3>2
    <2> QED
      BY <2>2, <2>4, <2>5, <2>6
  <1>5. CASE /\ j.retry < MaxRetries /\ Takes("error")
             /\ sender' = [sender EXCEPT ![s].job = TriedAgain(j), ![s].at = "postpone"]
             /\ UNCHANGED <<dlq, ended, lost, troubled>>
    <2> DEFINE k == TriedAgain(j)
               w == [sender[s] EXCEPT !.job = k, !.at = "postpone"]
    <2>1. k \in Job /\ NoteOf(k) = NoteOf(j)
      <3>1. j.retry + 1 \in 0 .. MaxRetries
        BY <1>2, <1>5, NotifierAssumption DEF Job
      <3>2. k = [j EXCEPT !.retry = j.retry + 1]
        BY DEF TriedAgain
      <3> HIDE DEF j, k
      <3> QED
        BY <1>2, <3>1, <3>2 DEF Job, NoteOf
    <2>2. sender' = [sender EXCEPT ![s] = w]
      BY <1>2, <1>5 DEF Sending, NotifierTypeOK
    <2> HIDE DEF k
    <2>3. w \in Sending /\ w.at = "postpone" /\ w.job = k
      BY <1>2, <2>1 DEF Sending
    <2> HIDE DEF w
    <2>4. Kept' = Kept /\ HandInv'
      BY <1>1, <1>2, <1>5, <2>1, <2>2, <2>3, WorkerGoes
    <2>5. BurstInv' /\ sends' \in [Tokens -> Nat]
      BY <1>1, <2>2, <2>3, BurstSent
    <2>6. left' \in [Classes -> Nat]
      BY <1>5, TakesType DEF NotifierTypeOK
    <2>7. NotifierTypeOK'
      <3>1. sender' \in [Senders -> {Idle} \cup Sending]
        BY <2>2, <2>3 DEF NotifierTypeOK
      <3>2. UNCHANGED <<high, global, delayed, due, count, expiring, uncounted, token, drain,
                        accepted, dlq, ended, lost, troubled>>
        BY <1>1, <1>5
      <3> QED
        BY <2>5, <2>6, <3>1, <3>2 DEF NotifierTypeOK
    <2> QED
      BY <1>1, <1>5, <2>4, <2>5, <2>7 DEF ContractStep, Stutters, contractVars
  <1>6. CASE \E how \in Answers : Ends(NoteOf(j), how) /\ Free(s) /\ Works /\ UNCHANGED <<dlq, lost>>
    BY <1>4, <1>6, FailsType DEF Answers, Ways, Works
  <1>7. CASE /\ Takes("error") /\ dlq' = dlq \cup {j} /\ Ends(NoteOf(j), "buried") /\ Free(s)
             /\ UNCHANGED <<lost, troubled>>
    BY <1>4, <1>7, TakesType DEF NotifierTypeOK, Ways
  <1>8. CASE Loses({NoteOf(j)}) /\ Free(s) /\ UNCHANGED <<dlq, ended>>
    BY <1>4, <1>8
  <1> QED
    BY <1>5, <1>6, <1>7, <1>8 DEF Send

\* Putting a job off.
LEMMA PostponeStep ==
    ASSUME NotifierInv, NEW s \in Senders, DelayEnqueue(s)
    PROVE  NotifierInv' /\ ContractStep
  <1> USE DEF NotifierInv
  <1> DEFINE j == sender[s].job
  <1>1. /\ At(s, "postpone") /\ Free(s)
        /\ UNCHANGED <<high, global, dlq, bucketVars, token, drain, accepted, ended>>
    BY DEF DelayEnqueue
  <1>2. /\ sender[s] \in Sending /\ sender[s].at = "postpone" /\ j \in Job
        /\ NoteOf(j) \in Note /\ sender[s] # Idle /\ Own(sender[s]) = {NoteOf(j)}
    BY <1>1, HasJob DEF At
  <1>3. BurstInv'
    BY <1>1, <1>2, BurstElsewhere DEF Free, At, bucketVars
  <1>4. NoteOf(j) \in Kept
    BY <1>2 DEF Kept, InHand
  <1>5. CASE delayed' = delayed \cup {j} /\ due' = due \ {j} /\ Works /\ UNCHANGED lost
    <2>1. sender' = [sender EXCEPT ![s] = Idle] /\ Own(Idle) = {}
      BY <1>1 DEF Free, Own
    <2>2. PICK others : Carried = others \cup {NoteOf(j)} /\ Carried' = others
      BY <1>2, <2>1, CarriedBy
    <2>3. Listed' = Listed \cup {NoteOf(j)} /\ Drained' = Drained
      BY <1>1, <1>5 DEF Listed, Drained
    <2>4. Kept' = Kept
      BY <2>2, <2>3, KeptIs
    <2>5. NotifierTypeOK'
      BY <1>1, <1>2, <1>5, <2>1 DEF NotifierTypeOK, Works, bucketVars
    <2>6. HandInv'
      BY <1>1, <1>5, <2>4, KeptAccepted DEF HandInv, LoopInv
    <2> QED
      BY <1>1, <1>3, <1>5, <2>4, <2>5, <2>6 DEF ContractStep, Stutters, contractVars, Works
  <1>6. CASE Loses({NoteOf(j)}) /\ UNCHANGED <<delayed, due>>
    <2>1. /\ left' \in [Classes -> Nat] /\ troubled' = TRUE
          /\ lost' = lost \cup {NoteOf(j)} /\ lost' \subseteq Note
      BY <1>2, <1>6, LosesType
    <2>2. /\ Kept = Kept' \cup {NoteOf(j)} /\ HandInv'
          /\ sender' \in [Senders -> {Idle} \cup Sending]
      BY <1>1, <1>4, <1>6, <2>1, WorkerFree
    <2>3. NotifierTypeOK'
      BY <1>1, <1>6, <2>1, <2>2 DEF NotifierTypeOK, bucketVars
    <2>4. ContractStep
      BY <1>1, <1>4, <2>1, <2>2, LossStep DEF NotifierTypeOK
    <2> QED
      BY <1>3, <2>2, <2>3, <2>4
  <1> QED
    BY <1>5, <1>6 DEF DelayEnqueue

-----------------------------------------------------------------------------
(* Time, and the loop.                                                     *)

\* Steps that move no job and begin no call.
LEMMA AsideStep ==
    ASSUME NotifierInv, UNCHANGED <<high, global, delayed, sender, accepted, ended, lost>>,
           Drained' = Drained, LoopInv',
           UNCHANGED troubled \/ troubled' = TRUE
    PROVE  HandInv' /\ ContractStep
  <1> USE DEF NotifierInv
  <1>1. Listed' = Listed /\ Carried' = Carried
    BY DEF Listed, Carried, Own
  <1>2. Kept' = Kept
    BY <1>1, KeptIs
  <1>3. HandInv'
    BY <1>2, KeptAccepted
  <1>4. CASE UNCHANGED troubled
    BY <1>2, <1>3, <1>4 DEF ContractStep, Stutters, contractVars
  <1>5. CASE troubled' = TRUE
    BY <1>2, <1>3, <1>5, NoLoss
  <1> QED
    BY <1>3, <1>4, <1>5

LEMMA TimeStep ==
    ASSUME NotifierInv,
           \/ \E j \in delayed : DelayPasses(j)
           \/ \E t \in Tokens : WindowEnds(t)
           \/ \E u \in Users, t \in Tokens \cup {NoToken} : UpdateFcmToken(u, t)
    PROVE  NotifierInv' /\ ContractStep
  <1> USE DEF NotifierInv
  <1>1. UNCHANGED <<high, global, delayed, dlq, sender, drain, accepted, ended, lost, troubled>>
    BY DEF DelayPasses, WindowEnds, UpdateFcmToken, contractVars, redisVars
  <1>2. HandInv' /\ ContractStep
    BY <1>1, AsideStep DEF HandInv, LoopInv, Drained
  <1>3. ASSUME NEW j \in delayed, DelayPasses(j)
        PROVE  NotifierTypeOK' /\ BurstInv'
    <2>1. UNCHANGED <<bucketVars, sender, left, token>> /\ due' = due \cup {j}
      BY <1>3 DEF DelayPasses
    <2> QED
      BY <1>1, <2>1, BurstAlone DEF NotifierTypeOK, bucketVars
  <1>4. ASSUME NEW t \in Tokens, WindowEnds(t)
        PROVE  NotifierTypeOK' /\ BurstInv'
    <2>1. /\ expiring' = expiring \ {t} /\ count' = [count EXCEPT ![t] = 0]
          /\ sends' = [sends EXCEPT ![t] = 0] /\ uncounted' = [uncounted EXCEPT ![t] = 0]
          /\ UNCHANGED <<due, token, left>>
      BY <1>4 DEF WindowEnds, redisVars
    <2>2. NotifierTypeOK'
      BY <1>1, <2>1 DEF NotifierTypeOK
    <2>3. \A u \in Tokens : Sends(u)' = Sends(u)
      BY <1>1 DEF Sends, At
    <2>4. ASSUME NEW u \in Tokens
          PROVE  (sends[u] + Cardinality(Sends(u)) <=
                     (IF count[u] > BurstLimit THEN BurstLimit ELSE count[u])
                         + Cardinality(Senders) + uncounted[u])'
      <3>1. CASE u = t
        <4>1. sends'[u] = 0 /\ count'[u] = 0 /\ uncounted'[u] = 0
          BY <2>1, <3>1 DEF NotifierTypeOK
        <4> QED
          BY <2>3, <4>1, SendsFinite, NotifierAssumption
      <3>2. CASE u # t
        <4>1. sends'[u] = sends[u] /\ count'[u] = count[u] /\ uncounted'[u] = uncounted[u]
          BY <2>1, <3>2 DEF NotifierTypeOK
        <4> QED
          BY <2>3, <4>1 DEF BurstInv
      <3> QED
        BY <3>1, <3>2
    <2> QED
      BY <2>2, <2>4 DEF BurstInv
  <1>5. ASSUME NEW u \in Users, NEW t \in Tokens \cup {NoToken}, UpdateFcmToken(u, t)
        PROVE  NotifierTypeOK' /\ BurstInv'
    <2>1. /\ token' = [token EXCEPT ![u] = t] /\ Takes("note")
          /\ UNCHANGED <<due, bucketVars, sender>>
      BY <1>5 DEF UpdateFcmToken, redisVars
    <2>2. left' \in [Classes -> Nat]
      BY <2>1, TakesType DEF NotifierTypeOK
    <2> QED
      BY <1>1, <2>1, <2>2, BurstAlone DEF NotifierTypeOK, bucketVars
  <1> QED
    BY <1>2, <1>3, <1>4, <1>5

\* The delayed loop.
LEMMA DrainReadStep ==
    ASSUME NotifierInv, DrainRead
    PROVE  NotifierInv' /\ ContractStep
  <1> USE DEF NotifierInv
  <1>1. /\ UNCHANGED <<redisVars, bucketVars, token, sender, left, contractVars>>
        /\ drain' = [on |-> TRUE, todo |-> due, hand |-> {}]
    BY DEF DrainRead
  <1>2. drain.hand = {}
    BY DEF DrainRead, HandInv, LoopInv
  <1>3. LoopInv' /\ NotifierTypeOK'
    BY <1>1 DEF LoopInv, NotifierTypeOK, redisVars, bucketVars, contractVars
  <1>4. Drained' = Drained
    BY <1>1, <1>2 DEF Drained
  <1>5. HandInv' /\ ContractStep
    BY <1>1, <1>3, <1>4, AsideStep DEF redisVars, contractVars
  <1> QED
    BY <1>1, <1>3, <1>5, BurstAlone

LEMMA DrainTakeStep ==
    ASSUME NotifierInv, NEW j \in drain.todo, DrainTake(j)
    PROVE  NotifierInv' /\ ContractStep
  <1> USE DEF NotifierInv
  <1>1. /\ drain.on /\ drain.hand = {} /\ j \in Job /\ j \in delayed
        /\ drain' = [on |-> TRUE, todo |-> drain.todo \ {j}, hand |-> {j}]
        /\ UNCHANGED <<high, global, dlq, bucketVars, token, sender, accepted, ended, lost>>
    BY DEF DrainTake, NotifierTypeOK, HandInv, LoopInv
  <1>2. /\ delayed' \in {delayed, delayed \ {j}} /\ due' \subseteq delayed'
        /\ left' \in [Classes -> Nat] /\ (UNCHANGED troubled \/ troubled' = TRUE)
    <2>1. CASE delayed' = Removed(j) /\ due' = due \cap delayed' /\ Works
      BY <2>1, FailsType DEF Removed, Works
    <2>2. CASE Fails /\ UNCHANGED <<delayed, due>>
      BY <2>2, FailsType DEF NotifierTypeOK
    <2> QED
      BY <2>1, <2>2 DEF DrainTake
  <1>3. LoopInv'
    BY <1>1, <1>2 DEF LoopInv, HandInv
  <1>4. NotifierTypeOK'
    BY <1>1, <1>2 DEF NotifierTypeOK, bucketVars
  <1>5. Carried' = Carried
    BY <1>1 DEF Carried, Own
  <1>6. Listed' \cup {NoteOf(j)} = Listed /\ Drained' = {NoteOf(j)} /\ Drained = {}
    BY <1>1, <1>2 DEF Listed, Drained
  <1>7. Kept' = Kept
    BY <1>5, <1>6, KeptIs
  <1>8. HandInv'
    BY <1>1, <1>3, <1>7, KeptAccepted
  <1>9. ContractStep
    <2>1. CASE UNCHANGED troubled
      BY <1>1, <1>7, <2>1 DEF ContractStep, Stutters, contractVars
    <2>2. CASE troubled' = TRUE
      BY <1>1, <1>7, <2>2, NoLoss
    <2> QED
      BY <1>2, <2>1, <2>2
  <1> QED
    BY <1>1, <1>4, <1>8, <1>9, BurstAlone

LEMMA DrainPushStep ==
    ASSUME NotifierInv, DrainPush
    PROVE  NotifierInv' /\ ContractStep
  <1> USE DEF NotifierInv
  <1>1. PICK j \in Job : drain.hand = {j}
    BY DEF DrainPush, HandInv, LoopInv
  <1>2. /\ drain' = [drain EXCEPT !.hand = {}, !.on = drain.todo # {}]
        /\ UNCHANGED <<high, delayed, due, dlq, bucketVars, token, sender, accepted, ended>>
        /\ \/ global' = Append(global, j) /\ Works /\ UNCHANGED lost
           \/ Loses({NoteOf(j)}) /\ UNCHANGED global
    BY <1>1 DEF DrainPush, Requeued
  <1>3. /\ drain' \in [on : BOOLEAN, todo : SUBSET Job, hand : SUBSET Job]
        /\ drain'.hand = {} /\ drain'.todo = drain.todo
    BY <1>2 DEF NotifierTypeOK
  <1>4. LoopInv' /\ NoteOf(j) \in Note
    BY <1>2, <1>3, NoteType DEF LoopInv, HandInv
  <1>5. Carried' = Carried /\ Drained = {NoteOf(j)} /\ Drained' = {}
    BY <1>1, <1>2, <1>3 DEF Carried, Own, Drained
  <1>6. CASE global' = Append(global, j) /\ Works /\ UNCHANGED lost
    <2>1. global' \in Seq(Job) /\ ToSet(global') = ToSet(global) \cup {j}
      BY <1>6, PushSet DEF NotifierTypeOK
    <2>2. Listed' = Listed \cup {NoteOf(j)}
      BY <1>2, <2>1 DEF Listed
    <2>3. Kept' = Kept
      BY <1>5, <2>2, KeptIs
    <2>4. NotifierTypeOK'
      BY <1>2, <1>3, <1>6, <2>1 DEF NotifierTypeOK, Works, bucketVars
    <2>5. HandInv'
      BY <1>2, <1>4, <1>6, <2>3, KeptAccepted
    <2> QED
      BY <1>2, <1>6, <2>3, <2>4, <2>5, BurstAlone
        DEF ContractStep, Stutters, contractVars, Works
  <1>7. CASE Loses({NoteOf(j)}) /\ UNCHANGED global
    <2>1. /\ left' \in [Classes -> Nat] /\ troubled' = TRUE
          /\ lost' = lost \cup {NoteOf(j)} /\ lost' \subseteq Note
      BY <1>4, <1>7, LosesType
    <2>2. Listed' = Listed
      BY <1>2, <1>7 DEF Listed
    <2>3. Kept = Kept' \cup {NoteOf(j)}
      BY <1>5, <2>2, KeptIs
    <2>4. NotifierTypeOK'
      BY <1>2, <1>3, <1>7, <2>1 DEF NotifierTypeOK, bucketVars
    <2>5. HandInv'
      BY <1>2, <1>4, <2>1, <2>3, KeptAccepted
    <2>6. ContractStep
      BY <1>2, <2>1, <2>3, LossStep DEF NotifierTypeOK
    <2> QED
      BY <1>2, <2>4, <2>5, <2>6, BurstAlone
  <1> QED
    BY <1>2, <1>6, <1>7

-----------------------------------------------------------------------------
(* All of them.                                                            *)

LEMMA NotifierNext ==
    ASSUME NotifierInv, NotifierStep
    PROVE  NotifierInv' /\ ContractStep
  <1>1. ASSUME NEW s \in Senders, SenderStep(s)
        PROVE  NotifierInv' /\ ContractStep
    BY <1>1, PopStep, LookStep, CountStep, SendStep, PostponeStep DEF SenderStep
  <1>2. CASE DrainStep
    BY <1>2, DrainReadStep, DrainTakeStep, DrainPushStep DEF DrainStep
  <1> QED
    BY <1>1, <1>2, TimeStep DEF NotifierStep

\* The server stops.
LEMMA RestartStep ==
    ASSUME NotifierInv, Restart
    PROVE  NotifierInv' /\ ContractStep
  <1> USE DEF NotifierInv
  <1>1. /\ Loses(InHand) /\ sender' = [s \in Senders |-> Idle]
        /\ drain' = [on |-> FALSE, todo |-> {}, hand |-> {}]
        /\ UNCHANGED <<high, global, delayed, due, dlq, bucketVars, token, accepted, ended>>
    BY DEF Restart, redisVars
  <1>2. Carried' = {} /\ Drained' = {} /\ Listed' = Listed
    BY <1>1 DEF Carried, Own, Drained, Listed
  <1>3. InHand = Carried \cup Drained
    BY DEF InHand, Carried, Drained, Own
  <1>4. Kept = Kept' \cup InHand
    BY <1>2, <1>3, KeptIs
  <1>5. InHand \subseteq Note
    BY <1>4 DEF HandInv, NotifierTypeOK
  <1>6. /\ left' \in [Classes -> Nat] /\ troubled' = TRUE
        /\ lost' = lost \cup InHand /\ lost' \subseteq Note
    BY <1>1, <1>5, LosesType
  <1>7. NotifierTypeOK'
    BY <1>1, <1>6 DEF NotifierTypeOK, bucketVars
  <1>8. HandInv'
    BY <1>1, <1>4, <1>6, KeptAccepted DEF LoopInv
  <1>9. ContractStep
    BY <1>1, <1>4, <1>6, LossStep DEF NotifierTypeOK
  <1>10. BurstInv'
    <2> SUFFICES ASSUME NEW t \in Tokens
                 PROVE  (sends[t] + Cardinality(Sends(t)) <=
                            (IF count[t] > BurstLimit THEN BurstLimit ELSE count[t])
                                + Cardinality(Senders) + uncounted[t])'
      BY DEF BurstInv
    <2>1. Sends(t)' = {}
      BY <1>1 DEF Sends, At
    <2>2. Cardinality(Sends(t)') = 0
      BY <2>1, FS_EmptySet
    <2>3. sends'[t] = sends[t] /\ count'[t] = count[t] /\ uncounted'[t] = uncounted[t]
      BY <1>1 DEF bucketVars
    <2>4. sends[t] \in Nat /\ count[t] \in Nat /\ uncounted[t] \in Nat
      BY DEF NotifierTypeOK
    <2> QED
      BY <2>2, <2>3, <2>4, SendsFinite, NotifierAssumption DEF BurstInv
  <1> QED
    BY <1>7, <1>8, <1>9, <1>10

\* A note is handed over.
LEMMA EnqueueStep ==
    ASSUME NotifierInv, NEW n \in Note, NEW rest \in [Classes -> Nat], Enqueue(n, rest)
    PROVE  NotifierInv' /\ ContractStep
  <1> USE DEF NotifierInv
  <1> DEFINE j == [user |-> n.user, subject |-> n.subject, priority |-> n.priority, retry |-> 0]
  <1>1. /\ accepted' = accepted \cup {n}
        /\ UNCHANGED <<delayed, due, dlq, bucketVars, token, sender, drain, ended>>
    BY DEF Enqueue
  <1>2. j \in Job /\ NoteOf(j) = n
    BY NotifierAssumption DEF Note, Job, NoteOf
  <1> HIDE DEF j
  <1>3. Carried' = Carried /\ Drained' = Drained
    BY <1>1 DEF Carried, Own, Drained
  <1>4. LoopInv'
    BY <1>1 DEF HandInv, LoopInv
  <1>5. BurstInv'
    BY <1>1, BurstAlone
  <1>6. CASE Pushed(j) /\ left' = rest /\ UNCHANGED <<lost, troubled>>
    <2>1. /\ high' \in Seq(Job) /\ global' \in Seq(Job)
          /\ ToSet(high') \cup ToSet(global') = ToSet(high) \cup ToSet(global) \cup {j}
      <3>1. CASE high' = Append(high, j) /\ global' = global
        BY <1>2, <3>1, PushSet DEF NotifierTypeOK
      <3>2. CASE global' = Append(global, j) /\ high' = high
        BY <1>2, <3>2, PushSet DEF NotifierTypeOK
      <3> QED
        BY <1>6, <3>1, <3>2 DEF Pushed
    <2>2. Listed' = Listed \cup {n}
      BY <1>1, <1>2, <2>1 DEF Listed
    <2>3. Kept' = Kept \cup {n}
      BY <1>3, <2>2, KeptIs
    <2>4. NotifierTypeOK'
      BY <1>1, <1>6, <2>1 DEF NotifierTypeOK, bucketVars
    <2>5. HandInv'
      BY <1>1, <1>4, <1>6, <2>3 DEF HandInv
    <2>6. Contract!Accept(n)
      BY <1>1, <1>6, <2>3 DEF Contract!Accept
    <2> QED
      BY <1>5, <2>4, <2>5, <2>6 DEF ContractStep, Contract!Next
  <1>7. CASE /\ rest["fault"] > 0 /\ left' = [rest EXCEPT !["fault"] = @ - 1]
             /\ troubled' = TRUE /\ lost' = lost \cup {n} /\ UNCHANGED <<high, global>>
    <2>1. Kept' = Kept
      BY <1>1, <1>3, <1>7, KeptIs DEF Listed
    <2>2. left' \in [Classes -> Nat]
      <3>1. left' = [rest EXCEPT !["fault"] = rest["fault"] - 1]
        BY <1>7
      <3> QED
        BY <1>7, <3>1 DEF Classes
    <2>3. NotifierTypeOK'
      BY <1>1, <1>7, <2>2 DEF NotifierTypeOK, bucketVars
    <2>4. HandInv'
      BY <1>1, <1>4, <1>7, <2>1 DEF HandInv
    <2>5. Contract!Trouble
      BY <1>1, <1>7, <2>1 DEF Contract!Trouble, HandInv, NotifierTypeOK
    <2> QED
      BY <1>5, <2>3, <2>4, <2>5 DEF ContractStep, Contract!Next
  <1> QED
    BY <1>6, <1>7 DEF Enqueue, j

LEMMA NotifierStarts ==
    ASSUME NotifierInit
    PROVE  NotifierInv /\ Contract!Init
  <1>1. /\ high = <<>> /\ global = <<>> /\ delayed = {} /\ drain.hand = {} /\ drain.todo = {}
        /\ sender = [s \in Senders |-> Idle] /\ accepted = {} /\ lost = {} /\ ended = {}
        /\ troubled = FALSE
    BY DEF NotifierInit
  <1>2. Kept = {}
    <2>1. ToSet(high) = {} /\ ToSet(global) = {}
      BY <1>1 DEF ToSet
    <2> QED
      BY <1>1, <2>1 DEF Kept, InHand
  <1>3. NotifierTypeOK
    <2>1. left \in [Classes -> Nat] /\ token \in [Users -> Tokens \cup {NoToken}]
      BY NotifierAssumption DEF NotifierInit
    <2>2. /\ count \in [Tokens -> Nat] /\ sends \in [Tokens -> Nat]
          /\ uncounted \in [Tokens -> Nat] /\ expiring = {} /\ due = {} /\ dlq = {}
      BY DEF NotifierInit
    <2>3. /\ sender \in [Senders -> {Idle} \cup Sending]
          /\ drain \in [on : BOOLEAN, todo : SUBSET Job, hand : SUBSET Job]
      BY <1>1 DEF NotifierInit
    <2>4. high \in Seq(Job) /\ global \in Seq(Job)
      BY <1>1
    <2> QED
      BY <1>1, <2>1, <2>2, <2>3, <2>4 DEF NotifierTypeOK
  <1>4. HandInv
    BY <1>1, <1>2 DEF HandInv, LoopInv
  <1>5. BurstInv
    <2> SUFFICES ASSUME NEW t \in Tokens
                 PROVE  sends[t] + Cardinality(Sends(t)) <=
                            (IF count[t] > BurstLimit THEN BurstLimit ELSE count[t])
                                + Cardinality(Senders) + uncounted[t]
      BY DEF BurstInv
    <2>1. Sends(t) = {}
      BY <1>1 DEF Sends, At
    <2>2. sends[t] = 0 /\ count[t] = 0 /\ uncounted[t] = 0
      BY DEF NotifierInit
    <2> QED
      BY <2>1, <2>2, SendsFinite, FS_EmptySet, NotifierAssumption
  <1> QED
    BY <1>1, <1>2, <1>3, <1>4, <1>5 DEF NotifierInv, Contract!Init

\* The calls made for one device are the limit, and one for each worker.
LEMMA BurstFollows ==
    ASSUME NotifierInv
    PROVE  BurstKept
  <1> SUFFICES ASSUME NEW t \in Tokens
               PROVE  sends[t] <= BurstLimit + Cardinality(Senders) + uncounted[t]
    BY DEF BurstKept
  <1>1. sends[t] \in Nat /\ count[t] \in Nat /\ uncounted[t] \in Nat
    BY DEF NotifierInv, NotifierTypeOK
  <1> QED
    BY <1>1, SendsFinite, NotifierAssumption DEF NotifierInv, BurstInv


-----------------------------------------------------------------------------
(* The dispatcher, while the search goes on.                               *)

LEMMA InvParts ==
    ASSUME DispatchInv
    PROVE  TypeOK /\ NotifierInv /\ FinderInv /\ SpamInv
  BY DEF DispatchInv, TypeOK, NotifierInv

\* A step of the search leaves the dispatcher alone, but for what it spends.
LEMMA ServerStep ==
    ASSUME NotifierInv, NotifierRests,
           Works \/ Fails \/ \E class : Takes(class) /\ UNCHANGED troubled
    PROVE  NotifierInv' /\ ContractStep
  <1>1. UNCHANGED <<high, global, delayed, due, dlq, bucketVars, token, sender, drain, accepted,
                    ended, lost>>
    BY DEF NotifierRests, redisVars
  <1>2. left' \in [Classes -> Nat] /\ (UNCHANGED troubled \/ troubled' = TRUE)
    BY TakesType, FailsType DEF Works, NotifierInv, NotifierTypeOK
  <1>3. NotifierTypeOK'
    BY <1>1, <1>2 DEF NotifierInv, NotifierTypeOK, bucketVars
  <1>4. HandInv' /\ ContractStep
    BY <1>1, <1>2, AsideStep DEF NotifierInv, HandInv, LoopInv, Drained
  <1>5. BurstInv'
    BY <1>1, BurstAlone DEF NotifierInv
  <1> QED
    BY <1>3, <1>4, <1>5 DEF NotifierInv

-----------------------------------------------------------------------------
(* Finders.                                                                *)

LEMMA FindersFinite ==
    /\ IsFiniteSet(Finders) /\ Cardinality(Finders) \in Nat
    /\ \A S \in SUBSET Finders : IsFiniteSet(S) /\ Cardinality(S) \in Nat
                                 /\ Cardinality(S) <= Cardinality(Finders)
  <1>1. IsFiniteSet({Cron})
    BY FS_Singleton
  <1>2. IsFiniteSet(Finders)
    BY <1>1, MatchingAssumption, FS_Union DEF Finders
  <1> QED
    BY <1>2, FS_Subset, FS_CardinalityType

\* Who tells a runner of an order, or is about to.
Tells(f) == Doing(f, "mark") \/ Doing(f, "push")

LEMMA SpamAlone ==
    ASSUME SpamInv, UNCHANGED coolingVars,
           \A p \in Pairs : Marks(p)' = Marks(p) /\ Pushes(p)' = Pushes(p)
    PROVE  SpamInv'
  BY DEF SpamInv, coolingVars

\* A finder that is not telling a runner, and will not be next.
LEMMA FinderGoes ==
    ASSUME DispatchInv, NEW f \in Finders, NEW w \in Work \cup {Idle},
           finder' = [finder EXCEPT ![f] = w], ~Tells(f),
           w = Idle \/ w.at \notin {"mark", "push"}, UNCHANGED coolingVars
    PROVE  finder' \in [Finders -> Work \cup {Idle}] /\ FinderInv' /\ SpamInv'
  <1>1. /\ finder' = [g \in Finders |-> IF g = f THEN w ELSE finder[g]]
        /\ finder' \in [Finders -> Work \cup {Idle}]
    BY DEF DispatchInv, TypeOK
  <1>2. FinderInv'
    BY <1>1 DEF DispatchInv, FinderInv, Doing
  <1>3. \A p \in Pairs : Marks(p)' = Marks(p) /\ Pushes(p)' = Pushes(p)
    BY <1>1 DEF Marks, Pushes, Doing, Tells
  <1> QED
    BY <1>1, <1>2, <1>3, SpamAlone DEF DispatchInv

\* Nothing about the finders changes.
LEMMA FindersRest ==
    ASSUME DispatchInv, UNCHANGED <<finder, coolingVars>>
    PROVE  finder' \in [Finders -> Work \cup {Idle}] /\ FinderInv' /\ SpamInv'
  <1>1. \A p \in Pairs : Marks(p)' = Marks(p) /\ Pushes(p)' = Pushes(p)
    BY DEF Marks, Pushes, Doing
  <1> QED
    BY <1>1, SpamAlone DEF DispatchInv, TypeOK, FinderInv, Doing

\* The best of some runners are some of them.
LEMMA BestType ==
    ASSUME NEW S, NEW R \in Best(S)
    PROVE  R \subseteq S
  BY DEF Best, kSubset

LEMMA BeginsOK ==
    ASSUME DispatchInv, NEW f \in Finders, finder[f] = Idle, NEW o \in Orders,
           NEW step \in {"find", "dispatch"}, NEW runners \in SUBSET Runners,
           Begins(f, o, step, runners), UNCHANGED coolingVars
    PROVE  finder' \in [Finders -> Work \cup {Idle}] /\ FinderInv' /\ SpamInv'
  <1> DEFINE w == [order |-> o, row |-> row[o], at |-> step, todo |-> runners, hand |-> {},
                   found |-> {},
                   silent |-> {r \in runners : step = "dispatch" /\ token[r] = NoToken}]
  <1>1. w \in Work /\ w.at \notin {"mark", "push"}
    BY DEF DispatchInv, TypeOK, Work
  <1>2. finder' = [finder EXCEPT ![f] = w]
    BY DEF Begins
  <1>3. ~Tells(f)
    BY DEF Tells, Doing
  <1> HIDE DEF w
  <1> QED
    BY <1>1, <1>2, <1>3, FinderGoes

\* A finder at a step of its work.
LEMMA AtWork ==
    ASSUME DispatchInv, NEW f \in Finders, NEW step, Doing(f, step)
    PROVE  /\ finder[f] \in Work /\ finder[f] # Idle /\ finder[f].at = step
           /\ step \notin {"mark", "push"} => ~Tells(f)
  BY DEF DispatchInv, TypeOK, Doing, Tells

-----------------------------------------------------------------------------
(* Orders and runners: the steps that no finder takes.                     *)

\* What is left to show of a step that leaves the finders alone.
LEMMA QuietStep ==
    ASSUME DispatchInv, NotifierRests, UNCHANGED <<finder, coolingVars>>,
           Works \/ Fails \/ \E class : Takes(class) /\ UNCHANGED troubled,
           row' \in [Orders -> Row], queue' \in Seq(Orders), Len(queue') <= QueueSize,
           post' \in [Orders -> 0 .. Attempts], overflow' \subseteq Orders, sweep' \subseteq Orders,
           online' \subseteq Runners, track' \subseteq Runners, near' \subseteq Runners,
           live' \subseteq Runners, beat' \subseteq Runners
    PROVE  DispatchInv' /\ ContractStep
  <1>1. NotifierInv' /\ ContractStep
    BY InvParts, ServerStep
  <1>2. finder' \in [Finders -> Work \cup {Idle}] /\ FinderInv' /\ SpamInv'
    BY FindersRest
  <1>3. TypeOK'
    BY <1>1, <1>2 DEF DispatchInv, TypeOK, NotifierInv, coolingVars
  <1> QED
    BY <1>1, <1>2, <1>3 DEF DispatchInv, NotifierInv

LEMMA OrderStepOK ==
    ASSUME DispatchInv, NEW o \in Orders, OrderStep(o)
    PROVE  DispatchInv' /\ ContractStep
  <1>1. PICK status \in {"waiting", "taken"} : row' = [row EXCEPT ![o].status = status]
    BY DEF OrderStep, Create, ReassignOrder, AcceptOrder
  <1>2. row' \in [Orders -> Row]
    <2>1. row[o] \in Row
      BY DEF DispatchInv, TypeOK
    <2>2. [row[o] EXCEPT !.status = status] \in Row
      BY <2>1 DEF Row
    <2> QED
      BY <1>1, <2>2 DEF DispatchInv, TypeOK
  <1>3. post' \in [Orders -> 0 .. Attempts]
    <2>1. post' = [post EXCEPT ![o] = Attempts] \/ UNCHANGED post
      BY DEF OrderStep, Create, ReassignOrder, AcceptOrder, Posts, queueVars
    <2>2. Attempts \in 0 .. Attempts
      BY MatchingAssumption
    <2> QED
      BY <2>1, <2>2 DEF DispatchInv, TypeOK
  <1>4. /\ UNCHANGED <<queue, overflow, finder, sweep, presenceVars, coolingVars>>
        /\ NotifierRests /\ UNCHANGED troubled /\ \E class : Takes(class)
    BY DEF OrderStep, Create, ReassignOrder, AcceptOrder, Posts, Spends, queueVars
  <1> QED
    BY <1>2, <1>3, <1>4, QuietStep DEF DispatchInv, TypeOK, presenceVars

LEMMA EnqueueMatchingStep ==
    ASSUME DispatchInv, NEW o \in Orders, EnqueueMatching(o)
    PROVE  DispatchInv' /\ ContractStep
  <1>1. /\ NotifierRests /\ UNCHANGED <<row, finder, sweep, presenceVars, coolingVars>>
        /\ Works \/ Fails
    BY DEF EnqueueMatching
  <1>2. queue' \in Seq(Orders) /\ Len(queue') <= QueueSize
    <2>1. queue \in Seq(Orders) /\ Len(queue) <= QueueSize /\ QueueSize \in Nat
      BY MatchingAssumption DEF DispatchInv, TypeOK
    <2>2. CASE HasRoom /\ queue' = Append(queue, o)
      BY <2>1, <2>2 DEF HasRoom
    <2>3. CASE UNCHANGED queue
      BY <2>1, <2>3
    <2> QED
      BY <2>2, <2>3 DEF EnqueueMatching
  <1>3. post' \in [Orders -> 0 .. Attempts]
    <2>1. post[o] - 1 \in 0 .. Attempts /\ 0 \in 0 .. Attempts
      BY MatchingAssumption DEF EnqueueMatching, DispatchInv, TypeOK
    <2>2. post' = [post EXCEPT ![o] = 0] \/ post' = [post EXCEPT ![o] = post[o] - 1]
      BY DEF EnqueueMatching
    <2> QED
      BY <2>1, <2>2 DEF DispatchInv, TypeOK
  <1>4. overflow' \subseteq Orders
    BY DEF EnqueueMatching, DispatchInv, TypeOK
  <1> QED
    BY <1>1, <1>2, <1>3, <1>4, QuietStep DEF DispatchInv, TypeOK, presenceVars

LEMMA RunnerStepOK ==
    ASSUME DispatchInv, NEW r \in Runners, RunnerStep(r) \/ GeoAdd(r)
    PROVE  DispatchInv' /\ ContractStep
  <1>1. /\ NotifierRests /\ UNCHANGED <<row, queueVars, finder, sweep, coolingVars>>
        /\ Works \/ Fails \/ \E class : Takes(class) /\ UNCHANGED troubled
    BY DEF RunnerStep, UpdateHeartbeat, UpdateLocation, UpdateAcceptingOrders, KeysExpire, GeoAdd,
           Spends
  <1>2. /\ online' \subseteq Runners /\ track' \subseteq Runners /\ near' \subseteq Runners
        /\ live' \subseteq Runners /\ beat' \subseteq Runners
    BY DEF RunnerStep, UpdateHeartbeat, UpdateLocation, UpdateAcceptingOrders, KeysExpire, GeoAdd,
           DispatchInv, TypeOK
  <1> QED
    BY <1>1, <1>2, QuietStep DEF DispatchInv, TypeOK, queueVars

LEMMA ScanStep ==
    ASSUME DispatchInv, EscalateScan
    PROVE  DispatchInv' /\ ContractStep
  <1>1. Unassigned \subseteq Orders
    BY MatchingAssumption DEF Unassigned
  <1> QED
    BY <1>1, QuietStep DEF EscalateScan, DispatchInv, TypeOK, queueVars, presenceVars

-----------------------------------------------------------------------------
(* The search.                                                             *)

\* What is left to show of a step of a finder.
LEMMA FinderStepOK ==
    ASSUME DispatchInv, NotifierRests, Works \/ Fails,
           finder' \in [Finders -> Work \cup {Idle}], FinderInv', SpamInv',
           row' \in [Orders -> Row], queue' \in Seq(Orders), Len(queue') <= QueueSize,
           UNCHANGED <<post, overflow, online, track, near, beat>>,
           sweep' \subseteq Orders, live' \subseteq Runners,
           cooling' \subseteq Pairs, unmarked' \in [Pairs -> Nat], pushes' \in [Pairs -> Nat]
    PROVE  DispatchInv' /\ ContractStep
  <1>1. NotifierInv' /\ ContractStep
    BY InvParts, ServerStep
  <1>2. TypeOK'
    BY <1>1 DEF DispatchInv, TypeOK, NotifierInv
  <1> QED
    BY <1>1, <1>2 DEF DispatchInv, NotifierInv

LEMMA SearchesOK ==
    ASSUME DispatchInv, NEW f \in Finders, finder[f] = Idle, NEW o \in Orders, Searches(f, o),
           UNCHANGED coolingVars
    PROVE  /\ Works \/ Fails
           /\ finder' \in [Finders -> Work \cup {Idle}] /\ FinderInv' /\ SpamInv'
  <1>1. live \subseteq Runners
    BY DEF DispatchInv, TypeOK
  <1>2. \A S \in Best(NearInDatabase) : S \subseteq Runners
    BY BestType DEF NearInDatabase
  <1> QED
    BY <1>1, <1>2, BeginsOK DEF Searches

LEMMA ProcessStep ==
    ASSUME DispatchInv, NEW f \in Finders, ProcessMatching(f)
    PROVE  DispatchInv' /\ ContractStep
  <1>1. /\ NotifierRests /\ UNCHANGED <<row, post, overflow, sweep, presenceVars, coolingVars>>
        /\ finder[f] = Idle /\ queue # <<>> /\ queue' = Tail(queue)
    BY DEF ProcessMatching
  <1>2. queue \in Seq(Orders) /\ Len(queue) <= QueueSize /\ QueueSize \in Nat
    BY MatchingAssumption DEF DispatchInv, TypeOK
  <1>3. Head(queue) \in Orders /\ queue' \in Seq(Orders) /\ Len(queue') <= QueueSize
    BY <1>1, <1>2
  <1>4. /\ Works \/ Fails
        /\ finder' \in [Finders -> Work \cup {Idle}] /\ FinderInv' /\ SpamInv'
    <2>1. \A S \in Best(OnTrip) : S \subseteq Runners
      BY MatchingAssumption, BestType
    <2>2. CASE (\E S \in Best(OnTrip) : Begins(f, Head(queue), "dispatch", S)) /\ Works
      BY <1>1, <1>3, <2>1, <2>2, BeginsOK
    <2>3. CASE Searches(f, Head(queue))
      BY <1>1, <1>3, <2>3, SearchesOK
    <2>4. CASE Fails /\ UNCHANGED finder
      BY <1>1, <2>4, FindersRest
    <2> QED
      BY <2>2, <2>3, <2>4 DEF ProcessMatching
  <1> QED
    BY <1>1, <1>3, <1>4, FinderStepOK DEF DispatchInv, TypeOK, presenceVars, coolingVars

LEMMA EscalateStep ==
    ASSUME DispatchInv, NEW o \in Orders, EscalateMatching(o)
    PROVE  DispatchInv' /\ ContractStep
  <1>1. /\ NotifierRests /\ UNCHANGED <<row, queueVars, presenceVars, coolingVars>>
        /\ finder[Cron] = Idle /\ sweep' = sweep \ {o} /\ Cron \in Finders
    BY DEF EscalateMatching, Finders
  <1>2. /\ Works \/ Fails
        /\ finder' \in [Finders -> Work \cup {Idle}] /\ FinderInv' /\ SpamInv'
    BY <1>1, SearchesOK, FindersRest DEF EscalateMatching
  <1> QED
    BY <1>1, <1>2, FinderStepOK DEF DispatchInv, TypeOK, queueVars, presenceVars, coolingVars

\* A step that only moves a finder along, while it looks for runners or leaves some out.
LEMMA MovesAlong ==
    ASSUME DispatchInv, NEW f \in Finders, NEW w \in Work \cup {Idle},
           finder' = [finder EXCEPT ![f] = w], ~Tells(f), w = Idle \/ w.at \notin {"mark", "push"},
           NotifierRests, Works \/ Fails, live' \subseteq live, row' \in [Orders -> Row],
           UNCHANGED <<queueVars, sweep, online, track, near, beat, coolingVars>>
    PROVE  DispatchInv' /\ ContractStep
  <1>1. finder' \in [Finders -> Work \cup {Idle}] /\ FinderInv' /\ SpamInv'
    BY FinderGoes
  <1> QED
    BY <1>1, FinderStepOK DEF DispatchInv, TypeOK, queueVars, coolingVars

LEMMA CheckTrackStep ==
    ASSUME DispatchInv, NEW f \in Finders, NEW r \in Runners, CheckTrack(f, r)
    PROVE  DispatchInv' /\ ContractStep
  <1>1. /\ Doing(f, "find") /\ NotifierRests /\ (Works \/ Fails)
        /\ UNCHANGED <<row, queueVars, sweep, presenceVars, coolingVars>>
    BY DEF CheckTrack
  <1>2. finder[f] \in Work /\ finder[f].at = "find" /\ ~Tells(f)
    BY <1>1, AtWork
  <1>3. PICK w \in Work : finder' = [finder EXCEPT ![f] = w] /\ w.at \notin {"mark", "push"}
    <2>1. CASE Keeps(f, r)
      <3> DEFINE found == IF r \in online THEN finder[f].found \cup {r} ELSE finder[f].found
                 silent == IF token[r] = NoToken THEN finder[f].silent \cup {r}
                                                 ELSE finder[f].silent
                 w == [finder[f] EXCEPT !.todo = finder[f].todo \ {r}, !.found = found,
                                        !.silent = silent]
      <3>1. finder' = [finder EXCEPT ![f] = w]
        BY <1>2, <2>1 DEF Keeps, Work, DispatchInv, TypeOK
      <3>2. found \subseteq Runners /\ silent \subseteq Runners
        BY <1>2 DEF Work
      <3> HIDE DEF found, silent
      <3>3. w \in Work /\ w.at = "find"
        BY <1>2, <3>2 DEF Work
      <3> QED
        BY <3>1, <3>3
    <2>2. CASE finder' = [finder EXCEPT ![f].todo = @ \ {r}, ![f].hand = {r}, ![f].at = "prune"]
      <3> DEFINE w == [finder[f] EXCEPT !.todo = finder[f].todo \ {r}, !.hand = {r}, !.at = "prune"]
      <3>1. finder' = [finder EXCEPT ![f] = w]
        BY <1>2, <2>2 DEF Work, DispatchInv, TypeOK
      <3>2. w \in Work /\ w.at = "prune"
        BY <1>2 DEF Work
      <3> QED
        BY <3>1, <3>2
    <2> QED
      BY <2>1, <2>2 DEF CheckTrack
  <1> QED
    BY <1>1, <1>2, <1>3, MovesAlong DEF DispatchInv, TypeOK, presenceVars

LEMMA PruneStep ==
    ASSUME DispatchInv, NEW f \in Finders, Prune(f)
    PROVE  DispatchInv' /\ ContractStep
  <1>1. /\ Doing(f, "prune") /\ NotifierRests /\ (Works \/ Fails)
        /\ finder' = [finder EXCEPT ![f].hand = {}, ![f].at = "find"] /\ live' \subseteq live
        /\ UNCHANGED <<row, queueVars, sweep, online, track, near, beat, coolingVars>>
    BY DEF Prune
  <1>2. finder[f] \in Work /\ ~Tells(f)
    BY <1>1, AtWork
  <1> DEFINE w == [finder[f] EXCEPT !.hand = {}, !.at = "find"]
  <1>3. finder' = [finder EXCEPT ![f] = w]
    BY <1>1, <1>2 DEF Work, DispatchInv, TypeOK
  <1>4. w \in Work /\ w.at = "find"
    BY <1>2 DEF Work
  <1> HIDE DEF w
  <1> QED
    BY <1>1, <1>2, <1>3, <1>4, MovesAlong DEF DispatchInv, TypeOK

LEMMA FindStep ==
    ASSUME DispatchInv, NEW f \in Finders, FindNearestRunners(f)
    PROVE  DispatchInv' /\ ContractStep
  <1>1. /\ Doing(f, "find") /\ NotifierRests /\ Works
        /\ UNCHANGED <<row, queueVars, sweep, presenceVars, coolingVars>>
    BY DEF FindNearestRunners
  <1>2. finder[f] \in Work /\ ~Tells(f)
    BY <1>1, AtWork
  <1>3. PICK S \in Best(finder[f].found) :
            finder' = [finder EXCEPT ![f].todo = S, ![f].at = "dispatch"]
    BY DEF FindNearestRunners
  <1>4. S \subseteq Runners
    BY <1>2, BestType DEF Work
  <1> DEFINE w == [finder[f] EXCEPT !.todo = S, !.at = "dispatch"]
  <1>5. finder' = [finder EXCEPT ![f] = w]
    BY <1>2, <1>3 DEF Work, DispatchInv, TypeOK
  <1>6. w \in Work /\ w.at = "dispatch"
    BY <1>2, <1>4 DEF Work
  <1> HIDE DEF w
  <1> QED
    BY <1>1, <1>2, <1>5, <1>6, MovesAlong DEF DispatchInv, TypeOK, presenceVars

LEMMA DispatchOrderStep ==
    ASSUME DispatchInv, NEW f \in Finders, DispatchOrder(f)
    PROVE  DispatchInv' /\ ContractStep
  <1>1. /\ Doing(f, "dispatch") /\ Closes(f) /\ NotifierRests /\ Works
        /\ UNCHANGED <<row, queueVars, sweep, presenceVars, coolingVars>>
    BY DEF DispatchOrder
  <1>2. finder[f] \in Work /\ ~Tells(f)
    BY <1>1, AtWork
  <1>3. PICK w \in Work \cup {Idle} :
            finder' = [finder EXCEPT ![f] = w] /\ (w = Idle \/ w.at \notin {"mark", "push"})
    <2>1. CASE finder' = [finder EXCEPT ![f] = Idle]
      BY <2>1
    <2>2. CASE finder' = [finder EXCEPT ![f].at = "note"]
      <3>1. [finder[f] EXCEPT !.at = "note"] \in Work /\ [finder[f] EXCEPT !.at = "note"].at = "note"
        BY <1>2 DEF Work
      <3> QED
        BY <2>2, <3>1
    <2> QED
      BY <1>1, <2>1, <2>2 DEF Closes, Leaves
  <1> QED
    BY <1>1, <1>2, <1>3, MovesAlong DEF DispatchInv, TypeOK, presenceVars

LEMMA NoteStep ==
    ASSUME DispatchInv, EscalateNote
    PROVE  DispatchInv' /\ ContractStep
  <1>1. /\ Doing(Cron, "note") /\ finder' = [finder EXCEPT ![Cron] = Idle] /\ NotifierRests
        /\ (Works \/ Fails) /\ Cron \in Finders
        /\ UNCHANGED <<queueVars, sweep, presenceVars, coolingVars>>
    BY DEF EscalateNote, Leaves, Finders
  <1>2. finder[Cron] \in Work /\ ~Tells(Cron)
    BY <1>1, AtWork DEF Finders
  <1>3. row' \in [Orders -> Row]
    <2>1. Escalated(finder[Cron].row) \in Row
      BY <1>2 DEF Work, Row, Escalated
    <2> QED
      BY <2>1 DEF EscalateNote, DispatchInv, TypeOK
  <1> QED
    BY <1>1, <1>2, <1>3, MovesAlong DEF Finders, presenceVars

-----------------------------------------------------------------------------
(* Telling runners of an order.                                            *)

\* One finder joins or leaves those of a kind.
LEMMA CountChange ==
    ASSUME NEW S \in SUBSET Finders, NEW T \in SUBSET Finders, NEW f \in Finders,
           S \ {f} = T \ {f}
    PROVE  Cardinality(T) + (IF f \in S THEN 1 ELSE 0)
               = Cardinality(S) + (IF f \in T THEN 1 ELSE 0)
  <1>1. CASE f \in S /\ f \notin T
    <2>1. T = S \ {f}
      BY <1>1
    <2>2. Cardinality(T) = Cardinality(S) - 1
      BY <1>1, <2>1, FindersFinite, FS_RemoveElement
    <2> QED
      BY <1>1, <2>2, FindersFinite
  <1>2. CASE f \notin S /\ f \in T
    <2>1. T = S \cup {f}
      BY <1>2
    <2>2. Cardinality(T) = Cardinality(S) + 1
      BY <1>2, <2>1, FindersFinite, FS_AddElement
    <2> QED
      BY <1>2, <2>2, FindersFinite
  <1>3. CASE (f \in S) = (f \in T)
    <2>1. T = S
      BY <1>3
    <2> QED
      BY <2>1, <1>3
  <1> QED
    BY <1>1, <1>2, <1>3

LEMMA TellersFinite ==
    ASSUME NEW p \in Pairs
    PROVE  /\ Marks(p) \in SUBSET Finders /\ Pushes(p) \in SUBSET Finders
           /\ Cardinality(Marks(p)) \in Nat /\ Cardinality(Pushes(p)) \in Nat
           /\ Cardinality(Marks(p)) <= Cardinality(Finders)
           /\ Cardinality(Finders) \in Nat
  BY FindersFinite DEF Marks, Pushes

\* What one finder does to the number of those that tell of a pair.
LEMMA TellersChange ==
    ASSUME DispatchInv, NEW f \in Finders, NEW w \in Work,
           finder' = [finder EXCEPT ![f] = w], NEW p \in Pairs
    PROVE  /\ Cardinality(Marks(p)') + (IF f \in Marks(p) THEN 1 ELSE 0)
                  = Cardinality(Marks(p))
                    + (IF w.at = "mark" /\ p \in w.hand \X {w.order} THEN 1 ELSE 0)
           /\ Cardinality(Pushes(p)') + (IF f \in Pushes(p) THEN 1 ELSE 0)
                  = Cardinality(Pushes(p))
                    + (IF w.at = "push" /\ p \in w.hand \X {w.order} THEN 1 ELSE 0)
           /\ Cardinality(Marks(p)') \in Nat /\ Cardinality(Pushes(p)') \in Nat
  <1> DEFINE In(step) == w.at = step /\ p \in w.hand \X {w.order}
  <1>1. finder' = [g \in Finders |-> IF g = f THEN w ELSE finder[g]] /\ w # Idle
    BY FinderAssumption DEF DispatchInv, TypeOK
  <1>2. /\ Marks(p) \in SUBSET Finders /\ Marks(p)' \in SUBSET Finders
        /\ Pushes(p) \in SUBSET Finders /\ Pushes(p)' \in SUBSET Finders
    BY DEF Marks, Pushes
  <1>3. Marks(p) \ {f} = Marks(p)' \ {f} /\ (f \in Marks(p)' <=> In("mark"))
    BY <1>1 DEF Marks, Doing
  <1>4. Pushes(p) \ {f} = Pushes(p)' \ {f} /\ (f \in Pushes(p)' <=> In("push"))
    BY <1>1 DEF Pushes, Doing
  <1>5. Cardinality(Marks(p)') + (IF f \in Marks(p) THEN 1 ELSE 0)
            = Cardinality(Marks(p)) + (IF In("mark") THEN 1 ELSE 0)
    BY <1>2, <1>3, CountChange
  <1>6. Cardinality(Pushes(p)') + (IF f \in Pushes(p) THEN 1 ELSE 0)
            = Cardinality(Pushes(p)) + (IF In("push") THEN 1 ELSE 0)
    BY <1>2, <1>4, CountChange
  <1> QED
    BY <1>2, <1>5, <1>6, FindersFinite

\* One more for a pair.
LEMMA OneMore ==
    ASSUME NEW old \in [Pairs -> Nat], NEW p \in Pairs, NEW new,
           new = [old EXCEPT ![p] = old[p] + 1]
    PROVE  /\ new \in [Pairs -> Nat]
           /\ \A q \in Pairs : new[q] = IF q = p THEN old[q] + 1 ELSE old[q]
  OBVIOUS

\* The numbers of a pair.
LEMMA PairTypes ==
    ASSUME DispatchInv, NEW p \in Pairs
    PROVE  pushes[p] \in Nat /\ unmarked[p] \in Nat
  BY DEF DispatchInv, TypeOK

LEMMA CheckStep ==
    ASSUME DispatchInv, NEW f \in Finders, NEW r \in Runners, DispatchCheck(f, r)
    PROVE  DispatchInv' /\ ContractStep
  <1> DEFINE o == finder[f].order
             p == <<r, o>>
  <1>1. /\ Doing(f, "dispatch") /\ NotifierRests /\ (Works \/ Fails)
        /\ UNCHANGED <<row, queueVars, sweep, presenceVars, cooling, pushes>>
    BY DEF DispatchCheck
  <1>2. finder[f] \in Work /\ ~Tells(f) /\ o \in Orders /\ p \in Pairs
    BY <1>1, AtWork DEF Work, Pairs
  <1>3. CASE finder' = [finder EXCEPT ![f].todo = @ \ {r}] /\ UNCHANGED unmarked
    <2> DEFINE w == [finder[f] EXCEPT !.todo = finder[f].todo \ {r}]
    <2>1. finder' = [finder EXCEPT ![f] = w]
      BY <1>3
    <2>2. w \in Work /\ w.at = "dispatch"
      BY <1>1, <1>2, AtWork DEF Work
    <2> HIDE DEF w
    <2> QED
      BY <1>1, <1>2, <1>3, <2>1, <2>2, MovesAlong
        DEF DispatchInv, TypeOK, presenceVars, coolingVars
  <1>4. CASE /\ finder' = [finder EXCEPT ![f].todo = @ \ {r}, ![f].hand = {r}, ![f].at = "mark"]
             /\ \/ p \notin cooling /\ UNCHANGED unmarked
                \/ p \in cooling /\ unmarked' = [unmarked EXCEPT ![p] = @ + 1]
    <2> DEFINE w == [finder[f] EXCEPT !.todo = finder[f].todo \ {r}, !.hand = {r}, !.at = "mark"]
    <2>1. finder' = [finder EXCEPT ![f] = w]
      BY <1>2, <1>4 DEF Work, DispatchInv, TypeOK
    <2>2. w \in Work /\ w.at = "mark" /\ w.hand = {r} /\ w.order = o
      BY <1>2 DEF Work
    <2> HIDE DEF w
    <2>3. finder' \in [Finders -> Work \cup {Idle}] /\ FinderInv'
      BY <2>1, <2>2 DEF DispatchInv, TypeOK, FinderInv, Doing
    <2>4. unmarked' \in [Pairs -> Nat] /\ \A q \in Pairs :
              unmarked'[q] = IF q = p /\ p \in cooling THEN unmarked[q] + 1 ELSE unmarked[q]
      <3>1. CASE UNCHANGED unmarked /\ p \notin cooling
        BY <3>1, PairTypes DEF DispatchInv, TypeOK
      <3>2. CASE p \in cooling /\ unmarked' = [unmarked EXCEPT ![p] = unmarked[p] + 1]
        BY <1>2, <3>2, OneMore DEF DispatchInv, TypeOK
      <3> QED
        BY <1>4, <3>1, <3>2
    <2>5. SpamInv'
      <3> SUFFICES ASSUME NEW q \in Pairs
                   PROVE  IF q \in cooling
                          THEN pushes[q] + Cardinality(Pushes(q)') + Cardinality(Marks(q)')
                                   <= Cardinality(Finders) + unmarked'[q]
                          ELSE pushes[q] + Cardinality(Pushes(q)') <= unmarked'[q]
        BY <1>1 DEF SpamInv
      <3>1. f \notin Marks(q) /\ f \notin Pushes(q)
        BY <1>2 DEF Marks, Pushes, Tells
      <3>2. q \in w.hand \X {w.order} <=> q = p
        BY <2>2 DEF Pairs
      <3>3. /\ Cardinality(Marks(q)') = Cardinality(Marks(q)) + (IF q = p THEN 1 ELSE 0)
            /\ Cardinality(Pushes(q)') = Cardinality(Pushes(q))
        <4>1. /\ Cardinality(Marks(q)') + (IF f \in Marks(q) THEN 1 ELSE 0)
                 = Cardinality(Marks(q))
                   + (IF w.at = "mark" /\ q \in w.hand \X {w.order} THEN 1 ELSE 0)
              /\ Cardinality(Pushes(q)') + (IF f \in Pushes(q) THEN 1 ELSE 0)
                 = Cardinality(Pushes(q))
                   + (IF w.at = "push" /\ q \in w.hand \X {w.order} THEN 1 ELSE 0)
              /\ Cardinality(Marks(q)') \in Nat /\ Cardinality(Pushes(q)') \in Nat
          BY <2>1, <2>2, TellersChange
        <4> HIDE DEF p
        <4> QED
          BY <2>2, <3>1, <3>2, <4>1, TellersFinite
      <3>4. IF q \in cooling
            THEN pushes[q] + Cardinality(Pushes(q)) + Cardinality(Marks(q))
                     <= Cardinality(Finders) + unmarked[q]
            ELSE pushes[q] + Cardinality(Pushes(q)) <= unmarked[q]
        BY DEF DispatchInv, SpamInv
      <3> HIDE DEF p
      <3> QED
        BY <2>4, <3>3, <3>4, PairTypes, TellersFinite
    <2> QED
      BY <1>1, <2>3, <2>4, <2>5, FinderStepOK DEF DispatchInv, TypeOK, queueVars, presenceVars
  <1> QED
    BY <1>3, <1>4 DEF DispatchCheck

\* A finder that has one runner in hand.
LEMMA InHandOne ==
    ASSUME DispatchInv, NEW f \in Finders, Tells(f)
    PROVE  \E r \in Runners : /\ finder[f].hand = {r} /\ finder[f].order \in Orders
                              /\ <<r, finder[f].order>> \in Pairs /\ finder[f] \in Work
  <1>1. finder[f] \in Work
    BY AtWork DEF Tells
  <1> QED
    BY <1>1 DEF DispatchInv, FinderInv, Tells, Work, Pairs

LEMMA MarkStep ==
    ASSUME DispatchInv, NEW f \in Finders, DispatchMark(f)
    PROVE  DispatchInv' /\ ContractStep
  <1>1. /\ Doing(f, "mark") /\ NotifierRests /\ finder' = [finder EXCEPT ![f].at = "push"]
        /\ UNCHANGED <<row, queueVars, sweep, presenceVars, pushes>>
    BY DEF DispatchMark
  <1>2. PICK r \in Runners : /\ finder[f].hand = {r} /\ finder[f].order \in Orders
                             /\ <<r, finder[f].order>> \in Pairs /\ finder[f] \in Work
    BY <1>1, InHandOne DEF Tells
  <1> DEFINE p == <<r, finder[f].order>>
             w == [finder[f] EXCEPT !.at = "push"]
  <1>3. finder' = [finder EXCEPT ![f] = w]
    BY <1>1
  <1>4. w \in Work /\ w.at = "push" /\ w.hand = {r} /\ w.order = finder[f].order
    BY <1>2 DEF Work
  <1> HIDE DEF w
  <1>5. finder' \in [Finders -> Work \cup {Idle}] /\ FinderInv'
    BY <1>3, <1>4 DEF DispatchInv, TypeOK, FinderInv, Doing
  <1>6. \/ cooling' = cooling \cup {p} /\ Works /\ UNCHANGED unmarked
        \/ Fails /\ unmarked' = [unmarked EXCEPT ![p] = unmarked[p] + 1] /\ UNCHANGED cooling
    BY <1>2 DEF DispatchMark, Marked
  <1>7. p \in Pairs /\ unmarked' \in [Pairs -> Nat] /\ cooling' \subseteq Pairs
    <2>1. unmarked \in [Pairs -> Nat] /\ cooling \subseteq Pairs /\ p \in Pairs
      BY <1>2 DEF DispatchInv, TypeOK
    <2> HIDE DEF p
    <2> QED
      BY <1>6, <2>1, OneMore
  <1>8. SpamInv'
    <2> SUFFICES ASSUME NEW q \in Pairs
                 PROVE  IF q \in cooling'
                        THEN pushes[q] + Cardinality(Pushes(q)') + Cardinality(Marks(q)')
                                 <= Cardinality(Finders) + unmarked'[q]
                        ELSE pushes[q] + Cardinality(Pushes(q)') <= unmarked'[q]
      BY <1>1 DEF SpamInv
    <2>1. q \in w.hand \X {w.order} <=> q = p
      BY <1>4 DEF Pairs
    <2>2. (f \in Marks(q) <=> q = p) /\ f \notin Pushes(q)
      BY <1>1, <1>2 DEF Marks, Pushes, Doing, Pairs
    <2>3. /\ Cardinality(Marks(q)') = Cardinality(Marks(q)) - (IF q = p THEN 1 ELSE 0)
          /\ Cardinality(Pushes(q)') = Cardinality(Pushes(q)) + (IF q = p THEN 1 ELSE 0)
      <3>1. /\ Cardinality(Marks(q)') + (IF f \in Marks(q) THEN 1 ELSE 0)
               = Cardinality(Marks(q))
                 + (IF w.at = "mark" /\ q \in w.hand \X {w.order} THEN 1 ELSE 0)
            /\ Cardinality(Pushes(q)') + (IF f \in Pushes(q) THEN 1 ELSE 0)
               = Cardinality(Pushes(q))
                 + (IF w.at = "push" /\ q \in w.hand \X {w.order} THEN 1 ELSE 0)
            /\ Cardinality(Marks(q)') \in Nat /\ Cardinality(Pushes(q)') \in Nat
        BY <1>3, <1>4, TellersChange
      <3> HIDE DEF p
      <3> QED
        BY <1>4, <2>1, <2>2, <3>1, TellersFinite
    <2>4. IF q \in cooling
          THEN pushes[q] + Cardinality(Pushes(q)) + Cardinality(Marks(q))
                   <= Cardinality(Finders) + unmarked[q]
          ELSE pushes[q] + Cardinality(Pushes(q)) <= unmarked[q]
      BY DEF DispatchInv, SpamInv
    <2>5. \/ unmarked'[q] = unmarked[q] /\ (q \in cooling' <=> q \in cooling \/ q = p)
          \/ /\ unmarked'[q] = unmarked[q] + (IF q = p THEN 1 ELSE 0)
             /\ q \in cooling' <=> q \in cooling
      BY <1>6, <1>7, PairTypes DEF DispatchInv, TypeOK
    <2> HIDE DEF p
    <2> QED
      BY <2>3, <2>4, <2>5, PairTypes, TellersFinite
  <1> QED
    BY <1>1, <1>5, <1>6, <1>7, <1>8, FinderStepOK
      DEF DispatchInv, TypeOK, queueVars, presenceVars

LEMMA PushStep ==
    ASSUME DispatchInv, NEW f \in Finders, DispatchPush(f)
    PROVE  DispatchInv' /\ ContractStep
  <1>1. /\ Doing(f, "push")
        /\ finder' = [finder EXCEPT ![f].hand = {}, ![f].at = "dispatch"]
        /\ UNCHANGED <<row, queueVars, sweep, presenceVars, cooling, unmarked>>
    BY DEF DispatchPush
  <1>2. PICK r \in Runners : /\ finder[f].hand = {r} /\ finder[f].order \in Orders
                             /\ <<r, finder[f].order>> \in Pairs /\ finder[f] \in Work
    BY <1>1, InHandOne DEF Tells
  <1> DEFINE p == <<r, finder[f].order>>
             n == [user |-> r, subject |-> finder[f].order, priority |-> "high"]
             w == [finder[f] EXCEPT !.hand = {}, !.at = "dispatch"]
  <1>3. finder' = [finder EXCEPT ![f] = w]
    BY <1>1, <1>2 DEF Work, DispatchInv, TypeOK
  <1>4. w \in Work /\ w.at = "dispatch" /\ w.hand = {}
    BY <1>2 DEF Work
  <1> HIDE DEF w
  <1>5. finder' \in [Finders -> Work \cup {Idle}] /\ FinderInv'
    BY <1>3, <1>4 DEF DispatchInv, TypeOK, FinderInv, Doing
  <1>6. Enqueue(n, left) /\ pushes' = [pushes EXCEPT ![p] = pushes[p] + 1]
    BY <1>2 DEF DispatchPush
  <1>7. p \in Pairs /\ pushes' \in [Pairs -> Nat]
    BY <1>2, <1>6, PairTypes DEF DispatchInv, TypeOK
  <1>8. SpamInv'
    <2> SUFFICES ASSUME NEW q \in Pairs
                 PROVE  IF q \in cooling
                        THEN pushes'[q] + Cardinality(Pushes(q)') + Cardinality(Marks(q)')
                                 <= Cardinality(Finders) + unmarked[q]
                        ELSE pushes'[q] + Cardinality(Pushes(q)') <= unmarked[q]
      BY <1>1 DEF SpamInv
    <2>1. (f \in Pushes(q) <=> q = p) /\ f \notin Marks(q)
      BY <1>1, <1>2 DEF Marks, Pushes, Doing, Pairs
    <2>2. /\ Cardinality(Marks(q)') = Cardinality(Marks(q))
          /\ Cardinality(Pushes(q)') = Cardinality(Pushes(q)) - (IF q = p THEN 1 ELSE 0)
      <3>1. /\ Cardinality(Marks(q)') + (IF f \in Marks(q) THEN 1 ELSE 0)
               = Cardinality(Marks(q))
                 + (IF w.at = "mark" /\ q \in w.hand \X {w.order} THEN 1 ELSE 0)
            /\ Cardinality(Pushes(q)') + (IF f \in Pushes(q) THEN 1 ELSE 0)
               = Cardinality(Pushes(q))
                 + (IF w.at = "push" /\ q \in w.hand \X {w.order} THEN 1 ELSE 0)
            /\ Cardinality(Marks(q)') \in Nat /\ Cardinality(Pushes(q)') \in Nat
        BY <1>3, <1>4, TellersChange
      <3> HIDE DEF p
      <3> QED
        BY <1>4, <2>1, <3>1, TellersFinite
    <2>3. IF q \in cooling
          THEN pushes[q] + Cardinality(Pushes(q)) + Cardinality(Marks(q))
                   <= Cardinality(Finders) + unmarked[q]
          ELSE pushes[q] + Cardinality(Pushes(q)) <= unmarked[q]
      BY DEF DispatchInv, SpamInv
    <2>4. pushes'[q] = pushes[q] + (IF q = p THEN 1 ELSE 0)
      <3>1. pushes \in [Pairs -> Nat]
        BY DEF DispatchInv, TypeOK
      <3> HIDE DEF p
      <3> QED
        BY <1>6, <1>7, <3>1, OneMore
    <2> HIDE DEF p
    <2> QED
      BY <2>2, <2>3, <2>4, PairTypes, TellersFinite
  <1>9. NotifierInv' /\ ContractStep
    <2>1. n \in Note
      BY <1>2, MatchingAssumption DEF Note, Priorities
    <2> HIDE DEF n
    <2> QED
      BY <1>6, <2>1, InvParts, EnqueueStep DEF NotifierInv, NotifierTypeOK
  <1>10. TypeOK'
    BY <1>1, <1>5, <1>7, <1>9
      DEF DispatchInv, TypeOK, NotifierInv, queueVars, presenceVars
  <1> QED
    BY <1>5, <1>8, <1>9, <1>10 DEF DispatchInv, NotifierInv

LEMMA CooldownStep ==
    ASSUME DispatchInv, NEW p \in Pairs, CooldownEnds(p)
    PROVE  DispatchInv' /\ ContractStep
  <1>1. /\ cooling' = cooling \ {p} /\ pushes' = [pushes EXCEPT ![p] = 0]
        /\ unmarked' = [unmarked EXCEPT ![p] = 0] /\ NotifierRests
        /\ \E class : Takes(class) /\ UNCHANGED troubled
        /\ UNCHANGED <<row, queueVars, finder, sweep, presenceVars>>
        /\ \A f \in Finders : Doing(f, "mark") \/ Doing(f, "push") =>
                                  p \notin finder[f].hand \X {finder[f].order}
    BY DEF CooldownEnds, Spends
  <1>2. \A q \in Pairs : Marks(q)' = Marks(q) /\ Pushes(q)' = Pushes(q)
    BY <1>1 DEF Marks, Pushes, Doing
  <1>3. Pushes(p) = {}
    BY <1>1 DEF Pushes
  <1>4. SpamInv'
    <2> SUFFICES ASSUME NEW q \in Pairs
                 PROVE  (IF q \in cooling
                         THEN pushes[q] + Cardinality(Pushes(q)) + Cardinality(Marks(q))
                                  <= Cardinality(Finders) + unmarked[q]
                         ELSE pushes[q] + Cardinality(Pushes(q)) <= unmarked[q])'
      BY DEF SpamInv
    <2>1. CASE q = p
      <3>1. q \notin cooling' /\ pushes'[q] = 0 /\ unmarked'[q] = 0
        BY <1>1, <2>1 DEF DispatchInv, TypeOK
      <3>2. Cardinality(Pushes(q)') = 0
        BY <1>2, <1>3, <2>1, FS_EmptySet
      <3> QED
        BY <3>1, <3>2
    <2>2. CASE q # p
      <3>1. /\ q \in cooling' <=> q \in cooling
            /\ pushes'[q] = pushes[q] /\ unmarked'[q] = unmarked[q]
        BY <1>1, <2>2 DEF DispatchInv, TypeOK
      <3> QED
        BY <1>2, <3>1 DEF DispatchInv, SpamInv
    <2> QED
      BY <2>1, <2>2
  <1>5. NotifierInv' /\ ContractStep
    BY <1>1, InvParts, ServerStep
  <1>6. TypeOK'
    BY <1>1, <1>5 DEF DispatchInv, TypeOK, NotifierInv, queueVars, presenceVars
  <1>7. FinderInv'
    BY <1>1 DEF DispatchInv, FinderInv, Doing
  <1> QED
    BY <1>4, <1>5, <1>6, <1>7 DEF DispatchInv, NotifierInv

LEMMA ServerRestartStep ==
    ASSUME DispatchInv, ServerRestart
    PROVE  DispatchInv' /\ ContractStep
  <1>1. /\ Restart /\ queue' = <<>> /\ post' = [o \in Orders |-> 0] /\ sweep' = {} /\ beat' = {}
        /\ finder' = [f \in Finders |-> Idle]
        /\ UNCHANGED <<row, overflow, online, track, near, live, coolingVars>>
    BY DEF ServerRestart
  <1>2. NotifierInv' /\ ContractStep
    BY <1>1, InvParts, RestartStep
  <1>3. TypeOK'
    <2>1. post' \in [Orders -> 0 .. Attempts] /\ queue' \in Seq(Orders) /\ Len(queue') <= QueueSize
      BY <1>1, MatchingAssumption
    <2> QED
      BY <1>1, <1>2, <2>1 DEF DispatchInv, TypeOK, NotifierInv, coolingVars
  <1>4. FinderInv'
    BY <1>1 DEF FinderInv, Doing
  <1>5. SpamInv'
    <2> SUFFICES ASSUME NEW q \in Pairs
                 PROVE  IF q \in cooling
                        THEN pushes[q] + Cardinality(Pushes(q)') + Cardinality(Marks(q)')
                                 <= Cardinality(Finders) + unmarked[q]
                        ELSE pushes[q] + Cardinality(Pushes(q)') <= unmarked[q]
      BY <1>1 DEF SpamInv, coolingVars
    <2>1. Marks(q)' = {} /\ Pushes(q)' = {}
      BY <1>1 DEF Marks, Pushes, Doing
    <2>2. Cardinality(Marks(q)') = 0 /\ Cardinality(Pushes(q)') = 0
      BY <2>1, FS_EmptySet
    <2> QED
      BY <2>2, PairTypes, TellersFinite DEF DispatchInv, SpamInv
  <1> QED
    BY <1>2, <1>3, <1>4, <1>5 DEF DispatchInv, NotifierInv

-----------------------------------------------------------------------------
(* The invariant.                                                          *)

\* The dispatcher goes on, or is handed something by another service.
LEMMA BesideStep ==
    ASSUME DispatchInv, UNCHANGED matchingVars,
           \/ NotifierStep
           \/ \E n \in Note : Notify(n)
           \/ \E u \in Users, t \in Tokens \cup {NoToken} : UpdateFcmToken(u, t)
    PROVE  DispatchInv' /\ ContractStep
  <1>1. ASSUME NEW n \in Note, Notify(n)
        PROVE  NotifierInv' /\ ContractStep
    <2> DEFINE rest == [left EXCEPT !["note"] = left["note"] - 1]
    <2>1. rest \in [Classes -> Nat] /\ Enqueue(n, rest)
      <3>1. left \in [Classes -> Nat]
        BY DEF DispatchInv, TypeOK, NotifierTypeOK
      <3>2. Enqueue(n, rest) /\ left["note"] > 0
        BY <1>1 DEF Notify
      <3>3. "note" \in Classes /\ left["note"] - 1 \in Nat
        BY <3>1, <3>2 DEF Classes
      <3> QED
        BY <3>1, <3>2, <3>3
    <2> HIDE DEF rest
    <2> QED
      BY <2>1, InvParts, EnqueueStep
  <1>2. NotifierInv' /\ ContractStep
    BY <1>1, InvParts, NotifierNext, TimeStep
  <1>3. UNCHANGED <<row, queue, post, overflow, finder, sweep, online, track, near, live, beat,
                    cooling, pushes, unmarked>>
    BY DEF matchingVars, queueVars, presenceVars, coolingVars
  <1>4. TypeOK'
    BY <1>2, <1>3 DEF DispatchInv, TypeOK, NotifierInv
  <1>5. FinderInv' /\ SpamInv'
    BY <1>3, FindersRest DEF coolingVars
  <1> QED
    BY <1>2, <1>4, <1>5 DEF DispatchInv, NotifierInv

LEMMA InvInit ==
    ASSUME Init
    PROVE  DispatchInv /\ Contract!Init
  <1>1. NotifierInv /\ Contract!Init
    BY NotifierStarts DEF Init
  <1>2. TypeOK
    <2>1. /\ post \in [Orders -> 0 .. Attempts] /\ queue \in Seq(Orders)
          /\ Len(queue) <= QueueSize /\ row \in [Orders -> Row]
      BY MatchingAssumption DEF Init, Row
    <2> QED
      BY <1>1, <2>1 DEF Init, TypeOK, NotifierInv
  <1>3. FinderInv
    BY DEF Init, FinderInv, Doing
  <1>4. SpamInv
    <2> SUFFICES ASSUME NEW q \in Pairs
                 PROVE  pushes[q] + Cardinality(Pushes(q)) <= unmarked[q] /\ q \notin cooling
      BY DEF SpamInv
    <2>1. Pushes(q) = {} /\ pushes[q] = 0 /\ unmarked[q] = 0 /\ cooling = {}
      BY DEF Init, Pushes, Doing
    <2> QED
      BY <2>1, FS_EmptySet
  <1> QED
    BY <1>1, <1>2, <1>3, <1>4 DEF DispatchInv, NotifierInv

\* Every step of every actor.
LEMMA InvNext ==
    ASSUME DispatchInv, Next
    PROVE  DispatchInv' /\ ContractStep
  <1>1. ASSUME NEW f \in Finders, FinderStep(f)
        PROVE  DispatchInv' /\ ContractStep
    BY <1>1, ProcessStep, PruneStep, FindStep, CheckTrackStep, CheckStep, MarkStep, PushStep,
       DispatchOrderStep DEF FinderStep
  <1>2. CASE CronStep
    BY <1>1, <1>2, ScanStep, NoteStep, EscalateStep DEF CronStep, Finders
  <1>3. CASE \/ NotifierStep /\ UNCHANGED matchingVars
             \/ \E n \in Note : Notify(n)
             \/ \E u \in Users : ChangeToken(u)
    BY <1>3, BesideStep DEF Notify, ChangeToken
  <1>4. CASE \E o \in Orders : OrderStep(o) \/ EnqueueMatching(o)
    BY <1>4, OrderStepOK, EnqueueMatchingStep
  <1>5. CASE \E r \in Runners : RunnerStep(r) \/ GeoAdd(r)
    BY <1>5, RunnerStepOK
  <1>6. CASE \E p \in Pairs : CooldownEnds(p)
    BY <1>6, CooldownStep
  <1>7. CASE ServerRestart
    BY <1>7, ServerRestartStep
  <1>8. CASE \E f \in Matchers : FinderStep(f)
    BY <1>1, <1>8 DEF Finders
  <1> QED
    BY <1>2, <1>3, <1>4, <1>5, <1>6, <1>7, <1>8 DEF Next

LEMMA InvStutter ==
    ASSUME DispatchInv, UNCHANGED vars
    PROVE  DispatchInv' /\ Stutters
  <1>1. UNCHANGED <<matchingVars, notifierVars>>
    BY DEF vars
  <1>2. UNCHANGED <<redisVars, bucketVars, token, sender, drain, left, contractVars>>
    BY <1>1 DEF notifierVars
  <1>3. UNCHANGED <<high, global, delayed, due, dlq, token, sender, drain, left, accepted, ended,
                    lost, troubled, count, expiring, sends, uncounted>>
    BY <1>2 DEF redisVars, bucketVars, contractVars
  <1>4. Listed' = Listed /\ Carried' = Carried /\ Drained' = Drained
    BY <1>3 DEF Listed, Carried, Own, Drained
  <1>5. Kept' = Kept
    BY <1>4, KeptIs
  <1>6. BurstInv'
    BY <1>3, BurstAlone DEF DispatchInv, bucketVars
  <1>7. HandInv'
    BY <1>3, <1>5 DEF DispatchInv, HandInv, LoopInv
  <1>8. UNCHANGED <<row, queue, post, overflow, finder, sweep, online, track, near, live, beat,
                    cooling, pushes, unmarked>>
    BY <1>1 DEF matchingVars, queueVars, presenceVars, coolingVars
  <1>9. TypeOK'
    BY <1>3, <1>8 DEF DispatchInv, TypeOK, NotifierTypeOK
  <1>10. FinderInv' /\ SpamInv'
    BY <1>8, FindersRest DEF coolingVars
  <1> QED
    BY <1>2, <1>5, <1>6, <1>7, <1>9, <1>10 DEF DispatchInv, Stutters

\* The queue never holds more than the channel does, no attempt is made in vain, and every
\* row, key and job is of its type.
THEOREM DispatchInvHolds == Spec => []DispatchInv
  <1>1. Init => DispatchInv
    BY InvInit
  <1>2. DispatchInv /\ [Next]_vars => DispatchInv'
    BY InvNext, InvStutter
  <1> QED
    BY <1>1, <1>2, PTL DEF Spec

\* Types, and the bounds of the queue and of the attempts.
THEOREM DispatchTypes == Spec => []TypeOK
  <1>1. DispatchInv => TypeOK
    BY InvParts
  <1> QED
    BY <1>1, DispatchInvHolds, PTL

\* No runner is flooded: however often an order is queued, given back and escalated, as many
\* announcements of it reach him as there are finders; and however many notes of whatever
\* kinds are for one device, no more calls than the limit and one for each worker are made
\* before its window ends; but for what Redis failed to note.
THEOREM NobodyFlooded == Spec => []NobodyIsFlooded
  <1>1. DispatchInv => BurstKept
    BY InvParts, BurstFollows
  <1>2. ASSUME DispatchInv
        PROVE  SpamBounded
    <2> SUFFICES ASSUME NEW p \in Pairs
                 PROVE  pushes[p] <= Cardinality(Finders) + unmarked[p]
      BY DEF SpamBounded
    <2> QED
      BY <1>2, PairTypes, TellersFinite DEF DispatchInv, SpamInv
  <1>3. DispatchInv => NobodyIsFlooded
    BY <1>1, <1>2 DEF NobodyIsFlooded
  <1> QED
    BY <1>3, DispatchInvHolds, PTL

-----------------------------------------------------------------------------
(* The contract.                                                           *)

\* The dispatcher implements Outbox: a note that was handed over is kept until its end is
\* known, and is lost only where a call has failed or the server has stopped.
THEOREM KeepsContract == Spec => ImplementsOutbox
  <1>1. Init => Contract!Init
    BY InvInit
  <1>2. DispatchInv /\ [Next]_vars => [Contract!Next]_(Contract!outboxVars)
    BY InvNext, InvStutter DEF ContractStep, Stutters, Contract!outboxVars, contractVars
  <1> QED
    BY <1>1, <1>2, DispatchInvHolds, PTL DEF Spec, ImplementsOutbox, Contract!Spec

\* So none is forgotten: what was handed over is kept, has an end, or was lost in a failure.
THEOREM NoneIsForgotten == Spec => []Contract!NoneForgotten
  <1>1. Contract!Init => Contract!NoneForgotten
    BY DEF Contract!Init, Contract!NoneForgotten
  <1>2. Contract!NoneForgotten /\ [Contract!Next]_(Contract!outboxVars)
            => Contract!NoneForgotten'
    <2>1. ASSUME Contract!NoneForgotten, NEW n \in Note, Contract!Accept(n)
          PROVE  Contract!NoneForgotten'
      BY <2>1 DEF Contract!NoneForgotten, Contract!Accept
    <2>2. ASSUME Contract!NoneForgotten, NEW n \in Note, NEW how, Contract!End(n, how)
          PROVE  Contract!NoneForgotten'
      <3>1. ended' = ended \cup {<<n, how>>} /\ <<n, how>>[1] = n
        BY <2>2 DEF Contract!End
      <3>2. {e[1] : e \in ended'} = {e[1] : e \in ended} \cup {n}
        BY <3>1
      <3> QED
        BY <2>2, <3>2 DEF Contract!NoneForgotten, Contract!End
    <2>3. ASSUME Contract!NoneForgotten, Contract!Trouble
          PROVE  Contract!NoneForgotten'
      BY <2>3 DEF Contract!NoneForgotten, Contract!Trouble
    <2>4. ASSUME Contract!NoneForgotten, UNCHANGED Contract!outboxVars
          PROVE  Contract!NoneForgotten'
      BY <2>4 DEF Contract!NoneForgotten, Contract!outboxVars
    <2> QED
      BY <2>1, <2>2, <2>3, <2>4 DEF Contract!Next
  <1> QED
    BY <1>1, <1>2, KeepsContract, PTL DEF ImplementsOutbox, Contract!Spec
=============================================================================
