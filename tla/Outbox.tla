------------------------------- MODULE Outbox -------------------------------
(***************************************************************************)
(* What the notification dispatcher promises to the services that hand it  *)
(* a notification and forget about it: it keeps the notification until it  *)
(* was sent, or could not be, or was given up; it may lose some only when  *)
(* a call to Redis or the database fails or the server stops.              *)
(***************************************************************************)
CONSTANT Notes

VARIABLES
    accepted,  \* notifications ever handed over
    owed,      \* kept by the dispatcher
    ended,     \* what became of them
    lost,      \* lost in a failure
    troubled   \* something has failed

outboxVars == <<accepted, owed, ended, lost, troubled>>
Ends == {"sent", "unreachable", "invalid", "buried"}

Init == accepted = {} /\ owed = {} /\ ended = {} /\ lost = {} /\ troubled = FALSE

Accept(n) ==
    /\ accepted' = accepted \cup {n} /\ owed' = owed \cup {n}
    /\ UNCHANGED <<ended, lost, troubled>>

\* Another copy of the notification may still be kept.
End(n, how) ==
    /\ n \in owed /\ ended' = ended \cup {<<n, how>>}
    /\ owed' \in {owed, owed \ {n}}
    /\ UNCHANGED <<accepted, lost, troubled>>

\* A failure may lose what is kept or was just handed over; nothing vanishes untold.
Trouble ==
    /\ troubled' = TRUE
    /\ accepted \subseteq accepted' /\ lost \subseteq lost'
    /\ owed \cup (accepted' \ accepted) \subseteq owed' \cup lost'
    /\ owed' \cup lost' \subseteq accepted' /\ accepted' \subseteq Notes
    /\ UNCHANGED ended

Next ==
    \/ \E n \in Notes : Accept(n) \/ \E how \in Ends : End(n, how)
    \/ Trouble

Spec == Init /\ [][Next]_outboxVars

\* Every notification that was handed over is kept, or its end is known, or a failure
\* took it; and nothing is lost where nothing failed.
NoneForgotten ==
    /\ accepted = owed \cup {e[1] : e \in ended} \cup lost
    /\ ~troubled => lost = {}
=============================================================================
