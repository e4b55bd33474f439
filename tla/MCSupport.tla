------------------------------ MODULE MCSupport ------------------------------
(* Small instances of Support. *)
EXTENDS Support, SupportInv

Agenda(opens, claims, edits, messages, reads, ticks, faqs, faults) ==
    [open |-> opens, claim |-> claims, edit |-> edits, message |-> messages, read |-> reads,
     tick |-> ticks, faq |-> faqs, fault |-> faults]

\* Agents at one ticket; an agent at two; the user's messages; the agent's; the FAQ.
MCScenes == {
    Agenda(1, 2, 2, 1, 0, 0, 0, 0),
    Agenda(2, 2, 1, 0, 0, 0, 0, 1),
    Agenda(1, 0, 0, 3, 3, 1, 0, 0),
    Agenda(1, 1, 0, 2, 2, 1, 0, 0),
    Agenda(1, 0, 1, 0, 0, 0, 3, 1)}
=============================================================================
