------------------------------ MODULE MCStreams ------------------------------
(* Small instances of Streams. *)
EXTENDS StreamsInv

CONSTANTS o1, o2, q1, st1, ru1, me1, tr1

R(status, taken, paid) == [status |-> status, taken |-> taken, paid |-> paid]
Absent == R("absent", FALSE, FALSE)
Starts(r1, r2) == [o \in {o1, o2} |-> IF o = o1 THEN r1 ELSE r2]
Scene(opened, indexed, orders, start, acts, leaves, faults, restarts) ==
    [opened |-> opened, indexed |-> indexed, orders |-> orders, start |-> start,
     left |-> [act |-> acts, leave |-> leaves, fault |-> faults, restart |-> restarts]]

\* A runner; a reader of an order; the merchant; the index; tracking.
MCScenes == {
    Scene({ru1}, FALSE, {o1}, Starts(R("pending", FALSE, TRUE), Absent), 3, 0, 0, 0),
    Scene({st1, ru1}, FALSE, {o1}, Starts(R("accepted", TRUE, TRUE), Absent), 2, 0, 0, 0),
    Scene({me1}, FALSE, {o2}, Starts(Absent, R("cooking", TRUE, TRUE)), 2, 1, 0, 0),
    Scene({}, TRUE, {o1, o2}, Starts(Absent, R("pending", FALSE, TRUE)), 3, 0, 1, 0),
    Scene({tr1, st1}, FALSE, {o1}, Starts(R("accepted", TRUE, TRUE), Absent), 2, 1, 1, 1)}
=============================================================================
