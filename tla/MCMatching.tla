----------------------------- MODULE MCMatching -----------------------------
(* Small instances of Matching and of the dispatcher below it. *)
EXTENDS Matching

CONSTANTS r1, r2, t1, o1, o2, chat, s1, s2, m1, cron

Scene(users, orders, takes, returns, notes, beats, quiets, errors, faults) ==
    [devices |-> users,
     left |-> [order |-> orders, take |-> takes, return |-> returns, note |-> notes, beat |-> beats,
               quiet |-> quiets, error |-> errors, fault |-> faults]]

\* Notifications of other services; one runner with a device; runners without.
MCScenes == {
    Scene({r1}, 1, 1, 1, 0, 0, 0, 0, 0),
    Scene({}, 2, 1, 1, 0, 0, 0, 0, 0),
    Scene({}, 2, 0, 0, 0, 0, 0, 0, 1),
    Scene({}, 1, 0, 0, 0, 1, 1, 0, 1),
    Scene({r1}, 1, 0, 0, 0, 0, 1, 0, 0),
    Scene({r1}, 1, 0, 0, 0, 0, 0, 0, 1),
    Scene({r1}, 0, 0, 0, 2, 0, 0, 0, 1),
    Scene({r1}, 0, 0, 0, 2, 0, 0, 2, 0),
    Scene({r1}, 0, 0, 0, 1, 0, 0, 2, 1)}
=============================================================================
