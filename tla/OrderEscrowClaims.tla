------------------------- MODULE OrderEscrowClaims -------------------------
(***************************************************************************)
(* What comments, tests and messages of nitip-core say of an order, read   *)
(* literally.  Each is refuted by a run of its own: the counterexamples    *)
(* are behaviours of the handlers in internal/domain/order/service.go.     *)
(***************************************************************************)
EXTENDS OrderEscrow

\* An order whose money involves neither a voucher nor a price adjustment.
Straight(o) == Exists(o) /\ order[o].adj = "none" /\ FullyPriced(order[o])

\* CompleteOrder locks the row as "anti double release": the escrow of a
\* completed order was paid out once, never more than it held.
CompletedPaysOnce ==
    \A o \in Orders :
        Straight(o) /\ order[o].status = "completed" => held[o] >= 0

\* AcceptOrder answers "pesanan sudah diambil oleh runner lain" (already taken by
\* another runner): no two runners have a deposit on the same order.
OneRunnerOnDeposit ==
    \A o \in Orders : Intact(o) =>
        Cardinality({r \in Runners : owed[o][r] > 0}) <= 1

\* runnerCancelForReassign hands an order "to nearest online runner instead of
\* final cancelled": an order without a runner is in a status in which a runner
\* may accept it, or the auto-cancel job may close it.
AcceptedHasRunner ==
    \A o \in Orders :
        Intact(o) /\ order[o].status \in {"accepted", "purchasing"}
            => order[o].runner # NoRunner
=============================================================================
