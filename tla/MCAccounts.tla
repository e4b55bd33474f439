----------------------------- MODULE MCAccounts -----------------------------
(***************************************************************************)
(* A small instance of Accounts for TLC.  Each agenda puts a few requests  *)
(* of some classes together.                                               *)
(***************************************************************************)
EXTENDS Accounts, AccountsInv, TLC

CONSTANTS u1, u2, u3, d1, d2, n1, n2, n3, q1, q2

Of(counts) == counts @@ [c \in Classes |-> 0]
MCAgendas ==
    {Of("login" :> 2 @@ "session" :> 1),
     Of("login" :> 1 @@ "session" :> 1 @@ "visit" :> 1 @@ "time" :> 1),
     Of("session" :> 2 @@ "row" :> 1 @@ "visit" :> 1),
     Of("totp" :> 3 @@ "row" :> 1),
     Of("pin" :> 1 @@ "unlock" :> 1 @@ "time" :> 1),
     Of("kyc" :> 3 @@ "row" :> 1),
     Of("join" :> 4 @@ "row" :> 1 @@ "time" :> 1),
     Of("join" :> 2 @@ "kyc" :> 2),
     Of("login" :> 2 @@ "kyc" :> 2),
     Of("bank" :> 3)}
MCHome == u1 :> d1 @@ u2 :> d2
MCNumber == u1 :> n1 @@ u2 :> n2
\* The two founders, with what belongs to them, may change places.
Swap == u1 :> u2 @@ u2 :> u1 @@ d1 :> d2 @@ d2 :> d1 @@ n1 :> n2 @@ n2 :> n1
SlotSymmetry == {Swap} \cup Permutations(Procs) \cup Permutations(Invites) \cup Permutations(Secrets)
=============================================================================
