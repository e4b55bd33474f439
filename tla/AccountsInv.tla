----------------------------- MODULE AccountsInv -----------------------------
(***************************************************************************)
(* The inductive invariants behind the properties of Accounts: what a      *)
(* request may count on between its read and its write.                    *)
(***************************************************************************)
EXTENDS Accounts

\* A request that holds a row to be written, the one of a new account included.
Carries(q) ==
    /\ req[q] # Idle /\ req[q].kind \in {"row", "open", "revoke", "review", "sign"}
    /\ (req[q].kind = "review" => req[q].at = "write")

\* The rows that are held are rows, and one that opens a session names its device.
RowsHeld ==
    /\ \A q \in Procs : Carries(q) => req[q].row \in UserRow
    /\ \A q \in Procs : Does(q, "open") => req[q].row.device \in Devices \cup {Passkey, Web}
    /\ \A q \in Procs : At(q, "pin", "store") => req[q].n > 0
    /\ IsFiniteSet(tokens)

\* The secret of a second factor that is on was proven, in the table and in whatever
\* row a request is about to write over it.
SecretsProven ==
    /\ EnabledIsProven
    /\ \A q \in Procs :
        Carries(q) /\ req[q].row.enabled => req[q].row.secret \in proven

\* A request that makes an account works on an id without a row, and alone; every
\* other request on an account, and all that hangs on one, has its row.
Makes(q) == req[q] # Idle /\ req[q].kind \in {"sign", "onboard"}
Uses(q) == req[q] # Idle /\ req[q].kind \in {"row", "open", "revoke", "logout", "check",
                                             "pin", "submit", "review", "bank"}
Owned ==
    /\ \A q \in Procs : Makes(q) => users[req[q].user] = NoRow
    /\ \A p, q \in Procs : Makes(p) /\ Makes(q) /\ req[p].user = req[q].user => p = q
    /\ \A q \in Procs : Uses(q) => users[req[q].user] # NoRow
    /\ \A t \in tokens : users[t.user] # NoRow
    /\ \A u \in Users : kyc[u] # <<>> \/ guest[u] # Nobody => users[u] # NoRow

\* The same of invitations: the one being made has no row, those that are being
\* accepted or found lapsed, and those an account was made with, have one.
InvitesKnown ==
    /\ \A q \in Procs : Does(q, "invite") => invites[req[q].invite] = NoRow
    /\ \A p, q \in Procs :
        Does(p, "invite") /\ Does(q, "invite") /\ req[p].invite = req[q].invite => p = q
    /\ \A q \in Procs :
        Does(q, "onboard") \/ Does(q, "expire") => invites[req[q].invite] # NoRow
    /\ \A u \in Users : guest[u] # Nobody => invites[guest[u]] # NoRow

\* A review knows a submission that is there, and approves of it only after the user
\* was written as verified.
ReviewsKnown ==
    \A q \in Procs : Does(q, "review") =>
        /\ req[q].n \in DOMAIN kyc[req[q].user]
        /\ req[q].at = "close" /\ req[q].status = "approved" => req[q].user \in vouched

\* While no two requests on the row of u overlapped: one request at most holds the row,
\* the tokens of u differ in their versions, none is ahead of the row in the table or
\* of the row that is held, and one that opens a session is ahead of them all.
Alone(u) == \A p, q \in Procs : Holds(p, u) /\ Holds(q, u) => p = q
Distinct(u) ==
    \A s, t \in tokens : s.user = u /\ t.user = u /\ s.ver = t.ver => s = t
NotAhead(u) == \A t \in tokens : t.user = u /\ ~users[u].deleted => t.ver <= users[u].ver
HeldAhead(u) ==
    \A q \in Procs : Holds(q, u) =>
        /\ \A t \in tokens : t.user = u => t.ver <= req[q].row.ver
        /\ Does(q, "open") => \A t \in tokens : t.user = u => t.ver < req[q].row.ver
        /\ req[q].kind # "review" /\ req[q].at = "cache" /\ ~users[u].deleted
               => req[q].row.ver <= users[u].ver
SessionsInv ==
    \A u \in Users \ overlapped : Alone(u) /\ Distinct(u) /\ NotAhead(u) /\ HeldAhead(u)

AccountsInvariant ==
    /\ TypeOK /\ RowsHeld /\ SecretsProven /\ Owned /\ InvitesKnown /\ ReviewsKnown
    /\ PendingHasPhotos /\ ApprovedIsVouched /\ InvitationAgrees
    /\ SessionsInv

\* The requests that are going to store a count of at most j for u, and how many others
\* there are.
Storing(u, j) == {q \in Procs : At(q, "pin", "store") /\ req[q].user = u /\ req[q].n <= j}
Others(u, j) == Cardinality(Procs \ Storing(u, j))

\* While the stored count goes from a to b, those that hold a count of a + 1 or less
\* do not store it: it is the others that count.
Most(k, m) == MostCounted[<<k, m>>]
MayCount(u, a, b) ==
    Most(Others(u, a + 1), MaxAttempts - 1 - a) - Most(Others(u, a + 1), MaxAttempts - 1 - b)

\* There is a history of the wrong PINs of u: c[j] of them were counted when the stored
\* count last was j or less.
HasHistory(u) ==
    \E c \in [0 .. MaxAttempts - 1 -> 0 .. wrong[u]] :
        /\ c[0] = 0
        /\ \A j \in tries[u] .. MaxAttempts - 1 : c[j] = wrong[u]
        /\ \A a, b \in 0 .. MaxAttempts - 1 : a <= b => c[b] - c[a] <= MayCount(u, a, b)
AttemptsInv == \A u \in Users : HasHistory(u)
=============================================================================
