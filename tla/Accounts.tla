------------------------------ MODULE Accounts ------------------------------
(***************************************************************************)
(* Accounts of nitip-core: the users table, the sessions and the version   *)
(* of their tokens that Redis caches, the PIN, the second factor, the      *)
(* invitations, the identity check (e-KYC) and the bank account.           *)
(*                                                                         *)
(* Nearly every handler reads the whole row of a user, changes a column    *)
(* and writes the whole row back without a lock, so a request is two steps *)
(* here: it reads, and holds the row it is going to write; it writes.      *)
(* Where the code goes on to Redis, to the storage or to another table,    *)
(* that is one more step.                                                  *)
(*                                                                         *)
(* Agendas bounds a behaviour: how many requests of each class are made.   *)
(***************************************************************************)
EXTENDS Integers, Sequences, FiniteSets

CONSTANTS
    Users,      \* ids of accounts
    Founders,   \* the accounts that exist at first
    HomeOf,     \* the device each founder is logged in on
    NumberOf,   \* the WhatsApp number of each founder
    Numbers, Devices, Secrets,
    Invites,    \* invitations
    Procs,      \* requests in flight
    Agendas,
    NoRow, NoDevice, NoSecret, NoVersion, Idle, Nobody

Classes == {"login", "session", "row", "totp", "pin", "kyc", "join", "bank",
            "visit", "unlock", "time"}
Passkey == "webauthn-device"  \* the device of every session opened by a passkey
Web == "web"                  \* the device of an account made from an invitation
MaxAttempts == 5
\* The wrong PINs that x[1] requests at a time can have counted while x[2] attempts may
\* still be stored.  Either one of them holds back what it is going to store, the others
\* count all they can, and then it is stored after all; or the next attempt is stored.
MostCounted[x \in Nat \X Nat] ==
    IF x[1] = 0 \/ x[2] = 0 THEN 0
    ELSE MostCounted[<<x[1] - 1, x[2]>>] + 1 + MostCounted[<<x[1], x[2] - 1>>]
\* For two requests at a time: 4 + 1 + 3 + 1 + 2 + 1 + 1 + 1.
WrongBound == MostCounted[<<Cardinality(Procs), MaxAttempts - 1>>]

ASSUME AccountsAssumption ==
    /\ Founders \subseteq Users /\ IsFiniteSet(Founders) /\ IsFiniteSet(Procs)
    /\ HomeOf \in [Founders -> Devices] /\ NumberOf \in [Founders -> Numbers]
    /\ Agendas \subseteq [Classes -> Nat]
    /\ NoDevice \notin Devices /\ NoSecret \notin Secrets /\ NoVersion \notin Nat
    /\ Nobody \notin Invites

VARIABLES
    users,     \* table users
    cache,     \* user:session:v:<id>
    tokens,    \* access and refresh tokens issued, in pairs
    tries,     \* pin_attempts:<id>
    locked,    \* pin_locked:<id>
    invites,   \* table registration_invitations
    kyc,       \* table kyc_submissions, per user in the order of created_at
    bank,      \* users with a row in user_bank_accounts, and whose entry it is
    req,       \* what each request is doing
    left,      \* bound: requests still to be made
    wrong,     \* ghost: wrong PINs counted since the attempts were last forgotten
    proven,    \* ghost: secrets a right code was shown for
    vouched,   \* ghost: users written as verified, or deleted
    guest,     \* ghost: the invitation each account was made with
    overlapped \* ghost: users two of whose requests overlapped

vars == <<users, cache, tokens, tries, locked, invites, kyc, bank, req, left, wrong,
          proven, vouched, guest, overlapped>>
pinVars == <<tries, locked, wrong>>
joinVars == <<invites, guest>>
checkVars == <<kyc, vouched>>
sessionVars == <<cache, tokens>>

UserRow == [number : Numbers, email : {"own", "masked"},
            device : Devices \cup {NoDevice, Passkey, Web}, ver : Nat, pin : BOOLEAN,
            secret : Secrets \cup {NoSecret}, enabled : BOOLEAN, verified : BOOLEAN,
            suspended : BOOLEAN, accepting : BOOLEAN, deleted : BOOLEAN]
Token == [user : Users, ver : Nat, device : Devices \cup {Passkey, Web}, serial : Nat]
Invitation == [number : Numbers, role : {"runner", "merchant"},
               status : {"pending", "used", "expired"}, due : BOOLEAN]
Submission == [status : {"pending", "approved", "rejected"}, photos : BOOLEAN]

Writing == [kind : {"row", "open", "revoke"}, user : Users, row : UserRow,
            at : {"clear", "write", "cache"}]
LoggingOut == [kind : {"logout"}, user : Users]
Checking == [kind : {"check"}, user : Users, ver : Nat]
Guessing == [kind : {"pin"}, user : Users, at : {"right", "count", "store"},
             n : 0 .. MaxAttempts]
Submitting == [kind : {"submit"}, user : Users]
Reviewing == [kind : {"review"}, user : Users, at : {"read", "write", "close"},
              row : UserRow \cup {NoRow}, n : Nat, status : {"approved", "rejected"}]
Signing == [kind : {"sign"}, user : Users, row : UserRow]
Onboarding == [kind : {"onboard"}, user : Users, number : Numbers, invite : Invites,
               role : {"runner", "merchant"}]
Inviting == [kind : {"invite"}, invite : Invites, number : Numbers,
             role : {"runner", "merchant"}]
Expiring == [kind : {"expire"}, invite : Invites]
Banking == [kind : {"bank"}, user : Users]
Request == Writing \cup LoggingOut \cup Checking \cup Guessing \cup Submitting
    \cup Reviewing \cup Signing \cup Onboarding \cup Inviting \cup Expiring \cup Banking

ASSUME SentinelAssumption == NoRow \notin UserRow \cup Invitation

TypeOK ==
    /\ users \in [Users -> UserRow \cup {NoRow}]
    /\ cache \in [Users -> Nat \cup {NoVersion}]
    /\ tokens \subseteq Token
    /\ tries \in [Users -> 0 .. MaxAttempts - 1] /\ locked \in [Users -> BOOLEAN]
    /\ invites \in [Invites -> Invitation \cup {NoRow}]
    /\ kyc \in [Users -> Seq(Submission)]
    /\ bank \in [Users -> {"none", "own", "admin"}]
    /\ req \in [Procs -> Request \cup {Idle}]
    /\ left \in [Classes -> Nat] /\ wrong \in [Users -> Nat]
    /\ proven \subseteq Secrets /\ vouched \subseteq Users
    /\ guest \in [Users -> Invites \cup {Nobody}] /\ overlapped \subseteq Users

FounderRow(u) ==
    [number |-> NumberOf[u], email |-> "own", device |-> HomeOf[u], ver |-> 1,
     pin |-> FALSE, secret |-> NoSecret, enabled |-> FALSE, verified |-> FALSE,
     suspended |-> FALSE, accepting |-> FALSE, deleted |-> FALSE]

Init ==
    /\ users = [u \in Users |-> IF u \in Founders THEN FounderRow(u) ELSE NoRow]
    /\ cache = [u \in Users |-> IF u \in Founders THEN 1 ELSE NoVersion]
    /\ tokens = {[user |-> u, ver |-> 1, device |-> HomeOf[u], serial |-> 0] : u \in Founders}
    /\ tries = [u \in Users |-> 0] /\ locked = [u \in Users |-> FALSE]
    /\ invites = [i \in Invites |-> NoRow]
    /\ kyc = [u \in Users |-> <<>>] /\ bank = [u \in Users |-> "none"]
    /\ req = [q \in Procs |-> Idle] /\ left \in Agendas
    /\ wrong = [u \in Users |-> 0] /\ proven = {} /\ vouched = {}
    /\ guest = [u \in Users |-> Nobody] /\ overlapped = {}

-----------------------------------------------------------------------------
(* Requests                                                                 *)

Does(q, kind) == req[q] # Idle /\ req[q].kind = kind
At(q, kind, step) == Does(q, kind) /\ req[q].at = step
Begin(q, class, r) ==
    /\ req[q] = Idle /\ left[class] > 0
    /\ req' = [req EXCEPT ![q] = r]
    /\ left' = [left EXCEPT ![class] = @ - 1]
Goes(q, step) == req' = [req EXCEPT ![q].at = step]
Done(q) == req' = [req EXCEPT ![q] = Idle]
AtOnce(class) == left[class] > 0 /\ left' = [left EXCEPT ![class] = @ - 1] /\ UNCHANGED req

\* The model's soft delete hides the row from every select that goes by it.
Found(u) == users[u] # NoRow /\ ~users[u].deleted

\* A request that holds the row it is going to write.
Holds(q, u) ==
    /\ req[q] # Idle /\ req[q].kind \in {"row", "open", "revoke", "review"}
    /\ req[q].user = u
    /\ (req[q].kind = "review" => req[q].at = "write")
Overlap(u) ==
    overlapped' = IF \E q \in Procs : Holds(q, u) THEN overlapped \cup {u} ELSE overlapped

\* What a version opens: the one Redis has, or else the one of the row.
CurrentVersion(u) == IF cache[u] # NoVersion THEN cache[u] ELSE users[u].ver
Accepted(t) == users[t.user] # NoRow /\ t.ver = CurrentVersion(t.user)

\* repo.Update writes every column of a row that is not deleted; the unique index on
\* the number of accounts that are not deleted may refuse it.
Refuses(u, row) ==
    /\ Found(u)
    /\ \E v \in Users \ {u} : Found(v) /\ users[v].number = row.number
Stored(u, row) == [users EXCEPT ![u] = IF @.deleted THEN @ ELSE row]

\* A handler that reads the row of u and will write it as row(the row read).
Reads(q, class, kind, u, row, step) ==
    /\ Found(u)
    /\ Begin(q, class, [kind |-> kind, user |-> u, row |-> row, at |-> step])
    /\ Overlap(u)
    /\ UNCHANGED <<users, sessionVars, pinVars, joinVars, checkVars, bank>>

-----------------------------------------------------------------------------
(* Sessions                                                                 *)

\* The second factor, where it is on: the code of the secret in the row.
FactorShown(u) == users[u].enabled => users[u].secret # NoSecret
Opened(row, d) == [row EXCEPT !.ver = @ + 1, !.device = d]

Login(q, u, d) ==
    /\ FactorShown(u)
    /\ Reads(q, "login", "open", u, Opened(users[u], d), "clear")
    /\ UNCHANGED proven

LoggedOff(row) == [row EXCEPT !.ver = @ + 1, !.device = NoDevice]

\* ClearDeviceSessions: whoever else was on this device has to log in again.
ClearDeviceSessions(q) ==
    /\ At(q, "open", "clear")
    /\ LET r == req[q] IN
       users' = [v \in Users |->
           IF v # r.user /\ users[v] # NoRow /\ users[v].device = r.row.device
           THEN LoggedOff(users[v]) ELSE users[v]]
    /\ Goes(q, "write")
    /\ UNCHANGED <<sessionVars, pinVars, joinVars, checkVars, bank, left, proven, overlapped>>

\* A passkey takes no device from anybody.
WebAuthnLogin(q, u) ==
    /\ Reads(q, "login", "open", u, Opened(users[u], Passkey), "write")
    /\ UNCHANGED proven

\* Mutant: the version stays.
RotatedInPlace(row) == row
Rotated(row) == [row EXCEPT !.ver = @ + 1]
Refresh(q, t) ==
    /\ t \in tokens /\ Found(t.user)
    /\ users[t.user].ver = t.ver /\ users[t.user].device = t.device
    /\ Reads(q, "session", "open", t.user, Rotated(users[t.user]), "write")
    /\ UNCHANGED proven

Suspended(row, s) ==
    IF s THEN [row EXCEPT !.suspended = TRUE, !.ver = @ + 1]
    ELSE [row EXCEPT !.suspended = FALSE]
AdminSuspendUser(q, u, s) ==
    /\ Found(u)
    /\ Reads(q, "session", "revoke", u, Suspended(users[u], s), "write")
    /\ UNCHANGED proven

AdminResetPassword(q, u) ==
    /\ Found(u)
    /\ Reads(q, "session", "revoke", u, Rotated(users[u]), "write")
    /\ UNCHANGED proven

\* One statement on the row, whatever other requests hold of it; then Redis.
Logout(q, u) ==
    /\ \E t \in tokens : t.user = u /\ Accepted(t)
    /\ Begin(q, "session", [kind |-> "logout", user |-> u])
    /\ users' = [users EXCEPT ![u] = LoggedOff(@)]
    /\ UNCHANGED <<sessionVars, pinVars, joinVars, checkVars, bank, proven, overlapped>>

DropVersion(q) ==
    /\ Does(q, "logout")
    /\ \/ cache' = [cache EXCEPT ![req[q].user] = NoVersion]
       \/ UNCHANGED cache
    /\ Done(q)
    /\ UNCHANGED <<users, tokens, pinVars, joinVars, checkVars, bank, left, proven, overlapped>>

\* The row is written.  Redis is told of the version by those that changed it.
WriteBack(q) ==
    /\ Does(q, "row") \/ At(q, "open", "write") \/ At(q, "revoke", "write")
    /\ LET r == req[q] IN
       IF Refuses(r.user, r.row)
       THEN Done(q) /\ UNCHANGED <<users, vouched>>
       ELSE /\ users' = Stored(r.user, r.row)
            /\ vouched' = IF r.row.verified THEN vouched \cup {r.user} ELSE vouched
            /\ IF r.kind = "row" THEN Done(q) ELSE Goes(q, "cache")
    /\ UNCHANGED <<sessionVars, pinVars, joinVars, kyc, bank, left, proven, overlapped>>

\* The error of Redis is ignored; the tokens are made after it.
SetVersion(q) ==
    /\ At(q, "open", "cache") \/ At(q, "revoke", "cache")
    /\ LET r == req[q] IN
       /\ \/ cache' = [cache EXCEPT ![r.user] = r.row.ver]
          \/ UNCHANGED cache
       /\ tokens' = IF r.kind = "revoke" THEN tokens
                    ELSE tokens \cup {[user |-> r.user, ver |-> r.row.ver,
                             device |-> r.row.device, serial |-> Cardinality(tokens)]}
    /\ Done(q)
    /\ UNCHANGED <<users, pinVars, joinVars, checkVars, bank, left, proven, overlapped>>

\* Protected asks Redis, then the row, deleted or not, and tells Redis of it.
Protected(q, u) ==
    /\ users[u] # NoRow /\ cache[u] = NoVersion
    /\ Begin(q, "visit", [kind |-> "check", user |-> u, ver |-> users[u].ver])
    /\ UNCHANGED <<users, sessionVars, pinVars, joinVars, checkVars, bank, proven, overlapped>>

FillVersion(q) ==
    /\ Does(q, "check")
    /\ cache' = [cache EXCEPT ![req[q].user] = req[q].ver]
    /\ Done(q)
    /\ UNCHANGED <<users, tokens, pinVars, joinVars, checkVars, bank, left, proven, overlapped>>

VersionExpires(u) ==
    /\ cache[u] # NoVersion /\ AtOnce("time")
    /\ cache' = [cache EXCEPT ![u] = NoVersion]
    /\ UNCHANGED <<users, tokens, pinVars, joinVars, checkVars, bank, proven, overlapped>>

-----------------------------------------------------------------------------
(* Columns of the row                                                       *)

\* Home, name, avatar and trust score tell no property apart: a write of what was read.
Touched(row) == row
UpdateHome(q, u) ==
    /\ Found(u)
    /\ Reads(q, "row", "row", u, Touched(users[u]), "write")
    /\ UNCHANGED proven
Scored(row) == row
AdminUpdateTrust(q, u) ==
    /\ Found(u)
    /\ Reads(q, "row", "row", u, Scored(users[u]), "write")
    /\ UNCHANGED proven

Renumbered(row, n) == [row EXCEPT !.number = n]
UpdateProfile(q, u, n) ==
    /\ Found(u)
    /\ Reads(q, "row", "row", u, Renumbered(users[u], n), "write")
    /\ UNCHANGED proven
AdminUpdateProfile(q, u, n) == UpdateProfile(q, u, n)

Verified(row, v) == [row EXCEPT !.verified = v]
AdminVerifyUser(q, u, v) ==
    /\ Found(u)
    /\ Reads(q, "row", "row", u, Verified(users[u], v), "write")
    /\ UNCHANGED proven

UpdateAcceptingOrders(u, a) ==
    /\ Found(u) /\ AtOnce("row")
    /\ users' = [users EXCEPT ![u].accepting = a]
    /\ UNCHANGED <<sessionVars, pinVars, joinVars, checkVars, bank, proven, overlapped>>

Delete(u) ==
    /\ Found(u) /\ AtOnce("row")
    /\ users' = [users EXCEPT ![u].deleted = TRUE]
    /\ vouched' = vouched \cup {u}
    /\ UNCHANGED <<sessionVars, pinVars, joinVars, kyc, bank, proven, overlapped>>

\* The second factor.
\* Mutant: a factor that was on stays on with the new secret.
WithNewSecret(row, s) == [row EXCEPT !.secret = s]
WithSecret(row, s) == [row EXCEPT !.secret = s, !.enabled = FALSE]
SetupTOTP(q, u, s) ==
    /\ Found(u)
    /\ s \notin proven /\ \A v \in Users : users[v] # NoRow => users[v].secret # s
    /\ \A p \in Procs, v \in Users : Holds(p, v) => req[p].row.secret # s
    /\ Reads(q, "totp", "row", u, WithSecret(users[u], s), "write")
    /\ UNCHANGED proven

Enabled(row) == [row EXCEPT !.enabled = TRUE]
EnableTOTP(q, u) ==
    /\ Found(u) /\ users[u].secret # NoSecret
    /\ proven' = proven \cup {users[u].secret}
    /\ Reads(q, "totp", "row", u, Enabled(users[u]), "write")

Disabled(row) == [row EXCEPT !.secret = NoSecret, !.enabled = FALSE]
DisableTOTP(q, u) ==
    /\ Found(u) /\ users[u].enabled /\ users[u].secret # NoSecret
    /\ Reads(q, "totp", "row", u, Disabled(users[u]), "write")
    /\ UNCHANGED proven

\* What somebody else sees of a user.  An administrator who takes the second factor
\* away reads the row this way, and writes it back this way.
Masked(row) == [row EXCEPT !.device = NoDevice, !.secret = NoSecret, !.email = "masked"]
AdminDisableTOTP(q, u) ==
    /\ Found(u)
    /\ Reads(q, "totp", "row", u, Disabled(Masked(users[u])), "write")
    /\ UNCHANGED proven

-----------------------------------------------------------------------------
(* PIN                                                                      *)

WithPin(row) == [row EXCEPT !.pin = TRUE]
SetupPin(q, u) ==
    /\ Found(u) /\ ~users[u].pin
    /\ Reads(q, "pin", "row", u, WithPin(users[u]), "write")
    /\ UNCHANGED proven

Forgotten(u) == tries' = [tries EXCEPT ![u] = 0] /\ wrong' = [wrong EXCEPT ![u] = 0]
Unlocked(u) == Forgotten(u) /\ locked' = [locked EXCEPT ![u] = FALSE]

\* The lock is taken away before the new PIN is written.
ChangePin(q, u) ==
    /\ Found(u) /\ users[u].pin
    /\ Begin(q, "unlock", [kind |-> "row", user |-> u, row |-> WithPin(users[u]), at |-> "write"])
    /\ Unlocked(u) /\ Overlap(u)
    /\ UNCHANGED <<users, sessionVars, joinVars, checkVars, bank, proven>>

\* The lock is looked at, and the PIN compared: right or wrong.
VerifyPin(q, u) ==
    /\ req[q] = Idle /\ Found(u) /\ users[u].pin /\ ~locked[u]
    /\ \E step \in {"right", "count"} :
        req' = [req EXCEPT ![q] = [kind |-> "pin", user |-> u, at |-> step, n |-> 0]]
    /\ UNCHANGED <<users, sessionVars, pinVars, joinVars, checkVars, bank, left, proven, overlapped>>

RightPin(q) ==
    /\ At(q, "pin", "right")
    /\ Forgotten(req[q].user) /\ Done(q)
    /\ UNCHANGED <<users, sessionVars, locked, joinVars, checkVars, bank, left, proven, overlapped>>

CountAttempt(q) ==
    /\ At(q, "pin", "count")
    /\ req' = [req EXCEPT ![q].at = "store", ![q].n = tries[req[q].user] + 1]
    /\ UNCHANGED <<users, sessionVars, pinVars, joinVars, checkVars, bank, left, proven, overlapped>>

\* Mutant: the attempts are locked out one too late.
LocksOutLate(n) == n > MaxAttempts
LocksOut(n) == n >= MaxAttempts
WrongPin(q) ==
    /\ At(q, "pin", "store")
    /\ LET r == req[q] IN
       IF LocksOut(r.n)
       THEN locked' = [locked EXCEPT ![r.user] = TRUE] /\ Forgotten(r.user)
       ELSE /\ tries' = [tries EXCEPT ![r.user] = r.n]
            /\ wrong' = [wrong EXCEPT ![r.user] = @ + 1]
            /\ UNCHANGED locked
    /\ Done(q)
    /\ UNCHANGED <<users, sessionVars, joinVars, checkVars, bank, left, proven, overlapped>>

\* An administrator, or 24 hours for the lock and one for the attempts.
AdminUnlockPin(u) ==
    /\ locked[u] /\ AtOnce("unlock") /\ Unlocked(u)
    /\ UNCHANGED <<users, sessionVars, joinVars, checkVars, bank, proven, overlapped>>
AttemptsExpire(u) ==
    /\ tries[u] > 0 /\ AtOnce("time") /\ Forgotten(u)
    /\ UNCHANGED <<users, sessionVars, locked, joinVars, checkVars, bank, proven, overlapped>>
LockExpires(u) ==
    /\ locked[u] /\ AtOnce("time")
    /\ locked' = [locked EXCEPT ![u] = FALSE]
    /\ UNCHANGED <<users, sessionVars, tries, wrong, joinVars, checkVars, bank, proven, overlapped>>

-----------------------------------------------------------------------------
(* Registration                                                             *)

Taken(n) == \E u \in Users : Found(u) /\ users[u].number = n
Fresh(u) == users[u] = NoRow /\ \A q \in Procs : req[q] # Idle /\
                req[q].kind \in {"sign", "onboard"} => req[q].user # u
NewRow(n, d, v) ==
    [number |-> n, email |-> "own", device |-> d, ver |-> 0, pin |-> FALSE,
     secret |-> NoSecret, enabled |-> FALSE, verified |-> v, suspended |-> FALSE,
     accepting |-> FALSE, deleted |-> FALSE]
idle == <<sessionVars, pinVars, bank, proven, overlapped>>

SignsUp(q, u, row) ==
    /\ Fresh(u) /\ ~Taken(row.number)
    /\ Begin(q, "join", [kind |-> "sign", user |-> u, row |-> row])
    /\ UNCHANGED <<users, joinVars, checkVars, idle>>
Create(q, u, n, d) == SignsUp(q, u, NewRow(n, d, FALSE))
AdminCreate(q, u, n, v) == SignsUp(q, u, NewRow(n, NoDevice, v))

AdminCreateInvitation(q, i, n, role) ==
    /\ invites[i] = NoRow /\ ~Taken(n)
    /\ \A p \in Procs : Does(p, "invite") => req[p].invite # i
    /\ Begin(q, "join", [kind |-> "invite", invite |-> i, number |-> n, role |-> role])
    /\ UNCHANGED <<users, joinVars, checkVars, idle>>

InsertInvitation(q) ==
    /\ Does(q, "invite")
    /\ invites' = [invites EXCEPT ![req[q].invite] =
                     [number |-> req[q].number, role |-> req[q].role,
                      status |-> "pending", due |-> FALSE]]
    /\ Done(q)
    /\ UNCHANGED <<users, guest, checkVars, idle, left>>

InvitationLapses(i) ==
    /\ invites[i] # NoRow /\ ~invites[i].due /\ AtOnce("time")
    /\ invites' = [invites EXCEPT ![i].due = TRUE]
    /\ UNCHANGED <<users, guest, checkVars, idle>>

\* ValidateInvitation, for the form and at the start of an onboarding: a pending
\* invitation that lapsed is written back as expired.
Valid(i) == invites[i] # NoRow /\ invites[i].status = "pending" /\ ~invites[i].due
ValidateInvitation(q, i) ==
    /\ invites[i] # NoRow /\ invites[i].status = "pending" /\ invites[i].due
    /\ Begin(q, "join", [kind |-> "expire", invite |-> i])
    /\ UNCHANGED <<users, joinVars, checkVars, idle>>

ExpireInvitation(q) ==
    /\ Does(q, "expire")
    /\ invites' = [invites EXCEPT ![req[q].invite].status = "expired"]
    /\ Done(q)
    /\ UNCHANGED <<users, guest, checkVars, idle, left>>

\* The photos are uploaded before the transaction.
Onboard(q, u, i, role) ==
    /\ Fresh(u) /\ Valid(i) /\ invites[i].role = role
    /\ Begin(q, "join", [kind |-> "onboard", user |-> u, number |-> invites[i].number,
                         invite |-> i, role |-> role])
    /\ UNCHANGED <<users, joinVars, checkVars, idle>>
OnboardRunner(q, u, i) == Onboard(q, u, i, "runner")
OnboardMerchant(q, u, i) == Onboard(q, u, i, "merchant")

MarkedUsed(i) == [invites EXCEPT ![i].status = "used"]

\* The account, what comes with it and the invitation in one transaction, which the
\* unique index on the number may roll back.
Registers(q, role, submissions) ==
    /\ Does(q, "onboard") /\ req[q].role = role
    /\ LET r == req[q] IN
       IF Taken(r.number) THEN UNCHANGED <<users, kyc, joinVars>>
       ELSE /\ users' = [users EXCEPT ![r.user] = NewRow(r.number, Web, FALSE)]
            /\ kyc' = [kyc EXCEPT ![r.user] = submissions]
            /\ invites' = MarkedUsed(r.invite)
            /\ guest' = [guest EXCEPT ![r.user] = r.invite]
    /\ Done(q)
    /\ UNCHANGED <<vouched, idle, left>>

NewSubmission == [status |-> "pending", photos |-> TRUE]
CommitRunner(q) == Registers(q, "runner", <<NewSubmission>>)
CommitMerchant(q) == Registers(q, "merchant", <<>>)

InsertUser(q) ==
    /\ Does(q, "sign")
    /\ LET r == req[q] IN
       IF Taken(r.row.number) THEN UNCHANGED <<users, vouched>>
       ELSE /\ users' = [users EXCEPT ![r.user] = r.row]
            /\ vouched' = IF r.row.verified THEN vouched \cup {r.user} ELSE vouched
    /\ Done(q)
    /\ UNCHANGED <<kyc, joinVars, idle, left>>

-----------------------------------------------------------------------------
(* Identity check                                                           *)

Latest(u) == kyc[u][Len(kyc[u])]
MaySubmit(u) == kyc[u] # <<>> => Latest(u).status = "rejected"

\* The new photos are stored, those of the refused submission deleted.
Submit(q, u) ==
    /\ Found(u) /\ MaySubmit(u)
    /\ Begin(q, "kyc", [kind |-> "submit", user |-> u])
    /\ kyc' = IF kyc[u] = <<>> THEN kyc
              ELSE [kyc EXCEPT ![u][Len(kyc[u])].photos = FALSE]
    /\ UNCHANGED <<users, vouched, joinVars, idle>>

\* The row is inserted, unless the database fails.
InsertSubmission(q) ==
    /\ Does(q, "submit")
    /\ \/ kyc' = [kyc EXCEPT ![req[q].user] = Append(@, NewSubmission)]
       \/ UNCHANGED kyc
    /\ Done(q)
    /\ UNCHANGED <<users, vouched, joinVars, idle, left>>

\* An approval verifies the user first and then writes the submission.
\* Mutant: the submission first.
ReviewClosesFirst(status) == "close"
ReviewStep(status) == IF status = "approved" THEN "read" ELSE "close"
Review(q, u, n, status) ==
    /\ n \in DOMAIN kyc[u] /\ kyc[u][n].status = "pending"
    /\ Begin(q, "kyc", [kind |-> "review", user |-> u, at |-> ReviewStep(status),
                        row |-> NoRow, n |-> n, status |-> status])
    /\ UNCHANGED <<users, joinVars, checkVars, idle>>

ReadReviewed(q) ==
    /\ At(q, "review", "read")
    /\ LET u == req[q].user IN
       IF Found(u)
       THEN /\ req' = [req EXCEPT ![q].at = "write", ![q].row = Verified(users[u], TRUE)]
            /\ Overlap(u)
       ELSE Done(q) /\ UNCHANGED overlapped
    /\ UNCHANGED <<users, sessionVars, pinVars, joinVars, checkVars, bank, left, proven>>

VerifyReviewed(q) ==
    /\ At(q, "review", "write")
    /\ LET r == req[q] IN
       IF Refuses(r.user, r.row)
       THEN Done(q) /\ UNCHANGED <<users, vouched>>
       ELSE users' = Stored(r.user, r.row) /\ vouched' = vouched \cup {r.user} /\ Goes(q, "close")
    /\ UNCHANGED <<kyc, joinVars, idle, left>>

CloseReview(q) ==
    /\ At(q, "review", "close")
    /\ LET r == req[q] IN
       \/ kyc' = [kyc EXCEPT ![r.user][r.n].status = r.status]
       \/ UNCHANGED kyc
    /\ Done(q)
    /\ UNCHANGED <<users, vouched, joinVars, idle, left>>

-----------------------------------------------------------------------------
(* Bank account                                                             *)

RegisterMyBankAccount(q, u) ==
    /\ users[u] # NoRow /\ bank[u] = "none"
    /\ Begin(q, "bank", [kind |-> "bank", user |-> u])
    /\ UNCHANGED <<users, joinVars, checkVars, idle>>

UpsertBankAccount(q) ==
    /\ Does(q, "bank")
    /\ bank' = [bank EXCEPT ![req[q].user] = "own"]
    /\ Done(q)
    /\ UNCHANGED <<users, joinVars, checkVars, sessionVars, pinVars, proven, overlapped, left>>

AdminRegisterBankAccount(u) ==
    /\ users[u] # NoRow /\ AtOnce("bank")
    /\ bank' = [bank EXCEPT ![u] = "admin"]
    /\ UNCHANGED <<users, joinVars, checkVars, sessionVars, pinVars, proven, overlapped>>

-----------------------------------------------------------------------------

SessionStep(q) ==
    \/ ClearDeviceSessions(q) \/ WriteBack(q) \/ SetVersion(q) \/ DropVersion(q)
    \/ FillVersion(q)
    \/ \E t \in tokens : Refresh(q, t)
    \/ \E u \in Users :
        \/ \E d \in Devices : Found(u) /\ Login(q, u, d)
        \/ WebAuthnLogin(q, u) \/ Logout(q, u) \/ Protected(q, u)
        \/ AdminResetPassword(q, u)
        \/ \E s \in BOOLEAN : AdminSuspendUser(q, u, s)

RowStep(q) ==
    \E u \in Users :
        \/ UpdateHome(q, u) \/ AdminUpdateTrust(q, u) \/ SetupPin(q, u) \/ ChangePin(q, u)
        \/ \E n \in Numbers : UpdateProfile(q, u, n) \/ AdminUpdateProfile(q, u, n)
        \/ \E v \in BOOLEAN : AdminVerifyUser(q, u, v)
        \/ \E s \in Secrets : SetupTOTP(q, u, s)
        \/ EnableTOTP(q, u) \/ DisableTOTP(q, u) \/ AdminDisableTOTP(q, u)

PinStep(q) ==
    \/ \E u \in Users : VerifyPin(q, u)
    \/ RightPin(q) \/ CountAttempt(q) \/ WrongPin(q)

JoinStep(q) ==
    \/ InsertUser(q) \/ InsertInvitation(q) \/ ExpireInvitation(q)
    \/ CommitRunner(q) \/ CommitMerchant(q)
    \/ \E u \in Users, n \in Numbers :
        \/ \E d \in Devices : Create(q, u, n, d)
        \/ \E v \in BOOLEAN : AdminCreate(q, u, n, v)
    \/ \E i \in Invites :
        \/ ValidateInvitation(q, i)
        \/ \E u \in Users : OnboardRunner(q, u, i) \/ OnboardMerchant(q, u, i)
        \/ \E n \in Numbers, role \in {"runner", "merchant"} :
               AdminCreateInvitation(q, i, n, role)

CheckStep(q) ==
    \/ InsertSubmission(q) \/ ReadReviewed(q) \/ VerifyReviewed(q) \/ CloseReview(q)
    \/ UpsertBankAccount(q)
    \/ \E u \in Users :
        \/ Submit(q, u) \/ RegisterMyBankAccount(q, u)
        \/ \E n \in DOMAIN kyc[u], status \in {"approved", "rejected"} :
               Review(q, u, n, status)

AtOnceStep ==
    \/ \E u \in Users :
        \/ Delete(u) \/ VersionExpires(u) \/ AdminUnlockPin(u) \/ AttemptsExpire(u)
        \/ LockExpires(u) \/ AdminRegisterBankAccount(u)
        \/ \E a \in BOOLEAN : UpdateAcceptingOrders(u, a)
    \/ \E i \in Invites : InvitationLapses(i)

Next ==
    \/ \E q \in Procs :
        SessionStep(q) \/ RowStep(q) \/ PinStep(q) \/ JoinStep(q) \/ CheckStep(q)
    \/ AtOnceStep

Spec == Init /\ [][Next]_vars

-----------------------------------------------------------------------------
(* Properties                                                               *)

\* "Increment version to invalidate all previous tokens": as long as no two requests
\* on the row of a user overlapped, whatever other accounts do on the same device,
\* however late Redis is told and whatever it forgets, at most one pair of tokens
\* opens a session of that user.
OneSession ==
    \A u \in Users \ overlapped :
        \A s, t \in {x \in tokens : x.user = u /\ Accepted(x)} : s = t

\* A second factor that is on can be answered: its secret is there, and somebody once
\* showed a code of this very secret, whatever rows were written back meanwhile.
EnabledIsProven ==
    \A u \in Users : users[u] # NoRow /\ users[u].enabled => users[u].secret \in proven

\* However many wrong PINs are sent at once, the attempts that are lost between
\* reading and storing the counter stay within a bound before the PIN is locked.
AttemptsBounded == \A u \in Users : wrong[u] <= WrongBound

\* Whatever fails in between, an identity is approved only of a user whose row was
\* written as verified, or who is gone.
ApprovedIsVouched ==
    \A u \in Users : (\E n \in DOMAIN kyc[u] : kyc[u][n].status = "approved") => u \in vouched

\* The photos of a submission that waits for a review are never deleted by another.
PendingHasPhotos ==
    \A u \in Users : \A n \in DOMAIN kyc[u] : kyc[u][n].status = "pending" => kyc[u][n].photos

\* An invitation is used if and only if an account was made with it; one that was
\* looked at as it lapsed may be called expired instead, but never waits again.
InvitationAgrees ==
    \A i \in Invites : invites[i] # NoRow =>
        LET made == \E u \in Users : guest[u] = i
        IN  /\ invites[i].status = "used" => made
            /\ made => invites[i].status # "pending"

\* Who is let in as a runner was invited and checked: the three above, which share the
\* rows of invitations and submissions and the transactions that end them.
OnboardingAgrees == ApprovedIsVouched /\ PendingHasPhotos /\ InvitationAgrees
=============================================================================
