--------------------------- MODULE Accounts_proofs ---------------------------
(***************************************************************************)
(* Proofs about Accounts: type correctness, and that sessions, second      *)
(* factors and onboardings agree with the rows behind them, however the    *)
(* requests that read and write back whole rows are interleaved; and that  *)
(* the wrong PINs any number of requests can try are bounded.              *)
(***************************************************************************)
EXTENDS AccountsInv, Sums, FiniteSetTheorems, SequenceTheorems, TLAPS

\* What a request is doing says what it holds.
LEMMA KindsOfRequest ==
    ASSUME NEW r \in Request
    PROVE  /\ r.kind \in {"row", "open", "revoke"} => r \in Writing
           /\ r.kind = "logout" => r \in LoggingOut
           /\ r.kind = "check" => r \in Checking
           /\ r.kind = "pin" => r \in Guessing
           /\ r.kind = "submit" => r \in Submitting
           /\ r.kind = "review" => r \in Reviewing
           /\ r.kind = "sign" => r \in Signing
           /\ r.kind = "onboard" => r \in Onboarding
           /\ r.kind = "invite" => r \in Inviting
           /\ r.kind = "expire" => r \in Expiring
           /\ r.kind = "bank" => r \in Banking
<1>1. CASE r \in Writing
    BY <1>1 DEF Writing
<1>2. CASE r \in LoggingOut
    BY <1>2 DEF LoggingOut
<1>3. CASE r \in Checking
    BY <1>3 DEF Checking
<1>4. CASE r \in Guessing
    BY <1>4 DEF Guessing
<1>5. CASE r \in Submitting
    BY <1>5 DEF Submitting
<1>6. CASE r \in Reviewing
    BY <1>6 DEF Reviewing
<1>7. CASE r \in Signing
    BY <1>7 DEF Signing
<1>8. CASE r \in Onboarding
    BY <1>8 DEF Onboarding
<1>9. CASE r \in Inviting
    BY <1>9 DEF Inviting
<1>10. CASE r \in Expiring
    BY <1>10 DEF Expiring
<1>11. CASE r \in Banking
    BY <1>11 DEF Banking
<1> QED
    BY <1>1, <1>2, <1>3, <1>4, <1>5, <1>6, <1>7, <1>8, <1>9, <1>10, <1>11 DEF Request

\* A request that holds a row it will write, field by field.
LEMMA WritingFields ==
    ASSUME NEW r \in Request, r.kind \in {"row", "open", "revoke"}
    PROVE  /\ r.user \in Users /\ r.row \in UserRow /\ r.at \in {"clear", "write", "cache"}
           /\ \A s \in {"clear", "write", "cache"} : [r EXCEPT !.at = s] \in Request
    BY KindsOfRequest DEF Writing, Request

\* The same of a review.
LEMMA ReviewFields ==
    ASSUME NEW r \in Request, r.kind = "review"
    PROVE  /\ r.user \in Users /\ r.at \in {"read", "write", "close"} /\ r.n \in Nat
           /\ r.status \in {"approved", "rejected"} /\ r.row \in UserRow \cup {NoRow}
           /\ [r EXCEPT !.at = "close"] \in Request
           /\ \A row \in UserRow : [r EXCEPT !.at = "write", !.row = row] \in Request
    BY KindsOfRequest DEF Reviewing, Request

\* The same of a guess at a PIN.
LEMMA GuessFields ==
    ASSUME NEW r \in Request, r.kind = "pin"
    PROVE  /\ r.user \in Users /\ r.n \in 0 .. MaxAttempts
           /\ \A n \in 0 .. MaxAttempts : [r EXCEPT !.at = "store", !.n = n] \in Request
    BY KindsOfRequest DEF Guessing, Request

\* The same of the requests of a registration.
LEMMA JoinFields ==
    ASSUME NEW r \in Request
    PROVE  /\ r.kind = "sign" => r.user \in Users /\ r.row \in UserRow
           /\ r.kind = "onboard" =>
                r.user \in Users /\ r.number \in Numbers /\ r.invite \in Invites
           /\ r.kind = "invite" => /\ r.invite \in Invites /\ r.number \in Numbers
                                   /\ r.role \in {"runner", "merchant"}
           /\ r.kind = "expire" => r.invite \in Invites
    BY KindsOfRequest DEF Signing, Onboarding, Inviting, Expiring

\* The same of the requests that only know a user.
LEMMA PlainFields ==
    ASSUME NEW r \in Request, r.kind \in {"logout", "check", "submit", "bank"}
    PROVE  r.user \in Users /\ (r.kind = "check" => r.ver \in Nat)
    BY KindsOfRequest DEF LoggingOut, Checking, Submitting, Banking

\* The requests the handlers begin with.
LEMMA NewRequests ==
    /\ \A k \in {"row", "open", "revoke"}, u \in Users, row \in UserRow,
          s \in {"clear", "write"} :
        [kind |-> k, user |-> u, row |-> row, at |-> s] \in Request
    /\ \A u \in Users : [kind |-> "logout", user |-> u] \in Request
    /\ \A u \in Users, v \in Nat : [kind |-> "check", user |-> u, ver |-> v] \in Request
    /\ \A u \in Users, s \in {"right", "count"} :
        [kind |-> "pin", user |-> u, at |-> s, n |-> 0] \in Request
    /\ \A u \in Users : [kind |-> "submit", user |-> u] \in Request
    /\ \A u \in Users, k \in Nat, s \in {"approved", "rejected"}, a \in {"read", "close"} :
        [kind |-> "review", user |-> u, at |-> a, row |-> NoRow, n |-> k,
         status |-> s] \in Request
    /\ \A u \in Users, row \in UserRow :
        [kind |-> "sign", user |-> u, row |-> row] \in Request
    /\ \A u \in Users, n \in Numbers, i \in Invites, role \in {"runner", "merchant"} :
        [kind |-> "onboard", user |-> u, number |-> n, invite |-> i, role |-> role]
            \in Request
    /\ \A i \in Invites, n \in Numbers, role \in {"runner", "merchant"} :
        [kind |-> "invite", invite |-> i, number |-> n, role |-> role] \in Request
    /\ \A i \in Invites : [kind |-> "expire", invite |-> i] \in Request
    /\ \A u \in Users : [kind |-> "bank", user |-> u] \in Request
<1>1. \A k \in {"row", "open", "revoke"}, u \in Users, row \in UserRow,
         s \in {"clear", "write"} :
        [kind |-> k, user |-> u, row |-> row, at |-> s] \in Writing
    BY DEF Writing
<1>2. \A u \in Users : [kind |-> "logout", user |-> u] \in LoggingOut
    BY DEF LoggingOut
<1>3. \A u \in Users, v \in Nat : [kind |-> "check", user |-> u, ver |-> v] \in Checking
    BY DEF Checking
<1>4. \A u \in Users, s \in {"right", "count"} :
        [kind |-> "pin", user |-> u, at |-> s, n |-> 0] \in Guessing
    BY DEF Guessing, MaxAttempts
<1>5. \A u \in Users : [kind |-> "submit", user |-> u] \in Submitting
    BY DEF Submitting
<1>6. \A u \in Users, k \in Nat, s \in {"approved", "rejected"}, a \in {"read", "close"} :
        [kind |-> "review", user |-> u, at |-> a, row |-> NoRow, n |-> k,
         status |-> s] \in Reviewing
    BY DEF Reviewing
<1>7. \A u \in Users, row \in UserRow :
        [kind |-> "sign", user |-> u, row |-> row] \in Signing
    BY DEF Signing
<1>8. \A u \in Users, n \in Numbers, i \in Invites, role \in {"runner", "merchant"} :
        [kind |-> "onboard", user |-> u, number |-> n, invite |-> i, role |-> role]
            \in Onboarding
    BY DEF Onboarding
<1>9. \A i \in Invites, n \in Numbers, role \in {"runner", "merchant"} :
        [kind |-> "invite", invite |-> i, number |-> n, role |-> role] \in Inviting
    BY DEF Inviting
<1>10. \A i \in Invites : [kind |-> "expire", invite |-> i] \in Expiring
    BY DEF Expiring
<1>11. \A u \in Users : [kind |-> "bank", user |-> u] \in Banking
    BY DEF Banking
<1> QED
    BY <1>1, <1>2, <1>3, <1>4, <1>5, <1>6, <1>7, <1>8, <1>9, <1>10, <1>11 DEF Request

-----------------------------------------------------------------------------
(* What the handlers make of a row                                          *)

\* A row made of another one: a row, no older, and with a second factor on only if it
\* was on with this secret.
Keeps(new, row) ==
    /\ new \in UserRow /\ new.ver >= row.ver
    /\ (new.enabled => row.enabled /\ new.secret = row.secret)

\* One field of a row changed.
LEMMA OneField ==
    ASSUME NEW row \in UserRow
    PROVE  /\ \A n \in Nat : [row EXCEPT !.ver = n] \in UserRow
           /\ \A d \in Devices \cup {NoDevice, Passkey, Web} :
                [row EXCEPT !.device = d] \in UserRow
           /\ \A s \in Secrets \cup {NoSecret} : [row EXCEPT !.secret = s] \in UserRow
           /\ \A b \in BOOLEAN : /\ [row EXCEPT !.suspended = b] \in UserRow
                                 /\ [row EXCEPT !.enabled = b] \in UserRow
                                 /\ [row EXCEPT !.accepting = b] \in UserRow
                                 /\ [row EXCEPT !.deleted = b] \in UserRow
<1>1. \A n \in Nat : [row EXCEPT !.ver = n] \in UserRow
    BY DEF UserRow
<1>2. \A d \in Devices \cup {NoDevice, Passkey, Web} : [row EXCEPT !.device = d] \in UserRow
    BY DEF UserRow
<1>3. \A s \in Secrets \cup {NoSecret} : [row EXCEPT !.secret = s] \in UserRow
    BY DEF UserRow
<1>4. \A b \in BOOLEAN : [row EXCEPT !.suspended = b] \in UserRow
    BY DEF UserRow
<1>5. \A b \in BOOLEAN : [row EXCEPT !.enabled = b] \in UserRow
    BY DEF UserRow
<1>6. \A b \in BOOLEAN : [row EXCEPT !.accepting = b] \in UserRow
    BY DEF UserRow
<1>7. \A b \in BOOLEAN : [row EXCEPT !.deleted = b] \in UserRow
    BY DEF UserRow
<1> QED
    BY <1>1, <1>2, <1>3, <1>4, <1>5, <1>6, <1>7

\* A row one version later, and what else is then changed of it.
LEMMA OneVersionLater ==
    ASSUME NEW row \in UserRow
    PROVE  /\ \A d \in Devices \cup {NoDevice, Passkey, Web} :
                LET new == [row EXCEPT !.ver = @ + 1, !.device = d]
                IN  /\ Keeps(new, row) /\ new.ver > row.ver
                    /\ new.device = d /\ new.deleted = row.deleted
           /\ LET new == [row EXCEPT !.ver = @ + 1]
              IN  Keeps(new, row) /\ new.ver > row.ver /\ new.device = row.device
           /\ Keeps([row EXCEPT !.suspended = TRUE, !.ver = @ + 1], row)
<1> DEFINE later == [row EXCEPT !.ver = @ + 1]
<1>1. row.ver \in Nat
    BY DEF UserRow
<1>2. /\ later \in UserRow /\ later.ver = row.ver + 1 /\ later.device = row.device
      /\ later.enabled = row.enabled /\ later.secret = row.secret
      /\ later.deleted = row.deleted
    BY <1>1, OneField DEF UserRow
<1>3. ASSUME NEW d \in Devices \cup {NoDevice, Passkey, Web}
      PROVE  LET new == [row EXCEPT !.ver = @ + 1, !.device = d]
             IN  /\ Keeps(new, row) /\ new.ver > row.ver
                 /\ new.device = d /\ new.deleted = row.deleted
    <2> DEFINE new == [row EXCEPT !.ver = @ + 1, !.device = d]
    <2>1. new = [later EXCEPT !.device = d]
        BY DEF UserRow
    <2> HIDE DEF later
    <2>2. new \in UserRow
        BY <1>2, <2>1, OneField
    <2>3. /\ new.ver = later.ver /\ new.device = d /\ new.deleted = later.deleted
          /\ new.enabled = later.enabled /\ new.secret = later.secret
        BY <1>2, <2>1 DEF UserRow
    <2> HIDE DEF new
    <2> SUFFICES Keeps(new, row) /\ new.ver > row.ver
                    /\ new.device = d /\ new.deleted = row.deleted
        BY DEF new
    <2> QED
        BY <1>1, <1>2, <2>2, <2>3 DEF Keeps
<1>4. Keeps([row EXCEPT !.suspended = TRUE, !.ver = @ + 1], row)
    <2> DEFINE new == [row EXCEPT !.suspended = TRUE, !.ver = @ + 1]
    <2>1. new = [later EXCEPT !.suspended = TRUE]
        BY DEF UserRow
    <2> HIDE DEF later
    <2>2. new \in UserRow
        BY <1>2, <2>1, OneField
    <2>3. /\ new.ver = later.ver /\ new.enabled = later.enabled
          /\ new.secret = later.secret
        BY <1>2, <2>1 DEF UserRow
    <2> HIDE DEF new
    <2> SUFFICES Keeps(new, row)
        BY DEF new
    <2> QED
        BY <1>1, <1>2, <2>2, <2>3 DEF Keeps
<1>5. Keeps(later, row) /\ later.ver > row.ver /\ later.device = row.device
    <2> HIDE DEF later
    <2> QED
        BY <1>1, <1>2 DEF Keeps
<1> QED
    BY <1>3, <1>4, <1>5

\* Every handler that writes back a row but EnableTOTP keeps to that.
LEMMA RowsAreKept ==
    ASSUME NEW row \in UserRow
    PROVE  /\ \A d \in Devices \cup {Passkey} : Keeps(Opened(row, d), row)
           /\ Keeps(Rotated(row), row)
           /\ \A s \in BOOLEAN : Keeps(Suspended(row, s), row)
           /\ Keeps(Touched(row), row) /\ Keeps(Scored(row), row)
           /\ \A n \in Numbers : Keeps(Renumbered(row, n), row)
           /\ \A v \in BOOLEAN : Keeps(Verified(row, v), row)
           /\ \A s \in Secrets : Keeps(WithSecret(row, s), row)
           /\ Keeps(Disabled(row), row)
           /\ Keeps(Disabled(Masked(row)), row)
           /\ Keeps(WithPin(row), row)
<1> USE DEF Keeps
<1>1. \A d \in Devices \cup {Passkey} : Keeps(Opened(row, d), row)
    BY OneVersionLater DEF Opened
<1>2. Keeps(Rotated(row), row)
    BY OneVersionLater DEF Rotated
<1>3. Keeps(Suspended(row, TRUE), row)
    BY OneVersionLater DEF Suspended
<1>4. Keeps(Suspended(row, FALSE), row)
    <2> DEFINE new == Suspended(row, FALSE)
    <2>1. new \in UserRow
        BY DEF Suspended, UserRow
    <2>2. new.ver = row.ver
        BY DEF Suspended, UserRow
    <2>3. new.enabled = row.enabled /\ new.secret = row.secret
        BY DEF Suspended, UserRow
    <2>4. row.ver \in Nat
        BY DEF UserRow
    <2> HIDE DEF new
    <2>5. Keeps(new, row)
        BY <2>1, <2>2, <2>3, <2>4
    <2> QED
        BY <2>5 DEF new
<1>5. Keeps(Touched(row), row) /\ Keeps(Scored(row), row)
    BY DEF Touched, Scored, UserRow
<1>6. \A n \in Numbers : Keeps(Renumbered(row, n), row)
    BY DEF Renumbered, UserRow
<1>7. \A v \in BOOLEAN : Keeps(Verified(row, v), row)
    BY DEF Verified, UserRow
<1>8. ASSUME NEW s \in Secrets
      PROVE  Keeps(WithSecret(row, s), row)
    <2>1. WithSecret(row, s) = [[row EXCEPT !.secret = s] EXCEPT !.enabled = FALSE]
        BY DEF WithSecret, UserRow
    <2>2. WithSecret(row, s) \in UserRow
        BY <1>8, <2>1, OneField
    <2>3. ~WithSecret(row, s).enabled /\ WithSecret(row, s).ver = row.ver
        BY DEF WithSecret, UserRow
    <2>4. row.ver \in Nat
        BY DEF UserRow
    <2> QED
        BY <2>2, <2>3, <2>4
<1>9. ASSUME NEW r \in UserRow
      PROVE  Keeps(Disabled(r), r) /\ ~Disabled(r).enabled
    <2> DEFINE new == Disabled(r)
    <2>1. new \in UserRow
        BY <1>9 DEF Disabled, UserRow
    <2>2. new.ver = r.ver /\ ~new.enabled
        BY <1>9 DEF Disabled, UserRow
    <2>3. r.ver \in Nat
        BY <1>9 DEF UserRow
    <2> HIDE DEF new
    <2>4. Keeps(new, r) /\ ~new.enabled
        BY <2>1, <2>2, <2>3
    <2> QED
        BY <2>4 DEF new
<1>10. Masked(row) \in UserRow /\ Masked(row).ver = row.ver
    BY DEF Masked, UserRow
<1>11. Keeps(Disabled(Masked(row)), row)
    <2>1. Disabled(Masked(row)).ver = Masked(row).ver
        BY <1>10 DEF Disabled, UserRow
    <2>2. row.ver \in Nat
        BY DEF UserRow
    <2> QED
        BY <1>9, <1>10, <2>1, <2>2
<1>12. Keeps(WithPin(row), row)
    <2>1. WithPin(row) \in UserRow
        BY DEF WithPin, UserRow
    <2>2. /\ WithPin(row).ver = row.ver /\ WithPin(row).enabled = row.enabled
          /\ WithPin(row).secret = row.secret
        BY DEF WithPin, UserRow
    <2>3. row.ver \in Nat
        BY DEF UserRow
    <2> QED
        BY <2>1, <2>2, <2>3
<1> HIDE DEF Keeps
<1>13. \A s \in BOOLEAN : Keeps(Suspended(row, s), row)
    BY <1>3, <1>4
<1> QED
    BY <1>1, <1>2, <1>5, <1>6, <1>7, <1>8, <1>9, <1>11, <1>12, <1>13

\* The rows that open a session are ahead of the row they were made of.
LEMMA OpeningsAreAhead ==
    ASSUME NEW row \in UserRow
    PROVE  /\ \A d \in Devices \cup {Passkey} :
                Opened(row, d).ver > row.ver /\ Opened(row, d).device = d
           /\ Rotated(row).ver > row.ver /\ Rotated(row).device = row.device
    BY OneVersionLater DEF Opened, Rotated

\* What EnableTOTP makes of a row.
LEMMA EnabledRow ==
    ASSUME NEW row \in UserRow
    PROVE  /\ Enabled(row) \in UserRow /\ Enabled(row).ver = row.ver
           /\ Enabled(row).secret = row.secret
    BY DEF Enabled, UserRow

\* What the steps that change one column of the table keep of its rows.
LEMMA RowsAreRows ==
    ASSUME NEW row \in UserRow
    PROVE  /\ Keeps(LoggedOff(row), row) /\ LoggedOff(row).deleted = row.deleted
           /\ \A a \in BOOLEAN :
                LET new == [row EXCEPT !.accepting = a]
                IN  Keeps(new, row) /\ new.deleted = row.deleted
           /\ LET new == [row EXCEPT !.deleted = TRUE]
              IN  Keeps(new, row) /\ new.deleted
<1>1. Keeps(LoggedOff(row), row) /\ LoggedOff(row).deleted = row.deleted
    BY OneVersionLater DEF LoggedOff
<1>2. row.ver \in Nat
    BY DEF UserRow
<1>3. ASSUME NEW a \in BOOLEAN
      PROVE  LET new == [row EXCEPT !.accepting = a]
             IN  Keeps(new, row) /\ new.deleted = row.deleted
    <2> DEFINE new == [row EXCEPT !.accepting = a]
    <2>1. /\ new.ver = row.ver /\ new.enabled = row.enabled
          /\ new.secret = row.secret /\ new.deleted = row.deleted
        BY DEF UserRow
    <2>2. new \in UserRow
        BY OneField
    <2> HIDE DEF new
    <2> SUFFICES Keeps(new, row) /\ new.deleted = row.deleted
        BY DEF new
    <2> QED
        BY <1>2, <2>1, <2>2 DEF Keeps
<1>4. LET new == [row EXCEPT !.deleted = TRUE]
      IN  Keeps(new, row) /\ new.deleted
    <2> DEFINE new == [row EXCEPT !.deleted = TRUE]
    <2>1. /\ new.ver = row.ver /\ new.enabled = row.enabled
          /\ new.secret = row.secret /\ new.deleted
        BY DEF UserRow
    <2>2. new \in UserRow
        BY OneField
    <2> HIDE DEF new
    <2> SUFFICES Keeps(new, row) /\ new.deleted
        BY DEF new
    <2> QED
        BY <1>2, <2>1, <2>2 DEF Keeps
<1> QED
    BY <1>1, <1>3, <1>4

\* The rows of new accounts.
LEMMA NewRows ==
    /\ \A n \in Numbers, d \in Devices \cup {NoDevice, Web}, v \in BOOLEAN :
        NewRow(n, d, v) \in UserRow /\ ~NewRow(n, d, v).enabled
    /\ \A u \in Founders :
        /\ FounderRow(u) \in UserRow /\ ~FounderRow(u).enabled
        /\ FounderRow(u).ver = 1
<1>1. \A n \in Numbers, d \in Devices \cup {NoDevice, Web}, v \in BOOLEAN :
        NewRow(n, d, v) \in UserRow /\ ~NewRow(n, d, v).enabled
    BY DEF NewRow, UserRow
<1>2. ASSUME NEW u \in Founders
      PROVE  /\ FounderRow(u) \in UserRow /\ ~FounderRow(u).enabled
             /\ FounderRow(u).ver = 1
    <2>1. NumberOf[u] \in Numbers /\ HomeOf[u] \in Devices
        BY <1>2, AccountsAssumption
    <2> QED
        BY <2>1 DEF FounderRow, UserRow
<1> QED
    BY <1>1, <1>2

-----------------------------------------------------------------------------
(* Handlers that read a row to write it back                                *)

Counters ==
    /\ tries \in [Users -> 0 .. MaxAttempts - 1] /\ locked \in [Users -> BOOLEAN]
    /\ wrong \in [Users -> Nat] /\ left \in [Classes -> Nat]

\* What they have in common: a row fit to be written, held from now on.
Fits(u, kind, row) ==
    /\ row \in UserRow /\ row.ver >= users[u].ver
    /\ (row.enabled => row.secret \in proven')
    /\ (kind = "open" =>
            row.ver > users[u].ver /\ row.device \in Devices \cup {Passkey, Web})
ReadsRow(q) ==
    \E u \in Users, kind \in {"row", "open", "revoke"}, step \in {"clear", "write"} :
    \E row \in UserRow :
        /\ Found(u) /\ req[q] = Idle
        /\ req' = [req EXCEPT ![q] = [kind |-> kind, user |-> u, row |-> row, at |-> step]]
        /\ Fits(u, kind, row) /\ Overlap(u)
        /\ proven \subseteq proven' /\ proven' \subseteq Secrets /\ Counters'
        /\ UNCHANGED <<users, sessionVars, joinVars, checkVars, bank>>

\* Attempts that are forgotten and locks that are taken away.
LEMMA ForgottenCounters ==
    ASSUME TypeOK, NEW u \in Users
    PROVE  /\ [tries EXCEPT ![u] = 0] \in [Users -> 0 .. MaxAttempts - 1]
           /\ [wrong EXCEPT ![u] = 0] \in [Users -> Nat]
           /\ \A b \in BOOLEAN : [locked EXCEPT ![u] = b] \in [Users -> BOOLEAN]
<1>1. 0 \in 0 .. MaxAttempts - 1
    BY DEF MaxAttempts
<1>2. /\ tries \in [Users -> 0 .. MaxAttempts - 1] /\ wrong \in [Users -> Nat]
      /\ locked \in [Users -> BOOLEAN]
    BY DEF TypeOK
<1>3. [tries EXCEPT ![u] = 0] \in [Users -> 0 .. MaxAttempts - 1]
    BY <1>1, <1>2
<1>4. [wrong EXCEPT ![u] = 0] \in [Users -> Nat]
    BY <1>2
<1> QED
    BY <1>2, <1>3, <1>4

\* A request counts against its bound.
LEMMA BeginCounts ==
    ASSUME TypeOK, NEW q \in Procs, NEW class \in Classes, NEW r, Begin(q, class, r)
    PROVE  left' \in [Classes -> Nat] /\ req[q] = Idle /\ req' = [req EXCEPT ![q] = r]
    BY DEF TypeOK, Begin

\* A step without a request counts too.
LEMMA AtOnceCounts ==
    ASSUME TypeOK, NEW class \in Classes, AtOnce(class)
    PROVE  left' \in [Classes -> Nat] /\ UNCHANGED req
    BY DEF TypeOK, AtOnce

\* A row that is found is a row, and its second factor was proven.
LEMMA FoundRows ==
    ASSUME TypeOK, SecretsProven, NEW u \in Users, Found(u)
    PROVE  /\ users[u] \in UserRow /\ users[u] # NoRow
           /\ (users[u].enabled => users[u].secret \in proven)
    BY DEF TypeOK, SecretsProven, EnabledIsProven, Found

\* A handler of that kind holds a row that fits.
LEMMA ReadsFit ==
    ASSUME TypeOK, NEW q \in Procs, NEW class \in Classes,
           NEW kind \in {"row", "open", "revoke"}, NEW u \in Users, NEW row,
           NEW step \in {"clear", "write"}, Reads(q, class, kind, u, row, step),
           Fits(u, kind, row), proven \subseteq proven', proven' \subseteq Secrets
    PROVE  ReadsRow(q)
<1>1. row \in UserRow
    BY DEF Fits
<1>2. /\ Begin(q, class, [kind |-> kind, user |-> u, row |-> row, at |-> step])
      /\ Found(u) /\ Overlap(u)
      /\ UNCHANGED <<users, sessionVars, pinVars, joinVars, checkVars, bank>>
    BY DEF Reads
<1>3. /\ left' \in [Classes -> Nat] /\ req[q] = Idle
      /\ req' = [req EXCEPT ![q] = [kind |-> kind, user |-> u, row |-> row, at |-> step]]
    BY <1>2, BeginCounts
<1>4. Counters'
    BY <1>2, <1>3 DEF Counters, TypeOK, pinVars
<1> QED
    BY <1>1, <1>2, <1>3, <1>4 DEF ReadsRow

\* What is kept of the row that was read fits, unless a session is opened with it.
LEMMA KeptFits ==
    ASSUME TypeOK, SecretsProven, NEW u \in Users, Found(u), NEW row,
           Keeps(row, users[u]), proven \subseteq proven', NEW kind, kind # "open"
    PROVE  Fits(u, kind, row)
    BY FoundRows DEF Fits, Keeps

\* The handlers of sessions and of columns, one by one.
LEMMA HandlersReadRows ==
    ASSUME TypeOK, SecretsProven, NEW q \in Procs
    PROVE  /\ \A u \in Users, d \in Devices : Login(q, u, d) => ReadsRow(q)
           /\ \A u \in Users : WebAuthnLogin(q, u) => ReadsRow(q)
           /\ \A t \in tokens : Refresh(q, t) => ReadsRow(q)
           /\ \A u \in Users, s \in BOOLEAN : AdminSuspendUser(q, u, s) => ReadsRow(q)
           /\ \A u \in Users : AdminResetPassword(q, u) => ReadsRow(q)
           /\ RowStep(q) => ReadsRow(q)
<1> USE DEF Classes
<1>1. ASSUME NEW u \in Users, NEW d \in Devices, Login(q, u, d)
      PROVE  ReadsRow(q)
    <2>1. /\ Reads(q, "login", "open", u, Opened(users[u], d), "clear")
          /\ proven' = proven /\ Found(u)
        BY <1>1 DEF Login, Reads
    <2>2. users[u] \in UserRow /\ Keeps(Opened(users[u], d), users[u])
        BY <2>1, FoundRows, RowsAreKept
    <2>3. Fits(u, "open", Opened(users[u], d))
        BY <2>1, <2>2, FoundRows, OpeningsAreAhead DEF Fits, Keeps
    <2> QED
        BY <2>1, <2>3, ReadsFit DEF TypeOK
<1>2. ASSUME NEW u \in Users, WebAuthnLogin(q, u)
      PROVE  ReadsRow(q)
    <2>1. /\ Reads(q, "login", "open", u, Opened(users[u], Passkey), "write")
          /\ proven' = proven /\ Found(u)
        BY <1>2 DEF WebAuthnLogin, Reads
    <2>2. users[u] \in UserRow /\ Keeps(Opened(users[u], Passkey), users[u])
        BY <2>1, FoundRows, RowsAreKept
    <2>3. Fits(u, "open", Opened(users[u], Passkey))
        BY <2>1, <2>2, FoundRows, OpeningsAreAhead DEF Fits, Keeps
    <2> QED
        BY <2>1, <2>3, ReadsFit DEF TypeOK
<1>3. ASSUME NEW t \in tokens, Refresh(q, t)
      PROVE  ReadsRow(q)
    <2> DEFINE u == t.user
    <2>1. /\ Reads(q, "session", "open", u, Rotated(users[u]), "write")
          /\ proven' = proven /\ Found(u) /\ users[u].device = t.device
        BY <1>3 DEF Refresh, Reads
    <2>2. u \in Users /\ t.device \in Devices \cup {Passkey, Web}
        BY <1>3 DEF TypeOK, Token
    <2> HIDE DEF u
    <2>3. users[u] \in UserRow /\ Keeps(Rotated(users[u]), users[u])
        BY <2>1, <2>2, FoundRows, RowsAreKept
    <2>4. Fits(u, "open", Rotated(users[u]))
        BY <2>1, <2>2, <2>3, FoundRows, OpeningsAreAhead DEF Fits, Keeps
    <2> QED
        BY <2>1, <2>2, <2>4, ReadsFit DEF TypeOK
<1>4. ASSUME NEW u \in Users, NEW s \in BOOLEAN, AdminSuspendUser(q, u, s)
      PROVE  ReadsRow(q)
    <2>1. /\ Reads(q, "session", "revoke", u, Suspended(users[u], s), "write")
          /\ proven' = proven /\ Found(u)
        BY <1>4 DEF AdminSuspendUser
    <2>2. Fits(u, "revoke", Suspended(users[u], s))
        BY <2>1, FoundRows, RowsAreKept, KeptFits
    <2> QED
        BY <2>1, <2>2, ReadsFit DEF TypeOK
<1>5. ASSUME NEW u \in Users, AdminResetPassword(q, u)
      PROVE  ReadsRow(q)
    <2>1. /\ Reads(q, "session", "revoke", u, Rotated(users[u]), "write")
          /\ proven' = proven /\ Found(u)
        BY <1>5 DEF AdminResetPassword
    <2>2. Fits(u, "revoke", Rotated(users[u]))
        BY <2>1, FoundRows, RowsAreKept, KeptFits
    <2> QED
        BY <2>1, <2>2, ReadsFit DEF TypeOK
<1>6. ASSUME RowStep(q)
      PROVE  ReadsRow(q)
    <2>1. PICK u \in Users :
            \/ UpdateHome(q, u) \/ AdminUpdateTrust(q, u) \/ SetupPin(q, u)
            \/ ChangePin(q, u)
            \/ \E n \in Numbers : UpdateProfile(q, u, n)
            \/ \E v \in BOOLEAN : AdminVerifyUser(q, u, v)
            \/ \E s \in Secrets : SetupTOTP(q, u, s)
            \/ EnableTOTP(q, u) \/ DisableTOTP(q, u) \/ AdminDisableTOTP(q, u)
        BY <1>6 DEF RowStep, AdminUpdateProfile
    <2>2. ASSUME NEW class \in Classes, NEW row, Reads(q, class, "row", u, row, "write"),
                 Found(u), Keeps(row, users[u]), proven' = proven
          PROVE  ReadsRow(q)
        <3>1. Fits(u, "row", row)
            BY <2>2, KeptFits
        <3> QED
            BY <2>2, <3>1, ReadsFit DEF TypeOK
    <2>3. Found(u)
        BY <2>1 DEF UpdateHome, AdminUpdateTrust, SetupPin, ChangePin, UpdateProfile,
                    AdminVerifyUser, SetupTOTP, EnableTOTP, DisableTOTP, AdminDisableTOTP
    <2>4. users[u] \in UserRow
        BY <2>3, FoundRows
    <2>5. CASE UpdateHome(q, u)
        BY <2>2, <2>3, <2>4, <2>5, RowsAreKept DEF UpdateHome
    <2>6. CASE AdminUpdateTrust(q, u)
        BY <2>2, <2>3, <2>4, <2>6, RowsAreKept DEF AdminUpdateTrust
    <2>7. CASE SetupPin(q, u)
        BY <2>2, <2>3, <2>4, <2>7, RowsAreKept DEF SetupPin
    <2>8. CASE ChangePin(q, u)
        <3> DEFINE row == WithPin(users[u])
        <3>1. /\ Begin(q, "unlock", [kind |-> "row", user |-> u, row |-> row,
                                     at |-> "write"])
              /\ Unlocked(u) /\ Overlap(u) /\ proven' = proven
              /\ UNCHANGED <<users, sessionVars, joinVars, checkVars, bank>>
            BY <2>8 DEF ChangePin
        <3>2. row \in UserRow /\ Keeps(row, users[u])
            BY <2>4, RowsAreKept DEF Keeps
        <3> HIDE DEF row
        <3>3. Fits(u, "row", row)
            BY <2>3, <3>1, <3>2, KeptFits
        <3>4. /\ left' \in [Classes -> Nat] /\ req[q] = Idle
              /\ req' = [req EXCEPT ![q] = [kind |-> "row", user |-> u, row |-> row,
                                            at |-> "write"]]
            BY <3>1, BeginCounts
        <3>5. Counters'
            <4>1. /\ tries' = [tries EXCEPT ![u] = 0] /\ wrong' = [wrong EXCEPT ![u] = 0]
                  /\ locked' = [locked EXCEPT ![u] = FALSE]
                BY <3>1 DEF Unlocked, Forgotten
            <4> QED
                BY <3>4, <4>1, ForgottenCounters DEF Counters
        <3> QED
            BY <2>3, <3>1, <3>2, <3>3, <3>4, <3>5 DEF ReadsRow, TypeOK
    <2>9. ASSUME NEW n \in Numbers, UpdateProfile(q, u, n)
          PROVE  ReadsRow(q)
        BY <2>2, <2>3, <2>4, <2>9, RowsAreKept DEF UpdateProfile
    <2>10. ASSUME NEW v \in BOOLEAN, AdminVerifyUser(q, u, v)
           PROVE  ReadsRow(q)
        BY <2>2, <2>3, <2>4, <2>10, RowsAreKept DEF AdminVerifyUser
    <2>11. ASSUME NEW s \in Secrets, SetupTOTP(q, u, s)
           PROVE  ReadsRow(q)
        BY <2>2, <2>3, <2>4, <2>11, RowsAreKept DEF SetupTOTP
    <2>12. CASE EnableTOTP(q, u)
        <3>1. /\ users[u].secret # NoSecret /\ proven' = proven \cup {users[u].secret}
              /\ Reads(q, "totp", "row", u, Enabled(users[u]), "write")
            BY <2>12 DEF EnableTOTP
        <3>2. proven \subseteq proven' /\ proven' \subseteq Secrets
            BY <2>4, <3>1 DEF TypeOK, UserRow
        <3>3. Fits(u, "row", Enabled(users[u]))
            <4>1. users[u].ver \in Nat
                BY <2>4 DEF UserRow
            <4> QED
                BY <2>4, <3>1, <4>1, EnabledRow DEF Fits
        <3> QED
            BY <3>1, <3>2, <3>3, ReadsFit
    <2>13. CASE DisableTOTP(q, u)
        BY <2>2, <2>3, <2>4, <2>13, RowsAreKept DEF DisableTOTP
    <2>14. CASE AdminDisableTOTP(q, u)
        BY <2>2, <2>3, <2>4, <2>14, RowsAreKept DEF AdminDisableTOTP
    <2> QED
        BY <2>1, <2>5, <2>6, <2>7, <2>8, <2>9, <2>10, <2>11, <2>12, <2>13, <2>14
<1> QED
    BY <1>1, <1>2, <1>3, <1>4, <1>5, <1>6

-----------------------------------------------------------------------------
(* Type correctness                                                         *)

\* What a request in flight may count on in its own record.
LEMMA InFlight ==
    ASSUME TypeOK, NEW q \in Procs, req[q] # Idle
    PROVE  req[q] \in Request
    BY DEF TypeOK

\* A row that is written back is not that of nobody.
LEMMA HeldRows ==
    ASSUME TypeOK, RowsHeld, NEW q \in Procs, Carries(q)
    PROVE  req[q].user \in Users /\ req[q].row \in UserRow
<1>1. req[q] \in Request
    BY InFlight DEF Carries
<1>2. req[q].user \in Users
    BY <1>1, WritingFields, ReviewFields, JoinFields DEF Carries
<1> QED
    BY <1>2 DEF RowsHeld

\* A table of users with one row written.
LEMMA StoredTypes ==
    ASSUME TypeOK, NEW u \in Users, NEW row \in UserRow
    PROVE  Stored(u, row) \in [Users -> UserRow \cup {NoRow}]
    BY DEF TypeOK, Stored

\* Sequences of submissions.
LEMMA SubmissionTypes ==
    ASSUME NEW s \in Seq(Submission)
    PROVE  /\ Append(s, NewSubmission) \in Seq(Submission)
           /\ <<NewSubmission>> \in Seq(Submission) /\ <<>> \in Seq(Submission)
           /\ \A n \in DOMAIN s :
                /\ [s EXCEPT ![n].photos = FALSE] \in Seq(Submission)
                /\ \A status \in {"approved", "rejected"} :
                    [s EXCEPT ![n].status = status] \in Seq(Submission)
<1>1. NewSubmission \in Submission
    BY DEF NewSubmission, Submission
<1>2. Append(s, NewSubmission) \in Seq(Submission)
    BY <1>1, AppendProperties
<1>3. <<NewSubmission>> \in Seq(Submission) /\ <<>> \in Seq(Submission)
    BY <1>1
<1>4. ASSUME NEW n \in DOMAIN s
      PROVE  /\ [s EXCEPT ![n].photos = FALSE] \in Seq(Submission)
             /\ \A status \in {"approved", "rejected"} :
                    [s EXCEPT ![n].status = status] \in Seq(Submission)
    <2>1. n \in 1 .. Len(s) /\ s[n] \in Submission
        BY <1>4
    <2>2. [s[n] EXCEPT !.photos = FALSE] \in Submission
        BY <2>1 DEF Submission
    <2>3. ASSUME NEW status \in {"approved", "rejected"}
          PROVE  [s[n] EXCEPT !.status = status] \in Submission
        BY <2>1, <2>3 DEF Submission
    <2>4. ASSUME NEW new \in Submission
          PROVE  [s EXCEPT ![n] = new] \in Seq(Submission)
        BY <2>1, <2>4, ExceptSeq
    <2> QED
        BY <2>2, <2>3, <2>4
<1> QED
    BY <1>2, <1>3, <1>4

\* The tables and the requests, as every action leaves or rewrites them.
Tables ==
    /\ users \in [Users -> UserRow \cup {NoRow}]
    /\ cache \in [Users -> Nat \cup {NoVersion}] /\ tokens \subseteq Token
    /\ invites \in [Invites -> Invitation \cup {NoRow}]
    /\ kyc \in [Users -> Seq(Submission)] /\ bank \in [Users -> {"none", "own", "admin"}]
    /\ proven \subseteq Secrets /\ vouched \subseteq Users
    /\ guest \in [Users -> Invites \cup {Nobody}] /\ overlapped \subseteq Users
Flights == req \in [Procs -> Request \cup {Idle}]

\* Types in three parts, before and after a step.
LEMMA TypesInParts ==
    /\ TypeOK <=> Tables /\ Flights /\ Counters
    /\ TypeOK' <=> Tables' /\ Flights' /\ Counters'
    BY DEF TypeOK, Tables, Flights, Counters

\* A request that ends, or goes on as another.
LEMMA FlightsGo ==
    ASSUME TypeOK, NEW q \in Procs
    PROVE  /\ \A r \in Request : [req EXCEPT ![q] = r] \in [Procs -> Request \cup {Idle}]
           /\ [req EXCEPT ![q] = Idle] \in [Procs -> Request \cup {Idle}]
    BY DEF TypeOK

\* Types are kept by the steps on sessions.
LEMMA SessionTypes ==
    ASSUME TypeOK, RowsHeld, NEW q \in Procs,
           \/ ClearDeviceSessions(q) \/ WriteBack(q) \/ SetVersion(q) \/ DropVersion(q)
           \/ FillVersion(q) \/ \E u \in Users : Logout(q, u) \/ Protected(q, u)
    PROVE  TypeOK'
<1> USE DEF Classes
<1>1. CASE ClearDeviceSessions(q)
    <2>1. req[q] \in Request /\ req[q].kind = "open"
        BY <1>1, InFlight DEF ClearDeviceSessions, At, Does
    <2>2. Flights'
        BY <1>1, <2>1, WritingFields, FlightsGo DEF ClearDeviceSessions, Goes, Flights
    <2>3. users' \in [Users -> UserRow \cup {NoRow}]
        <3>1. \A v \in Users : users[v] \in UserRow \cup {NoRow}
            BY DEF TypeOK
        <3>2. \A v \in Users : users[v] # NoRow => LoggedOff(users[v]) \in UserRow
            BY <3>1, RowsAreRows DEF Keeps
        <3> QED
            BY <1>1, <3>1, <3>2 DEF ClearDeviceSessions
    <2> QED
        BY <1>1, <2>2, <2>3, TypesInParts
        DEF ClearDeviceSessions, Tables, Counters, sessionVars, pinVars, joinVars, checkVars
<1>2. CASE WriteBack(q)
    <2>1. Carries(q) /\ req[q] \in Request /\ req[q].kind \in {"row", "open", "revoke"}
        BY <1>2, InFlight DEF WriteBack, At, Does, Carries
    <2>2. req[q].user \in Users /\ req[q].row \in UserRow
        BY <2>1, HeldRows
    <2>3. Flights'
        BY <1>2, <2>1, WritingFields, FlightsGo DEF WriteBack, Goes, Done, Flights
    <2>4. users' \in [Users -> UserRow \cup {NoRow}] /\ vouched' \subseteq Users
        <3>1. users' = users \/ users' = Stored(req[q].user, req[q].row)
            BY <1>2 DEF WriteBack
        <3>2. vouched' \subseteq vouched \cup {req[q].user}
            BY <1>2 DEF WriteBack
        <3> QED
            <4>1. Stored(req[q].user, req[q].row) \in [Users -> UserRow \cup {NoRow}]
                BY <2>2, StoredTypes
            <4>2. users \in [Users -> UserRow \cup {NoRow}] /\ vouched \subseteq Users
                BY DEF TypeOK
            <4> QED
                BY <2>2, <3>1, <3>2, <4>1, <4>2
    <2> QED
        BY <1>2, <2>3, <2>4, TypesInParts
        DEF WriteBack, Tables, Counters, sessionVars, pinVars, joinVars
<1>3. CASE SetVersion(q)
    <2>1. Carries(q) /\ req[q] \in Request /\ req[q].kind \in {"open", "revoke"}
        BY <1>3, InFlight DEF SetVersion, At, Does, Carries
    <2>2. req[q].user \in Users /\ req[q].row \in UserRow
        BY <2>1, HeldRows
    <2>3. req[q].row.ver \in Nat
        BY <2>2 DEF UserRow
    <2>4. Flights'
        BY <1>3, FlightsGo DEF SetVersion, Done, Flights
    <2>5. cache' \in [Users -> Nat \cup {NoVersion}]
        BY <1>3, <2>2, <2>3 DEF SetVersion, TypeOK
    <2>6. tokens' \subseteq Token
        <3>1. CASE req[q].kind = "revoke"
            BY <1>3, <3>1 DEF SetVersion, TypeOK
        <3>2. CASE req[q].kind = "open"
            <4>1. req[q].row.device \in Devices \cup {Passkey, Web}
                BY <2>1, <3>2 DEF RowsHeld, Does, Carries
            <4>2. Cardinality(tokens) \in Nat
                BY FS_CardinalityType DEF RowsHeld
            <4>3. [user |-> req[q].user, ver |-> req[q].row.ver,
                   device |-> req[q].row.device, serial |-> Cardinality(tokens)] \in Token
                BY <2>2, <2>3, <4>1, <4>2 DEF Token
            <4> QED
                BY <1>3, <3>2, <4>3 DEF SetVersion, TypeOK
        <3> QED
            BY <2>1, <3>1, <3>2
    <2> QED
        BY <1>3, <2>4, <2>5, <2>6, TypesInParts
        DEF SetVersion, Tables, Counters, pinVars, joinVars, checkVars
<1>4. CASE DropVersion(q)
    <2>1. req[q] \in Request /\ req[q].kind = "logout"
        BY <1>4, InFlight DEF DropVersion, Does
    <2>2. req[q].user \in Users
        BY <2>1, PlainFields
    <2>3. Flights'
        BY <1>4, FlightsGo DEF DropVersion, Done, Flights
    <2> QED
        BY <1>4, <2>2, <2>3, TypesInParts
        DEF DropVersion, Tables, Counters, pinVars, joinVars, checkVars
<1>5. CASE FillVersion(q)
    <2>1. req[q] \in Request /\ req[q].kind = "check"
        BY <1>5, InFlight DEF FillVersion, Does
    <2>2. req[q].user \in Users /\ req[q].ver \in Nat
        BY <2>1, PlainFields
    <2>3. Flights'
        BY <1>5, FlightsGo DEF FillVersion, Done, Flights
    <2> QED
        BY <1>5, <2>2, <2>3, TypesInParts
        DEF FillVersion, Tables, Counters, pinVars, joinVars, checkVars
<1>6. ASSUME NEW u \in Users, Logout(q, u)
      PROVE  TypeOK'
    <2>1. users[u] \in UserRow
        BY <1>6 DEF Logout, Accepted, TypeOK
    <2>2. LoggedOff(users[u]) \in UserRow
        BY <2>1, RowsAreRows DEF Keeps
    <2>3. left' \in [Classes -> Nat] /\ req' = [req EXCEPT ![q] = [kind |-> "logout", user |-> u]]
        BY <1>6, BeginCounts DEF Logout
    <2>4. Flights'
        BY <2>3, NewRequests, FlightsGo DEF Flights
    <2>5. users' \in [Users -> UserRow \cup {NoRow}]
        BY <1>6, <2>2 DEF Logout, TypeOK
    <2> QED
        BY <1>6, <2>3, <2>4, <2>5, TypesInParts
        DEF Logout, Tables, Counters, sessionVars, pinVars, joinVars, checkVars
<1>7. ASSUME NEW u \in Users, Protected(q, u)
      PROVE  TypeOK'
    <2>1. users[u] \in UserRow
        BY <1>7 DEF Protected, TypeOK
    <2>2. users[u].ver \in Nat
        BY <2>1 DEF UserRow
    <2>3. /\ left' \in [Classes -> Nat]
          /\ req' = [req EXCEPT ![q] = [kind |-> "check", user |-> u, ver |-> users[u].ver]]
        BY <1>7, BeginCounts DEF Protected
    <2>4. Flights'
        BY <2>2, <2>3, NewRequests, FlightsGo DEF Flights
    <2> QED
        BY <1>7, <2>3, <2>4, TypesInParts
        DEF Protected, Tables, Counters, sessionVars, pinVars, joinVars, checkVars
<1> QED
    BY <1>1, <1>2, <1>3, <1>4, <1>5, <1>6, <1>7

\* Types are kept by the handlers that hold a row.
LEMMA ReadTypes ==
    ASSUME TypeOK, NEW q \in Procs, ReadsRow(q)
    PROVE  TypeOK'
<1>1. PICK r \in Request : req' = [req EXCEPT ![q] = r]
    BY NewRequests DEF ReadsRow
<1>3. Flights'
    BY <1>1, FlightsGo DEF Flights
<1>2. overlapped' \subseteq Users
    BY DEF ReadsRow, Overlap, TypeOK
<1> QED
    BY <1>2, <1>3, TypesInParts
    DEF ReadsRow, Tables, sessionVars, joinVars, checkVars

\* Types are kept by the steps on the PIN.
LEMMA PinTypes ==
    ASSUME TypeOK, RowsHeld, NEW q \in Procs, PinStep(q)
    PROVE  TypeOK'
<1> USE DEF Classes
<1>1. ASSUME NEW u \in Users, VerifyPin(q, u)
      PROVE  TypeOK'
    <2>1. PICK step \in {"right", "count"} :
            req' = [req EXCEPT ![q] = [kind |-> "pin", user |-> u, at |-> step, n |-> 0]]
        BY <1>1 DEF VerifyPin
    <2>2. Flights'
        BY <2>1, NewRequests, FlightsGo DEF Flights
    <2> QED
        BY <1>1, <2>2, TypesInParts
        DEF VerifyPin, Tables, Counters, sessionVars, pinVars, joinVars, checkVars
<1>2. ASSUME req[q] # Idle, req[q].kind = "pin"
      PROVE  /\ req[q] \in Request /\ req[q].user \in Users /\ req[q].n \in 0 .. MaxAttempts
             /\ tries[req[q].user] \in 0 .. MaxAttempts - 1
    BY <1>2, InFlight, GuessFields DEF TypeOK
<1>3. CASE RightPin(q)
    <2>1. req[q].user \in Users
        BY <1>2, <1>3 DEF RightPin, At, Does
    <2>2. Flights'
        BY <1>3, FlightsGo DEF RightPin, Done, Flights
    <2>3. /\ tries' \in [Users -> 0 .. MaxAttempts - 1] /\ wrong' \in [Users -> Nat]
          /\ UNCHANGED <<locked, left>>
        BY <1>3, <2>1, ForgottenCounters DEF RightPin, Forgotten
    <2> QED
        BY <1>3, <2>2, <2>3, TypesInParts
        DEF RightPin, Tables, Counters, sessionVars, joinVars, checkVars
<1>4. CASE CountAttempt(q)
    <2>1. /\ req[q] \in Request /\ req[q].kind = "pin"
          /\ tries[req[q].user] + 1 \in 0 .. MaxAttempts
        BY <1>2, <1>4 DEF CountAttempt, At, Does, MaxAttempts
    <2>2. Flights'
        <3> DEFINE new == [req[q] EXCEPT !.at = "store", !.n = tries[req[q].user] + 1]
        <3>1. new \in Request
            BY <2>1, GuessFields
        <3>2. req' = [req EXCEPT ![q] = new]
            BY <1>4 DEF CountAttempt, TypeOK
        <3> HIDE DEF new
        <3> QED
            BY <3>1, <3>2, FlightsGo DEF Flights
    <2> QED
        BY <1>4, <2>2, TypesInParts
        DEF CountAttempt, Tables, Counters, sessionVars, pinVars, joinVars, checkVars
<1>5. CASE WrongPin(q)
    <2>1. /\ req[q].user \in Users /\ req[q].n \in 0 .. MaxAttempts
        BY <1>2, <1>5 DEF WrongPin, At, Does
    <2>2. Flights'
        BY <1>5, FlightsGo DEF WrongPin, Done, Flights
    <2>3. Counters'
        <3>1. CASE LocksOut(req[q].n)
            <4>1. /\ tries' = [tries EXCEPT ![req[q].user] = 0]
                  /\ wrong' = [wrong EXCEPT ![req[q].user] = 0]
                  /\ locked' = [locked EXCEPT ![req[q].user] = TRUE] /\ left' = left
                BY <1>5, <3>1 DEF WrongPin, Forgotten
            <4> QED
                BY <2>1, <4>1, ForgottenCounters, TypesInParts DEF Counters
        <3>2. CASE ~LocksOut(req[q].n)
            <4>1. /\ tries' = [tries EXCEPT ![req[q].user] = req[q].n]
                  /\ wrong' = [wrong EXCEPT ![req[q].user] = @ + 1]
                  /\ locked' = locked /\ left' = left
                BY <1>5, <3>2 DEF WrongPin
            <4>2. req[q].n \in 0 .. MaxAttempts - 1
                BY <2>1, <3>2 DEF LocksOut, MaxAttempts
            <4>3. tries' \in [Users -> 0 .. MaxAttempts - 1]
                BY <4>1, <4>2 DEF TypeOK
            <4>4. wrong \in [Users -> Nat]
                BY DEF TypeOK
            <4>5. wrong[req[q].user] \in Nat
                BY <2>1, <4>4
            <4>6. wrong[req[q].user] + 1 \in Nat
                BY <4>5
            <4>7. wrong' = [wrong EXCEPT ![req[q].user] = wrong[req[q].user] + 1]
                BY <4>1
            <4>8. wrong' \in [Users -> Nat]
                BY <4>4, <4>6, <4>7
            <4> QED
                BY <4>1, <4>3, <4>8, TypesInParts DEF Counters
        <3> QED
            BY <3>1, <3>2
    <2> QED
        BY <1>5, <2>2, <2>3, TypesInParts
        DEF WrongPin, Tables, sessionVars, joinVars, checkVars
<1> QED
    BY <1>1, <1>3, <1>4, <1>5 DEF PinStep

\* Types are kept by the steps of a registration.
LEMMA JoinTypes ==
    ASSUME TypeOK, RowsHeld, InvitesKnown, NEW q \in Procs, JoinStep(q)
    PROVE  TypeOK'
<1> USE DEF Classes, idle, sessionVars, pinVars
<1>1. CASE InsertUser(q)
    <2>1. Carries(q)
        BY <1>1 DEF InsertUser, Does, Carries
    <2>2. req[q].user \in Users /\ req[q].row \in UserRow
        BY <2>1, HeldRows
    <2>3. Flights'
        BY <1>1, FlightsGo DEF InsertUser, Done, Flights
    <2>4. users' \in [Users -> UserRow \cup {NoRow}]
        BY <1>1, <2>2 DEF InsertUser, TypeOK
    <2>5. vouched' \subseteq Users
        BY <1>1, <2>2 DEF InsertUser, TypeOK
    <2> QED
        BY <1>1, <2>3, <2>4, <2>5, TypesInParts DEF InsertUser, Tables, Counters, joinVars
<1>2. CASE InsertInvitation(q)
    <2>1. req[q] \in Request /\ req[q].kind = "invite"
        BY <1>2, InFlight DEF InsertInvitation, Does
    <2>2. [number |-> req[q].number, role |-> req[q].role, status |-> "pending",
           due |-> FALSE] \in Invitation
        BY <2>1, JoinFields DEF Invitation
    <2>3. Flights'
        BY <1>2, FlightsGo DEF InsertInvitation, Done, Flights
    <2>4. invites' \in [Invites -> Invitation \cup {NoRow}]
        BY <1>2, <2>1, <2>2, JoinFields DEF InsertInvitation, TypeOK
    <2> QED
        BY <1>2, <2>3, <2>4, TypesInParts DEF InsertInvitation, Tables, Counters, checkVars
<1>3. CASE ExpireInvitation(q)
    <2>1. req[q] \in Request /\ req[q].kind = "expire"
        BY <1>3, InFlight DEF ExpireInvitation, Does
    <2>2. req[q].invite \in Invites /\ invites[req[q].invite] \in Invitation
        BY <1>3, <2>1, JoinFields DEF ExpireInvitation, InvitesKnown, TypeOK
    <2>3. [invites[req[q].invite] EXCEPT !.status = "expired"] \in Invitation
        BY <2>2 DEF Invitation
    <2>4. Flights'
        BY <1>3, FlightsGo DEF ExpireInvitation, Done, Flights
    <2>5. invites' \in [Invites -> Invitation \cup {NoRow}]
        BY <1>3, <2>2, <2>3 DEF ExpireInvitation, TypeOK
    <2> QED
        BY <1>3, <2>4, <2>5, TypesInParts DEF ExpireInvitation, Tables, Counters, checkVars
<1>4. ASSUME NEW role, NEW submissions \in Seq(Submission), Registers(q, role, submissions)
      PROVE  TypeOK'
    <2>1. req[q] \in Request /\ req[q].kind = "onboard"
        BY <1>4, InFlight DEF Registers, Does
    <2> DEFINE r == req[q]
    <2>2. /\ r.user \in Users /\ r.number \in Numbers /\ r.invite \in Invites
          /\ invites[r.invite] \in Invitation
        BY <1>4, <2>1, JoinFields DEF Registers, InvitesKnown, TypeOK
    <2>3. Flights'
        BY <1>4, FlightsGo DEF Registers, Done, Flights
    <2>4. CASE Taken(r.number)
        BY <1>4, <2>3, <2>4, TypesInParts DEF Registers, Tables, Counters, joinVars
    <2>5. CASE ~Taken(r.number)
        <3>1. /\ users' = [users EXCEPT ![r.user] = NewRow(r.number, Web, FALSE)]
              /\ kyc' = [kyc EXCEPT ![r.user] = submissions]
              /\ invites' = [invites EXCEPT ![r.invite].status = "used"]
              /\ guest' = [guest EXCEPT ![r.user] = r.invite]
              /\ UNCHANGED <<vouched, idle, left>>
            BY <1>4, <2>5 DEF Registers, MarkedUsed
        <3>2. NewRow(r.number, Web, FALSE) \in UserRow
            BY <2>2, NewRows
        <3>3. [invites[r.invite] EXCEPT !.status = "used"] \in Invitation
            BY <2>2 DEF Invitation
        <3> HIDE DEF r
        <3>4. users' \in [Users -> UserRow \cup {NoRow}]
            BY <2>2, <3>1, <3>2 DEF TypeOK
        <3>5. kyc' \in [Users -> Seq(Submission)]
            BY <1>4, <2>2, <3>1 DEF TypeOK
        <3>6. invites' \in [Invites -> Invitation \cup {NoRow}]
            BY <2>2, <3>1, <3>3 DEF TypeOK
        <3>7. guest' \in [Users -> Invites \cup {Nobody}]
            BY <2>2, <3>1 DEF TypeOK
        <3> QED
            BY <2>3, <3>1, <3>4, <3>5, <3>6, <3>7, TypesInParts DEF Tables, Counters
    <2> QED
        BY <2>4, <2>5
<1>5. <<NewSubmission>> \in Seq(Submission) /\ <<>> \in Seq(Submission)
    <2>1. <<>> \in Seq(Submission)
        OBVIOUS
    <2> QED
        BY <2>1, SubmissionTypes
<1>6. ASSUME NEW r \in Request, Begin(q, "join", r),
             UNCHANGED <<users, joinVars, checkVars, idle>>
      PROVE  TypeOK'
    <2>1. left' \in [Classes -> Nat] /\ req' = [req EXCEPT ![q] = r]
        BY <1>6, BeginCounts
    <2>2. Flights'
        BY <1>6, <2>1, FlightsGo DEF Flights
    <2> QED
        BY <1>6, <2>1, <2>2, TypesInParts DEF Tables, Counters, joinVars, checkVars
<1>7. ASSUME NEW u \in Users, NEW row \in UserRow, SignsUp(q, u, row)
      PROVE  TypeOK'
    <2>1. [kind |-> "sign", user |-> u, row |-> row] \in Request
        BY <1>7, NewRequests
    <2> QED
        BY <1>6, <1>7, <2>1 DEF SignsUp
<1>8. ASSUME NEW u \in Users, NEW n \in Numbers, NEW d \in Devices, Create(q, u, n, d)
      PROVE  TypeOK'
    BY <1>7, <1>8, NewRows DEF Create
<1>9. ASSUME NEW u \in Users, NEW n \in Numbers, NEW v \in BOOLEAN, AdminCreate(q, u, n, v)
      PROVE  TypeOK'
    BY <1>7, <1>9, NewRows DEF AdminCreate
<1>10. ASSUME NEW i \in Invites, ValidateInvitation(q, i)
       PROVE  TypeOK'
    BY <1>6, <1>10, NewRequests DEF ValidateInvitation
<1>11. ASSUME NEW u \in Users, NEW i \in Invites, NEW role \in {"runner", "merchant"},
              Onboard(q, u, i, role)
       PROVE  TypeOK'
    <2>1. invites[i].number \in Numbers
        <3>1. invites[i] \in Invitation
            BY <1>11 DEF Onboard, Valid, TypeOK
        <3> QED
            BY <3>1 DEF Invitation
    <2>2. [kind |-> "onboard", user |-> u, number |-> invites[i].number, invite |-> i,
           role |-> role] \in Request
        BY <1>11, <2>1, NewRequests
    <2> QED
        BY <1>6, <1>11, <2>2 DEF Onboard
<1>12. ASSUME NEW i \in Invites, NEW n \in Numbers, NEW role \in {"runner", "merchant"},
              AdminCreateInvitation(q, i, n, role)
       PROVE  TypeOK'
    BY <1>6, <1>12, NewRequests DEF AdminCreateInvitation
<1> QED
    BY <1>1, <1>2, <1>3, <1>4, <1>5, <1>8, <1>9, <1>10, <1>11, <1>12
    DEF JoinStep, CommitRunner, CommitMerchant, OnboardRunner, OnboardMerchant

\* Types are kept by the steps of an identity check and of a bank account.
LEMMA CheckTypes ==
    ASSUME TypeOK, RowsHeld, ReviewsKnown, NEW q \in Procs, CheckStep(q)
    PROVE  TypeOK'
<1> USE DEF Classes, idle, sessionVars, pinVars
<1>1. CASE InsertSubmission(q)
    <2>1. req[q].user \in Users
        BY <1>1, InFlight, PlainFields DEF InsertSubmission, Does
    <2>2. kyc[req[q].user] \in Seq(Submission)
        BY <2>1 DEF TypeOK
    <2>3. Append(kyc[req[q].user], NewSubmission) \in Seq(Submission)
        BY <2>2, SubmissionTypes
    <2>4. Flights'
        BY <1>1, FlightsGo DEF InsertSubmission, Done, Flights
    <2>5. \/ kyc' = [kyc EXCEPT ![req[q].user] = Append(kyc[req[q].user], NewSubmission)]
          \/ kyc' = kyc
        BY <1>1 DEF InsertSubmission
    <2>6. kyc \in [Users -> Seq(Submission)]
        BY DEF TypeOK
    <2>7. kyc' \in [Users -> Seq(Submission)]
        BY <2>1, <2>3, <2>5, <2>6
    <2> QED
        BY <1>1, <2>4, <2>7, TypesInParts DEF InsertSubmission, Tables, Counters, joinVars
<1>2. CASE ReadReviewed(q)
    <2>1. req[q] \in Request /\ req[q].kind = "review" /\ req[q].user \in Users
        BY <1>2, InFlight, ReviewFields DEF ReadReviewed, At, Does
    <2>2. CASE ~Found(req[q].user)
        <3>1. Flights'
            BY <1>2, <2>2, FlightsGo DEF ReadReviewed, Done, Flights
        <3> QED
            BY <1>2, <2>2, <3>1, TypesInParts
            DEF ReadReviewed, Tables, Counters, joinVars, checkVars
    <2>3. CASE Found(req[q].user)
        <3>1. users[req[q].user] \in UserRow
            BY <2>1, <2>3 DEF Found, TypeOK
        <3>2. Verified(users[req[q].user], TRUE) \in UserRow
            BY <3>1, RowsAreKept DEF Keeps
        <3>3. [req[q] EXCEPT !.at = "write", !.row = Verified(users[req[q].user], TRUE)]
                \in Request
            BY <2>1, <3>2, ReviewFields
        <3>4. Flights'
            BY <1>2, <2>3, <3>3, FlightsGo DEF ReadReviewed, Flights
        <3>5. overlapped' \subseteq Users
            BY <1>2, <2>1, <2>3 DEF ReadReviewed, Overlap, TypeOK
        <3> QED
            BY <1>2, <2>3, <3>4, <3>5, TypesInParts
            DEF ReadReviewed, Tables, Counters, joinVars, checkVars
    <2> QED
        BY <2>2, <2>3
<1>3. CASE VerifyReviewed(q)
    <2>1. Carries(q) /\ req[q] \in Request /\ req[q].kind = "review"
        BY <1>3, InFlight DEF VerifyReviewed, At, Does, Carries
    <2>2. req[q].user \in Users /\ req[q].row \in UserRow
        BY <2>1, HeldRows
    <2>3. Flights'
        BY <1>3, <2>1, ReviewFields, FlightsGo DEF VerifyReviewed, Goes, Done, Flights
    <2>4. users' \in [Users -> UserRow \cup {NoRow}] /\ vouched' \subseteq Users
        <3>1. users' = users \/ users' = Stored(req[q].user, req[q].row)
            BY <1>3 DEF VerifyReviewed
        <3>2. vouched' \subseteq vouched \cup {req[q].user}
            BY <1>3 DEF VerifyReviewed
        <3> QED
            <4>1. Stored(req[q].user, req[q].row) \in [Users -> UserRow \cup {NoRow}]
                BY <2>2, StoredTypes
            <4>2. users \in [Users -> UserRow \cup {NoRow}] /\ vouched \subseteq Users
                BY DEF TypeOK
            <4> QED
                BY <2>2, <3>1, <3>2, <4>1, <4>2
    <2> QED
        BY <1>3, <2>3, <2>4, TypesInParts DEF VerifyReviewed, Tables, Counters, joinVars
<1>4. CASE CloseReview(q)
    <2>1. req[q] \in Request /\ req[q].kind = "review" /\ Does(q, "review")
        BY <1>4, InFlight DEF CloseReview, At, Does
    <2>2. /\ req[q].user \in Users /\ req[q].n \in DOMAIN kyc[req[q].user]
          /\ req[q].status \in {"approved", "rejected"}
        BY <2>1, ReviewFields DEF ReviewsKnown
    <2>3. kyc[req[q].user] \in Seq(Submission)
        BY <2>2 DEF TypeOK
    <2>4. [kyc[req[q].user] EXCEPT ![req[q].n].status = req[q].status] \in Seq(Submission)
        BY <2>2, <2>3, SubmissionTypes
    <2>5. kyc' \in [Users -> Seq(Submission)]
        BY <1>4, <2>2, <2>4 DEF CloseReview, TypeOK
    <2>6. Flights'
        BY <1>4, FlightsGo DEF CloseReview, Done, Flights
    <2> QED
        BY <1>4, <2>5, <2>6, TypesInParts DEF CloseReview, Tables, Counters, joinVars
<1>5. CASE UpsertBankAccount(q)
    <2>1. req[q].user \in Users
        BY <1>5, InFlight, PlainFields DEF UpsertBankAccount, Does
    <2>2. Flights'
        BY <1>5, FlightsGo DEF UpsertBankAccount, Done, Flights
    <2>3. bank' \in [Users -> {"none", "own", "admin"}]
        BY <1>5, <2>1 DEF UpsertBankAccount, TypeOK
    <2> QED
        BY <1>5, <2>2, <2>3, TypesInParts
        DEF UpsertBankAccount, Tables, Counters, joinVars, checkVars
<1>6. ASSUME NEW u \in Users, Submit(q, u)
      PROVE  TypeOK'
    <2>1. /\ left' \in [Classes -> Nat]
          /\ req' = [req EXCEPT ![q] = [kind |-> "submit", user |-> u]]
        BY <1>6, BeginCounts DEF Submit
    <2>2. Flights'
        BY <2>1, NewRequests, FlightsGo DEF Flights
    <2>3. kyc' \in [Users -> Seq(Submission)]
        <3>1. kyc[u] \in Seq(Submission)
            BY DEF TypeOK
        <3>2. CASE kyc[u] = <<>>
            BY <1>6, <3>2 DEF Submit, TypeOK
        <3>3. CASE kyc[u] # <<>>
            <4>1. Len(kyc[u]) \in DOMAIN kyc[u]
                BY <3>1, <3>3
            <4>2. [kyc[u] EXCEPT ![Len(kyc[u])].photos = FALSE] \in Seq(Submission)
                BY <3>1, <4>1, SubmissionTypes
            <4> QED
                BY <1>6, <3>3, <4>2 DEF Submit, TypeOK
        <3> QED
            BY <3>2, <3>3
    <2> QED
        BY <1>6, <2>1, <2>2, <2>3, TypesInParts DEF Submit, Tables, Counters, joinVars
<1>7. ASSUME NEW r \in Request, NEW class \in Classes, Begin(q, class, r),
             UNCHANGED <<users, joinVars, checkVars, idle>>
      PROVE  TypeOK'
    <2>1. left' \in [Classes -> Nat] /\ req' = [req EXCEPT ![q] = r]
        BY <1>7, BeginCounts
    <2>2. Flights'
        BY <1>7, <2>1, FlightsGo DEF Flights
    <2> QED
        BY <1>7, <2>1, <2>2, TypesInParts DEF Tables, Counters, joinVars, checkVars
<1>8. ASSUME NEW u \in Users, RegisterMyBankAccount(q, u)
      PROVE  TypeOK'
    BY <1>7, <1>8, NewRequests DEF RegisterMyBankAccount
<1>9. ASSUME NEW u \in Users, NEW n \in DOMAIN kyc[u],
             NEW status \in {"approved", "rejected"}, Review(q, u, n, status)
      PROVE  TypeOK'
    <2>1. n \in Nat
        BY <1>9 DEF TypeOK
    <2>2. ReviewStep(status) \in {"read", "close"}
        BY DEF ReviewStep
    <2>3. [kind |-> "review", user |-> u, at |-> ReviewStep(status), row |-> NoRow,
           n |-> n, status |-> status] \in Request
        BY <2>1, <2>2, NewRequests
    <2> QED
        BY <1>7, <1>9, <2>3 DEF Review
<1> QED
    BY <1>1, <1>2, <1>3, <1>4, <1>5, <1>6, <1>8, <1>9 DEF CheckStep

\* Types are kept by what happens at once.
LEMMA AtOnceTypes ==
    ASSUME TypeOK, AtOnceStep
    PROVE  TypeOK'
<1> USE DEF Classes, sessionVars, pinVars, joinVars, checkVars
<1>1. ASSUME NEW u \in Users, Delete(u)
      PROVE  TypeOK'
    <2>1. left' \in [Classes -> Nat] /\ UNCHANGED req
        BY <1>1, AtOnceCounts DEF Delete
    <2>2. users[u] \in UserRow
        BY <1>1 DEF Delete, Found, TypeOK
    <2>3. [users[u] EXCEPT !.deleted = TRUE] \in UserRow
        BY <2>2, OneField
    <2>4. users' \in [Users -> UserRow \cup {NoRow}]
        BY <1>1, <2>3 DEF Delete, TypeOK
    <2> QED
        BY <1>1, <2>1, <2>4, TypesInParts DEF Delete, Tables, Flights, Counters
<1>2. ASSUME NEW u \in Users, VersionExpires(u)
      PROVE  TypeOK'
    <2>1. left' \in [Classes -> Nat] /\ UNCHANGED req
        BY <1>2, AtOnceCounts DEF VersionExpires
    <2> QED
        BY <1>2, <2>1, TypesInParts DEF VersionExpires, Tables, Flights, Counters
<1>3. ASSUME NEW u \in Users, AdminUnlockPin(u)
      PROVE  TypeOK'
    <2>1. left' \in [Classes -> Nat] /\ UNCHANGED req
        BY <1>3, AtOnceCounts DEF AdminUnlockPin
    <2>2. Counters'
        BY <1>3, <2>1, ForgottenCounters DEF AdminUnlockPin, Unlocked, Forgotten, Counters
    <2> QED
        BY <1>3, <2>1, <2>2, TypesInParts DEF AdminUnlockPin, Tables, Flights
<1>4. ASSUME NEW u \in Users, AttemptsExpire(u)
      PROVE  TypeOK'
    <2>1. left' \in [Classes -> Nat] /\ UNCHANGED req
        BY <1>4, AtOnceCounts DEF AttemptsExpire
    <2>2. Counters'
        BY <1>4, <2>1, ForgottenCounters, TypesInParts
        DEF AttemptsExpire, Forgotten, Counters
    <2> QED
        BY <1>4, <2>1, <2>2, TypesInParts DEF AttemptsExpire, Tables, Flights
<1>5. ASSUME NEW u \in Users, LockExpires(u)
      PROVE  TypeOK'
    <2>1. left' \in [Classes -> Nat] /\ UNCHANGED req
        BY <1>5, AtOnceCounts DEF LockExpires
    <2>2. Counters'
        BY <1>5, <2>1, ForgottenCounters, TypesInParts DEF LockExpires, Counters
    <2> QED
        BY <1>5, <2>1, <2>2, TypesInParts DEF LockExpires, Tables, Flights
<1>6. ASSUME NEW u \in Users, AdminRegisterBankAccount(u)
      PROVE  TypeOK'
    <2>1. left' \in [Classes -> Nat] /\ UNCHANGED req
        BY <1>6, AtOnceCounts DEF AdminRegisterBankAccount
    <2> QED
        BY <1>6, <2>1, TypesInParts DEF AdminRegisterBankAccount, Tables, Flights, Counters
<1>7. ASSUME NEW u \in Users, NEW a \in BOOLEAN, UpdateAcceptingOrders(u, a)
      PROVE  TypeOK'
    <2>1. left' \in [Classes -> Nat] /\ UNCHANGED req
        BY <1>7, AtOnceCounts DEF UpdateAcceptingOrders
    <2>2. users[u] \in UserRow
        BY <1>7 DEF UpdateAcceptingOrders, Found, TypeOK
    <2>3. [users[u] EXCEPT !.accepting = a] \in UserRow
        BY <2>2, OneField
    <2>4. users' \in [Users -> UserRow \cup {NoRow}]
        BY <1>7, <2>3 DEF UpdateAcceptingOrders, TypeOK
    <2> QED
        BY <1>7, <2>1, <2>4, TypesInParts
        DEF UpdateAcceptingOrders, Tables, Flights, Counters
<1>8. ASSUME NEW i \in Invites, InvitationLapses(i)
      PROVE  TypeOK'
    <2>1. left' \in [Classes -> Nat] /\ UNCHANGED req
        BY <1>8, AtOnceCounts DEF InvitationLapses
    <2>2. invites[i] \in Invitation
        BY <1>8 DEF InvitationLapses, TypeOK
    <2>3. [invites[i] EXCEPT !.due = TRUE] \in Invitation
        BY <2>2 DEF Invitation
    <2>4. invites' \in [Invites -> Invitation \cup {NoRow}]
        BY <1>8, <2>3 DEF InvitationLapses, TypeOK
    <2> QED
        BY <1>8, <2>1, <2>4, TypesInParts
        DEF InvitationLapses, idle, Tables, Flights, Counters
<1> QED
    BY <1>1, <1>2, <1>3, <1>4, <1>5, <1>6, <1>7, <1>8 DEF AtOnceStep

-----------------------------------------------------------------------------
(* What a step that touches nothing of it keeps                             *)

\* A request goes on as it was, ends, or works on the same account and row.
SameWork(p) ==
    \/ req'[p] = req[p] \/ req'[p] = Idle
    \/ /\ req[p] # Idle /\ req[p].kind \in {"row", "open", "revoke"}
       /\ req'[p].kind = req[p].kind /\ req'[p].user = req[p].user
       /\ req'[p].row = req[p].row /\ req[p].at # "cache"

\* Submissions and reviews.
ChecksStay ==
    /\ kyc' = kyc /\ vouched \subseteq vouched'
    /\ \A p \in Procs : SameWork(p) \/ req'[p].kind # "review"

\* Invitations and what is done with them.
JoinsStay ==
    /\ UNCHANGED joinVars
    /\ \A p \in Procs : SameWork(p) \/ req'[p].kind \notin {"invite", "onboard", "expire"}

\* Which accounts there are, and who works on them.
OwnersStay ==
    /\ \A u \in Users : users'[u] = NoRow <=> users[u] = NoRow
    /\ \A t \in tokens' : t \in tokens \/ users[t.user] # NoRow
    /\ \A u \in Users : kyc'[u] # <<>> => kyc[u] # <<>> \/ users[u] # NoRow
    /\ guest' = guest
    /\ \A p \in Procs :
        \/ SameWork(p)
        \/ /\ req'[p].kind \notin {"sign", "onboard"}
           /\ (req'[p].kind \in {"row", "open", "revoke", "logout", "check", "pin",
                                 "submit", "review", "bank"} =>
                    req'[p].user \in Users /\ users[req'[p].user] # NoRow)

\* The rows held, and the secrets in the table.
RowsStay ==
    /\ \A u \in Users : users'[u] # NoRow /\ users'[u].enabled => users'[u].secret \in proven'
    /\ proven \subseteq proven' /\ IsFiniteSet(tokens')
    /\ \A p \in Procs :
        \/ SameWork(p)
        \/ /\ req'[p].kind \notin {"row", "open", "revoke", "sign"}
           /\ (req'[p].kind = "review" => req'[p].at # "write")
           /\ (req'[p].kind = "pin" /\ req'[p].at = "store" => req'[p].n > 0)

\* The sessions of a user: no new token and no new holder of the row.
SessionStays(u) ==
    /\ \A t \in tokens' : t.user = u => t \in tokens
    /\ (users[u] # NoRow => /\ users'[u] # NoRow /\ users'[u].ver >= users[u].ver
                            /\ (users[u].deleted => users'[u].deleted))
    /\ \A p \in Procs : \/ SameWork(p) /\ (req'[p] \in {req[p], Idle} \/ req'[p].at # "cache")
                        \/ req'[p].kind \notin {"row", "open", "revoke", "review"}
                        \/ req'[p].kind = "review" /\ req'[p].at # "write"
                        \/ req'[p].user # u

\* Reviews, photos and approvals are kept.
LEMMA ChecksAreKept ==
    ASSUME ReviewsKnown, PendingHasPhotos, ApprovedIsVouched, ChecksStay
    PROVE  (ReviewsKnown /\ PendingHasPhotos /\ ApprovedIsVouched)'
<1>1. ReviewsKnown'
    BY DEF ReviewsKnown, ChecksStay, SameWork, Does
<1>2. PendingHasPhotos' /\ ApprovedIsVouched'
    BY DEF PendingHasPhotos, ApprovedIsVouched, ChecksStay
<1> QED
    BY <1>1, <1>2

\* Invitations are kept.
LEMMA JoinsAreKept ==
    ASSUME InvitesKnown, InvitationAgrees, JoinsStay
    PROVE  (InvitesKnown /\ InvitationAgrees)'
<1>1. InvitesKnown'
    BY DEF InvitesKnown, JoinsStay, joinVars, SameWork, Does
<1>2. InvitationAgrees'
    BY DEF InvitationAgrees, JoinsStay, joinVars
<1> QED
    BY <1>1, <1>2

\* Accounts and those who work on them are kept.
LEMMA OwnersAreKept ==
    ASSUME TypeOK, TypeOK', Owned, OwnersStay
    PROVE  Owned'
<1>1. \A q \in Procs : Makes(q)' =>
        Makes(q) /\ req'[q].user = req[q].user /\ req[q].user \in Users
    <2> TAKE q \in Procs
    <2>1. Makes(q)' => req'[q] = req[q] /\ Makes(q)
        BY DEF Makes, OwnersStay, SameWork
    <2>2. Makes(q) => req[q].user \in Users
        BY InFlight, JoinFields DEF Makes
    <2> QED
        BY <2>1, <2>2
<1>2. \A q \in Procs : Makes(q)' => users'[req'[q].user] = NoRow
    BY <1>1 DEF Owned, OwnersStay
<1>3. \A p, q \in Procs : Makes(p)' /\ Makes(q)' /\ req'[p].user = req'[q].user => p = q
    BY <1>1 DEF Owned
<1>4. \A q \in Procs : Uses(q)' => users'[req'[q].user] # NoRow
    <2> TAKE q \in Procs
    <2>1. Uses(q) => req[q].user \in Users
        BY InFlight, WritingFields, PlainFields, ReviewFields, GuessFields DEF Uses
    <2>2. CASE SameWork(q)
        <3>1. Uses(q)' => Uses(q) /\ req'[q].user = req[q].user
            BY <2>2 DEF Uses, SameWork
        <3> QED
            BY <2>1, <3>1 DEF Owned, OwnersStay
    <2>3. CASE ~SameWork(q)
        BY <2>3 DEF Uses, OwnersStay
    <2> QED
        BY <2>2, <2>3
<1>5. \A t \in tokens' : users'[t.user] # NoRow
    <2>1. \A t \in tokens' : t.user \in Users
        BY DEF TypeOK, Token
    <2> QED
        BY <2>1 DEF Owned, OwnersStay
<1>6. \A u \in Users : kyc'[u] # <<>> \/ guest'[u] # Nobody => users'[u] # NoRow
    BY DEF Owned, OwnersStay
<1> QED
    BY <1>2, <1>3, <1>4, <1>5, <1>6 DEF Owned

\* Rows that are held and secrets are kept.
LEMMA RowsStayHeld ==
    ASSUME RowsHeld, SecretsProven, RowsStay
    PROVE  (RowsHeld /\ SecretsProven)'
<1>1. \A q \in Procs : Carries(q)' => Carries(q) /\ req'[q].row = req[q].row
    BY DEF Carries, RowsStay, SameWork
<1>2. \A q \in Procs : Does(q, "open")' => Does(q, "open") /\ req'[q].row = req[q].row
    BY DEF Does, RowsStay, SameWork
<1>3. \A q \in Procs : At(q, "pin", "store")' => req'[q].n > 0
    BY DEF At, Does, RowsHeld, RowsStay, SameWork
<1>4. RowsHeld'
    BY <1>1, <1>2, <1>3 DEF RowsHeld, RowsStay
<1>5. SecretsProven'
    BY <1>1 DEF SecretsProven, EnabledIsProven, RowsStay
<1> QED
    BY <1>4, <1>5

\* What the invariant says of one user's sessions.
OfOne(u) == Alone(u) /\ Distinct(u) /\ NotAhead(u) /\ HeldAhead(u)

\* The sessions of one user are kept.
LEMMA SessionIsKept ==
    ASSUME TypeOK, TypeOK', RowsHeld, Owned, NEW u \in Users, OfOne(u), SessionStays(u)
    PROVE  OfOne(u)'
<1>1. \A p \in Procs : Holds(p, u)' =>
        /\ Holds(p, u) /\ req'[p].kind = req[p].kind /\ req'[p].row = req[p].row
        /\ req'[p] = req[p] \/ req'[p].at # "cache"
    BY DEF Holds, SessionStays, SameWork
<1>2. Alone(u)'
    BY <1>1 DEF OfOne, Alone
<1>3. Distinct(u)'
    BY DEF OfOne, Distinct, SessionStays
<1>4. \A t \in tokens' : t.user = u =>
        t \in tokens /\ t.ver \in Nat /\ users[u] \in UserRow /\ users'[u] \in UserRow
    BY DEF SessionStays, Owned, TypeOK, Token
<1>5. \A r \in UserRow : r.ver \in Nat
    BY DEF UserRow
<1>6. NotAhead(u)'
    BY <1>4, <1>5 DEF OfOne, NotAhead, SessionStays, Owned
<1>7. HeldAhead(u)'
    <2> SUFFICES ASSUME NEW q \in Procs, Holds(q, u)'
                 PROVE  /\ \A t \in tokens' : t.user = u => t.ver <= req'[q].row.ver
                        /\ Does(q, "open")' =>
                            \A t \in tokens' : t.user = u => t.ver < req'[q].row.ver
                        /\ req'[q].kind # "review" /\ req'[q].at = "cache"
                            /\ ~users'[u].deleted => req'[q].row.ver <= users'[u].ver
        BY DEF HeldAhead
    <2>1. /\ Holds(q, u) /\ req'[q].kind = req[q].kind /\ req'[q].row = req[q].row
          /\ req'[q] = req[q] \/ req'[q].at # "cache"
        BY <1>1
    <2>2. /\ \A t \in tokens : t.user = u => t.ver <= req[q].row.ver
          /\ Does(q, "open") => \A t \in tokens : t.user = u => t.ver < req[q].row.ver
          /\ req[q].kind # "review" /\ req[q].at = "cache" /\ ~users[u].deleted
               => req[q].row.ver <= users[u].ver
        BY <2>1 DEF OfOne, HeldAhead
    <2>3. users[u] # NoRow /\ req[q].row.ver \in Nat
        <3>1. Carries(q) /\ Uses(q) /\ req[q].user = u
            BY <2>1 DEF Holds, Carries, Uses
        <3> QED
            BY <1>5, <3>1 DEF Owned, RowsHeld
    <2>4. users[u].ver \in Nat /\ users'[u].ver \in Nat /\ users'[u].ver >= users[u].ver
        BY <1>5, <2>3 DEF TypeOK, SessionStays
    <2>5. \A t \in tokens' : t.user = u => t \in tokens
        BY DEF SessionStays
    <2>6. Does(q, "open")' => Does(q, "open")
        BY <2>1 DEF Does, Holds
    <2>7. users[u].deleted => users'[u].deleted
        BY <2>3 DEF SessionStays
    <2> QED
        BY <2>1, <2>2, <2>3, <2>4, <2>5, <2>6, <2>7
<1> QED
    BY <1>2, <1>3, <1>6, <1>7 DEF OfOne

\* All users together.
LEMMA SessionsAreKept ==
    ASSUME TypeOK, TypeOK', RowsHeld, Owned, SessionsInv, overlapped \subseteq overlapped',
           \A u \in Users \ overlapped' : SessionStays(u) \/ OfOne(u)'
    PROVE  SessionsInv'
<1>1. ASSUME NEW u \in Users \ overlapped'
      PROVE  OfOne(u)'
    <2>1. OfOne(u)
        BY <1>1 DEF SessionsInv, OfOne
    <2> QED
        BY <1>1, <2>1, SessionIsKept
<1> QED
    BY <1>1 DEF SessionsInv, OfOne

-----------------------------------------------------------------------------
(* The invariant, action by action                                          *)

ChecksOK == ReviewsKnown /\ PendingHasPhotos /\ ApprovedIsVouched
JoinsOK == InvitesKnown /\ InvitationAgrees
HeldOK == RowsHeld /\ SecretsProven

\* Each part of the invariant is either left alone or kept for a reason of its own.
LEMMA PartsAreKept ==
    ASSUME AccountsInvariant, TypeOK', ChecksStay \/ ChecksOK', JoinsStay \/ JoinsOK',
           OwnersStay \/ Owned', RowsStay \/ HeldOK', overlapped \subseteq overlapped',
           \A u \in Users \ overlapped' : SessionStays(u) \/ OfOne(u)'
    PROVE  AccountsInvariant'
<1> USE DEF AccountsInvariant
<1>1. ChecksOK'
    BY ChecksAreKept DEF ChecksOK
<1>2. JoinsOK'
    BY JoinsAreKept DEF JoinsOK
<1>3. Owned'
    BY OwnersAreKept
<1>4. HeldOK'
    BY RowsStayHeld DEF HeldOK
<1>5. SessionsInv'
    BY SessionsAreKept
<1> QED
    BY <1>1, <1>2, <1>3, <1>4, <1>5 DEF ChecksOK, JoinsOK, HeldOK

\* The rows of a table nobody wrote.
LEMMA SameTable ==
    ASSUME AccountsInvariant, users' = users
    PROVE  /\ \A u \in Users : users'[u] = NoRow <=> users[u] = NoRow
           /\ \A u \in Users : users[u] # NoRow =>
                /\ users'[u] # NoRow /\ users'[u].ver >= users[u].ver
                /\ (users[u].deleted => users'[u].deleted)
           /\ \A P : proven \subseteq P => \A u \in Users :
                users'[u] # NoRow /\ users'[u].enabled => users'[u].secret \in P
<1>1. \A u \in Users : users[u] # NoRow => users[u].ver \in Nat
    BY DEF AccountsInvariant, TypeOK, UserRow
<1> QED
    BY <1>1 DEF AccountsInvariant, SecretsProven, EnabledIsProven

\* One row written over by one that keeps its second factor and is no older.
LEMMA OneRowKept ==
    ASSUME AccountsInvariant, NEW v \in Users, NEW row, users[v] # NoRow,
           users' = [users EXCEPT ![v] = row], Keeps(row, users[v]),
           users[v].deleted => row.deleted, proven' = proven
    PROVE  /\ \A u \in Users : users'[u] = NoRow <=> users[u] = NoRow
           /\ \A u \in Users : users[u] # NoRow =>
                /\ users'[u] # NoRow /\ users'[u].ver >= users[u].ver
                /\ (users[u].deleted => users'[u].deleted)
           /\ \A u \in Users :
                users'[u] # NoRow /\ users'[u].enabled => users'[u].secret \in proven'
<1>1. \A u \in Users : users[u] # NoRow => users[u].ver \in Nat
    BY DEF AccountsInvariant, TypeOK, UserRow
<1>2. \A u \in Users : users'[u] = IF u = v THEN row ELSE users[u]
    BY DEF AccountsInvariant, TypeOK
<1>3. row # NoRow
    BY SentinelAssumption DEF Keeps
<1>4. \A u \in Users : users[u] # NoRow /\ users[u].enabled => users[u].secret \in proven
    BY DEF AccountsInvariant, SecretsProven, EnabledIsProven
<1> QED
    BY <1>1, <1>2, <1>3, <1>4 DEF Keeps

\* A step that touches none of this: what the requests go on with says it all.
Quiet ==
    /\ UNCHANGED <<users, tokens, joinVars, checkVars, proven, overlapped>>
    /\ \A p \in Procs :
        \/ req'[p] = req[p] \/ req'[p] = Idle
        \/ /\ req'[p].kind \in {"check", "pin", "bank"}
           /\ req'[p].user \in Users /\ users[req'[p].user] # NoRow
           /\ (req'[p].kind = "pin" /\ req'[p].at = "store" => req'[p].n > 0)

\* A quiet step keeps the invariant.
LEMMA QuietIsKept ==
    ASSUME AccountsInvariant, TypeOK', Quiet
    PROVE  AccountsInvariant'
<1>1. ChecksStay
    BY DEF Quiet, ChecksStay, checkVars, SameWork
<1>2. JoinsStay
    BY DEF Quiet, JoinsStay, SameWork
<1>3. OwnersStay
    BY SameTable DEF Quiet, OwnersStay, SameWork, joinVars, checkVars
<1>4. RowsStay
    BY SameTable DEF Quiet, RowsStay, SameWork, AccountsInvariant, RowsHeld
<1>5. \A u \in Users : SessionStays(u)
    <2> TAKE u \in Users
    <2>1. /\ \A t \in tokens' : t.user = u => t \in tokens
          /\ (users[u] # NoRow => /\ users'[u] # NoRow /\ users'[u].ver >= users[u].ver
                                  /\ (users[u].deleted => users'[u].deleted))
        BY SameTable DEF Quiet
    <2>2. \A p \in Procs :
            \/ SameWork(p) /\ (req'[p] \in {req[p], Idle} \/ req'[p].at # "cache")
            \/ req'[p].kind \notin {"row", "open", "revoke", "review"}
            \/ req'[p].kind = "review" /\ req'[p].at # "write"
            \/ req'[p].user # u
        <3> TAKE p \in Procs
        <3>1. CASE req'[p] = req[p] \/ req'[p] = Idle
            BY <3>1 DEF SameWork
        <3>2. CASE req'[p].kind \in {"check", "pin", "bank"}
            BY <3>2
        <3> QED
            BY <3>1, <3>2 DEF Quiet
    <2> QED
        BY <2>1, <2>2 DEF SessionStays
<1>6. overlapped \subseteq overlapped'
    BY DEF Quiet
<1> QED
    BY <1>1, <1>2, <1>3, <1>4, <1>5, <1>6, PartsAreKept

\* The steps that are quiet.
LEMMA QuietSteps ==
    ASSUME AccountsInvariant, NEW q \in Procs, NEW u \in Users,
           \/ DropVersion(q) \/ FillVersion(q) \/ Protected(q, u)
           \/ VerifyPin(q, u) \/ RightPin(q) \/ CountAttempt(q) \/ WrongPin(q)
           \/ UpsertBankAccount(q) \/ RegisterMyBankAccount(q, u)
    PROVE  Quiet
<1> USE DEF AccountsInvariant, sessionVars, idle, pinVars
<1>0. req \in [Procs -> Request \cup {Idle}]
    BY DEF TypeOK
<1>1. ASSUME NEW r, req' = [req EXCEPT ![q] = r],
             UNCHANGED <<users, tokens, joinVars, checkVars, proven, overlapped>>,
             \/ r = Idle
             \/ /\ r.kind \in {"check", "pin", "bank"}
                /\ r.user \in Users /\ users[r.user] # NoRow
                /\ (r.kind = "pin" /\ r.at = "store" => r.n > 0)
      PROVE  Quiet
    <2>1. \A p \in Procs : req'[p] = IF p = q THEN r ELSE req[p]
        BY <1>0, <1>1
    <2> QED
        BY <1>1, <2>1 DEF Quiet
<1>2. CASE DropVersion(q)
    BY <1>1, <1>2 DEF DropVersion, Done
<1>3. CASE FillVersion(q)
    BY <1>1, <1>3 DEF FillVersion, Done
<1>4. CASE Protected(q, u)
    BY <1>1, <1>4, BeginCounts DEF Protected, Begin
<1>5. CASE VerifyPin(q, u)
    <2>1. users[u] # NoRow
        BY <1>5 DEF VerifyPin, Found
    <2>2. PICK step \in {"right", "count"} :
            req' = [req EXCEPT ![q] = [kind |-> "pin", user |-> u, at |-> step, n |-> 0]]
        BY <1>5 DEF VerifyPin
    <2> QED
        BY <1>1, <1>5, <2>1, <2>2 DEF VerifyPin
<1>6. CASE RightPin(q)
    BY <1>1, <1>6 DEF RightPin, Done
<1>7. CASE CountAttempt(q)
    <2> DEFINE new == [req[q] EXCEPT !.at = "store", !.n = tries[req[q].user] + 1]
    <2>1. req[q] \in Guessing /\ Uses(q)
        BY <1>7, InFlight, KindsOfRequest DEF CountAttempt, At, Does, Uses
    <2>2. req[q].user \in Users /\ users[req[q].user] # NoRow
        BY <2>1 DEF Guessing, Owned
    <2>3. tries[req[q].user] \in Nat
        BY <2>2 DEF TypeOK
    <2>4. new.kind = "pin" /\ new.user = req[q].user /\ new.n > 0
        BY <2>1, <2>3 DEF Guessing
    <2>5. req' = [req EXCEPT ![q] = new]
        BY <1>7 DEF CountAttempt, TypeOK
    <2> HIDE DEF new
    <2> QED
        BY <1>1, <1>7, <2>2, <2>4, <2>5 DEF CountAttempt
<1>8. CASE WrongPin(q)
    BY <1>1, <1>8 DEF WrongPin, Done
<1>9. CASE UpsertBankAccount(q)
    BY <1>1, <1>9 DEF UpsertBankAccount, Done
<1>10. CASE RegisterMyBankAccount(q, u)
    BY <1>1, <1>10 DEF RegisterMyBankAccount, Begin
<1> QED
    BY <1>2, <1>3, <1>4, <1>5, <1>6, <1>7, <1>8, <1>9, <1>10

\* The moments that are quiet.
LEMMA QuietMoments ==
    ASSUME AccountsInvariant, NEW u \in Users,
           \/ VersionExpires(u) \/ AdminUnlockPin(u) \/ AttemptsExpire(u)
           \/ LockExpires(u) \/ AdminRegisterBankAccount(u)
    PROVE  Quiet
    BY DEF VersionExpires, AdminUnlockPin, AttemptsExpire, LockExpires,
           AdminRegisterBankAccount, AtOnce, Quiet, sessionVars

\* A request that takes up a row: nobody else holds it, or the user is set aside.
LEMMA TakingUp ==
    ASSUME AccountsInvariant, TypeOK', NEW q \in Procs, NEW u \in Users, Found(u),
           NEW r \in Request, req' = [req EXCEPT ![q] = r], r.user = u,
           r.row \in UserRow, r.row.ver >= users[u].ver,
           r.kind \in {"row", "open", "revoke", "review"},
           r.kind = "open" => r.row.ver > users[u].ver,
           r.kind # "review" => r.at # "cache",
           ~Holds(q, u), Overlap(u), users' = users, tokens' = tokens
    PROVE  /\ overlapped \subseteq overlapped'
           /\ \A v \in Users \ overlapped' : SessionStays(v) \/ OfOne(v)'
<1>1. \A p \in Procs : req'[p] = IF p = q THEN r ELSE req[p]
    BY DEF AccountsInvariant, TypeOK
<1>2. overlapped \subseteq overlapped'
    BY DEF Overlap
<1>3. ASSUME NEW v \in Users, v # u
      PROVE  SessionStays(v)
    BY <1>1, <1>3, SameTable DEF SessionStays, SameWork
<1>4. ASSUME u \notin overlapped'
      PROVE  OfOne(u)'
    <2>1. \A p \in Procs : ~Holds(p, u)
        BY <1>4 DEF Overlap
    <2>2. \A p \in Procs : Holds(p, u)' => p = q
        BY <1>1, <2>1 DEF Holds
    <2>3. OfOne(u)
        BY <1>2, <1>4 DEF AccountsInvariant, SessionsInv, OfOne
    <2>4. Alone(u)' /\ Distinct(u)' /\ NotAhead(u)'
        BY <2>2, <2>3 DEF Alone, Distinct, NotAhead, OfOne
    <2>5. HeldAhead(u)'
        <3>1. users[u].ver \in Nat /\ r.row.ver \in Nat /\ ~users[u].deleted
            BY DEF AccountsInvariant, TypeOK, Found, UserRow
        <3>2. \A t \in tokens : t.user = u => t.ver \in Nat /\ t.ver <= users[u].ver
            BY <2>3, <3>1 DEF OfOne, NotAhead, AccountsInvariant, TypeOK, Token
        <3>3. /\ \A t \in tokens' : t.user = u => t.ver <= r.row.ver
              /\ r.kind = "open" => \A t \in tokens' : t.user = u => t.ver < r.row.ver
            BY <3>1, <3>2
        <3>4. req'[q] = r
            BY <1>1
        <3> QED
            BY <2>2, <3>3, <3>4 DEF HeldAhead, Does
    <2> QED
        BY <2>4, <2>5 DEF OfOne
<1> QED
    BY <1>2, <1>3, <1>4

\* A handler that reads a row to write it back.
LEMMA ReadIsKept ==
    ASSUME AccountsInvariant, TypeOK', NEW q \in Procs, ReadsRow(q)
    PROVE  AccountsInvariant'
<1>1. PICK u \in Users, kind \in {"row", "open", "revoke"}, step \in {"clear", "write"} :
      \E row \in UserRow :
        /\ Found(u) /\ req[q] = Idle
        /\ req' = [req EXCEPT ![q] = [kind |-> kind, user |-> u, row |-> row, at |-> step]]
        /\ Fits(u, kind, row) /\ Overlap(u)
        /\ proven \subseteq proven' /\ proven' \subseteq Secrets /\ Counters'
        /\ UNCHANGED <<users, sessionVars, joinVars, checkVars, bank>>
    BY DEF ReadsRow
<1>2. PICK row \in UserRow :
        /\ Found(u) /\ req[q] = Idle
        /\ req' = [req EXCEPT ![q] = [kind |-> kind, user |-> u, row |-> row, at |-> step]]
        /\ Fits(u, kind, row) /\ Overlap(u)
        /\ proven \subseteq proven' /\ proven' \subseteq Secrets /\ Counters'
        /\ UNCHANGED <<users, sessionVars, joinVars, checkVars, bank>>
    BY <1>1
<1> DEFINE r == [kind |-> kind, user |-> u, row |-> row, at |-> step]
<1>3. /\ r.kind = kind /\ r.user = u /\ r.row = row /\ r.at = step /\ r \in Request
      /\ req' = [req EXCEPT ![q] = r]
    BY <1>2, NewRequests
<1> HIDE DEF r
<1>4. \A p \in Procs : req'[p] = IF p = q THEN r ELSE req[p]
    BY <1>3 DEF AccountsInvariant, TypeOK
<1>5. UNCHANGED <<users, tokens, kyc, guest, invites, vouched>> /\ users[u] # NoRow
    BY <1>2 DEF sessionVars, joinVars, checkVars, Found
<1>6. ChecksStay
    BY <1>3, <1>4, <1>5 DEF ChecksStay, SameWork
<1>7. JoinsStay
    BY <1>3, <1>4, <1>5 DEF JoinsStay, joinVars, SameWork
<1>8. OwnersStay
    BY <1>3, <1>4, <1>5 DEF OwnersStay, SameWork
<1>9. HeldOK'
    <2>1. RowsHeld'
        BY <1>2, <1>3, <1>4, <1>5
        DEF AccountsInvariant, RowsHeld, Carries, Does, At, Fits
    <2>2. SecretsProven'
        BY <1>2, <1>3, <1>4, <1>5
        DEF AccountsInvariant, SecretsProven, EnabledIsProven, Carries, Fits
    <2> QED
        BY <2>1, <2>2 DEF HeldOK
<1>10. ~Holds(q, u)
    BY <1>2 DEF Holds
<1>11. /\ overlapped \subseteq overlapped'
       /\ \A v \in Users \ overlapped' : SessionStays(v) \/ OfOne(v)'
    BY <1>2, <1>3, <1>5, <1>10, TakingUp DEF Fits
<1> QED
    BY <1>6, <1>7, <1>8, <1>9, <1>11, PartsAreKept

\* Whoever else was on the device loses the session, whatever requests hold.
LEMMA ClearIsKept ==
    ASSUME AccountsInvariant, TypeOK', NEW q \in Procs, ClearDeviceSessions(q)
    PROVE  AccountsInvariant'
<1> DEFINE r == [req[q] EXCEPT !.at = "write"]
<1>1. /\ req[q] \in Writing /\ req[q] # Idle /\ req[q].kind = "open" /\ req[q].at = "clear"
      /\ req' = [req EXCEPT ![q] = r]
    BY InFlight, KindsOfRequest
    DEF ClearDeviceSessions, At, Does, Goes, AccountsInvariant, TypeOK
<1>2. /\ r.kind = "open" /\ r.user = req[q].user /\ r.row = req[q].row /\ r.at = "write"
    BY <1>1 DEF Writing
<1> HIDE DEF r
<1>3. \A p \in Procs : req'[p] = IF p = q THEN r ELSE req[p]
    BY <1>1 DEF AccountsInvariant, TypeOK
<1>4. \A p \in Procs : SameWork(p) /\ (req'[p] = req[p] \/ req'[p].at # "cache")
    BY <1>1, <1>2, <1>3 DEF SameWork
<1>5. \A v \in Users : users[v] # NoRow => users[v] \in UserRow
    BY DEF AccountsInvariant, TypeOK
<1>6. \A v \in Users : users'[v] = users[v] \/ (users[v] # NoRow /\ users'[v] = LoggedOff(users[v]))
    BY DEF ClearDeviceSessions
<1>7. /\ tokens' = tokens /\ overlapped' = overlapped /\ proven' = proven
      /\ UNCHANGED <<kyc, vouched, guest, invites>>
    BY DEF ClearDeviceSessions, sessionVars, joinVars, checkVars
<1>8. \A v \in Users :
        /\ users'[v] = NoRow <=> users[v] = NoRow
        /\ users[v] # NoRow => /\ users'[v] # NoRow /\ users'[v].ver >= users[v].ver
                               /\ (users[v].deleted => users'[v].deleted)
        /\ users'[v] # NoRow /\ users'[v].enabled =>
              users[v].enabled /\ users'[v].secret = users[v].secret
    <2> TAKE v \in Users
    <2>1. CASE users'[v] = users[v]
        BY <1>5, <2>1 DEF UserRow
    <2>2. CASE users[v] # NoRow /\ users'[v] = LoggedOff(users[v])
        <3>1. users[v] \in UserRow
            BY <1>5, <2>2
        <3>2. Keeps(users'[v], users[v]) /\ users'[v].deleted = users[v].deleted
            BY <2>2, <3>1, RowsAreRows
        <3>3. users'[v] # NoRow
            BY <3>2, SentinelAssumption DEF Keeps
        <3> QED
            BY <2>2, <3>2, <3>3 DEF Keeps
    <2> QED
        BY <1>6, <2>1, <2>2
<1>9. ChecksStay
    BY <1>4, <1>7 DEF ChecksStay
<1>10. JoinsStay
    BY <1>4, <1>7 DEF JoinsStay, joinVars
<1>11. OwnersStay
    BY <1>4, <1>7, <1>8 DEF OwnersStay
<1>12. RowsStay
    BY <1>4, <1>7, <1>8
    DEF RowsStay, AccountsInvariant, SecretsProven, EnabledIsProven, RowsHeld
<1>13. \A v \in Users : SessionStays(v)
    BY <1>4, <1>7, <1>8 DEF SessionStays
<1> QED
    BY <1>7, <1>9, <1>10, <1>11, <1>12, <1>13, PartsAreKept

\* One row written over at once by a row that keeps what the invariant is about.
LEMMA AtOnceIsKept ==
    ASSUME AccountsInvariant, TypeOK', NEW v \in Users, NEW row, users[v] # NoRow,
           users' = [users EXCEPT ![v] = row], Keeps(row, users[v]),
           users[v].deleted => row.deleted,
           UNCHANGED <<tokens, kyc, guest, invites, proven, overlapped>>,
           vouched \subseteq vouched',
           \A p \in Procs :
            \/ req'[p] = req[p]
            \/ req'[p].kind = "logout" /\ req'[p].user = v
    PROVE  AccountsInvariant'
<1>1. ChecksStay
    BY DEF ChecksStay, SameWork
<1>2. JoinsStay
    BY DEF JoinsStay, joinVars, SameWork
<1>3. OwnersStay
    BY OneRowKept DEF OwnersStay, SameWork
<1>4. RowsStay
    BY OneRowKept DEF RowsStay, SameWork, AccountsInvariant, RowsHeld
<1>5. ASSUME NEW u \in Users
      PROVE  SessionStays(u)
    <2>1. users[u] # NoRow => /\ users'[u] # NoRow /\ users'[u].ver >= users[u].ver
                              /\ (users[u].deleted => users'[u].deleted)
        BY <1>5, OneRowKept
    <2> QED
        BY <2>1 DEF SessionStays, SameWork
<1> QED
    BY <1>1, <1>2, <1>3, <1>4, <1>5, PartsAreKept

\* A logout is one statement on the row, and so is a switch or a deletion.
LEMMA StatementsAreKept ==
    ASSUME AccountsInvariant, TypeOK', NEW u \in Users,
           \/ \E q \in Procs : Logout(q, u)
           \/ \E a \in BOOLEAN : UpdateAcceptingOrders(u, a)
           \/ Delete(u)
    PROVE  AccountsInvariant'
<1> USE DEF sessionVars, joinVars, checkVars
<1>1. ASSUME NEW q \in Procs, Logout(q, u)
      PROVE  AccountsInvariant'
    <2>1. users[u] \in UserRow /\ users[u] # NoRow
        BY <1>1 DEF Logout, Accepted, AccountsInvariant, TypeOK
    <2>2. users' = [users EXCEPT ![u] = LoggedOff(users[u])]
        BY <1>1 DEF Logout
    <2>3. req' = [req EXCEPT ![q] = [kind |-> "logout", user |-> u]]
        BY <1>1 DEF Logout, Begin
    <2>4. \A p \in Procs : req'[p] = req[p] \/ (req'[p].kind = "logout" /\ req'[p].user = u)
        BY <2>3 DEF AccountsInvariant, TypeOK
    <2>5. /\ UNCHANGED <<tokens, kyc, guest, invites, proven, overlapped>>
          /\ vouched \subseteq vouched'
        BY <1>1 DEF Logout
    <2> QED
        BY <2>1, <2>2, <2>4, <2>5, RowsAreRows, AtOnceIsKept
<1>2. ASSUME NEW a \in BOOLEAN, UpdateAcceptingOrders(u, a)
      PROVE  AccountsInvariant'
    <2>1. users[u] \in UserRow /\ users[u] # NoRow
        BY <1>2 DEF UpdateAcceptingOrders, Found, AccountsInvariant, TypeOK
    <2>2. users' = [users EXCEPT ![u] = [users[u] EXCEPT !.accepting = a]]
        BY <1>2 DEF UpdateAcceptingOrders
    <2>3. /\ UNCHANGED <<req, tokens, kyc, guest, invites, proven, overlapped>>
          /\ vouched \subseteq vouched'
        BY <1>2 DEF UpdateAcceptingOrders, AtOnce
    <2>4. /\ Keeps([users[u] EXCEPT !.accepting = a], users[u])
          /\ [users[u] EXCEPT !.accepting = a].deleted = users[u].deleted
        BY <2>1, RowsAreRows
    <2> QED
        BY <2>1, <2>2, <2>3, <2>4, AtOnceIsKept
<1>3. ASSUME Delete(u)
      PROVE  AccountsInvariant'
    <2>1. users[u] \in UserRow /\ users[u] # NoRow
        BY <1>3 DEF Delete, Found, AccountsInvariant, TypeOK
    <2>2. users' = [users EXCEPT ![u] = [users[u] EXCEPT !.deleted = TRUE]]
        BY <1>3 DEF Delete
    <2>3. /\ UNCHANGED <<req, tokens, kyc, guest, invites, proven, overlapped>>
          /\ vouched \subseteq vouched'
        BY <1>3 DEF Delete, AtOnce
    <2>4. /\ Keeps([users[u] EXCEPT !.deleted = TRUE], users[u])
          /\ [users[u] EXCEPT !.deleted = TRUE].deleted
        BY <2>1, RowsAreRows
    <2> QED
        BY <2>1, <2>2, <2>3, <2>4, AtOnceIsKept
<1> QED
    BY <1>1, <1>2, <1>3

\* What a request that is about to write a row knows of it.
LEMMA Holder ==
    ASSUME AccountsInvariant, NEW q \in Procs, Carries(q), req[q].kind # "sign"
    PROVE  /\ req[q].user \in Users /\ req[q].row \in UserRow /\ req[q].row # NoRow
           /\ users[req[q].user] \in UserRow /\ users[req[q].user] # NoRow
           /\ (req[q].row.enabled => req[q].row.secret \in proven)
           /\ Holds(q, req[q].user)
<1>1. req[q].user \in Users /\ req[q].row \in UserRow
    BY HeldRows DEF AccountsInvariant
<1>2. Uses(q) /\ Holds(q, req[q].user)
    BY DEF Carries, Uses, Holds
<1> QED
    BY <1>1, <1>2, SentinelAssumption
    DEF AccountsInvariant, Owned, SecretsProven, TypeOK

\* A row that is stored: the table afterwards.
LEMMA StoredRows ==
    ASSUME AccountsInvariant, NEW q \in Procs, Carries(q), req[q].kind # "sign",
           users' = Stored(req[q].user, req[q].row), proven' = proven
    PROVE  /\ \A u \in Users : users'[u] = NoRow <=> users[u] = NoRow
           /\ \A u \in Users : u # req[q].user => users'[u] = users[u]
           /\ \A u \in Users :
                users'[u] # NoRow /\ users'[u].enabled => users'[u].secret \in proven'
           /\ users[req[q].user].deleted => users'[req[q].user].deleted
           /\ ~users[req[q].user].deleted => users'[req[q].user] = req[q].row
<1> DEFINE v == req[q].user
<1>1. /\ v \in Users /\ req[q].row \in UserRow /\ req[q].row # NoRow /\ users[v] # NoRow
      /\ (req[q].row.enabled => req[q].row.secret \in proven)
    BY Holder
<1>2. \A u \in Users :
        users'[u] = IF u = v /\ ~users[v].deleted THEN req[q].row ELSE users[u]
    BY <1>1 DEF Stored, AccountsInvariant, TypeOK
<1>3. \A u \in Users : users[u] # NoRow /\ users[u].enabled => users[u].secret \in proven
    BY DEF AccountsInvariant, SecretsProven, EnabledIsProven
<1> HIDE DEF v
<1>4. \A u \in Users : users'[u] = NoRow <=> users[u] = NoRow
    BY <1>1, <1>2
<1>5. \A u \in Users :
        users'[u] # NoRow /\ users'[u].enabled => users'[u].secret \in proven'
    BY <1>1, <1>2, <1>3
<1>6. /\ \A u \in Users : u # v => users'[u] = users[u]
      /\ users[v].deleted => users'[v].deleted
      /\ ~users[v].deleted => users'[v] = req[q].row
    BY <1>1, <1>2
<1> QED
    BY <1>4, <1>5, <1>6 DEF v

\* A row that is stored, or refused: the sessions afterwards.
LEMMA StoringIsKept ==
    ASSUME AccountsInvariant, TypeOK', NEW q \in Procs, Carries(q), req[q].kind # "sign",
           NEW r, req' = [req EXCEPT ![q] = r],
           \/ r = Idle
           \/ r.kind = "review" /\ r.at # "write"
           \/ /\ users' = Stored(req[q].user, req[q].row)
              /\ r.kind = req[q].kind /\ r.user = req[q].user /\ r.row = req[q].row,
           users' = users \/ users' = Stored(req[q].user, req[q].row),
           proven' = proven, UNCHANGED <<tokens, overlapped>>
    PROVE  \A u \in Users \ overlapped' : SessionStays(u) \/ OfOne(u)'
<1>1. \A p \in Procs : req'[p] = IF p = q THEN r ELSE req[p]
    BY DEF AccountsInvariant, TypeOK
<1>0. PICK v \in Users : v = req[q].user
    BY Holder
<1>2. /\ v \in Users /\ req[q].row \in UserRow /\ Holds(q, v)
      /\ users[v] # NoRow
    BY <1>0, Holder
<1>3. ASSUME NEW u \in Users, u # v
      PROVE  SessionStays(u)
    <2>1. users'[u] = users[u]
        BY <1>0, <1>3, StoredRows
    <2>2. users[u] # NoRow => users[u].ver \in Nat
        BY DEF AccountsInvariant, TypeOK, UserRow
    <2>3. \A p \in Procs : req'[p] = req[p] \/ (p = q /\ req'[p] = r)
        BY <1>1
    <2>4. \A p \in Procs : \/ req'[p] = req[p] \/ req'[p] = Idle
                           \/ req'[p].kind = "review" /\ req'[p].at # "write"
                           \/ req'[p].user # u
        BY <1>0, <1>3, <2>3
    <2> QED
        BY <2>1, <2>2, <2>4 DEF SessionStays, SameWork
<1>4. ASSUME v \notin overlapped
      PROVE  OfOne(v)'
    <2>1. OfOne(v)
        BY <1>2, <1>4 DEF AccountsInvariant, SessionsInv, OfOne
    <2>2. \A p \in Procs : Holds(p, v) => p = q
        BY <1>2, <2>1 DEF OfOne, Alone
    <2>3. \A p \in Procs : Holds(p, v)' => p = q /\ Holds(q, v)'
        BY <1>1, <2>2 DEF Holds
    <2>4. Alone(v)' /\ Distinct(v)'
        BY <2>1, <2>3 DEF OfOne, Alone, Distinct
    <2>5. /\ \A t \in tokens : t.user = v => t.ver <= req[q].row.ver
          /\ Does(q, "open") => \A t \in tokens : t.user = v => t.ver < req[q].row.ver
        BY <1>2, <2>1 DEF OfOne, HeldAhead
    <2>6. NotAhead(v)'
        <3>1. CASE users' = users
            BY <2>1, <3>1 DEF OfOne, NotAhead
        <3>2. CASE users' = Stored(v, req[q].row)
            <4>1. /\ users[v].deleted => users'[v].deleted
                  /\ ~users[v].deleted => users'[v] = req[q].row
                BY <1>0, <3>2, StoredRows
            <4> QED
                BY <2>5, <4>1 DEF NotAhead
        <3> QED
            BY <1>0, <3>1, <3>2
    <2>7. HeldAhead(v)'
        <3> SUFFICES ASSUME Holds(q, v)'
                     PROVE  /\ \A t \in tokens' : t.user = v => t.ver <= req'[q].row.ver
                            /\ Does(q, "open")' =>
                                \A t \in tokens' : t.user = v => t.ver < req'[q].row.ver
                            /\ req'[q].kind # "review" /\ req'[q].at = "cache"
                                /\ ~users'[v].deleted => req'[q].row.ver <= users'[v].ver
            BY <2>3 DEF HeldAhead
        <3>1. /\ req'[q].kind = req[q].kind /\ req'[q].row = req[q].row
              /\ users' = Stored(v, req[q].row)
            BY <1>0, <1>1 DEF Holds
        <3>2. /\ users[v].deleted => users'[v].deleted
              /\ ~users[v].deleted => users'[v] = req[q].row
            BY <1>0, <3>1, StoredRows
        <3>3. req[q].row.ver \in Nat
            BY <1>2 DEF UserRow
        <3>4. Does(q, "open")' => Does(q, "open")
            BY <1>2, <3>1 DEF Does, Holds
        <3> QED
            BY <2>5, <3>1, <3>2, <3>3, <3>4
    <2> QED
        BY <2>4, <2>6, <2>7 DEF OfOne
<1> QED
    BY <1>3, <1>4

\* A row that is written back.
LEMMA WriteIsKept ==
    ASSUME AccountsInvariant, TypeOK', NEW q \in Procs, WriteBack(q)
    PROVE  AccountsInvariant'
<1>1. /\ req[q] \in Writing /\ req[q] # Idle /\ Carries(q) /\ req[q].at # "cache"
      \/ /\ req[q] \in Writing /\ req[q] # Idle /\ Carries(q) /\ req[q].kind = "row"
    BY InFlight, KindsOfRequest DEF WriteBack, At, Does, Carries, AccountsInvariant
<1>2. req[q].kind \in {"row", "open", "revoke"}
    BY <1>1 DEF Writing
<1>3. PICK r : /\ req' = [req EXCEPT ![q] = r]
               /\ \/ r = Idle
                  \/ /\ users' = Stored(req[q].user, req[q].row) /\ req[q].at = "write"
                     /\ r = [req[q] EXCEPT !.at = "cache"]
    <2>1. \/ req' = [req EXCEPT ![q] = Idle]
          \/ /\ users' = Stored(req[q].user, req[q].row) /\ req[q].at = "write"
             /\ req' = [req EXCEPT ![q].at = "cache"]
        BY DEF WriteBack, Done, Goes, At, Does
    <2>2. [req EXCEPT ![q].at = "cache"] = [req EXCEPT ![q] = [req[q] EXCEPT !.at = "cache"]]
        BY DEF AccountsInvariant, TypeOK
    <2> QED
        BY <2>1, <2>2
<1>4. \/ r = Idle
      \/ /\ users' = Stored(req[q].user, req[q].row) /\ req[q].at = "write"
         /\ r.kind = req[q].kind /\ r.user = req[q].user /\ r.row = req[q].row
    BY <1>1, <1>3 DEF Writing
<1>5. \A p \in Procs : req'[p] = IF p = q THEN r ELSE req[p]
    BY <1>3 DEF AccountsInvariant, TypeOK
<1>6. \A p \in Procs : SameWork(p)
    BY <1>1, <1>2, <1>4, <1>5 DEF SameWork
<1>7. /\ users' = users \/ users' = Stored(req[q].user, req[q].row)
      /\ vouched \subseteq vouched'
      /\ UNCHANGED <<tokens, invites, guest, kyc, proven, overlapped>>
    BY DEF WriteBack, sessionVars, joinVars
<1>8. ChecksStay
    BY <1>6, <1>7 DEF ChecksStay
<1>9. JoinsStay
    BY <1>6, <1>7 DEF JoinsStay, joinVars
<1>10. /\ \A u \in Users : users'[u] = NoRow <=> users[u] = NoRow
       /\ \A u \in Users :
            users'[u] # NoRow /\ users'[u].enabled => users'[u].secret \in proven'
    BY <1>1, <1>2, <1>7, StoredRows, SameTable
<1>11. OwnersStay
    BY <1>6, <1>7, <1>10 DEF OwnersStay
<1>12. RowsStay
    BY <1>6, <1>7, <1>10 DEF RowsStay, AccountsInvariant, RowsHeld
<1>13. \A u \in Users \ overlapped' : SessionStays(u) \/ OfOne(u)'
    BY <1>1, <1>2, <1>3, <1>4, <1>7, StoringIsKept
<1> QED
    BY <1>7, <1>8, <1>9, <1>11, <1>12, <1>13, PartsAreKept

\* The version is told to Redis, and a new pair of tokens is made.
LEMMA SettingIsKept ==
    ASSUME AccountsInvariant, TypeOK', NEW q \in Procs, SetVersion(q)
    PROVE  AccountsInvariant'
<1>0. PICK v \in Users : v = req[q].user
    BY Holder DEF SetVersion, At, Does, Carries
<1>1. /\ Carries(q) /\ req[q].kind \in {"open", "revoke"} /\ req[q].at = "cache"
      /\ req' = [req EXCEPT ![q] = Idle]
      /\ UNCHANGED <<users, kyc, vouched, guest, invites, proven, overlapped>>
    BY DEF SetVersion, At, Does, Carries, Done, joinVars, checkVars
<1>2. /\ v \in Users /\ req[q].row \in UserRow /\ users[v] # NoRow /\ Holds(q, v)
    BY <1>0, <1>1, Holder
<1> DEFINE new == [user |-> v, ver |-> req[q].row.ver, device |-> req[q].row.device,
                   serial |-> Cardinality(tokens)]
<1>3. \/ tokens' = tokens
      \/ Does(q, "open") /\ tokens' = tokens \cup {new}
    BY <1>0, <1>1 DEF SetVersion, Does, Carries
<1>4. new.user = v /\ new.ver = req[q].row.ver
    OBVIOUS
<1>5. req[q].row.ver \in Nat
    BY <1>2 DEF UserRow
<1> HIDE DEF new
<1>6. \A p \in Procs : req'[p] = IF p = q THEN Idle ELSE req[p]
    BY <1>1 DEF AccountsInvariant, TypeOK
<1>7. \A p \in Procs : SameWork(p) /\ (req'[p] = req[p] \/ req'[p] = Idle)
    BY <1>6 DEF SameWork
<1>8. ChecksStay
    BY <1>1, <1>7 DEF ChecksStay
<1>9. JoinsStay
    BY <1>1, <1>7 DEF JoinsStay, joinVars
<1>10. OwnersStay
    BY <1>1, <1>2, <1>3, <1>4, <1>7, SameTable DEF OwnersStay
<1>11. RowsStay
    <2>1. IsFiniteSet(tokens')
        BY <1>3, FS_AddElement DEF AccountsInvariant, RowsHeld
    <2> QED
        BY <1>1, <1>7, <2>1, SameTable DEF RowsStay
<1>12. ASSUME NEW u \in Users, u # v
       PROVE  SessionStays(u)
    <2>1. \A t \in tokens' : t.user = u => t \in tokens
        BY <1>3, <1>4, <1>12
    <2> QED
        BY <1>1, <1>7, <2>1, SameTable DEF SessionStays
<1>13. ASSUME v \notin overlapped
       PROVE  OfOne(v)'
    <2>1. OfOne(v)
        BY <1>2, <1>13 DEF AccountsInvariant, SessionsInv, OfOne
    <2>2. \A p \in Procs : ~Holds(p, v)'
        BY <1>2, <1>6, <2>1 DEF OfOne, Alone, Holds
    <2>3. \A t \in tokens : t.user = v => t.ver \in Nat
        BY DEF AccountsInvariant, TypeOK, Token
    <2>4. Does(q, "open") => \A t \in tokens : t.user = v => t.ver < req[q].row.ver
        BY <1>2, <2>1 DEF OfOne, HeldAhead
    <2>5. Distinct(v)'
        <3>1. CASE tokens' = tokens
            BY <2>1, <3>1 DEF OfOne, Distinct
        <3>2. CASE Does(q, "open") /\ tokens' = tokens \cup {new}
            BY <1>4, <1>5, <2>1, <2>3, <2>4, <3>2 DEF OfOne, Distinct
        <3> QED
            BY <1>3, <3>1, <3>2
    <2>6. ~users[v].deleted => req[q].row.ver <= users[v].ver
        BY <1>1, <1>2, <2>1 DEF OfOne, HeldAhead
    <2>7. NotAhead(v)'
        BY <1>1, <1>3, <1>4, <2>1, <2>6 DEF OfOne, NotAhead
    <2> QED
        BY <2>2, <2>5, <2>7 DEF OfOne, Alone, HeldAhead
<1> QED
    BY <1>1, <1>8, <1>9, <1>10, <1>11, <1>12, <1>13, PartsAreKept

\* A request that begins or ends without a row of the table: the sessions stay.
LEMMA NoSession ==
    ASSUME AccountsInvariant, NEW q \in Procs, NEW r, req' = [req EXCEPT ![q] = r],
           UNCHANGED <<users, tokens>>,
           \/ r = Idle \/ r.kind \notin {"row", "open", "revoke", "review"}
           \/ r.kind = "review" /\ r.at # "write"
    PROVE  /\ \A p \in Procs : req'[p] = IF p = q THEN r ELSE req[p]
           /\ \A u \in Users : SessionStays(u)
<1>1. \A p \in Procs : req'[p] = IF p = q THEN r ELSE req[p]
    BY DEF AccountsInvariant, TypeOK
<1>2. ASSUME NEW u \in Users
      PROVE  SessionStays(u)
    <2>1. users[u] # NoRow => /\ users'[u] # NoRow /\ users'[u].ver >= users[u].ver
                              /\ (users[u].deleted => users'[u].deleted)
        BY <1>2, SameTable
    <2> QED
        BY <1>1, <2>1 DEF SessionStays, SameWork
<1> QED
    BY <1>1, <1>2

\* A registration begins: its id is nobody's.
LEMMA SignUpIsKept ==
    ASSUME AccountsInvariant, TypeOK', NEW q \in Procs, NEW u \in Users, NEW row \in UserRow,
           ~row.enabled, SignsUp(q, u, row)
    PROVE  AccountsInvariant'
<1> DEFINE r == [kind |-> "sign", user |-> u, row |-> row]
<1>1. r.kind = "sign" /\ r.user = u /\ r.row = row
    OBVIOUS
<1>2. /\ req' = [req EXCEPT ![q] = r] /\ Fresh(u)
      /\ UNCHANGED <<users, tokens, invites, guest, kyc, vouched, proven, overlapped>>
    BY DEF SignsUp, Begin, joinVars, checkVars, idle, sessionVars
<1> HIDE DEF r
<1>3. /\ \A p \in Procs : req'[p] = IF p = q THEN r ELSE req[p]
      /\ \A v \in Users : SessionStays(v)
    BY <1>1, <1>2, NoSession
<1>4. ChecksStay
    BY <1>1, <1>2, <1>3 DEF ChecksStay, SameWork
<1>5. JoinsStay
    BY <1>1, <1>2, <1>3 DEF JoinsStay, joinVars, SameWork
<1>6. Owned'
    <2>1. \A p \in Procs : Makes(p)' => (p = q /\ req'[p].user = u) \/
                             (p # q /\ Makes(p) /\ req'[p] = req[p] /\ req[p].user # u)
        BY <1>1, <1>2, <1>3 DEF Makes, Fresh
    <2>2. \A p \in Procs : Uses(p)' => Uses(p) /\ req'[p] = req[p]
        BY <1>1, <1>3 DEF Uses
    <2>3. users[u] = NoRow
        BY <1>2 DEF Fresh
    <2> QED
        BY <1>2, <2>1, <2>2, <2>3 DEF AccountsInvariant, Owned
<1>7. HeldOK'
    <2>1. RowsHeld'
        BY <1>1, <1>2, <1>3 DEF AccountsInvariant, RowsHeld, Carries, Does, At
    <2>2. SecretsProven'
        BY <1>1, <1>2, <1>3
        DEF AccountsInvariant, SecretsProven, EnabledIsProven, Carries
    <2> QED
        BY <2>1, <2>2 DEF HeldOK
<1> QED
    BY <1>2, <1>3, <1>4, <1>5, <1>6, <1>7, PartsAreKept

\* An onboarding begins: its id is nobody's, and its invitation is there.
LEMMA OnboardIsKept ==
    ASSUME AccountsInvariant, TypeOK', NEW q \in Procs, NEW u \in Users, NEW i \in Invites,
           NEW role, Onboard(q, u, i, role)
    PROVE  AccountsInvariant'
<1> DEFINE r == [kind |-> "onboard", user |-> u, number |-> invites[i].number,
                 invite |-> i, role |-> role]
<1>1. r.kind = "onboard" /\ r.user = u /\ r.invite = i
    OBVIOUS
<1>2. /\ req' = [req EXCEPT ![q] = r] /\ Fresh(u) /\ invites[i] # NoRow
      /\ UNCHANGED <<users, tokens, invites, guest, kyc, vouched, proven, overlapped>>
    BY DEF Onboard, Valid, Begin, joinVars, checkVars, idle, sessionVars
<1> HIDE DEF r
<1>3. /\ \A p \in Procs : req'[p] = IF p = q THEN r ELSE req[p]
      /\ \A v \in Users : SessionStays(v)
    BY <1>1, <1>2, NoSession
<1>4. ChecksStay
    BY <1>1, <1>2, <1>3 DEF ChecksStay, SameWork
<1>5. JoinsOK'
    <2>1. InvitesKnown'
        BY <1>1, <1>2, <1>3 DEF AccountsInvariant, InvitesKnown, Does
    <2>2. InvitationAgrees'
        BY <1>2 DEF AccountsInvariant, InvitationAgrees
    <2> QED
        BY <2>1, <2>2 DEF JoinsOK
<1>6. Owned'
    <2>1. \A p \in Procs : Makes(p)' => (p = q /\ req'[p].user = u) \/
                             (p # q /\ Makes(p) /\ req'[p] = req[p] /\ req[p].user # u)
        BY <1>1, <1>2, <1>3 DEF Makes, Fresh
    <2>2. \A p \in Procs : Uses(p)' => Uses(p) /\ req'[p] = req[p]
        BY <1>1, <1>3 DEF Uses
    <2>3. users[u] = NoRow
        BY <1>2 DEF Fresh
    <2> QED
        BY <1>2, <2>1, <2>2, <2>3 DEF AccountsInvariant, Owned
<1>7. RowsStay
    BY <1>1, <1>2, <1>3, SameTable DEF RowsStay, SameWork, AccountsInvariant, RowsHeld
<1> QED
    BY <1>2, <1>3, <1>4, <1>5, <1>6, <1>7, PartsAreKept

\* An invitation is made, or found lapsed: the request begins.
LEMMA InvitingIsKept ==
    ASSUME AccountsInvariant, TypeOK', NEW q \in Procs, NEW i \in Invites, NEW n, NEW role,
           AdminCreateInvitation(q, i, n, role) \/ ValidateInvitation(q, i)
    PROVE  AccountsInvariant'
<1>1. PICK r :
        /\ req' = [req EXCEPT ![q] = r] /\ r.invite = i
        /\ \/ /\ r.kind = "invite" /\ invites[i] = NoRow
              /\ \A p \in Procs : Does(p, "invite") => req[p].invite # i
           \/ r.kind = "expire" /\ invites[i] # NoRow
    <2>1. CASE AdminCreateInvitation(q, i, n, role)
        <3> DEFINE r == [kind |-> "invite", invite |-> i, number |-> n, role |-> role]
        <3>1. /\ req' = [req EXCEPT ![q] = r] /\ invites[i] = NoRow
              /\ \A p \in Procs : Does(p, "invite") => req[p].invite # i
            BY <2>1 DEF AdminCreateInvitation, Begin
        <3>2. r.kind = "invite" /\ r.invite = i
            OBVIOUS
        <3> HIDE DEF r
        <3> QED
            BY <3>1, <3>2
    <2>2. CASE ValidateInvitation(q, i)
        <3> DEFINE r == [kind |-> "expire", invite |-> i]
        <3>1. req' = [req EXCEPT ![q] = r] /\ invites[i] # NoRow
            BY <2>2 DEF ValidateInvitation, Begin
        <3>2. r.kind = "expire" /\ r.invite = i
            OBVIOUS
        <3> HIDE DEF r
        <3> QED
            BY <3>1, <3>2
    <2> QED
        BY <2>1, <2>2
<1>2. UNCHANGED <<users, tokens, invites, guest, kyc, vouched, proven, overlapped>>
    BY DEF AdminCreateInvitation, ValidateInvitation, joinVars, checkVars, idle, sessionVars
<1>3. /\ \A p \in Procs : req'[p] = IF p = q THEN r ELSE req[p]
      /\ \A v \in Users : SessionStays(v)
    BY <1>1, <1>2, NoSession
<1>4. ChecksStay
    BY <1>1, <1>2, <1>3 DEF ChecksStay, SameWork
<1>5. JoinsOK'
    <2>1. InvitesKnown'
        BY <1>1, <1>2, <1>3 DEF AccountsInvariant, InvitesKnown, Does
    <2>2. InvitationAgrees'
        BY <1>2 DEF AccountsInvariant, InvitationAgrees
    <2> QED
        BY <2>1, <2>2 DEF JoinsOK
<1>6. OwnersStay
    BY <1>1, <1>2, <1>3, SameTable DEF OwnersStay, SameWork
<1>7. RowsStay
    BY <1>1, <1>2, <1>3, SameTable DEF RowsStay, SameWork, AccountsInvariant, RowsHeld
<1> QED
    BY <1>2, <1>3, <1>4, <1>5, <1>6, <1>7, PartsAreKept

\* A row of invitations is written: inserted, called expired, or due by now.
LEMMA InvitationIsKept ==
    ASSUME AccountsInvariant, TypeOK',
           \/ \E q \in Procs : InsertInvitation(q) \/ ExpireInvitation(q)
           \/ \E i \in Invites : InvitationLapses(i)
    PROVE  AccountsInvariant'
<1>1. UNCHANGED <<users, tokens, guest, kyc, vouched, proven, overlapped>>
    BY DEF InsertInvitation, ExpireInvitation, InvitationLapses, checkVars, idle,
           sessionVars
<1>2. \A p \in Procs : req'[p] = req[p] \/ req'[p] = Idle
    BY DEF InsertInvitation, ExpireInvitation, InvitationLapses, AtOnce, Done,
           AccountsInvariant, TypeOK
<1>3. ChecksStay
    BY <1>1, <1>2 DEF ChecksStay, SameWork
<1>4. OwnersStay
    BY <1>1, <1>2, SameTable DEF OwnersStay, SameWork
<1>5. RowsStay
    BY <1>1, <1>2, SameTable DEF RowsStay, SameWork, AccountsInvariant, RowsHeld
<1>6. \A u \in Users : SessionStays(u)
    BY <1>1, <1>2, SameTable DEF SessionStays, SameWork
<1>7. JoinsOK'
    <2>1. ASSUME NEW q \in Procs, InsertInvitation(q)
          PROVE  JoinsOK'
        <3>1. PICK i : i = req[q].invite
            OBVIOUS
        <3> DEFINE row == [number |-> req[q].number, role |-> req[q].role,
                           status |-> "pending", due |-> FALSE]
        <3>2. /\ invites' = [invites EXCEPT ![i] = row] /\ Does(q, "invite")
              /\ req' = [req EXCEPT ![q] = Idle]
            BY <2>1, <3>1 DEF InsertInvitation, Done
        <3>3. i \in Invites
            BY <3>1, <3>2, InFlight, JoinFields DEF Does, AccountsInvariant
        <3>4. row \in Invitation
            BY <3>2, InFlight, JoinFields DEF Does, AccountsInvariant, Invitation
        <3>5. row.status = "pending"
            OBVIOUS
        <3>6. row # NoRow
            BY <3>4, SentinelAssumption
        <3> HIDE DEF row
        <3>7. invites[i] = NoRow
            BY <3>1, <3>2 DEF AccountsInvariant, InvitesKnown
        <3>8. \A j \in Invites : invites'[j] = IF j = i THEN row ELSE invites[j]
            BY <3>2, <3>3 DEF AccountsInvariant, TypeOK
        <3>9. \A p \in Procs : req'[p] = IF p = q THEN Idle ELSE req[p]
            BY <3>2 DEF AccountsInvariant, TypeOK
        <3>10. \A p \in Procs : p # q /\ Does(p, "invite") =>
                req[p].invite # i /\ req[p].invite \in Invites
            BY <3>1, <3>2, InFlight, JoinFields DEF AccountsInvariant, InvitesKnown, Does
        <3>11. \A p \in Procs : Does(p, "onboard") \/ Does(p, "expire") =>
                req[p].invite \in Invites
            BY InFlight, JoinFields DEF AccountsInvariant, Does
        <3>12. \A u \in Users : guest[u] # Nobody => guest[u] \in Invites /\ guest[u] # i
            BY <3>7 DEF AccountsInvariant, InvitesKnown, TypeOK
        <3>13. InvitesKnown'
            <4>1. \A p \in Procs : Does(p, "invite")' => p # q /\ Does(p, "invite") /\
                                    req'[p] = req[p]
                BY <3>9 DEF Does
            <4>2. \A p \in Procs : (Does(p, "onboard") \/ Does(p, "expire"))' =>
                    (Does(p, "onboard") \/ Does(p, "expire")) /\ req'[p] = req[p]
                BY <3>9 DEF Does
            <4>3. \A p \in Procs : Does(p, "invite")' => invites'[req'[p].invite] = NoRow
                BY <3>8, <3>10, <4>1 DEF AccountsInvariant, InvitesKnown
            <4>4. \A o, p \in Procs :
                    Does(o, "invite")' /\ Does(p, "invite")' /\ req'[o].invite = req'[p].invite
                        => o = p
                BY <4>1 DEF AccountsInvariant, InvitesKnown
            <4>5. \A p \in Procs : (Does(p, "onboard") \/ Does(p, "expire"))' =>
                    invites'[req'[p].invite] # NoRow
                BY <3>6, <3>8, <3>11, <4>2 DEF AccountsInvariant, InvitesKnown
            <4>6. \A u \in Users : guest'[u] # Nobody => invites'[guest'[u]] # NoRow
                BY <1>1, <3>8, <3>12 DEF AccountsInvariant, InvitesKnown
            <4> QED
                BY <4>3, <4>4, <4>5, <4>6 DEF InvitesKnown
        <3>14. InvitationAgrees'
            <4>1. \A u \in Users : guest[u] # i
                BY <3>3, <3>12, AccountsAssumption
            <4> QED
                BY <1>1, <3>5, <3>8, <4>1 DEF AccountsInvariant, InvitationAgrees
        <3> QED
            BY <3>13, <3>14 DEF JoinsOK
    <2>2. ASSUME NEW i \in Invites, NEW row \in Invitation, invites[i] # NoRow,
                 invites' = [invites EXCEPT ![i] = row],
                 row.status \in {"expired", invites[i].status},
                 \A p \in Procs : req'[p] = req[p] \/ req'[p] = Idle
          PROVE  JoinsOK'
        <3>1. row # NoRow
            BY <2>2, SentinelAssumption
        <3>2. \A j \in Invites : invites'[j] = IF j = i THEN row ELSE invites[j]
            BY <2>2 DEF AccountsInvariant, TypeOK
        <3>3. \A j \in Invites : invites'[j] = NoRow <=> invites[j] = NoRow
            BY <2>2, <3>1, <3>2
        <3>4. \A p \in Procs :
                Does(p, "invite") \/ Does(p, "onboard") \/ Does(p, "expire") =>
                    req[p].invite \in Invites
            BY InFlight, JoinFields DEF AccountsInvariant, Does
        <3>5. \A p \in Procs, k \in {"invite", "onboard", "expire"} :
                Does(p, k)' => Does(p, k) /\ req'[p] = req[p]
            BY <2>2 DEF Does
        <3>6. InvitesKnown'
            <4>1. \A u \in Users : guest'[u] # Nobody => invites'[guest'[u]] # NoRow
                BY <1>1, <3>3 DEF AccountsInvariant, InvitesKnown, TypeOK
            <4> QED
                BY <3>3, <3>4, <3>5, <4>1 DEF AccountsInvariant, InvitesKnown
        <3>7. InvitationAgrees'
            BY <1>1, <2>2, <3>2 DEF AccountsInvariant, InvitationAgrees
        <3> QED
            BY <3>6, <3>7 DEF JoinsOK
    <2>3. ASSUME NEW q \in Procs, ExpireInvitation(q)
          PROVE  JoinsOK'
        <3>1. PICK i : i = req[q].invite
            OBVIOUS
        <3>2. i \in Invites /\ invites[i] # NoRow
            BY <2>3, <3>1, InFlight, JoinFields
            DEF ExpireInvitation, Does, AccountsInvariant, InvitesKnown
        <3>3. invites[i] \in Invitation
            BY <3>2 DEF AccountsInvariant, TypeOK
        <3> DEFINE row == [invites[i] EXCEPT !.status = "expired"]
        <3>4. row \in Invitation /\ row.status = "expired"
            BY <3>3 DEF Invitation
        <3>5. invites' = [invites EXCEPT ![i] = row]
            BY <2>3, <3>1 DEF ExpireInvitation
        <3> HIDE DEF row
        <3> QED
            BY <1>2, <2>2, <3>2, <3>4, <3>5
    <2>4. ASSUME NEW i \in Invites, InvitationLapses(i)
          PROVE  JoinsOK'
        <3>1. invites[i] # NoRow /\ invites[i] \in Invitation
            BY <2>4 DEF InvitationLapses, AccountsInvariant, TypeOK
        <3> DEFINE row == [invites[i] EXCEPT !.due = TRUE]
        <3>2. row \in Invitation /\ row.status = invites[i].status
            BY <3>1 DEF Invitation
        <3>3. invites' = [invites EXCEPT ![i] = row]
            BY <2>4 DEF InvitationLapses
        <3> HIDE DEF row
        <3> QED
            BY <1>2, <2>2, <3>1, <3>2, <3>3
    <2> QED
        BY <2>1, <2>3, <2>4
<1> QED
    BY <1>1, <1>3, <1>4, <1>5, <1>6, <1>7, PartsAreKept

\* A request that makes an account ends: what nobody else works on, nobody loses.
LEMMA MakerEnds ==
    ASSUME AccountsInvariant, NEW q \in Procs, Makes(q), req' = [req EXCEPT ![q] = Idle]
    PROVE  /\ \A p \in Procs : req'[p] = IF p = q THEN Idle ELSE req[p]
           /\ req[q].user \in Users /\ users[req[q].user] = NoRow
           /\ kyc[req[q].user] = <<>> /\ guest[req[q].user] = Nobody
           /\ \A p \in Procs : Makes(p)' => /\ Makes(p) /\ req'[p] = req[p]
                                            /\ req[p].user \in Users \ {req[q].user}
           /\ \A p \in Procs : Uses(p) => req[p].user \in Users \ {req[q].user}
           /\ \A p \in Procs : Uses(p)' => Uses(p) /\ req'[p] = req[p]
           /\ \A t \in tokens : t.user \in Users \ {req[q].user}
<1>1. \A p \in Procs : req'[p] = IF p = q THEN Idle ELSE req[p]
    BY DEF AccountsInvariant, TypeOK
<1>2. \A p \in Procs : Makes(p) => req[p].user \in Users
    BY InFlight, JoinFields DEF Makes, AccountsInvariant
<1>3. \A p \in Procs : Uses(p) => req[p].user \in Users
    BY InFlight, WritingFields, PlainFields, ReviewFields, GuessFields
    DEF Uses, AccountsInvariant
<1>4. \A t \in tokens : t.user \in Users
    BY DEF AccountsInvariant, TypeOK, Token
<1>5. users[req[q].user] = NoRow
    BY DEF AccountsInvariant, Owned
<1>6. kyc[req[q].user] = <<>> /\ guest[req[q].user] = Nobody
    BY <1>2, <1>5 DEF AccountsInvariant, Owned
<1>7. \A p \in Procs : Makes(p)' => /\ Makes(p) /\ req'[p] = req[p]
                                    /\ req[p].user \in Users \ {req[q].user}
    BY <1>1, <1>2 DEF AccountsInvariant, Owned, Makes
<1>8. \A p \in Procs : Uses(p) => req[p].user \in Users \ {req[q].user}
    BY <1>3, <1>5 DEF AccountsInvariant, Owned
<1>9. \A p \in Procs : Uses(p)' => Uses(p) /\ req'[p] = req[p]
    BY <1>1 DEF Uses
<1>10. \A t \in tokens : t.user \in Users \ {req[q].user}
    BY <1>4, <1>5 DEF AccountsInvariant, Owned
<1> QED
    BY <1>1, <1>2, <1>5, <1>6, <1>7, <1>8, <1>9, <1>10

\* A new row in the table: what hangs on accounts, and the sessions.
LEMMA NewRowIsKept ==
    ASSUME AccountsInvariant, NEW q \in Procs, Makes(q), req' = [req EXCEPT ![q] = Idle],
           NEW row \in UserRow, users' = [users EXCEPT ![req[q].user] = row],
           row.enabled => row.secret \in proven,
           UNCHANGED <<tokens, proven, overlapped>>,
           \A u \in Users : u # req[q].user => kyc'[u] = kyc[u] /\ guest'[u] = guest[u]
    PROVE  /\ Owned' /\ RowsStay
           /\ \A u \in Users : SessionStays(u)
<1>1. PICK v \in Users : v = req[q].user
    BY MakerEnds
<1>2. \A u \in Users : users'[u] = IF u = v THEN row ELSE users[u]
    BY <1>1 DEF AccountsInvariant, TypeOK
<1>3. row # NoRow
    BY SentinelAssumption
<1>4. Owned'
    <2>6. \A p \in Procs : Makes(p)' => /\ Makes(p) /\ req'[p] = req[p]
                                        /\ req[p].user \in Users \ {v}
        BY <1>1, MakerEnds
    <2>7. \A p \in Procs : Uses(p)' => /\ Uses(p) /\ req'[p] = req[p]
                                       /\ req[p].user \in Users \ {v}
        BY <1>1, MakerEnds
    <2>1. \A p \in Procs : Makes(p)' => users'[req'[p].user] = NoRow
        BY <1>2, <2>6 DEF AccountsInvariant, Owned
    <2>2. \A o, p \in Procs : Makes(o)' /\ Makes(p)' /\ req'[o].user = req'[p].user => o = p
        BY <2>6 DEF AccountsInvariant, Owned
    <2>3. \A p \in Procs : Uses(p)' => users'[req'[p].user] # NoRow
        BY <1>2, <2>7 DEF AccountsInvariant, Owned
    <2>4. \A t \in tokens' : users'[t.user] # NoRow
        BY <1>1, <1>2, MakerEnds DEF AccountsInvariant, Owned
    <2>5. \A u \in Users : kyc'[u] # <<>> \/ guest'[u] # Nobody => users'[u] # NoRow
        BY <1>1, <1>2, <1>3 DEF AccountsInvariant, Owned
    <2> QED
        BY <2>1, <2>2, <2>3, <2>4, <2>5 DEF Owned
<1>5. RowsStay
    <2>1. \A u \in Users :
            users'[u] # NoRow /\ users'[u].enabled => users'[u].secret \in proven'
        BY <1>2 DEF AccountsInvariant, SecretsProven, EnabledIsProven
    <2> QED
        BY <2>1, MakerEnds DEF RowsStay, SameWork, AccountsInvariant, RowsHeld
<1>6. ASSUME NEW u \in Users
      PROVE  SessionStays(u)
    <2>1. users[v] = NoRow
        BY <1>1, MakerEnds
    <2>2. users[u] # NoRow => users'[u] = users[u] /\ users[u].ver \in Nat
        BY <1>2, <2>1 DEF AccountsInvariant, TypeOK, UserRow
    <2>3. \A p \in Procs : req'[p] \in {req[p], Idle}
        BY MakerEnds
    <2> QED
        BY <2>2, <2>3 DEF SessionStays, SameWork
<1> QED
    BY <1>4, <1>5, <1>6

\* A request that made no account ends.
LEMMA RefusedIsKept ==
    ASSUME AccountsInvariant, TypeOK', NEW q \in Procs, req' = [req EXCEPT ![q] = Idle],
           UNCHANGED <<users, tokens, invites, guest, kyc, vouched, proven, overlapped>>
    PROVE  AccountsInvariant'
<1>1. Quiet
    BY DEF Quiet, joinVars, checkVars, AccountsInvariant, TypeOK
<1> QED
    BY <1>1, QuietIsKept

\* The row of a registration is inserted, unless the number was taken meanwhile.
LEMMA InsertIsKept ==
    ASSUME AccountsInvariant, TypeOK', NEW q \in Procs, InsertUser(q)
    PROVE  AccountsInvariant'
<1>1. /\ Makes(q) /\ Carries(q) /\ req' = [req EXCEPT ![q] = Idle]
      /\ UNCHANGED <<tokens, kyc, invites, guest, proven, overlapped>>
    BY DEF InsertUser, Does, Makes, Carries, Done, joinVars, idle, sessionVars
<1>2. CASE Taken(req[q].row.number)
    BY <1>1, <1>2, RefusedIsKept DEF InsertUser
<1>3. CASE ~Taken(req[q].row.number)
    <2>1. /\ users' = [users EXCEPT ![req[q].user] = req[q].row]
          /\ vouched \subseteq vouched'
        BY <1>3 DEF InsertUser
    <2>2. /\ req[q].row \in UserRow
          /\ (req[q].row.enabled => req[q].row.secret \in proven)
        BY <1>1 DEF AccountsInvariant, RowsHeld, SecretsProven
    <2>3. Owned' /\ RowsStay /\ \A u \in Users : SessionStays(u)
        BY <1>1, <2>1, <2>2, NewRowIsKept
    <2>4. \A p \in Procs : req'[p] = req[p] \/ req'[p] = Idle
        BY <1>1 DEF AccountsInvariant, TypeOK
    <2>5. ChecksStay
        BY <1>1, <2>1, <2>4 DEF ChecksStay, SameWork
    <2>6. JoinsStay
        BY <1>1, <2>4 DEF JoinsStay, joinVars, SameWork
    <2> QED
        BY <1>1, <2>3, <2>5, <2>6, PartsAreKept
<1> QED
    BY <1>2, <1>3

\* An account made with an invitation, what comes with it, and the invitation used.
LEMMA RegisterIsKept ==
    ASSUME AccountsInvariant, TypeOK', NEW q \in Procs, NEW role,
           NEW submissions \in {<<>>, <<NewSubmission>>}, Registers(q, role, submissions)
    PROVE  AccountsInvariant'
<1>1. /\ Makes(q) /\ Does(q, "onboard") /\ req' = [req EXCEPT ![q] = Idle]
      /\ UNCHANGED <<tokens, vouched, proven, overlapped>>
    BY DEF Registers, Does, Makes, Done, idle, sessionVars
<1>2. CASE Taken(req[q].number)
    BY <1>1, <1>2, RefusedIsKept DEF Registers, joinVars
<1>3. CASE ~Taken(req[q].number)
    <2>1. PICK v \in Users : v = req[q].user
        BY <1>1, MakerEnds
    <2>2. PICK i \in Invites : i = req[q].invite
        BY <1>1, InFlight, JoinFields DEF Does, AccountsInvariant
    <2>3. /\ users' = [users EXCEPT ![v] = NewRow(req[q].number, Web, FALSE)]
          /\ kyc' = [kyc EXCEPT ![v] = submissions]
          /\ invites' = [invites EXCEPT ![i].status = "used"]
          /\ guest' = [guest EXCEPT ![v] = i]
        BY <1>3, <2>1, <2>2 DEF Registers, MarkedUsed
    <2>4. /\ NewRow(req[q].number, Web, FALSE) \in UserRow
          /\ ~NewRow(req[q].number, Web, FALSE).enabled
        BY <1>1, InFlight, JoinFields, NewRows DEF Does, AccountsInvariant
    <2>5. /\ \A u \in Users : kyc'[u] = IF u = v THEN submissions ELSE kyc[u]
          /\ \A u \in Users : guest'[u] = IF u = v THEN i ELSE guest[u]
        BY <2>3 DEF AccountsInvariant, TypeOK
    <2>6. Owned' /\ RowsStay /\ \A u \in Users : SessionStays(u)
        <3> DEFINE row == NewRow(req[q].number, Web, FALSE)
        <3>1. row \in UserRow /\ (row.enabled => row.secret \in proven)
            BY <2>4
        <3>2. users' = [users EXCEPT ![req[q].user] = row]
            BY <2>1, <2>3
        <3>3. \A u \in Users : u # req[q].user => kyc'[u] = kyc[u] /\ guest'[u] = guest[u]
            BY <2>1, <2>5
        <3> HIDE DEF row
        <3> QED
            BY <1>1, <3>1, <3>2, <3>3, NewRowIsKept
    <2>7. /\ invites[i] # NoRow /\ invites[i] \in Invitation
        BY <1>1, <2>2 DEF AccountsInvariant, InvitesKnown, TypeOK
    <2> DEFINE used == [invites[i] EXCEPT !.status = "used"]
    <2>8. used \in Invitation /\ used.status = "used"
        BY <2>7 DEF Invitation
    <2>9. \A j \in Invites : invites'[j] = IF j = i THEN used ELSE invites[j]
        BY <2>3 DEF AccountsInvariant, TypeOK
    <2>10. used # NoRow
        BY <2>8, SentinelAssumption
    <2> HIDE DEF used
    <2>11. \A p \in Procs : req'[p] = IF p = q THEN Idle ELSE req[p]
        BY <1>1, MakerEnds
    <2>12. JoinsOK'
        <3>1. \A j \in Invites : invites'[j] = NoRow <=> invites[j] = NoRow
            BY <2>7, <2>9, <2>10
        <3>2. \A p \in Procs :
                Does(p, "invite") \/ Does(p, "onboard") \/ Does(p, "expire") =>
                    req[p].invite \in Invites
            BY InFlight, JoinFields DEF AccountsInvariant, Does
        <3>3. \A p \in Procs, k \in {"invite", "onboard", "expire"} :
                Does(p, k)' => Does(p, k) /\ req'[p] = req[p]
            BY <2>11 DEF Does
        <3>4. \A u \in Users : guest'[u] # Nobody => invites'[guest'[u]] # NoRow
            BY <2>5, <2>7, <3>1 DEF AccountsInvariant, InvitesKnown, TypeOK
        <3>5. InvitesKnown'
            BY <3>1, <3>2, <3>3, <3>4 DEF AccountsInvariant, InvitesKnown
        <3>6. guest[v] = Nobody
            BY <1>1, <2>1, MakerEnds
        <3>7. ASSUME NEW j \in Invites, invites'[j] # NoRow
              PROVE  /\ invites'[j].status = "used" => \E u \in Users : guest'[u] = j
                     /\ (\E u \in Users : guest'[u] = j) => invites'[j].status # "pending"
            <4>1. CASE j = i
                BY <2>5, <2>8, <2>9, <4>1
            <4>2. CASE j # i
                <5>1. invites'[j] = invites[j] /\ invites[j] # NoRow /\ j # Nobody
                    BY <2>9, <3>7, <4>2, AccountsAssumption
                <5>2. \A u \in Users : guest'[u] = j <=> guest[u] = j
                    BY <2>5, <3>6, <4>2, <5>1
                <5> QED
                    BY <5>1, <5>2 DEF AccountsInvariant, InvitationAgrees
            <4> QED
                BY <4>1, <4>2
        <3>8. InvitationAgrees'
            BY <3>7 DEF InvitationAgrees
        <3> QED
            BY <3>5, <3>8 DEF JoinsOK
    <2>13. ChecksOK'
        <3>1. \A n \in DOMAIN submissions : submissions[n] = NewSubmission
            OBVIOUS
        <3>2. NewSubmission.status = "pending" /\ NewSubmission.photos
            BY DEF NewSubmission
        <3>3. \A p \in Procs : Does(p, "review")' =>
                Does(p, "review") /\ req'[p] = req[p] /\ req[p].user \in Users \ {v}
            BY <1>1, <2>1, <2>11, MakerEnds DEF Does, Uses
        <3>4. ReviewsKnown'
            BY <1>1, <2>5, <3>3 DEF AccountsInvariant, ReviewsKnown
        <3>5. PendingHasPhotos'
            BY <2>5, <3>1, <3>2 DEF AccountsInvariant, PendingHasPhotos
        <3>6. ApprovedIsVouched'
            BY <1>1, <2>5, <3>1, <3>2 DEF AccountsInvariant, ApprovedIsVouched
        <3> QED
            BY <3>4, <3>5, <3>6 DEF ChecksOK
    <2> QED
        BY <1>1, <2>6, <2>12, <2>13, PartsAreKept
<1> QED
    BY <1>2, <1>3

\* The submissions of one user change.
LEMMA ChecksOfOne ==
    ASSUME AccountsInvariant, NEW v \in Users, NEW s, kyc' = [kyc EXCEPT ![v] = s],
           DOMAIN kyc[v] \subseteq DOMAIN s, vouched \subseteq vouched',
           \A n \in DOMAIN s : /\ s[n].status = "pending" => s[n].photos
                               /\ s[n].status = "approved" => v \in vouched,
           \A p \in Procs :
            req'[p] = req[p] \/ req'[p] = Idle \/ req'[p].kind # "review"
    PROVE  ChecksOK'
<1>1. \A u \in Users : kyc'[u] = IF u = v THEN s ELSE kyc[u]
    BY DEF AccountsInvariant, TypeOK
<1>2. ReviewsKnown'
    <2>1. \A p \in Procs : Does(p, "review")' =>
            Does(p, "review") /\ req'[p] = req[p] /\ req[p].user \in Users
        BY InFlight, ReviewFields DEF Does, AccountsInvariant
    <2> QED
        BY <1>1, <2>1 DEF AccountsInvariant, ReviewsKnown
<1>3. PendingHasPhotos'
    BY <1>1 DEF AccountsInvariant, PendingHasPhotos
<1>4. ApprovedIsVouched'
    BY <1>1 DEF AccountsInvariant, ApprovedIsVouched
<1> QED
    BY <1>2, <1>3, <1>4 DEF ChecksOK

\* Submissions that wait have their photos, and one that is approved is vouched for.
LEMMA SubmissionsOf ==
    ASSUME AccountsInvariant, NEW v \in Users
    PROVE  /\ kyc[v] \in Seq(Submission)
           /\ \A n \in DOMAIN kyc[v] :
                /\ kyc[v][n] \in Submission
                /\ kyc[v][n].status = "pending" => kyc[v][n].photos
                /\ kyc[v][n].status = "approved" => v \in vouched
<1>1. kyc[v] \in Seq(Submission)
    BY DEF AccountsInvariant, TypeOK
<1> QED
    BY <1>1 DEF AccountsInvariant, PendingHasPhotos, ApprovedIsVouched

\* One submission of a sequence changed.
LEMMA OneSubmission ==
    ASSUME NEW s \in Seq(Submission), NEW n \in DOMAIN s
    PROVE  /\ DOMAIN [s EXCEPT ![n].photos = FALSE] = DOMAIN s
           /\ \A m \in DOMAIN s :
                LET t == [s EXCEPT ![n].photos = FALSE]
                IN  t[m].status = s[m].status /\ (m # n => t[m] = s[m])
           /\ \A status : /\ DOMAIN [s EXCEPT ![n].status = status] = DOMAIN s
                          /\ \A m \in DOMAIN s :
                                LET t == [s EXCEPT ![n].status = status]
                                IN  /\ m # n => t[m] = s[m]
                                    /\ m = n => t[m].status = status
<1>1. \A m \in DOMAIN s : s[m] \in Submission
    OBVIOUS
<1>2. DOMAIN s = 1 .. Len(s) /\ s = [m \in 1 .. Len(s) |-> s[m]]
    OBVIOUS
<1> QED
    BY <1>1, <1>2 DEF Submission

\* A submission is begun, inserted, or closed by a review.
LEMMA SubmissionIsKept ==
    ASSUME AccountsInvariant, TypeOK', NEW q \in Procs,
           \/ \E u \in Users : Submit(q, u)
           \/ InsertSubmission(q) \/ CloseReview(q)
    PROVE  AccountsInvariant'
<1>1. UNCHANGED <<users, tokens, invites, guest, vouched, proven, overlapped>>
    BY DEF Submit, InsertSubmission, CloseReview, joinVars, idle, sessionVars
<1>2. PICK r :
        /\ req' = [req EXCEPT ![q] = r]
        /\ \/ r = Idle
           \/ r.kind = "submit" /\ r.user \in Users /\ users[r.user] # NoRow
    <2>1. ASSUME NEW u \in Users, Submit(q, u)
          PROVE  /\ req' = [req EXCEPT ![q] = [kind |-> "submit", user |-> u]]
                 /\ users[u] # NoRow
        BY <2>1 DEF Submit, Begin, Found
    <2>2. InsertSubmission(q) \/ CloseReview(q) => req' = [req EXCEPT ![q] = Idle]
        BY DEF InsertSubmission, CloseReview, Done
    <2> QED
        BY <2>1, <2>2
<1>3. /\ \A p \in Procs : req'[p] = IF p = q THEN r ELSE req[p]
      /\ \A u \in Users : SessionStays(u)
    BY <1>1, <1>2, NoSession
<1>4. JoinsStay
    BY <1>1, <1>2, <1>3 DEF JoinsStay, joinVars, SameWork
<1>5. RowsStay
    BY <1>1, <1>2, <1>3, SameTable DEF RowsStay, SameWork, AccountsInvariant, RowsHeld
<1>6. \A p \in Procs : req'[p] = req[p] \/ req'[p] = Idle \/ req'[p].kind # "review"
    BY <1>2, <1>3
<1>7. ASSUME kyc' = kyc
      PROVE  OwnersStay /\ ChecksStay
    <2>1. OwnersStay
        BY <1>1, <1>2, <1>3, <1>7, SameTable DEF OwnersStay, SameWork
    <2>2. ChecksStay
        BY <1>1, <1>6, <1>7 DEF ChecksStay, SameWork
    <2> QED
        BY <2>1, <2>2
<1>8. ASSUME NEW v \in Users, NEW s, kyc' = [kyc EXCEPT ![v] = s], users[v] # NoRow
      PROVE  OwnersStay
    <2>1. \A u \in Users : kyc'[u] # <<>> => kyc[u] # <<>> \/ users[u] # NoRow
        BY <1>8 DEF AccountsInvariant, TypeOK
    <2> QED
        BY <1>1, <1>2, <1>3, <2>1, SameTable DEF OwnersStay, SameWork
<1>9. (OwnersStay /\ ChecksStay) \/ (OwnersStay /\ ChecksOK')
    <2>1. ASSUME NEW v \in Users, Submit(q, v)
          PROVE  (OwnersStay /\ ChecksStay) \/ (OwnersStay /\ ChecksOK')
        <3>1. CASE kyc[v] = <<>>
            BY <1>7, <2>1, <3>1 DEF Submit
        <3>2. CASE kyc[v] # <<>>
            <4>1. kyc[v] \in Seq(Submission)
                BY SubmissionsOf
            <4> DEFINE n == Len(kyc[v])
                       s == [kyc[v] EXCEPT ![n].photos = FALSE]
            <4>2. n \in DOMAIN kyc[v]
                BY <3>2, <4>1
            <4>3. kyc[v][n].status = "rejected" /\ users[v] # NoRow
                BY <2>1, <3>2 DEF Submit, MaySubmit, Latest, Found
            <4>4. kyc' = [kyc EXCEPT ![v] = s]
                BY <2>1, <3>2 DEF Submit, AccountsInvariant, TypeOK
            <4>5. /\ DOMAIN s = DOMAIN kyc[v]
                  /\ \A m \in DOMAIN kyc[v] :
                        s[m].status = kyc[v][m].status /\ (m # n => s[m] = kyc[v][m])
                BY <4>1, <4>2, OneSubmission
            <4> HIDE DEF s, n
            <4>6. \A m \in DOMAIN s : /\ s[m].status = "pending" => s[m].photos
                                      /\ s[m].status = "approved" => v \in vouched
                <5> TAKE m \in DOMAIN s
                <5>1. CASE m = n
                    BY <4>3, <4>5, <5>1
                <5>2. CASE m # n
                    BY <4>5, <5>2, SubmissionsOf
                <5> QED
                    BY <5>1, <5>2
            <4>7. ChecksOK'
                BY <1>1, <1>6, <4>4, <4>5, <4>6, ChecksOfOne
            <4> QED
                BY <1>8, <4>3, <4>4, <4>7
        <3> QED
            BY <3>1, <3>2
    <2>2. ASSUME InsertSubmission(q)
          PROVE  (OwnersStay /\ ChecksStay) \/ (OwnersStay /\ ChecksOK')
        <3>1. CASE kyc' = kyc
            BY <1>7, <3>1
        <3>2. CASE kyc' # kyc
            <4>1. PICK v \in Users : v = req[q].user
                BY <2>2, InFlight, PlainFields DEF InsertSubmission, Does, AccountsInvariant
            <4>2. users[v] # NoRow
                BY <2>2, <4>1 DEF InsertSubmission, Does, AccountsInvariant, Owned, Uses
            <4> DEFINE s == Append(kyc[v], NewSubmission)
            <4>3. kyc' = [kyc EXCEPT ![v] = s]
                BY <2>2, <3>2, <4>1 DEF InsertSubmission
            <4>4. kyc[v] \in Seq(Submission) /\ NewSubmission \in Submission
                BY SubmissionsOf DEF NewSubmission, Submission
            <4>5. /\ DOMAIN s = 1 .. Len(kyc[v]) + 1 /\ DOMAIN kyc[v] = 1 .. Len(kyc[v])
                  /\ \A m \in 1 .. Len(kyc[v]) : s[m] = kyc[v][m]
                  /\ s[Len(kyc[v]) + 1] = NewSubmission /\ Len(kyc[v]) \in Nat
                BY <4>4, AppendProperties
            <4> HIDE DEF s
            <4>6. \A m \in DOMAIN s : m \in DOMAIN kyc[v] \/ m = Len(kyc[v]) + 1
                BY <4>5
            <4>7. NewSubmission.status = "pending" /\ NewSubmission.photos
                BY DEF NewSubmission
            <4>8. \A m \in DOMAIN s : /\ s[m].status = "pending" => s[m].photos
                                      /\ s[m].status = "approved" => v \in vouched
                BY <4>5, <4>6, <4>7, SubmissionsOf
            <4>9. DOMAIN kyc[v] \subseteq DOMAIN s
                BY <4>5
            <4>10. ChecksOK'
                BY <1>1, <1>6, <4>3, <4>8, <4>9, ChecksOfOne
            <4> QED
                BY <1>8, <4>2, <4>3, <4>10
        <3> QED
            BY <3>1, <3>2
    <2>3. ASSUME CloseReview(q)
          PROVE  (OwnersStay /\ ChecksStay) \/ (OwnersStay /\ ChecksOK')
        <3>1. CASE kyc' = kyc
            BY <1>7, <3>1
        <3>2. CASE kyc' # kyc
            <4>1. PICK v \in Users : v = req[q].user
                BY <2>3, InFlight, ReviewFields DEF CloseReview, At, Does, AccountsInvariant
            <4>2. PICK n : n = req[q].n
                OBVIOUS
            <4>3. PICK status : status = req[q].status
                OBVIOUS
            <4>4. /\ users[v] # NoRow /\ n \in DOMAIN kyc[v]
                  /\ status \in {"approved", "rejected"}
                  /\ (status = "approved" => v \in vouched)
                BY <2>3, <4>1, <4>2, <4>3, InFlight, ReviewFields
                DEF CloseReview, At, Does, AccountsInvariant, Owned, Uses, ReviewsKnown
            <4> DEFINE s == [kyc[v] EXCEPT ![n].status = status]
            <4>5. kyc' = [kyc EXCEPT ![v] = s]
                BY <2>3, <3>2, <4>1, <4>2, <4>3
                DEF CloseReview, AccountsInvariant, TypeOK
            <4>6. /\ DOMAIN s = DOMAIN kyc[v]
                  /\ \A m \in DOMAIN kyc[v] : /\ m # n => s[m] = kyc[v][m]
                                              /\ m = n => s[m].status = status
                BY <4>4, SubmissionsOf, OneSubmission
            <4> HIDE DEF s
            <4>7. \A m \in DOMAIN s : /\ s[m].status = "pending" => s[m].photos
                                      /\ s[m].status = "approved" => v \in vouched
                <5> TAKE m \in DOMAIN s
                <5>1. CASE m = n
                    BY <4>4, <4>6, <5>1
                <5>2. CASE m # n
                    BY <4>6, <5>2, SubmissionsOf
                <5> QED
                    BY <5>1, <5>2
            <4>8. ChecksOK'
                BY <1>1, <1>6, <4>5, <4>6, <4>7, ChecksOfOne
            <4> QED
                BY <1>8, <4>4, <4>5, <4>8
        <3> QED
            BY <3>1, <3>2
    <2> QED
        BY <2>1, <2>2, <2>3
<1> QED
    BY <1>1, <1>3, <1>4, <1>5, <1>9, PartsAreKept

\* A review begins.
LEMMA ReviewBeginIsKept ==
    ASSUME AccountsInvariant, TypeOK', NEW q \in Procs, NEW u \in Users,
           NEW n \in DOMAIN kyc[u], NEW status \in {"approved", "rejected"},
           Review(q, u, n, status)
    PROVE  AccountsInvariant'
<1> DEFINE r == [kind |-> "review", user |-> u, at |-> ReviewStep(status), row |-> NoRow,
                 n |-> n, status |-> status]
<1>1. /\ r.kind = "review" /\ r.user = u /\ r.n = n /\ r.status = status /\ r.at # "write"
      /\ (r.at = "close" => status = "rejected")
    BY DEF ReviewStep
<1>2. /\ req' = [req EXCEPT ![q] = r] /\ n \in DOMAIN kyc[u]
      /\ UNCHANGED <<users, tokens, invites, guest, kyc, vouched, proven, overlapped>>
    BY DEF Review, Begin, joinVars, checkVars, idle, sessionVars
<1> HIDE DEF r
<1>3. /\ \A p \in Procs : req'[p] = IF p = q THEN r ELSE req[p]
      /\ \A v \in Users : SessionStays(v)
    BY <1>1, <1>2, NoSession
<1>4. kyc[u] # <<>> /\ users[u] # NoRow
    <2>1. kyc[u] # <<>>
        BY <1>2
    <2> QED
        BY <2>1 DEF AccountsInvariant, Owned
<1>5. ChecksOK'
    <2>1. ReviewsKnown'
        BY <1>1, <1>2, <1>3 DEF AccountsInvariant, ReviewsKnown, Does
    <2>2. PendingHasPhotos' /\ ApprovedIsVouched'
        BY <1>2 DEF AccountsInvariant, PendingHasPhotos, ApprovedIsVouched
    <2> QED
        BY <2>1, <2>2 DEF ChecksOK
<1>6. JoinsStay
    BY <1>1, <1>2, <1>3 DEF JoinsStay, joinVars, SameWork
<1>7. OwnersStay
    BY <1>1, <1>2, <1>3, <1>4, SameTable DEF OwnersStay, SameWork
<1>8. RowsStay
    BY <1>1, <1>2, <1>3, SameTable DEF RowsStay, SameWork, AccountsInvariant, RowsHeld
<1> QED
    BY <1>2, <1>3, <1>5, <1>6, <1>7, <1>8, PartsAreKept

\* An approval reads the row it will write as verified.
LEMMA ReviewReadIsKept ==
    ASSUME AccountsInvariant, TypeOK', NEW q \in Procs, ReadReviewed(q)
    PROVE  AccountsInvariant'
<1>1. PICK u \in Users : u = req[q].user
    BY InFlight, ReviewFields DEF ReadReviewed, At, Does, AccountsInvariant
<1>2. /\ req[q] \in Request /\ req[q].kind = "review" /\ req[q].at = "read"
      /\ Does(q, "review")
      /\ UNCHANGED <<users, tokens, invites, guest, kyc, vouched, proven>>
    BY InFlight
    DEF ReadReviewed, At, Does, AccountsInvariant, joinVars, checkVars, sessionVars
<1>3. CASE ~Found(u)
    BY <1>1, <1>2, <1>3, RefusedIsKept DEF ReadReviewed, Done
<1>4. CASE Found(u)
    <2>1. users[u] \in UserRow /\ users[u] # NoRow
        BY <1>4 DEF Found, AccountsInvariant, TypeOK
    <2>2. PICK row \in UserRow :
            row = Verified(users[u], TRUE) /\ Keeps(row, users[u])
        BY <2>1, RowsAreKept DEF Keeps
    <2> DEFINE r == [req[q] EXCEPT !.at = "write", !.row = row]
    <2>3. req' = [req EXCEPT ![q] = r] /\ Overlap(u)
        BY <1>1, <1>4, <2>2 DEF ReadReviewed, AccountsInvariant, TypeOK
    <2>4. /\ r \in Request /\ r.kind = "review" /\ r.user = u /\ r.at = "write" /\ r.row = row
          /\ r.n = req[q].n
        <3>1. req[q] \in Reviewing
            BY <1>2, KindsOfRequest
        <3>2. r \in Request
            BY <1>2, ReviewFields
        <3> QED
            BY <1>1, <3>1, <3>2 DEF Reviewing
    <2> HIDE DEF r
    <2>5. \A p \in Procs : req'[p] = IF p = q THEN r ELSE req[p]
        BY <2>3 DEF AccountsInvariant, TypeOK
    <2>6. ~Holds(q, u)
        BY <1>2 DEF Holds
    <2>7. /\ overlapped \subseteq overlapped'
          /\ \A v \in Users \ overlapped' : SessionStays(v) \/ OfOne(v)'
        BY <1>2, <1>4, <2>2, <2>3, <2>4, <2>6, TakingUp DEF Keeps
    <2>8. ChecksOK'
        <3>1. ReviewsKnown'
            BY <1>1, <1>2, <2>4, <2>5 DEF AccountsInvariant, ReviewsKnown, Does
        <3>2. PendingHasPhotos' /\ ApprovedIsVouched'
            BY <1>2 DEF AccountsInvariant, PendingHasPhotos, ApprovedIsVouched
        <3> QED
            BY <3>1, <3>2 DEF ChecksOK
    <2>9. JoinsStay
        BY <1>2, <2>4, <2>5 DEF JoinsStay, joinVars, SameWork
    <2>10. OwnersStay
        BY <1>2, <2>1, <2>4, <2>5, SameTable DEF OwnersStay, SameWork
    <2>11. HeldOK'
        <3>1. RowsHeld'
            BY <1>2, <2>4, <2>5 DEF AccountsInvariant, RowsHeld, Carries, Does, At
        <3>2. row.enabled => row.secret \in proven
            BY <2>1, <2>2 DEF Keeps, AccountsInvariant, SecretsProven, EnabledIsProven
        <3>3. SecretsProven'
            BY <1>2, <2>4, <2>5, <3>2
            DEF AccountsInvariant, SecretsProven, EnabledIsProven, Carries
        <3> QED
            BY <3>1, <3>3 DEF HeldOK
    <2> QED
        BY <2>7, <2>8, <2>9, <2>10, <2>11, PartsAreKept
<1> QED
    BY <1>3, <1>4

\* An approval writes the user as verified, and only then goes on to the submission.
LEMMA ReviewWriteIsKept ==
    ASSUME AccountsInvariant, TypeOK', NEW q \in Procs, VerifyReviewed(q)
    PROVE  AccountsInvariant'
<1>1. /\ req[q] \in Reviewing /\ req[q] # Idle /\ Carries(q) /\ Does(q, "review")
      /\ req[q].kind = "review"
      /\ UNCHANGED <<tokens, kyc, invites, guest, proven, overlapped>>
    BY InFlight, KindsOfRequest
    DEF VerifyReviewed, At, Does, Carries, AccountsInvariant, joinVars, idle, sessionVars
<1>2. CASE Refuses(req[q].user, req[q].row)
    BY <1>1, <1>2, RefusedIsKept DEF VerifyReviewed, Done
<1>3. CASE ~Refuses(req[q].user, req[q].row)
    <2> DEFINE r == [req[q] EXCEPT !.at = "close"]
    <2>1. /\ users' = Stored(req[q].user, req[q].row)
          /\ vouched' = vouched \cup {req[q].user} /\ req' = [req EXCEPT ![q] = r]
        BY <1>3 DEF VerifyReviewed, Goes, AccountsInvariant, TypeOK
    <2>2. /\ r.kind = "review" /\ r.user = req[q].user /\ r.at = "close" /\ r.n = req[q].n
        BY <1>1 DEF Reviewing
    <2> HIDE DEF r
    <2>3. \A p \in Procs : req'[p] = IF p = q THEN r ELSE req[p]
        BY <2>1 DEF AccountsInvariant, TypeOK
    <2>4. /\ \A u \in Users : users'[u] = NoRow <=> users[u] = NoRow
          /\ \A u \in Users :
                users'[u] # NoRow /\ users'[u].enabled => users'[u].secret \in proven'
        BY <1>1, <2>1, StoredRows
    <2>5. req[q].user \in Users /\ users[req[q].user] # NoRow
        BY <1>1, Holder
    <2>6. ChecksOK'
        <3>1. ReviewsKnown'
            BY <1>1, <2>1, <2>2, <2>3 DEF AccountsInvariant, ReviewsKnown, Does
        <3>2. PendingHasPhotos' /\ ApprovedIsVouched'
            BY <1>1, <2>1 DEF AccountsInvariant, PendingHasPhotos, ApprovedIsVouched
        <3> QED
            BY <3>1, <3>2 DEF ChecksOK
    <2>7. JoinsStay
        BY <1>1, <2>2, <2>3 DEF JoinsStay, joinVars, SameWork
    <2>8. OwnersStay
        BY <1>1, <2>2, <2>3, <2>4, <2>5 DEF OwnersStay, SameWork
    <2>9. RowsStay
        BY <1>1, <2>2, <2>3, <2>4 DEF RowsStay, SameWork, AccountsInvariant, RowsHeld
    <2>10. \A u \in Users \ overlapped' : SessionStays(u) \/ OfOne(u)'
        BY <1>1, <2>1, <2>2, StoringIsKept
    <2> QED
        BY <1>1, <2>6, <2>7, <2>8, <2>9, <2>10, PartsAreKept
<1> QED
    BY <1>2, <1>3

-----------------------------------------------------------------------------
(* Theorems                                                                 *)

\* The invariant holds at first.
LEMMA InitHolds == Init => AccountsInvariant
<1> SUFFICES ASSUME Init
             PROVE  AccountsInvariant
    OBVIOUS
<1>1. /\ \A u \in Users : users[u] = IF u \in Founders THEN FounderRow(u) ELSE NoRow
      /\ \A u \in Founders : /\ u \in Users /\ FounderRow(u) \in UserRow
                             /\ ~FounderRow(u).enabled /\ FounderRow(u).ver = 1
      /\ \A q \in Procs : req[q] = Idle
      /\ \A u \in Users : kyc[u] = <<>> /\ guest[u] = Nobody
      /\ \A i \in Invites : invites[i] = NoRow
    BY NewRows, AccountsAssumption DEF Init
<1>2. TypeOK
    <2>1. Tables
        <3>1. users \in [Users -> UserRow \cup {NoRow}]
            BY <1>1 DEF Init
        <3>2. cache \in [Users -> Nat \cup {NoVersion}]
            BY DEF Init
        <3>3. tokens \subseteq Token
            <4>1. \A u \in Founders : u \in Users /\ HomeOf[u] \in Devices
                BY AccountsAssumption
            <4>2. \A u \in Founders :
                    [user |-> u, ver |-> 1, device |-> HomeOf[u], serial |-> 0] \in Token
                BY <4>1 DEF Token
            <4> QED
                BY <4>2 DEF Init
        <3>4. kyc \in [Users -> Seq(Submission)]
            BY DEF Init
        <3> QED
            BY <3>1, <3>2, <3>3, <3>4 DEF Init, Tables
    <2>2. Flights
        BY DEF Init, Flights
    <2>3. Counters
        <3>1. 0 \in 0 .. MaxAttempts - 1
            BY DEF MaxAttempts
        <3>2. left \in [Classes -> Nat]
            BY AccountsAssumption DEF Init
        <3> QED
            BY <3>1, <3>2 DEF Init, Counters
    <2> QED
        BY <2>1, <2>2, <2>3, TypesInParts
<1>3. \A t \in tokens : /\ t.user \in Founders /\ t.ver = 1
                        /\ t = [user |-> t.user, ver |-> 1, device |-> HomeOf[t.user],
                                serial |-> 0]
    BY DEF Init
<1>4. IsFiniteSet(tokens)
    <2> DEFINE F == [u \in Founders |->
                        [user |-> u, ver |-> 1, device |-> HomeOf[u], serial |-> 0]]
    <2>1. tokens = {F[u] : u \in Founders}
        BY DEF Init
    <2>2. F \in Surjection(Founders, {F[u] : u \in Founders})
        BY DEF Surjection
    <2>3. IsFiniteSet({F[u] : u \in Founders})
        <3> HIDE DEF F
        <3> QED
            BY <2>2, FS_Surjection, AccountsAssumption
    <2> QED
        BY <2>1, <2>3
<1>5. RowsHeld
    BY <1>1, <1>4 DEF RowsHeld, Carries, Does, At
<1>6. SecretsProven
    BY <1>1 DEF SecretsProven, EnabledIsProven, Carries
<1>7. Owned
    <2>1. \A u \in Founders : users[u] # NoRow
        BY <1>1, SentinelAssumption
    <2> QED
        BY <1>1, <1>3, <2>1 DEF Owned, Makes, Uses
<1>8. InvitesKnown /\ ReviewsKnown
    BY <1>1 DEF InvitesKnown, ReviewsKnown, Does
<1>9. PendingHasPhotos /\ ApprovedIsVouched /\ InvitationAgrees
    BY <1>1 DEF PendingHasPhotos, ApprovedIsVouched, InvitationAgrees
<1>10. SessionsInv
    <2> SUFFICES ASSUME NEW u \in Users \ overlapped
                 PROVE  Alone(u) /\ Distinct(u) /\ NotAhead(u) /\ HeldAhead(u)
        BY DEF SessionsInv
    <2>1. Alone(u) /\ HeldAhead(u)
        BY <1>1 DEF Alone, HeldAhead, Holds
    <2>2. Distinct(u)
        BY <1>3 DEF Distinct
    <2>3. NotAhead(u)
        BY <1>1, <1>3 DEF NotAhead
    <2> QED
        BY <2>1, <2>2, <2>3
<1> QED
    BY <1>2, <1>5, <1>6, <1>7, <1>8, <1>9, <1>10 DEF AccountsInvariant

\* Every step keeps the types.
LEMMA NextTypes ==
    ASSUME AccountsInvariant, [Next]_vars
    PROVE  TypeOK'
<1>1. TypeOK /\ RowsHeld /\ SecretsProven /\ InvitesKnown /\ ReviewsKnown
    BY DEF AccountsInvariant
<1>2. ASSUME NEW q \in Procs, SessionStep(q)
      PROVE  TypeOK'
    BY <1>1, <1>2, SessionTypes, HandlersReadRows, ReadTypes DEF SessionStep
<1>3. ASSUME NEW q \in Procs, RowStep(q)
      PROVE  TypeOK'
    BY <1>1, <1>3, HandlersReadRows, ReadTypes
<1>4. ASSUME NEW q \in Procs, PinStep(q)
      PROVE  TypeOK'
    BY <1>1, <1>4, PinTypes
<1>5. ASSUME NEW q \in Procs, JoinStep(q)
      PROVE  TypeOK'
    BY <1>1, <1>5, JoinTypes
<1>6. ASSUME NEW q \in Procs, CheckStep(q)
      PROVE  TypeOK'
    BY <1>1, <1>6, CheckTypes
<1>7. CASE AtOnceStep
    BY <1>1, <1>7, AtOnceTypes
<1>8. CASE UNCHANGED vars
    BY <1>1, <1>8 DEF TypeOK, vars
<1> QED
    BY <1>2, <1>3, <1>4, <1>5, <1>6, <1>7, <1>8 DEF Next

\* Every step keeps the invariant.
LEMMA NextHolds ==
    ASSUME AccountsInvariant, [Next]_vars
    PROVE  AccountsInvariant'
<1>1. TypeOK /\ SecretsProven
    BY DEF AccountsInvariant
<1>2. TypeOK'
    BY NextTypes
<1>3. ASSUME NEW q \in Procs, ReadsRow(q)
      PROVE  AccountsInvariant'
    BY <1>2, <1>3, ReadIsKept
<1>4. ASSUME Quiet
      PROVE  AccountsInvariant'
    BY <1>2, <1>4, QuietIsKept
<1>5. ASSUME NEW q \in Procs, SessionStep(q)
      PROVE  AccountsInvariant'
    <2>1. CASE ClearDeviceSessions(q)
        BY <1>2, <2>1, ClearIsKept
    <2>2. CASE WriteBack(q)
        BY <1>2, <2>2, WriteIsKept
    <2>3. CASE SetVersion(q)
        BY <1>2, <2>3, SettingIsKept
    <2>4. CASE DropVersion(q) \/ FillVersion(q)
        <3>1. PICK u \in Users : TRUE
            BY <1>1, <2>4, InFlight, PlainFields DEF DropVersion, FillVersion, Does
        <3>2. Quiet
            BY <2>4, <3>1, QuietSteps
        <3> QED
            BY <1>4, <3>2
    <2>5. ASSUME NEW t \in tokens, Refresh(q, t)
          PROVE  AccountsInvariant'
        BY <1>1, <1>3, <2>5, HandlersReadRows
    <2>6. ASSUME NEW u \in Users,
                 \/ \E d \in Devices : Login(q, u, d)
                 \/ WebAuthnLogin(q, u) \/ AdminResetPassword(q, u)
                 \/ \E s \in BOOLEAN : AdminSuspendUser(q, u, s)
          PROVE  AccountsInvariant'
        BY <1>1, <1>3, <2>6, HandlersReadRows
    <2>7. ASSUME NEW u \in Users, Logout(q, u)
          PROVE  AccountsInvariant'
        BY <1>2, <2>7, StatementsAreKept
    <2>8. ASSUME NEW u \in Users, Protected(q, u)
          PROVE  AccountsInvariant'
        BY <1>4, <2>8, QuietSteps
    <2> QED
        BY <1>5, <2>1, <2>2, <2>3, <2>4, <2>5, <2>6, <2>7, <2>8 DEF SessionStep
<1>6. ASSUME NEW q \in Procs, RowStep(q)
      PROVE  AccountsInvariant'
    BY <1>1, <1>3, <1>6, HandlersReadRows
<1>7. ASSUME NEW q \in Procs, PinStep(q)
      PROVE  AccountsInvariant'
    <2>1. PICK u \in Users :
            VerifyPin(q, u) \/ RightPin(q) \/ CountAttempt(q) \/ WrongPin(q)
        BY <1>1, <1>7, InFlight, GuessFields
        DEF PinStep, RightPin, CountAttempt, WrongPin, At, Does
    <2> QED
        BY <1>4, <2>1, QuietSteps
<1>8. ASSUME NEW q \in Procs, JoinStep(q)
      PROVE  AccountsInvariant'
    <2>1. CASE InsertUser(q)
        BY <1>2, <2>1, InsertIsKept
    <2>2. CASE InsertInvitation(q) \/ ExpireInvitation(q)
        BY <1>2, <2>2, InvitationIsKept
    <2>3. CASE CommitRunner(q) \/ CommitMerchant(q)
        BY <1>2, <2>3, RegisterIsKept DEF CommitRunner, CommitMerchant
    <2>4. ASSUME NEW u \in Users, NEW n \in Numbers, NEW d \in Devices, Create(q, u, n, d)
          PROVE  AccountsInvariant'
        BY <1>2, <2>4, SignUpIsKept, NewRows DEF Create
    <2>5. ASSUME NEW u \in Users, NEW n \in Numbers, NEW v \in BOOLEAN,
                 AdminCreate(q, u, n, v)
          PROVE  AccountsInvariant'
        BY <1>2, <2>5, SignUpIsKept, NewRows DEF AdminCreate
    <2>6. ASSUME NEW i \in Invites, ValidateInvitation(q, i)
          PROVE  AccountsInvariant'
        BY <1>2, <2>6, InvitingIsKept
    <2>7. ASSUME NEW i \in Invites, NEW u \in Users,
                 OnboardRunner(q, u, i) \/ OnboardMerchant(q, u, i)
          PROVE  AccountsInvariant'
        BY <1>2, <2>7, OnboardIsKept DEF OnboardRunner, OnboardMerchant
    <2>8. ASSUME NEW i \in Invites, NEW n \in Numbers, NEW role \in {"runner", "merchant"},
                 AdminCreateInvitation(q, i, n, role)
          PROVE  AccountsInvariant'
        BY <1>2, <2>8, InvitingIsKept
    <2> QED
        BY <1>8, <2>1, <2>2, <2>3, <2>4, <2>5, <2>6, <2>7, <2>8 DEF JoinStep
<1>9. ASSUME NEW q \in Procs, CheckStep(q)
      PROVE  AccountsInvariant'
    <2>1. CASE InsertSubmission(q) \/ CloseReview(q)
        BY <1>2, <2>1, SubmissionIsKept
    <2>2. CASE ReadReviewed(q)
        BY <1>2, <2>2, ReviewReadIsKept
    <2>3. CASE VerifyReviewed(q)
        BY <1>2, <2>3, ReviewWriteIsKept
    <2>4. CASE UpsertBankAccount(q)
        <3>1. PICK u \in Users : TRUE
            BY <1>1, <2>4, InFlight, PlainFields DEF UpsertBankAccount, Does
        <3>2. Quiet
            BY <2>4, <3>1, QuietSteps
        <3> QED
            BY <1>4, <3>2
    <2>5. ASSUME NEW u \in Users, Submit(q, u)
          PROVE  AccountsInvariant'
        BY <1>2, <2>5, SubmissionIsKept
    <2>6. ASSUME NEW u \in Users, RegisterMyBankAccount(q, u)
          PROVE  AccountsInvariant'
        BY <1>4, <2>6, QuietSteps
    <2>7. ASSUME NEW u \in Users, NEW n \in DOMAIN kyc[u],
                 NEW status \in {"approved", "rejected"}, Review(q, u, n, status)
          PROVE  AccountsInvariant'
        BY <1>2, <2>7, ReviewBeginIsKept
    <2> QED
        BY <1>9, <2>1, <2>2, <2>3, <2>4, <2>5, <2>6, <2>7 DEF CheckStep
<1>10. CASE AtOnceStep
    <2>1. ASSUME NEW u \in Users,
                 \/ VersionExpires(u) \/ AdminUnlockPin(u) \/ AttemptsExpire(u)
                 \/ LockExpires(u) \/ AdminRegisterBankAccount(u)
          PROVE  AccountsInvariant'
        BY <1>4, <2>1, QuietMoments
    <2>2. ASSUME NEW u \in Users,
                 Delete(u) \/ \E a \in BOOLEAN : UpdateAcceptingOrders(u, a)
          PROVE  AccountsInvariant'
        BY <1>2, <2>2, StatementsAreKept
    <2>3. ASSUME NEW i \in Invites, InvitationLapses(i)
          PROVE  AccountsInvariant'
        BY <1>2, <2>3, InvitationIsKept
    <2> QED
        BY <1>10, <2>1, <2>2, <2>3 DEF AtOnceStep
<1>11. CASE UNCHANGED vars
    <2>1. Quiet
        BY <1>11 DEF vars, Quiet, joinVars, checkVars
    <2> QED
        BY <1>4, <2>1
<1> QED
    BY <1>5, <1>6, <1>7, <1>8, <1>9, <1>10, <1>11 DEF Next

\* The invariant holds in every reachable state.
THEOREM AccountsInvariance == Spec => []AccountsInvariant
    BY InitHolds, NextHolds, PTL DEF Spec

\* The versions of a user's tokens differ, so the current one opens one pair at most.
LEMMA VersionsTell == AccountsInvariant => OneSession
    BY DEF AccountsInvariant, SessionsInv, Distinct, OneSession, Accepted

\* Type correctness.
THEOREM TypeCorrect == Spec => []TypeOK
<1>1. AccountsInvariant => TypeOK
    BY DEF AccountsInvariant
<1> QED
    BY <1>1, AccountsInvariance, PTL

\* However logins, refreshes, suspensions and reviews follow each other, and whatever
\* other accounts do on the same device: unless two requests held the row of a user at
\* once, at most one pair of tokens opens a session of that user.
THEOREM SessionsAreSingle == Spec => []OneSession
    BY VersionsTell, AccountsInvariance, PTL

\* Whatever rows are written back, a second factor that is on was shown a code of once.
THEOREM FactorsAreProven == Spec => []EnabledIsProven
<1>1. AccountsInvariant => EnabledIsProven
    BY DEF AccountsInvariant, SecretsProven
<1> QED
    BY <1>1, AccountsInvariance, PTL

\* Approved identities are vouched for, waiting ones keep their photos, and invitations
\* agree with the accounts made with them.
THEOREM OnboardingHolds == Spec => []OnboardingAgrees
<1>1. AccountsInvariant => OnboardingAgrees
    BY DEF AccountsInvariant, OnboardingAgrees
<1> QED
    BY <1>1, AccountsInvariance, PTL

-----------------------------------------------------------------------------
(* The most wrong PINs that are counted                                     *)

\* A set that contains 0, and the next number of each it contains, contains them all.
LEMMA NumberInduction ==
    ASSUME NEW G, 0 \in G, \A n \in Nat : n \in G => n + 1 \in G
    PROVE  Nat \subseteq G
<1> DEFINE Bad == Nat \ G
<1>1. SUFFICES ASSUME Bad # {} PROVE FALSE
    OBVIOUS
<1>2. PICK n \in Bad : \A m \in Bad : n <= m
    BY <1>1, SmallestNumber
<1>3. n - 1 \in Nat /\ n - 1 \notin Bad /\ (n - 1) + 1 = n
    BY <1>2
<1> QED
    BY <1>2, <1>3

\* The pairs up to a diagonal, and a table of MostCounted over a set of pairs.
Upto(d) == {x \in Nat \X Nat : x[1] + x[2] <= d}
Edge(x) == x[1] = 0 \/ x[2] = 0
Less(x) == <<x[1] - 1, x[2]>>
Lower(x) == <<x[1], x[2] - 1>>
Entry(f, x) == IF Edge(x) THEN 0 ELSE f[Less(x)] + 1 + f[Lower(x)]
Tabulates(f, D) == f = [x \in D |-> Entry(f, x)]

\* What an entry is made of lies on the diagonal before it.
LEMMA OneStepBack ==
    ASSUME NEW d \in Nat, NEW x \in Upto(d), ~Edge(x)
    PROVE  d # 0 /\ d - 1 \in Nat /\ Less(x) \in Upto(d - 1) /\ Lower(x) \in Upto(d - 1)
    BY DEF Upto, Edge, Less, Lower

\* Two tables agree where both are defined.
LEMMA OneTable ==
    ASSUME NEW d \in Nat, NEW D, NEW E, Upto(d) \subseteq D, Upto(d) \subseteq E,
           NEW f, Tabulates(f, D), NEW g, Tabulates(g, E)
    PROVE  \A x \in Upto(d) : f[x] = g[x]
<1> DEFINE Bad == {e \in 0 .. d : \E x \in Upto(e) : f[x] # g[x]}
<1>1. SUFFICES ASSUME Bad # {} PROVE FALSE
    <2>1. d \in 0 .. d
        OBVIOUS
    <2> QED
        BY <2>1
<1>2. PICK e \in Bad : \A m \in Bad : e <= m
    <2>1. Bad \subseteq Nat
        OBVIOUS
    <2> HIDE DEF Bad
    <2> QED
        BY <1>1, <2>1, SmallestNumber
<1>3. PICK x \in Upto(e) : f[x] # g[x]
    BY <1>2
<1>4. x \in D /\ x \in E
    BY <1>2, <1>3 DEF Upto
<1>5. f[x] = Entry(f, x) /\ g[x] = Entry(g, x)
    BY <1>4 DEF Tabulates
<1>6. ~Edge(x)
    BY <1>3, <1>5 DEF Entry
<1>7. e \in Nat /\ e - 1 \in 0 .. d /\ Less(x) \in Upto(e - 1) /\ Lower(x) \in Upto(e - 1)
    BY <1>2, <1>3, <1>6, OneStepBack
<1>8. e - 1 \notin Bad
    BY <1>2, <1>7
<1>9. f[Less(x)] = g[Less(x)] /\ f[Lower(x)] = g[Lower(x)]
    BY <1>7, <1>8
<1> QED
    BY <1>3, <1>5, <1>9 DEF Entry

\* What the entries of a table are made of, given those of the diagonals before it.
LEMMA NextTable ==
    ASSUME NEW d \in Nat, NEW g,
           \A x \in Upto(d) : ~Edge(x) => g[Less(x)] \in Nat /\ g[Lower(x)] \in Nat,
           \A x \in Upto(d - 1) : g[x] = Entry(g, x)
    PROVE  \E f \in [Upto(d) -> Nat] : Tabulates(f, Upto(d))
<1> DEFINE f == [x \in Upto(d) |-> Entry(g, x)]
<1>1. ASSUME NEW x \in Upto(d) PROVE Entry(g, x) \in Nat
    BY DEF Entry
<1>2. f \in [Upto(d) -> Nat]
    BY <1>1
<1>3. ASSUME NEW x \in Upto(d) PROVE Entry(g, x) = Entry(f, x)
    <2>1. CASE Edge(x)
        BY <2>1 DEF Entry
    <2>2. CASE ~Edge(x)
        <3>1. /\ d - 1 \in Nat
              /\ Less(x) \in Upto(d - 1) /\ Lower(x) \in Upto(d - 1)
            BY <2>2, OneStepBack
        <3>2. Upto(d - 1) \subseteq Upto(d)
            BY <3>1 DEF Upto
        <3>3. f[Less(x)] = g[Less(x)] /\ f[Lower(x)] = g[Lower(x)]
            BY <3>1, <3>2
        <3> QED
            BY <3>3 DEF Entry
    <2> QED
        BY <2>1, <2>2
<1>4. f = [x \in Upto(d) |-> Entry(f, x)]
    <2> DEFINE h == [x \in Upto(d) |-> Entry(f, x)]
    <2>1. \A x \in Upto(d) : f[x] = h[x]
        <3> HIDE DEF f
        <3>1. \A x \in Upto(d) : h[x] = Entry(f, x)
            OBVIOUS
        <3> USE DEF f
        <3>2. \A x \in Upto(d) : f[x] = Entry(g, x)
            OBVIOUS
        <3> HIDE DEF f, h
        <3> QED
            BY <1>3, <3>1, <3>2
    <2>2. f = [x \in Upto(d) |-> f[x]] /\ h = [x \in Upto(d) |-> h[x]]
        OBVIOUS
    <2> HIDE DEF f, h
    <2>3. f = h
        BY <2>1, <2>2
    <2> QED
        BY <2>3 DEF h
<1> QED
    <2> HIDE DEF f
    <2> QED
        BY <1>2, <1>4 DEF Tabulates

\* There is a table up to every diagonal.
LEMMA ATable ==
    ASSUME NEW d \in Nat
    PROVE  \E f \in [Upto(d) -> Nat] : Tabulates(f, Upto(d))
<1> DEFINE G == {e \in Nat : \E f \in [Upto(e) -> Nat] : Tabulates(f, Upto(e))}
<1>1. 0 \in G
    <2>1. \A x \in Upto(0) : Edge(x)
        BY OneStepBack
    <2>2. Upto(0 - 1) = {}
        BY DEF Upto
    <2> QED
        BY <2>1, <2>2, NextTable
<1>2. ASSUME NEW e \in Nat, e \in G
      PROVE  e + 1 \in G
    <2>1. e + 1 \in Nat /\ (e + 1) - 1 = e
        OBVIOUS
    <2>2. PICK g \in [Upto(e) -> Nat] : Tabulates(g, Upto(e))
        BY <1>2
    <2>3. \A x \in Upto(e) : g[x] = Entry(g, x)
        BY <2>2 DEF Tabulates
    <2>4. \A x \in Upto(e + 1) : ~Edge(x) => g[Less(x)] \in Nat /\ g[Lower(x)] \in Nat
        BY <2>1, <2>2, OneStepBack
    <2> QED
        BY <2>1, <2>3, <2>4, NextTable
<1>3. Nat \subseteq G
    <2> HIDE DEF G
    <2> QED
        BY <1>1, <1>2, NumberInduction
<1> QED
    BY <1>3

\* MostCounted is what its recursion says.
LEMMA MostCountedIs ==
    \A x \in Nat \X Nat : MostCounted[x] \in Nat /\ MostCounted[x] = Entry(MostCounted, x)
<1> DEFINE T(d) == CHOOSE f : f \in [Upto(d) -> Nat] /\ Tabulates(f, Upto(d))
           F == [x \in Nat \X Nat |-> T(x[1] + x[2])[x]]
<1>1. ASSUME NEW d \in Nat
      PROVE  T(d) \in [Upto(d) -> Nat] /\ Tabulates(T(d), Upto(d))
    BY ATable
<1>2. ASSUME NEW x \in Nat \X Nat
      PROVE  F[x] = T(x[1] + x[2])[x] /\ x[1] + x[2] \in Nat /\ x \in Upto(x[1] + x[2])
    BY DEF Upto
<1> HIDE DEF T, F
<1>3. ASSUME NEW d \in Nat, NEW x \in Upto(d)
      PROVE  F[x] = T(d)[x]
    <2>1. x \in Nat \X Nat /\ Upto(x[1] + x[2]) \subseteq Upto(d)
        BY DEF Upto
    <2> QED
        BY <1>1, <1>2, <2>1, OneTable
<1>4. ASSUME NEW x \in Nat \X Nat
      PROVE  F[x] \in Nat /\ F[x] = Entry(F, x)
    <2>1. PICK d \in Nat : x \in Upto(d)
        BY <1>2
    <2>2. F[x] = T(d)[x] /\ T(d)[x] \in Nat
        BY <1>1, <1>3, <2>1
    <2>3. T(d)[x] = Entry(T(d), x)
        BY <1>1, <2>1 DEF Tabulates
    <2>4. Entry(T(d), x) = Entry(F, x)
        <3>1. CASE Edge(x)
            BY <3>1 DEF Entry
        <3>2. CASE ~Edge(x)
            <4>1. /\ d - 1 \in Nat
                  /\ Less(x) \in Upto(d - 1) /\ Lower(x) \in Upto(d - 1)
                BY <2>1, <3>2, OneStepBack
            <4>2. Upto(d - 1) \subseteq Upto(d)
                BY <4>1 DEF Upto
            <4>3. F[Less(x)] = T(d)[Less(x)] /\ F[Lower(x)] = T(d)[Lower(x)]
                BY <1>3, <4>1, <4>2
            <4> QED
                BY <4>3 DEF Entry
        <3> QED
            BY <3>1, <3>2
    <2> QED
        BY <2>2, <2>3, <2>4
<1>5. Tabulates(F, Nat \X Nat)
    <2> DEFINE h == [x \in Nat \X Nat |-> Entry(F, x)]
    <2>1. F = [x \in Nat \X Nat |-> F[x]] /\ h = [x \in Nat \X Nat |-> h[x]]
        BY DEF F
    <2>2. \A x \in Nat \X Nat : h[x] = F[x]
        BY <1>4
    <2> HIDE DEF h
    <2>3. F = h
        BY <2>1, <2>2
    <2> QED
        BY <2>3 DEF Tabulates, h
<1>6. Tabulates(MostCounted, Nat \X Nat)
    <2>1. MostCounted = CHOOSE f : Tabulates(f, Nat \X Nat)
        BY DEF MostCounted, Tabulates, Entry, Edge, Less, Lower
    <2> QED
        BY <1>5, <2>1
<1>7. ASSUME NEW x \in Nat \X Nat
      PROVE  MostCounted[x] = F[x]
    <2>1. PICK d \in Nat : x \in Upto(d) /\ Upto(d) \subseteq Nat \X Nat
        BY <1>2 DEF Upto
    <2> QED
        BY <1>5, <1>6, <2>1, OneTable
<1>8. ASSUME NEW x \in Nat \X Nat
      PROVE  MostCounted[x] = Entry(MostCounted, x)
    BY <1>6 DEF Tabulates
<1> QED
    BY <1>4, <1>7, <1>8

\* The same, number by number.
LEMMA MostRecursion ==
    ASSUME NEW k \in Nat, NEW m \in Nat
    PROVE  /\ Most(k, m) \in Nat
           /\ k = 0 \/ m = 0 => Most(k, m) = 0
           /\ k # 0 /\ m # 0 => Most(k, m) = Most(k - 1, m) + 1 + Most(k, m - 1)
<1>1. <<k, m>> \in Nat \X Nat
    OBVIOUS
<1>2. Edge(<<k, m>>) <=> k = 0 \/ m = 0
    BY DEF Edge
<1>3. Less(<<k, m>>) = <<k - 1, m>> /\ Lower(<<k, m>>) = <<k, m - 1>>
    BY DEF Less, Lower
<1> QED
    BY <1>1, <1>2, <1>3, MostCountedIs DEF Most, Entry

\* One attempt more lets more requests count at least as many more.
LEMMA OneAttemptMore ==
    ASSUME NEW k \in Nat, NEW l \in Nat, k <= l, NEW m \in Nat
    PROVE  /\ Most(k, m) <= Most(k, m + 1)
           /\ Most(k, m + 1) - Most(k, m) <= Most(l, m + 1) - Most(l, m)
<1> DEFINE Gain(n) == Most(n, m + 1) - Most(n, m)
           G == {n \in Nat : Gain(k) <= Gain(k + n)}
<1>1. ASSUME NEW n \in Nat
      PROVE  /\ Most(n, m) \in Nat /\ Most(n, m + 1) \in Nat
             /\ Gain(n) = IF n = 0 THEN 0 ELSE Most(n - 1, m + 1) + 1
    <2>1. m + 1 \in Nat /\ m + 1 # 0 /\ (m + 1) - 1 = m
        OBVIOUS
    <2>2. Most(n, m) \in Nat /\ Most(n, m + 1) \in Nat
        BY <2>1, MostRecursion
    <2>3. CASE n = 0
        <3>1. Most(n, m) = 0 /\ Most(n, m + 1) = 0
            BY <2>1, <2>3, MostRecursion
        <3> QED
            BY <2>2, <2>3, <3>1
    <2>4. CASE n # 0
        <3>1. n - 1 \in Nat
            BY <2>4
        <3>2. Most(n - 1, m + 1) \in Nat
            BY <2>1, <3>1, MostRecursion
        <3>3. Most(n, m + 1) = Most(n - 1, m + 1) + 1 + Most(n, (m + 1) - 1)
            BY <2>1, <2>4, MostRecursion
        <3> QED
            BY <2>1, <2>2, <2>4, <3>2, <3>3
    <2> QED
        BY <2>2, <2>3, <2>4
<1>2. ASSUME NEW n \in Nat
      PROVE  0 <= Gain(n) /\ Gain(n) <= Gain(n + 1) /\ Gain(n) \in Int
    <2>1. n + 1 \in Nat /\ n + 1 # 0 /\ (n + 1) - 1 = n
        OBVIOUS
    <2>2. Gain(n + 1) = Most(n, m + 1) + 1
        <3> HIDE DEF Gain
        <3>1. Gain(n + 1) = Most((n + 1) - 1, m + 1) + 1
            BY <1>1, <2>1
        <3> QED
            BY <2>1, <3>1
    <2>3. CASE n = 0
        <3> HIDE DEF Gain
        <3> QED
            BY <1>1, <2>2, <2>3
    <2>4. CASE n # 0
        <3>1. n - 1 \in Nat /\ m + 1 \in Nat
            BY <2>4
        <3>2. Most(n - 1, m + 1) \in Nat
            BY <3>1, MostRecursion
        <3>3. Most(n, m + 1) = Gain(n) + Most(n, m)
            BY <1>1
        <3> HIDE DEF Gain
        <3> QED
            BY <1>1, <2>2, <2>4, <3>2, <3>3
    <2> QED
        BY <2>3, <2>4
<1>3. Most(k, m) <= Most(k, m + 1)
    BY <1>1, <1>2
<1> HIDE DEF Gain
<1>4. 0 \in G
    BY <1>2
<1>5. ASSUME NEW n \in Nat, n \in G
      PROVE  n + 1 \in G
    <2>1. k + n \in Nat /\ (k + n) + 1 = k + (n + 1) /\ n + 1 \in Nat
        OBVIOUS
    <2>2. Gain(k) <= Gain(k + n)
        BY <1>5
    <2> QED
        BY <1>2, <2>1, <2>2
<1>6. Nat \subseteq G
    <2> HIDE DEF G
    <2> QED
        BY <1>4, <1>5, NumberInduction
<1>7. l - k \in Nat /\ k + (l - k) = l
    OBVIOUS
<1>8. Gain(k) <= Gain(l)
    BY <1>6, <1>7
<1> QED
    BY <1>3, <1>8 DEF Gain

\* So do several.
LEMMA MoreAttempts ==
    ASSUME NEW k \in Nat, NEW l \in Nat, k <= l, NEW j \in Nat, NEW m \in Nat, j <= m
    PROVE  /\ Most(k, j) <= Most(k, m)
           /\ Most(k, m) - Most(k, j) <= Most(l, m) - Most(l, j)
<1> DEFINE G == {n \in Nat :
                   /\ Most(k, j) <= Most(k, j + n)
                   /\ Most(k, j + n) - Most(k, j) <= Most(l, j + n) - Most(l, j)}
<1>1. \A n \in Nat : Most(k, n) \in Nat /\ Most(l, n) \in Nat
    BY MostRecursion
<1>2. 0 \in G
    BY <1>1
<1>3. ASSUME NEW n \in Nat, n \in G
      PROVE  n + 1 \in G
    <2>1. j + n \in Nat /\ (j + n) + 1 = j + (n + 1) /\ n + 1 \in Nat /\ j + (n + 1) \in Nat
        OBVIOUS
    <2>2. /\ Most(k, j + n) <= Most(k, j + (n + 1))
          /\ Most(k, j + (n + 1)) - Most(k, j + n) <= Most(l, j + (n + 1)) - Most(l, j + n)
        BY <2>1, OneAttemptMore
    <2> QED
        BY <1>1, <1>3, <2>1, <2>2
<1>4. Nat \subseteq G
    <2> HIDE DEF G
    <2> QED
        BY <1>2, <1>3, NumberInduction
<1>5. m - j \in Nat /\ j + (m - j) = m
    OBVIOUS
<1> QED
    BY <1>4, <1>5

-----------------------------------------------------------------------------
(* The history of the wrong PINs                                            *)

\* What is counted while one request more holds an attempt back, with the others, and
\* then with this one.
LEMMA OneHolderMore ==
    ASSUME NEW k \in Nat, NEW i \in Nat, NEW l \in Nat, k <= l, i + 1 <= l,
           NEW x \in Nat, NEW y \in Nat, NEW z \in Nat, y + 1 <= x, z <= y
    PROVE  (Most(k, x) - Most(k, y + 1)) + (Most(i, y + 1) - Most(i, 0)) + 1
               <= Most(l, x) - Most(l, z)
<1>1. /\ l # 0 /\ l - 1 \in Nat /\ i <= l - 1 /\ y + 1 \in Nat /\ y + 1 # 0 /\ 0 <= y + 1
      /\ (y + 1) - 1 = y /\ l <= l /\ 0 \in Nat
    OBVIOUS
<1>2. \A n \in Nat : /\ Most(k, n) \in Nat /\ Most(i, n) \in Nat /\ Most(l, n) \in Nat
                     /\ Most(l - 1, n) \in Nat
    BY <1>1, MostRecursion
<1>3. Most(k, x) - Most(k, y + 1) <= Most(l, x) - Most(l, y + 1)
    BY <1>1, MoreAttempts
<1>4. Most(i, y + 1) - Most(i, 0) <= Most(l - 1, y + 1) - Most(l - 1, 0)
    BY <1>1, MoreAttempts
<1>5. Most(l - 1, 0) = 0
    BY <1>1, MostRecursion
<1>6. Most(l, y + 1) = Most(l - 1, y + 1) + 1 + Most(l, (y + 1) - 1)
    BY <1>1, MostRecursion
<1>7. Most(l, z) <= Most(l, y)
    BY <1>1, MoreAttempts
<1> QED
    BY <1>1, <1>2, <1>3, <1>4, <1>5, <1>6, <1>7

\* Fewer requests that store, more others.
LEMMA MoreOthers ==
    ASSUME AccountsAssumption, NEW u, NEW j, Storing(u, j)' \subseteq Storing(u, j)
    PROVE  Others(u, j) \in Nat /\ Others(u, j)' \in Nat /\ Others(u, j) <= Others(u, j)'
<1>1. IsFiniteSet(Procs)
    BY DEF AccountsAssumption
<1>2. IsFiniteSet(Procs \ Storing(u, j)) /\ IsFiniteSet(Procs \ Storing(u, j)')
    BY <1>1, FS_Subset
<1>3. Procs \ Storing(u, j) \subseteq Procs \ Storing(u, j)'
    OBVIOUS
<1>4. Cardinality(Procs \ Storing(u, j)) <= Cardinality(Procs \ Storing(u, j)')
    BY <1>2, <1>3, FS_Subset
<1> QED
    BY <1>2, <1>4, FS_CardinalityType DEF Others

\* The wrong PINs that may be counted, before and after such a step.
LEMMA MayCountMore ==
    ASSUME AccountsAssumption, NEW u, NEW a \in 0 .. MaxAttempts - 1,
           NEW b \in 0 .. MaxAttempts - 1, a <= b
    PROVE  /\ MayCount(u, a, b) \in Nat
           /\ MayCount(u, a, b)' \in Nat
           /\ Storing(u, a + 1)' \subseteq Storing(u, a + 1) =>
                  MayCount(u, a, b) <= MayCount(u, a, b)'
<1>1. /\ MaxAttempts - 1 - a \in Nat /\ MaxAttempts - 1 - b \in Nat
      /\ MaxAttempts - 1 - b <= MaxAttempts - 1 - a
    BY DEF MaxAttempts
<1>2. Others(u, a + 1) \in Nat /\ Others(u, a + 1)' \in Nat
    <2>1. IsFiniteSet(Procs)
        BY DEF AccountsAssumption
    <2>2. IsFiniteSet(Procs \ Storing(u, a + 1)) /\ IsFiniteSet(Procs \ Storing(u, a + 1)')
        BY <2>1, FS_Subset
    <2> QED
        BY <2>2, FS_CardinalityType DEF Others
<1>3. \A k \in Nat :
        /\ Most(k, MaxAttempts - 1 - a) \in Nat /\ Most(k, MaxAttempts - 1 - b) \in Nat
        /\ Most(k, MaxAttempts - 1 - b) <= Most(k, MaxAttempts - 1 - a)
    <2> TAKE k \in Nat
    <2>1. Most(k, MaxAttempts - 1 - a) \in Nat /\ Most(k, MaxAttempts - 1 - b) \in Nat
        BY <1>1, MostRecursion
    <2>2. k <= k
        OBVIOUS
    <2>3. Most(k, MaxAttempts - 1 - b) <= Most(k, MaxAttempts - 1 - a)
        BY <1>1, <2>2, MoreAttempts
    <2> QED
        BY <2>1, <2>3
<1>4. MayCount(u, a, b) \in Nat /\ MayCount(u, a, b)' \in Nat
    BY <1>2, <1>3 DEF MayCount
<1>5. ASSUME Storing(u, a + 1)' \subseteq Storing(u, a + 1)
      PROVE  MayCount(u, a, b) <= MayCount(u, a, b)'
    BY <1>1, <1>2, <1>5, MoreOthers, MoreAttempts DEF MayCount
<1> QED
    BY <1>4, <1>5

\* The history goes on unchanged while nothing is stored ...
Waits(u) ==
    /\ tries'[u] = tries[u] /\ wrong'[u] = wrong[u]
    /\ \A j \in 0 .. tries[u] : Storing(u, j)' \subseteq Storing(u, j)
LEMMA WaitingKeepsHistory ==
    ASSUME AccountsAssumption, TypeOK, NEW u \in Users, HasHistory(u), Waits(u)
    PROVE  HasHistory(u)'
<1> DEFINE M == MaxAttempts - 1
<1>1. PICK c \in [0 .. M -> 0 .. wrong[u]] :
        /\ c[0] = 0
        /\ \A j \in tries[u] .. M : c[j] = wrong[u]
        /\ \A a, b \in 0 .. M : a <= b => c[b] - c[a] <= MayCount(u, a, b)
    BY DEF HasHistory
<1>2. M \in Nat /\ tries[u] \in 0 .. M /\ wrong[u] \in Nat
    BY DEF TypeOK, MaxAttempts
<1>3. ASSUME NEW a \in 0 .. M, NEW b \in 0 .. M, a <= b
      PROVE  c[b] - c[a] <= MayCount(u, a, b)'
    <2>1. MayCount(u, a, b) \in Nat /\ MayCount(u, a, b)' \in Nat
        BY <1>3, MayCountMore
    <2>2. CASE a < tries[u]
        <3>1. Storing(u, a + 1)' \subseteq Storing(u, a + 1)
            BY <1>2, <2>2 DEF Waits
        <3>2. MayCount(u, a, b) <= MayCount(u, a, b)'
            BY <1>3, <3>1, MayCountMore
        <3>3. c[b] - c[a] <= MayCount(u, a, b) /\ c[b] \in Nat /\ c[a] \in Nat
            BY <1>1, <1>2, <1>3
        <3> QED
            BY <2>1, <3>2, <3>3
    <2>3. CASE tries[u] <= a
        <3> HIDE DEF M
        <3>1. a \in tries[u] .. M /\ b \in tries[u] .. M
            BY <1>2, <1>3, <2>3
        <3>2. c[a] = wrong[u] /\ c[b] = wrong[u]
            BY <1>1, <3>1
        <3> QED
            BY <1>2, <2>1, <3>2
    <2> QED
        BY <1>2, <2>2, <2>3
<1> QED
    BY <1>1, <1>3 DEF HasHistory, Waits

\* ... starts again when the attempts are forgotten ...
LEMMA ForgettingStartsAgain ==
    ASSUME AccountsAssumption, NEW u \in Users, tries'[u] = 0, wrong'[u] = 0
    PROVE  HasHistory(u)'
<1> DEFINE c == [j \in 0 .. MaxAttempts - 1 |-> 0]
<1>1. c \in [0 .. MaxAttempts - 1 -> 0 .. wrong'[u]] /\ c[0] = 0
    BY DEF MaxAttempts
<1>2. \A j \in tries'[u] .. MaxAttempts - 1 : c[j] = wrong'[u]
    OBVIOUS
<1>3. ASSUME NEW a \in 0 .. MaxAttempts - 1, NEW b \in 0 .. MaxAttempts - 1, a <= b
      PROVE  c[b] - c[a] <= MayCount(u, a, b)'
    <2>1. c[a] = 0 /\ c[b] = 0
        OBVIOUS
    <2>2. MayCount(u, a, b)' \in Nat
        BY <1>3, MayCountMore
    <2> HIDE DEF c
    <2> QED
        BY <2>1, <2>2
<1> HIDE DEF c
<1> QED
    BY <1>1, <1>2, <1>3 DEF HasHistory

\* ... and has one more when a count is stored: those that hold back no more than that
\* one were all counted by the others.
Stores(q, u) ==
    /\ At(q, "pin", "store") /\ req[q].user = u /\ ~LocksOut(req[q].n)
    /\ tries'[u] = req[q].n /\ wrong'[u] = wrong[u] + 1
    /\ req' = [req EXCEPT ![q] = Idle]
LEMMA OneMoreStored ==
    ASSUME AccountsAssumption, TypeOK, RowsHeld, NEW u \in Users, HasHistory(u),
           NEW q \in Procs, Stores(q, u)
    PROVE  HasHistory(u)'
<1> DEFINE M == MaxAttempts - 1
           n == req[q].n
<1>1. PICK c \in [0 .. M -> 0 .. wrong[u]] :
        /\ c[0] = 0
        /\ \A j \in tries[u] .. M : c[j] = wrong[u]
        /\ \A a, b \in 0 .. M : a <= b => c[b] - c[a] <= MayCount(u, a, b)
    BY DEF HasHistory
<1>2. M \in Nat /\ tries[u] \in 0 .. M /\ wrong[u] \in Nat
    BY DEF TypeOK, MaxAttempts
<1>3. n \in 1 .. M
    <2>1. req[q] \in Guessing
        BY InFlight, KindsOfRequest DEF Stores, At, Does
    <2>2. n \in 0 .. MaxAttempts /\ n > 0 /\ ~(n >= MaxAttempts)
        BY <2>1 DEF Stores, RowsHeld, Guessing, LocksOut
    <2> QED
        BY <2>2 DEF MaxAttempts
<1>4. /\ \A j : Storing(u, j)' \subseteq Storing(u, j) /\ q \notin Storing(u, j)'
      /\ q \in Storing(u, n)
    <2>1. \A p \in Procs : p # q => req'[p] = req[p]
        BY DEF Stores, TypeOK
    <2>2. req'[q] = Idle
        BY DEF Stores, TypeOK
    <2>3. \A j : q \notin Storing(u, j)'
        BY <2>2 DEF Storing, At, Does
    <2>4. n <= n
        BY <1>3
    <2> QED
        BY <2>1, <2>3, <2>4 DEF Storing, Stores, At, Does
<1> DEFINE d == [j \in 0 .. M |-> IF j < n THEN c[j] ELSE wrong[u] + 1]
<1>5. d \in [0 .. M -> 0 .. wrong'[u]] /\ d[0] = 0
    BY <1>1, <1>2, <1>3 DEF Stores
<1>6. \A j \in tries'[u] .. M : d[j] = wrong'[u]
    <2> HIDE DEF M
    <2> QED
        BY <1>2, <1>3 DEF Stores
<1>7. ASSUME NEW a \in 0 .. M, NEW b \in 0 .. M, a <= b
      PROVE  d[b] - d[a] <= MayCount(u, a, b)'
    <2>1. /\ MayCount(u, a, b) \in Nat /\ MayCount(u, a, b)' \in Nat
          /\ MayCount(u, a, b) <= MayCount(u, a, b)'
        BY <1>4, <1>7, MayCountMore
    <2>2. CASE b < n
        <3>0. c[a] \in Nat /\ c[b] \in Nat
            <4>1. c[a] \in 0 .. wrong[u] /\ c[b] \in 0 .. wrong[u]
                BY <1>1, <1>7
            <4> QED
                BY <1>2, <4>1
        <3>1. d[b] = c[b] /\ d[a] = c[a]
            <4> HIDE DEF M
            <4> QED
                BY <1>2, <1>3, <1>7, <2>2
        <3>2. c[b] - c[a] <= MayCount(u, a, b)
            BY <1>1, <1>7
        <3> HIDE DEF d
        <3> QED
            BY <2>1, <3>0, <3>1, <3>2
    <2>3. CASE n <= a
        <3>1. d[b] = wrong[u] + 1 /\ d[a] = wrong[u] + 1
            BY <1>2, <1>3, <1>7, <2>3
        <3> HIDE DEF d
        <3> QED
            BY <1>2, <2>1, <3>1
    <2>4. CASE a < n /\ n <= b
        <3>1. d[b] = wrong[u] + 1 /\ d[a] = c[a] /\ c[a] \in Nat
            BY <1>2, <1>3, <1>7, <2>4
        <3>2. n - 1 \in 0 .. M /\ M \in 0 .. M /\ n - 1 <= M /\ a <= n - 1
            BY <1>2, <1>3, <1>7, <2>4
        <3>3. c[n - 1] - c[a] <= MayCount(u, a, n - 1) /\ c[M] - c[n - 1] <= MayCount(u, n - 1, M)
            BY <1>1, <1>7, <3>2
        <3>4. c[M] = wrong[u] /\ c[n - 1] \in Nat
            BY <1>1, <1>2, <3>2
        <3>5. MayCount(u, a, n - 1) + MayCount(u, n - 1, M) + 1 <= MayCount(u, a, b)'
            <4>1. /\ Others(u, a + 1) <= Others(u, a + 1)'
                  /\ Others(u, a + 1) \in Nat /\ Others(u, a + 1)' \in Nat
                BY <1>4, MoreOthers
            <4>2. Others(u, n) \in Nat /\ Others(u, n) + 1 <= Others(u, a + 1)'
                <5>1. q \notin Procs \ Storing(u, n)
                    BY <1>4
                <5>2. (Procs \ Storing(u, n)) \cup {q} \subseteq Procs \ Storing(u, a + 1)'
                    <6>1. Storing(u, a + 1) \subseteq Storing(u, n)
                        <7>1. \A p \in Storing(u, a + 1) : req[p].n \in 0 .. MaxAttempts
                            BY InFlight, KindsOfRequest DEF Storing, At, Does, Guessing
                        <7>2. \A k \in 0 .. MaxAttempts : k <= a + 1 => k <= n
                            BY <1>2, <1>3, <1>7, <2>4 DEF MaxAttempts
                        <7> QED
                            BY <7>1, <7>2 DEF Storing
                    <6> QED
                        BY <1>4, <6>1
                <5>3. IsFiniteSet(Procs \ Storing(u, n)) /\ IsFiniteSet(Procs \ Storing(u, a + 1)')
                    BY FS_Subset DEF AccountsAssumption
                <5>4. /\ IsFiniteSet((Procs \ Storing(u, n)) \cup {q})
                      /\ Cardinality((Procs \ Storing(u, n)) \cup {q})
                             = Cardinality(Procs \ Storing(u, n)) + 1
                    BY <5>1, <5>3, FS_AddElement
                <5>5. Cardinality((Procs \ Storing(u, n)) \cup {q})
                          <= Cardinality(Procs \ Storing(u, a + 1)')
                    BY <5>2, <5>3, FS_Subset
                <5> QED
                    BY <5>3, <5>4, <5>5, FS_CardinalityType DEF Others
            <4>3. /\ M - a \in Nat /\ M - n \in Nat /\ M - b \in Nat
                  /\ (M - n) + 1 <= M - a /\ M - b <= M - n
                  /\ M - (n - 1) = (M - n) + 1 /\ M - M = 0 /\ (n - 1) + 1 = n
                <5> HIDE DEF M, n
                <5>1. M \in Nat /\ n \in Nat /\ a \in Nat /\ b \in Nat
                    BY <1>2, <1>3, <1>7
                <5>2. a < n /\ n <= b /\ b <= M
                    BY <1>2, <1>7, <2>4
                <5> QED
                    BY <5>1, <5>2
            <4>4. /\ MayCount(u, a, n - 1)
                         = Most(Others(u, a + 1), M - a) - Most(Others(u, a + 1), (M - n) + 1)
                  /\ MayCount(u, n - 1, M)
                         = Most(Others(u, n), (M - n) + 1) - Most(Others(u, n), 0)
                  /\ MayCount(u, a, b)'
                         = Most(Others(u, a + 1)', M - a) - Most(Others(u, a + 1)', M - b)
                BY <4>3 DEF MayCount
            <4>5. (Most(Others(u, a + 1), M - a) - Most(Others(u, a + 1), (M - n) + 1))
                  + (Most(Others(u, n), (M - n) + 1) - Most(Others(u, n), 0)) + 1
                      <= Most(Others(u, a + 1)', M - a) - Most(Others(u, a + 1)', M - b)
                <5> HIDE DEF M, n
                <5> QED
                    BY <4>1, <4>2, <4>3, OneHolderMore
            <4> QED
                BY <4>4, <4>5
        <3>6. MayCount(u, a, n - 1) \in Nat /\ MayCount(u, n - 1, M) \in Nat
            BY <3>2, MayCountMore
        <3> HIDE DEF d, M, n
        <3>7. wrong[u] - c[n - 1] <= MayCount(u, n - 1, M)
            BY <3>3, <3>4
        <3>8. (wrong[u] + 1) - c[a] <= MayCount(u, a, b)'
            <4> DEFINE w == wrong[u]
                       v == c[n - 1]
                       x == c[a]
                       y == MayCount(u, a, n - 1)
                       z == MayCount(u, n - 1, M)
                       t == MayCount(u, a, b)'
            <4>1. w \in Nat /\ v \in Nat /\ x \in Nat
                BY <1>2, <3>1, <3>4
            <4>2. y \in Nat /\ z \in Nat /\ t \in Nat
                BY <2>1, <3>6
            <4>3. v - x <= y
                BY <3>3
            <4>4. w - v <= z
                BY <3>7
            <4>5. y + z + 1 <= t
                BY <3>5
            <4> HIDE DEF v, w, x, y, z, t
            <4>6. (w + 1) - x <= t
                BY <4>1, <4>2, <4>3, <4>4, <4>5
            <4> QED
                BY <4>6 DEF w, x, t
        <3> QED
            BY <3>1, <3>8
    <2> QED
        BY <1>2, <1>3, <1>7, <2>2, <2>3, <2>4
<1> HIDE DEF d
<1> QED
    BY <1>5, <1>6, <1>7 DEF HasHistory

-----------------------------------------------------------------------------
(* Who touches the attempts                                                 *)

\* A step that is about something else: what a request does is no count to be stored.
Elsewhere ==
    /\ \A p \in Procs : At(p, "pin", "store")' => req'[p] = req[p]
    /\ tries' = tries /\ wrong' = wrong

\* A request that ends, or goes on with other work.
LEMMA OtherWork ==
    ASSUME TypeOK, NEW q \in Procs, NEW r, req' = [req EXCEPT ![q] = r],
           r = Idle \/ r.kind # "pin" \/ r.at # "store"
    PROVE  \A p \in Procs : At(p, "pin", "store")' => req'[p] = req[p]
<1>1. \A p \in Procs : req'[p] = IF p = q THEN r ELSE req[p]
    BY DEF TypeOK
<1> QED
    BY <1>1 DEF At, Does

\* A record of a request with another step.
LEMMA SameKind ==
    ASSUME TypeOK, NEW q \in Procs, NEW step, Goes(q, step),
           req[q] # Idle, req[q].kind \in {"row", "open", "revoke", "review"}
    PROVE  \A p \in Procs : At(p, "pin", "store")' => req'[p] = req[p]
<1> DEFINE r == [req[q] EXCEPT !.at = step]
<1>1. req[q] \in Writing \/ req[q] \in Reviewing
    BY InFlight, KindsOfRequest
<1>2. r.kind = req[q].kind
    BY <1>1 DEF Writing, Reviewing
<1>3. req' = [req EXCEPT ![q] = r]
    BY DEF Goes, TypeOK
<1> HIDE DEF r
<1> QED
    BY <1>2, <1>3, OtherWork

\* The handlers that read a row.
LEMMA ReadsElsewhere ==
    ASSUME TypeOK, NEW q \in Procs, NEW class, NEW kind \in {"row", "open", "revoke"},
           NEW u, NEW row, NEW step, Reads(q, class, kind, u, row, step)
    PROVE  Elsewhere
<1>1. /\ req' = [req EXCEPT ![q] = [kind |-> kind, user |-> u, row |-> row, at |-> step]]
      /\ tries' = tries /\ wrong' = wrong
    BY DEF Reads, Begin, pinVars
<1> QED
    BY <1>1, OtherWork DEF Elsewhere

\* The steps on sessions.
LEMMA SessionElsewhere ==
    ASSUME TypeOK, NEW q \in Procs, SessionStep(q)
    PROVE  Elsewhere
<1> USE DEF pinVars
<1>1. CASE ClearDeviceSessions(q)
    BY <1>1, SameKind DEF ClearDeviceSessions, At, Does, Elsewhere
<1>2. CASE WriteBack(q)
    <2>1. req[q] # Idle /\ req[q].kind \in {"row", "open", "revoke"}
        BY <1>2 DEF WriteBack, At, Does
    <2>2. Done(q) \/ Goes(q, "cache")
        BY <1>2 DEF WriteBack
    <2> QED
        BY <1>2, <2>1, <2>2, OtherWork, SameKind DEF WriteBack, Done, Elsewhere
<1>3. CASE SetVersion(q)
    BY <1>3, OtherWork DEF SetVersion, Done, Elsewhere
<1>4. CASE DropVersion(q) \/ FillVersion(q)
    BY <1>4, OtherWork DEF DropVersion, FillVersion, Done, Elsewhere
<1>5. ASSUME NEW t \in tokens, Refresh(q, t)
      PROVE  Elsewhere
    BY <1>5, ReadsElsewhere DEF Refresh
<1>6. ASSUME NEW u \in Users, NEW d \in Devices, Login(q, u, d)
      PROVE  Elsewhere
    BY <1>6, ReadsElsewhere DEF Login
<1>7. ASSUME NEW u \in Users,
             WebAuthnLogin(q, u) \/ AdminResetPassword(q, u)
      PROVE  Elsewhere
    BY <1>7, ReadsElsewhere DEF WebAuthnLogin, AdminResetPassword
<1>8. ASSUME NEW u \in Users, NEW s \in BOOLEAN, AdminSuspendUser(q, u, s)
      PROVE  Elsewhere
    BY <1>8, ReadsElsewhere DEF AdminSuspendUser
<1>9. ASSUME NEW u \in Users, Logout(q, u)
      PROVE  Elsewhere
    BY <1>9, OtherWork DEF Logout, Begin, Elsewhere
<1>10. ASSUME NEW u \in Users, Protected(q, u)
      PROVE  Elsewhere
    BY <1>10, OtherWork DEF Protected, Begin, Elsewhere
<1> QED
    BY <1>1, <1>2, <1>3, <1>4, <1>5, <1>6, <1>7, <1>8, <1>9, <1>10 DEF SessionStep

\* The steps on columns of a row; a new PIN takes the attempts away.
ForgetsAll(u) == /\ tries' = [tries EXCEPT ![u] = 0] /\ wrong' = [wrong EXCEPT ![u] = 0]
                 /\ \A p \in Procs : At(p, "pin", "store")' => req'[p] = req[p]
LEMMA RowElsewhere ==
    ASSUME TypeOK, NEW q \in Procs, RowStep(q)
    PROVE  Elsewhere \/ \E u \in Users : ForgetsAll(u)
<1>1. PICK u \in Users :
        \/ UpdateHome(q, u) \/ AdminUpdateTrust(q, u) \/ SetupPin(q, u) \/ ChangePin(q, u)
        \/ \E n \in Numbers : UpdateProfile(q, u, n) \/ AdminUpdateProfile(q, u, n)
        \/ \E v \in BOOLEAN : AdminVerifyUser(q, u, v)
        \/ \E s \in Secrets : SetupTOTP(q, u, s)
        \/ EnableTOTP(q, u) \/ DisableTOTP(q, u) \/ AdminDisableTOTP(q, u)
    BY DEF RowStep
<1>2. CASE UpdateHome(q, u) \/ AdminUpdateTrust(q, u) \/ SetupPin(q, u)
    BY <1>2, ReadsElsewhere DEF UpdateHome, AdminUpdateTrust, SetupPin
<1>3. CASE ChangePin(q, u)
    <2>1. req' = [req EXCEPT ![q] = [kind |-> "row", user |-> u, row |-> WithPin(users[u]),
                                     at |-> "write"]]
        BY <1>3 DEF ChangePin, Begin
    <2> QED
        BY <1>3, <2>1, OtherWork DEF ChangePin, Unlocked, Forgotten, ForgetsAll
<1>4. CASE \E n \in Numbers : UpdateProfile(q, u, n) \/ AdminUpdateProfile(q, u, n)
    BY <1>4, ReadsElsewhere DEF UpdateProfile, AdminUpdateProfile
<1>5. CASE \E v \in BOOLEAN : AdminVerifyUser(q, u, v)
    BY <1>5, ReadsElsewhere DEF AdminVerifyUser
<1>6. CASE \E s \in Secrets : SetupTOTP(q, u, s)
    BY <1>6, ReadsElsewhere DEF SetupTOTP
<1>7. CASE EnableTOTP(q, u) \/ DisableTOTP(q, u) \/ AdminDisableTOTP(q, u)
    BY <1>7, ReadsElsewhere DEF EnableTOTP, DisableTOTP, AdminDisableTOTP
<1> QED
    BY <1>1, <1>2, <1>3, <1>4, <1>5, <1>6, <1>7

\* The steps of registrations, ...
LEMMA JoinElsewhere ==
    ASSUME TypeOK, NEW q \in Procs, JoinStep(q)
    PROVE  Elsewhere
<1> USE DEF pinVars, idle
<1>1. CASE InsertUser(q) \/ InsertInvitation(q) \/ ExpireInvitation(q)
    BY <1>1, OtherWork DEF InsertUser, InsertInvitation, ExpireInvitation, Done, Elsewhere
<1>2. CASE CommitRunner(q) \/ CommitMerchant(q)
    BY <1>2, OtherWork DEF CommitRunner, CommitMerchant, Registers, Done, Elsewhere
<1>3. ASSUME NEW u \in Users, NEW row, SignsUp(q, u, row)
      PROVE  Elsewhere
    BY <1>3, OtherWork DEF SignsUp, Begin, Elsewhere
<1>4. ASSUME NEW i \in Invites, ValidateInvitation(q, i)
      PROVE  Elsewhere
    BY <1>4, OtherWork DEF ValidateInvitation, Begin, Elsewhere
<1>5. ASSUME NEW i \in Invites, NEW u \in Users, NEW role, Onboard(q, u, i, role)
      PROVE  Elsewhere
    BY <1>5, OtherWork DEF Onboard, Begin, Elsewhere
<1>6. ASSUME NEW i \in Invites, NEW n \in Numbers, NEW role,
             AdminCreateInvitation(q, i, n, role)
      PROVE  Elsewhere
    BY <1>6, OtherWork DEF AdminCreateInvitation, Begin, Elsewhere
<1> QED
    BY <1>1, <1>2, <1>3, <1>4, <1>5, <1>6
    DEF JoinStep, Create, AdminCreate, OnboardRunner, OnboardMerchant

\* ... of identity checks and bank accounts.
LEMMA CheckElsewhere ==
    ASSUME TypeOK, NEW q \in Procs, CheckStep(q)
    PROVE  Elsewhere
<1> USE DEF pinVars, idle
<1>1. CASE InsertSubmission(q) \/ CloseReview(q) \/ UpsertBankAccount(q)
    BY <1>1, OtherWork DEF InsertSubmission, CloseReview, UpsertBankAccount, Done, Elsewhere
<1>2. CASE ReadReviewed(q)
    <2>1. req[q] \in Reviewing
        BY <1>2, InFlight, KindsOfRequest DEF ReadReviewed, At, Does
    <2>2. PICK r : req' = [req EXCEPT ![q] = r] /\ (r = Idle \/ r.kind # "pin")
        <3>1. CASE Done(q)
            BY <3>1 DEF Done
        <3>2. CASE ~Done(q)
            <4> DEFINE r == [req[q] EXCEPT !.at = "write",
                                           !.row = Verified(users[req[q].user], TRUE)]
            <4>1. req' = [req EXCEPT ![q] = r]
                BY <1>2, <3>2 DEF ReadReviewed, TypeOK
            <4>2. r.kind = "review"
                BY <2>1 DEF Reviewing
            <4> QED
                BY <4>1, <4>2
        <3> QED
            BY <3>1, <3>2
    <2> QED
        BY <1>2, <2>2, OtherWork DEF ReadReviewed, Elsewhere
<1>3. CASE VerifyReviewed(q)
    <2>1. req[q] # Idle /\ req[q].kind = "review"
        BY <1>3 DEF VerifyReviewed, At, Does
    <2>2. Done(q) \/ Goes(q, "close")
        BY <1>3 DEF VerifyReviewed
    <2> QED
        BY <1>3, <2>1, <2>2, OtherWork, SameKind DEF VerifyReviewed, Done, Elsewhere
<1>4. ASSUME NEW u \in Users, Submit(q, u) \/ RegisterMyBankAccount(q, u)
      PROVE  Elsewhere
    BY <1>4, OtherWork DEF Submit, RegisterMyBankAccount, Begin, Elsewhere
<1>5. ASSUME NEW u \in Users, NEW n \in DOMAIN kyc[u],
             NEW status \in {"approved", "rejected"}, Review(q, u, n, status)
      PROVE  Elsewhere
    BY <1>5, OtherWork DEF Review, Begin, Elsewhere
<1> QED
    BY <1>1, <1>2, <1>3, <1>4, <1>5 DEF CheckStep

\* The moments: an administrator, and time, may take the attempts away.
LEMMA MomentsElsewhere ==
    ASSUME TypeOK, AtOnceStep
    PROVE  Elsewhere \/ \E u \in Users : ForgetsAll(u)
<1> USE DEF pinVars, idle, AtOnce, At, Does
<1>1. ASSUME NEW u \in Users, Delete(u) \/ VersionExpires(u) \/ LockExpires(u)
                              \/ AdminRegisterBankAccount(u)
                              \/ \E a \in BOOLEAN : UpdateAcceptingOrders(u, a)
      PROVE  Elsewhere
    BY <1>1 DEF Delete, VersionExpires, LockExpires, AdminRegisterBankAccount,
                UpdateAcceptingOrders, Elsewhere
<1>2. ASSUME NEW u \in Users, AdminUnlockPin(u) \/ AttemptsExpire(u)
      PROVE  ForgetsAll(u)
    BY <1>2 DEF AdminUnlockPin, AttemptsExpire, Unlocked, Forgotten, ForgetsAll
<1>3. ASSUME NEW i \in Invites, InvitationLapses(i)
      PROVE  Elsewhere
    BY <1>3 DEF InvitationLapses, Elsewhere
<1> QED
    BY <1>1, <1>2, <1>3 DEF AtOnceStep

\* Both kinds of steps keep the histories.
LEMMA ElsewhereKeepsHistories ==
    ASSUME AccountsAssumption, TypeOK, AttemptsInv,
           Elsewhere \/ \E u \in Users : ForgetsAll(u)
    PROVE  AttemptsInv'
<1>1. ASSUME NEW u \in Users, tries'[u] = tries[u], wrong'[u] = wrong[u],
             \A p \in Procs : At(p, "pin", "store")' => req'[p] = req[p]
      PROVE  HasHistory(u)'
    <2>1. Waits(u)
        BY <1>1 DEF Waits, Storing, At, Does
    <2> QED
        BY <2>1, WaitingKeepsHistory DEF AttemptsInv
<1>2. CASE Elsewhere
    BY <1>1, <1>2 DEF Elsewhere, AttemptsInv
<1>3. ASSUME NEW v \in Users, ForgetsAll(v), NEW u \in Users
      PROVE  HasHistory(u)'
    <2>1. CASE u = v
        BY <1>3, <2>1, ForgettingStartsAgain DEF ForgetsAll, TypeOK
    <2>2. CASE u # v
        BY <1>1, <1>3, <2>2 DEF ForgetsAll, TypeOK
    <2> QED
        BY <2>1, <2>2
<1> QED
    BY <1>2, <1>3 DEF AttemptsInv

\* A request for a PIN, and the attempts at it.
LEMMA PinRequests ==
    ASSUME TypeOK, NEW q \in Procs, Does(q, "pin")
    PROVE  /\ req[q] \in Guessing /\ req[q].user \in Users
           /\ \A u \in Users : tries[u] \in Nat
<1>1. req[q] \in Request /\ req[q].kind = "pin"
    BY InFlight DEF Does
<1>2. req[q] \in Guessing /\ req[q].user \in Users
    <2>1. req[q] \in Guessing
        BY <1>1, KindsOfRequest
    <2> QED
        BY <2>1 DEF Guessing
<1>3. ASSUME NEW u \in Users PROVE tries[u] \in Nat
    <2>1. tries[u] \in 0 .. MaxAttempts - 1
        BY DEF TypeOK
    <2> QED
        BY <2>1 DEF MaxAttempts
<1> QED
    BY <1>2, <1>3

\* The PIN itself: attempts wait to be stored, are stored, or are forgotten.
LEMMA PinsKeepHistories ==
    ASSUME AccountsAssumption, TypeOK, RowsHeld, AttemptsInv, NEW q \in Procs, PinStep(q)
    PROVE  AttemptsInv'
<1>1. CASE \E u \in Users : VerifyPin(q, u)
    <2>1. PICK u \in Users, step \in {"right", "count"} :
            req' = [req EXCEPT ![q] = [kind |-> "pin", user |-> u, at |-> step, n |-> 0]]
        BY <1>1 DEF VerifyPin
    <2>2. Elsewhere
        BY <1>1, <2>1, OtherWork DEF VerifyPin, Elsewhere, pinVars
    <2> QED
        BY <2>2, ElsewhereKeepsHistories
<1>2. CASE RightPin(q)
    <2>1. req[q].user \in Users
        BY <1>2, PinRequests DEF RightPin, At
    <2>2. \A p \in Procs : At(p, "pin", "store")' => req'[p] = req[p]
        BY <1>2, OtherWork DEF RightPin, Done
    <2>3. ForgetsAll(req[q].user)
        BY <1>2, <2>2 DEF RightPin, Forgotten, ForgetsAll
    <2> QED
        BY <2>1, <2>3, ElsewhereKeepsHistories
<1>3. CASE CountAttempt(q)
    <2> DEFINE new == [req[q] EXCEPT !.at = "store", !.n = tries[req[q].user] + 1]
    <2>1. req[q] \in Guessing /\ req[q].user \in Users /\ tries[req[q].user] \in Nat
        BY <1>3, PinRequests DEF CountAttempt, At
    <2>2. new.user = req[q].user /\ new.n = tries[req[q].user] + 1
        BY <2>1 DEF Guessing
    <2>3. \A p \in Procs : req'[p] = IF p = q THEN new ELSE req[p]
        BY <1>3 DEF CountAttempt, TypeOK
    <2> HIDE DEF new
    <2>4. ASSUME NEW u \in Users
          PROVE  Waits(u)
        <3>1. tries' = tries /\ wrong' = wrong /\ tries[u] \in Nat
            BY <1>3, PinRequests DEF CountAttempt, At, pinVars
        <3>2. ASSUME NEW j \in 0 .. tries[u], NEW p \in Storing(u, j)'
              PROVE  p \in Storing(u, j)
            <4>1. p \in Procs /\ req'[p].user = u /\ req'[p].n <= j /\ At(p, "pin", "store")'
                BY <3>2 DEF Storing
            <4>2. p # q
                BY <2>1, <2>2, <2>3, <3>1, <4>1
            <4>3. req'[p] = req[p]
                BY <2>3, <4>1, <4>2
            <4> QED
                BY <4>1, <4>3 DEF Storing, At, Does
        <3> QED
            BY <3>1, <3>2 DEF Waits
    <2> QED
        BY <2>4, WaitingKeepsHistory DEF AttemptsInv
<1>4. CASE WrongPin(q)
    <2> DEFINE v == req[q].user
    <2>1. v \in Users /\ At(q, "pin", "store") /\ Done(q)
        BY <1>4, PinRequests DEF WrongPin, At
    <2>2. \A p \in Procs : At(p, "pin", "store")' => req'[p] = req[p]
        BY <2>1, OtherWork DEF Done
    <2>3. CASE LocksOut(req[q].n)
        <3>1. ForgetsAll(v)
            BY <1>4, <2>2, <2>3 DEF WrongPin, Forgotten, ForgetsAll
        <3> QED
            BY <2>1, <3>1, ElsewhereKeepsHistories
    <2>4. CASE ~LocksOut(req[q].n)
        <3>1. tries' = [tries EXCEPT ![v] = req[q].n] /\ wrong' = [wrong EXCEPT ![v] = @ + 1]
            BY <1>4, <2>4 DEF WrongPin
        <3>2. Stores(q, v)
            BY <2>1, <2>4, <3>1 DEF Stores, Done, TypeOK
        <3>3. ASSUME NEW u \in Users, u # v
              PROVE  Waits(u)
            <4>1. tries'[u] = tries[u] /\ wrong'[u] = wrong[u]
                BY <3>1, <3>3 DEF TypeOK
            <4> QED
                BY <2>2, <4>1 DEF Waits, Storing, At, Does
        <3> QED
            BY <2>1, <3>2, <3>3, OneMoreStored, WaitingKeepsHistory DEF AttemptsInv
    <2> QED
        BY <2>3, <2>4
<1> QED
    BY <1>1, <1>2, <1>3, <1>4 DEF PinStep

\* The bound is that of all requests, from no attempt to the last that is stored.
LEMMA HistoriesAreBounded ==
    ASSUME AccountsAssumption, TypeOK, AttemptsInv
    PROVE  AttemptsBounded
<1> DEFINE M == MaxAttempts - 1
<1>1. SUFFICES ASSUME NEW u \in Users PROVE wrong[u] <= WrongBound
    BY DEF AttemptsBounded
<1>2. PICK c \in [0 .. M -> 0 .. wrong[u]] :
        /\ c[0] = 0
        /\ \A j \in tries[u] .. M : c[j] = wrong[u]
        /\ \A a, b \in 0 .. M : a <= b => c[b] - c[a] <= MayCount(u, a, b)
    BY DEF AttemptsInv, HasHistory
<1>3. M = 4 /\ tries[u] \in 0 .. M /\ wrong[u] \in Nat
    BY DEF TypeOK, MaxAttempts
<1>4. c[M] = wrong[u] /\ c[M] - c[0] <= MayCount(u, 0, M)
    BY <1>2, <1>3
<1>5. MayCount(u, 0, M) = Most(Others(u, 1), 4) - Most(Others(u, 1), 0)
    BY DEF MayCount, MaxAttempts
<1>6. /\ Others(u, 1) \in Nat /\ Cardinality(Procs) \in Nat
      /\ Others(u, 1) <= Cardinality(Procs)
    <2>1. IsFiniteSet(Procs) /\ IsFiniteSet(Procs \ Storing(u, 1))
        BY FS_Subset DEF AccountsAssumption
    <2>2. Cardinality(Procs \ Storing(u, 1)) <= Cardinality(Procs)
        BY <2>1, FS_Subset
    <2> QED
        BY <2>1, <2>2, FS_CardinalityType DEF Others
<1>7. Most(Others(u, 1), 4) - Most(Others(u, 1), 0)
          <= Most(Cardinality(Procs), 4) - Most(Cardinality(Procs), 0)
    BY <1>6, MoreAttempts
<1>8. Most(Cardinality(Procs), 0) = 0 /\ Most(Cardinality(Procs), 4) \in Nat
      /\ Most(Others(u, 1), 4) \in Nat /\ Most(Others(u, 1), 0) \in Nat
    BY <1>6, MostRecursion
<1>9. WrongBound = Most(Cardinality(Procs), 4)
    BY DEF WrongBound, Most, MaxAttempts
<1>10. wrong[u] <= MayCount(u, 0, M)
    <2> HIDE DEF M
    <2>1. c[0] = 0
        BY <1>2
    <2> QED
        BY <1>3, <1>4, <2>1
<1>11. MayCount(u, 0, M) <= WrongBound
    <2> HIDE DEF M
    <2> QED
        BY <1>5, <1>7, <1>8, <1>9
<1>12. WrongBound \in Nat /\ MayCount(u, 0, M) \in Int
    <2> HIDE DEF M
    <2> QED
        BY <1>5, <1>8, <1>9
<1> QED
    <2> HIDE DEF M
    <2> QED
        BY <1>3, <1>10, <1>11, <1>12

\* No history has begun.
LEMMA InitHistories ==
    ASSUME AccountsAssumption, Init
    PROVE  AttemptsInv
<1>1. ASSUME NEW u \in Users PROVE HasHistory(u)
    <2> DEFINE c == [j \in 0 .. MaxAttempts - 1 |-> 0]
    <2>1. tries[u] = 0 /\ wrong[u] = 0
        BY DEF Init
    <2>2. c \in [0 .. MaxAttempts - 1 -> 0 .. wrong[u]] /\ c[0] = 0
        BY <2>1 DEF MaxAttempts
    <2>3. \A j \in tries[u] .. MaxAttempts - 1 : c[j] = wrong[u]
        BY <2>1
    <2>4. ASSUME NEW a \in 0 .. MaxAttempts - 1, NEW b \in 0 .. MaxAttempts - 1, a <= b
          PROVE  c[b] - c[a] <= MayCount(u, a, b)
        <3>1. c[a] = 0 /\ c[b] = 0
            OBVIOUS
        <3>2. MayCount(u, a, b) \in Nat
            BY <2>4, MayCountMore
        <3> HIDE DEF c
        <3> QED
            BY <3>1, <3>2
    <2> HIDE DEF c
    <2> QED
        BY <2>2, <2>3, <2>4 DEF HasHistory
<1> QED
    BY <1>1 DEF AttemptsInv

\* For any number of requests at a time: the wrong PINs that can be tried before the PIN
\* is locked, or somebody takes the attempts away, are bounded.
THEOREM AttemptsAreBounded == Spec => []AttemptsBounded
<1>1. Init => AttemptsInv
    BY AccountsAssumption, InitHistories
<1>2. AccountsInvariant /\ AttemptsInv /\ [Next]_vars => AttemptsInv'
    <2> SUFFICES ASSUME AccountsInvariant, AttemptsInv, [Next]_vars
                 PROVE  AttemptsInv'
        OBVIOUS
    <2>1. TypeOK /\ RowsHeld
        BY DEF AccountsInvariant
    <2>2. CASE UNCHANGED vars
        BY <2>1, <2>2, AccountsAssumption, ElsewhereKeepsHistories
        DEF vars, Elsewhere, At, Does
    <2>3. ASSUME NEW q \in Procs, SessionStep(q) \/ JoinStep(q) \/ CheckStep(q)
          PROVE  AttemptsInv'
        BY <2>1, <2>3, AccountsAssumption, SessionElsewhere, JoinElsewhere, CheckElsewhere,
           ElsewhereKeepsHistories
    <2>4. ASSUME NEW q \in Procs, RowStep(q)
          PROVE  AttemptsInv'
        BY <2>1, <2>4, AccountsAssumption, RowElsewhere, ElsewhereKeepsHistories
    <2>5. ASSUME NEW q \in Procs, PinStep(q)
          PROVE  AttemptsInv'
        BY <2>1, <2>5, AccountsAssumption, PinsKeepHistories
    <2>6. CASE AtOnceStep
        BY <2>1, <2>6, AccountsAssumption, MomentsElsewhere, ElsewhereKeepsHistories
    <2> QED
        BY <2>2, <2>3, <2>4, <2>5, <2>6 DEF Next
<1>3. AccountsInvariant /\ AttemptsInv => AttemptsBounded
    BY AccountsAssumption, HistoriesAreBounded DEF AccountsInvariant
<1> QED
    BY <1>1, <1>2, <1>3, AccountsInvariance, PTL DEF Spec
=============================================================================
