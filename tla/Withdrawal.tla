---------------------------- MODULE Withdrawal ----------------------------
(***************************************************************************)
(* Withdrawals from the wallets of nitip-core.  A request takes amount and *)
(* fee from the balance at once; the withdrawal then waits for the payment *)
(* gateway, an administrator or the user to end it, and what was taken is  *)
(* given back if it is rejected or fails.                                  *)
(*                                                                         *)
(* Whoever ends a withdrawal reads its status first and writes the new one *)
(* later, unconditionally; so the reads and the writes are steps of their  *)
(* own.  The gateway decides a transfer once, by its trx_id, and may tell  *)
(* the decision late and several times.                                    *)
(***************************************************************************)
EXTENDS Integers, FiniteSets, Functions

CONSTANTS
    Withdrawals,   \* identities of withdrawal rows
    Users,
    Verified,      \* those with e-KYC, who have no daily limit
    Handlers,         \* requests in flight
    Channels,      \* withdrawal channels: [manual, least, flat, percent]
    Amounts,       \* what users ask for
    Funds,         \* Users -> Nat, what they own at the start
    DailyLimit,    \* of a user without e-KYC
    SumMayFail,    \* whether reading today's sum may fail
    LockMayExpire, \* whether a request may outlive its lock of ten seconds
    NoWithdrawal, Resting, NotLocked, Orphan

Channel == [manual : BOOLEAN, least : Nat, flat : Nat, percent : Nat]

ASSUME WithdrawalAssumption ==
    /\ Verified \subseteq Users
    /\ Channels \subseteq Channel
    /\ Amounts \subseteq Nat \ {0}
    /\ Funds \in [Users -> Nat]
    /\ DailyLimit \in Nat
    /\ SumMayFail \in BOOLEAN /\ LockMayExpire \in BOOLEAN

VARIABLES
    wallet,    \* balances
    rows,      \* the WITHDRAWAL rows of wallet_transactions, with their fee row
    lock,      \* lock:withdraw:<user>
    handler,   \* what each request is doing
    jobs,      \* transfers that the server is about to ask the gateway for
    gateway,   \* what the gateway decided on a transfer
    spent,     \* what users spent on orders meanwhile
    returned,  \* ghost: what was given back for a withdrawal
    raced      \* ghost: withdrawals that were ended again after they had ended

withdrawalVars == <<wallet, rows, lock, handler, jobs, gateway, spent, returned, raced>>
ghosts == <<returned, raced>>

Ended == {"completed", "rejected", "failed"}
Row == [user : Users, amount : Amounts, channel : Channels,
        status : {"pending"} \cup Ended,
        fee : {"none", "charged", "returned"}, today : BOOLEAN]
Request == [kind : {"request"}, step : {"limit", "balance", "deduct"},
            user : Users, amount : Amounts, channel : Channels]
Finalize == [kind : {"finalize"}, id : Withdrawals, status : Ended]
Approve == [kind : {"approve"}, id : Withdrawals]

ASSUME SentinelsAssumption ==
    /\ NoWithdrawal \notin Row /\ Resting \notin Request \cup Finalize \cup Approve
    /\ NotLocked \notin Handlers /\ Orphan \notin Handlers

WithdrawalTypeOK ==
    /\ wallet \in [Users -> Nat] /\ spent \in [Users -> Nat]
    /\ rows \in [Withdrawals -> Row \cup {NoWithdrawal}]
    /\ lock \in [Users -> Handlers \cup {NotLocked, Orphan}]
    /\ handler \in [Handlers -> Request \cup Finalize \cup Approve \cup {Resting}]
    /\ jobs \subseteq Withdrawals
    /\ gateway \in [Withdrawals -> {"unasked", "paid", "refused"}]
    /\ returned \in [Withdrawals -> Nat] /\ raced \subseteq Withdrawals

WithdrawalInit ==
    /\ wallet = Funds /\ spent = [u \in Users |-> 0]
    /\ rows = [w \in Withdrawals |-> NoWithdrawal]
    /\ lock = [u \in Users |-> NotLocked]
    /\ handler = [q \in Handlers |-> Resting]
    /\ jobs = {} /\ gateway = [w \in Withdrawals |-> "unasked"]
    /\ returned = [w \in Withdrawals |-> 0] /\ raced = {}

-----------------------------------------------------------------------------

Stored(w) == rows[w] # NoWithdrawal
Pending(w) == Stored(w) /\ rows[w].status = "pending"
Handles(q, kind) == handler[q] # Resting /\ handler[q].kind = kind
Asks(q, step) == Handles(q, "request") /\ handler[q].step = step
Starts(q, r) == handler[q] = Resting /\ handler' = [handler EXCEPT ![q] = r]
Finishes(q) == handler' = [handler EXCEPT ![q] = Resting]
GoesOn(q, step) == handler' = [handler EXCEPT ![q].step = step]

Fee(channel, amount) == channel.flat + (amount * channel.percent) \div 100
WithFee(row) == row.amount + Fee(row.channel, row.amount)
FeeRow(channel, amount) == IF Fee(channel, amount) > 0 THEN "charged" ELSE "none"
\* totalDeduction, what a request takes.
Charge(r) == r.amount + Fee(r.channel, r.amount)

Asked(S) == SumFunction([w \in S |-> rows[w].amount])
\* SumTodayWithdrawals: only rejected ones are left out.
\* Mutant: only those that were paid count.
CountsIfPaid(row) == row.status = "completed"
CountsToday(row) == row.status # "rejected"
Today(u) == {w \in Withdrawals : Stored(w) /\ rows[w].user = u
                                 /\ rows[w].today /\ CountsToday(rows[w])}

-----------------------------------------------------------------------------
(* Asking for a withdrawal.                                                *)

\* Suspension, PIN and bank account are checked under the lock; a request that
\* they stop never gets here.
RequestWithdrawal(q, u, amount, channel) ==
    /\ lock[u] = NotLocked /\ amount >= channel.least
    /\ Starts(q, [kind |-> "request", step |-> "limit", user |-> u,
                 amount |-> amount, channel |-> channel])
    /\ lock' = [lock EXCEPT ![u] = q]
    /\ UNCHANGED <<wallet, rows, jobs, gateway, spent, ghosts>>

\* Releases the lock if it is still its own.
Unlock(q) ==
    lock' = [u \in Users |-> IF lock[u] = q THEN NotLocked ELSE lock[u]]

RequestFails(q) ==
    /\ Handles(q, "request") /\ Finishes(q) /\ Unlock(q)
    /\ UNCHANGED <<wallet, rows, jobs, gateway, spent, ghosts>>

\* The limit is not applied if today's sum cannot be read.
CheckLimit(q) ==
    /\ Asks(q, "limit")
    /\ \/ handler[q].user \in Verified
       \/ Asked(Today(handler[q].user)) + handler[q].amount <= DailyLimit
       \/ SumMayFail
    /\ GoesOn(q, "balance")
    /\ UNCHANGED <<wallet, rows, lock, jobs, gateway, spent, ghosts>>

CheckBalance(q) ==
    /\ Asks(q, "balance")
    /\ wallet[handler[q].user] >= Charge(handler[q])
    /\ GoesOn(q, "deduct")
    /\ UNCHANGED <<wallet, rows, lock, jobs, gateway, spent, ghosts>>

\* UpdateWalletBalance takes money only if it is there.
CanTake(u, amount) == wallet[u] >= amount

\* Balance, fee and withdrawal are one transaction; then the gateway is asked
\* in the background, unless an administrator pays.
Deduct(q, w) ==
    /\ Asks(q, "deduct") /\ ~Stored(w)
    /\ LET r == handler[q] IN
       /\ CanTake(r.user, Charge(r))
       /\ wallet' = [wallet EXCEPT ![r.user] = @ - Charge(r)]
       /\ rows' = [rows EXCEPT ![w] =
            [user |-> r.user, amount |-> r.amount, channel |-> r.channel,
             status |-> "pending", fee |-> FeeRow(r.channel, r.amount),
             today |-> TRUE]]
       /\ jobs' = IF r.channel.manual THEN jobs ELSE jobs \cup {w}
    /\ Finishes(q) /\ Unlock(q)
    /\ UNCHANGED <<gateway, spent, ghosts>>

-----------------------------------------------------------------------------
(* Ending it.                                                              *)

\* The user cancels.
CancelWithdrawal(q, w) ==
    /\ Pending(w)
    /\ Starts(q, [kind |-> "finalize", id |-> w, status |-> "rejected"])
    /\ UNCHANGED <<wallet, rows, lock, jobs, gateway, spent, ghosts>>

Verdict(w) == IF gateway[w] = "paid" THEN "completed" ELSE "failed"
\* The gateway tells what it decided, also late and again.
WebhookDisbursement(q, w) ==
    /\ gateway[w] # "unasked" /\ Pending(w)
    /\ Starts(q, [kind |-> "finalize", id |-> w, status |-> Verdict(w)])
    /\ UNCHANGED <<wallet, rows, lock, jobs, gateway, spent, ghosts>>

EndsAgain(w) == raced' = IF Pending(w) THEN raced ELSE raced \cup {w}

\* Mutant: a transfer that failed is not given back.
GivesBackRejected(status) == status = "rejected"
GivesBack(status) == status \in {"rejected", "failed"}
\* What is given back: the amount, and the fee if there is a row for it.
Back(row) == row.amount + (IF row.fee = "none" THEN 0
                           ELSE Fee(row.channel, row.amount))

FeeReturned(row) == IF row.fee = "none" THEN "none" ELSE "returned"

FinalizeWithdrawal(q) ==
    /\ Handles(q, "finalize")
    /\ LET w == handler[q].id
           row == rows[w]
           status == handler[q].status IN
       /\ IF GivesBack(status)
          THEN /\ wallet' = [wallet EXCEPT ![row.user] = @ + Back(row)]
               /\ rows' = [rows EXCEPT ![w] =
                    [row EXCEPT !.status = status, !.fee = FeeReturned(row)]]
               /\ returned' = [returned EXCEPT ![w] = @ + Back(row)]
          ELSE /\ rows' = [rows EXCEPT ![w] = [row EXCEPT !.status = status]]
               /\ UNCHANGED <<wallet, returned>>
       /\ EndsAgain(w)
    /\ Finishes(q)
    /\ UNCHANGED <<lock, jobs, gateway, spent>>

\* An administrator has paid: looked up and written in one transaction, but the
\* row is not locked in between.
ApproveWithdrawal(q, w) ==
    /\ Pending(w)
    /\ Starts(q, [kind |-> "approve", id |-> w])
    /\ UNCHANGED <<wallet, rows, lock, jobs, gateway, spent, ghosts>>
CommitApproval(q) ==
    /\ Handles(q, "approve")
    /\ LET w == handler[q].id IN
       /\ rows' = [rows EXCEPT ![w] = [rows[w] EXCEPT !.status = "completed"]]
       /\ EndsAgain(w)
    /\ Finishes(q)
    /\ UNCHANGED <<wallet, lock, jobs, gateway, spent, returned>>

-----------------------------------------------------------------------------
(* The gateway, orders, time and failures.                                 *)

\* The request reaches the gateway, or is lost on the way.
TriggerDisbursement(w) ==
    /\ w \in jobs /\ jobs' = jobs \ {w}
    /\ \/ UNCHANGED gateway
       \/ /\ gateway[w] = "unasked"
          /\ \E answer \in {"paid", "refused"} :
               gateway' = [gateway EXCEPT ![w] = answer]
    /\ UNCHANGED <<wallet, rows, lock, handler, spent, ghosts>>

\* A server that starts asks again for what is pending for five minutes.
RecoverPendingWithdrawals(w) ==
    /\ Pending(w) /\ ~rows[w].channel.manual /\ w \notin jobs
    /\ jobs' = jobs \cup {w}
    /\ UNCHANGED <<wallet, rows, lock, handler, gateway, spent, ghosts>>

\* An order takes from the wallet.
Spend(u, amount) ==
    /\ wallet[u] >= amount
    /\ wallet' = [wallet EXCEPT ![u] = @ - amount]
    /\ spent' = [spent EXCEPT ![u] = @ + amount]
    /\ UNCHANGED <<rows, lock, handler, jobs, gateway, ghosts>>

Midnight ==
    /\ \E w \in Withdrawals : Stored(w) /\ rows[w].today
    /\ rows' = [w \in Withdrawals |->
                  IF Stored(w) THEN [rows[w] EXCEPT !.today = FALSE] ELSE NoWithdrawal]
    /\ UNCHANGED <<wallet, lock, handler, jobs, gateway, spent, ghosts>>

\* The server of a request dies: its transaction is rolled back, its lock stays.
Crash(q) ==
    /\ handler[q] # Resting /\ Finishes(q)
    /\ lock' = [u \in Users |-> IF lock[u] = q THEN Orphan ELSE lock[u]]
    /\ UNCHANGED <<wallet, rows, jobs, gateway, spent, ghosts>>

LockExpires(u) ==
    /\ lock[u] = Orphan \/ (LockMayExpire /\ lock[u] # NotLocked)
    /\ lock' = [lock EXCEPT ![u] = NotLocked]
    /\ UNCHANGED <<wallet, rows, handler, jobs, gateway, spent, ghosts>>

WithdrawalNext ==
    \/ \E q \in Handlers, u \in Users, a \in Amounts, c \in Channels :
         RequestWithdrawal(q, u, a, c)
    \/ \E q \in Handlers : \/ RequestFails(q) \/ CheckLimit(q) \/ CheckBalance(q)
                        \/ FinalizeWithdrawal(q) \/ CommitApproval(q) \/ Crash(q)
    \/ \E q \in Handlers, w \in Withdrawals :
         \/ Deduct(q, w) \/ CancelWithdrawal(q, w)
         \/ WebhookDisbursement(q, w) \/ ApproveWithdrawal(q, w)
    \/ \E w \in Withdrawals : TriggerDisbursement(w) \/ RecoverPendingWithdrawals(w)
    \/ \E u \in Users : LockExpires(u) \/ \E a \in Amounts : Spend(u, a)
    \/ Midnight

WithdrawalSpec == WithdrawalInit /\ [][WithdrawalNext]_withdrawalVars

-----------------------------------------------------------------------------
(* Properties.                                                             *)

Of(u) == {w \in Withdrawals : Stored(w) /\ rows[w].user = u}
Owed(u) == {w \in Of(u) : rows[w].status \in {"pending", "completed"}}
Out(u) == SumFunction([w \in Owed(u) |-> WithFee(rows[w])])
Kept(u) == wallet[u] + spent[u] + Out(u)
Intact(u) == Of(u) \cap raced = {}

\* However requests race, a user never loses money: what is missing from the
\* balance is in a withdrawal that is pending or was paid.  And nobody gains any,
\* as long as no withdrawal was ended twice.
MoneyKept == \A u \in Users : Kept(u) >= Funds[u] /\ (Intact(u) => Kept(u) = Funds[u])

Refunded(row) == row.status \in {"rejected", "failed"}
ReturnedFor(w) == IF Stored(w) /\ Refunded(rows[w]) THEN WithFee(rows[w]) ELSE 0
FeeAgrees(row) ==
    row.fee = IF Fee(row.channel, row.amount) = 0 THEN "none"
              ELSE IF Refunded(row) THEN "returned" ELSE "charged"

\* Amount and fee are given back together, once, exactly for withdrawals that
\* were rejected or failed; the fee row says so.
RefundAgrees ==
    \A w \in Withdrawals \ raced : /\ returned[w] = ReturnedFor(w)
                                   /\ Stored(w) => FeeAgrees(rows[w])

\* A user without e-KYC does not withdraw more in a day than the limit allows.
\* (Provided the sum can be read, the lock outlives the request, and no
\* withdrawal was ended twice.)
LimitKept ==
    \A u \in Users \ Verified : Intact(u) => Asked(Today(u)) <= DailyLimit

\* Money is given back as failed only if the gateway refused the transfer.
FailedIsRefused ==
    \A w \in Withdrawals \ raced :
        Stored(w) /\ rows[w].status = "failed" => gateway[w] = "refused"

=============================================================================
