---------------------------- MODULE Wallet_proofs ----------------------------
(***************************************************************************)
(* The proofs of Withdrawal and of Payments, the two sides of a wallet.    *)
(*                                                                         *)
(* Withdrawal.  What is given back agrees with how a withdrawal ended, no  *)
(* user loses money however requests race, and the daily limit is kept:    *)
(* the three invariants of WithdrawalInv, one on top of the other.         *)
(*                                                                         *)
(* Payments.  PaymentInv is invariant, whatever requests, notifications    *)
(* and failures do.  A top-up is credited once, with what was paid for it; *)
(* what waits for a payment and holds its reservation waits for a sum of   *)
(* its own; and a notification whose booking was neither interrupted nor   *)
(* doubled is counted once, for who paid.                                  *)
(***************************************************************************)
EXTENDS WithdrawalInv, PaymentsInv, Sums, FiniteSetTheorems, TLAPS

-----------------------------------------------------------------------------
(* Withdrawal: amounts.                                                    *)

\* A fee is a natural number.
LEMMA FeeType ==
    ASSUME NEW c \in Channels, NEW a \in Amounts
    PROVE  Fee(c, a) \in Nat
  <1>1. c.flat \in Nat /\ c.percent \in Nat /\ a \in Nat
    BY WithdrawalAssumption DEF Channel
  <1> DEFINE n == a * c.percent
  <1>2. n \in Nat
    BY <1>1
  <1> HIDE DEF n
  <1>3. n \div 100 \in Nat
    BY <1>2
  <1> QED
    BY <1>1, <1>3 DEF Fee, n

\* So are what a request takes and what a withdrawal gives back.
LEMMA ChargeType ==
    ASSUME NEW r, r.channel \in Channels, r.amount \in Amounts
    PROVE  Charge(r) \in Nat /\ WithFee(r) \in Nat /\ Back(r) \in Nat
  <1>1. Fee(r.channel, r.amount) \in Nat
    BY FeeType
  <1>2. r.amount \in Nat
    BY WithdrawalAssumption
  <1> QED
    BY <1>1, <1>2 DEF Charge, WithFee, Back

\* A pending withdrawal whose fee row agrees gives back all that was taken.
LEMMA BackIsTotal ==
    ASSUME NEW row \in Row, row.status = "pending", FeeAgrees(row)
    PROVE  Back(row) = WithFee(row)
  <1>1. Fee(row.channel, row.amount) \in Nat
    BY FeeType DEF Row
  <1>2. row.amount \in Nat
    BY WithdrawalAssumption DEF Row
  <1>3. row.fee = "none" <=> Fee(row.channel, row.amount) = 0
    BY DEF FeeAgrees, Refunded
  <1> QED
    BY <1>1, <1>2, <1>3 DEF Back, WithFee

\* A withdrawal that is stored is a row, and a request is of its kind.
LEMMA RowType ==
    ASSUME WithdrawalTypeOK, NEW w \in Withdrawals, Stored(w)
    PROVE  rows[w] \in Row
  BY DEF WithdrawalTypeOK, Stored

LEMMA RequestType ==
    ASSUME WithdrawalTypeOK, NEW q \in Handlers
    PROVE  /\ Handles(q, "request") => handler[q] \in Request
           /\ Handles(q, "finalize") => handler[q] \in Finalize
           /\ Handles(q, "approve") => handler[q] \in Approve
  BY DEF WithdrawalTypeOK, Handles, Request, Finalize, Approve

-----------------------------------------------------------------------------
(* Steps that leave the ledger alone.                                      *)

\* The ledger: rows, what was given back, and what the gateway decided.
LEMMA LedgerKept ==
    ASSUME RefundAgrees, FailedIsRefused, UNCHANGED <<rows, returned, raced, gateway>>
    PROVE  RefundAgrees' /\ FailedIsRefused'
  BY DEF RefundAgrees, FailedIsRefused, ReturnedFor, FeeAgrees, Refunded, Stored,
         WithFee, Fee

\* Who ends or gives up a request leaves the others their grounds.
LEMMA GroundsKept ==
    ASSUME EndsOnGrounds, WithdrawalTypeOK, NEW q \in Handlers, Finishes(q),
           UNCHANGED gateway, \A w \in Withdrawals : Stored(w) => Stored(w)'
    PROVE  EndsOnGrounds'
  <1>1. SUFFICES ASSUME NEW p \in Handlers, (Handles(p, "finalize") \/ Handles(p, "approve"))'
                 PROVE  /\ Stored(handler[p].id)'
                        /\ (Handles(p, "finalize") /\ handler[p].status = "failed")'
                             => gateway'[handler'[p].id] = "refused"
    BY DEF EndsOnGrounds
  <1>2. p # q /\ handler'[p] = handler[p]
    BY <1>1 DEF Finishes, WithdrawalTypeOK, Handles
  <1>3. Handles(p, "finalize") \/ Handles(p, "approve")
    BY <1>1, <1>2 DEF Handles
  <1>4. handler[p].id \in Withdrawals
    BY <1>3, RequestType DEF Finalize, Approve
  <1>5. Stored(handler[p].id) /\ (Handles(p, "finalize") /\ handler[p].status = "failed"
                                => gateway[handler[p].id] = "refused")
    BY <1>3 DEF EndsOnGrounds
  <1>6. Stored(handler[p].id)'
    BY <1>2, <1>4, <1>5 DEF Stored
  <1> QED
    BY <1>2, <1>5, <1>6 DEF Handles

\* Locks stay locks of requests.
LEMMA UnlockType ==
    ASSUME WithdrawalTypeOK, NEW q \in Handlers, Unlock(q)
    PROVE  lock' \in [Users -> Handlers \cup {NotLocked, Orphan}]
  BY DEF WithdrawalTypeOK, Unlock

LEMMA RequestSteps ==
    ASSUME RefundInv, NEW q \in Handlers,
           \/ \E u \in Users, a \in Amounts, c \in Channels :
                RequestWithdrawal(q, u, a, c)
           \/ CheckLimit(q) \/ CheckBalance(q)
    PROVE  RefundInv'
  <1>1. PICK r \in Request : handler' = [handler EXCEPT ![q] = r]
    <2>1. ASSUME NEW u \in Users, NEW a \in Amounts, NEW c \in Channels,
                 RequestWithdrawal(q, u, a, c)
          PROVE  \E r \in Request : handler' = [handler EXCEPT ![q] = r]
      BY <2>1 DEF RequestWithdrawal, Starts, Request
    <2>2. ASSUME Handles(q, "request"), NEW step \in {"limit", "balance", "deduct"},
                 GoesOn(q, step)
          PROVE  \E r \in Request : handler' = [handler EXCEPT ![q] = r]
      <3>1. PICK old \in Request : old = handler[q]
        BY <2>2, RequestType DEF RefundInv
      <3>2. [old EXCEPT !.step = step] \in Request
        BY DEF Request
      <3>3. handler' = [handler EXCEPT ![q] = [old EXCEPT !.step = step]]
        BY <2>2, <3>1 DEF GoesOn
      <3> QED
        BY <3>2, <3>3
    <2> QED
      BY <2>1, <2>2 DEF CheckLimit, CheckBalance, Asks
  <1>2. UNCHANGED <<wallet, rows, jobs, gateway, spent, returned, raced>>
    BY DEF RequestWithdrawal, CheckLimit, CheckBalance, ghosts
  <1>3. lock' \in [Users -> Handlers \cup {NotLocked, Orphan}]
    BY DEF RequestWithdrawal, CheckLimit, CheckBalance, RefundInv, WithdrawalTypeOK
  <1>4. WithdrawalTypeOK'
    BY <1>1, <1>2, <1>3 DEF RefundInv, WithdrawalTypeOK
  <1>5. EndsOnGrounds'
    BY <1>1, <1>2 DEF RefundInv, EndsOnGrounds, WithdrawalTypeOK, Handles, Request, Stored
  <1> QED
    BY <1>2, <1>4, <1>5, LedgerKept DEF RefundInv

LEMMA RequestEnds ==
    ASSUME RefundInv, NEW q \in Handlers, RequestFails(q) \/ Crash(q)
    PROVE  RefundInv'
  <1>1. Finishes(q) /\ UNCHANGED <<wallet, rows, jobs, gateway, spent, returned, raced>>
    BY DEF RequestFails, Crash, ghosts
  <1>2. lock' \in [Users -> Handlers \cup {NotLocked, Orphan}]
    BY UnlockType DEF RequestFails, Crash, RefundInv, WithdrawalTypeOK
  <1>3. WithdrawalTypeOK'
    BY <1>1, <1>2 DEF RefundInv, WithdrawalTypeOK, Finishes
  <1>4. EndsOnGrounds'
    BY <1>1, GroundsKept DEF RefundInv, Stored
  <1> QED
    BY <1>1, <1>3, <1>4, LedgerKept DEF RefundInv

\* Who decides to end a withdrawal found it pending, and calls it failed because
\* the gateway refused.
LEMMA EndingBegins ==
    ASSUME RefundInv, NEW q \in Handlers, NEW w \in Withdrawals,
           \/ CancelWithdrawal(q, w) \/ WebhookDisbursement(q, w)
           \/ ApproveWithdrawal(q, w)
    PROVE  RefundInv'
  <1>1. /\ Stored(w)
        /\ UNCHANGED <<wallet, rows, lock, jobs, gateway, spent, returned, raced>>
    BY DEF CancelWithdrawal, WebhookDisbursement, ApproveWithdrawal, Pending, ghosts
  <1>2. PICK r \in Finalize \cup Approve :
          /\ handler' = [handler EXCEPT ![q] = r] /\ r.id = w
          /\ r.kind = "finalize" /\ r.status = "failed" => gateway[w] = "refused"
    <2>1. CASE CancelWithdrawal(q, w)
      <3> DEFINE r == [kind |-> "finalize", id |-> w, status |-> "rejected"]
      <3>1. r \in Finalize /\ r.id = w /\ r.status = "rejected"
        BY DEF Finalize, Ended
      <3>2. handler' = [handler EXCEPT ![q] = r]
        BY <2>1 DEF CancelWithdrawal, Starts
      <3> HIDE DEF r
      <3> QED
        BY <3>1, <3>2
    <2>2. CASE WebhookDisbursement(q, w)
      <3> DEFINE v == Verdict(w)
                 r == [kind |-> "finalize", id |-> w, status |-> v]
      <3>1. v \in Ended /\ (v = "failed" => gateway[w] = "refused")
        BY <2>2 DEF WebhookDisbursement, Verdict, Ended, RefundInv, WithdrawalTypeOK
      <3>2. handler' = [handler EXCEPT ![q] = r]
        BY <2>2 DEF WebhookDisbursement, Starts
      <3> HIDE DEF v
      <3>3. r \in Finalize /\ r.id = w /\ r.status = v
        BY <3>1 DEF Finalize
      <3> HIDE DEF r
      <3> QED
        BY <3>1, <3>2, <3>3
    <2>3. CASE ApproveWithdrawal(q, w)
      <3> DEFINE r == [kind |-> "approve", id |-> w]
      <3>1. r \in Approve /\ r.id = w /\ r.kind # "finalize"
        BY DEF Approve
      <3>2. handler' = [handler EXCEPT ![q] = r]
        BY <2>3 DEF ApproveWithdrawal, Starts
      <3> HIDE DEF r
      <3> QED
        BY <3>1, <3>2
    <2> QED
      BY <2>1, <2>2, <2>3
  <1>3. WithdrawalTypeOK'
    BY <1>1, <1>2 DEF RefundInv, WithdrawalTypeOK
  <1>4. EndsOnGrounds'
    BY <1>1, <1>2 DEF RefundInv, EndsOnGrounds, WithdrawalTypeOK, Handles, Stored
  <1> QED
    BY <1>1, <1>3, <1>4, LedgerKept DEF RefundInv

-----------------------------------------------------------------------------
(* Steps that change the ledger.                                           *)

\* The row that a request writes.
LEMMA DeductRow ==
    ASSUME WithdrawalTypeOK, NEW q \in Handlers, NEW w \in Withdrawals, Deduct(q, w),
           NEW r \in Request, r = handler[q]
    PROVE  \E row \in Row :
             /\ rows' = [rows EXCEPT ![w] = row]
             /\ row.user = r.user /\ row.status = "pending" /\ row.today
             /\ row.channel = r.channel /\ row.amount = r.amount
             /\ row.fee = FeeRow(r.channel, r.amount)
  <1>1. r.user \in Users /\ r.amount \in Amounts /\ r.channel \in Channels
    BY DEF Request
  <1> DEFINE fee == FeeRow(r.channel, r.amount)
             row == [user |-> r.user, amount |-> r.amount, channel |-> r.channel,
                     status |-> "pending", fee |-> fee, today |-> TRUE]
  <1>2. fee \in {"none", "charged", "returned"}
    BY DEF FeeRow
  <1>3. rows' = [rows EXCEPT ![w] = row]
    BY DEF Deduct
  <1> HIDE DEF fee
  <1>4. row \in Row
    BY <1>1, <1>2 DEF Row
  <1>5. row.user = r.user /\ row.status = "pending" /\ row.today /\ row.fee = fee
        /\ row.channel = r.channel /\ row.amount = r.amount
    OBVIOUS
  <1> HIDE DEF row
  <1> QED
    BY <1>3, <1>4, <1>5 DEF fee

\* A new withdrawal has given nothing back, and its fee is charged.
LEMMA DeductStep ==
    ASSUME RefundInv, NEW q \in Handlers, NEW w \in Withdrawals, Deduct(q, w)
    PROVE  RefundInv'
  <1>1. PICK r \in Request : r = handler[q]
    BY RequestType DEF Deduct, Asks, RefundInv
  <1>2. /\ r.user \in Users /\ r.amount \in Amounts /\ r.channel \in Channels
        /\ Charge(r) \in Nat
    BY <1>1, ChargeType DEF Request
  <1>3. PICK row \in Row : /\ rows' = [rows EXCEPT ![w] = row]
                           /\ row.status = "pending" /\ row.channel = r.channel
                           /\ row.amount = r.amount
                           /\ row.fee = FeeRow(r.channel, r.amount)
    BY <1>1, DeductRow DEF RefundInv
  <1>4. wallet' \in [Users -> Nat]
    <2>1. wallet[r.user] \in Nat /\ wallet[r.user] >= Charge(r)
      BY <1>1, <1>2 DEF Deduct, CanTake, RefundInv, WithdrawalTypeOK
    <2> DEFINE b == wallet[r.user] - Charge(r)
    <2>2. b \in Nat
      BY <2>1, <1>2
    <2>3. wallet' = [wallet EXCEPT ![r.user] = b]
      BY <1>1 DEF Deduct
    <2> HIDE DEF b
    <2> QED
      BY <2>2, <2>3 DEF RefundInv, WithdrawalTypeOK
  <1>5. /\ Finishes(q) /\ Unlock(q) /\ ~Stored(w)
        /\ UNCHANGED <<gateway, spent, returned, raced>>
    BY DEF Deduct, ghosts
  <1>6. jobs' \subseteq Withdrawals
    BY DEF Deduct, RefundInv, WithdrawalTypeOK
  <1>7. WithdrawalTypeOK'
    BY <1>3, <1>4, <1>5, <1>6, UnlockType DEF RefundInv, WithdrawalTypeOK, Finishes
  <1>8. row # NoWithdrawal
    BY SentinelsAssumption
  <1>9. EndsOnGrounds'
    <2>1. \A x \in Withdrawals : Stored(x) => Stored(x)'
      BY <1>3, <1>8 DEF Stored, RefundInv, WithdrawalTypeOK
    <2> QED
      BY <2>1, <1>5, GroundsKept DEF RefundInv
  <1>10. \A x \in Withdrawals \ {w} : rows'[x] = rows[x]
    BY <1>3 DEF RefundInv, WithdrawalTypeOK
  <1>11. rows'[w] = row
    BY <1>3 DEF RefundInv, WithdrawalTypeOK
  <1>12. FeeAgrees(row)
    <2>1. Fee(r.channel, r.amount) \in Nat
      BY <1>2, FeeType
    <2> QED
      BY <2>1, <1>3 DEF FeeAgrees, FeeRow, Refunded
  <1>13. ASSUME NEW x \in Withdrawals \ raced
         PROVE  /\ returned'[x] = ReturnedFor(x)'
                /\ Stored(x)' => FeeAgrees(rows'[x])
                /\ Stored(x)' /\ rows'[x].status = "failed" => gateway'[x] = "refused"
    <2>1. CASE x = w
      <3>1. returned[w] = 0
        BY <2>1, <1>5 DEF RefundInv, RefundAgrees, ReturnedFor
      <3>2. ReturnedFor(w)' = 0
        BY <1>3, <1>11 DEF ReturnedFor, Refunded
      <3> QED
        BY <2>1, <3>1, <3>2, <1>3, <1>5, <1>11, <1>12
    <2>2. CASE x # w
      <3>1. Stored(x)' <=> Stored(x)
        BY <2>2, <1>10 DEF Stored
      <3>2. ReturnedFor(x)' = ReturnedFor(x)
        BY <2>2, <3>1, <1>10 DEF ReturnedFor
      <3> QED
        BY <2>2, <3>1, <3>2, <1>5, <1>10 DEF RefundInv, RefundAgrees, FailedIsRefused
    <2> QED
      BY <2>1, <2>2
  <1>14. RefundAgrees' /\ FailedIsRefused'
    BY <1>13, <1>5 DEF RefundAgrees, FailedIsRefused
  <1> QED
    BY <1>7, <1>9, <1>14 DEF RefundInv

\* What ending a withdrawal writes: the row, and the money that is given back.
Ends(w, old, new) ==
    /\ rows[w] = old /\ rows' = [rows EXCEPT ![w] = new]
    /\ new.user = old.user /\ new.amount = old.amount
    /\ new.channel = old.channel /\ new.today = old.today
    /\ new.fee = IF GivesBack(new.status) THEN FeeReturned(old) ELSE old.fee
    /\ new.status \in Ended /\ (new.status = "failed" => gateway[w] = "refused")
    /\ IF GivesBack(new.status)
       THEN /\ wallet' = [wallet EXCEPT ![old.user] = @ + Back(old)]
            /\ returned' = [returned EXCEPT ![w] = @ + Back(old)]
       ELSE UNCHANGED <<wallet, returned>>
    /\ raced' = IF old.status = "pending" THEN raced ELSE raced \cup {w}

\* Whoever ends a withdrawal writes that, and is done.
LEMMA EndingRow ==
    ASSUME WithdrawalTypeOK, EndsOnGrounds, NEW q \in Handlers,
           FinalizeWithdrawal(q) \/ CommitApproval(q)
    PROVE  /\ Finishes(q) /\ UNCHANGED <<lock, jobs, gateway, spent>>
           /\ \E w \in Withdrawals, old \in Row, new \in Row : Ends(w, old, new)
  <1>1. PICK w \in Withdrawals : w = handler[q].id
    BY RequestType DEF FinalizeWithdrawal, CommitApproval, Finalize, Approve
  <1>2. PICK old \in Row : old = rows[w] /\ old # NoWithdrawal
    BY <1>1, RowType DEF FinalizeWithdrawal, CommitApproval, EndsOnGrounds, Stored
  <1>3. PICK status \in Ended :
          /\ Handles(q, "finalize") => status = handler[q].status
          /\ Handles(q, "approve") => status = "completed"
          /\ status = "failed" => gateway[w] = "refused"
    <2>1. CASE Handles(q, "finalize")
      BY <1>1, <2>1, RequestType DEF EndsOnGrounds, Finalize, Handles
    <2>2. CASE Handles(q, "approve")
      BY <2>2 DEF Handles, Ended
    <2> QED
      BY <2>1, <2>2 DEF FinalizeWithdrawal, CommitApproval
  <1>4. /\ Finishes(q) /\ UNCHANGED <<lock, jobs, gateway, spent>>
        /\ raced' = IF old.status = "pending" THEN raced ELSE raced \cup {w}
    BY <1>1, <1>2 DEF FinalizeWithdrawal, CommitApproval, EndsAgain, Pending, Stored
  <1>5. CASE GivesBack(status)
    <2> DEFINE fee == FeeReturned(old)
               new == [old EXCEPT !.status = status, !.fee = fee]
    <2>1. fee \in {"none", "charged", "returned"}
      BY DEF FeeReturned
    <2>2. Handles(q, "finalize")
      BY <1>3, <1>5 DEF FinalizeWithdrawal, CommitApproval, GivesBack
    <2>3. /\ rows' = [rows EXCEPT ![w] = new]
          /\ wallet' = [wallet EXCEPT ![old.user] = @ + Back(old)]
          /\ returned' = [returned EXCEPT ![w] = @ + Back(old)]
      BY <1>1, <1>2, <1>3, <1>5, <2>2 DEF FinalizeWithdrawal, CommitApproval, Handles
    <2> HIDE DEF fee
    <2>4. /\ new \in Row /\ new.status = status /\ new.channel = old.channel
          /\ new.amount = old.amount /\ new.fee = fee
          /\ new.user = old.user /\ new.today = old.today
      BY <2>1 DEF Row, Ended
    <2> HIDE DEF new
    <2>5. Ends(w, old, new)
      BY <1>2, <1>3, <1>4, <1>5, <2>3, <2>4 DEF Ends, fee
    <2> QED
      BY <1>4, <2>4, <2>5
  <1>6. CASE ~GivesBack(status)
    <2> DEFINE new == [old EXCEPT !.status = status]
    <2>1. rows' = [rows EXCEPT ![w] = new] /\ UNCHANGED <<wallet, returned>>
      BY <1>1, <1>2, <1>3, <1>6 DEF FinalizeWithdrawal, CommitApproval, Handles
    <2>2. /\ new \in Row /\ new.status = status /\ new.channel = old.channel
          /\ new.amount = old.amount /\ new.fee = old.fee
          /\ new.user = old.user /\ new.today = old.today
      BY DEF Row, Ended
    <2> HIDE DEF new
    <2>3. Ends(w, old, new)
      BY <1>2, <1>3, <1>4, <1>6, <2>1, <2>2 DEF Ends
    <2> QED
      BY <1>4, <2>2, <2>3
  <1> QED
    BY <1>5, <1>6

\* The first end of a withdrawal gives back what its status says; a second one
\* is noted as a race.
LEMMA EndingStep ==
    ASSUME RefundInv, NEW q \in Handlers, FinalizeWithdrawal(q) \/ CommitApproval(q)
    PROVE  RefundInv'
  <1>1. PICK w \in Withdrawals, old \in Row, new \in Row : Ends(w, old, new)
    BY EndingRow DEF RefundInv
  <1>2. old = rows[w] /\ old # NoWithdrawal
    BY <1>1, SentinelsAssumption DEF Ends
  <1> DEFINE status == new.status
  <1>3. status \in Ended /\ (status = "failed" => gateway[w] = "refused")
    BY <1>1 DEF Ends
  <1> HIDE DEF status
  <1>4. PICK back \in Nat : /\ back = IF GivesBack(status) THEN Back(old) ELSE 0
                            /\ Back(old) \in Nat
    BY <1>2, ChargeType DEF Row
  <1>5. /\ rows' = [rows EXCEPT ![w] = new]
        /\ new.status = status /\ new.channel = old.channel
        /\ new.amount = old.amount
        /\ new.fee = IF GivesBack(status) THEN FeeReturned(old) ELSE old.fee
    BY <1>1 DEF Ends, status
  <1>6. /\ returned' = [returned EXCEPT ![w] = returned[w] + back]
        /\ wallet' \in [Users -> Nat]
    <2>1. old.user \in Users
      BY DEF Row
    <2>2. wallet[old.user] \in Nat /\ returned[w] \in Nat
      BY <2>1 DEF RefundInv, WithdrawalTypeOK
    <2>3. CASE GivesBack(status)
      <3>1. /\ returned' = [returned EXCEPT ![w] = @ + Back(old)]
            /\ wallet' = [wallet EXCEPT ![old.user] = @ + Back(old)]
        BY <2>3, <1>1 DEF Ends, status
      <3>2. back = Back(old)
        BY <2>3, <1>4
      <3> QED
        BY <2>1, <2>2, <3>1, <3>2 DEF RefundInv, WithdrawalTypeOK
    <2>4. CASE ~GivesBack(status)
      <3>1. UNCHANGED <<wallet, returned>>
        BY <2>4, <1>1 DEF Ends, status
      <3>2. back = 0
        BY <2>4, <1>4
      <3>3. returned[w] + back = returned[w]
        BY <2>2, <3>2
      <3> QED
        BY <3>1, <3>3 DEF RefundInv, WithdrawalTypeOK
    <2> QED
      BY <2>3, <2>4
  <1>7. /\ Finishes(q) /\ UNCHANGED <<lock, jobs, gateway, spent>>
        /\ raced' = IF old.status = "pending" THEN raced ELSE raced \cup {w}
    BY <1>1, EndingRow DEF Ends, RefundInv
  <1>8. returned' \in [Withdrawals -> Nat]
    <2>1. returned[w] + back \in Nat
      BY DEF RefundInv, WithdrawalTypeOK
    <2> QED
      BY <1>6, <2>1 DEF RefundInv, WithdrawalTypeOK
  <1>9. WithdrawalTypeOK'
    BY <1>5, <1>6, <1>7, <1>8 DEF RefundInv, WithdrawalTypeOK, Finishes
  <1>10. new # NoWithdrawal
    BY SentinelsAssumption
  <1>11. EndsOnGrounds'
    <2>1. \A x \in Withdrawals : Stored(x) => Stored(x)'
      BY <1>5, <1>10 DEF Stored, RefundInv, WithdrawalTypeOK
    <2> QED
      BY <2>1, <1>7, GroundsKept DEF RefundInv
  <1>12. rows'[w] = new /\ returned'[w] = returned[w] + back
    BY <1>5, <1>6 DEF RefundInv, WithdrawalTypeOK
  <1>13. \A x \in Withdrawals \ {w} : rows'[x] = rows[x] /\ returned'[x] = returned[x]
    BY <1>5, <1>6 DEF RefundInv, WithdrawalTypeOK
  <1>14. ASSUME NEW x \in Withdrawals \ raced'
         PROVE  /\ returned'[x] = ReturnedFor(x)'
                /\ Stored(x)' => FeeAgrees(rows'[x])
                /\ Stored(x)' /\ rows'[x].status = "failed" => gateway'[x] = "refused"
    <2>1. CASE x = w
      <3>1. old.status = "pending" /\ w \notin raced
        BY <2>1, <1>7
      <3>2. Stored(w) /\ FeeAgrees(old) /\ returned[w] = 0
        BY <3>1, <1>2 DEF RefundInv, RefundAgrees, ReturnedFor, Refunded, Stored
      <3>3. Back(old) = WithFee(old)
        BY <3>1, <3>2, BackIsTotal
      <3>4. WithFee(new) = WithFee(old)
        BY <1>5 DEF WithFee
      <3>5. Refunded(new) <=> GivesBack(status)
        BY <1>5 DEF Refunded, GivesBack
      <3>6. returned'[w] = back
        BY <1>12, <3>2
      <3>7. ReturnedFor(w)' = IF Refunded(new) THEN WithFee(new) ELSE 0
        BY <1>10, <1>12 DEF ReturnedFor, Stored, Refunded, WithFee, Fee
      <3>8. FeeAgrees(new)
        <4>1. old.fee = IF Fee(old.channel, old.amount) = 0 THEN "none" ELSE "charged"
          BY <3>1, <3>2 DEF FeeAgrees, Refunded
        <4> QED
          BY <4>1, <1>5, <3>5 DEF FeeAgrees, FeeReturned
      <3> QED
        BY <2>1, <1>3, <1>4, <1>5, <1>7, <1>12, <3>3, <3>4, <3>5, <3>6, <3>7, <3>8
    <2>2. CASE x # w
      <3>1. Stored(x)' <=> Stored(x)
        BY <2>2, <1>13 DEF Stored
      <3>2. ReturnedFor(x)' = ReturnedFor(x)
        BY <2>2, <3>1, <1>13 DEF ReturnedFor
      <3>3. x \in Withdrawals \ raced
        BY <1>7
      <3> QED
        BY <2>2, <3>1, <3>2, <3>3, <1>7, <1>13 DEF RefundInv, RefundAgrees, FailedIsRefused
    <2> QED
      BY <2>1, <2>2
  <1>15. RefundAgrees' /\ FailedIsRefused'
    BY <1>14 DEF RefundAgrees, FailedIsRefused
  <1> QED
    BY <1>9, <1>11, <1>15 DEF RefundInv

-----------------------------------------------------------------------------
(* The world around.                                                       *)

\* The gateway decides a transfer once: a refusal is never taken back.
LEMMA GatewayStep ==
    ASSUME RefundInv, NEW w \in Withdrawals, TriggerDisbursement(w)
    PROVE  RefundInv'
  <1>1. UNCHANGED <<wallet, rows, lock, handler, spent, returned, raced>>
    BY DEF TriggerDisbursement, ghosts
  <1>2. WithdrawalTypeOK'
    BY <1>1 DEF TriggerDisbursement, RefundInv, WithdrawalTypeOK
  <1>3. \A x \in Withdrawals : gateway[x] = "refused" => gateway'[x] = "refused"
    BY DEF TriggerDisbursement, RefundInv, WithdrawalTypeOK
  <1>4. EndsOnGrounds'
    <2>1. SUFFICES ASSUME NEW q \in Handlers, Handles(q, "finalize") \/ Handles(q, "approve")
                   PROVE  /\ Stored(handler[q].id)
                          /\ Handles(q, "finalize") /\ handler[q].status = "failed"
                               => gateway'[handler[q].id] = "refused"
      BY <1>1 DEF EndsOnGrounds, Handles, Stored
    <2>2. handler[q].id \in Withdrawals
      BY <2>1, RequestType DEF RefundInv, Finalize, Approve
    <2> QED
      BY <2>1, <2>2, <1>3 DEF RefundInv, EndsOnGrounds
  <1>5. RefundAgrees'
    BY <1>1 DEF RefundInv, RefundAgrees, ReturnedFor, FeeAgrees, Refunded, Stored,
                WithFee, Fee
  <1>6. FailedIsRefused'
    BY <1>1, <1>3 DEF RefundInv, FailedIsRefused, Stored
  <1> QED
    BY <1>2, <1>4, <1>5, <1>6 DEF RefundInv

LEMMA EnvironmentStep ==
    ASSUME RefundInv,
           \/ \E w \in Withdrawals : RecoverPendingWithdrawals(w)
           \/ \E u \in Users : LockExpires(u) \/ \E a \in Amounts : Spend(u, a)
    PROVE  RefundInv'
  <1>1. UNCHANGED <<rows, handler, gateway, returned, raced>>
    BY DEF RecoverPendingWithdrawals, LockExpires, Spend, ghosts
  <1>2. WithdrawalTypeOK'
    <2>1. ASSUME NEW u \in Users, NEW a \in Amounts, Spend(u, a)
          PROVE  WithdrawalTypeOK'
      <3>1. a \in Nat /\ wallet[u] \in Nat /\ spent[u] \in Nat /\ wallet[u] >= a
        BY <2>1, WithdrawalAssumption DEF Spend, RefundInv, WithdrawalTypeOK
      <3>2. wallet[u] - a \in Nat /\ spent[u] + a \in Nat
        BY <3>1
      <3> QED
        BY <2>1, <3>2 DEF Spend, ghosts, RefundInv, WithdrawalTypeOK
    <2>2. ASSUME NEW w \in Withdrawals, RecoverPendingWithdrawals(w)
          PROVE  WithdrawalTypeOK'
      BY <2>2 DEF RecoverPendingWithdrawals, ghosts, RefundInv, WithdrawalTypeOK
    <2>3. ASSUME NEW u \in Users, LockExpires(u)
          PROVE  WithdrawalTypeOK'
      BY <2>3 DEF LockExpires, ghosts, RefundInv, WithdrawalTypeOK
    <2> QED
      BY <2>1, <2>2, <2>3
  <1>3. EndsOnGrounds'
    BY <1>1 DEF RefundInv, EndsOnGrounds, Handles, Stored
  <1> QED
    BY <1>1, <1>2, <1>3, LedgerKept DEF RefundInv

LEMMA MidnightStep ==
    ASSUME RefundInv, Midnight
    PROVE  RefundInv'
  <1>1. UNCHANGED <<wallet, lock, handler, jobs, gateway, spent, returned, raced>>
    BY DEF Midnight, ghosts
  <1>2. ASSUME NEW w \in Withdrawals
        PROVE  /\ Stored(w)' <=> Stored(w)
               /\ rows'[w] \in Row \cup {NoWithdrawal}
               /\ Stored(w) => /\ rows'[w].status = rows[w].status
                               /\ rows'[w].fee = rows[w].fee
                               /\ rows'[w].channel = rows[w].channel
                               /\ rows'[w].amount = rows[w].amount
    <2>1. CASE Stored(w)
      <3>1. PICK old \in Row : old = rows[w]
        BY <2>1, RowType DEF RefundInv
      <3>2. rows'[w] = [old EXCEPT !.today = FALSE]
        BY <2>1, <3>1 DEF Midnight
      <3> DEFINE new == [old EXCEPT !.today = FALSE]
      <3>3. /\ new \in Row /\ new.status = old.status /\ new.fee = old.fee
            /\ new.channel = old.channel /\ new.amount = old.amount
        BY DEF Row
      <3> HIDE DEF new
      <3>4. new # NoWithdrawal
        BY <3>3, SentinelsAssumption
      <3> QED
        BY <2>1, <3>1, <3>2, <3>3, <3>4 DEF Stored, new
    <2>2. CASE ~Stored(w)
      BY <2>2 DEF Midnight, Stored
    <2> QED
      BY <2>1, <2>2
  <1>3. WithdrawalTypeOK'
    <2>1. rows' = [w \in Withdrawals |-> rows'[w]]
      BY DEF Midnight
    <2>2. rows' \in [Withdrawals -> Row \cup {NoWithdrawal}]
      BY <1>2, <2>1
    <2> QED
      BY <1>1, <2>2 DEF RefundInv, WithdrawalTypeOK
  <1>4. EndsOnGrounds'
    <2>1. SUFFICES ASSUME NEW q \in Handlers, Handles(q, "finalize") \/ Handles(q, "approve")
                   PROVE  Stored(handler[q].id)'
      BY <1>1 DEF RefundInv, EndsOnGrounds, Handles, Stored
    <2>2. handler[q].id \in Withdrawals
      BY <2>1, RequestType DEF RefundInv, Finalize, Approve
    <2>3. Stored(handler[q].id)
      BY <2>1 DEF RefundInv, EndsOnGrounds
    <2> QED
      BY <2>2, <2>3, <1>1, <1>2 DEF Stored
  <1>5. ASSUME NEW w \in Withdrawals \ raced
        PROVE  /\ returned'[w] = ReturnedFor(w)'
               /\ Stored(w)' => FeeAgrees(rows'[w])
               /\ Stored(w)' /\ rows'[w].status = "failed" => gateway'[w] = "refused"
    <2>1. ReturnedFor(w)' = ReturnedFor(w)
      BY <1>2 DEF ReturnedFor, Refunded, WithFee, Fee
    <2>2. Stored(w) => (FeeAgrees(rows'[w]) <=> FeeAgrees(rows[w]))
      BY <1>2 DEF FeeAgrees, Refunded
    <2> QED
      BY <1>1, <1>2, <2>1, <2>2 DEF RefundInv, RefundAgrees, FailedIsRefused
  <1>6. RefundAgrees' /\ FailedIsRefused'
    BY <1>1, <1>5 DEF RefundAgrees, FailedIsRefused
  <1> QED
    BY <1>3, <1>4, <1>6 DEF RefundInv

-----------------------------------------------------------------------------
(* The theorems.                                                           *)

LEMMA InitRefund == WithdrawalInit => RefundInv
  <1>1. SUFFICES ASSUME WithdrawalInit PROVE RefundInv
    OBVIOUS
  <1>2. WithdrawalTypeOK
    BY <1>1, WithdrawalAssumption DEF WithdrawalInit, WithdrawalTypeOK
  <1>3. EndsOnGrounds
    BY <1>1 DEF WithdrawalInit, EndsOnGrounds, Handles
  <1>4. \A w \in Withdrawals : ~Stored(w)
    BY <1>1 DEF WithdrawalInit, Stored
  <1>5. RefundAgrees /\ FailedIsRefused
    BY <1>1, <1>4 DEF WithdrawalInit, RefundAgrees, FailedIsRefused, ReturnedFor
  <1> QED
    BY <1>2, <1>3, <1>5 DEF RefundInv

LEMMA NextRefund == RefundInv /\ [WithdrawalNext]_withdrawalVars => RefundInv'
  <1>1. SUFFICES ASSUME RefundInv, [WithdrawalNext]_withdrawalVars PROVE RefundInv'
    OBVIOUS
  <1>2. CASE UNCHANGED withdrawalVars
    <2>1. WithdrawalTypeOK' /\ EndsOnGrounds'
      BY <1>1, <1>2 DEF withdrawalVars, ghosts, RefundInv, WithdrawalTypeOK, EndsOnGrounds, Handles, Stored
    <2> QED
      BY <1>1, <1>2, <2>1, LedgerKept DEF withdrawalVars, RefundInv
  <1>3. CASE WithdrawalNext
    BY <1>1, <1>3, RequestSteps, RequestEnds, EndingBegins, DeductStep, EndingStep,
       GatewayStep, EnvironmentStep, MidnightStep DEF WithdrawalNext
  <1> QED
    BY <1>1, <1>2, <1>3

\* However the requests of users, administrators and the gateway interleave, a
\* withdrawal that was ended once gave back exactly what it took if it was
\* rejected or failed, and nothing otherwise.
THEOREM RefundInvariance == WithdrawalSpec => []RefundInv
  <1> QED
    BY InitRefund, NextRefund, PTL DEF WithdrawalSpec

\* Balances never become negative (the guard of UpdateWalletBalance).
THEOREM TypeCorrect == WithdrawalSpec => []WithdrawalTypeOK
  <1>1. RefundInv => WithdrawalTypeOK
    BY DEF RefundInv
  <1> QED
    BY <1>1, RefundInvariance, PTL

\* Amount and fee are returned together, for exactly the withdrawals that were
\* rejected or failed (FinalizeWithdrawal).
THEOREM RefundsAgree == WithdrawalSpec => []RefundAgrees
  <1>1. RefundInv => RefundAgrees
    BY DEF RefundInv
  <1> QED
    BY <1>1, RefundInvariance, PTL

\* A withdrawal is only given back as failed after the gateway refused it
\* (WebhookDisbursement).
THEOREM FailuresAreRefusals == WithdrawalSpec => []FailedIsRefused
  <1>1. RefundInv => FailedIsRefused
    BY DEF RefundInv
  <1> QED
    BY <1>1, RefundInvariance, PTL

-----------------------------------------------------------------------------
(* What users own: the balance, what they spent, and what is out in their  *)
(* withdrawals, a sum over the rows that are pending or paid.              *)

\* The withdrawals of a user that are pending or paid are finitely many, and
\* each is worth a natural number.
OwedIsTyped ==
    \A u \in Users :
      /\ IsFiniteSet(Owed(u)) /\ Owed(u) \subseteq Withdrawals
      /\ \A w \in Owed(u) : Stored(w) /\ WithFee(rows[w]) \in Nat

LEMMA OwedTypes == WithdrawalTypeOK /\ FinitelyMany => OwedIsTyped
  <1> SUFFICES ASSUME WithdrawalTypeOK, FinitelyMany, NEW u \in Users
               PROVE  /\ IsFiniteSet(Owed(u)) /\ Owed(u) \subseteq Withdrawals
                      /\ \A w \in Owed(u) : Stored(w) /\ WithFee(rows[w]) \in Nat
    BY DEF OwedIsTyped
  <1>1. Owed(u) \subseteq {w \in Withdrawals : Stored(w)}
    BY DEF Owed, Of
  <1>2. \A w \in Owed(u) : Stored(w) /\ WithFee(rows[w]) \in Nat
    <2>1. TAKE w \in Owed(u)
    <2>2. Stored(w) /\ rows[w] \in Row
      BY <1>1, RowType
    <2>3. PICK r : r = rows[w] /\ r.channel \in Channels /\ r.amount \in Amounts
      BY <2>2 DEF Row
    <2>4. WithFee(r) \in Nat
      BY <2>3, ChargeType
    <2> QED
      BY <2>2, <2>3, <2>4
  <1> QED
    BY <1>1, <1>2, FS_Subset DEF FinitelyMany

LEMMA OwedType ==
    ASSUME WithdrawalTypeOK, FinitelyMany, NEW u \in Users
    PROVE  /\ IsFiniteSet(Owed(u)) /\ Owed(u) \subseteq Withdrawals
           /\ \A w \in Owed(u) : Stored(w) /\ WithFee(rows[w]) \in Nat
  BY OwedTypes DEF OwedIsTyped

OutIsTyped == \A u \in Users : Out(u) \in Nat

LEMMA OutTypes == WithdrawalTypeOK /\ FinitelyMany => OutIsTyped
  <1> SUFFICES ASSUME WithdrawalTypeOK, FinitelyMany, NEW u \in Users
               PROVE  Out(u) \in Nat
    BY DEF OutIsTyped
  <1>1. [w \in Owed(u) |-> WithFee(rows[w])] \in [Owed(u) -> Nat]
    BY OwedType
  <1> QED
    BY <1>1, OwedType, SumType DEF Out

\* What is out changes with the rows that count, ...
LEMMA OutKept ==
    ASSUME NEW u \in Users, Owed(u)' = Owed(u),
           \A w \in Owed(u) : WithFee(rows[w])' = WithFee(rows[w])
    PROVE  Out(u)' = Out(u)
  BY DEF Out

\* ... by one that is added ...
LEMMA OutMore ==
    ASSUME WithdrawalTypeOK, WithdrawalTypeOK', FinitelyMany, FinitelyMany', NEW u \in Users,
           NEW a \in Withdrawals, a \notin Owed(u), Owed(u)' = Owed(u) \cup {a},
           \A w \in Owed(u) : WithFee(rows[w])' = WithFee(rows[w])
    PROVE  Out(u)' = Out(u) + WithFee(rows[a])' /\ WithFee(rows[a])' \in Nat
  <1> DEFINE f == [w \in Owed(u) |-> WithFee(rows[w])]
             g == [w \in Owed(u) \cup {a} |-> WithFee(rows[w])']
  <1>1. IsFiniteSet(Owed(u)) /\ f \in [Owed(u) -> Int]
    BY OwedType
  <1>2. g \in [Owed(u) \cup {a} -> Int] /\ WithFee(rows[a])' \in Nat
    <2>1. OwedIsTyped'
      BY OwedTypes, PTL
    <2> QED
      BY <2>1 DEF OwedIsTyped
  <1>3. \A w \in Owed(u) : g[w] = f[w]
    OBVIOUS
  <1>4. Out(u) = SumFunction(f) /\ Out(u)' = SumFunction(g) /\ g[a] = WithFee(rows[a])'
    BY DEF Out
  <1> HIDE DEF f, g
  <1> QED
    BY <1>1, <1>2, <1>3, <1>4, SumExtended

\* ... and by one that is no longer owed.
LEMMA OutLess ==
    ASSUME WithdrawalTypeOK, WithdrawalTypeOK', FinitelyMany, FinitelyMany', NEW u \in Users,
           NEW a \in Withdrawals, a \in Owed(u), Owed(u)' = Owed(u) \ {a},
           \A w \in Owed(u) \ {a} : WithFee(rows[w])' = WithFee(rows[w])
    PROVE  Out(u) = Out(u)' + WithFee(rows[a])
  <1> DEFINE f == [w \in Owed(u) |-> WithFee(rows[w])]
             T == Owed(u) \ {a}
             g == [w \in T |-> WithFee(rows[w])']
  <1>1. IsFiniteSet(Owed(u)) /\ f \in [T \cup {a} -> Int] /\ IsFiniteSet(T) /\ a \notin T
    BY OwedType, FS_RemoveElement
  <1>2. g \in [T -> Int] /\ \A w \in T : f[w] = g[w]
    BY OwedType
  <1>3. Out(u) = SumFunction(f) /\ Out(u)' = SumFunction(g) /\ f[a] = WithFee(rows[a])
    BY DEF Out
  <1> HIDE DEF f, g, T
  <1> QED
    BY <1>1, <1>2, <1>3, SumExtended

-----------------------------------------------------------------------------
(* MoneyKept.                                                              *)

\* A withdrawal that was ended twice stays so, and its user stays its user.
LEMMA IntactBefore ==
    ASSUME NEW u \in Users, raced \subseteq raced', Of(u) \subseteq Of(u)', Intact(u)'
    PROVE  Intact(u)
  BY DEF Intact

\* Steps that leave the rows alone and money with its owner.
LEMMA MoneyUntouched ==
    ASSUME MoneyInv, rows' = rows, raced' = raced,
           \A u \in Users : wallet'[u] + spent'[u] = wallet[u] + spent[u]
    PROVE  MoneyInv'
  <1>1. FinitelyMany' /\ FeesAreKnown'
    BY DEF MoneyInv, FinitelyMany, FeesAreKnown, Stored, Fee
  <1>2. ASSUME NEW u \in Users
        PROVE  Kept(u)' = Kept(u) /\ Intact(u)' = Intact(u)
    <2>1. Out(u)' = Out(u)
      BY DEF Out, Owed, Of, Stored, WithFee, Fee
    <2>2. Intact(u)' = Intact(u)
      BY DEF Intact, Of, Stored
    <2> QED
      BY <2>1, <2>2 DEF Kept
  <1> QED
    BY <1>1, <1>2 DEF MoneyInv, MoneyKept

\* Midnight changes no row that counts.
LEMMA MidnightMoney ==
    ASSUME WithdrawalTypeOK, MoneyInv, Midnight
    PROVE  MoneyInv'
  <1>1. \A w \in Withdrawals :
          /\ Stored(w)' <=> Stored(w)
          /\ Stored(w) => /\ rows'[w].user = rows[w].user
                          /\ rows'[w].amount = rows[w].amount
                          /\ rows'[w].channel = rows[w].channel
                          /\ rows'[w].status = rows[w].status
                          /\ rows'[w].fee = rows[w].fee
    <2>1. TAKE w \in Withdrawals
    <2>2. CASE Stored(w)
      <3>1. PICK r \in Row : rows[w] = r
        BY <2>2, RowType
      <3>2. rows'[w] = [r EXCEPT !.today = FALSE] /\ [r EXCEPT !.today = FALSE] \in Row
        BY <2>2, <3>1 DEF Midnight, Row
      <3>3. rows'[w] # NoWithdrawal
        BY <3>2, SentinelsAssumption
      <3> QED
        BY <2>2, <3>1, <3>2, <3>3 DEF Stored, Row
    <2>3. CASE ~Stored(w)
      BY <2>3 DEF Midnight, Stored
    <2> QED
      BY <2>2, <2>3
  <1>2. {w \in Withdrawals : Stored(w)}' = {w \in Withdrawals : Stored(w)}
    BY <1>1
  <1>3. FinitelyMany' /\ FeesAreKnown'
    BY <1>1, <1>2 DEF MoneyInv, FinitelyMany, FeesAreKnown, Fee
  <1>4. ASSUME NEW u \in Users
        PROVE  Kept(u)' = Kept(u) /\ Intact(u)' = Intact(u)
    <2>1. Of(u)' = Of(u)
      BY <1>1 DEF Of
    <2>2. Owed(u)' = Owed(u)
      BY <1>1, <2>1 DEF Owed, Of
    <2>3. \A w \in Owed(u) : WithFee(rows[w])' = WithFee(rows[w])
      BY <1>1 DEF Owed, Of, WithFee, Fee
    <2>4. Out(u)' = Out(u)
      BY <2>2, <2>3, OutKept
    <2> QED
      BY <2>1, <2>4 DEF Kept, Intact, Midnight, ghosts
  <1> QED
    BY <1>3, <1>4 DEF MoneyInv, MoneyKept

\* One row is written.
LEMMA OutOfOneRow ==
    ASSUME WithdrawalTypeOK, WithdrawalTypeOK', FinitelyMany, FinitelyMany', NEW u \in Users,
           NEW w \in Withdrawals, NEW z \in Row, rows' = [rows EXCEPT ![w] = z],
           w \in Owed(u) => WithFee(rows[w]) = WithFee(z)
    PROVE  /\ w \in Owed(u)' <=> z.user = u /\ z.status \in {"pending", "completed"}
           /\ (w \in Owed(u) <=> w \in Owed(u)') => Out(u)' = Out(u)
           /\ w \notin Owed(u) /\ w \in Owed(u)' => Out(u)' = Out(u) + WithFee(z)
           /\ w \in Owed(u) /\ w \notin Owed(u)' => Out(u) = Out(u)' + WithFee(z)
  <1>1. rows'[w] = z /\ \A v \in Withdrawals \ {w} : rows'[v] = rows[v]
    BY DEF WithdrawalTypeOK
  <1>2. \A v \in Withdrawals \ {w} : v \in Owed(u)' <=> v \in Owed(u)
    BY <1>1 DEF Owed, Of, Stored
  <1>3. w \in Owed(u)' <=> z.user = u /\ z.status \in {"pending", "completed"}
    <2>1. z # NoWithdrawal
      BY SentinelsAssumption
    <2> QED
      BY <1>1, <2>1 DEF Owed, Of, Stored
  <1>4. Owed(u) \subseteq Withdrawals /\ Owed(u)' \subseteq Withdrawals
    BY DEF Owed, Of
  <1>5. \A v \in Withdrawals \ {w} : WithFee(rows[v])' = WithFee(rows[v])
    BY <1>1 DEF WithFee, Fee
  <1>6. WithFee(rows[w])' = WithFee(z)
    BY <1>1 DEF WithFee, Fee
  <1>7. ASSUME w \in Owed(u) <=> w \in Owed(u)'
        PROVE  Out(u)' = Out(u)
    <2>1. Owed(u)' = Owed(u)
      BY <1>2, <1>4, <1>7
    <2> QED
      BY <1>4, <1>5, <1>6, <2>1, OutKept
  <1>8. ASSUME w \notin Owed(u), w \in Owed(u)'
        PROVE  Out(u)' = Out(u) + WithFee(z)
    <2>1. Owed(u)' = Owed(u) \cup {w}
      BY <1>2, <1>4, <1>8
    <2> QED
      BY <1>4, <1>5, <1>6, <1>8, <2>1, OutMore
  <1>9. ASSUME w \in Owed(u), w \notin Owed(u)'
        PROVE  Out(u) = Out(u)' + WithFee(z)
    <2>1. Owed(u)' = Owed(u) \ {w}
      BY <1>2, <1>4, <1>9
    <2> QED
      BY <1>4, <1>5, <1>9, <2>1, OutLess
  <1> QED
    BY <1>3, <1>7, <1>8, <1>9

\* A write of one row of a user, with the money that goes with it.
LEMMA OneRowMoney ==
    ASSUME WithdrawalTypeOK, WithdrawalTypeOK', MoneyInv, NEW w \in Withdrawals, NEW z \in Row,
           rows' = [rows EXCEPT ![w] = z],
           z.fee = "none" <=> Fee(z.channel, z.amount) = 0,
           raced \subseteq raced',
           Stored(w) => rows[w].user = z.user /\ WithFee(rows[w]) = WithFee(z),
           \A u \in Users \ {z.user} : wallet'[u] + spent'[u] = wallet[u] + spent[u],
           FinitelyMany' /\ z.user \in Users =>
             /\ Kept(z.user)' >= Kept(z.user)
             /\ Intact(z.user)' => Kept(z.user)' = Kept(z.user)
    PROVE  MoneyInv'
  <1>1. rows'[w] = z /\ \A v \in Withdrawals \ {w} : rows'[v] = rows[v]
    BY DEF WithdrawalTypeOK
  <1>2. z # NoWithdrawal /\ z.user \in Users
    BY SentinelsAssumption DEF Row
  <1>3. {v \in Withdrawals : Stored(v)}' = {v \in Withdrawals : Stored(v)} \cup {w}
    BY <1>1, <1>2 DEF Stored
  <1>4. FinitelyMany'
    BY <1>3, FS_AddElement DEF FinitelyMany, MoneyInv
  <1>5. FeesAreKnown'
    BY <1>1, <1>2 DEF FeesAreKnown, MoneyInv, Stored, Fee
  <1>6. ASSUME NEW u \in Users
        PROVE  Kept(u)' >= Funds[u] /\ (Intact(u)' => Kept(u)' = Funds[u])
    <2>1. Kept(u) >= Funds[u] /\ (Intact(u) => Kept(u) = Funds[u])
      BY DEF MoneyInv, MoneyKept
    <2>2. Of(u) \subseteq Of(u)'
      BY <1>1, <1>2 DEF Of, Stored
    <2>3. Intact(u)' => Intact(u)
      BY <2>2, IntactBefore
    <2>4. /\ Funds[u] \in Nat
          /\ Kept(u) \in Int /\ Kept(u)' \in Int
      <3>1. Out(u) \in Nat /\ Out(u)' \in Nat
        <4>1. OutIsTyped
          BY OutTypes DEF MoneyInv
        <4>2. OutIsTyped'
          BY <1>4, OutTypes, PTL
        <4> QED
          BY <4>1, <4>2 DEF OutIsTyped
      <3> QED
        BY <3>1, WithdrawalAssumption DEF Kept, WithdrawalTypeOK
    <2>5. CASE u = z.user
      BY <1>2, <1>4, <2>1, <2>3, <2>4, <2>5
    <2>6. CASE u # z.user
      <3>1. w \notin Owed(u) /\ w \notin Owed(u)'
        BY <1>1, <2>6 DEF Owed, Of
      <3>2. Out(u)' = Out(u)
        BY <1>4, <3>1, OutOfOneRow DEF MoneyInv
      <3>3. Kept(u)' = Kept(u)
        BY <2>6, <3>2 DEF Kept
      <3> QED
        BY <2>1, <2>3, <3>3
    <2> QED
      BY <2>5, <2>6
  <1> QED
    BY <1>4, <1>5, <1>6 DEF MoneyInv, MoneyKept

\* A request moves what it takes from the balance to the withdrawal.
LEMMA DeductMoney ==
    ASSUME WithdrawalTypeOK, WithdrawalTypeOK', MoneyInv, NEW q \in Handlers, NEW w \in Withdrawals, Deduct(q, w)
    PROVE  MoneyInv'
  <1>1. PICK r \in Request : r = handler[q]
    BY RequestType DEF Deduct, Asks
  <1>2. PICK z \in Row : /\ rows' = [rows EXCEPT ![w] = z]
                         /\ z.user = r.user /\ z.channel = r.channel
                         /\ z.amount = r.amount /\ z.status = "pending"
                         /\ z.fee = FeeRow(r.channel, r.amount)
    BY <1>1, DeductRow
  <1>3. /\ r.user \in Users /\ r.channel \in Channels /\ r.amount \in Amounts
        /\ Charge(r) \in Nat /\ Fee(r.channel, r.amount) \in Nat
    BY ChargeType, FeeType DEF Request
  <1>4. z.fee = "none" <=> Fee(z.channel, z.amount) = 0
    BY <1>2, <1>3 DEF FeeRow
  <1>5. /\ ~Stored(w) /\ raced' = raced /\ spent' = spent
        /\ wallet' = [wallet EXCEPT ![r.user] = @ - Charge(r)]
    BY <1>1 DEF Deduct, ghosts
  <1>6. WithFee(z) = Charge(r)
    BY <1>2 DEF WithFee, Charge
  <1>7. ASSUME FinitelyMany'
        PROVE  Kept(z.user)' = Kept(z.user)
    <2>0. PICK u \in Users : u = z.user /\ u = r.user
      BY <1>2, <1>3
    <2>1. w \notin Owed(u)
      BY <1>5 DEF Owed, Of
    <2>2. Out(u)' = Out(u) + WithFee(z)
      <3>1. w \in Owed(u)'
        BY <1>2, <1>7, <2>0, <2>1, OutOfOneRow DEF MoneyInv
      <3> QED
        BY <1>2, <1>7, <2>1, <3>1, OutOfOneRow DEF MoneyInv
    <2>3. wallet'[u] = wallet[u] - Charge(r) /\ wallet[u] \in Nat /\ spent[u] \in Nat
      BY <1>3, <1>5, <2>0 DEF WithdrawalTypeOK
    <2>4. Out(u) \in Nat
      BY OutTypes DEF MoneyInv, OutIsTyped
    <2>5. Kept(u)' = Kept(u)
      BY <1>3, <1>5, <1>6, <2>2, <2>3, <2>4 DEF Kept
    <2> QED
      BY <2>0, <2>5
  <1>8. \A u \in Users \ {z.user} : wallet'[u] + spent'[u] = wallet[u] + spent[u]
    BY <1>2, <1>5 DEF WithdrawalTypeOK
  <1>9. FinitelyMany' /\ z.user \in Users =>
          /\ Kept(z.user)' >= Kept(z.user)
          /\ Intact(z.user)' => Kept(z.user)' = Kept(z.user)
    <2>1. SUFFICES ASSUME FinitelyMany' PROVE Kept(r.user)' >= Kept(r.user)
      BY <1>2, <1>7
    <2>2. Kept(r.user) \in Int
      BY <1>3, OutTypes DEF MoneyInv, OutIsTyped, Kept, WithdrawalTypeOK
    <2> QED
      BY <1>2, <1>7, <2>1, <2>2
  <1> QED
    BY <1>2, <1>4, <1>5, <1>8, <1>9, OneRowMoney

\* A withdrawal that is ended is pending, or it is ended again: then its user
\* may gain, but never loses.
LEMMA EndingMoney ==
    ASSUME WithdrawalTypeOK, WithdrawalTypeOK', EndsOnGrounds, MoneyInv, NEW q \in Handlers,
           FinalizeWithdrawal(q) \/ CommitApproval(q)
    PROVE  MoneyInv'
  <1>1. spent' = spent
    BY EndingRow
  <1>2. PICK w \in Withdrawals, old \in Row, new \in Row : Ends(w, old, new)
    BY EndingRow
  <1>3. /\ old = rows[w] /\ Stored(w) /\ new.user = old.user
        /\ rows' = [rows EXCEPT ![w] = new]
    BY <1>2, SentinelsAssumption DEF Ends, Stored
  <1>4. /\ old.user \in Users /\ WithFee(old) \in Nat /\ Back(old) \in Nat
        /\ old.amount \in Nat /\ Fee(old.channel, old.amount) \in Nat
    BY ChargeType, FeeType, WithdrawalAssumption DEF Row
  <1>5. old.fee = "none" <=> Fee(old.channel, old.amount) = 0
    BY <1>3 DEF MoneyInv, FeesAreKnown
  <1>6. Back(old) = WithFee(old) /\ WithFee(new) = WithFee(old)
    BY <1>2, <1>4, <1>5 DEF Back, WithFee, Ends
  <1>7. new.fee = "none" <=> Fee(new.channel, new.amount) = 0
    BY <1>2, <1>5 DEF Ends, FeeReturned
  <1>8. \A u \in Users \ {new.user} : wallet'[u] + spent'[u] = wallet[u] + spent[u]
    BY <1>1, <1>2, <1>3 DEF Ends, WithdrawalTypeOK
  <1>9. ASSUME FinitelyMany'
        PROVE  /\ Kept(old.user)' >= Kept(old.user)
               /\ Intact(old.user)' => Kept(old.user)' = Kept(old.user)
    <2>0. PICK u \in Users : u = old.user
      BY <1>4
    <2>1. /\ w \in Owed(u) <=> old.status \in {"pending", "completed"}
          /\ w \in Owed(u)' <=> new.status = "completed"
      <3>1. w \in Owed(u)' <=> new.user = u /\ new.status \in {"pending", "completed"}
        BY <1>3, <1>6, <1>9, OutOfOneRow DEF MoneyInv
      <3>2. w \in Owed(u) <=> old.status \in {"pending", "completed"}
        BY <1>3, <2>0 DEF Owed, Of
      <3> QED
        BY <1>2, <1>3, <2>0, <3>1, <3>2 DEF Ends, Ended
    <2>2. /\ (w \in Owed(u) <=> w \in Owed(u)') => Out(u)' = Out(u)
          /\ w \notin Owed(u) /\ w \in Owed(u)' => Out(u)' = Out(u) + WithFee(old)
          /\ w \in Owed(u) /\ w \notin Owed(u)' => Out(u) = Out(u)' + WithFee(old)
      <3>1. /\ (w \in Owed(u) <=> w \in Owed(u)') => Out(u)' = Out(u)
            /\ w \notin Owed(u) /\ w \in Owed(u)' => Out(u)' = Out(u) + WithFee(new)
            /\ w \in Owed(u) /\ w \notin Owed(u)' => Out(u) = Out(u)' + WithFee(new)
        BY <1>3, <1>6, <1>9, OutOfOneRow DEF MoneyInv
      <3> QED
        BY <1>6, <3>1
    <2>3. /\ Out(u) \in Nat /\ Out(u)' \in Nat
          /\ wallet[u] \in Nat /\ spent[u] \in Nat
      <3>1. OutIsTyped
        BY OutTypes DEF MoneyInv
      <3>2. OutIsTyped'
        BY <1>9, OutTypes, PTL
      <3> QED
        BY <3>1, <3>2 DEF OutIsTyped, WithdrawalTypeOK
    <2>4. wallet'[u] = IF new.status = "completed" THEN wallet[u] ELSE wallet[u] + WithFee(old)
      <3>1. GivesBack(new.status) <=> new.status # "completed"
        BY <1>2 DEF Ends, GivesBack, Ended
      <3> QED
        BY <1>2, <1>4, <1>6, <2>0, <3>1 DEF Ends, WithdrawalTypeOK
    <2>5. Intact(u)' => old.status = "pending"
      <3>1. rows'[w] = new /\ new # NoWithdrawal
        BY <1>3, SentinelsAssumption DEF WithdrawalTypeOK
      <3>2. w \in Of(u)'
        BY <1>3, <2>0, <3>1 DEF Of, Stored
      <3> QED
        BY <1>2, <3>2 DEF Ends, Intact
    <2>6. Kept(u) = wallet[u] + spent[u] + Out(u) /\ Kept(u)' = wallet'[u] + spent[u] + Out(u)'
      BY <1>1 DEF Kept
    <2>7. Kept(u)' >= Kept(u) /\ (Intact(u)' => Kept(u)' = Kept(u))
      <3>1. CASE old.status = "pending"
        BY <1>4, <2>1, <2>2, <2>3, <2>4, <2>6, <3>1
      <3>2. CASE old.status # "pending"
        BY <1>4, <2>1, <2>2, <2>3, <2>4, <2>5, <2>6, <3>2
      <3> QED
        BY <3>1, <3>2
    <2> QED
      BY <2>0, <2>7
  <1> QED
    <2>1. raced \subseteq raced'
      BY <1>2 DEF Ends
    <2> QED
      BY <1>3, <1>6, <1>7, <1>8, <1>9, <2>1, OneRowMoney

\* At first all is in the balances.
LEMMA InitMoney == WithdrawalInit => MoneyInv
  <1> SUFFICES ASSUME WithdrawalInit PROVE MoneyInv
    OBVIOUS
  <1>1. \A w \in Withdrawals : ~Stored(w)
    BY DEF WithdrawalInit, Stored
  <1>2. {w \in Withdrawals : Stored(w)} = {}
    BY <1>1
  <1>3. FinitelyMany /\ FeesAreKnown
    BY <1>1, <1>2, FS_EmptySet DEF FinitelyMany, FeesAreKnown
  <1>4. ASSUME NEW u \in Users
        PROVE  Kept(u) = Funds[u]
    <2>1. Owed(u) = {}
      BY <1>1 DEF Owed, Of
    <2>2. Out(u) = 0
      BY <2>1, SumEmpty DEF Out, SumFunction
    <2> QED
      BY <2>2, WithdrawalAssumption DEF Kept, WithdrawalInit
  <1> QED
    BY <1>3, <1>4, WithdrawalAssumption DEF MoneyInv, MoneyKept

\* Every step keeps what users own.
LEMMA NextMoney == RefundInv /\ RefundInv' /\ MoneyInv /\ [WithdrawalNext]_withdrawalVars => MoneyInv'
  <1> SUFFICES ASSUME RefundInv, RefundInv', MoneyInv, [WithdrawalNext]_withdrawalVars PROVE MoneyInv'
    OBVIOUS
  <1>0. WithdrawalTypeOK /\ WithdrawalTypeOK' /\ EndsOnGrounds
    BY DEF RefundInv
  <1>1. ASSUME NEW q \in Handlers,
               \/ RequestFails(q) \/ CheckLimit(q) \/ CheckBalance(q) \/ Crash(q)
               \/ \E u \in Users, a \in Amounts, c \in Channels :
                    RequestWithdrawal(q, u, a, c)
               \/ \E w \in Withdrawals :
                    \/ CancelWithdrawal(q, w) \/ WebhookDisbursement(q, w)
                    \/ ApproveWithdrawal(q, w)
        PROVE  MoneyInv'
    BY <1>1, MoneyUntouched
       DEF RequestFails, CheckLimit, CheckBalance, Crash, RequestWithdrawal,
           CancelWithdrawal, WebhookDisbursement, ApproveWithdrawal, ghosts
  <1>2. ASSUME NEW w \in Withdrawals, TriggerDisbursement(w) \/ RecoverPendingWithdrawals(w)
        PROVE  MoneyInv'
    BY <1>2, MoneyUntouched DEF TriggerDisbursement, RecoverPendingWithdrawals, ghosts
  <1>3. ASSUME NEW u \in Users, LockExpires(u)
        PROVE  MoneyInv'
    BY <1>3, MoneyUntouched DEF LockExpires, ghosts
  <1>4. ASSUME NEW u \in Users, NEW a \in Amounts, Spend(u, a)
        PROVE  MoneyInv'
    <2>1. \A v \in Users : wallet'[v] + spent'[v] = wallet[v] + spent[v]
      BY <1>0, <1>4, WithdrawalAssumption DEF Spend, WithdrawalTypeOK
    <2> QED
      BY <1>4, <2>1, MoneyUntouched DEF Spend, ghosts
  <1>5. CASE UNCHANGED withdrawalVars
    BY <1>5, MoneyUntouched DEF withdrawalVars, ghosts
  <1> QED
    BY <1>0, <1>1, <1>2, <1>3, <1>4, <1>5, MidnightMoney, DeductMoney, EndingMoney DEF WithdrawalNext

\* However the requests of a user, of administrators and of the gateway race, no
\* user loses money, and none gains any whose withdrawals were each ended once
\* (processWithdrawalDB, FinalizeWithdrawal).
THEOREM MoneyIsKept == WithdrawalSpec => []MoneyKept
  <1>1. MoneyInv => MoneyKept
    BY DEF MoneyInv
  <1>2. RefundInv /\ MoneyInv /\ [WithdrawalNext]_withdrawalVars => (RefundInv /\ MoneyInv)'
    BY NextRefund, NextMoney
  <1> QED
    BY <1>1, <1>2, InitRefund, InitMoney, PTL DEF WithdrawalSpec

-----------------------------------------------------------------------------
(* The daily limit, if today's sum can be read and locks outlive their     *)
(* requests: what a request found free under the limit is still free when  *)
(* it writes the withdrawal, for nobody else asks for one of the same user.*)

\* Today's withdrawals of a user are finitely many and have a sum.
TodayIsTyped ==
    \A u \in Users :
      /\ IsFiniteSet(Today(u)) /\ Today(u) \subseteq Withdrawals
      /\ \A w \in Today(u) : rows[w].amount \in Nat
      /\ Asked(Today(u)) \in Nat

LEMMA TodayType == WithdrawalTypeOK /\ FinitelyMany => TodayIsTyped
  <1> SUFFICES ASSUME WithdrawalTypeOK, FinitelyMany, NEW u \in Users
               PROVE  /\ IsFiniteSet(Today(u)) /\ Today(u) \subseteq Withdrawals
                      /\ \A w \in Today(u) : rows[w].amount \in Nat
                      /\ Asked(Today(u)) \in Nat
    BY DEF TodayIsTyped
  <1>1. Today(u) \subseteq {w \in Withdrawals : Stored(w)}
    BY DEF Today
  <1>2. IsFiniteSet(Today(u)) /\ Today(u) \subseteq Withdrawals
    BY <1>1, FS_Subset DEF FinitelyMany
  <1>3. \A w \in Today(u) : rows[w].amount \in Nat
    BY <1>1, RowType, WithdrawalAssumption DEF Row
  <1>4. [w \in Today(u) |-> rows[w].amount] \in [Today(u) -> Nat]
    BY <1>3
  <1> QED
    BY <1>2, <1>3, <1>4, SumType DEF Asked

\* The sum of a part is at most that of the whole, ...
LEMMA TodayShrinks ==
    ASSUME WithdrawalTypeOK, FinitelyMany, WithdrawalTypeOK', FinitelyMany', NEW u \in Users,
           Today(u)' \subseteq Today(u),
           \A w \in Today(u)' : rows'[w].amount = rows[w].amount
    PROVE  Asked(Today(u))' <= Asked(Today(u))
  <1> DEFINE S == Today(u)
             T == Today(u)'
             f == [w \in S |-> rows[w].amount]
             g == [w \in T |-> rows'[w].amount]
  <1>1. IsFiniteSet(S) /\ T \in SUBSET S /\ f \in [S -> Nat]
    BY TodayType DEF TodayIsTyped
  <1>2. g \in [T -> Nat] /\ \A w \in T : g[w] = f[w] /\ f[w] \in Nat
    BY TodayType DEF TodayIsTyped
  <1>3. Asked(Today(u)) = SumFunction(f) /\ Asked(Today(u))' = SumFunction(g)
    BY DEF Asked
  <1> HIDE DEF S, T, f, g
  <1>4. \A w \in T : g[w] <= f[w]
    BY <1>2
  <1> QED
    BY <1>1, <1>2, <1>3, <1>4, SumBounded

\* ... and one withdrawal more adds its amount.
LEMMA TodayGrows ==
    ASSUME WithdrawalTypeOK, FinitelyMany, NEW u \in Users, NEW a \in Withdrawals, a \notin Today(u),
           Today(u)' = Today(u) \cup {a}, rows'[a].amount \in Nat,
           \A w \in Today(u) : rows'[w].amount = rows[w].amount
    PROVE  Asked(Today(u))' = Asked(Today(u)) + rows'[a].amount
  <1> DEFINE S == Today(u)
             f == [w \in S |-> rows[w].amount]
             g == [w \in S \cup {a} |-> rows'[w].amount]
  <1>1. IsFiniteSet(S) /\ f \in [S -> Int]
    BY TodayType DEF TodayIsTyped
  <1>2. g \in [S \cup {a} -> Int] /\ \A w \in S : g[w] = f[w]
    BY TodayType DEF TodayIsTyped
  <1>3. Asked(Today(u)) = SumFunction(f) /\ Asked(Today(u))' = SumFunction(g)
    BY DEF Asked
  <1>4. a \notin S /\ g[a] = rows'[a].amount
    OBVIOUS
  <1> HIDE DEF S, f, g
  <1> QED
    BY <1>1, <1>2, <1>3, <1>4, SumExtended

\* What holds of a step that adds no withdrawal of today.
NoMoreToday ==
    \A u \in Users :
        Intact(u)' => Intact(u) /\ Asked(Today(u))' <= Asked(Today(u))

\* A request past the limit, with the user and the amount that it was checked for.
Passed(q, u, amount) ==
    /\ Handles(q, "request") /\ handler[q].step # "limit"
    /\ handler[q].user = u /\ handler[q].amount = amount

RoomOf(q) ==
    \A u \in Users \ Verified, a \in Amounts :
        Passed(q, u, a) /\ Intact(u) => Asked(Today(u)) + a <= DailyLimit

RoomForAll == \A q \in Handlers : RoomOf(q)

\* RoomIsLeft, said of users and amounts.
LEMMA RoomByUser == WithdrawalTypeOK => (RoomIsLeft <=> RoomForAll)
  <1> SUFFICES ASSUME WithdrawalTypeOK PROVE RoomIsLeft <=> RoomForAll
    OBVIOUS
  <1>1. \A q \in Handlers :
          Handles(q, "request") => handler[q].user \in Users /\ handler[q].amount \in Amounts
    BY RequestType DEF Request
  <1> QED
    BY <1>1 DEF RoomIsLeft, RoomForAll, RoomOf, Passed

\* If no sum grows and no request passes the limit, there is still room.
LEMMA RoomStays ==
    ASSUME WithdrawalTypeOK, WithdrawalTypeOK', FinitelyMany, FinitelyMany', RoomIsLeft, LimitKept, NoMoreToday,
           \A q \in Handlers, u \in Users, a \in Amounts : Passed(q, u, a)' => Passed(q, u, a)
    PROVE  RoomIsLeft' /\ LimitKept'
  <1>1. TodayIsTyped /\ TodayIsTyped'
    BY TodayType, PTL
  <1>2. DailyLimit \in Nat /\ Amounts \subseteq Nat
    BY WithdrawalAssumption
  <1>3. LimitKept'
    BY <1>1, <1>2 DEF LimitKept, NoMoreToday, TodayIsTyped
  <1>4. ASSUME NEW q \in Handlers, NEW u \in Users \ Verified, NEW a \in Amounts,
               Passed(q, u, a)', Intact(u)'
        PROVE  Asked(Today(u))' + a <= DailyLimit
    <2>1. Passed(q, u, a) /\ Intact(u) /\ Asked(Today(u))' <= Asked(Today(u))
      BY <1>4 DEF NoMoreToday
    <2>2. Asked(Today(u)) + a <= DailyLimit
      BY <2>1 DEF RoomIsLeft, Passed
    <2>3. Asked(Today(u)) \in Nat /\ Asked(Today(u))' \in Nat
      BY <1>1 DEF TodayIsTyped
    <2> QED
      BY <1>2, <2>1, <2>2, <2>3
  <1>5. RoomIsLeft'
    <2>1. RoomForAll'
      BY <1>4 DEF RoomForAll, RoomOf
    <2> QED
      BY <2>1, RoomByUser, PTL
  <1> QED
    BY <1>3, <1>5

\* Rows that are not touched leave today's sums alone.
LEMMA SameToday ==
    ASSUME WithdrawalTypeOK, FinitelyMany, UNCHANGED <<rows, raced>>
    PROVE  NoMoreToday /\ \A u \in Users : Asked(Today(u))' = Asked(Today(u))
                                           /\ Intact(u)' = Intact(u)
  <1>1. ASSUME NEW u \in Users
        PROVE  Asked(Today(u))' = Asked(Today(u)) /\ Intact(u)' = Intact(u)
               /\ Asked(Today(u)) \in Nat
    <2>1. Asked(Today(u))' = Asked(Today(u))
      BY DEF Asked, Today, Stored, CountsToday
    <2>2. Intact(u)' = Intact(u)
      BY DEF Intact, Of, Stored
    <2> QED
      BY <2>1, <2>2, TodayType DEF TodayIsTyped
  <1> QED
    BY <1>1 DEF NoMoreToday

\* At midnight the sums start again at zero.
LEMMA MidnightToday ==
    ASSUME WithdrawalTypeOK, WithdrawalTypeOK', FinitelyMany, FinitelyMany', Midnight
    PROVE  NoMoreToday
  <1>1. ASSUME NEW w \in Withdrawals
        PROVE  /\ Stored(w)' <=> Stored(w)
               /\ Stored(w) => /\ rows'[w].user = rows[w].user
                               /\ rows'[w].today = FALSE
    <2>1. CASE Stored(w)
      <3>1. PICK r \in Row : rows[w] = r
        BY <2>1, RowType
      <3>2. rows'[w] = [r EXCEPT !.today = FALSE] /\ [r EXCEPT !.today = FALSE] \in Row
        BY <2>1, <3>1 DEF Midnight, Row
      <3>3. rows'[w] # NoWithdrawal
        BY <3>2, SentinelsAssumption
      <3> QED
        BY <2>1, <3>1, <3>2, <3>3 DEF Stored, Row
    <2>2. CASE ~Stored(w)
      BY <2>2 DEF Midnight, Stored
    <2> QED
      BY <2>1, <2>2
  <1>2. ASSUME NEW u \in Users
        PROVE  (Intact(u)' => Intact(u)) /\ Today(u)' = {}
    <2>1. Of(u)' = Of(u) /\ raced' = raced
      BY <1>1 DEF Of, Midnight, ghosts
    <2>2. Today(u)' = {}
      BY <1>1 DEF Today
    <2> QED
      BY <2>1, <2>2 DEF Intact
  <1>3. \A u \in Users : Asked(Today(u))' <= Asked(Today(u))
    BY <1>2, TodayShrinks
  <1> QED
    BY <1>2, <1>3 DEF NoMoreToday

\* Ending a withdrawal can only take it out of today's sum.
LEMMA EndingToday ==
    ASSUME WithdrawalTypeOK, WithdrawalTypeOK', EndsOnGrounds, FinitelyMany, FinitelyMany', NEW q \in Handlers,
           FinalizeWithdrawal(q) \/ CommitApproval(q)
    PROVE  NoMoreToday
  <1>1. PICK w \in Withdrawals, old \in Row, new \in Row : Ends(w, old, new)
    BY EndingRow
  <1>2. /\ old = rows[w] /\ Stored(w) /\ new.user = old.user /\ new.amount = old.amount
        /\ new.today = old.today
    BY <1>1, SentinelsAssumption DEF Ends, Stored
  <1>3. /\ rows'[w] = new /\ new # NoWithdrawal
        /\ \A v \in Withdrawals \ {w} : rows'[v] = rows[v]
    BY <1>1, SentinelsAssumption DEF Ends, WithdrawalTypeOK
  <1>4. ASSUME NEW u \in Users, Intact(u)'
        PROVE  Intact(u) /\ Asked(Today(u))' <= Asked(Today(u))
    <2>1. Of(u) \subseteq Of(u)' /\ raced \subseteq raced'
      BY <1>1, <1>2, <1>3 DEF Of, Stored, Ends
    <2>2. Intact(u)
      BY <1>4, <2>1, IntactBefore
    <2>3. old.user = u => old.status = "pending"
      <3>1. old.user = u => w \in Of(u)'
        BY <1>2, <1>3 DEF Of, Stored
      <3> QED
        BY <1>1, <1>4, <3>1 DEF Intact, Ends
    <2>4. Today(u)' \subseteq Today(u)
      <3>1. w \in Today(u)' => w \in Today(u)
        BY <1>2, <1>3, <2>3 DEF Today, CountsToday
      <3>2. \A v \in Withdrawals \ {w} : v \in Today(u)' => v \in Today(u)
        BY <1>3 DEF Today, Stored, CountsToday
      <3>3. Today(u)' \subseteq Withdrawals
        BY DEF Today
      <3> QED
        BY <3>1, <3>2, <3>3
    <2>5. \A v \in Today(u)' : rows'[v].amount = rows[v].amount
      BY <1>2, <1>3 DEF Today
    <2> QED
      BY <2>2, <2>4, <2>5, TodayShrinks
  <1> QED
    BY <1>4 DEF NoMoreToday

-----------------------------------------------------------------------------
(* Locks.                                                                  *)

\* No request begins.
NoneBegins ==
    \A q \in Handlers : Handles(q, "request")' => Handles(q, "request") /\ handler'[q].user = handler[q].user

LEMMA LocksStay ==
    ASSUME LocksAreHeld, UNCHANGED lock, NoneBegins
    PROVE  LocksAreHeld'
  BY DEF LocksAreHeld, NoneBegins

\* A request ends and leaves its lock.
LEMMA LocksOfOthers ==
    ASSUME WithdrawalTypeOK, LocksAreHeld, NEW q \in Handlers, Finishes(q),
           NEW left, lock' = [u \in Users |-> IF lock[u] = q THEN left ELSE lock[u]]
    PROVE  LocksAreHeld'
  <1>1. SUFFICES ASSUME NEW p \in Handlers, Handles(p, "request")'
                 PROVE  lock'[handler'[p].user] = p
    BY DEF LocksAreHeld
  <1>2. p # q /\ handler'[p] = handler[p]
    BY <1>1 DEF Finishes, WithdrawalTypeOK, Handles
  <1>3. Handles(p, "request") /\ handler[p] \in Request
    BY <1>1, <1>2, RequestType DEF Handles
  <1>4. lock[handler[p].user] = p /\ handler[p].user \in Users
    BY <1>3 DEF LocksAreHeld, Request
  <1> QED
    BY <1>2, <1>4

\* Only a lock that was left behind expires.
LEMMA LockExpiry ==
    ASSUME WithdrawalTypeOK, LocksAreHeld, ~LockMayExpire, NEW u \in Users, LockExpires(u)
    PROVE  LocksAreHeld'
  <1>1. SUFFICES ASSUME NEW p \in Handlers, Handles(p, "request")'
                 PROVE  lock'[handler'[p].user] = p
    BY DEF LocksAreHeld
  <1>2. handler' = handler /\ lock[u] = Orphan /\ lock' = [lock EXCEPT ![u] = NotLocked]
    BY DEF LockExpires
  <1>3. Handles(p, "request") /\ handler[p] \in Request
    BY <1>1, <1>2, RequestType DEF Handles
  <1>4. lock[handler[p].user] = p /\ handler[p].user \in Users
    BY <1>3 DEF LocksAreHeld, Request
  <1>5. handler[p].user # u
    BY <1>2, <1>4, SentinelsAssumption
  <1> QED
    BY <1>2, <1>4, <1>5 DEF WithdrawalTypeOK

\* A request that begins takes a free lock.
LEMMA LockTaken ==
    ASSUME WithdrawalTypeOK, LocksAreHeld, NEW q \in Handlers, NEW u \in Users, NEW a \in Amounts,
           NEW c \in Channels, RequestWithdrawal(q, u, a, c)
    PROVE  LocksAreHeld'
  <1>1. SUFFICES ASSUME NEW p \in Handlers, Handles(p, "request")'
                 PROVE  lock'[handler'[p].user] = p
    BY DEF LocksAreHeld
  <1>2. PICK r : r = [kind |-> "request", step |-> "limit", user |-> u,
                      amount |-> a, channel |-> c]
    OBVIOUS
  <1>3. /\ lock[u] = NotLocked /\ lock' = [lock EXCEPT ![u] = q]
        /\ handler' = [handler EXCEPT ![q] = r]
    BY <1>2 DEF RequestWithdrawal, Starts
  <1>4. CASE p = q
    <2>1. handler'[p].user = u
      BY <1>2, <1>3, <1>4 DEF WithdrawalTypeOK
    <2> QED
      BY <1>3, <1>4, <2>1 DEF WithdrawalTypeOK
  <1>5. CASE p # q
    <2>1. handler'[p] = handler[p]
      BY <1>3, <1>5 DEF WithdrawalTypeOK
    <2>2. Handles(p, "request") /\ handler[p] \in Request
      BY <1>1, <2>1, RequestType DEF Handles
    <2>3. lock[handler[p].user] = p /\ handler[p].user \in Users
      BY <2>2 DEF LocksAreHeld, Request
    <2>4. handler[p].user # u
      BY <1>3, <2>3, SentinelsAssumption
    <2> QED
      BY <1>3, <2>1, <2>3, <2>4 DEF WithdrawalTypeOK
  <1> QED
    BY <1>4, <1>5

-----------------------------------------------------------------------------
(* The steps.                                                              *)

\* What all of them start from.
Before == WithdrawalTypeOK /\ WithdrawalTypeOK' /\ EndsOnGrounds /\ FinitelyMany /\ FinitelyMany' /\ LimitInv

NonePasses ==
    \A q \in Handlers, u \in Users, a \in Amounts : Passed(q, u, a)' => Passed(q, u, a)

\* A request begins or goes on with its row: the others are what they were.
LEMMA OneRequest ==
    ASSUME WithdrawalTypeOK, NEW q \in Handlers, NEW r, handler' = [handler EXCEPT ![q] = r]
    PROVE  \A p \in Handlers \ {q} : /\ \A k : Handles(p, k)' = Handles(p, k)
                                  /\ \A u, a : Passed(p, u, a)' = Passed(p, u, a)
                                  /\ handler'[p] = handler[p]
  BY DEF WithdrawalTypeOK, Handles, Passed

\* Requests that neither pass the limit nor write a withdrawal.
LEMMA RequestLimit ==
    ASSUME Before, ~LockMayExpire, NEW q \in Handlers,
           \/ RequestFails(q) \/ Crash(q) \/ CheckBalance(q)
           \/ \E u \in Users, a \in Amounts, c \in Channels : RequestWithdrawal(q, u, a, c)
           \/ \E w \in Withdrawals : \/ CancelWithdrawal(q, w) \/ WebhookDisbursement(q, w)
                                     \/ ApproveWithdrawal(q, w)
    PROVE  LimitInv'
  <1>1. UNCHANGED <<rows, raced>>
    BY DEF RequestFails, Crash, CheckBalance, RequestWithdrawal, CancelWithdrawal,
           WebhookDisbursement, ApproveWithdrawal, ghosts
  <1>2. NoMoreToday
    BY <1>1, SameToday DEF Before
  <1>3. CASE RequestFails(q) \/ Crash(q)
    <2>1. Finishes(q)
      BY <1>3 DEF RequestFails, Crash
    <2>2. LocksAreHeld'
      BY <1>3, <2>1, LocksOfOthers DEF RequestFails, Crash, Unlock, Before, LimitInv
    <2>3. NonePasses
      BY <2>1 DEF NonePasses, Passed, Handles, Finishes, Before, WithdrawalTypeOK
    <2> QED
      BY <1>2, <2>2, <2>3, RoomStays DEF Before, LimitInv, NonePasses
  <1>4. CASE CheckBalance(q)
    <2>1. PICK r \in Request : r = handler[q] /\ r.step = "balance"
      BY <1>4, RequestType DEF CheckBalance, Asks, Before
    <2>2. handler' = [handler EXCEPT ![q] = [r EXCEPT !.step = "deduct"]]
      BY <1>4, <2>1 DEF CheckBalance, GoesOn
    <2>3. /\ [r EXCEPT !.step = "deduct"].user = r.user
          /\ [r EXCEPT !.step = "deduct"].amount = r.amount
      BY DEF Request
    <2>4. Handles(q, "request") /\ UNCHANGED lock
      BY <1>4 DEF CheckBalance, Asks
    <2>5. LocksAreHeld'
      <3>1. NoneBegins
        BY <2>1, <2>2, <2>3, <2>4 DEF NoneBegins, Handles, Before, WithdrawalTypeOK
      <3> QED
        BY <2>4, <3>1, LocksStay DEF Before, LimitInv
    <2>6. NonePasses
      BY <2>1, <2>2, <2>3, <2>4 DEF NonePasses, Passed, Handles, Before, WithdrawalTypeOK
    <2> QED
      BY <1>2, <2>5, <2>6, RoomStays DEF Before, LimitInv, NonePasses
  <1>5. ASSUME NEW u \in Users, NEW a \in Amounts, NEW c \in Channels,
               RequestWithdrawal(q, u, a, c)
        PROVE  LimitInv'
    <2>1. LocksAreHeld'
      BY <1>5, LockTaken DEF Before, LimitInv
    <2>2. NonePasses
      BY <1>5 DEF RequestWithdrawal, Starts, NonePasses, Passed, Handles, Before, WithdrawalTypeOK
    <2> QED
      BY <1>2, <2>1, <2>2, RoomStays DEF Before, LimitInv, NonePasses
  <1>6. ASSUME NEW w \in Withdrawals, \/ CancelWithdrawal(q, w) \/ WebhookDisbursement(q, w)
                                      \/ ApproveWithdrawal(q, w)
        PROVE  LimitInv'
    <2>1. \E r : handler' = [handler EXCEPT ![q] = r] /\ r.kind # "request"
      <3> DEFINE f(status) == [kind |-> "finalize", id |-> w, status |-> status]
                 a == [kind |-> "approve", id |-> w]
      <3>1. /\ \A status : f(status).kind = "finalize"
            /\ a.kind = "approve"
        OBVIOUS
      <3>2. \/ \E status : handler' = [handler EXCEPT ![q] = f(status)]
            \/ handler' = [handler EXCEPT ![q] = a]
        BY <1>6 DEF CancelWithdrawal, WebhookDisbursement, ApproveWithdrawal, Starts
      <3> HIDE DEF f, a
      <3> QED
        BY <3>1, <3>2
    <2>2. LocksAreHeld'
      <3>1. UNCHANGED lock
        BY <1>6 DEF CancelWithdrawal, WebhookDisbursement, ApproveWithdrawal
      <3>2. NoneBegins
        BY <2>1 DEF NoneBegins, Handles, Before, WithdrawalTypeOK
      <3> QED
        BY <3>1, <3>2, LocksStay DEF Before, LimitInv
    <2>3. NonePasses
      BY <2>1 DEF NonePasses, Passed, Handles, Before, WithdrawalTypeOK
    <2> QED
      BY <1>2, <2>2, <2>3, RoomStays DEF Before, LimitInv, NonePasses
  <1> QED
    BY <1>3, <1>4, <1>5, <1>6

\* The limit is looked at under the lock, ...
LEMMA CheckLimitStep ==
    ASSUME Before, ~SumMayFail, NEW q \in Handlers, CheckLimit(q)
    PROVE  LimitInv'
  <1>1. PICK r \in Request : r = handler[q] /\ r.step = "limit"
    BY RequestType DEF CheckLimit, Asks, Before
  <1>2. r.user \in Users /\ r.amount \in Amounts
    BY DEF Request
  <1> DEFINE next == [r EXCEPT !.step = "balance"]
  <1>3. /\ next.user = r.user /\ next.amount = r.amount
        /\ next.kind = "request"
    BY DEF Request
  <1>4. handler' = [handler EXCEPT ![q] = next] /\ Handles(q, "request") /\ UNCHANGED lock
    BY <1>1 DEF CheckLimit, GoesOn, Asks
  <1> HIDE DEF next
  <1>5. \A u \in Users : Asked(Today(u))' = Asked(Today(u)) /\ Intact(u)' = Intact(u)
    BY SameToday DEF CheckLimit, ghosts, Before
  <1>6. LocksAreHeld'
    <2>1. NoneBegins
      BY <1>1, <1>3, <1>4 DEF NoneBegins, Handles, Before, WithdrawalTypeOK
    <2> QED
      BY <1>4, <2>1, LocksStay DEF Before, LimitInv
  <1>7. LimitKept'
    BY <1>5 DEF LimitKept, Before, LimitInv
  <1>8. ASSUME NEW p \in Handlers, NEW u \in Users \ Verified, NEW a \in Amounts,
               Passed(p, u, a)', Intact(u)'
        PROVE  Asked(Today(u))' + a <= DailyLimit
    <2>1. CASE p = q
      <3>1. u = r.user /\ a = r.amount
        BY <1>3, <1>4, <1>8, <2>1 DEF Passed, Before, WithdrawalTypeOK
      <3>2. Asked(Today(u)) + a <= DailyLimit
        BY <1>1, <1>8, <3>1 DEF CheckLimit
      <3> QED
        BY <1>5, <3>2
    <2>2. CASE p # q
      <3>1. Passed(p, u, a)
        BY <1>4, <1>8, <2>2, OneRequest DEF Before
      <3>2. RoomOf(p)
        BY RoomByUser DEF Before, LimitInv, RoomForAll
      <3> QED
        BY <1>5, <1>8, <3>1, <3>2 DEF RoomOf
    <2> QED
      BY <2>1, <2>2
  <1>9. RoomIsLeft'
    <2>1. RoomForAll' /\ WithdrawalTypeOK'
      BY <1>8 DEF RoomForAll, RoomOf, Before
    <2> QED
      BY <2>1, RoomByUser, PTL
  <1> QED
    BY <1>6, <1>7, <1>9 DEF LimitInv

\* ... which its request still holds when it writes the withdrawal.
LEMMA DeductLimit ==
    ASSUME Before, NEW q \in Handlers, NEW w \in Withdrawals, Deduct(q, w)
    PROVE  LimitInv'
  <1>0. WithdrawalTypeOK /\ WithdrawalTypeOK' /\ FinitelyMany /\ FinitelyMany' /\ LocksAreHeld
    BY DEF Before, LimitInv
  <1>1. PICK r \in Request : r = handler[q]
    BY <1>0, RequestType DEF Deduct, Asks
  <1>2. PICK z \in Row : /\ rows' = [rows EXCEPT ![w] = z]
                         /\ z.user = r.user /\ z.amount = r.amount /\ z.status = "pending"
                         /\ z.today
    BY <1>0, <1>1, DeductRow
  <1>3. PICK u \in Users, a \in Amounts : u = r.user /\ a = r.amount
    BY DEF Request
  <1>4. /\ ~Stored(w) /\ raced' = raced /\ Finishes(q) /\ Unlock(q)
        /\ Passed(q, u, a) /\ lock[u] = q
    BY <1>0, <1>1, <1>3 DEF Deduct, ghosts, Asks, Passed, LocksAreHeld
  <1>5. /\ rows'[w] = z /\ z # NoWithdrawal
        /\ \A v \in Withdrawals \ {w} : rows'[v] = rows[v]
    BY <1>0, <1>2, SentinelsAssumption DEF WithdrawalTypeOK
  <1>6. LocksAreHeld'
    BY <1>0, <1>4, LocksOfOthers DEF Unlock
  <1>7. \A v \in Users : Intact(v)' => Intact(v)
    <2>1. \A v \in Users : Of(v) \subseteq Of(v)'
      BY <1>4, <1>5 DEF Of, Stored
    <2> QED
      BY <1>4, <2>1, IntactBefore
  <1>8. ASSUME NEW v \in Users \ {u}
        PROVE  Asked(Today(v))' = Asked(Today(v))
    <2>1. Today(v)' = Today(v) /\ w \notin Today(v)
      BY <1>2, <1>3, <1>4, <1>5 DEF Today, Stored, CountsToday
    <2> QED
      BY <1>5, <2>1 DEF Asked, Today
  <1>9. Asked(Today(u))' = Asked(Today(u)) + a
    <2>1. w \notin Today(u)
      BY <1>4 DEF Today
    <2>2. Today(u)' = Today(u) \cup {w}
      <3>1. w \in Today(u)'
        BY <1>2, <1>3, <1>5 DEF Today, Stored, CountsToday
      <3>2. \A v \in Withdrawals \ {w} : v \in Today(u)' <=> v \in Today(u)
        BY <1>5 DEF Today, Stored, CountsToday
      <3>3. Today(u)' \subseteq Withdrawals /\ Today(u) \subseteq Withdrawals
        BY DEF Today
      <3> QED
        BY <2>1, <3>1, <3>2, <3>3
    <2>3. rows'[w].amount = a /\ a \in Nat
      BY <1>2, <1>3, <1>5, WithdrawalAssumption
    <2>4. \A v \in Today(u) : rows'[v].amount = rows[v].amount
      BY <1>5, <2>1 DEF Today
    <2> QED
      BY <1>0, <2>1, <2>2, <2>3, <2>4, TodayGrows
  <1>10. LimitKept'
    <2>1. SUFFICES ASSUME NEW v \in Users \ Verified, Intact(v)'
                   PROVE  Asked(Today(v))' <= DailyLimit
      BY DEF LimitKept
    <2>2. CASE v = u
      <3>1. RoomOf(q)
        BY <1>0, RoomByUser DEF Before, LimitInv, RoomForAll
      <3> QED
        BY <1>4, <1>7, <1>9, <2>1, <2>2, <3>1 DEF RoomOf
    <2>3. CASE v # u
      BY <1>7, <1>8, <2>1, <2>3 DEF LimitKept, Before, LimitInv
    <2> QED
      BY <2>2, <2>3
  <1>11. ASSUME NEW p \in Handlers, NEW v \in Users \ Verified, NEW b \in Amounts,
                Passed(p, v, b)', Intact(v)'
         PROVE  Asked(Today(v))' + b <= DailyLimit
    <2>1. p # q
      BY <1>0, <1>4, <1>11 DEF Finishes, WithdrawalTypeOK, Passed, Handles
    <2>2. Passed(p, v, b)
      <3>1. handler' = [handler EXCEPT ![q] = Resting]
        BY <1>4 DEF Finishes
      <3>2. Passed(p, v, b)' = Passed(p, v, b)
        BY <1>0, <2>1, <3>1, OneRequest
      <3> QED
        BY <1>11, <3>2
    <2>3. v # u
      BY <1>0, <1>4, <2>1, <2>2 DEF LocksAreHeld, Passed
    <2>4. RoomOf(p)
      BY <1>0, RoomByUser DEF Before, LimitInv, RoomForAll
    <2> QED
      BY <1>7, <1>8, <1>11, <2>2, <2>3, <2>4 DEF RoomOf
  <1>12. RoomIsLeft'
    <2>1. RoomForAll' /\ WithdrawalTypeOK'
      BY <1>0, <1>11 DEF RoomForAll, RoomOf
    <2> QED
      BY <2>1, RoomByUser, PTL
  <1> QED
    BY <1>6, <1>10, <1>12 DEF LimitInv

\* Steps of others.
LEMMA OtherLimit ==
    ASSUME Before, ~LockMayExpire,
           \/ \E q \in Handlers : FinalizeWithdrawal(q) \/ CommitApproval(q)
           \/ \E w \in Withdrawals : TriggerDisbursement(w) \/ RecoverPendingWithdrawals(w)
           \/ \E u \in Users : LockExpires(u) \/ \E a \in Amounts : Spend(u, a)
           \/ Midnight \/ UNCHANGED withdrawalVars
    PROVE  LimitInv'
  <1>1. CASE \E q \in Handlers : FinalizeWithdrawal(q) \/ CommitApproval(q)
    <2>1. PICK q \in Handlers : FinalizeWithdrawal(q) \/ CommitApproval(q)
      BY <1>1
    <2>2. NoMoreToday
      BY <2>1, EndingToday DEF Before
    <2>3. Finishes(q) /\ UNCHANGED lock
      BY <2>1, EndingRow DEF Before
    <2>4. NoneBegins /\ NonePasses
      BY <2>3 DEF NoneBegins, NonePasses, Passed, Handles, Finishes, Before, WithdrawalTypeOK
    <2> QED
      BY <2>2, <2>3, <2>4, LocksStay, RoomStays DEF Before, LimitInv, NonePasses
  <1>2. CASE Midnight
    <2>1. NoMoreToday /\ UNCHANGED <<handler, lock>>
      BY <1>2, MidnightToday DEF Before, Midnight
    <2>2. NoneBegins /\ NonePasses
      BY <2>1 DEF NoneBegins, NonePasses, Passed, Handles
    <2> QED
      BY <2>1, <2>2, LocksStay, RoomStays DEF Before, LimitInv, NonePasses
  <1>3. ASSUME UNCHANGED <<rows, raced, handler>>, LocksAreHeld'
        PROVE  LimitInv'
    <2>1. NoMoreToday
      BY <1>3, SameToday DEF Before
    <2>2. NonePasses
      BY <1>3 DEF NonePasses, Passed, Handles
    <2> QED
      BY <1>3, <2>1, <2>2, RoomStays DEF Before, LimitInv, NonePasses
  <1>4. ASSUME UNCHANGED <<handler, lock>>
        PROVE  LocksAreHeld'
    BY <1>4 DEF LocksAreHeld, Before, LimitInv, Handles
  <1>5. CASE \E w \in Withdrawals : TriggerDisbursement(w) \/ RecoverPendingWithdrawals(w)
    BY <1>3, <1>4, <1>5 DEF TriggerDisbursement, RecoverPendingWithdrawals, ghosts
  <1>6. ASSUME NEW u \in Users, LockExpires(u)
        PROVE  LimitInv'
    <2>1. LocksAreHeld'
      BY <1>6, LockExpiry DEF Before, LimitInv
    <2> QED
      BY <1>3, <1>6, <2>1 DEF LockExpires, ghosts
  <1>7. ASSUME NEW u \in Users, NEW a \in Amounts, Spend(u, a)
        PROVE  LimitInv'
    BY <1>3, <1>4, <1>7 DEF Spend, ghosts
  <1>8. CASE UNCHANGED withdrawalVars
    BY <1>3, <1>4, <1>8 DEF withdrawalVars, ghosts
  <1> QED
    BY <1>1, <1>2, <1>5, <1>6, <1>7, <1>8

\* At first nothing was withdrawn today.
LEMMA InitLimit == WithdrawalInit => LimitInv
  <1> SUFFICES ASSUME WithdrawalInit PROVE LimitInv
    OBVIOUS
  <1>1. LocksAreHeld /\ RoomIsLeft
    BY DEF WithdrawalInit, LocksAreHeld, RoomIsLeft, Handles
  <1>2. \A u \in Users : Today(u) = {}
    BY DEF WithdrawalInit, Today, Stored
  <1>3. \A u \in Users : Asked(Today(u)) = 0
    BY <1>2, SumEmpty DEF Asked, SumFunction
  <1> QED
    BY <1>1, <1>3, WithdrawalAssumption DEF LimitInv, LimitKept

\* Every step keeps the limit.
LEMMA NextLimit ==
    ASSUME ~SumMayFail, ~LockMayExpire
    PROVE  RefundInv /\ RefundInv' /\ MoneyInv /\ MoneyInv' /\ LimitInv /\ [WithdrawalNext]_withdrawalVars
             => LimitInv'
  <1> SUFFICES ASSUME RefundInv, RefundInv', MoneyInv, MoneyInv', LimitInv, [WithdrawalNext]_withdrawalVars
               PROVE  LimitInv'
    OBVIOUS
  <1>1. Before
    BY DEF Before, RefundInv, MoneyInv
  <1> QED
    BY <1>1, RequestLimit, CheckLimitStep, DeductLimit, OtherLimit DEF WithdrawalNext

\* If today's sum can be read and a request ends before its lock does, a user
\* without e-KYC never has more than the daily limit out in withdrawals of a day,
\* unless one of them was ended twice, which can turn one that was rejected into
\* one that counts (processWithdrawalDB, SumTodayWithdrawals).
THEOREM LimitIsKept ==
    ASSUME ~SumMayFail, ~LockMayExpire
    PROVE  WithdrawalSpec => []LimitKept
  <1>1. LimitInv => LimitKept
    BY DEF LimitInv
  <1>2. RefundInv /\ MoneyInv /\ LimitInv /\ [WithdrawalNext]_withdrawalVars
          => (RefundInv /\ MoneyInv /\ LimitInv)'
    BY NextRefund, NextMoney, NextLimit
  <1> QED
    BY <1>1, <1>2, InitRefund, InitMoney, InitLimit, PTL DEF WithdrawalSpec

-----------------------------------------------------------------------------
(* Payments: rows.                                                         *)

\* A code that was taken is one of the codes.
LEMMA NewCode ==
    ASSUME NEW x, NEW c, TakesCode(x, c)
    PROVE  c \in Codes
  BY DEF TakesCode, FreeCodes

\* What a top-up costs is positive, and known from its row.
LEMMA TotalType ==
    ASSUME NEW t \in Tops, tops[t] \in TopRow
    PROVE  Total(t) = Credited(t) + PGFee /\ Credited(t) \in Nat \ {0}
  <1>1. t \notin Orders /\ Base[t] \in Nat \ {0}
    BY PaymentsAssumption DEF Payables
  <1>2. tops[t].code \in Nat \ {0} /\ PGFee \in Nat
    BY PaymentsAssumption DEF TopRow, Codes
  <1>3. Total(t) = Base[t] + (PGFee + tops[t].code)
    BY <1>1, <1>2 DEF Total, RowOf, SumOf
  <1> QED
    BY <1>1, <1>2, <1>3 DEF Credited

-----------------------------------------------------------------------------
(* Steps that leave the top-ups alone.                                     *)

\* What the invariant says of rows depends on tops and bal only.
LEMMA RowsKept ==
    ASSUME Uncredited, CreditAgrees, UNCHANGED <<tops, bal>>
    PROVE  Uncredited' /\ CreditAgrees'
  <1>1. \A t \in Tops : Total(t)' = Total(t)
    BY PaymentsAssumption DEF Total, RowOf, SumOf
  <1> QED
    BY <1>1 DEF Uncredited, CreditAgrees

\* A request that is not about a top-up, or is over.
LEMMA OtherRequest ==
    ASSUME CreditInv, UNCHANGED <<tops, bal>>, NEW q, NEW r,
           r = Idle \/ (r.kind # "topup" /\ r.kind # "cancel"),
           req' = [req EXCEPT ![q] = r]
    PROVE  CreditInv'
  <1>1. req' = [p \in Procs |-> IF p = q THEN r ELSE req[p]]
    BY DEF CreditInv, KnowsItsTopUp
  <1>2. \A p \in Procs : (Does(p, "topup") \/ Does(p, "cancel"))' =>
            /\ req'[p] = req[p] /\ p # q
            /\ Does(p, "topup")' => Does(p, "topup")
            /\ Does(p, "cancel")' => Does(p, "cancel")
    BY <1>1 DEF Does
  <1>3. KnowsItsTopUp'
    <2>1. req' = [p \in Procs |-> req'[p]]
      BY <1>1
    <2>2. SUFFICES ASSUME NEW p \in Procs
                   PROVE  /\ Does(p, "topup")' =>
                               /\ req'[p] \in ToppingUp /\ tops[req'[p].id] = NoRow
                               /\ \A o \in Procs \ {p} :
                                    Does(o, "topup")' => req'[o].id # req'[p].id
                          /\ Does(p, "cancel")' =>
                               req'[p].id \in Tops /\ tops[req'[p].id] # NoRow
      BY <2>1 DEF KnowsItsTopUp
    <2>3. ASSUME Does(p, "topup")'
          PROVE  /\ req'[p] \in ToppingUp /\ tops[req'[p].id] = NoRow
                 /\ \A o \in Procs \ {p} : Does(o, "topup")' => req'[o].id # req'[p].id
      BY <1>2, <2>3 DEF CreditInv, KnowsItsTopUp
    <2>4. ASSUME Does(p, "cancel")'
          PROVE  req'[p].id \in Tops /\ tops[req'[p].id] # NoRow
      BY <1>2, <2>4 DEF CreditInv, KnowsItsTopUp
    <2> QED
      BY <2>3, <2>4
  <1> QED
    BY <1>3, RowsKept DEF CreditInv

\* No request changes.
LEMMA NoRequest ==
    ASSUME CreditInv, UNCHANGED <<tops, bal, req>>
    PROVE  CreditInv'
  <1>1. KnowsItsTopUp'
    BY DEF CreditInv, KnowsItsTopUp, Does
  <1> QED
    BY <1>1, RowsKept DEF CreditInv

\* Orders, their codes, and notifications that do not pay for a top-up.
LEMMA OrderSteps ==
    ASSUME CreditInv, NEW q \in Procs, NEW o,
           \/ CreateOrder(q, o) \/ ViewOrder(q, o) \/ RefreshQRIS(q, o)
           \/ TakeNewCode(q) \/ SaveQRIS(q) \/ WriteRefreshed(q) \/ NoQRIS(q)
    PROVE  CreditInv'
  <1>1. CASE CreateOrder(q, o)
    BY <1>1, OtherRequest DEF CreateOrder, Begin, View, books
  <1>2. CASE ViewOrder(q, o)
    BY <1>2, OtherRequest DEF ViewOrder, Begin, View, books
  <1>3. CASE RefreshQRIS(q, o)
    BY <1>3, OtherRequest DEF RefreshQRIS, Begin, books, rowsOf
  <1>4. CASE TakeNewCode(q)
    BY <1>4, OtherRequest DEF TakeNewCode, books, rowsOf
  <1>5. CASE SaveQRIS(q)
    BY <1>5, OtherRequest DEF SaveQRIS, Done, books
  <1>6. CASE WriteRefreshed(q)
    BY <1>6, OtherRequest DEF WriteRefreshed, View, books
  <1>7. CASE NoQRIS(q)
    BY <1>7, OtherRequest DEF NoQRIS, Done, books, rowsOf
  <1> QED
    BY <1>1, <1>2, <1>3, <1>4, <1>5, <1>6, <1>7

\* Notifications being booked, and what nobody asked for.
LEMMA BookingSteps ==
    ASSUME CreditInv, NEW q \in Procs, NEW n,
           \/ PaymentListener(q, n) \/ AdminConfirm(q, n) \/ LockAndMatch(q)
           \/ CreditRollsBack(q) \/ Mark(q) \/ BookingFails(q) \/ BookingAbandoned(q)
    PROVE  CreditInv'
  <1>1. CASE PaymentListener(q, n)
    BY <1>1, OtherRequest DEF PaymentListener, Begin, rowsOf
  <1>2. CASE AdminConfirm(q, n)
    BY <1>2, OtherRequest DEF AdminConfirm, Proceed, rowsOf
  <1>3. CASE LockAndMatch(q)
    <2>1. PICK x \in Payables :
              Proceed(q, req[q].note, x) /\ UNCHANGED <<tops, bal>>
      BY <1>3 DEF LockAndMatch, rowsOf
    <2> QED
      BY <2>1, OtherRequest DEF Proceed
  <1>4. CASE CreditRollsBack(q)
    BY <1>4, OtherRequest DEF CreditRollsBack, Done
  <1>5. CASE Mark(q)
    BY <1>5, OtherRequest DEF Mark, Done, rowsOf
  <1>6. CASE BookingFails(q)
    BY <1>6, OtherRequest DEF BookingFails, Done, rowsOf
  <1>7. CASE BookingAbandoned(q)
    BY <1>7, OtherRequest DEF BookingAbandoned, Done, rowsOf
  <1> QED
    BY <1>1, <1>2, <1>3, <1>4, <1>5, <1>6, <1>7

LEMMA JobSteps ==
    ASSUME CreditInv, NEW j \in queue, ProcessPayment(j) \/ JobFails(j)
    PROVE  CreditInv'
  <1>1. CASE ProcessPayment(j)
    <2>1. UNCHANGED <<tops, bal>>
      BY <1>1 DEF ProcessPayment
    <2>2. CASE j.waiter = Nobody
      BY <1>1, <2>1, <2>2, NoRequest DEF ProcessPayment
    <2>3. CASE j.waiter # Nobody
      BY <1>1, <2>1, <2>3, OtherRequest DEF ProcessPayment
    <2> QED
      BY <2>2, <2>3
  <1>2. CASE JobFails(j)
    <2>1. UNCHANGED <<tops, bal>>
      BY <1>2 DEF JobFails, rowsOf
    <2>2. CASE j.waiter = Nobody
      BY <1>2, <2>1, <2>2, NoRequest DEF JobFails
    <2>3. CASE j.waiter # Nobody
      BY <1>2, <2>1, <2>3, OtherRequest DEF JobFails, Done
    <2> QED
      BY <2>2, <2>3
  <1> QED
    BY <1>1, <1>2

LEMMA EnvironmentSteps ==
    ASSUME CreditInv, NEW o, NEW n, NEW x, NEW s,
           \/ CancelOrder(o) \/ WebhookOrder(o) \/ Lapse(s) \/ AmountLockExpires(s)
           \/ Pay(n, x, s)
    PROVE  CreditInv'
  <1>1. UNCHANGED <<tops, bal, req>>
    BY DEF CancelOrder, WebhookOrder, Lapse, AmountLockExpires, Pay, books, rowsOf
  <1> QED
    BY <1>1, NoRequest

-----------------------------------------------------------------------------
(* Top-ups.                                                                *)

\* A request gets a reference that no other request has and no row.
LEMMA InitiateStep ==
    ASSUME CreditInv, NEW q \in Procs, NEW t \in Tops, InitiateTopUp(q, t)
    PROVE  CreditInv'
  <1>1. UNCHANGED <<tops, bal>>
    BY DEF InitiateTopUp, rowsOf, books
  <1>2. PICK c \in Codes :
            /\ req[q] = Idle
            /\ req' = [req EXCEPT ![q] = [kind |-> "topup", id |-> t, code |-> c]]
    BY NewCode DEF InitiateTopUp, Begin
  <1>3. req' = [p \in Procs |-> IF p = q THEN [kind |-> "topup", id |-> t, code |-> c]
                                ELSE req[p]]
    BY <1>2 DEF CreditInv, KnowsItsTopUp
  <1>4. req'[q] \in ToppingUp /\ req'[q].id = t /\ ~Does(q, "cancel")'
    BY <1>3 DEF ToppingUp, Does
  <1>5. \A p \in Procs \ {q} :
            /\ req'[p] = req[p]
            /\ Does(p, "topup")' <=> Does(p, "topup")
            /\ Does(p, "cancel")' <=> Does(p, "cancel")
    BY <1>3 DEF Does
  <1>6. tops[t] = NoRow /\ \A p \in Procs : Does(p, "topup") => req[p].id # t
    BY DEF InitiateTopUp
  <1>7. KnowsItsTopUp'
    <2>1. req' = [p \in Procs |-> req'[p]]
      BY <1>3
    <2>2. \A p \in Procs : Does(p, "topup")' =>
              /\ req'[p] \in ToppingUp /\ tops'[req'[p].id] = NoRow
              /\ \A o \in Procs \ {p} : Does(o, "topup")' => req'[o].id # req'[p].id
      BY <1>1, <1>4, <1>5, <1>6 DEF CreditInv, KnowsItsTopUp
    <2>3. \A p \in Procs : Does(p, "cancel")' =>
              req'[p].id \in Tops /\ tops'[req'[p].id] # NoRow
      BY <1>1, <1>4, <1>5 DEF CreditInv, KnowsItsTopUp
    <2> QED
      BY <2>1, <2>2, <2>3 DEF KnowsItsTopUp
  <1> QED
    BY <1>1, <1>7, RowsKept DEF CreditInv

\* An administrator begins to cancel what is there.
LEMMA CancelBegins ==
    ASSUME CreditInv, NEW q \in Procs, NEW t \in Tops, AdminCancelTopUp(q, t)
    PROVE  CreditInv'
  <1>1. UNCHANGED <<tops, bal>>
    BY DEF AdminCancelTopUp, rowsOf, books
  <1>2. req' = [p \in Procs |-> IF p = q THEN [kind |-> "cancel", id |-> t] ELSE req[p]]
    BY DEF AdminCancelTopUp, Begin, CreditInv, KnowsItsTopUp
  <1>3. ~Does(q, "topup")' /\ req'[q].id = t /\ tops[t] # NoRow
    BY <1>2 DEF Does, AdminCancelTopUp, Waits
  <1>4. \A p \in Procs \ {q} :
            /\ req'[p] = req[p]
            /\ Does(p, "topup")' <=> Does(p, "topup")
            /\ Does(p, "cancel")' <=> Does(p, "cancel")
    BY <1>2 DEF Does
  <1>5. KnowsItsTopUp'
    <2>1. req' = [p \in Procs |-> req'[p]]
      BY <1>2
    <2>2. \A p \in Procs : Does(p, "topup")' =>
              /\ req'[p] \in ToppingUp /\ tops'[req'[p].id] = NoRow
              /\ \A o \in Procs \ {p} : Does(o, "topup")' => req'[o].id # req'[p].id
      BY <1>1, <1>3, <1>4 DEF CreditInv, KnowsItsTopUp
    <2>3. \A p \in Procs : Does(p, "cancel")' =>
              req'[p].id \in Tops /\ tops'[req'[p].id] # NoRow
      BY <1>1, <1>3, <1>4 DEF CreditInv, KnowsItsTopUp
    <2> QED
      BY <2>1, <2>2, <2>3 DEF KnowsItsTopUp
  <1> QED
    BY <1>1, <1>5, RowsKept DEF CreditInv

\* What a request knows of its top-up stays true when it ends, and while the rows
\* that are stored stay the same ones.
LEMMA KnowledgeKept ==
    ASSUME KnowsItsTopUp, NEW q,
           \A t \in Tops : tops'[t] = NoRow <=> tops[t] = NoRow,
           req' = req \/ req' = [req EXCEPT ![q] = Idle]
    PROVE  KnowsItsTopUp'
  <1>1. /\ req' = [p \in Procs |-> req'[p]]
        /\ \A p \in Procs : (Does(p, "topup") \/ Does(p, "cancel"))' => req'[p] = req[p]
    BY DEF KnowsItsTopUp, Does
  <1>2. \A p \in Procs : /\ Does(p, "topup")' => Does(p, "topup")
                         /\ Does(p, "cancel")' => Does(p, "cancel")
    BY <1>1 DEF Does
  <1>3. \A p \in Procs : Does(p, "topup")' =>
            /\ req'[p] \in ToppingUp /\ tops'[req'[p].id] = NoRow
            /\ \A o \in Procs \ {p} : Does(o, "topup")' => req'[o].id # req'[p].id
    <2>1. SUFFICES ASSUME NEW p \in Procs, Does(p, "topup")'
                   PROVE  /\ req'[p] \in ToppingUp /\ tops'[req'[p].id] = NoRow
                          /\ \A o \in Procs \ {p} :
                               Does(o, "topup")' => req'[o].id # req'[p].id
      OBVIOUS
    <2>2. req'[p] \in ToppingUp /\ tops[req'[p].id] = NoRow
      BY <1>1, <1>2, <2>1 DEF KnowsItsTopUp
    <2>3. req'[p].id \in Tops
      BY <2>2 DEF ToppingUp
    <2> QED
      BY <1>1, <1>2, <2>1, <2>2, <2>3 DEF KnowsItsTopUp
  <1>4. \A p \in Procs : Does(p, "cancel")' =>
            req'[p].id \in Tops /\ tops'[req'[p].id] # NoRow
    BY <1>1, <1>2 DEF KnowsItsTopUp
  <1> QED
    BY <1>1, <1>3, <1>4 DEF KnowsItsTopUp

\* A row that keeps its code keeps its total.
LEMMA TotalKept ==
    ASSUME NEW t \in Tops, tops'[t].code = tops[t].code
    PROVE  Total(t)' = Total(t)
  BY PaymentsAssumption DEF Total, RowOf, SumOf

\* Crediting: a pending row was not credited yet, and gets its total less the fee.
LEMMA CreditRows ==
    ASSUME CreditInv, NEW t, NEW n, Credit(t, n)
    PROVE  /\ Uncredited' /\ CreditAgrees'
           /\ \A u \in Tops : tops'[u] = NoRow <=> tops[u] = NoRow
  <1>1. /\ tops \in [Tops -> TopRow \cup {NoRow}] /\ bal \in [Tops -> Nat]
        /\ NoRow \notin TopRow
    BY SentinelAssumption DEF CreditInv, Uncredited
  <1>2. \A u \in Tops \ {t} : tops'[u] = tops[u] /\ bal'[u] = bal[u]
    BY <1>1 DEF Credit
  <1>3. ASSUME t \in Tops
        PROVE  /\ tops[t] \in TopRow /\ tops[t].status = "pending"
               /\ tops'[t] = [tops[t] EXCEPT !.status = "completed"]
               /\ bal[t] = 0 /\ bal'[t] = Credited(t)
    <2>1. tops[t] \in TopRow /\ tops[t].status = "pending"
      BY <1>1, <1>3 DEF Credit, MayCredit, Waits
    <2>2. bal[t] = 0
      BY <1>1, <1>3, <2>1 DEF CreditInv, CreditAgrees
    <2>3. bal'[t] = bal[t] + Credited(t)
      BY <1>1, <1>3 DEF Credit
    <2>4. Credited(t) \in Nat
      BY <1>3, <2>1, TotalType
    <2> QED
      BY <1>1, <1>3, <2>1, <2>2, <2>3, <2>4 DEF Credit
  <1>4. ASSUME t \in Tops
        PROVE  /\ tops'[t] \in TopRow /\ tops'[t].status = "completed"
               /\ tops'[t].code = tops[t].code
    BY <1>3, <1>4 DEF TopRow
  <1>5. \A u \in Tops : Total(u)' = Total(u)
    BY <1>2, <1>4, TotalKept
  <1>6. /\ tops' \in [Tops -> TopRow \cup {NoRow}]
        /\ bal' \in [Tops -> Nat]
    <2>1. ASSUME NEW u \in Tops
          PROVE  tops'[u] \in TopRow \cup {NoRow} /\ bal'[u] \in Nat
      BY <1>1, <1>2, <1>3, <1>4, TotalType
    <2> QED
      BY <1>1, <2>1 DEF Credit
  <1>7. \A u \in Tops : tops'[u] = NoRow <=> tops[u] = NoRow
    BY <1>1, <1>2, <1>3, <1>4
  <1>8. Uncredited'
    BY <1>1, <1>2, <1>3, <1>6, <1>7 DEF CreditInv, Uncredited
  <1>9. CreditAgrees'
    <2>1. SUFFICES ASSUME NEW u \in Tops
                   PROVE  /\ bal'[u] > 0 => tops'[u].status # "pending"
                                            /\ bal'[u] + PGFee = Total(u)'
                          /\ tops'[u] # NoRow /\ tops'[u].status = "completed"
                               => bal'[u] > 0
      BY DEF CreditAgrees
    <2>2. CASE u = t
      BY <1>3, <1>4, <1>5, <2>2, TotalType
    <2>3. CASE u # t
      BY <1>2, <1>5, <2>3 DEF CreditInv, CreditAgrees
    <2> QED
      BY <2>2, <2>3
  <1> QED
    BY <1>7, <1>8, <1>9

LEMMA CreditSteps ==
    ASSUME CreditInv, NEW q, NEW t, FinalizeTopUp(t) \/ CreditByNote(q)
    PROVE  CreditInv'
  <1>1. CASE FinalizeTopUp(t)
    <2>1. Credit(t, Nobody) /\ req' = req
      BY <1>1 DEF FinalizeTopUp
    <2> QED
      BY <2>1, CreditRows, KnowledgeKept DEF CreditInv
  <1>2. CASE CreditByNote(q)
    <2>1. Credit(req[q].id, req[q].note) /\ req' = [req EXCEPT ![q] = Idle]
      BY <1>2 DEF CreditByNote, Done
    <2> QED
      BY <2>1, CreditRows, KnowledgeKept DEF CreditInv
  <1> QED
    BY <1>1, <1>2

\* A new row was not credited before, and no other request writes it.
LEMMA InsertStep ==
    ASSUME CreditInv, NEW q \in Procs, InsertTopUp(q)
    PROVE  CreditInv'
  <1> DEFINE t == req[q].id
             row == [status |-> "pending", code |-> req[q].code]
  <1>1. req[q] \in ToppingUp /\ tops[t] = NoRow
    BY DEF InsertTopUp, CreditInv, KnowsItsTopUp
  <1>2. t \in Tops /\ row \in TopRow /\ row # NoRow
    BY <1>1, SentinelAssumption DEF ToppingUp, TopRow
  <1>3. /\ tops' = [tops EXCEPT ![t] = row] /\ bal' = bal
        /\ req' = [p \in Procs |-> IF p = q THEN Idle ELSE req[p]]
    BY DEF InsertTopUp, Done, books, CreditInv, KnowsItsTopUp
  <1>4. \A p \in Procs \ {q} : Does(p, "topup") => req[p].id # t
    BY DEF InsertTopUp, CreditInv, KnowsItsTopUp
  <1> HIDE DEF t, row
  <1>5. /\ tops \in [Tops -> TopRow \cup {NoRow}] /\ bal \in [Tops -> Nat]
        /\ bal[t] = 0
    BY <1>1, <1>2 DEF CreditInv, Uncredited
  <1>6. /\ tops'[t] = row /\ row.status = "pending"
        /\ \A u \in Tops \ {t} : tops'[u] = tops[u]
    BY <1>2, <1>3, <1>5 DEF row
  <1>7. Uncredited'
    BY <1>2, <1>3, <1>5, <1>6 DEF CreditInv, Uncredited
  <1>8. CreditAgrees'
    <2>1. \A u \in Tops \ {t} : Total(u)' = Total(u)
      BY <1>6, TotalKept
    <2> QED
      BY <1>3, <1>5, <1>6, <2>1 DEF CreditInv, CreditAgrees
  <1>9. KnowsItsTopUp'
    <2>1. \A p \in Procs : (Does(p, "topup") \/ Does(p, "cancel"))' =>
              /\ p # q /\ req'[p] = req[p]
              /\ Does(p, "topup")' => Does(p, "topup")
              /\ Does(p, "cancel")' => Does(p, "cancel")
      BY <1>3 DEF Does
    <2>2. \A p \in Procs : Does(p, "topup")' =>
              /\ req'[p] \in ToppingUp /\ tops'[req'[p].id] = NoRow
              /\ \A o \in Procs \ {p} : Does(o, "topup")' => req'[o].id # req'[p].id
      <3>1. SUFFICES ASSUME NEW p \in Procs, Does(p, "topup")'
                     PROVE  /\ req'[p] \in ToppingUp /\ tops'[req'[p].id] = NoRow
                            /\ \A o \in Procs \ {p} :
                                 Does(o, "topup")' => req'[o].id # req'[p].id
        OBVIOUS
      <3>2. /\ req[p] \in ToppingUp /\ tops[req[p].id] = NoRow
            /\ req'[p] = req[p] /\ req[p].id # t
        BY <1>4, <2>1, <3>1 DEF CreditInv, KnowsItsTopUp
      <3>3. tops'[req[p].id] = NoRow
        BY <1>6, <3>2 DEF ToppingUp
      <3> QED
        BY <2>1, <3>1, <3>2, <3>3 DEF CreditInv, KnowsItsTopUp
    <2>3. \A p \in Procs : Does(p, "cancel")' =>
              req'[p].id \in Tops /\ tops'[req'[p].id] # NoRow
      BY <1>2, <1>6, <2>1 DEF CreditInv, KnowsItsTopUp
    <2> QED
      BY <1>3, <2>2, <2>3 DEF KnowsItsTopUp
  <1> QED
    BY <1>7, <1>8, <1>9 DEF CreditInv

\* A cancellation that comes too late calls a credited row failed, and takes
\* nothing back.
LEMMA CancelEnds ==
    ASSUME CreditInv, NEW q \in Procs, CommitCancelTopUp(q)
    PROVE  CreditInv'
  <1> DEFINE t == req[q].id
  <1>1. t \in Tops /\ tops[t] # NoRow
    BY DEF CommitCancelTopUp, CreditInv, KnowsItsTopUp
  <1>2. /\ tops' = [tops EXCEPT ![t] = [tops[t] EXCEPT !.status = "failed"]]
        /\ bal' = bal /\ req' = [req EXCEPT ![q] = Idle]
    BY DEF CommitCancelTopUp, Done, books
  <1> HIDE DEF t
  <1>3. /\ tops \in [Tops -> TopRow \cup {NoRow}] /\ bal \in [Tops -> Nat]
        /\ NoRow \notin TopRow
    BY SentinelAssumption DEF CreditInv, Uncredited
  <1>4. /\ tops'[t] = [tops[t] EXCEPT !.status = "failed"] /\ tops[t] \in TopRow
        /\ \A u \in Tops \ {t} : tops'[u] = tops[u]
    BY <1>1, <1>2, <1>3
  <1>5. tops'[t] \in TopRow /\ tops'[t].status = "failed" /\ tops'[t].code = tops[t].code
    BY <1>4 DEF TopRow
  <1>6. \A u \in Tops : tops'[u] = NoRow <=> tops[u] = NoRow
    BY <1>1, <1>3, <1>4, <1>5
  <1>7. Uncredited'
    BY <1>2, <1>3, <1>4, <1>5, <1>6 DEF CreditInv, Uncredited
  <1>8. \A u \in Tops : Total(u)' = Total(u)
    BY <1>4, <1>5, TotalKept
  <1>9. CreditAgrees'
    BY <1>2, <1>3, <1>4, <1>5, <1>6, <1>8 DEF CreditInv, CreditAgrees
  <1>10. KnowsItsTopUp'
    BY <1>2, <1>6, KnowledgeKept DEF CreditInv
  <1> QED
    BY <1>7, <1>9, <1>10 DEF CreditInv

-----------------------------------------------------------------------------
(* The theorems about what is credited.                                    *)

LEMMA InitCredit == Init => CreditInv
  <1>1. SUFFICES ASSUME Init PROVE CreditInv
    OBVIOUS
  <1>2. Uncredited
    BY <1>1 DEF Init, Uncredited
  <1>3. KnowsItsTopUp
    BY <1>1 DEF Init, KnowsItsTopUp, Does
  <1>4. CreditAgrees
    BY <1>1 DEF Init, CreditAgrees
  <1> QED
    BY <1>2, <1>3, <1>4 DEF CreditInv

LEMMA NextCredit == CreditInv /\ [Next]_vars => CreditInv'
  <1>1. SUFFICES ASSUME CreditInv, [Next]_vars PROVE CreditInv'
    OBVIOUS
  <1>2. CASE UNCHANGED vars
    BY <1>1, <1>2, NoRequest DEF vars
  <1>3. CASE \E q \in Procs, t \in Tops : InitiateTopUp(q, t) \/ AdminCancelTopUp(q, t)
    BY <1>1, <1>3, InitiateStep, CancelBegins
  <1>4. CASE \E q \in Procs, o \in Orders :
               CreateOrder(q, o) \/ ViewOrder(q, o) \/ RefreshQRIS(q, o)
    BY <1>1, <1>4, OrderSteps
  <1>5. CASE \E q \in Procs, n \in Notes : PaymentListener(q, n) \/ AdminConfirm(q, n)
    BY <1>1, <1>5, BookingSteps
  <1>6. ASSUME NEW q \in Procs,
               \/ TakeNewCode(q) \/ SaveQRIS(q) \/ WriteRefreshed(q) \/ NoQRIS(q)
        PROVE  CreditInv'
    BY <1>1, <1>6, OrderSteps
  <1>7. ASSUME NEW q \in Procs,
               \/ LockAndMatch(q) \/ CreditRollsBack(q) \/ Mark(q)
               \/ BookingFails(q) \/ BookingAbandoned(q)
        PROVE  CreditInv'
    BY <1>1, <1>7, BookingSteps
  <1>8. ASSUME NEW q \in Procs,
               InsertTopUp(q) \/ CommitCancelTopUp(q) \/ CreditByNote(q)
        PROVE  CreditInv'
    BY <1>1, <1>8, InsertStep, CancelEnds, CreditSteps
  <1>9. CASE \E t \in Tops : FinalizeTopUp(t)
    BY <1>1, <1>9, CreditSteps
  <1>10. CASE \/ \E o \in Orders : CancelOrder(o) \/ WebhookOrder(o)
              \/ \E s \in Totals : Lapse(s) \/ AmountLockExpires(s)
              \/ \E n \in Notes, x \in Payables \cup {Nobody}, s \in Totals : Pay(n, x, s)
    BY <1>1, <1>10, EnvironmentSteps
  <1>11. CASE \E j \in queue : ProcessPayment(j) \/ JobFails(j)
    BY <1>1, <1>11, JobSteps
  <1> QED
    BY <1>1, <1>2, <1>3, <1>4, <1>5, <1>6, <1>7, <1>8, <1>9, <1>10, <1>11 DEF Next

\* Whatever the gateway, the listener, administrators and failing transactions do,
\* a top-up is known to one request before it is stored, and credited only once
\* it is (FinalizeTopUp, InitiateTopUp).
THEOREM CreditInvariance == Spec => []CreditInv
  <1> QED
    BY InitCredit, NextCredit, PTL DEF Spec

\* FinalizeTopUp credits amount and code together and once, because it writes the
\* status under a condition; a cancellation that comes too late changes that only
\* in name.
THEOREM CreditsAgree == Spec => []CreditAgrees
  <1>1. CreditInv => CreditAgrees
    BY DEF CreditInv
  <1> QED
    BY <1>1, CreditInvariance, PTL

-----------------------------------------------------------------------------
(* Requests and rows keep their shapes.                                    *)

\* What a request does tells which record it is.
LEMMA RequestShapes ==
    ASSUME Typed, NEW q \in Procs
    PROVE  /\ Does(q, "view") => req[q] \in Viewing /\ orders[req[q].id] # NoRow
           /\ Does(q, "refresh") => req[q] \in Refreshing /\ orders[req[q].id] # NoRow
           /\ Does(q, "topup") => req[q] \in ToppingUp
           /\ Does(q, "cancel") => req[q] \in Cancelling /\ tops[req[q].id] # NoRow
           /\ Does(q, "book") => req[q] \in Booking /\ notes[req[q].note] # NoRow
           /\ At(q, "book", "credit") => req[q].id \in Tops
  <1>1. req[q] \in Requests \cup {Idle}
    BY DEF Typed
  <1>2. Does(q, "view") => req[q] \in Viewing
    BY <1>1 DEF Does, Requests, Viewing, Refreshing, ToppingUp, Cancelling, Booking
  <1>3. Does(q, "refresh") => req[q] \in Refreshing
    BY <1>1 DEF Does, Requests, Viewing, Refreshing, ToppingUp, Cancelling, Booking
  <1>4. Does(q, "topup") => req[q] \in ToppingUp
    BY <1>1 DEF Does, Requests, Viewing, Refreshing, ToppingUp, Cancelling, Booking
  <1>5. Does(q, "cancel") => req[q] \in Cancelling
    BY <1>1 DEF Does, Requests, Viewing, Refreshing, ToppingUp, Cancelling, Booking
  <1>6. Does(q, "book") => req[q] \in Booking
    BY <1>1 DEF Does, Requests, Viewing, Refreshing, ToppingUp, Cancelling, Booking
  <1> QED
    BY <1>2, <1>3, <1>4, <1>5, <1>6 DEF Typed

\* A sum is one of those that can be reserved.
LEMMA TotalIn ==
    ASSUME Typed, NEW x \in Payables, RowOf(x) # NoRow
    PROVE  Total(x) \in Totals
  <1>1. RowOf(x).code \in 0 .. MaxCode
    <2>1. CASE x \in Orders
      BY <2>1 DEF Typed, RowOf, OrderRow
    <2>2. CASE x \notin Orders
      <3>1. x \in Tops /\ RowOf(x) \in TopRow
        BY <2>2 DEF Typed, RowOf, Payables
      <3>2. RowOf(x).code \in Codes
        BY <3>1 DEF TopRow
      <3> QED
        BY <3>2, PaymentsAssumption DEF Codes
    <2> QED
      BY <2>1, <2>2
  <1> QED
    BY <1>1 DEF Total, Totals

LEMMA PayableIn ==
    ASSUME Typed, NEW x \in Payables, Payable(x)
    PROVE  RowOf(x) # NoRow /\ Total(x) \in Totals
  <1>1. RowOf(x) # NoRow
    BY DEF Payable, Unpaid, Waits, RowOf
  <1> QED
    BY <1>1, TotalIn

\* Rows are never deleted.
RowsGrow ==
    /\ orders' \in [Orders -> OrderRow \cup {NoRow}]
    /\ tops' \in [Tops -> TopRow \cup {NoRow}]
    /\ \A o \in Orders : orders[o] # NoRow => orders'[o] # NoRow
    /\ \A t \in Tops : tops[t] # NoRow => tops'[t] # NoRow

SumsFit ==
    /\ notes' \in [Notes -> Note \cup {NoRow}]
    /\ \A n \in Notes : notes[n] # NoRow => notes'[n] # NoRow
    /\ reserved' \in [Totals -> Payables \cup {Free}]
    /\ strays' \subseteq Payables

\* A request that is begun, goes on or ends.
Fits(r) ==
    /\ r \in Requests \cup {Idle}
    /\ r # Idle /\ r.kind \in {"view", "refresh"} => orders'[r.id] # NoRow
    /\ r # Idle /\ r.kind = "cancel" => tops'[r.id] # NoRow
    /\ r # Idle /\ r.kind = "book" =>
         notes'[r.note] # NoRow /\ (r.step = "credit" => r.id \in Tops)
Moves(q, r) == req' = [req EXCEPT ![q] = r] /\ Fits(r)

JobsFit ==
    /\ queue' \subseteq Job
    /\ \A j \in queue' : orders'[j.order] # NoRow /\ notes'[j.note] # NoRow

LEMMA TypedKept ==
    ASSUME Typed, RowsGrow, SumsFit, JobsFit \/ queue' \subseteq queue,
           req' = req \/ \E q \in Procs : \E r : Moves(q, r)
    PROVE  Typed'
  <1>1. /\ req' \in [Procs -> Requests \cup {Idle}]
        /\ \A p \in Procs : req'[p] = req[p] \/ Fits(req'[p])
    <2>1. CASE req' = req
      BY <2>1 DEF Typed
    <2>2. CASE \E q \in Procs : \E r : Moves(q, r)
      <3>1. PICK q, r : q \in Procs /\ Moves(q, r)
        BY <2>2
      <3>2. /\ req' = [req EXCEPT ![q] = r] /\ Fits(r) /\ r \in Requests \cup {Idle}
            /\ req \in [Procs -> Requests \cup {Idle}]
        BY <3>1 DEF Moves, Fits, Typed
      <3> QED
        BY <3>2
    <2> QED
      BY <2>1, <2>2
  <1>2. ASSUME NEW q \in Procs
        PROVE  /\ (Does(q, "view") \/ Does(q, "refresh"))' => orders'[req'[q].id] # NoRow
               /\ Does(q, "cancel")' => tops'[req'[q].id] # NoRow
               /\ Does(q, "book")' => notes'[req'[q].note] # NoRow
               /\ At(q, "book", "credit")' => req'[q].id \in Tops
    <2>1. CASE Fits(req'[q])
      BY <2>1 DEF Fits, Does, At
    <2>2. CASE req'[q] = req[q]
      <3>1. /\ Does(q, "view")' => Does(q, "view") /\ req[q].id \in Orders
            /\ Does(q, "refresh")' => Does(q, "refresh") /\ req[q].id \in Orders
            /\ Does(q, "cancel")' => Does(q, "cancel") /\ req[q].id \in Tops
            /\ Does(q, "book")' => Does(q, "book") /\ req[q].note \in Notes
            /\ At(q, "book", "credit")' => At(q, "book", "credit")
        BY <2>2, RequestShapes DEF Does, At, Viewing, Refreshing, Cancelling, Booking
      <3> QED
        BY <2>2, <3>1, RequestShapes DEF RowsGrow, SumsFit
    <2> QED
      BY <1>1, <2>1, <2>2
  <1>3. JobsFit
    BY DEF Typed, RowsGrow, SumsFit, JobsFit, Job
  <1> QED
    BY <1>1, <1>2, <1>3 DEF Typed, RowsGrow, SumsFit, JobsFit

LEMMA SameRows ==
    ASSUME Typed, UNCHANGED <<orders, tops>>
    PROVE  RowsGrow
  BY DEF Typed, RowsGrow

\* One row is written, and it is a row.
LEMMA OrderWritten ==
    ASSUME Typed, NEW o \in Orders, NEW row \in OrderRow,
           orders' = [orders EXCEPT ![o] = row], tops' = tops
    PROVE  RowsGrow
  BY SentinelAssumption DEF Typed, RowsGrow

LEMMA TopWritten ==
    ASSUME Typed, NEW t \in Tops, NEW row \in TopRow,
           tops' = [tops EXCEPT ![t] = row], orders' = orders
    PROVE  RowsGrow
  BY SentinelAssumption DEF Typed, RowsGrow

\* Giving up and taking a sum leave sums and notifications what they are.
LEMMA ForgetsTyped ==
    ASSUME Typed, NEW x, NEW s, NEW n, GivesUp(x, s, n)
    PROVE  /\ notes' \in [Notes -> Note \cup {NoRow}]
           /\ \A m \in Notes : notes[m] # NoRow => notes'[m] # NoRow
           /\ reserved' \in [Totals -> Payables \cup {Free}]
  <1>1. reserved' \in [Totals -> Payables \cup {Free}]
    BY DEF GivesUp, Released, Typed
  <1>2. ASSUME NEW m \in Notes
        PROVE  /\ notes'[m] \in Note \cup {NoRow}
               /\ notes[m] # NoRow => notes'[m] # NoRow
    <2>1. CASE notes'[m] = notes[m]
      BY <2>1 DEF Typed
    <2>2. CASE notes[m] # NoRow /\ notes'[m] = [notes[m] EXCEPT !.payer = Nobody]
      <3>1. notes[m] \in Note
        BY <2>2 DEF Typed
      <3>2. notes'[m] \in Note
        BY <2>2, <3>1 DEF Note
      <3> QED
        BY <3>2, SentinelAssumption
    <2> QED
      BY <2>1, <2>2 DEF GivesUp, Forgets
  <1>3. notes' = [m \in Notes |-> notes'[m]]
    BY DEF GivesUp, Forgets
  <1> QED
    BY <1>1, <1>2, <1>3

LEMMA CodesTyped ==
    ASSUME Typed, NEW x \in Payables, NEW c, TakesCode(x, c)
    PROVE  c \in Codes /\ reserved' \in [Totals -> Payables \cup {Free}]
  BY NewCode DEF TakesCode, Typed
\* Top-ups.
LEMMA TopSteps ==
    ASSUME Typed, NEW q \in Procs, NEW t \in Tops,
           \/ InitiateTopUp(q, t) \/ AdminCancelTopUp(q, t) \/ InsertTopUp(q)
           \/ CommitCancelTopUp(q)
    PROVE  Typed'
  <1> USE DEF Begin, Done, rowsOf, books
  <1>0. t \in Payables /\ NoRow \notin TopRow
    BY SentinelAssumption DEF Payables, SumsFit, Typed
  <1>1. CASE InitiateTopUp(q, t)
    <2>1. PICK c : /\ TakesCode(t, c)
                   /\ Begin(q, [kind |-> "topup", id |-> t, code |-> c])
      BY <1>1 DEF InitiateTopUp
    <2>2. c \in Codes /\ reserved' \in [Totals -> Payables \cup {Free}]
      BY <1>0, <2>1, CodesTyped
    <2>3. RowsGrow /\ SumsFit
      BY <1>0, <1>1, <2>2, SameRows DEF InitiateTopUp, SumsFit, Typed
    <2>4. queue' \subseteq queue
      BY <1>1, <2>3 DEF InitiateTopUp
    <2>5. Moves(q, [kind |-> "topup", id |-> t, code |-> c])
      BY <2>1, <2>2 DEF Moves, Fits, Requests, ToppingUp
    <2> QED
      BY <2>3, <2>4, <2>5, TypedKept
  <1>2. CASE AdminCancelTopUp(q, t)
    <2>1. RowsGrow /\ SumsFit /\ queue' \subseteq queue
      BY <1>0, <1>2, SameRows DEF AdminCancelTopUp, SumsFit, Typed, sums
    <2>2. Moves(q, [kind |-> "cancel", id |-> t])
      BY <1>2, <2>1 DEF AdminCancelTopUp, Waits, Moves, Fits, Requests, Cancelling, RowsGrow
    <2> QED
      BY <2>1, <2>2, TypedKept
  <1>3. CASE InsertTopUp(q)
    <2>1. req[q] \in ToppingUp
      BY <1>3, RequestShapes DEF InsertTopUp
    <2>2. [status |-> "pending", code |-> req[q].code] \in TopRow /\ req[q].id \in Tops
      BY <2>1 DEF ToppingUp, TopRow
    <2>3. RowsGrow
      BY <1>3, <2>2, TopWritten DEF InsertTopUp
    <2>4. SumsFit /\ queue' \subseteq queue
      BY <1>0, <1>3, <2>2, <2>3 DEF InsertTopUp, sums, SumsFit, Typed, Astray, Payables
    <2>5. Moves(q, Idle)
      BY <1>3 DEF InsertTopUp, Moves, Fits
    <2> QED
      BY <2>3, <2>4, <2>5, TypedKept
  <1>4. CASE CommitCancelTopUp(q)
    <2>1. req[q].id \in Tops /\ tops[req[q].id] # NoRow
      BY <1>4, RequestShapes DEF CommitCancelTopUp, Cancelling
    <2>2. [tops[req[q].id] EXCEPT !.status = "failed"] \in TopRow
      BY <2>1 DEF TopRow, Typed
    <2>3. RowsGrow
      BY <1>4, <2>1, <2>2, TopWritten DEF CommitCancelTopUp
    <2>4. SumsFit /\ queue' \subseteq queue
      BY <1>0, <1>4, <2>3, ForgetsTyped DEF CommitCancelTopUp, SumsFit, Typed
    <2>5. Moves(q, Idle)
      BY <1>4 DEF CommitCancelTopUp, Moves, Fits
    <2> QED
      BY <2>3, <2>4, <2>5, TypedKept
  <1> QED
    BY <1>1, <1>2, <1>3, <1>4

\* What crediting writes.
LEMMA CreditTyped ==
    ASSUME Typed, NEW t \in Tops, NEW n, Credit(t, n), orders' = orders, strays' = strays
    PROVE  RowsGrow /\ SumsFit
  <1>1. tops[t] # NoRow
    BY DEF Credit, MayCredit, Waits
  <1>2. [tops[t] EXCEPT !.status = "completed"] \in TopRow
    BY <1>1 DEF Typed, TopRow
  <1>3. RowsGrow
    BY <1>2, TopWritten DEF Credit
  <1>4. SumsFit
    BY ForgetsTyped DEF Credit, SumsFit, Typed
  <1> QED
    BY <1>3, <1>4

\* Orders and their codes.
LEMMA CodeSteps ==
    ASSUME Typed, NEW q \in Procs,
           TakeNewCode(q) \/ SaveQRIS(q) \/ NoQRIS(q) \/ WriteRefreshed(q)
    PROVE  Typed'
  <1> USE DEF Done, rowsOf, books

  <1>1. CASE TakeNewCode(q)
    <2>1. /\ req[q] \in Viewing /\ req[q].id \in Payables
          /\ orders[req[q].id] # NoRow
      BY <1>1, RequestShapes DEF TakeNewCode, At, Viewing, Payables
    <2> DEFINE r(c) == [kind |-> "view", step |-> "save", id |-> req[q].id, code |-> c]
    <2>2. PICK c : TakesCode(req[q].id, c) /\ req' = [req EXCEPT ![q] = r(c)]
      BY <1>1 DEF TakeNewCode
    <2>3. c \in Codes /\ reserved' \in [Totals -> Payables \cup {Free}]
      BY <2>1, <2>2, CodesTyped
    <2>4. RowsGrow /\ SumsFit
      BY <1>1, <2>3, SameRows DEF TakeNewCode, SumsFit, Typed
    <2>5. queue' \subseteq queue
      BY <1>1, <2>4 DEF TakeNewCode
    <2>6. c \in 0 .. MaxCode
      BY <2>3, PaymentsAssumption DEF Codes
    <2>7. Moves(q, r(c))
      BY <1>1, <2>1, <2>2, <2>6 DEF Moves, Fits, Requests, Viewing, TakeNewCode
    <2> QED
      BY <2>4, <2>5, <2>7, TypedKept
  <1>2. CASE SaveQRIS(q)
    <2>1. req[q] \in Viewing /\ orders[req[q].id] # NoRow
      BY <1>2, RequestShapes DEF SaveQRIS, At
    <2>2. /\ req[q].id \in Orders
          /\ [orders[req[q].id] EXCEPT !.code = req[q].code] \in OrderRow
      BY <2>1 DEF Viewing, OrderRow, Typed
    <2>3. RowsGrow
      BY <1>2, <2>2, OrderWritten DEF SaveQRIS
    <2>4. SumsFit /\ queue' \subseteq queue
      BY <1>2, <2>2, <2>3 DEF SaveQRIS, sums, SumsFit, Typed, Astray, Payables
    <2>5. Moves(q, Idle)
      BY <1>2 DEF SaveQRIS, Moves, Fits
    <2> QED
      BY <2>3, <2>4, <2>5, TypedKept
  <1>3. CASE NoQRIS(q)
    <2>1. RowsGrow /\ SumsFit /\ queue' \subseteq queue
      BY <1>3, SameRows DEF NoQRIS, SumsFit, Typed, sums
    <2>2. Moves(q, Idle)
      BY <1>3 DEF NoQRIS, Moves, Fits
    <2> QED
      BY <2>1, <2>2, TypedKept
  <1>4. CASE WriteRefreshed(q)
    <2> DEFINE o == req[q].id
               row == [cancelled |-> FALSE, paid |-> FALSE, code |-> req[q].code]
    <2>1. o \in Orders /\ row \in OrderRow
      BY <1>4, RequestShapes DEF WriteRefreshed, Refreshing, OrderRow
    <2>2. RowsGrow
      BY <1>4, <2>1, OrderWritten DEF WriteRefreshed
    <2>3. SumsFit /\ queue' \subseteq queue
      BY <1>4, <2>1, <2>2 DEF WriteRefreshed, sums, SumsFit, Typed, Astray, Payables
    <2>4. orders'[o] # NoRow
      BY <1>4, <2>1, SentinelAssumption DEF WriteRefreshed, Typed
    <2>5. 0 \in 0 .. MaxCode
      BY PaymentsAssumption
    <2>6. View(o) \in Requests /\ View(o).kind = "view" /\ View(o).id = o
      BY <2>1, <2>5 DEF View, Requests, Viewing
    <2>7. Fits(View(o)) /\ Fits(Idle)
      BY <2>4, <2>6 DEF Fits
    <2>8. \E r : Moves(q, r)
      BY <1>4, <2>7 DEF WriteRefreshed, Moves
    <2> QED
      BY <2>2, <2>3, <2>8, TypedKept
  <1> QED
    BY <1>1, <1>2, <1>3, <1>4

LEMMA OrderViews ==
    ASSUME Typed, NEW q \in Procs, NEW o \in Orders,
           CreateOrder(q, o) \/ ViewOrder(q, o) \/ RefreshQRIS(q, o)
    PROVE  Typed'
  <1> USE DEF Begin, rowsOf, books
  <1>0. o \in Payables /\ 0 \in 0 .. MaxCode
    BY PaymentsAssumption DEF Payables, SumsFit, Typed
  <1>1. /\ View(o) \in Requests /\ View(o).kind = "view" /\ View(o).id = o
    BY <1>0 DEF View, Requests, Viewing
  <1>2. CASE CreateOrder(q, o)
    <2> DEFINE row == [cancelled |-> FALSE, paid |-> FALSE, code |-> 0]
    <2>1. row \in OrderRow
      BY <1>0 DEF OrderRow
    <2>2. RowsGrow /\ orders'[o] # NoRow
      BY <1>2, <2>1, OrderWritten, SentinelAssumption DEF CreateOrder, Typed
    <2>3. SumsFit /\ queue' \subseteq queue
      BY <1>0, <1>2, <2>2 DEF CreateOrder, sums, SumsFit, Typed, Astray
    <2>4. Moves(q, View(o))
      BY <1>1, <1>2, <2>2 DEF CreateOrder, Moves, Fits
    <2> QED
      BY <2>2, <2>3, <2>4, TypedKept
  <1>3. CASE ViewOrder(q, o)
    <2>1. RowsGrow /\ queue' \subseteq queue
      BY <1>3, SameRows DEF ViewOrder
    <2>2. SumsFit
      BY <1>0, <1>3, ForgetsTyped DEF ViewOrder, GivesUpIfCoded, SumsFit, Typed, sums
    <2>3. Moves(q, View(o))
      BY <1>1, <1>3 DEF ViewOrder, Unpaid, Moves, Fits
    <2> QED
      BY <2>1, <2>2, <2>3, TypedKept
  <1>4. CASE RefreshQRIS(q, o)
    <2>1. RowsGrow /\ queue' \subseteq queue /\ SumsFit
      BY <1>0, <1>4, SameRows DEF RefreshQRIS, sums, SumsFit, Typed
    <2>2. orders[o] \in OrderRow
      BY <1>4 DEF RefreshQRIS, Unpaid, Typed
    <2>3. Moves(q, [kind |-> "refresh", id |-> o, code |-> orders[o].code])
      BY <1>4, <2>2 DEF RefreshQRIS, Unpaid, Moves, Fits, Requests, Refreshing, OrderRow
    <2> QED
      BY <2>1, <2>3, TypedKept
  <1> QED
    BY <1>2, <1>3, <1>4
\* Marking an order as paid.
LEMMA MarkTyped ==
    ASSUME Typed, NEW o \in Orders, NEW n, orders[o] # NoRow, MarkPaid(o, n),
           UNCHANGED <<tops, strays>>
    PROVE  RowsGrow /\ SumsFit
  <1>1. orders[o] \in OrderRow
    BY DEF Typed
  <1>2. CASE orders[o].paid
    BY <1>2, SameRows DEF MarkPaid, SumsFit, Typed, sums
  <1>3. CASE ~orders[o].paid
    <2>1. [orders[o] EXCEPT !.paid = TRUE] \in OrderRow
      BY <1>1 DEF OrderRow
    <2>2. RowsGrow
      BY <1>3, <2>1, OrderWritten DEF MarkPaid
    <2>3. SumsFit
      BY <1>3, ForgetsTyped DEF MarkPaid, GivesUpIfCoded, SumsFit, Typed, sums
    <2> QED
      BY <2>2, <2>3
  <1> QED
    BY <1>2, <1>3

\* What nobody asked for.
LEMMA OrderEventsTyped ==
    ASSUME Typed, NEW o \in Orders, CancelOrder(o) \/ WebhookOrder(o)
    PROVE  Typed'
  <1> USE DEF rowsOf, books
  <1>1. CASE CancelOrder(o)
    <2>0. orders[o] \in OrderRow
      BY <1>1 DEF CancelOrder, Typed
    <2>1. [orders[o] EXCEPT !.cancelled = TRUE] \in OrderRow
      BY <2>0 DEF OrderRow
    <2>2. RowsGrow
      BY <1>1, <2>1, OrderWritten DEF CancelOrder
    <2>3. SumsFit /\ queue' \subseteq queue
      BY <1>1, <2>2, ForgetsTyped
         DEF CancelOrder, GivesUpIfCoded, sums, SumsFit, Typed
    <2> QED
      BY <1>1, <2>2, <2>3, TypedKept DEF CancelOrder
  <1>2. CASE WebhookOrder(o)
    <2>1. RowsGrow /\ SumsFit
      BY <1>2, MarkTyped DEF WebhookOrder
    <2>2. queue' \subseteq queue /\ req' = req
      BY <1>2, <2>1 DEF WebhookOrder
    <2> QED
      BY <2>1, <2>2, TypedKept
  <1> QED
    BY <1>1, <1>2

LEMMA FinalizeTyped ==
    ASSUME Typed, NEW t \in Tops, FinalizeTopUp(t)
    PROVE  Typed'
  <1>1. RowsGrow /\ SumsFit
    BY CreditTyped DEF FinalizeTopUp
  <1>2. queue' \subseteq queue /\ req' = req
    BY <1>1 DEF FinalizeTopUp
  <1> QED
    BY <1>1, <1>2, TypedKept

LEMMA LapsesTyped ==
    ASSUME Typed, NEW s \in Totals, Lapse(s) \/ AmountLockExpires(s)
    PROVE  Typed'
  <1>1. RowsGrow /\ queue' \subseteq queue /\ req' = req
    BY SameRows DEF Lapse, AmountLockExpires, rowsOf, books
  <1>2. SumsFit
    BY ForgetsTyped DEF Lapse, AmountLockExpires, rowsOf, sums, SumsFit, Typed
  <1> QED
    BY <1>1, <1>2, TypedKept

LEMMA PayTyped ==
    ASSUME Typed, NEW n \in Notes, NEW x \in Payables \cup {Nobody}, NEW s \in Totals,
           Pay(n, x, s)
    PROVE  Typed'
  <1>1. RowsGrow /\ queue' \subseteq queue /\ req' = req
    BY SameRows DEF Pay, rowsOf, books
  <1>2. [total |-> s, payer |-> x] \in Note
    BY DEF Note
  <1>3. SumsFit
    BY <1>2 DEF Pay, SumsFit, Typed, rowsOf
  <1> QED
    BY <1>1, <1>3, TypedKept

\* A request goes on with what it found.
LEMMA ProceedTyped ==
    ASSUME Typed, NEW q \in Procs, NEW n \in Notes, NEW x \in Payables, Payable(x),
           Proceed(q, n, x), UNCHANGED <<orders, tops>>, SumsFit, notes[n] # NoRow
    PROVE  RowsGrow /\ JobsFit /\ \E r : Moves(q, r)
  <1>1. RowsGrow
    BY SameRows
  <1>2. x \in Orders => orders[x] # NoRow
    BY DEF Payable, Unpaid
  <1>3. x \in Orders => [order |-> x, note |-> n, waiter |-> q] \in Job
    BY DEF Job
  <1>4. JobsFit
    <2> DEFINE job == [order |-> x, note |-> n, waiter |-> q]
    <2>1. queue' = queue \/ (x \in Orders /\ queue' = queue \cup {job})
      BY DEF Proceed
    <2>2. /\ queue \subseteq Job
          /\ \A j \in queue : orders'[j.order] # NoRow /\ notes'[j.note] # NoRow
      BY DEF Typed, Job, SumsFit
    <2>3. job.order = x /\ job.note = n /\ notes'[n] # NoRow
      BY DEF SumsFit
    <2>4. x \in Orders => job \in Job /\ orders'[x] # NoRow
      BY <1>2, <1>3
    <2> HIDE DEF job
    <2> QED
      BY <2>1, <2>2, <2>3, <2>4 DEF JobsFit
  <1> DEFINE step == IF x \in Orders THEN "wait" ELSE "credit"
             r == [kind |-> "book", step |-> step, note |-> n, id |-> x]
  <1>5. r \in Booking /\ r.kind = "book" /\ (r.step = "credit" => r.id \in Tops)
    BY DEF Booking, Payables
  <1>6. Moves(q, r)
    BY <1>5 DEF Moves, Fits, Requests, Proceed, SumsFit
  <1> QED
    BY <1>1, <1>4, <1>6

\* Booking a payment.
LEMMA BookingTyped ==
    ASSUME Typed, NEW q \in Procs, NEW n \in Notes,
           \/ PaymentListener(q, n) \/ AdminConfirm(q, n) \/ LockAndMatch(q)
           \/ CreditByNote(q) \/ CreditRollsBack(q) \/ Mark(q) \/ BookingFails(q)
    PROVE  Typed'
  <1> USE DEF Done, rowsOf
  <1>0. Fits(Idle)
    BY DEF SumsFit, Typed, Fits
  <1>1. CASE PaymentListener(q, n)
    <2>1. RowsGrow /\ queue' \subseteq queue /\ SumsFit
      BY <1>0, <1>1, SameRows DEF PaymentListener, SumsFit, Typed, sums
    <2>2. Moves(q, [kind |-> "book", step |-> "lock", note |-> n, id |-> Nobody])
      BY <1>1 DEF PaymentListener, Delivered, Begin, Moves, Fits, Requests, Booking, sums
    <2> QED
      BY <2>1, <2>2, TypedKept
  <1>2. CASE AdminConfirm(q, n)
    <2>1. notes[n].payer \in Payables /\ notes[n] # NoRow
      BY <1>2 DEF AdminConfirm, Delivered, Typed, Note
    <2>2. SumsFit
      BY <1>0, <1>2 DEF AdminConfirm, SumsFit, Typed, sums
    <2>3. RowsGrow /\ JobsFit /\ \E r : Moves(q, r)
      BY <1>2, <2>1, <2>2, ProceedTyped DEF AdminConfirm
    <2> QED
      BY <2>2, <2>3, TypedKept
  <1>3. CASE LockAndMatch(q)
    <2>1. req[q].note \in Notes /\ notes[req[q].note] # NoRow
      BY <1>3, RequestShapes DEF LockAndMatch, At, Booking
    <2>2. PICK x \in Payables :
              /\ Matches(x, notes[req[q].note].total) /\ Proceed(q, req[q].note, x)
              /\ notes' = IF x \in strays THEN [notes EXCEPT ![req[q].note].payer = Nobody]
                          ELSE notes
      BY <1>3 DEF LockAndMatch
    <2>3. Payable(x)
      BY <2>2 DEF Matches, Oldest, Candidates
    <2>4. /\ notes' \in [Notes -> Note \cup {NoRow}]
          /\ \A m \in Notes : notes[m] # NoRow => notes'[m] # NoRow
      <3> DEFINE m == req[q].note
      <3>1. notes[m] \in Note
        BY <2>1 DEF Typed
      <3>2. [notes[m] EXCEPT !.payer = Nobody] \in Note
        BY <3>1 DEF Note
      <3> QED
        BY <2>1, <2>2, <3>2, SentinelAssumption DEF Typed
    <2>5. SumsFit
      BY <1>0, <1>3, <2>4 DEF LockAndMatch, SumsFit, Typed
    <2>6. RowsGrow /\ JobsFit /\ \E r : Moves(q, r)
      BY <1>3, <2>1, <2>2, <2>3, <2>5, ProceedTyped DEF LockAndMatch
    <2> QED
      BY <2>5, <2>6, TypedKept
  <1>4. CASE CreditByNote(q)
    <2>1. req[q].id \in Tops
      BY <1>4, RequestShapes DEF CreditByNote
    <2>2. RowsGrow /\ SumsFit
      BY <1>4, <2>1, CreditTyped DEF CreditByNote
    <2>3. queue' \subseteq queue /\ Moves(q, Idle)
      BY <1>0, <1>4, <2>2 DEF CreditByNote, Moves
    <2> QED
      BY <2>2, <2>3, TypedKept
  <1>5. CASE CreditRollsBack(q)
    <2>1. req[q].id \in Payables
      BY <1>5, RequestShapes DEF CreditRollsBack, Payables
    <2>2. RowsGrow /\ queue' \subseteq queue /\ Moves(q, Idle)
      BY <1>0, <1>5, SameRows DEF CreditRollsBack, Moves
    <2>3. SumsFit
      BY <1>0, <1>5, <2>1, ForgetsTyped DEF CreditRollsBack, SumsFit, Typed
    <2> QED
      BY <2>2, <2>3, TypedKept
  <1>6. CASE Mark(q)
    <2>1. RowsGrow /\ queue' \subseteq queue /\ SumsFit /\ Moves(q, Idle)
      BY <1>0, <1>6, SameRows DEF Mark, SumsFit, Typed, sums, Moves
    <2> QED
      BY <2>1, TypedKept
  <1>7. CASE BookingFails(q)
    <2>1. RowsGrow /\ queue' \subseteq queue /\ SumsFit /\ Moves(q, Idle)
      BY <1>0, <1>7, SameRows DEF BookingFails, SumsFit, Typed, sums, Moves
    <2> QED
      BY <2>1, TypedKept
  <1> QED
    BY <1>1, <1>2, <1>3, <1>4, <1>5, <1>6, <1>7

\* Jobs, and requests that leave theirs alone.
LEMMA JobsTyped ==
    ASSUME Typed, NEW j \in queue, ProcessPayment(j) \/ JobFails(j)
    PROVE  Typed'
  <1>0. j \in Job /\ orders[j.order] # NoRow /\ notes[j.note] # NoRow
    BY DEF Typed
  <1>1. j.order \in Orders /\ j.note \in Notes /\ j.waiter \in Procs \cup {Nobody}
    BY <1>0 DEF Job
  <1>2. CASE ProcessPayment(j)
    <2>1. RowsGrow /\ SumsFit
      BY <1>0, <1>1, <1>2, MarkTyped DEF ProcessPayment
    <2>2. queue' \subseteq queue
      BY <1>2, <2>1 DEF ProcessPayment
    <2> DEFINE r == [kind |-> "book", step |-> "mark", note |-> j.note, id |-> j.order]
    <2>3. r \in Booking /\ r.step # "credit" /\ r.kind = "book"
      BY <1>1 DEF Booking, Payables
    <2>4. j.waiter # Nobody => j.waiter \in Procs /\ Moves(j.waiter, r)
      BY <1>0, <1>1, <1>2, <2>1, <2>3 DEF ProcessPayment, Moves, Fits, Requests, SumsFit
    <2>5. req' = req \/ \E q \in Procs : \E z : Moves(q, z)
      BY <1>2, <2>4 DEF ProcessPayment
    <2> QED
      BY <2>1, <2>2, <2>5, TypedKept
  <1>3. CASE JobFails(j)
    <2>1. RowsGrow /\ SumsFit
      BY <1>0, <1>3, SameRows DEF JobFails, rowsOf, sums, SumsFit, Typed
    <2>2. queue' \subseteq queue
      BY <1>3, <2>1 DEF JobFails
    <2>3. req' = req \/ \E q \in Procs : Moves(q, Idle)
      BY <1>1, <1>3 DEF JobFails, Done, Moves, Fits
    <2> QED
      BY <2>1, <2>2, <2>3, TypedKept
  <1> QED
    BY <1>2, <1>3

LEMMA AbandonTyped ==
    ASSUME Typed, NEW q \in Procs, BookingAbandoned(q)
    PROVE  Typed'
  <1>1. RowsGrow /\ SumsFit /\ Moves(q, Idle)
    BY SameRows DEF BookingAbandoned, rowsOf, sums, SumsFit, Typed, Done, Moves, Fits
  <1>2. ASSUME NEW j \in queue'
        PROVE  j \in Job /\ orders'[j.order] # NoRow /\ notes'[j.note] # NoRow
    <2>1. PICK k \in queue : j = [k EXCEPT !.waiter = IF @ = q THEN Nobody ELSE @]
      BY <1>2 DEF BookingAbandoned
    <2>2. k \in Job /\ orders[k.order] # NoRow /\ notes[k.note] # NoRow
      BY DEF Typed
    <2>3. j \in Job /\ j.order = k.order /\ j.note = k.note
      BY <2>1, <2>2 DEF Job
    <2> QED
      BY <2>2, <2>3 DEF BookingAbandoned, rowsOf, sums
  <1>3. JobsFit
    BY <1>2 DEF JobsFit
  <1> QED
    BY <1>1, <1>3, TypedKept

LEMMA NextTyped == Typed /\ [Next]_vars => Typed'
  <1>1. SUFFICES ASSUME Typed, [Next]_vars PROVE Typed'
    OBVIOUS
  <1>2. CASE UNCHANGED vars
    BY <1>1, <1>2 DEF vars, Typed, Does, At
  <1>3. CASE \E q \in Procs, t \in Tops : InitiateTopUp(q, t) \/ AdminCancelTopUp(q, t)
    BY <1>1, <1>3, TopSteps
  <1>4. CASE \E q \in Procs, o \in Orders :
               CreateOrder(q, o) \/ ViewOrder(q, o) \/ RefreshQRIS(q, o)
    BY <1>1, <1>4, OrderViews
  <1>5. CASE \E q \in Procs, n \in Notes : PaymentListener(q, n) \/ AdminConfirm(q, n)
    BY <1>1, <1>5, BookingTyped
  <1>6. ASSUME NEW q \in Procs, InsertTopUp(q) \/ CommitCancelTopUp(q)
        PROVE  Typed'
    <2>1. Tops # {}
      BY <1>1, <1>6, RequestShapes
         DEF InsertTopUp, CommitCancelTopUp, ToppingUp, Cancelling
    <2> QED
      BY <1>1, <1>6, <2>1, TopSteps
  <1>7. ASSUME NEW q \in Procs,
               TakeNewCode(q) \/ SaveQRIS(q) \/ WriteRefreshed(q) \/ NoQRIS(q)
        PROVE  Typed'
    BY <1>1, <1>7, CodeSteps
  <1>8. ASSUME NEW q \in Procs,
               \/ LockAndMatch(q) \/ CreditByNote(q) \/ CreditRollsBack(q) \/ Mark(q)
               \/ BookingFails(q)
        PROVE  Typed'
    <2>1. Notes # {}
      BY <1>1, <1>8, RequestShapes
         DEF LockAndMatch, CreditByNote, CreditRollsBack, Mark, BookingFails, At, Booking
    <2> QED
      BY <1>1, <1>8, <2>1, BookingTyped
  <1>9. ASSUME NEW q \in Procs, BookingAbandoned(q)
        PROVE  Typed'
    BY <1>1, <1>9, AbandonTyped
  <1>10. CASE \E t \in Tops : FinalizeTopUp(t)
    BY <1>1, <1>10, FinalizeTyped
  <1>11. CASE \E o \in Orders : CancelOrder(o) \/ WebhookOrder(o)
    BY <1>1, <1>11, OrderEventsTyped
  <1>12. CASE \E s \in Totals : Lapse(s) \/ AmountLockExpires(s)
    BY <1>1, <1>12, LapsesTyped
  <1>13. CASE \E n \in Notes, x \in Payables \cup {Nobody}, s \in Totals : Pay(n, x, s)
    BY <1>1, <1>13, PayTyped
  <1>14. CASE \E j \in queue : ProcessPayment(j) \/ JobFails(j)
    BY <1>1, <1>14, JobsTyped
  <1> QED
    BY <1>1, <1>2, <1>3, <1>4, <1>5, <1>6, <1>7, <1>8, <1>9, <1>10, <1>11, <1>12, <1>13,
       <1>14 DEF Next
-----------------------------------------------------------------------------
(* Reservations.                                                           *)

\* A code is taken for a sum that nobody holds.
LEMMA CodeKeeps ==
    ASSUME Typed, NEW x, NEW c, TakesCode(x, c), NEW s \in Totals, NEW y \in Payables,
           reserved[s] = y
    PROVE  reserved'[s] = y
  <1>1. y # Free
    BY SentinelAssumption
  <1>2. c \in FreeCodes(x) => reserved[SumOf(x, c)] = Free
    BY DEF FreeCodes
  <1> QED
    BY <1>1, <1>2 DEF TakesCode, Typed

\* A sum is given up by the one who holds it.
LEMMA ReleaseKeeps ==
    ASSUME Typed, NEW u, NEW x, reserved' = Released(u, x), NEW s \in Totals, NEW y,
           reserved[s] = y, y # x \/ s # u
    PROVE  reserved'[s] = y
  BY DEF Released, Typed

RowKept(y) == /\ y \in Orders => orders'[y] = orders[y]
              /\ y \notin Orders => tops'[y] = tops[y]

LEMMA SameRow ==
    ASSUME NEW y, RowKept(y)
    PROVE  (Payable(y)' <=> Payable(y)) /\ Total(y)' = Total(y)
  BY DEF RowKept, Payable, Unpaid, Waits, Total, RowOf, SumOf

\* What can happen to the reservation of a sum, when x changes.
Reserves(x) ==
    \/ reserved' = reserved
    \/ \E z, c : TakesCode(z, c)
    \/ \E s : reserved' = Released(s, x)

LEMMA HoldsKept ==
    ASSUME Typed, Holds, NEW x, Reserves(x),
           \A y \in Payables \ {x} : RowKept(y), strays \subseteq strays' \cup {x},
           x \in Payables \ strays' /\ Payable(x)' => reserved'[Total(x)'] = x
    PROVE  Holds'
  <1>1. SUFFICES ASSUME NEW y \in Payables \ strays', Payable(y)', y # x
                 PROVE  reserved'[Total(y)'] = y
    BY DEF Holds
  <1>2. Payable(y) /\ Total(y)' = Total(y) /\ y \notin strays
    BY <1>1, SameRow
  <1>3. reserved[Total(y)] = y /\ Total(y) \in Totals
    BY <1>2, PayableIn DEF Holds
  <1>4. reserved'[Total(y)] = y
    BY <1>1, <1>3, CodeKeeps, ReleaseKeeps DEF Reserves
  <1> QED
    BY <1>2, <1>4

\* Nobody gets or loses a sum, and no row changes.
LEMMA SumsUntouched ==
    ASSUME Holds, UNCHANGED <<orders, tops, reserved, strays>>
    PROVE  Holds'
  BY DEF Holds, Payable, Unpaid, Waits, Total, RowOf, SumOf

\* x is a stray from now on.
LEMMA StraysHold ==
    ASSUME Typed, Holds, NEW x, Reserves(x), \A y \in Payables \ {x} : RowKept(y),
           strays' = strays \cup {x}
    PROVE  Holds'
  BY HoldsKept

\* x waits for the sum of a code from now on.
LEMMA CodedHold ==
    ASSUME Typed, Holds, NEW x, NEW code, reserved' = reserved,
           \A y \in Payables \ {x} : RowKept(y), strays' = Astray(x, code),
           RowOf(x)'.code = code
    PROVE  Holds'
  <1>1. Total(x)' = SumOf(x, code)
    BY DEF Total, SumOf
  <1>2. x \notin strays' => reserved'[Total(x)'] = x
    BY <1>1 DEF Astray
  <1> QED
    BY <1>2, HoldsKept DEF Reserves, Astray

\* x gives up its sum, and does not wait any more.
LEMMA GoneHold ==
    ASSUME Typed, Holds, NEW x, Reserves(x), \A y \in Payables \ {x} : RowKept(y),
           strays' = strays, ~Payable(x)'
    PROVE  Holds'
  BY HoldsKept

LEMMA GivingUp ==
    ASSUME NEW x, NEW s, NEW n, GivesUp(x, s, n)
    PROVE  Reserves(x)
  BY DEF GivesUp, Reserves

LEMMA OneOrder ==
    ASSUME Typed, NEW o \in Orders, NEW row, orders' = [orders EXCEPT ![o] = row],
           tops' = tops
    PROVE  orders'[o] = row /\ \A y \in Payables \ {o} : RowKept(y)
  BY DEF Typed, RowKept

LEMMA OneTop ==
    ASSUME Typed, NEW t \in Tops, NEW row, tops' = [tops EXCEPT ![t] = row],
           orders' = orders
    PROVE  t \notin Orders /\ tops'[t] = row /\ \A y \in Payables \ {t} : RowKept(y)
  BY PaymentsAssumption DEF Typed, RowKept, Payables

LEMMA TopHolds ==
    ASSUME Typed, Holds, NEW q \in Procs, NEW t,
           \/ InitiateTopUp(q, t) \/ AdminCancelTopUp(q, t) \/ InsertTopUp(q)
           \/ CommitCancelTopUp(q)
    PROVE  Holds'
  <1> USE DEF rowsOf, books
  <1>1. CASE InitiateTopUp(q, t)
    <2>1. Reserves(Nobody)
      BY <1>1 DEF InitiateTopUp, Reserves
    <2> QED
      BY <1>1, <2>1, HoldsKept, SentinelAssumption DEF InitiateTopUp, RowKept
  <1>2. CASE AdminCancelTopUp(q, t)
    BY <1>2, SumsUntouched DEF AdminCancelTopUp, sums
  <1>3. CASE InsertTopUp(q)
    <2>1. PICK u, code : u \in Tops /\ u = req[q].id /\ code = req[q].code
      BY <1>3, RequestShapes DEF InsertTopUp, ToppingUp
    <2>2. /\ u \notin Orders /\ tops'[u] = [status |-> "pending", code |-> code]
          /\ \A y \in Payables \ {u} : RowKept(y)
      BY <1>3, <2>1, OneTop DEF InsertTopUp
    <2>3. RowOf(u)'.code = code
      BY <2>2 DEF RowOf
    <2> QED
      BY <1>3, <2>1, <2>2, <2>3, CodedHold DEF InsertTopUp, sums
  <1>4. CASE CommitCancelTopUp(q)
    <2>1. PICK u \in Tops : u = req[q].id /\ tops[u] \in TopRow
      BY <1>4, RequestShapes DEF CommitCancelTopUp, Cancelling, Typed
    <2>2. /\ u \notin Orders /\ tops'[u] = [tops[u] EXCEPT !.status = "failed"]
          /\ \A y \in Payables \ {u} : RowKept(y)
      BY <1>4, <2>1, OneTop DEF CommitCancelTopUp
    <2>3. ~Payable(u)'
      BY <2>1, <2>2 DEF Payable, Waits, TopRow
    <2> QED
      BY <1>4, <2>1, <2>2, <2>3, GoneHold, GivingUp DEF CommitCancelTopUp
  <1> QED
    BY <1>1, <1>2, <1>3, <1>4

LEMMA CreditHolds ==
    ASSUME Typed, Holds, NEW t \in Tops, NEW n, Credit(t, n), orders' = orders,
           strays' = strays
    PROVE  Holds'
  <1>1. tops[t] \in TopRow
    BY DEF Credit, MayCredit, Waits, Typed
  <1>2. /\ t \notin Orders /\ tops'[t] = [tops[t] EXCEPT !.status = "completed"]
        /\ \A y \in Payables \ {t} : RowKept(y)
    BY OneTop DEF Credit
  <1>3. ~Payable(t)'
    BY <1>1, <1>2 DEF Payable, Waits, TopRow
  <1> QED
    BY <1>2, <1>3, GoneHold, GivingUp DEF Credit

LEMMA CodeHolds ==
    ASSUME Typed, Holds, NEW q \in Procs,
           TakeNewCode(q) \/ SaveQRIS(q) \/ NoQRIS(q) \/ WriteRefreshed(q)
    PROVE  Holds'
  <1> USE DEF rowsOf, books
  <1>1. CASE TakeNewCode(q)
    <2>1. Reserves(Nobody)
      BY <1>1 DEF TakeNewCode, Reserves
    <2> QED
      BY <1>1, <2>1, HoldsKept, SentinelAssumption DEF TakeNewCode, RowKept
  <1>2. CASE SaveQRIS(q)
    <2>1. PICK o, code : o \in Orders /\
              o = req[q].id /\ code = req[q].code /\ orders[o] \in OrderRow
      BY <1>2, RequestShapes DEF SaveQRIS, At, Viewing, Typed
    <2>2. /\ orders'[o] = [orders[o] EXCEPT !.code = code]
          /\ \A y \in Payables \ {o} : RowKept(y)
      BY <1>2, <2>1, OneOrder DEF SaveQRIS
    <2>3. RowOf(o)'.code = code
      BY <2>1, <2>2 DEF RowOf, OrderRow
    <2> QED
      BY <1>2, <2>1, <2>2, <2>3, CodedHold DEF SaveQRIS, sums
  <1>3. CASE NoQRIS(q)
    BY <1>3, SumsUntouched DEF NoQRIS, sums
  <1>4. CASE WriteRefreshed(q)
    <2>1. PICK o, code : o \in Orders /\ o = req[q].id /\ code = req[q].code
      BY <1>4, RequestShapes DEF WriteRefreshed, Refreshing
    <2>2. /\ orders'[o] = [cancelled |-> FALSE, paid |-> FALSE, code |-> code]
          /\ \A y \in Payables \ {o} : RowKept(y)
      <3> DEFINE row == [cancelled |-> FALSE, paid |-> FALSE, code |-> code]
      <3>1. orders' = [orders EXCEPT ![o] = row] /\ tops' = tops
        BY <1>4, <2>1 DEF WriteRefreshed
      <3> HIDE DEF row
      <3>2. orders'[o] = row /\ \A y \in Payables \ {o} : RowKept(y)
        BY <2>1, <3>1, OneOrder
      <3> QED
        BY <3>2 DEF row
    <2>3. RowOf(o)'.code = code
      BY <2>1, <2>2 DEF RowOf
    <2> QED
      BY <1>4, <2>1, <2>2, <2>3, CodedHold DEF WriteRefreshed, sums
  <1> QED
    BY <1>1, <1>2, <1>3, <1>4

LEMMA ViewHolds ==
    ASSUME Typed, Holds, NEW q, NEW o \in Orders,
           CreateOrder(q, o) \/ ViewOrder(q, o) \/ RefreshQRIS(q, o)
    PROVE  Holds'
  <1> USE DEF rowsOf, books
  <1>1. CASE CreateOrder(q, o)
    <2>1. strays' = strays \cup {o} /\ reserved' = reserved
      BY <1>1 DEF CreateOrder, Astray, sums
    <2>2. \A y \in Payables \ {o} : RowKept(y)
      BY <1>1, OneOrder DEF CreateOrder
    <2> QED
      BY <2>1, <2>2, StraysHold DEF Reserves
  <1>2. CASE ViewOrder(q, o)
    <2>1. Reserves(o)
      BY <1>2, GivingUp DEF ViewOrder, GivesUpIfCoded, sums, Reserves
    <2> QED
      BY <1>2, <2>1, StraysHold DEF ViewOrder, RowKept
  <1>3. CASE RefreshQRIS(q, o)
    BY <1>3, SumsUntouched DEF RefreshQRIS, sums
  <1> QED
    BY <1>1, <1>2, <1>3

LEMMA MarkHolds ==
    ASSUME Typed, Holds, NEW o \in Orders, NEW n, orders[o] # NoRow, MarkPaid(o, n),
           UNCHANGED <<tops, strays>>
    PROVE  Holds'
  <1>1. CASE orders[o].paid
    BY <1>1, SumsUntouched DEF MarkPaid, sums
  <1>2. CASE ~orders[o].paid
    <2>1. orders[o] \in OrderRow
      BY DEF Typed
    <2>2. /\ orders'[o] = [orders[o] EXCEPT !.paid = TRUE]
          /\ \A y \in Payables \ {o} : RowKept(y)
      BY <1>2, OneOrder DEF MarkPaid
    <2>3. ~Payable(o)'
      BY <2>1, <2>2 DEF Payable, Unpaid, OrderRow
    <2>4. Reserves(o)
      BY <1>2, GivingUp DEF MarkPaid, GivesUpIfCoded, sums, Reserves
    <2> QED
      BY <2>2, <2>3, <2>4, GoneHold
  <1> QED
    BY <1>1, <1>2

LEMMA OrderEventsHold ==
    ASSUME Typed, Holds, NEW o \in Orders, CancelOrder(o) \/ WebhookOrder(o)
    PROVE  Holds'
  <1>1. CASE CancelOrder(o)
    <2>1. orders[o] \in OrderRow
      BY <1>1 DEF CancelOrder, Typed
    <2>2. /\ orders'[o] = [orders[o] EXCEPT !.cancelled = TRUE]
          /\ \A y \in Payables \ {o} : RowKept(y)
      BY <1>1, OneOrder DEF CancelOrder
    <2>3. ~Payable(o)'
      BY <2>1, <2>2 DEF Payable, Unpaid, OrderRow
    <2>4. Reserves(o)
      BY <1>1, GivingUp DEF CancelOrder, GivesUpIfCoded, sums, Reserves
    <2> QED
      BY <1>1, <2>2, <2>3, <2>4, GoneHold DEF CancelOrder
  <1>2. CASE WebhookOrder(o)
    BY <1>2, MarkHolds DEF WebhookOrder
  <1> QED
    BY <1>1, <1>2

LEMMA LapsesHold ==
    ASSUME Typed, Holds, NEW s, Lapse(s) \/ AmountLockExpires(s)
    PROVE  Holds'
  <1>1. CASE Lapse(s)
    <2>1. Reserves(reserved[s])
      BY <1>1, GivingUp DEF Lapse
    <2> QED
      BY <1>1, <2>1, StraysHold DEF Lapse, RowKept
  <1>2. CASE AmountLockExpires(s)
    BY <1>2, SumsUntouched DEF AmountLockExpires, rowsOf, sums
  <1> QED
    BY <1>1, <1>2

LEMMA BookingHolds ==
    ASSUME Typed, Holds, NEW q \in Procs, NEW n,
           \/ PaymentListener(q, n) \/ AdminConfirm(q, n) \/ LockAndMatch(q)
           \/ CreditByNote(q) \/ CreditRollsBack(q) \/ Mark(q) \/ BookingFails(q)
           \/ BookingAbandoned(q)
    PROVE  Holds'
  <1>1. CASE \/ PaymentListener(q, n) \/ AdminConfirm(q, n) \/ LockAndMatch(q)
             \/ Mark(q) \/ BookingFails(q) \/ BookingAbandoned(q)
    BY <1>1, SumsUntouched DEF PaymentListener, AdminConfirm, LockAndMatch, Mark,
                               BookingFails, BookingAbandoned, rowsOf, sums
  <1>2. CASE CreditByNote(q)
    BY <1>2, RequestShapes, CreditHolds DEF CreditByNote
  <1>3. CASE CreditRollsBack(q)
    <2>1. Reserves(req[q].id)
      BY <1>3, GivingUp DEF CreditRollsBack
    <2> QED
      BY <1>3, <2>1, StraysHold DEF CreditRollsBack, RowKept
  <1> QED
    BY <1>1, <1>2, <1>3

LEMMA NextHolds == Typed /\ Holds /\ [Next]_vars => Holds'
  <1>1. SUFFICES ASSUME Typed, Holds, [Next]_vars PROVE Holds'
    OBVIOUS
  <1>2. CASE UNCHANGED vars
    BY <1>1, <1>2, SumsUntouched DEF vars
  <1>3. CASE \E q \in Procs, t \in Tops : InitiateTopUp(q, t) \/ AdminCancelTopUp(q, t)
    BY <1>1, <1>3, TopHolds
  <1>4. CASE \E q \in Procs, o \in Orders :
               CreateOrder(q, o) \/ ViewOrder(q, o) \/ RefreshQRIS(q, o)
    BY <1>1, <1>4, ViewHolds
  <1>5. CASE \E q \in Procs, n \in Notes : PaymentListener(q, n) \/ AdminConfirm(q, n)
    BY <1>1, <1>5, BookingHolds
  <1>6. ASSUME NEW q \in Procs,
               \/ InsertTopUp(q) \/ CommitCancelTopUp(q)
               \/ TakeNewCode(q) \/ SaveQRIS(q) \/ WriteRefreshed(q) \/ NoQRIS(q)
        PROVE  Holds'
    BY <1>1, <1>6, TopHolds, CodeHolds
  <1>7. ASSUME NEW q \in Procs,
               \/ LockAndMatch(q) \/ CreditByNote(q) \/ CreditRollsBack(q) \/ Mark(q)
               \/ BookingFails(q) \/ BookingAbandoned(q)
        PROVE  Holds'
    BY <1>1, <1>7, BookingHolds
  <1>8. CASE \E t \in Tops : FinalizeTopUp(t)
    BY <1>1, <1>8, CreditHolds DEF FinalizeTopUp
  <1>9. CASE \E o \in Orders : CancelOrder(o) \/ WebhookOrder(o)
    BY <1>1, <1>9, OrderEventsHold
  <1>10. CASE \E s \in Totals : Lapse(s) \/ AmountLockExpires(s)
    BY <1>1, <1>10, LapsesHold
  <1>11. CASE \E n \in Notes, x \in Payables \cup {Nobody}, s \in Totals : Pay(n, x, s)
    BY <1>1, <1>11, SumsUntouched DEF Pay, rowsOf
  <1>12. CASE \E j \in queue : ProcessPayment(j) \/ JobFails(j)
    <2>1. PICK j \in queue : ProcessPayment(j) \/ JobFails(j)
      BY <1>12
    <2>2. j.order \in Orders /\ orders[j.order] # NoRow
      BY <1>1, <2>1 DEF Typed, Job
    <2>3. CASE ProcessPayment(j)
      BY <1>1, <2>2, <2>3, MarkHolds DEF ProcessPayment
    <2>4. CASE JobFails(j)
      BY <1>1, <2>4, SumsUntouched DEF JobFails, rowsOf, sums
    <2> QED
      BY <2>1, <2>3, <2>4
  <1> QED
    BY <1>1, <1>2, <1>3, <1>4, <1>5, <1>6, <1>7, <1>8, <1>9, <1>10, <1>11, <1>12 DEF Next
-----------------------------------------------------------------------------
(* Notifications.                                                          *)

\* What a step may do to the notifications, except for the one that pays: the
\* payer is forgotten with the sum.
Fades(n) ==
    \A m \in Notes :
        /\ notes[m] = NoRow => notes'[m] = NoRow
        /\ notes[m] # NoRow =>
             /\ notes'[m] # NoRow /\ notes'[m].total = notes[m].total
             /\ notes'[m].payer \in {notes[m].payer, Nobody}
             /\ m # n /\ booked[m] = {} /\ notes'[m].payer # Nobody
                  /\ reserved[notes[m].total] = notes[m].payer
                    => reserved'[notes[m].total] = notes[m].payer

LEMMA FadesSame ==
    ASSUME NEW n, UNCHANGED sums
    PROVE  Fades(n)
  BY DEF Fades, sums

LEMMA NoteShape ==
    ASSUME Typed, NEW m \in Notes, notes[m] # NoRow
    PROVE  /\ notes[m] \in Note /\ notes[m].total \in Totals
           /\ notes[m].payer # Nobody => notes[m].payer \in Payables
  BY DEF Typed, Note

LEMMA FadesCode ==
    ASSUME Typed, NEW n, NEW x, NEW c, TakesCode(x, c), notes' = notes
    PROVE  Fades(n)
  <1>1. ASSUME NEW m \in Notes, notes[m] # NoRow, notes[m].payer # Nobody,
               reserved[notes[m].total] = notes[m].payer
        PROVE  reserved'[notes[m].total] = notes[m].payer
    BY <1>1, NoteShape, CodeKeeps
  <1> QED
    BY <1>1 DEF Fades

LEMMA FadesForgotten ==
    ASSUME Typed, NEW x, NEW s, NEW n, GivesUp(x, s, n)
    PROVE  Fades(n)
  <1>1. SUFFICES ASSUME NEW m \in Notes
                 PROVE  /\ notes[m] = NoRow => notes'[m] = NoRow
                        /\ notes[m] # NoRow =>
                             /\ notes'[m] # NoRow /\ notes'[m].total = notes[m].total
                             /\ notes'[m].payer \in {notes[m].payer, Nobody}
                             /\ m # n /\ booked[m] = {} /\ notes'[m].payer # Nobody
                                /\ reserved[notes[m].total] = notes[m].payer
                                  => reserved'[notes[m].total] = notes[m].payer
    BY DEF Fades
  <1>2. CASE notes[m] # NoRow /\ m # n /\ booked[m] = {} /\ notes[m].total = s
             /\ notes[m].payer = x
    <2>1. notes'[m] = [notes[m] EXCEPT !.payer = Nobody]
      BY <1>2 DEF GivesUp, Forgets
    <2>2. notes[m] \in Note
      BY <1>2, NoteShape
    <2>3. notes'[m].total = notes[m].total /\ notes'[m].payer = Nobody /\ notes'[m] \in Note
      BY <2>1, <2>2 DEF Note
    <2> QED
      BY <1>2, <2>3, SentinelAssumption
  <1>3. CASE ~(notes[m] # NoRow /\ m # n /\ booked[m] = {} /\ notes[m].total = s
               /\ notes[m].payer = x)
    <2>1. notes'[m] = notes[m]
      BY <1>3 DEF GivesUp, Forgets
    <2>2. ASSUME notes[m] # NoRow, m # n, booked[m] = {},
                 reserved[notes[m].total] = notes[m].payer
          PROVE  reserved'[notes[m].total] = notes[m].payer
      <3>1. notes[m].payer # x \/ notes[m].total # s
        BY <1>3, <2>2
      <3> QED
        BY <2>2, <3>1, NoteShape, ReleaseKeeps DEF GivesUp
    <2> QED
      BY <2>1, <2>2
  <1> QED
    BY <1>2, <1>3

LEMMA PayersKept ==
    ASSUME Typed, PayerHolds, NEW n, Fades(n),
           \A m \in Notes : booked[m] \subseteq booked'[m],
           doubtful \subseteq doubtful', n \in Notes => booked'[n] # {} \/ n \in doubtful'
    PROVE  PayerHolds'
  <1>1. SUFFICES ASSUME NEW m \in Notes \ doubtful', notes'[m] # NoRow,
                        notes'[m].payer # Nobody, booked'[m] = {}
                 PROVE  reserved'[notes'[m].total] = notes'[m].payer
    BY DEF PayerHolds
  <1>2. /\ m # n /\ m \notin doubtful /\ booked[m] = {} /\ notes[m] # NoRow
        /\ notes'[m].total = notes[m].total /\ notes'[m].payer = notes[m].payer
    BY <1>1 DEF Fades
  <1>3. reserved[notes[m].total] = notes[m].payer
    BY <1>1, <1>2 DEF PayerHolds
  <1> QED
    BY <1>1, <1>2, <1>3 DEF Fades

\* Only n changes its books.
OnlyNote(n) ==
    \A m \in Notes \ {n} :
        /\ booked'[m] = booked[m]
        /\ m \in processed' <=> m \in processed
        /\ m \in doubtful' <=> m \in doubtful
Others(q) == \A p \in Procs \ {q} : req'[p] = req[p]

\* What a step of request q on notification n leaves of the others.
LEMMA OthersBooked ==
    ASSUME Typed, NoteInv, NEW f, Fades(f), NEW n, OnlyNote(n), NEW q, Others(q),
           NEW m \in Notes \ {n}, m \notin doubtful',
           q \in Procs => ~Books(q, m) /\ ~Books(q, m)'
    PROVE  BookedByOne(m)' /\ CountedForOne(m)'
  <1>1. BookedByOne(m) /\ CountedForOne(m)
    BY DEF NoteInv, BookedOnce, OnlyNote
  <1>2. \A p \in Procs : /\ Books(p, m)' <=> Books(p, m)
                         /\ Books(p, m) => req'[p] = req[p]
    BY DEF Others, Books, Does
  <1>3. booked'[m] = booked[m] /\ (m \in processed' <=> m \in processed)
    BY DEF OnlyNote
  <1>4. notes[m] # NoRow => notes'[m].payer \in {notes[m].payer, Nobody}
    BY DEF Fades
  <1>5. \A p \in Procs : Books(p, m) => notes[m] # NoRow
    BY DEF Typed, Books
  <1>6. booked[m] # {} => notes[m] # NoRow
    BY DEF NoteInv, Arrived
  <1>7. BookedByOne(m)'
    BY <1>1, <1>2, <1>3, <1>4, <1>5 DEF BookedByOne
  <1>8. CountedForOne(m)'
    BY <1>1, <1>2, <1>3, <1>4, <1>6 DEF CountedForOne
  <1> QED
    BY <1>7, <1>8

LEMMA ArrivedKept ==
    ASSUME Arrived, NEW f, Fades(f), NEW n, OnlyNote(n), n \in Notes => notes[n] # NoRow
    PROVE  Arrived'
  BY DEF Arrived, Fades, OnlyNote

\* A step of request q on notification n, which gives up at most the sum of f.
LEMMA NoteStep ==
    ASSUME Typed, NoteInv, NEW q, NEW n \in Notes, notes[n] # NoRow,
           NEW f \in {n, Nobody}, Fades(f), f = n => booked'[n] # {} \/ n \in doubtful',
           OnlyNote(n), booked[n] \subseteq booked'[n], n \in doubtful => n \in doubtful',
           Others(q), \A m \in Notes \ {n} : q \in Procs => ~Books(q, m) /\ ~Books(q, m)',
           BookTyped', JobsAwaited',
           n \notin doubtful' => BookedByOne(n)' /\ CountedForOne(n)'
    PROVE  NoteInv'
  <1>1. Arrived'
    BY ArrivedKept DEF NoteInv
  <1>2. doubtful \subseteq doubtful' /\ \A m \in Notes : booked[m] \subseteq booked'[m]
    BY DEF OnlyNote, NoteInv, BookTyped
  <1>3. f \in Notes => f = n
    BY SentinelAssumption
  <1>4. PayerHolds'
    BY <1>2, <1>3, PayersKept DEF NoteInv
  <1>5. ASSUME NEW m \in Notes \ doubtful'
        PROVE  BookedByOne(m)' /\ CountedForOne(m)'
    <2>1. CASE m = n
      BY <2>1, <1>5
    <2>2. CASE m # n
      BY <2>2, <1>5, OthersBooked
    <2> QED
      BY <2>1, <2>2
  <1>6. BookedOnce'
    BY <1>5 DEF BookedOnce
  <1> QED
    BY <1>1, <1>4, <1>6 DEF NoteInv

\* A job whose request does something else has another waiter.
LEMMA NotAwaited ==
    ASSUME JobsAwaited, NEW q \in Procs, ~At(q, "book", "wait"), NEW j \in queue
    PROVE  j.waiter # q
  BY SentinelAssumption DEF JobsAwaited

LEMMA JobsKept ==
    ASSUME Typed, JobsAwaited, NEW q, Others(q), doubtful \subseteq doubtful',
           \A j \in queue' : j \in queue /\ (q \in Procs => j.waiter # q)
    PROVE  JobsAwaited'
  <1>1. SUFFICES ASSUME NEW j \in queue'
                 PROVE  IF j.waiter = Nobody THEN j.note \in doubtful'
                        ELSE /\ At(j.waiter, "book", "wait")'
                             /\ req'[j.waiter].note = j.note
                             /\ req'[j.waiter].id = j.order
    BY DEF JobsAwaited
  <1>2. j \in queue /\ j \in Job /\ (q \in Procs => j.waiter # q)
    BY <1>1 DEF Typed
  <1>3. CASE j.waiter = Nobody
    BY <1>2, <1>3 DEF JobsAwaited
  <1>4. CASE j.waiter # Nobody
    <2>1. req'[j.waiter] = req[j.waiter]
      BY <1>2, <1>4 DEF Others, Job
    <2>2. /\ At(j.waiter, "book", "wait")
          /\ req[j.waiter].note = j.note /\ req[j.waiter].id = j.order
      BY <1>2, <1>4 DEF JobsAwaited
    <2> QED
      BY <1>4, <2>1, <2>2 DEF At, Does
  <1> QED
    BY <1>3, <1>4

\* Nothing is booked.
LEMMA NothingBooked ==
    ASSUME Typed, NoteInv, Fades(Nobody), UNCHANGED <<processed, booked, doubtful, queue>>,
           \A q \in Procs : Does(q, "book") \/ Does(q, "book")' => req'[q] = req[q]
    PROVE  NoteInv'
  <1>1. BookTyped' /\ OnlyNote(Nobody) /\ Arrived'
    BY ArrivedKept, SentinelAssumption DEF NoteInv, BookTyped, OnlyNote
  <1>2. PayerHolds'
    BY PayersKept, SentinelAssumption DEF NoteInv
  <1>3. JobsAwaited'
    <2>1. \A j \in queue : j.waiter \in Procs \cup {Nobody}
      BY DEF Typed, Job
    <2> QED
      BY <2>1 DEF NoteInv, JobsAwaited, At, Does
  <1>4. ASSUME NEW m \in Notes \ doubtful'
        PROVE  BookedByOne(m)' /\ CountedForOne(m)'
    <2>1. \A p \in Procs : /\ Books(p, m)' <=> Books(p, m)
                           /\ Books(p, m) => req'[p] = req[p] /\ notes[m] # NoRow
      BY DEF Books, Does, Typed
    <2>2. notes[m] # NoRow => notes'[m].payer \in {notes[m].payer, Nobody}
      BY DEF Fades
    <2>3. BookedByOne(m) /\ CountedForOne(m) /\ (booked[m] # {} => notes[m] # NoRow)
      BY DEF NoteInv, BookedOnce, Arrived
    <2>4. BookedByOne(m)'
      BY <2>1, <2>2, <2>3 DEF BookedByOne
    <2>5. CountedForOne(m)'
      BY <2>1, <2>2, <2>3 DEF CountedForOne
    <2> QED
      BY <2>4, <2>5
  <1> QED
    BY <1>1, <1>2, <1>3, <1>4 DEF NoteInv, BookedOnce
\* A request that is not about a notification.
LEMMA OtherWork ==
    ASSUME Typed, NEW q, NEW r, r = Idle \/ r.kind # "book", ~Does(q, "book"),
           req' = [req EXCEPT ![q] = r]
    PROVE  \A p \in Procs : Does(p, "book") \/ Does(p, "book")' => req'[p] = req[p]
  BY DEF Typed, Does

LEMMA QuietSteps ==
    ASSUME Typed, NoteInv, NEW q \in Procs, NEW t, NEW o,
           \/ InitiateTopUp(q, t) \/ AdminCancelTopUp(q, t) \/ InsertTopUp(q)
           \/ CommitCancelTopUp(q)
           \/ CreateOrder(q, o) \/ ViewOrder(q, o) \/ RefreshQRIS(q, o)
           \/ TakeNewCode(q) \/ SaveQRIS(q) \/ NoQRIS(q) \/ WriteRefreshed(q)
    PROVE  NoteInv'
  <1> USE DEF Begin, Done, books, rowsOf
  <1>1. UNCHANGED <<processed, booked, doubtful, queue>>
    BY DEF InitiateTopUp, AdminCancelTopUp, InsertTopUp, CommitCancelTopUp, CreateOrder,
           ViewOrder, RefreshQRIS, TakeNewCode, SaveQRIS, NoQRIS, WriteRefreshed
  <1>2. ~Does(q, "book")
    BY DEF InitiateTopUp, AdminCancelTopUp, InsertTopUp, CommitCancelTopUp, CreateOrder,
           ViewOrder, RefreshQRIS, TakeNewCode, SaveQRIS, NoQRIS, WriteRefreshed, Does, At
  <1>3. \E r : req' = [req EXCEPT ![q] = r] /\ (r = Idle \/ r.kind # "book")
    <2>1. CASE InitiateTopUp(q, t)
      BY <2>1 DEF InitiateTopUp
    <2>2. CASE AdminCancelTopUp(q, t)
      <3> DEFINE r == [kind |-> "cancel", id |-> t]
      <3>1. req' = [req EXCEPT ![q] = r] /\ r.kind # "book"
        BY <2>2 DEF AdminCancelTopUp
      <3> QED
        <4> HIDE DEF r
        <4> QED
          BY <3>1
    <2>3. CASE InsertTopUp(q) \/ CommitCancelTopUp(q) \/ SaveQRIS(q) \/ NoQRIS(q)
      BY <2>3 DEF InsertTopUp, CommitCancelTopUp, SaveQRIS, NoQRIS
    <2>4. CASE CreateOrder(q, o) \/ ViewOrder(q, o)
      BY <2>4 DEF CreateOrder, ViewOrder, View
    <2>5. CASE RefreshQRIS(q, o)
      <3> DEFINE r == [kind |-> "refresh", id |-> o, code |-> orders[o].code]
      <3>1. req' = [req EXCEPT ![q] = r] /\ r.kind # "book"
        BY <2>5 DEF RefreshQRIS
      <3> QED
        <4> HIDE DEF r
        <4> QED
          BY <3>1
    <2>6. CASE TakeNewCode(q)
      <3> DEFINE r(c) == [kind |-> "view", step |-> "save", id |-> req[q].id, code |-> c]
      <3>1. PICK c : req' = [req EXCEPT ![q] = r(c)]
        BY <2>6 DEF TakeNewCode
      <3>2. r(c).kind # "book"
        OBVIOUS
      <3> QED
        <4> HIDE DEF r
        <4> QED
          BY <3>1, <3>2
    <2>7. CASE WriteRefreshed(q)
      <3>1. \/ req' = [req EXCEPT ![q] = Idle]
            \/ req' = [req EXCEPT ![q] = View(req[q].id)]
        BY <2>7 DEF WriteRefreshed
      <3>2. View(req[q].id).kind # "book"
        BY DEF View
      <3> QED
        BY <3>1, <3>2
    <2> QED
      BY <2>1, <2>2, <2>3, <2>4, <2>5, <2>6, <2>7
  <1>4. \A p \in Procs : Does(p, "book") \/ Does(p, "book")' => req'[p] = req[p]
    BY <1>2, <1>3, OtherWork
  <1>5. Fades(Nobody)
    <2>1. CASE InitiateTopUp(q, t) \/ TakeNewCode(q)
      BY <2>1, FadesCode DEF InitiateTopUp, TakeNewCode
    <2>2. CASE CommitCancelTopUp(q)
      BY <2>2, FadesForgotten DEF CommitCancelTopUp
    <2>3. CASE ViewOrder(q, o)
      BY <2>3, FadesForgotten, FadesSame DEF ViewOrder, GivesUpIfCoded
    <2>4. CASE \/ AdminCancelTopUp(q, t) \/ InsertTopUp(q) \/ CreateOrder(q, o)
               \/ RefreshQRIS(q, o) \/ SaveQRIS(q) \/ NoQRIS(q) \/ WriteRefreshed(q)
      BY <2>4, FadesSame DEF AdminCancelTopUp, InsertTopUp, CreateOrder, RefreshQRIS,
                             SaveQRIS, NoQRIS, WriteRefreshed
    <2> QED
      BY <2>1, <2>2, <2>3, <2>4
  <1> QED
    BY <1>1, <1>4, <1>5, NothingBooked

LEMMA QuietEvents ==
    ASSUME Typed, NoteInv, NEW o, NEW t, NEW s,
           \/ CancelOrder(o) \/ WebhookOrder(o) \/ FinalizeTopUp(t) \/ Lapse(s)
           \/ AmountLockExpires(s)
    PROVE  NoteInv'
  <1>1. UNCHANGED <<processed, booked, doubtful, queue, req>>
    BY DEF CancelOrder, WebhookOrder, MarkPaid, Counts, FinalizeTopUp, Lapse,
           AmountLockExpires, books
  <1>2. Fades(Nobody)
    <2>1. CASE CancelOrder(o)
      BY <2>1, FadesForgotten, FadesSame DEF CancelOrder, GivesUpIfCoded
    <2>2. CASE WebhookOrder(o)
      BY <2>2, FadesForgotten, FadesSame DEF WebhookOrder, MarkPaid, GivesUpIfCoded
    <2>3. CASE FinalizeTopUp(t) \/ Lapse(s)
      BY <2>3, FadesForgotten DEF FinalizeTopUp, Credit, Lapse
    <2>4. CASE AmountLockExpires(s)
      BY <2>4, FadesSame DEF AmountLockExpires
    <2> QED
      BY <2>1, <2>2, <2>3, <2>4
  <1> QED
    BY <1>1, <1>2, NothingBooked

\* Whoever pays holds the sum, and nothing was booked for the notification.
LEMMA PayStep ==
    ASSUME Typed, NoteInv, NEW n \in Notes, NEW x, NEW s, Pay(n, x, s)
    PROVE  NoteInv'
  <1>1. /\ UNCHANGED <<processed, booked, doubtful, queue, req, reserved>>
        /\ notes[n] = NoRow /\ notes' = [notes EXCEPT ![n] = [total |-> s, payer |-> x]]
        /\ x # Nobody => reserved[s] = x
    BY DEF Pay, books
  <1>2. /\ notes'[n] = [total |-> s, payer |-> x]
        /\ \A m \in Notes \ {n} : notes'[m] = notes[m]
    BY <1>1 DEF Typed
  <1>3. BookTyped' /\ JobsAwaited'
    BY <1>1 DEF NoteInv, BookTyped, JobsAwaited, At, Does
  <1>4. Arrived'
    BY <1>1, <1>2 DEF NoteInv, Arrived
  <1>5. PayerHolds'
    BY <1>1, <1>2 DEF NoteInv, PayerHolds
  <1>6. ASSUME NEW m \in Notes \ doubtful'
        PROVE  BookedByOne(m)' /\ CountedForOne(m)'
    <2>1. CASE m # n
      <3>1. BookedByOne(m) /\ CountedForOne(m) /\ notes'[m] = notes[m]
        BY <1>1, <1>2, <1>6, <2>1 DEF NoteInv, BookedOnce
      <3> QED
        BY <1>1, <3>1 DEF BookedByOne, CountedForOne, Books, Does
    <2>2. CASE m = n
      <3>1. booked[m] = {} /\ m \notin processed /\ \A q \in Procs : ~Books(q, m)
        BY <1>1, <2>2 DEF NoteInv, Arrived, Typed, Books
      <3> QED
        BY <1>1, <3>1 DEF BookedByOne, CountedForOne, Books, Does
    <2> QED
      BY <2>1, <2>2
  <1> QED
    BY <1>3, <1>4, <1>5, <1>6 DEF NoteInv, BookedOnce

\* A notification nobody books, and without its key, is not booked yet.
LEMMA FreshNote ==
    ASSUME Typed, NoteInv, NEW n \in Notes, Delivered(n), n \notin doubtful'
    PROVE  /\ notes[n] # NoRow /\ n \notin doubtful /\ n \notin processed
           /\ booked[n] = {} /\ \A p \in Procs : ~Books(p, n)
  <1>1. notes[n] # NoRow /\ n \notin doubtful /\ n \notin processed /\ ~InFlight(n)
    BY DEF Delivered, IsNew
  <1>2. \A p \in Procs : ~Books(p, n)
    BY <1>1 DEF InFlight, Books
  <1> QED
    BY <1>1, <1>2 DEF NoteInv, BookedOnce, CountedForOne

\* Delivery is doubtful only if it overlaps another.
LEMMA DeliveredTo ==
    ASSUME NoteInv, NEW n \in Notes, Delivered(n)
    PROVE  /\ notes[n] # NoRow /\ doubtful \subseteq doubtful' /\ doubtful' \subseteq Notes
           /\ \A m \in Notes \ {n} : m \in doubtful' <=> m \in doubtful
  BY DEF Delivered, NoteInv, BookTyped

LEMMA ListenerStep ==
    ASSUME Typed, NoteInv, NEW q \in Procs, NEW n \in Notes, PaymentListener(q, n)
    PROVE  NoteInv'
  <1> DEFINE r == [kind |-> "book", step |-> "lock", note |-> n, id |-> Nobody]
  <1>1. /\ UNCHANGED <<orders, tops, reserved, notes, processed, queue, booked>>
        /\ Delivered(n) /\ req[q] = Idle /\ req' = [req EXCEPT ![q] = r]
    BY DEF PaymentListener, Begin, rowsOf, sums
  <1>2. req'[q] = r /\ Others(q) /\ \A m \in Notes : ~Books(q, m)
    BY <1>1 DEF Typed, Others, Books, Does
  <1>3. r # Idle
    BY SentinelAssumption DEF Requests, Booking
  <1>4. At(q, "book", "lock")' /\ \A m \in Notes : Books(q, m)' <=> m = n
    BY <1>2, <1>3 DEF At, Does, Books
  <1>5. OnlyNote(n) /\ BookTyped' /\ Fades(Nobody) /\ notes[n] # NoRow
        /\ doubtful \subseteq doubtful'
    BY <1>1, DeliveredTo, FadesSame DEF OnlyNote, NoteInv, BookTyped, sums
  <1>6. JobsAwaited'
    <2>1. \A j \in queue : j.waiter # q
      BY <1>1, NotAwaited DEF NoteInv, At, Does
    <2> QED
      BY <1>1, <1>2, <1>5, <2>1, JobsKept DEF NoteInv
  <1>7. ASSUME n \notin doubtful'
        PROVE  BookedByOne(n)' /\ CountedForOne(n)'
    <2>1. n \notin processed /\ booked[n] = {} /\ \A p \in Procs : ~Books(p, n)
      BY <1>1, <1>7, FreshNote
    <2>2. \A p \in Procs \ {q} : ~Books(p, n)'
      BY <1>2, <2>1 DEF Others, Books, Does
    <2>3. BookedByOne(n)'
      BY <1>1, <1>2, <1>4, <2>1, <2>2 DEF BookedByOne
    <2>4. CountedForOne(n)'
      BY <1>1, <2>1 DEF CountedForOne
    <2> QED
      BY <2>3, <2>4
  <1>8. \A m \in Notes \ {n} : ~Books(q, m) /\ ~Books(q, m)'
    BY <1>2, <1>4
  <1> QED
    BY <1>1, <1>2, <1>5, <1>6, <1>7, <1>8, NoteStep, SentinelAssumption

\* What proceeding does to the request and its job.
LEMMA ProceedStep ==
    ASSUME Typed, NoteInv, NEW q \in Procs, NEW n \in Notes, NEW x \in Payables,
           Proceed(q, n, x), ~At(q, "book", "wait"), doubtful \subseteq doubtful'
    PROVE  /\ Others(q) /\ Does(q, "book")' /\ \A m \in Notes : Books(q, m)' <=> m = n
           /\ req'[q].step \in {"wait", "credit"} /\ req'[q].id = x
           /\ JobsAwaited'
  <1> DEFINE step == IF x \in Orders THEN "wait" ELSE "credit"
             r == [kind |-> "book", step |-> step, note |-> n, id |-> x]
             job == [order |-> x, note |-> n, waiter |-> q]
  <1>1. /\ req' = [req EXCEPT ![q] = r]
        /\ queue' = queue \/ (x \in Orders /\ queue' = queue \cup {job})
    BY DEF Proceed
  <1>2. r \in Booking
    BY DEF Booking
  <1>3. r # Idle
    BY <1>2, SentinelAssumption DEF Requests
  <1>4. req'[q] = r /\ Others(q)
    BY <1>1 DEF Typed, Others
  <1>5. Does(q, "book")' /\ \A m \in Notes : Books(q, m)' <=> m = n
    BY <1>3, <1>4 DEF Does, Books
  <1>6. \A j \in queue : j.waiter # q
    BY NotAwaited DEF NoteInv
  <1>7. ASSUME NEW j \in queue'
        PROVE  IF j.waiter = Nobody THEN j.note \in doubtful'
               ELSE /\ At(j.waiter, "book", "wait")'
                    /\ req'[j.waiter].note = j.note /\ req'[j.waiter].id = j.order
    <2>1. CASE j \in queue
      <3>1. j.waiter \in Procs \cup {Nobody} /\ j.waiter # q
        BY <1>6, <2>1 DEF Typed, Job
      <3>2. IF j.waiter = Nobody THEN j.note \in doubtful
            ELSE /\ At(j.waiter, "book", "wait")
                 /\ req[j.waiter].note = j.note /\ req[j.waiter].id = j.order
        BY <2>1 DEF NoteInv, JobsAwaited
      <3>3. j.waiter # Nobody => req'[j.waiter] = req[j.waiter]
        BY <1>4, <3>1 DEF Others
      <3> QED
        BY <3>2, <3>3 DEF At, Does
    <2>2. CASE x \in Orders /\ j = job
      <3>1. j.waiter = q /\ j.note = n /\ j.order = x /\ q # Nobody
        BY <2>2, SentinelAssumption
      <3>2. At(q, "book", "wait")' /\ req'[q].note = n /\ req'[q].id = x
        BY <1>4, <1>5, <2>2 DEF At
      <3> QED
        BY <3>1, <3>2
    <2> QED
      BY <1>1, <1>7, <2>1, <2>2
  <1>8. JobsAwaited'
    BY <1>7 DEF JobsAwaited
  <1> QED
    BY <1>4, <1>5, <1>8

LEMMA ConfirmStep ==
    ASSUME Typed, NoteInv, NEW q \in Procs, NEW n \in Notes, AdminConfirm(q, n)
    PROVE  NoteInv'
  <1>1. PICK x \in Payables : x = notes[n].payer /\ Proceed(q, n, x)
    BY NoteShape DEF AdminConfirm, Delivered
  <1>2. /\ UNCHANGED <<notes, processed, booked>> /\ UNCHANGED sums
        /\ Delivered(n) /\ req[q] = Idle
    BY DEF AdminConfirm, sums
  <1>3. /\ OnlyNote(n) /\ BookTyped' /\ Fades(Nobody) /\ notes[n] # NoRow
        /\ doubtful \subseteq doubtful'
    BY <1>2, DeliveredTo, FadesSame DEF OnlyNote, NoteInv, BookTyped
  <1>4. /\ Others(q) /\ Does(q, "book")' /\ \A m \in Notes : Books(q, m)' <=> m = n
        /\ req'[q].step \in {"wait", "credit"} /\ req'[q].id = x
        /\ JobsAwaited' /\ \A m \in Notes : ~Books(q, m)
    BY <1>1, <1>2, <1>3, ProceedStep DEF At, Does, Books
  <1>5. ASSUME n \notin doubtful'
        PROVE  BookedByOne(n)' /\ CountedForOne(n)'
    <2>1. n \notin processed /\ booked[n] = {} /\ \A p \in Procs : ~Books(p, n)
      BY <1>2, <1>5, FreshNote
    <2>2. \A p \in Procs \ {q} : ~Books(p, n)'
      BY <1>4, <2>1 DEF Others, Books, Does
    <2>3. BookedByOne(n)'
      BY <1>1, <1>2, <1>4, <2>1, <2>2 DEF BookedByOne
    <2>4. CountedForOne(n)'
      BY <1>2, <2>1 DEF CountedForOne
    <2> QED
      BY <2>3, <2>4
  <1> QED
    BY <1>2, <1>3, <1>4, <1>5, NoteStep, SentinelAssumption
\* What is matched is who paid, if that one still waits: the reservation is held by
\* one.
LEMMA MatchStep ==
    ASSUME Typed, Holds, NoteInv, NEW q \in Procs, LockAndMatch(q)
    PROVE  NoteInv'
  <1>1. PICK n \in Notes : n = req[q].note /\ notes[n] # NoRow /\ Books(q, n)
    BY RequestShapes DEF LockAndMatch, At, Booking, Books
  <1>2. PICK x \in Payables :
            /\ Matches(x, notes[n].total) /\ Proceed(q, n, x)
            /\ notes' = IF x \in strays THEN [notes EXCEPT ![n].payer = Nobody] ELSE notes
    BY <1>1 DEF LockAndMatch
  <1>3. UNCHANGED <<reserved, processed, booked, doubtful>> /\ At(q, "book", "lock")
    BY DEF LockAndMatch
  <1>4. Payable(x) /\ Total(x) = notes[n].total
    BY <1>2 DEF Matches, Oldest, Candidates
  <1>5. notes[n] \in Note
    BY <1>1, NoteShape
  <1>6. /\ \A m \in Notes \ {n} : notes'[m] = notes[m]
        /\ x \in strays => notes'[n] = [notes[n] EXCEPT !.payer = Nobody]
        /\ x \notin strays => notes'[n] = notes[n]
    BY <1>2 DEF Typed
  <1>7. /\ notes'[n] \in Note /\ notes'[n].total = notes[n].total
        /\ notes'[n].payer \in {notes[n].payer, Nobody}
        /\ x \in strays => notes'[n].payer = Nobody
    BY <1>5, <1>6 DEF Note
  <1>8. Fades(Nobody)
    <2>1. notes'[n] # NoRow
      BY <1>7, SentinelAssumption
    <2> QED
      BY <1>1, <1>3, <1>6, <1>7, <2>1 DEF Fades
  <1>9. OnlyNote(n) /\ BookTyped'
    BY <1>3 DEF OnlyNote, NoteInv, BookTyped
  <1>10. /\ Others(q) /\ Does(q, "book")' /\ \A m \in Notes : Books(q, m)' <=> m = n
         /\ req'[q].step \in {"wait", "credit"} /\ req'[q].id = x
         /\ JobsAwaited'
    BY <1>2, <1>3, ProceedStep DEF At
  <1>11. \A m \in Notes \ {n} : ~Books(q, m)
    BY <1>1 DEF Books
  <1>12. ASSUME n \notin doubtful'
         PROVE  BookedByOne(n)' /\ CountedForOne(n)'
    <2>1. BookedByOne(n) /\ n \notin doubtful
      BY <1>3, <1>12 DEF NoteInv, BookedOnce
    <2>2. n \notin processed /\ booked[n] = {} /\ \A p \in Procs : Books(p, n) => p = q
      BY <1>1, <1>3, <2>1 DEF BookedByOne, At
    <2>3. \A p \in Procs : Books(p, n)' => p = q
      BY <1>10, <2>2 DEF Others, Books, Does
    <2>4. notes'[n].payer \in {x, Nobody}
      <3>1. CASE x \in strays
        BY <1>7, <3>1
      <3>2. CASE x \notin strays /\ notes[n].payer # Nobody
        <4>1. reserved[notes[n].total] = x
          BY <1>4, <3>2 DEF Holds
        <4>2. reserved[notes[n].total] = notes[n].payer
          BY <1>1, <2>1, <2>2, <3>2 DEF NoteInv, PayerHolds
        <4> QED
          BY <1>7, <4>1, <4>2
      <3>3. CASE notes[n].payer = Nobody
        BY <1>7, <3>3
      <3> QED
        BY <3>1, <3>2, <3>3
    <2>5. BookedByOne(n)'
      BY <1>3, <1>10, <2>2, <2>3, <2>4 DEF BookedByOne
    <2>6. CountedForOne(n)'
      BY <1>3, <2>2 DEF CountedForOne
    <2> QED
      BY <2>5, <2>6
  <1> QED
    BY <1>1, <1>3, <1>8, <1>9, <1>10, <1>11, <1>12, NoteStep, SentinelAssumption

\* A request that ends, and what it has done to its notification.
LEMMA EndStep ==
    ASSUME Typed, NoteInv, NEW q \in Procs, NEW n \in Notes, Books(q, n),
           req' = [req EXCEPT ![q] = Idle], BookTyped', OnlyNote(n),
           NEW f \in {n, Nobody}, Fades(f), f = n => booked'[n] # {} \/ n \in doubtful',
           booked[n] \subseteq booked'[n], n \in doubtful => n \in doubtful',
           JobsAwaited', n \notin doubtful' => CountedForOne(n)'
    PROVE  NoteInv'
  <1>1. Others(q) /\ req'[q] = Idle
    BY DEF Typed, Others
  <1>2. \A m \in Notes : ~Books(q, m)'
    BY <1>1 DEF Books, Does
  <1>3. \A m \in Notes \ {n} : ~Books(q, m)
    BY DEF Books
  <1>4. notes[n] # NoRow
    BY DEF Books, Typed
  <1>5. n \notin doubtful' => BookedByOne(n)'
    <2>1. SUFFICES ASSUME n \notin doubtful', NEW p \in Procs, Books(p, n)'
                   PROVE  FALSE
      BY DEF BookedByOne
    <2>2. p # q
      BY <1>2, <2>1
    <2>3. Books(p, n)
      BY <1>1, <2>1, <2>2 DEF Others, Books, Does
    <2>4. BookedByOne(n)
      BY <2>1 DEF NoteInv, BookedOnce
    <2> QED
      BY <2>2, <2>3, <2>4 DEF BookedByOne
  <1> QED
    BY <1>1, <1>2, <1>3, <1>4, <1>5, NoteStep

\* The jobs of others, when a request that waits for none ends.
LEMMA EndJobs ==
    ASSUME Typed, NoteInv, NEW q \in Procs, ~At(q, "book", "wait"),
           req' = [req EXCEPT ![q] = Idle], queue' = queue, doubtful \subseteq doubtful'
    PROVE  JobsAwaited'
  <1>1. Others(q) /\ \A j \in queue : j.waiter # q
    BY NotAwaited DEF NoteInv, Typed, Others
  <1> QED
    BY <1>1, JobsKept DEF NoteInv

\* The notification of a request, and what is known of it unless it is doubtful.
LEMMA BookedNote ==
    ASSUME Typed, NoteInv, NEW q \in Procs, Does(q, "book")
    PROVE  \E n \in Notes :
             /\ n = req[q].note /\ Books(q, n) /\ notes[n] # NoRow
             /\ n \notin doubtful =>
                  /\ n \notin processed
                  /\ booked[n] = {} <=> req[q].step # "mark"
                  /\ req[q].step \in {"wait", "credit"} =>
                       notes[n].payer \in {req[q].id, Nobody}
                  /\ CountedForOne(n)
  <1>1. req[q].note \in Notes /\ notes[req[q].note] # NoRow
    BY RequestShapes DEF Booking
  <1> QED
    BY <1>1 DEF Books, NoteInv, BookedOnce, BookedByOne

\* A payment is counted for what the request found.
LEMMA CreditStep ==
    ASSUME Typed, NoteInv, NEW q \in Procs, CreditByNote(q)
    PROVE  NoteInv'
  <1>1. PICK n \in Notes :
            /\ n = req[q].note /\ Books(q, n) /\ notes[n] # NoRow
            /\ n \notin doubtful => /\ booked[n] = {}
                                    /\ notes[n].payer \in {req[q].id, Nobody}
    BY BookedNote DEF CreditByNote, At
  <1>2. PICK t \in Tops : t = req[q].id
    BY RequestShapes DEF CreditByNote
  <1>3. /\ GivesUp(t, Total(t), n) /\ processed' = processed \cup {n}
        /\ booked' = [booked EXCEPT ![n] = @ \cup {t}]
        /\ req' = [req EXCEPT ![q] = Idle] /\ queue' = queue /\ doubtful' = doubtful
    BY <1>1, <1>2, SentinelAssumption DEF CreditByNote, Credit, Counts, Done
  <1>4. /\ booked'[n] = booked[n] \cup {t} /\ \A m \in Notes \ {n} : booked'[m] = booked[m]
        /\ t \in Payables
    BY <1>3 DEF NoteInv, BookTyped, Payables
  <1>5. OnlyNote(n) /\ BookTyped'
    BY <1>3, <1>4 DEF OnlyNote, NoteInv, BookTyped, Payables
  <1>6. Fades(n) /\ JobsAwaited'
    BY <1>3, FadesForgotten, EndJobs DEF CreditByNote, At
  <1>7. n \notin doubtful' => CountedForOne(n)'
    BY <1>1, <1>2, <1>3, <1>4, <1>6 DEF CountedForOne, Fades
  <1> QED
    BY <1>1, <1>3, <1>4, <1>5, <1>6, <1>7, EndStep

LEMMA RollbackStep ==
    ASSUME Typed, NoteInv, NEW q \in Procs, CreditRollsBack(q)
    PROVE  NoteInv'
  <1>1. PICK n \in Notes : n = req[q].note /\ Books(q, n)
    BY BookedNote DEF CreditRollsBack, At
  <1>2. PICK t : t = req[q].id
    OBVIOUS
  <1>3. /\ GivesUp(t, Total(t), n) /\ processed' = processed \cup {n} /\ booked' = booked
        /\ req' = [req EXCEPT ![q] = Idle] /\ queue' = queue
        /\ doubtful' = doubtful \cup {n}
    BY <1>1, <1>2 DEF CreditRollsBack, Done
  <1>4. OnlyNote(n) /\ BookTyped'
    BY <1>3 DEF OnlyNote, NoteInv, BookTyped
  <1>5. Fades(n) /\ JobsAwaited'
    BY <1>3, FadesForgotten, EndJobs DEF CreditRollsBack, At
  <1> QED
    BY <1>1, <1>3, <1>4, <1>5, EndStep

LEMMA MarkStep ==
    ASSUME Typed, NoteInv, NEW q \in Procs, Mark(q)
    PROVE  NoteInv'
  <1>1. PICK n \in Notes :
            /\ n = req[q].note /\ Books(q, n) /\ notes[n] # NoRow
            /\ n \notin doubtful => booked[n] # {} /\ CountedForOne(n)
    BY BookedNote DEF Mark, At
  <1>2. /\ UNCHANGED sums /\ processed' = processed \cup {n} /\ notes' = notes
        /\ UNCHANGED <<booked, queue, doubtful>> /\ req' = [req EXCEPT ![q] = Idle]
    BY <1>1 DEF Mark, Done, sums
  <1>3. OnlyNote(n) /\ BookTyped'
    BY <1>2 DEF OnlyNote, NoteInv, BookTyped
  <1>4. Fades(Nobody) /\ JobsAwaited'
    BY <1>2, FadesSame, EndJobs DEF Mark, At
  <1>5. n \notin doubtful' => CountedForOne(n)'
    BY <1>1, <1>2 DEF CountedForOne
  <1> QED
    BY <1>1, <1>2, <1>3, <1>4, <1>5, EndStep, SentinelAssumption

LEMMA FailStep ==
    ASSUME Typed, NoteInv, NEW q \in Procs, BookingFails(q)
    PROVE  NoteInv'
  <1>1. PICK n \in Notes :
            /\ n = req[q].note /\ Books(q, n)
            /\ n \notin doubtful => n \notin processed /\ booked[n] = {}
    BY BookedNote DEF BookingFails, At
  <1>2. /\ UNCHANGED sums /\ UNCHANGED <<processed, booked, queue, doubtful>>
        /\ req' = [req EXCEPT ![q] = Idle]
    BY DEF BookingFails, Done
  <1>3. OnlyNote(n) /\ BookTyped'
    BY <1>2 DEF OnlyNote, NoteInv, BookTyped
  <1>4. Fades(Nobody) /\ JobsAwaited'
    BY <1>2, FadesSame, EndJobs DEF BookingFails, At
  <1>5. n \notin doubtful' => CountedForOne(n)'
    BY <1>1, <1>2 DEF CountedForOne
  <1> QED
    BY <1>1, <1>2, <1>3, <1>4, <1>5, EndStep, SentinelAssumption

\* The job goes on without its request, and the notification is doubtful.
LEMMA AbandonStep ==
    ASSUME Typed, NoteInv, NEW q \in Procs, BookingAbandoned(q)
    PROVE  NoteInv'
  <1>1. PICK n \in Notes : n = req[q].note /\ Books(q, n)
    BY BookedNote DEF BookingAbandoned, At
  <1>2. /\ UNCHANGED sums /\ UNCHANGED <<processed, booked>>
        /\ doubtful' = doubtful \cup {n} /\ req' = [req EXCEPT ![q] = Idle]
        /\ queue' = {[j EXCEPT !.waiter = IF @ = q THEN Nobody ELSE @] : j \in queue}
    BY <1>1 DEF BookingAbandoned, Done
  <1>3. OnlyNote(n) /\ BookTyped' /\ Fades(Nobody) /\ Others(q)
    BY <1>2, FadesSame DEF OnlyNote, NoteInv, BookTyped, Typed, Others
  <1>4. ASSUME NEW j \in queue'
        PROVE  IF j.waiter = Nobody THEN j.note \in doubtful'
               ELSE /\ At(j.waiter, "book", "wait")'
                    /\ req'[j.waiter].note = j.note /\ req'[j.waiter].id = j.order
    <2>1. PICK k \in queue : j = [k EXCEPT !.waiter = IF @ = q THEN Nobody ELSE @]
      BY <1>2, <1>4
    <2>2. k \in Job
      BY DEF Typed
    <2>3. /\ j.order = k.order /\ j.note = k.note
          /\ j.waiter = IF k.waiter = q THEN Nobody ELSE k.waiter
      BY <2>1, <2>2 DEF Job
    <2>4. IF k.waiter = Nobody THEN k.note \in doubtful
          ELSE /\ At(k.waiter, "book", "wait")
               /\ req[k.waiter].note = k.note /\ req[k.waiter].id = k.order
      BY DEF NoteInv, JobsAwaited
    <2>5. CASE k.waiter = q
      BY <1>1, <1>2, <2>3, <2>4, <2>5, SentinelAssumption
    <2>6. CASE k.waiter = Nobody
      BY <1>2, <2>3, <2>4, <2>6
    <2>7. CASE k.waiter # q /\ k.waiter # Nobody
      <3>1. req'[k.waiter] = req[k.waiter]
        BY <1>3, <2>2, <2>7 DEF Others, Job
      <3> QED
        BY <2>3, <2>4, <2>7, <3>1 DEF At, Does
    <2> QED
      BY <2>5, <2>6, <2>7
  <1>5. JobsAwaited'
    BY <1>4 DEF JobsAwaited
  <1> QED
    BY <1>1, <1>2, <1>3, <1>5, EndStep, SentinelAssumption
\* A job is done: its request goes on to write the key.
LEMMA JobStep ==
    ASSUME Typed, NoteInv, NEW j \in queue, ProcessPayment(j)
    PROVE  NoteInv'
  <1>1. PICK o \in Orders, n \in Notes, q \in Procs \cup {Nobody} :
            /\ o = j.order /\ n = j.note /\ q = j.waiter
            /\ notes[n] # NoRow /\ o \in Payables
    BY DEF Typed, Job, Payables
  <1>2. /\ MarkPaid(o, n) /\ queue' = queue \ {j} /\ UNCHANGED <<processed, doubtful>>
        /\ booked' = [booked EXCEPT ![n] = @ \cup {o}]
    BY <1>1, SentinelAssumption DEF ProcessPayment, MarkPaid, Counts
  <1>3. /\ booked'[n] = booked[n] \cup {o}
        /\ \A m \in Notes \ {n} : booked'[m] = booked[m]
    BY <1>2 DEF NoteInv, BookTyped
  <1>4. OnlyNote(n) /\ BookTyped'
    BY <1>1, <1>2, <1>3 DEF OnlyNote, NoteInv, BookTyped
  <1>5. Fades(n)
    BY <1>2, FadesForgotten, FadesSame DEF MarkPaid, GivesUpIfCoded, sums
  <1>6. CASE q = Nobody
    <2>1. n \in doubtful /\ req' = req
      BY <1>1, <1>6 DEF NoteInv, JobsAwaited, ProcessPayment
    <2>2. Others(q) /\ q \notin Procs
      BY <1>6, <2>1, SentinelAssumption DEF Others
    <2>3. JobsAwaited'
      BY <1>2, <2>2, JobsKept DEF NoteInv
    <2> QED
      BY <1>1, <1>2, <1>3, <1>4, <1>5, <2>1, <2>2, <2>3, NoteStep
  <1>7. CASE q # Nobody
    <2> DEFINE r == [kind |-> "book", step |-> "mark", note |-> n, id |-> o]
    <2>1. /\ q \in Procs /\ req' = [req EXCEPT ![q] = r]
          /\ At(q, "book", "wait") /\ req[q].note = n /\ req[q].id = o
      BY <1>1, <1>7 DEF NoteInv, JobsAwaited, ProcessPayment
    <2>2. r \in Booking
      BY <1>1 DEF Booking
    <2>3. r # Idle
      BY <2>2, SentinelAssumption DEF Requests
    <2>4. req'[q] = r /\ Others(q)
      BY <2>1 DEF Typed, Others
    <2>5. At(q, "book", "mark")' /\ \A m \in Notes : Books(q, m)' <=> m = n
      BY <2>3, <2>4 DEF At, Does, Books
    <2>6. Books(q, n) /\ \A m \in Notes \ {n} : ~Books(q, m)
      BY <2>1 DEF At, Books
    <2>7. ASSUME NEW k \in queue' PROVE k \in queue /\ k.waiter # q
      <3>1. k \in queue /\ k # j /\ k \in Job /\ j \in Job
        BY <1>2, <2>7 DEF Typed
      <3>2. SUFFICES ASSUME k.waiter = q PROVE FALSE
        BY <3>1
      <3>3. k.note = j.note /\ k.order = j.order /\ k.waiter = j.waiter
        BY <1>1, <1>7, <3>1, <3>2 DEF NoteInv, JobsAwaited
      <3> QED
        BY <3>1, <3>3 DEF Job
    <2>8. JobsAwaited'
      BY <1>2, <2>4, <2>7, JobsKept DEF NoteInv
    <2>9. ASSUME n \notin doubtful'
          PROVE  BookedByOne(n)' /\ CountedForOne(n)'
      <3>1. BookedByOne(n) /\ CountedForOne(n)
        BY <1>2, <2>9 DEF NoteInv, BookedOnce
      <3>2. /\ n \notin processed /\ booked[n] = {} /\ \A p \in Procs : Books(p, n) => p = q
            /\ notes[n].payer \in {o, Nobody}
        BY <2>1, <2>6, <3>1 DEF BookedByOne, At
      <3>3. \A p \in Procs : Books(p, n)' => p = q
        BY <2>4, <3>2 DEF Others, Books, Does
      <3>4. booked'[n] = {o} /\ n \notin processed' /\ notes'[n].payer \in {o, Nobody}
        BY <1>1, <1>2, <1>3, <1>5, <3>2 DEF Fades
      <3>5. req'[q].step = "mark" /\ Books(q, n)'
        BY <2>5 DEF At
      <3>6. BookedByOne(n)'
        BY <3>3, <3>4, <3>5 DEF BookedByOne
      <3>7. CountedForOne(n)'
        BY <1>1, <2>1, <3>4, <3>5 DEF CountedForOne
      <3> QED
        BY <3>6, <3>7
    <2> QED
      BY <1>1, <1>2, <1>3, <1>4, <1>5, <2>4, <2>5, <2>6, <2>8, <2>9, NoteStep
  <1> QED
    BY <1>6, <1>7

LEMMA JobFailStep ==
    ASSUME Typed, NoteInv, NEW j \in queue, JobFails(j)
    PROVE  NoteInv'
  <1>1. j \in Job /\ queue' = queue \ {j} /\ UNCHANGED sums
        /\ UNCHANGED <<processed, booked, doubtful>>
    BY DEF JobFails, Typed
  <1>2. PICK q \in Procs \cup {Nobody}, n \in Notes : q = j.waiter /\ n = j.note
    BY <1>1 DEF Job
  <1>3. OnlyNote(n) /\ BookTyped' /\ Fades(Nobody)
    BY <1>1, FadesSame DEF OnlyNote, NoteInv, BookTyped
  <1>4. CASE q = Nobody
    <2>1. n \in doubtful /\ req' = req /\ notes[n] # NoRow
      BY <1>2, <1>4 DEF NoteInv, JobsAwaited, JobFails, Typed
    <2>2. Others(q) /\ q \notin Procs
      BY <1>4, <2>1, SentinelAssumption DEF Others
    <2>3. JobsAwaited'
      BY <1>1, <2>2, JobsKept DEF NoteInv
    <2> QED
      BY <1>1, <1>3, <2>1, <2>2, <2>3, NoteStep, SentinelAssumption
  <1>5. CASE q # Nobody
    <2>1. /\ q \in Procs /\ req' = [req EXCEPT ![q] = Idle] /\ At(q, "book", "wait")
          /\ Books(q, n)
      BY <1>2, <1>5 DEF NoteInv, JobsAwaited, JobFails, Done, At, Books
    <2>2. Others(q)
      BY <2>1 DEF Typed, Others
    <2>3. ASSUME NEW k \in queue' PROVE k \in queue /\ k.waiter # q
      <3>1. k \in queue /\ k # j /\ k \in Job
        BY <1>1, <2>3 DEF Typed
      <3>2. SUFFICES ASSUME k.waiter = q PROVE FALSE
        BY <3>1
      <3>3. k.note = j.note /\ k.order = j.order /\ k.waiter = j.waiter
        BY <1>2, <1>5, <3>1, <3>2 DEF NoteInv, JobsAwaited
      <3> QED
        BY <1>1, <3>1, <3>3 DEF Job
    <2>4. JobsAwaited'
      BY <1>1, <2>2, <2>3, JobsKept DEF NoteInv
    <2>5. n \notin doubtful => n \notin processed /\ booked[n] = {}
      BY <2>1, BookedNote DEF At, Books
    <2>6. n \notin doubtful' => CountedForOne(n)'
      BY <1>1, <2>5 DEF CountedForOne
    <2> QED
      BY <1>1, <1>3, <2>1, <2>4, <2>6, EndStep, SentinelAssumption
  <1> QED
    BY <1>4, <1>5

LEMMA NextNotes == Typed /\ Holds /\ NoteInv /\ [Next]_vars => NoteInv'
  <1>1. SUFFICES ASSUME Typed, Holds, NoteInv, [Next]_vars PROVE NoteInv'
    OBVIOUS
  <1>2. CASE UNCHANGED vars
    BY <1>1, <1>2, NothingBooked, FadesSame DEF vars, sums
  <1>3. CASE \E q \in Procs, t \in Tops : InitiateTopUp(q, t) \/ AdminCancelTopUp(q, t)
    BY <1>1, <1>3, QuietSteps
  <1>4. CASE \E q \in Procs, o \in Orders :
               CreateOrder(q, o) \/ ViewOrder(q, o) \/ RefreshQRIS(q, o)
    BY <1>1, <1>4, QuietSteps
  <1>5. CASE \E q \in Procs, n \in Notes : PaymentListener(q, n) \/ AdminConfirm(q, n)
    BY <1>1, <1>5, ListenerStep, ConfirmStep
  <1>6. ASSUME NEW q \in Procs,
               \/ InsertTopUp(q) \/ CommitCancelTopUp(q)
               \/ TakeNewCode(q) \/ SaveQRIS(q) \/ WriteRefreshed(q) \/ NoQRIS(q)
        PROVE  NoteInv'
    BY <1>1, <1>6, QuietSteps
  <1>7. ASSUME NEW q \in Procs,
               \/ LockAndMatch(q) \/ CreditByNote(q) \/ CreditRollsBack(q) \/ Mark(q)
               \/ BookingFails(q) \/ BookingAbandoned(q)
        PROVE  NoteInv'
    BY <1>1, <1>7, MatchStep, CreditStep, RollbackStep, MarkStep, FailStep, AbandonStep
  <1>8. CASE \/ \E t \in Tops : FinalizeTopUp(t)
             \/ \E o \in Orders : CancelOrder(o) \/ WebhookOrder(o)
             \/ \E s \in Totals : Lapse(s) \/ AmountLockExpires(s)
    BY <1>1, <1>8, QuietEvents
  <1>9. CASE \E n \in Notes, x \in Payables \cup {Nobody}, s \in Totals : Pay(n, x, s)
    BY <1>1, <1>9, PayStep
  <1>10. CASE \E j \in queue : ProcessPayment(j) \/ JobFails(j)
    BY <1>1, <1>10, JobStep, JobFailStep
  <1> QED
    BY <1>1, <1>2, <1>3, <1>4, <1>5, <1>6, <1>7, <1>8, <1>9, <1>10 DEF Next

LEMMA InitPayments == Init => SumInv /\ NoteInv
  <1>1. SUFFICES ASSUME Init PROVE SumInv /\ NoteInv
    OBVIOUS
  <1>2. \A q \in Procs : \A k : ~Does(q, k)
    BY <1>1 DEF Init, Does
  <1>3. Typed
    BY <1>1, <1>2 DEF Init, Typed, At
  <1>4. Holds
    BY <1>1 DEF Init, Holds, Payables, Payable, Unpaid, Waits
  <1>5. BookTyped /\ Arrived /\ PayerHolds /\ JobsAwaited
    BY <1>1 DEF Init, BookTyped, Arrived, PayerHolds, JobsAwaited
  <1>6. BookedOnce
    BY <1>1, <1>2 DEF Init, BookedOnce, BookedByOne, CountedForOne, Books
  <1> QED
    BY <1>3, <1>4, <1>5, <1>6 DEF SumInv, NoteInv

\* Requests that write codes, reservations that lapse and payments that are booked,
\* interrupted or repeated keep the three parts of PaymentInv (generateOrderQRIS,
\* WebhookPaymentListener, FinalizeTopUp, processPayment).
THEOREM PaymentInvariance == Spec => []PaymentInv
  <1>1. Init => SumInv /\ NoteInv
    BY InitPayments
  <1>2. SumInv /\ NoteInv /\ [Next]_vars => (SumInv /\ NoteInv)'
    BY NextTyped, NextHolds, NextNotes DEF SumInv
  <1>3. Spec => [](SumInv /\ NoteInv)
    BY <1>1, <1>2, PTL DEF Spec
  <1> QED
    BY <1>3, CreditInvariance, PTL DEF PaymentInv

\* Whatever waits for a payment with a reservation of its own waits for a sum of its
\* own: the code loop of generateOrderQRIS and InitiateTopUp takes free sums only, and
\* ReleaseLock gives up only what its caller holds.
THEOREM TotalsAreUnique == Spec => []TotalsDiffer
  <1>1. SumInv => TotalsDiffer
    <2>1. SUFFICES ASSUME SumInv, NEW x \in Payables \ strays, NEW y \in Payables \ strays,
                          x # y, Payable(x), Payable(y), Total(x) = Total(y)
                   PROVE  FALSE
      BY DEF TotalsDiffer
    <2> QED
      BY <2>1 DEF SumInv, Holds
  <1> QED
    BY <1>1, PaymentInvariance, PTL DEF PaymentInv

\* A notification whose booking was not interrupted or doubled is counted at most
\* once, for who paid; its key is written only after it was counted.
THEOREM NotesCountOnce == Spec => []NoteCountsOnce
  <1>1. NoteInv => NoteCountsOnce
    <2>1. SUFFICES ASSUME NoteInv, NEW n \in Notes \ doubtful
                   PROVE  /\ Cardinality(booked[n]) <= 1
                          /\ notes[n] # NoRow /\ notes[n].payer # Nobody
                               => booked[n] \subseteq {notes[n].payer}
                          /\ n \in processed => booked[n] # {}
      BY DEF NoteCountsOnce
    <2>2. CountedForOne(n)
      BY <2>1 DEF NoteInv, BookedOnce
    <2>3. CASE booked[n] = {}
      BY <2>2, <2>3, FS_EmptySet DEF CountedForOne
    <2>4. CASE booked[n] # {}
      <3>1. PICK x \in Payables : booked[n] = {x} /\ notes[n].payer \in {x, Nobody}
        BY <2>2, <2>4 DEF CountedForOne
      <3>2. Cardinality({x}) = 1
        BY FS_Singleton
      <3> QED
        BY <2>4, <3>1, <3>2
    <2> QED
      BY <2>3, <2>4
  <1> QED
    BY <1>1, PaymentInvariance, PTL DEF PaymentInv
==============================================================================
