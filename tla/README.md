# Verification of nitip-core

TLA+ specifications of nitip-core, the Go backend of an errand, parcel and food
delivery service: customers order, runners buy and deliver, merchants cook, and
the platform holds the money in between. Paths are relative to the repository
(`src/`); `OS` is `internal/domain/order/service.go`, `WS` is
`internal/domain/wallet/service.go`.

Contents: [the system](#the-system), [modules](#modules), [correspondence](#how-the-modules-correspond-to-the-code),
[runs](#runs), [where the code disagrees with itself](#where-the-code-disagrees-with-itself),
[proofs](#proofs), [limits](#what-is-not-modelled), [plan](#plan).

## The system

One process serves HTTP with many goroutines, next to Postgres and Redis.
Several replicas may run. Nothing is kept in memory that matters across
requests except queues; so the state is the tables and the Redis keys, the
actors are requests and background jobs, and the hazards are what two of them do
to the same rows.

| Component | State | Operations | Hard behaviour |
|---|---|---|---|
| Order lifecycle (`domain/order`) | `orders`, Redis `lock:order:accept:*`, `reassign:count:*` | create, accept, receipt, pick up, complete, cancel, give back, adjust the price, dispute, resolve, merchant accept and ready, expire, escalate | half of the handlers read without a lock and write the whole row back; the other half lock; a five-second lock; cron jobs working through old lists |
| Wallet (`domain/wallet`) | `wallets`, `wallet_transactions` | hold, release, refund and split escrow, deposits, top-up, withdrawal | callbacks that repeat or come late; check and update in different transactions |
| Promotions (`domain/promotion`) | `promotions`, `promotion_usages` | create, change, delete; reserve, use, give back | budget and quota shared by concurrent orders; an administrator who changes them meanwhile |
| Trips (`domain/trip`) | `trips` with free weight and volume | create, start, cancel, complete; take and give back capacity | whole-row writes over guarded counters |
| Matching (`domain/matching`) | queue of 1000 in memory, Redis overflow list, cooldown keys, keys and geo set of runners | enqueue, work, search, dispatch, escalate; heartbeat, location, accepting orders | overflow that nothing reads, check-then-set cooldown, keys that expire |
| Notification dispatcher (`internal/notification`) | Redis lists by priority, a sorted set of delayed jobs, per-device counters | enqueue, work, delay, drain, retry, dead-letter | removal before re-insertion, counters whose expiry is a second call, a crash with jobs in hand |
| Streams (`internal/realtime`, `order/handler.go`, `order/pool_broadcast.go`) | clients per grid cell and order, buffers, the geo index of live orders | register, unregister, broadcast, follow an order, sweep | goroutines that nobody orders, a snapshot before the registration, full buffers |
| Accounts (`domain/user`, `domain/kyc`, `middleware/auth.go`) | `users`, invitations, submissions, bank accounts; token versions with a 24-hour cache, PIN counters | register, log in, refresh, log out, change a profile, PIN, second factor, onboarding, e-KYC | nearly every handler writes the whole row back; a cache that is told late |
| Support (`domain/support`) | `support_tickets`, messages, FAQ | open, claim, release, answer, poll, resolve, close, reopen, close after days | claims at once, whole-row writes, polling by time |
| Merchants and reviews (`domain/merchant`, `domain/review`) | shops, menus and their parts, pictures in the object store, a cached list, reviews and averages | forms, uploads, deletions, ratings | pictures removed under stale rows, a role kept in another table, averages taken at once |
| Chat, stores, banners, configuration, audit, inbox | one table each | record keeping | little |

How they interact: order transactions call the wallet, trip and promotion
repositories with the same transaction handle, so those calls commit or roll
back together (modelled inside one action). The wallet's payment callbacks call
the order service through `wallet.OnPaymentSuccess` (`cmd/server/main.go:266`)
and a worker pool. Matching, notifications and streams are told after a commit
and change no order, except for escalation, which writes the order row back.

What makes each component correct:

* orders: money taken for an order is paid out exactly once and in full; final
  statuses stay final; an order never loses its runner to another one; one that
  waits for a runner is eventually taken or closed; a deposit backs the work of
  a runner without e-KYC and is returned once; a voucher is used exactly while
  its order lives; a trip never carries more than fits;
* wallet: balances never negative, every gateway event booked at most once;
* promotions: quota, budget and per-user limit are never exceeded, and counters
  agree with the usage rows;
* matching: an order nobody took is looked at once more, and no runner is flooded by it;
* dispatcher: what it accepted ends, or is lost in a failure only;
* streams: what was announced while a client was registered reaches it once, and a stream
  of an order that is cancelled ends; the index comes to agree with the orders;
* accounts: one session, a second factor that was proven, a bounded number of wrong PINs, and
  nobody let in who was not invited or checked;
* support: one agent takes a ticket, a poll misses no message, tickets end;
* merchants: a picture that is shown is in the store, an owner has the role, numbers are
  averages, the cached list is the table.

## Modules

| Module | Contents |
|---|---|
| `OrderMoney` | What whoever pays for an order is promised: the abstract specification of an order's money. |
| `OrderEscrow` | The order lifecycle with everything its transactions do to wallets, deposits, trips and vouchers. State, 45 actions, properties, fairness. It implements `OrderMoney`. |
| `OrderEscrowClaims` | What comments, tests and messages in the code say of an order, literally, each with a configuration that refutes it. |
| `OrderEscrowInv` | The inductive invariants of the proofs, `TypeInv`, `SettlementInv`, `OrderInv`, and the moves an order can make (`Moves`, `LifeStep`). |
| `OrderEscrow_proofs` | `Spec => []TypeInv`, `Spec => []SettlementInv`, `Spec => []OrderInv`, `Spec => [][LifeStep]_vars`, that it implements `OrderMoney`, and from them every safety and action property of the runs. |
| `MCOrderEscrow` | Constants of the model-checking instances; its `.cfg` files are the runs. |
| `Promotion` | The promotions, their usages, the discounts of orders, and the transactions that place and cancel orders statement by statement, with row locks and connections; the administrator. |
| `PromotionInv` | The inductive invariant `AccountingInv`. |
| `Promotion_proofs` | `Spec => []AccountingInv` and from it quota, budget, usages, the limit per customer, and that the counters are the sums of the usages. |
| `MCPromotion` | Constants of its instances. |
| `Withdrawal` | Withdrawals: the request under its Redis lock, the gateway, the user, the administrator and the recovery that end one, read step and write step apart. |
| `WithdrawalInv` | The inductive invariants `RefundInv`, `MoneyInv` and `LimitInv`. |
| `WithdrawalClaims` | What a comment says of ending one twice, with a configuration that refutes it. |
| `Sums` | Lemmas about the sums of the community module `Functions`: a sum grows by the term that is added. |
| `MCWithdrawal` | Constants of its instances. |
| `Payments` | Payments by QRIS for orders and top-ups: sums made unique and reserved, the listener that matches a notification by its amount, webhooks, payment workers, the administrator. |
| `PaymentsInv` | The inductive invariants `CreditInv`, `SumInv` and `NoteInv`. |
| `PaymentsClaims` | What a comment says of a notification that comes twice, with a configuration that refutes it. |
| `MCPayments` | Constants of its instances. |
| `Wallet_proofs` | The proofs of `Withdrawal` and `Payments`. Withdrawals: `RefundInv` is invariant, and from it types, refunds, failures; that money is kept, and the daily limit. Payments: `PaymentInv` is, and from it that credits agree with the rows, that sums differ, and that a notification counts once. |
| `Outbox` | What whoever hands over a notification is promised: the abstract specification of the dispatcher. |
| `Notifier` | The dispatcher of notifications: lists, workers, limit per device, delayed jobs, failures and restarts. It implements `Outbox`. |
| `Matching` | Extends `Notifier`: the queue of orders, workers, search, cooldown, escalation, presence of runners, composed with the dispatcher that carries the announcements. |
| `Matching_proofs` | `Spec => []DispatchInv` and from it types, that nobody is flooded, that the dispatcher implements `Outbox`. |
| `MCMatching` | The scenes of its instance. |
| `Streams` | The hub, the four kinds of streams, the goroutines that announce changes, the index of live orders and its sweeper. |
| `StreamsInv` | The inductive invariant `StreamsInvariant`: what goroutines are about to send, to whom. |
| `Streams_proofs` | `Spec => []StreamsInvariant` and from it types, and that events come once. |
| `MCStreams` | The scenes of its instance. |
| `Accounts` | Users, sessions, PIN, second factor, invitations and onboarding, e-KYC, bank accounts. |
| `AccountsInv` | The inductive invariant `AccountsInvariant`. |
| `Accounts_proofs` | `Spec => []AccountsInvariant` and from it types, single sessions, proven second factors, and that onboarding agrees with e-KYC; wrong PINs are bounded for any number of requests. |
| `MCAccounts` | The agendas of its instance. |
| `Support` | Tickets, messages, polling, FAQ, the worker that closes. |
| `SupportInv` | The inductive invariants `TicketsInv` and `MessagesInv`. |
| `MCSupport` | The agendas of its instance. |
| `Reviews` | The transaction that stores a review and the averages it writes. |
| `Merchants` | Extends `Reviews`: shops, what they sell, pictures, the nearby cache, the roles of owners; composed with the reviews that write a shop's row. |
| `MerchantsInv` | The inductive invariant `MerchantsInvariant`: of reviews, handlers, owners, the cached list and pictures. |
| `MCMerchants` | The scenes of its instance. |
| `Handlers_proofs` | The proofs of `Support` and of `Merchants` with `Reviews`, whose handlers all read a row and write it back later. Tickets: one agent wins, closed tickets stay closed, polling misses nothing, types. Merchants: types, pictures, roles, the list, averages. |

`OrderEscrow` and `Promotion` look at the same orders from two sides. The first
keeps the whole life of an order and the races between its handlers, and has
of a promotion only whether the order's usage exists (`promo`). The second keeps
what an order takes from a promotion and the locks inside one transaction, and has
of an order only whether it is open. They share no variable, so neither uses the other.
`Withdrawal` sees the same wallets, of whose other users it needs only that they take
money away under the same guard (`Spend`). `Payments` decides when an order becomes paid;
`OrderEscrow` lets that happen at any moment after the order was placed, which allows
everything that `Payments` does.

Two compositions are modules of their own: `Matching` runs beside the dispatcher it hands
its announcements to (one state, the actions of both), and `Merchants` beside the reviews
that write the rows it writes. `Streams` keeps of an order's life what `OrderEscrow` has of
statuses and runners, and adds what others see of it; the two share no variable.

A definition whose comment begins with "Mutant" is not part of any
specification: it is a plausible bug in the definition after it, kept so that
each property can be shown to notice one.

## How the modules correspond to the code

### OrderEscrow

*State.* `order[o]` is the row: the columns that no handler changes are its
`shape` (category, payment method and source, price, fees, discount), the others
are its status, payment status, runner, trip, price, price adjustment and
escalation mark. `total_payment` is derived (`TotalPayment`). `bal` are the
wallet balances, guarded as `UpdateWalletBalance` guards them. `deposits` are the
`LIABILITY_HOLD` ledger rows, `promo` the `promotion_usages` rows, `avail` the
free places of each runner's trip, `acceptLock` and `reassigns` the Redis keys,
`sweep` the lists the cron job is working through, `req` the requests in flight.

*Ghosts.* Three variables exist only for the properties. `held[o]` is the money
taken for the order less the money paid out, `owed[o][r]` the deposit taken from
a runner less what was returned, and `stale[o]` counts the whole-row writes that
undid another request's write.

*Atomicity.* A handler that locks the row (`FOR UPDATE`) and checks again inside
the transaction that writes is a read step that keeps nothing but what it
decided (`CancelOrderRead` keeps whether the checking fee is charged, decided at
`OS:1431` before the lock) and a commit step. A handler that reads without a
lock and calls `repository.Update`, which writes every column, keeps the row it
read and writes it back (`WholeRowWrite`). `AcceptOrder` is three steps: lock and
row, then wallet, other orders and trip, then the transaction with the expected
status. A single transaction is one action. `Abort` is a handler that returns an
error after its read (validation, storage, the database); `Crash` is a process that
dies with the request, whose Redis lock then stays until it expires.

*Inputs.* Who calls is chosen by `\E`. Times are abstracted: an order may or may
not be older than 15 minutes, 30 minutes or 24 hours, a lock or counter may
expire at any moment. Amounts are those of the `shape`; the fee formula
(`OS:2827-2862`) is not modelled beyond what `ShapesAssumption` states of its
result. The gateway's own fee and the unique code that `generateOrderQRIS` adds
to a QRIS total are left out; they stay with the gateway account.

*Assumed of the environment.* Redis answers, except that the increment of the
reassign counter may be lost (its error is ignored at `OS:1645`). Customer,
merchant and runner of an order are different accounts (`OS:1154` refuses the
customer; a merchant's owner who runs its own order is left out).

*Where a property says `Intact(o)`*, it promises something only for orders whose
row no stale write has undone. That is not a way to hide the races: every
interleaving of the requests is still explored, including stale writes up to
`MaxStale`, and the claims that drop the condition are the ones that fail (see
[below](#where-the-code-disagrees-with-itself)). What is shown is that the locks and status checks are enough as
soon as the unlocked whole-row writes are repaired.

*Refinement.* `OrderMoney` says what whoever pays may rely on: the price is taken once and whole, it stays until
the order is settled, a settlement hands out all that is due, and afterwards nothing is handed out again.
`Promise == INSTANCE OrderMoney WITH account <- ...` maps the payment status to the phase of the account and the money
held to what is due (`AccountOf`); an order that a stale write touched is `unknown`, and nothing is promised of it. Two places where the contract is
weaker than one may expect are the code's. Settling an order with a voucher, or a "kirim" order with a declared value, hands out
more than its customer was asked for (`Allowance`; the platform carries it), so `due` is what the settlement hands out and not what came in. And
`ApprovePriceAdjustment` takes the difference also when the order is settled (`OS:2744`): `Raise` then adds to an account that nobody settles
any more, at most once. Without that step TLC finds `KeepsPromise` violated. `KeepsPromise` is `Promise!Spec`, a safety property.

### Promotion

*State.* `promos` is the `promotions` table: the terms an administrator sets
(`offer`), whether it is active, whether now lies between `valid_from` and
`valid_until` (`live`), and the two counters. `usages` is `promotion_usages`.
`orders[o]` is what an order keeps of its discount. `promoLock` says who locked a
promotion row; the locks of orders and wallets follow from how far a request has
come (`LocksOrder`, `LocksWallet`). Amounts are in hundredths of a rupiah, the
scale of the columns, because the discount is rounded to whole rupiahs after it was
capped by what is left of the budget (`Round`, `Discount`).

*Atomicity.* `Create` and `CancelOrder` are one database transaction each, and the
question is what other transactions do between its statements. So
a transaction is one step per statement that can wait: `PickPromo` (the locking
`SELECT`: the rows it found when it started, the oldest first, read again after a wait),
`ValidateAndReserve` (counts on another connection of the pool, since
`CountUserUsage` does not use the transaction), `CheckBalance` (again another
connection), `CommitOrder`; and `LockOrder`, `RefundEscrow`, `CommitCancel`. What
is written appears at the commit, locks are kept until the end (`End`). The counters are
incremented in the database (`UpdateColumn` with an expression), so `ApplyUsage`
reads the current row. An administrator's transaction locks first and does
everything under that lock; it is one action. `Fail` is every error, refusal
or crash: the database rolls the transaction back.

*What fails quietly.* The limit per customer and the first-purchase rule count
with `err == nil &&` (`promotion/service.go:473`, `:480`): if the count fails, the
rule is not applied. `MayFail` says which counts may fail in an instance.

*An automatic promotion that refuses* (limit, minimum, first purchase) fails the
whole order, although the customer asked for none (`OS:659-665`):
`ValidateAndReserve` rolls back with and without a code.

*Connections.* `Connections` is the size of the pool (50). Requests of an
instance are fewer. With as many connections as requests TLC finds `RequestsEnd`
violated: one request waits for the promotion's lock, the one that holds it waits for a
second connection, and the pool has no timeout.

### Withdrawal

*State.* `bal` are the balances. `rows[w]` is a `WITHDRAWAL` row of
`wallet_transactions` together with its `PLATFORM_FEE` row, which the code finds
again by the reference `FEE-WITHDRAW-<id>`: `fee` says whether there is one and whether it
was given back (`failed` in the table). `today` abstracts `created_at >= CURRENT_DATE`.
`lock` is `lock:withdraw:<user>`, `jobs` the goroutines on their way to the gateway,
`gateway` what it decided. Ghosts: `spent` (what orders took),
`returned` (what a withdrawal gave back) and `raced` (withdrawals that were ended
after they had ended).

*Atomicity.* `RequestWithdrawal` is four steps: lock; limit; the balance as the
transaction reads it; deduction and rows, where only the guard of
`UpdateWalletBalance` counts. `FinalizeWithdrawal` reads the status before its
transaction and writes it unconditionally (`UpdateTransactionStatus` has no
expected status), so ending a withdrawal is a read step and a write step;
`ApproveWithdrawal` does both in one transaction but without a row lock, which under
read committed is the same. `RequestFails` is a refusal (suspended, PIN, no bank
account, limit, balance) or an error.

*The gateway* is assumed to decide on a transfer once, by its `trx_id`, and to
tell what it decided late, repeatedly or never; the webhook takes every status
but `SUCCESS` for a failure, so the model assumes that it reports final ones only.
`RecoverPendingWithdrawals` runs when a server starts (`cmd/server/main.go:346`); the
handler requires a channel, so the channel it dereferences is there. The channels that the
migrations create are all manual; the code serves gateway channels as well, and so does the model.

*What the properties exclude, and why.* Two requests that race to end one withdrawal
give the money back twice, or give it back although it was paid (`RefundedOnce`).
So the second half of `MoneyKept`, `RefundAgrees`, `LimitKept` and `FailedIsRefused` speak of withdrawals that did
not race (`raced`); the first half, that nobody loses money, holds through all races: they are at the cost of the
platform, never of the user. `LimitKept` needs that the sum of the day can be read and
that a request ends before its lock does; with `SumMayFail` or
`LockMayExpire` TLC finds it violated. Fees are rounded down to the unit of the model.

### Payments

*State.* `orders` and `tops` keep of an order and of a `TOP_UP` row what the listener's two
queries ask for (`unpaid`, not cancelled; `pending`) and the code; `made` is the order of
`created_at`. `reserved` are the Redis keys `active_total_payment:<total>`, which are
made with `SETNX` and deleted only by whoever they name. `notes` are the notifications,
`processed` their keys, `amtLock` the lock on an amount, `queue` the jobs of the
payment workers with whoever waits for the answer. `req` are requests: a look at an
order that makes a code (`view`), a refresh, a top-up, a cancellation of a top-up, a
notification being booked.

*Ghosts.* A note remembers its `payer` for as long as that one still waits for the sum:
a cancellation, a new code or another payment clears it. `strays` may wait for a sum that is not
reserved for them: while a new code is made, after a reservation lapsed, after a rollback,
before the first code, and with a random code when all are taken. `booked` is what a
notification was counted for; `doubtful` are notifications that were abandoned, doubled
while in flight, or counted by a transaction that then failed.

*Atomicity.* `generateOrderQRIS` gives up the old reservation (`ViewOrder`), takes a code
(`TakeNewCode`) and, after the gateway answered, `populatePaymentInfo` writes it
(`SaveQRIS`). `RefreshQRIS` reads the row and writes all of it back (`WriteRefreshed`); it
keeps the code, since `qris_data` is still there and the order is young again. The
listener's steps are: the key (`PaymentListener`), lock and queries (`LockAndMatch`: only
the lock separates them, and nobody else needs what they read), the job
(`ProcessPayment`), the key again (`Mark`). `FinalizeTopUp` writes under the condition that the
status is pending, so it is one action (`Credit`); the Redis writes inside its
transaction do not roll back (`CreditRollsBack`). `AdminCancelTopUp` reads and writes apart and
without a condition.

*What may go wrong* in an instance is said by `Trouble`; each flag enables what the head of
the module says. An order may be older than 15 minutes at any moment, so a view always may make a new
code. An order that expired is still matched (`status != 'cancelled'`), and a
pending top-up for ever.

*Assumed of the environment.* Redis answers, the key of a notification outlives its
repetitions (24 hours), and customers pay what is shown to them while it is reserved; anybody may
also pay any sum. All prices of an instance are equal; prices that
differ by less than the number of codes meet each other's sums in the same way. The gateway's
fee (`PGFee`) does not change: the code computes a top-up's reservation anew from the fee
configured when it ends, so a change of the fee meanwhile leaves the key to its expiry. That an
unpaid order without a code, or paid in cash, may have a total that another one gets by its
code is not modelled: the listener's query does not ask how an order is paid.

### Matching, Notifier, Outbox

*State.* `queue` is the channel `jobQueue`, `post` the requests still trying to put an order on
it, `overflow` the Redis list nothing reads. `row` is what matching uses of an order's row, and
`finder` what each worker and the cron job are doing, with the row they read. `online`, `track`, `near`, `live` are the
column and the keys that say which runner is where; `cooling` the keys `fcm:cooldown:*`. In the
dispatcher, `high` and `global` are the two lists, `delayed` the sorted set with `due`, its
members whose time has come, `count` and `expiring` the counter of a device and whether it has
an expiry (`INCR` and `EXPIRE` are two calls).

*Atomicity.* One call of Redis, of the database or of FCM is one step. A worker of the
dispatcher takes a job (`Pop`), finds the token (`Look`), counts (`Count`), sends (`Send`) or
puts the job off (`DelayEnqueue`); the delayed loop reads what is due, removes a member, pushes
it. `dispatchOrder` looks for the key, sets it, enqueues (`DispatchCheck`, `DispatchMark`,
`DispatchPush`). `EscalateMatching` keeps the row it read before the search and writes it back
(`EscalateNote`).

*What fails.* Each of these calls may fail, and what then happens is what the code does with the
error: ignore it (`ZREM`, `LPUSH`, `EXPIRE`), take it for "no device" (`Look`), for "no limit"
(`Count`), or lose the job. `Restart` is the server that stops: the lists in Redis stay, jobs
in hand and the channel in memory go.

*Refinement.* `Outbox` says what a service that calls `Enqueue` and forgets may expect: a
notification is kept until it was sent, could not be, or was given up, and is lost only where
something fails. `Contract == INSTANCE Outbox WITH Notes <- Note, owed <- Kept` maps what is kept
to the notifications in the lists, in the sorted set and in the hands of workers and loop; the run
`dispatch` checks `Contract!Spec`. It would be refuted by a single step that drops
a job without a failure: `RequeuedNowhere` is such a step.

*What the properties exclude.* `BurstKept` lets as many calls pass the limit as workers were
under way and as were not counted because Redis failed. `NotesEnd` leaves out a device whose
counter lost its expiry: the code keeps it over its limit for good. `SpamBounded` counts the
announcements of one order to one runner while its key is there: as many as there are
searches at once.

### Streams

*State.* `row` is the order as its streams see it (status, whether a runner is set, paid or on
delivery), `request` the handlers between reading an order and writing it. `stream[s]` is a
client: not there, asked (it has its snapshot), registered, or gone, with its buffer; `tasks` are
the goroutines on their way to announce a change, each with the cells and clients still to
tell; `pool` is the geo set `orders:live`, `geo` the calls to it under way, `sweep` the sweeper
between its two lists.

*Atomicity.* The hub's methods hold a mutex: registering, unregistering and one broadcast to one
set of cells are steps; the goroutines of two handlers may run in any order, and so do the calls
to Redis. A broadcast to several cells tells a client once (`uniqueClients`); one that finds a
full buffer passes the client over (`Send`). A handler reads the order, then registers
(`StreamAsk`, `RegisterSSE`): what happens in between is in neither. The sweeper reads the table,
then the index, then removes and adds.

*Ghosts.* `due`, `told` and `missed` are the events sent off to a stream while it was registered,
those put into its buffer, and those it had no room for; `changes` tells apart two changes of one order.

*What the properties exclude.* `EachEventOnce` starts at the registration, and speaks of runners
and readers: a merchant's stream is told of a change by several goroutines. `CancelledStreamEnds`
is stated of the one final status whose event has the name the loop waits for. `PoolSettles`
is a `<>[]`: the bound of the scene stops the changes, and what the sweeper does from then on is
what makes the index right.

### Accounts

*State.* `users` are the rows (number, device, token version, PIN, second factor, verification),
`cache` the keys `user:session:v:*`, `tokens` the pairs of tokens issued, `tries` and `locked` the
PIN counters in Redis, `invites`, `kyc`, `bank` the tables of these names. `req` says what each
request has read and will write.

*Atomicity.* `repository.Update` writes every column (`user/repository.go:143`), and nearly every
handler reads the row first, without a lock: read and write are two steps, and the write puts the
row back that was read. A login writes the table and then the cache; `Authenticate`, the
middleware, reads the cache, then the table, then fills the cache. The PIN counter is read and
written apart. `OnboardRunner` and `OnboardMerchant` are transactions under the unique index on the
number; `Submit` stores photos before its row; `Review` writes the user, then the submission.

*Ghosts.* `overlapped` are the users two of whose requests overlapped, each between reading the row
and writing it back (a review of the identity check writes it too; a logout is one statement and does not
count): of those `OneSession` promises nothing, as a whole-row write may bring an old version back. `wrong` counts wrong PINs,
`proven` the secrets a right code was shown for, `vouched` the users written as
verified, `guest` the invitation an account was made with.

*The bound of* `AttemptsBounded` is what the requests at a time can reach: while one holds the number
it counted, the others go on counting, are undone when it is stored, and so on with one attempt fewer each time.
`MostCounted` is that recursion, and `WrongBound` its value for all of them: 14 for two requests and five attempts, 34 for three.

### Support

*State.* `ticket` and `message` are the tables, `handler` the handlers between reading a ticket and
writing it back, `aged` the tickets resolved long enough ago, `cursor` and `seen` what the two
sides of a conversation have been shown.

*Atomicity.* Releasing, resolving, closing, reopening and a message read the ticket and write all
of it back; a message is inserted in between. `ClaimTicketAtomic` is an `UPDATE` under
a condition, after a count of the agent's tickets that nothing holds; its `FOR UPDATE` is outside a
transaction. `AutoCloseResolved` is one `UPDATE`. The time of a message is taken before
it is inserted, so messages may appear after later ones (`late`).

*What the properties exclude.* `ClosedStays` lets a handler that read the row before it was closed
write it back (`Reviving`). `PollMissesNothing` leaves out what was inserted late.

### Reviews, Merchants

*State.* `review`, `score`, `rating` and `tx`: the reviews, the averages in the rows of users and
merchants, the transactions under way with the averages they took. `role` and `shop` are what the
rows of users and merchants keep besides; `part` are menus, categories, groups, options and add-ons, of which
a `Kind` says which table they are in; `store` is the object store, `nearby` the cached list.

*Atomicity.* A review is a transaction of several statements under read committed: it counts what is
committed and its own row (`Sees`), writes the average, and holds the row it wrote until it ends.
`SubmitReview` writes the user's whole row. A form uploads its picture, reads the row, writes
it back, removes the picture the row showed before, and drops the cached list; each is a step.
Opening and deleting a shop write the shop and the owner's role without a transaction. Deleting a
group or a menu reads the pictures below it first.

*Ghosts.* `muddled` are rows written by one who had seen them otherwise, `tangled` users whose role was
written so, or who had two shops, or whose shop was deleted twice or not to the end, `crossed` users and shops whose number was written by
one who had missed a review, `old` a cached list that was taken before a change: the cases in which the
code itself goes wrong, and of which the properties promise nothing.

## Runs

The instances of `MCOrderEscrow` use one order of each of a few shapes, one or two runners and one
or two requests in flight, with prices small enough to keep balances apart
(price 2, fee 3, service fee 1, checking fee 1, discount 1, adjusted price 4).
Two requests are enough for every race found: a race needs one request that
decided on what it read and one that changes it. The customer's nine units pay
for an order with its adjustment, not for everything, so that refused payments
happen too.

| Run | Instance | Properties | Distinct states |
|---|---|---|---|
| `money` | an errand by QRIS, food by wallet or in cash, with or without a discount; one runner, two requests | `EscrowBacked`, `SettledInFull`, `VoucherFollowsOrder`, `OrderMovesForward`, `KeepsPromise` | 403 000 |
| `runners` | food or an errand by wallet, without price adjustments; two runners, one of them on a trip with one place and without e-KYC; two requests | `WorkIsBacked`, `RunnerKept` | 427 000 |
| `waiting` | one order of each kind, one request, a stale write | `NobodyWaitsForEver` under `FairSpec` | 23 000 |
| `vouchers` | one promotion row, whose terms are now an automatic discount of a fixed amount (twice, once per customer), now a voucher of half the price (once, first purchase); two customers, two orders, two requests; the count of completed orders may fail | `TermsKept`, `CountersAgree`, `DiscountIsAccounted`, `UserLimitKept` | 82 000 |
| `locks` | an automatic promotion, two orders of one customer, two requests; both counts may fail | `RequestsEnd` under `FairSpec` | 74 000 |
| `withdrawals` | one user with seven units, two withdrawals of two or four, by hand (free) or through the gateway (half of the amount), a daily limit of five; two requests | `MoneyKept`, `LimitKept` | 1 560 000 |
| `payments` | an order and a top-up of the same price, two codes, one notification, two requests; everything but `views` and `overlap` may go wrong | `TotalsDiffer`, `NoteCountsOnce`, `CreditAgrees` | 907 000 |
| `accounts` | two founders and an account to be made, two requests, two devices, three numbers, two secrets; ten agendas | `OneSession`, `EnabledIsProven`, `AttemptsBounded`, `OnboardingAgrees` | 114 000 |
| `dispatch` | a regular and an instant order, two runners on the way, one device; a worker, the cron job, two senders; nine scenes | `TypeOK`, `NobodyIsFlooded`, `NotesEnd`, `ImplementsOutbox`, `OrderLookedAt` under `FairSpec` | 110 000 |
| `streams` | an order and one of the merchant, two cells, one client of each kind, buffers of one event; five scenes | `TypeOK`, `EachEventOnce`, `CancelledStreamEnds`, `PoolSettles` under `FairSpec` | 143 000 |
| `support` | two tickets, two agents with one ticket at a time, pages of two messages, two handlers; five agendas | `TicketsTypeOK`, `OneWinner`, `PollMissesNothing`, `TicketsEnd` under `FairSupportSpec` | 207 000 |
| `merchants` | two users, two shops, a part of each of the eight kinds, two pictures, four orders, two clerks and two reviewers; eighteen scenes | `TypeOK`, `ImagesKept`, `RoleFollowsShop`, `ScoresAgree`, `NearbyAgrees` | 110 000 |

Some properties are conjunctions of named parts, each explained where it is defined:
`WorkIsBacked` (a deposit backs the work, a trip is not overbooked), `OrderMovesForward` (payment
statuses and final statuses are never taken back), `TermsKept` (quota and budget), `MoneyKept`
(nobody loses money, nobody gains any), `OnboardingAgrees` (identity checks, photos,
invitations), `NobodyIsFlooded` (bursts, announcements), `TicketsEnd` (resolved tickets are closed,
closed ones stay so).

Deadlock checking is off in all of them: when the order is closed and the slots are empty, or
the requests of a scene are used up, the system has nothing left to do.

*Scenes and agendas.* The modules of accounts, dispatch, streams, support and merchants have many
operations that do not meet. An instance that allowed a few of each at once would be far too large
and would mostly shuffle unrelated ones. Each initial state therefore carries a budget: how many
operations of each class, failures and restarts may still happen (`Agendas`, `Scenes`). A scene puts
together operations that touch the same rows; all races between them are explored. Together
the scenes of a run take every action of its module. Within a scene two of everything that can
race are enough for the reason given below; three where something must be made, changed and
removed.

*Bounds.* `MaxStale` bounds how often stale writes undo others: 0 where the
properties speak of intact orders only (a stale write would make them vacuous), 1
in `waiting` and where a claim about such a write is refuted. `ReassignLimit` is
the code's own 2. Price adjustments happen once per order (the code allows one),
so balances and ghosts are bounded by the shapes. In `MCPromotion` nothing needs a
bound: uses are bounded by the number of orders, and an order is placed once. Two
orders reach every limit, since the offers allow one use or two; two
requests make every pair of statements interleave, and a circle of waiting needs no third.
`MCWithdrawal` is bounded by what the user owns; two withdrawals meet the limit, and the
smaller amount through the gateway leaves enough for a second.
`MCPayments` has a code for each of the two that may wait at once, and a third case
when a lapsed one holds neither; the notification may come any number of times. `"overlap"` is
in the configuration `MCPayments_CountedOnce`; with it the properties of `payments` hold as well
(1 560 000 states), and so they do with `"views"` together with `"lapse"`, `"gateway"` and
`"crowd"` (1 270 000), which would make the run too long beside the others.

*Fairness.* `FairSpec` assumes of the cron job only: a scan that finds an old order
happens (`OS:2502-2527` ticks every minute for as long as the server is up), and
the orders on its list are worked through. Nothing is assumed of customers,
runners or merchants, nor that a request in flight ever finishes.
`Promotion`'s `FairSpec` assumes of the database what Postgres does: a request that
is again and again able to go on does so (strong fairness of `Continue`: row locks
and pooled connections are handed out in the order of the queue), and a circle of
waiting transactions is broken (weak fairness of `AbortDeadlock`). `RequestsEnd` needs
both: cancelling locks the wallet before the promotion, placing an order the
promotion before the wallet.
`Matching`'s `FairSpec` assumes that the loops the server runs go on: the senders, the delayed loop,
the workers, the cron job and the retries of a request that queues an order; that the time of a
delayed job comes and the window of a counter with an expiry ends; and that a
heartbeat that has set its keys sets its place. Nobody has to accept an order, and nothing is
assumed of failures but that a scene has few. `Streams`' `FairSpec` assumes that the goroutines
that were started run, that a client's loop writes what is in its buffer, that calls to Redis
end and that the sweeper goes on. `Support`'s assumes the worker that closes tickets, and that days pass.
`accounts` and `merchants` have no liveness: what they promise is safety, and a request may die anywhere.

## Where the code disagrees with itself

Five configurations check a claim that a comment or a message makes, without the conditions the
properties above need. They are not among the runs: each ends with a counterexample that can be
read and replayed (`tlc -config <file> <module>`), and will pass once the handler keeps the
claim.

| Configuration | Where | What the line says | What happens |
|---|---|---|---|
| `MCOrderEscrow_CompletedPaysOnce` | `OS:1324` | `OS:1859` "Unified Completion Transaction with FOR UPDATE anti double release" | `PickupOrder` writes back every column of a row it read without a lock: a duplicate pickup revives a completed order, and completing it again pays twice |
| `MCOrderEscrow_OneRunnerOnDeposit` | `OS:1100` | `OS:1233` "pesanan sudah diambil oleh runner lain" | food is accepted while cooking or ready without asking for `runner_id`, and cooking stays cooking: a second runner takes an order that has one; both deposits are held |
| `MCOrderEscrow_AcceptedHasRunner` | `OS:1618` | `OS:1570` "Runner cancel pre-pickup -> reassign to nearest online runner instead of final cancelled" | an errand given back keeps the status `accepted`: nobody can take it, no job closes it |
| `MCWithdrawal_RefundedOnce` | `WS:1235` | `WS:1236` "Already processed" | the status is read outside the transaction that writes it, whatever it is by then: two requests that cancel a withdrawal both give the money back |
| `MCPayments_CountedOnce` | `internal/domain/wallet/handler.go:867` | `handler.go:865` "Idempotency: check if notification_id already exists in redis to avoid double-processing" | the key is looked at before the amount is locked: one notification, delivered again while it was booked, pays for two things |

The models show, without a run of their own: settling a parcel with a declared value pays
out money nobody paid in (`OS:596`); two orders placed before either is completed both count as
the first purchase (`internal/domain/promotion/service.go:479`); after a reservation lapsed two orders can
wait for the same sum, and the older gets the payment (`OS:3033`); a top-up whose
transaction fails at its commit loses the payment, whose key is written (`WS:427`); disputes of paid orders cannot be resolved, as
completion has released the escrow that `ResolveDispute` asks for (`OS:2250`); an automatic promotion
applies to cash orders, which a voucher does not (`OS:653`); a withdrawal cancelled while its transfer is on
the way is given back and paid; a merchant's accept can revive a
cancelled order, which is then refunded twice; refreshing a QR code can undo the
payment that arrived meanwhile; one runner can accept two orders at once;
force-cancelling a disputed order returns the deposit again; a refund ignores the
discount. They are in the list of hazards, at the line where they begin.

The newer modules show, again without a run of their own:

* *matching and dispatcher*: orders on `matching:overflow` are never looked at
  (`internal/domain/matching/service.go:98`); a worker does not look at the status of the order it
  searches for; a counter whose `EXPIRE` failed blocks a device for good
  (`internal/notification/dispatcher.go:174`); a delayed job of high priority comes back in the list of
  the others (`:283`); two delayed jobs with one payload become one; an invalid token is never forgotten, as
  the row written has nothing but its id;
* *streams*: the stream of a completed order waits for `order_completed`
  (`internal/domain/order/handler.go:536`) while completing announces `completed` (`OS:1932`), and
  nothing announces an expiry: such a stream stays until its client leaves; what happens between
  snapshot and registration is not seen; a cancel by force or after the last reassignment announces nothing;
  a paid merchant order is announced while it is still pending;
* *accounts*: a whole-row write brings an old token version, device or suspension back; sessions of
  passkeys share one device name; ending the sessions of a device raises versions in the table and not in
  Redis; two self-registrations of a bank account overwrite each other; a grant may be spent twice
  (`internal/domain/auth/service.go:188`);
* *support*: a message written under a stale row undoes a claim or opens a closed ticket
  (`internal/domain/support/service.go:337`); an agent may hold more tickets than allowed by claiming two at
  once; any agent may resolve a ticket, in the queue or closed; more messages of one time than fit a page
  repeat;
* *merchants and reviews*: reviews at a time miss each other until the next one
  (`internal/domain/review/service.go:85`); whole-row writes roll a score, a rating or the opening back; deleting
  one of two shops takes the owner's role; deleting options or replacing a shop's picture leaves
  pictures behind; an option whose read failed is written as an empty row; a form that is older than the
  removal of its picture shows it again; one column holds the average a user has as a runner and as a
  requester, whichever was written last.


## Proofs

TLC checks the instances above; the theorems hold for every number of users, orders,
promotions, tickets, workers and requests and for every value of the other constants that satisfies the
named assumptions of its module. Every inductive invariant below was an `INVARIANT` of a
run of its instance before it was proved. Every assumption is one the code
justifies, and TLC evaluates it in each run of its module. The invariants are in modules of their own
(`...Inv`), the proofs in others (`..._proofs`); a proof that a step keeps an invariant has a
lemma for each action or family of actions and a step for each part of the invariant.

### OrderEscrow

`TypeInvariance`: `TypeInv` is `TypeOK` with `PricesOnlyRise` and `ReadersRemember`. That
balances stay in `Nat` rests on the guards of `UpdateWalletBalance`, that `avail` does on the guard
of `UpdateCapacity`; payouts are naturals because the parts of a fee do not exceed
the fee (`ShapesAssumption`).

`SettlementInvariance`: `EscrowBacked` is not inductive, as an unlocked handler writes back what it
remembers, so the invariant must speak of requests in flight (`Remembers`): a request about to write back a
row that nobody changed remembers exactly the current one, or one that the write detects
as diverged, in which case the order is no longer intact. And the payment status
must be tied to the status (`StatusAgreesWithPayment`) and the money taken to
both (`HeldAgreesWithPayment`): unpaid orders hold nothing, orders in escrow hold
what is refundable, released and refunded ones hold nothing. Prices only rise
(`PricedUp`), so an approved adjustment never lowers what is held. `EscrowIsBacked`, `IsSettledInFull` and
`DeliveredOrdersAreReleased` follow.

`OnlyMoves` says what all 45 actions come to for one order that stays intact: it rests, or makes one of nine moves
(`Moves`: moves on, is taken, paid, given back, completed, cancelled, a new price is asked, answered, or ends it),
and all other orders rest (`LifeStep`). It is proved once, action by action, and everything about an order's life
follows from the moves alone: the invariant `OrderInv` (`OrderInvariance`: who has no runner and no price
to discuss, deposits given back never exceed those left, places of a trip are those of its orders), from it
`VouchersFollowOrders` and `WorkIsAlwaysBacked`, and the action properties `RunnersAreKept` and `OrdersMoveForward`.

`PromiseIsKept` is the refinement of `OrderMoney`. It rests on `MoneyAlwaysFollows`, an action property
proved action by action: what a step adds to or takes from the money held for an untouched order is the change
of its row (`HeldFollows`), also when a request writes back a row it read before; and on
`LedgerInv`, which says besides `OrderInv` that nothing was undone of an order that does not exist yet. A step that is one of an
order's moves, with the money that follows, is then a step of its account or none, and the accounts of all
other orders rest. `SettlementInv` speaks of every order, with or without a voucher, so the theorem needs no
restriction to orders whose customer was asked for the full price (`FullyPriced`), as `EscrowBacked` and `SettledInFull` do.

### Promotion

`AccountingInvariance` holds for any terms and any interleaving with the
administrator. Between the moment a request
finds room for one more use and the moment the use is written, the invariant
must say that there still is room. `RoomIsLeft` says it, and it is kept because
`HoldsItsPromo`: whoever goes on with a promotion holds its row lock, and everybody
else who would change the row (another order, a cancellation, the administrator)
needs that lock. The rest ties rows to each other: a usage belongs to
a stored promotion and to the order that carries it (`UsageHasOwner`), an order
being placed is new (`OrdersAreNew`), the counter is the cardinality of the usage rows
(`UsesAreCounted`). The theorems `TermsAreKept` (`QuotaIsKept` and `BudgetIsKept`), `DiscountsAreAccounted`
and, for the step, `UserLimitIsKept` follow. The last needs that usages can be
counted (`"usages" \notin MayFail`). `CountersAreRight` adds that `used` is the sum of the usages
(`UsesAreSummed`): every step adds one usage and its amount, takes away both, or leaves both.

### Sums

The sums of the models are `SumFunctionOnSet` of the community modules, a fold, which is a function *chosen* to satisfy a
recursive equation over the elements of a set in some order. `Sums` proves that for finite sets there is one, that the order does not matter, and
that a sum grows by the term that is added; `Promotion_proofs`, `Wallet_proofs`, `Handlers_proofs` and `Accounts_proofs` cite it. The induction theorems
of the library take a predicate as a parameter, which the provers cannot instantiate; `SubsetInduction` takes a
*set* of finite sets instead.

### Withdrawal

`RefundInvariance`: what is missing from `RefundAgrees` is what a request knows that is about to end a withdrawal
(`EndsOnGrounds`): the row is there, and `failed` is the gateway's word, which does not
change. `BackIsTotal` is the lemma behind it: what is given back for an unraced row is what
was taken.

`MoneyIsKept`: what a user has and what his open withdrawals took is what he had, or more when one was ended
twice. Each step changes one row, so one term of the sum; what makes the term known is that the fee row tells
whether there was a fee, also of a row that was ended twice (`FeesAreKnown`).

`LimitIsKept`: from the moment a request found the sum of today below the limit there is
room for it until it stored its row (`RoomIsLeft`), since it holds the user's lock (`LocksAreHeld`) and everybody
else who would add to the sum needs it. The theorem's hypotheses are that the sum
can be read and that a lock outlives its request (`~SumMayFail`, `~LockMayExpire`), as `withdrawals` has them; the
code lets a request pass when the sum cannot be read.

### Payments

`PaymentInvariance` holds for any orders, top-ups, prices, fee, number of codes, notifications and requests, with
everything in `Trouble` allowed. It has three parts.

- `CreditInv`, for `CreditsAgree`: a row that is written must be new, or the credit of an older row would stay with a
  pending one. Until the row exists its reference is known to one request only (`KnowsItsTopUp`), and who cancels a
  top-up found it stored.
- `SumInv`, for `TotalsAreUnique`: who waits for a payment holds the reservation of its sum (`Holds`) unless it is one
  of the ghost `strays`, who wait for a sum that is not reserved for them. Two that wait for the same sum would both hold it.
- `NoteInv`, for `NotesCountOnce`: the one who paid holds the sum until the payment is booked (`PayerHolds`); a
  notification is booked by one request at a time, before its key is written (`BookedByOne`), what was
  booked is one and the one who paid (`CountedForOne`), and a job is awaited by the request that queued
  it (`JobsAwaited`). All this of notifications that nothing interrupted; the others are in `doubtful`.

The assumptions are `PaymentsAssumption` (orders and top-ups are distinct, prices
positive) and `SentinelAssumption` (no row is the sentinel `NoRow`).

### Matching and Notifier

`DispatchInvHolds` is proved for any scene: the search, the cron job, the dispatcher and the server that stops under both.
`SpamBounded` is not inductive, because the key is looked at and set in two steps. `SpamInv` counts
who is between them: while the key is not there only finders that failed to set it have told or
will tell the runner, and once it is there at most the finders that had not seen it do
(`Marks`, `Pushes`); the key cannot expire while one of them is at it. `BurstInv` does the same for calls: those
made and those under way were counted, but for one for each worker when a window ends.
`NobodyFlooded` follows from both. `KeepsContract` is the refinement of `Outbox`: a job that leaves a list,
a worker's hand, the delayed set or the loop's hand must be found in another, have ended, or be lost with
a failure on record. It needs that the loop holds one job at most and that those it has read are still delayed
(`LoopInv`), or moving one would bring a note back that had ended. `NoneIsForgotten` carries the invariant of the contract
over. Its assumptions are `NotifierAssumption`, `MatchingAssumption` (the workers are finitely many) and that
`Idle` is no job (`SentinelAssumption`, `FinderAssumption`).

### Streams

`StreamsInvariance` holds for any orders, streams, cells near a place, handlers and size of a channel, and for any scene.
`EachEventOnce` speaks of what was told; the invariant must speak of what is going to be. A goroutine sends one
of the five kinds of plans, from the call it is at (`TasksOK`); no two goroutines are the same one of the same
change (`TasksDiffer`); and what is due to a stream is told, missed or among what is to come (`NothingLost`),
no two of which are alike (`OneOfAKind`). A plan has several calls of one type, and a stream that asked for two of their cells
would hear twice: `OneCallEach` is the lemma that a stream which is no merchant's asked for cells of one
kind (`OwnCells`), which one call of a type reaches. Calls to cells that no stream of the scene asked for are passed over
in the model (`Heard`), so registering must be shown to ask for `Reachable` cells only (`StreamsOK`). The rest is
that one goroutine moves (`TaskMoves`), one stream does (`OneStream`), new goroutines come with a new number of the
change (`SaysStep`), or nothing of the hub does (`QuietStep`).

### Accounts

`AccountsInvariance` holds for any users, founders, devices, numbers, secrets, invitations and requests. The properties are
about what whole-row writes of old rows can do, so the invariant says of the row in a request's hand what the
property says of the table.

- `FactorsAreProven`: a row *held* whose second factor is on has a proven secret, as the row of the table has
  (`SecretsProven`). The one request that changes the secret stores it with the factor off.
- `SessionsAreSingle`: for a user without overlapping writes, one request holds the row (`Alone`), his tokens differ in
  their versions (`Distinct`), none is ahead of the row (`NotAhead`) or of the row held, and one
  that opens a session is ahead of all (`HeldAhead`). A token is accepted when its version is the current one, so one is.
- `AttemptsAreBounded`, for any finite number of requests. The counter forgets, so the invariant `AttemptsInv`
  says that there is a history of the wrong PINs (`HasHistory`): a curve that tells, for each number, how many were counted
  when the stored counter last was no more than that. While the counter went from a to b, who holds an attempt of
  a + 1 or less did not store it, so the rise of the curve between them is what the *others* can count (`MayCount`).
  A store that takes the counter back cuts the curve there and adds one, and this is the recursion of `MostCounted`
  (`OneHolderMore`); who starts to hold an attempt does not bind the curve below it (`Waits`). The recursion is shown to have a
  solution (`ATable`), and one request or attempt more to let no less be counted (`MoreAttempts`). The invariant was checked with
  TLC for two requests and five attempts and for three requests and three, where the bound is reached.
- `OnboardingHolds`: who makes an account works alone on an id without a row, all else that hangs on an account finds its row there (`Owned`);
  invitations being accepted exist (`InvitesKnown`); a review approves a submission only after the user
  was written as verified (`ReviewsKnown`).

The proof has a lemma for each kind of thing a step can leave alone (`ChecksStay`, `JoinsStay`, `OwnersStay`,
`RowsStay`, `SessionStays`), so that each action is examined only for the parts it disturbs. It corrected the model: a review
writes the user's row it read before as well, so it too overlaps with a login and counts in `overlapped`; and
a logout is one statement that reads nothing, so it does not.

### Support

`TicketsInvHolds`: `OneWinner` is not
inductive, as handlers write whole rows they read long before. `TicketsInv` says that a row which may be taken
has no winner since it was queued, that rows and the copies handlers carry are never mixtures (`Row`), and what
the guards that were checked at reading still promise at writing (`Has`). With it `ClosedTicketsStay`, the step half of
`TicketsEnd`, holds: only a reopening, a resolving or an old row opens a closed ticket.

`MessagesInvHolds`: a message being inserted has an identity nobody else has (`IdsAreFresh`), the last message a side has is
one it was shown (`ReadersOK`), and a page is the oldest messages after that one. So no message but a late one is
passed over (`PollingMissesNothing`).

### Merchants and Reviews

`MerchantsInvariance` holds for any users, shops, parts of the eight kinds however they hang together, pictures, orders,
reviewers and clerks. An operation of the eight kinds differs from another in its table, not in what it does, so the proof
first says what each step of a clerk comes to (`ClerkStep`: about twenty forms of steps, each telling what his handler
becomes), and argues from those forms only.

- `TypeOK`: a handler's row is one of the table it will write (`WorksOn`), so no write mixes tables, and
  no copy turns automatic confirmation on.
- `ScoresAgree`: what a review took as the average is the average of what is committed and itself, unless one that concerns
  the same user or shop was committed since (`NumbersHold`, with the ghost `late`). A second review of one side of an
  order cannot be inserted (`InsertedOnce`), so committing adds exactly one term.
- `RoleFollowsShop`: an owner with untangled rows has one shop (`OneShopEach`), is made a merchant before it is opened
  (`Promoted`), and who writes or deletes a shop knows its owner (`OwnerKept`). It corrected the model: a shop deleted twice
  takes the role of the shop its owner opened between, which a scene now shows; such owners count as `tangled`.
- `NearbyAgrees`: shop by shop, the list shows what the table has or one of those who will drop it works on that shop
  (`ListInv`). A list with one shop wrong and another one's handler under way would satisfy the property and
  violate it when that handler ends.
- `ImagesKept`: every picture has a home (`Homes`: a row that may show it, for ever). Rows, forms and copies hold pictures
  of their own row, and a sweep those of what it works on or what is below that (`Reach`). Therefore two sweeps, or a
  sweep and a form, can only meet on one row. There, a form's picture was uploaded for it and nobody else knows it
  (`FreshOK`), it replaces the picture its page showed (`WritersAgree`), and nothing is created under what is not there
  (`NewParts`), so what is in a sweep is shown no more (`SweepsSafe`).

The assumptions are `ReviewsAssumption` (ratings are one to five, users are not shops), `MerchantsAssumption` (what a part
may be in), `ScenesAssumption` (a scene starts with one shop for each owner, a picture in one row, one review for a side of an order) and
that the sentinels `Nothing` and `NoCache` are no values of a table (`SentinelAssumption`).

### Only model-checked

Liveness under fairness: `ENABLED` is beyond the provers. These are `NobodyWaitsForEver`, `RequestsEnd`, `NotesEnd`,
`OrderLookedAt`, `CancelledStreamEnds`, `PoolSettles` and `TicketsEnd`. Every invariant and every action property of the runs is proved.

## What is not modelled

The fee formula and distances; listings, searches and statistics; the items of an order, cover
images and opening hours of shops; chat texts, notifications' wording; passkey challenges and
surveys; HTTP, JWT and password checks. API grants (`domain/auth/service.go`): nothing but their own handlers
uses them. Trips beyond their capacity: creating, starting and ending one writes a single row. Chat: its
WebSocket route is commented out (`domain/chat/handler.go:39-40`). Record-keeping components
(banners, configuration, audit log, inbox, stores) read and write single rows and race with nothing. Rate
limiting is a counter per key with an expiry. Storage, logging and utilities are pure
input and output or pure functions.

## Plan

1. (done) `OrderEscrow` with its runs, claims and settlement proof.
2. (done) `Promotion` and `Withdrawal` with runs, claims and proofs.
3. (done) `Payments`.
4. (done) `Notifier` with its contract `Outbox`, `Matching` composed with it, `Streams`, `Accounts`,
   `Support`, `Reviews` and `Merchants`, with their runs.
5. (done) Theorems for every safety and action property of the runs.
6. (done) `OrderMoney`, the contract of an order's money, which `OrderEscrow` implements.
7. The whole-row writes of trips, and grants.
