# Verification of Quick OTP Number

Quick OTP Number is a Telegram shop for one-time-password numbers: a bot process (aiogram), a worker
process, one PostgreSQL database and the Grizzly API that rents out the numbers. This directory holds
TLA+ models of the parts in which money, orders and messages could go wrong, TLC configurations that
check them on small instances, and proofs, checked by TLAPS, that the most important properties hold
for every number of users, purchases and workers.

Run it from this directory: `tlc -config MCOrders.cfg MCOrders.tla` (every run is listed below), and
`tlapm Orders_proofs.tla`.

## 1. The system

The bot handles each update as a coroutine; handlers interleave at every `await`. The worker runs five
loops: order polling, deposit expiry, broadcasts, schedules and daily reports. Every loop may run in several worker
processes, and every process may be stopped and restarted at any point. They share nothing but the
database, at READ COMMITTED, with explicit row locks (`SELECT ... FOR UPDATE`).

| component | state it keeps | operations | talks to |
|---|---|---|---|
| Wallets and ledger (`services/wallet.py`, `admin/handlers.py`) | `wallets.balance`, `ledger_transactions`, `users.is_blocked` | `change_balance`, `balance_confirm`, block, unblock | called by purchases, refunds, approvals |
| Purchase (`bot/handlers/orders.py`, `services/orders.py`) | `orders`, `order_events`, `grizzly_activations`, `users.total_*` | `confirm_buy`, `create_order`, `refund_order` | wallets; Grizzly `getNumber` |
| Order polling (`worker.py`) | the same rows | `poll_orders`: poll, complete, refund, sweep | Grizzly `getStatus`; wallets; Telegram |
| Deposits (`bot/handlers/payments.py`, `services/deposits.py`, `admin/router.py`) | `deposits`, `payment_proofs`, `users.total_deposits` | `create_deposit`, `payment_receipt`, approve, reject | wallets |
| Deposit expiry (`worker.py`) | `deposits.status` | `expire_deposits` | deposits |
| Broadcasts (`admin/handlers.py`, `worker.py`) | `broadcasts` | `/broadcast`, `process_broadcasts` | users, settings, Telegram |
| Schedules (`services/scheduler.py`, `worker.py`) | `scheduled_messages`, `scheduled_message_runs` | `/schedule`, `claim_due`, `scheduled_messages` | users, settings, Telegram |
| Daily reports (`services/reports.py`, `worker.py`) | `daily_reports` | `daily_reports`: one report a day, in the configured minute | settings, all tables read-only, Telegram |
| Grizzly client (`grizzly/client.py`) | none | requests, classification of answers | Grizzly |
| Access and join gate (`services/access.py`, `services/join_gate.py`) | none | decides whether a user may proceed | Telegram, settings |
| Pricing (`services/pricing.py`) | none | `selling_price` | countries |
| Administration (`admin/handlers.py`, `services/admin.py`) | users, admins, settings, maintenance, countries, payment methods, audit log | block, unblock, add and remove administrators, edit, insert and delete rows | read by purchases, payment requests, reports |
| Pages, announcements, support, registration | users and wallets at `/start` | reads, messages | - |

What is hard, and what must be true of each:

- **Wallets.** Python computes the new balance from a captured row, so only the lock discipline keeps an
  update from being lost. The ledger must explain the balance, row by row, and no balance may be negative.
- **Purchases and polling.** The reservation and the answer of Grizzly are two transactions with an HTTP
  call in between, whose outcome may stay unknown. A purchase may be cut off between them, its answer may
  come after the sweep gave the order up, two workers may apply the same answer. A price must be taken
  once and end as a code or as one full refund, nobody may be refunded while a number is live, no status
  may go back, a code is sent once, and orders must not be stuck. Purchases lock user, then wallet;
  refunds lock wallet, then user: deadlocks happen and must be survived.
- **Deposits.** Receipts are handled without any lock next to reviews and expiry. A user has one pending
  request, an approved deposit is credited exactly once, and one photo must not pay for two deposits. The code
  keeps the last two only while no receipt races (findings 1 and 2).
- **Broadcasts and schedules.** Claims, sends and results are separate steps of workers that stop.
  Nobody may get a message twice, what finished rows say must be true, and nothing may stay in the queue.
- **Grizzly's answers.** One client reads text, JSON, errors and silence. What it takes for an error is
  refunded, so nothing that may hide an allocated number may be taken for one.
- **Daily reports.** A pass every thirty seconds must hit one minute of the day, in a time zone, while
  workers lag, fail and race. One report per date, no day skipped, and nothing left out or counted twice
  beyond the width of that minute.
- **Administration.** Commands check, read and write in three steps without a lock, and customers'
  handlers read the same rows at different moments. The audit log must tell what happened, who was
  removed must stay out, and nobody may get past a gate that was never open.
- **Together.** Purchases, refunds and approvals lock user, wallet and deposit in different orders. The
  balance must be explained by both components, and nobody may wait for ever.

`PROJECT.json` lists the hazards with their lines and the properties that cover each.

## 2. The modules and the code

| module | models | how |
|---|---|---|
| `Accounts` | users, wallets, ledger, row locks, `change_balance`, balance confirmations, blocking | shared by `Orders` and `Deposits`, which extend it |
| `Orders` | `confirm_buy`, `create_order`, `refund_order`, `poll_orders`, Grizzly, ageing | one action per row lock, commit and HTTP call |
| `Grizzly` | how `GrizzlyClient.request` reads an answer, and what its two callers make of it | operators on the parts of an answer the client looks at; extended by `Orders` |
| `Escrow` | what a purchase promises its buyer | abstract specification, implemented by `Orders` (`KeepsPromise`) |
| `Deposits` | `create_deposit`, `payment_receipt`, reviews, `expire_deposits` | receipts read and write in separate steps, as they do |
| `Broadcasts` | `/broadcast`, `process_broadcasts` | claim, recipients, one send, result |
| `Schedules` | `/schedule`, `due`, `claim_due`, `scheduled_messages` | reading the clock is a step of its own |
| `Marketplace` | `Orders` and `Deposits` on the same users and wallets | two INSTANCEs that share the account tables, with the deadlocks across them |
| `Reports` | `daily_reports`, `snapshot`, `/setsetting` of its time and zone | ticks of thirty seconds, the pause of a pass |
| `Administration` | the commands that edit rows, `is_admin`, `audit`, `allowed`, `check_joined`, `/start` of a known user | a command is data (row, columns, mode, what its audit row tells); check, read and commit are its steps; the two chat ids of the join gate are read, and asked about, one after the other |
| `MC*` | the instances for TLC | |
| `Accounts_proofs`, `Orders_proofs`, `Deposits_proofs`, `Marketplace_proofs`, `Broadcasts_proofs`, `Schedules_proofs`, `Reports_proofs`, `Administration_proofs` | theorems | section 5 |

**Transactions.** A session is one transaction. Taking a row lock captures the row's columns; what is
written later is computed from the captured columns (`seen`, `buy[b].row`), not from the table. So a
model without the lock loses updates as the code would. A session's writes reach the tables at its
commit, in the action that commits; a rollback, a lost connection and a stopped process only release
the locks (`Abort*`). Inserting a ledger row needs the user row FOR KEY SHARE (its foreign key), which
waits while another session holds the user FOR UPDATE (`UserKeyFree`); this is where the deadlocks are.

**Handlers.** The local state of a handler is its program counter and the values it carries across an
`await`. One invocation creates at most one order or deposit, so invocations and rows are one set.
Actions follow the code in its order, early returns included: `TapBuy`, `TurnedAway` or `PassGates`,
`LockFunds`, `TooPoor` or `Reserve`, `Request`, then `RecordNumber`, `RecordUnknown` or
`OpenRefund`-`LockRefund`-`RefundReservation`. Refunds share `CommitRefund` with the worker.
There, membership and maintenance are a free choice to turn the user away, and blocking is modelled exactly,
because its race with the reservation is a property; `Administration` has all gates step by step.

**The worker.** `Snapshot` is the two queries of a pass, with their LIMIT. `AskStatus` is the unlocked check and the request,
`StillWaiting` the recheck under the lock, `Sweep*` the single transaction that marks unanswered orders.
A pass ends at any step (`AbortPoll`) and a restart is the next pass.

**Grizzly.** `Request` chooses what Grizzly did (no number, a number, or a number whose answer does not carry it: "stray")
and one of the replies `RepliesTo` derives from every answer that may then come back. `AnswersTo` does
the same for `getStatus`. Which forms Grizzly uses for a code and a cancellation is a constant (`CodeForms`,
`CancelForms`): the worker recognises a cancellation only as text, and the client no code in JSON that repeats the number.

**Commands.** `Administration` writes at a commit the columns that differ from the ones *read*, as the ORM
does, whatever the row holds by then. So of two commands that edit a column at once the audit log may tell
one story and the row another; `contested` remembers those columns (the whole row, when one of the two inserts or deletes it, because a
command that finds nothing to change is audited even if its row is gone) and the properties are about all others. An audit row names
its author, its row and its action, and stores some of the new values (`Entry`, `Tells`): a block its reason, a country its name and status, but not its
price (handlers.py:284); a new value that follows from the action, as of `/unblock`, counts as told. `/schedule`, `/announce` and `/start` write
none (`Unaudited`). So the log speaks only of the columns that every command writing them tells it about (`Audible`). Old values are
left out, because some commands store a fixed one (handlers.py:116). `/start` is open to everybody (`Public`).
Block and unblock are atomic in `Accounts`, where only `is_blocked` matters. `/setinfra` writes two audit rows in one
commit, which are one entry here.

**History.** Some variables are not in the code: they remember what a property speaks of. `contested` and `since` in `Administration`; in
`Deposits` the approvals of a deposit that a receipt has overwritten (`undone`), the photo an approval rests on (`restsOn`), and whether a proof
with the same photo was stored between a receipt's lookup and its insert (`unseen`). No guard reads them.

**Time.** `Age` is the ten minutes an unanswered order waits, `TimeUp` the twenty of a deposit. In
`Schedules`, ticks make minutes, a cron expression in its time zone is the set of minutes it names,
and a worker may use a reading of the clock that is old.

**Defects.** Each `Name_Variant` operator next to `Name` is the definition a plausible bug would leave
behind: a missing FOR UPDATE, a dropped recheck, a snapshot that is trusted. Specifications do not use
them; `PROJECT.json` pairs each with the property it breaks.

## 3. The runs

| run | instance | what it shows |
|---|---|---|
| `orders` | 2 purchases of one user at a price of 1 or 2, 2 workers, LIMIT 1, blocking, every form of answer | money follows orders, refunds are safe, totals and events are exact, codes are sent once, statuses never go back, `Escrow` is implemented |
| `orders_live` | 2 purchases, a wallet that pays for one, 1 worker, LIMIT 2, fairness | orders leave processing, codes arrive, numbers whose cancellation is text are refunded, purchases end despite deadlocks |
| `orders_json_cancel` | as `orders_live`, cancellations in JSON | **violated**: see finding 4 |
| `marketplace` | 1 purchase, 1 worker, 1 request, 1 overlapping receipt, 1 review, the expiry worker, fairness | the balance is explained by deposits and orders together; handlers end and nothing stays pending despite deadlocks across the components |
| `deposits` | 2 requests and 2 overlapping receipts of one user, 3 taps of reviewers, 1 deduction, the expiry worker | one pending request, approvals credit their amount in the same step, one credit per approval and no other, one photo for two approvals only if the receipts raced, only a stale receipt undoes a decision |
| `broadcasts` | 2 broadcasts, 2 workers, 2 users, 1 chat, fairness | at most one delivery, true counters, none left in the queue |
| `schedules` | 1 schedule with two occurrences, 1 that does not parse, 2 workers, fairness | one run per occurrence, true run rows, catching up |
| `administration` | 16 commands, any 2 of them, one removable administrator; 1 purchase or 1 payment request, 3 chats | the audit log replays to what it tells of the tables, removed administrators stay out, methods with deposits stay, the gates hold |
| `reports` | 2 workers, days of two minutes, a zone a minute ahead of UTC and one unknown, 1 change of the settings | one report per date, windows that meet within less than a minute, no day skipped |
| `deposits_stale_expiry` | as `deposits` | **violated**: see finding 1 |
| `deposits_shared_receipt` | two users, one photo | **violated**: see finding 2 |
| `schedules_lost` | 1 worker | **violated**: see finding 3 |

**Bounds.** Nothing is cut off inside a state machine: invocations are finite sets, each used once, so
every behaviour of an instance is explored whole. `Schedules` and `Reports` are bounded by `Horizon`, their last
tick, and by `TicksPerMinute`; `Reports` by `MaxEdits`; `Administration` by `MaxCommands` and `Focus`.
Two purchases of one user are the smallest instance in which wallet, user row and totals are contended,
and in which a sweep holds one order while it waits for another; purchases of different users share no
row. A third would only repeat a contention that the first two have. One unit of
money is enough to tell paid, refunded and refused apart. In `orders` the wallet holds 2 and a price is 1 or 2: both purchases
are in flight, or one is refused until the other is refunded. In `orders_live` it holds 1, so that the
second is always refused, or succeeds after a refund. Two workers are what every
recheck is for; purchases and workers are interchangeable in that safety run (SYMMETRY), never in a liveness run. LIMIT 1
with two orders makes the snapshot leave one out. Three taps let one deposit be approved twice and its
neighbour once. Two occurrences and two workers let a slow claim with an old clock meet a new one. Two
commands are what a race needs, and every pair of the sixteen is tried; from a customer's tap on (`Focus`, a state constraint of the instance), every pair of
the seven that change what the customer reads, with one customer's handler, because a second would wait for the user's row until the
first is over. Commands read nothing that customers write but the deposits, so that other pairs next to a customer repeat what is explored. A day of two minutes
has the minute of the report and one that is not; nine ticks are two days and their seam.
`marketplace` has no administrator's balance change, which `deposits` has; its term of `BalanceExplained` is zero there.
The theorems of section 5 remove the bounds from every safety property of these runs; liveness is checked on the instances only.

**Deadlock checking** is on wherever administrators, passes or users can always take a step, so
that a stop would be an error of the model. In `reports` it is off: behind the last tick the clock stands still.

**Fairness.** The event loop resumes every coroutine that can run, and the worker's loops are
`while True`: weak fairness for the steps of workers, and for the confirmations. A handler that waits
for a row is served although others keep locking it, because PostgreSQL queues waiters: strong fairness
for purchases, requests, reviews and the expiry pass. PostgreSQL finds deadlocks and aborts one member: weak fairness for
`DeadlockVictim`, which in `Marketplace` takes in the deadlocks across components: a review that waits for the
user a purchase holds, while the purchase waits for the wallet the review holds. Workers stop finitely often (`<>[][~WorkerFault]`): a worker that is restarted
for ever, before its pass ends, delivers nothing, and no code can help. No fairness is assumed for users,
administrators, Grizzly, or for the outcome of any request.
A purchase may be cut off at any step, in the liveness run too: `ProcessingEnds` is about that crash.
`CodeIsDelivered` uses a LIMIT that is not exceeded: the query has no ORDER BY, so with more than a
hundred waiting orders the database may return the same hundred in every pass. It leaves out the form of a code that the
client takes for a number, and `TextCancelIsRefunded` the form of a cancellation that the worker does not recognise; both say so in their formulas.
`NoDaySkipped` and `WindowsMeet` are invariants: `Reports` has a clock, and a worker that is prompt there needs
less than thirty seconds for a pass and its wake-up.

## 4. Findings

1. **A receipt undoes a decision** (`deposits_stale_expiry`). `payment_receipt` reads the deposit without a
   lock (payments.py:60) and, if it was pending and out of time, writes `expired` (payments.py:66) over an
   approval committed in between. The deposit can then be approved, and credited, again. The README counts
   the "Financial row-lock/idempotency paths" as reviewed (README.md:164). `OnlyStaleReceiptReopens` shows this is the only
   way a decision is undone, and `CreditsAreApprovals` that nothing else makes a deposit credited more than once.
2. **One photo, two deposits** (`deposits_shared_receipt`). The duplicate lookup (payments.py:69) and the
   insert (payments.py:73) are not atomic: two concurrent receipts do not see each other, and neither is
   flagged, against README.md:63. `SharedOnlyIfUnseen` shows that this race is the only way.
3. **A lost scheduled run** (`schedules_lost`). Claims are committed (worker.py:131) before their run rows
   (worker.py:137). A worker that stops in between leaves no trace of the run, and so does an insert of the
   run row that raises (worker.py:141), which the comment in scheduler.py:28 excludes.
4. **A cancellation in JSON is not refunded** (`orders_json_cancel`). `poll_orders` compares the raw body with `STATUS_CANCEL` and
   `NO_ACTIVATION` (worker.py:48), and the raw body of a JSON answer is the whole JSON text (client.py:55). The order waits for
   ever and its price is kept. The comment in client.py:34 says that deployments may answer with either. With text, `TextCancelIsRefunded` holds.

Plain in the code, without a run of its own: `/schedule` (handlers.py:89) and `/announce` (handlers.py:41) commit without a
call of `audit`, although README.md:36 says "All admin mutations are audited".

Met while modelling, and kept as hazards because nothing in the repository promises otherwise: a
broadcast whose worker stops stays in `sending`; one schedule that does not parse blocks all claims
(scheduler.py:40); a run whose recipients could not be read is recorded as completed (worker.py:174); a JSON answer that repeats the number hides its
code (client.py:46); a body that names no phone number counts as an error and is refunded (client.py:57), the one exception
in `RefundOnlyWithoutNumber`; two administrators who edit one column at once may leave an audit log that the row
contradicts (handlers.py:102); a pass that reads the report's time before and its zone after a change may report at a minute
nobody configured (worker.py:186).

## 5. What is proved

All theorems hold for arbitrary sets of users, purchases, requests, workers and confirmations, arbitrary prices in
Nat, arbitrary opening balances, any LIMIT, any cron expressions, any length of a day and any zones, one of them furthest ahead of UTC. They assume what each module assumes of its constants
(`AccountsAssumption`, `OrdersAssumption`, `DepositsAssumption`, `MarketplaceAssumption`, `BroadcastsAssumption`, `SchedulesAssumption`, `ReportsAssumption`,
`AdministrationAssumption`):
sessions of different kinds are different, in `Marketplace` those of orders and of deposits too, every purchase and request has an owner, `Free` and `NoRef` are nobody's
names, a command that inserts a row fills all its columns or names a row that is never missing, no command without an audit row deletes a row, the audit log tells every change of who is an active administrator, the forms of answers are forms, recipients are finite where they are counted. TLC evaluates each assumption in every
run of a module that extends it.

| theorem | statement |
|---|---|
| `AdjustmentsKeepTypes`, `AdjustmentsKeepLedger` (`Accounts_proofs`) | `AccountsSpec => []AccountsTypeOK`, `[]LedgerChain` |
| `BuyerIsNotMisled`, `WorkerIsNotMisled` (`Orders_proofs`) | what a reply tells about what Grizzly did, for every answer |
| `OrdersKeepTypes`, `OrdersKeepLedger` (`Orders_proofs`) | `Spec => []TypeOK`, `[]LedgerChain` |
| `OrdersKeepStatus`, `OrdersNotifyOnce`, `OrdersRefundSafely` (`Orders_proofs`) | `Spec => []StatusAgrees`, `[]NotifiedOnce`, `[]RefundOnlyWithoutNumber` |
| `OrdersFollowFlow`, `OrdersRefuseBlocked`, `OrdersLeaveReconciliation` (`Orders_proofs`) | `Spec => StatusFlow`, `BlockedNeverReserve`, `ReconciliationIsTheBuyers` |
| `OrdersMatchLedger`, `OrdersTellTheirStory` (`Orders_proofs`) | `Spec => []LedgerMatchesOrders`, `[]EventTrail` |
| `OrdersCountExactly` (`Orders_proofs`) | `Spec => []TotalsExact` |
| `OrdersKeepPromise` (`Orders_proofs`) | `Spec => KeepsPromise`: `Orders` implements `Escrow` |
| `DepositsKeepTypes`, `DepositsKeepLedger`, `DepositsOnePending` (`Deposits_proofs`) | `Spec => []TypeOK`, `[]LedgerChain`, `[]OnePending` |
| `DecisionsStand`, `ApprovalsCredit` (`Deposits_proofs`) | `Spec => OnlyStaleReceiptReopens`, `ApprovalCredits` |
| `DepositsCreditApprovals`, `PhotosSharedByRace` (`Deposits_proofs`) | `Spec => []CreditsAreApprovals`, `[]SharedOnlyIfUnseen` |
| `MarketplaceKeepsLedger`, `BooksBalance` (`Marketplace_proofs`) | `Spec => []LedgerChain`, `[]BalanceExplained`, for orders and deposits on the same wallets |
| `MarketplaceKeepsOrders`, `MarketplaceOnePending` (`Marketplace_proofs`) | `Spec => [](O!StatusAgrees /\ O!NotifiedOnce /\ O!RefundOnlyWithoutNumber)`, `[]D!OnePending`: what each component promises alone it keeps beside the other |
| `BroadcastsKeepTypes`, `BroadcastsTellOnce`, `BroadcastsCountTruly` (`Broadcasts_proofs`) | `Spec => []TypeOK`, `[]AtMostOnce`, `[]CountersAreTrue` |
| `SchedulesKeepTypes`, `SchedulesRunOnce`, `SchedulesTellTruly` (`Schedules_proofs`) | `Spec => []TypeOK`, `[]OncePerOccurrence`, `[]RunsAreTrue` |
| `ReportsKeepTypes`, `ReportsTellOnce` (`Reports_proofs`) | `Spec => []TypeOK`, `[]ReportedOnce` |
| `ReportsMeet`, `ReportsSkipNoDay` (`Reports_proofs`) | `Spec => []WindowsMeet`, `[]NoDaySkipped` |
| `AdministrationKeepsTypes`, `MethodsStay`, `GatesHold` (`Administration_proofs`) | `Spec => []TypeOK`, `[]LinkedMethodsStay`, `[]GatesHeld` |
| `AuditTellsTruly`, `RemovedStayOut` (`Administration_proofs`) | `Spec => []AuditReplays`, `[]RemovedStaysOut` |

**The argument for accounts.** `LedgerChain` is not inductive: a session that writes from an old reading
breaks it. `AccountsIInv` adds `LockedIsSeen` (whoever holds a wallet has captured its current balance) and
`WriterHoldsWallet`. `Accounts_proofs` states the steps of any transaction as lemmas
(`LockStep`, `RollbackStep`, `CommitStep`, `UserLockStep`), which the proofs about orders use as they are.

**The argument for orders** goes in two layers. Layer 1, `MoneyIInv`, says who holds which wallet and user row at
each program counter (`BuyersHoldWallets`, `PollersHoldWallets`, `BuyersHoldUsers`, `HandledIsOrder`); it
makes `CommitStep` applicable to each commit and is inductive by itself. Layer 2, `LifeIInv`, is inductive given layer 1. It says
what may still be assumed of an order that was read before: who holds the order row and what a sweep
has marked (`OrdersAreHeld`), what a purchase knows at each step (`BuyersKnow`), what a worker knows of the
order it handles, and that no two workers are about to notify the same buyer (`PollersKnow`), and how the
columns fit together (`RowsAgree`, `StatusAgrees`). Without it a late answer
could meet an order in any status. That a reply says something about Grizzly at all is what `RepliesTell` and
`AnswersTell` give: an error that is refunded is never read from silence or a server error.
Before they were proved, TLC checked both invariants on the instance of `orders`.

**The argument for steps.** Three lemmas say what a step can write: a reservation (`ReserveWrites`), a
refund (`RefundWrites`) and everything else (`MoneylessWrites`). The action properties and the step
simulation of `Escrow` (`ReserveOpens`, `RefundReturns`, `MoneylessKeeps`, `AdministrateAdjusts`) follow from them.
The refinement mapping reads the deal off the status (`DealOf`), the stake off the price, the funds off
the balance. The same lemmas say which ledger rows and which event a step appends. So `LedgerMatchesOrders` is a third
layer: a row appended for an order and a type makes their rows one more and leaves the rows of all others as they were
(`BooksOnce`, `SameRowsMatch`), and `StatusAgrees` of layer 2 says that there was none before. `EventTrail` follows the
`RefundWrites` and `Moves` of each order in the same way (`SetAsideStory`, `ToldKept`).

**The argument for sums.** `TotalsExact` and `BalanceExplained` add up prices and ledger rows over sets (`SumFunctionOnSet`), a recursive
function over the subsets of a set, chosen by its equation. `Accounts_proofs` proves that for a finite set there is such a function
(`SumsExist`), that the order in which elements are taken is free (`SumElement`), and so what is needed: `SumSame`, `SumIsInt`, and `SumAdds`, that one more
element adds its value. The induction is over the size of the set, with `AllNaturals`, which says of a *set* of numbers what the library's theorem
says of a predicate, and rests on the library's facts about well-founded relations. `TotalsExact` then needs that
the user's row a purchase has captured is the stored one when it writes (`RowIsCurrent`), whatever others reserve meanwhile.

**The argument for deposits.** `OnePending` is not inductive: between the check and the insert of `create_deposit`
anybody could file. `DepositsIInv` says why nobody does (`FilersAreAlone`: who has checked holds the user's row), what an
approval holds (`ReviewersHoldDeposits`, `ReviewersHoldWallets`), that a marked deposit stays out of time while the
expiry pass holds it (`ExpirersHoldDeposits`), and that a receipt works on a deposit that was filed (`ReceiptsAreFiled`). It
claims nothing of the receipt that locks nothing, so the theorems hold with overlapping receipts too. `DepositChanges` lists
how a row may change in a step; both action properties follow, with `ApprovalCreditsOnce` and `OthersCreditNothing` for the ledger.
`CreditedOnce` and `NoSharedReceipt` fail when receipts race (findings 1 and 2). What is left of them whatever races is proved:
`CreditsAreApprovals` with `UnfiledAreNew`, that a request not yet filed has no past approvals (`CreditsIInv`), because a status that leaves
"approved" is one more overwritten approval and one that enters it is one more credit (`CreditsFollow`). For `SharedOnlyIfUnseen`, `ApartIInv` says that
the proof a lookup has found carries the receipt's photo (`EarlierIsSame`), that of two proofs with one photo each is flagged, or one of them escaped the
lookup (`SamePhotosAreFlagged`), and that an approval under way or granted rests on a photo that was sent for
its deposit and that no other approval rests on, unless it escaped (`ClaimsAreProved`, `ClaimsAreApart`): the proof of the other deposit would be flagged.

**The argument for the composition.** The invariants of `Orders` and `Deposits` speak of who holds which row. So each proof module has a
section on the other component: its steps give back and take no lock of a session that is not its own (`KeepsLocks`,
`OrdersKeepLocks`, `DepositsKeepLocks`) and keep `AccountsIInv`, and such steps of others keep its invariant (`OthersKeepMoney`, `OthersKeepDeposits`).
`ComponentsAlways` puts both together; it needs that sessions of different components are different (`MarketplaceAssumption`).
Then every step pays one user once or nobody (`OrdersPay`, `DepositsPay`), and each payment is one term of `BalanceExplained`: a
reservation in `total_spending`, a refund in `RefundedTo`, an approval in `total_deposits`, an administrator's in `ManualChange`
(`OrderingExplained`, `DepositingExplained`). No restriction on receipts is needed: an approval that a stale receipt makes
possible twice is counted twice on both sides.

**The argument for broadcasts.** A message that is being sent has at most one worker (`ClaimsAreExclusive`), whoever is left
in its list has not got it (`LeftAreUntold`), and its counts bound the set of those who were reached (`WorkIsCounted`).

**The argument for schedules.** `last_run_at` orders everything: whatever has a run or a claim is older than it (`Taken`), what
a worker is about to claim it holds, so that it is still due (`ClaimersHoldJobs`), and what is due is newer (`DueIsNew`, from
the arithmetic of minutes). So claims never meet a run of their occurrence (`ClaimsAreNew`): the unique constraint
refuses nobody, and `DropClaim` stands for the other reasons an insert raises. A delivering worker is alone (`SendersAreAlone`). The counts are a second layer (`CountsIInv`).

**The argument for reports.** `StoreIInv` says that whoever goes on past the check is in the minute it read (`RightMinute`),
that what is stored under a date was counted on that date, in the minute its own settings name (`ReportsAreDated`), and
that two workers past the insert have different dates (`SendersStored`: the unique date lets one through). `ReportedOnce` is
one of its parts, and `WindowsMeet` follows from it by the arithmetic of dates and minutes: two counts a day apart differ by where in their minute they were made. `NoDaySkipped` needs `PromptIInv`:
a prompt worker looked at the clock at most two ticks ago (`LastLook`), what it read is the present setting if that has not changed since
(`PromptReads`), and each minute that it has looked into since the last change is reported, or it is at it (`MinutesServed`).

**The argument for administration.** `TablesIInv` says that every row has the columns of its table, that rows nobody deletes
stay, and that only deletes search for deposits; the foreign key, checked by the commit, does the rest. `GatesHeld` follows from `GatesIInv`, which
says for each place in a customer's handler what has held since the tap (`Seen`), the chat ids it carries included: every step of anybody adds to that memory and
takes nothing away (`Remembered`), so only the customer's own steps matter.
`AuditReplays` replays the log with a recursive function, `Told`. That it is well defined, that it depends on the entries it has read only, and that one more
entry has its `Effect` is `TablesExist`, `ToldSame` and `ToldNext`, by induction over Nat as for the sums. `StoryIInv` then needs no induction over the log: what
a command has read of the columns it writes is still so, unless somebody else edited them (`ReadIsCurrent`), because whoever edits a
row at the same time is known as a rival when the later of the two reads (`RivalsContest`); so a commit and its audit row have the
same effect on the columns the row tells (`EntryIs`, `CommitWrites`, `CommitKeepsStory`). `RemovedStaysOut` follows: at the check, the row that makes
somebody an administrator is what the log tells (`AuthorsEnter`), and of a moment that is past the log tells the same for ever (`AuthorsStay`).
The proof found what two commands at a time cannot show: a third one, that finds nothing to change in a row deleted since it was read, is audited, and
the replayed row comes back to life. Deletes and inserts therefore contest the whole row.

All these invariants were checked by TLC on the instances of section 3 before they were proved.

**Only model-checked:** liveness under fairness (`orders_live`, `marketplace`, `broadcasts`, `schedules`), which the prover does not handle. Every
invariant and every action property of a passing run is stated by a theorem above.

## 6. What is not modelled

- Message texts, formatting, keyboards, media types, pagination, logging, the parsing of commands: no property is
  about them.
- The decimal rounding of `selling_price`: `Orders` takes the price from a set. The counts of a daily report: of
  them, the window they cover.
- `raw_cost` and `profit`, which are only displayed and reported.
- The first `/start` of a user, a race that ends in a unique constraint: users and wallets exist from the start.
  Migrations and seeds run before any handler.
- Announcements, which insert a row that no handler reads for a decision. Like `/schedule`, `/announce` has no audit row (section 4).
- `broadcasts.total`, which is only displayed. `order_id` collisions. Changes of the clock by daylight
  saving.
- `expire_deposit` of `services/deposits.py`, which only tests call. `/deposit approve` and `reject` in
  `handlers.py` make the same calls in the same order as the buttons, which `Deposits` models.

## 7. The plan

Done in this order: `Accounts`, `Orders` with `Escrow`, `Deposits`, `Broadcasts`, `Schedules`, the proofs of
accounts and orders, `Reports`, `Administration`, `Grizzly`, `Marketplace`, the proofs of deposits, broadcasts and
schedules, the third layer of orders, the proofs of reports and of administration, the sums of `Orders`, `Marketplace`, and the audit log. What is left, most important first:

1. `Pricing`: the rounding of `selling_price`, as an operator on units of money, with lemmas on what rounding may add or lose.
2. Registration: the race of two first `/start`s of a user, with the unique constraint.
3. `Escrow` for deposits: what a payment request promises, implemented by `Deposits` with approvals that a stale receipt may reopen.
