------------------------------- MODULE Orders -------------------------------
(***************************************************************************)
(* Buying a number: confirm_buy (app/bot/handlers/orders.py) reserves the  *)
(* price and creates an order in one transaction, asks Grizzly for a       *)
(* number outside any transaction, and records the answer in a second one. *)
(* Workers (poll_orders in app/worker.py) poll Grizzly for the code of     *)
(* every order that waits for one and sweep orders whose answer never came *)
(* into manual reconciliation.  Buyers, workers and administrators         *)
(* interleave at every row lock, every commit and every HTTP call, and any *)
(* of them may be cut off in the middle of a transaction.                  *)
(*                                                                         *)
(* An invocation of confirm_buy creates at most one order, so invocations  *)
(* and the orders they create are the same set, Purchases.                 *)
(***************************************************************************)
EXTENDS Accounts, Grizzly, FiniteSetsExt

CONSTANTS
  Purchases,    \* invocations of confirm_buy, and the orders they create
  Pollers,      \* running instances of poll_orders
  Owner,        \* the user who tapped the button of each invocation
  Prices,       \* selling prices a country may have
  PollLimit,    \* .limit(100) of the two snapshot queries
  CodeForms,    \* how Grizzly reports a code, and a cancelled activation
  CancelForms

ASSUME OrdersAssumption ==
  /\ Purchases \subseteq Sessions /\ Pollers \subseteq Sessions
  /\ Purchases \intersect Pollers = {}
  /\ Purchases \intersect Adjusts = {}
  /\ Pollers \intersect Adjusts = {}
  /\ Purchases \subseteq Refs /\ NoRef \notin Refs
  /\ Owner \in [Purchases -> Users]
  /\ Prices \subseteq Nat
  /\ PollLimit \in Nat \ {0}
  /\ CodeForms \subseteq Forms /\ CancelForms \subseteq Forms

VARIABLES
  order,        \* rows of orders, with their events and grizzly_activations
  orderLock,    \* who holds the order row FOR UPDATE
  totals,       \* users.total_orders and users.total_spending
  buy,          \* local state of each confirm_buy
  poll,         \* local state of each poll_orders
  upstream,     \* what Grizzly holds for the order
  notified      \* how many times the buyer was sent the code

orderVars == <<order, orderLock, totals, buy, poll, upstream, notified>>
vars == <<accountVars, orderVars>>

Statuses == {"none", "processing", "manual_reconciliation", "waiting_for_otp",
             "completed", "refunded"}

\* "none": no number was allocated; "stray": one was, but the answer that said
\* so did not carry it.
Holdings == {"none", "stray", "active", "code", "cancelled"}

OrderRow ==
  [status     : Statuses,                \* "none": there is no row yet
   refunded   : BOOLEAN,
   activation : BOOLEAN,                 \* activation_id IS NOT NULL
   price      : Nat,                     \* selling_price
   aged       : BOOLEAN,                 \* created_at is ten minutes ago
   events     : Seq({"created", "manual_reconciliation", "refunded"}),
   last       : Answers \union {"none"}] \* grizzly_activations.last_status

Totals == [orders : Nat, spending : Nat]

BuyState ==
  [pc    : {"idle", "gates", "wallet", "reserve", "request", "reply",
            "refund", "credit", "done"},
   price : Nat,
   row   : Totals,                       \* the user row captured at its lock
   reply : Replies \union {"none"}]

PollState ==
  [pc     : {"sleep", "pass", "apply", "wallet", "credit", "notify"},
   todo   : SUBSET Purchases,            \* ids still to poll
   stale  : SUBSET Purchases,            \* processing_ids still to lock
   marked : SUBSET Purchases,            \* locked and found still processing
   cur    : Purchases \union {NoRef},
   answer : Answers \union {"none"}]

NoTotals == [orders |-> 0, spending |-> 0]
NewRow == [status |-> "none", refunded |-> FALSE, activation |-> FALSE, price |-> 0,
           aged |-> FALSE, events |-> <<>>, last |-> "none"]
NewBuy == [pc |-> "idle", price |-> 0, row |-> NoTotals, reply |-> "none"]
Asleep == [pc |-> "sleep", todo |-> {}, stale |-> {}, marked |-> {},
           cur |-> NoRef, answer |-> "none"]

Waiting(o) == order[o].status = "waiting_for_otp" /\ order[o].activation
Unanswered(o) == order[o].status = "processing" /\ ~order[o].activation

GotoBuy(b, pc) == buy' = [buy EXCEPT ![b].pc = pc]
EndBuy(b) == buy' = [buy EXCEPT ![b] = [NewBuy EXCEPT !.pc = "done"]]

\* The poller is done with the order it was handling.
NextOrder(s) ==
  poll' = [poll EXCEPT ![s] = [@ EXCEPT !.pc = "pass", !.cur = NoRef, !.answer = "none",
                                        !.todo = poll[s].todo \ {poll[s].cur}]]

ReleaseAll(s) == Release(s) /\ orderLock' = Unlocked(orderLock, s)

-----------------------------------------------------------------------------
(* refund_order, called with the order row of the caller's transaction.    *)

LockOrder(s, o) == orderLock[o] = Free /\ orderLock' = [orderLock EXCEPT ![o] = s]

\* A defect: the refunded column is not set.
CommitRefund_Unmarked(s, o, last) ==
  /\ ChangeBalance(s, Owner[o], "refund", order[o].price, o)
  /\ order' = [order EXCEPT ![o] =
       [@ EXCEPT !.status = "refunded", !.events = Append(order[o].events, "refunded"),
                 !.last = last]]
  /\ ReleaseAll(s)

\* The credit, the row and the event, published by the caller's commit.
CommitRefund(s, o, last) ==
  /\ ChangeBalance(s, Owner[o], "refund", order[o].price, o)
  /\ order' = [order EXCEPT ![o] =
       [@ EXCEPT !.refunded = TRUE, !.status = "refunded",
                 !.events = Append(order[o].events, "refunded"),
                 !.last = last]]
  /\ ReleaseAll(s)

-----------------------------------------------------------------------------
(* confirm_buy.                                                            *)

\* A defect: the user row is read without FOR UPDATE.
TapBuy_PlainSelect(b) ==
  /\ buy[b].pc = "idle"
  /\ buy' = [buy EXCEPT ![b] = [@ EXCEPT !.pc = "gates", !.row = totals[Owner[b]]]]
  /\ UNCHANGED <<accountVars, order, orderLock, totals, poll, upstream, notified>>

\* The user row is locked first, and its columns captured.
TapBuy(b) ==
  /\ buy[b].pc = "idle"
  /\ userLock[Owner[b]] = Free
  /\ userLock' = [userLock EXCEPT ![Owner[b]] = b]
  /\ buy' = [buy EXCEPT ![b] = [@ EXCEPT !.pc = "gates", !.row = totals[Owner[b]]]]
  /\ UNCHANGED <<balance, ledger, blocked, walletLock, seen, adjust,
                 order, orderLock, totals, poll, upstream, notified>>

\* Blocked, not a member of the group and channel, maintenance, country
\* disabled or without a price.
TurnedAway(b) ==
  /\ buy[b].pc = "gates"
  /\ Release(b)
  /\ EndBuy(b)
  /\ UNCHANGED <<balance, ledger, blocked, adjust,
                 order, orderLock, totals, poll, upstream, notified>>

PassGates(b) ==
  /\ buy[b].pc = "gates"
  /\ ~blocked[Owner[b]]
  /\ \E price \in Prices :
       buy' = [buy EXCEPT ![b] = [@ EXCEPT !.pc = "wallet", !.price = price]]
  /\ UNCHANGED <<accountVars, order, orderLock, totals, poll, upstream, notified>>

LockFunds(b) ==
  /\ buy[b].pc = "wallet"
  /\ LockWallet(b, Owner[b])
  /\ GotoBuy(b, "reserve")
  /\ UNCHANGED <<balance, ledger, blocked, userLock, adjust,
                 order, orderLock, totals, poll, upstream, notified>>

TooPoor(b) ==
  /\ buy[b].pc = "reserve"
  /\ seen[b] < buy[b].price
  /\ Release(b)
  /\ EndBuy(b)
  /\ UNCHANGED <<balance, ledger, blocked, adjust,
                 order, orderLock, totals, poll, upstream, notified>>

\* create_order and the commit of the reservation.
Reserve(b) ==
  /\ buy[b].pc = "reserve"
  /\ ChangeBalance(b, Owner[b], "otp_purchase", -buy[b].price, b)
  /\ order' = [order EXCEPT ![b] =
       [@ EXCEPT !.status = "processing", !.price = buy[b].price,
                 !.events = <<"created">>]]
  /\ totals' = [totals EXCEPT ![Owner[b]] =
       [orders |-> buy[b].row.orders + 1,
        spending |-> buy[b].row.spending + buy[b].price]]
  /\ Release(b)
  /\ GotoBuy(b, "request")
  /\ UNCHANGED <<blocked, adjust, orderLock, poll, upstream, notified>>

\* How confirm_buy may read the answer when Grizzly did what got says.
RepliesTo == [got \in {"none", "active", "stray"} |->
                {BuyerReads(a) : a \in NumberAnswers(got)}]

\* get_number, with no transaction open: Grizzly allocates a number or not, and
\* the answer comes back, is lost or cannot be read.
Request(b) ==
  /\ buy[b].pc = "request"
  /\ \E got \in {"none", "active", "stray"} : \E reply \in RepliesTo[got] :
       /\ upstream' = [upstream EXCEPT ![b] = got]
       /\ buy' = [buy EXCEPT ![b] = [@ EXCEPT !.pc = "reply", !.reply = reply]]
  /\ UNCHANGED <<accountVars, order, orderLock, totals, poll, notified>>

\* A defect: the status is not checked before it is overwritten.
RecordUnknown_Unchecked(b) ==
  /\ buy[b].pc = "reply" /\ buy[b].reply = "unknown"
  /\ orderLock[b] = Free
  /\ order' = [order EXCEPT ![b] =
       [@ EXCEPT !.status = "manual_reconciliation",
                 !.events = Append(order[b].events, "manual_reconciliation")]]
  /\ EndBuy(b)
  /\ UNCHANGED <<accountVars, orderLock, totals, poll, upstream, notified>>

\* GrizzlyTransportError: the order is set aside, unless the sweep was faster.
RecordUnknown(b) ==
  /\ buy[b].pc = "reply" /\ buy[b].reply = "unknown"
  /\ orderLock[b] = Free
  /\ order' = IF order[b].status = "processing"
              THEN [order EXCEPT ![b] =
                     [@ EXCEPT !.status = "manual_reconciliation",
                               !.events = Append(order[b].events, "manual_reconciliation")]]
              ELSE order
  /\ EndBuy(b)
  /\ UNCHANGED <<accountVars, orderLock, totals, poll, upstream, notified>>

\* The number is written whatever the status has become meanwhile.
RecordNumber(b) ==
  /\ buy[b].pc = "reply" /\ buy[b].reply = "ok"
  /\ orderLock[b] = Free
  /\ order' = [order EXCEPT ![b] =
       [@ EXCEPT !.status = "waiting_for_otp", !.activation = TRUE]]
  /\ EndBuy(b)
  /\ UNCHANGED <<accountVars, orderLock, totals, poll, upstream, notified>>

\* An ok without a number: KeyError, and the transaction is rolled back.
NumberMissing(b) ==
  /\ buy[b].pc = "reply" /\ buy[b].reply = "keyless"
  /\ orderLock[b] = Free
  /\ EndBuy(b)
  /\ UNCHANGED <<accountVars, order, orderLock, totals, poll, upstream, notified>>

\* refund_order: the order is locked and, unless refunded, so is the wallet.
OpenRefund(b) ==
  /\ buy[b].pc = "reply" /\ buy[b].reply = "error"
  /\ ~order[b].refunded
  /\ LockOrder(b, b)
  /\ GotoBuy(b, "refund")
  /\ UNCHANGED <<accountVars, order, totals, poll, upstream, notified>>

LockRefund(b) ==
  /\ buy[b].pc = "refund"
  /\ LockWallet(b, Owner[b])
  /\ GotoBuy(b, "credit")
  /\ UNCHANGED <<balance, ledger, blocked, userLock, adjust,
                 order, orderLock, totals, poll, upstream, notified>>

RefundReservation(b) ==
  /\ buy[b].pc = "credit"
  /\ CommitRefund(b, b, order[b].last)
  /\ EndBuy(b)
  /\ UNCHANGED <<blocked, adjust, totals, poll, upstream, notified>>

\* The bot stops, the database connection is lost, or PostgreSQL chooses the
\* transaction as a deadlock victim: nothing resumes the handler.
AbortBuy(b) ==
  /\ buy[b].pc \notin {"idle", "done"}
  /\ ReleaseAll(b)
  /\ EndBuy(b)
  /\ UNCHANGED <<balance, ledger, blocked, adjust,
                 order, totals, poll, upstream, notified>>

-----------------------------------------------------------------------------
(* poll_orders.                                                            *)

\* Rows a query without ORDER BY and with LIMIT may return.
Limited(ids) == IF Cardinality(ids) <= PollLimit THEN {ids} ELSE kSubset(PollLimit, ids)

\* A defect: the query for unanswered orders is missing.
Snapshot_NoStale(s) ==
  /\ poll[s].pc = "sleep"
  /\ \E todo \in Limited({o \in Purchases : Waiting(o)}) :
       poll' = [poll EXCEPT ![s] = [@ EXCEPT !.pc = "pass", !.todo = todo]]
  /\ UNCHANGED <<accountVars, order, orderLock, totals, buy, upstream, notified>>

Snapshot(s) ==
  /\ poll[s].pc = "sleep"
  /\ \E todo \in Limited({o \in Purchases : Waiting(o)}),
        stale \in Limited({o \in Purchases : Unanswered(o) /\ order[o].aged}) :
       poll' = [poll EXCEPT ![s] =
         [@ EXCEPT !.pc = "pass", !.todo = todo, !.stale = stale]]
  /\ UNCHANGED <<accountVars, order, orderLock, totals, buy, upstream, notified>>

\* How the worker may read what Grizzly says of a number.
AnswersTo ==
  [held \in Holdings |->
     {WorkerReads(a) : a \in CASE held = "code" -> CodeAnswers(CodeForms)
                             [] held = "cancelled" -> CancelAnswers(CancelForms)
                             [] OTHER -> {}}
     \union (IF held \in {"code", "cancelled"} THEN {} ELSE {"other"})]

\* The unlocked check and the HTTP call, with no lock held.
AskStatus(s) ==
  /\ poll[s].pc = "pass"
  /\ \E o \in poll[s].todo :
       /\ Waiting(o)
       /\ \E answer \in AnswersTo[upstream[o]] :
            poll' = [poll EXCEPT ![s] =
              [@ EXCEPT !.pc = "apply", !.cur = o, !.answer = answer]]
  /\ UNCHANGED <<accountVars, order, orderLock, totals, buy, upstream, notified>>

\* The order was settled since the snapshot.
SkipSettled(s) ==
  /\ poll[s].pc = "pass"
  /\ \E o \in poll[s].todo :
       /\ ~Waiting(o)
       /\ poll' = [poll EXCEPT ![s] = [@ EXCEPT !.todo = poll[s].todo \ {o}]]
  /\ UNCHANGED <<accountVars, order, orderLock, totals, buy, upstream, notified>>

\* get_status raised: the next pass asks again.
StatusUnavailable(s) ==
  /\ poll[s].pc = "pass"
  /\ \E o \in poll[s].todo :
       /\ Waiting(o)
       /\ poll' = [poll EXCEPT ![s] = [@ EXCEPT !.todo = poll[s].todo \ {o}]]
  /\ UNCHANGED <<accountVars, order, orderLock, totals, buy, upstream, notified>>

\* The recheck under the row lock failed: another worker settled the order.
DropAnswer(s) ==
  /\ poll[s].pc = "apply"
  /\ orderLock[poll[s].cur] = Free
  /\ order[poll[s].cur].status # "waiting_for_otp"
  /\ NextOrder(s)
  /\ UNCHANGED <<accountVars, order, orderLock, totals, buy, upstream, notified>>

\* A defect: the answer is applied without a recheck.
StillWaiting_Unchecked(s) == poll[s].pc = "apply" /\ orderLock[poll[s].cur] = Free

\* The recheck the answers are applied under.
StillWaiting(s) ==
  /\ poll[s].pc = "apply"
  /\ orderLock[poll[s].cur] = Free
  /\ order[poll[s].cur].status = "waiting_for_otp"

ApplyOther(s) ==
  /\ StillWaiting(s) /\ poll[s].answer = "other"
  /\ order' = [order EXCEPT ![poll[s].cur] = [@ EXCEPT !.last = "other"]]
  /\ NextOrder(s)
  /\ UNCHANGED <<accountVars, orderLock, totals, buy, upstream, notified>>

ApplyOtp(s) ==
  /\ StillWaiting(s) /\ poll[s].answer = "otp"
  /\ order' = [order EXCEPT ![poll[s].cur] =
       [@ EXCEPT !.last = "otp", !.status = "completed"]]
  /\ poll' = [poll EXCEPT ![s] = [@ EXCEPT !.pc = "notify"]]
  /\ UNCHANGED <<accountVars, orderLock, totals, buy, upstream, notified>>

\* bot.send_message after the commit; its failures are swallowed.
Notify(s) ==
  /\ poll[s].pc = "notify"
  /\ \E sent \in {0, 1} : notified' = [notified EXCEPT ![poll[s].cur] = @ + sent]
  /\ NextOrder(s)
  /\ UNCHANGED <<accountVars, order, orderLock, totals, buy, upstream>>

ApplyCancel(s) ==
  /\ StillWaiting(s) /\ poll[s].answer = "cancel"
  /\ ~order[poll[s].cur].refunded
  /\ LockOrder(s, poll[s].cur)
  /\ poll' = [poll EXCEPT ![s] = [@ EXCEPT !.pc = "wallet"]]
  /\ UNCHANGED <<accountVars, order, totals, buy, upstream, notified>>

PollLockWallet(s) ==
  /\ poll[s].pc = "wallet"
  /\ LockWallet(s, Owner[poll[s].cur])
  /\ poll' = [poll EXCEPT ![s] = [@ EXCEPT !.pc = "credit"]]
  /\ UNCHANGED <<balance, ledger, blocked, userLock, adjust,
                 order, orderLock, totals, buy, upstream, notified>>

RefundCancelled(s) ==
  /\ poll[s].pc = "credit"
  /\ CommitRefund(s, poll[s].cur, "cancel")
  /\ NextOrder(s)
  /\ UNCHANGED <<blocked, adjust, totals, buy, upstream, notified>>

\* A defect: the sweep trusts its snapshot.
SweepLock_Unchecked(s) ==
  /\ poll[s].pc = "pass" /\ poll[s].todo = {}
  /\ \E o \in poll[s].stale :
       /\ LockOrder(s, o)
       /\ poll' = [poll EXCEPT ![s] =
            [@ EXCEPT !.stale = poll[s].stale \ {o}, !.marked = poll[s].marked \union {o}]]
  /\ UNCHANGED <<accountVars, order, totals, buy, upstream, notified>>

\* The sweep: one transaction locks and rechecks the stale orders one by one.
SweepLock(s) ==
  /\ poll[s].pc = "pass" /\ poll[s].todo = {}
  /\ \E o \in poll[s].stale :
       /\ LockOrder(s, o)
       /\ poll' = [poll EXCEPT ![s] =
            [@ EXCEPT !.stale = poll[s].stale \ {o},
                      !.marked = IF Unanswered(o) THEN poll[s].marked \union {o}
                                   ELSE poll[s].marked]]
  /\ UNCHANGED <<accountVars, order, totals, buy, upstream, notified>>

SweepCommit(s) ==
  /\ poll[s].pc = "pass" /\ poll[s].todo = {} /\ poll[s].stale = {}
  /\ order' = [o \in Purchases |->
       IF o \in poll[s].marked
       THEN [order[o] EXCEPT !.status = "manual_reconciliation",
                             !.events = Append(order[o].events, "manual_reconciliation")]
       ELSE order[o]]
  /\ orderLock' = Unlocked(orderLock, s)
  /\ poll' = [poll EXCEPT ![s] = Asleep]
  /\ UNCHANGED <<accountVars, totals, buy, upstream, notified>>

\* The worker stops, or an exception ends the pass: a new pass starts over.
AbortPoll(s) ==
  /\ poll[s].pc # "sleep"
  /\ ReleaseAll(s)
  /\ poll' = [poll EXCEPT ![s] = Asleep]
  /\ UNCHANGED <<balance, ledger, blocked, adjust,
                 order, totals, buy, upstream, notified>>

-----------------------------------------------------------------------------
(* Administrators, Grizzly and the clock.                                  *)

Administrate ==
  /\ AccountsNext
  /\ UNCHANGED orderVars

CodeArrives(o) ==
  /\ upstream[o] = "active"
  /\ upstream' = [upstream EXCEPT ![o] = "code"]
  /\ UNCHANGED <<accountVars, order, orderLock, totals, buy, poll, notified>>

ActivationCancelled(o) ==
  /\ upstream[o] = "active"
  /\ upstream' = [upstream EXCEPT ![o] = "cancelled"]
  /\ UNCHANGED <<accountVars, order, orderLock, totals, buy, poll, notified>>

\* Ten minutes pass; the age matters to no status but processing.
Age(o) ==
  /\ order[o].status = "processing" /\ ~order[o].aged
  /\ order' = [order EXCEPT ![o] = [@ EXCEPT !.aged = TRUE]]
  /\ UNCHANGED <<accountVars, orderLock, totals, buy, poll, upstream, notified>>

-----------------------------------------------------------------------------
Init ==
  /\ AccountsInit
  /\ order = [o \in Purchases |-> NewRow]
  /\ orderLock = [o \in Purchases |-> Free]
  /\ totals = [u \in Users |-> NoTotals]
  /\ buy = [b \in Purchases |-> NewBuy]
  /\ poll = [s \in Pollers |-> Asleep]
  /\ upstream = [o \in Purchases |-> "none"]
  /\ notified = [o \in Purchases |-> 0]

BuyNext(b) ==
  \/ TurnedAway(b) \/ PassGates(b) \/ LockFunds(b) \/ TooPoor(b)
  \/ Reserve(b) \/ Request(b) \/ RecordUnknown(b) \/ RecordNumber(b)
  \/ NumberMissing(b) \/ OpenRefund(b) \/ LockRefund(b) \/ RefundReservation(b)

PollNext(s) ==
  \/ Snapshot(s) \/ AskStatus(s) \/ SkipSettled(s) \/ DropAnswer(s)
  \/ ApplyOther(s) \/ ApplyOtp(s) \/ Notify(s)
  \/ ApplyCancel(s) \/ PollLockWallet(s) \/ RefundCancelled(s)
  \/ SweepLock(s) \/ SweepCommit(s)

World(o) == CodeArrives(o) \/ ActivationCancelled(o) \/ Age(o)

Next ==
  \/ \E b \in Purchases : TapBuy(b) \/ BuyNext(b) \/ AbortBuy(b)
  \/ \E s \in Pollers : PollNext(s) \/ StatusUnavailable(s) \/ AbortPoll(s)
  \/ \E o \in Purchases : World(o)
  \/ Administrate

Spec == Init /\ [][Next]_vars

\* Session s waits for a row that session t has locked.
WaitsFor(s, t) ==
  \/ /\ s \in Purchases
     /\ \/ buy[s].pc \in {"wallet", "refund"} /\ walletLock[Owner[s]] = t
        \/ buy[s].pc = "credit" /\ userLock[Owner[s]] = t
  \/ /\ s \in Pollers
     /\ \/ poll[s].pc = "wallet" /\ walletLock[Owner[poll[s].cur]] = t
        \/ poll[s].pc = "credit" /\ userLock[Owner[poll[s].cur]] = t
        \/ /\ poll[s].pc = "pass" /\ poll[s].todo = {} /\ poll[s].stale # {}
           /\ \A o \in poll[s].stale : orderLock[o] = t
  \/ s \in Adjusts /\ adjust[s] = "write" /\ userLock[AdjustUser[s]] = t

Deadlocked(s) == \E t \in Sessions \ {s} : WaitsFor(s, t) /\ WaitsFor(t, s)

\* A defect: deadlock detection is switched off.
DeadlockVictim_Never == FALSE

\* PostgreSQL ends a deadlock by aborting one of the sessions in it.
DeadlockVictim ==
  \/ \E b \in Purchases : Deadlocked(b) /\ AbortBuy(b)
  \/ \E s \in Pollers : Deadlocked(s) /\ AbortPoll(s)
  \/ \E a \in Adjusts : Deadlocked(a) /\ AdjustAbort(a) /\ UNCHANGED orderVars

\* A pass of a worker that ends, or skips an order, for no reason of its own.
\* A pass that ends with nothing left to do is no fault.
WorkerFault(s) ==
  \/ StatusUnavailable(s)
  \/ AbortPoll(s) /\ ~Deadlocked(s) /\ ~SweepCommit(s)

\* The event loop keeps running the handlers that started and the workers'
\* endless loops.  A handler that waits for a row is served although the row
\* is locked again and again, since PostgreSQL queues the waiters (SF).  Time
\* passes, deadlocks are broken, and workers' faults cease one day.
Fairness ==
  /\ \A b \in Purchases : SF_vars(BuyNext(b))
  /\ \A s \in Pollers : WF_vars(PollNext(s))
  /\ \A a \in Adjusts :
       WF_vars((AdjustCommit(a) \/ AdjustRefused(a)) /\ UNCHANGED orderVars)
  /\ \A o \in Purchases : WF_vars(Age(o))
  /\ WF_vars(DeadlockVictim)
  /\ \A s \in Pollers : <>[][~WorkerFault(s)]_vars

LiveSpec == Spec /\ Fairness

-----------------------------------------------------------------------------
(* Properties.                                                             *)

\* Type correctness of the order rows and of every handler's local state.
TypeOK ==
  /\ AccountsTypeOK
  /\ order \in [Purchases -> OrderRow]
  /\ orderLock \in [Purchases -> Sessions \union {Free}]
  /\ totals \in [Users -> Totals]
  /\ buy \in [Purchases -> BuyState]
  /\ poll \in [Pollers -> PollState]
  /\ upstream \in [Purchases -> Holdings]
  /\ notified \in [Purchases -> Nat]

\* The ledger rows of one type that refer to an order.
RowsFor(o, type) ==
  {i \in 1..Len(ledger[Owner[o]]) :
     ledger[Owner[o]][i].type = type /\ ledger[Owner[o]][i].ref = o}

Once(o, type, amount) ==
  \E i \in RowsFor(o, type) :
    RowsFor(o, type) = {i} /\ ledger[Owner[o]][i].amount = amount

\* Money follows orders exactly: an order has exactly one purchase row of its
\* price, and exactly one refund row of the same price if and only if it is
\* refunded, whatever handlers, workers and crashes interleave (create_order
\* and refund_order in app/services/orders.py).
LedgerMatchesOrders ==
  \A o \in Purchases :
    /\ IF order[o].status = "none" THEN RowsFor(o, "otp_purchase") = {}
       ELSE Once(o, "otp_purchase", -order[o].price)
    /\ IF order[o].refunded THEN Once(o, "refund", order[o].price)
       ELSE RowsFor(o, "refund") = {}

\* Nobody is refunded while Grizzly holds a live number, or a code, for the
\* order: a timeout, a lost connection or a server error never leads to a
\* refund (confirm_buy, README).  The one exception is a number whose answer
\* arrived but did not carry it, which the client reads as an error.
RefundOnlyWithoutNumber ==
  \A o \in Purchases : order[o].refunded => upstream[o] \in {"none", "stray", "cancelled"}

\* The columns of an order never contradict its status nor what Grizzly did.
StatusAgrees ==
  \A o \in Purchases :
    LET row == order[o] IN
    /\ row.refunded <=> row.status = "refunded"
    /\ row.status \in {"waiting_for_otp", "completed"} => row.activation
    /\ row.status \in {"none", "processing", "manual_reconciliation"} => ~row.activation
    /\ row.activation => upstream[o] \notin {"none", "stray"}
    /\ row.status = "completed" => row.last = "otp" /\ upstream[o] = "code"
    /\ row.status = "refunded" => (row.activation <=> row.last = "cancel")

\* order_events tells the order's story: creation first, reconciliation at
\* most once and before any refund, the refund last and at most once.
EventTrail ==
  \A o \in Purchases :
    LET story == IF order[o].status = "none" THEN {<<>>}
                 ELSE {<<"created">>, <<"created", "manual_reconciliation">>} IN
    \E told \in story :
      /\ order[o].events = IF order[o].refunded THEN Append(told, "refunded") ELSE told
      /\ order[o].status = "processing" => told = <<"created">>
      /\ order[o].status = "manual_reconciliation" => told # <<"created">>

\* The orders of a user whose price was taken, and the price of each order.
Reserved(u) == {o \in Purchases : Owner[o] = u /\ order[o].status # "none"}
PriceOf == [o \in Purchases |-> order[o].price]

\* total_orders and total_spending count every order that was reserved, even
\* when two confirmations of one user race (create_order updates columns read
\* before the order was written).
TotalsExact ==
  \A u \in Users :
    totals[u] = [orders |-> Cardinality(Reserved(u)),
                 spending |-> SumFunctionOnSet(PriceOf, Reserved(u))]

\* However many workers run, a code is sent at most once, and only for an
\* order that is completed.
NotifiedOnce ==
  \A o \in Purchases :
    notified[o] <= 1 /\ (notified[o] = 1 => order[o].status = "completed")

\* No reservation commits for a user who is blocked at that moment, although
\* the check and the commit are different steps (the row lock of confirm_buy).
BlockedNeverReserve ==
  [][\A o \in Purchases :
       order[o].status = "none" /\ order'[o].status # "none" => ~blocked[Owner[o]]]_vars

Follows == [none |-> {"processing"},
            processing |-> {"manual_reconciliation", "waiting_for_otp", "refunded"},
            manual_reconciliation |-> {"waiting_for_otp", "refunded"},
            waiting_for_otp |-> {"completed", "refunded"},
            completed |-> {}, refunded |-> {}]

\* The life of an order: no worker and no late answer takes a step back, and
\* a completed or refunded order never changes its status again.
StatusFlow ==
  [][\A o \in Purchases :
       order'[o].status # order[o].status =>
         order'[o].status \in Follows[order[o].status]]_vars

\* An order set aside for manual reconciliation is left alone by every worker:
\* only the late answer of its own purchase handler moves it again.
ReconciliationIsTheBuyers ==
  [][\A o \in Purchases :
       order[o].status = "manual_reconciliation" /\ order'[o] # order[o] =>
         buy[o].pc \in {"reply", "credit"} /\ buy'[o].pc = "done"]_vars

\* No reserved money is left without an outcome: an order whose purchase
\* handler crashed, or was a deadlock victim, between the two transactions does
\* not stay in processing (the sweep of poll_orders).
ProcessingEnds ==
  \A o \in Purchases :
    order[o].status = "processing" ~> order[o].status # "processing"

\* A code that reaches Grizzly while its order waits reaches the order, as long
\* as no status answer repeats the number beside the code, which the client
\* takes for the answer to a purchase (client.py:46).
CodeIsDelivered ==
  "echo" \notin CodeForms =>
    \A o \in Purchases :
      (order[o].status = "waiting_for_otp" /\ upstream[o] = "code")
        ~> order[o].status = "completed"

\* A cancelled activation gives the price back: an order that waits for its code
\* is refunded.  This is what poll_orders sets out to do (worker.py:48-49), with
\* "Grizzly deployments may return either legacy text or JSON for V2 endpoints"
\* (client.py:34).
CancelledIsRefunded ==
  \A o \in Purchases :
    (order[o].status = "waiting_for_otp" /\ upstream[o] = "cancelled")
      ~> order[o].refunded

\* The same where Grizzly reports cancellations as text, the only form that the
\* comparison with the raw body (worker.py:48) recognises.
TextCancelIsRefunded == CancelForms = {"text"} => CancelledIsRefunded

\* Nobody waits for ever: every confirm_buy that started comes to an end,
\* although purchases lock user then wallet and refunds wallet then user.
PurchasesEnd == \A b \in Purchases : buy[b].pc # "idle" ~> buy[b].pc = "done"

-----------------------------------------------------------------------------
(* The inductive invariant behind the properties (Orders_proofs).          *)

BuyersHoldWallets ==
  \A b \in Purchases, u \in Users :
    walletLock[u] = b <=> (buy[b].pc \in {"reserve", "credit"} /\ u = Owner[b])

PollersHoldWallets ==
  \A s \in Pollers, u \in Users :
    walletLock[u] = s <=> (poll[s].pc = "credit" /\ u = Owner[poll[s].cur])

HandledIsOrder ==
  \A s \in Pollers :
    poll[s].pc \in {"apply", "wallet", "credit", "notify"} => poll[s].cur \in Purchases

\* A buyer keeps the user row locked, and so the user unblocked, until the
\* reservation.
BuyersHoldUsers ==
  \A b \in Purchases :
    /\ buy[b].pc \in {"gates", "wallet", "reserve"} => userLock[Owner[b]] = b
    /\ buy[b].pc \in {"wallet", "reserve"} => ~blocked[Owner[b]]

\* Who may write what: wallets and users are held by whoever is about to write.
MoneyIInv ==
  /\ TypeOK /\ AccountsIInv
  /\ BuyersHoldWallets /\ PollersHoldWallets /\ HandledIsOrder /\ BuyersHoldUsers

\* The order rows, too, are held by whoever decided what to write to them.
OrdersAreHeld ==
  /\ \A b, o \in Purchases :
       orderLock[o] = b <=> (o = b /\ buy[b].pc \in {"refund", "credit"})
  /\ \A s \in Pollers :
       /\ poll[s].pc \in {"wallet", "credit"} => orderLock[poll[s].cur] = s
       /\ poll[s].marked # {} => poll[s].pc = "pass" /\ poll[s].todo = {}
       /\ \A o \in poll[s].marked : orderLock[o] = s /\ Unanswered(o)

\* What a purchase knows of its own order at each of its steps.
BuyersKnow ==
  \A b \in Purchases :
    /\ buy[b].pc \in {"idle", "gates", "wallet", "reserve"} =>
         order[b].status = "none"
    /\ buy[b].pc \in {"request", "reply", "refund", "credit"} =>
         order[b].status \in {"processing", "manual_reconciliation"}
    /\ buy[b].pc \in {"idle", "gates", "wallet", "reserve", "request"} =>
         upstream[b] = "none"
    /\ buy[b].pc \in {"refund", "credit"} => upstream[b] \in {"none", "stray"}
    /\ buy[b].pc = "reply" =>
         /\ buy[b].reply = "ok" => upstream[b] \notin {"none", "stray"}
         /\ buy[b].reply = "error" => upstream[b] \in {"none", "stray"}

\* What a worker knows of the order it is handling.
PollersKnow ==
  \A s \in Pollers :
    LET o == poll[s].cur IN
    /\ poll[s].pc = "apply" =>
         /\ order[o].activation
         /\ poll[s].answer = "otp" => upstream[o] = "code"
         /\ poll[s].answer = "cancel" => upstream[o] = "cancelled"
    /\ poll[s].pc \in {"wallet", "credit"} =>
         order[o].status = "waiting_for_otp" /\ upstream[o] = "cancelled"
    /\ poll[s].pc = "notify" =>
         /\ order[o].status = "completed" /\ notified[o] = 0
         /\ \A t \in Pollers \ {s} : poll[t].pc = "notify" => poll[t].cur # o

\* StatusAgrees, with what a settled order says about Grizzly.
RowsAgree ==
  \A o \in Purchases :
    /\ ~order[o].activation => order[o].last = "none"
    /\ order[o].refunded => upstream[o] \in {"none", "stray", "cancelled"}

LifeIInv ==
  /\ OrdersAreHeld /\ BuyersKnow /\ PollersKnow
  /\ RowsAgree /\ StatusAgrees /\ NotifiedOnce

\* While a purchase holds the user row, the columns it captured are current.
RowIsCurrent ==
  \A b \in Purchases :
    buy[b].pc \in {"gates", "wallet", "reserve"} => buy[b].row = totals[Owner[b]]

\* Only finitely many purchases have run at any time.
TotalsIInv ==
  /\ RowIsCurrent /\ TotalsExact
  /\ \A u \in Users : IsFiniteSet(Reserved(u))

-----------------------------------------------------------------------------
(* Orders implements Escrow.                                               *)

\* What a buyer may rely on in each status: while the answer or the code is
\* awaited, and in manual reconciliation, the price is held.
DealOf(o) ==
  CASE order[o].status = "none" -> "none"
    [] order[o].status = "completed" -> "sold"
    [] order[o].status = "refunded" -> "returned"
    [] OTHER -> "held"

Promise == INSTANCE Escrow WITH
  Deals <- Purchases, Party <- Owner, funds <- balance,
  deal <- [o \in Purchases |-> DealOf(o)],
  stake <- [o \in Purchases |-> order[o].price]

\* Every behaviour of handlers, workers and crashes is one of the escrow: each
\* step opens, keeps or returns one deal with exactly its price, adjusts the
\* funds of one user, or changes nothing the buyer can see.
KeepsPromise == Promise!Spec
=============================================================================
