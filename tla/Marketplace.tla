---------------------------- MODULE Marketplace -----------------------------
(***************************************************************************)
(* Orders and Deposits on the same users and wallets: a purchase, the      *)
(* worker that refunds it, a payment request, its approval and an          *)
(* administrator's confirmation interleave on one user row and one wallet. *)
(* A purchase locks the user and then the wallet (confirm_buy); refunds    *)
(* and approvals lock the wallet and then the user (refund_order,          *)
(* approve_deposit), so PostgreSQL has deadlocks to break that neither     *)
(* component has alone.                                                    *)
(***************************************************************************)
EXTENDS Accounts, FiniteSetsExt

CONSTANTS
  Purchases, Pollers, Owner, Prices, PollLimit, CodeForms, CancelForms,
  Requests, Receipts, Reviews, Expirers, Depositor, File, Reviewed, Amounts

VARIABLES
  order, orderLock, totals, buy, poll, upstream, notified,
  deposit, filed, depositLock, totalDeposits, proofs, request, receipt, review,
  expire, restsOn

O == INSTANCE Orders
D == INSTANCE Deposits

\* A session is one of a purchase, of a deposit or of an administrator.
ASSUME MarketplaceAssumption ==
  /\ O!OrdersAssumption /\ D!DepositsAssumption
  /\ (Purchases \union Pollers)
       \intersect (Requests \union Receipts \union Reviews \union Expirers) = {}

orderVars == <<order, orderLock, totals, buy, poll, upstream, notified>>
depositVars == <<deposit, filed, depositLock, totalDeposits, proofs, request, receipt,
                 review, expire, restsOn>>
vars == <<accountVars, orderVars, depositVars>>

\* A step of one component leaves the tables of the other alone.
Ordering(action) == action /\ UNCHANGED depositVars
Depositing(action) == action /\ UNCHANGED orderVars
Adjusting(action) == action /\ UNCHANGED <<orderVars, depositVars>>

Init == O!Init /\ D!Init

Next == Ordering(O!Next) \/ Depositing(D!Next)

Spec == Init /\ [][Next]_vars

-----------------------------------------------------------------------------
(* Deadlocks.                                                              *)

\* Session s waits for a row that session t has locked.
WaitsFor(s, t) ==
  \/ O!WaitsFor(s, t)
  \/ s \in Reviews /\ review[s].pc = "wallet" /\ walletLock[Depositor[Reviewed[s]]] = t
  \/ s \in Reviews /\ review[s].pc = "credit" /\ userLock[Depositor[Reviewed[s]]] = t

Deadlocked(s) == \E t \in Sessions \ {s} : WaitsFor(s, t) /\ WaitsFor(t, s)

\* PostgreSQL ends a deadlock by aborting one of the sessions in it.
DeadlockVictim ==
  \/ \E b \in Purchases : Deadlocked(b) /\ Ordering(O!AbortBuy(b))
  \/ \E s \in Pollers : Deadlocked(s) /\ Ordering(O!AbortPoll(s))
  \/ \E v \in Reviews : Deadlocked(v) /\ Depositing(D!AbortReview(v))
  \/ \E a \in Adjusts : Deadlocked(a) /\ Adjusting(AdjustAbort(a))

\* A pass that ends, or skips an order, for no reason of the worker's own.
PollFault(s) ==
  \/ O!StatusUnavailable(s)
  \/ O!AbortPoll(s) /\ ~Deadlocked(s) /\ ~O!SweepCommit(s)

\* Orders' fairness, and for the deposits the same: handlers that started are
\* run to their end and waiters for a row are served in turn; the expiry worker
\* loops for ever and its faults cease; time passes; deadlocks are broken.
Fairness ==
  /\ \A b \in Purchases : SF_vars(Ordering(O!BuyNext(b)))
  /\ \A s \in Pollers :
       /\ WF_vars(Ordering(O!PollNext(s)))
       /\ <>[][~PollFault(s)]_vars
  /\ \A o \in Purchases : WF_vars(Ordering(O!Age(o)))
  /\ \A q \in Requests :
       SF_vars(Depositing(D!CheckRequest(q) \/ D!FileRequest(q) \/ D!DropRequest(q)))
  /\ \A v \in Reviews : SF_vars(Depositing(D!LockCredit(v) \/ D!Approve(v)))
  /\ \A x \in Expirers :
       /\ SF_vars(Depositing(D!SnapshotExpired(x) \/ D!LockExpired(x) \/ D!CommitExpired(x)))
       /\ <>[][D!AbortExpire(x) => D!CommitExpired(x)]_vars
  /\ \A d \in Requests : WF_vars(Depositing(D!TimeUp(d)))
  /\ \A a \in Adjusts :
       WF_vars(Adjusting(AdjustCommit(a) \/ AdjustRefused(a)))
  /\ WF_vars(DeadlockVictim)

LiveSpec == Spec /\ Fairness

-----------------------------------------------------------------------------
(* Properties.                                                             *)

\* What administrators added to and took from a wallet.
Manual(u) == {i \in 1..Len(ledger[u]) : ledger[u][i].type \in {"manual_add", "manual_deduct"}}
ManualChange(u) == SumFunctionOnSet([i \in 1..Len(ledger[u]) |-> ledger[u][i].amount], Manual(u))

\* The prices given back to a user.
Returned(u) == {o \in Purchases : Owner[o] = u /\ order[o].refunded}
RefundedTo(u) == SumFunctionOnSet(O!PriceOf, Returned(u))

\* The books balance across the components: the wallet holds what the user
\* deposited (users.total_deposits) less what was spent (users.total_spending),
\* plus the prices of the refunded orders and the administrators' changes,
\* whatever purchases, refunds, approvals and crashes interleave
\* (change_balance, create_order, refund_order, approve_deposit).
BalanceExplained ==
  \A u \in Users :
    balance[u] = Opening[u] + totalDeposits[u] - totals[u].spending
                 + RefundedTo(u) + ManualChange(u)

\* A handler that started and has not answered its user yet.
Midway ==
  \/ \E b \in Purchases : buy[b].pc \notin {"idle", "done"}
  \/ \E q \in Requests : request[q] \notin {"idle", "done"}
  \/ \E v \in Reviews : review[v].pc \notin {"idle", "done"}
  \/ \E a \in Adjusts : adjust[a] \notin {"idle", "done"}

\* Nobody waits for ever, although purchases and approvals take the user and the
\* wallet in opposite orders and workers take the rows of both: from some moment
\* on every confirm_buy, create_deposit, approve_deposit and balance_confirm that
\* started has come to its end.
HandlersEnd == <>[]~Midway

\* Nothing is left in the air: a reservation does not stay in processing and a
\* payment request does not stay pending, while the handlers of the other
\* component hold the user and the wallet (poll_orders, expire_deposits).
NothingPends ==
  <>[]((\A o \in Purchases : order[o].status # "processing")
       /\ (\A d \in Requests : deposit[d].status # "pending"))
=============================================================================
