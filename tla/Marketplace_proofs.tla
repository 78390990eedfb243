------------------------- MODULE Marketplace_proofs -------------------------
(***************************************************************************)
(* The books of orders and deposits together, for every number of users,   *)
(* purchases, workers, requests, reviews and confirmations.                *)
(*                                                                         *)
(* Each component keeps its own invariant (Orders_proofs, Deposits_proofs) *)
(* whatever the other does: a step of one takes and gives back no lock of  *)
(* a session of the other (KeepsLocks), keeps the invariant of the         *)
(* accounts they share, and leaves the other's tables alone.  With both    *)
(* invariants at hand every step pays one user, and is counted once.       *)
(***************************************************************************)
EXTENDS Marketplace, Accounts_proofs

OP == INSTANCE Orders_proofs
DP == INSTANCE Deposits_proofs

-----------------------------------------------------------------------------
(* Marketplace composes Orders and Deposits; what is proved of them is of  *)
(* Orders_proofs and Deposits_proofs, which extend them.  The definitions  *)
(* are the same ones: unfolded, they are equal.                            *)

\* The assumptions of the components follow from the composition's.
LEMMA ComponentsAssumed ==
  /\ AccountsAssumption
  /\ OP!OrdersAssumption /\ OP!AccountsAssumption
  /\ DP!DepositsAssumption /\ DP!AccountsAssumption
  /\ Free \notin Purchases \union Pollers /\ Free \notin Requests \union Reviews
  /\ (Purchases \union Pollers) \intersect (Requests \union Reviews \union Adjusts) = {}
  /\ (Requests \union Reviews) \intersect (Purchases \union Pollers \union Adjusts) = {}
<1>1. /\ OP!OrdersAssumption /\ OP!AccountsAssumption
      /\ DP!DepositsAssumption /\ DP!AccountsAssumption
  BY AccountsAssumption, MarketplaceAssumption
     DEF MarketplaceAssumption, AccountsAssumption, O!OrdersAssumption, OP!OrdersAssumption,
         O!Forms, OP!Forms, D!DepositsAssumption, DP!DepositsAssumption,
         OP!AccountsAssumption, DP!AccountsAssumption
<1>2. /\ \A s \in Purchases \union Pollers :
           s \in Sessions /\ s \notin Requests /\ s \notin Reviews /\ s \notin Adjusts
      /\ \A s \in Requests \union Reviews : s \in Sessions /\ s \notin Adjusts
  BY <1>1, MarketplaceAssumption
     DEF MarketplaceAssumption, O!OrdersAssumption, D!DepositsAssumption
<1> QED
  BY <1>1, <1>2, AccountsAssumption DEF AccountsAssumption

\* Purchases start the same way under either instance.
LEMMA SameOrdersInit == O!Init => OP!Init
  BY DEF O!Init, OP!Init, O!Asleep, OP!Asleep, O!NewBuy, OP!NewBuy, O!NoTotals, OP!NoTotals,
     O!NewRow, OP!NewRow, O!AccountsInit, OP!AccountsInit

\* A step of Orders is a step of the instance the theorems are about.
LEMMA SameOrdersNext == O!Next => OP!Next
  BY DEF O!Next, OP!Next, O!Administrate, OP!Administrate, O!orderVars, OP!orderVars,
     O!AccountsNext, OP!AccountsNext, O!SetBlocked, OP!SetBlocked, O!AdjustNext, OP!AdjustNext,
     O!AdjustAbort, OP!AdjustAbort, O!Release, OP!Release, O!Unlocked, OP!Unlocked,
     O!AdjustRefused, OP!AdjustRefused, O!AdjustCommit, OP!AdjustCommit,
     O!AdjustType, OP!AdjustType, O!ChangeBalance, OP!ChangeBalance,
     O!UserKeyFree, OP!UserKeyFree, O!AdjustLock, OP!AdjustLock, O!LockWallet, OP!LockWallet,
     O!World, OP!World, O!Age, OP!Age, O!accountVars, OP!accountVars,
     O!ActivationCancelled, OP!ActivationCancelled, O!CodeArrives, OP!CodeArrives,
     O!AbortPoll, OP!AbortPoll, O!Asleep, OP!Asleep, O!ReleaseAll, OP!ReleaseAll,
     O!StatusUnavailable, OP!StatusUnavailable, O!Waiting, OP!Waiting, O!PollNext, OP!PollNext,
     O!SweepCommit, OP!SweepCommit, O!SweepLock, OP!SweepLock, O!Unanswered, OP!Unanswered,
     O!LockOrder, OP!LockOrder, O!RefundCancelled, OP!RefundCancelled,
     O!NextOrder, OP!NextOrder, O!CommitRefund, OP!CommitRefund,
     O!PollLockWallet, OP!PollLockWallet, O!ApplyCancel, OP!ApplyCancel,
     O!StillWaiting, OP!StillWaiting, O!Notify, OP!Notify, O!ApplyOtp, OP!ApplyOtp,
     O!ApplyOther, OP!ApplyOther, O!DropAnswer, OP!DropAnswer, O!SkipSettled, OP!SkipSettled,
     O!AskStatus, OP!AskStatus, O!AnswersTo, OP!AnswersTo, O!CancelAnswers, OP!CancelAnswers,
     O!Formed, OP!Formed, O!Answer, OP!Answer, O!CodeAnswers, OP!CodeAnswers,
     O!WorkerReads, OP!WorkerReads, O!SaysCancelled, OP!SaysCancelled, O!HasCode, OP!HasCode,
     O!HasNumber, OP!HasNumber, O!Holdings, OP!Holdings, O!Snapshot, OP!Snapshot,
     O!Limited, OP!Limited, O!AbortBuy, OP!AbortBuy, O!EndBuy, OP!EndBuy, O!NewBuy, OP!NewBuy,
     O!NoTotals, OP!NoTotals, O!BuyNext, OP!BuyNext, O!RefundReservation, OP!RefundReservation,
     O!LockRefund, OP!LockRefund, O!GotoBuy, OP!GotoBuy, O!OpenRefund, OP!OpenRefund,
     O!NumberMissing, OP!NumberMissing, O!RecordNumber, OP!RecordNumber,
     O!RecordUnknown, OP!RecordUnknown, O!Request, OP!Request, O!RepliesTo, OP!RepliesTo,
     O!NumberAnswers, OP!NumberAnswers, O!BuyerReads, OP!BuyerReads, O!SaysOk, OP!SaysOk,
     O!Raises, OP!Raises, O!Unknown, OP!Unknown, O!Reserve, OP!Reserve, O!TooPoor, OP!TooPoor,
     O!LockFunds, OP!LockFunds, O!PassGates, OP!PassGates, O!TurnedAway, OP!TurnedAway,
     O!TapBuy, OP!TapBuy, O!kSubset, OP!kSubset, O!Cardinality, OP!Cardinality

\* Deposits start the same way under either instance.
LEMMA SameDepositsInit == D!Init => DP!Init
  BY DEF D!Init, DP!Init, D!Asleep, DP!Asleep, D!NewReview, DP!NewReview,
     D!NewReceipt, DP!NewReceipt, D!AccountsInit, DP!AccountsInit

\* A step of Deposits is a step of the instance the theorems are about.
LEMMA SameDepositsNext == D!Next => DP!Next
  BY DEF D!Next, DP!Next, D!Administrate, DP!Administrate, D!depositVars, DP!depositVars,
     D!AccountsNext, DP!AccountsNext, D!SetBlocked, DP!SetBlocked, D!AdjustNext, DP!AdjustNext,
     D!AdjustAbort, DP!AdjustAbort, D!Release, DP!Release, D!Unlocked, DP!Unlocked,
     D!AdjustRefused, DP!AdjustRefused, D!AdjustCommit, DP!AdjustCommit,
     D!AdjustType, DP!AdjustType, D!ChangeBalance, DP!ChangeBalance,
     D!UserKeyFree, DP!UserKeyFree, D!AdjustLock, DP!AdjustLock, D!LockWallet, DP!LockWallet,
     D!ExpireNext, DP!ExpireNext, D!AbortExpire, DP!AbortExpire, D!accountVars, DP!accountVars,
     D!Asleep, DP!Asleep, D!CommitExpired, DP!CommitExpired, D!LockExpired, DP!LockExpired,
     D!OutOfTime, DP!OutOfTime, D!SnapshotExpired, DP!SnapshotExpired,
     D!ReviewNext, DP!ReviewNext, D!AbortReview, DP!AbortReview, D!EndReview, DP!EndReview,
     D!NewReview, DP!NewReview, D!ReleaseAll, DP!ReleaseAll, D!Reject, DP!Reject,
     D!SetStatus, DP!SetStatus, D!Reviewable, DP!Reviewable, D!Approve, DP!Approve,
     D!LockCredit, DP!LockCredit, D!RefuseApproval, DP!RefuseApproval,
     D!Approvable, DP!Approvable, D!Duplicate, DP!Duplicate, D!NewestFile, DP!NewestFile,
     D!ProofsOf, DP!ProofsOf, D!OpenApproval, DP!OpenApproval, D!TimeUp, DP!TimeUp,
     D!RequestNext, DP!RequestNext, D!DropRequest, DP!DropRequest,
     D!FileRequest, DP!FileRequest, D!CheckRequest, DP!CheckRequest, D!PendingOf, DP!PendingOf,
     D!OpenRequest, DP!OpenRequest, D!ReceiptNext, DP!ReceiptNext,
     D!AbortReceipt, DP!AbortReceipt, D!EndReceipt, DP!EndReceipt, D!NewReceipt, DP!NewReceipt,
     D!InsertProof, DP!InsertProof, D!LookUpPhoto, DP!LookUpPhoto,
     D!ExpireStale, DP!ExpireStale, D!SendReceipt, DP!SendReceipt, D!Newest, DP!Newest,
     D!NewProof, DP!NewProof

\* The wallets' definitions mean the same here and in the instances.
LEMMA SameAccounts ==
  /\ (OP!AccountsIInv <=> AccountsIInv) /\ (DP!AccountsIInv <=> AccountsIInv)
  /\ (OP!AccountsIInv' <=> AccountsIInv') /\ (DP!AccountsIInv' <=> AccountsIInv')
  BY DEF AccountsIInv, OP!AccountsIInv, DP!AccountsIInv,
     WriterHoldsWallet, OP!WriterHoldsWallet, DP!WriterHoldsWallet,
     LockedIsSeen, OP!LockedIsSeen, DP!LockedIsSeen,
     LedgerChain, OP!LedgerChain, DP!LedgerChain,
     ClosingBalance, OP!ClosingBalance, DP!ClosingBalance, Chained, OP!Chained, DP!Chained,
     AccountsTypeOK, OP!AccountsTypeOK, DP!AccountsTypeOK, Entry, OP!Entry, DP!Entry,
     EntryTypes, OP!EntryTypes, DP!EntryTypes

\* An administrator's step is the same one in either instance.
LEMMA SameAccountsNext ==
  /\ OP!AccountsNext => AccountsNext
  /\ DP!AccountsNext => AccountsNext
  BY DEF AccountsNext, OP!AccountsNext, DP!AccountsNext,
     SetBlocked, OP!SetBlocked, DP!SetBlocked, AdjustNext, OP!AdjustNext, DP!AdjustNext,
     AdjustAbort, OP!AdjustAbort, DP!AdjustAbort, Release, OP!Release, DP!Release,
     Unlocked, OP!Unlocked, DP!Unlocked, AdjustRefused, OP!AdjustRefused, DP!AdjustRefused,
     AdjustCommit, OP!AdjustCommit, DP!AdjustCommit, AdjustType, OP!AdjustType, DP!AdjustType,
     ChangeBalance, OP!ChangeBalance, DP!ChangeBalance,
     UserKeyFree, OP!UserKeyFree, DP!UserKeyFree, AdjustLock, OP!AdjustLock, DP!AdjustLock,
     LockWallet, OP!LockWallet, DP!LockWallet

\* And what is said of a payment and of the locks a step may touch.
LEMMA SameSteps ==
  /\ \A S : (OP!KeepsLocks(S) <=> KeepsLocks(S)) /\ (DP!KeepsLocks(S) <=> KeepsLocks(S))
  /\ \A u, type, amount : /\ OP!Pays(u, type, amount) => Pays(u, type, amount)
                          /\ DP!Pays(u, type, amount) => Pays(u, type, amount)
<1>1. ASSUME NEW S
      PROVE  (OP!KeepsLocks(S) <=> KeepsLocks(S)) /\ (DP!KeepsLocks(S) <=> KeepsLocks(S))
  BY DEF KeepsLocks, OP!KeepsLocks, DP!KeepsLocks
<1>2. ASSUME NEW u, NEW type, NEW amount
      PROVE  /\ OP!Pays(u, type, amount) => Pays(u, type, amount)
             /\ DP!Pays(u, type, amount) => Pays(u, type, amount)
  BY DEF Pays, OP!Pays, DP!Pays
<1> QED
  BY <1>1, <1>2

-----------------------------------------------------------------------------
(* Neither component disturbs the other.                                   *)

\* The invariants of the components, as their proofs name them.
ComponentsIInv ==
  OP!MoneyIInv /\ OP!LifeIInv /\ OP!RowIsCurrent /\ DP!DepositsIInv

\* Both components keep the same wallets, and agree on their invariant.
LEMMA SharedAccounts ==
  ASSUME ComponentsIInv
  PROVE  AccountsIInv
BY SameAccounts DEF ComponentsIInv, OP!MoneyIInv

\* A step of Orders is stated and proved there; what it leaves to Deposits is
\* that nobody takes or gives back a lock of a request or a review.
LEMMA OrderingKeeps ==
  ASSUME ComponentsIInv, OP!Next, UNCHANGED depositVars
  PROVE  ComponentsIInv'
<1>1. OP!MoneyIInv' /\ OP!LifeIInv' /\ OP!RowIsCurrent'
  <2>1. OP!MoneyIInv /\ OP!LifeIInv /\ OP!RowIsCurrent
    BY DEF ComponentsIInv
  <2> QED
    BY <2>1, ComponentsAssumed, OP!MoneyInductive, OP!LifeInductive, OP!RowStaysCurrent
<1>2. DP!AccountsIInv'
  BY <1>1, SameAccounts DEF OP!MoneyIInv
<1>3. DP!KeepsLocks(Requests \union Reviews)
  <2>1. OP!KeepsLocks(Requests \union Reviews)
    BY ComponentsAssumed, OP!OrdersKeepLocks DEF ComponentsIInv
  <2> QED
    BY <2>1, SameSteps
<1>4. UNCHANGED DP!depositVars
  BY DEF depositVars, DP!depositVars
<1>5. DP!DepositsIInv'
  BY <1>2, <1>3, <1>4, ComponentsAssumed, DP!OthersKeepDeposits DEF ComponentsIInv
<1> QED
  BY <1>1, <1>5 DEF ComponentsIInv

\* The same the other way round.
LEMMA DepositingKeeps ==
  ASSUME ComponentsIInv, DP!Next, UNCHANGED orderVars
  PROVE  ComponentsIInv'
<1>1. DP!DepositsIInv'
  BY ComponentsAssumed, DP!DepositsInductive DEF ComponentsIInv
<1>2. OP!AccountsIInv'
  BY <1>1, SameAccounts DEF DP!DepositsIInv
<1>3. OP!KeepsLocks(Purchases \union Pollers)
  <2>1. DP!KeepsLocks(Purchases \union Pollers)
    BY ComponentsAssumed, DP!DepositsKeepLocks DEF ComponentsIInv
  <2> QED
    BY <2>1, SameSteps
<1>4. UNCHANGED OP!orderVars
  BY DEF orderVars, OP!orderVars
<1>5. OP!MoneyIInv' /\ OP!LifeIInv'
  BY <1>2, <1>3, <1>4, ComponentsAssumed, OP!OthersKeepMoney, OP!OthersKeepLife
     DEF ComponentsIInv
<1>6. OP!RowIsCurrent'
  BY <1>4 DEF ComponentsIInv, OP!RowIsCurrent, OP!orderVars
<1> QED
  BY <1>1, <1>5, <1>6 DEF ComponentsIInv

\* Neither invariant is disturbed when nothing changes.
LEMMA StutteringKeeps ==
  ASSUME ComponentsIInv, UNCHANGED vars
  PROVE  ComponentsIInv'
<1>1. UNCHANGED OP!vars /\ UNCHANGED DP!vars /\ UNCHANGED orderVars
  BY DEF vars, accountVars, orderVars, depositVars, OP!vars, OP!accountVars, OP!orderVars,
     DP!vars, DP!accountVars, DP!depositVars
<1>2. OP!MoneyIInv' /\ OP!LifeIInv' /\ OP!RowIsCurrent'
  BY <1>1, ComponentsAssumed, OP!MoneyInductive, OP!LifeInductive, OP!RowStaysCurrent
     DEF ComponentsIInv
<1>3. DP!DepositsIInv'
  BY <1>1, ComponentsAssumed, DP!DepositsInductive DEF ComponentsIInv
<1> QED
  BY <1>2, <1>3 DEF ComponentsIInv

\* Both invariants hold of every behaviour of the two components together.
LEMMA ComponentsAlways == Spec => []ComponentsIInv
<1>1. ASSUME Init
      PROVE  ComponentsIInv
  <2>1. OP!Init /\ DP!Init
    BY <1>1, SameOrdersInit, SameDepositsInit DEF Init
  <2>2. OP!MoneyIInv /\ OP!LifeIInv /\ OP!RowIsCurrent
    BY <2>1, ComponentsAssumed, OP!MoneyInitially, OP!LifeInitially, OP!TotalsInitially
       DEF OP!TotalsIInv
  <2>3. DP!DepositsIInv
    BY <2>1, ComponentsAssumed, DP!DepositsInitially
  <2> QED
    BY <2>2, <2>3 DEF ComponentsIInv
<1>2. ASSUME ComponentsIInv, [Next]_vars
      PROVE  ComponentsIInv'
  <2>1. CASE Ordering(O!Next)
    BY <1>2, <2>1, SameOrdersNext, OrderingKeeps DEF Ordering
  <2>2. CASE Depositing(D!Next)
    BY <1>2, <2>2, SameDepositsNext, DepositingKeeps DEF Depositing
  <2>3. CASE UNCHANGED vars
    BY <1>2, <2>3, StutteringKeeps
  <2> QED
    BY <1>2, <2>1, <2>2, <2>3 DEF Next
<1> QED
  BY <1>1, <1>2, PTL DEF Spec

\* Whatever purchases, refunds, approvals, confirmations and crashes interleave,
\* the ledger of every wallet is an unbroken chain from its opening balance to
\* the stored one, and no balance is ever negative.
THEOREM MarketplaceKeepsLedger == Spec => []LedgerChain
<1>1. ComponentsIInv => LedgerChain
  BY SharedAccounts DEF AccountsIInv
<1> QED
  BY <1>1, ComponentsAlways, PTL

\* The columns of an order agree with its status and with Grizzly, a code is
\* sent at most once and nobody is refunded for a live number, also while the
\* buyer's payment requests are decided and expire on the same wallet.
THEOREM MarketplaceKeepsOrders ==
  Spec => [](O!StatusAgrees /\ O!NotifiedOnce /\ O!RefundOnlyWithoutNumber)
<1>1. ASSUME ComponentsIInv
      PROVE  OP!StatusAgrees /\ OP!NotifiedOnce /\ OP!RefundOnlyWithoutNumber
  BY <1>1 DEF ComponentsIInv, OP!LifeIInv, OP!RowsAgree, OP!RefundOnlyWithoutNumber
<1>2. /\ O!StatusAgrees <=> OP!StatusAgrees
      /\ O!NotifiedOnce <=> OP!NotifiedOnce
      /\ O!RefundOnlyWithoutNumber <=> OP!RefundOnlyWithoutNumber
  BY DEF O!StatusAgrees, OP!StatusAgrees, O!NotifiedOnce, OP!NotifiedOnce,
         O!RefundOnlyWithoutNumber, OP!RefundOnlyWithoutNumber
<1>3. ComponentsIInv => O!StatusAgrees /\ O!NotifiedOnce /\ O!RefundOnlyWithoutNumber
  BY <1>1, <1>2
<1> QED
  BY <1>3, ComponentsAlways, PTL

\* A user never has two pending payment requests, also while the purchases of
\* that user take and give back the wallet's lock.
THEOREM MarketplaceOnePending == Spec => []D!OnePending
<1>1. ASSUME ComponentsIInv, NEW u \in Users
      PROVE  Cardinality(D!PendingOf(u)) <= 1
  <2>1. \A d, e \in D!PendingOf(u) : d = e
    BY <1>1 DEF ComponentsIInv, DP!DepositsIInv, DP!PendingAreOne, D!PendingOf
  <2>2. CASE D!PendingOf(u) = {}
    BY <2>2, FS_EmptySet
  <2>3. CASE D!PendingOf(u) # {}
    <3>1. PICK d \in D!PendingOf(u) : TRUE
      BY <2>3
    <3>2. D!PendingOf(u) = {d}
      BY <2>1, <3>1
    <3> QED
      BY <3>2, FS_Singleton
  <2> QED
    BY <2>2, <2>3
<1>2. ComponentsIInv => D!OnePending
  BY <1>1 DEF D!OnePending, D!Cardinality, Cardinality
<1> QED
  BY <1>2, ComponentsAlways, PTL

-----------------------------------------------------------------------------
(* The sums of BalanceExplained.                                           *)

\* What the sums range over, and what they add up.
LEMMA BooksTyped ==
  ASSUME ComponentsIInv
  PROVE  /\ balance \in [Users -> Nat] /\ ledger \in [Users -> Seq(Entry)]
         /\ totalDeposits \in [Users -> Nat]
         /\ \A u \in Users : totals[u].spending \in Nat /\ Opening[u] \in Nat
         /\ \A o \in Purchases : order[o].price \in Nat /\ Owner[o] \in Users
<1>1. balance \in [Users -> Nat] /\ ledger \in [Users -> Seq(Entry)]
  BY SharedAccounts DEF AccountsIInv, AccountsTypeOK
<1>2. totalDeposits \in [Users -> Nat]
  BY DEF ComponentsIInv, DP!DepositsIInv, DP!TypeOK
<1>3. \A u \in Users : totals[u].spending \in Nat
  BY DEF ComponentsIInv, OP!MoneyIInv, OP!TypeOK, OP!Totals
<1>4. \A o \in Purchases : order[o].price \in Nat
  BY DEF ComponentsIInv, OP!MoneyIInv, OP!TypeOK, OP!OrderRow
<1>5. /\ \A u \in Users : Opening[u] \in Nat
      /\ \A o \in Purchases : Owner[o] \in Users
  BY ComponentsAssumed DEF AccountsAssumption, OP!OrdersAssumption
<1> QED
  BY <1>1, <1>2, <1>3, <1>4, <1>5

\* An order is refunded when its status says so.
LEMMA ReturnedByStatus ==
  ASSUME ComponentsIInv, NEW u
  PROVE  Returned(u) = {o \in Purchases : Owner[o] = u /\ order[o].status = "refunded"}
BY DEF Returned, ComponentsIInv, OP!LifeIInv, OP!StatusAgrees

\* The same after a step.
LEMMA ReturnedByStatusNext ==
  ASSUME ComponentsIInv', NEW u
  PROVE  Returned(u)' = {o \in Purchases : Owner[o] = u /\ order'[o].status = "refunded"}
BY DEF Returned, ComponentsIInv, OP!LifeIInv, OP!StatusAgrees

\* No price is given back to a user twice, and none that was is changed.
LEMMA ReturnedSame ==
  ASSUME ComponentsIInv, ComponentsIInv', NEW u \in Users, IsFiniteSet(Returned(u)),
         \A o \in Purchases :
           /\ order'[o].status = "refunded" /\ Owner[o] = u <=>
                order[o].status = "refunded" /\ Owner[o] = u
           /\ order[o].status = "refunded" => order'[o].price = order[o].price
  PROVE  RefundedTo(u)' = RefundedTo(u) /\ IsFiniteSet(Returned(u)')
<1> DEFINE mine == Returned(u)
           old == O!PriceOf
           new == O!PriceOf'
<1>1. Returned(u)' = mine
  BY ReturnedByStatus, ReturnedByStatusNext
<1>2. \A o \in mine : new[o] = old[o]
  BY ReturnedByStatus DEF O!PriceOf
<1>3. RefundedTo(u)' = SumFunctionOnSet(new, mine) /\ RefundedTo(u) = SumFunctionOnSet(old, mine)
  BY <1>1 DEF RefundedTo
<1> HIDE DEF mine, old, new
<1>4. SumFunctionOnSet(new, mine) = SumFunctionOnSet(old, mine)
  BY <1>2, SumSame DEF mine
<1> QED
  BY <1>1, <1>3, <1>4 DEF mine

\* A refund adds its order to the user's and its price to their sum.
LEMMA ReturnedMore ==
  ASSUME ComponentsIInv, ComponentsIInv', NEW o \in Purchases, IsFiniteSet(Returned(Owner[o])),
         order[o].status # "refunded", order'[o].status = "refunded",
         order'[o].price = order[o].price,
         \A p \in Purchases \ {o} : order'[p] = order[p]
  PROVE  /\ RefundedTo(Owner[o])' = RefundedTo(Owner[o]) + order[o].price
         /\ IsFiniteSet(Returned(Owner[o])')
<1> DEFINE u == Owner[o]
           mine == Returned(u)
           old == O!PriceOf
           new == O!PriceOf'
<1>1. Returned(u)' = mine \union {o} /\ o \notin mine /\ mine \subseteq Purchases
  BY ReturnedByStatus, ReturnedByStatusNext
<1>2. /\ \A p \in mine : new[p] = old[p]
      /\ \A p \in mine \union {o} : new[p] \in Int
      /\ new[o] = order[o].price
  <2>1. /\ \A p \in Purchases : old[p] = order[p].price /\ new[p] = order'[p].price
        /\ \A p \in Purchases : order[p].price \in Int
    BY BooksTyped DEF O!PriceOf
  <2>2. \A p \in mine : p # o /\ p \in Purchases
    BY <1>1
  <2> HIDE DEF mine, old, new
  <2> QED
    BY <2>1, <2>2
<1>3. /\ RefundedTo(u)' = SumFunctionOnSet(new, mine \union {o})
      /\ RefundedTo(u) = SumFunctionOnSet(old, mine)
  BY <1>1 DEF RefundedTo
<1>4. IsFiniteSet(mine)
  OBVIOUS
<1> HIDE DEF mine, old, new
<1>5. SumFunctionOnSet(new, mine) = SumFunctionOnSet(old, mine)
  BY <1>2, <1>4, SumSame
<1>6. SumFunctionOnSet(new, mine \union {o}) = SumFunctionOnSet(new, mine) + new[o]
  <2>1. o \notin mine /\ \A p \in mine \union {o} : new[p] \in Int
    BY <1>1, <1>2
  <2> QED
    BY <1>4, <2>1, SumAdds
<1>7. IsFiniteSet(mine \union {o})
  BY <1>4, FS_AddElement
<1> QED
  BY <1>1, <1>2, <1>3, <1>5, <1>6, <1>7

\* What was refunded to a user is the sum of finitely many integers.
LEMMA ReturnedIsInt ==
  ASSUME ComponentsIInv, NEW u, IsFiniteSet(Returned(u))
  PROVE  RefundedTo(u) \in Int
<1>1. \A o \in Returned(u) : O!PriceOf[o] \in Int
  BY BooksTyped DEF O!PriceOf, Returned
<1> QED
  BY <1>1, SumIsInt DEF RefundedTo

\* A payment is one more row of a ledger; an administrator's is counted.
Administrative == {"manual_add", "manual_deduct"}

\* So is what administrators changed by hand.
LEMMA ManualIsInt ==
  ASSUME ComponentsIInv, NEW u \in Users
  PROVE  /\ \A i \in 1..Len(ledger[u]) : ledger[u][i].amount \in Int
         /\ IsFiniteSet(Manual(u)) /\ ManualChange(u) \in Int
<1>1. ledger[u] \in Seq(Entry) /\ Len(ledger[u]) \in Nat
  BY BooksTyped
<1>2. \A i \in 1..Len(ledger[u]) : ledger[u][i].amount \in Int
  <2>1. \A i \in 1..Len(ledger[u]) : ledger[u][i] \in Entry
    BY <1>1
  <2> QED
    BY <2>1 DEF Entry
<1>3. Manual(u) \subseteq 1..Len(ledger[u])
  BY DEF Manual
<1>4. IsFiniteSet(Manual(u))
  <2>1. IsFiniteSet(1..Len(ledger[u]))
    BY <1>1, FS_Interval
  <2> QED
    BY <1>3, <2>1, FS_Subset
<1> DEFINE amounts == [i \in 1..Len(ledger[u]) |-> ledger[u][i].amount]
<1>5. \A i \in Manual(u) : amounts[i] \in Int
  BY <1>2, <1>3
<1>6. ManualChange(u) = SumFunctionOnSet(amounts, Manual(u))
  BY DEF ManualChange
<1> HIDE DEF amounts
<1> QED
  BY <1>2, <1>4, <1>5, <1>6, SumIsInt

\* What a payment does to its wallet's balance and to the manual changes.
LEMMA PaymentCounted ==
  ASSUME ComponentsIInv, NEW u \in Users, NEW type, NEW amount \in Int, Pays(u, type, amount),
         NEW w \in Users
  PROVE  /\ balance'[w] = IF w = u THEN balance[w] + amount ELSE balance[w]
         /\ ManualChange(w)' = IF w = u /\ type \in Administrative
                               THEN ManualChange(w) + amount ELSE ManualChange(w)
<1> DEFINE amounts(rows) == [i \in 1..Len(rows) |-> rows[i].amount]
           manual(rows) == {i \in 1..Len(rows) : rows[i].type \in Administrative}
<1>1. /\ balance'[w] = IF w = u THEN balance[w] + amount ELSE balance[w]
      /\ ledger[w] \in Seq(Entry) /\ ManualChange(w) \in Int
      /\ \A i \in 1..Len(ledger[w]) : ledger[w][i].amount \in Int
  BY BooksTyped, ManualIsInt DEF Pays
<1>2. /\ ManualChange(w) = SumFunctionOnSet(amounts(ledger[w]), manual(ledger[w]))
      /\ ManualChange(w)' = SumFunctionOnSet(amounts(ledger'[w]), manual(ledger'[w]))
  BY DEF ManualChange, Manual, Administrative
<1>3. IsFiniteSet(manual(ledger[w]))
  BY ManualIsInt DEF Manual, Administrative
<1>5. CASE w # u
  <2>1. ledger'[w] = ledger[w]
    BY <1>5, BooksTyped DEF Pays
  <2> HIDE DEF manual, amounts
  <2> QED
    BY <1>1, <1>2, <1>5, <2>1
<1>6. CASE w = u
  <2> DEFINE rows == ledger[w]
             n == Len(rows)
             more == ledger'[w]
  <2>1. PICK e : e.type = type /\ e.amount = amount /\ more = Append(rows, e)
    BY <1>6, BooksTyped DEF Pays
  <2>2. /\ n \in Nat /\ Len(more) = n + 1 /\ more[n + 1] = e
        /\ \A i \in 1..n : more[i] = rows[i]
    BY <1>1, <2>1
  <2>3. /\ \A i \in 1..n : amounts(more)[i] = amounts(rows)[i]
        /\ amounts(more)[n + 1] = amount
    BY <2>1, <2>2
  <2>4. manual(more) = IF type \in Administrative THEN manual(rows) \union {n + 1}
                       ELSE manual(rows)
    <3> HIDE DEF more, rows, n
    <3>1. \A i \in 1..(n + 1) : i \in 1..n \/ i = n + 1
      BY <2>2
    <3>2. n + 1 \in 1..(n + 1) /\ \A i \in 1..n : i \in 1..(n + 1)
      BY <2>2
    <3>3. /\ manual(more) = {i \in 1..(n + 1) : more[i].type \in Administrative}
          /\ manual(rows) = {i \in 1..n : more[i].type \in Administrative}
      BY <2>2 DEF n
    <3> HIDE DEF manual
    <3> QED
      BY <2>1, <2>2, <3>1, <3>2, <3>3
  <2>5. manual(rows) \subseteq 1..n /\ n + 1 \notin manual(rows) /\ IsFiniteSet(manual(rows))
    BY <1>3, <2>2
  <2>6. SumFunctionOnSet(amounts(more), manual(rows)) = ManualChange(w)
    <3>1. \A i \in manual(rows) : amounts(more)[i] = amounts(rows)[i]
      BY <2>3, <2>5
    <3>2. ManualChange(w) = SumFunctionOnSet(amounts(rows), manual(rows))
      BY <1>2
    <3> HIDE DEF manual, amounts, rows, more, n
    <3> QED
      BY <2>5, <3>1, <3>2, SumSame
  <2>7. CASE type \in Administrative
    <3>1. \A i \in manual(rows) \union {n + 1} : amounts(more)[i] \in Int
      BY <1>1, <2>3, <2>5
    <3>2. SumFunctionOnSet(amounts(more), manual(rows) \union {n + 1})
            = SumFunctionOnSet(amounts(more), manual(rows)) + amounts(more)[n + 1]
      <4> HIDE DEF manual, amounts, rows, more, n
      <4> QED
        BY <2>5, <3>1, SumAdds
    <3>3. ManualChange(w)' = ManualChange(w) + amount
      <4>1. ManualChange(w)' = SumFunctionOnSet(amounts(more), manual(rows) \union {n + 1})
        BY <1>2, <2>4, <2>7
      <4> HIDE DEF manual, amounts, rows, more, n
      <4> QED
        BY <2>3, <2>6, <3>2, <4>1
    <3> QED
      BY <1>1, <1>6, <2>7, <3>3
  <2>8. CASE type \notin Administrative
    <3>1. ManualChange(w)' = ManualChange(w)
      BY <1>2, <2>4, <2>6, <2>8
    <3> QED
      BY <1>1, <1>6, <2>8, <3>1
  <2> QED
    BY <2>7, <2>8
<1> QED
  BY <1>5, <1>6

\* A step that pays nothing leaves the sums of every ledger alone.
LEMMA NothingPaid ==
  ASSUME UNCHANGED ledger, NEW w \in Users
  PROVE  ManualChange(w)' = ManualChange(w)
BY DEF ManualChange, Manual

-----------------------------------------------------------------------------
(* Every step pays one user, or nobody, and is counted once.               *)

BooksIInv == BalanceExplained /\ \A u \in Users : IsFiniteSet(Returned(u))

\* What BooksIInv says of one user.
Explained(u) ==
  balance[u] = Opening[u] + totalDeposits[u] - totals[u].spending
               + RefundedTo(u) + ManualChange(u)

\* An administrator's confirmation is counted among the manual changes.
LEMMA AdministrationExplained ==
  ASSUME ComponentsIInv, ComponentsIInv', NEW u \in Users, Explained(u),
         IsFiniteSet(Returned(u)), AccountsNext, UNCHANGED <<order, totals, totalDeposits>>
  PROVE  Explained(u)' /\ IsFiniteSet(Returned(u)')
<1>1. /\ balance[u] \in Int /\ Opening[u] \in Int /\ totalDeposits[u] \in Int
      /\ totals[u].spending \in Int /\ RefundedTo(u) \in Int /\ ManualChange(u) \in Int
  BY BooksTyped, ReturnedIsInt, ManualIsInt
<1>2. RefundedTo(u)' = RefundedTo(u) /\ IsFiniteSet(Returned(u)')
  BY ReturnedSame
<1>3. CASE UNCHANGED <<balance, ledger>>
  BY <1>2, <1>3, NothingPaid DEF Explained
<1>4. ASSUME NEW w \in Users, NEW type \in Administrative, NEW amount \in Int,
             Pays(w, type, amount)
      PROVE  Explained(u)'
  <2>1. /\ balance'[u] = IF u = w THEN balance[u] + amount ELSE balance[u]
        /\ ManualChange(u)' = IF u = w THEN ManualChange(u) + amount ELSE ManualChange(u)
    BY <1>4, PaymentCounted
  <2> QED
    BY <1>1, <1>2, <1>4, <2>1 DEF Explained
<1> QED
  BY <1>2, <1>3, <1>4, SharedAccounts, ComponentsAssumed, AdministrationPays
     DEF Administrative

\* A step of Orders: a reservation, a refund, an administrator's, or no payment.
LEMMA OrderingExplained ==
  ASSUME ComponentsIInv, ComponentsIInv', BooksIInv, OP!Next, UNCHANGED depositVars,
         NEW u \in Users
  PROVE  Explained(u)' /\ IsFiniteSet(Returned(u)')
<1>1. /\ Explained(u) /\ IsFiniteSet(Returned(u)) /\ totalDeposits' = totalDeposits
      /\ \A o \in Purchases : IsFiniteSet(Returned(Owner[o]))
  BY BooksTyped DEF BooksIInv, BalanceExplained, Explained, depositVars
<1>2. /\ balance[u] \in Int /\ Opening[u] \in Int /\ totalDeposits[u] \in Int
      /\ totals[u].spending \in Int /\ RefundedTo(u) \in Int /\ ManualChange(u) \in Int
  BY <1>1, BooksTyped, ReturnedIsInt, ManualIsInt
<1>3. CASE \E b \in Purchases : OP!Reserves(b)
  <2>1. PICK b \in Purchases : OP!Reserves(b)
    BY <1>3
  <2> DEFINE price == order'[b].price
  <2>2. /\ Pays(Owner[b], "otp_purchase", -price) /\ price \in Nat /\ Owner[b] \in Users
        /\ totals'[u].spending = IF u = Owner[b] THEN totals[u].spending + price
                                 ELSE totals[u].spending
        /\ order[b].status = "none" /\ order'[b].status = "processing"
        /\ \A o \in Purchases \ {b} : order'[o] = order[o]
    BY <2>1, SameSteps, BooksTyped DEF OP!Reserves
  <2>3. RefundedTo(u)' = RefundedTo(u) /\ IsFiniteSet(Returned(u)')
    BY <1>1, <2>2, ReturnedSame
  <2>4. /\ balance'[u] = IF u = Owner[b] THEN balance[u] + (-price) ELSE balance[u]
        /\ ManualChange(u)' = ManualChange(u)
    <3>1. -price \in Int /\ "otp_purchase" \notin Administrative
      BY <2>2 DEF Administrative
    <3> HIDE DEF price
    <3> QED
      BY <2>2, <3>1, PaymentCounted
  <2> HIDE DEF price
  <2> QED
    BY <1>1, <1>2, <2>2, <2>3, <2>4 DEF Explained
<1>4. CASE \E o \in Purchases : OP!Refunds(o)
  <2>1. PICK o \in Purchases : OP!Refunds(o)
    BY <1>4
  <2> DEFINE price == order[o].price
  <2>2. /\ Pays(Owner[o], "refund", price) /\ price \in Int /\ Owner[o] \in Users
        /\ totals' = totals
        /\ order[o].status # "refunded" /\ order'[o].status = "refunded"
        /\ order'[o].price = order[o].price
        /\ \A p \in Purchases \ {o} : order'[p] = order[p]
    BY <2>1, SameSteps, BooksTyped DEF OP!Refunds
  <2>3. /\ RefundedTo(u)' = IF u = Owner[o] THEN RefundedTo(u) + price ELSE RefundedTo(u)
        /\ IsFiniteSet(Returned(u)')
    <3>1. CASE u = Owner[o]
      BY <1>1, <2>2, <3>1, ReturnedMore
    <3>2. CASE u # Owner[o]
      BY <1>1, <2>2, <3>2, ReturnedSame
    <3> QED
      BY <3>1, <3>2
  <2>4. /\ balance'[u] = IF u = Owner[o] THEN balance[u] + price ELSE balance[u]
        /\ ManualChange(u)' = ManualChange(u)
    <3>1. "refund" \notin Administrative
      BY DEF Administrative
    <3> HIDE DEF price
    <3> QED
      BY <2>2, <3>1, PaymentCounted
  <2> HIDE DEF price
  <2> QED
    BY <1>1, <1>2, <2>2, <2>3, <2>4 DEF Explained
<1>5. CASE OP!AccountsNext /\ UNCHANGED OP!orderVars
  <2>1. AccountsNext /\ UNCHANGED <<order, totals>>
    BY <1>5, SameAccountsNext DEF OP!orderVars
  <2> QED
    BY <1>1, <2>1, AdministrationExplained
<1>6. CASE OP!MovesNoMoney
  <2>1. /\ UNCHANGED <<balance, ledger, totals>>
        /\ \A o \in Purchases :
             /\ order'[o].status = "refunded" <=> order[o].status = "refunded"
             /\ order'[o].price = order[o].price
    BY <1>6 DEF OP!MovesNoMoney
  <2>2. RefundedTo(u)' = RefundedTo(u) /\ IsFiniteSet(Returned(u)')
    BY <1>1, <2>1, ReturnedSame
  <2> QED
    BY <1>1, <2>1, <2>2, NothingPaid DEF Explained
<1> QED
  BY <1>3, <1>4, <1>5, <1>6, ComponentsAssumed, OP!OrdersPay DEF ComponentsIInv

\* A step of Deposits: an approval, an administrator's, or no payment.
LEMMA DepositingExplained ==
  ASSUME ComponentsIInv, ComponentsIInv', BooksIInv, DP!Next, UNCHANGED orderVars,
         NEW u \in Users
  PROVE  Explained(u)' /\ IsFiniteSet(Returned(u)')
<1>1. /\ Explained(u) /\ IsFiniteSet(Returned(u)) /\ UNCHANGED <<order, totals>>
  BY DEF BooksIInv, BalanceExplained, Explained, orderVars
<1>2. /\ balance[u] \in Int /\ Opening[u] \in Int /\ totalDeposits[u] \in Int
      /\ totals[u].spending \in Int /\ RefundedTo(u) \in Int /\ ManualChange(u) \in Int
  BY <1>1, BooksTyped, ReturnedIsInt, ManualIsInt
<1>3. RefundedTo(u)' = RefundedTo(u) /\ IsFiniteSet(Returned(u)')
  BY <1>1, ReturnedSame
<1>4. CASE UNCHANGED <<balance, ledger, totalDeposits>>
  BY <1>1, <1>3, <1>4, NothingPaid DEF Explained
<1>5. ASSUME NEW w \in Users, NEW amount \in Nat, DP!Pays(w, "deposit", amount),
             totalDeposits' = [totalDeposits EXCEPT ![w] = totalDeposits[w] + amount]
      PROVE  Explained(u)'
  <2>1. Pays(w, "deposit", amount) /\ amount \in Int /\ "deposit" \notin Administrative
    BY <1>5, SameSteps DEF Administrative
  <2>2. /\ balance'[u] = IF u = w THEN balance[u] + amount ELSE balance[u]
        /\ ManualChange(u)' = ManualChange(u)
    BY <2>1, PaymentCounted
  <2>3. totalDeposits'[u] = IF u = w THEN totalDeposits[u] + amount ELSE totalDeposits[u]
    BY <1>5, BooksTyped
  <2> QED
    BY <1>1, <1>2, <1>3, <1>5, <2>2, <2>3 DEF Explained
<1>6. CASE DP!AccountsNext /\ UNCHANGED totalDeposits
  <2>1. AccountsNext
    BY <1>6, SameAccountsNext
  <2> QED
    BY <1>1, <1>6, <2>1, AdministrationExplained
<1> QED
  BY <1>3, <1>4, <1>5, <1>6, ComponentsAssumed, DP!DepositsPay DEF ComponentsIInv

\* Every step of either component keeps the books explained.
LEMMA BooksInductive ==
  ASSUME ComponentsIInv, ComponentsIInv', BooksIInv, [Next]_vars
  PROVE  BooksIInv'
<1> SUFFICES ASSUME NEW u \in Users
             PROVE  Explained(u)' /\ IsFiniteSet(Returned(u)')
  BY DEF BooksIInv, BalanceExplained, Explained
<1>1. CASE Ordering(O!Next)
  BY <1>1, SameOrdersNext, OrderingExplained DEF Ordering
<1>2. CASE Depositing(D!Next)
  BY <1>2, SameDepositsNext, DepositingExplained DEF Depositing
<1>3. CASE UNCHANGED vars
  <2>1. UNCHANGED <<balance, ledger, totalDeposits, totals, order>>
    BY <1>3 DEF vars, accountVars, depositVars, orderVars
  <2>2. Explained(u) /\ IsFiniteSet(Returned(u))
    BY DEF BooksIInv, BalanceExplained, Explained
  <2>3. RefundedTo(u)' = RefundedTo(u) /\ IsFiniteSet(Returned(u)')
    BY <2>1, <2>2, ReturnedSame
  <2> QED
    BY <2>1, <2>2, <2>3, NothingPaid DEF Explained
<1> QED
  BY <1>1, <1>2, <1>3 DEF Next

\* Opening the wallets explains every balance.
LEMMA BooksInitially ==
  ASSUME Init
  PROVE  BooksIInv
<1> SUFFICES ASSUME NEW u \in Users
             PROVE  Explained(u) /\ IsFiniteSet(Returned(u))
  BY DEF BooksIInv, BalanceExplained, Explained
<1>1. O!Init /\ D!Init /\ O!AccountsInit
  BY DEF Init, O!Init
<1>2. Returned(u) = {}
  BY <1>1 DEF Returned, O!Init, O!NewRow
<1>3. Manual(u) = {}
  <2>1. Len(ledger[u]) = 0
    BY <1>1 DEF O!AccountsInit
  <2>2. 1..Len(ledger[u]) = {}
    BY <2>1
  <2> QED
    BY <2>2 DEF Manual
<1>4. RefundedTo(u) = 0 /\ ManualChange(u) = 0
  BY <1>2, <1>3, SumEmpty DEF RefundedTo, ManualChange
<1>5. /\ balance[u] = Opening[u] /\ totalDeposits[u] = 0 /\ totals[u].spending = 0
      /\ Opening[u] \in Int
  BY <1>1, ComponentsAssumed DEF AccountsAssumption, O!AccountsInit, O!Init, D!Init, O!NoTotals
<1> QED
  BY <1>2, <1>4, <1>5, FS_EmptySet DEF Explained

\* The books balance across the components: whatever purchases, refunds,
\* approvals, confirmations and crashes interleave, a wallet holds what was
\* deposited less what was spent, plus the prices of the refunded orders and
\* the administrators' changes.
THEOREM BooksBalance == Spec => []BalanceExplained
<1>1. Init => BooksIInv
  BY BooksInitially
<1>2. ComponentsIInv /\ ComponentsIInv' /\ BooksIInv /\ [Next]_vars => BooksIInv'
  BY BooksInductive
<1>3. BooksIInv => BalanceExplained
  BY DEF BooksIInv
<1> QED
  BY <1>1, <1>2, <1>3, ComponentsAlways, PTL DEF Spec
=============================================================================
