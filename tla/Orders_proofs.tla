--------------------------- MODULE Orders_proofs ---------------------------
(***************************************************************************)
(* Buying a number, for every set of users, purchases, workers and prices. *)
(*                                                                         *)
(* The induction goes in two layers.  MoneyIInv says that a wallet is held *)
(* by exactly the session that is about to write it, so that the lemmas of *)
(* Accounts_proofs apply to every commit.  LifeIInv, which needs           *)
(* MoneyIInv, says what each handler and each worker may still assume of   *)
(* an order it has read before.  On both rest the action properties, the   *)
(* refinement of Escrow and what relates orders to the ledger and to the   *)
(* totals of their owner.                                                  *)
(***************************************************************************)
EXTENDS Orders, Accounts_proofs, SequenceTheorems

-----------------------------------------------------------------------------
(* What the callers of GrizzlyClient may conclude from what they read, for *)
(* every answer that may come back.                                        *)

\* The three replies that end confirm_buy, told apart (client.py and the three
\* branches of confirm_buy): an error, which is refunded, is never read from an
\* answer that hides whether Grizzly acted, nor from a whole answer with a
\* number; a number is only read where one was allocated.
THEOREM BuyerIsNotMisled ==
  ASSUME NEW got, NEW a \in NumberAnswers(got)
  PROVE  /\ BuyerReads(a) \in Replies
         /\ BuyerReads(a) = "ok" => got = "active"
         /\ BuyerReads(a) = "error" => got \in {"none", "stray"}
         /\ BuyerReads(a) = "unknown" <=> Unknown(a)
<1>1. a \in Answer /\ got \in {"none", "active", "stray"}
  BY DEF NumberAnswers
<1>2. BuyerReads(a) \in Replies
  BY DEF BuyerReads, Replies
<1>3. BuyerReads(a) = "unknown" <=> Unknown(a)
  BY DEF BuyerReads
<1>4. CASE got = "none"
  <2>1. BuyerReads(a) # "ok"
    BY <1>4 DEF NumberAnswers, BuyerReads, HasNumber, Raises, Unknown
  <2> QED
    BY <1>2, <1>3, <1>4, <2>1
<1>5. CASE got = "stray"
  <2>1. BuyerReads(a) # "ok"
    BY <1>5 DEF NumberAnswers, BuyerReads, HasNumber, Raises, Unknown
  <2> QED
    BY <1>2, <1>3, <1>5, <2>1
<1>6. CASE got = "active"
  <2>1. ~Unknown(a) => HasNumber(a) /\ ~Raises(a)
    BY <1>6 DEF NumberAnswers, HasNumber, Raises, Unknown
  <2>2. BuyerReads(a) # "error"
    BY <2>1 DEF BuyerReads, SaysOk
  <2> QED
    BY <1>2, <1>3, <1>6, <2>2
<1> QED
  BY <1>1, <1>4, <1>5, <1>6

\* Whatever the form of the answer, a code is read only where Grizzly holds
\* one, and a cancellation only where there is one (poll_orders).
THEOREM WorkerIsNotMisled ==
  ASSUME NEW forms, NEW a
  PROVE  /\ WorkerReads(a) \in Answers
         /\ a \in CodeAnswers(forms) => WorkerReads(a) # "cancel"
         /\ a \in CancelAnswers(forms) => WorkerReads(a) # "otp"
<1>1. WorkerReads(a) \in Answers
  BY DEF WorkerReads, Answers
<1>2. ASSUME a \in CodeAnswers(forms) PROVE WorkerReads(a) # "cancel"
  BY <1>2 DEF CodeAnswers, WorkerReads, SaysCancelled
<1>3. ASSUME a \in CancelAnswers(forms) PROVE WorkerReads(a) # "otp"
  <2>1. ~HasCode(a)
    BY <1>3 DEF CancelAnswers, HasCode
  <2> QED
    BY <2>1 DEF WorkerReads
<1> QED
  BY <1>1, <1>2, <1>3

-----------------------------------------------------------------------------
(* Sessions of different kinds never take each other's locks.              *)

\* A purchase is a session, and neither a worker nor a confirmation.
LEMMA PurchaseIsSession ==
  ASSUME OrdersAssumption, AccountsAssumption, NEW b \in Purchases
  PROVE  /\ b \in Sessions \ Adjusts /\ b \notin Pollers /\ b # Free
         /\ Owner[b] \in Users /\ b \in Refs \union {NoRef}
  BY DEF OrdersAssumption, AccountsAssumption

\* A worker is a session, and neither a purchase nor a confirmation.
LEMMA PollerIsSession ==
  ASSUME OrdersAssumption, AccountsAssumption, NEW s \in Pollers
  PROVE  s \in Sessions \ Adjusts /\ s \notin Purchases /\ s # Free
  BY DEF OrdersAssumption, AccountsAssumption

\* What confirm_buy may read once Grizzly has acted.
LEMMA RepliesTell ==
  ASSUME NEW got \in {"none", "active", "stray"}, NEW reply \in RepliesTo[got]
  PROVE  /\ reply \in Replies /\ got \in Holdings
         /\ reply = "ok" => got \notin {"none", "stray"}
         /\ reply = "error" => got \in {"none", "stray"}
<1>1. PICK a \in NumberAnswers(got) : reply = BuyerReads(a)
  BY DEF RepliesTo
<1> QED
  BY <1>1, BuyerIsNotMisled DEF Holdings

\* What poll_orders may read of a number in Grizzly's hands.
LEMMA AnswersTell ==
  ASSUME NEW held \in Holdings, NEW answer \in AnswersTo[held]
  PROVE  /\ answer \in Answers
         /\ answer = "otp" => held = "code"
         /\ answer = "cancel" => held = "cancelled"
<1>1. CASE held = "code"
  <2>1. PICK a \in CodeAnswers(CodeForms) : answer = WorkerReads(a)
    BY <1>1 DEF AnswersTo
  <2> QED
    BY <1>1, <2>1, WorkerIsNotMisled
<1>2. CASE held = "cancelled"
  <2>1. PICK a \in CancelAnswers(CancelForms) : answer = WorkerReads(a)
    BY <1>2 DEF AnswersTo
  <2> QED
    BY <1>2, <2>1, WorkerIsNotMisled
<1>3. CASE held \notin {"code", "cancelled"}
  <2>1. answer = "other"
    BY <1>3 DEF AnswersTo
  <2> QED
    BY <2>1 DEF Answers
<1> QED
  BY <1>1, <1>2, <1>3

-----------------------------------------------------------------------------
(* Types of the updates.                                                   *)

\* Every update the handlers make to a row of orders keeps its type.
LEMMA OrderRowUpdates ==
  ASSUME NEW row \in OrderRow, NEW price \in Nat, NEW answer \in Answers \union {"none"}
  PROVE  /\ [row EXCEPT !.status = "processing", !.price = price,
                        !.events = <<"created">>] \in OrderRow
         /\ [row EXCEPT !.status = "manual_reconciliation",
                        !.events = Append(row.events, "manual_reconciliation")] \in OrderRow
         /\ [row EXCEPT !.status = "waiting_for_otp", !.activation = TRUE] \in OrderRow
         /\ [row EXCEPT !.refunded = TRUE, !.status = "refunded",
                        !.events = Append(row.events, "refunded"), !.last = answer] \in OrderRow
         /\ [row EXCEPT !.last = "otp", !.status = "completed"] \in OrderRow
         /\ [row EXCEPT !.last = "other"] \in OrderRow
         /\ [row EXCEPT !.aged = TRUE] \in OrderRow
<1> DEFINE stories == Seq({"created", "manual_reconciliation", "refunded"})
<1>1. /\ <<"created">> \in stories
      /\ Append(row.events, "manual_reconciliation") \in stories
      /\ Append(row.events, "refunded") \in stories
  BY DEF OrderRow
<1>2. [row EXCEPT !.status = "processing", !.price = price,
                  !.events = <<"created">>] \in OrderRow
  BY <1>1 DEF OrderRow, Statuses
<1>3. [row EXCEPT !.status = "manual_reconciliation",
                  !.events = Append(row.events, "manual_reconciliation")] \in OrderRow
  BY <1>1 DEF OrderRow, Statuses
<1>4. [row EXCEPT !.status = "waiting_for_otp", !.activation = TRUE] \in OrderRow
  BY <1>1 DEF OrderRow, Statuses
<1>5. [row EXCEPT !.refunded = TRUE, !.status = "refunded",
                  !.events = Append(row.events, "refunded"), !.last = answer] \in OrderRow
  BY <1>1 DEF OrderRow, Statuses
<1>6. /\ [row EXCEPT !.last = "otp", !.status = "completed"] \in OrderRow
      /\ [row EXCEPT !.last = "other"] \in OrderRow
      /\ [row EXCEPT !.aged = TRUE] \in OrderRow
  BY <1>1 DEF OrderRow, Statuses, Answers
<1> QED
  BY <1>2, <1>3, <1>4, <1>5, <1>6

\* Every update a purchase makes to its own state keeps its type.
LEMMA BuyStateUpdates ==
  ASSUME NEW row \in BuyState, NEW t \in Totals, NEW price \in Nat, NEW r \in Replies
  PROVE  /\ \A pc \in {"reserve", "request", "refund", "credit"} :
              [row EXCEPT !.pc = pc] \in BuyState
         /\ [row EXCEPT !.pc = "gates", !.row = t] \in BuyState
         /\ [row EXCEPT !.pc = "wallet", !.price = price] \in BuyState
         /\ [row EXCEPT !.pc = "reply", !.reply = r] \in BuyState
         /\ [NewBuy EXCEPT !.pc = "done"] \in BuyState
         /\ row.price \in Nat /\ row.row \in Totals
  BY DEF BuyState, NewBuy, NoTotals, Totals, Replies

\* Every update a worker makes to its own state keeps its type.
LEMMA PollStateUpdates ==
  ASSUME NEW row \in PollState, NEW o \in Purchases, NEW answer \in Answers,
         NEW todo \in SUBSET Purchases, NEW stale \in SUBSET Purchases
  PROVE  /\ [row EXCEPT !.pc = "pass", !.todo = todo, !.stale = stale] \in PollState
         /\ [row EXCEPT !.pc = "apply", !.cur = o, !.answer = answer] \in PollState
         /\ [row EXCEPT !.todo = @ \ {o}] \in PollState
         /\ [row EXCEPT !.pc = "notify"] \in PollState
         /\ [row EXCEPT !.pc = "wallet"] \in PollState
         /\ [row EXCEPT !.pc = "credit"] \in PollState
         /\ [row EXCEPT !.pc = "pass", !.todo = @ \ {row.cur}, !.cur = NoRef,
                        !.answer = "none"] \in PollState
         /\ [row EXCEPT !.stale = @ \ {o}, !.marked = @ \union {o}] \in PollState
         /\ [row EXCEPT !.stale = @ \ {o}, !.marked = @] \in PollState
         /\ Asleep \in PollState
  BY DEF PollState, Asleep

\* The parts of TypeOK a step must restore besides the accounts.
LEMMA TypeParts ==
  ASSUME AccountsIInv',
         order' \in [Purchases -> OrderRow],
         orderLock' \in [Purchases -> Sessions \union {Free}],
         totals' \in [Users -> Totals],
         buy' \in [Purchases -> BuyState],
         poll' \in [Pollers -> PollState],
         upstream' \in [Purchases -> Holdings],
         notified' \in [Purchases -> Nat]
  PROVE  TypeOK'
  BY DEF TypeOK, AccountsIInv

-----------------------------------------------------------------------------
(* Layer 1: who holds the wallets.                                         *)

Holders == BuyersHoldWallets /\ PollersHoldWallets /\ HandledIsOrder /\ BuyersHoldUsers

\* Every step of a purchase restores MoneyIInv.
LEMMA BuyKeepsMoney ==
  ASSUME OrdersAssumption, AccountsAssumption, MoneyIInv, NEW b \in Purchases,
         TapBuy(b) \/ BuyNext(b) \/ AbortBuy(b)
  PROVE  MoneyIInv'
<1>1. /\ b \in Sessions \ Adjusts /\ b \in Sessions /\ b \notin Pollers /\ b # Free
      /\ Owner[b] \in Users /\ b \in Refs \union {NoRef}
      /\ \A o \in Purchases : Owner[o] \in Users
      /\ \A s \in Pollers : s # b
  BY PurchaseIsSession
<1>2. TypeOK /\ AccountsIInv /\ Holders
  BY DEF MoneyIInv, Holders
<1>3. /\ order[b] \in OrderRow /\ buy[b] \in BuyState /\ totals[Owner[b]] \in Totals
      /\ order[b].price \in Nat /\ order[b].last \in Answers \union {"none"}
      /\ buy[b].price \in Nat /\ buy[b].row \in Totals
  BY <1>1, <1>2 DEF TypeOK, OrderRow, BuyState
<1> SUFFICES TypeOK' /\ AccountsIInv' /\ Holders'
  BY DEF MoneyIInv, Holders
<1>4. CASE TapBuy(b)
  <2>1. AccountsIInv'
    BY <1>1, <1>2, <1>4, UserLockStep DEF TapBuy, TypeOK, AccountsTypeOK
  <2>2. [buy[b] EXCEPT !.pc = "gates", !.row = totals[Owner[b]]] \in BuyState
    BY <1>3, BuyStateUpdates DEF Replies
  <2>3. TypeOK'
    BY <1>2, <1>4, <2>1, <2>2, TypeParts DEF TapBuy, TypeOK
  <2>4. /\ UNCHANGED <<walletLock, blocked, poll>> /\ userLock[Owner[b]] = Free
        /\ userLock' = [userLock EXCEPT ![Owner[b]] = b] /\ buy[b].pc = "idle"
        /\ buy'[b].pc = "gates" /\ \A o \in Purchases \ {b} : buy'[o] = buy[o]
        /\ buy \in [Purchases -> BuyState] /\ userLock \in [Users -> Sessions \union {Free}]
    BY <1>2, <1>3, <1>4 DEF TapBuy, TypeOK, AccountsTypeOK, BuyState
  <2>5. BuyersHoldWallets' /\ PollersHoldWallets' /\ HandledIsOrder'
    BY <1>2, <2>4 DEF Holders, BuyersHoldWallets, PollersHoldWallets, HandledIsOrder
  <2>6. BuyersHoldUsers'
    BY <1>1, <1>2, <2>4, PurchaseIsSession DEF Holders, BuyersHoldUsers
  <2> QED
    BY <2>1, <2>3, <2>5, <2>6 DEF Holders
<1>5. CASE TurnedAway(b) \/ TooPoor(b) \/ AbortBuy(b)
  <2>1. /\ Release(b) /\ buy' = [buy EXCEPT ![b] = [NewBuy EXCEPT !.pc = "done"]]
        /\ UNCHANGED <<balance, ledger, blocked, adjust, order, totals, poll,
                       upstream, notified>>
        /\ orderLock' \in [Purchases -> Sessions \union {Free}]
    BY <1>2, <1>5 DEF TurnedAway, TooPoor, AbortBuy, EndBuy, ReleaseAll, TypeOK, Unlocked
  <2>2. /\ AccountsIInv'
        /\ \A u \in Users : walletLock'[u] = IF walletLock[u] = b THEN Free ELSE walletLock[u]
    BY <1>1, <1>2, <2>1, RollbackStep
  <2>3. [NewBuy EXCEPT !.pc = "done"] \in BuyState
    BY <1>3, BuyStateUpdates DEF Replies
  <2>4. TypeOK'
    BY <1>2, <2>1, <2>2, <2>3, TypeParts DEF TypeOK
  <2>5. Holders'
    BY <1>1, <1>2, <2>1, <2>2 DEF NewBuy, TypeOK, AccountsTypeOK, Holders,
       BuyersHoldWallets, PollersHoldWallets, HandledIsOrder, BuyersHoldUsers, Release, Unlocked
  <2> QED
    BY <2>2, <2>4, <2>5
<1>6. CASE PassGates(b)
  <2>1. AccountsIInv'
    BY <1>2, <1>6, AccountsStutter DEF PassGates
  <2>2. PICK price \in Prices :
          buy' = [buy EXCEPT ![b] = [@ EXCEPT !.pc = "wallet", !.price = price]]
    BY <1>6 DEF PassGates
  <2>3. [buy[b] EXCEPT !.pc = "wallet", !.price = price] \in BuyState
    BY <1>3, BuyStateUpdates DEF OrdersAssumption, Replies
  <2>4. TypeOK'
    BY <1>2, <1>6, <2>1, <2>2, <2>3, TypeParts DEF PassGates, TypeOK
  <2>5. Holders'
    BY <1>1, <1>2, <1>6, <2>2 DEF PassGates, accountVars, TypeOK, Holders,
       BuyersHoldWallets, PollersHoldWallets, HandledIsOrder, BuyersHoldUsers
  <2> QED
    BY <2>1, <2>4, <2>5
<1>7. CASE LockFunds(b) \/ LockRefund(b)
  <2>1. PICK pc \in {"reserve", "credit"} :
          /\ buy' = [buy EXCEPT ![b].pc = pc]
          /\ pc = "reserve" => buy[b].pc = "wallet"
    BY <1>7 DEF LockFunds, LockRefund, GotoBuy
  <2>2. /\ LockWallet(b, Owner[b]) /\ buy[b].pc \notin {"reserve", "credit"}
        /\ UNCHANGED <<balance, ledger, blocked, userLock, adjust, order, orderLock,
                       totals, poll, upstream, notified>>
    BY <1>7 DEF LockFunds, LockRefund
  <2>3. \A u \in Users : walletLock[u] # b
    BY <1>2, <2>2 DEF Holders, BuyersHoldWallets
  <2>4. AccountsIInv' /\ walletLock' = [walletLock EXCEPT ![Owner[b]] = b]
    BY <1>1, <1>2, <2>2, <2>3, LockStep
  <2>5. [buy[b] EXCEPT !.pc = pc] \in BuyState
    BY <1>3, BuyStateUpdates DEF Replies
  <2>6. TypeOK'
    BY <1>2, <2>1, <2>2, <2>4, <2>5, TypeParts DEF TypeOK
  <2>7. /\ buy'[b].pc = pc /\ \A o \in Purchases \ {b} : buy'[o] = buy[o]
        /\ walletLock[Owner[b]] = Free
        /\ \A u \in Users : walletLock'[u] = IF u = Owner[b] THEN b ELSE walletLock[u]
    BY <1>1, <1>2, <1>3, <2>1, <2>2, <2>4 DEF LockWallet, TypeOK, AccountsTypeOK, BuyState
  <2>8. BuyersHoldWallets' /\ PollersHoldWallets' /\ HandledIsOrder'
    BY <1>1, <1>2, <2>2, <2>3, <2>7, PurchaseIsSession, PollerIsSession
       DEF Holders, BuyersHoldWallets, PollersHoldWallets, HandledIsOrder
  <2>9. BuyersHoldUsers'
    BY <1>2, <2>1, <2>2, <2>7 DEF Holders, BuyersHoldUsers
  <2> QED
    BY <2>4, <2>6, <2>8, <2>9 DEF Holders
<1>8. CASE Reserve(b) \/ RefundReservation(b)
  <2>1. walletLock[Owner[b]] = b
    BY <1>1, <1>2, <1>8 DEF Reserve, RefundReservation, Holders, BuyersHoldWallets
  <2>2. \E type \in EntryTypes, amount \in Int :
          ChangeBalance(b, Owner[b], type, amount, b)
    <3>1. -buy[b].price \in Int /\ order[b].price \in Int
      BY <1>3
    <3>2. "otp_purchase" \in EntryTypes /\ "refund" \in EntryTypes
      BY DEF EntryTypes
    <3> QED
      BY <1>8, <3>1, <3>2 DEF Reserve, RefundReservation, CommitRefund
  <2>3. Release(b) /\ UNCHANGED <<blocked, adjust>>
    BY <1>8 DEF Reserve, RefundReservation, CommitRefund, ReleaseAll
  <2>4. /\ AccountsIInv'
        /\ \A u \in Users : walletLock'[u] = IF walletLock[u] = b THEN Free ELSE walletLock[u]
    BY <1>1, <1>2, <2>1, <2>2, <2>3, CommitStep
  <2>5. PICK row \in BuyState :
          row.pc \in {"request", "done"} /\ buy' = [buy EXCEPT ![b] = row]
    <3>1. /\ [buy[b] EXCEPT !.pc = "request"] \in BuyState
          /\ [NewBuy EXCEPT !.pc = "done"] \in BuyState
      BY <1>3, BuyStateUpdates DEF Replies
    <3> QED
      BY <1>3, <1>8, <3>1 DEF Reserve, RefundReservation, EndBuy, GotoBuy, NewBuy, BuyState
  <2>6. /\ order' \in [Purchases -> OrderRow] /\ totals' \in [Users -> Totals]
        /\ orderLock' \in [Purchases -> Sessions \union {Free}]
        /\ UNCHANGED <<poll, upstream, notified>>
    <3>1. CASE Reserve(b)
      <4>1. [order[b] EXCEPT !.status = "processing", !.price = buy[b].price,
                             !.events = <<"created">>] \in OrderRow
        BY <1>3, OrderRowUpdates
      <4>2. [orders |-> buy[b].row.orders + 1,
             spending |-> buy[b].row.spending + buy[b].price] \in Totals
        BY <1>3 DEF Totals
      <4> QED
        BY <1>2, <3>1, <4>1, <4>2 DEF Reserve, TypeOK
    <3>2. CASE RefundReservation(b)
      <4>1. [order[b] EXCEPT !.refunded = TRUE, !.status = "refunded",
               !.events = Append(order[b].events, "refunded"), !.last = order[b].last] \in OrderRow
        BY <1>3, OrderRowUpdates
      <4>2. order' \in [Purchases -> OrderRow]
        BY <1>2, <3>2, <4>1 DEF RefundReservation, CommitRefund, TypeOK
      <4>3. /\ orderLock' \in [Purchases -> Sessions \union {Free}]
            /\ UNCHANGED <<totals, poll, upstream, notified>>
        BY <1>2, <3>2 DEF RefundReservation, CommitRefund, ReleaseAll, Unlocked, TypeOK
      <4> QED
        BY <1>2, <4>2, <4>3 DEF TypeOK
    <3> QED
      BY <1>8, <3>1, <3>2
  <2>7. TypeOK'
    BY <1>2, <2>4, <2>5, <2>6, TypeParts DEF TypeOK
  <2>8. /\ buy'[b].pc \in {"request", "done"} /\ buy[b].pc \in {"reserve", "credit"}
        /\ \A o \in Purchases \ {b} : buy'[o] = buy[o]
        /\ \A u \in Users : userLock[u] # b => userLock'[u] = userLock[u]
        /\ UNCHANGED <<blocked, poll>>
    BY <1>2, <1>8, <2>3, <2>5, <2>6 DEF TypeOK, AccountsTypeOK, Release, Unlocked, Reserve,
       RefundReservation
  <2>9. BuyersHoldWallets' /\ PollersHoldWallets' /\ HandledIsOrder'
    BY <1>1, <1>2, <2>4, <2>8, PurchaseIsSession
       DEF Holders, BuyersHoldWallets, PollersHoldWallets, HandledIsOrder
  <2>10. BuyersHoldUsers'
    BY <1>1, <1>2, <2>8 DEF Holders, BuyersHoldUsers
  <2> QED
    BY <2>4, <2>7, <2>9, <2>10 DEF Holders
<1>9. CASE \/ Request(b) \/ RecordUnknown(b) \/ RecordNumber(b) \/ NumberMissing(b)
           \/ OpenRefund(b)
  <2>1. UNCHANGED <<accountVars, poll, totals, notified>> /\ buy[b].pc \in {"request", "reply"}
    BY <1>9 DEF Request, RecordUnknown, RecordNumber, NumberMissing, OpenRefund
  <2>2. AccountsIInv'
    BY <1>2, <2>1, AccountsStutter
  <2>3. PICK row \in BuyState :
          row.pc \in {"reply", "done", "refund"} /\ buy' = [buy EXCEPT ![b] = row]
    <3>1. /\ [buy[b] EXCEPT !.pc = "refund"] \in BuyState
          /\ \A r \in Replies : [buy[b] EXCEPT !.pc = "reply", !.reply = r] \in BuyState
          /\ [NewBuy EXCEPT !.pc = "done"] \in BuyState
      BY <1>3, BuyStateUpdates DEF Replies
    <3>2. CASE Request(b)
      <4>1. PICK r \in Replies :
              buy' = [buy EXCEPT ![b] = [@ EXCEPT !.pc = "reply", !.reply = r]]
        BY <3>2, RepliesTell DEF Request
      <4>2. [buy[b] EXCEPT !.pc = "reply", !.reply = r].pc = "reply"
        BY <1>3 DEF BuyState
      <4> QED
        BY <3>1, <4>1, <4>2
    <3>3. CASE RecordUnknown(b) \/ RecordNumber(b) \/ NumberMissing(b)
      BY <3>1, <3>3 DEF RecordUnknown, RecordNumber, NumberMissing, EndBuy, NewBuy
    <3>4. CASE OpenRefund(b)
      BY <1>3, <3>1, <3>4 DEF OpenRefund, GotoBuy, BuyState
    <3> QED
      BY <1>9, <3>2, <3>3, <3>4
  <2>4. /\ order' \in [Purchases -> OrderRow]
        /\ orderLock' \in [Purchases -> Sessions \union {Free}]
        /\ upstream' \in [Purchases -> Holdings]
    <3>1. /\ [order[b] EXCEPT !.status = "manual_reconciliation",
                              !.events = Append(order[b].events, "manual_reconciliation")] \in OrderRow
          /\ [order[b] EXCEPT !.status = "waiting_for_otp", !.activation = TRUE] \in OrderRow
      BY <1>3, OrderRowUpdates
    <3>2. CASE Request(b)
      BY <1>2, <3>2, RepliesTell DEF Request, TypeOK
    <3>3. CASE RecordUnknown(b)
      BY <1>2, <3>1, <3>3 DEF RecordUnknown, TypeOK
    <3>5. CASE RecordNumber(b)
      BY <1>2, <3>1, <3>5 DEF RecordNumber, TypeOK
    <3>6. CASE NumberMissing(b)
      BY <1>2, <3>6 DEF NumberMissing, TypeOK
    <3>4. CASE OpenRefund(b)
      BY <1>1, <1>2, <3>4 DEF OpenRefund, LockOrder, TypeOK
    <3> QED
      BY <1>9, <3>2, <3>3, <3>4, <3>5, <3>6
  <2>5. TypeOK'
    BY <1>2, <2>1, <2>2, <2>3, <2>4, TypeParts DEF TypeOK
  <2>6. Holders'
    BY <1>1, <1>2, <2>1, <2>3 DEF accountVars, TypeOK, Holders, BuyersHoldWallets,
       PollersHoldWallets, HandledIsOrder, BuyersHoldUsers
  <2> QED
    BY <2>2, <2>5, <2>6
<1> QED
  BY <1>4, <1>5, <1>6, <1>7, <1>8, <1>9 DEF BuyNext

\* A worker that is done with an order is back in its pass.
LEMMA NextOrderRow ==
  ASSUME TypeOK, NEW s \in Pollers, NextOrder(s)
  PROVE  \E row \in PollState :
           /\ poll' = [poll EXCEPT ![s] = row] /\ row.pc = "pass" /\ row.marked = poll[s].marked
<1> DEFINE row == [poll[s] EXCEPT !.pc = "pass", !.todo = poll[s].todo \ {poll[s].cur},
                                  !.cur = NoRef, !.answer = "none"]
<1>1. poll[s] \in PollState
  BY DEF TypeOK
<1>2. row \in PollState /\ row.pc = "pass" /\ row.marked = poll[s].marked
  BY <1>1 DEF PollState
<1> QED
  BY <1>2 DEF NextOrder

\* Every step of a worker restores MoneyIInv.
LEMMA PollKeepsMoney ==
  ASSUME OrdersAssumption, AccountsAssumption, MoneyIInv, NEW s \in Pollers,
         PollNext(s) \/ StatusUnavailable(s) \/ AbortPoll(s)
  PROVE  MoneyIInv'
<1>1. /\ s \in Sessions \ Adjusts /\ s \in Sessions /\ s \notin Purchases /\ s # Free
      /\ \A b \in Purchases : b # s /\ Owner[b] \in Users /\ b \in Refs \union {NoRef}
  BY PollerIsSession, PurchaseIsSession
<1>2. TypeOK /\ AccountsIInv /\ Holders
  BY DEF MoneyIInv, Holders
<1>3. /\ poll[s] \in PollState /\ poll[s].todo \subseteq Purchases
      /\ poll[s].stale \subseteq Purchases /\ poll[s].marked \subseteq Purchases
      /\ poll[s].pc \in {"apply", "wallet", "credit", "notify"} => poll[s].cur \in Purchases
      /\ \A b \in Purchases : order[b] \in OrderRow /\ order[b].price \in Nat
  BY <1>2 DEF TypeOK, PollState, OrderRow, Holders, HandledIsOrder
<1> SUFFICES TypeOK' /\ AccountsIInv' /\ Holders'
  BY DEF MoneyIInv, Holders
<1>4. ASSUME UNCHANGED <<accountVars, totals, buy, upstream>>,
             poll[s].pc # "credit",
             order' \in [Purchases -> OrderRow],
             orderLock' \in [Purchases -> Sessions \union {Free}],
             notified' \in [Purchases -> Nat],
             NEW row \in PollState, poll' = [poll EXCEPT ![s] = row],
             row.pc # "credit",
             row.pc \in {"apply", "wallet", "notify"} => row.cur \in Purchases
      PROVE  TypeOK' /\ AccountsIInv' /\ Holders'
  <2>1. AccountsIInv'
    BY <1>2, <1>4, AccountsStutter
  <2>2. TypeOK'
    BY <1>2, <1>4, <2>1, TypeParts DEF TypeOK
  <2>3. Holders'
    BY <1>1, <1>2, <1>4 DEF accountVars, TypeOK, Holders, BuyersHoldWallets,
       PollersHoldWallets, HandledIsOrder, BuyersHoldUsers
  <2> QED
    BY <2>1, <2>2, <2>3
<1>5. CASE Snapshot(s)
  <2>1. PICK todo \in SUBSET Purchases, stale \in SUBSET Purchases :
          poll' = [poll EXCEPT ![s] =
            [@ EXCEPT !.pc = "pass", !.todo = todo, !.stale = stale]]
    <3>1. \A ids \in SUBSET Purchases : Limited(ids) \subseteq SUBSET Purchases
      BY DEF Limited, kSubset
    <3>2. /\ {p \in Purchases : Waiting(p)} \in SUBSET Purchases
          /\ {p \in Purchases : Unanswered(p) /\ order[p].aged} \in SUBSET Purchases
      OBVIOUS
    <3> QED
      BY <1>5, <3>1, <3>2 DEF Snapshot
  <2> DEFINE row == [poll[s] EXCEPT !.pc = "pass", !.todo = todo, !.stale = stale]
  <2>2. row \in PollState /\ row.pc = "pass"
    BY <1>3 DEF PollState
  <2>3. poll' = [poll EXCEPT ![s] = row]
    BY <2>1
  <2> HIDE DEF row
  <2> QED
    BY <1>2, <1>4, <1>5, <2>2, <2>3 DEF Snapshot, TypeOK
<1>6. CASE AskStatus(s)
  <2>1. PICK p \in Purchases, answer \in Answers :
          poll' = [poll EXCEPT ![s] =
            [@ EXCEPT !.pc = "apply", !.cur = p, !.answer = answer]]
    <3>1. PICK p \in Purchases :
            \E answer \in AnswersTo[upstream[p]] :
              poll' = [poll EXCEPT ![s] =
                [@ EXCEPT !.pc = "apply", !.cur = p, !.answer = answer]]
      BY <1>3, <1>6 DEF AskStatus
    <3>2. upstream[p] \in Holdings
      BY <1>2 DEF TypeOK
    <3> QED
      BY <3>1, <3>2, AnswersTell
  <2> DEFINE row == [poll[s] EXCEPT !.pc = "apply", !.cur = p, !.answer = answer]
  <2>2. row \in PollState /\ row.pc = "apply" /\ row.cur = p
    BY <1>3 DEF PollState
  <2>3. poll' = [poll EXCEPT ![s] = row]
    BY <2>1
  <2> HIDE DEF row
  <2> QED
    BY <1>2, <1>4, <1>6, <2>2, <2>3 DEF AskStatus, TypeOK
<1>7. CASE SkipSettled(s) \/ StatusUnavailable(s)
  <2>1. PICK p \in Purchases : poll' = [poll EXCEPT ![s] = [@ EXCEPT !.todo = poll[s].todo \ {p}]]
    BY <1>3, <1>7 DEF SkipSettled, StatusUnavailable
  <2>2. poll[s].pc = "pass"
    BY <1>7 DEF SkipSettled, StatusUnavailable
  <2> DEFINE row == [poll[s] EXCEPT !.todo = poll[s].todo \ {p}]
  <2>3. row \in PollState /\ row.pc = "pass"
    BY <1>3, <2>2 DEF PollState
  <2>4. poll' = [poll EXCEPT ![s] = row]
    BY <2>1
  <2> HIDE DEF row
  <2> QED
    BY <1>2, <1>4, <1>7, <2>2, <2>3, <2>4 DEF SkipSettled, StatusUnavailable, TypeOK
<1>8. CASE DropAnswer(s) \/ ApplyOther(s) \/ Notify(s)
  <2>1. NextOrder(s) /\ poll[s].pc \in {"apply", "notify"} /\ poll[s].cur \in Purchases
    BY <1>3, <1>8 DEF DropAnswer, ApplyOther, Notify, StillWaiting
  <2>2. PICK row \in PollState : poll' = [poll EXCEPT ![s] = row] /\ row.pc = "pass"
    BY <1>2, <2>1, NextOrderRow
  <2>3. UNCHANGED <<accountVars, orderLock, totals, buy, upstream>>
    BY <1>8 DEF DropAnswer, ApplyOther, Notify
  <2>4. order' \in [Purchases -> OrderRow]
    <3>1. [order[poll[s].cur] EXCEPT !.last = "other"] \in OrderRow
      BY <1>3, <2>1, OrderRowUpdates
    <3> QED
      BY <1>2, <1>8, <3>1 DEF DropAnswer, ApplyOther, Notify, TypeOK
  <2>5. notified' \in [Purchases -> Nat]
    BY <1>2, <1>8, <2>1 DEF DropAnswer, ApplyOther, Notify, TypeOK
  <2> QED
    BY <1>2, <1>4, <2>1, <2>2, <2>3, <2>4, <2>5 DEF TypeOK
<1>9. CASE ApplyOtp(s) \/ ApplyCancel(s)
  <2>1. poll[s].pc = "apply" /\ poll[s].cur \in Purchases
    BY <1>3, <1>9 DEF ApplyOtp, ApplyCancel, StillWaiting
  <2>2. PICK pc \in {"notify", "wallet"} : poll' = [poll EXCEPT ![s] = [@ EXCEPT !.pc = pc]]
    BY <1>9 DEF ApplyOtp, ApplyCancel
  <2> DEFINE row == [poll[s] EXCEPT !.pc = pc]
  <2>3. row \in PollState /\ row.pc = pc /\ row.cur = poll[s].cur
    BY <1>3 DEF PollState
  <2>4. poll' = [poll EXCEPT ![s] = row]
    BY <2>2
  <2> HIDE DEF row
  <2>5. UNCHANGED <<accountVars, totals, buy, upstream, notified>>
    BY <1>9 DEF ApplyOtp, ApplyCancel
  <2>6. order' \in [Purchases -> OrderRow]
    <3>1. [order[poll[s].cur] EXCEPT !.last = "otp", !.status = "completed"] \in OrderRow
      BY <1>3, <2>1, OrderRowUpdates
    <3> QED
      BY <1>2, <1>9, <3>1 DEF ApplyOtp, ApplyCancel, TypeOK
  <2>7. orderLock' \in [Purchases -> Sessions \union {Free}]
    BY <1>1, <1>2, <1>9, <2>1 DEF ApplyOtp, ApplyCancel, LockOrder, TypeOK
  <2> QED
    BY <1>2, <1>4, <2>1, <2>3, <2>4, <2>5, <2>6, <2>7 DEF TypeOK
<1>10. CASE SweepLock(s)
  <2>1. PICK p \in Purchases, marked \in SUBSET Purchases :
          /\ LockOrder(s, p)
          /\ poll' = [poll EXCEPT ![s] = [@ EXCEPT !.stale = poll[s].stale \ {p}, !.marked = marked]]
    BY <1>3, <1>10 DEF SweepLock
  <2> DEFINE row == [poll[s] EXCEPT !.stale = poll[s].stale \ {p}, !.marked = marked]
  <2>2. row \in PollState /\ row.pc = "pass"
    BY <1>3, <1>10 DEF PollState, SweepLock
  <2>3. poll' = [poll EXCEPT ![s] = row]
    BY <2>1
  <2> HIDE DEF row
  <2>4. orderLock' \in [Purchases -> Sessions \union {Free}]
    BY <1>1, <1>2, <2>1 DEF LockOrder, TypeOK
  <2> QED
    BY <1>2, <1>4, <1>10, <2>2, <2>3, <2>4 DEF SweepLock, TypeOK
<1>11. CASE SweepCommit(s)
  <2>1. Asleep \in PollState /\ Asleep.pc = "sleep"
    BY DEF Asleep, PollState
  <2>2. order' \in [Purchases -> OrderRow]
    <3>1. \A p \in Purchases :
            [order[p] EXCEPT !.status = "manual_reconciliation",
                             !.events = Append(order[p].events, "manual_reconciliation")]
              \in OrderRow
      BY <1>3, OrderRowUpdates DEF Answers
    <3> QED
      BY <1>3, <1>11, <3>1 DEF SweepCommit
  <2>3. orderLock' \in [Purchases -> Sessions \union {Free}]
    BY <1>2, <1>11 DEF SweepCommit, Unlocked, TypeOK
  <2> QED
    BY <1>2, <1>4, <1>11, <2>1, <2>2, <2>3 DEF SweepCommit, TypeOK
<1>12. CASE PollLockWallet(s)
  <2>1. /\ LockWallet(s, Owner[poll[s].cur]) /\ poll[s].pc = "wallet"
        /\ poll[s].cur \in Purchases
        /\ UNCHANGED <<balance, ledger, blocked, userLock, adjust, order, orderLock,
                       totals, buy, upstream, notified>>
    BY <1>3, <1>12 DEF PollLockWallet
  <2>2. \A u \in Users : walletLock[u] # s
    BY <1>2, <2>1 DEF Holders, PollersHoldWallets
  <2>3. AccountsIInv' /\ walletLock' = [walletLock EXCEPT ![Owner[poll[s].cur]] = s]
    BY <1>1, <1>2, <2>1, <2>2, LockStep
  <2> DEFINE row == [poll[s] EXCEPT !.pc = "credit"]
  <2>4. row \in PollState /\ row.pc = "credit" /\ row.cur = poll[s].cur
    BY <1>3 DEF PollState
  <2>5. poll' = [poll EXCEPT ![s] = row]
    BY <1>12 DEF PollLockWallet
  <2> HIDE DEF row
  <2>6. TypeOK'
    BY <1>2, <2>1, <2>3, <2>4, <2>5, TypeParts DEF TypeOK
  <2>7. /\ poll \in [Pollers -> PollState] /\ walletLock \in [Users -> Sessions \union {Free}]
        /\ UNCHANGED <<buy, blocked, userLock>>
        /\ walletLock[Owner[poll[s].cur]] = Free
    BY <1>2, <2>1 DEF TypeOK, AccountsTypeOK, LockWallet
  <2>8. BuyersHoldWallets'
    BY <1>1, <1>2, <2>1, <2>3, <2>7 DEF Holders, BuyersHoldWallets
  <2>9. PollersHoldWallets'
    BY <1>1, <1>2, <2>1, <2>2, <2>3, <2>4, <2>5, <2>7 DEF Holders, PollersHoldWallets
  <2>10. HandledIsOrder' /\ BuyersHoldUsers'
    BY <1>2, <2>1, <2>4, <2>5, <2>7 DEF Holders, HandledIsOrder, BuyersHoldUsers
  <2> QED
    BY <2>3, <2>6, <2>8, <2>9, <2>10 DEF Holders
<1>13. ASSUME AccountsIInv', Release(s),
              \A u \in Users : walletLock'[u] = IF walletLock[u] = s THEN Free ELSE walletLock[u],
              UNCHANGED <<blocked, totals, buy, upstream, notified>>,
              order' \in [Purchases -> OrderRow], orderLock' = Unlocked(orderLock, s),
              NEW row \in PollState, poll' = [poll EXCEPT ![s] = row],
              row.pc \in {"sleep", "pass"}
       PROVE  TypeOK' /\ AccountsIInv' /\ Holders'
  <2>1. orderLock' \in [Purchases -> Sessions \union {Free}]
    BY <1>2, <1>13 DEF Unlocked, TypeOK
  <2>2. TypeOK'
    BY <1>2, <1>13, <2>1, TypeParts DEF TypeOK
  <2>3. Holders'
    BY <1>1, <1>2, <1>13 DEF TypeOK, AccountsTypeOK, Holders, BuyersHoldWallets,
       PollersHoldWallets, HandledIsOrder, BuyersHoldUsers, Release, Unlocked
  <2> QED
    BY <1>13, <2>2, <2>3
<1>14. CASE RefundCancelled(s)
  <2> DEFINE o == poll[s].cur
  <2>1. /\ o \in Purchases /\ NextOrder(s) /\ CommitRefund(s, o, "cancel")
        /\ walletLock[Owner[o]] = s
    BY <1>1, <1>2, <1>3, <1>14 DEF RefundCancelled, Holders, PollersHoldWallets
  <2>2. /\ ChangeBalance(s, Owner[o], "refund", order[o].price, o) /\ Release(s)
        /\ "refund" \in EntryTypes /\ order[o].price \in Int
        /\ orderLock' = Unlocked(orderLock, s)
        /\ UNCHANGED <<blocked, adjust, totals, buy, upstream, notified>>
    BY <1>3, <1>14, <2>1 DEF RefundCancelled, CommitRefund, ReleaseAll, EntryTypes
  <2>3. /\ AccountsIInv'
        /\ \A u \in Users : walletLock'[u] = IF walletLock[u] = s THEN Free ELSE walletLock[u]
    BY <1>1, <1>2, <2>1, <2>2, CommitStep
  <2>4. order' \in [Purchases -> OrderRow]
    <3>1. [order[o] EXCEPT !.refunded = TRUE, !.status = "refunded",
             !.events = Append(order[o].events, "refunded"), !.last = "cancel"] \in OrderRow
      BY <1>3, <2>1, OrderRowUpdates DEF Answers
    <3> QED
      BY <1>2, <2>1, <3>1 DEF CommitRefund, TypeOK
  <2>5. PICK row \in PollState : poll' = [poll EXCEPT ![s] = row] /\ row.pc = "pass"
    BY <1>2, <2>1, NextOrderRow
  <2> QED
    BY <1>13, <2>2, <2>3, <2>4, <2>5
<1>15. CASE AbortPoll(s)
  <2>1. Asleep \in PollState /\ Asleep.pc = "sleep"
    BY DEF Asleep, PollState
  <2>2. /\ AccountsIInv'
        /\ \A u \in Users : walletLock'[u] = IF walletLock[u] = s THEN Free ELSE walletLock[u]
    BY <1>1, <1>2, <1>15, RollbackStep DEF AbortPoll, ReleaseAll
  <2> QED
    BY <1>2, <1>13, <1>15, <2>1, <2>2 DEF AbortPoll, ReleaseAll, TypeOK
<1> QED
  BY <1>5, <1>6, <1>7, <1>8, <1>9, <1>10, <1>11, <1>12, <1>14, <1>15 DEF PollNext

\* Grizzly and the clock restore MoneyIInv.
LEMMA WorldKeepsMoney ==
  ASSUME MoneyIInv, NEW o \in Purchases, World(o)
  PROVE  MoneyIInv'
<1>1. TypeOK /\ AccountsIInv /\ Holders
  BY DEF MoneyIInv, Holders
<1>2. UNCHANGED <<accountVars, orderLock, totals, buy, poll, notified>>
  BY DEF World, CodeArrives, ActivationCancelled, Age
<1>3. AccountsIInv'
  BY <1>1, <1>2, AccountsStutter
<1>4. order' \in [Purchases -> OrderRow]
  <2>1. [order[o] EXCEPT !.aged = TRUE] \in OrderRow
    BY <1>1, OrderRowUpdates DEF TypeOK, Answers
  <2> QED
    BY <1>1, <2>1 DEF World, CodeArrives, ActivationCancelled, Age, TypeOK
<1>5. upstream' \in [Purchases -> Holdings]
  BY <1>1 DEF World, CodeArrives, ActivationCancelled, Age, TypeOK, Holdings
<1>6. TypeOK'
  BY <1>1, <1>2, <1>3, <1>4, <1>5, TypeParts DEF TypeOK
<1>7. Holders'
  BY <1>1, <1>2 DEF accountVars, Holders, BuyersHoldWallets, PollersHoldWallets,
     HandledIsOrder, BuyersHoldUsers
<1> QED
  BY <1>3, <1>6, <1>7 DEF MoneyIInv, Holders

\* A confirmation or a blocking restores MoneyIInv: neither takes a wallet or a
\* user from a purchase, and blocking waits for the purchase that checked it.
LEMMA AdministrateKeepsMoney ==
  ASSUME OrdersAssumption, AccountsAssumption, MoneyIInv, Administrate
  PROVE  MoneyIInv'
<1>1. TypeOK /\ AccountsIInv /\ Holders
  BY DEF MoneyIInv, Holders
<1>2. AccountsNext /\ UNCHANGED <<order, orderLock, totals, buy, poll, upstream, notified>>
  BY DEF Administrate, orderVars
<1>3. AccountsIInv'
  BY <1>1, <1>2, AccountsNextKeeps
<1>4. TypeOK'
  BY <1>1, <1>2, <1>3, TypeParts DEF TypeOK
<1>5. AccountsTypeOK
  BY <1>1 DEF TypeOK
<1>6. \A s \in Purchases \union Pollers, u \in Users : walletLock'[u] = s <=> walletLock[u] = s
  BY <1>2, <1>5, OthersKeepLocks, PurchaseIsSession, PollerIsSession
<1>7. BuyersHoldWallets' /\ PollersHoldWallets' /\ HandledIsOrder'
  BY <1>1, <1>2, <1>6, PurchaseIsSession DEF Holders, BuyersHoldWallets, PollersHoldWallets,
     HandledIsOrder
<1>8. BuyersHoldUsers'
  <2> SUFFICES ASSUME NEW b \in Purchases
               PROVE  /\ buy[b].pc \in {"gates", "wallet", "reserve"} => userLock'[Owner[b]] = b
                      /\ buy[b].pc \in {"wallet", "reserve"} => ~blocked'[Owner[b]]
    BY <1>2 DEF BuyersHoldUsers
  <2>1. /\ Owner[b] \in Users /\ b \notin Adjusts /\ b # Free
        /\ buy[b].pc \in {"gates", "wallet", "reserve"} => userLock[Owner[b]] = b
        /\ buy[b].pc \in {"wallet", "reserve"} => ~blocked[Owner[b]]
    BY <1>1, PurchaseIsSession DEF Holders, BuyersHoldUsers
  <2>2. CASE \E a \in Adjusts : AdjustNext(a)
    BY <1>5, <2>1, <2>2 DEF AdjustNext, AdjustLock, AdjustCommit, AdjustRefused, AdjustAbort,
       Release, Unlocked, AccountsTypeOK
  <2>3. CASE \E u \in Users : SetBlocked(u)
    BY <1>5, <2>1, <2>3 DEF SetBlocked, AccountsTypeOK
  <2> QED
    BY <1>2, <2>2, <2>3 DEF AccountsNext
<1> QED
  BY <1>3, <1>4, <1>7, <1>8 DEF MoneyIInv

\* The tables start empty and every lock free.
LEMMA MoneyInitially ==
  ASSUME OrdersAssumption, AccountsAssumption, Init
  PROVE  MoneyIInv
<1>1. AccountsIInv
  BY AccountsInitially DEF Init
<1>2. /\ NewRow \in OrderRow /\ NewBuy \in BuyState /\ Asleep \in PollState
      /\ NoTotals \in Totals
  BY DEF NewRow, OrderRow, Statuses, NewBuy, BuyState, NoTotals, Totals, Asleep, PollState
<1>3. TypeOK
  BY <1>1, <1>2 DEF Init, TypeOK, AccountsIInv, Holdings
<1>4. /\ \A u \in Users : walletLock[u] = Free
      /\ \A b \in Purchases : b # Free /\ buy[b].pc = "idle"
      /\ \A s \in Pollers : s # Free /\ poll[s].pc = "sleep"
  BY PurchaseIsSession, PollerIsSession DEF Init, AccountsInit, NewBuy, Asleep
<1>5. BuyersHoldWallets /\ PollersHoldWallets /\ HandledIsOrder /\ BuyersHoldUsers
  BY <1>4 DEF BuyersHoldWallets, PollersHoldWallets, HandledIsOrder, BuyersHoldUsers
<1> QED
  BY <1>1, <1>3, <1>5 DEF MoneyIInv

\* Layer 1 is inductive.
LEMMA MoneyInductive ==
  ASSUME OrdersAssumption, AccountsAssumption, MoneyIInv, [Next]_vars
  PROVE  MoneyIInv'
<1>1. CASE \E b \in Purchases : TapBuy(b) \/ BuyNext(b) \/ AbortBuy(b)
  BY <1>1, BuyKeepsMoney
<1>2. CASE \E s \in Pollers : PollNext(s) \/ StatusUnavailable(s) \/ AbortPoll(s)
  BY <1>2, PollKeepsMoney
<1>3. CASE \E o \in Purchases : World(o)
  BY <1>3, WorldKeepsMoney
<1>4. CASE Administrate
  BY <1>4, AdministrateKeepsMoney
<1>5. CASE UNCHANGED vars
  <2>1. AccountsIInv'
    BY <1>5, AccountsStutter DEF vars, MoneyIInv
  <2> QED
    BY <1>5, <2>1, TypeParts DEF vars, accountVars, orderVars, MoneyIInv, TypeOK,
       BuyersHoldWallets, PollersHoldWallets, HandledIsOrder, BuyersHoldUsers
<1> QED
  BY <1>1, <1>2, <1>3, <1>4, <1>5 DEF Next

\* Layer 1 holds in every behaviour.
LEMMA MoneyAlways == Spec => []MoneyIInv
<1>1. Init => MoneyIInv
  BY MoneyInitially, OrdersAssumption, AccountsAssumption
<1>2. MoneyIInv /\ [Next]_vars => MoneyIInv'
  BY MoneyInductive, OrdersAssumption, AccountsAssumption
<1> QED
  BY <1>1, <1>2, PTL DEF Spec

\* The rows of orders and the state of every handler and worker keep their
\* types, for any number of users, purchases and workers.
THEOREM OrdersKeepTypes == Spec => []TypeOK
<1>1. MoneyIInv => TypeOK
  BY DEF MoneyIInv
<1> QED
  BY <1>1, MoneyAlways, PTL

\* Whatever purchases, refunds, workers, confirmations and crashes interleave,
\* the ledger of every wallet is an unbroken chain from its opening balance to
\* the stored one, and no balance is ever negative: no update is lost.
THEOREM OrdersKeepLedger == Spec => []LedgerChain
<1>1. MoneyIInv => LedgerChain
  BY DEF MoneyIInv, AccountsIInv
<1> QED
  BY <1>1, MoneyAlways, PTL

-----------------------------------------------------------------------------
(* The second layer: what each handler and each worker may still assume of *)
(* an order it has read before, and what follows for the life of an order. *)
(* First what its steps need of layer 1.                                   *)

\* The types of the rows a step of a purchase or a worker touches.
LEMMA RowTypes ==
  ASSUME MoneyIInv
  PROVE  /\ order \in [Purchases -> OrderRow] /\ buy \in [Purchases -> BuyState]
         /\ poll \in [Pollers -> PollState] /\ notified \in [Purchases -> Nat]
         /\ orderLock \in [Purchases -> Sessions \union {Free}]
         /\ upstream \in [Purchases -> Holdings]
         /\ HandledIsOrder
  BY DEF MoneyIInv, TypeOK

\* A step restores layer 2 part by part.
LEMMA LifeParts ==
  ASSUME OrdersAreHeld', BuyersKnow', PollersKnow', RowsAgree', StatusAgrees', NotifiedOnce'
  PROVE  LifeIInv'
  BY DEF LifeIInv

-----------------------------------------------------------------------------
(* Purchases, in layer 2.                                                  *)

\* A step of a purchase that changes nothing but its own state and its locks:
\* before the reservation, or when the invocation ends.
LEMMA QuietBuyKeepsLife ==
  ASSUME OrdersAssumption, AccountsAssumption, MoneyIInv, LifeIInv, NEW b \in Purchases,
         UNCHANGED <<order, poll, upstream, notified>>,
         NEW row \in BuyState, buy' = [buy EXCEPT ![b] = row],
         \A o \in Purchases : orderLock'[o] = IF orderLock[o] = b THEN Free ELSE orderLock[o],
         \/ row.pc = "done"
         \/ row.pc \in {"gates", "wallet", "reserve"} /\ buy[b].pc \in {"idle", "gates", "wallet"}
  PROVE  LifeIInv'
<1>1. /\ \A s \in Pollers : s # b
      /\ \A p \in Purchases : p # Free
  BY PurchaseIsSession
<1>2. /\ order \in [Purchases -> OrderRow] /\ buy \in [Purchases -> BuyState]
      /\ HandledIsOrder
      /\ \A s \in Pollers : poll[s].marked \subseteq Purchases
  BY RowTypes DEF PollState
<1>3. OrdersAreHeld'
  <2>1. \A p, o \in Purchases :
          orderLock'[o] = p <=> (o = p /\ buy'[p].pc \in {"refund", "credit"})
    BY <1>1, <1>2 DEF LifeIInv, OrdersAreHeld
  <2>2. ASSUME NEW s \in Pollers
        PROVE  /\ poll[s].pc \in {"wallet", "credit"} => orderLock'[poll[s].cur] = s
               /\ \A o \in poll[s].marked : orderLock'[o] = s
    BY <1>1, <1>2 DEF LifeIInv, OrdersAreHeld, HandledIsOrder
  <2> QED
    BY <2>1, <2>2 DEF LifeIInv, OrdersAreHeld, Unanswered
<1>4. BuyersKnow'
  BY <1>2 DEF LifeIInv, BuyersKnow
<1>5. PollersKnow' /\ RowsAgree' /\ StatusAgrees' /\ NotifiedOnce'
  BY DEF LifeIInv, PollersKnow, RowsAgree, StatusAgrees, NotifiedOnce
<1> QED
  BY <1>3, <1>4, <1>5, LifeParts

\* A step of a purchase that writes its order, and ends its transaction.  No
\* worker handles, has marked or reports an order that is not yet answered.
LEMMA WritingBuyKeepsLife ==
  ASSUME OrdersAssumption, AccountsAssumption, MoneyIInv, LifeIInv, NEW b \in Purchases,
         UNCHANGED <<poll, upstream, notified>>,
         NEW new \in OrderRow, order' = [order EXCEPT ![b] = new],
         NEW row \in BuyState, buy' = [buy EXCEPT ![b] = row],
         \A o \in Purchases : orderLock'[o] = IF orderLock[o] = b THEN Free ELSE orderLock[o],
         orderLock[b] \in {Free, b} \/ order[b].status = "none",
         order[b].status \in {"none", "processing", "manual_reconciliation"},
         \/ row.pc = "done"
         \/ row.pc = "request" /\ new.status = "processing" /\ upstream[b] = "none",
         new.refunded <=> new.status = "refunded",
         new.status \in {"waiting_for_otp", "processing", "manual_reconciliation", "refunded"},
         new.activation <=> new.status = "waiting_for_otp",
         new.activation => upstream[b] \notin {"none", "stray"},
         new.refunded => upstream[b] \in {"none", "stray"},
         new.last = "none"
  PROVE  LifeIInv'
<1>1. /\ \A s \in Pollers : s # b /\ s # Free
      /\ \A p \in Purchases : p # Free
  BY PurchaseIsSession, PollerIsSession
<1>2. /\ order \in [Purchases -> OrderRow] /\ buy \in [Purchases -> BuyState]
      /\ notified \in [Purchases -> Nat] /\ HandledIsOrder
      /\ \A s \in Pollers : poll[s].marked \subseteq Purchases
  BY RowTypes DEF PollState
<1>3. OrdersAreHeld /\ BuyersKnow /\ PollersKnow /\ RowsAgree /\ StatusAgrees /\ NotifiedOnce
  BY DEF LifeIInv
<1>4. /\ ~order[b].activation
      /\ \A s \in Pollers : b \notin poll[s].marked
      /\ \A s \in Pollers : poll[s].pc \in {"apply", "wallet", "credit", "notify"} => poll[s].cur # b
  <2>1. ~order[b].activation
    BY <1>3 DEF StatusAgrees
  <2>2. \A s \in Pollers : b \notin poll[s].marked
    BY <1>1, <1>2, <1>3 DEF OrdersAreHeld, Unanswered
  <2>3. \A s \in Pollers : poll[s].pc \in {"apply", "wallet", "credit", "notify"} => poll[s].cur # b
    BY <1>3, <2>1 DEF PollersKnow
  <2> QED
    BY <2>1, <2>2, <2>3
<1>5. OrdersAreHeld'
  <2>1. \A p, o \in Purchases :
          orderLock'[o] = p <=> (o = p /\ buy'[p].pc \in {"refund", "credit"})
    BY <1>1, <1>2, <1>3 DEF OrdersAreHeld
  <2>2. ASSUME NEW s \in Pollers
        PROVE  /\ poll[s].pc \in {"wallet", "credit"} => orderLock'[poll[s].cur] = s
               /\ \A o \in poll[s].marked : orderLock'[o] = s /\ order'[o] = order[o]
    BY <1>1, <1>2, <1>3, <1>4 DEF OrdersAreHeld, HandledIsOrder
  <2> QED
    BY <1>3, <2>1, <2>2 DEF OrdersAreHeld, Unanswered
<1>6. BuyersKnow'
  BY <1>2, <1>3 DEF BuyersKnow
<1>7. PollersKnow'
  BY <1>2, <1>3, <1>4 DEF PollersKnow, HandledIsOrder
<1>8. RowsAgree' /\ StatusAgrees'
  BY <1>2, <1>3 DEF RowsAgree, StatusAgrees
<1>9. NotifiedOnce'
  BY <1>2, <1>3 DEF NotifiedOnce
<1> QED
  BY <1>5, <1>6, <1>7, <1>8, <1>9, LifeParts

\* Every step of a purchase restores LifeIInv.
LEMMA BuyKeepsLife ==
  ASSUME OrdersAssumption, AccountsAssumption, MoneyIInv, LifeIInv, NEW b \in Purchases,
         TapBuy(b) \/ BuyNext(b) \/ AbortBuy(b)
  PROVE  LifeIInv'
<1>1. /\ \A s \in Pollers : s # b /\ s # Free
      /\ \A p \in Purchases : p # Free
  BY PurchaseIsSession, PollerIsSession
<1>2. /\ order \in [Purchases -> OrderRow] /\ buy \in [Purchases -> BuyState]
      /\ upstream \in [Purchases -> Holdings]
      /\ notified \in [Purchases -> Nat] /\ HandledIsOrder
      /\ orderLock \in [Purchases -> Sessions \union {Free}]
      /\ order[b] \in OrderRow /\ buy[b] \in BuyState
      /\ \A s \in Pollers : poll[s].marked \subseteq Purchases
      /\ buy' \in [Purchases -> BuyState] /\ order' \in [Purchases -> OrderRow]
  <2>1. MoneyIInv'
    BY BuyKeepsMoney
  <2> QED
    BY <2>1, RowTypes DEF PollState, MoneyIInv, TypeOK
<1>3. OrdersAreHeld /\ BuyersKnow /\ PollersKnow /\ RowsAgree /\ StatusAgrees /\ NotifiedOnce
  BY DEF LifeIInv
<1>4. CASE TapBuy(b) \/ TurnedAway(b) \/ PassGates(b) \/ LockFunds(b) \/ TooPoor(b) \/ AbortBuy(b)
  <2>1. UNCHANGED <<order, poll, upstream, notified>>
    BY <1>4 DEF TapBuy, TurnedAway, PassGates, LockFunds, TooPoor, AbortBuy
  <2>2. PICK row \in BuyState :
          /\ buy' = [buy EXCEPT ![b] = row]
          /\ \/ row.pc = "done"
             \/ row.pc \in {"gates", "wallet", "reserve"} /\ buy[b].pc \in {"idle", "gates", "wallet"}
    <3>1. buy' = [buy EXCEPT ![b] = buy'[b]] /\ buy'[b] \in BuyState
      BY <1>2, <1>4 DEF TapBuy, TurnedAway, PassGates, LockFunds, TooPoor, AbortBuy, EndBuy, GotoBuy
    <3>2. \/ buy'[b].pc = "done"
          \/ buy'[b].pc \in {"gates", "wallet", "reserve"} /\ buy[b].pc \in {"idle", "gates", "wallet"}
      <4>1. CASE TapBuy(b)
        BY <1>2, <4>1 DEF TapBuy, BuyState
      <4>2. CASE TurnedAway(b) \/ TooPoor(b) \/ AbortBuy(b)
        BY <1>2, <4>2 DEF TurnedAway, TooPoor, AbortBuy, EndBuy, NewBuy
      <4>3. CASE PassGates(b)
        BY <1>2, <4>3 DEF PassGates, BuyState
      <4>4. CASE LockFunds(b)
        BY <1>2, <4>4 DEF LockFunds, GotoBuy, BuyState
      <4> QED
        BY <1>4, <4>1, <4>2, <4>3, <4>4
    <3> QED
      BY <3>1, <3>2
  <2>3. \A o \in Purchases : orderLock'[o] = IF orderLock[o] = b THEN Free ELSE orderLock[o]
    <3>1. CASE AbortBuy(b)
      BY <1>2, <3>1 DEF AbortBuy, ReleaseAll, Unlocked
    <3>2. CASE ~AbortBuy(b)
      <4>1. orderLock' = orderLock /\ buy[b].pc \notin {"refund", "credit"}
        BY <1>4, <3>2 DEF TapBuy, TurnedAway, PassGates, LockFunds, TooPoor
      <4> QED
        BY <1>3, <4>1 DEF OrdersAreHeld
    <3> QED
      BY <3>1, <3>2
  <2> QED
    BY <2>1, <2>2, <2>3, QuietBuyKeepsLife
<1>5. CASE \/ Reserve(b) \/ RecordNumber(b) \/ RefundReservation(b)
           \/ RecordUnknown(b) /\ order[b].status = "processing"
  <2>1. /\ order[b].status \in {"none", "processing", "manual_reconciliation"}
        /\ Reserve(b) => buy[b].pc = "reserve"
        /\ RecordUnknown(b) => buy[b].pc = "reply" /\ orderLock[b] = Free
        /\ RecordNumber(b) => buy[b].pc = "reply" /\ buy[b].reply = "ok" /\ orderLock[b] = Free
        /\ RefundReservation(b) => buy[b].pc = "credit"
    BY <1>3, <1>5 DEF BuyersKnow, Reserve, RecordUnknown, RecordNumber, RefundReservation
  <2>2. UNCHANGED <<poll, upstream, notified>>
    BY <1>5 DEF Reserve, RecordUnknown, RecordNumber, RefundReservation
  <2>3. order' = [order EXCEPT ![b] = order'[b]] /\ order'[b] \in OrderRow
    BY <1>2, <1>5 DEF Reserve, RecordUnknown, RecordNumber, RefundReservation, CommitRefund
  <2>4. buy' = [buy EXCEPT ![b] = buy'[b]] /\ buy'[b] \in BuyState
    BY <1>2, <1>5 DEF Reserve, RecordUnknown, RecordNumber, RefundReservation, EndBuy, GotoBuy
  <2>5. /\ order'[b].last = order[b].last
        /\ RecordNumber(b) => /\ order'[b].status = "waiting_for_otp" /\ order'[b].activation
                              /\ order'[b].refunded = order[b].refunded
        /\ Reserve(b) => /\ order'[b].status = "processing"
                         /\ order'[b].activation = order[b].activation
                         /\ order'[b].refunded = order[b].refunded
        /\ RecordUnknown(b) => /\ order'[b].status = "manual_reconciliation"
                               /\ order'[b].activation = order[b].activation
                               /\ order'[b].refunded = order[b].refunded
        /\ RefundReservation(b) => /\ order'[b].status = "refunded" /\ order'[b].refunded
                                   /\ order'[b].activation = order[b].activation
    <3>1. CASE Reserve(b)
      BY <1>2, <2>1, <3>1 DEF Reserve, OrderRow
    <3>2. CASE RecordUnknown(b) /\ order[b].status = "processing"
      BY <1>2, <2>1, <3>2 DEF RecordUnknown, RecordNumber, OrderRow
    <3>3. CASE RecordNumber(b)
      BY <1>2, <2>1, <3>3 DEF RecordUnknown, RecordNumber, OrderRow
    <3>4. CASE RefundReservation(b)
      BY <1>2, <2>1, <3>4 DEF RefundReservation, CommitRefund, OrderRow
    <3> QED
      BY <1>5, <3>1, <3>2, <3>3, <3>4
  <2>6. /\ order[b].last = "none" /\ ~order[b].activation /\ ~order[b].refunded
        /\ buy[b].pc = "reserve" => upstream[b] = "none"
        /\ buy[b].pc = "credit" => upstream[b] \in {"none", "stray"}
        /\ RecordNumber(b) => upstream[b] \notin {"none", "stray"}
    BY <1>3, <2>1 DEF RowsAgree, StatusAgrees, BuyersKnow
  <2>7. \/ buy'[b].pc = "done"
        \/ buy'[b].pc = "request" /\ Reserve(b)
    BY <1>2, <1>5 DEF Reserve, RecordUnknown, RecordNumber, RefundReservation, EndBuy, GotoBuy,
       NewBuy, BuyState
  <2>8. /\ \A o \in Purchases : orderLock'[o] = IF orderLock[o] = b THEN Free ELSE orderLock[o]
        /\ orderLock[b] \in {Free, b} \/ order[b].status = "none"
    <3>1. CASE RefundReservation(b)
      BY <1>2, <1>3, <2>1, <3>1 DEF RefundReservation, CommitRefund, ReleaseAll, Unlocked, OrdersAreHeld
    <3>2. CASE ~RefundReservation(b)
      <4>1. orderLock' = orderLock
        BY <1>5, <3>2 DEF Reserve, RecordUnknown, RecordNumber
      <4>2. \A o \in Purchases : orderLock[o] # b
        BY <1>3, <1>5, <2>1, <3>2 DEF OrdersAreHeld
      <4>3. Reserve(b) => order[b].status = "none"
        BY <1>3, <2>1 DEF BuyersKnow
      <4> QED
        BY <1>5, <2>1, <3>2, <4>1, <4>2, <4>3
    <3> QED
      BY <3>1, <3>2
  <2> QED
    BY <1>5, <2>1, <2>2, <2>3, <2>4, <2>5, <2>6, <2>7, <2>8, WritingBuyKeepsLife
<1>6. CASE NumberMissing(b) \/ (RecordUnknown(b) /\ order[b].status # "processing")
  <2>1. /\ UNCHANGED <<order, orderLock, poll, upstream, notified>>
        /\ buy' = [buy EXCEPT ![b] = [NewBuy EXCEPT !.pc = "done"]]
        /\ \A o \in Purchases : orderLock[o] # b
    BY <1>3, <1>6 DEF RecordUnknown, NumberMissing, EndBuy, OrdersAreHeld
  <2>2. [NewBuy EXCEPT !.pc = "done"] \in BuyState /\ [NewBuy EXCEPT !.pc = "done"].pc = "done"
    BY DEF NewBuy, NoTotals, BuyState, Totals
  <2> QED
    BY <2>1, <2>2, QuietBuyKeepsLife
<1>7. CASE Request(b)
  <2>1. PICK got \in Holdings, reply \in Replies :
          /\ reply = "ok" => got \notin {"none", "stray"}
          /\ reply = "error" => got \in {"none", "stray"}
          /\ upstream' = [upstream EXCEPT ![b] = got]
          /\ buy' = [buy EXCEPT ![b] = [@ EXCEPT !.pc = "reply", !.reply = reply]]
    BY <1>7, RepliesTell DEF Request
  <2>2. /\ UNCHANGED <<order, orderLock, poll, notified>>
        /\ buy[b].pc = "request" /\ buy'[b].pc = "reply" /\ buy'[b].reply = reply
        /\ \A p \in Purchases \ {b} : buy'[p] = buy[p] /\ upstream'[p] = upstream[p]
        /\ upstream'[b] = got
    <3>1. UNCHANGED <<order, orderLock, poll, notified>> /\ buy[b].pc = "request"
      BY <1>7 DEF Request
    <3>2. buy'[b].pc = "reply" /\ buy'[b].reply = reply
      BY <1>2, <2>1 DEF BuyState
    <3>3. /\ \A p \in Purchases \ {b} : buy'[p] = buy[p] /\ upstream'[p] = upstream[p]
          /\ upstream'[b] = got
      BY <1>2, <2>1
    <3> QED
      BY <3>1, <3>2, <3>3
  <2>3. /\ order[b].status \in {"processing", "manual_reconciliation"}
        /\ ~order[b].activation /\ ~order[b].refunded
        /\ \A s \in Pollers :
             poll[s].pc \in {"apply", "wallet", "credit", "notify"} => poll[s].cur # b
    BY <1>3, <2>2 DEF BuyersKnow, StatusAgrees, PollersKnow
  <2>4. OrdersAreHeld'
    BY <1>1, <1>3, <2>2 DEF OrdersAreHeld, Unanswered
  <2>5. BuyersKnow'
    BY <1>3, <2>1, <2>2 DEF BuyersKnow
  <2>6. PollersKnow'
    BY <1>2, <1>3, <2>2, <2>3 DEF PollersKnow, HandledIsOrder
  <2>7. RowsAgree' /\ StatusAgrees' /\ NotifiedOnce'
    BY <1>3, <2>2, <2>3 DEF RowsAgree, StatusAgrees, NotifiedOnce
  <2> QED
    BY <2>4, <2>5, <2>6, <2>7, LifeParts
<1>8. CASE OpenRefund(b) \/ LockRefund(b)
  <2>1. /\ UNCHANGED <<order, poll, upstream, notified>>
        /\ \A p \in Purchases \ {b} : buy'[p] = buy[p]
        /\ buy'[b].pc \in {"refund", "credit"}
        /\ \/ buy[b].pc = "reply" /\ buy[b].reply = "error"
           \/ buy[b].pc = "refund"
    BY <1>2, <1>8 DEF OpenRefund, LockRefund, GotoBuy, BuyState
  <2>2. /\ \A o \in Purchases \ {b} : orderLock'[o] = orderLock[o]
        /\ orderLock'[b] = b
        /\ orderLock[b] \in {Free, b}
    BY <1>2, <1>3, <1>8 DEF OpenRefund, LockRefund, LockOrder, OrdersAreHeld
  <2>3. OrdersAreHeld'
    <3>1. \A p, o \in Purchases :
            orderLock'[o] = p <=> (o = p /\ buy'[p].pc \in {"refund", "credit"})
      BY <1>1, <1>2, <1>3, <2>1, <2>2 DEF OrdersAreHeld
    <3>2. ASSUME NEW s \in Pollers
          PROVE  /\ poll[s].pc \in {"wallet", "credit"} => orderLock'[poll[s].cur] = s
                 /\ \A o \in poll[s].marked : orderLock'[o] = s
      BY <1>1, <1>2, <1>3, <2>2 DEF OrdersAreHeld, HandledIsOrder
    <3> QED
      BY <1>3, <2>1, <3>1, <3>2 DEF OrdersAreHeld, Unanswered
  <2>4. BuyersKnow'
    BY <1>3, <2>1 DEF BuyersKnow
  <2>5. PollersKnow' /\ RowsAgree' /\ StatusAgrees' /\ NotifiedOnce'
    BY <1>3, <2>1 DEF PollersKnow, RowsAgree, StatusAgrees, NotifiedOnce
  <2> QED
    BY <2>3, <2>4, <2>5, LifeParts
<1> QED
  BY <1>4, <1>5, <1>6, <1>7, <1>8 DEF BuyNext

-----------------------------------------------------------------------------
(* Workers.                                                                *)

\* A step of a worker that reads, asks, gives up or is cut off: it writes no
\* order and holds no order afterwards.
LEMMA QuietPollKeepsLife ==
  ASSUME OrdersAssumption, AccountsAssumption, MoneyIInv, LifeIInv, NEW s \in Pollers,
         UNCHANGED <<order, buy, upstream, notified>>,
         NEW row \in PollState, poll' = [poll EXCEPT ![s] = row],
         \A o \in Purchases : \/ orderLock'[o] = orderLock[o]
                              \/ orderLock[o] = s /\ orderLock'[o] = Free,
         row.marked = {}, row.pc \in {"sleep", "pass", "apply"},
         row.pc = "apply" =>
           /\ order[row.cur].activation
           /\ row.answer = "otp" => upstream[row.cur] = "code"
           /\ row.answer = "cancel" => upstream[row.cur] = "cancelled"
  PROVE  LifeIInv'
<1>1. /\ s # Free /\ \A p \in Purchases : p # Free /\ p # s
  BY PurchaseIsSession, PollerIsSession
<1>2. /\ poll \in [Pollers -> PollState] /\ HandledIsOrder
      /\ \A t \in Pollers : poll[t].marked \subseteq Purchases
  BY RowTypes DEF PollState
<1>3. OrdersAreHeld /\ BuyersKnow /\ PollersKnow /\ RowsAgree /\ StatusAgrees /\ NotifiedOnce
  BY DEF LifeIInv
<1>4. OrdersAreHeld'
  <2>1. \A p, o \in Purchases :
          orderLock'[o] = p <=> (o = p /\ buy[p].pc \in {"refund", "credit"})
    BY <1>1, <1>3 DEF OrdersAreHeld
  <2>2. ASSUME NEW t \in Pollers \ {s}
        PROVE  /\ poll[t].pc \in {"wallet", "credit"} => orderLock'[poll[t].cur] = t
               /\ \A o \in poll[t].marked : orderLock'[o] = t
               /\ poll'[t] = poll[t]
    BY <1>1, <1>2, <1>3 DEF OrdersAreHeld, HandledIsOrder
  <2> QED
    BY <1>2, <1>3, <2>1, <2>2 DEF OrdersAreHeld, Unanswered
<1>5. PollersKnow'
  BY <1>2, <1>3 DEF PollersKnow
<1>6. BuyersKnow' /\ RowsAgree' /\ StatusAgrees' /\ NotifiedOnce'
  BY <1>3 DEF BuyersKnow, RowsAgree, StatusAgrees, NotifiedOnce
<1> QED
  BY <1>4, <1>5, <1>6, LifeParts

\* A step of a worker that writes an order that waits for its code: the buyer
\* has left it, and no other worker holds it.
LEMMA WritingPollKeepsLife ==
  ASSUME OrdersAssumption, AccountsAssumption, MoneyIInv, LifeIInv,
         NEW s \in Pollers, NEW o \in Purchases,
         UNCHANGED <<buy, upstream, notified>>,
         order[o].status = "waiting_for_otp", orderLock[o] \in {Free, s},
         NEW new \in OrderRow, order' = [order EXCEPT ![o] = new],
         NEW row \in PollState, poll' = [poll EXCEPT ![s] = row],
         \A p \in Purchases : \/ orderLock'[p] = orderLock[p]
                              \/ orderLock[p] = s /\ orderLock'[p] = Free,
         row.marked = {}, row.pc \in {"pass", "notify"},
         row.pc = "notify" => row.cur = o /\ new.status = "completed",
         new.status \in {"waiting_for_otp", "completed", "refunded"},
         new.activation, new.refunded <=> new.status = "refunded",
         new.status = "completed" => new.last = "otp" /\ upstream[o] = "code",
         new.status = "refunded" => new.last = "cancel" /\ upstream[o] = "cancelled"
  PROVE  LifeIInv'
<1>1. /\ s # Free /\ \A p \in Purchases : p # Free /\ p # s
  BY PurchaseIsSession, PollerIsSession
<1>2. /\ order \in [Purchases -> OrderRow] /\ poll \in [Pollers -> PollState]
      /\ notified \in [Purchases -> Nat] /\ HandledIsOrder
      /\ \A t \in Pollers : poll[t].marked \subseteq Purchases
      /\ \A t \in Pollers : t # Free
  BY RowTypes, PollerIsSession DEF PollState
<1>3. OrdersAreHeld /\ BuyersKnow /\ PollersKnow /\ RowsAgree /\ StatusAgrees /\ NotifiedOnce
  BY DEF LifeIInv
<1>4. /\ notified[o] = 0 /\ buy[o].pc \notin {"request", "reply", "refund", "credit"}
      /\ buy[o].pc \notin {"idle", "gates", "wallet", "reserve"}
      /\ \A t \in Pollers : o \notin poll[t].marked
      /\ \A t \in Pollers : poll[t].pc = "notify" => poll[t].cur # o
      /\ \A t \in Pollers \ {s} : poll[t].pc \in {"wallet", "credit"} => poll[t].cur # o
  <2>1. notified[o] = 0
    BY <1>2, <1>3 DEF NotifiedOnce
  <2>2. /\ buy[o].pc \notin {"request", "reply", "refund", "credit"}
        /\ buy[o].pc \notin {"idle", "gates", "wallet", "reserve"}
    BY <1>3 DEF BuyersKnow
  <2>3. /\ \A t \in Pollers : o \notin poll[t].marked
        /\ \A t \in Pollers \ {s} : poll[t].pc \in {"wallet", "credit"} => poll[t].cur # o
    BY <1>2, <1>3 DEF OrdersAreHeld, Unanswered
  <2>4. \A t \in Pollers : poll[t].pc = "notify" => poll[t].cur # o
    BY <1>3 DEF PollersKnow
  <2> QED
    BY <2>1, <2>2, <2>3, <2>4
<1>5. OrdersAreHeld'
  <2>1. \A p, q \in Purchases :
          orderLock'[q] = p <=> (q = p /\ buy[p].pc \in {"refund", "credit"})
    BY <1>1, <1>3 DEF OrdersAreHeld
  <2>2. ASSUME NEW t \in Pollers \ {s}
        PROVE  /\ poll[t].pc \in {"wallet", "credit"} => orderLock'[poll[t].cur] = t
               /\ \A p \in poll[t].marked : orderLock'[p] = t /\ order'[p] = order[p]
               /\ poll'[t] = poll[t]
    BY <1>1, <1>2, <1>3, <1>4 DEF OrdersAreHeld, HandledIsOrder
  <2> QED
    BY <1>2, <1>3, <2>1, <2>2 DEF OrdersAreHeld, Unanswered
<1>6. BuyersKnow'
  BY <1>2, <1>3, <1>4 DEF BuyersKnow
<1>7. PollersKnow'
  BY <1>2, <1>3, <1>4 DEF PollersKnow, HandledIsOrder
<1>8. RowsAgree' /\ StatusAgrees'
  BY <1>2, <1>3 DEF RowsAgree, StatusAgrees
<1>9. NotifiedOnce'
  BY <1>2, <1>3, <1>4 DEF NotifiedOnce
<1> QED
  BY <1>5, <1>6, <1>7, <1>8, <1>9, LifeParts

\* Every step of a worker restores LifeIInv.
LEMMA PollKeepsLife ==
  ASSUME OrdersAssumption, AccountsAssumption, MoneyIInv, LifeIInv, NEW s \in Pollers,
         PollNext(s) \/ StatusUnavailable(s) \/ AbortPoll(s)
  PROVE  LifeIInv'
<1>1. /\ s # Free /\ \A p \in Purchases : p # Free /\ p # s
      /\ \A t \in Pollers : t # Free
  BY PurchaseIsSession, PollerIsSession
<1>2. /\ order \in [Purchases -> OrderRow] /\ buy \in [Purchases -> BuyState]
      /\ poll \in [Pollers -> PollState] /\ notified \in [Purchases -> Nat]
      /\ orderLock \in [Purchases -> Sessions \union {Free}] /\ HandledIsOrder
      /\ poll[s] \in PollState
      /\ \A t \in Pollers : poll[t].marked \subseteq Purchases
      /\ poll[s].todo \subseteq Purchases
      /\ poll' \in [Pollers -> PollState] /\ order' \in [Purchases -> OrderRow]
  <2>1. MoneyIInv'
    BY PollKeepsMoney
  <2> QED
    BY <2>1, RowTypes DEF PollState, MoneyIInv, TypeOK
<1>3. OrdersAreHeld /\ BuyersKnow /\ PollersKnow /\ RowsAgree /\ StatusAgrees /\ NotifiedOnce
  BY DEF LifeIInv
<1>4. poll[s].pc # "pass" \/ poll[s].todo # {} => poll[s].marked = {}
  BY <1>3 DEF OrdersAreHeld
<1>5. CASE \/ Snapshot(s) \/ AskStatus(s) \/ SkipSettled(s) \/ StatusUnavailable(s)
           \/ DropAnswer(s) \/ AbortPoll(s)
  <2>1. UNCHANGED <<order, buy, upstream, notified>>
    BY <1>5 DEF Snapshot, AskStatus, SkipSettled, StatusUnavailable, DropAnswer, AbortPoll
  <2>2. poll' = [poll EXCEPT ![s] = poll'[s]] /\ poll'[s] \in PollState
    BY <1>2, <1>5 DEF Snapshot, AskStatus, SkipSettled, StatusUnavailable, DropAnswer, AbortPoll,
       NextOrder
  <2>3. \A o \in Purchases : \/ orderLock'[o] = orderLock[o]
                             \/ orderLock[o] = s /\ orderLock'[o] = Free
    BY <1>2, <1>5 DEF Snapshot, AskStatus, SkipSettled, StatusUnavailable, DropAnswer, AbortPoll,
       ReleaseAll, Unlocked
  <2>4. /\ poll'[s].marked = {} /\ poll'[s].pc \in {"sleep", "pass", "apply"}
        /\ poll'[s].pc = "apply" =>
             /\ order[poll'[s].cur].activation
             /\ poll'[s].answer = "otp" => upstream[poll'[s].cur] = "code"
             /\ poll'[s].answer = "cancel" => upstream[poll'[s].cur] = "cancelled"
    <3>1. CASE Snapshot(s)
      BY <1>2, <1>4, <3>1 DEF Snapshot, PollState
    <3>2. CASE AskStatus(s)
      <4>1. PICK o \in Purchases :
              /\ Waiting(o)
              /\ \E answer \in AnswersTo[upstream[o]] :
                   poll' = [poll EXCEPT ![s] =
                     [@ EXCEPT !.pc = "apply", !.cur = o, !.answer = answer]]
        BY <1>2, <3>2 DEF AskStatus, PollState
      <4>4. PICK answer \in AnswersTo[upstream[o]] :
              poll' = [poll EXCEPT ![s] =
                [@ EXCEPT !.pc = "apply", !.cur = o, !.answer = answer]]
        BY <4>1
      <4>5. upstream[o] \in Holdings
        BY RowTypes
      <4>2. /\ poll'[s].marked = {} /\ poll'[s].pc = "apply"
            /\ poll'[s].cur = o /\ poll'[s].answer = answer
        BY <1>2, <1>4, <3>2, <4>4 DEF AskStatus, PollState
      <4>3. /\ order[o].activation
            /\ answer = "otp" => upstream[o] = "code"
            /\ answer = "cancel" => upstream[o] = "cancelled"
        BY <4>1, <4>4, <4>5, AnswersTell DEF Waiting
      <4> QED
        BY <4>2, <4>3
    <3>3. CASE SkipSettled(s) \/ StatusUnavailable(s)
      <4>1. PICK o \in poll[s].todo :
              poll' = [poll EXCEPT ![s] = [@ EXCEPT !.todo = poll[s].todo \ {o}]]
        BY <3>3 DEF SkipSettled, StatusUnavailable
      <4>2. poll[s].pc = "pass" /\ poll[s].todo # {}
        BY <3>3 DEF SkipSettled, StatusUnavailable
      <4>3. poll'[s].pc = poll[s].pc /\ poll'[s].marked = poll[s].marked
        BY <1>2, <4>1 DEF PollState
      <4> QED
        BY <1>4, <4>2, <4>3
    <3>4. CASE DropAnswer(s)
      <4>1. PICK row \in PollState :
              poll' = [poll EXCEPT ![s] = row] /\ row.pc = "pass" /\ row.marked = poll[s].marked
        BY <3>4, NextOrderRow DEF DropAnswer, MoneyIInv
      <4> QED
        BY <1>2, <1>4, <3>4, <4>1 DEF DropAnswer
    <3>5. CASE AbortPoll(s)
      BY <1>2, <3>5 DEF AbortPoll, Asleep
    <3> QED
      BY <1>5, <3>1, <3>2, <3>3, <3>4, <3>5
  <2> QED
    BY <2>1, <2>2, <2>3, <2>4, QuietPollKeepsLife
<1>6. CASE ApplyOther(s) \/ ApplyOtp(s) \/ RefundCancelled(s)
  <2> DEFINE o == poll[s].cur
  <2>1. /\ o \in Purchases /\ order[o].status = "waiting_for_otp"
        /\ orderLock[o] \in {Free, s} /\ poll[s].marked = {}
        /\ poll[s].pc \in {"apply", "credit"}
    BY <1>2, <1>3, <1>4, <1>6 DEF ApplyOther, ApplyOtp, RefundCancelled, StillWaiting, HandledIsOrder,
       PollersKnow, OrdersAreHeld
  <2>2. UNCHANGED <<buy, upstream, notified>>
    BY <1>6 DEF ApplyOther, ApplyOtp, RefundCancelled
  <2>3. order' = [order EXCEPT ![o] = order'[o]] /\ order'[o] \in OrderRow
    BY <1>2, <1>6, <2>1 DEF ApplyOther, ApplyOtp, RefundCancelled, CommitRefund
  <2>4. /\ poll' = [poll EXCEPT ![s] = poll'[s]] /\ poll'[s] \in PollState
        /\ poll'[s].marked = {}
        /\ \/ poll'[s].pc = "pass"
           \/ poll'[s].pc = "notify" /\ poll'[s].cur = o /\ ApplyOtp(s)
    <3>1. CASE ApplyOther(s) \/ RefundCancelled(s)
      <4>1. PICK row \in PollState :
              poll' = [poll EXCEPT ![s] = row] /\ row.pc = "pass" /\ row.marked = poll[s].marked
        BY <3>1, NextOrderRow DEF ApplyOther, RefundCancelled, MoneyIInv
      <4> QED
        BY <1>2, <2>1, <4>1
    <3>2. CASE ApplyOtp(s)
      BY <1>2, <2>1, <3>2 DEF ApplyOtp, PollState
    <3> QED
      BY <1>6, <3>1, <3>2
  <2>5. \A p \in Purchases : \/ orderLock'[p] = orderLock[p]
                             \/ orderLock[p] = s /\ orderLock'[p] = Free
    BY <1>2, <1>6 DEF ApplyOther, ApplyOtp, RefundCancelled, CommitRefund, ReleaseAll, Unlocked
  <2>6. order[o].activation /\ ~order[o].refunded
    BY <1>3, <2>1 DEF StatusAgrees
  <2>7. /\ order'[o].activation
        /\ \/ /\ order'[o].status = "waiting_for_otp" /\ ~order'[o].refunded
              /\ ~ApplyOtp(s)
           \/ /\ order'[o].status = "completed" /\ ~order'[o].refunded
              /\ order'[o].last = "otp" /\ upstream[o] = "code"
           \/ /\ order'[o].status = "refunded" /\ order'[o].refunded /\ ~ApplyOtp(s)
              /\ order'[o].last = "cancel" /\ upstream[o] = "cancelled"
    <3>1. CASE ApplyOther(s)
      <4>1. ~ApplyOtp(s)
        BY <3>1 DEF ApplyOther, ApplyOtp
      <4> QED
        BY <1>2, <2>1, <2>6, <3>1, <4>1 DEF ApplyOther, OrderRow
    <3>2. CASE ApplyOtp(s)
      <4>1. upstream[o] = "code"
        BY <1>3, <3>2 DEF ApplyOtp, StillWaiting, PollersKnow
      <4> QED
        BY <1>2, <2>1, <2>6, <3>2, <4>1 DEF ApplyOtp, OrderRow
    <3>3. CASE RefundCancelled(s)
      <4>1. upstream[o] = "cancelled" /\ ~ApplyOtp(s)
        BY <1>3, <3>3 DEF RefundCancelled, ApplyOtp, StillWaiting, PollersKnow
      <4> QED
        BY <1>2, <2>1, <2>6, <3>3, <4>1 DEF RefundCancelled, CommitRefund, OrderRow
    <3> QED
      BY <1>6, <3>1, <3>2, <3>3
  <2> HIDE DEF o
  <2> QED
    BY <2>1, <2>2, <2>3, <2>4, <2>5, <2>7, WritingPollKeepsLife
<1>7. CASE Notify(s)
  <2> DEFINE o == poll[s].cur
  <2>1. /\ o \in Purchases /\ order[o].status = "completed" /\ notified[o] = 0
        /\ poll[s].marked = {} /\ \A t \in Pollers \ {s} : poll[t].pc = "notify" => poll[t].cur # o
    BY <1>2, <1>3, <1>4, <1>7 DEF Notify, HandledIsOrder, PollersKnow
  <2>2. UNCHANGED <<order, orderLock, buy, upstream>>
    BY <1>7 DEF Notify
  <2>3. /\ \A p \in Purchases \ {o} : notified'[p] = notified[p]
        /\ notified'[o] \in {0, 1}
    BY <1>2, <1>7, <2>1 DEF Notify
  <2>4. PICK row \in PollState :
          poll' = [poll EXCEPT ![s] = row] /\ row.pc = "pass" /\ row.marked = poll[s].marked
    BY <1>7, NextOrderRow DEF Notify, MoneyIInv
  <2>5. /\ \A t \in Pollers \ {s} : poll'[t] = poll[t]
        /\ poll'[s].pc = "pass" /\ poll'[s].marked = {}
    BY <1>2, <2>1, <2>4
  <2>6. OrdersAreHeld'
    BY <1>3, <2>2, <2>5 DEF OrdersAreHeld, Unanswered
  <2>7. PollersKnow'
    BY <1>2, <1>3, <2>1, <2>2, <2>3, <2>5 DEF PollersKnow, HandledIsOrder
  <2>8. BuyersKnow' /\ RowsAgree' /\ StatusAgrees'
    BY <1>3, <2>2 DEF BuyersKnow, RowsAgree, StatusAgrees
  <2>9. NotifiedOnce'
    BY <1>2, <1>3, <2>1, <2>2, <2>3 DEF NotifiedOnce
  <2> QED
    BY <2>6, <2>7, <2>8, <2>9, LifeParts
<1>8. CASE ApplyCancel(s) \/ PollLockWallet(s)
  <2> DEFINE o == poll[s].cur
  <2>1. /\ UNCHANGED <<order, buy, upstream, notified>>
        /\ \A t \in Pollers \ {s} : poll'[t] = poll[t]
        /\ poll'[s].pc \in {"wallet", "credit"} /\ poll'[s].cur = o
        /\ poll'[s].marked = poll[s].marked
    BY <1>2, <1>8 DEF ApplyCancel, PollLockWallet, PollState
  <2>2. /\ o \in Purchases /\ poll[s].marked = {}
        /\ order[o].status = "waiting_for_otp" /\ upstream[o] = "cancelled"
    BY <1>2, <1>3, <1>4, <1>8 DEF ApplyCancel, PollLockWallet, StillWaiting, HandledIsOrder, PollersKnow
  <2>3. /\ \A p \in Purchases \ {o} : orderLock'[p] = orderLock[p]
        /\ orderLock'[o] = s /\ orderLock[o] \in {Free, s}
    BY <1>2, <1>3, <1>8, <2>2 DEF ApplyCancel, PollLockWallet, LockOrder, OrdersAreHeld
  <2> HIDE DEF o
  <2>4. OrdersAreHeld'
    <3>1. \A p, q \in Purchases :
            orderLock'[q] = p <=> (q = p /\ buy[p].pc \in {"refund", "credit"})
      BY <1>1, <1>3, <2>2, <2>3 DEF OrdersAreHeld
    <3>2. ASSUME NEW t \in Pollers \ {s}
          PROVE  /\ poll[t].pc \in {"wallet", "credit"} => orderLock'[poll[t].cur] = t
                 /\ \A p \in poll[t].marked : orderLock'[p] = t
      BY <1>1, <1>2, <1>3, <2>3 DEF OrdersAreHeld, HandledIsOrder
    <3> QED
      BY <1>3, <2>1, <2>2, <2>3, <3>1, <3>2 DEF OrdersAreHeld, Unanswered
  <2>5. PollersKnow'
    BY <1>3, <2>1, <2>2 DEF PollersKnow
  <2>6. BuyersKnow' /\ RowsAgree' /\ StatusAgrees' /\ NotifiedOnce'
    BY <1>3, <2>1 DEF BuyersKnow, RowsAgree, StatusAgrees, NotifiedOnce
  <2> QED
    BY <2>4, <2>5, <2>6, LifeParts
<1>9. CASE SweepLock(s)
  <2>1. PICK o \in Purchases :
          /\ LockOrder(s, o)
          /\ poll' = [poll EXCEPT ![s] =
               [@ EXCEPT !.stale = poll[s].stale \ {o},
                         !.marked = IF Unanswered(o) THEN poll[s].marked \union {o}
                                    ELSE poll[s].marked]]
    BY <1>2, <1>9 DEF SweepLock, PollState
  <2>2. UNCHANGED <<order, buy, upstream, notified>> /\ poll[s].pc = "pass" /\ poll[s].todo = {}
    BY <1>9 DEF SweepLock
  <2>3. /\ \A t \in Pollers \ {s} : poll'[t] = poll[t]
        /\ poll'[s].pc = "pass" /\ poll'[s].todo = {}
        /\ \A p \in poll'[s].marked : p \in poll[s].marked \/ (p = o /\ Unanswered(o))
    BY <1>2, <2>1, <2>2 DEF PollState
  <2>4. /\ \A p \in Purchases \ {o} : orderLock'[p] = orderLock[p]
        /\ orderLock[o] = Free /\ orderLock'[o] = s
    BY <1>2, <2>1 DEF LockOrder
  <2>5. OrdersAreHeld'
    <3>1. \A p, q \in Purchases :
            orderLock'[q] = p <=> (q = p /\ buy[p].pc \in {"refund", "credit"})
      BY <1>1, <1>3, <2>4 DEF OrdersAreHeld
    <3>2. ASSUME NEW t \in Pollers \ {s}
          PROVE  /\ poll[t].pc \in {"wallet", "credit"} => orderLock'[poll[t].cur] = t
                 /\ \A p \in poll[t].marked : orderLock'[p] = t
      BY <1>1, <1>2, <1>3, <2>4 DEF OrdersAreHeld, HandledIsOrder
    <3>3. \A p \in poll'[s].marked : orderLock'[p] = s /\ Unanswered(p)
      BY <1>1, <1>2, <1>3, <2>3, <2>4 DEF OrdersAreHeld
    <3> QED
      BY <1>3, <2>2, <2>3, <3>1, <3>2, <3>3 DEF OrdersAreHeld, Unanswered
  <2>6. PollersKnow'
    BY <1>3, <2>2, <2>3 DEF PollersKnow
  <2>7. BuyersKnow' /\ RowsAgree' /\ StatusAgrees' /\ NotifiedOnce'
    BY <1>3, <2>2 DEF BuyersKnow, RowsAgree, StatusAgrees, NotifiedOnce
  <2> QED
    BY <2>5, <2>6, <2>7, LifeParts
<1>10. CASE SweepCommit(s)
  <2>1. /\ UNCHANGED <<buy, upstream, notified>>
        /\ \A t \in Pollers \ {s} : poll'[t] = poll[t]
        /\ poll'[s].pc = "sleep" /\ poll'[s].marked = {}
    BY <1>2, <1>10 DEF SweepCommit, Asleep
  <2>2. \A o \in Purchases : orderLock'[o] = IF orderLock[o] = s THEN Free ELSE orderLock[o]
    BY <1>2, <1>10 DEF SweepCommit, Unlocked
  <2>3. \A o \in Purchases :
          \/ order'[o] = order[o]
          \/ /\ o \in poll[s].marked /\ order[o].status = "processing"
             /\ order'[o].status = "manual_reconciliation"
             /\ order'[o].activation = order[o].activation
             /\ order'[o].refunded = order[o].refunded /\ order'[o].last = order[o].last
    <3>1. \A o \in poll[s].marked : order[o].status = "processing"
      BY <1>3 DEF OrdersAreHeld, Unanswered
    <3>2. ASSUME NEW o \in Purchases, o \in poll[s].marked
          PROVE  order'[o] =
                   [order[o] EXCEPT !.status = "manual_reconciliation",
                                    !.events = Append(order[o].events, "manual_reconciliation")]
      BY <1>10, <3>2 DEF SweepCommit
    <3>3. ASSUME NEW o \in Purchases, o \notin poll[s].marked
          PROVE  order'[o] = order[o]
      BY <1>10, <3>3 DEF SweepCommit
    <3>4. ASSUME NEW o \in Purchases, o \in poll[s].marked
          PROVE  /\ order'[o].status = "manual_reconciliation"
                 /\ order'[o].activation = order[o].activation
                 /\ order'[o].refunded = order[o].refunded /\ order'[o].last = order[o].last
      <4>1. order[o] \in OrderRow
        BY <1>2
      <4>2. DOMAIN order[o] = {"status", "refunded", "activation", "price", "aged",
                               "events", "last"}
        BY <4>1 DEF OrderRow
      <4>3. PICK trail : order'[o] = [order[o] EXCEPT !.status = "manual_reconciliation",
                                                      !.events = trail]
        BY <3>2, <3>4
      <4> QED
        BY <4>2, <4>3
    <3> QED
      BY <3>1, <3>3, <3>4
  <2>4. OrdersAreHeld'
    <3>1. \A p, q \in Purchases :
            orderLock'[q] = p <=> (q = p /\ buy[p].pc \in {"refund", "credit"})
      BY <1>1, <1>3, <2>2 DEF OrdersAreHeld
    <3>2. ASSUME NEW t \in Pollers \ {s}
          PROVE  /\ poll[t].pc \in {"wallet", "credit"} => orderLock'[poll[t].cur] = t
                 /\ \A p \in poll[t].marked : orderLock'[p] = t /\ order'[p] = order[p]
      BY <1>1, <1>2, <1>3, <2>2, <2>3 DEF OrdersAreHeld, HandledIsOrder
    <3> QED
      BY <1>2, <1>3, <2>1, <3>1, <3>2 DEF OrdersAreHeld, Unanswered
  <2>5. BuyersKnow'
    BY <1>3, <2>1, <2>3 DEF BuyersKnow
  <2>6. PollersKnow'
    <3>1. ASSUME NEW t \in Pollers \ {s},
                 poll[t].pc \in {"apply", "wallet", "credit", "notify"}
          PROVE  poll[t].cur \in Purchases /\ order'[poll[t].cur].activation = order[poll[t].cur].activation
      BY <1>2, <2>3, <3>1 DEF HandledIsOrder
    <3>2. ASSUME NEW t \in Pollers \ {s}, poll[t].pc \in {"wallet", "credit", "notify"}
          PROVE  order'[poll[t].cur] = order[poll[t].cur]
      BY <1>2, <1>3, <2>3, <3>2 DEF HandledIsOrder, PollersKnow
    <3> QED
      BY <1>3, <2>1, <3>1, <3>2 DEF PollersKnow
  <2>7. RowsAgree' /\ StatusAgrees'
    BY <1>2, <1>3, <2>1, <2>3 DEF RowsAgree, StatusAgrees
  <2>8. NotifiedOnce'
    BY <1>3, <2>1, <2>3 DEF NotifiedOnce
  <2> QED
    BY <2>4, <2>5, <2>6, <2>7, <2>8, LifeParts
<1> QED
  BY <1>5, <1>6, <1>7, <1>8, <1>9, <1>10 DEF PollNext

-----------------------------------------------------------------------------
(* Grizzly, the clock and administrators.                                  *)

\* Grizzly only ever changes an active number, about which no purchase and no
\* worker knows anything yet.
LEMMA WorldKeepsLife ==
  ASSUME MoneyIInv, LifeIInv, NEW o \in Purchases, World(o)
  PROVE  LifeIInv'
<1>1. /\ order \in [Purchases -> OrderRow]
      /\ upstream \in [Purchases -> Holdings]
      /\ HandledIsOrder
      /\ \A s \in Pollers : poll[s].marked \subseteq Purchases
  BY RowTypes DEF PollState
<1>2. OrdersAreHeld /\ BuyersKnow /\ PollersKnow /\ RowsAgree /\ StatusAgrees /\ NotifiedOnce
  BY DEF LifeIInv
<1>3. UNCHANGED <<orderLock, buy, poll, notified>>
  BY DEF World, CodeArrives, ActivationCancelled, Age
<1>4. CASE CodeArrives(o) \/ ActivationCancelled(o)
  <2>1. /\ upstream[o] = "active" /\ order' = order
        /\ upstream'[o] \in {"code", "cancelled"}
        /\ \A p \in Purchases \ {o} : upstream'[p] = upstream[p]
    BY <1>1, <1>4 DEF CodeArrives, ActivationCancelled
  <2>2. OrdersAreHeld' /\ NotifiedOnce'
    BY <1>2, <1>3, <2>1 DEF OrdersAreHeld, Unanswered, NotifiedOnce
  <2>3. BuyersKnow'
    BY <1>2, <1>3, <2>1 DEF BuyersKnow
  <2>4. PollersKnow'
    BY <1>1, <1>2, <1>3, <2>1 DEF PollersKnow, HandledIsOrder
  <2>5. RowsAgree' /\ StatusAgrees'
    BY <1>2, <2>1 DEF RowsAgree, StatusAgrees
  <2> QED
    BY <2>2, <2>3, <2>4, <2>5, LifeParts
<1>5. CASE Age(o)
  <2>1. /\ upstream' = upstream
        /\ \A p \in Purchases :
             /\ order'[p].status = order[p].status /\ order'[p].refunded = order[p].refunded
             /\ order'[p].activation = order[p].activation /\ order'[p].last = order[p].last
    BY <1>1, <1>5 DEF Age, OrderRow
  <2>2. OrdersAreHeld' /\ NotifiedOnce'
    BY <1>1, <1>2, <1>3, <2>1 DEF OrdersAreHeld, Unanswered, NotifiedOnce
  <2>3. BuyersKnow'
    BY <1>2, <1>3, <2>1 DEF BuyersKnow
  <2>4. PollersKnow'
    BY <1>1, <1>2, <1>3, <2>1 DEF PollersKnow, HandledIsOrder
  <2>5. RowsAgree' /\ StatusAgrees'
    BY <1>2, <2>1 DEF RowsAgree, StatusAgrees
  <2> QED
    BY <2>2, <2>3, <2>4, <2>5, LifeParts
<1> QED
  BY <1>4, <1>5 DEF World

\* A step that touches no order, no purchase and no worker.
LEMMA OthersKeepLife ==
  ASSUME LifeIInv, UNCHANGED orderVars
  PROVE  LifeIInv'
<1>1. UNCHANGED <<order, orderLock, buy, poll, upstream, notified>>
  BY DEF orderVars
<1> QED
  BY <1>1 DEF LifeIInv, OrdersAreHeld, Unanswered, BuyersKnow, PollersKnow, RowsAgree,
     StatusAgrees, NotifiedOnce

-----------------------------------------------------------------------------
(* The induction.                                                          *)

\* No order exists yet, and nobody has started.
LEMMA LifeInitially ==
  ASSUME OrdersAssumption, AccountsAssumption, Init
  PROVE  LifeIInv
<1>1. /\ \A o \in Purchases :
           /\ order[o].status = "none" /\ ~order[o].refunded /\ ~order[o].activation
           /\ order[o].last = "none" /\ upstream[o] = "none" /\ notified[o] = 0
           /\ orderLock[o] = Free /\ buy[o].pc = "idle" /\ o # Free
      /\ \A s \in Pollers : poll[s].pc = "sleep" /\ poll[s].marked = {}
  <2>1. /\ NewRow.status = "none" /\ ~NewRow.refunded /\ ~NewRow.activation
        /\ NewRow.last = "none" /\ NewBuy.pc = "idle"
        /\ Asleep.pc = "sleep" /\ Asleep.marked = {}
    BY DEF NewRow, NewBuy, Asleep
  <2> QED
    BY <2>1, PurchaseIsSession DEF Init
<1>2. OrdersAreHeld /\ BuyersKnow /\ PollersKnow
  BY <1>1 DEF OrdersAreHeld, BuyersKnow, PollersKnow
<1>3. RowsAgree /\ StatusAgrees /\ NotifiedOnce
  BY <1>1 DEF RowsAgree, StatusAgrees, NotifiedOnce
<1> QED
  BY <1>2, <1>3 DEF LifeIInv

\* Layer 2 is inductive, given layer 1.
LEMMA LifeInductive ==
  ASSUME OrdersAssumption, AccountsAssumption, MoneyIInv, LifeIInv, [Next]_vars
  PROVE  LifeIInv'
<1>1. CASE \E b \in Purchases : TapBuy(b) \/ BuyNext(b) \/ AbortBuy(b)
  BY <1>1, BuyKeepsLife
<1>2. CASE \E s \in Pollers : PollNext(s) \/ StatusUnavailable(s) \/ AbortPoll(s)
  BY <1>2, PollKeepsLife
<1>3. CASE \E o \in Purchases : World(o)
  BY <1>3, WorldKeepsLife
<1>4. CASE Administrate
  BY <1>4, OthersKeepLife DEF Administrate
<1>5. CASE UNCHANGED vars
  BY <1>5, OthersKeepLife DEF vars
<1> QED
  BY <1>1, <1>2, <1>3, <1>4, <1>5 DEF Next

\* Both layers hold in every behaviour.
LEMMA LifeAlways == Spec => [](MoneyIInv /\ LifeIInv)
<1>1. Init => MoneyIInv /\ LifeIInv
  BY MoneyInitially, LifeInitially, OrdersAssumption, AccountsAssumption
<1>2. MoneyIInv /\ LifeIInv /\ [Next]_vars => (MoneyIInv /\ LifeIInv)'
  BY MoneyInductive, LifeInductive, OrdersAssumption, AccountsAssumption
<1> QED
  BY <1>1, <1>2, PTL DEF Spec

\* The columns of an order never contradict its status nor what Grizzly did,
\* for any number of purchases and workers.
THEOREM OrdersKeepStatus == Spec => []StatusAgrees
<1>1. LifeIInv => StatusAgrees
  BY DEF LifeIInv
<1> QED
  BY <1>1, LifeAlways, PTL

\* However many workers run, a code is sent at most once, and only for a
\* completed order.
THEOREM OrdersNotifyOnce == Spec => []NotifiedOnce
<1>1. LifeIInv => NotifiedOnce
  BY DEF LifeIInv
<1> QED
  BY <1>1, LifeAlways, PTL

\* Nobody is refunded while Grizzly holds a live number, or a code, for the
\* order, whatever timed out and whoever crashed.
THEOREM OrdersRefundSafely == Spec => []RefundOnlyWithoutNumber
<1>1. LifeIInv => RefundOnlyWithoutNumber
  BY DEF LifeIInv, RowsAgree, RefundOnlyWithoutNumber
<1> QED
  BY <1>1, LifeAlways, PTL

-----------------------------------------------------------------------------
(* The steps: the action properties of Orders, the proof that Orders       *)
(* implements Escrow, and what orders and ledgers say of each other.       *)
(* Three lemmas say what a step can write to an order: reserve it, refund  *)
(* it, or move it on without touching money.                               *)

\* The step adds one row to the ledger of a user.
Appends(u, e) == ledger' = [ledger EXCEPT ![u] = Append(ledger[u], e)]

\* The row is for an order, and its owner's.
Books(o, type, amount) ==
  \E e : Appends(Owner[o], e) /\ e.type = type /\ e.amount = amount /\ e.ref = o

\* A reservation opens an order that did not exist, takes exactly its price
\* from its owner, who can pay it and is not blocked, and touches no other.
LEMMA ReserveWrites ==
  ASSUME OrdersAssumption, AccountsAssumption, MoneyIInv, LifeIInv,
         NEW b \in Purchases, Reserve(b)
  PROVE  /\ order[b].status = "none" /\ order'[b].status = "processing"
         /\ \A o \in Purchases \ {b} : order'[o] = order[o]
         /\ order'[b].price \in 0..balance[Owner[b]] /\ balance[Owner[b]] \in Nat
         /\ balance' = [balance EXCEPT ![Owner[b]] = balance[Owner[b]] - order'[b].price]
         /\ ~blocked[Owner[b]]
         /\ order'[b].events = <<"created">>
         /\ Books(b, "otp_purchase", -order'[b].price)
<1>1. /\ Owner[b] \in Users /\ b \in Sessions \ Adjusts /\ b \in Refs \union {NoRef}
      /\ AccountsIInv /\ order \in [Purchases -> OrderRow] /\ order[b] \in OrderRow
      /\ balance[Owner[b]] \in Nat
      /\ buy[b].price \in Nat /\ -buy[b].price \in Int
  BY PurchaseIsSession DEF MoneyIInv, TypeOK, BuyState, AccountsTypeOK
<1>2. walletLock[Owner[b]] = b /\ ~blocked[Owner[b]] /\ buy[b].pc = "reserve"
  BY <1>1 DEF Reserve, MoneyIInv, BuyersHoldWallets, BuyersHoldUsers
<1>3. order[b].status = "none"
  BY <1>2 DEF LifeIInv, BuyersKnow
<1>4. /\ order'[b].status = "processing" /\ order'[b].price = buy[b].price
      /\ order'[b].events = <<"created">>
      /\ \A o \in Purchases \ {b} : order'[o] = order[o]
  BY <1>1 DEF Reserve, OrderRow
<1>5. /\ ChangeBalance(b, Owner[b], "otp_purchase", -buy[b].price, b) /\ Release(b)
      /\ UNCHANGED <<blocked, adjust>> /\ "otp_purchase" \in EntryTypes
  BY DEF Reserve, EntryTypes
<1>6. /\ balance' = [balance EXCEPT ![Owner[b]] = @ + (-buy[b].price)]
      /\ balance[Owner[b]] + (-buy[b].price) >= 0
  BY <1>1, <1>2, <1>5, CommitStep
<1>7. /\ balance[Owner[b]] + (-buy[b].price) = balance[Owner[b]] - buy[b].price
      /\ buy[b].price \in 0..balance[Owner[b]]
  BY <1>1, <1>6
<1> DEFINE e == [type |-> "otp_purchase", amount |-> -buy[b].price, before |-> seen[b],
                 after |-> seen[b] + (-buy[b].price), ref |-> b]
<1>8. Books(b, "otp_purchase", -order'[b].price)
  <2>1. Appends(Owner[b], e)
    BY <1>5 DEF ChangeBalance, Appends
  <2>2. e.type = "otp_purchase" /\ e.amount = -order'[b].price /\ e.ref = b
    BY <1>4
  <2> HIDE DEF e
  <2> QED
    BY <2>1, <2>2 DEF Books
<1> QED
  BY <1>1, <1>2, <1>3, <1>4, <1>6, <1>7, <1>8

\* A refund, by the purchase itself or by a worker, gives back exactly the
\* price of an order that is neither completed nor refunded, and touches no
\* other order.
LEMMA RefundWrites ==
  ASSUME OrdersAssumption, AccountsAssumption, MoneyIInv, LifeIInv, NEW o \in Purchases,
         \/ RefundReservation(o)
         \/ \E s \in Pollers : RefundCancelled(s) /\ poll[s].cur = o
  PROVE  /\ order[o].status \in {"processing", "manual_reconciliation", "waiting_for_otp"}
         /\ order[o].status # "waiting_for_otp" => buy[o].pc = "credit" /\ buy'[o].pc = "done"
         /\ order'[o].status = "refunded" /\ order'[o].price = order[o].price
         /\ \A p \in Purchases \ {o} : order'[p] = order[p]
         /\ balance' = [balance EXCEPT ![Owner[o]] = balance[Owner[o]] + order[o].price]
         /\ order'[o].events = Append(order[o].events, "refunded")
         /\ Books(o, "refund", order[o].price)
<1>1. PICK s \in Purchases \union Pollers, last \in Answers \union {"none"} :
        /\ CommitRefund(s, o, last) /\ UNCHANGED <<blocked, adjust>>
        /\ walletLock[Owner[o]] = s
        /\ order[o].status \in {"processing", "manual_reconciliation", "waiting_for_otp"}
        /\ order[o].status # "waiting_for_otp" => buy[o].pc = "credit" /\ buy'[o].pc = "done"
  <2>1. CASE RefundReservation(o)
    <3>1. buy[o].pc = "credit" /\ CommitRefund(o, o, order[o].last) /\ UNCHANGED <<blocked, adjust>>
      BY <2>1 DEF RefundReservation
    <3>2. walletLock[Owner[o]] = o
      BY <3>1, PurchaseIsSession DEF MoneyIInv, BuyersHoldWallets
    <3>3. order[o].status \in {"processing", "manual_reconciliation"}
      BY <3>1 DEF LifeIInv, BuyersKnow
    <3>4. order[o].last \in Answers \union {"none"} /\ buy \in [Purchases -> BuyState]
      BY DEF MoneyIInv, TypeOK, OrderRow
    <3>5. buy'[o].pc = "done"
      BY <2>1, <3>4 DEF RefundReservation, EndBuy, NewBuy
    <3> QED
      BY <3>1, <3>2, <3>3, <3>4, <3>5
  <2>2. CASE \E s \in Pollers : RefundCancelled(s) /\ poll[s].cur = o
    <3>1. PICK s \in Pollers : RefundCancelled(s) /\ poll[s].cur = o
      BY <2>2
    <3>2. poll[s].pc = "credit" /\ CommitRefund(s, o, "cancel") /\ UNCHANGED <<blocked, adjust>>
      BY <3>1 DEF RefundCancelled
    <3>3. walletLock[Owner[o]] = s
      BY <3>1, <3>2, PurchaseIsSession DEF MoneyIInv, PollersHoldWallets
    <3>4. order[o].status = "waiting_for_otp"
      BY <3>1, <3>2 DEF LifeIInv, PollersKnow
    <3> QED
      BY <3>2, <3>3, <3>4 DEF Answers
  <2> QED
    BY <2>1, <2>2
<1>2. /\ s \in Sessions \ Adjusts /\ Owner[o] \in Users /\ o \in Refs \union {NoRef}
      /\ AccountsIInv /\ order \in [Purchases -> OrderRow] /\ order[o] \in OrderRow
      /\ order[o].price \in Int /\ "refund" \in EntryTypes
  <2>1. s \in Sessions \ Adjusts /\ Owner[o] \in Users /\ o \in Refs \union {NoRef}
    BY PurchaseIsSession, PollerIsSession
  <2>2. AccountsIInv /\ order \in [Purchases -> OrderRow]
    BY DEF MoneyIInv, TypeOK
  <2>3. order[o] \in OrderRow /\ order[o].price \in Int
    BY <2>2 DEF OrderRow
  <2> QED
    BY <2>1, <2>2, <2>3 DEF EntryTypes
<1>3. ChangeBalance(s, Owner[o], "refund", order[o].price, o) /\ Release(s)
  BY <1>1 DEF CommitRefund, ReleaseAll
<1>4. balance' = [balance EXCEPT ![Owner[o]] = @ + order[o].price]
  BY <1>1, <1>2, <1>3, CommitStep
<1>5. /\ order'[o].status = "refunded" /\ order'[o].price = order[o].price
      /\ order'[o].events = Append(order[o].events, "refunded")
      /\ \A p \in Purchases \ {o} : order'[p] = order[p]
  BY <1>1, <1>2 DEF CommitRefund, OrderRow
<1> DEFINE e == [type |-> "refund", amount |-> order[o].price, before |-> seen[s],
                 after |-> seen[s] + order[o].price, ref |-> o]
<1>6. Books(o, "refund", order[o].price)
  <2>1. Appends(Owner[o], e)
    BY <1>3 DEF ChangeBalance, Appends
  <2>2. e.type = "refund" /\ e.amount = order[o].price /\ e.ref = o
    OBVIOUS
  <2> HIDE DEF e
  <2> QED
    BY <2>1, <2>2 DEF Books
<1> QED
  BY <1>1, <1>4, <1>5, <1>6

\* The steps that reserve nothing and refund nothing.
Moneyless ==
  \/ \E b \in Purchases :
       \/ TapBuy(b) \/ AbortBuy(b) \/ TurnedAway(b) \/ PassGates(b) \/ LockFunds(b) \/ TooPoor(b)
       \/ Request(b) \/ RecordUnknown(b) \/ RecordNumber(b) \/ NumberMissing(b)
       \/ OpenRefund(b) \/ LockRefund(b)
  \/ \E s \in Pollers :
       \/ Snapshot(s) \/ AskStatus(s) \/ SkipSettled(s) \/ DropAnswer(s)
       \/ ApplyOther(s) \/ ApplyOtp(s) \/ Notify(s)
       \/ ApplyCancel(s) \/ PollLockWallet(s) \/ SweepLock(s) \/ SweepCommit(s)
       \/ StatusUnavailable(s) \/ AbortPoll(s)
  \/ \E o \in Purchases : World(o)
  \/ UNCHANGED vars

\* Every step is a reservation, a refund, a change by an administrator, or
\* moves no money.
LEMMA StepKinds ==
  ASSUME MoneyIInv, [Next]_vars
  PROVE  \/ \E b \in Purchases : Reserve(b)
         \/ \E o \in Purchases : \/ RefundReservation(o)
                                 \/ \E s \in Pollers : RefundCancelled(s) /\ poll[s].cur = o
         \/ Administrate
         \/ Moneyless
<1>1. ASSUME NEW s \in Pollers, RefundCancelled(s)
      PROVE  poll[s].cur \in Purchases
  BY <1>1 DEF MoneyIInv, HandledIsOrder, RefundCancelled
<1>2. CASE \E b \in Purchases : TapBuy(b) \/ BuyNext(b) \/ AbortBuy(b)
  BY <1>2 DEF BuyNext, Moneyless
<1>3. CASE \E s \in Pollers : PollNext(s) \/ StatusUnavailable(s) \/ AbortPoll(s)
  BY <1>1, <1>3 DEF PollNext, Moneyless
<1>4. CASE \E o \in Purchases : World(o)
  BY <1>4 DEF Moneyless
<1>5. CASE Administrate \/ UNCHANGED vars
  BY <1>5 DEF Moneyless
<1> QED
  BY <1>2, <1>3, <1>4, <1>5 DEF Next

\* What such a step may do to an order: nothing but set it aside, record its
\* number or its code, or update a column that is not its status; and an order
\* that was set aside is only touched by its own purchase, which thereby ends.
Moves(o) ==
  /\ order'[o].price = order[o].price
  /\ order'[o].events =
       IF order[o].status = "processing" /\ order'[o].status = "manual_reconciliation"
       THEN Append(order[o].events, "manual_reconciliation") ELSE order[o].events
  /\ \/ order'[o].status = order[o].status
     \/ order[o].status = "processing" /\ order'[o].status = "manual_reconciliation"
     \/ /\ order[o].status \in {"processing", "manual_reconciliation"}
        /\ order'[o].status = "waiting_for_otp"
     \/ order[o].status = "waiting_for_otp" /\ order'[o].status = "completed"
  /\ order[o].status = "manual_reconciliation" /\ order'[o] # order[o] =>
       buy[o].pc = "reply" /\ buy'[o].pc = "done"

\* Only one order at a time is completed.
LEMMA MoneylessWrites ==
  ASSUME OrdersAssumption, AccountsAssumption, MoneyIInv, LifeIInv, Moneyless
  PROVE  /\ UNCHANGED <<balance, ledger>>
         /\ \A o \in Purchases : Moves(o)
         /\ \A o, p \in Purchases :
              /\ order[o].status # "completed" /\ order'[o].status = "completed"
              /\ order[p].status # "completed" /\ order'[p].status = "completed"
              => o = p
<1>1. /\ order \in [Purchases -> OrderRow] /\ buy \in [Purchases -> BuyState] /\ HandledIsOrder
  BY RowTypes
<1>2. OrdersAreHeld /\ BuyersKnow /\ PollersKnow
  BY DEF LifeIInv
<1>3. CASE order' = order /\ UNCHANGED <<balance, ledger>>
  BY <1>3 DEF Moves
<1>4. ASSUME NEW b \in Purchases, RecordUnknown(b) \/ RecordNumber(b)
      PROVE  /\ UNCHANGED <<balance, ledger>>
             /\ \A o \in Purchases \ {b} : order'[o] = order[o]
             /\ Moves(b) /\ order'[b].status # "completed"
  <2>1. /\ buy[b].pc = "reply" /\ order[b].status \in {"processing", "manual_reconciliation"}
        /\ buy'[b].pc = "done" /\ UNCHANGED <<balance, ledger>>
    BY <1>1, <1>2, <1>4 DEF RecordUnknown, RecordNumber, EndBuy, NewBuy, accountVars, BuyersKnow
  <2>2. CASE RecordUnknown(b)
    BY <1>1, <2>1, <2>2 DEF RecordUnknown, OrderRow, Moves
  <2>3. CASE RecordNumber(b)
    BY <1>1, <2>1, <2>3 DEF RecordNumber, OrderRow, Moves
  <2> QED
    BY <1>4, <2>1, <2>2, <2>3
<1>5. ASSUME NEW s \in Pollers, ApplyOther(s) \/ ApplyOtp(s)
      PROVE  /\ UNCHANGED <<balance, ledger>> /\ poll[s].cur \in Purchases
             /\ \A o \in Purchases \ {poll[s].cur} : order'[o] = order[o]
             /\ Moves(poll[s].cur)
  <2>1. /\ poll[s].cur \in Purchases /\ order[poll[s].cur].status = "waiting_for_otp"
        /\ UNCHANGED <<balance, ledger>>
    BY <1>1, <1>5 DEF ApplyOther, ApplyOtp, StillWaiting, HandledIsOrder, accountVars
  <2>2. \A o \in Purchases \ {poll[s].cur} : order'[o] = order[o]
    BY <1>1, <1>5, <2>1 DEF ApplyOther, ApplyOtp
  <2>3. /\ order'[poll[s].cur].price = order[poll[s].cur].price
        /\ order'[poll[s].cur].events = order[poll[s].cur].events
        /\ order'[poll[s].cur].status \in {"waiting_for_otp", "completed"}
    <3>1. order[poll[s].cur] \in OrderRow
      BY <1>1, <2>1
    <3>2. CASE ApplyOther(s)
      BY <1>1, <2>1, <3>1, <3>2 DEF ApplyOther, OrderRow
    <3>3. CASE ApplyOtp(s)
      BY <1>1, <2>1, <3>1, <3>3 DEF ApplyOtp, OrderRow
    <3> QED
      BY <1>5, <3>2, <3>3
  <2> QED
    BY <2>1, <2>2, <2>3 DEF Moves
<1>6. ASSUME NEW s \in Pollers, SweepCommit(s)
      PROVE  /\ UNCHANGED <<balance, ledger>>
             /\ \A o \in Purchases : Moves(o) /\ (order'[o].status = "completed" =>
                                                  order[o].status = "completed")
  <2>1. UNCHANGED <<balance, ledger>>
    BY <1>6 DEF SweepCommit, accountVars
  <2>2. ASSUME NEW o \in Purchases, o \notin poll[s].marked
        PROVE  order'[o] = order[o]
    BY <1>6, <2>2 DEF SweepCommit
  <2>3. ASSUME NEW o \in Purchases, o \in poll[s].marked
        PROVE  /\ order[o].status = "processing" /\ order'[o].status = "manual_reconciliation"
               /\ order'[o].price = order[o].price
               /\ order'[o].events = Append(order[o].events, "manual_reconciliation")
    <3>1. order[o].status = "processing"
      BY <1>2, <2>3 DEF OrdersAreHeld, Unanswered
    <3>2. order'[o] = [order[o] EXCEPT !.status = "manual_reconciliation",
                                       !.events = Append(order[o].events, "manual_reconciliation")]
      BY <1>6, <2>3 DEF SweepCommit
    <3>3. DOMAIN order[o] = {"status", "refunded", "activation", "price", "aged",
                             "events", "last"}
      BY <1>1 DEF OrderRow
    <3> QED
      BY <3>1, <3>2, <3>3
  <2> QED
    BY <2>1, <2>2, <2>3 DEF Moves
<1>7. ASSUME NEW b \in Purchases, Age(b)
      PROVE  /\ UNCHANGED <<balance, ledger>>
             /\ \A o \in Purchases \ {b} : order'[o] = order[o]
             /\ Moves(b) /\ order'[b].status = order[b].status
  BY <1>1, <1>7 DEF Age, OrderRow, Moves, accountVars
<1>8. CASE \E b \in Purchases : RecordUnknown(b) \/ RecordNumber(b)
  BY <1>4, <1>8 DEF Moves
<1>9. CASE \E s \in Pollers : ApplyOther(s) \/ ApplyOtp(s)
  BY <1>5, <1>9 DEF Moves
<1>10. CASE \E s \in Pollers : SweepCommit(s)
  BY <1>6, <1>10
<1>11. CASE \E o \in Purchases : Age(o)
  BY <1>7, <1>11 DEF Moves
<1> QED
  <2>1. CASE \E b \in Purchases :
               \/ TapBuy(b) \/ AbortBuy(b) \/ TurnedAway(b) \/ PassGates(b) \/ LockFunds(b)
               \/ TooPoor(b) \/ Request(b) \/ NumberMissing(b) \/ OpenRefund(b)
               \/ LockRefund(b)
    BY <1>3, <2>1 DEF TapBuy, AbortBuy, TurnedAway, PassGates, LockFunds, TooPoor, Request,
       NumberMissing, OpenRefund, LockRefund, accountVars
  <2>2. CASE \E s \in Pollers :
               \/ Snapshot(s) \/ AskStatus(s) \/ SkipSettled(s) \/ DropAnswer(s) \/ Notify(s)
               \/ ApplyCancel(s) \/ PollLockWallet(s) \/ SweepLock(s)
               \/ StatusUnavailable(s) \/ AbortPoll(s)
    BY <1>3, <2>2 DEF Snapshot, AskStatus, SkipSettled, DropAnswer, Notify, ApplyCancel,
       PollLockWallet, SweepLock, StatusUnavailable, AbortPoll, accountVars
  <2>3. CASE (\E o \in Purchases : CodeArrives(o) \/ ActivationCancelled(o)) \/ UNCHANGED vars
    BY <1>3, <2>3 DEF CodeArrives, ActivationCancelled, accountVars, vars, orderVars
  <2> QED
    BY <1>8, <1>9, <1>10, <1>11, <2>1, <2>2, <2>3 DEF Moneyless, World

-----------------------------------------------------------------------------
(* Action properties.                                                      *)

\* An administrator's step leaves every order alone.
LEMMA AdministrateWrites ==
  ASSUME Administrate
  PROVE  order' = order /\ buy' = buy
  BY DEF Administrate, orderVars

\* What any step does to any order.
LEMMA OrderStep ==
  ASSUME OrdersAssumption, AccountsAssumption, MoneyIInv, LifeIInv, [Next]_vars,
         NEW o \in Purchases
  PROVE  \/ /\ order[o].status = "none" /\ order'[o].status = "processing"
            /\ ~blocked[Owner[o]]
         \/ /\ order[o].status \in {"processing", "manual_reconciliation", "waiting_for_otp"}
            /\ order'[o].status = "refunded"
            /\ order[o].status # "waiting_for_otp" => buy[o].pc = "credit" /\ buy'[o].pc = "done"
         \/ Moves(o)
<1>1. CASE \E b \in Purchases : Reserve(b)
  BY <1>1, ReserveWrites DEF Moves
<1>2. CASE \E p \in Purchases : \/ RefundReservation(p)
                                \/ \E s \in Pollers : RefundCancelled(s) /\ poll[s].cur = p
  BY <1>2, RefundWrites DEF Moves
<1>3. CASE Administrate
  BY <1>3, AdministrateWrites DEF Moves
<1>4. CASE Moneyless
  BY <1>4, MoneylessWrites
<1> QED
  BY <1>1, <1>2, <1>3, <1>4, StepKinds

\* No worker and no late answer takes an order a step back, and a completed or
\* refunded order never changes its status again.
THEOREM OrdersFollowFlow == Spec => StatusFlow
<1>1. ASSUME MoneyIInv, LifeIInv, [Next]_vars, NEW o \in Purchases,
             order'[o].status # order[o].status
      PROVE  order'[o].status \in Follows[order[o].status]
  BY <1>1, OrderStep, OrdersAssumption, AccountsAssumption DEF Moves, Follows
<1>2. MoneyIInv /\ LifeIInv /\ [Next]_vars =>
        [\A o \in Purchases :
           order'[o].status # order[o].status =>
             order'[o].status \in Follows[order[o].status]]_vars
  BY <1>1
<1> QED
  BY <1>2, LifeAlways, PTL DEF Spec, StatusFlow

\* No reservation commits for a user who is blocked at that moment.
THEOREM OrdersRefuseBlocked == Spec => BlockedNeverReserve
<1>1. ASSUME MoneyIInv, LifeIInv, [Next]_vars, NEW o \in Purchases,
             order[o].status = "none", order'[o].status # "none"
      PROVE  ~blocked[Owner[o]]
  BY <1>1, OrderStep, OrdersAssumption, AccountsAssumption DEF Moves
<1>2. MoneyIInv /\ LifeIInv /\ [Next]_vars =>
        [\A o \in Purchases :
           order[o].status = "none" /\ order'[o].status # "none" => ~blocked[Owner[o]]]_vars
  BY <1>1
<1> QED
  BY <1>2, LifeAlways, PTL DEF Spec, BlockedNeverReserve

\* An order in manual reconciliation is left alone by every worker: only the
\* late answer of its own purchase moves it again.
THEOREM OrdersLeaveReconciliation == Spec => ReconciliationIsTheBuyers
<1>1. ASSUME MoneyIInv, LifeIInv, [Next]_vars, NEW o \in Purchases,
             order[o].status = "manual_reconciliation", order'[o] # order[o]
      PROVE  buy[o].pc \in {"reply", "credit"} /\ buy'[o].pc = "done"
  BY <1>1, OrderStep, OrdersAssumption, AccountsAssumption DEF Moves
<1>2. MoneyIInv /\ LifeIInv /\ [Next]_vars =>
        [\A o \in Purchases :
           order[o].status = "manual_reconciliation" /\ order'[o] # order[o] =>
             buy[o].pc \in {"reply", "credit"} /\ buy'[o].pc = "done"]_vars
  BY <1>1
<1> QED
  BY <1>2, LifeAlways, PTL DEF Spec, ReconciliationIsTheBuyers

-----------------------------------------------------------------------------
(* Orders implements Escrow.                                               *)

\* The refinement mapping: what the buyer can rely on, and the price.
dealOf == [o \in Purchases |-> DealOf(o)]
stakeOf == [o \in Purchases |-> order[o].price]

\* One order's row changes: the mapped functions change at that order only.
LEMMA DealChanges ==
  ASSUME NEW o \in Purchases, \A p \in Purchases \ {o} : order'[p] = order[p]
  PROVE  /\ dealOf' = [dealOf EXCEPT ![o] = DealOf(o)']
         /\ stakeOf' = [stakeOf EXCEPT ![o] = order'[o].price]
<1>1. \A p \in Purchases \ {o} : DealOf(p)' = DealOf(p)
  BY DEF DealOf
<1> QED
  BY <1>1 DEF dealOf, stakeOf

\* A reservation opens a deal.
LEMMA ReserveOpens ==
  ASSUME OrdersAssumption, AccountsAssumption, MoneyIInv, LifeIInv,
         NEW b \in Purchases, Reserve(b)
  PROVE  Promise!Open(b)
<1>1. /\ order[b].status = "none" /\ order'[b].status = "processing"
      /\ \A o \in Purchases \ {b} : order'[o] = order[o]
      /\ order'[b].price \in 0..balance[Owner[b]]
      /\ balance' = [balance EXCEPT ![Owner[b]] = balance[Owner[b]] - order'[b].price]
  BY ReserveWrites
<1>2. DealOf(b) = "none" /\ DealOf(b)' = "held"
  BY <1>1 DEF DealOf
<1>3. /\ dealOf' = [dealOf EXCEPT ![b] = "held"] /\ dealOf[b] = "none"
      /\ stakeOf' = [stakeOf EXCEPT ![b] = order'[b].price]
  BY <1>1, <1>2, DealChanges DEF dealOf
<1> QED
  BY <1>1, <1>3 DEF Promise!Open, dealOf, stakeOf

\* A refund returns a deal.
LEMMA RefundReturns ==
  ASSUME OrdersAssumption, AccountsAssumption, MoneyIInv, LifeIInv, NEW o \in Purchases,
         \/ RefundReservation(o)
         \/ \E s \in Pollers : RefundCancelled(s) /\ poll[s].cur = o
  PROVE  Promise!Return(o)
<1>1. /\ order[o].status \in {"processing", "manual_reconciliation", "waiting_for_otp"}
      /\ order'[o].status = "refunded" /\ order'[o].price = order[o].price
      /\ \A p \in Purchases \ {o} : order'[p] = order[p]
      /\ balance' = [balance EXCEPT ![Owner[o]] = balance[Owner[o]] + order[o].price]
  BY RefundWrites
<1>2. DealOf(o) = "held" /\ DealOf(o)' = "returned"
  BY <1>1 DEF DealOf
<1>3. dealOf' = [dealOf EXCEPT ![o] = "returned"] /\ dealOf[o] = "held"
  BY <1>1, <1>2, DealChanges DEF dealOf
<1>4. stakeOf' = stakeOf /\ stakeOf[o] = order[o].price
  BY <1>1 DEF stakeOf
<1> QED
  BY <1>1, <1>3, <1>4 DEF Promise!Return, dealOf, stakeOf

\* A step that moves no money keeps one deal or changes none.
LEMMA MoneylessKeeps ==
  ASSUME OrdersAssumption, AccountsAssumption, MoneyIInv, LifeIInv, Moneyless
  PROVE  (\E o \in Purchases : Promise!Keep(o)) \/ UNCHANGED <<balance, dealOf, stakeOf>>
<1>1. /\ balance' = balance /\ \A o \in Purchases : Moves(o)
      /\ \A o, p \in Purchases :
           /\ order[o].status # "completed" /\ order'[o].status = "completed"
           /\ order[p].status # "completed" /\ order'[p].status = "completed"
           => o = p
  BY MoneylessWrites
<1>2. stakeOf' = stakeOf
  BY <1>1 DEF stakeOf, Moves
<1>3. ASSUME NEW o \in Purchases,
             order[o].status = "completed" \/ order'[o].status # "completed"
      PROVE  DealOf(o)' = DealOf(o)
  BY <1>1, <1>3 DEF Moves, DealOf
<1>4. CASE \A o \in Purchases : order[o].status = "completed" \/ order'[o].status # "completed"
  BY <1>1, <1>2, <1>3, <1>4 DEF dealOf
<1>5. CASE \E o \in Purchases : order[o].status # "completed" /\ order'[o].status = "completed"
  <2>1. PICK o \in Purchases : order[o].status # "completed" /\ order'[o].status = "completed"
    BY <1>5
  <2>2. DealOf(o) = "held" /\ DealOf(o)' = "sold"
    BY <1>1, <2>1 DEF Moves, DealOf
  <2>3. \A p \in Purchases \ {o} : DealOf(p)' = DealOf(p)
    BY <1>1, <1>3, <2>1
  <2>4. dealOf' = [dealOf EXCEPT ![o] = "sold"] /\ dealOf[o] = "held"
    BY <2>2, <2>3 DEF dealOf
  <2> QED
    BY <1>1, <1>2, <2>4 DEF Promise!Keep, dealOf, stakeOf
<1> QED
  BY <1>4, <1>5

\* An administrator adjusts the funds of one user, or blocks one.
LEMMA AdministrateAdjusts ==
  ASSUME OrdersAssumption, AccountsAssumption, MoneyIInv, Administrate
  PROVE  (\E u \in Users : Promise!Adjust(u)) \/ UNCHANGED <<balance, dealOf, stakeOf>>
<1>1. AccountsNext /\ order' = order
  BY DEF Administrate, orderVars
<1>2. dealOf' = dealOf /\ stakeOf' = stakeOf
  BY <1>1 DEF dealOf, stakeOf, DealOf
<1>3. balance \in [Users -> Nat] /\ balance' \in [Users -> Nat]
  <2>1. MoneyIInv'
    BY AdministrateKeepsMoney
  <2> QED
    BY <2>1 DEF MoneyIInv, TypeOK, AccountsTypeOK
<1>4. CASE balance' = balance
  BY <1>2, <1>4
<1>5. CASE \E a \in Adjusts : AdjustCommit(a)
  <2>1. PICK a \in Adjusts : AdjustCommit(a)
    BY <1>5
  <2>2. AdjustUser[a] \in Users
    BY DEF AccountsAssumption
  <2>3. balance' = [balance EXCEPT ![AdjustUser[a]] = balance'[AdjustUser[a]]]
    BY <1>3, <2>1, <2>2 DEF AdjustCommit, ChangeBalance
  <2>4. balance'[AdjustUser[a]] \in Nat
    BY <1>3, <2>2
  <2> QED
    BY <1>2, <2>2, <2>3, <2>4 DEF Promise!Adjust, dealOf, stakeOf
<1> QED
  BY <1>1, <1>4, <1>5 DEF AccountsNext, AdjustNext, AdjustLock, AdjustRefused, AdjustAbort,
     SetBlocked

\* Every step of Orders is a step of Escrow or changes nothing Escrow sees.
LEMMA PromiseStep ==
  ASSUME OrdersAssumption, AccountsAssumption, MoneyIInv, LifeIInv, [Next]_vars
  PROVE  [Promise!Next]_(Promise!escrowVars)
<1>1. CASE \E b \in Purchases : Reserve(b)
  BY <1>1, ReserveOpens DEF Promise!Next
<1>2. CASE \E o \in Purchases : \/ RefundReservation(o)
                                \/ \E s \in Pollers : RefundCancelled(s) /\ poll[s].cur = o
  BY <1>2, RefundReturns DEF Promise!Next
<1>3. CASE Administrate
  BY <1>3, AdministrateAdjusts DEF Promise!Next, Promise!escrowVars, dealOf, stakeOf
<1>4. CASE Moneyless
  BY <1>4, MoneylessKeeps DEF Promise!Next, Promise!escrowVars, dealOf, stakeOf
<1> QED
  BY <1>1, <1>2, <1>3, <1>4, StepKinds

\* No order is a deal before it is reserved.
LEMMA PromiseInitially ==
  ASSUME Init
  PROVE  Promise!Init
<1>1. NewRow.status = "none" /\ NewRow.price = 0
  BY DEF NewRow
<1>2. \A o \in Purchases : DealOf(o) = "none" /\ order[o].price = 0
  BY <1>1 DEF Init, DealOf
<1> QED
  BY <1>2 DEF Init, AccountsInit, Promise!Init

\* The whole of handlers, workers, locks, lost answers and crashes implements
\* the escrow: a price is taken once, held while the outcome is open, and kept
\* for a code or returned once and in full.
THEOREM OrdersKeepPromise == Spec => KeepsPromise
<1>1. Init => Promise!Init
  BY PromiseInitially
<1>2. MoneyIInv /\ LifeIInv /\ [Next]_vars => [Promise!Next]_(Promise!escrowVars)
  BY PromiseStep, OrdersAssumption, AccountsAssumption
<1> QED
  BY <1>1, <1>2, LifeAlways, PTL DEF Spec, KeepsPromise, Promise!Spec

-----------------------------------------------------------------------------
(* The ledger and the events follow the orders.                            *)

\* As far as LedgerMatchesOrders can see, the rows of a type stay the same.
SameRows(o, type) ==
  /\ RowsFor(o, type)' = RowsFor(o, type)
  /\ \A i \in RowsFor(o, type) : ledger'[Owner[o]][i] = ledger[Owner[o]][i]

\* One more row of a type, a given one.
OneMoreRow(o, type, e) ==
  \E n \in Nat : /\ RowsFor(o, type)' = RowsFor(o, type) \union {n}
                 /\ ledger'[Owner[o]][n] = e

\* A row added anywhere: the rows of one type for one order gain it exactly
\* when it is of that type, for that order and in its owner's ledger.
LEMMA RowsAppended ==
  ASSUME NEW u \in Users, NEW e, ledger \in [Users -> Seq(Entry)], Appends(u, e),
         NEW o \in Purchases, Owner[o] \in Users, NEW type \in EntryTypes
  PROVE  IF Owner[o] = u /\ e.type = type /\ e.ref = o
         THEN OneMoreRow(o, type, e) ELSE SameRows(o, type)
<1> DEFINE w == Owner[o]
           n == Len(ledger[u])
<1>1. CASE w # u
  <2>1. ledger'[w] = ledger[w]
    BY <1>1 DEF Appends
  <2> QED
    BY <1>1, <2>1 DEF RowsFor, SameRows
<1>2. CASE w = u
  <2>1. ledger[u] \in Seq(Entry) /\ ledger'[u] = Append(ledger[u], e)
    BY DEF Appends
  <2>2. /\ Len(ledger'[u]) = n + 1 /\ n \in Nat /\ ledger'[u][n + 1] = e
        /\ \A i \in 1..n : ledger'[u][i] = ledger[u][i]
    BY <2>1
  <2> HIDE DEF n
  <2>3. \A i : i \in 1..(n + 1) <=> i \in 1..n \/ i = n + 1
    BY <2>2
  <2>4. /\ RowsFor(o, type) =
             {i \in 1..n : ledger[u][i].type = type /\ ledger[u][i].ref = o}
        /\ RowsFor(o, type)' =
             {i \in 1..(n + 1) : ledger'[u][i].type = type /\ ledger'[u][i].ref = o}
    BY <1>2, <2>2 DEF RowsFor, n
  <2>5. \A i \in RowsFor(o, type) : ledger'[w][i] = ledger[w][i]
    BY <1>2, <2>2, <2>4
  <2>6. CASE e.type = type /\ e.ref = o
    <3>1. RowsFor(o, type)' = RowsFor(o, type) \union {n + 1}
      BY <2>2, <2>3, <2>4, <2>6
    <3>2. n + 1 \in Nat
      BY <2>2
    <3> QED
      BY <1>2, <2>2, <2>6, <3>1, <3>2 DEF OneMoreRow
  <2>7. CASE e.type # type \/ e.ref # o
    <3>1. RowsFor(o, type)' = RowsFor(o, type)
      BY <2>2, <2>3, <2>4, <2>7
    <3> QED
      BY <1>2, <2>5, <2>7, <3>1 DEF SameRows
  <2> QED
    BY <2>6, <2>7
<1> QED
  BY <1>1, <1>2

\* The step that books a row for order o leaves every other pair of an order
\* and a type alone, and gives o its row.
LEMMA BooksOnce ==
  ASSUME OrdersAssumption, AccountsAssumption, MoneyIInv,
         NEW o \in Purchases, NEW type \in EntryTypes, NEW amount,
         Books(o, type, amount)
  PROVE  /\ \A p \in Purchases, other \in EntryTypes :
              p # o \/ other # type => SameRows(p, other)
         /\ RowsFor(o, type) = {} => Once(o, type, amount)'
<1>1. ledger \in [Users -> Seq(Entry)] /\ Owner[o] \in Users
  BY PurchaseIsSession DEF MoneyIInv, TypeOK, AccountsTypeOK
<1>2. PICK e : Appends(Owner[o], e) /\ e.type = type /\ e.amount = amount /\ e.ref = o
  BY DEF Books
<1> DEFINE u == Owner[o]
<1>3. u \in Users /\ Appends(u, e)
  BY <1>1, <1>2
<1> HIDE DEF u
<1>4. ASSUME NEW p \in Purchases, NEW other \in EntryTypes, p # o \/ other # type
      PROVE  SameRows(p, other)
  <2>1. Owner[p] \in Users
    BY PurchaseIsSession
  <2>2. ~(Owner[p] = u /\ e.type = other /\ e.ref = p)
    BY <1>2, <1>4
  <2> QED
    BY <1>1, <1>3, <2>1, <2>2, RowsAppended
<1>5. ASSUME RowsFor(o, type) = {}
      PROVE  Once(o, type, amount)'
  <2>1. Owner[o] = u
    BY DEF u
  <2>2. OneMoreRow(o, type, e)
    BY <1>1, <1>2, <1>3, <2>1, RowsAppended
  <2>3. PICK n \in Nat : RowsFor(o, type)' = {n} /\ ledger'[Owner[o]][n] = e
    BY <1>5, <2>2 DEF OneMoreRow
  <2> QED
    BY <1>2, <2>3 DEF Once
<1> QED
  BY <1>4, <1>5

\* What LedgerMatchesOrders says of one order.
Matched(o) ==
  /\ IF order[o].status = "none" THEN RowsFor(o, "otp_purchase") = {}
     ELSE Once(o, "otp_purchase", -order[o].price)
  /\ IF order[o].refunded THEN Once(o, "refund", order[o].price)
     ELSE RowsFor(o, "refund") = {}

\* The same rows match the same order.
LEMMA SameRowsMatch ==
  ASSUME NEW o \in Purchases, Matched(o),
         SameRows(o, "otp_purchase"), SameRows(o, "refund"),
         order'[o].price = order[o].price, order'[o].refunded <=> order[o].refunded,
         order'[o].status = "none" <=> order[o].status = "none"
  PROVE  Matched(o)'
<1>1. ASSUME NEW type \in {"otp_purchase", "refund"}, NEW amount,
             SameRows(o, type), Once(o, type, amount)
      PROVE  Once(o, type, amount)'
  BY <1>1 DEF SameRows, Once
<1> QED
  BY <1>1 DEF Matched, SameRows

\* An administrator's row is neither a purchase nor a refund.
LEMMA AdministrateBooksNothing ==
  ASSUME OrdersAssumption, AccountsAssumption, MoneyIInv, Administrate, NEW o \in Purchases,
         NEW type \in {"otp_purchase", "refund"}
  PROVE  SameRows(o, type)
<1>1. /\ ledger \in [Users -> Seq(Entry)] /\ seen \in [Sessions -> Nat] /\ Owner[o] \in Users
  BY PurchaseIsSession DEF MoneyIInv, TypeOK, AccountsTypeOK
<1>2. CASE ledger' = ledger
  BY <1>2 DEF SameRows, RowsFor
<1>3. ASSUME NEW a \in Adjusts, AdjustCommit(a)
      PROVE  SameRows(o, type)
  <2> DEFINE e == [type |-> AdjustType(a), amount |-> Delta[a], before |-> seen[a],
                   after |-> seen[a] + Delta[a], ref |-> NoRef]
             u == AdjustUser[a]
  <2>1. u \in Users /\ a \in Sessions /\ Delta[a] \in Int
    BY DEF AccountsAssumption
  <2>3. Appends(u, e)
    BY <1>3 DEF AdjustCommit, ChangeBalance, Appends
  <2>4. e.type # type /\ type \in EntryTypes
    BY DEF AdjustType, EntryTypes
  <2> HIDE DEF e, u
  <2> QED
    BY <1>1, <2>1, <2>3, <2>4, RowsAppended
<1>4. ledger' = ledger \/ \E a \in Adjusts : AdjustCommit(a)
  BY DEF Administrate, AccountsNext, AdjustNext, AdjustLock, AdjustRefused, AdjustAbort,
     SetBlocked
<1> QED
  BY <1>2, <1>3, <1>4

\* Every step keeps every order and the ledger in agreement.
LEMMA MatchedKept ==
  ASSUME OrdersAssumption, AccountsAssumption, MoneyIInv, LifeIInv, LifeIInv', [Next]_vars,
         LedgerMatchesOrders, NEW o \in Purchases
  PROVE  Matched(o)'
<1>1. /\ Matched(o)
      /\ order[o].refunded <=> order[o].status = "refunded"
      /\ order'[o].refunded <=> order'[o].status = "refunded"
  BY DEF LedgerMatchesOrders, Matched, LifeIInv, StatusAgrees
<1>2. /\ \A p \in Purchases : order[p].price \in Int /\ -order[p].price \in Int
      /\ "otp_purchase" \in EntryTypes /\ "refund" \in EntryTypes
  BY RowTypes DEF OrderRow, EntryTypes
<1>3. ASSUME NEW b \in Purchases, Reserve(b)
      PROVE  Matched(o)'
  <2>1. /\ order[b].status = "none" /\ order'[b].status = "processing"
        /\ \A p \in Purchases \ {b} : order'[p] = order[p]
        /\ Books(b, "otp_purchase", -order'[b].price)
    BY <1>3, ReserveWrites
  <2> PICK amount : amount = -order'[b].price
    OBVIOUS
  <2>2. /\ \A p \in Purchases, other \in EntryTypes :
             p # b \/ other # "otp_purchase" => SameRows(p, other)
        /\ RowsFor(b, "otp_purchase") = {} => Once(b, "otp_purchase", amount)'
    <3>1. Books(b, "otp_purchase", amount)
      BY <2>1
    <3> QED
      BY <1>2, <3>1, BooksOnce
  <2>3. CASE o # b
    BY <1>1, <1>2, <2>1, <2>2, <2>3, SameRowsMatch
  <2>4. CASE o = b
    <3>1. Once(b, "otp_purchase", amount)'
      BY <1>1, <2>1, <2>2, <2>4 DEF Matched
    <3>2. Once(b, "otp_purchase", -order[b].price)'
      BY <3>1 DEF Once
    <3>3. RowsFor(b, "refund")' = {}
      BY <1>1, <1>2, <2>1, <2>2, <2>4 DEF Matched, SameRows
    <3> QED
      BY <1>1, <2>1, <2>4, <3>2, <3>3 DEF Matched
  <2> QED
    BY <2>3, <2>4
<1>4. ASSUME NEW p \in Purchases, \/ RefundReservation(p)
                                  \/ \E s \in Pollers : RefundCancelled(s) /\ poll[s].cur = p
      PROVE  Matched(o)'
  <2>1. /\ order[p].status \in {"processing", "manual_reconciliation", "waiting_for_otp"}
        /\ order'[p].status = "refunded" /\ order'[p].price = order[p].price
        /\ \A q \in Purchases \ {p} : order'[q] = order[q]
        /\ Books(p, "refund", order[p].price)
    BY <1>4, RefundWrites
  <2>2. /\ \A q \in Purchases, other \in EntryTypes :
             q # p \/ other # "refund" => SameRows(q, other)
        /\ RowsFor(p, "refund") = {} => Once(p, "refund", order[p].price)'
    BY <1>2, <2>1, BooksOnce
  <2>3. CASE o # p
    BY <1>1, <1>2, <2>1, <2>2, <2>3, SameRowsMatch
  <2>4. CASE o = p
    <3>1. Once(p, "refund", order[p].price)'
      BY <1>1, <2>1, <2>2, <2>4 DEF Matched, Once
    <3>2. Once(p, "otp_purchase", -order[p].price)'
      BY <1>1, <1>2, <2>1, <2>2, <2>4 DEF Matched, Once, SameRows
    <3> QED
      BY <1>1, <2>1, <2>4, <3>1, <3>2 DEF Matched
  <2> QED
    BY <2>3, <2>4
<1>5. CASE Administrate
  <2>1. SameRows(o, "otp_purchase") /\ SameRows(o, "refund") /\ order' = order
    BY <1>5, AdministrateBooksNothing, AdministrateWrites
  <2> QED
    BY <1>1, <2>1, SameRowsMatch
<1>6. CASE Moneyless
  <2>1. ledger' = ledger /\ Moves(o)
    BY <1>6, MoneylessWrites
  <2>2. SameRows(o, "otp_purchase") /\ SameRows(o, "refund")
    BY <2>1 DEF SameRows, RowsFor
  <2>3. /\ order'[o].price = order[o].price
        /\ order'[o].status = "none" <=> order[o].status = "none"
        /\ order'[o].status = "refunded" <=> order[o].status = "refunded"
    BY <2>1 DEF Moves
  <2> QED
    BY <1>1, <2>2, <2>3, SameRowsMatch
<1> QED
  BY <1>3, <1>4, <1>5, <1>6, StepKinds

\* Money follows orders exactly: one purchase row of its price for every order,
\* and one refund row of the same price if and only if it is refunded.
THEOREM OrdersMatchLedger == Spec => []LedgerMatchesOrders
<1>1. Init => LedgerMatchesOrders
  <2> SUFFICES ASSUME Init, NEW o \in Purchases
               PROVE  Matched(o)
    BY DEF LedgerMatchesOrders, Matched
  <2>1. order[o].status = "none" /\ ~order[o].refunded
    BY DEF Init, NewRow
  <2>2. Owner[o] \in Users
    BY PurchaseIsSession, OrdersAssumption, AccountsAssumption
  <2>3. ledger[Owner[o]] = <<>> /\ Len(ledger[Owner[o]]) = 0
    BY <2>2 DEF Init, AccountsInit
  <2>4. 1..Len(ledger[Owner[o]]) = {}
    BY <2>3
  <2>5. \A type : RowsFor(o, type) = {}
    BY <2>4 DEF RowsFor
  <2> QED
    BY <2>1, <2>5 DEF Matched
<1>2. MoneyIInv /\ LifeIInv /\ LifeIInv' /\ LedgerMatchesOrders /\ [Next]_vars =>
        LedgerMatchesOrders'
  BY MatchedKept, OrdersAssumption, AccountsAssumption DEF LedgerMatchesOrders, Matched
<1> QED
  BY <1>1, <1>2, LifeAlways, PTL DEF Spec

-----------------------------------------------------------------------------
\* What EventTrail says of one order.
Told(o) ==
  LET story == IF order[o].status = "none" THEN {<<>>}
               ELSE {<<"created">>, <<"created", "manual_reconciliation">>} IN
  \E told \in story :
    /\ order[o].events = IF order[o].refunded THEN Append(told, "refunded") ELSE told
    /\ order[o].status = "processing" => told = <<"created">>
    /\ order[o].status = "manual_reconciliation" => told # <<"created">>

\* An order set aside after its creation.
LEMMA SetAsideStory ==
  Append(<<"created">>, "manual_reconciliation") = <<"created", "manual_reconciliation">>
<1> DEFINE kinds == {"created", "manual_reconciliation"}
           long == Append(<<"created">>, "manual_reconciliation")
           story == <<"created", "manual_reconciliation">>
<1>1. <<"created">> \in Seq(kinds) /\ story \in Seq(kinds) /\ Len(story) = 2
  OBVIOUS
<1>2. /\ long \in Seq(kinds) /\ Len(long) = 2
      /\ long[1] = "created" /\ long[2] = "manual_reconciliation"
  BY <1>1
<1>3. \A i \in 1..Len(long) : long[i] = story[i]
  <2>1. \A i \in 1..2 : i = 1 \/ i = 2
    OBVIOUS
  <2> QED
    BY <1>2, <2>1
<1> HIDE DEF long, story
<1>4. long = story
  BY <1>1, <1>2, <1>3, SeqEqual
<1> QED
  BY <1>4 DEF long, story

\* Every step keeps the story of every order.
LEMMA ToldKept ==
  ASSUME OrdersAssumption, AccountsAssumption, MoneyIInv, LifeIInv, LifeIInv', [Next]_vars,
         NEW o \in Purchases, Told(o)
  PROVE  Told(o)'
<1>1. /\ order[o].refunded <=> order[o].status = "refunded"
      /\ order'[o].refunded <=> order'[o].status = "refunded"
  BY DEF LifeIInv, StatusAgrees
<1>2. CASE order'[o] = order[o]
  BY <1>2 DEF Told
<1>3. CASE /\ order'[o].status = "processing" /\ order'[o].events = <<"created">>
  BY <1>1, <1>3 DEF Told
<1>4. CASE /\ order[o].status \in {"processing", "manual_reconciliation", "waiting_for_otp"}
           /\ order'[o].status = "refunded"
           /\ order'[o].events = Append(order[o].events, "refunded")
  <2>1. order[o].events \in {<<"created">>, <<"created", "manual_reconciliation">>}
    BY <1>1, <1>4 DEF Told
  <2> QED
    BY <1>1, <1>4, <2>1 DEF Told
<1>5. CASE Moves(o)
  <2>1. CASE order[o].status = "processing" /\ order'[o].status = "manual_reconciliation"
    <3>1. order[o].events = <<"created">>
      BY <1>1, <2>1 DEF Told
    <3>2. order'[o].events = Append(order[o].events, "manual_reconciliation")
      BY <1>5, <2>1 DEF Moves
    <3>3. <<"created", "manual_reconciliation">> # <<"created">>
      OBVIOUS
    <3> QED
      BY <1>1, <2>1, <3>1, <3>2, <3>3, SetAsideStory DEF Told
  <2>2. CASE ~(order[o].status = "processing" /\ order'[o].status = "manual_reconciliation")
    <3>1. /\ order'[o].events = order[o].events
          /\ order'[o].refunded <=> order[o].refunded
          /\ order'[o].status = "none" <=> order[o].status = "none"
          /\ \/ order'[o].status = order[o].status
             \/ order'[o].status \notin {"processing", "manual_reconciliation"}
      BY <1>1, <1>5, <2>2 DEF Moves
    <3> QED
      BY <3>1 DEF Told
  <2> QED
    BY <2>1, <2>2
<1>6. CASE \E b \in Purchases : Reserve(b)
  BY <1>2, <1>3, <1>6, ReserveWrites
<1>7. CASE \E p \in Purchases : \/ RefundReservation(p)
                                \/ \E s \in Pollers : RefundCancelled(s) /\ poll[s].cur = p
  BY <1>2, <1>4, <1>7, RefundWrites
<1>8. CASE Administrate
  BY <1>2, <1>8, AdministrateWrites
<1>9. CASE Moneyless
  BY <1>5, <1>9, MoneylessWrites
<1> QED
  BY <1>6, <1>7, <1>8, <1>9, StepKinds

\* order_events tells the order's story: creation first, reconciliation at most
\* once and before any refund, the refund last and at most once.
THEOREM OrdersTellTheirStory == Spec => []EventTrail
<1>1. Init => EventTrail
  <2> SUFFICES ASSUME Init, NEW o \in Purchases
               PROVE  Told(o)
    BY DEF EventTrail, Told
  <2>1. order[o].status = "none" /\ ~order[o].refunded /\ order[o].events = <<>>
    BY DEF Init, NewRow
  <2> QED
    BY <2>1 DEF Told
<1>2. MoneyIInv /\ LifeIInv /\ LifeIInv' /\ EventTrail /\ [Next]_vars => EventTrail'
  BY ToldKept, OrdersAssumption, AccountsAssumption DEF EventTrail, Told
<1> QED
  BY <1>1, <1>2, LifeAlways, PTL DEF Spec

-----------------------------------------------------------------------------
(* The totals of a user.                                                   *)

Confirming == {"gates", "wallet", "reserve"}

\* Only a reservation writes a total.
LEMMA TotalsWritten ==
  ASSUME [Next]_vars, \A p \in Purchases : ~Reserve(p)
  PROVE  totals' = totals
<1>1. CASE \E b \in Purchases : TapBuy(b) \/ BuyNext(b) \/ AbortBuy(b)
  BY <1>1 DEF BuyNext, TapBuy, TurnedAway, PassGates, LockFunds, TooPoor, Request,
     RecordUnknown, RecordNumber, NumberMissing, OpenRefund, LockRefund, RefundReservation,
     AbortBuy
<1>2. CASE \E s \in Pollers : PollNext(s) \/ StatusUnavailable(s) \/ AbortPoll(s)
  BY <1>2 DEF PollNext, StatusUnavailable, AbortPoll, Snapshot, AskStatus, SkipSettled,
     DropAnswer, ApplyOther, ApplyOtp, Notify, ApplyCancel, PollLockWallet, RefundCancelled,
     SweepLock, SweepCommit
<1>3. CASE (\E o \in Purchases : World(o)) \/ Administrate \/ UNCHANGED vars
  BY <1>3 DEF World, CodeArrives, ActivationCancelled, Age, Administrate, vars, orderVars
<1> QED
  BY <1>1, <1>2, <1>3 DEF Next

\* A step that leaves a purchase between its first read and its reservation
\* either made that first read or leaves what was read alone.
LEMMA ConfirmingStep ==
  ASSUME OrdersAssumption, AccountsAssumption, MoneyIInv, [Next]_vars, NEW b \in Purchases
  PROVE  buy'[b].pc \in Confirming =>
           \/ buy'[b].row = totals[Owner[b]] /\ totals' = totals
           \/ buy[b].pc \in Confirming /\ buy'[b].row = buy[b].row /\ ~Reserve(b)
<1>1. buy \in [Purchases -> BuyState]
  BY RowTypes
<1>2. \A s \in BuyState : DOMAIN s = {"pc", "price", "row", "reply"}
  BY DEF BuyState
<1>3. CASE buy' = buy
  <2>1. ~Reserve(b) \/ buy[b].pc \notin Confirming
    <3>1. ASSUME Reserve(b)
          PROVE  FALSE
      <4>1. buy[b].pc = "reserve" /\ buy' = [buy EXCEPT ![b].pc = "request"]
        BY <3>1 DEF Reserve, GotoBuy
      <4>2. buy'[b].pc = "request"
        BY <1>1, <1>2, <4>1
      <4> QED
        BY <1>3, <4>1, <4>2
    <3> QED
      BY <3>1
  <2> QED
    BY <1>3, <2>1
<1>4. ASSUME NEW p \in Purchases, TapBuy(p) \/ BuyNext(p) \/ AbortBuy(p)
      PROVE  /\ \A o \in Purchases \ {p} : buy'[o] = buy[o]
             /\ buy'[p].pc \in Confirming =>
                  \/ buy'[p].row = totals[Owner[p]] /\ totals' = totals
                  \/ buy[p].pc \in Confirming /\ buy'[p].row = buy[p].row /\ ~Reserve(p)
  <2>1. CASE TapBuy(p)
    BY <1>1, <1>2, <2>1 DEF TapBuy
  <2>2. CASE PassGates(p)
    BY <1>1, <1>2, <2>2 DEF PassGates, Reserve, Confirming
  <2>3. CASE LockFunds(p)
    BY <1>1, <1>2, <2>3 DEF LockFunds, GotoBuy, Reserve, Confirming
  <2>4. CASE Reserve(p)
    BY <1>1, <1>2, <2>4 DEF Reserve, GotoBuy, Confirming
  <2>5. CASE Request(p)
    BY <1>1, <1>2, <2>5 DEF Request, Confirming
  <2>6. CASE OpenRefund(p) \/ LockRefund(p)
    BY <1>1, <1>2, <2>6 DEF OpenRefund, LockRefund, GotoBuy, Confirming
  <2>7. CASE \/ TurnedAway(p) \/ TooPoor(p) \/ RecordUnknown(p) \/ RecordNumber(p)
             \/ NumberMissing(p) \/ RefundReservation(p) \/ AbortBuy(p)
    <3>1. EndBuy(p)
      BY <2>7 DEF TurnedAway, TooPoor, RecordUnknown, RecordNumber, NumberMissing,
         RefundReservation, AbortBuy
    <3> QED
      BY <1>1, <3>1 DEF EndBuy, NewBuy, Confirming
  <2> QED
    BY <1>4, <2>1, <2>2, <2>3, <2>4, <2>5, <2>6, <2>7 DEF BuyNext
<1>5. CASE \E p \in Purchases : TapBuy(p) \/ BuyNext(p) \/ AbortBuy(p)
  <2>1. PICK p \in Purchases : TapBuy(p) \/ BuyNext(p) \/ AbortBuy(p)
    BY <1>5
  <2>2. CASE p = b
    BY <1>4, <2>1, <2>2
  <2>3. CASE p # b
    <3>1. buy'[b] = buy[b]
      BY <1>4, <2>1, <2>3
    <3>2. ~Reserve(b) \/ buy'[b].pc = "request"
      BY <1>1, <1>2 DEF Reserve, GotoBuy
    <3> QED
      BY <3>1, <3>2 DEF Confirming
  <2> QED
    BY <2>2, <2>3
<1>6. CASE \E s \in Pollers : PollNext(s) \/ StatusUnavailable(s) \/ AbortPoll(s)
  <2>1. buy' = buy
    BY <1>6 DEF PollNext, StatusUnavailable, AbortPoll, Snapshot, AskStatus, SkipSettled,
       DropAnswer, ApplyOther, ApplyOtp, Notify, ApplyCancel, PollLockWallet, RefundCancelled,
       SweepLock, SweepCommit
  <2> QED
    BY <1>3, <2>1
<1>7. CASE \/ \E o \in Purchases : World(o)
           \/ Administrate
           \/ UNCHANGED vars
  <2>1. buy' = buy
    BY <1>7 DEF World, CodeArrives, ActivationCancelled, Age, Administrate, vars, orderVars
  <2> QED
    BY <1>3, <2>1
<1> QED
  BY <1>5, <1>6, <1>7 DEF Next

\* Two purchases of one user are never both past their first read: the row that
\* each of them read is locked.
LEMMA ConfirmingAlone ==
  ASSUME MoneyIInv, NEW b \in Purchases, NEW p \in Purchases, Owner[b] = Owner[p],
         buy[b].pc \in Confirming, buy[p].pc \in Confirming
  PROVE  b = p
  BY DEF MoneyIInv, BuyersHoldUsers, Confirming

\* Every step keeps what a purchase has captured of its user current.
LEMMA RowStaysCurrent ==
  ASSUME OrdersAssumption, AccountsAssumption, MoneyIInv, RowIsCurrent, [Next]_vars
  PROVE  RowIsCurrent'
<1> SUFFICES ASSUME NEW b \in Purchases, buy'[b].pc \in Confirming
             PROVE  buy'[b].row = totals'[Owner[b]]
  BY DEF RowIsCurrent, Confirming
<1>1. totals \in [Users -> Totals] /\ Owner[b] \in Users
  BY PurchaseIsSession DEF MoneyIInv, TypeOK
<1>2. CASE buy'[b].row = totals[Owner[b]] /\ totals' = totals
  BY <1>2
<1>3. CASE buy[b].pc \in Confirming /\ buy'[b].row = buy[b].row /\ ~Reserve(b)
  <2>1. buy'[b].row = totals[Owner[b]]
    BY <1>3 DEF RowIsCurrent, Confirming
  <2>2. ASSUME NEW p \in Purchases, Reserve(p)
        PROVE  totals'[Owner[b]] = totals[Owner[b]]
    <3>1. p # b /\ buy[p].pc \in Confirming
      BY <1>3, <2>2 DEF Reserve, Confirming
    <3>2. Owner[p] # Owner[b]
      BY <1>3, <3>1, ConfirmingAlone
    <3> QED
      BY <1>1, <2>2, <3>2 DEF Reserve
  <2> QED
    BY <2>1, <2>2, TotalsWritten
<1> QED
  BY <1>2, <1>3, ConfirmingStep

\* A step that reserves nothing leaves the reserved orders and their prices as
\* they were.
LEMMA ReservedStays ==
  ASSUME OrdersAssumption, AccountsAssumption, MoneyIInv, LifeIInv, [Next]_vars,
         \A p \in Purchases : ~Reserve(p), NEW u \in Users
  PROVE  /\ Reserved(u)' = Reserved(u)
         /\ \A o \in Purchases : order'[o].price = order[o].price
<1>1. ASSUME NEW o \in Purchases
      PROVE  /\ order'[o].status = "none" <=> order[o].status = "none"
             /\ order'[o].price = order[o].price
  <2>1. CASE \E p \in Purchases : \/ RefundReservation(p)
                                  \/ \E s \in Pollers : RefundCancelled(s) /\ poll[s].cur = p
    BY <2>1, RefundWrites
  <2>2. CASE Administrate
    BY <2>2, AdministrateWrites
  <2>3. CASE Moneyless
    BY <2>3, MoneylessWrites DEF Moves
  <2> QED
    BY <2>1, <2>2, <2>3, StepKinds
<1> QED
  BY <1>1 DEF Reserved

\* The invariant behind TotalsExact: a step that reserves nothing leaves every
\* total and every reserved order alone; a reservation adds one order and its
\* price to totals that are still those it read.
LEMMA TotalsKept ==
  ASSUME OrdersAssumption, AccountsAssumption, MoneyIInv, LifeIInv, TotalsIInv, [Next]_vars
  PROVE  TotalsIInv'
<1>1. /\ order \in [Purchases -> OrderRow] /\ totals \in [Users -> Totals]
      /\ \A o \in Purchases : order[o].price \in Int
  BY DEF MoneyIInv, TypeOK, OrderRow
<1>2. RowIsCurrent'
  BY RowStaysCurrent DEF TotalsIInv
<1>3. /\ PriceOf = [o \in Purchases |-> order[o].price]
      /\ PriceOf' = [o \in Purchases |-> order'[o].price]
  BY DEF PriceOf
<1> DEFINE Exact(u, tot, mine, price) ==
             /\ tot = [orders |-> Cardinality(mine), spending |-> SumFunctionOnSet(price, mine)]
             /\ IsFiniteSet(mine)
<1>4. \A u \in Users : Exact(u, totals[u], Reserved(u), PriceOf)
  BY DEF TotalsIInv, TotalsExact
<1>5. SUFFICES ASSUME NEW u \in Users
               PROVE  Exact(u, totals'[u], Reserved(u)', PriceOf')
  BY <1>2 DEF TotalsIInv, TotalsExact
<1>6. CASE \A p \in Purchases : ~Reserve(p)
  <2>1. /\ Reserved(u)' = Reserved(u) /\ totals' = totals
        /\ \A o \in Purchases : order'[o].price = order[o].price
    <3>1. totals' = totals
      BY <1>6, TotalsWritten
    <3>2. /\ Reserved(u)' = Reserved(u)
          /\ \A o \in Purchases : order'[o].price = order[o].price
      BY <1>6, ReservedStays
    <3> QED
      BY <3>1, <3>2
  <2>2. PriceOf' = PriceOf
    BY <1>3, <2>1
  <2> QED
    BY <1>4, <2>1, <2>2
<1>7. ASSUME NEW b \in Purchases, Reserve(b)
      PROVE  Exact(u, totals'[u], Reserved(u)', PriceOf')
  <2> DEFINE mine == Reserved(u)
  <2>1. /\ order[b].status = "none" /\ order'[b].status = "processing"
        /\ \A o \in Purchases \ {b} : order'[o] = order[o]
        /\ order'[b].price = buy[b].price /\ buy[b].price \in Int
    <3>1. buy[b].price \in Int
      BY RowTypes DEF BuyState
    <3>2. order'[b].price = buy[b].price
      BY <1>1, <1>7 DEF Reserve, OrderRow
    <3> QED
      BY <1>7, <3>1, <3>2, ReserveWrites
  <2>2. /\ mine \subseteq Purchases /\ b \notin mine /\ IsFiniteSet(mine)
        /\ \A o \in mine : PriceOf'[o] = PriceOf[o] /\ PriceOf[o] \in Int
    BY <1>1, <1>3, <1>4, <2>1 DEF Reserved
  <2>3. SumFunctionOnSet(PriceOf', mine) = SumFunctionOnSet(PriceOf, mine)
    <3> DEFINE f == PriceOf'
               e == PriceOf
    <3>1. \A o \in mine : f[o] = e[o]
      BY <2>2
    <3> HIDE DEF f, e, mine
    <3> QED
      BY <2>2, <3>1, SumSame
  <2>4. CASE Owner[b] # u
    <3>1. Reserved(u)' = mine
      BY <2>1, <2>4 DEF Reserved
    <3>2. totals'[u] = totals[u]
      BY <1>1, <1>7, <2>4 DEF Reserve
    <3> QED
      BY <1>4, <2>3, <3>1, <3>2
  <2>5. CASE Owner[b] = u
    <3>1. Reserved(u)' = mine \union {b}
      BY <2>1, <2>5 DEF Reserved
    <3>2. /\ IsFiniteSet(mine \union {b})
          /\ Cardinality(mine \union {b}) = Cardinality(mine) + 1
      BY <2>2, FS_AddElement
    <3>3. SumFunctionOnSet(PriceOf', mine \union {b})
            = SumFunctionOnSet(PriceOf, mine) + buy[b].price
      <4> DEFINE f == PriceOf'
      <4>1. f[b] = buy[b].price /\ \A o \in mine \union {b} : f[o] \in Int
        BY <1>3, <2>1, <2>2
      <4>2. SumFunctionOnSet(f, mine \union {b}) = SumFunctionOnSet(f, mine) + f[b]
        <5> HIDE DEF f, mine
        <5> QED
          BY <2>2, <4>1, SumAdds
      <4> QED
        BY <2>3, <4>1, <4>2
    <3>4. totals'[u] = [orders |-> buy[b].row.orders + 1,
                        spending |-> buy[b].row.spending + buy[b].price]
      BY <1>1, <1>7, <2>5 DEF Reserve
    <3>5. buy[b].row = totals[u]
      BY <1>7, <2>5 DEF TotalsIInv, RowIsCurrent, Reserve
    <3>6. /\ totals[u].orders = Cardinality(mine)
          /\ totals[u].spending = SumFunctionOnSet(PriceOf, mine)
      <4>1. totals[u] = [orders |-> Cardinality(mine),
                         spending |-> SumFunctionOnSet(PriceOf, mine)]
        BY <1>4
      <4> HIDE DEF mine
      <4> QED
        BY <4>1
    <3>7. totals'[u] = [orders |-> Cardinality(mine) + 1,
                        spending |-> SumFunctionOnSet(PriceOf, mine) + buy[b].price]
      BY <3>4, <3>5, <3>6
    <3> HIDE DEF mine
    <3> QED
      BY <3>1, <3>2, <3>3, <3>7
  <2> QED
    BY <2>4, <2>5
<1> QED
  BY <1>6, <1>7

\* Nobody has reserved anything at the start.
LEMMA TotalsInitially ==
  ASSUME OrdersAssumption, AccountsAssumption, Init
  PROVE  TotalsIInv
<1>1. RowIsCurrent
  BY DEF Init, NewBuy, RowIsCurrent
<1>2. ASSUME NEW u \in Users
      PROVE  Reserved(u) = {} /\ totals[u] = NoTotals
  BY DEF Init, NewRow, Reserved
<1>3. TotalsExact
  BY <1>2, SumEmpty, FS_EmptySet DEF TotalsExact, NoTotals
<1> QED
  BY <1>1, <1>2, <1>3, FS_EmptySet DEF TotalsIInv

\* total_orders and total_spending count every reserved order and its price,
\* however many confirmations of one user race (create_order).
THEOREM OrdersCountExactly == Spec => []TotalsExact
<1>1. Init => TotalsIInv
  BY TotalsInitially, OrdersAssumption, AccountsAssumption
<1>2. MoneyIInv /\ LifeIInv /\ TotalsIInv /\ [Next]_vars => TotalsIInv'
  BY TotalsKept, OrdersAssumption, AccountsAssumption
<1>3. TotalsIInv => TotalsExact
  BY DEF TotalsIInv
<1> QED
  BY <1>1, <1>2, <1>3, LifeAlways, PTL DEF Spec

-----------------------------------------------------------------------------
(* Orders next to another component: what a step here leaves to its        *)
(* sessions, and what one of its steps leaves to the sessions here.        *)

\* No step takes or gives back a lock of a session that is not of this module.
LEMMA OrdersKeepLocks ==
  ASSUME OrdersAssumption, AccountsAssumption, MoneyIInv, Next,
         NEW S, Free \notin S, S \intersect (Purchases \union Pollers \union Adjusts) = {}
  PROVE  KeepsLocks(S)
<1>1. AccountsTypeOK
  BY DEF MoneyIInv, TypeOK
<1>2. ASSUME NEW b \in Purchases, TapBuy(b) \/ BuyNext(b) \/ AbortBuy(b)
      PROVE  KeepsLocks(S)
  <2>1. b \notin S /\ Owner[b] \in Users
    BY PurchaseIsSession
  <2>2. CASE TapBuy(b)
    BY <1>1, <2>1, <2>2, LockUserKeepsLocks DEF TapBuy
  <2>3. CASE LockFunds(b) \/ LockRefund(b)
    BY <1>1, <2>1, <2>3, LockWalletKeepsLocks DEF LockFunds, LockRefund
  <2>4. CASE \/ TurnedAway(b) \/ TooPoor(b) \/ Reserve(b) \/ RefundReservation(b)
             \/ AbortBuy(b)
    <3>1. Release(b) /\ UNCHANGED blocked
      BY <2>4 DEF TurnedAway, TooPoor, Reserve, RefundReservation, CommitRefund, AbortBuy,
         ReleaseAll
    <3> QED
      BY <1>1, <2>1, <3>1, ReleaseKeepsLocks
  <2>5. CASE \/ PassGates(b) \/ Request(b) \/ RecordUnknown(b) \/ RecordNumber(b)
             \/ NumberMissing(b) \/ OpenRefund(b)
    <3>1. UNCHANGED accountVars
      BY <2>5 DEF PassGates, Request, RecordUnknown, RecordNumber, NumberMissing, OpenRefund
    <3> QED
      BY <3>1, StutterKeepsLocks DEF accountVars
  <2> QED
    BY <1>2, <2>2, <2>3, <2>4, <2>5 DEF BuyNext
<1>3. ASSUME NEW s \in Pollers, PollNext(s) \/ StatusUnavailable(s) \/ AbortPoll(s)
      PROVE  KeepsLocks(S)
  <2>1. s \notin S
    OBVIOUS
  <2>2. CASE PollLockWallet(s)
    <3>1. Owner[poll[s].cur] \in Users
      BY <2>2, PurchaseIsSession DEF PollLockWallet, MoneyIInv, HandledIsOrder
    <3> QED
      BY <1>1, <2>1, <2>2, <3>1, LockWalletKeepsLocks DEF PollLockWallet
  <2>3. CASE RefundCancelled(s) \/ AbortPoll(s)
    <3>1. Release(s) /\ UNCHANGED blocked
      BY <2>3 DEF RefundCancelled, CommitRefund, AbortPoll, ReleaseAll
    <3> QED
      BY <1>1, <2>1, <3>1, ReleaseKeepsLocks
  <2>4. CASE \/ Snapshot(s) \/ AskStatus(s) \/ SkipSettled(s) \/ DropAnswer(s)
             \/ ApplyOther(s) \/ ApplyOtp(s) \/ Notify(s) \/ ApplyCancel(s)
             \/ SweepLock(s) \/ SweepCommit(s) \/ StatusUnavailable(s)
    <3>1. UNCHANGED accountVars
      BY <2>4 DEF Snapshot, AskStatus, SkipSettled, DropAnswer, ApplyOther, ApplyOtp, Notify,
         ApplyCancel, SweepLock, SweepCommit, StatusUnavailable
    <3> QED
      BY <3>1, StutterKeepsLocks DEF accountVars
  <2> QED
    BY <1>3, <2>2, <2>3, <2>4 DEF PollNext
<1>4. ASSUME NEW o \in Purchases, World(o)
      PROVE  KeepsLocks(S)
  BY <1>4, StutterKeepsLocks DEF World, CodeArrives, ActivationCancelled, Age, accountVars
<1>5. CASE Administrate
  BY <1>1, <1>5, AdministrationKeepsLocks DEF Administrate
<1> QED
  BY <1>2, <1>3, <1>4, <1>5 DEF Next

\* A step elsewhere that keeps the books and the locks of the sessions here.
LEMMA OthersKeepMoney ==
  ASSUME OrdersAssumption, MoneyIInv, AccountsIInv', UNCHANGED orderVars,
         KeepsLocks(Purchases \union Pollers)
  PROVE  MoneyIInv'
<1>1. UNCHANGED <<order, orderLock, totals, buy, poll, upstream, notified>>
  BY DEF orderVars
<1>2. TypeOK'
  BY <1>1, TypeParts DEF MoneyIInv, TypeOK
<1>3. \A u \in Users, s \in Purchases \union Pollers : walletLock'[u] = s <=> walletLock[u] = s
  BY DEF KeepsLocks
<1>4. BuyersHoldWallets' /\ PollersHoldWallets' /\ HandledIsOrder'
  BY <1>1, <1>3 DEF MoneyIInv, BuyersHoldWallets, PollersHoldWallets, HandledIsOrder
<1>5. BuyersHoldUsers'
  <2> SUFFICES ASSUME NEW b \in Purchases
               PROVE  /\ buy[b].pc \in {"gates", "wallet", "reserve"} => userLock'[Owner[b]] = b
                      /\ buy[b].pc \in {"wallet", "reserve"} => ~blocked'[Owner[b]]
    BY <1>1 DEF BuyersHoldUsers
  <2>1. /\ buy[b].pc \in {"gates", "wallet", "reserve"} => userLock[Owner[b]] = b
        /\ buy[b].pc \in {"wallet", "reserve"} => ~blocked[Owner[b]]
        /\ Owner[b] \in Users
    BY DEF MoneyIInv, BuyersHoldUsers, OrdersAssumption
  <2>2. /\ userLock'[Owner[b]] = b <=> userLock[Owner[b]] = b
        /\ userLock[Owner[b]] = b => blocked'[Owner[b]] = blocked[Owner[b]]
    BY <2>1 DEF KeepsLocks
  <2> QED
    BY <2>1, <2>2
<1> QED
  BY <1>2, <1>4, <1>5 DEF MoneyIInv

\* What a step does to money: a reservation takes the price of a new order and
\* counts it as spent, a refund gives the price of an order back.
Reserves(b) ==
  /\ Pays(Owner[b], "otp_purchase", -order'[b].price)
  /\ \A u \in Users : totals'[u].spending = IF u = Owner[b]
                                           THEN totals[u].spending + order'[b].price
                                           ELSE totals[u].spending
  /\ order[b].status = "none" /\ order'[b].status = "processing"
  /\ order'[b].price \in Nat
  /\ \A o \in Purchases \ {b} : order'[o] = order[o]

Refunds(o) ==
  /\ Pays(Owner[o], "refund", order[o].price)
  /\ totals' = totals
  /\ order[o].status # "refunded" /\ order'[o].status = "refunded"
  /\ order'[o].price = order[o].price
  /\ \A p \in Purchases \ {o} : order'[p] = order[p]

MovesNoMoney ==
  /\ UNCHANGED <<balance, ledger, totals>>
  /\ \A o \in Purchases :
       /\ order'[o].status = "refunded" <=> order[o].status = "refunded"
       /\ order'[o].price = order[o].price

\* Every step pays one user once, for an order or by hand, or nobody.
LEMMA OrdersPay ==
  ASSUME OrdersAssumption, AccountsAssumption, MoneyIInv, LifeIInv, RowIsCurrent, Next
  PROVE  \/ \E b \in Purchases : Reserves(b)
         \/ \E o \in Purchases : Refunds(o)
         \/ AccountsNext /\ UNCHANGED orderVars
         \/ MovesNoMoney
<1>1. /\ order \in [Purchases -> OrderRow] /\ totals \in [Users -> Totals]
      /\ AccountsTypeOK /\ buy \in [Purchases -> BuyState]
      /\ \A o \in Purchases : Owner[o] \in Users
  BY PurchaseIsSession DEF MoneyIInv, TypeOK
<1>2. ASSUME NEW b \in Purchases, Reserve(b)
      PROVE  Reserves(b)
  <2>1. /\ order[b].status = "none" /\ order'[b].status = "processing"
        /\ \A o \in Purchases \ {b} : order'[o] = order[o]
        /\ order'[b].price \in 0..balance[Owner[b]] /\ balance[Owner[b]] \in Nat
        /\ balance' = [balance EXCEPT ![Owner[b]] = balance[Owner[b]] - order'[b].price]
        /\ Books(b, "otp_purchase", -order'[b].price)
    BY <1>2, ReserveWrites
  <2>2. order'[b].price \in Nat
    BY <2>1
  <2>3. Pays(Owner[b], "otp_purchase", -order'[b].price)
    <3>1. balance[Owner[b]] - order'[b].price = balance[Owner[b]] + (-order'[b].price)
      BY <2>1, <2>2
    <3> QED
      BY <2>1, <3>1 DEF Pays, Books, Appends
  <2>4. \A u \in Users : totals'[u].spending = IF u = Owner[b]
                                             THEN totals[u].spending + order'[b].price
                                             ELSE totals[u].spending
    <3>1. /\ order'[b].price = buy[b].price
          /\ totals' = [totals EXCEPT ![Owner[b]] =
                          [orders |-> buy[b].row.orders + 1,
                           spending |-> buy[b].row.spending + buy[b].price]]
          /\ buy[b].row = totals[Owner[b]]
      BY <1>1, <1>2 DEF Reserve, OrderRow, RowIsCurrent
    <3> QED
      BY <1>1, <3>1
  <2> QED
    BY <2>1, <2>2, <2>3, <2>4 DEF Reserves
<1>3. ASSUME NEW o \in Purchases,
             \/ RefundReservation(o)
             \/ \E s \in Pollers : RefundCancelled(s) /\ poll[s].cur = o
      PROVE  Refunds(o)
  <2>1. /\ order[o].status \in {"processing", "manual_reconciliation", "waiting_for_otp"}
        /\ order'[o].status = "refunded" /\ order'[o].price = order[o].price
        /\ \A p \in Purchases \ {o} : order'[p] = order[p]
        /\ balance' = [balance EXCEPT ![Owner[o]] = balance[Owner[o]] + order[o].price]
        /\ Books(o, "refund", order[o].price)
    BY <1>3, RefundWrites
  <2>2. Pays(Owner[o], "refund", order[o].price)
    BY <2>1 DEF Pays, Books, Appends
  <2>3. totals' = totals
    BY <1>3 DEF RefundReservation, RefundCancelled
  <2> QED
    BY <2>1, <2>2, <2>3 DEF Refunds
<1>4. CASE Moneyless
  <2>1. UNCHANGED <<balance, ledger>> /\ \A o \in Purchases : Moves(o)
    BY <1>4, MoneylessWrites
  <2>2. totals' = totals
    BY <1>4 DEF Moneyless, TapBuy, AbortBuy, TurnedAway, PassGates, LockFunds, TooPoor, Request,
       RecordUnknown, RecordNumber, NumberMissing, OpenRefund, LockRefund, Snapshot, AskStatus,
       SkipSettled, DropAnswer, ApplyOther, ApplyOtp, Notify, ApplyCancel, PollLockWallet,
       SweepLock, SweepCommit, StatusUnavailable, AbortPoll, World, CodeArrives,
       ActivationCancelled, Age, vars, orderVars
  <2> QED
    BY <2>1, <2>2 DEF MovesNoMoney, Moves
<1> QED
  BY <1>2, <1>3, <1>4, StepKinds DEF Administrate
=============================================================================
