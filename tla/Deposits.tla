------------------------------ MODULE Deposits ------------------------------
(***************************************************************************)
(* Adding funds: a user files a payment request (create_deposit), sends    *)
(* photos of receipts (payment_receipt), the request runs out of time      *)
(* (expire_deposits) and an administrator approves or rejects it           *)
(* (approve_deposit, reject_deposit), which credits the wallet.            *)
(*                                                                         *)
(* create_deposit, the reviews and the expiry worker lock the rows they    *)
(* decide on.  payment_receipt locks nothing: each of its reads is a step  *)
(* of its own, and so is each of its commits.                              *)
(*                                                                         *)
(* An invocation of create_deposit files at most one deposit, so the       *)
(* invocations and the deposits they file are the same set, Requests.      *)
(***************************************************************************)
EXTENDS Accounts, FiniteSets

CONSTANTS
  Requests,         \* invocations of create_deposit, and the deposits filed
  Receipts,         \* photos sent: invocations of payment_receipt
  Reviews,          \* taps on an approve or reject button
  Expirers,         \* running instances of expire_deposits
  Depositor,        \* the user of each request and of each receipt
  File,             \* file_unique_id of each receipt's photo
  Reviewed,         \* the deposit whose button each review taps
  Amounts           \* usdt_amount of a request

ASSUME DepositsAssumption ==
  /\ Requests \union Receipts \union Reviews \union Expirers \subseteq Sessions
  /\ Requests \intersect (Receipts \union Reviews \union Expirers \union Adjusts) = {}
  /\ Receipts \intersect (Reviews \union Expirers \union Adjusts) = {}
  /\ Reviews \intersect (Expirers \union Adjusts) = {}
  /\ Expirers \intersect Adjusts = {}
  /\ Requests \subseteq Refs /\ NoRef \notin Refs
  /\ Depositor \in [Requests \union Receipts -> Users]
  /\ DOMAIN File = Receipts
  /\ Reviewed \in [Reviews -> Requests]
  /\ Amounts \subseteq Nat \ {0}

VARIABLES
  deposit,        \* rows of deposits
  filed,          \* deposits in the order of created_at
  depositLock,    \* who holds the deposit row FOR UPDATE
  totalDeposits,  \* users.total_deposits
  proofs,         \* rows of payment_proofs in the order of created_at
  request,        \* control state of each create_deposit
  receipt,        \* local state of each payment_receipt
  review,         \* local state of each approve or reject
  expire,         \* local state of each expire_deposits
  restsOn         \* history: the photo each approval was granted for

depositVars == <<deposit, filed, depositLock, totalDeposits, proofs,
                 request, receipt, review, expire, restsOn>>
vars == <<accountVars, depositVars>>

Statuses == {"none", "pending", "expired", "approved", "rejected"}
Reviewable == {"pending", "expired"}

\* undone is history: how many approvals a blind expiry has overwritten.
DepositRow == [status : Statuses, amount : Nat, timeUp : BOOLEAN, undone : Nat]

Files == {File[r] : r \in Receipts}

\* unseen is history: the lookup had found no proof with the same photo, and
\* one was stored before this one.
Proof == [deposit : Requests, file : Files, flagged : BOOLEAN, unseen : BOOLEAN]

ReceiptState ==
  [pc : {"idle", "expire", "lookup", "insert", "done"},
   deposit : Requests \union {NoRef},
   earlier : Nat]                 \* the proof with the same file, 0 for none

ReviewState == [pc : {"idle", "wallet", "credit", "done"}, file : Files \union {NoRef}]

ExpireState == [pc : {"sleep", "pass"}, ids : SUBSET Requests, marked : SUBSET Requests]

NewReceipt == [pc |-> "idle", deposit |-> NoRef, earlier |-> 0]
NewReview == [pc |-> "idle", file |-> NoRef]
Asleep == [pc |-> "sleep", ids |-> {}, marked |-> {}]

EndReceipt(r) == receipt' = [receipt EXCEPT ![r] = [NewReceipt EXCEPT !.pc = "done"]]

EndReview(v) == review' = [review EXCEPT ![v] = [NewReview EXCEPT !.pc = "done"]]

ReleaseAll(s) == Release(s) /\ depositLock' = Unlocked(depositLock, s)

SetStatus(d, status) == deposit' = [deposit EXCEPT ![d] = [@ EXCEPT !.status = status]]

-----------------------------------------------------------------------------
(* create_deposit.                                                         *)

\* A defect: the user row is read without FOR UPDATE.
OpenRequest_PlainSelect(q) ==
  /\ request[q] = "idle"
  /\ request' = [request EXCEPT ![q] = "check"]
  /\ UNCHANGED <<accountVars, deposit, filed, depositLock, totalDeposits, proofs,
                 receipt, review, expire, restsOn>>

OpenRequest(q) ==
  /\ request[q] = "idle"
  /\ userLock[Depositor[q]] = Free
  /\ userLock' = [userLock EXCEPT ![Depositor[q]] = q]
  /\ request' = [request EXCEPT ![q] = "check"]
  /\ UNCHANGED <<balance, ledger, blocked, walletLock, seen, adjust, deposit, filed,
                 depositLock, totalDeposits, proofs, receipt, review, expire, restsOn>>

PendingOf(u) == {d \in Requests : Depositor[d] = u /\ deposit[d].status = "pending"}

\* Not blocked, the gates and the method passed, and no pending request.
CheckRequest(q) ==
  /\ request[q] = "check"
  /\ ~blocked[Depositor[q]]
  /\ PendingOf(Depositor[q]) = {}
  /\ request' = [request EXCEPT ![q] = "insert"]
  /\ UNCHANGED <<accountVars, deposit, filed, depositLock, totalDeposits, proofs,
                 receipt, review, expire, restsOn>>

\* A defect: an early return leaves the transaction open.
DropRequest_LeftOpen(q) ==
  /\ request[q] \in {"check", "insert"}
  /\ request' = [request EXCEPT ![q] = "done"]
  /\ UNCHANGED <<accountVars, deposit, filed, depositLock, totalDeposits, proofs,
                 receipt, review, expire, restsOn>>

\* Blocked, turned away by a gate, a pending request, or a crash.
DropRequest(q) ==
  /\ request[q] \in {"check", "insert"}
  /\ Release(q)
  /\ request' = [request EXCEPT ![q] = "done"]
  /\ UNCHANGED <<balance, ledger, blocked, adjust, deposit, filed, depositLock,
                 totalDeposits, proofs, receipt, review, expire, restsOn>>

\* A defect: the sign of the amount is not checked.
FileRequest_AnySign(q) ==
  /\ request[q] = "insert"
  /\ \E amount \in Amounts, sign \in {1, -1} :
       deposit' = [deposit EXCEPT ![q] =
         [status |-> "pending", amount |-> sign * amount, timeUp |-> FALSE,
          undone |-> 0]]
  /\ filed' = Append(filed, q)
  /\ Release(q)
  /\ request' = [request EXCEPT ![q] = "done"]
  /\ UNCHANGED <<balance, ledger, blocked, adjust, depositLock, totalDeposits, proofs,
                 receipt, review, expire, restsOn>>

FileRequest(q) ==
  /\ request[q] = "insert"
  /\ \E amount \in Amounts :
       deposit' = [deposit EXCEPT ![q] =
         [status |-> "pending", amount |-> amount, timeUp |-> FALSE, undone |-> 0]]
  /\ filed' = Append(filed, q)
  /\ Release(q)
  /\ request' = [request EXCEPT ![q] = "done"]
  /\ UNCHANGED <<balance, ledger, blocked, adjust, depositLock, totalDeposits, proofs,
                 receipt, review, expire, restsOn>>

\* The twenty minutes of a pending request are over.
TimeUp(d) ==
  /\ deposit[d].status = "pending" /\ ~deposit[d].timeUp
  /\ deposit' = [deposit EXCEPT ![d] = [@ EXCEPT !.timeUp = TRUE]]
  /\ UNCHANGED <<accountVars, filed, depositLock, totalDeposits, proofs, request,
                 receipt, review, expire, restsOn>>

-----------------------------------------------------------------------------
(* payment_receipt.                                                        *)

\* The newest deposit of a user that can still be reviewed.
Newest(u) ==
  LET mine == {i \in 1..Len(filed) :
                 Depositor[filed[i]] = u /\ deposit[filed[i]].status \in Reviewable}
  IN IF mine = {} THEN NoRef
     ELSE filed[CHOOSE i \in mine : \A j \in mine : j <= i]

\* The deposit is read without a lock; what is captured is that it is pending
\* and out of time ("expire") or not ("lookup").
SendReceipt(r) ==
  /\ receipt[r].pc = "idle"
  /\ LET d == Newest(Depositor[r]) IN
     IF blocked[Depositor[r]] \/ d = NoRef THEN EndReceipt(r)
     ELSE receipt' = [receipt EXCEPT ![r] =
            [@ EXCEPT !.deposit = d,
                      !.pc = IF deposit[d].status = "pending" /\ deposit[d].timeUp
                             THEN "expire" ELSE "lookup"]]
  /\ UNCHANGED <<accountVars, deposit, filed, depositLock, totalDeposits, proofs,
                 request, review, expire, restsOn>>

\* d.status='expired'; commit: an UPDATE by primary key, which waits for the
\* row and then overwrites whatever status a review has given it meanwhile.
ExpireStale(r) ==
  /\ receipt[r].pc = "expire"
  /\ depositLock[receipt[r].deposit] = Free
  /\ LET d == receipt[r].deposit
         lost == IF deposit[d].status = "approved" THEN 1 ELSE 0
     IN deposit' = [deposit EXCEPT ![d] =
          [@ EXCEPT !.status = "expired", !.undone = deposit[d].undone + lost]]
  /\ receipt' = [receipt EXCEPT ![r] = [@ EXCEPT !.pc = "lookup"]]
  /\ UNCHANGED <<accountVars, filed, depositLock, totalDeposits, proofs,
                 request, review, expire, restsOn>>

\* The earliest proof with the same photo.
LookUpPhoto(r) ==
  /\ receipt[r].pc = "lookup"
  /\ LET same == {i \in 1..Len(proofs) : proofs[i].file = File[r]} IN
     receipt' = [receipt EXCEPT ![r] =
       [@ EXCEPT !.pc = "insert",
                 !.earlier = IF same = {} THEN 0
                             ELSE CHOOSE i \in same : \A j \in same : i <= j]]
  /\ UNCHANGED <<accountVars, deposit, filed, depositLock, totalDeposits, proofs,
                 request, review, expire, restsOn>>

\* The row of the new proof.
NewProof(r) ==
  [deposit |-> receipt[r].deposit, file |-> File[r], flagged |-> receipt[r].earlier # 0,
   unseen |-> /\ receipt[r].earlier = 0
              /\ \E i \in 1..Len(proofs) : proofs[i].file = File[r]]

\* A defect: only the new proof is flagged, and the earlier one is forgotten.
InsertProof_NewOnly(r) ==
  /\ receipt[r].pc = "insert"
  /\ depositLock[receipt[r].deposit] = Free
  /\ userLock[Depositor[r]] = Free
  /\ proofs' = Append(proofs, NewProof(r))
  /\ EndReceipt(r)
  /\ UNCHANGED <<accountVars, deposit, filed, depositLock, totalDeposits,
                 request, review, expire, restsOn>>

\* Both proofs are flagged.  The foreign keys of the new row wait for the
\* deposit and the user while they are held FOR UPDATE.
InsertProof(r) ==
  /\ receipt[r].pc = "insert"
  /\ depositLock[receipt[r].deposit] = Free
  /\ userLock[Depositor[r]] = Free
  /\ LET i == receipt[r].earlier
         flaggedSoFar == IF i = 0 THEN proofs
                         ELSE [proofs EXCEPT ![i] = [@ EXCEPT !.flagged = TRUE]]
     IN proofs' = Append(flaggedSoFar, NewProof(r))
  /\ EndReceipt(r)
  /\ UNCHANGED <<accountVars, deposit, filed, depositLock, totalDeposits,
                 request, review, expire, restsOn>>

\* A crash: an expiry that was committed stays.
AbortReceipt(r) ==
  /\ receipt[r].pc \in {"expire", "lookup", "insert"}
  /\ EndReceipt(r)
  /\ UNCHANGED <<accountVars, deposit, filed, depositLock, totalDeposits, proofs,
                 request, review, expire, restsOn>>

-----------------------------------------------------------------------------
(* The review of a deposit: approve and reject in app/admin/router.py.     *)

ProofsOf(d) == {i \in 1..Len(proofs) : proofs[i].deposit = d}

\* The file of the newest proof of a deposit that has one.
NewestFile(d) == proofs[CHOOSE i \in ProofsOf(d) : \A j \in ProofsOf(d) : j <= i].file

\* A flagged proof of another deposit carries the same photo.
Duplicate(d) ==
  \E i \in 1..Len(proofs) :
    proofs[i].flagged /\ proofs[i].deposit # d /\ proofs[i].file = NewestFile(d)

Approvable(d) ==
  /\ deposit[d].status \in Reviewable
  /\ ProofsOf(d) # {}
  /\ ~Duplicate(d)

\* A defect: the deposit is read without FOR UPDATE.
OpenApproval_PlainSelect(v) ==
  /\ review[v].pc = "idle"
  /\ Approvable(Reviewed[v])
  /\ review' = [review EXCEPT ![v] = [pc |-> "wallet", file |-> NewestFile(Reviewed[v])]]
  /\ UNCHANGED <<accountVars, deposit, filed, depositLock, totalDeposits, proofs,
                 request, receipt, expire, restsOn>>

\* approve_deposit up to its wallet lock: the row is locked, then checked.
OpenApproval(v) ==
  /\ review[v].pc = "idle"
  /\ depositLock[Reviewed[v]] = Free
  /\ Approvable(Reviewed[v])
  /\ depositLock' = [depositLock EXCEPT ![Reviewed[v]] = v]
  /\ review' = [review EXCEPT ![v] = [pc |-> "wallet", file |-> NewestFile(Reviewed[v])]]
  /\ UNCHANGED <<accountVars, deposit, filed, totalDeposits, proofs,
                 request, receipt, expire, restsOn>>

\* DEPOSIT_NOT_FOUND, DEPOSIT_<STATUS>, RECEIPT_REQUIRED or DUPLICATE_RECEIPT.
RefuseApproval(v) ==
  /\ review[v].pc = "idle"
  /\ depositLock[Reviewed[v]] = Free
  /\ ~Approvable(Reviewed[v])
  /\ EndReview(v)
  /\ UNCHANGED <<accountVars, deposit, filed, depositLock, totalDeposits, proofs,
                 request, receipt, expire, restsOn>>

LockCredit(v) ==
  /\ review[v].pc = "wallet"
  /\ LockWallet(v, Depositor[Reviewed[v]])
  /\ review' = [review EXCEPT ![v].pc = "credit"]
  /\ UNCHANGED <<balance, ledger, blocked, userLock, adjust, deposit, filed, depositLock,
                 totalDeposits, proofs, request, receipt, expire, restsOn>>

\* A defect: the ledger row is committed before the status, and the bot may stop
\* in between.
Approve_TwoCommits(v) ==
  LET d == Reviewed[v] IN
  /\ review[v].pc = "credit"
  /\ userLock[Depositor[d]] = Free
  /\ ChangeBalance(v, Depositor[d], "deposit", deposit[d].amount, d)
  /\ totalDeposits' = [totalDeposits EXCEPT ![Depositor[d]] = @ + deposit[d].amount]
  /\ \/ SetStatus(d, "approved") /\ restsOn' = [restsOn EXCEPT ![d] = review[v].file]
     \/ UNCHANGED <<deposit, restsOn>>
  /\ ReleaseAll(v)
  /\ EndReview(v)
  /\ UNCHANGED <<blocked, adjust, filed, proofs, request, receipt, expire>>

\* The ledger row, then the user row FOR UPDATE, then the status, all of them
\* published by one commit.
Approve(v) ==
  LET d == Reviewed[v] IN
  /\ review[v].pc = "credit"
  /\ userLock[Depositor[d]] = Free
  /\ ChangeBalance(v, Depositor[d], "deposit", deposit[d].amount, d)
  /\ totalDeposits' = [totalDeposits EXCEPT ![Depositor[d]] = @ + deposit[d].amount]
  /\ SetStatus(d, "approved")
  /\ restsOn' = [restsOn EXCEPT ![d] = review[v].file]
  /\ ReleaseAll(v)
  /\ EndReview(v)
  /\ UNCHANGED <<blocked, adjust, filed, proofs, request, receipt, expire>>

\* reject_deposit waits for one row only, and commits.
Reject(v) ==
  /\ review[v].pc = "idle"
  /\ depositLock[Reviewed[v]] = Free
  /\ deposit[Reviewed[v]].status \in Reviewable
  /\ SetStatus(Reviewed[v], "rejected")
  /\ EndReview(v)
  /\ UNCHANGED <<accountVars, filed, depositLock, totalDeposits, proofs,
                 request, receipt, expire, restsOn>>

\* A crash, or a deadlock with a confirm_buy or a create_deposit.
AbortReview(v) ==
  /\ review[v].pc \in {"wallet", "credit"}
  /\ ReleaseAll(v)
  /\ EndReview(v)
  /\ UNCHANGED <<balance, ledger, blocked, adjust, deposit, filed, totalDeposits,
                 proofs, request, receipt, expire, restsOn>>

-----------------------------------------------------------------------------
(* expire_deposits: a snapshot, then locks and rechecks, then one commit.  *)

OutOfTime(d) == deposit[d].status = "pending" /\ deposit[d].timeUp

SnapshotExpired(x) ==
  /\ expire[x].pc = "sleep"
  /\ expire' = [expire EXCEPT ![x] =
       [pc |-> "pass", ids |-> {d \in Requests : OutOfTime(d)}, marked |-> {}]]
  /\ UNCHANGED <<accountVars, deposit, filed, depositLock, totalDeposits, proofs,
                 request, receipt, review, restsOn>>

\* A defect: the worker trusts its snapshot.
LockExpired_Unchecked(x) ==
  /\ expire[x].pc = "pass"
  /\ \E d \in expire[x].ids :
       /\ depositLock[d] = Free
       /\ depositLock' = [depositLock EXCEPT ![d] = x]
       /\ expire' = [expire EXCEPT ![x] =
            [@ EXCEPT !.ids = expire[x].ids \ {d},
                      !.marked = expire[x].marked \union {d}]]
  /\ UNCHANGED <<accountVars, deposit, filed, totalDeposits, proofs,
                 request, receipt, review, restsOn>>

LockExpired(x) ==
  /\ expire[x].pc = "pass"
  /\ \E d \in expire[x].ids :
       /\ depositLock[d] = Free
       /\ depositLock' = [depositLock EXCEPT ![d] = x]
       /\ expire' = [expire EXCEPT ![x] =
            [@ EXCEPT !.ids = expire[x].ids \ {d},
                      !.marked = IF OutOfTime(d) THEN expire[x].marked \union {d}
                                 ELSE expire[x].marked]]
  /\ UNCHANGED <<accountVars, deposit, filed, totalDeposits, proofs,
                 request, receipt, review, restsOn>>

\* A defect: the commit at the end of the pass is missing.
CommitExpired_Forgotten(x) ==
  /\ expire[x].pc = "pass" /\ expire[x].ids = {}
  /\ depositLock' = Unlocked(depositLock, x)
  /\ expire' = [expire EXCEPT ![x] = Asleep]
  /\ UNCHANGED <<accountVars, deposit, filed, totalDeposits, proofs,
                 request, receipt, review, restsOn>>

CommitExpired(x) ==
  /\ expire[x].pc = "pass" /\ expire[x].ids = {}
  /\ deposit' = [d \in Requests |->
       IF d \in expire[x].marked THEN [deposit[d] EXCEPT !.status = "expired"]
       ELSE deposit[d]]
  /\ depositLock' = Unlocked(depositLock, x)
  /\ expire' = [expire EXCEPT ![x] = Asleep]
  /\ UNCHANGED <<accountVars, filed, totalDeposits, proofs, request, receipt, review, restsOn>>

AbortExpire(x) ==
  /\ expire[x].pc = "pass"
  /\ depositLock' = Unlocked(depositLock, x)
  /\ expire' = [expire EXCEPT ![x] = Asleep]
  /\ UNCHANGED <<accountVars, deposit, filed, totalDeposits, proofs,
                 request, receipt, review, restsOn>>

-----------------------------------------------------------------------------
Init ==
  /\ AccountsInit
  /\ deposit = [d \in Requests |->
                  [status |-> "none", amount |-> 0, timeUp |-> FALSE, undone |-> 0]]
  /\ filed = <<>>
  /\ depositLock = [d \in Requests |-> Free]
  /\ totalDeposits = [u \in Users |-> 0]
  /\ proofs = <<>>
  /\ request = [q \in Requests |-> "idle"]
  /\ receipt = [r \in Receipts |-> NewReceipt]
  /\ review = [v \in Reviews |-> NewReview]
  /\ expire = [x \in Expirers |-> Asleep]
  /\ restsOn = [d \in Requests |-> NoRef]

Handling(r) == receipt[r].pc \in {"expire", "lookup", "insert"}

RequestNext(q) == OpenRequest(q) \/ CheckRequest(q) \/ FileRequest(q) \/ DropRequest(q)

ReceiptNext(r) ==
  \/ SendReceipt(r) \/ ExpireStale(r) \/ LookUpPhoto(r) \/ InsertProof(r)
  \/ AbortReceipt(r)

ReviewNext(v) ==
  \/ OpenApproval(v) \/ RefuseApproval(v) \/ LockCredit(v) \/ Approve(v)
  \/ Reject(v) \/ AbortReview(v)

ExpireNext(x) ==
  SnapshotExpired(x) \/ LockExpired(x) \/ CommitExpired(x) \/ AbortExpire(x)

Administrate == AccountsNext /\ UNCHANGED depositVars

Next ==
  \/ \E q \in Requests : RequestNext(q)
  \/ \E d \in Requests : TimeUp(d)
  \/ \E r \in Receipts : ReceiptNext(r)
  \/ \E v \in Reviews : ReviewNext(v)
  \/ \E x \in Expirers : ExpireNext(x)
  \/ Administrate

Spec == Init /\ [][Next]_vars

-----------------------------------------------------------------------------
(* Properties.                                                             *)

\* Type correctness of the deposit rows and of every handler's local state.
TypeOK ==
  /\ AccountsTypeOK
  /\ deposit \in [Requests -> DepositRow]
  /\ filed \in Seq(Requests)
  /\ depositLock \in [Requests -> Sessions \union {Free}]
  /\ totalDeposits \in [Users -> Nat]
  /\ proofs \in Seq(Proof)
  /\ request \in [Requests -> {"idle", "check", "insert", "done"}]
  /\ receipt \in [Receipts -> ReceiptState]
  /\ review \in [Reviews -> ReviewState]
  /\ expire \in [Expirers -> ExpireState]
  /\ restsOn \in [Requests -> Files \union {NoRef}]

\* A user never has two pending payment requests, although the check and the
\* insert of create_deposit are different steps ("You already have a pending
\* payment request", app/bot/handlers/payments.py).
OnePending == \A u \in Users : Cardinality(PendingOf(u)) <= 1

\* The ledger rows that credit a deposit.
CreditsOf(d) ==
  {i \in 1..Len(ledger[Depositor[d]]) :
     ledger[Depositor[d]][i].type = "deposit" /\ ledger[Depositor[d]][i].ref = d}

\* An approval and its ledger row happen in the same step, with the amount of
\* the request, and no other step credits a deposit (README, "Every approved
\* deposit creates a wallet ledger entry atomically").
ApprovalCredits ==
  [][\A d \in Requests :
       LET fresh == CreditsOf(d)' \ CreditsOf(d) IN
       /\ (fresh # {}) <=> (deposit[d].status # "approved" /\ deposit'[d].status = "approved")
       /\ \A i \in fresh : ledger'[Depositor[d]][i].amount = deposit[d].amount]_vars

\* A decision stands: an approved or rejected deposit changes only by the
\* blind expiry of a receipt that read the deposit before the decision.
OnlyStaleReceiptReopens ==
  [][\A d \in Requests :
       deposit[d].status \in {"approved", "rejected"} /\ deposit'[d] # deposit[d] =>
         /\ deposit'[d].status = "expired"
         /\ \E r \in Receipts : receipt[r].pc = "expire" /\ receipt[r].deposit = d]_vars

\* A deposit is credited exactly when it is approved, and never twice.
CreditedOnce ==
  \A d \in Requests :
    Cardinality(CreditsOf(d)) = IF deposit[d].status = "approved" THEN 1 ELSE 0

\* Two approved deposits never rest on the same photo (README, "Receipt
\* duplicate detection flags both matching receipts and approval refuses a
\* confirmed duplicate").
NoSharedReceipt ==
  \A d, e \in Requests : d # e /\ restsOn[d] # NoRef => restsOn[d] # restsOn[e]

\* The approvals of a deposit, with those that a blind expiry has overwritten.
Approvals(d) == deposit[d].undone + (IF deposit[d].status = "approved" THEN 1 ELSE 0)

\* The wallet was credited for a deposit once for every approval, the one that
\* stands and those that a blind expiry has overwritten: racing reviewers, the
\* expiry worker and receipts with a stale reading credit it in no other way
\* (approve_deposit, deposits.py:18-37; payments.py:66).
CreditsAreApprovals ==
  \A d \in Requests : Cardinality(CreditsOf(d)) = Approvals(d)

\* A stored proof escaped the lookup of duplicates.
Unseen(file) == \E i \in 1..Len(proofs) : proofs[i].file = file /\ proofs[i].unseen

\* Two approved deposits rest on the same photo only if the receipts raced: one
\* was stored while the handler of the other was between its lookup and its
\* insert (payments.py:69-73; deposits.py:26-32).
SharedOnlyIfUnseen ==
  \A d, e \in Requests :
    d # e /\ restsOn[d] # NoRef /\ restsOn[d] = restsOn[e] => Unseen(restsOn[d])

-----------------------------------------------------------------------------
(* The inductive invariant behind these and behind LedgerChain.            *)

\* Between its check and its insert a create_deposit holds the user's row, so
\* that nobody else files for this user.
FilersAreAlone ==
  \A q \in Requests :
    /\ request[q] \in {"check", "insert"} => userLock[Depositor[q]] = q
    /\ request[q] # "done" => deposit[q].status = "none"
    /\ request[q] = "insert" => PendingOf(Depositor[q]) = {}

PendingAreOne ==
  \A d, e \in Requests :
    /\ Depositor[d] = Depositor[e]
    /\ deposit[d].status = "pending" /\ deposit[e].status = "pending"
    => d = e

\* An approval under way holds its deposit, which nobody decides meanwhile.
ReviewersHoldDeposits ==
  \A v \in Reviews : review[v].pc \in {"wallet", "credit"} =>
    depositLock[Reviewed[v]] = v /\ deposit[Reviewed[v]].status \in Reviewable

\* No session of this module holds a wallet but an approval that will credit.
ReviewersHoldWallets ==
  \A v \in Reviews, u \in Users :
    walletLock[u] = v <=> review[v].pc = "credit" /\ u = Depositor[Reviewed[v]]

\* What a pass has marked it holds, so that it is still out of time.
ExpirersHoldDeposits ==
  \A x \in Expirers : \A d \in expire[x].marked : depositLock[d] = x /\ OutOfTime(d)

\* A receipt past its first read has a deposit that was filed, and its earlier
\* proof exists.
ReceiptsAreFiled ==
  \A r \in Receipts :
    /\ Handling(r) => /\ receipt[r].deposit \in Requests
                      /\ deposit[receipt[r].deposit].status # "none"
    /\ receipt[r].earlier \in 0..Len(proofs)

DepositsIInv ==
  /\ TypeOK /\ AccountsIInv
  /\ FilersAreAlone /\ PendingAreOne
  /\ ReviewersHoldDeposits /\ ReviewersHoldWallets
  /\ ExpirersHoldDeposits /\ ReceiptsAreFiled
-----------------------------------------------------------------------------
(* What is behind CreditsAreApprovals and behind SharedOnlyIfUnseen, on top *)
(* of DepositsIInv.                                                        *)

UnfiledAreNew == \A d \in Requests : deposit[d].status = "none" => deposit[d].undone = 0

CreditsIInv == UnfiledAreNew /\ CreditsAreApprovals

\* The proof that a lookup has found carries the same photo.
EarlierIsSame ==
  \A r \in Receipts :
    receipt[r].pc = "insert" /\ receipt[r].earlier # 0 =>
      proofs[receipt[r].earlier].file = File[r]

SamePhotosAreFlagged ==
  \A i, j \in 1..Len(proofs) :
    i # j /\ proofs[i].file = proofs[j].file => proofs[i].flagged \/ Unseen(proofs[i].file)

\* An approval of deposit d, granted or under way, rests on this photo.
Claims(d, file) ==
  \/ restsOn[d] = file /\ file # NoRef
  \/ \E v \in Reviews :
       review[v].pc \in {"wallet", "credit"} /\ Reviewed[v] = d /\ review[v].file = file

ClaimsAreProved ==
  \A d \in Requests, file \in Files :
    Claims(d, file) => \E i \in ProofsOf(d) : proofs[i].file = file

ClaimsAreApart ==
  \A d, e \in Requests, file \in Files :
    Claims(d, file) /\ Claims(e, file) => d = e \/ Unseen(file)

ApartIInv == EarlierIsSame /\ SamePhotosAreFlagged /\ ClaimsAreProved /\ ClaimsAreApart
=============================================================================
