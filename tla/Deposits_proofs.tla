-------------------------- MODULE Deposits_proofs --------------------------
(***************************************************************************)
(* Deposits for any number of users, requests, receipts, reviews and       *)
(* expiry workers: a user has one pending request, a credit and its        *)
(* approval are one step, decisions stand but for a stale receipt, credits *)
(* are approvals, a photo is shared only by receipts that raced, and the   *)
(* ledger explains every wallet.                                           *)
(*                                                                         *)
(* The invariant says what may be assumed of a row that was read before:   *)
(* who holds it and what its status still is.  Each step of one handler    *)
(* leaves the parts about the others alone (FilersStay to ReceiptsStay).   *)
(***************************************************************************)
EXTENDS Deposits, Accounts_proofs, FiniteSetTheorems, WellFoundedInduction

-----------------------------------------------------------------------------
(* What the handlers choose is there.                                      *)

\* The newest of some rows, and the earliest.
LEMMA EndsOfRange ==
  ASSUME NEW n \in Nat, NEW T \in SUBSET (1..n), T # {}
  PROVE  /\ \E i \in T : \A j \in T : j <= i
         /\ \E i \in T : \A j \in T : i <= j
<1> DEFINE less == {ss \in Nat \X Nat : ss[1] < ss[2]}
           gaps == {n - i : i \in T}
<1>1. IsWellFoundedOn(less, Nat)
  BY NatLessThanWellFounded DEF OpToRel
<1>2. gaps \subseteq Nat /\ gaps # {}
  <2>1. \A i \in T : i \in Nat /\ i <= n
    OBVIOUS
  <2>2. \A i \in T : n - i \in Nat
    BY <2>1
  <2> QED
    BY <2>2
<1>3. \A S \in SUBSET Nat : S # {} => \E x \in S : \A y \in S : ~(<<y, x>> \in less)
  <2> HIDE DEF less
  <2> QED
    BY <1>1, WFMin
<1>4. \A x, y \in Nat : ~(<<y, x>> \in less) => x <= y
  OBVIOUS
<1>5. PICK x \in gaps : \A y \in gaps : x <= y
  <2> HIDE DEF less, gaps
  <2> QED
    BY <1>2, <1>3, <1>4
<1>6. PICK i \in T : x = n - i
  BY <1>5
<1>7. \A j \in T : j <= i
  <2> SUFFICES ASSUME NEW j \in T
               PROVE  j <= i
    OBVIOUS
  <2>1. n - j \in gaps /\ i \in Nat /\ j \in Nat
    OBVIOUS
  <2> QED
    BY <1>5, <1>6, <2>1
<1>8. T \subseteq Nat
  OBVIOUS
<1>9. \E k \in T : \A j \in T : k <= j
  <2> HIDE DEF less
  <2> QED
    BY <1>3, <1>4, <1>8
<1> QED
  BY <1>7, <1>9

\* The newest reviewable deposit of a user is a deposit, or there is none.
LEMMA NewestIsFiled ==
  ASSUME filed \in Seq(Requests), NEW u
  PROVE  Newest(u) # NoRef =>
           Newest(u) \in Requests /\ deposit[Newest(u)].status \in Reviewable
<1> DEFINE mine == {i \in 1..Len(filed) :
                      Depositor[filed[i]] = u /\ deposit[filed[i]].status \in Reviewable}
<1>1. CASE mine = {}
  BY <1>1 DEF Newest
<1>2. CASE mine # {}
  <2>1. \E i \in mine : \A j \in mine : j <= i
    <3>1. Len(filed) \in Nat /\ mine \in SUBSET (1..Len(filed))
      OBVIOUS
    <3> HIDE DEF mine
    <3> QED
      BY <1>2, <3>1, EndsOfRange
  <2> DEFINE newest == CHOOSE i \in mine : \A j \in mine : j <= i
  <2>2. newest \in mine
    <3> HIDE DEF mine
    <3> QED
      BY <2>1
  <2>3. Newest(u) = filed[newest]
    BY <1>2 DEF Newest
  <2>4. newest \in 1..Len(filed) /\ deposit[filed[newest]].status \in Reviewable
    <3> HIDE DEF newest
    <3> QED
      BY <2>2
  <2> HIDE DEF newest
  <2> QED
    BY <2>3, <2>4
<1> QED
  BY <1>1, <1>2

\* The photo an approval rests on was sent.
LEMMA NewestFileIsSent ==
  ASSUME proofs \in Seq(Proof), NEW d, ProofsOf(d) # {}
  PROVE  /\ NewestFile(d) \in Files
         /\ \E i \in ProofsOf(d) : proofs[i].file = NewestFile(d)
<1>1. Len(proofs) \in Nat /\ ProofsOf(d) \in SUBSET (1..Len(proofs))
  BY DEF ProofsOf
<1>2. \E i \in ProofsOf(d) : \A j \in ProofsOf(d) : j <= i
  BY <1>1, EndsOfRange
<1> DEFINE newest == CHOOSE i \in ProofsOf(d) : \A j \in ProofsOf(d) : j <= i
<1>3. newest \in ProofsOf(d)
  BY <1>2
<1>4. NewestFile(d) = proofs[newest].file
  BY DEF NewestFile
<1> HIDE DEF newest
<1>5. proofs[newest] \in Proof
  BY <1>1, <1>3
<1> QED
  BY <1>3, <1>4, <1>5 DEF Proof

-----------------------------------------------------------------------------
(* What a step leaves alone.                                               *)

\* The sessions of different handlers are different.
LEMMA SessionsApart ==
  ASSUME DepositsAssumption, AccountsAssumption
  PROVE  /\ \A q \in Requests : q \in Sessions \ Adjusts /\ q \notin Reviews \union Expirers
         /\ \A v \in Reviews : v \in Sessions \ Adjusts /\ v \notin Expirers
         /\ \A x \in Expirers : x \in Sessions \ Adjusts
         /\ Free \notin Sessions
         /\ \A v \in Reviews : Reviewed[v] \in Requests
         /\ \A q \in Requests \union Receipts : Depositor[q] \in Users
BY DEF DepositsAssumption, AccountsAssumption

\* A step that keeps every create_deposit's hold on its user, makes nothing
\* pending and touches no unfiled deposit.
LEMMA FilersStay ==
  ASSUME DepositsAssumption, AccountsAssumption, DepositsIInv, UNCHANGED request,
         \A u \in Users, q \in Requests : userLock[u] = q => userLock'[u] = q,
         \A d \in Requests : deposit'[d].status = "pending" => deposit[d].status = "pending",
         \A d \in Requests : deposit[d].status = "none" => deposit'[d].status = "none"
  PROVE  FilersAreAlone' /\ PendingAreOne'
<1> USE DEF DepositsIInv
<1>1. PendingAreOne'
  BY DEF PendingAreOne
<1>2. \A u \in Users : PendingOf(u)' \subseteq PendingOf(u)
  BY DEF PendingOf
<1>3. ASSUME NEW q \in Requests
      PROVE  /\ request'[q] \in {"check", "insert"} => userLock'[Depositor[q]] = q
             /\ request'[q] # "done" => deposit'[q].status = "none"
             /\ request'[q] = "insert" => PendingOf(Depositor[q])' = {}
  <2>1. Depositor[q] \in Users
    BY SessionsApart
  <2> QED
    BY <1>2, <2>1 DEF FilersAreAlone
<1> QED
  BY <1>1, <1>3 DEF FilersAreAlone

\* A step that keeps what approvals hold and decides no deposit they hold.
LEMMA ReviewersStay ==
  ASSUME DepositsAssumption, AccountsAssumption, DepositsIInv, UNCHANGED review,
         \A u \in Users, v \in Reviews : walletLock'[u] = v <=> walletLock[u] = v,
         \A d \in Requests, v \in Reviews : depositLock[d] = v => depositLock'[d] = v,
         \A d \in Requests, v \in Reviews :
           depositLock[d] = v /\ deposit[d].status \in Reviewable
           => deposit'[d].status \in Reviewable
  PROVE  ReviewersHoldDeposits' /\ ReviewersHoldWallets'
<1> USE DEF DepositsIInv
<1>1. ReviewersHoldWallets'
  BY DEF ReviewersHoldWallets
<1>2. ReviewersHoldDeposits'
  BY SessionsApart DEF ReviewersHoldDeposits
<1> QED
  BY <1>1, <1>2

\* A step that keeps what passes hold, and changes none of it.
LEMMA ExpirersStay ==
  ASSUME DepositsIInv, UNCHANGED expire,
         \A d \in Requests, x \in Expirers :
           depositLock[d] = x /\ OutOfTime(d)
           => depositLock'[d] = x /\ deposit'[d] = deposit[d]
  PROVE  ExpirersHoldDeposits'
<1> SUFFICES ASSUME NEW x \in Expirers, NEW d \in expire[x].marked
             PROVE  depositLock'[d] = x /\ OutOfTime(d)'
  BY DEF ExpirersHoldDeposits
<1>1. d \in Requests /\ depositLock[d] = x /\ OutOfTime(d)
  BY DEF DepositsIInv, TypeOK, ExpireState, ExpirersHoldDeposits
<1> QED
  BY <1>1 DEF OutOfTime

\* A step of no receipt, which unfiles no deposit.
LEMMA ReceiptsStay ==
  ASSUME DepositsIInv, UNCHANGED <<receipt, proofs>>,
         \A d \in Requests : deposit[d].status # "none" => deposit'[d].status # "none"
  PROVE  ReceiptsAreFiled'
BY DEF DepositsIInv, ReceiptsAreFiled, Handling

\* The end of a transaction gives back its own user rows and no others.
LEMMA ReleaseKeepsUsers ==
  ASSUME AccountsTypeOK, NEW s, Release(s)
  PROVE  \A u \in Users : userLock'[u] = IF userLock[u] = s THEN Free ELSE userLock[u]
BY DEF AccountsTypeOK, Release, Unlocked

-----------------------------------------------------------------------------
(* The steps, one lemma for each handler.                                  *)

\* A request is filed only where its user has none, and nobody else files.
LEMMA RequestKeeps ==
  ASSUME DepositsAssumption, AccountsAssumption, DepositsIInv,
         NEW q \in Requests, RequestNext(q)
  PROVE  DepositsIInv'
<1> USE DEF DepositsIInv
<1>1. /\ q \in Sessions \ Adjusts /\ q # Free /\ Depositor[q] \in Users
      /\ TypeOK /\ AccountsTypeOK
  BY SessionsApart DEF AccountsIInv
<1>2. UNCHANGED <<depositLock, totalDeposits, proofs, receipt, review, expire, restsOn>>
  BY DEF RequestNext, OpenRequest, CheckRequest, FileRequest, DropRequest
<1>3. /\ request' \in [Requests -> {"idle", "check", "insert", "done"}]
      /\ request[q] # "done"
      /\ \A p \in Requests : p # q => request'[p] = request[p]
  BY <1>1 DEF RequestNext, OpenRequest, CheckRequest, FileRequest, DropRequest, TypeOK
<1>4. ASSUME deposit' \in [Requests -> DepositRow], filed' \in Seq(Requests),
             AccountsIInv',
             \A d \in Requests : d # q => deposit'[d] = deposit[d],
             \A u \in Users, v \in Reviews : walletLock'[u] = v <=> walletLock[u] = v
      PROVE  /\ TypeOK' /\ ReviewersHoldDeposits' /\ ReviewersHoldWallets'
             /\ ExpirersHoldDeposits' /\ ReceiptsAreFiled'
  <2>1. deposit[q].status = "none"
    BY <1>3 DEF FilersAreAlone
  <2>2. TypeOK'
    BY <1>1, <1>2, <1>3, <1>4 DEF TypeOK, AccountsIInv
  <2>3. ReviewersHoldDeposits' /\ ReviewersHoldWallets'
    BY <1>2, <1>4, <2>1, ReviewersStay DEF Reviewable
  <2>4. ExpirersHoldDeposits'
    BY <1>2, <1>4, <2>1, ExpirersStay DEF OutOfTime
  <2>5. ReceiptsAreFiled'
    BY <1>2, <1>4, <2>1, ReceiptsStay
  <2> QED
    BY <2>2, <2>3, <2>4, <2>5
<1>5. CASE OpenRequest(q)
  <2>1. /\ UNCHANGED <<balance, ledger, blocked, walletLock, seen, adjust, deposit, filed>>
        /\ userLock[Depositor[q]] = Free
        /\ userLock' = [userLock EXCEPT ![Depositor[q]] = q]
        /\ request'[q] = "check"
    BY <1>1, <1>5 DEF OpenRequest, TypeOK
  <2>2. userLock' \in [Users -> Sessions \union {Free}]
    BY <1>1, <2>1 DEF AccountsTypeOK
  <2>3. AccountsIInv'
    BY <2>1, <2>2, UserLockStep
  <2>4. /\ TypeOK' /\ ReviewersHoldDeposits' /\ ReviewersHoldWallets'
       /\ ExpirersHoldDeposits' /\ ReceiptsAreFiled'
    BY <1>1, <1>4, <2>1, <2>3 DEF TypeOK
  <2>5. PendingAreOne'
    BY <2>1 DEF PendingAreOne
  <2>6. \A p \in Requests : p # q /\ userLock[Depositor[p]] = p => Depositor[p] # Depositor[q]
    BY <2>1, SessionsApart
  <2>7. \A p \in Requests : PendingOf(Depositor[p])' = PendingOf(Depositor[p])
    BY <2>1 DEF PendingOf
  <2>8. ASSUME NEW p \in Requests
        PROVE  /\ request'[p] \in {"check", "insert"} => userLock'[Depositor[p]] = p
               /\ request'[p] # "done" => deposit'[p].status = "none"
               /\ request'[p] = "insert" => PendingOf(Depositor[p])' = {}
    <3>1. CASE p = q
      BY <1>1, <1>3, <2>1, <3>1 DEF FilersAreAlone, AccountsTypeOK
    <3>2. CASE p # q
      <4>1. Depositor[p] \in Users
        BY SessionsApart
      <4> QED
        BY <1>1, <1>3, <2>1, <2>6, <2>7, <3>2, <4>1 DEF FilersAreAlone, AccountsTypeOK
    <3> QED
      BY <3>1, <3>2
  <2> QED
    BY <2>3, <2>4, <2>5, <2>8 DEF FilersAreAlone
<1>6. CASE CheckRequest(q)
  <2>1. /\ UNCHANGED <<accountVars, deposit, filed>>
        /\ request[q] = "check" /\ request'[q] = "insert"
        /\ PendingOf(Depositor[q]) = {}
    BY <1>1, <1>6 DEF CheckRequest, TypeOK
  <2>2. AccountsIInv'
    BY <2>1, AccountsStutter
  <2>3. /\ TypeOK' /\ ReviewersHoldDeposits' /\ ReviewersHoldWallets'
       /\ ExpirersHoldDeposits' /\ ReceiptsAreFiled'
    BY <1>1, <1>4, <2>1, <2>2 DEF TypeOK, accountVars
  <2>4. PendingAreOne'
    BY <2>1 DEF PendingAreOne
  <2>5. \A p \in Requests : PendingOf(Depositor[p])' = PendingOf(Depositor[p])
    BY <2>1 DEF PendingOf
  <2>6. FilersAreAlone'
    BY <1>3, <2>1, <2>5 DEF FilersAreAlone, accountVars
  <2> QED
    BY <2>2, <2>3, <2>4, <2>6
<1>7. CASE DropRequest(q)
  <2>1. /\ UNCHANGED <<balance, ledger, blocked, adjust, deposit, filed>>
        /\ Release(q) /\ request'[q] = "done"
    BY <1>1, <1>7 DEF DropRequest, TypeOK
  <2>2. /\ AccountsIInv'
        /\ \A u \in Users : walletLock'[u] = IF walletLock[u] = q THEN Free ELSE walletLock[u]
    BY <1>1, <2>1, RollbackStep
  <2>3. /\ TypeOK' /\ ReviewersHoldDeposits' /\ ReviewersHoldWallets'
       /\ ExpirersHoldDeposits' /\ ReceiptsAreFiled'
    <3>1. \A u \in Users, v \in Reviews : walletLock'[u] = v <=> walletLock[u] = v
      <4>1. \A v \in Reviews : v # q /\ v # Free
        BY SessionsApart
      <4> QED
        BY <2>2, <4>1
    <3>2. deposit' \in [Requests -> DepositRow] /\ filed' \in Seq(Requests)
      BY <1>1, <2>1 DEF TypeOK
    <3> QED
      BY <1>4, <2>1, <2>2, <3>1, <3>2
  <2>4. PendingAreOne'
    BY <2>1 DEF PendingAreOne
  <2>5. \A p \in Requests : PendingOf(Depositor[p])' = PendingOf(Depositor[p])
    BY <2>1 DEF PendingOf
  <2>6. \A p \in Requests : p # q /\ userLock[Depositor[p]] = p => userLock'[Depositor[p]] = p
    BY <1>1, <2>1, ReleaseKeepsUsers, SessionsApart
  <2>7. FilersAreAlone'
    BY <1>3, <2>1, <2>5, <2>6 DEF FilersAreAlone
  <2> QED
    BY <2>2, <2>3, <2>4, <2>7
<1>8. CASE FileRequest(q)
  <2>1. PICK amount \in Amounts :
          deposit' = [deposit EXCEPT ![q] =
            [status |-> "pending", amount |-> amount, timeUp |-> FALSE, undone |-> 0]]
    BY <1>8 DEF FileRequest
  <2>2. /\ UNCHANGED <<balance, ledger, blocked, adjust>>
        /\ Release(q) /\ request[q] = "insert" /\ request'[q] = "done"
        /\ filed' = Append(filed, q)
    BY <1>1, <1>8 DEF FileRequest, TypeOK
  <2>3. amount \in Nat
    BY DEF DepositsAssumption
  <2>4. /\ deposit' \in [Requests -> DepositRow]
        /\ \A d \in Requests : d # q => deposit'[d] = deposit[d]
        /\ deposit'[q].status = "pending"
    BY <1>1, <2>1, <2>3 DEF TypeOK, DepositRow, Statuses
  <2>5. filed' \in Seq(Requests)
    BY <1>1, <2>2 DEF TypeOK
  <2>6. /\ AccountsIInv'
        /\ \A u \in Users : walletLock'[u] = IF walletLock[u] = q THEN Free ELSE walletLock[u]
    BY <1>1, <2>2, RollbackStep
  <2>7. /\ TypeOK' /\ ReviewersHoldDeposits' /\ ReviewersHoldWallets'
       /\ ExpirersHoldDeposits' /\ ReceiptsAreFiled'
    <3>1. \A u \in Users, v \in Reviews : walletLock'[u] = v <=> walletLock[u] = v
      <4>1. \A v \in Reviews : v # q /\ v # Free
        BY SessionsApart
      <4> QED
        BY <2>6, <4>1
    <3> QED
      BY <1>4, <2>4, <2>5, <2>6, <3>1
  <2>8. PendingOf(Depositor[q]) = {} /\ userLock[Depositor[q]] = q
    BY <2>2 DEF FilersAreAlone
  <2>9. PendingAreOne'
    BY <2>4, <2>8 DEF PendingAreOne, PendingOf
  <2>10. \A p \in Requests : p # q /\ request[p] \in {"check", "insert"} =>
           /\ userLock'[Depositor[p]] = p
           /\ Depositor[p] # Depositor[q]
    BY <1>1, <2>2, <2>8, ReleaseKeepsUsers, SessionsApart DEF FilersAreAlone
  <2>11. \A p \in Requests : Depositor[p] # Depositor[q] =>
           PendingOf(Depositor[p])' = PendingOf(Depositor[p])
    BY <2>4 DEF PendingOf
  <2>12. FilersAreAlone'
    <3> SUFFICES ASSUME NEW p \in Requests
                 PROVE  /\ request'[p] \in {"check", "insert"} => userLock'[Depositor[p]] = p
                        /\ request'[p] # "done" => deposit'[p].status = "none"
                        /\ request'[p] = "insert" => PendingOf(Depositor[p])' = {}
      BY DEF FilersAreAlone
    <3>1. CASE p = q
      BY <2>2, <3>1
    <3>2. CASE p # q
      <4>1. request'[p] = request[p] /\ deposit'[p] = deposit[p]
        BY <1>3, <2>4, <3>2
      <4>2. request[p] = "insert" => PendingOf(Depositor[p])' = PendingOf(Depositor[p])
        BY <2>10, <2>11, <3>2
      <4> QED
        BY <2>10, <3>2, <4>1, <4>2 DEF FilersAreAlone
    <3> QED
      BY <3>1, <3>2
  <2> QED
    BY <2>6, <2>7, <2>9, <2>12
<1> QED
  BY <1>5, <1>6, <1>7, <1>8 DEF RequestNext

\* A new status is the only change of one row.
LEMMA StatusIsSet ==
  ASSUME TypeOK, NEW e \in Requests, NEW status \in Statuses,
         deposit' = [deposit EXCEPT ![e] = [deposit[e] EXCEPT !.status = status]]
  PROVE  /\ deposit' \in [Requests -> DepositRow] /\ deposit'[e].status = status
         /\ deposit'[e].undone = deposit[e].undone
         /\ \A d \in Requests : d # e => deposit'[d] = deposit[d]
<1>1. deposit[e] \in DepositRow /\ deposit \in [Requests -> DepositRow]
  BY DEF TypeOK
<1>2. [deposit[e] EXCEPT !.status = status] \in DepositRow
  BY <1>1 DEF DepositRow
<1>3. /\ [deposit[e] EXCEPT !.status = status].status = status
      /\ [deposit[e] EXCEPT !.status = status].undone = deposit[e].undone
  BY <1>1 DEF DepositRow
<1> HIDE DEF DepositRow
<1> QED
  BY <1>1, <1>2, <1>3

\* The blind expiry of a receipt changes one row, and counts what it overwrites.
LEMMA StaleIsExpired ==
  ASSUME TypeOK, ReceiptsAreFiled, NEW r \in Receipts, ExpireStale(r)
  PROVE  LET e == receipt[r].deposit IN
         /\ e \in Requests /\ deposit[e].status # "none" /\ depositLock[e] = Free
         /\ deposit' \in [Requests -> DepositRow] /\ deposit'[e].status = "expired"
         /\ deposit'[e].undone = Approvals(e) /\ receipt[r].pc = "expire"
         /\ \A d \in Requests : d # e => deposit'[d] = deposit[d]
<1> DEFINE e == receipt[r].deposit
           lost == IF deposit[e].status = "approved" THEN 1 ELSE 0
           row == [deposit[e] EXCEPT !.status = "expired", !.undone = deposit[e].undone + lost]
<1>1. /\ e \in Requests /\ deposit[e].status # "none" /\ depositLock[e] = Free
      /\ deposit' = [deposit EXCEPT ![e] = row] /\ receipt[r].pc = "expire"
  BY DEF ExpireStale, ReceiptsAreFiled, Handling
<1>2. deposit[e] \in DepositRow /\ deposit \in [Requests -> DepositRow] /\ lost \in Nat
  BY <1>1 DEF TypeOK
<1>3. Approvals(e) = deposit[e].undone + lost
  BY DEF Approvals
<1>4. row \in DepositRow /\ row.status = "expired" /\ row.undone = deposit[e].undone + lost
  <2> DEFINE old == deposit[e]
             sum == old.undone + lost
  <2>1. old \in DepositRow /\ old.undone \in Nat
    BY <1>2 DEF DepositRow
  <2>2. sum \in Nat
    BY <1>2, <2>1
  <2> HIDE DEF old, sum, lost, e
  <2>3. [old EXCEPT !.status = "expired", !.undone = sum] \in DepositRow
    BY <2>1, <2>2 DEF DepositRow, Statuses
  <2>4. /\ [old EXCEPT !.status = "expired", !.undone = sum].status = "expired"
        /\ [old EXCEPT !.status = "expired", !.undone = sum].undone = sum
    BY <2>1 DEF DepositRow
  <2> QED
    BY <2>3, <2>4 DEF old, sum
<1> HIDE DEF lost, e
<1> HIDE DEF row
<1> QED
  BY <1>1, <1>2, <1>3, <1>4 DEF e

\* A clock that runs out turns no status and touches nothing a pass has marked.
LEMMA TimeUpKeeps ==
  ASSUME DepositsAssumption, AccountsAssumption, DepositsIInv,
         NEW e \in Requests, TimeUp(e)
  PROVE  DepositsIInv'
<1> USE DEF DepositsIInv
<1>1. /\ UNCHANGED <<accountVars, filed, depositLock, totalDeposits, proofs, request,
                     receipt, review, expire, restsOn>>
      /\ deposit[e] \in DepositRow /\ deposit[e].status = "pending" /\ ~deposit[e].timeUp
      /\ deposit' = [deposit EXCEPT ![e] = [deposit[e] EXCEPT !.timeUp = TRUE]]
  BY DEF TimeUp, TypeOK
<1>2. /\ deposit' \in [Requests -> DepositRow]
      /\ \A d \in Requests : deposit'[d].status = deposit[d].status
      /\ \A d \in Requests : d # e => deposit'[d] = deposit[d]
  BY <1>1 DEF TypeOK, DepositRow
<1>3. AccountsIInv'
  BY <1>1, AccountsStutter
<1>4. TypeOK'
  BY <1>1, <1>2, <1>3 DEF TypeOK, AccountsIInv
<1>5. FilersAreAlone' /\ PendingAreOne'
  BY <1>1, <1>2, FilersStay DEF accountVars
<1>6. ReviewersHoldDeposits' /\ ReviewersHoldWallets'
  BY <1>1, <1>2, ReviewersStay DEF accountVars
<1>7. ExpirersHoldDeposits'
  BY <1>1, <1>2, ExpirersStay DEF OutOfTime
<1>8. ReceiptsAreFiled'
  BY <1>1, <1>2, ReceiptsStay
<1> QED
  BY <1>3, <1>4, <1>5, <1>6, <1>7, <1>8

\* A receipt decides nothing that somebody holds.
LEMMA ReceiptKeeps ==
  ASSUME DepositsAssumption, AccountsAssumption, DepositsIInv,
         NEW r \in Receipts, ReceiptNext(r)
  PROVE  DepositsIInv'
<1> USE DEF DepositsIInv
<1>1. /\ UNCHANGED <<accountVars, filed, depositLock, totalDeposits, request, review,
                     expire, restsOn>>
      /\ TypeOK /\ receipt[r] \in ReceiptState
  BY DEF ReceiptNext, SendReceipt, ExpireStale, LookUpPhoto, InsertProof, AbortReceipt, TypeOK
<1>2. AccountsIInv'
  BY <1>1, AccountsStutter
<1>3. ASSUME deposit' = deposit, proofs' \in Seq(Proof), Len(proofs) <= Len(proofs'),
             NEW state \in ReceiptState, receipt' = [receipt EXCEPT ![r] = state],
             state.pc \in {"expire", "lookup", "insert"} =>
               state.deposit \in Requests /\ deposit[state.deposit].status # "none",
             state.earlier \in 0..Len(proofs)
      PROVE  DepositsIInv'
  <2>1. TypeOK'
    BY <1>1, <1>2, <1>3 DEF TypeOK, AccountsIInv
  <2>2. FilersAreAlone' /\ PendingAreOne'
    BY <1>1, <1>3, FilersStay DEF accountVars
  <2>3. ReviewersHoldDeposits' /\ ReviewersHoldWallets'
    BY <1>1, <1>3, ReviewersStay DEF accountVars
  <2>4. ExpirersHoldDeposits'
    BY <1>1, <1>3, ExpirersStay
  <2>5. ASSUME NEW p \in Receipts
        PROVE  /\ Handling(p)' => /\ receipt'[p].deposit \in Requests
                                  /\ deposit'[receipt'[p].deposit].status # "none"
               /\ receipt'[p].earlier \in 0..Len(proofs')
    <3>1. CASE p = r
      <4>1. receipt'[p] = state
        BY <1>1, <1>3, <3>1 DEF TypeOK
      <4>2. Len(proofs) \in Nat /\ Len(proofs') \in Nat
        BY <1>1, <1>3 DEF TypeOK
      <4> QED
        BY <1>3, <4>1, <4>2 DEF Handling
    <3>2. CASE p # r
      <4>1. receipt'[p] = receipt[p]
        BY <1>1, <1>3, <3>2 DEF TypeOK
      <4>2. Len(proofs) \in Nat /\ Len(proofs') \in Nat
        BY <1>1, <1>3 DEF TypeOK
      <4> QED
        BY <1>3, <4>1, <4>2 DEF Handling, ReceiptsAreFiled
    <3> QED
      BY <3>1, <3>2
  <2> QED
    BY <1>2, <2>1, <2>2, <2>3, <2>4, <2>5 DEF ReceiptsAreFiled
<1>4. [NewReceipt EXCEPT !.pc = "done"] \in ReceiptState
  BY DEF NewReceipt, ReceiptState
<1>5. CASE UNCHANGED <<deposit, proofs>> /\ EndReceipt(r)
  <2> DEFINE state == [NewReceipt EXCEPT !.pc = "done"]
  <2>1. state.pc = "done" /\ state.earlier = 0
    BY DEF NewReceipt
  <2>2. receipt' = [receipt EXCEPT ![r] = state]
    BY <1>5 DEF EndReceipt
  <2>3. /\ deposit' = deposit /\ proofs' \in Seq(Proof)
        /\ Len(proofs) <= Len(proofs') /\ 0 \in 0..Len(proofs)
    BY <1>1, <1>5 DEF TypeOK
  <2>4. state \in ReceiptState
    BY <1>4
  <2>5. /\ state.pc \in {"expire", "lookup", "insert"} =>
             state.deposit \in Requests /\ deposit[state.deposit].status # "none"
        /\ state.earlier \in 0..Len(proofs)
    BY <2>1, <2>3
  <2> HIDE DEF state
  <2> QED
    BY <1>3, <2>2, <2>3, <2>4, <2>5
<1>6. CASE SendReceipt(r)
  <2> DEFINE d == Newest(Depositor[r])
             pc == IF deposit[d].status = "pending" /\ deposit[d].timeUp
                   THEN "expire" ELSE "lookup"
             state == [receipt[r] EXCEPT !.deposit = d, !.pc = pc]
  <2>1. UNCHANGED <<deposit, proofs>> /\ receipt[r].pc = "idle"
    BY <1>6 DEF SendReceipt
  <2>2. EndReceipt(r) \/ (d # NoRef /\ receipt' = [receipt EXCEPT ![r] = state])
    <3>1. CASE blocked[Depositor[r]] \/ d = NoRef
      BY <1>6, <3>1 DEF SendReceipt
    <3>2. CASE ~(blocked[Depositor[r]] \/ d = NoRef)
      BY <1>6, <3>2 DEF SendReceipt
    <3> QED
      BY <3>1, <3>2
  <2>3. CASE d # NoRef /\ receipt' = [receipt EXCEPT ![r] = state]
    <3>1. d \in Requests /\ deposit[d].status \in Reviewable
      BY <1>1, <2>3, NewestIsFiled DEF TypeOK
    <3>2. /\ state \in ReceiptState /\ state.deposit = d
          /\ state.earlier = receipt[r].earlier
      BY <1>1, <3>1 DEF ReceiptState
    <3>3. receipt[r].earlier \in 0..Len(proofs)
      BY DEF ReceiptsAreFiled
    <3>4. deposit' = deposit /\ proofs' \in Seq(Proof) /\ Len(proofs) <= Len(proofs')
      BY <1>1, <2>1 DEF TypeOK
    <3>5. deposit[d].status # "none"
      BY <3>1 DEF Reviewable
    <3> HIDE DEF state, d
    <3> QED
      BY <1>3, <2>3, <3>1, <3>2, <3>3, <3>4, <3>5
  <2> QED
    BY <1>5, <2>1, <2>2, <2>3
<1>7. CASE ExpireStale(r)
  <2> DEFINE e == receipt[r].deposit
             state == [receipt[r] EXCEPT !.pc = "lookup"]
  <2>1. /\ e \in Requests /\ deposit[e].status # "none" /\ depositLock[e] = Free
        /\ receipt' = [receipt EXCEPT ![r] = state] /\ UNCHANGED proofs
    BY <1>1, <1>7, StaleIsExpired DEF ExpireStale
  <2>2. /\ deposit' \in [Requests -> DepositRow] /\ deposit'[e].status = "expired"
        /\ \A d \in Requests : d # e => deposit'[d] = deposit[d]
    BY <1>1, <1>7, StaleIsExpired
  <2>3. state \in ReceiptState /\ state.deposit = e /\ state.earlier = receipt[r].earlier
    BY <1>1 DEF ReceiptState
  <2>4. receipt' \in [Receipts -> ReceiptState]
    BY <1>1, <2>1, <2>3 DEF TypeOK
  <2>5. TypeOK'
    BY <1>1, <1>2, <2>1, <2>2, <2>4 DEF TypeOK, AccountsIInv
  <2>6. FilersAreAlone' /\ PendingAreOne'
    BY <1>1, <2>1, <2>2, FilersStay DEF accountVars
  <2>7. ReviewersHoldDeposits' /\ ReviewersHoldWallets'
    BY <1>1, <2>2, ReviewersStay DEF accountVars, Reviewable
  <2>8. ExpirersHoldDeposits'
    BY <1>1, <2>1, <2>2, SessionsApart, ExpirersStay
  <2>9. ReceiptsAreFiled'
    <3>1. \A p \in Receipts : receipt'[p].deposit = receipt[p].deposit
                           /\ receipt'[p].earlier = receipt[p].earlier
      BY <1>1, <2>1, <2>3 DEF TypeOK
    <3>2. \A p \in Receipts : Handling(p)' => Handling(p)
      BY <1>1, <1>7, <2>1 DEF Handling, ExpireStale, TypeOK
    <3>3. \A d \in Requests : deposit[d].status # "none" => deposit'[d].status # "none"
      BY <2>2
    <3> QED
      BY <2>1, <3>1, <3>2, <3>3 DEF ReceiptsAreFiled
  <2> QED
    BY <1>2, <2>5, <2>6, <2>7, <2>8, <2>9
<1>8. CASE LookUpPhoto(r)
  <2> DEFINE same == {i \in 1..Len(proofs) : proofs[i].file = File[r]}
             first == IF same = {} THEN 0 ELSE CHOOSE i \in same : \A j \in same : i <= j
             state == [receipt[r] EXCEPT !.pc = "insert", !.earlier = first]
  <2>1. /\ UNCHANGED <<deposit, proofs>> /\ receipt' = [receipt EXCEPT ![r] = state]
        /\ receipt[r].deposit \in Requests /\ deposit[receipt[r].deposit].status # "none"
    BY <1>8 DEF LookUpPhoto, ReceiptsAreFiled, Handling
  <2>2. proofs \in Seq(Proof) /\ Len(proofs) \in Nat
    BY <1>1 DEF TypeOK
  <2>3. first \in 0..Len(proofs)
    <3>1. same \in SUBSET (1..Len(proofs))
      OBVIOUS
    <3> HIDE DEF same
    <3>2. CASE same = {}
      BY <2>2, <3>2
    <3>3. CASE same # {}
      <4>1. \E i \in same : \A j \in same : i <= j
        BY <2>2, <3>1, <3>3, EndsOfRange
      <4> DEFINE earliest == CHOOSE i \in same : \A j \in same : i <= j
      <4>2. earliest \in same
        BY <4>1
      <4>3. first = earliest
        BY <3>3
      <4> HIDE DEF earliest
      <4>4. earliest \in 1..Len(proofs)
        BY <3>1, <4>2
      <4>5. earliest \in 0..Len(proofs)
        BY <2>2, <4>4
      <4> QED
        BY <4>3, <4>5
    <3> QED
      BY <3>2, <3>3
  <2> HIDE DEF first
  <2>4. first \in Nat /\ Len(proofs) <= Len(proofs') /\ proofs' \in Seq(Proof)
    BY <2>1, <2>2, <2>3
  <2>5. state \in ReceiptState /\ state.deposit = receipt[r].deposit /\ state.earlier = first
    BY <1>1, <2>4 DEF ReceiptState
  <2> HIDE DEF state
  <2> QED
    BY <1>3, <2>1, <2>3, <2>4, <2>5
<1>9. CASE InsertProof(r)
  <2> DEFINE i == receipt[r].earlier
             flagged == IF i = 0 THEN proofs
                        ELSE [proofs EXCEPT ![i] = [proofs[i] EXCEPT !.flagged = TRUE]]
             row == NewProof(r)
             state == [NewReceipt EXCEPT !.pc = "done"]
  <2>1. /\ deposit' = deposit /\ proofs' = Append(flagged, row)
        /\ receipt' = [receipt EXCEPT ![r] = state]
        /\ receipt[r].deposit \in Requests /\ i \in 0..Len(proofs)
    BY <1>9 DEF InsertProof, EndReceipt, ReceiptsAreFiled, Handling
  <2>2. proofs \in Seq(Proof) /\ Len(proofs) \in Nat
    BY <1>1 DEF TypeOK
  <2>3. row \in Proof
    BY <2>1 DEF NewProof, Proof, Files
  <2>4. flagged \in Seq(Proof) /\ Len(flagged) = Len(proofs)
    <3>1. CASE i = 0
      BY <2>2, <3>1
    <3>2. CASE i # 0
      <4>1. i \in 1..Len(proofs)
        BY <2>1, <2>2, <3>2
      <4>2. proofs[i] \in Proof
        BY <2>2, <4>1
      <4>3. [proofs[i] EXCEPT !.flagged = TRUE] \in Proof
        BY <4>2 DEF Proof
      <4> QED
        BY <2>2, <3>2, <4>1, <4>3
    <3> QED
      BY <3>1, <3>2
  <2> HIDE DEF flagged, row
  <2>5. proofs' \in Seq(Proof) /\ Len(proofs') = Len(proofs) + 1
    BY <2>1, <2>3, <2>4
  <2>6. state.pc = "done" /\ state.earlier = 0
    BY DEF NewReceipt
  <2>7. state \in ReceiptState
    BY <1>4
  <2>8. /\ state.pc \in {"expire", "lookup", "insert"} =>
             state.deposit \in Requests /\ deposit[state.deposit].status # "none"
        /\ state.earlier \in 0..Len(proofs) /\ Len(proofs) <= Len(proofs')
    BY <2>2, <2>5, <2>6
  <2> HIDE DEF state
  <2> QED
    BY <1>3, <2>1, <2>5, <2>7, <2>8
<1> QED
  BY <1>5, <1>6, <1>7, <1>8, <1>9 DEF ReceiptNext, AbortReceipt

\* A review decides only the deposit it holds, and credits from the wallet it
\* holds.
LEMMA ReviewKeeps ==
  ASSUME DepositsAssumption, AccountsAssumption, DepositsIInv,
         NEW v \in Reviews, ReviewNext(v)
  PROVE  DepositsIInv'
<1> DEFINE d == Reviewed[v]
           ended == [NewReview EXCEPT !.pc = "done"]
<1> USE DEF DepositsIInv
<1>1. /\ UNCHANGED <<filed, proofs, request, receipt, expire>>
      /\ TypeOK /\ AccountsTypeOK /\ review[v] \in ReviewState
      /\ v \in Sessions \ Adjusts /\ v # Free /\ v \notin Requests /\ v \notin Expirers
      /\ d \in Requests /\ Depositor[d] \in Users
      /\ \A s \in Requests \union Reviews \union Expirers : s # Free
  BY SessionsApart DEF AccountsIInv, ReviewNext, OpenApproval, RefuseApproval, LockCredit,
     Approve, Reject, AbortReview, TypeOK
<1>2. ended \in ReviewState /\ ended.pc = "done"
  BY DEF NewReview, ReviewState
<1>3. ASSUME NEW row \in ReviewState, review' = [review EXCEPT ![v] = row],
             AccountsIInv', deposit' \in [Requests -> DepositRow],
             depositLock' \in [Requests -> Sessions \union {Free}],
             totalDeposits' \in [Users -> Nat],
             restsOn' \in [Requests -> Files \union {NoRef}],
             \A u \in Users, w \in Reviews \ {v} : walletLock'[u] = w <=> walletLock[u] = w,
             \A u \in Users :
               walletLock'[u] = v <=> row.pc = "credit" /\ u = Depositor[d],
             \A u \in Users, q \in Requests : userLock[u] = q => userLock'[u] = q,
             \A e \in Requests, s \in (Reviews \union Expirers) \ {v} :
               depositLock[e] = s => depositLock'[e] = s /\ deposit'[e] = deposit[e],
             row.pc \in {"wallet", "credit"} =>
               depositLock'[d] = v /\ deposit'[d].status \in Reviewable,
             \A e \in Requests :
               /\ deposit'[e].status = "pending" => deposit[e].status = "pending"
               /\ deposit'[e].status = "none" <=> deposit[e].status = "none"
      PROVE  DepositsIInv'
  <2>1. TypeOK'
    BY <1>1, <1>3 DEF TypeOK, AccountsIInv
  <2>2. FilersAreAlone' /\ PendingAreOne'
    BY <1>1, <1>3, FilersStay
  <2>3. review'[v] = row /\ \A w \in Reviews : w # v => review'[w] = review[w]
    BY <1>1, <1>3 DEF TypeOK
  <2>4. ReviewersHoldDeposits'
    <3> SUFFICES ASSUME NEW w \in Reviews, review'[w].pc \in {"wallet", "credit"}
                 PROVE  /\ depositLock'[Reviewed[w]] = w
                        /\ deposit'[Reviewed[w]].status \in Reviewable
      BY DEF ReviewersHoldDeposits
    <3>1. CASE w = v
      BY <1>3, <2>3, <3>1
    <3>2. CASE w # v
      <4>1. Reviewed[w] \in Requests
        BY SessionsApart
      <4>2. depositLock[Reviewed[w]] = w /\ deposit[Reviewed[w]].status \in Reviewable
        BY <2>3, <3>2 DEF ReviewersHoldDeposits
      <4>3. w \in (Reviews \union Expirers) \ {v}
        BY <3>2
      <4>4. /\ depositLock'[Reviewed[w]] = w
            /\ deposit'[Reviewed[w]] = deposit[Reviewed[w]]
        BY <1>3, <4>1, <4>2, <4>3
      <4> QED
        BY <4>2, <4>4
    <3> QED
      BY <3>1, <3>2
  <2>5. ReviewersHoldWallets'
    <3> SUFFICES ASSUME NEW w \in Reviews, NEW u \in Users
                 PROVE  walletLock'[u] = w <=>
                          review'[w].pc = "credit" /\ u = Depositor[Reviewed[w]]
      BY DEF ReviewersHoldWallets
    <3>1. CASE w = v
      BY <1>3, <2>3, <3>1
    <3>2. CASE w # v
      BY <1>3, <2>3, <3>2 DEF ReviewersHoldWallets
    <3> QED
      BY <3>1, <3>2
  <2>6. ExpirersHoldDeposits'
    BY <1>1, <1>3, ExpirersStay
  <2>7. ReceiptsAreFiled'
    BY <1>1, <1>3, ReceiptsStay
  <2> QED
    BY <1>3, <2>1, <2>2, <2>4, <2>5, <2>6, <2>7
<1>4. CASE OpenApproval(v)
  <2> DEFINE row == [pc |-> "wallet", file |-> NewestFile(d)]
  <2>1. /\ UNCHANGED <<accountVars, deposit, totalDeposits, restsOn>>
        /\ review[v].pc = "idle" /\ depositLock[d] = Free /\ Approvable(d)
        /\ depositLock' = [depositLock EXCEPT ![d] = v]
        /\ review' = [review EXCEPT ![v] = row]
    BY <1>4 DEF OpenApproval
  <2>2. NewestFile(d) \in Files /\ deposit[d].status \in Reviewable
    BY <1>1, <2>1, NewestFileIsSent DEF Approvable, TypeOK
  <2>3. row \in ReviewState /\ row.pc = "wallet"
    BY <2>2 DEF ReviewState
  <2>4. AccountsIInv'
    BY <2>1, AccountsStutter
  <2>5. /\ depositLock' \in [Requests -> Sessions \union {Free}]
        /\ depositLock'[d] = v /\ \A e \in Requests : e # d => depositLock'[e] = depositLock[e]
    BY <1>1, <2>1 DEF TypeOK
  <2>6. \A u \in Users : walletLock[u] # v
    BY <2>1 DEF ReviewersHoldWallets
  <2>7. /\ deposit' \in [Requests -> DepositRow] /\ totalDeposits' \in [Users -> Nat]
        /\ restsOn' \in [Requests -> Files \union {NoRef}]
        /\ walletLock' = walletLock /\ userLock' = userLock /\ deposit' = deposit
    BY <1>1, <2>1 DEF TypeOK, accountVars
  <2>8. \A e \in Requests, s \in (Reviews \union Expirers) \ {v} :
          depositLock[e] = s => depositLock'[e] = s
    BY <1>1, <2>1, <2>5
  <2> HIDE DEF row
  <2> QED
    BY <1>3, <2>1, <2>2, <2>3, <2>4, <2>5, <2>6, <2>7, <2>8
<1>5. CASE RefuseApproval(v)
  <2>1. /\ UNCHANGED <<accountVars, deposit, depositLock, totalDeposits, restsOn>>
        /\ review[v].pc = "idle" /\ review' = [review EXCEPT ![v] = ended]
    BY <1>5 DEF RefuseApproval, EndReview
  <2>2. AccountsIInv'
    BY <2>1, AccountsStutter
  <2>3. \A u \in Users : walletLock[u] # v
    BY <2>1 DEF ReviewersHoldWallets
  <2>4. /\ deposit' \in [Requests -> DepositRow] /\ totalDeposits' \in [Users -> Nat]
        /\ depositLock' \in [Requests -> Sessions \union {Free}]
        /\ restsOn' \in [Requests -> Files \union {NoRef}]
        /\ walletLock' = walletLock /\ userLock' = userLock
        /\ depositLock' = depositLock /\ deposit' = deposit
    BY <1>1, <2>1 DEF TypeOK, accountVars
  <2> HIDE DEF ended
  <2> QED
    BY <1>2, <1>3, <2>1, <2>2, <2>3, <2>4
<1>6. CASE LockCredit(v)
  <2> DEFINE row == [review[v] EXCEPT !.pc = "credit"]
  <2>1. /\ UNCHANGED <<balance, ledger, blocked, userLock, adjust, deposit, depositLock,
                       totalDeposits, restsOn>>
        /\ review[v].pc = "wallet" /\ LockWallet(v, Depositor[d])
        /\ review' = [review EXCEPT ![v] = row]
    BY <1>1, <1>6 DEF LockCredit, TypeOK
  <2>2. \A u \in Users : walletLock[u] # v
    BY <2>1 DEF ReviewersHoldWallets
  <2>3. /\ AccountsIInv' /\ walletLock' = [walletLock EXCEPT ![Depositor[d]] = v]
        /\ walletLock[Depositor[d]] = Free
    BY <1>1, <2>1, <2>2, LockStep DEF LockWallet
  <2>4. /\ \A u \in Users : walletLock'[u] = v <=> u = Depositor[d]
        /\ \A u \in Users, w \in Reviews \ {v} : walletLock'[u] = w <=> walletLock[u] = w
    BY <1>1, <2>2, <2>3 DEF AccountsTypeOK
  <2>5. row \in ReviewState /\ row.pc = "credit"
    BY <1>1 DEF ReviewState
  <2>6. /\ deposit' \in [Requests -> DepositRow] /\ totalDeposits' \in [Users -> Nat]
        /\ depositLock' \in [Requests -> Sessions \union {Free}]
        /\ restsOn' \in [Requests -> Files \union {NoRef}]
        /\ depositLock' = depositLock /\ deposit' = deposit
    BY <1>1, <2>1 DEF TypeOK
  <2>7. depositLock'[d] = v /\ deposit'[d].status \in Reviewable
    BY <2>1, <2>6 DEF ReviewersHoldDeposits
  <2> HIDE DEF row
  <2> QED
    BY <1>3, <2>1, <2>3, <2>4, <2>5, <2>6, <2>7
<1>7. ASSUME ReleaseAll(v), review[v].pc \in {"wallet", "credit"}
      PROVE  /\ depositLock' \in [Requests -> Sessions \union {Free}]
             /\ \A e \in Requests, s \in (Reviews \union Expirers) \ {v} :
                  depositLock[e] = s => depositLock'[e] = s /\ e # d
             /\ \A u \in Users, q \in Requests : userLock[u] = q => userLock'[u] = q
  <2>1. Release(v) /\ depositLock' = [e \in Requests |->
                                        IF depositLock[e] = v THEN Free ELSE depositLock[e]]
    BY <1>1, <1>7 DEF ReleaseAll, Unlocked, TypeOK
  <2>2. depositLock[d] = v
    BY <1>7 DEF ReviewersHoldDeposits
  <2> QED
    BY <1>1, <2>1, <2>2, ReleaseKeepsUsers DEF TypeOK
<1>8. CASE AbortReview(v)
  <2>1. /\ UNCHANGED <<balance, ledger, blocked, adjust, deposit, totalDeposits, restsOn>>
        /\ review[v].pc \in {"wallet", "credit"} /\ ReleaseAll(v) /\ Release(v)
        /\ review' = [review EXCEPT ![v] = ended]
    BY <1>8 DEF AbortReview, EndReview, ReleaseAll
  <2>2. /\ AccountsIInv'
        /\ \A u \in Users : walletLock'[u] = IF walletLock[u] = v THEN Free ELSE walletLock[u]
    BY <1>1, <2>1, RollbackStep
  <2>3. /\ \A u \in Users : walletLock'[u] = v <=> ended.pc = "credit" /\ u = Depositor[d]
        /\ \A u \in Users, w \in Reviews \ {v} : walletLock'[u] = w <=> walletLock[u] = w
    BY <1>1, <1>2, <2>2
  <2>4. /\ deposit' \in [Requests -> DepositRow] /\ totalDeposits' \in [Users -> Nat]
        /\ restsOn' \in [Requests -> Files \union {NoRef}] /\ deposit' = deposit
    BY <1>1, <2>1 DEF TypeOK
  <2>5. /\ depositLock' \in [Requests -> Sessions \union {Free}]
        /\ \A e \in Requests, s \in (Reviews \union Expirers) \ {v} :
             depositLock[e] = s => depositLock'[e] = s /\ deposit'[e] = deposit[e]
        /\ \A u \in Users, q \in Requests : userLock[u] = q => userLock'[u] = q
    BY <1>7, <2>1
  <2> HIDE DEF ended
  <2> QED
    BY <1>2, <1>3, <2>1, <2>2, <2>3, <2>4, <2>5
<1>9. CASE Approve(v)
  <2> DEFINE u == Depositor[d]
             amount == deposit[d].amount
  <2>1. /\ review[v].pc = "credit" /\ UNCHANGED <<blocked, adjust>>
        /\ ChangeBalance(v, u, "deposit", amount, d)
        /\ totalDeposits' = [totalDeposits EXCEPT ![u] = totalDeposits[u] + amount]
        /\ deposit' = [deposit EXCEPT ![d] = [deposit[d] EXCEPT !.status = "approved"]]
        /\ restsOn' = [restsOn EXCEPT ![d] = review[v].file]
        /\ ReleaseAll(v) /\ Release(v)
        /\ review' = [review EXCEPT ![v] = ended]
    BY <1>1, <1>9 DEF Approve, SetStatus, EndReview, ReleaseAll, TypeOK
  <2>2. /\ amount \in Nat /\ amount \in Int /\ "deposit" \in EntryTypes
        /\ d \in Refs \union {NoRef} /\ walletLock[u] = v
    BY <1>1, <2>1 DEF TypeOK, DepositRow, EntryTypes, DepositsAssumption, ReviewersHoldWallets
  <2>3. /\ AccountsIInv'
        /\ \A t \in Users : walletLock'[t] = IF walletLock[t] = v THEN Free ELSE walletLock[t]
    <3> HIDE DEF u, amount, d
    <3> QED
      BY <1>1, <2>1, <2>2, CommitStep DEF u
  <2>4. /\ \A t \in Users : walletLock'[t] = v <=> ended.pc = "credit" /\ t = Depositor[d]
        /\ \A t \in Users, w \in Reviews \ {v} : walletLock'[t] = w <=> walletLock[t] = w
    BY <1>1, <1>2, <2>3
  <2>5. /\ deposit' \in [Requests -> DepositRow] /\ deposit'[d].status = "approved"
        /\ \A e \in Requests : e # d => deposit'[e] = deposit[e]
    BY <1>1, <2>1, StatusIsSet DEF Statuses
  <2>6. totalDeposits' \in [Users -> Nat] /\ restsOn' \in [Requests -> Files \union {NoRef}]
    BY <1>1, <2>1, <2>2 DEF TypeOK, ReviewState
  <2>7. deposit[d].status \in Reviewable
    BY <2>1 DEF ReviewersHoldDeposits
  <2>8. \A e \in Requests :
          /\ deposit'[e].status = "pending" => deposit[e].status = "pending"
          /\ deposit'[e].status = "none" <=> deposit[e].status = "none"
    BY <2>5, <2>7 DEF Reviewable
  <2>9. /\ depositLock' \in [Requests -> Sessions \union {Free}]
        /\ \A e \in Requests, s \in (Reviews \union Expirers) \ {v} :
             depositLock[e] = s => depositLock'[e] = s /\ deposit'[e] = deposit[e]
        /\ \A w \in Users, q \in Requests : userLock[w] = q => userLock'[w] = q
    BY <1>7, <2>1, <2>5
  <2> HIDE DEF ended
  <2> QED
    BY <1>2, <1>3, <2>1, <2>3, <2>4, <2>5, <2>6, <2>8, <2>9
<1>10. CASE Reject(v)
  <2>1. /\ UNCHANGED <<accountVars, depositLock, totalDeposits, restsOn>>
        /\ review[v].pc = "idle" /\ depositLock[d] = Free
        /\ deposit[d].status \in Reviewable
        /\ deposit' = [deposit EXCEPT ![d] = [deposit[d] EXCEPT !.status = "rejected"]]
        /\ review' = [review EXCEPT ![v] = ended]
    BY <1>10 DEF Reject, SetStatus, EndReview
  <2>2. AccountsIInv'
    BY <2>1, AccountsStutter
  <2>3. \A u \in Users : walletLock[u] # v
    BY <2>1 DEF ReviewersHoldWallets
  <2>4. /\ deposit' \in [Requests -> DepositRow] /\ deposit'[d].status = "rejected"
        /\ \A e \in Requests : e # d => deposit'[e] = deposit[e]
    BY <1>1, <2>1, StatusIsSet DEF Statuses
  <2>5. /\ totalDeposits' \in [Users -> Nat]
        /\ depositLock' \in [Requests -> Sessions \union {Free}]
        /\ restsOn' \in [Requests -> Files \union {NoRef}]
        /\ walletLock' = walletLock /\ userLock' = userLock /\ depositLock' = depositLock
    BY <1>1, <2>1 DEF TypeOK, accountVars
  <2>6. \A e \in Requests :
          /\ deposit'[e].status = "pending" => deposit[e].status = "pending"
          /\ deposit'[e].status = "none" <=> deposit[e].status = "none"
    BY <2>1, <2>4 DEF Reviewable
  <2>7. \A e \in Requests, s \in (Reviews \union Expirers) \ {v} :
          depositLock[e] = s => depositLock'[e] = s /\ deposit'[e] = deposit[e]
    BY <1>1, <2>1, <2>4, <2>5
  <2> HIDE DEF ended
  <2> QED
    BY <1>2, <1>3, <2>1, <2>2, <2>3, <2>4, <2>5, <2>6, <2>7
<1> QED
  BY <1>4, <1>5, <1>6, <1>8, <1>9, <1>10 DEF ReviewNext

\* A pass expires only what it holds and has found out of time.
LEMMA ExpireKeeps ==
  ASSUME DepositsAssumption, AccountsAssumption, DepositsIInv,
         NEW x \in Expirers, ExpireNext(x)
  PROVE  DepositsIInv'
<1> USE DEF DepositsIInv
<1>1. /\ UNCHANGED <<accountVars, filed, totalDeposits, proofs, request, receipt, review,
                     restsOn>>
      /\ TypeOK /\ expire[x] \in ExpireState
      /\ x \in Sessions /\ x # Free /\ x \notin Reviews
      /\ \A s \in Reviews \union Expirers : s # Free
  <2>1. UNCHANGED <<accountVars, filed, totalDeposits, proofs, request, receipt, review,
                    restsOn>>
    BY DEF ExpireNext, SnapshotExpired, LockExpired, CommitExpired, AbortExpire
  <2>2. TypeOK /\ expire[x] \in ExpireState
    BY DEF TypeOK
  <2> QED
    BY <2>1, <2>2, SessionsApart
<1>2. AccountsIInv'
  BY <1>1, AccountsStutter
<1>3. /\ expire[x].ids \in SUBSET Requests /\ expire[x].marked \in SUBSET Requests
      /\ \A e \in expire[x].marked : depositLock[e] = x /\ OutOfTime(e)
  BY <1>1 DEF ExpireState, ExpirersHoldDeposits
<1>4. ASSUME NEW row \in ExpireState, expire' = [expire EXCEPT ![x] = row],
             deposit' \in [Requests -> DepositRow],
             depositLock' \in [Requests -> Sessions \union {Free}],
             \A e \in Requests, s \in (Reviews \union Expirers) \ {x} :
               depositLock[e] = s => depositLock'[e] = s /\ deposit'[e] = deposit[e],
             \A e \in row.marked :
               depositLock'[e] = x /\ deposit'[e] = deposit[e] /\ OutOfTime(e),
             \A e \in Requests :
               /\ deposit'[e].status = "pending" => deposit[e].status = "pending"
               /\ deposit'[e].status = "none" <=> deposit[e].status = "none"
      PROVE  DepositsIInv'
  <2>1. TypeOK'
    BY <1>1, <1>2, <1>4 DEF TypeOK, AccountsIInv
  <2>2. FilersAreAlone' /\ PendingAreOne'
    BY <1>1, <1>4, FilersStay DEF accountVars
  <2>3. ReviewersHoldDeposits' /\ ReviewersHoldWallets'
    BY <1>1, <1>4, ReviewersStay DEF accountVars
  <2>4. ReceiptsAreFiled'
    BY <1>1, <1>4, ReceiptsStay
  <2>5. ExpirersHoldDeposits'
    <3> SUFFICES ASSUME NEW y \in Expirers, NEW e \in expire'[y].marked
                 PROVE  depositLock'[e] = y /\ OutOfTime(e)'
      BY DEF ExpirersHoldDeposits
    <3>1. CASE y = x
      <4>1. expire'[y] = row
        BY <1>1, <1>4, <3>1 DEF TypeOK
      <4> QED
        BY <1>4, <3>1, <4>1 DEF OutOfTime
    <3>2. CASE y # x
      <4>1. expire'[y] = expire[y] /\ expire[y] \in ExpireState
        BY <1>1, <1>4, <3>2 DEF TypeOK
      <4>2. e \in Requests /\ depositLock[e] = y /\ OutOfTime(e)
        BY <4>1 DEF ExpireState, ExpirersHoldDeposits
      <4> QED
        BY <1>4, <3>2, <4>2 DEF OutOfTime
    <3> QED
      BY <3>1, <3>2
  <2> QED
    BY <1>2, <2>1, <2>2, <2>3, <2>4, <2>5
<1>5. deposit \in [Requests -> DepositRow] /\ depositLock \in [Requests -> Sessions \union {Free}]
  BY <1>1 DEF TypeOK
<1>6. CASE SnapshotExpired(x)
  <2> DEFINE row == [pc |-> "pass", ids |-> {d \in Requests : OutOfTime(d)}, marked |-> {}]
  <2>1. /\ UNCHANGED <<deposit, depositLock>> /\ expire' = [expire EXCEPT ![x] = row]
    BY <1>6 DEF SnapshotExpired
  <2>2. row \in ExpireState /\ row.marked = {}
    BY DEF ExpireState
  <2> HIDE DEF row
  <2> QED
    BY <1>4, <1>5, <2>1, <2>2
<1>7. CASE LockExpired(x)
  <2>1. PICK d \in expire[x].ids :
          /\ depositLock[d] = Free
          /\ depositLock' = [depositLock EXCEPT ![d] = x]
          /\ expire' = [expire EXCEPT ![x] =
               [@ EXCEPT !.ids = expire[x].ids \ {d},
                         !.marked = IF OutOfTime(d) THEN expire[x].marked \union {d}
                                    ELSE expire[x].marked]]
    BY <1>7 DEF LockExpired
  <2> DEFINE marked == IF OutOfTime(d) THEN expire[x].marked \union {d} ELSE expire[x].marked
             row == [expire[x] EXCEPT !.ids = expire[x].ids \ {d}, !.marked = marked]
  <2>2. deposit' = deposit /\ expire' = [expire EXCEPT ![x] = row]
    BY <1>1, <1>7, <2>1 DEF LockExpired, TypeOK
  <2>3. d \in Requests /\ marked \in SUBSET Requests
    BY <1>3
  <2>4. /\ depositLock' \in [Requests -> Sessions \union {Free}]
        /\ depositLock'[d] = x /\ \A e \in Requests : e # d => depositLock'[e] = depositLock[e]
    BY <1>1, <1>5, <2>1, <2>3
  <2>5. \A e \in marked : depositLock'[e] = x /\ OutOfTime(e)
    BY <1>3, <2>4
  <2> HIDE DEF marked
  <2>6. row \in ExpireState /\ row.marked = marked
    BY <1>1, <1>3, <2>3 DEF ExpireState
  <2> HIDE DEF row
  <2>7. \A e \in Requests, s \in (Reviews \union Expirers) \ {x} :
          depositLock[e] = s => depositLock'[e] = s
    BY <1>1, <2>1, <2>4
  <2> QED
    BY <1>4, <1>5, <2>2, <2>4, <2>5, <2>6, <2>7
<1>8. Asleep \in ExpireState /\ Asleep.marked = {}
  BY DEF Asleep, ExpireState
<1>9. ASSUME depositLock' = Unlocked(depositLock, x)
      PROVE  /\ depositLock' \in [Requests -> Sessions \union {Free}]
             /\ \A e \in Requests, s \in (Reviews \union Expirers) \ {x} :
                  depositLock[e] = s => depositLock'[e] = s
  BY <1>1, <1>5, <1>9 DEF Unlocked
<1>10. CASE AbortExpire(x)
  <2>1. /\ deposit' = deposit /\ depositLock' = Unlocked(depositLock, x)
        /\ expire' = [expire EXCEPT ![x] = Asleep]
    BY <1>10 DEF AbortExpire
  <2>2. /\ depositLock' \in [Requests -> Sessions \union {Free}]
        /\ \A e \in Requests, s \in (Reviews \union Expirers) \ {x} :
             depositLock[e] = s => depositLock'[e] = s
    BY <1>9, <2>1
  <2> QED
    BY <1>4, <1>5, <1>8, <2>1, <2>2
<1>11. CASE CommitExpired(x)
  <2>1. /\ deposit' = [d \in Requests |->
             IF d \in expire[x].marked THEN [deposit[d] EXCEPT !.status = "expired"]
             ELSE deposit[d]]
        /\ depositLock' = Unlocked(depositLock, x)
        /\ expire' = [expire EXCEPT ![x] = Asleep]
    BY <1>11 DEF CommitExpired
  <2>2. ASSUME NEW d \in Requests
        PROVE  /\ deposit'[d] \in DepositRow
               /\ d \in expire[x].marked =>
                    deposit[d].status = "pending" /\ deposit'[d].status = "expired"
               /\ d \notin expire[x].marked => deposit'[d] = deposit[d]
    <3>1. deposit[d] \in DepositRow
      BY <1>5
    <3>2. CASE d \in expire[x].marked
      <4>1. deposit'[d] = [deposit[d] EXCEPT !.status = "expired"]
        BY <2>1, <3>2
      <4>2. deposit'[d] \in DepositRow /\ deposit'[d].status = "expired"
        BY <3>1, <4>1 DEF DepositRow, Statuses
      <4> QED
        BY <1>3, <3>2, <4>2 DEF OutOfTime
    <3>3. CASE d \notin expire[x].marked
      BY <2>1, <3>1, <3>3
    <3> QED
      BY <3>2, <3>3
  <2>3. deposit' \in [Requests -> DepositRow]
    BY <2>1, <2>2
  <2>4. /\ depositLock' \in [Requests -> Sessions \union {Free}]
        /\ \A e \in Requests, s \in (Reviews \union Expirers) \ {x} :
             depositLock[e] = s => depositLock'[e] = s /\ deposit'[e] = deposit[e]
    BY <1>3, <1>9, <2>1, <2>2
  <2>5. \A e \in Requests :
          /\ deposit'[e].status = "pending" => deposit[e].status = "pending"
          /\ deposit'[e].status = "none" <=> deposit[e].status = "none"
    BY <2>2
  <2> QED
    BY <1>4, <1>8, <2>1, <2>3, <2>4, <2>5
<1> QED
  BY <1>6, <1>7, <1>10, <1>11 DEF ExpireNext

\* No confirmation takes a user row, and it gives back only its own.
LEMMA AdministrationKeepsUsers ==
  ASSUME AccountsAssumption, AccountsTypeOK, AccountsNext,
         NEW u \in Users, NEW s \in Sessions \ Adjusts, userLock[u] = s
  PROVE  userLock'[u] = s
<1>1. ASSUME NEW a \in Adjusts, AdjustNext(a)
      PROVE  userLock'[u] = s
  <2>1. CASE AdjustLock(a)
    BY <2>1 DEF AdjustLock
  <2>2. CASE AdjustCommit(a) \/ AdjustRefused(a) \/ AdjustAbort(a)
    <3>1. Release(a) /\ a # s
      BY <2>2 DEF AdjustCommit, AdjustRefused, AdjustAbort
    <3> QED
      BY <3>1, ReleaseKeepsUsers
  <2> QED
    BY <1>1, <2>1, <2>2 DEF AdjustNext
<1>2. ASSUME NEW w \in Users, SetBlocked(w)
      PROVE  userLock'[u] = s
  BY <1>2 DEF SetBlocked
<1> QED
  BY <1>1, <1>2 DEF AccountsNext

\* Confirmations and blocking hold no row of this module.
LEMMA AdministrateKeeps ==
  ASSUME DepositsAssumption, AccountsAssumption, DepositsIInv, Administrate
  PROVE  DepositsIInv'
<1> USE DEF DepositsIInv
<1>1. /\ AccountsNext /\ AccountsTypeOK /\ TypeOK
      /\ UNCHANGED <<deposit, filed, depositLock, totalDeposits, proofs, request, receipt,
                     review, expire, restsOn>>
  BY DEF Administrate, depositVars, AccountsIInv
<1>2. AccountsIInv'
  BY <1>1, AccountsNextKeeps
<1>3. TypeOK'
  BY <1>1, <1>2 DEF TypeOK, AccountsIInv
<1>4. FilersAreAlone' /\ PendingAreOne'
  <2>1. \A u \in Users, q \in Requests : userLock[u] = q => userLock'[u] = q
    BY <1>1, AdministrationKeepsUsers, SessionsApart
  <2> QED
    BY <1>1, <2>1, FilersStay
<1>5. ReviewersHoldDeposits' /\ ReviewersHoldWallets'
  <2>1. \A u \in Users, v \in Reviews : walletLock'[u] = v <=> walletLock[u] = v
    BY <1>1, OthersKeepLocks, SessionsApart
  <2> QED
    BY <1>1, <2>1, ReviewersStay
<1>6. ExpirersHoldDeposits' /\ ReceiptsAreFiled'
  BY <1>1, ExpirersStay, ReceiptsStay
<1> QED
  BY <1>2, <1>3, <1>4, <1>5, <1>6

\* The invariant holds before anything is filed.
LEMMA DepositsInitially ==
  ASSUME DepositsAssumption, AccountsAssumption, Init
  PROVE  DepositsIInv
<1>1. AccountsIInv
  BY AccountsInitially DEF Init
<1>2. /\ \A d \in Requests : deposit[d].status = "none" /\ request[d] = "idle"
      /\ \A r \in Receipts : receipt[r].pc = "idle" /\ receipt[r].earlier = 0
      /\ \A v \in Reviews : review[v].pc = "idle"
      /\ \A x \in Expirers : expire[x].marked = {}
      /\ proofs = <<>> /\ \A u \in Users : walletLock[u] = Free
  BY DEF Init, AccountsInit, NewReceipt, NewReview, Asleep
<1>3. TypeOK
  <2>1. /\ NewReceipt \in ReceiptState /\ NewReview \in ReviewState /\ Asleep \in ExpireState
        /\ [status |-> "none", amount |-> 0, timeUp |-> FALSE, undone |-> 0] \in DepositRow
    BY DEF NewReceipt, ReceiptState, NewReview, ReviewState, Asleep, ExpireState,
           DepositRow, Statuses
  <2>2. filed \in Seq(Requests) /\ proofs \in Seq(Proof)
    BY DEF Init
  <2> QED
    BY <1>1, <2>1, <2>2 DEF Init, TypeOK, AccountsIInv
<1>4. FilersAreAlone /\ PendingAreOne
  BY <1>2 DEF FilersAreAlone, PendingAreOne
<1>5. ReviewersHoldDeposits /\ ReviewersHoldWallets /\ ExpirersHoldDeposits
  BY <1>2, SessionsApart DEF ReviewersHoldDeposits, ReviewersHoldWallets, ExpirersHoldDeposits
<1>6. ReceiptsAreFiled
  BY <1>2 DEF ReceiptsAreFiled, Handling
<1> QED
  BY <1>1, <1>3, <1>4, <1>5, <1>6 DEF DepositsIInv

\* A step that changes nothing keeps the invariant.
LEMMA DepositsStutter ==
  ASSUME DepositsAssumption, AccountsAssumption, DepositsIInv, UNCHANGED vars
  PROVE  DepositsIInv'
<1> USE DEF DepositsIInv
<1>1. /\ UNCHANGED <<accountVars, deposit, filed, depositLock, totalDeposits, proofs, request,
                     receipt, review, expire, restsOn>>
  BY DEF vars, depositVars
<1>2. AccountsIInv'
  BY <1>1, AccountsStutter
<1>3. TypeOK'
  BY <1>1, <1>2 DEF TypeOK, AccountsIInv
<1>4. FilersAreAlone' /\ PendingAreOne'
  BY <1>1, FilersStay DEF accountVars
<1>5. ReviewersHoldDeposits' /\ ReviewersHoldWallets'
  BY <1>1, ReviewersStay DEF accountVars
<1>6. ExpirersHoldDeposits' /\ ReceiptsAreFiled'
  BY <1>1, ExpirersStay, ReceiptsStay
<1> QED
  BY <1>2, <1>3, <1>4, <1>5, <1>6

\* Every step keeps the invariant.
LEMMA DepositsInductive ==
  ASSUME DepositsAssumption, AccountsAssumption, DepositsIInv, [Next]_vars
  PROVE  DepositsIInv'
<1>1. CASE UNCHANGED vars
  BY <1>1, DepositsStutter
<1>2. ASSUME NEW q \in Requests, RequestNext(q)
      PROVE  DepositsIInv'
  BY <1>2, RequestKeeps
<1>3. ASSUME NEW d \in Requests, TimeUp(d)
      PROVE  DepositsIInv'
  BY <1>3, TimeUpKeeps
<1>4. ASSUME NEW r \in Receipts, ReceiptNext(r)
      PROVE  DepositsIInv'
  BY <1>4, ReceiptKeeps
<1>5. ASSUME NEW v \in Reviews, ReviewNext(v)
      PROVE  DepositsIInv'
  BY <1>5, ReviewKeeps
<1>6. ASSUME NEW x \in Expirers, ExpireNext(x)
      PROVE  DepositsIInv'
  BY <1>6, ExpireKeeps
<1>7. CASE Administrate
  BY <1>7, AdministrateKeeps
<1> QED
  BY <1>1, <1>2, <1>3, <1>4, <1>5, <1>6, <1>7 DEF Next

-----------------------------------------------------------------------------
(* What a step may write.                                                  *)

\* How a row may change: it is filed, runs out of time, is decided by a review
\* while it may be, or is expired by a receipt that read it as out of time.
Changes(d) ==
  \/ deposit'[d] = deposit[d]
  \/ /\ deposit[d].status = "none" /\ deposit'[d].status = "pending"
     /\ deposit'[d].undone = 0
  \/ /\ deposit[d].status = "pending" /\ deposit'[d].status \in Reviewable
     /\ deposit'[d].undone = deposit[d].undone
  \/ /\ deposit[d].status \in Reviewable /\ deposit'[d].status = "rejected"
     /\ deposit'[d].undone = deposit[d].undone
  \/ /\ deposit[d].status \in Reviewable /\ deposit'[d].status = "approved"
     /\ deposit'[d].undone = deposit[d].undone
     /\ \E v \in Reviews : Approve(v) /\ d = Reviewed[v]
  \/ /\ deposit'[d].status = "expired" /\ deposit'[d].undone = Approvals(d)
     /\ \E r \in Receipts : receipt[r].pc = "expire" /\ receipt[r].deposit = d

\* How a deposit may change in one step, whoever takes it.
LEMMA DepositChanges ==
  ASSUME DepositsAssumption, AccountsAssumption, DepositsIInv, [Next]_vars,
         NEW d \in Requests
  PROVE  Changes(d)
<1> USE DEF DepositsIInv
<1>1. /\ TypeOK /\ deposit \in [Requests -> DepositRow]
      /\ \A v \in Reviews : Reviewed[v] \in Requests
  BY SessionsApart DEF TypeOK
<1>2. ASSUME NEW q \in Requests, RequestNext(q)
      PROVE  Changes(d)
  <2>1. CASE FileRequest(q)
    <3>1. PICK amount \in Amounts :
            deposit' = [deposit EXCEPT ![q] =
              [status |-> "pending", amount |-> amount, timeUp |-> FALSE, undone |-> 0]]
      BY <2>1 DEF FileRequest
    <3>2. deposit[q].status = "none"
      BY <2>1 DEF FileRequest, FilersAreAlone
    <3> QED
      BY <1>1, <3>1, <3>2 DEF Changes
  <2>2. CASE OpenRequest(q) \/ CheckRequest(q) \/ DropRequest(q)
    BY <2>2 DEF OpenRequest, CheckRequest, DropRequest, Changes
  <2> QED
    BY <1>2, <2>1, <2>2 DEF RequestNext
<1>3. ASSUME NEW e \in Requests, TimeUp(e)
      PROVE  Changes(d)
  <2>1. /\ deposit[e] \in DepositRow /\ deposit[e].status = "pending"
        /\ deposit' = [deposit EXCEPT ![e] = [deposit[e] EXCEPT !.timeUp = TRUE]]
    BY <1>1, <1>3 DEF TimeUp
  <2> QED
    BY <1>1, <2>1 DEF Changes, DepositRow, Reviewable
<1>4. ASSUME NEW r \in Receipts, ReceiptNext(r)
      PROVE  Changes(d)
  <2>1. CASE ExpireStale(r)
    <3> DEFINE e == receipt[r].deposit
    <3>1. /\ receipt[r].pc = "expire" /\ e \in Requests
          /\ deposit'[e].status = "expired" /\ deposit'[e].undone = Approvals(e)
          /\ \A f \in Requests : f # e => deposit'[f] = deposit[f]
      BY <1>1, <2>1, StaleIsExpired
    <3> QED
      BY <3>1 DEF Changes
  <2>2. CASE SendReceipt(r) \/ LookUpPhoto(r) \/ InsertProof(r) \/ AbortReceipt(r)
    BY <2>2 DEF SendReceipt, LookUpPhoto, InsertProof, AbortReceipt, Changes
  <2> QED
    BY <1>4, <2>1, <2>2 DEF ReceiptNext
<1>5. ASSUME NEW v \in Reviews, ReviewNext(v)
      PROVE  Changes(d)
  <2>1. CASE Approve(v)
    <3>1. /\ deposit' = [deposit EXCEPT ![Reviewed[v]] =
                           [deposit[Reviewed[v]] EXCEPT !.status = "approved"]]
          /\ deposit[Reviewed[v]].status \in Reviewable
      BY <1>1, <2>1 DEF Approve, SetStatus, ReviewersHoldDeposits
    <3>2. /\ deposit'[Reviewed[v]].status = "approved"
          /\ deposit'[Reviewed[v]].undone = deposit[Reviewed[v]].undone
          /\ \A f \in Requests : f # Reviewed[v] => deposit'[f] = deposit[f]
      BY <1>1, <3>1, StatusIsSet DEF Statuses
    <3> QED
      BY <2>1, <3>1, <3>2 DEF Changes
  <2>2. CASE Reject(v)
    <3>1. /\ deposit' = [deposit EXCEPT ![Reviewed[v]] =
                           [deposit[Reviewed[v]] EXCEPT !.status = "rejected"]]
          /\ deposit[Reviewed[v]].status \in Reviewable
      BY <2>2 DEF Reject, SetStatus
    <3>2. /\ deposit'[Reviewed[v]].status = "rejected"
          /\ deposit'[Reviewed[v]].undone = deposit[Reviewed[v]].undone
          /\ \A f \in Requests : f # Reviewed[v] => deposit'[f] = deposit[f]
      BY <1>1, <3>1, StatusIsSet DEF Statuses
    <3> QED
      BY <3>1, <3>2 DEF Changes
  <2>3. CASE OpenApproval(v) \/ RefuseApproval(v) \/ LockCredit(v) \/ AbortReview(v)
    BY <2>3 DEF OpenApproval, RefuseApproval, LockCredit, AbortReview, Changes
  <2> QED
    BY <1>5, <2>1, <2>2, <2>3 DEF ReviewNext
<1>6. ASSUME NEW x \in Expirers, ExpireNext(x)
      PROVE  Changes(d)
  <2>1. CASE CommitExpired(x)
    <3>1. deposit'[d] = IF d \in expire[x].marked
                        THEN [deposit[d] EXCEPT !.status = "expired"] ELSE deposit[d]
      BY <2>1 DEF CommitExpired
    <3>2. deposit[d] \in DepositRow
      BY <1>1
    <3>3. CASE d \in expire[x].marked
      <4>1. deposit[d].status = "pending"
        BY <3>3 DEF ExpirersHoldDeposits, OutOfTime
      <4> QED
        BY <3>1, <3>2, <3>3, <4>1 DEF Changes, DepositRow, Reviewable
    <3>4. CASE d \notin expire[x].marked
      BY <3>1, <3>4 DEF Changes
    <3> QED
      BY <3>3, <3>4
  <2>2. CASE SnapshotExpired(x) \/ LockExpired(x) \/ AbortExpire(x)
    BY <2>2 DEF SnapshotExpired, LockExpired, AbortExpire, Changes
  <2> QED
    BY <1>6, <2>1, <2>2 DEF ExpireNext
<1>7. CASE Administrate \/ UNCHANGED vars
  BY <1>7 DEF Administrate, vars, depositVars, Changes
<1> QED
  BY <1>2, <1>3, <1>4, <1>5, <1>6, <1>7 DEF Next

\* A ledger row that is no deposit credits nothing.
LEMMA AdjustmentsCreditNothing ==
  ASSUME DepositsAssumption, AccountsAssumption, AccountsTypeOK, AccountsNext,
         NEW d \in Requests
  PROVE  CreditsOf(d)' = CreditsOf(d)
<1> DEFINE u == Depositor[d]
<1>1. u \in Users
  BY SessionsApart
<1>2. CASE ledger'[u] = ledger[u]
  BY <1>2 DEF CreditsOf
<1>3. ASSUME NEW a \in Adjusts, AdjustCommit(a)
      PROVE  CreditsOf(d)' = CreditsOf(d)
  <2> DEFINE e == [type |-> AdjustType(a), amount |-> Delta[a], before |-> seen[a],
                   after |-> seen[a] + Delta[a], ref |-> NoRef]
  <2>1. ledger' = [ledger EXCEPT ![AdjustUser[a]] = Append(ledger[AdjustUser[a]], e)]
    BY <1>3 DEF AdjustCommit, ChangeBalance
  <2>2. ledger[u] \in Seq(Entry) /\ e.type # "deposit"
    BY <1>1 DEF AccountsTypeOK, AdjustType
  <2>3. CASE AdjustUser[a] # u
    BY <1>1, <1>2, <2>1, <2>3 DEF AccountsTypeOK
  <2>4. CASE AdjustUser[a] = u
    <3>1. ledger'[u] = Append(ledger[u], e)
      BY <1>1, <2>1, <2>4 DEF AccountsTypeOK
    <3> HIDE DEF e, u
    <3>2. /\ Len(ledger'[u]) = Len(ledger[u]) + 1 /\ Len(ledger[u]) \in Nat
          /\ ledger'[u][Len(ledger[u]) + 1] = e
          /\ \A i \in 1..Len(ledger[u]) : ledger'[u][i] = ledger[u][i]
      BY <2>2, <3>1
    <3> DEFINE n == Len(ledger[u])
    <3>3. \A i \in 1..(n + 1) : i \in 1..n \/ i = n + 1
      BY <3>2
    <3>4. \A i \in 1..n : i \in 1..(n + 1)
      BY <3>2
    <3>5. ~(ledger'[u][n + 1].type = "deposit")
      BY <2>2, <3>2
    <3>6. {i \in 1..(n + 1) : ledger'[u][i].type = "deposit" /\ ledger'[u][i].ref = d}
          = {i \in 1..n : ledger[u][i].type = "deposit" /\ ledger[u][i].ref = d}
      <4> HIDE DEF n
      <4> QED
        BY <3>2, <3>3, <3>4, <3>5 DEF n
    <3> QED
      BY <3>2, <3>6 DEF CreditsOf, u
  <2> QED
    BY <2>3, <2>4
<1>4. (\E a \in Adjusts : AdjustCommit(a)) \/ ledger' = ledger
  BY DEF AccountsNext, AdjustNext, AdjustLock, AdjustRefused, AdjustAbort, SetBlocked
<1> QED
  BY <1>2, <1>3, <1>4

\* No step credits a deposit but an approval.
LEMMA OthersCreditNothing ==
  ASSUME DepositsAssumption, AccountsAssumption, TypeOK, [Next]_vars,
         NEW d \in Requests, \A v \in Reviews : ~Approve(v)
  PROVE  CreditsOf(d)' = CreditsOf(d)
<1>1. CASE ledger' = ledger
  BY <1>1 DEF CreditsOf
<1>2. ASSUME NEW q \in Requests, RequestNext(q)
      PROVE  ledger' = ledger
  BY <1>2 DEF RequestNext, OpenRequest, CheckRequest, FileRequest, DropRequest, accountVars
<1>3. ASSUME NEW e \in Requests, TimeUp(e)
      PROVE  ledger' = ledger
  BY <1>3 DEF TimeUp, accountVars
<1>4. ASSUME NEW r \in Receipts, ReceiptNext(r)
      PROVE  ledger' = ledger
  BY <1>4 DEF ReceiptNext, SendReceipt, ExpireStale, LookUpPhoto, InsertProof,
              AbortReceipt, accountVars
<1>5. ASSUME NEW v \in Reviews, ReviewNext(v)
      PROVE  ledger' = ledger
  BY <1>5 DEF ReviewNext, OpenApproval, RefuseApproval, LockCredit, Reject, AbortReview,
              accountVars
<1>6. ASSUME NEW x \in Expirers, ExpireNext(x)
      PROVE  ledger' = ledger
  BY <1>6 DEF ExpireNext, SnapshotExpired, LockExpired, CommitExpired, AbortExpire,
              accountVars
<1>7. CASE Administrate
  BY <1>7, AdjustmentsCreditNothing DEF Administrate, TypeOK
<1>8. CASE UNCHANGED vars
  BY <1>1, <1>8 DEF vars, accountVars
<1> QED
  BY <1>1, <1>2, <1>3, <1>4, <1>5, <1>6, <1>7, <1>8 DEF Next

\* An approval adds one ledger row, for its deposit and of its amount.
LEMMA ApprovalCreditsOnce ==
  ASSUME DepositsAssumption, AccountsAssumption, DepositsIInv,
         NEW v \in Reviews, Approve(v), NEW d \in Requests
  PROVE  /\ CreditsOf(d)' \ CreditsOf(d) # {} <=> d = Reviewed[v]
         /\ \A i \in CreditsOf(d)' \ CreditsOf(d) :
              ledger'[Depositor[d]][i].amount = deposit[d].amount
         /\ IF d = Reviewed[v] THEN \E i : CreditsOf(d)' = CreditsOf(d) \union {i}
            ELSE CreditsOf(d)' = CreditsOf(d)
<1> DEFINE c == Reviewed[v]
           u == Depositor[c]
           e == [type |-> "deposit", amount |-> deposit[c].amount, before |-> seen[v],
                 after |-> seen[v] + deposit[c].amount, ref |-> c]
<1>1. /\ c \in Requests /\ u \in Users /\ Depositor[d] \in Users
      /\ ledger \in [Users -> Seq(Entry)] /\ ledger[u] \in Seq(Entry)
  BY SessionsApart DEF DepositsIInv, AccountsIInv, AccountsTypeOK
<1>2. ledger' = [ledger EXCEPT ![u] = Append(ledger[u], e)]
  BY DEF Approve, ChangeBalance
<1>3. e.type = "deposit" /\ e.ref = c /\ e.amount = deposit[c].amount
  OBVIOUS
<1>4. CASE Depositor[d] # u
  <2>1. ledger'[Depositor[d]] = ledger[Depositor[d]] /\ d # c
    BY <1>1, <1>2, <1>4
  <2> QED
    BY <2>1 DEF CreditsOf
<1>5. CASE Depositor[d] = u
  <2> DEFINE n == Len(ledger[u])
             now == {i \in 1..n : ledger[u][i].type = "deposit" /\ ledger[u][i].ref = d}
             next == {i \in 1..Len(ledger'[u]) :
                        ledger'[u][i].type = "deposit" /\ ledger'[u][i].ref = d}
  <2>1. ledger'[u] = Append(ledger[u], e)
    BY <1>1, <1>2
  <2>2. CreditsOf(d) = now /\ CreditsOf(d)' = next
    BY <1>5 DEF CreditsOf
  <2> HIDE DEF e, u, c
  <2>3. /\ Len(ledger'[u]) = n + 1 /\ n \in Nat /\ ledger'[u][n + 1] = e
        /\ \A i \in 1..n : ledger'[u][i] = ledger[u][i]
    BY <1>1, <2>1
  <2> HIDE DEF n
  <2>4. next = IF d = c THEN now \union {n + 1} ELSE now
    <3>1. next = {i \in 1..(n + 1) :
                    ledger'[u][i].type = "deposit" /\ ledger'[u][i].ref = d}
      BY <2>3
    <3>2. \A i \in 1..(n + 1) : i \in 1..n \/ i = n + 1
      BY <2>3
    <3>3. n + 1 \in 1..(n + 1) /\ \A i \in 1..n : i \in 1..(n + 1)
      BY <2>3
    <3>4. now = {i \in 1..n : ledger'[u][i].type = "deposit" /\ ledger'[u][i].ref = d}
      BY <2>3 DEF n
    <3> HIDE DEF next, now
    <3> QED
      BY <1>3, <2>3, <3>1, <3>2, <3>3, <3>4
  <2>5. n + 1 \notin now
    BY <2>3 DEF n
  <2> HIDE DEF next, now
  <2>6. /\ next \ now # {} <=> d = c
        /\ \A i \in next \ now : d = c /\ ledger'[u][i].amount = deposit[c].amount
        /\ IF d = c THEN \E i : next = now \union {i} ELSE next = now
    BY <1>3, <2>3, <2>4, <2>5
  <2> QED
    BY <1>5, <2>2, <2>6 DEF c
<1> QED
  BY <1>4, <1>5 DEF c

-----------------------------------------------------------------------------
(* Credits and approvals.                                                  *)

\* Credits follow approvals, and a blind expiry counts the one it overwrites.
LEMMA CreditsFollow ==
  ASSUME DepositsAssumption, AccountsAssumption, DepositsIInv, CreditsIInv, [Next]_vars
  PROVE  CreditsIInv'
<1>1. \A d \in Requests : Changes(d)
  BY DepositChanges
<1>2. UnfiledAreNew'
  BY <1>1 DEF Changes, Reviewable, UnfiledAreNew, CreditsIInv
<1>3. ASSUME NEW d \in Requests
      PROVE  Cardinality(CreditsOf(d)') = Approvals(d)'
  <2>1. /\ Cardinality(CreditsOf(d)) = Approvals(d) /\ IsFiniteSet(CreditsOf(d))
        /\ deposit[d].undone \in Nat
    <3>1. Depositor[d] \in Users
      BY SessionsApart
    <3>2. Len(ledger[Depositor[d]]) \in Nat
      BY <3>1 DEF DepositsIInv, AccountsIInv, AccountsTypeOK
    <3>3. IsFiniteSet(1..Len(ledger[Depositor[d]]))
      BY <3>2, FS_Interval
    <3>4. CreditsOf(d) \subseteq 1..Len(ledger[Depositor[d]])
      BY DEF CreditsOf
    <3> QED
      BY <3>3, <3>4, FS_Subset DEF CreditsIInv, CreditsAreApprovals, DepositsIInv, TypeOK, DepositRow
  <2>2. ASSUME NEW v \in Reviews, Approve(v)
        PROVE  /\ deposit[Reviewed[v]].status \in Reviewable
               /\ deposit'[Reviewed[v]].status = "approved"
               /\ deposit'[Reviewed[v]].undone = deposit[Reviewed[v]].undone
               /\ \A e \in Requests : e # Reviewed[v] => deposit'[e] = deposit[e]
    <3>1. /\ TypeOK /\ Reviewed[v] \in Requests /\ deposit[Reviewed[v]].status \in Reviewable
          /\ deposit' = [deposit EXCEPT ![Reviewed[v]] =
                           [deposit[Reviewed[v]] EXCEPT !.status = "approved"]]
      BY <2>2, SessionsApart DEF Approve, SetStatus, DepositsIInv, ReviewersHoldDeposits
    <3> QED
      BY <3>1, StatusIsSet DEF Statuses
  <2>3. CASE \E v \in Reviews : Approve(v) /\ d = Reviewed[v]
    <3>1. PICK v \in Reviews : Approve(v) /\ d = Reviewed[v]
      BY <2>3
    <3>2. CreditsOf(d)' \ CreditsOf(d) # {} /\ \E i : CreditsOf(d)' = CreditsOf(d) \union {i}
      BY <3>1, ApprovalCreditsOnce
    <3>3. PICK i : CreditsOf(d)' = CreditsOf(d) \union {i} /\ i \notin CreditsOf(d)
      BY <3>2
    <3>4. Cardinality(CreditsOf(d)') = Cardinality(CreditsOf(d)) + 1
      BY <2>1, <3>3, FS_AddElement
    <3>5. Approvals(d) = deposit[d].undone /\ Approvals(d)' = deposit[d].undone + 1
      BY <2>1, <2>2, <3>1 DEF Approvals, Reviewable
    <3> QED
      BY <2>1, <3>4, <3>5
  <2>4. CASE ~\E v \in Reviews : Approve(v) /\ d = Reviewed[v]
    <3>1. CreditsOf(d)' = CreditsOf(d)
      <4>1. CASE \E v \in Reviews : Approve(v)
        BY <2>4, <4>1, ApprovalCreditsOnce
      <4>2. CASE \A v \in Reviews : ~Approve(v)
        BY <4>2, OthersCreditNothing DEF DepositsIInv
      <4> QED
        BY <4>1, <4>2
    <3>2. Approvals(d)' = Approvals(d)
      BY <1>1, <2>1, <2>4 DEF Changes, Reviewable, Approvals, CreditsIInv, UnfiledAreNew
    <3> QED
      BY <2>1, <3>1, <3>2
  <2> QED
    BY <2>3, <2>4
<1> QED
  BY <1>2, <1>3 DEF CreditsIInv, CreditsAreApprovals

\* At the start nothing is credited and nothing approved.
LEMMA CreditsInitially ==
  ASSUME DepositsAssumption, AccountsAssumption, Init
  PROVE  CreditsIInv
<1>1. UnfiledAreNew
  BY DEF Init, UnfiledAreNew
<1>2. ASSUME NEW d \in Requests
      PROVE  Cardinality(CreditsOf(d)) = Approvals(d)
  <2>1. Depositor[d] \in Users
    BY SessionsApart
  <2>2. ledger[Depositor[d]] = <<>>
    BY <2>1 DEF Init, AccountsInit
  <2>3. Len(ledger[Depositor[d]]) = 0
    BY <2>2
  <2>4. CreditsOf(d) = {}
    BY <2>3 DEF CreditsOf
  <2>5. Approvals(d) = 0
    BY DEF Init, Approvals
  <2> QED
    BY <2>4, <2>5, FS_EmptySet
<1> QED
  BY <1>1, <1>2 DEF CreditsIInv, CreditsAreApprovals

-----------------------------------------------------------------------------
(* Photos and the approvals that rest on them.                             *)

\* A new proof changes nothing of the others but the flag of the one it names.
LEMMA ProofsGrow ==
  ASSUME TypeOK, ReceiptsAreFiled, NEW r \in Receipts, InsertProof(r)
  PROVE  LET n == Len(proofs)
             earlier == receipt[r].earlier IN
         /\ Len(proofs') = n + 1 /\ n \in Nat /\ earlier \in 0..n
         /\ proofs'[n + 1].file = File[r] /\ (earlier # 0 => proofs'[n + 1].flagged)
         /\ earlier = 0 /\ (\E i \in 1..n : proofs[i].file = File[r]) => proofs'[n + 1].unseen
         /\ \A i \in 1..n :
              /\ proofs'[i].deposit = proofs[i].deposit /\ proofs'[i].file = proofs[i].file
              /\ proofs'[i].unseen = proofs[i].unseen
              /\ proofs[i].flagged \/ i = earlier => proofs'[i].flagged
<1> DEFINE n == Len(proofs)
           earlier == receipt[r].earlier
           flaggedSoFar == IF earlier = 0 THEN proofs
                           ELSE [proofs EXCEPT ![earlier] = [proofs[earlier] EXCEPT !.flagged = TRUE]]
           new == NewProof(r)
<1>1. proofs \in Seq(Proof) /\ n \in Nat /\ earlier \in 0..n
  BY DEF TypeOK, ReceiptsAreFiled
<1>2. \A i \in 1..n : proofs[i] \in Proof
  BY <1>1
<1>3. proofs' = Append(flaggedSoFar, new)
  BY DEF InsertProof
<1>4. /\ flaggedSoFar \in Seq(Proof) /\ Len(flaggedSoFar) = n
      /\ \A i \in 1..n :
           /\ flaggedSoFar[i].deposit = proofs[i].deposit
           /\ flaggedSoFar[i].file = proofs[i].file
           /\ flaggedSoFar[i].unseen = proofs[i].unseen
           /\ proofs[i].flagged \/ i = earlier => flaggedSoFar[i].flagged
  <2>1. CASE earlier = 0
    BY <1>1, <2>1
  <2>2. CASE earlier # 0
    <3> DEFINE flagged == [proofs[earlier] EXCEPT !.flagged = TRUE]
    <3>1. earlier \in 1..n
      BY <1>1, <2>2
    <3>2. /\ flagged \in Proof /\ flagged.flagged
          /\ flagged.deposit = proofs[earlier].deposit /\ flagged.file = proofs[earlier].file
          /\ flagged.unseen = proofs[earlier].unseen
      BY <1>2, <3>1 DEF Proof
    <3> HIDE DEF flagged
    <3>3. flaggedSoFar = [proofs EXCEPT ![earlier] = flagged]
      BY <2>2 DEF flagged
    <3> HIDE DEF flaggedSoFar, earlier
    <3>4. flaggedSoFar \in Seq(Proof) /\ Len(flaggedSoFar) = n
      BY <1>1, <3>1, <3>2, <3>3
    <3>5. flaggedSoFar[earlier] = flagged
          /\ \A i \in 1..n : i # earlier => flaggedSoFar[i] = proofs[i]
      BY <1>1, <3>1, <3>3
    <3> QED
      BY <3>2, <3>4, <3>5
  <2> QED
    BY <2>1, <2>2
<1>6. /\ new.file = File[r] /\ (earlier # 0 => new.flagged)
      /\ earlier = 0 /\ (\E i \in 1..n : proofs[i].file = File[r]) => new.unseen
  BY DEF NewProof
<1> HIDE DEF flaggedSoFar, new, earlier, n
<1>5. /\ Len(proofs') = n + 1 /\ proofs'[n + 1] = new
      /\ \A i \in 1..n : proofs'[i] = flaggedSoFar[i]
  BY <1>1, <1>3, <1>4
<1> QED
  BY <1>1, <1>4, <1>5, <1>6 DEF earlier, n

\* Two equal photos are both flagged, unless one of them was not seen.
LEMMA PhotosStayFlagged ==
  ASSUME TypeOK, ReceiptsAreFiled, EarlierIsSame, SamePhotosAreFlagged,
         NEW r \in Receipts, InsertProof(r)
  PROVE  /\ SamePhotosAreFlagged'
         /\ \A file : Unseen(file) => Unseen(file)'
<1> DEFINE n == Len(proofs)
           earlier == receipt[r].earlier
<1>1. /\ Len(proofs') = n + 1 /\ n \in Nat /\ earlier \in 0..n
      /\ proofs'[n + 1].file = File[r] /\ (earlier # 0 => proofs'[n + 1].flagged)
      /\ earlier = 0 /\ (\E i \in 1..n : proofs[i].file = File[r]) => proofs'[n + 1].unseen
      /\ \A i \in 1..n :
           /\ proofs'[i].file = proofs[i].file /\ proofs'[i].unseen = proofs[i].unseen
           /\ proofs[i].flagged \/ i = earlier => proofs'[i].flagged
  BY ProofsGrow
<1>2. earlier # 0 => proofs[earlier].file = File[r]
  BY DEF InsertProof, EarlierIsSame
<1>3. \A i, j \in 1..n : i # j /\ proofs[i].file = proofs[j].file =>
        proofs[i].flagged \/ Unseen(proofs[i].file)
  BY DEF SamePhotosAreFlagged
<1>4. /\ \A file : Unseen(file) => Unseen(file)'
      /\ \A file :
           file = File[r] /\ earlier = 0 /\ (\E i \in 1..n : proofs[i].file = file) => Unseen(file)'
  <2>1. \A i \in 1..n : i \in 1..Len(proofs')
    BY <1>1
  <2>2. n + 1 \in 1..Len(proofs')
    BY <1>1
  <2> QED
    BY <1>1, <2>1, <2>2 DEF Unseen
<1> HIDE DEF n, earlier
<1>5. SUFFICES ASSUME NEW i \in 1..(n + 1), NEW j \in 1..(n + 1), i # j,
                      NEW file, proofs'[i].file = file, proofs'[j].file = file
               PROVE  proofs'[i].flagged \/ Unseen(file)'
  BY <1>1, <1>4 DEF SamePhotosAreFlagged, Unseen
<1>6. CASE i \in 1..n /\ j \in 1..n
  BY <1>1, <1>3, <1>4, <1>5, <1>6
<1>7. CASE i = n + 1
  <2>1. j \in 1..n /\ file = File[r] /\ proofs[j].file = file
    BY <1>1, <1>5, <1>7
  <2> QED
    BY <1>1, <1>4, <1>7, <2>1
<1>8. CASE i \in 1..n /\ j = n + 1
  <2>1. proofs[i].file = file /\ file = File[r]
    BY <1>1, <1>5, <1>8
  <2>2. CASE earlier = 0
    BY <1>4, <1>8, <2>1, <2>2
  <2>3. CASE earlier # 0
    <3>1. earlier \in 1..n /\ proofs[earlier].file = File[r]
      BY <1>1, <1>2, <2>3
    <3> QED
      BY <1>1, <1>3, <1>4, <1>8, <2>1, <3>1
  <2> QED
    BY <2>2, <2>3
<1> QED
  BY <1>1, <1>6, <1>7, <1>8

\* Proofs that stay what they were still prove what they proved.
LEMMA ClaimsStay ==
  ASSUME ClaimsAreProved, ClaimsAreApart,
         \A d \in Requests, file \in Files : Claims(d, file)' => Claims(d, file),
         \A file : Unseen(file) => Unseen(file)',
         \A d \in Requests : \A i \in ProofsOf(d) :
           i \in ProofsOf(d)' /\ proofs'[i].file = proofs[i].file
  PROVE  ClaimsAreProved' /\ ClaimsAreApart'
BY DEF ClaimsAreProved, ClaimsAreApart

\* A receipt finds a proof of its own photo, and flags it with its own.
LEMMA ReceiptApart ==
  ASSUME DepositsAssumption, AccountsAssumption, DepositsIInv, ApartIInv,
         NEW r \in Receipts, ReceiptNext(r)
  PROVE  ApartIInv'
<1> USE DEF DepositsIInv, ApartIInv
<1>1. /\ TypeOK /\ receipt[r] \in ReceiptState /\ receipt \in [Receipts -> ReceiptState]
      /\ UNCHANGED <<ledger, review, restsOn>> /\ Len(proofs) \in Nat
  BY DEF ReceiptNext, SendReceipt, ExpireStale, LookUpPhoto, InsertProof, AbortReceipt,
         TypeOK, accountVars
<1>2. \A p \in Receipts \ {r} : receipt'[p] = receipt[p]
  BY <1>1 DEF ReceiptNext, SendReceipt, ExpireStale, LookUpPhoto, InsertProof, AbortReceipt,
              EndReceipt
<1>3. \A p \in Receipts : receipt[p].earlier \in 0..Len(proofs)
  BY DEF ReceiptsAreFiled
<1>4. \A i \in 1..Len(proofs) :
        /\ i \in 1..Len(proofs') /\ proofs'[i].deposit = proofs[i].deposit
        /\ proofs'[i].file = proofs[i].file
  <2>1. CASE InsertProof(r)
    BY <1>1, <2>1, ProofsGrow
  <2>2. CASE UNCHANGED proofs
    BY <2>2
  <2> QED
    BY <2>1, <2>2 DEF ReceiptNext, SendReceipt, ExpireStale, LookUpPhoto, AbortReceipt
<1>5. EarlierIsSame'
  <2>1. SUFFICES receipt'[r].pc = "insert" /\ receipt'[r].earlier # 0 =>
                   proofs'[receipt'[r].earlier].file = File[r]
    <3>1. \A p \in Receipts \ {r} : receipt[p].earlier # 0 =>
            receipt[p].earlier \in 1..Len(proofs)
      BY <1>1, <1>3
    <3>2. ASSUME NEW p \in Receipts \ {r}, receipt'[p].pc = "insert", receipt'[p].earlier # 0
          PROVE  proofs'[receipt'[p].earlier].file = File[p]
      <4>1. receipt'[p] = receipt[p] /\ receipt[p].earlier \in 1..Len(proofs)
        BY <1>2, <3>1, <3>2
      <4>2. proofs[receipt[p].earlier].file = File[p]
        BY <3>2, <4>1 DEF EarlierIsSame
      <4> QED
        BY <1>4, <4>1, <4>2
    <3> QED
      BY <2>1, <3>2 DEF EarlierIsSame
  <2>2. CASE receipt'[r].pc # "insert"
    BY <2>2
  <2>3. CASE SendReceipt(r)
    <3> DEFINE d == Newest(Depositor[r])
               pc == IF deposit[d].status = "pending" /\ deposit[d].timeUp
                     THEN "expire" ELSE "lookup"
    <3>1. CASE blocked[Depositor[r]] \/ d = NoRef
      BY <1>1, <2>2, <2>3, <3>1 DEF SendReceipt, EndReceipt, NewReceipt
    <3>2. CASE ~(blocked[Depositor[r]] \/ d = NoRef)
      <4>1. receipt' = [receipt EXCEPT ![r] = [receipt[r] EXCEPT !.deposit = d, !.pc = pc]]
        BY <2>3, <3>2 DEF SendReceipt
      <4>2. receipt'[r].pc = pc /\ pc # "insert"
        <5>1. pc # "insert"
          OBVIOUS
        <5> HIDE DEF d, pc
        <5> QED
          BY <1>1, <4>1, <5>1 DEF ReceiptState
      <4> QED
        BY <2>2, <4>2
    <3> QED
      BY <3>1, <3>2
  <2>4. CASE LookUpPhoto(r)
    <3> DEFINE same == {i \in 1..Len(proofs) : proofs[i].file = File[r]}
               first == IF same = {} THEN 0 ELSE CHOOSE i \in same : \A j \in same : i <= j
    <3>1. /\ receipt' = [receipt EXCEPT ![r] = [receipt[r] EXCEPT !.pc = "insert", !.earlier = first]]
          /\ proofs' = proofs
      BY <2>4 DEF LookUpPhoto
    <3>2. receipt'[r].earlier = first
      <4> HIDE DEF first
      <4> QED
        BY <1>1, <3>1 DEF ReceiptState
    <3>3. CASE same = {}
      BY <3>2, <3>3
    <3>4. CASE same # {}
      <4>1. \E i \in same : \A j \in same : i <= j
        <5>1. same \in SUBSET (1..Len(proofs))
          OBVIOUS
        <5> HIDE DEF same
        <5> QED
          BY <1>1, <3>4, <5>1, EndsOfRange
      <4>2. first \in same
        <5> HIDE DEF same
        <5> QED
          BY <3>4, <4>1
      <4>3. proofs[first].file = File[r]
        <5> HIDE DEF first
        <5> QED
          BY <4>2
      <4> HIDE DEF first
      <4> QED
        BY <3>1, <3>2, <4>3
    <3> QED
      BY <3>3, <3>4
  <2>5. CASE ExpireStale(r)
    BY <1>1, <2>2, <2>5 DEF ExpireStale, ReceiptState
  <2>6. CASE InsertProof(r) \/ AbortReceipt(r)
    BY <1>1, <2>2, <2>6 DEF InsertProof, AbortReceipt, EndReceipt, NewReceipt
  <2> QED
    BY <2>3, <2>4, <2>5, <2>6 DEF ReceiptNext
<1>6. SamePhotosAreFlagged' /\ \A file : Unseen(file) => Unseen(file)'
  <2>1. CASE InsertProof(r)
    BY <1>1, <2>1, PhotosStayFlagged
  <2>2. CASE UNCHANGED proofs
    BY <2>2 DEF SamePhotosAreFlagged, Unseen
  <2> QED
    BY <2>1, <2>2 DEF ReceiptNext, SendReceipt, ExpireStale, LookUpPhoto, AbortReceipt
<1>7. ClaimsAreProved' /\ ClaimsAreApart'
  <2>1. \A d \in Requests, file \in Files : Claims(d, file)' => Claims(d, file)
    BY <1>1 DEF Claims
  <2>2. \A d \in Requests : \A i \in ProofsOf(d) :
          i \in ProofsOf(d)' /\ proofs'[i].file = proofs[i].file
    BY <1>4 DEF ProofsOf
  <2> QED
    BY <1>6, <2>1, <2>2, ClaimsStay
<1> QED
  BY <1>5, <1>6, <1>7

\* An approval rests on a photo that no other approval rests on, or that was not
\* seen: the receipt of the other deposit would have been flagged.
LEMMA OpenApprovalApart ==
  ASSUME DepositsIInv, SamePhotosAreFlagged, ClaimsAreProved, ClaimsAreApart,
         NEW v \in Reviews, Reviewed[v] \in Requests, OpenApproval(v)
  PROVE  ClaimsAreProved' /\ ClaimsAreApart'
<1> DEFINE d == Reviewed[v]
           photo == NewestFile(d)
<1>1. /\ UNCHANGED <<proofs, restsOn>> /\ proofs \in Seq(Proof)
      /\ ProofsOf(d) # {} /\ ~Duplicate(d)
      /\ review' = [review EXCEPT ![v] = [pc |-> "wallet", file |-> photo]]
      /\ review \in [Reviews -> ReviewState]
  BY DEF OpenApproval, Approvable, DepositsIInv, TypeOK
<1>2. PICK mine \in ProofsOf(d) : proofs[mine].file = photo
  BY <1>1, NewestFileIsSent
<1>3. ASSUME NEW e \in Requests, NEW file \in Files, Claims(e, file)'
      PROVE  Claims(e, file) \/ (e = d /\ file = photo)
  <2> HIDE DEF photo
  <2>1. CASE restsOn'[e] = file /\ file # NoRef
    BY <1>1, <2>1 DEF Claims
  <2>2. ASSUME NEW w \in Reviews, review'[w].pc \in {"wallet", "credit"},
               Reviewed[w] = e, review'[w].file = file
        PROVE  Claims(e, file) \/ (e = d /\ file = photo)
    <3>1. CASE w = v
      BY <1>1, <2>2, <3>1
    <3>2. CASE w # v
      BY <1>1, <2>2, <3>2 DEF Claims
    <3> QED
      BY <3>1, <3>2
  <2> QED
    BY <1>3, <2>1, <2>2 DEF Claims
<1>4. ASSUME NEW e \in Requests, photo \in Files, Claims(e, photo)
      PROVE  e = d \/ Unseen(photo)
  <2>1. PICK theirs \in ProofsOf(e) : proofs[theirs].file = photo
    BY <1>4 DEF ClaimsAreProved
  <2>2. /\ mine \in 1..Len(proofs) /\ proofs[mine].deposit = d
        /\ theirs \in 1..Len(proofs) /\ proofs[theirs].deposit = e
    BY DEF ProofsOf
  <2>3. mine # theirs => proofs[theirs].flagged \/ Unseen(photo)
    BY <1>2, <2>1, <2>2 DEF SamePhotosAreFlagged
  <2> QED
    BY <1>1, <2>1, <2>2, <2>3 DEF Duplicate
<1>5. \A e \in Requests : ProofsOf(e)' = ProofsOf(e)
  BY <1>1 DEF ProofsOf
<1>6. ClaimsAreProved'
  <2> SUFFICES ASSUME NEW e \in Requests, NEW file \in Files, Claims(e, file)'
               PROVE  \E i \in ProofsOf(e)' : proofs'[i].file = file
    BY DEF ClaimsAreProved
  <2> HIDE DEF photo, d
  <2> QED
    BY <1>1, <1>2, <1>3, <1>5 DEF ClaimsAreProved
<1>7. ClaimsAreApart'
  <2> SUFFICES ASSUME NEW e \in Requests, NEW f \in Requests, NEW file \in Files,
                      Claims(e, file)', Claims(f, file)'
               PROVE  e = f \/ Unseen(file)'
    BY DEF ClaimsAreApart
  <2>1. /\ Claims(e, file) \/ (e = d /\ file = photo)
        /\ Claims(f, file) \/ (f = d /\ file = photo)
    BY <1>3
  <2>2. Unseen(file)' <=> Unseen(file)
    BY <1>1 DEF Unseen
  <2> HIDE DEF photo, d
  <2> QED
    BY <1>4, <2>1, <2>2 DEF ClaimsAreApart
<1> QED
  BY <1>6, <1>7

\* A step of a review.
LEMMA ReviewApart ==
  ASSUME DepositsAssumption, AccountsAssumption, DepositsIInv, SamePhotosAreFlagged,
         ClaimsAreProved, ClaimsAreApart, NEW v \in Reviews, ReviewNext(v)
  PROVE  ClaimsAreProved' /\ ClaimsAreApart'
<1>1. /\ proofs' = proofs /\ review \in [Reviews -> ReviewState] /\ Reviewed[v] \in Requests
      /\ restsOn \in [Requests -> Files \union {NoRef}]
  BY SessionsApart DEF ReviewNext, OpenApproval, RefuseApproval, LockCredit, Approve, Reject, AbortReview,
                       DepositsIInv, TypeOK
<1>2. ASSUME \A d \in Requests, file \in Files : Claims(d, file)' => Claims(d, file)
      PROVE  ClaimsAreProved' /\ ClaimsAreApart'
  <2>1. \A d \in Requests : \A i \in ProofsOf(d) :
          i \in ProofsOf(d)' /\ proofs'[i].file = proofs[i].file
    BY <1>1 DEF ProofsOf
  <2>2. \A file : Unseen(file) => Unseen(file)'
    BY <1>1 DEF Unseen
  <2> QED
    BY <1>2, <2>1, <2>2, ClaimsStay
<1>3. ASSUME restsOn' = restsOn,
             \A w \in Reviews : review'[w].pc \in {"wallet", "credit"} =>
               review[w].pc \in {"wallet", "credit"} /\ review'[w].file = review[w].file
      PROVE  \A d \in Requests, file \in Files : Claims(d, file)' => Claims(d, file)
  BY <1>3 DEF Claims
<1>4. CASE OpenApproval(v)
  BY <1>1, <1>4, OpenApprovalApart
<1>5. CASE LockCredit(v)
  <2>1. /\ restsOn' = restsOn /\ review[v].pc = "wallet"
        /\ review' = [review EXCEPT ![v].pc = "credit"]
    BY <1>5 DEF LockCredit
  <2>2. \A w \in Reviews : review'[w].file = review[w].file /\ (w # v => review'[w] = review[w])
    BY <1>1, <2>1 DEF ReviewState
  <2> QED
    BY <1>2, <1>3, <2>1, <2>2
<1>6. CASE Approve(v)
  <2>1. /\ review[v].pc = "credit"
        /\ restsOn' = [restsOn EXCEPT ![Reviewed[v]] = review[v].file]
        /\ review' = [review EXCEPT ![v] = [NewReview EXCEPT !.pc = "done"]]
    BY <1>6 DEF Approve, EndReview
  <2>2. /\ \A w \in Reviews : review'[w].pc \in {"wallet", "credit"} => review'[w] = review[w]
        /\ \A d \in Requests : restsOn'[d] = restsOn[d]
                               \/ (d = Reviewed[v] /\ restsOn'[d] = review[v].file)
    BY <1>1, <2>1 DEF NewReview
  <2>3. \A d \in Requests, file \in Files : Claims(d, file)' => Claims(d, file)
    BY <2>1, <2>2 DEF Claims
  <2> QED
    BY <1>2, <2>3
<1>7. CASE RefuseApproval(v) \/ Reject(v) \/ AbortReview(v)
  <2>1. /\ restsOn' = restsOn
        /\ review' = [review EXCEPT ![v] = [NewReview EXCEPT !.pc = "done"]]
    BY <1>7 DEF RefuseApproval, Reject, AbortReview, EndReview
  <2>2. \A w \in Reviews : review'[w].pc \in {"wallet", "credit"} => review'[w] = review[w]
    BY <1>1, <2>1 DEF NewReview
  <2> QED
    BY <1>2, <1>3, <2>1, <2>2
<1> QED
  BY <1>4, <1>5, <1>6, <1>7 DEF ReviewNext

\* A step of nobody's receipt.
LEMMA OthersApart ==
  ASSUME DepositsAssumption, AccountsAssumption, DepositsIInv, ApartIInv,
         UNCHANGED <<receipt, proofs>>,
         \/ \E v \in Reviews : ReviewNext(v)
         \/ UNCHANGED <<review, restsOn>>
  PROVE  ApartIInv'
<1> USE DEF ApartIInv
<1>1. EarlierIsSame'
  BY DEF EarlierIsSame
<1>2. SamePhotosAreFlagged' /\ \A file : Unseen(file) => Unseen(file)'
  BY DEF SamePhotosAreFlagged, Unseen
<1>3. CASE UNCHANGED <<review, restsOn>>
  <2>1. \A d \in Requests, file \in Files : Claims(d, file)' => Claims(d, file)
    BY <1>3 DEF Claims
  <2>2. \A d \in Requests : \A i \in ProofsOf(d) :
          i \in ProofsOf(d)' /\ proofs'[i].file = proofs[i].file
    BY DEF ProofsOf
  <2> QED
    BY <1>1, <1>2, <2>1, <2>2, ClaimsStay
<1> QED
  BY <1>1, <1>2, <1>3, ReviewApart

\* The invariant about photos is inductive on top of the first.
LEMMA ApartInductive ==
  ASSUME DepositsAssumption, AccountsAssumption, DepositsIInv, ApartIInv, [Next]_vars
  PROVE  ApartIInv'
<1>1. ASSUME NEW q \in Requests, RequestNext(q)
      PROVE  UNCHANGED <<receipt, proofs, review, restsOn>>
  BY <1>1 DEF RequestNext, OpenRequest, CheckRequest, FileRequest, DropRequest
<1>2. ASSUME NEW d \in Requests, TimeUp(d)
      PROVE  UNCHANGED <<receipt, proofs, review, restsOn>>
  BY <1>2 DEF TimeUp
<1>3. ASSUME NEW v \in Reviews, ReviewNext(v)
      PROVE  UNCHANGED <<receipt, proofs>>
  BY <1>3 DEF ReviewNext, OpenApproval, RefuseApproval, LockCredit, Approve, Reject, AbortReview
<1>4. ASSUME NEW x \in Expirers, ExpireNext(x)
      PROVE  UNCHANGED <<receipt, proofs, review, restsOn>>
  BY <1>4 DEF ExpireNext, SnapshotExpired, LockExpired, CommitExpired, AbortExpire
<1>5. CASE Administrate \/ UNCHANGED vars
  <2>1. UNCHANGED <<receipt, proofs, review, restsOn>>
    BY <1>5 DEF Administrate, vars, depositVars
  <2> QED
    BY <2>1, OthersApart
<1>6. CASE \E r \in Receipts : ReceiptNext(r)
  BY <1>6, ReceiptApart
<1> QED
  BY <1>1, <1>2, <1>3, <1>4, <1>5, <1>6, OthersApart DEF Next

\* Nothing is filed, read or claimed at the start.
LEMMA ApartInitially ==
  ASSUME DepositsAssumption, AccountsAssumption, Init
  PROVE  ApartIInv
<1>1. EarlierIsSame /\ SamePhotosAreFlagged
  BY DEF Init, EarlierIsSame, SamePhotosAreFlagged, NewReceipt
<1>2. \A d \in Requests, file \in Files : ~Claims(d, file)
  BY DEF Init, Claims, NewReview
<1> QED
  BY <1>1, <1>2 DEF ApartIInv, ClaimsAreProved, ClaimsAreApart

-----------------------------------------------------------------------------
(* Deposits next to another component: what a step here leaves to its      *)
(* sessions and pays, and what one of its steps leaves to the sessions     *)
(* here.                                                                   *)

\* No step takes or gives back a lock of a session that is not of this module.
\* Receipts and expiry workers lock no row of the accounts.
LEMMA DepositsKeepLocks ==
  ASSUME DepositsAssumption, AccountsAssumption, DepositsIInv, Next,
         NEW S, Free \notin S, S \intersect (Requests \union Reviews \union Adjusts) = {}
  PROVE  KeepsLocks(S)
<1>1. AccountsTypeOK
  BY DEF DepositsIInv, AccountsIInv
<1>2. ASSUME NEW q \in Requests, RequestNext(q)
      PROVE  KeepsLocks(S)
  <2>1. q \notin S /\ Depositor[q] \in Users
    BY SessionsApart
  <2>2. CASE OpenRequest(q)
    BY <1>1, <2>1, <2>2, LockUserKeepsLocks DEF OpenRequest
  <2>3. CASE CheckRequest(q)
    BY <2>3, StutterKeepsLocks DEF CheckRequest, accountVars
  <2>4. CASE FileRequest(q) \/ DropRequest(q)
    BY <1>1, <2>1, <2>4, ReleaseKeepsLocks DEF FileRequest, DropRequest
  <2> QED
    BY <1>2, <2>2, <2>3, <2>4 DEF RequestNext
<1>3. ASSUME NEW v \in Reviews, ReviewNext(v)
      PROVE  KeepsLocks(S)
  <2>1. v \notin S /\ Depositor[Reviewed[v]] \in Users
    BY SessionsApart
  <2>2. CASE LockCredit(v)
    BY <1>1, <2>1, <2>2, LockWalletKeepsLocks DEF LockCredit
  <2>3. CASE Approve(v) \/ AbortReview(v)
    <3>1. Release(v) /\ UNCHANGED blocked
      BY <2>3 DEF Approve, AbortReview, ReleaseAll
    <3> QED
      BY <1>1, <2>1, <3>1, ReleaseKeepsLocks
  <2>4. CASE OpenApproval(v) \/ RefuseApproval(v) \/ Reject(v)
    BY <2>4, StutterKeepsLocks DEF OpenApproval, RefuseApproval, Reject, accountVars
  <2> QED
    BY <1>3, <2>2, <2>3, <2>4 DEF ReviewNext
<1>4. ASSUME NEW r \in Receipts, ReceiptNext(r)
      PROVE  KeepsLocks(S)
  BY <1>4, StutterKeepsLocks DEF ReceiptNext, SendReceipt, ExpireStale, LookUpPhoto,
     InsertProof, AbortReceipt, accountVars
<1>5. ASSUME NEW x \in Expirers, ExpireNext(x)
      PROVE  KeepsLocks(S)
  BY <1>5, StutterKeepsLocks DEF ExpireNext, SnapshotExpired, LockExpired, CommitExpired,
     AbortExpire, accountVars
<1>6. ASSUME NEW d \in Requests, TimeUp(d)
      PROVE  KeepsLocks(S)
  BY <1>6, StutterKeepsLocks DEF TimeUp, accountVars
<1>7. CASE Administrate
  BY <1>1, <1>7, AdministrationKeepsLocks DEF Administrate
<1> QED
  BY <1>2, <1>3, <1>4, <1>5, <1>6, <1>7 DEF Next

\* An approval pays the depositor what it adds to total_deposits; no other step
\* but an administrator's moves money.
LEMMA DepositsPay ==
  ASSUME DepositsAssumption, AccountsAssumption, DepositsIInv, Next
  PROVE  \/ UNCHANGED <<balance, ledger, totalDeposits>>
         \/ \E u \in Users, amount \in Nat :
              /\ Pays(u, "deposit", amount)
              /\ totalDeposits' = [totalDeposits EXCEPT ![u] = totalDeposits[u] + amount]
         \/ AccountsNext /\ UNCHANGED totalDeposits
<1>1. ASSUME NEW v \in Reviews, Approve(v)
      PROVE  \E u \in Users, amount \in Nat :
               /\ Pays(u, "deposit", amount)
               /\ totalDeposits' = [totalDeposits EXCEPT ![u] = totalDeposits[u] + amount]
  <2> DEFINE d == Reviewed[v]
             amount == deposit[d].amount
  <2>1. /\ v \in Sessions /\ d \in Requests /\ Depositor[d] \in Users
        /\ d \in Refs \union {NoRef}
    BY SessionsApart DEF DepositsAssumption
  <2>2. amount \in Nat /\ amount \in Int /\ AccountsIInv
    BY <2>1 DEF DepositsIInv, TypeOK, DepositRow
  <2>3. walletLock[Depositor[d]] = v
    BY <1>1, <2>1 DEF Approve, DepositsIInv, ReviewersHoldWallets
  <2>4. Pays(Depositor[d], "deposit", amount)
    <3>1. ChangeBalance(v, Depositor[d], "deposit", amount, d) /\ "deposit" \in EntryTypes
      BY <1>1 DEF Approve, EntryTypes
    <3> QED
      BY <2>1, <2>2, <2>3, <3>1, ChangeBalancePays
  <2>5. totalDeposits' =
          [totalDeposits EXCEPT ![Depositor[d]] = totalDeposits[Depositor[d]] + amount]
    BY <1>1 DEF Approve
  <2> HIDE DEF d, amount
  <2> QED
    BY <2>1, <2>2, <2>4, <2>5
<1>2. ASSUME NEW q \in Requests, RequestNext(q)
      PROVE  UNCHANGED <<balance, ledger, totalDeposits>>
  BY <1>2 DEF RequestNext, OpenRequest, CheckRequest, FileRequest, DropRequest, accountVars
<1>3. ASSUME NEW r \in Receipts, ReceiptNext(r)
      PROVE  UNCHANGED <<balance, ledger, totalDeposits>>
  BY <1>3 DEF ReceiptNext, SendReceipt, ExpireStale, LookUpPhoto, InsertProof, AbortReceipt,
     accountVars
<1>4. ASSUME NEW v \in Reviews, ReviewNext(v), ~Approve(v)
      PROVE  UNCHANGED <<balance, ledger, totalDeposits>>
  BY <1>4 DEF ReviewNext, OpenApproval, RefuseApproval, LockCredit, Reject, AbortReview,
     accountVars
<1>5. ASSUME NEW x \in Expirers, ExpireNext(x)
      PROVE  UNCHANGED <<balance, ledger, totalDeposits>>
  BY <1>5 DEF ExpireNext, SnapshotExpired, LockExpired, CommitExpired, AbortExpire, accountVars
<1>6. ASSUME NEW d \in Requests, TimeUp(d)
      PROVE  UNCHANGED <<balance, ledger, totalDeposits>>
  BY <1>6 DEF TimeUp, accountVars
<1>7. CASE Administrate
  BY <1>7 DEF Administrate, depositVars
<1> QED
  BY <1>1, <1>2, <1>3, <1>4, <1>5, <1>6, <1>7 DEF Next

\* A step elsewhere that keeps the books and the locks of the sessions here.
LEMMA OthersKeepDeposits ==
  ASSUME DepositsAssumption, AccountsAssumption, DepositsIInv, AccountsIInv',
         UNCHANGED depositVars, KeepsLocks(Requests \union Reviews)
  PROVE  DepositsIInv'
<1> USE DEF DepositsIInv
<1>1. UNCHANGED <<deposit, filed, depositLock, totalDeposits, proofs, request, receipt, review,
                  expire, restsOn>>
  BY DEF depositVars
<1>2. TypeOK'
  BY <1>1 DEF TypeOK, AccountsIInv
<1>3. FilersAreAlone' /\ PendingAreOne'
  <2>1. \A u \in Users, q \in Requests : userLock[u] = q => userLock'[u] = q
    BY DEF KeepsLocks
  <2> QED
    BY <1>1, <2>1, FilersStay
<1>4. ReviewersHoldDeposits' /\ ReviewersHoldWallets'
  <2>1. \A u \in Users, v \in Reviews : walletLock'[u] = v <=> walletLock[u] = v
    BY DEF KeepsLocks
  <2> QED
    BY <1>1, <2>1, ReviewersStay
<1>5. ExpirersHoldDeposits' /\ ReceiptsAreFiled'
  BY <1>1, ExpirersStay, ReceiptsStay
<1> QED
  BY <1>2, <1>3, <1>4, <1>5

-----------------------------------------------------------------------------
(* The theorems.                                                           *)

\* The invariant holds in every state.
LEMMA DepositsAlways == Spec => []DepositsIInv
<1>1. Init => DepositsIInv
  BY DepositsAssumption, AccountsAssumption, DepositsInitially
<1>2. DepositsIInv /\ [Next]_vars => DepositsIInv'
  BY DepositsInductive, DepositsAssumption, AccountsAssumption
<1> QED
  BY <1>1, <1>2, PTL DEF Spec

\* Every row, lock and local state of the deposit handlers keeps its type, for
\* any number of requests, receipts, reviews and workers.
THEOREM DepositsKeepTypes == Spec => []TypeOK
<1>1. DepositsIInv => TypeOK
  BY DEF DepositsIInv
<1> QED
  BY <1>1, DepositsAlways, PTL

\* The ledger explains every wallet whatever approvals and balance adjustments
\* interleave.
THEOREM DepositsKeepLedger == Spec => []LedgerChain
<1>1. DepositsIInv => LedgerChain
  BY DEF DepositsIInv, AccountsIInv
<1> QED
  BY <1>1, DepositsAlways, PTL

\* A user never has two pending payment requests, whatever taps race.
THEOREM DepositsOnePending == Spec => []OnePending
<1>1. ASSUME DepositsIInv, NEW u \in Users
      PROVE  Cardinality(PendingOf(u)) <= 1
  <2>1. \A d, e \in PendingOf(u) : d = e
    BY <1>1 DEF DepositsIInv, PendingAreOne, PendingOf
  <2>2. CASE PendingOf(u) = {}
    BY <2>2, FS_EmptySet
  <2>3. CASE PendingOf(u) # {}
    <3>1. PICK d \in PendingOf(u) : TRUE
      BY <2>3
    <3>2. PendingOf(u) = {d}
      BY <2>1, <3>1
    <3> QED
      BY <3>2, FS_Singleton
  <2> QED
    BY <2>2, <2>3
<1>2. DepositsIInv => OnePending
  BY <1>1 DEF OnePending
<1> QED
  BY <1>2, DepositsAlways, PTL

\* A decision on a deposit is only ever undone by the blind expiry of a receipt
\* that read the deposit before the decision.
THEOREM DecisionsStand == Spec => OnlyStaleReceiptReopens
<1>1. ASSUME DepositsIInv, [Next]_vars, NEW d \in Requests,
             deposit[d].status \in {"approved", "rejected"}, deposit'[d] # deposit[d]
      PROVE  /\ deposit'[d].status = "expired"
             /\ \E r \in Receipts : receipt[r].pc = "expire" /\ receipt[r].deposit = d
  BY <1>1, DepositChanges, DepositsAssumption, AccountsAssumption DEF Changes, Reviewable
<1>2. DepositsIInv /\ [Next]_vars =>
        [\A d \in Requests :
           deposit[d].status \in {"approved", "rejected"} /\ deposit'[d] # deposit[d] =>
             /\ deposit'[d].status = "expired"
             /\ \E r \in Receipts : receipt[r].pc = "expire" /\ receipt[r].deposit = d]_vars
  BY <1>1
<1> QED
  BY <1>2, DepositsAlways, PTL DEF Spec, OnlyStaleReceiptReopens

\* A deposit becomes approved in the step that credits its amount, and in no
\* other step is a deposit credited.
THEOREM ApprovalsCredit == Spec => ApprovalCredits
<1>1. ASSUME DepositsIInv, [Next]_vars, NEW d \in Requests
      PROVE  LET fresh == CreditsOf(d)' \ CreditsOf(d) IN
             /\ (fresh # {}) <=> (deposit[d].status # "approved" /\ deposit'[d].status = "approved")
             /\ \A i \in fresh : ledger'[Depositor[d]][i].amount = deposit[d].amount
  <2> USE DepositsAssumption, AccountsAssumption
  <2>1. ASSUME NEW v \in Reviews, Approve(v)
        PROVE  d = Reviewed[v] <=>
                 deposit[d].status # "approved" /\ deposit'[d].status = "approved"
    <3>1. /\ TypeOK /\ Reviewed[v] \in Requests
          /\ deposit' = [deposit EXCEPT ![Reviewed[v]] =
                           [deposit[Reviewed[v]] EXCEPT !.status = "approved"]]
          /\ deposit[Reviewed[v]].status \in Reviewable
      BY <1>1, <2>1, SessionsApart
      DEF Approve, SetStatus, DepositsIInv, ReviewersHoldDeposits
    <3>2. /\ deposit'[Reviewed[v]].status = "approved"
          /\ \A f \in Requests : f # Reviewed[v] => deposit'[f] = deposit[f]
      BY <3>1, StatusIsSet DEF Statuses
    <3> QED
      BY <3>1, <3>2 DEF Reviewable
  <2>2. CASE \E v \in Reviews : Approve(v)
    BY <1>1, <2>1, <2>2, ApprovalCreditsOnce
  <2>3. CASE \A v \in Reviews : ~Approve(v)
    <3>1. CreditsOf(d)' = CreditsOf(d)
      BY <1>1, <2>3, OthersCreditNothing DEF DepositsIInv
    <3>2. ~(deposit[d].status # "approved" /\ deposit'[d].status = "approved")
      BY <1>1, <2>3, DepositChanges DEF Changes, Reviewable
    <3> QED
      BY <3>1, <3>2
  <2> QED
    BY <2>2, <2>3
<1>2. DepositsIInv /\ [Next]_vars =>
        [\A d \in Requests :
           LET fresh == CreditsOf(d)' \ CreditsOf(d) IN
           /\ (fresh # {}) <=> (deposit[d].status # "approved" /\ deposit'[d].status = "approved")
           /\ \A i \in fresh : ledger'[Depositor[d]][i].amount = deposit[d].amount]_vars
  BY <1>1
<1> QED
  BY <1>2, DepositsAlways, PTL DEF Spec, ApprovalCredits

\* The wallet was credited for a deposit exactly as often as it was approved,
\* with the approvals that the blind expiry of a receipt has overwritten.
THEOREM DepositsCreditApprovals == Spec => []CreditsAreApprovals
<1>1. Init => CreditsIInv
  BY DepositsAssumption, AccountsAssumption, CreditsInitially
<1>2. DepositsIInv /\ CreditsIInv /\ [Next]_vars => CreditsIInv'
  BY DepositsAssumption, AccountsAssumption, CreditsFollow
<1>3. CreditsIInv => CreditsAreApprovals
  BY DEF CreditsIInv
<1> QED
  BY <1>1, <1>2, <1>3, DepositsAlways, PTL DEF Spec

\* Two approvals rest on the same photo only if one of its proofs was stored
\* between the lookup and the insert of another.
THEOREM PhotosSharedByRace == Spec => []SharedOnlyIfUnseen
<1>1. Init => ApartIInv
  BY DepositsAssumption, AccountsAssumption, ApartInitially
<1>2. DepositsIInv /\ ApartIInv /\ [Next]_vars => ApartIInv'
  BY DepositsAssumption, AccountsAssumption, ApartInductive
<1>3. DepositsIInv /\ ApartIInv => SharedOnlyIfUnseen
  <2> SUFFICES ASSUME DepositsIInv, ApartIInv, NEW d \in Requests, NEW e \in Requests,
                      d # e, restsOn[d] # NoRef, restsOn[d] = restsOn[e]
               PROVE  Unseen(restsOn[d])
    BY DEF SharedOnlyIfUnseen
  <2>1. restsOn[d] \in Files
    BY DEF DepositsIInv, TypeOK
  <2> QED
    BY <2>1 DEF ApartIInv, ClaimsAreApart, Claims
<1> QED
  BY <1>1, <1>2, <1>3, DepositsAlways, PTL DEF Spec
=============================================================================
