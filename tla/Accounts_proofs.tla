-------------------------- MODULE Accounts_proofs --------------------------
(***************************************************************************)
(* The ledger of every wallet explains its balance, for every set of       *)
(* users, every number of concurrent adjustments and every amount.         *)
(*                                                                         *)
(* LedgerChain is not inductive: a commit writes the balance computed from *)
(* the value the session captured, so the induction also needs that the    *)
(* captured value is still the stored one.  It is, because the session     *)
(* that reached its write holds the wallet's lock (WriterHoldsWallet), and *)
(* whoever holds it captured the balance when taking it (LockedIsSeen).    *)
(* The lemmas about Release, LockWallet and ChangeBalance do not depend on *)
(* who the sessions are; Orders_proofs uses them too.                      *)
(***************************************************************************)
EXTENDS Accounts, Functions, FiniteSetTheorems, WellFoundedInduction, TLAPS

-----------------------------------------------------------------------------
(* Facts about the operators of a transaction.                             *)

\* Appending a row that starts at the closing balance keeps the chain, and
\* moves the closing balance to the row's end (change_balance).
LEMMA ChainAppend ==
  ASSUME NEW opening \in Nat, NEW entries \in Seq(Entry), NEW e \in Entry,
         Chained(opening, entries),
         e.before = ClosingBalance(opening, entries),
         e.after = e.before + e.amount, e.after >= 0
  PROVE  /\ Chained(opening, Append(entries, e))
         /\ ClosingBalance(opening, Append(entries, e)) = e.after
<1> DEFINE longer == Append(entries, e)
<1>1. /\ longer \in Seq(Entry)
      /\ Len(longer) = Len(entries) + 1
      /\ longer[Len(longer)] = e
      /\ \A i \in 1..Len(entries) : longer[i] = entries[i]
  OBVIOUS
<1>2. ClosingBalance(opening, longer) = e.after
  BY <1>1 DEF ClosingBalance
<1>3. ASSUME NEW i \in 1..Len(longer)
      PROVE  /\ longer[i].before = IF i = 1 THEN opening ELSE longer[i - 1].after
             /\ longer[i].after = longer[i].before + longer[i].amount
             /\ longer[i].after >= 0
  <2>1. CASE i \in 1..Len(entries)
    <3>1. longer[i] = entries[i] /\ (i # 1 => longer[i - 1] = entries[i - 1])
      BY <1>1, <2>1
    <3> QED
      BY <2>1, <3>1 DEF Chained
  <2>2. CASE i = Len(entries) + 1
    <3>1. longer[i] = e /\ (i # 1 => longer[i - 1] = entries[Len(entries)])
      BY <1>1, <2>2
    <3>2. i = 1 <=> entries = <<>>
      BY <2>2
    <3>3. Len(entries) \in Nat
      OBVIOUS
    <3> QED
      BY <2>2, <3>1, <3>2, <3>3 DEF ClosingBalance
  <2> QED
    BY <1>1, <2>1, <2>2
<1> QED
  BY <1>2, <1>3 DEF Chained

\* A commit or rollback takes no lock and gives back all the session's own.
LEMMA ReleaseFrees ==
  ASSUME AccountsTypeOK, NEW s \in Sessions, Release(s)
  PROVE  /\ walletLock' \in [Users -> Sessions \union {Free}]
         /\ userLock' \in [Users -> Sessions \union {Free}]
         /\ seen' \in [Sessions -> Nat]
         /\ \A u \in Users : walletLock'[u] = IF walletLock[u] = s THEN Free ELSE walletLock[u]
         /\ \A t \in Sessions \ {s} : seen'[t] = seen[t]
  BY DEF AccountsTypeOK, Release, Unlocked

\* Taking a wallet's lock captures its balance; the other captures stay true.
LEMMA LockWalletSees ==
  ASSUME AccountsAssumption, AccountsTypeOK, LockedIsSeen,
         NEW s \in Sessions, NEW u \in Users,
         \A w \in Users : walletLock[w] # s,
         LockWallet(s, u), UNCHANGED balance
  PROVE  /\ walletLock' \in [Users -> Sessions \union {Free}]
         /\ seen' \in [Sessions -> Nat]
         /\ walletLock' = [walletLock EXCEPT ![u] = s]
         /\ LockedIsSeen'
<1>1. /\ walletLock' \in [Users -> Sessions \union {Free}]
      /\ seen' \in [Sessions -> Nat]
      /\ walletLock' = [walletLock EXCEPT ![u] = s]
      /\ seen' = [seen EXCEPT ![s] = balance[u]]
  BY DEF LockWallet, AccountsTypeOK
<1>2. ASSUME NEW w \in Users, walletLock'[w] # Free
      PROVE  seen'[walletLock'[w]] = balance'[w]
  <2>1. CASE w = u
    BY <1>1, <2>1 DEF AccountsTypeOK
  <2>2. CASE w # u
    <3>1. walletLock'[w] = walletLock[w] /\ walletLock[w] \in Sessions \ {s}
      BY <1>1, <1>2, <2>2 DEF AccountsTypeOK
    <3> QED
      BY <1>1, <1>2, <3>1 DEF AccountsTypeOK, LockedIsSeen
  <2> QED
    BY <2>1, <2>2
<1> QED
  BY <1>1, <1>2 DEF LockedIsSeen

\* A session that ends without writing leaves every capture true.
LEMMA RollbackKeepsSeen ==
  ASSUME AccountsAssumption, AccountsTypeOK, LockedIsSeen,
         NEW s \in Sessions, Release(s), UNCHANGED balance
  PROVE  LockedIsSeen'
<1> SUFFICES ASSUME NEW u \in Users, walletLock'[u] # Free
             PROVE  seen'[walletLock'[u]] = balance'[u]
  BY DEF LockedIsSeen
<1>1. walletLock'[u] = walletLock[u] /\ walletLock[u] \in Sessions \ {s}
  BY ReleaseFrees DEF AccountsTypeOK
<1>2. seen'[walletLock[u]] = seen[walletLock[u]]
  BY <1>1, ReleaseFrees
<1> QED
  BY <1>1, <1>2 DEF LockedIsSeen

\* A committed change_balance extends the ledger's chain and keeps every other
\* session's capture true, provided the session holds the wallet it writes.
LEMMA ChangeBalanceChains ==
  ASSUME AccountsAssumption, AccountsTypeOK, LedgerChain, LockedIsSeen,
         NEW s \in Sessions, NEW u \in Users, walletLock[u] = s,
         NEW type \in EntryTypes, NEW amount \in Int, NEW ref \in Refs \union {NoRef},
         ChangeBalance(s, u, type, amount, ref), Release(s)
  PROVE  /\ balance' \in [Users -> Nat]
         /\ ledger' \in [Users -> Seq(Entry)]
         /\ LedgerChain'
         /\ LockedIsSeen'
<1> DEFINE e == [type |-> type, amount |-> amount, before |-> seen[s],
                 after |-> seen[s] + amount, ref |-> ref]
<1>1. seen[s] = balance[u] /\ seen[s] \in Nat /\ seen[s] + amount \in Nat
  <2>1. s # Free
    BY DEF AccountsAssumption
  <2> QED
    BY <2>1 DEF LockedIsSeen, AccountsTypeOK, ChangeBalance
<1>2. e \in Entry
  BY <1>1 DEF Entry
<1>3. /\ balance' = [balance EXCEPT ![u] = seen[s] + amount]
      /\ ledger' = [ledger EXCEPT ![u] = Append(ledger[u], e)]
  BY DEF ChangeBalance
<1>4. balance' \in [Users -> Nat] /\ ledger' \in [Users -> Seq(Entry)]
  BY <1>1, <1>2, <1>3 DEF AccountsTypeOK
<1>5. LedgerChain'
  <2> SUFFICES ASSUME NEW w \in Users
               PROVE  /\ Chained(Opening[w], ledger'[w])
                      /\ balance'[w] = ClosingBalance(Opening[w], ledger'[w])
    BY DEF LedgerChain, Chained, ClosingBalance
  <2>1. CASE w = u
    <3>1. /\ Opening[u] \in Nat /\ ledger[u] \in Seq(Entry)
          /\ Chained(Opening[u], ledger[u])
          /\ e.before = ClosingBalance(Opening[u], ledger[u])
      BY <1>1 DEF AccountsAssumption, AccountsTypeOK, LedgerChain
    <3>2. e.after = e.before + e.amount /\ e.after >= 0 /\ e.after = seen[s] + amount
      BY <1>1
    <3>3. /\ Chained(Opening[u], Append(ledger[u], e))
          /\ ClosingBalance(Opening[u], Append(ledger[u], e)) = e.after
      BY <1>2, <3>1, <3>2, ChainAppend
    <3>4. ledger'[u] = Append(ledger[u], e) /\ balance'[u] = seen[s] + amount
      BY <1>3 DEF AccountsTypeOK
    <3> QED
      BY <2>1, <3>2, <3>3, <3>4
  <2>2. CASE w # u
    BY <1>3, <2>2 DEF AccountsTypeOK, LedgerChain
  <2> QED
    BY <2>1, <2>2
<1>6. LockedIsSeen'
  <2> SUFFICES ASSUME NEW w \in Users, walletLock'[w] # Free
               PROVE  seen'[walletLock'[w]] = balance'[w]
    BY DEF LockedIsSeen
  <2>1. walletLock'[w] = walletLock[w] /\ walletLock[w] \in Sessions \ {s}
    BY ReleaseFrees DEF AccountsTypeOK
  <2>2. w # u
    BY <2>1
  <2>3. balance'[w] = balance[w]
    BY <1>3, <2>2 DEF AccountsTypeOK
  <2>4. seen'[walletLock[w]] = seen[walletLock[w]]
    BY <2>1, ReleaseFrees
  <2> QED
    BY <2>1, <2>3, <2>4 DEF LockedIsSeen
<1> QED
  BY <1>4, <1>5, <1>6

-----------------------------------------------------------------------------
(* The steps of a session that is not a balance confirmation.              *)

\* What a session that is no confirmation holds is no confirmation's.
LEMMA StrangersKeepWriters ==
  ASSUME AccountsAssumption, AccountsTypeOK, WriterHoldsWallet,
         NEW s \in Sessions \ Adjusts, UNCHANGED adjust,
         \A u \in Users : \/ walletLock'[u] = walletLock[u]
                          \/ walletLock[u] \in {s, Free} /\ walletLock'[u] \in {s, Free}
  PROVE  WriterHoldsWallet'
<1> SUFFICES ASSUME NEW a \in Adjusts, NEW u \in Users
             PROVE  walletLock'[u] = a <=> walletLock[u] = a
  BY DEF WriterHoldsWallet
<1>1. a # s /\ a # Free
  BY DEF AccountsAssumption
<1> QED
  BY <1>1

\* A session that locks a wallet and writes nothing keeps the invariant.
LEMMA LockStep ==
  ASSUME AccountsAssumption, AccountsIInv,
         NEW s \in Sessions \ Adjusts, NEW u \in Users,
         \A w \in Users : walletLock[w] # s,
         LockWallet(s, u), UNCHANGED <<balance, ledger, blocked, userLock, adjust>>
  PROVE  /\ AccountsIInv'
         /\ walletLock' = [walletLock EXCEPT ![u] = s]
<1> USE DEF AccountsIInv
<1>1. /\ walletLock' \in [Users -> Sessions \union {Free}]
      /\ seen' \in [Sessions -> Nat]
      /\ walletLock' = [walletLock EXCEPT ![u] = s]
      /\ LockedIsSeen'
  BY LockWalletSees
<1>2. AccountsTypeOK'
  BY <1>1 DEF AccountsTypeOK
<1>3. LedgerChain'
  BY DEF LedgerChain
<1>4. WriterHoldsWallet'
  BY <1>1, StrangersKeepWriters DEF AccountsTypeOK, LockWallet
<1> QED
  BY <1>1, <1>2, <1>3, <1>4

\* A session that ends without writing keeps the invariant.
LEMMA RollbackStep ==
  ASSUME AccountsAssumption, AccountsIInv, NEW s \in Sessions \ Adjusts,
         Release(s), UNCHANGED <<balance, ledger, blocked, adjust>>
  PROVE  /\ AccountsIInv'
         /\ \A u \in Users : walletLock'[u] = IF walletLock[u] = s THEN Free ELSE walletLock[u]
<1> USE DEF AccountsIInv
<1>1. \A u \in Users : walletLock'[u] = IF walletLock[u] = s THEN Free ELSE walletLock[u]
  BY ReleaseFrees
<1>2. AccountsTypeOK'
  BY ReleaseFrees DEF AccountsTypeOK
<1>3. LedgerChain'
  BY DEF LedgerChain
<1>4. LockedIsSeen'
  BY RollbackKeepsSeen
<1>5. WriterHoldsWallet'
  BY <1>1, StrangersKeepWriters
<1> QED
  BY <1>1, <1>2, <1>3, <1>4, <1>5

\* A session that commits a change of the wallet it holds keeps the invariant.
LEMMA CommitStep ==
  ASSUME AccountsAssumption, AccountsIInv,
         NEW s \in Sessions \ Adjusts, NEW u \in Users, walletLock[u] = s,
         NEW type \in EntryTypes, NEW amount \in Int, NEW ref \in Refs \union {NoRef},
         ChangeBalance(s, u, type, amount, ref), Release(s),
         UNCHANGED <<blocked, adjust>>
  PROVE  /\ AccountsIInv'
         /\ \A w \in Users : walletLock'[w] = IF walletLock[w] = s THEN Free ELSE walletLock[w]
         /\ balance' = [balance EXCEPT ![u] = @ + amount]
         /\ balance[u] + amount >= 0
<1> USE DEF AccountsIInv
<1>1. \A w \in Users : walletLock'[w] = IF walletLock[w] = s THEN Free ELSE walletLock[w]
  BY ReleaseFrees
<1>2. /\ balance' \in [Users -> Nat]
      /\ ledger' \in [Users -> Seq(Entry)]
      /\ LedgerChain'
      /\ LockedIsSeen'
  BY ChangeBalanceChains
<1>3. AccountsTypeOK'
  BY <1>2, ReleaseFrees DEF AccountsTypeOK
<1>4. WriterHoldsWallet'
  BY <1>1, StrangersKeepWriters
<1>5. seen[s] = balance[u]
  BY DEF LockedIsSeen, AccountsAssumption
<1> QED
  BY <1>1, <1>2, <1>3, <1>4, <1>5 DEF ChangeBalance

\* A session that locks or frees a user row keeps the invariant.
LEMMA UserLockStep ==
  ASSUME AccountsIInv, userLock' \in [Users -> Sessions \union {Free}],
         UNCHANGED <<balance, ledger, blocked, walletLock, seen, adjust>>
  PROVE  AccountsIInv'
  BY DEF AccountsIInv, AccountsTypeOK, LedgerChain, LockedIsSeen, WriterHoldsWallet

-----------------------------------------------------------------------------
(* Adjustments and blocking, alone or next to other sessions.              *)

\* No adjustment and no blocking takes or frees another session's wallet lock.
LEMMA OthersKeepLocks ==
  ASSUME AccountsAssumption, AccountsTypeOK, AccountsNext,
         NEW s \in Sessions \ Adjusts, NEW u \in Users
  PROVE  walletLock'[u] = s <=> walletLock[u] = s
<1>1. ASSUME NEW a \in Adjusts, AdjustNext(a)
      PROVE  walletLock'[u] = s <=> walletLock[u] = s
  <2>1. a \in Sessions /\ s # a /\ s # Free
    BY DEF AccountsAssumption
  <2>2. CASE AdjustLock(a)
    BY <2>1, <2>2 DEF AdjustLock, LockWallet, AccountsTypeOK
  <2>3. CASE AdjustCommit(a) \/ AdjustRefused(a) \/ AdjustAbort(a)
    BY <2>1, <2>3, ReleaseFrees DEF AdjustCommit, AdjustRefused, AdjustAbort
  <2> QED
    BY <1>1, <2>2, <2>3 DEF AdjustNext
<1>2. ASSUME NEW v \in Users, SetBlocked(v)
      PROVE  walletLock'[u] = s <=> walletLock[u] = s
  BY <1>2 DEF SetBlocked
<1> QED
  BY <1>1, <1>2 DEF AccountsNext

\* The types survive every adjustment and every blocking.
LEMMA AccountsNextTypes ==
  ASSUME AccountsAssumption, AccountsIInv, AccountsNext
  PROVE  AccountsTypeOK'
<1> USE DEF AccountsIInv
<1>1. ASSUME NEW a \in Adjusts, AdjustNext(a)
      PROVE  AccountsTypeOK'
  <2>1. a \in Sessions /\ AdjustUser[a] \in Users
    BY DEF AccountsAssumption
  <2>2. CASE AdjustLock(a)
    BY <2>1, <2>2 DEF AdjustLock, LockWallet, AccountsTypeOK
  <2>3. CASE AdjustCommit(a)
    <3>1. /\ walletLock[AdjustUser[a]] = a
          /\ Delta[a] \in Int /\ AdjustType(a) \in EntryTypes
      BY <2>1, <2>3 DEF AdjustCommit, WriterHoldsWallet, AccountsAssumption,
                       AdjustType, EntryTypes
    <3>2. balance' \in [Users -> Nat] /\ ledger' \in [Users -> Seq(Entry)]
      BY <2>1, <2>3, <3>1, ChangeBalanceChains DEF AdjustCommit
    <3> QED
      BY <2>1, <2>3, <3>2, ReleaseFrees DEF AdjustCommit, AccountsTypeOK
  <2>4. CASE AdjustRefused(a) \/ AdjustAbort(a)
    BY <2>1, <2>4, ReleaseFrees DEF AdjustRefused, AdjustAbort, AccountsTypeOK
  <2> QED
    BY <1>1, <2>2, <2>3, <2>4 DEF AdjustNext
<1>2. ASSUME NEW u \in Users, SetBlocked(u)
      PROVE  AccountsTypeOK'
  BY <1>2 DEF SetBlocked, AccountsTypeOK
<1> QED
  BY <1>1, <1>2 DEF AccountsNext

\* Every adjustment and every blocking preserves the inductive invariant.
LEMMA AccountsNextKeeps ==
  ASSUME AccountsAssumption, AccountsIInv, AccountsNext
  PROVE  AccountsIInv'
<1> USE DEF AccountsIInv
<1>1. AccountsTypeOK'
  BY AccountsNextTypes
<1>2. ASSUME NEW a \in Adjusts, AdjustNext(a)
      PROVE  LedgerChain' /\ LockedIsSeen' /\ WriterHoldsWallet'
  <2>1. a \in Sessions /\ AdjustUser[a] \in Users /\ a # Free
    BY DEF AccountsAssumption
  <2>2. CASE AdjustLock(a)
    <3>1. \A w \in Users : walletLock[w] # a
      BY <2>2 DEF AdjustLock, WriterHoldsWallet
    <3>2. LockedIsSeen' /\ walletLock' = [walletLock EXCEPT ![AdjustUser[a]] = a]
      BY <2>1, <2>2, <3>1, LockWalletSees DEF AdjustLock
    <3>3. LedgerChain'
      BY <2>2 DEF AdjustLock, LedgerChain
    <3>4. walletLock[AdjustUser[a]] = Free /\ adjust' = [adjust EXCEPT ![a] = "write"]
      BY <2>2 DEF AdjustLock, LockWallet
    <3>5. WriterHoldsWallet'
      BY <2>1, <3>1, <3>2, <3>4 DEF WriterHoldsWallet, AccountsTypeOK, AccountsAssumption
    <3> QED
      BY <3>2, <3>3, <3>5
  <2>3. ASSUME Release(a), adjust' = [adjust EXCEPT ![a] = "done"]
        PROVE  WriterHoldsWallet'
    <3>1. \A u \in Users : walletLock'[u] = IF walletLock[u] = a THEN Free ELSE walletLock[u]
      BY <2>1, <2>3, ReleaseFrees
    <3>2. /\ adjust'[a] = "done" /\ \A c \in Adjusts \ {a} : adjust'[c] = adjust[c]
          /\ \A c \in Adjusts : c # Free
      BY <2>1, <2>3 DEF AccountsTypeOK, AccountsAssumption
    <3> QED
      BY <2>1, <3>1, <3>2 DEF WriterHoldsWallet
  <2>4. CASE AdjustCommit(a)
    <3>1. /\ walletLock[AdjustUser[a]] = a
          /\ Delta[a] \in Int /\ AdjustType(a) \in EntryTypes
      BY <2>1, <2>4 DEF AdjustCommit, WriterHoldsWallet, AccountsAssumption,
                       AdjustType, EntryTypes
    <3> QED
      BY <2>1, <2>3, <2>4, <3>1, ChangeBalanceChains DEF AdjustCommit
  <2>5. CASE AdjustRefused(a) \/ AdjustAbort(a)
    <3>1. LedgerChain'
      BY <2>5 DEF AdjustRefused, AdjustAbort, LedgerChain
    <3> QED
      BY <2>1, <2>3, <2>5, <3>1, RollbackKeepsSeen DEF AdjustRefused, AdjustAbort
  <2> QED
    BY <1>2, <2>2, <2>4, <2>5 DEF AdjustNext
<1>3. ASSUME NEW u \in Users, SetBlocked(u)
      PROVE  LedgerChain' /\ LockedIsSeen' /\ WriterHoldsWallet'
  BY <1>3 DEF SetBlocked, LedgerChain, LockedIsSeen, WriterHoldsWallet
<1> QED
  BY <1>1, <1>2, <1>3 DEF AccountsNext

\* The invariant holds of empty ledgers and unlocked rows.
LEMMA AccountsInitially ==
  ASSUME AccountsAssumption, AccountsInit
  PROVE  AccountsIInv
<1>1. AccountsTypeOK
  BY DEF AccountsAssumption, AccountsInit, AccountsTypeOK
<1>2. ASSUME NEW u \in Users
      PROVE  /\ Chained(Opening[u], ledger[u])
             /\ balance[u] = ClosingBalance(Opening[u], ledger[u])
  <2>1. ledger[u] = <<>> /\ Len(ledger[u]) = 0 /\ balance[u] = Opening[u]
    BY DEF AccountsInit
  <2>2. 1..Len(ledger[u]) = {}
    BY <2>1
  <2> QED
    BY <2>1, <2>2 DEF Chained, ClosingBalance
<1>3. LockedIsSeen /\ WriterHoldsWallet
  BY DEF AccountsAssumption, AccountsInit, LockedIsSeen, WriterHoldsWallet
<1> QED
  BY <1>1, <1>2, <1>3 DEF AccountsIInv, LedgerChain

\* A step that touches no account keeps the invariant.
LEMMA AccountsStutter ==
  ASSUME AccountsIInv, UNCHANGED accountVars
  PROVE  AccountsIInv'
  BY DEF accountVars, AccountsIInv, AccountsTypeOK, LedgerChain, LockedIsSeen,
         WriterHoldsWallet

\* The induction step of both theorems.
LEMMA AdjustmentsInductive ==
  AccountsIInv /\ [AccountsNext]_accountVars => AccountsIInv'
  BY AccountsAssumption, AccountsNextKeeps, AccountsStutter

\* The types hold whatever adjustments interleave.
THEOREM AdjustmentsKeepTypes == AccountsSpec => []AccountsTypeOK
<1>1. AccountsInit => AccountsIInv
  BY AccountsAssumption, AccountsInitially
<1>2. AccountsIInv /\ [AccountsNext]_accountVars => AccountsIInv'
  BY AdjustmentsInductive
<1>3. AccountsIInv => AccountsTypeOK
  BY DEF AccountsIInv
<1> QED
  BY <1>1, <1>2, <1>3, PTL DEF AccountsSpec

\* Whatever adjustments interleave, the ledger of every wallet is an unbroken
\* chain from its opening balance to the stored one, which is never negative.
THEOREM AdjustmentsKeepLedger == AccountsSpec => []LedgerChain
<1>1. AccountsInit => AccountsIInv
  BY AccountsAssumption, AccountsInitially
<1>2. AccountsIInv /\ [AccountsNext]_accountVars => AccountsIInv'
  BY AdjustmentsInductive
<1>3. AccountsIInv => LedgerChain
  BY DEF AccountsIInv
<1> QED
  BY <1>1, <1>2, <1>3, PTL DEF AccountsSpec

-----------------------------------------------------------------------------
(* What a step leaves to the sessions of another component, and what an    *)
(* administrator writes: for the modules that compose components.          *)

\* A step that neither takes nor gives back a lock of one of the sessions, and
\* blocks no user whose row one of them holds.
KeepsLocks(S) ==
  /\ \A u \in Users, s \in S : /\ walletLock'[u] = s <=> walletLock[u] = s
                               /\ userLock'[u] = s <=> userLock[u] = s
  /\ \A u \in Users : userLock[u] \in S => blocked'[u] = blocked[u]

\* A step of one session takes and gives back its own locks only.
LEMMA OwnLocksOnly ==
  ASSUME NEW S, Free \notin S, NEW s, s \notin S, UNCHANGED blocked,
         \A u \in Users : \/ walletLock'[u] = walletLock[u]
                          \/ walletLock[u] \in {s, Free} /\ walletLock'[u] \in {s, Free},
         \A u \in Users : \/ userLock'[u] = userLock[u]
                          \/ userLock[u] \in {s, Free} /\ userLock'[u] \in {s, Free}
  PROVE  KeepsLocks(S)
BY DEF KeepsLocks

\* The end of a transaction.
LEMMA ReleaseKeepsLocks ==
  ASSUME AccountsTypeOK, NEW S, Free \notin S, NEW s, s \notin S, UNCHANGED blocked, Release(s)
  PROVE  KeepsLocks(S)
<1>1. \A u \in Users :
        /\ walletLock'[u] = IF walletLock[u] = s THEN Free ELSE walletLock[u]
        /\ userLock'[u] = IF userLock[u] = s THEN Free ELSE userLock[u]
  BY DEF AccountsTypeOK, Release, Unlocked
<1> QED
  BY <1>1, OwnLocksOnly

\* The lock of a wallet.
LEMMA LockWalletKeepsLocks ==
  ASSUME AccountsTypeOK, NEW S, Free \notin S, NEW s, s \notin S, NEW u \in Users,
         UNCHANGED <<blocked, userLock>>, LockWallet(s, u)
  PROVE  KeepsLocks(S)
<1>1. \A w \in Users : \/ walletLock'[w] = walletLock[w]
                       \/ walletLock[w] = Free /\ walletLock'[w] = s
  BY DEF AccountsTypeOK, LockWallet
<1> QED
  BY <1>1, OwnLocksOnly

\* The lock of a user.
LEMMA LockUserKeepsLocks ==
  ASSUME AccountsTypeOK, NEW S, Free \notin S, NEW s, s \notin S, NEW u \in Users,
         UNCHANGED <<blocked, walletLock>>,
         userLock[u] = Free, userLock' = [userLock EXCEPT ![u] = s]
  PROVE  KeepsLocks(S)
<1>1. \A w \in Users : \/ userLock'[w] = userLock[w]
                       \/ userLock[w] = Free /\ userLock'[w] = s
  BY DEF AccountsTypeOK
<1> QED
  BY <1>1, OwnLocksOnly

\* A step that touches no row of this module.
LEMMA StutterKeepsLocks ==
  ASSUME NEW S, UNCHANGED <<blocked, walletLock, userLock>>
  PROVE  KeepsLocks(S)
BY DEF KeepsLocks

\* Confirmations and blocking, of which the second waits for the user's row.
LEMMA AdministrationKeepsLocks ==
  ASSUME AccountsAssumption, AccountsTypeOK, AccountsNext,
         NEW S, Free \notin S, S \intersect Adjusts = {}
  PROVE  KeepsLocks(S)
<1>1. ASSUME NEW a \in Adjusts, AdjustNext(a)
      PROVE  KeepsLocks(S)
  <2>1. a \notin S /\ AdjustUser[a] \in Users
    BY DEF AccountsAssumption
  <2>2. CASE AdjustLock(a)
    BY <2>1, <2>2, LockWalletKeepsLocks DEF AdjustLock
  <2>3. CASE AdjustCommit(a) \/ AdjustRefused(a) \/ AdjustAbort(a)
    BY <2>1, <2>3, ReleaseKeepsLocks DEF AdjustCommit, AdjustRefused, AdjustAbort
  <2> QED
    BY <1>1, <2>2, <2>3 DEF AdjustNext
<1>2. ASSUME NEW u \in Users, SetBlocked(u)
      PROVE  KeepsLocks(S)
  <2>1. \A w \in Users : userLock[w] # Free => blocked'[w] = blocked[w]
    BY <1>2 DEF SetBlocked, AccountsTypeOK
  <2> QED
    BY <1>2, <2>1 DEF SetBlocked, KeepsLocks
<1> QED
  BY <1>1, <1>2 DEF AccountsNext

\* The step changes the balance of one user by an amount and adds one row of a
\* type and of that amount to the user's ledger.
Pays(u, type, amount) ==
  /\ balance' = [balance EXCEPT ![u] = balance[u] + amount]
  /\ \E e : /\ e.type = type /\ e.amount = amount
            /\ ledger' = [ledger EXCEPT ![u] = Append(ledger[u], e)]

\* A committed change_balance of the session that holds the wallet.
LEMMA ChangeBalancePays ==
  ASSUME AccountsAssumption, AccountsIInv,
         NEW s \in Sessions, NEW u \in Users, walletLock[u] = s,
         NEW type \in EntryTypes, NEW amount \in Int, NEW ref \in Refs \union {NoRef},
         ChangeBalance(s, u, type, amount, ref)
  PROVE  Pays(u, type, amount)
<1>1. seen[s] = balance[u] /\ seen[s] \in Nat /\ seen[s] + amount \in Nat
  <2>1. s # Free
    BY DEF AccountsAssumption
  <2> QED
    BY <2>1 DEF AccountsIInv, LockedIsSeen, AccountsTypeOK, ChangeBalance
<1> DEFINE e == [type |-> type, amount |-> amount, before |-> seen[s],
                 after |-> seen[s] + amount, ref |-> ref]
<1>2. e.type = type /\ e.amount = amount
  OBVIOUS
<1>3. /\ balance' = [balance EXCEPT ![u] = balance[u] + amount]
      /\ ledger' = [ledger EXCEPT ![u] = Append(ledger[u], e)]
  BY <1>1 DEF ChangeBalance
<1> HIDE DEF e
<1> QED
  BY <1>2, <1>3 DEF Pays

\* An administrator adds to or deducts from one wallet, or moves no money.
LEMMA AdministrationPays ==
  ASSUME AccountsAssumption, AccountsIInv, AccountsNext
  PROVE  \/ UNCHANGED <<balance, ledger>>
         \/ \E u \in Users, type \in {"manual_add", "manual_deduct"}, amount \in Int :
              Pays(u, type, amount)
<1>1. ASSUME NEW a \in Adjusts, AdjustCommit(a)
      PROVE  \E u \in Users, type \in {"manual_add", "manual_deduct"}, amount \in Int :
               Pays(u, type, amount)
  <2>1. /\ a \in Sessions /\ AdjustUser[a] \in Users /\ Delta[a] \in Int
        /\ AdjustType(a) \in {"manual_add", "manual_deduct"}
        /\ AdjustType(a) \in EntryTypes
    BY DEF AccountsAssumption, AdjustType, EntryTypes
  <2>2. walletLock[AdjustUser[a]] = a
    BY <1>1, <2>1 DEF AdjustCommit, AccountsIInv, WriterHoldsWallet
  <2>3. Pays(AdjustUser[a], AdjustType(a), Delta[a])
    BY <1>1, <2>1, <2>2, ChangeBalancePays DEF AdjustCommit
  <2> QED
    BY <2>1, <2>3
<1>2. (\E a \in Adjusts : AdjustCommit(a)) \/ UNCHANGED <<balance, ledger>>
  BY DEF AccountsNext, AdjustNext, AdjustLock, AdjustRefused, AdjustAbort, SetBlocked
<1> QED
  BY <1>1, <1>2

-----------------------------------------------------------------------------
(* Sums over rows, for the modules whose totals are sums.  The community   *)
(* modules define a sum by recursion on the set; what follows is that the  *)
(* recursion is well defined, and that the order of the summands is free.  *)

\* Induction over the natural numbers for a set of them.
LEMMA AllNaturals ==
  ASSUME NEW A \in SUBSET Nat, 0 \in A, \A n \in A : n + 1 \in A
  PROVE  A = Nat
<1> DEFINE less == {ss \in Nat \X Nat : ss[1] < ss[2]}
<1>1. IsWellFoundedOn(less, Nat)
  BY NatLessThanWellFounded DEF OpToRel
<1>2. \A S \in SUBSET Nat : S # {} => \E x \in S : \A y \in S : ~(<<y, x>> \in less)
  <2> HIDE DEF less
  <2> QED
    BY <1>1, WFMin
<1>3. \A x, y \in Nat : ~(<<y, x>> \in less) => x <= y
  OBVIOUS
<1>4. SUFFICES ASSUME Nat \ A # {}
               PROVE  FALSE
  OBVIOUS
<1>5. PICK x \in Nat \ A : \A y \in Nat \ A : x <= y
  <2> HIDE DEF less
  <2> QED
    BY <1>2, <1>3, <1>4
<1>6. x # 0 /\ x - 1 \in Nat /\ ~(x <= x - 1) /\ (x - 1) + 1 = x
  BY <1>5
<1> QED
  BY <1>5, <1>6

\* The element a sum takes first, and what a table of partial sums satisfies.
Pick(T) == CHOOSE x \in T : TRUE
PartialSums(f, S, g) ==
  g = [T \in SUBSET S |-> IF T = {} THEN 0 ELSE f[Pick(T)] + g[T \ {Pick(T)}]]

\* A sum is the last entry of the table that its definition chooses.
LEMMA SumTable ==
  ASSUME NEW f, NEW S
  PROVE  SumFunctionOnSet(f, S) = (CHOOSE g : PartialSums(f, S, g))[S]
  BY Zenon DEF SumFunctionOnSet, FoldFunctionOnSet, MapThenFoldSet, PartialSums, Pick

\* Taking the first element leaves a smaller set.
LEMMA PickShrinks ==
  ASSUME NEW S, IsFiniteSet(S), NEW T \in SUBSET S, T # {}
  PROVE  /\ Pick(T) \in T /\ T \ {Pick(T)} \in SUBSET S
         /\ IsFiniteSet(T) /\ Cardinality(T) \in Nat
         /\ Cardinality(T \ {Pick(T)}) = Cardinality(T) - 1 /\ Cardinality(T) # 0
<1>1. Pick(T) \in T
  BY DEF Pick
<1>2. IsFiniteSet(T) /\ Cardinality(T) \in Nat
  BY FS_Subset, FS_CardinalityType
<1>3. Cardinality(T) # 0
  BY <1>2, FS_EmptySet
<1>4. Cardinality(T \ {Pick(T)}) = Cardinality(T) - 1
  BY <1>1, <1>2, FS_RemoveElement
<1> QED
  BY <1>1, <1>2, <1>3, <1>4

\* A finite set has such a table: the recursion is well defined.
LEMMA SumsExist ==
  ASSUME NEW f, NEW S, IsFiniteSet(S)
  PROVE  \E g : PartialSums(f, S, g)
<1> DEFINE Sum(g, T) == IF T = {} THEN 0 ELSE f[Pick(T)] + g[T \ {Pick(T)}]
           A == {n \in Nat : \E g : \A T \in SUBSET S :
                               Cardinality(T) <= n => g[T] = Sum(g, T)}
<1>1. 0 \in A
  <2> DEFINE g == [T \in SUBSET S |-> 0]
  <2>1. \A T \in SUBSET S : Cardinality(T) <= 0 => T = {}
    <3> SUFFICES ASSUME NEW T \in SUBSET S, T # {}
                 PROVE  ~(Cardinality(T) <= 0)
      OBVIOUS
    <3>1. Cardinality(T) \in Nat /\ Cardinality(T) # 0
      BY PickShrinks
    <3> QED
      BY <3>1
  <2>2. \A T \in SUBSET S : Cardinality(T) <= 0 => g[T] = Sum(g, T)
    BY <2>1
  <2> QED
    BY <2>2
<1>2. ASSUME NEW n \in A
      PROVE  n + 1 \in A
  <2>1. PICK g : \A T \in SUBSET S : Cardinality(T) <= n => g[T] = Sum(g, T)
    OBVIOUS
  <2> DEFINE h == [T \in SUBSET S |-> Sum(g, T)]
  <2>2. ASSUME NEW T \in SUBSET S, Cardinality(T) <= n + 1
        PROVE  h[T] = Sum(h, T)
    <3>1. CASE T = {}
      BY <3>1
    <3>2. CASE T # {}
      <4> DEFINE R == T \ {Pick(T)}
      <4>1. R \in SUBSET S /\ Cardinality(R) <= n
        BY <2>2, <3>2, PickShrinks
      <4>2. h[R] = Sum(g, R) /\ g[R] = Sum(g, R)
        BY <2>1, <4>1
      <4> QED
        BY <3>2, <4>2
    <3> QED
      BY <3>1, <3>2
  <2>3. \A T \in SUBSET S : Cardinality(T) <= n + 1 => h[T] = Sum(h, T)
    BY <2>2
  <2>4. \E k : \A T \in SUBSET S : Cardinality(T) <= n + 1 => k[T] = Sum(k, T)
    <3> HIDE DEF h
    <3> QED
      BY <2>3, Zenon
  <2>5. n + 1 \in Nat
    OBVIOUS
  <2> QED
    BY <2>4, <2>5, Zenon
<1>3. A = Nat
  <2> HIDE DEF A
  <2>1. A \in SUBSET Nat
    BY DEF A
  <2> QED
    BY <1>1, <1>2, <2>1, AllNaturals
<1>4. PICK g : \A T \in SUBSET S : Cardinality(T) <= Cardinality(S) => g[T] = Sum(g, T)
  <2>1. Cardinality(S) \in A
    BY <1>3, FS_CardinalityType
  <2> QED
    BY <2>1
<1>5. \A T \in SUBSET S : g[T] = Sum(g, T)
  BY <1>4, FS_Subset
<1> DEFINE h == [T \in SUBSET S |-> g[T]]
<1>6. \A T \in SUBSET S : T # {} => T \ {Pick(T)} \in SUBSET S
  OBVIOUS
<1>7. \A T \in SUBSET S : Sum(h, T) = Sum(g, T)
  BY <1>6
<1>8. h = [T \in SUBSET S |-> Sum(h, T)]
  <2> HIDE DEF Sum
  <2> QED
    BY <1>5, <1>7
<1> QED
  BY <1>8 DEF PartialSums

\* Tables of partial sums agree where the summands do.
LEMMA SumsAgree ==
  ASSUME NEW S, IsFiniteSet(S), NEW U \in SUBSET S, NEW f, NEW e,
         \A x \in U : f[x] = e[x],
         NEW g, PartialSums(f, S, g), NEW h, PartialSums(e, U, h)
  PROVE  \A T \in SUBSET U : g[T] = h[T]
<1> DEFINE A == {n \in Nat : \A T \in SUBSET U : Cardinality(T) = n => g[T] = h[T]}
<1>1. /\ \A T \in SUBSET S :
           g[T] = IF T = {} THEN 0 ELSE f[Pick(T)] + g[T \ {Pick(T)}]
      /\ \A T \in SUBSET U :
           h[T] = IF T = {} THEN 0 ELSE e[Pick(T)] + h[T \ {Pick(T)}]
  BY DEF PartialSums
<1>2. IsFiniteSet(U)
  BY FS_Subset
<1>3. 0 \in A
  <2>1. \A T \in SUBSET U : Cardinality(T) = 0 => T = {}
    BY <1>2, PickShrinks
  <2> QED
    BY <1>1, <2>1
<1>4. ASSUME NEW n \in A
      PROVE  n + 1 \in A
  <2>1. ASSUME NEW T \in SUBSET U, Cardinality(T) = n + 1
        PROVE  g[T] = h[T]
    <3>1. T # {}
      BY <2>1, FS_EmptySet
    <3>2. /\ Pick(T) \in T /\ T \ {Pick(T)} \in SUBSET U
          /\ Cardinality(T \ {Pick(T)}) = n
      BY <1>2, <2>1, <3>1, PickShrinks
    <3>3. g[T \ {Pick(T)}] = h[T \ {Pick(T)}]
      BY <3>2
    <3>4. f[Pick(T)] = e[Pick(T)] /\ T \in SUBSET S
      BY <3>2
    <3> QED
      BY <1>1, <3>1, <3>3, <3>4
  <2> QED
    BY <2>1
<1>5. A = Nat
  <2> HIDE DEF A
  <2>1. A \in SUBSET Nat
    BY DEF A
  <2> QED
    BY <1>3, <1>4, <2>1, AllNaturals
<1> QED
  <2> SUFFICES ASSUME NEW T \in SUBSET U
               PROVE  g[T] = h[T]
    OBVIOUS
  <2>1. Cardinality(T) \in A
    BY <1>2, <1>5, FS_Subset, FS_CardinalityType
  <2> QED
    BY <2>1

\* The sum over a subset stands in the table of the whole set.
LEMMA SumInTable ==
  ASSUME NEW S, IsFiniteSet(S), NEW f, NEW g, PartialSums(f, S, g)
  PROVE  \A T \in SUBSET S : SumFunctionOnSet(f, T) = g[T]
<1> SUFFICES ASSUME NEW T \in SUBSET S
             PROVE  SumFunctionOnSet(f, T) = g[T]
  OBVIOUS
<1> DEFINE h == CHOOSE h : PartialSums(f, T, h)
<1>1. IsFiniteSet(T)
  BY FS_Subset
<1>2. PartialSums(f, T, h)
  BY <1>1, SumsExist
<1>3. SumFunctionOnSet(f, T) = h[T]
  BY SumTable
<1> HIDE DEF h
<1> QED
  BY <1>2, <1>3, SumsAgree

\* Nothing adds up to zero.
LEMMA SumEmpty ==
  ASSUME NEW f
  PROVE  SumFunctionOnSet(f, {}) = 0
<1>1. PICK g : PartialSums(f, {}, g)
  BY SumsExist, FS_EmptySet
<1>2. g[{}] = 0
  BY <1>1 DEF PartialSums
<1> QED
  BY <1>1, <1>2, SumInTable, FS_EmptySet

\* The first element, and the sum of the rest.
LEMMA SumFirst ==
  ASSUME NEW f, NEW S, IsFiniteSet(S), S # {}
  PROVE  SumFunctionOnSet(f, S) = f[Pick(S)] + SumFunctionOnSet(f, S \ {Pick(S)})
<1>1. PICK g : PartialSums(f, S, g)
  BY SumsExist
<1>2. g[S] = f[Pick(S)] + g[S \ {Pick(S)}]
  BY <1>1 DEF PartialSums
<1>3. SumFunctionOnSet(f, S) = g[S] /\ SumFunctionOnSet(f, S \ {Pick(S)}) = g[S \ {Pick(S)}]
  BY <1>1, SumInTable
<1> QED
  BY <1>2, <1>3

\* A sum depends on the values it adds only.
LEMMA SumSame ==
  ASSUME NEW S, IsFiniteSet(S), NEW f, NEW e, \A x \in S : f[x] = e[x]
  PROVE  SumFunctionOnSet(f, S) = SumFunctionOnSet(e, S)
<1>1. PICK g : PartialSums(f, S, g)
  BY SumsExist
<1>2. PICK h : PartialSums(e, S, h)
  BY SumsExist
<1>3. g[S] = h[S]
  <2>1. \A T \in SUBSET S : g[T] = h[T]
    BY <1>1, <1>2, SumsAgree
  <2> QED
    BY <2>1
<1> QED
  BY <1>1, <1>2, <1>3, SumInTable

\* A sum of integers is an integer.
LEMMA SumIsInt ==
  ASSUME NEW S, IsFiniteSet(S), NEW f, \A x \in S : f[x] \in Int
  PROVE  SumFunctionOnSet(f, S) \in Int
<1> DEFINE A == {n \in Nat : \A T \in SUBSET S :
                    Cardinality(T) = n => SumFunctionOnSet(f, T) \in Int}
<1>1. 0 \in A
  <2>1. \A T \in SUBSET S : Cardinality(T) = 0 => T = {}
    BY PickShrinks
  <2> QED
    BY <2>1, SumEmpty
<1>2. ASSUME NEW n \in A
      PROVE  n + 1 \in A
  <2>1. ASSUME NEW T \in SUBSET S, Cardinality(T) = n + 1
        PROVE  SumFunctionOnSet(f, T) \in Int
    <3>1. T # {}
      BY <2>1, FS_EmptySet
    <3>2. /\ Pick(T) \in T /\ T \ {Pick(T)} \in SUBSET S /\ IsFiniteSet(T)
          /\ Cardinality(T \ {Pick(T)}) = Cardinality(T) - 1
      BY <3>1, PickShrinks
    <3>3. SumFunctionOnSet(f, T \ {Pick(T)}) \in Int /\ f[Pick(T)] \in Int
      <4>1. Cardinality(T \ {Pick(T)}) = n
        BY <2>1, <3>2
      <4> QED
        BY <3>2, <4>1
    <3> QED
      BY <3>1, <3>2, <3>3, SumFirst
  <2> QED
    BY <2>1
<1>3. A = Nat
  <2> HIDE DEF A
  <2>1. A \in SUBSET Nat
    BY DEF A
  <2> QED
    BY <1>1, <1>2, <2>1, AllNaturals
<1>4. Cardinality(S) \in A
  BY <1>3, FS_CardinalityType
<1> QED
  BY <1>4

\* Any element may be added last.
LEMMA SumElement ==
  ASSUME NEW S, IsFiniteSet(S), NEW f, \A x \in S : f[x] \in Int
  PROVE  \A x \in S : SumFunctionOnSet(f, S) = f[x] + SumFunctionOnSet(f, S \ {x})
<1> DEFINE Sum(T) == SumFunctionOnSet(f, T)
           A == {n \in Nat : \A T \in SUBSET S : Cardinality(T) = n =>
                    \A x \in T : Sum(T) = f[x] + Sum(T \ {x})}
<1>1. 0 \in A
  <2>1. \A T \in SUBSET S : Cardinality(T) = 0 => T = {}
    BY PickShrinks
  <2> QED
    BY <2>1
<1>2. ASSUME NEW n \in A
      PROVE  n + 1 \in A
  <2>1. ASSUME NEW T \in SUBSET S, Cardinality(T) = n + 1, NEW x \in T, x # Pick(T)
        PROVE  Sum(T) = f[x] + Sum(T \ {x})
    <3> DEFINE y == Pick(T)
               R == (T \ {x}) \ {y}
    <3>1. /\ y \in T /\ T \ {y} \in SUBSET S /\ IsFiniteSet(T)
          /\ Cardinality(T \ {y}) = n
      BY <2>1, PickShrinks
    <3>2. /\ T \ {x} \in SUBSET S /\ IsFiniteSet(T \ {x}) /\ Cardinality(T \ {x}) = n
          /\ IsFiniteSet(R) /\ R = (T \ {y}) \ {x} /\ \A z \in R : f[z] \in Int
      BY <2>1, <3>1, FS_RemoveElement
    <3>3. x \in T \ {y} /\ y \in T \ {x}
      BY <2>1, <3>1
    <3>4. Sum(T \ {y}) = f[x] + Sum(R) /\ Sum(T \ {x}) = f[y] + Sum(R)
      BY <3>1, <3>2, <3>3
    <3>5. Sum(T) = f[y] + Sum(T \ {y})
      BY <3>1, SumFirst
    <3>6. Sum(R) \in Int /\ f[x] \in Int /\ f[y] \in Int
      BY <3>1, <3>2, SumIsInt
    <3> HIDE DEF Sum, R
    <3> QED
      BY <3>4, <3>5, <3>6
  <2>2. ASSUME NEW T \in SUBSET S, NEW x \in T, x = Pick(T)
        PROVE  Sum(T) = f[x] + Sum(T \ {x})
    BY <2>2, FS_Subset, SumFirst
  <2> QED
    BY <2>1, <2>2
<1>3. A = Nat
  <2> HIDE DEF A
  <2>1. A \in SUBSET Nat
    BY DEF A
  <2> QED
    BY <1>1, <1>2, <2>1, AllNaturals
<1>4. Cardinality(S) \in A
  BY <1>3, FS_CardinalityType
<1> QED
  BY <1>4

\* One more element adds its value.
LEMMA SumAdds ==
  ASSUME NEW S, IsFiniteSet(S), NEW x, x \notin S, NEW f, \A y \in S \union {x} : f[y] \in Int
  PROVE  SumFunctionOnSet(f, S \union {x}) = SumFunctionOnSet(f, S) + f[x]
<1>1. IsFiniteSet(S \union {x}) /\ (S \union {x}) \ {x} = S
  BY FS_AddElement
<1>2. SumFunctionOnSet(f, S \union {x}) = f[x] + SumFunctionOnSet(f, S)
  <2>1. SumFunctionOnSet(f, S \union {x})
          = f[x] + SumFunctionOnSet(f, (S \union {x}) \ {x})
    BY <1>1, SumElement
  <2> QED
    BY <1>1, <2>1
<1>3. SumFunctionOnSet(f, S) \in Int /\ f[x] \in Int
  BY SumIsInt
<1> QED
  BY <1>2, <1>3
=============================================================================
