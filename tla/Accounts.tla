------------------------------ MODULE Accounts ------------------------------
(***************************************************************************)
(* The rows every money-moving transaction of the program shares: users    *)
(* (is_blocked), wallets (balance) and ledger_transactions.                *)
(*                                                                         *)
(* A session is one SQLAlchemy transaction on PostgreSQL at READ           *)
(* COMMITTED.  SELECT ... FOR UPDATE takes a row lock AND captures the     *)
(* row's columns in the session; what is written later is computed from    *)
(* the captured columns, not from the table.  The lock and the captured    *)
(* read are therefore separate here: only the locking discipline of the    *)
(* code makes the captured value current when it is used.  COMMIT and      *)
(* ROLLBACK release every lock of the session; a rollback leaves the       *)
(* tables as they were because a session's writes reach them at COMMIT.    *)
(***************************************************************************)
EXTENDS Integers, Sequences

CONSTANTS
  Users,        \* rows of users, each with its row of wallets
  Sessions,     \* database transactions: handler invocations and workers
  Adjusts,      \* taps on a balance confirmation button (balance_confirm)
  AdjustUser,   \* the user the confirmation's payload names
  Delta,        \* the signed amount the payload carries
  Opening,      \* the balance each wallet starts the run with
  Refs,         \* references a ledger row may carry
  NoRef,        \* reference IS NULL
  Free          \* the row is locked by nobody

ASSUME AccountsAssumption ==
  /\ Adjusts \subseteq Sessions
  /\ Free \notin Sessions
  /\ AdjustUser \in [Adjusts -> Users]
  /\ Delta \in [Adjusts -> Int \ {0}]
  /\ Opening \in [Users -> Nat]

VARIABLES
  balance,      \* wallets.balance
  ledger,       \* ledger_transactions of each user, in commit order
  blocked,      \* users.is_blocked
  walletLock,   \* who holds the wallet row FOR UPDATE
  userLock,     \* who holds the user row FOR UPDATE
  seen,         \* per session: the balance captured when it locked a wallet
  adjust        \* control state of each balance_confirm invocation

accountVars == <<balance, ledger, blocked, walletLock, userLock, seen, adjust>>

EntryTypes == {"deposit", "otp_purchase", "refund", "manual_add", "manual_deduct"}

Entry == [type : EntryTypes, amount : Int, before : Nat, after : Nat,
          ref : Refs \union {NoRef}]

-----------------------------------------------------------------------------
(* Row locks and the steps of a transaction on a wallet.                   *)

Unlocked(lock, s) == [x \in DOMAIN lock |-> IF lock[x] = s THEN Free ELSE lock[x]]

\* End of a transaction, by COMMIT or by ROLLBACK.
Release(s) ==
  /\ walletLock' = Unlocked(walletLock, s)
  /\ userLock' = Unlocked(userLock, s)
  /\ seen' = [seen EXCEPT ![s] = 0]

\* A defect: the wallet row is read without FOR UPDATE.
LockWallet_PlainSelect(s, u) ==
  /\ seen' = [seen EXCEPT ![s] = balance[u]]
  /\ UNCHANGED walletLock

\* SELECT ... FROM wallets ... FOR UPDATE: wait for the row, then read it.
LockWallet(s, u) ==
  /\ walletLock[u] = Free
  /\ walletLock' = [walletLock EXCEPT ![u] = s]
  /\ seen' = [seen EXCEPT ![s] = balance[u]]

\* Inserting a ledger row checks its foreign key: the user row is taken FOR
\* KEY SHARE, which waits while another session holds it FOR UPDATE.
UserKeyFree(s, u) == userLock[u] \in {Free, s}

\* A defect: the sign of the balance after the change is not checked.
ChangeBalance_NoFloor(s, u, type, amount, ref) ==
  /\ UserKeyFree(s, u)
  /\ balance' = [balance EXCEPT ![u] = seen[s] + amount]
  /\ ledger' = [ledger EXCEPT ![u] = Append(@,
       [type |-> type, amount |-> amount, before |-> seen[s],
        after |-> seen[s] + amount, ref |-> ref])]

\* change_balance after its wallet lock, with the commit that publishes it.
ChangeBalance(s, u, type, amount, ref) ==
  /\ seen[s] + amount >= 0
  /\ UserKeyFree(s, u)
  /\ balance' = [balance EXCEPT ![u] = seen[s] + amount]
  /\ ledger' = [ledger EXCEPT ![u] = Append(@,
       [type |-> type, amount |-> amount, before |-> seen[s],
        after |-> seen[s] + amount, ref |-> ref])]

-----------------------------------------------------------------------------
(* balance_confirm: one invocation per tap, with no memory of earlier taps. *)

AdjustType(a) == IF Delta[a] > 0 THEN "manual_add" ELSE "manual_deduct"

AdjustLock(a) ==
  /\ adjust[a] = "idle"
  /\ LockWallet(a, AdjustUser[a])
  /\ adjust' = [adjust EXCEPT ![a] = "write"]
  /\ UNCHANGED <<balance, ledger, blocked, userLock>>

AdjustCommit(a) ==
  /\ adjust[a] = "write"
  /\ ChangeBalance(a, AdjustUser[a], AdjustType(a), Delta[a], NoRef)
  /\ Release(a)
  /\ adjust' = [adjust EXCEPT ![a] = "done"]
  /\ UNCHANGED blocked

\* ValueError('INSUFFICIENT_BALANCE'): nothing is written.
AdjustRefused(a) ==
  /\ adjust[a] = "write"
  /\ seen[a] + Delta[a] < 0
  /\ Release(a)
  /\ adjust' = [adjust EXCEPT ![a] = "done"]
  /\ UNCHANGED <<balance, ledger, blocked>>

\* A crash of the process, a lost connection, or PostgreSQL choosing the
\* session as the victim of a deadlock.
AdjustAbort(a) ==
  /\ adjust[a] = "write"
  /\ Release(a)
  /\ adjust' = [adjust EXCEPT ![a] = "done"]
  /\ UNCHANGED <<balance, ledger, blocked>>

\* block_user and unblock_user: an UPDATE of the user row, which waits for
\* its FOR UPDATE lock and commits at once.
SetBlocked(u) ==
  /\ userLock[u] = Free
  /\ blocked' = [blocked EXCEPT ![u] = ~blocked[u]]
  /\ UNCHANGED <<balance, ledger, walletLock, userLock, seen, adjust>>

-----------------------------------------------------------------------------
AccountsInit ==
  /\ balance = Opening
  /\ ledger = [u \in Users |-> <<>>]
  /\ blocked = [u \in Users |-> FALSE]
  /\ walletLock = [u \in Users |-> Free]
  /\ userLock = [u \in Users |-> Free]
  /\ seen = [s \in Sessions |-> 0]
  /\ adjust = [a \in Adjusts |-> "idle"]

AdjustNext(a) == AdjustLock(a) \/ AdjustCommit(a) \/ AdjustRefused(a) \/ AdjustAbort(a)

AccountsNext == (\E a \in Adjusts : AdjustNext(a)) \/ (\E u \in Users : SetBlocked(u))

AccountsSpec == AccountsInit /\ [][AccountsNext]_accountVars

-----------------------------------------------------------------------------
(* Properties.                                                             *)

\* Type correctness of the account rows and of the sessions on them.
AccountsTypeOK ==
  /\ balance \in [Users -> Nat]
  /\ ledger \in [Users -> Seq(Entry)]
  /\ blocked \in [Users -> BOOLEAN]
  /\ walletLock \in [Users -> Sessions \union {Free}]
  /\ userLock \in [Users -> Sessions \union {Free}]
  /\ seen \in [Sessions -> Nat]
  /\ adjust \in [Adjusts -> {"idle", "write", "done"}]

\* The balance a user's ledger leads to, from the opening balance.
ClosingBalance(opening, entries) ==
  IF entries = <<>> THEN opening ELSE entries[Len(entries)].after

\* Each ledger row starts where the row before it ended, adds its amount, and
\* never goes below zero.
Chained(opening, entries) ==
  \A i \in 1..Len(entries) :
    /\ entries[i].before = IF i = 1 THEN opening ELSE entries[i - 1].after
    /\ entries[i].after = entries[i].before + entries[i].amount
    /\ entries[i].after >= 0

\* The ledger explains the wallet: the rows of a user form an unbroken chain
\* from the opening balance to the stored balance, so no update of a wallet by
\* a concurrent purchase, refund or adjustment is ever lost, and no balance is
\* ever negative (change_balance in app/services/wallet.py).
LedgerChain ==
  \A u \in Users :
    /\ Chained(Opening[u], ledger[u])
    /\ balance[u] = ClosingBalance(Opening[u], ledger[u])

\* Whoever holds a wallet's lock has captured its stored balance, so what the
\* holder writes is computed from the current row.
LockedIsSeen ==
  \A u \in Users : walletLock[u] # Free => seen[walletLock[u]] = balance[u]

\* A confirmation about to write holds its wallet, and holds nothing else.
WriterHoldsWallet ==
  \A a \in Adjusts, u \in Users :
    walletLock[u] = a <=> (adjust[a] = "write" /\ u = AdjustUser[a])

\* The inductive invariant behind LedgerChain.
AccountsIInv == AccountsTypeOK /\ LedgerChain /\ LockedIsSeen /\ WriterHoldsWallet
=============================================================================
