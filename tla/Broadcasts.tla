----------------------------- MODULE Broadcasts -----------------------------
(***************************************************************************)
(* Broadcasts: an administrator queues a message (broadcast in             *)
(* app/admin/handlers.py); workers (process_broadcasts in app/worker.py)   *)
(* claim one queued broadcast in a transaction, send it to every recipient *)
(* outside any transaction, and record the counters in a last one.  A      *)
(* worker may stop between any two of these steps, and a message that      *)
(* Telegram delivered may still be reported as failed.                     *)
(***************************************************************************)
EXTENDS Integers, FiniteSets

CONSTANTS
  Messages,     \* rows of broadcasts
  Workers,      \* running instances of process_broadcasts
  Users,        \* users of the bot
  Chats,        \* the official group and the official channel
  ToUsers,      \* the destination bot_users
  NoMessage,    \* a worker that has claimed nothing
  Free          \* the row is locked by nobody

ASSUME BroadcastsAssumption ==
  /\ Users \intersect Chats = {}
  /\ ToUsers \notin Chats
  /\ NoMessage \notin Messages
  /\ Free \notin Workers
  /\ IsFiniteSet(Messages) /\ IsFiniteSet(Users) /\ IsFiniteSet(Chats)

VARIABLES
  row,          \* rows of broadcasts
  lock,         \* who holds the row FOR UPDATE
  active,       \* users that are not blocked
  chat,         \* the infrastructure id configured for each chat
  work,         \* local state of each worker
  delivered     \* how often each recipient got each message

vars == <<row, lock, active, chat, work, delivered>>

Recipients == Users \union Chats
Finished == {"completed", "partial", "failed"}

Row == [status : {"none", "queued", "sending"} \union Finished,  \* "none": no row yet
        destination : Chats \union {ToUsers},
        created : Nat, sent : Nat, failed : Nat]

Work == [pc     : {"sleep", "claim", "targets", "send"},
         msg    : Messages \union {NoMessage},
         todo   : SUBSET Recipients,
         sent   : Nat,
         failed : Nat]

NewRow == [status |-> "none", destination |-> ToUsers, created |-> 0, sent |-> 0, failed |-> 0]
Asleep == [pc |-> "sleep", msg |-> NoMessage, todo |-> {}, sent |-> 0, failed |-> 0]

Unlocked(w) == [m \in Messages |-> IF lock[m] = w THEN Free ELSE lock[m]]

-----------------------------------------------------------------------------
(* The administrator.                                                      *)

\* /broadcast: a chat must be configured when the broadcast is queued.
Queue(m) ==
  /\ row[m].status = "none"
  /\ \E destination \in Chats \union {ToUsers} :
       /\ destination \in Chats => chat[destination] # "unset"
       /\ row' = [row EXCEPT ![m] =
            [@ EXCEPT !.status = "queued", !.destination = destination,
                      !.created = Cardinality({n \in Messages : row[n].status # "none"})]]
  /\ UNCHANGED <<lock, active, chat, work, delivered>>

\* /start, /block and /unblock.
ChangeUser(u) ==
  /\ active' = IF u \in active THEN active \ {u} ELSE active \union {u}
  /\ UNCHANGED <<row, lock, chat, work, delivered>>

\* /setinfra takes any text, also one that is not a number.
SetInfra(c) ==
  /\ \E id \in {"number", "text"} : chat' = [chat EXCEPT ![c] = id]
  /\ UNCHANGED <<row, lock, active, work, delivered>>

-----------------------------------------------------------------------------
(* process_broadcasts.                                                     *)

\* A defect: the queued rows are read without FOR UPDATE.
SelectQueued_PlainSelect(w) ==
  /\ work[w].pc = "sleep"
  /\ \E m \in Messages :
       /\ row[m].status = "queued"
       /\ work' = [work EXCEPT ![w] = [@ EXCEPT !.pc = "claim", !.msg = m]]
  /\ UNCHANGED <<row, lock, active, chat, delivered>>

\* FOR UPDATE SKIP LOCKED without a LIMIT: every queued row that nobody holds
\* is locked, the oldest of them is taken.
SelectQueued(w) ==
  LET mine == {m \in Messages : row[m].status = "queued" /\ lock[m] = Free} IN
  /\ work[w].pc = "sleep"
  /\ \E m \in mine :
       /\ \A n \in mine : row[m].created <= row[n].created
       /\ work' = [work EXCEPT ![w] = [@ EXCEPT !.pc = "claim", !.msg = m]]
  /\ lock' = [m \in Messages |-> IF m \in mine THEN w ELSE lock[m]]
  /\ UNCHANGED <<row, active, chat, delivered>>

\* The status and the commit, which frees the rows that were not taken.
Claim(w) ==
  /\ work[w].pc = "claim"
  /\ row' = [row EXCEPT ![work[w].msg] = [@ EXCEPT !.status = "sending"]]
  /\ lock' = Unlocked(w)
  /\ work' = [work EXCEPT ![w] = [@ EXCEPT !.pc = "targets"]]
  /\ UNCHANGED <<active, chat, delivered>>

\* A defect: every destination is taken for a chat.
ReadTargets_OnlyChats(w) ==
  LET destination == row[work[w].msg].destination IN
  /\ work[w].pc = "targets"
  /\ destination \in Chats => chat[destination] = "number"
  /\ work' = [work EXCEPT ![w] = [@ EXCEPT !.pc = "send", !.todo = {destination}]]
  /\ UNCHANGED <<row, lock, active, chat, delivered>>

\* The recipients are read after the claim, not when the broadcast is queued.
ReadTargets(w) ==
  LET destination == row[work[w].msg].destination IN
  /\ work[w].pc = "targets"
  /\ destination \in Chats => chat[destination] = "number"
  /\ work' = [work EXCEPT ![w] =
       [@ EXCEPT !.pc = "send",
                 !.todo = IF destination = ToUsers THEN active ELSE {destination}]]
  /\ UNCHANGED <<row, lock, active, chat, delivered>>

\* int() of an id that is not a number: the pass ends with an exception.
TargetsUnreadable(w) ==
  LET destination == row[work[w].msg].destination IN
  /\ work[w].pc = "targets"
  /\ destination \in Chats /\ chat[destination] = "text"
  /\ work' = [work EXCEPT ![w] = Asleep]
  /\ UNCHANGED <<row, lock, active, chat, delivered>>

\* One recipient.  An exception does not mean that Telegram did not deliver.
Send(w) ==
  /\ work[w].pc = "send"
  /\ \E r \in work[w].todo, got \in {0, 1}, raised \in BOOLEAN :
       /\ got = 1 \/ raised
       /\ delivered' = [delivered EXCEPT ![work[w].msg][r] = @ + got]
       /\ work' = [work EXCEPT ![w] =
            IF raised THEN [@ EXCEPT !.failed = work[w].failed + 1,
                                     !.todo = work[w].todo \ {r}]
            ELSE [@ EXCEPT !.sent = work[w].sent + 1, !.todo = work[w].todo \ {r}]]
  /\ UNCHANGED <<row, lock, active, chat>>

\* A defect: failures are not told from successes.
Outcome_Blind(sent, failed) == "completed"

Outcome(sent, failed) ==
  IF failed = 0 THEN "completed" ELSE IF sent > 0 THEN "partial" ELSE "failed"

Record(w) ==
  /\ work[w].pc = "send" /\ work[w].todo = {}
  /\ lock[work[w].msg] = Free
  /\ row' = [row EXCEPT ![work[w].msg] =
       [@ EXCEPT !.sent = work[w].sent, !.failed = work[w].failed,
                 !.status = Outcome(work[w].sent, work[w].failed)]]
  /\ work' = [work EXCEPT ![w] = Asleep]
  /\ UNCHANGED <<lock, active, chat, delivered>>

\* A defect: the transaction is left open.
Abort_LeftOpen(w) ==
  /\ work[w].pc # "sleep"
  /\ work' = [work EXCEPT ![w] = Asleep]
  /\ UNCHANGED <<row, lock, active, chat, delivered>>

\* The worker or its connection is lost; the next pass starts from the queue.
Abort(w) ==
  /\ work[w].pc # "sleep"
  /\ lock' = Unlocked(w)
  /\ work' = [work EXCEPT ![w] = Asleep]
  /\ UNCHANGED <<row, active, chat, delivered>>

-----------------------------------------------------------------------------
Init ==
  /\ row = [m \in Messages |-> NewRow]
  /\ lock = [m \in Messages |-> Free]
  /\ active = Users
  /\ chat = [c \in Chats |-> "unset"]
  /\ work = [w \in Workers |-> Asleep]
  /\ delivered = [m \in Messages |-> [r \in Recipients |-> 0]]

WorkerNext(w) ==
  \/ SelectQueued(w) \/ Claim(w) \/ ReadTargets(w) \/ TargetsUnreadable(w)
  \/ Send(w) \/ Record(w)

Next ==
  \/ \E m \in Messages : Queue(m)
  \/ \E u \in Users : ChangeUser(u)
  \/ \E c \in Chats : SetInfra(c)
  \/ \E w \in Workers : WorkerNext(w) \/ Abort(w)

Spec == Init /\ [][Next]_vars

\* The worker's loop keeps running, and it is cut off finitely often.
Fairness ==
  /\ \A w \in Workers : WF_vars(WorkerNext(w))
  /\ \A w \in Workers : <>[][~(Abort(w) /\ ~WorkerNext(w))]_vars

LiveSpec == Spec /\ Fairness

-----------------------------------------------------------------------------
(* Properties.                                                             *)

\* Type correctness of the rows and of the workers' local state.
TypeOK ==
  /\ row \in [Messages -> Row]
  /\ lock \in [Messages -> Workers \union {Free}]
  /\ active \subseteq Users
  /\ chat \in [Chats -> {"unset", "number", "text"}]
  /\ work \in [Workers -> Work]
  /\ delivered \in [Messages -> [Recipients -> Nat]]

\* Nobody gets a broadcast twice, however many workers run, wherever they stop
\* and restart, and whatever Telegram reports (the claim of process_broadcasts).
AtMostOnce == \A m \in Messages, r \in Recipients : delivered[m][r] <= 1

Reached(m) == {r \in Recipients : delivered[m][r] > 0}

\* What a finished row says is true: it counts no delivery that did not happen,
\* at most its failures were delivered after all, and completed means that
\* nothing failed ("do not corrupt counters", process_broadcasts).
CountersAreTrue ==
  \A m \in Messages :
    /\ row[m].status \in Finished =>
         /\ row[m].sent <= Cardinality(Reached(m))
         /\ Cardinality(Reached(m)) <= row[m].sent + row[m].failed
    /\ row[m].status = "completed" => row[m].failed = 0
    /\ row[m].status = "failed" => row[m].sent = 0

\* Every queued broadcast is taken up, although selecting one locks them all
\* and workers are cut off while they hold the locks.
QueuedIsTaken == \A m \in Messages : row[m].status = "queued" ~> row[m].status # "queued"

-----------------------------------------------------------------------------
(* The inductive invariant behind AtMostOnce and CountersAreTrue.          *)

\* Past its claim, on the way through the recipients.
Telling(w) == work[w].pc \in {"targets", "send"}

\* Only a queued row is locked, by a worker about to claim; only a claimed row
\* has a worker that tells it, and it has one.
ClaimsAreExclusive ==
  /\ \A m \in Messages : lock[m] # Free =>
       row[m].status = "queued" /\ work[lock[m]].pc = "claim"
  /\ \A w \in Workers :
       /\ work[w].pc # "sleep" => work[w].msg \in Messages
       /\ work[w].pc = "claim" => lock[work[w].msg] = w
       /\ Telling(w) => row[work[w].msg].status = "sending"
  /\ \A v, w \in Workers :
       Telling(v) /\ Telling(w) /\ work[v].msg = work[w].msg => v = w

\* A broadcast nobody has claimed has reached nobody, and one in the making
\* has reached none of the recipients that are left.
LeftAreUntold ==
  /\ \A m \in Messages : row[m].status \in {"none", "queued"} => Reached(m) = {}
  /\ \A w \in Workers :
       /\ work[w].pc = "targets" => Reached(work[w].msg) = {}
       /\ work[w].pc = "send" => work[w].todo \intersect Reached(work[w].msg) = {}

\* The counters of a worker are as true as those it will record.
WorkIsCounted ==
  \A w \in Workers :
    /\ work[w].pc # "send" => work[w].sent = 0 /\ work[w].failed = 0
    /\ work[w].pc = "send" =>
         /\ work[w].sent <= Cardinality(Reached(work[w].msg))
         /\ Cardinality(Reached(work[w].msg)) <= work[w].sent + work[w].failed

BroadcastsIInv ==
  /\ TypeOK /\ ClaimsAreExclusive /\ LeftAreUntold
  /\ AtMostOnce /\ WorkIsCounted /\ CountersAreTrue
=============================================================================
