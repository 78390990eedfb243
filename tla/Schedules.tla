------------------------------ MODULE Schedules ------------------------------
(***************************************************************************)
(* Scheduled messages: an administrator stores a message with a cron       *)
(* expression (schedule in app/admin/handlers.py); workers                 *)
(* (scheduled_messages in app/worker.py, claim_due in                      *)
(* app/services/scheduler.py) claim what is due in one transaction, open a *)
(* run row in a second one, send the message, and close the run row in a   *)
(* third.  A worker reads the clock before it reads the rows, it may be    *)
(* slow, and it may stop between any two steps.                            *)
(*                                                                         *)
(* Time is counted in ticks, several of which make a minute; a cron        *)
(* expression, in its time zone, is the set of minutes it names.           *)
(***************************************************************************)
EXTENDS Integers, FiniteSetsExt

CONSTANTS
  Jobs,           \* rows of scheduled_messages
  Malformed,      \* those whose cron expression or time zone does not parse
  Cron,           \* the minutes each other job names
  Destination,    \* bot_users, a chat, or something the worker does not know
  Workers,        \* running instances of scheduled_messages
  Users,          \* users of the bot
  Chats,          \* destinations that are a single chat
  ToUsers,        \* the destination bot_users
  NoJob,          \* a worker that handles no job
  Free,           \* the row is locked by nobody
  TicksPerMinute,
  Horizon         \* the last tick

ASSUME SchedulesAssumption ==
  /\ Malformed \subseteq Jobs /\ NoJob \notin Jobs
  /\ Cron \in [Jobs -> SUBSET Nat]
  /\ IsFiniteSet(Users) /\ IsFiniteSet(Chats)
  /\ Users \intersect Chats = {} /\ ToUsers \notin Chats
  /\ Free \notin Workers
  /\ TicksPerMinute \in Nat \ {0} /\ Horizon \in Nat

VARIABLES
  clock,
  last,           \* last_run_at of each job
  stored,         \* the jobs that exist
  lock,           \* who holds the job's row FOR UPDATE
  run,            \* rows of scheduled_message_runs
  work,           \* local state of each worker
  delivered       \* how often a recipient got the message of an occurrence

vars == <<clock, last, stored, lock, run, work, delivered>>

Never == -1       \* last_run_at IS NULL
Minutes == 0..(Horizon \div TicksPerMinute)
Recipients == Users \union Chats

Claims == [job : Jobs, at : 0..Horizon]

Run == [job : Jobs, at : 0..Horizon,                   \* schedule_id, scheduled_for
        status : {"running", "completed", "partial", "failed"},
        sent : Nat, failed : Nat, error : BOOLEAN]

Work == [pc     : {"sleep", "now", "claim", "runs", "targets", "send"},
         now    : 0..Horizon,
         due    : SUBSET Jobs,
         claims : SUBSET Claims,
         job    : Jobs \union {NoJob},
         at     : 0..Horizon,
         todo   : SUBSET Recipients,
         sent   : Nat, failed : Nat, error : BOOLEAN]

Asleep == [pc |-> "sleep", now |-> 0, due |-> {}, claims |-> {}, job |-> NoJob, at |-> 0,
           todo |-> {}, sent |-> 0, failed |-> 0, error |-> FALSE]

Unlocked(w) == [j \in Jobs |-> IF lock[j] = w THEN Free ELSE lock[j]]

-----------------------------------------------------------------------------
(* due.                                                                    *)

MinuteOf(t) == t \div TicksPerMinute
Fires(j, t) == {m \in Cron[j] : m <= MinuteOf(t)}

\* The latest minute the job names, the current one included.
Previous(j, t) == Max(Fires(j, t))

\* A defect: a job is due only in the very minute of an occurrence.
Due_OnlyInMinute(j, t) ==
  /\ Fires(j, t) # {} /\ Previous(j, t) = MinuteOf(t)
  /\ last[j] # Never => Previous(j, t) * TicksPerMinute > last[j]

\* A job that never ran is due only within the minute; a job that ran before
\* is due for the latest occurrence since then, however late.
Due(j, t) ==
  /\ Fires(j, t) # {}
  /\ IF last[j] = Never THEN Previous(j, t) = MinuteOf(t)
     ELSE Previous(j, t) * TicksPerMinute > last[j]

-----------------------------------------------------------------------------
(* The administrator and the clock.                                        *)

\* /schedule stores any expression, time zone and destination.
Store(j) ==
  /\ j \notin stored
  /\ stored' = stored \union {j}
  /\ UNCHANGED <<clock, last, lock, run, work, delivered>>

Tick ==
  /\ clock < Horizon
  /\ clock' = clock + 1
  /\ UNCHANGED <<last, stored, lock, run, work, delivered>>

-----------------------------------------------------------------------------
(* scheduled_messages.                                                     *)

\* The clock is read before the query.
ReadClock(w) ==
  /\ work[w].pc = "sleep"
  /\ work' = [work EXCEPT ![w] = [@ EXCEPT !.pc = "now", !.now = clock]]
  /\ UNCHANGED <<clock, last, stored, lock, run, delivered>>

Unheld == {j \in stored : lock[j] = Free}

\* A defect: the schedules are read without FOR UPDATE.
ClaimDue_PlainSelect(w) ==
  /\ work[w].pc = "now"
  /\ stored \intersect Malformed = {}
  /\ work' = [work EXCEPT ![w] =
       [@ EXCEPT !.pc = "claim", !.due = {j \in stored : Due(j, work[w].now)}]]
  /\ UNCHANGED <<clock, last, stored, lock, run, delivered>>

\* FOR UPDATE SKIP LOCKED: every schedule that nobody holds is locked, due or not.
ClaimDue(w) ==
  /\ work[w].pc = "now"
  /\ Unheld \intersect Malformed = {}
  /\ lock' = [j \in Jobs |-> IF j \in Unheld THEN w ELSE lock[j]]
  /\ work' = [work EXCEPT ![w] =
       [@ EXCEPT !.pc = "claim", !.due = {j \in Unheld : Due(j, work[w].now)}]]
  /\ UNCHANGED <<clock, last, stored, run, delivered>>

\* An expression or a time zone that does not parse raises out of claim_due,
\* and the transaction is rolled back: nothing is claimed in this pass.
ClaimRaises(w) ==
  /\ work[w].pc = "now"
  /\ Unheld \intersect Malformed # {}
  /\ work' = [work EXCEPT ![w] = Asleep]
  /\ UNCHANGED <<clock, last, stored, lock, run, delivered>>

\* last_run_at of every claimed job, in one commit.
CommitClaims(w) ==
  /\ work[w].pc = "claim"
  /\ last' = [j \in Jobs |-> IF j \in work[w].due THEN work[w].now ELSE last[j]]
  /\ lock' = Unlocked(w)
  /\ work' = [work EXCEPT ![w] =
       [Asleep EXCEPT !.pc = "runs",
                      !.claims = {[job |-> j, at |-> work[w].now] : j \in work[w].due}]]
  /\ UNCHANGED <<clock, stored, run, delivered>>

NewRun(c) == [job |-> c.job, at |-> c.at, status |-> "running",
              sent |-> 0, failed |-> 0, error |-> FALSE]

\* A defect: the run row is not committed before the messages are sent.
OpenRun_Unsaved(w) ==
  /\ work[w].pc = "runs"
  /\ \E c \in work[w].claims :
       work' = [work EXCEPT ![w] =
         [@ EXCEPT !.pc = "targets", !.claims = work[w].claims \ {c},
                   !.job = c.job, !.at = c.at, !.sent = 0, !.failed = 0, !.error = FALSE]]
  /\ UNCHANGED <<clock, last, stored, lock, run, delivered>>

\* The unique constraint lets one run row exist for a job and a claim time.
OpenRun(w) ==
  /\ work[w].pc = "runs"
  /\ \E c \in work[w].claims :
       /\ ~\E r \in run : r.job = c.job /\ r.at = c.at
       /\ run' = run \union {NewRun(c)}
       /\ work' = [work EXCEPT ![w] =
            [@ EXCEPT !.pc = "targets", !.claims = work[w].claims \ {c},
                      !.job = c.job, !.at = c.at, !.sent = 0, !.failed = 0, !.error = FALSE]]
  /\ UNCHANGED <<clock, last, stored, lock, delivered>>

\* The insert of the run row raises, because there is one or for any other
\* reason: the claim is dropped, and the pass goes on with the others.
DropClaim(w) ==
  /\ work[w].pc = "runs"
  /\ \E c \in work[w].claims :
       work' = [work EXCEPT ![w] = [@ EXCEPT !.claims = work[w].claims \ {c}]]
  /\ UNCHANGED <<clock, last, stored, lock, run, delivered>>

PassOver(w) ==
  /\ work[w].pc = "runs" /\ work[w].claims = {}
  /\ work' = [work EXCEPT ![w] = Asleep]
  /\ UNCHANGED <<clock, last, stored, lock, run, delivered>>

\* A defect: every destination is taken for a chat.
TargetsOf_OnlyChats(destination) == {{}, {destination}}

\* Users that are not blocked, a chat if it is configured, nobody when the
\* destination is unknown.
TargetsOf(destination) ==
  IF destination = ToUsers THEN SUBSET Users
  ELSE IF destination \in Chats THEN {{}, {destination}} ELSE {{}}

\* The recipients, or an exception, which leaves none.
ReadTargets(w) ==
  /\ work[w].pc = "targets"
  /\ \E targets \in TargetsOf(Destination[work[w].job]), error \in BOOLEAN :
       /\ error => targets = {}
       /\ work' = [work EXCEPT ![w] =
            [@ EXCEPT !.pc = "send", !.todo = targets, !.error = error]]
  /\ UNCHANGED <<clock, last, stored, lock, run, delivered>>

\* One recipient.  An exception does not mean that Telegram did not deliver.
Send(w) ==
  /\ work[w].pc = "send"
  /\ \E r \in work[w].todo, got \in {0, 1}, raised \in BOOLEAN :
       /\ got = 1 \/ raised
       /\ delivered' = [delivered EXCEPT
            ![work[w].job][Previous(work[w].job, work[w].at)][r] = @ + got]
       /\ work' = [work EXCEPT ![w] =
            IF raised THEN [@ EXCEPT !.failed = work[w].failed + 1, !.error = TRUE,
                                     !.todo = work[w].todo \ {r}]
            ELSE [@ EXCEPT !.sent = work[w].sent + 1, !.todo = work[w].todo \ {r}]]
  /\ UNCHANGED <<clock, last, stored, lock, run>>

Outcome(sent, failed) ==
  IF failed = 0 THEN "completed" ELSE IF sent > 0 THEN "partial" ELSE "failed"

CloseRun(w) ==
  /\ work[w].pc = "send" /\ work[w].todo = {}
  /\ run' = {IF r.job = work[w].job /\ r.at = work[w].at
             THEN [r EXCEPT !.status = Outcome(work[w].sent, work[w].failed),
                            !.sent = work[w].sent, !.failed = work[w].failed,
                            !.error = work[w].error]
             ELSE r : r \in run}
  /\ work' = [work EXCEPT ![w] = [Asleep EXCEPT !.pc = "runs", !.claims = work[w].claims]]
  /\ UNCHANGED <<clock, last, stored, lock, delivered>>

\* The worker or its connection is lost, or an exception ends the pass.
Abort(w) ==
  /\ work[w].pc # "sleep"
  /\ lock' = Unlocked(w)
  /\ work' = [work EXCEPT ![w] = Asleep]
  /\ UNCHANGED <<clock, last, stored, run, delivered>>

-----------------------------------------------------------------------------
Init ==
  /\ clock = 0
  /\ last = [j \in Jobs |-> Never]
  /\ stored = {}
  /\ lock = [j \in Jobs |-> Free]
  /\ run = {}
  /\ work = [w \in Workers |-> Asleep]
  /\ delivered = [j \in Jobs |-> [m \in Minutes |-> [r \in Recipients |-> 0]]]

WorkerNext(w) ==
  \/ ReadClock(w) \/ ClaimDue(w) \/ ClaimRaises(w) \/ CommitClaims(w)
  \/ OpenRun(w) \/ DropClaim(w) \/ PassOver(w) \/ ReadTargets(w) \/ Send(w) \/ CloseRun(w)

Next ==
  \/ \E j \in Jobs : Store(j)
  \/ Tick
  \/ \E w \in Workers : WorkerNext(w) \/ Abort(w)

Spec == Init /\ [][Next]_vars

\* The worker's loop keeps running, and it is cut off finitely often.
Fairness ==
  /\ \A w \in Workers : WF_vars(WorkerNext(w))
  /\ \A w \in Workers : <>[][~(Abort(w) /\ ~WorkerNext(w))]_vars

LiveSpec == Spec /\ Fairness

-----------------------------------------------------------------------------
(* Properties.                                                             *)

\* Type correctness of the rows and of the workers' local state.
TypeOK ==
  /\ clock \in 0..Horizon
  /\ last \in [Jobs -> 0..Horizon \union {Never}]
  /\ stored \subseteq Jobs
  /\ lock \in [Jobs -> Workers \union {Free}]
  /\ run \subseteq Run
  /\ work \in [Workers -> Work]
  /\ delivered \in [Jobs -> [Minutes -> [Recipients -> Nat]]]

\* Duplicate-run protection (README): however many workers run, however slow
\* they are and wherever they restart, no occurrence of a schedule has two runs
\* and nobody gets its message twice.
OncePerOccurrence ==
  /\ \A r, q \in run :
       r.job = q.job /\ Previous(r.job, r.at) = Previous(q.job, q.at) => r = q
  /\ \A j \in Jobs, m \in Minutes, r \in Recipients : delivered[j][m][r] <= 1

\* Who got the message of an occurrence.
Reached(j, m) == {x \in Recipients : delivered[j][m][x] > 0}

\* What a closed run says is true: it counts no delivery that did not happen,
\* at most its failures were delivered after all, and nobody is reached by a
\* message that has no run row.
RunsAreTrue ==
  /\ \A r \in run : r.status # "running" =>
       LET reached == Cardinality(Reached(r.job, Previous(r.job, r.at))) IN
       /\ r.sent <= reached /\ reached <= r.sent + r.failed
       /\ r.status = "completed" <=> r.failed = 0
  /\ \A j \in Jobs, m \in Minutes : Reached(j, m) # {} =>
       \E r \in run : r.job = j /\ Previous(j, r.at) = m

Behind(j) ==
  /\ last[j] # Never /\ Fires(j, clock) # {}
  /\ Previous(j, clock) * TicksPerMinute > last[j]

\* A schedule that ran once catches up with its latest occurrence, although
\* workers skip the rows of each other and are cut off, unless some stored
\* schedule does not parse (claim_due).
CatchesUp ==
  \A j \in Jobs : Behind(j) ~> (~Behind(j) \/ stored \intersect Malformed # {})

\* Every run is on record: a claim that no worker is working on has a run row
\* ("a failed delivery remains auditable instead of disappearing silently",
\* claim_due in app/services/scheduler.py).
ClaimsAreRecorded ==
  \A j \in Jobs :
    \/ last[j] = Never
    \/ \E r \in run : r.job = j /\ r.at = last[j]
    \/ \E w \in Workers : [job |-> j, at |-> last[j]] \in work[w].claims

-----------------------------------------------------------------------------
(* The inductive invariant behind OncePerOccurrence.                       *)

\* An occurrence that last_run_at has passed for good.
Taken(j, t) == last[j] # Never /\ t <= last[j] /\ Fires(j, t) # {}

SameOccurrence(j, t, k, v) == j = k /\ Previous(j, t) = Previous(k, v)

\* What a worker is about to claim it holds, so that it is still due.
ClaimersHoldJobs ==
  \A w \in Workers : work[w].pc = "claim" =>
    \A j \in work[w].due : lock[j] = w /\ Due(j, work[w].now)

\* Claims are never made for an occurrence that a run or a claim has.
ClaimsAreNew ==
  /\ \A r \in run : Taken(r.job, r.at)
  /\ \A w \in Workers : \A c \in work[w].claims :
       /\ Taken(c.job, c.at)
       /\ \A r \in run : ~SameOccurrence(c.job, c.at, r.job, r.at)
       /\ \A v \in Workers : \A d \in work[v].claims :
            SameOccurrence(c.job, c.at, d.job, d.at) => v = w /\ d = c

InRun(w) == work[w].pc \in {"targets", "send"}

\* A worker that delivers has a run of its own, and whoever it still has to
\* reach has not got this occurrence.
SendersAreAlone ==
  \A w \in Workers : InRun(w) =>
    /\ \E r \in run : r.job = work[w].job /\ r.at = work[w].at
    /\ \A v \in Workers : InRun(v) /\ work[v].job = work[w].job /\ work[v].at = work[w].at
         => v = w
    /\ \A x \in Recipients : work[w].pc = "targets" \/ x \in work[w].todo =>
         delivered[work[w].job][Previous(work[w].job, work[w].at)][x] = 0

\* Nobody is reached by a message that has no run row.
DeliveriesHaveRuns ==
  \A j \in Jobs, m \in Minutes : \A x \in Recipients : delivered[j][m][x] > 0 =>
    \E r \in run : r.job = j /\ Previous(j, r.at) = m

SchedulesIInv ==
  /\ TypeOK /\ OncePerOccurrence
  /\ ClaimersHoldJobs /\ ClaimsAreNew /\ SendersAreAlone /\ DeliveriesHaveRuns

-----------------------------------------------------------------------------
(* What RunsAreTrue needs besides: a second invariant on top of the first. *)

\* The run a worker delivers is open, and the worker's counts are right so far.
DeliveriesAreCounted ==
  \A w \in Workers : InRun(w) =>
    LET reached == Cardinality(Reached(work[w].job, Previous(work[w].job, work[w].at))) IN
    /\ work[w].sent <= reached /\ reached <= work[w].sent + work[w].failed
    /\ \A r \in run : r.job = work[w].job /\ r.at = work[w].at => r.status = "running"

CountsIInv == DeliveriesAreCounted /\ RunsAreTrue
=============================================================================
