------------------------------ MODULE Reports -------------------------------
(***************************************************************************)
(* The daily report: every thirty seconds each worker (daily_reports in    *)
(* app/worker.py) compares the clock, in the configured time zone, with    *)
(* the configured minute; in that minute it counts what happened in the    *)
(* last twenty-four hours (snapshot in app/services/reports.py), stores    *)
(* the counts under the local date and sends them to the administrators.   *)
(* Workers are slow, stop, and race; administrators change the settings    *)
(* while a worker reads them.                                              *)
(*                                                                         *)
(* A tick is thirty seconds, the pause between two passes of a worker.     *)
(***************************************************************************)
EXTENDS Integers, Sequences

CONSTANTS
  Workers,       \* running instances of daily_reports
  DayMinutes,    \* minutes of a day
  Zones,         \* time zones: how many minutes each is ahead of UTC
  BadZone,       \* a stored time zone that ZoneInfo does not know
  Times,         \* values stored for daily_report_time, minutes of a day or not
  Horizon,       \* the last tick
  MaxEdits       \* bound on changes of the settings

ASSUME ReportsAssumption ==
  /\ DayMinutes \in Nat \ {0} /\ Zones \subseteq Nat /\ Zones # {}
  /\ BadZone \notin Zones
  /\ \E z \in Zones : \A y \in Zones : y <= z
  /\ Times \subseteq Nat /\ Times # {}
  /\ Horizon \in Nat /\ MaxEdits \in Nat

VARIABLES
  clock,
  config,        \* daily_report_time and daily_report_timezone
  edits,         \* how many of them were changed
  report,        \* daily_reports by report_date
  sent,          \* the messages the administrators got, by date
  work,          \* local state of each worker
  prompt,        \* the workers that never fail nor lag in this behaviour
  calm           \* how long the settings have not changed

vars == <<clock, config, edits, report, sent, work, prompt, calm>>

TicksPerMinute == 2
Day == DayMinutes * TicksPerMinute

Local(t, zone) == t + zone * TicksPerMinute
DateOf(t, zone) == Local(t, zone) \div Day
MinuteOf(t, zone) == (Local(t, zone) % Day) \div TicksPerMinute

Dates == 0..DateOf(Horizon, CHOOSE z \in Zones : \A y \in Zones : y <= z)
Config == [time : Times, zone : Zones \union {BadZone}]

\* What was counted: period_start and period_end; under which settings the
\* worker did it is remembered for the properties.
Counts == [from : -Day..Horizon, to : 0..Horizon, time : Times, zone : Zones]
None == [to |-> -1]

\* Three minutes: one is over, one lies whole in the past, and one was enough
\* for the pass that began in it to end.
Settled == 3 * TicksPerMinute

Work == [pc   : {"sleep", "zone", "check", "count", "chat", "send"},
         pause : 0..1,              \* ticks left of asyncio.sleep
         now  : 0..Horizon,
         time : Times, zone : Zones,
         late : 0..1]               \* ticks since the pass began, its pause apart

Awake == [pc |-> "sleep", pause |-> 0, now |-> 0, time |-> CHOOSE t \in Times : TRUE,
          zone |-> CHOOSE z \in Zones : TRUE, late |-> 0]

-----------------------------------------------------------------------------
(* The clock and the settings.                                             *)

Pausing(w) == work[w].pc = "sleep" /\ work[w].pause > 0

\* A prompt worker begins its passes at most a minute apart: what a pass and
\* its wake-up take is less than a tick.
Tick ==
  /\ clock < Horizon
  /\ \A w \in prompt : Pausing(w) \/ work[w].late = 0
  /\ clock' = clock + 1
  /\ work' = [w \in Workers |->
       IF Pausing(w) THEN [work[w] EXCEPT !.pause = @ - 1] ELSE [work[w] EXCEPT !.late = 1]]
  /\ calm' = IF calm < Settled THEN calm + 1 ELSE calm
  /\ UNCHANGED <<config, edits, report, sent, prompt>>

\* /setsetting daily_report_time or daily_report_timezone: one row, one commit,
\* any value.
Configure(new) ==
  /\ edits < MaxEdits
  /\ \/ \E t \in Times : new = [config EXCEPT !.time = t]
     \/ \E z \in Zones \union {BadZone} : new = [config EXCEPT !.zone = z]
  /\ new # config
  /\ config' = new
  /\ edits' = edits + 1
  /\ calm' = 0
  /\ UNCHANGED <<clock, report, sent, work, prompt>>

-----------------------------------------------------------------------------
(* daily_reports.                                                          *)

Goto(w, pc) == work' = [work EXCEPT ![w].pc = pc]

Resting(w, ticks) ==
  [Awake EXCEPT !.pause = ticks, !.late = work[w].late]

\* A defect: the next pass begins a minute and a half later.
Rest_TooLong(w) == work' = [work EXCEPT ![w] = Resting(w, 3)]

\* asyncio.sleep(30), reached at the end of every pass.
Rest(w) == work' = [work EXCEPT ![w] = Resting(w, 1)]

\* The clock is read before the settings, which are two statements.
ReadTime(w) ==
  /\ work[w].pc = "sleep" /\ work[w].pause = 0
  /\ work' = [work EXCEPT ![w] =
       [@ EXCEPT !.pc = "zone", !.now = clock, !.time = config.time, !.late = 0]]
  /\ UNCHANGED <<clock, config, edits, report, sent, prompt, calm>>

Marker(w) == DateOf(work[w].now, work[w].zone)

\* A defect: a report that was missed is made up for later in the day.
InMinute_CatchUp(w, zone) == MinuteOf(work[w].now, zone) >= work[w].time

InMinute(w, zone) == MinuteOf(work[w].now, zone) = work[w].time

ReadZone(w) ==
  /\ work[w].pc = "zone" /\ config.zone \in Zones
  /\ IF InMinute(w, config.zone)
     THEN work' = [work EXCEPT ![w] = [@ EXCEPT !.pc = "check", !.zone = config.zone]]
     ELSE Rest(w)
  /\ UNCHANGED <<clock, config, edits, report, sent, prompt, calm>>

\* ZoneInfo raises: the pass is over.
UnknownZone(w) ==
  /\ work[w].pc = "zone" /\ config.zone = BadZone
  /\ Rest(w)
  /\ UNCHANGED <<clock, config, edits, report, sent, prompt, calm>>

\* FOR UPDATE on a row that does not exist locks nothing.
FindReport(w) ==
  /\ work[w].pc = "check"
  /\ IF report[Marker(w)] = None THEN Goto(w, "count") ELSE Rest(w)
  /\ UNCHANGED <<clock, config, edits, report, sent, prompt, calm>>

Snapshot(w) == [from |-> work[w].now - Day, to |-> work[w].now,
                time |-> work[w].time, zone |-> work[w].zone]

\* A defect: report_date is not unique.
StoreReport_NotUnique(w) ==
  /\ work[w].pc = "count"
  /\ report' = [report EXCEPT ![Marker(w)] = Snapshot(w)]
  /\ Goto(w, "chat")
  /\ UNCHANGED <<clock, config, edits, sent, prompt, calm>>

StoreReport(w) ==
  /\ work[w].pc = "count" /\ report[Marker(w)] = None
  /\ report' = [report EXCEPT ![Marker(w)] = Snapshot(w)]
  /\ Goto(w, "chat")
  /\ UNCHANGED <<clock, config, edits, sent, prompt, calm>>

\* Another worker was faster: the insert violates the unique date.
StoredAlready(w) ==
  /\ work[w].pc = "count" /\ report[Marker(w)] # None
  /\ Rest(w)
  /\ UNCHANGED <<clock, config, edits, report, sent, prompt, calm>>

\* admin_log_group_id is read after the commit; it may be empty, or no number.
ReadChat(w) ==
  /\ work[w].pc = "chat"
  /\ Goto(w, "send") \/ Rest(w)
  /\ UNCHANGED <<clock, config, edits, report, sent, prompt, calm>>

\* The message of this very pass; a failure is logged and not retried.
Send(w) ==
  /\ work[w].pc = "send"
  /\ \/ sent' = [sent EXCEPT ![Marker(w)] = Append(@, Snapshot(w))]
     \/ UNCHANGED sent
  /\ Rest(w)
  /\ UNCHANGED <<clock, config, edits, report, prompt, calm>>

\* A query or the whole worker fails in the middle of a pass.
Abort(w) ==
  /\ work[w].pc # "sleep"
  /\ w \notin prompt
  /\ Rest(w)
  /\ UNCHANGED <<clock, config, edits, report, sent, prompt, calm>>

-----------------------------------------------------------------------------
Init ==
  /\ clock = 0
  /\ config \in Config
  /\ edits = 0
  /\ report = [d \in Dates |-> None]
  /\ sent = [d \in Dates |-> <<>>]
  /\ work = [w \in Workers |-> Awake]
  /\ prompt \in {{}} \union {{w} : w \in Workers}
  /\ calm = 0

WorkerNext(w) ==
  \/ ReadTime(w) \/ ReadZone(w) \/ UnknownZone(w) \/ FindReport(w)
  \/ StoreReport(w) \/ StoredAlready(w) \/ ReadChat(w) \/ Send(w) \/ Abort(w)

Next ==
  \/ Tick
  \/ \E new \in Config : Configure(new)
  \/ \E w \in Workers : WorkerNext(w)

Spec == Init /\ [][Next]_vars

-----------------------------------------------------------------------------
(* Properties.                                                             *)

\* Type correctness of the stored reports and of every worker's local state.
TypeOK ==
  /\ clock \in 0..Horizon
  /\ config \in Config
  /\ edits \in 0..MaxEdits
  /\ report \in [Dates -> Counts \union {None}]
  /\ sent \in [Dates -> Seq(Counts)]
  /\ work \in [Workers -> Work]
  /\ prompt \subseteq Workers
  /\ calm \in 0..Settled

\* However many workers pass the same minute, and wherever one stops, the
\* administrators get at most one report for a date, and it says exactly what
\* is stored under that date (daily_reports: unique date, commit before send).
ReportedOnce ==
  \A d \in Dates : sent[d] = <<>> \/ sent[d] = <<report[d]>>

\* The reports of two days that follow each other, made under the same
\* settings, neither leave out nor count twice a minute or more of what
\* happened: each covers the twenty-four hours before its own minute.
WindowsMeet ==
  \A d \in Dates \ {0} :
    LET old == report[d - 1]
        new == report[d] IN
    (old # None /\ new # None /\ old.time = new.time /\ old.zone = new.zone) =>
      new.from - old.to \in (-TicksPerMinute + 1)..(TicksPerMinute - 1)

\* Tick t lies in the minute the present settings name.
Named(t) == config.zone \in Zones /\ MinuteOf(t, config.zone) = config.time

\* No day is skipped: as long as one worker needs less than thirty seconds for
\* a pass and its wake-up, has no fault, and nobody changes the settings, the
\* minute they name leaves a report for its date, although the worker pauses
\* between its passes and looks at the clock only once in each.
NoDaySkipped ==
  LET past == clock - 2 * TicksPerMinute IN
  (prompt # {} /\ calm = Settled /\ past >= 0 /\ Named(past)) =>
    report[DateOf(past, config.zone)] # None

-----------------------------------------------------------------------------
(* The inductive invariants behind the properties (Reports_proofs).        *)

\* A worker that goes on after the check of the minute is in its minute.
GoesOn(w) == work[w].pc \in {"check", "count", "chat", "send"}

RightMinute == \A w \in Workers : GoesOn(w) => InMinute(w, work[w].zone)

\* What is stored under a date was counted on it, in the minute of its
\* settings, over a day.
ReportsAreDated ==
  \A d \in Dates : report[d] # None =>
    /\ DateOf(report[d].to, report[d].zone) = d
    /\ MinuteOf(report[d].to, report[d].zone) = report[d].time
    /\ report[d].from = report[d].to - Day

\* Who is about to send a report stored it, alone, and nothing was sent yet.
SendersStored ==
  \A w \in Workers : work[w].pc \in {"chat", "send"} =>
    /\ report[Marker(w)] = Snapshot(w) /\ sent[Marker(w)] = <<>>
    /\ \A v \in Workers \ {w} : work[v].pc \in {"chat", "send"} => Marker(v) # Marker(w)

NothingSentUnstored == \A d \in Dates : report[d] = None => sent[d] = <<>>

StoreIInv ==
  /\ TypeOK
  /\ RightMinute /\ ReportsAreDated /\ SendersStored /\ NothingSentUnstored /\ ReportedOnce

\* When a prompt worker last looked at the clock: at most two ticks ago.
LastLook(w) ==
  clock - work[w].late - (IF work[w].pc = "sleep" THEN 1 - work[w].pause ELSE 0)

MinuteStart(t) == t - (t % TicksPerMinute)

\* The settings have not changed since before tick t.
CalmSince(t) == clock - calm < t

\* In the middle of a pass, the settings read are the present ones, unless
\* they changed meanwhile.
PromptReads ==
  \A w \in prompt : work[w].pc # "sleep" =>
    /\ work[w].now = LastLook(w)
    /\ CalmSince(work[w].now) => work[w].time = config.time
    /\ CalmSince(work[w].now) /\ GoesOn(w) => work[w].zone = config.zone

\* Whenever a prompt worker has looked at the clock since the beginning of the
\* minute that is named, it left a report, or its present pass is in it.
MinutesServed ==
  \A w \in prompt, t \in 0..Horizon :
    (Named(t) /\ CalmSince(MinuteStart(t)) /\ MinuteStart(t) <= LastLook(w)) =>
      \/ report[DateOf(t, config.zone)] # None
      \/ work[w].pc # "sleep" /\ MinuteStart(work[w].now) = MinuteStart(t)

PromptIInv == PromptReads /\ MinutesServed
=============================================================================
