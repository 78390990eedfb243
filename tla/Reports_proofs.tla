--------------------------- MODULE Reports_proofs ---------------------------
(***************************************************************************)
(* The daily report, for every number of workers, length of the day, set   *)
(* of time zones and of settings, and however long it runs.                *)
(*                                                                         *)
(* StoreIInv says what each worker may still assume of the reports when it *)
(* stores and sends one.  PromptIInv says where a prompt worker has looked *)
(* at the clock; that it looks into every minute is arithmetic.            *)
(***************************************************************************)
EXTENDS Reports, TLAPS

-----------------------------------------------------------------------------
(* Days and minutes.                                                       *)

\* What division by a positive number is.
LEMMA DivisionIs ==
  ASSUME NEW n \in Nat \ {0}, NEW q \in Int, NEW r \in 0..(n - 1)
  PROVE  (n * q + r) \div n = q /\ (n * q + r) % n = r
<1> DEFINE x == n * q + r
<1>1. x \in Int /\ x = n * (x \div n) + (x % n) /\ x % n \in 0..(n - 1) /\ x \div n \in Int
  OBVIOUS
<1> HIDE DEF x
<1>2. PICK p \in Int : p = x \div n
  BY <1>1
<1>3. n * q + r = n * p + (x % n)
  BY <1>1, <1>2 DEF x
<1>4. ~(p >= q + 1)
  <2> SUFFICES ASSUME p >= q + 1 PROVE FALSE
    OBVIOUS
  <2>1. n * p >= n * (q + 1) /\ n * (q + 1) = n * q + n
    OBVIOUS
  <2> QED
    BY <1>1, <1>3, <2>1
<1>5. ~(q >= p + 1)
  <2> SUFFICES ASSUME q >= p + 1 PROVE FALSE
    OBVIOUS
  <2>1. n * q >= n * (p + 1) /\ n * (p + 1) = n * p + n
    OBVIOUS
  <2> QED
    BY <1>1, <1>3, <2>1
<1>6. p = q
  BY <1>4, <1>5
<1> QED
  BY <1>1, <1>2, <1>3, <1>6 DEF x

\* The date and the minute of a tick depend on its minute alone.
LEMMA ByMinutes ==
  ASSUME ReportsAssumption, NEW t \in Nat, NEW zone \in Zones
  PROVE  /\ zone \in Nat
         /\ DateOf(t, zone) = ((t \div 2) + zone) \div DayMinutes
         /\ MinuteOf(t, zone) = ((t \div 2) + zone) % DayMinutes
<1>1. DayMinutes \in Nat \ {0} /\ zone \in Nat
  BY DEF ReportsAssumption
<1> DEFINE m == (t \div 2) + zone
<1>2. m \in Nat /\ t = 2 * (t \div 2) + (t % 2) /\ t % 2 \in 0..1
  BY <1>1
<1> HIDE DEF m
<1>3. PICK q \in Int, k \in 0..(DayMinutes - 1) :
        m = DayMinutes * q + k /\ q = m \div DayMinutes /\ k = m % DayMinutes
  BY <1>1, <1>2
<1> DEFINE r == 2 * k + (t % 2)
<1>4. r \in 0..(Day - 1) /\ Day \in Nat \ {0} /\ Day = 2 * DayMinutes
  BY <1>1, <1>2, <1>3 DEF Day, TicksPerMinute
<1>5. Local(t, zone) = Day * q + r
  <2>1. Local(t, zone) = 2 * m + (t % 2)
    BY <1>1, <1>2 DEF Local, TicksPerMinute, m
  <2>2. 2 * m = (2 * DayMinutes) * q + 2 * k
    BY <1>1, <1>3
  <2>3. Day * q = (2 * DayMinutes) * q
    BY <1>4
  <2>4. PICK x \in Int : x = Day * q
    BY <1>4
  <2>5. 2 * m = x + 2 * k
    BY <2>2, <2>3, <2>4
  <2>6. 2 * m + (t % 2) = x + r
    BY <1>2, <1>3, <2>4, <2>5
  <2> QED
    BY <2>1, <2>4, <2>6
<1>6. r \div 2 = k
  <2>1. PICK e \in 0..1 : e = t % 2
    BY <1>2
  <2>2. (2 * k + e) \div 2 = k
    BY <1>3, <2>1
  <2> QED
    BY <2>1, <2>2
<1> HIDE DEF r
<1>7. Local(t, zone) \div Day = q /\ Local(t, zone) % Day = r
  BY <1>4, <1>5, DivisionIs
<1> QED
  BY <1>1, <1>3, <1>6, <1>7 DEF DateOf, MinuteOf, TicksPerMinute, m

\* Two ticks of one minute have one date.
LEMMA SameMinute ==
  ASSUME ReportsAssumption, NEW t \in Nat, NEW u \in Nat, NEW zone \in Zones,
         MinuteStart(t) = MinuteStart(u)
  PROVE  DateOf(t, zone) = DateOf(u, zone) /\ MinuteOf(t, zone) = MinuteOf(u, zone)
<1>1. t \div 2 = u \div 2
  BY DEF MinuteStart, TicksPerMinute
<1> QED
  BY <1>1, ByMinutes

\* Every tick of a run has a date that reports can be stored under.
LEMMA DatesOfTicks ==
  ASSUME ReportsAssumption, NEW t \in 0..Horizon, NEW zone \in Zones
  PROVE  DateOf(t, zone) \in Dates
<1> DEFINE last == CHOOSE z \in Zones : \A y \in Zones : y <= z
<1>1. last \in Zones /\ zone <= last
  BY DEF ReportsAssumption
<1>2. Dates = 0..DateOf(Horizon, last)
  BY DEF Dates
<1> HIDE DEF last
<1>3. Horizon \in Nat /\ t \in Nat /\ zone \in Nat /\ last \in Nat /\ DayMinutes \in Nat \ {0}
  BY <1>1 DEF ReportsAssumption
<1> DEFINE a == (t \div 2) + zone
           b == (Horizon \div 2) + last
<1>4. a \in Nat /\ b \in Nat /\ a <= b
  <2>1. t \div 2 <= Horizon \div 2
    BY <1>3
  <2> QED
    BY <1>1, <1>3, <2>1
<1>5. DateOf(t, zone) = a \div DayMinutes /\ DateOf(Horizon, last) = b \div DayMinutes
  BY <1>1, <1>3, ByMinutes
<1> HIDE DEF a, b
<1>6. PICK p \in Int, q \in Int : p = a \div DayMinutes /\ q = b \div DayMinutes
  BY <1>3, <1>4
<1>7. /\ DayMinutes * p <= a /\ a < DayMinutes * p + DayMinutes
      /\ DayMinutes * q <= b /\ b < DayMinutes * q + DayMinutes
  BY <1>3, <1>4, <1>6
<1>8. p >= 0
  <2> SUFFICES ASSUME p <= -1 PROVE FALSE
    OBVIOUS
  <2>1. DayMinutes * p <= -DayMinutes
    BY <1>3
  <2> QED
    BY <1>3, <1>4, <1>7, <2>1
<1>9. p <= q
  <2> SUFFICES ASSUME p >= q + 1 PROVE FALSE
    OBVIOUS
  <2>1. DayMinutes * p >= DayMinutes * (q + 1) /\ DayMinutes * (q + 1) = DayMinutes * q + DayMinutes
    BY <1>3
  <2> QED
    BY <1>3, <1>4, <1>7, <2>1
<1> QED
  BY <1>2, <1>5, <1>6, <1>8, <1>9

-----------------------------------------------------------------------------
(* Types.                                                                  *)

\* The record a worker rests with.
LEMMA RestingIs ==
  ASSUME ReportsAssumption, TypeOK, NEW w \in Workers
  PROVE  /\ Awake \in Work /\ Resting(w, 1) \in Work
         /\ Resting(w, 1).pc = "sleep" /\ Resting(w, 1).pause = 1
         /\ Resting(w, 1).late = work[w].late
<1>1. (CHOOSE t \in Times : TRUE) \in Times /\ (CHOOSE z \in Zones : TRUE) \in Zones
  BY DEF ReportsAssumption
<1>2. Awake \in Work /\ Awake.pc = "sleep"
  BY <1>1 DEF Awake, Work, ReportsAssumption
<1>3. work[w].late \in 0..1 /\ 1 \in 0..1
  BY DEF TypeOK, Work
<1>4. Resting(w, 1) = [Awake EXCEPT !.pause = 1, !.late = work[w].late]
  BY DEF Resting
<1> HIDE DEF Awake
<1>5. Resting(w, 1) \in Work
  BY <1>2, <1>3, <1>4 DEF Work
<1> QED
  BY <1>2, <1>4, <1>5 DEF Work

\* The reports a worker stores and sends are well formed, and so is their date.
LEMMA SnapshotTypes ==
  ASSUME ReportsAssumption, TypeOK, NEW w \in Workers
  PROVE  /\ Snapshot(w) \in Counts /\ Snapshot(w) # None
         /\ Marker(w) \in Dates
         /\ work[w].now \in Nat /\ work[w].zone \in Zones
<1>1. work[w].now \in 0..Horizon /\ work[w].time \in Times /\ work[w].zone \in Zones
  BY DEF TypeOK, Work
<1>2. Day \in Nat \ {0} /\ Horizon \in Nat
  BY DEF ReportsAssumption, Day, TicksPerMinute
<1>3. work[w].now - Day \in -Day..Horizon
  BY <1>1, <1>2
<1>4. Snapshot(w) \in Counts
  BY <1>1, <1>3 DEF Snapshot, Counts
<1>5. Snapshot(w) # None
  <2>1. Snapshot(w).to # None.to
    BY <1>1, <1>2 DEF Snapshot, None
  <2> QED
    BY <2>1
<1>6. Marker(w) \in Dates
  BY <1>1, DatesOfTicks DEF Marker
<1> QED
  BY <1>1, <1>2, <1>4, <1>5, <1>6

\* A step of a worker keeps the types, and no other worker's state changes.
LEMMA WorkerKeepsTypes ==
  ASSUME ReportsAssumption, TypeOK, NEW w \in Workers, WorkerNext(w)
  PROVE  TypeOK' /\ \A v \in Workers \ {w} : work'[v] = work[v]
<1>1. /\ work \in [Workers -> Work] /\ work[w] \in Work
      /\ Resting(w, 1) \in Work /\ Snapshot(w) \in Counts /\ Marker(w) \in Dates
      /\ UNCHANGED <<clock, config, edits, prompt, calm>>
  BY RestingIs, SnapshotTypes
     DEF TypeOK, WorkerNext, ReadTime, ReadZone, UnknownZone, FindReport, StoreReport,
         StoredAlready, ReadChat, Send, Abort
<1>2. clock \in 0..Horizon /\ config.time \in Times /\ 0 \in 0..1
  BY DEF TypeOK, Config
<1>3. \A pc \in {"check", "count", "chat", "send"} : [work[w] EXCEPT !.pc = pc] \in Work
  BY <1>1 DEF Work
<1>4. [work[w] EXCEPT !.pc = "zone", !.now = clock, !.time = config.time, !.late = 0] \in Work
  BY <1>1, <1>2 DEF Work
<1>5. config.zone \in Zones => [work[w] EXCEPT !.pc = "check", !.zone = config.zone] \in Work
  BY <1>1 DEF Work
<1>6. \E next \in Work : work' = [work EXCEPT ![w] = next]
  BY <1>1, <1>3, <1>4, <1>5
     DEF WorkerNext, ReadTime, ReadZone, UnknownZone, FindReport, StoreReport,
         StoredAlready, ReadChat, Send, Abort, Rest, Goto
<1>7. report' = report \/ report' = [report EXCEPT ![Marker(w)] = Snapshot(w)]
  BY DEF WorkerNext, ReadTime, ReadZone, UnknownZone, FindReport, StoreReport,
         StoredAlready, ReadChat, Send, Abort
<1>8. sent' = sent \/ sent' = [sent EXCEPT ![Marker(w)] = Append(@, Snapshot(w))]
  BY DEF WorkerNext, ReadTime, ReadZone, UnknownZone, FindReport, StoreReport,
         StoredAlready, ReadChat, Send, Abort
<1>9. report' \in [Dates -> Counts \union {None}] /\ sent' \in [Dates -> Seq(Counts)]
  <2>1. report \in [Dates -> Counts \union {None}] /\ sent \in [Dates -> Seq(Counts)]
    BY DEF TypeOK
  <2>2. PICK d \in Dates, new \in Counts : d = Marker(w) /\ new = Snapshot(w)
    BY <1>1
  <2>3. report' \in [Dates -> Counts \union {None}]
    BY <1>7, <2>1, <2>2
  <2>4. Append(sent[d], new) \in Seq(Counts)
    BY <2>1
  <2>5. sent' \in [Dates -> Seq(Counts)]
    BY <1>8, <2>1, <2>2, <2>4
  <2> QED
    BY <2>3, <2>5
<1>10. work' \in [Workers -> Work] /\ \A v \in Workers \ {w} : work'[v] = work[v]
  BY <1>1, <1>6
<1> QED
  BY <1>1, <1>9, <1>10 DEF TypeOK

\* A tick changes nothing in a worker but its pause and its delay.
LEMMA TickKeepsWork ==
  ASSUME TypeOK, Tick, NEW w \in Workers
  PROVE  /\ work'[w] \in Work
         /\ work'[w].pc = work[w].pc /\ work'[w].now = work[w].now
         /\ work'[w].time = work[w].time /\ work'[w].zone = work[w].zone
         /\ IF Pausing(w)
            THEN work'[w].pause = work[w].pause - 1 /\ work'[w].late = work[w].late
            ELSE work'[w].pause = work[w].pause /\ work'[w].late = 1
<1>1. work[w] \in Work
  BY DEF TypeOK
<1>2. CASE Pausing(w)
  <2>1. work'[w] = [work[w] EXCEPT !.pause = work[w].pause - 1]
    BY <1>2 DEF Tick
  <2>2. work[w].pause - 1 \in 0..1
    BY <1>1, <1>2 DEF Pausing, Work
  <2> QED
    BY <1>1, <1>2, <2>1, <2>2 DEF Work
<1>3. CASE ~Pausing(w)
  <2>1. work'[w] = [work[w] EXCEPT !.late = 1]
    BY <1>3 DEF Tick
  <2> QED
    BY <1>1, <1>3, <2>1 DEF Work
<1> QED
  BY <1>2, <1>3

\* Every step keeps the types.
LEMMA TypesKept ==
  ASSUME ReportsAssumption, TypeOK, [Next]_vars
  PROVE  TypeOK'
<1>1. CASE Tick
  <2>1. clock' \in 0..Horizon /\ calm' \in 0..Settled
    BY <1>1 DEF Tick, TypeOK, ReportsAssumption, Settled, TicksPerMinute
  <2>2. DOMAIN work' = Workers /\ work' = [w \in Workers |-> work'[w]]
    BY <1>1 DEF Tick
  <2>3. work' \in [Workers -> Work]
    BY <1>1, <2>2, TickKeepsWork
  <2> QED
    BY <1>1, <2>1, <2>3 DEF Tick, TypeOK
<1>2. CASE \E new \in Config : Configure(new)
  BY <1>2 DEF Configure, TypeOK, ReportsAssumption, Settled, TicksPerMinute
<1>3. CASE \E w \in Workers : WorkerNext(w)
  BY <1>3, WorkerKeepsTypes
<1>4. CASE UNCHANGED vars
  BY <1>4 DEF vars, TypeOK
<1> QED
  BY <1>1, <1>2, <1>3, <1>4 DEF Next

\* The first state has the types.
LEMMA TypesInitially ==
  ASSUME ReportsAssumption, Init
  PROVE  TypeOK
<1>1. Awake \in Work
  <2>1. (CHOOSE t \in Times : TRUE) \in Times /\ (CHOOSE z \in Zones : TRUE) \in Zones
    BY DEF ReportsAssumption
  <2> QED
    BY <2>1 DEF Awake, Work, ReportsAssumption
<1>2. 0 \in 0..Horizon /\ 0 \in 0..MaxEdits /\ 0 \in 0..Settled
  BY DEF ReportsAssumption, Settled, TicksPerMinute
<1>3. report \in [Dates -> Counts \union {None}] /\ sent \in [Dates -> Seq(Counts)]
  BY DEF Init
<1> QED
  BY <1>1, <1>2, <1>3 DEF Init, TypeOK

\* Type correctness of the stored reports and of every worker's local state.
THEOREM ReportsKeepTypes == Spec => []TypeOK
<1>1. Init => TypeOK
  BY TypesInitially, ReportsAssumption
<1>2. TypeOK /\ [Next]_vars => TypeOK'
  BY TypesKept, ReportsAssumption
<1> QED
  BY <1>1, <1>2, PTL DEF Spec

-----------------------------------------------------------------------------
(* What is stored and what is sent.                                        *)

\* A worker that does not go further than it is keeps what it has read.
Stays(w) ==
  /\ work'[w].now = work[w].now /\ work'[w].time = work[w].time
  /\ work'[w].zone = work[w].zone

\* Steps that store and send nothing: whoever goes on read what it goes by
\* before, and whoever is about to send was about to.
LEMMA QuietKeepsStore ==
  ASSUME StoreIInv, TypeOK', UNCHANGED <<report, sent>>, RightMinute',
         \A w \in Workers : work'[w].pc \in {"chat", "send"} =>
           work[w].pc \in {"chat", "send"} /\ Stays(w)
  PROVE  StoreIInv'
<1>1. ASSUME NEW w \in Workers, work'[w].pc \in {"chat", "send"}
      PROVE  work[w].pc \in {"chat", "send"} /\ Marker(w)' = Marker(w) /\ Snapshot(w)' = Snapshot(w)
  BY <1>1 DEF Stays, Marker, Snapshot
<1>2. SendersStored'
  BY <1>1 DEF StoreIInv, SendersStored
<1>3. ReportsAreDated' /\ NothingSentUnstored' /\ ReportedOnce'
  BY DEF StoreIInv, ReportsAreDated, NothingSentUnstored, ReportedOnce
<1> QED
  BY <1>2, <1>3 DEF StoreIInv

\* A worker stays in the minute it goes on in.
LEMMA RightMinuteKept ==
  ASSUME StoreIInv,
         \A w \in Workers : GoesOn(w)' => (GoesOn(w) \/ InMinute(w, work[w].zone)) /\ Stays(w)
  PROVE  RightMinute'
<1>1. ASSUME NEW w \in Workers, Stays(w), InMinute(w, work[w].zone)
      PROVE  InMinute(w, work[w].zone)'
  BY <1>1 DEF Stays, InMinute
<1> QED
  BY <1>1 DEF StoreIInv, RightMinute

\* A worker stores its report: nobody else could be about to send one of the
\* same date, for it would be stored already.
LEMMA StoringKeepsStore ==
  ASSUME ReportsAssumption, StoreIInv, TypeOK', NEW w \in Workers, StoreReport(w)
  PROVE  StoreIInv'
<1> DEFINE m == Marker(w)
           new == Snapshot(w)
<1>1. /\ m \in Dates /\ new # None
      /\ report[m] = None /\ report' = [report EXCEPT ![m] = new] /\ sent' = sent
      /\ report \in [Dates -> Counts \union {None}] /\ work \in [Workers -> Work]
  BY SnapshotTypes DEF StoreReport, StoreIInv, TypeOK
<1>2. /\ work' = [work EXCEPT ![w].pc = "chat"] /\ work[w].pc = "count"
      /\ work[w] \in Work
  BY <1>1 DEF StoreReport, Goto
<1>3. /\ work'[w].pc = "chat" /\ Stays(w)
      /\ \A v \in Workers \ {w} : work'[v] = work[v]
  BY <1>1, <1>2 DEF Stays, Work
<1>4. /\ \A v \in Workers : Marker(v)' = Marker(v) /\ Snapshot(v)' = Snapshot(v)
  BY <1>3 DEF Stays, Marker, Snapshot
<1>5. RightMinute'
  <2>1. \A v \in Workers : GoesOn(v)' => GoesOn(v) /\ Stays(v)
    BY <1>2, <1>3 DEF GoesOn, Stays
  <2> QED
    BY <2>1, RightMinuteKept
<1>6. /\ DateOf(new.to, new.zone) = m /\ new.from = new.to - Day
      /\ MinuteOf(new.to, new.zone) = new.time
  BY <1>2 DEF Snapshot, Marker, StoreIInv, RightMinute, GoesOn, InMinute
<1>7. sent[m] = <<>>
  BY <1>1 DEF StoreIInv, NothingSentUnstored
<1>8. \A v \in Workers \ {w} : work[v].pc \in {"chat", "send"} => Marker(v) # m
  <2> SUFFICES ASSUME NEW v \in Workers \ {w}, work[v].pc \in {"chat", "send"}, Marker(v) = m
               PROVE  FALSE
    OBVIOUS
  <2>1. report[Marker(v)] = Snapshot(v) /\ Snapshot(v) # None
    BY SnapshotTypes DEF StoreIInv, SendersStored
  <2> QED
    BY <1>1, <2>1
<1> HIDE DEF m, new
<1>9. ReportsAreDated'
  <2> SUFFICES ASSUME NEW d \in Dates, report'[d] # None
               PROVE  /\ DateOf(report'[d].to, report'[d].zone) = d
                      /\ MinuteOf(report'[d].to, report'[d].zone) = report'[d].time
                      /\ report'[d].from = report'[d].to - Day
    BY DEF ReportsAreDated, DateOf, MinuteOf, Local
  <2>1. CASE d = m
    BY <1>1, <1>6, <2>1
  <2>2. CASE d # m
    BY <1>1, <2>2 DEF StoreIInv, ReportsAreDated
  <2> QED
    BY <2>1, <2>2
<1>10. NothingSentUnstored' /\ ReportedOnce'
  <2> SUFFICES ASSUME NEW d \in Dates
               PROVE  /\ report'[d] = None => sent'[d] = <<>>
                      /\ sent'[d] = <<>> \/ sent'[d] = <<report'[d]>>
    BY DEF NothingSentUnstored, ReportedOnce
  <2>1. CASE d = m
    BY <1>1, <1>7, <2>1
  <2>2. CASE d # m
    BY <1>1, <2>2 DEF StoreIInv, NothingSentUnstored, ReportedOnce
  <2> QED
    BY <2>1, <2>2
<1>11. SendersStored'
  <2> SUFFICES ASSUME NEW v \in Workers, work'[v].pc \in {"chat", "send"}
               PROVE  /\ report'[Marker(v)] = Snapshot(v) /\ sent[Marker(v)] = <<>>
                      /\ \A x \in Workers \ {v} : work'[x].pc \in {"chat", "send"} =>
                           Marker(x) # Marker(v)
    BY <1>1, <1>4 DEF SendersStored
  <2>1. CASE v = w
    <3>1. Marker(v) = m /\ Snapshot(v) = new
      BY <2>1 DEF m, new
    <3> QED
      BY <1>1, <1>3, <1>7, <1>8, <2>1, <3>1
  <2>2. CASE v # w
    <3>1. work[v].pc \in {"chat", "send"} /\ Marker(v) # m
      BY <1>3, <1>8, <2>2
    <3>2. /\ report[Marker(v)] = Snapshot(v) /\ sent[Marker(v)] = <<>>
          /\ \A x \in Workers \ {v} : work[x].pc \in {"chat", "send"} => Marker(x) # Marker(v)
      BY <3>1 DEF StoreIInv, SendersStored
    <3>3. report'[Marker(v)] = report[Marker(v)]
      <4>1. Marker(v) \in Dates
        BY SnapshotTypes DEF StoreIInv
      <4> QED
        BY <1>1, <3>1, <4>1
    <3>4. Marker(w) = m
      BY DEF m
    <3> QED
      BY <1>3, <3>1, <3>2, <3>3, <3>4
  <2> QED
    BY <2>1, <2>2
<1> QED
  BY <1>5, <1>9, <1>10, <1>11 DEF StoreIInv

\* A worker sends what it stored, alone: the date got nothing before.
LEMMA SendingKeepsStore ==
  ASSUME ReportsAssumption, StoreIInv, TypeOK', NEW w \in Workers, Send(w)
  PROVE  StoreIInv'
<1> DEFINE m == Marker(w)
           new == Snapshot(w)
<1>1. /\ m \in Dates /\ report' = report /\ work[w].pc = "send"
      /\ sent \in [Dates -> Seq(Counts)] /\ work \in [Workers -> Work]
      /\ sent' = sent \/ sent' = [sent EXCEPT ![m] = Append(sent[m], new)]
  BY SnapshotTypes DEF Send, StoreIInv, TypeOK
<1>2. /\ work'[w].pc = "sleep"
      /\ \A v \in Workers \ {w} : work'[v] = work[v]
  BY <1>1, RestingIs DEF Send, Rest, StoreIInv
<1>3. RightMinute'
  <2>1. \A v \in Workers : GoesOn(v)' => GoesOn(v) /\ Stays(v)
    BY <1>2 DEF GoesOn, Stays
  <2> QED
    BY <2>1, RightMinuteKept
<1>4. CASE sent' = sent
  <2>1. \A v \in Workers : work'[v].pc \in {"chat", "send"} =>
           work[v].pc \in {"chat", "send"} /\ Stays(v)
    BY <1>2 DEF Stays
  <2> QED
    BY <1>1, <1>3, <1>4, <2>1, QuietKeepsStore
<1>5. CASE sent' = [sent EXCEPT ![m] = Append(sent[m], new)]
  <2>1. report[m] = new /\ sent[m] = <<>> /\ new # None
    BY <1>1, SnapshotTypes DEF StoreIInv, SendersStored
  <2>2. \A v \in Workers \ {w} : work[v].pc \in {"chat", "send"} => Marker(v) # m
    BY <1>1 DEF StoreIInv, SendersStored
  <2>3. new \in Counts /\ Append(<<>>, new) = <<new>>
    BY SnapshotTypes DEF StoreIInv
  <2> HIDE DEF m, new
  <2>4. sent'[m] = <<new>> /\ \A d \in Dates \ {m} : sent'[d] = sent[d]
    BY <1>1, <1>5, <2>1, <2>3
  <2>5. NothingSentUnstored' /\ ReportedOnce' /\ ReportsAreDated'
    BY <1>1, <2>1, <2>4 DEF StoreIInv, NothingSentUnstored, ReportedOnce, ReportsAreDated
  <2>6. SendersStored'
    <3> SUFFICES ASSUME NEW v \in Workers, work'[v].pc \in {"chat", "send"}
                 PROVE  /\ report[Marker(v)] = Snapshot(v) /\ sent'[Marker(v)] = <<>>
                        /\ Marker(v)' = Marker(v) /\ Snapshot(v)' = Snapshot(v)
                        /\ \A x \in Workers \ {v} : work'[x].pc \in {"chat", "send"} =>
                             Marker(x)' # Marker(v)
      BY <1>1 DEF SendersStored
    <3>1. v # w /\ work'[v] = work[v]
      BY <1>2
    <3>2. /\ report[Marker(v)] = Snapshot(v) /\ sent[Marker(v)] = <<>> /\ Marker(v) # m
          /\ \A x \in Workers \ {v} : work[x].pc \in {"chat", "send"} => Marker(x) # Marker(v)
      BY <2>2, <3>1 DEF StoreIInv, SendersStored
    <3>3. Marker(v) \in Dates
      BY SnapshotTypes DEF StoreIInv
    <3>4. Marker(v)' = Marker(v) /\ Snapshot(v)' = Snapshot(v)
      BY <3>1 DEF Marker, Snapshot
    <3>5. ASSUME NEW x \in Workers \ {v}, work'[x].pc \in {"chat", "send"}
          PROVE  Marker(x)' # Marker(v)
      <4>1. work'[x] = work[x]
        BY <1>2, <3>5
      <4>2. Marker(x)' = Marker(x)
        BY <4>1 DEF Marker
      <4> QED
        BY <3>2, <3>5, <4>1, <4>2
    <3> QED
      BY <2>4, <3>2, <3>3, <3>4, <3>5
  <2> QED
    BY <1>3, <2>5, <2>6 DEF StoreIInv
<1> QED
  BY <1>1, <1>4, <1>5

\* Every step keeps what is stored and what is sent in agreement.
LEMMA StoreKept ==
  ASSUME ReportsAssumption, StoreIInv, [Next]_vars
  PROVE  StoreIInv'
<1>1. TypeOK'
  BY TypesKept DEF StoreIInv
<1>2. ASSUME UNCHANGED <<report, sent>>, \A w \in Workers : work'[w].pc = work[w].pc /\ Stays(w)
      PROVE  StoreIInv'
  <2>1. RightMinute'
    BY <1>2, RightMinuteKept DEF GoesOn
  <2> QED
    BY <1>1, <1>2, <2>1, QuietKeepsStore
<1>3. CASE Tick
  <2>1. \A w \in Workers : work'[w].pc = work[w].pc /\ Stays(w)
    BY <1>3, TickKeepsWork DEF StoreIInv, Stays
  <2> QED
    BY <1>2, <1>3, <2>1 DEF Tick
<1>4. CASE (\E new \in Config : Configure(new)) \/ UNCHANGED vars
  BY <1>2, <1>4 DEF Configure, vars, Stays
<1>5. ASSUME NEW w \in Workers, WorkerNext(w)
      PROVE  StoreIInv'
  <2>1. /\ \A v \in Workers \ {w} : work'[v] = work[v]
        /\ work[w] \in Work /\ work \in [Workers -> Work]
    BY <1>5, WorkerKeepsTypes DEF StoreIInv, TypeOK
  <2>2. ASSUME UNCHANGED <<report, sent>>,
               GoesOn(w)' => (GoesOn(w) \/ InMinute(w, work[w].zone)) /\ Stays(w),
               work'[w].pc \in {"chat", "send"} => work[w].pc \in {"chat", "send"} /\ Stays(w)
        PROVE  StoreIInv'
    <3>1. RightMinute'
      BY <2>1, <2>2, RightMinuteKept DEF GoesOn, Stays
    <3> QED
      BY <1>1, <2>1, <2>2, <3>1, QuietKeepsStore DEF Stays
  <2>3. ASSUME Rest(w), UNCHANGED <<report, sent>>
        PROVE  StoreIInv'
    <3>1. work'[w].pc = "sleep"
      BY <2>1, <2>3, RestingIs DEF Rest, StoreIInv
    <3> QED
      BY <2>2, <2>3, <3>1 DEF GoesOn
  <2>4. CASE ReadTime(w)
    <3>1. work'[w].pc = "zone"
      BY <2>1, <2>4 DEF ReadTime, Work
    <3> QED
      BY <2>2, <2>4, <3>1 DEF GoesOn, ReadTime
  <2>5. CASE ReadZone(w)
    <3>1. CASE InMinute(w, config.zone)
      <4>1. /\ work'[w].pc = "check" /\ work'[w].zone = config.zone
            /\ work'[w].now = work[w].now /\ work'[w].time = work[w].time
        <5>1. work' = [work EXCEPT ![w] = [work[w] EXCEPT !.pc = "check",
                                                          !.zone = config.zone]]
          BY <2>5, <3>1 DEF ReadZone
        <5> QED
          BY <2>1, <5>1 DEF Work
      <4>2. InMinute(w, work[w].zone)'
        BY <3>1, <4>1 DEF InMinute
      <4>3. ASSUME NEW v \in Workers \ {w}, GoesOn(v)'
            PROVE  InMinute(v, work[v].zone)'
        BY <2>1, <4>3 DEF GoesOn, InMinute, StoreIInv, RightMinute
      <4>4. RightMinute'
        BY <4>2, <4>3 DEF RightMinute
      <4> QED
        BY <1>1, <2>1, <2>5, <4>1, <4>4, QuietKeepsStore DEF ReadZone, Stays
    <3>2. CASE ~InMinute(w, config.zone)
      BY <2>3, <2>5, <3>2 DEF ReadZone
    <3> QED
      BY <3>1, <3>2
  <2>6. CASE FindReport(w)
    <3>1. CASE Goto(w, "count")
      <4>1. work'[w].pc = "count" /\ Stays(w) /\ GoesOn(w)
        BY <2>1, <2>6, <3>1 DEF FindReport, Goto, Work, Stays, GoesOn
      <4> QED
        BY <2>2, <2>6, <4>1 DEF FindReport
    <3> QED
      BY <2>3, <2>6, <3>1 DEF FindReport
  <2>7. CASE ReadChat(w)
    <3>1. CASE Goto(w, "send")
      <4>1. work[w].pc = "chat" /\ Stays(w) /\ GoesOn(w)
        BY <2>1, <2>7, <3>1 DEF ReadChat, Goto, Work, Stays, GoesOn
      <4> QED
        BY <2>2, <2>7, <4>1 DEF ReadChat
    <3> QED
      BY <2>3, <2>7, <3>1 DEF ReadChat
  <2>8. CASE UnknownZone(w) \/ StoredAlready(w) \/ Abort(w)
    BY <2>3, <2>8 DEF UnknownZone, StoredAlready, Abort
  <2> QED
    BY <1>1, <1>5, <2>4, <2>5, <2>6, <2>7, <2>8, StoringKeepsStore, SendingKeepsStore
       DEF WorkerNext
<1> QED
  BY <1>3, <1>4, <1>5 DEF Next

\* Nothing is stored at first.
LEMMA StoreInitially ==
  ASSUME ReportsAssumption, Init
  PROVE  StoreIInv
<1>1. TypeOK
  BY TypesInitially
<1>2. /\ \A d \in Dates : report[d] = None /\ sent[d] = <<>>
      /\ \A w \in Workers : work[w].pc = "sleep"
  BY DEF Init, Awake
<1> QED
  BY <1>1, <1>2 DEF StoreIInv, RightMinute, GoesOn, ReportsAreDated, SendersStored,
     NothingSentUnstored, ReportedOnce

\* The store holds in every behaviour.
LEMMA StoreAlways == Spec => []StoreIInv
<1>1. Init => StoreIInv
  BY StoreInitially, ReportsAssumption
<1>2. StoreIInv /\ [Next]_vars => StoreIInv'
  BY StoreKept, ReportsAssumption
<1> QED
  BY <1>1, <1>2, PTL DEF Spec

\* However many workers pass the same minute, and wherever one stops, the
\* administrators get at most one report for a date, and it says exactly what
\* is stored under that date.
THEOREM ReportsTellOnce == Spec => []ReportedOnce
<1>1. StoreIInv => ReportedOnce
  BY DEF StoreIInv
<1> QED
  BY <1>1, StoreAlways, PTL

\* The reports of two days that follow each other, made under the same
\* settings, neither leave out nor count twice a minute or more.
THEOREM ReportsMeet == Spec => []WindowsMeet
<1>1. StoreIInv => WindowsMeet
  <2> SUFFICES ASSUME StoreIInv, NEW d \in Dates \ {0},
                      report[d - 1] # None, report[d] # None,
                      report[d - 1].time = report[d].time, report[d - 1].zone = report[d].zone
               PROVE  report[d].from - report[d - 1].to \in
                        (-TicksPerMinute + 1)..(TicksPerMinute - 1)
    BY DEF WindowsMeet
  <2> DEFINE t == report[d - 1].to
             u == report[d].to
             zone == report[d].zone
  <2>1. d \in Int /\ d - 1 \in Dates
    <3>1. PICK last \in Int : last = DateOf(Horizon, CHOOSE z \in Zones : \A y \in Zones : y <= z)
      <4>1. PICK z \in Zones : z = CHOOSE x \in Zones : \A y \in Zones : y <= x
        BY ReportsAssumption DEF ReportsAssumption
      <4>2. Horizon \in Nat /\ DayMinutes \in Nat \ {0} /\ z \in Nat
        BY ReportsAssumption DEF ReportsAssumption
      <4>3. DateOf(Horizon, z) = ((Horizon \div 2) + z) \div DayMinutes
        BY <4>2, ByMinutes, ReportsAssumption
      <4>4. (Horizon \div 2) + z \in Nat
        BY <4>2
      <4>5. DateOf(Horizon, z) \in Int
        BY <4>2, <4>3, <4>4
      <4> QED
        BY <4>1, <4>5
    <3> QED
      BY <3>1 DEF Dates
  <2>2. report[d] \in Counts /\ report[d - 1] \in Counts
    BY <2>1 DEF StoreIInv, TypeOK
  <2>3. t \in Nat /\ u \in Nat /\ zone \in Zones
    BY <2>2, ReportsAssumption DEF Counts, ReportsAssumption
  <2>4. /\ DateOf(t, zone) = d - 1 /\ DateOf(u, zone) = d
        /\ MinuteOf(t, zone) = MinuteOf(u, zone) /\ report[d].from = u - Day
    BY <2>1 DEF StoreIInv, ReportsAreDated
  <2> HIDE DEF t, u, zone
  <2>5. DayMinutes \in Nat \ {0} /\ zone \in Nat
    BY <2>3, ReportsAssumption DEF ReportsAssumption
  <2> DEFINE a == (t \div 2) + zone
             b == (u \div 2) + zone
  <2>6. a \in Nat /\ b \in Nat
    BY <2>3, <2>5
  <2>7. a \div DayMinutes = d - 1 /\ b \div DayMinutes = d /\ a % DayMinutes = b % DayMinutes
    <3>1. DateOf(t, zone) = a \div DayMinutes /\ MinuteOf(t, zone) = a % DayMinutes
      BY <2>3, ByMinutes, ReportsAssumption
    <3>2. DateOf(u, zone) = b \div DayMinutes /\ MinuteOf(u, zone) = b % DayMinutes
      BY <2>3, ByMinutes, ReportsAssumption
    <3> QED
      BY <2>4, <3>1, <3>2
  <2> HIDE DEF a, b
  <2>8. b - a = DayMinutes
    <3>1. /\ a = DayMinutes * (a \div DayMinutes) + (a % DayMinutes)
          /\ b = DayMinutes * (b \div DayMinutes) + (b % DayMinutes)
          /\ a % DayMinutes \in Int
      BY <2>5, <2>6
    <3>2. DayMinutes * d = DayMinutes * (d - 1) + DayMinutes
      BY <2>1, <2>5
    <3>3. DayMinutes * d \in Int /\ DayMinutes * (d - 1) \in Int
      BY <2>1, <2>5
    <3> QED
      BY <2>5, <2>7, <3>1, <3>2, <3>3
  <2>9. (u \div 2) - (t \div 2) = DayMinutes
    BY <2>3, <2>5, <2>8 DEF a, b
  <2> QED
    BY <2>3, <2>4, <2>5, <2>9 DEF Day, TicksPerMinute, t, u
<1> QED
  BY <1>1, StoreAlways, PTL

-----------------------------------------------------------------------------
(* No day is skipped.                                                      *)

\* What PromptIInv says of one worker, and of one tick.
Reads(w) ==
  work[w].pc # "sleep" =>
    /\ work[w].now = LastLook(w)
    /\ CalmSince(work[w].now) => work[w].time = config.time
    /\ CalmSince(work[w].now) /\ GoesOn(w) => work[w].zone = config.zone

InPass(w, t) == work[w].pc # "sleep" /\ MinuteStart(work[w].now) = MinuteStart(t)

Reported(t) == report[DateOf(t, config.zone)] # None

Serves(w, t) ==
  (Named(t) /\ CalmSince(MinuteStart(t)) /\ MinuteStart(t) <= LastLook(w)) =>
    Reported(t) \/ InPass(w, t)

\* Where a minute begins.
LEMMA MinuteStartIs ==
  ASSUME NEW t \in Nat
  PROVE  /\ MinuteStart(t) \in Nat /\ MinuteStart(t) \in {t - 1, t}
         /\ \A u \in Nat : MinuteStart(t) \in {u - 1, u} => MinuteStart(u) = MinuteStart(t)
<1>1. t % 2 \in 0..1 /\ t % 2 <= t /\ t = 2 * (t \div 2) + (t % 2) /\ t \div 2 \in Nat
  OBVIOUS
<1>2. MinuteStart(t) = 2 * (t \div 2)
  BY <1>1 DEF MinuteStart, TicksPerMinute
<1>3. ASSUME NEW u \in Nat, MinuteStart(t) \in {u - 1, u}
      PROVE  MinuteStart(u) = MinuteStart(t)
  <2>1. u = 2 * (t \div 2) \/ u = 2 * (t \div 2) + 1
    BY <1>1, <1>2, <1>3
  <2>2. u - (u % 2) = 2 * (t \div 2)
    BY <1>1, <2>1
  <2> QED
    BY <1>2, <2>2 DEF MinuteStart, TicksPerMinute
<1> QED
  BY <1>1, <1>2, <1>3

\* A worker last looked at the clock at most two ticks ago, and in a pass at
\* most one.
LEMMA LastLookIs ==
  ASSUME ReportsAssumption, TypeOK, NEW w \in Workers
  PROVE  /\ clock \in Nat /\ calm \in Nat /\ LastLook(w) \in (clock - 2)..clock
         /\ work[w].late \in 0..1 /\ work[w].pause \in 0..1 /\ work[w].now \in Nat
         /\ work[w].pc # "sleep" => LastLook(w) = clock - work[w].late
         /\ work[w].pc = "sleep" => LastLook(w) = clock - work[w].late - 1 + work[w].pause
<1>1. /\ clock \in Nat /\ calm \in Nat /\ work[w].late \in 0..1 /\ work[w].pause \in 0..1
      /\ work[w].now \in Nat
  BY DEF TypeOK, Work, ReportsAssumption
<1>2. CASE work[w].pc = "sleep"
  BY <1>1, <1>2 DEF LastLook
<1>3. CASE work[w].pc # "sleep"
  BY <1>1, <1>3 DEF LastLook
<1> QED
  BY <1>1, <1>2, <1>3

\* A stored report stays.
LEMMA ReportsStay ==
  ASSUME ReportsAssumption, TypeOK, NEW w \in Workers, WorkerNext(w),
         NEW t \in 0..Horizon, Named(t), Reported(t)
  PROVE  Reported(t)' /\ Named(t)'
<1>1. config' = config
  BY DEF WorkerNext, ReadTime, ReadZone, UnknownZone, FindReport, StoreReport,
         StoredAlready, ReadChat, Send, Abort
<1>2. report' = report \/ report' = [report EXCEPT ![Marker(w)] = Snapshot(w)]
  BY DEF WorkerNext, ReadTime, ReadZone, UnknownZone, FindReport, StoreReport,
         StoredAlready, ReadChat, Send, Abort
<1>3. PICK d \in Dates : d = DateOf(t, config.zone)
  BY DatesOfTicks DEF Named
<1>4. Snapshot(w) # None
  BY SnapshotTypes
<1>5. report'[d] # None
  BY <1>2, <1>3, <1>4 DEF TypeOK, Reported
<1> QED
  BY <1>1, <1>3, <1>5 DEF Reported, Named

\* Time passes: the worker has not looked at the clock, and no setting was
\* changed that was not before.
LEMMA TickKeepsPrompt ==
  ASSUME ReportsAssumption, TypeOK, TypeOK', Tick, NEW w \in Workers, w \in prompt, Reads(w)
  PROVE  /\ Reads(w)'
         /\ \A t \in 0..Horizon : Serves(w, t) => Serves(w, t)'
<1>1. /\ clock' = clock + 1 /\ config' = config /\ report' = report
      /\ Pausing(w) \/ work[w].late = 0
      /\ clock \in Nat /\ calm \in Nat
      /\ calm' = IF calm < Settled THEN calm + 1 ELSE calm
  BY LastLookIs DEF Tick
<1>2. \A t \in Nat : CalmSince(t)' => CalmSince(t)
  BY <1>1 DEF CalmSince
<1>3. /\ work'[w].pc = work[w].pc /\ work'[w].now = work[w].now
      /\ work'[w].time = work[w].time /\ work'[w].zone = work[w].zone
      /\ IF Pausing(w)
         THEN work'[w].pause = work[w].pause - 1 /\ work'[w].late = work[w].late
         ELSE work'[w].pause = work[w].pause /\ work'[w].late = 1
  BY TickKeepsWork
<1>4. LastLook(w)' = LastLook(w)
  <2>1. /\ work[w].late \in 0..1 /\ work[w].pause \in 0..1
        /\ work[w].pc # "sleep" => LastLook(w) = clock - work[w].late
        /\ work[w].pc = "sleep" => LastLook(w) = clock - work[w].late - 1 + work[w].pause
    BY LastLookIs
  <2>2. CASE work[w].pc # "sleep"
    <3>1. LastLook(w)' = clock + 1 - work'[w].late
      BY <1>1, <1>3, <2>1, <2>2 DEF LastLook
    <3> QED
      BY <1>1, <1>3, <2>1, <2>2, <3>1 DEF Pausing
  <2>3. CASE work[w].pc = "sleep"
    <3>1. work'[w].late \in 0..1 /\ work'[w].pause \in -1..1
      BY <1>3, <2>1
    <3>2. LastLook(w)' = clock + 1 - work'[w].late - (1 - work'[w].pause)
      BY <1>1, <1>3, <2>3, <3>1 DEF LastLook
    <3> QED
      BY <1>1, <1>3, <2>1, <2>3, <3>1, <3>2 DEF Pausing
  <2> QED
    BY <2>2, <2>3
<1>5. Reads(w)'
  <2>1. work[w].now \in Nat
    BY LastLookIs
  <2> QED
    BY <1>1, <1>2, <1>3, <1>4, <2>1 DEF Reads, GoesOn, CalmSince
<1>6. ASSUME NEW t \in 0..Horizon, Serves(w, t)
      PROVE  Serves(w, t)'
  <2>1. t \in Nat /\ MinuteStart(t) \in Nat
    BY MinuteStartIs DEF ReportsAssumption
  <2>2. /\ Named(t)' = Named(t) /\ Reported(t)' = Reported(t) /\ InPass(w, t)' = InPass(w, t)
        /\ CalmSince(MinuteStart(t))' => CalmSince(MinuteStart(t))
        /\ (MinuteStart(t) <= LastLook(w))' <=> MinuteStart(t) <= LastLook(w)
    BY <1>1, <1>2, <1>3, <1>4, <2>1 DEF Named, Reported, InPass, CalmSince, MinuteStart
  <2> QED
    BY <1>6, <2>2 DEF Serves
<1> QED
  BY <1>5, <1>6

\* The settings change: no minute that began before counts any more.
LEMMA ConfigureKeepsPrompt ==
  ASSUME ReportsAssumption, TypeOK, NEW new \in Config, Configure(new),
         NEW w \in Workers, Reads(w)
  PROVE  Reads(w)' /\ \A t \in 0..Horizon : Serves(w, t)'
<1>1. /\ clock' = clock /\ calm' = 0 /\ work' = work
      /\ clock \in Nat /\ LastLook(w) \in (clock - 2)..clock /\ work[w].now \in Nat
  BY LastLookIs DEF Configure
<1>2. LastLook(w)' = LastLook(w)
  BY <1>1 DEF LastLook
<1>3. \A t \in Nat : CalmSince(t)' => clock < t
  BY <1>1 DEF CalmSince
<1>4. Reads(w)'
  <2>1. work[w].pc # "sleep" => work[w].now = LastLook(w)
    BY DEF Reads
  <2>2. work[w].pc # "sleep" => ~(clock < work[w].now)
    BY <1>1, <2>1
  <2> QED
    BY <1>1, <1>2, <1>3, <2>1, <2>2 DEF Reads, CalmSince
<1>5. ASSUME NEW t \in 0..Horizon
      PROVE  Serves(w, t)'
  <2>1. MinuteStart(t) \in Nat
    BY MinuteStartIs DEF ReportsAssumption
  <2>2. ~(CalmSince(MinuteStart(t))' /\ MinuteStart(t) <= LastLook(w))
    BY <1>1, <1>3, <2>1 DEF CalmSince, MinuteStart
  <2> QED
    BY <1>2, <2>2 DEF Serves, MinuteStart
<1> QED
  BY <1>4, <1>5

\* A step of another worker.
LEMMA OthersKeepPrompt ==
  ASSUME ReportsAssumption, TypeOK, NEW v \in Workers, WorkerNext(v),
         NEW w \in Workers \ {v}, Reads(w)
  PROVE  Reads(w)' /\ \A t \in 0..Horizon : Serves(w, t) => Serves(w, t)'
<1>1. UNCHANGED <<clock, config, calm>> /\ work'[w] = work[w]
  BY WorkerKeepsTypes
     DEF WorkerNext, ReadTime, ReadZone, UnknownZone, FindReport, StoreReport,
         StoredAlready, ReadChat, Send, Abort
<1>2. LastLook(w)' = LastLook(w)
  BY <1>1 DEF LastLook
<1>3. Reads(w)'
  BY <1>1, <1>2 DEF Reads, CalmSince, GoesOn
<1>4. ASSUME NEW t \in 0..Horizon, Serves(w, t)
      PROVE  Serves(w, t)'
  <2>1. Named(t)' = Named(t) /\ InPass(w, t)' = InPass(w, t)
    BY <1>1 DEF Named, InPass, MinuteStart
  <2>2. CalmSince(MinuteStart(t))' = CalmSince(MinuteStart(t))
    BY <1>1 DEF CalmSince, MinuteStart
  <2>3. (MinuteStart(t) <= LastLook(w))' = (MinuteStart(t) <= LastLook(w))
    BY <1>2 DEF MinuteStart
  <2>4. Named(t) /\ Reported(t) => Reported(t)'
    BY ReportsStay
  <2> QED
    BY <1>4, <2>1, <2>2, <2>3, <2>4 DEF Serves
<1> QED
  BY <1>3, <1>4

\* The worker looks at the clock: it has not missed the beginning of two minutes.
LEMMA LookKeepsPrompt ==
  ASSUME ReportsAssumption, TypeOK, NEW w \in Workers, ReadTime(w)
  PROVE  Reads(w)' /\ \A t \in 0..Horizon : Serves(w, t) => Serves(w, t)'
<1>1. /\ UNCHANGED <<clock, config, calm, report>> /\ work[w].pc = "sleep"
      /\ work[w].pause = 0 /\ work[w] \in Work
      /\ work' = [work EXCEPT ![w] = [work[w] EXCEPT !.pc = "zone", !.now = clock,
                                       !.time = config.time, !.late = 0]]
  BY DEF ReadTime, TypeOK
<1>2. /\ work'[w].pc = "zone" /\ work'[w].now = clock /\ work'[w].time = config.time
      /\ work'[w].late = 0
  BY <1>1 DEF TypeOK, Work
<1>3. /\ clock \in Nat /\ LastLook(w) \in (clock - 2)..clock
  BY LastLookIs
<1>4. LastLook(w)' = clock
  BY <1>1, <1>2, <1>3 DEF LastLook
<1>5. Reads(w)'
  BY <1>1, <1>2, <1>4 DEF Reads, GoesOn
<1>6. ASSUME NEW t \in 0..Horizon, Serves(w, t),
             (Named(t) /\ CalmSince(MinuteStart(t)) /\ MinuteStart(t) <= LastLook(w))'
      PROVE  Reported(t)' \/ InPass(w, t)'
  <2>1. Named(t) /\ CalmSince(MinuteStart(t)) /\ MinuteStart(t) <= clock
    BY <1>1, <1>4, <1>6 DEF Named, CalmSince, MinuteStart
  <2>2. /\ MinuteStart(t) \in Nat
        /\ \A u \in Nat : MinuteStart(t) \in {u - 1, u} => MinuteStart(u) = MinuteStart(t)
    BY MinuteStartIs DEF ReportsAssumption
  <2>3. CASE MinuteStart(t) <= LastLook(w)
    <3>1. Reported(t)
      BY <1>1, <1>6, <2>1, <2>3 DEF Serves, InPass
    <3> QED
      BY <1>1, <3>1 DEF Reported
  <2>4. CASE ~(MinuteStart(t) <= LastLook(w))
    <3>1. MinuteStart(t) \in {clock - 1, clock}
      BY <1>3, <2>1, <2>2, <2>4
    <3>2. MinuteStart(clock) = MinuteStart(t)
      BY <1>3, <2>2, <3>1
    <3> QED
      BY <1>2, <3>2 DEF InPass, MinuteStart
  <2> QED
    BY <2>3, <2>4
<1> QED
  BY <1>5, <1>6 DEF Serves

\* The worker goes on with its pass.
LEMMA PassKeepsPrompt ==
  ASSUME ReportsAssumption, TypeOK, NEW w \in Workers, WorkerNext(w), Reads(w),
         UNCHANGED <<clock, config, calm>>, work[w].pc # "sleep", work'[w].pc # "sleep",
         work'[w].now = work[w].now, work'[w].time = work[w].time,
         work'[w].late = work[w].late,
         \/ work'[w].zone = config.zone
         \/ GoesOn(w) /\ work'[w].zone = work[w].zone
  PROVE  Reads(w)' /\ \A t \in 0..Horizon : Serves(w, t) => Serves(w, t)'
<1>1. LastLook(w)' = LastLook(w)
  BY DEF LastLook
<1>2. Reads(w)'
  BY <1>1 DEF Reads, CalmSince
<1>3. ASSUME NEW t \in 0..Horizon, Serves(w, t)
      PROVE  Serves(w, t)'
  <2>1. Named(t)' = Named(t) /\ InPass(w, t)' = InPass(w, t)
    BY DEF Named, InPass, MinuteStart
  <2>2. CalmSince(MinuteStart(t))' = CalmSince(MinuteStart(t))
    BY DEF CalmSince, MinuteStart
  <2>3. (MinuteStart(t) <= LastLook(w))' = (MinuteStart(t) <= LastLook(w))
    BY <1>1 DEF MinuteStart
  <2>4. Named(t) /\ Reported(t) => Reported(t)'
    BY ReportsStay
  <2> QED
    BY <1>3, <2>1, <2>2, <2>3, <2>4 DEF Serves
<1> QED
  BY <1>2, <1>3

\* The worker's pass ends: with a report under the date it went by, or because
\* the minute of its pass was not the named one.
LEMMA RestKeepsPrompt ==
  ASSUME ReportsAssumption, TypeOK, NEW w \in Workers, WorkerNext(w), Reads(w), Rest(w),
         UNCHANGED <<clock, config, calm, report>>, work[w].pc # "sleep",
         \/ GoesOn(w) /\ report[Marker(w)] # None
         \/ config.zone \in Zones => ~InMinute(w, config.zone)
  PROVE  Reads(w)' /\ \A t \in 0..Horizon : Serves(w, t) => Serves(w, t)'
<1>1. /\ work'[w].pc = "sleep" /\ work'[w].pause = 1 /\ work'[w].late = work[w].late
      /\ work[w].now \in Nat /\ clock \in Nat /\ calm \in Nat /\ work[w].late \in 0..1
      /\ LastLook(w) = clock - work[w].late
  BY RestingIs, LastLookIs DEF Rest, TypeOK
<1>2. LastLook(w)' = LastLook(w)
  BY <1>1 DEF LastLook
<1>3. Reads(w)'
  BY <1>1 DEF Reads
<1>4. ASSUME NEW t \in 0..Horizon, Serves(w, t),
             (Named(t) /\ CalmSince(MinuteStart(t)) /\ MinuteStart(t) <= LastLook(w))'
      PROVE  Reported(t)'
  <2>1. Named(t) /\ CalmSince(MinuteStart(t)) /\ MinuteStart(t) <= LastLook(w)
    BY <1>2, <1>4 DEF Named, CalmSince, MinuteStart
  <2>2. CASE Reported(t)
    BY <2>2 DEF Reported
  <2>3. CASE InPass(w, t)
    <3>1. /\ t \in Nat /\ MinuteStart(t) = MinuteStart(work[w].now)
          /\ MinuteStart(t) <= work[w].now /\ MinuteStart(t) \in Nat
      BY <1>1, <2>3, MinuteStartIs DEF InPass, ReportsAssumption
    <3>2. CalmSince(work[w].now)
      BY <1>1, <2>1, <3>1 DEF CalmSince
    <3>3. work[w].time = config.time /\ (GoesOn(w) => work[w].zone = config.zone)
      BY <3>2 DEF Reads
    <3>4. /\ config.zone \in Zones
          /\ DateOf(work[w].now, config.zone) = DateOf(t, config.zone)
          /\ MinuteOf(work[w].now, config.zone) = config.time
      <4>1. config.zone \in Zones /\ MinuteOf(t, config.zone) = config.time
        BY <2>1 DEF Named
      <4>2. PICK n \in Nat : n = work[w].now /\ MinuteStart(n) = MinuteStart(t)
        BY <1>1, <3>1
      <4>3. PICK zone \in Zones : zone = config.zone
        BY <4>1
      <4>4. DateOf(n, zone) = DateOf(t, zone) /\ MinuteOf(n, zone) = MinuteOf(t, zone)
        BY <3>1, <4>2, SameMinute
      <4> QED
        BY <4>1, <4>2, <4>3, <4>4
    <3>5. InMinute(w, config.zone)
      BY <3>3, <3>4 DEF InMinute
    <3>6. report[Marker(w)] # None /\ Marker(w) = DateOf(t, config.zone)
      BY <3>3, <3>4, <3>5 DEF Marker
    <3> QED
      BY <3>6 DEF Reported
  <2> QED
    BY <1>4, <2>1, <2>2, <2>3 DEF Serves
<1> QED
  BY <1>3, <1>4 DEF Serves

\* Any step of a prompt worker.
LEMMA OwnStepKeepsPrompt ==
  ASSUME ReportsAssumption, StoreIInv, NEW w \in Workers, w \in prompt, WorkerNext(w), Reads(w)
  PROVE  Reads(w)' /\ \A t \in 0..Horizon : Serves(w, t) => Serves(w, t)'
<1>1. /\ UNCHANGED <<clock, config, calm>> /\ TypeOK
      /\ work[w] \in Work /\ work \in [Workers -> Work]
  BY DEF StoreIInv, TypeOK, WorkerNext, ReadTime, ReadZone, UnknownZone, FindReport,
         StoreReport, StoredAlready, ReadChat, Send, Abort
<1> DEFINE Goal == Reads(w)' /\ \A t \in 0..Horizon : Serves(w, t) => Serves(w, t)'
<1>2. CASE ReadTime(w)
  BY <1>1, <1>2, LookKeepsPrompt
<1>3. ASSUME NEW pc \in {"count", "chat", "send"}, Goto(w, pc), GoesOn(w)
      PROVE  Goal
  <2>1. /\ work'[w].pc = pc /\ work'[w].now = work[w].now /\ work'[w].time = work[w].time
        /\ work'[w].late = work[w].late /\ work'[w].zone = work[w].zone
    BY <1>1, <1>3 DEF Goto, Work
  <2> QED
    BY <1>1, <1>3, <2>1, PassKeepsPrompt DEF GoesOn
<1>4. CASE ReadZone(w)
  <2>1. CASE InMinute(w, config.zone)
    <3>1. work' = [work EXCEPT ![w] = [work[w] EXCEPT !.pc = "check", !.zone = config.zone]]
      BY <1>4, <2>1 DEF ReadZone
    <3>2. /\ work'[w].pc = "check" /\ work'[w].now = work[w].now
          /\ work'[w].time = work[w].time
          /\ work'[w].late = work[w].late /\ work'[w].zone = config.zone
      BY <1>1, <3>1 DEF Work
    <3>3. work[w].pc # "sleep"
      BY <1>4 DEF ReadZone
    <3> QED
      BY <1>1, <3>2, <3>3, PassKeepsPrompt
  <2>2. CASE ~InMinute(w, config.zone)
    BY <1>1, <1>4, <2>2, RestKeepsPrompt DEF ReadZone
  <2> QED
    BY <2>1, <2>2
<1>5. CASE UnknownZone(w)
  <2>1. ~(config.zone \in Zones) /\ Rest(w) /\ report' = report /\ work[w].pc # "sleep"
    BY <1>5 DEF UnknownZone, ReportsAssumption
  <2> QED
    BY <1>1, <2>1, RestKeepsPrompt
<1>6. CASE FindReport(w)
  <2>1. GoesOn(w) /\ report' = report /\ work[w].pc # "sleep"
    BY <1>6 DEF FindReport, GoesOn
  <2>2. CASE Goto(w, "count")
    BY <1>3, <2>1, <2>2
  <2>3. CASE report[Marker(w)] # None /\ Rest(w)
    BY <1>1, <2>1, <2>3, RestKeepsPrompt
  <2> QED
    BY <1>6, <2>2, <2>3 DEF FindReport
<1>7. CASE StoreReport(w)
  BY <1>3, <1>7 DEF StoreReport, GoesOn
<1>8. CASE StoredAlready(w)
  <2>1. GoesOn(w) /\ report' = report /\ work[w].pc # "sleep" /\ Rest(w)
        /\ report[Marker(w)] # None
    BY <1>8 DEF StoredAlready, GoesOn
  <2> QED
    BY <1>1, <2>1, RestKeepsPrompt
<1>9. ASSUME work[w].pc \in {"chat", "send"}, Rest(w), report' = report
      PROVE  Goal
  <2>1. GoesOn(w) /\ work[w].pc # "sleep" /\ report[Marker(w)] # None
    BY <1>1, <1>9, SnapshotTypes DEF GoesOn, StoreIInv, SendersStored
  <2> QED
    BY <1>1, <1>9, <2>1, RestKeepsPrompt
<1>10. CASE ReadChat(w)
  <2>1. GoesOn(w) /\ work[w].pc = "chat" /\ report' = report
    BY <1>10 DEF ReadChat, GoesOn
  <2> QED
    BY <1>3, <1>9, <1>10, <2>1 DEF ReadChat
<1>11. CASE Send(w)
  BY <1>9, <1>11 DEF Send
<1>12. CASE Abort(w)
  BY <1>12 DEF Abort
<1> QED
  BY <1>2, <1>4, <1>5, <1>6, <1>7, <1>8, <1>10, <1>11, <1>12 DEF WorkerNext

\* Every step keeps every prompt worker on time.
LEMMA PromptKept ==
  ASSUME ReportsAssumption, StoreIInv, StoreIInv', PromptIInv, [Next]_vars
  PROVE  PromptIInv'
<1>1. /\ TypeOK /\ TypeOK' /\ prompt \subseteq Workers
      /\ \A w \in prompt : Reads(w) /\ \A t \in 0..Horizon : Serves(w, t)
  BY DEF StoreIInv, TypeOK, PromptIInv, PromptReads, MinutesServed, Reads, Serves, InPass,
         Reported
<1>2. prompt' = prompt
  BY DEF Next, vars, Tick, Configure, WorkerNext, ReadTime, ReadZone, UnknownZone, FindReport,
         StoreReport, StoredAlready, ReadChat, Send, Abort
<1>3. ASSUME NEW w \in prompt
      PROVE  Reads(w)' /\ \A t \in 0..Horizon : Serves(w, t)'
  <2>1. w \in Workers /\ Reads(w) /\ \A t \in 0..Horizon : Serves(w, t)
    BY <1>1
  <2>2. CASE Tick
    BY <1>1, <2>1, <2>2, TickKeepsPrompt
  <2>3. CASE \E new \in Config : Configure(new)
    BY <1>1, <2>1, <2>3, ConfigureKeepsPrompt
  <2>4. ASSUME NEW v \in Workers, WorkerNext(v)
        PROVE  Reads(w)' /\ \A t \in 0..Horizon : Serves(w, t)'
    <3>1. CASE v = w
      BY <2>1, <2>4, <3>1, OwnStepKeepsPrompt
    <3>2. CASE v # w
      <4>1. w \in Workers \ {v}
        BY <2>1, <3>2
      <4>2. Reads(w)' /\ \A t \in 0..Horizon : Serves(w, t) => Serves(w, t)'
        BY <1>1, <2>1, <2>4, <4>1, OthersKeepPrompt
      <4> QED
        BY <2>1, <4>2
    <3> QED
      BY <3>1, <3>2
  <2>5. CASE UNCHANGED vars
    BY <2>1, <2>5 DEF vars, Reads, Serves, LastLook, CalmSince, GoesOn, Named, Reported,
       InPass, MinuteStart
  <2> QED
    BY <2>2, <2>3, <2>4, <2>5 DEF Next
<1>4. PromptReads'
  BY <1>2, <1>3 DEF PromptReads, Reads
<1>5. MinutesServed'
  BY <1>2, <1>3 DEF MinutesServed, Serves, InPass, Reported
<1> QED
  BY <1>4, <1>5 DEF PromptIInv

\* Nobody has looked at the clock at first.
LEMMA PromptInitially ==
  ASSUME ReportsAssumption, Init
  PROVE  PromptIInv
<1>1. /\ clock = 0 /\ calm = 0 /\ prompt \subseteq Workers
      /\ \A w \in Workers : work[w].pc = "sleep"
  BY DEF Init, Awake
<1>2. ASSUME NEW w \in prompt, NEW t \in 0..Horizon, CalmSince(MinuteStart(t)),
             MinuteStart(t) <= LastLook(w)
      PROVE  FALSE
  <2>1. MinuteStart(t) \in Nat
    BY MinuteStartIs DEF ReportsAssumption
  <2>2. LastLook(w) <= clock
    BY <1>1, LastLookIs, TypesInitially
  <2> QED
    BY <1>1, <1>2, <2>1, <2>2, LastLookIs, TypesInitially DEF CalmSince
<1> QED
  BY <1>1, <1>2 DEF PromptIInv, PromptReads, MinutesServed

\* No day is skipped: the minute the settings name leaves a report for its
\* date, as long as one worker keeps its pace, has no fault, and nobody changes
\* the settings.
THEOREM ReportsSkipNoDay == Spec => []NoDaySkipped
<1>1. Init => PromptIInv
  BY PromptInitially, ReportsAssumption
<1>2. StoreIInv /\ StoreIInv' /\ PromptIInv /\ [Next]_vars => PromptIInv'
  BY PromptKept, ReportsAssumption
<1>3. StoreIInv /\ PromptIInv => NoDaySkipped
  <2> SUFFICES ASSUME StoreIInv, PromptIInv, prompt # {}, calm = Settled,
                      clock - 4 >= 0, Named(clock - 4)
               PROVE  report[DateOf(clock - 4, config.zone)] # None
    BY DEF NoDaySkipped, TicksPerMinute
  <2> DEFINE past == clock - 4
  <2>1. PICK w \in prompt : w \in Workers
    BY DEF StoreIInv, TypeOK
  <2>2. /\ clock \in Nat /\ LastLook(w) \in (clock - 2)..clock /\ work[w].now \in Nat
        /\ work[w].late \in 0..1
        /\ work[w].pc # "sleep" => LastLook(w) = clock - work[w].late
    BY <2>1, LastLookIs, ReportsAssumption DEF StoreIInv
  <2>3. past \in 0..Horizon /\ past \in Nat
    BY <2>2, ReportsAssumption DEF StoreIInv, TypeOK, ReportsAssumption
  <2>4. MinuteStart(past) \in Nat /\ MinuteStart(past) \in {past - 1, past}
    BY <2>3, MinuteStartIs
  <2>5. CalmSince(MinuteStart(past)) /\ MinuteStart(past) <= LastLook(w)
    BY <2>2, <2>4 DEF CalmSince, Settled, TicksPerMinute
  <2>6. CASE work[w].pc # "sleep" /\ MinuteStart(work[w].now) = MinuteStart(past)
    <3>1. work[w].now = LastLook(w)
      BY <2>6 DEF PromptIInv, PromptReads
    <3>2. MinuteStart(work[w].now) \in {work[w].now - 1, work[w].now}
      BY <2>2, MinuteStartIs
    <3> QED
      BY <2>2, <2>4, <2>6, <3>1, <3>2
  <2> QED
    BY <2>3, <2>5, <2>6 DEF PromptIInv, MinutesServed
<1> QED
  BY <1>1, <1>2, <1>3, StoreAlways, PTL DEF Spec
=============================================================================
