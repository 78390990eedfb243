-------------------------- MODULE Schedules_proofs --------------------------
(***************************************************************************)
(* Scheduled messages for any number of jobs, workers and recipients, any  *)
(* cron expressions and any length of a minute: no occurrence has two runs *)
(* and nobody gets its message twice.                                      *)
(*                                                                         *)
(* last_run_at decides: a claim needs an occurrence later than it, and     *)
(* moves it past that occurrence while the row is held.  Whatever has been *)
(* claimed is therefore older than whatever is claimed next.               *)
(***************************************************************************)
EXTENDS Schedules, FiniteSetTheorems, WellFoundedInduction, TLAPS

-----------------------------------------------------------------------------
(* Occurrences.                                                            *)

\* A set of minutes up to some minute has a latest one.
LEMMA LatestIsThere ==
  ASSUME NEW n \in Nat, NEW T \in SUBSET (0..n), T # {}
  PROVE  \E i \in T : \A j \in T : i >= j
<1> DEFINE less == {ss \in Nat \X Nat : ss[1] < ss[2]}
           gaps == {n - i : i \in T}
<1>1. IsWellFoundedOn(less, Nat)
  BY NatLessThanWellFounded DEF OpToRel
<1>2. gaps \subseteq Nat /\ gaps # {}
  <2>1. \A i \in T : i \in Nat /\ i <= n
    OBVIOUS
  <2>2. \A i \in T : n - i \in Nat
    BY <2>1
  <2> QED
    BY <2>2
<1>3. \E x \in gaps : \A y \in gaps : ~(<<y, x>> \in less)
  <2> HIDE DEF less, gaps
  <2> QED
    BY <1>1, <1>2, WFMin
<1>4. \A x, y \in Nat : ~(<<y, x>> \in less) => x <= y
  OBVIOUS
<1>5. PICK x \in gaps : \A y \in gaps : x <= y
  <2> HIDE DEF less, gaps
  <2> QED
    BY <1>2, <1>3, <1>4
<1>6. PICK i \in T : x = n - i
  BY <1>5
<1>7. ASSUME NEW j \in T
      PROVE  i >= j
  <2>1. n - j \in gaps /\ i \in Nat /\ j \in Nat
    OBVIOUS
  <2>2. n - i <= n - j
    BY <1>5, <1>6, <2>1
  <2> HIDE DEF gaps
  <2> QED
    BY <2>1, <2>2
<1> QED
  BY <1>7

\* The minute of a tick, and where it begins.
LEMMA MinutesBegin ==
  ASSUME SchedulesAssumption, NEW t \in 0..Horizon
  PROVE  /\ MinuteOf(t) \in Minutes
         /\ MinuteOf(t) * TicksPerMinute <= t
<1>1. /\ TicksPerMinute \in Nat \ {0} /\ Horizon \in Nat /\ t \in Nat /\ t <= Horizon
  BY DEF SchedulesAssumption
<1>2. /\ t \div TicksPerMinute \in Nat /\ (t \div TicksPerMinute) * TicksPerMinute <= t
      /\ t \div TicksPerMinute <= Horizon \div TicksPerMinute
      /\ Horizon \div TicksPerMinute \in Nat
  BY <1>1
<1> QED
  BY <1>2 DEF MinuteOf, Minutes

\* The latest minute a job names is a minute, and it has begun.
LEMMA PreviousHasBegun ==
  ASSUME SchedulesAssumption, NEW j \in Jobs, NEW t \in 0..Horizon, Fires(j, t) # {}
  PROVE  /\ Previous(j, t) \in Minutes
         /\ Previous(j, t) * TicksPerMinute <= t
<1> DEFINE n == MinuteOf(t)
<1>1. /\ n \in Minutes /\ n \in Nat /\ n * TicksPerMinute <= t
      /\ TicksPerMinute \in Nat /\ t \in Nat /\ Minutes \subseteq Nat
      /\ \A m \in Nat : m <= n => m \in Minutes
  <2>1. n \in Minutes /\ n * TicksPerMinute <= t
    BY MinutesBegin
  <2>2. Horizon \div TicksPerMinute \in Int
    BY DEF SchedulesAssumption
  <2> QED
    BY <2>1, <2>2 DEF Minutes, SchedulesAssumption
<1>2. Fires(j, t) \in SUBSET (0..n)
  BY <1>1 DEF Fires, SchedulesAssumption
<1>3. \E i \in Fires(j, t) : \A k \in Fires(j, t) : i >= k
  BY <1>1, <1>2, LatestIsThere
<1>4. Previous(j, t) \in Fires(j, t)
  BY <1>3 DEF Previous, Max
<1>5. Previous(j, t) \in Nat /\ Previous(j, t) <= n
  BY <1>1, <1>2, <1>4
<1>6. Previous(j, t) * TicksPerMinute <= n * TicksPerMinute
  <2> HIDE DEF n
  <2> QED
    BY <1>1, <1>5
<1> QED
  BY <1>1, <1>5, <1>6

\* An occurrence that is due is later than every one that was taken, and taking
\* it moves last_run_at forward.
LEMMA DueIsNew ==
  ASSUME SchedulesAssumption, NEW j \in Jobs, NEW now \in 0..Horizon, Due(j, now),
         last[j] \in 0..Horizon \union {Never}
  PROVE  /\ Fires(j, now) # {} /\ now > last[j]
         /\ \A t \in 0..Horizon : Taken(j, t) => Previous(j, t) # Previous(j, now)
<1>1. /\ Fires(j, now) # {}
      /\ last[j] # Never => Previous(j, now) * TicksPerMinute > last[j]
  BY DEF Due
<1>2. /\ Previous(j, now) * TicksPerMinute <= now
      /\ Previous(j, now) \in Int /\ TicksPerMinute \in Int
  BY <1>1, PreviousHasBegun DEF Minutes, SchedulesAssumption
<1>3. now > last[j]
  BY <1>1, <1>2 DEF Never, SchedulesAssumption
<1>4. ASSUME NEW t \in 0..Horizon, Taken(j, t)
      PROVE  Previous(j, t) # Previous(j, now)
  <2>1. /\ Fires(j, t) # {} /\ t <= last[j] /\ last[j] # Never
    BY <1>4 DEF Taken
  <2>2. Previous(j, t) * TicksPerMinute <= t /\ Previous(j, t) \in Int
    BY <2>1, PreviousHasBegun DEF Minutes
  <2> QED
    BY <1>1, <1>2, <2>1, <2>2 DEF SchedulesAssumption
<1> QED
  BY <1>1, <1>3, <1>4

-----------------------------------------------------------------------------
(* What a step must leave alone.                                           *)

\* The minute of a claim or of a run is a minute.
LEMMA TakenIsMinute ==
  ASSUME SchedulesAssumption, NEW j \in Jobs, NEW t \in 0..Horizon, Taken(j, t)
  PROVE  Previous(j, t) \in Minutes
  BY PreviousHasBegun DEF Taken

\* Workers keep what they are about to claim, if nobody touches those rows.
LEMMA ClaimersStay ==
  ASSUME SchedulesIInv,
         \A v \in Workers : work'[v].pc = "claim" => work'[v] = work[v],
         \A v \in Workers, j \in Jobs :
           work'[v].pc = "claim" /\ lock[j] = v => lock'[j] = v /\ last'[j] = last[j]
  PROVE  ClaimersHoldJobs'
<1> SUFFICES ASSUME NEW v \in Workers, work'[v].pc = "claim", NEW j \in work'[v].due
             PROVE  lock'[j] = v /\ Due(j, work[v].now)'
  BY DEF ClaimersHoldJobs
<1>1. work'[v] = work[v] /\ work[v] \in Work
  BY DEF SchedulesIInv, TypeOK
<1>2. /\ j \in Jobs /\ lock[j] = v /\ Due(j, work[v].now)
  BY <1>1 DEF SchedulesIInv, ClaimersHoldJobs, Work
<1>3. lock'[j] = v /\ last'[j] = last[j]
  BY <1>2
<1> QED
  BY <1>1, <1>2, <1>3 DEF Due

\* A step that opens no run, closes none and reaches nobody keeps the rest.
LEMMA QuietKeeps ==
  ASSUME SchedulesIInv, UNCHANGED <<last, run, delivered>>,
         \A v \in Workers : work'[v].claims \subseteq work[v].claims,
         \A v \in Workers : InRun(v)' =>
           /\ InRun(v) /\ work'[v].job = work[v].job /\ work'[v].at = work[v].at
           /\ \A x \in Recipients : work'[v].pc = "targets" \/ x \in work'[v].todo =>
                work[v].pc = "targets" \/ x \in work[v].todo
  PROVE  OncePerOccurrence' /\ ClaimsAreNew' /\ SendersAreAlone' /\ DeliveriesHaveRuns'
<1> USE DEF SchedulesIInv
<1>1. OncePerOccurrence'
  BY DEF OncePerOccurrence
<1>2. ClaimsAreNew'
  BY DEF ClaimsAreNew, Taken
<1>3. SendersAreAlone'
  <2> SUFFICES ASSUME NEW w \in Workers, InRun(w)'
               PROVE  /\ \E r \in run : r.job = work'[w].job /\ r.at = work'[w].at
                      /\ \A v \in Workers :
                           InRun(v)' /\ work'[v].job = work'[w].job /\ work'[v].at = work'[w].at
                           => v = w
                      /\ \A x \in Recipients :
                           work'[w].pc = "targets" \/ x \in work'[w].todo =>
                             delivered[work'[w].job][Previous(work'[w].job, work'[w].at)][x] = 0
    BY DEF SendersAreAlone
  <2>1. /\ InRun(w) /\ work'[w].job = work[w].job /\ work'[w].at = work[w].at
        /\ \A x \in Recipients : work'[w].pc = "targets" \/ x \in work'[w].todo =>
             work[w].pc = "targets" \/ x \in work[w].todo
    OBVIOUS
  <2>2. \E r \in run : r.job = work'[w].job /\ r.at = work'[w].at
    BY <2>1 DEF SendersAreAlone
  <2>3. ASSUME NEW v \in Workers,
               InRun(v)', work'[v].job = work'[w].job, work'[v].at = work'[w].at
        PROVE  v = w
    <3>1. InRun(v) /\ work'[v].job = work[v].job /\ work'[v].at = work[v].at
      BY <2>3
    <3> QED
      BY <2>1, <2>3, <3>1 DEF SendersAreAlone
  <2>4. ASSUME NEW x \in Recipients, work'[w].pc = "targets" \/ x \in work'[w].todo
        PROVE  delivered[work'[w].job][Previous(work'[w].job, work'[w].at)][x] = 0
    BY <2>1, <2>4 DEF SendersAreAlone
  <2> QED
    BY <2>2, <2>3, <2>4
<1>4. DeliveriesHaveRuns'
  BY DEF DeliveriesHaveRuns
<1> QED
  BY <1>1, <1>2, <1>3, <1>4

-----------------------------------------------------------------------------
(* The steps.                                                              *)

\* The administrator, the clock, and a worker that reads, skips or stops.
LEMMA SmallStepsKeep ==
  ASSUME SchedulesAssumption, SchedulesIInv,
         \/ \E j \in Jobs : Store(j)
         \/ Tick
         \/ \E w \in Workers :
              \/ ReadClock(w) \/ ClaimRaises(w) \/ DropClaim(w) \/ PassOver(w)
              \/ ReadTargets(w) \/ Abort(w)
  PROVE  SchedulesIInv'
<1> USE DEF SchedulesIInv
<1>1. /\ TypeOK /\ work \in [Workers -> Work] /\ Free \notin Workers /\ NoJob \notin Jobs
      /\ lock \in [Jobs -> Workers \union {Free}] /\ 0 \in 0..Horizon
  BY DEF TypeOK, SchedulesAssumption
<1>2. ASSUME NEW j \in Jobs, Store(j)
      PROVE  SchedulesIInv'
  <2>1. UNCHANGED <<clock, last, lock, run, work, delivered>> /\ stored' = stored \union {j}
    BY <1>2 DEF Store
  <2>2. TypeOK'
    BY <2>1 DEF TypeOK
  <2>3. ClaimersHoldJobs'
    BY <2>1, ClaimersStay
  <2>4. OncePerOccurrence' /\ ClaimsAreNew' /\ SendersAreAlone' /\ DeliveriesHaveRuns'
    BY <2>1, QuietKeeps DEF InRun
  <2> QED
    BY <2>2, <2>3, <2>4
<1>3. CASE Tick
  <2>1. UNCHANGED <<last, stored, lock, run, work, delivered>>
    BY <1>3 DEF Tick
  <2>2. clock' \in 0..Horizon
    BY <1>3 DEF Tick, TypeOK, SchedulesAssumption
  <2>3. TypeOK'
    BY <2>1, <2>2 DEF TypeOK
  <2>4. ClaimersHoldJobs'
    BY <2>1, ClaimersStay
  <2>5. OncePerOccurrence' /\ ClaimsAreNew' /\ SendersAreAlone' /\ DeliveriesHaveRuns'
    BY <2>1, QuietKeeps DEF InRun
  <2> QED
    BY <2>3, <2>4, <2>5
<1>4. Asleep \in Work /\ Asleep.pc = "sleep" /\ Asleep.claims = {}
  BY <1>1 DEF Asleep, Work
<1>5. ASSUME NEW w \in Workers,
             \/ ReadClock(w) \/ ClaimRaises(w) \/ DropClaim(w) \/ PassOver(w)
             \/ ReadTargets(w) \/ Abort(w)
      PROVE  SchedulesIInv'
  <2>1. UNCHANGED <<clock, last, stored, run, delivered>>
    BY <1>5 DEF ReadClock, ClaimRaises, DropClaim, PassOver, ReadTargets, Abort
  <2>2. PICK new : work' = [work EXCEPT ![w] = new]
    BY <1>5 DEF ReadClock, ClaimRaises, DropClaim, PassOver, ReadTargets, Abort
  <2>3. work'[w] = new /\ \A v \in Workers \ {w} : work'[v] = work[v]
    BY <1>1, <2>2
  <2>4. /\ work'[w] \in Work /\ work'[w].pc # "claim"
        /\ work'[w].claims \subseteq work[w].claims
        /\ InRun(w)' =>
             /\ InRun(w) /\ work'[w].job = work[w].job /\ work'[w].at = work[w].at
             /\ \A x \in Recipients : work'[w].pc = "targets" \/ x \in work'[w].todo =>
                  work[w].pc = "targets" \/ x \in work[w].todo
    <3>1. CASE ReadClock(w)
      <4>1. /\ work[w] \in Work /\ clock \in 0..Horizon
            /\ work'[w] = [work[w] EXCEPT !.pc = "now", !.now = clock]
        BY <1>1, <3>1 DEF ReadClock, TypeOK
      <4> QED
        BY <4>1 DEF Work, InRun
    <3>2. CASE ClaimRaises(w) \/ PassOver(w) \/ Abort(w)
      <4>1. work'[w] = Asleep
        BY <1>1, <3>2 DEF ClaimRaises, PassOver, Abort
      <4> QED
        BY <1>4, <4>1 DEF InRun
    <3>3. CASE ReadTargets(w)
      <4>1. PICK targets \in TargetsOf(Destination[work[w].job]), error \in BOOLEAN :
              work'[w] = [work[w] EXCEPT !.pc = "send", !.todo = targets, !.error = error]
        BY <1>1, <3>3 DEF ReadTargets
      <4>2. targets \subseteq Recipients
        BY DEF TargetsOf, Recipients
      <4>3. work[w] \in Work /\ work[w].pc = "targets"
        BY <1>1, <3>3 DEF ReadTargets
      <4> QED
        BY <4>1, <4>2, <4>3 DEF Work, InRun
    <3>4. CASE DropClaim(w)
      <4> DEFINE rest(c) == work[w].claims \ {c}
      <4>1. PICK c : work'[w] = [work[w] EXCEPT !.claims = rest(c)]
        BY <1>1, <3>4 DEF DropClaim
      <4>2. work[w] \in Work /\ work[w].pc = "runs"
        BY <1>1, <3>4 DEF DropClaim
      <4>3. rest(c) \in SUBSET Claims /\ rest(c) \subseteq work[w].claims
        BY <4>2 DEF Work
      <4> HIDE DEF rest
      <4> QED
        BY <4>1, <4>2, <4>3 DEF Work, InRun
    <3> QED
      BY <1>5, <3>1, <3>2, <3>3, <3>4
  <2>5. /\ lock' \in [Jobs -> Workers \union {Free}]
        /\ \A j \in Jobs : lock[j] # w => lock'[j] = lock[j]
    <3>1. CASE Abort(w)
      BY <1>1, <3>1 DEF Abort, Unlocked
    <3>2. CASE ReadClock(w) \/ ClaimRaises(w) \/ DropClaim(w) \/ PassOver(w) \/ ReadTargets(w)
      BY <1>1, <3>2 DEF ReadClock, ClaimRaises, DropClaim, PassOver, ReadTargets
    <3> QED
      BY <1>5, <3>1, <3>2
  <2>6. TypeOK'
    <3>1. work' \in [Workers -> Work]
      BY <1>1, <2>2, <2>3, <2>4
    <3> QED
      BY <2>1, <2>5, <3>1 DEF TypeOK
  <2>7. \A v \in Workers : work'[v].pc = "claim" => work'[v] = work[v]
    BY <2>3, <2>4
  <2>8. \A v \in Workers, j \in Jobs :
          work'[v].pc = "claim" /\ lock[j] = v => lock'[j] = v /\ last'[j] = last[j]
    BY <2>1, <2>4, <2>5
  <2>9. ClaimersHoldJobs'
    BY <2>7, <2>8, ClaimersStay
  <2>10. \A v \in Workers : work'[v].claims \subseteq work[v].claims
    BY <2>3, <2>4
  <2>11. \A v \in Workers : InRun(v)' =>
           /\ InRun(v) /\ work'[v].job = work[v].job /\ work'[v].at = work[v].at
           /\ \A x \in Recipients : work'[v].pc = "targets" \/ x \in work'[v].todo =>
                work[v].pc = "targets" \/ x \in work[v].todo
    <3>1. ASSUME NEW v \in Workers, v # w, InRun(v)'
          PROVE  InRun(v) /\ work'[v] = work[v]
      BY <2>3, <3>1 DEF InRun
    <3> QED
      BY <2>4, <3>1
  <2>12. OncePerOccurrence' /\ ClaimsAreNew' /\ SendersAreAlone' /\ DeliveriesHaveRuns'
    BY <2>1, <2>10, <2>11, QuietKeeps
  <2> QED
    BY <2>6, <2>9, <2>12
<1> QED
  BY <1>2, <1>3, <1>5

\* A claim locks the rows it finds unheld, and those are nobody else's.
LEMMA ClaimDueKeeps ==
  ASSUME SchedulesAssumption, SchedulesIInv, NEW w \in Workers, ClaimDue(w)
  PROVE  SchedulesIInv'
<1> USE DEF SchedulesIInv
<1> DEFINE due == {j \in Unheld : Due(j, work[w].now)}
<1>1. /\ UNCHANGED <<clock, last, stored, run, delivered>>
      /\ work[w] \in Work /\ work[w].pc = "now"
      /\ lock \in [Jobs -> Workers \union {Free}] /\ Free \notin Workers
      /\ lock' = [j \in Jobs |-> IF j \in Unheld THEN w ELSE lock[j]]
  BY DEF ClaimDue, TypeOK, SchedulesAssumption
<1>2. due \subseteq Jobs /\ \A j \in Unheld : lock[j] = Free /\ j \in Jobs
  BY DEF Unheld, TypeOK
<1>3. /\ work'[w] = [work[w] EXCEPT !.pc = "claim", !.due = due]
      /\ \A v \in Workers \ {w} : work'[v] = work[v]
      /\ DOMAIN work' = Workers /\ work' = [v \in Workers |-> work'[v]]
  BY DEF ClaimDue, TypeOK
<1> HIDE DEF due
<1>4. /\ work'[w] \in Work /\ work'[w].pc = "claim" /\ work'[w].now = work[w].now
      /\ work'[w].due = due /\ work'[w].claims = work[w].claims
  <2> DEFINE new == [work[w] EXCEPT !.pc = "claim", !.due = due]
  <2>1. /\ new.pc = "claim" /\ new.now = work[w].now
        /\ new.due = due /\ new.claims = work[w].claims
    BY <1>1 DEF Work
  <2>2. new \in Work
    BY <1>1, <1>2 DEF Work
  <2>3. work'[w] = new
    BY <1>3
  <2> HIDE DEF new
  <2> QED
    BY <2>1, <2>2, <2>3
<1>5. TypeOK'
  <2>1. work' \in [Workers -> Work]
    BY <1>3, <1>4 DEF TypeOK
  <2>2. lock' \in [Jobs -> Workers \union {Free}]
    BY <1>1
  <2> QED
    BY <1>1, <2>1, <2>2 DEF TypeOK
<1>6. ClaimersHoldJobs'
  <2>1. ASSUME NEW v \in Workers, work'[v].pc = "claim", NEW j \in work'[v].due
        PROVE  lock'[j] = v /\ Due(j, work[v].now)'
    <3>1. CASE v = w
      <4>1. j \in Unheld /\ Due(j, work[w].now)
        BY <1>4, <2>1, <3>1 DEF due
      <4> QED
        BY <1>1, <1>2, <1>4, <3>1, <4>1 DEF Due
    <3>2. CASE v # w
      <4>1. work'[v] = work[v] /\ work[v] \in Work
        BY <1>3, <3>2 DEF TypeOK
      <4>2. lock[j] = v /\ Due(j, work[v].now) /\ j \in Jobs
        BY <2>1, <4>1 DEF ClaimersHoldJobs, Work
      <4>3. j \notin Unheld
        BY <1>1, <1>2, <4>2
      <4> QED
        BY <1>1, <4>1, <4>2, <4>3 DEF Due
    <3> QED
      BY <3>1, <3>2
  <2> QED
    BY <2>1 DEF ClaimersHoldJobs
<1>7. \A v \in Workers : work'[v].claims \subseteq work[v].claims
  BY <1>3, <1>4
<1>8. \A v \in Workers : InRun(v)' =>
        /\ InRun(v) /\ work'[v].job = work[v].job /\ work'[v].at = work[v].at
        /\ \A x \in Recipients : work'[v].pc = "targets" \/ x \in work'[v].todo =>
             work[v].pc = "targets" \/ x \in work[v].todo
  <2>1. ASSUME NEW v \in Workers, InRun(v)'
        PROVE  InRun(v) /\ work'[v] = work[v]
    BY <1>3, <1>4, <2>1 DEF InRun
  <2> QED
    BY <2>1
<1>9. OncePerOccurrence' /\ ClaimsAreNew' /\ SendersAreAlone' /\ DeliveriesHaveRuns'
  BY <1>1, <1>7, <1>8, QuietKeeps
<1> QED
  BY <1>5, <1>6, <1>9

\* The commit of a claim moves last_run_at past everything that was taken.
LEMMA CommitClaimsKeeps ==
  ASSUME SchedulesAssumption, SchedulesIInv, NEW w \in Workers, CommitClaims(w)
  PROVE  SchedulesIInv'
<1> USE DEF SchedulesIInv
<1> DEFINE now == work[w].now
           due == work[w].due
           claims == {[job |-> j, at |-> now] : j \in due}
<1>1. /\ UNCHANGED <<clock, stored, run, delivered>> /\ work[w].pc = "claim"
      /\ last' = [j \in Jobs |-> IF j \in due THEN now ELSE last[j]]
      /\ lock' = [j \in Jobs |-> IF lock[j] = w THEN Free ELSE lock[j]]
  BY DEF CommitClaims, Unlocked
<1>2. /\ now \in 0..Horizon /\ due \subseteq Jobs /\ Horizon \in Nat
      /\ lock \in [Jobs -> Workers \union {Free}]
      /\ last \in [Jobs -> 0..Horizon \union {Never}]
      /\ \A j \in due : lock[j] = w /\ Due(j, now)
  BY <1>1 DEF TypeOK, Work, ClaimersHoldJobs, SchedulesAssumption
<1>3. /\ work'[w] = [Asleep EXCEPT !.pc = "runs", !.claims = claims]
      /\ \A v \in Workers \ {w} : work'[v] = work[v]
      /\ DOMAIN work' = Workers /\ work' = [v \in Workers |-> work'[v]]
  BY DEF CommitClaims, TypeOK
<1>4. claims \subseteq Claims
  BY <1>2 DEF Claims
<1>5. ASSUME NEW j \in due
      PROVE  /\ Fires(j, now) # {} /\ now > last[j]
             /\ \A t \in 0..Horizon : Taken(j, t) => Previous(j, t) # Previous(j, now)
  <2>1. j \in Jobs /\ Due(j, now) /\ last[j] \in 0..Horizon \union {Never}
    BY <1>2
  <2> QED
    BY <1>2, <2>1, DueIsNew
<1> HIDE DEF claims, now, due
<1>6. /\ work'[w] \in Work /\ work'[w].pc = "runs" /\ work'[w].claims = claims
  <2>1. Asleep \in Work
    BY <1>2 DEF Asleep, Work
  <2> QED
    BY <1>3, <1>4, <2>1 DEF Work
<1>7. TypeOK'
  <2>1. work' \in [Workers -> Work]
    BY <1>3, <1>6 DEF TypeOK
  <2>2. /\ lock' \in [Jobs -> Workers \union {Free}]
        /\ last' \in [Jobs -> 0..Horizon \union {Never}]
    BY <1>1, <1>2
  <2> QED
    BY <1>1, <2>1, <2>2 DEF TypeOK
<1>8. ClaimersHoldJobs'
  <2>1. \A v \in Workers : work'[v].pc = "claim" => work'[v] = work[v] /\ v # w
    BY <1>3, <1>6
  <2>2. \A v \in Workers, j \in Jobs :
          work'[v].pc = "claim" /\ lock[j] = v => lock'[j] = v /\ last'[j] = last[j]
    BY <1>1, <1>2, <2>1
  <2> QED
    BY <2>1, <2>2, ClaimersStay
<1>9. ASSUME NEW j \in Jobs, NEW t \in 0..Horizon, Taken(j, t)
      PROVE  Taken(j, t)'
  <2>1. last[j] \in Int /\ last[j] # Never /\ t <= last[j] /\ Fires(j, t) # {}
    BY <1>2, <1>9 DEF Taken, Never
  <2>2. CASE j \notin due
    BY <1>1, <2>1, <2>2 DEF Taken
  <2>3. CASE j \in due
    <3>1. now > last[j] /\ last'[j] = now
      BY <1>1, <1>5, <2>3
    <3> QED
      BY <1>2, <2>1, <3>1 DEF Taken, Never
  <2> QED
    BY <2>2, <2>3
<1>10. ASSUME NEW c \in claims
       PROVE  /\ c \in Claims /\ c.job \in due /\ c.at = now /\ c = [job |-> c.job, at |-> now]
              /\ Taken(c.job, c.at)'
  <2>1. PICK j \in due : c = [job |-> j, at |-> now]
    BY DEF claims
  <2>2. Fires(j, now) # {} /\ last'[j] = now /\ now # Never
    BY <1>1, <1>2, <1>5 DEF Never
  <2> QED
    BY <1>2, <1>4, <2>1, <2>2 DEF Taken
<1>11. /\ \A r \in run : r.job \in Jobs /\ r.at \in 0..Horizon /\ Taken(r.job, r.at)
       /\ \A v \in Workers : \A d \in work[v].claims :
            d.job \in Jobs /\ d.at \in 0..Horizon /\ Taken(d.job, d.at)
  BY DEF ClaimsAreNew, TypeOK, Run, Work, Claims
<1>12. ClaimsAreNew'
  <2>1. ASSUME NEW r \in run'
        PROVE  Taken(r.job, r.at)'
    <3>1. r \in run
      BY <1>1
    <3> QED
      BY <1>9, <1>11, <3>1
  <2>2. ASSUME NEW v \in Workers, NEW c \in work'[v].claims
        PROVE  Taken(c.job, c.at)'
    BY <1>3, <1>6, <1>9, <1>10, <1>11
  <2>3. ASSUME NEW v \in Workers, NEW c \in work'[v].claims, NEW r \in run
        PROVE  ~SameOccurrence(c.job, c.at, r.job, r.at)
    <3>1. CASE v # w
      BY <1>3, <3>1 DEF ClaimsAreNew
    <3>2. CASE v = w
      <4>1. c \in claims
        BY <1>6, <3>2
      <4> QED
        BY <1>5, <1>10, <1>11, <4>1 DEF SameOccurrence
    <3> QED
      BY <3>1, <3>2
  <2>4. ASSUME NEW c \in claims, NEW v \in Workers, NEW d \in work[v].claims
        PROVE  /\ ~SameOccurrence(c.job, c.at, d.job, d.at)
               /\ ~SameOccurrence(d.job, d.at, c.job, c.at)
    BY <1>5, <1>10, <1>11 DEF SameOccurrence
  <2>5. ASSUME NEW v \in Workers, NEW c \in work'[v].claims,
               NEW u \in Workers, NEW d \in work'[u].claims,
               SameOccurrence(c.job, c.at, d.job, d.at)
        PROVE  u = v /\ d = c
    <3>1. CASE v = w /\ u = w
      <4>1. c \in claims /\ d \in claims
        BY <1>6, <3>1
      <4> QED
        BY <1>10, <2>5, <3>1, <4>1 DEF SameOccurrence
    <3>2. CASE v = w /\ u # w
      <4>1. c \in claims /\ d \in work[u].claims
        BY <1>3, <1>6, <3>2
      <4> QED
        BY <2>4, <2>5, <4>1
    <3>3. CASE v # w /\ u = w
      <4>1. d \in claims /\ c \in work[v].claims
        BY <1>3, <1>6, <3>3
      <4> QED
        BY <2>4, <2>5, <4>1
    <3>4. CASE v # w /\ u # w
      BY <1>3, <2>5, <3>4 DEF ClaimsAreNew
    <3> QED
      BY <3>1, <3>2, <3>3, <3>4
  <2> QED
    BY <1>1, <2>1, <2>2, <2>3, <2>5 DEF ClaimsAreNew, SameOccurrence
<1>13. \A v \in Workers : InRun(v)' => InRun(v) /\ work'[v] = work[v]
  BY <1>3, <1>6 DEF InRun
<1>14. SendersAreAlone'
  BY <1>1, <1>13 DEF SendersAreAlone
<1>15. OncePerOccurrence' /\ DeliveriesHaveRuns'
  BY <1>1 DEF OncePerOccurrence, DeliveriesHaveRuns
<1> QED
  BY <1>7, <1>8, <1>12, <1>14, <1>15

\* A worker opens a run for an occurrence that has none.
LEMMA OpenRunKeeps ==
  ASSUME SchedulesAssumption, SchedulesIInv, NEW w \in Workers, OpenRun(w)
  PROVE  SchedulesIInv'
<1> USE DEF SchedulesIInv
<1>1. /\ UNCHANGED <<clock, last, stored, lock, delivered>>
      /\ work[w].pc = "runs" /\ work[w] \in Work
      /\ \A v \in Workers : work[v] \in Work
  BY DEF OpenRun, TypeOK
<1>2. PICK c \in work[w].claims :
        /\ work' = [work EXCEPT ![w] =
             [work[w] EXCEPT !.pc = "targets", !.claims = work[w].claims \ {c},
                             !.job = c.job, !.at = c.at, !.sent = 0, !.failed = 0,
                             !.error = FALSE]]
        /\ run' = run \union {NewRun(c)}
  BY DEF OpenRun
<1>3. c \in Claims /\ c.job \in Jobs /\ c.at \in 0..Horizon /\ Taken(c.job, c.at)
  BY <1>1 DEF Work, Claims, ClaimsAreNew
<1>4. \A r \in run : ~SameOccurrence(c.job, c.at, r.job, r.at)
  BY DEF ClaimsAreNew
<1>6. /\ NewRun(c) \in Run /\ NewRun(c).job = c.job /\ NewRun(c).at = c.at
  BY <1>3 DEF NewRun, Run
<1>7. /\ work'[w] \in Work /\ work'[w].pc = "targets" /\ work'[w].claims = work[w].claims \ {c}
      /\ work'[w].job = c.job /\ work'[w].at = c.at
  <2>1. work'[w] = [work[w] EXCEPT !.pc = "targets", !.claims = work[w].claims \ {c},
                                   !.job = c.job, !.at = c.at, !.sent = 0, !.failed = 0,
                                   !.error = FALSE]
    BY <1>2 DEF TypeOK
  <2> DEFINE rest == work[w].claims \ {c}
             new == [work[w] EXCEPT !.pc = "targets", !.claims = rest,
                                    !.job = c.job, !.at = c.at, !.sent = 0, !.failed = 0,
                                    !.error = FALSE]
  <2>2. rest \in SUBSET Claims
    BY <1>1 DEF Work
  <2> HIDE DEF rest
  <2>3. /\ new.pc = "targets" /\ new.claims = rest
        /\ new.job = c.job /\ new.at = c.at
    BY <1>1 DEF Work
  <2>4. new \in Work
    BY <1>1, <1>3, <2>2 DEF Work
  <2>5. work'[w] = new
    BY <2>1 DEF rest
  <2> HIDE DEF new
  <2> QED
    BY <2>3, <2>4, <2>5 DEF rest
<1>8. \A v \in Workers \ {w} : work'[v] = work[v]
  BY <1>2 DEF TypeOK
<1>9. TypeOK'
  <2>1. work' \in [Workers -> Work]
    BY <1>2, <1>7, <1>8 DEF TypeOK
  <2>2. run' \subseteq Run
    BY <1>2, <1>6 DEF TypeOK
  <2> QED
    BY <1>1, <2>1, <2>2 DEF TypeOK
<1>10. ClaimersHoldJobs'
  <2>1. \A v \in Workers : work'[v].pc = "claim" => work'[v] = work[v]
    BY <1>7, <1>8
  <2>2. \A v \in Workers, j \in Jobs :
          work'[v].pc = "claim" /\ lock[j] = v => lock'[j] = v /\ last'[j] = last[j]
    BY <1>1
  <2> QED
    BY <2>1, <2>2, ClaimersStay
<1>11. OncePerOccurrence'
  <2>1. ASSUME NEW r \in run', NEW q \in run',
               r.job = q.job, Previous(r.job, r.at) = Previous(q.job, q.at)
        PROVE  r = q
    <3>1. (r \in run \/ r = NewRun(c)) /\ (q \in run \/ q = NewRun(c))
      BY <1>2
    <3>2. CASE r \in run /\ q \in run
      BY <2>1, <3>2 DEF OncePerOccurrence
    <3>3. CASE r \in run /\ q = NewRun(c)
      BY <1>4, <1>6, <2>1, <3>3 DEF SameOccurrence
    <3>4. CASE r = NewRun(c) /\ q \in run
      BY <1>4, <1>6, <2>1, <3>4 DEF SameOccurrence
    <3> QED
      BY <3>1, <3>2, <3>3, <3>4
  <2> QED
    BY <1>1, <2>1 DEF OncePerOccurrence
<1>12. ClaimsAreNew'
  <2>1. ASSUME NEW v \in Workers, NEW d \in work'[v].claims
        PROVE  d \in work[v].claims /\ (v # w \/ d # c)
    BY <1>7, <1>8
  <2>2. \A r \in run' : Taken(r.job, r.at)'
    <3>1. \A r \in run' : Taken(r.job, r.at)
      BY <1>3, <1>2, <1>6 DEF ClaimsAreNew
    <3> QED
      BY <1>1, <3>1 DEF Taken
  <2>3. ASSUME NEW v \in Workers, NEW d \in work'[v].claims, NEW r \in run'
        PROVE  ~SameOccurrence(d.job, d.at, r.job, r.at)
    <3>1. CASE r \in run
      BY <2>1, <3>1 DEF ClaimsAreNew
    <3>2. CASE r = NewRun(c)
      <4>1. ~SameOccurrence(d.job, d.at, c.job, c.at)
        BY <2>1 DEF ClaimsAreNew
      <4> QED
        BY <1>6, <3>2, <4>1
    <3> QED
      BY <1>2, <3>1, <3>2
  <2>4. ASSUME NEW v \in Workers, NEW d \in work'[v].claims
        PROVE  /\ Taken(d.job, d.at)'
               /\ \A u \in Workers : \A e \in work'[u].claims :
                    SameOccurrence(d.job, d.at, e.job, e.at) => u = v /\ e = d
    <3>1. Taken(d.job, d.at)
      BY <2>1 DEF ClaimsAreNew
    <3>2. Taken(d.job, d.at)'
      BY <1>1, <3>1 DEF Taken
    <3> QED
      BY <2>1, <3>2 DEF ClaimsAreNew
  <2> QED
    BY <2>2, <2>3, <2>4 DEF ClaimsAreNew, SameOccurrence
<1>13. SendersAreAlone'
  <2>1. \A v \in Workers \ {w} : InRun(v)' => InRun(v) /\ work'[v] = work[v]
    BY <1>8 DEF InRun
  <2>2. ASSUME NEW v \in Workers \ {w}, InRun(v)
        PROVE  /\ \E r \in run : r.job = work[v].job /\ r.at = work[v].at
               /\ ~(work[v].job = c.job /\ work[v].at = c.at)
    <3>1. PICK r \in run : r.job = work[v].job /\ r.at = work[v].at
      BY <2>2 DEF SendersAreAlone
    <3> QED
      BY <1>4, <3>1 DEF SameOccurrence
  <2>3. ASSUME NEW x \in Recipients
        PROVE  delivered[c.job][Previous(c.job, c.at)][x] = 0
    <3> DEFINE m == Previous(c.job, c.at)
    <3>1. m \in Minutes
      BY <1>3, TakenIsMinute
    <3>2. delivered[c.job][m][x] \in Nat
      BY <1>3, <3>1 DEF TypeOK
    <3>3. ~(delivered[c.job][m][x] > 0)
      BY <1>3, <1>4, <3>1 DEF DeliveriesHaveRuns, SameOccurrence
    <3> QED
      BY <3>2, <3>3
  <2>4. ASSUME NEW v \in Workers, InRun(v)'
        PROVE  /\ \E r \in run' : r.job = work'[v].job /\ r.at = work'[v].at
               /\ \A u \in Workers :
                    InRun(u)' /\ work'[u].job = work'[v].job /\ work'[u].at = work'[v].at => u = v
               /\ \A x \in Recipients : work'[v].pc = "targets" \/ x \in work'[v].todo =>
                    delivered[work'[v].job][Previous(work'[v].job, work'[v].at)][x] = 0
    <3>1. CASE v = w
      <4>1. \E r \in run' : r.job = work'[v].job /\ r.at = work'[v].at
        BY <1>2, <1>6, <1>7, <3>1
      <4> QED
        BY <1>7, <2>1, <2>2, <2>3, <3>1, <4>1
    <3>2. CASE v # w
      <4>1. InRun(v) /\ work'[v] = work[v] /\ v \in Workers \ {w}
        BY <2>1, <2>4, <3>2
      <4>2. \E r \in run' : r.job = work'[v].job /\ r.at = work'[v].at
        BY <1>2, <2>2, <4>1
      <4>3. ASSUME NEW u \in Workers,
                   InRun(u)', work'[u].job = work'[v].job, work'[u].at = work'[v].at
            PROVE  u = v
        <5>1. u # w
          BY <1>7, <2>2, <4>1, <4>3
        <5>2. InRun(u) /\ work'[u] = work[u]
          BY <2>1, <4>3, <5>1
        <5> QED
          BY <4>1, <4>3, <5>2 DEF SendersAreAlone
      <4>4. \A x \in Recipients : work'[v].pc = "targets" \/ x \in work'[v].todo =>
              delivered[work'[v].job][Previous(work'[v].job, work'[v].at)][x] = 0
        BY <4>1 DEF SendersAreAlone
      <4> QED
        BY <4>2, <4>3, <4>4
    <3> QED
      BY <3>1, <3>2
  <2> QED
    BY <1>1, <2>4 DEF SendersAreAlone
<1>14. DeliveriesHaveRuns'
  BY <1>1, <1>2 DEF DeliveriesHaveRuns
<1> QED
  BY <1>9, <1>10, <1>11, <1>12, <1>13, <1>14

\* The run a delivering worker works on: it is on record, and its occurrence is
\* a minute.
LEMMA InRunIsTaken ==
  ASSUME SchedulesAssumption, SchedulesIInv, NEW w \in Workers, InRun(w)
  PROVE  /\ work[w].job \in Jobs /\ work[w].at \in 0..Horizon
         /\ Previous(work[w].job, work[w].at) \in Minutes
         /\ \E r \in run : r.job = work[w].job /\ r.at = work[w].at
<1>1. PICK r \in run : r.job = work[w].job /\ r.at = work[w].at
  BY DEF SchedulesIInv, SendersAreAlone
<1>2. r.job \in Jobs /\ r.at \in 0..Horizon /\ Taken(r.job, r.at)
  BY DEF SchedulesIInv, TypeOK, Run, ClaimsAreNew
<1> QED
  BY <1>1, <1>2, TakenIsMinute

\* Recipient x gets the message of minute m of job j, or nobody gets it.
Delivers(j, m, x, got) == delivered' = [delivered EXCEPT ![j][m][x] = @ + got]

\* What one delivery does to the count of deliveries.
LEMMA DeliveryAdds ==
  ASSUME NEW j0 \in Jobs, NEW m0 \in Minutes, NEW x0 \in Recipients, NEW got \in {0, 1},
         delivered \in [Jobs -> [Minutes -> [Recipients -> Nat]]],
         delivered[j0][m0][x0] = 0, Delivers(j0, m0, x0, got)
  PROVE  /\ delivered' \in [Jobs -> [Minutes -> [Recipients -> Nat]]]
         /\ delivered'[j0][m0][x0] = got
         /\ \A j \in Jobs, m \in Minutes, x \in Recipients :
              <<j, m, x>> # <<j0, m0, x0>> => delivered'[j][m][x] = delivered[j][m][x]
<1>1. /\ delivered[j0] \in [Minutes -> [Recipients -> Nat]]
      /\ delivered[j0][m0] \in [Recipients -> Nat]
  OBVIOUS
<1> DEFINE row == [delivered[j0][m0] EXCEPT ![x0] = delivered[j0][m0][x0] + got]
           plane == [delivered[j0] EXCEPT ![m0] = row]
<1>2. row \in [Recipients -> Nat] /\ row[x0] = got
      /\ \A x \in Recipients : x # x0 => row[x] = delivered[j0][m0][x]
  BY <1>1
<1>3. delivered' = [delivered EXCEPT ![j0] = plane]
  BY DEF Delivers
<1> HIDE DEF row
<1>4. plane \in [Minutes -> [Recipients -> Nat]] /\ plane[m0] = row
      /\ \A m \in Minutes : m # m0 => plane[m] = delivered[j0][m]
  BY <1>1, <1>2
<1> HIDE DEF plane
<1>5. /\ delivered' \in [Jobs -> [Minutes -> [Recipients -> Nat]]]
      /\ delivered'[j0] = plane
      /\ \A j \in Jobs : j # j0 => delivered'[j] = delivered[j]
  BY <1>3, <1>4
<1> QED
  BY <1>2, <1>4, <1>5

\* A recipient gets what it has not got before.
LEMMA SendKeeps ==
  ASSUME SchedulesAssumption, SchedulesIInv, NEW w \in Workers, Send(w)
  PROVE  SchedulesIInv'
<1> USE DEF SchedulesIInv
<1> DEFINE j0 == work[w].job
           m0 == Previous(work[w].job, work[w].at)
<1>1. /\ UNCHANGED <<clock, last, stored, lock, run>> /\ InRun(w) /\ work[w].pc = "send"
      /\ work[w] \in Work /\ delivered \in [Jobs -> [Minutes -> [Recipients -> Nat]]]
  BY DEF Send, InRun, TypeOK
<1>2. j0 \in Jobs /\ m0 \in Minutes /\ \E r \in run : r.job = j0 /\ r.at = work[w].at
  BY <1>1, InRunIsTaken
<1>3. PICK x0 \in work[w].todo, got \in {0, 1}, raised \in BOOLEAN :
        /\ Delivers(j0, m0, x0, got)
        /\ work' = [work EXCEPT ![w] =
             IF raised THEN [work[w] EXCEPT !.failed = work[w].failed + 1, !.error = TRUE,
                                            !.todo = work[w].todo \ {x0}]
             ELSE [work[w] EXCEPT !.sent = work[w].sent + 1, !.todo = work[w].todo \ {x0}]]
  BY DEF Send, Delivers
<1>4. x0 \in Recipients /\ delivered[j0][m0][x0] = 0
  BY <1>1, <1>2 DEF Work, SendersAreAlone
<1> HIDE DEF j0, m0
<1>5. /\ delivered' \in [Jobs -> [Minutes -> [Recipients -> Nat]]]
      /\ delivered'[j0][m0][x0] = got
      /\ \A j \in Jobs, m \in Minutes, x \in Recipients :
           <<j, m, x>> # <<j0, m0, x0>> => delivered'[j][m][x] = delivered[j][m][x]
  BY <1>1, <1>2, <1>3, <1>4, DeliveryAdds
<1>6. /\ work'[w] \in Work /\ work'[w].pc = "send" /\ work'[w].claims = work[w].claims
      /\ work'[w].job = work[w].job /\ work'[w].at = work[w].at
      /\ work'[w].todo = work[w].todo \ {x0}
  <2>1. work'[w] = IF raised
                   THEN [work[w] EXCEPT !.failed = work[w].failed + 1, !.error = TRUE,
                                        !.todo = work[w].todo \ {x0}]
                   ELSE [work[w] EXCEPT !.sent = work[w].sent + 1,
                                        !.todo = work[w].todo \ {x0}]
    BY <1>3 DEF TypeOK
  <2> DEFINE todo == work[w].todo \ {x0}
             failed == work[w].failed + 1
             sent == work[w].sent + 1
  <2>4. todo \in SUBSET Recipients /\ failed \in Nat /\ sent \in Nat
    BY <1>1 DEF Work
  <2> HIDE DEF todo, failed, sent
  <2>2. CASE raised
    <3>1. work'[w] = [work[w] EXCEPT !.failed = failed, !.error = TRUE, !.todo = todo]
      BY <2>1, <2>2 DEF todo, failed
    <3> QED
      BY <1>1, <2>4, <3>1 DEF Work, todo
  <2>3. CASE ~raised
    <3>1. work'[w] = [work[w] EXCEPT !.sent = sent, !.todo = todo]
      BY <2>1, <2>3 DEF todo, sent
    <3> QED
      BY <1>1, <2>4, <3>1 DEF Work, todo
  <2> QED
    BY <2>2, <2>3
<1>7. \A v \in Workers \ {w} : work'[v] = work[v]
  BY <1>3 DEF TypeOK
<1>8. TypeOK'
  <2>1. work' \in [Workers -> Work]
    BY <1>3, <1>6, <1>7 DEF TypeOK
  <2> QED
    BY <1>1, <1>5, <2>1 DEF TypeOK
<1>9. ClaimersHoldJobs'
  <2>1. \A v \in Workers : work'[v].pc = "claim" => work'[v] = work[v]
    BY <1>6, <1>7
  <2>2. \A v \in Workers, j \in Jobs :
          work'[v].pc = "claim" /\ lock[j] = v => lock'[j] = v /\ last'[j] = last[j]
    BY <1>1
  <2> QED
    BY <2>1, <2>2, ClaimersStay
<1>10. OncePerOccurrence'
  <2>1. ASSUME NEW j \in Jobs, NEW m \in Minutes, NEW x \in Recipients
        PROVE  delivered'[j][m][x] <= 1
    <3>1. CASE <<j, m, x>> = <<j0, m0, x0>>
      BY <1>5, <3>1
    <3>2. CASE <<j, m, x>> # <<j0, m0, x0>>
      <4>1. delivered'[j][m][x] = delivered[j][m][x]
        BY <1>5, <3>2
      <4> QED
        BY <4>1 DEF OncePerOccurrence
    <3> QED
      BY <3>1, <3>2
  <2> QED
    BY <1>1, <2>1 DEF OncePerOccurrence
<1>11. ClaimsAreNew'
  <2>1. \A v \in Workers : work'[v].claims = work[v].claims
    BY <1>6, <1>7
  <2>2. \A r \in run : Taken(r.job, r.at)'
    BY <1>1 DEF ClaimsAreNew, Taken
  <2>3. \A v \in Workers : \A c \in work[v].claims : Taken(c.job, c.at)'
    <3> SUFFICES ASSUME NEW v \in Workers, NEW c \in work[v].claims
                 PROVE  Taken(c.job, c.at)'
      OBVIOUS
    <3>1. Taken(c.job, c.at)
      BY DEF ClaimsAreNew
    <3> QED
      BY <1>1, <3>1 DEF Taken
  <2>4. \A v \in Workers : \A c \in work[v].claims :
          /\ \A r \in run : ~SameOccurrence(c.job, c.at, r.job, r.at)
          /\ \A u \in Workers : \A d \in work[u].claims :
               SameOccurrence(c.job, c.at, d.job, d.at) => u = v /\ d = c
    BY DEF ClaimsAreNew
  <2>5. ASSUME NEW v \in Workers, NEW c \in work'[v].claims
        PROVE  /\ Taken(c.job, c.at)'
               /\ \A r \in run : ~SameOccurrence(c.job, c.at, r.job, r.at)
               /\ \A u \in Workers : \A d \in work'[u].claims :
                    SameOccurrence(c.job, c.at, d.job, d.at) => u = v /\ d = c
    BY <2>1, <2>3, <2>4
  <2>6. run' = run
    BY <1>1
  <2> QED
    BY <2>2, <2>5, <2>6 DEF ClaimsAreNew, SameOccurrence
<1>12. DeliveriesHaveRuns'
  <2>1. \E r \in run : r.job = j0 /\ Previous(j0, r.at) = m0
    BY <1>2 DEF j0, m0
  <2>2. ASSUME NEW j \in Jobs, NEW m \in Minutes, NEW x \in Recipients,
               delivered'[j][m][x] > 0
        PROVE  \E r \in run : r.job = j /\ Previous(j, r.at) = m
    <3>1. CASE <<j, m, x>> = <<j0, m0, x0>>
      BY <2>1, <3>1
    <3>2. CASE <<j, m, x>> # <<j0, m0, x0>>
      <4>1. delivered[j][m][x] > 0
        BY <1>5, <2>2, <3>2
      <4> QED
        BY <4>1 DEF DeliveriesHaveRuns
    <3> QED
      BY <3>1, <3>2
  <2>3. run' = run
    BY <1>1
  <2> QED
    BY <2>2, <2>3 DEF DeliveriesHaveRuns
<1>13. SendersAreAlone'
  <2>1. ASSUME NEW v \in Workers, InRun(v)'
        PROVE  /\ InRun(v) /\ work'[v].job = work[v].job /\ work'[v].at = work[v].at
               /\ v # w => work'[v] = work[v]
    BY <1>1, <1>6, <1>7, <2>1 DEF InRun
  <2>2. ASSUME NEW v \in Workers, InRun(v), v # w
        PROVE  <<work[v].job, Previous(work[v].job, work[v].at)>> # <<j0, m0>>
    <3>1. PICK r \in run : r.job = work[v].job /\ r.at = work[v].at
      BY <2>2 DEF SendersAreAlone
    <3>2. PICK q \in run : q.job = j0 /\ q.at = work[w].at
      BY <1>2
    <3>3. r = q => v = w
      BY <1>1, <2>2, <3>1, <3>2 DEF SendersAreAlone, j0
    <3> QED
      BY <2>2, <3>1, <3>2, <3>3 DEF OncePerOccurrence, j0, m0
  <2>3. ASSUME NEW v \in Workers, InRun(v)'
        PROVE  \E r \in run : r.job = work'[v].job /\ r.at = work'[v].at
    BY <2>1, <2>3 DEF SendersAreAlone
  <2>4. ASSUME NEW v \in Workers, InRun(v)', NEW u \in Workers,
               InRun(u)', work'[u].job = work'[v].job, work'[u].at = work'[v].at
        PROVE  u = v
    <3>1. /\ InRun(v) /\ work'[v].job = work[v].job /\ work'[v].at = work[v].at
          /\ InRun(u) /\ work'[u].job = work[u].job /\ work'[u].at = work[u].at
      BY <2>1, <2>4
    <3> QED
      BY <2>4, <3>1 DEF SendersAreAlone
  <2>5. ASSUME NEW v \in Workers, InRun(v)', NEW x \in Recipients,
               work'[v].pc = "targets" \/ x \in work'[v].todo
        PROVE  delivered'[work'[v].job][Previous(work'[v].job, work'[v].at)][x] = 0
    <3> DEFINE j == work[v].job
               m == Previous(work[v].job, work[v].at)
    <3>1. InRun(v) /\ work'[v].job = work[v].job /\ work'[v].at = work[v].at
      BY <2>1, <2>5
    <3>2. j \in Jobs /\ m \in Minutes
      BY <3>1, InRunIsTaken
    <3>3. /\ work[v].pc = "targets" \/ x \in work[v].todo
          /\ <<j, m, x>> # <<j0, m0, x0>>
      <4>1. CASE v = w
        BY <1>6, <2>5, <4>1
      <4>2. CASE v # w
        BY <2>1, <2>2, <2>5, <4>2
      <4> QED
        BY <4>1, <4>2
    <3>4. delivered[j][m][x] = 0
      BY <3>1, <3>3 DEF SendersAreAlone
    <3>5. delivered'[j][m][x] = delivered[j][m][x]
      <4> HIDE DEF j, m
      <4> QED
        BY <1>5, <3>2, <3>3
    <3> QED
      BY <3>1, <3>4, <3>5
  <2> QED
    BY <1>1, <2>3, <2>4, <2>5 DEF SendersAreAlone
<1> QED
  BY <1>8, <1>9, <1>10, <1>11, <1>12, <1>13

\* Closing a run changes neither its job nor its claim time.
LEMMA CloseRunKeeps ==
  ASSUME SchedulesAssumption, SchedulesIInv, NEW w \in Workers, CloseRun(w)
  PROVE  SchedulesIInv'
<1> USE DEF SchedulesIInv
<1> DEFINE closed(r) == [r EXCEPT !.status = Outcome(work[w].sent, work[w].failed),
                                  !.sent = work[w].sent, !.failed = work[w].failed,
                                  !.error = work[w].error]
           after(r) == IF r.job = work[w].job /\ r.at = work[w].at THEN closed(r) ELSE r
           new == [Asleep EXCEPT !.pc = "runs", !.claims = work[w].claims]
<1>1. /\ UNCHANGED <<clock, last, stored, lock, delivered>> /\ work[w] \in Work
      /\ run' = {after(r) : r \in run} /\ run \subseteq Run
      /\ work' = [work EXCEPT ![w] = new]
  BY DEF CloseRun, TypeOK
<1>2. /\ work[w].sent \in Nat /\ work[w].failed \in Nat /\ work[w].error \in BOOLEAN
      /\ work[w].claims \in SUBSET Claims
      /\ Outcome(work[w].sent, work[w].failed) \in {"completed", "partial", "failed"}
  BY <1>1 DEF Work, Outcome
<1>3. ASSUME NEW r \in run
      PROVE  after(r) \in Run /\ after(r).job = r.job /\ after(r).at = r.at
  <2>1. r \in Run
    BY <1>1
  <2>2. closed(r) \in Run /\ closed(r).job = r.job /\ closed(r).at = r.at
    BY <1>2, <2>1 DEF Run
  <2> HIDE DEF closed
  <2> QED
    BY <2>1, <2>2
<1> HIDE DEF after
<1>4. /\ \A r \in run : \E q \in run' : q.job = r.job /\ q.at = r.at
      /\ \A q \in run' : \E r \in run : q = after(r) /\ q.job = r.job /\ q.at = r.at
  BY <1>1, <1>3
<1>5. new \in Work /\ new.pc = "runs" /\ new.claims = work[w].claims
  <2>1. Asleep \in Work
    BY DEF SchedulesAssumption, Asleep, Work
  <2> QED
    BY <1>2, <2>1 DEF Work
<1> HIDE DEF new
<1>6. work'[w] = new /\ \A v \in Workers \ {w} : work'[v] = work[v]
  BY <1>1 DEF TypeOK
<1>7. TypeOK'
  <2>1. work' \in [Workers -> Work]
    BY <1>1, <1>5 DEF TypeOK
  <2>2. run' \subseteq Run
    BY <1>1, <1>3
  <2> QED
    BY <1>1, <2>1, <2>2 DEF TypeOK
<1>8. ClaimersHoldJobs'
  <2>1. \A v \in Workers : work'[v].pc = "claim" => work'[v] = work[v]
    BY <1>5, <1>6
  <2>2. \A v \in Workers, j \in Jobs :
          work'[v].pc = "claim" /\ lock[j] = v => lock'[j] = v /\ last'[j] = last[j]
    BY <1>1
  <2> QED
    BY <2>1, <2>2, ClaimersStay
<1>9. OncePerOccurrence'
  <2>1. ASSUME NEW x \in run', NEW y \in run',
               x.job = y.job, Previous(x.job, x.at) = Previous(y.job, y.at)
        PROVE  x = y
    <3>1. PICK r \in run : x = after(r) /\ x.job = r.job /\ x.at = r.at
      BY <1>4
    <3>2. PICK q \in run : y = after(q) /\ y.job = q.job /\ y.at = q.at
      BY <1>4
    <3>3. r = q
      BY <2>1, <3>1, <3>2 DEF OncePerOccurrence
    <3> QED
      BY <3>1, <3>2, <3>3
  <2> QED
    BY <1>1, <2>1 DEF OncePerOccurrence
<1>10. \A v \in Workers : work'[v].claims = work[v].claims
  BY <1>5, <1>6
<1>11. ClaimsAreNew'
  <2>1. ASSUME NEW x \in run'
        PROVE  /\ Taken(x.job, x.at)'
               /\ \A v \in Workers : \A c \in work[v].claims :
                    ~SameOccurrence(c.job, c.at, x.job, x.at)
    <3>1. PICK r \in run : x.job = r.job /\ x.at = r.at
      BY <1>4
    <3>2. Taken(x.job, x.at)
      BY <3>1 DEF ClaimsAreNew
    <3>3. Taken(x.job, x.at)'
      BY <1>1, <3>2 DEF Taken
    <3>4. ASSUME NEW v \in Workers, NEW c \in work[v].claims
          PROVE  ~SameOccurrence(c.job, c.at, x.job, x.at)
      BY <3>1 DEF ClaimsAreNew, SameOccurrence
    <3> QED
      BY <3>3, <3>4
  <2>2. ASSUME NEW v \in Workers, NEW c \in work[v].claims
        PROVE  Taken(c.job, c.at)'
    <3>1. Taken(c.job, c.at)
      BY DEF ClaimsAreNew
    <3> QED
      BY <1>1, <3>1 DEF Taken
  <2>3. \A v \in Workers : \A c \in work[v].claims :
          \A u \in Workers : \A d \in work[u].claims :
            SameOccurrence(c.job, c.at, d.job, d.at) => u = v /\ d = c
    BY DEF ClaimsAreNew
  <2> QED
    BY <1>10, <2>1, <2>2, <2>3 DEF ClaimsAreNew, SameOccurrence
<1>12. SendersAreAlone'
  <2>1. \A v \in Workers : InRun(v)' => InRun(v) /\ work'[v] = work[v]
    BY <1>5, <1>6 DEF InRun
  <2>2. ASSUME NEW v \in Workers, InRun(v)
        PROVE  \E r \in run' : r.job = work[v].job /\ r.at = work[v].at
    <3>1. PICK r \in run : r.job = work[v].job /\ r.at = work[v].at
      BY <2>2 DEF SendersAreAlone
    <3> QED
      BY <1>4, <3>1
  <2> QED
    BY <1>1, <2>1, <2>2 DEF SendersAreAlone
<1>13. DeliveriesHaveRuns'
  <2>1. ASSUME NEW j \in Jobs, NEW m \in Minutes, NEW x \in Recipients,
               delivered[j][m][x] > 0
        PROVE  \E r \in run' : r.job = j /\ Previous(j, r.at) = m
    <3>1. PICK r \in run : r.job = j /\ Previous(j, r.at) = m
      BY <2>1 DEF DeliveriesHaveRuns
    <3>2. PICK q \in run' : q.job = r.job /\ q.at = r.at
      BY <1>4
    <3> QED
      BY <3>1, <3>2
  <2> QED
    BY <1>1, <2>1 DEF DeliveriesHaveRuns
<1> QED
  BY <1>7, <1>8, <1>9, <1>11, <1>12, <1>13

-----------------------------------------------------------------------------
(* The counts of a run.                                                    *)

\* Those who got an occurrence can be counted.
LEMMA ReachedIsFinite ==
  ASSUME SchedulesAssumption, NEW j, NEW m
  PROVE  IsFiniteSet(Reached(j, m)) /\ Cardinality(Reached(j, m)) \in Nat
<1>1. IsFiniteSet(Recipients)
  BY FS_Union DEF SchedulesAssumption, Recipients
<1>2. Reached(j, m) \in SUBSET Recipients
  BY DEF Reached
<1> QED
  BY <1>1, <1>2, FS_Subset, FS_CardinalityType

\* A step that leaves runs and deliveries alone keeps the counts.
LEMMA QuietKeepsCounts ==
  ASSUME CountsIInv, UNCHANGED <<run, delivered>>,
         \A v \in Workers : InRun(v)' =>
           /\ InRun(v) /\ work'[v].job = work[v].job /\ work'[v].at = work[v].at
           /\ work'[v].sent = work[v].sent /\ work'[v].failed = work[v].failed
  PROVE  CountsIInv'
<1>1. \A j, m : Reached(j, m)' = Reached(j, m)
  BY DEF Reached
<1>2. RunsAreTrue'
  BY <1>1 DEF CountsIInv, RunsAreTrue
<1>3. ASSUME NEW w \in Workers, InRun(w)'
      PROVE  LET reached == Cardinality(Reached(work'[w].job,
                              Previous(work'[w].job, work'[w].at))) IN
             /\ work'[w].sent <= reached /\ reached <= work'[w].sent + work'[w].failed
             /\ \A r \in run : r.job = work'[w].job /\ r.at = work'[w].at =>
                  r.status = "running"
  BY <1>3 DEF CountsIInv, DeliveriesAreCounted
<1>4. DeliveriesAreCounted'
  BY <1>1, <1>3 DEF DeliveriesAreCounted
<1> QED
  BY <1>2, <1>4 DEF CountsIInv

\* The administrator, the clock, claims, and a worker that reads or stops.
LEMMA SmallStepsKeepCounts ==
  ASSUME SchedulesIInv, CountsIInv,
         \/ \E j \in Jobs : Store(j)
         \/ Tick
         \/ \E w \in Workers :
              \/ ReadClock(w) \/ ClaimDue(w) \/ ClaimRaises(w) \/ CommitClaims(w)
              \/ DropClaim(w) \/ PassOver(w) \/ ReadTargets(w) \/ Abort(w)
  PROVE  CountsIInv'
<1>1. CASE (\E j \in Jobs : Store(j)) \/ Tick
  BY <1>1, QuietKeepsCounts DEF Store, Tick, InRun
<1>2. ASSUME NEW w \in Workers,
             \/ ReadClock(w) \/ ClaimDue(w) \/ ClaimRaises(w) \/ CommitClaims(w)
             \/ DropClaim(w) \/ PassOver(w) \/ ReadTargets(w) \/ Abort(w)
      PROVE  CountsIInv'
  <2>1. work \in [Workers -> Work] /\ work[w] \in Work
    BY DEF SchedulesIInv, TypeOK
  <2>2. UNCHANGED <<run, delivered>>
    BY <1>2
    DEF ReadClock, ClaimDue, ClaimRaises, CommitClaims, DropClaim, PassOver, ReadTargets, Abort
  <2>3. \A v \in Workers \ {w} : work'[v] = work[v]
    BY <1>2, <2>1
    DEF ReadClock, ClaimDue, ClaimRaises, CommitClaims, DropClaim, PassOver, ReadTargets, Abort
  <2>4. InRun(w)' =>
          /\ InRun(w) /\ work'[w].job = work[w].job /\ work'[w].at = work[w].at
          /\ work'[w].sent = work[w].sent /\ work'[w].failed = work[w].failed
    <3>1. CASE ReadTargets(w)
      <4>1. PICK targets, error :
              work'[w] = [work[w] EXCEPT !.pc = "send", !.todo = targets, !.error = error]
        BY <2>1, <3>1 DEF ReadTargets
      <4>2. InRun(w)
        BY <3>1 DEF ReadTargets, InRun
      <4> QED
        BY <2>1, <4>1, <4>2 DEF Work
    <3>2. CASE ReadClock(w) \/ ClaimDue(w)
      <4>1. work'[w].pc \in {"now", "claim"}
        <5>1. CASE ReadClock(w)
          <6>1. work'[w] = [work[w] EXCEPT !.pc = "now", !.now = clock]
            BY <2>1, <5>1 DEF ReadClock
          <6> QED
            BY <2>1, <6>1 DEF Work
        <5>2. CASE ClaimDue(w)
          <6>1. PICK due : work'[w] = [work[w] EXCEPT !.pc = "claim", !.due = due]
            BY <2>1, <5>2 DEF ClaimDue
          <6> QED
            BY <2>1, <6>1 DEF Work
        <5> QED
          BY <3>2, <5>1, <5>2
      <4> QED
        BY <4>1 DEF InRun
    <3>3. CASE ClaimRaises(w) \/ CommitClaims(w) \/ PassOver(w) \/ Abort(w)
      <4>1. work'[w].pc \in {"sleep", "runs"}
        <5>1. CASE CommitClaims(w)
          <6>1. PICK claims : work'[w] = [Asleep EXCEPT !.pc = "runs", !.claims = claims]
            BY <2>1, <5>1 DEF CommitClaims
          <6> QED
            BY <6>1 DEF Asleep
        <5>2. CASE ClaimRaises(w) \/ PassOver(w) \/ Abort(w)
          <6>1. work'[w] = Asleep
            BY <2>1, <5>2 DEF ClaimRaises, PassOver, Abort
          <6> QED
            BY <6>1 DEF Asleep
        <5> QED
          BY <3>3, <5>1, <5>2
      <4> QED
        BY <4>1 DEF InRun
    <3>4. CASE DropClaim(w)
      <4>1. PICK claims : work'[w] = [work[w] EXCEPT !.claims = claims]
        BY <2>1, <3>4 DEF DropClaim
      <4>2. work'[w].pc = "runs"
        BY <2>1, <3>4, <4>1 DEF Work, DropClaim
      <4> QED
        BY <4>2 DEF InRun
    <3> QED
      BY <1>2, <3>1, <3>2, <3>3, <3>4
  <2>5. \A v \in Workers : InRun(v)' =>
          /\ InRun(v) /\ work'[v].job = work[v].job /\ work'[v].at = work[v].at
          /\ work'[v].sent = work[v].sent /\ work'[v].failed = work[v].failed
    <3>1. ASSUME NEW v \in Workers, v # w, InRun(v)'
          PROVE  InRun(v) /\ work'[v] = work[v]
      BY <2>3, <3>1 DEF InRun
    <3> QED
      BY <2>4, <3>1
  <2> QED
    BY <2>2, <2>5, QuietKeepsCounts
<1> QED
  BY <1>1, <1>2

\* A new run starts from nothing: nobody got its occurrence.
LEMMA OpenRunKeepsCounts ==
  ASSUME SchedulesAssumption, SchedulesIInv, CountsIInv, NEW w \in Workers, OpenRun(w)
  PROVE  CountsIInv'
<1> USE DEF SchedulesIInv, CountsIInv
<1>1. UNCHANGED <<last, delivered>> /\ work \in [Workers -> Work] /\ work[w] \in Work
  BY DEF OpenRun, TypeOK
<1>2. PICK c \in work[w].claims :
        /\ work' = [work EXCEPT ![w] =
             [work[w] EXCEPT !.pc = "targets", !.claims = work[w].claims \ {c},
                             !.job = c.job, !.at = c.at, !.sent = 0, !.failed = 0,
                             !.error = FALSE]]
        /\ run' = run \union {NewRun(c)}
  BY DEF OpenRun
<1>3. /\ c.job \in Jobs /\ c.at \in 0..Horizon /\ Taken(c.job, c.at)
      /\ \A r \in run : ~SameOccurrence(c.job, c.at, r.job, r.at)
  BY <1>1 DEF Work, Claims, ClaimsAreNew
<1>5. /\ work'[w].job = c.job /\ work'[w].at = c.at
      /\ work'[w].sent = 0 /\ work'[w].failed = 0
      /\ \A v \in Workers \ {w} : work'[v] = work[v]
  BY <1>1, <1>2 DEF Work
<1>6. NewRun(c).status = "running" /\ NewRun(c).job = c.job /\ NewRun(c).at = c.at
  BY DEF NewRun
<1>7. \A j, m : Reached(j, m)' = Reached(j, m)
  BY <1>1 DEF Reached
<1>8. RunsAreTrue'
  <2>1. ASSUME NEW r \in run', r.status # "running"
        PROVE  LET reached == Cardinality(Reached(r.job, Previous(r.job, r.at))) IN
               /\ r.sent <= reached /\ reached <= r.sent + r.failed
               /\ r.status = "completed" <=> r.failed = 0
    <3>1. r \in run
      BY <1>2, <1>6, <2>1
    <3> QED
      BY <2>1, <3>1 DEF RunsAreTrue
  <2>2. ASSUME NEW j \in Jobs, NEW m \in Minutes, Reached(j, m) # {}
        PROVE  \E r \in run' : r.job = j /\ Previous(j, r.at) = m
    <3>1. \E r \in run : r.job = j /\ Previous(j, r.at) = m
      BY <2>2 DEF RunsAreTrue
    <3> QED
      BY <1>2, <3>1
  <2> QED
    BY <1>7, <2>1, <2>2 DEF RunsAreTrue
<1>9. Reached(c.job, Previous(c.job, c.at)) = {}
  <2>1. Previous(c.job, c.at) \in Minutes
    BY <1>3, TakenIsMinute
  <2> QED
    BY <1>3, <2>1 DEF RunsAreTrue, SameOccurrence
<1>10. ASSUME NEW v \in Workers, InRun(v)'
       PROVE  LET reached == Cardinality(Reached(work'[v].job,
                               Previous(work'[v].job, work'[v].at))) IN
              /\ work'[v].sent <= reached /\ reached <= work'[v].sent + work'[v].failed
              /\ \A r \in run' : r.job = work'[v].job /\ r.at = work'[v].at =>
                   r.status = "running"
  <2>1. CASE v = w
    <3>1. Cardinality(Reached(c.job, Previous(c.job, c.at))) = 0
      BY <1>9, FS_EmptySet
    <3>2. \A r \in run' : r.job = c.job /\ r.at = c.at => r.status = "running"
      BY <1>3, <1>2, <1>6 DEF SameOccurrence
    <3> QED
      BY <1>5, <2>1, <3>1, <3>2
  <2>2. CASE v # w
    <3>1. InRun(v) /\ work'[v] = work[v]
      BY <1>5, <1>10, <2>2 DEF InRun
    <3>2. \A r \in run' : r.job = work'[v].job /\ r.at = work'[v].at => r.status = "running"
      BY <1>2, <1>6, <3>1 DEF DeliveriesAreCounted
    <3> QED
      BY <3>1, <3>2 DEF DeliveriesAreCounted
  <2> QED
    BY <2>1, <2>2
<1>11. DeliveriesAreCounted'
  BY <1>7, <1>10 DEF DeliveriesAreCounted
<1> QED
  BY <1>8, <1>11

\* One delivery reaches one more recipient of its own occurrence.
LEMMA DeliveryReaches ==
  ASSUME SchedulesAssumption,
         NEW j0 \in Jobs, NEW m0 \in Minutes, NEW x0 \in Recipients, NEW got \in {0, 1},
         delivered \in [Jobs -> [Minutes -> [Recipients -> Nat]]],
         delivered[j0][m0][x0] = 0, Delivers(j0, m0, x0, got)
  PROVE  /\ Cardinality(Reached(j0, m0))' = Cardinality(Reached(j0, m0)) + got
         /\ \A j \in Jobs, m \in Minutes :
              <<j, m>> # <<j0, m0>> => Reached(j, m)' = Reached(j, m)
<1> DEFINE before == {x \in Recipients : delivered[j0][m0][x] > 0}
           after == {x \in Recipients : delivered'[j0][m0][x] > 0}
<1>1. /\ delivered'[j0][m0][x0] = got
      /\ \A j \in Jobs, m \in Minutes, x \in Recipients :
           <<j, m, x>> # <<j0, m0, x0>> => delivered'[j][m][x] = delivered[j][m][x]
  BY DeliveryAdds
<1>2. Reached(j0, m0)' = after /\ Reached(j0, m0) = before
  BY DEF Reached
<1>3. IsFiniteSet(before) /\ Cardinality(before) \in Nat
  <2>1. IsFiniteSet(Reached(j0, m0)) /\ Cardinality(Reached(j0, m0)) \in Nat
    BY ReachedIsFinite
  <2> HIDE DEF before
  <2> QED
    BY <1>2, <2>1
<1>4. x0 \notin before
  OBVIOUS
<1>5. Cardinality(after) = Cardinality(before) + got
  <2>1. CASE got = 0
    <3>1. after = before
      <4>1. \A x \in Recipients : x # x0 => delivered'[j0][m0][x] = delivered[j0][m0][x]
        BY <1>1
      <4>2. ~(delivered'[j0][m0][x0] > 0) /\ ~(delivered[j0][m0][x0] > 0)
        BY <1>1, <2>1
      <4> QED
        BY <4>1, <4>2
    <3> HIDE DEF after, before
    <3> QED
      BY <1>3, <2>1, <3>1
  <2>2. CASE got = 1
    <3>1. after = before \union {x0}
      <4>1. \A x \in Recipients : x # x0 => delivered'[j0][m0][x] = delivered[j0][m0][x]
        BY <1>1
      <4>2. delivered'[j0][m0][x0] > 0
        BY <1>1, <2>2
      <4> QED
        BY <4>1, <4>2
    <3> HIDE DEF after, before
    <3>2. Cardinality(before \union {x0}) = Cardinality(before) + 1
      BY <1>3, <1>4, FS_AddElement
    <3> QED
      BY <2>2, <3>1, <3>2
  <2> QED
    BY <2>1, <2>2
<1>6. ASSUME NEW j \in Jobs, NEW m \in Minutes, <<j, m>> # <<j0, m0>>
      PROVE  Reached(j, m)' = Reached(j, m)
  <2>1. \A x \in Recipients : delivered'[j][m][x] = delivered[j][m][x]
    BY <1>1, <1>6
  <2> QED
    BY <2>1 DEF Reached
<1> HIDE DEF after, before
<1> QED
  BY <1>2, <1>5, <1>6

\* Each attempt is counted: as sent only if it got through, as failed if it raised.
LEMMA SendKeepsCounts ==
  ASSUME SchedulesAssumption, SchedulesIInv, CountsIInv, NEW w \in Workers, Send(w)
  PROVE  CountsIInv'
<1> USE DEF SchedulesIInv, CountsIInv
<1>1. /\ run' = run /\ run \subseteq Run /\ InRun(w) /\ work[w].pc = "send"
      /\ work \in [Workers -> Work] /\ work[w] \in Work
      /\ delivered \in [Jobs -> [Minutes -> [Recipients -> Nat]]]
  BY DEF Send, InRun, TypeOK
<1>2. PICK j0 \in Jobs, m0 \in Minutes :
        /\ j0 = work[w].job /\ m0 = Previous(work[w].job, work[w].at)
        /\ \E r \in run : r.job = j0 /\ r.at = work[w].at
  BY <1>1, InRunIsTaken
<1>3. PICK x0 \in work[w].todo, got \in {0, 1}, raised \in BOOLEAN :
        /\ got = 1 \/ raised
        /\ Delivers(j0, m0, x0, got)
        /\ work' = [work EXCEPT ![w] =
             IF raised THEN [work[w] EXCEPT !.failed = work[w].failed + 1, !.error = TRUE,
                                            !.todo = work[w].todo \ {x0}]
             ELSE [work[w] EXCEPT !.sent = work[w].sent + 1, !.todo = work[w].todo \ {x0}]]
  BY <1>2 DEF Send, Delivers
<1>4. /\ x0 \in Recipients /\ delivered[j0][m0][x0] = 0
      /\ work[w].sent \in Nat /\ work[w].failed \in Nat
  BY <1>1, <1>2 DEF Work, SendersAreAlone
<1>5. /\ Cardinality(Reached(j0, m0))' = Cardinality(Reached(j0, m0)) + got
      /\ \A j \in Jobs, m \in Minutes :
           <<j, m>> # <<j0, m0>> => Reached(j, m)' = Reached(j, m)
  <2>1. Delivers(j0, m0, x0, got)
    BY <1>3
  <2>2. /\ x0 \in Recipients /\ delivered[j0][m0][x0] = 0
        /\ delivered \in [Jobs -> [Minutes -> [Recipients -> Nat]]]
    BY <1>1, <1>4
  <2> QED
    BY <2>1, <2>2, DeliveryReaches
<1>6. Cardinality(Reached(j0, m0)) \in Nat
  BY ReachedIsFinite
<1>7. /\ work'[w].job = j0 /\ work'[w].at = work[w].at
      /\ IF raised THEN /\ work'[w].sent = work[w].sent
                        /\ work'[w].failed = work[w].failed + 1
         ELSE /\ work'[w].sent = work[w].sent + 1
              /\ work'[w].failed = work[w].failed
  <2>1. CASE raised
    <3>1. work'[w] = [work[w] EXCEPT !.failed = work[w].failed + 1, !.error = TRUE,
                                     !.todo = work[w].todo \ {x0}]
      BY <1>1, <1>3, <2>1
    <3> QED
      BY <1>1, <1>2, <2>1, <3>1 DEF Work
  <2>2. CASE ~raised
    <3>1. work'[w] = [work[w] EXCEPT !.sent = work[w].sent + 1,
                                     !.todo = work[w].todo \ {x0}]
      BY <1>1, <1>3, <2>2
    <3> QED
      BY <1>1, <1>2, <2>2, <3>1 DEF Work
  <2> QED
    BY <2>1, <2>2
<1>8. \A v \in Workers \ {w} : work'[v] = work[v]
  BY <1>1, <1>3
\* The only run of this occurrence is open.
<1>9. ASSUME NEW r \in run, r.job = j0, Previous(r.job, r.at) = m0
      PROVE  r.status = "running" /\ r.at = work[w].at
  <2>1. PICK q \in run : q.job = j0 /\ q.at = work[w].at
    BY <1>2
  <2>2. r = q
    BY <1>2, <1>9, <2>1 DEF OncePerOccurrence
  <2> QED
    BY <1>1, <1>2, <2>1, <2>2 DEF DeliveriesAreCounted
<1>10. RunsAreTrue'
  <2>1. ASSUME NEW r \in run, r.status # "running"
        PROVE  /\ r.sent <= Cardinality(Reached(r.job, Previous(r.job, r.at)))'
               /\ Cardinality(Reached(r.job, Previous(r.job, r.at)))' <= r.sent + r.failed
               /\ r.status = "completed" <=> r.failed = 0
    <3>1. r.job \in Jobs /\ r.at \in 0..Horizon /\ Taken(r.job, r.at)
      BY <1>1 DEF Run, ClaimsAreNew
    <3>2. Previous(r.job, r.at) \in Minutes
      BY <3>1, TakenIsMinute
    <3>3. <<r.job, Previous(r.job, r.at)>> # <<j0, m0>>
      BY <1>9, <2>1
    <3>4. Reached(r.job, Previous(r.job, r.at))' = Reached(r.job, Previous(r.job, r.at))
      BY <1>5, <3>1, <3>2, <3>3
    <3> QED
      BY <2>1, <3>4 DEF RunsAreTrue
  <2>2. ASSUME NEW j \in Jobs, NEW m \in Minutes, Reached(j, m)' # {}
        PROVE  \E r \in run : r.job = j /\ Previous(j, r.at) = m
    <3>1. CASE <<j, m>> = <<j0, m0>>
      BY <1>2, <3>1
    <3>2. CASE <<j, m>> # <<j0, m0>>
      BY <1>5, <2>2, <3>2 DEF RunsAreTrue
    <3> QED
      BY <3>1, <3>2
  <2> QED
    BY <1>1, <2>1, <2>2 DEF RunsAreTrue
<1>11. ASSUME NEW v \in Workers, InRun(v)',
              NEW j \in Jobs, j = work'[v].job,
              NEW m \in Minutes, m = Previous(work'[v].job, work'[v].at)
       PROVE  /\ work'[v].sent <= Cardinality(Reached(j, m))'
              /\ Cardinality(Reached(j, m))' <= work'[v].sent + work'[v].failed
              /\ \A r \in run : r.job = work'[v].job /\ r.at = work'[v].at =>
                   r.status = "running"
  <2>1. CASE v = w
    <3>1. j = j0 /\ m = m0
      BY <1>2, <1>7, <1>11, <2>1
    <3>2. /\ work[w].sent <= Cardinality(Reached(j0, m0))
          /\ Cardinality(Reached(j0, m0)) <= work[w].sent + work[w].failed
          /\ \A r \in run : r.job = work[w].job /\ r.at = work[w].at => r.status = "running"
      BY <1>1, <1>2 DEF DeliveriesAreCounted
    <3>3. /\ work'[w].sent <= Cardinality(Reached(j0, m0))'
          /\ Cardinality(Reached(j0, m0))' <= work'[w].sent + work'[w].failed
      BY <1>3, <1>4, <1>5, <1>6, <1>7, <3>2
    <3> QED
      BY <1>2, <1>7, <2>1, <3>1, <3>2, <3>3
  <2>2. CASE v # w
    <3>1. InRun(v) /\ work'[v] = work[v]
      BY <1>8, <1>11, <2>2 DEF InRun
    <3>2. PICK r \in run : r.job = work[v].job /\ r.at = work[v].at
      BY <3>1 DEF SendersAreAlone
    <3>3. <<j, m>> # <<j0, m0>>
      <4>1. CASE j = j0 /\ m = m0
        <5>1. r.at = work[w].at
          BY <1>9, <1>11, <3>1, <3>2, <4>1
        <5> QED
          BY <1>1, <1>2, <1>11, <2>2, <3>1, <3>2, <4>1, <5>1 DEF SendersAreAlone
      <4> QED
        BY <4>1
    <3>4. Reached(j, m)' = Reached(j, m)
      BY <1>5, <3>3
    <3> QED
      BY <1>11, <3>1, <3>4 DEF DeliveriesAreCounted
  <2> QED
    BY <2>1, <2>2
<1>12. ASSUME NEW v \in Workers, InRun(v)'
       PROVE  /\ work'[v].job \in Jobs
              /\ Previous(work'[v].job, work'[v].at) \in Minutes
  <2>1. InRun(v) /\ work'[v].job = work[v].job /\ work'[v].at = work[v].at
    BY <1>1, <1>2, <1>7, <1>8, <1>12 DEF InRun
  <2> QED
    BY <2>1, InRunIsTaken
<1>13. DeliveriesAreCounted'
  <2>1. ASSUME NEW v \in Workers, InRun(v)'
        PROVE  /\ work'[v].sent <=
                    Cardinality(Reached(work[v].job, Previous(work[v].job, work[v].at)))'
               /\ Cardinality(Reached(work[v].job, Previous(work[v].job, work[v].at)))' <=
                    work'[v].sent + work'[v].failed
               /\ \A r \in run : r.job = work'[v].job /\ r.at = work'[v].at =>
                    r.status = "running"
    <3>1. PICK j \in Jobs, m \in Minutes :
            j = work'[v].job /\ m = Previous(work'[v].job, work'[v].at)
      BY <1>12, <2>1
    <3>2. /\ work'[v].sent <= Cardinality(Reached(j, m))'
          /\ Cardinality(Reached(j, m))' <= work'[v].sent + work'[v].failed
          /\ \A r \in run : r.job = work'[v].job /\ r.at = work'[v].at => r.status = "running"
      BY <1>11, <2>1, <3>1
    <3> QED
      BY <3>1, <3>2
  <2> QED
    BY <1>1, <2>1 DEF DeliveriesAreCounted
<1> QED
  BY <1>10, <1>13

\* A closed run has the counts its worker had.
LEMMA CloseRunKeepsCounts ==
  ASSUME SchedulesAssumption, SchedulesIInv, CountsIInv, NEW w \in Workers, CloseRun(w)
  PROVE  CountsIInv'
<1> USE DEF SchedulesIInv, CountsIInv
<1> DEFINE closed(r) == [r EXCEPT !.status = Outcome(work[w].sent, work[w].failed),
                                  !.sent = work[w].sent, !.failed = work[w].failed,
                                  !.error = work[w].error]
           after(r) == IF r.job = work[w].job /\ r.at = work[w].at THEN closed(r) ELSE r
<1>1. /\ delivered' = delivered /\ work[w] \in Work /\ InRun(w)
      /\ run' = {after(r) : r \in run} /\ run \subseteq Run
      /\ work \in [Workers -> Work]
      /\ work' = [work EXCEPT ![w] = [Asleep EXCEPT !.pc = "runs", !.claims = work[w].claims]]
  BY DEF CloseRun, InRun, TypeOK
<1>2. /\ work[w].sent \in Nat /\ work[w].failed \in Nat
      /\ Outcome(work[w].sent, work[w].failed) = "completed" <=> work[w].failed = 0
  BY <1>1 DEF Work, Outcome
<1>3. ASSUME NEW r \in run
      PROVE  /\ after(r).job = r.job /\ after(r).at = r.at
             /\ (r.job = work[w].job /\ r.at = work[w].at) =>
                  /\ after(r).sent = work[w].sent /\ after(r).failed = work[w].failed
                  /\ after(r).status = Outcome(work[w].sent, work[w].failed)
             /\ ~(r.job = work[w].job /\ r.at = work[w].at) => after(r) = r
  <2>1. r \in Run
    BY <1>1
  <2>2. /\ closed(r).job = r.job /\ closed(r).at = r.at
        /\ closed(r).sent = work[w].sent /\ closed(r).failed = work[w].failed
        /\ closed(r).status = Outcome(work[w].sent, work[w].failed)
    BY <2>1 DEF Run
  <2> HIDE DEF closed
  <2> QED
    BY <2>2
<1> HIDE DEF after
<1>4. \A j, m : Reached(j, m)' = Reached(j, m)
  BY <1>1 DEF Reached
<1>5. RunsAreTrue'
  <2>1. ASSUME NEW q \in run', q.status # "running"
        PROVE  /\ q.sent <= Cardinality(Reached(q.job, Previous(q.job, q.at)))
               /\ Cardinality(Reached(q.job, Previous(q.job, q.at))) <= q.sent + q.failed
               /\ q.status = "completed" <=> q.failed = 0
    <3>1. PICK r \in run : q = after(r)
      BY <1>1
    <3>2. CASE r.job = work[w].job /\ r.at = work[w].at
      <4>1. /\ q.job = work[w].job /\ q.at = work[w].at
            /\ q.sent = work[w].sent /\ q.failed = work[w].failed
            /\ q.status = Outcome(work[w].sent, work[w].failed)
        BY <1>3, <3>1, <3>2
      <4> QED
        BY <1>1, <1>2, <4>1 DEF DeliveriesAreCounted
    <3>3. CASE ~(r.job = work[w].job /\ r.at = work[w].at)
      <4>1. q = r
        BY <1>3, <3>1, <3>3
      <4> QED
        BY <2>1, <4>1 DEF RunsAreTrue
    <3> QED
      BY <3>2, <3>3
  <2>2. ASSUME NEW j \in Jobs, NEW m \in Minutes, Reached(j, m) # {}
        PROVE  \E q \in run' : q.job = j /\ Previous(j, q.at) = m
    <3>1. PICK r \in run : r.job = j /\ Previous(j, r.at) = m
      BY <2>2 DEF RunsAreTrue
    <3>2. after(r) \in run'
      BY <1>1, <3>1
    <3> QED
      BY <1>3, <3>1, <3>2
  <2> QED
    BY <1>4, <2>1, <2>2 DEF RunsAreTrue
<1>6. ASSUME NEW v \in Workers, InRun(v)'
      PROVE  /\ v # w /\ InRun(v) /\ work'[v] = work[v]
             /\ \A q \in run' : q.job = work[v].job /\ q.at = work[v].at => q.status = "running"
  <2>1. v # w
    <3>1. work'[w].pc = "runs"
      BY <1>1 DEF Asleep
    <3> QED
      BY <1>6, <3>1 DEF InRun
  <2>2. work'[v] = work[v] /\ InRun(v)
    BY <1>1, <1>6, <2>1 DEF InRun
  <2>3. ASSUME NEW q \in run', q.job = work[v].job, q.at = work[v].at
        PROVE  q.status = "running"
    <3>1. PICK r \in run : q = after(r)
      BY <1>1
    <3>2. r.job = work[v].job /\ r.at = work[v].at
      BY <1>3, <2>3, <3>1
    <3>3. ~(r.job = work[w].job /\ r.at = work[w].at)
      BY <1>1, <2>1, <2>2, <3>2 DEF SendersAreAlone
    <3>4. q = r
      BY <1>3, <3>1, <3>3
    <3> QED
      BY <2>2, <3>2, <3>4 DEF DeliveriesAreCounted
  <2> QED
    BY <2>1, <2>2, <2>3
<1>7. DeliveriesAreCounted'
  <2>1. ASSUME NEW v \in Workers, InRun(v)'
        PROVE  LET reached == Cardinality(Reached(work'[v].job,
                                Previous(work'[v].job, work'[v].at))) IN
               /\ work'[v].sent <= reached /\ reached <= work'[v].sent + work'[v].failed
               /\ \A q \in run' : q.job = work'[v].job /\ q.at = work'[v].at =>
                    q.status = "running"
    BY <1>6, <2>1 DEF DeliveriesAreCounted
  <2> QED
    BY <1>4, <2>1 DEF DeliveriesAreCounted
<1> QED
  BY <1>5, <1>7

-----------------------------------------------------------------------------
(* The theorems.                                                           *)

\* The invariant holds before anything is stored.
LEMMA SchedulesInitially ==
  ASSUME SchedulesAssumption, Init
  PROVE  SchedulesIInv
<1>1. /\ \A w \in Workers : work[w] = Asleep
      /\ run = {} /\ clock = 0 /\ stored = {}
      /\ \A j \in Jobs, m \in Minutes, x \in Recipients : delivered[j][m][x] = 0
      /\ last \in [Jobs -> {Never}] /\ lock \in [Jobs -> {Free}]
      /\ work \in [Workers -> {Asleep}]
      /\ delivered \in [Jobs -> [Minutes -> [Recipients -> {0}]]]
  BY DEF Init
<1>2. Asleep \in Work /\ Asleep.pc = "sleep" /\ Asleep.claims = {}
  BY DEF SchedulesAssumption, Asleep, Work
<1>3. TypeOK
  <2>1. work \in [Workers -> Work]
    BY <1>1, <1>2
  <2>2. /\ delivered \in [Jobs -> [Minutes -> [Recipients -> Nat]]]
        /\ last \in [Jobs -> 0..Horizon \union {Never}]
        /\ lock \in [Jobs -> Workers \union {Free}] /\ clock \in 0..Horizon
    BY <1>1 DEF SchedulesAssumption
  <2> QED
    BY <1>1, <2>1, <2>2 DEF TypeOK
<1>4. OncePerOccurrence /\ DeliveriesHaveRuns
  BY <1>1 DEF OncePerOccurrence, DeliveriesHaveRuns
<1>5. ClaimersHoldJobs /\ ClaimsAreNew /\ SendersAreAlone
  BY <1>1, <1>2 DEF ClaimersHoldJobs, ClaimsAreNew, SendersAreAlone, InRun
<1> QED
  BY <1>3, <1>4, <1>5 DEF SchedulesIInv

\* Every step keeps the invariant.
LEMMA SchedulesInductive == SchedulesIInv /\ [Next]_vars => SchedulesIInv'
<1> SUFFICES ASSUME SchedulesIInv, [Next]_vars
             PROVE  SchedulesIInv'
  OBVIOUS
<1> USE SchedulesAssumption
<1>1. CASE UNCHANGED vars
  <2> USE <1>1 DEF vars, SchedulesIInv
  <2>1. TypeOK'
    BY DEF TypeOK
  <2>2. ClaimersHoldJobs'
    BY ClaimersStay
  <2>3. OncePerOccurrence' /\ ClaimsAreNew' /\ SendersAreAlone' /\ DeliveriesHaveRuns'
    BY QuietKeeps DEF InRun
  <2> QED
    BY <2>1, <2>2, <2>3
<1>2. CASE \/ \E j \in Jobs : Store(j)
           \/ Tick
           \/ \E w \in Workers :
                \/ ReadClock(w) \/ ClaimRaises(w) \/ DropClaim(w) \/ PassOver(w)
                \/ ReadTargets(w) \/ Abort(w)
  BY <1>2, SmallStepsKeep
<1>3. ASSUME NEW w \in Workers,
             ClaimDue(w) \/ CommitClaims(w) \/ OpenRun(w) \/ Send(w) \/ CloseRun(w)
      PROVE  SchedulesIInv'
  BY <1>3, ClaimDueKeeps, CommitClaimsKeeps, OpenRunKeeps, SendKeeps, CloseRunKeeps
<1> QED
  BY <1>1, <1>2, <1>3 DEF Next, WorkerNext

\* The invariant holds in every state.
LEMMA SchedulesAlways == Spec => []SchedulesIInv
<1>1. Init => SchedulesIInv
  BY SchedulesAssumption, SchedulesInitially
<1> QED
  BY <1>1, SchedulesInductive, PTL DEF Spec

\* Jobs, locks, run rows and workers keep their types, whatever the cron
\* expressions, the number of workers and the length of a minute.
THEOREM SchedulesKeepTypes == Spec => []TypeOK
<1>1. SchedulesIInv => TypeOK
  BY DEF SchedulesIInv
<1> QED
  BY <1>1, SchedulesAlways, PTL

\* However many workers race, lag and restart, no occurrence of a schedule has
\* two runs and nobody gets its message twice.
THEOREM SchedulesRunOnce == Spec => []OncePerOccurrence
<1>1. SchedulesIInv => OncePerOccurrence
  BY DEF SchedulesIInv
<1> QED
  BY <1>1, SchedulesAlways, PTL

\* The counts are right before anything is stored.
LEMMA CountsInitially ==
  ASSUME Init
  PROVE  CountsIInv
<1>1. /\ \A w \in Workers : work[w].pc = "sleep"
      /\ run = {}
      /\ \A j \in Jobs, m \in Minutes : Reached(j, m) = {}
  BY DEF Init, Asleep, Reached
<1> QED
  BY <1>1 DEF CountsIInv, DeliveriesAreCounted, RunsAreTrue, InRun

\* Every step keeps the counts right, given the first invariant.
LEMMA CountsInductive == SchedulesIInv /\ CountsIInv /\ [Next]_vars => CountsIInv'
<1> SUFFICES ASSUME SchedulesIInv, CountsIInv, [Next]_vars
             PROVE  CountsIInv'
  OBVIOUS
<1> USE SchedulesAssumption
<1>1. CASE UNCHANGED vars
  BY <1>1, QuietKeepsCounts DEF vars, InRun
<1>2. CASE \/ \E j \in Jobs : Store(j)
           \/ Tick
           \/ \E w \in Workers :
                \/ ReadClock(w) \/ ClaimDue(w) \/ ClaimRaises(w) \/ CommitClaims(w)
                \/ DropClaim(w) \/ PassOver(w) \/ ReadTargets(w) \/ Abort(w)
  BY <1>2, SmallStepsKeepCounts
<1>3. ASSUME NEW w \in Workers, OpenRun(w) \/ Send(w) \/ CloseRun(w)
      PROVE  CountsIInv'
  BY <1>3, OpenRunKeepsCounts, SendKeepsCounts, CloseRunKeepsCounts
<1> QED
  BY <1>1, <1>2, <1>3 DEF Next, WorkerNext

\* A closed run tells the truth about who got its message, and whoever got a
\* message got it from a run on record.
THEOREM SchedulesTellTruly == Spec => []RunsAreTrue
<1>1. Init => CountsIInv
  BY CountsInitially
<1>2. CountsIInv => RunsAreTrue
  BY DEF CountsIInv
<1> QED
  BY <1>1, <1>2, SchedulesAlways, CountsInductive, PTL DEF Spec
=============================================================================
