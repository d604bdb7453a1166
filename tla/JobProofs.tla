----------------------------- MODULE JobProofs -----------------------------
(***************************************************************************)
(* The background jobs: runs of one job never overlap, for any number of   *)
(* jobs, any bounds and any order of the calls of start and stop; a        *)
(* scheduler thread runs at every time its expression stands for, for any  *)
(* expression, calendar, zone and resolution of the clock; and what the    *)
(* cleanup removes and keeps.                                              *)
(***************************************************************************)
EXTENDS CronJobs, CronTimes, TradersCleanup, TableLemmas

(* The inductive invariant: a worker, or a thread about to start one, owns *)
(* the lock of its job, and nobody takes a lock that is held.              *)
CronInvariant == TypeOK /\ AtMostOneRun /\ LockInvariant

LEMMA CronInit == Init => CronInvariant
<1> SUFFICES ASSUME Init PROVE CronInvariant
  OBVIOUS
<1>1. TypeOK BY DEF Init, TypeOK
<1>2. \A j \in Jobs : running[j] = 0 /\ finishing[j] = 0 /\ thread[j] = "none"
  BY DEF Init
<1>3. \A j \in Jobs : running[j] + finishing[j] = 0
  <2> TAKE j \in Jobs
  <2>1. running[j] = 0 /\ finishing[j] = 0 BY <1>2
  <2> QED BY <2>1
<1>4. AtMostOneRun /\ LockInvariant BY <1>2, <1>3 DEF AtMostOneRun, LockInvariant
<1> QED BY <1>1, <1>4 DEF CronInvariant

(* Each step keeps the invariant: only Acquire, Spawn, EndRun and Release  *)
(* touch the lock or the workers, each of the job that moves.              *)
LEMMA CronStep == CronInvariant /\ [Next]_vars => CronInvariant'
<1> SUFFICES ASSUME CronInvariant, [Next]_vars PROVE CronInvariant'
  OBVIOUS
<1> USE BoundsAssumption DEF CronInvariant, TypeOK, AtMostOneRun, LockInvariant
<1>1. CASE UNCHANGED vars
  <2>1. TypeOK' BY <1>1 DEF vars
  <2>2. AtMostOneRun' BY <1>1 DEF vars
  <2>3. LockInvariant' BY <1>1 DEF vars
  <2> QED BY <2>1, <2>2, <2>3
<1>2. ASSUME NEW j \in Jobs, Start(j) PROVE CronInvariant'
  <2>a. stopEvent' \in [Jobs -> BOOLEAN]
    BY <1>2 DEF Start
  <2>b. on' \in [Jobs -> BOOLEAN] /\ calls' \in Nat
    BY <1>2 DEF Start, Call
  <2>c. thread' \in [Jobs -> {"none", "check", "wait", "acquire", "spawn", "dead"}]
    BY <1>2 DEF Start
  <2>1. TypeOK' BY <1>2, <2>a, <2>b, <2>c DEF Start
  <2>2. AtMostOneRun' BY <1>2 DEF Start
  <2>3. LockInvariant' BY <1>2 DEF Start, Call, Alive
  <2> QED BY <2>1, <2>2, <2>3
<1>3. ASSUME NEW j \in Jobs, Stop(j) PROVE CronInvariant'
  BY <1>3 DEF Stop, Call
<1>4. ASSUME NEW j \in Jobs, Join(j) PROVE CronInvariant'
  BY <1>4 DEF Join
<1>4a. ASSUME NEW j \in Jobs, JoinTimesOut(j) PROVE CronInvariant'
  BY <1>4a DEF JoinTimesOut
<1>5. ASSUME NEW j \in Jobs, CheckStop(j) PROVE CronInvariant'
  BY <1>5 DEF CheckStop, Goto
<1>6. ASSUME NEW j \in Jobs, WakeUp(j) PROVE CronInvariant'
  BY <1>6 DEF WakeUp, Goto
<1>7. ASSUME NEW j \in Jobs, Acquire(j) PROVE CronInvariant'
  <2>1. TypeOK' BY <1>7 DEF Acquire, Goto
  <2>2. running[j] + finishing[j] = 0 BY <1>7 DEF Acquire
  <2>3. LockInvariant' BY <1>7, <2>2 DEF Acquire, Goto
  <2>4. AtMostOneRun' BY <1>7 DEF Acquire
  <2> QED BY <2>1, <2>3, <2>4
<1>8. ASSUME NEW j \in Jobs, Skip(j) PROVE CronInvariant'
  BY <1>8 DEF Skip, Goto
<1>9. ASSUME NEW j \in Jobs, Spawn(j) PROVE CronInvariant'
  <2>1. TypeOK' BY <1>9 DEF Spawn, Goto
  <2>2. running[j] + finishing[j] = 0 /\ lock[j] BY <1>9 DEF Spawn, Goto
  <2>3. AtMostOneRun' BY <1>9, <2>2 DEF Spawn
  <2>4. LockInvariant' BY <1>9, <2>2 DEF Spawn, Goto
  <2> QED BY <2>1, <2>3, <2>4
<1>10. ASSUME NEW j \in Jobs, Die(j) PROVE CronInvariant'
  BY <1>10 DEF Die
<1>11. ASSUME NEW j \in Jobs, EndRun(j) PROVE CronInvariant'
  <2>1. TypeOK' BY <1>11 DEF EndRun
  <2>2. \A k \in Jobs : running'[k] + finishing'[k] = running[k] + finishing[k]
    BY <1>11 DEF EndRun
  <2>3. AtMostOneRun' BY <2>2
  <2>4. LockInvariant' BY <1>11, <2>2 DEF EndRun
  <2> QED BY <2>1, <2>3, <2>4
<1>12. ASSUME NEW j \in Jobs, Release(j) PROVE CronInvariant'
  <2>1. TypeOK' BY <1>12 DEF Release
  <2>2. running'[j] + finishing'[j] = 0 /\ thread[j] # "spawn" BY <1>12 DEF Release
  <2>3. AtMostOneRun' BY <1>12, <2>2 DEF Release
  <2>4. LockInvariant' BY <1>12, <2>2 DEF Release
  <2> QED BY <2>1, <2>3, <2>4
<1> QED
  BY <1>1, <1>2, <1>3, <1>4, <1>4a, <1>5, <1>6, <1>7, <1>8, <1>9, <1>10, <1>11, <1>12
     DEF Next, Scheduler

(* Two runs of one job are never in progress together, although stop does  *)
(* not wait for the worker and start may follow it at once.                *)
THEOREM NoOverlap == Spec => []AtMostOneRun
<1>1. CronInvariant => AtMostOneRun
  BY DEF CronInvariant
<1> QED
  BY CronInit, CronStep, <1>1, PTL DEF Spec

(* The variables keep their types.                                         *)
THEOREM CronTypes == Spec => []TypeOK
<1>1. CronInvariant => TypeOK
  BY DEF CronInvariant
<1> QED
  BY CronInit, CronStep, <1>1, PTL DEF Spec
-----------------------------------------------------------------------------
(* A service that was stopped has no scheduler thread, unless its stop has *)
(* not returned or gave up.                                                *)
StoppedThreadIsGone ==
    faults = 0 => \A j \in Jobs : ~on[j] /\ caller # j => ~Alive(j)

LEMMA StoppedInit == Init => StoppedThreadIsGone
  BY DEF Init, StoppedThreadIsGone, Alive

LEMMA StoppedStep ==
    TypeOK /\ StoppedThreadIsGone /\ [Next]_vars => StoppedThreadIsGone'
<1> SUFFICES ASSUME TypeOK, StoppedThreadIsGone, [Next]_vars PROVE StoppedThreadIsGone'
  OBVIOUS
<1> USE DEF TypeOK, StoppedThreadIsGone, Alive
<1>1. CASE UNCHANGED vars
  BY <1>1 DEF vars
<1>2. ASSUME NEW j \in Jobs, Start(j) PROVE StoppedThreadIsGone'
  BY <1>2, NoneAssumption DEF Start, Call
<1>3. ASSUME NEW j \in Jobs, Stop(j) PROVE StoppedThreadIsGone'
  BY <1>3, NoneAssumption DEF Stop, Call
<1>4. ASSUME NEW j \in Jobs, Join(j) PROVE StoppedThreadIsGone'
  BY <1>4, NoneAssumption DEF Join, Joined
<1>5. ASSUME NEW j \in Jobs, JoinTimesOut(j) \/ Die(j) PROVE StoppedThreadIsGone'
  BY <1>5 DEF JoinTimesOut, Die
<1>6. ASSUME NEW j \in Jobs, Scheduler(j) PROVE StoppedThreadIsGone'
  <2>1. /\ thread[j] \notin {"none", "dead"}
        /\ \A k \in Jobs \ {j} : thread'[k] = thread[k]
        /\ UNCHANGED <<caller, on, faults>>
    BY <1>6 DEF Scheduler, CheckStop, WakeUp, Acquire, Skip, Spawn, Goto
  <2>2. QED
    BY <2>1
<1>7. ASSUME NEW j \in Jobs, EndRun(j) \/ Release(j) PROVE StoppedThreadIsGone'
  BY <1>7 DEF EndRun, Release
<1>8. QED
  BY <1>1, <1>2, <1>3, <1>4, <1>5, <1>6, <1>7 DEF Next

(* Once stop has returned no run begins until the next start.  Only the    *)
(* scheduler thread starts runs, and it is gone.                           *)
THEOREM StopIsFinal == Spec => NothingBeginsAfterStop
<1> DEFINE NoneBegins ==
      \A j \in Jobs : caller # j /\ ~on[j] /\ faults = 0 => running'[j] <= running[j]
<1>1. TypeOK /\ StoppedThreadIsGone /\ [Next]_vars => [NoneBegins]_vars
  <2> SUFFICES ASSUME TypeOK, StoppedThreadIsGone, [Next]_vars, ~ UNCHANGED vars,
                      NEW k \in Jobs, caller # k, ~on[k], faults = 0
               PROVE  running'[k] <= running[k]
    OBVIOUS
  <2> USE DEF TypeOK
  <2>1. thread[k] # "spawn"
    BY DEF StoppedThreadIsGone, Alive
  <2>2. PICK j \in Jobs :
          \/ Start(j) \/ Stop(j) \/ Join(j) \/ JoinTimesOut(j) \/ Scheduler(j) \/ Die(j)
          \/ EndRun(j) \/ Release(j)
    BY DEF Next
  <2>3. CASE Scheduler(j)
    <3>1. CASE Spawn(j)
      BY <2>1, <3>1 DEF Spawn, Goto
    <3>2. CASE ~Spawn(j)
      BY <2>3, <3>2 DEF Scheduler, CheckStop, WakeUp, Acquire, Skip
    <3>3. QED
      BY <3>1, <3>2
  <2>4. CASE EndRun(j)
    BY <2>4 DEF EndRun
  <2>5. CASE ~Scheduler(j) /\ ~EndRun(j)
    <3>1. UNCHANGED running
      BY <2>2, <2>5 DEF Start, Stop, Join, JoinTimesOut, Die, Release
    <3>2. QED
      BY <3>1
  <2>6. QED
    BY <2>3, <2>4, <2>5
<1>2. Spec => []TypeOK
  BY CronTypes
<1>3. QED
  BY <1>1, <1>2, StoppedInit, StoppedStep, PTL DEF Spec, NothingBeginsAfterStop
-----------------------------------------------------------------------------
(* Whole minutes of a time in ticks.                                       *)
LEMMA WholeMinutes ==
    ASSUME NEW local \in Nat
    PROVE  LET m == local \div TicksPerMinute IN
           /\ m \in Nat /\ m * TicksPerMinute \in Nat
           /\ m * TicksPerMinute <= local /\ local < m * TicksPerMinute + TicksPerMinute
           /\ local % TicksPerMinute = 0 <=> local = m * TicksPerMinute
  <1> DEFINE T == TicksPerMinute
             m == local \div T
  <1>1. T \in Nat /\ T > 0 BY ClockAssumption
  <1>2. m \in Nat /\ local = T * m + (local % T) /\ local % T \in 0..(T - 1)
    <2> HIDE DEF T
    <2> QED BY <1>1
  <1>3. m * T = T * m /\ T * m \in Nat BY <1>1, <1>2
  <1> HIDE DEF T, m
  <1> QED BY <1>1, <1>2, <1>3 DEF T, m

(* Minutes keep the order of ticks.                                        *)
LEMMA MinutesOrdered ==
    ASSUME NEW m \in Nat, NEW n \in Nat
    PROVE  /\ m < n => m * TicksPerMinute + TicksPerMinute <= n * TicksPerMinute
           /\ m * TicksPerMinute < n * TicksPerMinute => m < n
           /\ m * TicksPerMinute \in Nat
           /\ (m * TicksPerMinute) \div TicksPerMinute = m
  <1> DEFINE T == TicksPerMinute
  <1>1. T \in Nat /\ T > 0 BY ClockAssumption
  <1> HIDE DEF T
  <1>2. ASSUME NEW i \in Nat, NEW k \in Nat, i < k PROVE i * T + T <= k * T
    <2>1. PICK d \in Nat : k = i + 1 + d
      <3>1. k - i - 1 \in Nat /\ k = i + 1 + (k - i - 1) BY <1>2
      <3> QED BY <3>1
    <2>2. k * T = i * T + T + d * T /\ d * T \in Nat /\ i * T \in Nat BY <1>1, <2>1
    <2> QED BY <1>1, <2>2
  <1>3. m * T \in Nat /\ n * T \in Nat BY <1>1
  <1>4. m * T < n * T => m < n
    <2>1. CASE n < m BY <1>1, <1>2, <1>3, <2>1
    <2>2. CASE n = m BY <1>3, <2>2
    <2> QED BY <2>1, <2>2
  <1>5. (m * T) \div T = m
    <2> DEFINE k == (m * T) \div T
    <2>1. k \in Nat /\ k * T <= m * T /\ m * T < k * T + T
      BY <1>3, WholeMinutes DEF T
    <2> HIDE DEF k
    <2>2. k * T \in Nat BY <1>1, <2>1
    <2>3. ~(k < m) BY <1>1, <1>2, <1>3, <2>1, <2>2
    <2>4. ~(m < k) BY <1>1, <1>2, <1>3, <2>1, <2>2
    <2> QED BY <2>1, <2>3, <2>4 DEF k
  <1> QED BY <1>2, <1>3, <1>4, <1>5 DEF T

(* next_after: the first minute within the limit that matches.             *)
First(local) == local \div TicksPerMinute + 1

LEMMA NextAfterIsFirst ==
    ASSUME NEW e, NEW local \in Nat
    PROVE  LET next == NextAfter(e, local) IN
           /\ next # NoTime => next \in Nat /\ next >= First(local) /\ Matches(e, next)
           /\ \A m \in Nat : Matches(e, m) /\ First(local) <= m =>
                IF next = NoTime THEN First(local) + SearchLimit <= m ELSE next <= m
  <1> DEFINE first == First(local)
             found == {m \in first..(first + SearchLimit - 1) : Matches(e, m)}
  <1>1. first \in Nat /\ SearchLimit \in Nat BY WholeMinutes, ClockAssumption DEF First
  <1>2. NextAfter(e, local) = IF found = {} THEN NoTime ELSE Min(found)
    BY DEF NextAfter, First
  <1> HIDE DEF first
  <1>3. found \subseteq Nat BY <1>1
  <1>4. \A m \in Nat : Matches(e, m) /\ first <= m /\ m < first + SearchLimit => m \in found
    BY <1>1
  <1>5. \A m \in found : m >= first /\ Matches(e, m) /\ m < first + SearchLimit
    BY <1>1
  <1> HIDE DEF found
  <1>6. CASE found = {}
    <2>1. NextAfter(e, local) = NoTime BY <1>2, <1>6
    <2>2. \A m \in Nat : Matches(e, m) /\ first <= m => first + SearchLimit <= m
      BY <1>1, <1>4, <1>6
    <2> QED BY <2>1, <2>2 DEF first
  <1>7. CASE found # {}
    <2>1. PICK least \in found : \A x \in found : least <= x
      BY <1>3, <1>7, LeastNatural
    <2>2. Min(found) \in found /\ \A x \in found : Min(found) <= x
      BY <2>1 DEF Min
    <2>3. NextAfter(e, local) = Min(found) /\ Min(found) \in Nat /\ Min(found) # NoTime
      <3>1. NextAfter(e, local) = Min(found) BY <1>2, <1>7
      <3>2. Min(found) \in Nat BY <1>3, <2>2
      <3>3. NoTime \notin Nat BY DEF NoTime
      <3> QED BY <3>1, <3>2, <3>3
    <2>4. \A m \in Nat : Matches(e, m) /\ first <= m => Min(found) <= m
      <3> SUFFICES ASSUME NEW m \in Nat, Matches(e, m), first <= m PROVE Min(found) <= m
        OBVIOUS
      <3>1. CASE m < first + SearchLimit BY <1>4, <2>2, <3>1
      <3>2. CASE ~(m < first + SearchLimit)
        BY <1>1, <1>5, <2>2, <2>3, <3>2
      <3> QED BY <3>1, <3>2
    <2> QED BY <1>5, <2>2, <2>3, <2>4 DEF first
  <1> QED BY <1>6, <1>7

(* crontab's rule of day and weekday is that of _matches_day.              *)
LEMMA WantedMatches ==
    ASSUME NEW ticks
    PROVE  Wanted(ticks) <=> /\ ticks % TicksPerMinute = 0
                             /\ Matches(expression, ticks \div TicksPerMinute)
  <1> DEFINE local == ticks \div TicksPerMinute
             day == DateOf(local).day \in Values(expression.day, 1, DaysPerMonth)
             weekday == WeekdayOf(local) \in Weekdays(expression.weekday)
             anyDay == IsWildcard(expression.day)
             anyWeekday == IsWildcard(expression.weekday)
             told == (IF anyDay THEN {} ELSE {day}) \cup (IF anyWeekday THEN {} ELSE {weekday})
  <1>1. MatchesDay(expression, DateOf(local).day, WeekdayOf(local)) <=>
            \/ anyDay /\ anyWeekday
            \/ anyDay /\ weekday
            \/ anyWeekday /\ day
            \/ ~anyDay /\ ~anyWeekday /\ (day \/ weekday)
    BY DEF MatchesDay
  <1>2. day \in BOOLEAN /\ weekday \in BOOLEAN /\ anyDay \in BOOLEAN /\ anyWeekday \in BOOLEAN
    BY DEF IsWildcard
  <1>3. Wanted(ticks) <=>
            /\ ticks % TicksPerMinute = 0
            /\ MinuteOf(local) \in Values(expression.minute, 0, MinutesPerHour - 1)
            /\ HourOf(local) \in Values(expression.hour, 0, HoursPerDay - 1)
            /\ DateOf(local).month \in Values(expression.month, 1, MonthsPerYear)
            /\ told # {FALSE}
    BY DEF Wanted
  <1>4. Matches(expression, local) <=>
            /\ MinuteOf(local) \in Values(expression.minute, 0, MinutesPerHour - 1)
            /\ HourOf(local) \in Values(expression.hour, 0, HoursPerDay - 1)
            /\ DateOf(local).month \in Values(expression.month, 1, MonthsPerYear)
            /\ MatchesDay(expression, DateOf(local).day, WeekdayOf(local))
    BY DEF Matches
  <1> HIDE DEF day, weekday, anyDay, anyWeekday
  <1>5. told # {FALSE} <=>
            \/ anyDay /\ anyWeekday
            \/ anyDay /\ weekday
            \/ anyWeekday /\ day
            \/ ~anyDay /\ ~anyWeekday /\ (day \/ weekday)
    BY <1>2
  <1> QED BY <1>1, <1>3, <1>4, <1>5
-----------------------------------------------------------------------------
(* What the last sleep was computed from: when it began and what next_after*)
(* said of that moment.                                                    *)
Begun == LocalTicks(sleep.begun)
Planned == NextAfter(expression, Begun)

SleepTyped ==
    /\ zone \in Zones /\ now \in Nat
    /\ sleep \in [begun : Nat, planned : Nat \cup {NoTime}] /\ sleep.begun <= now
    /\ earlier \in Nat \cup {NoTime}
    /\ sleeper \in {"compute", "asleep", "dead"}

SleepIsComputed ==
    /\ sleep.planned # NoTime =>
         /\ Planned # NoTime
         /\ sleep.planned = sleep.begun + (Planned * TicksPerMinute - Begun)
         /\ sleep.planned > earlier
         /\ sleeper = "compute" => sleep.planned <= now
         /\ sleeper # "dead"
    /\ sleep.planned = NoTime =>
         \/ sleeper = "compute" /\ sleep.begun = now
         \/ sleeper = "dead" /\ Planned = NoTime

ClockInvariant == SleepTyped /\ SleepIsComputed

LEMMA LocalType ==
    ASSUME zone \in Zones, NEW ticks \in Nat
    PROVE  /\ LocalTicks(ticks) \in Nat /\ LocalTicks(ticks) >= ticks
           /\ Offset(ticks) * TicksPerMinute \in Nat
  <1>1. Offset(ticks) \in Nat BY ClockAssumption DEF Offset
  <1>2. Offset(ticks) * TicksPerMinute \in Nat BY <1>1, ClockAssumption
  <1> QED BY <1>2 DEF LocalTicks

(* The next time is later than the moment the clock was read.              *)
LEMMA NextIsLater ==
    ASSUME NEW e, NEW local \in Nat, NextAfter(e, local) # NoTime
    PROVE  /\ NextAfter(e, local) * TicksPerMinute \in Nat
           /\ NextAfter(e, local) * TicksPerMinute > local
  <1> DEFINE n == NextAfter(e, local)
             m == local \div TicksPerMinute
  <1>1. n \in Nat /\ n >= m + 1 BY NextAfterIsFirst DEF First
  <1>2. m \in Nat /\ m * TicksPerMinute \in Nat
        /\ local < m * TicksPerMinute + TicksPerMinute
    BY WholeMinutes
  <1> HIDE DEF n, m
  <1>3. m < n BY <1>1, <1>2
  <1>4. m * TicksPerMinute + TicksPerMinute <= n * TicksPerMinute
        /\ n * TicksPerMinute \in Nat
    BY <1>1, <1>2, <1>3, MinutesOrdered
  <1> QED BY <1>2, <1>4, ClockAssumption DEF n

LEMMA ClockStarts == ClockInit => ClockInvariant
  <1> SUFFICES ASSUME ClockInit PROVE ClockInvariant
    OBVIOUS
  <1>1. now \in Nat BY ClockAssumption DEF ClockInit
  <1> QED BY <1>1 DEF ClockInit, ClockInvariant, SleepTyped, SleepIsComputed

LEMMA MaxOfTwo == ASSUME NEW n \in Nat, n > 0 PROVE Max({n, 0}) = n
  <1>1. \A x \in {n, 0} : (\A y \in {n, 0} : x >= y) <=> x = n
    OBVIOUS
  <1>2. n \in {n, 0} OBVIOUS
  <1> QED BY <1>1, <1>2 DEF Max

LEMMA ClockSteps == ClockInvariant /\ [ClockNext]_clockVars => ClockInvariant'
  <1> SUFFICES ASSUME ClockInvariant, [ClockNext]_clockVars PROVE ClockInvariant'
    OBVIOUS
  <1>1. SleepTyped /\ SleepIsComputed BY DEF ClockInvariant
  <1>2. CASE Compute
    <2> DEFINE local == LocalTicks(now)
               n == NextAfter(expression, local)
               seconds == n * TicksPerMinute - local
    <2>1. local \in Nat BY <1>1, LocalType DEF SleepTyped
    <2>2. n # NoTime /\ sleeper' = "asleep" /\ earlier' = sleep.planned
          /\ UNCHANGED <<expression, zone, now>>
          /\ sleep' = [begun |-> now, planned |-> now + Max({seconds, 0})]
      BY <1>2 DEF Compute
    <2>3. n * TicksPerMinute \in Nat /\ n * TicksPerMinute > local
      BY <2>1, <2>2, NextIsLater
    <2>4. sleep'.begun = now /\ Begun' = local /\ Planned' = n
      <3>1. sleep'.begun = now BY <2>2
      <3>2. Begun' = local BY <2>2, <3>1 DEF Begun, LocalTicks, Offset
      <3> QED BY <2>2, <3>1, <3>2 DEF Planned, NextAfter, Matches, MatchesDay
    <2> HIDE DEF local, n
    <2>5. seconds \in Nat /\ seconds > 0 BY <2>1, <2>3
    <2>6. sleep'.planned = now + seconds
      <3>1. Max({seconds, 0}) = seconds BY <2>5, MaxOfTwo
      <3> QED BY <2>2, <3>1
    <2> HIDE DEF seconds
    <2>7. now \in Nat /\ (sleep.planned = NoTime \/ sleep.planned <= now)
          /\ sleep.planned \in Nat \cup {NoTime}
      BY <1>1, <1>2 DEF SleepTyped, SleepIsComputed, Compute
    <2>8. sleep'.planned \in Nat /\ sleep'.planned > earlier'
      <3>1. sleep'.planned \in Nat /\ sleep'.planned > now BY <2>5, <2>6, <2>7
      <3>2. CASE sleep.planned = NoTime
        <4>1. earlier' = -1 BY <2>2, <3>2 DEF NoTime
        <4> QED BY <3>1, <4>1
      <3>3. CASE sleep.planned \in Nat /\ sleep.planned <= now
        BY <2>2, <2>7, <3>1, <3>3
      <3> QED BY <2>7, <3>2, <3>3 DEF NoTime
    <2>9. sleep' \in [begun : Nat, planned : Nat \cup {NoTime}]
      <3>1. sleep' = [begun |-> now, planned |-> sleep'.planned] BY <2>2
      <3> QED BY <2>7, <2>8, <3>1
    <2>10. SleepTyped'
      BY <1>1, <2>2, <2>4, <2>7, <2>9 DEF SleepTyped
    <2>11. sleep'.planned # NoTime BY <2>8 DEF NoTime
    <2>12. SleepIsComputed'
      BY <2>2, <2>4, <2>6, <2>8, <2>11 DEF SleepIsComputed, seconds
    <2> QED BY <2>10, <2>12 DEF ClockInvariant
  <1>3. CASE NothingFound
    <2> DEFINE local == LocalTicks(now)
    <2>1. NextAfter(expression, local) = NoTime /\ sleeper' = "dead"
          /\ earlier' = sleep.planned /\ UNCHANGED <<expression, zone, now>>
          /\ sleep' = [begun |-> now, planned |-> NoTime]
      BY <1>3 DEF NothingFound
    <2>2. sleep'.begun = now /\ sleep'.planned = NoTime BY <2>1
    <2>3. Planned' = NoTime
      <3>1. Begun' = local BY <2>1, <2>2 DEF Begun, LocalTicks, Offset
      <3> QED BY <2>1, <3>1 DEF Planned, NextAfter, Matches, MatchesDay
    <2>4. SleepTyped' BY <1>1, <2>1, <2>2 DEF SleepTyped
    <2>5. SleepIsComputed' BY <2>1, <2>2, <2>3 DEF SleepIsComputed
    <2> QED BY <2>4, <2>5 DEF ClockInvariant
  <1>4. CASE Wake \/ Tick \/ UNCHANGED clockVars
    <2>1. UNCHANGED <<expression, zone, sleep, earlier>>
      BY <1>4 DEF Wake, Tick, clockVars
    <2>2. Begun' = Begun /\ Planned' = Planned
      <3>1. Begun' = Begun BY <2>1 DEF Begun, LocalTicks, Offset
      <3> QED BY <2>1, <3>1 DEF Planned, NextAfter, Matches, MatchesDay
    <2>3. SleepTyped'
      BY <1>1, <1>4, <2>1 DEF SleepTyped, Wake, Tick, clockVars
    <2>4. SleepIsComputed'
      BY <1>1, <1>4, <2>1, <2>2 DEF SleepTyped, SleepIsComputed, Wake, Tick, clockVars
    <2> QED BY <2>3, <2>4 DEF ClockInvariant
  <1> QED BY <1>2, <1>3, <1>4 DEF ClockNext
-----------------------------------------------------------------------------
(* While the offset of the end is that of the beginning, it was never      *)
(* another in between: it changes at most once.                            *)
LEMMA OffsetStays ==
    ASSUME ClockInvariant, ~Disturbed, NEW ticks \in sleep.begun..now
    PROVE  /\ Offset(ticks) = Offset(sleep.begun)
           /\ LocalTicks(ticks) - ticks = Begun - sleep.begun
           /\ LocalTicks(ticks) \in Nat /\ Begun \in Nat /\ ticks \in Nat
  <1>1. /\ zone \in Zones /\ now \in Nat /\ sleep.begun \in Nat /\ ticks \in Nat
        /\ sleep.begun <= ticks /\ ticks <= now
        /\ zone.change \in Nat
    BY ClockAssumption DEF ClockInvariant, SleepTyped
  <1>2. Offset(sleep.begun) = Offset(now) BY DEF Disturbed
  <1>3. Offset(ticks) = Offset(sleep.begun)
    <2>1. CASE ticks < zone.change
      <3>1. sleep.begun < zone.change BY <1>1, <2>1
      <3> QED BY <2>1, <3>1 DEF Offset
    <2>2. CASE ~(ticks < zone.change)
      <3>1. ~(now < zone.change) BY <1>1, <2>2
      <3> QED BY <1>2, <2>2, <3>1 DEF Offset
    <2> QED BY <2>1, <2>2
  <1>4. LocalTicks(ticks) \in Nat /\ Begun \in Nat /\ Offset(ticks) * TicksPerMinute \in Nat
    BY <1>1, LocalType DEF Begun
  <1>5. LocalTicks(ticks) - ticks = Begun - sleep.begun
    <2> DEFINE d == Offset(ticks) * TicksPerMinute
    <2>1. LocalTicks(ticks) = ticks + d /\ Begun = sleep.begun + d
      BY <1>3 DEF LocalTicks, Begun
    <2> HIDE DEF d
    <2>2. d \in Nat BY <1>4 DEF d
    <2> QED BY <1>1, <2>1, <2>2
  <1> QED BY <1>1, <1>3, <1>4, <1>5

(* The planned end of a sleep is a time the expression stands for.         *)
LEMMA EndIsWanted ==
    ASSUME ClockInvariant, ~Disturbed, sleep.planned \in 0..now
    PROVE  Wanted(LocalTicks(sleep.planned))
  <1>1. /\ sleep.begun \in Nat /\ now \in Nat /\ sleep.planned \in Nat /\ zone \in Zones
        /\ sleep.planned # NoTime
    BY DEF ClockInvariant, SleepTyped, NoTime
  <1>2. Planned # NoTime /\ sleep.planned = sleep.begun + (Planned * TicksPerMinute - Begun)
    BY <1>1 DEF ClockInvariant, SleepIsComputed
  <1>3. Begun \in Nat BY <1>1, LocalType DEF Begun
  <1>4. /\ Planned * TicksPerMinute \in Nat /\ Planned * TicksPerMinute > Begun
        /\ Planned \in Nat /\ Matches(expression, Planned)
    BY <1>2, <1>3, NextIsLater, NextAfterIsFirst DEF Planned
  <1>5. sleep.planned \in sleep.begun..now BY <1>1, <1>2, <1>3, <1>4
  <1>6. LocalTicks(sleep.planned) - sleep.planned = Begun - sleep.begun
        /\ LocalTicks(sleep.planned) \in Nat
    BY <1>5, OffsetStays
  <1>7. LocalTicks(sleep.planned) = Planned * TicksPerMinute
    BY <1>1, <1>2, <1>3, <1>4, <1>6
  <1>8. (Planned * TicksPerMinute) \div TicksPerMinute = Planned
    BY <1>4, MinutesOrdered
  <1>9. (Planned * TicksPerMinute) % TicksPerMinute = 0
    BY <1>4, <1>8, WholeMinutes
  <1> QED BY <1>4, <1>7, <1>8, <1>9, WantedMatches

(* No such time comes before that end, or before the limit of the search.  *)
LEMMA NoneIsPassed ==
    ASSUME ClockInvariant, ~Disturbed, NEW ticks \in (sleep.begun + 1)..now,
           Wanted(LocalTicks(ticks))
    PROVE  \/ sleep.planned \in 0..ticks
           \/ /\ sleep.planned = NoTime
              /\ ticks > sleep.begun + SearchLimit * TicksPerMinute
  <1> DEFINE m == LocalTicks(ticks) \div TicksPerMinute
  <1>1. /\ sleep.begun \in Nat /\ now \in Nat /\ sleep.begun < ticks /\ ticks <= now
        /\ ticks \in Nat /\ ticks \in sleep.begun..now
        /\ sleep.planned \in Nat \cup {NoTime}
    BY DEF ClockInvariant, SleepTyped
  <1>2. /\ LocalTicks(ticks) - ticks = Begun - sleep.begun
        /\ LocalTicks(ticks) \in Nat /\ Begun \in Nat
    BY <1>1, OffsetStays
  <1>3. LocalTicks(ticks) = m * TicksPerMinute /\ m \in Nat /\ Matches(expression, m)
    BY <1>2, WantedMatches, WholeMinutes
  <1> DEFINE b == Begun \div TicksPerMinute
  <1>4. /\ b \in Nat /\ b * TicksPerMinute \in Nat /\ b * TicksPerMinute <= Begun
        /\ First(Begun) = b + 1
    BY <1>2, WholeMinutes DEF First
  <1> HIDE DEF m, b
  <1>5. First(Begun) <= m
    <2>1. b * TicksPerMinute < m * TicksPerMinute
      <3>1. m * TicksPerMinute \in Nat /\ Begun < m * TicksPerMinute BY <1>1, <1>2, <1>3
      <3> QED BY <1>2, <1>4, <3>1
    <2>2. b < m BY <1>3, <1>4, <2>1, MinutesOrdered
    <2> QED BY <1>3, <1>4, <2>2
  <1>6. IF Planned = NoTime THEN First(Begun) + SearchLimit <= m ELSE Planned <= m
    BY <1>2, <1>3, <1>5, NextAfterIsFirst DEF Planned
  <1>7. CASE sleep.planned # NoTime
    <2>1. Planned # NoTime /\ sleep.planned = sleep.begun + (Planned * TicksPerMinute - Begun)
      BY <1>7 DEF ClockInvariant, SleepIsComputed
    <2>2. Planned \in Nat /\ Planned * TicksPerMinute \in Nat
      BY <1>2, <2>1, NextAfterIsFirst, NextIsLater DEF Planned
    <2>3. Planned * TicksPerMinute <= m * TicksPerMinute
      <3>1. CASE Planned = m BY <1>2, <1>3, <2>2, <3>1
      <3>2. CASE Planned < m
        BY <1>2, <1>3, <2>2, <3>2, MinutesOrdered, ClockAssumption
      <3> QED BY <1>3, <1>6, <2>1, <2>2, <3>1, <3>2
    <2>4. m * TicksPerMinute = LocalTicks(ticks) BY <1>3
    <2>5. sleep.planned <= ticks BY <1>1, <1>2, <2>1, <2>2, <2>3, <2>4
    <2> QED BY <1>1, <1>7, <2>5 DEF NoTime
  <1>8. CASE sleep.planned = NoTime
    <2>1. Planned = NoTime BY <1>1, <1>8 DEF ClockInvariant, SleepIsComputed
    <2>2. b + 1 + SearchLimit <= m /\ SearchLimit \in Nat
      BY <1>4, <1>6, <2>1, ClockAssumption
    <2> DEFINE k == b + 1 + SearchLimit
               T == TicksPerMinute
    <2>3. T \in Nat /\ T > 0 /\ k \in Nat /\ k <= m BY <1>4, <2>2, ClockAssumption
    <2>4. k * T = b * T + T + SearchLimit * T /\ SearchLimit * T \in Nat /\ b * T \in Nat
      BY <1>4, <2>2, <2>3
    <2>5. Begun < b * T + T BY <1>2, WholeMinutes DEF b
    <2> HIDE DEF T
    <2>6. k * T <= m * T
      <3>1. CASE k = m BY <1>3, <2>3, <3>1
      <3>2. CASE k < m
        BY <1>3, <2>3, <3>2, MinutesOrdered DEF T
      <3> QED BY <1>3, <2>3, <3>1, <3>2
    <2>7. Begun + SearchLimit * T < m * T
      <3> HIDE DEF k
      <3>1. k * T \in Nat /\ m * T \in Nat BY <1>3, <2>3
      <3> QED BY <1>2, <2>3, <2>4, <2>5, <2>6, <3>1
    <2>8. LocalTicks(ticks) = m * T BY <1>3 DEF T
    <2>9. ticks > sleep.begun + SearchLimit * T
      BY <1>1, <1>2, <2>4, <2>7, <2>8
    <2> QED BY <1>8, <2>9 DEF T
  <1> QED BY <1>7, <1>8

(* Every time an expression stands for is run once, whatever the           *)
(* expression, the calendar and the zone.                                  *)
THEOREM TimesRunOnce == ClockSpec => []EveryTimeRunsOnce
  <1>1. ClockInvariant => EveryTimeRunsOnce
    <2> SUFFICES ASSUME ClockInvariant PROVE EveryTimeRunsOnce
      OBVIOUS
    <2>1. sleep.planned # NoTime => sleep.planned > earlier
      BY DEF ClockInvariant, SleepIsComputed
    <2> QED BY <2>1, EndIsWanted, NoneIsPassed DEF EveryTimeRunsOnce
  <1> QED BY <1>1, ClockStarts, ClockSteps, PTL DEF ClockSpec

-----------------------------------------------------------------------------
(* The cleanup removes nobody who has enough transactions, and removes     *)
(* everybody it should who was there when the mutation was submitted, for  *)
(* any tables, any number of scans beside it and any delay of a mutation.  *)

USE DEF tables, locals

(* Sets that are inserted are finite, so a table stays a finite sequence.  *)
LEMMA InsertedRows ==
    ASSUME CleanupTypeOK, NEW T, NEW table \in Seq(T), NEW rows \in SUBSET T, IsFiniteSet(rows)
    PROVE  /\ table \o SetToSeq(rows) \in Seq(T)
           /\ Len(table) <= Len(table \o SetToSeq(rows))
           /\ Range(table) \subseteq Range(table \o SetToSeq(rows))
  <1>1. SetToSeq(rows) \in Seq(T)
    <2>1. SetToSeq(rows) \in Seq(rows) BY SetToSeqProperties
    <2> QED BY <2>1, SeqMonotonic
  <1>2. Len(SetToSeq(rows)) \in Nat /\ Len(table) \in Nat BY <1>1, LenProperties
  <1>3. Len(table \o SetToSeq(rows)) = Len(table) + Len(SetToSeq(rows))
    BY <1>1, ConcatProperties
  <1> QED BY <1>1, <1>2, <1>3, ConcatRange

(* What a scan inserts: traders of its transactions, competitors.          *)
LEMMA InsertedAreTyped ==
    ASSUME CleanupTypeOK, NEW p \in Scans
    PROVE  /\ NewTransactions(p) \in SUBSET Txs /\ IsFiniteSet(NewTransactions(p))
           /\ TradersOf(NewTransactions(p)) \in SUBSET Traders
           /\ \A rows \in SUBSET Traders : IsFiniteSet(rows)
  <1>1. NewTransactions(p) \in SUBSET Txs BY DEF CleanupTypeOK, NewTransactions
  <1>2. TradersOf(NewTransactions(p)) \in SUBSET Traders
    BY <1>1, DataAssumption DEF TradersOf
  <1> QED BY <1>1, <1>2, DataAssumption, FS_Subset

LEMMA CleanupStarts == CleanupInit => CleanupTypeOK
  <1> SUFFICES ASSUME CleanupInit PROVE CleanupTypeOK
    OBVIOUS
  <1>1. traders \in Seq(Traders)
    <2>1. IsFiniteSet(SeedTraders) BY DataAssumption, FS_Subset
    <2>2. SetToSeq(SeedTraders) \in Seq(SeedTraders) BY <2>1, SetToSeqProperties
    <2> QED BY <2>2, DataAssumption, SeqMonotonic DEF CleanupInit
  <1>2. transactions \in Seq(Txs) /\ deletes \in Seq(0..Len(traders)) /\ DOMAIN deletes = {}
    BY DEF CleanupInit
  <1> QED BY <1>1, <1>2, CleanupBounds DEF CleanupInit, CleanupTypeOK, Steps

(* What a mutation leaves: the rows it keeps, in front of those that were  *)
(* inserted after it was submitted.                                        *)
Kept == {i \in 1..Head(deletes) : traders[i] \notin Candidates}
Later == SubSeq(traders, Head(deletes) + 1, Len(traders))

LEMMA Applied ==
    ASSUME CleanupTypeOK, ApplyDelete
    PROVE  /\ Head(deletes) \in 0..Len(traders) /\ Len(traders) \in Nat
           /\ Kept \in SUBSET (DOMAIN traders) /\ Cardinality(Kept) \in 0..Head(deletes)
           /\ Later \in Seq(Traders) /\ Len(Later) = Len(traders) - Head(deletes)
           /\ traders' = RowsAt(traders, Kept) \o Later
           /\ traders' \in Seq(Traders)
           /\ Len(traders') = Len(traders) - (Head(deletes) - Cardinality(Kept))
  <1> DEFINE upto == Head(deletes)
  <1>1. traders \in Seq(Traders) /\ deletes \in Seq(0..Len(traders)) /\ deletes # <<>>
    BY DEF CleanupTypeOK, ApplyDelete
  <1>2. upto \in 0..Len(traders) /\ Len(traders) \in Nat /\ DOMAIN traders = 1..Len(traders)
    BY <1>1, HeadTailProperties, LenProperties
  <1>3. traders' = RowsAt(traders, Kept) \o Later
    BY DEF ApplyDelete, Kept, Later
  <1>4. Kept \in SUBSET (1..upto) /\ Kept \in SUBSET (DOMAIN traders)
    BY <1>2 DEF Kept
  <1> HIDE DEF upto
  <1>5. Cardinality(Kept) \in 0..upto
    <2>1. IsFiniteSet(1..upto) /\ Cardinality(1..upto) = upto BY <1>2, FS_Interval
    <2>2. IsFiniteSet(Kept) /\ Cardinality(Kept) <= upto BY <1>4, <2>1, FS_Subset
    <2>3. Cardinality(Kept) \in Nat BY <2>2, FS_CardinalityType
    <2> QED BY <1>2, <2>2, <2>3
  <1>6. Later \in Seq(Traders) /\ Len(Later) = Len(traders) - upto
    <2>1. \A i \in (upto + 1)..Len(traders) : traders[i] \in Traders
      BY <1>1, <1>2
    <2>2. upto + 1 \in Int /\ Len(traders) \in Int BY <1>2
    <2>3. Later = SubSeq(traders, upto + 1, Len(traders)) BY DEF Later, upto
    <2>4. Later \in Seq(Traders)
          /\ Len(Later) = IF upto + 1 <= Len(traders) THEN Len(traders) - (upto + 1) + 1 ELSE 0
      BY <2>1, <2>2, <2>3, SubSeqProperties
    <2>5. upto \in Nat /\ Len(traders) \in Nat /\ upto <= Len(traders) BY <1>2
    <2>6. CASE upto + 1 <= Len(traders) BY <2>4, <2>5, <2>6
    <2>7. CASE ~(upto + 1 <= Len(traders))
      <3>1. upto = Len(traders) BY <2>5, <2>7
      <3>2. Len(Later) = 0 BY <2>4, <2>7
      <3> QED BY <2>4, <2>5, <3>1, <3>2 DEF upto
    <2> QED BY <2>6, <2>7 DEF upto
  <1>7. /\ RowsAt(traders, Kept) \in Seq(Traders)
        /\ Len(RowsAt(traders, Kept)) = Cardinality(Kept)
    BY <1>1, <1>4, RowsAtPlaces
  <1>8. /\ traders' \in Seq(Traders)
        /\ Len(traders') = Cardinality(Kept) + (Len(traders) - upto)
    BY <1>3, <1>6, <1>7, ConcatProperties
  <1>9. Len(traders') = Len(traders) - (upto - Cardinality(Kept))
    BY <1>2, <1>5, <1>8
  <1> QED BY <1>2, <1>3, <1>4, <1>5, <1>6, <1>8, <1>9 DEF upto

LEMMA DeleteTyped ==
    ASSUME CleanupTypeOK, ApplyDelete
    PROVE  /\ deletes' \in Seq(0..Len(traders'))
           /\ \A i, j \in DOMAIN deletes' : i < j => deletes'[i] <= deletes'[j]
           /\ Len(deletes') < Len(deletes)
  <1> DEFINE upto == Head(deletes)
             gone == upto - Cardinality(Kept)
             n == Len(deletes)
  <1>1. deletes' = [i \in 1..(n - 1) |-> deletes[i + 1] - gone]
    BY DEF ApplyDelete, Kept
  <1>2. /\ n \in Nat \ {0} /\ DOMAIN deletes = 1..n
        /\ \A i \in 1..n : deletes[i] \in 0..Len(traders)
        /\ deletes[1] = upto
    <2>1. deletes \in Seq(0..Len(traders)) /\ deletes # <<>> BY DEF CleanupTypeOK, ApplyDelete
    <2>2. n \in Nat /\ DOMAIN deletes = 1..n BY <2>1, LenProperties
    <2>3. n # 0 BY <2>1, EmptySeq
    <2> QED BY <2>1, <2>2, <2>3
  <1>3. /\ upto \in Nat /\ Len(traders) \in Nat /\ Cardinality(Kept) \in 0..upto
        /\ Len(traders') = Len(traders) - gone
    BY Applied
  <1>4. gone \in 0..upto BY <1>3
  <1> HIDE DEF gone, n, upto
  <1>5. \A i \in 1..n : upto <= deletes[i]
    <2>1. \A i \in 1..n : 1 < i => deletes[1] <= deletes[i]
      <3>1. 1 \in DOMAIN deletes BY <1>2
      <3>2. \A i \in DOMAIN deletes : 1 < i => deletes[1] <= deletes[i]
        BY <3>1 DEF CleanupTypeOK
      <3> QED BY <1>2, <3>2
    <2> QED BY <1>2, <1>3, <2>1
  <1>6. \A i \in 1..(n - 1) : deletes[i + 1] - gone \in 0..Len(traders')
    <2> SUFFICES ASSUME NEW i \in 1..(n - 1) PROVE deletes[i + 1] - gone \in 0..Len(traders')
      OBVIOUS
    <2>1. i + 1 \in 1..n BY <1>2
    <2>2. deletes[i + 1] \in 0..Len(traders) /\ upto <= deletes[i + 1] BY <1>2, <1>5, <2>1
    <2> QED BY <1>3, <1>4, <2>2
  <1>7. deletes' \in Seq(0..Len(traders')) /\ DOMAIN deletes' = 1..(n - 1) /\ Len(deletes') = n - 1
    <2>1. n - 1 \in Nat BY <1>2
    <2> QED BY <1>1, <1>6, <2>1
  <1>8. ASSUME NEW i \in 1..(n - 1), NEW j \in 1..(n - 1), i < j
        PROVE  deletes'[i] <= deletes'[j]
    <2>1. i + 1 \in 1..n /\ j + 1 \in 1..n /\ i + 1 < j + 1 BY <1>2, <1>8
    <2>2. deletes[i + 1] <= deletes[j + 1] BY <1>2, <1>8, <2>1 DEF CleanupTypeOK
    <2>3. deletes[i + 1] \in Int /\ deletes[j + 1] \in Int BY <1>2, <2>1
    <2>4. deletes'[i] = deletes[i + 1] - gone /\ deletes'[j] = deletes[j + 1] - gone
      BY <1>1
    <2> QED BY <1>4, <2>2, <2>3, <2>4
  <1>9. Len(deletes') < n BY <1>2, <1>7
  <1> QED BY <1>7, <1>8, <1>9 DEF n

(* A larger table can have the same mutations pending.                     *)
LEMMA DeletesStay ==
    ASSUME CleanupTypeOK, deletes' = deletes, traders' \in Seq(Traders), Len(traders) <= Len(traders')
    PROVE  /\ deletes' \in Seq(0..Len(traders'))
           /\ \A i, j \in DOMAIN deletes' : i < j => deletes'[i] <= deletes'[j]
  <1>1. Len(traders) \in Nat /\ Len(traders') \in Nat
    BY LenProperties DEF CleanupTypeOK
  <1>2. 0..Len(traders) \subseteq 0..Len(traders') BY <1>1
  <1>3. deletes \in Seq(0..Len(traders')) BY <1>2, SeqMonotonic DEF CleanupTypeOK
  <1> QED BY <1>3 DEF CleanupTypeOK

(* A scan's step keeps the types: it inserts rows behind those there are.  *)
LEMMA ScanTypes ==
    ASSUME CleanupTypeOK, NEW p \in Scans, Step(p)
    PROVE  CleanupTypeOK' /\ Range(traders) \subseteq Range(traders') /\ deletes' = deletes
  <1> USE CleanupBounds
  <1>1. CASE StartForward(p)
    BY <1>1 DEF StartForward, Advance, CleanupTypeOK, Steps
  <1>2. CASE SelectTransactions(p)
    <2>1. payload[p] \cap Range(transactions) \in SUBSET Txs BY DEF CleanupTypeOK
    <2>2. seenTxs' \in [Scans -> SUBSET Txs] BY <1>2, <2>1 DEF SelectTransactions, CleanupTypeOK
    <2> QED BY <1>2, <2>2 DEF SelectTransactions, Advance, CleanupTypeOK, Steps
  <1>3. CASE SelectTraders(p)
    <2>1. TradersOf(NewTransactions(p)) \cap Range(traders) \in SUBSET Traders
      BY InsertedAreTyped
    <2>2. seenTraders' \in [Scans -> SUBSET Traders]
      BY <1>3, <2>1 DEF SelectTraders, CleanupTypeOK
    <2> QED BY <1>3, <2>2 DEF SelectTraders, Advance, CleanupTypeOK, Steps
  <1>4. CASE InsertTraders(p)
    <2> DEFINE rows == TradersOf(NewTransactions(p)) \ seenTraders[p]
    <2>1. rows \in SUBSET Traders /\ IsFiniteSet(rows)
      <3>1. rows \in SUBSET Traders BY InsertedAreTyped
      <3> HIDE DEF rows
      <3> QED BY <3>1, InsertedAreTyped
    <2>2. traders' = traders \o SetToSeq(rows) /\ deletes' = deletes
      BY <1>4 DEF InsertTraders
    <2> HIDE DEF rows
    <2>3. traders \in Seq(Traders) BY DEF CleanupTypeOK
    <2>4. /\ traders' \in Seq(Traders) /\ Len(traders) <= Len(traders')
          /\ Range(traders) \subseteq Range(traders')
      BY <2>1, <2>2, <2>3, InsertedRows
    <2>5. /\ deletes' \in Seq(0..Len(traders'))
          /\ \A i, j \in DOMAIN deletes' : i < j => deletes'[i] <= deletes'[j]
      BY <2>2, <2>4, DeletesStay
    <2> QED BY <1>4, <2>2, <2>4, <2>5 DEF InsertTraders, Advance, CleanupTypeOK, Steps
  <1>5. CASE InsertTransactions(p)
    <2>1. transactions \in Seq(Txs) BY DEF CleanupTypeOK
    <2>2. transactions' \in Seq(Txs)
      BY <1>5, <2>1, InsertedAreTyped, InsertedRows DEF InsertTransactions
    <2> QED BY <1>5, <2>2 DEF InsertTransactions, Advance, CleanupTypeOK, Steps
  <1>6. CASE StartReverse(p)
    BY <1>6 DEF StartReverse, Advance, CleanupTypeOK, Steps
  <1>7. CASE SelectCompetitors(p)
    <2>1. competitors[p] \cap Range(traders) \in SUBSET Traders BY DEF CleanupTypeOK
    <2>2. seenTraders' \in [Scans -> SUBSET Traders]
      BY <1>7, <2>1 DEF SelectCompetitors, CleanupTypeOK
    <2> QED BY <1>7, <2>2 DEF SelectCompetitors, Advance, CleanupTypeOK, Steps
  <1>8. CASE InsertCompetitors(p)
    <2> DEFINE rows == competitors[p] \ seenTraders[p]
    <2>1. rows \in SUBSET Traders /\ IsFiniteSet(rows)
      <3>1. rows \in SUBSET Traders BY DEF CleanupTypeOK
      <3> HIDE DEF rows
      <3> QED BY <3>1, InsertedAreTyped
    <2>2. traders' = traders \o SetToSeq(rows) /\ deletes' = deletes
      BY <1>8 DEF InsertCompetitors
    <2> HIDE DEF rows
    <2>3. traders \in Seq(Traders) BY DEF CleanupTypeOK
    <2>4. /\ traders' \in Seq(Traders) /\ Len(traders) <= Len(traders')
          /\ Range(traders) \subseteq Range(traders')
      BY <2>1, <2>2, <2>3, InsertedRows
    <2>5. /\ deletes' \in Seq(0..Len(traders'))
          /\ \A i, j \in DOMAIN deletes' : i < j => deletes'[i] <= deletes'[j]
      BY <2>2, <2>4, DeletesStay
    <2> QED BY <1>8, <2>2, <2>4, <2>5 DEF InsertCompetitors, Advance, CleanupTypeOK, Steps
  <1>9. CASE Fail(p)
    BY <1>9 DEF Fail, CleanupTypeOK, Steps
  <1> QED BY <1>1, <1>2, <1>3, <1>4, <1>5, <1>6, <1>7, <1>8, <1>9 DEF Step

(* A mutation is submitted for the rows there are: no pending one covers   *)
(* more.                                                                   *)
LEMMA SubmitTypes ==
    ASSUME CleanupTypeOK, SubmitDelete
    PROVE  CleanupTypeOK' /\ traders' = traders /\ Len(deletes) < Len(deletes')
  <1>1. /\ deletes' = Append(deletes, Len(traders)) /\ traders' = traders
        /\ deletes \in Seq(0..Len(traders)) /\ Len(traders) \in 0..Len(traders)
    <2>1. Len(traders) \in Nat BY LenProperties DEF CleanupTypeOK
    <2> QED BY <2>1 DEF SubmitDelete, CleanupTypeOK
  <1>2. /\ Len(deletes) \in Nat /\ DOMAIN deletes = 1..Len(deletes)
        /\ \A i \in 1..Len(deletes) : deletes[i] \in 0..Len(traders)
    BY <1>1, LenProperties
  <1>3. /\ deletes' \in Seq(0..Len(traders)) /\ Len(deletes') = Len(deletes) + 1
        /\ DOMAIN deletes' = 1..(Len(deletes) + 1)
        /\ \A i \in 1..Len(deletes) : deletes'[i] = deletes[i]
        /\ deletes'[Len(deletes) + 1] = Len(traders)
    BY <1>1, <1>2
  <1>4. \A i, j \in DOMAIN deletes' : i < j => deletes'[i] <= deletes'[j]
    <2> SUFFICES ASSUME NEW i \in 1..(Len(deletes) + 1), NEW j \in 1..(Len(deletes) + 1), i < j
                 PROVE  deletes'[i] <= deletes'[j]
      BY <1>3
    <2>1. i \in 1..Len(deletes) /\ deletes'[i] = deletes[i] BY <1>2, <1>3
    <2>2. CASE j \in 1..Len(deletes)
      <3>1. i \in DOMAIN deletes /\ j \in DOMAIN deletes BY <1>2, <2>1, <2>2
      <3>2. deletes[i] <= deletes[j] BY <3>1 DEF CleanupTypeOK
      <3> QED BY <1>3, <2>1, <2>2, <3>2
    <2>3. CASE j = Len(deletes) + 1
      <3>1. deletes[i] <= Len(traders) BY <1>2, <2>1
      <3> QED BY <1>3, <2>1, <2>3, <3>1
    <2> QED BY <1>2, <2>2, <2>3
  <1> QED BY <1>1, <1>2, <1>3, <1>4 DEF SubmitDelete, CleanupTypeOK

LEMMA CleanupTypes == CleanupTypeOK /\ [CleanupNext]_cleanupVars => CleanupTypeOK'
  <1> SUFFICES ASSUME CleanupTypeOK, [CleanupNext]_cleanupVars PROVE CleanupTypeOK'
    OBVIOUS
  <1>1. CASE CountCandidates
    BY <1>1, CleanupBounds DEF CountCandidates, CleanupTypeOK
  <1>2. CASE SubmitDelete
    BY <1>2, SubmitTypes
  <1>3. CASE FailCleanup
    BY <1>3 DEF FailCleanup, CleanupTypeOK
  <1>4. CASE ApplyDelete
    BY <1>4, Applied, DeleteTyped DEF ApplyDelete, CleanupTypeOK
  <1>5. CASE \E p \in Scans : Step(p)
    BY <1>5, ScanTypes
  <1>6. CASE UNCHANGED cleanupVars
    BY <1>6 DEF cleanupVars, CleanupTypeOK
  <1> QED BY <1>1, <1>2, <1>3, <1>4, <1>5, <1>6 DEF CleanupNext

(* The tables and the pending mutations keep their types: no mutation      *)
(* covers more rows than there are, whichever rows an earlier one removed. *)
THEOREM CleanupTyped == CleanupSpec => []CleanupTypeOK
  <1> QED BY CleanupStarts, CleanupTypes, PTL DEF CleanupSpec
-----------------------------------------------------------------------------
(* A transaction that is stored has a row, and a trader that is tracked.   *)
LEMMA RowsOfTracked ==
    ASSUME CleanupTypeOK, NEW t \in Traders
    PROVE  /\ TraderRows(t) \in Nat /\ TransactionRows(t) \in Nat
           /\ StoredTransactions(t) \in Nat
           /\ Tracked(t) => TraderRows(t) > 0
           /\ StoredTransactions(t) <= TransactionRows(t)
  <1> DEFINE places == {i \in DOMAIN traders : traders[i] = t}
             txPlaces == {i \in DOMAIN transactions : TraderOf[transactions[i]] = t}
             stored == {x \in Range(transactions) : TraderOf[x] = t}
  <1>1. TraderRows(t) = Cardinality(places) /\ TransactionRows(t) = Cardinality(txPlaces)
        /\ StoredTransactions(t) = Cardinality(stored)
    BY DEF TraderRows, TransactionRows, Rows, StoredTransactions
  <1>2. /\ IsFiniteSet(DOMAIN traders) /\ IsFiniteSet(DOMAIN transactions)
    <2>1. /\ DOMAIN traders = 1..Len(traders) /\ Len(traders) \in Nat
          /\ DOMAIN transactions = 1..Len(transactions) /\ Len(transactions) \in Nat
      BY LenProperties DEF CleanupTypeOK
    <2> QED BY <2>1, FS_Interval
  <1>3. IsFiniteSet(places) /\ IsFiniteSet(txPlaces)
    <2>1. places \in SUBSET (DOMAIN traders) /\ txPlaces \in SUBSET (DOMAIN transactions)
      OBVIOUS
    <2> HIDE DEF places, txPlaces
    <2> QED BY <1>2, <2>1, FS_Subset
  <1>4. \A x \in stored : \E i \in txPlaces : transactions[i] = x
    BY DEF Range
  <1> DEFINE place == [x \in stored |-> CHOOSE i \in txPlaces : transactions[i] = x]
  <1>5. place \in [stored -> txPlaces] /\ \A x \in stored : transactions[place[x]] = x
    BY <1>4
  <1>6. Tracked(t) => places # {}
    BY DEF Tracked, Range
  <1> HIDE DEF places, txPlaces, stored, place
  <1>7. \A x, y \in stored : place[x] = place[y] => x = y
    BY <1>5
  <1>8. IsFiniteSet(stored) /\ Cardinality(stored) <= Cardinality(txPlaces)
    BY <1>3, <1>5, <1>7, InjectionBound
  <1>9. /\ Cardinality(places) \in Nat /\ Cardinality(txPlaces) \in Nat
        /\ Cardinality(stored) \in Nat
    BY <1>3, <1>8, FS_CardinalityType
  <1>10. places # {} => Cardinality(places) > 0
    BY <1>3, <1>9, FS_EmptySet
  <1> QED BY <1>1, <1>6, <1>8, <1>9, <1>10

(* However often its row and its transactions are stored, a trader with    *)
(* enough transactions is no candidate.                                    *)
LEMMA ActiveIsNoCandidate ==
    ASSUME CleanupTypeOK, NEW t \in Traders, Tracked(t), StoredTransactions(t) >= MinTransactions
    PROVE  t \notin Candidates
  <1> DEFINE n == TraderRows(t)
             m == TransactionRows(t)
             least == MinTransactions
  <1>1. n \in Nat /\ n > 0 /\ m \in Nat /\ least \in Nat /\ m >= least /\ m # 0
    BY RowsOfTracked, ThresholdAssumption
  <1>2. JoinedRows(t) = n * m
    BY <1>1 DEF JoinedRows
  <1> HIDE DEF n, m, least
  <1>3. n * m >= m /\ n * m \in Nat
    <2>1. PICK k \in Nat : n = k + 1
      <3>1. n - 1 \in Nat /\ n = (n - 1) + 1 BY <1>1
      <3> QED BY <3>1
    <2>2. n * m = k * m + m /\ k * m \in Nat BY <1>1, <2>1
    <2> QED BY <1>1, <2>2
  <1>4. ~(n * m < least) BY <1>1, <1>3
  <1> QED BY <1>2, <1>4 DEF Candidates, least

LEMMA ActiveStay ==
    ASSUME CleanupTypeOK, ApplyDelete, NEW t \in Traders,
           Tracked(t), StoredTransactions(t) >= MinTransactions
    PROVE  Tracked(t)'
  <1>1. t \notin Candidates BY ActiveIsNoCandidate
  <1>2. traders \in Seq(Traders) /\ DOMAIN traders = 1..Len(traders)
    BY LenProperties DEF CleanupTypeOK
  <1>3. PICK i \in 1..Len(traders) : traders[i] = t BY <1>2 DEF Tracked, Range
  <1> DEFINE upto == Head(deletes)
  <1>4. /\ upto \in 0..Len(traders) /\ Len(traders) \in Nat
        /\ Kept \in SUBSET (DOMAIN traders)
        /\ Later \in Seq(Traders) /\ Len(Later) = Len(traders) - upto
        /\ traders' = RowsAt(traders, Kept) \o Later
    BY Applied
  <1>5. /\ RowsAt(traders, Kept) \in Seq(Traders)
        /\ \A k \in Kept : traders[k] \in Range(RowsAt(traders, Kept))
    BY <1>2, <1>4, RowsAtPlaces
  <1>6. Range(traders') = Range(RowsAt(traders, Kept)) \cup Range(Later)
    BY <1>4, <1>5, ConcatRange
  <1>7. CASE i <= upto
    <2>1. i \in 1..upto BY <1>3, <1>4, <1>7
    <2>2. i \in Kept BY <1>1, <1>3, <2>1 DEF Kept
    <2>3. t \in Range(RowsAt(traders, Kept)) BY <1>3, <1>5, <2>2
    <2> QED BY <1>6, <2>3 DEF Tracked
  <1>8. CASE ~(i <= upto)
    <2>1. i - upto \in 1..Len(Later) BY <1>3, <1>4, <1>8
    <2>2. Later[i - upto] = traders[i]
      <3> DEFINE m == upto + 1
                 k == i - upto
                 n == Len(traders)
      <3>1. /\ upto \in Nat /\ n \in Nat /\ i \in Nat
            /\ upto < i /\ i <= n
        <4>1. upto \in Nat /\ n \in Nat /\ i \in 1..n BY <1>3, <1>4
        <4> HIDE DEF upto, n
        <4> QED BY <1>8, <4>1
      <3>2. Later = SubSeq(traders, m, n) BY DEF Later
      <3> HIDE DEF upto
      <3>4. m \in Int /\ n \in Int /\ k \in 1..(n - m + 1) /\ m + k - 1 = i
        <4> HIDE DEF n
        <4> QED BY <3>1
      <3> HIDE DEF m, k, n
      <3>3. Later[k] = traders[m + k - 1] BY <3>2, <3>4
      <3> QED BY <3>3, <3>4 DEF k
    <2>3. t \in Range(Later)
      <3>1. DOMAIN Later = 1..Len(Later) BY <1>4, LenProperties
      <3> QED BY <1>3, <2>1, <2>2, <3>1 DEF Range
    <2> QED BY <1>6, <2>3 DEF Tracked
  <1> QED BY <1>7, <1>8

(* A trader that has enough transactions stays, whenever the mutation is   *)
(* applied and whatever the scans stored twice.                            *)
THEOREM ActiveAreKept == CleanupSpec => ActiveTradersStay
  <1>1. CleanupTypeOK /\ [CleanupNext]_cleanupVars
          => [\A t \in Traders :
                Tracked(t) /\ StoredTransactions(t) >= MinTransactions => Tracked(t)']_cleanupVars
    <2> SUFFICES ASSUME CleanupTypeOK, CleanupNext, NEW t \in Traders,
                        Tracked(t), StoredTransactions(t) >= MinTransactions
                 PROVE  Tracked(t)'
      OBVIOUS
    <2>1. CASE ApplyDelete BY <2>1, ActiveStay
    <2>2. CASE \E p \in Scans : Step(p) BY <2>2, ScanTypes DEF Tracked
    <2>3. CASE CountCandidates \/ SubmitDelete \/ FailCleanup
      BY <2>3 DEF Tracked, CountCandidates, SubmitDelete, FailCleanup
    <2> QED BY <2>1, <2>2, <2>3 DEF CleanupNext
  <1> QED BY <1>1, CleanupStarts, CleanupTypes, PTL DEF CleanupSpec, ActiveTradersStay
-----------------------------------------------------------------------------
(* With a threshold of one, a trader without transactions has as many      *)
(* joined rows as is enough; above it, one row and too few transactions    *)
(* make a candidate.                                                       *)
MoreThanOne == MinTransactions > 1

LEMMA InactiveIsCandidate ==
    ASSUME CleanupTypeOK, MoreThanOne, NEW t \in Traders, Unrepeated(t), Tracked(t),
           StoredTransactions(t) < MinTransactions
    PROVE  t \in Candidates
  <1>1. /\ TraderRows(t) = 1 /\ TransactionRows(t) = StoredTransactions(t)
        /\ StoredTransactions(t) \in Nat /\ MinTransactions \in Nat
    BY RowsOfTracked, ThresholdAssumption DEF Unrepeated
  <1>2. JoinedRows(t) < MinTransactions
    <2>1. CASE StoredTransactions(t) = 0
      BY <1>1, <2>1 DEF JoinedRows, MoreThanOne
    <2>2. CASE StoredTransactions(t) # 0
      <3>1. JoinedRows(t) = 1 * StoredTransactions(t) BY <1>1, <2>2 DEF JoinedRows
      <3> QED BY <1>1, <3>1
    <2> QED BY <2>1, <2>2
  <1> QED BY <1>2 DEF Candidates, Tracked

LEMMA InactiveGo ==
    ASSUME CleanupTypeOK, MoreThanOne, ApplyDelete, NEW t \in Traders, Unrepeated(t),
           StoredTransactions(t) < MinTransactions,
           NEW k \in 1..(Len(traders') - (Len(traders) - Head(deletes)))
    PROVE  traders'[k] # t
  <1>1. /\ Kept \in SUBSET (DOMAIN traders) /\ Later \in Seq(Traders)
        /\ traders' = RowsAt(traders, Kept) \o Later
        /\ Len(traders') = Len(traders) - (Head(deletes) - Cardinality(Kept))
        /\ Head(deletes) \in 0..Len(traders) /\ Len(traders) \in Nat
        /\ Cardinality(Kept) \in 0..Head(deletes)
    BY Applied
  <1>2. k \in 1..Cardinality(Kept) BY <1>1
  <1>3. /\ RowsAt(traders, Kept) \in Seq(Traders)
        /\ Len(RowsAt(traders, Kept)) = Cardinality(Kept)
        /\ \A n \in DOMAIN RowsAt(traders, Kept) :
             \E i \in Kept : RowsAt(traders, Kept)[n] = traders[i]
    <2>1. traders \in Seq(Traders) BY DEF CleanupTypeOK
    <2> QED BY <1>1, <2>1, RowsAtPlaces
  <1>4. DOMAIN RowsAt(traders, Kept) = 1..Cardinality(Kept)
    BY <1>3, LenProperties
  <1>5. traders'[k] = RowsAt(traders, Kept)[k]
    <2>1. Len(Later) \in Nat /\ Cardinality(Kept) \in Nat BY <1>1, <1>3, LenProperties
    <2>2. k \in 1..(Cardinality(Kept) + Len(Later)) /\ k <= Cardinality(Kept)
      BY <1>2, <2>1
    <2> QED BY <1>1, <1>3, <2>2, ConcatProperties
  <1>6. PICK i \in Kept : traders'[k] = traders[i] BY <1>2, <1>3, <1>4, <1>5
  <1>7. traders[i] \notin Candidates /\ i \in DOMAIN traders BY <1>1, <1>6 DEF Kept
  <1>8. traders[i] = t => Tracked(t) BY <1>7 DEF Tracked, Range
  <1> QED BY <1>6, <1>7, <1>8, InactiveIsCandidate

(* A mutation removes every trader with too few transactions that was      *)
(* there when it was submitted, if the threshold is greater than one.      *)
THEOREM InactiveAreRemoved ==
    ASSUME MoreThanOne
    PROVE  CleanupSpec => InactiveTradersGo
  <1>1. CleanupTypeOK /\ [CleanupNext]_cleanupVars
          => [\A t \in Traders :
                Len(deletes') < Len(deletes) /\ Unrepeated(t)
                  /\ StoredTransactions(t) < MinTransactions
                  => \A i \in 1..(Len(traders') - (Len(traders) - Head(deletes))) :
                        traders'[i] # t]_cleanupVars
    <2> SUFFICES ASSUME CleanupTypeOK, CleanupNext, NEW t \in Traders, Len(deletes') < Len(deletes),
                        Unrepeated(t), StoredTransactions(t) < MinTransactions
                 PROVE  \A i \in 1..(Len(traders') - (Len(traders) - Head(deletes))) :
                           traders'[i] # t
      OBVIOUS
    <2>1. Len(deletes) \in Nat BY LenProperties DEF CleanupTypeOK
    <2>2. ~SubmitDelete
      <3>1. SubmitDelete => Len(deletes) < Len(deletes') /\ Len(deletes') \in Nat
        <4>1. SubmitDelete => Len(deletes) < Len(deletes') /\ CleanupTypeOK' BY SubmitTypes
        <4>2. CleanupTypeOK' => Len(deletes') \in Nat BY LenProperties DEF CleanupTypeOK
        <4> QED BY <4>1, <4>2
      <3> QED BY <2>1, <3>1
    <2>3. ~(\E p \in Scans : Step(p)) BY <2>1, ScanTypes
    <2>4. ~(CountCandidates \/ FailCleanup) BY <2>1 DEF CountCandidates, FailCleanup
    <2>5. ApplyDelete BY <2>2, <2>3, <2>4 DEF CleanupNext
    <2> QED BY <2>5, InactiveGo
  <1> QED BY <1>1, CleanupStarts, CleanupTypes, PTL DEF CleanupSpec, InactiveTradersGo
=============================================================================
