----------------------------- MODULE CronTimes -----------------------------
(***************************************************************************)
(* When a scheduler runs: CronExpression (utils/cron.py) and the clock     *)
(* side of _run_loop, which both background services have: read the wall   *)
(* clock, search the next minute that matches, sleep for the difference,   *)
(* try to run.  The threads, the event and the lock are in CronJobs.       *)
(*                                                                         *)
(* Time is counted in ticks, a few to the minute, so that the clock is     *)
(* read between two minutes.  The calendar is scaled: its sizes are        *)
(* constants, the source has 60, 24, 7, the Gregorian days and 366 days to *)
(* search.  Local time is UTC plus an offset that may change once; the     *)
(* code subtracts two wall clock times of one zone, which ignores it.      *)
(* Local days are counted from one that is over in every zone, so that no  *)
(* offset is negative.                                                     *)
(***************************************************************************)
EXTENDS Integers, Sequences, FiniteSetsExt, Functions

CONSTANTS
    Expressions,        \* parsed cron expressions: a field for each unit
    Zones,              \* UTC offset in minutes [before, after], and the change
    Days,               \* the calendar: [month, day] of each day, from day 0
    MonthsPerYear, DaysPerMonth, DaysPerWeek, HoursPerDay, MinutesPerHour,
    SearchLimit,        \* minutes that next_after tries
    TicksPerMinute,
    MaxLate,            \* bound: ticks by which a thread oversleeps
    Horizon             \* bound: ticks that are modelled

VARIABLES
    expression, zone,
    now,                \* ticks of UTC
    sleeper,            \* the thread: "compute", "asleep" or "dead"
    sleep,              \* the last sleep: when it began and its planned end
    earlier             \* auxiliary: the planned end of the sleep before it

ASSUME ClockAssumption ==
    /\ TicksPerMinute \in Nat \ {0} /\ SearchLimit \in Nat
    /\ Zones \subseteq [before : Nat, after : Nat, change : Nat]

clockVars == <<expression, zone, now, sleeper, sleep, earlier>>

NoTime == -1
-----------------------------------------------------------------------------
(* A field is a sequence of parts: a star, a value or a range, with a step *)
(* or without one (0).  It is a wildcard only if it is nothing but a star. *)
Star == [star |-> TRUE, from |-> 0, to |-> 0, step |-> 0]

IsWildcard(field) == field = <<Star>>

(* _parse_value, and "Cron range must be ascending": anything else raises. *)
IsValid(field, least, most) ==
    /\ field # <<>>
    /\ \A part \in Range(field) : part.star \/ (least <= part.from /\ part.from <= part.to
                                         /\ part.to <= most)

Values(field, least, most) ==
    {v \in least..most : \E part \in Range(field) :
        LET first == IF part.star THEN least ELSE part.from
            last == IF part.star THEN most ELSE part.to
            step == IF part.step = 0 THEN 1 ELSE part.step
        IN  first <= v /\ v <= last /\ (v - first) % step = 0}

(* Sunday is 0, and 7 as well.                                             *)
Weekdays(field) ==
    {IF v = DaysPerWeek THEN 0 ELSE v : v \in Values(field, 0, DaysPerWeek)}

IsExpression(e) ==
    /\ IsValid(e.minute, 0, MinutesPerHour - 1) /\ IsValid(e.hour, 0, HoursPerDay - 1)
    /\ IsValid(e.day, 1, DaysPerMonth) /\ IsValid(e.month, 1, MonthsPerYear)
    /\ IsValid(e.weekday, 0, DaysPerWeek)
-----------------------------------------------------------------------------
(* A local time is a number of minutes; day 0 is a Monday.                 *)
MinuteOf(local) == local % MinutesPerHour
HourOf(local) == (local \div MinutesPerHour) % HoursPerDay
DayNumber(local) == local \div (MinutesPerHour * HoursPerDay)
DateOf(local) == Days[(DayNumber(local) % Len(Days)) + 1]
WeekdayOf(local) == ((DayNumber(local) % DaysPerWeek) + 1) % DaysPerWeek

(* Fault: both fields must match.                                          *)
MatchesBoth(e, day, weekday) ==
    /\ day \in Values(e.day, 1, DaysPerMonth)
    /\ weekday \in Weekdays(e.weekday)

(* _matches_day                                                            *)
MatchesDay(e, day, weekday) ==
    LET dayMatches == day \in Values(e.day, 1, DaysPerMonth)
        weekdayMatches == weekday \in Weekdays(e.weekday)
    IN  \/ IsWildcard(e.day) /\ IsWildcard(e.weekday)
        \/ IsWildcard(e.day) /\ weekdayMatches
        \/ IsWildcard(e.weekday) /\ dayMatches
        \/ ~IsWildcard(e.day) /\ ~IsWildcard(e.weekday) /\ (dayMatches \/ weekdayMatches)

Matches(e, local) ==
    /\ MinuteOf(local) \in Values(e.minute, 0, MinutesPerHour - 1)
    /\ HourOf(local) \in Values(e.hour, 0, HoursPerDay - 1)
    /\ DateOf(local).month \in Values(e.month, 1, MonthsPerYear)
    /\ MatchesDay(e, DateOf(local).day, WeekdayOf(local))

(* Fault: the search begins with the minute that has already begun.        *)
NextFrom(e, localTicks) ==
    LET first == localTicks \div TicksPerMinute
        found == {m \in first..(first + SearchLimit - 1) : Matches(e, m)}
    IN  IF found = {} THEN NoTime ELSE Min(found)

(* next_after                                                              *)
NextAfter(e, localTicks) ==
    LET first == localTicks \div TicksPerMinute + 1
        found == {m \in first..(first + SearchLimit - 1) : Matches(e, m)}
    IN  IF found = {} THEN NoTime ELSE Min(found)

(* datetime.now of the zone, in ticks of the wall clock.                   *)
Offset(ticks) == IF ticks < zone.change THEN zone.before ELSE zone.after
LocalTicks(ticks) == ticks + Offset(ticks) * TicksPerMinute
-----------------------------------------------------------------------------
ClockInit ==
    /\ expression \in {e \in Expressions : IsExpression(e)}
    /\ zone \in Zones
    /\ now \in 0..TicksPerMinute
    /\ sleeper = "compute"
    /\ sleep = [begun |-> now, planned |-> NoTime]
    /\ earlier = NoTime

(* The clock is read, the next time searched and the thread goes to sleep. *)
Compute ==
    LET next == NextAfter(expression, LocalTicks(now))
        seconds == next * TicksPerMinute - LocalTicks(now)
    IN  /\ sleeper = "compute" /\ next # NoTime
        /\ sleeper' = "asleep"
        /\ sleep' = [begun |-> now, planned |-> now + Max({seconds, 0})]
        /\ earlier' = sleep.planned
        /\ UNCHANGED <<expression, zone, now>>

(* "Unable to resolve next run": nothing catches it in the thread.         *)
NothingFound ==
    /\ sleeper = "compute" /\ NextAfter(expression, LocalTicks(now)) = NoTime
    /\ sleeper' = "dead"
    /\ sleep' = [begun |-> now, planned |-> NoTime]
    /\ earlier' = sleep.planned
    /\ UNCHANGED <<expression, zone, now>>

(* The wait times out and the run is tried.                                *)
Wake ==
    /\ sleeper = "asleep" /\ now >= sleep.planned
    /\ sleeper' = "compute"
    /\ UNCHANGED <<expression, zone, now, sleep, earlier>>

Tick ==
    /\ now < Horizon /\ sleeper # "compute"
    /\ sleeper = "asleep" => now < sleep.planned + MaxLate
    /\ now' = now + 1
    /\ UNCHANGED <<expression, zone, sleeper, sleep, earlier>>

ClockNext == Compute \/ NothingFound \/ Wake \/ Tick

ClockSpec == ClockInit /\ [][ClockNext]_clockVars
-----------------------------------------------------------------------------
(* The times the expression stands for, as crontab has it: each restricted *)
(* field holds; of day and weekday one is enough.                          *)
Wanted(localTicks) ==
    LET e == expression
        local == localTicks \div TicksPerMinute
        day == IF IsWildcard(e.day) THEN {}
               ELSE {DateOf(local).day \in Values(e.day, 1, DaysPerMonth)}
        weekday == IF IsWildcard(e.weekday) THEN {}
                   ELSE {WeekdayOf(local) \in Weekdays(e.weekday)}
    IN  /\ localTicks % TicksPerMinute = 0
        /\ MinuteOf(local) \in Values(e.minute, 0, MinutesPerHour - 1)
        /\ HourOf(local) \in Values(e.hour, 0, HoursPerDay - 1)
        /\ DateOf(local).month \in Values(e.month, 1, MonthsPerYear)
        /\ day \cup weekday # {FALSE}

(* The offset changed during the sleep: the run is early or late by the    *)
(* change, and times within it are lost or repeated.                       *)
Disturbed == Offset(sleep.begun) # Offset(now)

(* Every time is run once: a sleep during which the offset stays the same  *)
(* ends at a minute the expression stands for and passes over none, and    *)
(* each ends later than the sleep before it, although the loop reads the   *)
(* clock again in the minute it woke in.  So a time is lost only to a      *)
(* thread that overslept it, to a change of the offset, or to a thread     *)
(* that died because it found nothing within the limit of the search.      *)
EveryTimeRunsOnce ==
    /\ sleep.planned # NoTime => sleep.planned > earlier
    /\ ~Disturbed =>
         /\ sleep.planned \in 0..now => Wanted(LocalTicks(sleep.planned))
         /\ \A ticks \in (sleep.begun + 1)..now :
              Wanted(LocalTicks(ticks)) =>
                  \/ sleep.planned \in 0..ticks
                  \/ sleep.planned = NoTime
                     /\ ticks > sleep.begun + SearchLimit * TicksPerMinute
=============================================================================
