\* Every shape of expression on a calendar of seven days, with a leap day
\* that is further away than the search goes.
SPECIFICATION ClockSpec
CONSTANTS
    Expressions <- MCExpressions
    Zones <- MCZones
    Days <- MCDays
    MonthsPerYear = 2
    DaysPerMonth = 2
    DaysPerWeek = 3
    HoursPerDay = 2
    MinutesPerHour = 2
    SearchLimit = 16
    TicksPerMinute = 2
    MaxLate = 3
    Horizon = 60
INVARIANTS
    EveryTimeRunsOnce
CHECK_DEADLOCK FALSE
