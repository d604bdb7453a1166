\* A scan that hangs, and a cleanup that does not; five calls of start
\* and stop, and two scheduler threads that die or outlive their stop.
SPECIFICATION Spec
CONSTANTS
    Jobs = {scan, cleanup}
    Hanging = {scan}
    MaxCalls = 5
    MaxFaults = 2
INVARIANTS
    TypeOK
    AtMostOneRun
PROPERTIES
    NothingBeginsAfterStop
    StopReturns
    RunsAgain
CHECK_DEADLOCK FALSE
