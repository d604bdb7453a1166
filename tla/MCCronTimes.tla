---------------------------- MODULE MCCronTimes ----------------------------
(***************************************************************************)
(* A small calendar: hours of two minutes, days of two hours, weeks of     *)
(* three days, and two years of two months of which the first ends with a  *)
(* leap day.                                                               *)
(***************************************************************************)
EXTENDS CronTimes

Month(month, days) == [d \in 1..days |-> [month |-> month, day |-> d]]
MCDays == Month(1, 2) \o Month(2, 2) \o Month(1, 2) \o Month(2, 1)

Any == <<Star>>
At(value) == <<[star |-> FALSE, from |-> value, to |-> value, step |-> 0]>>
Span(from, to) == <<[star |-> FALSE, from |-> from, to |-> to, step |-> 0]>>
EverySecond == <<[star |-> TRUE, from |-> 0, to |-> 0, step |-> 2]>>

MCExpressions ==
    [minute : {Any, At(1)}, hour : {Any, EverySecond, At(1)},
     day : {Any, At(2), EverySecond}, month : {Any, At(1), Span(2, 1)},
     weekday : {Any, At(0), Span(2, 3)}]

(* No change, an hour forward, an hour back.                               *)
MCZones == {[before |-> 2, after |-> 2, change |-> 0],
            [before |-> 2, after |-> 4, change |-> 11],
            [before |-> 2, after |-> 0, change |-> 15]}
=============================================================================
