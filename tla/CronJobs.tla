------------------------------ MODULE CronJobs ------------------------------
(***************************************************************************)
(* The two background jobs of the API process: ScanSchedulerService and    *)
(* TradersCleanupService, which have one structure.  A scheduler thread    *)
(* sleeps until the next cron time, takes the job lock without blocking    *)
(* and hands the run to a worker thread, which releases the lock; the      *)
(* lifespan of the API (main.py) calls start and stop of both.             *)
(*                                                                         *)
(* Abstractions.  Cron times and the clock are left out: a sleeping thread *)
(* may be woken by its timeout at any moment.  What a run does is left     *)
(* out, except that the runs of Hanging jobs may never end (an RPC or a    *)
(* database call without an answer).                                       *)
(***************************************************************************)
EXTENDS Naturals

CONSTANTS
    Jobs,               \* the services, one object each
    Hanging,            \* jobs a run of which may hang for ever
    MaxCalls,           \* bound: calls of start and stop
    MaxFaults           \* bound: scheduler threads that die, joins that give up

ASSUME JobsAssumption == Hanging \subseteq Jobs
ASSUME BoundsAssumption == MaxCalls \in Nat /\ MaxFaults \in Nat

VARIABLES
    stopEvent,      \* _stop_event of each service
    thread,         \* where _scheduler_thread is, "none" before it exists
    lock,           \* _job_lock
    running,        \* workers inside a run
    finishing,      \* workers that still have to release the lock
    caller,         \* the service whose stop() the main thread is in
    on,             \* whether the last call was start
    calls, faults

vars == <<stopEvent, thread, lock, running, finishing, caller, on, calls, faults>>

None == "no service"
ASSUME NoneAssumption == None \notin Jobs

Alive(j) == thread[j] \notin {"none", "dead"}

Init ==
    /\ stopEvent = [j \in Jobs |-> FALSE]
    /\ thread = [j \in Jobs |-> "none"]
    /\ lock = [j \in Jobs |-> FALSE]
    /\ running = [j \in Jobs |-> 0]
    /\ finishing = [j \in Jobs |-> 0]
    /\ caller = None
    /\ on = [j \in Jobs |-> FALSE]
    /\ calls = 0
    /\ faults = 0
-----------------------------------------------------------------------------
(* The main thread: the start and stop of the services, one at a time.     *)
Call == caller = None /\ calls < MaxCalls /\ calls' = calls + 1

(* A start that forgets to clear the event of the last stop.               *)
StartWithoutClear(j) ==
    /\ Call
    /\ on' = [on EXCEPT ![j] = TRUE]
    /\ thread' = IF Alive(j) THEN thread ELSE [thread EXCEPT ![j] = "check"]
    /\ UNCHANGED <<stopEvent, lock, running, finishing, caller, faults>>

(* Returns at once if the thread is alive, without clearing the event.     *)
Start(j) ==
    /\ Call
    /\ on' = [on EXCEPT ![j] = TRUE]
    /\ IF Alive(j) THEN UNCHANGED <<stopEvent, thread>>
       ELSE /\ stopEvent' = [stopEvent EXCEPT ![j] = FALSE]
            /\ thread' = [thread EXCEPT ![j] = "check"]
    /\ UNCHANGED <<lock, running, finishing, caller, faults>>

Stop(j) ==
    /\ Call
    /\ on' = [on EXCEPT ![j] = FALSE]
    /\ stopEvent' = [stopEvent EXCEPT ![j] = TRUE]
    /\ caller' = IF thread[j] = "none" THEN None ELSE j
    /\ UNCHANGED <<thread, lock, running, finishing, faults>>

(* A stop that waits for nothing, or for the worker as well.               *)
NothingJoined(j) == TRUE
WorkerJoinedToo(j) == ~Alive(j) /\ running[j] + finishing[j] = 0

(* Only the scheduler thread is joined, never the worker.                  *)
Joined(j) == ~Alive(j)

Join(j) ==
    /\ caller = j /\ Joined(j)
    /\ caller' = None
    /\ UNCHANGED <<stopEvent, thread, lock, running, finishing, on, calls, faults>>

(* The join gives up after five seconds, and stop returns all the same.    *)
JoinTimesOut(j) ==
    /\ caller = j
    /\ faults < MaxFaults /\ faults' = faults + 1
    /\ caller' = None
    /\ UNCHANGED <<stopEvent, thread, lock, running, finishing, on, calls>>
-----------------------------------------------------------------------------
(* The scheduler thread (_run_loop).                                       *)
Goto(j, from, to) == thread[j] = from /\ thread' = [thread EXCEPT ![j] = to]

CheckStop(j) ==
    /\ Goto(j, "check", IF stopEvent[j] THEN "dead" ELSE "wait")
    /\ UNCHANGED <<stopEvent, lock, running, finishing, caller, on, calls, faults>>

(* _stop_event.wait returns whether the event is set.                      *)
WakeUp(j) ==
    /\ Goto(j, "wait", IF stopEvent[j] THEN "dead" ELSE "acquire")
    /\ UNCHANGED <<stopEvent, lock, running, finishing, caller, on, calls, faults>>

(* The lock taken without looking whether it is held.                      *)
AcquireBlindly(j) ==
    /\ Goto(j, "acquire", "spawn")
    /\ lock' = [lock EXCEPT ![j] = TRUE]
    /\ UNCHANGED <<stopEvent, running, finishing, caller, on, calls, faults>>

Acquire(j) ==
    /\ ~lock[j]
    /\ Goto(j, "acquire", "spawn")
    /\ lock' = [lock EXCEPT ![j] = TRUE]
    /\ UNCHANGED <<stopEvent, running, finishing, caller, on, calls, faults>>

(* "skipped because the previous run is still in progress"                 *)
Skip(j) ==
    /\ lock[j]
    /\ Goto(j, "acquire", "check")
    /\ UNCHANGED <<stopEvent, lock, running, finishing, caller, on, calls, faults>>

Spawn(j) ==
    /\ Goto(j, "spawn", "check")
    /\ running' = [running EXCEPT ![j] = @ + 1]
    /\ UNCHANGED <<stopEvent, lock, finishing, caller, on, calls, faults>>

(* next_after finds no time within 366 days, or the worker thread cannot   *)
(* be started: the exception ends the scheduler thread and nothing else.   *)
Die(j) ==
    /\ faults < MaxFaults /\ faults' = faults + 1
    /\ thread[j] \in {"check", "spawn"}
    /\ thread' = [thread EXCEPT ![j] = "dead"]
    /\ UNCHANGED <<stopEvent, lock, running, finishing, caller, on, calls>>
-----------------------------------------------------------------------------
(* A worker that ends without having begun.                                *)
EndOfNoRun(j) ==
    /\ running' = [running EXCEPT ![j] = @ - 1]
    /\ finishing' = [finishing EXCEPT ![j] = @ + 1]
    /\ UNCHANGED <<stopEvent, thread, lock, caller, on, calls, faults>>

(* The worker thread: the run ends, or raises, and the lock is released.   *)
EndRun(j) ==
    /\ running[j] > 0
    /\ running' = [running EXCEPT ![j] = @ - 1]
    /\ finishing' = [finishing EXCEPT ![j] = @ + 1]
    /\ UNCHANGED <<stopEvent, thread, lock, caller, on, calls, faults>>

Release(j) ==
    /\ finishing[j] > 0
    /\ finishing' = [finishing EXCEPT ![j] = @ - 1]
    /\ lock' = [lock EXCEPT ![j] = FALSE]
    /\ UNCHANGED <<stopEvent, thread, running, caller, on, calls, faults>>

Scheduler(j) == CheckStop(j) \/ WakeUp(j) \/ Acquire(j) \/ Skip(j) \/ Spawn(j)

Next ==
    \E j \in Jobs :
        \/ Start(j) \/ Stop(j) \/ Join(j) \/ JoinTimesOut(j)
        \/ Scheduler(j) \/ Die(j)
        \/ EndRun(j) \/ Release(j)

(* Threads that can run do, and the cron times come; a run ends unless it  *)
(* may hang.  Nothing makes anybody call start or stop.                    *)
Fairness ==
    \A j \in Jobs :
        /\ WF_vars(Scheduler(j)) /\ WF_vars(Release(j)) /\ WF_vars(Join(j))
        /\ j \notin Hanging => WF_vars(EndRun(j))

Spec == Init /\ [][Next]_vars /\ Fairness
-----------------------------------------------------------------------------
(* The shape of the state.                                                 *)
TypeOK ==
    /\ stopEvent \in [Jobs -> BOOLEAN]
    /\ thread \in [Jobs -> {"none", "check", "wait", "acquire", "spawn", "dead"}]
    /\ lock \in [Jobs -> BOOLEAN]
    /\ running \in [Jobs -> Nat] /\ finishing \in [Jobs -> Nat]
    /\ caller \in Jobs \cup {None}
    /\ on \in [Jobs -> BOOLEAN]
    /\ calls \in Nat /\ faults \in Nat

(* Runs of one job never overlap, whatever the order of the calls of start *)
(* and stop, also when a run outlives the stop and the next start, and     *)
(* when a scheduler thread dies.                                           *)
AtMostOneRun == \A j \in Jobs : running[j] + finishing[j] <= 1

(* What makes it inductive: a worker, or a thread about to start one, owns *)
(* the lock.                                                               *)
LockInvariant ==
    \A j \in Jobs :
        /\ running[j] + finishing[j] > 0 => lock[j]
        /\ thread[j] = "spawn" => lock[j] /\ running[j] + finishing[j] = 0

(* After stop has returned no run begins until the next start, although    *)
(* the scheduler thread may have been woken just before the event was set. *)
(* Not so after a join that gave up.                                       *)
NothingBeginsAfterStop ==
    [][\A j \in Jobs :
          caller # j /\ ~on[j] /\ faults = 0 => running'[j] <= running[j]]_vars

(* A stop returns, even while a run of the job hangs.                      *)
StopReturns == caller # None ~> caller = None

(* A service that is on and whose runs end runs again and again, even if a *)
(* run of the other hangs for ever (main.py: the two are independent),     *)
(* unless a scheduler thread died or outlived its stop.                    *)
RunsAgain ==
    [](faults = 0) =>
        \A j \in Jobs \ Hanging : <>[]on[j] => []<>(running[j] > 0)
=============================================================================
