------------------------------- MODULE SjfVm --------------------------------
(***************************************************************************)
(* The scheduler of hw2/src/sjf on the machine of SchedVm: the clock, the  *)
(* time slices, the policy (shortest expected burst first) and the times   *)
(* of each process that killtask writes to TimingResults1.txt.             *)
(*                                                                         *)
(* The clock advances by one jiffy with every schedule tick; times are in  *)
(* the units of sched_clock(), Jiffy of them to a jiffy.                   *)
(***************************************************************************)
EXTENDS SchedVm

CONSTANTS
    TIMESLICE,      \* jiffies a process runs before schedule() is called
    Jiffy,          \* JIFFIES_TO_NS(1)
    UintValues,     \* the number of values of an unsigned int
    MaxJiffies      \* bound: the clock stops here

ASSUME SjfAssumption ==
    /\ TIMESLICE \in Nat \ {0} /\ Jiffy \in Nat \ {0}
    /\ UintValues \in Nat \ {0, 1} /\ MaxJiffies \in Nat

VARIABLES
    jiffies,        \* the clock
    time_slice,     \* what is left of the slice of each process
    exp_burst,      \* its expected burst
    cpu_owned,      \* when schedule() last gave it the CPU
    XE,             \* the execution time credited to it
    XD,             \* when it was forked; once freed, how long it existed
    served          \* history: the ticks that found it on the CPU

times == <<exp_burst, cpu_owned, XE>>
sjfVars == <<vars, jiffies, time_slice, times, XD, served>>

Zero == [t \in Tasks |-> 0]

SjfInit ==
    /\ Init
    /\ jiffies = 0
    /\ time_slice = [t \in Tasks |-> TIMESLICE]
    /\ exp_burst = Zero /\ cpu_owned = Zero
    /\ XE = Zero /\ XD = Zero /\ served = Zero

(* sched_clock().                                                          *)
Clock == jiffies * Jiffy

(* The fields of a process only: those of init and idle are never used.    *)
Set(field, t, v) == [x \in Tasks |-> IF x = t THEN v ELSE field[x]]

-----------------------------------------------------------------------------
(* The burst of the task that gives up the CPU, an unsigned int.           *)
Burst(now) ==
    IF current \in Tasks THEN (now - cpu_owned[current]) % UintValues ELSE 0

(* calculate_expBurst: (burst + exp / 2) / 1.5, rounded down.              *)
Expected(now) ==
    IF current \in Tasks THEN (2 * Burst(now) + exp_burst[current]) \div 3
    ELSE 0

(* Mutant of FirstMin: the loop leaves out the task after the head.        *)
MinFromSecond(q, exp) ==
    \E k \in 2 .. nr_running - 1 :
        /\ q = Walk[k]
        /\ \A i \in 2 .. k - 1 : exp[q] < exp[Walk[i]]
        /\ \A i \in k .. nr_running - 1 : exp[q] <= exp[Walk[i]]

(* find_minExpBurst: the first task behind the head with the least value.  *)
FirstMin(q, exp) ==
    \E k \in 1 .. nr_running - 1 :
        /\ q = Walk[k]
        /\ \A i \in 1 .. k - 1 : exp[q] < exp[Walk[i]]
        /\ \A i \in k .. nr_running - 1 : exp[q] <= exp[Walk[i]]

(* The execution time of that task, with the burst.                        *)
Credited(now) == IF current \in Tasks THEN XE[current] + Burst(now) ELSE 0

(* The expected bursts that the tasks in the queue are compared by: that   *)
(* of the task that gives up the CPU is already the new one.               *)
Bursts(now) == Set(exp_burst, current, Expected(now))

(* Mutant of Account: cpu_owned is not set when there is one process.      *)
AccountFromTwo(chosen, now) ==
    \/ /\ nr_running <= 2 \/ chosen = current
       /\ UNCHANGED times
    \/ /\ nr_running > 2 /\ chosen # current
       /\ exp_burst' = Bursts(now)
       /\ XE' = Set(XE, current, Credited(now))
       /\ cpu_owned' = Set(cpu_owned, chosen, now)

(* What schedule() writes into the task_structs.  A process that keeps the *)
(* CPU keeps its old expected burst and goes on with its burst; one that   *)
(* loses it to another is credited with it.                                *)
Account(chosen, now) ==
    \/ /\ nr_running = 1
       /\ UNCHANGED times
    \/ /\ nr_running = 2
       /\ cpu_owned' = Set(cpu_owned, chosen, now)
       /\ UNCHANGED <<exp_burst, XE>>
    \/ /\ nr_running > 2 /\ chosen = current
       /\ UNCHANGED times
    \/ /\ nr_running > 2 /\ chosen # current
       /\ exp_burst' = Bursts(now)
       /\ XE' = Set(XE, current, Credited(now))
       /\ cpu_owned' = Set(cpu_owned, chosen, now)

-----------------------------------------------------------------------------
(* The actions of SchedVm with their times.                                *)

(* sched_fork.                                                             *)
SjfSpawn(t) ==
    /\ Spawn(t)
    /\ time_slice' = Set(time_slice, t, TIMESLICE)
    /\ exp_burst' = Set(exp_burst, t, 0)
    /\ cpu_owned' = Set(cpu_owned, t, 0)
    /\ XE' = Set(XE, t, 0)
    /\ XD' = Set(XD, t, Clock)
    /\ UNCHANGED <<jiffies, served>>

(* killtask writes XE, XD and their difference to the results.             *)
SjfEndTask(due) ==
    /\ EndTask(due)
    /\ XD' = [t \in Tasks |-> IF t = current THEN Clock - XD[t] ELSE XD[t]]
    /\ UNCHANGED <<jiffies, time_slice, times, served>>

(* The clock advances before scheduler_tick is called.                     *)
Advance ==
    /\ jiffies < MaxJiffies
    /\ jiffies' = jiffies + 1
    /\ served' = [t \in Tasks |-> served[t] + (IF t = current THEN 1 ELSE 0)]
    /\ UNCHANGED XD

OnSlice == current \in Tasks /\ next[current] # Null

(* Mutant of SjfTickOnly: the slice is not compared with 0.                *)
SliceNeverEnds ==
    /\ TickOnly
    /\ Advance
    /\ time_slice' = IF OnSlice
                     THEN [time_slice EXCEPT ![current] = @ - 1]
                     ELSE time_slice
    /\ UNCHANGED times

SjfTickOnly ==
    /\ TickOnly
    /\ Advance
    /\ OnSlice => time_slice[current] > 1
    /\ time_slice' = IF OnSlice
                     THEN [time_slice EXCEPT ![current] = @ - 1]
                     ELSE time_slice
    /\ UNCHANGED times

(* With any choice of the policy.                                          *)
TimedTick(chosen) ==
    /\ TickSchedule(chosen)
    /\ Advance
    /\ OnSlice => time_slice[current] = 1
    /\ time_slice' = Set(time_slice, current, TIMESLICE)
    /\ Account(chosen, Clock')

TimedReschedule(chosen) ==
    /\ Reschedule(chosen)
    /\ Account(chosen, Clock)
    /\ time_slice' = IF nr_running > 2 /\ chosen # current
                     THEN Set(time_slice, current, TIMESLICE)
                     ELSE time_slice
    /\ UNCHANGED <<jiffies, XD, served>>

(* The policy of sjf.                                                      *)
Policy(chosen, now) == nr_running > 2 => FirstMin(chosen, Bursts(now))

SjfTickSchedule(chosen) == TimedTick(chosen) /\ Policy(chosen, Clock')

SjfReschedule(chosen) == TimedReschedule(chosen) /\ Policy(chosen, Clock)

(* The steps that have no time of their own.                               *)
Timeless ==
    \/ \E due \in BOOLEAN : Work(due) \/ Sleep(due)
    \/ EndSpawn
    \/ NoTick
    \/ NoIo
    \/ IoFire
    \/ WakeEnd
    \/ Crash
    \/ KillInit
    \/ NextRound

SjfNext ==
    \/ \E due \in BOOLEAN : SjfEndTask(due)
    \/ \E t \in Tasks : SjfSpawn(t)
    \/ SjfTickOnly
    \/ \E t \in Structs : SjfTickSchedule(t)
    \/ \E t \in Structs : SjfReschedule(t)
    \/ (Timeless \/ WakeOne) /\ UNCHANGED <<jiffies, time_slice, times,
                                            XD, served>>

SjfSpec == SjfInit /\ [][SjfNext]_sjfVars

-----------------------------------------------------------------------------
(* The variables keep their types; the slice of a process is never 0, so   *)
(* the unsigned time_slice-- of scheduler_tick does not wrap.              *)
SjfTypeOK ==
    /\ TypeOK
    /\ jiffies \in 0 .. MaxJiffies
    /\ time_slice \in [Tasks -> 1 .. TIMESLICE]
    /\ exp_burst \in [Tasks -> 0 .. UintValues - 1]
    /\ cpu_owned \in [Tasks -> 0 .. Clock]
    /\ XE \in [Tasks -> Nat] /\ XD \in [Tasks -> Nat]
    /\ served \in [Tasks -> Nat]

(* A process is never credited with time it did not run, and existed at    *)
(* least as long as it ran: the waiting time in the results, the unsigned  *)
(* XD - XE, neither wraps nor hides any waiting.                           *)
CreditBounded ==
    /\ \A t \in Tasks : XE[t] <= served[t] * Jiffy
    /\ \A t \in freed : served[t] * Jiffy <= XD[t]

(* The execution time in the results is the time the process ran           *)
(* (README:22-26 of hw2).                                                  *)
CreditExact == \A t \in freed : XE[t] = served[t] * Jiffy

(* Whenever the CPU goes to another process while several are runnable, it *)
(* goes to one with the shortest expected burst of them all, the updated   *)
(* one of the process that loses it included.                              *)
ShortestChosen ==
    nr_running > 2 /\ current' # current /\ current' \in Tasks =>
        \A t \in Queued : exp_burst'[current'] <= exp_burst'[t]
=============================================================================
