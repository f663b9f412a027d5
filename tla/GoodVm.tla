------------------------------- MODULE GoodVm -------------------------------
(***************************************************************************)
(* The scheduler of hw2/src/sjf-goodness: the machine and the times of     *)
(* SjfVm with another policy.  A process in the queue is judged by its     *)
(* expected burst and by how long it has waited, calculate_goodness, and   *)
(* the least goodness gets the CPU.                                        *)
(***************************************************************************)
EXTENDS SjfVm

VARIABLE last_time      \* last_time_in_runqueue of each process

goodVars == <<sjfVars, last_time>>

GoodInit == SjfInit /\ last_time = Zero

Waited(t, last, now) == now - last[t]

(* The goodness of each queued process: its expected burst against the     *)
(* least of the queue times the longest wait against its own, in integers. *)
(* The expected burst is an unsigned int, and 1 + exp_burst is one too.    *)
Goodness(exp, last, now) ==
    LET min == CHOOSE e \in {exp[q] : q \in Queued} :
                  \A q \in Queued : e <= exp[q]
        longest == CHOOSE w \in {Waited(q, last, now) : q \in Queued} :
                      \A q \in Queued : Waited(q, last, now) <= w
    IN  [q \in Queued |->
            (((1 + exp[q]) % UintValues) \div (1 + min))
            * ((1 + longest) \div (1 + Waited(q, last, now)))]

(* Mutant of FirstGood: the wait is left out of the goodness.              *)
FirstQuick(q, exp, last, now) == FirstMin(q, exp)

(* calculate_goodness: the first process behind the head with the least.   *)
FirstGood(q, exp, last, now) == FirstMin(q, Goodness(exp, last, now))

(* schedule() among several: the process that gives up the CPU is as new   *)
(* to the queue, whether it gets the CPU again or not.                     *)
GoodPolicy(chosen, now) ==
    /\ nr_running <= 2 => UNCHANGED last_time
    /\ nr_running > 2 =>
          /\ last_time' = Set(last_time, current, now)
          /\ FirstGood(chosen, Bursts(now), last_time', now)

GoodTick(chosen) == TimedTick(chosen) /\ GoodPolicy(chosen, Clock')

GoodReschedule(chosen) == TimedReschedule(chosen) /\ GoodPolicy(chosen, Clock)

(* wake_up_new_task.                                                       *)
GoodSpawn(t) == SjfSpawn(t) /\ last_time' = Set(last_time, t, Clock)

(* activate_task.                                                          *)
GoodWake ==
    /\ WakeOne
    /\ last_time' = Set(last_time, Head(intwaitlist), Clock)
    /\ UNCHANGED <<jiffies, time_slice, times, XD, served>>

GoodEndTask(due) == SjfEndTask(due) /\ UNCHANGED last_time

GoodTickOnly == SjfTickOnly /\ UNCHANGED last_time

GoodTimeless ==
    Timeless /\ UNCHANGED <<jiffies, time_slice, times, XD, served, last_time>>

GoodNext ==
    \/ \E due \in BOOLEAN : GoodEndTask(due)
    \/ \E t \in Tasks : GoodSpawn(t)
    \/ GoodTickOnly
    \/ \E t \in Structs : GoodTick(t) \/ GoodReschedule(t)
    \/ GoodWake
    \/ GoodTimeless

GoodSpec == GoodInit /\ [][GoodNext]_goodVars

-----------------------------------------------------------------------------
(* When schedule() chooses among several processes, whoever is chosen has  *)
(* itself waited at least a (2 + e)-th of the time that any process with   *)
(* expected burst e has waited.  For the process that has the CPU, which   *)
(* has not waited at all: it keeps the CPU only if nobody in the queue has *)
(* waited for longer than its own expected burst.                          *)
WaitBounded ==
    \A chosen \in Tasks :
        nr_running > 2 /\ (TimedTick(chosen) \/ TimedReschedule(chosen)) =>
            \A t \in Queued :
                1 + Waited(t, last_time', Clock') <
                    (2 + exp_burst[t])
                    * (1 + Waited(chosen, last_time', Clock'))
=============================================================================
