------------------------------ MODULE SchedVm -------------------------------
(***************************************************************************)
(* The virtual machine of hw2 (cpu.c) and the run queue of its schedulers  *)
(* (schedule.c, the same in sjf and in sjf-goodness): a loop of cycle(),   *)
(* interrupt() and schedule() over a ring of task_structs whose head is    *)
(* the init task.                                                          *)
(*                                                                         *)
(* Time is abstracted: a countdown may reach its end in any round of the   *)
(* loop.  So is the policy: with more than one task beside init, schedule  *)
(* may pick any of them.  SjfVm adds the clock and the policy of sjf.      *)
(* Each loop inside a function (spawnChildren, the walk over intwaitlist)  *)
(* takes one step per task.                                                *)
(***************************************************************************)
EXTENDS Naturals, Sequences, FiniteSets

CONSTANTS
    Tasks,          \* the processes of the profile
    InitTask,       \* init, the head of the ring
    Idle,           \* idle: current when the last process has just ended
    Null,           \* NULL in next and prev
    Parent,         \* the process each one is spawned by
    Interactive     \* the processes of type INTERACTIVE

ASSUME SchedAssumption ==
    /\ IsFiniteSet(Tasks)
    /\ InitTask \notin Tasks /\ Idle \notin Tasks \cup {InitTask}
    /\ Null \notin Tasks \cup {InitTask, Idle}
    /\ Parent \in [Tasks -> Tasks \cup {InitTask}]
    /\ Interactive \subseteq Tasks

VARIABLES
    pc,                 \* where runcpu is
    current,            \* the task that has the CPU
    next, prev,         \* the links of each task_struct
    nr_running,         \* the length rq believes the ring has
    need_reschedule,    \* the flag of each task
    intwaitlist,        \* the tasks that wait for IO, oldest first
    intTimer,           \* whether the IO timer is counting
    unborn,             \* the processes still in the list of their parent
    freed,              \* the processes that ended
    children,           \* the running children each task believes it has
    kill                \* the kill flag of each task

ring == <<next, prev, nr_running>>
family == <<unborn, freed, children>>
vars == <<pc, current, next, prev, nr_running, need_reschedule, intwaitlist,
          intTimer, unborn, freed, children, kill>>

Structs == Tasks \cup {InitTask, Idle}

(* __init_sched, then the first schedule() of main().                      *)
Init ==
    /\ pc = "cycle"
    /\ current = InitTask
    /\ next = [t \in Structs |-> IF t = InitTask THEN InitTask ELSE Null]
    /\ prev = next
    /\ nr_running = 1
    /\ need_reschedule = [t \in Structs |-> FALSE]
    /\ intwaitlist = << >>
    /\ intTimer = FALSE
    /\ unborn = Tasks
    /\ freed = {}
    /\ children = [t \in Structs |-> 0]
    /\ kill = [t \in Structs |-> FALSE]

-----------------------------------------------------------------------------
(* The ring: schedule.c.                                                   *)

(* The tasks linked into the ring behind its head.                         *)
Queued == {t \in Tasks : next[t] # Null}

(* activate_task and wake_up_new_task: p goes right behind the head.       *)
Enqueue(p) ==
    /\ next' = [next EXCEPT ![p] = next[InitTask], ![InitTask] = p]
    /\ prev' = [prev EXCEPT ![p] = InitTask, ![next[InitTask]] = p]
    /\ nr_running' = nr_running + 1

(* Mutant of Dequeue: the links of p are not reset.                        *)
DequeueOnly(p) ==
    /\ next' = [next EXCEPT ![prev[p]] = next[p]]
    /\ prev' = [prev EXCEPT ![next[p]] = prev[p]]
    /\ nr_running' = nr_running - 1

(* deactivate_task.                                                        *)
Dequeue(p) ==
    /\ next' = [next EXCEPT ![prev[p]] = next[p], ![p] = Null]
    /\ prev' = [prev EXCEPT ![next[p]] = prev[p], ![p] = Null]
    /\ nr_running' = nr_running - 1

(* schedule() switches to chosen: init when it is alone, the only other    *)
(* task when there is one, and one of the others as the policy says.       *)
Schedule(chosen) ==
    /\ \/ nr_running = 1 /\ chosen = InitTask
       \/ nr_running = 2 /\ chosen = next[InitTask]
       \/ nr_running > 2 /\ chosen \in Queued
    /\ need_reschedule' = [need_reschedule EXCEPT ![current] = FALSE]
    /\ current' = chosen

-----------------------------------------------------------------------------
(* cycle(): due stands for "the kill time of the task has passed or its    *)
(* work is done", the conditions of taskEnd that depend on time.           *)
Ending(due) ==
    \/ kill[current]
    \/ current \in Tasks /\ kill[Parent[current]]
    \/ due /\ current # InitTask

(* Mutant of EndTask: the wrong task has a child less.                     *)
EndChargesSelf(due) ==
    /\ pc = "cycle"
    /\ Ending(due)
    /\ children[current] = 0
    /\ kill' = [kill EXCEPT ![current] = TRUE]
    /\ Dequeue(current)
    /\ freed' = freed \cup ({current} \ {InitTask})
    /\ children' = [children EXCEPT ![current] = @ - 1]
    /\ current' = Idle
    /\ need_reschedule' = [need_reschedule EXCEPT ![Idle] = nr_running' # 0]
    /\ pc' = "tick"
    /\ UNCHANGED <<intwaitlist, intTimer, unborn>>

(* Mutant of EndTask: the parent is not told.                              *)
EndSilently(due) ==
    /\ pc = "cycle"
    /\ Ending(due)
    /\ children[current] = 0
    /\ kill' = [kill EXCEPT ![current] = TRUE]
    /\ Dequeue(current)
    /\ freed' = freed \cup ({current} \ {InitTask})
    /\ current' = Idle
    /\ need_reschedule' = [need_reschedule EXCEPT ![Idle] = nr_running' # 0]
    /\ pc' = "tick"
    /\ UNCHANGED <<intwaitlist, intTimer, unborn, children>>

(* taskEnd ends the current task and killtask frees it; init is kept.      *)
EndTask(due) ==
    /\ pc = "cycle"
    /\ Ending(due)
    /\ children[current] = 0
    /\ kill' = [kill EXCEPT ![current] = TRUE]
    /\ Dequeue(current)
    /\ freed' = freed \cup ({current} \ {InitTask})
    /\ children' = IF current \in Tasks
                   THEN [children EXCEPT ![Parent[current]] = @ - 1]
                   ELSE children
    /\ current' = Idle
    /\ need_reschedule' = [need_reschedule EXCEPT ![Idle] = nr_running' # 0]
    /\ pc' = "tick"
    /\ UNCHANGED <<intwaitlist, intTimer, unborn>>

(* Mutant of Keep: the IO timer is not started again.                      *)
KeepTimer(due) ==
    /\ pc = "cycle"
    /\ Ending(due) => children[current] # 0
    /\ kill' = [kill EXCEPT ![current] = @ \/ Ending(due)]
    /\ pc' = "spawn"
    /\ UNCHANGED <<current, unborn, freed, children, intTimer>>

(* cycle() goes on: the task is not ending, or it has children and is only *)
(* marked.  The IO timer is started if it is not counting.                 *)
Keep(due) ==
    /\ pc = "cycle"
    /\ Ending(due) => children[current] # 0
    /\ kill' = [kill EXCEPT ![current] = @ \/ Ending(due)]
    /\ intTimer' = TRUE
    /\ pc' = "spawn"
    /\ UNCHANGED <<current, unborn, freed, children>>

Work(due) ==
    /\ Keep(due)
    /\ UNCHANGED <<next, prev, nr_running, need_reschedule, intwaitlist>>

(* Mutant of Sleep: no request to be rescheduled.                          *)
SleepOnCpu(due) ==
    /\ Keep(due)
    /\ current \in Interactive
    /\ intwaitlist' = Append(intwaitlist, current)
    /\ Dequeue(current)
    /\ UNCHANGED need_reschedule

(* intWaitTimer has expired: the interactive task goes to sleep.           *)
Sleep(due) ==
    /\ Keep(due)
    /\ current \in Interactive
    /\ intwaitlist' = Append(intwaitlist, current)
    /\ Dequeue(current)
    /\ need_reschedule' = [need_reschedule EXCEPT ![current] = TRUE]

(* Mutant of Spawn: no request to be rescheduled.                          *)
SpawnQuietly(t) ==
    /\ pc = "spawn"
    /\ t \in unborn
    /\ Parent[t] \in {current, InitTask}
    /\ unborn' = unborn \ {t}
    /\ children' = [children EXCEPT ![Parent[t]] = @ + 1]
    /\ Enqueue(t)
    /\ UNCHANGED <<pc, current, intwaitlist, intTimer, freed, kill,
                   need_reschedule>>

(* spawnChildren for the current task and for init, and forktask: children *)
(* that are due at the same time are forked in any order.                  *)
Spawn(t) ==
    /\ pc = "spawn"
    /\ t \in unborn
    /\ Parent[t] \in {current, InitTask}
    /\ unborn' = unborn \ {t}
    /\ children' = [children EXCEPT ![Parent[t]] = @ + 1]
    /\ Enqueue(t)
    /\ need_reschedule' = [need_reschedule EXCEPT ![current] = TRUE]
    /\ UNCHANGED <<pc, current, intwaitlist, intTimer, freed, kill>>

EndSpawn ==
    /\ pc = "spawn"
    /\ pc' = "tick"
    /\ UNCHANGED <<current, ring, need_reschedule, intwaitlist, intTimer,
                   family, kill>>

-----------------------------------------------------------------------------
(* interrupt(): the schedule tick, then the IO timer.                      *)

NoTick ==
    /\ pc = "tick"
    /\ pc' = "io"
    /\ UNCHANGED <<current, ring, need_reschedule, intwaitlist, intTimer,
                   family, kill>>

(* A tick that scheduler_tick does not answer with schedule(): current has *)
(* left the ring, or is init alone, or its time slice has not expired.     *)
TickOnly ==
    /\ pc = "tick"
    /\ next[current] # Null /\ current = InitTask => nr_running <= 1
    /\ pc' = "io"
    /\ UNCHANGED <<current, ring, need_reschedule, intwaitlist, intTimer,
                   family, kill>>

(* A tick that calls schedule(): init has the CPU and is not alone, or the *)
(* time slice of current has expired.                                      *)
TickSchedule(chosen) ==
    /\ pc = "tick"
    /\ next[current] # Null
    /\ current = InitTask => nr_running > 1
    /\ Schedule(chosen)
    /\ pc' = "io"
    /\ UNCHANGED <<ring, intwaitlist, intTimer, family, kill>>

NoIo ==
    /\ pc = "io"
    /\ pc' = IF need_reschedule[current] THEN "resched" ELSE "end"
    /\ UNCHANGED <<current, ring, need_reschedule, intwaitlist, intTimer,
                   family, kill>>

(* The IO timer fires.                                                     *)
IoFire ==
    /\ pc = "io"
    /\ intTimer
    /\ intTimer' = FALSE
    /\ pc' = "wake"
    /\ UNCHANGED <<current, ring, need_reschedule, intwaitlist, family, kill>>

(* Mutant of WakeOne: the entry stays in the list of the next interrupt.   *)
WakeTwice ==
    /\ pc = "wake"
    /\ intwaitlist # << >>
    /\ Enqueue(Head(intwaitlist))
    /\ UNCHANGED <<pc, current, need_reschedule, intTimer, family, kill,
                   intwaitlist>>

WakeOne ==
    /\ pc = "wake"
    /\ intwaitlist # << >>
    /\ Enqueue(Head(intwaitlist))
    /\ intwaitlist' = Tail(intwaitlist)
    /\ UNCHANGED <<pc, current, need_reschedule, intTimer, family, kill>>

WakeEnd ==
    /\ pc = "wake"
    /\ intwaitlist = << >>
    /\ need_reschedule' = [need_reschedule EXCEPT ![current] = TRUE]
    /\ pc' = "resched"
    /\ UNCHANGED <<current, ring, intwaitlist, intTimer, family, kill>>

(* runcpu calls schedule().                                                *)
Reschedule(chosen) ==
    /\ pc = "resched"
    /\ next[InitTask] # Null
    /\ Schedule(chosen)
    /\ pc' = "end"
    /\ UNCHANGED <<ring, intwaitlist, intTimer, family, kill>>

(* schedule() calls print_rq, which follows the link of the head until it  *)
(* is back at the head: with the head out of the ring it follows NULL.     *)
Crash ==
    /\ pc = "resched"
    /\ next[InitTask] = Null
    /\ pc' = "segv"
    /\ UNCHANGED <<current, ring, need_reschedule, intwaitlist, intTimer,
                   family, kill>>

(* END_CYCLE: at endtime init gets the kill message; the loop runs while   *)
(* the run queue is not empty.                                             *)
LoopEnd ==
    /\ pc = "end"
    /\ pc' = IF nr_running = 0 THEN "done" ELSE "cycle"
    /\ UNCHANGED <<current, ring, need_reschedule, intwaitlist, intTimer,
                   family>>

KillInit ==
    /\ LoopEnd
    /\ ~ kill[InitTask]
    /\ kill' = [kill EXCEPT ![InitTask] = TRUE]

NextRound == LoopEnd /\ UNCHANGED kill

-----------------------------------------------------------------------------
Tick == TickOnly \/ \E t \in Structs : TickSchedule(t)

Next ==
    \/ \E due \in BOOLEAN : EndTask(due) \/ Work(due) \/ Sleep(due)
    \/ \E t \in Tasks : Spawn(t)
    \/ EndSpawn
    \/ NoTick
    \/ Tick
    \/ NoIo
    \/ IoFire
    \/ WakeOne
    \/ WakeEnd
    \/ \E t \in Structs : Reschedule(t)
    \/ Crash
    \/ KillInit
    \/ NextRound

Spec == Init /\ [][Next]_vars

(* The loop never waits, and the three countdowns that every round of the  *)
(* loop decrements, whoever is current, come to their ends: the schedule   *)
(* tick, the IO timer and the time of the kill message.                    *)
FairSpec ==
    /\ Spec
    /\ WF_vars(Next)
    /\ SF_vars(Tick)
    /\ SF_vars(IoFire)
    /\ SF_vars(KillInit)

-----------------------------------------------------------------------------
Asleep == {intwaitlist[i] : i \in DOMAIN intwaitlist}

(* The processes that exist and do not wait for IO.                        *)
Runnable == Tasks \ (unborn \cup freed \cup Asleep)

(* The k-th task met when the links are followed from the head.            *)
Walk[k \in Nat] ==
    IF k = 0 THEN InitTask
    ELSE IF Walk[k - 1] = Null THEN Null ELSE next[Walk[k - 1]]

(* The variables keep their types.                                         *)
TypeOK ==
    /\ pc \in {"cycle", "spawn", "tick", "io", "wake", "resched", "end",
               "done", "segv"}
    /\ current \in Structs
    /\ next \in [Structs -> Structs \cup {Null}]
    /\ prev \in [Structs -> Structs \cup {Null}]
    /\ nr_running \in Nat
    /\ need_reschedule \in [Structs -> BOOLEAN]
    /\ intwaitlist \in Seq(Tasks)
    /\ intTimer \in BOOLEAN
    /\ unborn \subseteq Tasks /\ freed \subseteq Tasks
    /\ children \in [Structs -> Nat]
    /\ kill \in [Structs -> BOOLEAN]

(* The links are those of a ring: next and prev are inverse to each other  *)
(* on the tasks that are linked, and the others have no links at all, so   *)
(* no insertion or removal of schedule.c dereferences NULL or a freed      *)
(* task.  While init lives the ring holds it and all runnable tasks, and   *)
(* nobody else.                                                            *)
LinksOK ==
    /\ \A t \in Structs : next[t] = Null <=> prev[t] = Null
    /\ \A t \in Structs : next[t] # Null =>
          /\ next[t] # Idle /\ prev[t] # Idle
          /\ prev[next[t]] = t /\ next[prev[t]] = t
    /\ Queued = Runnable
    /\ next[Idle] = Null
    /\ next[InitTask] = Null =>
          nr_running = 0 /\ Tasks \subseteq unborn \cup freed

(* The loops over the ring (print_rq, find_minExpBurst) meet every         *)
(* runnable task once and come back to the head, and nr_running is the     *)
(* number of tasks they meet.                                              *)
OneRing ==
    /\ next[InitTask] # Null =>
          /\ Walk[nr_running] = InitTask
          /\ {Walk[k] : k \in 1 .. nr_running - 1} = Runnable
    /\ nr_running = Cardinality(Runnable)
                    + (IF next[InitTask] = Null THEN 0 ELSE 1)

(* A process is in one place only: in the list of its parent, in the run   *)
(* queue, in the wait list once, or gone.  A freed task_struct is neither  *)
(* in a list nor current.                                                  *)
OnePlace ==
    /\ unborn \cap freed = {}
    /\ Asleep \cap (unborn \cup freed) = {}
    /\ \A i, j \in DOMAIN intwaitlist :
          intwaitlist[i] = intwaitlist[j] => i = j
    /\ current \notin unborn \cup freed

(* children counts the children that were spawned and have not ended, so   *)
(* a task that ends leaves no child behind that would read its freed       *)
(* thread_info, and init ends last.                                        *)
ChildrenCounted ==
    /\ \A p \in Tasks \cup {InitTask} :
          children[p] = Cardinality({t \in Tasks \ (unborn \cup freed) :
                                        Parent[t] = p})
    /\ \A t \in Tasks \ (unborn \cup freed) :
          Parent[t] # InitTask => Parent[t] \notin unborn \cup freed

(* At the start of a round a linked task has the CPU, no request to be     *)
(* rescheduled is left over, and init has the CPU only if nobody else      *)
(* could use it.                                                           *)
CpuWellUsed ==
    pc = "cycle" =>
        /\ next[current] # Null
        /\ \A t \in Structs : ~ need_reschedule[t]
        /\ current = InitTask <=> Queued = {}

(* The program ends without following NULL (README:148-153 of hw2 says     *)
(* its segmentation fault at the end is gone).                             *)
NoCrash == pc # "segv"

(* Whoever sleeps on IO is woken up.                                       *)
SleepersWake ==
    \A t \in Tasks : t \in Asleep ~> t \notin Asleep

(* After the kill message the machine stops, whatever generations are      *)
(* alive, provided that the policy starves nobody: a task that stays in    *)
(* the ring gets a round of cycle() again and again.                       *)
Unstarved(t) == t \in Queued => pc = "cycle" /\ current = t

ShutsDown ==
    (\A t \in Tasks : []<>Unstarved(t))
        => (kill[InitTask] ~> pc \in {"done", "segv"})
=============================================================================
