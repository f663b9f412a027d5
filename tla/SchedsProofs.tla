---------------------------- MODULE SchedsProofs ----------------------------
(***************************************************************************)
(* Theorems about the two schedulers of hw2: they run on the machine of    *)
(* SchedVm, so all that is proved of it holds of them; their accounts are  *)
(* sound; and each keeps the promise of its policy.                        *)
(***************************************************************************)
EXTENDS MCScheds, SchedVmProofs

-----------------------------------------------------------------------------
(* Both programs refine the machine.                                       *)

(* A step of sjf is one of the machine, with a policy and a clock.         *)
LEMMA SjfStep == SjfNext => Next
  BY DEF SjfNext, SjfEndTask, SjfSpawn, SjfTickOnly, SjfTickSchedule,
         TimedTick, SjfReschedule, TimedReschedule, Timeless, Next, Tick

(* So is a step of sjf-goodness, which also keeps last_time_in_runqueue.   *)
LEMMA GoodStep == GoodNext => Next
  BY DEF GoodNext, GoodEndTask, SjfEndTask, GoodSpawn, SjfSpawn, GoodTickOnly,
         SjfTickOnly, GoodTick, TimedTick, GoodReschedule, TimedReschedule,
         GoodWake, GoodTimeless, Timeless, Next, Tick

(* Every behaviour of either scheduler is one of the machine under some    *)
(* policy: the clock and the policy only restrict it.                      *)
THEOREM SchedulersRefine == SchedsSpec => Spec
<1>1. SchedsInit => Init
  BY DEF SchedsInit, GoodInit, SjfInit
<1>2. [SchedsNext]_schedVars => [Next]_vars
  <2>1. SchedsNext => Next
    BY SjfStep, GoodStep DEF SchedsNext
  <2>2. UNCHANGED schedVars => UNCHANGED vars
    BY DEF schedVars, goodVars, sjfVars
  <2> QED
    BY <2>1, <2>2
<1> QED
  BY <1>1, <1>2, PTL DEF SchedsSpec, Spec

-----------------------------------------------------------------------------
(* The inductive invariant.                                                *)

(* 1 + exp_burst, an unsigned int, does not wrap: an expected burst is     *)
(* always two below the number of values of the type.                      *)
NoWrap == \A t \in Tasks : exp_burst[t] + 1 < UintValues

(* A process that has not ended has existed for as long as it ran at       *)
(* least, and one that was not forked has not run.                         *)
Existed ==
    /\ \A t \in Tasks \ freed : XD[t] + served[t] * Jiffy <= Clock
    /\ \A t \in unborn : served[t] = 0

(* Nor will the burst of the process on the CPU credit it with too much.   *)
BurstBounded ==
    current \in Tasks =>
        XE[current] + (Clock - cpu_owned[current]) <= served[current] * Jiffy

(* No process joins the queue in the future.                               *)
LastOK == last_time \in [Tasks -> 0 .. Clock]

SInv ==
    /\ IInv
    /\ SjfTypeOK
    /\ CreditBounded
    /\ NoWrap
    /\ Existed
    /\ BurstBounded
    /\ LastOK

-----------------------------------------------------------------------------
(* Arithmetic of the accounts.                                             *)

(* The clock and the time a process ran are numbers.                       *)
LEMMA ClockType ==
    ASSUME SjfTypeOK
    PROVE  /\ jiffies \in Nat /\ Clock \in Nat /\ Jiffy \in Nat \ {0}
           /\ \A t \in Tasks : served[t] \in Nat /\ served[t] * Jiffy \in Nat
  BY SjfAssumption DEF SjfTypeOK, Clock

(* With a tick the clock and the process on the CPU advance together.      *)
LEMMA AdvanceFacts ==
    ASSUME SjfTypeOK, Advance
    PROVE  /\ jiffies' \in 0 .. MaxJiffies /\ served' \in [Tasks -> Nat]
           /\ Clock' = Clock + Jiffy /\ XD' = XD
           /\ \A t \in Tasks :
                 served'[t] * Jiffy =
                     served[t] * Jiffy + (IF t = current THEN Jiffy ELSE 0)
<1>1. /\ jiffies \in 0 .. MaxJiffies /\ jiffies < MaxJiffies
      /\ jiffies' = jiffies + 1 /\ XD' = XD
      /\ served \in [Tasks -> Nat]
      /\ served' = [t \in Tasks |-> served[t] + (IF t = current THEN 1 ELSE 0)]
  BY DEF SjfTypeOK, Advance
<1>2. Jiffy \in Nat /\ MaxJiffies \in Nat
  BY SjfAssumption
<1>3. \A n \in Nat : (n + 1) * Jiffy = n * Jiffy + Jiffy
  BY <1>2
<1>4. ASSUME NEW t \in Tasks
      PROVE  served'[t] * Jiffy =
                 served[t] * Jiffy + (IF t = current THEN Jiffy ELSE 0)
  <2>1. CASE t = current
    BY <1>1, <1>3, <2>1
  <2>2. CASE t # current
    <3>1. served'[t] = served[t] + 0 /\ served[t] \in Nat
      BY <1>1, <2>2
    <3>2. served[t] * Jiffy \in Nat
      BY <1>2, <3>1
    <3> QED
      BY <2>2, <3>1, <3>2
  <2> QED
    BY <2>1, <2>2
<1>5. Clock' = Clock + Jiffy
  BY <1>1, <1>2, <1>3 DEF Clock
<1>6. jiffies' \in 0 .. MaxJiffies /\ served' \in [Tasks -> Nat]
  BY <1>1, <1>2
<1> QED
  BY <1>1, <1>4, <1>5, <1>6

(* The burst that is stored in an unsigned int is never longer than the    *)
(* burst that was, and the expected burst stays below the last value: the  *)
(* mean of at most UintValues - 1, twice, and at most UintValues - 2.      *)
LEMMA BurstFacts ==
    ASSUME SInv, NEW now \in Nat, Clock <= now
    PROVE  /\ current \in Tasks =>
                /\ Burst(now) \in Nat
                /\ Burst(now) <= now - cpu_owned[current]
           /\ Bursts(now) \in [Tasks -> 0 .. UintValues - 1]
           /\ \A t \in Tasks : Bursts(now)[t] + 1 < UintValues
           /\ \A t \in Tasks \ {current} : Bursts(now)[t] = exp_burst[t]
<1>1. /\ UintValues \in Nat /\ UintValues > 1
      /\ Clock \in Nat
      /\ exp_burst \in [Tasks -> 0 .. UintValues - 1]
      /\ cpu_owned \in [Tasks -> 0 .. Clock]
      /\ \A t \in Tasks : exp_burst[t] + 1 < UintValues
  BY SjfAssumption, ClockType DEF SInv, SjfTypeOK, NoWrap
<1>2. ASSUME current \in Tasks
      PROVE  /\ Burst(now) \in 0 .. UintValues - 1
             /\ Burst(now) <= now - cpu_owned[current]
  <2> DEFINE d == now - cpu_owned[current]
  <2>1. d \in Nat
    BY <1>1, <1>2
  <2>2. d % UintValues \in 0 .. UintValues - 1 /\ d % UintValues <= d
    <3> HIDE DEF d
    <3> QED
      BY <1>1, <2>1
  <2> QED
    BY <1>2, <2>2 DEF Burst
<1>3. ASSUME current \in Tasks
      PROVE  Expected(now) \in 0 .. UintValues - 2
  <2> DEFINE b == Burst(now)
             e == exp_burst[current]
  <2>1. b \in 0 .. UintValues - 1 /\ e \in 0 .. UintValues - 2
    BY <1>1, <1>2, <1>3
  <2>2. (2 * b + e) \div 3 \in 0 .. UintValues - 2
    <3> HIDE DEF b, e
    <3> QED
      BY <1>1, <2>1
  <2> QED
    BY <1>3, <2>2 DEF Expected
<1>4. ASSUME NEW t \in Tasks
      PROVE  /\ Bursts(now)[t] \in 0 .. UintValues - 2
             /\ t # current => Bursts(now)[t] = exp_burst[t]
  <2>1. Bursts(now)[t] = IF t = current THEN Expected(now) ELSE exp_burst[t]
    BY DEF Bursts, Set
  <2> QED
    BY <1>1, <1>3, <2>1
<1>5. Bursts(now) = [t \in Tasks |-> Bursts(now)[t]]
  BY DEF Bursts, Set
<1> HIDE DEF Bursts
<1>6. Bursts(now) \in [Tasks -> 0 .. UintValues - 1]
  BY <1>1, <1>4, <1>5
<1> QED
  BY <1>1, <1>2, <1>4, <1>6

(* What schedule() writes, at time now, when process t has run for ran[t]. *)
LEMMA AccountFacts ==
    ASSUME SInv, NEW now \in Nat, Clock <= now, NEW ran \in [Tasks -> Nat],
           NEW chosen \in Structs, current' = chosen, Account(chosen, now),
           nr_running = 1 => chosen \notin Tasks,
           \A t \in Tasks : XE[t] <= ran[t],
           current \in Tasks =>
               XE[current] + (now - cpu_owned[current]) <= ran[current]
    PROVE  /\ exp_burst' \in [Tasks -> 0 .. UintValues - 1]
           /\ NoWrap'
           /\ cpu_owned' \in [Tasks -> 0 .. now]
           /\ XE' \in [Tasks -> Nat]
           /\ \A t \in Tasks : XE'[t] <= ran[t]
           /\ current' \in Tasks =>
                XE'[current'] + (now - cpu_owned'[current']) <= ran[current']
<1>1. /\ exp_burst \in [Tasks -> 0 .. UintValues - 1]
      /\ XE \in [Tasks -> Nat]
      /\ cpu_owned \in [Tasks -> 0 .. Clock] /\ Clock \in Nat
      /\ cpu_owned \in [Tasks -> 0 .. now]
      /\ \A t \in Tasks : exp_burst[t] + 1 < UintValues
  BY ClockType DEF SInv, SjfTypeOK, NoWrap
<1>2. ASSUME cpu_owned' = Set(cpu_owned, chosen, now)
      PROVE  /\ cpu_owned' \in [Tasks -> 0 .. now]
             /\ chosen \in Tasks => cpu_owned'[chosen] = now
  <2>1. /\ cpu_owned' = [t \in Tasks |-> cpu_owned'[t]]
        /\ \A t \in Tasks :
              cpu_owned'[t] = IF t = chosen THEN now ELSE cpu_owned[t]
    BY <1>2 DEF Set
  <2> QED
    BY <1>1, <2>1
<1>3. CASE nr_running = 1 /\ UNCHANGED times
  BY <1>1, <1>3 DEF times, NoWrap
<1>4. CASE /\ nr_running = 2
           /\ cpu_owned' = Set(cpu_owned, chosen, now)
           /\ UNCHANGED <<exp_burst, XE>>
  BY <1>1, <1>2, <1>4 DEF NoWrap
<1>5. CASE chosen = current /\ UNCHANGED times
  BY <1>1, <1>5 DEF times, NoWrap
<1>6. CASE /\ chosen # current
           /\ exp_burst' = Bursts(now)
           /\ XE' = Set(XE, current, Credited(now))
           /\ cpu_owned' = Set(cpu_owned, chosen, now)
  <2>1. /\ exp_burst' \in [Tasks -> 0 .. UintValues - 1]
        /\ NoWrap'
    BY <1>6, BurstFacts DEF NoWrap
  <2>2. /\ XE' = [t \in Tasks |-> XE'[t]]
        /\ \A t \in Tasks :
              XE'[t] = IF t = current THEN XE[t] + Burst(now) ELSE XE[t]
    BY <1>6 DEF Set, Credited
  <2>3. ASSUME NEW t \in Tasks
        PROVE  XE'[t] \in Nat /\ XE'[t] <= ran[t]
    <3>1. CASE t = current
      <4>1. Burst(now) \in Nat /\ Burst(now) <= now - cpu_owned[current]
        BY <3>1, BurstFacts
      <4>2. XE'[t] = XE[t] + Burst(now) /\ XE[t] \in Nat /\ cpu_owned[t] \in Nat
        BY <1>1, <2>2, <3>1
      <4>3. XE[t] + (now - cpu_owned[t]) <= ran[t] /\ ran[t] \in Nat
        BY <3>1
      <4> HIDE DEF Burst
      <4> QED
        BY <3>1, <4>1, <4>2, <4>3
    <3>2. CASE t # current
      BY <1>1, <2>2, <3>2
    <3> QED
      BY <3>1, <3>2
  <2>4. XE' \in [Tasks -> Nat]
    BY <2>2, <2>3
  <2>5. ASSUME chosen \in Tasks
        PROVE  XE'[chosen] + (now - cpu_owned'[chosen]) <= ran[chosen]
    BY <1>2, <1>6, <2>3, <2>5
  <2> QED
    BY <1>2, <1>6, <2>1, <2>3, <2>4, <2>5
<1> QED
  BY <1>3, <1>4, <1>5, <1>6 DEF Account

-----------------------------------------------------------------------------
(* The initial state, and the steps one by one.                            *)

(* Nobody has run and nothing is credited at first.                        *)
LEMMA SchedsInitInv == SchedsInit => SInv
<1> SUFFICES ASSUME SchedsInit PROVE SInv
  OBVIOUS
<1>1. Init /\ IInv /\ freed = {}
  BY InitInv DEF SchedsInit, GoodInit, SjfInit, Init
<1>2. /\ jiffies = 0 /\ time_slice = [t \in Tasks |-> TIMESLICE]
      /\ exp_burst = Zero /\ cpu_owned = Zero /\ XE = Zero /\ XD = Zero
      /\ served = Zero /\ last_time = Zero
  BY DEF SchedsInit, GoodInit, SjfInit
<1>3. /\ Zero = [t \in Tasks |-> Zero[t]] /\ \A t \in Tasks : Zero[t] = 0
  BY DEF Zero
<1>4. /\ Clock = 0 /\ 0 * Jiffy = 0 /\ UintValues \in Nat /\ UintValues > 1
      /\ TIMESLICE \in Nat /\ TIMESLICE > 0 /\ MaxJiffies \in Nat
  BY <1>2, SjfAssumption DEF Clock
<1>5. /\ Zero \in [Tasks -> 0 .. 0] /\ Zero \in [Tasks -> Nat]
      /\ Zero \in [Tasks -> 0 .. UintValues - 1]
  BY <1>3, <1>4
<1>6. SjfTypeOK
  BY <1>1, <1>2, <1>4, <1>5 DEF SjfTypeOK, IInv
<1>7. CreditBounded /\ Existed /\ NoWrap
  <2>1. \A t \in Tasks : /\ served[t] = 0 /\ served[t] * Jiffy = 0
                         /\ XE[t] = 0 /\ XD[t] = 0 /\ exp_burst[t] = 0
    BY <1>2, <1>3, <1>4
  <2>2. unborn \subseteq Tasks
    BY <1>1 DEF IInv, TypeOK
  <2>3. CreditBounded
    BY <1>1, <2>1 DEF CreditBounded
  <2>4. NoWrap
    BY <1>4, <2>1 DEF NoWrap
  <2>5. Existed
    BY <1>4, <2>1, <2>2 DEF Existed
  <2> QED
    BY <2>3, <2>4, <2>5
<1>8. BurstBounded /\ LastOK
  BY <1>2, <1>3, <1>4, <1>5 DEF BurstBounded, LastOK
<1> QED
  BY <1>1, <1>6, <1>7, <1>8 DEF SInv

(* What the goodness program remembers of the queue is never ahead of the  *)
(* clock.                                                                  *)
LEMMA LastStep ==
    ASSUME SInv, SjfTypeOK', Clock <= Clock', NEW x, NEW now \in 0 .. Clock',
           last_time' = last_time \/ last_time' = Set(last_time, x, now)
    PROVE  LastOK'
<1>1. Clock \in Nat /\ Clock' \in Nat /\ last_time \in [Tasks -> 0 .. Clock]
  <2>1. Clock' \in Nat
    <3>1. jiffies' \in Nat /\ Jiffy \in Nat
      BY SjfAssumption DEF SjfTypeOK
    <3>2. \A m, n \in Nat : m * n \in Nat
      OBVIOUS
    <3> QED
      BY <3>1, <3>2 DEF Clock
  <2> QED
    BY <2>1, ClockType DEF SInv, LastOK
<1>2. last_time \in [Tasks -> 0 .. Clock']
  BY <1>1
<1>3. CASE last_time' = Set(last_time, x, now)
  <2>1. /\ last_time' = [t \in Tasks |-> last_time'[t]]
        /\ \A t \in Tasks : last_time'[t] = IF t = x THEN now ELSE last_time[t]
    BY <1>3 DEF Set
  <2> QED
    BY <1>2, <2>1 DEF LastOK
<1> QED
  BY <1>2, <1>3 DEF LastOK

(* The steps without a time of their own.                                  *)
LEMMA TimelessInv ==
    ASSUME SInv, IInv', Timeless \/ WakeOne \/ UNCHANGED <<current, freed, unborn>>,
           UNCHANGED <<jiffies, time_slice, times, XD, served>>
    PROVE  /\ Clock' = Clock
           /\ SjfTypeOK' /\ CreditBounded' /\ NoWrap' /\ Existed' /\ BurstBounded'
<1>1. UNCHANGED <<current, freed, unborn>>
  BY DEF Timeless, Work, Sleep, Keep, EndSpawn, NoTick, NoIo, IoFire, WakeEnd,
         Crash, KillInit, NextRound, LoopEnd, WakeOne, family
<1>2. Clock' = Clock
  BY DEF Clock
<1>3. SjfTypeOK'
  BY <1>2 DEF SInv, SjfTypeOK, IInv, times
<1>4. CreditBounded' /\ NoWrap'
  BY <1>1 DEF SInv, CreditBounded, NoWrap, times
<1>5. Existed' /\ BurstBounded'
  BY <1>1, <1>2 DEF SInv, Existed, BurstBounded, times
<1> QED
  BY <1>2, <1>3, <1>4, <1>5

(* killtask computes from XD how long the process existed.                 *)
LEMMA SjfEndInv ==
    ASSUME SInv, IInv', NEW due \in BOOLEAN, SjfEndTask(due)
    PROVE  /\ Clock' = Clock
           /\ SjfTypeOK' /\ CreditBounded' /\ NoWrap' /\ Existed' /\ BurstBounded'
<1>1. /\ current' = Idle /\ freed' = freed \cup ({current} \ {InitTask})
      /\ unborn' = unborn
      /\ UNCHANGED <<jiffies, time_slice, times, served>>
      /\ XD' = [t \in Tasks |-> IF t = current THEN Clock - XD[t] ELSE XD[t]]
  BY DEF SjfEndTask, EndTask
<1>2. /\ Clock' = Clock /\ Clock \in Nat
      /\ \A t \in Tasks : served[t] \in Nat /\ served[t] * Jiffy \in Nat
  BY <1>1, ClockType DEF SInv, Clock
<1>3. /\ current \notin freed /\ XD \in [Tasks -> Nat] /\ freed \subseteq Tasks
      /\ current' \notin Tasks
  BY <1>1, Distinct DEF SInv, IInv, OnePlace, SjfTypeOK, TypeOK
<1>4. /\ XD' = [t \in Tasks |-> XD'[t]]
      /\ \A t \in Tasks : XD'[t] = IF t = current THEN Clock - XD[t] ELSE XD[t]
  BY <1>1
<1>5. ASSUME NEW t \in Tasks
      PROVE  /\ XD'[t] \in Nat
             /\ t = current => served[t] * Jiffy <= XD'[t]
  <2>1. CASE t = current
    <3>1. XD[t] + served[t] * Jiffy <= Clock
      BY <1>3, <2>1 DEF SInv, Existed
    <3> QED
      BY <1>2, <1>3, <1>4, <2>1, <3>1
  <2>2. CASE t # current
    BY <1>3, <1>4, <2>2
  <2> QED
    BY <2>1, <2>2
<1>6. SjfTypeOK'
  <2>1. XD' \in [Tasks -> Nat]
    BY <1>4, <1>5
  <2> QED
    BY <1>1, <1>2, <2>1 DEF SInv, SjfTypeOK, IInv, times
<1>7. CreditBounded'
  <2>1. ASSUME NEW t \in freed'
        PROVE  t \in Tasks /\ served[t] * Jiffy <= XD'[t]
    <3>1. CASE t = current
      <4>1. current \in Tasks
        <5>1. current \in Structs /\ current # InitTask /\ current # Idle
          BY <1>1, <1>3, <2>1, <3>1, HeadLinked
             DEF SInv, IInv, TypeOK, CpuInv, Settled, SjfEndTask, EndTask
        <5> QED
          BY <5>1, Distinct
      <4> QED
        BY <1>5, <3>1, <4>1
    <3>2. CASE t # current
      <4>1. t \in freed
        BY <1>1, <2>1, <3>2
      <4> QED
        BY <1>3, <1>4, <3>2, <4>1 DEF SInv, CreditBounded
    <3> QED
      BY <3>1, <3>2
  <2> QED
    BY <1>1, <2>1 DEF SInv, CreditBounded, times
<1>8. Existed'
  <2>1. ASSUME NEW t \in Tasks \ freed'
        PROVE  XD'[t] + served[t] * Jiffy <= Clock
    <3>1. t \notin freed /\ (t # current \/ t = InitTask)
      BY <1>1, <2>1
    <3>2. t # current
      BY <3>1, Distinct
    <3> QED
      BY <1>4, <3>1, <3>2 DEF SInv, Existed
  <2> QED
    BY <1>1, <1>2, <2>1 DEF SInv, Existed
<1>9. NoWrap' /\ BurstBounded'
  BY <1>1, <1>3 DEF SInv, NoWrap, BurstBounded, times
<1> QED
  BY <1>2, <1>6, <1>7, <1>8, <1>9

(* sched_fork starts the account of a process that has not run.            *)
LEMMA SjfSpawnInv ==
    ASSUME SInv, IInv', NEW p \in Tasks, SjfSpawn(p)
    PROVE  /\ Clock' = Clock
           /\ SjfTypeOK' /\ CreditBounded' /\ NoWrap' /\ Existed' /\ BurstBounded'
<1>1. /\ p \in unborn /\ unborn' = unborn \ {p} /\ freed' = freed
      /\ current' = current /\ jiffies' = jiffies /\ served' = served
      /\ time_slice' = Set(time_slice, p, TIMESLICE)
      /\ exp_burst' = Set(exp_burst, p, 0)
      /\ cpu_owned' = Set(cpu_owned, p, 0)
      /\ XE' = Set(XE, p, 0) /\ XD' = Set(XD, p, Clock)
  BY DEF SjfSpawn, Spawn
<1>2. /\ Clock' = Clock /\ Clock \in Nat
      /\ \A t \in Tasks : served[t] \in Nat /\ served[t] * Jiffy \in Nat
      /\ TIMESLICE \in Nat /\ TIMESLICE > 0
      /\ UintValues \in Nat /\ UintValues > 1
  BY <1>1, ClockType, SjfAssumption DEF SInv, Clock
<1>3. /\ p \notin freed /\ p # current
      /\ served[p] = 0 /\ served[p] * Jiffy = 0
      /\ unborn \subseteq Tasks /\ freed \subseteq Tasks
  BY <1>1, <1>2, SjfAssumption DEF SInv, IInv, TypeOK, OnePlace, Existed
<1>4. /\ \A t \in Tasks :
            /\ time_slice'[t] = IF t = p THEN TIMESLICE ELSE time_slice[t]
            /\ exp_burst'[t] = IF t = p THEN 0 ELSE exp_burst[t]
            /\ cpu_owned'[t] = IF t = p THEN 0 ELSE cpu_owned[t]
            /\ XE'[t] = IF t = p THEN 0 ELSE XE[t]
            /\ XD'[t] = IF t = p THEN Clock ELSE XD[t]
      /\ time_slice' = [t \in Tasks |-> time_slice'[t]]
      /\ exp_burst' = [t \in Tasks |-> exp_burst'[t]]
      /\ cpu_owned' = [t \in Tasks |-> cpu_owned'[t]]
      /\ XE' = [t \in Tasks |-> XE'[t]] /\ XD' = [t \in Tasks |-> XD'[t]]
  BY <1>1 DEF Set
<1>5. SjfTypeOK'
  <2>1. /\ time_slice \in [Tasks -> 1 .. TIMESLICE]
        /\ exp_burst \in [Tasks -> 0 .. UintValues - 1]
        /\ cpu_owned \in [Tasks -> 0 .. Clock]
        /\ XE \in [Tasks -> Nat] /\ XD \in [Tasks -> Nat]
    BY DEF SInv, SjfTypeOK
  <2>2. /\ time_slice' \in [Tasks -> 1 .. TIMESLICE]
        /\ exp_burst' \in [Tasks -> 0 .. UintValues - 1]
    BY <1>2, <1>4, <2>1
  <2>3. cpu_owned' \in [Tasks -> 0 .. Clock]
    BY <1>2, <1>4, <2>1
  <2>4. XE' \in [Tasks -> Nat] /\ XD' \in [Tasks -> Nat]
    BY <1>2, <1>4, <2>1
  <2> QED
    BY <1>1, <1>2, <2>2, <2>3, <2>4 DEF SInv, SjfTypeOK, IInv
<1>6. CreditBounded'
  BY <1>1, <1>2, <1>3, <1>4 DEF SInv, CreditBounded
<1>7. NoWrap'
  BY <1>2, <1>4 DEF SInv, NoWrap
<1>8. Existed'
  BY <1>1, <1>2, <1>3, <1>4 DEF SInv, Existed
<1>9. BurstBounded'
  BY <1>1, <1>2, <1>3, <1>4 DEF SInv, BurstBounded
<1> QED
  BY <1>2, <1>5, <1>6, <1>7, <1>8, <1>9

(* A tick credits the process on the CPU with a jiffy, in served and, by   *)
(* the clock, in its burst.                                                *)
LEMMA TickFacts ==
    ASSUME SInv, Advance
    PROVE  /\ Clock' \in Nat /\ Clock <= Clock'
           /\ \A t \in Tasks : /\ served'[t] * Jiffy \in Nat
                               /\ served[t] * Jiffy <= served'[t] * Jiffy
           /\ \A t \in Tasks : XE[t] <= served'[t] * Jiffy
           /\ current \in Tasks =>
                XE[current] + (Clock' - cpu_owned[current])
                    <= served'[current] * Jiffy
           /\ \A t \in freed : served'[t] * Jiffy <= XD'[t]
           /\ freed' = freed /\ unborn' = unborn => Existed'
<1>1. /\ Clock' = Clock + Jiffy /\ Clock \in Nat /\ Jiffy \in Nat /\ XD' = XD
      /\ \A t \in Tasks :
            served'[t] * Jiffy =
                served[t] * Jiffy + (IF t = current THEN Jiffy ELSE 0)
      /\ \A t \in Tasks : served[t] \in Nat /\ served[t] * Jiffy \in Nat
      /\ served' = [t \in Tasks |-> served[t] + (IF t = current THEN 1 ELSE 0)]
  BY AdvanceFacts, ClockType DEF SInv, Advance
<1>2. /\ XE \in [Tasks -> Nat] /\ cpu_owned \in [Tasks -> 0 .. Clock]
      /\ XD \in [Tasks -> Nat]
      /\ freed \subseteq Tasks /\ unborn \subseteq Tasks
      /\ current \notin freed /\ current \notin unborn
  BY DEF SInv, SjfTypeOK, IInv, TypeOK, OnePlace
<1>3. \A t \in Tasks : XE[t] <= served[t] * Jiffy
  BY DEF SInv, CreditBounded
<1>4. \A t \in Tasks : XE[t] <= served'[t] * Jiffy
  BY <1>1, <1>2, <1>3
<1>5. ASSUME current \in Tasks
      PROVE  XE[current] + (Clock' - cpu_owned[current])
                 <= served'[current] * Jiffy
  <2>1. XE[current] + (Clock - cpu_owned[current]) <= served[current] * Jiffy
    BY <1>5 DEF SInv, BurstBounded
  <2>2. served'[current] * Jiffy = served[current] * Jiffy + Jiffy
    BY <1>1, <1>5
  <2>3. /\ XE[current] \in Nat /\ cpu_owned[current] \in Nat
        /\ served[current] * Jiffy \in Nat
    BY <1>1, <1>2, <1>5
  <2> QED
    BY <1>1, <2>1, <2>2, <2>3
<1>6. \A t \in freed : served'[t] * Jiffy <= XD'[t]
  <2>1. \A t \in freed : t \in Tasks /\ t # current
    BY <1>2
  <2>2. \A t \in freed : served[t] * Jiffy <= XD[t]
    BY DEF SInv, CreditBounded
  <2> QED
    BY <1>1, <2>1, <2>2
<1>7. ASSUME freed' = freed, unborn' = unborn
      PROVE  Existed'
  <2>1. ASSUME NEW t \in Tasks \ freed'
        PROVE  XD'[t] + served'[t] * Jiffy <= Clock'
    <3>1. XD[t] + served[t] * Jiffy <= Clock
      BY <1>7, <2>1 DEF SInv, Existed
    <3>2. /\ XD[t] \in Nat /\ served[t] * Jiffy \in Nat
          /\ \/ served'[t] * Jiffy = served[t] * Jiffy + Jiffy
             \/ served'[t] * Jiffy = served[t] * Jiffy
      BY <1>1, <1>2
    <3> QED
      BY <1>1, <3>1, <3>2
  <2>2. \A t \in unborn' : served'[t] = 0
    BY <1>1, <1>2, <1>7 DEF SInv, Existed
  <2> QED
    BY <2>1, <2>2 DEF Existed
<1>8. ASSUME NEW t \in Tasks
      PROVE  /\ served'[t] * Jiffy \in Nat
             /\ served[t] * Jiffy <= served'[t] * Jiffy
  <2>1. /\ served[t] * Jiffy \in Nat
        /\ \/ served'[t] * Jiffy = served[t] * Jiffy + Jiffy
           \/ served'[t] * Jiffy = served[t] * Jiffy + 0
    BY <1>1
  <2> QED
    BY <1>1, <2>1
<1>9. Clock' \in Nat /\ Clock <= Clock'
  BY <1>1
<1> QED
  BY <1>4, <1>5, <1>6, <1>7, <1>8, <1>9

(* A tick that leaves the process on the CPU shortens its slice by one,    *)
(* which is left with one at least.                                        *)
LEMMA SjfTickOnlyInv ==
    ASSUME SInv, IInv', SjfTickOnly
    PROVE  /\ Clock <= Clock'
           /\ SjfTypeOK' /\ CreditBounded' /\ NoWrap' /\ Existed' /\ BurstBounded'
<1>1. /\ Advance /\ UNCHANGED times /\ UNCHANGED <<current, freed, unborn>>
      /\ OnSlice => time_slice[current] > 1
      /\ time_slice' = IF OnSlice
                       THEN [time_slice EXCEPT ![current] = @ - 1]
                       ELSE time_slice
  BY DEF SjfTickOnly, TickOnly, family
<1>2. /\ Clock \in Nat /\ Clock' \in Nat /\ Clock <= Clock'
      /\ jiffies' \in 0 .. MaxJiffies /\ served' \in [Tasks -> Nat] /\ XD' = XD
  BY <1>1, TickFacts, AdvanceFacts, ClockType DEF SInv
<1>3. time_slice' \in [Tasks -> 1 .. TIMESLICE]
  <2>1. time_slice \in [Tasks -> 1 .. TIMESLICE] /\ TIMESLICE \in Nat
    BY SjfAssumption DEF SInv, SjfTypeOK
  <2> QED
    BY <1>1, <2>1 DEF OnSlice
<1>4. SjfTypeOK'
  <2>1. cpu_owned' \in [Tasks -> 0 .. Clock']
    BY <1>1, <1>2 DEF SInv, SjfTypeOK, times
  <2> QED
    BY <1>1, <1>2, <1>3, <2>1 DEF SInv, SjfTypeOK, IInv, times
<1>5. CreditBounded' /\ Existed'
  BY <1>1, TickFacts DEF CreditBounded, times
<1>6. NoWrap' /\ BurstBounded'
  BY <1>1, TickFacts DEF SInv, NoWrap, BurstBounded, times
<1> QED
  BY <1>2, <1>4, <1>5, <1>6

(* A new slice for the process that loses the CPU.                         *)
LEMMA SliceType ==
    ASSUME SInv, NEW x, time_slice' \in {time_slice, Set(time_slice, x, TIMESLICE)}
    PROVE  time_slice' \in [Tasks -> 1 .. TIMESLICE]
<1>1. /\ time_slice \in [Tasks -> 1 .. TIMESLICE]
      /\ TIMESLICE \in Nat /\ TIMESLICE > 0
  BY SjfAssumption DEF SInv, SjfTypeOK
<1>2. CASE time_slice' = Set(time_slice, x, TIMESLICE)
  <2>1. /\ time_slice' = [t \in Tasks |-> time_slice'[t]]
        /\ \A t \in Tasks :
              time_slice'[t] = IF t = x THEN TIMESLICE ELSE time_slice[t]
    BY <1>2 DEF Set
  <2> QED
    BY <1>1, <2>1
<1> QED
  BY <1>1, <1>2

(* A tick that calls schedule(), whatever the policy chooses.              *)
LEMMA TimedTickInv ==
    ASSUME SInv, IInv', NEW chosen \in Structs, TimedTick(chosen)
    PROVE  /\ Clock <= Clock'
           /\ SjfTypeOK' /\ CreditBounded' /\ NoWrap' /\ Existed' /\ BurstBounded'
<1>1. /\ Advance /\ UNCHANGED <<freed, unborn>> /\ current' = chosen
      /\ nr_running = 1 => chosen = InitTask
      /\ time_slice' = Set(time_slice, current, TIMESLICE)
      /\ Account(chosen, Clock')
  BY DEF TimedTick, TickSchedule, Schedule, family
<1>2. /\ Clock' \in Nat /\ Clock <= Clock'
      /\ jiffies' \in 0 .. MaxJiffies /\ served' \in [Tasks -> Nat] /\ XD' = XD
      /\ \A t \in Tasks : served'[t] * Jiffy \in Nat
      /\ \A t \in Tasks : XE[t] <= served'[t] * Jiffy
      /\ current \in Tasks =>
           XE[current] + (Clock' - cpu_owned[current])
               <= served'[current] * Jiffy
  BY <1>1, TickFacts, AdvanceFacts DEF SInv
<1>3. Existed' /\ \A t \in freed' : served'[t] * Jiffy <= XD'[t]
  BY <1>1, TickFacts
<1>4. PICK now \in Nat, ran \in [Tasks -> Nat] :
         now = Clock' /\ ran = [t \in Tasks |-> served'[t] * Jiffy]
  BY <1>2
<1>5. /\ exp_burst' \in [Tasks -> 0 .. UintValues - 1]
      /\ NoWrap'
      /\ cpu_owned' \in [Tasks -> 0 .. now]
      /\ XE' \in [Tasks -> Nat]
      /\ \A t \in Tasks : XE'[t] <= ran[t]
      /\ current' \in Tasks =>
           XE'[current'] + (now - cpu_owned'[current']) <= ran[current']
  <2>1. Account(chosen, now) /\ Clock <= now
    BY <1>1, <1>2, <1>4
  <2>2. /\ \A t \in Tasks : XE[t] <= ran[t]
        /\ current \in Tasks =>
             XE[current] + (now - cpu_owned[current]) <= ran[current]
    BY <1>2, <1>4
  <2>3. nr_running = 1 => chosen \notin Tasks
    BY <1>1, Distinct
  <2> QED
    BY <1>1, <2>1, <2>2, <2>3, AccountFacts
<1>6. time_slice' \in [Tasks -> 1 .. TIMESLICE]
  BY <1>1, SliceType
<1>7. SjfTypeOK'
  BY <1>2, <1>4, <1>5, <1>6 DEF SInv, SjfTypeOK, IInv
<1>8. CreditBounded' /\ BurstBounded'
  BY <1>3, <1>2, <1>4, <1>5 DEF CreditBounded, BurstBounded
<1> QED
  BY <1>3, <1>2, <1>5, <1>7, <1>8

(* runcpu calls schedule(), whatever the policy chooses.                   *)
LEMMA TimedRescheduleInv ==
    ASSUME SInv, IInv', NEW chosen \in Structs, TimedReschedule(chosen)
    PROVE  /\ Clock' = Clock
           /\ SjfTypeOK' /\ CreditBounded' /\ NoWrap' /\ Existed' /\ BurstBounded'
<1>1. /\ UNCHANGED <<freed, unborn, jiffies, XD, served>> /\ current' = chosen
      /\ nr_running = 1 => chosen = InitTask
      /\ time_slice' \in {time_slice, Set(time_slice, current, TIMESLICE)}
      /\ Account(chosen, Clock)
  BY DEF TimedReschedule, Reschedule, Schedule, family
<1>2. /\ Clock' = Clock /\ Clock \in Nat
      /\ \A t \in Tasks : served[t] * Jiffy \in Nat
      /\ \A t \in Tasks : XE[t] <= served[t] * Jiffy
      /\ current \in Tasks =>
           XE[current] + (Clock - cpu_owned[current]) <= served[current] * Jiffy
  BY <1>1, ClockType DEF SInv, Clock, CreditBounded, BurstBounded
<1>3. PICK now \in Nat, ran \in [Tasks -> Nat] :
         now = Clock /\ ran = [t \in Tasks |-> served[t] * Jiffy]
  BY <1>2
<1>4. /\ exp_burst' \in [Tasks -> 0 .. UintValues - 1]
      /\ NoWrap'
      /\ cpu_owned' \in [Tasks -> 0 .. now]
      /\ XE' \in [Tasks -> Nat]
      /\ \A t \in Tasks : XE'[t] <= ran[t]
      /\ current' \in Tasks =>
           XE'[current'] + (now - cpu_owned'[current']) <= ran[current']
  <2>1. Account(chosen, now) /\ Clock <= now
    BY <1>1, <1>2, <1>3
  <2>2. /\ \A t \in Tasks : XE[t] <= ran[t]
        /\ current \in Tasks =>
             XE[current] + (now - cpu_owned[current]) <= ran[current]
    BY <1>2, <1>3
  <2>3. nr_running = 1 => chosen \notin Tasks
    BY <1>1, Distinct
  <2> QED
    BY <1>1, <2>1, <2>2, <2>3, AccountFacts
<1>5. time_slice' \in [Tasks -> 1 .. TIMESLICE]
  BY <1>1, SliceType
<1>6. SjfTypeOK'
  BY <1>1, <1>2, <1>3, <1>4, <1>5 DEF SInv, SjfTypeOK, IInv
<1>7. CreditBounded' /\ BurstBounded' /\ Existed'
  BY <1>1, <1>2, <1>3, <1>4
     DEF SInv, CreditBounded, BurstBounded, Existed
<1> QED
  BY <1>2, <1>4, <1>6, <1>7

(* A step of either program, apart from what it remembers of the queue.    *)
LEMMA AccountsStep ==
    ASSUME SInv, [SchedsNext]_schedVars
    PROVE  /\ Clock <= Clock' /\ IInv'
           /\ SjfTypeOK' /\ CreditBounded' /\ NoWrap' /\ Existed' /\ BurstBounded'
<1>1. IInv'
  <2>1. [Next]_vars
    BY SjfStep, GoodStep DEF SchedsNext, schedVars, goodVars, sjfVars
  <2> QED
    BY <2>1, NextInv DEF SInv
<1>2. Clock \in Nat
  BY ClockType DEF SInv
<1>3. ASSUME NEW due \in BOOLEAN, SjfEndTask(due)
      PROVE  /\ Clock <= Clock' /\ SjfTypeOK' /\ CreditBounded'
             /\ NoWrap' /\ Existed' /\ BurstBounded'
  BY <1>1, <1>2, <1>3, SjfEndInv
<1>4. ASSUME NEW t \in Tasks, SjfSpawn(t)
      PROVE  /\ Clock <= Clock' /\ SjfTypeOK' /\ CreditBounded'
             /\ NoWrap' /\ Existed' /\ BurstBounded'
  BY <1>1, <1>2, <1>4, SjfSpawnInv
<1>5. ASSUME SjfTickOnly
      PROVE  /\ Clock <= Clock' /\ SjfTypeOK' /\ CreditBounded'
             /\ NoWrap' /\ Existed' /\ BurstBounded'
  BY <1>1, <1>5, SjfTickOnlyInv
<1>6. ASSUME NEW t \in Structs, TimedTick(t) \/ TimedReschedule(t)
      PROVE  /\ Clock <= Clock' /\ SjfTypeOK' /\ CreditBounded'
             /\ NoWrap' /\ Existed' /\ BurstBounded'
  BY <1>1, <1>2, <1>6, TimedTickInv, TimedRescheduleInv
<1>7. ASSUME UNCHANGED <<jiffies, time_slice, times, XD, served>>,
             Timeless \/ WakeOne \/ UNCHANGED <<current, freed, unborn>>
      PROVE  /\ Clock <= Clock' /\ SjfTypeOK' /\ CreditBounded'
             /\ NoWrap' /\ Existed' /\ BurstBounded'
  BY <1>1, <1>2, <1>7, TimelessInv
<1>8. CASE UNCHANGED schedVars
  BY <1>1, <1>7, <1>8 DEF schedVars, goodVars, sjfVars, vars, family
<1>9. CASE SjfNext
  BY <1>1, <1>3, <1>4, <1>5, <1>6, <1>7, <1>9
     DEF SjfNext, SjfTickSchedule, SjfReschedule
<1>10. CASE GoodNext
  BY <1>1, <1>3, <1>4, <1>5, <1>6, <1>7, <1>10
     DEF GoodNext, GoodEndTask, GoodSpawn, GoodTickOnly, GoodTick,
         GoodReschedule, GoodWake, GoodTimeless
<1> QED
  BY <1>8, <1>9, <1>10 DEF SchedsNext

(* Every step of either program keeps the machine's invariant, since it is *)
(* a step of the machine, and the accounts of its own.                     *)
LEMMA SchedsNextInv == SInv /\ [SchedsNext]_schedVars => SInv'
<1> SUFFICES ASSUME SInv, [SchedsNext]_schedVars PROVE SInv'
  OBVIOUS
<1>1. /\ Clock <= Clock' /\ IInv'
      /\ SjfTypeOK' /\ CreditBounded' /\ NoWrap' /\ Existed' /\ BurstBounded'
  BY AccountsStep
<1>2. Clock \in Nat /\ Clock' \in Nat
  <2>1. jiffies' \in Nat /\ Jiffy \in Nat
    BY <1>1, SjfAssumption DEF SjfTypeOK
  <2>2. \A m, n \in Nat : m * n \in Nat
    OBVIOUS
  <2> QED
    BY <2>1, <2>2, ClockType DEF SInv, Clock
<1>3. Clock \in 0 .. Clock' /\ Clock' \in 0 .. Clock'
  BY <1>1, <1>2
<1>4. LastOK'
  <2>1. CASE last_time' = last_time
    BY <1>1, <1>2, <2>1 DEF SInv, LastOK
  <2>2. ASSUME NEW x, NEW now \in 0 .. Clock',
               last_time' = Set(last_time, x, now)
        PROVE  LastOK'
    BY <1>1, <2>2, LastStep
  <2>3. CASE \E t \in Tasks : last_time' = Set(last_time, t, Clock)
    BY <1>3, <2>2, <2>3
  <2>4. CASE \E t \in Structs : GoodTick(t) \/ GoodReschedule(t)
    <3>1. nr_running <= 2 \/ nr_running > 2
      BY DEF SInv, IInv, TypeOK
    <3>2. \/ last_time' = last_time
          \/ last_time' = Set(last_time, current, Clock)
          \/ last_time' = Set(last_time, current, Clock')
      BY <2>4, <3>1 DEF GoodTick, GoodReschedule, GoodPolicy
    <3> QED
      BY <1>3, <2>1, <2>2, <3>2
  <2>5. CASE GoodWake
    <3>1. last_time' = Set(last_time, Head(intwaitlist), Clock)
      BY <2>5 DEF GoodWake
    <3> QED
      BY <1>3, <2>2, <3>1
  <2> QED
    BY <2>1, <2>3, <2>4, <2>5
       DEF SchedsNext, schedVars, goodVars, GoodNext, GoodEndTask, GoodSpawn,
           GoodTickOnly, GoodTimeless
<1> QED
  BY <1>1, <1>4 DEF SInv

(* Whatever the profile, the slice and the clock, every reachable state of *)
(* both programs satisfies the invariant.                                  *)
THEOREM SchedsInvHolds == SchedsSpec => []SInv
  BY SchedsInitInv, SchedsNextInv, PTL DEF SchedsSpec

(* Both schedulers keep the types of their accounts: no slice reaches 0,   *)
(* so the unsigned time_slice-- never wraps.                               *)
THEOREM SchedsTypesKept == SchedsSpec => []SjfTypeOK
<1>1. SInv => SjfTypeOK
  BY DEF SInv
<1> QED
  BY <1>1, SchedsInvHolds, PTL

(* Nobody is ever credited with time that it did not run, and who has      *)
(* ended existed at least as long as it ran: XD - XE does not wrap.        *)
THEOREM CreditsBounded == SchedsSpec => []CreditBounded
<1>1. SInv => CreditBounded
  BY DEF SInv
<1> QED
  BY <1>1, SchedsInvHolds, PTL

(* 1 + exp_burst of calculate_goodness, an unsigned int, never wraps to 0, *)
(* however long a burst was and however often it wrapped itself.           *)
THEOREM GoodnessNeverWraps == SchedsSpec => []NoWrap
<1>1. SInv => NoWrap
  BY DEF SInv
<1> QED
  BY <1>1, SchedsInvHolds, PTL

-----------------------------------------------------------------------------
(* The policies.                                                           *)

(* find_minExpBurst and calculate_goodness see every process in the queue, *)
(* since the walk does (RingWalked): what they return is the least of all. *)
LEMMA FirstMinLeast ==
    ASSUME IInv, NEW exp, NEW q, nr_running > 2, FirstMin(q, exp),
           \A t \in Queued : exp[t] \in Int
    PROVE  q \in Queued /\ \A t \in Queued : exp[q] <= exp[t]
<1>1. next[InitTask] # Null /\ nr_running \in Nat
  BY DEF IInv, LinksOK, TypeOK
<1>2. Queued = {Walk[k] : k \in 1 .. nr_running - 1}
  BY <1>1, RingWalked, Facts
<1>3. PICK k \in 1 .. nr_running - 1 :
         /\ q = Walk[k]
         /\ \A i \in 1 .. k - 1 : exp[q] < exp[Walk[i]]
         /\ \A i \in k .. nr_running - 1 : exp[q] <= exp[Walk[i]]
  BY DEF FirstMin
<1>4. q \in Queued
  BY <1>2, <1>3
<1>5. ASSUME NEW t \in Queued
      PROVE  exp[q] <= exp[t]
  <2>1. PICK i \in 1 .. nr_running - 1 : t = Walk[i]
    BY <1>2
  <2>2. i \in 1 .. k - 1 \/ i \in k .. nr_running - 1
    BY <1>1
  <2> QED
    BY <1>3, <1>4, <2>1, <2>2
<1> QED
  BY <1>4, <1>5

(* Only schedule() gives the CPU to a process.                             *)
LEMMA SjfSwitch ==
    ASSUME SjfNext, current' # current, current' \in Tasks
    PROVE  \E t \in Structs : SjfTickSchedule(t) \/ SjfReschedule(t)
<1>1. Idle \notin Tasks
  BY Distinct
<1> QED
  BY <1>1
     DEF SjfNext, SjfEndTask, EndTask, SjfSpawn, Spawn, SjfTickOnly, TickOnly,
         Timeless, Work, Sleep, Keep, EndSpawn, NoTick, NoIo, IoFire, WakeOne,
         WakeEnd, Crash, KillInit, NextRound, LoopEnd

(* sjf gives the CPU to a process with the shortest expected burst of all  *)
(* that are runnable, the new one of the process that loses it included.   *)
LEMMA SjfShortest ==
    ASSUME SInv, SjfNext
    PROVE  ShortestChosen
<1> SUFFICES ASSUME nr_running > 2, current' # current, current' \in Tasks,
                    NEW t \in Queued
             PROVE  exp_burst'[current'] <= exp_burst'[t]
  BY DEF ShortestChosen
<1>1. PICK chosen \in Structs :
         SjfTickSchedule(chosen) \/ SjfReschedule(chosen)
  BY SjfSwitch
<1>2. Clock \in Nat /\ Jiffy \in Nat /\ jiffies \in Nat
  BY ClockType DEF SInv
<1>3. PICK now \in Nat : /\ Clock <= now /\ current' = chosen
                         /\ Account(chosen, now) /\ Policy(chosen, now)
  <2>1. CASE SjfTickSchedule(chosen)
    <3>1. Clock' \in Nat /\ Clock <= Clock'
      BY <2>1, TickFacts DEF SjfTickSchedule, TimedTick
    <3> QED
      BY <2>1, <3>1 DEF SjfTickSchedule, TimedTick, TickSchedule, Schedule
  <2>2. CASE SjfReschedule(chosen)
    BY <1>2, <2>2 DEF SjfReschedule, TimedReschedule, Reschedule, Schedule
  <2> QED
    BY <1>1, <2>1, <2>2
<1>4. exp_burst' = Bursts(now)
  BY <1>3 DEF Account
<1>5. FirstMin(chosen, Bursts(now))
  BY <1>3 DEF Policy
<1>6. \A u \in Queued : Bursts(now)[u] \in Int
  BY <1>3, BurstFacts DEF Queued
<1> QED
  BY <1>3, <1>4, <1>5, <1>6, FirstMinLeast DEF SInv

(* sjf really is shortest job first (README:56-63 of hw2).                 *)
THEOREM SjfIsShortestFirst == SchedsSpec => ShortestFirst
<1>1. SInv /\ [SchedsNext]_schedVars
          => [program = "sjf" => ShortestChosen]_schedVars
  BY SjfShortest DEF SchedsNext
<1> QED
  BY <1>1, SchedsInvHolds, PTL DEF SchedsSpec, ShortestFirst

(* What an integer division loses.                                         *)
LEMMA DivBounds ==
    ASSUME NEW a \in Nat, NEW b \in Nat, b > 0
    PROVE  /\ a \div b \in Nat
           /\ (a \div b) * b <= a
           /\ a < (a \div b + 1) * b
           /\ b <= a => a \div b >= 1
  OBVIOUS

(* Products of numbers grow with their factors.                            *)
LEMMA TimesMonotonic ==
    ASSUME NEW a \in Nat, NEW b \in Nat, NEW c \in Nat, a <= b
    PROVE  a * c <= b * c /\ a * c \in Nat /\ b * c \in Nat
  OBVIOUS

(* The arithmetic of calculate_goodness.  A goodness is a quotient of      *)
(* expected bursts, p, times one of waits: n, the longest, over the wait   *)
(* of the process.  If the goodness of a wait of x is no greater than that *)
(* of a wait of y, then x was a (2 + e)-th of y at least.                  *)
LEMMA WaitArithmetic ==
    ASSUME NEW n \in Nat, NEW x \in 1 .. n, NEW y \in 1 .. n, NEW e \in Nat,
           NEW p \in Nat, NEW r \in Nat, p >= 1, r <= 1 + e,
           p * (n \div x) <= r * (n \div y)
    PROVE  y < (2 + e) * x
<1> DEFINE dx == n \div x
           dy == n \div y
<1>1. /\ dx \in Nat /\ n < (dx + 1) * x
      /\ dy \in Nat /\ dy * y <= n /\ dy >= 1
  BY DivBounds
<1>2. p * dx <= r * dy
  OBVIOUS
<1> HIDE DEF dx, dy
<1>3. dx <= p * dx /\ r * dy <= (1 + e) * dy
  <2>1. 1 * dx <= p * dx
    BY <1>1, TimesMonotonic
  <2>2. r * dy <= (1 + e) * dy
    BY <1>1, TimesMonotonic
  <2> QED
    BY <1>1, <2>1, <2>2
<1>4. dx + 1 <= (2 + e) * dy
  <2>1. /\ p * dx \in Nat /\ r * dy \in Nat /\ (1 + e) * dy \in Nat
    BY <1>1
  <2>2. (2 + e) * dy = (1 + e) * dy + dy
    BY <1>1
  <2> QED
    BY <1>1, <1>2, <1>3, <2>1, <2>2
<1>5. (dx + 1) * x <= ((2 + e) * dy) * x
  <2>1. (2 + e) * dy \in Nat
    BY <1>1
  <2> HIDE DEF dx, dy
  <2> QED
    BY <1>1, <1>4, <2>1, TimesMonotonic
<1>6. SUFFICES ASSUME (2 + e) * x <= y
               PROVE  FALSE
  BY <1>1
<1>7. ((2 + e) * x) * dy <= y * dy
  BY <1>1, <1>6, TimesMonotonic
<1>8. ((2 + e) * x) * dy = ((2 + e) * dy) * x /\ y * dy = dy * y
  BY <1>1
<1>9. /\ (dx + 1) * x \in Nat /\ ((2 + e) * dy) * x \in Nat
      /\ dy * y \in Nat
  BY <1>1
<1> QED
  BY <1>1, <1>5, <1>7, <1>8, <1>9

(* The two extremes calculate_goodness measures by exist, and without a    *)
(* wrap of 1 + exp_burst the goodness is a product of two quotients.       *)
LEMMA GoodnessFacts ==
    ASSUME NEW exp \in [Tasks -> 0 .. UintValues - 1],
           \A t \in Tasks : exp[t] + 1 < UintValues,
           NEW now \in Nat, NEW last \in [Tasks -> 0 .. now], Queued # {}
    PROVE  \E min, n \in Nat : \A q \in Queued :
              /\ Goodness(exp, last, now)[q] =
                    ((1 + exp[q]) \div (1 + min))
                    * (n \div (1 + Waited(q, last, now)))
              /\ min <= exp[q]
              /\ 1 + Waited(q, last, now) \in 1 .. n
<1> DEFINE E == {exp[q] : q \in Queued}
           W == {Waited(q, last, now) : q \in Queued}
           min == CHOOSE e \in E : \A q \in Queued : e <= exp[q]
           longest == CHOOSE w \in W :
                         \A q \in Queued : Waited(q, last, now) <= w
<1>1. Queued \subseteq Tasks /\ UintValues \in Nat /\ UintValues > 1
  BY SjfAssumption DEF Queued
<1>2. /\ \A q \in Queued : exp[q] \in Nat /\ exp[q] + 1 < UintValues
      /\ \A q \in Queued : Waited(q, last, now) \in 0 .. now
  <2>1. \A t \in Tasks : exp[t] \in 0 .. UintValues - 1 /\ last[t] \in 0 .. now
    OBVIOUS
  <2> QED
    BY <1>1, <2>1 DEF Waited
<1>3. min \in E /\ \A q \in Queued : min <= exp[q]
  <2>1. E \in SUBSET Nat /\ E # {}
    BY <1>2
  <2>2. \E e \in E : \A q \in Queued : e <= exp[q]
    <3>1. PICK m \in E : \A s \in E : m <= s
      <4> HIDE DEF E
      <4> QED
        BY <2>1, LeastExists
    <3> QED
      BY <3>1
  <2> HIDE DEF E
  <2> QED
    BY <2>2
<1>4. longest \in W /\ \A q \in Queued : Waited(q, last, now) <= longest
  <2>1. W \in SUBSET (0 .. now) /\ W # {}
    BY <1>2
  <2>2. \E w \in W : \A q \in Queued : Waited(q, last, now) <= w
    <3>1. PICK m \in W : \A s \in W : s <= m
      <4> HIDE DEF W
      <4> QED
        BY <2>1, GreatestExists
    <3> QED
      BY <3>1
  <2> HIDE DEF W
  <2> QED
    BY <2>2
<1>5. min \in Nat /\ longest \in Nat
  <2>1. E \in SUBSET Nat /\ W \in SUBSET (0 .. now)
    BY <1>2
  <2> HIDE DEF min, longest, E, W
  <2> QED
    BY <1>3, <1>4, <2>1
<1>6. Goodness(exp, last, now) =
         [q \in Queued |->
             (((1 + exp[q]) % UintValues) \div (1 + min))
             * ((1 + longest) \div (1 + Waited(q, last, now)))]
  BY DEF Goodness
<1> HIDE DEF min, longest, E, W
<1>7. ASSUME NEW q \in Queued
      PROVE  /\ Goodness(exp, last, now)[q] =
                   ((1 + exp[q]) \div (1 + min))
                   * ((1 + longest) \div (1 + Waited(q, last, now)))
             /\ min <= exp[q]
             /\ 1 + Waited(q, last, now) \in 1 .. 1 + longest
  <2>1. (1 + exp[q]) % UintValues = 1 + exp[q]
    BY <1>1, <1>2
  <2>2. Goodness(exp, last, now)[q] =
           ((1 + exp[q]) \div (1 + min))
           * ((1 + longest) \div (1 + Waited(q, last, now)))
    BY <1>6, <2>1
  <2>3. min <= exp[q] /\ 1 + Waited(q, last, now) \in 1 .. 1 + longest
    BY <1>2, <1>3, <1>4, <1>5
  <2> QED
    BY <2>2, <2>3
<1>8. 1 + longest \in Nat
  BY <1>5
<1> QED
  BY <1>5, <1>7, <1>8

(* The step of schedule() is the one that follows the policy.              *)
LEMMA GoodSwitch ==
    ASSUME SInv, GoodNext, nr_running > 2, NEW chosen \in Tasks,
           TimedTick(chosen) \/ TimedReschedule(chosen)
    PROVE  GoodTick(chosen) \/ GoodReschedule(chosen)
<1>1. CASE TimedTick(chosen)
  <2>1. /\ pc = "tick" /\ pc' = "io" /\ current' = chosen
        /\ jiffies' = jiffies + 1 /\ jiffies \in Nat
        /\ current \in Structs /\ next[current] # Null /\ nr_running \in Nat
        /\ OnSlice => time_slice[current] = 1
    BY <1>1, ClockType
       DEF TimedTick, TickSchedule, Schedule, Advance, SInv, IInv, TypeOK
  <2>2. ~ GoodTickOnly
    <3>1. CASE current \in Tasks
      BY <2>1, <3>1 DEF GoodTickOnly, SjfTickOnly, OnSlice
    <3>2. CASE current = InitTask
      BY <2>1, <3>2 DEF GoodTickOnly, SjfTickOnly, TickOnly
    <3> QED
      BY <2>1, <3>1, <3>2, HeadLinked, Distinct DEF SInv
  <2>3. ~ GoodTimeless
    BY <2>1 DEF GoodTimeless
  <2>4. \E t \in Structs : GoodTick(t)
    BY <2>1, <2>2, <2>3
       DEF GoodNext, GoodEndTask, SjfEndTask, EndTask, GoodSpawn, SjfSpawn,
           Spawn, GoodReschedule, TimedReschedule, Reschedule, GoodWake,
           WakeOne
  <2> QED
    BY <2>1, <2>4 DEF GoodTick, TimedTick, TickSchedule, Schedule
<1>2. CASE TimedReschedule(chosen)
  <2>1. /\ pc = "resched" /\ pc' = "end" /\ current' = chosen
    BY <1>2 DEF TimedReschedule, Reschedule, Schedule
  <2>2. \E t \in Structs : GoodReschedule(t)
    BY <2>1
       DEF GoodNext, GoodEndTask, SjfEndTask, EndTask, GoodSpawn, SjfSpawn,
           Spawn, GoodTickOnly, SjfTickOnly, TickOnly, GoodTick, TimedTick,
           TickSchedule, GoodWake, WakeOne, GoodTimeless, Timeless, Work,
           Sleep, Keep, EndSpawn, NoTick, NoIo, IoFire, WakeEnd, Crash,
           KillInit, NextRound, LoopEnd
  <2> QED
    BY <2>1, <2>2 DEF GoodReschedule, TimedReschedule, Reschedule, Schedule
<1> QED
  BY <1>1, <1>2

(* Whoever gets the CPU from calculate_goodness, nobody in the queue has   *)
(* waited more than 2 + e times as long, e its expected burst: its         *)
(* goodness has become the smaller one before.                             *)
LEMMA GoodWaits ==
    ASSUME SInv, SInv', GoodNext
    PROVE  WaitBounded
<1> SUFFICES ASSUME NEW chosen \in Tasks, nr_running > 2,
                    TimedTick(chosen) \/ TimedReschedule(chosen),
                    NEW t \in Queued
             PROVE  1 + Waited(t, last_time', Clock')
                       < (2 + exp_burst[t])
                         * (1 + Waited(chosen, last_time', Clock'))
  BY DEF WaitBounded
<1>1. /\ Clock \in Nat /\ t \in Tasks
      /\ exp_burst \in [Tasks -> 0 .. UintValues - 1]
      /\ UintValues \in Nat
  BY ClockType, SjfAssumption DEF SInv, SjfTypeOK, Queued
<1>2. PICK now \in Nat : now = Clock' /\ Clock <= now
  <2>1. CASE TimedTick(chosen)
    BY <2>1, TickFacts DEF TimedTick
  <2>2. CASE TimedReschedule(chosen)
    BY <1>1, <2>2 DEF TimedReschedule, Clock
  <2> QED
    BY <2>1, <2>2
<1>3. PICK last \in [Tasks -> 0 .. now] : last = last_time'
  BY <1>2 DEF SInv, LastOK
<1>4. PICK exp \in [Tasks -> 0 .. UintValues - 1] :
         /\ exp = Bursts(now)
         /\ \A u \in Tasks : exp[u] + 1 < UintValues
         /\ \A u \in Tasks \ {current} : exp[u] = exp_burst[u]
  BY <1>2, BurstFacts
<1>5. /\ last = Set(last_time, current, now)
      /\ FirstMin(chosen, Goodness(exp, last, now))
  <2>1. GoodTick(chosen) \/ GoodReschedule(chosen)
    BY GoodSwitch
  <2>2. CASE GoodTick(chosen)
    BY <1>2, <1>3, <1>4, <2>2 DEF GoodTick, GoodPolicy, FirstGood
  <2>3. CASE GoodReschedule(chosen)
    <3>1. Clock' = Clock
      BY <2>3 DEF GoodReschedule, TimedReschedule, Clock
    <3> QED
      BY <1>2, <1>3, <1>4, <2>3, <3>1
         DEF GoodReschedule, GoodPolicy, FirstGood
  <2> QED
    BY <2>1, <2>2, <2>3
<1>6. PICK min \in Nat, n \in Nat : \A q \in Queued :
         /\ Goodness(exp, last, now)[q] =
               ((1 + exp[q]) \div (1 + min))
               * (n \div (1 + Waited(q, last, now)))
         /\ min <= exp[q]
         /\ 1 + Waited(q, last, now) \in 1 .. n
  BY <1>4, GoodnessFacts
<1>7. \A q \in Queued : /\ exp[q] \in Nat
                        /\ (1 + exp[q]) \div (1 + min) \in Nat
                        /\ (1 + exp[q]) \div (1 + min) >= 1
                        /\ (1 + exp[q]) \div (1 + min) <= 1 + exp[q]
  <2> SUFFICES ASSUME NEW q \in Queued
               PROVE  /\ exp[q] \in Nat
                      /\ (1 + exp[q]) \div (1 + min) \in Nat
                      /\ (1 + exp[q]) \div (1 + min) >= 1
                      /\ (1 + exp[q]) \div (1 + min) <= 1 + exp[q]
    OBVIOUS
  <2>1. exp[q] \in Nat /\ min <= exp[q]
    BY <1>1, <1>6 DEF Queued
  <2>2. \A a, b \in Nat : b >= 1 => a <= a * b
    OBVIOUS
  <2> DEFINE d == (1 + exp[q]) \div (1 + min)
  <2>3. d \in Nat /\ d * (1 + min) <= 1 + exp[q] /\ d >= 1
    BY <2>1, DivBounds
  <2> HIDE DEF d
  <2>4. d <= d * (1 + min) /\ d * (1 + min) \in Nat
    BY <2>2, <2>3
  <2>5. d <= 1 + exp[q]
    BY <2>1, <2>3, <2>4
  <2> QED
    BY <2>1, <2>3, <2>5 DEF d
<1>8. /\ chosen \in Queued
      /\ Goodness(exp, last, now)[chosen] <= Goodness(exp, last, now)[t]
  <2>1. \A q \in Queued : Goodness(exp, last, now)[q] \in Int
    <3> SUFFICES ASSUME NEW q \in Queued
                 PROVE  Goodness(exp, last, now)[q] \in Int
      OBVIOUS
    <3>1. n \div (1 + Waited(q, last, now)) \in Nat
      BY <1>6, DivBounds
    <3>2. (1 + exp[q]) \div (1 + min) \in Nat
      BY <1>7
    <3>3. \A a, b \in Nat : a * b \in Int
      OBVIOUS
    <3> QED
      BY <1>6, <3>1, <3>2, <3>3
  <2> QED
    BY <1>5, <2>1, FirstMinLeast DEF SInv
<1>9. CASE t # current
  <2>1. exp[t] = exp_burst[t]
    BY <1>1, <1>4, <1>9
  <2> DEFINE x == 1 + Waited(chosen, last, now)
             y == 1 + Waited(t, last, now)
             p == (1 + exp[chosen]) \div (1 + min)
             r == (1 + exp[t]) \div (1 + min)
  <2>2. x \in 1 .. n /\ y \in 1 .. n /\ p * (n \div x) <= r * (n \div y)
    BY <1>6, <1>8
  <2>3. p \in Nat /\ r \in Nat /\ p >= 1 /\ r <= 1 + exp[t] /\ exp[t] \in Nat
    BY <1>7, <1>8
  <2> HIDE DEF x, y, p, r
  <2>4. y < (2 + exp[t]) * x
    BY <2>2, <2>3, WaitArithmetic
  <2> QED
    BY <1>2, <1>3, <2>1, <2>4 DEF x, y
<1>10. CASE t = current
  <2>1. Waited(t, last, now) = 0
    <3>1. last[t] = now
      BY <1>1, <1>5, <1>10 DEF Set
    <3> QED
      BY <3>1 DEF Waited
  <2>2. 1 + Waited(chosen, last, now) \in Nat \ {0}
    BY <1>6, <1>8
  <2>3. 2 + exp_burst[t] \in Nat /\ 2 + exp_burst[t] >= 2
    BY <1>1
  <2>4. \A a, b \in Nat : a >= 2 /\ b >= 1 => 1 < a * b
    OBVIOUS
  <2>5. 1 < (2 + exp_burst[t]) * (1 + Waited(chosen, last, now))
    BY <2>2, <2>3, <2>4
  <2> QED
    BY <1>2, <1>3, <2>1, <2>5
<1> QED
  BY <1>9, <1>10

(* sjf-goodness raises the chances of whoever waits (README:66-70 of hw2): *)
(* no expected burst, wait or wrap of a burst defeats the bound.           *)
THEOREM GoodnessBoundsWaits == SchedsSpec => NobodyStarves
<1>1. SInv /\ SInv' /\ [SchedsNext]_schedVars
          => [program = "goodness" => WaitBounded]_schedVars
  BY GoodWaits DEF SchedsNext
<1> QED
  BY <1>1, SchedsInvHolds, PTL DEF SchedsSpec, NobodyStarves
=============================================================================
