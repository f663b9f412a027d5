--------------------------- MODULE SchedVmProofs ----------------------------
(***************************************************************************)
(* Theorems about SchedVm for every profile: any finite set of processes,  *)
(* any parents, any of them interactive.                                   *)
(*                                                                         *)
(* The invariants of SchedVm hold together or not at all: a task may be    *)
(* put into the ring because it is in no other place, the ring and the     *)
(* counts of children decide who may leave it.  IInv is their conjunction  *)
(* with what each of them needs between the steps of one round.            *)
(***************************************************************************)
EXTENDS SchedVm, Recursion, SequenceTheorems, TLAPS

(* The processes that were spawned and have not ended.                     *)
Living == Tasks \ (unborn \cup freed)

-----------------------------------------------------------------------------
(* The inductive invariant.                                                *)

(* The links alone, whoever is linked.                                     *)
Linked ==
    /\ next \in [Structs -> Structs \cup {Null}]
    /\ prev \in [Structs -> Structs \cup {Null}]
    /\ \A t \in Structs : next[t] = Null <=> prev[t] = Null
    /\ \A t \in Structs : next[t] # Null =>
          /\ next[t] # Idle /\ prev[t] # Idle
          /\ prev[next[t]] = t /\ next[prev[t]] = t
    /\ next[Idle] = Null

(* The links make one ring: a set that is closed under next and holds the  *)
(* head holds every task in the queue.  (LinksOK alone would allow several *)
(* rings.)  Without the head nobody is linked.                             *)
Closed(S) == \A s \in S : next[s] # Null => next[s] \in S

Connected ==
    /\ next[InitTask] # Null =>
          \A S \in SUBSET Structs :
              InitTask \in S /\ Closed(S) => Queued \subseteq S
    /\ next[InitTask] = Null => Queued = {}

(* nr_running is the number of tasks in the ring.                          *)
Counted ==
    nr_running = Cardinality(Runnable)
                 + (IF next[InitTask] = Null THEN 0 ELSE 1)

(* Every set of living processes has one whose parent is outside of it: no *)
(* process descends from itself, since a parent must live to spawn.        *)
Rooted ==
    \A S \in SUBSET Living : S # {} => \E t \in S : Parent[t] \notin S

(* Who has the CPU when: whoever is not where CpuWellUsed wants the CPU to *)
(* be has a request to be rescheduled, unless the machine stops.           *)
Settled ==
    /\ next[current] # Null
    /\ current = InitTask <=> Queued = {}

CpuInv ==
    /\ \A t \in Structs : need_reschedule[t] => t = current
    /\ pc \in {"cycle", "end"} => ~ need_reschedule[current]
    /\ pc = "cycle" => Settled
    /\ pc = "spawn" => /\ current # Idle
                       /\ next[InitTask] # Null
    /\ pc \in {"spawn", "tick", "io", "end"} =>
          Settled \/ need_reschedule[current] \/ nr_running = 0

IInv ==
    /\ TypeOK
    /\ LinksOK
    /\ OnePlace
    /\ ChildrenCounted
    /\ Connected
    /\ Counted
    /\ Rooted
    /\ CpuInv

-----------------------------------------------------------------------------
(* What the two operations on the ring do to it.                           *)

(* The constants are different from each other.                            *)
LEMMA Distinct ==
    /\ InitTask \in Structs /\ Idle \in Structs /\ Null \notin Structs
    /\ InitTask # Idle /\ InitTask \notin Tasks /\ Idle \notin Tasks
    /\ \A t \in Structs : t \in Tasks \/ t = InitTask \/ t = Idle
  BY SchedAssumption DEF Structs

(* activate_task and wake_up_new_task put p into the ring.                 *)
LEMMA EnqueueLinks ==
    ASSUME Linked, NEW p \in Tasks, next[p] = Null, next[InitTask] # Null,
           Enqueue(p)
    PROVE  /\ Linked'
           /\ next'[p] = next[InitTask] /\ next'[InitTask] = p
           /\ \A t \in Structs \ {p, InitTask} : next'[t] = next[t]
           /\ Queued' = Queued \cup {p}
<1> DEFINE h == next[InitTask]
<1>1. /\ h \in Structs /\ h # p /\ p # InitTask /\ p # Idle /\ h # Idle
      /\ p \in Structs /\ prev[h] = InitTask
  BY Distinct DEF Linked, Structs
<1>2. /\ next' = [next EXCEPT ![p] = h, ![InitTask] = p]
      /\ prev' = [prev EXCEPT ![p] = InitTask, ![h] = p]
  BY DEF Enqueue
<1> HIDE DEF h
<1>3. /\ next' \in [Structs -> Structs \cup {Null}]
      /\ prev' \in [Structs -> Structs \cup {Null}]
  BY <1>1, <1>2, Distinct DEF Linked
<1>4. /\ next'[p] = h /\ next'[InitTask] = p
      /\ \A t \in Structs \ {p, InitTask} : next'[t] = next[t]
  BY <1>1, <1>2, Distinct DEF Linked
<1>5. /\ prev'[p] = InitTask /\ prev'[h] = p
      /\ \A t \in Structs \ {p, h} : prev'[t] = prev[t]
  BY <1>1, <1>2, Distinct DEF Linked
<1>6. \A t \in Structs : next'[t] = Null <=> prev'[t] = Null
  BY <1>1, <1>4, <1>5, Distinct DEF Linked, h
<1>7. ASSUME NEW t \in Structs, next'[t] # Null
      PROVE  /\ next'[t] # Idle /\ prev'[t] # Idle
             /\ prev'[next'[t]] = t /\ next'[prev'[t]] = t
  <2>1. CASE t = p
    BY <1>1, <1>4, <1>5, <2>1, Distinct
  <2>2. CASE t = InitTask
    <3>1. CASE h = InitTask
      BY <1>1, <1>4, <1>5, <2>2, <3>1
    <3>2. CASE h # InitTask
      <4>1. prev'[InitTask] = prev[InitTask]
        BY <1>1, <1>5, <3>2, Distinct
      <4>2. /\ prev[InitTask] # Idle /\ next[prev[InitTask]] = InitTask
            /\ prev[InitTask] \in Structs
        BY Distinct DEF Linked
      <4>3. prev[InitTask] # p /\ prev[InitTask] # InitTask
        BY <1>1, <3>2, <4>2, Distinct DEF h
      <4> QED
        BY <1>1, <1>4, <1>5, <2>2, <4>1, <4>2, <4>3
    <3> QED
      BY <3>1, <3>2
  <2>3. CASE t # p /\ t # InitTask
    <3>1. next'[t] = next[t] /\ next[t] # Null
      BY <1>4, <1>7, <2>3
    <3>2. /\ next[t] # Idle /\ prev[t] # Idle /\ next[t] \in Structs
          /\ prev[t] \in Structs
          /\ prev[next[t]] = t /\ next[prev[t]] = t
      BY <3>1 DEF Linked
    <3>3. next[t] # h /\ next[t] # p /\ prev[t] # p
      <4>1. next[t] # h
        BY <1>1, <2>3, <3>2
      <4>2. next[t] # p
        BY <2>3, <3>2, Distinct, <1>1 DEF Linked
      <4>3. prev[t] # p
        BY <3>2, Distinct
      <4> QED
        BY <4>1, <4>2, <4>3
    <3>4. prev'[next'[t]] = t
      BY <1>5, <3>1, <3>2, <3>3
    <3>5. CASE t = h
      BY <1>1, <1>4, <1>5, <3>1, <3>2, <3>4, <3>5
    <3>6. CASE t # h
      <4>1. prev'[t] = prev[t]
        BY <1>5, <2>3, <3>6
      <4>2. prev[t] # InitTask
        BY <3>2, <3>6 DEF h
      <4> QED
        BY <1>4, <3>1, <3>2, <3>3, <3>4, <4>1, <4>2
    <3> QED
      BY <3>5, <3>6
  <2> QED
    BY <2>1, <2>2, <2>3
<1>8. next'[Idle] = Null
  BY <1>1, <1>4, Distinct DEF Linked
<1>9. Queued' = Queued \cup {p}
  <2>1. \A t \in Tasks : t # p => next'[t] = next[t]
    BY <1>4, Distinct DEF Structs
  <2>2. next'[p] # Null
    BY <1>1, <1>4, Distinct
  <2> QED
    BY <2>1, <2>2 DEF Queued
<1> QED
  BY <1>3, <1>4, <1>6, <1>7, <1>8, <1>9 DEF Linked, h

(* The ring stays one ring.                                                *)
LEMMA EnqueueConnected ==
    ASSUME Linked, Connected, NEW p \in Tasks, next[p] = Null,
           next[InitTask] # Null, Enqueue(p)
    PROVE  Connected'
<1>1. /\ Linked'
      /\ next'[p] = next[InitTask] /\ next'[InitTask] = p
      /\ \A t \in Structs \ {p, InitTask} : next'[t] = next[t]
      /\ Queued' = Queued \cup {p}
  BY EnqueueLinks
<1>2. next'[InitTask] # Null
  BY <1>1, Distinct DEF Structs
<1>3. ASSUME NEW S \in SUBSET Structs, InitTask \in S, Closed(S)'
      PROVE  Queued' \subseteq S
  <2>1. p \in S /\ next[InitTask] \in S
    BY <1>1, <1>2, <1>3 DEF Closed
  <2>2. Closed(S \ {p})
    <3> SUFFICES ASSUME NEW s \in S \ {p}, next[s] # Null
                 PROVE  next[s] \in S \ {p}
      BY DEF Closed
    <3>1. next[s] # p
      BY Distinct DEF Linked
    <3>2. CASE s = InitTask
      BY <2>1, <3>1, <3>2
    <3>3. CASE s # InitTask
      BY <1>1, <1>3, <3>1, <3>3 DEF Closed
    <3> QED
      BY <3>2, <3>3
  <2>3. Queued \subseteq S \ {p}
    BY <1>3, <2>2, Distinct DEF Connected
  <2> QED
    BY <1>1, <2>1, <2>3
<1> QED
  BY <1>2, <1>3 DEF Connected

(* deactivate_task takes p out of the ring.                                *)
LEMMA DequeueLinks ==
    ASSUME Linked, NEW p \in Structs, next[p] # Null, Dequeue(p)
    PROVE  /\ Linked'
           /\ next'[p] = Null
           /\ \A t \in Structs \ {p, prev[p]} : next'[t] = next[t]
           /\ prev[p] # p => next'[prev[p]] = next[p]
           /\ Queued' = Queued \ {p}
<1> DEFINE a == prev[p]
           b == next[p]
<1>1. /\ a \in Structs /\ b \in Structs /\ a # Idle /\ b # Idle
      /\ next[a] = p /\ prev[b] = p /\ p # Idle
      /\ a = p <=> b = p
  BY DEF Linked
<1>2. /\ next' = [next EXCEPT ![a] = b, ![p] = Null]
      /\ prev' = [prev EXCEPT ![b] = a, ![p] = Null]
  BY DEF Dequeue
<1>3. /\ a = prev[p] /\ b = next[p]
  OBVIOUS
<1> HIDE DEF a, b
<1>4. /\ next' \in [Structs -> Structs \cup {Null}]
      /\ prev' \in [Structs -> Structs \cup {Null}]
  BY <1>1, <1>2 DEF Linked
<1>5. /\ next'[p] = Null /\ prev'[p] = Null
      /\ \A t \in Structs \ {p, a} : next'[t] = next[t]
      /\ \A t \in Structs \ {p, b} : prev'[t] = prev[t]
      /\ a # p => next'[a] = b /\ prev'[b] = a
  BY <1>1, <1>2 DEF Linked
<1>6. \A t \in Structs : next'[t] = Null <=> prev'[t] = Null
  BY <1>1, <1>3, <1>5, Distinct DEF Linked
<1>7. ASSUME NEW t \in Structs, next'[t] # Null
      PROVE  /\ next'[t] # Idle /\ prev'[t] # Idle
             /\ prev'[next'[t]] = t /\ next'[prev'[t]] = t
  <2>1. t # p
    BY <1>5, <1>7
  <2>2. /\ next[t] # Null
    BY <1>1, <1>5, <1>7, <2>1, Distinct
  <2>3. /\ next[t] \in Structs /\ prev[t] \in Structs
        /\ next[t] # Idle /\ prev[t] # Idle
        /\ prev[next[t]] = t /\ next[prev[t]] = t
    BY <2>2 DEF Linked
  <2>4. next'[t] # Idle /\ prev'[next'[t]] = t
    <3>1. CASE t = a
      BY <1>1, <1>5, <2>1, <3>1
    <3>2. CASE t # a
      <4>1. next'[t] = next[t]
        BY <1>5, <2>1, <3>2
      <4>2. next[t] # p /\ next[t] # b
        BY <1>1, <1>3, <2>1, <2>3, <3>2
      <4> QED
        BY <1>5, <2>3, <4>1, <4>2
    <3> QED
      BY <3>1, <3>2
  <2>5. prev'[t] # Idle /\ next'[prev'[t]] = t
    <3>1. CASE t = b
      BY <1>1, <1>5, <2>1, <3>1
    <3>2. CASE t # b
      <4>1. prev'[t] = prev[t]
        BY <1>5, <2>1, <3>2
      <4>2. prev[t] # p /\ prev[t] # a
        BY <1>1, <1>3, <2>1, <2>3, <3>2
      <4> QED
        BY <1>5, <2>3, <4>1, <4>2
    <3> QED
      BY <3>1, <3>2
  <2> QED
    BY <2>4, <2>5
<1>8. next'[Idle] = Null
  BY <1>1, <1>5, Distinct DEF Linked
<1>9. Queued' = Queued \ {p}
  <2>1. \A t \in Tasks \ {p} : next'[t] = Null <=> next[t] = Null
    BY <1>1, <1>5, Distinct DEF Structs
  <2> QED
    BY <1>5, <2>1 DEF Queued
<1> QED
  BY <1>3, <1>4, <1>5, <1>6, <1>7, <1>8, <1>9 DEF Linked

(* The ring without p is one ring, if p is not its head.                   *)
LEMMA DequeueConnected ==
    ASSUME Linked, Connected, NEW p \in Tasks, next[p] # Null, Dequeue(p)
    PROVE  Connected' /\ next'[InitTask] # Null
<1>1. /\ Linked'
      /\ next'[p] = Null
      /\ \A t \in Structs \ {p, prev[p]} : next'[t] = next[t]
      /\ prev[p] # p => next'[prev[p]] = next[p]
      /\ Queued' = Queued \ {p}
  BY DequeueLinks DEF Structs
<1>2. /\ p \in Structs /\ p # InitTask /\ p \in Queued
      /\ prev[p] \in Structs /\ next[p] \in Structs
      /\ next[prev[p]] = p
      /\ prev[p] = p <=> next[p] = p
  BY Distinct DEF Linked, Queued, Structs
<1>3. next[InitTask] # Null
  BY <1>2 DEF Connected
<1>4. next'[InitTask] # Null
  BY <1>1, <1>2, <1>3, Distinct
<1>5. ASSUME NEW S \in SUBSET Structs, InitTask \in S, Closed(S)'
      PROVE  Queued' \subseteq S
  <2>1. CASE prev[p] \in S \ {p}
    <3>1. next[p] \in S
      <4>1. next'[prev[p]] = next[p] /\ next[p] # Null
        BY <1>1, <1>2, <2>1, Distinct
      <4> QED
        BY <2>1, <1>5, <4>1 DEF Closed
    <3>2. Closed(S \cup {p})
      <4> SUFFICES ASSUME NEW s \in S \cup {p}, next[s] # Null
                   PROVE  next[s] \in S \cup {p}
        BY DEF Closed
      <4>1. CASE s = p
        BY <3>1, <4>1
      <4>2. CASE s = prev[p]
        BY <1>2, <4>2
      <4>3. CASE s # p /\ s # prev[p]
        BY <1>1, <1>5, <4>3 DEF Closed
      <4> QED
        BY <4>1, <4>2, <4>3
    <3>3. Queued \subseteq S \cup {p}
      BY <1>2, <1>3, <1>5, <3>2 DEF Connected
    <3> QED
      BY <1>1, <3>3
  <2>2. CASE prev[p] \notin S \ {p}
    <3>1. Closed(S \ {p})
      <4> SUFFICES ASSUME NEW s \in S \ {p}, next[s] # Null
                   PROVE  next[s] \in S \ {p}
        BY DEF Closed
      <4>1. s # prev[p] /\ next[s] # p
        BY <2>2 DEF Linked
      <4> QED
        BY <1>1, <1>5, <4>1 DEF Closed
    <3>2. Queued \subseteq S \ {p}
      BY <1>2, <1>3, <1>5, <3>1 DEF Connected
    <3> QED
      BY <1>2, <3>2
  <2> QED
    BY <2>1, <2>2
<1> QED
  BY <1>4, <1>5 DEF Connected

(* When init is alone in the ring it is linked to itself.                  *)
LEMMA InitAlone ==
    ASSUME Linked, Connected, next[InitTask] # Null
    PROVE  next[InitTask] = InitTask <=> Queued = {}
<1>1. next[InitTask] \in Queued \cup {InitTask}
  <2>1. next[InitTask] \in Structs \ {Idle} /\ prev[next[InitTask]] # Null
    BY Distinct DEF Linked
  <2> QED
    BY <2>1, Distinct DEF Linked, Queued
<1>2. ASSUME next[InitTask] = InitTask
      PROVE  Queued = {}
  <2>1. Closed({InitTask}) /\ {InitTask} \in SUBSET Structs
    BY <1>2, Distinct DEF Closed
  <2>2. Queued \subseteq {InitTask}
    BY <2>1 DEF Connected
  <2> QED
    BY <2>2, Distinct DEF Queued
<1> QED
  BY <1>1, <1>2

(* Init leaves a ring in which it is alone: nobody is linked any more.     *)
LEMMA DequeueInit ==
    ASSUME Linked, next[InitTask] # Null, Queued = {}, Dequeue(InitTask)
    PROVE  Linked' /\ Connected' /\ Queued' = {} /\ next'[InitTask] = Null
<1>1. Linked' /\ next'[InitTask] = Null /\ Queued' = Queued \ {InitTask}
  BY DequeueLinks, Distinct
<1> QED
  BY <1>1 DEF Connected

-----------------------------------------------------------------------------
(* The wait list, and the sets that are counted.                           *)

Entries(s) == {s[i] : i \in DOMAIN s}

NoTwice(s) == \A i, j \in DOMAIN s : s[i] = s[j] => i = j

(* A task that goes to sleep is added to the wait list, once.              *)
LEMMA AppendEntries ==
    ASSUME NEW s \in Seq(Tasks), NEW t \in Tasks, t \notin Entries(s),
           NoTwice(s)
    PROVE  /\ Append(s, t) \in Seq(Tasks)
           /\ Entries(Append(s, t)) = Entries(s) \cup {t}
           /\ NoTwice(Append(s, t))
<1> DEFINE r == Append(s, t)
<1>1. /\ r \in Seq(Tasks) /\ Len(s) \in Nat
      /\ DOMAIN s = 1 .. Len(s) /\ DOMAIN r = 1 .. Len(s) + 1
      /\ \A i \in 1 .. Len(s) : r[i] = s[i]
      /\ r[Len(s) + 1] = t
  BY AppendProperties, LenProperties
<1> HIDE DEF r
<1>2. DOMAIN r = DOMAIN s \cup {Len(s) + 1} /\ Len(s) + 1 \notin DOMAIN s
  BY <1>1
<1>3. Entries(r) = Entries(s) \cup {t}
  BY <1>1, <1>2 DEF Entries
<1>4. ASSUME NEW i \in DOMAIN r, NEW j \in DOMAIN r, r[i] = r[j]
      PROVE  i = j
  BY <1>1, <1>2, <1>4 DEF Entries, NoTwice
<1> QED
  BY <1>1, <1>3, <1>4 DEF NoTwice, r

(* The task that is woken up leaves the wait list.                         *)
LEMMA TailEntries ==
    ASSUME NEW s \in Seq(Tasks), s # << >>, NoTwice(s)
    PROVE  /\ Tail(s) \in Seq(Tasks)
           /\ Head(s) \in Entries(s)
           /\ Entries(Tail(s)) = Entries(s) \ {Head(s)}
           /\ NoTwice(Tail(s))
<1> DEFINE r == Tail(s)
<1>1. /\ r \in Seq(Tasks) /\ Len(s) \in Nat \ {0} /\ Head(s) = s[1]
      /\ DOMAIN s = 1 .. Len(s) /\ DOMAIN r = 1 .. Len(s) - 1
      /\ \A i \in DOMAIN r : r[i] = s[i + 1]
  BY HeadTailProperties, LenProperties, EmptySeq
<1> HIDE DEF r
<1>2. \A i \in DOMAIN s \ {1} : i - 1 \in DOMAIN r /\ s[i] = r[i - 1]
  BY <1>1
<1>3. \A i \in DOMAIN r : i + 1 \in DOMAIN s \ {1}
  BY <1>1
<1>4. 1 \in DOMAIN s
  BY <1>1
<1>5. ASSUME NEW i \in DOMAIN r
      PROVE  r[i] \in Entries(s) \ {Head(s)}
  BY <1>1, <1>3, <1>4 DEF Entries, NoTwice
<1>6. ASSUME NEW e \in Entries(s) \ {Head(s)}
      PROVE  e \in Entries(r)
  BY <1>1, <1>2 DEF Entries
<1>7. Entries(r) = Entries(s) \ {Head(s)}
  BY <1>5, <1>6 DEF Entries
<1>8. ASSUME NEW i \in DOMAIN r, NEW j \in DOMAIN r, r[i] = r[j]
      PROVE  i = j
  <2>1. i + 1 = j + 1
    BY <1>1, <1>3, <1>8 DEF NoTwice
  <2> QED
    BY <2>1, <1>1
<1> QED
  BY <1>1, <1>4, <1>7, <1>8 DEF Entries, NoTwice, r

(* The set of the living children of p.                                    *)
Kids(p) == {t \in Living : Parent[t] = p}

(* Any set of processes can be counted.                                    *)
LEMMA CountTasks ==
    ASSUME NEW S \in SUBSET Tasks
    PROVE  /\ IsFiniteSet(S) /\ Cardinality(S) \in Nat
           /\ Cardinality(S) = 0 <=> S = {}
           /\ \A t : t \notin S => Cardinality(S \cup {t}) = Cardinality(S) + 1
           /\ \A t \in S : Cardinality(S \ {t}) = Cardinality(S) - 1
<1>1. IsFiniteSet(S) /\ Cardinality(S) \in Nat
  BY SchedAssumption, FS_Subset, FS_CardinalityType
<1> QED
  BY <1>1, FS_EmptySet, FS_AddElement, FS_RemoveElement

(* The parts of the invariant in terms of the sets above.                  *)
LEMMA Facts ==
    ASSUME IInv
    PROVE  /\ Linked
           /\ Queued = Runnable /\ Runnable \subseteq Living
           /\ Asleep = Entries(intwaitlist) /\ NoTwice(intwaitlist)
           /\ \A p \in Tasks \cup {InitTask} :
                 children[p] = Cardinality(Kids(p))
           /\ nr_running = Cardinality(Runnable)
                            + (IF next[InitTask] = Null THEN 0 ELSE 1)
<1>1. Linked
  BY DEF IInv, TypeOK, LinksOK, Linked
<1>2. Queued = Runnable /\ Runnable \subseteq Living
  BY DEF IInv, LinksOK, Runnable, Living
<1>3. Asleep = Entries(intwaitlist) /\ NoTwice(intwaitlist)
  BY DEF IInv, OnePlace, Asleep, Entries, NoTwice
<1>4. \A p \in Tasks \cup {InitTask} : children[p] = Cardinality(Kids(p))
  BY DEF IInv, ChildrenCounted, Kids, Living
<1> QED
  BY <1>1, <1>2, <1>3, <1>4 DEF IInv, Counted

-----------------------------------------------------------------------------
(* The initial state, and the steps one by one.                            *)

(* init is alone in the ring and all processes wait to be spawned.         *)
LEMMA InitInv == Init => IInv
<1> SUFFICES ASSUME Init PROVE IInv
  OBVIOUS
<1>1. TypeOK
  BY Distinct, EmptySeq DEF Init, TypeOK, Structs
<1>2. /\ next = [t \in Structs |-> IF t = InitTask THEN InitTask ELSE Null]
      /\ prev = next /\ unborn = Tasks
  BY DEF Init
<1>3. Queued = {} /\ Runnable = {} /\ Living = {}
  BY <1>2, Distinct DEF Queued, Runnable, Living, Structs
<1>4. next[InitTask] = InitTask /\ next[Idle] = Null
  BY <1>2, Distinct
<1>5. \A t \in Structs : next[t] # Null => t = InitTask
  BY <1>2
<1>6. LinksOK
  BY <1>2, <1>3, <1>4, <1>5, Distinct DEF LinksOK
<1>7. OnePlace
  BY Distinct DEF Init, OnePlace, Asleep
<1>8. ChildrenCounted
  <2>1. \A p \in Tasks \cup {InitTask} : children[p] = 0
    BY DEF Init, Structs
  <2>2. \A p : {t \in Tasks \ (unborn \cup freed) : Parent[t] = p} = {}
    BY <1>3 DEF Living
  <2> QED
    BY <1>3, <2>1, <2>2, FS_EmptySet DEF ChildrenCounted, Living
<1>9. Connected
  BY <1>3, <1>4, Distinct DEF Connected
<1>10. Counted
  BY <1>3, <1>4, FS_EmptySet, Distinct DEF Counted, Init
<1>11. Rooted
  BY <1>3 DEF Rooted
<1>12. CpuInv
  BY <1>3, <1>4, Distinct DEF Init, CpuInv, Settled
<1> QED
  BY <1>1, <1>6, <1>7, <1>8, <1>9, <1>10, <1>11, <1>12 DEF IInv

(* The steps that touch neither the ring, the wait list nor the families.  *)
LEMMA StillInv ==
    ASSUME IInv, UNCHANGED <<ring, intwaitlist, family>>, CpuInv',
           current' \in Structs \ (unborn \cup freed),
           pc' \in {"cycle", "spawn", "tick", "io", "wake", "resched", "end",
                    "done", "segv"},
           need_reschedule' \in [Structs -> BOOLEAN],
           intTimer' \in BOOLEAN, kill' \in [Structs -> BOOLEAN]
    PROVE  IInv'
<1> USE DEF IInv, ring, family
<1>1. Queued' = Queued /\ Runnable' = Runnable /\ Living' = Living
  BY DEF Queued, Runnable, Living, Asleep
<1>2. TypeOK'
  BY DEF TypeOK
<1>3. LinksOK'
  BY <1>1 DEF LinksOK
<1>4. OnePlace'
  BY DEF OnePlace, Asleep
<1>5. ChildrenCounted'
  BY DEF ChildrenCounted
<1>6. Connected'
  BY <1>1 DEF Connected, Closed
<1>7. Counted'
  BY <1>1 DEF Counted
<1>8. Rooted'
  BY <1>1 DEF Rooted
<1> QED
  BY <1>2, <1>3, <1>4, <1>5, <1>6, <1>7, <1>8

(* Where the CPU is while a task is linked, the head of the ring is too.   *)
LEMMA HeadLinked ==
    ASSUME IInv, NEW t \in Structs, next[t] # Null
    PROVE  next[InitTask] # Null /\ t # Idle /\ t \in Queued \cup {InitTask}
  BY Facts, Distinct DEF IInv, Connected, Linked, Queued, Structs

(* schedule() settles who has the CPU, and no request is left over.        *)
LEMMA ScheduleSettles ==
    ASSUME IInv, next[InitTask] # Null, NEW chosen \in Structs,
           Schedule(chosen), UNCHANGED <<ring, unborn, freed>>
    PROVE  /\ current' = chosen /\ chosen \notin unborn \cup freed
           /\ Settled'
           /\ need_reschedule' \in [Structs -> BOOLEAN]
           /\ \A t \in Structs : ~ need_reschedule'[t]
<1>1. /\ Linked /\ Queued = Runnable /\ Runnable \subseteq Tasks
      /\ nr_running = Cardinality(Runnable) + 1
  BY Facts DEF Runnable
<1>2. /\ Cardinality(Runnable) \in Nat
      /\ Cardinality(Runnable) = 0 <=> Runnable = {}
  BY <1>1, CountTasks
<1>3. /\ chosen = InitTask <=> Queued = {}
      /\ chosen \in Queued \cup {InitTask}
  <2>1. CASE nr_running = 1 /\ chosen = InitTask
    BY <1>1, <1>2, <2>1
  <2>2. CASE nr_running = 2 /\ chosen = next[InitTask]
    <3>1. Queued # {}
      BY <1>1, <1>2, <2>2
    <3>2. next[InitTask] # InitTask
      BY <1>1, <3>1, InitAlone DEF IInv
    <3>3. next[chosen] # Null
      BY <1>1, <2>2, Distinct DEF Linked
    <3> QED
      BY <2>2, <3>1, <3>2, <3>3, HeadLinked
  <2>3. CASE nr_running > 2 /\ chosen \in Queued
    BY <1>1, <2>3, Distinct
  <2> QED
    BY <2>1, <2>2, <2>3 DEF Schedule
<1>4. chosen \notin unborn \cup freed
  BY <1>1, <1>3, Distinct DEF Runnable, IInv, TypeOK
<1>5. next[chosen] # Null
  BY <1>3 DEF Queued
<1>6. /\ current' = chosen /\ next' = next /\ Queued' = Queued
  BY DEF Schedule, ring, Queued
<1>7. /\ need_reschedule' \in [Structs -> BOOLEAN]
      /\ \A t \in Structs : ~ need_reschedule'[t]
  BY DEF Schedule, IInv, TypeOK, CpuInv
<1> QED
  BY <1>3, <1>4, <1>5, <1>6, <1>7 DEF Settled

(* taskEnd and killtask of a process: it is in the ring, so the links of   *)
(* its neighbours are there to be changed, and it has no child left that   *)
(* would read its freed thread_info.                                       *)
LEMMA EndProcess ==
    ASSUME IInv, NEW due \in BOOLEAN, EndTask(due), current # InitTask
    PROVE  IInv'
<1>1. PICK c \in Structs : c = current
  BY DEF IInv, TypeOK
<1> DEFINE par == Parent[c]
<1>2. /\ Linked /\ Queued = Runnable /\ Runnable \subseteq Living
      /\ nr_running = Cardinality(Runnable) + 1
      /\ next[InitTask] # Null /\ next[c] # Null
      /\ c \in Tasks /\ c \in Runnable
  <2>1. next[c] # Null
    BY <1>1 DEF EndTask, IInv, CpuInv, Settled
  <2>2. next[InitTask] # Null /\ c \in Queued
    BY <1>1, <2>1, HeadLinked
  <2> QED
    BY <2>1, <2>2, Facts DEF Queued
<1>3. /\ c \notin unborn \cup freed \cup Asleep /\ unborn \cap freed = {}
      /\ c # InitTask /\ c # Idle /\ c \in Structs /\ par \in Tasks \cup {InitTask}
  BY <1>2, Distinct, SchedAssumption
     DEF Runnable, Structs, IInv, OnePlace
<1>4. /\ Dequeue(c) /\ current' = Idle /\ pc' = "tick"
      /\ freed' = freed \cup {c} /\ unborn' = unborn
      /\ intwaitlist' = intwaitlist /\ intTimer' = intTimer
      /\ kill' = [kill EXCEPT ![c] = TRUE]
      /\ children' = [children EXCEPT ![par] = @ - 1]
      /\ need_reschedule' = [need_reschedule EXCEPT ![Idle] = nr_running' # 0]
      /\ nr_running' = nr_running - 1
      /\ children[c] = 0
  BY <1>1, <1>2, <1>3 DEF EndTask, Dequeue
<1>5. /\ Linked' /\ Connected' /\ next'[InitTask] # Null
      /\ Queued' = Queued \ {c}
  BY <1>2, <1>3, <1>4, DequeueLinks, DequeueConnected DEF IInv
<1> HIDE DEF par
<1>6. /\ Asleep' = Asleep
      /\ Runnable' = Runnable \ {c}
      /\ Living' = Living \ {c}
  BY <1>3, <1>4 DEF Asleep, Runnable, Living
<1>7. /\ Kids(c) = {} /\ c \in Kids(par) /\ par # c
      /\ Kids(par)' = Kids(par) \ {c}
      /\ \A p \in Tasks \cup {InitTask} : p # par => Kids(p)' = Kids(p)
  <2>1. children[c] = Cardinality(Kids(c)) /\ Kids(c) \in SUBSET Tasks
    BY <1>2, Facts DEF Kids, Living
  <2>2. Kids(c) = {}
    BY <1>4, <2>1, CountTasks
  <2>3. c \in Kids(par)
    BY <1>2 DEF Kids, par
  <2> QED
    BY <1>6, <2>2, <2>3 DEF Kids
<1>8. \A p \in Tasks \cup {InitTask} :
         children'[p] = Cardinality(Kids(p)') /\ children'[p] \in Nat
  <2> SUFFICES ASSUME NEW p \in Tasks \cup {InitTask}
               PROVE  children'[p] = Cardinality(Kids(p)') /\ children'[p] \in Nat
    OBVIOUS
  <2>1. Kids(p) \in SUBSET Tasks /\ children[p] = Cardinality(Kids(p))
        /\ Kids(p)' \in SUBSET Tasks
    BY Facts, <1>6 DEF Kids, Living
  <2>2. p \in Structs /\ par \in Structs /\ children \in [Structs -> Nat]
    BY <1>3 DEF IInv, TypeOK, Structs
  <2>3. CASE p = par
    <3>1. children'[p] = children[p] - 1
      BY <1>4, <2>2, <2>3
    <3>2. Cardinality(Kids(par) \ {c}) = Cardinality(Kids(par)) - 1
      BY <1>7, <2>1, <2>3, CountTasks
    <3>3. Cardinality(Kids(p)') \in Nat
      BY <2>1, CountTasks
    <3> QED
      BY <1>7, <2>1, <2>3, <3>1, <3>2, <3>3
  <2>4. CASE p # par
    BY <1>4, <1>7, <2>1, <2>2, <2>4, CountTasks
  <2> QED
    BY <2>3, <2>4
<1>9. Counted' /\ nr_running' # 0 /\ nr_running' \in Nat
  <2>1. /\ Cardinality(Runnable \ {c}) = Cardinality(Runnable) - 1
        /\ Cardinality(Runnable \ {c}) \in Nat /\ Cardinality(Runnable) \in Nat
    BY <1>2, CountTasks DEF Runnable
  <2>2. nr_running' = Cardinality(Runnable') + 1
    BY <1>2, <1>4, <1>6, <2>1
  <2> QED
    BY <1>5, <1>6, <2>1, <2>2 DEF Counted
<1>10. TypeOK'
  <2>1. children' \in [Structs -> Nat]
    <3>1. /\ children \in [Structs -> Nat] /\ par # Idle
          /\ par \in Structs /\ Idle \in Structs
      BY <1>3, Distinct DEF IInv, TypeOK, Structs
    <3>2. /\ DOMAIN children' = Structs /\ children'[Idle] \in Nat
          /\ children' = [t \in Structs |-> children'[t]]
      BY <1>4, <3>1
    <3>3. \A t \in Structs : children'[t] \in Nat
      BY <1>8, <3>2 DEF Structs
    <3> QED
      BY <3>2, <3>3
  <2>2. next' \in [Structs -> Structs \cup {Null}]
        /\ prev' \in [Structs -> Structs \cup {Null}]
    BY <1>5 DEF Linked
  <2> QED
    BY <1>2, <1>4, <1>9, <2>1, <2>2, Distinct DEF IInv, TypeOK
<1>11. LinksOK'
  BY <1>2, <1>5, <1>6 DEF LinksOK, Linked
<1>12. OnePlace'
  BY <1>3, <1>4, <1>6, Distinct DEF IInv, OnePlace, TypeOK
<1>13. ChildrenCounted'
  <2>1. ASSUME NEW t \in Living', Parent[t] # InitTask
        PROVE  Parent[t] \notin unborn' \cup freed'
    <3>1. t \in Living /\ Parent[t] \notin unborn \cup freed
      BY <1>6, <2>1 DEF IInv, ChildrenCounted, Living
    <3>2. Parent[t] # c
      BY <1>7, <3>1 DEF Kids
    <3> QED
      BY <1>4, <3>1, <3>2
  <2> QED
    BY <1>8, <2>1 DEF ChildrenCounted, Kids, Living
<1>14. Rooted'
  BY <1>6 DEF IInv, Rooted
<1>15. CpuInv'
  <2>1. \A t \in Structs : ~ need_reschedule[t]
    BY DEF EndTask, IInv, CpuInv
  <2>2. /\ need_reschedule'[Idle]
        /\ \A t \in Structs : need_reschedule'[t] => t = Idle
    BY <1>4, <1>9, <2>1, Distinct DEF IInv, TypeOK
  <2> QED
    BY <1>4, <2>2 DEF CpuInv
<1> QED
  BY <1>5, <1>9, <1>10, <1>11, <1>12, <1>13, <1>14, <1>15 DEF IInv

(* taskEnd of init: it has no child, so nobody is alive at all (Rooted),   *)
(* and the ring ends with it.                                              *)
LEMMA EndInit ==
    ASSUME IInv, NEW due \in BOOLEAN, EndTask(due), current = InitTask
    PROVE  IInv'
<1>1. /\ Linked /\ Queued = Runnable /\ next[InitTask] # Null
      /\ nr_running = Cardinality(Runnable) + 1
      /\ Queued = {}
      /\ \A t \in Structs : ~ need_reschedule[t]
  BY Facts DEF EndTask, IInv, CpuInv, Settled
<1>2. /\ Dequeue(InitTask) /\ current' = Idle /\ pc' = "tick"
      /\ freed' = freed /\ unborn' = unborn /\ children' = children
      /\ intwaitlist' = intwaitlist /\ intTimer' = intTimer
      /\ kill' = [kill EXCEPT ![InitTask] = TRUE]
      /\ need_reschedule' = [need_reschedule EXCEPT ![Idle] = nr_running' # 0]
      /\ nr_running' = nr_running - 1
      /\ children[InitTask] = 0
  BY Distinct DEF EndTask, Dequeue
<1>3. Linked' /\ Connected' /\ Queued' = {} /\ next'[InitTask] = Null
  BY <1>1, <1>2, DequeueInit
<1>4. nr_running' = 0 /\ Cardinality(Runnable) = 0 /\ Runnable' = Runnable
  <2>1. Cardinality(Runnable) = 0
    BY <1>1, FS_EmptySet
  <2> QED
    BY <1>1, <1>2, <2>1 DEF Runnable, Asleep
<1>5. Living = {}
  <2> SUFFICES ASSUME Living # {} PROVE FALSE
    OBVIOUS
  <2>1. PICK t \in Living : Parent[t] \notin Living
    BY DEF IInv, Rooted
  <2>2. Kids(InitTask) = {}
    <3>1. /\ children[InitTask] = Cardinality(Kids(InitTask))
          /\ Kids(InitTask) \in SUBSET Tasks
      BY Facts DEF Kids, Living
    <3> QED
      BY <1>2, <3>1, CountTasks
  <2>3. Parent[t] # InitTask /\ Parent[t] \in Tasks
    BY <2>2, SchedAssumption DEF Kids, Living
  <2>4. Parent[t] \notin unborn \cup freed
    BY <2>3 DEF IInv, ChildrenCounted, Living
  <2> QED
    BY <2>1, <2>3, <2>4 DEF Living
<1>6. TypeOK'
  <2>1. /\ next' \in [Structs -> Structs \cup {Null}]
        /\ prev' \in [Structs -> Structs \cup {Null}]
    BY <1>3 DEF Linked
  <2>2. /\ need_reschedule' \in [Structs -> BOOLEAN]
        /\ kill' \in [Structs -> BOOLEAN]
    BY <1>2 DEF IInv, TypeOK
  <2> QED
    BY <1>2, <1>4, <2>1, <2>2, Distinct DEF IInv, TypeOK
<1>7. LinksOK'
  <2>1. Runnable' = {}
    BY <1>1, <1>4
  <2> QED
    BY <1>2, <1>3, <1>4, <1>5, <2>1 DEF LinksOK, Linked, Living
<1>8. OnePlace'
  BY <1>2, Distinct DEF IInv, OnePlace, TypeOK, Asleep
<1>9. ChildrenCounted'
  BY <1>2 DEF IInv, ChildrenCounted
<1>10. Counted'
  BY <1>3, <1>4 DEF Counted
<1>11. Rooted'
  BY <1>2 DEF IInv, Rooted, Living
<1>12. CpuInv'
  BY <1>1, <1>2, <1>4, Distinct DEF IInv, CpuInv, TypeOK
<1> QED
  BY <1>3, <1>6, <1>7, <1>8, <1>9, <1>10, <1>11, <1>12 DEF IInv

(* cycle() of a task that stays in the ring.                               *)
LEMMA WorkInv ==
    ASSUME IInv, NEW due \in BOOLEAN, Work(due)
    PROVE  IInv'
<1>1. /\ UNCHANGED <<ring, intwaitlist, family, current, need_reschedule>>
      /\ pc = "cycle" /\ pc' = "spawn" /\ intTimer' = TRUE
  BY DEF Work, Keep, ring, family
<1>2. kill' \in [Structs -> BOOLEAN]
  <2>1. kill[current] \/ Ending(due) \in BOOLEAN
    BY DEF Ending
  <2>2. kill' = [kill EXCEPT ![current] = @ \/ Ending(due)]
    BY DEF Work, Keep
  <2> HIDE DEF Ending
  <2> QED
    BY <2>1, <2>2 DEF IInv, TypeOK
<1>3. Settled /\ current \in Structs
  BY <1>1 DEF IInv, CpuInv, TypeOK
<1>4. current # Idle /\ next[InitTask] # Null
  BY <1>3, HeadLinked DEF Settled
<1>5. CpuInv'
  BY <1>1, <1>3, <1>4 DEF IInv, CpuInv, Settled, ring, Queued
<1> QED
  BY <1>1, <1>2, <1>3, <1>5, StillInv DEF IInv, TypeOK, OnePlace

(* cycle() of an interactive task whose time has come: it moves from the   *)
(* ring to the wait list.                                                  *)
LEMMA SleepInv ==
    ASSUME IInv, NEW due \in BOOLEAN, Sleep(due)
    PROVE  IInv'
<1>1. PICK c \in Structs : c = current
  BY DEF IInv, TypeOK
<1>2. /\ pc = "cycle" /\ pc' = "spawn" /\ current' = c /\ intTimer' = TRUE
      /\ unborn' = unborn /\ freed' = freed /\ children' = children
      /\ c \in Tasks
      /\ intwaitlist' = Append(intwaitlist, c)
      /\ Dequeue(c) /\ nr_running' = nr_running - 1
      /\ need_reschedule' = [need_reschedule EXCEPT ![c] = TRUE]
  BY <1>1, SchedAssumption DEF Sleep, Keep, Dequeue
<1>3. kill' \in [Structs -> BOOLEAN]
  <2>1. kill[current] \/ Ending(due) \in BOOLEAN
    BY DEF Ending
  <2>2. kill' = [kill EXCEPT ![current] = @ \/ Ending(due)]
    BY DEF Sleep, Keep
  <2> HIDE DEF Ending
  <2> QED
    BY <2>1, <2>2 DEF IInv, TypeOK
<1>4. /\ Linked /\ Queued = Runnable
      /\ nr_running = Cardinality(Runnable) + 1
      /\ next[InitTask] # Null /\ next[c] # Null /\ c \in Runnable
      /\ Asleep = Entries(intwaitlist) /\ NoTwice(intwaitlist)
  <2>1. next[c] # Null
    BY <1>1, <1>2 DEF IInv, CpuInv, Settled
  <2> QED
    BY <1>2, <2>1, HeadLinked, Facts, Distinct DEF Queued
<1>5. /\ c \notin unborn \cup freed \cup Asleep
      /\ c # InitTask /\ c # Idle
  BY <1>2, <1>4, Distinct DEF Runnable
<1>6. /\ Linked' /\ Connected' /\ next'[InitTask] # Null
      /\ Queued' = Queued \ {c}
  BY <1>2, <1>4, DequeueLinks, DequeueConnected DEF IInv
<1>7. /\ intwaitlist' \in Seq(Tasks) /\ NoTwice(intwaitlist')
      /\ Asleep' = Asleep \cup {c}
  <2>1. intwaitlist \in Seq(Tasks) /\ c \notin Entries(intwaitlist)
    BY <1>4, <1>5 DEF IInv, TypeOK
  <2>2. Asleep' = Entries(intwaitlist')
    BY DEF Asleep, Entries
  <2> QED
    BY <1>2, <1>4, <2>1, <2>2, AppendEntries
<1>8. Runnable' = Runnable \ {c} /\ Living' = Living
  BY <1>2, <1>7 DEF Runnable, Living
<1>9. Counted' /\ nr_running' \in Nat
  <2>1. /\ Cardinality(Runnable \ {c}) = Cardinality(Runnable) - 1
        /\ Cardinality(Runnable \ {c}) \in Nat /\ Cardinality(Runnable) \in Nat
    BY <1>4, CountTasks DEF Runnable
  <2> QED
    BY <1>2, <1>4, <1>6, <1>8, <2>1 DEF Counted
<1>10. TypeOK'
  <2>1. /\ next' \in [Structs -> Structs \cup {Null}]
        /\ prev' \in [Structs -> Structs \cup {Null}]
    BY <1>6 DEF Linked
  <2> QED
    BY <1>2, <1>3, <1>7, <1>9, <2>1 DEF IInv, TypeOK
<1>11. LinksOK'
  BY <1>4, <1>6, <1>8 DEF LinksOK, Linked
<1>12. OnePlace'
  BY <1>2, <1>5, <1>7 DEF IInv, OnePlace, NoTwice
<1>13. ChildrenCounted'
  BY <1>2 DEF IInv, ChildrenCounted
<1>14. Rooted'
  BY <1>8 DEF IInv, Rooted
<1>15. CpuInv'
  BY <1>1, <1>2, <1>5, <1>6 DEF IInv, CpuInv, TypeOK
<1> QED
  BY <1>6, <1>9, <1>10, <1>11, <1>12, <1>13, <1>14, <1>15 DEF IInv

(* forktask: the parent of t lives, since it is current or init, and t     *)
(* moves from the list of its parent to the ring.                          *)
LEMMA SpawnInv ==
    ASSUME IInv, NEW t \in Tasks, Spawn(t)
    PROVE  IInv'
<1> DEFINE par == Parent[t]
<1>1. /\ pc = "spawn" /\ pc' = "spawn" /\ current' = current
      /\ t \in unborn /\ par \in {current, InitTask}
      /\ unborn' = unborn \ {t} /\ freed' = freed
      /\ children' = [children EXCEPT ![par] = @ + 1]
      /\ Enqueue(t) /\ nr_running' = nr_running + 1
      /\ need_reschedule' = [need_reschedule EXCEPT ![current] = TRUE]
      /\ intwaitlist' = intwaitlist /\ intTimer' = intTimer /\ kill' = kill
  BY DEF Spawn, Enqueue
<1>2. /\ current \notin unborn \cup freed /\ current \in Structs
      /\ current # Idle /\ next[InitTask] # Null
      /\ t \notin freed /\ t \notin Asleep
  BY <1>1 DEF IInv, OnePlace, TypeOK, CpuInv
<1>3. /\ Linked /\ Queued = Runnable
      /\ nr_running = Cardinality(Runnable) + 1
  BY <1>2, Facts
<1>4. /\ t \notin Living /\ t \notin Runnable /\ next[t] = Null
      /\ par \in Tasks \cup {InitTask} /\ par # t /\ par \in Structs
      /\ par # InitTask => par \notin unborn \cup freed
  BY <1>1, <1>2, <1>3, SchedAssumption, Distinct
     DEF Living, Runnable, Queued, Structs
<1>5. /\ Linked' /\ Connected' /\ next'[InitTask] # Null
      /\ Queued' = Queued \cup {t}
  BY <1>1, <1>2, <1>3, <1>4, EnqueueLinks, EnqueueConnected, Distinct
     DEF IInv, Structs
<1> HIDE DEF par
<1>6. /\ Asleep' = Asleep
      /\ Runnable' = Runnable \cup {t}
      /\ Living' = Living \cup {t}
  BY <1>1, <1>2 DEF Asleep, Runnable, Living
<1>7. /\ Kids(par)' = Kids(par) \cup {t} /\ t \notin Kids(par)
      /\ \A p \in Tasks \cup {InitTask} : p # par => Kids(p)' = Kids(p)
  BY <1>4, <1>6 DEF Kids, par
<1>8. \A p \in Tasks \cup {InitTask} : children'[p] = Cardinality(Kids(p)')
  <2> SUFFICES ASSUME NEW p \in Tasks \cup {InitTask}
               PROVE  children'[p] = Cardinality(Kids(p)')
    OBVIOUS
  <2>1. Kids(p) \in SUBSET Tasks /\ children[p] = Cardinality(Kids(p))
    BY Facts DEF Kids, Living
  <2>2. p \in Structs /\ children \in [Structs -> Nat]
    BY DEF IInv, TypeOK, Structs
  <2>3. CASE p = par
    <3>1. children'[p] = children[p] + 1
      BY <1>1, <2>2, <2>3
    <3>2. Cardinality(Kids(par) \cup {t}) = Cardinality(Kids(par)) + 1
      BY <1>7, <2>1, <2>3, CountTasks
    <3> QED
      BY <1>7, <2>1, <2>3, <3>1, <3>2
  <2>4. CASE p # par
    BY <1>1, <1>7, <2>1, <2>2, <2>4
  <2> QED
    BY <2>3, <2>4
<1>9. Counted' /\ nr_running' \in Nat
  <2>1. /\ Cardinality(Runnable \cup {t}) = Cardinality(Runnable) + 1
        /\ Cardinality(Runnable) \in Nat
    BY <1>4, CountTasks DEF Runnable
  <2> QED
    BY <1>1, <1>3, <1>5, <1>6, <2>1 DEF Counted
<1>10. TypeOK'
  <2>1. /\ next' \in [Structs -> Structs \cup {Null}]
        /\ prev' \in [Structs -> Structs \cup {Null}]
    BY <1>5 DEF Linked
  <2>2. children' \in [Structs -> Nat]
    BY <1>1, <1>4 DEF IInv, TypeOK
  <2> QED
    BY <1>1, <1>9, <2>1, <2>2 DEF IInv, TypeOK
<1>11. LinksOK'
  BY <1>3, <1>5, <1>6 DEF LinksOK, Linked
<1>12. OnePlace'
  BY <1>1, <1>2, <1>6 DEF IInv, OnePlace
<1>13. ChildrenCounted'
  <2>1. ASSUME NEW u \in Living', Parent[u] # InitTask
        PROVE  Parent[u] \notin unborn' \cup freed'
    <3>1. CASE u = t
      BY <1>1, <1>4, <2>1, <3>1 DEF par
    <3>2. CASE u # t
      BY <1>1, <1>6, <2>1, <3>2 DEF IInv, ChildrenCounted, Living
    <3> QED
      BY <3>1, <3>2
  <2> QED
    BY <1>8, <2>1 DEF ChildrenCounted, Kids, Living
<1>14. Rooted'
  <2> SUFFICES ASSUME NEW S \in SUBSET Living', S # {}
               PROVE  \E u \in S : Parent[u] \notin S
    BY DEF Rooted
  <2>1. CASE S = {t}
    BY <1>4, <2>1 DEF par
  <2>2. CASE S # {t}
    <3>1. S \ {t} \in SUBSET Living /\ S \ {t} # {}
      BY <1>6, <2>2
    <3>2. PICK u \in S \ {t} : Parent[u] \notin S \ {t}
      BY <3>1 DEF IInv, Rooted
    <3>3. Parent[u] # t
      BY <1>1, <3>1, Distinct DEF IInv, ChildrenCounted, Living
    <3> QED
      BY <3>2, <3>3
  <2> QED
    BY <2>1, <2>2
<1>15. CpuInv'
  BY <1>1, <1>2, <1>5 DEF IInv, CpuInv, TypeOK
<1> QED
  BY <1>5, <1>9, <1>10, <1>11, <1>12, <1>13, <1>14, <1>15 DEF IInv

(* interrupt() wakes the oldest sleeper: it is in no ring, so the links it *)
(* gets overwrite nothing, and init is still there to be its neighbour.    *)
LEMMA WakeInv ==
    ASSUME IInv, WakeOne
    PROVE  IInv'
<1>1. PICK t \in Tasks : t = Head(intwaitlist)
  BY TailEntries DEF WakeOne, IInv, TypeOK
<1>2. /\ pc = "wake" /\ pc' = "wake" /\ current' = current
      /\ intwaitlist # << >> /\ intwaitlist' = Tail(intwaitlist)
      /\ Enqueue(t) /\ nr_running' = nr_running + 1
      /\ need_reschedule' = need_reschedule
      /\ unborn' = unborn /\ freed' = freed /\ children' = children
      /\ intTimer' = intTimer /\ kill' = kill
  BY <1>1 DEF WakeOne, Enqueue, family
<1>3. /\ Asleep = Entries(intwaitlist) /\ NoTwice(intwaitlist)
      /\ intwaitlist \in Seq(Tasks)
  BY Facts DEF IInv, TypeOK
<1>4. /\ t \in Asleep /\ Asleep' = Asleep \ {t}
      /\ intwaitlist' \in Seq(Tasks) /\ NoTwice(intwaitlist')
  <2>1. Asleep' = Entries(intwaitlist')
    BY DEF Asleep, Entries
  <2> QED
    BY <1>1, <1>2, <1>3, <2>1, TailEntries
<1>5. t \notin unborn \cup freed
  BY <1>4 DEF IInv, OnePlace
<1>6. /\ Linked /\ Queued = Runnable
      /\ t \notin Runnable /\ next[t] = Null
      /\ next[InitTask] # Null
      /\ nr_running = Cardinality(Runnable) + 1
  <2>1. next[InitTask] # Null
    BY <1>5 DEF IInv, LinksOK
  <2> QED
    BY <1>4, <2>1, Facts DEF Runnable, Queued
<1>7. /\ Linked' /\ Connected' /\ next'[InitTask] # Null
      /\ Queued' = Queued \cup {t}
  BY <1>2, <1>6, EnqueueLinks, EnqueueConnected, Distinct DEF IInv, Structs
<1>8. Runnable' = Runnable \cup {t} /\ Living' = Living
  BY <1>2, <1>4, <1>5 DEF Runnable, Living
<1>9. Counted' /\ nr_running' \in Nat
  <2>1. /\ Cardinality(Runnable \cup {t}) = Cardinality(Runnable) + 1
        /\ Cardinality(Runnable) \in Nat
    BY <1>6, CountTasks DEF Runnable
  <2> QED
    BY <1>2, <1>6, <1>7, <1>8, <2>1 DEF Counted
<1>10. TypeOK'
  <2>1. /\ next' \in [Structs -> Structs \cup {Null}]
        /\ prev' \in [Structs -> Structs \cup {Null}]
    BY <1>7 DEF Linked
  <2> QED
    BY <1>2, <1>4, <1>9, <2>1 DEF IInv, TypeOK
<1>11. LinksOK'
  BY <1>6, <1>7, <1>8 DEF LinksOK, Linked
<1>12. OnePlace'
  BY <1>2, <1>4 DEF IInv, OnePlace, NoTwice
<1>13. ChildrenCounted'
  BY <1>2 DEF IInv, ChildrenCounted
<1>14. Rooted'
  BY <1>8 DEF IInv, Rooted
<1>15. CpuInv'
  BY <1>2 DEF IInv, CpuInv
<1> QED
  BY <1>7, <1>9, <1>10, <1>11, <1>12, <1>13, <1>14, <1>15 DEF IInv

(* interrupt() and runcpu call schedule().                                 *)
LEMMA ScheduleInv ==
    ASSUME IInv, NEW t \in Structs, TickSchedule(t) \/ Reschedule(t)
    PROVE  IInv'
<1>1. /\ Schedule(t) /\ pc' \in {"io", "end"}
      /\ UNCHANGED <<ring, intwaitlist, intTimer, family, kill>>
  BY DEF TickSchedule, Reschedule
<1>2. next[InitTask] # Null
  BY HeadLinked DEF TickSchedule, Reschedule, IInv, TypeOK
<1>3. /\ current' = t /\ t \notin unborn \cup freed
      /\ Settled'
      /\ need_reschedule' \in [Structs -> BOOLEAN]
      /\ \A u \in Structs : ~ need_reschedule'[u]
  BY <1>1, <1>2, ScheduleSettles DEF family
<1>4. CpuInv'
  BY <1>1, <1>3 DEF CpuInv
<1> QED
  BY <1>1, <1>3, <1>4, StillInv DEF IInv, TypeOK

(* The steps that only say where runcpu goes on: by the time a round ends  *)
(* whoever should not keep the CPU has been asked to give it back.         *)
LEMMA ControlInv ==
    ASSUME IInv, EndSpawn \/ NoTick \/ TickOnly \/ NoIo \/ IoFire \/ WakeEnd
                 \/ Crash \/ KillInit \/ NextRound
    PROVE  IInv'
<1>1. /\ UNCHANGED <<ring, intwaitlist, family, current>>
      /\ UNCHANGED <<Settled, Queued>>
  BY DEF EndSpawn, NoTick, TickOnly, NoIo, IoFire, WakeEnd, Crash, KillInit,
         NextRound, LoopEnd, ring, family, Settled, Queued
<1>2. current \in Structs \ (unborn \cup freed)
  BY DEF IInv, TypeOK, OnePlace
<1>3. CASE EndSpawn \/ NoTick \/ TickOnly \/ IoFire
  <2>1. CpuInv'
    BY <1>1, <1>3 DEF EndSpawn, NoTick, TickOnly, IoFire, IInv, CpuInv, ring
  <2> QED
    BY <1>1, <1>2, <1>3, <2>1, StillInv
       DEF EndSpawn, NoTick, TickOnly, IoFire, IInv, TypeOK
<1>4. CASE NoIo
  <2>1. CpuInv'
    BY <1>1, <1>4 DEF NoIo, IInv, CpuInv, ring
  <2> QED
    BY <1>1, <1>2, <1>4, <2>1, StillInv DEF NoIo, IInv, TypeOK
<1>5. CASE WakeEnd
  <2>1. CpuInv'
    BY <1>1, <1>2, <1>5 DEF WakeEnd, IInv, CpuInv, TypeOK
  <2> QED
    BY <1>1, <1>2, <1>5, <2>1, StillInv DEF WakeEnd, IInv, TypeOK
<1>6. CASE Crash
  <2>1. CpuInv'
    BY <1>1, <1>6 DEF Crash, IInv, CpuInv
  <2> QED
    BY <1>1, <1>2, <1>6, <2>1, StillInv DEF Crash, IInv, TypeOK
<1>7. CASE KillInit \/ NextRound
  <2>1. LoopEnd /\ kill' \in [Structs -> BOOLEAN]
    BY <1>7 DEF KillInit, NextRound, IInv, TypeOK
  <2>2. CpuInv'
    BY <1>1, <2>1 DEF LoopEnd, IInv, CpuInv
  <2> QED
    BY <1>1, <1>2, <2>1, <2>2, StillInv DEF LoopEnd, IInv, TypeOK
<1> QED
  BY <1>3, <1>4, <1>5, <1>6, <1>7

(* Every step of the machine keeps the invariant.                          *)
LEMMA NextInv == IInv /\ [Next]_vars => IInv'
<1> SUFFICES ASSUME IInv, [Next]_vars PROVE IInv'
  OBVIOUS
<1>1. CASE UNCHANGED vars
  <2>1. CpuInv'
    BY <1>1 DEF vars, IInv, CpuInv, Settled, Queued
  <2> QED
    BY <1>1, <2>1, StillInv DEF vars, ring, family, IInv, TypeOK, OnePlace
<1>2. ASSUME NEW due \in BOOLEAN, EndTask(due) \/ Work(due) \/ Sleep(due)
      PROVE  IInv'
  BY <1>2, EndProcess, EndInit, WorkInv, SleepInv
<1>3. ASSUME NEW t \in Tasks, Spawn(t)
      PROVE  IInv'
  BY <1>3, SpawnInv
<1>4. ASSUME NEW t \in Structs, TickSchedule(t) \/ Reschedule(t)
      PROVE  IInv'
  BY <1>4, ScheduleInv
<1>5. ASSUME WakeOne
      PROVE  IInv'
  BY <1>5, WakeInv
<1> QED
  BY <1>1, <1>2, <1>3, <1>4, <1>5, ControlInv DEF Next, Tick

-----------------------------------------------------------------------------
(* The loops over the ring.                                                *)

(* What Walk is defined by, as an operator on functions.                   *)
Along(W) ==
    [k \in Nat |-> IF k = 0 THEN InitTask
                   ELSE IF W[k - 1] = Null THEN Null ELSE next[W[k - 1]]]

(* Walk does follow the links: a function that does exists.                *)
LEMMA WalkSteps ==
    ASSUME next \in [Structs -> Structs \cup {Null}]
    PROVE  /\ Walk \in [Nat -> Structs \cup {Null}]
           /\ Walk[0] = InitTask
           /\ \A k \in Nat :
                 Walk[k + 1] = IF Walk[k] = Null THEN Null ELSE next[Walk[k]]
<1> DEFINE S == Structs \cup {Null}
           f == [s \in S |-> IF s = Null THEN Null ELSE next[s]]
<1>1. f \in [S -> S]
  OBVIOUS
<1>2. PICK W : /\ W \in [Nat -> S]
               /\ W[0] = InitTask
               /\ \A k \in Nat : W[k + 1] = f[W[k]]
  <2>1. InitTask \in S
    BY Distinct
  <2> HIDE DEF f, S
  <2>2. PICK W : Iterates(W, S, f, InitTask)
    BY <1>1, <2>1, IteratesExists
  <2> QED
    BY <2>2 DEF Iterates
<1>3. \A k \in Nat :
         W[k + 1] = IF W[k] = Null THEN Null ELSE next[W[k]]
  BY <1>2
<1>4. W = Along(W)
  <2>1. ASSUME NEW k \in Nat
        PROVE  W[k] = Along(W)[k]
    <3>1. CASE k = 0
      BY <1>2, <3>1 DEF Along
    <3>2. CASE k # 0
      <4>1. k - 1 \in Nat /\ (k - 1) + 1 = k
        BY <3>2
      <4> QED
        BY <1>3, <3>2, <4>1 DEF Along
    <3> QED
      BY <3>1, <3>2
  <2> QED
    BY <1>2, <2>1 DEF Along
<1>5. Walk = Along(Walk)
  <2>1. Walk = CHOOSE V : V = Along(V)
    BY DEF Walk, Along
  <2> QED
    BY <1>4, <2>1, Zenon
<1>6. /\ DOMAIN Walk = Nat
      /\ Walk = [k \in Nat |-> Walk[k]]
      /\ Walk[0] = InitTask
      /\ \A k \in Nat :
            Walk[k + 1] = IF Walk[k] = Null THEN Null ELSE next[Walk[k]]
  <2>1. /\ DOMAIN Walk = Nat
        /\ Walk = [k \in Nat |-> Walk[k]]
    BY <1>5 DEF Along
  <2>2. ASSUME NEW k \in Nat
        PROVE  Along(Walk)[k + 1] =
                  IF Walk[k] = Null THEN Null ELSE next[Walk[k]]
    <3>1. k + 1 \in Nat /\ k + 1 # 0 /\ (k + 1) - 1 = k
      OBVIOUS
    <3> QED
      BY <3>1 DEF Along
  <2>3. Along(Walk)[0] = InitTask
    BY DEF Along
  <2> QED
    BY <1>5, <2>1, <2>2, <2>3
<1>7. \A k \in Nat : Walk[k] \in S
  <2> DEFINE Q == {k \in Nat : Walk[k] \in S}
  <2>1. 0 \in Q
    BY <1>6, Distinct
  <2>2. ASSUME NEW k \in Nat, k \in Q
        PROVE  k + 1 \in Q
    <3>1. Walk[k] \in Structs => next[Walk[k]] \in S
      OBVIOUS
    <3>2. Walk[k + 1] \in S
      BY <1>6, <2>2, <3>1
    <3> QED
      BY <3>2
  <2> HIDE DEF Q
  <2>3. \A k \in Nat : k \in Q
    BY <2>1, <2>2, SetInduction
  <2> QED
    BY <2>3 DEF Q
<1> QED
  BY <1>6, <1>7

(* While init is in the ring the walk stays in it, and two walks that meet *)
(* have been together before.                                              *)
LEMMA WalkStays ==
    ASSUME IInv, next[InitTask] # Null
    PROVE  /\ \A k \in Nat : /\ Walk[k] \in Runnable \cup {InitTask}
                             /\ Walk[k + 1] = next[Walk[k]]
           /\ \A k, d \in Nat : Walk[k + d] = Walk[k] => Walk[d] = InitTask
<1> DEFINE R == Runnable \cup {InitTask}
<1>1. /\ Linked /\ Queued = Runnable /\ R \subseteq Structs
      /\ \A t \in R : next[t] # Null
  BY Facts, Distinct DEF Queued, Structs
<1>2. /\ Walk[0] = InitTask
      /\ \A k \in Nat :
            Walk[k + 1] = IF Walk[k] = Null THEN Null ELSE next[Walk[k]]
  BY WalkSteps DEF IInv, TypeOK
<1>3. ASSUME NEW t \in R
      PROVE  next[t] \in R /\ prev[next[t]] = t /\ t # Null
  <2>1. /\ next[t] \in Structs /\ next[t] # Idle /\ prev[next[t]] = t
        /\ t # Null
    BY <1>1, Distinct DEF Linked
  <2>2. next[next[t]] # Null
    BY <1>1, <2>1, Distinct DEF Linked
  <2> QED
    BY <1>1, <2>1, <2>2, HeadLinked
<1> HIDE DEF R
<1>4. \A k \in Nat : Walk[k] \in R
  <2> DEFINE Q == {k \in Nat : Walk[k] \in R}
  <2>1. 0 \in Q
    BY <1>2 DEF R
  <2>2. \A k \in Nat : k \in Q => k + 1 \in Q
    BY <1>2, <1>3
  <2> HIDE DEF Q
  <2>3. \A k \in Nat : k \in Q
    BY <2>1, <2>2, SetInduction
  <2> QED
    BY <2>3 DEF Q
<1>5. \A k \in Nat :
         Walk[k + 1] = next[Walk[k]] /\ prev[Walk[k + 1]] = Walk[k]
  BY <1>2, <1>3, <1>4
<1>6. \A k, d \in Nat : Walk[k + d] = Walk[k] => Walk[d] = InitTask
  <2> DEFINE Q == {k \in Nat : \A d \in Nat :
                                  Walk[k + d] = Walk[k] => Walk[d] = InitTask}
  <2>1. 0 \in Q
    BY <1>2
  <2>2. ASSUME NEW k \in Nat, k \in Q
        PROVE  k + 1 \in Q
    <3> SUFFICES ASSUME NEW d \in Nat, Walk[(k + 1) + d] = Walk[k + 1]
                 PROVE  Walk[d] = InitTask
      OBVIOUS
    <3>1. (k + 1) + d = (k + d) + 1 /\ k + d \in Nat
      OBVIOUS
    <3>2. Walk[k + d] = Walk[k]
      BY <1>5, <3>1
    <3> QED
      BY <2>2, <3>2
  <2> HIDE DEF Q
  <2>3. \A k \in Nat : k \in Q
    BY <2>1, <2>2, SetInduction
  <2> QED
    BY <2>3 DEF Q
<1> QED
  BY <1>4, <1>5, <1>6 DEF R

(* The loops over the ring meet every runnable task once and stop after    *)
(* nr_running links: the walk must come back within so many (they lead to  *)
(* no other task), and what it met until then is closed under next, so it  *)
(* is the whole ring (Connected).                                          *)
LEMMA RingWalked ==
    ASSUME IInv, next[InitTask] # Null
    PROVE  /\ Walk[nr_running] = InitTask
           /\ {Walk[k] : k \in 1 .. nr_running - 1} = Runnable
<1> DEFINE R == Runnable \cup {InitTask}
           n == nr_running
           Met(d) == {Walk[k] : k \in 0 .. d - 1}
<1>1. /\ Queued = Runnable /\ Runnable \subseteq Tasks /\ InitTask \notin Runnable
      /\ IsFiniteSet(R) /\ Cardinality(R) = n
      /\ n \in Nat /\ n > 0 /\ R \subseteq Structs
  <2>1. /\ Queued = Runnable /\ Runnable \subseteq Tasks
        /\ n = Cardinality(Runnable) + 1
    BY Facts DEF Runnable
  <2>2. IsFiniteSet(Runnable) /\ Cardinality(Runnable) \in Nat
    BY <2>1, CountTasks
  <2>3. InitTask \notin Runnable
    BY <2>1, Distinct
  <2> QED
    BY <2>1, <2>2, <2>3, FS_AddElement DEF Structs
<1>2. /\ \A k \in Nat : Walk[k] \in R /\ Walk[k + 1] = next[Walk[k]]
      /\ \A k, d \in Nat : Walk[k + d] = Walk[k] => Walk[d] = InitTask
      /\ Walk[0] = InitTask
  BY WalkStays, WalkSteps DEF IInv, TypeOK
<1> HIDE DEF R, n
<1>3. ASSUME NEW d \in Nat, d > 0, Walk[d] = InitTask
      PROVE  Met(d) = R
  <2>1. Met(d) \subseteq R
    BY <1>2
  <2>2. InitTask \in Met(d)
    BY <1>2, <1>3
  <2>3. Closed(Met(d))
    <3> SUFFICES ASSUME NEW k \in 0 .. d - 1
                 PROVE  next[Walk[k]] \in Met(d)
      BY DEF Closed
    <3>1. next[Walk[k]] = Walk[k + 1]
      BY <1>2
    <3>2. CASE k + 1 = d
      BY <1>3, <2>2, <3>1, <3>2
    <3>3. CASE k + 1 # d
      <4>1. k + 1 \in 0 .. d - 1
        BY <3>3
      <4> QED
        BY <3>1, <4>1
    <3> QED
      BY <3>2, <3>3
  <2> HIDE DEF Met
  <2>4. Queued \subseteq Met(d)
    BY <1>1, <2>1, <2>2, <2>3 DEF IInv, Connected
  <2> QED
    BY <1>1, <2>1, <2>2, <2>4 DEF R
<1>4. ASSUME NEW d \in Nat, d > 0, Met(d) = R
      PROVE  /\ n <= d
             /\ n = d => \A i, j \in 0 .. d - 1 : Walk[i] = Walk[j] => i = j
  <2> DEFINE f == [k \in 0 .. d - 1 |-> Walk[k]]
  <2>1. f \in Surjection(0 .. d - 1, R)
    BY <1>2, <1>4 DEF Surjection
  <2>2. IsFiniteSet(0 .. d - 1) /\ Cardinality(0 .. d - 1) = d
    <3>1. /\ IsFiniteSet(0 .. d - 1)
          /\ Cardinality(0 .. d - 1) =
                IF 0 > d - 1 THEN 0 ELSE (d - 1) - 0 + 1
      BY FS_Interval
    <3> QED
      BY <1>4, <3>1
  <2>3. \A i \in 0 .. d - 1 : f[i] = Walk[i]
    OBVIOUS
  <2> HIDE DEF f
  <2>4. n <= d /\ (n = d => f \in Injection(0 .. d - 1, R))
    BY <1>1, <2>1, <2>2, FS_Surjection
  <2> QED
    BY <2>3, <2>4 DEF Injection, IsInjective
<1>5. PICK d \in 1 .. n : Walk[d] = InitTask
  <2> DEFINE f == [k \in 0 .. n |-> Walk[k]]
  <2>1. f \in [0 .. n -> R]
    BY <1>1, <1>2
  <2>2. IsFiniteSet(0 .. n) /\ Cardinality(0 .. n) = n + 1
    <3>1. /\ IsFiniteSet(0 .. n)
          /\ Cardinality(0 .. n) = IF 0 > n THEN 0 ELSE n - 0 + 1
      BY <1>1, FS_Interval
    <3> QED
      BY <1>1, <3>1
  <2>3. \A i \in 0 .. n : f[i] = Walk[i]
    OBVIOUS
  <2> HIDE DEF f
  <2>4. PICK x \in 0 .. n, y \in 0 .. n : x # y /\ f[x] = f[y]
    BY <1>1, <2>1, <2>2, FS_PigeonHole
  <2>5. PICK i \in 0 .. n, j \in 0 .. n : i < j /\ Walk[i] = Walk[j]
    BY <1>1, <2>3, <2>4
  <2>6. j - i \in 1 .. n /\ i + (j - i) = j
    BY <1>1, <2>5
  <2>7. Walk[j - i] = InitTask
    <3>1. i \in Nat /\ j - i \in Nat
      BY <1>1, <2>5
    <3>2. Walk[i + (j - i)] = Walk[i]
      BY <2>5, <2>6
    <3> QED
      BY <1>2, <3>1, <3>2
  <2> QED
    BY <2>6, <2>7
<1>6. d = n /\ Met(n) = R
  <2>1. d \in Nat /\ d > 0 /\ d <= n
    BY <1>1, <1>5
  <2>2. Met(d) = R
    BY <1>3, <1>5, <2>1
  <2> HIDE DEF Met
  <2>3. n <= d
    BY <1>4, <2>1, <2>2
  <2>4. d = n
    BY <1>1, <2>1, <2>3
  <2> QED
    BY <2>2, <2>4
<1>7. Walk[n] = InitTask
  BY <1>5, <1>6
<1>8. {Walk[k] : k \in 1 .. n - 1} = Runnable
  <2>1. \A i, j \in 0 .. n - 1 : Walk[i] = Walk[j] => i = j
    <3> HIDE DEF Met
    <3> QED
      BY <1>1, <1>4, <1>6
  <2>2. ASSUME NEW k \in 1 .. n - 1
        PROVE  Walk[k] \in Runnable
    <3>1. k \in 0 .. n - 1 /\ 0 \in 0 .. n - 1 /\ k # 0 /\ k \in Nat
      BY <1>1
    <3>2. Walk[k] # InitTask
      BY <1>2, <2>1, <3>1
    <3> QED
      BY <1>2, <3>1, <3>2 DEF R
  <2>3. ASSUME NEW t \in Runnable
        PROVE  \E k \in 1 .. n - 1 : Walk[k] = t
    <3>1. PICK k \in 0 .. n - 1 : t = Walk[k]
      BY <1>6 DEF R
    <3>2. k # 0
      BY <1>1, <1>2, <3>1
    <3>3. k \in 1 .. n - 1
      BY <1>1, <3>2
    <3> QED
      BY <3>1, <3>3
  <2> QED
    BY <2>2, <2>3
<1> QED
  BY <1>7, <1>8 DEF n

-----------------------------------------------------------------------------
(* The theorems.                                                           *)

(* Whatever the profile, every reachable state satisfies the inductive     *)
(* invariant.                                                              *)
THEOREM InvHolds == Spec => []IInv
  BY InitInv, NextInv, PTL DEF Spec

(* cpu.c and schedule.c keep the types of the machine's state: the counts  *)
(* of running tasks and of children never become negative.                 *)
THEOREM TypesKept == Spec => []TypeOK
<1>1. IInv => TypeOK
  BY DEF IInv
<1> QED
  BY <1>1, InvHolds, PTL

(* The links of schedule.c are always those of a ring: whatever is put in  *)
(* or taken out, no neighbour is NULL, and while init lives the ring holds *)
(* the runnable tasks and nobody else.                                     *)
THEOREM LinksKept == Spec => []LinksOK
<1>1. IInv => LinksOK
  BY DEF IInv
<1> QED
  BY <1>1, InvHolds, PTL

(* No process is in two lists at once or twice in the wait list, and the   *)
(* task that has the CPU was never freed.                                  *)
THEOREM OnePlaceOnly == Spec => []OnePlace
<1>1. IInv => OnePlace
  BY DEF IInv
<1> QED
  BY <1>1, InvHolds, PTL

(* The count that lets a task end is exact, so killtask never frees a task *)
(* with a living child.                                                    *)
THEOREM ChildrenExact == Spec => []ChildrenCounted
<1>1. IInv => ChildrenCounted
  BY DEF IInv
<1> QED
  BY <1>1, InvHolds, PTL

(* Every round of runcpu begins with a linked task on the CPU, init only   *)
(* if it is alone, and with no request to be rescheduled left over.        *)
THEOREM CpuUsedWell == Spec => []CpuWellUsed
<1>1. IInv => CpuWellUsed
  BY DEF IInv, CpuInv, Settled, CpuWellUsed
<1> QED
  BY <1>1, InvHolds, PTL

(* The loops over the ring (print_rq, find_minExpBurst) end, meet every    *)
(* runnable task exactly once, and nr_running is the number of tasks they  *)
(* meet, whatever the order of the insertions and removals was.            *)
THEOREM RingIsOne == Spec => []OneRing
<1>1. IInv => OneRing
  BY RingWalked, Facts DEF OneRing
<1> QED
  BY <1>1, InvHolds, PTL
=============================================================================
