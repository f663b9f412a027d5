--------------------------- MODULE ProfileProofs ----------------------------
(***************************************************************************)
(* Theorems about Profile for files of any length and depth: the tree that *)
(* readProfile builds is the one that the file describes.                  *)
(***************************************************************************)
EXTENDS Profile, FiniteSetTheorems, SequenceTheorems, TLAPS

-----------------------------------------------------------------------------
(* The inductive invariant.                                                *)

(* Every thread_info is in the list of its parent, also in a tree that no  *)
(* well-formed file describes.                                             *)
Listed == \A p \in Infos : ListsChildren(list[p], p)

(* The open processes, all of them between SPAWN and ENDSPAWN but perhaps  *)
(* the last, are those on the path of parents from newtask or top.         *)
Frame == [id : 1 .. Len(parent), spawning : BOOLEAN]

Opened == IF InProcess THEN Len(nest) - 1 ELSE Len(nest)

Nested ==
    /\ nest \in Seq(Frame)
    /\ \A i \in 1 .. Opened : nest[i].spawning
    /\ top = IF Opened = 0 THEN 0 ELSE nest[Opened].id
    /\ InProcess => newtask = Last(nest).id
    /\ children = Opened
    /\ \A i \in DOMAIN nest :
          parent[nest[i].id] = IF i = 1 THEN 0 ELSE nest[i - 1].id

IInv ==
    /\ TypeOK
    /\ Listed
    /\ wellformed /\ state = "read" => Nested
    /\ VerdictRight

(* The thread_infos are numbered, whether the file is well-formed or not.  *)
Numbered ==
    /\ Infos = 0 .. Len(parent) /\ Len(parent) \in 0 .. MaxProcs
    /\ Cardinality(Infos) = Len(parent) + 1
    /\ parent \in Seq(Infos)

-----------------------------------------------------------------------------
(* What the commands do to the stack of open processes.                    *)

(* The types in terms of the number of thread_infos.                       *)
LEMMA Numbers == TypeOK => Numbered
<1> SUFFICES ASSUME TypeOK PROVE Numbered
  OBVIOUS
<1>1. PICK n \in 0 .. MaxProcs : Infos = 0 .. n
  BY DEF TypeOK
<1>2. Cardinality(Infos) = n + 1
  BY <1>1, FS_Interval, ProfileAssumption DEF TypeOK
<1> QED
  BY <1>1, <1>2, ProfileAssumption, LenProperties DEF TypeOK, Numbered

(* NEWPROCESS.                                                             *)
LEMMA Pushed ==
    ASSUME NEW S, NEW s \in Seq(S), NEW e \in S
    PROVE  /\ Append(s, e) \in Seq(S) /\ Append(s, e) # << >>
           /\ Len(Append(s, e)) = Len(s) + 1
           /\ Last(Append(s, e)) = e
           /\ \A i \in 1 .. Len(s) : Append(s, e)[i] = s[i]
  BY DEF Last

(* ENDPROCESS.                                                             *)
LEMMA Popped ==
    ASSUME NEW S, NEW s \in Seq(S), s # << >>
    PROVE  /\ SubSeq(s, 1, Len(s) - 1) \in Seq(S)
           /\ Len(SubSeq(s, 1, Len(s) - 1)) = Len(s) - 1
           /\ \A i \in 1 .. Len(s) - 1 : SubSeq(s, 1, Len(s) - 1)[i] = s[i]
<1> DEFINE n == Len(s) - 1
<1>1. n \in Nat
  OBVIOUS
<1>2. \A i \in 1 .. n : s[i] \in S
  OBVIOUS
<1>3. /\ SubSeq(s, 1, n) \in Seq(S)
      /\ Len(SubSeq(s, 1, n)) = IF 1 <= n THEN n - 1 + 1 ELSE 0
      /\ \A i \in 1 .. n - 1 + 1 : SubSeq(s, 1, n)[i] = s[1 + i - 1]
  <2> HIDE DEF n
  <2> QED
    BY <1>1, <1>2, SubSeqProperties
<1>4. n = Len(s) - 1 /\ n - 1 + 1 = n /\ \A i \in 1 .. n : 1 + i - 1 = i
  BY <1>1
<1> HIDE DEF n
<1>5. /\ SubSeq(s, 1, n) \in Seq(S) /\ Len(SubSeq(s, 1, n)) = n
      /\ \A i \in 1 .. n : SubSeq(s, 1, n)[i] = s[i]
  BY <1>1, <1>3
<1> QED
  BY <1>4, <1>5

(* SPAWN and ENDSPAWN.                                                     *)
LEMMA Marked ==
    ASSUME NEW yes \in BOOLEAN, nest \in Seq(Frame), nest # << >>
    PROVE  /\ Spawning(yes) \in Seq(Frame) /\ Spawning(yes) # << >>
           /\ Len(Spawning(yes)) = Len(nest)
           /\ Last(Spawning(yes)).spawning = yes
           /\ \A i \in 1 .. Len(nest) : Spawning(yes)[i].id = nest[i].id
           /\ \A i \in 1 .. Len(nest) - 1 : Spawning(yes)[i] = nest[i]
<1> DEFINE f == [nest[Len(nest)] EXCEPT !.spawning = yes]
<1>1. Len(nest) \in 1 .. Len(nest) /\ nest[Len(nest)] \in Frame
  OBVIOUS
<1>2. f \in Frame /\ f.id = nest[Len(nest)].id /\ f.spawning = yes
  BY <1>1 DEF Frame
<1>3. Spawning(yes) = [nest EXCEPT ![Len(nest)] = f]
  BY DEF Spawning
<1> HIDE DEF f
<1> QED
  BY <1>1, <1>2, <1>3, ExceptSeq DEF Last

(* A state of which nothing but its types has to be shown: the parser has  *)
(* stopped, or the file was not well-formed.                               *)
LEMMA SameTree ==
    ASSUME IInv, UNCHANGED thread_info, wellformed' \in BOOLEAN,
           cut' \in BOOLEAN,
           state' \in {"read", "accepted", "rejected", "segv", "hangs"},
           top' \in Infos \cup {NULL}, newtask' \in Infos \cup {NULL},
           children' \in -MaxOpen .. MaxOpen
    PROVE  TypeOK' /\ Listed' /\ Frame' = Frame
<1>1. parent' = parent /\ list' = list /\ Infos' = Infos
  BY DEF thread_info, Infos
<1>2. TypeOK'
  BY <1>1 DEF IInv, TypeOK
<1>3. Listed'
  BY <1>1 DEF IInv, Listed, ListsChildren
<1> QED
  BY <1>1, <1>2, <1>3 DEF Frame

(* What the tree and the stack give to each other.                         *)
LEMMA TopInfo ==
    ASSUME IInv, wellformed, state = "read"
    PROVE  /\ Nested /\ Opened \in Nat /\ Opened \in {Len(nest), Len(nest) - 1}
           /\ top \in Infos /\ top # NULL
           /\ InProcess => /\ nest # << >> /\ Opened = Len(nest) - 1
                           /\ newtask = nest[Len(nest)].id
                           /\ newtask \in Infos /\ newtask # NULL
           /\ nest = << >> \/ InSpawn => Opened = Len(nest)
<1>1. Nested /\ Numbered /\ Len(nest) \in Nat
  BY Numbers DEF IInv, Nested
<1>2. nest # << >> => Len(nest) > 0
  BY <1>1 DEF Nested
<1>3. /\ Opened \in Nat /\ Opened <= Len(nest)
      /\ Opened \in {Len(nest), Len(nest) - 1}
  BY <1>1, <1>2 DEF Opened, InProcess
<1>4. \A i \in 1 .. Len(nest) : nest[i].id \in Infos /\ nest[i].id # NULL
  <2> TAKE i \in 1 .. Len(nest)
  <2>1. nest[i] \in Frame
    BY <1>1 DEF Nested
  <2> QED
    BY <2>1, <1>1, ProfileAssumption DEF Frame, Numbered
<1>5. top \in Infos /\ top # NULL
  <2>1. CASE Opened = 0
    BY <1>1, <2>1, ProfileAssumption DEF Nested, Numbered
  <2>2. CASE Opened # 0
    BY <1>1, <1>3, <1>4, <2>2 DEF Nested
  <2> QED
    BY <2>1, <2>2
<1> QED
  BY <1>1, <1>2, <1>3, <1>4, <1>5 DEF Nested, Opened, InProcess, InSpawn, Last

-----------------------------------------------------------------------------
(* The initial state, and the commands one by one.                         *)

(* init is the root of the tree, and no process is open.                   *)
LEMMA InitInv == Init => IInv
<1> SUFFICES ASSUME Init PROVE IInv
  OBVIOUS
<1>1. Infos = 0 .. 0 /\ Infos = {0} /\ Cardinality(Infos) = 1
  BY FS_Singleton DEF Init, Infos
<1>2. Infos \in {0 .. n : n \in 0 .. MaxProcs}
  BY <1>1, ProfileAssumption
<1>3. parent \in Seq(Infos) /\ Len(parent) = 0 /\ DOMAIN parent = {}
  BY DEF Init
<1>4. list[0] = << >>
  BY DEF Init
<1>5. TypeOK
  BY <1>1, <1>2, <1>3, <1>4, ProfileAssumption DEF Init, TypeOK
<1>6. Listed
  BY <1>1, <1>3, <1>4 DEF Listed, ListsChildren
<1>7. Nested
  BY DEF Init, Nested, Opened, InProcess
<1>8. VerdictRight
  BY DEF Init, VerdictRight
<1> QED
  BY <1>5, <1>6, <1>7, <1>8 DEF IInv

(* A command of a file that is not well-formed, or that stops the parser,  *)
(* and leaves the tree alone.                                              *)
LEMMA NoTree ==
    ASSUME IInv, UNCHANGED thread_info, wellformed' \in BOOLEAN,
           cut' \in BOOLEAN,
           state' \in {"read", "accepted", "rejected", "segv", "hangs"},
           top' \in Infos \cup {NULL}, newtask' \in Infos \cup {NULL},
           children' \in -MaxOpen .. MaxOpen,
           wellformed' /\ state' = "read" => Nested',
           wellformed' /\ state' # "read" => VerdictRight'
    PROVE  IInv'
<1>1. TypeOK' /\ Listed'
  BY SameTree
<1>2. VerdictRight'
  BY DEF VerdictRight
<1> QED
  BY <1>1, <1>2 DEF IInv

(* Whether a command is in place.                                          *)
LEMMA Expected ==
    ASSUME IInv, NEW cond, NEW opened, Expect(cond, opened)
    PROVE  /\ wellformed' \in BOOLEAN
           /\ wellformed' => wellformed /\ cond /\ nest' = opened
  BY DEF Expect, IInv, TypeOK

(* ENDPROCESS: the process around it, if any, is between SPAWN and         *)
(* ENDSPAWN again.                                                         *)
LEMMA EndProcessInv ==
    ASSUME IInv, state = "read", EndProcess, UNCHANGED cut
    PROVE  IInv'
<1>1. /\ wellformed' \in BOOLEAN
      /\ wellformed' => /\ wellformed /\ InProcess
                        /\ nest' = SubSeq(nest, 1, Len(nest) - 1)
  BY Expected DEF EndProcess
<1>2. /\ UNCHANGED thread_info /\ state' = state /\ top' = top
      /\ newtask' = NULL /\ children' = children
  BY DEF EndProcess
<1>3. ASSUME wellformed' PROVE Nested'
  <2>1. Nested /\ nest # << >> /\ Opened = Len(nest) - 1 /\ Opened \in Nat
    BY <1>1, <1>3, TopInfo
  <2>2. /\ nest' \in Seq(Frame) /\ Len(nest') = Len(nest) - 1
        /\ \A i \in 1 .. Len(nest) - 1 : nest'[i] = nest[i]
    <3>1. nest \in Seq(Frame) /\ nest' = SubSeq(nest, 1, Len(nest) - 1)
      BY <1>1, <1>3, <2>1 DEF Nested
    <3> QED
      BY <2>1, <3>1, Popped
  <2>3. Frame' = Frame /\ parent' = parent
    BY <1>2 DEF Frame, thread_info
  <2>4. Len(nest') = Opened /\ DOMAIN nest' = 1 .. Opened
    BY <2>1, <2>2
  <2>5. \A i \in 1 .. Opened : nest'[i] = nest[i] /\ nest'[i].spawning
    BY <2>1, <2>2 DEF Nested
  <2>6. ~ InProcess'
    <3>1. nest' # << >> => Len(nest') \in 1 .. Opened
      BY <2>1, <2>2, <2>4
    <3> QED
      BY <3>1, <2>5 DEF InProcess, Last
  <2>7. Opened' = Opened
    BY <2>4, <2>6 DEF Opened
  <2>8. DOMAIN nest' \subseteq DOMAIN nest
    BY <2>1, <2>2, <2>4 DEF Nested
  <2>9. \A i \in DOMAIN nest' :
            parent'[nest'[i].id] = IF i = 1 THEN 0 ELSE nest'[i - 1].id
    BY <2>1, <2>3, <2>4, <2>5, <2>8 DEF Nested
  <2> QED
    BY <1>2, <2>1, <2>2, <2>3, <2>5, <2>6, <2>7, <2>9 DEF Nested
<1> QED
  BY <1>1, <1>2, <1>3, NoTree DEF IInv, TypeOK

(* A field: the thread_info that it is stored in is there.                 *)
LEMMA FieldInv ==
    ASSUME IInv, state = "read", Field, UNCHANGED cut
    PROVE  IInv'
<1>1. /\ wellformed' \in BOOLEAN
      /\ wellformed' => wellformed /\ InProcess /\ nest' = nest
  BY Expected DEF Field
<1>2. /\ UNCHANGED thread_info /\ top' = top
      /\ newtask' = newtask /\ children' = children
      /\ state' \in {"read", "segv"}
      /\ state' = "segv" => newtask = NULL
  BY DEF Field, Segv
<1>3. ASSUME wellformed' PROVE Nested' /\ state' = "read"
  <2>1. Nested /\ newtask # NULL
    BY <1>1, <1>3, TopInfo
  <2> QED
    BY <1>1, <1>2, <1>3, <2>1
       DEF Nested, Opened, InProcess, Frame, thread_info
<1> QED
  BY <1>1, <1>2, <1>3, NoTree DEF IInv, TypeOK

(* SPAWN: the processes that follow are children of newtask.               *)
LEMMA SpawnInv ==
    ASSUME IInv, state = "read", Spawn, UNCHANGED cut
    PROVE  IInv'
<1>1. /\ wellformed' \in BOOLEAN
      /\ wellformed' => wellformed /\ InProcess /\ nest' = Spawning(TRUE)
  BY Expected DEF Spawn
<1>2. /\ UNCHANGED thread_info /\ newtask' = newtask
      /\ \/ newtask = NULL /\ state' = "segv" /\ top' = top
            /\ children' = children
         \/ newtask # NULL /\ state' = "read" /\ top' = newtask
            /\ children' = children + 1
  BY DEF Spawn, Segv
<1>3. ASSUME wellformed' PROVE Nested' /\ state' = "read"
  <2>1. /\ Nested /\ nest # << >> /\ Opened = Len(nest) - 1
        /\ Opened \in Nat /\ newtask = nest[Len(nest)].id /\ newtask # NULL
    BY <1>1, <1>3, TopInfo
  <2>2. /\ nest' \in Seq(Frame) /\ nest' # << >>
        /\ Len(nest') = Len(nest) /\ Last(nest').spawning = TRUE
        /\ \A i \in 1 .. Len(nest) : nest'[i].id = nest[i].id
        /\ \A i \in 1 .. Len(nest) - 1 : nest'[i] = nest[i]
    BY <1>1, <1>3, <2>1, Marked DEF Nested
  <2>3. Frame' = Frame /\ parent' = parent
    BY <1>2 DEF Frame, thread_info
  <2>4. Opened' = Len(nest) /\ ~ InProcess'
    BY <2>2 DEF Opened, InProcess
  <2>5. \A i \in 1 .. Len(nest) : nest'[i].spawning
    <3> TAKE i \in 1 .. Len(nest)
    <3>1. CASE i = Len(nest)
      BY <2>2, <3>1 DEF Last
    <3>2. CASE i # Len(nest)
      <4>1. i \in 1 .. Len(nest) - 1
        BY <3>2
      <4> QED
        BY <2>1, <2>2, <4>1 DEF Nested
    <3> QED
      BY <3>1, <3>2
  <2>6. DOMAIN nest' = DOMAIN nest /\ DOMAIN nest = 1 .. Len(nest)
    BY <2>1, <2>2 DEF Nested
  <2>7. \A i \in DOMAIN nest' :
            parent'[nest'[i].id] = IF i = 1 THEN 0 ELSE nest'[i - 1].id
    <3> TAKE i \in DOMAIN nest'
    <3>1. i # 1 => i - 1 \in 1 .. Len(nest)
      BY <2>1, <2>6
    <3> QED
      BY <2>1, <2>2, <2>3, <2>6, <3>1 DEF Nested
  <2>8. top' = nest'[Len(nest)].id /\ children' = Len(nest) /\ Len(nest) # 0
    BY <1>2, <2>1, <2>2 DEF Nested
  <2> QED
    BY <1>2, <2>1, <2>2, <2>3, <2>4, <2>5, <2>7, <2>8 DEF Nested
<1>4. children' \in -MaxOpen .. MaxOpen
  BY <1>2, ProfileAssumption DEF Spawn, IInv, TypeOK
<1> QED
  BY <1>1, <1>2, <1>3, <1>4, NoTree DEF IInv, TypeOK

(* ENDSPAWN: the parent link of the process leads back to the one around   *)
(* it.                                                                     *)
LEMMA EndSpawnInv ==
    ASSUME IInv, state = "read", EndSpawn, UNCHANGED cut
    PROVE  IInv'
<1>1. /\ wellformed' \in BOOLEAN
      /\ wellformed' => wellformed /\ InSpawn /\ nest' = Spawning(FALSE)
  BY Expected DEF EndSpawn
<1>2. /\ UNCHANGED thread_info
      /\ \/ top = NULL /\ state' = "segv" /\ top' = top
            /\ children' = children /\ newtask' = newtask
         \/ top # NULL /\ state' = "read" /\ top' = ParentOf(top)
            /\ children' = children - 1 /\ newtask' = top
  BY DEF EndSpawn, Segv
<1>3. ASSUME wellformed' PROVE Nested' /\ state' = "read"
  <2>1. /\ Nested /\ nest # << >> /\ Opened = Len(nest) /\ Len(nest) \in Nat
        /\ top # NULL
    BY <1>1, <1>3, TopInfo DEF InSpawn
  <2>2. /\ nest' \in Seq(Frame) /\ nest' # << >>
        /\ Len(nest') = Len(nest) /\ Last(nest').spawning = FALSE
        /\ \A i \in 1 .. Len(nest) : nest'[i].id = nest[i].id
        /\ \A i \in 1 .. Len(nest) - 1 : nest'[i] = nest[i]
    BY <1>1, <1>3, <2>1, Marked DEF Nested
  <2>3. Frame' = Frame /\ parent' = parent
    BY <1>2 DEF Frame, thread_info
  <2>4. Opened' = Len(nest) - 1 /\ InProcess'
    BY <2>2 DEF Opened, InProcess
  <2>5. \A i \in 1 .. Len(nest) - 1 : nest'[i].spawning
    BY <2>1, <2>2 DEF Nested
  <2>6. /\ DOMAIN nest' = DOMAIN nest /\ DOMAIN nest = 1 .. Len(nest)
        /\ Len(nest) > 0
    BY <2>1, <2>2 DEF Nested
  <2>7. \A i \in DOMAIN nest' :
            parent'[nest'[i].id] = IF i = 1 THEN 0 ELSE nest'[i - 1].id
    <3> TAKE i \in DOMAIN nest'
    <3>1. i # 1 => i - 1 \in 1 .. Len(nest)
      BY <2>1, <2>6
    <3> QED
      BY <2>1, <2>2, <2>3, <2>6, <3>1 DEF Nested
  <2>8. top = nest[Len(nest)].id /\ top # 0
    <3>1. nest[Len(nest)] \in Frame
      BY <2>1, <2>6 DEF Nested
    <3> QED
      BY <2>1, <2>6, <3>1 DEF Nested, Frame
  <2>9. newtask' = Last(nest').id
    BY <1>2, <2>1, <2>2, <2>6, <2>8 DEF Last
  <2>10. top' = IF Opened' = 0 THEN 0 ELSE nest'[Opened'].id
    <3>1. top' = parent[top]
      BY <1>2, <2>1, <2>8 DEF ParentOf
    <3>2. top' = IF Len(nest) = 1 THEN 0 ELSE nest[Len(nest) - 1].id
      BY <2>1, <2>6, <2>8, <3>1 DEF Nested
    <3>3. Len(nest) # 1 => Len(nest) - 1 \in 1 .. Len(nest)
      BY <2>6
    <3> QED
      BY <2>2, <2>4, <2>6, <3>2, <3>3
  <2>11. children' = Opened'
    BY <1>2, <2>1, <2>4 DEF Nested
  <2> QED
    BY <1>2, <2>1, <2>2, <2>3, <2>4, <2>5, <2>7, <2>9, <2>10, <2>11 DEF Nested
<1>4. children' \in -MaxOpen .. MaxOpen
  BY <1>2, ProfileAssumption DEF EndSpawn, IInv, TypeOK
<1>5. \/ top \in Infos \cup {NULL} /\ ParentOf(top) \in Infos \cup {NULL}
      \/ top = NULL
  <2>1. ASSUME top \in Infos, top # 0 PROVE parent[top] \in Infos
    BY <2>1, Numbers DEF IInv, Numbered
  <2> QED
    BY <2>1 DEF ParentOf, IInv, TypeOK
<1> QED
  BY <1>1, <1>2, <1>3, <1>4, <1>5, NoTree DEF IInv, TypeOK

(* NEWPROCESS: the new thread_info is the next number, and the last child  *)
(* of top.                                                                 *)
LEMMA NewProcessInv ==
    ASSUME IInv, state = "read", NewProcess, UNCHANGED cut
    PROVE  IInv'
<1> DEFINE new == Cardinality(Infos)
           frame == [id |-> new, spawning |-> FALSE]
<1>1. /\ wellformed' \in BOOLEAN
      /\ wellformed' => /\ wellformed /\ (nest = << >> \/ InSpawn)
                        /\ nest' = Append(nest, frame)
  BY Expected DEF NewProcess
<1>2. ASSUME top = NULL PROVE IInv'
  <2>1. /\ UNCHANGED thread_info /\ state' = "segv" /\ top' = top
        /\ children' = children /\ newtask' = newtask
    BY <1>2 DEF NewProcess, Segv
  <2>2. ~ wellformed'
    BY <1>1, <1>2, TopInfo
  <2> QED
    BY <1>1, <2>1, <2>2, NoTree DEF IInv, TypeOK
<1>3. ASSUME top # NULL PROVE IInv'
  <2>1. /\ parent' = Append(parent, top) /\ list' = Hung(new, top)
        /\ newtask' = new /\ state' = "read" /\ top' = top
        /\ children' = children /\ new <= MaxProcs
    BY <1>3 DEF NewProcess
  <2>2. /\ Infos = 0 .. Len(parent) /\ Len(parent) \in 0 .. MaxProcs
        /\ new = Len(parent) + 1 /\ parent \in Seq(Infos) /\ new \in Nat
        /\ DOMAIN parent = 1 .. Len(parent)
    BY Numbers, ProfileAssumption, LenProperties DEF IInv, Numbered
  <2> HIDE DEF new
  <2>3. Infos' = Infos \cup {new} /\ new \notin Infos /\ Infos' = 0 .. new
    BY <2>1, <2>2 DEF Hung, Infos
  <2>4. Cardinality(Infos') = new + 1
    <3>1. 0 \in Int /\ new \in Int
      BY <2>2
    <3>2. Cardinality(0 .. new) = IF 0 > new THEN 0 ELSE new - 0 + 1
      BY <3>1, FS_Interval, Zenon
    <3>3. Cardinality(0 .. new) = new + 1
      BY <2>2, <3>2
    <3> QED
      BY <2>3, <3>3
  <2>5. top \in Infos /\ \A i \in Infos : list[i] \in Seq(Infos)
    BY <1>3 DEF IInv, TypeOK
  <2>6. /\ parent' \in Seq(Infos') /\ Len(parent') = new
        /\ DOMAIN parent' = 1 .. new
        /\ parent'[new] = top
        /\ \A i \in 1 .. Len(parent) : parent'[i] = parent[i]
    <3>1. parent \in Seq(Infos') /\ top \in Infos'
      BY <2>2, <2>3, <2>5, SeqMonotonic
    <3> QED
      BY <2>1, <2>2, <3>1
  <2>7. /\ list'[new] = << >>
        /\ list'[top] = Append(list[top], new)
        /\ \A i \in Infos \ {top} : list'[i] = list[i]
    BY <2>1, <2>3, <2>5 DEF Hung
  <2>8. \A i \in Infos' : list'[i] \in Seq(Infos')
    <3> TAKE i \in Infos'
    <3>1. i \in Infos => list[i] \in Seq(Infos')
      BY <2>3, <2>5, SeqMonotonic
    <3>2. << >> \in Seq(Infos')
      OBVIOUS
    <3>3. Append(list[top], new) \in Seq(Infos')
      <4>1. list[top] \in Seq(Infos') /\ new \in Infos'
        BY <2>3, <2>5, SeqMonotonic
      <4> QED
        BY <4>1
    <3> QED
      BY <2>3, <2>7, <3>1, <3>2, <3>3
  <2>9. TypeOK'
    <3>1. Infos' \in {0 .. n : n \in 0 .. MaxProcs}
      BY <2>1, <2>2, <2>3
    <3>2. top' \in Infos' /\ newtask' \in Infos'
      BY <2>1, <2>3, <2>5
    <3>3. children' \in -MaxOpen .. MaxOpen
      BY <2>1 DEF IInv, TypeOK
    <3>4. Len(parent') = Cardinality(Infos') - 1
      BY <2>2, <2>4, <2>6
    <3>5. cut' \in BOOLEAN
      BY DEF IInv, TypeOK
    <3> QED
      BY <1>1, <2>1, <2>6, <2>8, <3>1, <3>2, <3>3, <3>4, <3>5 DEF TypeOK
  <2>10. Listed'
    <3> SUFFICES ASSUME NEW p \in Infos' PROVE ListsChildren(list[p], p)'
      BY DEF Listed
    <3> DEFINE l == list[p]
               kids == {i \in DOMAIN parent : parent[i] = p}
    <3>1. p \in Infos => /\ ListsChildren(list[p], p) /\ list[p] \in Seq(Infos)
      BY <2>5 DEF IInv, Listed
    <3>2. CASE p = new
      <4>1. \A i \in DOMAIN parent' : parent'[i] # new
        <5>1. \A i \in 1 .. Len(parent) : parent[i] \in Infos
          BY <2>2, ElementOfSeq
        <5>2. \A i \in 1 .. new : i \in 1 .. Len(parent) \/ i = new
          BY <2>2
        <5> QED
          BY <2>3, <2>5, <2>6, <5>1, <5>2
      <4> QED
        BY <2>7, <3>2, <4>1 DEF ListsChildren
    <3>3. CASE p \in Infos /\ p # top
      <4>1. {i \in DOMAIN parent' : parent'[i] = p} = kids
        BY <2>2, <2>6, <3>3
      <4> QED
        BY <2>7, <3>1, <3>3, <4>1 DEF ListsChildren
    <3>4. CASE p = top
      <4>1. {i \in DOMAIN parent' : parent'[i] = p} = kids \cup {new}
        BY <2>2, <2>6, <3>4
      <4>2. p \in Infos /\ l \in Seq(Infos) /\ ListsChildren(l, p)
        BY <2>5, <3>1, <3>4
      <4>3. list'[p] = Append(l, new)
        BY <2>7, <3>4
      <4> HIDE DEF l
      <4>4. /\ DOMAIN l = 1 .. Len(l) /\ Len(l) \in Nat
            /\ DOMAIN list'[p] = 1 .. Len(l) + 1
            /\ \A i \in 1 .. Len(l) : list'[p][i] = l[i]
            /\ list'[p][Len(l) + 1] = new
        BY <4>2, <4>3
      <4>5. {list'[p][i] : i \in DOMAIN list'[p]} = kids \cup {new}
        BY <4>2, <4>4 DEF ListsChildren
      <4>6. \A i \in DOMAIN l : l[i] \in Int /\ l[i] < new
        BY <2>2, <4>2, <4>4, ElementOfSeq
      <4>7. \A i, j \in DOMAIN list'[p] : i < j => list'[p][i] < list'[p][j]
        <5> SUFFICES ASSUME NEW i \in 1 .. Len(l) + 1,
                            NEW j \in 1 .. Len(l) + 1, i < j
                     PROVE  list'[p][i] < list'[p][j]
          BY <4>4
        <5>1. i \in 1 .. Len(l)
          BY <4>4
        <5>2. CASE j = Len(l) + 1
          BY <4>4, <4>6, <5>1, <5>2
        <5>3. CASE j \in 1 .. Len(l)
          BY <4>2, <4>4, <5>1, <5>3 DEF ListsChildren
        <5> QED
          BY <4>4, <5>2, <5>3
      <4> QED
        BY <4>1, <4>5, <4>7 DEF ListsChildren
    <3> QED
      BY <2>3, <3>2, <3>3, <3>4
  <2>11. ASSUME wellformed' PROVE Nested'
    <3>1. /\ Nested /\ Opened = Len(nest) /\ Opened \in Nat
      BY <1>1, <2>11, TopInfo
    <3>2. Frame \subseteq Frame' /\ frame \in Frame'
      BY <2>2, <2>6 DEF Frame
    <3>3. nest \in Seq(Frame')
      BY <3>1, <3>2, SeqMonotonic DEF Nested
    <3> HIDE DEF frame
    <3>4. /\ nest' \in Seq(Frame') /\ nest' # << >>
          /\ Len(nest') = Len(nest) + 1 /\ Last(nest') = frame
          /\ \A i \in 1 .. Len(nest) : nest'[i] = nest[i]
      BY <1>1, <2>11, <3>2, <3>3, Pushed
    <3>5. frame.id = new /\ ~ frame.spawning
      BY DEF frame
    <3>6. InProcess' /\ Opened' = Len(nest)
      BY <3>1, <3>4, <3>5 DEF InProcess, Opened
    <3>7. \A i \in 1 .. Len(nest) : nest[i].id \in 1 .. Len(parent)
      <4>1. \A i \in 1 .. Len(nest) : nest[i] \in Frame
        BY <3>1, ElementOfSeq DEF Nested
      <4> QED
        BY <4>1 DEF Frame
    <3>8. top = IF Len(nest) = 0 THEN 0 ELSE nest[Len(nest)].id
      BY <3>1 DEF Nested
    <3>9. /\ DOMAIN nest = 1 .. Len(nest) /\ DOMAIN nest' = 1 .. Len(nest) + 1
          /\ nest'[Len(nest) + 1] = frame
      BY <3>1, <3>4 DEF Nested, Last
    <3>10. \A i \in DOMAIN nest' :
              parent'[nest'[i].id] = IF i = 1 THEN 0 ELSE nest'[i - 1].id
      <4> TAKE i \in DOMAIN nest'
      <4>1. i # 1 => i - 1 \in 1 .. Len(nest)
        BY <3>1, <3>9
      <4>2. CASE i = Len(nest) + 1
        BY <2>6, <3>1, <3>4, <3>5, <3>8, <3>9, <4>1, <4>2
      <4>3. CASE i \in 1 .. Len(nest)
        <5>1. parent'[nest'[i].id] = parent[nest[i].id]
          BY <2>6, <3>4, <3>7, <4>3
        <5>2. i # 1 => nest'[i - 1] = nest[i - 1]
          BY <3>4, <4>1
        <5> QED
          BY <3>1, <3>9, <4>3, <5>1, <5>2 DEF Nested
      <4> QED
        BY <3>1, <3>9, <4>2, <4>3
    <3>11. \A i \in 1 .. Len(nest) : nest'[i].spawning
      BY <3>1, <3>4 DEF Nested
    <3>12. top' = IF Len(nest) = 0 THEN 0 ELSE nest'[Len(nest)].id
      BY <2>1, <3>1, <3>4, <3>8
    <3> QED
      BY <2>1, <3>1, <3>4, <3>5, <3>6, <3>10, <3>11, <3>12 DEF Nested
  <2> QED
    BY <2>1, <2>9, <2>10, <2>11 DEF IInv, VerdictRight
<1> QED
  BY <1>2, <1>3

(* The end of a file that is well-formed: it is accepted if no SPAWN that  *)
(* was carried out is open, also if the last command was not.              *)
LEMMA VerdictInv ==
    ASSUME IInv, state = "read", Verdict, UNCHANGED cut,
           wellformed' \in BOOLEAN,
           wellformed' =>
               /\ wellformed
               /\ \/ nest' = nest
                  \/ InProcess /\ nest' = SubSeq(nest, 1, Len(nest) - 1)
                  \/ InSpawn /\ nest' = Spawning(FALSE)
                  \/ /\ nest = << >> \/ InSpawn
                     /\ nest' = Append(nest, [id |-> Cardinality(Infos),
                                              spawning |-> FALSE])
    PROVE  IInv'
<1>1. /\ state' = IF children = 0 THEN "accepted" ELSE "rejected"
      /\ UNCHANGED thread_info /\ top' = top /\ newtask' = newtask
      /\ children' = children
  BY DEF Verdict, Judged
<1>2. ASSUME wellformed' PROVE VerdictRight'
  <2>1. /\ Nested /\ Opened \in Nat /\ children = Opened
        /\ Opened \in {Len(nest), Len(nest) - 1}
        /\ InProcess => nest # << >> /\ Opened = Len(nest) - 1
        /\ nest = << >> \/ InSpawn => Opened = Len(nest)
    BY <1>2, TopInfo DEF Nested
  <2>2. nest \in Seq(Frame) /\ Len(nest) \in Nat
    BY <2>1 DEF Nested
  <2>3. CASE nest' = nest
    <3>1. ASSUME Opened = 0 PROVE \A i \in DOMAIN nest : ~ nest[i].spawning
      BY <2>1, <2>2, <3>1 DEF InProcess, InSpawn, Last
    <3>2. Opened # 0 => nest # << >>
      BY <2>1, <2>2
    <3> QED
      BY <1>1, <2>1, <2>3, <3>1, <3>2 DEF VerdictRight
  <2>4. CASE InProcess /\ nest' = SubSeq(nest, 1, Len(nest) - 1)
    <3>1. nest' \in Seq(Frame) /\ Len(nest') = Opened
      BY <2>1, <2>2, <2>4, Popped
    <3>2. Opened = 0 => DOMAIN nest' = {}
      BY <3>1
    <3>3. Opened # 0 => nest' # << >>
      BY <2>1, <3>1
    <3> QED
      BY <1>1, <2>1, <3>2, <3>3 DEF VerdictRight
  <2>5. CASE InSpawn /\ nest' = Spawning(FALSE)
    <3>1. Opened = Len(nest) /\ nest # << >> /\ Len(nest) > 0
      BY <2>1, <2>2, <2>5 DEF InSpawn
    <3>2. nest' # << >>
      BY <2>2, <2>5, <3>1, Marked
    <3> QED
      BY <1>1, <2>1, <3>1, <3>2 DEF VerdictRight
  <2>6. CASE /\ nest = << >> \/ InSpawn
             /\ nest' = Append(nest, [id |-> Cardinality(Infos),
                                      spawning |-> FALSE])
    <3> DEFINE f == [id |-> Cardinality(Infos), spawning |-> FALSE]
    <3>1. Opened = Len(nest) /\ ~ f.spawning
      BY <2>1, <2>6
    <3> HIDE DEF f
    <3>2. nest' # << >>
      BY <2>2, <2>6
    <3>3. Opened = 0 => DOMAIN nest' = {1} /\ nest'[1] = f
      <4>1. Opened = 0 => nest = << >>
        BY <2>2, <3>1, EmptySeq
      <4>2. Append(<< >>, f) = <<f>>
        OBVIOUS
      <4>3. nest' = Append(nest, f)
        BY <2>6 DEF f
      <4> QED
        BY <4>1, <4>2, <4>3
    <3> QED
      BY <1>1, <2>1, <3>1, <3>2, <3>3 DEF VerdictRight
  <2> QED
    BY <1>2, <2>3, <2>4, <2>5, <2>6
<1> QED
  BY <1>1, <1>2, NoTree DEF IInv, TypeOK

(* The ways a file may end.                                                *)
LEMMA EndInv ==
    ASSUME IInv, state = "read",
           \/ (Unknown \/ EndOfFile \/ LastCommand) /\ UNCHANGED cut
           \/ (LastString \/ OpenComment) /\ cut' = TRUE
    PROVE  IInv'
<1>1. ASSUME Unknown, UNCHANGED cut PROVE IInv'
  <2>1. wellformed' \in BOOLEAN /\ ~ wellformed'
    BY <1>1, Expected DEF Unknown
  <2> QED
    BY <1>1, <2>1, NoTree DEF Unknown, IInv, TypeOK
<1>2. ASSUME EndOfFile, UNCHANGED cut PROVE IInv'
  BY <1>2, VerdictInv DEF EndOfFile, IInv, TypeOK
<1>3. ASSUME LastCommand, UNCHANGED cut PROVE IInv'
  <2>1. Verdict
    BY <1>3 DEF LastCommand, Unread
  <2>2. ASSUME NEW cond, NEW opened, Unread(cond, opened)
        PROVE  /\ wellformed' \in BOOLEAN
               /\ wellformed' => wellformed /\ cond /\ nest' = opened
    BY <2>2, Expected DEF Unread
  <2>3. wellformed' \in BOOLEAN
    BY <1>3, <2>2 DEF LastCommand
  <2>4. wellformed' =>
          /\ wellformed
          /\ \/ nest' = nest
             \/ InProcess /\ nest' = SubSeq(nest, 1, Len(nest) - 1)
             \/ InSpawn /\ nest' = Spawning(FALSE)
             \/ /\ nest = << >> \/ InSpawn
                /\ nest' = Append(nest, [id |-> Cardinality(Infos),
                                         spawning |-> FALSE])
    BY <1>3, <2>2 DEF LastCommand
  <2> QED
    BY <1>3, <2>1, <2>3, <2>4, VerdictInv
<1>4. ASSUME LastString, cut' = TRUE PROVE IInv'
  <2>1. /\ wellformed' \in BOOLEAN
        /\ wellformed' => wellformed /\ InProcess /\ nest' = nest
    BY <1>4, Expected DEF LastString
  <2>2. /\ UNCHANGED thread_info /\ top' = top
        /\ newtask' = newtask /\ children' = children
        /\ \/ state' = "segv" /\ newtask = NULL
           \/ state' \in {"hangs", Judged, "rejected"}
    BY <1>4 DEF LastString, Segv
  <2>3. Judged \in {"accepted", "rejected"}
    BY DEF Judged
  <2>4. ASSUME wellformed' PROVE VerdictRight'
    <3>1. /\ Nested /\ newtask # NULL /\ nest # << >>
          /\ Opened = Len(nest) - 1
      BY <2>1, <2>4, TopInfo
    <3>2. ASSUME Judged = "accepted" PROVE \A i \in DOMAIN nest : i = Len(nest)
      BY <3>1, <3>2 DEF Judged, Nested
    <3>3. \A i \in DOMAIN nest : i = Len(nest) => ~ nest[i].spawning
      BY <2>1, <2>4 DEF InProcess, Last
    <3> QED
      BY <1>4, <2>1, <2>2, <2>3, <2>4, <3>1, <3>2, <3>3 DEF VerdictRight
  <2> QED
    BY <1>4, <2>1, <2>2, <2>3, <2>4, NoTree DEF IInv, TypeOK
<1>5. ASSUME OpenComment, cut' = TRUE PROVE IInv'
  <2>1. /\ UNCHANGED <<thread_info, top, newtask, children, wellformed>>
        /\ state' = "hangs"
    BY <1>5 DEF OpenComment
  <2>2. VerdictRight'
    BY <1>5, <2>1 DEF VerdictRight
  <2> QED
    BY <1>5, <2>1, <2>2, NoTree DEF IInv, TypeOK
<1> QED
  BY <1>1, <1>2, <1>3, <1>4, <1>5

(* Every command keeps the invariant.                                      *)
LEMMA NextInv == IInv /\ [Next]_vars => IInv'
<1> SUFFICES ASSUME IInv, [Next]_vars PROVE IInv'
  OBVIOUS
<1>1. CASE UNCHANGED vars
  <2>1. /\ UNCHANGED thread_info /\ state' = state /\ top' = top
        /\ newtask' = newtask /\ children' = children /\ nest' = nest
        /\ wellformed' = wellformed /\ cut' = cut
    BY <1>1 DEF vars
  <2>2. Nested => Nested'
    BY <2>1 DEF Nested, Opened, InProcess, Frame, thread_info
  <2>3. VerdictRight'
    BY <2>1 DEF IInv, VerdictRight
  <2> QED
    BY <2>1, <2>2, <2>3, NoTree DEF IInv, TypeOK
<1>2. CASE Next
  BY <1>1, <1>2, NewProcessInv, EndProcessInv, FieldInv, SpawnInv, EndSpawnInv,
     EndInv DEF Next, Global
<1> QED
  BY <1>1, <1>2

-----------------------------------------------------------------------------
(* The theorems.                                                           *)

(* Every state that readProfile reaches with any file satisfies the        *)
(* invariant.                                                              *)
THEOREM InvHolds == Spec => []IInv
  BY InitInv, NextInv, PTL DEF Spec

(* readProfile keeps the types of its variables: the links lead to         *)
(* thread_infos that were made.                                            *)
THEOREM TypesKept == Spec => []TypeOK
<1>1. IInv => TypeOK
  BY DEF IInv
<1> QED
  BY <1>1, InvHolds, PTL

(* Of a well-formed file, however deep its processes are nested,           *)
(* readProfile builds the tree that it describes.                          *)
THEOREM TreeAsWritten == Spec => []NestedAsWritten
<1>1. IInv => NestedAsWritten
  BY DEF IInv, NestedAsWritten, Nested, Opened, Listed
<1> QED
  BY <1>1, InvHolds, PTL

(* It does not crash on a file whose commands are in place, hangs on one   *)
(* only if the file ends in a comment or a string without an end of line,  *)
(* and the count of SPAWNs by which it judges the file gives the right     *)
(* verdict, in that case too.                                              *)
THEOREM VerdictIsRight == Spec => []VerdictRight
<1>1. IInv => VerdictRight
  BY DEF IInv
<1> QED
  BY <1>1, InvHolds, PTL
=============================================================================
