------------------------------ MODULE Profile -------------------------------
(***************************************************************************)
(* The parser of the profiles of hw2 (cpuinit.c, the same in sjf and in    *)
(* sjf-goodness): readProfile makes one thread_info for each process of    *)
(* the file and hangs it into the list of the process that spawns it.      *)
(*                                                                         *)
(* A step reads one command; the file may end after any of them.  The      *)
(* values of the fields do not matter here.  Processes are numbered in the *)
(* order of their NEWPROCESS, 0 is init.                                   *)
(***************************************************************************)
EXTENDS Integers, Sequences, FiniteSets

CONSTANTS
    MaxProcs,       \* bound: the processes of a file
    MaxOpen,        \* bound: how far SPAWN and ENDSPAWN may be out of balance
    NULL

ASSUME ProfileAssumption ==
    /\ MaxProcs \in Nat /\ MaxOpen \in Nat /\ NULL \notin 0 .. MaxProcs

VARIABLES
    state,          \* what readProfile does or how it ended
    parent,         \* the parent of each thread_info
    list,           \* the list of children of each
    top,            \* the thread_info that NEWPROCESS hangs its process into
    newtask,        \* the one that the fields belong to
    children,       \* the SPAWNs that are open
    nest,           \* history: the processes of the file that are not ended,
                    \* and whether each is between SPAWN and ENDSPAWN
    wellformed,     \* history: no command was out of place
    cut             \* history: the file ends in a comment or in the text of
                    \* a NAME or TYPE, with no end of line after it

thread_info == <<parent, list>>
vars == <<state, thread_info, top, newtask, children, nest, wellformed, cut>>

Infos == DOMAIN list
Last(seq) == seq[Len(seq)]

Init ==
    /\ state = "read"
    /\ parent = << >>
    /\ list = [i \in {0} |-> << >>]
    /\ top = 0 /\ newtask = NULL
    /\ children = 0
    /\ nest = << >> /\ wellformed = TRUE /\ cut = FALSE

(* init has no parent.                                                     *)
ParentOf(i) == IF i = 0 THEN NULL ELSE parent[i]

-----------------------------------------------------------------------------
(* What a file may contain: processes may be nested between SPAWN and      *)
(* ENDSPAWN of a process, fields belong to a process outside of them.      *)
InProcess == nest # << >> /\ ~ Last(nest).spawning
InSpawn == nest # << >> /\ Last(nest).spawning

Expect(cond, opened) ==
    /\ wellformed' = (wellformed /\ cond)
    /\ nest' = IF wellformed' THEN opened ELSE << >>

Spawning(yes) == [nest EXCEPT ![Len(nest)].spawning = yes]

(* A command that goes through a NULL pointer.                             *)
Segv ==
    /\ state' = "segv"
    /\ UNCHANGED <<thread_info, top, newtask, children>>

(* Mutant of Hung: the new list of children is not made.                   *)
HungWithoutList(new, p) == [list EXCEPT ![p] = Append(@, new)]

(* INIT_LIST_HEAD of the new thread_info, list_add_tail into that of p.    *)
Hung(new, p) ==
    [i \in Infos \cup {new} |->
        IF i = new THEN << >>
        ELSE IF i = p THEN Append(list[i], new) ELSE list[i]]

NewProcess ==
    /\ Cardinality(Infos) <= MaxProcs
    /\ Expect(nest = << >> \/ InSpawn,
              Append(nest, [id |-> Cardinality(Infos), spawning |-> FALSE]))
    /\ \/ top = NULL /\ Segv
       \/ /\ top # NULL
          /\ parent' = Append(parent, top)
          /\ list' = Hung(Cardinality(Infos), top)
          /\ newtask' = Cardinality(Infos)
          /\ UNCHANGED <<state, top, children>>

EndProcess ==
    /\ Expect(InProcess, SubSeq(nest, 1, Len(nest) - 1))
    /\ newtask' = NULL
    /\ UNCHANGED <<state, thread_info, top, children>>

(* SPAWNTIME, NAME, TYPE, KILLTIME, NICE, WORKDURATION.  (A TYPE that is   *)
(* none of the types is not stored.)                                       *)
Field ==
    /\ Expect(InProcess, nest)
    /\ \/ newtask = NULL /\ Segv
       \/ UNCHANGED <<state, thread_info, top, newtask, children>>

(* CYCLE_TIME, SEED, ENDTIME, and a comment that ends with its line.       *)
Global == UNCHANGED vars

(* Mutant of Spawn: the open SPAWNs are not counted.                       *)
SpawnUncounted ==
    /\ children < MaxOpen
    /\ Expect(InProcess, Spawning(TRUE))
    /\ \/ newtask = NULL /\ Segv
       \/ /\ newtask # NULL
          /\ top' = newtask
          /\ UNCHANGED <<state, thread_info, newtask, children>>

Spawn ==
    /\ children < MaxOpen
    /\ Expect(InProcess, Spawning(TRUE))
    /\ \/ newtask = NULL /\ Segv
       \/ /\ newtask # NULL
          /\ children' = children + 1
          /\ top' = newtask
          /\ UNCHANGED <<state, thread_info, newtask>>

(* Mutant of EndSpawn: the process that spawned is not current again.      *)
EndSpawnForgets ==
    /\ children > -MaxOpen
    /\ Expect(InSpawn, Spawning(FALSE))
    /\ \/ top = NULL /\ Segv
       \/ /\ top # NULL
          /\ children' = children - 1
          /\ top' = ParentOf(top)
          /\ newtask' = NULL
          /\ UNCHANGED <<state, thread_info>>

EndSpawn ==
    /\ children > -MaxOpen
    /\ Expect(InSpawn, Spawning(FALSE))
    /\ \/ top = NULL /\ Segv
       \/ /\ top # NULL
          /\ children' = children - 1
          /\ top' = ParentOf(top)
          /\ newtask' = top
          /\ UNCHANGED <<state, thread_info>>

(* A command that is unknown or has no '#'.                                *)
Unknown ==
    /\ Expect(FALSE, nest)
    /\ state' = "rejected"
    /\ UNCHANGED <<thread_info, top, newtask, children>>

Judged == IF children = 0 THEN "accepted" ELSE "rejected"

Verdict ==
    /\ state' = Judged
    /\ UNCHANGED <<thread_info, top, newtask, children>>

(* The end of the file.                                                    *)
EndOfFile == Verdict /\ UNCHANGED <<nest, wellformed>>

(* The file ends with the name of a command and nothing but white space    *)
(* after it: the command is read, but not carried out (so a SPAWN at the   *)
(* end opens nothing).                                                     *)
Unread(cond, opened) == Expect(cond, opened) /\ Verdict

LastCommand ==
    \/ Unread(InProcess, SubSeq(nest, 1, Len(nest) - 1))
    \/ Unread(InProcess, nest)
    \/ Unread(InSpawn, Spawning(FALSE))
    \/ Unread(nest = << >> \/ InSpawn,
              Append(nest, [id |-> Cardinality(Infos), spawning |-> FALSE]))

(* The file ends with the text of a NAME or TYPE.  readstring goes back    *)
(* one byte too many: what it stores begins one byte early, and the last   *)
(* byte of the text is left over and read as the start of a command.       *)
LastString ==
    /\ Expect(InProcess, nest)
    /\ \/ newtask = NULL /\ Segv
       \/ /\ \/ state' = "hangs"      \* ";": a comment without an end
             \/ state' = Judged       \* "#": a command without a name
             \/ state' = "rejected"   \* another byte: Missing '#'
          /\ UNCHANGED <<thread_info, top, newtask, children>>

(* The file ends inside a comment: the loop waits for its end of line.     *)
OpenComment ==
    /\ state' = "hangs"
    /\ UNCHANGED <<thread_info, top, newtask, children, nest, wellformed>>

Next ==
    /\ state = "read"
    /\ \/ /\ \/ NewProcess \/ EndProcess \/ Field \/ Global
             \/ Spawn \/ EndSpawn
             \/ Unknown \/ EndOfFile \/ LastCommand
          /\ UNCHANGED cut
       \/ /\ LastString \/ OpenComment
          /\ cut' = TRUE

Spec == Init /\ [][Next]_vars

-----------------------------------------------------------------------------
(* The variables keep their types.                                         *)
TypeOK ==
    /\ state \in {"read", "accepted", "rejected", "segv", "hangs"}
    /\ Infos \in {0 .. n : n \in 0 .. MaxProcs}
    /\ parent \in Seq(Infos) /\ Len(parent) = Cardinality(Infos) - 1
    /\ \A i \in Infos : list[i] \in Seq(Infos)
    /\ top \in Infos \cup {NULL} /\ newtask \in Infos \cup {NULL}
    /\ children \in -MaxOpen .. MaxOpen
    /\ wellformed \in BOOLEAN /\ cut \in BOOLEAN

(* The list holds the children of p once each, in the order of the file.   *)
ListsChildren(l, p) ==
    /\ {l[i] : i \in DOMAIN l} = {i \in DOMAIN parent : parent[i] = p}
    /\ \A i, j \in DOMAIN l : i < j => l[i] < l[j]

(* As long as the file is well-formed, the tree is the one it describes:   *)
(* top is the innermost process with an open SPAWN, newtask the process    *)
(* whose fields come next, also after an inner SPAWN has been closed, each *)
(* open process is the child of the open one around it, and each process   *)
(* is in the list of its parent, in the order of the file, and in no other *)
(* list.  The machine of SchedVm (its constant Parent) relies on it.       *)
NestedAsWritten ==
    wellformed /\ state = "read" =>
        LET opened == IF InProcess THEN Len(nest) - 1 ELSE Len(nest)
        IN  /\ \A i \in 1 .. opened : nest[i].spawning
            /\ top = IF opened = 0 THEN 0 ELSE nest[opened].id
            /\ InProcess => newtask = Last(nest).id
            /\ children = opened
            /\ \A i \in DOMAIN nest :
                  parent[nest[i].id] = IF i = 1 THEN 0 ELSE nest[i - 1].id
            /\ \A p \in Infos : ListsChildren(list[p], p)

(* A file whose commands are all in place never crashes the parser, and    *)
(* never hangs it unless it ends in a comment or a string that no end of   *)
(* line follows (cpuinit.c:134, 329).  It is accepted only if every SPAWN  *)
(* that was carried out has its ENDSPAWN, also where the last byte of a    *)
(* NAME was taken for a command, and rejected only if some process is      *)
(* still open when it ends.                                                *)
VerdictRight ==
    wellformed =>
        /\ state # "segv"
        /\ state = "hangs" => cut
        /\ state = "accepted" => \A i \in DOMAIN nest : ~ nest[i].spawning
        /\ state = "rejected" => nest # << >>
=============================================================================
