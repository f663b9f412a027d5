------------------------------ MODULE MCScheds ------------------------------
(***************************************************************************)
(* Both schedulers of hw2 for TLC: a behaviour is one of either program,   *)
(* on the same profiles and the same machine.                              *)
(***************************************************************************)
EXTENDS GoodVm, TLC

VARIABLE program        \* "sjf" or "goodness"

CONSTANTS t1, t2, t3

(* No process spawns another.                                              *)
Flat == [t \in Tasks |-> InitTask]

(* The processes that are not interactive are alike.                       *)
SymBatch == Permutations(Tasks \ Interactive)

schedVars == <<goodVars, program>>

SchedsInit == GoodInit /\ program \in {"sjf", "goodness"}

SchedsNext ==
    /\ UNCHANGED program
    /\ \/ program = "sjf" /\ SjfNext /\ UNCHANGED last_time
       \/ program = "goodness" /\ GoodNext

SchedsSpec == SchedsInit /\ [][SchedsNext]_schedVars

(* sjf gives the CPU to the shortest expected burst (README:56-63 of hw2). *)
ShortestFirst == [][program = "sjf" => ShortestChosen]_schedVars

(* sjf-goodness never lets a process wait for ever behind shorter ones: a  *)
(* wait raises its chances (README:66-70 of hw2).                          *)
NobodyStarves == [][program = "goodness" => WaitBounded]_schedVars
=============================================================================
