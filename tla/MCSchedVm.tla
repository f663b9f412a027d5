----------------------------- MODULE MCSchedVm ------------------------------
(***************************************************************************)
(* SchedVm for TLC: the profiles.                                          *)
(***************************************************************************)
EXTENDS SchedVm, TLC

CONSTANTS t1, t2, t3, t4

(* t1 spawns t2, which spawns t3; t4 belongs to init.                      *)
Nested == [t \in Tasks |-> CASE t = t2 -> t1 [] t = t3 -> t2 [] OTHER -> InitTask]

(* No process spawns another.                                              *)
Flat == [t \in Tasks |-> InitTask]
=============================================================================
