------------------------------- MODULE MCSlob -------------------------------
(***************************************************************************)
(* Slob for TLC: the pages and CPUs are alike, and the requests of a run   *)
(* are given as sets.                                                      *)
(***************************************************************************)
EXTENDS Slob, TLC

Req(size, align, late) == [size |-> size, align |-> align, rcu |-> late]

(* Blocks of two units and RCU objects of three, both aligned to two and   *)
(* from one list, whose sizes are rounded up to a unit, and a block that   *)
(* fills a page.                                                           *)
Mixed == {Req(3, 2, FALSE), Req(5, 2, TRUE), Req(14, 2, FALSE)}

(* Blocks of one and of four units, both aligned to four.                  *)
Aligned == {Req(1, 4, FALSE), Req(8, 4, FALSE)}

SymPages == Permutations(Pages) \cup Permutations(Cpus)
=============================================================================
