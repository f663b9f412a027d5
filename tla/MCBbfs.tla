------------------------------- MODULE MCBbfs -------------------------------
(***************************************************************************)
(* Bbfs for TLC: the values of its constants.                              *)
(***************************************************************************)
EXTENDS BbfsReads, TLC

CONSTANTS textA, textB, textC

MCHashes == {<<"sha1", t>> : t \in Contents}

MCHashOf == [t \in Contents |-> <<"sha1", t>>]

(* Buffers of one and of two blocks, equal blocks included.                *)
UpToTwo == UNION {[1 .. n -> Contents] : n \in 1 .. 2}

(* Ten equal blocks at once, or one other block.                           *)
TenOfA == {[i \in 1 .. 10 |-> textA], <<textB>>}

SymNamesInodesContents ==
    Permutations(Names) \cup Permutations(Inodes) \cup Permutations(Contents)

SymNamesInodes == Permutations(Names) \cup Permutations(Inodes)
=============================================================================
