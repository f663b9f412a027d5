---------------------------- MODULE MCLedgerFile ----------------------------
(***************************************************************************)
(* LedgerFile for TLC: two texts.                                          *)
(***************************************************************************)
EXTENDS LedgerFile

CONSTANTS textA, textB

(* Digits and letters, for an atoi at the wrong place.                     *)
MCHashOf ==
    [c \in Contents |->
        [i \in 1 .. 20 |-> IF c = textA THEN (i + 9) % 16 ELSE (7 * i) % 16]]

(* One text goes over ten while the other is used once or not at all, or   *)
(* alone over a hundred.                                                   *)
Numbers == {f \in [Contents -> 0 .. 12 \cup 97 .. 101] :
               f[textB] <= IF f[textA] < 97 THEN 1 ELSE 0}

UpToTwo == [Contents -> 0 .. 2]
=============================================================================
