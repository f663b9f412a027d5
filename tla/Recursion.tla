----------------------------- MODULE Recursion ------------------------------
(***************************************************************************)
(* Induction over the natural numbers, and functions defined by recursion  *)
(* over them, with a set or a function where NaturalsInduction has an      *)
(* operator as parameter.  Both follow from the pigeonhole principle for   *)
(* finite sets.  The proofs use them for the loops over linked structures. *)
(***************************************************************************)
EXTENDS Integers, FiniteSets, Functions, FiniteSetTheorems, TLAPS

(* A set with 0 that is closed under successor holds every number.  Were n *)
(* not in it, pushing each member in 0..n up by one would put the n + 1    *)
(* numbers of 0..n into 1..n, no two of them together.                     *)
LEMMA SetInduction ==
    ASSUME NEW P, 0 \in P, \A n \in Nat : n \in P => n + 1 \in P
    PROVE  \A n \in Nat : n \in P
<1> SUFFICES ASSUME NEW n \in Nat, n \notin P
             PROVE  FALSE
  OBVIOUS
<1> DEFINE up == [i \in 0 .. n |-> IF i \in P THEN i + 1 ELSE i]
<1>1. ASSUME NEW i \in 0 .. n
      PROVE  up[i] \in 1 .. n
  <2>1. CASE i \in P
    BY <2>1
  <2>2. CASE i \notin P
    BY <2>2
  <2> QED
    BY <2>1, <2>2
<1>2. up \in [0 .. n -> 1 .. n]
  BY <1>1
<1>3. /\ IsFiniteSet(0 .. n) /\ IsFiniteSet(1 .. n)
      /\ Cardinality(1 .. n) < Cardinality(0 .. n)
  <2>1. /\ IsFiniteSet(0 .. n)
        /\ Cardinality(0 .. n) = IF 0 > n THEN 0 ELSE n - 0 + 1
    BY FS_Interval
  <2>2. /\ IsFiniteSet(1 .. n)
        /\ Cardinality(1 .. n) = IF 1 > n THEN 0 ELSE n - 1 + 1
    BY FS_Interval
  <2> QED
    BY <2>1, <2>2
<1>4. PICK x \in 0 .. n, y \in 0 .. n : x # y /\ up[x] = up[y]
  <2> HIDE DEF up
  <2> QED
    BY <1>2, <1>3, FS_PigeonHole
<1>5. \A i \in 0 .. n : up[i] = IF i \in P THEN i + 1 ELSE i
  OBVIOUS
<1> HIDE DEF up
<1>6. x + 1 # y /\ y + 1 # x
  BY <1>4, <1>5
<1> QED
  BY <1>4, <1>5, <1>6

(* w follows f from x for n steps.                                         *)
Follows(w, S, f, x, n) ==
    /\ w \in [0 .. n -> S]
    /\ w[0] = x
    /\ \A i \in 0 .. n - 1 : w[i + 1] = f[w[i]]

(* Following f from x can go on for ever.                                  *)
LEMMA FollowsExists ==
    ASSUME NEW S, NEW f \in [S -> S], NEW x \in S
    PROVE  \A n \in Nat : \E w : Follows(w, S, f, x, n)
<1> DEFINE P == {n \in Nat : \E w : Follows(w, S, f, x, n)}
<1>1. 0 \in P
  <2>1. Follows([i \in 0 .. 0 |-> x], S, f, x, 0)
    BY DEF Follows
  <2> QED
    BY <2>1
<1>2. ASSUME NEW n \in Nat, n \in P
      PROVE  n + 1 \in P
  <2>1. PICK w : Follows(w, S, f, x, n)
    BY <1>2
  <2> DEFINE v == [i \in 0 .. n + 1 |-> IF i = n + 1 THEN f[w[n]] ELSE w[i]]
  <2>2. /\ w \in [0 .. n -> S] /\ w[0] = x
        /\ \A i \in 0 .. n - 1 : w[i + 1] = f[w[i]]
    BY <2>1 DEF Follows
  <2>3. v \in [0 .. n + 1 -> S]
    <3>1. \A i \in 0 .. n + 1 : i # n + 1 => i \in 0 .. n
      OBVIOUS
    <3>2. f[w[n]] \in S
      BY <2>2
    <3> QED
      BY <2>2, <3>1, <3>2
  <2>4. v[0] = x
    BY <2>2
  <2>5. ASSUME NEW i \in 0 .. n
        PROVE  v[i + 1] = f[v[i]]
    <3>1. v[i] = w[i]
      OBVIOUS
    <3>2. CASE i = n
      BY <3>1, <3>2
    <3>3. CASE i # n
      BY <2>2, <3>1, <3>3
    <3> QED
      BY <3>2, <3>3
  <2>6. Follows(v, S, f, x, n + 1)
    <3> HIDE DEF v
    <3> QED
      BY <2>3, <2>4, <2>5 DEF Follows
  <2> QED
    BY <2>6
<1> HIDE DEF P
<1>3. \A n \in Nat : n \in P
  BY <1>1, <1>2, SetInduction
<1> QED
  BY <1>3 DEF P

(* There is only one way to go.                                            *)
LEMMA FollowsUnique ==
    ASSUME NEW S, NEW f \in [S -> S], NEW x \in S,
           NEW m \in Nat, NEW n \in Nat, NEW v, NEW w,
           Follows(v, S, f, x, m), Follows(w, S, f, x, n)
    PROVE  \A i \in Nat : i <= m /\ i <= n => v[i] = w[i]
<1> DEFINE P == {i \in Nat : i <= m /\ i <= n => v[i] = w[i]}
<1>1. 0 \in P
  BY DEF Follows
<1>2. ASSUME NEW i \in Nat, i \in P
      PROVE  i + 1 \in P
  <2> SUFFICES ASSUME i + 1 <= m, i + 1 <= n
               PROVE  v[i + 1] = w[i + 1]
    OBVIOUS
  <2>1. i \in 0 .. m - 1 /\ i \in 0 .. n - 1
    OBVIOUS
  <2>2. v[i] = w[i]
    BY <1>2
  <2> QED
    BY <2>1, <2>2 DEF Follows
<1> HIDE DEF P
<1>3. \A i \in Nat : i \in P
  BY <1>1, <1>2, SetInduction
<1> QED
  BY <1>3 DEF P

(* w follows f from x without end.                                         *)
Iterates(w, S, f, x) ==
    /\ w \in [Nat -> S]
    /\ w[0] = x
    /\ \A n \in Nat : w[n + 1] = f[w[n]]

(* There is such a function.                                               *)
LEMMA IteratesExists ==
    ASSUME NEW S, NEW f \in [S -> S], NEW x \in S
    PROVE  \E w : Iterates(w, S, f, x)
<1> DEFINE upto(n) == CHOOSE w : Follows(w, S, f, x, n)
           w == [n \in Nat |-> upto(n)[n]]
<1>1. \A n \in Nat : Follows(upto(n), S, f, x, n)
  BY FollowsExists
<1> HIDE DEF upto
<1>2. w \in [Nat -> S]
  BY <1>1 DEF Follows
<1>3. w[0] = x
  BY <1>1 DEF Follows
<1>4. ASSUME NEW n \in Nat
      PROVE  w[n + 1] = f[w[n]]
  <2>1. upto(n)[n] = upto(n + 1)[n]
    BY <1>1, FollowsUnique
  <2>2. upto(n + 1)[n + 1] = f[upto(n + 1)[n]]
    BY <1>1 DEF Follows
  <2> QED
    BY <2>1, <2>2
<1> HIDE DEF w
<1>5. Iterates(w, S, f, x)
  BY <1>2, <1>3, <1>4 DEF Iterates
<1> QED
  BY <1>5

(* A set of numbers that is not empty has a least element.                 *)
LEMMA LeastExists ==
    ASSUME NEW S \in SUBSET Nat, S # {}
    PROVE  \E m \in S : \A s \in S : m <= s
<1> SUFFICES ASSUME \A m \in S : \E s \in S : ~ (m <= s)
             PROVE  FALSE
  OBVIOUS
<1> DEFINE P == {n \in Nat : \A s \in S : n <= s}
<1>1. 0 \in P
  OBVIOUS
<1>2. ASSUME NEW n \in Nat, n \in P
      PROVE  n + 1 \in P
  <2>1. n \notin S
    BY <1>2
  <2>2. \A s \in S : n <= s /\ n # s /\ s \in Nat
    BY <1>2, <2>1
  <2> QED
    BY <2>2
<1> HIDE DEF P
<1>3. \A n \in Nat : n \in P
  BY <1>1, <1>2, SetInduction
<1>4. PICK s \in S : TRUE
  OBVIOUS
<1>5. s + 1 \in P
  BY <1>3
<1> QED
  BY <1>5 DEF P

(* One that is bounded has a greatest.                                     *)
LEMMA GreatestExists ==
    ASSUME NEW b \in Nat, NEW S \in SUBSET (0 .. b), S # {}
    PROVE  \E m \in S : \A s \in S : s <= m
<1> DEFINE T == {b - s : s \in S}
<1>1. T \in SUBSET Nat /\ T # {}
  <2>1. \A s \in S : b - s \in Nat
    OBVIOUS
  <2>2. PICK s \in S : TRUE
    OBVIOUS
  <2>3. b - s \in T
    OBVIOUS
  <2> QED
    BY <2>1, <2>3
<1>2. PICK m \in T : \A t \in T : m <= t
  <2> HIDE DEF T
  <2> QED
    BY <1>1, LeastExists
<1>3. PICK g \in S : m = b - g
  OBVIOUS
<1>4. \A s \in S : b - g <= b - s
  BY <1>2, <1>3
<1> QED
  BY <1>4
=============================================================================
