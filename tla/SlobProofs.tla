----------------------------- MODULE SlobProofs -----------------------------
(***************************************************************************)
(* Theorems about Slob for pages of any size, any number of CPUs and any   *)
(* requests: the lists that slob.c writes into the free memory are always  *)
(* right, and so no memory is lost or given twice.                         *)
(*                                                                         *)
(* The argument goes from the words up.  A memory is Chained when the      *)
(* headers of a set B of blocks link them in the order of their addresses; *)
(* the parts of slob_page_alloc and slob_free turn a chain into another    *)
(* (SplitChain, UnlinkChain, FrontChain, GlueChains).  The loops over the  *)
(* free blocks meet exactly the blocks of the chain (FreeBlocksFacts), and *)
(* so find_min_block and slob_free find what they look for (FindFacts,     *)
(* BeforeFacts).  A page is Divided when its chain covers all words but    *)
(* those in use; SInv says so of every page and ties the lists to them.    *)
(***************************************************************************)
EXTENDS Slob, Recursion, TLAPS

-----------------------------------------------------------------------------
(* The words of a page that is divided into blocks.                        *)

Mem == [Words -> -PageUnits .. PageUnits]

(* The first word of a free block is a size above one or a negated address.*)
Headed(mem, s) == mem[s] < 0 \/ mem[s] > 1

(* n is the first of the blocks B behind s, or the end of the page.        *)
Behind(B, s, n) ==
    /\ n \in B \cup {None} /\ s < n
    /\ \A t \in B : s < t => n <= t

(* The free blocks, at the addresses in B, are linked in the order of their *)
(* addresses, from f on.                                                   *)
Chained(mem, f, B) ==
    /\ mem \in Mem /\ B \subseteq Words
    /\ Behind(B, -1, f)
    /\ \A s \in B : /\ Headed(mem, s)
                    /\ Behind(B, s, slob_next(mem, s))
                    /\ s + slob_units(mem, s) <= slob_next(mem, s)

(* No two of them touch.                                                   *)
Merged(mem, B) ==
    \A s \in B : \/ slob_next(mem, s) = None
                 \/ s + slob_units(mem, s) < slob_next(mem, s)

Block(mem, s) == s .. s + slob_units(mem, s) - 1

Cover(mem, B) == UNION {Block(mem, s) : s \in B}

(* The same header in another state of the memory.                         *)
SameHead(mem, m, s) ==
    /\ Headed(m, s)
    /\ slob_units(m, s) = slob_units(mem, s)
    /\ slob_next(m, s) = slob_next(mem, s)

-----------------------------------------------------------------------------
(* The operators on headers.                                               *)

(* The assumption on the size of a page, for arithmetic.                   *)
LEMMA WordFacts == PageUnits \in Nat /\ None = PageUnits /\ PageUnits > 1
  BY PageAssumption DEF None

(* A header that is written is read again, and all other blocks keep what  *)
(* they say.                                                               *)
LEMMA SetSlob ==
    ASSUME NEW mem \in Mem, NEW s \in Words, NEW size \in Nat \ {0},
           s + size <= PageUnits, NEW next \in 1 .. PageUnits
    PROVE  /\ set_slob(mem, s, size, next) \in Mem
           /\ Headed(set_slob(mem, s, size, next), s)
           /\ slob_units(set_slob(mem, s, size, next), s) = size
           /\ slob_next(set_slob(mem, s, size, next), s) = next
           /\ \A w \in Words \ (s .. s + size - 1) :
                 set_slob(mem, s, size, next)[w] = mem[w]
<1> DEFINE m == set_slob(mem, s, size, next)
<1>1. CASE size > 1
  <2>1. m = [mem EXCEPT ![s] = size, ![s + 1] = next]
    BY <1>1 DEF set_slob
  <2>2. s + 1 \in Words /\ size <= PageUnits /\ s # s + 1
    BY <1>1, WordFacts DEF Words
  <2>3. m \in Mem /\ m[s] = size /\ m[s + 1] = next
    BY <2>1, <2>2, WordFacts DEF Mem
  <2>4. \A w \in Words : w # s /\ w # s + 1 => m[w] = mem[w]
    BY <2>1, <2>2 DEF Mem
  <2>5. s \in s .. s + size - 1 /\ s + 1 \in s .. s + size - 1
    BY <1>1, <2>2 DEF Words
  <2> HIDE DEF m
  <2>6. Headed(m, s) /\ slob_units(m, s) = size /\ slob_next(m, s) = next
    BY <1>1, <2>3 DEF Headed, slob_units, slob_next
  <2> QED
    BY <2>3, <2>4, <2>5, <2>6 DEF m
<1>2. CASE size = 1
  <2>1. m = [mem EXCEPT ![s] = -next]
    BY <1>2 DEF set_slob
  <2>2. m \in Mem /\ m[s] = -next
    BY <2>1, WordFacts DEF Mem
  <2>3. \A w \in Words : w # s => m[w] = mem[w]
    BY <2>1 DEF Mem
  <2>4. s \in s .. s + size - 1
    BY <1>2 DEF Words
  <2> HIDE DEF m
  <2>5. Headed(m, s) /\ slob_units(m, s) = 1 /\ slob_next(m, s) = next
    BY <2>2 DEF Headed, slob_units, slob_next
  <2> QED
    BY <1>2, <2>2, <2>3, <2>4, <2>5 DEF m
<1> QED
  BY <1>1, <1>2

(* A block whose words are left alone keeps its header.                    *)
LEMMA KeepHead ==
    ASSUME NEW mem \in Mem, NEW m \in Mem, NEW s \in Words, Headed(mem, s),
           s + slob_units(mem, s) <= PageUnits,
           \A w \in Block(mem, s) : m[w] = mem[w]
    PROVE  SameHead(mem, m, s)
<1>1. mem[s] \in Int /\ s \in Int
  BY DEF Mem, Words
<1>2. CASE mem[s] < 0
  <2>1. s \in Block(mem, s)
    BY <1>1, <1>2 DEF Block, slob_units
  <2> QED
    BY <1>2, <2>1 DEF SameHead, Headed, slob_units, slob_next
<1>3. CASE mem[s] > 1
  <2>1. s \in Block(mem, s) /\ s + 1 \in Block(mem, s)
    BY <1>1, <1>3 DEF Block, slob_units
  <2>2. m[s] = mem[s] /\ m[s + 1] = mem[s + 1] /\ ~ mem[s] < 0
    BY <1>1, <1>3, <2>1
  <2> QED
    BY <1>3, <2>2 DEF SameHead, Headed, slob_units, slob_next
<1> QED
  BY <1>2, <1>3 DEF Headed

(* What a chain says of its blocks.                                        *)
LEMMA ChainFacts ==
    ASSUME NEW mem, NEW f, NEW B, Chained(mem, f, B)
    PROVE  /\ f \in B \cup {None} /\ f \in Nat /\ \A t \in B : f <= t
           /\ f = None <=> B = {}
           /\ \A s \in B :
                 /\ s \in Words /\ s \in Nat /\ s < PageUnits
                 /\ Headed(mem, s)
                 /\ slob_units(mem, s) \in Nat \ {0}
                 /\ slob_next(mem, s) \in 1 .. PageUnits
                 /\ slob_next(mem, s) \in B \cup {None}
                 /\ s < slob_next(mem, s)
                 /\ s + slob_units(mem, s) <= slob_next(mem, s)
                 /\ s + slob_units(mem, s) <= PageUnits
                 /\ \A t \in B : s < t => /\ slob_next(mem, s) <= t
                                          /\ s + slob_units(mem, s) <= t
<1>1. mem \in Mem /\ B \subseteq Words /\ Behind(B, -1, f)
  BY DEF Chained
<1>2. ASSUME NEW s \in B
      PROVE  /\ Headed(mem, s) /\ Behind(B, s, slob_next(mem, s))
             /\ s + slob_units(mem, s) <= slob_next(mem, s)
             /\ mem[s] \in Int /\ s \in 0 .. PageUnits - 1
             /\ slob_units(mem, s) \in Nat \ {0}
  BY <1>1, <1>2, WordFacts DEF Chained, Headed, slob_units, Mem, Words
<1>3. f \in B \cup {None} /\ f \in Nat /\ \A t \in B : f <= t
  BY <1>1, WordFacts DEF Behind, Words
<1>4. None \notin B
  BY <1>1, WordFacts DEF Words
<1>5. f = None <=> B = {}
  BY <1>1, <1>3, <1>4, WordFacts DEF Words
<1>6. ASSUME NEW s \in B
      PROVE  /\ slob_next(mem, s) \in 1 .. PageUnits
             /\ slob_next(mem, s) \in B \cup {None}
             /\ s < slob_next(mem, s)
             /\ \A t \in B : s < t => slob_next(mem, s) <= t
  <2> DEFINE n == slob_next(mem, s)
  <2>1. n \in B \cup {None} /\ s < n /\ \A t \in B : s < t => n <= t
    BY <1>2 DEF Behind
  <2> HIDE DEF n
  <2>2. n \in 0 .. PageUnits /\ s \in 0 .. PageUnits
    <3>1. B \subseteq 0 .. PageUnits
      BY <1>1, WordFacts DEF Words
    <3> QED
      BY <2>1, <3>1, WordFacts
  <2>3. n \in 1 .. PageUnits
    BY <2>1, <2>2, WordFacts
  <2> QED
    BY <2>1, <2>3 DEF n
<1>7. ASSUME NEW s \in B
      PROVE  /\ s + slob_units(mem, s) <= PageUnits
             /\ \A t \in B : s < t => s + slob_units(mem, s) <= t
  <2>1. s \in Int /\ slob_units(mem, s) \in Int /\ slob_next(mem, s) \in Int
    BY <1>2, <1>6, WordFacts
  <2>2. s + slob_units(mem, s) <= slob_next(mem, s)
    BY <1>2
  <2>3. slob_next(mem, s) <= PageUnits
    BY <1>6, WordFacts
  <2>4. \A t \in B : t \in Int /\ (s < t => slob_next(mem, s) <= t)
    BY <1>2, <1>6
  <2> HIDE DEF slob_next
  <2> QED
    BY <2>1, <2>2, <2>3, <2>4, WordFacts
<1> QED
  BY <1>1, <1>2, <1>3, <1>5, <1>6, <1>7, WordFacts DEF Words


(* The blocks lie inside the page and apart from each other.               *)
LEMMA BlocksApart ==
    ASSUME NEW mem, NEW f, NEW B, Chained(mem, f, B)
    PROVE  /\ \A s \in B : Block(mem, s) \subseteq Words
           /\ \A s, t \in B : s # t => Block(mem, s) \cap Block(mem, t) = {}
           /\ Cover(mem, B) \subseteq Words
<1>1. \A s \in B : Block(mem, s) \subseteq Words
  BY ChainFacts, WordFacts DEF Block, Words
<1>2. ASSUME NEW s \in B, NEW t \in B, s # t
      PROVE  Block(mem, s) \cap Block(mem, t) = {}
  <2>1. /\ s \in Nat /\ t \in Nat
        /\ slob_units(mem, s) \in Nat /\ slob_units(mem, t) \in Nat
        /\ s < t => s + slob_units(mem, s) <= t
        /\ t < s => t + slob_units(mem, t) <= s
    BY ChainFacts
  <2> QED
    BY <1>2, <2>1 DEF Block
<1> QED
  BY <1>1, <1>2 DEF Cover

(* Memory that differs in no free block leaves the chain alone.            *)
LEMMA KeepChain ==
    ASSUME NEW mem, NEW f, NEW B, Chained(mem, f, B), NEW m \in Mem,
           \A w \in Cover(mem, B) : m[w] = mem[w]
    PROVE  /\ Chained(m, f, B) /\ \A s \in B : SameHead(mem, m, s)
           /\ Cover(m, B) = Cover(mem, B)
           /\ Merged(mem, B) => Merged(m, B)
<1>1. ASSUME NEW s \in B PROVE SameHead(mem, m, s)
  <2>1. mem \in Mem /\ s \in Words /\ Headed(mem, s)
    BY ChainFacts DEF Chained
  <2>2. s + slob_units(mem, s) <= PageUnits
    BY ChainFacts
  <2>3. \A w \in Block(mem, s) : m[w] = mem[w]
    BY DEF Cover
  <2> QED
    BY <2>1, <2>2, <2>3, KeepHead
<1> QED
  BY <1>1 DEF Chained, SameHead, Cover, Block, Merged

(* The fragment in front of an aligned block becomes a block of its own.   *)
LEMMA SplitChain ==
    ASSUME NEW mem, NEW f, NEW B, Chained(mem, f, B), NEW s \in B,
           NEW d \in Nat \ {0}, d < slob_units(mem, s),
           NEW m, m = set_slob(set_slob(mem, s + d, slob_units(mem, s) - d,
                                        slob_next(mem, s)),
                               s, d, s + d)
    PROVE  /\ Chained(m, f, B \cup {s + d}) /\ s + d \notin B
           /\ s + d \in Words
           /\ slob_units(m, s) = d /\ slob_next(m, s) = s + d
           /\ slob_units(m, s + d) = slob_units(mem, s) - d
           /\ slob_next(m, s + d) = slob_next(mem, s)
           /\ \A t \in B \ {s} : SameHead(mem, m, t)
<1> DEFINE u == slob_units(mem, s)
           n == slob_next(mem, s)
           m1 == set_slob(mem, s + d, u - d, n)
<1>1. /\ mem \in Mem /\ B \subseteq Words /\ s \in Words /\ s \in Nat
      /\ u \in Nat /\ n \in 1 .. PageUnits /\ n \in B \cup {None}
      /\ s + u <= PageUnits /\ s + u <= n
      /\ Behind(B, -1, f)
      /\ \A t \in B : s < t => n <= t
  BY ChainFacts DEF Chained
<1> HIDE DEF u, n
<1>2. s + d \in Words /\ u - d \in Nat \ {0} /\ s + d + (u - d) = s + u
  BY <1>1, WordFacts DEF u, Words
<1>3. /\ m1 \in Mem /\ Headed(m1, s + d)
      /\ slob_units(m1, s + d) = u - d /\ slob_next(m1, s + d) = n
      /\ \A w \in Words \ (s + d .. s + d + (u - d) - 1) : m1[w] = mem[w]
  BY <1>1, <1>2, SetSlob
<1>4. m = set_slob(m1, s, d, s + d)
  BY DEF u, n
<1> HIDE DEF m1
<1>5. s + d \in 1 .. PageUnits /\ s + d <= PageUnits
  BY <1>1, <1>2, WordFacts DEF Words
<1>6. /\ m \in Mem /\ Headed(m, s)
      /\ slob_units(m, s) = d /\ slob_next(m, s) = s + d
      /\ \A w \in Words \ (s .. s + d - 1) : m[w] = m1[w]
  BY <1>1, <1>3, <1>4, <1>5, SetSlob
<1>7. SameHead(m1, m, s + d)
  <2>1. Block(m1, s + d) \subseteq Words \ (s .. s + d - 1)
    BY <1>1, <1>2, <1>3, WordFacts DEF Block, Words
  <2>2. s + d + slob_units(m1, s + d) <= PageUnits
    BY <1>1, <1>2, <1>3
  <2> QED
    BY <1>2, <1>3, <1>6, <2>1, <2>2, KeepHead
<1>8. ASSUME NEW t \in B \ {s} PROVE SameHead(mem, m, t)
  <2>1. /\ t \in Words /\ Headed(mem, t) /\ t + slob_units(mem, t) <= PageUnits
        /\ Block(mem, t) \subseteq Words /\ Block(mem, t) \cap Block(mem, s) = {}
    BY ChainFacts, BlocksApart
  <2>2. s + d .. s + d + (u - d) - 1 \subseteq Block(mem, s)
    BY <1>1, <1>2 DEF Block, u
  <2>3. s .. s + d - 1 \subseteq Block(mem, s)
    BY <1>1, <1>2 DEF Block, u
  <2>4. \A w \in Block(mem, t) : m[w] = mem[w]
    BY <1>3, <1>6, <2>1, <2>2, <2>3
  <2> QED
    BY <1>1, <1>6, <2>1, <2>4, KeepHead
<1>9. s + d \notin B /\ \A t \in B : s < t => s + d < t
  BY <1>1, <1>2, WordFacts DEF Words
<1> DEFINE B2 == B \cup {s + d}
<1>10. B2 \subseteq Words
  BY <1>1, <1>2
<1>11. Behind(B2, -1, f)
  <2>1. f \in B \cup {None} /\ f <= s /\ -1 < f /\ \A t \in B : f <= t
    BY <1>1, ChainFacts DEF Behind
  <2> QED
    BY <1>1, <2>1, WordFacts DEF Behind, Words
<1>12. Behind(B2, s, s + d)
  BY <1>1, <1>9, WordFacts DEF Behind, Words
<1>13. Behind(B2, s + d, n)
  <2>1. \A t \in B : t \in Nat
    BY <1>1 DEF Words
  <2> QED
    BY <1>1, <1>2, <2>1 DEF Behind
<1>14. ASSUME NEW t \in B \ {s} PROVE Behind(B2, t, slob_next(mem, t))
  <2>1. /\ slob_next(mem, t) \in B \cup {None} /\ t < slob_next(mem, t)
        /\ t \in Nat /\ slob_next(mem, t) \in 1 .. PageUnits
        /\ \A v \in B : t < v => slob_next(mem, t) <= v
    BY ChainFacts
  <2>2. t < s + d => t < s
    BY <1>1, <1>9, <2>1
  <2> QED
    BY <1>1, <2>1, <2>2 DEF Behind
<1>15. Chained(m, f, B2)
  <2> SUFFICES ASSUME NEW t \in B2
               PROVE  /\ Headed(m, t) /\ Behind(B2, t, slob_next(m, t))
                      /\ t + slob_units(m, t) <= slob_next(m, t)
    BY <1>6, <1>10, <1>11 DEF Chained
  <2>1. CASE t = s
    BY <1>1, <1>6, <1>12, <2>1
  <2>2. CASE t = s + d
    BY <1>1, <1>2, <1>3, <1>7, <1>13, <2>2 DEF SameHead
  <2>3. CASE t \in B \ {s}
    BY <1>8, <1>14, <2>3, ChainFacts DEF SameHead
  <2> QED
    BY <2>1, <2>2, <2>3
<1> QED
  BY <1>2, <1>3, <1>6, <1>7, <1>8, <1>9, <1>15 DEF SameHead, u, n

(* What takes the place of block s in the list when n of its units are     *)
(* taken, and the addresses of the free blocks then.                       *)
Rest(mem, s, n) ==
    IF slob_units(mem, s) = n THEN slob_next(mem, s) ELSE s + n
Left(mem, B, s, n) ==
    (B \ {s}) \cup (IF slob_units(mem, s) = n THEN {} ELSE {s + n})

(* Unlink leaves the free blocks linked in order: the block of which n     *)
(* units are taken has left the list or is shorter.                        *)
LEMMA UnlinkChain ==
    ASSUME NEW mem, NEW f, NEW B, Chained(mem, f, B), NEW s \in B,
           NEW prev,
           \/ prev = None /\ f = s
           \/ prev \in B /\ slob_next(mem, prev) = s,
           NEW n \in 1 .. slob_units(mem, s),
           NEW pg, pg.freelist = f,
           NEW r,
           r = Unlink(pg, [mem |-> mem, block |-> s, prev |-> prev], n)
    PROVE  /\ Chained(r.mem, r.freelist, Left(mem, B, s, n))
           /\ r.units = pg.units - n
           /\ r.mem[s] = mem[s]
           /\ \A t \in B \ {s} : slob_units(r.mem, t) = slob_units(mem, t)
           /\ \A t \in B \ {s} : slob_next(r.mem, t) =
                 IF t = prev THEN Rest(mem, s, n) ELSE slob_next(mem, t)
           /\ slob_units(mem, s) # n =>
                 /\ slob_units(r.mem, s + n) = slob_units(mem, s) - n
                 /\ slob_next(r.mem, s + n) = slob_next(mem, s)
<1> DEFINE u == slob_units(mem, s)
           next == slob_next(mem, s)
           rest == Rest(mem, s, n)
           B2 == Left(mem, B, s, n)
           m1 == IF prev = None THEN mem
                 ELSE set_slob(mem, prev, slob_units(mem, prev), rest)
           m2 == IF u = n THEN m1 ELSE set_slob(m1, rest, u - n, next)
<1>1. /\ mem \in Mem /\ B \subseteq Words /\ s \in Words /\ s \in Nat
      /\ u \in Nat \ {0} /\ next \in 1 .. PageUnits /\ next \in B \cup {None}
      /\ s + u <= PageUnits /\ s + u <= next /\ s < next
      /\ None \notin B /\ f \in Nat /\ n \in Nat \ {0} /\ n <= u
      /\ \A t \in B : t \in Nat /\ f <= t /\ (s < t => next <= t)
  <2>1. mem \in Mem /\ B \subseteq Words
    BY DEF Chained
  <2>2. /\ s \in Words /\ s \in Nat
        /\ u \in Nat \ {0} /\ next \in 1 .. PageUnits
        /\ next \in B \cup {None} /\ s + u <= PageUnits
        /\ s + u <= next /\ s < next /\ f \in Nat
    BY ChainFacts
  <2>3. n \in Nat \ {0} /\ n <= u
    BY <2>2
  <2>4. \A t \in B : t \in Nat /\ f <= t /\ (s < t => next <= t)
    BY ChainFacts
  <2>5. None \notin B
    BY <2>1, WordFacts DEF Words
  <2> HIDE DEF u, next
  <2> QED
    BY <2>1, <2>4, <2>5, <2>2, <2>3
<1> HIDE DEF u, next
<1>2. /\ rest = IF u = n THEN next ELSE s + n
      /\ B2 = (B \ {s}) \cup (IF u = n THEN {} ELSE {s + n})
  BY DEF u, next, Rest, Left
<1> HIDE DEF rest, B2
<1>3. /\ r.mem = m2 /\ r.units = pg.units - n
      /\ r.freelist = IF prev = None THEN rest ELSE f
  <2>1. u - n = 0 <=> u = n
    BY <1>1
  <2> QED
    BY <2>1, <1>2 DEF Unlink, u, next
<1>4. rest \in 1 .. PageUnits /\ s < rest /\ s + n <= rest /\ rest <= next
  BY <1>1, <1>2, WordFacts
<1>5. u # n => rest \in Words /\ u - n \in Nat \ {0} /\ rest + (u - n) = s + u
  BY <1>1, <1>2, WordFacts DEF Words
<1>6. \A t \in B \ {s} : t < s \/ next <= t
  <2> TAKE t \in B \ {s}
  <2>1. t \in Nat /\ s \in Nat /\ (s < t => next <= t) /\ t # s
    BY <1>1
  <2> QED
    BY <2>1
<1>7. prev # None => /\ prev \in B \ {s} /\ prev \in Nat /\ prev < s
                     /\ \A t \in B : t < s => t <= prev
  <2> SUFFICES ASSUME prev # None
               PROVE  /\ prev \in B \ {s} /\ prev \in Nat /\ prev < s
                      /\ \A t \in B : t < s => t <= prev
    OBVIOUS
  <2>1. prev \in B /\ prev < s /\ \A t \in B : prev < t => s <= t
    BY ChainFacts
  <2> QED
    BY <1>1, <2>1
<1>8. prev = None => \A t \in B : s <= t
  BY <1>1
<1>9. /\ m1 \in Mem
      /\ \A w \in Words : \/ prev # None /\ w \in Block(mem, prev)
                        \/ m1[w] = mem[w]
      /\ prev # None => /\ Headed(m1, prev) /\ slob_next(m1, prev) = rest
                        /\ slob_units(m1, prev) = slob_units(mem, prev)
  <2>1. CASE prev = None
    BY <1>1, <2>1
  <2>2. CASE prev # None
    <3> DEFINE up == slob_units(mem, prev)
    <3>1. prev \in Words /\ up \in Nat \ {0} /\ prev + up <= PageUnits
      BY <1>7, <2>2, ChainFacts
    <3>2. Block(mem, prev) = prev .. prev + up - 1
      BY DEF Block
    <3> HIDE DEF up
    <3>3. m1 = set_slob(mem, prev, up, rest)
      BY <2>2 DEF up
    <3> HIDE DEF m1
    <3> QED
      BY <1>1, <1>4, <2>2, <3>1, <3>2, <3>3, SetSlob DEF up
  <2> QED
    BY <2>1, <2>2
<1> HIDE DEF m1
<1>10. /\ m2 \in Mem
       /\ \A w \in Words : w \in s + n .. s + u - 1 \/ m2[w] = m1[w]
       /\ u # n => /\ Headed(m2, rest) /\ slob_next(m2, rest) = next
                   /\ slob_units(m2, rest) = u - n
  <2>1. CASE u = n
    BY <1>9, <2>1
  <2>2. CASE u # n
    <3>1. rest .. rest + (u - n) - 1 = s + n .. s + u - 1
      BY <1>1, <1>2, <1>5, <2>2
    <3>2. rest + (u - n) <= PageUnits
      BY <1>1, <1>5, <2>2
    <3>3. m2 = set_slob(m1, rest, u - n, next)
      BY <2>2
    <3> HIDE DEF m2
    <3> DEFINE more == u - n
    <3>4. more \in Nat \ {0} /\ rest \in Words /\ rest + more <= PageUnits
      BY <1>5, <2>2, <3>2
    <3>5. m2 = set_slob(m1, rest, more, next)
      BY <3>3
    <3>6. rest .. rest + more - 1 = s + n .. s + u - 1
      BY <3>1
    <3> HIDE DEF more
    <3>7. /\ m2 \in Mem /\ Headed(m2, rest)
          /\ slob_units(m2, rest) = more /\ slob_next(m2, rest) = next
          /\ \A w \in Words \ (rest .. rest + more - 1) : m2[w] = m1[w]
      BY <1>1, <1>9, <3>4, <3>5, SetSlob
    <3> QED
      BY <3>6, <3>7 DEF more
  <2> QED
    BY <2>1, <2>2
<1> HIDE DEF m2
<1>11. Block(mem, s) = s .. s + u - 1
  BY DEF Block, u
<1>12. ASSUME NEW t \in B \ {s}
       PROVE  /\ Headed(m2, t) /\ slob_units(m2, t) = slob_units(mem, t)
              /\ slob_next(m2, t) = IF t = prev THEN rest ELSE slob_next(mem, t)
  <2>1. /\ t \in Words /\ Headed(mem, t) /\ t + slob_units(mem, t) <= PageUnits
        /\ Block(mem, t) \subseteq Words /\ Block(mem, t) \cap Block(mem, s) = {}
        /\ prev # None /\ t # prev => Block(mem, t) \cap Block(mem, prev) = {}
    BY <1>7, ChainFacts, BlocksApart
  <2>2. \A w \in Block(mem, t) : m2[w] = m1[w]
    <3>1. \A w \in s + n .. s + u - 1 : w \in Block(mem, s)
      BY <1>1, <1>11
    <3> QED
      BY <1>10, <2>1, <3>1
  <2>3. CASE t = prev
    <3>1. t # None
      BY <1>1
    <3>2. Block(m1, t) = Block(mem, t)
      BY <1>9, <2>3, <3>1 DEF Block
    <3>3. SameHead(m1, m2, t)
      BY <1>9, <1>10, <2>1, <2>2, <2>3, <3>1, <3>2, KeepHead
    <3> QED
      BY <1>9, <2>3, <3>1, <3>3 DEF SameHead
  <2>4. CASE t # prev
    <3>1. \A w \in Block(mem, t) : m2[w] = mem[w]
      BY <1>9, <2>1, <2>2, <2>4
    <3>2. SameHead(mem, m2, t)
      BY <1>1, <1>10, <2>1, <3>1, KeepHead
    <3> QED
      BY <2>4, <3>2 DEF SameHead
  <2> QED
    BY <2>3, <2>4
<1>13. m2[s] = mem[s]
  <2>1. s \in Block(mem, s) /\ s \notin s + n .. s + u - 1
    BY <1>1, <1>11
  <2>2. prev # None => s \notin Block(mem, prev)
    BY <1>7, <2>1, BlocksApart
  <2> QED
    BY <1>1, <1>9, <1>10, <2>1, <2>2
<1>14. B2 \subseteq Words
  BY <1>1, <1>2, <1>5
<1>15. rest \in B2 \cup {None} /\ \A t \in B2 : t <= s \/ rest <= t
  <2>1. \A t \in B2 : t \in B \ {s} \/ t = rest
    BY <1>2
  <2>2. rest \in B2 \cup {None}
    BY <1>1, <1>2
  <2> QED
    BY <1>1, <1>4, <1>6, <2>1, <2>2
<1>16. Behind(B2, -1, r.freelist)
  <2>1. CASE prev = None
    <3>1. \A t \in B2 : rest <= t
      BY <1>1, <1>2, <1>4, <1>8, <1>15, <2>1
    <3> QED
      BY <1>3, <1>4, <1>15, <2>1, <3>1 DEF Behind
  <2>2. CASE prev # None
    <3>1. f \in B2 /\ f # s
      BY <1>1, <1>2, <1>7, <2>2, ChainFacts
    <3>2. \A t \in B2 : f <= t
      BY <1>1, <1>2, <1>4
    <3> QED
      BY <1>1, <1>3, <2>2, <3>1, <3>2 DEF Behind
  <2> QED
    BY <2>1, <2>2
<1>17. ASSUME NEW t \in B \ {s}
       PROVE  /\ Behind(B2, t, IF t = prev THEN rest ELSE slob_next(mem, t))
              /\ t + slob_units(mem, t)
                    <= IF t = prev THEN rest ELSE slob_next(mem, t)
  <2>1. /\ t \in Nat /\ slob_units(mem, t) \in Nat
        /\ slob_next(mem, t) \in 1 .. PageUnits
        /\ slob_next(mem, t) \in B \cup {None} /\ t < slob_next(mem, t)
        /\ t + slob_units(mem, t) <= slob_next(mem, t)
        /\ \A v \in B : t < v => slob_next(mem, t) <= v
    BY ChainFacts
  <2>2. CASE t = prev
    <3>1. t < s /\ slob_next(mem, t) = s /\ \A v \in B : v < s => v <= t
      BY <1>1, <1>7, <2>2
    <3>2. \A v \in B2 : t < v => rest <= v
      BY <1>1, <1>2, <1>4, <1>6, <2>1, <3>1
    <3>3. t < rest /\ t + slob_units(mem, t) <= rest
      BY <1>1, <1>4, <2>1, <3>1
    <3> QED
      BY <1>15, <2>2, <3>2, <3>3 DEF Behind
  <2>3. CASE t # prev
    <3>1. slob_next(mem, t) # s
      <4>1. ASSUME slob_next(mem, t) = s PROVE FALSE
        <5>1. t < s
          BY <2>1, <4>1
        <5>2. prev # None
          BY <1>1, <1>8, <2>1, <5>1
        <5>3. t < prev /\ prev < s /\ prev \in B
          BY <1>7, <2>1, <2>3, <5>1, <5>2
        <5> QED
          BY <1>1, <1>7, <2>1, <4>1, <5>2, <5>3
      <4> QED
        BY <4>1
    <3>2. slob_next(mem, t) \in B2 \cup {None}
      BY <1>2, <2>1, <3>1
    <3>3. t < s => slob_next(mem, t) < s
      BY <1>1, <2>1, <3>1
    <3>4. \A v \in B2 : t < v => slob_next(mem, t) <= v
      BY <1>1, <1>2, <2>1, <3>3, <1>4, <1>6
    <3> QED
      BY <2>1, <2>3, <3>2, <3>4 DEF Behind
  <2> QED
    BY <2>2, <2>3
<1>18. u # n => Behind(B2, rest, next) /\ rest + (u - n) <= next
  <2> SUFFICES ASSUME u # n
               PROVE  Behind(B2, rest, next) /\ rest + (u - n) <= next
    OBVIOUS
  <2>1. rest < next /\ rest + (u - n) <= next
    BY <1>1, <1>4, <1>5
  <2>2. next \in B2 \cup {None}
    BY <1>1, <1>2
  <2>3. \A t \in B2 : rest < t => next <= t
    BY <1>1, <1>2, <1>4, <1>6
  <2> QED
    BY <2>1, <2>2, <2>3 DEF Behind
<1>19. Chained(m2, r.freelist, B2)
  <2> SUFFICES ASSUME NEW t \in B2
               PROVE  /\ Headed(m2, t) /\ Behind(B2, t, slob_next(m2, t))
                      /\ t + slob_units(m2, t) <= slob_next(m2, t)
    BY <1>10, <1>14, <1>16 DEF Chained
  <2>1. CASE t \in B \ {s}
    BY <1>12, <1>17, <2>1
  <2>2. CASE u # n /\ t = rest
    BY <1>10, <1>18, <2>2
  <2> QED
    BY <1>2, <2>1, <2>2
<1>20. u # n => rest = s + n
  BY <1>2
<1> QED
  BY <1>3, <1>10, <1>12, <1>13, <1>19, <1>20 DEF u, next, rest, B2

(* What is taken is all that the free blocks lose, and if no two of them   *)
(* touched, but perhaps prev and s, none do now.                           *)
LEMMA UnlinkCover ==
    ASSUME NEW mem, NEW f, NEW B, Chained(mem, f, B), NEW s \in B,
           NEW prev,
           \/ prev = None /\ f = s
           \/ prev \in B /\ slob_next(mem, prev) = s,
           NEW n \in 1 .. slob_units(mem, s),
           NEW pg, pg.freelist = f,
           NEW r,
           r = Unlink(pg, [mem |-> mem, block |-> s, prev |-> prev], n),
           Merged(mem, B \ {prev})
    PROVE  /\ Merged(r.mem, Left(mem, B, s, n))
           /\ Cover(r.mem, Left(mem, B, s, n))
                 = Cover(mem, B) \ (s .. s + n - 1)
           /\ s .. s + n - 1 \subseteq Cover(mem, B)
           /\ slob_units(r.mem, s) = slob_units(mem, s)
<1> DEFINE u == slob_units(mem, s)
           B2 == Left(mem, B, s, n)
           rm == r.mem
<1>1. /\ rm[s] = mem[s]
      /\ \A t \in B \ {s} : slob_units(rm, t) = slob_units(mem, t)
      /\ \A t \in B \ {s} : slob_next(rm, t) =
            IF t = prev THEN Rest(mem, s, n) ELSE slob_next(mem, t)
      /\ u # n => /\ slob_units(rm, s + n) = u - n
                  /\ slob_next(rm, s + n) = slob_next(mem, s)
  BY UnlinkChain
<1>2. /\ s \in Nat /\ u \in Nat \ {0} /\ n \in Nat \ {0} /\ n <= u
      /\ s < slob_next(mem, s) /\ slob_next(mem, s) \in 1 .. PageUnits
  <2>1. /\ s \in Nat /\ u \in Nat \ {0}
        /\ s < slob_next(mem, s) /\ slob_next(mem, s) \in 1 .. PageUnits
    BY ChainFacts
  <2> QED
    BY <2>1
<1>3. B2 = (B \ {s}) \cup (IF u = n THEN {} ELSE {s + n})
  BY DEF Left
<1>4. Block(mem, s) = s .. s + u - 1
  BY DEF Block
<1>5. \A t \in B \ {s} : Block(rm, t) = Block(mem, t)
  BY <1>1 DEF Block
<1>6. u # n => Block(rm, s + n) = s + n .. s + n + (u - n) - 1
  BY <1>1 DEF Block
<1>7. slob_units(rm, s) = u
  BY <1>1 DEF slob_units
<1> HIDE DEF u, B2, rm
<1>8. Block(mem, s) \ (s .. s + n - 1) =
         IF u = n THEN {} ELSE s + n .. s + n + (u - n) - 1
  BY <1>2, <1>4
<1>9. s .. s + n - 1 \subseteq Block(mem, s)
  BY <1>2, <1>4
<1>10. \A t \in B \ {s} : Block(mem, t) \cap Block(mem, s) = {}
  BY BlocksApart
<1>11. Cover(rm, B2) = Cover(mem, B) \ (s .. s + n - 1)
  <2>1. Cover(mem, B) = Cover(mem, B \ {s}) \cup Block(mem, s)
    BY DEF Cover
  <2>2. Cover(rm, B2) = Cover(mem, B \ {s})
                        \cup (Block(mem, s) \ (s .. s + n - 1))
    <3>1. Cover(rm, B \ {s}) = Cover(mem, B \ {s})
      BY <1>5 DEF Cover
    <3>2. Cover(rm, B2) = Cover(rm, B \ {s})
                          \cup (IF u = n THEN {} ELSE Block(rm, s + n))
      BY <1>3 DEF Cover
    <3> QED
      BY <1>6, <1>8, <3>1, <3>2
  <2>3. Cover(mem, B \ {s}) \cap Block(mem, s) = {}
    BY <1>10 DEF Cover
  <2> QED
    BY <1>9, <2>1, <2>2, <2>3
<1>12. Merged(rm, B2)
  <2> SUFFICES ASSUME NEW t \in B2
               PROVE  \/ slob_next(rm, t) = None
                      \/ t + slob_units(rm, t) < slob_next(rm, t)
    BY DEF Merged
  <2>1. CASE t \in B \ {s} /\ t # prev
    BY <1>1, <2>1 DEF Merged
  <2>2. CASE t \in B \ {s} /\ t = prev
    <3>1. /\ t \in Nat /\ slob_units(mem, t) \in Nat /\ slob_next(mem, t) = s
          /\ t + slob_units(mem, t) <= slob_next(mem, t)
      <4>1. prev # None
        BY <2>2, ChainFacts, WordFacts
      <4> QED
        BY <2>2, <4>1, ChainFacts
    <3>2. s < Rest(mem, s, n) /\ Rest(mem, s, n) \in Nat
      BY <1>2 DEF Rest
    <3> QED
      BY <1>1, <1>2, <2>2, <3>1, <3>2
  <2>3. CASE u # n /\ t = s + n
    <3>1. s # prev
      <4>1. ASSUME s = prev PROVE FALSE
        <5>1. slob_next(mem, s) = s \/ prev = None
          BY <4>1
        <5> QED
          BY <1>2, <4>1, <5>1, ChainFacts, WordFacts
      <4> QED
        BY <4>1
    <3>2. slob_next(mem, s) = None \/ s + u < slob_next(mem, s)
      BY <3>1 DEF Merged, u
    <3>3. s + n + (u - n) = s + u
      BY <1>2
    <3> QED
      BY <1>1, <2>3, <3>2, <3>3 DEF u
  <2> QED
    BY <1>3, <2>1, <2>2, <2>3
<1>13. s .. s + n - 1 \subseteq Cover(mem, B)
  BY <1>9 DEF Cover
<1> QED
  BY <1>7, <1>11, <1>12, <1>13 DEF u, B2, rm

(* The page after slob_page_alloc took n units at the aligned address in   *)
(* the block s.                                                            *)
LEMMA AllocChain ==
    ASSUME NEW pg, NEW B, Chained(pg.mem, pg.freelist, B),
           Merged(pg.mem, B), NEW min, min.block \in B,
           \/ min.prev = None /\ pg.freelist = min.block
           \/ min.prev \in B /\ slob_next(pg.mem, min.prev) = min.block,
           NEW d \in Nat, NEW n \in Nat \ {0},
           d + n <= slob_units(pg.mem, min.block),
           NEW r, r = Unlink(pg, SplitHead(pg, min, d), n)
    PROVE  /\ \E B2 : /\ Chained(r.mem, r.freelist, B2) /\ Merged(r.mem, B2)
                      /\ Cover(r.mem, B2) = Cover(pg.mem, B)
                            \ (min.block + d .. min.block + d + n - 1)
           /\ min.block + d .. min.block + d + n - 1 \subseteq Cover(pg.mem, B)
           /\ r.units = pg.units - n
           /\ slob_units(r.mem, min.block + d)
                 \in n .. slob_units(pg.mem, min.block)
<1> DEFINE mem == pg.mem
           f == pg.freelist
           s == min.block
           prev == min.prev
           at == SplitHead(pg, min, d)
           u == slob_units(mem, s)
           next == slob_next(mem, s)
<1>1. /\ s \in B /\ d + n <= slob_units(mem, s)
      /\ \/ prev = None /\ f = s
         \/ prev \in B /\ slob_next(mem, prev) = s
      /\ r = Unlink(pg, at, n)
  OBVIOUS
<1>2. /\ d = 0 => at = [mem |-> mem, block |-> s, prev |-> prev]
      /\ d # 0 => at = [mem |-> set_slob(set_slob(mem, s + d, u - d, next),
                                        s, d, s + d),
                        block |-> s + d,
                        prev |-> s]
  BY DEF SplitHead
<1> HIDE DEF s, prev, at
<1>3. /\ s \in Nat /\ s \in Words /\ u \in Nat \ {0} /\ n <= u /\ d < u
      /\ next \in 1 .. PageUnits
  <2>1. /\ s \in Nat /\ s \in Words /\ u \in Nat \ {0}
        /\ next \in 1 .. PageUnits
    BY <1>1, ChainFacts
  <2> QED
    BY <1>1, <2>1
<1>4. CASE d = 0
  <2>1. at = [mem |-> mem, block |-> s, prev |-> prev]
    BY <1>4, <1>2
  <2>2. r = Unlink(pg, [mem |-> mem, block |-> s, prev |-> prev], n)
    BY <1>1, <2>1
  <2>3. n \in 1 .. slob_units(mem, s)
    BY <1>3
  <2>4. /\ Chained(r.mem, r.freelist, Left(mem, B, s, n))
        /\ r.units = pg.units - n
    BY <1>1, <2>2, <2>3, UnlinkChain
  <2>5. Merged(mem, B \ {prev})
    BY DEF Merged
  <2>6. /\ Merged(r.mem, Left(mem, B, s, n))
        /\ Cover(r.mem, Left(mem, B, s, n)) = Cover(mem, B) \ (s .. s + n - 1)
        /\ s .. s + n - 1 \subseteq Cover(mem, B)
        /\ slob_units(r.mem, s) = u
    BY <1>1, <2>2, <2>3, <2>5, UnlinkCover
  <2>7. s + d = s /\ u \in n .. u
    BY <1>3, <1>4
  <2> QED
    BY <2>4, <2>6, <2>7 DEF s, u
<1>5. CASE d # 0
  <2> DEFINE m == set_slob(set_slob(mem, s + d, u - d, next), s, d, s + d)
             B1 == B \cup {s + d}
  <2>1. at = [mem |-> m, block |-> s + d, prev |-> s]
    BY <1>5, <1>2
  <2>2. m = set_slob(set_slob(mem, s + d, slob_units(mem, s) - d,
                               slob_next(mem, s)), s, d, s + d)
    OBVIOUS
  <2> HIDE DEF m
  <2>3. /\ Chained(m, f, B1) /\ s + d \notin B /\ s + d \in Words
        /\ slob_units(m, s) = d /\ slob_next(m, s) = s + d
        /\ slob_units(m, s + d) = u - d /\ slob_next(m, s + d) = next
        /\ \A t \in B \ {s} : SameHead(mem, m, t)
    <3>1. s \in B /\ d \in Nat \ {0} /\ d < slob_units(mem, s)
      BY <1>3, <1>5, <1>1
    <3> QED
      BY <2>2, <3>1, SplitChain
  <2> HIDE DEF u, next
  <2>4. r = Unlink(pg, [mem |-> m, block |-> s + d, prev |-> s], n)
    BY <1>1, <2>1
  <2>5. n \in 1 .. slob_units(m, s + d) /\ s + d \in B1 /\ s \in B1
    <3>1. d + n <= u /\ s \in B
      BY <1>1 DEF u
    <3> QED
      BY <1>3, <2>3, <3>1 DEF B1
  <2> HIDE DEF B1
  <2>6. /\ Chained(r.mem, r.freelist, Left(m, B1, s + d, n))
        /\ r.units = pg.units - n
    BY <2>3, <2>4, <2>5, UnlinkChain
  <2>7. Merged(m, B1 \ {s})
    <3> SUFFICES ASSUME NEW t \in B1 \ {s}
                 PROVE  \/ slob_next(m, t) = None
                        \/ t + slob_units(m, t) < slob_next(m, t)
      BY DEF Merged
    <3>1. t \in B \ {s} \/ t = s + d
      BY DEF B1
    <3>2. CASE t \in B \ {s}
      BY <2>3, <3>2 DEF Merged, SameHead
    <3>3. CASE t = s + d
      <4>1. next = None \/ s + u < next
        BY <1>1 DEF Merged, u, next
      <4>2. s + d + (u - d) = s + u
        BY <1>3
      <4> QED
        BY <2>3, <3>3, <4>1, <4>2
    <3> QED
      BY <3>2, <3>3, <3>1
  <2>8. /\ Merged(r.mem, Left(m, B1, s + d, n))
        /\ Cover(r.mem, Left(m, B1, s + d, n))
              = Cover(m, B1) \ (s + d .. s + d + n - 1)
        /\ s + d .. s + d + n - 1 \subseteq Cover(m, B1)
        /\ slob_units(r.mem, s + d) = slob_units(m, s + d)
    BY <2>3, <2>4, <2>5, <2>7, UnlinkCover
  <2>9. Cover(m, B1) = Cover(mem, B)
    <3>1. \A t \in B \ {s} : Block(m, t) = Block(mem, t)
      BY <2>3 DEF SameHead, Block
    <3>2. Block(m, s) \cup Block(m, s + d) = Block(mem, s)
      <4>1. Block(mem, s) = s .. s + u - 1
        BY DEF Block, u
      <4>2. /\ Block(m, s) = s .. s + d - 1
            /\ Block(m, s + d) = s + d .. s + d + (u - d) - 1
        BY <2>3 DEF Block
      <4> QED
        BY <1>3, <4>1, <4>2
    <3>3. Cover(m, B1) = Cover(m, B \ {s})
                         \cup (Block(m, s) \cup Block(m, s + d))
      BY <1>1 DEF Cover, B1
    <3>4. Cover(mem, B) = Cover(mem, B \ {s}) \cup Block(mem, s)
      BY <1>1 DEF Cover
    <3>5. Cover(m, B \ {s}) = Cover(mem, B \ {s})
      BY <3>1 DEF Cover
    <3> QED
      BY <3>2, <3>3, <3>4, <3>5
  <2>10. u - d \in n .. u
    <3>1. d + n <= u /\ s \in B
      BY <1>1 DEF u
    <3> QED
      BY <1>3, <3>1
  <2> QED
    BY <2>3, <2>6, <2>8, <2>9, <2>10 DEF s, u
<1> QED
  BY <1>4, <1>5

-----------------------------------------------------------------------------
(* The loops over the free blocks.                                         *)

(* The equation that defines Met.                                          *)
Along(pg, g) ==
    [k \in 0 .. PageUnits |->
        IF k = 0 THEN pg.freelist
        ELSE IF g[k - 1] = None \/ slob_last(pg.mem, g[k - 1]) THEN None
        ELSE slob_next(pg.mem, g[k - 1])]

(* A loop goes from block to block and ends at the end of the page.        *)
LEMMA MetSteps ==
    ASSUME NEW pg, NEW B, Chained(pg.mem, pg.freelist, B)
    PROVE  /\ Met(pg)[0] = pg.freelist
           /\ \A k \in 0 .. PageUnits : Met(pg)[k] \in B \cup {None}
           /\ \A k \in 0 .. PageUnits - 1 :
                 Met(pg)[k + 1] = IF Met(pg)[k] = None THEN None
                                  ELSE slob_next(pg.mem, Met(pg)[k])
<1> DEFINE mem == pg.mem
           S == B \cup {None}
           f == [s \in S |-> IF s = None THEN None ELSE slob_next(mem, s)]
           W == Met(pg)
<1>1. f \in [S -> S] /\ pg.freelist \in S
  BY ChainFacts
<1>2. PICK w : Iterates(w, S, f, pg.freelist)
  <2> HIDE DEF f, S
  <2> QED
    BY <1>1, IteratesExists
<1>3. /\ w[0] = pg.freelist
      /\ \A k \in Nat : /\ w[k] \in S
                        /\ w[k + 1] = IF w[k] = None THEN None
                                      ELSE slob_next(mem, w[k])
  BY <1>2 DEF Iterates
<1>4. \A s \in B : slob_last(mem, s) <=> slob_next(mem, s) = None
  BY ChainFacts, WordFacts DEF slob_last
<1> DEFINE g == [k \in 0 .. PageUnits |-> w[k]]
<1>5. g = Along(pg, g)
  <2>1. ASSUME NEW k \in 0 .. PageUnits PROVE g[k] = Along(pg, g)[k]
    <3>1. CASE k = 0
      BY <1>3, <3>1 DEF Along
    <3>2. CASE k # 0
      <4>1. k - 1 \in 0 .. PageUnits /\ (k - 1) + 1 = k /\ k - 1 \in Nat
        BY <3>2, WordFacts
      <4>2. g[k] = IF w[k - 1] = None THEN None ELSE slob_next(mem, w[k - 1])
        BY <1>3, <4>1
      <4>3. w[k - 1] \in S /\ g[k - 1] = w[k - 1]
        BY <1>3, <4>1
      <4>4. Along(pg, g)[k] =
               IF w[k - 1] = None \/ slob_last(mem, w[k - 1]) THEN None
               ELSE slob_next(mem, w[k - 1])
        BY <3>2, <4>3 DEF Along
      <4> QED
        BY <1>4, <4>2, <4>3, <4>4
    <3> QED
      BY <3>1, <3>2
  <2>2. /\ DOMAIN g = 0 .. PageUnits /\ DOMAIN Along(pg, g) = 0 .. PageUnits
        /\ Along(pg, g) = [k \in 0 .. PageUnits |-> Along(pg, g)[k]]
    BY DEF Along
  <2> HIDE DEF g
  <2>3. g = [k \in 0 .. PageUnits |-> g[k]]
    BY DEF g
  <2> QED
    BY <2>1, <2>2, <2>3
<1>6. W = Along(pg, W)
  <2>1. W = CHOOSE v : v = Along(pg, v)
    BY DEF Met, Along
  <2> HIDE DEF W, g
  <2> QED
    BY <1>5, <2>1, Zenon
<1> HIDE DEF W
<1>7. /\ W[0] = pg.freelist
      /\ \A k \in 0 .. PageUnits - 1 :
            W[k + 1] = IF W[k] = None \/ slob_last(mem, W[k]) THEN None
                       ELSE slob_next(mem, W[k])
  <2>1. Along(pg, W)[0] = pg.freelist
    BY WordFacts DEF Along
  <2>2. ASSUME NEW k \in 0 .. PageUnits - 1
        PROVE  Along(pg, W)[k + 1] =
                  IF W[k] = None \/ slob_last(mem, W[k]) THEN None
                  ELSE slob_next(mem, W[k])
    <3>1. k + 1 \in 0 .. PageUnits /\ k + 1 # 0 /\ (k + 1) - 1 = k
      BY WordFacts
    <3> QED
      BY <3>1 DEF Along
  <2> QED
    BY <1>6, <2>1, <2>2
<1> DEFINE P == {k \in Nat : k <= PageUnits => W[k] \in S}
<1>8. \A k \in Nat : k \in P
  <2>1. 0 \in P
    BY <1>1, <1>7
  <2>2. ASSUME NEW k \in Nat, k \in P PROVE k + 1 \in P
    <3> SUFFICES ASSUME k + 1 <= PageUnits PROVE W[k + 1] \in S
      OBVIOUS
    <3>1. k \in 0 .. PageUnits - 1 /\ W[k] \in S
      BY <2>2, WordFacts
    <3>2. W[k] \in B => slob_next(mem, W[k]) \in S
      BY ChainFacts
    <3> QED
      BY <1>7, <3>1, <3>2
  <2> HIDE DEF P
  <2> QED
    BY <2>1, <2>2, SetInduction
<1>9. \A k \in 0 .. PageUnits : W[k] \in S
  BY <1>8, WordFacts
<1>10. \A k \in 0 .. PageUnits - 1 :
          W[k + 1] = IF W[k] = None THEN None ELSE slob_next(mem, W[k])
  BY <1>4, <1>7, <1>9, WordFacts
<1> QED
  BY <1>7, <1>9, <1>10 DEF W

(* The loops meet every free block, in the order of the addresses.         *)
LEMMA FreeBlocksFacts ==
    ASSUME NEW pg, NEW B, Chained(pg.mem, pg.freelist, B)
    PROVE  /\ FreeBlocks(pg) \in Seq(B)
           /\ Elements(FreeBlocks(pg)) = B
           /\ Len(FreeBlocks(pg)) \in Nat
           /\ DOMAIN FreeBlocks(pg) = 1 .. Len(FreeBlocks(pg))
           /\ B # {} => /\ Len(FreeBlocks(pg)) > 0
                        /\ FreeBlocks(pg)[1] = pg.freelist
           /\ \A i \in 1 .. Len(FreeBlocks(pg)) - 1 :
                 slob_next(pg.mem, FreeBlocks(pg)[i]) = FreeBlocks(pg)[i + 1]
           /\ \A i \in 1 .. Len(FreeBlocks(pg)) :
                 /\ FreeBlocks(pg)[i] \in B
                 /\ i = Len(FreeBlocks(pg)) =>
                       slob_next(pg.mem, FreeBlocks(pg)[i]) = None
<1> DEFINE W == Met(pg)
           mem == pg.mem
<1>1. /\ W[0] = pg.freelist
      /\ \A k \in 0 .. PageUnits : W[k] \in B \cup {None}
      /\ \A k \in 0 .. PageUnits - 1 :
            W[k + 1] = IF W[k] = None THEN None ELSE slob_next(mem, W[k])
  BY MetSteps
<1> HIDE DEF W
<1>2. /\ \A s \in B : s \in Nat /\ s < PageUnits /\ s < slob_next(mem, s)
                      /\ slob_next(mem, s) \in 1 .. PageUnits
      /\ pg.freelist \in Nat /\ \A s \in B : pg.freelist <= s
      /\ \A s, t \in B : s < t => slob_next(mem, s) <= t
      /\ B # {} => pg.freelist \in B
      /\ None \notin B /\ None = PageUnits /\ PageUnits \in Nat
  <2>1. /\ \A s \in B : /\ s \in Nat /\ s < PageUnits /\ s < slob_next(mem, s)
                         /\ slob_next(mem, s) \in 1 .. PageUnits
                         /\ \A t \in B : s < t => slob_next(mem, s) <= t
    BY ChainFacts
  <2>2. /\ pg.freelist \in Nat /\ \A s \in B : pg.freelist <= s
        /\ B # {} => pg.freelist \in B
    BY ChainFacts
  <2>3. None \notin B
    BY <2>1, WordFacts
  <2> QED
    BY <2>1, <2>2, <2>3, WordFacts
<1>3. \A k \in 0 .. PageUnits : W[k] # None => k <= W[k]
  <2> DEFINE P == {k \in Nat : k <= PageUnits /\ W[k] # None => k <= W[k]}
  <2>1. 0 \in P
    BY <1>1, <1>2
  <2>2. ASSUME NEW k \in Nat, k \in P PROVE k + 1 \in P
    <3> SUFFICES ASSUME k + 1 <= PageUnits, W[k + 1] # None
                 PROVE  k + 1 <= W[k + 1]
      OBVIOUS
    <3>1. k \in 0 .. PageUnits - 1 /\ k \in 0 .. PageUnits
      BY <1>2
    <3>2. W[k] # None /\ W[k] \in B /\ W[k + 1] = slob_next(mem, W[k])
      BY <1>1, <3>1
    <3>3. k <= W[k]
      BY <2>2, <3>1, <3>2
    <3> QED
      BY <1>2, <3>2, <3>3
  <2> HIDE DEF P
  <2>3. \A k \in Nat : k \in P
    BY <2>1, <2>2, SetInduction
  <2> QED
    BY <1>2, <2>3 DEF P
<1>4. PICK n \in 0 .. PageUnits : /\ W[n] = None
                                  /\ \A k \in 0 .. PageUnits : k < n => W[k] # None
  <2> DEFINE E == {k \in 0 .. PageUnits : W[k] = None}
  <2>1. PageUnits \in E
    BY <1>1, <1>2, <1>3
  <2>2. E \in SUBSET Nat /\ E # {}
    BY <1>2, <2>1
  <2>3. PICK n \in E : \A k \in E : n <= k
    <3> HIDE DEF E
    <3> QED
      BY <2>2, LeastExists
  <2> QED
    BY <1>2, <2>3
<1>5. \A k \in 0 .. PageUnits : n <= k => W[k] = None
  <2> DEFINE P == {k \in Nat : n <= k /\ k <= PageUnits => W[k] = None}
  <2>1. 0 \in P
    BY <1>4
  <2>2. ASSUME NEW k \in Nat, k \in P PROVE k + 1 \in P
    <3> SUFFICES ASSUME n <= k + 1, k + 1 <= PageUnits PROVE W[k + 1] = None
      OBVIOUS
    <3>1. CASE n = k + 1
      BY <1>4, <3>1
    <3>2. CASE n # k + 1
      <4>1. n <= k /\ k \in 0 .. PageUnits - 1
        BY <1>2, <3>2
      <4> QED
        BY <1>1, <1>2, <2>2, <4>1
    <3> QED
      BY <3>1, <3>2
  <2> HIDE DEF P
  <2>3. \A k \in Nat : k \in P
    BY <2>1, <2>2, SetInduction
  <2> QED
    BY <1>2, <2>3 DEF P
<1>6. {k \in 0 .. PageUnits - 1 : W[k] # None} = 0 .. n - 1
  BY <1>2, <1>4, <1>5
<1>7. Cardinality(0 .. n - 1) = n
  <2>1. 0 \in Int /\ n - 1 \in Int
    BY <1>2
  <2>2. Cardinality(0 .. n - 1) = IF 0 > n - 1 THEN 0 ELSE n - 1 - 0 + 1
    BY <2>1, FS_Interval, Zenon
  <2> QED
    BY <1>2, <2>2
<1>8. FreeBlocks(pg) = [k \in 1 .. n |-> W[k - 1]]
  BY <1>6, <1>7 DEF FreeBlocks, W
<1> DEFINE s == FreeBlocks(pg)
<1>9. \A k \in 1 .. n : W[k - 1] \in B
  BY <1>1, <1>2, <1>4
<1>10. s \in Seq(B) /\ Len(s) = n /\ DOMAIN s = 1 .. n
  BY <1>8, <1>9
<1>11. Elements(s) = B
  <2>1. Elements(s) \subseteq B
    BY <1>8, <1>9, <1>10 DEF Elements
  <2>2. ASSUME NEW b \in B PROVE b \in Elements(s)
    <3>1. SUFFICES ASSUME \A k \in 0 .. n - 1 : W[k] # b PROVE FALSE
      <4>1. ASSUME NEW k \in 0 .. n - 1, W[k] = b PROVE b \in Elements(s)
        <5>1. k + 1 \in 1 .. n /\ s[k + 1] = W[k]
          BY <1>8
        <5> QED
          BY <1>10, <4>1, <5>1 DEF Elements
      <4> QED
        BY <4>1
    <3> DEFINE P == {k \in Nat : k <= n => W[k] <= b}
    <3>2. 0 \in P
      BY <1>1, <1>2
    <3>3. ASSUME NEW k \in Nat, k \in P PROVE k + 1 \in P
      <4> SUFFICES ASSUME k + 1 <= n PROVE W[k + 1] <= b
        OBVIOUS
      <4>1. k \in 0 .. n - 1 /\ k \in 0 .. PageUnits - 1
        BY <1>2
      <4>2. k \in 0 .. PageUnits /\ k < n /\ k <= n
        BY <1>2, <4>1
      <4>3. W[k] \in B /\ W[k] <= b
        BY <1>1, <1>4, <3>3, <4>2
      <4>4. W[k] \in B /\ W[k] # b /\ W[k] <= b
        BY <3>1, <4>1, <4>3
      <4>5. W[k] < b
        BY <1>2, <4>4
      <4>6. W[k + 1] = slob_next(mem, W[k])
        BY <1>1, <1>2, <4>1, <4>4
      <4> QED
        BY <1>2, <4>4, <4>5, <4>6
    <3> HIDE DEF P
    <3>4. \A k \in Nat : k \in P
      BY <3>2, <3>3, SetInduction
    <3>5. W[n] <= b
      BY <1>2, <3>4 DEF P
    <3> QED
      BY <1>2, <1>4, <3>5
  <2> QED
    BY <2>1, <2>2
<1>12. B # {} => n > 0 /\ s[1] = pg.freelist
  <2>1. B # {} => n # 0
    BY <1>1, <1>2, <1>4
  <2> QED
    BY <1>1, <1>2, <1>8, <2>1
<1>13. ASSUME NEW i \in 1 .. n
       PROVE  /\ s[i] \in B
              /\ i # n => slob_next(mem, s[i]) = s[i + 1]
              /\ i = n => slob_next(mem, s[i]) = None
  <2>1. /\ s[i] = W[i - 1] /\ i - 1 \in 0 .. PageUnits - 1 /\ (i - 1) + 1 = i
        /\ i # n => s[i + 1] = W[i]
    BY <1>2, <1>8
  <2>2. W[i - 1] \in B /\ W[i - 1] # None
    BY <1>2, <1>9
  <2>3. W[i] = slob_next(mem, s[i])
    BY <1>1, <2>1, <2>2
  <2> QED
    BY <1>4, <2>1, <2>2, <2>3
<1> HIDE DEF s
<1>14. \A i \in 1 .. n - 1 : i \in 1 .. n /\ i # n
  OBVIOUS
<1> QED
  BY <1>10, <1>11, <1>12, <1>13, <1>14 DEF s

-----------------------------------------------------------------------------
(* The choice of a block.                                                  *)

(* What the loop of slob_page_alloc remembers of the i-th block, and       *)
(* whether the request fits into it.                                       *)
Choice(pg, blocks, units, align, i) ==
    [block |-> blocks[i],
     prev |-> IF i = 1 THEN None ELSE blocks[i - 1],
     space |-> slob_units(pg.mem, blocks[i]) - units + Delta(blocks[i], align)]

Fits(pg, blocks, units, align, i) ==
    slob_units(pg.mem, blocks[i]) >= units + Delta(blocks[i], align)

NoChoice == [block |-> None, prev |-> None, space |-> -1]

(* One turn of the loop.                                                   *)
Turn(pg, blocks, units, align, i, min) ==
    IF /\ Fits(pg, blocks, units, align, i)
       /\ \/ slob_units(pg.mem, blocks[i])
                - (units + Delta(blocks[i], align)) < min.space
          \/ min.block = None
    THEN Choice(pg, blocks, units, align, i) ELSE min

Turns(pg, blocks, units, align, g) ==
    [k \in 0 .. Len(blocks) |->
        IF k = 0 THEN NoChoice ELSE Turn(pg, blocks, units, align, k, g[k - 1])]

(* The loop finds a block in which the request fits, with the one before   *)
(* it, or there is none.                                                   *)
LEMMA MinBlockFacts ==
    ASSUME NEW pg, NEW B, NEW blocks \in Seq(B), None \notin B,
           NEW units, NEW align
    PROVE  \/ /\ MinBlock(pg, blocks, units, align) = NoChoice
              /\ \A i \in 1 .. Len(blocks) : ~ Fits(pg, blocks, units, align, i)
           \/ \E i \in 1 .. Len(blocks) :
                 /\ Fits(pg, blocks, units, align, i)
                 /\ MinBlock(pg, blocks, units, align)
                       = Choice(pg, blocks, units, align, i)
<1> DEFINE n == Len(blocks)
           C(i) == Choice(pg, blocks, units, align, i)
           F(i) == Fits(pg, blocks, units, align, i)
           T(i, m) == Turn(pg, blocks, units, align, i, m)
           M == {NoChoice} \cup {C(i) : i \in 1 .. n}
           S == Nat \X M
           f == [q \in S |-> <<q[1] + 1, IF q[1] + 1 \in 1 .. n
                                         THEN T(q[1] + 1, q[2]) ELSE q[2]>>]
           x == <<0, NoChoice>>
<1>1. n \in Nat
  OBVIOUS
<1> HIDE DEF n
<1>2. \A i \in 1 .. n, m \in M : T(i, m) \in M
  BY DEF Turn
<1>3. f \in [S -> S] /\ x \in S
  <2>1. \A q \in S : f[q] \in S
    <3> TAKE q \in S
    <3>1. q[1] + 1 \in Nat /\ q[2] \in M
      OBVIOUS
    <3> HIDE DEF M, T
    <3> QED
      BY <1>2, <3>1
  <2> QED
    BY <2>1
<1>4. PICK w : Iterates(w, S, f, x)
  <2> HIDE DEF f, S, x
  <2> QED
    BY <1>3, IteratesExists
<1>5. /\ w[0] = x
      /\ \A k \in Nat : w[k] \in S /\ w[k + 1] = f[w[k]]
  BY <1>4 DEF Iterates
<1> DEFINE P == {k \in Nat : w[k][1] = k}
<1>6. \A k \in Nat : k \in P
  <2>1. 0 \in P
    BY <1>5
  <2>2. ASSUME NEW k \in Nat, k \in P PROVE k + 1 \in P
    <3>1. w[k] \in S /\ w[k][1] = k /\ w[k + 1] = f[w[k]]
      BY <1>5, <2>2
    <3>2. f[w[k]][1] = k + 1
      <4> HIDE DEF S, T
      <4> QED
        BY <3>1
    <3> QED
      BY <3>1, <3>2
  <2> HIDE DEF P
  <2> QED
    BY <2>1, <2>2, SetInduction
<1> DEFINE g == [k \in 0 .. n |-> w[k][2]]
           V == Turns(pg, blocks, units, align, g)
<1>7. g = V
  <2>1. ASSUME NEW k \in 0 .. n PROVE g[k] = V[k]
    <3>1. CASE k = 0
      BY <1>5, <3>1 DEF Turns
    <3>2. CASE k # 0
      <4>1. k - 1 \in 0 .. n /\ (k - 1) + 1 = k /\ k - 1 \in Nat /\ k \in 1 .. n
        BY <1>1, <3>2
      <4>2. w[k - 1][1] = k - 1 /\ w[k - 1] \in S /\ w[k] = f[w[k - 1]]
        BY <1>5, <1>6, <4>1
      <4>3. g[k] = T(k, w[k - 1][2]) /\ g[k - 1] = w[k - 1][2]
        <5> HIDE DEF T, S
        <5> QED
          BY <4>1, <4>2
      <4>4. V[k] = T(k, g[k - 1])
        BY <3>2, <4>1 DEF Turns, n
      <4> QED
        BY <4>3, <4>4
    <3> QED
      BY <3>1, <3>2
  <2>2. V = [k \in 0 .. n |-> V[k]]
    BY DEF Turns, n
  <2>3. g = [k \in 0 .. n |-> g[k]]
    OBVIOUS
  <2> HIDE DEF g, V
  <2> QED
    BY <2>1, <2>2, <2>3
<1> DEFINE best == CHOOSE h : h = Turns(pg, blocks, units, align, h)
<1>8. best = Turns(pg, blocks, units, align, best)
  <2> HIDE DEF g
  <2> QED
    BY <1>7, Zenon
<1>9. MinBlock(pg, blocks, units, align) = best[n]
  BY DEF MinBlock, Turns, Turn, Fits, Choice, NoChoice, n
<1> HIDE DEF best
<1>10. /\ best[0] = NoChoice
       /\ \A k \in 1 .. n : best[k] = T(k, best[k - 1])
  <2>1. Turns(pg, blocks, units, align, best)[0] = NoChoice
    BY <1>1 DEF Turns, n
  <2>2. \A k \in 1 .. n :
           Turns(pg, blocks, units, align, best)[k] = T(k, best[k - 1])
    BY <1>1 DEF Turns, n
  <2> QED
    BY <1>8, <2>1, <2>2
<1> DEFINE I(k) == \/ best[k] = NoChoice /\ \A i \in 1 .. k : ~ F(i)
                   \/ \E i \in 1 .. k : F(i) /\ best[k] = C(i)
           Q == {k \in Nat : k <= n => I(k)}
<1>11. \A k \in Nat : k \in Q
  <2>1. 0 \in Q
    BY <1>10
  <2>2. ASSUME NEW k \in Nat, k \in Q PROVE k + 1 \in Q
    <3> SUFFICES ASSUME k + 1 <= n PROVE I(k + 1)
      OBVIOUS
    <3>1. k + 1 \in 1 .. n /\ (k + 1) - 1 = k /\ k <= n
      BY <1>1
    <3>2. I(k) /\ best[k + 1] = T(k + 1, best[k])
      BY <1>10, <2>2, <3>1
    <3>3. \A i \in 1 .. k + 1 : i \in 1 .. k \/ i = k + 1
      OBVIOUS
    <3>4. \A i \in 1 .. k : i \in 1 .. k + 1
      OBVIOUS
    <3>5. CASE best[k + 1] = C(k + 1) /\ F(k + 1)
      BY <3>1, <3>5
    <3>6. CASE best[k + 1] = best[k] /\ best[k] # NoChoice
      BY <3>2, <3>4, <3>6
    <3>7. CASE best[k + 1] = best[k] /\ best[k] = NoChoice
      <4>1. ~ F(k + 1)
        <5>1. NoChoice.block = None /\ C(k + 1).block = blocks[k + 1]
          BY DEF NoChoice, Choice
        <5>2. blocks[k + 1] # None
          BY <3>1 DEF n
        <5> QED
          BY <3>2, <3>7, <5>1, <5>2 DEF Turn
      <4>2. \A i \in 1 .. k : C(i) # NoChoice
        <5> TAKE i \in 1 .. k
        <5>1. blocks[i] # None
          BY <3>1 DEF n
        <5> QED
          BY <5>1 DEF NoChoice, Choice
      <4> QED
        BY <3>2, <3>3, <3>7, <4>1, <4>2
    <3> QED
      BY <3>2, <3>5, <3>6, <3>7 DEF Turn
  <2> HIDE DEF Q
  <2> QED
    BY <2>1, <2>2, SetInduction
<1>12. I(n)
  BY <1>1, <1>11
<1> QED
  BY <1>9, <1>12 DEF n

(* How far a block is moved is less than the alignment, and what is moved  *)
(* is aligned.                                                             *)
LEMMA DeltaFacts ==
    ASSUME NEW s \in Nat, NEW align \in Nat \ {0}
    PROVE  /\ Delta(s, align) \in 0 .. align - 1
           /\ (s + Delta(s, align)) % align = 0
<1> DEFINE d == (-s) % align
           q == (-s) \div align
           t == s + d
           e == t % align
           p == t \div align
<1>1. /\ d \in 0 .. align - 1 /\ q \in Int
      /\ -s = align * q + d
  OBVIOUS
<1>2. /\ e \in 0 .. align - 1 /\ p \in Int
      /\ t = align * p + e
  BY <1>1
<1>3. t = align * (-q)
  BY <1>1
<1> HIDE DEF d, q, e, p
<1>4. e = align * (-q - p)
  BY <1>1, <1>2, <1>3
<1> DEFINE k == -q - p
<1>5. k \in Int /\ e = align * k
  BY <1>1, <1>2, <1>4
<1> HIDE DEF k
<1>6. k >= 1 => align * k >= align
  BY <1>5
<1>7. k <= -1 => align * k <= -align
  BY <1>5
<1>8. k = 0 => align * k = 0
  OBVIOUS
<1>9. e = 0
  BY <1>2, <1>5, <1>6, <1>7, <1>8
<1> QED
  BY <1>1, <1>9 DEF Delta, d, e

(* What find_min_block finds: nothing, when the request fits into no       *)
(* block, or a block in which it fits, with the one before it.             *)
LEMMA FindFacts ==
    ASSUME NEW pg, NEW B, Chained(pg.mem, pg.freelist, B),
           NEW units \in Nat, NEW align \in Nat \ {0},
           NEW min, min = find_min_block(pg, units, align)
    PROVE  \/ /\ min.space = -1
              /\ \A s \in B : slob_units(pg.mem, s) < units + Delta(s, align)
           \/ /\ min.space \in Nat /\ min.block \in B
              /\ slob_units(pg.mem, min.block)
                    >= units + Delta(min.block, align)
              /\ \/ min.prev = None /\ pg.freelist = min.block
                 \/ /\ min.prev \in B
                    /\ slob_next(pg.mem, min.prev) = min.block
<1> DEFINE blocks == FreeBlocks(pg)
           n == Len(blocks)
<1>1. /\ blocks \in Seq(B) /\ Elements(blocks) = B /\ n \in Nat
      /\ DOMAIN blocks = 1 .. n
      /\ B # {} => n > 0 /\ blocks[1] = pg.freelist
      /\ \A i \in 1 .. n - 1 : slob_next(pg.mem, blocks[i]) = blocks[i + 1]
      /\ \A i \in 1 .. n : blocks[i] \in B
  BY FreeBlocksFacts
<1>2. None \notin B
  BY ChainFacts, WordFacts
<1>3. min = MinBlock(pg, blocks, units, align)
  BY DEF find_min_block
<1>4. \A s \in B : /\ slob_units(pg.mem, s) \in Nat
                   /\ Delta(s, align) \in Nat
  <2> TAKE s \in B
  <2>1. s \in Nat /\ slob_units(pg.mem, s) \in Nat
    BY ChainFacts
  <2>2. Delta(s, align) \in 0 .. align - 1
    BY <2>1, DeltaFacts
  <2> QED
    BY <2>1, <2>2
<1> HIDE DEF blocks, n
<1>5. CASE /\ min = NoChoice
           /\ \A i \in 1 .. n : ~ Fits(pg, blocks, units, align, i)
  <2>1. ASSUME NEW s \in B
        PROVE  slob_units(pg.mem, s) < units + Delta(s, align)
    <3>1. PICK i \in 1 .. n : blocks[i] = s
      BY <1>1 DEF Elements
    <3>2. ~ slob_units(pg.mem, s) >= units + Delta(s, align)
      BY <1>5, <3>1 DEF Fits
    <3> QED
      BY <1>4, <3>2
  <2> QED
    BY <1>5, <2>1 DEF NoChoice
<1>6. ASSUME NEW i \in 1 .. n, Fits(pg, blocks, units, align, i),
             min = Choice(pg, blocks, units, align, i)
      PROVE  /\ min.space \in Nat /\ min.block \in B
             /\ slob_units(pg.mem, min.block)
                   >= units + Delta(min.block, align)
             /\ \/ min.prev = None /\ pg.freelist = min.block
                \/ /\ min.prev \in B
                   /\ slob_next(pg.mem, min.prev) = min.block
  <2> DEFINE s == blocks[i]
  <2>1. s \in B
    BY <1>1
  <2>2. slob_units(pg.mem, s) >= units + Delta(s, align)
    BY <1>6 DEF Fits
  <2>3. /\ min.block = s
        /\ min.space = slob_units(pg.mem, s) - units + Delta(s, align)
        /\ min.prev = IF i = 1 THEN None ELSE blocks[i - 1]
    BY <1>6 DEF Choice
  <2>4. slob_units(pg.mem, s) \in Nat /\ Delta(s, align) \in Nat
    BY <1>4, <2>1
  <2>5. min.space \in Nat
    <3> HIDE DEF s
    <3> QED
      BY <2>2, <2>3, <2>4
  <2>6. CASE i = 1
    BY <1>1, <2>1, <2>2, <2>3, <2>5, <2>6
  <2>7. CASE i # 1
    <3>1. i - 1 \in 1 .. n /\ i - 1 \in 1 .. n - 1 /\ (i - 1) + 1 = i
      BY <1>1, <2>7
    <3>2. /\ min.prev \in B
          /\ slob_next(pg.mem, min.prev) = blocks[(i - 1) + 1]
      BY <1>1, <2>3, <2>7, <3>1
    <3> QED
      BY <2>1, <2>2, <2>3, <2>5, <3>1, <3>2
  <2> QED
    BY <2>6, <2>7
<1>7. \/ min = NoChoice /\ \A i \in 1 .. n : ~ Fits(pg, blocks, units, align, i)
      \/ \E i \in 1 .. n : /\ Fits(pg, blocks, units, align, i)
                           /\ min = Choice(pg, blocks, units, align, i)
  BY <1>1, <1>2, <1>3, MinBlockFacts DEF n
<1> QED
  BY <1>5, <1>6, <1>7

(* The block new.block was taken from the page, new.page is what is left.  *)
Taken(pg, B, units, align, new) ==
    LET span == new.block .. new.block + units - 1
    IN  /\ new.block \in Nat /\ new.block % align = 0
        /\ span \subseteq Cover(pg.mem, B)
        /\ new.page.units = pg.units - units
        /\ \E s \in B : slob_units(new.page.mem, new.block)
                           \in units .. slob_units(pg.mem, s)
        /\ \E B2 : /\ Chained(new.page.mem, new.page.freelist, B2)
                   /\ Merged(new.page.mem, B2)
                   /\ Cover(new.page.mem, B2) = Cover(pg.mem, B) \ span

(* slob_page_alloc hands out an aligned block of free memory; its header   *)
(* is at least as large as the block and not larger than the free block    *)
(* it was taken from; what it does not take stays free.                    *)
LEMMA AllocFacts ==
    ASSUME NEW pg, NEW B, Chained(pg.mem, pg.freelist, B),
           Merged(pg.mem, B),
           NEW units \in Nat \ {0}, NEW align \in Nat \ {0},
           find_min_block(pg, units, align).space # -1,
           NEW new, new = slob_page_alloc(pg, units, align)
    PROVE  Taken(pg, B, units, align, new)
<1> DEFINE min == find_min_block(pg, units, align)
           s == min.block
           d == Delta(s, align)
           at == SplitHead(pg, min, d)
           r == Unlink(pg, at, units)
<1>1. /\ s \in B /\ slob_units(pg.mem, s) >= units + d
      /\ \/ min.prev = None /\ pg.freelist = s
         \/ min.prev \in B /\ slob_next(pg.mem, min.prev) = s
  BY FindFacts
<1>2. s \in Nat /\ slob_units(pg.mem, s) \in Nat
  BY <1>1, ChainFacts
<1>3. d \in 0 .. align - 1 /\ (s + d) % align = 0
  BY <1>2, DeltaFacts
<1>4. new = [block |-> s + d, page |-> r]
  BY DEF slob_page_alloc, PageAlloc
<1> HIDE DEF d, s, at, r, min
<1>5. d \in Nat /\ d + units <= slob_units(pg.mem, s)
  BY <1>1, <1>2, <1>3
<1>6. /\ \E B2 : /\ Chained(r.mem, r.freelist, B2) /\ Merged(r.mem, B2)
                 /\ Cover(r.mem, B2) = Cover(pg.mem, B)
                                       \ (s + d .. s + d + units - 1)
      /\ s + d .. s + d + units - 1 \subseteq Cover(pg.mem, B)
      /\ r.units = pg.units - units
      /\ slob_units(r.mem, s + d) \in units .. slob_units(pg.mem, s)
  BY <1>1, <1>5, AllocChain DEF at, r, s
<1>7. new.block = s + d /\ new.page = r /\ new.block \in Nat
  BY <1>2, <1>4, <1>5
<1>8. new.block % align = 0
  BY <1>3, <1>7
<1> QED
  BY <1>1, <1>6, <1>7, <1>8 DEF Taken

-----------------------------------------------------------------------------
(* Blocks that are given back.                                             *)

(* The words of a block that is given back to a chain that starts at f     *)
(* behind it.                                                              *)
Front(mem, b, n, f) ==
    IF f # None /\ b + n = f
    THEN set_slob(mem, b, n + slob_units(mem, f), slob_next(mem, f))
    ELSE set_slob(mem, b, n, f)

(* Only words of the free blocks T have changed.                           *)
ChangedIn(mem, m, T) == \A w \in Words \ Cover(m, T) : m[w] = mem[w]

(* The blocks T are those of B with the block at b.                        *)
Grown(mem, B, b, n, m, T) ==
    /\ Chained(m, b, T) /\ Merged(m, T)
    /\ Cover(m, T) = Cover(mem, B) \cup (b .. b + n - 1)
    /\ ChangedIn(mem, m, T)

(* The block becomes the first of the chain, and only free words change.   *)
LEMMA FrontChain ==
    ASSUME NEW mem, NEW f, NEW B, Chained(mem, f, B), Merged(mem, B),
           NEW b \in Nat, NEW n \in Nat \ {0}, b + n <= f,
           NEW m, m = Front(mem, b, n, f)
    PROVE  \E T : Grown(mem, B, b, n, m, T)
<1>1. /\ mem \in Mem /\ B \subseteq Words /\ f \in B \cup {None} /\ f \in Nat
      /\ f <= PageUnits /\ \A t \in B : t \in Nat /\ f <= t
  <2>1. mem \in Mem /\ B \subseteq Words
    BY DEF Chained
  <2>2. /\ f \in B \cup {None} /\ f \in Nat
        /\ \A t \in B : t \in Nat /\ f <= t /\ t < PageUnits
    BY ChainFacts
  <2> QED
    BY <2>1, <2>2, WordFacts
<1>2. b \in Words /\ b < f /\ b \in Nat
  BY <1>1, WordFacts DEF Words
<1>3. CASE f # None /\ b + n = f
  <2> DEFINE u == slob_units(mem, f)
             x == slob_next(mem, f)
             T == (B \ {f}) \cup {b}
  <2>1. /\ f \in B /\ u \in Nat \ {0} /\ x \in 1 .. PageUnits
        /\ x \in B \cup {None} /\ f < x /\ f + u <= x /\ f + u <= PageUnits
        /\ \A t \in B : f < t => x <= t /\ f + u <= t
    BY <1>1, <1>3, ChainFacts
  <2>2. m = set_slob(mem, b, n + u, x)
    BY <1>3 DEF Front
  <2> HIDE DEF u, x
  <2>3. n + u \in Nat \ {0} /\ b + (n + u) <= PageUnits
    BY <1>2, <1>3, <2>1
  <2>4. /\ m \in Mem /\ Headed(m, b) /\ slob_units(m, b) = n + u
        /\ slob_next(m, b) = x
        /\ \A w \in Words \ (b .. b + (n + u) - 1) : m[w] = mem[w]
    BY <1>1, <1>2, <2>1, <2>2, <2>3, SetSlob
  <2>5. ASSUME NEW t \in B \ {f} PROVE SameHead(mem, m, t)
    <3>1. /\ t \in Words /\ t \in Nat /\ f + u <= t /\ Headed(mem, t)
          /\ slob_units(mem, t) \in Nat /\ t + slob_units(mem, t) <= PageUnits
      BY <1>1, <2>1, ChainFacts
    <3>2. ASSUME NEW w \in Block(mem, t) PROVE m[w] = mem[w]
      <4>1. w \in Words \ (b .. b + (n + u) - 1)
        BY <1>2, <1>3, <2>1, <3>1, WordFacts DEF Block, Words
      <4> QED
        BY <2>4, <4>1
    <3> QED
      BY <1>1, <2>4, <3>1, <3>2, KeepHead
  <2>6. Behind(T, -1, b)
    BY <1>1, <1>2 DEF Behind
  <2>7. Behind(T, b, x) /\ b + (n + u) <= x
    <3>1. x \in T \cup {None} /\ b < x
      BY <1>2, <2>1
    <3>2. ASSUME NEW t \in T, b < t PROVE x <= t
      BY <1>1, <1>2, <2>1, <3>2
    <3> QED
      BY <1>2, <1>3, <2>1, <3>1, <3>2 DEF Behind
  <2>8. ASSUME NEW t \in B \ {f}
        PROVE  /\ Headed(m, t) /\ Behind(T, t, slob_next(m, t))
               /\ t + slob_units(m, t) <= slob_next(m, t)
               /\ \/ slob_next(m, t) = None
                  \/ t + slob_units(m, t) < slob_next(m, t)
    <3>1. /\ Headed(m, t) /\ slob_next(m, t) = slob_next(mem, t)
          /\ slob_units(m, t) = slob_units(mem, t)
      BY <2>5 DEF SameHead
    <3>2. /\ t \in Nat /\ f < t /\ slob_next(mem, t) \in B \cup {None}
          /\ t < slob_next(mem, t) /\ slob_next(mem, t) \in 1 .. PageUnits
          /\ t + slob_units(mem, t) <= slob_next(mem, t)
          /\ \A s \in B : t < s => slob_next(mem, t) <= s
      BY <1>1, ChainFacts
    <3>3. slob_next(mem, t) \in T \cup {None}
      BY <1>1, <3>2
    <3>4. ASSUME NEW s \in T, t < s PROVE slob_next(mem, t) <= s
      BY <1>1, <1>2, <3>2, <3>4
    <3>5. \/ slob_next(mem, t) = None
          \/ t + slob_units(mem, t) < slob_next(mem, t)
      BY DEF Merged
    <3> QED
      BY <3>1, <3>2, <3>3, <3>4, <3>5 DEF Behind
  <2>9. Chained(m, b, T)
    BY <1>1, <1>2, <2>4, <2>6, <2>7, <2>8 DEF Chained
  <2>10. Merged(m, T)
    <3>1. x = None \/ b + (n + u) < x
      <4>1. x = None \/ f + u < x
        BY <2>1 DEF Merged, u, x
      <4> QED
        BY <1>2, <1>3, <2>1, <4>1
    <3> QED
      BY <2>4, <2>8, <3>1 DEF Merged
  <2>11. Cover(m, T) = Cover(mem, B) \cup (b .. b + n - 1)
    <3>1. Cover(m, T) = Cover(m, B \ {f}) \cup Block(m, b)
      BY DEF Cover
    <3>2. Cover(mem, B) = Cover(mem, B \ {f}) \cup Block(mem, f)
      BY <2>1 DEF Cover
    <3>3. Cover(m, B \ {f}) = Cover(mem, B \ {f})
      <4>1. \A t \in B \ {f} : Block(m, t) = Block(mem, t)
        BY <2>5 DEF SameHead, Block
      <4> QED
        BY <4>1 DEF Cover
    <3>4. Block(m, b) = (b .. b + n - 1) \cup Block(mem, f)
      <4>1. Block(m, b) = b .. b + (n + u) - 1 /\ Block(mem, f) = f .. f + u - 1
        BY <2>4 DEF Block, u
      <4> QED
        BY <1>1, <1>2, <1>3, <2>1, <4>1
    <3> QED
      BY <3>1, <3>2, <3>3, <3>4
  <2>12. b .. b + (n + u) - 1 \subseteq Cover(m, T)
    BY <2>4 DEF Cover, Block
  <2> HIDE DEF T
  <2> QED
    BY <2>4, <2>9, <2>10, <2>11, <2>12 DEF Grown, ChangedIn
<1>4. CASE ~ (f # None /\ b + n = f)
  <2> DEFINE T == B \cup {b}
  <2>1. m = set_slob(mem, b, n, f)
    BY <1>4 DEF Front
  <2>2. f \in 1 .. PageUnits /\ b + n <= PageUnits
    BY <1>1, <1>2, WordFacts
  <2>3. /\ m \in Mem /\ Headed(m, b) /\ slob_units(m, b) = n
        /\ slob_next(m, b) = f
        /\ \A w \in Words \ (b .. b + n - 1) : m[w] = mem[w]
    BY <1>1, <1>2, <2>1, <2>2, SetSlob
  <2>4. ASSUME NEW t \in B PROVE SameHead(mem, m, t)
    <3>1. /\ t \in Words /\ t \in Nat /\ f <= t /\ Headed(mem, t)
          /\ slob_units(mem, t) \in Nat /\ t + slob_units(mem, t) <= PageUnits
      BY <1>1, ChainFacts
    <3>2. ASSUME NEW w \in Block(mem, t) PROVE m[w] = mem[w]
      <4>1. w \in Words \ (b .. b + n - 1)
        BY <1>1, <1>2, <3>1, WordFacts DEF Block, Words
      <4> QED
        BY <2>3, <4>1
    <3> QED
      BY <1>1, <2>3, <3>1, <3>2, KeepHead
  <2>5. Behind(T, -1, b)
    BY <1>1, <1>2 DEF Behind
  <2>6. Behind(T, b, f)
    BY <1>1, <1>2 DEF Behind
  <2>7. ASSUME NEW t \in B
        PROVE  /\ Headed(m, t) /\ Behind(T, t, slob_next(m, t))
               /\ t + slob_units(m, t) <= slob_next(m, t)
               /\ \/ slob_next(m, t) = None
                  \/ t + slob_units(m, t) < slob_next(m, t)
    <3>1. /\ Headed(m, t) /\ slob_next(m, t) = slob_next(mem, t)
          /\ slob_units(m, t) = slob_units(mem, t)
      BY <2>4 DEF SameHead
    <3>2. /\ t \in Nat /\ f <= t /\ slob_next(mem, t) \in B \cup {None}
          /\ t < slob_next(mem, t) /\ slob_next(mem, t) \in 1 .. PageUnits
          /\ t + slob_units(mem, t) <= slob_next(mem, t)
          /\ \A s \in B : t < s => slob_next(mem, t) <= s
      BY <1>1, ChainFacts
    <3>3. ASSUME NEW s \in T, t < s PROVE slob_next(mem, t) <= s
      BY <1>1, <1>2, <3>2, <3>3
    <3>4. \/ slob_next(mem, t) = None
          \/ t + slob_units(mem, t) < slob_next(mem, t)
      BY DEF Merged
    <3> QED
      BY <3>1, <3>2, <3>3, <3>4 DEF Behind
  <2>8. Chained(m, b, T)
    BY <1>1, <1>2, <2>3, <2>5, <2>6, <2>7 DEF Chained
  <2>9. Merged(m, T)
    <3>1. f = None \/ b + n < f
      BY <1>1, <1>2, <1>4
    <3> QED
      BY <2>3, <2>7, <3>1 DEF Merged
  <2>10. Cover(m, T) = Cover(mem, B) \cup (b .. b + n - 1)
    <3>1. \A t \in B : Block(m, t) = Block(mem, t)
      BY <2>4 DEF SameHead, Block
    <3>2. Block(m, b) = b .. b + n - 1
      BY <2>3 DEF Block
    <3> QED
      BY <3>1, <3>2 DEF Cover
  <2>11. b .. b + n - 1 \subseteq Cover(m, T)
    BY <2>10
  <2> HIDE DEF T
  <2> QED
    BY <2>3, <2>8, <2>9, <2>10, <2>11 DEF Grown, ChangedIn
<1> QED
  BY <1>3, <1>4

(* The blocks before p, and that they and those of T cover what they did   *)
(* apart.                                                                  *)
Early(B, p) == {t \in B : t < p}

Joined(mem, m, B, p, T) ==
    Cover(m, Early(B, p) \cup T) = Cover(mem, Early(B, p)) \cup Cover(m, T)

(* The blocks from p on are replaced by another chain, which starts at p   *)
(* and lies on no word of the blocks before p.                             *)
LEMMA GlueChains ==
    ASSUME NEW mem, NEW f, NEW B, Chained(mem, f, B), Merged(mem, B),
           NEW p \in B,
           NEW m, NEW T, Chained(m, p, T), Merged(m, T),
           ChangedIn(mem, m, T)
    PROVE  /\ Chained(m, f, Early(B, p) \cup T)
           /\ Merged(m, Early(B, p) \cup T)
           /\ Joined(mem, m, B, p, T)
<1> DEFINE E == Early(B, p)
           U == E \cup T
<1>1. /\ mem \in Mem /\ m \in Mem /\ B \subseteq Words /\ T \subseteq Words
      /\ E \subseteq B /\ p \in Nat /\ p # None
      /\ \A t \in E : t \in Nat /\ t < p
  <2>1. /\ mem \in Mem /\ m \in Mem /\ B \subseteq Words /\ T \subseteq Words
    BY DEF Chained
  <2>2. E \subseteq B /\ \A t \in E : t < p
    BY DEF Early
  <2>3. p \in Nat /\ p < PageUnits /\ \A t \in B : t \in Nat
    BY ChainFacts
  <2>4. p # None
    BY <2>3, WordFacts
  <2> HIDE DEF E
  <2> QED
    BY <2>1, <2>2, <2>3, <2>4
<1>2. /\ p \in T
      /\ \A t \in T : t \in Nat /\ p <= t /\ slob_units(m, t) \in Nat
  BY <1>1, ChainFacts
<1>3. ASSUME NEW t \in B, t < p
      PROVE  /\ t \in E /\ SameHead(mem, m, t)
             /\ slob_next(mem, t) \in U
             /\ slob_next(mem, t) \in Nat
             /\ slob_next(mem, t) <= p
             /\ t < slob_next(mem, t)
             /\ t + slob_units(mem, t) < slob_next(mem, t)
             /\ \A s \in E : t < s => slob_next(mem, t) <= s
  <2>1. /\ t \in Words /\ t \in Nat /\ Headed(mem, t)
        /\ slob_units(mem, t) \in Nat
        /\ t + slob_units(mem, t) <= PageUnits
        /\ t + slob_units(mem, t) <= p
        /\ slob_next(mem, t) \in B \cup {None}
        /\ slob_next(mem, t) \in 1 .. PageUnits
        /\ t < slob_next(mem, t) /\ slob_next(mem, t) <= p
        /\ \A s \in B : t < s => slob_next(mem, t) <= s
    BY <1>1, <1>3, ChainFacts
  <2>2. t \in E
    BY <1>3 DEF Early
  <2>3. ASSUME NEW w \in Block(mem, t) PROVE m[w] = mem[w]
    <3>1. w \in Nat /\ w < p /\ w \in Words
      BY <1>1, <2>1, WordFacts DEF Block, Words
    <3>2. w \notin Cover(m, T)
      BY <1>2, <3>1 DEF Cover, Block
    <3> QED
      BY <3>1, <3>2 DEF ChangedIn
  <2>4. SameHead(mem, m, t)
    BY <1>1, <2>1, <2>3, KeepHead
  <2>5. slob_next(mem, t) # None
    <3>1. p \in Nat /\ p < PageUnits
      BY ChainFacts
    <3> QED
      BY <2>1, <3>1, WordFacts
  <2>6. slob_next(mem, t) \in U
    <3>1. slob_next(mem, t) \in B /\ slob_next(mem, t) \in Nat
      BY <2>1, <2>5
    <3>2. CASE slob_next(mem, t) < p
      BY <3>1, <3>2 DEF Early
    <3>3. CASE slob_next(mem, t) = p
      BY <1>2, <3>3
    <3> QED
      BY <1>1, <2>1, <3>1, <3>2, <3>3
  <2>7. t + slob_units(mem, t) < slob_next(mem, t)
    BY <2>5 DEF Merged
  <2> QED
    BY <1>1, <2>1, <2>2, <2>4, <2>6, <2>7
<1>4. Behind(U, -1, f)
  <2>1. /\ f \in B /\ f \in Nat /\ f <= p /\ \A t \in B : f <= t
    BY <1>1, ChainFacts
  <2>2. f \in U
    <3>1. CASE f < p
      BY <1>3, <2>1, <3>1
    <3>2. CASE f = p
      BY <1>2, <3>2
    <3> QED
      BY <1>1, <2>1, <3>1, <3>2
  <2>3. ASSUME NEW t \in U PROVE f <= t
    <3>1. CASE t \in E
      BY <1>1, <2>1, <3>1
    <3>2. CASE t \in T
      BY <1>1, <1>2, <2>1, <3>2
    <3> QED
      BY <3>1, <3>2
  <2> QED
    BY <2>1, <2>2, <2>3 DEF Behind
<1>5. ASSUME NEW t \in E
      PROVE  /\ Headed(m, t) /\ Behind(U, t, slob_next(m, t))
             /\ t + slob_units(m, t) <= slob_next(m, t)
             /\ t + slob_units(m, t) < slob_next(m, t)
  <2>1. /\ Headed(m, t) /\ slob_next(m, t) = slob_next(mem, t)
        /\ slob_units(m, t) = slob_units(mem, t)
    BY <1>1, <1>3 DEF SameHead
  <2>2. /\ t \in Nat /\ slob_next(mem, t) \in U /\ slob_next(mem, t) \in Nat
        /\ slob_next(mem, t) <= p /\ t < slob_next(mem, t)
        /\ t + slob_units(mem, t) < slob_next(mem, t)
        /\ slob_units(mem, t) \in Nat
        /\ \A s \in E : t < s => slob_next(mem, t) <= s
    BY <1>1, <1>3, ChainFacts
  <2>3. ASSUME NEW s \in U, t < s PROVE slob_next(mem, t) <= s
    BY <1>1, <1>2, <2>2, <2>3
  <2> QED
    BY <2>1, <2>2, <2>3 DEF Behind
<1>6. ASSUME NEW t \in T
      PROVE  /\ Headed(m, t) /\ Behind(U, t, slob_next(m, t))
             /\ t + slob_units(m, t) <= slob_next(m, t)
  <2>1. /\ Headed(m, t) /\ slob_next(m, t) \in T \cup {None}
        /\ t + slob_units(m, t) <= slob_next(m, t)
        /\ t < slob_next(m, t)
        /\ \A s \in T : t < s => slob_next(m, t) <= s
    BY ChainFacts
  <2>2. ASSUME NEW s \in E PROVE ~ t < s
    BY <1>1, <1>2
  <2> QED
    BY <2>1, <2>2 DEF Behind
<1>7. Chained(m, f, U)
  <2>1. U \subseteq Words
    BY <1>1
  <2> HIDE DEF U
  <2>2. \A t \in U : t \in E \/ t \in T
    BY DEF U
  <2> QED
    BY <1>1, <1>4, <1>5, <1>6, <2>1, <2>2 DEF Chained
<1>8. Merged(m, U)
  BY <1>5 DEF Merged
<1>9. Cover(m, U) = Cover(mem, E) \cup Cover(m, T)
  <2>1. \A t \in E : Block(m, t) = Block(mem, t)
    BY <1>1, <1>3 DEF SameHead, Block
  <2> QED
    BY <2>1 DEF Cover
<1> QED
  BY <1>7, <1>8, <1>9 DEF Joined

(* The blocks behind p are a chain that starts where p points to.          *)
LEMMA LateChain ==
    ASSUME NEW mem, NEW f, NEW B, Chained(mem, f, B), Merged(mem, B),
           NEW p \in B, NEW late, late = {t \in B : p < t}
    PROVE  /\ Chained(mem, slob_next(mem, p), late) /\ Merged(mem, late)
           /\ Cover(mem, B) = Cover(mem, Early(B, p)) \cup Block(mem, p)
                              \cup Cover(mem, late)
<1>1. /\ mem \in Mem /\ B \subseteq Words /\ late \subseteq B
      /\ \A t \in late : p < t
  BY DEF Chained
<1>2. \A t \in B : t \in Nat
  BY ChainFacts
<1>3. ASSUME NEW t \in B, p <= t
      PROVE  /\ slob_next(mem, t) \in late \cup {None}
             /\ t < slob_next(mem, t)
             /\ \A s \in late : t < s => slob_next(mem, t) <= s
  <2>1. /\ slob_next(mem, t) \in B \cup {None} /\ t < slob_next(mem, t)
        /\ slob_next(mem, t) \in 1 .. PageUnits
        /\ \A s \in B : t < s => slob_next(mem, t) <= s
    BY ChainFacts
  <2>2. p < slob_next(mem, t)
    BY <1>2, <1>3, <2>1
  <2> QED
    BY <1>1, <2>1, <2>2
<1>4. Behind(late, -1, slob_next(mem, p))
  <2>1. p \in Nat /\ p <= p
    BY <1>2
  <2>2. slob_next(mem, p) \in 1 .. PageUnits
    BY ChainFacts
  <2> QED
    BY <1>1, <1>3, <2>1, <2>2 DEF Behind
<1>5. ASSUME NEW t \in late
      PROVE  /\ Headed(mem, t) /\ Behind(late, t, slob_next(mem, t))
             /\ t + slob_units(mem, t) <= slob_next(mem, t)
  <2>1. t \in B /\ p <= t
    BY <1>1, <1>2
  <2>2. Headed(mem, t) /\ t + slob_units(mem, t) <= slob_next(mem, t)
    BY <2>1, ChainFacts
  <2> QED
    BY <1>3, <2>1, <2>2 DEF Behind
<1>6. Chained(mem, slob_next(mem, p), late)
  BY <1>1, <1>4, <1>5 DEF Chained
<1>7. Merged(mem, late)
  BY <1>1 DEF Merged
<1>8. B = Early(B, p) \cup {p} \cup late
  BY <1>2 DEF Early
<1>9. Cover(mem, Early(B, p) \cup {p} \cup late)
         = Cover(mem, Early(B, p)) \cup Block(mem, p) \cup Cover(mem, late)
  BY DEF Cover
<1> QED
  BY <1>6, <1>7, <1>8, <1>9

(* The loop of slob_free stops at the last block before b.                 *)
LEMMA BeforeFacts ==
    ASSUME NEW pg, NEW B, Chained(pg.mem, pg.freelist, B), B # {},
           NEW b \in Nat, b < PageUnits, ~ b < pg.freelist, b \notin B,
           NEW prev, prev = Before(pg, b)
    PROVE  prev \in B /\ prev < b /\ b < slob_next(pg.mem, prev)
<1> DEFINE blocks == FreeBlocks(pg)
           n == Len(blocks)
           next(k) == slob_next(pg.mem, blocks[k])
           stops == {k \in DOMAIN blocks : ~ b > next(k)}
           first == CHOOSE k \in stops : \A j \in stops : k <= j
<1>1. /\ n \in Nat /\ DOMAIN blocks = 1 .. n
      /\ n > 0 /\ blocks[1] = pg.freelist
      /\ \A i \in 1 .. n - 1 : next(i) = blocks[i + 1]
      /\ \A i \in 1 .. n : blocks[i] \in B /\ (i = n => next(i) = None)
  BY FreeBlocksFacts
<1>2. prev = blocks[first]
  BY DEF Before
<1>3. \A s \in B : /\ s \in Nat
                   /\ slob_next(pg.mem, s) \in 1 .. PageUnits
                   /\ slob_next(pg.mem, s) \in B \cup {None}
  BY ChainFacts
<1> HIDE DEF blocks, n
<1>4. n \in stops
  <2>1. n \in 1 .. n /\ next(n) = None
    BY <1>1
  <2> QED
    BY <1>1, <2>1, WordFacts
<1>5. stops \in SUBSET Nat
  BY <1>1
<1>6. first \in stops /\ \A j \in stops : first <= j
  <2>1. PICK k \in stops : \A j \in stops : k <= j
    <3> HIDE DEF stops
    <3> QED
      BY <1>4, <1>5, LeastExists
  <2> HIDE DEF stops
  <2> QED
    BY <2>1
<1> DEFINE k == first
<1>7. k \in stops /\ \A j \in stops : k <= j
  BY <1>6
<1> HIDE DEF k, first
<1>8. /\ k \in 1 .. n /\ prev \in B /\ prev \in Nat
      /\ slob_next(pg.mem, prev) \in B \cup {None}
      /\ slob_next(pg.mem, prev) \in 1 .. PageUnits
      /\ ~ b > slob_next(pg.mem, prev)
  <2>1. k \in 1 .. n /\ prev = blocks[k] /\ ~ b > next(k)
    BY <1>1, <1>2, <1>7 DEF k
  <2>2. prev \in B
    BY <1>1, <2>1
  <2> QED
    BY <1>3, <2>1, <2>2
<1>9. b < slob_next(pg.mem, prev)
  <2>1. b # slob_next(pg.mem, prev)
    BY <1>8, WordFacts
  <2> QED
    BY <1>8, <2>1
<1>10. prev < b
  <2>1. CASE k = 1
    <3>1. prev = pg.freelist
      BY <1>1, <1>2, <2>1 DEF k
    <3>2. prev # b
      BY <1>8
    <3> QED
      BY <1>8, <3>1, <3>2
  <2>2. CASE k # 1
    <3>1. k - 1 \in 1 .. n /\ k - 1 \in 1 .. n - 1 /\ (k - 1) + 1 = k
      BY <1>1, <1>8, <2>2
    <3>2. k - 1 \notin stops
      <4>1. ~ k <= k - 1
        BY <1>8
      <4> HIDE DEF stops
      <4> QED
        BY <1>7, <4>1
    <3>3. b > next(k - 1)
      BY <1>1, <3>1, <3>2
    <3>4. next(k - 1) = prev
      BY <1>1, <1>2, <3>1 DEF k
    <3> QED
      BY <3>3, <3>4, <1>8
  <2> QED
    BY <2>1, <2>2
<1> QED
  BY <1>8, <1>9, <1>10

(* What is given back was in use, and what is free afterwards.             *)
Apart(pg, B, b, units) == (b .. b + units - 1) \cap Cover(pg.mem, B) = {}

GivenBack(pg, B, b, units, r) ==
    /\ r = [mem |-> r.mem, freelist |-> r.freelist, units |-> r.units]
    /\ \E T : /\ Chained(r.mem, r.freelist, T) /\ Merged(r.mem, T)
              /\ Cover(r.mem, T) = Cover(pg.mem, B)
                                   \cup (b .. b + units - 1)

(* slob_free in front of the list.                                         *)
LEMMA FrontFacts ==
    ASSUME NEW pg, NEW B, Chained(pg.mem, pg.freelist, B),
           Merged(pg.mem, B), B # {},
           NEW b \in Nat, NEW units \in Nat \ {0},
           Apart(pg, B, b, units),
           b < pg.freelist,
           NEW r, r = InsertFront(pg, b, units)
    PROVE  GivenBack(pg, B, b, units, r) /\ r.units = pg.units + units
<1> DEFINE mem == pg.mem
           f == pg.freelist
<1>1. /\ f \in B /\ f \in Nat /\ f < PageUnits /\ f # None
      /\ slob_units(mem, f) \in Nat \ {0}
  BY ChainFacts, WordFacts
<1>2. b + units <= f
  <2>1. f \in Block(mem, f)
    BY <1>1 DEF Block
  <2>2. f \notin b .. b + units - 1
    BY <1>1, <2>1 DEF Cover, Apart
  <2> QED
    BY <1>1, <2>2
<1>3. /\ r = [mem |-> Front(mem, b, units, f), freelist |-> b,
              units |-> pg.units + units]
  BY <1>1 DEF InsertFront, Front
<1>4. \E T : Grown(mem, B, b, units, r.mem, T)
  <2>1. r.mem = Front(mem, b, units, f)
    BY <1>3
  <2> QED
    BY <1>2, <2>1, FrontChain
<1>5. /\ r = [mem |-> r.mem, freelist |-> r.freelist, units |-> r.units]
      /\ r.freelist = b /\ r.units = pg.units + units
  BY <1>3
<1> QED
  BY <1>4, <1>5 DEF GivenBack, Grown

(* slob_free behind the first block of the list.                           *)
LEMMA BehindFacts ==
    ASSUME NEW pg, NEW B, Chained(pg.mem, pg.freelist, B),
           Merged(pg.mem, B), B # {},
           NEW b \in Nat, NEW units \in Nat \ {0}, b + units <= PageUnits,
           Apart(pg, B, b, units),
           ~ b < pg.freelist,
           NEW r, r = InsertBehind(pg, b, units)
    PROVE  GivenBack(pg, B, b, units, r) /\ r.units = pg.units + units
<1> DEFINE mem == pg.mem
           f == pg.freelist
           q == Before(pg, b)
           u == slob_units(mem, q)
           x == slob_next(mem, q)
           late == {t \in B : q < t}
           m1 == LinkAfter(mem, q, b, units)
           m2 == MergeBefore(m1, q, b)
<1>1. /\ r = [mem |-> m2, freelist |-> f, units |-> pg.units + units]
  BY DEF InsertBehind, InsertAfter
<1>2. b < PageUnits /\ b # None
  BY WordFacts
<1>3. \A t \in B : /\ t \in Nat /\ slob_units(mem, t) \in Nat \ {0}
                   /\ t \in Block(mem, t)
                   /\ t \notin b .. b + units - 1
                   /\ b \notin Block(mem, t)
  <2> TAKE t \in B
  <2>1. t \in Nat /\ slob_units(mem, t) \in Nat \ {0}
    BY ChainFacts
  <2>2. t \in Block(mem, t)
    BY <2>1 DEF Block
  <2>3. b \in b .. b + units - 1
    OBVIOUS
  <2> QED
    BY <2>1, <2>2, <2>3 DEF Cover, Apart
<1>4. b \notin B
  BY <1>3
<1>5. q \in B /\ q < b /\ b < x
  BY <1>2, <1>4, BeforeFacts
<1>6. /\ q \in Nat /\ u \in Nat \ {0} /\ x \in 1 .. PageUnits
      /\ x \in B \cup {None} /\ q + u <= x
  BY <1>5, ChainFacts
<1> HIDE DEF q, u, x, m1, m2
<1>7. q + u <= b
  <2>1. b \notin q .. q + u - 1
    BY <1>3, <1>5 DEF Block, u
  <2> QED
    BY <1>5, <1>6, <2>1
<1>8. b + units <= x
  <2>1. CASE x = None
    BY <2>1, WordFacts
  <2>2. CASE x \in B
    <3>1. x \notin b .. b + units - 1
      BY <1>3, <2>2
    <3> QED
      BY <1>5, <1>6, <3>1
  <2> QED
    BY <1>6, <2>1, <2>2
<1>9. /\ Chained(mem, x, late) /\ Merged(mem, late)
      /\ Cover(mem, B) = Cover(mem, Early(B, q)) \cup Block(mem, q)
                         \cup Cover(mem, late)
  BY <1>5, LateChain DEF x
<1> HIDE DEF late
<1>10. m1 = Front(mem, b, units, x)
  <2>1. slob_last(mem, q) <=> x = None
    <3>1. x % PageUnits = 0 <=> x = PageUnits
      BY <1>6, WordFacts
    <3> QED
      BY <3>1, WordFacts DEF slob_last, x
  <2> QED
    BY <2>1 DEF m1, LinkAfter, Front, x
<1>11. PICK T1 : Grown(mem, late, b, units, m1, T1)
  BY <1>8, <1>9, <1>10, FrontChain
<1>12. slob_units(m1, q) = u
  <2>1. q \notin b .. b + units - 1
    BY <1>5, <1>6
  <2>2. q \notin Cover(mem, late)
    <3> SUFFICES ASSUME NEW t \in late, q \in Block(mem, t) PROVE FALSE
      BY DEF Cover
    <3>1. t \in B /\ q < t /\ t \in Nat /\ slob_units(mem, t) \in Nat
      BY <1>3 DEF late
    <3> QED
      BY <1>6, <3>1 DEF Block
  <2>3. q \in Words
    BY <1>5 DEF Chained
  <2>4. m1[q] = mem[q]
    BY <1>11, <2>1, <2>2, <2>3 DEF Grown, ChangedIn
  <2> QED
    BY <2>4 DEF slob_units, u
<1>13. m2 = Front(m1, q, u, b)
  <2>1. slob_units(m1, b) \in Nat
    <3>1. b \in T1
      BY <1>2, <1>11, ChainFacts DEF Grown, ChangedIn
    <3> QED
      BY <1>11, <3>1, ChainFacts DEF Grown, ChangedIn
  <2>2. slob_units(m1, b) + u = u + slob_units(m1, b)
    BY <1>6, <2>1
  <2> QED
    BY <1>2, <1>12, <2>2 DEF m2, MergeBefore, Front
<1>14. PICK T2 : Grown(m1, T1, q, u, m2, T2)
  <2>1. Chained(m1, b, T1) /\ Merged(m1, T1)
    BY <1>11 DEF Grown, ChangedIn
  <2>2. q \in Nat /\ u \in Nat \ {0}
    BY <1>6
  <2> QED
    BY <1>7, <1>13, <2>1, <2>2, FrontChain
<1>15. ChangedIn(mem, m2, T2)
  BY <1>11, <1>14 DEF Grown, ChangedIn
<1> DEFINE T == Early(B, q) \cup T2
<1>16. /\ Chained(m2, f, T) /\ Merged(m2, T)
       /\ Cover(m2, T) = Cover(mem, Early(B, q)) \cup Cover(m2, T2)
  <2>1. q \in B /\ Chained(m2, q, T2) /\ Merged(m2, T2)
    BY <1>5, <1>14 DEF Grown, ChangedIn
  <2>2. Chained(m2, f, T) /\ Merged(m2, T)
    BY <1>15, <2>1, GlueChains
  <2>3. Joined(mem, m2, B, q, T2)
    BY <1>15, <2>1, GlueChains
  <2> QED
    BY <2>2, <2>3 DEF Joined
<1>17. Cover(m2, T) = Cover(mem, B) \cup (b .. b + units - 1)
  <2>1. Block(mem, q) = q .. q + u - 1
    BY DEF Block, u
  <2> QED
    BY <1>9, <1>11, <1>14, <1>16, <2>1 DEF Grown, ChangedIn
<1> HIDE DEF T
<1>18. /\ r = [mem |-> r.mem, freelist |-> r.freelist, units |-> r.units]
       /\ r.mem = m2 /\ r.freelist = f /\ r.units = pg.units + units
  BY <1>1
<1> QED
  BY <1>16, <1>17, <1>18 DEF GivenBack

(* slob_free on a page without free blocks.                                *)
LEMMA FirstFacts ==
    ASSUME NEW pg, pg.mem \in Mem,
           NEW b \in Nat, NEW units \in Nat \ {0}, b + units <= PageUnits,
           NEW r, r = FirstBlock(pg, b, units)
    PROVE  GivenBack(pg, {}, b, units, r) /\ r.units = units
<1> DEFINE m == set_slob(pg.mem, b, units, PageUnits)
<1>1. b \in Words /\ PageUnits \in 1 .. PageUnits
  BY WordFacts DEF Words
<1>2. /\ m \in Mem /\ Headed(m, b) /\ slob_units(m, b) = units
      /\ slob_next(m, b) = PageUnits
  BY <1>1, SetSlob
<1>3. r = [mem |-> m, freelist |-> b, units |-> units]
  BY DEF FirstBlock
<1> HIDE DEF m
<1>4. Behind({b}, -1, b) /\ Behind({b}, b, PageUnits)
  BY <1>1, WordFacts DEF Behind, Words
<1>5. Chained(m, b, {b})
  BY <1>1, <1>2, <1>4 DEF Chained
<1>6. Merged(m, {b})
  BY <1>2, WordFacts DEF Merged
<1>7. Cover(m, {b}) = b .. b + units - 1 /\ Cover(pg.mem, {}) = {}
  BY <1>2 DEF Cover, Block
<1>8. /\ r = [mem |-> r.mem, freelist |-> r.freelist, units |-> r.units]
      /\ r.mem = m /\ r.freelist = b /\ r.units = units
  BY <1>3
<1> QED
  BY <1>5, <1>6, <1>7, <1>8 DEF GivenBack

-----------------------------------------------------------------------------
(* A page whose words but those in use are its free blocks.                *)

Tiled(pg, used) ==
    \E B : /\ Chained(pg.mem, pg.freelist, B) /\ Merged(pg.mem, B)
           /\ Cover(pg.mem, B) = Words \ used

Divided(pg, used) ==
    /\ Tiled(pg, used)
    /\ pg.units = Cardinality(Words \ used)

(* A request is of at least one unit and of no more than a page has.       *)
LEMMA UnitsFacts ==
    ASSUME NEW r \in Requests
    PROVE  /\ SLOB_UNITS(r.size) \in 1 .. PageUnits
           /\ SLOB_UNITS(r.size) \in Nat \ {0}
           /\ r.align \in Nat \ {0}
<1> DEFINE u == SLOB_UNIT
           x == r.size + u - 1
           q == x \div u
           m == x % u
<1>1. /\ u \in Nat \ {0} /\ r.size \in 1 .. PageUnits * u
      /\ r.align \in 1 .. PageUnits /\ PageUnits \in Nat
  BY SlobAssumption, WordFacts
<1>2. x \in Nat /\ x >= u /\ x <= PageUnits * u + (u - 1)
  BY <1>1
<1>3. q \in Int /\ m \in 0 .. u - 1 /\ x = u * q + m
  BY <1>1, <1>2
<1>4. SLOB_UNITS(r.size) = q
  BY DEF SLOB_UNITS
<1> HIDE DEF u, x, q, m
<1>5. q >= 1
  <2>1. q <= 0 => u * q <= 0
    BY <1>1, <1>3
  <2> QED
    BY <1>1, <1>2, <1>3, <2>1
<1>6. q <= PageUnits
  <2>1. q >= PageUnits + 1 => u * q >= u * (PageUnits + 1)
    BY <1>1, <1>3
  <2>2. u * (PageUnits + 1) = PageUnits * u + u
    BY <1>1
  <2>3. x < PageUnits * u + u
    BY <1>1, <1>2
  <2>4. u * q <= x
    BY <1>1, <1>2, <1>3
  <2>5. u * q \in Int /\ PageUnits * u \in Int
    BY <1>1, <1>3
  <2> QED
    BY <1>1, <1>2, <1>3, <2>1, <2>2, <2>3, <2>4, <2>5
<1> QED
  BY <1>1, <1>3, <1>4, <1>5, <1>6

(* The words of a page are as many as its units.                           *)
LEMMA WordsFinite ==
    /\ IsFiniteSet(Words) /\ Cardinality(Words) = PageUnits
    /\ \A S \in SUBSET Words : /\ IsFiniteSet(S)
                               /\ Cardinality(S) \in 0 .. PageUnits
<1>1. IsFiniteSet(Words) /\ Cardinality(Words) = PageUnits
  BY WordFacts, FS_Interval DEF Words
<1>2. ASSUME NEW S \in SUBSET Words
      PROVE  IsFiniteSet(S) /\ Cardinality(S) \in 0 .. PageUnits
  <2>1. IsFiniteSet(S) /\ Cardinality(S) <= PageUnits
    BY <1>1, FS_Subset
  <2>2. Cardinality(S) \in Nat
    BY <2>1, FS_CardinalityType
  <2> QED
    BY <2>1, <2>2, WordFacts
<1> QED
  BY <1>1, <1>2

(* The n words from b on.                                                  *)
Run(b, n) == b .. b + n - 1

(* Taking n words out of the free ones leaves n less.                      *)
LEMMA SpanTaken ==
    ASSUME NEW free \in SUBSET Words, NEW b \in Nat, NEW n \in Nat \ {0},
           NEW I \in SUBSET free, I = Run(b, n),
           NEW rest, rest = free \ I
    PROVE  Cardinality(rest) = Cardinality(free) - n
           /\ n <= Cardinality(free)
<1>1. Cardinality(I) = n
  <2>1. b + n - 1 \in Int /\ b \in Int /\ ~ b > b + n - 1
        /\ b + n - 1 - b + 1 = n
    OBVIOUS
  <2> QED
    BY <2>1, FS_Interval DEF Run
<1>2. IsFiniteSet(free) /\ Cardinality(free) \in Nat
  BY WordsFinite
<1>3. free \cap I = I
  OBVIOUS
<1>4. Cardinality(rest) = Cardinality(free) - Cardinality(free \cap I)
  BY <1>2, FS_Difference
<1>5. Cardinality(I) <= Cardinality(free)
  BY <1>2, FS_Subset
<1> QED
  BY <1>1, <1>3, <1>4, <1>5

(* Giving n words back to the free ones makes n more.                      *)
LEMMA SpanGiven ==
    ASSUME NEW b \in Nat, NEW n \in Nat \ {0}, b + n <= PageUnits,
           NEW I, I = Run(b, n), NEW free \in SUBSET (Words \ I),
           NEW rest, rest = free \cup I
    PROVE  rest \subseteq Words /\ Cardinality(rest) = Cardinality(free) + n
<1>1. IsFiniteSet(I) /\ Cardinality(I) = n
  <2>1. b + n - 1 \in Int /\ b \in Int /\ ~ b > b + n - 1
        /\ b + n - 1 - b + 1 = n
    OBVIOUS
  <2> QED
    BY <2>1, FS_Interval DEF Run
<1>2. IsFiniteSet(free) /\ Cardinality(free) \in Nat
  BY WordsFinite
<1>3. I \subseteq Words
  BY WordFacts DEF Words, Run
<1>4. free \cap I = {}
  OBVIOUS
<1>5. Cardinality(rest)
         = Cardinality(free) + Cardinality(I) - Cardinality(free \cap I)
  BY <1>1, <1>2, FS_Union
<1>6. Cardinality(free \cap I) = 0
  BY <1>4, FS_EmptySet
<1> QED
  BY <1>1, <1>2, <1>3, <1>5, <1>6

(* The fields of such a page have their types.                             *)
LEMMA DividedTypes ==
    ASSUME NEW pg, NEW used, Divided(pg, used)
    PROVE  /\ pg.mem \in Mem /\ pg.freelist \in 0 .. PageUnits
           /\ pg.units \in 0 .. PageUnits
           /\ IsFiniteSet(Words \ used)
<1>1. PICK B : Chained(pg.mem, pg.freelist, B)
  BY DEF Divided, Tiled
<1>2. pg.mem \in Mem
  BY <1>1 DEF Chained
<1>3. pg.freelist \in 0 .. PageUnits
  <2>1. /\ pg.freelist \in B \cup {None} /\ pg.freelist \in Nat
        /\ \A s \in B : s < PageUnits
    BY <1>1, ChainFacts
  <2> QED
    BY <2>1, WordFacts
<1>4. Words \ used \in SUBSET Words
  OBVIOUS
<1> QED
  BY <1>2, <1>3, <1>4, WordsFinite DEF Divided

(* The free blocks the loops meet are all the free words, and none touches *)
(* the next.                                                               *)
LEMMA DividedBlocks ==
    ASSUME NEW pg, NEW used, Divided(pg, used)
    PROVE  /\ \A i \in 1 .. Len(FreeBlocks(pg)) - 1 :
                 FreeBlocks(pg)[i] + slob_units(pg.mem, FreeBlocks(pg)[i])
                    < FreeBlocks(pg)[i + 1]
           /\ Cover(pg.mem, Elements(FreeBlocks(pg))) = Words \ used
<1>1. PICK B : /\ Chained(pg.mem, pg.freelist, B) /\ Merged(pg.mem, B)
               /\ Cover(pg.mem, B) = Words \ used
  BY DEF Divided, Tiled
<1> DEFINE blocks == FreeBlocks(pg)
           n == Len(blocks)
<1>2. /\ Elements(blocks) = B /\ n \in Nat
      /\ \A i \in 1 .. n - 1 : slob_next(pg.mem, blocks[i]) = blocks[i + 1]
      /\ \A i \in 1 .. n : blocks[i] \in B
  BY <1>1, FreeBlocksFacts
<1> HIDE DEF blocks, n
<1>3. ASSUME NEW i \in 1 .. n - 1
      PROVE  blocks[i] + slob_units(pg.mem, blocks[i]) < blocks[i + 1]
  <2>1. i \in 1 .. n /\ i + 1 \in 1 .. n
    BY <1>2
  <2>2. /\ blocks[i] \in B /\ blocks[i + 1] \in B
        /\ slob_next(pg.mem, blocks[i]) = blocks[i + 1]
    BY <1>2, <2>1
  <2>3. blocks[i + 1] # None
    BY <1>1, <2>2, ChainFacts, WordFacts
  <2> QED
    BY <1>1, <2>2, <2>3 DEF Merged
<1> QED
  BY <1>1, <1>2, <1>3 DEF blocks, n

(* find_min_block is right about the room in a page.                       *)
LEMMA DividedRoom ==
    ASSUME NEW pg, NEW used, Divided(pg, used),
           NEW units \in Nat \ {0}, NEW align \in Nat \ {0},
           NEW min, min = find_min_block(pg, units, align)
    PROVE  /\ min.space \in Nat \cup {-1}
           /\ min.space = -1 =>
                 \A s \in Elements(FreeBlocks(pg)) :
                    slob_units(pg.mem, s) < units + Delta(s, align)
           /\ \A s \in Elements(FreeBlocks(pg)) :
                 slob_units(pg.mem, s) \in 1 .. pg.units
<1>1. PICK B : /\ Chained(pg.mem, pg.freelist, B)
               /\ Cover(pg.mem, B) = Words \ used
  BY DEF Divided, Tiled
<1>2. Elements(FreeBlocks(pg)) = B
  BY <1>1, FreeBlocksFacts
<1>3. ASSUME NEW s \in B PROVE slob_units(pg.mem, s) \in 1 .. pg.units
  <2>1. s \in Nat /\ slob_units(pg.mem, s) \in Nat \ {0}
    BY <1>1, ChainFacts
  <2>2. Block(pg.mem, s) \subseteq Words \ used
    BY <1>1 DEF Cover
  <2> DEFINE u == slob_units(pg.mem, s)
  <2>3. Run(s, u) \in SUBSET (Words \ used)
    BY <2>2 DEF Block, Run
  <2>4. Words \ used \in SUBSET Words
    OBVIOUS
  <2> HIDE DEF u
  <2>5. u <= Cardinality(Words \ used)
    BY <2>1, <2>3, <2>4, SpanTaken DEF u
  <2>6. Cardinality(Words \ used) \in Nat
    BY <2>4, WordsFinite
  <2> QED
    BY <2>1, <2>5, <2>6 DEF u, Divided
<1>4. \/ /\ min.space = -1
         /\ \A s \in B : slob_units(pg.mem, s) < units + Delta(s, align)
      \/ min.space \in Nat
  BY <1>1, FindFacts
<1> QED
  BY <1>2, <1>3, <1>4

(* A block of units was taken out of the words not in use, and written.    *)
Allocated(pg, used, units, align, new) ==
    LET span == new.block .. new.block + units - 1
    IN  /\ new.block \in Nat /\ new.block % align = 0
        /\ new.block + units <= PageUnits
        /\ span \subseteq Words \ used
        /\ Divided(Written(new.page, new.block, units), used \cup span)
        /\ Written(new.page, new.block, units).units = new.page.units
        /\ new.page.units = pg.units - units
        /\ slob_units(new.page.mem, new.block) \in units .. pg.units

(* The page after a block was handed out and written.                      *)
LEMMA DividedAlloc ==
    ASSUME NEW pg, NEW used, Divided(pg, used),
           NEW units \in Nat \ {0}, NEW align \in Nat \ {0},
           find_min_block(pg, units, align).space # -1,
           NEW new, new = slob_page_alloc(pg, units, align)
    PROVE  Allocated(pg, used, units, align, new)
<1> DEFINE span == new.block .. new.block + units - 1
<1> DEFINE free == Words \ used
           b == new.block
           np == new.page
           w == Written(np, b, units)
<1>1. PICK B : /\ Chained(pg.mem, pg.freelist, B) /\ Merged(pg.mem, B)
               /\ Cover(pg.mem, B) = free
  BY DEF Divided, Tiled
<1>2. /\ b \in Nat /\ b % align = 0 /\ span \subseteq free
      /\ np.units = pg.units - units
      /\ \E s \in B : slob_units(np.mem, b) \in units .. slob_units(pg.mem, s)
      /\ \E B2 : /\ Chained(np.mem, np.freelist, B2) /\ Merged(np.mem, B2)
                 /\ Cover(np.mem, B2) = free \ span
  <2> HIDE DEF free
  <2>1. Taken(pg, B, units, align, new)
    BY <1>1, AllocFacts
  <2> QED
    BY <1>1, <2>1 DEF Taken
<1>3. np = [mem |-> np.mem, freelist |-> np.freelist, units |-> np.units]
  BY DEF slob_page_alloc, PageAlloc, Unlink
<1>4. span = b .. b + units - 1
  OBVIOUS
<1> HIDE DEF b, np, span
<1>5. b + units <= PageUnits
  <2>1. b + units - 1 \in span
    BY <1>2, <1>4 DEF b
  <2>2. b + units - 1 \in Words
    BY <1>2, <2>1
  <2> QED
    BY <1>2, <2>2, WordFacts DEF Words
<1>6. PICK B2 : /\ Chained(np.mem, np.freelist, B2) /\ Merged(np.mem, B2)
                /\ Cover(np.mem, B2) = free \ span
  BY <1>2
<1>7. np.mem \in Mem
  BY <1>6 DEF Chained
<1>8. w = [mem |-> [x \in Words |-> IF x \in span THEN 0 ELSE np.mem[x]],
           freelist |-> np.freelist, units |-> np.units]
  <2>1. w = [np EXCEPT !.mem = [x \in Words |-> IF x \in span THEN 0
                                               ELSE np.mem[x]]]
    BY <1>4 DEF Written, b
  <2> QED
    BY <1>3, <2>1
<1> HIDE DEF w
<1>9. /\ w.freelist = np.freelist /\ w.units = np.units
      /\ w.mem = [x \in Words |-> IF x \in span THEN 0 ELSE np.mem[x]]
  BY <1>8
<1>10. w.mem \in Mem
  <2>1. 0 \in -PageUnits .. PageUnits
    BY WordFacts
  <2> QED
    BY <1>7, <1>9, <2>1 DEF Mem
<1>11. \A x \in Cover(np.mem, B2) : w.mem[x] = np.mem[x]
  BY <1>6, <1>9
<1>12. /\ Chained(w.mem, w.freelist, B2) /\ Merged(w.mem, B2)
       /\ Cover(w.mem, B2) = free \ span
  BY <1>6, <1>9, <1>10, <1>11, KeepChain
<1>13. free \ span = Words \ (used \cup span)
  OBVIOUS
<1>14. free \in SUBSET Words
  OBVIOUS
<1>15. Cardinality(free \ span) = Cardinality(free) - units
  <2>1. span = Run(b, units)
    BY <1>4 DEF Run
  <2> HIDE DEF free
  <2>2. span \in SUBSET free
    BY <1>2
  <2>3. b \in Nat /\ free \in SUBSET Words
    BY <1>2, <1>14 DEF b
  <2> QED
    BY <2>1, <2>2, <2>3, SpanTaken
<1>16. pg.units = Cardinality(free)
  BY DEF Divided
<1>17. Divided(w, used \cup span)
  <2>1. Tiled(w, used \cup span)
    <3> HIDE DEF free
    <3> QED
      BY <1>12, <1>13 DEF Tiled
  <2>2. w.units = Cardinality(Words \ (used \cup span))
    BY <1>2, <1>9, <1>13, <1>15, <1>16
  <2> QED
    BY <2>1, <2>2 DEF Divided
<1>18. slob_units(np.mem, b) \in units .. pg.units
  <2>1. PICK s \in B : slob_units(np.mem, b) \in units .. slob_units(pg.mem, s)
    BY <1>2
  <2>2. slob_units(pg.mem, s) \in 1 .. pg.units
    <3>1. Elements(FreeBlocks(pg)) = B
      BY <1>1, FreeBlocksFacts
    <3> QED
      BY <3>1, DividedRoom
  <2>3. pg.units \in Nat
    BY <1>14, <1>16, WordsFinite
  <2> QED
    BY <2>1, <2>2, <2>3
<1> QED
  BY <1>2, <1>5, <1>9, <1>17, <1>18 DEF b, np, w, span, Allocated

(* The first block of a page is aligned, whatever the alignment.           *)
LEMMA NoDeltaAtZero ==
    ASSUME NEW align \in Nat \ {0}
    PROVE  Delta(0, align) = 0
<1> DEFINE d == Delta(0, align)
           p == d \div align
           e == d % align
<1>1. d \in 0 .. align - 1 /\ (0 + d) % align = 0
  BY DeltaFacts
<1> HIDE DEF d
<1>2. p \in Int /\ e \in Int /\ d = align * p + e /\ 0 + d = d
  BY <1>1
<1>3. e = 0
  BY <1>1, <1>2
<1> HIDE DEF p, e
<1>4. d = align * p
  BY <1>2, <1>3
<1>5. p >= 1 => align * p >= align
  BY <1>2
<1>6. p <= -1 => align * p <= -align
  BY <1>2
<1>7. p = 0 => align * p = 0
  OBVIOUS
<1>8. d = 0
  BY <1>1, <1>2, <1>4, <1>5, <1>6, <1>7
<1> QED
  BY <1>8 DEF d

(* A fresh page is one free block, in which every request fits.            *)
LEMMA DividedFresh ==
    /\ Divided(Fresh, {})
    /\ \A r \in Requests :
          find_min_block(Fresh, SLOB_UNITS(r.size), r.align).space # -1
<1> DEFINE m == set_slob(Blank.mem, 0, PageUnits, PageUnits)
<1>1. /\ Blank.mem \in Mem /\ 0 \in Words /\ PageUnits \in 1 .. PageUnits
      /\ PageUnits \in Nat \ {0} /\ 0 + PageUnits <= PageUnits
  BY WordFacts DEF Blank, Mem, Words
<1>2. /\ m \in Mem /\ Headed(m, 0) /\ slob_units(m, 0) = PageUnits
      /\ slob_next(m, 0) = PageUnits
  BY <1>1, SetSlob
<1>3. Fresh = [mem |-> m, freelist |-> 0, units |-> PageUnits]
  BY DEF Fresh
<1> HIDE DEF m
<1>4. Fresh.mem = m /\ Fresh.freelist = 0 /\ Fresh.units = PageUnits
  BY <1>3
<1>5. Behind({0}, -1, 0) /\ Behind({0}, 0, PageUnits)
  BY <1>1, WordFacts DEF Behind
<1>6. Chained(m, 0, {0})
  BY <1>1, <1>2, <1>5 DEF Chained
<1>7. Merged(m, {0})
  BY <1>2, WordFacts DEF Merged
<1>8. Cover(m, {0}) = Words
  <2>1. Block(m, 0) = 0 .. 0 + PageUnits - 1
    BY <1>2 DEF Block
  <2>2. Cover(m, {0}) = Block(m, 0)
    BY DEF Cover
  <2>3. 0 + PageUnits - 1 = PageUnits - 1
    BY <1>1
  <2> QED
    BY <2>1, <2>2, <2>3 DEF Words
<1>9. Words \ {} = Words
  OBVIOUS
<1>10. Divided(Fresh, {})
  BY <1>4, <1>6, <1>7, <1>8, <1>9, WordsFinite DEF Divided, Tiled
<1>11. ASSUME NEW r \in Requests,
              find_min_block(Fresh, SLOB_UNITS(r.size), r.align).space = -1
       PROVE  FALSE
  <2> DEFINE u == SLOB_UNITS(r.size)
  <2>1. u \in Nat \ {0} /\ u \in 1 .. PageUnits /\ r.align \in Nat \ {0}
    BY UnitsFacts
  <2> HIDE DEF u
  <2>2. Elements(FreeBlocks(Fresh)) = {0}
    BY <1>4, <1>6, FreeBlocksFacts
  <2>3. slob_units(Fresh.mem, 0) < u + Delta(0, r.align)
    BY <1>10, <1>11, <2>1, <2>2, DividedRoom DEF u
  <2>4. Delta(0, r.align) = 0
    BY <2>1, NoDeltaAtZero
  <2> QED
    BY <1>1, <1>2, <1>4, <2>1, <2>3, <2>4
<1> QED
  BY <1>10, <1>11

(* How slob_free puts a block into its page: there is a case for the full  *)
(* page and one for each end of the list.                                  *)
PutBack(pg, b, units, r) ==
    \/ pg.units = 0 /\ r = FirstBlock(pg, b, units)
    \/ /\ pg.units > 0
       /\ r = IF b < pg.freelist THEN InsertFront(pg, b, units)
              ELSE InsertBehind(pg, b, units)

(* The page after a block was given back.                                  *)
LEMMA DividedFree ==
    ASSUME NEW pg, NEW used \in SUBSET Words, Divided(pg, used),
           NEW b \in Nat, NEW units \in Nat \ {0}, b + units <= PageUnits,
           Run(b, units) \subseteq used,
           NEW r, PutBack(pg, b, units, r)
    PROVE  Divided(r, used \ Run(b, units)) /\ r.units = pg.units + units
<1> DEFINE span == Run(b, units)
<1> DEFINE free == Words \ used
<1>1. PICK B : /\ Chained(pg.mem, pg.freelist, B) /\ Merged(pg.mem, B)
               /\ Cover(pg.mem, B) = free
  BY DEF Divided, Tiled
<1>2. /\ pg.units = Cardinality(free) /\ free \in SUBSET Words
      /\ free \cap span = {}
  BY DEF Divided
<1>3. Words \ (used \ span) = free \cup span
  <2>1. span \subseteq Words
    OBVIOUS
  <2> QED
    BY <2>1
<1>4. \/ pg.units = 0 /\ r = FirstBlock(pg, b, units)
      \/ /\ pg.units > 0
         /\ r = IF b < pg.freelist THEN InsertFront(pg, b, units)
                ELSE InsertBehind(pg, b, units)
  BY DEF PutBack
<1>5. span = b .. b + units - 1
  BY DEF Run
<1>6. span \in SUBSET used /\ span = Run(b, units)
  OBVIOUS
<1> HIDE DEF free, span
<1>7. GivenBack(pg, B, b, units, r) /\ r.units = pg.units + units
  <2>1. CASE pg.units = 0 /\ r = FirstBlock(pg, b, units)
    <3>1. free = {}
      BY <1>2, <2>1, WordsFinite, FS_EmptySet
    <3>2. pg.mem \in Mem
      BY <1>1 DEF Chained
    <3>3. B = {}
      <4> SUFFICES ASSUME NEW s \in B PROVE FALSE
        OBVIOUS
      <4>1. s \in Nat /\ slob_units(pg.mem, s) \in Nat \ {0}
        BY <1>1, ChainFacts
      <4>2. s \in Block(pg.mem, s)
        BY <4>1 DEF Block
      <4> QED
        BY <1>1, <3>1, <4>2 DEF Cover
    <3>4. GivenBack(pg, {}, b, units, r) /\ r.units = units
      BY <2>1, <3>2, FirstFacts
    <3> QED
      BY <2>1, <3>3, <3>4
  <2>2. CASE /\ pg.units > 0
             /\ r = IF b < pg.freelist THEN InsertFront(pg, b, units)
                    ELSE InsertBehind(pg, b, units)
    <3>1. B # {}
      <4> SUFFICES ASSUME B = {} PROVE FALSE
        OBVIOUS
      <4>1. free = {}
        BY <1>1 DEF Cover
      <4>2. pg.units = 0
        BY <1>2, <4>1, FS_EmptySet
      <4> QED
        BY <2>2, <4>2
    <3>2. Apart(pg, B, b, units)
      BY <1>1, <1>2, <1>5 DEF Apart
    <3>3. CASE b < pg.freelist
      <4>1. r = InsertFront(pg, b, units)
        BY <2>2, <3>3
      <4> QED
        BY <1>1, <3>1, <3>2, <3>3, <4>1, FrontFacts
    <3>4. CASE ~ b < pg.freelist
      <4>1. r = InsertBehind(pg, b, units)
        BY <2>2, <3>4
      <4> QED
        BY <1>1, <3>1, <3>2, <3>4, <4>1, BehindFacts
    <3> QED
      BY <3>3, <3>4
  <2> QED
    BY <1>4, <2>1, <2>2
<1>8. Tiled(r, used \ span)
  <2>1. PICK T : /\ Chained(r.mem, r.freelist, T) /\ Merged(r.mem, T)
                 /\ Cover(r.mem, T) = Cover(pg.mem, B) \cup span
    BY <1>7, <1>5 DEF GivenBack
  <2>2. Cover(r.mem, T) = Words \ (used \ span)
    BY <1>1, <1>3, <2>1
  <2> QED
    BY <2>1, <2>2 DEF Tiled
<1>9. Cardinality(free \cup span) = Cardinality(free) + units
  <2>1. free \in SUBSET (Words \ span) /\ span = Run(b, units)
    BY <1>2, <1>6
  <2> QED
    BY <2>1, SpanGiven
<1> QED
  BY <1>2, <1>3, <1>7, <1>8, <1>9 DEF Divided, span

-----------------------------------------------------------------------------
(* The lists of pages.                                                     *)

(* The pages on the lists, and that none is on two or twice on one.        *)
On(lists) == UNION {Elements(lists[l]) : l \in Lists}

Once(lists) ==
    \A l, k \in Lists :
        \A i \in DOMAIN lists[l], j \in DOMAIN lists[k] :
            lists[l][i] = lists[k][j] => l = k /\ i = j

(* Lists that hold the pages P, each once.                                 *)
HoldOnce(lists, S, P) ==
    /\ lists \in [Lists -> Seq(S)] /\ Once(lists)
    /\ On(lists) = P

(* A page that leaves its list leaves all others where they are.           *)
LEMMA WithoutFacts ==
    ASSUME NEW S, NEW seq \in Seq(S), NEW p,
           \A i, j \in 1 .. Len(seq) : seq[i] = seq[j] => i = j
    PROVE  /\ Without(seq, p) \in Seq(S \ {p})
           /\ Elements(Without(seq, p)) = Elements(seq) \ {p}
           /\ \A i, j \in 1 .. Len(Without(seq, p)) :
                 Without(seq, p)[i] = Without(seq, p)[j] => i = j
<1> DEFINE n == Len(seq)
           at == CHOOSE i \in DOMAIN seq : seq[i] = p
           w == Without(seq, p)
<1>1. n \in Nat /\ DOMAIN seq = 1 .. n /\ \A i \in 1 .. n : seq[i] \in S
  OBVIOUS
<1>2. CASE p \notin Elements(seq)
  <2>1. w = seq
    BY <1>2 DEF Without
  <2>2. \A i \in 1 .. n : seq[i] # p
    BY <1>1, <1>2 DEF Elements
  <2>3. seq \in Seq(S \ {p})
    <3>1. \A i \in 1 .. n : seq[i] \in S \ {p}
      BY <1>1, <2>2
    <3>2. seq = [i \in 1 .. n |-> seq[i]]
      OBVIOUS
    <3> QED
      BY <1>1, <3>1, <3>2
  <2>4. Elements(seq) = Elements(seq) \ {p}
    BY <1>2
  <2> QED
    BY <2>1, <2>3, <2>4
<1>3. CASE p \in Elements(seq)
  <2>1. at \in 1 .. n /\ seq[at] = p
    <3>1. \E i \in DOMAIN seq : seq[i] = p
      BY <1>3 DEF Elements
    <3> QED
      BY <1>1, <3>1
  <2>2. w = [i \in 1 .. n - 1 |-> seq[IF i < at THEN i ELSE i + 1]]
    BY <1>3 DEF Without
  <2> HIDE DEF at, n, w
  <2>3. ASSUME NEW i \in 1 .. n - 1
        PROVE  /\ (IF i < at THEN i ELSE i + 1) \in 1 .. n
               /\ (IF i < at THEN i ELSE i + 1) # at
    BY <1>1, <2>1
  <2>4. \A i \in 1 .. n : seq[i] = p => i = at
    BY <2>1 DEF n
  <2>5. \A i \in 1 .. n - 1 : w[i] \in S \ {p}
    <3> TAKE i \in 1 .. n - 1
    <3> DEFINE k == IF i < at THEN i ELSE i + 1
    <3>1. k \in 1 .. n /\ k # at /\ w[i] = seq[k]
      BY <2>2, <2>3
    <3> HIDE DEF k
    <3> QED
      BY <1>1, <2>4, <3>1
  <2>6. n - 1 \in Nat
    BY <1>1, <2>1
  <2>7. w \in Seq(S \ {p}) /\ Len(w) = n - 1 /\ DOMAIN w = 1 .. n - 1
    BY <2>2, <2>5, <2>6
  <2>8. Elements(w) = Elements(seq) \ {p}
    <3>1. ASSUME NEW x \in Elements(w) PROVE x \in Elements(seq) \ {p}
      <4>1. PICK i \in 1 .. n - 1 : x = w[i]
        BY <2>7 DEF Elements
      <4> DEFINE k == IF i < at THEN i ELSE i + 1
      <4>2. k \in 1 .. n /\ w[i] = seq[k]
        BY <2>2, <2>3
      <4> HIDE DEF k
      <4>3. seq[k] \in Elements(seq)
        BY <1>1, <4>2 DEF Elements
      <4> QED
        BY <2>5, <4>1, <4>2, <4>3
    <3>2. ASSUME NEW x \in Elements(seq) \ {p} PROVE x \in Elements(w)
      <4>1. PICK k \in 1 .. n : x = seq[k]
        BY <1>1 DEF Elements
      <4>2. k # at
        BY <2>1, <4>1
      <4>3. CASE k < at
        <5>1. k \in 1 .. n - 1
          BY <1>1, <2>1, <4>3
        <5>2. w[k] = seq[k]
          BY <2>2, <4>3, <5>1
        <5> QED
          BY <2>7, <4>1, <5>1, <5>2 DEF Elements
      <4>4. CASE k > at
        <5>1. k - 1 \in 1 .. n - 1 /\ ~ k - 1 < at /\ (k - 1) + 1 = k
          BY <1>1, <2>1, <4>4
        <5>2. w[k - 1] = seq[k]
          BY <2>2, <5>1
        <5> QED
          BY <2>7, <4>1, <5>1, <5>2 DEF Elements
      <4> QED
        BY <1>1, <2>1, <4>2, <4>3, <4>4
    <3> QED
      BY <3>1, <3>2
  <2>9. ASSUME NEW i \in 1 .. n - 1, NEW j \in 1 .. n - 1, w[i] = w[j]
        PROVE  i = j
    <3> DEFINE k == IF i < at THEN i ELSE i + 1
               m == IF j < at THEN j ELSE j + 1
    <3>1. k \in 1 .. n /\ w[i] = seq[k] /\ m \in 1 .. n /\ w[j] = seq[m]
      BY <2>2, <2>3
    <3>2. k = m
      <4> HIDE DEF k, m
      <4> QED
        BY <2>9, <3>1 DEF n
    <3> QED
      BY <1>1, <2>1, <3>2
  <2> QED
    BY <2>7, <2>8, <2>9 DEF w
<1> QED
  BY <1>2, <1>3

(* clear_slob_page_free.                                                   *)
LEMMA UnlistedFacts ==
    ASSUME NEW S, free_slob \in [Lists -> Seq(S)], Once(free_slob), NEW p
    PROVE  /\ Unlisted(p) \in [Lists -> Seq(S \ {p})]
           /\ Once(Unlisted(p))
           /\ On(Unlisted(p)) = On(free_slob) \ {p}
<1> DEFINE U == Unlisted(p)
<1>1. \A l \in Lists : U[l] = Without(free_slob[l], p)
  BY DEF Unlisted
<1>2. ASSUME NEW l \in Lists
      PROVE  /\ U[l] \in Seq(S \ {p})
             /\ Elements(U[l]) = Elements(free_slob[l]) \ {p}
             /\ \A i, j \in 1 .. Len(U[l]) : U[l][i] = U[l][j] => i = j
  <2> DEFINE seq == free_slob[l]
  <2>1. seq \in Seq(S)
    OBVIOUS
  <2>2. \A i, j \in 1 .. Len(seq) : seq[i] = seq[j] => i = j
    <3>1. DOMAIN seq = 1 .. Len(seq)
      BY <2>1
    <3> QED
      BY <3>1 DEF Once
  <2> HIDE DEF seq
  <2>3. /\ Without(seq, p) \in Seq(S \ {p})
        /\ Elements(Without(seq, p)) = Elements(seq) \ {p}
        /\ \A i, j \in 1 .. Len(Without(seq, p)) :
              Without(seq, p)[i] = Without(seq, p)[j] => i = j
    BY <2>1, <2>2, WithoutFacts
  <2> QED
    BY <1>1, <2>3 DEF seq
<1>3. U = [l \in Lists |-> U[l]]
  BY DEF Unlisted
<1> HIDE DEF U
<1>4. U \in [Lists -> Seq(S \ {p})]
  BY <1>2, <1>3
<1>5. Once(U)
  <2> SUFFICES ASSUME NEW l \in Lists, NEW k \in Lists,
                      NEW i \in DOMAIN U[l], NEW j \in DOMAIN U[k],
                      U[l][i] = U[k][j]
               PROVE  l = k /\ i = j
    BY DEF Once
  <2>1. U[l][i] \in Elements(U[l]) /\ U[k][j] \in Elements(U[k])
    BY DEF Elements
  <2>2. l = k
    <3>1. U[l][i] \in Elements(free_slob[l]) /\ U[k][j] \in Elements(free_slob[k])
      BY <1>2, <2>1
    <3> QED
      BY <3>1 DEF Elements, Once
  <2>3. DOMAIN U[l] = 1 .. Len(U[l])
    BY <1>2
  <2> QED
    BY <1>2, <2>2, <2>3
<1>6. On(U) = On(free_slob) \ {p}
  BY <1>2 DEF On
<1> QED
  BY <1>4, <1>5, <1>6 DEF U

(* set_slob_page_free: the page becomes the first of a list.               *)
LEMMA ListedFacts ==
    ASSUME NEW S, NEW lists \in [Lists -> Seq(S)], Once(lists),
           NEW p \in S, p \notin On(lists), NEW l \in Lists,
           NEW new, new = [lists EXCEPT ![l] = <<p>> \o @]
    PROVE  HoldOnce(new, S, On(lists) \cup {p})
<1> DEFINE seq == lists[l]
           n == Len(seq)
           q == <<p>> \o seq
<1>1. /\ seq \in Seq(S) /\ n \in Nat /\ DOMAIN seq = 1 .. n
      /\ seq = lists[l] /\ n = Len(seq)
  OBVIOUS
<1>2. /\ q \in Seq(S) /\ Len(q) = n + 1 /\ DOMAIN q = 1 .. n + 1 /\ q[1] = p
      /\ \A i \in 2 .. n + 1 : q[i] = seq[i - 1]
  BY <1>1
<1>3. \A k \in Lists : new[k] = IF k = l THEN q ELSE lists[k]
  OBVIOUS
<1>4. new \in [Lists -> Seq(S)]
  BY <1>2
<1> HIDE DEF q, seq, n
<1>5. Elements(q) = Elements(seq) \cup {p}
  <2>1. ASSUME NEW x \in Elements(q) PROVE x \in Elements(seq) \cup {p}
    <3>1. PICK i \in 1 .. n + 1 : x = q[i]
      BY <1>2 DEF Elements
    <3>2. CASE i = 1
      BY <1>2, <3>1, <3>2
    <3>3. CASE i # 1
      <4>1. i \in 2 .. n + 1 /\ i - 1 \in 1 .. n
        BY <1>1, <3>3
      <4> QED
        BY <1>1, <1>2, <3>1, <4>1 DEF Elements
    <3> QED
      BY <3>2, <3>3
  <2>2. p \in Elements(q)
    <3>1. 1 \in 1 .. n + 1
      BY <1>1
    <3> QED
      BY <1>2, <3>1 DEF Elements
  <2>3. ASSUME NEW x \in Elements(seq) PROVE x \in Elements(q)
    <3>1. PICK i \in 1 .. n : x = seq[i]
      BY <1>1 DEF Elements
    <3>2. i + 1 \in 2 .. n + 1 /\ i + 1 \in 1 .. n + 1 /\ (i + 1) - 1 = i
      BY <1>1
    <3> QED
      BY <1>2, <3>1, <3>2 DEF Elements
  <2> QED
    BY <2>1, <2>2, <2>3
<1>6. On(new) = On(lists) \cup {p}
  BY <1>1, <1>3, <1>5 DEF On
<1>7. Once(new)
  <2> SUFFICES ASSUME NEW a \in Lists, NEW b \in Lists,
                      NEW i \in DOMAIN new[a], NEW j \in DOMAIN new[b],
                      new[a][i] = new[b][j]
               PROVE  a = b /\ i = j
    BY DEF Once
  <2>1. \A k \in Lists : \A x \in Elements(lists[k]) : x # p
    BY DEF On
  <2>2. \A k \in Lists : \A m \in DOMAIN lists[k] : lists[k][m] # p
    BY <2>1 DEF Elements
  <2>3. CASE a # l /\ b # l
    BY <1>3, <2>3 DEF Once
  <2>4. CASE a = l /\ b # l
    <3>1. i \in 1 .. n + 1 /\ new[a][i] = q[i]
      BY <1>2, <1>3, <2>4
    <3>2. j \in DOMAIN lists[b] /\ new[b][j] = lists[b][j]
      BY <1>3, <2>4
    <3>3. i # 1
      BY <1>2, <2>2, <3>1, <3>2
    <3>4. i \in 2 .. n + 1 /\ i - 1 \in 1 .. n
      BY <1>1, <3>1, <3>3
    <3>5. lists[l][i - 1] = lists[b][j]
      BY <1>1, <1>2, <3>1, <3>2, <3>4
    <3> QED
      BY <1>1, <2>4, <3>2, <3>4, <3>5 DEF Once
  <2>5. CASE a # l /\ b = l
    <3>1. j \in 1 .. n + 1 /\ new[b][j] = q[j]
      BY <1>2, <1>3, <2>5
    <3>2. i \in DOMAIN lists[a] /\ new[a][i] = lists[a][i]
      BY <1>3, <2>5
    <3>3. j # 1
      BY <1>2, <2>2, <3>1, <3>2
    <3>4. j \in 2 .. n + 1 /\ j - 1 \in 1 .. n
      BY <1>1, <3>1, <3>3
    <3>5. lists[l][j - 1] = lists[a][i]
      BY <1>1, <1>2, <3>1, <3>2, <3>4
    <3> QED
      BY <1>1, <2>5, <3>2, <3>4, <3>5 DEF Once
  <2>6. CASE a = l /\ b = l
    <3>1. i \in 1 .. n + 1 /\ j \in 1 .. n + 1 /\ q[i] = q[j]
      BY <1>2, <1>3, <2>6
    <3>2. \A m \in 2 .. n + 1 : m - 1 \in 1 .. n /\ q[m] = seq[m - 1] /\ q[m] # p
      BY <1>1, <1>2, <2>2
    <3>3. CASE i = 1
      BY <1>1, <1>2, <2>6, <3>1, <3>2, <3>3
    <3>4. CASE j = 1
      BY <1>1, <1>2, <2>6, <3>1, <3>2, <3>4
    <3>5. CASE i # 1 /\ j # 1
      <4>1. i \in 2 .. n + 1 /\ j \in 2 .. n + 1
        BY <1>1, <3>1, <3>5
      <4>2. seq[i - 1] = seq[j - 1] /\ i - 1 \in 1 .. n /\ j - 1 \in 1 .. n
        BY <3>1, <3>2, <4>1
      <4>3. i - 1 = j - 1
        BY <1>1, <4>2 DEF Once
      <4> QED
        BY <1>1, <2>6, <4>1, <4>3
    <3> QED
      BY <3>3, <3>4, <3>5
  <2> QED
    BY <2>3, <2>4, <2>5, <2>6
<1> QED
  BY <1>4, <1>6, <1>7 DEF HoldOnce

-----------------------------------------------------------------------------
(* The inductive invariant: the words of every page of SLOB are its free   *)
(* blocks and the blocks in use, no page is kept without a block in use,   *)
(* and the lists hold the pages with free units.                           *)

Used(L, p) == UNION {Span(b) : b \in {c \in L : c.page = p}}

PagesInv ==
    /\ page = [p \in Pages |-> page[p]]
    /\ slab \subseteq Pages
    /\ \A p \in slab : /\ Divided(page[p], Used(live, p))
                       /\ \E b \in live : b.page = p
    /\ \A p \in Pages \ slab : page[p] = Blank

LiveInv ==
    /\ \A b \in live : /\ b.page \in slab /\ b.at \in Nat
                       /\ SLOB_UNITS(b.size) \in Nat \ {0}
                       /\ b.at + SLOB_UNITS(b.size) <= PageUnits
    /\ \A b, c \in live :
          b # c /\ b.page = c.page => Span(b) \cap Span(c) = {}

ListsInv ==
    /\ free_slob \in [Lists -> Seq(slab)] /\ Once(free_slob)
    /\ On(free_slob) = {p \in slab : page[p].units > 0}

CallsInv ==
    /\ rcu \subseteq live /\ \A b \in rcu : b.rcu
    /\ call \in [Cpus -> Requests \cup {NoCall}]

SInv == PagesInv /\ LiveInv /\ ListsInv /\ CallsInv

(* What a block in use adds to the words in use.                           *)
LEMMA UsedFacts ==
    ASSUME LiveInv, NEW p
    PROVE  /\ Used(live, p) \in SUBSET Words
           /\ p \notin slab => Used(live, p) = {}
           /\ \A b \in live : b.page = p => Span(b) \subseteq Used(live, p)
           /\ \A x : Used(live \cup {x}, p) =
                 IF x.page = p THEN Used(live, p) \cup Span(x)
                 ELSE Used(live, p)
           /\ \A b \in live : Used(live \ {b}, p) =
                 IF b.page = p THEN Used(live, p) \ Span(b)
                 ELSE Used(live, p)
<1>1. \A b \in live : Span(b) \subseteq Words
  BY WordFacts DEF LiveInv, Span, Words
<1>2. Used(live, p) \in SUBSET Words
  BY <1>1 DEF Used
<1>3. p \notin slab => Used(live, p) = {}
  BY DEF Used, LiveInv
<1>4. \A b \in live : b.page = p => Span(b) \subseteq Used(live, p)
  BY DEF Used
<1>5. ASSUME NEW x
      PROVE  Used(live \cup {x}, p) = IF x.page = p
                                      THEN Used(live, p) \cup Span(x)
                                      ELSE Used(live, p)
  BY DEF Used
<1>6. ASSUME NEW b \in live
      PROVE  Used(live \ {b}, p) = IF b.page = p
                                   THEN Used(live, p) \ Span(b)
                                   ELSE Used(live, p)
  <2>1. CASE b.page # p
    BY <2>1 DEF Used
  <2>2. CASE b.page = p
    <3>1. \A c \in live : c # b /\ c.page = p => Span(c) \cap Span(b) = {}
      BY <2>2 DEF LiveInv
    <3> QED
      BY <2>2, <3>1 DEF Used
  <2> QED
    BY <2>1, <2>2
<1> QED
  BY <1>2, <1>3, <1>4, <1>5, <1>6

(* The block x is handed out: it lies in free memory of page p, aligned.   *)
HandedOut(p, r, x) ==
    /\ live' = live \cup {x}
    /\ x.page = p /\ x.size = r.size
    /\ x.at \in Nat /\ x.at % r.align = 0
    /\ x.at + SLOB_UNITS(r.size) <= PageUnits
    /\ Span(x) \cap Used(live, p) = {}
    /\ Divided(page'[p], Used(live, p) \cup Span(x))

(* HandOut hands out one block and touches no other page.                  *)
LEMMA HandOutBlock ==
    ASSUME SInv, NEW p \in Pages, NEW r \in Requests, NEW pg, NEW lists,
           Divided(pg, Used(live, p)),
           find_min_block(pg, SLOB_UNITS(r.size), r.align).space # -1,
           HandOut(p, pg, r, lists)
    PROVE  /\ \E x : HandedOut(p, r, x)
           /\ page' = [q \in Pages |-> page'[q]]
           /\ \A q \in Pages \ {p} : page'[q] = page[q]
           /\ page'[p].units = pg.units - SLOB_UNITS(r.size)
           /\ free_slob' = IF page'[p].units > 0 THEN lists ELSE Unlisted(p)
<1> DEFINE n == SLOB_UNITS(r.size)
           new == slob_page_alloc(pg, n, r.align)
           x == [page |-> p, at |-> new.block, size |-> r.size,
                 rcu |-> r.rcu]
           span == new.block .. new.block + n - 1
<1>1. /\ page' = [page EXCEPT ![p] = Written(new.page, new.block, n)]
      /\ free_slob' = IF new.page.units > 0 THEN lists ELSE Unlisted(p)
      /\ live' = live \cup {x}
  BY DEF HandOut
<1>2. n \in Nat \ {0} /\ r.align \in Nat \ {0}
  BY UnitsFacts
<1>3. /\ x.page = p /\ x.at = new.block /\ x.size = r.size
      /\ Span(x) = span
  BY DEF Span
<1>4. page = [q \in Pages |-> page[q]]
  BY DEF SInv, PagesInv
<1> HIDE DEF x
<1>5. new = slob_page_alloc(pg, n, r.align)
      /\ span = new.block .. new.block + n - 1
  OBVIOUS
<1>6. find_min_block(pg, n, r.align).space # -1
  OBVIOUS
<1> HIDE DEF new, n, span
<1>7. /\ new.block \in Nat /\ new.block % r.align = 0
      /\ new.block + n <= PageUnits
      /\ span \subseteq Words \ Used(live, p)
      /\ Divided(Written(new.page, new.block, n), Used(live, p) \cup span)
      /\ Written(new.page, new.block, n).units = new.page.units
      /\ new.page.units = pg.units - n
  <2> DEFINE align == r.align
             used == Used(live, p)
  <2>1. /\ align \in Nat \ {0} /\ find_min_block(pg, n, align).space # -1
        /\ new = slob_page_alloc(pg, n, align) /\ Divided(pg, used)
    BY <1>2, <1>5, <1>6
  <2> HIDE DEF align, used
  <2>2. Allocated(pg, used, n, align, new)
    BY <1>2, <2>1, DividedAlloc
  <2> QED
    BY <1>5, <2>2 DEF Allocated, align, used
<1>8. /\ page'[p] = Written(new.page, new.block, n)
      /\ page' = [q \in Pages |-> page'[q]]
      /\ \A q \in Pages \ {p} : page'[q] = page[q]
  BY <1>1, <1>4
<1>9. HandedOut(p, r, x)
  <2>1. Span(x) \cap Used(live, p) = {}
    BY <1>3, <1>7
  <2> QED
    BY <1>1, <1>3, <1>7, <1>8, <2>1 DEF HandedOut, n
<1> QED
  BY <1>1, <1>7, <1>8, <1>9 DEF n

(* The page whose block is handed out keeps the invariant, and the lists   *)
(* are right again at the end of the step.                                 *)
LEMMA HandOutKeeps ==
    ASSUME SInv, NEW p \in Pages, NEW r \in Requests, NEW pg, NEW lists,
           \/ p \in On(free_slob) /\ pg = page[p] /\ lists = free_slob
           \/ /\ p \notin slab /\ pg = Fresh
              /\ lists = [free_slob EXCEPT ![SlobList(r.size)] = <<p>> \o @],
           find_min_block(pg, SLOB_UNITS(r.size), r.align).space # -1,
           HandOut(p, pg, r, lists), slab' = slab \cup {p}
    PROVE  /\ PagesInv' /\ LiveInv' /\ ListsInv'
           /\ \E x : HandedOut(p, r, x)
<1> USE DEF SInv
<1>1. Divided(pg, Used(live, p))
  <2>1. CASE p \in On(free_slob) /\ pg = page[p]
    BY <2>1 DEF ListsInv, PagesInv
  <2>2. CASE p \notin slab /\ pg = Fresh
    <3>1. Used(live, p) = {}
      BY <2>2, UsedFacts
    <3> QED
      BY <2>2, <3>1, DividedFresh
  <2> QED
    BY <2>1, <2>2
<1>2. /\ \E x : HandedOut(p, r, x)
      /\ page' = [q \in Pages |-> page'[q]]
      /\ \A q \in Pages \ {p} : page'[q] = page[q]
      /\ free_slob' = IF page'[p].units > 0 THEN lists ELSE Unlisted(p)
  BY <1>1, HandOutBlock
<1>3. PICK x : HandedOut(p, r, x)
  BY <1>2
<1>4. /\ live' = live \cup {x}
      /\ x.page = p /\ x.size = r.size /\ x.at \in Nat
      /\ SLOB_UNITS(x.size) \in Nat \ {0}
      /\ x.at + SLOB_UNITS(x.size) <= PageUnits
      /\ Span(x) \cap Used(live, p) = {}
      /\ Divided(page'[p], Used(live, p) \cup Span(x))
  BY <1>3, UnitsFacts DEF HandedOut
<1>5. \A q : Used(live', q) = IF q = p THEN Used(live, q) \cup Span(x)
                              ELSE Used(live, q)
  BY <1>4, UsedFacts
<1>6. slab \subseteq Pages
  BY DEF PagesInv
<1>7. PagesInv'
  <2>1. slab' \subseteq Pages
    BY <1>6
  <2>2. ASSUME NEW q \in slab'
        PROVE  Divided(page'[q], Used(live', q)) /\ \E b \in live' : b.page = q
    <3>1. CASE q = p
      BY <1>4, <1>5, <3>1
    <3>2. CASE q # p
      <4>1. q \in slab /\ page'[q] = page[q] /\ Used(live', q) = Used(live, q)
        BY <1>2, <1>5, <1>6, <3>2
      <4> QED
        BY <1>4, <4>1 DEF PagesInv
    <3> QED
      BY <3>1, <3>2
  <2>3. ASSUME NEW q \in Pages \ slab' PROVE page'[q] = Blank
    BY <1>2 DEF PagesInv
  <2> QED
    BY <1>2, <2>1, <2>2, <2>3 DEF PagesInv
<1>8. LiveInv'
  <2>1. ASSUME NEW b \in live'
        PROVE  /\ b.page \in slab' /\ b.at \in Nat
               /\ SLOB_UNITS(b.size) \in Nat \ {0}
               /\ b.at + SLOB_UNITS(b.size) <= PageUnits
    BY <1>4 DEF LiveInv
  <2>2. ASSUME NEW b \in live', NEW c \in live', b # c, b.page = c.page
        PROVE  Span(b) \cap Span(c) = {}
    <3>1. \A d \in live : d.page = p => Span(d) \cap Span(x) = {}
      BY <1>4, UsedFacts
    <3> QED
      BY <1>4, <2>2, <3>1 DEF LiveInv
  <2>3. \A b : Span(b)' = Span(b)
    BY DEF Span
  <2> QED
    BY <2>1, <2>2, <2>3 DEF LiveInv
<1>9. ListsInv'
  <2>1. /\ free_slob \in [Lists -> Seq(slab')] /\ Once(free_slob)
        /\ On(free_slob) = {q \in slab : page[q].units > 0}
    <3>1. \A l \in Lists : free_slob[l] \in Seq(slab')
      <4> TAKE l \in Lists
      <4>1. free_slob[l] \in Seq(slab)
        BY DEF ListsInv
      <4> QED
        BY <4>1
    <3>2. free_slob = [l \in Lists |-> free_slob[l]]
      BY DEF ListsInv
    <3> QED
      BY <3>1, <3>2 DEF ListsInv
  <2>2. /\ lists \in [Lists -> Seq(slab')] /\ Once(lists)
        /\ On(lists) = On(free_slob) \cup {p}
    <3>1. CASE p \in On(free_slob) /\ lists = free_slob
      BY <2>1, <3>1
    <3>2. CASE /\ p \notin slab
               /\ lists = [free_slob EXCEPT ![SlobList(r.size)] = <<p>> \o @]
      <4>1. p \notin On(free_slob) /\ p \in slab'
        BY <2>1, <3>2
      <4>2. SlobList(r.size) \in Lists
        BY DEF SlobList, Lists
      <4>3. HoldOnce(lists, slab', On(free_slob) \cup {p})
        BY <2>1, <3>2, <4>1, <4>2, ListedFacts
      <4> QED
        BY <4>3 DEF HoldOnce
    <3> QED
      BY <3>1, <3>2
  <2>3. page'[p].units \in Nat
    <3> DEFINE np == page'[p]
               used == Used(live, p) \cup Span(x)
    <3>1. Divided(np, used)
      BY <1>4
    <3> HIDE DEF np, used
    <3>2. np.units \in 0 .. PageUnits
      BY <3>1, DividedTypes
    <3> QED
      BY <3>2, WordFacts DEF np
  <2>4. \A q \in slab \ {p} : page'[q] = page[q]
    BY <1>2, <1>6
  <2>5. CASE page'[p].units > 0
    <3>1. free_slob' = lists
      BY <1>2, <2>5
    <3>2. On(lists) = {q \in slab' : page'[q].units > 0}
      BY <2>1, <2>2, <2>4, <2>5
    <3> QED
      BY <2>2, <3>1, <3>2 DEF ListsInv
  <2>6. CASE ~ page'[p].units > 0
    <3>1. free_slob' = Unlisted(p)
      BY <1>2, <2>6
    <3>2. /\ free_slob' \in [Lists -> Seq(slab' \ {p})] /\ Once(free_slob')
          /\ On(free_slob') = On(free_slob) \ {p}
      BY <2>1, <3>1, UnlistedFacts
    <3>3. On(free_slob') = {q \in slab' : page'[q].units > 0}
      BY <2>1, <2>4, <2>6, <3>2
    <3>4. free_slob' \in [Lists -> Seq(slab')]
      BY <3>2
    <3> QED
      BY <3>2, <3>3, <3>4 DEF ListsInv
  <2> QED
    BY <2>5, <2>6
<1> QED
  BY <1>2, <1>7, <1>8, <1>9

(* A block is the only one of its page exactly when slob_free finds it so. *)
LEMMA LastBlock ==
    ASSUME SInv, NEW b \in live,
           NEW n, n = SLOB_UNITS(b.size), NEW p, p = b.page
    PROVE  page[p].units + n = PageUnits
              <=> ~ \E c \in live : c.page = p /\ c # b
<1> DEFINE used == Used(live, p)
           free == Words \ used
           span == Span(b)
           rest == free \cup span
<1>1. /\ p \in slab /\ b.at \in Nat /\ n \in Nat \ {0}
      /\ b.at + n <= PageUnits /\ span = Run(b.at, n)
  BY DEF SInv, LiveInv, Span, Run
<1>2. /\ used \in SUBSET Words /\ span \subseteq used
  BY UsedFacts DEF SInv
<1>3. page[p].units = Cardinality(free)
  BY <1>1 DEF SInv, PagesInv, Divided
<1>4. free \in SUBSET (Words \ span) /\ rest = free \cup span
  BY <1>2
<1>5. rest = Words \ (used \ span)
  BY <1>2
<1>6. used \ span = Used(live \ {b}, p)
  BY UsedFacts DEF SInv
<1> HIDE DEF used, free, span, rest
<1>7. rest \subseteq Words /\ Cardinality(rest) = Cardinality(free) + n
  BY <1>1, <1>4, SpanGiven
<1>8. page[p].units + n = PageUnits <=> rest = Words
  BY <1>3, <1>7, WordsFinite, FS_Subset
<1>9. rest = Words <=> Used(live \ {b}, p) = {}
  BY <1>2, <1>5, <1>6
<1>10. ASSUME NEW c \in live, c.page = p, c # b
       PROVE  Used(live \ {b}, p) # {}
  <2>1. c.at \in Nat /\ SLOB_UNITS(c.size) \in Nat \ {0}
    BY DEF SInv, LiveInv
  <2>2. c.at \in Span(c)
    BY <2>1 DEF Span
  <2> QED
    BY <1>10, <2>2 DEF Used
<1>11. (~ \E c \in live : c.page = p /\ c # b) => Used(live \ {b}, p) = {}
  BY DEF Used
<1> QED
  BY <1>8, <1>9, <1>10, <1>11

(* What slob_free does to the page, whichever way it goes.                 *)
LEMMA FreeKeeps ==
    ASSUME SInv, NEW b \in live, slob_free(b)
    PROVE  PagesInv' /\ LiveInv' /\ ListsInv' /\ live' = live \ {b}
<1> USE DEF SInv
<1> DEFINE p == b.page
           n == SLOB_UNITS(b.size)
           used == Used(live, p)
<1>1. /\ live' = live \ {b}
      /\ FreePage(b) \/ FreeFirst(b) \/ FreeInto(b)
  BY DEF slob_free
<1>2. /\ p \in slab /\ p \in Pages /\ b.at \in Nat /\ n \in Nat \ {0}
      /\ b.at + n <= PageUnits /\ Span(b) = b.at .. b.at + n - 1
  BY DEF LiveInv, PagesInv, Span
<1>3. /\ page = [q \in Pages |-> page[q]] /\ slab \subseteq Pages
  BY DEF PagesInv
<1>4. \A q : Used(live', q) = IF q = p THEN Used(live, q) \ Span(b)
                              ELSE Used(live, q)
  BY <1>1, UsedFacts
<1>5. used \in SUBSET Words /\ Span(b) \subseteq used
  BY UsedFacts
<1>6. Divided(page[p], used) /\ page[p].units \in Nat
  <2>1. Divided(page[p], used)
    BY <1>2 DEF PagesInv
  <2> DEFINE np == page[p]
  <2>2. Divided(np, used)
    BY <2>1
  <2> HIDE DEF np, used
  <2>3. np.units \in 0 .. PageUnits
    BY <2>2, DividedTypes
  <2> QED
    BY <2>1, <2>3, WordFacts DEF np
<1>7. \A c \in live' :
         /\ c.page \in slab /\ c.at \in Nat
         /\ SLOB_UNITS(c.size) \in Nat \ {0}
         /\ c.at + SLOB_UNITS(c.size) <= PageUnits
  BY <1>1 DEF LiveInv
<1>8. \A c, d \in live' :
         c # d /\ c.page = d.page => (Span(c) \cap Span(d))' = {}
  BY <1>1 DEF LiveInv, Span
<1>9. page[p].units + n = PageUnits
         <=> ~ \E c \in live : c.page = p /\ c # b
  BY LastBlock
<1>10. /\ free_slob \in [Lists -> Seq(slab)] /\ Once(free_slob)
       /\ On(free_slob) = {q \in slab : page[q].units > 0}
       /\ Listed = On(free_slob)
  BY DEF ListsInv, Listed, On
<1> HIDE DEF p, n, used
<1>11. CASE FreePage(b)
  <2>1. /\ page' = [page EXCEPT ![p] = Blank]
        /\ free_slob' = Unlisted(p) /\ slab' = slab \ {p}
        /\ ~ \E c \in live : c.page = p /\ c # b
    BY <1>9, <1>11 DEF FreePage, p, n
  <2>2. /\ page'[p] = Blank /\ \A q \in Pages \ {p} : page'[q] = page[q]
        /\ page' = [q \in Pages |-> page'[q]]
    BY <1>2, <1>3, <2>1
  <2>3. PagesInv'
    <3>1. ASSUME NEW q \in slab'
          PROVE  /\ Divided(page'[q], Used(live', q))
                 /\ \E c \in live' : c.page = q
      <4>1. q \in slab /\ q # p /\ page'[q] = page[q]
        BY <1>3, <2>1, <2>2
      <4>2. Used(live', q) = Used(live, q)
        BY <1>4, <4>1
      <4>3. PICK c \in live : c.page = q
        BY <4>1 DEF PagesInv
      <4>4. c \in live'
        BY <1>1, <4>1, <4>3 DEF p
      <4> QED
        BY <4>1, <4>2, <4>3, <4>4 DEF PagesInv
    <3>2. ASSUME NEW q \in Pages \ slab' PROVE page'[q] = Blank
      BY <2>1, <2>2 DEF PagesInv
    <3> QED
      BY <1>3, <2>1, <2>2, <3>1, <3>2 DEF PagesInv
  <2>4. LiveInv'
    <3>1. \A c \in live' : c.page \in slab'
      BY <1>1, <1>7, <2>1
    <3> QED
      BY <1>7, <1>8, <3>1 DEF LiveInv
  <2>5. ListsInv'
    <3>1. /\ free_slob' \in [Lists -> Seq(slab')] /\ Once(free_slob')
          /\ On(free_slob') = On(free_slob) \ {p}
      BY <1>10, <2>1, UnlistedFacts
    <3>2. On(free_slob') = {q \in slab' : page'[q].units > 0}
      BY <1>3, <1>10, <2>1, <2>2, <3>1
    <3> QED
      BY <3>1, <3>2 DEF ListsInv
  <2> QED
    BY <1>1, <2>3, <2>4, <2>5
<1>12. CASE FreeFirst(b) \/ FreeInto(b)
  <2>1. /\ slab' = slab
        /\ \E c \in live : c.page = p /\ c # b
        /\ PutBack(page[p], b.at, n, page'[p])
        /\ \/ /\ page[p].units = 0
              /\ free_slob' = [free_slob EXCEPT ![SlobList(b.size)] = <<p>> \o @]
           \/ page[p].units > 0 /\ free_slob' = free_slob
        /\ \A q \in Pages \ {p} : page'[q] = page[q]
        /\ page' = [q \in Pages |-> page'[q]]
    <3>1. page[p].units + n # PageUnits
      BY <1>12 DEF FreeFirst, FreeInto, p, n
    <3>2. \E c \in live : c.page = p /\ c # b
      BY <1>9, <3>1
    <3>3. p \in Listed <=> page[p].units > 0
      BY <1>2, <1>10
    <3>4. CASE FreeFirst(b)
      <4>1. /\ page' = [page EXCEPT ![p] = FirstBlock(page[p], b.at, n)]
            /\ slab' = slab /\ p \notin Listed
            /\ free_slob' = [free_slob EXCEPT ![SlobList(b.size)] =
                                <<p>> \o @]
        BY <3>4 DEF FreeFirst, p, n
      <4>2. page[p].units = 0
        BY <1>6, <3>3, <4>1
      <4>3. /\ page'[p] = FirstBlock(page[p], b.at, n)
            /\ \A q \in Pages \ {p} : page'[q] = page[q]
            /\ page' = [q \in Pages |-> page'[q]]
        BY <1>2, <1>3, <4>1
      <4> QED
        BY <3>2, <4>1, <4>2, <4>3 DEF PutBack
    <3>5. CASE FreeInto(b)
      <4> DEFINE np == IF b.at < page[p].freelist
                       THEN InsertFront(page[p], b.at, n)
                       ELSE InsertBehind(page[p], b.at, n)
      <4>1. /\ page' = [page EXCEPT ![p] = np]
            /\ slab' = slab /\ p \in Listed /\ free_slob' = free_slob
        BY <3>5 DEF FreeInto, p, n
      <4>2. page[p].units > 0
        BY <3>3, <4>1
      <4>3. PutBack(page[p], b.at, n, np)
        BY <4>2 DEF PutBack
      <4> HIDE DEF np
      <4>4. /\ page'[p] = np
            /\ \A q \in Pages \ {p} : page'[q] = page[q]
            /\ page' = [q \in Pages |-> page'[q]]
        BY <1>2, <1>3, <4>1
      <4> QED
        BY <3>2, <4>1, <4>2, <4>3, <4>4
    <3> QED
      BY <1>12, <3>4, <3>5
  <2>2. /\ \A q \in Pages \ {p} : page'[q] = page[q]
        /\ page' = [q \in Pages |-> page'[q]]
    BY <2>1
  <2>3. /\ Divided(page'[p], used \ Span(b))
        /\ page'[p].units = page[p].units + n
    <3> DEFINE pg == page[p]
               np == page'[p]
               at == b.at
               span == Span(b)
    <3>1. /\ Divided(pg, used) /\ used \in SUBSET Words /\ at \in Nat
          /\ n \in Nat \ {0} /\ at + n <= PageUnits
          /\ span = Run(at, n) /\ Run(at, n) \subseteq used
          /\ PutBack(pg, at, n, np)
      BY <1>2, <1>5, <1>6, <2>1 DEF Run
    <3> HIDE DEF pg, np, at, span
    <3>2. Divided(np, used \ Run(at, n)) /\ np.units = pg.units + n
      BY <3>1, DividedFree
    <3> QED
      BY <3>1, <3>2 DEF pg, np, span
  <2>4. PagesInv'
    <3>1. ASSUME NEW q \in slab'
          PROVE  /\ Divided(page'[q], Used(live', q))
                 /\ \E c \in live' : c.page = q
      <4>1. CASE q = p
        BY <1>1, <1>4, <2>1, <2>3, <4>1 DEF used
      <4>2. CASE q # p
        <5>1. q \in slab /\ page'[q] = page[q] /\ Used(live', q) = Used(live, q)
          BY <1>3, <1>4, <2>1, <2>2, <4>2
        <5>2. PICK c \in live : c.page = q
          BY <5>1 DEF PagesInv
        <5>3. c \in live'
          BY <1>1, <4>2, <5>2 DEF p
        <5> QED
          BY <5>1, <5>2, <5>3 DEF PagesInv
      <4> QED
        BY <4>1, <4>2
    <3>2. ASSUME NEW q \in Pages \ slab' PROVE page'[q] = Blank
      BY <1>2, <2>1, <2>2 DEF PagesInv
    <3> QED
      BY <1>3, <2>1, <2>2, <3>1, <3>2 DEF PagesInv
  <2>5. LiveInv'
    BY <1>7, <1>8, <2>1 DEF LiveInv
  <2>6. ListsInv'
    <3>1. page'[p].units > 0
      BY <1>2, <1>6, <2>3
    <3>2. \A q \in slab \ {p} : page'[q] = page[q]
      BY <1>3, <2>2
    <3>3. CASE /\ page[p].units = 0
               /\ free_slob' = [free_slob EXCEPT ![SlobList(b.size)] = <<p>> \o @]
      <4>1. p \notin On(free_slob)
        BY <1>10, <3>3
      <4>2. SlobList(b.size) \in Lists
        BY DEF SlobList, Lists
      <4>3. HoldOnce(free_slob', slab, On(free_slob) \cup {p})
        BY <1>2, <1>10, <3>3, <4>1, <4>2, ListedFacts
      <4>4. On(free_slob') = {q \in slab' : page'[q].units > 0}
        BY <1>2, <1>10, <2>1, <3>1, <3>2, <4>3 DEF HoldOnce
      <4> QED
        BY <2>1, <4>3, <4>4 DEF ListsInv, HoldOnce
    <3>4. CASE page[p].units > 0 /\ free_slob' = free_slob
      <4>1. On(free_slob') = {q \in slab' : page'[q].units > 0}
        BY <1>2, <1>10, <2>1, <3>1, <3>2, <3>4
      <4> QED
        BY <1>10, <2>1, <3>4, <4>1 DEF ListsInv
    <3> QED
      BY <2>1, <3>3, <3>4
  <2> QED
    BY <1>1, <2>4, <2>5, <2>6
<1> QED
  BY <1>1, <1>11, <1>12

-----------------------------------------------------------------------------
(* The number of free units, which free_mem_stat reports.                  *)

(* The things of each page, A[p] those of page p.                          *)
Sum(P, A) == UNION {{p} \X A[p] : p \in P}

(* Pages with the same numbers of things have as many things in all.       *)
LEMMA SameSum ==
    ASSUME NEW P, NEW A, NEW B, IsFiniteSet(Sum(P, A)),
           \A p \in P : /\ IsFiniteSet(A[p]) /\ IsFiniteSet(B[p])
                        /\ Cardinality(A[p]) = Cardinality(B[p])
    PROVE  /\ IsFiniteSet(Sum(P, B))
           /\ Cardinality(Sum(P, A)) = Cardinality(Sum(P, B))
<1> DEFINE S == Sum(P, A)
           T == Sum(P, B)
           f == [p \in P |-> CHOOSE h : h \in Bijection(A[p], B[p])]
           g == [s \in S |-> <<s[1], f[s[1]][s[2]]>>]
<1>1. \A p \in P : f[p] \in Bijection(A[p], B[p])
  <2> TAKE p \in P
  <2>1. ExistsBijection(A[p], B[p])
    BY FS_SameCardinalityBij
  <2>2. \E h : h \in Bijection(A[p], B[p])
    BY <2>1 DEF ExistsBijection
  <2> QED
    BY <2>2
<1>2. \A p \in P : /\ f[p] \in [A[p] -> B[p]]
                   /\ \A x, y \in A[p] : f[p][x] = f[p][y] => x = y
                   /\ \A z \in B[p] : \E x \in A[p] : f[p][x] = z
  <2> TAKE p \in P
  <2> HIDE DEF f
  <2> QED
    BY <1>1 DEF Bijection, Injection, Surjection, IsInjective
<1> HIDE DEF f
<1>3. \A s \in S : /\ s = <<s[1], s[2]>> /\ s[1] \in P /\ s[2] \in A[s[1]]
                   /\ g[s] = <<s[1], f[s[1]][s[2]]>>
  BY DEF Sum
<1>4. \A p \in P : \A x \in A[p] : <<p, x>> \in S
  BY DEF Sum
<1>5. \A p \in P : \A z \in B[p] : <<p, z>> \in T
  BY DEF Sum
<1>6. \A t \in T : t = <<t[1], t[2]>> /\ t[1] \in P /\ t[2] \in B[t[1]]
  BY DEF Sum
<1>7. g \in [S -> T]
  <2>1. \A s \in S : <<s[1], f[s[1]][s[2]]>> \in T
    BY <1>2, <1>3, <1>5
  <2> HIDE DEF S, T
  <2> QED
    BY <2>1
<1> HIDE DEF S, T, g
<1>8. ASSUME NEW s \in S, NEW t \in S, g[s] = g[t] PROVE s = t
  <2>1. s[1] = t[1] /\ f[s[1]][s[2]] = f[t[1]][t[2]]
    BY <1>3, <1>8
  <2>2. s[2] = t[2]
    BY <1>2, <1>3, <2>1
  <2> QED
    BY <1>3, <2>1, <2>2
<1>9. ASSUME NEW t \in T PROVE \E s \in S : g[s] = t
  <2>1. t = <<t[1], t[2]>> /\ t[1] \in P /\ t[2] \in B[t[1]]
    BY <1>6
  <2>2. PICK x \in A[t[1]] : f[t[1]][x] = t[2]
    BY <1>2, <2>1
  <2>3. <<t[1], x>> \in S
    BY <1>4, <2>1
  <2>4. g[<<t[1], x>>] = <<t[1], t[2]>>
    BY <1>3, <2>2, <2>3
  <2> QED
    BY <2>1, <2>3, <2>4
<1>10. g \in Bijection(S, T)
  BY <1>7, <1>8, <1>9 DEF Bijection, Injection, Surjection, IsInjective
<1>11. ExistsBijection(S, T)
  BY <1>10 DEF ExistsBijection
<1>12. IsFiniteSet(S)
  BY DEF S
<1>13. IsFiniteSet(T) /\ Cardinality(T) = Cardinality(S)
  BY <1>11, <1>12, FS_Bijection
<1> QED
  BY <1>13 DEF S, T

(* A page of SLOB is divided into its free blocks and the blocks in use,   *)
(* and a page that is not SLOB's has no free blocks.                       *)
LEMMA PageFacts ==
    ASSUME SInv, NEW p \in Pages
    PROVE  /\ Divided(page[p], IF p \in slab THEN Used(live, p) ELSE Words)
           /\ FreeWords(p) = Words \ (IF p \in slab THEN Used(live, p)
                                      ELSE Words)
           /\ page[p].units = Cardinality(FreeWords(p))
           /\ page[p].units \in 0 .. PageUnits - 1
           /\ IsFiniteSet(FreeWords(p)) /\ FreeWords(p) \subseteq Words
<1> DEFINE used == IF p \in slab THEN Used(live, p) ELSE Words
           pg == page[p]
           free == Words \ used
<1>1. Divided(pg, used)
  <2>1. CASE p \in slab
    BY <2>1 DEF SInv, PagesInv
  <2>2. CASE p \notin slab
    <3>1. pg = Blank
      BY <2>2 DEF SInv, PagesInv
    <3>2. Blank.mem \in Mem /\ Blank.freelist = None /\ Blank.units = 0
      BY WordFacts DEF Blank, Mem
    <3>3. Chained(Blank.mem, None, {}) /\ Merged(Blank.mem, {})
      BY <3>2, WordFacts DEF Chained, Merged, Behind
    <3>4. Cover(Blank.mem, {}) = Words \ Words
      BY DEF Cover
    <3>5. Cardinality(Words \ Words) = 0
      BY FS_EmptySet
    <3>6. Divided(Blank, Words)
      BY <3>2, <3>3, <3>4, <3>5 DEF Divided, Tiled
    <3> QED
      BY <2>2, <3>1, <3>6
  <2> QED
    BY <2>1, <2>2
<1>2. used # {}
  <2>1. CASE p \in slab
    <3>1. PICK b \in live : b.page = p
      BY <2>1 DEF SInv, PagesInv
    <3>2. b.at \in Nat /\ SLOB_UNITS(b.size) \in Nat \ {0}
      BY DEF SInv, LiveInv
    <3>3. b.at \in Span(b)
      BY <3>2 DEF Span
    <3> QED
      BY <2>1, <3>1, <3>3 DEF Used
  <2>2. CASE p \notin slab
    BY <2>2, WordFacts DEF Words
  <2> QED
    BY <2>1, <2>2
<1>3. used \subseteq Words
  BY UsedFacts DEF SInv
<1>4. FreeWords(p) = Cover(pg.mem, Elements(FreeBlocks(pg)))
  BY DEF FreeWords, Cover, Block
<1> HIDE DEF pg, used
<1>5. Cover(pg.mem, Elements(FreeBlocks(pg))) = free
  BY <1>1, DividedBlocks
<1>6. pg.units = Cardinality(free)
  BY <1>1 DEF Divided
<1>7. free \in SUBSET Words /\ free # Words
  BY <1>2, <1>3
<1> HIDE DEF free
<1>8. IsFiniteSet(free) /\ Cardinality(free) \in 0 .. PageUnits - 1
  <2>1. /\ IsFiniteSet(free) /\ Cardinality(free) \in 0 .. PageUnits
        /\ IsFiniteSet(Words) /\ Cardinality(Words) = PageUnits
    BY <1>7, WordsFinite
  <2>2. Cardinality(free) # PageUnits
    BY <1>7, <2>1, FS_Subset
  <2> QED
    BY <2>1, <2>2, WordFacts
<1> QED
  BY <1>1, <1>4, <1>5, <1>6, <1>7, <1>8 DEF pg, free, used

(* The numbers from 1 to n are n.                                          *)
LEMMA UpTo ==
    ASSUME NEW n \in Nat
    PROVE  IsFiniteSet(1 .. n) /\ Cardinality(1 .. n) = n
<1>1. /\ IsFiniteSet(1 .. n)
      /\ Cardinality(1 .. n) = IF 1 > n THEN 0 ELSE n - 1 + 1
  BY FS_Interval
<1> QED
  BY <1>1

(* free_mem_stat adds up the free words of all pages: a page that is on no *)
(* list has none.                                                          *)
LEMMA FreeUnitsFacts ==
    ASSUME SInv
    PROVE  /\ FreeUnits \in 0 .. Cardinality(Pages) * PageUnits
           /\ FreeUnits = Cardinality(UNION {{p} \X FreeWords(p) : p \in slab})
           /\ IsFiniteSet(UNION {{p} \X FreeWords(p) : p \in slab})
           /\ Listed \subseteq Pages
           /\ \A p \in Listed : page[p].units <= FreeUnits
<1> DEFINE A == [p \in Pages |-> 1 .. page[p].units]
           B == [p \in Pages |-> FreeWords(p)]
           all == Pages \X (1 .. PageUnits)
<1>1. /\ slab \subseteq Pages
      /\ Listed = {p \in slab : page[p].units > 0}
  BY DEF SInv, PagesInv, ListsInv, On, Listed
<1>2. \A p \in Pages : /\ page[p].units \in Nat /\ page[p].units <= PageUnits
                       /\ page[p].units = Cardinality(FreeWords(p))
                       /\ IsFiniteSet(FreeWords(p))
  BY PageFacts, WordFacts
<1>3. UNION {{p} \X (1 .. page[p].units) : p \in Listed} = Sum(slab, A)
  <2>1. \A p \in slab : A[p] = 1 .. page[p].units
    BY <1>1
  <2>2. \A p \in slab : p \notin Listed => A[p] = {}
    BY <1>1, <1>2, <2>1
  <2> HIDE DEF A
  <2>3. UNION {{p} \X A[p] : p \in Listed} = UNION {{p} \X A[p] : p \in slab}
    BY <1>1, <2>2
  <2>4. \A p \in Listed : A[p] = 1 .. page[p].units
    BY <1>1, <2>1
  <2> QED
    BY <2>3, <2>4 DEF Sum
<1>4. Sum(slab, A) \in SUBSET all
  <2>1. \A p \in slab : p \in Pages /\ A[p] \subseteq 1 .. PageUnits
    BY <1>1, <1>2, WordFacts
  <2> HIDE DEF A
  <2> QED
    BY <2>1 DEF Sum
<1>5. IsFiniteSet(all) /\ Cardinality(all) = Cardinality(Pages) * PageUnits
  <2>1. IsFiniteSet(1 .. PageUnits) /\ Cardinality(1 .. PageUnits) = PageUnits
    BY WordFacts, FS_Interval
  <2>2. IsFiniteSet(Pages)
    BY SlobAssumption
  <2> QED
    BY <2>1, <2>2, FS_Product
<1>6. FreeUnits = Cardinality(Sum(slab, A))
  BY <1>3 DEF FreeUnits
<1> HIDE DEF all
<1>7. IsFiniteSet(Sum(slab, A)) /\ Cardinality(Sum(slab, A)) <= Cardinality(all)
  BY <1>4, <1>5, FS_Subset
<1>8. Cardinality(Sum(slab, A)) \in Nat /\ Cardinality(all) \in Nat
  BY <1>5, <1>7, FS_CardinalityType
<1>9. \A p \in slab : /\ IsFiniteSet(A[p]) /\ IsFiniteSet(B[p])
                      /\ Cardinality(A[p]) = Cardinality(B[p])
  <2> TAKE p \in slab
  <2>1. A[p] = 1 .. page[p].units /\ B[p] = FreeWords(p)
    BY <1>1
  <2>2. /\ IsFiniteSet(1 .. page[p].units)
        /\ Cardinality(1 .. page[p].units) = page[p].units
    BY <1>1, <1>2, UpTo
  <2> QED
    BY <1>1, <1>2, <2>1, <2>2
<1>10. UNION {{p} \X FreeWords(p) : p \in slab} = Sum(slab, B)
  BY <1>1 DEF Sum
<1>11. ASSUME NEW p \in Listed PROVE page[p].units <= FreeUnits
  <2> DEFINE own == {p} \X (1 .. page[p].units)
  <2>1. own \in SUBSET Sum(slab, A)
    BY <1>3
  <2>2. page[p].units \in Nat
    BY <1>1, <1>2
  <2>3. /\ IsFiniteSet(1 .. page[p].units)
        /\ Cardinality(1 .. page[p].units) = page[p].units
    BY <2>2, UpTo
  <2>4. IsFiniteSet({p}) /\ Cardinality({p}) = 1
    BY FS_Singleton
  <2>5. Cardinality(own) = 1 * page[p].units
    BY <2>3, <2>4, FS_Product
  <2> HIDE DEF own
  <2>6. Cardinality(own) <= Cardinality(Sum(slab, A))
    BY <1>7, <2>1, FS_Subset
  <2> QED
    BY <1>6, <2>2, <2>5, <2>6
<1> HIDE DEF A, B
<1> DEFINE free == UNION {{p} \X FreeWords(p) : p \in slab}
<1>12. /\ Cardinality(Sum(slab, A)) = Cardinality(Sum(slab, B))
       /\ IsFiniteSet(Sum(slab, B))
  BY <1>7, <1>9, SameSum
<1>13. FreeUnits = Cardinality(free) /\ IsFiniteSet(free)
  BY <1>6, <1>10, <1>12
<1>14. FreeUnits \in 0 .. Cardinality(Pages) * PageUnits
  BY <1>5, <1>6, <1>7, <1>8
<1>15. Listed \subseteq Pages
  BY <1>1
<1> QED
  BY <1>11, <1>13, <1>14, <1>15 DEF free

-----------------------------------------------------------------------------
(* The choice of a page.                                                   *)

(* A page is passed over only if the request fits into none of its blocks. *)
LEMMA SpaceFacts ==
    ASSUME SInv, NEW p \in slab, NEW r \in Requests
    PROVE  /\ Space(p, r) \in Nat \cup {-1}
           /\ Space(p, r) # -1 =>
                 find_min_block(page[p], SLOB_UNITS(r.size), r.align).space # -1
           /\ Space(p, r) = -1 => ~ HasRoom(p, r)
<1> DEFINE pg == page[p]
           n == SLOB_UNITS(r.size)
           min == find_min_block(pg, n, r.align)
           blocks == Elements(FreeBlocks(pg))
           align == r.align
<1>1. n \in Nat \ {0} /\ align \in Nat \ {0}
  BY UnitsFacts
<1>2. Divided(pg, Used(live, p))
  BY DEF SInv, PagesInv
<1>3. Space(p, r) = IF pg.units < n THEN -1 ELSE min.space
  BY DEF Space
<1>4. HasRoom(p, r) <=> \E s \in blocks :
         slob_units(pg.mem, s) >= Delta(s, align) + n
  BY DEF HasRoom
<1>5. min = find_min_block(pg, n, align)
  OBVIOUS
<1> HIDE DEF pg, n, min, blocks, align
<1>6. /\ min.space \in Nat \cup {-1}
      /\ min.space = -1 => \A s \in blocks :
            slob_units(pg.mem, s) < n + Delta(s, align)
      /\ \A s \in blocks : slob_units(pg.mem, s) \in 1 .. pg.units
  BY <1>1, <1>2, <1>5, DividedRoom DEF blocks
<1>7. pg.units \in Nat /\ \A s \in blocks : s \in Nat
  <2>1. PICK B : Chained(pg.mem, pg.freelist, B)
    BY <1>2 DEF Divided, Tiled
  <2>2. blocks = B
    BY <2>1, FreeBlocksFacts DEF blocks
  <2>3. pg.units \in 0 .. PageUnits
    BY <1>2, DividedTypes
  <2> QED
    BY <2>1, <2>2, <2>3, WordFacts DEF Chained, Words
<1>8. \A s \in blocks : Delta(s, align) \in Nat
  BY <1>1, <1>7, DeltaFacts
<1> QED
  BY <1>1, <1>3, <1>4, <1>6, <1>7, <1>8 DEF pg, n, min, align

(* slob_alloc takes a page with room whenever its list has one.            *)
LEMMA BestPageFacts ==
    ASSUME SInv, NEW r \in Requests
    PROVE  /\ \A p \in BestPage(r) :
                 /\ p \in On(free_slob) /\ p \in slab /\ p \in Pages
                 /\ find_min_block(page[p], SLOB_UNITS(r.size), r.align).space
                       # -1
           /\ BestPage(r) = {} =>
                 \A p \in Elements(free_slob[SlobList(r.size)]) : ~ HasRoom(p, r)
<1> DEFINE pages == free_slob[SlobList(r.size)]
           space == [i \in DOMAIN pages |-> Space(pages[i], r)]
           exact == {i \in DOMAIN pages : space[i] = 0}
           fits == {i \in DOMAIN pages : space[i] > 0}
           weight == [i \in DOMAIN pages |-> page[pages[i]].units]
           first == {k \in exact : \A j \in exact : k <= j}
           least == {k \in fits : \A j \in fits :
                        \/ weight[k] < weight[j]
                        \/ weight[k] = weight[j] /\ k <= j}
<1>1. SlobList(r.size) \in Lists /\ free_slob \in [Lists -> Seq(slab)]
  BY DEF SInv, ListsInv, SlobList, Lists
<1>2. /\ pages \in Seq(slab) /\ Elements(pages) \subseteq On(free_slob)
      /\ \A i \in DOMAIN pages : pages[i] \in slab /\ i \in Nat
  BY <1>1 DEF On, Elements
<1>3. slab \subseteq Pages /\ On(free_slob) \subseteq slab
  BY DEF SInv, PagesInv, ListsInv
<1>4. BestPage(r) = {pages[i] : i \in IF exact # {} THEN first ELSE least}
  BY DEF BestPage
<1>5. \A i \in DOMAIN pages :
         /\ space[i] \in Nat \cup {-1} /\ space[i] = Space(pages[i], r)
         /\ weight[i] \in Nat
  <2> TAKE i \in DOMAIN pages
  <2>1. pages[i] \in slab /\ pages[i] \in Pages
    BY <1>2, <1>3
  <2>2. page[pages[i]].units \in 0 .. PageUnits - 1
    BY <2>1, PageFacts
  <2>3. Space(pages[i], r) \in Nat \cup {-1}
    BY <2>1, SpaceFacts
  <2> QED
    BY <2>2, <2>3, WordFacts
<1> HIDE DEF pages, space, weight
<1>6. ASSUME NEW p \in BestPage(r)
      PROVE  /\ p \in On(free_slob) /\ p \in slab /\ p \in Pages
             /\ find_min_block(page[p], SLOB_UNITS(r.size), r.align).space # -1
  <2>1. PICK i \in exact \cup fits : p = pages[i]
    BY <1>4
  <2>2. i \in DOMAIN pages /\ space[i] # -1
    BY <1>5, <2>1
  <2>3. p \in slab /\ p \in Pages /\ p \in On(free_slob)
    BY <1>2, <1>3, <2>1, <2>2 DEF Elements
  <2>4. Space(p, r) # -1
    BY <1>5, <2>1, <2>2
  <2> QED
    BY <2>3, <2>4, SpaceFacts
<1>7. ASSUME BestPage(r) = {}, NEW p \in Elements(pages) PROVE ~ HasRoom(p, r)
  <2>1. PICK i \in DOMAIN pages : p = pages[i]
    BY DEF Elements
  <2>2. exact = {}
    <3> SUFFICES ASSUME exact # {} PROVE FALSE
      OBVIOUS
    <3>1. exact \in SUBSET Nat
      BY <1>2
    <3> HIDE DEF exact
    <3>2. PICK k \in exact : \A j \in exact : k <= j
      BY <3>1, LeastExists
    <3> QED
      BY <1>4, <1>7, <3>2
  <2>3. fits = {}
    <3> SUFFICES ASSUME fits # {} PROVE FALSE
      OBVIOUS
    <3> DEFINE W == {weight[j] : j \in fits}
    <3>1. W \in SUBSET Nat /\ W # {}
      BY <1>5
    <3>2. fits \in SUBSET Nat /\ \A j \in fits : weight[j] \in Nat /\ weight[j] \in W
      BY <1>2, <1>5
    <3> HIDE DEF fits
    <3>3. PICK w \in W : \A v \in W : w <= v
      <4> HIDE DEF W
      <4> QED
        BY <3>1, LeastExists
    <3> DEFINE light == {j \in fits : weight[j] = w}
    <3>4. light \in SUBSET Nat /\ light # {}
      BY <3>2, <3>3
    <3>5. PICK k \in light : \A j \in light : k <= j
      <4> HIDE DEF light
      <4> QED
        BY <3>4, LeastExists
    <3>6. \A j \in fits : \/ weight[k] < weight[j]
                          \/ weight[k] = weight[j] /\ k <= j
      <4> TAKE j \in fits
      <4>1. weight[k] = w /\ weight[j] \in Nat /\ w \in Nat /\ w <= weight[j]
        BY <3>1, <3>2, <3>3, <3>5
      <4>2. CASE weight[j] = w
        BY <3>5, <4>1, <4>2
      <4>3. CASE weight[j] # w
        BY <4>1, <4>3
      <4> QED
        BY <4>2, <4>3
    <3>7. k \in least
      BY <3>5, <3>6
    <3> QED
      BY <1>4, <1>7, <2>2, <3>7
  <2>4. Space(p, r) = -1
    BY <1>5, <2>1, <2>2, <2>3
  <2> QED
    BY <1>2, <2>1, <2>4, SpaceFacts
<1> QED
  BY <1>6, <1>7 DEF pages

(* What is subtracted from the free units is at least what was allocated   *)
(* and no more than the page had.                                          *)
LEMMA MemoryFacts ==
    ASSUME SInv, NEW r \in Requests, NEW p \in BestPage(r)
    PROVE  /\ MemoryFree(p, r) \in 0 .. Cardinality(Pages) * PageUnits
           /\ MemoryFree(p, r) <= FreeUnits - SLOB_UNITS(r.size)
           /\ FreeUnits - SLOB_UNITS(r.size) \in Nat
<1> DEFINE pg == page[p]
           n == SLOB_UNITS(r.size)
           align == r.align
           new == slob_page_alloc(pg, n, align)
           head == slob_units(new.page.mem, new.block)
           used == Used(live, p)
           all == Cardinality(Pages) * PageUnits
<1>1. n \in Nat \ {0} /\ align \in Nat \ {0}
  BY UnitsFacts
<1>2. /\ p \in On(free_slob) /\ p \in slab /\ p \in Pages
      /\ find_min_block(pg, n, align).space # -1
  BY BestPageFacts
<1>3. Divided(pg, used) /\ pg.units \in Nat
  BY <1>2, PageFacts, WordFacts
<1>4. new = slob_page_alloc(pg, n, align)
  OBVIOUS
<1>5. FreeUnits \in 0 .. all /\ pg.units <= FreeUnits /\ all \in Nat
  <2>1. p \in Listed
    BY <1>2 DEF On, Listed
  <2>2. Cardinality(Pages) \in Nat
    BY SlobAssumption, FS_CardinalityType
  <2> QED
    BY <2>1, <2>2, FreeUnitsFacts, WordFacts
<1>6. MemoryFree(p, r) = FreeUnits - head
  BY DEF MemoryFree
<1> HIDE DEF pg, n, align, new, used, all
<1>7. head \in n .. pg.units
  <2>1. Allocated(pg, used, n, align, new)
    BY <1>1, <1>2, <1>3, <1>4, DividedAlloc
  <2> QED
    BY <2>1 DEF Allocated
<1> HIDE DEF head
<1> QED
  BY <1>1, <1>3, <1>5, <1>6, <1>7 DEF n, all

-----------------------------------------------------------------------------
(* The invariant holds.                                                    *)

IInv ==
    /\ SInv
    /\ memory_free \in 0 .. Cardinality(Pages) * PageUnits

(* No page, no block, no list.                                             *)
LEMMA InitInv == Init => IInv
<1> SUFFICES ASSUME Init PROVE IInv
  OBVIOUS
<1> USE DEF Init
<1>1. PagesInv
  BY DEF PagesInv
<1>2. LiveInv
  BY DEF LiveInv
<1>3. ListsInv
  <2>1. \A l \in Lists : free_slob[l] = << >>
    OBVIOUS
  <2>2. free_slob \in [Lists -> Seq(slab)]
    OBVIOUS
  <2>3. Once(free_slob)
    BY <2>1 DEF Once
  <2>4. On(free_slob) = {}
    BY <2>1 DEF On, Elements
  <2> QED
    BY <2>2, <2>3, <2>4 DEF ListsInv
<1>4. CallsInv
  BY DEF CallsInv
<1>5. memory_free \in 0 .. Cardinality(Pages) * PageUnits
  <2>1. Cardinality(Pages) \in Nat
    BY SlobAssumption, FS_CardinalityType
  <2> QED
    BY <2>1, WordFacts
<1> QED
  BY <1>1, <1>2, <1>3, <1>4, <1>5 DEF IInv, SInv

(* slob_alloc takes the block from a page of the list.                     *)
LEMMA ServeKeeps ==
    ASSUME IInv, NEW c \in Cpus, NEW r \in Requests, Serve(c, r)
    PROVE  IInv' /\ \E p \in BestPage(r) : \E x : HandedOut(p, r, x)
<1>1. PICK p \in BestPage(r) : /\ HandOut(p, page[p], r, free_slob)
                               /\ memory_free' = MemoryFree(p, r)
  BY DEF Serve
<1>2. slab' = slab /\ rcu' = rcu /\ call' = call
  BY DEF Serve
<1>3. /\ p \in On(free_slob) /\ p \in slab /\ p \in Pages
      /\ find_min_block(page[p], SLOB_UNITS(r.size), r.align).space # -1
  BY BestPageFacts DEF IInv
<1> DEFINE pg == page[p]
<1>4. /\ p \in On(free_slob) /\ pg = page[p] /\ slab' = slab \cup {p}
      /\ HandOut(p, pg, r, free_slob)
      /\ find_min_block(pg, SLOB_UNITS(r.size), r.align).space # -1
  BY <1>1, <1>2, <1>3
<1> HIDE DEF pg
<1>5. /\ PagesInv' /\ LiveInv' /\ ListsInv'
      /\ \E x : HandedOut(p, r, x)
  BY <1>3, <1>4, HandOutKeeps DEF IInv
<1>6. live \subseteq live'
  BY <1>5 DEF HandedOut
<1>7. CallsInv'
  BY <1>2, <1>6 DEF CallsInv, IInv, SInv
<1>8. memory_free' \in 0 .. Cardinality(Pages) * PageUnits
  BY <1>1, MemoryFacts DEF IInv
<1> QED
  BY <1>5, <1>7, <1>8 DEF IInv, SInv

(* slob_alloc takes the block from a new page.                             *)
LEMMA NewPageKeeps ==
    ASSUME IInv, NEW c \in Cpus, NEW p \in Pages, NewPage(c, p)
    PROVE  IInv' /\ \E r \in Requests : \E x : HandedOut(p, r, x)
<1> DEFINE r == call[c]
           lists == [free_slob EXCEPT ![SlobList(r.size)] = <<p>> \o @]
<1>1. /\ p \notin slab /\ slab' = slab \cup {p} /\ HandOut(p, Fresh, r, lists)
      /\ call' = [call EXCEPT ![c] = NoCall]
      /\ rcu' = rcu /\ memory_free' = memory_free
  BY DEF NewPage
<1>2. r \in Requests /\ call \in [Cpus -> Requests \cup {NoCall}]
  BY DEF NewPage, IInv, SInv, CallsInv
<1>3. find_min_block(Fresh, SLOB_UNITS(r.size), r.align).space # -1
  BY <1>2, DividedFresh
<1>4. lists = [free_slob EXCEPT ![SlobList(r.size)] = <<p>> \o @]
  OBVIOUS
<1> HIDE DEF lists, r
<1>5. /\ PagesInv' /\ LiveInv' /\ ListsInv'
      /\ \E x : HandedOut(p, r, x)
  BY <1>1, <1>2, <1>3, <1>4, HandOutKeeps DEF IInv
<1>6. live \subseteq live'
  BY <1>5 DEF HandedOut
<1>7. CallsInv'
  BY <1>1, <1>2, <1>6 DEF CallsInv, IInv, SInv
<1> QED
  BY <1>1, <1>2, <1>5, <1>7 DEF IInv, SInv

(* A block is given back, at once or after its grace period: one that      *)
(* waits for its callback is not freed before.                             *)
LEMMA FreeInvKeeps ==
    ASSUME IInv, NEW b \in live, Free(b) \/ kmem_rcu_free(b)
    PROVE  IInv' /\ live' = live \ {b}
<1>1. slob_free(b) /\ call' = call /\ memory_free' = memory_free
  BY DEF Free, kmem_rcu_free, slob_free
<1>2. PagesInv' /\ LiveInv' /\ ListsInv' /\ live' = live \ {b}
  BY <1>1, FreeKeeps DEF IInv
<1>3. b \notin rcu' /\ rcu' \subseteq rcu
  BY DEF Free, kmem_rcu_free, IInv, SInv, CallsInv
<1>4. CallsInv'
  BY <1>1, <1>2, <1>3 DEF CallsInv, IInv, SInv
<1> QED
  BY <1>1, <1>2, <1>4 DEF IInv, SInv

(* The steps that give and take no block change no page and no list.       *)
LEMMA NextInv == IInv /\ [Next]_vars => IInv'
<1> SUFFICES ASSUME IInv, [Next]_vars PROVE IInv'
  OBVIOUS
<1>1. ASSUME UNCHANGED <<page, free_slob, slab, live>>, CallsInv',
             memory_free' \in 0 .. Cardinality(Pages) * PageUnits
      PROVE  IInv'
  BY <1>1 DEF IInv, SInv, PagesInv, LiveInv, ListsInv, Used, Span
<1>2. ASSUME NEW c \in Cpus, NEW r \in Requests, Serve(c, r)
      PROVE  IInv'
  BY <1>2, ServeKeeps
<1>3. ASSUME NEW c \in Cpus, NEW r \in Requests, Grow(c, r)
      PROVE  IInv'
  <2>1. FreeUnits \in 0 .. Cardinality(Pages) * PageUnits
    BY FreeUnitsFacts DEF IInv
  <2>2. CallsInv'
    BY <1>3 DEF Grow, CallsInv, IInv, SInv
  <2> QED
    BY <1>1, <1>3, <2>1, <2>2 DEF Grow
<1>4. ASSUME NEW c \in Cpus, NoPages(c)
      PROVE  IInv'
  <2>1. CallsInv'
    BY <1>4 DEF NoPages, CallsInv, IInv, SInv
  <2> QED
    BY <1>1, <1>4, <2>1 DEF NoPages, IInv
<1>5. ASSUME NEW c \in Cpus, NEW p \in Pages, NewPage(c, p)
      PROVE  IInv'
  BY <1>5, NewPageKeeps
<1>6. ASSUME NEW b \in live, Free(b) \/ kmem_rcu_free(b)
      PROVE  IInv'
  BY <1>6, FreeInvKeeps
<1>7. ASSUME NEW b \in live, FreeLater(b)
      PROVE  IInv'
  <2>1. CallsInv'
    BY <1>7 DEF FreeLater, CallsInv, IInv, SInv
  <2> QED
    BY <1>1, <1>7, <2>1 DEF FreeLater, IInv
<1>8. CASE UNCHANGED vars
  <2>1. CallsInv'
    BY <1>8 DEF vars, CallsInv, IInv, SInv
  <2> QED
    BY <1>1, <1>8, <2>1 DEF vars, IInv
<1> QED
  BY <1>2, <1>3, <1>4, <1>5, <1>6, <1>7, <1>8 DEF Next

(* SInv holds in every reachable state, with memory_free in its bounds.    *)
THEOREM InvHolds == Spec => []IInv
  BY InitInv, NextInv, PTL DEF Spec

-----------------------------------------------------------------------------
(* What the invariant says of the pages and the lists.                     *)

(* The variables keep their types, whatever the kernel asks for: in        *)
(* particular no page is kept that is wholly free, and the links and sizes *)
(* that are written into free memory are addresses and sizes.              *)
THEOREM TypesKept == Spec => []TypeOK
<1>1. IInv => TypeOK
  <2> SUFFICES ASSUME IInv PROVE TypeOK
    OBVIOUS
  <2>1. ASSUME NEW p \in Pages
        PROVE  /\ page[p].mem \in [Words -> -PageUnits .. PageUnits]
               /\ page[p].freelist \in 0 .. PageUnits
               /\ page[p].units \in 0 .. PageUnits - 1
    <3> DEFINE pg == page[p]
               used == IF p \in slab THEN Used(live, p) ELSE Words
    <3>1. Divided(pg, used) /\ pg.units \in 0 .. PageUnits - 1
      BY PageFacts DEF IInv
    <3> HIDE DEF pg, used
    <3>2. pg.mem \in Mem /\ pg.freelist \in 0 .. PageUnits
      BY <3>1, DividedTypes
    <3> QED
      BY <3>1, <3>2 DEF pg, Mem
  <2> QED
    BY <2>1 DEF TypeOK, IInv, SInv, PagesInv, ListsInv, CallsInv
<1> QED
  BY <1>1, InvHolds, PTL

(* slob_free merges whatever can be merged: the free blocks of a page are  *)
(* in the order of their addresses and no two touch.                       *)
THEOREM BlocksMerged == Spec => []FreeListMerged
<1>1. IInv => FreeListMerged
  <2> SUFFICES ASSUME IInv, NEW p \in slab,
                      NEW i \in 1 .. Len(FreeBlocks(page[p])) - 1
               PROVE  FreeBlocks(page[p])[i]
                        + slob_units(page[p].mem, FreeBlocks(page[p])[i])
                           < FreeBlocks(page[p])[i + 1]
    BY DEF FreeListMerged
  <2> DEFINE pg == page[p]
  <2>1. Divided(pg, Used(live, p))
    BY DEF IInv, SInv, PagesInv
  <2>2. i \in 1 .. Len(FreeBlocks(pg)) - 1
    OBVIOUS
  <2> HIDE DEF pg
  <2>3. FreeBlocks(pg)[i] + slob_units(pg.mem, FreeBlocks(pg)[i])
           < FreeBlocks(pg)[i + 1]
    BY <2>1, <2>2, DividedBlocks
  <2> QED
    BY <2>3 DEF pg
<1> QED
  BY <1>1, InvHolds, PTL

(* No word is lost and none is given twice, and sp->units counts the free  *)
(* ones.                                                                   *)
THEOREM NoWordLost == Spec => []PagesTiled
<1>1. IInv => PagesTiled
  <2> SUFFICES ASSUME IInv PROVE PagesTiled
    OBVIOUS
  <2>1. \A p : UsedWords(p) = Used(live, p)
    BY DEF UsedWords, Used
  <2>2. ASSUME NEW p \in slab PROVE FreeWords(p) = Words \ UsedWords(p)
    <3>1. p \in Pages
      BY DEF IInv, SInv, PagesInv
    <3>2. FreeWords(p) = Words \ Used(live, p)
      BY <3>1, PageFacts DEF IInv
    <3> QED
      BY <2>1, <3>2
  <2>3. \A p \in Pages : page[p].units = Cardinality(FreeWords(p))
    BY PageFacts DEF IInv
  <2> QED
    BY <2>2, <2>3 DEF PagesTiled, IInv, SInv, LiveInv
<1> QED
  BY <1>1, InvHolds, PTL

(* No free unit is out of the reach of slob_alloc: the lists hold exactly  *)
(* the pages with free units, each once.                                   *)
THEOREM ListsHoldAll == Spec => []ListsComplete
<1>1. IInv => ListsComplete
  BY DEF IInv, SInv, ListsInv, ListsComplete, On, Once, Listed
<1> QED
  BY <1>1, InvHolds, PTL

-----------------------------------------------------------------------------
(* What the steps of slob_alloc do.                                        *)

(* A new page is asked for only if no block on the list of the request     *)
(* would have done.                                                        *)
THEOREM GrowsOnlyWhenMust == Spec => GrowsOnlyWhenFull
<1> DEFINE Allowed == \A c \in Cpus : call[c] = NoCall /\ call'[c] # NoCall =>
                         \A p \in Elements(free_slob[SlobList(call'[c].size)]) :
                            ~ HasRoom(p, call'[c])
<1>1. IInv /\ [Next]_vars => [Allowed]_vars
  <2> SUFFICES ASSUME IInv, Next, NEW c \in Cpus,
                      call[c] = NoCall, call'[c] # NoCall
               PROVE  \A p \in Elements(free_slob[SlobList(call'[c].size)]) :
                         ~ HasRoom(p, call'[c])
    OBVIOUS
  <2>1. call \in [Cpus -> Requests \cup {NoCall}]
    BY DEF IInv, SInv, CallsInv
  <2>2. PICK d \in Cpus, r \in Requests : Grow(d, r)
    BY <2>1 DEF Next, Serve, NoPages, NewPage, Free, FreeLater, kmem_rcu_free,
                slob_free
  <2>3. call'[c] = r /\ BestPage(r) = {}
    BY <2>1, <2>2 DEF Grow
  <2> QED
    BY <2>3, BestPageFacts DEF IInv
<1> QED
  BY <1>1, InvHolds, PTL DEF Spec, GrowsOnlyWhenFull

(* memory_free never reports more memory than is free: a step that writes  *)
(* it subtracts at least what it takes.                                    *)
THEOREM MemoryIsThere == Spec => MemoryFreeCautious
<1> DEFINE S == UNION {{p} \X FreeWords(p) : p \in slab}
           Cautious == memory_free' # memory_free =>
                          memory_free' <= Cardinality(S)'
<1>1. ASSUME IInv, NEW c \in Cpus, NEW r \in Requests, Grow(c, r)
      PROVE  Cautious
  <2>1. memory_free' = FreeUnits
    BY <1>1 DEF Grow
  <2>2. Cardinality(S)' = Cardinality(S)
    BY <1>1 DEF Grow, FreeWords
  <2>3. FreeUnits = Cardinality(S) /\ FreeUnits \in Nat
    BY <1>1, FreeUnitsFacts DEF IInv
  <2> QED
    BY <2>1, <2>2, <2>3
<1>2. ASSUME IInv, NEW c \in Cpus, NEW r \in Requests, Serve(c, r)
      PROVE  Cautious
  <2>1. PICK p \in BestPage(r) : /\ HandOut(p, page[p], r, free_slob)
                                 /\ memory_free' = MemoryFree(p, r)
    BY <1>2 DEF Serve
  <2> DEFINE n == SLOB_UNITS(r.size)
             pg == page[p]
             np == page'[p]
             used == Used(live, p)
  <2>2. n \in Nat \ {0}
    BY UnitsFacts
  <2>3. /\ p \in slab /\ p \in Pages /\ slab' = slab
        /\ find_min_block(pg, n, r.align).space # -1
    BY <1>2, BestPageFacts DEF IInv, Serve
  <2>4. Divided(pg, used)
    BY <1>2, <2>3 DEF IInv, SInv, PagesInv
  <2>5. /\ \E x : HandedOut(p, r, x)
        /\ \A q \in Pages \ {p} : page'[q] = page[q]
    <3>1. HandOut(p, pg, r, free_slob)
      BY <2>1
    <3> HIDE DEF pg, n, used
    <3>2. Divided(pg, Used(live, p))
      BY <2>4 DEF used
    <3>3. find_min_block(pg, SLOB_UNITS(r.size), r.align).space # -1
      BY <2>3 DEF n
    <3> QED
      BY <1>2, <2>3, <3>1, <3>2, <3>3, HandOutBlock DEF IInv
  <2>6. PICK x : HandedOut(p, r, x)
    BY <2>5
  <2>7. /\ x.size = r.size /\ x.at \in Nat /\ x.at + n <= PageUnits
        /\ Divided(np, used \cup Span(x))
    BY <2>6 DEF HandedOut
  <2>8. FreeWords(p)' = FreeWords(p) \ Span(x)
    <3>1. FreeWords(p)' = Cover(np.mem, Elements(FreeBlocks(np)))
      BY DEF FreeWords, Cover, Block
    <3>2. FreeWords(p) = Words \ used
      BY <1>2, <2>3, PageFacts DEF IInv
    <3> DEFINE more == used \cup Span(x)
    <3>3. Divided(np, more)
      BY <2>7
    <3> HIDE DEF np, used, more
    <3>4. Cover(np.mem, Elements(FreeBlocks(np))) = Words \ more
      BY <3>3, DividedBlocks
    <3> QED
      BY <3>1, <3>2, <3>4 DEF more
  <2>9. \A q \in slab : q # p => FreeWords(q)' = FreeWords(q)
    <3>1. slab \subseteq Pages
      BY <1>2 DEF IInv, SInv, PagesInv
    <3> QED
      BY <2>5, <3>1 DEF FreeWords
  <2> DEFINE D == {p} \X Span(x)
  <2>10. IsFiniteSet(D) /\ Cardinality(D) = n
    <3>1. x.at \in Int /\ x.at + n - 1 \in Int /\ Span(x) = x.at .. x.at + n - 1
      BY <2>2, <2>7 DEF Span
    <3>2. IsFiniteSet(Span(x)) /\ Cardinality(Span(x)) = n
      <4> DEFINE y == x.at
                 z == x.at + n - 1
      <4>1. y \in Int /\ z \in Int /\ Span(x) = y .. z
        BY <3>1
      <4>2. IF y > z THEN n = 0 ELSE z - y + 1 = n
        BY <2>2, <3>1
      <4> HIDE DEF y, z
      <4>3. /\ IsFiniteSet(y .. z)
            /\ Cardinality(y .. z) = IF y > z THEN 0 ELSE z - y + 1
        BY <4>1, FS_Interval
      <4> QED
        BY <2>2, <4>1, <4>2, <4>3
    <3>3. IsFiniteSet({p}) /\ Cardinality({p}) = 1
      BY FS_Singleton
    <3> HIDE DEF n
    <3>4. IsFiniteSet(D) /\ Cardinality(D) = 1 * n
      BY <3>2, <3>3, FS_Product
    <3> QED
      BY <2>2, <3>4
  <2>11. S' = S \ D
    BY <2>3, <2>8, <2>9
  <2>12. FreeUnits = Cardinality(S) /\ IsFiniteSet(S) /\ FreeUnits \in Nat
    BY <1>2, FreeUnitsFacts DEF IInv
  <2>13. memory_free' <= FreeUnits - n /\ memory_free' \in Nat
    BY <1>2, <2>1, MemoryFacts DEF IInv
  <2>14. Cardinality(S)' = Cardinality(S')
    OBVIOUS
  <2> HIDE DEF S, D
  <2>15. Cardinality(S \ D) = Cardinality(S) - Cardinality(S \cap D)
    BY <2>12, FS_Difference
  <2>16. Cardinality(S \cap D) \in Nat /\ Cardinality(S \cap D) <= n
    BY <2>10, FS_Subset, FS_CardinalityType
  <2>17. memory_free' <= Cardinality(S \ D)
    BY <2>2, <2>12, <2>13, <2>15, <2>16
  <2> QED
    BY <2>11, <2>14, <2>17
<1>3. IInv /\ [Next]_vars => [Cautious]_vars
  <2> SUFFICES ASSUME IInv, Next, memory_free' # memory_free PROVE Cautious
    OBVIOUS
  <2>1. PICK c \in Cpus, r \in Requests : Serve(c, r) \/ Grow(c, r)
    BY DEF Next, NoPages, NewPage, Free, FreeLater, kmem_rcu_free, slob_free
  <2> QED
    BY <1>1, <1>2, <2>1
<1> QED
  BY <1>3, InvHolds, PTL DEF Spec, MemoryFreeCautious

-----------------------------------------------------------------------------
(* To its callers the allocator is a heap.                                 *)

(* The memory of the blocks L.                                             *)
Memory(L) == {[page |-> b.page, at |-> b.at, units |-> SLOB_UNITS(b.size)] :
                 b \in L}

Asked == {[units |-> SLOB_UNITS(r.size), align |-> r.align] : r \in Requests}

(* A block that is handed out is a step of the heap.                       *)
LEMMA HandedOutAllocates ==
    ASSUME IInv, NEW p \in Pages, NEW r \in Requests, NEW x,
           HandedOut(p, r, x)
    PROVE  H!HeapNext
<1> DEFINE n == SLOB_UNITS(r.size)
           m == [page |-> p, at |-> x.at, units |-> n]
           shape == [units |-> n, align |-> r.align]
<1>1. /\ live' = live \cup {x} /\ x.page = p /\ x.size = r.size
      /\ x.at \in Nat /\ x.at % r.align = 0 /\ x.at + n <= PageUnits
      /\ Span(x) \cap Used(live, p) = {}
  BY DEF HandedOut
<1>2. n \in Nat \ {0}
  BY UnitsFacts
<1>3. x.at \in 0 .. PageUnits - 1 /\ shape \in Asked
  BY <1>1, <1>2, WordFacts DEF Asked
<1>4. Memory(live') = Memory(live) \cup {m}
  BY <1>1 DEF Memory
<1>5. ASSUME NEW c \in Memory(live), c.page = p
      PROVE  H!Span(m) \cap H!Span(c) = {}
  <2>1. PICK b \in live : c = [page |-> b.page, at |-> b.at,
                               units |-> SLOB_UNITS(b.size)]
    BY DEF Memory
  <2>2. b.page = p /\ H!Span(c) = Span(b)
    BY <1>5, <2>1 DEF H!Span, Span
  <2>3. Span(b) \subseteq Used(live, p)
    BY <2>2, UsedFacts DEF IInv, SInv
  <2>4. H!Span(m) = Span(x)
    BY <1>1 DEF H!Span, Span
  <2> QED
    BY <1>1, <2>2, <2>3, <2>4
<1>6. /\ shape.units = n /\ shape.align = r.align
      /\ [page |-> p, at |-> x.at, units |-> shape.units] = m
  OBVIOUS
<1> HIDE DEF n, m, shape
<1>7. H!Alloc(p, x.at, shape)
  BY <1>1, <1>4, <1>5, <1>6 DEF H!Alloc, Memory
<1> QED
  BY <1>3, <1>7 DEF H!HeapNext, Asked

(* Every block the allocator hands out is aligned as it was asked, inside  *)
(* one page and shares no word with another block that is in use, an       *)
(* object of a cache with RCU among these until its grace period is over.  *)
THEOREM SlobIsHeap == Spec => ImplementsHeap
<1>1. Init => H!HeapInit
  BY DEF Init, H!HeapInit
<1>2. ASSUME IInv, [Next]_vars PROVE [H!HeapNext]_(Memory(live))
  <2>1. ASSUME NEW b \in live, Free(b) \/ kmem_rcu_free(b)
        PROVE  H!HeapNext
    <3> DEFINE m(c) == [page |-> c.page, at |-> c.at,
                        units |-> SLOB_UNITS(c.size)]
    <3>1. live' = live \ {b}
      BY <1>2, <2>1, FreeInvKeeps
    <3>2. ASSUME NEW c \in live, m(c) = m(b) PROVE c = b
      <4>1. c.page = b.page /\ c.at = b.at
        BY <3>2
      <4>2. /\ \A d \in live : d.at \in Nat /\ SLOB_UNITS(d.size) \in Nat \ {0}
            /\ c # b => Span(c) \cap Span(b) = {}
        BY <1>2, <4>1 DEF IInv, SInv, LiveInv
      <4>3. c.at \in Span(c) /\ b.at \in Span(b)
        BY <4>2 DEF Span
      <4> QED
        BY <4>1, <4>2, <4>3
    <3>3. Memory(live') = Memory(live) \ {m(b)}
      <4>1. Memory(live) = {m(c) : c \in live}
        BY DEF Memory
      <4>2. Memory(live') = {m(c) : c \in live \ {b}}
        BY <3>1 DEF Memory
      <4> HIDE DEF m
      <4> QED
        BY <3>2, <4>1, <4>2
    <3>4. m(b) \in Memory(live)
      BY DEF Memory
    <3> HIDE DEF m
    <3>5. H!Free(m(b))
      BY <3>3 DEF H!Free, Memory
    <3> QED
      BY <3>4, <3>5 DEF H!HeapNext, Memory
  <2>2. ASSUME NEW c \in Cpus, NEW r \in Requests, Serve(c, r)
        PROVE  H!HeapNext
    <3>1. PICK p \in BestPage(r) : \E x : HandedOut(p, r, x)
      BY <1>2, <2>2, ServeKeeps
    <3>2. p \in Pages
      BY <1>2, BestPageFacts DEF IInv
    <3> QED
      BY <1>2, <3>1, <3>2, HandedOutAllocates
  <2>3. ASSUME NEW c \in Cpus, NEW p \in Pages, NewPage(c, p)
        PROVE  H!HeapNext
    <3>1. PICK r \in Requests : \E x : HandedOut(p, r, x)
      BY <1>2, <2>3, NewPageKeeps
    <3> QED
      BY <1>2, <3>1, HandedOutAllocates
  <2>4. ASSUME live' = live PROVE UNCHANGED Memory(live)
    BY <2>4 DEF Memory
  <2>5. \/ \E c \in Cpus, r \in Requests : Serve(c, r)
        \/ \E c \in Cpus, p \in Pages : NewPage(c, p)
        \/ \E b \in live : Free(b) \/ kmem_rcu_free(b)
        \/ live' = live
    BY <1>2 DEF Next, Grow, NoPages, FreeLater, vars
  <2> QED
    BY <2>1, <2>2, <2>3, <2>4, <2>5
<1>3. IInv /\ [Next]_vars => [H!HeapNext]_(Memory(live))
  BY <1>2
<1> QED
  BY <1>1, <1>3, InvHolds, PTL
     DEF Spec, ImplementsHeap, H!HeapSpec, Memory
=============================================================================
