-------------------------- MODULE HashLedgerProofs --------------------------
(***************************************************************************)
(* What the two calls that change the block store, PushBlock and           *)
(* RemoveBlock, preserve.  The lemmas hold for every state of the ledger   *)
(* and whoever makes the calls; BbfsProofs applies them to the handlers.   *)
(***************************************************************************)
EXTENDS HashLedger, TLAPS

(* The two digits of a counter hold the result of Bump, and it is not 0:   *)
(* the line of a block that was just shared is never taken for an unused   *)
(* one by removeBlocks.                                                    *)
LEMMA BumpCounter ==
    ASSUME NEW n \in Counter
    PROVE  Bump(n) \in Counter /\ Bump(n) > 0
<1>1. CASE n + 1 < Radix * Radix
  BY <1>1, LedgerAssumption, SMT DEF Bump, Counter
<1>2. CASE ~ (n + 1 < Radix * Radix)
  <2>1. n + 1 = Radix * Radix
    BY <1>2, LedgerAssumption, SMT DEF Counter
  <2>2. (Radix * Radix) \div Radix = Radix
    BY LedgerAssumption, SMT
  <2>3. Bump(n) = Radix
    BY <1>2, <2>1, <2>2 DEF Bump
  <2>4. Radix < Radix * Radix
    BY LedgerAssumption, SMT
  <2> QED
    BY <2>3, <2>4, LedgerAssumption, SMT DEF Counter
<1> QED
  BY <1>1, <1>2

(* Changing the counter of one line keeps the types and the lines.         *)
LEMMA SetCount ==
    ASSUME NEW k \in Nat, NEW n \in Counter, LedgerTypeOK
    PROVE  LET new == [ledger EXCEPT ![k].count = n]
           IN  /\ new \in Seq(Line)
               /\ Len(new) = Len(ledger)
               /\ DOMAIN new = DOMAIN ledger
               /\ \A i \in DOMAIN ledger :
                     /\ new[i].id = ledger[i].id
                     /\ new[i].hash = ledger[i].hash
                     /\ new[i].count = IF i = k THEN n ELSE ledger[i].count
<1> DEFINE new == [ledger EXCEPT ![k].count = n]
<1>1. ledger \in Seq(Line) /\ DOMAIN ledger = 1 .. Len(ledger)
  BY DEF LedgerTypeOK
<1>2. ASSUME NEW i \in DOMAIN ledger
      PROVE  /\ new[i] \in Line
             /\ new[i].id = ledger[i].id
             /\ new[i].hash = ledger[i].hash
             /\ new[i].count = IF i = k THEN n ELSE ledger[i].count
  <2>1. ledger[i] \in Line
    BY <1>1
  <2>2. CASE i = k
    <3>1. new[i] = [ledger[i] EXCEPT !.count = n]
      BY <2>2
    <3> QED
      BY <2>1, <2>2, <3>1 DEF Line
  <2>3. CASE i # k
    <3>1. new[i] = ledger[i]
      BY <2>3
    <3> QED
      BY <2>1, <2>3, <3>1
  <2> QED
    BY <2>2, <2>3
<1>3. new \in [1 .. Len(ledger) -> Line]
  BY <1>1, <1>2
<1>4. new \in Seq(Line) /\ Len(new) = Len(ledger)
  BY <1>1, <1>3
<1> QED
  BY <1>2, <1>4

(* removeBlocks, whichever id it is given, keeps the ledger addressable    *)
(* and the BL files in step with the counters.                             *)
LEMMA RemoveBlockInv ==
    ASSUME LedgerInv, NEW id \in Nat, RemoveBlock(id)
    PROVE  LedgerInv'
<1> DEFINE cnt == ledger[id].count
<1>1. CASE id \in DOMAIN ledger /\ cnt > 0
  <2>1. cnt \in Counter /\ cnt - 1 \in Counter
    <3>1. ledger[id] \in Line
      BY <1>1 DEF LedgerInv, LedgerTypeOK
    <3>2. cnt \in Counter
      BY <3>1 DEF Line
    <3> QED
      BY <1>1, <3>2, LedgerAssumption, SMT DEF Counter
  <2>2. ledger' = [ledger EXCEPT ![id].count = cnt - 1]
    BY <1>1 DEF RemoveBlock
  <2>3. /\ ledger' \in Seq(Line)
        /\ Len(ledger') = Len(ledger)
        /\ DOMAIN ledger' = DOMAIN ledger
        /\ \A i \in DOMAIN ledger :
              /\ ledger'[i].id = ledger[i].id
              /\ ledger'[i].hash = ledger[i].hash
              /\ ledger'[i].count =
                    IF i = id THEN cnt - 1 ELSE ledger[i].count
    <3> HIDE DEF cnt
    <3> QED
      BY <2>1, <2>2, SetCount DEF LedgerInv
  <2>4. LedgerOK'
    <3>1. Len(ledger) \in DOMAIN ledger
      BY DEF LedgerInv, LedgerTypeOK, LedgerOK
    <3>2. id # Len(ledger)
      BY <1>1 DEF LedgerInv, LedgerOK
    <3> QED
      BY <2>3, <3>1, <3>2 DEF LedgerInv, LedgerOK
  <2>5. blocks' = IF cnt = 1 THEN DeleteBlock(id) ELSE blocks
    BY DEF RemoveBlock
  <2>6. LedgerTypeOK'
    BY <2>3, <2>5 DEF LedgerInv, LedgerTypeOK, DeleteBlock
  <2>7. BlocksStored'
    BY <1>1, <2>1, <2>3, <2>5
       DEF LedgerInv, BlocksStored, DeleteBlock, Counter
  <2> QED
    BY <2>4, <2>6, <2>7 DEF LedgerInv
<1>2. CASE ~ (id \in DOMAIN ledger /\ cnt > 0)
  <2>1. ledger' = ledger
    <3>1. CASE id \notin DOMAIN ledger
      <4>1. ledger \in [1 .. Len(ledger) -> Line]
        BY DEF LedgerInv, LedgerTypeOK
      <4>2. [ledger EXCEPT ![id].count = cnt - 1] = ledger
        BY <3>1, <4>1
      <4> QED
        BY <4>2 DEF RemoveBlock
    <3>2. CASE id \in DOMAIN ledger
      <4>1. ledger[id] \in Line
        BY <3>2 DEF LedgerInv, LedgerTypeOK
      <4>2. cnt \in Nat
        BY <4>1, LedgerAssumption DEF Line, Counter
      <4>3. cnt = 0
        BY <1>2, <3>2, <4>2
      <4> QED
        BY <4>3 DEF RemoveBlock
    <3> QED
      BY <3>1, <3>2
  <2>2. blocks' = blocks
    <3>1. id \notin DOMAIN blocks
      BY <1>2 DEF LedgerInv, BlocksStored
    <3>2. DeleteBlock(id) = blocks
      BY <3>1 DEF DeleteBlock, LedgerInv, LedgerTypeOK
    <3> QED
      BY <3>2 DEF RemoveBlock
  <2> QED
    BY <2>1, <2>2 DEF LedgerInv, LedgerTypeOK, LedgerOK, BlocksStored
<1> QED
  BY <1>1, <1>2

(* Taking line k for a new hash: the types and the lines of addHash.       *)
LEMMA AddHashLines ==
    ASSUME LedgerTypeOK, NEW k \in DOMAIN ledger, NEW h \in Hashes
    PROVE  LET new == AddHash(h, k)
           IN  /\ new \in Seq(Line)
               /\ Len(new) = IF k = Len(ledger) THEN Len(ledger) + 1
                             ELSE Len(ledger)
               /\ \A i \in DOMAIN ledger :
                     new[i] = IF i = k
                              THEN [id |-> ledger[k].id, hash |-> h,
                                    count |-> 1]
                              ELSE ledger[i]
               /\ k = Len(ledger) =>
                     new[Len(ledger) + 1] = Sentinel(ledger[k].id + 1)
<1> DEFINE used == [ledger EXCEPT ![k].hash = h, ![k].count = 1]
           taken == [id |-> ledger[k].id, hash |-> h, count |-> 1]
<1>1. /\ ledger \in Seq(Line)
      /\ DOMAIN ledger = 1 .. Len(ledger)
      /\ ledger[k] \in Line
  BY DEF LedgerTypeOK
<1>2. 0 \in Counter /\ 1 \in Counter
  <2>1. Radix * Radix > 1
    BY LedgerAssumption, SMT
  <2> QED
    BY <2>1, LedgerAssumption, SMT DEF Counter
<1>3. taken \in Line
  BY <1>1, <1>2 DEF Line
<1>4. used[k] = taken
  <2>1. used[k] = [ledger[k] EXCEPT !.hash = h, !.count = 1]
    BY <1>1
  <2> QED
    BY <1>1, <2>1 DEF Line
<1>5. \A i \in DOMAIN ledger : i # k => used[i] = ledger[i]
  BY <1>1
<1>6. used \in Seq(Line) /\ Len(used) = Len(ledger)
  <2>1. used \in [1 .. Len(ledger) -> Line]
    <3>1. DOMAIN used = 1 .. Len(ledger)
      BY <1>1
    <3>2. \A i \in 1 .. Len(ledger) : used[i] \in Line
      BY <1>1, <1>3, <1>4, <1>5
    <3>3. used = [i \in 1 .. Len(ledger) |-> used[i]]
      BY <3>1
    <3> QED
      BY <3>2, <3>3
  <2>2. Len(ledger) \in Nat
    BY <1>1
  <2> HIDE DEF used
  <2> QED
    BY <2>1, <2>2
<1>7. Sentinel(ledger[k].id + 1) \in Line
  BY <1>1, <1>2 DEF Line, Sentinel
<1> HIDE DEF used, taken
<1>8. CASE k = Len(ledger)
  <2>1. AddHash(h, k) = Append(used, Sentinel(ledger[k].id + 1))
    BY <1>8 DEF AddHash, used
  <2> QED
    BY <1>1, <1>4, <1>5, <1>6, <1>7, <1>8, <2>1 DEF taken
<1>9. CASE k # Len(ledger)
  <2>1. AddHash(h, k) = used
    BY <1>9 DEF AddHash, used
  <2> QED
    BY <1>1, <1>4, <1>5, <1>6, <1>9, <2>1 DEF taken
<1> QED
  BY <1>8, <1>9

(* PushBlock keeps the ledger addressable and the BL files in step with    *)
(* the counters, also when it takes the line of a block in use.            *)
LEMMA PushBlockInv ==
    ASSUME LedgerInv, NEW c \in Contents, NEW k \in Nat, PushBlock(c, k)
    PROVE  LedgerInv'
<1>1. HashOf[c] \in Hashes /\ HashOf[c] # ZeroHash
  BY LedgerAssumption
<1>2. CASE ShareBlock(c, k)
  <2>1. k \in DOMAIN ledger /\ ledger[k].hash = HashOf[c]
    BY <1>2 DEF ShareBlock, Hit
  <2>2. ledger[k].count \in Counter
    <3>1. ledger[k] \in Line
      BY <2>1 DEF LedgerInv, LedgerTypeOK
    <3> QED
      BY <3>1 DEF Line
  <2> DEFINE cnt == ledger[k].count
             new == Bump(cnt)
  <2>3. new \in Counter /\ new > 0
    BY <2>2, BumpCounter
  <2>4. ledger' = [ledger EXCEPT ![k].count = new]
    BY <1>2 DEF ShareBlock
  <2>5. /\ ledger' \in Seq(Line)
        /\ Len(ledger') = Len(ledger)
        /\ DOMAIN ledger' = DOMAIN ledger
        /\ \A i \in DOMAIN ledger :
              /\ ledger'[i].id = ledger[i].id
              /\ ledger'[i].hash = ledger[i].hash
              /\ ledger'[i].count = IF i = k THEN new ELSE ledger[i].count
    <3> HIDE DEF new
    <3> QED
      BY <2>3, <2>4, SetCount DEF LedgerInv
  <2> HIDE DEF new
  <2>6. k # Len(ledger)
    BY <1>1, <2>1 DEF LedgerInv, LedgerOK
  <2>7. LedgerOK'
    <3>1. Len(ledger) \in DOMAIN ledger
      BY DEF LedgerInv, LedgerTypeOK, LedgerOK
    <3> QED
      BY <2>5, <2>6, <3>1 DEF LedgerInv, LedgerOK
  <2>8. blocks' = IF cnt = 0 THEN CreateBlock(k, c) ELSE blocks
    BY <1>2, <2>1 DEF ShareBlock, LedgerInv, LedgerOK
  <2>9. LedgerTypeOK'
    BY <2>5, <2>8 DEF LedgerInv, LedgerTypeOK, CreateBlock
  <2>10. DOMAIN blocks' = {i \in DOMAIN ledger' : ledger'[i].count > 0}
    <3>1. cnt \in Nat
      BY <2>2, LedgerAssumption DEF Counter
    <3> QED
      BY <2>1, <2>3, <2>5, <2>8, <3>1
         DEF LedgerInv, BlocksStored, CreateBlock
  <2>11. \A i \in DOMAIN blocks' : HashOf[blocks'[i]] = ledger'[i].hash
    BY <2>1, <2>5, <2>8 DEF LedgerInv, BlocksStored, CreateBlock
  <2> QED
    BY <2>7, <2>9, <2>10, <2>11 DEF LedgerInv, BlocksStored
<1>3. CASE NewBlock(c, k)
  <2>1. k \in DOMAIN ledger /\ Miss(HashOf[c])
    BY <1>3 DEF NewBlock, FirstFree
  <2>2. ledger' = AddHash(HashOf[c], k)
    BY <1>3 DEF NewBlock
  <2>3. ledger[k].id = k
    BY <2>1 DEF LedgerInv, LedgerOK
  <2>4. blocks' = CreateBlock(k, c)
    BY <1>3, <2>3 DEF NewBlock
  <2>5. /\ ledger' \in Seq(Line)
        /\ Len(ledger') = IF k = Len(ledger) THEN Len(ledger) + 1
                          ELSE Len(ledger)
        /\ \A i \in DOMAIN ledger :
              ledger'[i] = IF i = k
                           THEN [id |-> k, hash |-> HashOf[c], count |-> 1]
                           ELSE ledger[i]
        /\ k = Len(ledger) => ledger'[Len(ledger) + 1] = Sentinel(k + 1)
    BY <1>1, <2>1, <2>2, <2>3, AddHashLines DEF LedgerInv
  <2>6. /\ Len(ledger) \in Nat
        /\ DOMAIN ledger = 1 .. Len(ledger)
        /\ DOMAIN ledger' = 1 .. Len(ledger')
    BY <2>5 DEF LedgerInv, LedgerTypeOK
  <2>7. LedgerTypeOK'
    BY <2>1, <2>4, <2>5, <2>6 DEF LedgerInv, LedgerTypeOK, CreateBlock
  <2>8. \A i \in DOMAIN ledger :
           /\ ledger'[i].id = i
           /\ ledger'[i].hash = IF i = k THEN HashOf[c] ELSE ledger[i].hash
           /\ ledger'[i].count = IF i = k THEN 1 ELSE ledger[i].count
    BY <2>1, <2>5 DEF LedgerInv, LedgerOK
  <2>9. k = Len(ledger) =>
           /\ ledger'[Len(ledger) + 1].id = k + 1
           /\ ledger'[Len(ledger) + 1].hash = ZeroHash
           /\ ledger'[Len(ledger) + 1].count = 0
    BY <2>5 DEF Sentinel
  <2>10. Len(ledger') = IF k = Len(ledger) THEN Len(ledger) + 1
                        ELSE Len(ledger)
    BY <2>5
  <2>11. LedgerOK'
    <3>1. CASE k = Len(ledger)
      BY <1>1, <2>1, <2>6, <2>8, <2>9, <2>10, <3>1
         DEF LedgerInv, LedgerOK, Miss
    <3>2. CASE k # Len(ledger)
      <4>1. DOMAIN ledger' = DOMAIN ledger /\ Len(ledger') = Len(ledger)
        BY <2>6, <2>10, <3>2
      <4>2. Len(ledger) \in DOMAIN ledger
        BY <2>6 DEF LedgerInv, LedgerOK
      <4>3. \A i \in DOMAIN ledger' :
               ledger'[i].hash = ZeroHash <=> i = Len(ledger')
        <5> SUFFICES ASSUME NEW i \in DOMAIN ledger
                     PROVE  ledger'[i].hash = ZeroHash <=> i = Len(ledger)
          BY <4>1
        <5>1. ledger[i].hash = ZeroHash <=> i = Len(ledger)
          BY DEF LedgerInv, LedgerOK
        <5>2. CASE i = k
          <6>1. ledger'[i].hash = HashOf[c]
            BY <2>8, <5>2
          <6> QED
            BY <1>1, <3>2, <5>2, <6>1
        <5>3. CASE i # k
          <6>1. ledger'[i].hash = ledger[i].hash
            BY <2>8, <5>3
          <6> QED
            BY <5>1, <6>1
        <5> QED
          BY <5>2, <5>3
      <4>4. ledger'[Len(ledger')].count = 0
        BY <2>8, <3>2, <4>1, <4>2 DEF LedgerInv, LedgerOK
      <4>5. \A i, j \in DOMAIN ledger' :
               ledger'[i].hash = ledger'[j].hash => i = j
        BY <2>1, <2>8, <4>1 DEF LedgerInv, LedgerOK, Miss
      <4> QED
        BY <2>6, <2>8, <4>1, <4>2, <4>3, <4>4, <4>5 DEF LedgerOK
    <3> QED
      BY <3>1, <3>2
  <2>12. DOMAIN blocks' = {i \in DOMAIN ledger' : ledger'[i].count > 0}
    <3>1. DOMAIN blocks' = DOMAIN blocks \cup {k}
      BY <2>4 DEF CreateBlock
    <3>2. CASE k = Len(ledger)
      BY <2>1, <2>6, <2>8, <2>9, <2>10, <3>1, <3>2
         DEF LedgerInv, BlocksStored
    <3>3. CASE k # Len(ledger)
      <4>1. DOMAIN ledger' = DOMAIN ledger
        BY <2>6, <2>10, <3>3
      <4>2. \A i \in DOMAIN ledger :
               ledger'[i].count > 0 <=> (i = k \/ ledger[i].count > 0)
        BY <2>8
      <4> QED
        BY <2>1, <3>1, <4>1, <4>2 DEF LedgerInv, BlocksStored
    <3> QED
      BY <3>2, <3>3
  <2>13. \A i \in DOMAIN blocks' : HashOf[blocks'[i]] = ledger'[i].hash
    BY <2>1, <2>4, <2>8 DEF LedgerInv, BlocksStored, CreateBlock
  <2> QED
    BY <2>7, <2>11, <2>12, <2>13 DEF LedgerInv, BlocksStored
<1> QED
  BY <1>2, <1>3 DEF PushBlock

(* The store bb_init sets up.                                              *)
LEMMA LedgerInitInv == LedgerInit => LedgerInv
<1> SUFFICES ASSUME LedgerInit PROVE LedgerInv
  OBVIOUS
<1>1. ledger = <<Sentinel(1)>> /\ DOMAIN blocks = {}
  BY DEF LedgerInit
<1>2. 0 \in Counter
  <2>1. Radix * Radix > 1
    BY LedgerAssumption, SMT
  <2> QED
    BY <2>1, LedgerAssumption, SMT DEF Counter
<1>3. Sentinel(1) \in Line
  BY <1>2 DEF Sentinel, Line
<1>4. ledger \in Seq(Line) /\ Len(ledger) = 1 /\ ledger[1] = Sentinel(1)
  BY <1>1, <1>3
<1>5. LedgerTypeOK
  BY <1>4 DEF LedgerTypeOK, LedgerInit
<1>6. LedgerOK
  BY <1>4 DEF LedgerOK, Sentinel
<1>7. BlocksStored
  BY <1>1, <1>4 DEF BlocksStored, Sentinel
<1> QED
  BY <1>5, <1>6, <1>7 DEF LedgerInv

=============================================================================
