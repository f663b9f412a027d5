-------------------------- MODULE LedgerFileProofs --------------------------
(***************************************************************************)
(* The bytes of hash_ledger implement its lines, for one thread.           *)
(***************************************************************************)
EXTENDS LedgerFile, FiniteSets, SequenceTheorems, FiniteSetTheorems, TLAPS

(* The lemmas about PushBlock and RemoveBlock, for the lines of the file.  *)
HL == INSTANCE HashLedgerProofs WITH
    Hashes <- {getHash(c) : c \in Contents}, Radix <- 10

(* One thread, three digits for an id, and a cursor that reaches the end   *)
(* of the longest file (MaxPos is the model's bound).                      *)
Alone ==
    /\ \A t, u \in Threads : t = u
    /\ IsFiniteSet(Contents) /\ Cardinality(Contents) < 999
    /\ 30 * (Cardinality(Contents) + 1) <= MaxPos

(* A byte and the hash of a line.                                          *)
Byte == 0 .. Nul
Hash == [1 .. 20 -> HexDigit]

(* The file f is the lines L.                                              *)
Encodes(f, L) ==
    /\ f \in Seq(Byte)
    /\ Len(f) = 30 * Len(L)
    /\ \A k \in DOMAIN L, o \in 1 .. 30 :
          f[30 * (k - 1) + o] = LineOf(L[k].id, L[k].hash, L[k].count)[o]

(* Lines that fit into a file.                                             *)
Fits(L) ==
    /\ L \in Seq([id : Nat, hash : Hash, count : 0 .. 99])
    /\ Len(L) <= 999
    /\ \A k \in DOMAIN L : L[k].id = k

(* The lines L with another text and counter on line k.                    *)
SetLine(L, k, h, n) ==
    [i \in DOMAIN L |->
        IF i = k THEN [id |-> k, hash |-> h, count |-> n] ELSE L[i]]

-----------------------------------------------------------------------------
(* Where a call is.                                                        *)
Loc == [text : Contents, size : Nat, isNewBlock : BOOLEAN,
        cur_position : Nat, id_char : [1 .. 3 -> Byte],
        check_hash : [1 .. 20 -> Byte], counter_char : [1 .. 2 -> Byte]]

(* Where a call may be.                                                    *)
Stages == {"idle", "measure", "search", "hit", "bump", "block", "free", "add",
           "rewind", "skip", "drop"}

(* compareHash has read lines 1 to j; the text is on none of them.         *)
AtSearch(me, p) ==
    /\ me.size = 30 * Len(ledger)
    /\ \E j \in 0 .. Len(ledger) :
          p = 30 * j /\ \A i \in 1 .. j : ledger[i].hash # getHash(me.text)

(* It found the text on line k, and is behind that line.                   *)
AtHit(me, p) ==
    \E k \in DOMAIN ledger :
        /\ Abstract!Hit(getHash(me.text), k)
        /\ me.id_char = Id3(k)
        /\ p = 30 * k

(* It has read the counter of that line: only the end of line is left.     *)
AtBump(me, p) ==
    \E k \in DOMAIN ledger :
        /\ Abstract!Hit(getHash(me.text), k)
        /\ me.id_char = Id3(k)
        /\ me.counter_char = Count2(ledger[k].count)
        /\ me.isNewBlock = (ledger[k].count = 0)
        /\ p = 30 * k - 1

(* The text is on no line.  addHash has read lines 1 to j; none is free.   *)
AtFree(me, p) ==
    /\ Abstract!Miss(getHash(me.text))
    /\ me.isNewBlock /\ me.size = 30 * Len(ledger)
    /\ \E j \in 0 .. Len(ledger) - 1 :
          p = 30 * j /\ \A i \in 1 .. j : ~ Abstract!LooksFree(ledger[i])

(* It has found the first free line, k, and is behind it.                  *)
AtAdd(me, p) ==
    /\ Abstract!Miss(getHash(me.text))
    /\ me.isNewBlock /\ me.size = 30 * Len(ledger)
    /\ \E k \in DOMAIN ledger :
          /\ Abstract!FirstFree(k)
          /\ me.id_char = Id3(k)
          /\ p = 30 * k /\ me.cur_position = 30 * k

(* The file is as PushBlock of HashLedger leaves it.                       *)
AtBlock(me, f) ==
    \E k \in DOMAIN ledger :
        /\ me.id_char = Id3(k)
        /\ \/ /\ Abstract!Hit(getHash(me.text), k)
              /\ me.isNewBlock = (ledger[k].count = 0)
              /\ Encodes(f, [ledger EXCEPT ![k].count = Abstract!Bump(@)])
           \/ /\ Abstract!Miss(getHash(me.text)) /\ Abstract!FirstFree(k)
              /\ me.isNewBlock
              /\ Encodes(f, Abstract!AddHash(getHash(me.text), k))

(* removeBlocks is on its way to the line of an id.                        *)
AtRemove(me) == \E id \in DOMAIN ledger : me.id_char = Id3(id)

(* It has read the counter of that line.                                   *)
AtDrop(me, p) ==
    \E id \in DOMAIN ledger :
        /\ me.id_char = Id3(id)
        /\ me.counter_char = Count2(ledger[id].count)
        /\ p = 30 * id - 1

(* What is known of a call at each of its places.                          *)
Where(at, me, p, f) ==
    /\ at = "search" => AtSearch(me, p)
    /\ at = "hit" => AtHit(me, p)
    /\ at = "bump" => AtBump(me, p)
    /\ at = "free" => AtFree(me, p)
    /\ at = "add" => AtAdd(me, p)
    /\ at = "block" => AtBlock(me, f)
    /\ at \in {"rewind", "skip"} => AtRemove(me)
    /\ at = "skip" => p = 0
    /\ at = "drop" => AtDrop(me, p)

(* The ids that files hold are lines of the ledger.                        *)
HeldOK ==
    /\ DOMAIN held = Contents
    /\ \A c \in Contents :
          IsABag(held[c]) /\ BagToSet(held[c]) \subseteq DOMAIN ledger

(* The inductive invariant: the ledger and the blocks are those of         *)
(* HashLedger at the end of the last call, and the file is the lines of    *)
(* that ledger or, when a call has only its BL file left to write, of the  *)
(* next one.                                                               *)
IInv ==
    /\ Abstract!LedgerInv
    /\ blocks = BL
    /\ pos \in 0 .. MaxPos
    /\ pc \in [Threads -> Stages] /\ loc \in [Threads -> Loc]
    /\ HeldOK
    /\ \A t \in Threads : Where(pc[t], loc[t], pos, file)
    /\ (\A t \in Threads : pc[t] # "block") => Encodes(file, ledger)

-----------------------------------------------------------------------------
(* The larger of two numbers.                                              *)
LEMMA TwoMax == \A a, b \in Int : Max({a, b}) = IF a >= b THEN a ELSE b
<1> SUFFICES ASSUME NEW a \in Int, NEW b \in Int
             PROVE  Max({a, b}) = IF a >= b THEN a ELSE b
  OBVIOUS
<1>1. PICK m \in {a, b} : \A y \in {a, b} : m >= y
  BY SMT
<1>2. Max({a, b}) \in {a, b} /\ \A y \in {a, b} : Max({a, b}) >= y
  BY <1>1 DEF Max
<1> QED
  BY <1>2, SMT

(* The smaller of two numbers.                                             *)
LEMMA TwoMin == \A a, b \in Int : Min({a, b}) = IF a <= b THEN a ELSE b
<1> SUFFICES ASSUME NEW a \in Int, NEW b \in Int
             PROVE  Min({a, b}) = IF a <= b THEN a ELSE b
  OBVIOUS
<1>1. PICK m \in {a, b} : \A y \in {a, b} : m <= y
  BY SMT
<1>2. Min({a, b}) \in {a, b} /\ \A y \in {a, b} : Min({a, b}) <= y
  BY <1>1 DEF Min
<1> QED
  BY <1>2, SMT

(* A read that ends inside the file moves the cursor by what it read.      *)
LEMMA AfterInside ==
    ASSUME NEW p \in Nat, NEW n \in Nat, Len(file) \in Nat, MaxPos \in Nat,
           p + n <= Len(file), Len(file) <= MaxPos
    PROVE  After(p, n) = p + n
<1>1. Min({p + n, Len(file)}) = p + n
  BY TwoMin
<1>2. Max({p, p + n}) = p + n
  BY TwoMax
<1>3. Min({MaxPos, p + n}) = p + n
  BY TwoMin
<1> QED
  BY <1>1, <1>2, <1>3 DEF After

(* atoi of a digit at the end of a line, as addHash reads it.              *)
LEMMA AtoiLate ==
    ASSUME NEW d \in Digit
    PROVE  atoi(<<d, Newline>>) = d
<1> DEFINE s == <<d, Newline>>
           blank == {Space, Newline}
           from == {i \in DOMAIN s : s[i] \notin blank
                                     /\ \A j \in 1 .. i - 1 : s[j] \in blank}
           num == {i \in DOMAIN s : \E a \in from : a <= i
                                     /\ \A j \in a .. i : s[j] \in Digit}
           g == [i \in 0 .. 2 |-> IF i = 0 THEN 0 ELSE d]
           step(f, i) == IF i = 0 THEN 0
                         ELSE IF i \in num THEN 10 * f[i - 1] + s[i]
                         ELSE f[i - 1]
           val == CHOOSE f : f = [i \in 0 .. Len(s) |-> step(f, i)]
<1>1. Len(s) = 2 /\ DOMAIN s = 1 .. 2 /\ s[1] = d /\ s[2] = Newline
  OBVIOUS
<1>2. from = {1}
  BY <1>1, SMT DEF Digit, Space, Newline
<1>3. num = {1}
  BY <1>1, <1>2, SMT DEF Digit, Newline
<1> HIDE DEF num, s
<1>4. g = [i \in 0 .. Len(s) |-> step(g, i)]
  BY <1>1, <1>3 DEF Digit
<1> HIDE DEF g
<1>5. val = [i \in 0 .. Len(s) |-> step(val, i)]
  BY <1>4
<1> HIDE DEF val
<1>6. val[2] = d
  <2>1. val[0] = 0 /\ val[1] = 10 * val[0] + d /\ val[2] = val[1]
    BY <1>1, <1>3, <1>5
  <2> QED
    BY <2>1 DEF Digit
<1>7. atoi(s) = val[Len(s)]
  BY DEF atoi, val, num
<1> QED
  BY <1>1, <1>6, <1>7 DEF s

(* atoi of two digits.                                                     *)
LEMMA AtoiTwo ==
    ASSUME NEW a \in Digit, NEW b \in Digit
    PROVE  atoi(<<a, b>>) = 10 * a + b
<1> DEFINE s == <<a, b>>
           blank == {Space, Newline}
           from == {i \in DOMAIN s : s[i] \notin blank
                                     /\ \A j \in 1 .. i - 1 : s[j] \in blank}
           num == {i \in DOMAIN s : \E m \in from : m <= i
                                     /\ \A j \in m .. i : s[j] \in Digit}
           g == [i \in 0 .. 2 |-> IF i = 0 THEN 0
                                  ELSE IF i = 1 THEN a ELSE 10 * a + b]
           step(f, i) == IF i = 0 THEN 0
                         ELSE IF i \in num THEN 10 * f[i - 1] + s[i]
                         ELSE f[i - 1]
           val == CHOOSE f : f = [i \in 0 .. Len(s) |-> step(f, i)]
<1>1. Len(s) = 2 /\ DOMAIN s = 1 .. 2 /\ s[1] = a /\ s[2] = b
  OBVIOUS
<1>2. from = {1}
  BY <1>1, SMT DEF Digit, Space, Newline
<1>3. num = {1, 2}
  BY <1>1, <1>2, SMT DEF Digit, Newline
<1> HIDE DEF num, s
<1>4. g = [i \in 0 .. Len(s) |-> step(g, i)]
  BY <1>1, <1>3 DEF Digit
<1> HIDE DEF g
<1>5. val = [i \in 0 .. Len(s) |-> step(val, i)]
  BY <1>4
<1> HIDE DEF val
<1>6. val[2] = 10 * a + b
  <2>1. val[0] = 0 /\ val[1] = 10 * val[0] + a /\ val[2] = 10 * val[1] + b
    BY <1>1, <1>3, <1>5
  <2> QED
    BY <2>1 DEF Digit
<1>7. atoi(s) = val[Len(s)]
  BY DEF atoi, val, num
<1> QED
  BY <1>1, <1>6, <1>7 DEF s

(* atoi of three digits.                                                   *)
LEMMA AtoiThree ==
    ASSUME NEW a \in Digit, NEW b \in Digit, NEW c \in Digit
    PROVE  atoi(<<a, b, c>>) = 100 * a + 10 * b + c
<1> DEFINE s == <<a, b, c>>
           blank == {Space, Newline}
           from == {i \in DOMAIN s : s[i] \notin blank
                                     /\ \A j \in 1 .. i - 1 : s[j] \in blank}
           num == {i \in DOMAIN s : \E m \in from : m <= i
                                     /\ \A j \in m .. i : s[j] \in Digit}
           g == [i \in 0 .. 3 |-> IF i = 0 THEN 0
                                  ELSE IF i = 1 THEN a
                                  ELSE IF i = 2 THEN 10 * a + b
                                  ELSE 10 * (10 * a + b) + c]
           step(f, i) == IF i = 0 THEN 0
                         ELSE IF i \in num THEN 10 * f[i - 1] + s[i]
                         ELSE f[i - 1]
           val == CHOOSE f : f = [i \in 0 .. Len(s) |-> step(f, i)]
<1>1. /\ Len(s) = 3 /\ DOMAIN s = 1 .. 3
      /\ s[1] = a /\ s[2] = b /\ s[3] = c
  OBVIOUS
<1>2. from = {1}
  BY <1>1, SMT DEF Digit, Space, Newline
<1>3. num = {1, 2, 3}
  BY <1>1, <1>2, SMT DEF Digit, Newline
<1> HIDE DEF num, s
<1>4. g = [i \in 0 .. Len(s) |-> step(g, i)]
  BY <1>1, <1>3 DEF Digit
<1> HIDE DEF g
<1>5. val = [i \in 0 .. Len(s) |-> step(val, i)]
  BY <1>4
<1> HIDE DEF val
<1>6. val[3] = 100 * a + 10 * b + c
  <2>1. /\ val[0] = 0 /\ val[1] = 10 * val[0] + a
        /\ val[2] = 10 * val[1] + b /\ val[3] = 10 * val[2] + c
    BY <1>1, <1>3, <1>5
  <2> QED
    BY <2>1 DEF Digit
<1>7. atoi(s) = val[Len(s)]
  BY DEF atoi, val, num
<1> QED
  BY <1>1, <1>6, <1>7 DEF s

(* A buffer of bytes is a sequence.                                        *)
LEMMA ByteSeq ==
    \A n \in Nat : \A f \in [1 .. n -> Byte] : f \in Seq(Byte) /\ Len(f) = n
  OBVIOUS

(* The bytes of two sequences put together.                                *)
LEMMA Join ==
    ASSUME NEW s \in Seq(Byte), NEW u \in Seq(Byte)
    PROVE  /\ s \o u \in Seq(Byte)
           /\ Len(s \o u) = Len(s) + Len(u)
           /\ \A i \in 1 .. Len(s) + Len(u) :
                 (s \o u)[i] = IF i <= Len(s) THEN s[i] ELSE u[i - Len(s)]
  BY ConcatProperties

(* atoi reads back the id of a line...                                     *)
LEMMA AtoiId == \A n \in 0 .. 999 : atoi(Id3(n)) = n
<1> SUFFICES ASSUME NEW n \in 0 .. 999 PROVE atoi(Id3(n)) = n
  OBVIOUS
<1>1. /\ n \div 100 \in Digit /\ (n \div 10) % 10 \in Digit /\ n % 10 \in Digit
      /\ 100 * (n \div 100) + 10 * ((n \div 10) % 10) + (n % 10) = n
  BY SMT DEF Digit
<1> QED
  BY <1>1, AtoiThree DEF Id3

(* ... and its counter.                                                    *)
LEMMA AtoiCount == \A n \in 0 .. 99 : atoi(Count2(n)) = n
<1> SUFFICES ASSUME NEW n \in 0 .. 99 PROVE atoi(Count2(n)) = n
  OBVIOUS
<1>1. /\ n \div 10 \in Digit /\ n % 10 \in Digit
      /\ 10 * (n \div 10) + (n % 10) = n
  BY SMT DEF Digit
<1> QED
  BY <1>1, AtoiTwo DEF Count2

(* What "%02d" makes of 100 is what Bump makes of 99.                      *)
LEMMA Count2Bump ==
    ASSUME NEW n \in 0 .. 99
    PROVE  /\ Abstract!Bump(n) \in 1 .. 99
           /\ Count2(n + 1) = Count2(Abstract!Bump(n))
<1>1. CASE n = 99
  <2>1. Abstract!Bump(n) = 10
    BY <1>1 DEF Abstract!Bump
  <2>2. Count2(n + 1) = <<1, 0>> /\ Count2(10) = <<1, 0>>
    BY <1>1 DEF Count2
  <2> QED
    BY <2>1, <2>2
<1>2. CASE n # 99
  BY <1>2 DEF Abstract!Bump
<1> QED
  BY <1>1, <1>2

(* The parts of a line are sequences of bytes: its id, ...                 *)
LEMMA IdSeq ==
    ASSUME NEW id, id \in 0 .. 999
    PROVE  Id3(id) \in Seq(Byte) /\ Len(Id3(id)) = 3
  BY DEF Id3, Byte, Nul

(* ... its counter, ...                                                    *)
LEMMA CountSeq ==
    ASSUME NEW n, n \in 0 .. 99
    PROVE  Count2(n) \in Seq(Byte) /\ Len(Count2(n)) = 2
<1>1. n \div 10 \in Byte /\ n % 10 \in Byte
  BY DEF Byte, Nul
<1>2. Count2(n) = <<n \div 10, n % 10>>
  BY DEF Count2
<1> QED
  BY <1>1, <1>2

(* ... its hash, ...                                                       *)
LEMMA HashSeq ==
    ASSUME NEW h, h \in Hash
    PROVE  h \in Seq(Byte) /\ Len(h) = 20
<1>1. h \in [1 .. 20 -> Byte]
  BY DEF Hash, HexDigit, Byte, Nul
<1> QED
  BY <1>1, ByteSeq

(* ... and what is between them.                                           *)
LEMMA MarkSeq ==
    /\ <<Comma, Space>> \in Seq(Byte) /\ <<Newline>> \in Seq(Byte)
    /\ Len(<<Comma, Space>>) = 2 /\ Len(<<Newline>>) = 1
  BY DEF Byte, Nul, Comma, Space, Newline

(* Together they have thirty bytes.                                        *)
LEMMA LineType ==
    ASSUME NEW id, NEW h, NEW n, id \in 0 .. 999, h \in Hash, n \in 0 .. 99
    PROVE  LineOf(id, h, n) \in Seq(Byte) /\ Len(LineOf(id, h, n)) = 30
<1> DEFINE a == Id3(id)
           b == <<Comma, Space>>
           e == Count2(n)
           z == <<Newline>>
<1>1. a \in Seq(Byte) /\ Len(a) = 3
  BY ONLY id \in 0 .. 999, IdSeq
<1>2. b \in Seq(Byte) /\ Len(b) = 2 /\ z \in Seq(Byte) /\ Len(z) = 1
  BY MarkSeq
<1>3. e \in Seq(Byte) /\ Len(e) = 2
  BY ONLY n \in 0 .. 99, CountSeq
<1>4. h \in Seq(Byte) /\ Len(h) = 20
  BY ONLY h \in Hash, HashSeq
<1> DEFINE s2 == a \o b
           s3 == s2 \o h
           s4 == s3 \o b
           s5 == s4 \o e
           s6 == s5 \o z
<1>5. LineOf(id, h, n) = s6
  BY DEF LineOf
<1> HIDE DEF a, b, e, z, s2, s3, s4, s5, s6
<1>6. s2 \in Seq(Byte) /\ Len(s2) = 5
  <2>1. s2 \in Seq(Byte) /\ Len(s2) = Len(a) + Len(b)
    BY ONLY <1>1, <1>2, Join DEF s2
  <2> QED
    BY <1>1, <1>2, <2>1
<1>7. s3 \in Seq(Byte) /\ Len(s3) = 25
  <2>1. s3 \in Seq(Byte) /\ Len(s3) = Len(s2) + Len(h)
    BY <1>4, <1>6, Join DEF s3
  <2> QED
    BY <1>4, <1>6, <2>1
<1>8. s4 \in Seq(Byte) /\ Len(s4) = 27
  <2>1. s4 \in Seq(Byte) /\ Len(s4) = Len(s3) + Len(b)
    BY <1>2, <1>7, Join DEF s4
  <2> QED
    BY <1>2, <1>7, <2>1
<1>9. s5 \in Seq(Byte) /\ Len(s5) = 29
  <2>1. s5 \in Seq(Byte) /\ Len(s5) = Len(s4) + Len(e)
    BY <1>3, <1>8, Join DEF s5
  <2> QED
    BY <1>3, <1>8, <2>1
<1>10. s6 \in Seq(Byte) /\ Len(s6) = 30
  <2>1. s6 \in Seq(Byte) /\ Len(s6) = Len(s5) + Len(z)
    BY <1>2, <1>9, Join DEF s6
  <2> QED
    BY <1>2, <1>9, <2>1
<1> QED
  BY ONLY <1>5, <1>10

(* Each of them is at its place.                                           *)
LEMMA LineBytes ==
    ASSUME NEW id, NEW h, NEW n, id \in 0 .. 999, h \in Hash, n \in 0 .. 99
    PROVE  LET s == LineOf(id, h, n)
           IN  /\ s[1] = Id3(id)[1] /\ s[2] = Id3(id)[2]
               /\ s[3] = Id3(id)[3] /\ s[4] = Comma /\ s[5] = Space
               /\ \A i \in 1 .. 20 : s[5 + i] = h[i]
               /\ s[26] = Comma /\ s[27] = Space
               /\ s[28] = Count2(n)[1] /\ s[29] = Count2(n)[2]
               /\ s[30] = Newline
<1>1. h \in Seq(Byte) /\ Len(h) = 20
  BY HashSeq
<1> DEFINE a == Id3(id)
           b == <<Comma, Space>>
           e == Count2(n)
           z == <<Newline>>
           s2 == a \o b
           s3 == s2 \o h
           s4 == s3 \o b
           s5 == s4 \o e
           s6 == s5 \o z
<1>2. a \in Seq(Byte) /\ Len(a) = 3
  BY ONLY id \in 0 .. 999, IdSeq
<1>3. b \in Seq(Byte) /\ Len(b) = 2 /\ z \in Seq(Byte) /\ Len(z) = 1
  BY MarkSeq
<1>4. e \in Seq(Byte) /\ Len(e) = 2
  BY ONLY n \in 0 .. 99, CountSeq
<1> HIDE DEF a, b, e, z, s2, s3, s4, s5, s6
<1>5. /\ s2 \in Seq(Byte) /\ Len(s2) = 5
      /\ \A i \in 1 .. 3 : s2[i] = a[i]
      /\ \A i \in 4 .. 5 : s2[i] = b[i - 3]
  <2>1. /\ s2 \in Seq(Byte) /\ Len(s2) = Len(a) + Len(b)
        /\ \A i \in 1 .. Len(a) + Len(b) :
              s2[i] = IF i <= Len(a) THEN a[i] ELSE b[i - Len(a)]
    BY ONLY <1>2, <1>3, Join DEF s2
  <2> QED
    BY <1>2, <1>3, <1>4, <2>1
<1>6. /\ s3 \in Seq(Byte) /\ Len(s3) = 25
      /\ \A i \in 1 .. 5 : s3[i] = s2[i]
      /\ \A i \in 6 .. 25 : s3[i] = h[i - 5]
  <2>1. /\ s3 \in Seq(Byte) /\ Len(s3) = Len(s2) + Len(h)
        /\ \A i \in 1 .. Len(s2) + Len(h) :
              s3[i] = IF i <= Len(s2) THEN s2[i] ELSE h[i - Len(s2)]
    BY ONLY <1>1, <1>5, Join DEF s3
  <2> QED
    BY <1>1, <1>5, <2>1
<1>7. /\ s4 \in Seq(Byte) /\ Len(s4) = 27
      /\ \A i \in 1 .. 25 : s4[i] = s3[i]
      /\ \A i \in 26 .. 27 : s4[i] = b[i - 25]
  <2>1. /\ s4 \in Seq(Byte) /\ Len(s4) = Len(s3) + Len(b)
        /\ \A i \in 1 .. Len(s3) + Len(b) :
              s4[i] = IF i <= Len(s3) THEN s3[i] ELSE b[i - Len(s3)]
    BY ONLY <1>3, <1>6, Join DEF s4
  <2> QED
    BY <1>2, <1>3, <1>4, <1>6, <2>1
<1>8. /\ s5 \in Seq(Byte) /\ Len(s5) = 29
      /\ \A i \in 1 .. 27 : s5[i] = s4[i]
      /\ \A i \in 28 .. 29 : s5[i] = e[i - 27]
  <2>1. /\ s5 \in Seq(Byte) /\ Len(s5) = Len(s4) + Len(e)
        /\ \A i \in 1 .. Len(s4) + Len(e) :
              s5[i] = IF i <= Len(s4) THEN s4[i] ELSE e[i - Len(s4)]
    BY ONLY <1>4, <1>7, Join DEF s5
  <2> QED
    BY <1>2, <1>3, <1>4, <1>7, <2>1
<1>9. /\ s6 \in Seq(Byte) /\ Len(s6) = 30
      /\ \A i \in 1 .. 29 : s6[i] = s5[i]
      /\ \A i \in 30 .. 30 : s6[i] = z[i - 29]
  <2>1. /\ s6 \in Seq(Byte) /\ Len(s6) = Len(s5) + Len(z)
        /\ \A i \in 1 .. Len(s5) + Len(z) :
              s6[i] = IF i <= Len(s5) THEN s5[i] ELSE z[i - Len(s5)]
    BY ONLY <1>3, <1>8, Join DEF s6
  <2> QED
    BY <1>2, <1>3, <1>4, <1>8, <2>1
<1>10. LineOf(id, h, n) = s6
  BY DEF LineOf, s2, s3, s4, s5, s6, a, b, e, z
<1>11. b[1] = Comma /\ b[2] = Space /\ z[1] = Newline
  BY DEF b, z
<1>12. /\ \A i \in 1 .. 3 : s6[i] = a[i]
       /\ \A i \in 4 .. 5 : s6[i] = b[i - 3]
       /\ \A i \in 6 .. 25 : s6[i] = h[i - 5]
       /\ \A i \in 26 .. 27 : s6[i] = b[i - 25]
       /\ \A i \in 28 .. 29 : s6[i] = e[i - 27]
       /\ \A i \in 30 .. 30 : s6[i] = z[i - 29]
  <2>1. /\ \A i \in 1 .. 3 : s2[i] = a[i]
        /\ \A i \in 4 .. 5 : s2[i] = b[i - 3]
    BY <1>5
  <2>2. /\ \A i \in 1 .. 5 : s3[i] = s2[i]
        /\ \A i \in 6 .. 25 : s3[i] = h[i - 5]
    BY <1>6
  <2>3. /\ \A i \in 1 .. 25 : s4[i] = s3[i]
        /\ \A i \in 26 .. 27 : s4[i] = b[i - 25]
    BY <1>7
  <2>4. /\ \A i \in 1 .. 27 : s5[i] = s4[i]
        /\ \A i \in 28 .. 29 : s5[i] = e[i - 27]
    BY <1>8
  <2>5. /\ \A i \in 1 .. 29 : s6[i] = s5[i]
        /\ \A i \in 30 .. 30 : s6[i] = z[i - 29]
    BY <1>9
  <2> QED
    BY ONLY <2>1, <2>2, <2>3, <2>4, <2>5
<1>13. \A i \in 1 .. 20 : s6[5 + i] = h[i]
  BY ONLY <1>12
<1>14. /\ s6[1] = a[1] /\ s6[2] = a[2] /\ s6[3] = a[3]
       /\ s6[4] = b[1] /\ s6[5] = b[2] /\ s6[26] = b[1]
       /\ s6[27] = b[2] /\ s6[28] = e[1] /\ s6[29] = e[2] /\ s6[30] = z[1]
  BY ONLY <1>12
<1> QED
  BY ONLY <1>10, <1>11, <1>13, <1>14 DEF a, e

(* A line is the record of its three fields.                               *)
LEMMA FitsRecord ==
    ASSUME NEW L, Fits(L), NEW k \in DOMAIN L
    PROVE  L[k] = [id |-> k, hash |-> L[k].hash, count |-> L[k].count]
<1> DEFINE R == [id : Nat, hash : Hash, count : 0 .. 99]
<1>1. L \in Seq(R) /\ L[k].id = k
  BY DEF Fits
<1>2. L[k] \in R
  <2> HIDE DEF R
  <2> QED
    BY <1>1
<1> QED
  BY <1>1, <1>2

(* The id of a line is its place, and its fields fit.                      *)
LEMMA FitsLine ==
    ASSUME NEW L, Fits(L), NEW k \in DOMAIN L
    PROVE  /\ Len(L) \in Nat /\ Len(L) <= 999
           /\ k \in Nat /\ k \in 0 .. 999 /\ k >= 1
           /\ L[k].id = k /\ L[k].hash \in Hash /\ L[k].count \in 0 .. 99
<1> DEFINE R == [id : Nat, hash : Hash, count : 0 .. 99]
<1>1. L \in Seq(R) /\ Len(L) <= 999 /\ L[k].id = k
  BY DEF Fits
<1>2. Len(L) \in Nat /\ L[k] \in R
  <2> HIDE DEF R
  <2> QED
    BY <1>1
<1>3. L[k].hash \in Hash /\ L[k].count \in 0 .. 99
  BY <1>2
<1>4. k \in Nat /\ k \in 0 .. 999 /\ k >= 1
  <2> DEFINE m == Len(L)
  <2>1. m \in Nat /\ m <= 999
    BY <1>1, <1>2
  <2>2. k \in 1 .. m
    <3> HIDE DEF R
    <3> QED
      BY <1>1
  <2> HIDE DEF m
  <2> QED
    BY ONLY <2>1, <2>2
<1> QED
  BY <1>1, <1>2, <1>3, <1>4

(* The bytes of line k.                                                    *)
LEMMA LineRead ==
    ASSUME NEW f, NEW L, Fits(L), Encodes(f, L), NEW k \in DOMAIN L,
           NEW p, p = 30 * (k - 1)
    PROVE  /\ f[p + 1] = Id3(k)[1] /\ f[p + 2] = Id3(k)[2]
           /\ f[p + 3] = Id3(k)[3]
           /\ \A i \in 1 .. 20 : f[p + 5 + i] = L[k].hash[i]
           /\ f[p + 28] = Count2(L[k].count)[1]
           /\ f[p + 29] = Count2(L[k].count)[2] /\ f[p + 30] = Newline
<1> DEFINE h == L[k].hash
           n == L[k].count
           s == LineOf(k, h, n)
<1>1. k \in 0 .. 999 /\ L[k].id = k /\ h \in Hash /\ n \in 0 .. 99
  BY FitsLine
<1>2. \A o \in 1 .. 30 : f[p + o] = s[o]
  BY <1>1 DEF Encodes
<1> HIDE DEF h, n
<1>3. /\ s[1] = Id3(k)[1] /\ s[2] = Id3(k)[2] /\ s[3] = Id3(k)[3]
      /\ \A i \in 1 .. 20 : s[5 + i] = h[i]
      /\ s[28] = Count2(n)[1] /\ s[29] = Count2(n)[2] /\ s[30] = Newline
  BY <1>1, LineBytes
<1> HIDE DEF s
<1>4. p \in Int
  BY <1>1
<1>5. \A i \in 1 .. 20 : f[p + 5 + i] = h[i]
  <2> TAKE i \in 1 .. 20
  <2>1. 5 + i \in 1 .. 30 /\ p + (5 + i) = p + 5 + i
    BY <1>4
  <2>2. f[p + (5 + i)] = s[5 + i]
    BY <1>2, <2>1
  <2> QED
    BY <1>3, <2>1, <2>2
<1>6. /\ f[p + 1] = s[1] /\ f[p + 2] = s[2] /\ f[p + 3] = s[3]
      /\ f[p + 28] = s[28] /\ f[p + 29] = s[29] /\ f[p + 30] = s[30]
  BY <1>2
<1> QED
  BY <1>3, <1>5, <1>6 DEF h, n

(* The characters of an id...                                              *)
LEMMA Id3Type ==
    ASSUME NEW n, n \in 0 .. 999
    PROVE  Id3(n) \in [1 .. 3 -> Byte]
<1>1. n \div 100 \in Byte /\ (n \div 10) % 10 \in Byte /\ n % 10 \in Byte
  BY DEF Byte, Nul
<1>2. \A a, b, c \in Byte : <<a, b, c>> \in [1 .. 3 -> Byte]
  OBVIOUS
<1> QED
  BY <1>1, <1>2 DEF Id3

(* ... and of a counter are bytes.                                         *)
LEMMA Count2Type ==
    ASSUME NEW n, n \in 0 .. 99
    PROVE  Count2(n) \in [1 .. 2 -> Byte]
<1>1. n \div 10 \in Byte /\ n % 10 \in Byte
  BY DEF Byte, Nul
<1>2. \A a, b \in Byte : <<a, b>> \in [1 .. 2 -> Byte]
  OBVIOUS
<1> QED
  BY <1>1, <1>2 DEF Count2

(* The bytes of the lines read back as the lines.                          *)
LEMMA ReadBack ==
    ASSUME NEW f, NEW L, Fits(L), Encodes(f, L)
    PROVE  /\ LinesOf(f) = L
           /\ Len(f) \div 30 = Len(L) /\ Len(f) % 30 = 0
           /\ \A k \in DOMAIN L :
                 Bytes(f, k, 1, 30) =
                    LineOf(L[k].id, L[k].hash, L[k].count)
<1>1. Len(L) \in Nat /\ Len(f) = 30 * Len(L) /\ DOMAIN L = 1 .. Len(L)
  <2>1. Len(L) \in Nat /\ DOMAIN L = 1 .. Len(L)
    BY ONLY Fits(L) DEF Fits
  <2>2. Len(f) = 30 * Len(L)
    BY ONLY Encodes(f, L), Zenon DEF Encodes
  <2> QED
    BY ONLY <2>1, <2>2
<1>2. Len(f) \div 30 = Len(L) /\ Len(f) % 30 = 0
  <2>1. \A x \in Nat : (30 * x) \div 30 = x /\ (30 * x) % 30 = 0
    OBVIOUS
  <2>2. /\ (30 * Len(L)) \div 30 = Len(L) /\ (30 * Len(L)) % 30 = 0
    <3> DEFINE m == Len(L)
    <3>1. m \in Nat
      BY <1>1
    <3> HIDE DEF m
    <3>2. (30 * m) \div 30 = m /\ (30 * m) % 30 = 0
      BY ONLY <2>1, <3>1
    <3> QED
      BY ONLY <3>2, Zenon DEF m
  <2> QED
    BY ONLY <1>1, <2>2, Zenon
<1>3. ASSUME NEW k \in DOMAIN L
      PROVE  /\ atoi(Bytes(f, k, 1, 3)) = k
             /\ Bytes(f, k, 6, 25) = L[k].hash
             /\ atoi(Bytes(f, k, 28, 29)) = L[k].count
             /\ Bytes(f, k, 1, 30) =
                    LineOf(L[k].id, L[k].hash, L[k].count)
  <2> DEFINE p == 30 * (k - 1)
             h == L[k].hash
             n == L[k].count
  <2>1. k \in 0 .. 999 /\ L[k].id = k /\ h \in Hash /\ n \in 0 .. 99
    BY FitsLine
  <2>2. p \in Int /\ 30 * (k - 1) = p
    BY <2>1
  <2>3. \A o \in 1 .. 30 : f[p + o] = LineOf(k, h, n)[o]
    BY <2>1 DEF Encodes
  <2> HIDE DEF p
  <2>4. /\ f[p + 1] = Id3(k)[1] /\ f[p + 2] = Id3(k)[2]
        /\ f[p + 3] = Id3(k)[3]
        /\ \A i \in 1 .. 20 : f[p + 5 + i] = h[i]
        /\ f[p + 28] = Count2(n)[1] /\ f[p + 29] = Count2(n)[2]
    BY <2>2, LineRead
  <2> HIDE DEF h, n
  <2>5. Bytes(f, k, 1, 3) = Id3(k)
    <3>1. Bytes(f, k, 1, 3) = [i \in 1 .. 3 |-> f[p + i]]
      BY <2>2 DEF Bytes
    <3>2. Id3(k) = [i \in 1 .. 3 |-> Id3(k)[i]]
      BY <2>1, Id3Type
    <3>3. \A i \in 1 .. 3 : f[p + i] = Id3(k)[i]
      BY <2>4
    <3> QED
      BY <3>1, <3>2, <3>3
  <2>6. Bytes(f, k, 28, 29) = Count2(n)
    <3>1. Bytes(f, k, 28, 29) = [i \in 1 .. 2 |-> f[p + 27 + i]]
      BY <2>2 DEF Bytes
    <3>2. Count2(n) = [i \in 1 .. 2 |-> Count2(n)[i]]
      BY <2>1, Count2Type
    <3>3. \A i \in 1 .. 2 : f[p + 27 + i] = Count2(n)[i]
      <4>1. p + 27 + 1 = p + 28 /\ p + 27 + 2 = p + 29
        BY <2>2
      <4> QED
        BY <2>4, <4>1
    <3> QED
      BY <3>1, <3>2, <3>3
  <2>7. Bytes(f, k, 6, 25) = h
    <3>1. Bytes(f, k, 6, 25) = [i \in 1 .. 20 |-> f[p + 5 + i]]
      BY <2>2 DEF Bytes
    <3>2. h = [i \in 1 .. 20 |-> h[i]]
      BY <2>1 DEF Hash
    <3> QED
      BY <2>4, <3>1, <3>2
  <2>8. Bytes(f, k, 1, 30) = LineOf(k, h, n)
    <3>1. Bytes(f, k, 1, 30) = [i \in 1 .. 30 |-> f[p + i]]
      <4>1. /\ 1 .. 30 - 1 + 1 = 1 .. 30
            /\ \A i \in 1 .. 30 : p + 1 - 1 + i = p + i
        BY <2>2
      <4>2. Bytes(f, k, 1, 30) = [i \in 1 .. 30 - 1 + 1 |-> f[p + 1 - 1 + i]]
        BY <2>2 DEF Bytes
      <4> QED
        BY <4>1, <4>2
    <3>2. LineOf(k, h, n) = [i \in 1 .. 30 |-> LineOf(k, h, n)[i]]
      <4>1. LineOf(k, h, n) \in Seq(Byte) /\ Len(LineOf(k, h, n)) = 30
        BY ONLY <2>1, LineType
      <4> QED
        BY <4>1
    <3> QED
      BY <2>3, <3>1, <3>2
  <2>9. atoi(Id3(k)) = k
    BY <2>1, AtoiId
  <2>10. atoi(Count2(n)) = n
    BY <2>1, AtoiCount
  <2> QED
    BY <2>1, <2>5, <2>6, <2>7, <2>8, <2>9, <2>10 DEF h, n
<1>4. LinesOf(f) = L
  <2>1. LinesOf(f) = [k \in DOMAIN L |-> L[k]]
    <3>1. \A k \in DOMAIN L :
             L[k] = [id |-> k, hash |-> L[k].hash, count |-> L[k].count]
      BY FitsRecord
    <3> DEFINE m == Len(f) \div 30
    <3>2. 1 .. m = DOMAIN L
      BY ONLY <1>1, <1>2, Zenon
    <3>3. LinesOf(f) =
             [k \in 1 .. m |-> [id |-> atoi(Bytes(f, k, 1, 3)),
                                 hash |-> Bytes(f, k, 6, 25),
                                 count |-> atoi(Bytes(f, k, 28, 29))]]
      BY ONLY Zenon DEF LinesOf
    <3> HIDE DEF m
    <3>4. \A k \in DOMAIN L :
             L[k] = [id |-> atoi(Bytes(f, k, 1, 3)),
                     hash |-> Bytes(f, k, 6, 25),
                     count |-> atoi(Bytes(f, k, 28, 29))]
      BY ONLY <1>3, <3>1
    <3> QED
      BY ONLY <3>2, <3>3, <3>4
  <2>2. L = [k \in DOMAIN L |-> L[k]]
    BY ONLY Fits(L) DEF Fits
  <2> QED
    BY ONLY <2>1, <2>2
<1> QED
  BY <1>2, <1>3, <1>4

(* What the reads at their places in line k get: the id, the hash, the     *)
(* counter, and what addHash takes for it.                                 *)
LEMMA GotLine ==
    ASSUME NEW L, Fits(L), Encodes(file, L), NEW k \in DOMAIN L, NEW buf
    PROVE  LET p == 30 * (k - 1)
               n == L[k].count
           IN  /\ Got(p, 3, buf) = Id3(k)
               /\ Got(p + 5, 20, buf) = L[k].hash
               /\ Got(p + 27, 2, buf) = Count2(n)
               /\ Got(p + 28, 2, buf) = <<n % 10, Newline>>
<1> DEFINE p == 30 * (k - 1)
           h == L[k].hash
           n == L[k].count
<1>1. k \in 0 .. 999 /\ L[k].id = k /\ h \in Hash /\ n \in 0 .. 99
  BY FitsLine
<1>2. p \in Int /\ 30 * (k - 1) = p
  BY <1>1
<1>3. p + 30 <= Len(file)
  <2>1. Len(L) \in Nat /\ DOMAIN L = 1 .. Len(L)
    BY DEF Fits
  <2>2. \A m \in Nat : \A i \in 1 .. m : 30 * (i - 1) + 30 <= 30 * m
    OBVIOUS
  <2> QED
    BY <2>1, <2>2 DEF Encodes
<1>4. Len(file) \in Nat
  BY DEF Encodes
<1> HIDE DEF p
<1>5. /\ file[p + 1] = Id3(k)[1] /\ file[p + 2] = Id3(k)[2]
      /\ file[p + 3] = Id3(k)[3]
      /\ \A i \in 1 .. 20 : file[p + 5 + i] = h[i]
      /\ file[p + 28] = Count2(n)[1] /\ file[p + 29] = Count2(n)[2]
      /\ file[p + 30] = Newline
  BY <1>2, LineRead
<1> HIDE DEF h, n
<1>6. Got(p, 3, buf) = Id3(k)
  <2>1. \A i \in 1 .. 3 : p + i <= Len(file)
    BY <1>2, <1>3, <1>4
  <2>2. Got(p, 3, buf) = [i \in 1 .. 3 |-> file[p + i]]
    BY <2>1 DEF Got
  <2>3. Id3(k) = [i \in 1 .. 3 |-> Id3(k)[i]]
    BY <1>1, Id3Type
  <2>4. \A i \in 1 .. 3 : file[p + i] = Id3(k)[i]
    BY <1>5
  <2> QED
    BY <2>2, <2>3, <2>4
<1>7. Got(p + 5, 20, buf) = h
  <2>1. \A i \in 1 .. 20 : p + 5 + i <= Len(file)
    BY <1>2, <1>3, <1>4
  <2>2. Got(p + 5, 20, buf) = [i \in 1 .. 20 |-> file[p + 5 + i]]
    BY <2>1 DEF Got
  <2>3. h = [i \in 1 .. 20 |-> h[i]]
    BY <1>1 DEF Hash
  <2> QED
    BY <1>5, <2>2, <2>3
<1>8. Got(p + 27, 2, buf) = Count2(n)
  <2>1. \A i \in 1 .. 2 : p + 27 + i <= Len(file)
    BY <1>2, <1>3, <1>4
  <2>2. Got(p + 27, 2, buf) = [i \in 1 .. 2 |-> file[p + 27 + i]]
    BY <2>1 DEF Got
  <2>3. Count2(n) = [i \in 1 .. 2 |-> Count2(n)[i]]
    BY <1>1, Count2Type
  <2>4. p + 27 + 1 = p + 28 /\ p + 27 + 2 = p + 29
    BY <1>2
  <2>5. \A i \in 1 .. 2 : file[p + 27 + i] = Count2(n)[i]
    BY <1>5, <2>4
  <2> QED
    BY <2>2, <2>3, <2>5
<1>9. Got(p + 28, 2, buf) = <<n % 10, Newline>>
  <2>1. \A i \in 1 .. 2 : p + 28 + i <= Len(file)
    BY <1>2, <1>3, <1>4
  <2>2. Got(p + 28, 2, buf) = [i \in 1 .. 2 |-> file[p + 28 + i]]
    BY <2>1 DEF Got
  <2>3. p + 28 + 1 = p + 29 /\ p + 28 + 2 = p + 30
    BY <1>2
  <2>4. Count2(n)[2] = n % 10
    BY <1>1 DEF Count2
  <2>5. file[p + 28 + 1] = n % 10 /\ file[p + 28 + 2] = Newline
    BY <1>5, <2>3, <2>4
  <2>6. <<n % 10, Newline>> =
           [i \in 1 .. 2 |-> <<n % 10, Newline>>[i]]
    OBVIOUS
  <2> QED
    BY <2>2, <2>5, <2>6
<1> QED
  BY <1>6, <1>7, <1>8, <1>9 DEF p, h, n

(* A write inside the file changes the bytes it covers.                    *)
LEMMA PutInside ==
    ASSUME NEW f \in Seq(Byte), NEW s \in Seq(Byte), NEW p \in Nat,
           NEW m \in Nat, NEW n \in Nat, Len(f) = m, Len(s) = n, p + n <= m
    PROVE  /\ Put(f, p, s) \in Seq(Byte)
           /\ Len(Put(f, p, s)) = m
           /\ \A i \in 1 .. m :
                 Put(f, p, s)[i] = IF p < i /\ i <= p + n THEN s[i - p]
                                   ELSE f[i]
<1> DEFINE g == SubSeq(f, 1, p)
           e == SubSeq(f, p + n + 1, m)
           x == g \o s
           y == x \o e
<1>1. \A i \in 1 .. m : f[i] \in Byte
  BY ElementOfSeq
<1>2. /\ g \in Seq(Byte) /\ Len(g) = p
      /\ \A i \in 1 .. p : g[i] = f[i]
  <2>1. \A i \in 1 .. p : f[i] \in Byte
    BY <1>1
  <2>2. /\ g \in Seq(Byte) /\ Len(g) = IF 1 <= p THEN p - 1 + 1 ELSE 0
        /\ \A i \in 1 .. p - 1 + 1 : g[i] = f[1 + i - 1]
    BY <2>1, SubSeqProperties
  <2> HIDE DEF g
  <2> QED
    BY <2>2
<1>3. /\ e \in Seq(Byte) /\ Len(e) = m - (p + n)
      /\ \A i \in 1 .. m - (p + n) : e[i] = f[p + n + i]
  <2>1. \A i \in p + n + 1 .. m : f[i] \in Byte
    BY <1>1
  <2>2. /\ e \in Seq(Byte)
        /\ Len(e) = IF p + n + 1 <= m THEN m - (p + n + 1) + 1 ELSE 0
        /\ \A i \in 1 .. m - (p + n + 1) + 1 : e[i] = f[p + n + 1 + i - 1]
    BY <2>1, SubSeqProperties
  <2> HIDE DEF e
  <2> QED
    BY <2>2
<1>4. Put(f, p, s) = y
  <2>1. Min({p, Len(f)}) = p
    BY TwoMin
  <2>2. Repeat(Nul, p - Len(f)) = << >>
    BY DEF Repeat
  <2>3. g \o << >> = g
    BY <1>2, ConcatEmptySeq
  <2>4. Put(f, p, s) = ((g \o << >>) \o s) \o e
    BY <2>1, <2>2 DEF Put
  <2> QED
    BY <2>3, <2>4
<1> HIDE DEF g, e, x, y
<1>5. /\ x \in Seq(Byte) /\ Len(x) = p + n
      /\ \A i \in 1 .. p + n : x[i] = IF i <= p THEN g[i] ELSE s[i - p]
  <2>1. /\ x \in Seq(Byte) /\ Len(x) = Len(g) + Len(s)
        /\ \A i \in 1 .. Len(g) + Len(s) :
              x[i] = IF i <= Len(g) THEN g[i] ELSE s[i - Len(g)]
    BY <1>2, Join DEF x
  <2> QED
    BY <1>2, <2>1
<1>6. /\ y \in Seq(Byte) /\ Len(y) = m
      /\ \A i \in 1 .. m : y[i] = IF i <= p + n THEN x[i] ELSE e[i - (p + n)]
  <2>1. /\ y \in Seq(Byte) /\ Len(y) = Len(x) + Len(e)
        /\ \A i \in 1 .. Len(x) + Len(e) :
              y[i] = IF i <= Len(x) THEN x[i] ELSE e[i - Len(x)]
    BY <1>3, <1>5, Join DEF y
  <2>2. Len(x) = p + n /\ Len(e) = m - (p + n) /\ p + n + (m - (p + n)) = m
    BY <1>3, <1>5
  <2> QED
    BY <2>1, <2>2
<1>7. ASSUME NEW i \in 1 .. m
      PROVE  y[i] = IF p < i /\ i <= p + n THEN s[i - p] ELSE f[i]
  <2>1. CASE i <= p
    <3>1. y[i] = x[i]
      BY <1>6, <2>1
    <3>2. x[i] = g[i]
      BY <1>5, <2>1
    <3>3. g[i] = f[i]
      BY <1>2, <2>1
    <3> QED
      BY <2>1, <3>1, <3>2, <3>3
  <2>2. CASE p < i /\ i <= p + n
    <3>1. y[i] = x[i] /\ x[i] = s[i - p]
      BY ONLY <1>5, <1>6, <2>2, p + n <= m
    <3> QED
      BY <2>2, <3>1
  <2>3. CASE i > p + n
    <3>1. i - (p + n) \in 1 .. m - (p + n) /\ p + n + (i - (p + n)) = i
      BY <2>3
    <3>2. y[i] = e[i - (p + n)] /\ e[i - (p + n)] = f[i]
      BY ONLY <1>3, <1>6, <2>3, <3>1
    <3> QED
      BY <2>3, <3>2
  <2> QED
    BY <2>1, <2>2, <2>3
<1> QED
  BY <1>4, <1>6, <1>7

(* A write at the end of the file is put behind it.                        *)
LEMMA PutJoin ==
    ASSUME NEW f, NEW s, f \in Seq(Byte), s \in Seq(Byte)
    PROVE  Put(f, Len(f), s) = f \o s
<1> DEFINE e == SubSeq(f, Len(f) + Len(s) + 1, Len(f))
           x == f \o s
<1>1. SubSeq(f, 1, Len(f)) = f
  BY SubSeqFull
<1>2. e = << >>
  BY SubSeqEmpty
<1>3. x \in Seq(Byte)
  BY Join
<1>4. Put(f, Len(f), s) = x
  <2>1. Min({Len(f), Len(f)}) = Len(f)
    BY TwoMin
  <2>2. Repeat(Nul, Len(f) - Len(f)) = << >>
    BY DEF Repeat
  <2>3. f \o << >> = f
    BY ConcatEmptySeq
  <2>4. Put(f, Len(f), s) = ((f \o << >>) \o s) \o e
    BY <1>1, <2>1, <2>2 DEF Put
  <2>5. x \o << >> = x
    BY <1>3, ConcatEmptySeq
  <2> QED
    BY <1>2, <2>3, <2>4, <2>5
<1> QED
  BY <1>4

(* There are as many lines as before.                                      *)
LEMMA SetShape ==
    ASSUME NEW L, NEW k, NEW h, NEW n,
           Len(L) \in Nat, DOMAIN L = 1 .. Len(L)
    PROVE  /\ DOMAIN SetLine(L, k, h, n) = DOMAIN L
           /\ Len(SetLine(L, k, h, n)) = Len(L)
<1> DEFINE m == Len(L)
           T == {SetLine(L, k, h, n)[i] : i \in 1 .. m}
<1>1. m \in Nat /\ DOMAIN SetLine(L, k, h, n) = 1 .. m
  BY DEF SetLine
<1>2. SetLine(L, k, h, n) = [i \in 1 .. m |-> SetLine(L, k, h, n)[i]]
  BY <1>1 DEF SetLine
<1> DEFINE M == SetLine(L, k, h, n)
<1> HIDE DEF m, M
<1>3. M \in [1 .. m -> T]
  BY ONLY <1>1, <1>2 DEF M
<1>4. Len(M) = m
  BY ONLY <1>1, <1>3
<1> QED
  BY <1>1, <1>4 DEF m, M

(* Lines that fit still do with another hash and counter on one of them.   *)
LEMMA FitsSet ==
    ASSUME NEW L, Fits(L), NEW k \in DOMAIN L, NEW h \in Hash,
           NEW n \in 0 .. 99
    PROVE  /\ Fits(SetLine(L, k, h, n))
           /\ Len(SetLine(L, k, h, n)) = Len(L)
           /\ DOMAIN SetLine(L, k, h, n) = DOMAIN L
<1> DEFINE R == [id : Nat, hash : Hash, count : 0 .. 99]
           M == SetLine(L, k, h, n)
<1>1. L \in Seq(R) /\ Len(L) <= 999 /\ \A i \in DOMAIN L : L[i].id = i
  BY DEF Fits
<1>2. [id |-> k, hash |-> h, count |-> n] \in R
  <2>1. k \in Nat
    BY ONLY Fits(L), FitsLine
  <2> QED
    BY <2>1
<1>3. M = [i \in DOMAIN L |->
              IF i = k THEN [id |-> k, hash |-> h, count |-> n] ELSE L[i]]
  BY DEF SetLine
<1>4. \A i \in DOMAIN L : M[i].id = i
  BY <1>1, <1>3
<1>5. M \in Seq(R) /\ Len(M) = Len(L) /\ DOMAIN M = DOMAIN L
  <2> HIDE DEF R, M
  <2>1. DOMAIN L = 1 .. Len(L) /\ Len(L) \in Nat
    BY <1>1
  <2>2. \A i \in 1 .. Len(L) : L[i] \in R
    BY <1>1, ElementOfSeq
  <2>3. M \in [1 .. Len(L) -> R]
    BY <1>2, <1>3, <2>1, <2>2
  <2> QED
    BY <2>1, <2>3
<1> HIDE DEF R, M
<1>6. Fits(M)
  BY <1>1, <1>4, <1>5 DEF Fits, R
<1> QED
  BY <1>5, <1>6 DEF M

(* Line k of n begins inside the file and is there completely.             *)
LEMMA LineStart ==
    ASSUME NEW n \in Nat, NEW k \in 1 .. n
    PROVE  /\ 30 * (k - 1) \in Nat
           /\ 30 * (k - 1) + 30 <= 30 * n
           /\ 30 * n \in Nat
  OBVIOUS

(* So its bytes are bytes of the file...                                   *)
LEMMA InsideLine ==
    \A a, b \in Nat : \A x \in 1 .. 30 : a + 30 <= b => a + x \in 1 .. b
  OBVIOUS

(* ... and another line has none of them.                                  *)
LEMMA OtherLine ==
    ASSUME NEW x \in Nat, NEW y \in Nat, NEW a \in Nat, NEW b \in Nat,
           NEW z \in 1 .. 30, x # y, a + b <= 30
    PROVE  ~ (/\ 30 * (x - 1) + a < 30 * (y - 1) + z
              /\ 30 * (y - 1) + z <= 30 * (x - 1) + a + b)
<1>1. CASE x < y
  BY <1>1
<1>2. CASE y < x
  BY <1>2
<1> QED
  BY <1>1, <1>2

(* A line is another one but for m bytes behind the first q.               *)
HasField(new, old, q, m, s) ==
    \A o \in 1 .. 30 :
       new[o] = IF q < o /\ o <= q + m THEN s[o - q] ELSE old[o]

(* A write into a field of line k makes the file that of the new lines.    *)
LEMMA PutField ==
    ASSUME NEW f, NEW L, Fits(L), Encodes(f, L), NEW k \in DOMAIN L,
           NEW h \in Hash, NEW n \in 0 .. 99,
           NEW s \in Seq(Byte), NEW q \in Nat, NEW m \in Nat, Len(s) = m,
           q + m <= 30,
           HasField(LineOf(k, h, n), LineOf(k, L[k].hash, L[k].count),
                    q, m, s)
    PROVE  Encodes(Put(f, 30 * (k - 1) + q, s), SetLine(L, k, h, n))
<1>1. k \in Nat /\ k \in 0 .. 999 /\ k >= 1 /\ L[k].id = k
  BY ONLY Fits(L), FitsLine
<1>2. Len(L) \in Nat /\ DOMAIN L = 1 .. Len(L)
  BY ONLY Fits(L) DEF Fits
<1> DEFINE p == 30 * (k - 1) + q
           g == Put(f, p, s)
           M == SetLine(L, k, h, n)
           old == LineOf(k, L[k].hash, L[k].count)
<1>3. f \in Seq(Byte) /\ Len(f) = 30 * Len(L)
  BY DEF Encodes
<1>4. p \in Nat /\ p + m <= 30 * Len(L)
  <2>1. /\ 30 * (k - 1) \in Nat /\ 30 * Len(L) \in Nat
        /\ 30 * (k - 1) + 30 <= 30 * Len(L)
    BY ONLY <1>2, LineStart, k \in DOMAIN L
  <2>2. \A a, b \in Nat : a + 30 <= b => a + q \in Nat /\ a + q + m <= b
    BY q + m <= 30
  <2> QED
    BY ONLY <2>1, <2>2
<1> DEFINE c == 30 * Len(L)
<1>5. /\ g \in Seq(Byte) /\ Len(g) = c
      /\ \A i \in 1 .. c :
            g[i] = IF p < i /\ i <= p + m THEN s[i - p] ELSE f[i]
  <2>1. 30 * Len(L) \in Nat
    BY <1>2
  <2>2. /\ c \in Nat /\ Len(f) = c /\ p \in Nat /\ p + m <= c
        /\ Len(s) = m /\ f \in Seq(Byte)
    BY <1>3, <1>4, <2>1
  <2> HIDE DEF p, c, g
  <2>3. /\ g \in Seq(Byte) /\ Len(g) = c
        /\ \A i \in 1 .. c :
              g[i] = IF p < i /\ i <= p + m THEN s[i - p] ELSE f[i]
    BY ONLY <2>2, s \in Seq(Byte), m \in Nat, PutInside DEF g
  <2> QED
    BY ONLY <2>3
<1>6. Len(M) = Len(L) /\ DOMAIN M = DOMAIN L
  BY ONLY <1>2, SetShape
<1>7. ASSUME NEW j \in DOMAIN L, NEW o \in 1 .. 30
      PROVE  g[30 * (j - 1) + o] = LineOf(M[j].id, M[j].hash, M[j].count)[o]
  <2> DEFINE i == 30 * (j - 1) + o
  <2>1. j \in Nat /\ k \in Nat
    <3>1. j \in Nat
      BY ONLY Fits(L), FitsLine
    <3> QED
      BY <1>1, <3>1
  <2>2. i \in 1 .. 30 * Len(L)
    <3>1. /\ 30 * (j - 1) \in Nat /\ 30 * Len(L) \in Nat
          /\ 30 * (j - 1) + 30 <= 30 * Len(L)
      BY ONLY <1>2, LineStart, j \in DOMAIN L
    <3> QED
      BY ONLY <3>1, InsideLine
  <2>3. g[i] = IF p < i /\ i <= p + m THEN s[i - p] ELSE f[i]
    BY <1>5, <2>2
  <2>4. f[i] = LineOf(L[j].id, L[j].hash, L[j].count)[o]
    BY DEF Encodes
  <2>5. CASE j = k
    <3>1. M[j] = [id |-> k, hash |-> h, count |-> n]
      BY <2>5 DEF SetLine
    <3>2. LineOf(M[j].id, M[j].hash, M[j].count)[o] = LineOf(k, h, n)[o]
      BY <3>1
    <3>3. f[i] = old[o]
      BY <1>1, <2>4, <2>5
    <3>4. /\ (p < i /\ i <= p + m) <=> (q < o /\ o <= q + m)
          /\ i - p = o - q
      <4>1. \A x \in Nat :
               LET b == 30 * (x - 1)
               IN  /\ (b + q < b + o /\ b + o <= b + q + m)
                         <=> (q < o /\ o <= q + m)
                   /\ (b + o) - (b + q) = o - q
        OBVIOUS
      <4> QED
        BY <2>1, <2>5, <4>1
    <3> HIDE DEF p, i, g, old
    <3>5. LineOf(k, h, n)[o] = IF q < o /\ o <= q + m THEN s[o - q] ELSE old[o]
      BY DEF old, HasField
    <3> QED
      BY <2>3, <3>2, <3>3, <3>4, <3>5 DEF i
  <2>6. CASE j # k
    <3>1. M[j] = L[j]
      BY <2>6 DEF SetLine
    <3>2. ~ (p < i /\ i <= p + m)
      <4> QED
        BY <2>1, <2>6, OtherLine
    <3> HIDE DEF p, i, g, M
    <3>3. g[i] = f[i]
      BY ONLY <2>3, <3>2
    <3> QED
      BY ONLY <2>4, <3>1, <3>3 DEF i
  <2> QED
    BY <2>5, <2>6
<1> HIDE DEF g, M, p
<1>8. Encodes(g, M)
  BY ONLY <1>5, <1>6, <1>7 DEF Encodes
<1> QED
  BY ONLY <1>8 DEF g, M, p

(* The hash and the counter of a line.                                     *)
LEMMA LineFields ==
    ASSUME NEW k, NEW h, NEW n, k \in 0 .. 999, h \in Hash, n \in 0 .. 99
    PROVE  /\ \A o \in 6 .. 25 : LineOf(k, h, n)[o] = h[o - 5]
           /\ \A o \in 28 .. 29 : LineOf(k, h, n)[o] = Count2(n)[o - 27]
<1> DEFINE s == LineOf(k, h, n)
<1>1. /\ \A i \in 1 .. 20 : s[5 + i] = h[i]
      /\ s[28] = Count2(n)[1] /\ s[29] = Count2(n)[2]
  BY LineBytes
<1> HIDE DEF s
<1>2. \A o \in 6 .. 25 : s[o] = h[o - 5]
  <2> TAKE o \in 6 .. 25
  <2>1. o - 5 \in 1 .. 20 /\ 5 + (o - 5) = o
    OBVIOUS
  <2> QED
    BY <1>1, <2>1
<1>3. \A o \in 28 .. 29 : s[o] = Count2(n)[o - 27]
  BY <1>1
<1> QED
  BY <1>2, <1>3 DEF s

(* Two lines with the same id have the other bytes in common.              *)
LEMMA LineRest ==
    ASSUME NEW k, NEW h, NEW n, k \in 0 .. 999, h \in Hash, n \in 0 .. 99,
           NEW g, NEW m, g \in Hash, m \in 0 .. 99
    PROVE  \A o \in 1 .. 30 :
              o \notin 6 .. 25 /\ o \notin 28 .. 29 =>
                 LineOf(k, h, n)[o] = LineOf(k, g, m)[o]
<1> DEFINE s == LineOf(k, h, n)
           r == LineOf(k, g, m)
<1>1. /\ s[1] = Id3(k)[1] /\ s[2] = Id3(k)[2] /\ s[3] = Id3(k)[3]
      /\ s[4] = Comma /\ s[5] = Space
      /\ s[26] = Comma /\ s[27] = Space /\ s[30] = Newline
  BY LineBytes
<1>2. /\ r[1] = Id3(k)[1] /\ r[2] = Id3(k)[2] /\ r[3] = Id3(k)[3]
      /\ r[4] = Comma /\ r[5] = Space
      /\ r[26] = Comma /\ r[27] = Space /\ r[30] = Newline
  BY LineBytes
<1> HIDE DEF r, s
<1>3. ASSUME NEW o \in 1 .. 30, o \notin 6 .. 25, o \notin 28 .. 29
      PROVE  s[o] = r[o]
  <2>1. o \in {1, 2, 3, 4, 5, 26, 27, 30}
    BY <1>3
  <2> QED
    BY <1>1, <1>2, <2>1
<1> QED
  BY <1>3 DEF r, s

(* The counter of line k is written.                                       *)
LEMMA PutCount ==
    ASSUME NEW f, NEW L, Fits(L), Encodes(f, L), NEW k \in DOMAIN L,
           NEW n \in 0 .. 99
    PROVE  Encodes(Put(f, 30 * (k - 1) + 27, Count2(n)),
                   SetLine(L, k, L[k].hash, n))
<1> DEFINE h == L[k].hash
           c == L[k].count
<1>1. k \in 0 .. 999 /\ h \in Hash /\ c \in 0 .. 99
  BY ONLY Fits(L), FitsLine
<1>2. Count2(n) \in Seq(Byte) /\ Len(Count2(n)) = 2
  BY Count2Type, ByteSeq
<1>3. ASSUME NEW o \in 1 .. 30
      PROVE  LineOf(k, h, n)[o] =
                IF 27 < o /\ o <= 27 + 2 THEN Count2(n)[o - 27]
                ELSE LineOf(k, h, c)[o]
  <2> HIDE DEF h, c
  <2>1. CASE o \in 28 .. 29
    <3>1. LineOf(k, h, n)[o] = Count2(n)[o - 27]
      BY <1>1, <2>1, LineFields
    <3> QED
      BY <2>1, <3>1
  <2>2. CASE o \in 6 .. 25
    <3>1. LineOf(k, h, n)[o] = h[o - 5]
      BY <1>1, <2>2, LineFields
    <3>2. LineOf(k, h, c)[o] = h[o - 5]
      BY <1>1, <2>2, LineFields
    <3> QED
      BY <2>2, <3>1, <3>2
  <2>3. CASE o \notin 28 .. 29 /\ o \notin 6 .. 25
    <3>1. LineOf(k, h, n)[o] = LineOf(k, h, c)[o]
      BY <1>1, <2>3, LineRest
    <3> QED
      BY <2>3, <3>1
  <2> QED
    BY <2>1, <2>2, <2>3
<1>4. 27 \in Nat /\ 2 \in Nat /\ 27 + 2 <= 30
  OBVIOUS
<1>5. HasField(LineOf(k, h, n), LineOf(k, h, c), 27, 2, Count2(n))
  BY ONLY <1>3 DEF HasField
<1> HIDE DEF h
<1>6. Encodes(Put(f, 30 * (k - 1) + 27, Count2(n)), SetLine(L, k, h, n))
  BY ONLY Fits(L), Encodes(f, L), <1>1, <1>2, <1>4, <1>5, PutField,
          n \in 0 .. 99 DEF h
<1> QED
  BY <1>6 DEF h

(* The hash of line k is written.                                          *)
LEMMA PutHash ==
    ASSUME NEW f, NEW L, Fits(L), Encodes(f, L), NEW k \in DOMAIN L,
           NEW h \in Hash
    PROVE  Encodes(Put(f, 30 * (k - 1) + 5, h),
                   SetLine(L, k, h, L[k].count))
<1> DEFINE g == L[k].hash
           n == L[k].count
<1>1. k \in 0 .. 999 /\ g \in Hash /\ n \in 0 .. 99
  BY ONLY Fits(L), FitsLine
<1>2. h \in Seq(Byte) /\ Len(h) = 20
  <2>1. h \in [1 .. 20 -> Byte]
    BY DEF Hash, HexDigit, Byte, Nul
  <2> QED
    BY <2>1, ByteSeq
<1>3. ASSUME NEW o \in 1 .. 30
      PROVE  LineOf(k, h, n)[o] =
                IF 5 < o /\ o <= 5 + 20 THEN h[o - 5]
                ELSE LineOf(k, g, n)[o]
  <2> HIDE DEF g, n
  <2>1. CASE o \in 6 .. 25
    <3>1. LineOf(k, h, n)[o] = h[o - 5]
      BY <1>1, <2>1, LineFields
    <3> QED
      BY <2>1, <3>1
  <2>2. CASE o \in 28 .. 29
    <3>1. LineOf(k, h, n)[o] = Count2(n)[o - 27]
      BY <1>1, <2>2, LineFields
    <3>2. LineOf(k, g, n)[o] = Count2(n)[o - 27]
      BY <1>1, <2>2, LineFields
    <3> QED
      BY <2>2, <3>1, <3>2
  <2>3. CASE o \notin 28 .. 29 /\ o \notin 6 .. 25
    <3>1. LineOf(k, h, n)[o] = LineOf(k, g, n)[o]
      BY <1>1, <2>3, LineRest
    <3> QED
      BY <2>3, <3>1
  <2> QED
    BY <2>1, <2>2, <2>3
<1>4. 5 \in Nat /\ 20 \in Nat /\ 5 + 20 <= 30
  OBVIOUS
<1>5. HasField(LineOf(k, h, n), LineOf(k, g, n), 5, 20, h)
  BY ONLY <1>3 DEF HasField
<1> HIDE DEF n
<1>6. Encodes(Put(f, 30 * (k - 1) + 5, h), SetLine(L, k, h, n))
  BY ONLY Fits(L), Encodes(f, L), <1>1, <1>2, <1>4, <1>5, PutField,
          h \in Hash DEF n
<1> QED
  BY <1>6 DEF n

(* A line after the last fits as well.                                     *)
LEMMA FitsAppend ==
    ASSUME NEW L, Fits(L), Len(L) < 999
    PROVE  LET M == Append(L, Abstract!Sentinel(Len(L) + 1))
           IN  /\ Fits(M) /\ Len(M) = Len(L) + 1 /\ DOMAIN M = 1 .. Len(L) + 1
               /\ \A i \in DOMAIN L : M[i] = L[i]
               /\ M[Len(L) + 1] = Abstract!Sentinel(Len(L) + 1)
<1> DEFINE R == [id : Nat, hash : Hash, count : 0 .. 99]
           l == Len(L)
           z == Abstract!Sentinel(l + 1)
           M == Append(L, z)
<1>1. /\ L \in Seq(R) /\ l \in Nat /\ l < 999 /\ DOMAIN L = 1 .. l
      /\ \A i \in DOMAIN L : L[i].id = i
  BY DEF Fits
<1>2. ZeroHash \in Hash
  BY DEF ZeroHash, Repeat, Hash, HexDigit
<1>3. /\ z = [id |-> l + 1, hash |-> ZeroHash, count |-> 0]
      /\ z \in R
  BY <1>1, <1>2 DEF Abstract!Sentinel
<1>4. /\ M \in Seq(R) /\ Len(M) = l + 1 /\ DOMAIN M = 1 .. l + 1
      /\ \A i \in 1 .. l : M[i] = L[i]
      /\ M[l + 1] = z
  <2> HIDE DEF R, z
  <2> QED
    BY <1>1, <1>3, AppendProperties
<1> HIDE DEF l, z, M, R
<1>5. Fits(M)
  <2>1. \A i \in DOMAIN M : M[i].id = i
    BY <1>1, <1>3, <1>4
  <2>2. Len(M) <= 999
    BY <1>1, <1>4
  <2> QED
    BY <1>4, <2>1, <2>2 DEF Fits, R
<1> QED
  BY <1>1, <1>4, <1>5 DEF l, z, M

(* A line follows the last.                                                *)
LEMMA PutNewLine ==
    ASSUME NEW f, NEW L, Fits(L), Encodes(f, L), Len(L) < 999
    PROVE  Encodes(Put(f, 30 * Len(L), NewLine(Len(L) + 1)),
                   Append(L, Abstract!Sentinel(Len(L) + 1)))
<1> DEFINE l == Len(L)
           z == Abstract!Sentinel(l + 1)
           s == NewLine(l + 1)
           M == Append(L, z)
           g == Put(f, 30 * l, s)
<1>1. l \in Nat /\ l < 999 /\ DOMAIN L = 1 .. l
  BY DEF Fits
<1>2. ZeroHash \in Hash
  BY DEF ZeroHash, Repeat, Hash, HexDigit
<1>3. z = [id |-> l + 1, hash |-> ZeroHash, count |-> 0]
  BY DEF Abstract!Sentinel
<1>4. /\ Len(M) = l + 1 /\ DOMAIN M = 1 .. l + 1
      /\ \A i \in 1 .. l : M[i] = L[i]
      /\ M[l + 1] = z
  BY <1>1, FitsAppend
<1>5. s = LineOf(z.id, z.hash, z.count)
  BY <1>3 DEF NewLine
<1>6. s \in Seq(Byte) /\ Len(s) = 30
  <2>1. \A a \in Nat : a < 999 => a + 1 \in 0 .. 999
    OBVIOUS
  <2>2. l + 1 \in 0 .. 999 /\ 0 \in 0 .. 99
    <3> HIDE DEF l
    <3> QED
      BY <1>1, <2>1
  <2> QED
    BY <1>2, <2>2, LineType DEF NewLine
<1>7. f \in Seq(Byte) /\ Len(f) = 30 * l
  BY DEF Encodes
<1> HIDE DEF l, z, s, M
<1>8. /\ g \in Seq(Byte) /\ Len(g) = 30 * l + 30
      /\ \A i \in 1 .. 30 * l : g[i] = f[i]
      /\ \A i \in 1 .. 30 : g[30 * l + i] = s[i]
  <2> DEFINE c == 30 * l
  <2>1. c \in Nat
    BY <1>1
  <2> HIDE DEF c
  <2>2. f \in Seq(Byte) /\ Len(f) = c
    BY <1>7 DEF c
  <2> DEFINE x == f \o s
  <2>3. /\ x \in Seq(Byte) /\ Len(x) = Len(f) + Len(s)
        /\ \A i \in 1 .. Len(f) + Len(s) :
              x[i] = IF i <= Len(f) THEN f[i] ELSE s[i - Len(f)]
    BY ONLY <1>6, <2>2, Join
  <2>4. Put(f, c, s) = x
    BY ONLY <1>6, <2>2, PutJoin
  <2> HIDE DEF x
  <2>5. x \in Seq(Byte) /\ Len(x) = c + 30
    BY <1>6, <2>2, <2>3
  <2>6. \A i \in 1 .. c : x[i] = f[i]
    BY <1>6, <2>1, <2>2, <2>3
  <2>7. \A i \in 1 .. 30 : x[c + i] = s[i]
    BY <1>6, <2>1, <2>2, <2>3
  <2> QED
    BY ONLY <2>4, <2>5, <2>6, <2>7 DEF c, g
<1> HIDE DEF g
<1>9. ASSUME NEW j \in DOMAIN M, NEW o \in 1 .. 30
      PROVE  g[30 * (j - 1) + o] = LineOf(M[j].id, M[j].hash, M[j].count)[o]
  <2> DEFINE i == 30 * (j - 1) + o
  <2>1. CASE j \in 1 .. l
    <3>1. 30 * (j - 1) \in Nat /\ 30 * (j - 1) + 30 <= 30 * l /\ 30 * l \in Nat
      BY <1>1, <2>1, LineStart
    <3>2. i \in 1 .. 30 * l
      BY ONLY <3>1, InsideLine, o \in 1 .. 30
    <3>3. g[i] = f[i]
      <4> HIDE DEF i
      <4> QED
        BY ONLY <1>8, <3>2
    <3>4. f[i] = LineOf(L[j].id, L[j].hash, L[j].count)[o]
      <4>1. j \in DOMAIN L
        BY <1>1, <2>1
      <4> QED
        BY ONLY Encodes(f, L), <4>1, o \in 1 .. 30 DEF Encodes
    <3> QED
      BY <1>4, <2>1, <3>3, <3>4
  <2>2. CASE j = l + 1
    <3>1. 30 * (j - 1) = 30 * l
      BY <1>1, <2>2
    <3>2. g[30 * l + o] = s[o]
      BY ONLY <1>8, o \in 1 .. 30
    <3>3. M[j] = z
      BY <1>4, <2>2
    <3> QED
      BY ONLY <1>5, <3>1, <3>2, <3>3
  <2> QED
    BY <1>1, <1>4, <2>1, <2>2
<1>10. Len(g) = 30 * Len(M)
  BY <1>1, <1>4, <1>8
<1>11. Encodes(g, M)
  BY <1>8, <1>9, <1>10 DEF Encodes
<1> QED
  BY <1>11 DEF l, z, s, M, g

(* The constants are as HashLedger assumes them.                           *)
LEMMA StoreAssumption == HL!LedgerAssumption
<1>1. HashOf \in [Contents -> {getHash(c) : c \in Contents}]
  BY LedgerFileAssumption DEF getHash
<1>2. ZeroHash \notin {getHash(c) : c \in Contents}
  BY LedgerFileAssumption DEF getHash, ZeroHash
<1> QED
  BY <1>1, <1>2 DEF HL!LedgerAssumption

(* Different texts have different hashes.                                  *)
LEMMA StoreNoCollision == HL!NoCollision
  BY LedgerFileAssumption DEF HL!NoCollision

(* LedgerInv of HashLedger, with the definitions of HashLedgerProofs.      *)
LEMMA SameInv == Abstract!LedgerInv <=> HL!LedgerInv
  BY DEF Abstract!LedgerInv, Abstract!LedgerTypeOK, Abstract!LedgerOK,
         Abstract!BlocksStored, Abstract!Line, Abstract!Counter,
         HL!LedgerInv, HL!LedgerTypeOK, HL!LedgerOK,
         HL!BlocksStored, HL!Line, HL!Counter

(* The same of the next state.                                             *)
LEMMA SameNextInv == Abstract!LedgerInv' <=> HL!LedgerInv'
  BY DEF Abstract!LedgerInv, Abstract!LedgerTypeOK, Abstract!LedgerOK,
         Abstract!BlocksStored, Abstract!Line, Abstract!Counter,
         HL!LedgerInv, HL!LedgerTypeOK, HL!LedgerOK,
         HL!BlocksStored, HL!Line, HL!Counter

(* PushBlock and RemoveBlock of HashLedger keep it.                        *)
LEMMA PushKeeps ==
    ASSUME Abstract!LedgerInv, NEW c \in Contents, NEW k \in Nat,
           Abstract!PushBlock(c, k)
    PROVE  Abstract!LedgerInv'
<1>1. HL!PushBlock(c, k)
  BY DEF Abstract!PushBlock, Abstract!ShareBlock, Abstract!NewBlock,
         Abstract!Hit, Abstract!Miss, Abstract!FirstFree, Abstract!LooksFree,
         Abstract!Bump, Abstract!CreateBlock, Abstract!AddHash,
         Abstract!Sentinel,
         HL!PushBlock, HL!ShareBlock, HL!NewBlock, HL!Hit, HL!Miss,
         HL!FirstFree, HL!LooksFree, HL!Bump, HL!CreateBlock, HL!AddHash,
         HL!Sentinel
<1>2. HL!LedgerInv
  BY SameInv
<1>3. HL!LedgerInv'
  BY <1>1, <1>2, HL!PushBlockInv, StoreAssumption, StoreNoCollision
<1> QED
  BY <1>3, SameNextInv

(* The same of RemoveBlock.                                                *)
LEMMA RemoveKeeps ==
    ASSUME Abstract!LedgerInv, NEW id \in Nat, Abstract!RemoveBlock(id)
    PROVE  Abstract!LedgerInv'
<1>1. HL!RemoveBlock(id)
  BY DEF Abstract!RemoveBlock, Abstract!DeleteBlock,
         HL!RemoveBlock, HL!DeleteBlock
<1>2. HL!LedgerInv
  BY SameInv
<1>3. HL!LedgerInv'
  BY <1>1, <1>2, HL!RemoveBlockInv, StoreAssumption, StoreNoCollision
<1> QED
  BY <1>3, SameNextInv

(* The types of the lines.                                                 *)
LEMMA LineTypes ==
    ASSUME Abstract!LedgerInv
    PROVE  /\ Len(ledger) \in Nat /\ DOMAIN ledger = 1 .. Len(ledger)
           /\ Len(ledger) > 0
           /\ \A k \in DOMAIN ledger :
                 /\ k \in 1 .. Len(ledger)
                 /\ ledger[k].hash \in {getHash(c) : c \in Contents}
                                          \cup {ZeroHash}
                 /\ ledger[k].hash = ZeroHash <=> k = Len(ledger)
           /\ \A i, k \in DOMAIN ledger :
                 ledger[i].hash = ledger[k].hash => i = k
<1> DEFINE Hashes == {getHash(c) : c \in Contents}
           R == [id : Nat, hash : Hashes \cup {ZeroHash}, count : 0 .. 99]
           l == Len(ledger)
<1>1. /\ ledger \in Seq(R)
      /\ \A k \in DOMAIN ledger : ledger[k].id = k
      /\ l > 0
      /\ \A k \in DOMAIN ledger : ledger[k].hash = ZeroHash <=> k = l
      /\ \A i, k \in DOMAIN ledger : ledger[i].hash = ledger[k].hash => i = k
  <2>1. 10 * 10 - 1 = 99
    OBVIOUS
  <2> QED
    BY <2>1 DEF Abstract!LedgerInv, Abstract!LedgerTypeOK, Abstract!LedgerOK,
                Abstract!Line, Abstract!Counter
<1>2. l \in Nat /\ DOMAIN ledger = 1 .. l
  <2> HIDE DEF R
  <2> QED
    BY <1>1
<1>3. \A k \in DOMAIN ledger : ledger[k] \in R
  <2> HIDE DEF R
  <2> QED
    BY <1>1, <1>2
<1>4. \A k \in DOMAIN ledger : ledger[k].hash \in Hashes \cup {ZeroHash}
  BY <1>3
<1> HIDE DEF R
<1> QED
  BY <1>1, <1>2, <1>4

(* Every line but the last has the hash of a text of its own.              *)
LEMMA UsedLines ==
    ASSUME Abstract!LedgerInv, NEW T, IsFiniteSet(T),
           \A k \in DOMAIN ledger :
              k < Len(ledger) => ledger[k].hash \in {getHash(c) : c \in T}
    PROVE  Len(ledger) - 1 <= Cardinality(T)
<1> DEFINE l == Len(ledger)
           S == 1 .. l - 1
           f == [k \in S |-> CHOOSE c \in T : getHash(c) = ledger[k].hash]
<1>1. l \in Nat /\ DOMAIN ledger = 1 .. l /\ l > 0
  BY LineTypes
<1>2. \A k \in S : k \in DOMAIN ledger /\ k < l
  <2>1. \A n \in Nat : \A k \in 1 .. n - 1 : k \in 1 .. n /\ k < n
    OBVIOUS
  <2> HIDE DEF l
  <2> QED
    BY ONLY <1>1, <2>1
<1>3. \A k \in S : f[k] \in T /\ getHash(f[k]) = ledger[k].hash
  BY <1>2
<1>4. f \in [S -> T]
  BY <1>3
<1>5. IsFiniteSet(S) /\ Cardinality(S) = l - 1
  <2>1. 1 \in Int /\ l - 1 \in Int
    BY <1>1
  <2> HIDE DEF l
  <2>2. IsFiniteSet(S) /\ Cardinality(S) = IF 1 > l - 1 THEN 0
                                            ELSE (l - 1) - 1 + 1
    BY ONLY <2>1, FS_Interval
  <2> QED
    BY <1>1, <2>2
<1>6. Cardinality(T) \in Nat
  BY FS_CardinalityType
<1> HIDE DEF f
<1>7. SUFFICES ASSUME ~ (l - 1 <= Cardinality(T)) PROVE FALSE
  OBVIOUS
<1>8. Cardinality(T) < Cardinality(S)
  BY <1>1, <1>5, <1>6, <1>7
<1>9. PICK x \in S, y \in S : x # y /\ f[x] = f[y]
  <2> HIDE DEF S
  <2> QED
    BY ONLY IsFiniteSet(T), <1>4, <1>5, <1>8, FS_PigeonHole
<1>10. /\ ledger[x].hash = ledger[y].hash
       /\ x \in DOMAIN ledger /\ y \in DOMAIN ledger
  BY <1>2, <1>3, <1>9
<1> QED
  BY ONLY <1>9, <1>10, LineTypes, Abstract!LedgerInv

(* The lines fit into the file, and their ids into three digits.           *)
LEMMA LedgerFits ==
    ASSUME Alone, Abstract!LedgerInv
    PROVE  /\ Fits(ledger)
           /\ Len(ledger) \in Nat /\ DOMAIN ledger = 1 .. Len(ledger)
           /\ Len(ledger) >= 1 /\ Len(ledger) <= 999
           /\ 30 * Len(ledger) <= MaxPos
<1> DEFINE Hashes == {getHash(c) : c \in Contents}
           R == [id : Nat, hash : Hashes \cup {ZeroHash}, count : 0 .. 99]
           l == Len(ledger)
<1>1. /\ ledger \in Seq(R)
      /\ \A k \in DOMAIN ledger : ledger[k].id = k
      /\ l > 0
      /\ \A k \in DOMAIN ledger : ledger[k].hash = ZeroHash <=> k = l
      /\ \A i, k \in DOMAIN ledger : ledger[i].hash = ledger[k].hash => i = k
  <2>1. 10 * 10 - 1 = 99
    OBVIOUS
  <2> QED
    BY <2>1 DEF Abstract!LedgerInv, Abstract!LedgerTypeOK, Abstract!LedgerOK,
                Abstract!Line, Abstract!Counter
<1>2. l \in Nat /\ DOMAIN ledger = 1 .. l
  <2> HIDE DEF R
  <2> QED
    BY <1>1
<1>3. \A k \in DOMAIN ledger : ledger[k] \in R
  <2> HIDE DEF R
  <2> QED
    BY <1>1, <1>2
<1>4. Hashes \cup {ZeroHash} \subseteq Hash
  BY LedgerFileAssumption
     DEF getHash, ZeroHash, Repeat, Hash, HexDigit
<1>5. IsFiniteSet(Contents) /\ Cardinality(Contents) \in Nat
      /\ Cardinality(Contents) < 999
      /\ 30 * (Cardinality(Contents) + 1) <= MaxPos
  BY FS_CardinalityType DEF Alone
<1>6. l - 1 <= Cardinality(Contents)
  <2>1. \A k \in DOMAIN ledger :
           k < l => ledger[k].hash \in {getHash(c) : c \in Contents}
    BY <1>1, <1>2, <1>3
  <2> QED
    BY <1>5, <2>1, UsedLines
<1>7. l <= 999 /\ 30 * l <= MaxPos
  BY <1>2, <1>5, <1>6, LedgerFileAssumption
<1>8. Fits(ledger)
  <2> DEFINE Q == [id : Nat, hash : Hash, count : 0 .. 99]
  <2>1. R \subseteq Q
    BY <1>4
  <2> HIDE DEF R, Q
  <2>2. ledger \in Seq(Q)
    BY <1>1, <1>2, <1>3, <2>1
  <2> QED
    BY <1>1, <1>7, <2>2 DEF Fits, Q
<1> QED
  BY <1>1, <1>2, <1>7, <1>8

(* There is room for another line when a text has none.                    *)
LEMMA LedgerRoom ==
    ASSUME Alone, Abstract!LedgerInv, NEW d \in Contents,
           Abstract!Miss(getHash(d))
    PROVE  Len(ledger) < 999 /\ 30 * (Len(ledger) + 1) <= MaxPos
<1> DEFINE T == Contents \ {d}
           l == Len(ledger)
<1>1. /\ IsFiniteSet(Contents) /\ Cardinality(Contents) \in Nat
      /\ Cardinality(Contents) < 999
      /\ 30 * (Cardinality(Contents) + 1) <= MaxPos
  BY FS_CardinalityType DEF Alone
<1>2. IsFiniteSet(T) /\ Cardinality(T) = Cardinality(Contents) - 1
  BY <1>1, FS_RemoveElement
<1>3. \A k \in DOMAIN ledger :
         k < l => ledger[k].hash \in {getHash(c) : c \in T}
  <2> SUFFICES ASSUME NEW k \in DOMAIN ledger, k < l
               PROVE  \E c \in T : ledger[k].hash = getHash(c)
    OBVIOUS
  <2>1. ledger[k].hash \in {getHash(c) : c \in Contents} \cup {ZeroHash}
        /\ (ledger[k].hash = ZeroHash <=> k = l) /\ l \in Nat
    BY LineTypes
  <2>2. k # l
    BY <2>1
  <2>3. PICK c \in Contents : ledger[k].hash = getHash(c)
    BY <2>1, <2>2
  <2>4. ledger[k].hash # getHash(d)
    BY DEF Abstract!Miss
  <2> QED
    BY <2>3, <2>4
<1>4. l - 1 <= Cardinality(T)
  BY ONLY Abstract!LedgerInv, <1>2, <1>3, UsedLines
<1>5. l \in Nat
  BY LineTypes
<1>6. MaxPos \in Nat
  BY LedgerFileAssumption
<1> DEFINE n == Cardinality(Contents)
<1>7. n \in Nat /\ n < 999 /\ 30 * (n + 1) <= MaxPos /\ l - 1 <= n - 1
  BY <1>1, <1>2, <1>4
<1> HIDE DEF n, l
<1>8. l < 999 /\ 30 * (l + 1) <= MaxPos
  BY ONLY <1>5, <1>6, <1>7
<1> QED
  BY <1>8 DEF l

(* A new counter on line k, as HashLedger writes it.                       *)
LEMMA SetCounter ==
    ASSUME NEW L, Fits(L), NEW k \in DOMAIN L, NEW n
    PROVE  [L EXCEPT ![k].count = n] = SetLine(L, k, L[k].hash, n)
<1>1. L[k] = [id |-> k, hash |-> L[k].hash, count |-> L[k].count]
  BY FitsRecord
<1>2. [L[k] EXCEPT !.count = n] = [id |-> k, hash |-> L[k].hash, count |-> n]
  BY <1>1
<1>3. [L EXCEPT ![k].count = n] =
         [i \in DOMAIN L |-> IF i = k THEN [L[k] EXCEPT !.count = n] ELSE L[i]]
  OBVIOUS
<1> QED
  BY ONLY <1>2, <1>3 DEF SetLine

(* The file is that of the ledger with another counter on line k.          *)
LEMMA PutCounter ==
    ASSUME NEW f, NEW L, Fits(L), Encodes(f, L), NEW k \in DOMAIN L,
           NEW n \in 0 .. 99
    PROVE  Encodes(Put(f, 30 * (k - 1) + 27, Count2(n)),
                   [L EXCEPT ![k].count = n])
<1> DEFINE M == SetLine(L, k, L[k].hash, n)
<1>1. [L EXCEPT ![k].count = n] = M
  BY SetCounter
<1>2. Encodes(Put(f, 30 * (k - 1) + 27, Count2(n)), M)
  BY PutCount
<1> HIDE DEF M
<1> QED
  BY ONLY <1>1, <1>2

(* A new hash and a new counter, one after the other.                      *)
LEMMA SetTwice ==
    ASSUME NEW L, NEW k \in DOMAIN L, NEW h, NEW m, NEW n
    PROVE  LET M == SetLine(L, k, h, m)
           IN  /\ SetLine(M, k, M[k].hash, n) = SetLine(L, k, h, n)
               /\ DOMAIN M = DOMAIN L /\ M[k].hash = h
  BY DEF SetLine

(* The lines that addHash leaves: line k is used, and a new last line      *)
(* follows it if it was the last.                                          *)
LEMMA AddHashIsSet ==
    ASSUME Fits(ledger), NEW k \in DOMAIN ledger, NEW h \in Hash
    PROVE  Abstract!AddHash(h, k) =
              SetLine(IF k = Len(ledger)
                      THEN Append(ledger, Abstract!Sentinel(k + 1))
                      ELSE ledger, k, h, 1)
<1> DEFINE R == [id : Nat, hash : Hash, count : 0 .. 99]
           used == [ledger EXCEPT ![k].hash = h, ![k].count = 1]
           z == Abstract!Sentinel(k + 1)
           l == Len(ledger)
<1>1. ledger[k] =
         [id |-> k, hash |-> ledger[k].hash, count |-> ledger[k].count]
  BY FitsRecord
<1>2. used = SetLine(ledger, k, h, 1)
  <2>1. used = [i \in DOMAIN ledger |->
                  IF i = k THEN [id |-> k, hash |-> h, count |-> 1]
                  ELSE ledger[i]]
    <3> DEFINE one == [ledger EXCEPT ![k].hash = h]
               y == [id |-> k, hash |-> h, count |-> 1]
    <3>1. used = [one EXCEPT ![k].count = 1]
      OBVIOUS
    <3>2. one = [i \in DOMAIN ledger |->
                   IF i = k THEN [ledger[k] EXCEPT !.hash = h] ELSE ledger[i]]
      OBVIOUS
    <3>3. [ledger[k] EXCEPT !.hash = h] =
             [id |-> k, hash |-> h, count |-> ledger[k].count]
      BY <1>1
    <3>4. [[ledger[k] EXCEPT !.hash = h] EXCEPT !.count = 1] = y
      <4>1. \A m : [[id |-> k, hash |-> h, count |-> m] EXCEPT !.count = 1] = y
        OBVIOUS
      <4> QED
        BY ONLY <3>3, <4>1, Zenon
    <3> HIDE DEF one
    <3>5. /\ DOMAIN one = DOMAIN ledger
          /\ one[k] = [ledger[k] EXCEPT !.hash = h]
          /\ \A i \in DOMAIN ledger : i # k => one[i] = ledger[i]
      BY ONLY <3>2, k \in DOMAIN ledger
    <3>6. [one EXCEPT ![k].count = 1] =
             [i \in DOMAIN one |->
                IF i = k THEN [one[k] EXCEPT !.count = 1] ELSE one[i]]
      OBVIOUS
    <3>7. [one[k] EXCEPT !.count = 1] = y
      BY ONLY <3>4, <3>5
    <3> HIDE DEF y, used
    <3>8. used = [i \in DOMAIN ledger |-> IF i = k THEN y ELSE ledger[i]]
      BY ONLY <3>1, <3>5, <3>6, <3>7
    <3> QED
      BY ONLY <3>8 DEF y
  <2> QED
    BY <2>1 DEF SetLine
<1>3. ledger[k].id = k
  BY <1>1
<1>4. Abstract!AddHash(h, k) = IF k = l THEN Append(used, z) ELSE used
  BY <1>3 DEF Abstract!AddHash
<1>5. CASE k # l
  BY <1>2, <1>4, <1>5
<1>6. CASE k = l
  <2> DEFINE M == Append(ledger, z)
  <2>1. l \in Nat /\ DOMAIN ledger = 1 .. l /\ ledger \in Seq(R) /\ k \in Nat
    <3>1. k \in Nat
      BY ONLY Fits(ledger), FitsLine
    <3> QED
      BY <3>1 DEF Fits
  <2>2. z \in R
    <3>1. ZeroHash \in Hash
      BY DEF ZeroHash, Repeat, Hash, HexDigit
    <3> QED
      BY <2>1, <3>1 DEF Abstract!Sentinel
  <2>3. /\ DOMAIN M = 1 .. l + 1 /\ M[l + 1] = z
        /\ \A i \in 1 .. l : M[i] = ledger[i]
    <3> HIDE DEF R, z
    <3> QED
      BY <2>1, <2>2, AppendProperties
  <2>4. used \in Seq(R) /\ Len(used) = l
    <3>1. Fits(used) /\ Len(used) = l
      <4>1. 1 \in 0 .. 99
        OBVIOUS
      <4> HIDE DEF used
      <4> QED
        BY ONLY Fits(ledger), k \in DOMAIN ledger, h \in Hash, <1>2, <4>1,
                FitsSet
    <3> HIDE DEF used
    <3> QED
      BY ONLY <3>1 DEF Fits
  <2>5. /\ DOMAIN Append(used, z) = 1 .. l + 1 /\ Append(used, z)[l + 1] = z
        /\ \A i \in 1 .. l : Append(used, z)[i] = used[i]
    <3> HIDE DEF R, z, used
    <3> QED
      BY <2>1, <2>2, <2>4, AppendProperties
  <2>6. Append(used, z) = [i \in 1 .. l + 1 |-> Append(used, z)[i]]
    <3> HIDE DEF R, z, used
    <3>1. Append(used, z) \in Seq(R) /\ Len(Append(used, z)) = l + 1
      BY <2>2, <2>4, AppendProperties
    <3>2. \A u \in Seq(R) : u = [i \in 1 .. Len(u) |-> u[i]]
      OBVIOUS
    <3> DEFINE u == Append(used, z)
    <3> HIDE DEF u
    <3>3. u = [i \in 1 .. Len(u) |-> u[i]] /\ Len(u) = l + 1
      BY ONLY <3>1, <3>2 DEF u
    <3> QED
      BY ONLY <3>3 DEF u
  <2>7. SetLine(M, k, h, 1) =
           [i \in 1 .. l + 1 |->
              IF i = k THEN [id |-> k, hash |-> h, count |-> 1] ELSE M[i]]
    BY <2>3 DEF SetLine
  <2>8. \A i \in 1 .. l : used[i] = IF i = k
                            THEN [id |-> k, hash |-> h, count |-> 1]
                            ELSE ledger[i]
    BY <1>2, <2>1 DEF SetLine
  <2> HIDE DEF M, used, z, R
  <2>9. \A i \in 1 .. l + 1 : i \in 1 .. l \/ i = l + 1
    BY <2>1
  <2>10. l + 1 # k
    BY <1>6, <2>1
  <2>11. \A i \in 1 .. l + 1 :
            Append(used, z)[i] = IF i = k
                                 THEN [id |-> k, hash |-> h, count |-> 1]
                                 ELSE M[i]
    BY ONLY <2>3, <2>5, <2>8, <2>9, <2>10
  <2>12. Append(used, z) = SetLine(M, k, h, 1)
    BY ONLY <2>6, <2>7, <2>11
  <2> QED
    BY ONLY <1>4, <1>6, <2>12 DEF M, z
<1> QED
  BY <1>5, <1>6

(* The lines of addHash fit, and so do those with another counter.         *)
LEMMA FitsAddHash ==
    ASSUME Fits(ledger), NEW k \in DOMAIN ledger, NEW h \in Hash,
           k = Len(ledger) => Len(ledger) < 999
    PROVE  Fits(Abstract!AddHash(h, k))
<1> DEFINE A == Abstract!AddHash(h, k)
           M == Append(ledger, Abstract!Sentinel(k + 1))
<1>1. A = SetLine(IF k = Len(ledger) THEN M ELSE ledger, k, h, 1)
  BY AddHashIsSet
<1>2. 1 \in 0 .. 99
  OBVIOUS
<1>3. CASE k # Len(ledger)
  <2>1. A = SetLine(ledger, k, h, 1)
    BY <1>1, <1>3
  <2>2. Fits(SetLine(ledger, k, h, 1))
    BY <1>2, FitsSet
  <2> QED
    BY <2>1, <2>2
<1>4. CASE k = Len(ledger)
  <2>1. A = SetLine(M, k, h, 1)
    BY <1>1, <1>4
  <2>2. Fits(M) /\ k \in DOMAIN M
    <3>1. Fits(M) /\ Len(M) = Len(ledger) + 1
      BY <1>4, FitsAppend
    <3>2. DOMAIN M = 1 .. Len(M) /\ Len(M) \in Nat
      BY ONLY <3>1 DEF Fits
    <3>3. k \in Nat /\ k >= 1
      BY ONLY Fits(ledger), k \in DOMAIN ledger, FitsLine
    <3> HIDE DEF M
    <3> QED
      BY ONLY <1>4, <3>1, <3>2, <3>3
  <2>3. Fits(SetLine(M, k, h, 1))
    <3> HIDE DEF M
    <3> QED
      BY ONLY <1>2, <2>2, FitsSet, h \in Hash
  <2> QED
    BY <2>1, <2>3
<1> QED
  BY <1>3, <1>4

(* A counter that changes keeps the lines in place.                        *)
LEMMA FitsBump ==
    ASSUME Fits(ledger), NEW k \in DOMAIN ledger, NEW n \in 0 .. 99
    PROVE  Fits([ledger EXCEPT ![k].count = n])
<1>1. ledger[k].hash \in Hash
  BY FitsLine
<1>2. Fits(SetLine(ledger, k, ledger[k].hash, n))
  BY <1>1, FitsSet
<1> QED
  BY <1>2, SetCounter

(* What addHash writes: the new last line, if line k was the last, then    *)
(* the hash and the counter of line k.                                     *)
LEMMA AddLineFile ==
    ASSUME Fits(ledger), Encodes(file, ledger), NEW k \in DOMAIN ledger,
           NEW h \in Hash, k = Len(ledger) => Len(ledger) < 999,
           NEW f, f = IF k = Len(ledger) THEN Put(file, 30 * k, NewLine(k + 1))
                      ELSE file
    PROVE  Encodes(Put(Put(f, 30 * (k - 1) + 5, h),
                       30 * (k - 1) + 27, Count2(1)),
                   Abstract!AddHash(h, k))
<1> DEFINE N == IF k = Len(ledger)
                THEN Append(ledger, Abstract!Sentinel(k + 1)) ELSE ledger
           M == SetLine(N, k, h, N[k].count)
           p == 30 * (k - 1)
<1>1. Fits(N) /\ Encodes(f, N) /\ k \in DOMAIN N
  <2>1. CASE k # Len(ledger)
    BY <2>1
  <2>2. CASE k = Len(ledger)
    <3> DEFINE A == Append(ledger, Abstract!Sentinel(k + 1))
    <3>1. Fits(A) /\ Len(A) = Len(ledger) + 1
      BY <2>2, FitsAppend
    <3>2. Encodes(Put(file, 30 * k, NewLine(k + 1)), A)
      BY <2>2, PutNewLine
    <3>3. DOMAIN A = 1 .. Len(A) /\ Len(A) \in Nat
      BY ONLY <3>1 DEF Fits
    <3>4. k \in Nat /\ k >= 1
      BY ONLY Fits(ledger), k \in DOMAIN ledger, FitsLine
    <3>5. N = A /\ f = Put(file, 30 * k, NewLine(k + 1))
      BY <2>2
    <3> HIDE DEF A, N
    <3>6. k \in DOMAIN A
      BY ONLY <2>2, <3>1, <3>3, <3>4
    <3> QED
      BY ONLY <3>1, <3>2, <3>5, <3>6
  <2> QED
    BY <2>1, <2>2
<1>2. Abstract!AddHash(h, k) = SetLine(N, k, h, 1)
  BY AddHashIsSet
<1> HIDE DEF N
<1>3. N[k].count \in 0 .. 99
  BY ONLY <1>1, FitsLine
<1>4. Encodes(Put(f, p + 5, h), M)
  BY ONLY <1>1, PutHash, h \in Hash DEF M, p
<1>5. Fits(M) /\ k \in DOMAIN M
  <2>1. Fits(M)
    BY ONLY <1>1, <1>3, FitsSet, h \in Hash DEF M
  <2>2. DOMAIN M = DOMAIN N
    BY DEF M, SetLine
  <2> QED
    BY ONLY <1>1, <2>1, <2>2
<1>6. SetLine(M, k, M[k].hash, 1) = SetLine(N, k, h, 1)
  BY ONLY <1>1, SetTwice DEF M
<1> HIDE DEF M
<1>7. 1 \in 0 .. 99
  OBVIOUS
<1>8. Encodes(Put(Put(f, p + 5, h), p + 27, Count2(1)),
              SetLine(M, k, M[k].hash, 1))
  BY ONLY <1>4, <1>5, <1>7, PutCount DEF p
<1> QED
  BY ONLY <1>2, <1>6, <1>8 DEF p

(* The digits of a hash are bytes.                                         *)
LEMMA HashBytes == Hash \subseteq [1 .. 20 -> Byte]
<1>1. HexDigit \subseteq Byte
  BY DEF HexDigit, Byte, Nul
<1> QED
  BY ONLY <1>1 DEF Hash

(* A read within line k moves the cursor by what it read.                  *)
LEMMA CursorIn ==
    ASSUME Alone, Abstract!LedgerInv, Encodes(file, ledger),
           NEW k \in DOMAIN ledger, NEW q \in Nat, NEW n \in Nat, q + n <= 30
    PROVE  /\ After(30 * (k - 1) + q, n) = 30 * (k - 1) + q + n
           /\ 30 * (k - 1) \in Nat /\ 30 * k <= MaxPos /\ k \in Nat /\ k >= 1
           /\ 30 * k = 30 * (k - 1) + 30
<1> DEFINE l == Len(ledger)
<1>1. l \in Nat /\ k \in 1 .. l /\ 30 * l <= MaxPos /\ Len(file) = 30 * l
  BY LedgerFits DEF Encodes
<1> HIDE DEF l
<1>2. MaxPos \in Nat
  BY LedgerFileAssumption
<1> DEFINE p == 30 * (k - 1)
           m == 30 * l
<1>3. p \in Nat /\ p + 30 <= m /\ m \in Nat
  BY ONLY <1>1, LineStart
<1>4. k \in Nat /\ k >= 1 /\ 30 * k = p + 30
  BY ONLY <1>1
<1> HIDE DEF p, m
<1>5. Len(file) = m /\ m <= MaxPos
  BY <1>1 DEF m
<1>6. /\ p + q \in Nat /\ Len(file) \in Nat /\ p + q + n <= Len(file)
      /\ Len(file) <= MaxPos
  BY ONLY <1>3, <1>5, q \in Nat, n \in Nat, q + n <= 30
<1>7. After(p + q, n) = p + q + n
  BY ONLY <1>2, <1>6, AfterInside, n \in Nat
<1>8. 30 * k <= MaxPos
  BY ONLY <1>2, <1>3, <1>4, <1>5
<1> QED
  BY ONLY <1>3, <1>4, <1>7, <1>8 DEF p

(* A step that leaves the history and the BL files keeps what IInv says    *)
(* of them.                                                                *)
LEMMA StoreSame ==
    ASSUME Abstract!LedgerInv, UNCHANGED <<ledger, blocks>>
    PROVE  Abstract!LedgerInv'
  BY DEF Abstract!LedgerInv, Abstract!LedgerTypeOK, Abstract!LedgerOK,
         Abstract!BlocksStored

(* With one thread IInv is about that thread.                              *)
LEMMA OneThreadNext ==
    ASSUME Alone, NEW t \in Threads,
           Abstract!LedgerInv', blocks' = BL', pos' \in 0 .. MaxPos,
           pc' \in [Threads -> Stages], loc' \in [Threads -> Loc], HeldOK',
           Where(pc[t], loc[t], pos, file)',
           pc'[t] # "block" => Encodes(file, ledger)'
    PROVE  IInv'
<1>1. \A u \in Threads : u = t
  BY DEF Alone
<1> QED
  BY <1>1 DEF IInv

(* A step in the middle of a call.                                         *)
LEMMA InCall ==
    ASSUME Alone, IInv, NEW t \in Threads, NEW s \in Stages,
           pc' = [pc EXCEPT ![t] = s],
           UNCHANGED <<BL, held, ledger, blocks>>, pos' \in 0 .. MaxPos,
           loc' \in [Threads -> Loc], Where(s, loc[t], pos, file)',
           s # "block" => Encodes(file, ledger)'
    PROVE  IInv'
<1>1. Abstract!LedgerInv'
  BY StoreSame DEF IInv
<1>2. HeldOK'
  BY DEF IInv, HeldOK
<1>3. pc' \in [Threads -> Stages] /\ pc'[t] = s
  BY DEF IInv
<1>4. blocks' = BL'
  BY DEF IInv
<1>5. Where(pc[t], loc[t], pos, file)'
  BY <1>3 DEF Where
<1> QED
  BY <1>1, <1>2, <1>3, <1>4, <1>5, OneThreadNext

(* The locals of a call with some of its fields set.                       *)
LEMMA LocType ==
    ASSUME NEW t \in Threads, NEW f \in [Threads -> Loc], NEW r \in Loc
    PROVE  /\ [f EXCEPT ![t] = r] \in [Threads -> Loc]
           /\ [f EXCEPT ![t] = r][t] = r
  OBVIOUS

(* At the beginning of a call.                                             *)
LEMMA LocalsType ==
    ASSUME NEW c \in Contents, NEW id \in 0 .. 999
    PROVE  Locals(c, id) \in Loc
<1>1. Id3(id) \in [1 .. 3 -> Byte]
  BY Id3Type
<1>2. ZeroHash \in [1 .. 20 -> Byte] /\ <<0, 0>> \in [1 .. 2 -> Byte]
  BY DEF ZeroHash, Repeat, Byte, Nul
<1> QED
  BY <1>1, <1>2 DEF Loc, Locals

(* The locals of a thread that is in no call.                              *)
LEMMA NoCallType ==
    ASSUME NEW c \in Contents
    PROVE  NoCall \in Loc
<1>1. (CHOOSE d \in Contents : TRUE) \in Contents /\ 0 \in 0 .. 999
  OBVIOUS
<1> QED
  BY ONLY <1>1, LocalsType DEF NoCall

(* What IInv says of the one thread.                                       *)
LEMMA InvFacts ==
    ASSUME Alone, IInv, NEW t \in Threads
    PROVE  /\ Abstract!LedgerInv /\ blocks = BL /\ pos \in 0 .. MaxPos
           /\ pc \in [Threads -> Stages] /\ loc \in [Threads -> Loc]
           /\ HeldOK /\ Where(pc[t], loc[t], pos, file)
           /\ pc[t] # "block" => Encodes(file, ledger)
           /\ loc[t].text \in Contents /\ loc[t] \in Loc
           /\ MaxPos \in Nat
<1>1. \A u \in Threads : u = t
  BY DEF Alone
<1>2. loc[t].text \in Contents /\ loc[t] \in Loc
  BY DEF IInv, Loc
<1> QED
  BY <1>1, <1>2, LedgerFileAssumption DEF IInv

(* compareHash measures the ledger.                                        *)
LEMMA MeasureInv ==
    ASSUME Alone, IInv, NEW t \in Threads, Measure(t)
    PROVE  IInv'
<1>1. /\ pc[t] = "measure" /\ pc' = [pc EXCEPT ![t] = "search"]
      /\ loc' = [loc EXCEPT ![t].size = Len(file)] /\ pos' = 0
      /\ UNCHANGED <<file, BL, held, ledger, blocks>>
  BY DEF Measure, Goto, done
<1>2. /\ Encodes(file, ledger) /\ loc \in [Threads -> Loc] /\ MaxPos \in Nat
      /\ Abstract!LedgerInv
  BY <1>1, InvFacts
<1>3. Len(file) = 30 * Len(ledger) /\ Len(ledger) \in Nat /\ Len(file) \in Nat
  BY <1>2, LedgerFits DEF Encodes
<1>4. loc' \in [Threads -> Loc] /\ loc'[t].size = Len(file)
  <2> DEFINE r == [loc[t] EXCEPT !.size = Len(file)]
  <2>1. r \in Loc /\ r.size = Len(file)
    BY <1>2, <1>3 DEF Loc
  <2>2. loc' = [loc EXCEPT ![t] = r]
    BY <1>1
  <2> HIDE DEF r
  <2> QED
    BY ONLY <1>2, <2>1, <2>2, LocType, t \in Threads
<1>5. AtSearch(loc[t], pos)'
  <2>1. 0 \in 0 .. Len(ledger) /\ 0 = 30 * 0 /\ 1 .. 0 = {}
    BY <1>3
  <2> QED
    BY <1>1, <1>3, <1>4, <2>1 DEF AtSearch
<1>6. Where("search", loc[t], pos, file)'
  BY <1>5 DEF Where
<1>7. Encodes(file, ledger)'
  BY <1>1, <1>2
<1> QED
  <2>1. "search" \in Stages /\ "search" # "block"
    BY DEF Stages
  <2>2. pos' \in 0 .. MaxPos
    BY <1>1, <1>2
  <2> QED
    BY ONLY Alone, IInv, <1>1, <1>4, <1>6, <1>7, <2>1, <2>2, InCall,
            t \in Threads

(* A round of compareHash reads the next line.                             *)
LEMMA SearchLineInv ==
    ASSUME Alone, IInv, NEW t \in Threads, SearchLine(t)
    PROVE  IInv'
<1> DEFINE me == loc[t]
           h == getHash(me.text)
           p == After(pos, 3) + 2
           hash == Got(p, 20, me.check_hash)
           id == Got(pos, 3, me.id_char)
           s == IF hash = h THEN "hit" ELSE "search"
<1>1. /\ pc[t] = "search" /\ pos # me.size
      /\ pc' = [pc EXCEPT ![t] = s]
      /\ loc' = [loc EXCEPT ![t].id_char = id, ![t].check_hash = hash]
      /\ pos' = Min({MaxPos, After(p, 20) + 5})
      /\ UNCHANGED <<file, BL, held, ledger, blocks>>
  BY DEF SearchLine, done
<1>2. /\ Encodes(file, ledger) /\ loc \in [Threads -> Loc] /\ MaxPos \in Nat
      /\ Abstract!LedgerInv /\ Where(pc[t], me, pos, file) /\ me \in Loc
  BY <1>1, InvFacts
<1>3. /\ Fits(ledger) /\ Len(ledger) \in Nat
      /\ DOMAIN ledger = 1 .. Len(ledger)
  BY <1>2, LedgerFits
<1>4. AtSearch(me, pos)
  BY <1>1, <1>2 DEF Where
<1>5. PICK j \in 0 .. Len(ledger) :
         pos = 30 * j /\ \A i \in 1 .. j : ledger[i].hash # h
  BY <1>4 DEF AtSearch
<1>6. me.size = 30 * Len(ledger)
  BY <1>4 DEF AtSearch
<1> DEFINE k == j + 1
<1>7. k \in DOMAIN ledger /\ k - 1 = j /\ k \in 0 .. Len(ledger)
  BY <1>1, <1>3, <1>5, <1>6
<1>8. ledger[k].hash \in Hash /\ k \in 0 .. 999
  BY ONLY <1>3, <1>7, FitsLine
<1>9. pos = 30 * (k - 1)
  BY <1>5, <1>7
<1> HIDE DEF k
<1>10. /\ After(pos, 3) = pos + 3 /\ After(pos + 5, 20) = pos + 25
       /\ pos \in Nat /\ 30 * k <= MaxPos /\ k \in Nat /\ k >= 1
       /\ 30 * k = pos + 30
  <2>1. /\ After(30 * (k - 1) + 0, 3) = 30 * (k - 1) + 0 + 3
        /\ 30 * (k - 1) \in Nat /\ 30 * k <= MaxPos /\ k \in Nat /\ k >= 1
        /\ 30 * k = 30 * (k - 1) + 30
    BY ONLY Alone, <1>2, <1>7, CursorIn, 0 \in Nat, 3 \in Nat, 0 + 3 <= 30
  <2>2. After(30 * (k - 1) + 5, 20) = 30 * (k - 1) + 5 + 20
    BY ONLY Alone, <1>2, <1>7, CursorIn, 5 \in Nat, 20 \in Nat, 5 + 20 <= 30
  <2> QED
    BY <1>9, <2>1, <2>2
<1>11. id = Id3(k) /\ hash = ledger[k].hash
  <2>1. /\ Got(pos, 3, me.id_char) = Id3(k)
        /\ Got(pos + 5, 20, me.check_hash) = ledger[k].hash
    BY ONLY <1>2, <1>3, <1>7, <1>9, GotLine
  <2>2. p = pos + 5
    BY <1>10
  <2> QED
    BY <2>1, <2>2
<1>12. pos' = 30 * k
  <2>1. p = pos + 5 /\ After(p, 20) + 5 = 30 * k
    BY <1>10
  <2>2. Min({MaxPos, 30 * k}) = 30 * k
    BY ONLY <1>2, <1>10, TwoMin
  <2> QED
    BY <1>1, <2>1, <2>2
<1>13. id \in [1 .. 3 -> Byte] /\ hash \in [1 .. 20 -> Byte]
  <2>1. Id3(k) \in [1 .. 3 -> Byte]
    BY ONLY <1>8, Id3Type
  <2>2. Hash \subseteq [1 .. 20 -> Byte]
    BY ONLY HashBytes
  <2> HIDE DEF id, hash
  <2> QED
    BY ONLY <1>8, <1>11, <2>1, <2>2
<1> HIDE DEF h, id, hash, p, s
<1>14. /\ loc' \in [Threads -> Loc] /\ loc'[t].size = me.size
       /\ loc'[t].text = me.text /\ loc'[t].id_char = id
  BY <1>1, <1>2, <1>13 DEF Loc
<1>15. Encodes(file, ledger)'
  BY <1>1, <1>2
<1>16. pos' \in 0 .. MaxPos
  BY <1>2, <1>10, <1>12
<1>17. CASE hash = h
  <2>1. ledger[k].hash = h /\ \A i \in 1 .. k - 1 : ledger[i].hash # h
    BY <1>5, <1>7, <1>11, <1>17
  <2>2. AtHit(loc[t], pos)'
    BY <1>1, <1>7, <1>11, <1>12, <1>14, <2>1 DEF AtHit, Abstract!Hit, h
  <2>3. Where("hit", loc[t], pos, file)'
    BY <2>2 DEF Where
  <2>4. "hit" \in Stages /\ pc' = [pc EXCEPT ![t] = "hit"]
    BY <1>1, <1>17 DEF s, Stages
  <2> QED
    BY ONLY Alone, IInv, t \in Threads, <1>1, <1>14, <1>15, <1>16, <2>3,
            <2>4, InCall
<1>18. CASE hash # h
  <2>1. \A i \in 1 .. k : ledger[i].hash # h
    <3>1. \A i \in 1 .. k : i \in 1 .. j \/ i = k
      BY <1>7, <1>10
    <3> QED
      BY <1>5, <1>11, <1>18, <3>1
  <2>2. AtSearch(loc[t], pos)'
    BY <1>1, <1>6, <1>7, <1>12, <1>14, <2>1 DEF AtSearch, h
  <2>3. Where("search", loc[t], pos, file)'
    BY <2>2 DEF Where
  <2>4. "search" \in Stages /\ pc' = [pc EXCEPT ![t] = "search"]
    BY <1>1, <1>18 DEF s, Stages
  <2> QED
    BY ONLY Alone, IInv, t \in Threads, <1>1, <1>14, <1>15, <1>16, <2>3,
            <2>4, InCall
<1> QED
  BY <1>17, <1>18

(* It has read all the lines.                                              *)
LEMMA NotFoundInv ==
    ASSUME Alone, IInv, NEW t \in Threads, NotFound(t)
    PROVE  IInv'
<1> DEFINE me == loc[t]
           h == getHash(me.text)
<1>1. /\ pc[t] = "search" /\ pos = me.size
      /\ pc' = [pc EXCEPT ![t] = "free"]
      /\ loc' = [loc EXCEPT ![t].isNewBlock = TRUE]
      /\ pos' = 0
      /\ UNCHANGED <<file, BL, held, ledger, blocks>>
  BY DEF NotFound, done
<1>2. /\ Encodes(file, ledger) /\ loc \in [Threads -> Loc] /\ MaxPos \in Nat
      /\ Abstract!LedgerInv /\ Where(pc[t], me, pos, file) /\ me \in Loc
  BY <1>1, InvFacts
<1>3. /\ Len(ledger) \in Nat /\ Len(ledger) >= 1
      /\ DOMAIN ledger = 1 .. Len(ledger)
  BY <1>2, LedgerFits
<1>4. AtSearch(me, pos)
  BY <1>1, <1>2 DEF Where
<1>5. PICK j \in 0 .. Len(ledger) :
         pos = 30 * j /\ \A i \in 1 .. j : ledger[i].hash # h
  BY <1>4 DEF AtSearch
<1>6. me.size = 30 * Len(ledger)
  BY <1>4 DEF AtSearch
<1>7. \A k \in DOMAIN ledger : ledger[k].hash # h
  <2>1. \A a, b \in Nat : 30 * a = 30 * b => a = b
    OBVIOUS
  <2>2. j \in Nat /\ 30 * j = 30 * Len(ledger)
    <3>1. \A n \in Nat : \A a \in 0 .. n : a \in Nat
      OBVIOUS
    <3> HIDE DEF me
    <3>2. 30 * j = 30 * Len(ledger)
      BY ONLY <1>1, <1>5, <1>6
    <3> QED
      BY ONLY <1>3, <3>1, <3>2, j \in 0 .. Len(ledger)
  <2>3. j = Len(ledger)
    BY ONLY <1>3, <2>1, <2>2
  <2> QED
    BY <1>3, <1>5, <2>3
<1> HIDE DEF h
<1>8. /\ loc' \in [Threads -> Loc] /\ loc'[t].size = me.size
      /\ loc'[t].text = me.text /\ loc'[t].isNewBlock
  BY <1>1, <1>2 DEF Loc
<1>9. AtFree(loc[t], pos)'
  <2>1. 0 \in 0 .. Len(ledger) - 1 /\ 0 = 30 * 0 /\ 1 .. 0 = {}
    BY <1>3
  <2>2. Abstract!Miss(getHash(loc[t].text))'
    BY <1>1, <1>7, <1>8 DEF Abstract!Miss, h
  <2>3. (loc[t].isNewBlock /\ loc[t].size = 30 * Len(ledger))'
    BY <1>1, <1>6, <1>8
  <2>4. (\E i \in 0 .. Len(ledger) - 1 :
           pos = 30 * i /\ \A n \in 1 .. i : ~ Abstract!LooksFree(ledger[n]))'
    BY <1>1, <2>1
  <2> QED
    BY <2>2, <2>3, <2>4 DEF AtFree
<1>10. Where("free", loc[t], pos, file)'
  BY <1>9 DEF Where
<1>11. Encodes(file, ledger)'
  BY <1>1, <1>2
<1>12. "free" \in Stages /\ "free" # "block"
  BY DEF Stages
<1>13. pos' \in 0 .. MaxPos
  BY <1>1, <1>2
<1> QED
  BY ONLY Alone, IInv, t \in Threads, <1>1, <1>8, <1>10, <1>11, <1>12,
          <1>13, InCall

(* The counter of the line it found.                                       *)
LEMMA ReadCountInv ==
    ASSUME Alone, IInv, NEW t \in Threads, ReadCount(t)
    PROVE  IInv'
<1> DEFINE me == loc[t]
           h == getHash(me.text)
           p == Seek(pos, -3)
           count == Got(p, 2, me.counter_char)
           new == (atoi(count) = 0)
<1>1. /\ pc[t] = "hit" /\ pc' = [pc EXCEPT ![t] = "bump"]
      /\ loc' = [loc EXCEPT ![t].counter_char = count, ![t].isNewBlock = new]
      /\ pos' = After(p, 2)
      /\ UNCHANGED <<file, BL, held, ledger, blocks>>
  BY DEF ReadCount, Goto, done
<1>2. /\ Encodes(file, ledger) /\ loc \in [Threads -> Loc] /\ MaxPos \in Nat
      /\ Abstract!LedgerInv /\ Where(pc[t], me, pos, file) /\ me \in Loc
  BY <1>1, InvFacts
<1>3. AtHit(me, pos)
  BY <1>1, <1>2 DEF Where
<1>4. PICK k \in DOMAIN ledger :
         /\ Abstract!Hit(h, k) /\ me.id_char = Id3(k) /\ pos = 30 * k
  BY <1>3 DEF AtHit
<1> DEFINE n == ledger[k].count
           b == 30 * (k - 1)
<1>5. Fits(ledger)
  BY <1>2, LedgerFits
<1>6. n \in 0 .. 99
  BY ONLY <1>5, FitsLine, k \in DOMAIN ledger
<1>7. /\ After(b + 27, 2) = b + 27 + 2 /\ b \in Nat
      /\ 30 * k <= MaxPos /\ 30 * k = b + 30
  BY ONLY Alone, <1>2, CursorIn, 27 \in Nat, 2 \in Nat, 27 + 2 <= 30,
          k \in DOMAIN ledger
<1>8. Got(b + 27, 2, me.counter_char) = Count2(n)
  BY ONLY <1>2, <1>5, GotLine, k \in DOMAIN ledger
<1> HIDE DEF b
<1>9. p = b + 27
  BY <1>4, <1>7 DEF Seek
<1>10. pos' = 30 * k - 1
  BY <1>1, <1>7, <1>9
<1>11. count = Count2(n)
  BY <1>8, <1>9
<1>12. count \in [1 .. 2 -> Byte] /\ new = (n = 0)
  <2>1. Count2(n) \in [1 .. 2 -> Byte]
    BY ONLY <1>6, Count2Type
  <2>2. atoi(Count2(n)) = n
    BY ONLY <1>6, AtoiCount
  <2> QED
    BY <1>11, <2>1, <2>2
<1> HIDE DEF h, count, p, new, n
<1>13. new \in BOOLEAN
  BY DEF new
<1>14. /\ loc' \in [Threads -> Loc]
       /\ loc'[t].text = me.text /\ loc'[t].id_char = me.id_char
       /\ loc'[t].counter_char = count /\ loc'[t].isNewBlock = new
  BY <1>1, <1>2, <1>12, <1>13 DEF Loc
<1>15. AtBump(loc[t], pos)'
  <2>1. /\ k \in (DOMAIN ledger)'
        /\ Abstract!Hit(getHash(loc[t].text), k)'
    BY <1>1, <1>4, <1>14 DEF Abstract!Hit, h
  <2>2. /\ (loc[t].id_char = Id3(k))'
        /\ (loc[t].counter_char = Count2(ledger[k].count))'
        /\ (pos = 30 * k - 1)'
    BY <1>1, <1>4, <1>10, <1>11, <1>14 DEF n
  <2>3. (loc[t].isNewBlock = (ledger[k].count = 0))'
    BY <1>1, <1>12, <1>14 DEF n
  <2> QED
    BY <2>1, <2>2, <2>3 DEF AtBump
<1>16. Where("bump", loc[t], pos, file)'
  BY <1>15 DEF Where
<1>17. Encodes(file, ledger)'
  BY <1>1, <1>2
<1>18. "bump" \in Stages
  BY DEF Stages
<1>19. pos' \in 0 .. MaxPos
  BY <1>2, <1>7, <1>10
<1> QED
  BY ONLY Alone, IInv, t \in Threads, <1>1, <1>14, <1>16, <1>17, <1>18,
          <1>19, InCall

(* The counter plus one is written back.                                   *)
LEMMA WriteCountInv ==
    ASSUME Alone, IInv, NEW t \in Threads, WriteCount(t)
    PROVE  IInv'
<1> DEFINE me == loc[t]
           h == getHash(me.text)
           p == Seek(pos, -2)
           g == Put(file, p, Count2(atoi(me.counter_char) + 1))
<1>1. /\ pc[t] = "bump" /\ pc' = [pc EXCEPT ![t] = "block"]
      /\ file' = g /\ pos' = p + 2
      /\ UNCHANGED <<BL, loc, held, ledger, blocks>>
  BY DEF WriteCount, Goto, done
<1>2. /\ Encodes(file, ledger) /\ loc \in [Threads -> Loc] /\ MaxPos \in Nat
      /\ Abstract!LedgerInv /\ Where(pc[t], me, pos, file) /\ me \in Loc
  BY <1>1, InvFacts
<1>3. AtBump(me, pos)
  BY <1>1, <1>2 DEF Where
<1>4. PICK k \in DOMAIN ledger :
         /\ Abstract!Hit(h, k) /\ me.id_char = Id3(k)
         /\ me.counter_char = Count2(ledger[k].count)
         /\ me.isNewBlock = (ledger[k].count = 0)
         /\ pos = 30 * k - 1
  BY <1>3 DEF AtBump
<1> DEFINE n == ledger[k].count
           m == Abstract!Bump(n)
           b == 30 * (k - 1)
<1>5. Fits(ledger)
  BY <1>2, LedgerFits
<1>6. n \in 0 .. 99
  BY ONLY <1>5, FitsLine, k \in DOMAIN ledger
<1>7. b \in Nat /\ 30 * k <= MaxPos /\ 30 * k = b + 30
  BY ONLY Alone, <1>2, CursorIn, 27 \in Nat, 2 \in Nat, 27 + 2 <= 30,
          k \in DOMAIN ledger
<1> HIDE DEF b
<1>8. p = b + 27
  BY <1>4, <1>7 DEF Seek
<1>9. Count2(atoi(me.counter_char) + 1) = Count2(m) /\ m \in 0 .. 99
  <2>1. atoi(Count2(n)) = n
    BY ONLY <1>6, AtoiCount
  <2>2. m \in 1 .. 99 /\ Count2(n + 1) = Count2(m)
    BY ONLY <1>6, Count2Bump
  <2>3. m \in 0 .. 99
    BY ONLY <2>2
  <2>4. atoi(me.counter_char) = n
    BY <1>4, <2>1
  <2> QED
    BY ONLY <2>2, <2>3, <2>4
<1> HIDE DEF m, n
<1>10. g = Put(file, b + 27, Count2(m))
  BY <1>8, <1>9
<1>11. Encodes(g, [ledger EXCEPT ![k].count = m])
  <2>1. Encodes(Put(file, 30 * (k - 1) + 27, Count2(m)),
                [ledger EXCEPT ![k].count = m])
    BY ONLY <1>2, <1>5, <1>9, PutCounter, k \in DOMAIN ledger,
       Zenon
  <2> QED
    BY ONLY <1>10, <2>1, Zenon DEF b
<1> HIDE DEF g, p
<1>12. [ledger EXCEPT ![k].count = Abstract!Bump(@)]
          = [ledger EXCEPT ![k].count = m]
  BY DEF m, n
<1>13. AtBlock(loc[t], file)'
  <2>1. Encodes(file', [ledger' EXCEPT ![k].count = Abstract!Bump(@)])
    BY <1>1, <1>11, <1>12
  <2>2. /\ k \in DOMAIN ledger' /\ loc'[t] = me
        /\ me.id_char = Id3(k)
        /\ Abstract!Hit(getHash(loc[t].text), k)'
        /\ me.isNewBlock = (ledger'[k].count = 0)
    BY <1>1, <1>4 DEF Abstract!Hit, h
  <2> QED
    BY <2>1, <2>2 DEF AtBlock
<1>14. Where("block", loc[t], pos, file)'
  BY <1>13 DEF Where
<1>15. "block" \in Stages
  BY DEF Stages
<1>16. pos' \in 0 .. MaxPos
  BY <1>1, <1>2, <1>7, <1>8
<1>17. loc' \in [Threads -> Loc]
  BY <1>1, <1>2
<1> QED
  BY ONLY Alone, IInv, t \in Threads, <1>1, <1>14, <1>15, <1>16, <1>17,
          InCall

(* A round of addHash looks at the last digit of the next line's counter.  *)
LEMMA LookFreeInv ==
    ASSUME Alone, IInv, NEW t \in Threads, LookFree(t)
    PROVE  IInv'
<1> DEFINE me == loc[t]
           h == getHash(me.text)
           p == CounterAt(pos)
           count == Got(p, 2, me.counter_char)
           id == Got(pos, 3, me.id_char)
           q == After(p, 2)
           s == IF atoi(count) = 0 THEN "add" ELSE "free"
<1>1. /\ pc[t] = "free" /\ pc' = [pc EXCEPT ![t] = s]
      /\ loc' = [loc EXCEPT ![t].id_char = id, ![t].counter_char = count,
                            ![t].cur_position = q]
      /\ pos' = q
      /\ UNCHANGED <<file, BL, held, ledger, blocks>>
  BY DEF LookFree, done
<1>2. /\ Encodes(file, ledger) /\ loc \in [Threads -> Loc] /\ MaxPos \in Nat
      /\ Abstract!LedgerInv /\ Where(pc[t], me, pos, file) /\ me \in Loc
  BY <1>1, InvFacts
<1>3. /\ Fits(ledger) /\ Len(ledger) \in Nat /\ Len(ledger) >= 1
      /\ DOMAIN ledger = 1 .. Len(ledger)
  BY <1>2, LedgerFits
<1>4. AtFree(me, pos)
  BY <1>1, <1>2 DEF Where
<1>5. /\ Abstract!Miss(h) /\ me.isNewBlock /\ me.size = 30 * Len(ledger)
  BY <1>4 DEF AtFree
<1>6. PICK j \in 0 .. Len(ledger) - 1 :
         pos = 30 * j /\ \A i \in 1 .. j : ~ Abstract!LooksFree(ledger[i])
  BY <1>4 DEF AtFree
<1> DEFINE k == j + 1
           n == ledger[k].count
<1>7. /\ k \in DOMAIN ledger /\ k - 1 = j /\ k \in Nat
      /\ \A i \in 1 .. k - 1 : i \in 1 .. j
  BY <1>3, <1>6
<1> HIDE DEF k
<1>8. n \in 0 .. 99 /\ k \in 0 .. 999
  <2>1. Fits(ledger) /\ k \in DOMAIN ledger
    BY <1>3, <1>7
  <2> QED
    BY ONLY <2>1, FitsLine
<1>9. pos = 30 * (k - 1)
  BY <1>6, <1>7
<1>10. /\ After(pos, 3) = pos + 3 /\ After(pos + 28, 2) = pos + 30
       /\ pos \in Nat /\ 30 * k <= MaxPos /\ k >= 1
       /\ 30 * k = pos + 30
  <2>1. /\ After(30 * (k - 1) + 0, 3) = 30 * (k - 1) + 0 + 3
        /\ 30 * (k - 1) \in Nat /\ 30 * k <= MaxPos /\ k >= 1
        /\ 30 * k = 30 * (k - 1) + 30
    BY ONLY Alone, <1>2, <1>7, CursorIn, 0 \in Nat, 3 \in Nat, 0 + 3 <= 30
  <2>2. After(30 * (k - 1) + 28, 2) = 30 * (k - 1) + 28 + 2
    BY ONLY Alone, <1>2, <1>7, CursorIn, 28 \in Nat, 2 \in Nat, 28 + 2 <= 30
  <2> QED
    BY <1>9, <2>1, <2>2
<1>11. p = pos + 28 /\ q = 30 * k
  BY <1>10 DEF CounterAt
<1>12. id = Id3(k) /\ count = <<n % 10, Newline>>
  <2>1. /\ Got(pos, 3, me.id_char) = Id3(k)
        /\ Got(pos + 28, 2, me.counter_char) = <<n % 10, Newline>>
    <3>1. Got(pos, 3, me.id_char) = Id3(k)
      BY ONLY <1>2, <1>3, <1>7, <1>9, GotLine
    <3>2. Got(pos + 28, 2, me.counter_char) = <<n % 10, Newline>>
      BY ONLY <1>2, <1>3, <1>7, <1>9, GotLine
    <3> QED
      BY <3>1, <3>2
  <2> QED
    BY <1>11, <2>1
<1>13. n % 10 \in Digit
  <2>1. \A x \in 0 .. 99 : x % 10 \in 0 .. 9
    OBVIOUS
  <2> QED
    BY ONLY <1>8, <2>1 DEF Digit
<1>14. atoi(count) = n % 10
  BY ONLY <1>12, <1>13, AtoiLate
<1>15. id \in [1 .. 3 -> Byte] /\ count \in [1 .. 2 -> Byte] /\ q \in Nat
  <2>1. Id3(k) \in [1 .. 3 -> Byte]
    BY ONLY <1>8, Id3Type
  <2>2. \A x, y \in Byte : <<x, y>> \in [1 .. 2 -> Byte]
    OBVIOUS
  <2>3. n % 10 \in Byte /\ Newline \in Byte
    BY ONLY <1>13 DEF Digit, Byte, Nul, Newline
  <2>4. q \in Nat
    BY ONLY <1>10, <1>11
  <2> QED
    BY ONLY <1>12, <2>1, <2>2, <2>3, <2>4
<1>16. Abstract!LooksFree(ledger[k]) <=> n % 10 = 0
  BY DEF Abstract!LooksFree
<1> HIDE DEF h, id, count, p, q, s, n
<1>17. /\ loc' \in [Threads -> Loc] /\ loc'[t].size = me.size
       /\ loc'[t].text = me.text /\ loc'[t].isNewBlock = me.isNewBlock
       /\ loc'[t].id_char = id /\ loc'[t].cur_position = q
  BY <1>1, <1>2, <1>15 DEF Loc
<1>18. Encodes(file, ledger)'
  BY <1>1, <1>2
<1>19. pos' \in 0 .. MaxPos
  BY <1>1, <1>2, <1>10, <1>11
<1>20. /\ Abstract!Miss(getHash(loc[t].text))'
       /\ (loc[t].isNewBlock /\ loc[t].size = 30 * Len(ledger))'
  BY <1>1, <1>5, <1>17 DEF Abstract!Miss, h
<1>21. CASE atoi(count) = 0
  <2>1. Abstract!FirstFree(k)
    BY <1>6, <1>7, <1>14, <1>16, <1>21 DEF Abstract!FirstFree
  <2>2. Abstract!FirstFree(k)' /\ (k \in DOMAIN ledger)'
    BY <1>1, <1>7, <2>1 DEF Abstract!FirstFree, Abstract!LooksFree
  <2>3. (/\ loc[t].id_char = Id3(k) /\ pos = 30 * k
         /\ loc[t].cur_position = 30 * k)'
    BY <1>1, <1>11, <1>12, <1>17
  <2>4. AtAdd(loc[t], pos)'
    BY <1>20, <2>2, <2>3 DEF AtAdd
  <2>5. Where("add", loc[t], pos, file)'
    BY <2>4 DEF Where
  <2>6. "add" \in Stages /\ pc' = [pc EXCEPT ![t] = "add"]
    BY <1>1, <1>21 DEF s, Stages
  <2> QED
    BY ONLY Alone, IInv, t \in Threads, <1>1, <1>17, <1>18, <1>19, <2>5,
            <2>6, InCall
<1>22. CASE atoi(count) # 0
  <2>1. ~ Abstract!LooksFree(ledger[k])
    BY <1>14, <1>16, <1>22
  <2>2. k # Len(ledger)
    <3>1. ledger[Len(ledger)].count = 0
      BY <1>2 DEF Abstract!LedgerInv, Abstract!LedgerOK
    <3> SUFFICES ASSUME k = Len(ledger) PROVE FALSE
      OBVIOUS
    <3>2. n = 0
      BY <3>1 DEF n
    <3> QED
      BY <1>16, <2>1, <3>2
  <2>3. k \in 0 .. Len(ledger) - 1
    BY <1>3, <1>7, <2>2
  <2>4. \A i \in 1 .. k : ~ Abstract!LooksFree(ledger[i])
    <3>1. \A i \in 1 .. k : i \in 1 .. j \/ i = k
      BY <1>7
    <3> QED
      BY <1>6, <2>1, <3>1
  <2>5. (\E i \in 0 .. Len(ledger) - 1 :
           pos = 30 * i /\ \A m \in 1 .. i : ~ Abstract!LooksFree(ledger[m]))'
    BY <1>1, <1>11, <2>3, <2>4 DEF Abstract!LooksFree
  <2>6. AtFree(loc[t], pos)'
    BY <1>20, <2>5 DEF AtFree
  <2>7. Where("free", loc[t], pos, file)'
    BY <2>6 DEF Where
  <2>8. "free" \in Stages /\ pc' = [pc EXCEPT ![t] = "free"]
    BY <1>1, <1>22 DEF s, Stages
  <2> QED
    BY ONLY Alone, IInv, t \in Threads, <1>1, <1>17, <1>18, <1>19, <2>7,
            <2>8, InCall
<1> QED
  BY <1>21, <1>22

(* The line is written.                                                    *)
LEMMA AddLineInv ==
    ASSUME Alone, IInv, NEW t \in Threads, AddLine(t)
    PROVE  IInv'
<1> DEFINE me == loc[t]
           h == getHash(me.text)
           p == HashAt(me.cur_position)
           f == Extended(file, me)
           g == Put(Put(f, p, h), p + 22, Count2(1))
<1>1. /\ pc[t] = "add" /\ pc' = [pc EXCEPT ![t] = "block"]
      /\ file' = g /\ pos' = p + 24
      /\ UNCHANGED <<BL, loc, held, ledger, blocks>>
  BY DEF AddLine, Goto, done
<1>2. /\ Encodes(file, ledger) /\ loc \in [Threads -> Loc] /\ MaxPos \in Nat
      /\ Abstract!LedgerInv /\ Where(pc[t], me, pos, file)
      /\ me.text \in Contents
  BY <1>1, InvFacts
<1>3. AtAdd(me, pos)
  BY <1>1, <1>2 DEF Where
<1>4. Abstract!Miss(h) /\ me.isNewBlock /\ me.size = 30 * Len(ledger)
  BY <1>3 DEF AtAdd
<1>5. PICK k \in DOMAIN ledger :
         /\ Abstract!FirstFree(k) /\ me.id_char = Id3(k)
         /\ pos = 30 * k /\ me.cur_position = 30 * k
  BY <1>3 DEF AtAdd
<1> DEFINE b == 30 * (k - 1)
<1>6. Fits(ledger) /\ Len(ledger) \in Nat
  BY <1>2, LedgerFits
<1>7. b \in Nat /\ 30 * k <= MaxPos /\ 30 * k = b + 30 /\ k \in Nat
  BY ONLY Alone, <1>2, CursorIn, 27 \in Nat, 2 \in Nat, 27 + 2 <= 30,
          k \in DOMAIN ledger
<1> HIDE DEF b
<1>8. p = b + 5 /\ p + 22 = b + 27 /\ p + 24 = b + 29
  BY <1>5, <1>7 DEF HashAt, Seek
<1>9. f = IF k = Len(ledger) THEN Put(file, 30 * k, NewLine(k + 1)) ELSE file
  <2>1. k \in 0 .. 999
    <3>1. Fits(ledger) /\ k \in DOMAIN ledger
      BY <1>6
    <3>2. k \in Nat /\ k \in 0 .. 999 /\ k >= 1
      BY ONLY <3>1, FitsLine
    <3> QED
      BY ONLY <3>2
  <2>2. atoi(me.id_char) = k
    BY <1>5, <2>1, AtoiId
  <2>3. \A x, y \in Nat : 30 * x = 30 * y <=> x = y
    OBVIOUS
  <2>4. me.cur_position = me.size <=> k = Len(ledger)
    BY ONLY <1>4, <1>5, <1>6, <1>7, <2>3
  <2> QED
    BY <1>5, <2>2, <2>4 DEF Extended
<1>10. h \in Hash
  BY <1>2, LedgerFileAssumption DEF getHash, Hash
<1>11. k = Len(ledger) => Len(ledger) < 999
  BY ONLY Alone, <1>2, <1>4, LedgerRoom
<1> HIDE DEF f
<1>12. Encodes(g, Abstract!AddHash(h, k))
  <2>1. Encodes(Put(Put(f, 30 * (k - 1) + 5, h),
                    30 * (k - 1) + 27, Count2(1)),
                Abstract!AddHash(h, k))
    BY ONLY <1>2, <1>6, <1>9, <1>10, <1>11, AddLineFile, k \in DOMAIN ledger
  <2>2. g = Put(Put(f, b + 5, h), b + 27, Count2(1))
    BY <1>8
  <2> QED
    BY ONLY <2>1, <2>2 DEF b
<1> HIDE DEF g, p
<1>13. AtBlock(loc[t], file)'
  <2>1. Abstract!AddHash(getHash(loc[t].text), k)' = Abstract!AddHash(h, k)
    BY <1>1 DEF Abstract!AddHash, h
  <2>2. Encodes(file, Abstract!AddHash(getHash(loc[t].text), k))'
    BY <1>1, <1>12, <2>1
  <2>3. /\ (k \in DOMAIN ledger)' /\ (loc[t].id_char = Id3(k))'
        /\ loc[t].isNewBlock'
        /\ Abstract!Miss(getHash(loc[t].text))' /\ Abstract!FirstFree(k)'
    BY <1>1, <1>4, <1>5
       DEF Abstract!Miss, Abstract!FirstFree, Abstract!LooksFree, h
  <2> QED
    BY <2>2, <2>3 DEF AtBlock
<1>14. Where("block", loc[t], pos, file)'
  BY <1>13 DEF Where
<1>15. "block" \in Stages
  BY DEF Stages
<1>16. pos' \in 0 .. MaxPos
  BY <1>1, <1>2, <1>7, <1>8
<1>17. loc' \in [Threads -> Loc]
  BY <1>1, <1>2
<1> QED
  BY ONLY Alone, IInv, t \in Threads, <1>1, <1>14, <1>15, <1>16, <1>17,
          InCall

(* One more id in a bag...                                                 *)
LEMMA BagAdd ==
    ASSUME NEW B, IsABag(B), NEW k
    PROVE  /\ IsABag(B (+) SetToBag({k}))
           /\ BagToSet(B (+) SetToBag({k})) = BagToSet(B) \cup {k}
           /\ BagIn(k, (B (+) SetToBag({k})) (-) B)
<1> DEFINE C == B (+) SetToBag({k})
<1>1. C = [e \in DOMAIN B \cup {k} |->
             (IF e \in DOMAIN B THEN B[e] ELSE 0) + (IF e = k THEN 1 ELSE 0)]
  BY DEF SetToBag, (+)
<1>2. \A e \in DOMAIN B : B[e] \in Nat /\ B[e] > 0
  BY DEF IsABag
<1> HIDE DEF C
<1>3. DOMAIN C = DOMAIN B \cup {k}
  BY <1>1
<1>4. \A e \in DOMAIN C : C[e] \in Nat /\ C[e] > 0
  BY <1>1, <1>2
<1>5. C \in [DOMAIN C -> {n \in Nat : n > 0}]
  BY <1>1, <1>3, <1>4
<1>6. k \in DOMAIN (C (-) B)
  <2> DEFINE D == [e \in DOMAIN C |-> IF e \in DOMAIN B THEN C[e] - B[e]
                                      ELSE C[e]]
  <2>1. D[k] > 0
    BY <1>1, <1>2, <1>3
  <2>2. C (-) B = [e \in {d \in DOMAIN D : D[d] > 0} |-> D[e]]
    BY DEF (-)
  <2> HIDE DEF D
  <2>3. k \in DOMAIN D
    BY <1>3 DEF D
  <2> QED
    BY <2>1, <2>2, <2>3
<1> QED
  BY <1>3, <1>5, <1>6 DEF IsABag, BagIn, BagToSet, C

(* ... and one less.                                                       *)
LEMMA BagDrop ==
    ASSUME NEW B, IsABag(B), NEW k
    PROVE  /\ IsABag(B (-) SetToBag({k}))
           /\ BagToSet(B (-) SetToBag({k})) \subseteq BagToSet(B)
<1> DEFINE S == SetToBag({k})
           D == [e \in DOMAIN B |-> IF e \in DOMAIN S THEN B[e] - S[e]
                                    ELSE B[e]]
           C == [e \in {d \in DOMAIN D : D[d] > 0} |-> D[e]]
<1>1. B (-) S = C
  BY DEF (-)
<1>2. \A e \in DOMAIN B : B[e] \in Nat
  BY DEF IsABag
<1>3. \A e \in DOMAIN S : S[e] = 1
  BY DEF SetToBag
<1> HIDE DEF S
<1>4. \A e \in DOMAIN B : D[e] > 0 => D[e] \in {n \in Nat : n > 0}
  BY <1>2, <1>3
<1>5. DOMAIN C \subseteq DOMAIN B /\ C \in [DOMAIN C -> {n \in Nat : n > 0}]
  BY <1>4
<1> HIDE DEF C
<1> QED
  BY <1>1, <1>5 DEF IsABag, BagToSet, S

(* The bags of ids after a change of one of them.                          *)
LEMMA HeldSet ==
    ASSUME HeldOK, NEW c \in Contents, NEW B, IsABag(B),
           held' = [held EXCEPT ![c] = B],
           BagToSet(B) \subseteq DOMAIN ledger',
           DOMAIN ledger \subseteq DOMAIN ledger'
    PROVE  HeldOK'
  BY DEF HeldOK

(* The thread writes a text...                                             *)
LEMMA PushBlockInv ==
    ASSUME Alone, IInv, NEW t \in Threads, NEW c \in Contents, PushBlock(t, c)
    PROVE  IInv'
<1>1. /\ pc[t] = "idle" /\ pc' = [pc EXCEPT ![t] = "measure"]
      /\ loc' = [loc EXCEPT ![t] = Locals(c, 0)]
      /\ UNCHANGED <<file, pos, BL, held, ledger, blocks>>
  BY DEF PushBlock, Goto, done
<1>2. /\ Encodes(file, ledger) /\ loc \in [Threads -> Loc]
      /\ pos \in 0 .. MaxPos
  BY <1>1, InvFacts
<1>3. loc' \in [Threads -> Loc]
  <2>1. Locals(c, 0) \in Loc
    BY LocalsType
  <2> QED
    BY ONLY <1>1, <1>2, <2>1, LocType, t \in Threads
<1>4. Where("measure", loc[t], pos, file)'
  BY DEF Where
<1>5. Encodes(file, ledger)' /\ pos' \in 0 .. MaxPos
  BY <1>1, <1>2
<1>6. "measure" \in Stages
  BY DEF Stages
<1> QED
  BY ONLY Alone, IInv, t \in Threads, <1>1, <1>3, <1>4, <1>5, <1>6, InCall

(* ... or drops an id of a file.                                           *)
LEMMA RemoveBlockInv ==
    ASSUME Alone, IInv, NEW t \in Threads, NEW c \in Contents, NEW id,
           RemoveBlock(t, c, id)
    PROVE  IInv'
<1>1. /\ pc[t] = "idle" /\ pc' = [pc EXCEPT ![t] = "rewind"]
      /\ BagIn(id, held[c])
      /\ held' = [held EXCEPT ![c] = @ (-) SetToBag({id})]
      /\ loc' = [loc EXCEPT ![t] = Locals(c, id)]
      /\ UNCHANGED <<file, pos, BL, ledger, blocks>>
  BY DEF RemoveBlock, Goto, done
<1>2. /\ Encodes(file, ledger) /\ loc \in [Threads -> Loc]
      /\ pos \in 0 .. MaxPos /\ HeldOK /\ Abstract!LedgerInv
      /\ pc \in [Threads -> Stages] /\ blocks = BL
  BY <1>1, InvFacts
<1>3. id \in DOMAIN ledger /\ IsABag(held[c])
      /\ BagToSet(held[c]) \subseteq DOMAIN ledger
  BY <1>1, <1>2 DEF HeldOK, BagIn
<1>4. Fits(ledger)
  BY <1>2, LedgerFits
<1>5. id \in 0 .. 999
  <2>1. id \in Nat /\ id \in 0 .. 999 /\ id >= 1
    BY ONLY <1>3, <1>4, FitsLine
  <2> QED
    BY ONLY <2>1
<1>6. loc' \in [Threads -> Loc] /\ loc'[t] = Locals(c, id)
  <2>1. Locals(c, id) \in Loc
    BY <1>5, LocalsType
  <2> QED
    BY ONLY <1>1, <1>2, <2>1, LocType, t \in Threads
<1>7. HeldOK'
  <2> DEFINE B == held[c] (-) SetToBag({id})
  <2>1. IsABag(B) /\ BagToSet(B) \subseteq DOMAIN ledger
    BY <1>3, BagDrop
  <2>2. held' = [held EXCEPT ![c] = B]
    BY <1>1
  <2> HIDE DEF B
  <2> QED
    BY <1>1, <1>2, <2>1, <2>2, HeldSet
<1>8. AtRemove(loc[t])'
  <2>1. loc'[t].id_char = Id3(id)
    BY <1>6 DEF Locals
  <2> QED
    BY <1>1, <1>3, <2>1 DEF AtRemove
<1>9. pc' \in [Threads -> Stages] /\ pc'[t] = "rewind"
  BY <1>1, <1>2 DEF Stages
<1>10. Where(pc[t], loc[t], pos, file)'
  BY <1>8, <1>9 DEF Where
<1>11. Abstract!LedgerInv'
  BY <1>1, <1>2, StoreSame
<1>12. Encodes(file, ledger)' /\ pos' \in 0 .. MaxPos /\ blocks' = BL'
  BY <1>1, <1>2
<1> QED
  BY ONLY Alone, t \in Threads, <1>6, <1>7, <1>9, <1>10, <1>11, <1>12,
          OneThreadNext

(* Its line is sought from the beginning of the file.                      *)
LEMMA RewindInv ==
    ASSUME Alone, IInv, NEW t \in Threads, Rewind(t)
    PROVE  IInv'
<1>1. /\ pc[t] = "rewind" /\ pc' = [pc EXCEPT ![t] = "skip"] /\ pos' = 0
      /\ UNCHANGED <<file, BL, loc, held, ledger, blocks>>
  BY DEF Rewind, Goto, done
<1>2. /\ Encodes(file, ledger) /\ loc \in [Threads -> Loc]
      /\ Where(pc[t], loc[t], pos, file) /\ MaxPos \in Nat
  BY <1>1, InvFacts
<1>3. AtRemove(loc[t])
  BY <1>1, <1>2 DEF Where
<1>4. AtRemove(loc[t])'
  BY <1>1, <1>3 DEF AtRemove
<1>5. Where("skip", loc[t], pos, file)'
  BY <1>1, <1>4 DEF Where
<1>6. /\ Encodes(file, ledger)' /\ pos' \in 0 .. MaxPos
      /\ loc' \in [Threads -> Loc]
  BY <1>1, <1>2
<1>7. "skip" \in Stages /\ "skip" # "block"
  BY DEF Stages
<1> QED
  BY ONLY Alone, IInv, t \in Threads, <1>1, <1>5, <1>6, <1>7, InCall

(* The counter of the line is read.                                        *)
LEMMA SkipLinesInv ==
    ASSUME Alone, IInv, NEW t \in Threads, SkipLines(t)
    PROVE  IInv'
<1> DEFINE me == loc[t]
           p == pos + 30 * Max({atoi(me.id_char) - 1, 0}) + 27
           count == Got(p, 2, me.counter_char)
<1>1. /\ pc[t] = "skip" /\ pc' = [pc EXCEPT ![t] = "drop"]
      /\ loc' = [loc EXCEPT ![t].counter_char = count]
      /\ pos' = After(p, 2)
      /\ UNCHANGED <<file, BL, held, ledger, blocks>>
  BY DEF SkipLines, Goto, done
<1>2. /\ Encodes(file, ledger) /\ loc \in [Threads -> Loc] /\ MaxPos \in Nat
      /\ Abstract!LedgerInv /\ Where(pc[t], me, pos, file)
  BY <1>1, InvFacts
<1>3. AtRemove(me) /\ pos = 0
  BY <1>1, <1>2 DEF Where
<1>4. PICK id \in DOMAIN ledger : me.id_char = Id3(id)
  BY <1>3 DEF AtRemove
<1> DEFINE n == ledger[id].count
           b == 30 * (id - 1)
<1>5. Fits(ledger)
  BY <1>2, LedgerFits
<1>6. n \in 0 .. 99 /\ id \in Nat /\ id \in 0 .. 999 /\ id >= 1
  BY ONLY <1>5, FitsLine, id \in DOMAIN ledger
<1>7. /\ After(b + 27, 2) = b + 27 + 2 /\ b \in Nat
      /\ 30 * id <= MaxPos /\ 30 * id = b + 30
  BY ONLY Alone, <1>2, CursorIn, 27 \in Nat, 2 \in Nat, 27 + 2 <= 30,
          id \in DOMAIN ledger
<1>8. Got(b + 27, 2, me.counter_char) = Count2(n)
  BY ONLY <1>2, <1>5, GotLine, id \in DOMAIN ledger
<1>9. p = b + 27
  <2>1. atoi(me.id_char) = id
    BY <1>4, <1>6, AtoiId
  <2>2. Max({id - 1, 0}) = id - 1
    <3>1. id - 1 \in Int /\ 0 \in Int /\ id - 1 >= 0
      BY ONLY <1>6
    <3> DEFINE a == id - 1
    <3> HIDE DEF a
    <3>2. Max({a, 0}) = a
      BY ONLY <3>1, TwoMax DEF a
    <3> QED
      BY ONLY <3>2 DEF a
  <2> QED
    BY <1>3, <1>6, <2>1, <2>2
<1> HIDE DEF b
<1>10. pos' = 30 * id - 1
  BY <1>1, <1>7, <1>9
<1>11. count = Count2(n) /\ count \in [1 .. 2 -> Byte]
  <2>1. Count2(n) \in [1 .. 2 -> Byte]
    BY ONLY <1>6, Count2Type
  <2> QED
    BY <1>8, <1>9, <2>1
<1> HIDE DEF count, p, n
<1>12. /\ loc' \in [Threads -> Loc] /\ loc'[t].id_char = me.id_char
       /\ loc'[t].counter_char = count
  BY <1>1, <1>2, <1>11 DEF Loc
<1>13. AtDrop(loc[t], pos)'
  BY <1>1, <1>4, <1>10, <1>11, <1>12 DEF AtDrop, n
<1>14. Where("drop", loc[t], pos, file)'
  BY <1>13 DEF Where
<1>15. Encodes(file, ledger)'
  BY <1>1, <1>2
<1>16. "drop" \in Stages
  BY DEF Stages
<1>17. pos' \in 0 .. MaxPos
  BY <1>2, <1>7, <1>10
<1> QED
  BY ONLY Alone, IInv, t \in Threads, <1>1, <1>12, <1>14, <1>15, <1>16,
          <1>17, InCall

(* addHash takes no line away.                                             *)
LEMMA AddHashDomain ==
    ASSUME Fits(ledger), NEW k \in DOMAIN ledger, NEW h \in Hash,
           k = Len(ledger) => Len(ledger) < 999
    PROVE  DOMAIN ledger \subseteq DOMAIN Abstract!AddHash(h, k)
<1> DEFINE N == IF k = Len(ledger)
                THEN Append(ledger, Abstract!Sentinel(k + 1)) ELSE ledger
<1>1. Abstract!AddHash(h, k) = SetLine(N, k, h, 1)
  BY AddHashIsSet
<1>2. DOMAIN SetLine(N, k, h, 1) = DOMAIN N
  BY DEF SetLine
<1>3. DOMAIN ledger \subseteq DOMAIN N
  <2>1. CASE k = Len(ledger)
    <3> DEFINE A == Append(ledger, Abstract!Sentinel(k + 1))
    <3>1. DOMAIN A = 1 .. Len(ledger) + 1
      BY <2>1, FitsAppend
    <3>2. DOMAIN ledger = 1 .. Len(ledger) /\ Len(ledger) \in Nat
      BY DEF Fits
    <3>3. \A n \in Nat : 1 .. n \subseteq 1 .. n + 1
      OBVIOUS
    <3> HIDE DEF A
    <3>4. DOMAIN ledger \subseteq DOMAIN A
      BY ONLY <3>1, <3>2, <3>3
    <3> QED
      BY <2>1, <3>4 DEF A
  <2>2. CASE k # Len(ledger)
    BY <2>2
  <2> QED
    BY <2>1, <2>2
<1> QED
  BY ONLY <1>1, <1>2, <1>3

(* The call ends: its lines are in the file, and the BL file follows.      *)
LEMMA CreateBlockInv ==
    ASSUME Alone, IInv, NEW t \in Threads, CreateBlock(t)
    PROVE  IInv' /\ \E k \in DOMAIN ledger : PushedAs(t, k)
<1> DEFINE me == loc[t]
           c == me.text
           h == getHash(c)
           id == atoi(me.id_char)
<1>1. /\ pc[t] = "block" /\ pc' = [pc EXCEPT ![t] = "idle"]
      /\ UNCHANGED <<file, pos>>
      /\ BL' = IF me.isNewBlock
               THEN [i \in DOMAIN BL \cup {id} |-> IF i = id THEN c ELSE BL[i]]
               ELSE BL
      /\ held' = [held EXCEPT ![c] = @ (+) SetToBag({id})]
      /\ loc' = [loc EXCEPT ![t] = NoCall]
      /\ ledger' = Lines' /\ blocks' = BL'
  BY DEF CreateBlock, Goto, Ended
<1>2. /\ loc \in [Threads -> Loc] /\ pos \in 0 .. MaxPos
      /\ HeldOK /\ Abstract!LedgerInv /\ Where(pc[t], me, pos, file)
      /\ pc \in [Threads -> Stages] /\ blocks = BL /\ c \in Contents
  BY InvFacts
<1>3. AtBlock(me, file)
  BY <1>1, <1>2 DEF Where
<1>4. PICK k \in DOMAIN ledger :
         /\ me.id_char = Id3(k)
         /\ \/ /\ Abstract!Hit(h, k)
               /\ me.isNewBlock = (ledger[k].count = 0)
               /\ Encodes(file, [ledger EXCEPT ![k].count = Abstract!Bump(@)])
            \/ /\ Abstract!Miss(h) /\ Abstract!FirstFree(k)
               /\ me.isNewBlock
               /\ Encodes(file, Abstract!AddHash(h, k))
  BY <1>3 DEF AtBlock
<1>5. Fits(ledger)
  BY <1>2, LedgerFits
<1>6. k \in Nat /\ k \in 0 .. 999 /\ k >= 1 /\ ledger[k].id = k
  BY ONLY <1>5, FitsLine, k \in DOMAIN ledger
<1>7. ledger[k].count \in 0 .. 99
  BY ONLY <1>5, FitsLine, k \in DOMAIN ledger
<1>8. id = k
  BY <1>4, <1>6, AtoiId
<1>9. h = HashOf[c]
  BY DEF getHash
<1>10. me.isNewBlock => blocks' = Abstract!CreateBlock(ledger[k].id, c)
  BY <1>1, <1>2, <1>6, <1>8 DEF Abstract!CreateBlock
<1>11. ~ me.isNewBlock => blocks' = blocks
  BY <1>1, <1>2
<1> HIDE DEF h, id
<1>12. /\ Abstract!PushBlock(c, k) /\ Encodes(file, ledger')
       /\ DOMAIN ledger \subseteq DOMAIN ledger'
  <2>1. CASE /\ Abstract!Hit(h, k)
             /\ me.isNewBlock = (ledger[k].count = 0)
             /\ Encodes(file, [ledger EXCEPT ![k].count = Abstract!Bump(@)])
    <3> DEFINE m == Abstract!Bump(ledger[k].count)
               L == [ledger EXCEPT ![k].count = m]
    <3>1. m \in 0 .. 99
      <4>1. m \in 1 .. 99
        BY ONLY <1>7, Count2Bump
      <4> HIDE DEF m
      <4> QED
        BY ONLY <4>1
    <3> HIDE DEF m
    <3>2. Fits(L) /\ DOMAIN L = DOMAIN ledger
      BY <1>5, <3>1, FitsBump
    <3>3. [ledger EXCEPT ![k].count = Abstract!Bump(@)] = L
      BY DEF m
    <3> HIDE DEF L
    <3>4. Encodes(file, L)
      BY <2>1, <3>3
    <3>5. ledger' = L
      <4>1. LinesOf(file) = L
        BY ONLY <3>2, <3>4, ReadBack
      <4> QED
        BY <1>1, <4>1 DEF Lines
    <3>6. Abstract!ShareBlock(c, k)
      BY <1>9, <1>10, <1>11, <2>1, <3>3, <3>5 DEF Abstract!ShareBlock
    <3> QED
      BY <3>2, <3>4, <3>5, <3>6 DEF Abstract!PushBlock
  <2>2. CASE /\ Abstract!Miss(h) /\ Abstract!FirstFree(k)
             /\ me.isNewBlock
             /\ Encodes(file, Abstract!AddHash(h, k))
    <3> DEFINE L == Abstract!AddHash(h, k)
    <3>1. h \in Hash
      BY <1>2, LedgerFileAssumption DEF getHash, Hash, h
    <3>2. k = Len(ledger) => Len(ledger) < 999
      BY ONLY Alone, <1>2, <2>2, LedgerRoom DEF h
    <3>3. Fits(L)
      BY ONLY <1>5, <3>1, <3>2, FitsAddHash, k \in DOMAIN ledger
    <3>4. ledger' = L
      <4>1. LinesOf(file) = L
        BY ONLY <2>2, <3>3, ReadBack
      <4> QED
        BY <1>1, <4>1 DEF Lines
    <3>5. Abstract!NewBlock(c, k)
      BY <1>9, <1>10, <2>2, <3>4 DEF Abstract!NewBlock
    <3>6. DOMAIN ledger \subseteq DOMAIN L
      BY <1>5, <3>1, <3>2, AddHashDomain
    <3> QED
      BY <2>2, <3>4, <3>5, <3>6 DEF Abstract!PushBlock
  <2> QED
    BY <1>4, <2>1, <2>2
<1>13. Abstract!LedgerInv'
  BY <1>2, <1>6, <1>12, PushKeeps
<1> DEFINE B == held[c] (+) SetToBag({k})
<1>14. /\ IsABag(held[c]) /\ BagToSet(held[c]) \subseteq DOMAIN ledger
  BY <1>2 DEF HeldOK
<1>15. /\ IsABag(B) /\ BagToSet(B) = BagToSet(held[c]) \cup {k}
       /\ BagIn(k, B (-) held[c])
  BY ONLY <1>14, BagAdd
<1>16. held' = [held EXCEPT ![c] = B]
  BY <1>1, <1>8
<1> HIDE DEF B
<1>17. HeldOK'
  BY <1>2, <1>12, <1>14, <1>15, <1>16, HeldSet
<1>18. held'[c] = B
  BY <1>2, <1>16 DEF HeldOK
<1>19. PushedAs(t, k)
  BY <1>1, <1>6, <1>12, <1>15, <1>18 DEF PushedAs
<1>20. loc' \in [Threads -> Loc]
  <2>1. NoCall \in Loc
    BY <1>2, NoCallType
  <2> QED
    BY ONLY <1>1, <1>2, <2>1, LocType, t \in Threads
<1>21. pc' \in [Threads -> Stages] /\ pc'[t] = "idle"
  BY <1>1, <1>2 DEF Stages
<1>22. Where(pc[t], loc[t], pos, file)'
  BY <1>21 DEF Where
<1>23. pos' \in 0 .. MaxPos /\ blocks' = BL' /\ Encodes(file, ledger)'
  BY <1>1, <1>2, <1>12
<1>24. IInv'
  BY ONLY Alone, t \in Threads, <1>13, <1>17, <1>20, <1>21, <1>22, <1>23,
          OneThreadNext
<1> QED
  BY <1>19, <1>24

(* The counter minus one is written, if it is not below 0, and the BL file *)
(* goes with the last use.                                                 *)
LEMMA DropBlockInv ==
    ASSUME Alone, IInv, NEW t \in Threads, DropBlock(t)
    PROVE  IInv' /\ RemovedAs(t)
<1> DEFINE me == loc[t]
           id == atoi(me.id_char)
           counter == atoi(me.counter_char) - 1
           p == Seek(pos, -2)
<1>1. /\ pc[t] = "drop" /\ pc' = [pc EXCEPT ![t] = "idle"]
      /\ IF counter >= 0
         THEN file' = Put(file, p, Count2(counter)) /\ pos' = p + 2
         ELSE UNCHANGED <<file, pos>>
      /\ BL' = IF counter = 0 THEN [i \in DOMAIN BL \ {id} |-> BL[i]] ELSE BL
      /\ loc' = [loc EXCEPT ![t] = NoCall]
      /\ ledger' = Lines' /\ blocks' = BL' /\ held' = held
  BY DEF DropBlock, Goto, Ended
<1>2. /\ loc \in [Threads -> Loc] /\ pos \in 0 .. MaxPos /\ MaxPos \in Nat
      /\ HeldOK /\ Abstract!LedgerInv /\ Where(pc[t], me, pos, file)
      /\ pc \in [Threads -> Stages] /\ blocks = BL /\ me.text \in Contents
      /\ Encodes(file, ledger)
  BY <1>1, InvFacts
<1>3. AtDrop(me, pos)
  BY <1>1, <1>2 DEF Where
<1>4. PICK k \in DOMAIN ledger :
         /\ me.id_char = Id3(k)
         /\ me.counter_char = Count2(ledger[k].count)
         /\ pos = 30 * k - 1
  BY <1>3 DEF AtDrop
<1> DEFINE n == ledger[k].count
           b == 30 * (k - 1)
<1>5. Fits(ledger)
  BY <1>2, LedgerFits
<1>6. k \in Nat /\ k \in 0 .. 999 /\ k >= 1 /\ n \in 0 .. 99
  BY ONLY <1>5, FitsLine, k \in DOMAIN ledger
<1>7. b \in Nat /\ 30 * k <= MaxPos /\ 30 * k = b + 30
  BY ONLY Alone, <1>2, CursorIn, 27 \in Nat, 2 \in Nat, 27 + 2 <= 30,
          k \in DOMAIN ledger
<1> HIDE DEF b
<1>8. p = b + 27
  BY <1>4, <1>7 DEF Seek
<1>9. id = k /\ counter = n - 1
  <2>1. id = k
    BY <1>4, <1>6, AtoiId
  <2>2. atoi(me.counter_char) = n
    BY <1>4, <1>6, AtoiCount
  <2> QED
    BY <2>1, <2>2
<1> HIDE DEF p
<1>10. /\ Encodes(file', ledger') /\ pos' \in 0 .. MaxPos
       /\ ledger' = IF n = 0 THEN ledger
                    ELSE [ledger EXCEPT ![k].count = n - 1]
  <2>1. CASE n = 0
    <3>1. file' = file /\ pos' = pos
      BY <1>1, <1>9, <2>1
    <3>2. LinesOf(file) = ledger
      BY ONLY <1>2, <1>5, ReadBack
    <3>3. ledger' = ledger
      BY <1>1, <3>1, <3>2 DEF Lines
    <3> QED
      BY <1>2, <2>1, <3>1, <3>3
  <2>2. CASE n # 0
    <3> DEFINE L == [ledger EXCEPT ![k].count = n - 1]
    <3>1. n - 1 \in 0 .. 99 /\ counter >= 0
      BY <1>6, <1>9, <2>2
    <3>2. file' = Put(file, b + 27, Count2(n - 1)) /\ pos' = b + 27 + 2
      BY <1>1, <1>8, <1>9, <3>1
    <3>3. Encodes(file', L)
      <4>1. Encodes(Put(file, 30 * (k - 1) + 27, Count2(n - 1)), L)
        BY ONLY <1>2, <1>5, <3>1, PutCounter, k \in DOMAIN ledger,
           Zenon
      <4> QED
        BY ONLY <3>2, <4>1, Zenon DEF b
    <3>4. Fits(L)
      BY ONLY <1>5, <3>1, FitsBump, k \in DOMAIN ledger, Zenon
    <3> HIDE DEF L
    <3>5. ledger' = L
      <4>1. LinesOf(file') = L
        BY ONLY <3>3, <3>4, ReadBack
      <4> QED
        BY <1>1, <4>1 DEF Lines
    <3>6. pos' \in 0 .. MaxPos
      BY <1>2, <1>7, <3>2
    <3> QED
      BY <2>2, <3>3, <3>5, <3>6 DEF L
  <2> QED
    BY <2>1, <2>2
<1>11. Abstract!RemoveBlock(k)
  <2>1. counter = 0 <=> n = 1
    <3>1. \A x \in 0 .. 99 : x - 1 = 0 <=> x = 1
      OBVIOUS
    <3> HIDE DEF n, counter
    <3> QED
      BY ONLY <1>6, <1>9, <3>1
  <2>2. blocks' = IF n = 1 THEN Abstract!DeleteBlock(k) ELSE blocks
    BY <1>1, <1>2, <1>9, <2>1 DEF Abstract!DeleteBlock
  <2> QED
    BY <1>10, <2>2 DEF Abstract!RemoveBlock
<1>12. Abstract!LedgerInv'
  BY <1>2, <1>6, <1>11, RemoveKeeps
<1>13. RemovedAs(t)
  BY <1>1, <1>9, <1>11 DEF RemovedAs
<1>14. HeldOK'
  <2>1. DOMAIN ledger' = DOMAIN ledger
    BY <1>10
  <2> QED
    BY <1>1, <1>2, <2>1 DEF HeldOK
<1>15. loc' \in [Threads -> Loc]
  <2>1. NoCall \in Loc
    BY <1>2, NoCallType
  <2> QED
    BY ONLY <1>1, <1>2, <2>1, LocType, t \in Threads
<1>16. pc' \in [Threads -> Stages] /\ pc'[t] = "idle"
  BY <1>1, <1>2 DEF Stages
<1>17. Where(pc[t], loc[t], pos, file)'
  BY <1>16 DEF Where
<1>18. blocks' = BL' /\ Encodes(file, ledger)'
  BY <1>1, <1>10
<1>19. IInv'
  BY ONLY Alone, t \in Threads, <1>10, <1>12, <1>14, <1>15, <1>16, <1>17,
          <1>18, OneThreadNext
<1> QED
  BY <1>13, <1>19

(* The first lines of bb_init, with or without writes of one text.         *)
LEMMA InitInv == Alone /\ Init => IInv
<1> SUFFICES ASSUME Alone, Init PROVE IInv
  OBVIOUS
<1> DEFINE T == [id : Nat, hash : Hash, count : 0 .. 99]
           H == {getHash(d) : d \in Contents}
<1>1. PICK c \in Contents, n \in Copies :
         /\ file = IF n = 0 THEN NewLine(1)
                   ELSE LineOf(1, getHash(c), n) \o NewLine(2)
         /\ BL = [id \in IF n = 0 THEN {} ELSE {1} |-> c]
         /\ held = [d \in Contents |->
                       IF d = c /\ n > 0 THEN [i \in {1} |-> n] ELSE EmptyBag]
  BY DEF Init
<1>2. /\ pos = Len(file) /\ pc = [t \in Threads |-> "idle"]
      /\ loc = [t \in Threads |-> NoCall]
      /\ ledger = LinesOf(file) /\ blocks = BL
  BY DEF Init, Lines
<1>3. n \in 0 .. 99 /\ MaxPos \in Nat
  BY LedgerFileAssumption
<1>4. /\ getHash(c) \in Hash /\ getHash(c) # ZeroHash /\ ZeroHash \in Hash
      /\ getHash(c) = HashOf[c]
  BY LedgerFileAssumption
     DEF getHash, Hash, ZeroHash, Repeat, HexDigit
<1>5. 60 <= MaxPos
  <2> DEFINE m == Cardinality(Contents)
  <2>1. IsFiniteSet(Contents) /\ m \in Nat /\ 30 * (m + 1) <= MaxPos
    BY FS_CardinalityType DEF Alone
  <2>2. m # 0
    BY <2>1, FS_EmptySet
  <2> HIDE DEF m
  <2> QED
    BY ONLY <1>3, <2>1, <2>2
<1> DEFINE first == [id |-> 1, hash |-> IF n = 0 THEN ZeroHash ELSE getHash(c),
                     count |-> n]
           L1 == <<first>>
           f1 == LineOf(1, first.hash, n)
<1>6. Fits(L1) /\ Len(L1) = 1 /\ DOMAIN L1 = {1} /\ L1[1] = first
  <2>1. first \in T /\ first.id = 1
    BY <1>3, <1>4
  <2> HIDE DEF first
  <2>2. L1 \in Seq(T) /\ Len(L1) = 1 /\ DOMAIN L1 = {1} /\ L1[1] = first
    BY <2>1
  <2> QED
    BY <2>1, <2>2 DEF Fits
<1>7. Encodes(f1, L1)
  <2>1. f1 \in Seq(Byte) /\ Len(f1) = 30
    <3>1. 1 \in 0 .. 999 /\ first.hash \in Hash
      BY <1>4
    <3> HIDE DEF first
    <3> QED
      BY ONLY <1>3, <3>1, LineType
  <2>2. first.id = 1 /\ first.count = n
    OBVIOUS
  <2> HIDE DEF first
  <2>3. LineOf(L1[1].id, L1[1].hash, L1[1].count) = f1
    BY <1>6, <2>2
  <2> HIDE DEF f1, L1
  <2>4. \A k \in DOMAIN L1, o \in 1 .. 30 :
           f1[30 * (k - 1) + o] = LineOf(L1[k].id, L1[k].hash, L1[k].count)[o]
    BY <1>6, <2>3
  <2>5. 30 * Len(L1) = 30
    BY ONLY <1>6
  <2> QED
    BY ONLY <2>1, <2>4, <2>5, Zenon DEF Encodes
<1> DEFINE L == IF n = 0 THEN L1 ELSE Append(L1, Abstract!Sentinel(2))
<1>8. /\ Fits(L) /\ Encodes(file, L) /\ Len(L) = IF n = 0 THEN 1 ELSE 2
      /\ L[1] = first /\ (n # 0 => L[2] = Abstract!Sentinel(2))
      /\ DOMAIN L = IF n = 0 THEN {1} ELSE {1, 2}
  <2>1. CASE n = 0
    <3>1. file = f1
      BY <1>1, <2>1 DEF NewLine
    <3> QED
      BY <1>6, <1>7, <2>1, <3>1
  <2>2. CASE n # 0
    <3>1. file = f1 \o NewLine(2)
      BY <1>1, <2>2
    <3> HIDE DEF f1, L1, first
    <3>2. Len(f1) = 30 /\ f1 \in Seq(Byte)
      BY <1>6, <1>7 DEF Encodes
    <3>3. NewLine(2) \in Seq(Byte)
      <4>1. 2 \in 0 .. 999 /\ 0 \in 0 .. 99
        OBVIOUS
      <4> QED
        BY ONLY <1>4, <4>1, LineType DEF NewLine
    <3>4. Put(f1, 30, NewLine(2)) = file
      <4>1. Put(f1, Len(f1), NewLine(2)) = f1 \o NewLine(2)
        BY ONLY <3>2, <3>3, PutJoin
      <4> QED
        BY ONLY <3>1, <3>2, <4>1
    <3>5. 30 * Len(L1) = 30 /\ Len(L1) + 1 = 2 /\ Len(L1) < 999
      BY <1>6
    <3> DEFINE A == Append(L1, Abstract!Sentinel(2))
    <3>6. /\ Fits(A) /\ Len(A) = 2 /\ DOMAIN A = 1 .. 2
          /\ A[1] = first /\ A[2] = Abstract!Sentinel(2)
      <4>1. /\ Fits(A) /\ Len(A) = Len(L1) + 1 /\ DOMAIN A = 1 .. Len(L1) + 1
            /\ \A i \in DOMAIN L1 : A[i] = L1[i]
            /\ A[Len(L1) + 1] = Abstract!Sentinel(Len(L1) + 1)
        <5> DEFINE B == Append(L1, Abstract!Sentinel(Len(L1) + 1))
        <5>1. A = B
          BY ONLY <3>5
        <5> HIDE DEF L1, A
        <5>2. /\ Fits(B) /\ Len(B) = Len(L1) + 1 /\ DOMAIN B = 1 .. Len(L1) + 1
              /\ \A i \in DOMAIN L1 : B[i] = L1[i]
              /\ B[Len(L1) + 1] = Abstract!Sentinel(Len(L1) + 1)
          BY ONLY <1>6, <3>5, FitsAppend
        <5> HIDE DEF B
        <5> QED
          BY ONLY <5>1, <5>2, Zenon
      <4> QED
        BY <1>6, <3>5, <4>1
    <3>7. Encodes(file, A)
      <4>1. Encodes(Put(f1, 30 * Len(L1), NewLine(Len(L1) + 1)),
                    Append(L1, Abstract!Sentinel(Len(L1) + 1)))
        BY ONLY <1>6, <1>7, <3>5, PutNewLine
      <4> QED
        BY ONLY <3>4, <3>5, <4>1
    <3>8. 1 .. 2 = {1, 2}
      OBVIOUS
    <3> HIDE DEF A
    <3>9. L = A
      BY <2>2 DEF A
    <3> QED
      BY <2>2, <3>6, <3>7, <3>8, <3>9
  <2> QED
    BY <2>1, <2>2
<1> HIDE DEF L1, f1, L
<1>9. ledger = L
  BY ONLY <1>2, <1>8, ReadBack
<1>10. ledger \in Seq([id : Nat, hash : H \cup {ZeroHash}, count : 0 .. 99])
  <2> DEFINE R == [id : Nat, hash : H \cup {ZeroHash}, count : 0 .. 99]
  <2>1. first \in R /\ Abstract!Sentinel(2) \in R
    <3>1. getHash(c) \in H
      OBVIOUS
    <3> HIDE DEF H
    <3> QED
      BY <1>3, <3>1 DEF Abstract!Sentinel
  <2>2. L \in Seq(T) /\ Len(L) \in Nat /\ DOMAIN L = 1 .. Len(L)
    <3>1. Fits(L)
      BY <1>8
    <3> QED
      BY ONLY <3>1 DEF Fits, T
  <2> HIDE DEF R, first
  <2>3. \A i \in 1 .. Len(L) : L[i] \in R
    BY <1>8, <2>1, <2>2
  <2>4. L = [i \in 1 .. Len(L) |-> L[i]]
    <3>1. \A u \in Seq(T) : u = [i \in 1 .. Len(u) |-> u[i]]
      OBVIOUS
    <3> HIDE DEF T
    <3> QED
      BY ONLY <2>2, <3>1
  <2>5. L \in Seq(R)
    BY ONLY <2>2, <2>3, <2>4
  <2> QED
    BY ONLY <1>9, <2>5 DEF R
<1>11. Abstract!LedgerTypeOK
  <2>1. 10 * 10 - 1 = 99
    OBVIOUS
  <2>2. DOMAIN blocks \subseteq Nat /\ blocks \in [DOMAIN blocks -> Contents]
    BY <1>1, <1>2
  <2> QED
    BY <1>10, <2>1, <2>2
       DEF Abstract!LedgerTypeOK, Abstract!Line, Abstract!Counter
<1>12. Abstract!LedgerOK
  <2>1. CASE n = 0
    <3>1. /\ Len(ledger) = 1 /\ DOMAIN ledger = {1}
          /\ ledger[1] = [id |-> 1, hash |-> ZeroHash, count |-> 0]
      BY <1>8, <1>9, <2>1
    <3> QED
      BY ONLY <3>1 DEF Abstract!LedgerOK
  <2>2. CASE n # 0
    <3>1. /\ Len(ledger) = 2 /\ DOMAIN ledger = {1, 2}
          /\ ledger[1] = [id |-> 1, hash |-> getHash(c), count |-> n]
          /\ ledger[2] = [id |-> 2, hash |-> ZeroHash, count |-> 0]
      BY <1>8, <1>9, <2>2 DEF Abstract!Sentinel
    <3> QED
      BY <1>4, <3>1 DEF Abstract!LedgerOK
  <2> QED
    BY <2>1, <2>2
<1>13. Abstract!BlocksStored
  <2>1. CASE n = 0
    BY <1>1, <1>2, <1>8, <1>9, <2>1 DEF Abstract!BlocksStored
  <2>2. CASE n # 0
    <3>1. /\ DOMAIN ledger = {1, 2} /\ n > 0
          /\ ledger[1] = [id |-> 1, hash |-> getHash(c), count |-> n]
          /\ ledger[2] = [id |-> 2, hash |-> ZeroHash, count |-> 0]
      BY <1>3, <1>8, <1>9, <2>2 DEF Abstract!Sentinel
    <3>2. DOMAIN blocks = {1} /\ blocks[1] = c
      BY <1>1, <1>2, <2>2
    <3> QED
      BY <1>4, <3>1, <3>2 DEF Abstract!BlocksStored
  <2> QED
    BY <2>1, <2>2
<1>14. HeldOK
  <2>1. DOMAIN held = Contents
    BY <1>1
  <2>2. ASSUME NEW d \in Contents
        PROVE  IsABag(held[d]) /\ BagToSet(held[d]) \subseteq DOMAIN ledger
    <3>1. CASE d = c /\ n > 0
      <4>1. held[d] = [i \in {1} |-> n] /\ 1 \in DOMAIN ledger
        BY <1>1, <1>8, <1>9, <3>1
      <4> QED
        BY <1>3, <3>1, <4>1 DEF IsABag, BagToSet
    <3>2. CASE ~ (d = c /\ n > 0)
      <4>1. held[d] = [e \in {} |-> 1]
        BY <1>1, <3>2 DEF EmptyBag, SetToBag
      <4> QED
        BY <4>1 DEF IsABag, BagToSet
    <3> QED
      BY <3>1, <3>2
  <2> QED
    BY <2>1, <2>2 DEF HeldOK
<1>15. pos \in 0 .. MaxPos
  <2>1. Len(file) = 30 * Len(L)
    BY <1>8 DEF Encodes
  <2>2. Len(file) = 30 \/ Len(file) = 60
    BY <1>8, <2>1
  <2>3. pos = 30 \/ pos = 60
    BY <1>2, <2>2
  <2> QED
    BY ONLY <1>3, <1>5, <2>3
<1>16. loc \in [Threads -> Loc] /\ pc \in [Threads -> Stages]
  BY <1>2, NoCallType DEF Stages
<1>17. \A t \in Threads : pc[t] = "idle"
  BY <1>2
<1>18. \A t \in Threads : Where(pc[t], loc[t], pos, file)
  BY <1>17 DEF Where
<1>19. Encodes(file, ledger)
  BY <1>8, <1>9
<1>20. Abstract!LedgerInv
  BY <1>11, <1>12, <1>13 DEF Abstract!LedgerInv
<1> QED
  BY ONLY <1>2, <1>14, <1>15, <1>16, <1>18, <1>19, <1>20 DEF IInv

(* Every step keeps IInv, and is a call of HashLedger that has ended or    *)
(* leaves the history.                                                     *)
LEMMA NextInv ==
    ASSUME Alone, IInv, Next
    PROVE  /\ IInv'
           /\ \/ \E t \in Threads :
                    RemovedAs(t) \/ \E k \in DOMAIN ledger : PushedAs(t, k)
              \/ UNCHANGED done
<1>1. PICK t \in Threads : Step(t) \/ Call(t)
  BY DEF Next
<1>2. CASE Measure(t)
  BY <1>2, MeasureInv DEF Measure
<1>3. CASE SearchLine(t)
  BY <1>3, SearchLineInv DEF SearchLine
<1>4. CASE NotFound(t)
  BY <1>4, NotFoundInv DEF NotFound
<1>5. CASE ReadCount(t)
  BY <1>5, ReadCountInv DEF ReadCount
<1>6. CASE WriteCount(t)
  BY <1>6, WriteCountInv DEF WriteCount
<1>7. CASE LookFree(t)
  BY <1>7, LookFreeInv DEF LookFree
<1>8. CASE AddLine(t)
  BY <1>8, AddLineInv DEF AddLine
<1>9. CASE CreateBlock(t)
  BY <1>9, CreateBlockInv
<1>10. CASE Rewind(t)
  BY <1>10, RewindInv DEF Rewind
<1>11. CASE SkipLines(t)
  BY <1>11, SkipLinesInv DEF SkipLines
<1>12. CASE DropBlock(t)
  BY <1>12, DropBlockInv
<1>13. CASE Call(t)
  <2>1. PICK c \in Contents :
           \/ PushBlock(t, c)
           \/ \E id \in BagToSet(held[c]) : RemoveBlock(t, c, id)
    BY <1>13 DEF Call
  <2>2. CASE PushBlock(t, c)
    BY <2>2, PushBlockInv DEF PushBlock
  <2>3. CASE \E id \in BagToSet(held[c]) : RemoveBlock(t, c, id)
    <3>1. PICK id : RemoveBlock(t, c, id)
      BY <2>3
    <3> QED
      BY <3>1, RemoveBlockInv DEF RemoveBlock
  <2> QED
    BY <2>1, <2>2, <2>3
<1> QED
  BY <1>1, <1>2, <1>3, <1>4, <1>5, <1>6, <1>7, <1>8, <1>9, <1>10, <1>11,
     <1>12, <1>13 DEF Step

(* A step of something else keeps it, too.                                 *)
LEMMA StutterInv ==
    ASSUME IInv, UNCHANGED vars
    PROVE  IInv'
<1>1. /\ UNCHANGED <<file, pos, BL, pc, loc, held, ledger, blocks>>
  BY DEF vars
<1>2. Abstract!LedgerInv'
  BY <1>1, StoreSame DEF IInv
<1>3. HeldOK'
  BY <1>1 DEF IInv, HeldOK
<1>4. ASSUME NEW t \in Threads
      PROVE  Where(pc[t], loc[t], pos, file)'
  <2> DEFINE me == loc[t]
             p == pos
             f == file
  <2>1. Where(pc[t], me, p, f)
    BY DEF IInv
  <2>2. me' = me /\ p' = p /\ f' = f /\ pc'[t] = pc[t] /\ ledger' = ledger
    BY <1>1
  <2> HIDE DEF me, p, f
  <2>3. /\ AtSearch(me, p) => AtSearch(me, p)'
        /\ AtHit(me, p) => AtHit(me, p)'
        /\ AtBump(me, p) => AtBump(me, p)'
    BY ONLY <2>2 DEF AtSearch, AtHit, AtBump, Abstract!Hit
  <2>4. /\ AtFree(me, p) => AtFree(me, p)'
        /\ AtAdd(me, p) => AtAdd(me, p)'
    BY ONLY <2>2
       DEF AtFree, AtAdd, Abstract!Miss, Abstract!FirstFree,
           Abstract!LooksFree
  <2>5. AtBlock(me, f) => AtBlock(me, f)'
    BY ONLY <2>2
       DEF AtBlock, Abstract!Hit, Abstract!Miss, Abstract!FirstFree,
           Abstract!LooksFree, Abstract!AddHash
  <2>6. /\ AtRemove(me) => AtRemove(me)'
        /\ AtDrop(me, p) => AtDrop(me, p)'
    BY ONLY <2>2 DEF AtRemove, AtDrop
  <2>7. Where(pc[t], me, p, f)'
    BY ONLY <2>1, <2>2, <2>3, <2>4, <2>5, <2>6, Zenon DEF Where
  <2> QED
    BY ONLY <2>7 DEF me, p, f
<1> QED
  BY <1>1, <1>2, <1>3, <1>4 DEF IInv

(* With one thread, ids of three digits and room for the lines, the        *)
(* refinement's invariant holds.                                           *)
LEMMA SpecInv == ASSUME Alone PROVE Spec => []IInv
<1>1. Init => IInv
  BY InitInv
<1>2. IInv /\ [Next]_vars => IInv'
  BY NextInv, StutterInv
<1> QED
  BY <1>1, <1>2, PTL DEF Spec

(* Whatever the thread is doing, the file is a sequence of lines that fit. *)
LEMMA AlwaysLines ==
    ASSUME Alone, IInv
    PROVE  \E L : /\ Fits(L) /\ Encodes(file, L)
                  /\ \A k \in DOMAIN L :
                        L[k].hash \in {getHash(c) : c \in Contents}
                                         \cup {ZeroHash}
<1> DEFINE H == {getHash(c) : c \in Contents} \cup {ZeroHash}
<1>1. Abstract!LedgerInv
  BY DEF IInv
<1>2. Fits(ledger) /\ \A k \in DOMAIN ledger : ledger[k].hash \in H
  BY <1>1, LedgerFits, LineTypes
<1>3. CASE \A t \in Threads : pc[t] # "block"
  BY <1>2, <1>3 DEF IInv
<1>4. CASE \E t \in Threads : pc[t] = "block"
  <2>1. PICK t \in Threads : pc[t] = "block"
    BY <1>4
  <2> DEFINE me == loc[t]
             h == getHash(me.text)
  <2>2. AtBlock(me, file) /\ me.text \in Contents
    BY <2>1, InvFacts DEF Where
  <2>3. PICK k \in DOMAIN ledger :
           \/ Encodes(file, [ledger EXCEPT ![k].count = Abstract!Bump(@)])
           \/ /\ Abstract!Miss(h)
              /\ Encodes(file, Abstract!AddHash(h, k))
    BY <2>2 DEF AtBlock
  <2>4. h \in Hash /\ h \in H
    BY <2>2, LedgerFileAssumption DEF getHash, Hash
  <2>5. CASE Encodes(file, [ledger EXCEPT ![k].count = Abstract!Bump(@)])
    <3> DEFINE m == Abstract!Bump(ledger[k].count)
               L == [ledger EXCEPT ![k].count = m]
    <3>1. m \in 0 .. 99
      <4>1. ledger[k].count \in 0 .. 99
        BY ONLY <1>2, FitsLine, k \in DOMAIN ledger
      <4>2. m \in 1 .. 99
        BY ONLY <4>1, Count2Bump
      <4> HIDE DEF m
      <4> QED
        BY ONLY <4>2
    <3> HIDE DEF m
    <3>2. Fits(L)
      BY <1>2, <3>1, FitsBump
    <3>3. /\ DOMAIN L = DOMAIN ledger
          /\ \A i \in DOMAIN L : L[i].hash = ledger[i].hash
      <4>1. L = SetLine(ledger, k, ledger[k].hash, m)
        BY <1>2, SetCounter
      <4> HIDE DEF L
      <4> QED
        BY <4>1 DEF SetLine
    <3>4. [ledger EXCEPT ![k].count = Abstract!Bump(@)] = L
      BY DEF m
    <3> HIDE DEF L
    <3>5. Encodes(file, L)
      BY <2>5, <3>4
    <3> QED
      BY <1>2, <3>2, <3>3, <3>5
  <2>6. CASE Abstract!Miss(h) /\ Encodes(file, Abstract!AddHash(h, k))
    <3> DEFINE A == Append(ledger, Abstract!Sentinel(k + 1))
               N == IF k = Len(ledger) THEN A ELSE ledger
               L == Abstract!AddHash(h, k)
    <3>1. k = Len(ledger) => Len(ledger) < 999
      BY ONLY Alone, <1>1, <2>2, <2>6, LedgerRoom
    <3>2. Fits(L)
      BY ONLY <1>2, <2>4, <3>1, FitsAddHash, k \in DOMAIN ledger
    <3>3. L = SetLine(N, k, h, 1)
      BY ONLY <1>2, <2>4, AddHashIsSet, k \in DOMAIN ledger
    <3>4. \A i \in DOMAIN N : N[i].hash \in H
      <4>1. CASE k = Len(ledger)
        <5>1. /\ DOMAIN A = 1 .. Len(ledger) + 1
              /\ \A i \in DOMAIN ledger : A[i] = ledger[i]
              /\ A[Len(ledger) + 1] = Abstract!Sentinel(k + 1)
          BY ONLY <1>2, <3>1, <4>1, FitsAppend
        <5>2. Len(ledger) \in Nat /\ DOMAIN ledger = 1 .. Len(ledger)
          BY ONLY <1>2 DEF Fits
        <5>3. \A n \in Nat : \A i \in 1 .. n + 1 : i \in 1 .. n \/ i = n + 1
          OBVIOUS
        <5>4. Abstract!Sentinel(k + 1).hash = ZeroHash
          BY DEF Abstract!Sentinel
        <5> HIDE DEF A
        <5>5. ASSUME NEW i \in DOMAIN A PROVE A[i].hash \in H
          <6>1. i \in DOMAIN ledger \/ i = Len(ledger) + 1
            BY ONLY <5>1, <5>2, <5>3, i \in DOMAIN A
          <6> QED
            BY <1>2, <5>1, <5>4, <6>1
        <5> QED
          BY <4>1, <5>5
      <4>2. CASE k # Len(ledger)
        BY <1>2, <4>2
      <4> QED
        BY <4>1, <4>2
    <3> HIDE DEF N, L
    <3>5. \A i \in DOMAIN L : L[i].hash \in H
      <4> HIDE DEF h, H
      <4> QED
        BY <2>4, <3>3, <3>4 DEF SetLine
    <3>6. Encodes(file, L)
      BY <2>6 DEF L
    <3> QED
      BY <3>2, <3>5, <3>6
  <2> QED
    BY <2>3, <2>5, <2>6
<1> QED
  BY <1>3, <1>4

(* The bytes of the ledger read back as what they are.  With one thread,   *)
(* whatever its fseek, fread and fwrite calls have done so far, the file   *)
(* is a sequence of whole lines, each the text of the id, the hash and the *)
(* counter that atoi and the search find in it, and the hash of each is    *)
(* that of a text or of an unused line.                                    *)
THEOREM LedgerFileTypes == ASSUME Alone PROVE Spec => []TypeOK
<1>1. IInv => TypeOK
  <2> SUFFICES ASSUME IInv PROVE TypeOK
    OBVIOUS
  <2>1. PICK L : /\ Fits(L) /\ Encodes(file, L)
                 /\ \A k \in DOMAIN L :
                       L[k].hash \in {getHash(c) : c \in Contents}
                                        \cup {ZeroHash}
    BY AlwaysLines
  <2>2. /\ LinesOf(file) = L /\ Len(file) % 30 = 0
        /\ \A k \in DOMAIN L :
              Bytes(file, k, 1, 30) = LineOf(L[k].id, L[k].hash, L[k].count)
    BY ONLY <2>1, ReadBack
  <2>3. Lines = L
    BY <2>2 DEF Lines
  <2>4. /\ pos \in 0 .. MaxPos
        /\ DOMAIN pc = Threads /\ DOMAIN loc = Threads
        /\ \A c \in Contents : IsABag(held[c])
    BY DEF IInv, HeldOK
  <2>5. BL \in [DOMAIN BL -> Contents]
    BY DEF IInv, Abstract!LedgerInv, Abstract!LedgerTypeOK
  <2> QED
    BY ONLY <2>1, <2>2, <2>3, <2>4, <2>5 DEF TypeOK
<1> QED
  BY <1>1, SpecInv, PTL

(* The calls are those of HashLedger.  With one thread, from the end of a  *)
(* call to the end of the next the lines in the file and the BL files      *)
(* change as PushBlock or RemoveBlock of HashLedger say: every seek of     *)
(* compareHash, addHash and removeBlocks finds the byte it is meant for.   *)
THEOREM LedgerFileRefines == ASSUME Alone PROVE Spec => ImplementsHashLedger
<1>1. IInv => Abstract!LedgerInv
  BY DEF IInv
<1>2. IInv /\ [Next]_vars =>
         [\E t \in Threads :
             RemovedAs(t) \/ \E k \in DOMAIN ledger : PushedAs(t, k)]_done
  <2>1. ASSUME IInv, Next
        PROVE  \/ \E t \in Threads :
                     RemovedAs(t) \/ \E k \in DOMAIN ledger : PushedAs(t, k)
               \/ UNCHANGED done
    BY <2>1, NextInv
  <2>2. UNCHANGED vars => UNCHANGED done
    BY DEF vars, done
  <2> QED
    BY <2>1, <2>2
<1> QED
  BY <1>1, <1>2, SpecInv, PTL DEF Spec, ImplementsHashLedger

=============================================================================
