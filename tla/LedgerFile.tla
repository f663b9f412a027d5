----------------------------- MODULE LedgerFile -----------------------------
(***************************************************************************)
(* PushBlock and removeBlocks of our_lib.c on the bytes of hash_ledger.    *)
(*                                                                         *)
(* HashLedger has one step for each call.  The code gets there with fseek, *)
(* fread, fwrite and atoi on one FILE, whose cursor every thread of fuse   *)
(* shares: a step here is one access with the fseek in front of it, or one *)
(* round of a loop.  (stdio locks a FILE during one of its own calls, so   *)
(* the threads of the code interleave more finely still.)                  *)
(***************************************************************************)
EXTENDS Integers, Sequences, Bags, FiniteSetsExt

CONSTANTS
    Threads,    \* the threads of fuse; one with the option -s
    Contents,   \* the texts of the blocks
    HashOf,     \* the hash of each text: twenty hexadecimal digits
    Copies,     \* how many ids of one text are in files at the start
    Allowed,    \* bound: how many ids of each text may be in files (a set
                \* of functions)
    MaxPos      \* bound: the cursor goes no further

(* The bytes that matter: '0' to '9' are 0 to 9, 'a' to 'f' are 10 to 15.  *)
Comma == 100
Space == 101
Newline == 102
Nul == 103
Digit == 0 .. 9
HexDigit == 0 .. 15

Repeat(b, n) == [i \in 1 .. n |-> b]

(* No two texts have the same hash, and none has that of an unused line.   *)
ASSUME LedgerFileAssumption ==
    /\ HashOf \in [Contents -> [1 .. 20 -> HexDigit]]
    /\ \A c \in Contents : HashOf[c] # Repeat(0, 20)
    /\ \A c, d \in Contents : HashOf[c] = HashOf[d] => c = d
    /\ Allowed \subseteq [Contents -> Nat] /\ Copies \subseteq 0 .. 99
    /\ MaxPos \in Nat

VARIABLES
    file,       \* the bytes of .Storage/hash_ledger
    pos,        \* the cursor of hashLedger
    BL,         \* the files BLnnn
    pc,         \* what each thread does
    loc,        \* the locals of its call
    held,       \* the ids in the files of the file system, for each text
    ledger,     \* history: the lines and the files BLnnn as the last call
    blocks      \* left them

done == <<ledger, blocks>>
vars == <<file, pos, BL, pc, loc, held, ledger, blocks>>

-----------------------------------------------------------------------------
(* sprintf and atoi.                                                       *)
Id3(n) == <<n \div 100, (n \div 10) % 10, n % 10>>

(* "%02d" of which two characters are written.                             *)
Count2(n) == IF n < 100 THEN <<n \div 10, n % 10>>
             ELSE <<n \div 100, (n \div 10) % 10>>

ZeroHash == Repeat(0, 20)
getHash(c) == HashOf[c]

LineOf(id, hash, count) ==
    Id3(id) \o <<Comma, Space>> \o hash \o <<Comma, Space>>
            \o Count2(count) \o <<Newline>>

atoi(s) ==
    LET blank == {Space, Newline}
        from == {i \in DOMAIN s : s[i] \notin blank
                                  /\ \A j \in 1 .. i - 1 : s[j] \in blank}
        num == {i \in DOMAIN s : \E a \in from : a <= i
                                  /\ \A j \in a .. i : s[j] \in Digit}
        val[i \in 0 .. Len(s)] ==
            IF i = 0 THEN 0
            ELSE IF i \in num THEN 10 * val[i - 1] + s[i] ELSE val[i - 1]
    IN  val[Len(s)]

(* The lines of the ledger, read from its bytes.                           *)
Bytes(f, k, from, to) ==
    [i \in 1 .. to - from + 1 |-> f[30 * (k - 1) + from - 1 + i]]

LinesOf(f) == [k \in 1 .. Len(f) \div 30 |->
                  [id |-> atoi(Bytes(f, k, 1, 3)), hash |-> Bytes(f, k, 6, 25),
                   count |-> atoi(Bytes(f, k, 28, 29))]]

Lines == LinesOf(file)

-----------------------------------------------------------------------------
(* fseek does nothing if it would go in front of the file.                 *)
Seek(p, by) == IF p + by < 0 THEN p ELSE p + by

(* What n bytes at p leave in a buffer: past the end of the file fread     *)
(* leaves the buffer as it was.                                            *)
Got(p, n, buf) ==
    [i \in 1 .. n |-> IF p + i <= Len(file) THEN file[p + i] ELSE buf[i]]

After(p, n) == Min({MaxPos, Max({p, Min({p + n, Len(file)})})})

(* fwrite of s at p into f; a gap is filled with zero bytes.               *)
Put(f, p, s) ==
    SubSeq(f, 1, Min({p, Len(f)})) \o Repeat(Nul, p - Len(f)) \o s
                    \o SubSeq(f, p + Len(s) + 1, Len(f))

(* The locals at the beginning of a call.                                  *)
Locals(c, id) ==
    [text |-> c, size |-> 0, isNewBlock |-> FALSE, cur_position |-> 0,
     id_char |-> Id3(id), check_hash |-> ZeroHash,
     counter_char |-> <<0, 0>>]

NoCall == Locals(CHOOSE c \in Contents : TRUE, 0)

(* bb_init writes the first line.  What follows it after some writes of    *)
(* one text is a start, too.                                               *)
NewLine(id) == LineOf(id, ZeroHash, 0)

Init ==
    /\ \E c \in Contents, n \in Copies :
          /\ [d \in Contents |-> IF d = c THEN n ELSE 0] \in Allowed
          /\ file = IF n = 0 THEN NewLine(1)
                    ELSE LineOf(1, getHash(c), n) \o NewLine(2)
          /\ BL = [id \in IF n = 0 THEN {} ELSE {1} |-> c]
          /\ held = [d \in Contents |->
                        IF d = c /\ n > 0 THEN [i \in {1} |-> n]
                        ELSE EmptyBag]
    /\ pos = Len(file)
    /\ pc = [t \in Threads |-> "idle"]
    /\ loc = [t \in Threads |-> NoCall]
    /\ ledger = Lines /\ blocks = BL

Goto(t, from, to) == pc[t] = from /\ pc' = [pc EXCEPT ![t] = to]

(* A call has ended.                                                       *)
Ended(t) ==
    /\ loc' = [loc EXCEPT ![t] = NoCall]
    /\ ledger' = Lines' /\ blocks' = BL'

-----------------------------------------------------------------------------
(* The ids of a text in files, or about to be.                             *)
Uses(c) ==
    BagCardinality(held[c])
        + Cardinality({t \in Threads : pc[t] \notin {"idle", "rewind", "skip", "drop"}
                                       /\ loc[t].text = c})

(* A thread writes a text (bb_write, compressBuffer).                      *)
PushBlock(t, c) ==
    /\ [d \in Contents |-> IF d = c THEN Uses(d) + 1 ELSE Uses(d)] \in Allowed
    /\ Goto(t, "idle", "measure")
    /\ loc' = [loc EXCEPT ![t] = Locals(c, 0)]
    /\ UNCHANGED <<file, pos, BL, held, done>>

(* compareHash: to the end and back.                                       *)
Measure(t) ==
    /\ Goto(t, "measure", "search")
    /\ loc' = [loc EXCEPT ![t].size = Len(file)]
    /\ pos' = 0
    /\ UNCHANGED <<file, BL, held, done>>

(* One round of compareHash.                                               *)
SearchLine(t) ==
    /\ pc[t] = "search" /\ pos # loc[t].size
    /\ LET p == After(pos, 3) + 2
           hash == Got(p, 20, loc[t].check_hash)
       IN  /\ loc' = [loc EXCEPT
                        ![t].id_char = Got(pos, 3, @),
                        ![t].check_hash = hash]
           /\ pos' = Min({MaxPos, After(p, 20) + 5})
           /\ pc' = [pc EXCEPT ![t] = IF hash = getHash(loc[t].text)
                                      THEN "hit" ELSE "search"]
    /\ UNCHANGED <<file, BL, held, done>>

(* The hash is not there.                                                  *)
NotFound(t) ==
    /\ pc[t] = "search" /\ pos = loc[t].size
    /\ pc' = [pc EXCEPT ![t] = "free"]
    /\ loc' = [loc EXCEPT ![t].isNewBlock = TRUE]
    /\ pos' = 0
    /\ UNCHANGED <<file, BL, held, done>>

ReadCount(t) ==
    /\ Goto(t, "hit", "bump")
    /\ LET p == Seek(pos, -3)
           count == Got(p, 2, loc[t].counter_char)
       IN  /\ loc' = [loc EXCEPT ![t].counter_char = count,
                                 ![t].isNewBlock = (atoi(count) = 0)]
           /\ pos' = After(p, 2)
    /\ UNCHANGED <<file, BL, held, done>>

WriteCount(t) ==
    /\ Goto(t, "bump", "block")
    /\ LET p == Seek(pos, -2)
       IN  /\ file' = Put(file, p, Count2(atoi(loc[t].counter_char) + 1))
           /\ pos' = p + 2
    /\ UNCHANGED <<BL, loc, held, done>>

(* Mutant of CounterAt: the counter itself.                                *)
CounterExactlyAt(p) == After(p, 3) + 24

(* Where addHash reads a counter: one byte too far, so that it gets the    *)
(* last digit and the end of the line.                                     *)
CounterAt(p) == After(p, 3) + 25

(* One round of addHash, which has no test for the end of the file.        *)
LookFree(t) ==
    /\ pc[t] = "free"
    /\ LET p == CounterAt(pos)
           count == Got(p, 2, loc[t].counter_char)
       IN  /\ loc' = [loc EXCEPT
                        ![t].id_char = Got(pos, 3, @),
                        ![t].counter_char = count,
                        ![t].cur_position = After(p, 2)]
           /\ pos' = After(p, 2)
           /\ pc' = [pc EXCEPT ![t] = IF atoi(count) = 0
                                      THEN "add" ELSE "free"]
    /\ UNCHANGED <<file, BL, held, done>>

(* Mutant of Extended: no new last line.                                   *)
NotExtended(f, me) == f

(* A new last line if the line in use was the last.                        *)
Extended(f, me) ==
    IF me.cur_position = me.size
    THEN Put(f, pos, NewLine(atoi(me.id_char) + 1))
    ELSE f

(* Mutant of HashAt: one byte too far, as if the line had no end of line.  *)
HashTooFar(cur_position) == Seek(cur_position, -24)

HashAt(cur_position) == Seek(cur_position, -25)

AddLine(t) ==
    /\ Goto(t, "add", "block")
    /\ LET p == HashAt(loc[t].cur_position)
       IN  /\ file' = Put(Put(Extended(file, loc[t]),
                              p, getHash(loc[t].text)),
                          p + 22, Count2(1))
           /\ pos' = p + 24
    /\ UNCHANGED <<BL, loc, held, done>>

(* createBlock, if the block is new; PushBlock returns its id.             *)
CreateBlock(t) ==
    /\ Goto(t, "block", "idle")
    /\ UNCHANGED <<file, pos>>
    /\ LET id == atoi(loc[t].id_char)
           c == loc[t].text
       IN  /\ BL' = IF loc[t].isNewBlock
                    THEN [i \in DOMAIN BL \cup {id} |->
                             IF i = id THEN c ELSE BL[i]]
                    ELSE BL
           /\ held' = [held EXCEPT ![c] = @ (+) SetToBag({id})]
           /\ Ended(t)

-----------------------------------------------------------------------------
(* A thread drops an id of a file (bb_unlink, bb_write).                   *)
RemoveBlock(t, c, id) ==
    /\ BagIn(id, held[c])
    /\ [d \in Contents |-> IF d = c THEN Uses(d) - 1 ELSE Uses(d)] \in Allowed
    /\ Goto(t, "idle", "rewind")
    /\ held' = [held EXCEPT ![c] = @ (-) SetToBag({id})]
    /\ loc' = [loc EXCEPT ![t] = Locals(c, id)]
    /\ UNCHANGED <<file, pos, BL, done>>

Rewind(t) ==
    /\ Goto(t, "rewind", "skip")
    /\ pos' = 0
    /\ UNCHANGED <<file, BL, loc, held, done>>

(* To the line of the id, and to its counter.                              *)
SkipLines(t) ==
    /\ Goto(t, "skip", "drop")
    /\ LET p == pos + 30 * Max({atoi(loc[t].id_char) - 1, 0}) + 27
       IN  /\ loc' = [loc EXCEPT ![t].counter_char = Got(p, 2, @)]
           /\ pos' = After(p, 2)
    /\ UNCHANGED <<file, BL, held, done>>

(* The new counter, if it is not below 0; the file goes if it is 0.        *)
DropBlock(t) ==
    /\ Goto(t, "drop", "idle")
    /\ LET id == atoi(loc[t].id_char)
           counter == atoi(loc[t].counter_char) - 1
           p == Seek(pos, -2)
       IN  /\ IF counter >= 0
              THEN file' = Put(file, p, Count2(counter)) /\ pos' = p + 2
              ELSE UNCHANGED <<file, pos>>
           /\ BL' = IF counter = 0
                    THEN [i \in DOMAIN BL \ {id} |-> BL[i]]
                    ELSE BL
           /\ Ended(t)
    /\ UNCHANGED held

-----------------------------------------------------------------------------
Step(t) ==
    \/ Measure(t) \/ SearchLine(t) \/ NotFound(t)
    \/ ReadCount(t) \/ WriteCount(t)
    \/ LookFree(t) \/ AddLine(t) \/ CreateBlock(t)
    \/ Rewind(t) \/ SkipLines(t) \/ DropBlock(t)

Call(t) ==
    \E c \in Contents :
        PushBlock(t, c) \/ \E id \in BagToSet(held[c]) : RemoveBlock(t, c, id)

Next == \E t \in Threads : Step(t) \/ Call(t)

Spec == Init /\ [][Next]_vars

(* A call that has begun goes on; nobody has to make another.              *)
FairSpec == Spec /\ \A t \in Threads : WF_vars(Step(t))

-----------------------------------------------------------------------------
(* The variables keep their types.  The file is lines of thirty bytes that *)
(* read back as what they are, also while a call is under way: no step of  *)
(* a single thread leaves half a line behind.                              *)
TypeOK ==
    /\ pos \in 0 .. MaxPos
    /\ DOMAIN pc = Threads /\ DOMAIN loc = Threads
    /\ BL \in [DOMAIN BL -> Contents]
    /\ \A c \in Contents : IsABag(held[c])
    /\ Len(file) % 30 = 0
    /\ \A k \in DOMAIN Lines :
          /\ Lines[k].hash \in {getHash(c) : c \in Contents} \cup {ZeroHash}
          /\ Bytes(file, k, 1, 30) =
                LineOf(Lines[k].id, Lines[k].hash, Lines[k].count)

(* When nobody is in a call, the counter of a line is the number of times  *)
(* its id is in a file (README.txt:115).                                   *)
CountersRight ==
    (\A t \in Threads : pc[t] = "idle") =>
        \A k \in DOMAIN Lines :
            Lines[k].count =
                MapThenSumSet(
                    LAMBDA c : IF BagIn(k, held[c]) THEN held[c][k] ELSE 0,
                    Contents)

(* The calls are those of HashLedger: from the end of a call to the end of *)
(* the next, the lines and the BL files change as PushBlock or RemoveBlock *)
(* of HashLedger say, whichever way the seeks went, and PushBlock returns  *)
(* the id of the line they chose.                                          *)
Abstract == INSTANCE HashLedger WITH
    Hashes <- {getHash(c) : c \in Contents}, Radix <- 10

PushedAs(t, k) ==
    /\ pc[t] = "block"
    /\ Abstract!PushBlock(loc[t].text, k)
    /\ BagIn(ledger[k].id, held'[loc[t].text] (-) held[loc[t].text])

RemovedAs(t) ==
    /\ pc[t] = "drop"
    /\ Abstract!RemoveBlock(atoi(loc[t].id_char))

ImplementsHashLedger ==
    /\ Abstract!LedgerInv
    /\ [][\E t \in Threads :
             RemovedAs(t) \/ \E k \in DOMAIN ledger : PushedAs(t, k)]_done

(* Every call ends.  addHash has no test for the end of the file: it ends  *)
(* because a line that looks free is always there.                         *)
CallsEnd == \A t \in Threads : pc[t] # "idle" ~> pc[t] = "idle"
=============================================================================
