----------------------------- MODULE HashLedger -----------------------------
(***************************************************************************)
(* The block store of the deduplicating file system (our_lib.c): the file  *)
(* .Storage/hash_ledger and the files .Storage/BLnnn.                      *)
(*                                                                         *)
(* A line of the ledger is "III, <hash>, CC": the id of a block, the hash  *)
(* of its text and a two-digit reference counter.  The last line is a      *)
(* sentinel that addHash turns into a block when no earlier line is free.  *)
(*                                                                         *)
(* The operators are the calls of our_lib.c; the module that composes them *)
(* with the file system (Bbfs) says who calls them and when.               *)
(***************************************************************************)
EXTENDS Naturals, Sequences

CONSTANTS
    Contents,   \* the texts a 4 KB block can hold
    Hashes,     \* the values getHash returns
    HashOf,     \* getHash: the hash of each content
    ZeroHash,   \* the twenty '0' characters of a line that was never used
    Radix       \* the base of a counter digit: 10 in the code

(* SHA-1 cut to twenty hexadecimal digits never returns twenty zeros here, *)
(* and a counter has two digits.                                           *)
ASSUME LedgerAssumption ==
    /\ HashOf \in [Contents -> Hashes]
    /\ ZeroHash \notin Hashes
    /\ Radix \in Nat /\ Radix > 1

(* Two different texts have different hashes (README.txt:105 takes the     *)
(* hash of a block to be unique).                                          *)
ASSUME NoCollision ==
    \A c, d \in Contents : HashOf[c] = HashOf[d] => c = d

VARIABLES
    ledger,     \* the lines of .Storage/hash_ledger, in file order
    blocks      \* the existing BL files: their ids and their texts

Counter == 0 .. Radix * Radix - 1

Line == [id : Nat, hash : Hashes \cup {ZeroHash}, count : Counter]

-----------------------------------------------------------------------------
(* bb_init writes one sentinel into the ledger main() has just truncated.  *)
Sentinel(id) == [id |-> id, hash |-> ZeroHash, count |-> 0]

LedgerInit ==
    /\ ledger = << Sentinel(1) >>
    /\ blocks = [k \in {} |-> ZeroHash]

(* Mutant of LooksFree: the first digit of the counter is read instead.    *)
FirstDigitFree(line) == line.count \div Radix = 0

(* The free-line test of addHash: its fread starts one byte too far in, so *)
(* it sees the last digit of the counter only.                             *)
LooksFree(line) == line.count % Radix = 0

(* addHash stops at the first line that looks free.                        *)
FirstFree(k) ==
    /\ k \in DOMAIN ledger
    /\ LooksFree(ledger[k])
    /\ \A i \in 1 .. k - 1 : ~ LooksFree(ledger[i])

(* The search loop of compareHash: the first line with this hash, whatever *)
(* its counter says, or none up to the end of the file.                    *)
Hit(h, k) ==
    /\ k \in DOMAIN ledger
    /\ ledger[k].hash = h
    /\ \A i \in 1 .. k - 1 : ledger[i].hash # h

Miss(h) == \A k \in DOMAIN ledger : ledger[k].hash # h

(* counter++ printed with "%02d", of which two characters are written: 100 *)
(* is stored as "10".                                                      *)
Bump(c) == IF c + 1 < Radix * Radix THEN c + 1 ELSE (c + 1) \div Radix

(* Mutant of AddHash: no new sentinel.                                     *)
AddHashOnly(h, k) == [ledger EXCEPT ![k].hash = h, ![k].count = 1]

(* addHash on line k: the hash is replaced and the counter set to 01; if   *)
(* the line was the last one, a new sentinel follows it.                   *)
AddHash(h, k) ==
    LET used == [ledger EXCEPT ![k].hash = h, ![k].count = 1]
    IN  IF k = Len(ledger)
        THEN Append(used, Sentinel(ledger[k].id + 1))
        ELSE used

(* createBlock opens BL<id> with "wb+": a file of that name is replaced.   *)
CreateBlock(id, c) ==
    [i \in DOMAIN blocks \cup {id} |-> IF i = id THEN c ELSE blocks[i]]

(* remove(BL<id>).                                                         *)
DeleteBlock(id) == [i \in DOMAIN blocks \ {id} |-> blocks[i]]

(* Mutant of ShareBlock: isNewBlock stays 0 when the counter was 0.        *)
ShareWithoutFile(c, k) ==
    /\ Hit(HashOf[c], k)
    /\ ledger' = [ledger EXCEPT ![k].count = Bump(@)]
    /\ UNCHANGED blocks

(* PushBlock when compareHash finds the hash on line k.  The block file is *)
(* written only when the counter was 0, i.e. when its file was removed.    *)
ShareBlock(c, k) ==
    /\ Hit(HashOf[c], k)
    /\ ledger' = [ledger EXCEPT ![k].count = Bump(@)]
    /\ blocks' = IF ledger[k].count = 0
                 THEN CreateBlock(ledger[k].id, c)
                 ELSE blocks

(* PushBlock when the hash is not in the ledger: addHash gives it line k.  *)
NewBlock(c, k) ==
    /\ Miss(HashOf[c])
    /\ FirstFree(k)
    /\ ledger' = AddHash(HashOf[c], k)
    /\ blocks' = CreateBlock(ledger[k].id, c)

(* PushBlock(c) returns the id on line k.                                  *)
PushBlock(c, k) == ShareBlock(c, k) \/ NewBlock(c, k)

(* One round of the loop of removeBlocks.  The line of a block is found by *)
(* its position, never by its id; the counter is not written below 0; the  *)
(* BL file goes when the counter becomes 0.                                *)
RemoveBlock(id) ==
    LET c == ledger[id].count
    IN  /\ ledger' = IF c = 0 THEN ledger
                     ELSE [ledger EXCEPT ![id].count = c - 1]
        /\ blocks' = IF c = 1 THEN DeleteBlock(id) ELSE blocks

(* remove() fails: removeBlocks returns 1 and skips the remaining ids.     *)
RemoveFails(id) == ledger[id].count = 1 /\ id \notin DOMAIN blocks

-----------------------------------------------------------------------------
(* Types: part of the type invariant of the composed module.               *)
LedgerTypeOK ==
    /\ ledger \in Seq(Line)
    /\ DOMAIN blocks \subseteq Nat
    /\ blocks \in [DOMAIN blocks -> Contents]

(* The ledger stays addressable the three ways our_lib.c addresses it: by  *)
(* position (removeBlocks), by the id on the line (PushBlock) and by hash  *)
(* (compareHash).  The id of a line is its position, no two used lines     *)
(* carry the same hash, and the sentinel addHash relies on to stop is the  *)
(* last line.                                                              *)
LedgerOK ==
    /\ Len(ledger) > 0
    /\ \A k \in DOMAIN ledger : ledger[k].id = k
    /\ \A k \in DOMAIN ledger :
          ledger[k].hash = ZeroHash <=> k = Len(ledger)
    /\ ledger[Len(ledger)].count = 0
    /\ \A i, k \in DOMAIN ledger :
          ledger[i].hash = ledger[k].hash => i = k

(* A BL file exists exactly for the lines whose counter is not 0, and it   *)
(* holds the text the line's hash was taken of.  So compareHash never      *)
(* shares a missing or a wrong block, and remove() in removeBlocks, whose  *)
(* failure would leave the rest of the ids unreleased, never fails.        *)
BlocksStored ==
    /\ DOMAIN blocks = {k \in DOMAIN ledger : ledger[k].count > 0}
    /\ \A k \in DOMAIN blocks : HashOf[blocks[k]] = ledger[k].hash

LedgerInv == LedgerTypeOK /\ LedgerOK /\ BlocksStored
=============================================================================
