----------------------------- MODULE BbfsReads ------------------------------
(***************************************************************************)
(* What the reading handlers of the file system return: bb_read with       *)
(* readFile, and bb_getattr with findRealSize.  They change no state, so   *)
(* they are operators on the state of Bbfs.  Sizes count 4 KB blocks.      *)
(***************************************************************************)
EXTENDS Bbfs, Integers

CONSTANTS
    Null,       \* readFile's NULL
    RawIds,     \* what pread finds in the file of ids itself
    RawSize     \* the length of the file of ids, as lstat reports it

(* NULL is not a text, of a block or of a file.                            *)
ASSUME ReadsAssumption == Null \notin Contents \cup Seq(Contents)

(* readBlock: the text of BL<id>, or NULL.                                 *)
ReadBlock(id) == IF id \in DOMAIN blocks THEN blocks[id] ELSE Null

(* Mutant of IdRead: the file is not positioned at the block of offset.    *)
IdReadFromStart(f, i) == cells[f][1]

(* The id in id_char after the i-th fread of readFile: past the end of the *)
(* file the buffer keeps the last id read.                                 *)
IdRead(f, i) == cells[f][SmallerOf(i, Len(cells[f]))]

(* readFile from block off < Len: as many blocks as the whole file has,    *)
(* wherever it starts, or NULL if one of them is missing.                  *)
ReadFile(f, off) ==
    LET n == Len(cells[f])
        text == [i \in 1 .. n |-> ReadBlock(IdRead(f, off + i))]
    IN  IF n = 0 \/ \E i \in 1 .. n : text[i] = Null THEN Null ELSE text

(* bb_read of n blocks: through readFile and the temporary file, or from   *)
(* the file of ids if readFile returned NULL.                              *)
BbRead(f, off, n) ==
    LET text == ReadFile(f, off)
    IN  IF text = Null THEN RawIds
        ELSE SubSeq(text, 1, SmallerOf(n, Len(text)))

(* findRealSize: the blocks of the file, or -2 if one is missing.          *)
RealSize(f) ==
    IF \E i \in DOMAIN cells[f] : ReadBlock(cells[f][i]) = Null THEN -2
    ELSE Len(cells[f])

(* bb_getattr: unless findRealSize finds something, the size that lstat    *)
(* gave stays.                                                             *)
Getattr(f) == IF RealSize(f) > 0 THEN RealSize(f) ELSE RawSize

(* Between two requests, a read inside a file returns exactly the blocks   *)
(* in that range, however the file was written and whatever other files    *)
(* did to shared blocks, and stat gives its length.                        *)
ReadsExact ==
    req = NoReq =>
        \A f \in Inodes : \A off \in 0 .. Len(cells[f]) - 1 :
            /\ \A n \in 1 .. Len(cells[f]) - off :
                  BbRead(f, off, n) = SubSeq(ReadBack(f), off + 1, off + n)
            /\ Getattr(f) = Len(cells[f])
=============================================================================
