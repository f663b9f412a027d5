-------------------------------- MODULE Bbfs --------------------------------
(***************************************************************************)
(* The deduplicating FUSE file system of hw4 (bbfs.c on top of our_lib.c). *)
(*                                                                         *)
(* A file of rootdir is a list of cells "nnn\n", each the id of a block.   *)
(* bb_write releases the blocks it is about to overwrite, stores the new   *)
(* ones and then writes their ids over the old cells; bb_unlink releases   *)
(* every block of the file and removes the name.  The loops over the       *)
(* ledger are kept as one step per id or block, so every state in the      *)
(* middle of a handler is a state of the model.                            *)
(*                                                                         *)
(* One request is served at a time, as under "bbfs -s": the ledger is one  *)
(* FILE with one cursor and no lock.  Offsets and sizes count blocks, as   *)
(* README.txt:29-31 requires multiples of 4 KB.  libfuse passes the        *)
(* current name of an open file and keeps unlinked open files under a      *)
(* hidden name, so a path and a handle of a request name the same file.    *)
(***************************************************************************)
EXTENDS HashLedger, FiniteSets

CONSTANTS
    Names,          \* path names
    Inodes,         \* files of rootdir
    NoFile,         \* what a name that does not exist is bound to
    NoName,         \* the name field when no request is served
    Busy,           \* see FlatFs: a block that is being replaced
    Missing,        \* what readBlock finds when there is no BL file
    Payloads,       \* the buffers bb_write is called with, as blocks
    MaxCells,       \* the largest number of cells of a file (16 in README)
    CellsPerBlock,  \* cells in 4096 bytes of a file of rootdir (1024)
    Calls           \* the calls beyond the usual ones that users make

(* The calls that a configuration may leave out: a write past the end of a *)
(* file, and calls of bbfs.c that still are the bare system call; the      *)
(* counters of the ledger learn nothing of them.                           *)
RiskyCalls == {"sparse", "link", "rename_over", "ftruncate"}

ASSUME BbfsAssumption ==
    /\ IsFiniteSet(Inodes)
    /\ NoFile \notin Inodes
    /\ NoName \notin Names
    /\ MaxCells \in Nat
    /\ CellsPerBlock \in Nat
    /\ Payloads \subseteq Seq(Contents) \ {<< >>}
    /\ Calls \subseteq RiskyCalls

VARIABLES
    dir,    \* the file each name is bound to
    cells,  \* the ids in each file of rootdir
    req     \* the request being served

vars == <<ledger, blocks, dir, cells, req>>

(* Four NUL bytes of a file of rootdir: no "nnn\n" was written there.      *)
Hole == 0

(* A request: name is its path, off and data what bb_write was given, old  *)
(* the ids to release (IDsToRemove), removed how many of them are          *)
(* released, and out the ids of the blocks pushed so far (compressedBuf).  *)
NoReq == [op |-> "idle", name |-> NoName, off |-> 0, data |-> << >>,
          old |-> << >>, removed |-> 0, out |-> << >>]

Init ==
    /\ LedgerInit
    /\ dir = [n \in Names |-> NoFile]
    /\ cells = [f \in Inodes |-> << >>]
    /\ req = NoReq

Exists(n) == dir[n] # NoFile

Linked(f) == \E n \in Names : dir[n] = f

-----------------------------------------------------------------------------
(* Operators on the cells of a file.                                       *)

SmallerOf(a, b) == IF a < b THEN a ELSE b
LargerOf(a, b) == IF a < b THEN b ELSE a

(* removeBlocks counts the ids in its argument with strlen: the string     *)
(* ends at the first NUL, so ids behind a hole are never seen.             *)
UpToHole(ids) ==
    LET seen == {i \in DOMAIN ids : \A j \in 1 .. i : ids[j] # Hole}
    IN  SubSeq(ids, 1, Cardinality(seen))

(* Mutant of Overwritten: the last overwritten block is not released.      *)
OverwrittenButLast(s, off, n) ==
    UpToHole(SubSeq(s, off + 1, SmallerOf(off + n - 1, Len(s))))

(* getOverwrittenBlocks: the ids of n blocks from block off, as far as the *)
(* file goes.                                                              *)
Overwritten(s, off, n) ==
    UpToHole(SubSeq(s, off + 1, SmallerOf(off + n, Len(s))))

(* Mutant of Overlay: the ids are written one cell too far.                *)
OverlayShifted(s, off, out) ==
    [i \in 1 .. LargerOf(Len(s), off + 1 + Len(out)) |->
        IF off + 1 < i /\ i <= off + 1 + Len(out) THEN out[i - off - 1]
        ELSE IF i <= Len(s) THEN s[i] ELSE Hole]

(* pwrite of the ids out at cell off; a gap before it reads as NULs.       *)
Overlay(s, off, out) ==
    [i \in 1 .. LargerOf(Len(s), off + Len(out)) |->
        IF off < i /\ i <= off + Len(out) THEN out[i - off]
        ELSE IF i <= Len(s) THEN s[i] ELSE Hole]

(* ftruncate of the file of ids to n * 4096 bytes.                         *)
Resize(s, n) ==
    [i \in 1 .. n * CellsPerBlock |-> IF i <= Len(s) THEN s[i] ELSE Hole]

(* The contents of the files once dir has become d: the kernel frees a     *)
(* file that has no name left.                                             *)
Reclaim(d) ==
    [f \in Inodes |-> IF \E n \in Names : d[n] = f THEN cells[f] ELSE << >>]

-----------------------------------------------------------------------------
(* bb_mknod: open with O_CREAT | O_EXCL.                                   *)
Mknod(n, f) ==
    /\ req = NoReq
    /\ ~ Exists(n)
    /\ ~ Linked(f)
    /\ dir' = [dir EXCEPT ![n] = f]
    /\ UNCHANGED <<ledger, blocks, cells, req>>

(* bb_write up to removeBlocks: the ids to release are read first.         *)
BeginWrite(n, p, off) ==
    /\ req = NoReq
    /\ Exists(n)
    /\ off + Len(p) <= MaxCells
    /\ off > Len(cells[dir[n]]) => "sparse" \in Calls
    /\ req' = [NoReq EXCEPT !.op = "write", !.name = n,
                            !.off = off, !.data = p,
                            !.old = Overwritten(cells[dir[n]], off, Len(p))]
    /\ UNCHANGED <<ledger, blocks, dir, cells>>

(* bb_unlink up to removeBlocks: all the ids of the file are to go.        *)
BeginUnlink(n) ==
    /\ req = NoReq
    /\ Exists(n)
    /\ req' = [NoReq EXCEPT !.op = "unlink", !.name = n,
                            !.old = UpToHole(cells[dir[n]])]
    /\ UNCHANGED <<ledger, blocks, dir, cells>>

(* Mutant of RemoveNext: the loop index does not advance.                  *)
RemoveSame ==
    /\ req.removed < Len(req.old)
    /\ RemoveBlock(req.old[req.removed + 1])
    /\ UNCHANGED <<dir, cells, req>>

(* One id of removeBlocks; if remove() fails it returns at once.           *)
RemoveNext ==
    /\ req.removed < Len(req.old)
    /\ LET id == req.old[req.removed + 1]
       IN  /\ RemoveBlock(id)
           /\ req' = [req EXCEPT !.removed =
                         IF RemoveFails(id) THEN Len(req.old) ELSE @ + 1]
    /\ UNCHANGED <<dir, cells>>

(* Mutant of PushNext: every round takes the first block of the buffer.    *)
PushFirst(k) ==
    /\ req.removed = Len(req.old)
    /\ Len(req.out) < Len(req.data)
    /\ PushBlock(req.data[1], k)
    /\ req' = [req EXCEPT !.out = Append(@, ledger[k].id)]
    /\ UNCHANGED <<dir, cells>>

(* One block of compressBuffer, after removeBlocks has returned.           *)
PushNext(k) ==
    /\ req.removed = Len(req.old)
    /\ Len(req.out) < Len(req.data)
    /\ PushBlock(req.data[Len(req.out) + 1], k)
    /\ req' = [req EXCEPT !.out = Append(@, ledger[k].id)]
    /\ UNCHANGED <<dir, cells>>

(* The end of bb_write: the new ids replace the old cells.                 *)
Pwrite ==
    /\ req.op = "write"
    /\ req.removed = Len(req.old)
    /\ Len(req.out) = Len(req.data)
    /\ cells' = [cells EXCEPT ![dir[req.name]] = Overlay(@, req.off, req.out)]
    /\ req' = NoReq
    /\ UNCHANGED <<ledger, blocks, dir>>

(* The end of bb_unlink.                                                   *)
FinishUnlink ==
    /\ req.op = "unlink"
    /\ req.removed = Len(req.old)
    /\ dir' = [dir EXCEPT ![req.name] = NoFile]
    /\ cells' = Reclaim(dir')
    /\ req' = NoReq
    /\ UNCHANGED <<ledger, blocks>>

(* bb_rename is the system call alone.  Over an existing name, the file    *)
(* that had it is replaced; if both names are of one file nothing happens. *)
Rename(n, m) ==
    /\ req = NoReq
    /\ Exists(n)
    /\ Exists(m) => "rename_over" \in Calls
    /\ dir[n] # dir[m]
    /\ dir' = [dir EXCEPT ![m] = dir[n], ![n] = NoFile]
    /\ cells' = Reclaim(dir')
    /\ UNCHANGED <<ledger, blocks, req>>

(* bb_link is the system call alone.                                       *)
Link(n, m) ==
    /\ "link" \in Calls
    /\ req = NoReq
    /\ Exists(n)
    /\ ~ Exists(m)
    /\ dir' = [dir EXCEPT ![m] = dir[n]]
    /\ UNCHANGED <<ledger, blocks, cells, req>>

(* bb_ftruncate to n blocks: the length is applied to the file of ids.     *)
Ftruncate(n, size) ==
    /\ "ftruncate" \in Calls
    /\ req = NoReq
    /\ Exists(n)
    /\ size * CellsPerBlock <= MaxCells
    /\ cells' = [cells EXCEPT ![dir[n]] = Resize(@, size)]
    /\ UNCHANGED <<ledger, blocks, dir, req>>

-----------------------------------------------------------------------------
(* What users may ask for, and what a handler does next.                   *)
Call ==
    \/ \E n \in Names, f \in Inodes : Mknod(n, f)
    \/ \E n \in Names, p \in Payloads, off \in 0 .. MaxCells :
          BeginWrite(n, p, off)
    \/ \E n \in Names : BeginUnlink(n)
    \/ \E n, m \in Names : Rename(n, m)
    \/ \E n, m \in Names : Link(n, m)
    \/ \E n \in Names, size \in 0 .. MaxCells : Ftruncate(n, size)

HandlerStep ==
    \/ RemoveNext
    \/ \E k \in DOMAIN ledger : PushNext(k)
    \/ Pwrite
    \/ FinishUnlink

Next == Call \/ HandlerStep

Spec == Init /\ [][Next]_vars

(* A handler is straight-line code that waits for nothing: it runs on.     *)
FairSpec == Spec /\ WF_vars(HandlerStep)

-----------------------------------------------------------------------------
(* The ids a file holds, request by request: while a write or an unlink is *)
(* under way, a cell whose block was released holds nothing, and a block   *)
(* already pushed is held by the cell its id will be written to.           *)
CellAt(f, i) == IF i <= Len(cells[f]) THEN cells[f][i] ELSE Hole

HeldId(f, i) ==
    IF req.op = "idle" \/ f # dir[req.name] \/ i <= req.off
    THEN CellAt(f, i)
    ELSE IF i - req.off <= Len(req.out) THEN req.out[i - req.off]
    ELSE IF i - req.off <= req.removed THEN Hole
    ELSE CellAt(f, i)

Refs(k) == {r \in Inodes \X (1 .. MaxCells) : HeldId(r[1], r[2]) = k}

Requests ==
    [op : {"idle", "write", "unlink"}, name : Names \cup {NoName},
     off : Nat, data : Seq(Contents), old : Seq(Nat), removed : Nat,
     out : Seq(Nat)]

(* The steps whose effect the counters can follow.  They let users make    *)
(* any call, and share blocks as often as a counter can count, but leave   *)
(* out five of the things bbfs.c does not notice:                          *)
(*   a write that starts past the end of its file;                         *)
(*   bb_unlink of a name whose file has another name;                      *)
(*   a rename or ftruncate that takes cells from a file, or adds some;     *)
(*   a text that is new to the ledger while the cells of some other block  *)
(*     number a multiple of Radix (10, 20, ... 90), see LooksFree;         *)
(*   a reference beyond those a counter can count, the hundredth.          *)
Sole(n) == \A m \in Names : dir[m] = dir[n] => m = n

RoundCount ==
    \E k \in DOMAIN ledger :
        Refs(k) # {} /\ Cardinality(Refs(k)) % Radix = 0

NewText ==
    /\ Len(req.out) < Len(req'.out)
    /\ Miss(HashOf[req.data[Len(req.out) + 1]])

Countable == \A k \in DOMAIN ledger : Cardinality(Refs(k)) < Radix * Radix

Careful ==
    /\ req = NoReq =>
          /\ cells' = cells
          /\ req'.op = "write" => req'.off <= Len(cells[dir[req'.name]])
          /\ req'.op = "unlink" => Sole(req'.name)
    /\ NewText => ~ RoundCount
    /\ Countable'

CarefulSpec == Init /\ [][Next /\ Careful]_vars

(* The variables keep their types, and no file outgrows MaxCells.          *)
TypeOK ==
    /\ LedgerTypeOK
    /\ dir \in [Names -> Inodes \cup {NoFile}]
    /\ cells \in [Inodes -> Seq(Nat)]
    /\ \A f \in Inodes : Len(cells[f]) <= MaxCells
    /\ req \in Requests

(* The counter of a line is the number of cells that hold its id, at every *)
(* step of every handler: a block in use is never freed and a block        *)
(* nobody uses is always free (README.txt:111-116).                        *)
RefCountExact ==
    \A k \in DOMAIN ledger : ledger[k].count = Cardinality(Refs(k))

(* A BL file that some cell points to before and after a step is the same  *)
(* file with the same text: createBlock never replaces a block in use.     *)
LiveBlockKept ==
    [][\A k \in DOMAIN blocks :
          (Refs(k) # {} /\ Refs(k)' # {}) =>
              k \in DOMAIN blocks' /\ blocks'[k] = blocks[k]]_vars

(* Every write and unlink comes to its end.  In particular the search of   *)
(* addHash always meets a free line, and removeBlocks gets through its ids.*)
RequestsEnd == req.op # "idle" ~> req.op = "idle"

-----------------------------------------------------------------------------
(* The inductive invariants of BbfsProofs.                                 *)

(* A handler's local variables: what one call has left behind for the next *)
(* one.  Holds whatever calls users make.                                  *)
HandlerOK ==
    /\ req.op = "idle" => req = NoReq
    /\ req.op # "idle" =>
          /\ req.name \in Names /\ Exists(req.name)
          /\ req.off + Len(req.data) <= MaxCells
          /\ req.removed <= Len(req.old)
          /\ Len(req.out) <= Len(req.data)
          /\ req.out # << >> => req.removed = Len(req.old)
    /\ req.op = "unlink" => req.data = << >> /\ req.off = 0

(* In careful steps no file has a hole, the ids to release are exactly     *)
(* those of the cells the handler will replace, and a file that is being   *)
(* removed has no other name.                                              *)
FilesOK ==
    /\ \A f \in Inodes : ~ Linked(f) => cells[f] = << >>
    /\ \A f \in Inodes : \A i \in DOMAIN cells[f] :
          cells[f][i] \in DOMAIN ledger
    /\ \A j \in DOMAIN req.out : req.out[j] \in DOMAIN ledger

OldOK ==
    req.op # "idle" =>
        LET s == cells[dir[req.name]]
        IN  /\ req.off + Len(req.old) <= Len(s)
            /\ \A j \in DOMAIN req.old : req.old[j] = s[req.off + j]
            /\ req.op = "unlink" => Sole(req.name) /\ Len(req.old) = Len(s)
            /\ req.op = "write" =>
                  /\ Len(req.old) <= Len(req.data)
                  /\ Len(req.old) < Len(req.data) =>
                        req.off + Len(req.old) = Len(s)

TypeInv == TypeOK /\ HandlerOK /\ LedgerInv

SharingInv == FilesOK /\ OldOK /\ RefCountExact

-----------------------------------------------------------------------------
(* What readFile gives for each cell, block by block.                      *)
ReadBack(f) ==
    [i \in DOMAIN cells[f] |->
        IF /\ req.op # "idle"
           /\ f = dir[req.name]
           /\ req.off < i
           /\ i <= req.off + Len(req.old)
        THEN Busy
        ELSE IF cells[f][i] \in DOMAIN blocks THEN blocks[cells[f][i]]
        ELSE Missing]

Files == INSTANCE FlatFs WITH
    data <- [f \in Inodes |-> ReadBack(f)],
    pending <- [op |-> req.op, name |-> req.name,
                off |-> req.off, data |-> req.data]

(* Deduplication is invisible: seen through readFile, the file system is   *)
(* one without ledger or sharing.                                          *)
ImplementsFlatFs == Files!Spec
=============================================================================
