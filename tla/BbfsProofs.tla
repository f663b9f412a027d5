----------------------------- MODULE BbfsProofs -----------------------------
(***************************************************************************)
(* Theorems about Bbfs for every value of its constants.                   *)
(*                                                                         *)
(* The first part needs nothing of the calls users make: the types, the    *)
(* ledger and the BL files stay in order (TypeInv).                        *)
(*                                                                         *)
(* The second part is about CarefulSpec: any calls, on any number of files *)
(* and blocks, but for the five kinds of step that bbfs.c does not notice  *)
(* (Careful).  Without them every counter is exact (SharingInv) and a      *)
(* block in use is never replaced.                                         *)
(*                                                                         *)
(* Every step of a handler changes the id held in at most one slot (a file *)
(* and the number of a cell in it): RemoveNext empties the slot of the id  *)
(* it releases, PushNext fills the slot its id will be written to, and no  *)
(* other step changes what a slot holds.                                   *)
(*                                                                         *)
(* Exact counters keep the BL files that cells refer to in place.  So what *)
(* readers see is what was written: the file system implements FlatFs, in  *)
(* which there is no ledger and no sharing, and reads are exact.           *)
(***************************************************************************)
EXTENDS BbfsReads, HashLedgerProofs, FiniteSetTheorems,
        SequenceTheorems

-----------------------------------------------------------------------------
(* Operators on cells.                                                     *)

(* The number of ids removeBlocks sees, and that it sees a prefix.         *)
LEMMA UpToHoleType ==
    ASSUME NEW s \in Seq(Nat)
    PROVE  UpToHole(s) \in Seq(Nat) /\ Len(UpToHole(s)) <= Len(s)
<1> DEFINE seen == {i \in DOMAIN s : \A j \in 1 .. i : s[j] # Hole}
<1>1. DOMAIN s = 1 .. Len(s) /\ Len(s) \in Nat
  OBVIOUS
<1>2. IsFiniteSet(1 .. Len(s)) /\ Cardinality(1 .. Len(s)) = Len(s)
  <2> HIDE DEF seen
  <2>1. 1 \in Int /\ Len(s) \in Int
    BY <1>1
  <2>2. /\ IsFiniteSet(1 .. Len(s))
        /\ Cardinality(1 .. Len(s)) = IF 1 > Len(s) THEN 0 ELSE Len(s) - 1 + 1
    BY <2>1, FS_Interval
  <2> QED
    BY <1>1, <2>2
<1>3. seen \subseteq 1 .. Len(s)
  BY <1>1
<1>4. Cardinality(seen) \in Nat /\ Cardinality(seen) <= Len(s)
  BY <1>1, <1>2, <1>3, FS_Subset, FS_CardinalityType
<1>5. UpToHole(s) = SubSeq(s, 1, Cardinality(seen))
  BY DEF UpToHole
<1> HIDE DEF seen
<1> QED
  BY <1>1, <1>4, <1>5

(* Without holes removeBlocks sees every id.                               *)
LEMMA UpToHoleAll ==
    ASSUME NEW s \in Seq(Nat), \A i \in DOMAIN s : s[i] # Hole
    PROVE  UpToHole(s) = s
<1> DEFINE seen == {i \in DOMAIN s : \A j \in 1 .. i : s[j] # Hole}
<1>1. DOMAIN s = 1 .. Len(s) /\ Len(s) \in Nat
  OBVIOUS
<1>2. seen = 1 .. Len(s)
  BY <1>1
<1>3. Cardinality(seen) = Len(s)
  <2>1. Cardinality(1 .. Len(s)) = Len(s)
    BY <1>1, FS_Interval
  <2> QED
    BY <1>2, <2>1
<1>4. UpToHole(s) = SubSeq(s, 1, Cardinality(seen))
  BY DEF UpToHole
<1> HIDE DEF seen
<1>5. UpToHole(s) = SubSeq(s, 1, Len(s))
  BY <1>3, <1>4
<1> QED
  BY <1>5, SubSeqFull, Zenon

(* getOverwrittenBlocks gives a sequence of ids.                           *)
LEMMA OverwrittenType ==
    ASSUME NEW s \in Seq(Nat), NEW off \in Nat, NEW n \in Nat
    PROVE  Overwritten(s, off, n) \in Seq(Nat)
<1> DEFINE last == SmallerOf(off + n, Len(s))
<1>1. last \in Nat /\ last <= Len(s)
  BY DEF SmallerOf
<1>2. SubSeq(s, off + 1, last) \in Seq(Nat)
  <2>1. \A i \in off + 1 .. last : s[i] \in Nat
    BY <1>1
  <2> HIDE DEF last
  <2> QED
    BY <1>1, <2>1
<1> QED
  BY <1>2, UpToHoleType DEF Overwritten

(* pwrite gives a sequence of ids, long enough for the old and the new.    *)
LEMMA OverlayType ==
    ASSUME NEW s \in Seq(Nat), NEW off \in Nat, NEW out \in Seq(Nat)
    PROVE  /\ Overlay(s, off, out) \in Seq(Nat)
           /\ Len(Overlay(s, off, out)) = LargerOf(Len(s), off + Len(out))
<1> DEFINE n == LargerOf(Len(s), off + Len(out))
<1>1. n \in Nat
  BY DEF LargerOf
<1>2. \A i \in 1 .. n : Overlay(s, off, out)[i] \in Nat
  BY DEF Overlay, Hole
<1>3. Overlay(s, off, out) = [i \in 1 .. n |-> Overlay(s, off, out)[i]]
  BY DEF Overlay
<1> HIDE DEF n
<1>4. Overlay(s, off, out) \in [1 .. n -> Nat]
  BY <1>2, <1>3
<1>5. Overlay(s, off, out) \in Seq(Nat) /\ Len(Overlay(s, off, out)) = n
  BY <1>1, <1>4
<1> QED
  BY <1>5 DEF n

(* ftruncate gives a sequence of ids of the new length.                    *)
LEMMA ResizeType ==
    ASSUME NEW s \in Seq(Nat), NEW n \in Nat
    PROVE  /\ Resize(s, n) \in Seq(Nat)
           /\ Len(Resize(s, n)) = n * CellsPerBlock
<1> DEFINE m == n * CellsPerBlock
<1>1. m \in Nat
  BY BbfsAssumption
<1> HIDE DEF m
<1>2. Resize(s, n) = [i \in 1 .. m |-> IF i <= Len(s) THEN s[i] ELSE Hole]
  BY DEF Resize, m
<1>3. Resize(s, n) \in [1 .. m -> Nat]
  BY <1>2 DEF Hole
<1> QED
  BY <1>1, <1>3 DEF m

(* Freeing the files without a name keeps ids in the others.               *)
LEMMA ReclaimType ==
    ASSUME NEW d, cells \in [Inodes -> Seq(Nat)],
           \A f \in Inodes : Len(cells[f]) <= MaxCells
    PROVE  /\ Reclaim(d) \in [Inodes -> Seq(Nat)]
           /\ \A f \in Inodes : Len(Reclaim(d)[f]) <= MaxCells
<1>1. << >> \in Seq(Nat) /\ Len(<< >>) = 0 /\ 0 <= MaxCells
  BY BbfsAssumption
<1> QED
  BY <1>1 DEF Reclaim

-----------------------------------------------------------------------------
(* Part 1: types, ledger and block store, whatever users call.             *)

FilesTypeOK ==
    /\ dir \in [Names -> Inodes \cup {NoFile}]
    /\ cells \in [Inodes -> Seq(Nat)]
    /\ \A f \in Inodes : Len(cells[f]) <= MaxCells

(* The idle request is a request.                                          *)
LEMMA NoReqType == NoReq \in Requests
BY DEF NoReq, Requests

(* The mounted, empty file system is well typed.                           *)
LEMMA TypeInvInit == Init => TypeInv
<1> SUFFICES ASSUME Init PROVE TypeInv
  OBVIOUS
<1>1. LedgerInv
  BY LedgerInitInv DEF Init
<1>2. FilesTypeOK
  BY BbfsAssumption DEF Init, FilesTypeOK
<1>3. req \in Requests /\ HandlerOK
  BY NoReqType DEF Init, HandlerOK, NoReq
<1> QED
  BY <1>1, <1>2, <1>3 DEF TypeInv, TypeOK, FilesTypeOK, LedgerInv

(* The calls that leave the request alone.                                 *)
LEMMA DirectCallInv ==
    ASSUME TypeInv,
           \/ \E n \in Names, f \in Inodes : Mknod(n, f)
           \/ \E n, m \in Names : Rename(n, m)
           \/ \E n, m \in Names : Link(n, m)
           \/ \E n \in Names, size \in 0 .. MaxCells : Ftruncate(n, size)
    PROVE  TypeInv'
<1>1. req = NoReq /\ req' = req /\ ledger' = ledger /\ blocks' = blocks
  BY DEF Mknod, Rename, Link, Ftruncate
<1>2. FilesTypeOK
  BY DEF TypeInv, TypeOK, FilesTypeOK
<1>3. FilesTypeOK'
  <2>1. ASSUME NEW n \in Names, NEW f \in Inodes, Mknod(n, f)
        PROVE  FilesTypeOK'
    BY <1>2, <2>1 DEF FilesTypeOK, Mknod
  <2>2. ASSUME NEW n \in Names, NEW m \in Names, Rename(n, m)
        PROVE  FilesTypeOK'
    <3>1. dir' \in [Names -> Inodes \cup {NoFile}]
      BY <1>2, <2>2 DEF FilesTypeOK, Rename
    <3>2. cells' = Reclaim(dir')
      BY <2>2 DEF Rename
    <3> QED
      BY <1>2, <3>1, <3>2, ReclaimType DEF FilesTypeOK
  <2>3. ASSUME NEW n \in Names, NEW m \in Names, Link(n, m)
        PROVE  FilesTypeOK'
    BY <1>2, <2>3 DEF FilesTypeOK, Link
  <2>4. ASSUME NEW n \in Names, NEW size \in 0 .. MaxCells,
               Ftruncate(n, size)
        PROVE  FilesTypeOK'
    <3>1. dir[n] \in Inodes
      BY <1>2, <2>4 DEF FilesTypeOK, Ftruncate, Exists
    <3>2. cells' = [cells EXCEPT ![dir[n]] = Resize(cells[dir[n]], size)]
      BY <2>4 DEF Ftruncate
    <3>3. /\ Resize(cells[dir[n]], size) \in Seq(Nat)
          /\ Len(Resize(cells[dir[n]], size)) <= MaxCells
      BY <1>2, <2>4, <3>1, ResizeType DEF FilesTypeOK, Ftruncate
    <3> QED
      BY <1>2, <2>4, <3>1, <3>2, <3>3 DEF FilesTypeOK, Ftruncate
  <2> QED
    BY <2>1, <2>2, <2>3, <2>4
<1>4. LedgerInv'
  BY <1>1 DEF TypeInv, LedgerInv, LedgerTypeOK, LedgerOK, BlocksStored
<1>5. HandlerOK' /\ req' \in Requests
  BY <1>1, NoReqType DEF HandlerOK, NoReq
<1> QED
  BY <1>3, <1>4, <1>5 DEF TypeInv, TypeOK, FilesTypeOK, LedgerInv

(* Starting a bb_write keeps the types.                                    *)
LEMMA BeginWriteInv ==
    ASSUME TypeInv, NEW n \in Names, NEW p \in Payloads,
           NEW off \in 0 .. MaxCells, BeginWrite(n, p, off)
    PROVE  TypeInv'
<1> DEFINE old == Overwritten(cells[dir[n]], off, Len(p))
<1>1. p \in Seq(Contents) /\ off \in Nat /\ Len(p) \in Nat
  BY BbfsAssumption
<1>2. dir[n] \in Inodes /\ cells[dir[n]] \in Seq(Nat)
  BY DEF TypeInv, TypeOK, BeginWrite, Exists
<1>3. old \in Seq(Nat)
  BY <1>1, <1>2, OverwrittenType
<1> HIDE DEF old
<1>4. req' = [op |-> "write", name |-> n, off |-> off, data |-> p,
              old |-> old, removed |-> 0, out |-> << >>]
  BY DEF BeginWrite, NoReq, old
<1>5. req' \in Requests
  BY <1>1, <1>3, <1>4 DEF Requests
<1>6. HandlerOK'
  <2>1. Exists(n)' /\ off + Len(p) <= MaxCells
    BY DEF BeginWrite, Exists
  <2> QED
    BY <1>1, <1>3, <1>4, <2>1 DEF HandlerOK
<1> QED
  BY <1>5, <1>6 DEF BeginWrite, TypeInv, TypeOK, LedgerInv, LedgerTypeOK,
                    LedgerOK, BlocksStored

(* Starting a bb_unlink keeps the types.                                   *)
LEMMA BeginUnlinkInv ==
    ASSUME TypeInv, NEW n \in Names, BeginUnlink(n)
    PROVE  TypeInv'
<1> DEFINE old == UpToHole(cells[dir[n]])
<1>1. dir[n] \in Inodes /\ cells[dir[n]] \in Seq(Nat)
  BY DEF TypeInv, TypeOK, BeginUnlink, Exists
<1>2. old \in Seq(Nat)
  BY <1>1, UpToHoleType
<1> HIDE DEF old
<1>3. req' = [op |-> "unlink", name |-> n, off |-> 0, data |-> << >>,
              old |-> old, removed |-> 0, out |-> << >>]
  BY DEF BeginUnlink, NoReq, old
<1>4. req' \in Requests
  BY <1>2, <1>3 DEF Requests
<1>5. HandlerOK'
  <2>1. Exists(n)' /\ 0 <= MaxCells
    BY BbfsAssumption DEF BeginUnlink, Exists
  <2> QED
    BY <1>2, <1>3, <2>1 DEF HandlerOK
<1> QED
  BY <1>4, <1>5 DEF BeginUnlink, TypeInv, TypeOK, LedgerInv, LedgerTypeOK,
                    LedgerOK, BlocksStored

(* One round of removeBlocks keeps the types.                              *)
LEMMA RemoveNextInv ==
    ASSUME TypeInv, RemoveNext
    PROVE  TypeInv'
<1> DEFINE id == req.old[req.removed + 1]
<1>1. /\ req \in Requests
      /\ req.removed \in Nat
      /\ req.old \in Seq(Nat)
      /\ req.removed < Len(req.old)
  BY DEF TypeInv, TypeOK, Requests, RemoveNext
<1>2. id \in Nat
  BY <1>1
<1>3. RemoveBlock(id) /\ UNCHANGED <<dir, cells>>
  BY DEF RemoveNext
<1>4. PICK r \in Nat : /\ r <= Len(req.old)
                       /\ req' = [req EXCEPT !.removed = r]
  <2>1. req' = [req EXCEPT !.removed = IF RemoveFails(id) THEN Len(req.old)
                                       ELSE req.removed + 1]
    BY DEF RemoveNext
  <2>2. CASE RemoveFails(id)
    <3>1. Len(req.old) \in Nat /\ req' = [req EXCEPT !.removed = Len(req.old)]
      BY <1>1, <2>1, <2>2
    <3> QED
      BY <3>1
  <2>3. CASE ~ RemoveFails(id)
    <3>1. req' = [req EXCEPT !.removed = req.removed + 1]
      BY <2>1, <2>3
    <3>2. req.removed + 1 \in Nat /\ req.removed + 1 <= Len(req.old)
      BY <1>1
    <3> QED
      BY <3>1, <3>2
  <2> QED
    BY <2>2, <2>3
<1>5. LedgerInv'
  <2> HIDE DEF id
  <2> QED
    BY <1>2, <1>3, RemoveBlockInv DEF TypeInv
<1>6. req' \in Requests
  BY <1>1, <1>4 DEF Requests
<1>7. /\ req'.op = req.op /\ req'.name = req.name /\ req'.off = req.off
      /\ req'.data = req.data /\ req'.old = req.old /\ req'.out = req.out
      /\ req'.removed = r
  BY <1>1, <1>4 DEF Requests
<1>8. req.op # "idle" /\ req.out = << >>
  <2>1. req.op # "idle"
    BY <1>1 DEF TypeInv, HandlerOK, NoReq
  <2>2. req.removed # Len(req.old)
    BY <1>1
  <2> QED
    BY <2>1, <2>2 DEF TypeInv, HandlerOK
<1>9. HandlerOK'
  BY <1>3, <1>4, <1>7, <1>8 DEF TypeInv, HandlerOK, Exists
<1> QED
  BY <1>3, <1>5, <1>6, <1>9 DEF TypeInv, TypeOK, LedgerInv

(* One round of compressBuffer keeps the types.                            *)
LEMMA PushNextInv ==
    ASSUME TypeInv, NEW k \in Nat, PushNext(k)
    PROVE  TypeInv'
<1> DEFINE t == req.data[Len(req.out) + 1]
<1>1. /\ req \in Requests
      /\ req.out \in Seq(Nat)
      /\ req.data \in Seq(Contents)
      /\ Len(req.out) < Len(req.data)
      /\ req.removed = Len(req.old)
  BY DEF TypeInv, TypeOK, Requests, PushNext
<1>2. t \in Contents
  BY <1>1
<1>3. PushBlock(t, k) /\ UNCHANGED <<dir, cells>>
  BY DEF PushNext
<1>4. LedgerInv'
  <2> HIDE DEF t
  <2> QED
    BY <1>2, <1>3, PushBlockInv DEF TypeInv
<1>5. ledger[k].id \in Nat
  <2>1. k \in DOMAIN ledger
    BY <1>3 DEF PushBlock, ShareBlock, NewBlock, Hit, FirstFree
  <2>2. ledger[k] \in Line
    BY <2>1 DEF TypeInv, TypeOK, LedgerTypeOK
  <2> QED
    BY <2>2 DEF Line
<1>6. req' = [req EXCEPT !.out = Append(req.out, ledger[k].id)]
  BY DEF PushNext
<1> DEFINE out == Append(req.out, ledger[k].id)
<1>7. out \in Seq(Nat) /\ Len(out) = Len(req.out) + 1
  BY <1>1, <1>5
<1> HIDE DEF out
<1>8. /\ req'.op = req.op /\ req'.name = req.name /\ req'.off = req.off
      /\ req'.data = req.data /\ req'.old = req.old
      /\ req'.removed = req.removed /\ req'.out = out
      /\ req' \in Requests
  BY <1>1, <1>6, <1>7 DEF Requests, out
<1>9. req.op # "idle"
  BY <1>1 DEF TypeInv, HandlerOK, NoReq
<1>10. req.op # "unlink"
  <2>1. req.data # << >>
    BY <1>1
  <2> QED
    BY <2>1 DEF TypeInv, HandlerOK
<1>11. HandlerOK'
  <2>1. Len(out) <= Len(req.data)
    BY <1>1, <1>7
  <2> QED
    BY <1>1, <1>3, <1>8, <1>9, <1>10, <2>1 DEF TypeInv, HandlerOK, Exists
<1> QED
  BY <1>3, <1>4, <1>8, <1>11 DEF TypeInv, TypeOK, LedgerInv

(* The pwrite that ends bb_write keeps the types.                          *)
LEMMA PwriteInv ==
    ASSUME TypeInv, Pwrite
    PROVE  TypeInv'
<1> DEFINE f == dir[req.name]
           new == Overlay(cells[f], req.off, req.out)
<1>1. /\ req.name \in Names /\ Exists(req.name)
      /\ req.off + Len(req.data) <= MaxCells
      /\ Len(req.out) = Len(req.data)
  BY DEF TypeInv, HandlerOK, Pwrite
<1>2. /\ f \in Inodes
      /\ cells[f] \in Seq(Nat) /\ Len(cells[f]) <= MaxCells
      /\ req.off \in Nat /\ req.out \in Seq(Nat)
  BY <1>1 DEF TypeInv, TypeOK, Exists, Requests
<1>3. new \in Seq(Nat) /\ Len(new) <= MaxCells
  <2>1. /\ new \in Seq(Nat)
        /\ Len(new) = LargerOf(Len(cells[f]), req.off + Len(req.out))
    BY <1>2, OverlayType
  <2> QED
    BY <1>1, <1>2, <2>1 DEF LargerOf
<1>4. cells' = [cells EXCEPT ![f] = new]
  BY DEF Pwrite
<1> HIDE DEF f, new
<1>5. FilesTypeOK'
  BY <1>2, <1>3, <1>4 DEF Pwrite, TypeInv, TypeOK, FilesTypeOK
<1>6. HandlerOK' /\ req' \in Requests
  BY NoReqType DEF Pwrite, HandlerOK, NoReq
<1> QED
  BY <1>5, <1>6 DEF Pwrite, FilesTypeOK, TypeInv, TypeOK, LedgerInv,
                    LedgerTypeOK, LedgerOK, BlocksStored

(* The unlink that ends bb_unlink keeps the types.                         *)
LEMMA FinishUnlinkInv ==
    ASSUME TypeInv, FinishUnlink
    PROVE  TypeInv'
<1>1. dir' \in [Names -> Inodes \cup {NoFile}]
  BY DEF TypeInv, TypeOK, FinishUnlink
<1>2. cells' = Reclaim(dir')
  BY DEF FinishUnlink
<1>3. FilesTypeOK'
  BY <1>1, <1>2, ReclaimType DEF TypeInv, TypeOK, FilesTypeOK
<1>4. HandlerOK' /\ req' \in Requests
  BY NoReqType DEF FinishUnlink, HandlerOK, NoReq
<1> QED
  BY <1>3, <1>4 DEF FinishUnlink, FilesTypeOK, TypeInv, TypeOK, LedgerInv,
                    LedgerTypeOK, LedgerOK, BlocksStored

(* Every step of the file system keeps the types.                          *)
LEMMA TypeInvNext == TypeInv /\ [Next]_vars => TypeInv'
<1> SUFFICES ASSUME TypeInv, [Next]_vars PROVE TypeInv'
  OBVIOUS
<1>1. CASE Call
  BY <1>1, DirectCallInv, BeginWriteInv, BeginUnlinkInv DEF Call
<1>2. CASE HandlerStep
  <2>1. DOMAIN ledger \subseteq Nat
    BY DEF TypeInv, TypeOK, LedgerTypeOK
  <2> QED
    BY <1>2, <2>1, RemoveNextInv, PushNextInv, PwriteInv, FinishUnlinkInv
       DEF HandlerStep
<1>3. CASE UNCHANGED vars
  BY <1>3 DEF vars, TypeInv, TypeOK, HandlerOK, Exists, LedgerInv,
              LedgerTypeOK, LedgerOK, BlocksStored
<1> QED
  BY <1>1, <1>2, <1>3 DEF Next

(* The type invariant holds in every reachable state.                      *)
LEMMA TypeInvariant == Spec => []TypeInv
BY TypeInvInit, TypeInvNext, PTL DEF Spec

(* The variables of the file system keep their types.                      *)
THEOREM TypesHold == Spec => []TypeOK
<1>1. TypeInv => TypeOK
  BY DEF TypeInv
<1> QED
  BY <1>1, TypeInvariant, PTL

(* The ledger stays addressable by position, by id and by hash, whatever   *)
(* calls users make and whatever the counters do.                          *)
THEOREM LedgerHolds == Spec => []LedgerOK
<1>1. TypeInv => LedgerOK
  BY DEF TypeInv, LedgerInv
<1> QED
  BY <1>1, TypeInvariant, PTL

(* The BL files are always those of the lines with a counter above 0, so   *)
(* the early return of removeBlocks is never taken.                        *)
THEOREM BlocksHold == Spec => []BlocksStored
<1>1. TypeInv => BlocksStored
  BY DEF TypeInv, LedgerInv
<1> QED
  BY <1>1, TypeInvariant, PTL

-----------------------------------------------------------------------------
(* The counters are exact in careful steps.                                *)

(* A place in a file where an id may be.                                   *)
Slots == Inodes \X (1 .. MaxCells)

(* The cells that hold an id can be counted.                               *)
LEMMA SlotsFinite ==
    ASSUME NEW S, S \subseteq Slots
    PROVE  IsFiniteSet(S) /\ Cardinality(S) \in Nat
<1>1. IsFiniteSet(1 .. MaxCells) /\ IsFiniteSet(Inodes)
  BY BbfsAssumption, FS_Interval
<1>2. IsFiniteSet(Slots)
  BY <1>1, FS_Product DEF Slots
<1> QED
  BY <1>2, FS_Subset, FS_CardinalityType

(* What the slots hold are ids of the ledger.                              *)
LEMMA HeldIds ==
    ASSUME TypeInv, FilesOK, NEW f \in Inodes, NEW i \in 1 .. MaxCells
    PROVE  HeldId(f, i) = Hole \/ HeldId(f, i) \in DOMAIN ledger
<1>1. /\ cells[f] \in Seq(Nat)
      /\ req \in Requests
      /\ req.out \in Seq(Nat) /\ req.off \in Nat
  BY DEF TypeInv, TypeOK, Requests
<1>2. CellAt(f, i) = Hole \/ CellAt(f, i) \in DOMAIN ledger
  BY <1>1 DEF CellAt, FilesOK
<1>3. CASE i - req.off <= Len(req.out) /\ i > req.off
  <2>1. i - req.off \in DOMAIN req.out
    BY <1>1, <1>3
  <2> QED
    BY <1>2, <2>1 DEF HeldId, FilesOK
<1>4. CASE ~ (i - req.off <= Len(req.out) /\ i > req.off)
  BY <1>1, <1>2, <1>4 DEF HeldId
<1> QED
  BY <1>3, <1>4

(* Steps that change no slot and no line keep the counters exact.          *)
LEMMA SameSlots ==
    ASSUME RefCountExact, ledger' = ledger,
           \A f \in Inodes : \A i \in 1 .. MaxCells :
              HeldId(f, i)' = HeldId(f, i)
    PROVE  RefCountExact' /\ \A k \in Nat : Refs(k)' = Refs(k)
<1>1. \A k \in Nat : Refs(k)' = Refs(k)
  BY DEF Refs
<1>2. ASSUME NEW k \in DOMAIN ledger
      PROVE  Refs(k)' = Refs(k)
  BY DEF Refs
<1> QED
  BY <1>1, <1>2 DEF RefCountExact

-----------------------------------------------------------------------------
(* The calls.                                                              *)

(* SharingInv holds when the file system is mounted.                       *)
LEMMA SharingInit == Init => SharingInv
<1> SUFFICES ASSUME Init PROVE SharingInv
  OBVIOUS
<1>1. FilesOK /\ OldOK
  BY DEF Init, FilesOK, OldOK, NoReq, Exists
<1>2. Len(ledger) = 1 /\ ledger[1].count = 0 /\ DOMAIN ledger = 1 .. 1
  BY DEF Init, LedgerInit, Sentinel
<1>3. Refs(1) = {}
  BY DEF Init, Refs, HeldId, CellAt, Hole, NoReq
<1>4. RefCountExact
  BY <1>2, <1>3, FS_EmptySet DEF RefCountExact
<1> QED
  BY <1>1, <1>4 DEF SharingInv

(* An empty new file refers to no block.                                   *)
LEMMA MknodSharing ==
    ASSUME TypeInv, SharingInv, NEW n \in Names, NEW f \in Inodes, Mknod(n, f)
    PROVE  SharingInv'
<1>1. /\ req = NoReq /\ req' = NoReq /\ req.op = "idle"
      /\ ledger' = ledger /\ cells' = cells
      /\ dir \in [Names -> Inodes \cup {NoFile}]
      /\ dir' = [dir EXCEPT ![n] = f]
      /\ ~ Linked(f)
  BY DEF Mknod, NoReq, TypeInv, TypeOK
<1>2. \A g \in Inodes, i \in 1 .. MaxCells : HeldId(g, i)' = HeldId(g, i)
  BY <1>1 DEF HeldId, CellAt
<1>3. FilesOK'
  <2>1. ASSUME NEW g \in Inodes, ~ Linked(g)'
        PROVE  ~ Linked(g)
    <3> SUFFICES ASSUME NEW x \in Names, dir[x] = g PROVE FALSE
      BY DEF Linked
    <3>1. x # n
      BY <1>1, BbfsAssumption DEF Mknod, Exists
    <3>2. dir'[x] = g
      BY <1>1, <3>1
    <3> QED
      BY <2>1, <3>2 DEF Linked
  <2> QED
    BY <1>1, <2>1 DEF SharingInv, FilesOK
<1>4. OldOK'
  BY <1>1 DEF OldOK
<1> QED
  BY <1>1, <1>2, <1>3, <1>4, SameSlots DEF SharingInv

(* Calls that take no cell from a file and add none, and leave without a   *)
(* name only files that have no cells.                                     *)
LEMMA SameFiles ==
    ASSUME SharingInv, req = NoReq, UNCHANGED <<ledger, cells, req>>,
           \A g \in Inodes : ~ Linked(g)' => cells[g] = << >>
    PROVE  SharingInv'
<1>1. \A g \in Inodes, i \in 1 .. MaxCells : HeldId(g, i)' = HeldId(g, i)
  BY DEF HeldId, CellAt, NoReq
<1>2. FilesOK'
  BY DEF SharingInv, FilesOK
<1>3. OldOK'
  BY DEF OldOK, NoReq
<1> QED
  BY <1>1, <1>2, <1>3, SameSlots DEF SharingInv

(* A file that loses its last name to a rename had no cells.               *)
LEMMA RenameKeepsCells ==
    ASSUME Careful, NEW n \in Names, NEW m \in Names, Rename(n, m)
    PROVE  cells' = cells /\ \A g \in Inodes : ~ Linked(g)' => cells[g] = << >>
<1>1. cells' = cells /\ cells' = Reclaim(dir')
  BY DEF Careful, Rename
<1>2. ASSUME NEW g \in Inodes, ~ Linked(g)' PROVE cells[g] = << >>
  <2>1. ~ \E o \in Names : dir'[o] = g
    BY <1>2 DEF Linked
  <2> QED
    BY <1>1, <2>1 DEF Reclaim
<1> QED
  BY <1>1, <1>2

(* A renamed file takes its references along.                              *)
LEMMA RenameSharing ==
    ASSUME TypeInv, SharingInv, Careful,
           NEW n \in Names, NEW m \in Names, Rename(n, m)
    PROVE  SharingInv'
<1>1. req = NoReq /\ req' = req /\ ledger' = ledger
  BY DEF Rename
<1>2. cells' = cells /\ \A g \in Inodes : ~ Linked(g)' => cells[g] = << >>
  BY RenameKeepsCells
<1> QED
  BY <1>1, <1>2, SameFiles

(* A second name brings no reference of its own.                           *)
LEMMA LinkSharing ==
    ASSUME TypeInv, SharingInv, NEW n \in Names, NEW m \in Names, Link(n, m)
    PROVE  SharingInv'
<1>1. /\ req = NoReq /\ req' = req /\ ledger' = ledger /\ cells' = cells
      /\ dir \in [Names -> Inodes \cup {NoFile}]
      /\ dir' = [dir EXCEPT ![m] = dir[n]]
      /\ ~ Exists(m)
  BY DEF Link, TypeInv, TypeOK
<1>2. ASSUME NEW g \in Inodes, ~ Linked(g)' PROVE cells[g] = << >>
  <2>1. ASSUME NEW o \in Names, dir[o] = g PROVE FALSE
    <3>1. o # m
      BY <1>1, <2>1, BbfsAssumption DEF Exists
    <3>2. dir'[o] = g
      BY <1>1, <2>1, <3>1
    <3> QED
      BY <1>2, <3>2 DEF Linked
  <2>2. ~ Linked(g)
    BY <2>1 DEF Linked
  <2> QED
    BY <2>2 DEF SharingInv, FilesOK
<1> QED
  BY <1>1, <1>2, SameFiles

(* An ftruncate that is careful changes no file.                           *)
LEMMA FtruncateSharing ==
    ASSUME SharingInv, Careful, NEW n \in Names, NEW size, Ftruncate(n, size)
    PROVE  SharingInv'
<1>1. req = NoReq /\ UNCHANGED <<ledger, cells, req, dir>>
  BY DEF Ftruncate, Careful
<1> QED
  BY <1>1, SameFiles DEF SharingInv, FilesOK, Linked

(* Without holes getOverwrittenBlocks and removeBlocks agree on the ids.   *)
LEMMA OverwrittenIds ==
    ASSUME NEW s \in Seq(Nat), NEW off \in Nat, NEW len \in Nat,
           off <= Len(s), \A i \in DOMAIN s : s[i] # Hole
    PROVE  LET old == Overwritten(s, off, len)
           IN  /\ Len(old) = SmallerOf(off + len, Len(s)) - off
               /\ \A j \in DOMAIN old : old[j] = s[off + j]
<1> DEFINE last == SmallerOf(off + len, Len(s))
           part == SubSeq(s, off + 1, last)
<1>1. last \in Nat /\ last <= Len(s) /\ off <= last
  BY DEF SmallerOf
<1> HIDE DEF last
<1>2. /\ part \in Seq(Nat)
      /\ Len(part) = last - off
      /\ \A j \in DOMAIN part : part[j] = s[off + j]
  <2>1. \A i \in off + 1 .. last : s[i] \in Nat
    BY <1>1
  <2> QED
    BY <1>1, <2>1
<1>3. \A j \in DOMAIN part : part[j] # Hole
  BY <1>1, <1>2
<1> HIDE DEF part
<1>4. UpToHole(part) = part
  BY <1>2, <1>3, UpToHoleAll
<1>5. Overwritten(s, off, len) = part
  BY <1>4 DEF Overwritten, part, last
<1> QED
  BY <1>2, <1>5 DEF last

(* A file holds only ids of the ledger, so it has no hole.                 *)
LEMMA CellsHaveNoHole ==
    ASSUME TypeInv, FilesOK, NEW f \in Inodes
    PROVE  /\ cells[f] \in Seq(Nat)
           /\ \A i \in DOMAIN cells[f] : cells[f][i] # Hole
BY DEF TypeInv, TypeOK, LedgerTypeOK, FilesOK, Hole

(* Starting a bb_write moves no id, so every reference stays counted.      *)
LEMMA BeginWriteSharing ==
    ASSUME TypeInv, SharingInv, Careful, NEW n \in Names,
           NEW p \in Payloads, NEW off \in 0 .. MaxCells, BeginWrite(n, p, off)
    PROVE  SharingInv'
<1> DEFINE s == cells[dir[n]]
           old == Overwritten(s, off, Len(p))
<1>1. /\ p \in Seq(Contents) /\ Len(p) \in Nat /\ off \in Nat
      /\ req = NoReq /\ req.op = "idle"
      /\ ledger' = ledger /\ cells' = cells /\ dir' = dir
      /\ off <= Len(s)
      /\ dir[n] \in Inodes
      /\ s \in Seq(Nat) /\ Len(s) \in Nat
  BY BbfsAssumption
     DEF BeginWrite, NoReq, Careful, TypeInv, TypeOK, Exists
<1>2. /\ Len(old) = SmallerOf(off + Len(p), Len(s)) - off
      /\ \A j \in DOMAIN old : old[j] = s[off + j]
  <2>1. \A i \in DOMAIN s : s[i] # Hole
    BY <1>1, CellsHaveNoHole DEF SharingInv
  <2> HIDE DEF s
  <2> QED
    BY <1>1, <2>1, OverwrittenIds
<1>3. old \in Seq(Nat)
  BY <1>1, OverwrittenType
<1>4. req' = [op |-> "write", name |-> n, off |-> off, data |-> p,
              old |-> old, removed |-> 0, out |-> << >>]
  BY DEF BeginWrite, NoReq
<1> HIDE DEF old
<1>5. \A g \in Inodes, i \in 1 .. MaxCells : HeldId(g, i)' = HeldId(g, i)
  BY <1>1, <1>4 DEF HeldId, CellAt
<1>6. FilesOK'
  BY <1>1, <1>4 DEF SharingInv, FilesOK, Exists, Linked
<1>7. OldOK'
  <2>1. /\ off + Len(old) <= Len(s)
        /\ Len(old) <= Len(p)
        /\ Len(old) < Len(p) => off + Len(old) = Len(s)
    BY <1>1, <1>2 DEF SmallerOf
  <2> QED
    BY <1>1, <1>2, <1>4, <2>1 DEF OldOK
<1> QED
  BY <1>1, <1>5, <1>6, <1>7, SameSlots DEF SharingInv

(* Starting a bb_unlink moves no id, so every reference stays counted.     *)
LEMMA BeginUnlinkSharing ==
    ASSUME TypeInv, SharingInv, Careful, NEW n \in Names, BeginUnlink(n)
    PROVE  SharingInv'
<1> DEFINE s == cells[dir[n]]
<1>1. /\ req = NoReq /\ req.op = "idle"
      /\ ledger' = ledger /\ cells' = cells /\ dir' = dir
      /\ dir[n] \in Inodes
      /\ s \in Seq(Nat) /\ Len(s) \in Nat
  BY DEF BeginUnlink, NoReq, TypeInv, TypeOK, Exists
<1>2. UpToHole(s) = s
  <2>1. \A i \in DOMAIN s : s[i] # Hole
    BY <1>1, CellsHaveNoHole DEF SharingInv
  <2> HIDE DEF s
  <2> QED
    BY <1>1, <2>1, UpToHoleAll
<1>3. req' = [op |-> "unlink", name |-> n, off |-> 0, data |-> << >>,
              old |-> s, removed |-> 0, out |-> << >>]
  BY <1>2 DEF BeginUnlink, NoReq
<1>4. \A g \in Inodes, i \in 1 .. MaxCells : HeldId(g, i)' = HeldId(g, i)
  BY <1>1, <1>3 DEF HeldId, CellAt
<1>5. FilesOK'
  BY <1>1, <1>3 DEF SharingInv, FilesOK, Exists, Linked
<1>6. OldOK'
  <2>1. Sole(n)'
    BY <1>1, <1>3 DEF Careful, Sole
  <2> QED
    BY <1>1, <1>3, <2>1 DEF OldOK
<1> QED
  BY <1>1, <1>4, <1>5, <1>6, SameSlots DEF SharingInv

-----------------------------------------------------------------------------
(* The steps of the handlers.                                              *)

(* removeBlock takes back one reference and loses no block still in use.   *)
LEMMA RemoveNextSharing ==
    ASSUME TypeInv, SharingInv, RemoveNext
    PROVE  /\ SharingInv'
           /\ \A k \in DOMAIN blocks : Refs(k)' # {} =>
                 k \in DOMAIN blocks' /\ blocks'[k] = blocks[k]
<1> DEFINE f == dir[req.name]
           j == req.removed + 1
           id == req.old[j]
           slot == <<f, req.off + j>>
<1>1. /\ req \in Requests
      /\ req.removed \in Nat /\ req.off \in Nat
      /\ req.old \in Seq(Nat) /\ req.data \in Seq(Contents)
      /\ req.removed < Len(req.old)
      /\ j \in DOMAIN req.old
  BY DEF TypeInv, TypeOK, Requests, RemoveNext
<1>2. req.op # "idle" /\ req.out = << >>
  <2>1. req.op # "idle"
    BY <1>1 DEF TypeInv, HandlerOK, NoReq
  <2> QED
    BY <1>1, <2>1 DEF TypeInv, HandlerOK
<1>3. /\ f \in Inodes
      /\ cells[f] \in Seq(Nat) /\ Len(cells[f]) <= MaxCells
      /\ req.off + Len(req.old) <= Len(cells[f])
      /\ id = cells[f][req.off + j]
  BY <1>1, <1>2 DEF TypeInv, TypeOK, HandlerOK, Exists, SharingInv, OldOK
<1>4. /\ req.off + j \in 1 .. MaxCells
      /\ req.off + j \in DOMAIN cells[f]
      /\ slot \in Slots
      /\ id \in DOMAIN ledger
  <2>1. /\ req.off + j \in 1 .. MaxCells
        /\ req.off + j \in 1 .. Len(cells[f])
    <3>1. j \in Nat /\ 1 <= j /\ j <= Len(req.old)
      BY <1>1
    <3>2. /\ Len(cells[f]) \in Nat /\ Len(req.old) \in Nat
          /\ MaxCells \in Nat /\ req.off \in Nat
      <4>1. Len(cells[f]) \in Nat
        <5> HIDE DEF f
        <5> QED
          BY <1>3
      <4>2. Len(req.old) \in Nat
        BY <1>1
      <4> QED
        BY <1>1, <4>1, <4>2, BbfsAssumption
    <3>3. req.off + Len(req.old) <= Len(cells[f]) /\ Len(cells[f]) <= MaxCells
      BY <1>3
    <3> HIDE DEF j, f
    <3> QED
      BY <3>1, <3>2, <3>3
  <2>2. req.off + j \in DOMAIN cells[f]
    BY <1>3, <2>1
  <2> QED
    BY <1>3, <2>1, <2>2 DEF SharingInv, FilesOK, Slots
<1>5. HeldId(f, req.off + j) = id
  <2>1. CellAt(f, req.off + j) = id
    BY <1>3, <1>4 DEF CellAt
  <2>2. /\ ~ (req.off + j <= req.off)
        /\ (req.off + j) - req.off = j
        /\ ~ (j <= Len(req.out))
        /\ ~ (j <= req.removed)
    BY <1>1, <1>2
  <2> QED
    BY <1>2, <2>1, <2>2, Zenon DEF HeldId
<1>6. id # Hole
  BY <1>4 DEF TypeInv, TypeOK, LedgerTypeOK, Hole
<1> DEFINE cnt == ledger[id].count
<1>7. cnt = Cardinality(Refs(id)) /\ slot \in Refs(id)
  BY <1>4, <1>5 DEF SharingInv, RefCountExact, Refs, Slots
<1>8. IsFiniteSet(Refs(id)) /\ cnt \in Nat /\ cnt > 0
  <2>1. IsFiniteSet(Refs(id)) /\ cnt \in Nat
    BY <1>7, SlotsFinite DEF Refs, Slots
  <2>2. cnt # 0
    BY <1>7, <2>1, FS_EmptySet
  <2> QED
    BY <2>1, <2>2
<1>9. ~ RemoveFails(id)
  BY <1>4, <1>8 DEF RemoveFails, TypeInv, LedgerInv, BlocksStored
<1>10. /\ ledger' = [ledger EXCEPT ![id].count = cnt - 1]
       /\ blocks' = IF cnt = 1 THEN DeleteBlock(id) ELSE blocks
       /\ req' = [req EXCEPT !.removed = j]
       /\ dir' = dir /\ cells' = cells
  BY <1>8, <1>9 DEF RemoveNext, RemoveBlock
<1>11. /\ req'.op = req.op /\ req'.name = req.name /\ req'.off = req.off
       /\ req'.data = req.data /\ req'.old = req.old
       /\ req'.out = << >> /\ req'.removed = j
  BY <1>1, <1>2, <1>10 DEF Requests
<1>12. /\ DOMAIN ledger' = DOMAIN ledger
       /\ \A k \in DOMAIN ledger : ledger'[k].count =
             IF k = id THEN cnt - 1 ELSE ledger[k].count
  <2>1. ledger \in Seq(Line) /\ id \in Nat /\ cnt \in Counter
    <3>1. ledger[id] \in Line
      BY <1>4 DEF TypeInv, TypeOK, LedgerTypeOK
    <3> QED
      BY <1>4, <3>1 DEF TypeInv, TypeOK, LedgerTypeOK, Line
  <2>2. cnt - 1 \in Counter
    BY <1>8, <2>1, LedgerAssumption, SMT DEF Counter
  <2>3. LedgerTypeOK
    BY DEF TypeInv, TypeOK
  <2> HIDE DEF id, cnt
  <2> QED
    BY <1>10, <2>1, <2>2, <2>3, SetCount
<1>13. \A g \in Inodes, i \in 1 .. MaxCells :
          HeldId(g, i)' = IF <<g, i>> = slot THEN Hole ELSE HeldId(g, i)
  <2> SUFFICES ASSUME NEW g \in Inodes, NEW i \in 1 .. MaxCells
               PROVE  HeldId(g, i)' =
                         IF <<g, i>> = slot THEN Hole ELSE HeldId(g, i)
    OBVIOUS
  <2>1. CellAt(g, i)' = CellAt(g, i)
    BY <1>10 DEF CellAt
  <2>2. CASE g # f \/ i <= req.off
    BY <1>1, <1>2, <1>10, <1>11, <2>1, <2>2 DEF HeldId
  <2>3. CASE g = f /\ i > req.off
    <3>1. HeldId(g, i) =
             IF i - req.off <= req.removed THEN Hole ELSE CellAt(g, i)
      BY <1>1, <1>2, <2>3 DEF HeldId
    <3>2. HeldId(g, i)' = IF i - req.off <= j THEN Hole ELSE CellAt(g, i)
      <4>1. /\ req'.op # "idle" /\ g = dir'[req'.name]
            /\ ~ (i <= req'.off)
            /\ ~ (i - req'.off <= Len(req'.out))
        BY <1>1, <1>2, <1>10, <1>11, <2>3
      <4> QED
        BY <1>11, <2>1, <4>1, Zenon DEF HeldId
    <3>3. i - req.off <= j <=>
             (i - req.off <= req.removed \/ i = req.off + j)
      <4>1. i \in Int /\ req.off \in Int /\ req.removed \in Int
        BY <1>1
      <4> QED
        BY <4>1
    <3>4. <<g, i>> = slot <=> i = req.off + j
      BY <2>3
    <3> QED
      BY <3>1, <3>2, <3>3, <3>4, Zenon
  <2>4. i \in Nat /\ req.off \in Nat
    BY <1>1
  <2> QED
    BY <2>2, <2>3, <2>4
<1>14. \A k \in DOMAIN ledger :
          Refs(k)' = IF k = id THEN Refs(id) \ {slot} ELSE Refs(k)
  <2> SUFFICES ASSUME NEW k \in DOMAIN ledger
               PROVE  Refs(k)' =
                         IF k = id THEN Refs(id) \ {slot} ELSE Refs(k)
    OBVIOUS
  <2>1. k # Hole
    BY DEF TypeInv, TypeOK, LedgerTypeOK, Hole
  <2>2. \A r \in Slots :
           r \in Refs(k)' <=> (r # slot /\ r \in Refs(k))
    <3> SUFFICES ASSUME NEW g \in Inodes, NEW i \in 1 .. MaxCells
                 PROVE  <<g, i>> \in Refs(k)' <=>
                           (<<g, i>> # slot /\ <<g, i>> \in Refs(k))
      BY DEF Slots
    <3>1. <<g, i>> \in Refs(k)' <=> HeldId(g, i)' = k
      BY DEF Refs
    <3>2. <<g, i>> \in Refs(k) <=> HeldId(g, i) = k
      BY DEF Refs
    <3> QED
      BY <1>13, <2>1, <3>1, <3>2
  <2>3. Refs(k)' \subseteq Slots /\ Refs(k) \subseteq Slots
    BY DEF Refs, Slots
  <2>4. k # id => slot \notin Refs(k)
    BY <1>5 DEF Refs
  <2> QED
    BY <2>2, <2>3, <2>4
<1> DEFINE rest == Refs(id) \ {slot}
<1>15. IsFiniteSet(rest) /\ Cardinality(rest) = cnt - 1
  BY <1>7, <1>8, FS_RemoveElement
<1>16. RefCountExact'
  <2>1. \A k \in DOMAIN ledger : ledger'[k].count = Cardinality(Refs(k)')
    BY <1>12, <1>14, <1>15 DEF SharingInv, RefCountExact
  <2> QED
    BY <1>12, <2>1 DEF RefCountExact
<1>17. FilesOK'
  BY <1>10, <1>11, <1>12 DEF SharingInv, FilesOK, Exists, Linked
<1>18. OldOK'
  BY <1>10, <1>11 DEF SharingInv, OldOK, Sole
<1>19. ASSUME NEW k \in DOMAIN blocks, Refs(k)' # {}
       PROVE  k \in DOMAIN blocks' /\ blocks'[k] = blocks[k]
  <2>1. CASE cnt = 1
    <3>1. rest = {}
      <4> HIDE DEF rest
      <4>1. Cardinality(rest) = 0
        BY <1>8, <1>15, <2>1
      <4> QED
        BY <1>15, <4>1, FS_EmptySet
    <3>2. k # id
      <4>1. k \in DOMAIN ledger
        BY DEF TypeInv, LedgerInv, BlocksStored
      <4> HIDE DEF id
      <4> QED
        BY <1>14, <1>19, <3>1, <4>1
    <3> QED
      BY <1>10, <2>1, <3>2 DEF DeleteBlock
  <2>2. CASE cnt # 1
    BY <1>10, <2>2
  <2> QED
    BY <2>1, <2>2
<1> QED
  BY <1>16, <1>17, <1>18, <1>19 DEF SharingInv

(* The counter of a line after PushBlock, and that a line with users is    *)
(* shared and never taken for another hash: if its last digit were 0, the  *)
(* number of its users would be round.                                     *)
LEMMA PushBlockCounts ==
    ASSUME TypeInv, RefCountExact,
           NEW c \in Contents, NEW k \in Nat, PushBlock(c, k),
           Miss(HashOf[c]) => ~ RoundCount
    PROVE  /\ k \in DOMAIN ledger
           /\ ledger[k].count + 1 < Radix * Radix =>
                 \A i \in DOMAIN ledger : ledger'[i].count =
                    IF i = k THEN ledger[k].count + 1 ELSE ledger[i].count
           /\ Len(ledger') \in {Len(ledger), Len(ledger) + 1}
           /\ Len(ledger') = Len(ledger) + 1 =>
                 ledger'[Len(ledger) + 1].count = 0
           /\ \A i \in DOMAIN blocks :
                 i \in DOMAIN blocks' /\ blocks'[i] = blocks[i]
<1>1. /\ LedgerTypeOK /\ LedgerOK /\ BlocksStored
      /\ ledger \in Seq(Line)
  BY DEF TypeInv, LedgerInv, LedgerTypeOK
<1>2. ASSUME NEW i \in DOMAIN ledger
      PROVE  ledger[i].count \in Counter /\ ledger[i].count \in Nat
  <2>1. ledger[i] \in Line
    BY <1>1
  <2> QED
    BY <2>1, LedgerAssumption DEF Line, Counter
<1>3. CASE ShareBlock(c, k)
  <2>1. k \in DOMAIN ledger /\ ledger[k].id = k
    BY <1>1, <1>3 DEF ShareBlock, Hit, LedgerOK
  <2> DEFINE n == Bump(ledger[k].count)
  <2>2. n \in Counter
    BY <1>2, <2>1, BumpCounter
  <2>3. ledger' = [ledger EXCEPT ![k].count = n]
    BY <1>3 DEF ShareBlock
  <2>4. /\ Len(ledger') = Len(ledger)
        /\ \A i \in DOMAIN ledger : ledger'[i].count =
              IF i = k THEN n ELSE ledger[i].count
    <3> HIDE DEF n
    <3> QED
      BY <1>1, <2>2, <2>3, SetCount
  <2>5. ledger[k].count + 1 < Radix * Radix => n = ledger[k].count + 1
    BY DEF Bump
  <2>6. \A i \in DOMAIN blocks :
           i \in DOMAIN blocks' /\ blocks'[i] = blocks[i]
    <3>1. CASE ledger[k].count = 0
      <4>1. k \notin DOMAIN blocks
        BY <1>1, <3>1 DEF BlocksStored
      <4>2. blocks' = CreateBlock(k, c)
        BY <1>3, <2>1, <3>1 DEF ShareBlock
      <4> QED
        BY <4>1, <4>2 DEF CreateBlock
    <3>2. CASE ledger[k].count # 0
      BY <1>3, <3>2 DEF ShareBlock
    <3> QED
      BY <3>1, <3>2
  <2>7. Len(ledger) \in Nat
    BY <1>1
  <2> HIDE DEF n
  <2> QED
    BY <2>1, <2>4, <2>5, <2>6, <2>7
<1>4. CASE NewBlock(c, k)
  <2>1. k \in DOMAIN ledger /\ ledger[k].id = k /\ LooksFree(ledger[k])
    BY <1>1, <1>4 DEF NewBlock, FirstFree, LedgerOK
  <2>2. ledger[k].count = 0
    <3>1. ledger[k].count = Cardinality(Refs(k))
      BY <2>1 DEF RefCountExact
    <3>2. Cardinality(Refs(k)) % Radix = 0
      BY <2>1, <3>1 DEF LooksFree
    <3>3. Refs(k) = {}
      BY <1>4, <2>1, <3>2 DEF NewBlock, RoundCount
    <3> QED
      BY <3>1, <3>3, FS_EmptySet
  <2>3. ledger' = AddHash(HashOf[c], k) /\ blocks' = CreateBlock(k, c)
    BY <1>4, <2>1 DEF NewBlock
  <2>4. /\ Len(ledger') = IF k = Len(ledger) THEN Len(ledger) + 1
                          ELSE Len(ledger)
        /\ \A i \in DOMAIN ledger :
              ledger'[i] = IF i = k
                           THEN [id |-> k, hash |-> HashOf[c], count |-> 1]
                           ELSE ledger[i]
        /\ k = Len(ledger) => ledger'[Len(ledger) + 1] = Sentinel(k + 1)
    BY <1>1, <2>1, <2>3, AddHashLines, LedgerAssumption
  <2>5. \A i \in DOMAIN ledger : ledger'[i].count =
           IF i = k THEN ledger[k].count + 1 ELSE ledger[i].count
    BY <2>2, <2>4
  <2>6. \A i \in DOMAIN blocks :
           i \in DOMAIN blocks' /\ blocks'[i] = blocks[i]
    <3>1. k \notin DOMAIN blocks
      BY <1>1, <2>2 DEF BlocksStored
    <3> QED
      BY <2>3, <3>1 DEF CreateBlock
  <2>7. /\ Len(ledger') \in {Len(ledger), Len(ledger) + 1}
        /\ Len(ledger') = Len(ledger) + 1 =>
              ledger'[Len(ledger) + 1].count = 0
    <3>1. Len(ledger) \in Nat
      BY <1>1
    <3> QED
      BY <2>4, <3>1 DEF Sentinel
  <2> QED
    BY <2>1, <2>5, <2>6, <2>7
<1> QED
  BY <1>3, <1>4 DEF PushBlock

(* pushBlock counts the reference the writer now holds, losing no block.   *)
LEMMA PushNextSharing ==
    ASSUME TypeInv, SharingInv, Careful, NEW k \in Nat, PushNext(k)
    PROVE  /\ SharingInv'
           /\ \A i \in DOMAIN blocks :
                 i \in DOMAIN blocks' /\ blocks'[i] = blocks[i]
<1> DEFINE f == dir[req.name]
           j == Len(req.out) + 1
           t == req.data[j]
<1>1. /\ req \in Requests
      /\ req.removed \in Nat /\ req.off \in Nat
      /\ req.old \in Seq(Nat) /\ req.out \in Seq(Nat)
      /\ req.data \in Seq(Contents)
      /\ Len(req.out) \in Nat /\ Len(req.data) \in Nat
      /\ Len(req.old) \in Nat
      /\ Len(req.out) < Len(req.data)
      /\ req.removed = Len(req.old)
  BY DEF TypeInv, TypeOK, Requests, PushNext
<1>2. req.op # "idle" /\ req.op = "write"
  <2>1. req.op # "idle"
    BY <1>1 DEF TypeInv, HandlerOK, NoReq
  <2>2. req.data # << >>
    BY <1>1
  <2> QED
    BY <1>1, <2>1, <2>2 DEF TypeInv, HandlerOK, Requests
<1>3. /\ f \in Inodes
      /\ cells[f] \in Seq(Nat) /\ Len(cells[f]) \in Nat
      /\ req.off + Len(req.data) <= MaxCells
      /\ Len(req.old) < Len(req.data) => req.off + Len(req.old) = Len(cells[f])
      /\ Len(req.old) <= Len(req.data)
  BY <1>1, <1>2
     DEF TypeInv, TypeOK, HandlerOK, Exists, SharingInv, OldOK
<1>4. t \in Contents
  BY <1>1
<1>5. PushBlock(t, k) /\ dir' = dir /\ cells' = cells
  BY DEF PushNext
<1> DEFINE at == req.off + j
<1>6. at \in 1 .. MaxCells /\ at > req.off /\ at - req.off = j
  <2>1. req.off \in Nat /\ j \in Nat /\ j > 0
    BY <1>1
  <2>2. Len(req.data) \in Nat /\ j <= Len(req.data)
    BY <1>1
  <2>3. req.off + Len(req.data) <= MaxCells /\ MaxCells \in Nat
    BY <1>3, BbfsAssumption
  <2> HIDE DEF j
  <2>4. at \in Nat /\ at > req.off /\ at - req.off = j /\ at > 0
    BY <2>1
  <2>5. at <= MaxCells
    BY <2>1, <2>2, <2>3
  <2> QED
    BY <2>3, <2>4, <2>5
<1>7. HeldId(f, at) = Hole
  <2>1. ~ (j <= Len(req.out)) /\ ~ (at <= req.off)
    BY <1>1, <1>6
  <2>2. CASE j <= req.removed
    BY <1>2, <1>6, <2>1, <2>2 DEF HeldId
  <2>3. CASE ~ (j <= req.removed)
    <3>1. ~ (at <= Len(cells[f]))
      BY <1>1, <1>3, <2>3
    <3>2. CellAt(f, at) = Hole
      BY <3>1, Zenon DEF CellAt
    <3> QED
      BY <1>2, <1>6, <2>1, <2>3, <3>2 DEF HeldId
  <2> QED
    BY <2>2, <2>3
<1>8. /\ k \in DOMAIN ledger
      /\ ledger[k].count + 1 < Radix * Radix =>
            \A i \in DOMAIN ledger : ledger'[i].count =
               IF i = k THEN ledger[k].count + 1 ELSE ledger[i].count
      /\ Len(ledger') \in {Len(ledger), Len(ledger) + 1}
      /\ Len(ledger') = Len(ledger) + 1 =>
            ledger'[Len(ledger) + 1].count = 0
      /\ \A i \in DOMAIN blocks :
            i \in DOMAIN blocks' /\ blocks'[i] = blocks[i]
  <2>1. Miss(HashOf[t]) => ~ RoundCount
    <3>1. Len(req'.out) = Len(req.out) + 1
      BY <1>1 DEF PushNext, Requests
    <3>2. Len(req.out) < Len(req'.out)
      BY <1>1, <3>1
    <3> QED
      BY <3>2 DEF Careful, NewText
  <2> HIDE DEF t
  <2> QED
    BY <1>4, <1>5, <2>1, PushBlockCounts DEF SharingInv
<1>9. /\ ledger[k].id = k
      /\ DOMAIN ledger = 1 .. Len(ledger) /\ Len(ledger) \in Nat
      /\ k # Hole
  BY <1>8 DEF TypeInv, TypeOK, LedgerInv, LedgerOK, LedgerTypeOK, Hole
<1>10. req' = [req EXCEPT !.out = Append(req.out, k)]
  BY <1>9 DEF PushNext
<1>11. /\ req'.op = req.op /\ req'.name = req.name /\ req'.off = req.off
       /\ req'.data = req.data /\ req'.old = req.old
       /\ req'.removed = req.removed
       /\ req'.out = Append(req.out, k)
       /\ Len(req'.out) = j
       /\ req'.out[j] = k
       /\ \A i \in 1 .. Len(req.out) : req'.out[i] = req.out[i]
       /\ DOMAIN req'.out = 1 .. j
  BY <1>1, <1>10 DEF Requests
<1>12. /\ DOMAIN ledger \subseteq DOMAIN ledger'
       /\ DOMAIN ledger' = 1 .. Len(ledger')
  <2>1. LedgerTypeOK'
    BY PushNextInv DEF TypeInv, TypeOK
  <2> QED
    BY <1>8, <1>9, <2>1 DEF LedgerTypeOK
<1>13. \A g \in Inodes, i \in 1 .. MaxCells :
          HeldId(g, i)' = IF g = f /\ i = at THEN k ELSE HeldId(g, i)
  <2> SUFFICES ASSUME NEW g \in Inodes, NEW i \in 1 .. MaxCells
               PROVE  HeldId(g, i)' =
                         IF g = f /\ i = at THEN k ELSE HeldId(g, i)
    OBVIOUS
  <2>1. CellAt(g, i)' = CellAt(g, i)
    BY <1>5 DEF CellAt
  <2>2. i \in Nat /\ req.off \in Nat
    BY <1>1
  <2>3. CASE g # f \/ i <= req.off
    <3>1. ~ (g = f /\ i = at)
      BY <1>6, <2>2, <2>3
    <3>2. HeldId(g, i) = CellAt(g, i)
      BY <2>3 DEF HeldId
    <3>3. g # dir'[req'.name] \/ i <= req'.off
      BY <1>5, <1>11, <2>3
    <3>4. HeldId(g, i)' = CellAt(g, i)'
      BY <3>3, Zenon DEF HeldId
    <3> QED
      BY <2>1, <3>1, <3>2, <3>4
  <2>4. CASE g = f /\ ~ (i <= req.off)
    <3>1. /\ req'.op # "idle" /\ g = dir'[req'.name]
          /\ ~ (i <= req'.off)
      BY <1>2, <1>5, <1>11, <2>4
    <3>2. i - req.off \in Nat /\ i - req.off > 0
      BY <2>2, <2>4
    <3>3. CASE i - req.off <= Len(req.out)
      <4>1. i - req'.off <= Len(req'.out) /\ i # at
        <5>1. Len(req.out) \in Nat /\ Len(req.out) < j
          BY <1>1
        <5>2. at - req.off = j
          BY <1>6
        <5>3. req'.off = req.off /\ Len(req'.out) = j
          BY <1>11
        <5> HIDE DEF j, at
        <5> QED
          BY <2>2, <3>3, <5>1, <5>2, <5>3
      <4>2. HeldId(g, i)' = req'.out[i - req'.off]
        BY <3>1, <4>1, Zenon DEF HeldId
      <4>3. HeldId(g, i) = req.out[i - req.off]
        BY <1>2, <2>4, <3>3, Zenon DEF HeldId
      <4>4. i - req.off \in 1 .. Len(req.out)
        BY <1>1, <3>2, <3>3
      <4> QED
        BY <1>11, <4>1, <4>2, <4>3, <4>4
    <3>4. CASE i = at
      <4>1. i - req'.off <= Len(req'.out)
        BY <1>1, <1>6, <1>11, <3>4
      <4>2. HeldId(g, i)' = req'.out[i - req'.off]
        BY <3>1, <4>1, Zenon DEF HeldId
      <4>3. i - req'.off = j
        BY <1>6, <1>11, <3>4
      <4> QED
        BY <1>11, <2>4, <3>4, <4>2, <4>3
    <3>5. CASE ~ (i - req.off <= Len(req.out)) /\ i # at
      <4>1. ~ (i - req'.off <= Len(req'.out))
        <5>1. i - req.off # j
          BY <1>1, <2>2, <3>5
        <5>2. ~ (i - req.off <= j)
          BY <1>1, <3>2, <3>5, <5>1
        <5> QED
          BY <1>11, <5>2
      <4>2. HeldId(g, i)' = IF i - req'.off <= req'.removed THEN Hole
                            ELSE CellAt(g, i)'
        BY <3>1, <4>1, Zenon DEF HeldId
      <4>3. HeldId(g, i) = IF i - req.off <= req.removed THEN Hole
                           ELSE CellAt(g, i)
        BY <1>2, <2>4, <3>5, Zenon DEF HeldId
      <4> QED
        BY <1>11, <2>1, <3>5, <4>2, <4>3
    <3> QED
      BY <3>3, <3>4, <3>5
  <2> QED
    BY <2>3, <2>4
<1> DEFINE slot == <<f, at>>
<1>14. slot \in Slots /\ slot \notin Refs(k)
  BY <1>3, <1>6, <1>7, <1>9 DEF Slots, Refs
<1>15. \A n \in Nat : n # Hole =>
          Refs(n)' = IF n = k THEN Refs(k) \cup {slot} ELSE Refs(n)
  <2> SUFFICES ASSUME NEW n \in Nat, n # Hole
               PROVE  Refs(n)' =
                         IF n = k THEN Refs(k) \cup {slot} ELSE Refs(n)
    OBVIOUS
  <2>1. slot \notin Refs(n)
    BY <1>7 DEF Refs
  <2>2. \A g \in Inodes, i \in 1 .. MaxCells :
           <<g, i>> \in Refs(n)' <=>
              (<<g, i>> \in Refs(n) \/ (n = k /\ <<g, i>> = slot))
    <3> SUFFICES ASSUME NEW g \in Inodes, NEW i \in 1 .. MaxCells
                 PROVE  <<g, i>> \in Refs(n)' <=>
                    (<<g, i>> \in Refs(n) \/ (n = k /\ <<g, i>> = slot))
      OBVIOUS
    <3>1. <<g, i>> \in Refs(n)' <=> HeldId(g, i)' = n
      BY DEF Refs
    <3>2. <<g, i>> \in Refs(n) <=> HeldId(g, i) = n
      BY DEF Refs
    <3>3. <<g, i>> = slot <=> g = f /\ i = at
      OBVIOUS
    <3> HIDE DEF slot, at, f
    <3> QED
      BY <1>13, <2>1, <3>1, <3>2, <3>3
  <2>3. Refs(n)' \subseteq Slots /\ Refs(n) \subseteq Slots
    BY DEF Refs, Slots
  <2>4. \A r \in Slots :
           r \in Refs(n)' <=> (r \in Refs(n) \/ (n = k /\ r = slot))
    <3> HIDE DEF slot
    <3> QED
      BY <2>2 DEF Slots
  <2> HIDE DEF slot
  <2>5. CASE n = k
    <3>1. \A r : r \in Refs(n)' <=> r \in Refs(k) \cup {slot}
      BY <1>14, <2>3, <2>4, <2>5
    <3> QED
      BY <2>5, <3>1
  <2>6. CASE n # k
    <3>1. \A r : r \in Refs(n)' <=> r \in Refs(n)
      BY <2>3, <2>4, <2>6
    <3> QED
      BY <2>6, <3>1
  <2> QED
    BY <2>5, <2>6
<1>16. /\ ledger[k].count = Cardinality(Refs(k))
       /\ IsFiniteSet(Refs(k)) /\ Cardinality(Refs(k)) \in Nat
       /\ Cardinality(Refs(k) \cup {slot}) = Cardinality(Refs(k)) + 1
  <2>1. Refs(k) \subseteq Slots
    BY DEF Refs, Slots
  <2>2. IsFiniteSet(Refs(k)) /\ Cardinality(Refs(k)) \in Nat
    BY <2>1, SlotsFinite
  <2> QED
    BY <1>8, <1>14, <2>2, FS_AddElement DEF SharingInv, RefCountExact
<1>17. ledger[k].count + 1 < Radix * Radix
  <2>1. k \in DOMAIN ledger' /\ Refs(k)' = Refs(k) \cup {slot}
    BY <1>8, <1>9, <1>12, <1>15
  <2>2. Cardinality(Refs(k)') < Radix * Radix
    BY <2>1 DEF Careful, Countable
  <2> HIDE DEF slot
  <2> QED
    BY <1>16, <2>1, <2>2
<1>18. RefCountExact'
  <2> SUFFICES ASSUME NEW n \in DOMAIN ledger'
               PROVE  ledger'[n].count = Cardinality(Refs(n)')
    BY DEF RefCountExact
  <2>1. n \in Nat /\ n # Hole
    BY <1>12 DEF Hole
  <2>2. CASE n \in DOMAIN ledger
    <3>1. ledger'[n].count = IF n = k THEN ledger[k].count + 1
                             ELSE ledger[n].count
      BY <1>8, <1>17, <2>2
    <3>2. ledger[n].count = Cardinality(Refs(n))
      BY <2>2 DEF SharingInv, RefCountExact
    <3> HIDE DEF slot
    <3> QED
      BY <1>15, <1>16, <2>1, <3>1, <3>2
  <2>3. CASE n \notin DOMAIN ledger
    <3>1. n = Len(ledger) + 1 /\ ledger'[n].count = 0
      <4>1. n \in 1 .. Len(ledger') /\ n \notin 1 .. Len(ledger)
        BY <1>9, <1>12, <2>3
      <4>2. n = Len(ledger) + 1 /\ Len(ledger') = Len(ledger) + 1
        BY <1>8, <1>9, <4>1
      <4> QED
        BY <1>8, <4>2
    <3>2. Refs(n) = {}
      BY <2>1, <2>3, HeldIds DEF SharingInv, Refs
    <3>3. n # k
      BY <1>8, <2>3
    <3> QED
      BY <1>15, <2>1, <3>1, <3>2, <3>3, FS_EmptySet
  <2> QED
    BY <2>2, <2>3
<1>19. FilesOK'
  <2>1. \A i \in DOMAIN req'.out : req'.out[i] \in DOMAIN ledger
    BY <1>1, <1>8, <1>11 DEF SharingInv, FilesOK
  <2> QED
    BY <1>5, <1>12, <2>1 DEF SharingInv, FilesOK, Exists, Linked
<1>20. OldOK'
  BY <1>5, <1>11 DEF SharingInv, OldOK, Sole
<1> QED
  BY <1>8, <1>18, <1>19, <1>20 DEF SharingInv

(* The pwrite that ends bb_write hands its references to the file.         *)
LEMMA PwriteSharing ==
    ASSUME TypeInv, SharingInv, Pwrite
    PROVE  SharingInv'
<1> DEFINE f == dir[req.name]
           s == cells[f]
           new == Overlay(s, req.off, req.out)
<1>1. /\ req.op = "write" /\ req' = NoReq /\ req'.op = "idle"
      /\ ledger' = ledger /\ dir' = dir
      /\ cells' = [cells EXCEPT ![f] = new]
      /\ Len(req.out) = Len(req.data)
      /\ req.removed = Len(req.old)
  BY DEF Pwrite, NoReq
<1>2. /\ f \in Inodes /\ cells \in [Inodes -> Seq(Nat)]
      /\ s \in Seq(Nat) /\ Len(s) \in Nat
      /\ req.off \in Nat /\ req.out \in Seq(Nat) /\ Len(req.out) \in Nat
      /\ req.off <= Len(s)
      /\ Len(req.old) <= Len(req.out)
      /\ Len(req.old) \in Nat
  <2>1. req \in Requests
    BY DEF TypeInv, TypeOK
  <2>2. f \in Inodes /\ cells \in [Inodes -> Seq(Nat)]
    BY <1>1 DEF TypeInv, TypeOK, HandlerOK, Exists
  <2>3. req.off + Len(req.old) <= Len(s) /\ Len(req.old) <= Len(req.data)
    BY <1>1 DEF SharingInv, OldOK
  <2>4. /\ req.off \in Nat /\ req.out \in Seq(Nat) /\ req.old \in Seq(Nat)
        /\ s \in Seq(Nat)
    BY <2>1, <2>2 DEF Requests
  <2>5. Len(s) \in Nat /\ Len(req.old) \in Nat /\ Len(req.out) \in Nat
    BY <2>4
  <2> HIDE DEF f, s
  <2> QED
    BY <1>1, <2>2, <2>3, <2>4, <2>5
<1>3. /\ new \in Seq(Nat)
      /\ Len(new) = LargerOf(Len(s), req.off + Len(req.out))
      /\ DOMAIN new = 1 .. Len(new) /\ Len(new) \in Nat
  <2>1. /\ new \in Seq(Nat)
        /\ Len(new) = LargerOf(Len(s), req.off + Len(req.out))
    <3> HIDE DEF s
    <3> QED
      BY <1>2, OverlayType
  <2> HIDE DEF new
  <2> QED
    BY <2>1
<1>4. \A i \in 1 .. Len(new) : new[i] =
         IF req.off < i /\ i <= req.off + Len(req.out)
         THEN req.out[i - req.off] ELSE s[i]
  <2> SUFFICES ASSUME NEW i \in 1 .. Len(new)
               PROVE  new[i] = IF req.off < i /\ i <= req.off + Len(req.out)
                               THEN req.out[i - req.off] ELSE s[i]
    OBVIOUS
  <2>1. new[i] = IF req.off < i /\ i <= req.off + Len(req.out)
                 THEN req.out[i - req.off]
                 ELSE IF i <= Len(s) THEN s[i] ELSE Hole
    BY <1>3 DEF Overlay
  <2>2. ~ (req.off < i /\ i <= req.off + Len(req.out)) => i <= Len(s)
    BY <1>2, <1>3 DEF LargerOf
  <2> QED
    BY <2>1, <2>2
<1> HIDE DEF new
<1>5. \A g \in Inodes, i \in 1 .. MaxCells : HeldId(g, i)' = HeldId(g, i)
  <2> SUFFICES ASSUME NEW g \in Inodes, NEW i \in 1 .. MaxCells
               PROVE  HeldId(g, i)' = HeldId(g, i)
    OBVIOUS
  <2>1. HeldId(g, i)' = CellAt(g, i)'
    BY <1>1 DEF HeldId
  <2>2. i \in Nat /\ i > 0
    OBVIOUS
  <2>3. CASE g # f
    <3>1. CellAt(g, i)' = CellAt(g, i)
      BY <1>1, <1>2, <2>3 DEF CellAt
    <3> QED
      BY <2>1, <2>3, <3>1 DEF HeldId
  <2>4. CASE g = f
    <3>1. CellAt(g, i)' = IF i <= Len(new) THEN new[i] ELSE Hole
      BY <1>1, <1>2, <2>4 DEF CellAt
    <3>2. CASE i <= req.off
      <4>1. i \in 1 .. Len(new) /\ i <= Len(s)
        <5>1. req.off \in Nat /\ Len(s) \in Nat /\ req.off <= Len(s)
          BY <1>2
        <5>2. Len(new) \in Nat /\ Len(s) <= Len(new)
          BY <1>2, <1>3 DEF LargerOf
        <5> QED
          BY <2>2, <3>2, <5>1, <5>2
      <4>2. new[i] = s[i]
        <5>1. ~ (req.off < i)
          BY <1>2, <2>2, <3>2
        <5> QED
          BY <1>4, <4>1, <5>1
      <4>3. HeldId(g, i) = CellAt(g, i)
        BY <3>2 DEF HeldId
      <4>4. CellAt(g, i) = s[i]
        BY <2>4, <4>1 DEF CellAt
      <4> QED
        BY <2>1, <3>1, <4>1, <4>2, <4>3, <4>4
    <3>3. CASE req.off < i /\ i <= req.off + Len(req.out)
      <4>1. i \in 1 .. Len(new)
        BY <1>2, <1>3, <2>2, <3>3 DEF LargerOf
      <4>2. new[i] = req.out[i - req.off]
        BY <1>4, <3>3, <4>1
      <4>3. ~ (i <= req.off) /\ i - req.off <= Len(req.out)
        BY <1>2, <2>2, <3>3
      <4>4. HeldId(g, i) = req.out[i - req.off]
        BY <1>1, <2>4, <4>3 DEF HeldId
      <4> QED
        BY <2>1, <3>1, <4>1, <4>2, <4>4
    <3>4. CASE req.off + Len(req.out) < i
      <4>1. /\ ~ (i <= req.off)
            /\ ~ (i - req.off <= Len(req.out))
            /\ ~ (i - req.off <= req.removed)
        BY <1>1, <1>2, <2>2, <3>4
      <4>2. HeldId(g, i) = CellAt(g, i)
        BY <1>1, <2>4, <4>1 DEF HeldId
      <4>3. i <= Len(new) <=> i <= Len(s)
        BY <1>2, <1>3, <2>2, <3>4 DEF LargerOf
      <4>4. CASE i <= Len(s)
        <5>1. new[i] = s[i]
          BY <1>2, <1>4, <2>2, <3>4, <4>3, <4>4
        <5> QED
          BY <2>1, <2>4, <3>1, <4>2, <4>3, <4>4, <5>1 DEF CellAt
      <4>5. CASE ~ (i <= Len(s))
        BY <2>1, <2>4, <3>1, <4>2, <4>3, <4>5 DEF CellAt
      <4> QED
        BY <4>4, <4>5
    <3> QED
      BY <1>2, <2>2, <3>2, <3>3, <3>4
  <2> QED
    BY <2>3, <2>4
<1>6. FilesOK'
  <2>1. \A i \in DOMAIN new : new[i] \in DOMAIN ledger
    <3> SUFFICES ASSUME NEW i \in 1 .. Len(new)
                 PROVE  new[i] \in DOMAIN ledger
      BY <1>3
    <3>1. CASE req.off < i /\ i <= req.off + Len(req.out)
      <4>1. i - req.off \in DOMAIN req.out
        BY <1>2, <3>1
      <4> QED
        BY <1>4, <3>1, <4>1 DEF SharingInv, FilesOK
    <3>2. CASE ~ (req.off < i /\ i <= req.off + Len(req.out))
      <4>1. i \in DOMAIN s
        BY <1>2, <1>3, <3>2 DEF LargerOf
      <4> QED
        BY <1>2, <1>4, <3>2, <4>1 DEF SharingInv, FilesOK
    <3> QED
      BY <3>1, <3>2
  <2>2. \A g \in Inodes : \A i \in DOMAIN cells'[g] :
           cells'[g][i] \in DOMAIN ledger
    BY <1>1, <1>2, <2>1 DEF SharingInv, FilesOK
  <2>3. Linked(f)
    BY <1>1 DEF Linked, TypeInv, HandlerOK
  <2>4. \A g \in Inodes : ~ Linked(g) => cells'[g] = << >>
    BY <1>1, <1>2, <2>3 DEF SharingInv, FilesOK
  <2>5. req'.out = << >>
    BY <1>1 DEF NoReq
  <2> QED
    BY <1>1, <2>2, <2>4, <2>5 DEF SharingInv, FilesOK, Exists, Linked
<1>7. OldOK'
  BY <1>1 DEF OldOK
<1> QED
  BY <1>1, <1>5, <1>6, <1>7, SameSlots DEF SharingInv

(* A file goes with its only name, and no other file does.                 *)
LEMMA SoleName ==
    ASSUME dir \in [Names -> Inodes \cup {NoFile}],
           NEW n \in Names, Sole(n), dir' = [dir EXCEPT ![n] = NoFile]
    PROVE  \A g \in Inodes : Linked(g)' <=> (Linked(g) /\ g # dir[n])
<1> SUFFICES ASSUME NEW g \in Inodes
             PROVE  Linked(g)' <=> (Linked(g) /\ g # dir[n])
  OBVIOUS
<1>1. \A m \in Names : dir'[m] = g <=> (m # n /\ dir[m] = g)
  BY BbfsAssumption
<1> QED
  BY <1>1 DEF Linked, Sole

(* The file that bb_unlink drops has no reference left to count.           *)
LEMMA FinishUnlinkSharing ==
    ASSUME TypeInv, SharingInv, FinishUnlink
    PROVE  SharingInv'
<1> DEFINE f == dir[req.name]
<1>1. /\ req.op = "unlink" /\ req' = NoReq /\ req'.op = "idle"
      /\ ledger' = ledger
      /\ dir' = [dir EXCEPT ![req.name] = NoFile]
      /\ cells' = Reclaim(dir')
      /\ req.removed = Len(req.old)
  BY DEF FinishUnlink, NoReq
<1>2. /\ req.name \in Names /\ Exists(req.name)
      /\ req.data = << >> /\ req.off = 0
      /\ req.out = << >>
  BY <1>1 DEF TypeInv, TypeOK, HandlerOK, Requests
<1>3. /\ f \in Inodes /\ cells \in [Inodes -> Seq(Nat)]
      /\ dir \in [Names -> Inodes \cup {NoFile}]
      /\ Len(req.old) = Len(cells[f]) /\ Sole(req.name)
  BY <1>1, <1>2 DEF TypeInv, TypeOK, Exists, SharingInv, OldOK
<1>4. \A g \in Inodes : Linked(g)' <=> (Linked(g) /\ g # f)
  BY <1>1, <1>2, <1>3, SoleName
<1>5. \A g \in Inodes : cells'[g] = IF g = f THEN << >> ELSE cells[g]
  <2> SUFFICES ASSUME NEW g \in Inodes
               PROVE  cells'[g] = IF g = f THEN << >> ELSE cells[g]
    OBVIOUS
  <2>1. cells'[g] = IF \E n \in Names : dir'[n] = g THEN cells[g] ELSE << >>
    BY <1>1 DEF Reclaim
  <2>2. cells'[g] = IF Linked(g) /\ g # f THEN cells[g] ELSE << >>
    BY <1>4, <2>1 DEF Linked
  <2> QED
    BY <2>2 DEF SharingInv, FilesOK
<1>6. \A g \in Inodes, i \in 1 .. MaxCells : HeldId(g, i)' = HeldId(g, i)
  <2> SUFFICES ASSUME NEW g \in Inodes, NEW i \in 1 .. MaxCells
               PROVE  HeldId(g, i)' = HeldId(g, i)
    OBVIOUS
  <2>1. HeldId(g, i)' = CellAt(g, i)'
    BY <1>1 DEF HeldId
  <2>2. CASE g # f
    BY <1>5, <2>1, <2>2 DEF HeldId, CellAt
  <2>3. CASE g = f
    <3>1. CellAt(g, i)' = Hole
      BY <1>5, <2>3 DEF CellAt
    <3>2. /\ ~ (i <= req.off) /\ i - req.off = i
          /\ ~ (i <= Len(req.out))
      BY <1>2
    <3>3. HeldId(g, i) = IF i <= req.removed THEN Hole ELSE CellAt(g, i)
      BY <1>1, <2>3, <3>2 DEF HeldId
    <3>4. CellAt(g, i) = IF i <= req.removed THEN cells[g][i] ELSE Hole
      BY <1>1, <1>3, <2>3 DEF CellAt
    <3> QED
      BY <2>1, <3>1, <3>3, <3>4
  <2> QED
    BY <2>2, <2>3
<1>7. FilesOK'
  <2>1. \A g \in Inodes : ~ Linked(g)' => cells'[g] = << >>
    BY <1>4, <1>5 DEF SharingInv, FilesOK
  <2>2. \A g \in Inodes : \A i \in DOMAIN cells'[g] :
           cells'[g][i] \in DOMAIN ledger
    BY <1>5 DEF SharingInv, FilesOK
  <2>3. req'.out = << >>
    BY <1>1 DEF NoReq
  <2> QED
    <3>1. \A i \in DOMAIN req'.out : req'.out[i] \in DOMAIN ledger'
      BY <2>3
    <3>2. \A g \in Inodes : \A i \in DOMAIN cells'[g] :
             cells'[g][i] \in DOMAIN ledger'
      BY <1>1, <2>2
    <3> QED
      BY <2>1, <3>1, <3>2, Zenon DEF FilesOK
<1>8. OldOK'
  BY <1>1 DEF OldOK
<1> QED
  BY <1>1, <1>6, <1>7, <1>8, SameSlots DEF SharingInv

-----------------------------------------------------------------------------
(* The theorems.                                                           *)

(* Every step of the file system keeps SharingInv.                         *)
LEMMA SharingNext ==
    TypeInv /\ SharingInv /\ [Next /\ Careful]_vars => SharingInv'
<1> SUFFICES ASSUME TypeInv, SharingInv, [Next /\ Careful]_vars
             PROVE  SharingInv'
  OBVIOUS
<1>1. CASE Call /\ Careful
  BY <1>1, MknodSharing, BeginWriteSharing, BeginUnlinkSharing, RenameSharing,
     LinkSharing, FtruncateSharing DEF Call
<1>2. CASE HandlerStep /\ Careful
  <2>1. DOMAIN ledger \subseteq Nat
    BY DEF TypeInv, TypeOK, LedgerTypeOK
  <2> QED
    BY <1>2, <2>1, RemoveNextSharing, PushNextSharing, PwriteSharing,
       FinishUnlinkSharing DEF HandlerStep
<1>3. CASE UNCHANGED vars
  BY <1>3 DEF vars, SharingInv, FilesOK, OldOK, RefCountExact, Refs, HeldId,
              CellAt, Exists, Linked, Sole
<1> QED
  BY <1>1, <1>2, <1>3 DEF Next

(* SharingInv holds in every reachable state.                              *)
LEMMA SharingInvariant == CarefulSpec => [](TypeInv /\ SharingInv)
<1>1. Init => TypeInv /\ SharingInv
  BY TypeInvInit, SharingInit
<1>2. TypeInv /\ SharingInv /\ [Next /\ Careful]_vars
         => (TypeInv /\ SharingInv)'
  BY TypeInvNext, SharingNext
<1> QED
  BY <1>1, <1>2, PTL DEF CarefulSpec

(* CarefulSpec is the program, and says which of its steps are left out.   *)
LEMMA CarefulIs == CarefulSpec <=> Spec /\ [][Careful]_vars
<1>1. [Next /\ Careful]_vars <=> [Next]_vars /\ [Careful]_vars
  OBVIOUS
<1> QED
  BY <1>1, PTL DEF CarefulSpec, Spec

(* For any number of files and blocks, and all calls of bbfs.c: as long as *)
(* no step is one of the five that Careful leaves out, each counter of the *)
(* ledger is, between any two steps of any handler, the number of cells    *)
(* that hold the id.  Nothing leaks, nothing is freed early, and a block   *)
(* may be shared by more cells than the last digit counts.                 *)
THEOREM CountersExact == Spec /\ [][Careful]_vars => []RefCountExact
<1>1. TypeInv /\ SharingInv => RefCountExact
  BY DEF SharingInv
<1> QED
  BY <1>1, CarefulIs, SharingInvariant, PTL

(* A block that some cell refers to before and after a step keeps its text.*)
Kept ==
    \A k \in DOMAIN blocks :
        (Refs(k) # {} /\ Refs(k)' # {}) =>
            k \in DOMAIN blocks' /\ blocks'[k] = blocks[k]

(* No step takes or replaces a block in use (RemoveNext frees a block only *)
(* with its last reference, PushNext creates one only where there is none).*)
LEMMA LiveKept ==
    TypeInv /\ SharingInv /\ [Next /\ Careful]_vars => Kept
<1> SUFFICES ASSUME TypeInv, SharingInv, [Next /\ Careful]_vars PROVE Kept
  OBVIOUS
<1>1. CASE Call \/ UNCHANGED vars
  BY <1>1 DEF Call, Mknod, BeginWrite, BeginUnlink, Rename, Link, Ftruncate,
              vars, Kept
<1>2. CASE RemoveNext
  BY <1>2, RemoveNextSharing DEF Kept
<1>3. ASSUME NEW n \in DOMAIN ledger, PushNext(n), Careful PROVE Kept
  <2>1. n \in Nat
    BY DEF TypeInv, TypeOK, LedgerTypeOK
  <2> QED
    BY <1>3, <2>1, PushNextSharing DEF Kept
<1>4. CASE Pwrite \/ FinishUnlink
  BY <1>4 DEF Pwrite, FinishUnlink, Kept
<1> QED
  BY <1>1, <1>2, <1>3, <1>4 DEF Next, HandlerStep

(* As long as the steps are careful, none replaces or removes the BL file  *)
(* of a block that is in use before and after it.                          *)
THEOREM LiveBlocksKept == Spec /\ [][Careful]_vars => LiveBlockKept
<1>1. TypeInv /\ SharingInv /\ [Next /\ Careful]_vars => [Kept]_vars
  BY LiveKept
<1>2. [](TypeInv /\ SharingInv) /\ [][Next /\ Careful]_vars => [][Kept]_vars
  BY <1>1, PTL
<1>3. [][Kept]_vars => LiveBlockKept
  BY DEF LiveBlockKept, Kept
<1> QED
  BY <1>2, <1>3, CarefulIs, SharingInvariant, PTL DEF CarefulSpec

-----------------------------------------------------------------------------
(* What readers see.                                                       *)

(* A cell whose block the request being served is about to replace.        *)
BusyCell(f, i) ==
    /\ req.op # "idle" /\ f = dir[req.name]
    /\ req.off < i /\ i <= req.off + Len(req.old)

(* Every other cell refers to a BL file, which it keeps from being removed.*)
Visible ==
    \A f \in Inodes : \A i \in DOMAIN cells[f] :
        ~ BusyCell(f, i) =>
            /\ cells[f][i] \in DOMAIN blocks
            /\ Refs(cells[f][i]) # {}

(* The blocks a bb_write has pushed are the blocks it was given.           *)
Pushed ==
    \A j \in DOMAIN req.out : /\ req.out[j] \in DOMAIN blocks
                              /\ blocks[req.out[j]] = req.data[j]

(* A cell that is not about to be replaced holds its id, so the counter is *)
(* not 0 and the file is there.                                            *)
LEMMA CellsVisible == TypeInv /\ SharingInv => Visible
<1> SUFFICES ASSUME TypeInv, SharingInv,
                    NEW f \in Inodes, NEW i \in DOMAIN cells[f],
                    ~ BusyCell(f, i)
             PROVE  /\ cells[f][i] \in DOMAIN blocks
                    /\ Refs(cells[f][i]) # {}
  BY DEF Visible
<1> DEFINE k == cells[f][i]
<1>1. /\ cells[f] \in Seq(Nat) /\ Len(cells[f]) <= MaxCells
      /\ Len(cells[f]) \in Nat /\ MaxCells \in Nat
      /\ i \in 1 .. Len(cells[f])
      /\ req.off \in Nat /\ req.out \in Seq(Nat) /\ req.old \in Seq(Nat)
      /\ req.data \in Seq(Contents) /\ req.removed \in Nat
      /\ Len(req.out) \in Nat /\ Len(req.old) \in Nat /\ Len(req.data) \in Nat
  BY BbfsAssumption DEF TypeInv, TypeOK, Requests
<1>2. HeldId(f, i) = k
  <2>1. CellAt(f, i) = k
    BY <1>1 DEF CellAt
  <2>2. CASE req.op = "idle" \/ f # dir[req.name] \/ i <= req.off
    BY <2>1, <2>2 DEF HeldId
  <2>3. CASE ~ (req.op = "idle" \/ f # dir[req.name] \/ i <= req.off)
    <3>1. i > req.off + Len(req.old)
      BY <1>1, <2>3 DEF BusyCell
    <3>2. ~ (i - req.off <= req.removed)
      <4>1. req.removed <= Len(req.old)
        BY <2>3 DEF TypeInv, HandlerOK
      <4> QED
        BY <1>1, <3>1, <4>1
    <3>3. /\ req.op = "write" => Len(req.old) = Len(req.data)
          /\ req.op # "unlink"
      <4> DEFINE s == cells[dir[req.name]]
      <4>1. s = cells[f]
        BY <2>3
      <4>2. /\ req.op = "unlink" => Len(req.old) = Len(s) /\ req.off = 0
            /\ req.op = "write" =>
                  /\ Len(req.old) <= Len(req.data)
                  /\ Len(req.old) < Len(req.data) =>
                        req.off + Len(req.old) = Len(s)
        BY <2>3 DEF SharingInv, OldOK, TypeInv, HandlerOK
      <4> HIDE DEF s
      <4> QED
        BY <1>1, <3>1, <4>1, <4>2, SMTT(30)
    <3>4. Len(req.out) <= Len(req.old)
      BY <1>1, <2>3, <3>3 DEF TypeInv, HandlerOK, TypeOK, Requests
    <3>5. ~ (i - req.off <= Len(req.out))
      BY <1>1, <3>1, <3>4
    <3> QED
      BY <2>1, <2>3, <3>2, <3>5 DEF HeldId
  <2> QED
    BY <2>2, <2>3
<1>3. <<f, i>> \in Refs(k)
  BY <1>1, <1>2 DEF Refs
<1>4. k \in DOMAIN ledger
  BY DEF SharingInv, FilesOK
<1>5. ledger[k].count > 0
  <2>1. ledger[k].count = Cardinality(Refs(k))
    BY <1>4 DEF SharingInv, RefCountExact
  <2>2. IsFiniteSet(Refs(k))
    <3>1. Refs(k) \subseteq Slots
      BY DEF Refs, Slots
    <3> QED
      BY <3>1, SlotsFinite
  <2>3. Cardinality(Refs(k)) \in Nat /\ Cardinality(Refs(k)) # 0
    BY <1>3, <2>2, FS_CardinalityType, FS_EmptySet
  <2> QED
    BY <2>1, <2>3
<1> QED
  BY <1>3, <1>4, <1>5 DEF TypeInv, LedgerInv, BlocksStored

(* What a reader sees of each file, and the request being served.          *)
Data == [f \in Inodes |-> ReadBack(f)]

Asking ==
    [op |-> req.op, name |-> req.name, off |-> req.off, data |-> req.data]

Safe == TypeInv /\ SharingInv /\ Pushed /\ Visible

Shown(f, i) == IF BusyCell(f, i) THEN Busy ELSE blocks[cells[f][i]]

(* A cell is read as the text of its BL file, which is never missing.      *)
LEMMA ReadBackIs ==
    Safe => \A f \in Inodes :
               /\ DOMAIN ReadBack(f) = DOMAIN cells[f]
               /\ ReadBack(f) = [i \in DOMAIN cells[f] |-> Shown(f, i)]
<1> SUFFICES ASSUME Safe, NEW f \in Inodes
             PROVE  /\ DOMAIN ReadBack(f) = DOMAIN cells[f]
                    /\ ReadBack(f) = [i \in DOMAIN cells[f] |-> Shown(f, i)]
  OBVIOUS
<1>1. ASSUME NEW i \in DOMAIN cells[f]
      PROVE  (IF BusyCell(f, i) THEN Busy
              ELSE IF cells[f][i] \in DOMAIN blocks THEN blocks[cells[f][i]]
              ELSE Missing) = Shown(f, i)
  BY DEF Safe, Visible, Shown
<1>2. ReadBack(f) = [i \in DOMAIN cells[f] |->
                        IF BusyCell(f, i) THEN Busy
                        ELSE IF cells[f][i] \in DOMAIN blocks
                             THEN blocks[cells[f][i]]
                        ELSE Missing]
  BY DEF ReadBack, BusyCell
<1> QED
  BY <1>1, <1>2

(* The same in the next state.                                             *)
LEMMA ReadBackIsNext ==
    (Safe => \A f \in Inodes :
                /\ DOMAIN ReadBack(f) = DOMAIN cells[f]
                /\ ReadBack(f) = [i \in DOMAIN cells[f] |-> Shown(f, i)])'
  BY ReadBackIs, PTL

(* PushBlock leaves the text it was given in the block whose id it returns:*)
(* a block that is shared has it already, as no other text has its hash.   *)
LEMMA PushStores ==
    ASSUME LedgerInv, NEW c \in Contents, NEW k, PushBlock(c, k)
    PROVE  /\ k \in DOMAIN ledger /\ ledger[k].id = k
           /\ k \in DOMAIN blocks' /\ blocks'[k] = c
<1>1. k \in DOMAIN ledger /\ ledger[k].id = k /\ ledger[k].count \in Nat
  <2>1. k \in DOMAIN ledger
    BY DEF PushBlock, ShareBlock, NewBlock, Hit, FirstFree
  <2>2. ledger[k] \in Line
    BY <2>1 DEF LedgerInv, LedgerTypeOK
  <2> QED
    BY <2>1, <2>2, LedgerAssumption DEF LedgerInv, LedgerOK, Line, Counter
<1>2. CASE NewBlock(c, k)
  BY <1>1, <1>2 DEF NewBlock, CreateBlock
<1>3. CASE ShareBlock(c, k) /\ ledger[k].count = 0
  BY <1>1, <1>3 DEF ShareBlock, CreateBlock
<1>4. CASE ShareBlock(c, k) /\ ledger[k].count # 0
  <2>1. k \in DOMAIN blocks /\ HashOf[blocks[k]] = ledger[k].hash
    BY <1>1, <1>4 DEF LedgerInv, BlocksStored
  <2>2. blocks[k] \in Contents
    BY <2>1 DEF LedgerInv, LedgerTypeOK
  <2>3. HashOf[blocks[k]] = HashOf[c] /\ blocks' = blocks
    BY <1>4, <2>1 DEF ShareBlock, Hit
  <2>4. blocks[k] = c
    BY <2>2, <2>3, NoCollision
  <2> QED
    BY <1>1, <2>1, <2>3, <2>4
<1> QED
  BY <1>2, <1>3, <1>4 DEF PushBlock

(* A block that was pushed keeps its text until its id is written.         *)
LEMMA PushedNext ==
    TypeInv /\ SharingInv /\ Pushed /\ [Next /\ Careful]_vars => Pushed'
<1> SUFFICES ASSUME TypeInv, SharingInv, Pushed, [Next /\ Careful]_vars
             PROVE  Pushed'
  OBVIOUS
<1>1. ASSUME req'.out = << >> PROVE Pushed'
  BY <1>1 DEF Pushed
<1>2. CASE UNCHANGED <<blocks, req>>
  BY <1>2 DEF Pushed
<1>3. ASSUME NEW n \in Names, NEW p \in Payloads, NEW off \in 0 .. MaxCells,
             BeginWrite(n, p, off)
      PROVE  Pushed'
  BY <1>1, <1>3 DEF BeginWrite, NoReq
<1>4. ASSUME NEW n \in Names, BeginUnlink(n) PROVE Pushed'
  BY <1>1, <1>4 DEF BeginUnlink, NoReq
<1>5. CASE RemoveNext
  <2>1. req.out = << >>
    <3>1. /\ req.removed < Len(req.old) /\ req.out \in Seq(Nat)
          /\ req.removed \in Nat /\ Len(req.old) \in Nat
      BY <1>5 DEF RemoveNext, TypeInv, TypeOK, Requests
    <3>2. req.out # << >> => req.removed = Len(req.old)
      BY DEF TypeInv, HandlerOK, NoReq
    <3> QED
      BY <3>1, <3>2
  <2>2. req'.out = req.out
    BY <1>5 DEF RemoveNext, TypeInv, TypeOK, Requests
  <2> QED
    BY <1>1, <2>1, <2>2
<1>6. ASSUME NEW k \in DOMAIN ledger, PushNext(k), Careful PROVE Pushed'
  <2> DEFINE j == Len(req.out) + 1
             c == req.data[j]
  <2>1. /\ req \in Requests /\ req.out \in Seq(Nat)
        /\ req.data \in Seq(Contents) /\ Len(req.out) < Len(req.data)
        /\ Len(req.out) \in Nat /\ k \in Nat
    BY <1>6 DEF PushNext, TypeInv, TypeOK, Requests, LedgerTypeOK
  <2>2. c \in Contents /\ PushBlock(c, k)
    BY <1>6, <2>1 DEF PushNext
  <2>3. ledger[k].id = k /\ k \in DOMAIN blocks' /\ blocks'[k] = c
    <3> HIDE DEF c
    <3> QED
      BY <2>2, PushStores DEF TypeInv
  <2>4. req'.data = req.data /\ req'.out = Append(req.out, k)
    BY <1>6, <2>1, <2>3 DEF PushNext, Requests
  <2>5. \A i \in DOMAIN blocks : i \in DOMAIN blocks' /\ blocks'[i] = blocks[i]
    BY <1>6, <2>1, PushNextSharing
  <2>6. ASSUME NEW i \in DOMAIN req'.out
        PROVE  /\ req'.out[i] \in DOMAIN blocks'
               /\ blocks'[req'.out[i]] = req'.data[i]
    <3>1. CASE i = j
      <4>1. req'.out[i] = k
        BY <2>1, <2>4, <3>1
      <4> QED
        BY <2>3, <2>4, <3>1, <4>1
    <3>2. CASE i # j
      <4>1. i \in DOMAIN req.out /\ req'.out[i] = req.out[i]
        BY <2>1, <2>4, <2>6, <3>2
      <4> QED
        BY <2>4, <2>5, <4>1 DEF Pushed
    <3> QED
      BY <3>1, <3>2
  <2> QED
    BY <2>6 DEF Pushed
<1>7. CASE Pwrite \/ FinishUnlink
  BY <1>1, <1>7 DEF Pwrite, FinishUnlink, NoReq
<1> QED
  BY <1>2, <1>3, <1>4, <1>5, <1>6, <1>7
     DEF Next, Call, HandlerStep, Mknod, Rename, Link, Ftruncate, vars

(* Safe holds in every reachable state.                                    *)
LEMMA SafeInvariant == CarefulSpec => []Safe
<1>1. Init => Pushed
  BY DEF Init, NoReq, Pushed
<1>2. (TypeInv /\ SharingInv /\ Pushed) /\ [Next /\ Careful]_vars
         => (TypeInv /\ SharingInv /\ Pushed)'
  BY TypeInvNext, SharingNext, PushedNext
<1>3. Init => TypeInv /\ SharingInv
  BY TypeInvInit, SharingInit
<1>4. TypeInv /\ SharingInv /\ Pushed => Safe
  BY CellsVisible DEF Safe
<1> QED
  BY <1>1, <1>2, <1>3, <1>4, PTL DEF CarefulSpec

(* Steps that write no cells and mark none leave every file as it was.     *)
LEMMA SameData ==
    ASSUME Safe, Safe', Kept, cells' = cells,
           \A f \in Inodes : \A i \in DOMAIN cells[f] :
              BusyCell(f, i)' <=> BusyCell(f, i)
    PROVE  Data' = Data
<1>1. ASSUME NEW f \in Inodes PROVE ReadBack(f)' = ReadBack(f)
  <2>1. /\ ReadBack(f) = [i \in DOMAIN cells[f] |-> Shown(f, i)]
        /\ ReadBack(f)' = [i \in DOMAIN cells'[f] |-> Shown(f, i)']
    BY ReadBackIs, ReadBackIsNext
  <2>2. ASSUME NEW i \in DOMAIN cells[f] PROVE Shown(f, i)' = Shown(f, i)
    <3>1. CASE BusyCell(f, i)
      BY <3>1 DEF Shown
    <3>2. CASE ~ BusyCell(f, i)
      <4>1. cells[f][i] \in DOMAIN blocks /\ Refs(cells[f][i]) # {}
        BY <3>2 DEF Safe, Visible
      <4>2. Refs(cells[f][i])' # {}
        BY <3>2 DEF Safe, Visible
      <4>3. blocks'[cells[f][i]] = blocks[cells[f][i]]
        BY <4>1, <4>2 DEF Kept
      <4> QED
        BY <3>2, <4>3 DEF Shown
    <3> QED
      BY <3>1, <3>2
  <2> QED
    BY <2>1, <2>2
<1> QED
  BY <1>1 DEF Data

(* What a request is seen as when none is served.                          *)
LEMMA NotAsking ==
    ASSUME req = NoReq
    PROVE  Asking = Files!None /\ \A f, i : ~ BusyCell(f, i)
  BY DEF NoReq, Asking, Files!None, BusyCell

(* bb_mknod creates the file.                                              *)
LEMMA MknodFlat ==
    ASSUME Safe, Safe', Kept, NEW n \in Names, NEW f \in Inodes, Mknod(n, f)
    PROVE  Files!Next
<1>1. /\ req = NoReq /\ req' = NoReq /\ cells' = cells
      /\ dir[n] = NoFile /\ ~ \E m \in Names : dir[m] = f
      /\ dir' = [dir EXCEPT ![n] = f]
  BY DEF Mknod, Exists, Linked
<1>2. Data' = Data
  <2>1. \A g, i : BusyCell(g, i)' <=> BusyCell(g, i)
    BY <1>1 DEF BusyCell, NoReq
  <2> QED
    BY <1>1, <2>1, SameData
<1>3. Asking = Files!None /\ Asking' = Asking
  BY <1>1, NotAsking DEF Asking
<1>4. Files!Create(n, f)
  BY <1>1, <1>2, <1>3 DEF Files!Create, Files!Bound, Data, Asking
<1> QED
  BY <1>4 DEF Files!Next

(* A file without names that has no cells is shown as empty.               *)
LEMMA NamelessEmpty ==
    ASSUME Safe, NEW f \in Inodes, cells[f] = << >>
    PROVE  Data[f] = << >>
<1>1. DOMAIN cells[f] = {}
  OBVIOUS
<1>2. ReadBack(f) = [i \in {} |-> Shown(f, i)]
  BY <1>1, ReadBackIs
<1> QED
  BY <1>2 DEF Data

(* bb_rename moves the name and leaves all files alone.                    *)
LEMMA RenameFlat ==
    ASSUME Safe, Safe', Kept, Careful,
           NEW n \in Names, NEW m \in Names, Rename(n, m)
    PROVE  Files!Next
<1>1. /\ req = NoReq /\ req' = NoReq
      /\ dir[n] # NoFile /\ dir[n] # dir[m]
      /\ dir' = [dir EXCEPT ![m] = dir[n], ![n] = NoFile]
  BY DEF Rename, Exists
<1>2. cells' = cells /\ \A g \in Inodes : ~ Linked(g)' => cells[g] = << >>
  BY RenameKeepsCells
<1>3. Data' = Data
  <2>1. \A g, i : BusyCell(g, i)' <=> BusyCell(g, i)
    BY <1>1 DEF BusyCell, NoReq
  <2> QED
    BY <1>2, <2>1, SameData
<1>4. Asking = Files!None /\ Asking' = Asking
  BY <1>1, NotAsking DEF Asking
<1>5. Files!Freed(dir') = Data
  <2>1. ASSUME NEW g \in Inodes
        PROVE  (IF \E o \in Names : dir'[o] = g THEN Data[g] ELSE << >>)
                  = Data[g]
    BY <1>2, NamelessEmpty DEF Linked
  <2>2. Files!Freed(dir') = [g \in Inodes |-> Data[g]]
    BY <2>1 DEF Files!Freed, Data
  <2> QED
    BY <2>2 DEF Data
<1>6. Files!Rename(n, m)
  BY <1>1, <1>3, <1>4, <1>5 DEF Files!Rename, Data, Asking
<1> QED
  BY <1>6 DEF Files!Next

(* bb_link gives a file one more name.                                     *)
LEMMA LinkFlat ==
    ASSUME Safe, Safe', Kept, NEW n \in Names, NEW m \in Names, Link(n, m)
    PROVE  Files!Next
<1>1. /\ req = NoReq /\ req' = NoReq /\ cells' = cells
      /\ dir[n] # NoFile /\ dir[m] = NoFile
      /\ dir' = [dir EXCEPT ![m] = dir[n]]
  BY DEF Link, Exists
<1>2. Data' = Data
  <2>1. \A g, i : BusyCell(g, i)' <=> BusyCell(g, i)
    BY <1>1 DEF BusyCell, NoReq
  <2> QED
    BY <1>1, <2>1, SameData
<1>3. Asking = Files!None /\ Asking' = Asking
  BY <1>1, NotAsking DEF Asking
<1>4. Files!Link(n, m)
  BY <1>1, <1>2, <1>3 DEF Files!Link, Data, Asking
<1> QED
  BY <1>4 DEF Files!Next

(* A careful ftruncate is not seen.                                        *)
LEMMA FtruncateFlat ==
    ASSUME Careful, NEW n \in Names, NEW size, Ftruncate(n, size)
    PROVE  UNCHANGED vars
  BY DEF Ftruncate, Careful, vars

(* A handler between its start and its end changes nothing that is seen.   *)
LEMMA InsideFlat ==
    ASSUME Safe, Safe', Kept,
           RemoveNext \/ \E k \in DOMAIN ledger : PushNext(k)
    PROVE  UNCHANGED <<dir, Data, Asking>>
<1>1. req \in Requests
  BY DEF Safe, TypeInv, TypeOK
<1>2. /\ req'.op = req.op /\ req'.name = req.name /\ req'.off = req.off
      /\ req'.data = req.data /\ req'.old = req.old
      /\ cells' = cells /\ dir' = dir
  BY <1>1 DEF RemoveNext, PushNext, Requests
<1>3. \A f, i : BusyCell(f, i)' <=> BusyCell(f, i)
  BY <1>2 DEF BusyCell
<1>4. Data' = Data
  BY <1>2, <1>3, SameData
<1> QED
  BY <1>2, <1>4 DEF Asking

(* The start of a request marks the cells it will replace.                 *)
LEMMA BeginFlat ==
    ASSUME Safe, Safe', req = NoReq, NEW n \in Names, Exists(n),
           NEW len \in Nat, NEW off \in Nat, off <= Len(cells[dir[n]]),
           UNCHANGED <<ledger, blocks, dir, cells>>,
           req'.op # "idle", req'.name = n, req'.off = off,
           off + Len(req'.old) = SmallerOf(off + len, Len(cells[dir[n]]))
    PROVE  Data' = [Data EXCEPT ![dir[n]] = Files!MarkBusy(@, off, len)]
<1> DEFINE f == dir[n]
           s == cells[f]
<1>1. /\ f \in Inodes /\ s \in Seq(Nat)
      /\ Len(s) \in Nat /\ DOMAIN s = 1 .. Len(s)
  BY DEF Exists, Safe, TypeInv, TypeOK
<1>2. \A g \in Inodes :
         /\ ReadBack(g) = [i \in DOMAIN cells[g] |-> Shown(g, i)]
         /\ ReadBack(g)' = [i \in DOMAIN cells[g] |-> Shown(g, i)']
         /\ DOMAIN ReadBack(g) = DOMAIN cells[g]
  BY ReadBackIs, ReadBackIsNext
<1>3. \A g \in Inodes : \A i \in DOMAIN cells[g] :
         Shown(g, i) = blocks[cells[g][i]]
  BY NotAsking DEF Shown
<1>4. ASSUME NEW i \in DOMAIN s
      PROVE  Shown(f, i)' = IF off < i /\ i <= off + len THEN Busy
                            ELSE Shown(f, i)
  <2>1. BusyCell(f, i)' <=> off < i /\ i <= off + Len(req'.old)
    BY DEF BusyCell
  <2>2. i <= off + Len(req'.old) <=> i <= off + len
    <3>1. i \in Nat /\ i <= Len(s)
      BY <1>1
    <3> DEFINE old == Len(req'.old)
    <3>2. off + old = SmallerOf(off + len, Len(s))
      OBVIOUS
    <3> HIDE DEF old, s
    <3> QED
      BY <1>1, <3>1, <3>2 DEF SmallerOf, old
  <2> QED
    BY <1>1, <1>3, <2>1, <2>2 DEF Shown
<1>5. ReadBack(f)' = Files!MarkBusy(ReadBack(f), off, len)
  <2> DEFINE r == ReadBack(f)
             marked == [i \in DOMAIN s |->
                           IF off < i /\ i <= off + len THEN Busy ELSE r[i]]
  <2>1. DOMAIN r = DOMAIN s /\ \A i \in DOMAIN s : r[i] = Shown(f, i)
    BY <1>1, <1>2
  <2>2. ReadBack(f)' = [i \in DOMAIN s |-> Shown(f, i)']
    BY <1>1, <1>2
  <2>3. marked = Files!MarkBusy(r, off, len)
    BY <2>1 DEF Files!MarkBusy
  <2> HIDE DEF r
  <2>4. \A i \in DOMAIN s : Shown(f, i)' = IF off < i /\ i <= off + len
                                           THEN Busy ELSE r[i]
    BY <1>4, <2>1
  <2>5. ReadBack(f)' = marked
    BY <2>2, <2>4
  <2> QED
    BY <2>3, <2>5 DEF r
<1>6. ASSUME NEW g \in Inodes, g # f PROVE ReadBack(g)' = ReadBack(g)
  <2>1. ASSUME NEW i \in DOMAIN cells[g] PROVE Shown(g, i)' = Shown(g, i)
    <3>1. ~ BusyCell(g, i)'
      BY <1>6 DEF BusyCell
    <3> QED
      BY <1>3, <3>1 DEF Shown
  <2> QED
    BY <1>2, <2>1
<1>7. Data[f] = ReadBack(f)
  BY <1>1 DEF Data
<1> QED
  BY <1>1, <1>5, <1>6, <1>7 DEF Data

(* The start of a bb_write marks the range it was given.                   *)
LEMMA BeginWriteFlat ==
    ASSUME Safe, Safe', Careful, NEW n \in Names, NEW p \in Payloads,
           NEW off \in 0 .. MaxCells, BeginWrite(n, p, off)
    PROVE  Files!Next
<1> DEFINE s == cells[dir[n]]
           old == Overwritten(s, off, Len(p))
<1>1. /\ req = NoReq /\ Exists(n) /\ off <= Len(s) /\ off + Len(p) <= MaxCells
      /\ UNCHANGED <<ledger, blocks, dir, cells>>
  BY DEF BeginWrite, Careful, NoReq
<1>2. /\ off \in Nat /\ p \in Seq(Contents) /\ Len(p) \in Nat
      /\ dir[n] \in Inodes /\ s \in Seq(Nat) /\ Len(s) \in Nat
  BY <1>1, BbfsAssumption DEF Safe, TypeInv, TypeOK, Exists
<1>3. Len(old) = SmallerOf(off + Len(p), Len(s)) - off
  <2>1. \A i \in DOMAIN s : s[i] # Hole
    BY <1>2, CellsHaveNoHole DEF Safe, SharingInv
  <2> HIDE DEF s
  <2> QED
    BY <1>1, <1>2, <2>1, OverwrittenIds
<1>4. req' = [op |-> "write", name |-> n, off |-> off, data |-> p,
              old |-> old, removed |-> 0, out |-> << >>]
  BY DEF BeginWrite, NoReq
<1>5. off + Len(old) = SmallerOf(off + Len(p), Len(s))
  <2> DEFINE l == SmallerOf(off + Len(p), Len(s))
  <2>1. l \in Nat
    BY <1>2 DEF SmallerOf
  <2> HIDE DEF l, old, s
  <2> QED
    BY <1>2, <1>3, <2>1 DEF l
<1>6. Data' = [Data EXCEPT ![dir[n]] = Files!MarkBusy(@, off, Len(p))]
  <2>1. /\ req'.op # "idle" /\ req'.name = n /\ req'.off = off
        /\ off + Len(req'.old) = SmallerOf(off + Len(p), Len(s))
    BY <1>4, <1>5
  <2> QED
    BY <1>1, <1>2, <2>1, BeginFlat
<1>7. Asking = Files!None
      /\ Asking' = [op |-> "write", name |-> n, off |-> off, data |-> p]
  BY <1>1, <1>4, NotAsking DEF Asking
<1>8. Len(Data[dir[n]]) = Len(s)
  <2>1. Data[dir[n]] = ReadBack(dir[n])
    BY <1>2 DEF Data
  <2>2. ReadBack(dir[n]) = [i \in DOMAIN s |-> Shown(dir[n], i)]
    BY <1>2, ReadBackIs
  <2>3. DOMAIN s = 1 .. Len(s)
    BY <1>2
  <2> HIDE DEF s
  <2> QED
    BY <1>2, <2>1, <2>2, <2>3
<1>9. Files!BeginWrite(n, p, off)
  BY <1>1, <1>6, <1>7, <1>8 DEF Files!BeginWrite, Data, Asking, Exists
<1> QED
  BY <1>9 DEF Files!Next

(* The start of a bb_unlink marks the whole file.                          *)
LEMMA BeginUnlinkFlat ==
    ASSUME Safe, Safe', Careful, NEW n \in Names, BeginUnlink(n)
    PROVE  Files!Next
<1> DEFINE s == cells[dir[n]]
<1>1. /\ req = NoReq /\ Exists(n)
      /\ UNCHANGED <<ledger, blocks, dir, cells>>
  BY DEF BeginUnlink
<1>2. dir[n] \in Inodes /\ s \in Seq(Nat) /\ Len(s) \in Nat
  BY <1>1 DEF Safe, TypeInv, TypeOK, Exists
<1>3. UpToHole(s) = s
  <2>1. \A i \in DOMAIN s : s[i] # Hole
    BY <1>2, CellsHaveNoHole DEF Safe, SharingInv
  <2> HIDE DEF s
  <2> QED
    BY <1>2, <2>1, UpToHoleAll
<1>4. req' = [op |-> "unlink", name |-> n, off |-> 0, data |-> << >>,
              old |-> s, removed |-> 0, out |-> << >>]
  BY <1>3 DEF BeginUnlink, NoReq
<1>5. Data' = [Data EXCEPT ![dir[n]] = Files!MarkBusy(@, 0, Len(s))]
  <2>1. /\ req'.op # "idle" /\ req'.name = n /\ req'.off = 0
        /\ 0 + Len(req'.old) = SmallerOf(0 + Len(s), Len(s))
        /\ 0 <= Len(s) /\ 0 \in Nat
    BY <1>2, <1>4 DEF SmallerOf
  <2> QED
    BY <1>1, <1>2, <2>1, BeginFlat
<1>6. Asking = Files!None
      /\ Asking' = [op |-> "unlink", name |-> n, off |-> 0, data |-> << >>]
  BY <1>1, <1>4, NotAsking DEF Asking
<1>7. Len(Data[dir[n]]) = Len(s)
  <2>1. Data[dir[n]] = ReadBack(dir[n])
    BY <1>2 DEF Data
  <2>2. ReadBack(dir[n]) = [i \in DOMAIN s |-> Shown(dir[n], i)]
    BY <1>2, ReadBackIs
  <2>3. DOMAIN s = 1 .. Len(s)
    BY <1>2
  <2> HIDE DEF s
  <2> QED
    BY <1>2, <2>1, <2>2, <2>3
<1>8. Files!LastName(n)
  BY <1>1, <1>4 DEF Careful, Sole, Files!LastName
<1>9. Files!BeginUnlink(n)
  BY <1>1, <1>5, <1>6, <1>7, <1>8 DEF Files!BeginUnlink, Data, Asking, Exists
<1> QED
  BY <1>9 DEF Files!Next

(* Splice read cell by cell.                                               *)
LEMMA SpliceIs ==
    ASSUME NEW T, NEW r \in Seq(T), NEW p \in Seq(T),
           NEW off \in Nat, off <= Len(r)
    PROVE  Files!Splice(r, off, p) =
              [i \in 1 .. LargerOf(Len(r), off + Len(p)) |->
                  IF off < i /\ i <= off + Len(p) THEN p[i - off] ELSE r[i]]
<1> DEFINE b == off + Len(p)
           head == SubSeq(r, 1, off)
           tail == SubSeq(r, b + 1, Len(r))
           n == LargerOf(Len(r), b)
           both == head \o p
<1>1. /\ Len(r) \in Nat /\ Len(p) \in Nat /\ b \in Nat /\ n \in Nat
      /\ \A i \in 1 .. Len(r) : r[i] \in T
      /\ Len(r) <= n /\ b <= n /\ (n = b \/ n = Len(r))
  BY DEF LargerOf
<1>2. head \in Seq(T) /\ Len(head) = off /\ \A i \in 1 .. off : head[i] = r[i]
  <2>1. \A i \in 1 .. off : r[i] \in T
    BY <1>1
  <2>2. /\ head \in Seq(T)
        /\ Len(head) = IF 1 <= off THEN off - 1 + 1 ELSE 0
        /\ \A i \in 1 .. off - 1 + 1 : head[i] = r[1 + i - 1]
    <3> HIDE DEF head
    <3> QED
      BY <2>1, SubSeqProperties DEF head
  <2> HIDE DEF head
  <2> QED
    BY <2>2
<1>3. /\ tail \in Seq(T) /\ Len(tail) = n - b
      /\ \A i \in 1 .. n - b : tail[i] = r[b + i]
  <2>1. \A i \in b + 1 .. Len(r) : r[i] \in T
    BY <1>1
  <2>2. b + 1 \in Int /\ Len(r) \in Int
    BY <1>1
  <2> DEFINE from == b + 1
             to == Len(r)
  <2> HIDE DEF from, to, b
  <2>3. /\ SubSeq(r, from, to) \in Seq(T)
        /\ Len(SubSeq(r, from, to)) = IF from <= to THEN to - from + 1 ELSE 0
        /\ \A i \in 1 .. to - from + 1 :
              SubSeq(r, from, to)[i] = r[from + i - 1]
    <3>1. from \in Int /\ to \in Int /\ \A i \in from .. to : r[i] \in T
      BY <2>1, <2>2 DEF from, to
    <3> QED
      BY <3>1, SubSeqProperties
  <2>4. tail = SubSeq(r, from, to)
    BY DEF from, to
  <2>5. n - b = IF from <= to THEN to - from + 1 ELSE 0
    BY <1>1 DEF from, to, n, LargerOf
  <2> HIDE DEF tail, n
  <2>6. Len(tail) = n - b
    BY <2>3, <2>4, <2>5
  <2>7. ASSUME NEW i \in 1 .. n - b PROVE tail[i] = r[b + i]
    <3>1. i \in 1 .. to - from + 1
      BY <1>1, <2>5 DEF from, to
    <3>2. tail[i] = r[from + i - 1]
      BY <2>3, <2>4, <3>1
    <3>3. from + i - 1 = b + i
      BY <1>1 DEF from
    <3> QED
      BY <3>2, <3>3
  <2> QED
    BY <2>3, <2>4, <2>6, <2>7
<1> HIDE DEF head, tail, n
<1>4. /\ both \in Seq(T) /\ Len(both) = off + Len(p)
      /\ \A i \in 1 .. off + Len(p) :
            both[i] = IF i <= off THEN r[i] ELSE p[i - off]
  <2>1. /\ both \in Seq(T) /\ Len(both) = Len(head) + Len(p)
        /\ \A i \in 1 .. Len(head) + Len(p) :
              both[i] = IF i <= Len(head) THEN head[i] ELSE p[i - Len(head)]
    BY <1>2, ConcatProperties
  <2> HIDE DEF both
  <2> QED
    BY <1>1, <1>2, <2>1
<1> DEFINE all == both \o tail
<1> HIDE DEF both, b
<1>5. /\ all \in Seq(T) /\ Len(all) = n
      /\ \A i \in 1 .. n :
            all[i] = IF i <= b THEN both[i] ELSE r[i]
  <2>1. /\ all \in Seq(T) /\ Len(all) = Len(both) + Len(tail)
        /\ \A i \in 1 .. Len(both) + Len(tail) :
              all[i] = IF i <= Len(both) THEN both[i] ELSE tail[i - Len(both)]
    <3>1. both \in Seq(T) /\ tail \in Seq(T)
      BY <1>3, <1>4
    <3> QED
      BY <3>1, ConcatProperties
  <2>2. Len(both) = b
    BY <1>4 DEF b
  <2> HIDE DEF all
  <2>3. Len(all) = n
    BY <1>1, <1>3, <2>1, <2>2
  <2>4. ASSUME NEW i \in 1 .. n
        PROVE  all[i] = IF i <= b THEN both[i] ELSE r[i]
    <3>1. all[i] = IF i <= b THEN both[i] ELSE tail[i - b]
      BY <2>1, <2>2, <2>3
    <3>2. CASE i > b
      <4>1. i - b \in 1 .. n - b /\ b + (i - b) = i
        BY <1>1, <3>2
      <4>2. tail[i - b] = r[b + (i - b)]
        BY <1>3, <4>1
      <4> QED
        BY <1>1, <3>1, <4>1, <4>2
    <3> QED
      BY <1>1, <3>1, <3>2
  <2> QED
    BY <2>1, <2>3, <2>4
<1> DEFINE cell(i) == IF off < i /\ i <= b THEN p[i - off] ELSE r[i]
<1>6. ASSUME NEW i \in 1 .. n PROVE all[i] = cell(i)
  <2>1. i \in Nat /\ i >= 1
    BY <1>1
  <2>2. i <= b => both[i] = IF i <= off THEN r[i] ELSE p[i - off]
    BY <1>4, <2>1 DEF b
  <2>3. all[i] = IF i <= b THEN both[i] ELSE r[i]
    BY <1>5
  <2>4. off <= b
    BY <1>1 DEF b
  <2> HIDE DEF all
  <2> QED
    BY <1>1, <2>1, <2>2, <2>3, <2>4
<1>7. all = [i \in 1 .. n |-> cell(i)]
  <2>1. all = [i \in 1 .. n |-> all[i]]
    <3> HIDE DEF all
    <3> QED
      BY <1>5
  <2> HIDE DEF all, cell
  <2> QED
    BY <1>6, <2>1
<1>8. Files!Splice(r, off, p) = all
  BY DEF Files!Splice, all, both, head, tail, b
<1> QED
  BY <1>7, <1>8 DEF n, b

(* The end of a bb_write: the cells written read as the blocks it was      *)
(* given, the others as before.                                            *)
LEMMA PwriteFlat ==
    ASSUME Safe, Safe', Pwrite
    PROVE  Files!Next
<1>1. req.op = "write" /\ dir[req.name] \in Inodes
  BY DEF Pwrite, Safe, TypeInv, TypeOK, HandlerOK, Exists
<1> PICK f \in Inodes : f = dir[req.name]
  BY <1>1
<1> DEFINE s == cells[f]
           r == ReadBack(f)
           off == req.off
           p == req.data
           new == Overlay(s, off, req.out)
           n == LargerOf(Len(s), off + Len(p))
           written(i) == off < i /\ i <= off + Len(p)
<1>2. /\ req.op = "write" /\ req' = NoReq /\ req'.op = "idle"
      /\ blocks' = blocks /\ dir' = dir
      /\ cells' = [cells EXCEPT ![f] = new]
      /\ Len(req.out) = Len(p)
  BY DEF Pwrite, NoReq
<1>3. /\ f \in Inodes /\ cells \in [Inodes -> Seq(Nat)]
      /\ s \in Seq(Nat) /\ Len(s) \in Nat /\ DOMAIN s = 1 .. Len(s)
      /\ off \in Nat /\ p \in Seq(Contents) /\ Len(p) \in Nat
      /\ req.out \in Seq(Nat) /\ DOMAIN req.out = 1 .. Len(p)
      /\ Len(req.old) \in Nat
  <2>1. req \in Requests /\ cells \in [Inodes -> Seq(Nat)]
    BY DEF Safe, TypeInv, TypeOK
  <2>2. /\ off \in Nat /\ p \in Seq(Contents) /\ req.out \in Seq(Nat)
        /\ req.old \in Seq(Nat) /\ s \in Seq(Nat)
    BY <2>1 DEF Requests
  <2>3. DOMAIN req.out = 1 .. Len(p) /\ Len(p) \in Nat
    BY <1>2, <2>2
  <2> HIDE DEF s, off, p
  <2> QED
    BY <2>1, <2>2, <2>3
<1>4. /\ off + Len(req.old) <= Len(s) /\ off <= Len(s)
      /\ Len(req.old) <= Len(p) /\ n \in Nat /\ Len(s) <= n
  <2>1. off + Len(req.old) <= Len(s) /\ Len(req.old) <= Len(p)
    BY <1>2 DEF Safe, SharingInv, OldOK
  <2> HIDE DEF s, off, p
  <2> QED
    BY <1>3, <2>1 DEF LargerOf
<1>5. DOMAIN new = 1 .. n
      /\ \A i \in 1 .. n : new[i] = IF written(i) THEN req.out[i - off]
                                    ELSE IF i <= Len(s) THEN s[i] ELSE Hole
  BY <1>2 DEF Overlay
<1>6. /\ \A g \in Inodes :
            /\ ReadBack(g) = [i \in DOMAIN cells[g] |-> Shown(g, i)]
            /\ ReadBack(g)' = [i \in DOMAIN cells'[g] |-> Shown(g, i)']
      /\ r \in [1 .. Len(s) -> {r[i] : i \in 1 .. Len(s)}] /\ Len(r) = Len(s)
  <2>1. \A g \in Inodes :
            /\ ReadBack(g) = [i \in DOMAIN cells[g] |-> Shown(g, i)]
            /\ ReadBack(g)' = [i \in DOMAIN cells'[g] |-> Shown(g, i)']
    BY ReadBackIs, ReadBackIsNext
  <2>2. r = [i \in 1 .. Len(s) |-> Shown(f, i)]
    BY <1>3, <2>1
  <2> HIDE DEF r, s
  <2> QED
    BY <1>3, <2>1, <2>2
<1>7. \A g \in Inodes : \A i \in DOMAIN cells'[g] :
         Shown(g, i)' = blocks[cells'[g][i]]
  BY <1>2 DEF Shown, BusyCell
<1>8. ASSUME NEW i \in 1 .. n
      PROVE  Shown(f, i)' = IF written(i) THEN p[i - off] ELSE r[i]
  <2>1. cells'[f] = new
    BY <1>2, <1>3
  <2>2. Shown(f, i)' = blocks[new[i]]
    BY <1>3, <1>5, <1>7, <2>1
  <2>3. CASE written(i)
    <3>1. i - off \in DOMAIN req.out
      BY <1>3, <2>3
    <3>2. blocks[req.out[i - off]] = p[i - off]
      BY <3>1 DEF Safe, Pushed
    <3>3. new[i] = req.out[i - off]
      BY <1>5, <2>3
    <3> QED
      BY <2>2, <2>3, <3>2, <3>3
  <2>4. CASE ~ written(i)
    <3>1. i \in 1 .. Len(s)
      <4>1. i \in Nat /\ i >= 1 /\ i <= n
        BY <1>4
      <4>2. ~ (off < i /\ i <= off + Len(p))
        BY <2>4
      <4> HIDE DEF s, off, p
      <4> QED
        BY <1>3, <1>4, <4>1, <4>2 DEF LargerOf
    <3>2. new[i] = s[i]
      BY <1>5, <2>4, <3>1
    <3>3. ~ BusyCell(f, i)
      <4>1. i <= off + Len(req.old) => i <= off + Len(p)
        <5>1. i \in Nat
          BY <1>4
        <5> DEFINE l == Len(req.old)
                   m == Len(p)
        <5>2. off \in Nat /\ l \in Nat /\ m \in Nat /\ l <= m
          BY <1>3, <1>4
        <5> HIDE DEF l, m, off
        <5>3. i <= off + l => i <= off + m
          BY <5>1, <5>2
        <5> QED
          BY <5>3 DEF l, m
      <4> QED
        BY <2>4, <4>1 DEF BusyCell
    <3>4. r[i] = blocks[s[i]]
      BY <1>3, <1>6, <3>1, <3>3 DEF Shown
    <3> QED
      BY <2>2, <2>4, <3>2, <3>4
  <2> QED
    BY <2>3, <2>4
<1>9. ReadBack(f)' = Files!Splice(r, off, p)
  <2> DEFINE T == {r[i] : i \in 1 .. Len(s)} \cup Contents
  <2>1. r \in Seq(T) /\ p \in Seq(T)
    <3>1. \A i \in 1 .. Len(s) : r[i] \in T
      OBVIOUS
    <3>2. r \in [1 .. Len(s) -> T]
      <4> HIDE DEF T, r, s
      <4> QED
        BY <1>6, <3>1
    <3>3. p \in [1 .. Len(p) -> T]
      <4>1. p \in [1 .. Len(p) -> Contents]
        <5> HIDE DEF p
        <5> QED
          BY <1>3
      <4>2. \A i \in 1 .. Len(p) : p[i] \in T
        BY <4>1
      <4> HIDE DEF T, p
      <4> QED
        BY <4>1, <4>2
    <3>4. Len(s) \in Nat /\ Len(p) \in Nat
      BY <1>3
    <3> HIDE DEF T, r, p, s
    <3> QED
      BY <3>2, <3>3, <3>4
  <2>2. Files!Splice(r, off, p) =
           [i \in 1 .. n |-> IF written(i) THEN p[i - off] ELSE r[i]]
    <3> HIDE DEF T, r, p, off
    <3>1. Files!Splice(r, off, p) =
             [i \in 1 .. LargerOf(Len(r), off + Len(p)) |->
                 IF off < i /\ i <= off + Len(p) THEN p[i - off] ELSE r[i]]
      <4>1. off \in Nat /\ off <= Len(r)
        BY <1>3, <1>4, <1>6
      <4> HIDE DEF s
      <4> QED
        BY <2>1, <4>1, SpliceIs
    <3> QED
      BY <1>6, <3>1
  <2>3. ReadBack(f)' = [i \in 1 .. n |-> Shown(f, i)']
    <3>1. DOMAIN cells'[f] = 1 .. n
      BY <1>2, <1>3, <1>5
    <3> QED
      BY <1>3, <1>6, <3>1
  <2> DEFINE cell(i) == IF written(i) THEN p[i - off] ELSE r[i]
  <2>4. \A i \in 1 .. n : Shown(f, i)' = cell(i)
    BY <1>8
  <2>5. [i \in 1 .. n |-> Shown(f, i)'] = [i \in 1 .. n |-> cell(i)]
    <3> HIDE DEF n, cell
    <3> QED
      BY <2>4
  <2> QED
    BY <2>2, <2>3, <2>5
<1>10. ASSUME NEW g \in Inodes, g # f PROVE ReadBack(g)' = ReadBack(g)
  <2>1. cells'[g] = cells[g]
    BY <1>2, <1>3, <1>10
  <2>2. ASSUME NEW i \in DOMAIN cells[g] PROVE Shown(g, i)' = Shown(g, i)
    BY <1>7, <1>10, <2>1 DEF Shown, BusyCell
  <2> QED
    BY <1>6, <2>1, <2>2
<1>11. Data' = [Data EXCEPT ![f] = Files!Splice(@, off, p)]
  <2>1. Data[f] = r
    BY <1>3 DEF Data
  <2> QED
    BY <1>3, <1>9, <1>10, <2>1 DEF Data
<1>12. /\ Asking.op = "write" /\ Asking.name = req.name
       /\ Asking.off = off /\ Asking.data = p /\ Asking' = Files!None
  BY <1>2 DEF Asking, NoReq, Files!None
<1>13. Files!EndWrite
  BY <1>2, <1>11, <1>12 DEF Files!EndWrite, Data, Asking
<1> QED
  BY <1>13 DEF Files!Next

(* The end of a bb_unlink: the file is empty, the others are as before.    *)
LEMMA FinishUnlinkFlat ==
    ASSUME Safe, Safe', FinishUnlink
    PROVE  Files!Next
<1>1. req.op = "unlink" /\ dir[req.name] \in Inodes
  BY DEF FinishUnlink, Safe, TypeInv, TypeOK, HandlerOK, Exists
<1> PICK f \in Inodes : f = dir[req.name]
  BY <1>1
<1>2. /\ req.op = "unlink" /\ req' = NoReq /\ req'.op = "idle"
      /\ blocks' = blocks
      /\ dir' = [dir EXCEPT ![req.name] = NoFile]
      /\ cells' = Reclaim(dir')
  BY DEF FinishUnlink, NoReq
<1>3. /\ req.name \in Names /\ Exists(req.name)
      /\ f \in Inodes /\ cells \in [Inodes -> Seq(Nat)]
      /\ dir \in [Names -> Inodes \cup {NoFile}]
  BY <1>2 DEF Safe, TypeInv, TypeOK, HandlerOK, Exists
<1>4. \A g \in Inodes : Linked(g)' <=> (Linked(g) /\ g # f)
  <2>1. Sole(req.name)
    BY <1>2 DEF Safe, SharingInv, OldOK
  <2> QED
    BY <1>2, <1>3, <2>1, SoleName
<1>5. \A g \in Inodes : cells'[g] = IF g = f THEN << >> ELSE cells[g]
  <2> SUFFICES ASSUME NEW g \in Inodes
               PROVE  cells'[g] = IF g = f THEN << >> ELSE cells[g]
    OBVIOUS
  <2>1. cells'[g] = IF \E n \in Names : dir'[n] = g THEN cells[g] ELSE << >>
    BY <1>2 DEF Reclaim
  <2>2. cells'[g] = IF Linked(g) /\ g # f THEN cells[g] ELSE << >>
    BY <1>4, <2>1 DEF Linked
  <2> QED
    BY <2>2 DEF Safe, SharingInv, FilesOK
<1>6. \A g \in Inodes :
         /\ ReadBack(g) = [i \in DOMAIN cells[g] |-> Shown(g, i)]
         /\ ReadBack(g)' = [i \in DOMAIN cells'[g] |-> Shown(g, i)']
  BY ReadBackIs, ReadBackIsNext
<1>7. ASSUME NEW g \in Inodes, g # f PROVE ReadBack(g)' = ReadBack(g)
  <2>1. cells'[g] = cells[g]
    BY <1>5, <1>7
  <2>2. ASSUME NEW i \in DOMAIN cells[g] PROVE Shown(g, i)' = Shown(g, i)
    BY <1>2, <1>7, <2>1 DEF Shown, BusyCell
  <2> QED
    BY <1>6, <2>1, <2>2
<1>8. ReadBack(f)' = << >>
  <2>1. cells'[f] = << >>
    BY <1>3, <1>5
  <2>2. DOMAIN cells'[f] = {}
    BY <2>1
  <2>3. ReadBack(f)' = [i \in {} |-> Shown(f, i)']
    BY <1>3, <1>6, <2>2
  <2> QED
    BY <2>3
<1>9. Data' = [Data EXCEPT ![f] = << >>]
  BY <1>3, <1>7, <1>8 DEF Data
<1>10. Asking.op = "unlink" /\ Asking.name = req.name /\ Asking' = Files!None
  BY <1>2 DEF Asking, NoReq, Files!None
<1>11. Files!Freed(dir') = [Data EXCEPT ![f] = << >>]
  <2>1. ASSUME NEW g \in Inodes
        PROVE  (IF \E o \in Names : dir'[o] = g THEN Data[g] ELSE << >>)
                  = IF g = f THEN << >> ELSE Data[g]
    <3>1. ~ Linked(g) => Data[g] = << >>
      BY NamelessEmpty DEF Safe, SharingInv, FilesOK
    <3> QED
      BY <1>4, <3>1 DEF Linked
  <2> DEFINE G == [g \in Inodes |-> IF g = f THEN << >> ELSE Data[g]]
  <2>2. Files!Freed(dir') = G
    BY <2>1 DEF Files!Freed, Data
  <2>3. [Data EXCEPT ![f] = << >>] = G
    BY DEF Data
  <2> QED
    BY <2>2, <2>3
<1>12. Files!EndUnlink
  BY <1>2, <1>9, <1>10, <1>11 DEF Files!EndUnlink, Data, Asking
<1> QED
  BY <1>12 DEF Files!Next

(* Every step is one that the flat file system takes, or changes nothing   *)
(* of what it is made of.                                                  *)
LEMMA StepFlat ==
    ASSUME Safe, Safe', [Next /\ Careful]_vars
    PROVE  [Files!Next]_(Files!vars)
<1>1. Kept
  BY LiveKept DEF Safe
<1>2. DOMAIN ledger \subseteq Nat
  BY DEF Safe, TypeInv, TypeOK, LedgerTypeOK
<1>3. UNCHANGED <<dir, Data, Asking>> => UNCHANGED Files!vars
  BY DEF Files!vars, Data, Asking
<1>4. CASE Call /\ Careful
  <2>1. ASSUME NEW n \in Names, NEW size \in 0 .. MaxCells,
               Ftruncate(n, size)
        PROVE  UNCHANGED Files!vars
    <3>1. UNCHANGED vars
      BY <1>4, <2>1, FtruncateFlat
    <3>2. UNCHANGED <<dir, Data, Asking>>
      BY <3>1 DEF vars, Data, ReadBack, Asking
    <3> QED
      BY <1>3, <3>2
  <2>2. \/ Files!Next
        \/ \E n \in Names, size \in 0 .. MaxCells : Ftruncate(n, size)
    BY <1>1, <1>4, MknodFlat, RenameFlat, LinkFlat, BeginWriteFlat,
       BeginUnlinkFlat DEF Call
  <2> QED
    BY <2>1, <2>2
<1>5. CASE RemoveNext \/ \E k \in DOMAIN ledger : PushNext(k)
  BY <1>1, <1>3, <1>5, InsideFlat
<1>6. CASE Pwrite
  <2>1. Files!Next
    BY <1>6, PwriteFlat
  <2> QED
    BY <2>1
<1>7. CASE FinishUnlink
  <2>1. Files!Next
    BY <1>7, FinishUnlinkFlat
  <2> QED
    BY <2>1
<1>8. CASE UNCHANGED vars
  <2>1. dir' = dir /\ Asking' = Asking
    BY <1>8 DEF vars, Asking
  <2>2. Data' = Data
    BY <1>8 DEF vars, Data, ReadBack
  <2> QED
    BY <1>3, <2>1, <2>2
<1> QED
  BY <1>4, <1>5, <1>6, <1>7, <1>8 DEF Next, HandlerStep

(* The file system starts as the flat one does.                            *)
LEMMA InitFlat == Init => Files!Init
<1> SUFFICES ASSUME Init PROVE Files!Init
  OBVIOUS
<1>1. \A f \in Inodes : ReadBack(f) = << >>
  <2> SUFFICES ASSUME NEW f \in Inodes PROVE ReadBack(f) = << >>
    OBVIOUS
  <2>1. cells[f] = << >>
    BY DEF Init
  <2>2. DOMAIN cells[f] = {}
    BY <2>1
  <2> QED
    BY <2>2 DEF ReadBack
<1>2. Asking = Files!None
  BY NotAsking DEF Init
<1> QED
  BY <1>1, <1>2 DEF Init, Files!Init, Asking

(* As long as the steps are careful, deduplication is invisible.  Seen     *)
(* through readFile, the file system behaves like one that has neither a   *)
(* ledger nor shared blocks: a bb_write or bb_unlink changes the blocks it *)
(* was asked to change of the file it was given, under whichever of its    *)
(* names, and no other file reads differently for it, at no step of any    *)
(* handler.                                                                *)
THEOREM DedupInvisible == Spec /\ [][Careful]_vars => ImplementsFlatFs
<1>1. Safe /\ Safe' /\ [Next /\ Careful]_vars => [Files!Next]_(Files!vars)
  BY StepFlat
<1>2. CarefulSpec => ImplementsFlatFs
  BY <1>1, InitFlat, SafeInvariant, PTL
     DEF CarefulSpec, ImplementsFlatFs, Files!Spec
<1> QED
  BY <1>2, CarefulIs

(* Two sequences of the same length are equal if their elements are.       *)
LEMMA SameSeq ==
    ASSUME NEW T, NEW s \in Seq(T), NEW t \in Seq(T), Len(s) = Len(t),
           \A i \in 1 .. Len(s) : s[i] = t[i]
    PROVE  s = t
  OBVIOUS

(* Between two requests readFile finds the text of every block from off.   *)
LEMMA ReadFileText ==
    ASSUME Safe, req = NoReq, NEW f \in Inodes, NEW off \in Nat,
           off < Len(cells[f])
    PROVE  /\ ReadFile(f, off) \in Seq(Contents)
           /\ Len(ReadFile(f, off)) = Len(cells[f])
           /\ \A i \in 1 .. Len(cells[f]) - off :
                 ReadFile(f, off)[i] = blocks[cells[f][off + i]]
           /\ \A i \in DOMAIN cells[f] : /\ cells[f][i] \in DOMAIN blocks
                                         /\ blocks[cells[f][i]] \in Contents
<1> DEFINE s == cells[f]
           n == Len(s)
           at(i) == ReadBlock(IdRead(f, i))
           text == [i \in 1 .. n |-> at(off + i)]
<1>1. s \in Seq(Nat) /\ n \in Nat /\ DOMAIN s = 1 .. n /\ n # 0
  <2>1. s \in Seq(Nat)
    BY DEF Safe, TypeInv, TypeOK
  <2>2. n \in Nat /\ DOMAIN s = 1 .. n
    <3> HIDE DEF s
    <3> QED
      BY <2>1
  <2> HIDE DEF n
  <2> QED
    BY <2>1, <2>2 DEF n
<1>2. \A i \in DOMAIN s : s[i] \in DOMAIN blocks /\ blocks[s[i]] \in Contents
  BY NotAsking DEF Safe, Visible, TypeInv, LedgerInv, LedgerTypeOK
<1>3. ASSUME NEW i \in 1 .. n
      PROVE  /\ at(off + i) \in Contents
             /\ off + i <= n => at(off + i) = blocks[s[off + i]]
  <2> DEFINE j == SmallerOf(off + i, n)
  <2>1. j \in 1 .. n /\ (off + i <= n => j = off + i)
    <3> HIDE DEF n
    <3> QED
      BY <1>1 DEF SmallerOf
  <2>2. at(off + i) = ReadBlock(s[j])
    BY DEF IdRead
  <2>3. at(off + i) = blocks[s[j]] /\ blocks[s[j]] \in Contents
    BY <1>1, <1>2, <2>1, <2>2 DEF ReadBlock
  <2> HIDE DEF at, j
  <2> QED
    BY <2>1, <2>3
<1> HIDE DEF at
<1>4. ReadFile(f, off) = text
  <2>1. ~ \E i \in 1 .. n : text[i] = Null
    BY <1>3, ReadsAssumption
  <2> QED
    BY <1>1, <2>1 DEF ReadFile, at
<1>5. text \in Seq(Contents) /\ Len(text) = n
  <2>1. text \in [1 .. n -> Contents]
    BY <1>3
  <2> HIDE DEF text, n
  <2> QED
    BY <1>1, <2>1
<1>6. ASSUME NEW i \in 1 .. n - off PROVE text[i] = blocks[s[off + i]]
  <2>1. i \in 1 .. n /\ off + i <= n
    <3> HIDE DEF n
    <3> QED
      BY <1>1
  <2> QED
    BY <1>3, <2>1
<1> QED
  BY <1>2, <1>4, <1>5, <1>6

(* With that, a read gives the blocks of its range.                        *)
LEMMA ReadsVisible == Safe => ReadsExact
<1> SUFFICES ASSUME Safe, req = NoReq, NEW f \in Inodes,
                    NEW off \in 0 .. Len(cells[f]) - 1
             PROVE  /\ \A n \in 1 .. Len(cells[f]) - off :
                          BbRead(f, off, n)
                             = SubSeq(ReadBack(f), off + 1, off + n)
                    /\ Getattr(f) = Len(cells[f])
  BY DEF ReadsExact
<1> DEFINE s == cells[f]
           len == Len(s)
           text == ReadFile(f, off)
<1>1. /\ s \in Seq(Nat) /\ len \in Nat /\ DOMAIN s = 1 .. len
      /\ off \in Nat /\ off < len
  <2>1. s \in Seq(Nat)
    BY DEF Safe, TypeInv, TypeOK
  <2>2. len \in Nat /\ DOMAIN s = 1 .. len
    <3> HIDE DEF s
    <3> QED
      BY <2>1
  <2> HIDE DEF len
  <2> QED
    BY <2>1, <2>2 DEF len
<1>2. /\ text \in Seq(Contents) /\ Len(text) = len
      /\ \A i \in 1 .. len - off : text[i] = blocks[s[off + i]]
      /\ \A i \in DOMAIN s :
            s[i] \in DOMAIN blocks /\ blocks[s[i]] \in Contents
  BY <1>1, ReadFileText
<1>3. \A i \in DOMAIN s : ReadBack(f)[i] = blocks[s[i]]
  <2>1. ReadBack(f) = [i \in DOMAIN s |-> Shown(f, i)]
    BY ReadBackIs
  <2>2. \A i \in DOMAIN s : Shown(f, i) = blocks[s[i]]
    BY NotAsking DEF Shown
  <2> QED
    BY <2>1, <2>2
<1>4. ASSUME NEW n \in 1 .. len - off
      PROVE  BbRead(f, off, n) = SubSeq(ReadBack(f), off + 1, off + n)
  <2> DEFINE back == ReadBack(f)
             a == SubSeq(text, 1, n)
             b == SubSeq(back, off + 1, off + n)
  <2>1. n \in Nat /\ n >= 1 /\ off + n <= len /\ n <= len
    <3> HIDE DEF len
    <3> QED
      BY <1>1
  <2>2. BbRead(f, off, n) = a
    <3>1. text # Null
      BY <1>2, ReadsAssumption
    <3>2. SmallerOf(n, Len(text)) = n
      BY <1>2, <2>1 DEF SmallerOf
    <3> QED
      BY <3>1, <3>2 DEF BbRead
  <2> HIDE DEF text
  <2>3. a \in Seq(Contents) /\ Len(a) = n /\ \A i \in 1 .. n : a[i] = text[i]
    <3>1. \A i \in 1 .. n : text[i] \in Contents
      BY <1>2, <2>1
    <3>2. /\ SubSeq(text, 1, n) \in Seq(Contents)
          /\ Len(SubSeq(text, 1, n)) = IF 1 <= n THEN n - 1 + 1 ELSE 0
          /\ \A i \in 1 .. n - 1 + 1 : SubSeq(text, 1, n)[i] = text[1 + i - 1]
      BY <2>1, <3>1, SubSeqProperties
    <3> HIDE DEF a
    <3> QED
      BY <2>1, <3>2 DEF a
  <2>4. /\ b \in Seq(Contents) /\ Len(b) = n
        /\ \A i \in 1 .. n : b[i] = back[off + i]
    <3> DEFINE from == off + 1
               to == off + n
    <3>1. \A i \in from .. to : back[i] \in Contents
      <4> SUFFICES ASSUME NEW i \in from .. to PROVE back[i] \in Contents
        OBVIOUS
      <4>1. i \in 1 .. len
        BY <1>1, <2>1
      <4> QED
        BY <1>1, <1>2, <1>3, <4>1
    <3>2. from \in Int /\ to \in Int
      BY <1>1, <2>1
    <3> HIDE DEF from, to, back
    <3>3. /\ SubSeq(back, from, to) \in Seq(Contents)
          /\ Len(SubSeq(back, from, to)) =
                IF from <= to THEN to - from + 1 ELSE 0
          /\ \A i \in 1 .. to - from + 1 :
                SubSeq(back, from, to)[i] = back[from + i - 1]
      BY <3>1, <3>2, SubSeqProperties
    <3>4. to - from + 1 = n /\ from <= to
      BY <1>1, <2>1 DEF from, to
    <3>5. b = SubSeq(back, from, to)
      BY DEF from, to
    <3> HIDE DEF b
    <3>6. ASSUME NEW i \in 1 .. n PROVE b[i] = back[off + i]
      <4>1. from + i - 1 = off + i
        BY <1>1 DEF from
      <4> QED
        BY <3>3, <3>4, <3>5, <4>1
    <3> QED
      BY <3>3, <3>4, <3>5, <3>6
  <2> HIDE DEF a, b, back
  <2>5. ASSUME NEW i \in 1 .. n PROVE a[i] = b[i]
    <3>1. i \in 1 .. len - off /\ off + i \in 1 .. len
      BY <1>1, <2>1
    <3>2. text[i] = blocks[s[off + i]] /\ back[off + i] = blocks[s[off + i]]
      BY <1>1, <1>2, <1>3, <3>1 DEF back
    <3> QED
      BY <2>3, <2>4, <3>2
  <2>6. a = b
    BY <2>3, <2>4, <2>5, SameSeq
  <2> QED
    BY <2>2, <2>6 DEF b, back
<1>5. Getattr(f) = len
  <2>1. \A i \in DOMAIN s : ReadBlock(s[i]) # Null
    BY <1>2, ReadsAssumption DEF ReadBlock
  <2>2. RealSize(f) = len
    BY <2>1 DEF RealSize
  <2>3. len > 0
    <3> HIDE DEF len
    <3> QED
      BY <1>1
  <2> QED
    BY <2>2, <2>3 DEF Getattr
<1> QED
  BY <1>4, <1>5

(* As long as the steps are careful, between two requests bb_read inside a *)
(* file returns exactly the blocks of the range asked for, and bb_getattr  *)
(* the length of the file, whatever was written to it and whatever other   *)
(* files share.                                                            *)
THEOREM ReadsAreExact == Spec /\ [][Careful]_vars => []ReadsExact
  BY CarefulIs, SafeInvariant, ReadsVisible, PTL

=============================================================================
