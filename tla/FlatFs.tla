------------------------------- MODULE FlatFs -------------------------------
(***************************************************************************)
(* What the file system of hw4 promises its users: names, files, and in    *)
(* each file the blocks last written to it.  There is no ledger, no block  *)
(* file and no sharing here: writing or removing one file never changes    *)
(* what another one reads.  Bbfs is shown to implement this module.        *)
(*                                                                         *)
(* A file may have several names; it goes with the last of them.  Between  *)
(* the start and the end of a write or an unlink, the blocks that will be  *)
(* replaced may read as anything: they are Busy.                           *)
(***************************************************************************)
EXTENDS Naturals, Sequences

CONSTANTS Names, Inodes, Contents, Payloads, MaxCells,
          NoFile,   \* what a name that does not exist is bound to
          NoName,   \* no name
          Busy      \* a block that is being replaced

VARIABLES dir,      \* the file each name is bound to
          data,     \* the blocks of each file
          pending   \* the write or unlink being carried out

vars == <<dir, data, pending>>

None == [op |-> "idle", name |-> NoName, off |-> 0, data |-> << >>]

Init ==
    /\ dir = [n \in Names |-> NoFile]
    /\ data = [f \in Inodes |-> << >>]
    /\ pending = None

Bound(f) == \E n \in Names : dir[n] = f

(* The files once the names are bound as in d.                             *)
Freed(d) ==
    [f \in Inodes |-> IF \E n \in Names : d[n] = f THEN data[f] ELSE << >>]

LastName(n) == \A m \in Names : dir[m] = dir[n] => m = n

MarkBusy(s, off, n) ==
    [i \in DOMAIN s |-> IF off < i /\ i <= off + n THEN Busy ELSE s[i]]

(* The file s after the blocks p are written at block off, off <= Len(s).  *)
Splice(s, off, p) ==
    SubSeq(s, 1, off) \o p \o SubSeq(s, off + Len(p) + 1, Len(s))

Create(n, f) ==
    /\ pending = None
    /\ dir[n] = NoFile
    /\ ~ Bound(f)
    /\ dir' = [dir EXCEPT ![n] = f]
    /\ UNCHANGED <<data, pending>>

BeginWrite(n, p, off) ==
    /\ pending = None
    /\ dir[n] # NoFile
    /\ off <= Len(data[dir[n]])
    /\ off + Len(p) <= MaxCells
    /\ data' = [data EXCEPT ![dir[n]] = MarkBusy(@, off, Len(p))]
    /\ pending' = [op |-> "write", name |-> n, off |-> off, data |-> p]
    /\ UNCHANGED dir

EndWrite ==
    /\ pending.op = "write"
    /\ data' = [data EXCEPT ![dir[pending.name]] =
                    Splice(@, pending.off, pending.data)]
    /\ pending' = None
    /\ UNCHANGED dir

BeginUnlink(n) ==
    /\ pending = None
    /\ dir[n] # NoFile
    /\ data' = IF LastName(n)
               THEN [data EXCEPT ![dir[n]] = MarkBusy(@, 0, Len(@))]
               ELSE data
    /\ pending' = [op |-> "unlink", name |-> n, off |-> 0, data |-> << >>]
    /\ UNCHANGED dir

EndUnlink ==
    /\ pending.op = "unlink"
    /\ dir' = [dir EXCEPT ![pending.name] = NoFile]
    /\ data' = Freed(dir')
    /\ pending' = None

Rename(n, m) ==
    /\ pending = None
    /\ dir[n] # NoFile
    /\ dir[n] # dir[m]
    /\ dir' = [dir EXCEPT ![m] = dir[n], ![n] = NoFile]
    /\ data' = Freed(dir')
    /\ UNCHANGED pending

Link(n, m) ==
    /\ pending = None
    /\ dir[n] # NoFile
    /\ dir[m] = NoFile
    /\ dir' = [dir EXCEPT ![m] = dir[n]]
    /\ UNCHANGED <<data, pending>>

Next ==
    \/ \E n \in Names, f \in Inodes : Create(n, f)
    \/ \E n \in Names, p \in Payloads, off \in 0 .. MaxCells :
          BeginWrite(n, p, off)
    \/ EndWrite
    \/ \E n \in Names : BeginUnlink(n)
    \/ EndUnlink
    \/ \E n, m \in Names : Rename(n, m) \/ Link(n, m)

Spec == Init /\ [][Next]_vars
=============================================================================
