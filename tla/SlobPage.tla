------------------------------ MODULE SlobPage ------------------------------
(***************************************************************************)
(* One page of the SLOB allocator of hw3 (slob.c): the free blocks are a   *)
(* list whose sizes and links are written into the free memory itself.     *)
(* The operators work on the words of the page, one word to a SLOB_UNIT,   *)
(* and an address is an offset into the page, PageUnits for its end.       *)
(*                                                                         *)
(* A page is [mem, freelist, units]: its words, the first free block and   *)
(* the number of free units, the fields of struct page.                    *)
(***************************************************************************)
EXTENDS Integers, Sequences, FiniteSets

CONSTANT PageUnits      \* SLOB_UNITS(PAGE_SIZE)

ASSUME PageAssumption == PageUnits \in Nat \ {0, 1}

Words == 0 .. PageUnits - 1
None == PageUnits

(* A free block of more than one unit has its size in its first word and   *)
(* the address of the next free block in the second; a block of one unit   *)
(* has that address only, negated.                                         *)
set_slob(mem, s, size, next) ==
    IF size > 1 THEN [mem EXCEPT ![s] = size, ![s + 1] = next]
    ELSE [mem EXCEPT ![s] = -next]

slob_units(mem, s) == IF mem[s] > 0 THEN mem[s] ELSE 1

slob_next(mem, s) == IF mem[s] < 0 THEN -mem[s] ELSE mem[s + 1]

slob_last(mem, s) == slob_next(mem, s) % PageUnits = 0

(* Where the loops over the free blocks are after k steps.                 *)
Met(pg) ==
    LET met[k \in 0 .. PageUnits] ==
            IF k = 0 THEN pg.freelist
            ELSE LET s == met[k - 1]
                 IN  IF s = None \/ slob_last(pg.mem, s) THEN None
                     ELSE slob_next(pg.mem, s)
    IN  met

(* The free blocks in the order in which the loops meet them.              *)
FreeBlocks(pg) ==
    LET met == Met(pg)
        blocks == {k \in 0 .. PageUnits - 1 : met[k] # None}
    IN  [k \in 1 .. Cardinality(blocks) |-> met[k - 1]]

(* A page of which nothing is known, and a page that is one free block.    *)
Blank == [mem |-> [w \in Words |-> 0], freelist |-> None, units |-> 0]
Fresh == [mem |-> set_slob(Blank.mem, 0, PageUnits, PageUnits),
          freelist |-> 0,
          units |-> PageUnits]

-----------------------------------------------------------------------------
(* Mutant of Delta: the block is not aligned.                              *)
NoDelta(s, align) == 0

(* How far ALIGN moves a block: pages are aligned.                         *)
Delta(s, align) == (-s) % align

(* The loop of find_min_block and of slob_page_alloc over the free blocks: *)
(* the block they choose, the one before it, and min_space, which is       *)
(* computed with "+ delta" where the test subtracts it.                    *)
MinBlock(pg, blocks, units, align) ==
    LET best[k \in 0 .. Len(blocks)] ==
            IF k = 0 THEN [block |-> None, prev |-> None, space |-> -1]
            ELSE LET min == best[k - 1]
                     avail == slob_units(pg.mem, blocks[k])
                     delta == Delta(blocks[k], align)
                 IN  IF /\ avail >= units + delta
                        /\ \/ avail - (units + delta) < min.space
                           \/ min.block = None
                     THEN [block |-> blocks[k],
                           prev |-> IF k = 1 THEN None ELSE blocks[k - 1],
                           space |-> avail - units + delta]
                     ELSE min
    IN  best[Len(blocks)]

find_min_block(pg, units, align) ==
    MinBlock(pg, FreeBlocks(pg), units, align)

(* Mutant of SplitHead: the fragment is not linked in.                     *)
SplitWithoutHead(pg, min, delta) ==
    [mem |-> IF delta = 0 THEN pg.mem
             ELSE set_slob(pg.mem, min.block + delta,
                           slob_units(pg.mem, min.block) - delta,
                           slob_next(pg.mem, min.block)),
     block |-> min.block + delta,
     prev |-> min.prev]

(* slob_page_alloc has found min: the fragment in front of the aligned     *)
(* block becomes a free block of its own.                                  *)
SplitHead(pg, min, delta) ==
    IF delta = 0
    THEN [mem |-> pg.mem, block |-> min.block, prev |-> min.prev]
    ELSE [mem |-> set_slob(set_slob(pg.mem, min.block + delta,
                                    slob_units(pg.mem, min.block) - delta,
                                    slob_next(pg.mem, min.block)),
                           min.block, delta, min.block + delta),
          block |-> min.block + delta,
          prev |-> min.block]

(* The block leaves the list, and what remains behind it takes its place.  *)
Unlink(pg, at, units) ==
    LET next == slob_next(at.mem, at.block)
        more == slob_units(at.mem, at.block) - units
        rest == IF more = 0 THEN next ELSE at.block + units
        mem == IF at.prev = None THEN at.mem
               ELSE set_slob(at.mem, at.prev,
                             slob_units(at.mem, at.prev), rest)
    IN  [mem |-> IF more = 0 THEN mem ELSE set_slob(mem, rest, more, next),
         freelist |-> IF at.prev = None THEN rest ELSE pg.freelist,
         units |-> pg.units - units]

PageAlloc(pg, min, units, align) ==
    [block |-> min.block + Delta(min.block, align),
     page |-> Unlink(pg, SplitHead(pg, min, Delta(min.block, align)), units)]

slob_page_alloc(pg, units, align) ==
    PageAlloc(pg, find_min_block(pg, units, align), units, align)

-----------------------------------------------------------------------------
(* slob_free on a page that was full: b is its only free block.            *)
FirstBlock(pg, b, units) ==
    [mem |-> set_slob(pg.mem, b, units, PageUnits),
     freelist |-> b,
     units |-> units]

(* slob_free in front of the list.                                         *)
InsertFront(pg, b, units) ==
    LET mem == pg.mem
        first == pg.freelist
    IN  [mem |-> IF b + units = first
                 THEN set_slob(mem, b, units + slob_units(mem, first),
                               slob_next(mem, first))
                 ELSE set_slob(mem, b, units, first),
         freelist |-> b,
         units |-> pg.units + units]

(* The block at which the loop of slob_free stops: the first one that b is *)
(* not behind the next of.                                                 *)
Before(pg, b) ==
    LET blocks == FreeBlocks(pg)
        stops == {k \in DOMAIN blocks : ~ b > slob_next(pg.mem, blocks[k])}
    IN  blocks[CHOOSE k \in stops : \A j \in stops : k <= j]

(* A block whose links are set is merged with the block prev before it.    *)
MergeBefore(mem, prev, b) ==
    IF prev + slob_units(mem, prev) = b
    THEN set_slob(mem, prev, slob_units(mem, b) + slob_units(mem, prev),
                  slob_next(mem, b))
    ELSE set_slob(mem, prev, slob_units(mem, prev), b)

(* Mutant of LinkAfter: b is not merged with the block behind it.          *)
LinkOnly(mem, prev, b, units) == set_slob(mem, b, units, slob_next(mem, prev))

(* b is put behind prev and merged with the block after it.                *)
LinkAfter(mem, prev, b, units) ==
    LET next == slob_next(mem, prev)
    IN  IF ~ slob_last(mem, prev) /\ b + units = next
        THEN set_slob(mem, b, units + slob_units(mem, next),
                      slob_next(mem, next))
        ELSE set_slob(mem, b, units, next)

InsertAfter(pg, prev, b, units) ==
    [mem |-> MergeBefore(LinkAfter(pg.mem, prev, b, units), prev, b),
     freelist |-> pg.freelist,
     units |-> pg.units + units]

(* slob_free behind the first block.                                       *)
InsertBehind(pg, b, units) == InsertAfter(pg, Before(pg, b), b, units)
=============================================================================
