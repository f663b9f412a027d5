-------------------------------- MODULE Slob --------------------------------
(***************************************************************************)
(* The SLOB allocator of hw3 (slob.c, with BEST_FIT_ALLOCATOR): the three  *)
(* lists of partially free pages, slob_alloc with its choice of a page,    *)
(* slob_free, and objects of SLAB_DESTROY_BY_RCU caches, which are freed   *)
(* by a callback after a grace period.                                     *)
(*                                                                         *)
(* A step is what is done under slob_lock.  slob_alloc takes the lock      *)
(* twice when it needs a new page, and the other CPUs get in between.  The *)
(* words of memory in use are 0: slob.c writes a block before it reads it. *)
(***************************************************************************)
EXTENDS SlobPage, FiniteSets

CONSTANTS
    Pages,              \* the pages the page allocator can give
    Cpus,
    Requests,           \* the calls of slob_alloc: [size, align, rcu]
    SLOB_UNIT,          \* bytes to a unit
    SLOB_BREAK1, SLOB_BREAK2,
    NoCall

ASSUME SlobAssumption ==
    /\ IsFiniteSet(Pages)
    /\ SLOB_UNIT \in Nat \ {0}
    /\ \A r \in Requests :
          /\ r.size \in 1 .. PageUnits * SLOB_UNIT
          /\ r.align \in 1 .. PageUnits /\ r.rcu \in BOOLEAN
    /\ NoCall \notin Requests

VARIABLES
    page,               \* the struct page of each page and its words
    free_slob,          \* the lists of partially free pages
    slab,               \* the pages that belong to SLOB
    live,               \* the blocks in use
    rcu,                \* those of them that wait for kmem_rcu_free
    call,               \* the request of each CPU that waits for a page
    memory_free         \* what free_mem_stat reports, in units

vars == <<page, free_slob, slab, live, rcu, call, memory_free>>

Lists == {"small", "medium", "large"}

SLOB_UNITS(size) == (size + SLOB_UNIT - 1) \div SLOB_UNIT

SlobList(size) ==
    IF size < SLOB_BREAK1 THEN "small"
    ELSE IF size < SLOB_BREAK2 THEN "medium"
    ELSE "large"

Elements(seq) == {seq[i] : i \in DOMAIN seq}

(* The pages that are on a list: PageSlobFree.                             *)
Listed == UNION {Elements(free_slob[l]) : l \in Lists}

FreeUnits == Cardinality(UNION {{p} \X (1 .. page[p].units) : p \in Listed})

Init ==
    /\ page = [p \in Pages |-> Blank]
    /\ free_slob = [l \in Lists |-> << >>]
    /\ slab = {}
    /\ live = {} /\ rcu = {}
    /\ call = [c \in Cpus |-> NoCall]
    /\ memory_free = 0

-----------------------------------------------------------------------------
(* slob_alloc.                                                             *)

(* What find_min_block says of the pages it is asked about.                *)
Space(p, r) ==
    IF page[p].units < SLOB_UNITS(r.size) THEN -1
    ELSE find_min_block(page[p], SLOB_UNITS(r.size), r.align).space

(* Mutant of BestPage: an exact fit is not among the fits.                 *)
RoomyPage(r) ==
    LET pages == free_slob[SlobList(r.size)]
        space == [i \in DOMAIN pages |-> Space(pages[i], r)]
        fits == {i \in DOMAIN pages : space[i] > 0}
        before(i, j) ==
            \/ page[pages[i]].units < page[pages[j]].units
            \/ page[pages[i]].units = page[pages[j]].units /\ i <= j
    IN  {pages[i] : i \in {k \in fits : \A j \in fits : before(k, j)}}

(* The page the loop of slob_alloc ends with: the first with an exact fit, *)
(* else the first of those with the fewest free units.                     *)
BestPage(r) ==
    LET pages == free_slob[SlobList(r.size)]
        space == [i \in DOMAIN pages |-> Space(pages[i], r)]
        exact == {i \in DOMAIN pages : space[i] = 0}
        fits == {i \in DOMAIN pages : space[i] > 0}
        before(i, j) ==
            \/ page[pages[i]].units < page[pages[j]].units
            \/ page[pages[i]].units = page[pages[j]].units /\ i <= j
    IN  {pages[i] : i \in
            IF exact # {} THEN {k \in exact : \A j \in exact : k <= j}
            ELSE {k \in fits : \A j \in fits : before(k, j)}}

(* The caller writes into its block.                                       *)
Written(pg, b, units) ==
    [pg EXCEPT !.mem = [w \in Words |-> IF w \in b .. b + units - 1 THEN 0
                                        ELSE @[w]]]

(* clear_slob_page_free: the page leaves the list it is on.                *)
Without(seq, p) ==
    LET at == CHOOSE i \in DOMAIN seq : seq[i] = p
    IN  IF p \in Elements(seq)
        THEN [i \in 1 .. Len(seq) - 1 |-> seq[IF i < at THEN i ELSE i + 1]]
        ELSE seq

Unlisted(p) == [l \in Lists |-> Without(free_slob[l], p)]

(* Mutant of HandOut: a page that is full stays on its list.               *)
HandOutOnly(p, pg, r, lists) ==
    LET units == SLOB_UNITS(r.size)
    IN  \E new \in {slob_page_alloc(pg, units, r.align)} :
          /\ page' = [page EXCEPT ![p] = Written(new.page, new.block, units)]
          /\ free_slob' = lists
          /\ live' = live \cup {[page |-> p, at |-> new.block,
                                 size |-> r.size, rcu |-> r.rcu]}

(* A block of page p, whose page struct is pg, is handed out.  The lists   *)
(* are those given; a page that is full leaves its list.                   *)
HandOut(p, pg, r, lists) ==
    LET units == SLOB_UNITS(r.size)
    IN  \E new \in {slob_page_alloc(pg, units, r.align)} :
          /\ page' = [page EXCEPT ![p] = Written(new.page, new.block, units)]
          /\ free_slob' = IF new.page.units > 0 THEN lists ELSE Unlisted(p)
          /\ live' = live \cup {[page |-> p, at |-> new.block,
                                 size |-> r.size, rcu |-> r.rcu]}

(* Mutant of MemoryFree: the block that was chosen is not subtracted.      *)
MemoryBefore(p, r) == FreeUnits

(* memory_free after a block of p was allocated: its size is read from the *)
(* header it had as a free block.                                          *)
MemoryFree(p, r) ==
    LET header(new) == slob_units(new.page.mem, new.block)
    IN  FreeUnits
        - header(slob_page_alloc(page[p], SLOB_UNITS(r.size), r.align))

(* A page of the list has room.                                            *)
Serve(c, r) ==
    /\ call[c] = NoCall
    /\ \E p \in BestPage(r) :
          /\ HandOut(p, page[p], r, free_slob)
          /\ memory_free' = MemoryFree(p, r)
    /\ UNCHANGED <<slab, rcu, call>>

(* No page has: slob_lock is released to ask for a new one.                *)
Grow(c, r) ==
    /\ call[c] = NoCall
    /\ BestPage(r) = {}
    /\ memory_free' = FreeUnits
    /\ call' = [call EXCEPT ![c] = r]
    /\ UNCHANGED <<page, free_slob, slab, live, rcu>>

(* slob_new_pages returns NULL, and so does slob_alloc.                    *)
NoPages(c) ==
    /\ call[c] # NoCall
    /\ call' = [call EXCEPT ![c] = NoCall]
    /\ UNCHANGED <<page, free_slob, slab, live, rcu, memory_free>>

(* The new page goes to the head of the list, and the block is cut off it. *)
NewPage(c, p) ==
    /\ call[c] # NoCall
    /\ p \notin slab
    /\ slab' = slab \cup {p}
    /\ HandOut(p, Fresh, call[c],
               [free_slob EXCEPT ![SlobList(call[c].size)] = <<p>> \o @])
    /\ call' = [call EXCEPT ![c] = NoCall]
    /\ UNCHANGED <<rcu, memory_free>>

-----------------------------------------------------------------------------
(* slob_free.                                                              *)

(* Mutant of FreePage: the page is kept, wholly free.                      *)
FreePageKept(b) ==
    /\ page[b.page].units + SLOB_UNITS(b.size) = PageUnits
    /\ page' = [page EXCEPT ![b.page] = Fresh]
    /\ UNCHANGED <<free_slob, slab>>

(* The page is free but for b: it goes back to the page allocator.         *)
FreePage(b) ==
    /\ page[b.page].units + SLOB_UNITS(b.size) = PageUnits
    /\ page' = [page EXCEPT ![b.page] = Blank]
    /\ free_slob' = Unlisted(b.page)
    /\ slab' = slab \ {b.page}

(* The page was full: it goes to the list of the size of b.                *)
FreeFirst(b) ==
    /\ page[b.page].units + SLOB_UNITS(b.size) # PageUnits
    /\ b.page \notin Listed
    /\ page' = [page EXCEPT ![b.page] =
                   FirstBlock(@, b.at, SLOB_UNITS(b.size))]
    /\ free_slob' = [free_slob EXCEPT ![SlobList(b.size)] = <<b.page>> \o @]
    /\ UNCHANGED slab

(* The page has free blocks already.                                       *)
FreeInto(b) ==
    /\ page[b.page].units + SLOB_UNITS(b.size) # PageUnits
    /\ b.page \in Listed
    /\ page' = [page EXCEPT ![b.page] =
                   IF b.at < @.freelist
                   THEN InsertFront(@, b.at, SLOB_UNITS(b.size))
                   ELSE InsertBehind(@, b.at, SLOB_UNITS(b.size))]
    /\ UNCHANGED <<free_slob, slab>>

slob_free(b) ==
    /\ live' = live \ {b}
    /\ FreePage(b) \/ FreeFirst(b) \/ FreeInto(b)
    /\ UNCHANGED <<call, memory_free>>

(* kfree, or kmem_cache_free of an object of a cache without RCU.          *)
Free(b) ==
    /\ b \in live
    /\ ~ b.rcu
    /\ slob_free(b)
    /\ UNCHANGED rcu

(* kmem_cache_free of an object of a cache with SLAB_DESTROY_BY_RCU.       *)
FreeLater(b) ==
    /\ b \in live \ rcu
    /\ b.rcu
    /\ rcu' = rcu \cup {b}
    /\ UNCHANGED <<page, free_slob, slab, live, call, memory_free>>

(* The grace period has passed.                                            *)
kmem_rcu_free(b) ==
    /\ b \in rcu
    /\ rcu' = rcu \ {b}
    /\ slob_free(b)

Next ==
    \/ \E c \in Cpus, r \in Requests : Serve(c, r) \/ Grow(c, r)
    \/ \E c \in Cpus : NoPages(c) \/ \E p \in Pages : NewPage(c, p)
    \/ \E b \in live : Free(b) \/ FreeLater(b) \/ kmem_rcu_free(b)

Spec == Init /\ [][Next]_vars

-----------------------------------------------------------------------------
Span(b) == b.at .. b.at + SLOB_UNITS(b.size) - 1

(* The words of the blocks of p in use, and those of its free blocks.      *)
UsedWords(p) == UNION {Span(b) : b \in {c \in live : c.page = p}}
FreeWords(p) ==
    UNION {s .. s + slob_units(page[p].mem, s) - 1 :
              s \in Elements(FreeBlocks(page[p]))}

(* Whether page p has a free block in which the request fits.              *)
HasRoom(p, r) ==
    \E s \in Elements(FreeBlocks(page[p])) :
        slob_units(page[p].mem, s) >= Delta(s, r.align) + SLOB_UNITS(r.size)

(* The variables keep their types; no page is kept that is wholly free.    *)
TypeOK ==
    /\ slab \subseteq Pages
    /\ \A p \in Pages :
          /\ page[p].mem \in [Words -> -PageUnits .. PageUnits]
          /\ page[p].freelist \in 0 .. PageUnits
          /\ page[p].units \in 0 .. PageUnits - 1
    /\ free_slob \in [Lists -> Seq(slab)]
    /\ rcu \subseteq live
    /\ call \in [Cpus -> Requests \cup {NoCall}]
    /\ memory_free \in 0 .. Cardinality(Pages) * PageUnits

(* The free blocks of a page are in the order of their addresses and never *)
(* touch: slob_free has merged whatever could be merged.                   *)
FreeListMerged ==
    \A p \in slab :
        LET blocks == FreeBlocks(page[p])
        IN  \A i \in 1 .. Len(blocks) - 1 :
                blocks[i] + slob_units(page[p].mem, blocks[i]) < blocks[i + 1]

(* No word is lost and none is given twice: the blocks in use are disjoint *)
(* and the free blocks are exactly the rest of the page, which sp->units   *)
(* counts, so that the test of slob_free for a page without blocks is      *)
(* right.                                                                  *)
PagesTiled ==
    /\ \A b, c \in live :
          b # c /\ b.page = c.page => Span(b) \cap Span(c) = {}
    /\ \A p \in slab : FreeWords(p) = Words \ UsedWords(p)
    /\ \A p \in Pages : page[p].units = Cardinality(FreeWords(p))

(* Every page with free units is on one list, once, and the full pages are *)
(* on none, so no free unit is out of the reach of slob_alloc.             *)
ListsComplete ==
    /\ Listed = {p \in slab : page[p].units > 0}
    /\ \A l, k \in Lists :
          \A i \in DOMAIN free_slob[l], j \in DOMAIN free_slob[k] :
              free_slob[l][i] = free_slob[k][j] => l = k /\ i = j

(* A new page is asked for only if no block on the list of the request     *)
(* would have done, the alignment included.                                *)
GrowsOnlyWhenFull ==
    [][\A c \in Cpus : call[c] = NoCall /\ call'[c] # NoCall =>
          \A p \in Elements(free_slob[SlobList(call'[c].size)]) :
              ~ HasRoom(p, call'[c])]_vars

(* Whenever slob_alloc has computed memory_free, it reports no more memory *)
(* than is free: the size it takes off, read from the header of the block  *)
(* after the allocation, is at least what was allocated.                   *)
MemoryFreeCautious ==
    [][memory_free' # memory_free =>
          memory_free' <= Cardinality(UNION {{p} \X FreeWords(p) :
                                                p \in slab})']_vars

(* The block is the best of its page: among those the request fits in, no  *)
(* other leaves less space, be the fragment in front of the aligned block  *)
(* counted or not (README.txt:61-62 of hw3).                               *)
BestFit ==
    [][\A b \in live' \ live :
          b.page \in Listed =>
            LET pg == page[b.page]
                units == SLOB_UNITS(b.size)
                blocks == Elements(FreeBlocks(pg))
                left(s) == slob_units(pg.mem, s) - units
                f == CHOOSE s \in blocks :
                        b.at \in s .. s + slob_units(pg.mem, s) - 1
            IN  ~ \E s \in blocks :
                    \E align \in {r.align : r \in
                            {q \in Requests : q.size = b.size}} :
                        /\ left(s) >= Delta(s, align)
                        /\ left(s) < left(f)
                        /\ left(s) - Delta(s, align) <
                              left(f) - Delta(f, align)]_vars

(* To its callers the allocator is a heap; an object of a cache with RCU   *)
(* stays theirs until the grace period has passed.                         *)
H == INSTANCE Heap WITH
        Shapes <- {[units |-> SLOB_UNITS(r.size), align |-> r.align] :
                      r \in Requests},
        used <- {[page |-> b.page, at |-> b.at,
                  units |-> SLOB_UNITS(b.size)] : b \in live}

ImplementsHeap == H!HeapSpec
=============================================================================
