-------------------------------- MODULE Heap --------------------------------
(***************************************************************************)
(* What slob_alloc and slob_free promise to the rest of the kernel: the    *)
(* memory a caller gets is aligned as it asked, inside one page, and       *)
(* belongs to nobody else until it is given back.                          *)
(***************************************************************************)
EXTENDS Integers

CONSTANTS
    Pages,          \* the pages
    PageUnits,      \* the units of a page
    Shapes          \* what may be asked for: [units, align]

VARIABLE used       \* the memory in use: a set of [page, at, units]

HeapInit == used = {}

Span(b) == b.at .. b.at + b.units - 1

Alloc(p, at, shape) ==
    LET b == [page |-> p, at |-> at, units |-> shape.units]
    IN  /\ at % shape.align = 0
        /\ at + shape.units <= PageUnits
        /\ \A c \in used : c.page = p => Span(b) \cap Span(c) = {}
        /\ used' = used \cup {b}

Free(b) == used' = used \ {b}

HeapNext ==
    \/ \E p \in Pages, at \in 0 .. PageUnits - 1, shape \in Shapes :
          Alloc(p, at, shape)
    \/ \E b \in used : Free(b)

HeapSpec == HeapInit /\ [][HeapNext]_used
=============================================================================
