------------------------------- MODULE Heap -------------------------------
(***************************************************************************)
(* memory/heap.c: a first-fit free-list allocator over one arena.          *)
(*                                                                         *)
(* Addresses are byte offsets into the arena, whose base is aligned.  h    *)
(* maps the address of every block header to its contents; it is empty     *)
(* while heap_head is NULL.  Here each call is one step; HeapRace takes    *)
(* the calls apart.                                                        *)
(***************************************************************************)
EXTENDS Integers, FiniteSets, FiniteSetsExt

CONSTANTS ArenaSize,     \* heap_size
          Sizes,         \* bound: the sizes requested
          Alignments     \* bound: the alignments requested

HEADER_SIZE == 16        \* four 32-bit words
MIN_PAYLOAD == 16
NULL        == -1

ASSUME HeapAssumption ==
    /\ ArenaSize \in Nat /\ ArenaSize > HEADER_SIZE + MIN_PAYLOAD
    /\ ArenaSize % 8 = 0
    /\ Sizes \in SUBSET Nat
    /\ Alignments \in SUBSET (Nat \ {0})
    /\ \A a \in Alignments : a < 8 \/ a % 8 = 0

VARIABLES h,             \* the block headers
          live           \* the allocations not freed yet, as their owners see them

vars == <<h, live>>

Addr   == 0 .. ArenaSize - HEADER_SIZE
Header == [size : 0 .. ArenaSize, free : BOOLEAN,
           next : Addr \cup {NULL}, prev : Addr \cup {NULL}]
Alloc  == [ptr : 0 .. ArenaSize, size : Nat]

HEAP_ALIGN_none(n, a) == n              \* mutant: no rounding

(* HEAP_ALIGN; alignments are powers of two. *)
HEAP_ALIGN(n, a) == (n + a - 1) - ((n + a - 1) % a)

(* heap_build_freelist *)
OneBlock == [b \in {0} |-> [size |-> ArenaSize - HEADER_SIZE, free |-> TRUE,
                            next |-> NULL, prev |-> NULL]]

Rest(hh, b, want) ==
    [size |-> hh[b].size - want - HEADER_SIZE, free |-> TRUE,
     next |-> hh[b].next, prev |-> b]

SplitAlways(hh, b, want) ==             \* mutant: no check of the slack
    LET rest == b + HEADER_SIZE + want
    IN  [c \in DOMAIN hh \cup {rest} |->
            IF c = rest THEN Rest(hh, b, want)
            ELSE IF c = b THEN [hh[b] EXCEPT !.size = want, !.next = rest]
            ELSE IF c = hh[b].next THEN [hh[c] EXCEPT !.prev = rest]
            ELSE hh[c]]

(* block_split *)
Split(hh, b, want) ==
    IF hh[b].size < want + HEADER_SIZE + MIN_PAYLOAD THEN hh
    ELSE LET rest == b + HEADER_SIZE + want
         IN  [c \in DOMAIN hh \cup {rest} |->
                IF c = rest THEN Rest(hh, b, want)
                ELSE IF c = b THEN [hh[b] EXCEPT !.size = want, !.next = rest]
                ELSE IF c = hh[b].next THEN [hh[c] EXCEPT !.prev = rest]
                ELSE hh[c]]

CoalesceStale(hh, b) ==                 \* mutant: the link back is not mended
    LET nxt == hh[b].next
    IN  IF nxt = NULL \/ ~hh[nxt].free THEN hh
        ELSE [c \in DOMAIN hh \ {nxt} |->
                IF c = b THEN [hh[b] EXCEPT !.size = @ + HEADER_SIZE + hh[nxt].size,
                                            !.next = hh[nxt].next]
                ELSE hh[c]]

(* block_coalesce *)
Coalesce(hh, b) ==
    LET nxt == hh[b].next
    IN  IF nxt = NULL \/ ~hh[nxt].free THEN hh
        ELSE [c \in DOMAIN hh \ {nxt} |->
                IF c = b THEN [hh[b] EXCEPT !.size = @ + HEADER_SIZE + hh[nxt].size,
                                            !.next = hh[nxt].next]
                ELSE IF c = hh[nxt].next THEN [hh[c] EXCEPT !.prev = b]
                ELSE hh[c]]

Marked(hh, b, free) == [hh EXCEPT ![b].free = free]
-----------------------------------------------------------------------------
(* kmain gives the heap a run of pages, or none: then the static arena is  *)
(* set up by the first allocation.                                         *)
Init ==
    /\ h \in {OneBlock, [b \in {} |-> OneBlock[0]]}
    /\ live = {}

FitsAny(hh, want) == {b \in DOMAIN hh : hh[b].size >= want}    \* mutant: in use or not

(* The list is in address order, so the walk finds the lowest that fits. *)
Fits(hh, want) == {b \in DOMAIN hh : hh[b].free /\ hh[b].size >= want}

Prepared == IF DOMAIN h = {} THEN OneBlock ELSE h

(* kmalloc_aligned; kmalloc asks for an alignment of 8. *)
kmalloc_aligned(size, alignment) ==
    LET align == IF alignment < 8 THEN 8 ELSE alignment
        want  == HEAP_ALIGN(size, align)
    IN  \/ /\ size = 0 \/ Fits(Prepared, want) = {}
           /\ h' = Prepared
           /\ UNCHANGED live
        \/ /\ size # 0 /\ Fits(Prepared, want) # {}
           /\ LET b == Min(Fits(Prepared, want))
              IN  /\ h' = Marked(Split(Prepared, b, want), b, FALSE)
                  /\ live' = live \cup {[ptr |-> b + HEADER_SIZE, size |-> size]}

kfree_forward(a) ==                     \* mutant: no merge with the block before
    LET b == a.ptr - HEADER_SIZE
    IN  /\ h' = Coalesce(Marked(h, b, TRUE), b)
        /\ live' = live \ {a}

kfree(a) ==
    LET b    == a.ptr - HEADER_SIZE
        f    == Coalesce(Marked(h, b, TRUE), b)
        prev == f[b].prev
    IN  /\ h' = IF prev # NULL /\ f[prev].free THEN Coalesce(f, prev) ELSE f
        /\ live' = live \ {a}

Next ==
    \/ \E size \in Sizes, alignment \in Alignments : kmalloc_aligned(size, alignment)
    \/ \E a \in live : kfree(a)

Spec == Init /\ [][Next]_vars
-----------------------------------------------------------------------------
(* Headers and allocations keep their types. *)
TypeOK ==
    /\ DOMAIN h \in SUBSET Addr
    /\ h \in [DOMAIN h -> Header]
    /\ live \in SUBSET Alloc

(* The arena is a contiguous run of blocks, from its first byte to its     *)
(* last, over every sequence of splits and merges; next and prev are       *)
(* inverse to each other.                                                  *)
End(hh, b) == b + HEADER_SIZE + hh[b].size

Tiles(hh) ==
    /\ 0 \in DOMAIN hh
    /\ \A b \in DOMAIN hh :
          /\ \/ hh[b].next = NULL /\ End(hh, b) = ArenaSize
             \/ /\ hh[b].next = End(hh, b) /\ End(hh, b) \in DOMAIN hh
                /\ hh[hh[b].next].prev = b
          /\ \/ b = 0 /\ hh[b].prev = NULL
             \/ b # 0 /\ hh[b].prev \in DOMAIN hh /\ hh[hh[b].prev].next = b

Tiling == DOMAIN h = {} \/ Tiles(h)

(* Every allocation has a block of its own, in use and large enough, and   *)
(* every block in use has an owner: kmalloc never hands out memory twice   *)
(* and kfree loses none.                                                   *)
Owned ==
    /\ \A b \in DOMAIN h : ~h[b].free =>
          \E a \in live : a.ptr = b + HEADER_SIZE
    /\ \A a \in live : LET b == a.ptr - HEADER_SIZE
                       IN  b \in DOMAIN h /\ ~h[b].free /\ a.size <= h[b].size
    /\ \A a, c \in live : a.ptr = c.ptr => a = c

(* kfree merges in both directions, so nothing is lost to fragmentation:   *)
(* when all is freed the arena is one block again.                         *)
Reclaimed == live = {} => DOMAIN h = {} \/ h = OneBlock

(* What kmalloc needs of kmalloc_aligned: every payload starts at a        *)
(* multiple of 8, whatever was split off, freed and merged before it and   *)
(* whatever alignments other callers asked for.  Larger alignments are not *)
(* promised: kmalloc_aligned rounds the size (heap.c:94) and never the     *)
(* address.                                                                *)
PayloadsAligned == \A a \in live : a.ptr % 8 = 0
=============================================================================
