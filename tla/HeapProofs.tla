----------------------------- MODULE HeapProofs -----------------------------
(***************************************************************************)
(* The invariants of Heap, for every arena size and every sequence of      *)
(* requests.  The lemmas follow block_split and block_coalesce; the step   *)
(* case has one lemma for kmalloc_aligned and one for kfree.               *)
(***************************************************************************)
EXTENDS Heap, WellFoundedInduction, TLAPS

(* The default prover and its time limit; the leaves that are pure logic   *)
(* name Zenon instead.                                                     *)
USE SMTT(30)

(* Tiling speaks of neighbours only.  That a block has no header inside it *)
(* is what block_split needs to know of its remainder.                     *)
Apart(hh) == \A b, c \in DOMAIN hh : b < c => End(hh, b) <= c

Good(hh) == /\ DOMAIN hh \in SUBSET Addr
            /\ hh \in [DOMAIN hh -> Header]
            /\ Tiles(hh)
            /\ Apart(hh)

(* No block outside X is free together with the block after it. *)
NoFreeNeighbours(hh, X) ==
    \A b \in DOMAIN hh \ X :
        hh[b].free /\ hh[b].next # NULL => ~hh[hh[b].next].free

(* The blocks in use are the same in both lists. *)
SameUsed(hh, g) ==
    /\ \A c \in DOMAIN hh : ~hh[c].free =>
          c \in DOMAIN g /\ ~g[c].free /\ g[c].size = hh[c].size
    /\ \A c \in DOMAIN g : ~g[c].free => c \in DOMAIN hh /\ ~hh[c].free

(* The inductive invariant. *)
IInv ==
    /\ live \in SUBSET Alloc
    /\ h \in [DOMAIN h -> Header]
    /\ DOMAIN h = {} \/ (Good(h) /\ NoFreeNeighbours(h, {}))
    /\ Owned
-----------------------------------------------------------------------------
(* A nonempty set of addresses has a least one, which first fit returns. *)
LEMMA LeastOf ==
    ASSUME NEW S \in SUBSET Nat, S # {}
    PROVE  Min(S) \in S
<1>1. PICK x \in S : \A y \in S : ~(<<y, x>> \in OpToRel(<, Nat))
  BY NatLessThanWellFounded, WFMin, Zenon
<1>2. \A y \in S : x <= y
  <2> TAKE y \in S
  <2>1. ~(y < x)
    BY <1>1, Zenon DEF OpToRel
  <2> QED BY <2>1
<1> QED BY <1>2, Zenon DEF Min

(* Rounding up never shortens a request. *)
LEMMA AlignUp ==
    ASSUME NEW n \in Nat, NEW a \in Nat \ {0}
    PROVE  HEAP_ALIGN(n, a) \in Nat /\ n <= HEAP_ALIGN(n, a)
<1>1. (n + a - 1) % a \in 0 .. a - 1
  OBVIOUS
<1> QED BY <1>1 DEF HEAP_ALIGN

(* A header's fields. *)
LEMMA Fields ==
    ASSUME NEW hh, Good(hh), NEW b \in DOMAIN hh
    PROVE  /\ b \in Nat /\ b \in Addr
           /\ hh[b].size \in Nat /\ hh[b].free \in BOOLEAN
           /\ hh[b].next \in Addr \cup {NULL} /\ hh[b].prev \in Addr \cup {NULL}
           /\ End(hh, b) <= ArenaSize /\ End(hh, b) \in Nat
           /\ hh[b].next # NULL => /\ hh[b].next \in DOMAIN hh
                                   /\ hh[b].next = End(hh, b)
                                   /\ hh[hh[b].next].prev = b
           /\ hh[b].next = NULL => End(hh, b) = ArenaSize
           /\ hh[b].prev # NULL => /\ b # 0 /\ hh[b].prev \in DOMAIN hh
                                   /\ hh[hh[b].prev].next = b
           /\ hh[b].prev = NULL => b = 0
<1>1. b \in Addr /\ hh[b] \in Header
  BY DEF Good
<1>2. /\ b \in Nat /\ hh[b].size \in Nat /\ hh[b].free \in BOOLEAN
      /\ hh[b].next \in Addr \cup {NULL} /\ hh[b].prev \in Addr \cup {NULL}
  BY <1>1, HeapAssumption DEF Addr, Header
<1>3. \A c \in DOMAIN hh : c # NULL /\ c \in Nat /\ c <= ArenaSize
  BY HeapAssumption DEF Good, Addr, NULL, HEADER_SIZE
<1>4. End(hh, b) \in Nat
  BY <1>2 DEF End, HEADER_SIZE
<1>5. /\ \/ hh[b].next = NULL /\ End(hh, b) = ArenaSize
         \/ /\ hh[b].next = End(hh, b) /\ End(hh, b) \in DOMAIN hh
            /\ hh[hh[b].next].prev = b
      /\ \/ b = 0 /\ hh[b].prev = NULL
         \/ b # 0 /\ hh[b].prev \in DOMAIN hh /\ hh[hh[b].prev].next = b
  BY DEF Good, Tiles
<1>6. End(hh, b) <= ArenaSize
  BY <1>5, <1>3, HeapAssumption
<1> QED BY <1>1, <1>2, <1>3, <1>4, <1>5, <1>6
-----------------------------------------------------------------------------
(* block_split carves the remainder out of a free block: the arena stays    *)
(* tiled, and the blocks in use are the same.                               *)
LEMMA SplitGood ==
    ASSUME NEW hh, Good(hh), NoFreeNeighbours(hh, {}),
           NEW b \in DOMAIN hh, hh[b].free, NEW w \in Nat, w <= hh[b].size
    PROVE  LET g == Split(hh, b, w)
           IN  /\ Good(g) /\ NoFreeNeighbours(g, {b}) /\ SameUsed(hh, g)
               /\ b \in DOMAIN g /\ w <= g[b].size
<1>1. CASE hh[b].size < w + HEADER_SIZE + MIN_PAYLOAD
  <2>1. Split(hh, b, w) = hh
    BY <1>1 DEF Split
  <2> QED BY <2>1 DEF NoFreeNeighbours, SameUsed
<1>2. CASE ~(hh[b].size < w + HEADER_SIZE + MIN_PAYLOAD)
  <2> DEFINE r   == b + HEADER_SIZE + w
             n   == hh[b].next
             g   == Split(hh, b, w)
  <2>1. /\ b \in Nat /\ hh[b].size \in Nat /\ b \in Addr
        /\ b + 16 + hh[b].size <= ArenaSize
        /\ w + 32 <= hh[b].size
        /\ n \in Addr \cup {NULL} /\ hh[b].prev \in Addr \cup {NULL}
        /\ End(hh, b) = b + 16 + hh[b].size
    BY <1>2, Fields DEF HEADER_SIZE, MIN_PAYLOAD, End
  <2>2. r \in Addr /\ r = b + 16 + w /\ r > b /\ r < End(hh, b) /\ r \in Nat
    BY <2>1, HeapAssumption DEF Addr, HEADER_SIZE
  <2>3. r \notin DOMAIN hh
    <3> SUFFICES ASSUME r \in DOMAIN hh PROVE FALSE
      OBVIOUS
    <3>1. End(hh, b) <= r
      BY <2>2 DEF Good, Apart
    <3> QED BY <3>1, <2>2, <2>1
  <2>4. /\ DOMAIN g = DOMAIN hh \cup {r}
        /\ g[r] = [size |-> hh[b].size - w - 16, free |-> TRUE, next |-> n, prev |-> b]
        /\ g[b] = [hh[b] EXCEPT !.size = w, !.next = r]
        /\ \A c \in DOMAIN hh : c # b =>
              g[c] = IF c = n THEN [hh[c] EXCEPT !.prev = r] ELSE hh[c]
        /\ g = [c \in DOMAIN g |-> g[c]]
    BY <1>2, <2>2, <2>3 DEF Split, Rest, HEADER_SIZE
  <2> HIDE DEF g, r, n
  <2>5. /\ g[b].size = w /\ g[b].next = r /\ g[b].free = hh[b].free
        /\ g[b].prev = hh[b].prev
        /\ g[r].size = hh[b].size - w - 16 /\ g[r].free = TRUE
        /\ g[r].next = n /\ g[r].prev = b
        /\ \A c \in DOMAIN hh : c # b =>
             /\ g[c].size = hh[c].size /\ g[c].free = hh[c].free
             /\ g[c].next = hh[c].next
             /\ g[c].prev = IF c = n THEN r ELSE hh[c].prev
    <3>1. \A c \in DOMAIN hh : hh[c] \in Header
      BY DEF Good
    <3>2. /\ g[b].size = w /\ g[b].next = r /\ g[b].free = hh[b].free
          /\ g[b].prev = hh[b].prev
      <4>1. g[b] = [hh[b] EXCEPT !.size = w, !.next = r] /\ hh[b] \in Header
        BY <3>1, <2>4
      <4> QED BY <4>1, Zenon DEF Header
    <3>3. /\ g[r].size = hh[b].size - w - 16 /\ g[r].free = TRUE
          /\ g[r].next = n /\ g[r].prev = b
      BY <2>4
    <3>4. ASSUME NEW c \in DOMAIN hh, c # b
          PROVE  /\ g[c].size = hh[c].size /\ g[c].free = hh[c].free
                 /\ g[c].next = hh[c].next
                 /\ g[c].prev = IF c = n THEN r ELSE hh[c].prev
      <4>1. CASE c = n
        <5>1. g[c] = [hh[c] EXCEPT !.prev = r] /\ hh[c] \in Header
          BY <3>1, <3>4, <4>1, <2>4
        <5> QED BY <5>1, <4>1 DEF Header
      <4>2. CASE c # n
        BY <3>4, <4>2, <2>4
      <4> QED BY <4>1, <4>2
    <3> QED BY <3>2, <3>3, <3>4
  <2>6. DOMAIN g \in SUBSET Addr
    BY <2>2, <2>4 DEF Good
  <2>7. g \in [DOMAIN g -> Header]
    <3>1. ASSUME NEW c \in DOMAIN g PROVE g[c] \in Header
      <4>1. CASE c = r
        BY <4>1, <2>1, <2>4, <2>2, HeapAssumption DEF Header
      <4>2. CASE c = b
        <5>1. hh[b] \in Header /\ w \in 0 .. ArenaSize
          BY <2>1, HeapAssumption DEF Good
        <5> QED BY <4>2, <5>1, <2>4, <2>2, Zenon DEF Header
      <4>3. CASE c # r /\ c # b
        <5>1. c \in DOMAIN hh /\ hh[c] \in Header
          BY <4>3, <2>4 DEF Good
        <5> QED BY <4>3, <5>1, <2>4, <2>2 DEF Header
      <4> QED BY <4>1, <4>2, <4>3
    <3> QED BY <3>1, <2>4
  <2>8. /\ End(g, b) = r /\ End(g, r) = End(hh, b)
        /\ \A c \in DOMAIN hh : c # b => End(g, c) = End(hh, c)
    <3>1. \A c \in DOMAIN hh : c # b => g[c].size = hh[c].size
      BY <2>5
    <3> QED BY <3>1, <2>5, <2>1, <2>2 DEF End, HEADER_SIZE
  <2>9. Tiles(g)
    <3>1. 0 \in DOMAIN g
      BY <2>4 DEF Good, Tiles
    <3>2. ASSUME NEW c \in DOMAIN g
          PROVE  \/ g[c].next = NULL /\ End(g, c) = ArenaSize
                 \/ /\ g[c].next = End(g, c) /\ End(g, c) \in DOMAIN g
                    /\ g[g[c].next].prev = c
      <4>1. CASE c = b
        BY <4>1, <2>4, <2>5, <2>8
      <4>2. CASE c = r
        <5>1. CASE n = NULL
          BY <5>1, <4>2, <2>5, <2>8, Fields DEF n
        <5>2. CASE n # NULL
          <6>1. n \in DOMAIN hh /\ n = End(hh, b) /\ n # b
            BY <5>2, Fields, <2>1 DEF n
          <6> QED BY <6>1, <4>2, <2>4, <2>5, <2>8
        <5> QED BY <5>1, <5>2
      <4>3. CASE c # b /\ c # r
        <5>1. c \in DOMAIN hh
          BY <4>3, <2>4
        <5>2. CASE hh[c].next = NULL
          BY <5>1, <5>2, <4>3, <2>5, <2>8, Fields
        <5>3. CASE hh[c].next # NULL
          <6>1. /\ hh[c].next \in DOMAIN hh /\ hh[c].next = End(hh, c)
                /\ hh[hh[c].next].prev = c
            BY <5>1, <5>3, Fields
          <6>2. hh[c].next # n
            <7> SUFFICES ASSUME hh[c].next = n PROVE FALSE
              OBVIOUS
            <7>1. hh[n].prev = b
              BY <5>3, Fields DEF n
            <7> QED BY <7>1, <6>1, <4>3
          <6>3. /\ g[c].next = hh[c].next /\ End(g, c) = End(hh, c)
            BY <5>1, <4>3, <2>5, <2>8
          <6>4. g[hh[c].next].prev = hh[hh[c].next].prev
            BY <6>1, <6>2, <2>5
          <6> QED BY <6>1, <6>3, <6>4, <2>4
        <5> QED BY <5>2, <5>3
      <4> QED BY <4>1, <4>2, <4>3
    <3>3. ASSUME NEW c \in DOMAIN g
          PROVE  \/ c = 0 /\ g[c].prev = NULL
                 \/ c # 0 /\ g[c].prev \in DOMAIN g /\ g[g[c].prev].next = c
      <4>1. CASE c = r
        <5>1. c # 0
          BY <4>1, <2>1, <2>2
        <5> QED BY <5>1, <4>1, <2>4, <2>5, Zenon
      <4>2. CASE c # r /\ c = n
        <5>1. c \in DOMAIN hh /\ c = End(hh, b) /\ c # b
          <6>1. n # NULL
            BY <4>2, <2>6 DEF Addr, NULL
          <6> QED BY <6>1, <4>2, <2>1, Fields DEF n
        <5> QED BY <5>1, <4>2, <2>1, <2>2, <2>4, <2>5
      <4>3. CASE c # r /\ c # n
        <5>1. c \in DOMAIN hh /\ g[c].prev = hh[c].prev
          BY <4>3, <2>4, <2>5, Zenon
        <5>2. CASE hh[c].prev = NULL
          BY <5>1, <5>2, Fields
        <5>3. CASE hh[c].prev # NULL
          <6>1. /\ c # 0 /\ hh[c].prev \in DOMAIN hh
                /\ hh[hh[c].prev].next = c
            BY <5>1, <5>3, Fields
          <6>2. hh[c].prev # b
            BY <6>1, <4>3 DEF n
          <6> QED BY <6>1, <6>2, <5>1, <2>4, <2>5
        <5> QED BY <5>2, <5>3
      <4> QED BY <4>1, <4>2, <4>3
    <3> QED BY <3>1, <3>2, <3>3 DEF Tiles
  <2>10. Apart(g)
    <3> SUFFICES ASSUME NEW c \in DOMAIN g, NEW d \in DOMAIN g, c < d
                 PROVE  End(g, c) <= d
      BY DEF Apart
    <3>1. \A x, y \in DOMAIN hh : x < y => End(hh, x) <= y
      BY DEF Good, Apart
    <3>2. \A x \in DOMAIN hh : x \in Nat /\ End(hh, x) \in Nat /\ x < End(hh, x)
      <4> TAKE x \in DOMAIN hh
      <4> QED BY Fields DEF End, HEADER_SIZE
    <3> QED BY <3>1, <3>2, <2>1, <2>2, <2>4, <2>8
  <2>11. NoFreeNeighbours(g, {b})
    <3> SUFFICES ASSUME NEW c \in DOMAIN g \ {b}, g[c].free, g[c].next # NULL
                 PROVE  ~g[g[c].next].free
      BY DEF NoFreeNeighbours
    <3>1. CASE c = r
      <4>1. n # NULL /\ n \in DOMAIN hh /\ n # b
        BY <3>1, <2>1, <2>5, Fields DEF n
      <4>2. ~hh[n].free
        BY <4>1 DEF NoFreeNeighbours, n
      <4> QED BY <3>1, <4>1, <4>2, <2>5
    <3>2. CASE c # r
      <4>1. c \in DOMAIN hh /\ hh[c].free /\ hh[c].next # NULL /\ g[c].next = hh[c].next
        BY <3>2, <2>4, <2>5
      <4>2. hh[c].next \in DOMAIN hh /\ ~hh[hh[c].next].free
        BY <4>1, Fields DEF NoFreeNeighbours
      <4> QED BY <4>1, <4>2, <2>5
    <3> QED BY <3>1, <3>2
  <2>12. SameUsed(hh, g)
    BY <2>3, <2>4, <2>5, Zenon DEF SameUsed
  <2> QED BY <2>4, <2>5, <2>6, <2>7, <2>9, <2>10, <2>11, <2>12 DEF Good, g
<1> QED BY <1>1, <1>2

(* block_coalesce joins a free block with a free successor: the arena stays *)
(* tiled, the blocks in use are the same, and b is no longer free together  *)
(* with the block after it.                                                 *)
LEMMA CoalesceGood ==
    ASSUME NEW hh, Good(hh), NEW X, NEW b \in DOMAIN hh, hh[b].free,
           NoFreeNeighbours(hh, {b} \cup X), hh[b].next \notin X
    PROVE  LET g == Coalesce(hh, b)
           IN  /\ Good(g) /\ NoFreeNeighbours(g, X) /\ SameUsed(hh, g)
               /\ b \in DOMAIN g /\ g[b].free /\ g[b].prev = hh[b].prev
<1> DEFINE n == hh[b].next
           g == Coalesce(hh, b)
<1>0. /\ b \in Nat /\ b \in Addr /\ hh[b].size \in Nat
      /\ n # NULL => /\ n \in DOMAIN hh /\ n = End(hh, b)
                      /\ hh[n].prev = b /\ n > b /\ n \in Nat
  BY Fields DEF End, HEADER_SIZE
<1>1. CASE n = NULL \/ ~hh[n].free
  <2>1. g = hh
    BY <1>1 DEF Coalesce
  <2>2. NoFreeNeighbours(hh, X)
    BY <1>1 DEF NoFreeNeighbours
  <2> QED BY <2>1, <2>2 DEF SameUsed
<1>2. CASE n # NULL /\ hh[n].free
  <2> DEFINE m == hh[n].next
  <2>1. /\ DOMAIN g = DOMAIN hh \ {n}
        /\ g[b] = [hh[b] EXCEPT !.size = hh[b].size + 16 + hh[n].size, !.next = m]
        /\ \A c \in DOMAIN g : c # b =>
              g[c] = IF c = m THEN [hh[c] EXCEPT !.prev = b] ELSE hh[c]
        /\ g = [c \in DOMAIN g |-> g[c]]
    BY <1>0, <1>2 DEF Coalesce, HEADER_SIZE
  <2>2. /\ n \in DOMAIN hh /\ n = End(hh, b) /\ hh[n].prev = b /\ n > b /\ n \in Nat
        /\ hh[n].size \in Nat /\ End(hh, n) <= ArenaSize /\ End(hh, n) > n
        /\ m \in Addr \cup {NULL}
        /\ m # NULL => m \in DOMAIN hh /\ m = End(hh, n) /\ hh[m].prev = n
        /\ m = NULL => End(hh, n) = ArenaSize
        /\ b \in DOMAIN g /\ m # n /\ m # b
        /\ End(hh, n) = b + 16 + hh[b].size + 16 + hh[n].size
    <3>1. n \in DOMAIN hh /\ n = End(hh, b) /\ hh[n].prev = b /\ n > b /\ n \in Nat
      BY <1>0, <1>2
    <3>2. /\ hh[n].size \in Nat /\ End(hh, n) <= ArenaSize /\ End(hh, n) \in Nat
          /\ m \in Addr \cup {NULL}
          /\ m # NULL => m \in DOMAIN hh /\ m = End(hh, n) /\ hh[m].prev = n
          /\ m = NULL => End(hh, n) = ArenaSize
      BY <3>1, Fields
    <3> HIDE DEF m, n
    <3>3. End(hh, n) = b + 16 + hh[b].size + 16 + hh[n].size
      BY <3>1, <3>2, <1>0 DEF End, HEADER_SIZE
    <3>4. End(hh, n) > n
      BY <3>1, <3>2 DEF End, HEADER_SIZE
    <3>5. m # n /\ m # b
      BY <3>1, <3>2, <3>4, <1>0 DEF NULL
    <3>6. b \in DOMAIN g
      BY <3>1, <2>1, <1>0
    <3> QED BY <3>1, <3>2, <3>3, <3>4, <3>5, <3>6
  <2> HIDE DEF g, m, n
  <2>3. /\ g[b].size = hh[b].size + 16 + hh[n].size /\ g[b].next = m
        /\ g[b].free = hh[b].free /\ g[b].prev = hh[b].prev
        /\ \A c \in DOMAIN g : c # b =>
             /\ g[c].size = hh[c].size /\ g[c].free = hh[c].free
             /\ g[c].next = hh[c].next
             /\ g[c].prev = IF c = m THEN b ELSE hh[c].prev
    <3>1. \A c \in DOMAIN hh : hh[c] \in Header
      BY DEF Good
    <3>2. /\ g[b].size = hh[b].size + 16 + hh[n].size /\ g[b].next = m
          /\ g[b].free = hh[b].free /\ g[b].prev = hh[b].prev
      <4>1. /\ g[b] = [hh[b] EXCEPT !.size = hh[b].size + 16 + hh[n].size, !.next = m]
            /\ hh[b] \in Header
        BY <3>1, <2>1
      <4> QED BY <4>1, Zenon DEF Header
    <3>3. ASSUME NEW c \in DOMAIN g, c # b
          PROVE  /\ g[c].size = hh[c].size /\ g[c].free = hh[c].free
                 /\ g[c].next = hh[c].next
                 /\ g[c].prev = IF c = m THEN b ELSE hh[c].prev
      <4>1. CASE c = m
        <5>1. g[c] = [hh[c] EXCEPT !.prev = b] /\ hh[c] \in Header
          BY <3>1, <3>3, <4>1, <2>1
        <5> QED BY <5>1, <4>1 DEF Header
      <4>2. CASE c # m
        BY <3>3, <4>2, <2>1
      <4> QED BY <4>1, <4>2
    <3> QED BY <3>2, <3>3
  <2>4. DOMAIN g \in SUBSET Addr
    BY <2>1 DEF Good
  <2>5. g \in [DOMAIN g -> Header]
    <3>1. ASSUME NEW c \in DOMAIN g PROVE g[c] \in Header
      <4>0. c \in DOMAIN hh /\ hh[c] \in Header
        BY <2>1 DEF Good
      <4>1. CASE c = b
        <5>1. hh[b].size + 16 + hh[n].size \in 0 .. ArenaSize
          BY <1>0, <2>2, HeapAssumption
        <5> DEFINE sz == hh[b].size + 16 + hh[n].size
        <5>2. g[c] = [hh[c] EXCEPT !.size = sz, !.next = m] /\ m \in Addr \cup {NULL}
          BY <4>1, <2>1, <2>2
        <5>3. sz \in 0 .. ArenaSize
          BY <5>1
        <5> HIDE DEF sz
        <5> QED BY <4>0, <5>2, <5>3, Zenon DEF Header
      <4>2. CASE c # b
        BY <4>0, <4>2, <2>1, <1>0 DEF Header
      <4> QED BY <4>1, <4>2
    <3> QED BY <3>1, <2>1
  <2>6. /\ End(g, b) = End(hh, n)
        /\ \A c \in DOMAIN g : c # b => End(g, c) = End(hh, c)
    <3>1. \A c \in DOMAIN g : c # b => g[c].size = hh[c].size
      BY <2>3
    <3> QED BY <3>1, <2>2, <2>3, <1>0 DEF End, HEADER_SIZE
  <2>7. Tiles(g)
    <3>1. 0 \in DOMAIN g
      BY <2>1, <2>2, <1>0 DEF Good, Tiles
    <3>2. ASSUME NEW c \in DOMAIN g
          PROVE  \/ g[c].next = NULL /\ End(g, c) = ArenaSize
                 \/ /\ g[c].next = End(g, c) /\ End(g, c) \in DOMAIN g
                    /\ g[g[c].next].prev = c
      <4>1. CASE c = b
        <5>1. CASE m = NULL
          BY <5>1, <4>1, <2>2, <2>3, <2>6
        <5>2. CASE m # NULL
          <6>1. m \in DOMAIN g /\ m # b
            BY <5>2, <2>1, <2>2
          <6> QED BY <6>1, <5>2, <4>1, <2>2, <2>3, <2>6
        <5> QED BY <5>1, <5>2
      <4>2. CASE c # b
        <5>1. c \in DOMAIN hh /\ c # n
          BY <2>1
        <5>2. g[c].next = hh[c].next /\ End(g, c) = End(hh, c)
          BY <4>2, <2>3, <2>6
        <5>3. CASE hh[c].next = NULL
          BY <5>1, <5>2, <5>3, Fields
        <5>4. CASE hh[c].next # NULL
          <6>1. /\ hh[c].next \in DOMAIN hh /\ hh[c].next = End(hh, c)
                /\ hh[hh[c].next].prev = c
            BY <5>1, <5>4, Fields
          <6>2. hh[c].next # n /\ hh[c].next # m
            BY <6>1, <5>1, <5>4, <4>2, <2>2
          <6>3. g[hh[c].next].prev = hh[hh[c].next].prev
            BY <6>1, <6>2, <2>1, <2>3, Zenon
          <6> QED BY <6>1, <6>2, <6>3, <5>2, <2>1
        <5> QED BY <5>3, <5>4
      <4> QED BY <4>1, <4>2
    <3>3. ASSUME NEW c \in DOMAIN g
          PROVE  \/ c = 0 /\ g[c].prev = NULL
                 \/ c # 0 /\ g[c].prev \in DOMAIN g /\ g[g[c].prev].next = c
      <4>1. CASE c = m
        <5>1. c # 0 /\ c # b /\ c # NULL
          BY <4>1, <2>2, <2>4, <1>0 DEF Addr, NULL
        <5> QED BY <5>1, <4>1, <2>2, <2>3
      <4>2. CASE c # m
        <5>1. c \in DOMAIN hh /\ c # n /\ g[c].prev = hh[c].prev
          BY <4>2, <2>1, <2>3, Zenon
        <5>2. CASE hh[c].prev = NULL
          BY <5>1, <5>2, Fields
        <5>3. CASE hh[c].prev # NULL
          <6>1. /\ c # 0 /\ hh[c].prev \in DOMAIN hh
                /\ hh[hh[c].prev].next = c
            BY <5>1, <5>3, Fields
          <6>2. hh[c].prev # n
            BY <6>1, <4>2 DEF m
          <6>3. hh[c].prev # b
            BY <6>1, <5>1 DEF n
          <6> QED BY <6>1, <6>2, <6>3, <5>1, <2>1, <2>3
        <5> QED BY <5>2, <5>3
      <4> QED BY <4>1, <4>2
    <3> QED BY <3>1, <3>2, <3>3 DEF Tiles
  <2>8. Apart(g)
    <3> SUFFICES ASSUME NEW c \in DOMAIN g, NEW d \in DOMAIN g, c < d
                 PROVE  End(g, c) <= d
      BY DEF Apart
    <3>1. \A x, y \in DOMAIN hh : x < y => End(hh, x) <= y
      BY DEF Good, Apart
    <3>2. c \in DOMAIN hh /\ d \in DOMAIN hh /\ d # n /\ c \in Nat /\ d \in Nat
      BY <2>1, Fields
    <3>3. CASE c # b
      BY <3>1, <3>2, <3>3, <2>6
    <3>4. CASE c = b
      <4>1. n <= d
        BY <3>1, <3>2, <3>4, <2>2
      <4> QED BY <4>1, <3>1, <3>2, <3>4, <2>2, <2>6
    <3> QED BY <3>3, <3>4
  <2>9. NoFreeNeighbours(g, X)
    <3> SUFFICES ASSUME NEW c \in DOMAIN g \ X, g[c].free, g[c].next # NULL
                 PROVE  ~g[g[c].next].free
      BY DEF NoFreeNeighbours
    <3>1. CASE c = b
      <4>1. m # NULL
        BY <3>1, <2>3
      <4>2. n \notin X /\ n # b
        BY <2>2, <1>0 DEF n
      <4>3. ~hh[m].free
        BY <1>2, <4>1, <4>2, <2>2 DEF NoFreeNeighbours, m
      <4>4. m \in DOMAIN g /\ m # b
        BY <4>1, <2>1, <2>2
      <4> QED BY <3>1, <4>3, <4>4, <2>3
    <3>2. CASE c # b
      <4>1. c \in DOMAIN hh /\ hh[c].free /\ hh[c].next # NULL /\ g[c].next = hh[c].next
        BY <3>2, <2>1, <2>3
      <4>2. ~hh[hh[c].next].free
        BY <3>2, <4>1 DEF NoFreeNeighbours
      <4>3. hh[c].next \in DOMAIN hh /\ hh[c].next # n
        BY <4>1, <4>2, <1>2, Fields
      <4> QED BY <4>1, <4>2, <4>3, <2>1, <2>3
    <3> QED BY <3>1, <3>2
  <2>10. SameUsed(hh, g)
    BY <1>2, <2>1, <2>3, Zenon DEF SameUsed
  <2> QED BY <2>2, <2>3, <2>4, <2>5, <2>7, <2>8, <2>9, <2>10 DEF Good, g
<1> QED BY <1>1, <1>2

(* Setting a block's free flag leaves the layout alone. *)
LEMMA MarkedGood ==
    ASSUME NEW hh, Good(hh), NEW b \in DOMAIN hh, NEW fl \in BOOLEAN
    PROVE  LET g == Marked(hh, b, fl)
           IN  /\ Good(g) /\ DOMAIN g = DOMAIN hh /\ g[b].free = fl
               /\ \A c \in DOMAIN hh :
                     /\ c # b => g[c].free = hh[c].free
                     /\ g[c].size = hh[c].size
                     /\ g[c].next = hh[c].next
                     /\ g[c].prev = hh[c].prev
<1> DEFINE g == Marked(hh, b, fl)
<1>1. /\ DOMAIN g = DOMAIN hh /\ g[b] = [hh[b] EXCEPT !.free = fl]
      /\ \A c \in DOMAIN hh : c # b => g[c] = hh[c]
      /\ g = [c \in DOMAIN g |-> g[c]]
  BY DEF Marked, Good
<1>2. \A c \in DOMAIN hh : hh[c] \in Header
  BY DEF Good
<1> HIDE DEF g
<1>3. /\ g[b] \in Header /\ g[b].free = fl /\ g[b].size = hh[b].size
      /\ g[b].next = hh[b].next /\ g[b].prev = hh[b].prev
  BY <1>1, <1>2 DEF Header
<1>4. \A c \in DOMAIN hh :
         /\ c # b => g[c].free = hh[c].free
         /\ g[c].size = hh[c].size
         /\ g[c].next = hh[c].next
         /\ g[c].prev = hh[c].prev
  BY <1>1, <1>3, Zenon
<1>5. g \in [DOMAIN g -> Header]
  BY <1>1, <1>2, <1>3
<1>6. Tiles(g)
  BY <1>1, <1>4 DEF Good, Tiles, End
<1>7. Apart(g)
  BY <1>1, <1>4 DEF Good, Apart, End
<1> QED BY <1>1, <1>3, <1>4, <1>5, <1>6, <1>7 DEF Good, g

(* heap_build_freelist: one block spans the arena. *)
LEMMA OneBlockGood == Good(OneBlock) /\ NoFreeNeighbours(OneBlock, {})
<1>1. /\ DOMAIN OneBlock = {0} /\ OneBlock[0].size = ArenaSize - 16
      /\ OneBlock[0].next = NULL /\ OneBlock[0].prev = NULL
      /\ OneBlock[0].free = TRUE
  BY DEF OneBlock, HEADER_SIZE
<1>2. 0 \in Addr /\ ArenaSize - 16 \in 0 .. ArenaSize /\ ArenaSize \in Nat
  BY HeapAssumption DEF Addr, HEADER_SIZE, MIN_PAYLOAD
<1>3. OneBlock \in [DOMAIN OneBlock -> Header]
  BY <1>2 DEF OneBlock, Header, HEADER_SIZE
<1>4. Tiles(OneBlock)
  BY <1>1, <1>2 DEF Tiles, End, HEADER_SIZE
<1>5. Apart(OneBlock)
  BY <1>1 DEF Apart
<1> QED BY <1>1, <1>2, <1>3, <1>4, <1>5 DEF Good, NoFreeNeighbours
-----------------------------------------------------------------------------
(* The list kmalloc walks, built first if need be. *)
LEMMA PreparedGood ==
    ASSUME IInv
    PROVE  /\ Good(Prepared) /\ NoFreeNeighbours(Prepared, {})
           /\ DOMAIN h = {} => live = {}
           /\ DOMAIN h # {} => Prepared = h
           /\ DOMAIN h = {} => Prepared = OneBlock
<1>1. DOMAIN h = {} => live = {}
  BY DEF IInv, Owned
<1> QED BY <1>1, OneBlockGood DEF IInv, Prepared

LEMMA KmallocInv ==
    ASSUME IInv, NEW size \in Sizes, NEW alignment \in Alignments,
           kmalloc_aligned(size, alignment)
    PROVE  IInv'
<1> DEFINE align == IF alignment < 8 THEN 8 ELSE alignment
           w     == HEAP_ALIGN(size, align)
           S     == Fits(Prepared, w)
           b     == Min(S)
           new   == [ptr |-> b + HEADER_SIZE, size |-> size]
<1>0. size \in Nat /\ alignment \in Nat /\ w \in Nat /\ size <= w
  <2>1. size \in Nat /\ alignment \in Nat /\ align \in Nat \ {0}
    BY HeapAssumption
  <2> HIDE DEF align
  <2> QED BY <2>1, AlignUp
<1>1. /\ Good(Prepared) /\ NoFreeNeighbours(Prepared, {})
      /\ DOMAIN h = {} => live = {}
      /\ DOMAIN h # {} => Prepared = h
      /\ DOMAIN h = {} => Prepared = OneBlock
  BY PreparedGood
<1>2. CASE h' = Prepared /\ live' = live
  <2>1. CASE DOMAIN h # {}
    <3>1. h' = h
      BY <2>1, <1>1, <1>2
    <3> QED BY <3>1, <1>2 DEF IInv, Owned
  <2>2. CASE DOMAIN h = {}
    <3>1. live' = {} /\ h' = OneBlock /\ \A c \in DOMAIN OneBlock : OneBlock[c].free
      BY <2>2, <1>1, <1>2 DEF OneBlock
    <3> QED BY <3>1, <1>1, <1>2 DEF IInv, Owned, Good
  <2> QED BY <2>1, <2>2
<1>3. CASE /\ S # {} /\ h' = Marked(Split(Prepared, b, w), b, FALSE)
           /\ live' = live \cup {new}
  <2>1. b \in DOMAIN Prepared /\ Prepared[b].free /\ w <= Prepared[b].size
    <3>1. S \in SUBSET Nat
      BY <1>1, Fields DEF Fits
    <3>2. b \in S
      BY <3>1, <1>3, LeastOf
    <3>3. b \in DOMAIN Prepared /\ Prepared[b].free /\ Prepared[b].size >= w
      BY <3>2 DEF Fits
    <3> HIDE DEF b, w
    <3>4. Prepared[b].size \in Nat
      BY <3>3, <1>1, Fields
    <3> QED BY <3>3, <3>4, <1>0
  <2> HIDE DEF b, w
  <2> DEFINE g == Split(Prepared, b, w)
  <2>2. /\ Good(g) /\ NoFreeNeighbours(g, {b}) /\ SameUsed(Prepared, g)
        /\ b \in DOMAIN g /\ w <= g[b].size
    BY <2>1, <1>0, <1>1, SplitGood, Zenon
  <2> HIDE DEF g
  <2>3. /\ Good(h') /\ DOMAIN h' = DOMAIN g /\ ~h'[b].free
        /\ \A c \in DOMAIN g :
              /\ c # b => h'[c].free = g[c].free
              /\ h'[c].size = g[c].size
              /\ h'[c].next = g[c].next
              /\ h'[c].prev = g[c].prev
    <3>1. h' = Marked(g, b, FALSE)
      BY <1>3 DEF g
    <3> DEFINE mk == Marked(g, b, FALSE)
    <3>2. /\ Good(mk) /\ DOMAIN mk = DOMAIN g /\ ~mk[b].free
          /\ \A c \in DOMAIN g :
                /\ c # b => mk[c].free = g[c].free
                /\ mk[c].size = g[c].size
                /\ mk[c].next = g[c].next
                /\ mk[c].prev = g[c].prev
      <4>1. ASSUME NEW fl \in BOOLEAN
            PROVE  LET x == Marked(g, b, fl)
                   IN  /\ Good(x) /\ DOMAIN x = DOMAIN g /\ x[b].free = fl
                       /\ \A c \in DOMAIN g :
                             /\ c # b => x[c].free = g[c].free
                             /\ x[c].size = g[c].size
                             /\ x[c].next = g[c].next
                             /\ x[c].prev = g[c].prev
        BY <2>2, MarkedGood
      <4>2. FALSE \in BOOLEAN
        OBVIOUS
      <4> QED BY <4>1, <4>2, Zenon
    <3>3. h' = mk
      BY <3>1
    <3> HIDE DEF mk
    <3> QED BY <3>2, <3>3
  <2>4. NoFreeNeighbours(h', {})
    <3> SUFFICES ASSUME NEW c \in DOMAIN h', h'[c].free, h'[c].next # NULL
                 PROVE  ~h'[h'[c].next].free
      BY DEF NoFreeNeighbours
    <3>1. c # b /\ c \in DOMAIN g /\ g[c].free /\ h'[c].next = g[c].next
      BY <2>3
    <3>2. g[c].next \in DOMAIN g /\ ~g[g[c].next].free
      BY <3>1, <2>2, Fields DEF NoFreeNeighbours
    <3> QED BY <3>1, <3>2, <2>3
  <2>5. b \in Nat /\ b \in Addr /\ w \in Nat /\ g[b].size \in Nat
    BY <2>2, <1>0, Fields
  <2>6. live' \in SUBSET Alloc
    <3>1. new \in Alloc
      BY <2>5, <1>0, HeapAssumption DEF Alloc, Addr, HEADER_SIZE
    <3> QED BY <3>1, <1>3 DEF IInv
  <2>7. \A a \in live :
           /\ a.ptr - HEADER_SIZE \in DOMAIN g
           /\ a.ptr - HEADER_SIZE # b
           /\ ~g[a.ptr - HEADER_SIZE].free
           /\ a.size <= g[a.ptr - HEADER_SIZE].size
    <3> TAKE a \in live
    <3>1. Prepared = h
      BY <1>1, Zenon
    <3>2. /\ a.ptr - HEADER_SIZE \in DOMAIN h /\ ~h[a.ptr - HEADER_SIZE].free
          /\ a.size <= h[a.ptr - HEADER_SIZE].size
      BY DEF IInv, Owned
    <3> QED BY <3>1, <3>2, <2>1, <2>2 DEF SameUsed
  <2>8. Owned'
    <3>0. \A a \in live : a.ptr \in Nat
      BY HeapAssumption DEF IInv, Alloc
    <3>1. ASSUME NEW c \in DOMAIN h', ~h'[c].free
          PROVE  \E a \in live' : a.ptr = c + HEADER_SIZE
      <4>1. CASE c = b
        <5>1. new \in live' /\ new.ptr = c + HEADER_SIZE
          BY <4>1, <1>3
        <5> QED BY <5>1
      <4>2. CASE c # b
        <5>1. c \in DOMAIN Prepared /\ ~Prepared[c].free
          BY <3>1, <4>2, <2>2, <2>3 DEF SameUsed
        <5>2. Prepared = h
          <6>1. \A d \in DOMAIN OneBlock : OneBlock[d].free
            BY DEF OneBlock
          <6> QED BY <6>1, <5>1, <1>1, Zenon
        <5>3. \E a \in live : a.ptr = c + HEADER_SIZE
          BY <5>1, <5>2 DEF IInv, Owned
        <5> QED BY <5>3, <1>3
      <4> QED BY <4>1, <4>2
    <3>2. ASSUME NEW a \in live'
          PROVE  /\ a.ptr - HEADER_SIZE \in DOMAIN h'
                 /\ ~h'[a.ptr - HEADER_SIZE].free
                 /\ a.size <= h'[a.ptr - HEADER_SIZE].size
      <4>1. CASE a = new
        <5>1. a.ptr - HEADER_SIZE = b /\ a.size = size
          BY <4>1, <2>5 DEF HEADER_SIZE
        <5>2. size <= g[b].size
          BY <1>0, <2>2, <2>5
        <5>3. b \in DOMAIN h' /\ ~h'[b].free /\ h'[b].size = g[b].size
          BY <2>2, <2>3
        <5> QED BY <5>1, <5>2, <5>3
      <4>2. CASE a \in live
        BY <4>2, <2>3, <2>7
      <4> QED BY <4>1, <4>2, <1>3, Zenon
    <3>3. ASSUME NEW a \in live', NEW c \in live', a.ptr = c.ptr PROVE a = c
      <4>1. \A x \in live : x.ptr # new.ptr
        <5> TAKE x \in live
        <5>1. x.ptr - HEADER_SIZE # b /\ new.ptr = b + HEADER_SIZE /\ x.ptr \in Nat
          BY <2>7, <3>0
        <5> QED BY <5>1, <2>5 DEF HEADER_SIZE
      <4> HIDE DEF new
      <4>2. \A x, y \in live : x.ptr = y.ptr => x = y
        BY DEF IInv, Owned
      <4> QED BY <3>3, <4>1, <4>2, <1>3
    <3> QED BY <3>1, <3>2, <3>3 DEF Owned
  <2> QED BY <2>3, <2>4, <2>6, <2>8 DEF IInv, Good
<1> QED BY <1>2, <1>3, Zenon DEF kmalloc_aligned

LEMMA KfreeInv ==
    ASSUME IInv, NEW a \in live, kfree(a)
    PROVE  IInv'
<1> DEFINE b == a.ptr - HEADER_SIZE
           p == h[b].prev
           X == {p} \ {NULL}
           m == Marked(h, b, TRUE)
           f == Coalesce(m, b)
<1>1. /\ b \in DOMAIN h /\ ~h[b].free /\ a.ptr \in Nat
      /\ Good(h) /\ NoFreeNeighbours(h, {})
  <2>1. b \in DOMAIN h /\ ~h[b].free
    BY DEF IInv, Owned
  <2>2. a.ptr \in Nat
    BY HeapAssumption DEF IInv, Alloc
  <2> QED BY <2>1, <2>2 DEF IInv
<1>2. a.ptr = b + HEADER_SIZE /\ b \in Nat
  BY <1>1, Fields DEF HEADER_SIZE
<1>3. /\ h' = IF f[b].prev # NULL /\ f[f[b].prev].free
              THEN Coalesce(f, f[b].prev) ELSE f
      /\ live' = live \ {a}
  BY DEF kfree
<1> HIDE DEF b
<1>4. /\ Good(m) /\ DOMAIN m = DOMAIN h /\ m[b].free = TRUE
      /\ \A c \in DOMAIN h :
            /\ c # b => m[c].free = h[c].free
            /\ m[c].size = h[c].size
            /\ m[c].next = h[c].next
            /\ m[c].prev = h[c].prev
  BY <1>1, MarkedGood, Zenon
<1> HIDE DEF m, f
<1>5. NoFreeNeighbours(m, {b} \cup X)
  <2> SUFFICES ASSUME NEW c \in DOMAIN m \ ({b} \cup X), m[c].free, m[c].next # NULL
               PROVE  ~m[m[c].next].free
    BY DEF NoFreeNeighbours
  <2>1. c \in DOMAIN h /\ c # b /\ h[c].free /\ h[c].next # NULL /\ m[c].next = h[c].next
    BY <1>4
  <2>2. h[c].next \in DOMAIN h /\ h[h[c].next].prev = c /\ c # NULL
    BY <2>1, <1>1, Fields DEF NULL
  <2>3. h[c].next # b
    BY <2>2
  <2>4. ~h[h[c].next].free
    BY <2>1, <1>1 DEF NoFreeNeighbours
  <2> QED BY <2>1, <2>2, <2>3, <2>4, <1>4
<1>6. m[b].next \notin X
  <2> SUFFICES ASSUME h[b].next = p, p # NULL PROVE FALSE
    BY <1>1, <1>4
  <2>1. /\ p \in DOMAIN h /\ h[p].next = b /\ p = End(h, b) /\ b # NULL
        /\ h[b].size \in Nat
    BY <1>1, <1>2, Fields DEF NULL
  <2>2. b = End(h, p) /\ h[p].size \in Nat /\ p \in Nat
    BY <2>1, <1>1, Fields
  <2> HIDE DEF p
  <2>3. p = b + 16 + h[b].size
    BY <2>1 DEF End, HEADER_SIZE
  <2>4. b = p + 16 + h[p].size
    BY <2>2 DEF End, HEADER_SIZE
  <2>5. p > b
    <3>1. b \in Nat /\ h[b].size \in Nat
      BY <2>1, <1>2
    <3> QED BY <3>1, <2>3
  <2>6. b > p
    <3>1. p \in Nat /\ h[p].size \in Nat
      BY <2>2
    <3> QED BY <3>1, <2>4
  <2>7. b \in Nat /\ p \in Nat
    BY <1>2, <2>2
  <2> QED BY <2>5, <2>6, <2>7
<1>7. /\ Good(f) /\ NoFreeNeighbours(f, X) /\ SameUsed(m, f)
      /\ b \in DOMAIN f /\ f[b].free /\ f[b].prev = p
  <2>1. /\ Good(f) /\ NoFreeNeighbours(f, X) /\ SameUsed(m, f)
        /\ b \in DOMAIN f /\ f[b].free /\ f[b].prev = m[b].prev
    <3> HIDE DEF X
    <3> QED BY <1>1, <1>4, <1>5, <1>6, CoalesceGood DEF f
  <2> QED BY <2>1, <1>1, <1>4
<1> HIDE DEF p
<1>8. Good(h') /\ NoFreeNeighbours(h', {}) /\ SameUsed(f, h')
  <2>1. CASE p # NULL /\ f[p].free
    <3>1. p \in DOMAIN f
      BY <2>1, <1>7, Fields
    <3>2. NoFreeNeighbours(f, {p} \cup {})
      BY <2>1, <1>7 DEF NoFreeNeighbours
    <3>3. h' = Coalesce(f, p)
      BY <2>1, <1>3, <1>7
    <3> QED BY <3>1, <3>2, <3>3, <2>1, <1>7, CoalesceGood
  <2>2. CASE ~(p # NULL /\ f[p].free)
    <3>1. h' = f
      BY <2>2, <1>3, <1>7
    <3>2. NoFreeNeighbours(f, {})
      BY <2>2, <1>7 DEF NoFreeNeighbours
    <3> QED BY <3>1, <3>2, <1>7 DEF SameUsed
  <2> QED BY <2>1, <2>2
<1>9. /\ \A c \in DOMAIN h : ~h[c].free /\ c # b =>
            c \in DOMAIN h' /\ ~h'[c].free /\ h'[c].size = h[c].size
      /\ \A c \in DOMAIN h' : ~h'[c].free => c \in DOMAIN h /\ ~h[c].free /\ c # b
  BY <1>4, <1>7, <1>8 DEF SameUsed
<1>10. Owned'
  <2>0. /\ \A c \in DOMAIN h : ~h[c].free => \E x \in live : x.ptr = c + HEADER_SIZE
        /\ \A x \in live : /\ x.ptr - HEADER_SIZE \in DOMAIN h
                           /\ ~h[x.ptr - HEADER_SIZE].free
                           /\ x.size <= h[x.ptr - HEADER_SIZE].size
        /\ \A x, y \in live : x.ptr = y.ptr => x = y
        /\ \A x \in live : x.ptr \in Nat
    <3>1. \A x \in live : x.ptr \in Nat
      BY HeapAssumption DEF IInv, Alloc
    <3> QED BY <3>1 DEF IInv, Owned
  <2>1. ASSUME NEW c \in DOMAIN h', ~h'[c].free
        PROVE  \E x \in live' : x.ptr = c + HEADER_SIZE
    <3>1. c \in DOMAIN h /\ ~h[c].free /\ c # b
      BY <2>1, <1>9
    <3>2. PICK x \in live : x.ptr = c + HEADER_SIZE
      BY <3>1, <2>0
    <3>3. c \in Nat
      BY <3>1, <1>1, Fields
    <3>4. x # a
      BY <3>1, <3>2, <3>3, <1>2 DEF HEADER_SIZE
    <3> QED BY <3>2, <3>4, <1>3
  <2>2. ASSUME NEW x \in live'
        PROVE  /\ x.ptr - HEADER_SIZE \in DOMAIN h'
               /\ ~h'[x.ptr - HEADER_SIZE].free
               /\ x.size <= h'[x.ptr - HEADER_SIZE].size
    <3>1. x \in live /\ x.ptr # a.ptr
      BY <2>0, <1>3
    <3>2. x.ptr - HEADER_SIZE # b
      BY <3>1, <2>0, <1>2 DEF HEADER_SIZE
    <3> QED BY <3>1, <3>2, <2>0, <1>9
  <2>3. \A x, y \in live' : x.ptr = y.ptr => x = y
    BY <2>0, <1>3
  <2> QED BY <2>1, <2>2, <2>3 DEF Owned
<1> QED BY <1>3, <1>8, <1>10, Zenon DEF IInv, Good
-----------------------------------------------------------------------------
(* The inductive invariant holds in every state of every behaviour of the  *)
(* allocator, whatever sequence of kmalloc and kfree is made.              *)
THEOREM HeapInvariance == Spec => []IInv
<1>1. Init => IInv
  <2> SUFFICES ASSUME Init PROVE IInv
    OBVIOUS
  <2>1. CASE h = OneBlock
    <3>1. \A c \in DOMAIN OneBlock : OneBlock[c].free
      BY DEF OneBlock
    <3> QED BY <2>1, <3>1, OneBlockGood DEF Init, IInv, Owned, Good
  <2>2. CASE h = [b \in {} |-> OneBlock[0]]
    BY <2>2 DEF Init, IInv, Owned
  <2> QED BY <2>1, <2>2 DEF Init
<1>2. IInv /\ [Next]_vars => IInv'
  <2> SUFFICES ASSUME IInv, [Next]_vars PROVE IInv'
    OBVIOUS
  <2>1. CASE Next
    BY <2>1, KmallocInv, KfreeInv DEF Next
  <2>2. CASE UNCHANGED vars
    BY <2>2 DEF vars, IInv, Owned
  <2> QED BY <2>1, <2>2
<1> QED BY <1>1, <1>2, PTL DEF Spec

(* block_split and block_coalesce keep the arena a contiguous run of       *)
(* blocks with next and prev inverse to each other.                        *)
THEOREM AlwaysTiled == Spec => []Tiling
<1>1. IInv => Tiling
  BY DEF IInv, Good, Tiling
<1> QED BY <1>1, HeapInvariance, PTL

(* kmalloc never hands out a block that is in use, nor one too small, and  *)
(* kfree gives back exactly the block it is called for.                    *)
THEOREM AlwaysOwned == Spec => []Owned
<1>1. IInv => Owned
  BY DEF IInv
<1> QED BY <1>1, HeapInvariance, PTL

(* When every allocation has been freed, kfree's merges have made the      *)
(* arena one free block again.                                             *)
THEOREM AlwaysReclaimed == Spec => []Reclaimed
<1>1. IInv => Reclaimed
  <2> SUFFICES ASSUME IInv, live = {}, DOMAIN h # {} PROVE h = OneBlock
    BY Zenon DEF Reclaimed
  <2>1. Good(h) /\ NoFreeNeighbours(h, {}) /\ \A b \in DOMAIN h : h[b].free
    <3>1. \A b \in DOMAIN h : h[b].free \in BOOLEAN
      BY DEF IInv, Header
    <3> QED BY <3>1 DEF IInv, Owned
  <2>2. \A b \in DOMAIN h : h[b].prev = NULL
    <3> SUFFICES ASSUME NEW b \in DOMAIN h, h[b].prev # NULL PROVE FALSE
      OBVIOUS
    <3>1. h[b].prev \in DOMAIN h /\ h[h[b].prev].next = b /\ b # NULL
      BY <2>1, Fields DEF NULL
    <3> QED BY <3>1, <2>1 DEF NoFreeNeighbours
  <2>3. DOMAIN h = {0}
    <3>1. 0 \in DOMAIN h
      BY <2>1 DEF Good, Tiles
    <3>2. \A b \in DOMAIN h : b = 0
      BY <2>1, <2>2, Fields
    <3> QED BY <3>1, <3>2
  <2>4. h[0].next = NULL
    BY <2>1, <2>3, Fields DEF NoFreeNeighbours
  <2>5. h[0].size = ArenaSize - HEADER_SIZE
    <3>1. End(h, 0) = ArenaSize /\ h[0].size \in Nat
      BY <2>1, <2>3, <2>4, Fields
    <3> QED BY <3>1, HeapAssumption DEF End, HEADER_SIZE
  <2>6. h[0] = [size |-> ArenaSize - HEADER_SIZE, free |-> TRUE,
                next |-> NULL, prev |-> NULL]
    <3>1. h[0] \in Header /\ h[0].free = TRUE
      BY <2>1, <2>3 DEF Good, Header
    <3> QED BY <3>1, <2>2, <2>3, <2>4, <2>5 DEF Header
  <2> QED BY <2>3, <2>6 DEF OneBlock, IInv
<1> QED BY <1>1, HeapInvariance, PTL

(* Headers and allocations keep their types. *)
THEOREM HeapTypeCorrect == Spec => []TypeOK
<1>1. IInv => TypeOK
  BY DEF IInv, Good, TypeOK
<1> QED BY <1>1, HeapInvariance, PTL
-----------------------------------------------------------------------------
(* Headers and payloads start at multiples of 8. *)
OnEight ==
    /\ \A b \in DOMAIN h : b % 8 = 0
    /\ PayloadsAligned

(* A size rounded up to a multiple of 8 is one. *)
LEMMA AlignUpEight ==
    ASSUME NEW n \in Nat, NEW a \in Nat \ {0}, a % 8 = 0
    PROVE  HEAP_ALIGN(n, a) % 8 = 0
<1> DEFINE m == n + a - 1
           k == a \div 8
           q == m \div a
<1>1. m \in Nat /\ k \in Nat /\ a = 8 * k
  OBVIOUS
<1>2. q \in Nat /\ m = a * q + (m % a) /\ m % a \in Nat
  <2>1. m \in Nat
    BY <1>1
  <2> HIDE DEF m
  <2>2. \A x \in Nat, y \in Nat \ {0} :
           x \div y \in Nat /\ x = y * (x \div y) + (x % y) /\ x % y \in Nat
    OBVIOUS
  <2> QED BY <2>1, <2>2
<1>3. HEAP_ALIGN(n, a) = m - (m % a)
  BY DEF HEAP_ALIGN
<1> HIDE DEF m, k, q
<1>4. \A x, y \in Nat : (8 * x) * y = 8 * (x * y) /\ x * y \in Nat
  OBVIOUS
<1>5. HEAP_ALIGN(n, a) = 8 * (k * q) /\ k * q \in Nat
  <2>1. a * q = 8 * (k * q) /\ k * q \in Nat
    BY <1>1, <1>2, <1>4
  <2> DEFINE z == k * q
             r == m % a
  <2>2. z \in Nat /\ m = 8 * z + r /\ r \in Nat /\ HEAP_ALIGN(n, a) = m - r
    BY <2>1, <1>2, <1>3
  <2>3. HEAP_ALIGN(n, a) = 8 * z
    <3> HIDE DEF z, r
    <3> QED BY <2>2
  <2> QED BY <2>1, <2>3
<1>6. \A x \in Nat : (8 * x) % 8 = 0
  OBVIOUS
<1> QED BY <1>5, <1>6

(* block_split is called for a multiple of 8, so its remainder starts at   *)
(* one; block_coalesce starts no block.                                    *)
LEMMA KmallocOnEight ==
    ASSUME IInv, OnEight, NEW size \in Sizes, NEW alignment \in Alignments,
           kmalloc_aligned(size, alignment)
    PROVE  OnEight'
<1> DEFINE al  == IF alignment < 8 THEN 8 ELSE alignment
           w   == HEAP_ALIGN(size, al)
           S   == Fits(Prepared, w)
           b   == Min(S)
           new == [ptr |-> b + HEADER_SIZE, size |-> size]
<1>1. al \in Nat \ {0} /\ al % 8 = 0 /\ size \in Nat
  BY HeapAssumption
<1>2. w \in Nat /\ w % 8 = 0
  <2> HIDE DEF al
  <2> QED BY <1>1, AlignUp, AlignUpEight
<1>3. \A c \in DOMAIN Prepared : c \in Nat /\ c % 8 = 0
  <2>1. DOMAIN OneBlock = {0}
    BY DEF OneBlock
  <2>2. \A c \in DOMAIN h : c \in Nat
    BY HeapAssumption DEF IInv, Good, Addr
  <2> QED BY <2>1, <2>2 DEF Prepared, OnEight
<1>4. \/ h' = Prepared /\ live' = live
      \/ /\ S # {} /\ h' = Marked(Split(Prepared, b, w), b, FALSE)
         /\ live' = live \cup {new}
  BY Zenon DEF kmalloc_aligned
<1>5. CASE h' = Prepared /\ live' = live
  BY <1>3, <1>5 DEF OnEight, PayloadsAligned
<1>6. CASE /\ S # {} /\ h' = Marked(Split(Prepared, b, w), b, FALSE)
           /\ live' = live \cup {new}
  <2>1. b \in DOMAIN Prepared
    <3>1. S \in SUBSET Nat /\ S \subseteq DOMAIN Prepared
      BY <1>3 DEF Fits
    <3> QED BY <3>1, <1>6, LeastOf
  <2>2. b \in Nat /\ b % 8 = 0
    BY <2>1, <1>3
  <2> HIDE DEF b, w
  <2>3. DOMAIN h' \subseteq DOMAIN Prepared \cup {b + HEADER_SIZE + w}
    <3>1. DOMAIN Marked(Split(Prepared, b, w), b, FALSE) = DOMAIN Split(Prepared, b, w)
      BY DEF Marked
    <3>2. DOMAIN Split(Prepared, b, w) \subseteq DOMAIN Prepared \cup {b + HEADER_SIZE + w}
      BY DEF Split
    <3> QED BY <3>1, <3>2, <1>6, Zenon
  <2>4. (b + HEADER_SIZE + w) % 8 = 0 /\ (b + HEADER_SIZE) % 8 = 0
    BY <2>2, <1>2 DEF HEADER_SIZE
  <2>5. \A c \in DOMAIN h' : c % 8 = 0
    BY <2>3, <2>4, <1>3
  <2>6. PayloadsAligned'
    BY <2>4, <1>6 DEF OnEight, PayloadsAligned
  <2> QED BY <2>5, <2>6 DEF OnEight
<1> QED BY <1>4, <1>5, <1>6, Zenon

LEMMA KfreeOnEight ==
    ASSUME OnEight, NEW a \in live, kfree(a)
    PROVE  OnEight'
<1>1. ASSUME NEW hh, NEW b
      PROVE  DOMAIN Coalesce(hh, b) \subseteq DOMAIN hh
  BY DEF Coalesce
<1>2. ASSUME NEW b
      PROVE  DOMAIN Marked(h, b, TRUE) = DOMAIN h
  BY DEF Marked
<1> DEFINE b == a.ptr - HEADER_SIZE
           f == Coalesce(Marked(h, b, TRUE), b)
           p == f[b].prev
<1>3. (h' = f \/ h' = Coalesce(f, p)) /\ live' = live \ {a}
  BY Zenon DEF kfree
<1>4. DOMAIN f \subseteq DOMAIN h
  <2> HIDE DEF b
  <2> QED BY <1>1, <1>2, Zenon
<1>5. DOMAIN h' \subseteq DOMAIN h /\ live' \subseteq live
  <2> HIDE DEF f, p
  <2>1. DOMAIN Coalesce(f, p) \subseteq DOMAIN f
    BY <1>1
  <2> QED BY <1>3, <1>4, <2>1
<1> QED BY <1>5 DEF OnEight, PayloadsAligned

(* Whatever alignments are asked for, sizes are rounded to multiples of 8, *)
(* so every payload starts at one: what kmalloc relies on.                 *)
THEOREM KmallocAligned == Spec => []PayloadsAligned
<1>1. Init => OnEight
  BY DEF Init, OnEight, OneBlock, PayloadsAligned
<1>2. IInv /\ OnEight /\ [Next]_vars => OnEight'
  <2> SUFFICES ASSUME IInv, OnEight, [Next]_vars PROVE OnEight'
    OBVIOUS
  <2>1. CASE Next
    BY <2>1, KmallocOnEight, KfreeOnEight DEF Next
  <2>2. CASE UNCHANGED vars
    BY <2>2 DEF vars, OnEight, PayloadsAligned
  <2> QED BY <2>1, <2>2
<1>3. OnEight => PayloadsAligned
  BY DEF OnEight
<1> QED BY <1>1, <1>2, <1>3, HeapInvariance, PTL DEF Spec
=============================================================================
