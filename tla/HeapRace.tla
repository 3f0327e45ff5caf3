----------------------------- MODULE HeapRace -----------------------------
(***************************************************************************)
(* memory/heap.c under preemption.  The shell calls kmalloc, and kfree     *)
(* when a creation fails, from process_create with interrupts enabled: its *)
(* calls are taken apart into the writes they make.  Between two of them   *)
(* the timer may switch to a process whose fork, exit or wait calls the    *)
(* allocator with interrupts disabled; such a call is one step.            *)
(*                                                                         *)
(* h keeps the headers of merged blocks: the bytes stay where they were,   *)
(* and the shell may still hold a pointer to them.                         *)
(***************************************************************************)
EXTENDS Heap, TLC

VARIABLE s        \* the shell's call: where it stands and its locals

Idle == [pc |-> "idle", blk |-> NULL, size |-> 0]

want == HEAP_ALIGN(s.size, 8)
rest == s.blk + HEADER_SIZE + want

Goto(pc) == s' = [s EXCEPT !.pc = pc]

(* The first block holds the stacks of the shell and of the process that    *)
(* will fork; neither is given back.                                        *)
RaceInit ==
    /\ \E size \in Sizes \ {0} :
          h = Marked(Split(OneBlock, 0, HEAP_ALIGN(size, 8)), 0, FALSE)
    /\ live = {}
    /\ s = Idle

(* The blocks the list leads to from heap_head, in its order. *)
Chain(hh) ==
    LET n == Cardinality(DOMAIN hh)
        walk[i \in 0 .. n] ==
            IF i = 0 THEN 0
            ELSE IF walk[i - 1] = NULL THEN NULL ELSE hh[walk[i - 1]].next
    IN  [i \in {j \in 0 .. n : walk[j] # NULL} |-> walk[i]]

Listed(hh) == {Chain(hh)[i] : i \in DOMAIN Chain(hh)}
-----------------------------------------------------------------------------
(* The calls of other processes, with interrupts disabled. *)

OtherKmalloc(size) ==
    LET w    == HEAP_ALIGN(size, 8)
        c    == Chain(h)
        fits == {i \in DOMAIN c : h[c[i]].free /\ h[c[i]].size >= w}
    IN  /\ size # 0 /\ fits # {}
        /\ LET b == c[Min(fits)]
           IN  /\ h' = Marked(Split(h, b, w), b, FALSE)
               /\ live' = live \cup {[ptr |-> b + HEADER_SIZE, size |-> size]}
        /\ UNCHANGED s

OtherKfree(a) ==
    LET b    == a.ptr - HEADER_SIZE
        f    == Coalesce(Marked(h, b, TRUE), b)
        prev == f[b].prev
        g    == IF prev # NULL /\ f[prev].free THEN Coalesce(f, prev) ELSE f
    IN  /\ s.pc = "held" => b # s.blk
        /\ h' = g @@ h
        /\ live' = live \ {a}
        /\ UNCHANGED s
-----------------------------------------------------------------------------
(* The shell's kmalloc. *)

Call(size) ==
    /\ s.pc = "idle" /\ size # 0
    /\ s' = [pc |-> "scan", blk |-> 0, size |-> size]
    /\ UNCHANGED <<h, live>>

Scan ==
    /\ s.pc = "scan"
    /\ IF s.blk = NULL THEN s' = Idle
       ELSE IF h[s.blk].free /\ h[s.blk].size >= want THEN Goto("split")
       ELSE s' = [s EXCEPT !.blk = h[s.blk].next]
    /\ UNCHANGED <<h, live>>

(* block_split up to the two writes to blk *)
Carve ==
    /\ s.pc = "split"
    /\ IF h[s.blk].size < want + HEADER_SIZE + MIN_PAYLOAD
       THEN Goto("take") /\ UNCHANGED h
       ELSE /\ h' = [c \in DOMAIN h \cup {rest} |->
                        IF c = rest THEN Rest(h, s.blk, want)
                        ELSE IF c = h[s.blk].next THEN [h[c] EXCEPT !.prev = rest]
                        ELSE h[c]]
            /\ Goto("resize")
    /\ UNCHANGED live

Resize ==
    /\ s.pc = "resize"
    /\ h' = [h EXCEPT ![s.blk].size = want]
    /\ Goto("relink")
    /\ UNCHANGED live

Relink ==
    /\ s.pc = "relink"
    /\ h' = [h EXCEPT ![s.blk].next = rest]
    /\ Goto("take")
    /\ UNCHANGED live

Take ==
    /\ s.pc = "take"
    /\ h' = Marked(h, s.blk, FALSE)
    /\ live' = live \cup {[ptr |-> s.blk + HEADER_SIZE, size |-> s.size]}
    /\ Goto("held")
-----------------------------------------------------------------------------
(* The new stack goes to a process, or back to the heap if there is no PCB *)
(* for it: first the flag, then one merge at a time.                       *)

Publish ==
    /\ s.pc = "held"
    /\ s' = Idle
    /\ UNCHANGED <<h, live>>

Free ==
    /\ s.pc = "held"
    /\ h' = Marked(h, s.blk, TRUE)
    /\ live' = {a \in live : a.ptr # s.blk + HEADER_SIZE}
    /\ Goto("forward")

Forward ==
    /\ s.pc = "forward"
    /\ h' = Coalesce(h, s.blk) @@ h
    /\ Goto("backward")
    /\ UNCHANGED live

Backward ==
    /\ s.pc = "backward"
    /\ LET prev == h[s.blk].prev
       IN  h' = IF prev # NULL /\ h[prev].free THEN Coalesce(h, prev) @@ h ELSE h
    /\ s' = Idle
    /\ UNCHANGED live

RaceNext ==
    \/ \E size \in Sizes : OtherKmalloc(size) \/ Call(size)
    \/ \E a \in live : OtherKfree(a)
    \/ Scan \/ Carve \/ Resize \/ Relink \/ Take \/ Publish
    \/ Free \/ Forward \/ Backward

RaceSpec == RaceInit /\ [][RaceNext]_<<h, live, s>>
-----------------------------------------------------------------------------
(* Whenever the shell is outside the allocator, the list again leads       *)
(* through blocks that cover the arena without gap or overlap: no          *)
(* preemption of kmalloc or kfree leaves the layout damaged.               *)
ContiguousRun ==
    s.pc \in {"idle", "held"} => Tiles([b \in Listed(h) |-> h[b]])
=============================================================================
