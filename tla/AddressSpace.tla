---------------------------- MODULE AddressSpace ----------------------------
(***************************************************************************)
(* What the virtual memory manager promises: a set of address spaces, each *)
(* a function from virtual pages to frames.  Mapping a range may stop      *)
(* short of pages that were not mapped only when memory is full; a page    *)
(* that was mapped always gets its new frame, nothing outside the range    *)
(* changes and no other address space does.                                *)
(***************************************************************************)
EXTENDS Integers

CONSTANTS NumPages,       \* virtual pages, and frames, are 0 .. NumPages - 1
          Unmapped,       \* not a frame
          Ranges          \* the [first, last, frame] that may be mapped

VARIABLES space,          \* for every address space in use, its translation
          full            \* no memory is left for page tables

Pages == 0 .. NumPages - 1

Init == space = [d \in {} |-> Unmapped] /\ full \in BOOLEAN

\* A page that had no frame may be left without when memory is full.
Given(new, old, frame) == new = frame \/ (full' /\ new = Unmapped /\ old = Unmapped)

\* A new address space maps its first n pages to themselves.
New(d, n) ==
    LET new == space'[d]
    IN  /\ DOMAIN space' = DOMAIN space \cup {d}
        /\ \A e \in DOMAIN space : space'[e] = space[e]
        /\ DOMAIN new = Pages
        /\ \A v \in Pages : IF v < n THEN Given(new[v], Unmapped, v) ELSE new[v] = Unmapped

Drop(d) == space' = [e \in DOMAIN space \ {d} |-> space[e]]

\* The pages of r are mapped to the frames from r.frame on.
Map(d, r) ==
    LET old == space[d]
        new == space'[d]
        in  == r.first .. r.last
    IN  /\ DOMAIN space' = DOMAIN space
        /\ \A e \in DOMAIN space \ {d} : space'[e] = space[e]
        /\ DOMAIN new = Pages
        /\ \A v \in Pages \ in : new[v] = old[v]
        /\ \A v \in in : Given(new[v], old[v], (r.frame + (v - r.first)) % NumPages)

Unmap(d, r) ==
    space' = [space EXCEPT ![d] = [v \in Pages |->
                  IF v \in r.first .. r.last THEN Unmapped ELSE @[v]]]

\* Memory is used and given back by others.
Others == UNCHANGED space

Next == \/ Others
        \/ \E d \in DOMAIN space' \ DOMAIN space, n \in 0 .. NumPages : New(d, n)
        \/ \E d \in DOMAIN space : Drop(d)
        \/ \E d \in DOMAIN space, r \in Ranges : Map(d, r) \/ Unmap(d, r)

Spec == Init /\ [][Next]_<<space, full>>
=============================================================================
