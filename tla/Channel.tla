------------------------------ MODULE Channel ------------------------------
(***************************************************************************)
(* What kernel/ipc.c promises its callers: a table of channels, each a     *)
(* bounded first-in first-out buffer that starts empty when it is opened   *)
(* and refuses everything while it is closed.  No ring positions, no stale *)
(* bytes.                                                                  *)
(***************************************************************************)
EXTENDS Naturals, Sequences, FiniteSetsExt

CONSTANTS Slots,        \* the channels of the table
          Items,        \* what a channel carries
          Capacity      \* how many items it holds

VARIABLES open,         \* the channels in use
          contents,     \* contents[c]: the items put into c and not yet taken
          moved         \* the items the last call put in or took out

channel == <<open, contents, moved>>

Init ==
    /\ open = {}
    /\ contents = [c \in Slots |-> << >>]
    /\ moved = << >>

Create(c) ==
    /\ c \notin open
    /\ open' = open \cup {c}
    /\ UNCHANGED <<contents, moved>>

(* The items are appended in order, as far as there is room. *)
Put(c) ==
    /\ c \in open
    /\ moved' \in Seq(Items)
    /\ contents' = [contents EXCEPT ![c] =
                       LET all == @ \o moved' IN SubSeq(all, 1, Min({Len(all), Capacity}))]
    /\ UNCHANGED open

(* The oldest n items leave, in order. *)
Take(c, n) ==
    /\ c \in open /\ n <= Len(contents[c])
    /\ moved' = SubSeq(contents[c], 1, n)
    /\ contents' = [contents EXCEPT ![c] = SubSeq(@, n + 1, Len(@))]
    /\ UNCHANGED open

(* Items nobody took are gone. *)
Close(c) ==
    /\ c \in open
    /\ open' = open \ {c}
    /\ contents' = [contents EXCEPT ![c] = << >>]
    /\ UNCHANGED moved

Next ==
    \E c \in Slots :
        \/ Create(c) \/ Put(c) \/ Close(c)
        \/ \E n \in 0 .. Capacity : Take(c, n)

Spec == Init /\ [][Next]_channel
=============================================================================
