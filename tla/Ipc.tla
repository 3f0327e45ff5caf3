-------------------------------- MODULE Ipc --------------------------------
(***************************************************************************)
(* kernel/ipc.c: the table of pipes and the table of message queues.  Both *)
(* are rings with a read position, a write position and a count, in slots  *)
(* that are opened, closed and opened again without being wiped.  Each     *)
(* call is one step: only the shell calls them, so nothing interleaves.    *)
(*                                                                         *)
(* A handle is the index of its slot.  The pids a caller passes are stored *)
(* and never read; they are left out.                                      *)
(***************************************************************************)
EXTENDS Naturals, Sequences, FiniteSetsExt

CONSTANTS MAX_PIPES, PIPE_BUF_SIZE,
          MAX_MSG_QUEUES, MSG_QUEUE_SIZE, MSG_MAX_SIZE,
          Byte, Type,           \* values of a byte and of a message type
          zero,                 \* the byte static memory starts with
          NULL

ASSUME RingAssumption ==
    /\ PIPE_BUF_SIZE \in Nat \ {0} /\ MSG_QUEUE_SIZE \in Nat \ {0}
    /\ MAX_PIPES \in Nat /\ MAX_MSG_QUEUES \in Nat /\ MSG_MAX_SIZE \in Nat
    /\ zero \in Byte \cap Type

VARIABLES pipes, msg_queues,
          piped, messaged       \* what the last call on a pipe, on a queue moved

vars == <<pipes, msg_queues, piped, messaged>>

Pipes  == 0 .. MAX_PIPES - 1
Queues == 0 .. MAX_MSG_QUEUES - 1

Pipe == [buffer : [0 .. PIPE_BUF_SIZE - 1 -> Byte],
         read_pos : 0 .. PIPE_BUF_SIZE - 1, write_pos : 0 .. PIPE_BUF_SIZE - 1,
         count : 0 .. PIPE_BUF_SIZE, is_open : BOOLEAN]

Message == [type : Type, size : 0 .. MSG_MAX_SIZE, data : [1 .. MSG_MAX_SIZE -> Byte]]

MsgQueue == [messages : [0 .. MSG_QUEUE_SIZE - 1 -> Message],
             head : 0 .. MSG_QUEUE_SIZE - 1, tail : 0 .. MSG_QUEUE_SIZE - 1,
             count : 0 .. MSG_QUEUE_SIZE, is_open : BOOLEAN]

blank == [type |-> zero, size |-> 0, data |-> [i \in 1 .. MSG_MAX_SIZE |-> zero]]

ipc_init ==
    /\ pipes = [p \in Pipes |->
                  [buffer |-> [i \in 0 .. PIPE_BUF_SIZE - 1 |-> zero],
                   read_pos |-> 0, write_pos |-> 0, count |-> 0, is_open |-> FALSE]]
    /\ msg_queues = [q \in Queues |->
                  [messages |-> [i \in 0 .. MSG_QUEUE_SIZE - 1 |-> blank],
                   head |-> 0, tail |-> 0, count |-> 0, is_open |-> FALSE]]
    /\ piped = << >> /\ messaged = << >>

(* The first slot that is not open, or NULL. *)
FirstClosed(table) ==
    LET closed == {i \in DOMAIN table : ~table[i].is_open}
    IN  IF closed = {} THEN NULL ELSE Min(closed)
-----------------------------------------------------------------------------
(* Pipes. *)

pipe_create_keep ==
    LET p == FirstClosed(pipes)
    IN  /\ p # NULL
        /\ pipes' = [pipes EXCEPT ![p].is_open = TRUE]
        /\ UNCHANGED <<msg_queues, piped, messaged>>

pipe_create ==
    LET p == FirstClosed(pipes)
    IN  /\ p # NULL
        /\ pipes' = [pipes EXCEPT ![p] = [@ EXCEPT !.is_open = TRUE, !.read_pos = 0,
                                                   !.write_pos = 0, !.count = 0]]
        /\ UNCHANGED <<msg_queues, piped, messaged>>

(* One turn of the loop of pipe_write; a full pipe takes nothing more. *)
PutByteOverrun(p, b) ==
    IF p.count <= PIPE_BUF_SIZE
    THEN [p EXCEPT !.buffer[p.write_pos] = b,
                   !.write_pos = (@ + 1) % PIPE_BUF_SIZE,
                   !.count = @ + 1]
    ELSE p

PutByte(p, b) ==
    IF p.count < PIPE_BUF_SIZE
    THEN [p EXCEPT !.buffer[p.write_pos] = b,
                   !.write_pos = (@ + 1) % PIPE_BUF_SIZE,
                   !.count = @ + 1]
    ELSE p

(* The whole loop: the pipe after every byte of data had its turn. *)
Written(p, data) ==
    LET after[i \in 0 .. Len(data)] ==
            IF i = 0 THEN p ELSE PutByte(after[i - 1], data[i])
    IN  after[Len(data)]

pipe_write(p, data) ==
    /\ pipes[p].is_open
    /\ pipes' = [pipes EXCEPT ![p] = Written(@, data)]
    /\ piped' = data
    /\ UNCHANGED <<msg_queues, messaged>>

(* The bytes a pipe holds, oldest first. *)
Buffered(p) == [i \in 1 .. p.count |-> p.buffer[(p.read_pos + i - 1) % PIPE_BUF_SIZE]]

pipe_read(p, size) ==
    LET n == Min({size, pipes[p].count})
    IN  /\ pipes[p].is_open
        /\ piped' = SubSeq(Buffered(pipes[p]), 1, n)
        /\ pipes' = [pipes EXCEPT ![p].read_pos = (@ + n) % PIPE_BUF_SIZE,
                                  ![p].count = @ - n]
        /\ UNCHANGED <<msg_queues, messaged>>

pipe_close(p) ==
    /\ pipes' = [pipes EXCEPT ![p].is_open = FALSE]
    /\ UNCHANGED <<msg_queues, piped, messaged>>
-----------------------------------------------------------------------------
(* Message queues. *)

msgqueue_create ==
    LET q == FirstClosed(msg_queues)
    IN  /\ q # NULL
        /\ msg_queues' = [msg_queues EXCEPT ![q] = [@ EXCEPT !.is_open = TRUE,
                                            !.head = 0, !.tail = 0, !.count = 0]]
        /\ UNCHANGED <<pipes, piped, messaged>>

(* memcpy of the first size bytes; a NULL data leaves what the slot held. *)
Filled(old, type, data, size) ==
    [type |-> type, size |-> size,
     data |-> [i \in 1 .. MSG_MAX_SIZE |->
                 IF data # NULL /\ i <= size THEN data[i] ELSE old.data[i]]]

(* What the sender passed; a NULL data sends what the slot held. *)
Sent(old, type, data, size) ==
    [type |-> type, data |-> IF data = NULL THEN SubSeq(old.data, 1, size) ELSE data]

(* The part of a message its receiver may look at. *)
Visible(m) == [type |-> m.type, data |-> SubSeq(m.data, 1, m.size)]

msgqueue_send(q, type, data, size) ==
    LET t == msg_queues[q].tail
    IN  /\ msg_queues[q].is_open /\ size <= MSG_MAX_SIZE
        /\ msg_queues[q].count < MSG_QUEUE_SIZE
        /\ msg_queues' = [msg_queues EXCEPT
                ![q].messages[t] = Filled(@, type, data, size),
                ![q].tail = (@ + 1) % MSG_QUEUE_SIZE,
                ![q].count = @ + 1]
        /\ messaged' = <<Sent(msg_queues[q].messages[t], type, data, size)>>
        /\ UNCHANGED <<pipes, piped>>

msgqueue_receive_again(q) ==
    LET h == msg_queues[q].head
    IN  /\ msg_queues[q].is_open /\ msg_queues[q].count # 0
        /\ messaged' = <<Visible(msg_queues[q].messages[h])>>
        /\ msg_queues' = [msg_queues EXCEPT ![q].count = @ - 1]
        /\ UNCHANGED <<pipes, piped>>

msgqueue_receive(q) ==
    LET h == msg_queues[q].head
    IN  /\ msg_queues[q].is_open /\ msg_queues[q].count # 0
        /\ messaged' = <<Visible(msg_queues[q].messages[h])>>
        /\ msg_queues' = [msg_queues EXCEPT ![q].head = (@ + 1) % MSG_QUEUE_SIZE,
                                            ![q].count = @ - 1]
        /\ UNCHANGED <<pipes, piped>>

msgqueue_close(q) ==
    /\ msg_queues' = [msg_queues EXCEPT ![q].is_open = FALSE]
    /\ UNCHANGED <<pipes, piped, messaged>>
-----------------------------------------------------------------------------
PipeNext ==
    \/ pipe_create
    \/ \E p \in Pipes :
          \/ \E n \in 1 .. PIPE_BUF_SIZE + 1 : \E data \in [1 .. n -> Byte] : pipe_write(p, data)
          \/ \E size \in 0 .. PIPE_BUF_SIZE + 1 : pipe_read(p, size)
          \/ pipe_close(p)

QueueNext ==
    \/ msgqueue_create
    \/ \E q \in Queues :
          \/ \E type \in Type, size \in 0 .. MSG_MAX_SIZE + 1 :
                \E data \in {NULL} \cup [1 .. size -> Byte] : msgqueue_send(q, type, data, size)
          \/ msgqueue_receive(q)
          \/ msgqueue_close(q)

Spec == ipc_init /\ [][PipeNext \/ QueueNext]_vars
-----------------------------------------------------------------------------
(* Both tables hold rings: positions and counts stay inside the buffers.   *)
TypeOK ==
    /\ pipes \in [Pipes -> Pipe]
    /\ msg_queues \in [Queues -> MsgQueue]

Queued(q) ==
    [i \in 1 .. q.count |-> Visible(q.messages[(q.head + i - 1) % MSG_QUEUE_SIZE])]

PipeChannel == INSTANCE Channel WITH
    Slots <- Pipes, Items <- Byte, Capacity <- PIPE_BUF_SIZE,
    open <- {p \in Pipes : pipes[p].is_open},
    contents <- [p \in Pipes |-> IF pipes[p].is_open THEN Buffered(pipes[p]) ELSE << >>],
    moved <- piped

QueueChannel == INSTANCE Channel WITH
    Slots <- Queues, Capacity <- MSG_QUEUE_SIZE,
    Items <- {[type |-> t, data |-> d] : t \in Type,
                  d \in UNION {[1 .. n -> Byte] : n \in 0 .. MSG_MAX_SIZE}},
    open <- {q \in Queues : msg_queues[q].is_open},
    contents <- [q \in Queues |-> IF msg_queues[q].is_open THEN Queued(msg_queues[q]) ELSE << >>],
    moved <- messaged

(* The ring buffers of pipe_write and pipe_read implement bounded FIFO     *)
(* channels: bytes leave in the order they came, none is lost or made up   *)
(* at the wrap of the buffer or when it is full, and a slot opened again   *)
(* shows nothing of what its former users left in it.                      *)
PipesAreChannels == PipeChannel!Spec

(* msgqueue_send and msgqueue_receive implement the same channels with     *)
(* messages for items: whole messages, delivered first-in first-out.       *)
QueuesAreChannels == QueueChannel!Spec
=============================================================================
