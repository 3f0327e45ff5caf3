----------------------------- MODULE Scheduler -----------------------------
(***************************************************************************)
(* process/scheduler.c and the process-table helpers of process/process.c. *)
(*                                                                         *)
(* The operators below map a kernel state k to the kernel state that the   *)
(* C function of the same name leaves behind.  They run with interrupts    *)
(* disabled, so each is one indivisible transformation.  A kernel state is *)
(* a record with the fields                                                *)
(*    tab           process_table, slot -> process control block           *)
(*    queue         the three FIFO ready queues, as sequences of slots     *)
(*    current       the slot current_process points to                     *)
(*    quantum_left  quantum_left of the current process (a process gets a  *)
(*                  new quantum whenever it is switched to, so the value   *)
(*                  of a process that is not running is never read)        *)
(*    free          the heap blocks kmalloc can still hand out; every      *)
(*                  request made here has the size of one stack            *)
(*    torn          history: a process was killed while it held stacks in  *)
(*                  local variables only                                   *)
(* Statistics (cpu_ticks, context_switches), names, exit codes and saved   *)
(* registers steer nothing and are left out.                               *)
(***************************************************************************)
EXTENDS Integers, Sequences, FiniteSets, FiniteSetsExt

CONSTANTS PROCESS_MAX,           \* slots of the process table
          SCHED_QUANTUM_TICKS,   \* ticks a process may run in one go
          AGING_THRESHOLD,       \* ready ticks after which it is boosted
          StackBlocks            \* stack-sized blocks the heap can supply

ASSUME SchedulerAssumption ==
    /\ PROCESS_MAX \in Nat /\ PROCESS_MAX >= 2
    /\ SCHED_QUANTUM_TICKS \in Nat \ {0}
    /\ AGING_THRESHOLD \in Nat
    /\ StackBlocks \in Nat \ {0}

Slots  == 0 .. PROCESS_MAX - 1
Levels == 0 .. 2                  \* PRIORITY_HIGH, _NORMAL, _LOW
Blocks == 1 .. StackBlocks
NULL   == 0                       \* no block
None   == -1                      \* no slot
Idle   == 0                       \* the slot of the idle process

(***************************************************************************)
(* A process control block.  sleep_left is sleep_until minus the current   *)
(* tick; the 64-bit tick counter never wraps.  pc, kloc, uloc and kid are  *)
(* the saved context of the process: where it stands inside a kernel call, *)
(* the stacks only its local variables point to, and the PCB of the child  *)
(* it is creating.                                                         *)
(***************************************************************************)
ProcState == {"UNUSED", "READY", "RUNNING", "BLOCKED", "SLEEPING", "ZOMBIE"}

Unused ==
    [state |-> "UNUSED", pid |-> 0, ppid |-> 0,
     priority |-> 0, base_priority |-> 0, wait_ticks |-> 0, sleep_left |-> 0,
     parent_waiting |-> FALSE, is_user |-> FALSE, user_entry |-> FALSE,
     kstack |-> NULL, ustack |-> NULL,
     pc |-> "none", kloc |-> NULL, uloc |-> NULL, kid |-> None]

Points == {"none", "idle", "run", "ucreate", "create", "fields", "unwind",
           "tramp", "user", "wild", "forked", "resume", "rewait", "dead"}

PCB == [state : ProcState, pid : Nat, ppid : Nat,
        priority : Levels, base_priority : Levels,
        wait_ticks : Nat, sleep_left : Nat,
        parent_waiting : BOOLEAN, is_user : BOOLEAN, user_entry : BOOLEAN,
        kstack : Blocks \cup {NULL}, ustack : Blocks \cup {NULL},
        pc : Points, kloc : Blocks \cup {NULL}, uloc : Blocks \cup {NULL},
        kid : Slots \cup {None}]

KernelState == [tab : [Slots -> PCB], queue : [Levels -> Seq(Slots)],
                current : Slots, quantum_left : 0 .. SCHED_QUANTUM_TICKS,
                free : SUBSET Blocks, torn : BOOLEAN]

-----------------------------------------------------------------------------
(* The elements of a finite set of integers in increasing order, and the   *)
(* elements of s at the indices in K, in the order of s.                   *)
Sorted(S) ==
    [n \in 1 .. Cardinality(S) |->
        CHOOSE i \in S : Cardinality({j \in S : j <= i}) = n]

Pick(s, K) == [n \in 1 .. Cardinality(K) |-> s[Sorted(K)[n]]]

(* k itself.  TLC evaluates a function constructor afresh whenever it is   *)
(* applied; the comparison makes it build the table once.                  *)
Eager(k) == IF k = k THEN k ELSE k

Members(s) == {s[i] : i \in DOMAIN s}
Once(s)    == \A i, j \in DOMAIN s : s[i] = s[j] => i = j

-----------------------------------------------------------------------------
(* process_by_pid: the first slot in use that carries the pid. *)
ByPid(k, x) ==
    LET S == {p \in Slots : k.tab[p].state # "UNUSED" /\ k.tab[p].pid = x}
    IN  IF S = {} THEN None ELSE Min(S)

(* The processes that belong in ready queue q. *)
ReadyAt(k, q) ==
    {p \in Slots \ {Idle} : k.tab[p].state = "READY" /\ k.tab[p].priority = q}

(***************************************************************************)
(* What every function below relies on and restores.  The ready queues     *)
(* hold exactly the READY processes, except those in X, which the caller   *)
(* is about to link; the idle process can always run and alone has pid 0;  *)
(* nobody but the current process is RUNNING.                              *)
(***************************************************************************)
QueuesMatch(k, X) ==
    \A q \in Levels : /\ Once(k.queue[q])
                      /\ Members(k.queue[q]) = ReadyAt(k, q) \ X

IdleStands(k) ==
    /\ k.tab[Idle].pid = 0 /\ k.tab[Idle].pc = "idle"
    /\ k.tab[Idle].state = IF k.current = Idle THEN "RUNNING" ELSE "READY"
    /\ \A p \in Slots \ {Idle} : k.tab[p].state # "UNUSED" => k.tab[p].pid # 0

Sound(k, X) ==
    /\ k \in KernelState
    /\ QueuesMatch(k, X)
    /\ IdleStands(k)
    /\ \A p \in Slots : k.tab[p].state = "RUNNING" => p = k.current

(* scheduler_enqueue: the idle process never queues. *)
Enqueue(k, p) ==
    IF k.tab[p].pid = 0 THEN k
    ELSE [k EXCEPT !.tab[p].wait_ticks = 0,
                   !.queue[k.tab[p].priority] = Append(@, p)]

(* Mutant: the process stays linked. *)
DequeueForgotten(k, p) == k

(* scheduler_dequeue: the first occurrence in the first queue holding p. *)
Dequeue(k, p) ==
    LET At(q) == {i \in DOMAIN k.queue[q] : k.queue[q][i] = p}
        Held  == {q \in Levels : At(q) # {}}
    IN  IF Held = {} THEN k
        ELSE LET q == Min(Held)
                 i == Min(At(q))
             IN  [k EXCEPT !.queue[q] =
                     SubSeq(@, 1, i - 1) \o SubSeq(@, i + 1, Len(@))]

(* scheduler_unblock *)
Unblock(k, p) ==
    IF k.tab[p].state \in {"BLOCKED", "SLEEPING"}
    THEN Enqueue([k EXCEPT !.tab[p].state = "READY", !.tab[p].sleep_left = 0], p)
    ELSE k

(***************************************************************************)
(* process_release for every slot of P: frees both stacks and the slot,    *)
(* never those of the current process.  The stale fields of a free slot    *)
(* are cleared here rather than by the next alloc_pcb; nobody reads them   *)
(* in between.  Stacks that only local variables pointed to are lost.      *)
(***************************************************************************)
Release(k, P) ==
    LET R == P \ {k.current} IN
    [k EXCEPT !.tab  = [p \in Slots |-> IF p \in R THEN Unused ELSE @[p]],
              !.free = @ \cup ((UNION {{k.tab[p].kstack, k.tab[p].ustack} :
                                        p \in R}) \ {NULL}),
              !.torn = @ \/ \E p \in R : {k.tab[p].kloc, k.tab[p].uloc} # {NULL}]

-----------------------------------------------------------------------------
(***************************************************************************)
(* reap_orphans visits the slots in order; the slots in gone have been     *)
(* released before z is visited.                                           *)
(***************************************************************************)
OrphanOfRunning(k, gone, z) ==          \* mutant: a running parent counts as gone
    LET S == {p \in Slots \ gone : /\ k.tab[p].state # "UNUSED"
                                   /\ k.tab[p].pid = k.tab[z].ppid}
    IN  S = {} \/ k.tab[Min(S)].state \in {"ZOMBIE", "RUNNING"} \/ k.tab[Min(S)].pid = 0

Orphan(k, gone, z) ==
    LET S == {p \in Slots \ gone : /\ k.tab[p].state # "UNUSED"
                                   /\ k.tab[p].pid = k.tab[z].ppid}
    IN  S = {} \/ k.tab[Min(S)].state = "ZOMBIE" \/ k.tab[Min(S)].pid = 0

Reapable(k) == {z \in Slots : k.tab[z].state = "ZOMBIE" /\ z # k.current}

ReapOrphans(k) ==
    LET gone[i \in 0 .. PROCESS_MAX] ==
            IF i = 0 THEN {}
            ELSE LET g == gone[i - 1] IN
                 g \cup {z \in Reapable(k) : z = i - 1 /\ Orphan(k, g, z)}
    IN  Release(k, Reapable(k) \cap gone[PROCESS_MAX])

(***************************************************************************)
(* apply_aging: every process waiting in the NORMAL and LOW queues ages by *)
(* one tick; those beyond the threshold move, in order, to the tail of the *)
(* queue above.  The NORMAL queue is walked first, so a process boosted    *)
(* out of LOW is not aged again.                                           *)
(***************************************************************************)
Boosted(k, q) ==
    IF q = 0 THEN {}
    ELSE {i \in DOMAIN k.queue[q] :
             k.tab[k.queue[q][i]].wait_ticks + 1 > AGING_THRESHOLD}

ApplyAgingInPlace(k) ==                 \* mutant: the boost keeps the level
    LET Up(q)   == Pick(k.queue[q], Boosted(k, q))
        Stay(q) == Pick(k.queue[q], DOMAIN k.queue[q] \ Boosted(k, q))
        Ticks(p) == IF \E q \in {1, 2} : p \in Members(Up(q)) THEN 0
                    ELSE IF \E q \in {1, 2} : p \in Members(k.queue[q])
                         THEN k.tab[p].wait_ticks + 1 ELSE k.tab[p].wait_ticks
    IN  [k EXCEPT !.tab = [p \in Slots |-> [@[p] EXCEPT !.wait_ticks = Ticks(p)]],
                  !.queue = [q \in Levels |-> Stay(q) \o Up(q)]]

ApplyAging(k) ==
    LET Up(q)   == Pick(k.queue[q], Boosted(k, q))
        Stay(q) == Pick(k.queue[q], DOMAIN k.queue[q] \ Boosted(k, q))
        In(p, q, K) == \E i \in K : k.queue[q][i] = p
        Aged(p) ==
            IF \E q \in {1, 2} : In(p, q, Boosted(k, q))
            THEN [k.tab[p] EXCEPT
                    !.priority = CHOOSE l \in {0, 1} : In(p, l + 1, Boosted(k, l + 1)),
                    !.wait_ticks = 0]
            ELSE IF \E q \in {1, 2} : In(p, q, DOMAIN k.queue[q])
                 THEN [k.tab[p] EXCEPT !.wait_ticks = @ + 1]
                 ELSE k.tab[p]
    IN  [k EXCEPT !.tab = [p \in Slots |-> Aged(p)],
                  !.queue = [q \in Levels |->
                      IF q = 2 THEN Stay(q) ELSE Stay(q) \o Up(q + 1)]]

WakeSleepersShort(k) ==                 \* mutant: the last slot is not visited
    LET Due == {p \in Slots \ {PROCESS_MAX - 1} : /\ k.tab[p].state = "SLEEPING"
                                                  /\ k.tab[p].sleep_left <= 1}
        Woken(p) ==
            IF p \in Due
            THEN [k.tab[p] EXCEPT !.state = "READY", !.sleep_left = 0,
                                  !.wait_ticks = 0]
            ELSE [k.tab[p] EXCEPT !.sleep_left = IF @ > 0 THEN @ - 1 ELSE 0]
    IN  [k EXCEPT !.tab = [p \in Slots |-> Woken(p)],
                  !.queue = [q \in Levels |-> @[q] \o
                                Sorted({p \in Due : k.tab[p].priority = q})]]

(* wake_sleepers, one tick later: due sleepers queue in slot order. *)
WakeSleepers(k) ==
    LET Due == {p \in Slots : /\ k.tab[p].state = "SLEEPING"
                              /\ k.tab[p].sleep_left <= 1}
        Woken(p) ==
            IF p \in Due
            THEN [k.tab[p] EXCEPT !.state = "READY", !.sleep_left = 0,
                                  !.wait_ticks = 0]
            ELSE IF k.tab[p].state = "SLEEPING"
                 THEN [k.tab[p] EXCEPT !.sleep_left = @ - 1]
                 ELSE k.tab[p]
    IN  [k EXCEPT !.tab = [p \in Slots |-> Woken(p)],
                  !.queue = [q \in Levels |-> @[q] \o
                      Sorted({p \in Due : /\ k.tab[p].priority = q
                                          /\ k.tab[p].pid # 0})]]

-----------------------------------------------------------------------------
(***************************************************************************)
(* The second half of schedule(): requeue the outgoing process if it can   *)
(* still run, dispatch next at its base priority with a full quantum.      *)
(* wait_ticks is cleared on the way out of the queue, not only on the next *)
(* way in.                                                                 *)
(***************************************************************************)
Requeued(k, p) ==
    [k EXCEPT !.tab[p] = [@ EXCEPT !.state = "READY",
                                   !.priority = k.tab[p].base_priority]]

Dispatch(k, p) ==
    [k EXCEPT !.tab[p] = [@ EXCEPT !.state = "RUNNING",
                                   !.priority = k.tab[p].base_priority,
                                   !.wait_ticks = 0],
              !.current = p,
              !.quantum_left = SCHED_QUANTUM_TICKS]

SwitchToStale(k, next) ==               \* mutant: prev keeps its state
    Dispatch(Enqueue(k, k.current), next)

SwitchTo(k, next) ==
    LET prev == k.current
        out  == IF k.tab[prev].state = "RUNNING"
                THEN Enqueue(Requeued(k, prev), prev)
                ELSE k
    IN  Dispatch(out, next)

(* schedule(), with pick_next inlined: next is chosen before the outgoing  *)
(* process is requeued.                                                    *)
Schedule(k) ==
    LET r     == Eager(ReapOrphans(k))
        Ready == {q \in Levels : r.queue[q] # <<>>}
        idle  == ByPid(r, 0)
        top   == Min(Ready)
    IN  IF Ready # {}
        THEN SwitchTo([r EXCEPT !.queue[top] = Tail(@)], Head(r.queue[top]))
        ELSE IF r.tab[r.current].state = "RUNNING"
             THEN [r EXCEPT !.quantum_left = SCHED_QUANTUM_TICKS]
             ELSE IF idle \in {None, r.current} THEN r
                  ELSE SwitchTo(r, idle)

SchedulerTickExpiry(k) ==               \* mutant: only an expired quantum preempts
    LET a == Eager(ApplyAging(Eager(WakeSleepers(k))))
        b == [a EXCEPT !.quantum_left = IF @ > 0 THEN @ - 1 ELSE @]
    IN  IF b.quantum_left = 0 \/ b.tab[b.current].pid = 0 THEN Schedule(b) ELSE b

(* scheduler_tick *)
SchedulerTick(k) ==
    LET a      == Eager(ApplyAging(Eager(WakeSleepers(k))))
        cur    == a.tab[a.current]
        higher == \E q \in Levels : /\ q < cur.priority \/ cur.pid = 0
                                    /\ a.queue[q] # <<>>
        b      == [a EXCEPT !.quantum_left = IF @ > 0 THEN @ - 1 ELSE @]
    IN  IF higher \/ b.quantum_left = 0 THEN Schedule(b) ELSE b

(* The wake-up of a waiting parent, common to process_exit and             *)
(* process_kill.                                                           *)
WakeParent(k, p) ==
    LET parent == ByPid(k, k.tab[p].ppid)
    IN  IF /\ parent # None
           /\ k.tab[parent].parent_waiting
           /\ k.tab[parent].state = "BLOCKED"
        THEN Unblock(k, parent)
        ELSE k
=============================================================================
