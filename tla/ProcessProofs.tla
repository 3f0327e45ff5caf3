--------------------------- MODULE ProcessProofs ---------------------------
(***************************************************************************)
(* For every table size, quantum, aging threshold and heap, and without    *)
(* the bounds on pids that TLC needs: the process subsystem keeps its      *)
(* types, runs exactly one process, and its ready queues hold exactly the  *)
(* READY processes; a tick never leaves the CPU below a waiting process.   *)
(***************************************************************************)
EXTENDS Process, SchedulerProofs

(* The default prover and its time limit; the leaves that are pure logic   *)
(* name Zenon instead.                                                     *)
USE SMTT(30)

(* The inductive invariant.  OneRunning and QueuesMatchStates alone are    *)
(* not inductive: schedule() finds a process to run only because the idle  *)
(* process is always there, alone has pid 0, and never blocks or exits.    *)
Good(kk) == Sound(kk, {}) /\ kk.tab[kk.current].state = "RUNNING"

IInv == TypeOK /\ next_pid # 0 /\ Good(k)

-----------------------------------------------------------------------------
(* A change of one PCB and of the heap. *)
LEMMA Updated ==
    ASSUME NEW kk \in KernelState, NEW p \in Slots, NEW b \in PCB,
           NEW f \in SUBSET Blocks
    PROVE  LET e == Update(kk, p, b, f)
           IN  /\ e \in KernelState /\ e.queue = kk.queue /\ e.current = kk.current
               /\ e.tab[p] = b
               /\ \A r \in Slots \ {p} : e.tab[r] = kk.tab[r]
<1> DEFINE t == [kk.tab EXCEPT ![p] = b]
           e == [kk EXCEPT !.tab = t, !.free = f]
<1>1. kk.tab \in [Slots -> PCB]
  BY StateParts
<1>2. /\ t \in [Slots -> PCB] /\ t[p] = b
      /\ \A r \in Slots \ {p} : t[r] = kk.tab[r]
  BY <1>1
<1>3. e = Update(kk, p, b, f)
  BY DEF KernelState, Update
<1> HIDE DEF t
<1>4. /\ e \in KernelState /\ e.queue = kk.queue /\ e.current = kk.current
      /\ e.tab = t
  BY <1>2, Zenon DEF KernelState
<1> HIDE DEF e
<1> QED BY <1>2, <1>3, <1>4

(* A process moves on inside a kernel call. *)
LEMMA LocalChange ==
    ASSUME NEW kk, Sound(kk, {}), NEW p \in Slots, NEW b \in PCB,
           NEW f \in SUBSET Blocks,
           b.state = kk.tab[p].state, b.priority = kk.tab[p].priority,
           b.pid = kk.tab[p].pid, p = Idle => b.pc = kk.tab[p].pc
    PROVE  LET e == Update(kk, p, b, f)
           IN  /\ Sound(e, {}) /\ e.current = kk.current
               /\ \A r \in Slots : e.tab[r].state = kk.tab[r].state
<1> DEFINE e == Update(kk, p, b, f)
<1>1. /\ kk \in KernelState /\ QueuesMatch(kk, {}) /\ IdleStands(kk)
      /\ \A r \in Slots : kk.tab[r].state = "RUNNING" => r = kk.current
  BY DEF Sound
<1>2. /\ e \in KernelState /\ e.queue = kk.queue /\ e.current = kk.current
      /\ e.tab[p] = b
      /\ \A r \in Slots \ {p} : e.tab[r] = kk.tab[r]
  BY <1>1, Updated
<1> HIDE DEF e
<1>3. \A r \in Slots : /\ e.tab[r].state = kk.tab[r].state
                       /\ e.tab[r].priority = kk.tab[r].priority
                       /\ e.tab[r].pid = kk.tab[r].pid
                       /\ r = Idle => e.tab[r].pc = kk.tab[r].pc
  BY <1>2
<1>4. QueuesMatch(e, {})
  BY <1>1, <1>2, <1>3, QuietChange
<1>5. IdleStands(e)
  BY <1>1, <1>2, <1>3, IdleIsSlot DEF IdleStands
<1>6. Sound(e, {})
  BY <1>1, <1>2, <1>3, <1>4, <1>5 DEF Sound
<1> QED BY <1>2, <1>3, <1>6 DEF e

(* A process stops: it exits, is killed, sleeps or blocks.  It is not      *)
(* linked any more.                                                        *)
LEMMA StopSound ==
    ASSUME NEW kk, NEW p \in Slots \ {Idle}, Sound(kk, {p}), NEW b \in PCB,
           NEW f \in SUBSET Blocks, kk.tab[p].state # "UNUSED",
           b.state \notin {"READY", "RUNNING", "UNUSED"}, b.pid = kk.tab[p].pid
    PROVE  LET e == Update(kk, p, b, f)
           IN  /\ Sound(e, {}) /\ e.current = kk.current /\ e.tab[p] = b
               /\ \A r \in Slots \ {p} : e.tab[r] = kk.tab[r]
<1> DEFINE e == Update(kk, p, b, f)
<1>1. /\ kk \in KernelState /\ QueuesMatch(kk, {p}) /\ IdleStands(kk)
      /\ \A r \in Slots : kk.tab[r].state = "RUNNING" => r = kk.current
  BY DEF Sound
<1>2. /\ e \in KernelState /\ e.queue = kk.queue /\ e.current = kk.current
      /\ e.tab[p] = b
      /\ \A r \in Slots \ {p} : e.tab[r] = kk.tab[r]
  BY <1>1, Updated
<1> HIDE DEF e
<1>3. QueuesMatch(e, {})
  <2>1. \A q \in Levels : ReadyAt(e, q) \ {} = ReadyAt(kk, q) \ {p}
    BY <1>2 DEF ReadyAt
  <2> QED BY <1>1, <1>2, <2>1 DEF QueuesMatch
<1>4. IdleStands(e)
  BY <1>1, <1>2, IdleIsSlot DEF IdleStands
<1>5. Sound(e, {})
  BY <1>1, <1>2, <1>3, <1>4 DEF Sound
<1> QED BY <1>2, <1>5 DEF e

(* A write to the PCB the null pointer stands for goes nowhere. *)
LEMMA UpdateNone ==
    ASSUME NEW kk \in KernelState, NEW b
    PROVE  Update(kk, None, b, kk.free) = kk
<1>1. None \notin Slots
  BY IdleIsSlot DEF None
<1> QED BY <1>1, Zenon DEF Update, KernelState

LEMMA FreeSlotFound ==
    ASSUME k \in KernelState, ~TableFull
    PROVE  FreeSlot \in Slots /\ k.tab[FreeSlot].state = "UNUSED"
<1> DEFINE S == {p \in Slots : k.tab[p].state = "UNUSED"}
<1>1. S \in SUBSET Nat /\ S # {}
  BY IdleIsSlot, Zenon DEF TableFull
<1>2. Min(S) \in S
  BY <1>1, MinOf
<1> QED BY <1>2 DEF FreeSlot

(* A new process is linked into the queue of its priority. *)
LEMMA SpawnSound ==
    ASSUME NEW kk, Sound(kk, {}), FreeSlot \in Slots,
           kk.tab[FreeSlot].state = "UNUSED",
           NEW b \in PCB, b.state = "READY", b.pid # 0
    PROVE  LET e == Spawn(kk, b)
           IN  /\ Sound(e, {}) /\ e.current = kk.current
               /\ \A r \in Slots \ {FreeSlot} : e.tab[r].state = kk.tab[r].state
<1> DEFINE p == FreeSlot
           e == Update(kk, p, b, kk.free)
<1>1. /\ kk \in KernelState /\ QueuesMatch(kk, {}) /\ IdleStands(kk)
      /\ \A r \in Slots : kk.tab[r].state = "RUNNING" => r = kk.current
      /\ kk.free \in SUBSET Blocks /\ p \in Slots
  BY StateParts DEF Sound
<1>2. p # Idle /\ kk.tab[p].state = "UNUSED"
  BY <1>1 DEF IdleStands
<1>3. Spawn(kk, b) = Enqueue(e, p)
  BY DEF Spawn
<1> HIDE DEF p
<1>4. /\ e \in KernelState /\ e.queue = kk.queue /\ e.current = kk.current
      /\ e.tab[p] = b
      /\ \A r \in Slots \ {p} : e.tab[r] = kk.tab[r]
  BY <1>1, Updated
<1> HIDE DEF e
<1>5. QueuesMatch(e, {p})
  <2>1. \A q \in Levels : ReadyAt(e, q) \ {p} = ReadyAt(kk, q) \ {}
    BY <1>2, <1>4 DEF ReadyAt
  <2> QED BY <1>1, <1>4, <2>1 DEF QueuesMatch
<1>6. IdleStands(e)
  BY <1>1, <1>2, <1>4, IdleIsSlot, Zenon DEF IdleStands
<1>7. Sound(e, {} \cup {p})
  <2>1. {} \cup {p} = {p}
    OBVIOUS
  <2> QED BY <1>1, <1>4, <1>5, <1>6, <2>1 DEF Sound
<1>8. /\ Sound(Enqueue(e, p), {}) /\ Enqueue(e, p).current = e.current
      /\ \A r \in Slots : Enqueue(e, p).tab[r].state = e.tab[r].state
  <2> DEFINE X == {}
  <2>1. p \in Slots \ {Idle} /\ p \notin X /\ Sound(e, X \cup {p})
        /\ e.tab[p].state = "READY"
    BY <1>1, <1>2, <1>4, <1>7
  <2> HIDE DEF X
  <2>2. /\ Sound(Enqueue(e, p), X) /\ Enqueue(e, p).current = e.current
        /\ \A r \in Slots : Enqueue(e, p).tab[r].state = e.tab[r].state
    BY <2>1, EnqueueSound
  <2> QED BY <2>2 DEF X
<1> QED BY <1>3, <1>4, <1>8 DEF p

(* kmalloc hands out a free block. *)
LEMMA KmallocFound ==
    ASSUME NEW free \in SUBSET Blocks, free # {}
    PROVE  Kmalloc(free) \in free
<1>1. free \in SUBSET Nat
  BY SchedulerAssumption DEF Blocks
<1> QED BY <1>1, MinOf DEF Kmalloc

(* With a slot unused, sys_fork's scan finds a pid: the slots in use carry *)
(* fewer pids than it may try, and one of them is 0.                       *)
LEMMA ForkPidFound ==
    ASSUME k \in KernelState, IdleStands(k), ~TableFull
    PROVE  ForkPid \in Nat \ {0}
<1> DEFINE N == PROCESS_MAX
           f == [p \in Slots |-> k.tab[p].pid]
           S == (1 .. N) \ PidsInUse(k)
<1>1. N \in Nat /\ Slots = 0 .. N - 1
  BY SchedulerAssumption DEF Slots
<1>2. S # {}
  <2> SUFFICES ASSUME S = {} PROVE FALSE
    OBVIOUS
  <2> DEFINE R == {f[p] : p \in Slots}
  <2>1. 0 .. N \subseteq R
    <3>1. PidsInUse(k) \subseteq R
      BY DEF PidsInUse
    <3>2. 0 \in R
      BY IdleIsSlot DEF IdleStands
    <3>3. 1 .. N \subseteq R
      BY <3>1
    <3> HIDE DEF R
    <3> QED BY <1>1, <3>2, <3>3
  <2>2. IsFiniteSet(Slots) /\ Cardinality(Slots) = N
    BY <1>1, FS_Interval
  <2>3. IsFiniteSet(R) /\ Cardinality(R) <= N
    <3>1. f \in Surjection(Slots, R)
      BY DEF Surjection
    <3> HIDE DEF f, R
    <3> QED BY <2>2, <3>1, FS_Surjection
  <2>4. IsFiniteSet(0 .. N) /\ Cardinality(0 .. N) = N + 1
    BY <1>1, FS_Interval
  <2> HIDE DEF R
  <2>5. Cardinality(0 .. N) <= Cardinality(R)
    BY <2>1, <2>3, FS_Subset, Zenon
  <2>6. Cardinality(R) \in Nat
    BY <2>3, FS_CardinalityType
  <2> QED BY <1>1, <2>3, <2>4, <2>5, <2>6
<1>3. S \in SUBSET Nat
  BY <1>1
<1>4. Min(S) \in S
  BY <1>2, <1>3, MinOf
<1>5. Min(S) \in 1 .. N
  BY <1>4
<1>6. ForkPid = Min(S)
  BY DEF ForkPid
<1> HIDE DEF S, N
<1> QED BY <1>1, <1>5, <1>6

-----------------------------------------------------------------------------
(* What the current process is. *)
LEMMA GoodParts ==
    ASSUME Good(k)
    PROVE  /\ Sound(k, {}) /\ k \in KernelState /\ IdleStands(k)
           /\ Self \in Slots /\ Me \in PCB /\ Me = k.tab[Self]
           /\ k.free \in SUBSET Blocks
           /\ Me.state = "RUNNING" /\ (Me.pc # "idle" => Self # Idle)
<1>1. k \in KernelState /\ IdleStands(k) /\ Sound(k, {})
  BY DEF Good, Sound
<1>2. /\ k.tab \in [Slots -> PCB] /\ k.current \in Slots
      /\ k.free \in SUBSET Blocks
  BY <1>1, StateParts
<1> QED BY <1>1, <1>2 DEF Good, Self, Me, IdleStands

(* The current process moves on inside a kernel call. *)
LEMMA GoodStep ==
    ASSUME Good(k), Me.pc # "idle", NEW b \in PCB, NEW f \in SUBSET Blocks,
           b.state = Me.state, b.priority = Me.priority, b.pid = Me.pid
    PROVE  /\ Good(Update(k, Self, b, f))
           /\ Update(k, Self, b, f).current = Self
           /\ \A r \in Slots : Update(k, Self, b, f).tab[r].state = k.tab[r].state
<1> DEFINE e == Update(k, Self, b, f)
<1>1. /\ Sound(k, {}) /\ Self \in Slots /\ Self # Idle /\ Me = k.tab[Self]
      /\ Me.state = "RUNNING" /\ Self = k.current
  BY GoodParts DEF Self
<1>2. /\ Sound(e, {}) /\ e.current = k.current
      /\ \A r \in Slots : e.tab[r].state = k.tab[r].state
  BY <1>1, LocalChange
<1> HIDE DEF e
<1>3. Good(e)
  BY <1>1, <1>2 DEF Good
<1> QED BY <1>1, <1>2, <1>3 DEF e

(* The current process stops, and schedule() finds another. *)
LEMMA GoodStop ==
    ASSUME Good(k), Me.pc # "idle", NEW b \in PCB, NEW f \in SUBSET Blocks,
           b.state \notin {"READY", "RUNNING", "UNUSED"}, b.pid = Me.pid
    PROVE  /\ Sound(Update(k, Self, b, f), {})
           /\ Update(k, Self, b, f).current = Self
           /\ Update(k, Self, b, f).tab[Self] = b
           /\ Good(Schedule(Update(k, Self, b, f)))
<1> DEFINE e == Update(k, Self, b, f)
<1>1. /\ Sound(k, {}) /\ Self \in Slots /\ Self # Idle /\ Me = k.tab[Self]
      /\ Me.state = "RUNNING" /\ Self = k.current
  BY GoodParts DEF Self
<1>2. Sound(k, {Self})
  <2> DEFINE X == {}
             p == Self
  <2>1. Sound(k, X) /\ k.tab[p].state # "READY"
    BY <1>1
  <2> HIDE DEF X, p
  <2>2. Sound(k, X \cup {p})
    BY <2>1, Exempt
  <2> QED BY <2>2 DEF X, p
<1>3. Sound(e, {}) /\ e.current = k.current /\ e.tab[Self] = b
  <2> DEFINE p == Self
  <2>1. /\ p \in Slots \ {Idle} /\ Sound(k, {p}) /\ k.tab[p].state # "UNUSED"
        /\ b.pid = k.tab[p].pid
    BY <1>1, <1>2
  <2> HIDE DEF p
  <2>2. LET g == Update(k, p, b, f)
        IN  Sound(g, {}) /\ g.current = k.current /\ g.tab[p] = b
    BY <2>1, StopSound
  <2> QED BY <2>2 DEF p
<1> HIDE DEF e
<1>4. Good(Schedule(e))
  BY <1>1, <1>3, ScheduleSound DEF Good
<1> QED BY <1>1, <1>3, <1>4 DEF e

-----------------------------------------------------------------------------
LEMMA PCBIdle ==
    ASSUME NEW b \in PCB
    PROVE  LET c == [b EXCEPT !.state = "RUNNING", !.priority = 2,
                              !.base_priority = 2, !.pc = "idle"]
           IN  c \in PCB /\ c.state = "RUNNING" /\ c.pid = b.pid /\ c.pc = "idle"
<1>1. "RUNNING" \in ProcState /\ 2 \in Levels /\ "idle" \in Points
  BY DEF ProcState, Levels, Points
<1> QED BY <1>1, Zenon DEF PCB

(* Boot leaves one RUNNING process, the idle one, and the shell queued. *)
LEMMA InitInv == Init => IInv
<1> SUFFICES ASSUME Init PROVE IInv
  OBVIOUS
<1> DEFINE t == [p \in Slots |-> CASE p = Idle  -> IdlePCB
                                   [] p = Shell -> ShellPCB
                                   [] OTHER     -> Unused]
           s == [q \in Levels |-> IF q = 0 THEN <<Shell>> ELSE <<>>]
<1>1. /\ Idle \in Slots /\ Shell \in Slots /\ Shell # Idle /\ 1 \in Blocks
      /\ SCHED_QUANTUM_TICKS \in 0 .. SCHED_QUANTUM_TICKS
  BY SchedulerAssumption DEF Slots, Idle, Shell, Blocks
<1>2. /\ Unused \in PCB /\ Unused.state = "UNUSED"
      /\ IdlePCB \in PCB /\ IdlePCB.state = "RUNNING" /\ IdlePCB.pid = 0
      /\ IdlePCB.pc = "idle"
  BY UnusedPCB, PCBIdle, Zenon DEF IdlePCB
<1>3. /\ ShellPCB \in PCB /\ ShellPCB.state = "READY" /\ ShellPCB.pid = 1
      /\ ShellPCB.priority = 0
  BY <1>1, UnusedPCB, Zenon DEF ShellPCB, PCB, ProcState, Levels, Points
<1>4. /\ t \in [Slots -> PCB] /\ t[Idle] = IdlePCB /\ t[Shell] = ShellPCB
      /\ \A p \in Slots \ {Idle, Shell} : t[p] = Unused
  BY <1>1, <1>2, <1>3
<1>5. /\ s \in [Levels -> Seq(Slots)] /\ s[0] = <<Shell>>
      /\ \A q \in Levels \ {0} : s[q] = <<>>
  BY <1>1 DEF Levels
<1> HIDE DEF t, s
<1>6. k = [tab |-> t, queue |-> s, current |-> Idle,
           quantum_left |-> SCHED_QUANTUM_TICKS, free |-> Blocks \ {1},
           torn |-> FALSE]
  BY DEF Init, t, s
<1>7. k \in KernelState /\ k.tab = t /\ k.queue = s /\ k.current = Idle
  BY <1>1, <1>4, <1>5, <1>6 DEF KernelState
<1>8. QueuesMatch(k, {})
  <2> SUFFICES ASSUME NEW q \in Levels
               PROVE  Once(s[q]) /\ Members(s[q]) = ReadyAt(k, q)
    BY <1>7 DEF QueuesMatch
  <2>1. CASE q = 0
    <3>1. s[q] = <<Shell>>
      BY <1>5, <2>1
    <3>2. DOMAIN s[q] = {1} /\ s[q][1] = Shell
      BY <3>1
    <3>3. ReadyAt(k, q) = {Shell}
      BY <1>1, <1>2, <1>3, <1>4, <1>7, <2>1 DEF ReadyAt
    <3> QED BY <3>2, <3>3 DEF Once, Members
  <2>2. CASE q # 0
    <3>1. DOMAIN s[q] = {}
      BY <1>5, <2>2
    <3>2. ReadyAt(k, q) = {}
      BY <1>1, <1>2, <1>3, <1>4, <1>7, <2>2 DEF ReadyAt
    <3> QED BY <3>1, <3>2 DEF Once, Members
  <2> QED BY <2>1, <2>2
<1>9. IdleStands(k)
  BY <1>1, <1>2, <1>3, <1>4, <1>7 DEF IdleStands
<1>10. Good(k)
  BY <1>1, <1>2, <1>3, <1>4, <1>7, <1>8, <1>9 DEF Good, Sound
<1>11. next_pid \in Nat /\ next_pid # 0
  <2>1. next_pid = 2
    BY DEF Init
  <2> QED BY <2>1
<1>12. started \in BOOLEAN /\ halted \in BOOLEAN /\ clash \in BOOLEAN
  BY Zenon DEF Init
<1> QED BY <1>7, <1>10, <1>11, <1>12 DEF IInv, TypeOK

-----------------------------------------------------------------------------
(* One lemma per operation: it leaves a good kernel state. *)
LEMMA CreateUserStackGood == Good(k) /\ create_user_stack => Good(k')
<1> SUFFICES ASSUME Good(k), create_user_stack PROVE Good(k')
  OBVIOUS
<1> DEFINE m == Kmalloc(k.free)
           b == [Me EXCEPT !.uloc = m, !.pc = "ucreate"]
           f == k.free \ {m}
<1>1. Me \in PCB /\ k.free \in SUBSET Blocks /\ Me.pc # "idle" /\ k.free # {}
  BY GoodParts DEF create_user_stack, At
<1>2. m \in Blocks
  BY <1>1, KmallocFound
<1>3. k' = Update(k, Self, b, f)
  BY DEF create_user_stack
<1> HIDE DEF m
<1>4. /\ b \in PCB /\ b.state = Me.state /\ b.priority = Me.priority
      /\ b.pid = Me.pid
  BY <1>1, <1>2, Zenon DEF PCB, Points
<1>5. f \in SUBSET Blocks
  BY <1>1
<1> HIDE DEF b, f
<1> QED BY <1>1, <1>3, <1>4, <1>5, GoodStep

LEMMA CreateKernelStackGood == Good(k) /\ create_kernel_stack => Good(k')
<1> SUFFICES ASSUME Good(k), create_kernel_stack PROVE Good(k')
  OBVIOUS
<1>1. Me \in PCB /\ k.free \in SUBSET Blocks /\ Me.pc # "idle"
  BY GoodParts DEF create_kernel_stack, At
<1>2. CASE k.free # {}
  <2> DEFINE m == Kmalloc(k.free)
             b == [Me EXCEPT !.kloc = m, !.pc = "create"]
             f == k.free \ {m}
  <2>1. m \in Blocks
    BY <1>1, <1>2, KmallocFound
  <2>2. k' = Update(k, Self, b, f)
    BY <1>2 DEF create_kernel_stack
  <2> HIDE DEF m
  <2>3. /\ b \in PCB /\ b.state = Me.state /\ b.priority = Me.priority
        /\ b.pid = Me.pid
    BY <1>1, <2>1, Zenon DEF PCB, Points
  <2>4. f \in SUBSET Blocks
    BY <1>1
  <2> HIDE DEF b, f
  <2> QED BY <1>1, <2>2, <2>3, <2>4, GoodStep
<1>3. CASE k.free = {}
  <2> DEFINE b == [Me EXCEPT !.pc = "unwind"]
  <2>1. k' = Update(k, Self, b, k.free)
    BY <1>3 DEF create_kernel_stack
  <2>2. /\ b \in PCB /\ b.state = Me.state /\ b.priority = Me.priority
        /\ b.pid = Me.pid
    BY <1>1 DEF PCB, Points
  <2> HIDE DEF b
  <2> QED BY <1>1, <2>1, <2>2, GoodStep
<1> QED BY <1>2, <1>3

LEMMA CreatePcbGood ==
    ASSUME Good(k), next_pid \in Nat \ {0}, create_pcb
    PROVE  Good(k')
<1>1. /\ Sound(k, {}) /\ k \in KernelState /\ Self \in Slots /\ Me \in PCB
      /\ k.free \in SUBSET Blocks /\ Me.pc # "idle" /\ Me.state = "RUNNING"
      /\ Me = k.tab[Self]
  BY GoodParts DEF create_pcb, At
<1>2. CASE TableFull
  <2> DEFINE b == [Me EXCEPT !.pc = "unwind"]
  <2>1. k' = Update(k, Self, b, k.free)
    BY <1>2 DEF create_pcb
  <2>2. /\ b \in PCB /\ b.state = Me.state /\ b.priority = Me.priority
        /\ b.pid = Me.pid
    BY <1>1 DEF PCB, Points
  <2> HIDE DEF b
  <2> QED BY <1>1, <2>1, <2>2, GoodStep
<1>3. CASE ~TableFull
  <2> DEFINE u == Update(k, Self, Creator, k.free)
  <2>1. PICK prio \in {1, 2} : k' = Spawn(u, Created(prio))
    BY <1>3 DEF create_pcb
  <2>2. FreeSlot \in Slots /\ k.tab[FreeSlot].state = "UNUSED"
    BY <1>1, <1>3, FreeSlotFound
  <2>3. /\ Creator \in PCB /\ Creator.state = Me.state
        /\ Creator.priority = Me.priority /\ Creator.pid = Me.pid
    <3> DEFINE c  == IF ForUser THEN FreeSlot ELSE None
               pc == IF ForUser THEN "fields" ELSE "run"
    <3>1. c \in Slots \cup {None} /\ pc \in Points
      BY <2>2 DEF Points
    <3>2. Creator = [Me EXCEPT !.kloc = NULL, !.kid = c, !.pc = pc]
      BY DEF Creator
    <3> HIDE DEF c, pc
    <3> QED BY <1>1, <3>1, <3>2, Zenon DEF PCB
  <2>4. /\ Created(prio) \in PCB /\ Created(prio).state = "READY"
        /\ Created(prio).pid # 0
    <3> DEFINE pc == IF ForUser THEN "tramp" ELSE "run"
               n  == next_pid
               m  == Me.pid
               q  == prio
               s  == Me.kloc
    <3>1. pc \in Points /\ q \in Levels
      BY DEF Points, Levels
    <3>2. m \in Nat /\ s \in Blocks \cup {NULL} /\ n \in Nat /\ n # 0
      BY <1>1 DEF PCB
    <3> DEFINE x == Unused
    <3>3. Created(prio) = [x EXCEPT !.state = "READY", !.pid = n, !.ppid = m,
                             !.priority = q, !.base_priority = q, !.kstack = s,
                             !.pc = pc]
      BY DEF Created
    <3>4. "READY" \in ProcState
      BY DEF ProcState
    <3>5. x \in PCB
      BY UnusedPCB
    <3> HIDE DEF pc, n, m, q, s, x
    <3>6. Created(prio) \in PCB
      <4> DEFINE y == [x EXCEPT !.state = "READY", !.pid = n, !.ppid = m]
                 z == [y EXCEPT !.priority = q, !.base_priority = q]
      <4>1. y \in PCB
        BY <3>2, <3>4, <3>5, Zenon DEF PCB
      <4>2. Created(prio) = [z EXCEPT !.kstack = s, !.pc = pc]
        BY <3>3, <3>5 DEF PCB
      <4> HIDE DEF y
      <4>3. z \in PCB
        BY <3>1, <4>1, Zenon DEF PCB
      <4> HIDE DEF z
      <4> QED BY <3>1, <3>2, <4>2, <4>3, Zenon DEF PCB
    <3>7. Created(prio).state = "READY" /\ Created(prio).pid # 0
      BY <3>2, <3>3, <3>5 DEF PCB
    <3> QED BY <3>6, <3>7
  <2>5. /\ Good(u) /\ u.current = Self
        /\ \A r \in Slots : u.tab[r].state = k.tab[r].state
    BY <1>1, <2>3, GoodStep
  <2> HIDE DEF u
  <2>6. /\ Sound(Spawn(u, Created(prio)), {})
        /\ Spawn(u, Created(prio)).current = u.current
        /\ \A r \in Slots \ {FreeSlot} :
              Spawn(u, Created(prio)).tab[r].state = u.tab[r].state
    BY <2>2, <2>4, <2>5, SpawnSound DEF Good
  <2>7. Self \in Slots \ {FreeSlot}
    BY <1>1, <2>2
  <2> QED BY <1>1, <2>1, <2>5, <2>6, <2>7 DEF Good
<1> QED BY <1>2, <1>3

LEMMA CreateUserFieldsGood ==
    ASSUME Good(k), create_user_fields
    PROVE  Good(k')
<1> DEFINE c     == Me.kid
           child == [k.tab[c] EXCEPT !.is_user = TRUE, !.ustack = Me.uloc,
                                     !.user_entry = TRUE]
           u     == Update(k, c, child, k.free)
           b     == [Me EXCEPT !.uloc = NULL, !.kid = None, !.pc = "run"]
<1>1. /\ Sound(k, {}) /\ k \in KernelState /\ Self \in Slots /\ Me \in PCB
      /\ k.free \in SUBSET Blocks /\ Me.pc # "idle" /\ Me.state = "RUNNING"
      /\ Me = k.tab[Self] /\ k.tab \in [Slots -> PCB] /\ Self # Idle
      /\ Self = k.current
  BY GoodParts, StateParts DEF create_user_fields, At, Self
<1>2. k' = Update(u, Self, b, k.free)
  BY DEF create_user_fields
<1>3. /\ c \in Slots \cup {None} /\ Me.uloc \in Blocks \cup {NULL}
      /\ None \in Slots \cup {None} /\ "run" \in Points
  BY <1>1 DEF PCB, Points
<1>4. /\ b \in PCB /\ b.state = Me.state /\ b.priority = Me.priority
      /\ b.pid = Me.pid
  BY <1>1, <1>3, Zenon DEF PCB
<1> HIDE DEF b
<1>5. /\ Sound(u, {}) /\ u.current = k.current
      /\ \A r \in Slots : /\ u.tab[r].state = k.tab[r].state
                           /\ u.tab[r].priority = k.tab[r].priority
                           /\ u.tab[r].pid = k.tab[r].pid
  <2>1. CASE c = None
    BY <1>1, <2>1, UpdateNone, Zenon
  <2>2. CASE c \in Slots
    <3>1. /\ child \in PCB /\ child.state = k.tab[c].state
          /\ child.priority = k.tab[c].priority /\ child.pid = k.tab[c].pid
          /\ child.pc = k.tab[c].pc
      <4> HIDE DEF c
      <4>1. k.tab[c] \in PCB
        BY <1>1, <2>2
      <4> QED BY <1>3, <4>1, Zenon DEF PCB
    <3> HIDE DEF child, c
    <3>2. /\ Sound(u, {}) /\ u.current = k.current
      BY <1>1, <2>2, <3>1, LocalChange
    <3>3. u.tab[c] = child /\ \A r \in Slots \ {c} : u.tab[r] = k.tab[r]
      BY <1>1, <2>2, <3>1, Updated
    <3> QED BY <3>1, <3>2, <3>3
  <2> QED BY <1>3, <2>1, <2>2
<1> HIDE DEF u
<1>6. LET e == Update(u, Self, b, k.free)
      IN  /\ Sound(e, {}) /\ e.current = u.current
          /\ \A r \in Slots : e.tab[r].state = u.tab[r].state
  BY <1>1, <1>4, <1>5, LocalChange
<1> QED BY <1>1, <1>2, <1>5, <1>6 DEF Good

LEMMA UnwindGood ==
    ASSUME Good(k), unwind
    PROVE  Good(k')
<1>1. Me \in PCB /\ k.free \in SUBSET Blocks /\ Me.pc # "idle"
  BY GoodParts DEF unwind, At
<1>2. Me.kloc \in Blocks \cup {NULL} /\ Me.uloc \in Blocks \cup {NULL}
  BY <1>1 DEF PCB
<1>3. Unwound \in Points /\ Me.pc \in Points
  BY <1>1 DEF Unwound, Points, PCB
<1>4. CASE Me.kloc # NULL
  <2> DEFINE pc == IF Me.uloc = NULL THEN Unwound ELSE Me.pc
             b  == [Me EXCEPT !.kloc = NULL, !.pc = pc]
             f  == k.free \cup {Me.kloc}
  <2>1. k' = Update(k, Self, b, f)
    BY <1>4 DEF unwind
  <2>2. pc \in Points
    BY <1>3
  <2> HIDE DEF pc
  <2>3. /\ b \in PCB /\ b.state = Me.state /\ b.priority = Me.priority
        /\ b.pid = Me.pid
    BY <1>1, <2>2, Zenon DEF PCB
  <2>4. f \in SUBSET Blocks
    BY <1>1, <1>2, <1>4
  <2> HIDE DEF b, f
  <2> QED BY <1>1, <2>1, <2>3, <2>4, GoodStep
<1>5. CASE Me.kloc = NULL
  <2> DEFINE b == [Me EXCEPT !.uloc = NULL, !.pc = Unwound]
             f == k.free \cup ({Me.uloc} \ {NULL})
  <2>1. k' = Update(k, Self, b, f)
    BY <1>5 DEF unwind
  <2>2. /\ b \in PCB /\ b.state = Me.state /\ b.priority = Me.priority
        /\ b.pid = Me.pid
    BY <1>1, <1>3, Zenon DEF PCB
  <2>3. f \in SUBSET Blocks
    BY <1>1, <1>2
  <2> HIDE DEF b, f
  <2> QED BY <1>1, <2>1, <2>2, <2>3, GoodStep
<1> QED BY <1>4, <1>5

LEMMA TrampolineGood ==
    ASSUME Good(k), user_process_trampoline
    PROVE  Good(k')
<1> DEFINE pc == IF Me.user_entry THEN "user" ELSE "wild"
           b  == [Me EXCEPT !.pc = pc]
<1>1. Me \in PCB /\ k.free \in SUBSET Blocks /\ Me.pc # "idle"
  BY GoodParts DEF user_process_trampoline, At
<1>2. k' = Update(k, Self, b, k.free)
  BY DEF user_process_trampoline
<1>3. pc \in Points
  BY DEF Points
<1> HIDE DEF pc
<1>4. /\ b \in PCB /\ b.state = Me.state /\ b.priority = Me.priority
      /\ b.pid = Me.pid
  BY <1>1, <1>3 DEF PCB
<1> HIDE DEF b
<1> QED BY <1>1, <1>2, <1>4, GoodStep

(* Bury makes a zombie of p. *)
LEMMA BuryPCB ==
    ASSUME NEW b \in PCB
    PROVE  LET c == [b EXCEPT !.state = "ZOMBIE", !.pc = "dead", !.ustack = NULL]
           IN  c \in PCB /\ c.state = "ZOMBIE" /\ c.pid = b.pid
<1>1. "ZOMBIE" \in ProcState /\ "dead" \in Points
  BY DEF ProcState, Points
<1> QED BY <1>1, Zenon DEF PCB

LEMMA ProcessExitGood ==
    ASSUME Good(k), process_exit
    PROVE  Good(k')
<1> DEFINE b == [Me EXCEPT !.state = "ZOMBIE", !.pc = "dead", !.ustack = NULL]
           f == k.free \cup ({Me.ustack} \ {NULL})
           z == Update(k, Self, b, f)
           w == WakeParent(z, Self)
<1>1. /\ Me \in PCB /\ k.free \in SUBSET Blocks /\ Me.pc # "idle"
      /\ Me = k.tab[Self]
  BY GoodParts DEF process_exit, At
<1>2. k' = Schedule(w)
  BY <1>1 DEF process_exit, Bury
<1>3. b \in PCB /\ b.state = "ZOMBIE" /\ b.pid = Me.pid
  BY <1>1, BuryPCB, Zenon
<1>4. f \in SUBSET Blocks
  <2>1. Me.ustack \in Blocks \cup {NULL}
    BY <1>1 DEF PCB
  <2> QED BY <1>1, <2>1
<1> HIDE DEF b, f
<1>5. Sound(z, {}) /\ z.current = Self /\ z.tab[Self] = b
  BY <1>1, <1>3, <1>4, GoodStop
<1> HIDE DEF z
<1>6. Sound(w, {}) /\ w.tab[w.current].state = "ZOMBIE"
  BY <1>3, <1>5, WakeParentSound
<1> HIDE DEF w
<1> QED BY <1>2, <1>6, ScheduleSound DEF Good

LEMMA ProcessKillGood ==
    ASSUME Good(k), NEW x \in Nat \ {0}, process_kill(x)
    PROVE  Good(k')
<1> DEFINE p == ByPid(k, x)
           d == Dequeue(k, p)
           b == [d.tab[p] EXCEPT !.state = "ZOMBIE", !.pc = "dead", !.ustack = NULL]
           f == d.free \cup ({d.tab[p].ustack} \ {NULL})
           z == Update(d, p, b, f)
           w == WakeParent(z, p)
<1>1. /\ Sound(k, {}) /\ k \in KernelState /\ IdleStands(k) /\ Self \in Slots
      /\ Me = k.tab[Self] /\ Me.state = "RUNNING" /\ Self = k.current
  BY GoodParts DEF Self
<1>2. p # None /\ x # Me.pid /\ k' = w
  BY DEF process_kill, Bury
<1>3. p \in Slots /\ k.tab[p].state # "UNUSED" /\ k.tab[p].pid = x
  BY <1>2, ByPidFound
<1>4. p # Idle /\ p # Self
  BY <1>1, <1>2, <1>3 DEF IdleStands
<1> HIDE DEF p
<1>5. Sound(d, {p}) /\ d.tab = k.tab /\ d.current = k.current
  <2>1. Sound(d, {p})
    BY <1>1, <1>3, DequeueSound
  <2>2. PICK s : d = [k EXCEPT !.queue = s]
    BY <1>1, <1>3, DequeueSound, Zenon
  <2> HIDE DEF d
  <2> QED BY <1>1, <2>1, <2>2 DEF KernelState
<1> HIDE DEF d
<1>6. d \in KernelState /\ d.tab[p] \in PCB /\ d.free \in SUBSET Blocks
  <2>1. d \in KernelState
    BY <1>5 DEF Sound
  <2> QED BY <1>3, <2>1, StateParts
<1>7. b \in PCB /\ b.state = "ZOMBIE" /\ b.pid = d.tab[p].pid
  BY <1>6, BuryPCB, Zenon
<1>8. f \in SUBSET Blocks
  <2>1. d.tab[p].ustack \in Blocks \cup {NULL}
    BY <1>6 DEF PCB
  <2> QED BY <1>6, <2>1
<1> HIDE DEF b, f
<1>9. /\ Sound(z, {}) /\ z.current = d.current
      /\ \A r \in Slots \ {p} : z.tab[r] = d.tab[r]
  <2>1. /\ p \in Slots \ {Idle} /\ d.tab[p].state # "UNUSED"
        /\ b.state \notin {"READY", "RUNNING", "UNUSED"}
    BY <1>3, <1>4, <1>5, <1>7
  <2> QED BY <1>5, <1>7, <1>8, <2>1, StopSound
<1> HIDE DEF z
<1>10. z.current = Self /\ z.tab[z.current].state = "RUNNING"
  BY <1>1, <1>4, <1>5, <1>9
<1>11. Sound(w, {}) /\ w.tab[w.current].state = "RUNNING"
  BY <1>9, <1>10, WakeParentSound
<1> QED BY <1>2, <1>11 DEF Good

LEMMA ProcessSleepGood ==
    ASSUME Good(k), NEW ticks \in Nat, process_sleep(ticks)
    PROVE  Good(k')
<1> DEFINE b == [Me EXCEPT !.state = "SLEEPING", !.sleep_left = ticks]
<1>1. Me \in PCB /\ k.free \in SUBSET Blocks /\ Me.pc # "idle"
  BY GoodParts DEF process_sleep, At
<1>2. k' = Schedule(Update(k, Self, b, k.free))
  BY DEF process_sleep
<1>3. b \in PCB /\ b.state = "SLEEPING" /\ b.pid = Me.pid
  <2>1. "SLEEPING" \in ProcState
    BY DEF ProcState
  <2> QED BY <1>1, <2>1, Zenon DEF PCB
<1> HIDE DEF b
<1> QED BY <1>1, <1>2, <1>3, GoodStop

LEMMA YieldGood ==
    ASSUME Good(k), scheduler_yield
    PROVE  Good(k')
<1> DEFINE e == [k EXCEPT !.quantum_left = 0]
<1>1. /\ Sound(k, {}) /\ k \in KernelState /\ Me.state = "RUNNING"
      /\ Me = k.tab[k.current]
  BY GoodParts DEF Self
<1>2. k' = Schedule(e)
  BY DEF scheduler_yield
<1>3. /\ e \in KernelState /\ e.tab = k.tab /\ e.queue = k.queue
      /\ e.current = k.current
  <2>1. 0 \in 0 .. SCHED_QUANTUM_TICKS
    BY SchedulerAssumption
  <2> QED BY <1>1, <2>1, Zenon DEF KernelState
<1> HIDE DEF e
<1>4. Sound(e, {})
  <2>1. QueuesMatch(e, {}) /\ IdleStands(e)
    BY <1>1, <1>3, QuietChange DEF IdleStands, Sound
  <2> QED BY <1>1, <1>3, <2>1 DEF Sound
<1> QED BY <1>1, <1>2, <1>3, <1>4, ScheduleSound DEF Good

LEMMA ForkGood ==
    ASSUME Good(k), sys_fork
    PROVE  Good(k')
<1> DEFINE ks == Kmalloc(k.free)
           us == Kmalloc(k.free \ {ks})
           f  == k.free \ {ks, us}
<1>1. /\ Sound(k, {}) /\ k \in KernelState /\ Self \in Slots /\ Me \in PCB
      /\ k.free \in SUBSET Blocks /\ Me.pc # "idle" /\ Me.state = "RUNNING"
      /\ Me = k.tab[Self] /\ IdleStands(k)
  BY GoodParts DEF sys_fork, At
<1>2. ks \in Blocks /\ us \in Blocks
  <2>1. IsFiniteSet(k.free) /\ Cardinality(k.free) >= 2
    <3>1. IsFiniteSet(Blocks)
      BY SchedulerAssumption, FS_Interval DEF Blocks
    <3> QED BY <1>1, <3>1, FS_Subset DEF sys_fork
  <2>2. k.free # {} /\ k.free \ {ks} # {}
    <3> HIDE DEF ks
    <3>1. k.free # {}
      BY <2>1, FS_EmptySet
    <3>2. SUFFICES ASSUME k.free \subseteq {ks} PROVE FALSE
      BY <3>1
    <3>3. IsFiniteSet({ks}) /\ Cardinality({ks}) = 1
      BY FS_Singleton
    <3>4. Cardinality(k.free) <= 1
      BY <3>2, <3>3, FS_Subset
    <3> QED BY <2>1, <3>4, FS_CardinalityType
  <2>3. ks \in k.free
    BY <1>1, <2>2, KmallocFound
  <2> HIDE DEF ks
  <2>4. k.free \ {ks} \in SUBSET Blocks
    BY <1>1
  <2>5. us \in k.free \ {ks}
    BY <2>2, <2>4, KmallocFound
  <2> QED BY <1>1, <2>3, <2>5
<1>3. f \in SUBSET Blocks
  BY <1>1
<1>4. CASE TableFull
  <2> DEFINE b == [Me EXCEPT !.kloc = ks, !.uloc = us, !.pc = "unwind"]
  <2>1. k' = Update(k, Self, b, f)
    BY <1>4 DEF sys_fork
  <2> HIDE DEF ks, us
  <2>2. /\ b \in PCB /\ b.state = Me.state /\ b.priority = Me.priority
        /\ b.pid = Me.pid
    <3>1. "unwind" \in Points
      BY DEF Points
    <3> QED BY <1>1, <1>2, <3>1, Zenon DEF PCB
  <2> HIDE DEF b, f
  <2> QED BY <1>1, <1>3, <2>1, <2>2, GoodStep
<1>5. CASE ~TableFull
  <2> DEFINE me == [Me EXCEPT !.kid = FreeSlot, !.pc = "forked"]
             u  == Update(k, Self, me, f)
             b  == [Me EXCEPT !.state = "READY", !.pid = ForkPid,
                              !.ppid = Me.pid, !.parent_waiting = FALSE,
                              !.wait_ticks = 0, !.kstack = ks, !.ustack = us]
  <2>1. k' = Spawn(u, b)
    BY <1>5 DEF sys_fork
  <2> HIDE DEF ks, us
  <2>2. FreeSlot \in Slots /\ k.tab[FreeSlot].state = "UNUSED"
    BY <1>1, <1>5, FreeSlotFound
  <2>3. /\ me \in PCB /\ me.state = Me.state /\ me.priority = Me.priority
        /\ me.pid = Me.pid
    <3>1. "forked" \in Points
      BY DEF Points
    <3> QED BY <1>1, <2>2, <3>1, Zenon DEF PCB
  <2>4. ForkPid \in Nat /\ ForkPid # 0
    BY <1>1, <1>5, ForkPidFound
  <2>5. b \in PCB /\ b.state = "READY" /\ b.pid = ForkPid
    <3>1. "READY" \in ProcState /\ Me.pid \in Nat
      BY <1>1 DEF ProcState, PCB
    <3> QED BY <1>1, <1>2, <2>4, <3>1, Zenon DEF PCB
  <2> HIDE DEF me, b, f
  <2>6. /\ Good(u) /\ u.current = Self
        /\ \A r \in Slots : u.tab[r].state = k.tab[r].state
    BY <1>1, <1>3, <2>3, GoodStep
  <2> HIDE DEF u
  <2>7. /\ Sound(Spawn(u, b), {}) /\ Spawn(u, b).current = u.current
        /\ \A r \in Slots \ {FreeSlot} : Spawn(u, b).tab[r].state = u.tab[r].state
    BY <2>2, <2>4, <2>5, <2>6, SpawnSound DEF Good
  <2>8. Self \in Slots \ {FreeSlot}
    BY <1>1, <2>2
  <2> QED BY <1>1, <2>1, <2>6, <2>7, <2>8 DEF Good
<1> QED BY <1>4, <1>5

LEMMA ForkReturnGood ==
    ASSUME Good(k), sys_fork_return
    PROVE  Good(k')
<1> DEFINE b == [Me EXCEPT !.kid = None, !.pc = "user"]
<1>1. Me \in PCB /\ k.free \in SUBSET Blocks /\ Me.pc # "idle"
  BY GoodParts DEF sys_fork_return, At
<1>2. k' = Update(k, Self, b, k.free)
  BY DEF sys_fork_return
<1>3. /\ b \in PCB /\ b.state = Me.state /\ b.priority = Me.priority
      /\ b.pid = Me.pid
  <2>1. "user" \in Points
    BY DEF Points
  <2> QED BY <1>1, <2>1, Zenon DEF PCB
<1> HIDE DEF b
<1> QED BY <1>1, <1>2, <1>3, GoodStep

LEMMA WaitResumeGood ==
    ASSUME Good(k), process_wait_resume
    PROVE  Good(k')
<1> DEFINE b == [Me EXCEPT !.parent_waiting = FALSE, !.pc = "rewait"]
<1>1. Me \in PCB /\ k.free \in SUBSET Blocks /\ Me.pc # "idle"
  BY GoodParts DEF process_wait_resume, At
<1>2. k' = Update(k, Self, b, k.free)
  BY DEF process_wait_resume
<1>3. /\ b \in PCB /\ b.state = Me.state /\ b.priority = Me.priority
      /\ b.pid = Me.pid
  <2>1. "rewait" \in Points
    BY DEF Points
  <2> QED BY <1>1, <2>1, Zenon DEF PCB
<1> HIDE DEF b
<1> QED BY <1>1, <1>2, <1>3, GoodStep

LEMMA WaitGood ==
    ASSUME Good(k), process_wait
    PROVE  Good(k')
<1> DEFINE b == [Me EXCEPT !.pc = "user"]
           u == Update(k, Self, b, k.free)
           z == ZombiesOf(k, Self)
           c == [Me EXCEPT !.parent_waiting = TRUE, !.state = "BLOCKED",
                           !.pc = "resume"]
<1>1. /\ Me \in PCB /\ k.free \in SUBSET Blocks /\ Me.pc # "idle"
      /\ Sound(k, {}) /\ Self \in Slots /\ Me = k.tab[Self]
      /\ Me.state = "RUNNING"
  BY GoodParts DEF process_wait, At
<1>2. \/ k' = u
      \/ z # {} /\ k' = Release(u, {Min(z)})
      \/ k' = Schedule(Update(k, Self, c, k.free))
  BY DEF process_wait
<1>3. /\ b \in PCB /\ b.state = Me.state /\ b.priority = Me.priority
      /\ b.pid = Me.pid
  <2>1. "user" \in Points
    BY DEF Points
  <2> QED BY <1>1, <2>1 DEF PCB
<1>4. c \in PCB /\ c.state = "BLOCKED" /\ c.pid = Me.pid
  <2>1. "BLOCKED" \in ProcState /\ "resume" \in Points
    BY DEF ProcState, Points
  <2> QED BY <1>1, <2>1, Zenon DEF PCB
<1> HIDE DEF b, c
<1>5. /\ Good(u) /\ u.current = Self
      /\ \A r \in Slots : u.tab[r].state = k.tab[r].state
  BY <1>1, <1>3, GoodStep
<1> HIDE DEF u
<1>6. CASE k' = u
  BY <1>5, <1>6
<1>7. CASE z # {} /\ k' = Release(u, {Min(z)})
  <2> DEFINE X == {Min(z)}
  <2>1. z \subseteq Slots /\ \A r \in z : r # Self /\ k.tab[r].state = "ZOMBIE"
    BY DEF ZombiesOf, ChildrenOf
  <2> HIDE DEF z
  <2>2. Min(z) \in z
    <3>1. z \in SUBSET Nat
      BY <2>1 DEF Slots
    <3> QED BY <1>7, <3>1, MinOf
  <2>3. X \subseteq Slots /\ \A r \in X : u.tab[r].state = "ZOMBIE"
    BY <1>5, <2>1, <2>2
  <2>5. k' = Release(u, X)
    BY <1>7
  <2> HIDE DEF X
  <2>6. /\ Sound(Release(u, X), {})
        /\ Release(u, X).tab[Release(u, X).current] = u.tab[u.current]
    <3>1. Sound(u, {}) /\ X \in SUBSET Slots
      BY <1>5, <2>3 DEF Good
    <3> QED BY <2>3, <3>1, ReleaseSound
  <2> QED BY <1>5, <2>5, <2>6 DEF Good
<1>8. CASE k' = Schedule(Update(k, Self, c, k.free))
  BY <1>1, <1>4, <1>8, GoodStop
<1> QED BY <1>2, <1>6, <1>7, <1>8

LEMMA TimerGood ==
    ASSUME Good(k), timer_handler
    PROVE  Good(k')
BY SchedulerTickSound DEF timer_handler, Good

(* A step changes the kernel state the way its action's lemma says. *)
LEMMA StepGood ==
    ASSUME IInv, Next
    PROVE  Good(k')
<1>1. Good(k) /\ next_pid \in Nat \ {0}
  BY DEF IInv, TypeOK
<1>2. CASE UNCHANGED k
  BY <1>1, <1>2 DEF Good
<1>3. CASE timer_handler
  BY <1>1, <1>3, TimerGood
<1>4. CASE create_user_stack
  BY <1>1, <1>4, CreateUserStackGood
<1>5. CASE create_kernel_stack
  BY <1>1, <1>5, CreateKernelStackGood
<1>6. CASE create_pcb
  BY <1>1, <1>6, CreatePcbGood
<1>7. CASE create_user_fields
  BY <1>1, <1>7, CreateUserFieldsGood
<1>8. CASE unwind
  BY <1>1, <1>8, UnwindGood
<1>9. CASE user_process_trampoline
  BY <1>1, <1>9, TrampolineGood
<1>10. CASE process_exit
  BY <1>1, <1>10, ProcessExitGood
<1>11. ASSUME NEW x \in 1 .. MaxPid + PROCESS_MAX, process_kill(x)
       PROVE  Good(k')
  <2>1. x \in Nat \ {0}
    BY ProcessAssumption, SchedulerAssumption
  <2> QED BY <1>1, <1>11, <2>1, ProcessKillGood
<1>12. ASSUME NEW ticks \in 0 .. MaxSleepTicks, process_sleep(ticks)
       PROVE  Good(k')
  <2>1. ticks \in Nat
    BY ProcessAssumption
  <2> QED BY <1>1, <1>12, <2>1, ProcessSleepGood
<1>13. CASE scheduler_yield
  BY <1>1, <1>13, YieldGood
<1>14. CASE sys_fork
  BY <1>1, <1>14, ForkGood
<1>15. CASE sys_fork_return
  BY <1>1, <1>15, ForkReturnGood
<1>16. CASE process_wait
  BY <1>1, <1>16, WaitGood
<1>17. CASE process_wait_resume
  BY <1>1, <1>17, WaitResumeGood
<1>18. scheduler_start \/ exception_handler \/ HaltLoop => UNCHANGED k
  BY DEF scheduler_start, exception_handler, HaltLoop, vars
<1> QED BY <1>2, <1>3, <1>4, <1>5, <1>6, <1>7, <1>8, <1>9, <1>10, <1>11, <1>12,
           <1>13, <1>14, <1>15, <1>16, <1>17, <1>18 DEF Next

(* The other variables. *)
LEMMA StepRest ==
    ASSUME IInv, Next
    PROVE  /\ next_pid' \in Nat \ {0}
           /\ started' \in BOOLEAN /\ halted' \in BOOLEAN /\ clash' \in BOOLEAN
<1>1. /\ next_pid \in Nat \ {0}
      /\ started \in BOOLEAN /\ halted \in BOOLEAN /\ clash \in BOOLEAN
  BY DEF IInv, TypeOK
<1>2. next_pid' = next_pid \/ next_pid' = next_pid + 1
  BY Zenon DEF Next, scheduler_start, timer_handler, create_user_stack,
         create_kernel_stack, create_pcb, create_user_fields, unwind,
         user_process_trampoline, exception_handler, HaltLoop, process_exit,
         process_kill, process_sleep, scheduler_yield, sys_fork,
         sys_fork_return, process_wait, process_wait_resume, vars
<1>3. started' = started \/ started' = TRUE
  BY Zenon DEF Next, scheduler_start, timer_handler, create_user_stack,
         create_kernel_stack, create_pcb, create_user_fields, unwind,
         user_process_trampoline, exception_handler, HaltLoop, process_exit,
         process_kill, process_sleep, scheduler_yield, sys_fork,
         sys_fork_return, process_wait, process_wait_resume, vars
<1>4. halted' = halted \/ halted' = TRUE
  BY Zenon DEF Next, scheduler_start, timer_handler, create_user_stack,
         create_kernel_stack, create_pcb, create_user_fields, unwind,
         user_process_trampoline, exception_handler, HaltLoop, process_exit,
         process_kill, process_sleep, scheduler_yield, sys_fork,
         sys_fork_return, process_wait, process_wait_resume, vars
<1>5. clash' = clash \/ clash' = (clash \/ Duplicate(k'))
  BY Zenon DEF Next, scheduler_start, timer_handler, create_user_stack,
         create_kernel_stack, create_pcb, create_user_fields, unwind,
         user_process_trampoline, exception_handler, HaltLoop, process_exit,
         process_kill, process_sleep, scheduler_yield, sys_fork,
         sys_fork_return, process_wait, process_wait_resume, vars
<1>6. next_pid' \in Nat \ {0}
  BY <1>1, <1>2
<1>7. started' \in BOOLEAN /\ halted' \in BOOLEAN
  BY <1>1, <1>3, <1>4, Zenon
<1>8. clash' \in BOOLEAN
  BY <1>1, <1>5, Zenon
<1> QED BY <1>6, <1>7, <1>8

LEMMA StepInv == IInv /\ [Next]_vars => IInv'
<1>1. ASSUME IInv, Next PROVE IInv'
  <2>1. Good(k')
    BY <1>1, StepGood
  <2>2. k' \in KernelState
    BY <2>1 DEF Good, Sound
  <2>3. /\ next_pid' \in Nat \ {0}
        /\ started' \in BOOLEAN /\ halted' \in BOOLEAN /\ clash' \in BOOLEAN
    BY <1>1, StepRest
  <2> QED BY <2>1, <2>2, <2>3 DEF IInv, TypeOK, Good
<1>2. ASSUME IInv, UNCHANGED vars PROVE IInv'
  BY <1>2 DEF IInv, TypeOK, Good, vars
<1> QED BY <1>1, <1>2

(* The inductive invariant holds in every reachable state. *)
THEOREM Invariance == Spec => []IInv
<1>1. Init => IInv
  BY InitInv
<1>2. IInv /\ [Next]_vars => IInv'
  BY StepInv
<1> QED BY <1>1, <1>2, PTL DEF Spec

(* Every field of the process table and every scheduler variable keeps its *)
(* type, whatever processes are created, forked, killed and scheduled.     *)
THEOREM TypeCorrect == Spec => []TypeOK
<1>1. IInv => TypeOK
  BY DEF IInv
<1> QED BY <1>1, Invariance, PTL

(* schedule(), with its exits, blocks and preemptions, keeps exactly one   *)
(* process RUNNING: the one current_process points to.                     *)
THEOREM AlwaysOneRunning == Spec => []OneRunning
<1>1. IInv => OneRunning
  BY DEF IInv, Good, Sound, OneRunning
<1> QED BY <1>1, Invariance, PTL

(* The ready queues hold exactly the READY processes, each once and at the *)
(* level of its priority: enqueue, dequeue, pick_next, apply_aging and the *)
(* wake-ups never lose a process or link it twice.                         *)
THEOREM QueuesAlwaysMatch == Spec => []QueuesMatchStates
<1>1. IInv => QueuesMatchStates
  BY DEF IInv, Good, Sound, QueuesMatchStates
<1> QED BY <1>1, Invariance, PTL

(* A tick never leaves the CPU below a process that was queued above the   *)
(* running one, although wake_sleepers and apply_aging change the queues   *)
(* and pick_next leaves the preempted process out.                         *)
THEOREM TicksRunHigher == Spec => HigherRunsAtTick
<1> DEFINE A == timer_handler =>
                   \A q \in Levels :
                      /\ q < k.tab[k.current].priority \/ k.current = Idle
                      /\ k.queue[q] # <<>>
                      => k.tab[k'.current].priority <= q
<1>1. IInv /\ [Next]_vars => [A]_vars
  <2> SUFFICES ASSUME IInv, timer_handler PROVE A
    OBVIOUS
  <2>1. Sound(k, {}) /\ k.tab[k.current].state = "RUNNING" /\ k' = SchedulerTick(k)
    BY DEF IInv, Good, timer_handler
  <2> QED BY <2>1, TickRunsHigher
<1> HIDE DEF A
<1>2. Spec => [][A]_vars
  BY <1>1, Invariance, PTL DEF Spec
<1> QED BY <1>2 DEF A, HigherRunsAtTick
=============================================================================
