------------------------------ MODULE Process ------------------------------
(***************************************************************************)
(* The process subsystem in action: kernel/kernel.c boots it, the timer    *)
(* interrupt of drivers/timer.c drives it, the shell commands of           *)
(* kernel/proc_commands.c and the system calls of kernel/syscall.c use     *)
(* process/process.c.                                                      *)
(*                                                                         *)
(* Only one process executes at a time, the current one.  Its steps are    *)
(* separated by the points where interrupts are enabled; a timer interrupt *)
(* may arrive at each of them.  pc tells where a process stands:           *)
(*    "idle"    kmain's final hlt loop                                     *)
(*    "run"     a kernel thread: the shell, or a worker of cmd_spawn       *)
(*    "ucreate" the shell in process_create_user, holding the user stack   *)
(*    "create"  the shell in process_create, holding the kernel stack      *)
(*    "forked"  sys_fork past its critical section, about to return        *)
(*    "fields"  the shell back in process_create_user with the new PCB     *)
(*    "unwind"  about to kfree the stacks held in locals (error path)      *)
(*    "tramp"   a user process in user_process_trampoline                  *)
(*    "user"    a user process in ring 3                                   *)
(*    "wild"    ring 3 at address 0 with a null stack pointer              *)
(*    "resume"  switched back to inside process_wait, interrupts off       *)
(*    "rewait"  about to start the next round of process_wait's loop       *)
(*    "dead"    exited or killed                                           *)
(* The shell is the only caller of process_create, process_create_user and *)
(* process_kill; it never exits and refuses to kill its own pid.           *)
(***************************************************************************)
EXTENDS Scheduler

CONSTANTS MaxPid,          \* bound: process_create stops at this next_pid
          MaxSleepTicks    \* bound: longest sleep, in ticks

ASSUME ProcessAssumption == MaxPid \in Nat \ {0} /\ MaxSleepTicks \in Nat \ {0}

VARIABLES k,          \* the kernel state that the operators of Scheduler map
          next_pid,
          started,    \* scheduler_start() has run
          halted,     \* exception_handler's final cli; hlt loop
          clash       \* history: two slots in use have carried one pid

vars == <<k, next_pid, started, halted, clash>>

Shell == 1                 \* the slot of the shell

Self == k.current
Me   == k.tab[k.current]

(* The current process stands at one of the given points. *)
At(points) == started /\ ~halted /\ Me.pc \in points

PidsInUse(kk) == {kk.tab[p].pid : p \in {s \in Slots : kk.tab[s].state # "UNUSED"}}

Duplicate(kk) ==
    \E p, s \in Slots : /\ p # s /\ kk.tab[p].pid = kk.tab[s].pid
                        /\ "UNUSED" \notin {kk.tab[p].state, kk.tab[s].state}

(* kmalloc is first fit over equal blocks: it returns the lowest. *)
Kmalloc(free) == Min(free)

(* PCB b is written to slot p, and free is left of the heap. *)
Update(kk, p, b, free) == [kk EXCEPT !.tab[p] = b, !.free = free]

FreeSlot == Min({p \in Slots : k.tab[p].state = "UNUSED"})
TableFull == \A p \in Slots : k.tab[p].state # "UNUSED"

(* The new process b enters the first unused slot and is queued. *)
Spawn(kk, b) == Enqueue(Update(kk, FreeSlot, b, kk.free), FreeSlot)
-----------------------------------------------------------------------------
(***************************************************************************)
(* Boot: process_init has adopted kmain as the idle process, kmain has     *)
(* created the shell and is about to start the scheduler.                  *)
(***************************************************************************)
IdlePCB == [Unused EXCEPT !.state = "RUNNING", !.priority = 2,
                          !.base_priority = 2, !.pc = "idle"]

ShellPCB == [Unused EXCEPT !.state = "READY", !.pid = 1, !.kstack = 1,
                           !.pc = "run"]

Init ==
    /\ k = [tab |-> [p \in Slots |-> CASE p = Idle  -> IdlePCB
                                       [] p = Shell -> ShellPCB
                                       [] OTHER     -> Unused],
            queue |-> [q \in Levels |-> IF q = 0 THEN <<Shell>> ELSE <<>>],
            current |-> Idle, quantum_left |-> SCHED_QUANTUM_TICKS,
            free |-> Blocks \ {1}, torn |-> FALSE]
    /\ next_pid = 2
    /\ started = FALSE
    /\ halted = FALSE
    /\ clash = FALSE

scheduler_start ==
    /\ ~started
    /\ started' = TRUE
    /\ UNCHANGED <<k, next_pid, halted, clash>>

(* The running code accepts interrupts: a process resumed inside           *)
(* process_wait has not reached its sti yet.                               *)
InterruptsOn == started /\ ~halted /\ Me.pc # "resume"

(* timer_handler: IRQ 0 is taken whenever interrupts are enabled.  Before  *)
(* scheduler_start it changes nothing.                                     *)
timer_handler ==
    /\ InterruptsOn
    /\ k' = SchedulerTick(k)
    /\ UNCHANGED <<next_pid, started, halted, clash>>

-----------------------------------------------------------------------------
(***************************************************************************)
(* process_create and process_create_user, as the shell runs them.  A      *)
(* kmalloc that fails before anything else was allocated changes nothing.  *)
(***************************************************************************)
create_user_stack ==
    /\ At({"run"}) /\ Self = Shell
    /\ next_pid <= MaxPid
    /\ k.free # {}
    /\ LET b == Kmalloc(k.free)
       IN  k' = Update(k, Self, [Me EXCEPT !.uloc = b, !.pc = "ucreate"],
                       k.free \ {b})
    /\ UNCHANGED <<next_pid, started, halted, clash>>

create_kernel_stack ==
    /\ At({"run", "ucreate"}) /\ Self = Shell
    /\ next_pid <= MaxPid
    /\ \/ /\ k.free # {}
          /\ LET b == Kmalloc(k.free)
             IN  k' = Update(k, Self, [Me EXCEPT !.kloc = b, !.pc = "create"],
                             k.free \ {b})
       \/ /\ k.free = {} /\ Me.pc = "ucreate"
          /\ k' = Update(k, Self, [Me EXCEPT !.pc = "unwind"], k.free)
    /\ UNCHANGED <<next_pid, started, halted, clash>>

(* alloc_pcb and the rest of process_create's critical section.            *)
(* cmd_spawn creates NORMAL and LOW workers, user programs are NORMAL.     *)
ForUser == Me.uloc # NULL        \* called from process_create_user

CreatedByIdle(prio) ==                  \* mutant: ppid is not set
    [Unused EXCEPT !.state = "READY", !.pid = next_pid, !.priority = prio,
                   !.base_priority = prio, !.kstack = Me.kloc,
                   !.pc = IF ForUser THEN "tramp" ELSE "run"]

Created(prio) ==
    [Unused EXCEPT !.state = "READY", !.pid = next_pid, !.ppid = Me.pid,
                   !.priority = prio, !.base_priority = prio,
                   !.kstack = Me.kloc,
                   !.pc = IF ForUser THEN "tramp" ELSE "run"]

Creator ==
    [Me EXCEPT !.kloc = NULL, !.kid = IF ForUser THEN FreeSlot ELSE None,
               !.pc = IF ForUser THEN "fields" ELSE "run"]

create_pcb ==
    /\ At({"create"})
    /\ \/ /\ TableFull
          /\ k' = Update(k, Self, [Me EXCEPT !.pc = "unwind"], k.free)
          /\ UNCHANGED <<next_pid, clash>>
       \/ /\ ~TableFull
          /\ \E prio \in {1, 2} :
                /\ ForUser => prio = 1
                /\ k' = Spawn(Update(k, Self, Creator, k.free), Created(prio))
          /\ next_pid' = next_pid + 1
          /\ clash' = (clash \/ Duplicate(k'))
    /\ UNCHANGED <<started, halted>>

(* process_create_user after process_create has returned, interrupts on. *)
create_user_fields ==
    /\ At({"fields"})
    /\ LET child == [k.tab[Me.kid] EXCEPT !.is_user = TRUE, !.ustack = Me.uloc,
                                          !.user_entry = TRUE]
       IN  k' = Update(Update(k, Me.kid, child, k.free), Self,
                       [Me EXCEPT !.uloc = NULL, !.kid = None, !.pc = "run"], k.free)
    /\ UNCHANGED <<next_pid, started, halted, clash>>

(* The kfree calls after a failed process_create, process_create_user or   *)
(* sys_fork: interrupts have been enabled again, also between the two.     *)
Unwound == IF Self = Shell THEN "run" ELSE "user"

unwind_kernel_stack ==                  \* mutant: the user stack is forgotten
    /\ At({"unwind"})
    /\ k' = Update(k, Self, [Me EXCEPT !.kloc = NULL, !.uloc = NULL, !.pc = Unwound],
                   k.free \cup ({Me.kloc} \ {NULL}))
    /\ UNCHANGED <<next_pid, started, halted, clash>>

unwind ==
    /\ At({"unwind"})
    /\ \/ /\ Me.kloc # NULL
          /\ k' = Update(k, Self,
                         [Me EXCEPT !.kloc = NULL,
                                    !.pc = IF Me.uloc = NULL THEN Unwound ELSE @],
                         k.free \cup {Me.kloc})
       \/ /\ Me.kloc = NULL
          /\ k' = Update(k, Self, [Me EXCEPT !.uloc = NULL, !.pc = Unwound],
                         k.free \cup ({Me.uloc} \ {NULL}))
    /\ UNCHANGED <<next_pid, started, halted, clash>>
-----------------------------------------------------------------------------
(* user_process_trampoline enters ring 3 with what the PCB holds now. *)
user_process_trampoline ==
    /\ At({"tramp"})
    /\ k' = Update(k, Self, [Me EXCEPT !.pc = IF Me.user_entry THEN "user"
                                              ELSE "wild"], k.free)
    /\ UNCHANGED <<next_pid, started, halted, clash>>

(* Ring 3 at address 0 with ESP 0 executes whatever bytes lie there: it    *)
(* runs on until a timer interrupt takes the CPU away, or it faults and    *)
(* exception_handler halts the machine for good.                           *)
exception_handler ==
    /\ At({"wild"})
    /\ halted' = TRUE
    /\ UNCHANGED <<k, next_pid, started, clash>>

HaltLoop == halted /\ UNCHANGED vars

BuryDangling(kk, p) ==                  \* mutant: ustack not cleared
    Update(kk, p, [kk.tab[p] EXCEPT !.state = "ZOMBIE", !.pc = "dead"],
           kk.free \cup ({kk.tab[p].ustack} \ {NULL}))

(* What process_exit and process_kill do to the process itself. *)
Bury(kk, p) ==
    Update(kk, p, [kk.tab[p] EXCEPT !.state = "ZOMBIE", !.pc = "dead",
                                    !.ustack = NULL],
           kk.free \cup ({kk.tab[p].ustack} \ {NULL}))

(* process_exit: a worker returns from its entry, or SYS_EXIT. *)
process_exit ==
    /\ At({"run", "user"}) /\ Self # Shell
    /\ k' = Schedule(WakeParent(Bury(k, Self), Self))
    /\ UNCHANGED <<next_pid, started, halted, clash>>

process_kill_silent(x) ==               \* mutant: the parent is not woken
    /\ At({"run"}) /\ Self = Shell
    /\ x \notin {0, Me.pid}
    /\ LET p == ByPid(k, x)
       IN  /\ p # None
           /\ k.tab[p].state # "ZOMBIE"
           /\ k' = Bury(Dequeue(k, p), p)
    /\ UNCHANGED <<next_pid, started, halted, clash>>

(* process_kill, called by cmd_kill with a pid other than the shell's. *)
process_kill(x) ==
    /\ At({"run"}) /\ Self = Shell
    /\ x \notin {0, Me.pid}
    /\ LET p == ByPid(k, x)
       IN  /\ p # None
           /\ k.tab[p].state # "ZOMBIE"
           /\ k' = WakeParent(Bury(Dequeue(k, p), p), p)
    /\ UNCHANGED <<next_pid, started, halted, clash>>

process_sleep_short(ticks) ==           \* mutant: off by one
    /\ At({"run", "user"})
    /\ ticks = 0 => Me.pc = "user"
    /\ k' = Schedule(Update(k, Self, [Me EXCEPT !.state = "SLEEPING",
                                                !.sleep_left = ticks - 1], k.free))
    /\ UNCHANGED <<next_pid, started, halted, clash>>

(* process_sleep: the rounding (ms + 9) / 10 wraps to 0 ticks for the      *)
(* largest ms; only SYS_SLEEP passes such values.                          *)
process_sleep(ticks) ==
    /\ At({"run", "user"})
    /\ ticks = 0 => Me.pc = "user"
    /\ k' = Schedule(Update(k, Self, [Me EXCEPT !.state = "SLEEPING",
                                                !.sleep_left = ticks], k.free))
    /\ UNCHANGED <<next_pid, started, halted, clash>>

(* scheduler_yield: SYS_YIELD, or a sleep of 0 ms. *)
scheduler_yield ==
    /\ At({"run", "user"})
    /\ Me.pc = "run" => Self = Shell
    /\ k' = Schedule([k EXCEPT !.quantum_left = 0])
    /\ UNCHANGED <<next_pid, started, halted, clash>>
-----------------------------------------------------------------------------
(* sys_fork's pid: the lowest positive one that no slot in use carries. *)
ForkPid == Min((1 .. PROCESS_MAX) \ PidsInUse(k))

(***************************************************************************)
(* sys_fork.  Both kmallocs and the rollback of a failed second one happen *)
(* with interrupts off; without a free slot the stacks are freed only      *)
(* after interrupts are enabled.                                           *)
(***************************************************************************)
sys_fork ==
    /\ At({"user"})
    /\ Me.is_user /\ Me.ustack # NULL
    /\ Cardinality(k.free) >= 2
    /\ LET ks == Kmalloc(k.free)
           us == Kmalloc(k.free \ {ks})
       IN  \/ /\ TableFull
              /\ k' = Update(k, Self, [Me EXCEPT !.kloc = ks, !.uloc = us,
                                                 !.pc = "unwind"],
                             k.free \ {ks, us})
              /\ UNCHANGED clash
           \/ /\ ~TableFull
              /\ LET me == [Me EXCEPT !.kid = FreeSlot, !.pc = "forked"]
                 IN  k' = Spawn(Update(k, Self, me, k.free \ {ks, us}),
                                [Me EXCEPT
                                   !.state = "READY", !.pid = ForkPid,
                                   !.ppid = Me.pid, !.parent_waiting = FALSE,
                                   !.wait_ticks = 0, !.kstack = ks, !.ustack = us])
              /\ clash' = (clash \/ Duplicate(k'))
    /\ UNCHANGED <<next_pid, started, halted>>

(* The end of sys_fork: the parent reads child->pid, interrupts on. *)
sys_fork_return ==
    /\ At({"forked"})
    /\ k' = Update(k, Self, [Me EXCEPT !.kid = None, !.pc = "user"], k.free)
    /\ UNCHANGED <<next_pid, started, halted, clash>>

(***************************************************************************)
(* process_wait: one round of its loop, and what the process does when the *)
(* scheduler switches back to it.                                          *)
(***************************************************************************)
ChildrenOf(kk, p) ==
    {c \in Slots \ {p} : /\ kk.tab[c].state # "UNUSED"
                         /\ kk.tab[c].ppid = kk.tab[p].pid}

ZombiesOf(kk, p) == {c \in ChildrenOf(kk, p) : kk.tab[c].state = "ZOMBIE"}

process_wait ==
    /\ At({"user", "rewait"})
    /\ \/ /\ ZombiesOf(k, Self) # {}
          /\ k' = Release(Update(k, Self, [Me EXCEPT !.pc = "user"], k.free),
                          {Min(ZombiesOf(k, Self))})
       \/ /\ ChildrenOf(k, Self) = {}
          /\ k' = Update(k, Self, [Me EXCEPT !.pc = "user"], k.free)
       \/ /\ ChildrenOf(k, Self) # {} /\ ZombiesOf(k, Self) = {}
          /\ k' = Schedule(Update(k, Self,
                        [Me EXCEPT !.parent_waiting = TRUE, !.state = "BLOCKED",
                                   !.pc = "resume"], k.free))
    /\ UNCHANGED <<next_pid, started, halted, clash>>

process_wait_resume ==
    /\ At({"resume"})
    /\ k' = Update(k, Self, [Me EXCEPT !.parent_waiting = FALSE, !.pc = "rewait"],
                   k.free)
    /\ UNCHANGED <<next_pid, started, halted, clash>>

Next ==
    \/ scheduler_start
    \/ timer_handler
    \/ create_user_stack
    \/ create_kernel_stack
    \/ create_pcb
    \/ create_user_fields
    \/ unwind
    \/ user_process_trampoline
    \/ exception_handler
    \/ HaltLoop
    \/ process_exit
    \/ \E x \in 1 .. MaxPid + PROCESS_MAX : process_kill(x)
    \/ \E ticks \in 0 .. MaxSleepTicks : process_sleep(ticks)
    \/ scheduler_yield
    \/ sys_fork
    \/ sys_fork_return
    \/ process_wait
    \/ process_wait_resume

Spec == Init /\ [][Next]_vars

(***************************************************************************)
(* The PIC latches the timer interrupt until it is taken, so it is not     *)
(* lost to the intervals with interrupts off: strong fairness, spelled out *)
(* with the guard of timer_handler in the place of ENABLED (a tick always  *)
(* moves quantum_left when the quantum is longer than one tick).  The code *)
(* between a resumed process_wait and its sti simply runs on.              *)
(***************************************************************************)
Fairness ==
    /\ <>[]~InterruptsOn \/ []<><<timer_handler>>_vars
    /\ WF_vars(process_wait_resume)
    /\ WF_vars(scheduler_start)

FairSpec == Spec /\ Fairness
-----------------------------------------------------------------------------
(***************************************************************************)
(* Properties.                                                             *)
(***************************************************************************)
(* Every variable, and every field of the process table, keeps its type. *)
TypeOK ==
    /\ k \in KernelState
    /\ next_pid \in Nat
    /\ started \in BOOLEAN /\ halted \in BOOLEAN /\ clash \in BOOLEAN

InUse(p) == k.tab[p].state # "UNUSED"
Alive(p) == k.tab[p].state \notin {"UNUSED", "ZOMBIE"}

(* schedule() leaves exactly one process RUNNING, the one current_process  *)
(* points to, whatever sequence of preemptions, exits and blocks precedes. *)
OneRunning == \A p \in Slots : k.tab[p].state = "RUNNING" <=> p = k.current

(* The intrusive ready queues hold exactly the READY processes other than  *)
(* idle, each once and at the level of its priority: no process is lost to *)
(* the scheduler and none is linked twice (which would corrupt the list).  *)
QueuesMatchStates == QueuesMatch(k, {})

StackRefs == Slots \X {"kstack", "ustack", "kloc", "uloc"}
Ref(r)    == k.tab[r[1]][r[2]]

(* A stack has one owner: no block is free and referenced, or referenced   *)
(* by two PCBs or locals, so kfree is never called twice for it, and every *)
(* process in use keeps the kernel stack it runs on.                       *)
StackOwnership ==
    /\ \A r \in StackRefs : Ref(r) # NULL =>
          /\ Ref(r) \notin k.free
          /\ \A s \in StackRefs : Ref(r) = Ref(s) => r = s
    /\ \A p \in Slots \ {Idle} : InUse(p) <=> k.tab[p].kstack # NULL

(* No exit, kill, wait, reap or error path loses a stack, unless a process *)
(* was killed between sys_fork's sti and its kfree calls.                  *)
NoStackLeak ==
    k.torn \/ \A b \in Blocks \ k.free : \E r \in StackRefs : Ref(r) = b

(* A process blocked in process_wait has no exited child to collect: the   *)
(* check of the children and the block are one critical section, and every *)
(* exit and kill wakes the parent.  Stated while pids are unique.          *)
NoLostWakeup ==
    clash \/ \A p \in Slots : k.tab[p].state = "BLOCKED" => ZombiesOf(k, p) = {}

(* The PCB pointer that sys_fork reads after sti, and that                 *)
(* process_create_user writes after process_create has enabled interrupts, *)
(* still points to the caller's own child.  Stated while pids are unique.  *)
ChildPinned ==
    clash \/ \A p \in Slots : k.tab[p].pc \in {"fields", "forked"} =>
               k.tab[p].kid \in ChildrenOf(k, p)

(* What becomes of a zombie.  While pids are unique, the zombie of a live  *)
(* parent is released only by that parent, in process_wait or by its own   *)
(* exit: reap_orphans, which every tick, yield and sleep may run, takes no *)
(* exit status from a parent in whatever state.  And no zombie stays for   *)
(* want of a parent: exit, yield and sleep, which always reach schedule(), *)
(* leave only zombies whose parent is alive, apart from the process that   *)
(* is exiting and stands on its kernel stack.                              *)
Forlorn(kk, z) ==
    /\ kk.tab[z].state = "ZOMBIE"
    /\ \A p \in Slots \ {Idle} :
          kk.tab[p].pid = kk.tab[z].ppid => kk.tab[p].state \in {"UNUSED", "ZOMBIE"}

KeptForParent ==
    [][/\ \A p, z \in Slots :
             /\ k.tab[z].state = "ZOMBIE" /\ k'.tab[z].state = "UNUSED"
             /\ ~clash /\ Alive(p) /\ p # Idle /\ z \in ZombiesOf(k, p)
             => p = k.current /\ (process_wait \/ process_exit)
       /\ \A z \in Slots \ {k.current} : Forlorn(k', z) =>
             ~ \/ process_exit \/ scheduler_yield
               \/ \E ticks \in 0 .. MaxSleepTicks : process_sleep(ticks)]_vars

(* A tick never leaves the CPU below a process that waits: if a queue      *)
(* above the running process is not empty (or any queue, when the idle     *)
(* process runs), what runs after the tick comes from that queue or from a *)
(* higher one.  It compares the process that runs after the tick with      *)
(* those that were queued before it, which the boosts of aging may move.   *)
(* The preempted process is not among them: pick_next comes before it is   *)
(* queued again, so a HIGH process whose quantum ends can be followed by a *)
(* lower one, and "always runs the head of the highest non-empty queue"    *)
(* (scheduler.h:6) is meant of the queues as pick_next finds them.         *)
HigherRunsAtTick ==
    [][timer_handler =>
          \A q \in Levels :
             /\ q < k.tab[k.current].priority \/ k.current = Idle
             /\ k.queue[q] # <<>>
             => k.tab[k'.current].priority <= q]_vars

(* Anti-starvation: every queued process is eventually dispatched (or      *)
(* killed), however the processes above it behave.                         *)
NoStarvation ==
    \A p \in Slots \ {Idle} :
        k.tab[p].state = "READY" ~> k.tab[p].state # "READY" \/ halted

(* Every sleeper is eventually woken (or killed). *)
SleepersWake ==
    \A p \in Slots :
        k.tab[p].state = "SLEEPING" ~> k.tab[p].state # "SLEEPING" \/ halted
-----------------------------------------------------------------------------
(***************************************************************************)
(* What comments in the code say and the code does not do.                 *)
(***************************************************************************)

(* sys_fork allocates pids by a scan that is safe for process_by_pid: the  *)
(* pids of the slots in use are distinct.                                  *)
UniquePids == ~Duplicate(k)

(* When user_process_trampoline enters ring 3, process_create_user has     *)
(* stashed the entry point and the stack in the PCB.                       *)
UserEntryStashed == \A p \in Slots : k.tab[p].pc # "wild"
=============================================================================
