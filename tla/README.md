# A TLA+ specification of OpenOS

OpenOS is a small x86 kernel: one processor, a timer interrupt at 100 Hz, a
preemptive scheduler with three priorities, kernel threads, user processes with
system calls through `int 0x80`, and around that a heap, page-frame and paging
code, a RAM file system, pipes and message queues, a shell and some simulators.
This directory models it in TLA+, checks the models with TLC and proves the main
invariants with TLAPS.

## 1. Inventory

| part | state | operations | what makes it hard |
|---|---|---|---|
| scheduler (`process/scheduler.c`) | three intrusive FIFO queues, `current_process`, `quantum_left`, `started` | enqueue, dequeue, pick_next, reap_orphans, apply_aging, wake_sleepers, schedule, tick, yield, block, unblock | one `schedule()` for preemption, blocking and exit; the lists are changed while they are walked; starvation |
| processes (`process/process.c`) | table of 64 PCBs, `next_pid` | create, create_user, exit, kill, wait, sleep, release | interrupts are enabled between the steps of a creation; stacks freed by four different paths |
| system calls (`kernel/syscall.c`) | none of its own | fork, exit, yield, sleep, wait, write, getpid, getppid | fork's own pid scan; work after `sti` |
| timer (`drivers/timer.c`) | `system_ticks` | handler, wait, uptime | drives preemption; wrap-around of conversions |
| heap (`memory/heap.c`) | block list with size, free, next, prev | init, kmalloc, kfree, split, coalesce | used with interrupts on by one process and off by another |
| page frames (`memory/pmm.c`) | bitmap, `total_pages`, `used_pages` | init, alloc, free, mark_used, mark_free, stats | overlapping memory-map entries, limits of the bitmap |
| paging (`memory/vmm.c`) | page directories and tables | init, create, destroy, switch, map, unmap, identity map, translate | allocation failure half way, address wrap-around |
| IPC (`kernel/ipc.c`) | a table of pipes, a table of message queues | create, write/send, read/receive, close | rings that wrap; slots opened again with old data in them |
| file system (`fs/vfs.c`) | pool of nodes, tree links, 4 KiB contents | create, add/remove child, find, resolve, read, write | freed nodes still referenced; slot reuse |
| shell and file commands (`kernel/shell.c`, `commands.c`) | command table, current directory | cd, mkdir, touch, write, cat, rm, ls | current directory removed under the shell |
| keyboard (`drivers/keyboard.c`) | line buffer, `line_ready`, modifiers | interrupt handler, get_line | handler runs during the copy of the line |
| simulators (`kernel/cpu`, `memory/cache.c`, `bus.c`) | pipeline registers, cache lines, counters | cycle, execute, access, request | hazards between pipeline stages |
| scripting (`kernel/script.c`) | variables, control stack | set, get, unset, execute | limits of tables and buffers |
| SMP, networking, GUI | CPU, socket and window tables | detect, create, close | table limits |
| exceptions, boot, console, serial, IDT, PIC, strings, panic, driver configuration | device registers, constants | output and set-up | little state |

How the parts meet: `kmain` initialises them in a fixed order, creates the shell
and becomes the idle process. The timer interrupt calls `scheduler_tick`, which
may switch processes. The shell runs commands; some create, kill or put processes
to sleep. User processes reach the same functions through system calls, which are
entered with interrupts disabled. Stacks come from the heap; the heap's memory
from the page-frame allocator.

## 2. What is modelled

### Scheduler.tla

`process/scheduler.c` and the table helpers of `process/process.c`, as operators
that map a *kernel state* to the kernel state the C function leaves behind. These
functions run with interrupts disabled, so each is indivisible. A kernel state is
a record: `tab` (slot to PCB), `queue` (level to sequence of slots), `current`,
`quantum_left`, `free` (stack-sized blocks the heap can still supply) and the
history bit `torn`.

| operator | C function |
|---|---|
| `Enqueue`, `Dequeue`, `Unblock` | `scheduler_enqueue`, `scheduler_dequeue`, `scheduler_unblock` |
| `ByPid`, `Release` | `process_by_pid`, `process_release` |
| `Orphan`, `Reapable`, `ReapOrphans` | `reap_orphans` |
| `Boosted`, `ApplyAging` | `apply_aging` |
| `WakeSleepers` | `wake_sleepers` |
| `Requeued`, `Dispatch`, `SwitchTo`, `Schedule` | `schedule` with `pick_next` inlined |
| `SchedulerTick` | `scheduler_tick` |
| `WakeParent` | the wake-up shared by `process_exit` and `process_kill` |

Abstractions. `sleep_left` is `sleep_until` minus the current tick. All stacks
have the same size, so the heap is a set of blocks and first fit returns the
lowest. `quantum_left` is kept for the current process only: every switch
installs a new quantum. A freed slot is cleared at once rather than by the next
allocation; nothing reads it in between. Names, exit codes, statistics and saved
registers steer nothing.

### Process.tla

The state machine. Variables: `k` (the kernel state), `next_pid`, `started`,
`halted`, and `clash`, a history variable that records whether two slots in use
have ever carried one pid. One process executes at a time, the current one; its
`pc` says where it stands. A step is the code between two points where interrupts
are enabled, so a timer interrupt can fall between any two steps of a process.

| action | code |
|---|---|
| `scheduler_start`, `timer_handler` | `scheduler_start`; IRQ 0 |
| `create_user_stack`, `create_kernel_stack`, `create_pcb`, `create_user_fields` | the four stretches of `process_create_user` and `process_create` |
| `unwind` | the `kfree` calls of a failed creation or fork: interrupts are enabled, so each call is a step of its own |
| `user_process_trampoline`, `exception_handler`, `HaltLoop` | entry to ring 3, and what follows if the PCB was not filled in |
| `process_exit`, `process_kill`, `process_sleep`, `scheduler_yield` | the functions of these names |
| `sys_fork`, `sys_fork_return` | `sys_fork` up to its `sti`, and the read of `child->pid` after it |
| `process_wait`, `process_wait_resume` | one round of the loop, and the code after the switch back |

Who calls what is taken from the code: only the shell (slot 1) creates and kills;
it never exits, and `cmd_kill` refuses its own pid. Kernel threads of `cmd_spawn`
sleep and return. User processes are arbitrary ring 3 programs: they make any
system call in any order. A user process entered with a null entry point and stack
("wild") executes whatever lies at address 0; it runs on or ends in an exception.

### Heap.tla

`memory/heap.c` with each call as one step. Addresses are byte offsets into the
arena; `h` maps the address of every block header to its four fields and is empty
while `heap_head` is null; `live` is what the callers hold. `Split`, `Coalesce`,
`OneBlock`, `kmalloc_aligned` and `kfree` are the functions of `heap.c`. The walk of
`kmalloc` is the minimum over the blocks that fit, which is the same thing because
the list is in address order (`Tiling`). A merged block's header leaves `h`. Every
`kfree` is of a pointer `kmalloc` returned and nobody freed. An alignment rounds the
size of the request only, as in the code; the assumption on `Alignments` is that each is
below 8 or a multiple of 8. The rounding itself is not taken modulo 2^32: a request
within an alignment of 4 GiB, which no caller makes, would wrap in `HEAP_ALIGN`.

### HeapRace.tla

The same code under preemption. `process_create` calls `kmalloc` with interrupts
enabled, so the shell's call is taken apart into its writes (`Scan`, `Carve`,
`Resize`, `Relink`, `Take`), and its `kfree` into the flag and the two merges. Calls
of other processes (`sys_fork`, exits, the reaper) run with interrupts disabled and
are one step; they walk the list as it is at that moment. Here headers of merged
blocks stay readable, as their bytes do. Only one preempted caller, the shell, is
modelled; the writes to the remainder's own header are one step.

### Pmm.tla, Vmm.tla and AddressSpace.tla

`memory/pmm.c`, `memory/vmm.c` and the part of `kmain` that brings them up and takes
the heap's arena from them. Pmm keeps the static variables of the allocator in one
record, because its callers allocate several pages in one call and the record is
threaded through them; Vmm takes the steps. The bitmap is the set of pages whose bit
is set. A page directory, which takes two pages, and a page table are named by their
first page, and `pt` keeps what every page holds *as a table*, also after it was
freed: that is what a new table finds. Products of page numbers and sizes wrap at
`WORD`, the model's 2^32, and so do the KiB amounts of `pmm_get_stats`.

| action | code |
|---|---|
| `Init`, `vmm_init`, `heap_arena` | `pmm_init`, `vmm_init`, the loop before `heap_init` in `kmain` (`NextHeapPage` is one round of it) |
| `AllocPage`, `ClaimPage`, `FreePage` | `pmm_alloc_page`, `pmm_mark_used`, `pmm_mark_free` by other callers, who free what they hold |
| `vmm_create_directory`, `vmm_destroy_directory`, `vmm_switch_directory` | the functions; a caller destroys a directory it made and that is not loaded |
| `MapPage` | `vmm_map_page` called for one page |
| `MapRegion` | `vmm_map_region`; the loop goes on when a page could not be mapped |
| `vmm_unmap_page` | the function |

AddressSpace is what paging promises: each directory is a function from virtual pages
to frames; mapping and unmapping change the entries of one directory and nothing else. A
mapping may leave out a page only if that page had no frame before and memory is `full`
after it; `full` is mapped to "the allocator has no free page". `TablesAreAddressSpaces`
says that Vmm implements it, with `vmm_get_physical` as the refinement mapping.

### Ipc.tla and Channel.tla

`kernel/ipc.c`: pipes and message queues as the code has them, slots with a ring, two
positions and a count. `piped` and `messaged` record what the last call moved. Channel
is a bounded FIFO channel that may be opened, closed, and opened again empty; Ipc is
shown to implement two tables of them. Each call is one step: only the shell calls
these functions (`cmd_test_ipc`, `script_create_pipe`).

### Vfs.tla, FileCommands.tla, FileView.tla and FileTree.tla

Vfs has the functions of `fs/vfs.c` as operators on the pool (`used`, `node`,
`next_inode`); a freed node keeps its contents. FileCommands has one action per command
of `kernel/commands.c` that uses them: `cmd_mkdir`, `cmd_touch`, `cmd_write`, `cmd_rm`,
`cmd_cd`, `cmd_cat`, `cmd_stat`, `cmd_ls` and `cmd_pwd`, with the working directory and
`done`, the last command and its answer. A path is the sequence of its fields, so empty
fields, `.`, `..` and a trailing slash occur. `build_absolute_path` is followed as it
is: it *names* the working directory by walking up, and resolves that name again.

Of `ls`, `ls -R` with a path is modelled (the other forms are its first level), and the
hidden names are `.` and `..`, the only ones in MCFiles.

FileTree is the specification a user has in mind: a function from paths to files and
directories, and for every command its effect and its answer; the text a `write` leaves in
a file is that of the words it was given. One oddity of the code is part of it: `.` and
`..` are ordinary names where a command creates or looks up a last field without
resolving it. FileView computes that tree from the pool and states `PoolIsFileTree`. The statement is about behaviours in
which the user has not removed the directory they work in or one above it; after that
the code has no tree to speak of, `careful` is false, and the invariants on the pool
are still checked.

### Shell.tla and Keyboard.tla

From the keys to the command. Keyboard splits `keyboard_get_line` at its accesses to
what it shares with `keyboard_handler` (`Reset`, `Test`, `Halt`, one `Copy` per
character) and goes on through `shell_execute` and `parse_command`; a key interrupt or
a timer interrupt may come between any two steps. Shell has `string_tokenize`, with the
position it keeps between calls, the command table, and as a reference a definition of
the words of a line. Shift and caps lock only choose which character a key gives, so a
key is its character. `input_buffer` is the text below `input_buffer_pos`: cells above it
are written again before they are read. `line` and `late` are history variables: the text
at the Enter that ended the wait, and what later keys did to it. `pressed` counts the keys
from that Enter to the next prompt, to bound them.

### Cpu.tla

The five-stage pipeline and the single-cycle machine of `kernel/cpu`, one after the
other on one memory, as `benchmarks/pipeline_vs_single.c` runs them. Instructions keep
their layout with `REGS` registers and `IMMS` immediates (32 and 4096 in the code, 4 and
8 for TLC); `rs2` overlaps the immediate as in the code.

### How the modules meet

Process takes stacks from a heap of equal blocks; Heap is that heap in full; Vmm
composes the page allocator, paging and the boot code that hands the heap its arena;
Keyboard composes the two interrupts, line input, the tokenizer and the dispatch of a
command; FileCommands composes the commands with the file system.

### Bounds

`PROCESS_MAX`, `StackBlocks`, `SCHED_QUANTUM_TICKS` and `AGING_THRESHOLD` are the
code's limits, made small. `MaxPid` stops `process_create` (fork is bounded by the
table), `MaxSleepTicks` bounds a sleep. Five slots hold the idle process, the
shell, two created processes and a forked one, enough for a grandchild, an orphan
and a full table; six stacks run out before the slots do in some behaviours and
after them in others.

The heap's arena is 192 bytes, in which up to seven blocks occur, with requests of 0,
1, 20 and 40 bytes and alignments of 4, 8 and 32; some blocks are handed out with slack too small to split off.
HeapRace has 240 bytes and one request size, as all stacks have the same size.

Memory: pages of two bytes, a word of 16 pages, four tables of four entries, eight kinds
of boot information (blocks that do not start or end on a page, a hole right behind the
first free page, no memory above the kernel, memory up to 4 GiB, more memory than a word
can count). Three regions are mapped: one byte of the last page, a range across two tables
that starts and ends within a page and whose frames pass 4 GiB, and one that overlaps it.
`MaxHeld` is
how many pages other callers keep. There are enough pages for two directories with
tables and few enough that every allocation fails somewhere.

IPC: rings of two entries, so that every position wraps, and two slots, so that one is
reopened while the other is in use. The calls on pipes and on queues touch disjoint
variables, and MCIpc explores them separately.

Files: seven nodes, six of which are in use after `vfs_init`, four children, so that the
root is full from the start, files of three bytes. One node is free at first and `rm`
frees others; the arguments of MCFiles are absolute and relative paths, a bare name, one
through the parent directory, `.`, and one with a trailing slash. `MaxInode` bounds
creations. `pwd_walk_stops` has one node more.

Line input: buffers of eight characters and two arguments, so that a line of seven
characters has up to four words, one more than a command takes, and leaves the tokenizer
in its middle when the next line comes. `MaxLate` lets three keys arrive between an Enter
and the next prompt: enough to add to the line, to erase from it, and to do both. Cpu: all programs of up to five instructions
out of six, longer than the pipeline is deep; `Programs` and `NUM_INSTRUCTIONS` set this.

### Fairness

`process_liveness` assumes that the timer interrupt is taken again and again
unless interrupts stay off for ever (the PIC latches the request, so short
stretches with interrupts off delay it and do not lose it), that a process which
was switched to inside `process_wait` goes on to its `sti`, and that `kmain`
reaches `scheduler_start`. Nothing is assumed of the processes themselves.

`line_input` assumes that the shell, when it can take a step, takes one (which is what
`NoStarvation` shows of the scheduler) and that timer interrupts keep coming. No key
need be pressed.

## 3. What is checked

| run | checks | result |
|---|---|---|
| `process_safety` | `TypeOK`, `OneRunning`, `QueuesMatchStates`, `StackOwnership`, `NoStackLeak`, `NoLostWakeup`, `ChildPinned`, `KeptForParent` | hold |
| `process_liveness` | `NoStarvation`, `SleepersWake`, `HigherRunsAtTick` | hold |
| `heap_safety` | `TypeOK`, `Tiling`, `Owned`, `Reclaimed`, `PayloadsAligned` | hold |
| `memory_managers` | `TypeOK`, `OneOwner`, `OnlyFreeRamInUse`, `StatsExact`, `HeapIsFlat`, `OnlyDirectoriesLosePages`, `RegionsMapped`, `TablesAreAddressSpaces` | hold |
| `ipc` | `TypeOK`, `PipesAreChannels`, `QueuesAreChannels` | hold |
| `files` | `TypeOK`, `EntriesInUse`, `UniqueNames`, `LeaksOnlyBelowRemovedOrWhenFull`, `PoolIsFileTree` | hold |
| `line_input` | `TypeOK`, `LineKept`, `CommandGetsWords`, `EnterEndsWait` | hold |
| `cpu_simulators` | `TypeOK`, `InOrder`, `RegistersAsCompleted`, `CyclesAccounted` | hold |
| `unique_pids` | `UniquePids` | violated |
| `user_entry_stashed` | `UserEntryStashed` | violated |
| `heap_race` | `ContiguousRun` | violated |
| `pwd_walk_stops` | `PwdWalkStops` | violated |

Processes:

* `OneRunning`: exactly the current process is `RUNNING`.
* `QueuesMatchStates`: the queues hold exactly the `READY` processes, once, at
  their level.
* `StackOwnership`: no stack is both free and referenced, or referenced twice;
  every process in use has its kernel stack.
* `NoStackLeak`: no stack is lost, except when a process is killed between
  `sys_fork`'s `sti` and its `kfree` calls, which `torn` records.
* `NoLostWakeup`: a process blocked in `process_wait` has no zombie child.
* `ChildPinned`: the PCB pointers used after interrupts were enabled still point
  to the caller's child.
* `KeptForParent`: the zombie of a living parent is released only by that parent, in
  `process_wait` or by its own exit; and after an exit, a yield or a sleep, which always
  reach `schedule()`, no zombie is left without a living parent, except the process that
  is exiting and still stands on its stack.
* `NoStarvation`, `SleepersWake`: a `READY` process is dispatched, a sleeper woken.
* `HigherRunsAtTick`: if a process waits above the level of the running one when a timer
  tick comes, what runs after the tick is at least as high as that. The process that was
  preempted is not among those compared: see the first remark below.

Properties that speak of parent and child hold only while pids are unique, and are
stated under `~clash`.

Memory:

* `Tiling`, `Owned`, `Reclaimed`: see the theorems below. `PayloadsAligned`:
  every pointer is a multiple of 8, whatever alignment was asked for; more is not promised.
* `OneOwner`: no page is in two of directories, tables, heap and others' hands.
* `OnlyFreeRamInUse`: what is handed out exists, lies above 1 MiB and outside the kernel.
  Two exceptions: the page in which an available block starts is handed out whole
  (`pmm.c:147` rounds down), and with a directory in the last page below 4 GiB page 0 is
  taken for its second page, as `vmm.c:187` sees the null of an exhausted allocator there.
* `StatsExact`: the numbers of pages in `pmm_get_stats` are those of the bitmap; the KiB
  amounts are right exactly when there is less than 4 GiB.
* `HeapIsFlat`: the arena has no hole.
* `OnlyDirectoriesLosePages`: pages are lost only by a failed creation of a directory,
  in `vmm_create_directory` or `vmm_init`, and, one each, by `vmm_destroy_directory`; a
  mapping that runs out of memory loses none.
* `RegionsMapped`: every page a range touches gets its frame unless memory ran out; of a
  range that reaches into the last page, `vmm_map_region` maps nothing (`vmm.c:348`).
* `TablesAreAddressSpaces`: refinement of AddressSpace.

Channels and files:

* `PipesAreChannels`, `QueuesAreChannels`: refinement of Channel.
* `EntriesInUse`: no directory, removed or not, has an entry for a freed node or for a
  node of another directory. `UniqueNames`: nor two entries of one name.
* `LeaksOnlyBelowRemovedOrWhenFull`: the two ways in which nodes are lost.
* `PoolIsFileTree`: refinement of FileTree.

Line input and simulators:

* `LineKept`: the line read is the line typed unless keys follow the Enter, which can
  then only add to it or, by a backspace, shorten it.
* `CommandGetsWords`: the command called, and its arguments, are those of the line read,
  also after a line that had more words than fit.
* `EnterEndsWait`: an Enter ends the wait, also when it falls between the test of
  `line_ready` and the `hlt`.
* `InOrder`, `RegistersAsCompleted`: no instruction is lost, repeated, reordered or seen
  early. `CyclesAccounted`: cycles are instructions plus stalls plus five, and there is one
  stall for each true dependency on the instruction before and one for each instruction
  whose immediate happens to name the register just written; the comment "Only stall if
  there's a true dependency" (`pipeline.c:72`) is not kept. For the sample of
  `kernel/cpu/README.md` the cycles are 8192 + 2048 + 5 = 10245, the number printed there.

The violated runs are disagreements between a comment and the code:

* `UniquePids`: `sys_fork` takes the lowest pid not in use, `alloc_pcb` takes
  `next_pid++`. After a fork has taken `next_pid`, the next creation duplicates it.
* `UserEntryStashed`: `process_create` makes the process `READY` before
  `process_create_user` has stored its entry point and stack.
* `ContiguousRun`: `block_split` writes back what it read before a preemption. If a
  fork takes the block before the write of `size`, and a second preemption frees it
  before the write of `next`, two blocks overlap.
* `PwdWalkStops`: after `rm` of a directory above the working directory, a `mkdir` in
  the working directory takes the freed node, which becomes its parent's child *and*
  parent; the loop of `cmd_pwd` then never ends.

Process and Heap take each heap call as one step. Their results, `StackOwnership`
above all, and the theorems of HeapProofs, hold as long as no heap call is preempted
by another one; `heap_race` shows that the code does not ensure this.

Every property of a passing run has a mutant, a plausible slip in one definition, under
which TLC reports it violated; the mutated definition stands right before the original.

### Remarks from reading the code

Not checked by a run; each follows from a few lines.

* `schedule()` picks the next process before it requeues the preempted one, so a `HIGH`
  process whose quantum expires is followed by a lower one if no other `HIGH` waits;
  `scheduler.h:6` says the head of the highest non-empty queue always runs.
* `kmalloc_aligned` rounds the size and not the address, so an alignment above 8 is not
  kept. No caller asks for one.
* `kmalloc` tests the free flag and clears it later; preempted in between, the shell and
  a fork can be given one block.
* `vmm_destroy_directory` frees one of the directory's two pages (`vmm.c:224`).
* `vmm_init` maps at most 64 MiB, while `vmm.c:132` speaks of the full RAM range; and
  memory-map entries above 4 GiB wrap into page numbers below it. MCVmm has none:
  `pmm.h:16` supports "up to 4GB RAM".
* Keys typed between two lines are dropped by `keyboard_get_line`.
* `kernel/cpu/README.md:100` speaks of 20,000 instructions on each machine; its own sample
  shows 8192, what the simulated memory holds.
* `timer_get_uptime_ms` multiplies in 32 bits and wraps after 11.9 hours, not 49 days.
* `ls -R` in a directory that has become its own descendant recurses without end.

## 4. What is proved

Every theorem holds for all values of the constants that the assumptions of the
modules allow, so for the sizes of the code and not only for those TLC was given.

### Processes

`SchedulerProofs.tla` shows, for every operator of Scheduler, that it maps a sound
kernel state to a sound one; `ProcessProofs.tla` lifts this to the state machine:

* `TypeCorrect`: `Spec => []TypeOK`
* `AlwaysOneRunning`: `Spec => []OneRunning`
* `QueuesAlwaysMatch`: `Spec => []QueuesMatchStates`
* `TicksRunHigher`: `Spec => HigherRunsAtTick`
* `Invariance`: `Spec => []IInv`, the inductive invariant the others follow from.

They hold for any number of slots from two on, any number of stacks, any positive
quantum, any aging threshold and any bounds (`SchedulerAssumption`,
`ProcessAssumption`).

The invariant. `QueuesMatchStates` is not inductive: within `schedule()` a process
has left a queue and is not yet `RUNNING`. `Sound(k, X)` therefore says that the
queues hold exactly the `READY` processes *except those in X*, which the function
at work is about to link, and adds what the functions rely on: the types, that the
idle process is ready or running and alone has pid 0 (else `Enqueue` would drop a
process, and the fall back of `schedule()` would find none), and that nobody but
the current process is `RUNNING`. Each lemma of SchedulerProofs has the form "if
`Sound(k, X)` then `Sound(Op(k, p), Y)`". `IInv` is `TypeOK`, `Sound(k, {})`, the
current process is `RUNNING`, and `next_pid` is not zero. The step case has one
lemma per action of Process. The lemmas on sequences (`AppendOnce`, `TailOnce`,
`ConcatOnce`, `RemoveOnce`, `SortedOnce`, `PickOnce`) say how the elements of a
queue change; that a fork always finds a pid is a pigeonhole argument
(`ForkPidFound`).

`OwnershipLemmas.tla` and `OwnershipProofs.tla` go on to what the processes own:

* `StacksOwned`: `Spec => []StackOwnership`; `StacksNeverLeak`: `Spec => []NoStackLeak`
* `WakeupsNeverLost`: `Spec => []NoLostWakeup`; `ChildrenPinned`: `Spec => []ChildPinned`
* `ZombiesKept`: `Spec => KeptForParent`, an action property. That zombies without a parent
  go follows the scan of `reap_orphans` slot by slot (`Visited`), to the end of the table;
  that a parent stays alive through the same call is `ParentLives`.
* `OwnInvariance`: `Spec => []OwnInv`, from which they follow.

`OwnInv` adds to `IInv` two predicates. `Kept`: the stacks a process refers to, from its
PCB *and from the local variables of the call it is in*, are different blocks, disjoint
from those of other processes and from the free ones, and together with these are all
there are (unless `torn`); and the place a process stands at says which of the four it
may hold. Without the places the step that fails half way in `process_create` could free
what a PCB still names. `Family`, as long as no pid was ever given twice: a parent that
is about to read its child's PCB still has that child, and a parent blocked in
`process_wait` has no zombie. It fails within `process_exit`, between the change of state
and `WakeParent`, which is why it is stated of kernel states and shown of the result of
the whole operation.

### Heap

`HeapProofs.tla` proves, for every arena size and every set of requests
(`HeapAssumption`), with each call as one step:

* `AlwaysTiled`: `Spec => []Tiling`; `AlwaysOwned`: `Spec => []Owned`;
  `AlwaysReclaimed`: `Spec => []Reclaimed`; `HeapTypeCorrect`: `Spec => []TypeOK`;
* `HeapInvariance`: the inductive invariant they follow from. To `Tiling` and `Owned`
  it adds that no header lies inside another block (`Apart`: `Tiles` is local, and
  `block_split` writes a header in the middle of a block) and that no two neighbours
  are both free (`NoFreeNeighbours`, from which `Reclaimed` follows). Within `kfree`
  the last fact fails for the freed block and its predecessor; the lemmas carry that
  exception as a set.
* `KmallocAligned`: `Spec => []PayloadsAligned`, from the invariant that headers lie on
  multiples of 8. It needs the assumption on `Alignments`: a size rounded to 12, say, would
  put the next header off the grid.

### Pipes and message queues

`IpcProofs.tla` proves, for every number of slots, every size of the rings and all data:

* `RingsTyped`: `Spec => []TypeOK`
* `PipesImplementChannels`: `Spec => PipesAreChannels`, and `QueuesImplementChannels`:
  `Spec => QueuesAreChannels`: the refinement, step by step
* `RingsWound`: the inductive invariant. `Wound` says that `write_pos` is `count` entries
  ahead of `read_pos`, modulo the size; it is what makes the visible contents
  (`Buffered`) grow at the end when `PutByte` writes and lose their head when a read
  moves `read_pos`. It is kept for closed slots too, as they are opened again.

The refinement needs what the loop of `pipe_write` computes for data of any length. That
is an induction over the number of bytes written (`TurnTakes`), made with the set of the
lengths for which the claim holds and the lemma `Counting`: a set that contains 0 and
with every number the next contains every number. `TurnsFound` shows in the same way that
the recursive function of the loop exists.

### Simulators

`CpuProofs.tla` proves, for every program, every number of registers and immediates and
every `NUM_INSTRUCTIONS` (`CpuAssumption`):

* `MachinesTyped`: `Spec => []TypeOK`; `InstructionsInOrder`: `Spec => []InOrder`;
  `RegistersExact`: `Spec => []RegistersAsCompleted`;
* `CountersExact`: `Spec => []CyclesAccounted`; the test of the pipeline splits into true
  dependencies and mistaken ones without overlap (`HazardsCounted`)
* `MachinesDoSameWork`: `Spec => []SameWork`, both machines complete the same number of
  instructions; a consequence of the counters that no run checks separately
* `CpuInvariance`: the inductive invariant. `CyclesAccounted` speaks of the last state
  only. On the way there, `Drained`, the cycles in which nothing was fetched and nothing
  held back, is from 0 to 5 and says which stages are empty (`Draining`); the stalls are
  the hazards among the instructions that have left `STAGE_ID`, plus one while an
  instruction waits there for the second cycle (`Stalls`). `SameWork` needs a bound on the
  cycles: a completed instruction costs two at most, and the first one completes in the
  fifth cycle (`FirstOne`), so the break at `10 * NUM_INSTRUCTIONS` is out of reach, also
  for `NUM_INSTRUCTIONS = 1`.

### Files

`FileProofs.tla` proves, for every size of the pool, of directories and of files, and
for every set of paths and words (`VfsAssumption`: room for what `vfs_init` makes;
`CommandsAssumption`: arguments are made of names and bytes), about FileCommands, in
which the user may also remove the directory they work in:

* `EntriesAlwaysInUse`: `Spec => []EntriesInUse`; `NamesAlwaysUnique`:
  `Spec => []UniqueNames`; `FilesTypeCorrect`: `Spec => []TypeOK`, with the limit on
  the entries of a directory and on the length of a file;
* `FilesInvariance`: the inductive invariant they follow from. `Good` is a predicate on
  a pool, not on a state, since a command passes the pool through several calls of
  `vfs.c`, each with a lemma of its own. Its facts only hold together: a node that
  `allocate_node` hands out again changes its name, and that disturbs no directory
  because the node is an entry of none.

`cat`, `stat`, `ls` and `pwd`, which FileView adds, change neither the pool nor the
working directory. The theorems hold for every `MaxInode`, the bound on creations.

### Only model-checked

* Liveness (`NoStarvation`, `SleepersWake`, `EnterEndsWait`): fairness is out of the
  prover's reach.
* The page allocator and paging (Pmm, Vmm): all eight properties, the refinement of
  AddressSpace among them.
* Line input (Keyboard): `TypeOK`, `LineKept` and `CommandGetsWords`.
* `LeaksOnlyBelowRemovedOrWhenFull` and `PoolIsFileTree`: the second compares a path
  resolved by a fold over its fields with a tree computed from the pool.

## 5. Not modelled, and why

* Console and serial output, panic, IDT, PIC and GDT programming, driver configuration:
  device registers and constants. Of the interrupt set-up the models use which gates
  mask interrupts. Updates of the console cursor by two processes may interleave; only
  output is at stake.
* Context switch in `context.S`, the relocation of a forked user stack, the contents of
  registers: below the level at which a process is a `pc` and a PCB.
* Commands that only print; `cmd_run` and scripting: text substitution, line by line.
* Cache and bus simulators: counters without interaction, called by the benchmark with a
  fixed sequence of accesses.
* Slab cache: not built. SMP: no second processor runs kernel code. Networking: sockets
  without a device. GUI: drawing into text memory.
* Length limits of names and paths, shift and caps lock, flags of page-table entries, the
  order of directory listings: data that no property tells apart.
