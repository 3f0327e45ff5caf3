-------------------------------- MODULE Vmm --------------------------------
(***************************************************************************)
(* The virtual memory manager of src/memory/vmm.c on top of the page       *)
(* allocator, and the start of the kernel that uses both: pmm_init,        *)
(* vmm_init and the reservation of the heap's arena (src/kernel/kernel.c). *)
(*                                                                         *)
(* A page directory and a page table are named by the number of their      *)
(* (first) page: the kernel is identity mapped.  The hardware entry of a   *)
(* directory always names the same table as its software pointer, so only  *)
(* tables[] is kept.  Of the flags of an entry only PTE_PRESENT is.        *)
(***************************************************************************)
EXTENDS Pmm, Functions

CONSTANTS PAGE_DIR_ENTRIES, PAGE_TABLE_ENTRIES,
          MapFloor, MapCap,    \* 4 MiB and 64 MiB, in bytes
          HEAP_PAGES,          \* pages wanted for the heap
          BootInfos,           \* what the boot loader may report
          Regions,             \* the [virt, phys, size] that callers map, in bytes
          MaxHeld              \* bound on the pages held by other callers

\* The bitmap has a bit for every page of 4 GiB (pmm.h:16), and what callers
\* map is part of the address space.
ASSUME VmmAssumption ==
    /\ {PAGE_DIR_ENTRIES, PAGE_TABLE_ENTRIES, HEAP_PAGES} \subseteq Nat \ {0}
    /\ {MapFloor, MapCap} \subseteq Nat
    /\ WordPages = PAGE_DIR_ENTRIES * PAGE_TABLE_ENTRIES
    /\ WordPages <= PMM_BITMAP_PAGES
    /\ \A r \in Regions : /\ r \in [virt : Nat, phys : Nat, size : Nat]
                          /\ r.phys < WORD /\ r.virt < WORD /\ r.virt + r.size <= WORD

\* The memory the boot loader reports ends at or below 4 GiB: pmm.h:16, "Support
\* up to 4GB RAM".
ASSUME BootAssumption ==
    /\ BootInfos # {} /\ BootInfos \subseteq Multiboot
    /\ \A b \in BootInfos : "mmap" \in DOMAIN b =>
           \A e \in Available(b.mmap) : e.addr + e.len <= WORD

VARIABLES mboot,               \* the boot information, never changed
          boot,                \* the next step of kernel_main
          pmm,                 \* the page allocator
          dirs,                \* directory in use -> tables[]
          pt,                  \* page -> its content as a page table
          kernel_directory, current_directory,
          heap,                \* pages of the heap's arena
          held                 \* pages other callers got and did not free

vars == <<mboot, boot, pmm, dirs, pt, kernel_directory, current_directory, heap, held>>

PD_INDEX(page) == page \div PAGE_TABLE_ENTRIES

PT_INDEX(page) == page % PAGE_TABLE_ENTRIES

Entry == [frame : 0 .. WordPages - 1, present : BOOLEAN]

ClearTable == [i \in 0 .. PAGE_TABLE_ENTRIES - 1 |-> [frame |-> 0, present |-> FALSE]]

ClearDirectory == [i \in 0 .. PAGE_DIR_ENTRIES - 1 |-> NULL]

\* The part of the state a mapping changes, to be threaded through loops.
Mem == [pmm |-> pmm, dirs |-> dirs, pt |-> pt]

Becomes(m) == pmm' = m.pmm /\ dirs' = m.dirs /\ pt' = m.pt

\* A bug: the page keeps what it held when it was a table before.
clear_table_skipped(tables, page) ==
    [tables EXCEPT ![page] = IF @ = <<>> THEN ClearTable ELSE @]

clear_table(tables, page) == [tables EXCEPT ![page] = ClearTable]

\* get_page_table(dir, virt, true): the table, made if there is none.
get_page_table(m, dir, page) ==
    LET got == pmm_alloc_page(m.pmm)
    IN  IF m.dirs[dir][PD_INDEX(page)] # NULL THEN [m |-> m, table |-> m.dirs[dir][PD_INDEX(page)]]
        ELSE IF got.page = NULL THEN [m |-> [m EXCEPT !.pmm = got.pmm], table |-> NULL]
        ELSE [m |-> [pmm |-> got.pmm,
                     dirs |-> [m.dirs EXCEPT ![dir][PD_INDEX(page)] = got.page],
                     pt |-> clear_table(m.pt, got.page)],
              table |-> got.page]

vmm_map_page(m, dir, page, frame, present) ==
    LET got == get_page_table(m, dir, page)
    IN  IF got.table = NULL THEN got.m
        ELSE [got.m EXCEPT !.pt[got.table][PT_INDEX(page)] =
                               [frame |-> frame, present |-> present]]

\* A bug: the end is not rounded up.
RegionPages_short(virt, size) ==
    Max({0, ((virt + size) % WORD) \div PMM_PAGE_SIZE - virt \div PMM_PAGE_SIZE})

\* The pages a region loop visits; the end is computed in 32 bits.
RegionPages(virt, size) ==
    Max({0, ((virt + size + PMM_PAGE_SIZE - 1) % WORD) \div PMM_PAGE_SIZE
                - virt \div PMM_PAGE_SIZE})

\* A bug: the frame does not wrap at 4 GiB.
vmm_map_region_wide(m, dir, virt, phys, size, present) ==
    LET mapped[i \in 0 .. WordPages] ==
            IF i = 0 THEN m
            ELSE vmm_map_page(mapped[i - 1], dir, virt \div PMM_PAGE_SIZE + (i - 1),
                              phys \div PMM_PAGE_SIZE + (i - 1), present)
    IN  mapped[RegionPages(virt, size)]

\* vmm_map_page's result is not looked at: the loop goes on after a failure.
vmm_map_region(m, dir, virt, phys, size, present) ==
    LET first == virt \div PMM_PAGE_SIZE
        frame == phys \div PMM_PAGE_SIZE
        mapped[i \in 0 .. WordPages] ==
            IF i = 0 THEN m
            ELSE vmm_map_page(mapped[i - 1], dir, first + (i - 1),
                              (frame + (i - 1)) % WordPages, present)
    IN  mapped[RegionPages(virt, size)]

vmm_identity_map_region(m, dir, start, size, present) ==
    vmm_map_region(m, dir, start, start, size, present)

\* A bug: a struct page_directory is taken to fit in one page.
DirectoryPages_one(p) == pmm_alloc_page(p)

\* Two consecutive pages for a struct page_directory.  When the second is
\* not adjacent both stay allocated.
DirectoryPages(p) ==
    LET a == pmm_alloc_page(p)
        b == pmm_alloc_page(a.pmm)
    IN  IF a.page = NULL THEN a
        ELSE [pmm |-> b.pmm,
              page |-> IF b.page = (a.page + 1) % WordPages THEN a.page ELSE NULL]

WithDirectory(d) == [e \in DOMAIN dirs \cup {d} |-> IF e = d THEN ClearDirectory ELSE dirs[e]]

\* vmm_get_physical, in pages; Unmapped where the code returns 0.
Unmapped == WordPages

vmm_get_physical(dir, page) ==
    LET table == dirs[dir][PD_INDEX(page)]
    IN  IF table = NULL \/ ~ pt[table][PT_INDEX(page)].present THEN Unmapped
        ELSE pt[table][PT_INDEX(page)].frame

-----------------------------------------------------------------------------
Init ==
    /\ mboot \in BootInfos
    /\ boot = "vmm_init"
    /\ pmm = pmm_init(mboot)
    /\ dirs = [d \in {} |-> ClearDirectory]
    /\ pt = [page \in 0 .. WordPages - 1 |-> <<>>]
    /\ kernel_directory = NULL /\ current_directory = NULL
    /\ heap = {} /\ held = {}

\* The kernel's directory maps [0, ram_end) to itself, floored and capped.
vmm_init ==
    LET got == DirectoryPages(pmm)
        ram_end == Min({MapCap, Max({MapFloor, pmm_get_max_address(pmm)})})
    IN  /\ boot = "vmm_init" /\ boot' = "heap"
        /\ \/ /\ got.page = NULL
              /\ Becomes([Mem EXCEPT !.pmm = got.pmm])
              /\ UNCHANGED <<kernel_directory, current_directory>>
           \/ /\ got.page # NULL
              /\ Becomes(vmm_identity_map_region(
                             [pmm |-> got.pmm, dirs |-> WithDirectory(got.page), pt |-> pt],
                             got.page, 0, ram_end, TRUE))
              /\ kernel_directory' = got.page
              /\ current_directory' = got.page
        /\ UNCHANGED <<mboot, heap, held>>

\* A bug: the page that is not adjacent stays in the arena.
heap_arena_gap ==
    LET run[i \in 1 .. HEAP_PAGES] ==
            LET before == IF i = 1 THEN [pmm |-> pmm, pages |-> <<>>] ELSE run[i - 1]
                got == pmm_alloc_page(before.pmm)
            IN  IF got.page = NULL THEN before
                ELSE [pmm |-> got.pmm, pages |-> Append(before.pages, got.page)]
    IN  /\ boot = "heap" /\ boot' = "run"
        /\ pmm' = run[HEAP_PAGES].pmm
        /\ heap' = Range(run[HEAP_PAGES].pages)
        /\ UNCHANGED <<mboot, dirs, pt, kernel_directory, current_directory, held>>

\* A turn of the loop of kernel_main that collects the arena.
NextHeapPage(before) ==
    LET got == pmm_alloc_page(before.pmm)
        adjacent == before.pages = <<>> \/ got.page = before.pages[Len(before.pages)] + 1
    IN  IF ~ before.go THEN before
        ELSE IF got.page = NULL THEN [before EXCEPT !.go = FALSE, !.pmm = got.pmm]
        ELSE IF ~ adjacent
             THEN [before EXCEPT !.go = FALSE, !.pmm = pmm_free_page(got.pmm, got.page)]
        ELSE [before EXCEPT !.pmm = got.pmm, !.pages = Append(@, got.page)]

\* kernel_main takes adjacent pages until it has HEAP_PAGES, memory runs out
\* or a page is not adjacent; that page is given back.
heap_arena ==
    LET run[i \in 0 .. HEAP_PAGES] ==
            IF i = 0 THEN [pmm |-> pmm, pages |-> <<>>, go |-> TRUE] ELSE NextHeapPage(run[i - 1])
    IN  /\ boot = "heap" /\ boot' = "run"
        /\ pmm' = run[HEAP_PAGES].pmm
        /\ heap' = Range(run[HEAP_PAGES].pages)
        /\ UNCHANGED <<mboot, dirs, pt, kernel_directory, current_directory, held>>

vmm_create_directory ==
    LET got == DirectoryPages(pmm)
    IN  /\ boot = "run"
        /\ pmm' = got.pmm
        /\ dirs' = IF got.page = NULL THEN dirs ELSE WithDirectory(got.page)
        /\ UNCHANGED <<mboot, boot, pt, kernel_directory, current_directory, heap, held>>

\* A bug: the page tables are not freed.
vmm_destroy_directory_shallow(d) ==
    /\ boot = "run" /\ d \notin {kernel_directory, current_directory}
    /\ pmm' = pmm_free_page(pmm, d)
    /\ dirs' = [e \in DOMAIN dirs \ {d} |-> dirs[e]]
    /\ UNCHANGED <<mboot, boot, pt, kernel_directory, current_directory, heap, held>>

\* Frees the tables and the first page of the directory.  A caller destroys a
\* directory it made and that is not loaded.
vmm_destroy_directory(d) ==
    /\ boot = "run" /\ d \notin {kernel_directory, current_directory}
    /\ LET freed[i \in 0 .. PAGE_DIR_ENTRIES] ==
               IF i = 0 THEN pmm
               ELSE IF dirs[d][i - 1] = NULL THEN freed[i - 1]
               ELSE pmm_free_page(freed[i - 1], dirs[d][i - 1])
       IN  pmm' = pmm_free_page(freed[PAGE_DIR_ENTRIES], d)
    /\ dirs' = [e \in DOMAIN dirs \ {d} |-> dirs[e]]
    /\ UNCHANGED <<mboot, boot, pt, kernel_directory, current_directory, heap, held>>

vmm_switch_directory(d) ==
    /\ boot = "run"
    /\ current_directory' = d
    /\ UNCHANGED <<mboot, boot, pmm, dirs, pt, kernel_directory, heap, held>>

MapPage(d, r, present) ==
    /\ boot = "run"
    /\ UNCHANGED <<mboot, boot, kernel_directory, current_directory, heap, held>>
    /\ Becomes(vmm_map_page(Mem, d, r.virt \div PMM_PAGE_SIZE, r.phys \div PMM_PAGE_SIZE,
                            present))

MapRegion(d, r, present) ==
    /\ boot = "run"
    /\ UNCHANGED <<mboot, boot, kernel_directory, current_directory, heap, held>>
    /\ Becomes(vmm_map_region(Mem, d, r.virt, r.phys, r.size, present))

vmm_unmap_page(d, page) ==
    LET table == dirs[d][PD_INDEX(page)]
    IN  /\ boot = "run"
        /\ pt' = IF table = NULL THEN pt
                 ELSE [pt EXCEPT ![table][PT_INDEX(page)] = ClearTable[0]]
        /\ UNCHANGED <<mboot, boot, pmm, dirs, kernel_directory, current_directory, heap, held>>

\* Other callers of the page allocator: they free what they got.
AllocPage ==
    LET got == pmm_alloc_page(pmm)
    IN  /\ boot = "run" /\ Cardinality(held) < MaxHeld
        /\ pmm' = got.pmm
        /\ held' = held \cup ({got.page} \ {NULL})
        /\ UNCHANGED <<mboot, boot, dirs, pt, kernel_directory, current_directory, heap>>

ClaimPage(page) ==
    /\ boot = "run" /\ Cardinality(held) < MaxHeld /\ pmm_is_page_free(pmm, page)
    /\ pmm' = pmm_mark_used(pmm, page)
    /\ held' = held \cup {page}
    /\ UNCHANGED <<mboot, boot, dirs, pt, kernel_directory, current_directory, heap>>

FreePage(page) ==
    /\ boot = "run"
    /\ pmm' = pmm_mark_free(pmm, page)
    /\ held' = held \ {page}
    /\ UNCHANGED <<mboot, boot, dirs, pt, kernel_directory, current_directory, heap>>

Next ==
    \/ vmm_init \/ heap_arena \/ vmm_create_directory \/ AllocPage
    \/ \E d \in DOMAIN dirs :
           \/ vmm_destroy_directory(d)
           \/ vmm_switch_directory(d)
           \/ \E r \in Regions : \/ \E present \in BOOLEAN : \/ MapPage(d, r, present)
                                                            \/ MapRegion(d, r, present)
                                 \/ vmm_unmap_page(d, r.virt \div PMM_PAGE_SIZE)
    \/ \E page \in 0 .. pmm.total_pages - 1 : ClaimPage(page)
    \/ \E page \in held : FreePage(page)

Spec == Init /\ [][Next]_vars

-----------------------------------------------------------------------------
(* Properties *)

TypeOK ==
    /\ mboot \in BootInfos /\ boot \in {"vmm_init", "heap", "run"}
    /\ pmm.bitmap \subseteq 0 .. PMM_BITMAP_PAGES - 1
    /\ {pmm.total_pages, pmm.used_pages, pmm.max_physical_address} \subseteq Nat
    /\ \A d \in DOMAIN dirs :
           dirs[d] \in [0 .. PAGE_DIR_ENTRIES - 1 -> 0 .. WordPages - 1]
    /\ \A page \in DOMAIN pt :
           pt[page] \in {<<>>} \cup [0 .. PAGE_TABLE_ENTRIES - 1 -> Entry]
    /\ {kernel_directory, current_directory} \subseteq DOMAIN dirs \cup {NULL}
    /\ heap \cup held \subseteq 0 .. WordPages - 1

TableSlots == {s \in (DOMAIN dirs) \X (0 .. PAGE_DIR_ENTRIES - 1) : dirs[s[1]][s[2]] # NULL}

\* The pages somebody uses: directories, page tables, the heap, other callers.
InUse == (UNION {{d, (d + 1) % WordPages} : d \in DOMAIN dirs})
             \cup {dirs[s[1]][s[2]] : s \in TableSlots} \cup heap \cup held

\* A page has one user: no page of a directory, a page table, the heap or
\* another caller is also one of the others, whatever was freed and handed
\* out again before, and every page in use is marked used in the bitmap.
OneOwner ==
    /\ InUse \subseteq pmm.bitmap
    /\ Cardinality(InUse) = 2 * Cardinality(DOMAIN dirs) + Cardinality(TableSlots)
                                + Cardinality(heap) + Cardinality(held)

\* Page page lies wholly in memory the boot loader reported as available.
IsRam(page) ==
    LET first == page * PMM_PAGE_SIZE
        end == first + PMM_PAGE_SIZE
    IN  IF "mmap" \in DOMAIN mboot
        THEN \E e \in Available(mboot.mmap) : e.addr <= first /\ end <= e.addr + e.len
        ELSE end <= mboot.mem_kb * KB

\* An available block of the memory map starts in page page.
StartsIn(page) ==
    /\ "mmap" \in DOMAIN mboot
    /\ \E e \in Available(mboot.mmap) : page = e.addr \div PMM_PAGE_SIZE

\* The allocator hands out only memory there is, at or above 1 MiB and
\* outside the kernel image: pmm.c:12-13, "must never be handed out by the
\* allocator".  A block that ends in the middle of a page does not give that
\* page, but the page a block starts in is given whole (pmm.c:147 rounds down).
\* A directory in the last page below 4 GiB is the exception: the page behind
\* it is page 0, for which vmm.c:187 takes the NULL of an exhausted allocator.
OnlyFreeRamInUse ==
    \A page \in InUse :
       \/ page = NULL /\ WordPages - 1 \in DOMAIN dirs
       \/ /\ IsRam(page) \/ StartsIn(page)
          /\ page * PMM_PAGE_SIZE >= PMM_LOW_MEMORY
          /\ \/ (page + 1) * PMM_PAGE_SIZE <= kernel_start
             \/ page * PMM_PAGE_SIZE >= kernel_end

\* pmm_get_stats, which meminfo shows.  The numbers of pages are exact: the
\* counter kept beside the bitmap is the number of bits set in it, whatever
\* was allocated, freed, claimed and lost.  The amounts in KiB are right
\* exactly when there is less than 4 GiB of memory (pmm.c:247 multiplies in
\* 32 bits).
StatsExact ==
    LET stats == pmm_get_stats(pmm)
        kb(pages) == (pages * PMM_PAGE_SIZE) \div KB
    IN  /\ stats.free_pages = Cardinality(FreePages(pmm))
        /\ stats.used_pages = Cardinality(pmm.bitmap \cap 0 .. pmm.total_pages - 1)
        /\ pmm.total_pages < WordPages <=>
               /\ stats.total_memory_kb = kb(stats.total_pages)
               /\ stats.used_memory_kb = kb(stats.used_pages)
               /\ stats.free_memory_kb = kb(stats.free_pages)

\* The arena given to heap_init is one run of adjacent pages.
HeapIsFlat == heap # {} => heap = Min(heap) .. Max(heap)

\* How many pages marked used nobody uses; at the start, the reserved ones.
\* Page 0 is always one of them.
Idle == pmm.used_pages - Cardinality(InUse \ {NULL})

\* The only pages ever lost are those of a directory that could not be made,
\* because there was no second page or it was not adjacent ("Roll back is not
\* tracked here", vmm.c:190), and the second page of a directory that is
\* destroyed.  A mapping that runs out of memory, and every other step, loses
\* none.
OnlyDirectoriesLosePages ==
    [][LET lost == Idle' - Idle
       IN  \/ lost = 0
           \/ lost = 1 /\ \E d \in DOMAIN dirs : vmm_destroy_directory(d)
           \/ lost \in 1 .. 2 /\ dirs' = dirs /\ (vmm_create_directory \/ vmm_init)]_vars

\* vmm_map_region and vmm_map_page do what they are asked: every page that
\* the range touches gets its frame, also when the range starts or ends in the
\* middle of a page or its frames pass 4 GiB, unless memory ran out on the way.
\* The exception is a range that reaches into the last page of the address
\* space, of which vmm_map_region maps nothing (its end wraps, vmm.c:348).
RegionsMapped ==
    [][\A d \in DOMAIN dirs, r \in Regions :
          LET page(i) == r.virt \div PMM_PAGE_SIZE + i
              frame(i) == (r.phys \div PMM_PAGE_SIZE + i) % WordPages
              mapped(i) == \/ vmm_get_physical(d, page(i))' = frame(i)
                           \/ FreePages(pmm') = {}
              more == (r.virt + r.size - 1) \div PMM_PAGE_SIZE - r.virt \div PMM_PAGE_SIZE
          IN  /\ MapPage(d, r, TRUE) => mapped(0)
              /\ MapRegion(d, r, TRUE) =>
                    IF page(more) = WordPages - 1 THEN UNCHANGED vars
                    ELSE \A i \in 0 .. more : mapped(i)]_vars

\* The pages of r from its first to the page last, as a range of the promise.
RangeTo(r, last) == [first |-> r.virt \div PMM_PAGE_SIZE, last |-> last,
                     frame |-> r.phys \div PMM_PAGE_SIZE]

Spaces == INSTANCE AddressSpace
              WITH NumPages <- WordPages,
                   Ranges <- {RangeTo(r, (r.virt + r.size - 1) \div PMM_PAGE_SIZE) : r \in Regions}
                                 \cup {RangeTo(r, r.virt \div PMM_PAGE_SIZE) : r \in Regions},
                   full <- FreePages(pmm) = {},
                   space <- [d \in DOMAIN dirs |->
                                [v \in 0 .. WordPages - 1 |-> vmm_get_physical(d, v)]]

\* Two-level tables in pages shared with every other user of memory implement
\* independent address spaces: mapping, unmapping, creating and destroying in
\* one never changes what vmm_get_physical answers for another.
TablesAreAddressSpaces == Spaces!Spec
============================================================================
