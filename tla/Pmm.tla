-------------------------------- MODULE Pmm --------------------------------
(***************************************************************************)
(* The physical page allocator of src/memory/pmm.c.                        *)
(*                                                                         *)
(* Its static variables are the fields of one record, so that a caller     *)
(* that allocates several pages in one call (vmm.c, kernel.c) threads the  *)
(* record through.  The bitmap is the set of the pages whose bit is set;   *)
(* addresses of the boot information are in bytes, and a page address is   *)
(* its page number.  WORD is the number of values of uint32_t, in bytes of *)
(* the model.                                                              *)
(***************************************************************************)
EXTENDS Integers, Sequences, FiniteSets, FiniteSetsExt

CONSTANTS PMM_PAGE_SIZE,      \* bytes in a page
          PMM_BITMAP_PAGES,   \* PMM_BITMAP_SIZE * 8
          PMM_LOW_MEMORY,     \* below it nothing is handed out
          kernel_start,       \* the linker's bounds of the kernel image
          kernel_end,
          KB,                 \* bytes in one unit of mem_lower and mem_upper
          WORD                \* 2^32

ASSUME PmmAssumption ==
    /\ {PMM_PAGE_SIZE, PMM_BITMAP_PAGES, KB, WORD} \subseteq Nat \ {0}
    /\ {PMM_LOW_MEMORY, kernel_start, kernel_end} \subseteq Nat
    /\ WORD % PMM_PAGE_SIZE = 0 /\ PMM_LOW_MEMORY % PMM_PAGE_SIZE = 0
    /\ PMM_PAGE_SIZE % KB = 0
    /\ PMM_PAGE_SIZE <= kernel_start /\ kernel_start < kernel_end

NULL == 0

WordPages == WORD \div PMM_PAGE_SIZE

\* What the boot loader may report: either the flags word has bit 6 and there
\* is a memory map, or only the amount of memory is known.
MmapEntry == [available : BOOLEAN, addr : Nat, len : Nat]

Multiboot == [mmap : Seq(MmapEntry)] \cup [mem_kb : Nat]

bitmap_set(bitmap, page) == bitmap \cup ({page} \cap 0 .. PMM_BITMAP_PAGES - 1)

bitmap_clear(bitmap, page) == bitmap \ {page}

\* A page out of range counts as used.
bitmap_test(bitmap, page) == page >= PMM_BITMAP_PAGES \/ page \in bitmap

\* A bug: the range is rounded inward.
reserve_range_inner(start, end, total) ==
    {page \in 0 .. total - 1 :
        /\ page < PMM_BITMAP_PAGES
        /\ page >= (start + PMM_PAGE_SIZE - 1) \div PMM_PAGE_SIZE
        /\ page < end \div PMM_PAGE_SIZE}

\* The pages [start, end) touches, rounded outward, that are below total.
reserve_range(start, end, total) ==
    {page \in 0 .. total - 1 :
        /\ page < PMM_BITMAP_PAGES
        /\ page >= start \div PMM_PAGE_SIZE
        /\ page < (end + PMM_PAGE_SIZE - 1) \div PMM_PAGE_SIZE}

\* The two parts of the reservation that ends both branches of pmm_init.
Reserved(total) ==
    reserve_range(0, PMM_PAGE_SIZE, total)
        \cup reserve_range(kernel_start, kernel_end, total)

Available(mmap) == {mmap[i] : i \in {j \in DOMAIN mmap : mmap[j].available}}

\* The end of the highest available region, 0 when there is none.
RegionEnd(mmap) == Max({0} \cup {e.addr + e.len : e \in Available(mmap)})

\* A bug: the used pages are counted before the reservations.
Booted_count_early(total, top, clear) ==
    LET bitmap == (0 .. PMM_BITMAP_PAGES - 1) \ clear
    IN  [bitmap |-> bitmap \cup Reserved(total),
         total_pages |-> total,
         max_physical_address |-> top,
         used_pages |-> Cardinality({page \in 0 .. total - 1 : bitmap_test(bitmap, page)})]

\* The state pmm_init leaves when the pages of clear were cleared first.
Booted(total, top, clear) ==
    LET bitmap == ((0 .. PMM_BITMAP_PAGES - 1) \ clear) \cup Reserved(total)
    IN  [bitmap |-> bitmap,
         total_pages |-> total,
         max_physical_address |-> top,
         used_pages |-> Cardinality({page \in 0 .. total - 1 : bitmap_test(bitmap, page)})]

\* Without a memory map the size is computed in 32 bits.
pmm_init_basic(mboot) ==
    LET bytes == (mboot.mem_kb * KB) % WORD
        total == bytes \div PMM_PAGE_SIZE
    IN  Booted(total, bytes, (PMM_LOW_MEMORY \div PMM_PAGE_SIZE) .. total - 1)

\* With one, the available regions that start at or above 1 MiB are cleared.
pmm_init_mmap(mboot) ==
    LET top == RegionEnd(mboot.mmap)
        total == Min({top \div PMM_PAGE_SIZE, PMM_BITMAP_PAGES})
        pages(e) == {page \in 0 .. total - 1 :
                        /\ page >= e.addr \div PMM_PAGE_SIZE
                        /\ page < (e.addr + e.len) \div PMM_PAGE_SIZE}
    IN  Booted(total, top,
               UNION {pages(e) : e \in {a \in Available(mboot.mmap) :
                                            a.addr >= PMM_LOW_MEMORY}})

pmm_init(mboot) == IF "mmap" \in DOMAIN mboot THEN pmm_init_mmap(mboot)
                                              ELSE pmm_init_basic(mboot)

FreePages(pmm) ==
    {page \in 0 .. pmm.total_pages - 1 : ~ bitmap_test(pmm.bitmap, page)}

\* First fit.  The result is the page address, computed in 32 bits.
pmm_alloc_page(pmm) ==
    IF FreePages(pmm) = {} THEN [pmm |-> pmm, page |-> NULL]
    ELSE LET page == Min(FreePages(pmm))
         IN  [pmm |-> [pmm EXCEPT !.bitmap = bitmap_set(@, page), !.used_pages = @ + 1],
              page |-> page % WordPages]

\* A page out of range or free already is ignored.
pmm_free_page(pmm, page) ==
    IF page < pmm.total_pages /\ bitmap_test(pmm.bitmap, page)
    THEN [pmm EXCEPT !.bitmap = bitmap_clear(@, page), !.used_pages = @ - 1]
    ELSE pmm

pmm_mark_used(pmm, page) ==
    IF page < pmm.total_pages /\ ~ bitmap_test(pmm.bitmap, page)
    THEN [pmm EXCEPT !.bitmap = bitmap_set(@, page), !.used_pages = @ + 1]
    ELSE pmm

pmm_mark_free(pmm, page) == pmm_free_page(pmm, page)

pmm_is_page_free(pmm, page) == page < pmm.total_pages /\ ~ bitmap_test(pmm.bitmap, page)

\* The amounts in KiB are computed in 32 bits.
pmm_get_stats(pmm) ==
    LET kb(pages) == ((pages * PMM_PAGE_SIZE) % WORD) \div KB
    IN  [total_pages |-> pmm.total_pages,
         used_pages |-> pmm.used_pages,
         free_pages |-> pmm.total_pages - pmm.used_pages,
         total_memory_kb |-> kb(pmm.total_pages),
         used_memory_kb |-> kb(pmm.used_pages),
         free_memory_kb |-> (kb(pmm.total_pages) - kb(pmm.used_pages)) % WORD]

pmm_get_max_address(pmm) ==
    Min({pmm.max_physical_address, pmm.total_pages * PMM_PAGE_SIZE}) % WORD
============================================================================
