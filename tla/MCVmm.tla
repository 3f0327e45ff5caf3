------------------------------- MODULE MCVmm -------------------------------
EXTENDS Vmm

Ram(addr, len) == [available |-> TRUE, addr |-> addr, len |-> len]

Hole(addr, len) == [available |-> FALSE, addr |-> addr, len |-> len]

\* Pages are of 2 bytes, 1 MiB is page 2, the kernel occupies bytes 4 to 6.
\* One block; two blocks, the first not ending on a page; two blocks with a
\* single page free before the hole; a block that starts in the middle of a
\* page; memory only below the kernel's end; memory up to 2^32; and sizes
\* without a map, the second of 2^32 and a bit.
MCBootInfos ==
    {[mmap |-> <<Ram(0, 3), Ram(4, 22)>>],
     [mmap |-> <<Ram(0, 3), Ram(4, 15), Hole(19, 1), Ram(20, 6)>>],
     [mmap |-> <<Hole(10, 4), Ram(14, 12), Ram(4, 6)>>],
     [mmap |-> <<Ram(0, 3), Hole(4, 5), Ram(9, 13)>>],
     [mmap |-> <<Ram(0, 3)>>],
     [mmap |-> <<Ram(0, 3), Ram(4, 6), Ram(24, 8)>>],
     [mem_kb |-> 12], [mem_kb |-> 17]}

\* One byte of the last page, of which vmm_map_page maps the page and
\* vmm_map_region nothing; a range across two tables that starts and ends in
\* the middle of a page and whose last frame wraps at 4 GiB; and a range of
\* whole pages that shares one with it.
MCRegions == {[virt |-> 30, phys |-> 4, size |-> 1],
              [virt |-> 15, phys |-> 31, size |-> 2],
              [virt |-> 16, phys |-> 8, size |-> 4]}
============================================================================
