----------------------------- MODULE BootMemory -----------------------------
(***************************************************************************)
(* init_memory() of memory.c: from the memory map of the BIOS, left by the *)
(* loader, to the free list of page frames.  Regions may begin and end     *)
(* inside a page, reach below the end of the kernel and above the limit.   *)
(* Frames and addresses are physical; frame p is the page at p * PAGE_SIZE. *)
(***************************************************************************)
EXTENDS Integers, SequencesExt

CONSTANTS
  PAGE_SIZE,     \* 2 MB
  kernel_end,    \* where the kernel's image ends
  MEMORY_LIMIT   \* memory from here on is not used (the disk image is there)

ASSUME BootAssumption ==
  /\ PAGE_SIZE \in Nat \ {0}
  /\ kernel_end \in Nat /\ MEMORY_LIMIT \in Nat

\* A region of the memory map; type 1 is usable memory.
E820 == [address : Nat, length : Nat, type : Nat]
RegionEnd(region) == region.address + region.length

PA_UP(v) == ((v + PAGE_SIZE - 1) \div PAGE_SIZE) * PAGE_SIZE

\* free_region(v, e) on the free list free: the pages are pushed from the
\* lowest on.
free_region(free, v, e) ==
  LET first == PA_UP(v) \div PAGE_SIZE
      last == (IF e <= MEMORY_LIMIT THEN e ELSE MEMORY_LIMIT) \div PAGE_SIZE - 1
  IN  [k \in 1 .. last - first + 1 |-> last - k + 1] \o free

FreeRegion(free, region) ==
  IF region.type = 1 /\ region.address > kernel_end
    THEN free_region(free, region.address, RegionEnd(region))
  ELSE IF region.type = 1 /\ RegionEnd(region) > kernel_end
    THEN free_region(free, kernel_end, RegionEnd(region))
  ELSE free

\* One region after the other, in the order of the map.
init_memory(map) ==
  LET free[n \in 0 .. Len(map)] ==
        IF n = 0 THEN <<>> ELSE FreeRegion(free[n - 1], map[n])
  IN  free[Len(map)]

\* The reference: the pages that lie in one usable region, behind the kernel
\* and below the limit.
UsablePages(map) ==
  {p \in 0 .. MEMORY_LIMIT \div PAGE_SIZE - 1 :
     /\ p * PAGE_SIZE >= kernel_end
     /\ \E i \in DOMAIN map :
          /\ map[i].type = 1
          /\ map[i].address <= p * PAGE_SIZE
          /\ (p + 1) * PAGE_SIZE <= RegionEnd(map[i])}
=============================================================================
