------------------------------- MODULE Memory -------------------------------
(***************************************************************************)
(* The process core with the memory its processes own: fork() takes a      *)
(* kernel stack and an address space from the free list, wait() gives them *)
(* back, exit() leaves them to the corpse (it still runs on that stack).   *)
(* Pages may run out at any point of a fork, which then stops the machine. *)
(***************************************************************************)
EXTENDS Process, PageTables, BootMemory

CONSTANT E820Maps   \* the memory maps a machine may have

\* A map lists disjoint regions and leaves the 12 pages that the boot takes.
ASSUME MemoryAssumption ==
  \A map \in E820Maps :
    /\ map \in Seq(E820)
    /\ Len(map) <= 50   \* the ASSERT of init_memory()
    /\ \A i, j \in DOMAIN map : i # j =>
         RegionEnd(map[i]) <= map[j].address \/ RegionEnd(map[j]) <= map[i].address
    /\ UsablePages(map) \subseteq Page
    /\ Cardinality(UsablePages(map)) >= 12

PER_PROCESS == 7   \* stack, PML4 table, and per region two tables; user page
IDLE_PAGES == 3    \* the tables of the idle process
FS_PAGES == 2      \* fcb_table and file_desc_table

VARIABLES
  pool,      \* the usable pages of this machine
  heap,      \* free list and tables
  fs_pages,  \* the pages init_fs() took
  stack,     \* Process.stack of every slot
  page_map   \* Process.page_map of every slot

memvars == <<pool, heap, fs_pages, stack, page_map>>
mvars == <<vars, memvars>>

(***************************************************************************)
(* What is left by init_memory(), init_kvm(), init_fs() and                *)
(* init_process(), in the order of KMain().                                *)
(***************************************************************************)
WithUser(proc) == [proc EXCEPT !.heap = setup_uvm(@, proc.map).heap]
WithInit(boot) ==
  LET proc == WithUser(NewProcessMemory(boot.heap))
  IN  [idle_map |-> boot.idle_map, fs_pages |-> boot.fs_pages,
       stack |-> proc.stack, map |-> proc.map, heap |-> proc.heap]
WithFs(kvm) ==
  LET fcb == kalloc_cleared(kvm.heap)
      desc == kalloc_cleared(fcb.heap)
  IN  [idle_map |-> kvm.page, fs_pages |-> {fcb.page, desc.page}, heap |-> desc.heap]
Booted(map) == WithInit(WithFs(setup_kvm(FreshHeap(init_memory(map)))))

MInit ==
  /\ Init
  /\ \E map \in E820Maps : \E boot \in {Booted(map)} :
       /\ pool = UsablePages(map)
       /\ heap = boot.heap
       /\ fs_pages = boot.fs_pages
       /\ stack = [p \in Slot |-> IF p = InitProc THEN boot.stack ELSE NULL]
       /\ page_map = [p \in Slot |-> CASE p = Idle -> boot.idle_map
                                       [] p = InitProc -> boot.map
                                       [] OTHER -> NULL]

\* What a fork that got as far as m keeps.
Keep(m) ==
  /\ heap' = m.heap
  /\ stack' = [stack EXCEPT ![FirstFree] = m.stack]
  /\ page_map' = [page_map EXCEPT ![FirstFree] = m.map]
  /\ UNCHANGED <<pool, fs_pages>>

\* Memory ran out: the slot and the pid are already taken, and ASSERT(0) stops
\* the machine with the slot half made.
HalfMade(m) ==
  /\ state' = [state EXCEPT ![FirstFree] = m.slot]
  /\ pid' = [pid EXCEPT ![FirstFree] = IF m.slot = "UNUSED" THEN 0 ELSE pid_num]
  /\ pid_num' = pid_num + 1
  /\ panic' = "fork"
  /\ UNCHANGED <<kstack, current_process, ready_list, wait_list, kill_list, ticks>>

\* fork() with memory.
MFork ==
  \/ FreeSlots = {} /\ SysFork /\ UNCHANGED memvars
  \/ /\ InSyscall
     /\ FreeSlots # {}
     /\ \E m \in {ForkMemory(heap, page_map[current_process])} :
          /\ Keep(m)
          /\ IF m.ok THEN SysFork ELSE HalfMade(m)

\* Slip: wait() frees the address space only.
ReleaseMapOnly(z) ==
  /\ heap' = free_vm(heap, page_map[z])
  /\ stack' = [stack EXCEPT ![z] = NULL]
  /\ page_map' = [page_map EXCEPT ![z] = NULL]
  /\ UNCHANGED <<pool, fs_pages>>

\* What the wait() that collects z frees.
Release(z) ==
  /\ heap' = free_vm(kfree(heap, stack[z]), page_map[z])
  /\ stack' = [stack EXCEPT ![z] = NULL]
  /\ page_map' = [page_map EXCEPT ![z] = NULL]
  /\ UNCHANGED <<pool, fs_pages>>

\* The memory side of a turn of wait(): it releases the corpse it takes.
ReleaseCollected ==
  IF kill_list' \subseteq kill_list /\ kill_list' # kill_list
  THEN \E z \in kill_list \ kill_list' : Release(z)
  ELSE UNCHANGED memvars

(***************************************************************************)
(* Properties.                                                             *)
(***************************************************************************)
UsedSlots == {p \in Slot : state[p] # "UNUSED"}
Owned(p) == ({stack[p]} \ {NULL}) \cup PagesOf(heap, page_map[p])
                \cup IF p = Idle THEN fs_pages ELSE {}
BOOT_PAGES == IDLE_PAGES + FS_PAGES

\* Every page is in exactly one place: once on the free list, or in exactly one
\* process (alive or dead; the file tables are counted with the idle process),
\* and there in exactly one role; no usable page is lost, from the boot on.
PagesPartitioned ==
  panic = "none" =>
    /\ IsInjective(heap.free)
    /\ \A p \in UsedSlots :
         /\ Owned(p) \cap Range(heap.free) = {}
         /\ Cardinality(Owned(p)) = IF p = Idle THEN BOOT_PAGES ELSE PER_PROCESS
    /\ \A p, q \in UsedSlots : p # q => Owned(p) \cap Owned(q) = {}
    /\ Range(heap.free) \cup UNION {Owned(p) : p \in UsedSlots} = pool

\* No ASSERT of memory.c fails: what is freed is a page of the pool, nothing is
\* mapped twice, and the page copied by fork is there.
MemoryAssertsHold == ~heap.failed

\* The processes and corpses, and the idle process in the place of the one that
\* fork was about to make.
Holders == {p \in Slot : state[p] \notin {"UNUSED", "INIT"}}

\* Memory stops a fork only when there really is none: with a free slot, a fork
\* fails only if the pages of the boot, of the processes and corpses, and of
\* one process more exceed the pool.  With 7 pages for each slot it never does.
ForkFailsOnlyWhenFull ==
  panic = "fork" =>
    \/ FreeSlots = {}
    \/ BOOT_PAGES + PER_PROCESS * Cardinality(Holders) > Cardinality(pool)

\* What a half-made process keeps: its stack, and its address space unless that
\* has been freed again.
Kept(p) ==
  ({stack[p]} \cup IF page_map[p] \in Page \ Range(heap.free)
                     THEN PagesOf(heap, page_map[p]) ELSE {}) \ {NULL}

\* A fork that runs out of memory loses no page and frees none twice: when it has
\* stopped the machine, every page is free, or with its process or corpse, or
\* still with the half-made child - in copy_uvm(), the page that could not be
\* mapped and the tables are free again, and after its first kalloc() the
\* tables are still linked.
FailedForkLosesNothing ==
  panic = "fork" =>
    LET owned == UNION {Owned(p) : p \in Holders}
        kept == UNION {Kept(p) : p \in {x \in Slot : state[x] = "INIT"}}
    IN  /\ IsInjective(heap.free)
        /\ Range(heap.free) \cap (owned \cup kept) = {}
        /\ owned \cap kept = {}
        /\ Range(heap.free) \cup owned \cup kept = pool

\* Creating a process is all or nothing: wherever kalloc() first fails, the
\* pages taken before are back on the free list.
FailedAllocGivesBack ==
  \A n \in 0 .. PER_PROCESS :
    n <= Len(heap.free) =>
      LET m == NewProcessMemory([heap EXCEPT !.free = SubSeq(@, 1, n)])
      IN  m.map # NULL \/ Range(m.heap.free) = Range(SubSeq(heap.free, 1, n))
=============================================================================
