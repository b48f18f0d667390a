----------------------------- MODULE PageTables -----------------------------
(***************************************************************************)
(* The page allocator and the address spaces of memory.c, as operators on  *)
(* a heap: the free list, the entries of the pages used as tables, and     *)
(* whether an ASSERT has failed.                                           *)
(*                                                                         *)
(* An address space maps two regions: the kernel's first gigabyte (shared  *)
(* frames, never freed) and the one user page at 0x400000.  The path to    *)
(* each goes through one entry of the PML4 table, one of a page directory  *)
(* pointer table and one of a page directory, so the entries of a table    *)
(* are indexed by region; the 512 directory entries of the kernel region   *)
(* are one.  What a page holds that is not a table is "junk", and a page   *)
(* holds its old contents until it is cleared.                             *)
(***************************************************************************)
EXTENDS Integers, SequencesExt

CONSTANT Page   \* the 2 MB page frames between the kernel's end and the limit

ASSUME PageAssumption == Page \subseteq Nat \ {0}

NULL == 0
Region == {"user", "kernel"}
KernelFrame == -1   \* a present entry that maps the kernel's own frames
Junk == -2          \* whatever was there

Entry == Page \cup {NULL, KernelFrame, Junk}
Heap == [free : Seq(Page), table : [Page -> [Region -> Entry]], failed : BOOLEAN]
Present(e) == e # NULL
Cleared == [r \in Region |-> NULL]

\* A page as the boot code leaves it, and every page on the free list.
FreshHeap(free) ==
  [free |-> free, table |-> [p \in Page |-> [r \in Region |-> Junk]], failed |-> FALSE]

\* kfree(): ASSERTs that v is a page of the pool, pushes it, and overwrites its
\* first bytes with the link; whatever else it holds stays.
kfree(h, v) ==
  IF v \notin Page THEN [h EXCEPT !.failed = TRUE]
  ELSE [h EXCEPT !.free = <<v>> \o @]

\* kalloc() and the memset that follows every call of it.
kalloc_cleared(h) ==
  IF h.free = <<>> THEN [page |-> NULL, heap |-> h]
  ELSE [page |-> Head(h.free),
        heap |-> [h EXCEPT !.free = Tail(@), !.table[Head(h.free)] = Cleared]]

\* The table that entry r of table t points to, made on the way if alloc.
NextTable(h, t, r, alloc) ==
  IF Present(h.table[t][r]) THEN [page |-> h.table[t][r], heap |-> h]
  ELSE IF ~alloc THEN [page |-> NULL, heap |-> h]
  ELSE LET a == kalloc_cleared(h)
       IN  IF a.page = NULL THEN a
           ELSE [a EXCEPT !.heap.table[t][r] = a.page]

find_pdpt_entry(h, map, r, alloc) ==
  LET pdpt == NextTable(h, map, r, alloc)
  IN  IF pdpt.page = NULL THEN pdpt ELSE NextTable(pdpt.heap, pdpt.page, r, alloc)

\* An ASSERT of the condition c.
Asserted(h, c) == IF c THEN h ELSE [h EXCEPT !.failed = TRUE]

\* map_pages() of region r to frame: ASSERTs that the region is not mapped.
MapInto(pd, r, frame) ==
  IF pd.page = NULL THEN [ok |-> FALSE, heap |-> pd.heap]
  ELSE [ok |-> TRUE,
        heap |-> Asserted([pd.heap EXCEPT !.table[pd.page][r] = frame],
                          ~Present(pd.heap.table[pd.page][r]))]
map_pages(h, map, r, frame) == MapInto(find_pdpt_entry(h, map, r, TRUE), r, frame)

free_pages(h, map) ==
  LET pd == find_pdpt_entry(h, map, "user", FALSE).page
  IN  IF pd = NULL \/ ~Present(h.table[pd]["user"]) THEN h
      ELSE [kfree(h, h.table[pd]["user"]) EXCEPT !.table[pd]["user"] = NULL]

\* free_pdt(): the page directory of region r.
FreeDirectory(h, map, r) ==
  LET pdpt == h.table[map][r]
  IN  IF ~Present(pdpt) \/ ~Present(h.table[pdpt][r]) THEN h
      ELSE [kfree(h, h.table[pdpt][r]) EXCEPT !.table[pdpt][r] = NULL]

\* free_pdpt(): the page directory pointer table of region r.
FreePointerTable(h, map, r) ==
  IF ~Present(h.table[map][r]) THEN h
  ELSE [kfree(h, h.table[map][r]) EXCEPT !.table[map][r] = NULL]

\* Slips: free_vm() frees the frames of the kernel region too; or the pointer
\* tables before it has followed them.
free_vm_kernel_too(h, map) ==
  LET pd == find_pdpt_entry(h, map, "kernel", FALSE).page
      h1 == IF pd = NULL THEN h ELSE kfree(free_pages(h, map), h.table[pd]["kernel"])
      h2 == FreeDirectory(FreeDirectory(h1, map, "user"), map, "kernel")
      h3 == FreePointerTable(FreePointerTable(h2, map, "user"), map, "kernel")
  IN  kfree(h3, map)
free_vm_top_down(h, map) ==
  LET h1 == free_pages(h, map)
      h2 == FreePointerTable(FreePointerTable(h1, map, "user"), map, "kernel")
      h3 == FreeDirectory(FreeDirectory(h2, map, "user"), map, "kernel")
  IN  kfree(h3, map)

free_vm(h, map) ==
  LET h1 == free_pages(h, map)
      h2 == FreeDirectory(FreeDirectory(h1, map, "user"), map, "kernel")
      h3 == FreePointerTable(FreePointerTable(h2, map, "user"), map, "kernel")
  IN  kfree(h3, map)

\* Slip: a setup_kvm() that fails keeps what it has.
setup_kvm_leaky(h) ==
  LET a == kalloc_cleared(h)
      m == map_pages(a.heap, a.page, "kernel", KernelFrame)
  IN  IF a.page = NULL THEN a
      ELSE [page |-> IF m.ok THEN a.page ELSE NULL, heap |-> m.heap]

OrFreed(m, map) ==
  IF m.ok THEN [page |-> map, heap |-> m.heap]
  ELSE [page |-> NULL, heap |-> free_vm(m.heap, map)]
setup_kvm(h) ==
  LET a == kalloc_cleared(h)
  IN  IF a.page = NULL THEN a
      ELSE OrFreed(map_pages(a.heap, a.page, "kernel", KernelFrame), a.page)

\* Slip: a page that cannot be mapped is not freed with the tables.
OrTablesFreed(m, page, map) ==
  IF m.ok THEN m ELSE [ok |-> FALSE, heap |-> free_vm(m.heap, map)]

\* What setup_uvm() and copy_uvm() share: a cleared page, mapped as the user
\* page.  If the first kalloc fails, the address space is left as it is; if the
\* mapping fails, all of it is freed.
OrAllFreed(m, page, map) ==
  IF m.ok THEN m ELSE [ok |-> FALSE, heap |-> free_vm(kfree(m.heap, page), map)]
MapUserPage(h, map) ==
  LET a == kalloc_cleared(h)
  IN  IF a.page = NULL THEN [ok |-> FALSE, heap |-> h]
      ELSE OrAllFreed(map_pages(a.heap, map, "user", a.page), a.page, map)

setup_uvm(h, map) == MapUserPage(h, map)

CopyPage(m, dst, pd) ==
  IF ~m.ok THEN m
  ELSE IF pd = NULL THEN [ok |-> FALSE, heap |-> free_vm(m.heap, dst)]
  ELSE [ok |-> TRUE, heap |-> Asserted(m.heap, Present(m.heap.table[pd]["user"]))]
CopyMapped(m, dst, src) ==
  CopyPage(m, dst, find_pdpt_entry(m.heap, src, "user", FALSE).page)
copy_uvm(h, dst, src) == CopyMapped(MapUserPage(h, dst), dst, src)

\* The memory part of alloc_new_process(): a kernel stack and an address space.
\* A slot whose stack cannot be had stays PROC_INIT; one whose address space
\* cannot be had is cleared.
WithStack(stack, m) ==
  IF m.page = NULL
    THEN [slot |-> "UNUSED", stack |-> NULL, map |-> NULL, heap |-> kfree(m.heap, stack)]
    ELSE [slot |-> "INIT", stack |-> stack, map |-> m.page, heap |-> m.heap]
NewProcessMemory(h) ==
  LET s == kalloc_cleared(h)
  IN  IF s.page = NULL
        THEN [slot |-> "INIT", stack |-> NULL, map |-> NULL, heap |-> h]
      ELSE WithStack(s.page, setup_kvm(s.heap))

\* The memory part of fork(): a process with a copy of the user page.
Outcome(copy, m) ==
  [ok |-> copy.ok, slot |-> m.slot, stack |-> m.stack, map |-> m.map, heap |-> copy.heap]
WithCopy(m, src) ==
  Outcome(IF m.map = NULL THEN [ok |-> FALSE, heap |-> m.heap]
                          ELSE copy_uvm(m.heap, m.map, src), m)
ForkMemory(h, src) == WithCopy(NewProcessMemory(h), src)

\* The pages an address space is made of, as its tables say.
PagesOf(h, map) ==
  LET tables == {map} \cup {h.table[map][r] : r \in Region}
      dirs == {h.table[h.table[map][r]][r] :
                 r \in {x \in Region : Present(h.table[map][x])}}
      user == find_pdpt_entry(h, map, "user", FALSE).page
  IN  (tables \cup dirs \cup (IF user = NULL THEN {} ELSE {h.table[user]["user"]})) \ {NULL}
=============================================================================
