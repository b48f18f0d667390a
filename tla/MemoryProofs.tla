---------------------------- MODULE MemoryProofs ----------------------------
(***************************************************************************)
(* The memory invariants of Memory and Context hold for every number of    *)
(* slots, every machine and every memory map.                              *)
(*                                                                         *)
(* The heap is reasoned about through the set of its free pages and the    *)
(* set of pages an address space is made of: each operation of memory.c    *)
(* moves pages from one set to the other and loses none, also where it     *)
(* fails half way and takes everything back.                               *)
(***************************************************************************)
EXTENDS Context, ProcessProofs

-----------------------------------------------------------------------------
(***************************************************************************)
(* The free list.                                                          *)
(***************************************************************************)

\* A heap of the right type whose free list has no page twice.
Sound(h) == h \in Heap /\ IsInjective(h.free)
FreeSet(h) == Range(h.free)

\* What the fields of a heap are.
LEMMA HeapFields ==
  ASSUME NEW h, Sound(h)
  PROVE  /\ h.free \in Seq(Page) /\ IsInjective(h.free) /\ FreeSet(h) \subseteq Page
         /\ h.table \in [Page -> [Region -> Entry]]
         /\ h.failed \in BOOLEAN
         /\ Len(h.free) \in Nat
         /\ h.free = <<>> <=> Len(h.free) = 0
         /\ h = [free |-> h.free, table |-> h.table, failed |-> h.failed]
         /\ NULL \notin Page
<1>1. h.free \in Seq(Page) /\ IsInjective(h.free)
  BY DEF Sound, Heap
<1>2. FreeSet(h) \subseteq Page
  BY <1>1, RangeOfSeq DEF FreeSet, Range
<1>3. Len(h.free) \in Nat /\ (h.free = <<>> <=> Len(h.free) = 0)
  BY <1>1, EmptySeq, LenProperties
<1>4. NULL \notin Page
  BY PageAssumption DEF NULL
<1> QED BY <1>1, <1>2, <1>3, <1>4 DEF Sound, Heap

\* A heap with another free list and other tables is a heap.
LEMMA HeapMade ==
  ASSUME NEW free \in Seq(Page), IsInjective(free),
         NEW table \in [Page -> [Region -> Entry]], NEW failed \in BOOLEAN
  PROVE  Sound([free |-> free, table |-> table, failed |-> failed])
BY DEF Sound, Heap

\* kfree() of a page that is not free: it becomes free, and nothing else
\* happens.
LEMMA FreePage ==
  ASSUME NEW h, Sound(h), NEW v \in Page, v \notin FreeSet(h)
  PROVE  LET g == kfree(h, v)
         IN  /\ Sound(g)
             /\ FreeSet(g) = FreeSet(h) \cup {v}
             /\ Len(g.free) = Len(h.free) + 1
             /\ g.table = h.table
             /\ g.failed = h.failed
<1>1. /\ h.free \in Seq(Page) /\ IsInjective(h.free)
      /\ h.table \in [Page -> [Region -> Entry]] /\ h.failed \in BOOLEAN
      /\ h = [free |-> h.free, table |-> h.table, failed |-> h.failed]
  BY HeapFields
<1>2. kfree(h, v) = [free |-> <<v>> \o h.free, table |-> h.table, failed |-> h.failed]
  BY <1>1 DEF kfree
<1>3. /\ <<v>> \in Seq(Page) /\ Range(<<v>>) = {v} /\ IsInjective(<<v>>) /\ Len(<<v>>) = 1
  BY DEF Range, IsInjective
<1>4. PICK s \in Seq(Page) : s = <<v>> /\ Range(s) = {v} /\ IsInjective(s) /\ Len(s) = 1
  BY <1>3
<1>5. Range(s) \cap Range(h.free) = {}
  BY <1>4 DEF FreeSet
<1>6. /\ s \o h.free \in Seq(Page)
      /\ Range(s \o h.free) = {v} \cup Range(h.free)
      /\ IsInjective(s \o h.free)
  <2>1. ASSUME NEW q \in Seq(Page), IsInjective(q), Range(q) = {v}, Range(q) \cap Range(h.free) = {}
        PROVE  /\ q \o h.free \in Seq(Page)
               /\ Range(q \o h.free) = {v} \cup Range(h.free)
               /\ IsInjective(q \o h.free)
    BY <1>1, <2>1, ConcatQueue
  <2> QED BY <1>4, <1>5, <2>1
<1>7. Len(s \o h.free) = Len(h.free) + 1
  BY <1>1, <1>4, ConcatProperties, LenProperties
<1>8. Sound([free |-> s \o h.free, table |-> h.table, failed |-> h.failed])
  BY <1>1, <1>6, HeapMade
<1> QED BY <1>2, <1>4, <1>6, <1>7, <1>8 DEF FreeSet

\* kalloc() takes the first free page, if there is one, and its caller clears
\* it.
LEMMA TakePage ==
  ASSUME NEW h, Sound(h)
  PROVE  LET a == kalloc_cleared(h)
         IN  /\ h.free = <<>> => a.page = NULL /\ a.heap = h
             /\ h.free # <<>> =>
                  /\ a.page \in Page /\ a.page # NULL
                  /\ a.page \in FreeSet(h)
                  /\ Sound(a.heap)
                  /\ FreeSet(a.heap) = FreeSet(h) \ {a.page}
                  /\ Len(a.heap.free) = Len(h.free) - 1
                  /\ a.heap.table = [h.table EXCEPT ![a.page] = Cleared]
                  /\ a.heap.failed = h.failed
<1>1. /\ h.free \in Seq(Page) /\ IsInjective(h.free)
      /\ h.table \in [Page -> [Region -> Entry]] /\ h.failed \in BOOLEAN
      /\ h = [free |-> h.free, table |-> h.table, failed |-> h.failed]
      /\ NULL \notin Page
  BY HeapFields
<1>2. CASE h.free = <<>>
  BY <1>2 DEF kalloc_cleared
<1>3. CASE h.free # <<>>
  <2> DEFINE v == Head(h.free)
             t == [h.table EXCEPT ![v] = Cleared]
  <2>1. /\ v \in Page /\ v \in Range(h.free) /\ Tail(h.free) \in Seq(Page)
        /\ Range(Tail(h.free)) = Range(h.free) \ {v} /\ IsInjective(Tail(h.free))
    BY <1>1, <1>3, TailQueue
  <2>2. Len(Tail(h.free)) = Len(h.free) - 1
    BY <1>1, <1>3, HeadTailProperties
  <2>3. Cleared \in [Region -> Entry]
    BY DEF Cleared, Entry
  <2>4. t \in [Page -> [Region -> Entry]]
    BY <1>1, <2>1, <2>3
  <2>5. /\ kalloc_cleared(h).page = v
        /\ kalloc_cleared(h).heap = [free |-> Tail(h.free), table |-> t, failed |-> h.failed]
    BY <1>1, <1>3 DEF kalloc_cleared
  <2> HIDE DEF v, t
  <2>6. Sound([free |-> Tail(h.free), table |-> t, failed |-> h.failed])
    BY <1>1, <2>1, <2>4, HeapMade
  <2>7. t = [h.table EXCEPT ![v] = Cleared]
    BY DEF t
  <2> QED BY <1>1, <1>3, <2>1, <2>2, <2>5, <2>6, <2>7 DEF FreeSet
<1> QED BY <1>2, <1>3

-----------------------------------------------------------------------------
(***************************************************************************)
(* Address spaces: what the tables t say about the one with the root map.  *)
(***************************************************************************)
Pdpt(t, map, r) == t[map][r]
Pd(t, map, r) == IF t[map][r] = NULL THEN NULL ELSE t[t[map][r]][r]
UserPage(t, map) == IF Pd(t, map, "user") = NULL THEN NULL ELSE t[Pd(t, map, "user")]["user"]

\* No page but NULL twice among six.
Apart(a, b, c, d, e, f) ==
  /\ a \notin {b, c, d, e, f}
  /\ b # NULL => b \notin {c, d, e, f}
  /\ c # NULL => c \notin {d, e, f}
  /\ d # NULL => d \notin {e, f}
  /\ e # NULL => e # f

\* A space, perhaps incomplete: a tree of different pages.
Space(t, map) ==
  /\ map \in Page
  /\ \A r \in Region : Pdpt(t, map, r) \in Page \cup {NULL} /\ Pd(t, map, r) \in Page \cup {NULL}
  /\ UserPage(t, map) \in Page \cup {NULL}
  /\ Apart(map, Pdpt(t, map, "user"), Pdpt(t, map, "kernel"),
           Pd(t, map, "user"), Pd(t, map, "kernel"), UserPage(t, map))

PagesIn(t, map) ==
  {map, Pdpt(t, map, "user"), Pdpt(t, map, "kernel"),
   Pd(t, map, "user"), Pd(t, map, "kernel"), UserPage(t, map)} \ {NULL}

\* A lookup that makes no tables.
LEMMA LookUp ==
  ASSUME NEW h, NEW map, NEW r
  PROVE  find_pdpt_entry(h, map, r, FALSE).page = Pd(h.table, map, r)
<1>1. \A x : NextTable(h, x, r, FALSE).page = h.table[x][r]
  BY DEF NextTable, Present
<1>2. NextTable(h, map, r, FALSE).heap = h
  BY DEF NextTable
<1>3. CASE h.table[map][r] = NULL
  <2>1. find_pdpt_entry(h, map, r, FALSE) = NextTable(h, map, r, FALSE)
    BY <1>1, <1>3 DEF find_pdpt_entry
  <2>2. Pd(h.table, map, r) = NULL
    BY <1>3 DEF Pd
  <2> QED BY <1>1, <1>3, <2>1, <2>2
<1>4. CASE h.table[map][r] # NULL
  <2>1. find_pdpt_entry(h, map, r, FALSE) = NextTable(h, h.table[map][r], r, FALSE)
    BY <1>1, <1>2, <1>4 DEF find_pdpt_entry
  <2>2. Pd(h.table, map, r) = h.table[h.table[map][r]][r]
    BY <1>4 DEF Pd
  <2> QED BY <1>1, <2>1, <2>2
<1> QED BY <1>3, <1>4

\* The pages of a space, as Memory counts them.
LEMMA PagesOfSpace ==
  ASSUME NEW h, NEW map
  PROVE  PagesOf(h, map) = PagesIn(h.table, map)
<1>1. find_pdpt_entry(h, map, "user", FALSE).page = Pd(h.table, map, "user")
  BY LookUp
<1>2. {map} \cup {h.table[map][r] : r \in Region}
        = {map, Pdpt(h.table, map, "user"), Pdpt(h.table, map, "kernel")}
  BY DEF Region, Pdpt
<1>3. {h.table[h.table[map][r]][r] : r \in {x \in Region : Present(h.table[map][x])}} \ {NULL}
        = {Pd(h.table, map, "user"), Pd(h.table, map, "kernel")} \ {NULL}
  BY DEF Region, Pd, Present
<1>4. (IF Pd(h.table, map, "user") = NULL THEN {}
       ELSE {h.table[Pd(h.table, map, "user")]["user"]}) \ {NULL}
        = {UserPage(h.table, map)} \ {NULL}
  BY DEF UserPage
<1> QED BY <1>1, <1>2, <1>3, <1>4 DEF PagesOf, PagesIn

-----------------------------------------------------------------------------
(***************************************************************************)
(* Giving back.                                                            *)
(***************************************************************************)

\* Freeing the page that an entry points to, and clearing the entry.
LEMMA FreeEntry ==
  ASSUME NEW h, Sound(h), NEW v \in Page, v \notin FreeSet(h), NEW p \in Page, NEW r \in Region
  PROVE  LET g == [kfree(h, v) EXCEPT !.table[p][r] = NULL]
         IN  /\ Sound(g)
             /\ FreeSet(g) = FreeSet(h) \cup {v}
             /\ g.failed = h.failed
             /\ \A q \in Page : q # p => g.table[q] = h.table[q]
             /\ \A s \in Region : s # r => g.table[p][s] = h.table[p][s]
             /\ g.table[p][r] = NULL
<1>1. PICK k : /\ k = kfree(h, v) /\ Sound(k) /\ FreeSet(k) = FreeSet(h) \cup {v}
               /\ k.table = h.table /\ k.failed = h.failed
  BY FreePage
<1>2. /\ k.free \in Seq(Page) /\ IsInjective(k.free)
      /\ k.table \in [Page -> [Region -> Entry]] /\ k.failed \in BOOLEAN
      /\ k = [free |-> k.free, table |-> k.table, failed |-> k.failed]
  BY <1>1, HeapFields
<1> DEFINE t == [k.table EXCEPT ![p][r] = NULL]
<1>3. t \in [Page -> [Region -> Entry]]
  BY <1>2 DEF Entry
<1>4. /\ \A q \in Page : q # p => t[q] = h.table[q]
      /\ \A s \in Region : s # r => t[p][s] = h.table[p][s]
      /\ t[p][r] = NULL
  BY <1>1, <1>2
<1>5. [k EXCEPT !.table[p][r] = NULL] = [free |-> k.free, table |-> t, failed |-> k.failed]
  <2>1. PICK x, y, z : k = [free |-> x, table |-> y, failed |-> z]
    BY <1>2
  <2>2. [k EXCEPT !.table[p][r] = NULL]
          = [free |-> x, table |-> [y EXCEPT ![p][r] = NULL], failed |-> z]
    BY <2>1
  <2>3. k.free = x /\ k.table = y /\ k.failed = z
    BY <2>1
  <2> QED BY <2>2, <2>3
<1> HIDE DEF t
<1>6. Sound([free |-> k.free, table |-> t, failed |-> k.failed])
  BY <1>2, <1>3, HeapMade
<1> QED BY <1>1, <1>4, <1>5, <1>6 DEF FreeSet

\* free_pages() frees the user page, if there is one.
LEMMA FreeUserPage ==
  ASSUME NEW h, Sound(h), NEW map, Space(h.table, map), PagesIn(h.table, map) \cap FreeSet(h) = {}
  PROVE  LET g == free_pages(h, map)
         IN  /\ Sound(g)
             /\ FreeSet(g) = FreeSet(h) \cup ({UserPage(h.table, map)} \ {NULL})
             /\ g.failed = h.failed
             /\ \A q \in Page : q # Pd(h.table, map, "user") => g.table[q] = h.table[q]
<1> DEFINE c == Pd(h.table, map, "user")
           f == UserPage(h.table, map)
<1>1. find_pdpt_entry(h, map, "user", FALSE).page = c
  BY LookUp
<1>2. /\ c \in Page \cup {NULL} /\ f \in Page \cup {NULL} /\ (f # NULL => f \notin FreeSet(h))
      /\ "user" \in Region
  BY DEF Space, PagesIn, Region
<1>3. CASE c = NULL \/ f = NULL
  <2>1. f = NULL
    BY <1>3 DEF UserPage
  <2>2. free_pages(h, map) = h
    BY <1>1, <1>3 DEF free_pages, Present, UserPage
  <2> QED BY <2>1, <2>2
<1>4. CASE c # NULL /\ f # NULL
  <2>1. f = h.table[c]["user"]
    BY <1>4 DEF UserPage
  <2>2. free_pages(h, map) = [kfree(h, f) EXCEPT !.table[c]["user"] = NULL]
    BY <1>1, <1>4, <2>1 DEF free_pages, Present
  <2>3. /\ c \in Page /\ f \in Page /\ f \notin FreeSet(h)
        /\ c = Pd(h.table, map, "user") /\ f = UserPage(h.table, map)
    BY <1>2, <1>4
  <2> HIDE DEF c, f
  <2> QED BY <1>2, <1>4, <2>2, <2>3, FreeEntry
<1> QED BY <1>3, <1>4

\* free_pdt() frees the page directory of region r, if there is one.
LEMMA FreePd ==
  ASSUME NEW h, Sound(h), NEW map \in Page, NEW r \in Region,
         Pdpt(h.table, map, r) \in Page \cup {NULL},
         Pd(h.table, map, r) \in (Page \cup {NULL}) \ FreeSet(h)
  PROVE  LET g == FreeDirectory(h, map, r)
         IN  /\ Sound(g)
             /\ FreeSet(g) = FreeSet(h) \cup ({Pd(h.table, map, r)} \ {NULL})
             /\ g.failed = h.failed
             /\ \A q \in Page : q # Pdpt(h.table, map, r) => g.table[q] = h.table[q]
<1> DEFINE a == h.table[map][r]
           c == Pd(h.table, map, r)
<1>1. CASE a = NULL \/ c = NULL
  <2>1. c = NULL
    BY <1>1 DEF Pd
  <2>2. FreeDirectory(h, map, r) = h
    BY <1>1 DEF FreeDirectory, Present, Pd
  <2> QED BY <2>1, <2>2
<1>2. CASE a # NULL /\ c # NULL
  <2>1. c = h.table[a][r]
    BY <1>2 DEF Pd
  <2>2. FreeDirectory(h, map, r) = [kfree(h, c) EXCEPT !.table[a][r] = NULL]
    BY <1>2, <2>1 DEF FreeDirectory, Present
  <2>3. c \in Page /\ c \notin FreeSet(h) /\ a \in Page /\ a = Pdpt(h.table, map, r)
    BY <1>2 DEF Pdpt
  <2> HIDE DEF a, c
  <2>4. PICK aa \in Page : aa = a
    BY <2>3
  <2> QED BY <1>2, <2>2, <2>3, FreeEntry DEF c
<1> QED BY <1>1, <1>2

\* free_pdpt() frees the page directory pointer table of region r, if there is
\* one, and leaves the other entry of the root.
LEMMA FreePdpt ==
  ASSUME NEW h, Sound(h), NEW map \in Page, NEW r \in Region,
         Pdpt(h.table, map, r) \in (Page \cup {NULL}) \ FreeSet(h)
  PROVE  LET g == FreePointerTable(h, map, r)
         IN  /\ Sound(g)
             /\ FreeSet(g) = FreeSet(h) \cup ({Pdpt(h.table, map, r)} \ {NULL})
             /\ g.failed = h.failed
             /\ \A q \in Page : q # map => g.table[q] = h.table[q]
             /\ \A s \in Region : s # r => g.table[map][s] = h.table[map][s]
<1> DEFINE a == h.table[map][r]
<1>1. CASE a = NULL
  BY <1>1 DEF FreePointerTable, Present, Pdpt
<1>2. CASE a # NULL
  <2>1. FreePointerTable(h, map, r) = [kfree(h, a) EXCEPT !.table[map][r] = NULL]
    BY <1>2 DEF FreePointerTable, Present
  <2>2. a \in Page /\ a \notin FreeSet(h) /\ a = Pdpt(h.table, map, r)
    BY <1>2 DEF Pdpt
  <2> HIDE DEF a
  <2> QED BY <1>2, <2>1, <2>2, FreeEntry
<1> QED BY <1>1, <1>2

\* free_vm() gives back a space, complete or not: all of its pages and nothing
\* else, each of them once.
LEMMA FreeSpace ==
  ASSUME NEW h, Sound(h), NEW map, Space(h.table, map), PagesIn(h.table, map) \cap FreeSet(h) = {}
  PROVE  LET g == free_vm(h, map)
         IN  /\ Sound(g)
             /\ FreeSet(g) = FreeSet(h) \cup PagesIn(h.table, map)
             /\ g.failed = h.failed
             /\ \A q \in Page \ PagesIn(h.table, map) : g.table[q] = h.table[q]
<1> DEFINE t == h.table
<1>1. PICK a, b, c, d, f :
        /\ a = Pdpt(t, map, "user") /\ b = Pdpt(t, map, "kernel")
        /\ c = Pd(t, map, "user") /\ d = Pd(t, map, "kernel") /\ f = UserPage(t, map)
  OBVIOUS
<1>2. /\ map \in Page /\ NULL \notin Page /\ "user" \in Region /\ "kernel" \in Region
      /\ a \in Page \cup {NULL} /\ b \in Page \cup {NULL} /\ c \in Page \cup {NULL}
      /\ d \in Page \cup {NULL} /\ f \in Page \cup {NULL}
  BY <1>1, HeapFields DEF Space, Region
<1>3. Apart(map, a, b, c, d, f) /\ PagesIn(t, map) = {map, a, b, c, d, f} \ {NULL}
  BY <1>1 DEF Space, PagesIn
<1>4. \A v \in {map, a, b, c, d, f} : v \notin FreeSet(h)
  <2>1. NULL \notin FreeSet(h)
    BY <1>2, HeapFields
  <2> QED BY <1>3, <2>1
<1>5. /\ t[map]["user"] = a /\ t[map]["kernel"] = b
      /\ a = NULL => c = NULL
      /\ a # NULL => t[a]["user"] = c
      /\ b = NULL => d = NULL
      /\ b # NULL => t[b]["kernel"] = d
  BY <1>1 DEF Pdpt, Pd
<1>6. PICK h1 : /\ h1 = free_pages(h, map) /\ Sound(h1)
                /\ FreeSet(h1) = FreeSet(h) \cup ({f} \ {NULL}) /\ h1.failed = h.failed
                /\ \A q \in Page : q # c => h1.table[q] = t[q]
  BY <1>1, FreeUserPage
<1>7. /\ h1.table[map] = t[map]
      /\ a # NULL => h1.table[a] = t[a]
      /\ b # NULL => h1.table[b] = t[b]
  BY <1>2, <1>3, <1>6 DEF Apart
<1>8. PICK h2 : /\ h2 = FreeDirectory(h1, map, "user") /\ Sound(h2)
                /\ FreeSet(h2) = FreeSet(h1) \cup ({c} \ {NULL}) /\ h2.failed = h.failed
                /\ \A q \in Page : q # a => h2.table[q] = h1.table[q]
  <2>1. Pdpt(h1.table, map, "user") = a /\ Pd(h1.table, map, "user") = c
    BY <1>5, <1>7 DEF Pdpt, Pd
  <2>2. c \notin FreeSet(h1)
    BY <1>2, <1>3, <1>4, <1>6 DEF Apart
  <2> QED BY <1>2, <1>6, <2>1, <2>2, FreePd
<1>9. /\ h2.table[map] = t[map]
      /\ b # NULL => h2.table[b] = t[b]
  BY <1>2, <1>3, <1>7, <1>8 DEF Apart
<1>10. PICK h3 : /\ h3 = FreeDirectory(h2, map, "kernel") /\ Sound(h3)
                 /\ FreeSet(h3) = FreeSet(h2) \cup ({d} \ {NULL}) /\ h3.failed = h.failed
                 /\ \A q \in Page : q # b => h3.table[q] = h2.table[q]
  <2>1. Pdpt(h2.table, map, "kernel") = b /\ Pd(h2.table, map, "kernel") = d
    BY <1>5, <1>9 DEF Pdpt, Pd
  <2>2. d \notin FreeSet(h2)
    BY <1>2, <1>3, <1>4, <1>6, <1>8 DEF Apart
  <2> QED BY <1>2, <1>8, <2>1, <2>2, FreePd
<1>11. h3.table[map] = t[map]
  BY <1>2, <1>3, <1>9, <1>10 DEF Apart
<1>12. PICK h4 : /\ h4 = FreePointerTable(h3, map, "user") /\ Sound(h4)
                 /\ FreeSet(h4) = FreeSet(h3) \cup ({a} \ {NULL}) /\ h4.failed = h.failed
                 /\ \A q \in Page : q # map => h4.table[q] = h3.table[q]
                 /\ h4.table[map]["kernel"] = b
  <2>1. Pdpt(h3.table, map, "user") = a /\ h3.table[map]["kernel"] = b
    BY <1>5, <1>11 DEF Pdpt
  <2>2. a \notin FreeSet(h3)
    BY <1>2, <1>3, <1>4, <1>6, <1>8, <1>10 DEF Apart
  <2> QED BY <1>2, <1>10, <2>1, <2>2, FreePdpt
<1>13. PICK h5 : /\ h5 = FreePointerTable(h4, map, "kernel") /\ Sound(h5)
                 /\ FreeSet(h5) = FreeSet(h4) \cup ({b} \ {NULL}) /\ h5.failed = h.failed
                 /\ \A q \in Page : q # map => h5.table[q] = h4.table[q]
  <2>1. Pdpt(h4.table, map, "kernel") = b
    BY <1>12 DEF Pdpt
  <2>2. b \notin FreeSet(h4)
    BY <1>2, <1>3, <1>4, <1>6, <1>8, <1>10, <1>12 DEF Apart
  <2> QED BY <1>2, <1>12, <2>1, <2>2, FreePdpt
<1>14. FreeSet(h5) = FreeSet(h) \cup ({a, b, c, d, f} \ {NULL})
  BY <1>6, <1>8, <1>10, <1>12, <1>13
<1>15. map \notin FreeSet(h5)
  BY <1>3, <1>4, <1>14 DEF Apart
<1>16. PICK g : /\ g = kfree(h5, map) /\ Sound(g) /\ FreeSet(g) = FreeSet(h5) \cup {map}
                /\ g.table = h5.table /\ g.failed = h.failed
  BY <1>2, <1>13, <1>15, FreePage
<1>17. free_vm(h, map) = g
  BY <1>6, <1>8, <1>10, <1>12, <1>13, <1>16 DEF free_vm
<1>18. FreeSet(g) = FreeSet(h) \cup PagesIn(t, map)
  BY <1>2, <1>3, <1>14, <1>16
<1>19. ASSUME NEW q \in Page \ PagesIn(t, map)  PROVE g.table[q] = t[q]
  BY <1>2, <1>3, <1>6, <1>8, <1>10, <1>12, <1>13, <1>16, <1>19
<1> QED BY <1>16, <1>17, <1>18, <1>19

-----------------------------------------------------------------------------
(***************************************************************************)
(* Mapping.                                                                *)
(***************************************************************************)

\* The heap k with e in entry r of table p.
Write(k, p, r, e) == [k EXCEPT !.table[p][r] = e]

\* Writing an entry changes nothing else.
LEMMA WriteEntry ==
  ASSUME NEW k, Sound(k), NEW p \in Page, NEW r \in Region, NEW e \in Entry
  PROVE  LET g == Write(k, p, r, e)
         IN  /\ Sound(g)
             /\ g.free = k.free
             /\ g.failed = k.failed
             /\ \A q \in Page : q # p => g.table[q] = k.table[q]
             /\ \A s \in Region : s # r => g.table[p][s] = k.table[p][s]
             /\ g.table[p][r] = e
<1>1. /\ k.free \in Seq(Page) /\ IsInjective(k.free)
      /\ k.table \in [Page -> [Region -> Entry]] /\ k.failed \in BOOLEAN
      /\ k = [free |-> k.free, table |-> k.table, failed |-> k.failed]
  BY HeapFields
<1> DEFINE t == [k.table EXCEPT ![p][r] = e]
<1>2. t \in [Page -> [Region -> Entry]]
  BY <1>1
<1>3. /\ \A q \in Page : q # p => t[q] = k.table[q]
      /\ \A s \in Region : s # r => t[p][s] = k.table[p][s]
      /\ t[p][r] = e
  BY <1>1
<1>4. [k EXCEPT !.table[p][r] = e] = [free |-> k.free, table |-> t, failed |-> k.failed]
  <2>1. PICK x, y, z : k = [free |-> x, table |-> y, failed |-> z]
    BY <1>1
  <2>2. [k EXCEPT !.table[p][r] = e]
          = [free |-> x, table |-> [y EXCEPT ![p][r] = e], failed |-> z]
    BY <2>1
  <2>3. k.free = x /\ k.table = y /\ k.failed = z
    BY <2>1
  <2> QED BY <2>2, <2>3
<1> HIDE DEF t
<1>5. Sound([free |-> k.free, table |-> t, failed |-> k.failed])
  BY <1>1, <1>2, HeapMade
<1> QED BY <1>3, <1>4, <1>5 DEF Write

\* The table behind entry r of table p, made if it is not there.
Made(h, p, r) == NextTable(h, p, r, TRUE)

\* A table that is not there yet is made, cleared, if there is a free page.
LEMMA MakeTable ==
  ASSUME NEW h, Sound(h), NEW p \in Page, p \notin FreeSet(h), NEW r \in Region,
         h.table[p][r] = NULL
  PROVE  LET a == Made(h, p, r)
         IN  /\ h.free = <<>> => a.page = NULL /\ a.heap = h
             /\ h.free # <<>> =>
                  /\ a.page \in Page /\ a.page # NULL /\ a.page # p
                  /\ a.page \in FreeSet(h)
                  /\ Sound(a.heap)
                  /\ FreeSet(a.heap) = FreeSet(h) \ {a.page}
                  /\ Len(a.heap.free) = Len(h.free) - 1
                  /\ a.heap.failed = h.failed
                  /\ a.heap.table[p][r] = a.page
                  /\ \A s \in Region : s # r => a.heap.table[p][s] = h.table[p][s]
                  /\ \A s \in Region : a.heap.table[a.page][s] = NULL
                  /\ \A q \in Page : q # p /\ q # a.page => a.heap.table[q] = h.table[q]
<1> DEFINE k == kalloc_cleared(h)
<1>1. Made(h, p, r) =
        IF k.page = NULL THEN k ELSE [k EXCEPT !.heap.table[p][r] = k.page]
  BY DEF Made, NextTable, Present
<1>2. CASE h.free = <<>>
  BY <1>1, <1>2, TakePage
<1>3. CASE h.free # <<>>
  <2>1. PICK v, g : /\ v \in Page /\ v # NULL /\ v \in FreeSet(h) /\ Sound(g)
                    /\ FreeSet(g) = FreeSet(h) \ {v} /\ Len(g.free) = Len(h.free) - 1
                    /\ g.table = [h.table EXCEPT ![v] = Cleared] /\ g.failed = h.failed
                    /\ k = [page |-> v, heap |-> g]
    <3>1. k = [page |-> k.page, heap |-> k.heap]
      BY <1>3 DEF kalloc_cleared
    <3> HIDE DEF k
    <3>2. k = kalloc_cleared(h)
      BY DEF k
    <3> QED BY <1>3, <3>1, <3>2, TakePage
  <2> HIDE DEF k
  <2>2. Made(h, p, r) = [page |-> v, heap |-> Write(g, p, r, v)]
    BY <1>1, <2>1 DEF Write
  <2>3. v \in Entry
    BY <2>1 DEF Entry
  <2>4. PICK f : /\ f = Write(g, p, r, v)
                 /\ Sound(f) /\ f.free = g.free /\ f.failed = g.failed
                 /\ \A q \in Page : q # p => f.table[q] = g.table[q]
                 /\ \A s \in Region : s # r => f.table[p][s] = g.table[p][s]
                 /\ f.table[p][r] = v
    <3>1. Sound(g)
      BY <2>1
    <3> QED BY ONLY <2>3, <3>1, WriteEntry, r \in Region, p \in Page
  <2>5. v # p
    BY <2>1
  <2>6. h.table \in [Page -> [Region -> Entry]]
    BY HeapFields
  <2>7. \A s \in Region : g.table[v][s] = NULL
    BY <2>1, <2>6 DEF Cleared
  <2>8. \A q \in Page : q # v => g.table[q] = h.table[q]
    BY <2>1, <2>6
  <2>9. FreeSet(f) = FreeSet(h) \ {v} /\ Len(f.free) = Len(h.free) - 1
    BY <2>1, <2>4 DEF FreeSet
  <2>10. PICK a : a = Made(h, p, r) /\ a = [page |-> v, heap |-> f]
    BY <2>2, <2>4
  <2>11. a.page = v /\ a.heap = f
    BY <2>10
  <2> QED BY <1>3, <2>1, <2>4, <2>5, <2>7, <2>8, <2>9, <2>10, <2>11
<1> QED BY <1>2, <1>3

\* Region r of the space is not mapped by t; t2 has a pointer table a and
\* perhaps a directory c, with frame in it, for r.
Grows(t, t2, map, r, a, c, frame) ==
  /\ Space(t, map) /\ Pdpt(t, map, r) = NULL
  /\ a \in Page \ PagesIn(t, map)
  /\ c \in (Page \cup {NULL}) \ PagesIn(t, map)
  /\ a # c
  /\ r = "user" => frame \in Page \ (PagesIn(t, map) \cup {a, c})
  /\ t2[map][r] = a
  /\ \A s \in Region : s # r => t2[map][s] = t[map][s]
  /\ t2[a][r] = c
  /\ c # NULL => t2[c][r] = frame
  /\ \A q \in Page : q \notin {map, a, c} => t2[q] = t[q]

\* The space then has these pages more, and the other region is as it was.
LEMMA SpaceGrows ==
  ASSUME NULL \notin Page, NEW r \in Region,
         NEW t, NEW t2, NEW map, NEW a, NEW c, NEW frame, Grows(t, t2, map, r, a, c, frame)
  PROVE  /\ Space(t2, map)
         /\ PagesIn(t2, map) = PagesIn(t, map) \cup ({a, c} \ {NULL})
              \cup IF r = "user" /\ c # NULL THEN {frame} ELSE {}
         /\ Pdpt(t2, map, r) = a /\ Pd(t2, map, r) = c
         /\ r = "user" /\ c # NULL => UserPage(t2, map) = frame
         /\ \A s \in Region : s # r =>
              Pdpt(t2, map, s) = Pdpt(t, map, s) /\ Pd(t2, map, s) = Pd(t, map, s)
         /\ r = "kernel" => UserPage(t2, map) = UserPage(t, map)
<1> USE DEF Grows
<1>1. map \in Page /\ map \in PagesIn(t, map)
  BY DEF Space, PagesIn
<1>2. Pdpt(t2, map, r) = a /\ Pd(t2, map, r) = c
  BY DEF Pdpt, Pd
<1>3. Pd(t, map, r) = NULL
  BY DEF Pdpt, Pd
<1>4. ASSUME NEW s \in Region, s # r
      PROVE  Pdpt(t2, map, s) = Pdpt(t, map, s) /\ Pd(t2, map, s) = Pd(t, map, s)
  <2>1. t2[map][s] = t[map][s]
    BY <1>4
  <2>2. CASE t[map][s] = NULL
    BY <2>1, <2>2 DEF Pdpt, Pd
  <2>3. CASE t[map][s] # NULL
    <3>1. t[map][s] = Pdpt(t, map, s)
      BY DEF Pdpt
    <3>2. t[map][s] \in Page /\ t[map][s] # map /\ t[map][s] \in PagesIn(t, map)
      BY <1>4, <2>3, <3>1 DEF Space, PagesIn, Apart, Region
    <3>3. t2[t[map][s]] = t[t[map][s]]
      BY <3>2
    <3> QED BY <2>1, <2>3, <3>3 DEF Pdpt, Pd
  <2> QED BY <2>2, <2>3
<1>5. CASE r = "user"
  <2>1. "kernel" \in Region /\ "kernel" # r
    BY <1>5 DEF Region
  <2>2. PICK b, d : /\ b = Pdpt(t, map, "kernel") /\ b = Pdpt(t2, map, "kernel")
                    /\ d = Pd(t, map, "kernel") /\ d = Pd(t2, map, "kernel")
    BY <1>4, <2>1
  <2>3. UserPage(t, map) = NULL
    BY <1>3, <1>5 DEF UserPage
  <2>4. UserPage(t2, map) = IF c = NULL THEN NULL ELSE frame
    BY <1>2, <1>5 DEF UserPage
  <2>5. /\ map \in Page /\ b \in Page \cup {NULL} /\ d \in Page \cup {NULL}
        /\ Apart(map, NULL, b, NULL, d, NULL)
        /\ PagesIn(t, map) = {map, b, d} \ {NULL}
    <3>1. Pdpt(t, map, "user") = NULL /\ Pd(t, map, "user") = NULL
      BY <1>3, <1>5
    <3> QED BY <2>1, <2>2, <2>3, <3>1 DEF Space, PagesIn
  <2>6. PICK u : u = UserPage(t2, map) /\ u = IF c = NULL THEN NULL ELSE frame
    BY <2>4
  <2>7. Space(t2, map) /\ PagesIn(t2, map) = {map, a, b, c, d, u} \ {NULL}
    <3>1. Apart(map, a, b, c, d, u)
      BY <1>5, <2>5, <2>6 DEF Apart
    <3>2. Pdpt(t2, map, "user") = a /\ Pd(t2, map, "user") = c
      BY <1>2, <1>5
    <3>3. u \in Page \cup {NULL}
      BY <1>5, <2>6
    <3> QED BY <2>2, <2>5, <2>6, <3>1, <3>2, <3>3 DEF Space, PagesIn, Region
  <2> QED BY <1>2, <1>4, <1>5, <2>4, <2>5, <2>6, <2>7
<1>6. CASE r = "kernel"
  <2>1. "user" \in Region /\ "user" # r
    BY <1>6 DEF Region
  <2>2. PICK b, d : /\ b = Pdpt(t, map, "user") /\ b = Pdpt(t2, map, "user")
                    /\ d = Pd(t, map, "user") /\ d = Pd(t2, map, "user")
    BY <1>4, <2>1
  <2>3. UserPage(t2, map) = UserPage(t, map)
    <3>1. CASE d = NULL
      BY <2>2, <3>1 DEF UserPage
    <3>2. CASE d # NULL
      <4>1. d \in Page /\ d # map /\ d \in PagesIn(t, map)
        BY <2>1, <2>2, <3>2 DEF Space, PagesIn, Apart, Region
      <4>2. t2[d] = t[d]
        BY <4>1
      <4> QED BY <2>2, <4>2 DEF UserPage
    <3> QED BY <3>1, <3>2
  <2>4. PICK u : u = UserPage(t2, map) /\ u = UserPage(t, map)
    BY <2>3
  <2>5. /\ map \in Page /\ b \in Page \cup {NULL} /\ d \in Page \cup {NULL} /\ u \in Page \cup {NULL}
        /\ Apart(map, b, NULL, d, NULL, u)
        /\ PagesIn(t, map) = {map, b, d, u} \ {NULL}
    <3>1. Pdpt(t, map, "kernel") = NULL /\ Pd(t, map, "kernel") = NULL
      BY <1>3, <1>6
    <3> QED BY <2>1, <2>2, <2>4, <3>1 DEF Space, PagesIn
  <2>6. Space(t2, map) /\ PagesIn(t2, map) = {map, b, a, d, c, u} \ {NULL}
    <3>1. Apart(map, b, a, d, c, u)
      BY <2>5 DEF Apart
    <3>2. Pdpt(t2, map, "kernel") = a /\ Pd(t2, map, "kernel") = c
      BY <1>2, <1>6
    <3> QED BY <2>2, <2>4, <2>5, <3>1, <3>2 DEF Space, PagesIn, Region
  <2>7. "user" # "kernel"
    OBVIOUS
  <2> QED BY <1>2, <1>4, <1>6, <2>3, <2>5, <2>6, <2>7
<1> QED BY <1>5, <1>6 DEF Region

\* The pages that were free in h and are not in g.
Taken(h, g) == FreeSet(h) \ FreeSet(g)

\* The way to the directory of a region that is not mapped, made of at most two
\* free pages.
Path(h, map, r) == find_pdpt_entry(h, map, r, TRUE)

\* g is h with the pointer table a and the directory c on that way, or with
\* what of them there were pages for.
PathMade(h, map, r, g, a, c) ==
  /\ Sound(g) /\ g.failed = h.failed
  /\ Taken(h, g) = {a, c} \ {NULL} /\ FreeSet(g) \subseteq FreeSet(h)
  /\ a \in FreeSet(h) \cup {NULL} /\ c \in FreeSet(h) \cup {NULL}
  /\ a = NULL => c = NULL /\ g = h
  /\ c # NULL <=> Len(h.free) >= 2
  /\ a # NULL => /\ a # c
                 /\ g.table[map][r] = a
                 /\ \A s \in Region : s # r => g.table[map][s] = h.table[map][s]
                 /\ g.table[a][r] = c
                 /\ \A q \in Page : q \notin {map, a, c} => g.table[q] = h.table[q]
  /\ c # NULL => g.table[c][r] = NULL /\ Len(g.free) = Len(h.free) - 2

\* Such a way is what find_pdpt_entry() makes.
LEMMA MakePath ==
  ASSUME NEW h, Sound(h), NEW map, Space(h.table, map), PagesIn(h.table, map) \cap FreeSet(h) = {},
         NEW r \in Region, Pdpt(h.table, map, r) = NULL
  PROVE  LET m == Path(h, map, r)
         IN  \E a : PathMade(h, map, r, m.heap, a, m.page)
<1>1. /\ map \in Page /\ map \notin FreeSet(h) /\ h.table[map][r] = NULL
      /\ h.free \in Seq(Page) /\ Len(h.free) \in Nat /\ (h.free = <<>> <=> Len(h.free) = 0)
      /\ NULL \notin Page /\ FreeSet(h) \subseteq Page
  BY HeapFields DEF Space, PagesIn, Pdpt
<1>2. Path(h, map, r) = IF Made(h, map, r).page = NULL THEN Made(h, map, r)
                        ELSE Made(Made(h, map, r).heap, Made(h, map, r).page, r)
  BY DEF Path, find_pdpt_entry, Made
<1>3. CASE h.free = <<>>
  <2>1. PICK m : m = Path(h, map, r) /\ m.page = NULL /\ m.heap = h
    BY <1>1, <1>2, <1>3, MakeTable
  <2>2. Taken(h, h) = {}
    BY DEF Taken
  <2>3. PathMade(h, map, r, h, NULL, NULL)
    BY <1>1, <1>3, <2>2 DEF PathMade
  <2> QED BY <2>1, <2>3
<1>4. CASE h.free # <<>>
  <2>1. PICK a, k : /\ a = Made(h, map, r).page /\ k = Made(h, map, r).heap
                    /\ a \in Page /\ a # NULL /\ a # map /\ a \in FreeSet(h)
                    /\ Sound(k) /\ FreeSet(k) = FreeSet(h) \ {a}
                    /\ Len(k.free) = Len(h.free) - 1 /\ k.failed = h.failed
                    /\ k.table[map][r] = a
                    /\ \A s \in Region : s # r => k.table[map][s] = h.table[map][s]
                    /\ \A s \in Region : k.table[a][s] = NULL
                    /\ \A q \in Page : q # map /\ q # a => k.table[q] = h.table[q]
    BY <1>1, <1>4, MakeTable
  <2>2. Path(h, map, r) = Made(k, a, r)
    BY <1>2, <2>1
  <2>3. k.free = <<>> <=> Len(k.free) = 0
    BY <2>1, HeapFields
  <2>4. a \notin FreeSet(k) /\ k.table[a][r] = NULL
    BY <2>1
  <2>5. CASE k.free = <<>>
    <3>1. PICK m : m = Path(h, map, r) /\ m.page = NULL /\ m.heap = k
      BY <2>1, <2>2, <2>4, <2>5, MakeTable
    <3>2. Taken(h, k) = {a}
      BY <2>1 DEF Taken
    <3>3. ~(Len(h.free) >= 2)
      <4>1. Len(k.free) = 0
        BY <2>3, <2>5
      <4>2. Len(h.free) \in Nat /\ Len(k.free) = Len(h.free) - 1
        BY <1>1, <2>1
      <4> QED BY <4>1, <4>2
    <3>4. PathMade(h, map, r, k, a, NULL)
      BY <1>1, <2>1, <2>4, <3>2, <3>3 DEF PathMade
    <3> QED BY <3>1, <3>4
  <2>6. CASE k.free # <<>>
    <3>1. PICK c, g :    /\ Path(h, map, r).page = c /\ Path(h, map, r).heap = g
                         /\ c \in Page /\ c # NULL /\ c # a /\ c \in FreeSet(k)
                         /\ Sound(g) /\ FreeSet(g) = FreeSet(k) \ {c}
                         /\ Len(g.free) = Len(k.free) - 1 /\ g.failed = k.failed
                         /\ g.table[a][r] = c
                         /\ \A s \in Region : g.table[c][s] = NULL
                         /\ \A q \in Page : q # a /\ q # c => g.table[q] = k.table[q]
      BY <2>1, <2>2, <2>4, <2>6, MakeTable
    <3>2. Taken(h, g) = {a, c}
      BY <2>1, <3>1 DEF Taken
    <3>3. Len(h.free) >= 2 /\ Len(g.free) = Len(h.free) - 2
      <4>1. Len(k.free) \in Nat
        BY <2>1, HeapFields
      <4> QED BY <1>1, <2>1, <2>3, <2>6, <3>1, <4>1
    <3>4. c # map /\ g.table[map] = k.table[map]
      BY <1>1, <2>1, <3>1
    <3>5. PathMade(h, map, r, g, a, c)
      BY <1>1, <2>1, <3>1, <3>2, <3>3, <3>4 DEF PathMade
    <3> QED BY <3>1, <3>5
  <2> QED BY <2>5, <2>6
<1> QED BY <1>3, <1>4

\* What map_pages() of region r makes of the heap h: g, and whether it worked.
Mapped(h, map, r, frame, ok, g) ==
  /\ Sound(g) /\ g.failed = h.failed
  /\ ok <=> Len(h.free) >= 2
  /\ FreeSet(g) \subseteq FreeSet(h)
  /\ ok => Len(g.free) = Len(h.free) - 2
  /\ Space(g.table, map)
  /\ PagesIn(g.table, map) =
       PagesIn(h.table, map) \cup Taken(h, g) \cup IF ok /\ r = "user" THEN {frame} ELSE {}
  /\ ok => Pdpt(g.table, map, r) # NULL /\ Pd(g.table, map, r) # NULL
  /\ ok /\ r = "user" => UserPage(g.table, map) = frame
  /\ \A s \in Region : s # r =>
       Pdpt(g.table, map, s) = Pdpt(h.table, map, s) /\ Pd(g.table, map, s) = Pd(h.table, map, s)
  /\ r = "kernel" => UserPage(g.table, map) = UserPage(h.table, map)
  /\ \A q \in Page : q # map /\ q \notin Taken(h, g) => g.table[q] = h.table[q]

\* Region r of a space can be mapped to frame: it is not mapped yet, and neither
\* the space nor the frame is on the free list.
Mappable(h, map, r, frame) ==
  /\ Sound(h) /\ Space(h.table, map) /\ PagesIn(h.table, map) \cap FreeSet(h) = {}
  /\ Pdpt(h.table, map, r) = NULL
  /\ frame \in Entry
  /\ r = "user" => frame \in Page \ (FreeSet(h) \cup PagesIn(h.table, map))

\* map_pages() of a region that is not mapped.  It needs two pages for tables
\* and fails without them; what it took stays in the space.
LEMMA MapRegion ==
  ASSUME NEW r \in Region, NEW h, NEW map, NEW frame, Mappable(h, map, r, frame)
  PROVE  \E ok \in BOOLEAN : \E g :
           /\ map_pages(h, map, r, frame) = [ok |-> ok, heap |-> g]
           /\ Mapped(h, map, r, frame, ok, g)
<1> USE DEF Mappable
<1>1. PICK a, c, k : /\ k = Path(h, map, r).heap /\ c = Path(h, map, r).page
                     /\ PathMade(h, map, r, k, a, c)
  BY MakePath
<1>2. map_pages(h, map, r, frame) =
        IF c = NULL THEN [ok |-> FALSE, heap |-> k]
        ELSE [ok |-> TRUE, heap |-> Asserted(Write(k, c, r, frame), ~Present(k.table[c][r]))]
  BY <1>1 DEF map_pages, MapInto, Path, Write
<1>3. /\ NULL \notin Page /\ FreeSet(h) \subseteq Page /\ map \in Page
      /\ Len(h.free) \in Nat
  BY HeapFields DEF Space
<1>4. /\ Sound(k) /\ k.failed = h.failed
      /\ Taken(h, k) = {a, c} \ {NULL} /\ FreeSet(k) \subseteq FreeSet(h)
      /\ a \in FreeSet(h) \cup {NULL} /\ c \in FreeSet(h) \cup {NULL}
      /\ a = NULL => c = NULL /\ k = h
      /\ c # NULL <=> Len(h.free) >= 2
      /\ a # NULL => /\ a # c
                     /\ k.table[map][r] = a
                     /\ \A s \in Region : s # r => k.table[map][s] = h.table[map][s]
                     /\ k.table[a][r] = c
                     /\ \A q \in Page : q \notin {map, a, c} => k.table[q] = h.table[q]
      /\ c # NULL => k.table[c][r] = NULL /\ Len(k.free) = Len(h.free) - 2
  BY <1>1 DEF PathMade
<1>5. CASE a = NULL
  <2>1. c = NULL /\ k = h /\ Taken(h, h) = {}
    BY <1>4, <1>5 DEF Taken
  <2>2. Mapped(h, map, r, frame, FALSE, h)
    BY <1>4, <2>1 DEF Mapped
  <2> QED BY <1>2, <2>1, <2>2
<1>6. CASE a # NULL
  <2>1. a \in Page \ PagesIn(h.table, map)
    BY <1>3, <1>4, <1>6
  <2>2. c \in (Page \cup {NULL}) \ PagesIn(h.table, map)
    <3>1. NULL \notin PagesIn(h.table, map)
      BY DEF PagesIn
    <3> QED BY <1>3, <1>4, <3>1
  <2>3. r = "user" => frame \in Page \ (PagesIn(h.table, map) \cup {a, c})
    BY <1>3, <1>4
  <2>4. ASSUME NEW ok \in BOOLEAN, ok <=> c # NULL, NEW g, Sound(g), g.failed = h.failed,
               g.free = k.free, c # NULL => g.table[c][r] = frame,
               \A q \in Page : q # c => g.table[q] = k.table[q],
               c = NULL => g = k
        PROVE  Mapped(h, map, r, frame, ok, g)
    <3> DEFINE t == h.table
               t2 == g.table
    <3>1. a # c /\ c # map
      BY <1>3, <1>4, <1>6, <2>2 DEF PagesIn
    <3>2. /\ t2[map][r] = a /\ \A s \in Region : s # r => t2[map][s] = t[map][s]
          /\ t2[a][r] = c /\ (c # NULL => t2[c][r] = frame)
          /\ \A q \in Page : q \notin {map, a, c} => t2[q] = t[q]
      BY <1>3, <1>4, <1>6, <2>1, <2>4, <3>1
    <3> HIDE DEF t, t2
    <3>3. /\ Space(t, map) /\ Pdpt(t, map, r) = NULL
          /\ a \in Page \ PagesIn(t, map) /\ c \in (Page \cup {NULL}) \ PagesIn(t, map)
          /\ r = "user" => frame \in Page \ (PagesIn(t, map) \cup {a, c})
      BY <2>1, <2>2, <2>3 DEF t
    <3>4. Grows(t, t2, map, r, a, c, frame)
      BY <3>1, <3>2, <3>3 DEF Grows
    <3>5. /\ Space(t2, map)
          /\ PagesIn(t2, map) = PagesIn(t, map) \cup ({a, c} \ {NULL})
               \cup IF r = "user" /\ c # NULL THEN {frame} ELSE {}
          /\ Pdpt(t2, map, r) = a /\ Pd(t2, map, r) = c
          /\ r = "user" /\ c # NULL => UserPage(t2, map) = frame
          /\ \A s \in Region : s # r =>
               Pdpt(t2, map, s) = Pdpt(t, map, s) /\ Pd(t2, map, s) = Pd(t, map, s)
          /\ r = "kernel" => UserPage(t2, map) = UserPage(t, map)
      BY <1>3, <3>4, SpaceGrows
    <3>6. FreeSet(g) = FreeSet(k) /\ Taken(h, g) = {a, c} \ {NULL}
      BY <1>4, <2>4 DEF FreeSet, Taken
    <3>7. \A q \in Page : q # map /\ q \notin Taken(h, g) => t2[q] = t[q]
      BY <1>3, <3>2, <3>6
    <3>8. /\ ok <=> Len(h.free) >= 2
          /\ ok => Len(g.free) = Len(h.free) - 2
          /\ FreeSet(g) \subseteq FreeSet(h)
      BY <1>4, <2>4, <3>6
    <3>9. PagesIn(t2, map) = PagesIn(t, map) \cup Taken(h, g)
               \cup IF ok /\ r = "user" THEN {frame} ELSE {}
      BY <2>4, <3>5, <3>6
    <3>10. ok => Pdpt(t2, map, r) # NULL /\ Pd(t2, map, r) # NULL
      BY <1>6, <2>4, <3>5
    <3>11. ok /\ r = "user" => UserPage(t2, map) = frame
      BY <2>4, <3>5
    <3>12. t = h.table /\ t2 = g.table
      BY DEF t, t2
    <3> QED BY <2>4, <3>5, <3>7, <3>8, <3>9, <3>10, <3>11, <3>12 DEF Mapped
  <2>5. CASE c = NULL
    <3>1. Mapped(h, map, r, frame, FALSE, k)
      BY <1>4, <2>4, <2>5
    <3> QED BY <1>2, <2>5, <3>1
  <2>6. CASE c # NULL
    <3>1. ~Present(k.table[c][r])
      BY <1>4, <2>6 DEF Present
    <3>2. map_pages(h, map, r, frame) = [ok |-> TRUE, heap |-> Write(k, c, r, frame)]
      BY <1>2, <2>6, <3>1 DEF Asserted
    <3>3. c \in Page
      BY <1>3, <1>4, <2>6
    <3>4. PICK g : /\ g = Write(k, c, r, frame) /\ Sound(g) /\ g.free = k.free
                   /\ g.failed = k.failed /\ g.table[c][r] = frame
                   /\ \A q \in Page : q # c => g.table[q] = k.table[q]
      BY <1>4, <3>3, WriteEntry
    <3>5. Mapped(h, map, r, frame, TRUE, g)
      BY <1>4, <2>4, <2>6, <3>4
    <3> QED BY <3>2, <3>4, <3>5
  <2> QED BY <2>5, <2>6
<1> QED BY <1>5, <1>6

-----------------------------------------------------------------------------
(***************************************************************************)
(* Making an address space.                                                *)
(***************************************************************************)

\* A cleared page is an address space that maps nothing.
LEMMA EmptySpace ==
  ASSUME NEW t, NEW v \in Page, NULL \notin Page, \A r \in Region : t[v][r] = NULL
  PROVE  /\ Space(t, v) /\ PagesIn(t, v) = {v}
         /\ \A r \in Region : Pdpt(t, v, r) = NULL /\ Pd(t, v, r) = NULL
         /\ UserPage(t, v) = NULL
<1>1. \A r \in Region : Pdpt(t, v, r) = NULL /\ Pd(t, v, r) = NULL
  BY DEF Pdpt, Pd
<1>2. "user" \in Region /\ "kernel" \in Region
  BY DEF Region
<1>3. UserPage(t, v) = NULL
  BY <1>1, <1>2 DEF UserPage
<1> QED BY <1>1, <1>2, <1>3 DEF Space, PagesIn, Apart

\* What setup_kvm() makes of the heap h: g, and the root v of a space that maps
\* the kernel, of three pages, or NULL.
KernelMade(h, v, g) ==
  /\ Sound(g) /\ g.failed = h.failed
  /\ v # NULL <=> Len(h.free) >= 3
  /\ FreeSet(g) \subseteq FreeSet(h)
  /\ v = NULL => FreeSet(g) = FreeSet(h)
  /\ v # NULL => /\ v \in FreeSet(h) /\ Len(g.free) = Len(h.free) - 3
                 /\ Space(g.table, v) /\ PagesIn(g.table, v) = Taken(h, g)
                 /\ Pdpt(g.table, v, "user") = NULL
                 /\ Pdpt(g.table, v, "kernel") # NULL /\ Pd(g.table, v, "kernel") # NULL
  /\ \A q \in Page \ FreeSet(h) : g.table[q] = h.table[q]

\* setup_kvm() fails only without three free pages, and then gives back what it
\* took.
LEMMA SetupKvm ==
  ASSUME NEW h, Sound(h)
  PROVE  \E v, g : setup_kvm(h) = [page |-> v, heap |-> g] /\ KernelMade(h, v, g)
<1>1. /\ h.free \in Seq(Page) /\ Len(h.free) \in Nat /\ (h.free = <<>> <=> Len(h.free) = 0)
      /\ NULL \notin Page /\ FreeSet(h) \subseteq Page /\ h.table \in [Page -> [Region -> Entry]]
  BY HeapFields
<1>2. CASE h.free = <<>>
  <2>1. kalloc_cleared(h) = [page |-> NULL, heap |-> h]
    BY <1>2 DEF kalloc_cleared
  <2>2. setup_kvm(h) = [page |-> NULL, heap |-> h]
    BY <2>1 DEF setup_kvm
  <2>3. KernelMade(h, NULL, h)
    BY <1>1, <1>2 DEF KernelMade
  <2> QED BY <2>2, <2>3
<1>3. CASE h.free # <<>>
  <2>1. PICK v, k : /\ v = kalloc_cleared(h).page /\ k = kalloc_cleared(h).heap
                    /\ v \in Page /\ v # NULL /\ v \in FreeSet(h) /\ Sound(k)
                    /\ FreeSet(k) = FreeSet(h) \ {v} /\ Len(k.free) = Len(h.free) - 1
                    /\ k.table = [h.table EXCEPT ![v] = Cleared] /\ k.failed = h.failed
    BY <1>3, TakePage
  <2>2. \A r \in Region : k.table[v][r] = NULL
    BY <1>1, <2>1 DEF Cleared
  <2>3. /\ Space(k.table, v) /\ PagesIn(k.table, v) = {v}
        /\ \A r \in Region : Pdpt(k.table, v, r) = NULL /\ Pd(k.table, v, r) = NULL
    BY <1>1, <2>1, <2>2, EmptySpace
  <2>4. KernelFrame \in Entry /\ "kernel" \in Region /\ "user" \in Region /\ "user" # "kernel"
    BY DEF Entry, Region
  <2>5. PICK ok, g :
          /\ ok \in BOOLEAN
          /\ map_pages(k, v, "kernel", KernelFrame) = [ok |-> ok, heap |-> g]
          /\ Mapped(k, v, "kernel", KernelFrame, ok, g)
    <3>1. Mappable(k, v, "kernel", KernelFrame)
      BY <2>1, <2>3, <2>4 DEF Mappable
    <3> QED BY <2>4, <3>1, MapRegion
  <2>6. setup_kvm(h) = IF ok THEN [page |-> v, heap |-> g]
                       ELSE [page |-> NULL, heap |-> free_vm(g, v)]
    BY <2>1, <2>5 DEF setup_kvm, OrFreed
  <2>7. /\ Sound(g) /\ g.failed = k.failed
        /\ ok <=> Len(k.free) >= 2
        /\ FreeSet(g) \subseteq FreeSet(k)
        /\ ok => Len(g.free) = Len(k.free) - 2
        /\ Space(g.table, v)
        /\ PagesIn(g.table, v) = {v} \cup Taken(k, g)
        /\ ok => Pdpt(g.table, v, "kernel") # NULL /\ Pd(g.table, v, "kernel") # NULL
        /\ Pdpt(g.table, v, "user") = NULL
        /\ \A q \in Page : q # v /\ q \notin Taken(k, g) => g.table[q] = k.table[q]
    BY <2>3, <2>4, <2>5 DEF Mapped
  <2>8. /\ ok <=> Len(h.free) >= 3
        /\ ok => Len(g.free) = Len(h.free) - 3
    BY <1>1, <2>1, <2>7
  <2>9. {v} \cup Taken(k, g) = Taken(h, g) /\ v \notin FreeSet(g)
    BY <2>1, <2>7 DEF Taken
  <2>10. \A q \in Page \ FreeSet(h) : g.table[q] = h.table[q]
    <3> SUFFICES ASSUME NEW q \in Page \ FreeSet(h)  PROVE g.table[q] = h.table[q]
      OBVIOUS
    <3>1. q # v /\ q \notin Taken(k, g)
      BY <2>1 DEF Taken
    <3>2. k.table[q] = h.table[q]
      BY <1>1, <2>1, <3>1
    <3> QED BY <2>7, <3>1, <3>2
  <2>11. CASE ok
    <3>1. KernelMade(h, v, g)
      BY <2>1, <2>7, <2>8, <2>9, <2>10, <2>11 DEF KernelMade
    <3> QED BY <2>6, <2>11, <3>1
  <2>12. CASE ~ok
    <3>1. PagesIn(g.table, v) \cap FreeSet(g) = {}
      BY <2>7, <2>9 DEF Taken
    <3>2. PICK f : /\ f = free_vm(g, v) /\ Sound(f) /\ f.failed = g.failed
                   /\ FreeSet(f) = FreeSet(g) \cup PagesIn(g.table, v)
                   /\ \A q \in Page \ PagesIn(g.table, v) : f.table[q] = g.table[q]
      BY <2>7, <3>1, FreeSpace
    <3>3. FreeSet(f) = FreeSet(h)
      BY <2>1, <2>7, <2>9, <3>2 DEF Taken
    <3>4. \A q \in Page \ FreeSet(h) : f.table[q] = h.table[q]
      BY <2>7, <2>9, <2>10, <3>2 DEF Taken
    <3>5. KernelMade(h, NULL, f)
      BY <2>1, <2>7, <2>8, <2>12, <3>2, <3>3, <3>4 DEF KernelMade
    <3> QED BY <2>6, <2>12, <3>2, <3>5
  <2> QED BY <2>11, <2>12
<1> QED BY <1>2, <1>3

\* What a space is depends on its own tables only.
LEMMA SpaceSame ==
  ASSUME NEW t, NEW t2, NEW map, Space(t, map), \A q \in PagesIn(t, map) : t2[q] = t[q]
  PROVE  /\ Space(t2, map) /\ PagesIn(t2, map) = PagesIn(t, map)
         /\ \A r \in Region : Pdpt(t2, map, r) = Pdpt(t, map, r) /\ Pd(t2, map, r) = Pd(t, map, r)
         /\ UserPage(t2, map) = UserPage(t, map)
<1>1. NULL \notin Page
  BY PageAssumption DEF NULL
<1>2. map \in PagesIn(t, map)
  BY <1>1 DEF Space, PagesIn
<1>3. t2[map] = t[map]
  BY <1>2
<1>4. ASSUME NEW r \in Region
      PROVE  Pdpt(t2, map, r) = Pdpt(t, map, r) /\ Pd(t2, map, r) = Pd(t, map, r)
  <2>1. Pdpt(t2, map, r) = Pdpt(t, map, r)
    BY <1>3 DEF Pdpt
  <2>2. CASE t[map][r] = NULL
    BY <1>3, <2>1, <2>2 DEF Pd
  <2>3. CASE t[map][r] # NULL
    <3>1. t[map][r] \in PagesIn(t, map)
      BY <2>3 DEF PagesIn, Pdpt, Region
    <3> QED BY <1>3, <2>1, <2>3, <3>1 DEF Pd
  <2> QED BY <2>2, <2>3
<1>5. "user" \in Region /\ "kernel" \in Region
  BY DEF Region
<1>6. UserPage(t2, map) = UserPage(t, map)
  <2>1. CASE Pd(t, map, "user") = NULL
    BY <1>4, <1>5, <2>1 DEF UserPage
  <2>2. CASE Pd(t, map, "user") # NULL
    <3>1. Pd(t, map, "user") \in PagesIn(t, map)
      BY <2>2 DEF PagesIn
    <3> QED BY <1>4, <1>5, <2>2, <3>1 DEF UserPage
  <2> QED BY <2>1, <2>2
<1>7. PagesIn(t2, map) = PagesIn(t, map)
  BY <1>4, <1>5, <1>6 DEF PagesIn
<1>8. Space(t2, map)
  BY <1>4, <1>5, <1>6 DEF Space
<1> QED BY <1>4, <1>6, <1>7, <1>8

\* What mapping the user page makes of the heap h: g, and whether it worked.
UserMade(h, map, ok, g) ==
  /\ Sound(g) /\ g.failed = h.failed
  /\ ok <=> Len(h.free) >= 3
  /\ ok => /\ FreeSet(g) \subseteq FreeSet(h) /\ Len(g.free) = Len(h.free) - 3
           /\ Space(g.table, map)
           /\ PagesIn(g.table, map) = PagesIn(h.table, map) \cup Taken(h, g)
           /\ Pdpt(g.table, map, "user") # NULL /\ Pd(g.table, map, "user") # NULL
           /\ UserPage(g.table, map) # NULL
           /\ Pdpt(g.table, map, "kernel") = Pdpt(h.table, map, "kernel")
           /\ Pd(g.table, map, "kernel") = Pd(h.table, map, "kernel")
  /\ ~ok => g = h \/ FreeSet(g) = FreeSet(h) \cup PagesIn(h.table, map)
  /\ \A q \in Page : q \notin FreeSet(h) \cup PagesIn(h.table, map) => g.table[q] = h.table[q]

\* A space that only maps the kernel, apart from the free list.
KernelOnly(h, map) ==
  /\ Sound(h) /\ Space(h.table, map) /\ PagesIn(h.table, map) \cap FreeSet(h) = {}
  /\ Pdpt(h.table, map, "user") = NULL

\* setup_uvm() and the first half of copy_uvm(): they fail only without three
\* free pages, and then the space is as it was or given back altogether.
LEMMA MapUser ==
  ASSUME NEW h, NEW map, KernelOnly(h, map)
  PROVE  \E ok \in BOOLEAN : \E g :
           /\ MapUserPage(h, map) = [ok |-> ok, heap |-> g]
           /\ UserMade(h, map, ok, g)
<1>1. Sound(h) /\ Space(h.table, map) /\ PagesIn(h.table, map) \cap FreeSet(h) = {}
  BY DEF KernelOnly
<1>2. /\ h.free \in Seq(Page) /\ Len(h.free) \in Nat /\ (h.free = <<>> <=> Len(h.free) = 0)
      /\ NULL \notin Page /\ FreeSet(h) \subseteq Page /\ h.table \in [Page -> [Region -> Entry]]
  BY <1>1, HeapFields
<1>3. CASE h.free = <<>>
  <2>1. kalloc_cleared(h) = [page |-> NULL, heap |-> h]
    BY <1>3 DEF kalloc_cleared
  <2>2. MapUserPage(h, map) = [ok |-> FALSE, heap |-> h]
    BY <2>1 DEF MapUserPage
  <2>3. UserMade(h, map, FALSE, h)
    BY <1>1, <1>2, <1>3 DEF UserMade
  <2> QED BY <2>2, <2>3
<1>4. CASE h.free # <<>>
  <2>1. PICK v, k : /\ v = kalloc_cleared(h).page /\ k = kalloc_cleared(h).heap
                    /\ v \in Page /\ v # NULL /\ v \in FreeSet(h) /\ Sound(k)
                    /\ FreeSet(k) = FreeSet(h) \ {v} /\ Len(k.free) = Len(h.free) - 1
                    /\ k.table = [h.table EXCEPT ![v] = Cleared] /\ k.failed = h.failed
    BY <1>1, <1>4, TakePage
  <2>2. \A q \in Page : q # v => k.table[q] = h.table[q]
    BY <1>2, <2>1
  <2>3. PagesIn(h.table, map) \subseteq Page \ {v}
    BY <1>1, <2>1 DEF Space, PagesIn, Region
  <2>4. "kernel" \in Region /\ "user" \in Region /\ "user" # "kernel"
    BY DEF Region
  <2>5. /\ Space(k.table, map) /\ PagesIn(k.table, map) = PagesIn(h.table, map)
        /\ Pdpt(k.table, map, "user") = NULL
        /\ Pdpt(k.table, map, "kernel") = Pdpt(h.table, map, "kernel")
        /\ Pd(k.table, map, "kernel") = Pd(h.table, map, "kernel")
    <3>1. \A q \in PagesIn(h.table, map) : k.table[q] = h.table[q]
      BY <2>2, <2>3
    <3>2. /\ Space(k.table, map) /\ PagesIn(k.table, map) = PagesIn(h.table, map)
          /\ \A r \in Region : /\ Pdpt(k.table, map, r) = Pdpt(h.table, map, r)
                              /\ Pd(k.table, map, r) = Pd(h.table, map, r)
      BY <1>1, <3>1, SpaceSame
    <3>3. Pdpt(h.table, map, "user") = NULL
      BY DEF KernelOnly
    <3> QED BY <2>4, <3>2, <3>3
  <2>6. PICK ok, g :             /\ ok \in BOOLEAN
                                 /\ map_pages(k, map, "user", v) = [ok |-> ok, heap |-> g]
                                 /\ Mapped(k, map, "user", v, ok, g)
    <3>1. Mappable(k, map, "user", v)
      BY <1>1, <2>1, <2>3, <2>5 DEF Mappable, Entry
    <3> QED BY <2>4, <3>1, MapRegion
  <2>7. MapUserPage(h, map) = IF ok THEN [ok |-> ok, heap |-> g]
                              ELSE [ok |-> FALSE, heap |-> free_vm(kfree(g, v), map)]
    <3>1. PICK m : m = [ok |-> ok, heap |-> g] /\ m.ok = ok /\ m.heap = g
      BY <2>6
    <3>2. MapUserPage(h, map) = OrAllFreed(m, v, map)
      BY <2>1, <2>6, <3>1 DEF MapUserPage
    <3> QED BY <3>1, <3>2 DEF OrAllFreed
  <2>8. /\ Sound(g) /\ g.failed = k.failed
        /\ ok <=> Len(k.free) >= 2
        /\ FreeSet(g) \subseteq FreeSet(k)
        /\ ok => Len(g.free) = Len(k.free) - 2
        /\ Space(g.table, map)
        /\ PagesIn(g.table, map) = PagesIn(k.table, map) \cup Taken(k, g) \cup IF ok THEN {v} ELSE {}
        /\ ok => Pdpt(g.table, map, "user") # NULL /\ Pd(g.table, map, "user") # NULL
        /\ ok => UserPage(g.table, map) = v
        /\ Pdpt(g.table, map, "kernel") = Pdpt(k.table, map, "kernel")
        /\ Pd(g.table, map, "kernel") = Pd(k.table, map, "kernel")
        /\ \A q \in Page : q # map /\ q \notin Taken(k, g) => g.table[q] = k.table[q]
    BY <2>4, <2>6 DEF Mapped
  <2>9. /\ ok <=> Len(h.free) >= 3
        /\ ok => Len(g.free) = Len(h.free) - 3
    BY <1>2, <2>1, <2>8
  <2>10. Taken(h, g) = Taken(k, g) \cup {v} /\ v \notin FreeSet(g)
    BY <2>1, <2>8 DEF Taken
  <2>11. ASSUME NEW q \in Page, q \notin FreeSet(h) \cup PagesIn(h.table, map)
         PROVE  g.table[q] = h.table[q]
    <3>1. q # map /\ q \notin Taken(k, g) /\ q # v
      BY <1>2, <2>1, <2>11 DEF Taken, PagesIn, Space
    <3> QED BY <2>2, <2>8, <3>1
  <2>12. CASE ok
    <3>1. PagesIn(g.table, map) = PagesIn(h.table, map) \cup Taken(h, g)
      BY <2>5, <2>8, <2>10, <2>12
    <3>2. FreeSet(g) \subseteq FreeSet(h)
      BY <2>1, <2>8
    <3>3. UserMade(h, map, ok, g)
      BY <2>1, <2>5, <2>8, <2>9, <2>11, <2>12, <3>1, <3>2 DEF UserMade
    <3> QED BY <2>7, <2>12, <3>3
  <2>13. CASE ~ok
    <3>1. PICK e : /\ e = kfree(g, v) /\ Sound(e) /\ FreeSet(e) = FreeSet(g) \cup {v}
                   /\ e.table = g.table /\ e.failed = g.failed
      BY <2>1, <2>8, <2>10, FreePage
    <3>2. PagesIn(e.table, map) = PagesIn(h.table, map) \cup Taken(k, g)
      BY <2>5, <2>8, <2>13, <3>1
    <3>3. Space(e.table, map) /\ PagesIn(e.table, map) \cap FreeSet(e) = {}
      BY <1>1, <2>1, <2>3, <2>8, <3>1, <3>2 DEF Taken
    <3>4. PICK f : /\ f = free_vm(e, map) /\ Sound(f) /\ f.failed = e.failed
                   /\ FreeSet(f) = FreeSet(e) \cup PagesIn(e.table, map)
                   /\ \A q \in Page \ PagesIn(e.table, map) : f.table[q] = e.table[q]
      BY <3>1, <3>3, FreeSpace
    <3>5. FreeSet(f) = FreeSet(h) \cup PagesIn(h.table, map)
      BY <2>1, <2>8, <2>10, <3>1, <3>2, <3>4 DEF Taken
    <3>6. ASSUME NEW q \in Page, q \notin FreeSet(h) \cup PagesIn(h.table, map)
          PROVE  f.table[q] = h.table[q]
      <4>1. q \notin PagesIn(e.table, map)
        BY <2>1, <3>2, <3>6 DEF Taken
      <4> QED BY <2>11, <3>1, <3>4, <3>6, <4>1
    <3>7. UserMade(h, map, FALSE, f)
      BY <2>1, <2>8, <2>9, <2>13, <3>1, <3>4, <3>5, <3>6 DEF UserMade
    <3> QED BY <2>7, <2>13, <3>1, <3>4, <3>7
  <2> QED BY <2>12, <2>13
<1> QED BY <1>3, <1>4

-----------------------------------------------------------------------------
(***************************************************************************)
(* Making a process.                                                       *)
(***************************************************************************)

\* What the memory part of alloc_new_process() makes of the heap h: g, with a
\* stack s and a space v that maps the kernel, or NULL twice.
NewMade(h, slot, s, v, g) ==
  /\ Sound(g) /\ g.failed = h.failed
  /\ v # NULL <=> Len(h.free) >= 4
  /\ FreeSet(g) \subseteq FreeSet(h)
  /\ slot \in {"INIT", "UNUSED"}
  /\ v = NULL => s = NULL /\ FreeSet(g) = FreeSet(h)
  /\ v # NULL => /\ slot = "INIT" /\ s \in FreeSet(h) /\ Len(g.free) = Len(h.free) - 4
                 /\ KernelOnly(g, v)
                 /\ Pdpt(g.table, v, "kernel") # NULL /\ Pd(g.table, v, "kernel") # NULL
                 /\ Taken(h, g) = {s} \cup PagesIn(g.table, v) /\ s \notin PagesIn(g.table, v)
  /\ \A q \in Page \ FreeSet(h) : g.table[q] = h.table[q]

\* alloc_new_process() takes four pages or fails and takes none.
LEMMA NewProcess ==
  ASSUME NEW h, Sound(h)
  PROVE  \E slot, s, v, g :
           /\ NewProcessMemory(h) = [slot |-> slot, stack |-> s, map |-> v, heap |-> g]
           /\ NewMade(h, slot, s, v, g)
<1>1. /\ h.free \in Seq(Page) /\ Len(h.free) \in Nat /\ (h.free = <<>> <=> Len(h.free) = 0)
      /\ NULL \notin Page /\ FreeSet(h) \subseteq Page /\ h.table \in [Page -> [Region -> Entry]]
  BY HeapFields
<1>2. CASE h.free = <<>>
  <2>1. kalloc_cleared(h) = [page |-> NULL, heap |-> h]
    BY <1>2 DEF kalloc_cleared
  <2>2. NewProcessMemory(h) = [slot |-> "INIT", stack |-> NULL, map |-> NULL, heap |-> h]
    BY <2>1 DEF NewProcessMemory
  <2>3. NewMade(h, "INIT", NULL, NULL, h)
    BY <1>1, <1>2 DEF NewMade
  <2> QED BY <2>2, <2>3
<1>3. CASE h.free # <<>>
  <2>1. PICK s, k : /\ s = kalloc_cleared(h).page /\ k = kalloc_cleared(h).heap
                    /\ s \in Page /\ s # NULL /\ s \in FreeSet(h) /\ Sound(k)
                    /\ FreeSet(k) = FreeSet(h) \ {s} /\ Len(k.free) = Len(h.free) - 1
                    /\ k.table = [h.table EXCEPT ![s] = Cleared] /\ k.failed = h.failed
    BY <1>3, TakePage
  <2>2. \A q \in Page : q # s => k.table[q] = h.table[q]
    BY <1>1, <2>1
  <2>3. PICK v, g : setup_kvm(k) = [page |-> v, heap |-> g] /\ KernelMade(k, v, g)
    BY <2>1, SetupKvm
  <2>4. NewProcessMemory(h) =
          IF v = NULL
            THEN [slot |-> "UNUSED", stack |-> NULL, map |-> NULL, heap |-> kfree(g, s)]
            ELSE [slot |-> "INIT", stack |-> s, map |-> v, heap |-> g]
    <3>1. PICK m : m = setup_kvm(k) /\ m.page = v /\ m.heap = g
      BY <2>3
    <3>2. NewProcessMemory(h) = WithStack(s, m)
      BY <2>1, <3>1 DEF NewProcessMemory
    <3> QED BY <3>1, <3>2 DEF WithStack
  <2>5. v # NULL <=> Len(h.free) >= 4
    BY <1>1, <2>1, <2>3 DEF KernelMade
  <2>6. s \notin FreeSet(g) /\ FreeSet(g) \subseteq FreeSet(h)
    BY <2>1, <2>3 DEF KernelMade
  <2>7. \A q \in Page \ FreeSet(h) : g.table[q] = h.table[q]
    BY <2>1, <2>2, <2>3 DEF KernelMade
  <2>8. Sound(g) /\ g.failed = h.failed
    BY <2>1, <2>3 DEF KernelMade
  <2>9. CASE v = NULL
    <3>1. PICK f : /\ f = kfree(g, s) /\ Sound(f) /\ FreeSet(f) = FreeSet(g) \cup {s}
                   /\ f.table = g.table /\ f.failed = g.failed
      BY <2>1, <2>6, <2>8, FreePage
    <3>2. FreeSet(f) = FreeSet(h)
      BY <2>1, <2>3, <2>9, <3>1 DEF KernelMade
    <3>3. NewMade(h, "UNUSED", NULL, NULL, f)
      BY <2>5, <2>7, <2>8, <2>9, <3>1, <3>2 DEF NewMade
    <3> QED BY <2>4, <2>9, <3>1, <3>3
  <2>10. CASE v # NULL
    <3>1. /\ v \in FreeSet(k) /\ Len(g.free) = Len(k.free) - 3
          /\ Space(g.table, v) /\ PagesIn(g.table, v) = Taken(k, g)
          /\ Pdpt(g.table, v, "user") = NULL
          /\ Pdpt(g.table, v, "kernel") # NULL /\ Pd(g.table, v, "kernel") # NULL
      BY <2>3, <2>10 DEF KernelMade
    <3>2. KernelOnly(g, v)
      BY <2>8, <3>1 DEF KernelOnly, Taken
    <3>3. Taken(h, g) = {s} \cup PagesIn(g.table, v) /\ s \notin PagesIn(g.table, v)
      BY <2>1, <2>6, <3>1 DEF Taken
    <3>4. Len(g.free) = Len(h.free) - 4
      BY <1>1, <2>1, <3>1
    <3>5. NewMade(h, "INIT", s, v, g)
      BY <2>1, <2>5, <2>6, <2>7, <2>8, <2>10, <3>1, <3>2, <3>3, <3>4 DEF NewMade
    <3> QED BY <2>4, <2>10, <3>5
  <2> QED BY <2>9, <2>10
<1> QED BY <1>2, <1>3

\* A complete space: both regions and the user page.
Full(t, map) ==
  /\ Space(t, map)
  /\ \A r \in Region : Pdpt(t, map, r) # NULL /\ Pd(t, map, r) # NULL
  /\ UserPage(t, map) # NULL

\* The pages that a half-made process with the stack s and the space v keeps of
\* the heap g: none of a space that has been freed.
Left(s, v, g) ==
  ({s} \cup IF v \in Page \ FreeSet(g) THEN PagesIn(g.table, v) ELSE {}) \ {NULL}

\* What the memory part of fork() makes of the heap h: g, with a stack s and a
\* complete space v if it worked; if not, what is not free is left to the child.
ForkMade(h, ok, slot, s, v, g) ==
  /\ Sound(g) /\ g.failed = h.failed
  /\ ok <=> Len(h.free) >= 7
  /\ slot \in {"INIT", "UNUSED"}
  /\ ok => /\ s \in FreeSet(h) /\ FreeSet(g) \subseteq FreeSet(h) /\ Len(g.free) = Len(h.free) - 7
           /\ Full(g.table, v)
           /\ Taken(h, g) = {s} \cup PagesIn(g.table, v) /\ s \notin PagesIn(g.table, v)
  /\ ~ok => /\ FreeSet(g) \subseteq FreeSet(h) /\ Taken(h, g) = Left(s, v, g)
            /\ s \in Page \cup {NULL} /\ v \in Page \cup {NULL}
            /\ slot = "UNUSED" => Taken(h, g) = {}
  /\ \A q \in Page \ FreeSet(h) : g.table[q] = h.table[q]

\* fork() of a process with a complete space works exactly when seven pages are
\* free, and then the child has those.
LEMMA ForkSpace ==
  ASSUME NEW h, Sound(h), NEW src, Full(h.table, src), PagesIn(h.table, src) \cap FreeSet(h) = {}
  PROVE  \E ok \in BOOLEAN : \E slot, s, v, g :
           /\ ForkMemory(h, src) =
                [ok |-> ok, slot |-> slot, stack |-> s, map |-> v, heap |-> g]
           /\ ForkMade(h, ok, slot, s, v, g)
<1>1. /\ Len(h.free) \in Nat /\ NULL \notin Page /\ FreeSet(h) \subseteq Page
  BY HeapFields
<1>2. PICK slot, s, v, k :
        /\ NewProcessMemory(h) = [slot |-> slot, stack |-> s, map |-> v, heap |-> k]
        /\ NewMade(h, slot, s, v, k)
  BY NewProcess
<1>3. PICK m : /\ m = NewProcessMemory(h)
               /\ m.slot = slot /\ m.stack = s /\ m.map = v /\ m.heap = k
  BY <1>2
<1>4. ForkMemory(h, src) =
        Outcome(IF v = NULL THEN [ok |-> FALSE, heap |-> k] ELSE copy_uvm(k, v, src), m)
  BY <1>3 DEF ForkMemory, WithCopy
<1>5. ASSUME NEW ok \in BOOLEAN, NEW g, NEW c, c = [ok |-> ok, heap |-> g]
      PROVE  Outcome(c, m) = [ok |-> ok, slot |-> slot, stack |-> s, map |-> v, heap |-> g]
  <2>1. c.ok = ok /\ c.heap = g
    BY <1>5
  <2> QED BY <1>3, <2>1 DEF Outcome
<1>6. CASE v = NULL
  <2>1. ForkMemory(h, src) = [ok |-> FALSE, slot |-> slot, stack |-> s, map |-> v, heap |-> k]
    BY <1>4, <1>5, <1>6
  <2>2. /\ Sound(k) /\ k.failed = h.failed /\ ~(Len(h.free) >= 4) /\ s = NULL
        /\ FreeSet(k) = FreeSet(h) /\ slot \in {"INIT", "UNUSED"}
        /\ \A q \in Page \ FreeSet(h) : k.table[q] = h.table[q]
    BY <1>2, <1>6 DEF NewMade
  <2>3. Taken(h, k) = {} /\ Left(s, v, k) = {}
    BY <1>1, <1>6, <2>2 DEF Taken, Left
  <2>4. ForkMade(h, FALSE, slot, s, v, k)
    BY <1>1, <1>6, <2>2, <2>3 DEF ForkMade
  <2> QED BY <2>1, <2>4
<1>7. CASE v # NULL
  <2>1. /\ Sound(k) /\ k.failed = h.failed /\ Len(h.free) >= 4
        /\ FreeSet(k) \subseteq FreeSet(h) /\ slot = "INIT" /\ s \in FreeSet(h)
        /\ Len(k.free) = Len(h.free) - 4 /\ KernelOnly(k, v)
        /\ Pdpt(k.table, v, "kernel") # NULL /\ Pd(k.table, v, "kernel") # NULL
        /\ Taken(h, k) = {s} \cup PagesIn(k.table, v) /\ s \notin PagesIn(k.table, v)
        /\ \A q \in Page \ FreeSet(h) : k.table[q] = h.table[q]
    BY <1>2, <1>7 DEF NewMade
  <2>2. PICK ok, g : ok \in BOOLEAN /\ MapUserPage(k, v) = [ok |-> ok, heap |-> g] /\ UserMade(k, v, ok, g)
    BY <2>1, MapUser
  <2>3. /\ Sound(g) /\ g.failed = h.failed
        /\ ok <=> Len(h.free) >= 7
    BY <1>1, <2>1, <2>2 DEF UserMade
  <2>4. ASSUME NEW q \in Page \ FreeSet(h)  PROVE g.table[q] = h.table[q]
    <3>1. q \notin FreeSet(k) \cup PagesIn(k.table, v)
      BY <2>1 DEF Taken
    <3>2. g.table[q] = k.table[q]
      BY <2>2, <3>1 DEF UserMade
    <3> QED BY <2>1, <3>2
  <2>5. copy_uvm(k, v, src) = [ok |-> ok, heap |-> g]
    <3>1. PICK c : c = MapUserPage(k, v) /\ c = [ok |-> ok, heap |-> g] /\ c.ok = ok /\ c.heap = g
      BY <2>2
    <3>2. copy_uvm(k, v, src) = CopyPage(c, v, Pd(g.table, src, "user"))
      <4>1. find_pdpt_entry(g, src, "user", FALSE).page = Pd(g.table, src, "user")
        BY LookUp
      <4>2. copy_uvm(k, v, src) = CopyPage(c, v, find_pdpt_entry(c.heap, src, "user", FALSE).page)
        BY <3>1 DEF copy_uvm, CopyMapped
      <4> QED BY <3>1, <4>1, <4>2, Zenon
    <3>3. CASE ~ok
      BY <3>1, <3>2, <3>3 DEF CopyPage
    <3>4. CASE ok
      <4>1. \A q \in PagesIn(h.table, src) : g.table[q] = h.table[q]
        <5>1. PagesIn(h.table, src) \subseteq Page
          BY DEF Full, Space, PagesIn, Region
        <5> QED BY <2>4, <5>1
      <4>2. Pd(g.table, src, "user") # NULL /\ UserPage(g.table, src) # NULL
        <5>1. /\ Pd(g.table, src, "user") = Pd(h.table, src, "user")
              /\ UserPage(g.table, src) = UserPage(h.table, src)
          BY <4>1, SpaceSame DEF Full, Region
        <5> QED BY <5>1 DEF Full, Region
      <4>3. Present(g.table[Pd(g.table, src, "user")]["user"])
        BY <4>2 DEF UserPage, Present
      <4>4. CopyPage(c, v, Pd(g.table, src, "user")) = [ok |-> TRUE, heap |-> g]
        BY <3>1, <3>4, <4>2, <4>3 DEF CopyPage, Asserted
      <4> QED BY <3>2, <3>4, <4>4
    <3> QED BY <3>3, <3>4
  <2>6. ok \in BOOLEAN
    BY <2>2
  <2>7. ForkMemory(h, src) = [ok |-> ok, slot |-> slot, stack |-> s, map |-> v, heap |-> g]
    BY <1>4, <1>5, <1>7, <2>6, <2>5
  <2>8. ASSUME ok
        PROVE  /\ FreeSet(g) \subseteq FreeSet(h) /\ Len(g.free) = Len(h.free) - 7
               /\ Full(g.table, v)
               /\ Taken(h, g) = {s} \cup PagesIn(g.table, v) /\ s \notin PagesIn(g.table, v)
    <3>1. /\ FreeSet(g) \subseteq FreeSet(k) /\ Len(g.free) = Len(k.free) - 3
          /\ Space(g.table, v)
          /\ PagesIn(g.table, v) = PagesIn(k.table, v) \cup Taken(k, g)
          /\ Pdpt(g.table, v, "user") # NULL /\ Pd(g.table, v, "user") # NULL
          /\ UserPage(g.table, v) # NULL
          /\ Pdpt(g.table, v, "kernel") = Pdpt(k.table, v, "kernel")
          /\ Pd(g.table, v, "kernel") = Pd(k.table, v, "kernel")
      BY <2>2, <2>8 DEF UserMade
    <3>2. Full(g.table, v)
      BY <2>1, <3>1 DEF Full, Region
    <3>3. s \notin FreeSet(k)
      BY <2>1 DEF Taken
    <3>4. Taken(h, g) = {s} \cup PagesIn(g.table, v) /\ s \notin PagesIn(g.table, v)
      BY <2>1, <3>1, <3>3 DEF Taken
    <3> QED BY <1>1, <2>1, <3>1, <3>2, <3>4
  <2>9. ASSUME ~ok
        PROVE  /\ FreeSet(g) \subseteq FreeSet(h) /\ Taken(h, g) = Left(s, v, g)
               /\ s \in Page \cup {NULL} /\ v \in Page \cup {NULL}
    <3>1. v \in Page /\ v \in PagesIn(k.table, v) /\ NULL \notin PagesIn(k.table, v)
      BY <1>1, <2>1 DEF KernelOnly, Space, PagesIn
    <3>2. s \in Page /\ s # NULL /\ PagesIn(k.table, v) \subseteq FreeSet(h)
      BY <1>1, <2>1 DEF Taken
    <3>3. CASE g = k
      <4>1. v \notin FreeSet(g)
        BY <2>1, <3>1, <3>3 DEF Taken
      <4>2. Left(s, v, g) = {s} \cup PagesIn(k.table, v)
        BY <3>1, <3>2, <3>3, <4>1 DEF Left
      <4> QED BY <2>1, <3>1, <3>2, <3>3, <4>2
    <3>4. CASE FreeSet(g) = FreeSet(k) \cup PagesIn(k.table, v)
      <4>1. Left(s, v, g) = {s}
        BY <3>1, <3>2, <3>4 DEF Left
      <4>2. FreeSet(g) \subseteq FreeSet(h) /\ Taken(h, g) = {s}
        BY <2>1, <3>2, <3>4 DEF Taken
      <4> QED BY <3>1, <3>2, <4>1, <4>2
    <3> QED BY <2>2, <2>9, <3>3, <3>4 DEF UserMade
  <2>10. ForkMade(h, ok, slot, s, v, g)
    BY <2>1, <2>3, <2>4, <2>8, <2>9 DEF ForkMade
  <2> QED BY <2>6, <2>7, <2>10
<1> QED BY <1>6, <1>7

-----------------------------------------------------------------------------
(***************************************************************************)
(* The invariant.                                                          *)
(***************************************************************************)

\* The idle process runs on the boot stack and has a space that maps only the
\* kernel; the pages of the file tables are counted with it.
IdleOwns ==
  /\ stack[Idle] = NULL
  /\ Space(heap.table, page_map[Idle])
  /\ Pdpt(heap.table, page_map[Idle], "user") = NULL
  /\ Pdpt(heap.table, page_map[Idle], "kernel") # NULL
  /\ Pd(heap.table, page_map[Idle], "kernel") # NULL
  /\ \E x, y \in Page : x # y /\ fs_pages = {x, y}
  /\ fs_pages \cap PagesIn(heap.table, page_map[Idle]) = {}

\* Every other process, alive or dead, has a kernel stack and a complete space.
OwnsAll(p) ==
  /\ stack[p] \in Page
  /\ Full(heap.table, page_map[p])
  /\ stack[p] \notin PagesIn(heap.table, page_map[p])

\* What the processes own and what is free makes up the pool, without overlap,
\* and the numbers add up.
Parted ==
  /\ \A p \in UsedSlots : Owned(p) \cap FreeSet(heap) = {}
  /\ \A p, q \in UsedSlots : p # q => Owned(p) \cap Owned(q) = {}
  /\ FreeSet(heap) \cup UNION {Owned(p) : p \in UsedSlots} = pool
  /\ Len(heap.free) + BOOT_PAGES + PER_PROCESS * (Cardinality(UsedSlots) - 1) = Cardinality(pool)

Running ==
  /\ IInv /\ NoneHalfMade
  /\ stack \in [Slot -> Page \cup {NULL}] /\ page_map \in [Slot -> Page \cup {NULL}]
  /\ IdleOwns
  /\ \A p \in UsedSlots \ {Idle} : OwnsAll(p)
  /\ Parted
  /\ tss_rsp0 = stack[current_process] /\ cr3 = page_map[current_process]

\* A machine that a failed fork has stopped keeps a sound heap.
MInv ==
  /\ Sound(heap) /\ ~heap.failed
  /\ panic \in {"none", "fork"}
  /\ panic = "none" => Running
  /\ ForkFailsOnlyWhenFull /\ FailedForkLosesNothing

-----------------------------------------------------------------------------
(***************************************************************************)
(* Counting.                                                               *)
(***************************************************************************)

\* The free list is as long as it has pages.
LEMMA FreeCount ==
  ASSUME NEW h, Sound(h)
  PROVE  IsFiniteSet(FreeSet(h)) /\ Cardinality(FreeSet(h)) = Len(h.free)
<1> DEFINE s == h.free
           I == 1 .. Len(s)
<1>1. s \in Seq(Page) /\ IsInjective(s) /\ Len(s) \in Nat
  BY HeapFields
<1>2. IsFiniteSet(I) /\ Cardinality(I) = Len(s)
  <2>1. \A n \in Nat : IsFiniteSet(1 .. n) /\ Cardinality(1 .. n) = IF 1 > n THEN 0 ELSE n - 1 + 1
    BY FS_Interval
  <2>2. \A n \in Nat : IsFiniteSet(1 .. n) /\ Cardinality(1 .. n) = n
    BY <2>1
  <2> QED BY <1>1, <2>2
<1>3. s \in Bijection(I, FreeSet(h))
  <2>1. s \in [I -> Page] /\ DOMAIN s = I /\ FreeSet(h) = {s[i] : i \in I}
    BY <1>1 DEF FreeSet, Range
  <2>2. s \in [I -> FreeSet(h)]
    BY <2>1
  <2> QED BY <1>1, <2>1, <2>2 DEF Bijection, Injection, Surjection, IsInjective
<1> QED BY <1>2, <1>3, FS_Bijection DEF ExistsBijection

\* A space that maps the kernel has three pages, a complete one six.
LEMMA SpaceCount ==
  ASSUME NEW t, NEW map, Space(t, map), NULL \notin Page,
         Pdpt(t, map, "kernel") # NULL, Pd(t, map, "kernel") # NULL
  PROVE  /\ IsFiniteSet(PagesIn(t, map))
         /\ Pdpt(t, map, "user") = NULL => Cardinality(PagesIn(t, map)) = 3
         /\ Full(t, map) => Cardinality(PagesIn(t, map)) = 6
<1>1. PICK a, b, c, d, f :
        /\ a = Pdpt(t, map, "user") /\ b = Pdpt(t, map, "kernel")
        /\ c = Pd(t, map, "user") /\ d = Pd(t, map, "kernel") /\ f = UserPage(t, map)
  OBVIOUS
<1>2. /\ map # NULL /\ b # NULL /\ d # NULL
      /\ Apart(map, a, b, c, d, f) /\ PagesIn(t, map) = {map, a, b, c, d, f} \ {NULL}
  BY <1>1 DEF Space, PagesIn
<1>3. IsFiniteSet({map}) /\ Cardinality({map}) = 1
  BY FS_Singleton
<1>4. /\ map # b /\ d # map /\ d # b
  BY <1>2 DEF Apart
<1>5. IsFiniteSet({map} \cup {b}) /\ Cardinality({map} \cup {b}) = 2
  BY <1>3, <1>4, FS_AddElement
<1> DEFINE T == ({map} \cup {b}) \cup {d}
<1>6. IsFiniteSet(T) /\ Cardinality(T) = 3
  <2>1. d \notin {map} \cup {b}
    BY <1>4
  <2> QED BY <1>5, <2>1, FS_AddElement
<1> HIDE DEF T
<1>7. CASE a = NULL
  <2>1. c = NULL /\ f = NULL
    BY <1>1, <1>7 DEF Pdpt, Pd, UserPage
  <2>2. PagesIn(t, map) = T
    BY <1>2, <1>7, <2>1 DEF T
  <2>3. ~Full(t, map)
    BY <1>1, <1>7 DEF Full, Region
  <2> QED BY <1>6, <2>2, <2>3
<1>8. CASE a # NULL
  <2> DEFINE U == {v \in {a, c, f} : v # NULL}
  <2>1. a \notin T /\ IsFiniteSet(T \cup {a}) /\ Cardinality(T \cup {a}) = 4
    <3>1. a \notin T
      BY <1>2, <1>8 DEF Apart, T
    <3> QED BY <1>6, <3>1, FS_AddElement
  <2>2. IsFiniteSet((T \cup {a}) \cup {c})
    BY <2>1, FS_AddElement
  <2>3. IsFiniteSet(((T \cup {a}) \cup {c}) \cup {f})
    BY <2>2, FS_AddElement
  <2>4. PagesIn(t, map) \subseteq ((T \cup {a}) \cup {c}) \cup {f}
    BY <1>2 DEF T
  <2>5. IsFiniteSet(PagesIn(t, map))
    BY <2>3, <2>4, FS_Subset
  <2>6. ASSUME Full(t, map)  PROVE Cardinality(PagesIn(t, map)) = 6
    <3>1. c # NULL /\ f # NULL
      BY <1>1, <2>6 DEF Full, Region
    <3>2. c \notin T \cup {a}
      BY <1>2, <3>1, <1>8 DEF Apart, T
    <3>3. Cardinality((T \cup {a}) \cup {c}) = 5
      BY <2>1, <3>2, FS_AddElement
    <3>4. f \notin (T \cup {a}) \cup {c}
      BY <1>2, <3>1, <1>8 DEF Apart, T
    <3>5. Cardinality(((T \cup {a}) \cup {c}) \cup {f}) = 6
      BY <2>2, <3>3, <3>4, FS_AddElement
    <3>6. PagesIn(t, map) = ((T \cup {a}) \cup {c}) \cup {f}
      BY <1>2, <1>8, <3>1 DEF T
    <3> QED BY <3>5, <3>6
  <2> QED BY <1>1, <1>8, <2>5, <2>6
<1> QED BY <1>7, <1>8

\* What a process holds and how much that is.
LEMMA OwnedCount ==
  ASSUME Running, NEW p \in UsedSlots
  PROVE  /\ IsFiniteSet(Owned(p)) /\ Owned(p) \subseteq Page
         /\ Cardinality(Owned(p)) = IF p = Idle THEN BOOT_PAGES ELSE PER_PROCESS
         /\ page_map[p] \in Owned(p)
         /\ p # Idle => Owned(p) = {stack[p]} \cup PagesIn(heap.table, page_map[p])
         /\ p = Idle => Owned(p) = fs_pages \cup PagesIn(heap.table, page_map[p])
<1>1. NULL \notin Page
  BY PageAssumption DEF NULL
<1>2. \A m : Space(heap.table, m) => /\ PagesIn(heap.table, m) \subseteq Page
                                    /\ m \in PagesIn(heap.table, m)
  BY <1>1 DEF Space, PagesIn, Region
<1>3. CASE p = Idle
  <2>1. IdleOwns
    BY DEF Running
  <2> DEFINE S == PagesIn(heap.table, page_map[Idle])
  <2>2. Owned(p) = fs_pages \cup S
    BY <1>3, <2>1, PagesOfSpace DEF Owned, IdleOwns
  <2>3. IsFiniteSet(S) /\ Cardinality(S) = 3
    BY <1>1, <2>1, SpaceCount DEF IdleOwns
  <2>4. S \subseteq Page /\ page_map[Idle] \in S
    BY <1>2, <2>1 DEF IdleOwns
  <2>5. PICK x \in Page, y \in Page : x # y /\ fs_pages = {x, y} /\ x \notin S /\ y \notin S
    BY <2>1 DEF IdleOwns
  <2> HIDE DEF S
  <2>6. IsFiniteSet(S \cup {x}) /\ Cardinality(S \cup {x}) = 4
    BY <2>3, <2>5, FS_AddElement
  <2>7. IsFiniteSet((S \cup {x}) \cup {y}) /\ Cardinality((S \cup {x}) \cup {y}) = 5
    <3>1. y \notin S \cup {x}
      BY <2>5
    <3>2. PICK T : T = S \cup {x}
      OBVIOUS
    <3>3. IsFiniteSet(T \cup {y}) /\ Cardinality(T \cup {y}) = Cardinality(T) + 1
      BY <2>6, <3>1, <3>2, FS_AddElement
    <3> QED BY <2>6, <3>2, <3>3
  <2>8. Owned(p) = (S \cup {x}) \cup {y}
    BY <2>2, <2>5
  <2>9. BOOT_PAGES = 5
    BY DEF BOOT_PAGES, IDLE_PAGES, FS_PAGES
  <2> QED BY <1>3, <2>2, <2>4, <2>5, <2>7, <2>8, <2>9 DEF S
<1>4. CASE p # Idle
  <2>1. OwnsAll(p)
    BY <1>4 DEF Running
  <2> DEFINE S == PagesIn(heap.table, page_map[p])
  <2>2. stack[p] \in Page /\ Full(heap.table, page_map[p]) /\ stack[p] \notin S
        /\ Space(heap.table, page_map[p])
    BY <2>1 DEF OwnsAll, Full
  <2>3. Owned(p) = S \cup {stack[p]}
    BY <1>1, <1>4, <2>2, PagesOfSpace DEF Owned
  <2>4. IsFiniteSet(S) /\ Cardinality(S) = 6
    BY <1>1, <2>2, SpaceCount DEF Full, Region
  <2>5. S \subseteq Page /\ page_map[p] \in S
    BY <1>2, <2>2
  <2> HIDE DEF S
  <2>6. IsFiniteSet(S \cup {stack[p]}) /\ Cardinality(S \cup {stack[p]}) = 7
    BY <2>2, <2>4, FS_AddElement
  <2> QED BY <1>4, <2>2, <2>3, <2>5, <2>6 DEF PER_PROCESS, S
<1> QED BY <1>3, <1>4

-----------------------------------------------------------------------------
(***************************************************************************)
(* The steps, as the memory sees them.                                     *)
(***************************************************************************)

\* The slots in use, and those who are among them.
LEMMA UsedAre ==
  ASSUME IInv
  PROVE  /\ UsedSlots = {p \in Slot : p = Idle \/ pid[p] # 0}
         /\ Idle \in UsedSlots /\ current_process \in UsedSlots
         /\ kill_list \subseteq UsedSlots \ {Idle, current_process}
         /\ IsFiniteSet(UsedSlots)
<1>1. Idle \in Slot /\ current_process \in Slot /\ kill_list \subseteq Slot \ {Idle}
  BY ConstantsAssumption, CurrentRuns DEF IInv, TypeOK
<1>2. \A p \in Slot : state[p] # "UNUSED" <=> p = Idle \/ pid[p] # 0
  BY DEF IInv, SlotsOK
<1>3. UsedSlots = {p \in Slot : p = Idle \/ pid[p] # 0}
  BY <1>2 DEF UsedSlots
<1>4. current_process \in UsedSlots
  BY <1>1, <1>3, ConstantsAssumption, CurrentRuns
<1>5. \A z \in kill_list : state[z] = "KILLED" /\ z # current_process
  BY <1>1, ConstantsAssumption, CurrentRuns DEF IInv, ListsMatchStates, Proc
<1>6. IsFiniteSet(Slot)
  BY ConstantsAssumption, FS_Interval DEF Slot
<1>7. IsFiniteSet(UsedSlots)
  BY <1>6, FS_Subset DEF UsedSlots
<1> QED BY <1>1, <1>3, <1>4, <1>5, <1>7 DEF UsedSlots

\* The same behind a step.
LEMMA UsedAreNext ==
  ASSUME IInv'
  PROVE  UsedSlots' = {p \in Slot : p = Idle \/ pid'[p] # 0}
<1>1. \A p \in Slot : state'[p] # "UNUSED" <=> p = Idle \/ pid'[p] # 0
  BY DEF IInv, SlotsOK
<1> QED BY <1>1 DEF UsedSlots

\* The kinds of step: the memory is not touched; the process table is full; a
\* child gets its memory, or there is not enough; a corpse is collected.
Quiet == UNCHANGED <<memvars, pid>> /\ panic' = "none"
TableFull == FreeSlots = {} /\ UNCHANGED <<memvars, state>> /\ panic' = "fork"
Child(m) ==
  /\ current_process # Idle /\ FreeSlots # {}
  /\ m = ForkMemory(heap, page_map[current_process])
  /\ Keep(m)
ChildBorn(m) ==
  /\ Child(m) /\ m.ok /\ panic' = "none"
  /\ pid' = [pid EXCEPT ![FirstFree] = pid_num]
  /\ UNCHANGED current_process
ChildFailed(m) == Child(m) /\ ~m.ok /\ HalfMade(m)
Collected(z) ==
  /\ z \in kill_list /\ Release(z)
  /\ pid' = [pid EXCEPT ![z] = 0] /\ panic' = "none"
  /\ UNCHANGED current_process
Kinds ==
  \/ [Next]_vars /\ (Quiet \/ TableFull \/ \E m : ChildBorn(m) \/ \E z : Collected(z))
  \/ \E m : ChildFailed(m)

\* A turn of wait() with its memory side.
LEMMA WaitKinds ==
  ASSUME IInv, panic = "none", NEW k, WaitLoop(k), ReleaseCollected, panic' # "schedule"
  PROVE  Quiet \/ \E z : Collected(z)
<1>1. CASE \E z \in {y \in kill_list : pid[y] = k} : Reap(z)
  <2>1. PICK z \in kill_list : Reap(z)
    BY <1>1
  <2>2. kill_list' = kill_list \ {z}
    BY <2>1 DEF Reap
  <2>3. kill_list' \subseteq kill_list /\ kill_list' # kill_list /\ kill_list \ kill_list' = {z}
    BY <2>2
  <2>4. Release(z)
    BY <2>3 DEF ReleaseCollected
  <2>5. state[z] = "KILLED"
    BY DEF IInv, TypeOK, ListsMatchStates, Proc
  <2>6. panic' = "none" /\ pid' = [pid EXCEPT ![z] = 0] /\ UNCHANGED current_process
    BY <2>1, <2>5 DEF Reap
  <2>7. Collected(z)
    BY <2>4, <2>6 DEF Collected
  <2> QED BY <2>7
<1>2. CASE Sleep(ExitEvent) /\ UNCHANGED <<pid, kill_list>>
  <2>1. UNCHANGED memvars
    BY <1>2 DEF ReleaseCollected
  <2>2. panic' = "none"
    BY <1>2 DEF Sleep, Schedule
  <2> QED BY <1>2, <2>1, <2>2 DEF Quiet
<1> QED BY <1>1, <1>2 DEF WaitLoop

\* Every step of a machine that runs is of one of those kinds.
LEMMA StepKinds ==
  ASSUME IInv, panic = "none", [CNext]_<<mvars, cvars>>
  PROVE  Kinds
<1>1. ASSUME [Next]_vars  PROVE panic' # "schedule"
  <2>1. IInv'
    BY <1>1, ConstantsAssumption, NextIInv
  <2> QED BY <2>1 DEF IInv, OnlyForkAsserts
<1>2. CASE UserWorks \/ SysInvalid \/ SysExec \/ UNCHANGED <<mvars, cvars>>
  <2>1. UNCHANGED <<vars, memvars>>
    BY <1>2 DEF UserWorks, SysInvalid, SysExec, mvars
  <2> QED BY <2>1 DEF Kinds, Quiet, vars
<1>3. CASE CTimer
  <2>1. [Next]_vars /\ UNCHANGED <<memvars, pid>>
    BY <1>3 DEF CTimer, Next, TimerInterrupt
  <2>2. panic' \in {panic, "schedule"}
    BY <1>3 DEF CTimer, TimerInterrupt, Yield, Schedule
  <2> QED BY <1>1, <2>1, <2>2 DEF Kinds, Quiet
<1>4. CASE CWait
  <2>1. [Next]_vars
    BY <1>4 DEF CWait, Next
  <2>2. PICK k : WaitLoop(k) /\ ReleaseCollected
    BY <1>4 DEF CWait, SysWait
  <2> QED BY <1>1, <2>1, <2>2, WaitKinds DEF Kinds
<1>5. CASE CWaitResumed
  <2>1. [Next]_vars
    BY <1>5 DEF CWaitResumed, Next
  <2>2. PICK k : WaitLoop(k) /\ ReleaseCollected
    BY <1>5 DEF CWaitResumed, ResumeWait
  <2> QED BY <1>1, <2>1, <2>2, WaitKinds DEF Kinds
<1>6. CASE CFork
  <2>1. CASE FreeSlots = {} /\ SysFork /\ UNCHANGED memvars
    <3>1. [Next]_vars /\ TableFull
      BY <2>1 DEF Next, SysFork, TableFull
    <3> QED BY <3>1 DEF Kinds
  <2>2. CASE /\ InSyscall /\ FreeSlots # {}
             /\ \E m \in {ForkMemory(heap, page_map[current_process])} :
                  Keep(m) /\ IF m.ok THEN SysFork ELSE HalfMade(m)
    <3>1. PICK m : Child(m) /\ IF m.ok THEN SysFork ELSE HalfMade(m)
      BY <2>2 DEF Child, InSyscall
    <3>2. CASE m.ok
      <4>1. SysFork
        BY <3>1, <3>2
      <4>2. [Next]_vars
        BY <4>1 DEF Next
      <4>3. ChildBorn(m)
        BY <3>1, <3>2, <4>1 DEF ChildBorn, Child, SysFork
      <4> QED BY <4>2, <4>3 DEF Kinds
    <3>3. CASE ~m.ok
      <4>1. ChildFailed(m)
        BY <3>1, <3>3 DEF ChildFailed
      <4> QED BY <4>1 DEF Kinds
    <3> QED BY <3>2, <3>3
  <2> QED BY <1>6, <2>1, <2>2 DEF CFork, MFork
<1>7. CASE CExit
  <2>1. [Next]_vars /\ UNCHANGED <<memvars, pid>>
    BY <1>7 DEF CExit, Next, Exit
  <2>2. panic' \in {panic, "schedule"}
    BY <1>7 DEF CExit, Exit, Schedule
  <2> QED BY <1>1, <2>1, <2>2 DEF Kinds, Quiet
<1>8. CASE Stopped
  BY <1>8 DEF Stopped
<1> QED BY <1>2, <1>3, <1>4, <1>5, <1>6, <1>7, <1>8 DEF CNext

\* A slot whose pages no step touches keeps what it has.
LEMMA SlotKept ==
  ASSUME Running, NEW p \in UsedSlots, stack'[p] = stack[p], page_map'[p] = page_map[p],
         \A q \in Owned(p) : heap'.table[q] = heap.table[q], fs_pages' = fs_pages
  PROVE  /\ Owned(p)' = Owned(p)
         /\ p # Idle => OwnsAll(p)'
         /\ p = Idle => IdleOwns'
<1> DEFINE t == heap.table
           t2 == heap'.table
           map == page_map[p]
<1>1. Space(t, map) /\ PagesIn(t, map) \subseteq Owned(p)
  <2>1. Space(t, map)
    BY DEF Running, IdleOwns, OwnsAll, Full
  <2> QED BY <2>1, OwnedCount
<1>2. /\ Space(t2, map) /\ PagesIn(t2, map) = PagesIn(t, map)
      /\ \A r \in Region : Pdpt(t2, map, r) = Pdpt(t, map, r) /\ Pd(t2, map, r) = Pd(t, map, r)
      /\ UserPage(t2, map) = UserPage(t, map)
  <2>1. \A q \in PagesIn(t, map) : t2[q] = t[q]
    BY <1>1
  <2> HIDE DEF t, t2, map
  <2> QED BY <1>1, <2>1, SpaceSame
<1>3. Owned(p)' = Owned(p)
  <2>1. PagesOf(heap', map) = PagesOf(heap, map)
    BY <1>2, PagesOfSpace
  <2> QED BY <2>1 DEF Owned
<1>4. ASSUME p # Idle  PROVE OwnsAll(p)'
  <2>1. OwnsAll(p)
    BY <1>4 DEF Running
  <2>2. Full(t2, map)
    BY <1>2, <2>1 DEF OwnsAll, Full
  <2> QED BY <1>2, <2>1, <2>2 DEF OwnsAll
<1>5. ASSUME p = Idle  PROVE IdleOwns'
  <2>1. IdleOwns
    BY DEF Running
  <2>2. Pdpt(t2, map, "user") = NULL /\ Pdpt(t2, map, "kernel") # NULL /\ Pd(t2, map, "kernel") # NULL
    BY <1>2, <1>5, <2>1 DEF IdleOwns, Region
  <2> QED BY <1>2, <1>5, <2>1, <2>2 DEF IdleOwns
<1> QED BY <1>3, <1>4, <1>5

\* Where the memory is not touched.
LEMMA QuietStep ==
  ASSUME Running, IInv', UNCHANGED <<memvars, pid>>
  PROVE  IdleOwns' /\ (\A p \in UsedSlots' \ {Idle} : OwnsAll(p)') /\ Parted'
<1>1. UsedSlots' = UsedSlots
  BY UsedAre, UsedAreNext DEF Running
<1>2. UNCHANGED <<heap, stack, page_map, fs_pages, pool>>
  BY DEF memvars
<1>3. \A p \in Slot : Owned(p)' = Owned(p)
  BY <1>2 DEF Owned
<1>4. IdleOwns' /\ \A p \in UsedSlots \ {Idle} : OwnsAll(p)'
  BY <1>2 DEF Running, IdleOwns, OwnsAll
<1>5. Parted'
  <2>1. UsedSlots \subseteq Slot
    BY DEF UsedSlots
  <2>2. {Owned(p) : p \in UsedSlots}' = {Owned(p) : p \in UsedSlots}
    BY <1>1, <1>3, <2>1
  <2> QED BY <1>1, <1>2, <1>3, <2>1, <2>2 DEF Running, Parted
<1> QED BY <1>1, <1>4, <1>5

\* fork() with enough memory: the child owns the seven pages that it took.
LEMMA ChildStep ==
  ASSUME Running, Sound(heap), ~heap.failed, IInv', NEW m, ChildBorn(m)
  PROVE  /\ Sound(heap') /\ ~heap'.failed
         /\ stack' \in [Slot -> Page \cup {NULL}] /\ page_map' \in [Slot -> Page \cup {NULL}]
         /\ IdleOwns' /\ (\A p \in UsedSlots' \ {Idle} : OwnsAll(p)') /\ Parted'
         /\ stack'[current_process] = stack[current_process]
         /\ page_map'[current_process] = page_map[current_process]
<1> DEFINE src == page_map[current_process]
<1>1. IInv /\ current_process \in UsedSlots \ {Idle} /\ IsFiniteSet(UsedSlots) /\ Idle \in UsedSlots
  BY UsedAre DEF Running, ChildBorn, Child
<1>2. PICK c \in Slot : /\ c = FirstFree /\ c # Idle /\ c \notin UsedSlots
                        /\ pid_num # 0 /\ pid \in [Slot -> 0 .. MAX_PID]
  BY <1>1, ConstantsAssumption, FirstFreeIsFree DEF ChildBorn, Child, UsedSlots, Proc, IInv, TypeOK
<1>3. UsedSlots' = UsedSlots \cup {c}
  <2>1. pid'[c] = pid_num /\ \A p \in Slot : p # c => pid'[p] = pid[p]
    BY <1>2 DEF ChildBorn
  <2> QED BY <1>1, <1>2, <2>1, UsedAre, UsedAreNext
<1>4. OwnsAll(current_process) /\ PagesIn(heap.table, src) \cap FreeSet(heap) = {}
  BY <1>1, OwnedCount DEF Running, Parted
<1>5. PICK ok, slot, s, v, g :
        /\ m = [ok |-> ok, slot |-> slot, stack |-> s, map |-> v, heap |-> g]
        /\ ForkMade(heap, ok, slot, s, v, g)
  BY <1>4, ForkSpace DEF ChildBorn, Child, OwnsAll
<1>6. m.ok = ok /\ m.heap = g /\ m.stack = s /\ m.map = v /\ ok
  BY <1>5 DEF ChildBorn
<1>7. /\ heap' = g /\ fs_pages' = fs_pages /\ pool' = pool
      /\ stack' = [stack EXCEPT ![c] = s] /\ page_map' = [page_map EXCEPT ![c] = v]
  BY <1>2, <1>6 DEF ChildBorn, Child, Keep
<1>8. /\ Sound(g) /\ g.failed = heap.failed
      /\ s \in FreeSet(heap) /\ FreeSet(g) \subseteq FreeSet(heap) /\ Len(g.free) = Len(heap.free) - 7
      /\ Full(g.table, v)
      /\ Taken(heap, g) = {s} \cup PagesIn(g.table, v) /\ s \notin PagesIn(g.table, v)
      /\ \A q \in Page \ FreeSet(heap) : g.table[q] = heap.table[q]
  BY <1>5, <1>6 DEF ForkMade
<1>9. /\ FreeSet(heap) \subseteq Page /\ v \in Page /\ NULL \notin Page
      /\ Len(heap.free) \in Nat
  BY <1>8, HeapFields DEF Full, Space
<1>10. /\ stack \in [Slot -> Page \cup {NULL}] /\ page_map \in [Slot -> Page \cup {NULL}]
       /\ \A p \in Slot : p # c => stack'[p] = stack[p] /\ page_map'[p] = page_map[p]
       /\ stack'[c] = s /\ page_map'[c] = v
       /\ stack' \in [Slot -> Page \cup {NULL}] /\ page_map' \in [Slot -> Page \cup {NULL}]
  BY <1>2, <1>7, <1>8, <1>9 DEF Running
<1>11. ASSUME NEW p \in UsedSlots
       PROVE  /\ Owned(p)' = Owned(p)
              /\ p # Idle => OwnsAll(p)'
              /\ p = Idle => IdleOwns'
              /\ p # c
  <2>1. p \in Slot /\ p # c
    BY <1>2 DEF UsedSlots
  <2>2. \A q \in Owned(p) : heap'.table[q] = heap.table[q]
    <3>1. Owned(p) \subseteq Page \ FreeSet(heap)
      BY OwnedCount DEF Running, Parted
    <3> QED BY <1>7, <1>8, <3>1
  <2> QED BY <1>7, <1>10, <2>1, <2>2, SlotKept
<1>12. Owned(c)' = Taken(heap, g) /\ OwnsAll(c)'
  <2>1. Owned(c)' = {s} \cup PagesIn(g.table, v)
    BY <1>2, <1>7, <1>8, <1>9, <1>10, PagesOfSpace DEF Owned
  <2>2. OwnsAll(c)'
    BY <1>7, <1>8, <1>9, <1>10 DEF OwnsAll
  <2> QED BY <1>8, <2>1, <2>2
<1>13. Parted'
  <2>1. \A p \in UsedSlots' : Owned(p)' \cap FreeSet(heap') = {}
    BY <1>3, <1>7, <1>8, <1>11, <1>12 DEF Running, Parted, Taken
  <2>2. \A p \in UsedSlots : Owned(p) \cap Taken(heap, g) = {}
    BY DEF Running, Parted, Taken
  <2>3. \A p, q \in UsedSlots' : p # q => Owned(p)' \cap Owned(q)' = {}
    BY <1>3, <1>11, <1>12, <2>2 DEF Running, Parted
  <2>4. FreeSet(heap') \cup UNION {Owned(p)' : p \in UsedSlots'} = pool'
    <3>1. {Owned(p)' : p \in UsedSlots'} = {Owned(p) : p \in UsedSlots} \cup {Taken(heap, g)}
      BY <1>3, <1>11, <1>12
    <3>2. FreeSet(heap') \cup Taken(heap, g) = FreeSet(heap)
      BY <1>7, <1>8 DEF Taken
    <3> QED BY <1>7, <3>1, <3>2 DEF Running, Parted
  <2>5. Cardinality(UsedSlots') = Cardinality(UsedSlots) + 1 /\ Cardinality(UsedSlots) \in Nat
    BY <1>1, <1>2, <1>3, FS_AddElement, FS_CardinalityType
  <2>6. Len(heap'.free) + BOOT_PAGES + PER_PROCESS * (Cardinality(UsedSlots') - 1) = Cardinality(pool')
    BY <1>7, <1>8, <1>9, <2>5
      DEF Running, Parted, BOOT_PAGES, IDLE_PAGES, FS_PAGES, PER_PROCESS
  <2> QED BY <2>1, <2>3, <2>4, <2>6 DEF Parted
<1>14. stack'[current_process] = stack[current_process] /\ page_map'[current_process] = page_map[current_process]
  BY <1>1, <1>2, <1>10 DEF UsedSlots
<1> QED BY <1>1, <1>3, <1>7, <1>8, <1>10, <1>11, <1>12, <1>13, <1>14

\* wait() gives back what the corpse owned, all seven pages and nothing else.
LEMMA CollectStep ==
  ASSUME Running, Sound(heap), ~heap.failed, IInv', NEW z, Collected(z)
  PROVE  /\ Sound(heap') /\ ~heap'.failed
         /\ stack' \in [Slot -> Page \cup {NULL}] /\ page_map' \in [Slot -> Page \cup {NULL}]
         /\ IdleOwns' /\ (\A p \in UsedSlots' \ {Idle} : OwnsAll(p)') /\ Parted'
         /\ stack'[current_process] = stack[current_process]
         /\ page_map'[current_process] = page_map[current_process]
<1>1. /\ IInv /\ IsFiniteSet(UsedSlots) /\ Idle \in UsedSlots
      /\ z \in UsedSlots \ {Idle, current_process} /\ z \in Slot /\ current_process \in UsedSlots
  BY UsedAre DEF Running, Collected, UsedSlots
<1>2. UsedSlots' = UsedSlots \ {z}
  <2>1. pid \in [Slot -> 0 .. MAX_PID]
    BY <1>1 DEF IInv, TypeOK
  <2>2. pid'[z] = 0 /\ \A p \in Slot : p # z => pid'[p] = pid[p]
    BY <1>1, <2>1 DEF Collected
  <2> QED BY <1>1, <2>2, UsedAre, UsedAreNext
<1>3. PICK s, v : s = stack[z] /\ v = page_map[z]
  OBVIOUS
<1>4. /\ s \in Page /\ Full(heap.table, v) /\ Space(heap.table, v)
      /\ s \notin PagesIn(heap.table, v)
      /\ Owned(z) = {s} \cup PagesIn(heap.table, v)
      /\ Owned(z) \cap FreeSet(heap) = {} /\ IsFiniteSet(Owned(z)) /\ Cardinality(Owned(z)) = 7
  BY <1>1, <1>3, OwnedCount DEF Running, OwnsAll, Full, Parted, PER_PROCESS
<1>5. PICK k : /\ k = kfree(heap, s) /\ Sound(k) /\ FreeSet(k) = FreeSet(heap) \cup {s}
               /\ k.table = heap.table /\ k.failed = heap.failed
  BY <1>4, FreePage
<1>6. PICK g : /\ g = free_vm(k, v) /\ Sound(g) /\ g.failed = k.failed
               /\ FreeSet(g) = FreeSet(k) \cup PagesIn(k.table, v)
               /\ \A q \in Page \ PagesIn(k.table, v) : g.table[q] = k.table[q]
  BY <1>4, <1>5, FreeSpace
<1>7. /\ heap' = g /\ fs_pages' = fs_pages /\ pool' = pool
      /\ stack' = [stack EXCEPT ![z] = NULL] /\ page_map' = [page_map EXCEPT ![z] = NULL]
  BY <1>3, <1>5, <1>6 DEF Collected, Release
<1>8. FreeSet(g) = FreeSet(heap) \cup Owned(z)
  BY <1>4, <1>5, <1>6
<1>9. Len(g.free) = Len(heap.free) + 7
  <2>1. /\ IsFiniteSet(FreeSet(heap)) /\ Cardinality(FreeSet(heap)) = Len(heap.free)
        /\ Cardinality(FreeSet(g)) = Len(g.free)
    BY <1>6, FreeCount
  <2>2. Cardinality(FreeSet(heap) \cup Owned(z))
          = Cardinality(FreeSet(heap)) + Cardinality(Owned(z)) - Cardinality({})
    BY <1>4, <2>1, FS_Union
  <2>3. Cardinality({}) = 0 /\ Len(heap.free) \in Nat
    BY FS_EmptySet, HeapFields
  <2> QED BY <1>4, <1>8, <2>1, <2>2, <2>3
<1>10. /\ stack \in [Slot -> Page \cup {NULL}] /\ page_map \in [Slot -> Page \cup {NULL}]
       /\ \A p \in Slot : p # z => stack'[p] = stack[p] /\ page_map'[p] = page_map[p]
       /\ stack' \in [Slot -> Page \cup {NULL}] /\ page_map' \in [Slot -> Page \cup {NULL}]
  BY <1>1, <1>7 DEF Running
<1>11. ASSUME NEW p \in UsedSlots'
       PROVE  /\ Owned(p)' = Owned(p)
              /\ p # Idle => OwnsAll(p)'
              /\ p = Idle => IdleOwns'
              /\ p # z /\ p \in UsedSlots
  <2>1. p \in Slot /\ p # z /\ p \in UsedSlots
    BY <1>2 DEF UsedSlots
  <2>2. \A q \in Owned(p) : heap'.table[q] = heap.table[q]
    <3>1. Owned(p) \subseteq Page \ Owned(z)
      BY <1>1, <2>1, OwnedCount DEF Running, Parted
    <3> QED BY <1>4, <1>5, <1>6, <1>7, <3>1
  <2> QED BY <1>7, <1>10, <2>1, <2>2, SlotKept
<1>12. Parted'
  <2>1. \A p \in UsedSlots' : Owned(p)' \cap FreeSet(heap') = {}
    <3>1. \A p \in UsedSlots : p # z => Owned(p) \cap (FreeSet(heap) \cup Owned(z)) = {}
      BY <1>1 DEF Running, Parted
    <3> QED BY <1>7, <1>8, <1>11, <3>1
  <2>2. \A p, q \in UsedSlots' : p # q => Owned(p)' \cap Owned(q)' = {}
    BY <1>11 DEF Running, Parted
  <2>3. FreeSet(heap') \cup UNION {Owned(p)' : p \in UsedSlots'} = pool'
    <3>1. {Owned(p)' : p \in UsedSlots'} = {Owned(p) : p \in UsedSlots \ {z}}
      BY <1>2, <1>11
    <3>2. UNION {Owned(p) : p \in UsedSlots} = Owned(z) \cup UNION {Owned(p) : p \in UsedSlots \ {z}}
      BY <1>1
    <3> QED BY <1>7, <1>8, <3>1, <3>2 DEF Running, Parted
  <2>4. Cardinality(UsedSlots') = Cardinality(UsedSlots) - 1 /\ Cardinality(UsedSlots) \in Nat
    BY <1>1, <1>2, FS_RemoveElement, FS_CardinalityType
  <2>5. Len(heap.free) \in Nat
    BY HeapFields
  <2>6. Len(heap'.free) + BOOT_PAGES + PER_PROCESS * (Cardinality(UsedSlots') - 1) = Cardinality(pool')
    BY <1>7, <1>9, <2>4, <2>5
      DEF Running, Parted, BOOT_PAGES, IDLE_PAGES, FS_PAGES, PER_PROCESS
  <2> QED BY <2>1, <2>2, <2>3, <2>6 DEF Parted
<1>13. stack'[current_process] = stack[current_process] /\ page_map'[current_process] = page_map[current_process]
  BY <1>1, <1>10 DEF UsedSlots
<1>14. Idle \in UsedSlots'
  BY <1>1, <1>2
<1> QED BY <1>5, <1>6, <1>7, <1>10, <1>11, <1>12, <1>13, <1>14

\* The pages of a stopped machine, if nothing has happened to the processes.
LEMMA StoppedPages ==
  ASSUME Sound(heap'), NEW K, Holders' = UsedSlots, Running, pool' = pool,
         \A p \in UsedSlots : Owned(p)' = Owned(p),
         UNION {Kept(p)' : p \in {x \in Slot : state'[x] = "INIT"}} = K,
         FreeSet(heap') \subseteq FreeSet(heap), Taken(heap, heap') = K
  PROVE  FailedForkLosesNothing'
<1> DEFINE owned == UNION {Owned(p) : p \in UsedSlots}
<1>1. UNION {Owned(p)' : p \in Holders'} = owned
  BY Zenon
<1>2. owned \cap FreeSet(heap) = {} /\ FreeSet(heap) \cup owned = pool
  BY DEF Running, Parted
<1> HIDE DEF owned
<1>3. /\ FreeSet(heap') \cap (owned \cup K) = {}
      /\ owned \cap K = {}
      /\ FreeSet(heap') \cup owned \cup K = pool'
  BY <1>2 DEF Taken
<1>4. IsInjective(heap'.free) /\ FreeSet(heap') = Range(heap'.free)
  BY DEF Sound, FreeSet
<1> QED BY <1>1, <1>3, <1>4 DEF FailedForkLosesNothing

\* A fork that fails for want of memory: everything but one process too many
\* would have fitted, and no page is lost.
LEMMA FailedStep ==
  ASSUME Running, Sound(heap), ~heap.failed, panic = "none", NEW m, ChildFailed(m)
  PROVE  /\ Sound(heap') /\ ~heap'.failed /\ panic' = "fork"
         /\ ForkFailsOnlyWhenFull' /\ FailedForkLosesNothing'
<1> DEFINE src == page_map[current_process]
<1>1. /\ IInv /\ current_process \in UsedSlots \ {Idle} /\ IsFiniteSet(UsedSlots)
  BY UsedAre DEF Running, ChildFailed, Child
<1>2. PICK c \in Slot : c = FirstFree /\ c \notin UsedSlots
  BY <1>1, ConstantsAssumption, FirstFreeIsFree DEF ChildFailed, Child, UsedSlots
<1>3. OwnsAll(current_process) /\ PagesIn(heap.table, src) \cap FreeSet(heap) = {}
  BY <1>1, OwnedCount DEF Running, Parted
<1>4. PICK ok, slot, s, v, g :
        /\ m = [ok |-> ok, slot |-> slot, stack |-> s, map |-> v, heap |-> g]
        /\ ForkMade(heap, ok, slot, s, v, g)
  BY <1>3, ForkSpace DEF ChildFailed, Child, OwnsAll
<1>5. m.ok = ok /\ m.heap = g /\ m.slot = slot /\ m.stack = s /\ m.map = v /\ ~ok
  BY <1>4 DEF ChildFailed
<1>6. Sound(g) /\ g.failed = heap.failed /\ ~(Len(heap.free) >= 7) /\ slot \in {"INIT", "UNUSED"}
  BY <1>4, <1>5 DEF ForkMade
<1>7. heap' = g /\ pool' = pool /\ panic' = "fork" /\ state' = [state EXCEPT ![c] = slot]
  BY <1>2, <1>5 DEF ChildFailed, Child, Keep, HalfMade
<1>8. Holders' = UsedSlots
  <2>1. state \in [Slot -> States] /\ \A p \in Slot : state[p] # "INIT"
    BY <1>1 DEF IInv, TypeOK, Running, NoneHalfMade
  <2>2. state'[c] = slot /\ \A p \in Slot : p # c => state'[p] = state[p]
    BY <1>7, <2>1
  <2> QED BY <1>2, <1>6, <2>1, <2>2 DEF Holders, UsedSlots
<1>9. BOOT_PAGES + PER_PROCESS * Cardinality(UsedSlots) > Cardinality(pool)
  <2>1. Cardinality(UsedSlots) \in Nat /\ Len(heap.free) \in Nat
    BY <1>1, FS_CardinalityType, HeapFields
  <2> QED BY <1>6, <2>1 DEF Running, Parted, BOOT_PAGES, IDLE_PAGES, FS_PAGES, PER_PROCESS
<1>10. /\ stack' = [stack EXCEPT ![c] = s] /\ page_map' = [page_map EXCEPT ![c] = v]
       /\ fs_pages' = fs_pages
  BY <1>2, <1>5 DEF ChildFailed, Child, Keep
<1>11. /\ FreeSet(g) \subseteq FreeSet(heap) /\ Taken(heap, g) = Left(s, v, g)
       /\ slot = "UNUSED" => Taken(heap, g) = {}
       /\ \A q \in Page \ FreeSet(heap) : g.table[q] = heap.table[q]
       /\ s \in Page \cup {NULL} /\ v \in Page \cup {NULL}
  BY <1>4, <1>5 DEF ForkMade
<1>12. /\ stack \in [Slot -> Page \cup {NULL}] /\ page_map \in [Slot -> Page \cup {NULL}]
       /\ \A p \in Slot : p # c => stack'[p] = stack[p] /\ page_map'[p] = page_map[p]
       /\ stack'[c] = s /\ page_map'[c] = v
       /\ stack' \in [Slot -> Page \cup {NULL}] /\ page_map' \in [Slot -> Page \cup {NULL}]
  BY <1>2, <1>10, <1>11 DEF Running
<1>13. ASSUME NEW p \in UsedSlots  PROVE Owned(p)' = Owned(p)
  <2>1. p \in Slot /\ p # c
    BY <1>2 DEF UsedSlots
  <2>2. \A q \in Owned(p) : heap'.table[q] = heap.table[q]
    <3>1. Owned(p) \subseteq Page \ FreeSet(heap)
      BY OwnedCount DEF Running, Parted
    <3> QED BY <1>7, <1>11, <3>1
  <2> QED BY <1>10, <1>12, <2>1, <2>2, SlotKept
<1>14. UNION {Kept(p)' : p \in {x \in Slot : state'[x] = "INIT"}} = Taken(heap, g)
  <2>1. state \in [Slot -> States] /\ \A p \in Slot : state[p] # "INIT"
    BY <1>1 DEF IInv, TypeOK, Running, NoneHalfMade
  <2>2. state'[c] = slot /\ \A p \in Slot : p # c => state'[p] = state[p]
    BY <1>7, <2>1
  <2>3. Kept(c)' = Left(s, v, g)
    BY <1>7, <1>12, PagesOfSpace DEF Kept, Left, FreeSet
  <2>4. CASE slot = "INIT"
    <3>1. {x \in Slot : state'[x] = "INIT"} = {c}
      BY <2>1, <2>2, <2>4
    <3> QED BY <1>11, <2>3, <3>1
  <2>5. CASE slot = "UNUSED"
    <3>1. {x \in Slot : state'[x] = "INIT"} = {}
      BY <2>1, <2>2, <2>5
    <3> QED BY <1>11, <2>5, <3>1
  <2> QED BY <1>6, <2>4, <2>5
<1>15. FailedForkLosesNothing'
  BY <1>6, <1>7, <1>8, <1>11, <1>13, <1>14, StoppedPages
<1> QED BY <1>6, <1>7, <1>8, <1>9, <1>15 DEF ForkFailsOnlyWhenFull

\* Whatever the step, the TSS and CR3 follow the process that runs.
LEMMA SwitchSets ==
  ASSUME [CNext]_<<mvars, cvars>>, panic = "none", panic' = "none"
  PROVE  \/ UNCHANGED <<current_process, tss_rsp0, cr3>>
         \/ /\ current_process' # current_process
            /\ tss_rsp0' = stack[current_process'] /\ cr3' = page_map[current_process']
<1>1. ASSUME NEW m, NEW done, HandlerEnds(m, done)
      PROVE  \/ UNCHANGED <<current_process, tss_rsp0, cr3>>
             \/ /\ current_process' # current_process
                /\ tss_rsp0' = stack[current_process'] /\ cr3' = page_map[current_process']
  BY <1>1 DEF HandlerEnds, switch_process
<1>2. CASE UserWorks \/ SysInvalid \/ SysExec \/ UNCHANGED <<mvars, cvars>>
  BY <1>2 DEF UserWorks, SysInvalid, SysExec, mvars, vars, cvars
<1>3. CASE CTimer
  BY <1>1, <1>3 DEF CTimer
<1>4. CASE CWait
  BY <1>1, <1>4 DEF CWait
<1>5. CASE CWaitResumed
  BY <1>1, <1>5 DEF CWaitResumed
<1>6. CASE CFork
  <2>1. ChildMade /\ MFork
    BY <1>6 DEF CFork
  <2>2. UNCHANGED current_process
    BY <2>1 DEF MFork, SysFork, HalfMade
  <2> QED BY <2>1, <2>2 DEF ChildMade
<1>7. CASE CExit
  BY <1>1, <1>7 DEF CExit
<1>8. CASE Stopped
  BY <1>8 DEF Stopped
<1> QED BY <1>2, <1>3, <1>4, <1>5, <1>6, <1>7, <1>8 DEF CNext

\* Every step keeps the invariant.
LEMMA MemoryStep ==
  ASSUME MInv, [CNext]_<<mvars, cvars>>
  PROVE  MInv'
<1>1. CASE panic # "none"
  <2>1. UNCHANGED <<vars, memvars>>
    BY <1>1 DEF CNext, Stopped, UserWorks, CTimer, SysInvalid, CWait, CWaitResumed, CFork, CExit,
                SysExec, TimerInterrupt, InSyscall, UserMode, SysWait, ResumeWait, Resumed,
                MFork, SysFork, Exit, mvars
  <2>2. UNCHANGED <<heap, panic, state, pool, stack, page_map, fs_pages>>
    BY <2>1 DEF vars, memvars
  <2>3. ForkFailsOnlyWhenFull'
    BY <2>2 DEF MInv, ForkFailsOnlyWhenFull, FreeSlots, Holders
  <2>4. FailedForkLosesNothing'
    BY <2>2 DEF MInv, FailedForkLosesNothing, Holders, Owned, Kept
  <2> QED BY <1>1, <2>2, <2>3, <2>4 DEF MInv
<1>2. CASE panic = "none"
  <2>1. Running /\ Sound(heap) /\ ~heap.failed /\ IInv /\ NoneHalfMade /\ current_process \in Slot
    BY <1>2, UsedAre DEF MInv, Running, UsedSlots
  <2>2. Kinds
    BY <1>2, <2>1, StepKinds
  <2>3. CASE \E m : ChildFailed(m)
    BY <1>2, <2>1, <2>3, FailedStep DEF MInv
  <2>4. CASE [Next]_vars /\ TableFull
    <3>1. panic' = "fork" /\ heap' = heap /\ FreeSlots' = {}
      BY <2>4 DEF TableFull, FreeSlots, memvars
    <3>2. ForkFailsOnlyWhenFull'
      BY <3>1 DEF ForkFailsOnlyWhenFull
    <3>3. FailedForkLosesNothing'
      <4>1. /\ heap' = heap /\ stack' = stack /\ page_map' = page_map
            /\ fs_pages' = fs_pages /\ pool' = pool /\ state' = state
        BY <2>4 DEF TableFull, memvars
      <4>2. /\ Holders' = UsedSlots
            /\ UNION {Kept(p)' : p \in {x \in Slot : state'[x] = "INIT"}} = {}
        BY <2>1, <4>1 DEF Holders, UsedSlots, NoneHalfMade
      <4>3. \A p \in UsedSlots : Owned(p)' = Owned(p)
        BY <4>1 DEF Owned
      <4>4. Taken(heap, heap') = {} /\ FreeSet(heap') \subseteq FreeSet(heap)
        BY <4>1 DEF Taken
      <4> QED BY <2>1, <4>1, <4>2, <4>3, <4>4, StoppedPages
    <3> QED BY <2>1, <3>1, <3>2, <3>3 DEF MInv
  <2>5. CASE [Next]_vars /\ (Quiet \/ (\E m : ChildBorn(m)) \/ \E z : Collected(z))
    <3>1. panic' = "none"
      BY <2>5 DEF Quiet, ChildBorn, Collected
    <3>2. IInv' /\ NoneHalfMade'
      BY <2>1, <2>5, ConstantsAssumption, NextIInv, NextSeesNoHalf
    <3>3. /\ Sound(heap') /\ ~heap'.failed
          /\ stack' \in [Slot -> Page \cup {NULL}] /\ page_map' \in [Slot -> Page \cup {NULL}]
          /\ IdleOwns' /\ (\A p \in UsedSlots' \ {Idle} : OwnsAll(p)') /\ Parted'
          /\ \/ stack' = stack /\ page_map' = page_map
             \/ /\ current_process' = current_process
                /\ stack'[current_process] = stack[current_process]
                /\ page_map'[current_process] = page_map[current_process]
      <4>1. CASE Quiet
        <5>1. IdleOwns' /\ (\A p \in UsedSlots' \ {Idle} : OwnsAll(p)') /\ Parted'
          BY <2>1, <3>2, <4>1, QuietStep DEF Quiet
        <5> QED BY <2>1, <4>1, <5>1 DEF Quiet, memvars, Running
      <4>2. CASE \E m : ChildBorn(m)
        BY <2>1, <3>2, <4>2, ChildStep DEF ChildBorn
      <4>3. CASE \E z : Collected(z)
        BY <2>1, <3>2, <4>3, CollectStep DEF Collected
      <4> QED BY <2>5, <4>1, <4>2, <4>3
    <3>4. tss_rsp0' = stack'[current_process'] /\ cr3' = page_map'[current_process']
      <4>1. \/ UNCHANGED <<current_process, tss_rsp0, cr3>>
            \/ /\ current_process' # current_process
               /\ tss_rsp0' = stack[current_process'] /\ cr3' = page_map[current_process']
        BY <1>2, <3>1, SwitchSets
      <4>2. tss_rsp0 = stack[current_process] /\ cr3 = page_map[current_process]
        BY <2>1 DEF Running
      <4> QED BY <3>3, <4>1, <4>2
    <3>5. Running'
      BY <3>2, <3>3, <3>4 DEF Running
    <3> QED BY <3>1, <3>3, <3>5 DEF MInv, ForkFailsOnlyWhenFull, FailedForkLosesNothing
  <2> QED BY <2>2, <2>3, <2>4, <2>5 DEF Kinds
<1> QED BY <1>1, <1>2

-----------------------------------------------------------------------------
(***************************************************************************)
(* The free list that init_memory() makes of the memory map.               *)
(***************************************************************************)

\* A product grows with its first factor.
LEMMA TimesMonotonic ==
  ASSUME NEW a \in Int, NEW b \in Int, NEW d \in Nat, a <= b
  PROVE  a * d <= b * d
<1>1. (b - a) * d >= 0
  OBVIOUS
<1>2. b * d = a * d + (b - a) * d
  OBVIOUS
<1> QED BY <1>1, <1>2

\* The multiples of d that are at most x are those up to x \div d.
LEMMA DivBelow ==
  ASSUME NEW x \in Nat, NEW d \in Nat \ {0}
  PROVE  x \div d \in Nat /\ \A p \in Nat : p <= x \div d <=> p * d <= x
<1>1. x \div d \in Nat /\ (x \div d) * d <= x /\ x < (x \div d + 1) * d
  OBVIOUS
<1>2. PICK q \in Nat : q = x \div d /\ q * d <= x /\ x < (q + 1) * d
  BY <1>1
<1>3. ASSUME NEW p \in Nat, p <= q  PROVE p * d <= x
  <2>1. p * d <= q * d
    BY <1>3, TimesMonotonic
  <2> QED BY <1>2, <2>1
<1>4. ASSUME NEW p \in Nat, p > q  PROVE p * d > x
  <2>1. (q + 1) * d <= p * d
    BY <1>4, TimesMonotonic
  <2> QED BY <1>2, <2>1
<1> QED BY <1>2, <1>3, <1>4

\* PA_UP() rounds up: the pages behind v are those from PA_UP(v) on.
LEMMA PagesBehind ==
  ASSUME NEW v \in Nat
  PROVE  /\ PA_UP(v) \div PAGE_SIZE \in Nat
         /\ \A p \in Nat : p >= PA_UP(v) \div PAGE_SIZE <=> p * PAGE_SIZE >= v
<1> DEFINE d == PAGE_SIZE
<1>1. d \in Nat \ {0}
  BY BootAssumption
<1>2. PICK u \in Nat : u = (v + d - 1) \div d
  <2>1. v + d - 1 \in Nat
    BY <1>1
  <2> QED BY <1>1, <2>1, DivBelow
<1>3. \A p \in Nat : p <= u <=> p * d <= v + d - 1
  <2>1. v + d - 1 \in Nat
    BY <1>1
  <2> QED BY <1>1, <1>2, <2>1, DivBelow
<1>4. (u * d) \div d = u
  BY <1>1
<1>5. PA_UP(v) \div PAGE_SIZE = u
  BY <1>2, <1>4 DEF PA_UP
<1>6. ASSUME NEW p \in Nat  PROVE p >= u <=> p * d >= v
  <2>1. (p + 1) * d = p * d + d
    BY <1>1
  <2>2. p + 1 <= u <=> (p + 1) * d <= v + d - 1
    BY <1>3
  <2>3. p * d \in Nat
    BY <1>1
  <2>4. p * d + d <= v + d - 1 <=> ~ (p * d >= v)
    BY <1>1, <2>3
  <2> QED BY <1>2, <2>1, <2>2, <2>4
<1> QED BY <1>5, <1>6

\* The pages of one region.
PagesOfRegion(region) ==
  {p \in Nat : /\ (p + 1) * PAGE_SIZE <= MEMORY_LIMIT
               /\ p * PAGE_SIZE >= kernel_end
               /\ region.type = 1
               /\ region.address <= p * PAGE_SIZE
               /\ (p + 1) * PAGE_SIZE <= RegionEnd(region)}

\* The pages between v and e and below the limit.
PagesBetween(v, e) ==
  {p \in Nat : /\ (p + 1) * PAGE_SIZE <= MEMORY_LIMIT
               /\ p * PAGE_SIZE >= v
               /\ (p + 1) * PAGE_SIZE <= e}

\* The pages from first to last, in the order in which they are pushed.
LEMMA Interval ==
  ASSUME NEW first \in Nat, NEW last \in Int
  PROVE  LET s == [k \in 1 .. last - first + 1 |-> last - k + 1]
         IN  s \in Seq(Nat) /\ Range(s) = first .. last /\ IsInjective(s)
<1> DEFINE s == [k \in 1 .. last - first + 1 |-> last - k + 1]
<1>1. s \in Seq(Nat)
  <2>1. CASE last - first + 1 >= 0
    BY <2>1
  <2>2. CASE last - first + 1 < 0
    <3>1. 1 .. last - first + 1 = 1 .. 0
      BY <2>2
    <3>2. s = [k \in 1 .. 0 |-> last - k + 1]
      BY <3>1
    <3> QED BY <3>2
  <2> QED BY <2>1, <2>2
<1>2. Range(s) = first .. last
  <2>1. Range(s) \subseteq first .. last
    BY DEF Range
  <2>2. ASSUME NEW p \in first .. last  PROVE p \in Range(s)
    <3>1. last - p + 1 \in 1 .. last - first + 1 /\ s[last - p + 1] = p
      OBVIOUS
    <3> QED BY <3>1 DEF Range
  <2> QED BY <2>1, <2>2
<1>3. IsInjective(s)
  BY DEF IsInjective
<1> QED BY <1>1, <1>2, <1>3

\* free_region() from v to e pushes the pages that lie between them and below
\* the limit.
LEMMA RegionFreed ==
  ASSUME NEW v \in Nat, NEW e \in Nat, NEW free
  PROVE  \E s : /\ free_region(free, v, e) = s \o free
                /\ s \in Seq(Nat) /\ IsInjective(s) /\ Range(s) = PagesBetween(v, e)
<1> DEFINE d == PAGE_SIZE
           low == IF e <= MEMORY_LIMIT THEN e ELSE MEMORY_LIMIT
<1>1. d \in Nat \ {0} /\ MEMORY_LIMIT \in Nat /\ low \in Nat
  BY BootAssumption
<1>2. PICK first \in Nat : /\ first = PA_UP(v) \div PAGE_SIZE
                           /\ \A p \in Nat : p >= first <=> p * PAGE_SIZE >= v
  BY PagesBehind
<1>3. PICK q \in Nat : q = low \div d /\ \A p \in Nat : p <= q <=> p * d <= low
  BY <1>1, DivBelow
<1>4. PICK last \in Int : last = q - 1
  BY <1>3
<1> DEFINE s == [k \in 1 .. last - first + 1 |-> last - k + 1]
<1>5. s \in Seq(Nat) /\ Range(s) = first .. last /\ IsInjective(s)
  BY Interval
<1>6. free_region(free, v, e) = s \o free
  BY <1>2, <1>3, <1>4 DEF free_region
<1>7. ASSUME NEW p \in Nat
      PROVE  p \in first .. last <=> /\ (p + 1) * PAGE_SIZE <= MEMORY_LIMIT
                                     /\ p * PAGE_SIZE >= v
                                     /\ (p + 1) * PAGE_SIZE <= e
  <2>1. p <= last <=> (p + 1) * d <= low
    BY <1>3, <1>4
  <2>2. PICK x \in Nat : x = (p + 1) * d
    BY <1>1
  <2>3. x <= low <=> x <= MEMORY_LIMIT /\ x <= e
    BY <1>1, <2>2
  <2> QED BY <1>2, <1>4, <2>1, <2>2, <2>3
<1>8. Range(s) = PagesBetween(v, e)
  <2>1. first .. last \subseteq Nat
    BY <1>2, <1>4
  <2> QED BY <1>5, <1>7, <2>1 DEF PagesBetween
<1> HIDE DEF s
<1> QED BY <1>5, <1>6, <1>8

\* The loop body of init_memory() pushes the pages of its region.
LEMMA RegionPushed ==
  ASSUME NEW region \in E820, NEW free \in Seq(Nat), IsInjective(free),
         Range(free) \cap PagesOfRegion(region) = {}
  PROVE  LET g == FreeRegion(free, region)
         IN  /\ g \in Seq(Nat) /\ IsInjective(g)
             /\ Range(g) = Range(free) \cup PagesOfRegion(region)
<1>1. /\ region.address \in Nat /\ region.length \in Nat /\ RegionEnd(region) \in Nat
      /\ kernel_end \in Nat /\ PAGE_SIZE \in Nat \ {0}
  BY BootAssumption DEF E820, RegionEnd
<1>2. \A p \in Nat : p * PAGE_SIZE \in Nat /\ (p + 1) * PAGE_SIZE = p * PAGE_SIZE + PAGE_SIZE
  BY <1>1
<1>3. ASSUME NEW v \in Nat, PagesBetween(v, RegionEnd(region)) = PagesOfRegion(region),
             FreeRegion(free, region) = free_region(free, v, RegionEnd(region))
      PROVE  /\ FreeRegion(free, region) \in Seq(Nat)
             /\ IsInjective(FreeRegion(free, region))
             /\ Range(FreeRegion(free, region)) = Range(free) \cup PagesOfRegion(region)
  <2>1. PICK s : /\ free_region(free, v, RegionEnd(region)) = s \o free
                 /\ s \in Seq(Nat) /\ IsInjective(s) /\ Range(s) = PagesBetween(v, RegionEnd(region))
    BY <1>1, RegionFreed
  <2>2. /\ s \o free \in Seq(Nat)
        /\ Range(s \o free) = Range(s) \cup Range(free)
        /\ Range(s) \cap Range(free) = {} => IsInjective(s \o free)
    BY <2>1, ConcatQueue
  <2> QED BY <1>3, <2>1, <2>2
<1>4. CASE region.type = 1 /\ region.address > kernel_end
  <2>1. FreeRegion(free, region) = free_region(free, region.address, RegionEnd(region))
    BY <1>4 DEF FreeRegion
  <2>2. PagesBetween(region.address, RegionEnd(region)) = PagesOfRegion(region)
    <3>1. ASSUME NEW p \in Nat
          PROVE  p * PAGE_SIZE >= region.address <=>
                   p * PAGE_SIZE >= kernel_end /\ region.address <= p * PAGE_SIZE
      BY <1>1, <1>2, <1>4
    <3> QED BY <1>4, <3>1 DEF PagesOfRegion, PagesBetween
  <2> QED BY <1>1, <1>3, <2>1, <2>2
<1>5. CASE region.type = 1 /\ ~ (region.address > kernel_end) /\ RegionEnd(region) > kernel_end
  <2>1. FreeRegion(free, region) = free_region(free, kernel_end, RegionEnd(region))
    BY <1>5 DEF FreeRegion
  <2>2. PagesBetween(kernel_end, RegionEnd(region)) = PagesOfRegion(region)
    <3>1. ASSUME NEW p \in Nat
          PROVE  p * PAGE_SIZE >= kernel_end <=>
                   p * PAGE_SIZE >= kernel_end /\ region.address <= p * PAGE_SIZE
      BY <1>1, <1>2, <1>5
    <3> QED BY <1>5, <3>1 DEF PagesOfRegion, PagesBetween
  <2> QED BY <1>1, <1>3, <2>1, <2>2
<1>6. CASE region.type # 1 \/ ~ (RegionEnd(region) > kernel_end)
  <2>1. region.address > kernel_end => RegionEnd(region) > kernel_end
    BY <1>1 DEF RegionEnd
  <2>2. FreeRegion(free, region) = free
    BY <1>6, <2>1 DEF FreeRegion
  <2>3. PagesOfRegion(region) = {}
    <3> SUFFICES ASSUME NEW p \in PagesOfRegion(region)  PROVE FALSE
      OBVIOUS
    <3>1. /\ p \in Nat /\ p * PAGE_SIZE >= kernel_end /\ region.type = 1
          /\ (p + 1) * PAGE_SIZE <= RegionEnd(region)
      BY DEF PagesOfRegion
    <3>2. PICK x \in Nat : x = p * PAGE_SIZE /\ (p + 1) * PAGE_SIZE = x + PAGE_SIZE
      BY <1>2, <3>1
    <3> QED BY <1>1, <1>6, <3>1, <3>2
  <2> QED BY <2>2, <2>3
<1> QED BY <1>1, <1>4, <1>5, <1>6
\* The loop of init_memory() as a function of the number of regions done.
Done(f, map) ==
  f = [n \in 0 .. Len(map) |-> IF n = 0 THEN <<>> ELSE FreeRegion(f[n - 1], map[n])]

\* That function exists: a least number of regions for which there is none
\* would have one for a region less.
LEMMA LoopRuns ==
  ASSUME NEW map, Len(map) \in Nat
  PROVE  \E f : Done(f, map) /\ init_memory(map) = f[Len(map)]
<1> DEFINE Body(f, m) == [n \in 0 .. m |-> IF n = 0 THEN <<>> ELSE FreeRegion(f[n - 1], map[n])]
           free == CHOOSE f : f = Body(f, Len(map))
           T == {m \in Nat : ~ \E f : f = Body(f, m)}
<1>1. T = {}
  <2> SUFFICES ASSUME T # {}  PROVE FALSE
    OBVIOUS
  <2>1. PICK m \in T : \A y \in T : m <= y
    <3>1. T \subseteq Nat
      OBVIOUS
    <3> HIDE DEF T
    <3> QED BY <3>1, LeastElement
  <2>2. m \in Nat /\ ~ \E f : f = Body(f, m)
    OBVIOUS
  <2>3. CASE m = 0
    <3> DEFINE z == [n \in 0 .. 0 |-> <<>>]
    <3>1. z = Body(z, 0)
      OBVIOUS
    <3> QED BY <2>2, <2>3, <3>1
  <2>4. CASE m # 0
    <3>1. m - 1 \in Nat /\ m - 1 \notin T
      <4> HIDE DEF T
      <4>1. m - 1 \in Nat /\ ~ (m <= m - 1)
        BY <2>2, <2>4
      <4> QED BY <2>1, <4>1
    <3>2. PICK f : f = Body(f, m - 1)
      BY <3>1
    <3> DEFINE g == [n \in 0 .. m |-> IF n = m THEN FreeRegion(f[m - 1], map[m]) ELSE f[n]]
    <3>3. ASSUME NEW n \in 0 .. m
          PROVE  g[n] = IF n = 0 THEN <<>> ELSE FreeRegion(g[n - 1], map[n])
      <4>1. CASE n = m
        <5>1. g[n - 1] = f[m - 1]
          BY <2>2, <2>4, <4>1
        <5> QED BY <2>4, <4>1, <5>1
      <4>2. CASE n # m
        <5>1. n \in 0 .. m - 1
          BY <2>2, <4>2
        <5>2. g[n] = f[n]
          BY <4>2
        <5>3. f[n] = IF n = 0 THEN <<>> ELSE FreeRegion(f[n - 1], map[n])
          BY <3>2, <5>1
        <5>4. n # 0 => g[n - 1] = f[n - 1]
          BY <2>2, <5>1
        <5> QED BY <5>2, <5>3, <5>4
      <4> QED BY <4>1, <4>2
    <3>4. g = Body(g, m)
      <4>1. \A n \in 0 .. m : g[n] = Body(g, m)[n]
        <5> HIDE DEF g
        <5> QED BY <3>3
      <4>2. g = [n \in 0 .. m |-> g[n]]
        OBVIOUS
      <4> HIDE DEF g
      <4> QED BY <4>1, <4>2
    <3> HIDE DEF g
    <3> QED BY <2>2, <3>4
  <2> QED BY <2>3, <2>4
<1>2. \E f : f = Body(f, Len(map))
  BY <1>1
<1>3. free = Body(free, Len(map))
  BY <1>2, Zenon
<1>4. init_memory(map) = free[Len(map)]
  BY Zenon DEF init_memory
<1> QED BY <1>3, <1>4, Zenon DEF Done

\* A memory map of disjoint regions.
DisjointMap(map) ==
  /\ map \in Seq(E820)
  /\ \A i, j \in DOMAIN map : i # j =>
       RegionEnd(map[i]) <= map[j].address \/ RegionEnd(map[j]) <= map[i].address

\* init_memory() puts every usable page on the free list, once, and no other.
LEMMA FreeListIsUsable ==
  ASSUME NEW map, DisjointMap(map)
  PROVE  /\ init_memory(map) \in Seq(Nat) /\ IsInjective(init_memory(map))
         /\ Range(init_memory(map)) = UsablePages(map)
<1>1. Len(map) \in Nat /\ DOMAIN map = 1 .. Len(map) /\ \A i \in 1 .. Len(map) : map[i] \in E820
  BY LenProperties, ElementOfSeq DEF DisjointMap
<1>2. PICK f : Done(f, map) /\ init_memory(map) = f[Len(map)]
  BY <1>1, LoopRuns
<1>3. /\ f[0] = <<>>
      /\ \A n \in 1 .. Len(map) : f[n] = FreeRegion(f[n - 1], map[n])
  BY <1>1, <1>2 DEF Done
<1> DEFINE Upto(n) == UNION {PagesOfRegion(map[i]) : i \in 1 .. n}
           Good(n) == f[n] \in Seq(Nat) /\ IsInjective(f[n]) /\ Range(f[n]) = Upto(n)
           T == {n \in 0 .. Len(map) : ~ Good(n)}
<1>4. Good(0)
  <2>1. Upto(0) = {}
    OBVIOUS
  <2> QED BY <1>3, <2>1, EmptyQueue
<1>5. ASSUME NEW n \in 1 .. Len(map), Good(n - 1)
      PROVE  Good(n)
  <2>1. Upto(n - 1) \cap PagesOfRegion(map[n]) = {}
    <3> SUFFICES ASSUME NEW i \in 1 .. n - 1,
                        NEW p \in PagesOfRegion(map[i]), p \in PagesOfRegion(map[n])
                 PROVE  FALSE
      OBVIOUS
    <3>1. i \in DOMAIN map /\ n \in DOMAIN map /\ i # n
      BY <1>1
    <3>2. /\ p \in Nat
          /\ map[i].address <= p * PAGE_SIZE /\ (p + 1) * PAGE_SIZE <= RegionEnd(map[i])
          /\ map[n].address <= p * PAGE_SIZE /\ (p + 1) * PAGE_SIZE <= RegionEnd(map[n])
      BY DEF PagesOfRegion
    <3>3. RegionEnd(map[i]) <= map[n].address \/ RegionEnd(map[n]) <= map[i].address
      BY <3>1 DEF DisjointMap
    <3>4. /\ map[i].address \in Nat /\ map[n].address \in Nat
          /\ RegionEnd(map[i]) \in Nat /\ RegionEnd(map[n]) \in Nat
      BY <1>1, <3>1 DEF E820, RegionEnd
    <3>5. PICK x \in Nat : x = p * PAGE_SIZE /\ (p + 1) * PAGE_SIZE = x + PAGE_SIZE
      BY <3>2, BootAssumption
    <3>6. PAGE_SIZE > 0 /\ PAGE_SIZE \in Nat
      BY BootAssumption
    <3> QED BY <3>2, <3>3, <3>4, <3>5, <3>6
  <2>2. Upto(n) = Upto(n - 1) \cup PagesOfRegion(map[n])
    <3>1. 1 .. n = (1 .. n - 1) \cup {n}
      OBVIOUS
    <3> QED BY <3>1
  <2> HIDE DEF Upto
  <2>3. map[n] \in E820
    BY <1>1
  <2>4. /\ FreeRegion(f[n - 1], map[n]) \in Seq(Nat) /\ IsInjective(FreeRegion(f[n - 1], map[n]))
        /\ Range(FreeRegion(f[n - 1], map[n])) = Range(f[n - 1]) \cup PagesOfRegion(map[n])
    BY <1>5, <2>1, <2>3, RegionPushed
  <2> QED BY <1>3, <1>5, <2>2, <2>4
<1> HIDE DEF Good
<1>6. T = {}
  <2> SUFFICES ASSUME T # {}  PROVE FALSE
    OBVIOUS
  <2>1. PICK n \in T : \A y \in T : n <= y
    <3>1. T \subseteq Nat
      BY <1>1
    <3> HIDE DEF T
    <3> QED BY <3>1, LeastElement
  <2>2. n # 0 /\ n \in 1 .. Len(map)
    BY <1>1, <1>4
  <2>3. n - 1 \in 0 .. Len(map) /\ n - 1 \notin T
    BY <1>1, <2>1, <2>2
  <2> QED BY <1>5, <2>2, <2>3
<1>7. Good(Len(map))
  BY <1>1, <1>6
<1>8. Upto(Len(map)) = UsablePages(map)
  <2>1. ASSUME NEW p \in Nat
        PROVE  p \in 0 .. MEMORY_LIMIT \div PAGE_SIZE - 1 <=> (p + 1) * PAGE_SIZE <= MEMORY_LIMIT
    <3>1. PICK q \in Nat : /\ q = MEMORY_LIMIT \div PAGE_SIZE
                           /\ \A y \in Nat : y <= q <=> y * PAGE_SIZE <= MEMORY_LIMIT
      BY BootAssumption, DivBelow
    <3>2. p + 1 <= q <=> (p + 1) * PAGE_SIZE <= MEMORY_LIMIT
      BY <3>1
    <3> QED BY <3>1, <3>2
  <2>2. Upto(Len(map)) \subseteq Nat /\ UsablePages(map) \subseteq Nat
    <3>1. MEMORY_LIMIT \div PAGE_SIZE \in Nat
      BY BootAssumption, DivBelow
    <3>2. 0 .. MEMORY_LIMIT \div PAGE_SIZE - 1 \subseteq Nat
      BY <3>1
    <3> QED BY <3>2 DEF PagesOfRegion, UsablePages
  <2>3. ASSUME NEW p \in Nat  PROVE p \in Upto(Len(map)) <=> p \in UsablePages(map)
    <3>1. \A i \in 1 .. Len(map) :
            p \in PagesOfRegion(map[i]) <=>
              /\ (p + 1) * PAGE_SIZE <= MEMORY_LIMIT
              /\ p * PAGE_SIZE >= kernel_end
              /\ map[i].type = 1
              /\ map[i].address <= p * PAGE_SIZE
              /\ (p + 1) * PAGE_SIZE <= RegionEnd(map[i])
      BY DEF PagesOfRegion
    <3>2. p \in Upto(Len(map)) <=> \E i \in 1 .. Len(map) : p \in PagesOfRegion(map[i])
      OBVIOUS
    <3>3. p \in UsablePages(map) <=>
            /\ (p + 1) * PAGE_SIZE <= MEMORY_LIMIT
            /\ p * PAGE_SIZE >= kernel_end
            /\ \E i \in 1 .. Len(map) :
                 /\ map[i].type = 1
                 /\ map[i].address <= p * PAGE_SIZE
                 /\ (p + 1) * PAGE_SIZE <= RegionEnd(map[i])
      BY <1>1, <2>1 DEF UsablePages
    <3> HIDE DEF Upto
    <3> QED BY <3>1, <3>2, <3>3
  <2> QED BY <2>2, <2>3
<1> QED BY <1>2, <1>7, <1>8 DEF Good

-----------------------------------------------------------------------------
(***************************************************************************)
(* The boot.                                                               *)
(***************************************************************************)

\* The free list at the boot, and that it is long enough.
LEMMA FreshHeapSound ==
  ASSUME NEW map \in E820Maps, NEW h, h = FreshHeap(init_memory(map))
  PROVE  /\ Sound(h) /\ ~h.failed /\ FreeSet(h) = UsablePages(map)
         /\ Len(h.free) >= 12 /\ Len(h.free) = Cardinality(UsablePages(map))
<1> DEFINE s == init_memory(map)
<1>1. DisjointMap(map) /\ UsablePages(map) \subseteq Page /\ Cardinality(UsablePages(map)) >= 12
  BY MemoryAssumption DEF DisjointMap
<1>2. s \in Seq(Nat) /\ IsInjective(s) /\ Range(s) = UsablePages(map)
  BY <1>1, FreeListIsUsable
<1> HIDE DEF s
<1>3. s \in Seq(Page)
  <2>1. Len(s) \in Nat /\ DOMAIN s = 1 .. Len(s) /\ s = [i \in 1 .. Len(s) |-> s[i]]
    BY <1>2, LenProperties
  <2>2. \A i \in 1 .. Len(s) : s[i] \in Page
    BY <1>1, <1>2, <2>1 DEF Range
  <2> QED BY <2>1, <2>2
<1>4. PICK t \in [Page -> [Region -> Entry]] : t = [p \in Page |-> [r \in Region |-> Junk]]
  BY DEF Entry
<1>5. h = [free |-> s, table |-> t, failed |-> FALSE]
  BY <1>4 DEF FreshHeap, s
<1>6. Sound(h) /\ h.free = s /\ ~h.failed
  <2>1. Sound([free |-> s, table |-> t, failed |-> FALSE])
    BY <1>2, <1>3, HeapMade
  <2> QED BY <1>5, <2>1
<1> QED BY <1>1, <1>2, <1>6, FreeCount DEF FreeSet

\* What the boot makes of the heap h: g, with the idle process's space i, the
\* pages x and y of the file tables, and the stack s and the space v of the
\* first process.
BootMade(h, i, x, y, s, v, g) ==
  /\ Sound(g) /\ g.failed = h.failed /\ Len(g.free) = Len(h.free) - 12
  /\ FreeSet(g) \subseteq FreeSet(h)
  /\ Space(g.table, i) /\ Pdpt(g.table, i, "user") = NULL
  /\ Pdpt(g.table, i, "kernel") # NULL /\ Pd(g.table, i, "kernel") # NULL
  /\ Full(g.table, v)
  /\ x \in Page /\ y \in Page /\ s \in Page
  /\ x # y /\ {x, y} \cap PagesIn(g.table, i) = {} /\ s \notin PagesIn(g.table, v)
  /\ ({x, y} \cup PagesIn(g.table, i)) \cap ({s} \cup PagesIn(g.table, v)) = {}
  /\ Taken(h, g) = ({x, y} \cup PagesIn(g.table, i)) \cup ({s} \cup PagesIn(g.table, v))

\* setup_kvm(), init_fs() and init_process() take twelve pages.
LEMMA BootSteps ==
  ASSUME NEW map, NEW h, h = FreshHeap(init_memory(map)), Sound(h), Len(h.free) >= 12
  PROVE  \E i, x, y, s, v, g :
           /\ Booted(map) = [idle_map |-> i, fs_pages |-> {x, y}, stack |-> s, map |-> v, heap |-> g]
           /\ BootMade(h, i, x, y, s, v, g)
<1>1. Len(h.free) \in Nat /\ FreeSet(h) \subseteq Page /\ NULL \notin Page
  BY HeapFields
<1>2. PICK i, h1 : setup_kvm(h) = [page |-> i, heap |-> h1] /\ KernelMade(h, i, h1)
  BY SetupKvm
<1>3. /\ i # NULL /\ Sound(h1) /\ h1.failed = h.failed /\ Len(h1.free) = Len(h.free) - 3
      /\ FreeSet(h1) \subseteq FreeSet(h) /\ PagesIn(h1.table, i) = Taken(h, h1)
      /\ Space(h1.table, i) /\ Pdpt(h1.table, i, "user") = NULL
      /\ Pdpt(h1.table, i, "kernel") # NULL /\ Pd(h1.table, i, "kernel") # NULL
  BY <1>1, <1>2 DEF KernelMade
<1>4. PICK x, h2 : /\ x = kalloc_cleared(h1).page /\ h2 = kalloc_cleared(h1).heap
                   /\ x \in Page /\ x \in FreeSet(h1) /\ Sound(h2)
                   /\ FreeSet(h2) = FreeSet(h1) \ {x} /\ Len(h2.free) = Len(h1.free) - 1
                   /\ h2.table = [h1.table EXCEPT ![x] = Cleared] /\ h2.failed = h1.failed
  <2>1. h1.free # <<>>
    BY <1>1, <1>3, HeapFields
  <2> QED BY <1>3, <2>1, TakePage
<1>5. PICK y, h3 : /\ y = kalloc_cleared(h2).page /\ h3 = kalloc_cleared(h2).heap
                   /\ y \in Page /\ y \in FreeSet(h2) /\ Sound(h3)
                   /\ FreeSet(h3) = FreeSet(h2) \ {y} /\ Len(h3.free) = Len(h2.free) - 1
                   /\ h3.table = [h2.table EXCEPT ![y] = Cleared] /\ h3.failed = h2.failed
  <2>1. h2.free # <<>>
    BY <1>1, <1>3, <1>4, HeapFields
  <2> QED BY <1>4, <2>1, TakePage
<1>6. PICK slot, s, v, h4 :
        /\ NewProcessMemory(h3) = [slot |-> slot, stack |-> s, map |-> v, heap |-> h4]
        /\ NewMade(h3, slot, s, v, h4)
  BY <1>5, NewProcess
<1>7. Len(h3.free) = Len(h.free) - 5 /\ Len(h3.free) \in Nat
  BY <1>1, <1>3, <1>4, <1>5
<1>8. /\ Sound(h4) /\ h4.failed = h3.failed /\ FreeSet(h4) \subseteq FreeSet(h3)
      /\ v # NULL /\ s \in FreeSet(h3) /\ Len(h4.free) = Len(h3.free) - 4 /\ KernelOnly(h4, v)
      /\ Pdpt(h4.table, v, "kernel") # NULL /\ Pd(h4.table, v, "kernel") # NULL
      /\ Taken(h3, h4) = {s} \cup PagesIn(h4.table, v) /\ s \notin PagesIn(h4.table, v)
      /\ \A q \in Page \ FreeSet(h3) : h4.table[q] = h3.table[q]
  BY <1>1, <1>6, <1>7 DEF NewMade
<1>9. PICK ok, g : /\ ok \in BOOLEAN /\ MapUserPage(h4, v) = [ok |-> ok, heap |-> g]
                   /\ UserMade(h4, v, ok, g)
  BY <1>8, MapUser
<1>10. /\ Sound(g) /\ g.failed = h4.failed /\ FreeSet(g) \subseteq FreeSet(h4)
       /\ Len(g.free) = Len(h4.free) - 3 /\ Space(g.table, v)
       /\ PagesIn(g.table, v) = PagesIn(h4.table, v) \cup Taken(h4, g)
       /\ Pdpt(g.table, v, "user") # NULL /\ Pd(g.table, v, "user") # NULL
       /\ UserPage(g.table, v) # NULL
       /\ Pdpt(g.table, v, "kernel") = Pdpt(h4.table, v, "kernel")
       /\ Pd(g.table, v, "kernel") = Pd(h4.table, v, "kernel")
       /\ \A q \in Page : q \notin FreeSet(h4) \cup PagesIn(h4.table, v) => g.table[q] = h4.table[q]
  <2>1. Len(h4.free) >= 3
    BY <1>1, <1>7, <1>8
  <2> QED BY <1>9, <2>1 DEF UserMade
<1>11. Full(g.table, v)
  BY <1>8, <1>10 DEF Full, Region
<1>12. Booted(map) = [idle_map |-> i, fs_pages |-> {x, y}, stack |-> s, map |-> v, heap |-> g]
  <2>1. WithFs(setup_kvm(h)) = [idle_map |-> i, fs_pages |-> {x, y}, heap |-> h3]
    <3>1. PICK k : k = setup_kvm(h) /\ k.page = i /\ k.heap = h1
      BY <1>2
    <3> QED BY <1>4, <1>5, <3>1 DEF WithFs
  <2>2. WithUser(NewProcessMemory(h3)) = [slot |-> slot, stack |-> s, map |-> v, heap |-> g]
    <3>1. PICK p : p = NewProcessMemory(h3) /\ p = [slot |-> slot, stack |-> s, map |-> v, heap |-> h4]
      BY <1>6
    <3>2. p.heap = h4 /\ p.map = v /\ setup_uvm(h4, v) = [ok |-> ok, heap |-> g]
      BY <1>9, <3>1 DEF setup_uvm
    <3>3. setup_uvm(p.heap, p.map).heap = g
      BY <3>2
    <3> QED BY <3>1, <3>3 DEF WithUser
  <2>3. PICK b : /\ b = WithFs(setup_kvm(h)) /\ b.idle_map = i /\ b.fs_pages = {x, y} /\ b.heap = h3
    BY <2>1
  <2>4. PICK p : p = WithUser(NewProcessMemory(b.heap)) /\ p.stack = s /\ p.map = v /\ p.heap = g
    BY <2>2, <2>3
  <2> QED BY <2>3, <2>4 DEF Booted, WithInit
<1>13. \A q \in Page \ FreeSet(h1) : g.table[q] = h1.table[q]
  <2> SUFFICES ASSUME NEW q \in Page \ FreeSet(h1)  PROVE g.table[q] = h1.table[q]
    OBVIOUS
  <2>1. q # x /\ q # y /\ q \notin FreeSet(h3) /\ q \notin FreeSet(h4) \cup PagesIn(h4.table, v)
    BY <1>4, <1>5, <1>8 DEF Taken
  <2>2. h2.table[q] = h1.table[q] /\ h3.table[q] = h2.table[q]
    <3>1. h1.table \in [Page -> [Region -> Entry]] /\ h2.table \in [Page -> [Region -> Entry]]
      BY <1>3, <1>4, HeapFields
    <3> QED BY <1>4, <1>5, <2>1, <3>1
  <2>3. h4.table[q] = h3.table[q] /\ g.table[q] = h4.table[q]
    BY <1>8, <1>10, <2>1
  <2> QED BY <2>2, <2>3
<1>14. /\ Space(g.table, i) /\ PagesIn(g.table, i) = PagesIn(h1.table, i)
       /\ Pdpt(g.table, i, "user") = NULL
       /\ Pdpt(g.table, i, "kernel") # NULL /\ Pd(g.table, i, "kernel") # NULL
  <2>1. PagesIn(h1.table, i) \subseteq Page \ FreeSet(h1)
    BY <1>1, <1>3 DEF Taken
  <2>2. \A q \in PagesIn(h1.table, i) : g.table[q] = h1.table[q]
    BY <1>13, <2>1
  <2> QED BY <1>3, <2>2, SpaceSame DEF Region
<1>15. PagesIn(g.table, v) = Taken(h3, g) \ {s} /\ s \in Taken(h3, g)
  BY <1>8, <1>10 DEF Taken
<1>16. BootMade(h, i, x, y, s, v, g)
  <2>1. Len(g.free) = Len(h.free) - 12
    BY <1>1, <1>7, <1>8, <1>10
  <2>2. FreeSet(g) \subseteq FreeSet(h3) /\ FreeSet(h3) \subseteq FreeSet(h1)
    BY <1>4, <1>5, <1>8, <1>10
  <2>3. /\ FreeSet(g) \subseteq FreeSet(h) /\ x # y
        /\ {x, y} \cap PagesIn(g.table, i) = {} /\ s \notin PagesIn(g.table, v)
        /\ ({x, y} \cup PagesIn(g.table, i)) \cap ({s} \cup PagesIn(g.table, v)) = {}
    BY <1>3, <1>4, <1>5, <1>14, <1>15, <2>2 DEF Taken
  <2>4. Taken(h, g) = ({x, y} \cup PagesIn(g.table, i)) \cup ({s} \cup PagesIn(g.table, v))
    BY <1>3, <1>4, <1>5, <1>14, <1>15, <2>2 DEF Taken
  <2>5. s \in Page
    BY <1>1, <1>3, <1>8, <2>2
  <2> QED BY <1>3, <1>4, <1>5, <1>8, <1>10, <1>11, <1>14, <2>1, <2>3, <2>4, <2>5 DEF BootMade
<1> QED BY <1>12, <1>16

\* The machine starts with the invariant.
LEMMA MemoryInit ==
  ASSUME CInit
  PROVE  MInv
<1>1. Init /\ MInit /\ tss_rsp0 = NULL /\ cr3 = page_map[Idle]
  BY DEF CInit, MInit
<1>2. PICK map \in E820Maps :
        /\ pool = UsablePages(map)
        /\ heap = Booted(map).heap
        /\ fs_pages = Booted(map).fs_pages
        /\ stack = [p \in Slot |-> IF p = InitProc THEN Booted(map).stack ELSE NULL]
        /\ page_map = [p \in Slot |-> CASE p = Idle -> Booted(map).idle_map
                                        [] p = InitProc -> Booted(map).map
                                        [] OTHER -> NULL]
  BY <1>1 DEF MInit
<1>3. PICK h : h = FreshHeap(init_memory(map))
  OBVIOUS
<1>4. /\ Sound(h) /\ ~h.failed /\ FreeSet(h) = UsablePages(map)
      /\ Len(h.free) >= 12 /\ Len(h.free) = Cardinality(UsablePages(map))
  BY <1>3, FreshHeapSound
<1>5. PICK i, x, y, s, v, g :
        /\ Booted(map) = [idle_map |-> i, fs_pages |-> {x, y}, stack |-> s, map |-> v, heap |-> g]
        /\ BootMade(h, i, x, y, s, v, g)
  BY <1>3, <1>4, BootSteps
<1>6. PICK b : /\ b = Booted(map) /\ b.idle_map = i /\ b.fs_pages = {x, y}
               /\ b.stack = s /\ b.map = v /\ b.heap = g
  BY <1>5
<1>7. Idle \in Slot /\ InitProc \in Slot /\ Idle # InitProc /\ current_process = Idle /\ panic = "none"
  BY <1>1, ConstantsAssumption DEF Slot, Idle, InitProc, Init
<1>8. /\ heap = g /\ fs_pages = {x, y} /\ pool = FreeSet(h)
      /\ stack[Idle] = NULL /\ stack[InitProc] = s /\ page_map[Idle] = i /\ page_map[InitProc] = v
      /\ \A p \in Slot : p # InitProc => stack[p] = NULL
  BY <1>2, <1>4, <1>6, <1>7
<1>9. /\ Sound(g) /\ g.failed = h.failed /\ Len(g.free) = Len(h.free) - 12
      /\ FreeSet(g) \subseteq FreeSet(h)
      /\ Space(g.table, i) /\ Pdpt(g.table, i, "user") = NULL
      /\ Pdpt(g.table, i, "kernel") # NULL /\ Pd(g.table, i, "kernel") # NULL
      /\ Full(g.table, v)
      /\ x \in Page /\ y \in Page /\ s \in Page
      /\ x # y /\ {x, y} \cap PagesIn(g.table, i) = {} /\ s \notin PagesIn(g.table, v)
      /\ ({x, y} \cup PagesIn(g.table, i)) \cap ({s} \cup PagesIn(g.table, v)) = {}
      /\ Taken(h, g) = ({x, y} \cup PagesIn(g.table, i)) \cup ({s} \cup PagesIn(g.table, v))
  BY <1>5 DEF BootMade
<1>10. i \in Page /\ v \in Page /\ NULL \notin Page /\ Len(h.free) \in Nat /\ Len(g.free) \in Nat
  BY <1>4, <1>9, HeapFields DEF Full, Space
<1>11. IInv /\ NoneHalfMade /\ UsedSlots = {Idle, InitProc}
  <2>1. UsedSlots = {Idle, InitProc} /\ NoneHalfMade
    BY <1>1, <1>7 DEF Init, UsedSlots, NoneHalfMade
  <2> QED BY <1>1, <2>1, ConstantsAssumption, InitIInv
<1>12. stack \in [Slot -> Page \cup {NULL}] /\ page_map \in [Slot -> Page \cup {NULL}]
  BY <1>2, <1>6, <1>7, <1>9, <1>10
<1>13. IdleOwns /\ OwnsAll(InitProc)
  BY <1>8, <1>9 DEF IdleOwns, OwnsAll
<1>14. /\ Owned(Idle) = {x, y} \cup PagesIn(g.table, i)
       /\ Owned(InitProc) = {s} \cup PagesIn(g.table, v)
  BY <1>7, <1>8, <1>9, <1>10, PagesOfSpace DEF Owned
<1>15. Parted
  <2>1. Cardinality(UsedSlots) = 2
    <3>1. {Idle, InitProc} = {Idle} \cup {InitProc} /\ InitProc \notin {Idle}
      BY <1>7
    <3>2. IsFiniteSet({Idle}) /\ Cardinality({Idle}) = 1
      BY FS_Singleton
    <3>3. PICK T : T = {Idle}
      OBVIOUS
    <3> QED BY <1>11, <3>1, <3>2, <3>3, FS_AddElement
  <2>2. Len(heap.free) + BOOT_PAGES + PER_PROCESS * (Cardinality(UsedSlots) - 1) = Cardinality(pool)
    BY <1>2, <1>4, <1>8, <1>9, <1>10, <2>1 DEF BOOT_PAGES, IDLE_PAGES, FS_PAGES, PER_PROCESS
  <2>3. UNION {Owned(p) : p \in UsedSlots} = Owned(Idle) \cup Owned(InitProc)
    BY <1>11
  <2>4. FreeSet(heap) \cup UNION {Owned(p) : p \in UsedSlots} = pool
    BY <1>8, <1>9, <1>14, <2>3 DEF Taken
  <2>5. \A p \in UsedSlots : Owned(p) \cap FreeSet(heap) = {}
    BY <1>8, <1>9, <1>11, <1>14 DEF Taken
  <2>6. \A p, q \in UsedSlots : p # q => Owned(p) \cap Owned(q) = {}
    BY <1>9, <1>11, <1>14
  <2> QED BY <2>2, <2>4, <2>5, <2>6 DEF Parted
<1>16. Running
  BY <1>1, <1>7, <1>8, <1>11, <1>12, <1>13, <1>15 DEF Running
<1>17. ForkFailsOnlyWhenFull /\ FailedForkLosesNothing
  BY <1>7 DEF ForkFailsOnlyWhenFull, FailedForkLosesNothing
<1> QED BY <1>4, <1>7, <1>8, <1>9, <1>16, <1>17 DEF MInv

-----------------------------------------------------------------------------
(***************************************************************************)
(* The theorems.                                                           *)
(***************************************************************************)

\* The inductive invariant holds in every reachable state, for every number of
\* slots, every set of pages and every memory map of MemoryAssumption.
THEOREM MemoryInvariance == CSpec => []MInv
<1>1. CInit => MInv
  BY MemoryInit
<1>2. MInv /\ [CNext]_<<mvars, cvars>> => MInv'
  BY MemoryStep
<1> QED BY <1>1, <1>2, PTL DEF CSpec

\* No page is lost, free twice, free and in use, or used by two processes or
\* in two roles: a process holds exactly its 7 pages from the fork() that makes
\* it to the wait() that collects it.
THEOREM NoPageLost == CSpec => []PagesPartitioned
<1>1. MInv => PagesPartitioned
  <2> SUFFICES ASSUME MInv, panic = "none"
               PROVE  /\ IsInjective(heap.free)
                      /\ \A p \in UsedSlots :
                           /\ Owned(p) \cap Range(heap.free) = {}
                           /\ Cardinality(Owned(p)) = IF p = Idle THEN BOOT_PAGES ELSE PER_PROCESS
                      /\ \A p, q \in UsedSlots : p # q => Owned(p) \cap Owned(q) = {}
                      /\ Range(heap.free) \cup UNION {Owned(p) : p \in UsedSlots} = pool
    BY DEF PagesPartitioned
  <2>1. Running /\ Sound(heap) /\ Parted
    BY DEF MInv, Running
  <2>2. \A p \in UsedSlots : Cardinality(Owned(p)) = IF p = Idle THEN BOOT_PAGES ELSE PER_PROCESS
    BY <2>1, OwnedCount
  <2> QED BY <2>1, <2>2 DEF Sound, Parted, FreeSet
<1> QED BY <1>1, MemoryInvariance, PTL

\* No ASSERT of memory.c fails: kfree() is only given pages of the pool, no
\* region is mapped twice, and fork() finds the page it copies.
THEOREM NoMemoryAssertFails == CSpec => []MemoryAssertsHold
<1>1. MInv => MemoryAssertsHold
  BY DEF MInv, MemoryAssertsHold
<1> QED BY <1>1, MemoryInvariance, PTL

\* With a free slot, fork() runs out of memory only when the pages of the boot,
\* of all processes and corpses and of one process more exceed the machine.
THEOREM ForkFailsRightly == CSpec => []ForkFailsOnlyWhenFull
<1>1. MInv => ForkFailsOnlyWhenFull
  BY DEF MInv
<1> QED BY <1>1, MemoryInvariance, PTL

\* When fork() has run out of memory, every page is free, or with its process or
\* corpse, or still named by the half-made child, and in one of these places only.
THEOREM NothingLostByFailure == CSpec => []FailedForkLosesNothing
<1>1. MInv => FailedForkLosesNothing
  BY DEF MInv
<1> QED BY <1>1, MemoryInvariance, PTL

\* Wherever kalloc() first fails, alloc_new_process() gives back what it took.
THEOREM FailedProcessGivesBack == CSpec => []FailedAllocGivesBack
<1>1. ASSUME Sound(heap), NEW n \in 0 .. PER_PROCESS, n <= Len(heap.free)
      PROVE  LET m == NewProcessMemory([heap EXCEPT !.free = SubSeq(@, 1, n)])
             IN  m.map # NULL \/ Range(m.heap.free) = Range(SubSeq(heap.free, 1, n))
  <2>1. PICK free, t, f :
          /\ heap = [free |-> free, table |-> t, failed |-> f]
          /\ free = heap.free /\ free \in Seq(Page) /\ IsInjective(free)
          /\ t \in [Page -> [Region -> Entry]] /\ f \in BOOLEAN
    BY <1>1, HeapFields
  <2>2. PICK s : /\ s = SubSeq(free, 1, n)
                 /\ s \in Seq(Page) /\ Len(s) = n /\ \A i \in 1 .. n : s[i] = free[i]
    <3>1. n \in Nat /\ n <= Len(free) /\ Len(free) \in Nat /\ DOMAIN free = 1 .. Len(free)
      BY <1>1, <2>1, LenProperties DEF PER_PROCESS
    <3>2. SubSeq(free, 1, n) \in Seq(Page)
      BY <2>1, <3>1, SubSeqProperties
    <3>3. Len(SubSeq(free, 1, n)) = n /\ \A i \in 1 .. n : SubSeq(free, 1, n)[i] = free[i]
      BY <2>1, <3>1, SubSeqProperties
    <3> QED BY <3>2, <3>3
  <2>3. IsInjective(s)
    <3>1. DOMAIN s = 1 .. n /\ 1 .. n \subseteq DOMAIN free
      BY <1>1, <2>1, <2>2, LenProperties DEF PER_PROCESS
    <3> QED BY <2>1, <2>2, <3>1 DEF IsInjective
  <2>4. PICK k : /\ k = [heap EXCEPT !.free = SubSeq(@, 1, n)]
                 /\ k = [free |-> s, table |-> t, failed |-> f] /\ k.free = s
    <3>1. PICK h : h = heap /\ h = [free |-> free, table |-> t, failed |-> f] /\ h.free = free
      BY <2>1
    <3>2. [h EXCEPT !.free = s] = [free |-> s, table |-> t, failed |-> f]
      BY <3>1
    <3>3. [heap EXCEPT !.free = SubSeq(@, 1, n)] = [h EXCEPT !.free = s]
      BY <2>2, <3>1
    <3> QED BY <3>2, <3>3
  <2>5. Sound(k)
    <3>1. Sound([free |-> s, table |-> t, failed |-> f])
      BY <2>1, <2>2, <2>3, HeapMade
    <3> QED BY <2>4, <3>1
  <2>6. PICK slot, r, v, g :
          /\ NewProcessMemory(k) = [slot |-> slot, stack |-> r, map |-> v, heap |-> g]
          /\ NewMade(k, slot, r, v, g)
    BY <2>5, NewProcess
  <2>7. v = NULL => Range(g.free) = Range(s)
    BY <2>4, <2>6 DEF NewMade, FreeSet
  <2> QED BY <2>1, <2>2, <2>4, <2>6, <2>7
<1>2. MInv => FailedAllocGivesBack
  BY <1>1 DEF MInv, FailedAllocGivesBack
<1> QED BY <1>2, MemoryInvariance, PTL

\* The TSS and CR3 always belong to the process that runs, and to no page that
\* wait() or a failed fork() has given back.
THEOREM OwnSpaceRuns == CSpec => []RunsInOwnSpace
<1>1. MInv => RunsInOwnSpace
  <2> SUFFICES ASSUME MInv, panic = "none"
               PROVE  /\ tss_rsp0 = stack[current_process] /\ cr3 = page_map[current_process]
                      /\ {tss_rsp0, cr3} \cap Range(heap.free) = {}
    BY DEF RunsInOwnSpace
  <2>1. Running /\ Sound(heap) /\ Parted /\ IInv
    BY DEF MInv, Running
  <2>2. tss_rsp0 = stack[current_process] /\ cr3 = page_map[current_process]
    BY <2>1 DEF Running
  <2>3. current_process \in UsedSlots
    BY <2>1, UsedAre
  <2>4. cr3 \in Owned(current_process)
    BY <2>1, <2>2, <2>3, OwnedCount
  <2>5. tss_rsp0 \in Owned(current_process) \cup {NULL}
    BY <2>2 DEF Owned
  <2>6. NULL \notin FreeSet(heap) /\ Owned(current_process) \cap FreeSet(heap) = {}
    BY <2>1, <2>3, HeapFields DEF Parted
  <2> QED BY <2>2, <2>4, <2>5, <2>6 DEF FreeSet
<1> QED BY <1>1, MemoryInvariance, PTL
=============================================================================
