---------------------------- MODULE FilesProofs ----------------------------
(***************************************************************************)
(* The reference counts of the open files, for every number of processes,  *)
(* descriptors, open files and files.                                      *)
(*                                                                         *)
(* Every operation replaces the descriptor table of one process: open and  *)
(* close that of the caller, fork that of the child, wait that of the      *)
(* corpse.  TableChange says what that does to a number of holders, and    *)
(* the three Recounted lemmas that the code's arithmetic agrees.  What the *)
(* invariant needs from the process core is that the slot fork() picks was *)
(* never in use or has been collected, so that its table is empty; a       *)
(* failed ASSERT or a NULL dereference ends the story, so the core's own   *)
(* invariant is only claimed until then.                                   *)
(***************************************************************************)
EXTENDS Files, ProcessProofs, FiniteSetTheorems

Table == [Fd -> Desc \cup {NULL}]
EmptyTable == [i \in Fd |-> NULL]

\* Who points to an open file of D: the descriptors of all the tables of g,
\* and those of the one table t.
Holders(g, D) == {x \in Slot \X Fd : g[x[1]][x[2]] \in D}
Points(t, D) == {i \in Fd : t[i] \in D}
EntriesOf(b, f) == {d \in Desc : b[d] = f}

Counted(g, b, c, k) ==
  /\ \A d \in Desc : /\ c[d] = Cardinality(Holders(g, {d}))
                     /\ b[d] = NULL <=> Holders(g, {d}) = {}
  /\ \A f \in File : k[f] = Cardinality(Holders(g, EntriesOf(b, f)))

\* The table of p becomes t; entry d of c becomes v; t is s with one more
\* pointer, to d; the pointers of s are those of t and those of u.
Moved(g, p, t, h) ==
  h \in [Slot -> Table] /\ h[p] = t /\ \A q \in Slot \ {p} : h[q] = g[q]
Updated(S, c, d, v, c2) == c2[d] = v /\ \A e \in S \ {d} : c2[e] = c[e]
OneMore(s, i, d, t) == s[i] = NULL /\ t[i] = d /\ \A j \in Fd \ {i} : t[j] = s[j]
Splits(s, t, u) ==
  \A i \in Fd : (u[i] = s[i] /\ t[i] = NULL) \/ (u[i] = NULL /\ t[i] = s[i])

\* The counts after a second process gets the table u, and after letting go
\* of u.
Acquired(u, b, c, k, c2, k2) ==
  /\ \A e \in Desc : c2[e] = c[e] + Cardinality(Points(u, {e}))
  /\ \A y \in File : k2[y] = k[y] + Cardinality(Points(u, EntriesOf(b, y)))
Released(u, b, c, k, b2, c2, k2) ==
  /\ \A e \in Desc : c2[e] = c[e] - Cardinality(Points(u, {e}))
  /\ \A y \in File : k2[y] = k[y] - Cardinality(Points(u, EntriesOf(b, y)))
  /\ \A e \in Desc : b2[e] = IF Cardinality(Points(u, {e})) > 0 /\ c2[e] = 0
                                THEN NULL ELSE b[e]

FTypeOK ==
  /\ file \in [Slot -> Table]
  /\ fcb \in [Desc -> File \cup {NULL}]
  /\ position \in [Desc -> Nat]
  /\ count \in [Desc -> Int]
  /\ fcb_count \in [File -> Int]

\* While the machine runs, the core is sound and unused slots hold nothing.
Sound ==
  panic = "none" => /\ IInv
                    /\ \A p \in Slot : state[p] = "UNUSED" => file[p] = EmptyTable

FInv == FTypeOK /\ Sound /\ Counted(file, fcb, count, fcb_count) /\ PositionInFile

-----------------------------------------------------------------------------
(***************************************************************************)
(* Counting.                                                               *)
(***************************************************************************)

\* There are finitely many holders, so counting them gives a number.
LEMMA FiniteHolders ==
  ASSUME ConstantsAssumption, FilesAssumption, NEW g, NEW t, NEW D
  PROVE  /\ IsFiniteSet(Holders(g, D)) /\ Cardinality(Holders(g, D)) \in Nat
         /\ IsFiniteSet(Points(t, D)) /\ Cardinality(Points(t, D)) \in Nat
<1>1. IsFiniteSet(Slot)
  <2>1. NUM_PROC - 1 \in Int
    BY DEF ConstantsAssumption
  <2> QED BY <2>1, FS_Interval DEF Slot
<1>2. IsFiniteSet(Fd)
  BY DEF FilesAssumption
<1>3. IsFiniteSet(Slot \X Fd)
  BY <1>1, <1>2, FS_Product
<1>4. Holders(g, D) \in SUBSET (Slot \X Fd) /\ Points(t, D) \in SUBSET Fd
  BY DEF Holders, Points
<1>5. IsFiniteSet(Holders(g, D)) /\ IsFiniteSet(Points(t, D))
  BY <1>2, <1>3, <1>4, FS_Subset
<1> QED BY <1>5, FS_CardinalityType

\* Two disjoint parts.
LEMMA TwoParts ==
  ASSUME NEW S, NEW T, IsFiniteSet(S), IsFiniteSet(T), S \cap T = {}
  PROVE  Cardinality(S \cup T) = Cardinality(S) + Cardinality(T)
<1>1. Cardinality(S \cup T) = Cardinality(S) + Cardinality(T) - Cardinality(S \cap T)
  BY FS_Union
<1>2. Cardinality(S \cap T) = 0
  BY FS_EmptySet
<1>3. Cardinality(S) \in Nat /\ Cardinality(T) \in Nat
  BY FS_CardinalityType
<1> QED BY <1>1, <1>2, <1>3

\* The holders in one process are as many as its table has pointers.
LEMMA OneProcess ==
  ASSUME ConstantsAssumption, FilesAssumption, NEW g, NEW p \in Slot, NEW D
  PROVE  Cardinality(Holders(g, D))
           = Cardinality({x \in Holders(g, D) : x[1] # p}) + Cardinality(Points(g[p], D))
<1> DEFINE rest == {x \in Holders(g, D) : x[1] # p}
           mine == {p} \X Points(g[p], D)
<1>1. IsFiniteSet(Holders(g, D)) /\ IsFiniteSet(Points(g[p], D))
  BY FiniteHolders
<1>2. Holders(g, D) = rest \cup mine /\ rest \cap mine = {}
  <2>1. ASSUME NEW x \in Holders(g, D)  PROVE x \in rest \cup mine
    <3>1. x \in Slot \X Fd /\ g[x[1]][x[2]] \in D
      BY DEF Holders
    <3>2. CASE x[1] = p
      <4>1. x[2] \in Points(g[p], D)
        BY <3>1, <3>2 DEF Points
      <4>2. x = <<x[1], x[2]>>
        BY <3>1
      <4> QED BY <3>2, <4>1, <4>2
    <3> QED BY <3>2
  <2>2. ASSUME NEW x \in mine  PROVE x \in Holders(g, D) /\ x[1] = p
    <3>1. x[1] = p /\ x[2] \in Fd /\ g[p][x[2]] \in D /\ x = <<x[1], x[2]>>
      BY DEF Points
    <3> QED BY <3>1 DEF Holders
  <2> QED BY <2>1, <2>2
<1>3. IsFiniteSet(rest)
  <2>1. rest \in SUBSET Holders(g, D)
    OBVIOUS
  <2> QED BY <1>1, <2>1, FS_Subset
<1>4. IsFiniteSet(mine) /\ Cardinality(mine) = Cardinality(Points(g[p], D))
  <2>1. IsFiniteSet({p}) /\ Cardinality({p}) = 1
    BY FS_Singleton
  <2>2. IsFiniteSet(mine) /\ Cardinality(mine) = Cardinality({p}) * Cardinality(Points(g[p], D))
    BY <1>1, <2>1, FS_Product
  <2>3. Cardinality(Points(g[p], D)) \in Nat
    BY FiniteHolders
  <2> QED BY <2>1, <2>2, <2>3
<1> HIDE DEF mine
<1>5. Cardinality(rest \cup mine) = Cardinality(rest) + Cardinality(mine)
  BY <1>2, <1>3, <1>4, TwoParts
<1> QED BY <1>2, <1>4, <1>5

\* One table is replaced.
LEMMA TableChange ==
  ASSUME ConstantsAssumption, FilesAssumption,
         NEW g \in [Slot -> Table], NEW p \in Slot, NEW t \in Table, NEW h, Moved(g, p, t, h), NEW D
  PROVE  Cardinality(Holders(h, D)) + Cardinality(Points(g[p], D))
           = Cardinality(Holders(g, D)) + Cardinality(Points(t, D))
<1> USE DEF Moved
<1> DEFINE rest == {x \in Holders(g, D) : x[1] # p}
<1>1. {x \in Holders(h, D) : x[1] # p} = rest
  <2>1. \A x \in Slot \X Fd : x[1] \in Slot /\ (x[1] # p => h[x[1]] = g[x[1]])
    OBVIOUS
  <2> QED BY <2>1 DEF Holders
<1>2. Cardinality(Holders(g, D)) = Cardinality(rest) + Cardinality(Points(g[p], D))
  BY OneProcess
<1>3. Cardinality(Holders(h, D)) = Cardinality(rest) + Cardinality(Points(t, D))
  BY <1>1, OneProcess
<1>4. Cardinality(rest) \in Nat
  <2>1. rest \in SUBSET Holders(g, D) /\ IsFiniteSet(Holders(g, D))
    BY FiniteHolders
  <2>2. IsFiniteSet(rest)
    BY <2>1, FS_Subset
  <2> QED BY <2>2, FS_CardinalityType
<1>5. Cardinality(Points(g[p], D)) \in Nat /\ Cardinality(Points(t, D)) \in Nat
  BY FiniteHolders
<1> HIDE DEF rest
<1> QED BY <1>2, <1>3, <1>4, <1>5

\* Nobody holds an open file exactly when the number of holders is 0.
LEMMA NoHolders ==
  ASSUME ConstantsAssumption, FilesAssumption, NEW g, NEW D
  PROVE  Cardinality(Holders(g, D)) = 0 <=> Holders(g, D) = {}
BY FiniteHolders, FS_EmptySet

\* Two tables in which somebody points to d, or nobody does.
LEMMA SomeHolder ==
  ASSUME NEW g, NEW h, NEW d,
         (\E q \in Slot, j \in Fd : h[q][j] = d) <=> (\E q \in Slot, j \in Fd : g[q][j] = d)
  PROVE  Holders(h, {d}) = {} <=> Holders(g, {d}) = {}
<1>1. ASSUME NEW a
      PROVE  Holders(a, {d}) # {} <=> \E q \in Slot, j \in Fd : a[q][j] = d
  <2>1. ASSUME NEW x \in Holders(a, {d})  PROVE \E q \in Slot, j \in Fd : a[q][j] = d
    BY <2>1 DEF Holders
  <2>2. ASSUME NEW q \in Slot, NEW j \in Fd, a[q][j] = d  PROVE Holders(a, {d}) # {}
    <3>1. <<q, j>> \in Holders(a, {d})
      BY <2>2 DEF Holders
    <3> QED BY <3>1
  <2> QED BY <2>1, <2>2
<1> QED BY <1>1

\* The table t is the table s with one more descriptor, which points to d.
LEMMA OnePointer ==
  ASSUME FilesAssumption, NEW s, NEW t, NEW i \in Fd, NEW d, NEW D, NULL \notin D,
         OneMore(s, i, d, t)
  PROVE  Cardinality(Points(t, D)) = IF d \in D THEN Cardinality(Points(s, D)) + 1
                                                ELSE Cardinality(Points(s, D))
<1> USE DEF OneMore
<1>1. i \notin Points(s, D)
  BY DEF Points
<1>2. CASE d \in D
  <2>1. \A j \in Fd : j \in Points(t, D) <=> j \in Points(s, D) \cup {i}
    BY <1>2 DEF Points
  <2>2. Points(t, D) = Points(s, D) \cup {i}
    BY <2>1 DEF Points
  <2>3. IsFiniteSet(Points(s, D))
    <3>1. Points(s, D) \in SUBSET Fd /\ IsFiniteSet(Fd)
      BY DEF Points, FilesAssumption
    <3> QED BY <3>1, FS_Subset
  <2>4. Cardinality(Points(s, D) \cup {i}) = Cardinality(Points(s, D)) + 1
    BY <1>1, <2>3, FS_AddElement
  <2> QED BY <1>2, <2>2, <2>4
<1>3. CASE d \notin D
  <2>1. \A j \in Fd : j \in Points(t, D) <=> j \in Points(s, D)
    BY <1>1, <1>3 DEF Points
  <2>2. Points(t, D) = Points(s, D)
    BY <2>1 DEF Points
  <2> QED BY <1>3, <2>2
<1> QED BY <1>2, <1>3

\* open_file(): one more holder of a new open file.
LEMMA OpenRecounted ==
  ASSUME ConstantsAssumption, FilesAssumption,
         NEW g \in [Slot -> Table], NEW b \in [Desc -> File \cup {NULL}],
         NEW c \in [Desc -> Int], NEW k \in [File -> Int], Counted(g, b, c, k),
         NEW p \in Slot, NEW i \in Fd,
         NEW d \in Desc, b[d] = NULL, NEW f \in File,
         NEW t \in Table, OneMore(g[p], i, d, t),
         NEW h, Moved(g, p, t, h),
         NEW b2 \in [Desc -> File \cup {NULL}], Updated(Desc, b, d, f, b2),
         NEW c2 \in [Desc -> Int], Updated(Desc, c, d, 1, c2),
         NEW k2 \in [File -> Int], Updated(File, k, f, k[f] + 1, k2)
  PROVE  Counted(h, b2, c2, k2)
<1> USE DEF Updated
<1>1. NULL \notin Desc /\ NULL \notin File
  BY DEF FilesAssumption
<1>2. \A q \in Slot, j \in Fd : g[q][j] # d
  <2>1. Holders(g, {d}) = {}
    BY DEF Counted
  <2> SUFFICES ASSUME NEW q \in Slot, NEW j \in Fd, g[q][j] = d  PROVE FALSE
    OBVIOUS
  <2>2. <<q, j>> \in Holders(g, {d})
    BY DEF Holders
  <2> QED BY <2>1, <2>2
<1>3. ASSUME NEW D
      PROVE  /\ Cardinality(Holders(h, D)) + Cardinality(Points(g[p], D))
                  = Cardinality(Holders(g, D)) + Cardinality(Points(t, D))
             /\ Cardinality(Holders(h, D)) \in Nat /\ Cardinality(Holders(g, D)) \in Nat
             /\ Cardinality(Points(g[p], D)) \in Nat /\ Cardinality(Points(t, D)) \in Nat
  BY TableChange, FiniteHolders
<1>4. ASSUME NEW D, d \in D, NULL \notin D
      PROVE  Cardinality(Holders(h, D)) = Cardinality(Holders(g, D)) + 1
  <2>1. Cardinality(Points(t, D))
          = IF d \in D THEN Cardinality(Points(g[p], D)) + 1 ELSE Cardinality(Points(g[p], D))
    BY <1>4, OnePointer
  <2> QED BY <1>3, <1>4, <2>1
<1>5. ASSUME NEW D, d \notin D, NULL \notin D
      PROVE  Cardinality(Holders(h, D)) = Cardinality(Holders(g, D))
  <2>1. Cardinality(Points(t, D)) = Cardinality(Points(g[p], D))
    BY <1>5, OnePointer
  <2> QED BY <1>3, <2>1
<1>6. ASSUME NEW e \in Desc
      PROVE  /\ c2[e] = Cardinality(Holders(h, {e}))
             /\ b2[e] = NULL <=> Holders(h, {e}) = {}
  <2>1. /\ c[e] = Cardinality(Holders(g, {e}))
        /\ b[e] = NULL <=> Holders(g, {e}) = {}
    BY DEF Counted
  <2>2. CASE e = d
    <3>1. Cardinality(Holders(g, {d})) = 0
      <4>1. Holders(g, {d}) = {}
        BY <2>1, <2>2
      <4> QED BY <4>1, FS_EmptySet
    <3>2. Cardinality(Holders(h, {d})) = 1
      BY <1>1, <1>4, <3>1
    <3>3. Holders(h, {d}) # {}
      <4> SUFFICES ASSUME Holders(h, {d}) = {}  PROVE FALSE
        OBVIOUS
      <4>1. Cardinality(Holders(h, {d})) = 0
        BY FS_EmptySet
      <4> QED BY <3>2, <4>1
    <3> QED BY <1>1, <2>2, <3>2, <3>3
  <2>3. CASE e # d
    <3>1. Cardinality(Holders(h, {e})) = Cardinality(Holders(g, {e}))
      BY <1>1, <1>5, <2>3
    <3>2. Holders(h, {e}) = {} <=> Holders(g, {e}) = {}
      <4>1. Cardinality(Holders(h, {e})) = 0 <=> Holders(h, {e}) = {}
        BY NoHolders
      <4>2. Cardinality(Holders(g, {e})) = 0 <=> Holders(g, {e}) = {}
        BY NoHolders
      <4> QED BY <3>1, <4>1, <4>2
    <3> QED BY <2>1, <2>3, <3>1, <3>2
  <2> QED BY <2>2, <2>3
<1>7. ASSUME NEW y \in File
      PROVE  k2[y] = Cardinality(Holders(h, EntriesOf(b2, y)))
  <2>1. k[y] = Cardinality(Holders(g, EntriesOf(b, y)))
    BY DEF Counted
  <2>2. NULL \notin EntriesOf(b2, y) /\ (d \in EntriesOf(b2, y) <=> y = f)
    BY <1>1 DEF EntriesOf
  <2>3. Holders(g, EntriesOf(b2, y)) = Holders(g, EntriesOf(b, y))
    <3>1. \A q \in Slot, j \in Fd :
            g[q][j] \in EntriesOf(b2, y) <=> g[q][j] \in EntriesOf(b, y)
      <4>1. \A e : e # d => (e \in EntriesOf(b2, y) <=> e \in EntriesOf(b, y))
        BY DEF EntriesOf
      <4> QED BY <1>2, <4>1
    <3>2. \A x \in Slot \X Fd : x[1] \in Slot /\ x[2] \in Fd
      OBVIOUS
    <3> QED BY <3>1, <3>2 DEF Holders
  <2>4. CASE y = f
    BY <1>4, <2>1, <2>2, <2>3, <2>4
  <2>5. CASE y # f
    BY <1>5, <2>1, <2>2, <2>3, <2>5
  <2> QED BY <2>4, <2>5
<1> QED BY <1>6, <1>7 DEF Counted

\* close_file() and wait(): the descriptors that become NULL are those of u.
LEMMA LetGoRecounted ==
  ASSUME ConstantsAssumption, FilesAssumption,
         NEW g \in [Slot -> Table], NEW b \in [Desc -> File \cup {NULL}],
         NEW c \in [Desc -> Int], NEW k \in [File -> Int], Counted(g, b, c, k),
         NEW p \in Slot, NEW t \in Table, NEW u \in Table,
         Splits(g[p], t, u), NEW h, Moved(g, p, t, h),
         NEW b2, NEW c2, NEW k2, Released(u, b, c, k, b2, c2, k2)
  PROVE  /\ Counted(h, b2, c2, k2)
         /\ \A e \in Desc : b2[e] # b[e] => b2[e] = NULL /\ Holders(h, {e}) = {}
<1> USE DEF Splits, Released
<1>1. NULL \notin Desc /\ NULL \notin File
  BY DEF FilesAssumption
<1>2. ASSUME NEW D, NULL \notin D
      PROVE  /\ Cardinality(Holders(h, D)) = Cardinality(Holders(g, D)) - Cardinality(Points(u, D))
             /\ Cardinality(Holders(h, D)) \in Nat /\ Cardinality(Holders(g, D)) \in Nat
             /\ Cardinality(Points(u, D)) \in Nat
  <2>1. Points(g[p], D) = Points(t, D) \cup Points(u, D) /\ Points(t, D) \cap Points(u, D) = {}
    BY <1>2 DEF Points
  <2>2. /\ IsFiniteSet(Points(t, D)) /\ Cardinality(Points(t, D)) \in Nat
        /\ IsFiniteSet(Points(u, D)) /\ Cardinality(Points(u, D)) \in Nat
        /\ Cardinality(Holders(h, D)) \in Nat /\ Cardinality(Holders(g, D)) \in Nat
    BY FiniteHolders
  <2>3. Cardinality(Points(g[p], D)) = Cardinality(Points(t, D)) + Cardinality(Points(u, D))
    BY <2>1, <2>2, TwoParts
  <2>4. Cardinality(Holders(h, D)) + Cardinality(Points(g[p], D))
          = Cardinality(Holders(g, D)) + Cardinality(Points(t, D))
    BY TableChange
  <2> QED BY <2>2, <2>3, <2>4
<1>3. ASSUME NEW e \in Desc
      PROVE  /\ c2[e] = Cardinality(Holders(h, {e}))
             /\ b2[e] = NULL <=> Holders(h, {e}) = {}
             /\ b2[e] # b[e] => b2[e] = NULL /\ Holders(h, {e}) = {}
  <2>1. /\ c[e] = Cardinality(Holders(g, {e}))
        /\ b[e] = NULL <=> Cardinality(Holders(g, {e})) = 0
    BY NoHolders DEF Counted
  <2>2. /\ Cardinality(Holders(h, {e})) = Cardinality(Holders(g, {e})) - Cardinality(Points(u, {e}))
        /\ Cardinality(Holders(h, {e})) \in Nat /\ Cardinality(Holders(g, {e})) \in Nat
        /\ Cardinality(Points(u, {e})) \in Nat
    BY <1>1, <1>2
  <2>3. c2[e] = Cardinality(Holders(h, {e}))
    BY <2>1, <2>2
  <2>4. b2[e] = IF Cardinality(Points(u, {e})) > 0 /\ c2[e] = 0 THEN NULL ELSE b[e]
    OBVIOUS
  <2>5. Holders(h, {e}) = {} <=> Cardinality(Holders(h, {e})) = 0
    BY NoHolders
  <2>6. CASE Cardinality(Holders(g, {e})) = 0
    <3>1. Cardinality(Points(u, {e})) = 0 /\ c2[e] = 0
      BY <2>2, <2>3, <2>6
    <3>2. b2[e] = NULL /\ b[e] = NULL
      BY <2>1, <2>4, <2>6, <3>1
    <3> QED BY <2>3, <2>5, <3>1, <3>2
  <2>7. CASE Cardinality(Holders(g, {e})) # 0 /\ c2[e] = 0
    <3>1. Cardinality(Points(u, {e})) > 0
      BY <2>2, <2>3, <2>7
    <3> QED BY <2>3, <2>4, <2>5, <2>7, <3>1
  <2>8. CASE Cardinality(Holders(g, {e})) # 0 /\ c2[e] # 0
    <3>1. b2[e] = b[e] /\ b[e] # NULL
      BY <2>1, <2>4, <2>8
    <3> QED BY <2>3, <2>5, <2>8, <3>1
  <2> QED BY <2>6, <2>7, <2>8
<1>4. ASSUME NEW y \in File
      PROVE  k2[y] = Cardinality(Holders(h, EntriesOf(b2, y)))
  <2>1. k[y] = Cardinality(Holders(g, EntriesOf(b, y))) /\ NULL \notin EntriesOf(b, y)
    BY <1>1 DEF Counted, EntriesOf
  <2>2. k2[y] = Cardinality(Holders(h, EntriesOf(b, y)))
    BY <1>2, <2>1
  <2>3. Holders(h, EntriesOf(b, y)) = Holders(h, EntriesOf(b2, y))
    <3>1. ASSUME NEW q \in Slot, NEW j \in Fd
          PROVE  h[q][j] \in EntriesOf(b, y) <=> h[q][j] \in EntriesOf(b2, y)
      <4>1. \A e \in Desc : h[q][j] = e => Holders(h, {e}) # {}
        <5> SUFFICES ASSUME NEW e \in Desc, h[q][j] = e  PROVE <<q, j>> \in Holders(h, {e})
          OBVIOUS
        <5> QED BY DEF Holders
      <4>2. \A e \in Desc : h[q][j] = e => b2[e] = b[e]
        BY <1>3, <4>1
      <4> QED BY <4>2 DEF EntriesOf
    <3>2. \A x \in Slot \X Fd : x[1] \in Slot /\ x[2] \in Fd
      OBVIOUS
    <3> QED BY <3>1, <3>2 DEF Holders
  <2> QED BY <2>2, <2>3
<1> QED BY <1>3, <1>4 DEF Counted

\* fork(): the child, whose table was empty, holds what its parent q holds.
LEMMA ShareRecounted ==
  ASSUME ConstantsAssumption, FilesAssumption,
         NEW g \in [Slot -> Table], NEW b \in [Desc -> File \cup {NULL}],
         NEW c \in [Desc -> Int], NEW k \in [File -> Int], Counted(g, b, c, k),
         NEW p \in Slot, g[p] = EmptyTable, NEW q \in Slot,
         NEW h, Moved(g, p, g[q], h),
         NEW c2, NEW k2, Acquired(g[q], b, c, k, c2, k2)
  PROVE  Counted(h, b, c2, k2)
<1> USE DEF Acquired
<1>1. NULL \notin Desc /\ NULL \notin File /\ g[q] \in Table
  BY DEF FilesAssumption
<1>2. ASSUME NEW D, NULL \notin D
      PROVE  /\ Cardinality(Holders(h, D)) = Cardinality(Holders(g, D)) + Cardinality(Points(g[q], D))
             /\ Cardinality(Points(g[q], D)) \in Nat /\ Cardinality(Holders(g, D)) \in Nat
  <2>1. Points(g[p], D) = {}
    BY <1>2 DEF Points, EmptyTable
  <2>2. Cardinality(Points(g[p], D)) = 0
    BY <2>1, FS_EmptySet
  <2>3. Cardinality(Holders(h, D)) + Cardinality(Points(g[p], D))
          = Cardinality(Holders(g, D)) + Cardinality(Points(g[q], D))
    BY <1>1, TableChange
  <2>4. /\ Cardinality(Holders(h, D)) \in Nat /\ Cardinality(Holders(g, D)) \in Nat
        /\ Cardinality(Points(g[q], D)) \in Nat
    BY FiniteHolders
  <2> QED BY <2>2, <2>3, <2>4
<1>3. ASSUME NEW e \in Desc
      PROVE  /\ c2[e] = Cardinality(Holders(h, {e}))
             /\ b[e] = NULL <=> Holders(h, {e}) = {}
  <2>1. c[e] = Cardinality(Holders(g, {e})) /\ (b[e] = NULL <=> Holders(g, {e}) = {})
    BY DEF Counted
  <2>2. Cardinality(Holders(h, {e})) = Cardinality(Holders(g, {e})) + Cardinality(Points(g[q], {e}))
    BY <1>1, <1>2
  <2>3. Holders(h, {e}) = {} <=> Holders(g, {e}) = {}
    <3>1. \A s \in Slot, j \in Fd : h[s][j] = e => \E r \in Slot : g[r][j] = e
      BY DEF Moved
    <3>2. \A s \in Slot, j \in Fd : g[s][j] = e => h[s][j] = e
      <4>1. \A j \in Fd : g[p][j] # e
        BY <1>1 DEF EmptyTable
      <4> QED BY <4>1 DEF Moved
    <3>3. (\E s \in Slot, j \in Fd : h[s][j] = e) <=> (\E s \in Slot, j \in Fd : g[s][j] = e)
      BY <3>1, <3>2
    <3> QED BY <3>3, SomeHolder
  <2> QED BY <2>1, <2>2, <2>3
<1>4. ASSUME NEW y \in File
      PROVE  k2[y] = Cardinality(Holders(h, EntriesOf(b, y)))
  <2>1. k[y] = Cardinality(Holders(g, EntriesOf(b, y))) /\ NULL \notin EntriesOf(b, y)
    BY <1>1 DEF Counted, EntriesOf
  <2> QED BY <1>2, <2>1
<1> QED BY <1>3, <1>4 DEF Counted

\* The code's two ways to count are these numbers.
LEMMA RefsArePoints ==
  ASSUME FilesAssumption, NEW t \in Table
  PROVE  /\ \A d : RefsTo(t, d) = Cardinality(Points(t, {d}))
         /\ \A f : RefsToFile(t, f) = Cardinality(Points(t, EntriesOf(fcb, f)))
<1>1. \A d : {i \in Fd : t[i] = d} = Points(t, {d})
  BY DEF Points
<1>2. \A f : {i \in Fd : t[i] # NULL /\ fcb[t[i]] = f} = Points(t, EntriesOf(fcb, f))
  BY DEF Points, EntriesOf, Table, FilesAssumption
<1> QED BY <1>1, <1>2 DEF RefsTo, RefsToFile

-----------------------------------------------------------------------------
(***************************************************************************)
(* The actions.  Each keeps the invariant, and no step touches an open     *)
(* file that has holders, save to let one of them read on.                 *)
(***************************************************************************)
Held(g, d) == Holders(g, {d}) # {}

Kept ==
  \A d \in Desc : Held(file, d) /\ Held(file', d) =>
    /\ fcb'[d] = fcb[d]
    /\ position'[d] >= position[d]
    /\ position'[d] # position[d] => \E i \in Fd : Here[i] = d

\* What the files' side of a step has to show.
FilesStep ==
  FTypeOK' /\ Counted(file', fcb', count', fcb_count') /\ PositionInFile' /\ Kept

\* The lowest of a set of table indices is one of them.
LEMMA LowestIn ==
  ASSUME NEW S, S \subseteq Nat, S # {}
  PROVE  Lowest(S) \in S
<1>1. \E x \in S : \A y \in S : x <= y
  BY LeastElement
<1> QED BY <1>1 DEF Lowest

\* A system call is one of a real process, which is in use.
LEMMA CallerRuns ==
  ASSUME ConstantsAssumption, FInv, InSyscall
  PROVE  /\ panic = "none" /\ IInv
         /\ current_process \in Slot /\ state[current_process] = "RUNNING"
<1>1. panic = "none" /\ current_process # Idle
  BY DEF InSyscall, UserMode
<1>2. IInv
  BY <1>1 DEF FInv, Sound
<1> QED BY <1>1, <1>2, CurrentRuns DEF Proc

\* Steps that leave the files alone.
LEMMA FilesUntouched ==
  ASSUME FInv, UNCHANGED filevars
  PROVE  FilesStep
<1>1. /\ file' = file /\ fcb' = fcb /\ position' = position
      /\ count' = count /\ fcb_count' = fcb_count
  BY DEF filevars, openvars
<1>2. \A d \in Desc : position[d] \in Nat
  BY DEF FInv, FTypeOK
<1>3. FTypeOK' /\ PositionInFile' /\ Counted(file', fcb', count', fcb_count')
  BY <1>1 DEF FInv, FTypeOK, PositionInFile
<1>4. Kept
  BY <1>1, <1>2 DEF Kept
<1> QED BY <1>3, <1>4 DEF FilesStep

\* A NULL dereference or a failed ASSERT.
LEMMA HaltStep ==
  ASSUME FInv, NEW why, why # "none", Halt(why)
  PROVE  FilesStep /\ Sound'
<1>1. FilesStep
  BY FilesUntouched DEF Halt
<1>2. Sound'
  BY DEF Halt, Sound
<1> QED BY <1>1, <1>2

\* A call that touches no variable of the core, and no table of an unused slot.
LEMMA SoundStays ==
  ASSUME FInv, UNCHANGED vars,
         \A p \in Slot : state[p] = "UNUSED" => file'[p] = file[p]
  PROVE  Sound'
<1>1. IInv => IInv'
  BY DEF vars, IInv, TypeOK, ListsMatchStates, OnlyForkAsserts, SlotsOK
<1> QED BY <1>1 DEF vars, FInv, Sound

\* open_file()
LEMMA OpenFileStep ==
  ASSUME ConstantsAssumption, FilesAssumption, FInv, OpenFile
  PROVE  FilesStep /\ Sound'
<1>1. /\ InSyscall /\ UNCHANGED vars
      /\ current_process \in Slot /\ state[current_process] = "RUNNING"
  BY CallerRuns DEF OpenFile
<1>2. CASE UNCHANGED filevars
  <2>1. file' = file
    BY <1>2 DEF filevars
  <2> QED BY <1>1, <1>2, <2>1, FilesUntouched, SoundStays
<1>3. ASSUME NEW f, CanOpen(f),
             file' = [file EXCEPT ![current_process][Lowest(FreeFd)] = Lowest(FreeDesc)],
             fcb' = [fcb EXCEPT ![Lowest(FreeDesc)] = f],
             position' = [position EXCEPT ![Lowest(FreeDesc)] = 0],
             count' = [count EXCEPT ![Lowest(FreeDesc)] = 1],
             fcb_count' = [fcb_count EXCEPT ![f] = @ + 1]
      PROVE  FilesStep /\ Sound'
  <2>1. PICK i \in Fd, d \in Desc : /\ i = Lowest(FreeFd) /\ Here[i] = NULL
                                    /\ d = Lowest(FreeDesc) /\ fcb[d] = NULL
    <3>1. FreeFd # {} /\ FreeDesc # {} /\ FreeFd \subseteq Nat /\ FreeDesc \subseteq Nat
      BY <1>3 DEF CanOpen, FreeFd, FreeDesc, FilesAssumption
    <3>2. Lowest(FreeFd) \in FreeFd /\ Lowest(FreeDesc) \in FreeDesc
      BY <3>1, LowestIn
    <3> QED BY <3>2 DEF FreeFd, FreeDesc
  <2>2. f \in File
    BY <1>3 DEF CanOpen
  <2>3. PICK p \in Slot : p = current_process
    BY <1>1
  <2>4. /\ file \in [Slot -> Table] /\ fcb \in [Desc -> File \cup {NULL}]
        /\ position \in [Desc -> Nat] /\ count \in [Desc -> Int] /\ fcb_count \in [File -> Int]
        /\ Counted(file, fcb, count, fcb_count)
    BY DEF FInv, FTypeOK
  <2>5. PICK t \in Table : t = [file[p] EXCEPT ![i] = d]
    BY <2>4 DEF Table
  <2>6. file[p] \in Table /\ OneMore(file[p], i, d, t)
    BY <2>1, <2>3, <2>4, <2>5 DEF Table, Here, OneMore
  <2>7. Moved(file, p, t, file')
    <3>1. file' = [file EXCEPT ![p] = t]
      BY <1>3, <2>1, <2>3, <2>5
    <3> QED BY <2>4, <3>1 DEF Moved
  <2>8. /\ fcb' \in [Desc -> File \cup {NULL}] /\ Updated(Desc, fcb, d, f, fcb')
    BY <1>3, <2>1, <2>2, <2>4 DEF Updated
  <2>9. /\ count' \in [Desc -> Int] /\ Updated(Desc, count, d, 1, count')
    BY <1>3, <2>1, <2>4 DEF Updated
  <2>10. /\ fcb_count' \in [File -> Int] /\ Updated(File, fcb_count, f, fcb_count[f] + 1, fcb_count')
    BY <1>3, <2>2, <2>4 DEF Updated
  <2>11. Counted(file', fcb', count', fcb_count')
    BY <2>1, <2>2, <2>4, <2>6, <2>7, <2>8, <2>9, <2>10, OpenRecounted
  <2>12. /\ position' \in [Desc -> Nat] /\ position'[d] = 0
         /\ \A e \in Desc \ {d} : position'[e] = position[e]
    BY <1>3, <2>1, <2>4
  <2>13. FTypeOK'
    BY <2>7, <2>8, <2>9, <2>10, <2>12 DEF FTypeOK, Moved
  <2>14. PositionInFile'
    <3>1. FileSize[f] \in Nat
      BY <2>2 DEF FilesAssumption
    <3>2. ASSUME NEW e \in Desc, fcb'[e] # NULL  PROVE position'[e] <= FileSize[fcb'[e]]
      BY <2>8, <2>12, <3>1, <3>2 DEF FInv, PositionInFile, Updated
    <3> QED BY <3>2 DEF PositionInFile
  <2>15. Kept
    <3>1. ~Held(file, d)
      BY <2>1, <2>4 DEF Counted, Held
    <3>2. \A e \in Desc : position[e] \in Nat
      BY <2>4
    <3> QED BY <2>8, <2>12, <3>1, <3>2 DEF Kept, Updated
  <2>16. Sound'
    BY <1>1, <2>3, <2>7, SoundStays DEF Moved
  <2> QED BY <2>11, <2>13, <2>14, <2>15, <2>16 DEF FilesStep
<1> QED BY <1>2, <1>3 DEF OpenFile

\* read_file()
LEMMA ReadFileStep ==
  ASSUME ConstantsAssumption, FilesAssumption, FInv, ReadFile
  PROVE  FilesStep /\ Sound'
<1>1. InSyscall /\ current_process \in Slot
  BY CallerRuns DEF ReadFile
<1>2. PICK i \in Fd, n \in READ_SIZES :
        IF Here[i] = NULL THEN Halt("fault") ELSE ReadOpen(Here[i], n)
  BY DEF ReadFile
<1>3. CASE Halt("fault") \/ Halt("seek")
  BY <1>3, HaltStep
<1>4. CASE UNCHANGED fvars
  <2>1. UNCHANGED vars /\ UNCHANGED filevars /\ file' = file
    BY <1>4 DEF fvars, filevars
  <2> QED BY <2>1, FilesUntouched, SoundStays
<1>5. ASSUME Here[i] # NULL, position[Here[i]] + n <= FileSize[fcb[Here[i]]],
             position' = [position EXCEPT ![Here[i]] = @ + n],
             UNCHANGED <<vars, file, fcb, count, fcb_count>>
      PROVE  FilesStep /\ Sound'
  <2>1. PICK d \in Desc : d = Here[i]
    <3>1. file \in [Slot -> [Fd -> Desc \cup {NULL}]]
      BY DEF FInv, FTypeOK, Table
    <3>2. Here[i] \in Desc
      BY <1>1, <1>5, <3>1 DEF Here
    <3> QED BY <3>2
  <2>2. n \in Nat /\ position \in [Desc -> Nat]
    BY DEF FilesAssumption, FInv, FTypeOK
  <2>3. /\ position' \in [Desc -> Nat] /\ position'[d] = position[d] + n
        /\ \A e \in Desc \ {d} : position'[e] = position[e]
    BY <1>5, <2>1, <2>2
  <2>4. file' = file /\ fcb' = fcb /\ count' = count /\ fcb_count' = fcb_count /\ UNCHANGED vars
    BY <1>5
  <2>5. FTypeOK' /\ Counted(file', fcb', count', fcb_count')
    BY <2>3, <2>4 DEF FInv, FTypeOK
  <2>6. PositionInFile'
    BY <1>5, <2>1, <2>3, <2>4 DEF FInv, PositionInFile
  <2>7. Kept
    BY <2>1, <2>2, <2>3, <2>4 DEF Kept
  <2>8. Sound'
    BY <2>4, SoundStays
  <2> QED BY <2>5, <2>6, <2>7, <2>8 DEF FilesStep
<1> QED BY <1>2, <1>3, <1>4, <1>5 DEF ReadOpen

\* Letting go of the open files of u, which the table of p loses.
LEMMA LetGoStep ==
  ASSUME ConstantsAssumption, FilesAssumption, FInv,
         NEW p \in Slot, NEW t \in Table, NEW u \in Table,
         Splits(file[p], t, u), LetGo(u), Moved(file, p, t, file')
  PROVE  FilesStep
<1>1. /\ file \in [Slot -> Table] /\ fcb \in [Desc -> File \cup {NULL}]
      /\ position \in [Desc -> Nat] /\ count \in [Desc -> Int] /\ fcb_count \in [File -> Int]
      /\ Counted(file, fcb, count, fcb_count)
  BY DEF FInv, FTypeOK
<1>2. /\ \A d : RefsTo(u, d) = Cardinality(Points(u, {d}))
      /\ \A f : RefsToFile(u, f) = Cardinality(Points(u, EntriesOf(fcb, f)))
      /\ \A D : Cardinality(Points(u, D)) \in Nat
  BY RefsArePoints, FiniteHolders
<1>3. /\ count' \in [Desc -> Int]
      /\ \A e \in Desc : count'[e] = count[e] - Cardinality(Points(u, {e}))
  <2>1. count' = [d \in Desc |-> count[d] - RefsTo(u, d)]
    BY DEF LetGo
  <2>2. \A e \in Desc : count[e] \in Int /\ RefsTo(u, e) \in Int
    <3>1. \A e : RefsTo(u, e) \in Nat
      BY <1>2
    <3> QED BY <1>1, <3>1
  <2>3. \A e \in Desc : count'[e] = count[e] - RefsTo(u, e)
    BY <2>1
  <2>4. count' \in [Desc -> Int]
    BY <2>1, <2>2
  <2> QED BY <1>2, <2>3, <2>4
<1>4. /\ fcb_count' \in [File -> Int]
      /\ \A y \in File : fcb_count'[y] = fcb_count[y] - Cardinality(Points(u, EntriesOf(fcb, y)))
  BY <1>1, <1>2 DEF LetGo
<1>5. /\ fcb' \in [Desc -> File \cup {NULL}]
      /\ \A e \in Desc : fcb'[e] = IF Cardinality(Points(u, {e})) > 0 /\ count'[e] = 0
                                     THEN NULL ELSE fcb[e]
  BY <1>1, <1>2 DEF LetGo
<1>6. /\ Counted(file', fcb', count', fcb_count')
      /\ \A e \in Desc : fcb'[e] # fcb[e] => fcb'[e] = NULL /\ Holders(file', {e}) = {}
  <2>1. Released(u, fcb, count, fcb_count, fcb', count', fcb_count')
    BY <1>3, <1>4, <1>5 DEF Released
  <2> QED BY <1>1, <2>1, LetGoRecounted
<1>7. position' = position
  BY DEF LetGo
<1>8. FTypeOK'
  BY <1>1, <1>3, <1>4, <1>5, <1>7 DEF FTypeOK, Moved
<1>9. PositionInFile'
  BY <1>6, <1>7 DEF FInv, PositionInFile
<1>10. Kept
  <2> SUFFICES ASSUME NEW e \in Desc, Holders(file', {e}) # {}
               PROVE  /\ fcb'[e] = fcb[e] /\ position'[e] >= position[e]
                      /\ position'[e] = position[e]
    BY DEF Kept, Held
  <2>1. fcb'[e] = fcb[e]
    BY <1>6
  <2> QED BY <1>1, <1>7, <2>1
<1> QED BY <1>6, <1>8, <1>9, <1>10 DEF FilesStep

\* close_file()
LEMMA CloseFileStep ==
  ASSUME ConstantsAssumption, FilesAssumption, FInv, CloseFile
  PROVE  FilesStep /\ Sound'
<1>1. InSyscall /\ current_process \in Slot /\ state[current_process] = "RUNNING"
  BY CallerRuns DEF CloseFile
<1>2. CASE Halt("fault") \/ Halt("put_fcb")
  BY <1>2, HaltStep
<1>3. ASSUME NEW i \in Fd, LetGo([j \in Fd |-> IF j = i THEN Here[i] ELSE NULL]),
             file' = [file EXCEPT ![current_process][i] = NULL], UNCHANGED vars
      PROVE  FilesStep /\ Sound'
  <2>1. PICK p \in Slot : p = current_process
    BY <1>1
  <2>2. file \in [Slot -> Table] /\ file[p] \in Table
    BY DEF FInv, FTypeOK
  <2>3. PICK u \in Table : u = [j \in Fd |-> IF j = i THEN Here[i] ELSE NULL]
    BY <2>1, <2>2 DEF Table, Here
  <2>4. PICK t \in Table : t = [file[p] EXCEPT ![i] = NULL]
    BY <2>2 DEF Table
  <2>5. Splits(file[p], t, u)
    <3>1. u[i] = file[p][i] /\ \A j \in Fd \ {i} : u[j] = NULL
      BY <2>1, <2>3 DEF Here
    <3>2. t[i] = NULL /\ \A j \in Fd \ {i} : t[j] = file[p][j]
      BY <2>2, <2>4 DEF Table
    <3>3. ASSUME NEW j \in Fd
          PROVE  (u[j] = file[p][j] /\ t[j] = NULL) \/ (u[j] = NULL /\ t[j] = file[p][j])
      <4>1. CASE j = i
        BY <3>1, <3>2, <4>1
      <4>2. CASE j # i
        BY <3>1, <3>2, <4>2
      <4> QED BY <4>1, <4>2
    <3> QED BY <3>3 DEF Splits
  <2>6. Moved(file, p, t, file')
    <3>1. file' = [file EXCEPT ![p] = t]
      BY <1>3, <2>1, <2>4
    <3> QED BY <2>2, <3>1 DEF Moved
  <2>7. FilesStep
    BY <1>3, <2>3, <2>5, <2>6, LetGoStep
  <2>8. Sound'
    BY <1>1, <1>3, <2>1, <2>6, SoundStays DEF Moved
  <2> QED BY <2>7, <2>8
<1> QED BY <1>2, <1>3 DEF CloseFile

\* schedule() frees no slot.
LEMMA SwitchFreesNone ==
  ASSUME NEW st \in [Slot -> States], NEW rl, Schedule(st, rl), NEW p \in Slot,
         state'[p] = "UNUSED"
  PROVE  st[p] = "UNUSED"
<1>1. PICK next : state' = [st EXCEPT ![next] = "RUNNING"]
  BY DEF Schedule
<1>2. CASE next = p
  BY <1>1, <1>2
<1>3. CASE next # p
  BY <1>1, <1>3
<1> QED BY <1>2, <1>3

\* A tick, an exit and a wait that blocks free no slot.
LEMMA OthersFreeNone ==
  ASSUME ConstantsAssumption, IInv, NEW p \in Slot, state'[p] = "UNUSED",
         TimerInterrupt \/ Exit \/ Sleep(ExitEvent)
  PROVE  state[p] = "UNUSED"
<1>1. /\ state \in [Slot -> States] /\ current_process \in Slot
      /\ TickEvent \in Event /\ ExitEvent \in Event
  BY DEF IInv, TypeOK, Event
<1>2. \A e \in Event : /\ WokenState(e) \in [Slot -> States]
                       /\ WokenState(e)[p] = "UNUSED" => state[p] = "UNUSED"
  BY <1>1 DEF WokenState, States
<1>3. CASE TimerInterrupt
  <2>1. CASE state' = WokenState(TickEvent)
    BY <1>1, <1>2, <2>1
  <2>2. ASSUME NEW st, st = [WokenState(TickEvent) EXCEPT ![current_process] = "READY"],
               NEW rl, Schedule(st, rl)
        PROVE  state[p] = "UNUSED"
    <3>1. st \in [Slot -> States] /\ (st[p] = "UNUSED" => WokenState(TickEvent)[p] = "UNUSED")
      BY <1>1, <1>2, <2>2 DEF States
    <3> QED BY <1>1, <1>2, <2>2, <3>1, SwitchFreesNone
  <2> QED BY <1>3, <2>1, <2>2 DEF TimerInterrupt, Yield
<1>4. CASE Exit
  <2>1. PICK st : /\ st = [WokenState(ExitEvent) EXCEPT ![current_process] = "KILLED"]
                  /\ Schedule(st, WokenReady(ExitEvent))
    BY <1>4 DEF Exit
  <2>2. st \in [Slot -> States] /\ (st[p] = "UNUSED" => WokenState(ExitEvent)[p] = "UNUSED")
    BY <1>1, <1>2, <2>1 DEF States
  <2> QED BY <1>1, <1>2, <2>1, <2>2, SwitchFreesNone
<1>5. CASE Sleep(ExitEvent)
  <2>1. PICK st : /\ st = [state EXCEPT ![current_process] = "SLEEP"]
                  /\ Schedule(st, ready_list)
    BY <1>5 DEF Sleep
  <2>2. st \in [Slot -> States] /\ (st[p] = "UNUSED" => state[p] = "UNUSED")
    BY <1>1, <2>1 DEF States
  <2> QED BY <2>1, <2>2, SwitchFreesNone
<1> QED BY <1>3, <1>4, <1>5

\* Steps of the core that leave the files alone and free no slot.
LEMMA CoreStep ==
  ASSUME ConstantsAssumption, FInv, panic = "none", [Next]_vars, UNCHANGED filevars,
         TimerInterrupt \/ Exit \/ Sleep(ExitEvent)
  PROVE  FilesStep /\ Sound'
<1>1. IInv /\ \A p \in Slot : state[p] = "UNUSED" => file[p] = EmptyTable
  BY DEF FInv, Sound
<1>2. IInv'
  BY <1>1, NextIInv
<1>3. \A p \in Slot : state'[p] = "UNUSED" => state[p] = "UNUSED"
  BY <1>1, OthersFreeNone
<1>4. file' = file
  BY DEF filevars
<1>5. Sound'
  BY <1>1, <1>2, <1>3, <1>4 DEF Sound
<1> QED BY <1>5, FilesUntouched

\* fork()
LEMMA FForkStep ==
  ASSUME ConstantsAssumption, FilesAssumption, FInv, FFork
  PROVE  FilesStep /\ Sound'
<1>1. /\ IInv /\ panic = "none" /\ current_process \in Slot
      /\ \A p \in Slot : state[p] = "UNUSED" => file[p] = EmptyTable
  BY CallerRuns DEF FFork, SysFork, FInv, Sound
<1>2. IInv'
  BY <1>1, NextIInv DEF FFork, Next
<1>3. CASE FreeSlots = {}
  <2>1. UNCHANGED filevars /\ panic' = "fork"
    BY <1>3 DEF FFork, SysFork
  <2>2. Sound'
    BY <2>1 DEF Sound
  <2> QED BY <2>1, <2>2, FilesUntouched
<1>4. CASE FreeSlots # {}
  <2>1. PICK n \in Slot : n = FirstFree /\ state[n] = "UNUSED" /\ file[n] = EmptyTable
    BY <1>1, <1>4, FirstFreeIsFree
  <2>2. /\ Share(n) /\ state' = [state EXCEPT ![n] = "READY"]
    BY <1>4, <2>1 DEF FFork, SysFork
  <2>3. PICK q \in Slot : q = current_process
    BY <1>1
  <2>4. /\ file \in [Slot -> Table] /\ fcb \in [Desc -> File \cup {NULL}]
        /\ position \in [Desc -> Nat] /\ count \in [Desc -> Int] /\ fcb_count \in [File -> Int]
        /\ Counted(file, fcb, count, fcb_count) /\ file[q] \in Table
    BY DEF FInv, FTypeOK
  <2>5. /\ \A d : RefsTo(file[q], d) = Cardinality(Points(file[q], {d}))
        /\ \A f : RefsToFile(file[q], f) = Cardinality(Points(file[q], EntriesOf(fcb, f)))
    BY <2>4, RefsArePoints
  <2>6. \A D : Cardinality(Points(file[q], D)) \in Nat
    BY FiniteHolders
  <2>7. Moved(file, n, file[q], file')
    BY <2>2, <2>3, <2>4 DEF Share, Here, Moved
  <2>8. /\ count' \in [Desc -> Int]
        /\ \A e \in Desc : count'[e] = count[e] + Cardinality(Points(file[q], {e}))
    <3>1. count' = [e \in Desc |-> count[e] + RefsTo(file[q], e)]
      BY <2>2, <2>3 DEF Share, Here
    <3>2. \A e : RefsTo(file[q], e) \in Nat
      BY <2>5, <2>6
    <3>3. count' \in [Desc -> Int]
      BY <2>4, <3>1, <3>2
    <3>4. \A e \in Desc : count'[e] = count[e] + RefsTo(file[q], e)
      BY <3>1
    <3> QED BY <2>5, <3>3, <3>4
  <2>9. /\ fcb_count' \in [File -> Int]
        /\ \A y \in File : fcb_count'[y] = fcb_count[y]
                             + Cardinality(Points(file[q], EntriesOf(fcb, y)))
    <3>1. fcb_count' = [y \in File |-> fcb_count[y] + RefsToFile(file[q], y)]
      BY <2>2, <2>3 DEF Share, Here
    <3>2. \A y : RefsToFile(file[q], y) \in Nat
      BY <2>5, <2>6
    <3>3. fcb_count' \in [File -> Int]
      BY <2>4, <3>1, <3>2
    <3>4. \A y \in File : fcb_count'[y] = fcb_count[y] + RefsToFile(file[q], y)
      BY <3>1
    <3> QED BY <2>5, <3>3, <3>4
  <2>10. fcb' = fcb /\ position' = position
    BY <2>2 DEF Share
  <2>11. Counted(file', fcb, count', fcb_count')
    <3>1. Acquired(file[q], fcb, count, fcb_count, count', fcb_count')
      BY <2>8, <2>9 DEF Acquired
    <3> QED BY <2>1, <2>4, <2>7, <3>1, ShareRecounted
  <2>12. FTypeOK'
    BY <2>4, <2>7, <2>8, <2>9, <2>10 DEF FTypeOK, Moved
  <2>13. PositionInFile'
    BY <2>10 DEF FInv, PositionInFile
  <2>14. Kept
    <3>1. \A e \in Desc : position[e] \in Nat
      BY <2>4
    <3> QED BY <2>10, <3>1 DEF Kept
  <2>15. \A p \in Slot : state'[p] = "UNUSED" => file'[p] = EmptyTable
    <3>1. state \in [Slot -> States]
      BY <1>1 DEF IInv, TypeOK
    <3> QED BY <1>1, <2>2, <2>7, <3>1 DEF Moved
  <2>16. Sound'
    BY <1>2, <2>15 DEF Sound
  <2> QED BY <2>10, <2>11, <2>12, <2>13, <2>14, <2>16 DEF FilesStep
<1> QED BY <1>3, <1>4

\* exec()
LEMMA ExecStep ==
  ASSUME ConstantsAssumption, FilesAssumption, FInv, Exec
  PROVE  FilesStep /\ Sound'
<1>1. CASE Exit /\ UNCHANGED filevars
  <2>1. panic = "none" /\ [Next]_vars
    BY <1>1 DEF Exit, InSyscall, UserMode, Next
  <2> QED BY <1>1, <2>1, CoreStep
<1>2. ASSUME NEW f, CanOpen(f),
             position' = [position EXCEPT ![Lowest(FreeDesc)] = FileSize[f]],
             UNCHANGED <<vars, file, fcb, count, fcb_count>>
      PROVE  FilesStep /\ Sound'
  <2>1. PICK d \in Desc : d = Lowest(FreeDesc) /\ fcb[d] = NULL
    <3>1. FreeDesc # {} /\ FreeDesc \subseteq Nat
      BY <1>2 DEF CanOpen, FreeDesc, FilesAssumption
    <3>2. Lowest(FreeDesc) \in FreeDesc
      BY <3>1, LowestIn
    <3> QED BY <3>2 DEF FreeDesc
  <2>2. f \in File /\ FileSize[f] \in Nat /\ position \in [Desc -> Nat]
    BY <1>2 DEF CanOpen, FilesAssumption, FInv, FTypeOK
  <2>3. /\ position' \in [Desc -> Nat]
        /\ \A e \in Desc \ {d} : position'[e] = position[e]
    BY <1>2, <2>1, <2>2
  <2>4. file' = file /\ fcb' = fcb /\ count' = count /\ fcb_count' = fcb_count /\ UNCHANGED vars
    BY <1>2
  <2>5. FTypeOK' /\ Counted(file', fcb', count', fcb_count')
    BY <2>3, <2>4 DEF FInv, FTypeOK
  <2>6. PositionInFile'
    BY <2>1, <2>3, <2>4 DEF FInv, PositionInFile
  <2>7. Kept
    <3>1. ~Held(file, d)
      BY <2>1 DEF FInv, Counted, Held
    <3>2. \A e \in Desc : position[e] \in Nat
      BY <2>2
    <3> QED BY <2>3, <2>4, <3>1, <3>2 DEF Kept
  <2>8. Sound'
    BY <2>4, SoundStays
  <2> QED BY <2>5, <2>6, <2>7, <2>8 DEF FilesStep
<1> QED BY <1>1, <1>2 DEF Exec

\* wait(): it sleeps, or it collects a corpse and lets go of its files.
LEMMA FWaitStep ==
  ASSUME ConstantsAssumption, FilesAssumption, FInv, FWait
  PROVE  FilesStep /\ Sound'
<1>1. panic = "none" /\ [Next]_vars /\ IInv
      /\ \A p \in Slot : state[p] = "UNUSED" => file[p] = EmptyTable
  <2>1. panic = "none" /\ [Next]_vars
    BY DEF FWait, SysWait, ResumeWait, InSyscall, UserMode, Resumed, Next
  <2> QED BY <2>1 DEF FInv, Sound
<1>2. IInv'
  BY <1>1, NextIInv
<1>3. PICK k : WaitLoop(k)
  BY DEF FWait, SysWait, ResumeWait
<1>4. CASE Sleep(ExitEvent) /\ kill_list' = kill_list
  <2>1. UNCHANGED filevars
    BY <1>4 DEF FWait
  <2> QED BY <1>1, <1>4, <2>1, CoreStep
<1>5. ASSUME NEW z \in kill_list, Reap(z)  PROVE FilesStep /\ Sound'
  <2>1. z \in Slot /\ kill_list' = kill_list \ {z} /\ state' = [state EXCEPT ![z] = "UNUSED"]
    BY <1>1, <1>5 DEF Reap, IInv, TypeOK
  <2>2. ReapFiles(z)
    <3>1. kill_list' \subseteq kill_list /\ kill_list' # kill_list /\ kill_list \ kill_list' = {z}
      BY <2>1
    <3> QED BY <3>1 DEF FWait
  <2>3. file \in [Slot -> Table] /\ file[z] \in Table /\ EmptyTable \in Table
    BY <2>1 DEF FInv, FTypeOK, Table, EmptyTable
  <2>4. Splits(file[z], EmptyTable, file[z])
    BY DEF Splits, EmptyTable
  <2>5. Moved(file, z, EmptyTable, file')
    <3>1. file' = [file EXCEPT ![z] = EmptyTable]
      BY <2>2 DEF ReapFiles, EmptyTable
    <3> QED BY <2>1, <2>3, <3>1 DEF Moved
  <2>6. FilesStep
    BY <2>1, <2>2, <2>3, <2>4, <2>5, LetGoStep DEF ReapFiles
  <2>7. \A p \in Slot : state'[p] = "UNUSED" => file'[p] = EmptyTable
    <3>1. state \in [Slot -> States]
      BY <1>1 DEF IInv, TypeOK
    <3> QED BY <1>1, <2>1, <2>5, <3>1 DEF Moved
  <2>8. Sound'
    BY <1>2, <2>7 DEF Sound
  <2> QED BY <2>6, <2>8
<1> QED BY <1>3, <1>4, <1>5 DEF WaitLoop

\* Every step.
LEMMA FNextStep ==
  ASSUME ConstantsAssumption, FilesAssumption, FInv, [FNext]_fvars
  PROVE  FInv' /\ Kept
<1>1. FilesStep /\ Sound'
  <2>1. CASE OpenFile
    BY <2>1, OpenFileStep
  <2>2. CASE ReadFile
    BY <2>2, ReadFileStep
  <2>3. CASE GetFileSize
    <3>1. CASE Halt("fault")
      BY <3>1, HaltStep
    <3>2. CASE UNCHANGED fvars
      <4>1. UNCHANGED vars /\ UNCHANGED filevars /\ file' = file
        BY <3>2 DEF fvars, filevars
      <4> QED BY <4>1, FilesUntouched, SoundStays
    <3> QED BY <2>3, <3>1, <3>2 DEF GetFileSize
  <2>4. CASE CloseFile
    BY <2>4, CloseFileStep
  <2>5. CASE FFork
    BY <2>5, FForkStep
  <2>6. CASE Exec
    BY <2>6, ExecStep
  <2>7. CASE FWait
    BY <2>7, FWaitStep
  <2>8. CASE (Exit \/ TimerInterrupt) /\ UNCHANGED filevars
    <3>1. panic = "none" /\ [Next]_vars
      BY <2>8 DEF Exit, InSyscall, TimerInterrupt, UserMode, Next
    <3> QED BY <2>8, <3>1, CoreStep
  <2>9. CASE (Stopped /\ UNCHANGED filevars) \/ UNCHANGED fvars
    <3>1. UNCHANGED vars /\ UNCHANGED filevars /\ file' = file
      BY <2>9 DEF Stopped, fvars, filevars
    <3> QED BY <3>1, FilesUntouched, SoundStays
  <2> QED BY <2>1, <2>2, <2>3, <2>4, <2>5, <2>6, <2>7, <2>8, <2>9 DEF FNext
<1> QED BY <1>1 DEF FilesStep, FInv

\* Nothing is open at first.
LEMMA FInitInv ==
  ASSUME ConstantsAssumption, FilesAssumption, FInit
  PROVE  FInv
<1>1. IInv
  BY InitIInv DEF FInit
<1>2. /\ file = [p \in Slot |-> EmptyTable] /\ EmptyTable \in Table
      /\ NULL \notin Desc /\ NULL \notin File
  BY DEF FInit, EmptyTable, Table, FilesAssumption
<1>3. FTypeOK
  <2>1. file \in [Slot -> Table]
    BY <1>2
  <2>2. fcb \in [Desc -> File \cup {NULL}]
    BY DEF FInit
  <2>3. position \in [Desc -> Nat] /\ count \in [Desc -> Int] /\ fcb_count \in [File -> Int]
    BY DEF FInit
  <2> QED BY <2>1, <2>2, <2>3 DEF FTypeOK
<1>4. ASSUME NEW D, NULL \notin D  PROVE Holders(file, D) = {}
  BY <1>2, <1>4 DEF Holders, EmptyTable
<1>5. Counted(file, fcb, count, fcb_count)
  <2>1. Cardinality({}) = 0
    BY FS_EmptySet
  <2>2. \A d \in Desc : Holders(file, {d}) = {}
    BY <1>2, <1>4
  <2>3. \A f \in File : Holders(file, EntriesOf(fcb, f)) = {}
    BY <1>2, <1>4 DEF EntriesOf
  <2> QED BY <2>1, <2>2, <2>3 DEF Counted, FInit
<1>6. PositionInFile
  BY DEF FInit, PositionInFile
<1>7. Sound
  BY <1>1, <1>2 DEF Sound
<1> QED BY <1>3, <1>5, <1>6, <1>7 DEF FInv

\* The inductive invariant holds in every reachable state.
THEOREM FilesInvariance == FSpec => []FInv
<1>1. FInit => FInv
  BY FInitInv, ConstantsAssumption, FilesAssumption
<1>2. FInv /\ [FNext]_fvars => FInv'
  BY FNextStep, ConstantsAssumption, FilesAssumption
<1> QED BY <1>1, <1>2, PTL DEF FSpec

\* The counts of file.c are the numbers of holders: fork, close, exec and the
\* wait() for a dead holder never free an entry in use and never leak one.
THEOREM CountsCorrect == FSpec => []CountsMatch
<1>1. FInv => CountsMatch
  <2> SUFFICES ASSUME FInv  PROVE CountsMatch
    OBVIOUS
  <2>1. \A d : References(d) = Holders(file, {d})
    BY DEF References, Holders
  <2>2. \A f : UNION {References(d) : d \in {x \in Desc : fcb[x] = f}}
                 = Holders(file, EntriesOf(fcb, f))
    BY DEF References, Holders, EntriesOf
  <2> QED BY <2>1, <2>2 DEF CountsMatch, FInv, Counted
<1> QED BY <1>1, FilesInvariance, PTL

\* No read of read_file() leaves a position behind the end of its file.
THEOREM PositionCorrect == FSpec => []PositionInFile
<1>1. FInv => PositionInFile
  BY DEF FInv
<1> QED BY <1>1, FilesInvariance, PTL

\* An entry with a holder before and after a step stays the same open file, and
\* only a read by a holder moves its position.
THEOREM OpenFilesStay == FSpec => OpenFileStays
<1> DEFINE Stays == \A d \in Desc : References(d) # {} /\ References(d)' # {} =>
                      /\ fcb'[d] = fcb[d]
                      /\ position'[d] >= position[d]
                      /\ position'[d] # position[d] => \E i \in Fd : Here[i] = d
<1>1. FInv /\ [FNext]_fvars => [Stays]_fvars
  <2>1. Kept => Stays
    BY DEF Kept, Held, Holders, References
  <2> QED BY <2>1, FNextStep, ConstantsAssumption, FilesAssumption
<1> QED BY <1>1, FilesInvariance, PTL DEF FSpec, OpenFileStays
=============================================================================
