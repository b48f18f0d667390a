----------------------------- MODULE FatProofs -----------------------------
(***************************************************************************)
(* Proofs about FatRead and Directory: a read in pieces of any size        *)
(* returns the right bytes, for every size of a cluster, every chain and   *)
(* every file on it; a path finds a file exactly if it spells its name,    *)
(* for every directory with well-formed names.                             *)
(***************************************************************************)
EXTENDS FatRead, SequenceTheorems, FiniteSetTheorems, WellFoundedInduction,
        TLAPS

(***************************************************************************)
(* The inductive invariant.                                                *)
(***************************************************************************)

\* Cluster number b of the file, or the mark behind its last one.
At(b) == IF b < Len(chain) THEN chain[b + 1] ELSE EOC

\* The file has just enough clusters, and its position lies in it.
FileOK ==
  /\ chain \in Seq(Cluster) /\ IsInjective(chain)
  /\ file_size \in Nat /\ file_size <= Len(chain) * CLUSTER_SIZE
  /\ chain # <<>> => (Len(chain) - 1) * CLUSTER_SIZE < file_size
  /\ position \in Nat /\ position <= file_size

Reading ==
  /\ size \in Nat /\ position + size <= file_size
  /\ read_size \in Nat /\ read_size <= size

\* Seeking: the clusters that have been passed and the turns that are left are
\* those in front of the position.
SeekOK ==
  /\ Reading /\ read_size = 0 /\ buffer = <<>> /\ left \in Nat
  /\ \E k \in Nat : k + left = position \div CLUSTER_SIZE /\ index = At(k)

\* Copying: everything has been read, or the next byte begins a cluster, and
\* that is where the chain has been followed to.
CopyOK ==
  /\ Reading /\ buffer = FileBytes(position, read_size)
  /\ \/ read_size = size
     \/ \E q \in Nat : position + read_size = q * CLUSTER_SIZE /\ index = At(q)

\* Loading: whole clusters have been read, and there is one more.
LoadOK ==
  /\ position = 0 /\ size = file_size
  /\ \E q \in Nat : /\ q < Len(chain)
                    /\ read_size = q * CLUSTER_SIZE
                    /\ index = At(q)
                    /\ buffer = FileBytes(0, read_size)

FInv ==
  /\ FileOK
  /\ pc = "search" => chain = <<>> /\ file_size = 0
  /\ pc = "seek" => SeekOK
  /\ pc = "copy" => CopyOK
  /\ pc = "load" => LoadOK
  /\ pc = "return" => Reading
  /\ RightBytes
  /\ SeekFailsOnlyAtEnd

-----------------------------------------------------------------------------
(***************************************************************************)
(* Arithmetic of clusters.                                                 *)
(***************************************************************************)

\* What is assumed of the size of a cluster.
LEMMA ClusterSize == CLUSTER_SIZE \in Nat /\ CLUSTER_SIZE > 0
BY FatAssumption

\* A product grows with its first factor.
LEMMA TimesMonotonic ==
  ASSUME NEW a \in Int, NEW b \in Int, NEW d \in Nat, a <= b
  PROVE  a * d <= b * d
<1>1. (b - a) * d >= 0
  OBVIOUS
<1>2. b * d = a * d + (b - a) * d
  OBVIOUS
<1> QED BY <1>1, <1>2

\* Byte r of cluster q.
LEMMA DivMod ==
  ASSUME NEW q \in Nat, NEW r \in Nat, r < CLUSTER_SIZE
  PROVE  /\ (q * CLUSTER_SIZE + r) \div CLUSTER_SIZE = q
         /\ (q * CLUSTER_SIZE + r) % CLUSTER_SIZE = r
BY ClusterSize

\* Every byte is some byte of some cluster.
LEMMA Split ==
  ASSUME NEW b \in Nat
  PROVE  /\ b \div CLUSTER_SIZE \in Nat /\ b % CLUSTER_SIZE \in Nat
         /\ b % CLUSTER_SIZE < CLUSTER_SIZE
         /\ b = (b \div CLUSTER_SIZE) * CLUSTER_SIZE + (b % CLUSTER_SIZE)
BY ClusterSize

-----------------------------------------------------------------------------
(***************************************************************************)
(* The chain and the bytes.                                                *)
(***************************************************************************)

\* A link leads from a cluster of the file to the next.
LEMMA NextCluster ==
  ASSUME FileOK, NEW q \in Nat, q < Len(chain)
  PROVE  get_cluster_value(At(q)) = At(q + 1)
<1>1. PICK n \in Nat : n = Len(chain) /\ DOMAIN chain = 1 .. n
  BY LenProperties DEF FileOK
<1>2. q + 1 \in DOMAIN chain /\ At(q) = chain[q + 1] /\ q < n
  BY <1>1 DEF At
<1>3. \A i \in DOMAIN chain : chain[i] = chain[q + 1] => i = q + 1
  BY <1>2 DEF FileOK, IsInjective
<1>4. (CHOOSE i \in DOMAIN chain : chain[i] = chain[q + 1]) = q + 1
  BY <1>2, <1>3
<1>5. get_cluster_value(chain[q + 1]) = IF q + 1 = n THEN EOC ELSE chain[q + 1 + 1]
  <2> DEFINE i == CHOOSE i \in DOMAIN chain : chain[i] = chain[q + 1]
  <2>1. get_cluster_value(chain[q + 1]) = IF i = Len(chain) THEN EOC ELSE chain[i + 1]
    BY DEF get_cluster_value
  <2> QED BY <1>1, <1>4, <2>1
<1>6. q + 1 < n <=> q + 1 # n
  BY <1>2
<1> QED BY <1>1, <1>2, <1>5, <1>6 DEF At

\* No cluster of a file has the number of the mark.
LEMMA ClusterIsNoMark ==
  ASSUME FileOK, NEW q \in Nat
  PROVE  At(q) # EOC <=> q < Len(chain)
<1>1. Len(chain) \in Nat /\ EOC \notin Cluster
  BY FatAssumption DEF FileOK, EOC
<1>2. q < Len(chain) => chain[q + 1] \in Cluster
  BY <1>1, ElementOfSeq DEF FileOK
<1> QED BY <1>1, <1>2 DEF At

\* The first cluster.
LEMMA FirstCluster ==
  ASSUME FileOK
  PROVE  first_cluster = At(0)
<1>1. Len(chain) \in Nat /\ (chain = <<>> <=> Len(chain) = 0)
  BY EmptySeq DEF FileOK
<1>2. chain # <<>> => Head(chain) = chain[1]
  BY DEF FileOK
<1> QED BY <1>1, <1>2 DEF first_cluster, At

\* A place inside the file is on one of its clusters.
LEMMA InsideFile ==
  ASSUME FileOK, NEW q \in Nat, q * CLUSTER_SIZE < file_size
  PROVE  q < Len(chain)
<1>1. Len(chain) \in Nat
  BY DEF FileOK
<1>2. q >= Len(chain) => Len(chain) * CLUSTER_SIZE <= q * CLUSTER_SIZE
  BY <1>1, ClusterSize, TimesMonotonic
<1>3. Len(chain) * CLUSTER_SIZE \in Nat /\ q * CLUSTER_SIZE \in Nat /\ file_size \in Nat
  BY <1>1, ClusterSize DEF FileOK
<1> QED BY <1>1, <1>2, <1>3 DEF FileOK

\* A sequence made of two.
Parts(s, n, t, m, u, T) ==
  /\ s \in [1 .. n -> T] /\ \A k \in 1 .. n : s[k] = u[k]
  /\ t \in [1 .. m -> T] /\ \A k \in 1 .. m : t[k] = u[n + k]
  /\ u \in [1 .. n + m -> T]

\* A sequence given element by element in two parts is their concatenation.
LEMMA TwoParts ==
  ASSUME NEW n \in Nat, NEW m \in Nat, NEW T, NEW s, NEW t, NEW u,
         Parts(s, n, t, m, u, T)
  PROVE  s \o t = u
<1> USE DEF Parts
<1>1. /\ s \in Seq(T) /\ Len(s) = n
      /\ t \in Seq(T) /\ Len(t) = m
      /\ u \in Seq(T) /\ Len(u) = n + m
  OBVIOUS
<1>2. /\ s \o t \in Seq(T) /\ Len(s \o t) = n + m
      /\ \A k \in 1 .. n + m : (s \o t)[k] = IF k <= n THEN s[k] ELSE t[k - n]
  BY <1>1, ConcatProperties
<1> DEFINE v == s \o t
<1>3. ASSUME NEW k \in 1 .. n + m  PROVE v[k] = u[k]
  <2>1. v[k] = IF k <= n THEN s[k] ELSE t[k - n]
    BY <1>2
  <2> HIDE DEF v
  <2>2. CASE k <= n
    <3>1. k \in 1 .. n
      BY <2>2
    <3> QED BY <2>1, <2>2, <3>1
  <2>3. CASE ~(k <= n)
    <3>1. k - n \in 1 .. m /\ n + (k - n) = k
      BY <2>3
    <3>2. t[k - n] = u[n + (k - n)]
      BY <3>1
    <3> QED BY <2>1, <2>3, <3>1, <3>2
  <2> QED BY <2>2, <2>3
<1> QED BY <1>1, <1>2, <1>3, SeqEqual

\* Nothing in front of them.
LEMMA NothingBefore ==
  ASSUME NEW c, NEW r \in Nat, NEW n \in Nat
  PROVE  <<>> \o Bytes(c, r, n) = Bytes(c, r, n)
<1>1. Bytes(c, r, n) \in [1 .. n -> {c} \X Int]
  BY DEF Bytes
<1>2. Bytes(c, r, n) \in Seq({c} \X Int)
  BY <1>1, SeqDef
<1> QED BY <1>2, ConcatEmptySeq

\* Bytes of one cluster behind bytes of the file that end where they begin.
Joins(from, n, m, q, r) ==
  /\ from \in Nat /\ n \in Nat /\ m \in Nat /\ q \in Nat /\ r \in Nat
  /\ q < Len(chain) /\ from + n = q * CLUSTER_SIZE + r /\ r + m <= CLUSTER_SIZE

\* The bytes of two reads, one behind the other, are those of one read.
LEMMA BytesJoin ==
  ASSUME FileOK, NEW from, NEW n, NEW m, NEW q, NEW r, Joins(from, n, m, q, r)
  PROVE  FileBytes(from, n) \o Bytes(At(q), r, m) = FileBytes(from, n + m)
<1> USE DEF Joins
<1> DEFINE Byte(b) == <<chain[b \div CLUSTER_SIZE + 1], b % CLUSTER_SIZE>>
           s == FileBytes(from, n)
           t == Bytes(At(q), r, m)
           u == FileBytes(from, n + m)
<1>1. /\ s = [k \in 1 .. n |-> Byte(from + k - 1)]
      /\ u = [k \in 1 .. n + m |-> Byte(from + k - 1)]
      /\ t = [k \in 1 .. m |-> <<At(q), r + k - 1>>]
  BY DEF FileBytes, Bytes
<1>2. ASSUME NEW k \in 1 .. m  PROVE <<At(q), r + k - 1>> = u[n + k]
  <2>1. r + k - 1 \in Nat /\ r + k - 1 < CLUSTER_SIZE
    BY ClusterSize
  <2>2. PICK e \in Nat : e = q * CLUSTER_SIZE
    BY ClusterSize
  <2>3. from + (n + k) - 1 = q * CLUSTER_SIZE + (r + k - 1)
    BY <2>2
  <2>4. Byte(from + (n + k) - 1) = <<chain[q + 1], r + k - 1>>
    BY <2>1, <2>3, DivMod
  <2>5. u[n + k] = Byte(from + (n + k) - 1)
    <3>1. n + k \in 1 .. n + m
      OBVIOUS
    <3> QED BY <1>1, <3>1
  <2> QED BY <2>4, <2>5 DEF At
<1>3. \A k \in 1 .. n : k \in 1 .. n + m
  OBVIOUS
<1>4. \A k \in 1 .. m : n + k \in 1 .. n + m
  OBVIOUS
<1>5. DOMAIN s = 1 .. n /\ \A k \in 1 .. n : s[k] = u[k]
  BY <1>1, <1>3
<1>6. DOMAIN t = 1 .. m /\ \A k \in 1 .. m : t[k] = u[n + k]
  BY <1>1, <1>2
<1>7. DOMAIN u = 1 .. n + m /\ u = [k \in DOMAIN u |-> u[k]]
      /\ s = [k \in DOMAIN s |-> s[k]] /\ t = [k \in DOMAIN t |-> t[k]]
  BY <1>1
<1> DEFINE T == {u[k] : k \in 1 .. n + m}
<1> HIDE DEF s, t, u
<1>8. s \in [1 .. n -> T] /\ t \in [1 .. m -> T] /\ u \in [1 .. n + m -> T]
  BY <1>3, <1>4, <1>5, <1>6, <1>7
<1> HIDE DEF T
<1>9. Parts(s, n, t, m, u, T)
  BY <1>5, <1>6, <1>8, Zenon DEF Parts
<1>10. s \o t = u
  BY <1>9, TwoParts
<1> QED BY <1>10 DEF s, t, u

-----------------------------------------------------------------------------
(***************************************************************************)
(* Finding a file: a path is split into the name and the extension of an   *)
(* entry exactly when it spells them.                                      *)
(***************************************************************************)

\* A scan of a table from index 0 upwards stops at the lowest index that fits.
LEMMA LeastElement ==
  ASSUME NEW T, T \subseteq Nat, T # {}
  PROVE  \E x \in T : \A y \in T : x <= y
<1> DEFINE R == OpToRel(<, Nat)
<1>1. IsWellFoundedOn(R, Nat)
  BY NatLessThanWellFounded
<1>2. \A x, y \in Nat : <<y, x>> \in R <=> y < x
  BY DEF OpToRel
<1> HIDE DEF R
<1>3. PICK x \in T : \A y \in T : ~ (<<y, x>> \in R)
  BY <1>1, WFMin
<1>4. \A y \in T : ~ (y < x)
  BY <1>2, <1>3
<1>5. \A y \in T : x <= y
  BY <1>4
<1> QED BY <1>5

\* A set of numbers up to n has a greatest element: the bounds of the set have
\* a least one.
LEMMA Greatest ==
  ASSUME NEW n \in Nat, NEW S, S \subseteq 0 .. n, S # {}
  PROVE  Max(S) \in S /\ \A x \in S : x <= Max(S)
<1> DEFINE B == {b \in Nat : \A x \in S : x <= b}
<1>1. B \subseteq Nat /\ n \in B
  OBVIOUS
<1>2. PICK b \in B : \A c \in B : b <= c
  BY <1>1, LeastElement
<1>3. b \in S
  <2> SUFFICES ASSUME b \notin S  PROVE FALSE
    OBVIOUS
  <2>1. PICK x \in S : x \in Nat /\ x <= b
    <3>1. PICK x : x \in S
      OBVIOUS
    <3> QED BY <1>2, <3>1
  <2>2. b - 1 \in Nat
    BY <1>2, <2>1
  <2>3. \A y \in S : y <= b - 1
    BY <1>2
  <2>4. b - 1 \in B
    BY <2>2, <2>3
  <2> QED BY <1>2, <2>2, <2>4
<1>4. \A x \in S : b >= x
  BY <1>2
<1> QED BY <1>3, <1>4 DEF Max

\* How far the loop for a field goes: to the first of the stops, to the end of
\* the field or to the end of the path.
LEMMA TakenIs ==
  ASSUME NEW s \in Seq(STRING), NEW n \in Nat, NEW stops
  PROVE  LET t == Taken(s, n, stops)
         IN  /\ t \in Nat /\ t <= n /\ t <= Len(s)
             /\ \A k \in 1 .. t : s[k] \notin stops
             /\ t = n \/ t = Len(s) \/ s[t + 1] \in stops
<1> DEFINE K == {k \in DOMAIN s : s[k] \in stops}
           S == {n} \cup {k - 1 : k \in K} \cup {Len(s)}
           t == Taken(s, n, stops)
<1>1. Len(s) \in Nat /\ DOMAIN s = 1 .. Len(s)
  BY LenProperties
<1>2. S \subseteq Nat /\ n \in S /\ Len(s) \in S
  BY <1>1
<1>3. t \in S /\ \A x \in S : t <= x
  <2> HIDE DEF S
  <2>1. \E x \in S : \A y \in S : x <= y
    BY <1>2, LeastElement
  <2>2. t = CHOOSE x \in S : \A y \in S : x =< y
    BY DEF Taken, Min, S
  <2> HIDE DEF t
  <2> QED BY <2>1, <2>2
<1> HIDE DEF t
<1>4. t \in Nat /\ t <= n /\ t <= Len(s)
  BY <1>2, <1>3
<1>5. ASSUME NEW k \in 1 .. t  PROVE s[k] \notin stops
  <2> SUFFICES ASSUME s[k] \in stops  PROVE FALSE
    OBVIOUS
  <2>1. k \in K
    BY <1>1, <1>4
  <2>2. t <= k - 1
    BY <1>3, <2>1
  <2> QED BY <1>4, <2>2
<1>6. t = n \/ t = Len(s) \/ s[t + 1] \in stops
  <2> SUFFICES ASSUME t # n, t # Len(s)  PROVE s[t + 1] \in stops
    OBVIOUS
  <2>1. PICK k \in K : t = k - 1
    BY <1>3
  <2>2. t + 1 = k
    BY <1>1, <2>1
  <2> QED BY <2>1, <2>2
<1> QED BY <1>4, <1>5, <1>6 DEF t

\* What is left of a field without the spaces it is padded with.
LEMMA TrimIs ==
  ASSUME NEW field \in Seq(STRING)
  PROVE  LET m == Len(Trim(field))
         IN  /\ Trim(field) \in Seq(STRING) /\ m \in 0 .. Len(field)
             /\ m # 0 => field[m] # Space
             /\ \A k \in DOMAIN field : k > m => field[k] = Space
<1> DEFINE S == {0} \cup {k \in DOMAIN field : field[k] # Space}
           m == Max(S)
<1>1. Len(field) \in Nat /\ DOMAIN field = 1 .. Len(field)
  BY LenProperties
<1>2. S \subseteq 0 .. Len(field) /\ S # {}
  BY <1>1
<1>3. m \in S /\ \A x \in S : x <= m
  <2> HIDE DEF S
  <2> QED BY <1>1, <1>2, Greatest
<1>4. Trim(field) = SubSeq(field, 1, m)
  BY DEF Trim
<1> HIDE DEF m
<1>5. m \in 0 .. Len(field)
  BY <1>2, <1>3
<1>6. Len(Trim(field)) = m /\ Trim(field) \in Seq(STRING)
  <2>1. \A i \in 1 .. m : field[i] \in STRING
    BY <1>1, <1>5, ElementOfSeq
  <2>2. /\ Len(SubSeq(field, 1, m)) = IF 1 <= m THEN m - 1 + 1 ELSE 0
        /\ SubSeq(field, 1, m) \in Seq(STRING)
    BY <1>5, <2>1, SubSeqProperties
  <2> QED BY <1>4, <1>5, <2>2
<1>7. m # 0 => field[m] # Space
  BY <1>3
<1>8. ASSUME NEW k \in DOMAIN field, k > m  PROVE field[k] = Space
  <2> SUFFICES ASSUME field[k] # Space  PROVE FALSE
    OBVIOUS
  <2>1. k \in S /\ k \in Nat
    BY <1>1
  <2>2. k <= m
    BY <1>3, <2>1
  <2> QED BY <1>5, <1>8, <2>1, <2>2
<1> QED BY <1>5, <1>6, <1>7, <1>8

\* A padded field has its full length.
LEMMA PadIsSeq ==
  ASSUME NEW base \in Seq(STRING), NEW n \in Nat
  PROVE  Pad(base, n) \in Seq(STRING \cup {Space}) /\ Len(Pad(base, n)) = n
<1>1. \A k \in 1 .. n : k <= Len(base) => base[k] \in STRING
  BY ElementOfSeq
<1>2. Pad(base, n) \in [1 .. n -> STRING \cup {Space}]
  BY <1>1 DEF Pad
<1> QED BY <1>2

\* What a loop takes, padded again, is the field if and only if the field is
\* filled in so far.
LEMMA FillingIs ==
  ASSUME NEW field \in Seq(STRING), NEW n \in Nat, Len(field) = n, NEW base \in Seq(STRING)
  PROVE  base \in Fillings(field) <=> Len(base) <= n /\ Pad(base, n) = field
<1> DEFINE m == Len(Trim(field))
<1>1. Len(base) \in Nat /\ DOMAIN base = 1 .. Len(base) /\ DOMAIN field = 1 .. n
  BY LenProperties
<1>2. /\ m \in 0 .. n /\ (m # 0 => field[m] # Space)
      /\ \A k \in 1 .. n : k > m => field[k] = Space
  BY <1>1, TrimIs
<1> HIDE DEF m
<1>3. /\ DOMAIN Pad(base, n) = 1 .. n
      /\ \A k \in 1 .. n : Pad(base, n)[k] = IF k <= Len(base) THEN base[k] ELSE Space
  BY DEF Pad
<1>4. ASSUME base \in Fillings(field)  PROVE Len(base) <= n /\ Pad(base, n) = field
  <2>1. PICK j \in m .. n : base = SubSeq(field, 1, j)
    BY <1>4 DEF Fillings, m
  <2>2. j \in 0 .. n
    BY <1>2
  <2>3. Len(base) = j /\ \A k \in 1 .. j : base[k] = field[k]
    <3>1. \A i \in 1 .. j : field[i] \in STRING
      BY <2>2, ElementOfSeq
    <3>2. /\ Len(SubSeq(field, 1, j)) = IF 1 <= j THEN j - 1 + 1 ELSE 0
          /\ \A i \in 1 .. j - 1 + 1 : SubSeq(field, 1, j)[i] = field[1 + i - 1]
      BY <2>2, <3>1, SubSeqProperties
    <3>3. \A k \in 1 .. j : k \in 1 .. j - 1 + 1 /\ 1 + k - 1 = k
      BY <2>2
    <3> QED BY <2>1, <2>2, <3>2, <3>3
  <2>4. \A k \in 1 .. n : Pad(base, n)[k] = field[k]
    BY <1>2, <1>3, <2>1, <2>2, <2>3
  <2>5. Pad(base, n) = field
    <3>1. field \in Seq(STRING \cup {Space})
      BY SeqMonotonic
    <3>2. Pad(base, n) \in Seq(STRING \cup {Space}) /\ Len(Pad(base, n)) = n
      BY PadIsSeq
    <3> QED BY <2>4, <3>1, <3>2, SeqEqual
  <2> QED BY <2>2, <2>3, <2>5
<1>5. ASSUME Len(base) <= n, Pad(base, n) = field  PROVE base \in Fillings(field)
  <2> DEFINE j == Len(base)
  <2>1. m <= j
    BY <1>1, <1>2, <1>3, <1>5
  <2>2. j \in m .. n
    BY <1>1, <1>2, <1>5, <2>1
  <2>3. base = SubSeq(field, 1, j)
    <3>1. \A i \in 1 .. j : field[i] \in STRING
      BY <1>1, <1>5, ElementOfSeq
    <3>2. /\ SubSeq(field, 1, j) \in Seq(STRING)
          /\ Len(SubSeq(field, 1, j)) = IF 1 <= j THEN j - 1 + 1 ELSE 0
          /\ \A i \in 1 .. j - 1 + 1 : SubSeq(field, 1, j)[i] = field[1 + i - 1]
      BY <1>1, <3>1, SubSeqProperties
    <3>3. \A k \in 1 .. j : k \in 1 .. j - 1 + 1 /\ 1 + k - 1 = k /\ k \in 1 .. n /\ k <= j
      BY <1>1, <1>5
    <3>4. \A k \in 1 .. j : SubSeq(field, 1, j)[k] = base[k]
      BY <1>3, <1>5, <3>2, <3>3
    <3>5. Len(SubSeq(field, 1, j)) = j
      BY <1>1, <3>2
    <3> QED BY <3>2, <3>4, <3>5, SeqEqual
  <2> QED BY <2>2, <2>3 DEF Fillings, m
<1> QED BY <1>4, <1>5

\* The front and the rest of a path.
LEMMA FrontOf ==
  ASSUME NEW p \in Seq(STRING), NEW n \in 0 .. Len(p)
  PROVE  LET b == SubSeq(p, 1, n)
         IN  b \in Seq(STRING) /\ Len(b) = n /\ \A k \in 1 .. n : b[k] = p[k]
<1>1. Len(p) \in Nat
  BY LenProperties
<1>2. \A i \in 1 .. n : p[i] \in STRING
  BY <1>1, ElementOfSeq
<1>3. /\ SubSeq(p, 1, n) \in Seq(STRING)
      /\ Len(SubSeq(p, 1, n)) = IF 1 <= n THEN n - 1 + 1 ELSE 0
      /\ \A i \in 1 .. n - 1 + 1 : SubSeq(p, 1, n)[i] = p[1 + i - 1]
  BY <1>1, <1>2, SubSeqProperties
<1>4. n \in Nat /\ \A k \in 1 .. n : k \in 1 .. n - 1 + 1 /\ 1 + k - 1 = k
  BY <1>1
<1> QED BY <1>3, <1>4

\* The rest of a path behind its front.
LEMMA RestOf ==
  ASSUME NEW p \in Seq(STRING), NEW n \in 0 .. Len(p)
  PROVE  LET r == SubSeq(p, n + 1, Len(p))
         IN  /\ r \in Seq(STRING) /\ Len(r) = Len(p) - n
             /\ \A k \in 1 .. Len(p) - n : r[k] = p[n + k]
<1> DEFINE l == Len(p)
<1>1. l \in Nat
  BY LenProperties
<1>2. \A i \in n + 1 .. l : p[i] \in STRING
  BY <1>1, ElementOfSeq
<1> HIDE DEF l
<1>3. /\ SubSeq(p, n + 1, l) \in Seq(STRING)
      /\ Len(SubSeq(p, n + 1, l)) = IF n + 1 <= l THEN l - (n + 1) + 1 ELSE 0
      /\ \A i \in 1 .. l - (n + 1) + 1 : SubSeq(p, n + 1, l)[i] = p[n + 1 + i - 1]
  <2>1. n + 1 \in Int /\ l \in Int
    BY <1>1 DEF l
  <2> QED BY <1>2, <2>1, SubSeqProperties
<1>4. n \in Nat /\ n <= l
  BY <1>1 DEF l
<1>5. \A k \in 1 .. l - n : k \in 1 .. l - (n + 1) + 1 /\ n + 1 + k - 1 = n + k
  BY <1>1, <1>4
<1>6. (IF n + 1 <= l THEN l - (n + 1) + 1 ELSE 0) = l - n
  BY <1>1, <1>4
<1>7. \A k \in 1 .. l - n : SubSeq(p, n + 1, l)[k] = p[n + k]
  BY <1>3, <1>5
<1> QED BY <1>3, <1>6, <1>7 DEF l

\* What the two loops of split_path() find in path p: the first stops at
\* character n and has taken b; r is what the second one starts with, of which
\* it takes x.
SplitsInto(p, n, b, r, x) ==
  /\ n \in Nat /\ n <= NAME_LENGTH /\ n <= Len(p)
  /\ b \in Seq(STRING) /\ Len(b) = n /\ \A k \in 1 .. n : b[k] = p[k] /\ p[k] # Dot
  /\ n = NAME_LENGTH \/ n = Len(p) \/ p[n + 1] = Dot
  /\ r \in Seq(STRING) /\ x \in Seq(STRING)
  /\ IF n < Len(p) /\ p[n + 1] = Dot
       THEN /\ Len(r) = Len(p) - (n + 1)
            /\ \A k \in 1 .. Len(r) : r[k] = p[n + 1 + k]
            /\ Len(x) <= EXT_LENGTH /\ (Len(x) = EXT_LENGTH \/ Len(x) = Len(r))
       ELSE Len(r) = Len(p) - n /\ Len(x) = 0
  /\ Len(x) <= Len(r) /\ \A k \in 1 .. Len(x) : x[k] = r[k]

LEMMA SplitIs ==
  ASSUME NEW p \in Seq(STRING)
  PROVE  \E n, b, r, x :
           /\ SplitsInto(p, n, b, r, x)
           /\ split_path(p) = IF Len(x) < Len(r) THEN Refused ELSE Accepted(b, x)
<1> DEFINE n == Taken(p, NAME_LENGTH, {Dot})
           dotted == n < Len(p) /\ p[n + 1] = Dot
           r == SubSeq(p, IF dotted THEN n + 2 ELSE n + 1, Len(p))
           e == IF dotted THEN Taken(r, EXT_LENGTH, {}) ELSE 0
           b == SubSeq(p, 1, n)
           x == SubSeq(r, 1, e)
<1>1. Len(p) \in Nat /\ NAME_LENGTH \in Nat /\ EXT_LENGTH \in Nat
  BY LenProperties, DirectoryAssumption
<1>2. /\ n \in Nat /\ n <= NAME_LENGTH /\ n <= Len(p)
      /\ \A k \in 1 .. n : p[k] # Dot
      /\ n = NAME_LENGTH \/ n = Len(p) \/ p[n + 1] = Dot
  BY <1>1, TakenIs
<1>3. split_path(p) = IF e < Len(r) THEN Refused ELSE Accepted(b, x)
  BY DEF split_path
<1> HIDE DEF n
<1>4. b \in Seq(STRING) /\ Len(b) = n /\ \A k \in 1 .. n : b[k] = p[k]
  BY <1>1, <1>2, FrontOf
<1>5. CASE dotted
  <2>1. n + 1 \in 0 .. Len(p) /\ n + 1 + 1 = n + 2
    BY <1>1, <1>2, <1>5
  <2>2. r = SubSeq(p, n + 1 + 1, Len(p))
    BY <1>5, <2>1
  <2>3. /\ r \in Seq(STRING) /\ Len(r) = Len(p) - (n + 1)
        /\ \A k \in 1 .. Len(p) - (n + 1) : r[k] = p[n + 1 + k]
    BY <2>1, <2>2, RestOf
  <2>4. e = Taken(r, EXT_LENGTH, {})
    BY <1>5
  <2> HIDE DEF r, e
  <2>5. e \in Nat /\ e <= EXT_LENGTH /\ e <= Len(r) /\ (e = EXT_LENGTH \/ e = Len(r))
    BY <1>1, <2>3, <2>4, TakenIs
  <2>6. x \in Seq(STRING) /\ Len(x) = e /\ \A k \in 1 .. e : x[k] = r[k]
    <3>1. e \in 0 .. Len(r)
      BY <1>1, <1>2, <2>3, <2>5
    <3> QED BY <2>3, <3>1, FrontOf
  <2> HIDE DEF b, x
  <2>7. SplitsInto(p, n, b, r, x)
    BY <1>2, <1>4, <1>5, <2>3, <2>5, <2>6 DEF SplitsInto
  <2> QED BY <1>3, <2>6, <2>7
<1>6. CASE ~dotted
  <2>1. r = SubSeq(p, n + 1, Len(p)) /\ e = 0
    BY <1>6
  <2>2. /\ r \in Seq(STRING) /\ Len(r) = Len(p) - n
    BY <1>1, <1>2, <2>1, RestOf
  <2> HIDE DEF r, e
  <2>3. x \in Seq(STRING) /\ Len(x) = e /\ \A k \in 1 .. e : x[k] = r[k]
    <3>1. e \in 0 .. Len(r)
      BY <1>1, <1>2, <2>1, <2>2
    <3> QED BY <2>2, <3>1, FrontOf
  <2> HIDE DEF b, x
  <2>4. Len(x) <= Len(r)
    BY <1>1, <1>2, <2>1, <2>2, <2>3
  <2>5. SplitsInto(p, n, b, r, x)
    BY <1>2, <1>4, <1>6, <2>1, <2>2, <2>3, <2>4 DEF SplitsInto
  <2> QED BY <1>3, <2>3, <2>5
<1> QED BY <1>5, <1>6

\* A filled-in field is the front of the field.
LEMMA FillingFront ==
  ASSUME NEW field \in Seq(STRING), NEW base \in Fillings(field)
  PROVE  /\ base \in Seq(STRING) /\ Len(base) <= Len(field)
         /\ \A k \in 1 .. Len(base) : base[k] \in Range(field)
<1>1. Len(field) \in Nat /\ DOMAIN field = 1 .. Len(field)
  BY LenProperties
<1>2. Len(Trim(field)) \in 0 .. Len(field)
  BY TrimIs
<1>3. PICK j \in Len(Trim(field)) .. Len(field) : base = SubSeq(field, 1, j)
  BY DEF Fillings
<1>4. j \in 0 .. Len(field)
  BY <1>1, <1>2
<1>5. base \in Seq(STRING) /\ Len(base) = j /\ \A k \in 1 .. j : base[k] = field[k]
  BY <1>3, <1>4, FrontOf
<1> QED BY <1>1, <1>4, <1>5 DEF Range

\* A name, a dot and an extension.
LEMMA DottedIs ==
  ASSUME NEW base \in Seq(STRING), NEW ext \in Seq(STRING)
  PROVE  LET p == Dotted(base, ext)
         IN  /\ p \in Seq(STRING \cup {Dot}) /\ Len(p) = Len(base) + 1 + Len(ext)
             /\ \A k \in 1 .. Len(base) : p[k] = base[k]
             /\ p[Len(base) + 1] = Dot
             /\ \A k \in 1 .. Len(ext) : p[Len(base) + 1 + k] = ext[k]
<1> DEFINE T == STRING \cup {Dot}
           h == base \o <<Dot>>
           p == h \o ext
<1>1. base \in Seq(T) /\ ext \in Seq(T) /\ <<Dot>> \in Seq(T) /\ Len(<<Dot>>) = 1 /\ <<Dot>>[1] = Dot
  BY SeqMonotonic
<1>2. Len(base) \in Nat /\ Len(ext) \in Nat
  BY LenProperties
<1>3. /\ h \in Seq(T) /\ Len(h) = Len(base) + 1
      /\ \A i \in 1 .. Len(base) + 1 : h[i] = IF i <= Len(base) THEN base[i] ELSE <<Dot>>[i - Len(base)]
  BY <1>1, ConcatProperties
<1> HIDE DEF h, T
<1>4. /\ p \in Seq(T) /\ Len(p) = Len(h) + Len(ext)
      /\ \A i \in 1 .. Len(h) + Len(ext) : p[i] = IF i <= Len(h) THEN h[i] ELSE ext[i - Len(h)]
  <2>1. h \in Seq(T) /\ ext \in Seq(T)
    BY <1>1, <1>3
  <2> QED BY ONLY <2>1, ConcatProperties
<1> HIDE DEF p
<1>5. ASSUME NEW k \in 1 .. Len(base)  PROVE p[k] = base[k]
  <2>1. k \in 1 .. Len(base) + 1 /\ k \in 1 .. Len(h) + Len(ext) /\ k <= Len(h) /\ k <= Len(base)
    BY <1>2, <1>3
  <2> QED BY <1>3, <1>4, <2>1
<1>6. p[Len(base) + 1] = Dot
  <2> DEFINE k == Len(base) + 1
  <2>1. k \in 1 .. Len(base) + 1 /\ k \in 1 .. Len(h) + Len(ext) /\ k <= Len(h)
        /\ ~(k <= Len(base)) /\ k - Len(base) = 1
    BY <1>2, <1>3
  <2> HIDE DEF k
  <2> QED BY <1>1, <1>3, <1>4, <2>1 DEF k
<1>7. ASSUME NEW k \in 1 .. Len(ext)  PROVE p[Len(base) + 1 + k] = ext[k]
  <2> DEFINE i == Len(base) + 1 + k
  <2>1. i \in 1 .. Len(h) + Len(ext) /\ ~(i <= Len(h)) /\ i - Len(h) = k
    BY <1>2, <1>3
  <2> HIDE DEF i
  <2> QED BY <1>4, <2>1 DEF i
<1> QED BY <1>3, <1>4, <1>5, <1>6, <1>7 DEF p, h, T, Dotted

\* An extension of nothing but spaces.
LEMMA NoExtension ==
  ASSUME NEW ext \in Seq(STRING), NEW n \in Nat, Len(ext) = n
  PROVE  Trim(ext) = <<>> <=> Pad(<<>>, n) = ext
<1>1. /\ Trim(ext) \in Seq(STRING) /\ Len(Trim(ext)) \in 0 .. n
  BY TrimIs
<1>2. Trim(ext) = <<>> <=> Len(Trim(ext)) = 0
  BY <1>1, EmptySeq
<1>3. <<>> \in Seq(STRING) /\ Len(<<>>) = 0
  BY EmptySeq
<1>4. <<>> \in Fillings(ext) <=> Pad(<<>>, n) = ext
  <2>1. PICK z : z = <<>>
    OBVIOUS
  <2>2. z \in Seq(STRING) /\ Len(z) = 0
    BY <1>3, <2>1
  <2>3. z \in Fillings(ext) <=> Len(z) <= n /\ Pad(z, n) = ext
    BY <2>2, FillingIs
  <2> QED BY <2>1, <2>2, <2>3
<1>5. Len(Trim(ext)) = 0 => <<>> \in Fillings(ext)
  <2>1. 0 \in 0 .. Len(ext) /\ SubSeq(ext, 1, 0) = <<>>
    <3>1. Len(SubSeq(ext, 1, 0)) = 0 /\ SubSeq(ext, 1, 0) \in Seq(STRING)
      BY FrontOf
    <3> QED BY <3>1, EmptySeq
  <2> QED BY <2>1 DEF Fillings
<1>6. <<>> \in Fillings(ext) => Len(Trim(ext)) = 0
  <2> SUFFICES ASSUME <<>> \in Fillings(ext)  PROVE Len(Trim(ext)) = 0
    OBVIOUS
  <2>1. PICK j \in Len(Trim(ext)) .. Len(ext) : <<>> = SubSeq(ext, 1, j)
    BY DEF Fillings
  <2>2. j \in 0 .. Len(ext)
    BY <1>1
  <2>3. Len(SubSeq(ext, 1, j)) = j
    BY <2>2, FrontOf
  <2>4. j = 0
    BY <1>3, <2>1, <2>3
  <2> QED BY <1>1, <2>4
<1> QED BY <1>2, <1>4, <1>5, <1>6

\* A path that is accepted spells the entry.
LEMMA AcceptedSpells ==
  ASSUME NEW en, FieldsOK(en), NEW p \in Seq(STRING), NEW n, NEW b, NEW r, NEW x,
         SplitsInto(p, n, b, r, x), Len(r) <= Len(x),
         Pad(b, NAME_LENGTH) = en.name, Pad(x, EXT_LENGTH) = en.ext
  PROVE  p \in Spellings(en)
<1>1. /\ Len(p) \in Nat /\ Len(x) \in Nat /\ Len(r) \in Nat
      /\ NAME_LENGTH \in Nat /\ EXT_LENGTH \in Nat
  BY LenProperties, DirectoryAssumption DEF SplitsInto
<1>2. /\ n \in Nat /\ n <= NAME_LENGTH /\ n <= Len(p)
      /\ b \in Seq(STRING) /\ Len(b) = n /\ \A k \in 1 .. n : b[k] = p[k]
      /\ x \in Seq(STRING) /\ Len(x) = Len(r) /\ \A k \in 1 .. Len(x) : x[k] = r[k]
  BY <1>1 DEF SplitsInto
<1>3. b \in Fillings(en.name)
  BY <1>1, <1>2, FillingIs DEF FieldsOK
<1>4. CASE n < Len(p) /\ p[n + 1] = Dot
  <2>1. /\ Len(r) = Len(p) - (n + 1) /\ \A k \in 1 .. Len(r) : r[k] = p[n + 1 + k]
        /\ Len(x) <= EXT_LENGTH
    BY <1>4 DEF SplitsInto
  <2>2. x \in Fillings(en.ext)
    BY <1>1, <1>2, <2>1, FillingIs DEF FieldsOK
  <2> DEFINE q == Dotted(b, x)
  <2>3. /\ q \in Seq(STRING \cup {Dot}) /\ Len(q) = n + 1 + Len(x)
        /\ \A k \in 1 .. n : q[k] = b[k]
        /\ q[n + 1] = Dot
        /\ \A k \in 1 .. Len(x) : q[n + 1 + k] = x[k]
    BY <1>2, DottedIs
  <2> HIDE DEF q
  <2>4. Len(q) = Len(p)
    <3>1. /\ n \in Nat /\ Len(p) \in Nat /\ Len(x) = Len(r)
          /\ Len(r) = Len(p) - (n + 1) /\ Len(q) = n + 1 + Len(x)
      BY <1>1, <1>2, <2>1, <2>3
    <3> QED BY <3>1
  <2>5. ASSUME NEW k \in 1 .. Len(p)  PROVE p[k] = q[k]
    <3>1. k \in Nat
      BY <1>1
    <3>2. CASE k <= n
      <4>1. k \in 1 .. n
        BY <1>2, <3>2
      <4> QED BY <1>2, <2>3, <4>1
    <3>3. CASE k = n + 1
      BY <1>4, <2>3, <3>3
    <3>4. CASE k > n + 1
      <4> DEFINE j == k - (n + 1)
      <4>1. j \in 1 .. Len(x) /\ j \in 1 .. Len(r) /\ n + 1 + j = k
        BY <1>1, <1>2, <2>1, <3>1, <3>4
      <4> HIDE DEF j
      <4> QED BY <1>2, <2>1, <2>3, <4>1
    <3> QED BY <1>2, <3>1, <3>2, <3>3, <3>4
  <2>6. p \in Seq(STRING \cup {Dot})
    BY SeqMonotonic
  <2>7. p = q
    BY <2>3, <2>4, <2>5, <2>6, SeqEqual
  <2>8. p = Dotted(b, x)
    BY <2>7 DEF q
  <2> QED BY <1>3, <2>2, <2>8 DEF Spellings
<1>5. CASE ~(n < Len(p) /\ p[n + 1] = Dot)
  <2>1. Len(r) = Len(p) - n /\ Len(x) = 0
    BY <1>5 DEF SplitsInto
  <2>2. Len(p) = n
    BY <1>1, <1>2, <2>1
  <2>3. p = b
    BY <1>2, <2>2, SeqEqual
  <2>4. x = <<>>
    BY <1>2, <2>1, EmptySeq
  <2>5. Trim(en.ext) = <<>>
    BY <1>1, <2>4, NoExtension DEF FieldsOK
  <2> QED BY <1>3, <2>3, <2>5 DEF Spellings
<1> QED BY <1>4, <1>5

\* A path with a dot that spells the entry is split at that dot.
LEMMA DottedAccepted ==
  ASSUME NEW en, FieldsOK(en), NEW p \in Seq(STRING), NEW n, NEW b, NEW r, NEW x,
         SplitsInto(p, n, b, r, x),
         NEW base \in Fillings(en.name), NEW ext \in Fillings(en.ext),
         p = Dotted(base, ext)
  PROVE  b = base /\ x = ext /\ Len(r) <= Len(x)
<1>1. /\ base \in Seq(STRING) /\ Len(base) <= NAME_LENGTH
      /\ \A k \in 1 .. Len(base) : base[k] # Dot
      /\ ext \in Seq(STRING) /\ Len(ext) <= EXT_LENGTH
  BY FillingFront DEF FieldsOK
<1>2. /\ Len(base) \in Nat /\ Len(ext) \in Nat /\ Len(x) \in Nat /\ Len(r) \in Nat
      /\ NAME_LENGTH \in Nat /\ EXT_LENGTH \in Nat
  BY <1>1, LenProperties, DirectoryAssumption DEF SplitsInto
<1>3. /\ Len(p) = Len(base) + 1 + Len(ext)
      /\ \A k \in 1 .. Len(base) : p[k] = base[k]
      /\ p[Len(base) + 1] = Dot
      /\ \A k \in 1 .. Len(ext) : p[Len(base) + 1 + k] = ext[k]
  BY <1>1, DottedIs
<1>4. /\ n \in Nat /\ n <= NAME_LENGTH /\ n <= Len(p)
      /\ b \in Seq(STRING) /\ Len(b) = n /\ \A k \in 1 .. n : b[k] = p[k] /\ p[k] # Dot
      /\ n = NAME_LENGTH \/ n = Len(p) \/ p[n + 1] = Dot
      /\ x \in Seq(STRING) /\ Len(x) <= Len(r) /\ \A k \in 1 .. Len(x) : x[k] = r[k]
  BY DEF SplitsInto
<1>5. n = Len(base)
  <2>1. n <= Len(base)
    <3> SUFFICES ASSUME n > Len(base)  PROVE FALSE
      BY <1>2, <1>4
    <3>1. Len(base) + 1 \in 1 .. n
      BY <1>2, <1>4
    <3> QED BY <1>3, <1>4, <3>1
  <2>2. n >= Len(base)
    <3> SUFFICES ASSUME n < Len(base)  PROVE FALSE
      BY <1>2, <1>4
    <3>1. n + 1 \in 1 .. Len(base) /\ n # NAME_LENGTH /\ n # Len(p)
      BY <1>1, <1>2, <1>3, <1>4
    <3> QED BY <1>1, <1>3, <1>4, <3>1
  <2> QED BY <1>2, <1>4, <2>1, <2>2
<1>6. n < Len(p) /\ p[n + 1] = Dot
  BY <1>2, <1>3, <1>5
<1>7. /\ Len(r) = Len(p) - (n + 1) /\ \A k \in 1 .. Len(r) : r[k] = p[n + 1 + k]
      /\ (Len(x) = EXT_LENGTH \/ Len(x) = Len(r))
  BY <1>6 DEF SplitsInto
<1>8. Len(r) = Len(ext) /\ Len(x) = Len(ext)
  BY <1>1, <1>2, <1>3, <1>4, <1>5, <1>7
<1>9. b = base
  BY <1>1, <1>3, <1>4, <1>5, SeqEqual
<1>10. x = ext
  <2>1. \A k \in 1 .. Len(x) : x[k] = ext[k]
    <3> TAKE k \in 1 .. Len(x)
    <3>1. k \in 1 .. Len(r) /\ k \in 1 .. Len(ext)
      BY <1>8
    <3>2. x[k] = r[k] /\ r[k] = p[n + 1 + k]
      BY <1>4, <1>7, <3>1
    <3> QED BY <1>3, <1>5, <3>1, <3>2
  <2> QED BY <1>1, <1>4, <1>8, <2>1, SeqEqual
<1> QED BY <1>2, <1>8, <1>9, <1>10

\* A path without one is taken as a whole.
LEMMA PlainAccepted ==
  ASSUME NEW en, FieldsOK(en), NEW p \in Fillings(en.name), NEW n, NEW b, NEW r, NEW x,
         SplitsInto(p, n, b, r, x)
  PROVE  b = p /\ x = <<>> /\ Len(r) <= Len(x)
<1>1. /\ p \in Seq(STRING) /\ Len(p) <= NAME_LENGTH /\ Len(p) \in Nat
      /\ \A k \in 1 .. Len(p) : p[k] # Dot
  BY FillingFront, LenProperties DEF FieldsOK
<1>2. /\ n \in Nat /\ n <= NAME_LENGTH /\ n <= Len(p) /\ NAME_LENGTH \in Nat
      /\ b \in Seq(STRING) /\ Len(b) = n /\ \A k \in 1 .. n : b[k] = p[k]
      /\ n = NAME_LENGTH \/ n = Len(p) \/ p[n + 1] = Dot
      /\ x \in Seq(STRING)
  BY DirectoryAssumption DEF SplitsInto
<1>3. n = Len(p)
  <2> SUFFICES ASSUME n # Len(p)  PROVE FALSE
    OBVIOUS
  <2>1. n + 1 \in 1 .. Len(p) /\ n # NAME_LENGTH
    BY <1>1, <1>2
  <2> QED BY <1>1, <1>2, <2>1
<1>4. ~(n < Len(p) /\ p[n + 1] = Dot)
  BY <1>1, <1>3
<1>5. Len(r) = 0 /\ Len(x) = 0
  BY <1>1, <1>3, <1>4 DEF SplitsInto
<1>6. b = p
  BY <1>1, <1>2, <1>3, SeqEqual
<1> QED BY <1>2, <1>5, <1>6, EmptySeq

\* split_path() accepts a path for an entry if and only if it spells it.
LEMMA SplitSpells ==
  ASSUME NEW en, FieldsOK(en), NEW p \in Seq(STRING)
  PROVE  (split_path(p).ok /\ en.name = split_path(p).name /\ en.ext = split_path(p).ext)
           <=> p \in Spellings(en)
<1>1. PICK n, b, r, x :
        /\ SplitsInto(p, n, b, r, x)
        /\ split_path(p) = IF Len(x) < Len(r) THEN Refused ELSE Accepted(b, x)
  BY SplitIs
<1>2. /\ Len(x) \in Nat /\ Len(r) \in Nat /\ b \in Seq(STRING) /\ x \in Seq(STRING)
      /\ NAME_LENGTH \in Nat /\ EXT_LENGTH \in Nat
  BY <1>1, LenProperties, DirectoryAssumption DEF SplitsInto
<1> DEFINE Ok == /\ ~(Len(x) < Len(r)) /\ Slash \notin Range(b) \cup Range(x)
                 /\ en.name = Pad(b, NAME_LENGTH) /\ en.ext = Pad(x, EXT_LENGTH)
<1>3. (split_path(p).ok /\ en.name = split_path(p).name /\ en.ext = split_path(p).ext) <=> Ok
  <2>1. ~ Refused.ok
    BY DEF Refused
  <2> QED BY <1>1, <2>1 DEF Accepted
<1>4. ASSUME Ok  PROVE p \in Spellings(en)
  <2>1. Len(r) <= Len(x)
    BY <1>2, <1>4
  <2> QED BY <1>1, <1>4, <2>1, AcceptedSpells
<1>5. ASSUME NEW base \in Fillings(en.name), NEW ext \in Fillings(en.ext), b = base, x = ext,
             Len(r) <= Len(x)
      PROVE  Ok
  <2>1. Slash \notin Range(base) /\ Slash \notin Range(ext)
    <3>1. /\ \A k \in 1 .. Len(base) : base[k] \in Range(en.name)
          /\ \A k \in 1 .. Len(ext) : ext[k] \in Range(en.ext)
          /\ base \in Seq(STRING) /\ ext \in Seq(STRING)
      BY FillingFront DEF FieldsOK
    <3>2. DOMAIN base = 1 .. Len(base) /\ DOMAIN ext = 1 .. Len(ext)
      BY <3>1, LenProperties
    <3> QED BY <3>1, <3>2 DEF FieldsOK, Range
  <2>2. en.name = Pad(base, NAME_LENGTH) /\ en.ext = Pad(ext, EXT_LENGTH)
    BY <1>2, <1>5, FillingIs DEF FieldsOK
  <2> QED BY <1>2, <1>5, <2>1, <2>2
<1>6. ASSUME p \in Spellings(en)  PROVE Ok
  <2>1. CASE \E base \in Fillings(en.name), ext \in Fillings(en.ext) : p = Dotted(base, ext)
    <3>1. PICK base \in Fillings(en.name), ext \in Fillings(en.ext) : p = Dotted(base, ext)
      BY <2>1
    <3>2. b = base /\ x = ext /\ Len(r) <= Len(x)
      BY <1>1, <3>1, DottedAccepted
    <3> HIDE DEF Ok
    <3> QED BY <1>5, <3>2
  <2>2. CASE Trim(en.ext) = <<>> /\ p \in Fillings(en.name)
    <3>1. b = p /\ x = <<>> /\ Len(r) <= Len(x)
      BY <1>1, <2>2, PlainAccepted
    <3>2. <<>> \in Fillings(en.ext)
      <4>1. Len(Trim(en.ext)) = 0 /\ Len(en.ext) \in Nat
        BY <1>2, <2>2, EmptySeq DEF FieldsOK
      <4>2. SubSeq(en.ext, 1, 0) = <<>>
        BY SubSeqEmpty
      <4> QED BY <4>1, <4>2 DEF Fillings
    <3> HIDE DEF Ok
    <3> QED BY <1>5, <2>2, <3>1, <3>2
  <2> QED BY <1>6, <2>1, <2>2 DEF Spellings
<1> QED BY <1>3, <1>4, <1>6

\* So search_file() finds what the path is the name of.
LEMMA SearchIsExact ==
  ASSUME NEW dir \in RootDirectories, NEW p \in Path
  PROVE  search_file(dir, p) = Called(dir, p)
<1>1. p \in Seq(STRING) /\ \A i \in DOMAIN dir : FieldsOK(dir[i])
  BY FatAssumption
<1>2. \A i \in DOMAIN dir :
        (split_path(p).ok /\ dir[i].name = split_path(p).name /\ dir[i].ext = split_path(p).ext)
          <=> p \in Spellings(dir[i])
  BY <1>1, SplitSpells
<1> DEFINE found == {i \in DOMAIN dir : InUse(dir[i]) /\ split_path(p).ok
                       /\ dir[i].name = split_path(p).name /\ dir[i].ext = split_path(p).ext}
           called == {i \in DOMAIN dir : InUse(dir[i]) /\ p \in Spellings(dir[i])}
<1>3. found = called
  BY <1>2
<1>4. search_file(dir, p) = IF found = {} THEN NULL ELSE Min(found)
  BY DEF search_file
<1>5. Called(dir, p) = IF called = {} THEN NULL ELSE Min(called)
  BY DEF Called
<1> QED BY <1>3, <1>4, <1>5

-----------------------------------------------------------------------------
(***************************************************************************)
(* The steps.                                                              *)
(***************************************************************************)

\* Nothing has been opened.
LEMMA FatInit == Init => FInv
<1> SUFFICES ASSUME Init  PROVE FInv
  OBVIOUS
<1>1. chain \in Seq(Cluster) /\ IsInjective(chain) /\ Len(chain) = 0
  BY DEF Init, IsInjective
<1>2. FileOK
  BY <1>1, ClusterSize DEF Init, FileOK
<1> QED BY <1>2 DEF Init, FInv, RightBytes, SeekFailsOnlyAtEnd

\* What is found has just enough clusters for its size.
LEMMA FoundFile ==
  ASSUME NEW c \in Chains, NEW n \in Sizes(c)
  PROVE  /\ c \in Seq(Cluster) /\ IsInjective(c)
         /\ n \in Nat /\ n <= Len(c) * CLUSTER_SIZE
         /\ c # <<>> => (Len(c) - 1) * CLUSTER_SIZE < n
<1>1. c \in Seq(Cluster) /\ IsInjective(c)
  BY SeqDef, FS_CardinalityType, FatAssumption DEF Chains, SeqOf
<1>2. CASE c = <<>>
  BY <1>1, <1>2, ClusterSize DEF Sizes
<1>3. CASE c # <<>>
  <2>1. Len(c) \in Nat /\ Len(c) >= 1
    BY <1>1, <1>3, EmptySeq
  <2>2. n \in (Len(c) - 1) * CLUSTER_SIZE + 1 .. Len(c) * CLUSTER_SIZE
    BY <1>3 DEF Sizes
  <2>3. (Len(c) - 1) * CLUSTER_SIZE \in Nat /\ Len(c) * CLUSTER_SIZE \in Nat
    BY <2>1, ClusterSize
  <2> QED BY <1>1, <2>2, <2>3
<1> QED BY <1>2, <1>3

\* open_file() and the loader's lookup.
LEMMA FindStep ==
  ASSUME FInv, Find
  PROVE  FInv'
<1>1. pc = "search" /\ UNCHANGED <<position, size, read_size, buffer>>
  BY DEF Find, loc
<1>2. /\ chain' \in Seq(Cluster) /\ IsInjective(chain')
      /\ file_size' \in Nat /\ file_size' <= Len(chain') * CLUSTER_SIZE
      /\ chain' # <<>> => (Len(chain') - 1) * CLUSTER_SIZE < file_size'
  BY FoundFile DEF Find, FInv, FileOK
<1>3. position = 0
  BY <1>1, ClusterSize DEF FInv, FileOK
<1>4. FileOK'
  BY <1>1, <1>2, <1>3 DEF FileOK
<1>5. pc' \in {"absent", "idle"}
  BY DEF Find
<1> QED BY <1>4, <1>5 DEF FInv, RightBytes, SeekFailsOnlyAtEnd

\* What reads keep: all about the file but its position.
LEMMA SameFile ==
  ASSUME FileOK, UNCHANGED <<chain, file_size, position>>
  PROVE  /\ FileOK'
         /\ \A b : At(b)' = At(b)
         /\ \A from, n : FileBytes(from, n)' = FileBytes(from, n)
BY DEF FileOK, At, FileBytes

\* read_file() takes a size that fits; the seek follows.
LEMMA EnterStep ==
  ASSUME FInv, read_file
  PROVE  FInv'
<1>1. /\ pc' = "seek" /\ left' = position \div CLUSTER_SIZE
      /\ index' = first_cluster /\ read_size' = 0 /\ buffer' = <<>>
      /\ \E n \in 0 .. file_size - position : size' = n
      /\ UNCHANGED <<chain, file_size, position>>
  BY DEF read_file, Enter
<1>2. FileOK
  BY DEF FInv
<1>3. FileOK' /\ \A b : At(b)' = At(b)
  BY <1>1, <1>2, SameFile
<1>4. index' = At(0)'
  BY <1>1, <1>2, <1>3, FirstCluster
<1>5. left' \in Nat /\ 0 + left' = (position \div CLUSTER_SIZE)'
  BY <1>1, <1>2, Split DEF FileOK
<1>6. Reading'
  BY <1>1, <1>2 DEF Reading, FileOK
<1>7. SeekOK'
  BY <1>1, <1>4, <1>5, <1>6 DEF SeekOK
<1> QED BY <1>1, <1>3, <1>7 DEF FInv, RightBytes, SeekFailsOnlyAtEnd

\* One turn of the loop that follows the chain to the position.
LEMMA SeekStep ==
  ASSUME FInv, Seek
  PROVE  FInv'
<1>1. /\ pc = "seek" /\ left > 0 /\ index' = get_cluster_value(index) /\ left' = left - 1
      /\ pc' = IF index' = EOC THEN "failed" ELSE "seek"
      /\ UNCHANGED <<chain, file_size, position, size, read_size, buffer>>
  BY DEF Seek
<1>2. FileOK /\ SeekOK
  BY <1>1 DEF FInv
<1>3. FileOK' /\ \A b : At(b)' = At(b)
  BY <1>1, <1>2, SameFile
<1>4. PICK k \in Nat : k + left = position \div CLUSTER_SIZE /\ index = At(k) /\ left \in Nat
  BY <1>2 DEF SeekOK
<1>5. /\ position \in Nat /\ file_size \in Nat /\ position <= file_size
      /\ size \in Nat /\ position + size <= file_size
  BY <1>2 DEF FileOK, SeekOK, Reading
\* The next cluster begins at or before the position.
<1>6. (k + 1) * CLUSTER_SIZE <= position
  <2>1. position \div CLUSTER_SIZE \in Nat /\ (position \div CLUSTER_SIZE) * CLUSTER_SIZE <= position
    BY <1>5, ClusterSize
  <2>2. k + 1 <= position \div CLUSTER_SIZE
    BY <1>1, <1>4
  <2>3. (k + 1) * CLUSTER_SIZE <= (position \div CLUSTER_SIZE) * CLUSTER_SIZE
    BY <2>1, <2>2, ClusterSize, TimesMonotonic
  <2>4. (k + 1) * CLUSTER_SIZE \in Nat /\ (position \div CLUSTER_SIZE) * CLUSTER_SIZE \in Nat
    BY <2>1, ClusterSize
  <2> QED BY <1>5, <2>1, <2>3, <2>4
<1>7. k < Len(chain)
  <2>1. k * CLUSTER_SIZE \in Nat /\ (k + 1) * CLUSTER_SIZE = k * CLUSTER_SIZE + CLUSTER_SIZE
    BY ClusterSize
  <2>2. k * CLUSTER_SIZE < file_size
    BY <1>5, <1>6, <2>1, ClusterSize
  <2> QED BY <1>2, <2>2, InsideFile
<1>8. index' = At(k + 1)
  BY <1>1, <1>2, <1>4, <1>7, NextCluster
<1>9. CASE index' # EOC
  <2>1. SeekOK'
    <3>1. Reading'
      BY <1>1, <1>2 DEF SeekOK, Reading
    <3>2. left' \in Nat /\ (k + 1) + left' = (position \div CLUSTER_SIZE)' /\ index' = At(k + 1)'
      BY <1>1, <1>3, <1>4, <1>8
    <3> QED BY <1>1, <1>2, <3>1, <3>2 DEF SeekOK
  <2> QED BY <1>1, <1>3, <1>9, <2>1 DEF FInv, RightBytes, SeekFailsOnlyAtEnd
<1>10. CASE index' = EOC
  <2>1. Len(chain) \in Nat /\ Len(chain) = k + 1
    <3>1. ~(k + 1 < Len(chain))
      BY <1>2, <1>8, <1>10, ClusterIsNoMark
    <3> QED BY <1>2, <1>7, <3>1 DEF FileOK
  <2>2. PICK e \in Nat : e = (k + 1) * CLUSTER_SIZE
    BY ClusterSize
  <2>3. file_size <= e /\ e <= position
    BY <1>2, <1>6, <2>1, <2>2 DEF FileOK
  <2>4. size = 0 /\ position = file_size /\ file_size = e
    BY <1>5, <2>3
  <2>5. e % CLUSTER_SIZE = 0
    <3>1. e = (k + 1) * CLUSTER_SIZE + 0
      BY <2>2
    <3> QED BY <3>1, ClusterSize, DivMod
  <2>6. SeekFailsOnlyAtEnd'
    BY <1>1, <2>4, <2>5 DEF SeekFailsOnlyAtEnd
  <2> QED BY <1>1, <1>3, <1>10, <2>6 DEF FInv, RightBytes
<1> QED BY <1>9, <1>10

\* The part of the read that lies in the cluster of the position.
LEMMA ReadRestStep ==
  ASSUME FInv, ReadRest
  PROVE  FInv'
<1> DEFINE n == IF offset + size <= CLUSTER_SIZE THEN size ELSE CLUSTER_SIZE - offset
<1>1. /\ pc = "seek" /\ left = 0 /\ pc' = "copy"
      /\ UNCHANGED <<chain, file_size, position, size>>
      /\ offset = 0 => UNCHANGED <<buffer, read_size, index>>
      /\ offset # 0 => /\ buffer' = Bytes(index, offset, n) /\ read_size' = n
                       /\ index' = get_cluster_value(index)
  BY DEF ReadRest
<1>2. FileOK /\ SeekOK
  BY <1>1 DEF FInv
<1>3. FileOK' /\ (\A b : At(b)' = At(b)) /\ \A f, m : FileBytes(f, m)' = FileBytes(f, m)
  BY <1>1, <1>2, SameFile
<1>4. /\ position \in Nat /\ size \in Nat /\ position + size <= file_size /\ file_size \in Nat
      /\ read_size = 0 /\ buffer = <<>>
  BY <1>2 DEF FileOK, SeekOK, Reading
<1>5. PICK q \in Nat : /\ q = position \div CLUSTER_SIZE
                      /\ position = q * CLUSTER_SIZE + offset
                      /\ offset \in Nat /\ offset < CLUSTER_SIZE
  BY <1>4, Split DEF offset
<1>6. index = At(q)
  <2>1. PICK k \in Nat : k + left = q /\ index = At(k)
    BY <1>2, <1>5 DEF SeekOK
  <2> QED BY <1>1, <2>1
<1>7. FileBytes(position, 0) = <<>>
  BY DEF FileBytes
<1>8. CASE offset = 0
  <2>1. buffer' = FileBytes(position, read_size)' /\ read_size' = 0 /\ index' = At(q)'
    BY <1>1, <1>3, <1>4, <1>6, <1>7, <1>8
  <2>2. (position + read_size)' = q * CLUSTER_SIZE
    BY <1>1, <1>4, <1>5, <1>8, <2>1, ClusterSize
  <2>3. Reading'
    BY <1>1, <1>4, <2>1 DEF Reading
  <2>4. CopyOK'
    BY <1>5, <2>1, <2>2, <2>3 DEF CopyOK
  <2> QED BY <1>1, <1>3, <2>4 DEF FInv, RightBytes, SeekFailsOnlyAtEnd
<1>9. CASE offset # 0
  <2>1. PICK e \in Nat : e = q * CLUSTER_SIZE
    BY <1>5, ClusterSize
  <2>2. q < Len(chain)
    <3>1. e < file_size
      BY <1>4, <1>5, <1>9, <2>1
    <3> QED BY <1>2, <1>5, <2>1, <3>1, InsideFile
  <2>3. n \in Nat /\ n <= size /\ offset + n <= CLUSTER_SIZE /\ (n = size \/ offset + n = CLUSTER_SIZE)
    BY <1>4, <1>5, ClusterSize
  <2>4. buffer' = FileBytes(position, n)
    <3>1. <<>> \o Bytes(index, offset, n) = Bytes(index, offset, n)
      BY <1>5, <2>3, NothingBefore
    <3>2. Joins(position, 0, n, q, offset)
      <4> HIDE DEF n
      <4> QED BY <1>4, <1>5, <2>2, <2>3 DEF Joins
    <3>3. FileBytes(position, 0) \o Bytes(At(q), offset, n) = FileBytes(position, 0 + n)
      BY <1>2, <3>2, BytesJoin
    <3>4. 0 + n = n
      BY <2>3
    <3> HIDE DEF n
    <3> QED BY <1>1, <1>6, <1>7, <1>9, <3>1, <3>3, <3>4
  <2>5. index' = At(q + 1)'
    BY <1>1, <1>2, <1>3, <1>5, <1>6, <1>9, <2>2, NextCluster
  <2>6. read_size' = n
    BY <1>1, <1>9
  <2> HIDE DEF n
  <2>7. Reading'
    BY <1>1, <1>4, <2>3, <2>6 DEF Reading
  <2>8. n = size \/ position + n = (q + 1) * CLUSTER_SIZE
    BY <1>4, <1>5, <2>1, <2>3, ClusterSize
  <2>9. CopyOK'
    <3>1. read_size' = size' \/ (position + read_size)' = (q + 1) * CLUSTER_SIZE
      BY <1>1, <2>6, <2>8
    <3>2. buffer' = FileBytes(position, read_size)'
      BY <1>1, <1>3, <2>4, <2>6
    <3>3. q + 1 \in Nat
      BY <1>5
    <3> QED BY <2>5, <2>7, <3>1, <3>2, <3>3 DEF CopyOK
  <2> QED BY <1>1, <1>3, <2>9 DEF FInv, RightBytes, SeekFailsOnlyAtEnd
<1> QED BY <1>8, <1>9

\* What both copying loops do with a whole cluster, or the last part of one.
LEMMA CopyPart ==
  ASSUME FileOK, NEW q \in Nat, NEW m \in Nat,
         position + read_size = q * CLUSTER_SIZE, read_size \in Nat,
         q < Len(chain), m <= CLUSTER_SIZE, index = At(q),
         buffer = FileBytes(position, read_size)
  PROVE  buffer \o Bytes(index, 0, m) = FileBytes(position, read_size + m)
<1>1. position \in Nat
  BY DEF FileOK
<1>2. Joins(position, read_size, m, q, 0)
  BY <1>1, ClusterSize DEF Joins
<1> QED BY <1>2, BytesJoin

\* One turn of the loop that copies cluster after cluster.
LEMMA CopyStep ==
  ASSUME FInv, CopyCluster
  PROVE  FInv'
<1>1. /\ pc = "copy" /\ read_size < size /\ index # EOC
      /\ UNCHANGED <<chain, file_size, position, size>>
  BY DEF CopyCluster, Copying
<1>2. FileOK /\ CopyOK
  BY <1>1 DEF FInv
<1>3. FileOK' /\ (\A b : At(b)' = At(b))
  BY <1>1, <1>2, SameFile
<1>4. /\ position \in Nat /\ size \in Nat /\ read_size \in Nat
      /\ position + size <= file_size /\ file_size \in Nat
      /\ buffer = FileBytes(position, read_size)
  BY <1>2 DEF FileOK, CopyOK, Reading
<1>5. PICK q \in Nat : position + read_size = q * CLUSTER_SIZE /\ index = At(q)
  BY <1>1, <1>4, <1>2 DEF CopyOK
<1>6. q < Len(chain)
  BY <1>1, <1>2, <1>5, ClusterIsNoMark
<1>7. CASE read_size + CLUSTER_SIZE >= size
  <2>1. /\ buffer' = buffer \o Bytes(index, 0, size - read_size)
        /\ read_size' = size /\ pc' = "return"
    BY <1>7 DEF CopyCluster
  <2>2. /\ size - read_size \in Nat /\ size - read_size <= CLUSTER_SIZE
        /\ read_size + (size - read_size) = size
    BY <1>1, <1>4, <1>7, ClusterSize
  <2>3. buffer' = FileBytes(position, size)
    BY <1>2, <1>4, <1>5, <1>6, <2>1, <2>2, CopyPart
  <2>4. RightBytes'
    BY <1>1, <2>1, <2>3 DEF RightBytes, FileBytes
  <2>5. Reading'
    BY <1>1, <1>4, <2>1 DEF Reading
  <2> QED BY <1>3, <2>1, <2>4, <2>5 DEF FInv, SeekFailsOnlyAtEnd
<1>8. CASE ~(read_size + CLUSTER_SIZE >= size)
  <2>1. /\ buffer' = buffer \o Bytes(index, 0, CLUSTER_SIZE)
        /\ read_size' = read_size + CLUSTER_SIZE
        /\ index' = get_cluster_value(index) /\ pc' = pc
    BY <1>8 DEF CopyCluster
  <2>2. buffer' = FileBytes(position, read_size + CLUSTER_SIZE)
    <3>1. CLUSTER_SIZE \in Nat /\ CLUSTER_SIZE <= CLUSTER_SIZE
      BY ClusterSize
    <3>2. buffer \o Bytes(index, 0, CLUSTER_SIZE) = FileBytes(position, read_size + CLUSTER_SIZE)
      BY <1>2, <1>4, <1>5, <1>6, <3>1, CopyPart
    <3> QED BY <2>1, <3>2
  <2>3. buffer' = FileBytes(position, read_size)'
    BY <1>1, <2>1, <2>2 DEF FileBytes
  <2>4. Reading'
    BY <1>1, <1>4, <1>8, <2>1, ClusterSize DEF Reading
  <2>5. (position + read_size)' = (q + 1) * CLUSTER_SIZE /\ q + 1 \in Nat
    <3>1. (q + 1) * CLUSTER_SIZE = q * CLUSTER_SIZE + CLUSTER_SIZE
      BY ClusterSize
    <3> QED BY <1>1, <1>4, <1>5, <2>1, <3>1, ClusterSize
  <2>6. index' = At(q + 1)'
    BY <1>2, <1>3, <1>5, <1>6, <2>1, NextCluster
  <2>7. CopyOK'
    BY <2>3, <2>4, <2>5, <2>6 DEF CopyOK
  <2> QED BY <1>1, <1>3, <2>1, <2>7 DEF FInv, RightBytes, SeekFailsOnlyAtEnd
<1> QED BY <1>7, <1>8

\* The loop ends with everything read: the chain is no shorter than the file.
LEMMA LoopEndStep ==
  ASSUME FInv, LoopEnds
  PROVE  FInv'
<1>1. /\ pc = "copy" /\ (read_size >= size \/ index = EOC) /\ pc' = "return"
      /\ UNCHANGED <<chain, file_size, position, size, read_size, buffer>>
  <2>1. pc = "copy" /\ ~(read_size < size /\ index # EOC) /\ pc' = "return" /\ UNCHANGED loc
    BY DEF LoopEnds, Copying
  <2>2. read_size \in Nat /\ size \in Nat
    BY <2>1 DEF FInv, CopyOK, Reading
  <2> QED BY <2>1, <2>2 DEF LoopEnds, loc
<1>2. FileOK /\ CopyOK
  BY <1>1 DEF FInv
<1>3. FileOK'
  BY <1>1, <1>2, SameFile
<1>4. /\ position \in Nat /\ size \in Nat /\ read_size \in Nat /\ read_size <= size
      /\ position + size <= file_size /\ file_size \in Nat
      /\ buffer = FileBytes(position, read_size)
  BY <1>2 DEF FileOK, CopyOK, Reading
<1>5. read_size = size
  <2> SUFFICES ASSUME read_size # size  PROVE FALSE
    OBVIOUS
  <2>1. PICK q \in Nat : position + read_size = q * CLUSTER_SIZE /\ index = At(q)
    BY <1>2 DEF CopyOK
  <2>2. q * CLUSTER_SIZE < file_size
    <3>1. position + read_size < file_size
      BY <1>4
    <3> QED BY <2>1, <3>1
  <2>3. q < Len(chain)
    BY <1>2, <2>2, InsideFile
  <2>4. index # EOC
    BY <1>2, <2>1, <2>3, ClusterIsNoMark
  <2> QED BY <1>1, <1>4, <2>4
<1>6. RightBytes'
  BY <1>1, <1>4, <1>5 DEF RightBytes, FileBytes
<1>7. Reading'
  BY <1>1, <1>4 DEF Reading
<1> QED BY <1>1, <1>3, <1>6, <1>7 DEF FInv, SeekFailsOnlyAtEnd

\* read_file() moves the position.
LEMMA ReturnStep ==
  ASSUME FInv, Return
  PROVE  FInv'
<1>1. /\ pc = "return" /\ pc' = "idle" /\ position' = position + read_size
      /\ UNCHANGED <<chain, file_size>>
  BY DEF Return
<1>2. FileOK /\ Reading
  BY <1>1 DEF FInv
<1>3. position' \in Nat /\ position' <= file_size
  BY <1>1, <1>2 DEF FileOK, Reading
<1>4. FileOK'
  BY <1>1, <1>2, <1>3 DEF FileOK
<1> QED BY <1>1, <1>4 DEF FInv, RightBytes, SeekFailsOnlyAtEnd

\* The loader begins to read a file.
LEMMA LoadStep ==
  ASSUME FInv, load_file
  PROVE  FInv'
<1>1. /\ pc = "idle" /\ position = 0 /\ chain # <<>> /\ pc' = "load"
      /\ size' = file_size /\ index' = first_cluster /\ read_size' = 0 /\ buffer' = <<>>
      /\ UNCHANGED <<chain, file_size, position>>
  BY DEF load_file
<1>2. FileOK
  BY DEF FInv
<1>3. FileOK' /\ \A b : At(b)' = At(b)
  BY <1>1, <1>2, SameFile
<1>4. index' = At(0)'
  BY <1>1, <1>2, <1>3, FirstCluster
<1>5. 0 < Len(chain)' /\ read_size' = 0 * CLUSTER_SIZE
  BY <1>1, <1>2, EmptySeq, ClusterSize DEF FileOK
<1>6. buffer' = FileBytes(0, read_size)'
  BY <1>1 DEF FileBytes
<1>7. LoadOK'
  BY <1>1, <1>4, <1>5, <1>6 DEF LoadOK
<1> QED BY <1>1, <1>3, <1>7 DEF FInv, RightBytes, SeekFailsOnlyAtEnd

\* One turn of the loader's loop.
LEMMA LoadClusterStep ==
  ASSUME FInv, LoadCluster
  PROVE  FInv'
<1> DEFINE next == get_cluster_value(index)
<1>1. /\ pc = "load" /\ index' = next
      /\ next = EOC => /\ buffer' = buffer \o Bytes(index, 0, size - read_size)
                       /\ read_size' = size /\ pc' = "loaded"
      /\ next # EOC => /\ buffer' = buffer \o Bytes(index, 0, CLUSTER_SIZE)
                       /\ read_size' = read_size + CLUSTER_SIZE /\ pc' = pc
      /\ UNCHANGED <<chain, file_size, position, size>>
  BY DEF LoadCluster
<1>2. FileOK /\ LoadOK
  BY <1>1 DEF FInv
<1>3. FileOK' /\ (\A b : At(b)' = At(b))
  BY <1>1, <1>2, SameFile
<1>4. PICK q \in Nat : /\ q < Len(chain) /\ read_size = q * CLUSTER_SIZE
                       /\ index = At(q) /\ buffer = FileBytes(0, read_size)
  BY <1>2 DEF LoadOK
<1>5. position = 0 /\ size = file_size /\ file_size \in Nat /\ Len(chain) \in Nat
  BY <1>2 DEF LoadOK, FileOK
<1>6. /\ read_size \in Nat /\ position + read_size = q * CLUSTER_SIZE
      /\ (q + 1) * CLUSTER_SIZE = read_size + CLUSTER_SIZE
  BY <1>4, <1>5, ClusterSize
<1>7. next = At(q + 1)
  BY <1>2, <1>4, NextCluster
<1> HIDE DEF next
<1>8. CASE next = EOC
  <2>1. Len(chain) = q + 1
    <3>1. ~(q + 1 < Len(chain))
      BY <1>2, <1>7, <1>8, ClusterIsNoMark
    <3> QED BY <1>4, <1>5, <3>1
  <2>2. chain # <<>> /\ (Len(chain) - 1) * CLUSTER_SIZE = read_size
        /\ Len(chain) * CLUSTER_SIZE = read_size + CLUSTER_SIZE
    <3>1. chain # <<>>
      BY <1>4, EmptySeq DEF FileOK
    <3>2. Len(chain) - 1 = q
      BY <2>1
    <3> QED BY <1>4, <1>6, <2>1, <3>1, <3>2
  <2>3. read_size < size /\ size <= read_size + CLUSTER_SIZE
    BY <1>2, <1>5, <2>2 DEF FileOK
  <2>4. /\ size - read_size \in Nat /\ size - read_size <= CLUSTER_SIZE
        /\ read_size + (size - read_size) = size
    BY <1>5, <1>6, <2>3, ClusterSize
  <2>5. buffer' = FileBytes(position, size)
    <3>1. buffer = FileBytes(position, read_size)
      BY <1>4, <1>5
    <3> QED BY <1>1, <1>2, <1>4, <1>6, <1>8, <2>4, <3>1, CopyPart
  <2>6. RightBytes'
    BY <1>1, <1>8, <2>5 DEF RightBytes, FileBytes
  <2> QED BY <1>1, <1>3, <1>8, <2>6 DEF FInv, SeekFailsOnlyAtEnd
<1>9. CASE next # EOC
  <2>1. q + 1 < Len(chain) /\ q + 1 \in Nat
    BY <1>2, <1>7, <1>9, ClusterIsNoMark
  <2>2. buffer' = FileBytes(position, read_size + CLUSTER_SIZE)
    <3>1. buffer = FileBytes(position, read_size)
      BY <1>4, <1>5
    <3>2. CLUSTER_SIZE \in Nat /\ CLUSTER_SIZE <= CLUSTER_SIZE
      BY ClusterSize
    <3>3. buffer \o Bytes(index, 0, CLUSTER_SIZE) = FileBytes(position, read_size + CLUSTER_SIZE)
      BY <1>2, <1>4, <1>6, <3>1, <3>2, CopyPart
    <3> QED BY <1>1, <1>9, <3>3
  <2>3. buffer' = FileBytes(0, read_size)'
    BY <1>1, <1>5, <1>9, <2>2 DEF FileBytes
  <2>4. index' = At(q + 1)' /\ read_size' = (q + 1) * CLUSTER_SIZE /\ q + 1 < Len(chain)'
    BY <1>1, <1>3, <1>6, <1>7, <1>9, <2>1
  <2>5. LoadOK'
    BY <1>1, <1>5, <2>1, <2>3, <2>4 DEF LoadOK
  <2> QED BY <1>1, <1>3, <1>9, <2>5 DEF FInv, RightBytes, SeekFailsOnlyAtEnd
<1> QED BY <1>8, <1>9

\* The loader is done.
LEMMA LoadedStep ==
  ASSUME FInv, Loaded
  PROVE  FInv'
<1>1. pc' = "idle" /\ UNCHANGED <<chain, file_size, position>>
  BY DEF Loaded
<1>2. FileOK'
  BY <1>1, SameFile DEF FInv
<1> QED BY <1>1, <1>2 DEF FInv, RightBytes, SeekFailsOnlyAtEnd

\* Nothing happens.
LEMMA StutterStep ==
  ASSUME FInv, UNCHANGED vars
  PROVE  FInv'
<1>1. UNCHANGED <<chain, file_size, position, pc, size, left, index, read_size, buffer>>
  BY DEF vars, loc
<1> QED BY <1>1 DEF FInv, FileOK, SeekOK, CopyOK, LoadOK, Reading, RightBytes,
                   SeekFailsOnlyAtEnd, FileBytes, At

\* The inductive invariant holds throughout.
THEOREM FatInvariance == Spec => []FInv
<1>1. FInv /\ [Next]_vars => FInv'
  BY FindStep, EnterStep, SeekStep, ReadRestStep, CopyStep, LoopEndStep, ReturnStep,
     LoadStep, LoadClusterStep, LoadedStep, StutterStep DEF Next, Stopped
<1> QED BY <1>1, FatInit, PTL DEF Spec

\* Every read of the kernel, in pieces of whatever sizes, and every file the
\* loader loads: as many bytes as were asked for, and the right ones.
THEOREM ReadsAreRight == Spec => []RightBytes
<1>1. FInv => RightBytes
  BY DEF FInv
<1> QED BY <1>1, FatInvariance, PTL

\* The ASSERT of the seek fails for a read of no bytes at the end of a file
\* that fills its last cluster, and for no other.
THEOREM SeeksFailAtEndOnly == Spec => []SeekFailsOnlyAtEnd
<1>1. FInv => SeekFailsOnlyAtEnd
  BY DEF FInv
<1> QED BY <1>1, FatInvariance, PTL

-----------------------------------------------------------------------------
(***************************************************************************)
(* The lookup: what has been found stays.                                  *)
(***************************************************************************)
Looked ==
  /\ root \in RootDirectories /\ path \in Path
  /\ pc # "search" => entry = search_file(root, path)

\* The lookup is kept until the next one.
LEMMA LookedStep ==
  ASSUME Looked, [Next]_vars
  PROVE  Looked'
<1>1. CASE Find
  BY <1>1 DEF Find, Looked
<1>2. CASE UNCHANGED name /\ pc # "search"
  BY <1>2 DEF name, Looked
<1>3. CASE UNCHANGED vars
  BY <1>3 DEF vars, name, Looked
<1>4. CASE Next /\ ~Find
  <2>1. UNCHANGED name /\ pc # "search"
    <3>1. CASE read_file \/ load_file
      BY <3>1 DEF read_file, Enter, load_file
    <3>2. CASE Seek \/ ReadRest
      BY <3>2 DEF Seek, ReadRest
    <3>3. CASE CopyCluster \/ LoopEnds \/ Return
      BY <3>3 DEF CopyCluster, Copying, LoopEnds, Return
    <3>4. CASE LoadCluster \/ Loaded
      BY <3>4 DEF LoadCluster, Loaded
    <3>5. CASE Stopped
      BY <3>5 DEF Stopped, vars
    <3> QED BY <1>4, <3>1, <3>2, <3>3, <3>4, <3>5 DEF Next
  <2> QED BY <1>2, <2>1
<1> QED BY <1>1, <1>3, <1>4

\* A path finds a file if and only if it spells its name, in every directory
\* with well-formed names.
THEOREM LookupsAreExact == Spec => []LookupIsExact
<1>1. Init => Looked
  BY DEF Init, Looked
<1>2. Looked /\ [Next]_vars => Looked'
  BY LookedStep
<1>3. Looked => LookupIsExact
  BY SearchIsExact DEF Looked, LookupIsExact
<1> QED BY <1>1, <1>2, <1>3, PTL DEF Spec
=============================================================================
