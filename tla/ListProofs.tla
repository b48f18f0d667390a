----------------------------- MODULE ListProofs -----------------------------
(***************************************************************************)
(* The pointer code of lib.c keeps its lists well-formed and implements    *)
(* the queues of module Queues, for every number of processes and events.  *)
(*                                                                         *)
(* The lists are chains of pointers, but the proof speaks of the sequences *)
(* they hold: IsList says that the chain of a list is a given sequence,    *)
(* and each operation is shown to change that sequence as it should.  That *)
(* the recursive definition of Chain gives this sequence is shown once     *)
(* (ChainIs): its recursive function is the only one that satisfies its    *)
(* equation, and the sequence satisfies it.  The sleepers of an event are  *)
(* selected from the wait list by a second recursive function; that one    *)
(* exists, and what it does when a node comes or goes, is shown by         *)
(* induction on a set of numbers (UpTo).                                   *)
(***************************************************************************)
EXTENDS Lists, SequenceTheorems, FiniteSetTheorems, WellFoundedInduction, TLAPS

\* What has a next field; how far a walk goes.
Addr == Node \cup HeadList
Limit == Cardinality(Node) + 1

\* The address i pointers behind list l, if it holds the sequence s.
Place(l, s, i) == IF i = 0 THEN l ELSE IF i <= Len(s) THEN s[i] ELSE NULL

\* Under the next fields nx, the chain of l is s.
Linked(nx, l, s) ==
  /\ s = <<>> => nx[l] = NULL
  /\ s # <<>> => nx[l] = s[1] /\ nx[s[Len(s)]] = NULL
  /\ \A i \in 1 .. Len(s) - 1 : nx[s[i]] = s[i + 1]

Ends(tl, l, s) ==
  /\ s = <<>> => tl[l] = NULL
  /\ s # <<>> => tl[l] = s[Len(s)]

IsList(nx, tl, l, s) ==
  s \in Seq(Node) /\ IsInjective(s) /\ Linked(nx, l, s) /\ Ends(tl, l, s)

\* The three lists hold the sequences q.
Hold(nx, tl, q) ==
  /\ nx \in [Addr -> Node \cup {NULL}]
  /\ tl \in [HeadList -> Node \cup {NULL}]
  /\ q \in [HeadList -> Seq(Node)]
  /\ \A l \in HeadList : IsList(nx, tl, l, q[l])
  /\ \A l, m \in HeadList : l # m => Range(q[l]) \cap Range(q[m]) = {}

-----------------------------------------------------------------------------
(***************************************************************************)
(* Following the pointers.                                                 *)
(***************************************************************************)

\* The lowest of some numbers.
LEMMA LeastElement ==
  ASSUME NEW T, T \subseteq Nat, T # {}
  PROVE  \E x \in T : \A y \in T : x <= y
<1> DEFINE R == OpToRel(<, Nat)
<1>1. IsWellFoundedOn(R, Nat)
  BY NatLessThanWellFounded
<1>2. \A x, y \in Nat : <<y, x>> \in R <=> y < x
  BY DEF OpToRel
<1> HIDE DEF R
<1>3. PICK x \in T : \A y \in T : ~ (<<y, x>> \in R)
  BY <1>1, WFMin
<1>4. \A y \in T : ~ (y < x)
  BY <1>2, <1>3
<1>5. \A y \in T : x <= y
  BY <1>4
<1> QED BY <1>5

\* One step of the walk w from l.
Step(l, w, i) == IF i = 0 THEN l ELSE IF w[i - 1] = NULL THEN NULL ELSE next[w[i - 1]]

\* If some function is a walk then Walk is.
LEMMA WalkIsWalk ==
  ASSUME NEW l, NEW g, g = [i \in 0 .. Limit |-> Step(l, g, i)]
  PROVE  Walk(l) = [i \in 0 .. Limit |-> Step(l, Walk(l), i)]
<1> DEFINE w == CHOOSE w : w = [i \in 0 .. Limit |-> Step(l, w, i)]
<1>1. Walk(l) = w
  BY DEF Walk, Step, Limit
<1>2. w = [i \in 0 .. Limit |-> Step(l, w, i)]
  BY Zenon
<1> QED BY <1>1, <1>2

\* And there is only one.
LEMMA WalkIs ==
  ASSUME ListsAssumption, NEW l, NEW g, g = [i \in 0 .. Limit |-> Step(l, g, i)]
  PROVE  Walk(l) = g
<1> DEFINE w == Walk(l)
           T == {i \in 0 .. Limit : w[i] # g[i]}
<1>1. w = [i \in 0 .. Limit |-> Step(l, w, i)]
  BY WalkIsWalk
<1> HIDE DEF w
<1>2. Limit \in Nat
  BY FS_CardinalityType DEF ListsAssumption, Limit
<1>3. ASSUME T # {}  PROVE FALSE
  <2>1. PICK i \in T : \A j \in T : i <= j
    <3>1. T \subseteq Nat
      BY <1>2
    <3> HIDE DEF T
    <3> QED BY <1>3, <3>1, LeastElement
  <2>2. w[i] = Step(l, w, i) /\ g[i] = Step(l, g, i)
    BY <1>1
  <2>3. i # 0
    BY <2>1, <2>2 DEF Step
  <2>4. i - 1 \in 0 .. Limit /\ i - 1 \notin T
    BY <1>2, <2>1, <2>3
  <2>5. w[i - 1] = g[i - 1]
    BY <2>4
  <2>6. Step(l, w, i) = Step(l, g, i)
    BY <2>5 DEF Step
  <2> QED BY <2>1, <2>2, <2>6
<1>4. \A i \in 0 .. Limit : w[i] = g[i]
  BY <1>3
<1>5. w = g
  BY <1>1, <1>4
<1> QED BY <1>5 DEF w

\* A sequence without repetition is no longer than there are nodes.
LEMMA ShortEnough ==
  ASSUME ListsAssumption, NEW s \in Seq(Node), IsInjective(s)
  PROVE  Len(s) \in Nat /\ Cardinality(Node) \in Nat /\ Len(s) <= Cardinality(Node)
<1>1. s \in [1 .. Len(s) -> Node] /\ Len(s) \in Nat
  BY LenProperties
<1>2. s \in Injection(1 .. Len(s), Node)
  BY <1>1 DEF Injection, IsInjective
<1>3. Cardinality(1 .. Len(s)) = Len(s)
  <2>1. 1 \in Int /\ Len(s) \in Int
    BY <1>1
  <2>2. Cardinality(1 .. Len(s)) = IF 1 > Len(s) THEN 0 ELSE Len(s) - 1 + 1
    BY <2>1, FS_Interval
  <2> QED BY <1>1, <2>2
<1>4. Cardinality(1 .. Len(s)) <= Cardinality(Node)
  BY <1>2, FS_Injection DEF ListsAssumption
<1>5. Cardinality(Node) \in Nat
  BY FS_CardinalityType DEF ListsAssumption
<1> QED BY <1>1, <1>3, <1>4, <1>5

\* A chain is the sequence its list holds.
LEMMA ChainIs ==
  ASSUME ListsAssumption, NEW l \in HeadList, NEW s, IsList(next, tail, l, s)
  PROVE  Chain(l) = s
<1> DEFINE n == Len(s)
           g == [i \in 0 .. Limit |-> Place(l, s, i)]
<1>1. s \in Seq(Node) /\ IsInjective(s) /\ Linked(next, l, s)
  BY DEF IsList
<1>2. n \in Nat /\ Limit \in Nat /\ n < Limit
  BY <1>1, ShortEnough DEF Limit
<1>3. l # NULL /\ \A i \in 1 .. n : s[i] \in Node /\ s[i] # NULL
  BY <1>1, <1>2, ElementOfSeq DEF ListsAssumption
<1>4. \A i \in 0 .. Limit : Place(l, s, i) # NULL <=> i <= n
  BY <1>2, <1>3 DEF Place
<1>5. ASSUME NEW i \in 0 .. Limit  PROVE g[i] = Step(l, g, i)
  <2>1. CASE i = 0
    BY <1>2, <2>1 DEF Step, Place
  <2>2. CASE i # 0
    <3>1. i - 1 \in 0 .. Limit /\ g[i - 1] = Place(l, s, i - 1) /\ g[i] = Place(l, s, i)
      BY <1>2, <2>2
    <3>2. CASE i - 1 <= n
      <4>1. s = <<>> <=> n = 0
        BY <1>1, EmptySeq
      <4>2. next[Place(l, s, i - 1)] = Place(l, s, i)
        <5>1. CASE i = 1
          BY <1>1, <1>2, <4>1, <5>1 DEF Linked, Place
        <5>2. CASE i = n + 1 /\ i # 1
          <6>1. Place(l, s, i - 1) = s[n] /\ Place(l, s, i) = NULL /\ s # <<>>
            BY <1>2, <4>1, <5>2 DEF Place
          <6> QED BY <1>1, <6>1 DEF Linked
        <5>3. CASE i <= n /\ i # 1
          <6>1. Place(l, s, i - 1) = s[i - 1] /\ Place(l, s, i) = s[i] /\ i - 1 \in 1 .. n - 1
            BY <1>2, <2>2, <5>3 DEF Place
          <6>2. next[s[i - 1]] = s[(i - 1) + 1] /\ (i - 1) + 1 = i
            BY <1>1, <6>1 DEF Linked
          <6> QED BY <6>1, <6>2
        <5> QED BY <1>2, <2>2, <3>2, <5>1, <5>2, <5>3
      <4>3. Place(l, s, i - 1) # NULL
        BY <1>4, <3>1, <3>2
      <4> HIDE DEF g
      <4> QED BY <2>2, <3>1, <4>2, <4>3 DEF Step
    <3>3. CASE ~(i - 1 <= n)
      <4>1. Place(l, s, i - 1) = NULL
        BY <1>4, <3>1, <3>3
      <4>2. ~(i <= n)
        BY <1>2, <3>3
      <4>3. Place(l, s, i) = NULL
        BY <1>4, <4>2
      <4> HIDE DEF g
      <4> QED BY <2>2, <3>1, <4>1, <4>3 DEF Step
    <3> QED BY <3>2, <3>3
  <2> QED BY <2>1, <2>2
<1>6. g = [i \in 0 .. Limit |-> Step(l, g, i)]
  BY <1>5
<1>7. Walk(l) = g
  <2> HIDE DEF g
  <2> QED BY <1>6, WalkIs
<1>8. {i \in DOMAIN g : g[i] # NULL} = 0 .. n
  BY <1>2, <1>4
<1>9. Cardinality(0 .. n) - 1 = n
  <2>1. 0 \in Int /\ n \in Int
    BY <1>2
  <2>2. Cardinality(0 .. n) = IF 0 > n THEN 0 ELSE n - 0 + 1
    BY <2>1, FS_Interval
  <2> QED BY <1>2, <2>2
<1>10. Chain(l) = [i \in 1 .. n |-> g[i]]
  <2> HIDE DEF g, n
  <2> QED BY <1>7, <1>8, <1>9 DEF Chain
<1>11. \A i \in 1 .. n : g[i] = s[i]
  BY <1>2 DEF Place
<1>12. s = [i \in 1 .. n |-> s[i]]
  BY <1>1, LenProperties
<1> QED
  <2> HIDE DEF g, n
  <2> QED BY <1>10, <1>11, <1>12

\* The chains are the sequences the lists hold.
LEMMA ChainsAre ==
  ASSUME ListsAssumption, NEW q, Hold(next, tail, q), NEW l \in HeadList
  PROVE  Chain(l) = q[l]
BY ChainIs DEF Hold

-----------------------------------------------------------------------------
(***************************************************************************)
(* The operations, on the next fields nx and the tails tl.                 *)
(***************************************************************************)

\* Nodes, list heads and NULL are different addresses.
LEMMA Differ ==
  ASSUME ListsAssumption
  PROVE  /\ \A x \in Node : x \in Addr /\ x \notin HeadList /\ x # NULL
         /\ \A l \in HeadList : l \in Addr /\ l \notin Node /\ l # NULL
BY DEF ListsAssumption, Addr

\* A sequence of nodes without repetition.
LEMMA SeqFacts ==
  ASSUME NEW s \in Seq(Node), IsInjective(s)
  PROVE  /\ Len(s) \in Nat /\ DOMAIN s = 1 .. Len(s)
         /\ s = <<>> <=> Len(s) = 0
         /\ \A i \in 1 .. Len(s) : s[i] \in Node /\ s[i] \in Range(s)
         /\ \A x \in Range(s) : x \in Node /\ \E i \in 1 .. Len(s) : x = s[i]
         /\ \A i, j \in 1 .. Len(s) : s[i] = s[j] => i = j
<1>1. Len(s) \in Nat /\ DOMAIN s = 1 .. Len(s) /\ (s = <<>> <=> Len(s) = 0)
  BY LenProperties, EmptySeq
<1>2. \A i \in 1 .. Len(s) : s[i] \in Node /\ s[i] \in Range(s)
  BY <1>1, ElementOfSeq DEF Range
<1>3. \A x \in Range(s) : \E i \in 1 .. Len(s) : x = s[i]
  BY <1>1 DEF Range
<1>4. \A i, j \in 1 .. Len(s) : s[i] = s[j] => i = j
  BY <1>1 DEF IsInjective
<1> QED BY <1>1, <1>2, <1>3, <1>4

\* The elements of a sequence, and of one with p at its end.
LEMMA InNode ==
  ASSUME NEW s \in Seq(Node), NEW x \in Range(s)
  PROVE  x \in Node
BY LenProperties, ElementOfSeq DEF Range

LEMMA RangeAppend ==
  ASSUME NEW s \in Seq(Node), NEW p \in Node
  PROVE  Range(Append(s, p)) = Range(s) \cup {p}
<1>1. /\ Append(s, p) \in Seq(Node) /\ Len(Append(s, p)) = Len(s) + 1
      /\ Append(s, p)[Len(s) + 1] = p /\ \A i \in 1 .. Len(s) : Append(s, p)[i] = s[i]
  BY AppendProperties
<1>2. DOMAIN Append(s, p) = 1 .. Len(s) + 1 /\ DOMAIN s = 1 .. Len(s) /\ Len(s) \in Nat
  BY <1>1, LenProperties
<1> QED BY <1>1, <1>2 DEF Range

\* A list nobody has written to.
LEMMA OtherList ==
  ASSUME NEW nx, NEW tl, NEW l, NEW s, IsList(nx, tl, l, s),
         NEW nx1, NEW tl1, nx1[l] = nx[l], tl1[l] = tl[l],
         \A x \in Range(s) : nx1[x] = nx[x]
  PROVE  IsList(nx1, tl1, l, s)
<1>1. s \in Seq(Node) /\ IsInjective(s) /\ Linked(nx, l, s) /\ Ends(tl, l, s)
  BY DEF IsList
<1>2. /\ Len(s) \in Nat /\ (s = <<>> <=> Len(s) = 0)
      /\ \A i \in 1 .. Len(s) : s[i] \in Range(s)
  BY <1>1, SeqFacts
<1>3. \A i \in 1 .. Len(s) : nx1[s[i]] = nx[s[i]]
  BY <1>2
<1>4. s # <<>> => nx1[s[Len(s)]] = nx[s[Len(s)]]
  BY <1>2, <1>3
<1>5. \A i \in 1 .. Len(s) - 1 : nx1[s[i]] = s[i + 1]
  BY <1>1, <1>2, <1>3 DEF Linked
<1>6. Linked(nx1, l, s)
  BY <1>1, <1>4, <1>5 DEF Linked
<1>7. Ends(tl1, l, s)
  BY <1>1 DEF Ends
<1> QED BY <1>1, <1>6, <1>7 DEF IsList

\* The last node of a list, or the list head: what append_list_tail() links to.
End(l, s) == IF s = <<>> THEN l ELSE s[Len(s)]

\* What append_list_tail() writes appends p to the sequence.
LEMMA AppendOne ==
  ASSUME ListsAssumption, NEW nx, NEW tl, NEW l \in HeadList, NEW s, IsList(nx, tl, l, s),
         NEW p \in Node, p \notin Range(s),
         NEW nx1, nx1[p] = NULL, nx1[End(l, s)] = p,
         \A x \in Addr : x # p /\ x # End(l, s) => nx1[x] = nx[x],
         NEW tl1, tl1[l] = p
  PROVE  IsList(nx1, tl1, l, Append(s, p))
<1> DEFINE n == Len(s)
           r == Append(s, p)
<1>1. s \in Seq(Node) /\ IsInjective(s) /\ Linked(nx, l, s)
  BY DEF IsList
<1>2. /\ n \in Nat /\ (s = <<>> <=> n = 0)
      /\ \A i \in 1 .. n : s[i] \in Node /\ s[i] # p /\ s[i] \in Addr
      /\ \A i, j \in 1 .. n : s[i] = s[j] => i = j
  BY <1>1, SeqFacts, Differ
<1>3. /\ r \in Seq(Node) /\ Len(r) = n + 1 /\ r # <<>> /\ r[n + 1] = p
      /\ \A i \in 1 .. n : r[i] = s[i]
  BY <1>1, AppendProperties
<1>4. l \in Addr /\ l # p
  BY Differ
<1> HIDE DEF r
<1>5. \A i, j \in 1 .. n + 1 : r[i] = r[j] => i = j
  <2> SUFFICES ASSUME NEW i \in 1 .. n + 1, NEW j \in 1 .. n + 1, r[i] = r[j]
               PROVE  i = j
    OBVIOUS
  <2>1. CASE i \in 1 .. n /\ j \in 1 .. n
    BY <1>2, <1>3, <2>1
  <2>2. CASE i \in 1 .. n /\ j = n + 1
    BY <1>2, <1>3, <2>2
  <2>3. CASE i = n + 1 /\ j \in 1 .. n
    BY <1>2, <1>3, <2>3
  <2>4. CASE i = n + 1 /\ j = n + 1
    BY <2>4
  <2>5. \A k \in 1 .. n + 1 : k \in 1 .. n \/ k = n + 1
    BY <1>2
  <2> QED BY <2>1, <2>2, <2>3, <2>4, <2>5
<1>6. IsInjective(r)
  BY <1>3, <1>5, LenProperties DEF IsInjective
<1>7. nx1[l] = r[1]
  <2>1. CASE n = 0
    BY <1>2, <1>3, <2>1 DEF End
  <2>2. CASE n # 0
    <3>1. 1 \in 1 .. n /\ n \in 1 .. n /\ s # <<>> /\ End(l, s) = s[n]
      BY <1>2, <2>2 DEF End
    <3>2. l # End(l, s)
      BY <1>2, <3>1, Differ
    <3>3. nx1[l] = nx[l] /\ nx[l] = s[1]
      BY <1>1, <1>4, <3>1, <3>2 DEF Linked
    <3> QED BY <1>3, <3>1, <3>3
  <2> QED BY <2>1, <2>2
<1>8. ASSUME NEW i \in 1 .. n  PROVE nx1[r[i]] = r[i + 1]
  <2>1. s # <<>> /\ End(l, s) = s[n] /\ r[i] = s[i]
    BY <1>2, <1>3 DEF End
  <2>2. CASE i = n
    BY <1>3, <2>1, <2>2
  <2>3. CASE i # n
    <3>1. i \in 1 .. n - 1 /\ i + 1 \in 1 .. n /\ n \in 1 .. n
      BY <1>2, <2>3
    <3>2. s[i] # End(l, s)
      BY <1>2, <2>1, <2>3, <3>1
    <3>3. nx1[s[i]] = nx[s[i]]
      BY <1>2, <3>2
    <3>4. nx[s[i]] = s[i + 1]
      BY <1>1, <3>1 DEF Linked
    <3> QED BY <1>3, <2>1, <3>1, <3>3, <3>4
  <2> QED BY <2>2, <2>3
<1>9. Linked(nx1, l, r)
  <2>1. Len(r) - 1 = n /\ Len(r) = n + 1
    BY <1>2, <1>3
  <2>2. nx1[r[Len(r)]] = NULL
    BY <1>3, <2>1
  <2> QED BY <1>3, <1>7, <1>8, <2>1, <2>2 DEF Linked
<1>10. Ends(tl1, l, r)
  BY <1>3 DEF Ends
<1> QED BY <1>3, <1>6, <1>9, <1>10 DEF IsList, r

\* A sequence without its element i, and what is linked to that element.
Without(s, i) == [j \in 1 .. Len(s) - 1 |-> IF j < i THEN s[j] ELSE s[j + 1]]
Before(l, s, i) == IF i = 1 THEN l ELSE s[i - 1]

\* It has the other elements, in the same order.
LEMMA WithoutIs ==
  ASSUME NEW s \in Seq(Node), IsInjective(s), NEW i \in 1 .. Len(s)
  PROVE  LET r == Without(s, i)
         IN  /\ r \in Seq(Node) /\ IsInjective(r) /\ Len(r) = Len(s) - 1
             /\ \A j \in 1 .. Len(s) - 1 : j < i => r[j] = s[j]
             /\ \A j \in 1 .. Len(s) - 1 : j >= i => r[j] = s[j + 1]
             /\ Range(r) = Range(s) \ {s[i]}
<1> DEFINE n == Len(s)
           r == Without(s, i)
<1>1. /\ n \in Nat /\ i \in Nat
      /\ \A j \in 1 .. n : s[j] \in Node /\ s[j] \in Range(s)
      /\ \A x \in Range(s) : \E j \in 1 .. n : x = s[j]
      /\ \A j, k \in 1 .. n : s[j] = s[k] => j = k
  BY SeqFacts
<1>2. r = [j \in 1 .. n - 1 |-> IF j < i THEN s[j] ELSE s[j + 1]]
  BY DEF Without
<1> HIDE DEF n, r
<1>3. \A j \in 1 .. n - 1 : j < i => r[j] = s[j]
  BY <1>2
<1>4. \A j \in 1 .. n - 1 : j >= i => r[j] = s[j + 1]
  BY <1>1, <1>2
<1>5. \A j \in 1 .. n - 1 : j \in 1 .. n /\ j + 1 \in 1 .. n /\ (j < i \/ j >= i)
  BY <1>1
<1>6. r \in [1 .. n - 1 -> Node]
  BY <1>1, <1>2, <1>5
<1>7. r \in Seq(Node) /\ Len(r) = n - 1 /\ DOMAIN r = 1 .. n - 1
  <2>1. n - 1 \in Nat
    BY <1>1 DEF n
  <2> QED BY <1>6, <2>1, SeqDef
<1>8. IsInjective(r)
  <2> SUFFICES ASSUME NEW j \in 1 .. n - 1, NEW k \in 1 .. n - 1, r[j] = r[k]
               PROVE  j = k
    BY <1>7 DEF IsInjective
  <2>1. CASE j < i /\ k < i
    BY <1>1, <1>3, <1>5, <2>1
  <2>2. CASE j < i /\ k >= i
    <3>1. s[j] = s[k + 1] /\ j \in 1 .. n /\ k + 1 \in 1 .. n
      BY <1>3, <1>4, <1>5, <2>2
    <3>2. j = k + 1
      BY <1>1, <3>1
    <3> QED BY <1>1, <2>2, <3>2
  <2>3. CASE j >= i /\ k < i
    <3>1. s[j + 1] = s[k] /\ j + 1 \in 1 .. n /\ k \in 1 .. n
      BY <1>3, <1>4, <1>5, <2>3
    <3>2. j + 1 = k
      BY <1>1, <3>1
    <3> QED BY <1>1, <2>3, <3>2
  <2>4. CASE j >= i /\ k >= i
    <3>1. s[j + 1] = s[k + 1] /\ j + 1 \in 1 .. n /\ k + 1 \in 1 .. n
      BY <1>4, <1>5, <2>4
    <3>2. j + 1 = k + 1
      BY <1>1, <3>1
    <3> QED BY <3>2
  <2> QED BY <1>5, <2>1, <2>2, <2>3, <2>4
<1>9. Range(r) = Range(s) \ {s[i]}
  <2>1. ASSUME NEW j \in 1 .. n - 1  PROVE r[j] \in Range(s) \ {s[i]}
    <3>1. CASE j < i
      <4>1. j \in 1 .. n /\ i \in 1 .. n /\ j # i /\ r[j] = s[j]
        BY <1>1, <1>3, <1>5, <3>1 DEF n
      <4> QED BY <1>1, <4>1
    <3>2. CASE j >= i
      <4>1. j + 1 \in 1 .. n /\ i \in 1 .. n /\ j + 1 # i /\ r[j] = s[j + 1]
        BY <1>1, <1>4, <1>5, <3>2 DEF n
      <4> QED BY <1>1, <4>1
    <3> QED BY <1>5, <3>1, <3>2
  <2>2. ASSUME NEW j \in 1 .. n, s[j] # s[i]  PROVE s[j] \in Range(r)
    <3>1. CASE j < i
      <4>1. j \in 1 .. n - 1 /\ r[j] = s[j]
        BY <1>1, <1>3, <3>1 DEF n
      <4> QED BY <1>7, <4>1 DEF Range
    <3>2. CASE j > i
      <4>1. j - 1 \in 1 .. n - 1 /\ j - 1 >= i /\ (j - 1) + 1 = j
        BY <1>1, <3>2 DEF n
      <4>2. r[j - 1] = s[j]
        BY <1>4, <4>1
      <4> QED BY <1>7, <4>1, <4>2 DEF Range
    <3>3. j # i
      BY <2>2
    <3> QED BY <1>1, <3>1, <3>2, <3>3
  <2>3. Range(r) \subseteq Range(s) \ {s[i]}
    BY <1>7, <2>1 DEF Range
  <2>4. Range(s) \ {s[i]} \subseteq Range(r)
    BY <1>1, <2>2
  <2> QED BY <2>3, <2>4
<1> QED BY <1>3, <1>4, <1>7, <1>8, <1>9 DEF n, r

\* What remove_list() writes to unlink element i.
Unlinked(nx, tl, l, s, i, nx1, tl1) ==
  /\ nx1[Before(l, s, i)] = nx[s[i]]
  /\ \A x \in Addr : x # Before(l, s, i) => nx1[x] = nx[x]
  /\ tl1[l] = IF nx[s[i]] # NULL THEN tl[l] ELSE IF i = 1 THEN NULL ELSE s[i - 1]

\* Unlinking element i takes it out of the sequence.
LEMMA RemoveOne ==
  ASSUME ListsAssumption, NEW nx, NEW tl, NEW l \in HeadList, NEW s, IsList(nx, tl, l, s),
         NEW i \in 1 .. Len(s), NEW nx1, NEW tl1, Unlinked(nx, tl, l, s, i, nx1, tl1)
  PROVE  IsList(nx1, tl1, l, Without(s, i))
<1> USE DEF Unlinked
<1> DEFINE n == Len(s)
           r == Without(s, i)
<1>1. s \in Seq(Node) /\ IsInjective(s) /\ Linked(nx, l, s) /\ Ends(tl, l, s)
  BY DEF IsList
<1>2. /\ n \in Nat /\ i \in Nat /\ i \in 1 .. n /\ s # <<>> /\ n \in 1 .. n
      /\ \A j \in 1 .. n : s[j] \in Node /\ s[j] \in Addr /\ s[j] # NULL /\ s[j] # l
      /\ \A j, k \in 1 .. n : s[j] = s[k] => j = k
  BY <1>1, SeqFacts, Differ
<1>3. /\ r \in Seq(Node) /\ IsInjective(r) /\ Len(r) = n - 1
      /\ \A j \in 1 .. n - 1 : j < i => r[j] = s[j]
      /\ \A j \in 1 .. n - 1 : j >= i => r[j] = s[j + 1]
  BY <1>1, WithoutIs
<1>4. l \in Addr
  BY Differ
<1>5. r = <<>> <=> n = 1
  <2>1. r = <<>> <=> Len(r) = 0
    BY <1>3, EmptySeq
  <2> QED BY <1>2, <1>3, <2>1
<1> HIDE DEF r, n
<1>6. /\ nx[l] = s[1] /\ nx[s[n]] = NULL /\ tl[l] = s[n]
      /\ \A j \in 1 .. n - 1 : nx[s[j]] = s[j + 1]
  BY <1>1, <1>2 DEF Linked, Ends, n
\* What the neighbours of element i know.
<1>7. /\ i = 1 => nx1[l] = nx[s[i]]
      /\ i # 1 => i - 1 \in 1 .. n - 1 /\ nx1[s[i - 1]] = nx[s[i]] /\ nx1[l] = s[1]
  <2>1. CASE i = 1
    BY <2>1 DEF Before
  <2>2. CASE i # 1
    <3>1. i - 1 \in 1 .. n - 1 /\ i - 1 \in 1 .. n
      BY <1>2, <2>2
    <3>2. nx1[s[i - 1]] = nx[s[i]]
      BY <2>2 DEF Before
    <3>3. l # Before(l, s, i)
      BY <1>2, <2>2, <3>1 DEF Before
    <3> QED BY <1>4, <1>6, <2>2, <3>1, <3>2, <3>3
  <2> QED BY <2>1, <2>2
<1>8. ASSUME NEW j \in 1 .. n, j # i - 1  PROVE nx1[s[j]] = nx[s[j]]
  <2>1. s[j] # Before(l, s, i)
    <3>1. CASE i = 1
      BY <1>2, <3>1 DEF Before
    <3>2. CASE i # 1
      <4>1. i - 1 \in 1 .. n
        BY <1>2, <3>2
      <4> QED BY <1>2, <1>8, <3>2, <4>1 DEF Before
    <3> QED BY <3>1, <3>2
  <2> QED BY <1>2, <2>1
<1>9. nx[s[i]] = NULL <=> i = n
  <2>1. CASE i = n
    BY <1>6, <2>1
  <2>2. CASE i # n
    <3>1. i \in 1 .. n - 1 /\ i + 1 \in 1 .. n
      BY <1>2, <2>2
    <3> QED BY <1>2, <1>6, <2>2, <3>1
  <2> QED BY <2>1, <2>2
<1>10. i # n => i \in 1 .. n - 1 /\ nx[s[i]] = s[i + 1]
  BY <1>2, <1>6
<1>11. n = 1 => nx1[l] = NULL /\ tl1[l] = NULL
  <2> SUFFICES ASSUME n = 1 PROVE nx1[l] = NULL /\ tl1[l] = NULL
    OBVIOUS
  <2>1. i = 1 /\ i = n
    BY <1>2
  <2> QED BY <1>7, <1>9, <2>1
<1>12. n # 1 => nx1[l] = r[1]
  <2> SUFFICES ASSUME n # 1 PROVE nx1[l] = r[1]
    OBVIOUS
  <2>1. 1 \in 1 .. n - 1
    BY <1>2
  <2>2. CASE i = 1
    <3>1. r[1] = s[2] /\ i # n
      BY <1>2, <1>3, <2>1, <2>2
    <3> QED BY <1>7, <1>10, <2>2, <3>1
  <2>3. CASE i # 1
    <3>1. 1 < i
      BY <1>2, <2>3
    <3> QED BY <1>3, <1>7, <2>1, <2>3, <3>1
  <2> QED BY <2>2, <2>3
<1>13. n # 1 => nx1[r[n - 1]] = NULL /\ tl1[l] = r[n - 1]
  <2> SUFFICES ASSUME n # 1 PROVE nx1[r[n - 1]] = NULL /\ tl1[l] = r[n - 1]
    OBVIOUS
  <2>1. n - 1 \in 1 .. n - 1 /\ (n - 1) + 1 = n
    BY <1>2
  <2>2. CASE i = n
    <3>1. r[n - 1] = s[n - 1] /\ i # 1
      BY <1>2, <1>3, <2>1, <2>2
    <3> QED BY <1>7, <1>9, <2>2, <3>1
  <2>3. CASE i # n
    <3>1. n - 1 >= i /\ n # i - 1
      BY <1>2, <2>3
    <3>2. r[n - 1] = s[n]
      BY <1>3, <2>1, <3>1
    <3>3. nx1[s[n]] = NULL
      BY <1>2, <1>6, <1>8, <3>1
    <3> QED BY <1>6, <1>9, <2>3, <3>2, <3>3
  <2> QED BY <2>2, <2>3
<1>14. ASSUME NEW j \in 1 .. n - 2  PROVE nx1[r[j]] = r[j + 1]
  <2>1. j \in 1 .. n - 1 /\ j + 1 \in 1 .. n - 1 /\ j \in 1 .. n /\ j + 1 \in 1 .. n /\ j \in Nat
    BY <1>2
  <2>2. CASE j < i - 1
    <3>1. r[j] = s[j] /\ r[j + 1] = s[j + 1] /\ j # i - 1
      BY <1>2, <1>3, <2>1, <2>2
    <3> QED BY <1>6, <1>8, <2>1, <3>1
  <2>3. CASE j = i - 1
    <3>1. i # 1 /\ j < i /\ j + 1 >= i /\ (j + 1) + 1 = i + 1 /\ i # n
      BY <1>2, <2>1, <2>3
    <3>2. r[j] = s[i - 1] /\ r[j + 1] = s[i + 1]
      BY <1>3, <2>1, <2>3, <3>1
    <3> QED BY <1>7, <1>10, <3>1, <3>2
  <2>4. CASE j >= i
    <3>1. j + 1 >= i /\ j + 1 # i - 1
      BY <1>2, <2>1, <2>4
    <3>2. r[j] = s[j + 1] /\ r[j + 1] = s[(j + 1) + 1]
      BY <1>3, <2>1, <2>4, <3>1
    <3> QED BY <1>6, <1>8, <2>1, <3>1, <3>2
  <2> QED BY <1>2, <2>1, <2>2, <2>3, <2>4
<1>15. Len(r) - 1 = n - 2
  BY <1>2, <1>3
<1>16. Linked(nx1, l, r)
  BY <1>3, <1>5, <1>11, <1>12, <1>13, <1>14, <1>15 DEF Linked
<1>17. Ends(tl1, l, r)
  BY <1>3, <1>5, <1>11, <1>13 DEF Ends
<1> QED BY <1>3, <1>16, <1>17 DEF IsList, r

\* Where the heads and the other lists are untouched, and l is now r.
OthersKept(nx, tl, q, l, r, nx1, tl1) ==
  \A m \in HeadList : m # l =>
    /\ nx1[m] = nx[m] /\ tl1[m] = tl[m]
    /\ \A x \in Range(q[m]) : nx1[x] = nx[x]
    /\ Range(r) \cap Range(q[m]) = {}

\* Writing one list leaves the others.
LEMMA HoldNew ==
  ASSUME NEW nx, NEW tl, NEW q, Hold(nx, tl, q), NEW l \in HeadList, NEW r,
         NEW nx1 \in [Addr -> Node \cup {NULL}], NEW tl1 \in [HeadList -> Node \cup {NULL}],
         IsList(nx1, tl1, l, r), OthersKept(nx, tl, q, l, r, nx1, tl1)
  PROVE  Hold(nx1, tl1, [q EXCEPT ![l] = r])
<1> DEFINE q1 == [q EXCEPT ![l] = r]
<1>1. r \in Seq(Node)
  BY DEF IsList
<1>2. q \in [HeadList -> Seq(Node)]
  BY DEF Hold
<1>3. /\ q1 \in [HeadList -> Seq(Node)] /\ q1[l] = r
      /\ \A m \in HeadList : m # l => q1[m] = q[m]
  BY <1>1, <1>2
<1> HIDE DEF q1
<1> USE DEF OthersKept
<1>4. ASSUME NEW m \in HeadList  PROVE IsList(nx1, tl1, m, q1[m])
  <2>1. CASE m = l
    BY <1>3, <2>1
  <2>2. CASE m # l
    <3>1. IsList(nx, tl, m, q[m])
      BY DEF Hold
    <3>2. IsList(nx1, tl1, m, q[m])
      BY <2>2, <3>1, OtherList
    <3> QED BY <1>3, <2>2, <3>2
  <2> QED BY <2>1, <2>2
<1>5. ASSUME NEW k \in HeadList, NEW m \in HeadList, k # m
      PROVE  Range(q1[k]) \cap Range(q1[m]) = {}
  <2>1. CASE k = l
    BY <1>3, <1>5, <2>1
  <2>2. CASE m = l
    BY <1>3, <1>5, <2>2
  <2>3. CASE k # l /\ m # l
    BY <1>3, <1>5, <2>3 DEF Hold
  <2> QED BY <2>1, <2>2, <2>3
<1>6. Hold(nx1, tl1, q1)
  BY <1>3, <1>4, <1>5 DEF Hold
<1> QED BY <1>6 DEF q1

-----------------------------------------------------------------------------
(***************************************************************************)
(* What the functions of lib.c do to the sequences.                        *)
(***************************************************************************)

\* The nodes on the lists.
LEMMA OnListIs ==
  ASSUME ListsAssumption, NEW q, Hold(next, tail, q), NEW p
  PROVE  p \in OnList <=> \E l \in HeadList : p \in Range(q[l])
BY ChainsAre DEF OnList

\* append_list_tail() appends.
LEMMA AppendStep ==
  ASSUME ListsAssumption, NEW q, Hold(next, tail, q), NEW l \in HeadList, NEW p \in Node,
         p \notin OnList, append_list_tail(l, p)
  PROVE  Hold(next', tail', [q EXCEPT ![l] = Append(@, p)])
<1> DEFINE s == q[l]
           e == End(l, s)
<1>1. /\ next \in [Addr -> Node \cup {NULL}] /\ tail \in [HeadList -> Node \cup {NULL}]
      /\ IsList(next, tail, l, s)
  BY DEF Hold
<1>2. s \in Seq(Node) /\ IsInjective(s) /\ Linked(next, l, s) /\ Ends(tail, l, s)
  BY <1>1 DEF IsList
<1>3. \A m \in HeadList : p \notin Range(q[m])
  BY OnListIs
<1>4. e \in Addr /\ e # p /\ p \in Addr /\ (e = l \/ e \in Range(s))
  BY <1>2, <1>3, SeqFacts, Differ DEF End
<1>5. (IF is_list_empty(l) THEN l ELSE tail[l]) = e
  <2>1. s # <<>> => s[1] # NULL
    BY <1>2, SeqFacts, Differ
  <2> QED BY <1>2, <2>1 DEF is_list_empty, Linked, Ends, End
<1>6. /\ next' = [next EXCEPT ![p] = NULL, ![e] = p]
      /\ tail' = [tail EXCEPT ![l] = p]
  BY <1>5 DEF append_list_tail
<1> HIDE DEF e, s
<1>7. /\ next' \in [Addr -> Node \cup {NULL}] /\ next'[p] = NULL /\ next'[e] = p
      /\ \A x \in Addr : x # p /\ x # e => next'[x] = next[x]
  BY <1>1, <1>4, <1>6
<1>8. /\ tail' \in [HeadList -> Node \cup {NULL}] /\ tail'[l] = p
      /\ \A m \in HeadList : m # l => tail'[m] = tail[m]
  BY <1>1, <1>6
<1>9. IsList(next', tail', l, Append(s, p))
  <2>1. p \notin Range(s)
    BY <1>3 DEF s
  <2> QED BY <1>1, <1>7, <1>8, <2>1, AppendOne DEF e
<1>10. Range(Append(s, p)) = Range(s) \cup {p}
  BY <1>2, RangeAppend
<1>11. ASSUME NEW m \in HeadList, m # l
       PROVE  /\ next'[m] = next[m] /\ tail'[m] = tail[m]
              /\ \A x \in Range(q[m]) : next'[x] = next[x]
              /\ Range(Append(s, p)) \cap Range(q[m]) = {}
  <2>1. Range(s) \cap Range(q[m]) = {} /\ q[m] \in Seq(Node) /\ IsInjective(q[m])
    BY <1>11 DEF Hold, IsList, s
  <2>2. m \in Addr /\ m \notin Node /\ l \notin Node
    BY Differ
  <2>3. m # e /\ m # p
    BY <1>2, <1>4, <1>11, <2>2, SeqFacts
  <2>4. ASSUME NEW x \in Range(q[m])  PROVE x \in Addr /\ x # p /\ x # e
    <3>1. x \in Node /\ x \in Addr
      BY <2>1, SeqFacts, Differ
    <3> QED BY <1>3, <1>4, <2>1, <2>2, <3>1
  <2> QED BY <1>3, <1>7, <1>8, <1>10, <1>11, <2>1, <2>2, <2>3, <2>4
<1>12. OthersKept(next, tail, q, l, Append(s, p), next', tail')
  BY <1>11 DEF OthersKept
<1>13. Hold(next', tail', [q EXCEPT ![l] = Append(s, p)])
  BY <1>7, <1>8, <1>9, <1>12, HoldNew
<1> QED BY <1>13 DEF s

\* Unlinking element i of list l.
LEMMA UnlinkStep ==
  ASSUME ListsAssumption, NEW q, Hold(next, tail, q), NEW l \in HeadList,
         NEW i \in 1 .. Len(q[l]),
         next' = [next EXCEPT ![Before(l, q[l], i)] = next[q[l][i]]],
         tail' = IF next[q[l][i]] # NULL THEN tail
                 ELSE [tail EXCEPT ![l] = IF i = 1 THEN NULL ELSE q[l][i - 1]]
  PROVE  Hold(next', tail', [q EXCEPT ![l] = Without(@, i)])
<1> DEFINE s == q[l]
           b == Before(l, s, i)
           r == Without(s, i)
<1>1. /\ next \in [Addr -> Node \cup {NULL}] /\ tail \in [HeadList -> Node \cup {NULL}]
      /\ IsList(next, tail, l, s)
  BY DEF Hold
<1>2. s \in Seq(Node) /\ IsInjective(s)
  BY <1>1 DEF IsList
<1>3. i \in 1 .. Len(s) /\ s[i] \in Addr
  BY <1>2, SeqFacts, Differ
<1>4. i # 1 => s[i - 1] \in Node /\ s[i - 1] \in Range(s)
  <2>1. Len(s) \in Nat /\ \A j \in 1 .. Len(s) : s[j] \in Node /\ s[j] \in Range(s)
    BY <1>2, SeqFacts
  <2>2. i # 1 => i - 1 \in 1 .. Len(s)
    BY <1>3, <2>1
  <2> QED BY <2>1, <2>2
<1>5. b \in Addr /\ (b = l \/ b \in Range(s))
  BY <1>4, Differ DEF Before
<1>6. /\ next' = [next EXCEPT ![b] = next[s[i]]]
      /\ tail' = IF next[s[i]] # NULL THEN tail
                 ELSE [tail EXCEPT ![l] = IF i = 1 THEN NULL ELSE s[i - 1]]
  OBVIOUS
<1>7. Range(r) \subseteq Range(s)
  BY <1>2, <1>3, WithoutIs
<1> HIDE DEF b, s, r
<1>8. /\ next' \in [Addr -> Node \cup {NULL}] /\ next'[b] = next[s[i]]
      /\ \A x \in Addr : x # b => next'[x] = next[x]
  BY <1>1, <1>3, <1>5, <1>6
<1>9. /\ tail' \in [HeadList -> Node \cup {NULL}]
      /\ tail'[l] = IF next[s[i]] # NULL THEN tail[l]
                    ELSE IF i = 1 THEN NULL ELSE s[i - 1]
      /\ \A m \in HeadList : m # l => tail'[m] = tail[m]
  BY <1>1, <1>4, <1>6
<1>10. IsList(next', tail', l, r)
  <2>1. Unlinked(next, tail, l, s, i, next', tail')
    BY <1>8, <1>9 DEF Unlinked, b
  <2> QED BY <1>1, <1>3, <2>1, RemoveOne DEF r
<1>11. ASSUME NEW m \in HeadList, m # l
       PROVE  /\ next'[m] = next[m] /\ tail'[m] = tail[m]
              /\ \A x \in Range(q[m]) : next'[x] = next[x]
              /\ Range(r) \cap Range(q[m]) = {}
  <2>1. Range(s) \cap Range(q[m]) = {} /\ q[m] \in Seq(Node) /\ IsInjective(q[m])
    BY <1>11 DEF Hold, IsList, s
  <2>2. m \in Addr /\ m \notin Node /\ l \notin Node
    BY Differ
  <2>3. m # b
    BY <1>2, <1>5, <1>11, <2>2, SeqFacts
  <2>4. ASSUME NEW x \in Range(q[m])  PROVE x \in Addr /\ x # b
    <3>1. x \in Node /\ x \in Addr
      BY <2>1, SeqFacts, Differ
    <3> QED BY <1>5, <2>1, <2>2, <3>1
  <2> QED BY <1>7, <1>8, <1>9, <1>11, <2>1, <2>2, <2>3, <2>4
<1>12. OthersKept(next, tail, q, l, r, next', tail')
  BY <1>11 DEF OthersKept
<1>13. Hold(next', tail', [q EXCEPT ![l] = r])
  BY <1>8, <1>9, <1>10, <1>12, HoldNew
<1> QED BY <1>13 DEF s, r

\* A list is empty when its sequence is; otherwise its head is the first.
LEMMA HeadIs ==
  ASSUME ListsAssumption, NEW q, Hold(next, tail, q), NEW l \in HeadList
  PROVE  /\ is_list_empty(l) <=> q[l] = <<>>
         /\ q[l] # <<>> => 1 \in 1 .. Len(q[l]) /\ next[l] = q[l][1]
<1>1. q[l] \in Seq(Node) /\ IsInjective(q[l]) /\ Linked(next, l, q[l])
  BY DEF Hold, IsList
<1>2. q[l] # <<>> => 1 \in 1 .. Len(q[l]) /\ q[l][1] # NULL
  BY <1>1, SeqFacts, Differ
<1> QED BY <1>1, <1>2 DEF is_list_empty, Linked

\* remove_list_head() takes the first element.
LEMMA RemoveHeadStep ==
  ASSUME ListsAssumption, NEW q, Hold(next, tail, q), NEW l \in HeadList,
         remove_list_head(l)
  PROVE  /\ wait' = wait
         /\ q[l] = <<>> => item' = NULL /\ Hold(next', tail', q)
         /\ q[l] # <<>> => /\ item' = q[l][1]
                           /\ Hold(next', tail', [q EXCEPT ![l] = Without(@, 1)])
<1>1. CASE q[l] = <<>>
  BY <1>1, HeadIs DEF remove_list_head
<1>2. CASE q[l] # <<>>
  <2>1. 1 \in 1 .. Len(q[l]) /\ next[l] = q[l][1] /\ ~is_list_empty(l)
    BY <1>2, HeadIs
  <2>2. /\ item' = next[l] /\ next' = [next EXCEPT ![l] = next[next[l]]] /\ wait' = wait
        /\ tail' = IF next[next[l]] = NULL THEN [tail EXCEPT ![l] = NULL] ELSE tail
    BY <2>1 DEF remove_list_head
  <2>3. Before(l, q[l], 1) = l
    BY DEF Before
  <2>4. /\ next' = [next EXCEPT ![Before(l, q[l], 1)] = next[q[l][1]]]
        /\ tail' = IF next[q[l][1]] # NULL THEN tail
                   ELSE [tail EXCEPT ![l] = IF 1 = 1 THEN NULL ELSE q[l][1 - 1]]
    BY <2>1, <2>2, <2>3
  <2>5. Hold(next', tail', [q EXCEPT ![l] = Without(@, 1)])
    BY <2>1, <2>4, UnlinkStep
  <2> QED BY <1>2, <2>1, <2>2, <2>5
<1> QED BY <1>1, <1>2

\* The first element of s with the wait field w.
IsFirst(s, w, i) ==
  /\ i \in 1 .. Len(s) /\ wait[s[i]] = w
  /\ \A j \in 1 .. Len(s) : wait[s[j]] = w => i <= j

\* remove_list() takes the first element with the wait field, if there is one.
LEMMA RemoveStep ==
  ASSUME ListsAssumption, NEW q, Hold(next, tail, q), NEW l \in HeadList, NEW w,
         remove_list(l, w)
  PROVE  /\ wait' = wait
         /\ \/ /\ \A i \in 1 .. Len(q[l]) : wait[q[l][i]] # w
               /\ item' = NULL /\ Hold(next', tail', q)
            \/ \E i \in 1 .. Len(q[l]) :
                 /\ IsFirst(q[l], w, i) /\ item' = q[l][i]
                 /\ Hold(next', tail', [q EXCEPT ![l] = Without(@, i)])
<1> DEFINE s == q[l]
<1>1. Chain(l) = s
  BY ChainsAre
<1>2. s \in Seq(Node) /\ IsInjective(s) /\ Linked(next, l, s)
  BY DEF Hold, IsList
<1>3. Len(s) \in Nat /\ DOMAIN s = 1 .. Len(s)
  BY <1>2, SeqFacts
<1>4. Matches(l, w) = {i \in 1 .. Len(s) : wait[s[i]] = w}
  BY <1>1, <1>3 DEF Matches
<1>5. CASE Matches(l, w) = {}
  <2>1. item' = NULL /\ UNCHANGED <<next, tail, wait>>
    BY <1>5 DEF remove_list
  <2> QED BY <1>4, <1>5, <2>1
<1>6. CASE Matches(l, w) # {}
  <2> DEFINE i == FirstMatch(l, w)
  <2>1. i \in Matches(l, w) /\ \A j \in Matches(l, w) : i <= j
    <3>1. Matches(l, w) \subseteq Nat
      BY <1>4
    <3>2. \E k \in Matches(l, w) : \A j \in Matches(l, w) : k <= j
      BY <1>6, <3>1, LeastElement
    <3> QED BY <3>2 DEF FirstMatch
  <2>2. i \in 1 .. Len(s) /\ IsFirst(s, w, i)
    BY <1>4, <2>1 DEF IsFirst
  <2>3. LET current == s[i]
            prev == IF i = 1 THEN l ELSE s[i - 1]
        IN  item' = current /\ Unlink(l, prev, current) /\ wait' = wait
    BY <1>1, <1>6 DEF remove_list
  <2> HIDE DEF i
  <2>4. i # 1 => s[i - 1] # l
    <3>1. i # 1 => i - 1 \in 1 .. Len(s)
      BY <1>3, <2>2
    <3> QED BY <1>2, <3>1, SeqFacts, Differ
  <2>5. /\ item' = s[i] /\ wait' = wait
        /\ next' = [next EXCEPT ![Before(l, s, i)] = next[s[i]]]
        /\ tail' = IF next[s[i]] # NULL THEN tail
                   ELSE [tail EXCEPT ![l] = IF i = 1 THEN NULL ELSE s[i - 1]]
    BY <2>3, <2>4 DEF Unlink, Before
  <2>6. Hold(next', tail', [q EXCEPT ![l] = Without(@, i)])
    BY <2>2, <2>5, UnlinkStep
  <2> QED BY <2>2, <2>5, <2>6
<1> QED BY <1>5, <1>6

-----------------------------------------------------------------------------
(***************************************************************************)
(* Selecting the sleepers of an event from the wait list.                  *)
(***************************************************************************)

\* Induction up to n, on a set of numbers.
LEMMA UpTo ==
  ASSUME NEW n \in Nat, NEW T, 0 \in T, \A i \in 1 .. n : i - 1 \in T => i \in T
  PROVE  \A i \in 0 .. n : i \in T
<1> DEFINE U == {i \in 0 .. n : i \notin T}
<1>1. ASSUME U # {}  PROVE FALSE
  <2>1. PICK i \in U : \A j \in U : i <= j
    <3>1. U \subseteq Nat
      OBVIOUS
    <3> HIDE DEF U
    <3> QED BY <1>1, <3>1, LeastElement
  <2>2. i \in 1 .. n
    BY <2>1
  <2>3. i - 1 \in 0 .. n /\ i - 1 \notin U
    BY <2>1, <2>2
  <2> QED BY <2>1, <2>2, <2>3
<1> QED BY <1>1

\* One step of a selection g.
Select(s, w, e, g, i) ==
  IF i = 0 THEN <<>> ELSE IF w[s[i]] = e THEN Append(g[i - 1], s[i]) ELSE g[i - 1]

\* There is a selection from every sequence.
LEMMA SelectionExists ==
  ASSUME NEW s, NEW w, NEW e, NEW n \in Nat
  PROVE  \E g : g = [i \in 0 .. n |-> Select(s, w, e, g, i)]
<1> DEFINE T == {k \in 0 .. n : \E g : g = [i \in 0 .. k |-> Select(s, w, e, g, i)]}
<1>1. 0 \in T
  <2> DEFINE g == [i \in 0 .. 0 |-> <<>>]
  <2>1. \A i \in 0 .. 0 : Select(s, w, e, g, i) = <<>>
    BY DEF Select
  <2>2. g = [i \in 0 .. 0 |-> Select(s, w, e, g, i)]
    BY <2>1
  <2> QED BY <2>2
<1>2. ASSUME NEW k \in 1 .. n, k - 1 \in T  PROVE k \in T
  <2>1. PICK g : g = [i \in 0 .. k - 1 |-> Select(s, w, e, g, i)]
    BY <1>2
  <2> DEFINE h == [i \in 0 .. k |-> IF i = k THEN Select(s, w, e, g, k) ELSE g[i]]
  <2>2. \A i \in 0 .. k - 1 : h[i] = g[i]
    BY <1>2
  <2>3. ASSUME NEW i \in 0 .. k  PROVE h[i] = Select(s, w, e, h, i)
    <3>1. Select(s, w, e, h, i) = Select(s, w, e, g, i)
      <4>1. i # 0 => i - 1 \in 0 .. k - 1
        OBVIOUS
      <4> HIDE DEF h
      <4> QED BY <2>2, <4>1 DEF Select
    <3>2. CASE i = k
      BY <3>1, <3>2
    <3>3. CASE i # k
      <4>1. i \in 0 .. k - 1 /\ h[i] = g[i]
        BY <2>2, <3>3
      <4>2. g[i] = Select(s, w, e, g, i)
        BY <2>1, <4>1
      <4> HIDE DEF h
      <4> QED BY <3>1, <4>1, <4>2
    <3> QED BY <3>2, <3>3
  <2>4. h = [i \in 0 .. k |-> Select(s, w, e, h, i)]
    <3>1. h = [i \in 0 .. k |-> h[i]]
      OBVIOUS
    <3> HIDE DEF h
    <3> QED BY <2>3, <3>1
  <2> HIDE DEF h
  <2> QED BY <1>2, <2>4
<1>3. n \in T
  <2> HIDE DEF T
  <2> QED BY <1>1, <1>2, UpTo
<1> QED BY <1>3

\* Selected is one.
LEMMA SelectedIs ==
  ASSUME NEW s \in Seq(Node), NEW w, NEW e
  PROVE  \A i \in 0 .. Len(s) : Selected(s, w, e)[i] = Select(s, w, e, Selected(s, w, e), i)
<1> DEFINE g == CHOOSE g : g = [i \in 0 .. Len(s) |-> Select(s, w, e, g, i)]
<1>1. Selected(s, w, e) = g
  BY DEF Selected, Select
<1>2. Len(s) \in Nat
  BY LenProperties
<1>3. g = [i \in 0 .. Len(s) |-> Select(s, w, e, g, i)]
  BY <1>2, SelectionExists
<1> HIDE DEF g
<1> QED BY <1>1, <1>3

\* The first n steps of a selection g, case by case.
Steps(s, w, e, g, n) ==
  \A i \in 1 .. n : /\ w[s[i]] = e => g[i] = Append(g[i - 1], s[i])
                    /\ w[s[i]] # e => g[i] = g[i - 1]

LEMMA SelectedStep ==
  ASSUME NEW s \in Seq(Node), NEW w, NEW e
  PROVE  /\ Selected(s, w, e)[0] = <<>>
         /\ Steps(s, w, e, Selected(s, w, e), Len(s))
<1> DEFINE g == Selected(s, w, e)
<1>1. Len(s) \in Nat
  BY LenProperties
<1>2. \A i \in 0 .. Len(s) : g[i] = Select(s, w, e, g, i)
  BY SelectedIs
<1> HIDE DEF g
<1>3. 0 \in 0 .. Len(s) /\ \A i \in 1 .. Len(s) : i \in 0 .. Len(s) /\ i # 0
  BY <1>1
<1>4. g[0] = <<>>
  BY <1>2, <1>3 DEF Select
<1>5. Steps(s, w, e, g, Len(s))
  BY <1>2, <1>3 DEF Select, Steps
<1> QED BY <1>4, <1>5 DEF g

\* What is selected are elements of the sequence.
LEMMA SelectedType ==
  ASSUME NEW s \in Seq(Node), NEW w, NEW e
  PROVE  \A i \in 0 .. Len(s) :
           Selected(s, w, e)[i] \in Seq(Node) /\ Selected(s, w, e)[i] \in Seq(Range(s))
<1> DEFINE g == Selected(s, w, e)
           T == {i \in 0 .. Len(s) : g[i] \in Seq(Node) /\ g[i] \in Seq(Range(s))}
<1>1. /\ Len(s) \in Nat
      /\ \A i \in 1 .. Len(s) : s[i] \in Node /\ s[i] \in Range(s)
  BY LenProperties, ElementOfSeq DEF Range
<1>2. /\ g[0] = <<>>
      /\ \A i \in 1 .. Len(s) : g[i] = Append(g[i - 1], s[i]) \/ g[i] = g[i - 1]
  BY SelectedStep DEF Steps
<1> HIDE DEF g
<1>3. 0 \in T
  <2>1. <<>> \in Seq(Node) /\ <<>> \in Seq(Range(s)) /\ 0 \in 0 .. Len(s)
    BY <1>1, EmptySeq
  <2> QED BY <1>2, <2>1
<1>4. ASSUME NEW i \in 1 .. Len(s), i - 1 \in T  PROVE i \in T
  <2>1. s[i] \in Node /\ s[i] \in Range(s) /\ i \in 0 .. Len(s)
    BY <1>1
  <2>2. Append(g[i - 1], s[i]) \in Seq(Node) /\ Append(g[i - 1], s[i]) \in Seq(Range(s))
    BY <1>4, <2>1, AppendProperties
  <2> QED BY <1>2, <1>4, <2>1, <2>2
<1>5. \A i \in 0 .. Len(s) : i \in T
  <2> HIDE DEF T
  <2> QED BY <1>1, <1>3, <1>4, UpTo
<1> QED BY <1>5 DEF g

\* It depends on the elements so far and their wait fields only.
AgreeUpTo(s, t, w, v, k) ==
  k <= Len(s) /\ k <= Len(t) /\ \A i \in 1 .. k : s[i] = t[i] /\ w[s[i]] = v[s[i]]

LEMMA SelectedSame ==
  ASSUME NEW s \in Seq(Node), NEW t \in Seq(Node), NEW w, NEW v, NEW e,
         NEW k \in Nat, AgreeUpTo(s, t, w, v, k)
  PROVE  \A i \in 0 .. k : Selected(s, w, e)[i] = Selected(t, v, e)[i]
<1> DEFINE g == Selected(s, w, e)
           h == Selected(t, v, e)
           T == {i \in 0 .. k : g[i] = h[i]}
<1> USE DEF AgreeUpTo
<1>1. Len(s) \in Nat /\ Len(t) \in Nat
  BY LenProperties
<1>2. g[0] = <<>> /\ Steps(s, w, e, g, Len(s))
  BY SelectedStep
<1>3. h[0] = <<>> /\ Steps(t, v, e, h, Len(t))
  BY SelectedStep
<1> HIDE DEF g, h
<1>4. 0 \in T
  BY <1>2, <1>3
<1>5. ASSUME NEW i \in 1 .. k, i - 1 \in T  PROVE i \in T
  <2>1. i \in 1 .. Len(s) /\ i \in 1 .. Len(t) /\ i \in 0 .. k
    BY <1>1
  <2>2. g[i - 1] = h[i - 1]
    BY <1>5
  <2> HIDE DEF T
  <2>3. g[i] = h[i]
    BY <1>2, <1>3, <2>1, <2>2 DEF Steps
  <2> QED BY <2>1, <2>3 DEF T
<1>6. \A i \in 0 .. k : i \in T
  <2> HIDE DEF T
  <2> QED BY <1>4, <1>5, UpTo
<1> QED BY <1>6 DEF g, h

\* Nothing is selected when nobody sleeps on the event.
LEMMA SelectedNone ==
  ASSUME NEW s \in Seq(Node), NEW w, NEW e, NEW k \in Nat, k <= Len(s),
         \A i \in 1 .. k : w[s[i]] # e
  PROVE  Selected(s, w, e)[k] = <<>>
<1> DEFINE g == Selected(s, w, e)
           T == {i \in 0 .. k : g[i] = <<>>}
<1>1. Len(s) \in Nat
  BY LenProperties
<1>2. g[0] = <<>> /\ \A i \in 1 .. Len(s) : w[s[i]] # e => g[i] = g[i - 1]
  BY SelectedStep DEF Steps
<1> HIDE DEF g
<1>3. 0 \in T
  BY <1>2
<1>4. ASSUME NEW i \in 1 .. k, i - 1 \in T  PROVE i \in T
  BY <1>1, <1>2, <1>4
<1>5. k \in T
  <2> HIDE DEF T
  <2> QED BY <1>3, <1>4, UpTo
<1> QED BY <1>5 DEF g

\* Other wait fields do not matter.
SameFields(s, w, v) == \A x \in Range(s) : w[x] = v[x]

LEMMA SleepersSame ==
  ASSUME NEW s \in Seq(Node), NEW w, NEW v, NEW e, SameFields(s, w, v)
  PROVE  Sleepers(s, v, e) = Sleepers(s, w, e)
<1>1. Len(s) \in Nat /\ Len(s) \in 0 .. Len(s) /\ DOMAIN s = 1 .. Len(s)
  BY LenProperties
<1>2. AgreeUpTo(s, s, w, v, Len(s))
  BY <1>1 DEF AgreeUpTo, SameFields, Range
<1> QED BY <1>1, <1>2, SelectedSame DEF Sleepers

\* A node that goes to the end of the list is selected last.
LEMMA SleepersAppend ==
  ASSUME NEW s \in Seq(Node), NEW p \in Node, NEW w, NEW v, NEW e,
         SameFields(s, w, v)
  PROVE  /\ v[p] = e => Sleepers(Append(s, p), v, e) = Append(Sleepers(s, w, e), p)
         /\ v[p] # e => Sleepers(Append(s, p), v, e) = Sleepers(s, w, e)
<1> DEFINE n == Len(s)
           t == Append(s, p)
<1>1. n \in Nat /\ \A i \in 1 .. n : s[i] \in Range(s)
  BY LenProperties DEF Range
<1>2. t \in Seq(Node) /\ Len(t) = n + 1 /\ t[n + 1] = p /\ \A i \in 1 .. n : s[i] = t[i]
  BY AppendProperties
<1> HIDE DEF n, t
<1>3. Selected(s, w, e)[n] = Selected(t, v, e)[n]
  <2>1. n = Len(s) /\ n <= Len(s) /\ n <= Len(t) /\ n \in 0 .. n
    BY <1>1, <1>2 DEF n
  <2>2. AgreeUpTo(s, t, w, v, n)
    BY <1>1, <1>2, <2>1 DEF AgreeUpTo, SameFields
  <2> QED BY <1>1, <1>2, <2>1, <2>2, SelectedSame
<1>4. /\ v[p] = e => Selected(t, v, e)[n + 1] = Append(Selected(t, v, e)[n], p)
      /\ v[p] # e => Selected(t, v, e)[n + 1] = Selected(t, v, e)[n]
  <2>1. n + 1 \in 1 .. Len(t) /\ (n + 1) - 1 = n
    BY <1>1, <1>2
  <2> DEFINE g == Selected(t, v, e)
  <2>2. Steps(t, v, e, g, Len(t))
    BY <1>2, SelectedStep
  <2> HIDE DEF g
  <2>3. /\ v[p] = e => g[n + 1] = Append(g[n], p)
        /\ v[p] # e => g[n + 1] = g[n]
    BY <1>2, <2>1, <2>2 DEF Steps
  <2> QED BY <2>3 DEF g
<1> QED BY <1>2, <1>3, <1>4 DEF Sleepers, n, t

\* Taking out a node that is not selected changes nothing.
LEMMA SleepersWithoutOther ==
  ASSUME NEW s \in Seq(Node), IsInjective(s), NEW i \in 1 .. Len(s), NEW w, NEW e,
         w[s[i]] # e
  PROVE  Sleepers(Without(s, i), w, e) = Sleepers(s, w, e)
<1> DEFINE n == Len(s)
           r == Without(s, i)
           g == Selected(s, w, e)
           h == Selected(r, w, e)
           T == {j \in 0 .. n - 1 : i - 1 <= j => h[j] = g[j + 1]}
<1>1. /\ n \in Nat /\ i \in 1 .. n /\ r \in Seq(Node) /\ Len(r) = n - 1
      /\ \A j \in 1 .. n - 1 : j < i => r[j] = s[j]
      /\ \A j \in 1 .. n - 1 : j >= i => r[j] = s[j + 1]
  BY WithoutIs, LenProperties
<1> HIDE DEF r
<1>2. Steps(s, w, e, g, n) /\ Steps(r, w, e, h, n - 1)
  BY <1>1, SelectedStep
<1>3. h[i - 1] = g[i - 1]
  <2>1. i - 1 \in Nat /\ i - 1 <= Len(s) /\ i - 1 <= Len(r) /\ i - 1 \in 0 .. i - 1
    BY <1>1
  <2>2. AgreeUpTo(s, r, w, w, i - 1)
    BY <1>1, <2>1 DEF AgreeUpTo
  <2> QED BY <1>1, <2>1, <2>2, SelectedSame
<1> HIDE DEF n, g, h
<1>4. h[i - 1] = g[i]
  BY <1>1, <1>2, <1>3 DEF Steps
<1>5. 0 \in T
  BY <1>1, <1>4
<1>6. ASSUME NEW j \in 1 .. n - 1, j - 1 \in T  PROVE j \in T
  <2>1. j \in 0 .. n - 1 /\ j + 1 \in 1 .. n /\ (j + 1) - 1 = j /\ (j - 1) + 1 = j
    BY <1>1
  <2>2. CASE i - 1 = j
    BY <1>1, <1>4, <2>1, <2>2
  <2>3. CASE i <= j
    <3>1. h[j - 1] = g[j] /\ r[j] = s[j + 1]
      BY <1>1, <1>6, <2>1, <2>3
    <3> HIDE DEF T
    <3>2. h[j] = g[j + 1]
      BY <1>2, <2>1, <3>1 DEF Steps
    <3> QED BY <2>1, <3>2 DEF T
  <2> QED BY <1>1, <2>1, <2>2, <2>3
<1>7. n - 1 \in T
  <2>1. n - 1 \in Nat /\ n - 1 \in 0 .. n - 1
    BY <1>1
  <2> HIDE DEF T
  <2>2. \A j \in 0 .. n - 1 : j \in T
    BY <1>5, <1>6, <2>1, UpTo
  <2> QED BY <2>1, <2>2
<1>8. h[n - 1] = g[n]
  BY <1>1, <1>7
<1> QED BY <1>1, <1>8 DEF Sleepers, n, r, g, h

\* Taking out the first that is selected takes the head.
LEMMA SleepersWithoutFirst ==
  ASSUME NEW s \in Seq(Node), IsInjective(s), NEW e, NEW i, IsFirst(s, e, i)
  PROVE  /\ Sleepers(s, wait, e) # <<>> /\ Head(Sleepers(s, wait, e)) = s[i]
         /\ Tail(Sleepers(s, wait, e)) = Sleepers(Without(s, i), wait, e)
<1> DEFINE n == Len(s)
           r == Without(s, i)
           g == Selected(s, wait, e)
           h == Selected(r, wait, e)
           Follows(j) == g[j + 1] # <<>> /\ Head(g[j + 1]) = s[i] /\ Tail(g[j + 1]) = h[j]
           T == {j \in 0 .. n - 1 : i - 1 <= j => Follows(j)}
<1>1. /\ i \in 1 .. n /\ wait[s[i]] = e
      /\ \A j \in 1 .. n : wait[s[j]] = e => i <= j
  BY DEF IsFirst
<1>2. /\ n \in Nat /\ r \in Seq(Node) /\ Len(r) = n - 1
      /\ \A j \in 1 .. n - 1 : j < i => r[j] = s[j]
      /\ \A j \in 1 .. n - 1 : j >= i => r[j] = s[j + 1]
      /\ \A j \in 1 .. n : s[j] \in Node
  BY <1>1, WithoutIs, LenProperties, ElementOfSeq
<1>3. Steps(s, wait, e, g, n) /\ Steps(r, wait, e, h, n - 1)
  BY <1>2, SelectedStep
<1>4. /\ \A j \in 0 .. n : g[j] \in Seq(Node)
      /\ \A j \in 0 .. n - 1 : h[j] \in Seq(Node)
  BY <1>2, SelectedType
<1>5. g[i - 1] = <<>> /\ h[i - 1] = <<>>
  <2>1. i - 1 \in Nat /\ i - 1 <= Len(s) /\ i - 1 <= Len(r)
    BY <1>1, <1>2
  <2>2. \A j \in 1 .. i - 1 : wait[s[j]] # e /\ wait[r[j]] # e
    BY <1>1, <1>2
  <2> QED BY <1>2, <2>1, <2>2, SelectedNone
<1> HIDE DEF n, r, g, h
<1>6. Follows(i - 1)
  <2>1. s[i] \in Node /\ (i - 1) + 1 = i /\ g[i] = Append(g[i - 1], s[i])
    BY <1>1, <1>2, <1>3 DEF Steps
  <2>2. <<>> \in Seq(Node)
    BY EmptySeq
  <2>3. /\ Append(<<>>, s[i]) # <<>>
        /\ Head(Append(<<>>, s[i])) = s[i] /\ Tail(Append(<<>>, s[i])) = <<>>
    BY <2>1, <2>2, AppendProperties, HeadTailAppend
  <2> QED BY <1>5, <2>1, <2>3
<1>7. 0 \in T
  BY <1>1, <1>2, <1>6
<1>8. ASSUME NEW j \in 1 .. n - 1, j - 1 \in T  PROVE j \in T
  <2>1. j \in 0 .. n - 1 /\ j + 1 \in 1 .. n /\ (j + 1) - 1 = j /\ (j - 1) + 1 = j
    BY <1>2
  <2>2. CASE i - 1 = j
    <3>1. Follows(j)
      BY <1>6, <2>2
    <3> HIDE DEF Follows
    <3> QED BY <2>1, <3>1
  <2>3. CASE i <= j
    <3>1. r[j] = s[j + 1]
      BY <1>2, <2>3
    <3>2. g[j] # <<>> /\ Head(g[j]) = s[i] /\ Tail(g[j]) = h[j - 1]
      BY <1>1, <1>8, <2>1, <2>3
    <3> HIDE DEF T
    <3>3. CASE wait[r[j]] = e
      <4>1. g[j + 1] = Append(g[j], s[j + 1]) /\ h[j] = Append(h[j - 1], s[j + 1])
        BY <1>3, <2>1, <3>1, <3>3 DEF Steps
      <4>2. g[j] \in Seq(Node) /\ s[j + 1] \in Node
        BY <1>2, <1>4, <2>1
      <4>3. /\ Append(g[j], s[j + 1]) # <<>>
            /\ Head(Append(g[j], s[j + 1])) = Head(g[j])
            /\ Tail(Append(g[j], s[j + 1])) = Append(Tail(g[j]), s[j + 1])
        BY <3>2, <4>2, AppendProperties, HeadTailAppend
      <4>4. Follows(j)
        BY <3>2, <4>1, <4>3
      <4> HIDE DEF Follows
      <4> QED BY <2>1, <4>4 DEF T
    <3>4. CASE wait[r[j]] # e
      <4>1. g[j + 1] = g[j] /\ h[j] = h[j - 1]
        BY <1>3, <2>1, <3>1, <3>4 DEF Steps
      <4>2. Follows(j)
        BY <3>2, <4>1
      <4> HIDE DEF Follows
      <4> QED BY <2>1, <4>2 DEF T
    <3> QED BY <3>3, <3>4
  <2> QED BY <1>1, <2>1, <2>2, <2>3
<1>9. n - 1 \in T
  <2>1. n - 1 \in Nat /\ n - 1 \in 0 .. n - 1
    BY <1>1, <1>2
  <2> HIDE DEF T
  <2>2. \A j \in 0 .. n - 1 : j \in T
    BY <1>7, <1>8, <2>1, UpTo
  <2> QED BY <2>1, <2>2
<1>10. g[n] # <<>> /\ Head(g[n]) = s[i] /\ Tail(g[n]) = h[n - 1]
  <2>1. i - 1 <= n - 1 /\ (n - 1) + 1 = n
    BY <1>1, <1>2
  <2> QED BY <1>9, <2>1
<1> QED BY <1>2, <1>10 DEF Sleepers, n, r, g, h

-----------------------------------------------------------------------------
(***************************************************************************)
(* The invariant, and the queues the lists implement.                      *)
(***************************************************************************)

\* Beside what Hold says, a dead process waits for its own pid.
Keeps(nx, tl, wt, q) ==
  /\ Hold(nx, tl, q)
  /\ wt \in [Node -> Node \cup Event \cup {NULL}]
  /\ \A p \in Range(q["kill_list"]) : wt[p] = p

\* The inductive invariant.
LInv == \E q : Keeps(next, tail, wait, q)

\* The queues, as the refinement mapping has them.
Ready == Chain("ready_list")
Waiting == [e \in Event |-> Sleepers(Chain("wait_list"), wait, e)]
Dead == Range(Chain("kill_list"))

Shows(q, wt, ready, waiting, dead) ==
  /\ ready = q["ready_list"]
  /\ waiting = [e \in Event |-> Sleepers(q["wait_list"], wt, e)]
  /\ dead = Range(q["kill_list"])

\* The three lists are three.
LEMMA Names ==
  /\ HeadList = {"ready_list", "wait_list", "kill_list"}
  /\ "ready_list" \in HeadList /\ "wait_list" \in HeadList /\ "kill_list" \in HeadList
  /\ "ready_list" # "wait_list" /\ "ready_list" # "kill_list" /\ "wait_list" # "kill_list"
BY DEF HeadList

\* What the refinement mapping makes of the sequences, in this state and the next.
LEMMA ViewIs == \A q : Hold(next, tail, q) => Shows(q, wait, Ready, Waiting, Dead)
BY ListsAssumption, Names, ChainsAre DEF Shows, Ready, Waiting, Dead

LEMMA ViewNext == \A q : Hold(next', tail', q) => Shows(q, wait', Ready', Waiting', Dead')
<1>1. (\A q : Hold(next, tail, q) => Shows(q, wait, Ready, Waiting, Dead))'
  BY ViewIs, PTL
<1> QED BY <1>1

\* A sequence without its first element.
LEMMA WithoutHead ==
  ASSUME NEW s \in Seq(Node), s # <<>>
  PROVE  Without(s, 1) = Tail(s) /\ s[1] = Head(s)
<1>1. Len(s) \in Nat \ {0}
  BY EmptySeq
<1>2. /\ Tail(s) \in Seq(Node) /\ Len(Tail(s)) = Len(s) - 1
      /\ \A i \in 1 .. Len(Tail(s)) : Tail(s)[i] = s[i + 1]
  BY HeadTailProperties
<1>3. Tail(s) = [i \in 1 .. Len(s) - 1 |-> Tail(s)[i]]
  BY <1>2, LenProperties
<1>4. \A i \in 1 .. Len(s) - 1 : (IF i < 1 THEN s[i] ELSE s[i + 1]) = Tail(s)[i]
  BY <1>1, <1>2
<1> QED BY <1>3, <1>4 DEF Without

\* A process on no list is free in the sense of module Queues.
LEMMA FreeIs ==
  ASSUME ListsAssumption, NEW q, Keeps(next, tail, wait, q), NEW p \in Node, p \notin OnList
  PROVE  Abstract!Free(p) /\ \A l \in HeadList : p \notin Range(q[l])
<1>1. Hold(next, tail, q)
  BY DEF Keeps
<1>2. \A l \in HeadList : p \notin Range(q[l])
  BY <1>1, OnListIs
<1>3. Shows(q, wait, Ready, Waiting, Dead)
  BY <1>1, ViewIs
<1>4. p \notin Range(Ready) \cup Dead
  BY <1>2, <1>3, Names DEF Shows
<1>5. ASSUME NEW e \in Event  PROVE p \notin Range(Waiting[e])
  <2> DEFINE s == q["wait_list"]
             t == Sleepers(s, wait, e)
  <2>1. s \in Seq(Node) /\ p \notin Range(s)
    BY <1>1, <1>2, Names DEF Hold
  <2>2. Len(s) \in 0 .. Len(s)
    BY <2>1, LenProperties
  <2>3. t \in Seq(Range(s))
    BY <2>1, <2>2, SelectedType DEF Sleepers
  <2> HIDE DEF s, t
  <2>4. Range(t) \subseteq Range(s)
    <3>1. DOMAIN t = 1 .. Len(t) /\ \A i \in 1 .. Len(t) : t[i] \in Range(s)
      BY <2>3, LenProperties, ElementOfSeq
    <3> QED BY <3>1 DEF Range
  <2>5. Waiting[e] = t
    BY <1>3 DEF Shows, s, t
  <2> QED BY <2>1, <2>4, <2>5
<1>6. Abstract!Free(p)
  BY <1>4, <1>5 DEF Abstract!Free, Abstract!Range, Range, Ready, Waiting, Dead
<1> QED BY <1>2, <1>6

\* Each operation keeps the invariant and is one of module Queues.
LEMMA MakeReadyStep ==
  ASSUME ListsAssumption, NEW q, Keeps(next, tail, wait, q), NEW p \in Node, MakeReady(p)
  PROVE  LInv' /\ Abstract!MakeReady(p)
<1> DEFINE r == [q EXCEPT !["ready_list"] = Append(@, p)]
<1>1. p \notin OnList /\ append_list_tail("ready_list", p) /\ wait' = wait /\ item' = item
  BY DEF MakeReady
<1>2. Hold(next, tail, q) /\ q \in [HeadList -> Seq(Node)]
  BY DEF Keeps, Hold
<1>3. Hold(next', tail', r)
  BY <1>1, <1>2, Names, AppendStep
<1>4. /\ r["ready_list"] = Append(q["ready_list"], p)
      /\ r["wait_list"] = q["wait_list"] /\ r["kill_list"] = q["kill_list"]
  BY <1>2, Names
<1> HIDE DEF r
<1>5. Keeps(next', tail', wait', r)
  BY <1>1, <1>3, <1>4 DEF Keeps
<1>6. Shows(q, wait, Ready, Waiting, Dead) /\ Shows(r, wait', Ready', Waiting', Dead')
  BY <1>2, <1>3, ViewIs, ViewNext
<1>7. Ready' = Append(Ready, p) /\ Waiting' = Waiting /\ Dead' = Dead
  BY <1>1, <1>4, <1>6 DEF Shows
<1>8. Abstract!Free(p)
  BY <1>1, FreeIs
<1>9. Abstract!MakeReady(p)
  BY <1>1, <1>7, <1>8 DEF Abstract!MakeReady, Ready, Waiting, Dead
<1> QED BY <1>5, <1>9 DEF LInv

LEMMA SleepStep ==
  ASSUME ListsAssumption, NEW q, Keeps(next, tail, wait, q), NEW p \in Node, NEW e \in Event,
         Sleep(p, e)
  PROVE  LInv' /\ Abstract!Sleep(p, e)
<1> DEFINE r == [q EXCEPT !["wait_list"] = Append(@, p)]
           s == q["wait_list"]
<1>1. /\ p \notin OnList /\ append_list_tail("wait_list", p) /\ item' = item
      /\ wait' = [wait EXCEPT ![p] = e]
  BY DEF Sleep
<1>2. /\ Hold(next, tail, q) /\ q \in [HeadList -> Seq(Node)]
      /\ wait \in [Node -> Node \cup Event \cup {NULL}]
      /\ \A x \in Range(q["kill_list"]) : wait[x] = x
  BY DEF Keeps, Hold
<1>3. Hold(next', tail', r)
  BY <1>1, <1>2, Names, AppendStep
<1>4. /\ r["wait_list"] = Append(s, p) /\ s \in Seq(Node)
      /\ r["ready_list"] = q["ready_list"] /\ r["kill_list"] = q["kill_list"]
  BY <1>2, Names
<1>5. Abstract!Free(p) /\ p \notin Range(s) /\ p \notin Range(q["kill_list"])
  BY <1>1, Names, FreeIs
<1> HIDE DEF r, s
<1>6. /\ wait' \in [Node -> Node \cup Event \cup {NULL}]
      /\ wait'[p] = e /\ \A x \in Node : x # p => wait'[x] = wait[x]
  BY <1>1, <1>2
<1>7. SameFields(s, wait, wait')
  BY <1>4, <1>5, <1>6, InNode DEF SameFields
<1>8. \A x \in Range(q["kill_list"]) : wait'[x] = x
  <2>1. q["kill_list"] \in Seq(Node)
    BY <1>2, Names
  <2> QED BY <1>2, <1>5, <1>6, <2>1, InNode
<1>9. Keeps(next', tail', wait', r)
  BY <1>3, <1>4, <1>6, <1>8 DEF Keeps
<1>10. Shows(q, wait, Ready, Waiting, Dead) /\ Shows(r, wait', Ready', Waiting', Dead')
  BY <1>2, <1>3, ViewIs, ViewNext
<1>11. Waiting' = [Waiting EXCEPT ![e] = Append(@, p)]
  <2>1. /\ Sleepers(Append(s, p), wait', e) = Append(Sleepers(s, wait, e), p)
        /\ \A f \in Event : f # e => Sleepers(Append(s, p), wait', f) = Sleepers(s, wait, f)
    BY <1>4, <1>6, <1>7, SleepersAppend
  <2>2. /\ Waiting = [f \in Event |-> Sleepers(s, wait, f)]
        /\ Waiting' = [f \in Event |-> Sleepers(Append(s, p), wait', f)]
    BY <1>4, <1>10 DEF Shows, s
  <2> QED BY <2>1, <2>2
<1>12. Ready' = Ready /\ Dead' = Dead
  BY <1>4, <1>10 DEF Shows
<1>13. Abstract!Sleep(p, e)
  BY <1>1, <1>5, <1>11, <1>12 DEF Abstract!Sleep, Ready, Waiting, Dead
<1> QED BY <1>9, <1>13 DEF LInv

LEMMA ExitStep ==
  ASSUME ListsAssumption, NEW q, Keeps(next, tail, wait, q), NEW p \in Node, Exit(p)
  PROVE  LInv' /\ Abstract!Die(p)
<1> DEFINE r == [q EXCEPT !["kill_list"] = Append(@, p)]
           s == q["wait_list"]
           d == q["kill_list"]
<1>1. /\ p \notin OnList /\ append_list_tail("kill_list", p) /\ item' = item
      /\ wait' = [wait EXCEPT ![p] = p]
  BY DEF Exit
<1>2. /\ Hold(next, tail, q) /\ q \in [HeadList -> Seq(Node)]
      /\ wait \in [Node -> Node \cup Event \cup {NULL}]
      /\ \A x \in Range(d) : wait[x] = x
  BY DEF Keeps, Hold
<1>3. Hold(next', tail', r)
  BY <1>1, <1>2, Names, AppendStep
<1>4. /\ r["kill_list"] = Append(d, p) /\ s \in Seq(Node) /\ d \in Seq(Node)
      /\ r["ready_list"] = q["ready_list"] /\ r["wait_list"] = s
  BY <1>2, Names
<1>5. Abstract!Free(p) /\ p \notin Range(s) /\ p \notin Range(d)
  BY <1>1, Names, FreeIs
<1> HIDE DEF r, s, d
<1>6. /\ wait' \in [Node -> Node \cup Event \cup {NULL}]
      /\ wait'[p] = p /\ \A x \in Node : x # p => wait'[x] = wait[x]
  BY <1>1, <1>2
<1>7. Range(Append(d, p)) = Range(d) \cup {p}
  BY <1>4, RangeAppend
<1>8. \A x \in Range(Append(d, p)) : wait'[x] = x
  BY <1>2, <1>4, <1>5, <1>6, <1>7, InNode
<1>9. Keeps(next', tail', wait', r)
  BY <1>3, <1>4, <1>6, <1>8 DEF Keeps
<1>10. Shows(q, wait, Ready, Waiting, Dead) /\ Shows(r, wait', Ready', Waiting', Dead')
  BY <1>2, <1>3, ViewIs, ViewNext
<1>11. \A f \in Event : Sleepers(s, wait', f) = Sleepers(s, wait, f)
  <2>1. SameFields(s, wait, wait')
    BY <1>4, <1>5, <1>6, InNode DEF SameFields
  <2> QED BY <1>4, <2>1, SleepersSame
<1>12. Waiting' = Waiting
  <2>1. /\ Waiting = [f \in Event |-> Sleepers(s, wait, f)]
        /\ Waiting' = [f \in Event |-> Sleepers(s, wait', f)]
    BY <1>4, <1>10 DEF Shows, s
  <2> QED BY <1>11, <2>1
<1>13. Ready' = Ready /\ Dead' = Dead \cup {p}
  BY <1>4, <1>7, <1>10 DEF Shows, d
<1>14. Abstract!Die(p)
  BY <1>1, <1>5, <1>12, <1>13 DEF Abstract!Die, Ready, Waiting, Dead
<1> QED BY <1>9, <1>14 DEF LInv

LEMMA TakeStep ==
  ASSUME ListsAssumption, NEW q, Keeps(next, tail, wait, q), remove_list_head("ready_list")
  PROVE  LInv' /\ Abstract!Take
<1> DEFINE s == q["ready_list"]
           r == [q EXCEPT !["ready_list"] = Without(@, 1)]
<1>1. /\ Hold(next, tail, q) /\ q \in [HeadList -> Seq(Node)] /\ s \in Seq(Node)
      /\ wait \in [Node -> Node \cup Event \cup {NULL}]
      /\ \A x \in Range(q["kill_list"]) : wait[x] = x
  BY Names DEF Keeps, Hold
<1>2. /\ wait' = wait
      /\ s = <<>> => item' = NULL /\ Hold(next', tail', q)
      /\ s # <<>> => item' = s[1] /\ Hold(next', tail', r)
  BY <1>1, Names, RemoveHeadStep
<1>3. Shows(q, wait, Ready, Waiting, Dead)
  BY <1>1, ViewIs
<1>4. CASE s = <<>>
  <2>1. Keeps(next', tail', wait', q)
    BY <1>1, <1>2, <1>4 DEF Keeps
  <2>2. Shows(q, wait', Ready', Waiting', Dead')
    BY <1>2, <1>4, ViewNext
  <2>3. Ready = <<>> /\ Ready' = Ready /\ Waiting' = Waiting /\ Dead' = Dead
    BY <1>2, <1>3, <1>4, <2>2 DEF Shows
  <2>4. Abstract!Take
    BY <1>2, <1>4, <2>3 DEF Abstract!Take, Ready, Waiting, Dead
  <2> QED BY <2>1, <2>4 DEF LInv
<1>5. CASE s # <<>>
  <2>1. /\ r["ready_list"] = Without(s, 1)
        /\ r["wait_list"] = q["wait_list"] /\ r["kill_list"] = q["kill_list"]
    BY <1>1, Names
  <2>2. Without(s, 1) = Tail(s) /\ s[1] = Head(s)
    BY <1>1, <1>5, WithoutHead
  <2> HIDE DEF r
  <2>3. Keeps(next', tail', wait', r)
    BY <1>1, <1>2, <1>5, <2>1 DEF Keeps
  <2>4. Shows(r, wait', Ready', Waiting', Dead')
    BY <1>2, <1>5, ViewNext
  <2>5. /\ Ready = s /\ Ready' = Tail(s) /\ item' = Head(s)
        /\ Waiting' = Waiting /\ Dead' = Dead
    BY <1>2, <1>3, <1>5, <2>1, <2>2, <2>4 DEF Shows
  <2> HIDE DEF s
  <2>6. Abstract!Take
    BY <1>5, <2>5 DEF Abstract!Take, Ready, Waiting, Dead
  <2> QED BY <2>3, <2>6 DEF LInv
<1> QED BY <1>4, <1>5

LEMMA WakeStep ==
  ASSUME ListsAssumption, NEW q, Keeps(next, tail, wait, q), NEW e \in Event,
         remove_list("wait_list", e)
  PROVE  LInv' /\ Abstract!Wake(e)
<1> DEFINE s == q["wait_list"]
<1>1. /\ Hold(next, tail, q) /\ q \in [HeadList -> Seq(Node)] /\ s \in Seq(Node)
      /\ IsInjective(s)
      /\ wait \in [Node -> Node \cup Event \cup {NULL}]
      /\ \A x \in Range(q["kill_list"]) : wait[x] = x
  BY Names DEF Keeps, Hold, IsList
<1>2. /\ wait' = wait
      /\ \/ /\ \A i \in 1 .. Len(s) : wait[s[i]] # e
            /\ item' = NULL /\ Hold(next', tail', q)
         \/ \E i \in 1 .. Len(s) :
              /\ IsFirst(s, e, i) /\ item' = s[i]
              /\ Hold(next', tail', [q EXCEPT !["wait_list"] = Without(@, i)])
  BY <1>1, Names, RemoveStep
<1>3. Shows(q, wait, Ready, Waiting, Dead)
  BY <1>1, ViewIs
<1>4. CASE /\ \A i \in 1 .. Len(s) : wait[s[i]] # e
           /\ item' = NULL /\ Hold(next', tail', q)
  <2>1. Keeps(next', tail', wait', q)
    BY <1>1, <1>2, <1>4 DEF Keeps
  <2>2. Shows(q, wait', Ready', Waiting', Dead')
    BY <1>4, ViewNext
  <2>3. Sleepers(s, wait, e) = <<>>
    <3>1. Len(s) \in Nat /\ Len(s) <= Len(s)
      BY <1>1, LenProperties
    <3> QED BY <1>1, <1>4, <3>1, SelectedNone DEF Sleepers
  <2>4. Waiting[e] = <<>> /\ Ready' = Ready /\ Waiting' = Waiting /\ Dead' = Dead
    BY <1>2, <1>3, <2>2, <2>3 DEF Shows
  <2>5. Abstract!Wake(e)
    BY <1>4, <2>4 DEF Abstract!Wake, Ready, Waiting, Dead
  <2> QED BY <2>1, <2>5 DEF LInv
<1>5. ASSUME NEW i \in 1 .. Len(s), IsFirst(s, e, i), item' = s[i],
             Hold(next', tail', [q EXCEPT !["wait_list"] = Without(@, i)])
      PROVE  LInv' /\ Abstract!Wake(e)
  <2> DEFINE r == [q EXCEPT !["wait_list"] = Without(@, i)]
  <2>1. /\ r["wait_list"] = Without(s, i)
        /\ r["ready_list"] = q["ready_list"] /\ r["kill_list"] = q["kill_list"]
    BY <1>1, Names
  <2>2. Hold(next', tail', r)
    BY <1>5
  <2> HIDE DEF r
  <2>3. Keeps(next', tail', wait', r)
    BY <1>1, <1>2, <2>1, <2>2 DEF Keeps
  <2>4. Shows(r, wait', Ready', Waiting', Dead')
    BY <2>2, ViewNext
  <2>5. /\ Sleepers(s, wait, e) # <<>> /\ Head(Sleepers(s, wait, e)) = s[i]
        /\ Tail(Sleepers(s, wait, e)) = Sleepers(Without(s, i), wait, e)
    BY <1>1, <1>5, SleepersWithoutFirst
  <2>6. \A f \in Event : f # e => Sleepers(Without(s, i), wait, f) = Sleepers(s, wait, f)
    <3>1. wait[s[i]] = e
      BY <1>5 DEF IsFirst
    <3> QED BY <1>1, <1>5, <3>1, SleepersWithoutOther
  <2>7. /\ Waiting = [f \in Event |-> Sleepers(s, wait, f)]
        /\ Waiting' = [f \in Event |-> Sleepers(Without(s, i), wait, f)]
    BY <1>2, <1>3, <2>1, <2>4 DEF Shows
  <2>8. Ready' = Ready /\ Dead' = Dead
    BY <1>3, <2>1, <2>4 DEF Shows
  <2>9. /\ Waiting[e] # <<>> /\ item' = Head(Waiting[e])
        /\ Waiting' = [Waiting EXCEPT ![e] = Tail(@)]
    BY <1>5, <2>5, <2>6, <2>7
  <2>10. Abstract!Wake(e)
    BY <2>8, <2>9 DEF Abstract!Wake, Ready, Waiting, Dead
  <2> QED BY <2>3, <2>10 DEF LInv
<1> QED BY <1>2, <1>4, <1>5

LEMMA CollectStep ==
  ASSUME ListsAssumption, NEW q, Keeps(next, tail, wait, q), NEW p \in Node,
         remove_list("kill_list", p)
  PROVE  LInv' /\ Abstract!Collect(p)
<1> DEFINE s == q["kill_list"]
<1>1. /\ Hold(next, tail, q) /\ q \in [HeadList -> Seq(Node)] /\ s \in Seq(Node)
      /\ IsInjective(s)
      /\ wait \in [Node -> Node \cup Event \cup {NULL}]
      /\ \A x \in Range(s) : wait[x] = x
  BY Names DEF Keeps, Hold, IsList
<1>2. /\ wait' = wait
      /\ \/ /\ \A i \in 1 .. Len(s) : wait[s[i]] # p
            /\ item' = NULL /\ Hold(next', tail', q)
         \/ \E i \in 1 .. Len(s) :
              /\ IsFirst(s, p, i) /\ item' = s[i]
              /\ Hold(next', tail', [q EXCEPT !["kill_list"] = Without(@, i)])
  BY <1>1, Names, RemoveStep
<1>3. Shows(q, wait, Ready, Waiting, Dead)
  BY <1>1, ViewIs
<1>4. CASE /\ \A i \in 1 .. Len(s) : wait[s[i]] # p
           /\ item' = NULL /\ Hold(next', tail', q)
  <2>1. Keeps(next', tail', wait', q)
    BY <1>1, <1>2, <1>4 DEF Keeps
  <2>2. Shows(q, wait', Ready', Waiting', Dead')
    BY <1>4, ViewNext
  <2>3. p \notin Range(s)
    <3>1. \A x \in Range(s) : wait[x] = x /\ \E i \in 1 .. Len(s) : x = s[i]
      BY <1>1, SeqFacts
    <3> QED BY <1>4, <3>1
  <2>4. p \notin Dead /\ Ready' = Ready /\ Waiting' = Waiting /\ Dead' = Dead
    BY <1>2, <1>3, <2>2, <2>3 DEF Shows
  <2>5. Dead' = Dead \ {p}
    BY <2>4
  <2>6. Abstract!Collect(p)
    BY <1>4, <2>4, <2>5 DEF Abstract!Collect, Ready, Waiting, Dead
  <2> QED BY <2>1, <2>6 DEF LInv
<1>5. ASSUME NEW i \in 1 .. Len(s), IsFirst(s, p, i), item' = s[i],
             Hold(next', tail', [q EXCEPT !["kill_list"] = Without(@, i)])
      PROVE  LInv' /\ Abstract!Collect(p)
  <2> DEFINE r == [q EXCEPT !["kill_list"] = Without(@, i)]
  <2>1. /\ r["kill_list"] = Without(s, i)
        /\ r["ready_list"] = q["ready_list"] /\ r["wait_list"] = q["wait_list"]
    BY <1>1, Names
  <2>2. Hold(next', tail', r)
    BY <1>5
  <2>3. s[i] = p /\ p \in Range(s)
    <3>1. s[i] \in Range(s) /\ wait[s[i]] = p
      BY <1>1, <1>5, SeqFacts DEF IsFirst
    <3> QED BY <1>1, <3>1
  <2>4. Range(Without(s, i)) = Range(s) \ {p}
    BY <1>1, <1>5, <2>3, WithoutIs
  <2> HIDE DEF r
  <2>5. Keeps(next', tail', wait', r)
    BY <1>1, <1>2, <2>1, <2>2, <2>4 DEF Keeps
  <2>6. Shows(r, wait', Ready', Waiting', Dead')
    BY <2>2, ViewNext
  <2>7. Ready' = Ready /\ Waiting' = Waiting
    BY <1>2, <1>3, <2>1, <2>6 DEF Shows
  <2>8. p \in Dead /\ Dead' = Dead \ {p}
    BY <1>3, <2>1, <2>3, <2>4, <2>6 DEF Shows
  <2>9. Abstract!Collect(p)
    BY <1>5, <2>3, <2>7, <2>8 DEF Abstract!Collect, Ready, Waiting, Dead
  <2> QED BY <2>5, <2>9 DEF LInv
<1> QED BY <1>2, <1>4, <1>5

\* The empty lists.
LEMMA ListsInit ==
  ASSUME ListsAssumption, Init
  PROVE  LInv /\ Abstract!Init
<1> DEFINE q == [l \in HeadList |-> <<>>]
<1>1. <<>> \in Seq(Node) /\ IsInjective(<<>>) /\ Range(<<>>) = {} /\ Len(<<>>) = 0
  BY DEF IsInjective, Range
<1>2. /\ next \in [Addr -> Node \cup {NULL}] /\ tail \in [HeadList -> Node \cup {NULL}]
      /\ \A l \in HeadList : next[l] = NULL /\ tail[l] = NULL
      /\ wait \in [Node -> Node \cup Event \cup {NULL}] /\ item = NULL
  BY DEF Init, Addr
<1>3. \A l \in HeadList : IsList(next, tail, l, <<>>)
  BY <1>1, <1>2 DEF IsList, Linked, Ends
<1>4. Hold(next, tail, q)
  BY <1>1, <1>2, <1>3 DEF Hold
<1>5. q["ready_list"] = <<>> /\ q["wait_list"] = <<>> /\ q["kill_list"] = <<>>
  BY Names
<1> HIDE DEF q
<1>6. Keeps(next, tail, wait, q)
  BY <1>1, <1>2, <1>4, <1>5 DEF Keeps
<1>7. Shows(q, wait, Ready, Waiting, Dead)
  BY <1>4, ViewIs
<1>8. \A e \in Event : Sleepers(<<>>, wait, e) = <<>>
  <2>1. PICK s \in Seq(Node) : s = <<>> /\ Len(s) = 0
    BY <1>1
  <2>2. \A e \in Event : Selected(s, wait, e)[0] = <<>>
    BY SelectedStep
  <2>3. \A e \in Event : Sleepers(s, wait, e) = <<>>
    BY <2>1, <2>2 DEF Sleepers
  <2> QED BY <2>1, <2>3
<1>9. Ready = <<>> /\ Waiting = [e \in Event |-> <<>>] /\ Dead = {}
  BY <1>1, <1>5, <1>7, <1>8 DEF Shows
<1>10. Abstract!Init
  BY <1>2, <1>9 DEF Abstract!Init, Ready, Waiting, Dead
<1> QED BY <1>6, <1>10 DEF LInv

\* Every step.
LEMMA ListsNext ==
  ASSUME ListsAssumption, LInv, [Next]_vars
  PROVE  LInv' /\ [Abstract!Next]_(Abstract!vars)
<1>1. PICK q : Keeps(next, tail, wait, q)
  BY DEF LInv
<1>2. CASE UNCHANGED vars
  <2>1. next' = next /\ tail' = tail /\ wait' = wait /\ item' = item
    BY <1>2 DEF vars
  <2>2. Keeps(next', tail', wait', q)
    BY <1>1, <2>1
  <2>3. Hold(next, tail, q) /\ Hold(next', tail', q)
    BY <1>1, <2>2 DEF Keeps
  <2>4. Shows(q, wait, Ready, Waiting, Dead) /\ Shows(q, wait', Ready', Waiting', Dead')
    BY <2>3, ViewIs, ViewNext
  <2>5. Ready' = Ready /\ Waiting' = Waiting /\ Dead' = Dead
    BY <2>1, <2>4 DEF Shows
  <2>6. UNCHANGED Abstract!vars
    BY <2>1, <2>5 DEF Abstract!vars, Ready, Waiting, Dead
  <2> QED BY <2>2, <2>6 DEF LInv
<1>3. ASSUME NEW p \in Node, MakeReady(p)  PROVE LInv' /\ Abstract!Next
  BY <1>1, <1>3, MakeReadyStep DEF Abstract!Next
<1>4. ASSUME NEW p \in Node, Exit(p)  PROVE LInv' /\ Abstract!Next
  BY <1>1, <1>4, ExitStep DEF Abstract!Next
<1>5. ASSUME NEW p \in Node, NEW e \in Event, Sleep(p, e)  PROVE LInv' /\ Abstract!Next
  BY <1>1, <1>5, SleepStep DEF Abstract!Next
<1>6. CASE remove_list_head("ready_list")
  BY <1>1, <1>6, TakeStep DEF Abstract!Next
<1>7. ASSUME NEW e \in Event, remove_list("wait_list", e)  PROVE LInv' /\ Abstract!Next
  BY <1>1, <1>7, WakeStep DEF Abstract!Next
<1>8. ASSUME NEW p \in Node, remove_list("kill_list", p)  PROVE LInv' /\ Abstract!Next
  BY <1>1, <1>8, CollectStep DEF Abstract!Next
<1> QED BY <1>2, <1>3, <1>4, <1>5, <1>6, <1>7, <1>8 DEF Next

\* The inductive invariant of the lists holds throughout.
THEOREM ListsInvariance == Spec => []LInv
<1>1. Init => LInv
  BY ListsInit, ListsAssumption
<1>2. LInv /\ [Next]_vars => LInv'
  BY ListsNext, ListsAssumption
<1> QED BY <1>1, <1>2, PTL DEF Spec

\* In every order of the calls process.c makes, chains end, tails are the last
\* nodes, and no node is linked twice.
THEOREM ChainsWellFormed == Spec => []WellFormed
<1>1. LInv => WellFormed
  <2> SUFFICES ASSUME LInv PROVE WellFormed
    OBVIOUS
  <2>1. PICK q : Hold(next, tail, q)
    BY DEF LInv, Keeps
  <2>2. \A l \in HeadList : Chain(l) = q[l]
    BY <2>1, ChainsAre, ListsAssumption
  <2>3. ASSUME NEW l \in HeadList
        PROVE  /\ tail[l] = IF q[l] = <<>> THEN NULL ELSE Last(q[l])
               /\ Len(q[l]) <= Cardinality(Node)
               /\ IsInjective(q[l])
    <3>1. q[l] \in Seq(Node) /\ IsInjective(q[l]) /\ Ends(tail, l, q[l])
      BY <2>1 DEF Hold, IsList
    <3> QED BY <3>1, ShortEnough, ListsAssumption DEF Ends, Last
  <2>4. \A l, m \in HeadList : l # m => Range(q[l]) \cap Range(q[m]) = {}
    BY <2>1 DEF Hold
  <2> QED BY <2>2, <2>3, <2>4 DEF WellFormed
<1> QED BY <1>1, ListsInvariance, PTL

\* Taken as queues, the lists behave as module Queues demands: the processes
\* made ready leave in order, a wakeup takes the oldest sleeper of its event
\* however many others lie between, and a dead process is found by its pid.
THEOREM ListsAreQueues == Spec => ImplementsQueues
<1>1. Init => LInv /\ Abstract!Init
  BY ListsInit, ListsAssumption
<1>2. LInv /\ [Next]_vars => LInv' /\ [Abstract!Next]_(Abstract!vars)
  BY ListsNext, ListsAssumption
<1> QED BY <1>1, <1>2, PTL DEF Spec, ImplementsQueues, Abstract!Spec
=============================================================================
