------------------------------ MODULE FatRead ------------------------------
(***************************************************************************)
(* A file is found by its path (module Directory) and read over a FAT      *)
(* chain that lies anywhere on the disk.  There are two ways to read it:   *)
(* the boot loader's load_file(), which reads it whole, and the kernel's   *)
(* read_file() on an open file, in pieces of any size, each of which goes  *)
(* on where the last one ended.  Both call a read_raw_data() of their own, *)
(* modelled statement by statement.  Sizes are far below 2^32, as in every *)
(* caller, so the 32-bit sums do not wrap.                                 *)
(*                                                                         *)
(* A byte of the disk is known by its place: <<cluster, offset>>.          *)
(***************************************************************************)
EXTENDS Integers, Directory

CONSTANTS
  RootDirectories,  \* directories the disk may have
  Path,             \* the paths that are asked for
  Cluster,          \* the clusters of the disk
  CLUSTER_SIZE      \* bytes per cluster

ASSUME FatAssumption ==
  /\ CLUSTER_SIZE \in Nat \ {0}
  /\ IsFiniteSet(Cluster) /\ Cluster \subseteq Nat \ {0, 1}
  /\ Path \subseteq Seq(STRING)
  /\ \A root \in RootDirectories : \A i \in DOMAIN root : FieldsOK(root[i])

EOC == 0   \* an end-of-chain mark (0xfff7 and up); also the first cluster of an empty file

VARIABLES
  root,       \* the root directory
  path,       \* the path that is asked for
  entry,      \* the directory entry it has found, or NULL
  chain,      \* the clusters of the file, in order, as the FAT links them
  file_size,  \* FCB.file_size
  position,   \* FileDesc.position
  pc,         \* "search", "absent", "idle", or where a read_raw_data is
  size,       \* its argument
  left,       \* turns left of its first loop
  index,      \* the cluster it is at
  read_size,  \* bytes read so far
  buffer      \* what it has copied

loc == <<size, left, index, read_size, buffer>>
name == <<root, path, entry>>
vars == <<name, chain, file_size, position, pc, loc>>

\* A consistent file: just enough clusters, none twice.
Chains == {c \in SeqOf(Cluster, Cardinality(Cluster)) : IsInjective(c)}
Sizes(c) == IF c = <<>> THEN {0}
            ELSE (Len(c) - 1) * CLUSTER_SIZE + 1 .. Len(c) * CLUSTER_SIZE

Init ==
  /\ root \in RootDirectories
  /\ path \in Path
  /\ entry = NULL
  /\ chain = <<>> /\ file_size = 0
  /\ position = 0
  /\ pc = "search"
  /\ size = 0 /\ left = 0 /\ index = EOC /\ read_size = 0 /\ buffer = <<>>

\* The file is looked up, and with it come its size and its place on the disk.
Find ==
  /\ pc = "search"
  /\ entry' = search_file(root, path)
  /\ IF entry' = NULL THEN pc' = "absent" /\ UNCHANGED <<chain, file_size>>
     ELSE pc' = "idle" /\ chain' \in Chains /\ file_size' \in Sizes(chain')
  /\ UNCHANGED <<root, path, position, loc>>

first_cluster == IF chain = <<>> THEN EOC ELSE Head(chain)

get_cluster_value(c) ==
  LET i == CHOOSE i \in DOMAIN chain : chain[i] = c
  IN  IF i = Len(chain) THEN EOC ELSE chain[i + 1]

\* n bytes of cluster c from offset o on.
Bytes(c, o, n) == [k \in 1 .. n |-> <<c, o + k - 1>>]
offset == position % CLUSTER_SIZE

Enter(turns) ==
  /\ pc = "idle"
  /\ pc' = "seek"
  /\ \E n \in 0 .. file_size - position : size' = n
  /\ left' = turns
  /\ index' = first_cluster
  /\ read_size' = 0
  /\ buffer' = <<>>
  /\ UNCHANGED <<name, chain, file_size, position>>

\* Slip: the division rounds up.
read_file_rounds_up == Enter((position + CLUSTER_SIZE - 1) \div CLUSTER_SIZE)

\* read_file() of at most what is left (of more it returns -1 at once), and the
\* declarations of read_raw_data().
read_file == Enter(position \div CLUSTER_SIZE)

\* One turn of the loop that follows the chain to the position, with its ASSERT.
Seek ==
  /\ pc = "seek"
  /\ left > 0
  /\ index' = get_cluster_value(index)
  /\ left' = left - 1
  /\ pc' = IF index' = EOC THEN "failed" ELSE "seek"
  /\ UNCHANGED <<name, chain, file_size, position, size, read_size, buffer>>

\* Slip: after the rest of a cluster has been read, the chain is not followed.
ReadRestStays ==
  /\ pc = "seek"
  /\ left = 0
  /\ pc' = "copy"
  /\ LET n == IF offset + size <= CLUSTER_SIZE THEN size ELSE CLUSTER_SIZE - offset
     IN  IF offset = 0 THEN UNCHANGED <<buffer, read_size>>
         ELSE buffer' = Bytes(index, offset, n) /\ read_size' = n
  /\ UNCHANGED <<name, chain, file_size, position, size, left, index>>

\* A position inside a cluster: first the rest of that cluster.
ReadRest ==
  /\ pc = "seek"
  /\ left = 0
  /\ pc' = "copy"
  /\ LET n == IF offset + size <= CLUSTER_SIZE THEN size ELSE CLUSTER_SIZE - offset
     IN  IF offset = 0 THEN UNCHANGED <<buffer, read_size, index>>
         ELSE /\ buffer' = Bytes(index, offset, n)
              /\ read_size' = n
              /\ index' = get_cluster_value(index)
  /\ UNCHANGED <<name, chain, file_size, position, size, left>>

\* One turn of the loop that copies whole clusters, and the last one in part.
Copying == pc = "copy" /\ read_size < size /\ index # EOC
CopyCluster ==
  /\ Copying
  /\ IF read_size + CLUSTER_SIZE >= size
       THEN /\ buffer' = buffer \o Bytes(index, 0, size - read_size)
            /\ read_size' = size
            /\ pc' = "return"
            /\ UNCHANGED index
       ELSE /\ buffer' = buffer \o Bytes(index, 0, CLUSTER_SIZE)
            /\ read_size' = read_size + CLUSTER_SIZE
            /\ index' = get_cluster_value(index)
            /\ UNCHANGED pc
  /\ UNCHANGED <<name, chain, file_size, position, size, left>>

LoopEnds ==
  /\ pc = "copy" /\ ~Copying
  /\ pc' = "return"
  /\ UNCHANGED <<name, chain, file_size, position, loc>>

\* Back in read_file().
Return ==
  /\ pc = "return"
  /\ pc' = "idle"
  /\ position' = position + read_size
  /\ UNCHANGED <<name, chain, file_size, loc>>

\* load_file() of the loader, once it has found the directory entry.  A file
\* without a cluster cannot be loaded.
load_file ==
  /\ pc = "idle" /\ position = 0 /\ chain # <<>>
  /\ pc' = "load"
  /\ size' = file_size
  /\ index' = first_cluster
  /\ read_size' = 0
  /\ buffer' = <<>>
  /\ UNCHANGED <<name, chain, file_size, position, left>>

\* One turn of its loop: the chain, not the size, says which cluster is the
\* last; all others are copied whole.
LoadCluster ==
  /\ pc = "load" /\ read_size < size
  /\ LET next == get_cluster_value(index)
     IN  /\ index' = next
         /\ IF next = EOC
              THEN /\ buffer' = buffer \o Bytes(index, 0, size - read_size)
                   /\ read_size' = size
                   /\ pc' = "loaded"
              ELSE /\ buffer' = buffer \o Bytes(index, 0, CLUSTER_SIZE)
                   /\ read_size' = read_size + CLUSTER_SIZE
                   /\ UNCHANGED pc
  /\ UNCHANGED <<name, chain, file_size, position, size, left>>

Loaded == pc = "loaded" /\ pc' = "idle" /\ UNCHANGED <<name, chain, file_size, position, loc>>

Stopped == pc \in {"failed", "absent"} /\ UNCHANGED vars

Next ==
  \/ Find
  \/ read_file \/ Seek \/ ReadRest \/ CopyCluster \/ LoopEnds \/ Return
  \/ load_file \/ LoadCluster \/ Loaded
  \/ Stopped

Spec == Init /\ [][Next]_vars

(***************************************************************************)
(* Properties.                                                             *)
(***************************************************************************)

\* The reference: bytes from .. from + n - 1 of the file.
FileBytes(from, n) ==
  [k \in 1 .. n |-> LET b == from + k - 1
                    IN  <<chain[b \div CLUSTER_SIZE + 1], b % CLUSTER_SIZE>>]

\* A path finds a file if and only if it spells the file's name: no prefix, no
\* longer name, no deleted entry and no part of a long name will do.
LookupIsExact == pc # "search" => entry = Called(root, path)

\* However a file is read, in pieces of whatever sizes, each read returns as
\* many bytes as were asked for, and the right ones; and the loader gets the
\* whole file.
RightBytes ==
  pc \in {"return", "loaded"} => read_size = size /\ buffer = FileBytes(position, size)

\* The ASSERT of the seek fails in one case only: a read of no bytes at the end
\* of a file that fills its last cluster.
SeekFailsOnlyAtEnd ==
  pc = "failed" => size = 0 /\ position = file_size /\ file_size % CLUSTER_SIZE = 0

\* What the ASSERT of read_raw_data claims: following the chain to a position
\* inside the file (the end included) never runs off the chain.
SeekStaysInChain == pc # "failed"
=============================================================================
