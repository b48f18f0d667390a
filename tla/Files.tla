------------------------------- MODULE Files -------------------------------
(***************************************************************************)
(* The process core with the files its processes have open (file.c, and    *)
(* the parts of fork, wait and exec in process.c that touch them): per     *)
(* process a table of file descriptors, which point into one table of open *)
(* files, which point to one FCB per directory entry.  Both are counted.   *)
(* fork() shares the open files, and with them the positions; exit() keeps *)
(* them; the wait() that collects the corpse lets go of them.              *)
(*                                                                         *)
(* What a path finds and a read copies is module FatRead's.  Nobody writes *)
(* the disk, so an FCB that is loaded again holds what it held before.     *)
(***************************************************************************)
EXTENDS Process

CONSTANTS
  Fd,            \* indices of Process.file (100 in the code)
  Desc,          \* indices of file_desc_table
  File,          \* the files of the root directory
  FileSize,      \* their sizes
  CLUSTER_SIZE,  \* bytes per cluster
  READ_SIZES,    \* the sizes read_file is called with
  NULL

ASSUME FilesAssumption ==
  /\ Fd \subseteq Nat /\ IsFiniteSet(Fd) /\ Desc \subseteq Nat
  /\ NULL \notin Fd \cup Desc \cup File
  /\ FileSize \in [File -> Nat]
  /\ CLUSTER_SIZE \in Nat \ {0}
  /\ READ_SIZES \subseteq Nat

VARIABLES
  file,     \* Process.file of every slot
  fcb,      \* FileDesc.fcb of every open file, NULL if the entry is free
  position, \* FileDesc.position
  count,    \* FileDesc.count
  fcb_count \* FCB.count of every file

openvars == <<fcb, position, count, fcb_count>>
filevars == <<file, openvars>>
fvars == <<vars, filevars>>

FInit ==
  /\ Init
  /\ file = [p \in Slot |-> [i \in Fd |-> NULL]]
  /\ fcb = [d \in Desc |-> NULL]
  /\ position = [d \in Desc |-> 0]
  /\ count = [d \in Desc |-> 0]
  /\ fcb_count = [f \in File |-> 0]

Here == file[current_process]
Lowest(S) == CHOOSE x \in S : \A y \in S : x <= y
FreeFd == {i \in Fd : Here[i] = NULL}
FreeDesc == {d \in Desc : fcb[d] = NULL}

\* A NULL dereference in the kernel, or a failed ASSERT: the machine stops.
Halt(why) ==
  /\ panic' = why
  /\ UNCHANGED <<state, pid, kstack, current_process, ready_list, wait_list,
                 kill_list, pid_num, ticks, filevars>>

CanOpen(f) == FreeFd # {} /\ FreeDesc # {} /\ f \in File

\* open_file(); a path that names no file is the file NULL.
OpenFile ==
  /\ InSyscall
  /\ \E f \in File \cup {NULL} :
       \/ ~CanOpen(f) /\ UNCHANGED filevars
       \/ /\ CanOpen(f)
          /\ LET d == Lowest(FreeDesc)
             IN  /\ file' = [file EXCEPT ![current_process][Lowest(FreeFd)] = d]
                 /\ fcb' = [fcb EXCEPT ![d] = f]
                 /\ position' = [position EXCEPT ![d] = 0]
                 /\ count' = [count EXCEPT ![d] = 1]
                 /\ fcb_count' = [fcb_count EXCEPT ![f] = @ + 1]
  /\ UNCHANGED vars

\* read_file() on the open file d; see FatRead for the ASSERT.
ReadOpen(d, n) ==
  \/ /\ position[d] + n > FileSize[fcb[d]]
     /\ UNCHANGED fvars
  \/ /\ position[d] + n <= FileSize[fcb[d]]
     /\ IF n = 0 /\ position[d] = FileSize[fcb[d]] /\ position[d] > 0
                 /\ position[d] % CLUSTER_SIZE = 0
          THEN Halt("seek")
          ELSE /\ position' = [position EXCEPT ![d] = @ + n]
               /\ UNCHANGED <<vars, file, fcb, count, fcb_count>>

ReadFile ==
  /\ InSyscall
  /\ \E i \in Fd, n \in READ_SIZES :
       IF Here[i] = NULL THEN Halt("fault") ELSE ReadOpen(Here[i], n)

\* get_file_size()
GetFileSize ==
  /\ InSyscall
  /\ \E i \in Fd : IF Here[i] = NULL THEN Halt("fault") ELSE UNCHANGED fvars

\* How often the descriptor table t points to open file d, or to file f.
RefsTo(t, d) == Cardinality({i \in Fd : t[i] = d})
RefsToFile(t, f) == Cardinality({i \in Fd : t[i] # NULL /\ fcb[t[i]] = f})

\* Letting go of all the open files in the descriptor table t.
LetGo(t) ==
  /\ count' = [d \in Desc |-> count[d] - RefsTo(t, d)]
  /\ fcb_count' = [f \in File |-> fcb_count[f] - RefsToFile(t, f)]
  /\ fcb' = [d \in Desc |-> IF RefsTo(t, d) > 0 /\ count'[d] = 0 THEN NULL ELSE fcb[d]]
  /\ UNCHANGED position

\* close_file()
CloseFile ==
  /\ InSyscall
  /\ \E i \in Fd :
       IF Here[i] = NULL THEN Halt("fault")
       ELSE IF fcb_count[fcb[Here[i]]] = 0 THEN Halt("put_fcb")
       ELSE /\ LetGo([j \in Fd |-> IF j = i THEN Here[i] ELSE NULL])
            /\ file' = [file EXCEPT ![current_process][i] = NULL]
            /\ UNCHANGED vars

\* Slip: the child's descriptors are copied, the open files are not counted.
ShareUncounted(child) ==
  /\ file' = [file EXCEPT ![child] = Here]
  /\ UNCHANGED openvars

\* The part of fork() that shares the open files with the child.
Share(child) ==
  /\ file' = [file EXCEPT ![child] = Here]
  /\ count' = [d \in Desc |-> count[d] + RefsTo(Here, d)]
  /\ fcb_count' = [f \in File |-> fcb_count[f] + RefsToFile(Here, f)]
  /\ UNCHANGED <<fcb, position>>

FFork ==
  /\ SysFork
  /\ IF FreeSlots = {} THEN UNCHANGED filevars ELSE Share(FirstFree)

\* exec() opens, reads and closes the program, or ends the process.  The other
\* descriptors stay open.
Exec ==
  \E f \in File \cup {NULL} :
    \/ ~CanOpen(f) /\ Exit /\ UNCHANGED filevars
    \/ /\ CanOpen(f) /\ InSyscall
       /\ position' = [position EXCEPT ![Lowest(FreeDesc)] = FileSize[f]]
       /\ UNCHANGED <<vars, file, fcb, count, fcb_count>>

\* Slip: the corpse's descriptors are cleared, but its open files stay counted.
ReapForgets(z) ==
  /\ file' = [file EXCEPT ![z] = [i \in Fd |-> NULL]]
  /\ UNCHANGED openvars

\* The part of wait() that lets go of the corpse's open files.
ReapFiles(z) ==
  /\ LetGo(file[z])
  /\ file' = [file EXCEPT ![z] = [i \in Fd |-> NULL]]

FWait ==
  /\ SysWait \/ ResumeWait
  /\ IF kill_list' \subseteq kill_list /\ kill_list' # kill_list
     THEN \E z \in kill_list \ kill_list' : ReapFiles(z)
     ELSE UNCHANGED filevars

FNext ==
  \/ OpenFile
  \/ ReadFile
  \/ GetFileSize
  \/ CloseFile
  \/ FFork
  \/ Exec
  \/ FWait
  \/ (Exit \/ TimerInterrupt \/ Stopped) /\ UNCHANGED filevars

FSpec == FInit /\ [][FNext]_fvars

(***************************************************************************)
(* Properties.                                                             *)
(***************************************************************************)
References(d) == {x \in Slot \X Fd : file[x[1]][x[2]] = d}

\* Both counts are the numbers of descriptors, in living and dead processes,
\* that point to the open file and to the file, and an entry of the table is
\* free when none does: nothing is closed under its holder and nothing leaks.
CountsMatch ==
  /\ \A d \in Desc :
       /\ count[d] = Cardinality(References(d))
       /\ fcb[d] = NULL <=> References(d) = {}
  /\ \A f \in File :
       fcb_count[f] = Cardinality(UNION {References(d) : d \in {x \in Desc : fcb[x] = f}})

\* The position of an open file never passes the end of the file, however many
\* processes read it.
PositionInFile ==
  \A d \in Desc : fcb[d] # NULL => position[d] <= FileSize[fcb[d]]

\* An open file that somebody holds before and after a step stays the same
\* file, and its position moves only forward, and only by a read of a holder.
OpenFileStays ==
  [][\A d \in Desc : References(d) # {} /\ References(d)' # {} =>
       /\ fcb'[d] = fcb[d]
       /\ position'[d] >= position[d]
       /\ position'[d] # position[d] => \E i \in Fd : Here[i] = d]_fvars

\* What help/Assertion.md promises: a request the kernel cannot serve is
\* answered with an error, not with a stop of the machine.
InvalidFdIsAnError == panic # "fault"
=============================================================================
