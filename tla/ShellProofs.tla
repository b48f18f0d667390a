---------------------------- MODULE ShellProofs ----------------------------
(***************************************************************************)
(* The properties of the shells and of the keyboard buffer under them, for *)
(* every number of slots, every size of the ring and all lines.            *)
(*                                                                         *)
(* The argument is the chain of shells: every process but one waits for a  *)
(* child of its own (Family).  So at most one process reads the keyboard,  *)
(* which is what the ring buffer needs: the index a blocked reader holds   *)
(* is still front when it wakes up, and then the ring is not empty         *)
(* (Readers).  The kernel does not enforce this; the programs do.          *)
(***************************************************************************)
EXTENDS Shell, ProcessProofs, FiniteSetTheorems

\* The processes, dead or alive, that wait for a child, and the others.
Parents  == {p \in Proc : pid[p] # 0 /\ upc[p] = "wait"}
ChainEnd == {p \in Proc : pid[p] # 0 /\ upc[p] # "wait"}

\* What only a child of a shell does, until it becomes a shell itself.
ChildPc == {"exec", "program"}

\* Pids are unique; there is one process at the end of the chain, and it is the
\* only one that can be dead; every other waits for a child of its own, and a
\* child that may end has a parent that waits for it.
Family ==
  /\ upc \in [Slot -> UserPc] /\ target \in [Slot -> Nat]
  /\ \A p, q \in Proc : pid[p] = pid[q] /\ pid[p] # 0 => p = q
  /\ \A p \in Proc : pid[p] < pid_num
  /\ \A p, q \in ChainEnd : p = q
  /\ \A z \in kill_list : upc[z] \in ChildPc
  /\ \A p \in Parents : \E q \in Proc : q # p /\ pid[q] # 0 /\ pid[q] = target[p]
  /\ \A p, q \in Parents : target[p] = target[q] => p = q
  /\ \A p \in ChainEnd : upc[p] \in ChildPc => \E r \in Parents : target[r] = pid[p]

\* Inside which call the program of a slot can be.
Frames ==
  \A p \in Proc :
    /\ kstack[p].at \in {"user", "read_key", "wait"}
    /\ kstack[p].at = "read_key" => upc[p] = "read"
    /\ kstack[p].at = "wait" => upc[p] = "wait" /\ kstack[p].arg = target[p]

\* A reader holds front, and it sleeps exactly as long as the ring is empty.
Readers ==
  /\ front \in Index /\ end \in Index
  /\ \A p \in Proc : kstack[p].at = "read_key" =>
       /\ kstack[p].arg = front
       /\ p \in Range(wait_list[KeyEvent]) <=> front = end

SIInv == IInv /\ Family /\ Frames /\ Readers

-----------------------------------------------------------------------------
(***************************************************************************)
(* Facts about the state.                                                  *)
(***************************************************************************)

\* The process on the CPU.
LEMMA CurrentInProc ==
  ASSUME ConstantsAssumption, IInv, current_process # Idle
  PROVE  /\ current_process \in Proc /\ current_process \in Slot
         /\ pid[current_process] # 0
         /\ current_process \notin kill_list
         /\ \A e \in Event : current_process \notin Range(wait_list[e])
BY CurrentRuns DEF IInv, ListsMatchStates, Proc

\* Corpses are at the end of the chain.
LEMMA CorpseAtEnd ==
  ASSUME ConstantsAssumption, IInv, Family, NEW z \in kill_list
  PROVE  z \in Proc /\ pid[z] # 0 /\ z \in ChainEnd /\ z # current_process
<1>1. z \in Proc /\ state[z] = "KILLED"
  BY DEF IInv, TypeOK, ListsMatchStates, Proc
<1>2. pid[z] # 0
  BY <1>1 DEF IInv, SlotsOK, Proc
<1>3. upc[z] # "wait"
  BY DEF Family, ChildPc
<1>4. z # current_process
  BY <1>1, CurrentRuns DEF Proc
<1> QED BY <1>1, <1>2, <1>3, <1>4 DEF ChainEnd

\* A parked process has a pid; a parked reader is at the end of the chain.
LEMMA ReaderAtEnd ==
  ASSUME ConstantsAssumption, IInv, Frames, NEW p \in Proc, kstack[p].at = "read_key"
  PROVE  p \in ChainEnd
<1>1. pid[p] # 0
  BY DEF IInv, SlotsOK, Proc
<1>2. upc[p] = "read"
  BY DEF Frames
<1> QED BY <1>1, <1>2 DEF ChainEnd

\* Who sleeps on a key is in read_key_buffer().
LEMMA KeySleeper ==
  ASSUME ConstantsAssumption, IInv, NEW p \in Range(wait_list[KeyEvent])
  PROVE  p \in Proc /\ kstack[p].at = "read_key"
<1>1. p \in Proc
  <2>1. wait_list[KeyEvent] \in Seq(Proc)
    BY DEF IInv, TypeOK, Event, Proc
  <2> QED BY <2>1, RangeOfSeq DEF Range
<1>2. EventOf(kstack[p]) = KeyEvent /\ kstack[p] \in Frame
  BY <1>1 DEF IInv, TypeOK, ListsMatchStates, Event, Proc
<1>3. EventOf(kstack[p]) # TickEvent /\ EventOf(kstack[p]) # ExitEvent
      /\ EventOf(kstack[p]) \in Event
  BY <1>2 DEF Event, TickEvent, KeyEvent, ExitEvent
<1> QED BY <1>1, <1>2, <1>3, FrameEvents

\* The ring index after i.
LEMMA NextIndex ==
  ASSUME KeyboardAssumption, NEW i \in Index
  PROVE  /\ (i + 1) % BUFFER_SIZE \in Index
         /\ (i + 1) % BUFFER_SIZE # i
         /\ (i + 1) % BUFFER_SIZE = IF i = BUFFER_SIZE - 1 THEN 0 ELSE i + 1
<1>1. BUFFER_SIZE \in Nat /\ BUFFER_SIZE >= 2 /\ i \in Nat /\ i < BUFFER_SIZE
  BY DEF KeyboardAssumption, Index
<1>2. CASE i = BUFFER_SIZE - 1
  <2>1. BUFFER_SIZE % BUFFER_SIZE = 0
    BY <1>1
  <2> QED BY <1>1, <1>2, <2>1 DEF Index
<1>3. CASE i # BUFFER_SIZE - 1
  <2>1. i + 1 \in 0 .. BUFFER_SIZE - 1
    BY <1>1, <1>3
  <2>2. (i + 1) % BUFFER_SIZE = i + 1
    BY <1>1, <2>1
  <2> QED BY <1>1, <1>3, <2>1, <2>2 DEF Index
<1> QED BY <1>2, <1>3

-----------------------------------------------------------------------------
(***************************************************************************)
(* Each part of the invariant over the steps that leave it alone, or that  *)
(* several actions share.                                                  *)
(***************************************************************************)
LEMMA FamilySame ==
  ASSUME Family, UNCHANGED <<pid, kill_list, pid_num, target, upc>>
  PROVE  Family'
BY DEF Family, ChainEnd, Parents

\* Frames speaks of the frames, and of the program counters of those blocked.
LEMMA FramesSame ==
  ASSUME Frames, UNCHANGED <<kstack, target>>,
         \A p \in Proc : kstack[p].at # "user" => upc'[p] = upc[p]
  PROVE  Frames'
BY DEF Frames

\* Readers speaks of the ring and of those who sleep on it.
LEMMA ReadersSame ==
  ASSUME Readers, UNCHANGED <<front, end>>, wait_list'[KeyEvent] = wait_list[KeyEvent],
         \A p \in Proc : kstack'[p].at = "read_key" => kstack'[p] = kstack[p]
  PROVE  Readers'
BY DEF Readers

\* The program on the CPU goes on, at x, and neither waits nor has waited.
LEMMA FamilyGoesOn ==
  ASSUME ConstantsAssumption, IInv, Family, current_process # Idle,
         UNCHANGED <<pid, kill_list, pid_num, target>>,
         upc[current_process] # "wait", NEW x \in UserPc, x # "wait",
         x \in ChildPc => upc[current_process] \in ChildPc,
         upc' = [upc EXCEPT ![current_process] = x]
  PROVE  Family'
<1> DEFINE c == current_process
<1>1. c \in Proc /\ c \in Slot /\ pid[c] # 0 /\ c \notin kill_list
  BY CurrentInProc
<1>2. /\ upc' \in [Slot -> UserPc] /\ upc'[c] = x
      /\ \A p \in Slot \ {c} : upc'[p] = upc[p]
  BY <1>1 DEF Family
<1>3. Parents' = Parents /\ ChainEnd' = ChainEnd
  BY <1>1, <1>2 DEF Parents, ChainEnd, Proc
<1>4. \A z \in kill_list' : upc'[z] \in ChildPc
  BY <1>1, <1>2, CorpseAtEnd DEF Family, Proc
<1>5. \A p \in ChainEnd' : upc'[p] \in ChildPc => \E r \in Parents : target[r] = pid[p]
  BY <1>1, <1>2, <1>3 DEF Family, ChainEnd, Proc
<1> QED BY <1>2, <1>3, <1>4, <1>5 DEF Family

\* What a key can do to the line editor.
LEMMA GotKeyGoesOn ==
  ASSUME NEW ch, GotKey(ch), upc \in [Slot -> UserPc], current_process \in Slot,
         upc[current_process] = "read"
  PROVE  /\ target' = target
         /\ \E x \in {"read", "lookup"} : upc' = [upc EXCEPT ![current_process] = x]
<1>1. CASE UNCHANGED upc
  <2>1. upc' = [upc EXCEPT ![current_process] = "read"]
    BY <1>1
  <2> QED BY <2>1 DEF GotKey
<1>2. CASE Prompt \/ Goto("lookup")
  BY <1>2 DEF GotKey, Prompt, Goto, Current
<1> QED BY <1>1, <1>2 DEF GotKey

\* A read that begins or ends: the program reads on or looks the line up.
LEMMA ReadFamily ==
  ASSUME ConstantsAssumption, IInv, Family, current_process # Idle,
         UNCHANGED <<pid, kill_list, pid_num>>, NEW ch, GotKey(ch),
         upc[current_process] = "read"
  PROVE  /\ Family' /\ target' = target
         /\ \A p \in Slot \ {current_process} : upc'[p] = upc[p]
<1>1. current_process \in Slot /\ upc \in [Slot -> UserPc]
  BY CurrentInProc DEF Family
<1>2. PICK x \in {"read", "lookup"} : upc' = [upc EXCEPT ![current_process] = x]
  BY <1>1, GotKeyGoesOn
<1>3. target' = target
  BY <1>1, GotKeyGoesOn
<1>4. x \in UserPc /\ x # "wait" /\ x \notin ChildPc
  BY DEF UserPc, ChildPc
<1>5. Family'
  BY <1>2, <1>3, <1>4, FamilyGoesOn
<1> QED BY <1>1, <1>2, <1>3, <1>5

\* The current process parks itself in a call that its program may be in.
LEMMA ParkFrames ==
  ASSUME ConstantsAssumption, IInv, Frames, current_process # Idle,
         NEW at \in {"read_key", "wait"}, NEW arg \in Int, Park(at, arg, 0),
         UNCHANGED <<upc, target>>,
         at = "read_key" => upc[current_process] = "read",
         at = "wait" => upc[current_process] = "wait" /\ arg = target[current_process]
  PROVE  /\ Frames' /\ kstack'[current_process].at = at
         /\ kstack'[current_process].arg = arg
         /\ \A p \in Slot \ {current_process} : kstack'[p] = kstack[p]
<1> DEFINE c == current_process
<1>1. /\ c \in Proc /\ c \in Slot
      /\ kstack' = [kstack EXCEPT ![c] = [at |-> at, arg |-> arg, old |-> 0]]
      /\ kstack \in [Slot -> Frame]
  BY CurrentInProc DEF Park, IInv, TypeOK
<1>2. /\ kstack'[c].at = at /\ kstack'[c].arg = arg
      /\ \A p \in Slot \ {c} : kstack'[p] = kstack[p]
  BY <1>1
<1>3. Frames'
  BY <1>1, <1>2 DEF Frames, Proc
<1> QED BY <1>2, <1>3

\* The current process returns to its program.
LEMMA ReturnFrames ==
  ASSUME ConstantsAssumption, IInv, Frames, ReturnToUser, target' = target,
         current_process # Idle,
         \A p \in Slot \ {current_process} : upc'[p] = upc[p]
  PROVE  /\ Frames' /\ kstack'[current_process].at = "user"
         /\ \A p \in Slot \ {current_process} : kstack'[p] = kstack[p]
<1> DEFINE c == current_process
<1>1. c \in Slot /\ kstack' = [kstack EXCEPT ![c] = UserFrame] /\ kstack \in [Slot -> Frame]
  BY CurrentInProc DEF ReturnToUser, IInv, TypeOK
<1>2. kstack'[c].at = "user" /\ \A p \in Slot \ {c} : kstack'[p] = kstack[p]
  BY <1>1, UserFrameType
<1>3. Frames'
  BY <1>2 DEF Frames, Proc
<1> QED BY <1>2, <1>3

\* A sleep on event e leaves who sleeps on the others alone, and adds the
\* current process to those who sleep on e.
LEMMA SleepQueues ==
  ASSUME ConstantsAssumption, IInv, current_process # Idle, NEW e \in Event, Sleep(e)
  PROVE  /\ Range(wait_list'[e]) = Range(wait_list[e]) \cup {current_process}
         /\ \A d \in Event \ {e} : wait_list'[d] = wait_list[d]
<1>1. /\ wait_list \in [Event -> Seq(Proc)] /\ current_process \in Proc
      /\ wait_list' = [wait_list EXCEPT ![e] = Append(@, current_process)]
  BY CurrentInProc DEF IInv, TypeOK, Proc, Sleep
<1>2. Range(Append(wait_list[e], current_process)) = Range(wait_list[e]) \cup {current_process}
  BY <1>1, AppendQueue
<1> QED BY <1>1, <1>2

-----------------------------------------------------------------------------
(***************************************************************************)
(* The actions.                                                            *)
(***************************************************************************)

\* sys_keyboard_read() finds the ring empty and blocks.
LEMMA ReadBlocks ==
  ASSUME ConstantsAssumption, KeyboardAssumption, SIInv, InSyscall,
         upc[current_process] = "read", front = end, BlockOnKey(front),
         UNCHANGED <<kbvars, uservars>>
  PROVE  SIInv'
<1> DEFINE c == current_process
<1>1. /\ c \in Proc /\ c \in Slot /\ c # Idle /\ front \in Index /\ front \in Int
  BY CurrentInProc DEF SIInv, InSyscall, Readers, Index, KeyboardAssumption
<1>2. /\ Park("read_key", front, 0) /\ Sleep(KeyEvent)
      /\ UNCHANGED <<pid, kill_list, pid_num, ticks>>
      /\ UNCHANGED <<front, end, upc, target>>
  BY DEF BlockOnKey, kbvars, uservars
<1>3. IInv'
  <2> DEFINE f == [at |-> "read_key", arg |-> front, old |-> 0]
  <2>1. f \in Frame /\ f.at = "read_key"
    BY <1>1 DEF Frame, ConstantsAssumption
  <2>2. EventOf(f) = KeyEvent /\ KeyEvent \in Event
    BY <2>1, FrameEvents DEF Event
  <2> QED BY <1>1, <1>2, <2>1, <2>2, BlockStep DEF SIInv
<1>4. /\ Frames' /\ kstack'[c].at = "read_key" /\ kstack'[c].arg = front
      /\ \A p \in Slot \ {c} : kstack'[p] = kstack[p]
  BY <1>1, <1>2, ParkFrames DEF SIInv
<1>5. Range(wait_list'[KeyEvent]) = Range(wait_list[KeyEvent]) \cup {c}
  BY <1>1, <1>2, SleepQueues DEF SIInv, Event
<1>6. Readers'
  <2>1. ASSUME NEW p \in Proc, kstack'[p].at = "read_key"
        PROVE  kstack'[p].arg = front /\ p \in Range(wait_list'[KeyEvent])
    <3>1. CASE p = c
      BY <1>4, <1>5, <3>1
    <3>2. CASE p # c
      BY <1>4, <1>5, <2>1, <3>2 DEF SIInv, Readers, Proc
    <3> QED BY <3>1, <3>2
  <2> QED BY <1>1, <1>2, <2>1 DEF SIInv, Readers
<1>7. Family'
  BY <1>2, FamilySame DEF SIInv
<1> QED BY <1>3, <1>4, <1>6, <1>7 DEF SIInv

\* A reader takes a key: nobody else is reading, so the index nobody else holds
\* may move on.
LEMMA TakesKey ==
  ASSUME ConstantsAssumption, KeyboardAssumption, SIInv, NEW i, TakeKey(i),
         \A p \in Proc : kstack'[p].at # "read_key"
  PROVE  Readers'
<1>1. front' = (front + 1) % BUFFER_SIZE /\ end' = end
  BY DEF TakeKey
<1>2. front' \in Index
  BY <1>1, NextIndex DEF SIInv, Readers
<1> QED BY <1>1, <1>2 DEF SIInv, Readers

\* At most one process is inside a read.
LEMMA OneReader ==
  ASSUME ConstantsAssumption, SIInv, current_process # Idle, upc[current_process] # "wait",
         NEW p \in Proc, kstack[p].at = "read_key"
  PROVE  p = current_process
<1>1. p \in ChainEnd
  BY ReaderAtEnd DEF SIInv
<1>2. current_process \in ChainEnd
  BY CurrentInProc DEF ChainEnd, SIInv
<1> QED BY <1>1, <1>2 DEF SIInv, Family

\* The shell asks for a key.
LEMMA ShellReadStep ==
  ASSUME ConstantsAssumption, KeyboardAssumption, SIInv, ShellRead
  PROVE  SIInv'
<1> DEFINE c == current_process
<1>1. InSyscall /\ c # Idle /\ kstack[c].at = "user" /\ upc[c] = "read" /\ KeyboardRead
  BY DEF ShellRead, InSyscall, UserMode, Current
<1>2. CASE front = end
  BY <1>1, <1>2, ReadBlocks DEF ShellRead, KeyboardRead
<1>3. CASE front # end
  <2>1. UNCHANGED vars /\ TakeKey(front) /\ GotKey(buffer[front])
    BY <1>1, <1>3 DEF ShellRead, KeyboardRead
  <2>2. UNCHANGED <<pid, kill_list, pid_num, kstack>>
    BY <2>1 DEF vars
  <2>3. IInv'
    BY <2>1 DEF SIInv, IInv, vars, TypeOK, ListsMatchStates, OnlyForkAsserts, SlotsOK
  <2>4. Family' /\ target' = target /\ \A p \in Slot \ {c} : upc'[p] = upc[p]
    BY <1>1, <2>1, <2>2, ReadFamily DEF SIInv
  <2>5. \A p \in Proc : kstack[p].at # "user" => upc'[p] = upc[p]
    BY <1>1, <2>4 DEF Proc
  <2>6. Frames'
    BY <2>2, <2>4, <2>5, FramesSame DEF SIInv
  <2>7. \A p \in Proc : kstack'[p].at # "read_key"
    BY <1>1, <2>2, OneReader
  <2>8. Readers'
    BY <2>1, <2>7, TakesKey
  <2> QED BY <2>3, <2>4, <2>6, <2>8 DEF SIInv
<1> QED BY <1>2, <1>3

\* A reader that was woken takes the key at the index it has held.
LEMMA ShellReadEndsStep ==
  ASSUME ConstantsAssumption, KeyboardAssumption, SIInv, ShellReadEnds
  PROVE  SIInv'
<1> DEFINE c == current_process
<1>1. /\ kstack[c].at = "read_key" /\ c # Idle /\ ReturnToUser
      /\ UNCHANGED <<state, pid, current_process, ready_list, wait_list,
                     kill_list, pid_num, ticks, panic>>
      /\ TakeKey(kstack[c].arg) /\ GotKey(buffer[kstack[c].arg])
  BY DEF ShellReadEnds, KeyboardReadEnds, ResumeKey, Resumed, Current, SIInv, IInv, SlotsOK
<1>2. c \in Proc /\ c \in Slot
  BY <1>1, CurrentInProc DEF SIInv
<1>3. upc[c] = "read"
  BY <1>1, <1>2 DEF SIInv, Frames
<1>4. IInv'
  BY <1>1, ReturnStep DEF SIInv
<1>5. Family' /\ target' = target /\ \A p \in Slot \ {c} : upc'[p] = upc[p]
  BY <1>1, <1>3, ReadFamily DEF SIInv
<1>6. /\ Frames' /\ kstack'[c].at = "user"
      /\ \A p \in Slot \ {c} : kstack'[p] = kstack[p]
  BY <1>1, <1>5, ReturnFrames DEF SIInv
<1>7. \A p \in Proc : kstack'[p].at # "read_key"
  BY <1>1, <1>3, <1>6, OneReader DEF Proc
<1>8. Readers'
  BY <1>1, <1>7, TakesKey
<1> QED BY <1>4, <1>5, <1>6, <1>8 DEF SIInv

\* It looks the command up, and goes on at the prompt if there is none.
LEMMA ShellLookupStep ==
  ASSUME ConstantsAssumption, SIInv, ShellLookup
  PROVE  SIInv'
<1> DEFINE c == current_process
<1>1. /\ c # Idle /\ kstack[c].at = "user" /\ upc[c] = "lookup"
      /\ UNCHANGED <<vars, kbvars, target>>
  BY DEF ShellLookup, InSyscall, UserMode, Current
<1>2. PICK x \in {"read", "fork"} : upc' = [upc EXCEPT ![c] = x]
  BY DEF ShellLookup, Prompt, Goto, Current
<1>3. c \in Slot /\ \A p \in Slot \ {c} : upc'[p] = upc[p]
  BY <1>1, <1>2, CurrentInProc DEF SIInv, Family
<1>4. IInv'
  BY <1>1 DEF SIInv, IInv, vars, TypeOK, ListsMatchStates, OnlyForkAsserts, SlotsOK
<1>5. Family'
  <2>1. x \in UserPc /\ x # "wait" /\ x \notin ChildPc
    BY DEF UserPc, ChildPc
  <2> QED BY <1>1, <1>2, <2>1, FamilyGoesOn DEF SIInv, vars
<1>6. Frames'
  <2>1. \A p \in Proc : kstack[p].at # "user" => upc'[p] = upc[p]
    BY <1>1, <1>3 DEF Proc
  <2> QED BY <1>1, <2>1, FramesSame DEF SIInv, vars
<1>7. Readers'
  BY <1>1, ReadersSame DEF SIInv, vars, kbvars
<1> QED BY <1>4, <1>5, <1>6, <1>7 DEF SIInv

\* The shell's child becomes the end of the chain, and the shell its parent.
LEMMA ShellForkStep ==
  ASSUME ConstantsAssumption, SIInv, ShellFork
  PROVE  SIInv'
<1> DEFINE c == current_process
           n == FirstFree
<1>1. /\ c # Idle /\ kstack[c].at = "user" /\ upc[c] = "fork" /\ SysFork
      /\ UNCHANGED kbvars
  BY DEF ShellFork, SysFork, InSyscall, UserMode, Current
<1>2. c \in Proc /\ c \in Slot /\ pid[c] # 0 /\ c \notin kill_list /\ c \in ChainEnd
  BY <1>1, CurrentInProc DEF SIInv, ChainEnd
<1>3. IInv'
  BY <1>1, ForkStep DEF SIInv
<1>4. UNCHANGED <<kstack, wait_list, kill_list>>
  BY DEF ShellFork, SysFork
<1>5. Readers'
  BY <1>1, <1>4, ReadersSame DEF SIInv, kbvars
<1>6. CASE FreeSlots = {}
  <2>1. UNCHANGED <<uservars, pid, pid_num>>
    BY <1>6 DEF ShellFork, SysFork
  <2> QED BY <1>3, <1>4, <1>5, <2>1, FamilySame, FramesSame DEF SIInv, uservars
<1>7. CASE FreeSlots # {}
  <2>1. /\ pid' = [pid EXCEPT ![n] = pid_num] /\ pid_num' = pid_num + 1
        /\ upc' = [upc EXCEPT ![c] = "wait", ![n] = "exec"]
        /\ target' = [target EXCEPT ![c] = pid_num, ![n] = 0]
    BY <1>7 DEF ShellFork, SysFork, Current
  <2>2. n \in Proc /\ n \in Slot /\ state[n] = "UNUSED"
    BY <1>7, FirstFreeIsFree DEF SIInv
  <2>3. pid[n] = 0 /\ n # c /\ kstack[n].at = "user" /\ n \notin kill_list
    BY <1>2, <2>2 DEF SIInv, IInv, SlotsOK, ListsMatchStates, Proc
  <2> HIDE DEF n
  <2>4. pid_num \in Nat /\ pid_num # 0 /\ \A p \in Slot : pid[p] \in Nat
    BY DEF SIInv, IInv, TypeOK, ConstantsAssumption
  <2>5. /\ upc' \in [Slot -> UserPc] /\ target' \in [Slot -> Nat]
        /\ upc'[c] = "wait" /\ upc'[n] = "exec"
        /\ target'[c] = pid_num /\ target'[n] = 0
        /\ pid'[n] = pid_num /\ pid'[c] = pid[c]
        /\ \A p \in Slot \ {c, n} : upc'[p] = upc[p] /\ target'[p] = target[p] /\ pid'[p] = pid[p]
    BY <1>2, <2>1, <2>2, <2>3, <2>4 DEF SIInv, Family, UserPc, IInv, TypeOK
  <2>6. Frames'
    <3>1. \A p \in Proc \ {c, n} : upc'[p] = upc[p] /\ target'[p] = target[p]
      BY <2>5 DEF Proc
    <3> QED BY <1>1, <1>4, <2>3, <3>1 DEF SIInv, Frames
  <2>7. ChainEnd = {c}
    BY <1>2 DEF SIInv, Family
  <2>8. kill_list = {}
    BY <1>2, <2>7, CorpseAtEnd DEF SIInv
  <2>9. Parents' = Parents \cup {c} /\ ChainEnd' = {n}
    <3>1. \A p \in Proc \ {c, n} : upc'[p] = upc[p] /\ pid'[p] = pid[p]
      BY <2>5 DEF Proc
    <3> QED BY <1>2, <2>2, <2>3, <2>4, <2>5, <2>7, <3>1 DEF Parents, ChainEnd
  <2>10. \A p \in Parents : /\ p \in Proc /\ p # c /\ p # n
                            /\ target'[p] = target[p] /\ target[p] < pid_num
    <3>1. \A p \in Parents : p \in Proc /\ p # c /\ p # n
      BY <1>1, <2>3 DEF Parents
    <3>2. \A p \in Parents : target[p] < pid_num
      BY DEF SIInv, Family
    <3> QED BY <2>5, <3>1, <3>2 DEF Proc
  <2>11. Family'
    <3>1. \A p, q \in Proc : pid'[p] = pid'[q] /\ pid'[p] # 0 => p = q
      <4>1. \A p \in Proc : pid[p] # pid_num /\ (p # n => pid'[p] = pid[p])
        BY <2>4, <2>5 DEF SIInv, Family, Proc
      <4> QED BY <2>5, <4>1 DEF SIInv, Family
    <3>2. \A p \in Proc : pid'[p] < pid_num'
      <4>1. \A p \in Proc : pid'[p] \in {pid[p], pid_num} /\ pid[p] < pid_num /\ pid[p] \in Nat
        BY <2>4, <2>5 DEF SIInv, Family, Proc
      <4> QED BY <2>1, <2>4, <4>1
    <3>3. \A p \in Parents' : \E q \in Proc : q # p /\ pid'[q] # 0 /\ pid'[q] = target'[p]
      <4>1. ASSUME NEW p \in Parents
            PROVE  \E q \in Proc : q # p /\ pid'[q] # 0 /\ pid'[q] = target'[p]
        <5>1. PICK q \in Proc : q # p /\ pid[q] # 0 /\ pid[q] = target[p]
          BY DEF SIInv, Family
        <5>2. q # n /\ pid'[q] = pid[q]
          BY <2>3, <2>5, <5>1 DEF Proc
        <5> QED BY <2>10, <5>1, <5>2
      <4>2. n # c /\ pid'[n] # 0 /\ pid'[n] = target'[c]
        BY <2>3, <2>4, <2>5
      <4> QED BY <2>2, <2>9, <4>1, <4>2
    <3>4. \A p, q \in Parents' : target'[p] = target'[q] => p = q
      BY <2>4, <2>5, <2>9, <2>10 DEF SIInv, Family
    <3>5. \A p \in ChainEnd' : \E r \in Parents' : target'[r] = pid'[p]
      BY <2>5, <2>9
    <3>6. \A z \in kill_list' : upc'[z] \in ChildPc
      BY <1>4, <2>8
    <3> QED BY <2>5, <2>9, <3>1, <3>2, <3>3, <3>4, <3>5, <3>6 DEF Family
  <2> QED BY <1>3, <1>5, <2>6, <2>11 DEF SIInv
<1> QED BY <1>6, <1>7

\* A child that ends is a corpse its parent waits for.
LEMMA ChildEnds ==
  ASSUME ConstantsAssumption, SIInv, Exit, upc[current_process] \in ChildPc,
         UNCHANGED <<kbvars, uservars>>
  PROVE  SIInv'
<1> DEFINE c == current_process
<1>1. c # Idle /\ kill_list' = kill_list \cup {c}
  BY DEF Exit, InSyscall
<1>2. /\ UNCHANGED <<pid, kstack, pid_num>> /\ UNCHANGED <<front, end, upc, target>>
      /\ wait_list' = WokenWait(ExitEvent)
  BY DEF Exit, kbvars, uservars
<1>3. IInv'
  BY ExitStep DEF SIInv
<1>4. Family'
  BY <1>1, <1>2 DEF SIInv, Family, Parents, ChainEnd
<1>5. Frames'
  BY <1>2 DEF SIInv, Frames
<1>6. wait_list'[KeyEvent] = wait_list[KeyEvent]
  BY <1>2 DEF WokenWait, SIInv, IInv, TypeOK, Event, TickEvent, KeyEvent, ExitEvent
<1>7. Readers'
  BY <1>2, <1>6, ReadersSame DEF SIInv
<1> QED BY <1>3, <1>4, <1>5, <1>7 DEF SIInv

\* The child loads the program, or ends because it cannot.
LEMMA ChildExecStep ==
  ASSUME ConstantsAssumption, SIInv, ChildExec
  PROVE  SIInv'
<1> DEFINE c == current_process
<1>1. upc[c] = "exec" /\ upc[c] \in ChildPc
  BY DEF ChildExec, Current, ChildPc
<1>2. CASE Exit /\ UNCHANGED <<kbvars, uservars>>
  BY <1>1, <1>2, ChildEnds
<1>3. CASE /\ InSyscall
           /\ Prompt \/ (Goto("program") /\ UNCHANGED line)
           /\ UNCHANGED <<vars, kbvars, target>>
  <2>1. c # Idle /\ kstack[c].at = "user" /\ UNCHANGED <<vars, kbvars, target>>
    BY <1>3 DEF InSyscall, UserMode
  <2>2. PICK x \in {"read", "program"} : upc' = [upc EXCEPT ![c] = x]
    BY <1>3 DEF Prompt, Goto, Current
  <2>3. c \in Slot /\ \A p \in Slot \ {c} : upc'[p] = upc[p]
    BY <2>1, <2>2, CurrentInProc DEF SIInv, Family
  <2>4. IInv'
    BY <2>1 DEF SIInv, IInv, vars, TypeOK, ListsMatchStates, OnlyForkAsserts, SlotsOK
  <2>5. Family'
    <3>1. x \in UserPc /\ x # "wait" /\ upc[c] # "wait"
      BY <1>1 DEF UserPc
    <3> QED BY <1>1, <2>1, <2>2, <3>1, FamilyGoesOn DEF SIInv, vars
  <2>6. Frames'
    <3>1. \A p \in Proc : kstack[p].at # "user" => upc'[p] = upc[p]
      BY <2>1, <2>3 DEF Proc
    <3> QED BY <2>1, <3>1, FramesSame DEF SIInv, vars
  <2>7. Readers'
    BY <2>1, ReadersSame DEF SIInv, vars, kbvars
  <2> QED BY <2>4, <2>5, <2>6, <2>7 DEF SIInv
<1> QED BY <1>2, <1>3 DEF ChildExec

\* The program ends.
LEMMA ProgramEndsStep ==
  ASSUME ConstantsAssumption, SIInv, ProgramEnds
  PROVE  SIInv'
BY ChildEnds DEF ProgramEnds, Current, ChildPc

\* wait() takes the child at the end of the chain; the shell is there instead.
LEMMA ShellReaps ==
  ASSUME ConstantsAssumption, SIInv, current_process # Idle, upc[current_process] = "wait",
         NEW z \in kill_list, pid[z] = target[current_process], Reap(z),
         Waited, UNCHANGED <<kbvars, target>>
  PROVE  SIInv'
<1> DEFINE c == current_process
<1>1. /\ c \in Proc /\ c \in Slot /\ pid[c] # 0 /\ c \in Parents
      /\ \A e \in Event : c \notin Range(wait_list[e])
  BY CurrentInProc DEF Parents, SIInv
<1>2. z \in Proc /\ z \in Slot /\ pid[z] # 0 /\ z # c /\ z \in ChainEnd /\ state[z] = "KILLED"
  BY CorpseAtEnd DEF SIInv, Proc, IInv, ListsMatchStates
<1>3. /\ kill_list' = kill_list \ {z} /\ pid' = [pid EXCEPT ![z] = 0] /\ ReturnToUser
      /\ UNCHANGED <<current_process, ready_list, wait_list, pid_num, ticks>>
      /\ UNCHANGED <<front, end, target>>
  BY DEF Reap, kbvars
<1>4. IInv'
  BY ReapStep DEF SIInv
<1>5. kstack'[c].at = "user"
  BY <1>1, <1>3, UserFrameType DEF ReturnToUser, SIInv, IInv, TypeOK
<1>6. upc' = [upc EXCEPT ![c] = "read"]
  BY <1>5 DEF Waited, Prompt, Goto, Current
<1>7. /\ upc' \in [Slot -> UserPc] /\ upc'[c] = "read"
      /\ \A p \in Slot \ {c} : upc'[p] = upc[p]
      /\ pid'[z] = 0 /\ \A p \in Slot \ {z} : pid'[p] = pid[p]
  BY <1>1, <1>2, <1>3, <1>6 DEF SIInv, Family, UserPc, IInv, TypeOK
<1>8. /\ Frames' /\ \A p \in Slot \ {c} : kstack'[p] = kstack[p]
  BY <1>3, <1>7, ReturnFrames DEF SIInv
<1>9. Readers'
  <2>1. \A p \in Proc : kstack'[p].at = "read_key" => kstack'[p] = kstack[p]
    BY <1>5, <1>8 DEF Proc
  <2> QED BY <1>3, <2>1, ReadersSame DEF SIInv
<1>10. ChainEnd = {z}
  BY <1>2 DEF SIInv, Family
<1>11. kill_list' = {}
  BY <1>3, <1>10, CorpseAtEnd DEF SIInv
<1>12. Parents' = Parents \ {c} /\ ChainEnd' = {c}
  <2>1. \A p \in Proc \ {c, z} : upc'[p] = upc[p] /\ pid'[p] = pid[p]
    BY <1>7 DEF Proc
  <2>2. z \notin Parents /\ z \notin Parents' /\ z \notin ChainEnd'
    BY <1>2, <1>7 DEF Parents, ChainEnd
  <2> QED BY <1>1, <1>2, <1>7, <1>10, <2>1, <2>2 DEF Parents, ChainEnd
<1>13. Family'
  <2>1. \A p \in Proc : pid'[p] \in {0, pid[p]} /\ (p # z => pid'[p] = pid[p])
    BY <1>7 DEF Proc
  <2>2. \A p, q \in Proc : pid'[p] = pid'[q] /\ pid'[p] # 0 => p = q
    BY <1>7, <2>1 DEF SIInv, Family
  <2>3. \A p \in Proc : pid'[p] < pid_num'
    <3>1. pid_num > 0
      BY DEF SIInv, IInv, TypeOK, ConstantsAssumption
    <3> QED BY <1>3, <2>1, <3>1 DEF SIInv, Family
  <2>4. \A p \in Parents' : \E q \in Proc : q # p /\ pid'[q] # 0 /\ pid'[q] = target'[p]
    <3>1. ASSUME NEW p \in Parents, p # c
          PROVE  \E q \in Proc : q # p /\ pid'[q] # 0 /\ pid'[q] = target[p]
      <4>1. PICK q \in Proc : q # p /\ pid[q] # 0 /\ pid[q] = target[p]
        BY DEF SIInv, Family
      <4>2. target[p] # target[c]
        BY <1>1, <3>1 DEF SIInv, Family
      <4>3. q # z
        BY <4>1, <4>2
      <4> QED BY <2>1, <4>1, <4>3
    <3> QED BY <1>3, <1>12, <3>1
  <2>5. \A p, q \in Parents' : target'[p] = target'[q] => p = q
    BY <1>3, <1>12 DEF SIInv, Family
  <2>6. \A p \in ChainEnd' : upc'[p] \notin ChildPc
    BY <1>7, <1>12 DEF ChildPc
  <2>7. target' \in [Slot -> Nat]
    BY <1>3 DEF SIInv, Family
  <2> QED BY <1>7, <1>11, <1>12, <2>2, <2>3, <2>4, <2>5, <2>6, <2>7 DEF Family
<1> QED BY <1>4, <1>8, <1>9, <1>13 DEF SIInv

\* waitu(): the shell takes the corpse of its child, or blocks for it.
LEMMA ShellWaits ==
  ASSUME ConstantsAssumption, SIInv, current_process # Idle, upc[current_process] = "wait",
         WaitLoop(target[current_process]), Waited, UNCHANGED <<kbvars, target>>
  PROVE  SIInv'
<1> DEFINE c == current_process
           k == target[c]
           dead == {z \in kill_list : pid[z] = k}
<1>0. c \in Slot /\ k \in Int
  BY CurrentInProc DEF SIInv, Family
<1>1. CASE \E z \in dead : Reap(z)
  BY <1>1, ShellReaps
<1>2. CASE /\ Park("wait", k, 0) /\ Sleep(ExitEvent)
           /\ UNCHANGED <<pid, kill_list, pid_num, ticks>>
  <2>1. IInv'
    BY <1>0, WaitLoopStep DEF SIInv
  <2>2. kstack'[c].at = "wait"
    BY <1>0, <1>2 DEF Park, SIInv, IInv, TypeOK
  <2>3. UNCHANGED <<upc, target, front, end>>
    BY <2>2 DEF Waited, Current, kbvars
  <2>4. Frames' /\ \A p \in Slot \ {c} : kstack'[p] = kstack[p]
    BY <1>0, <1>2, <2>3, ParkFrames DEF SIInv
  <2>5. Family'
    BY <1>2, <2>3, FamilySame DEF SIInv
  <2>6. wait_list'[KeyEvent] = wait_list[KeyEvent]
    BY <1>2, SleepQueues DEF SIInv, Event, TickEvent, KeyEvent, ExitEvent
  <2>7. Readers'
    <3>1. \A p \in Proc : kstack'[p].at = "read_key" => kstack'[p] = kstack[p]
      BY <2>2, <2>4 DEF Proc
    <3> QED BY <2>3, <2>6, <3>1, ReadersSame DEF SIInv
  <2> QED BY <2>1, <2>4, <2>5, <2>7 DEF SIInv
<1> QED BY <1>1, <1>2 DEF WaitLoop

\* The shell calls wait(),
LEMMA ShellWaitStep ==
  ASSUME ConstantsAssumption, SIInv, ShellWait
  PROVE  SIInv'
BY ShellWaits DEF ShellWait, InSyscall, Current

\* and goes on inside it when it is woken up.
LEMMA ShellWaitEndsStep ==
  ASSUME ConstantsAssumption, SIInv, ShellWaitEnds
  PROVE  SIInv'
<1> DEFINE c == current_process
<1>1. /\ kstack[c].at = "wait" /\ c # Idle /\ WaitLoop(kstack[c].arg) /\ Waited
      /\ UNCHANGED <<kbvars, target>>
  BY DEF ShellWaitEnds, ResumeWait, Resumed, SIInv, IInv, SlotsOK
<1>2. upc[c] = "wait" /\ kstack[c].arg = target[c]
  BY <1>1, CurrentInProc DEF SIInv, Frames
<1> QED BY <1>1, <1>2, ShellWaits

\* A tick switches processes and changes nothing else.
LEMMA TickStep ==
  ASSUME ConstantsAssumption, SIInv, TimerInterrupt, UNCHANGED <<kbvars, uservars>>
  PROVE  SIInv'
<1>1. /\ UNCHANGED <<pid, kstack, kill_list, pid_num>> /\ UNCHANGED <<front, end, upc, target>>
      /\ wait_list' = WokenWait(TickEvent)
  BY DEF TimerInterrupt, kbvars, uservars
<1>2. IInv'
  BY TimerStep DEF SIInv
<1>3. wait_list'[KeyEvent] = wait_list[KeyEvent]
  BY <1>1 DEF WokenWait, SIInv, IInv, TypeOK, Event, TickEvent, KeyEvent, ExitEvent
<1> QED BY <1>1, <1>2, <1>3, FamilySame, FramesSame, ReadersSame DEF SIInv

\* A key ends the sleep of the reader and fills the ring it found empty.
LEMMA KeyTypedStep ==
  ASSUME ConstantsAssumption, KeyboardAssumption, SIInv, NEW ch, keyboard_handler(ch),
         UNCHANGED uservars
  PROVE  SIInv'
<1>1. /\ UNCHANGED <<pid, kstack, kill_list, pid_num, upc, target>>
      /\ wait_list' = WokenWait(KeyEvent) /\ write_key_buffer(ch)
  BY DEF keyboard_handler, KeyInterrupt, uservars
<1>2. IInv'
  BY KeyStep DEF SIInv, keyboard_handler
<1>3. Range(wait_list'[KeyEvent]) = {}
  <2>1. wait_list'[KeyEvent] = <<>>
    BY <1>1 DEF WokenWait, SIInv, IInv, TypeOK, Event
  <2> QED BY <2>1, EmptyQueue
<1>4. /\ front' = front /\ end' \in Index /\ front \in Index
      /\ front = end \/ front # end => front' # end'
  <2>1. (end + 1) % BUFFER_SIZE \in Index /\ (end + 1) % BUFFER_SIZE # end
    BY NextIndex DEF SIInv, Readers
  <2>2. CASE (end + 1) % BUFFER_SIZE = front /\ UNCHANGED kbvars
    BY <2>1, <2>2 DEF kbvars, SIInv, Readers
  <2>3. CASE (end + 1) % BUFFER_SIZE # front /\ end' = (end + 1) % BUFFER_SIZE /\ front' = front
    BY <2>1, <2>3 DEF SIInv, Readers
  <2> QED BY <1>1, <2>2, <2>3 DEF write_key_buffer
<1>5. Readers'
  BY <1>1, <1>3, <1>4 DEF SIInv, Readers
<1> QED BY <1>1, <1>2, <1>5, FamilySame, FramesSame DEF SIInv

\* A slot is never seen while fork() is still filling it.
LEMMA ShellSeesNoHalf ==
  ASSUME ConstantsAssumption, IInv, NoneHalfMade, [SNext]_svars
  PROVE  NoneHalfMade'
<1>1. \/ UNCHANGED state \/ TimerInterrupt \/ KeyInterrupt \/ \E k : WaitLoop(k)
      \/ \E e : Sleep(e) \/ SysFork \/ Exit
  <2>1. ASSUME ShellRead \/ ShellReadEnds  PROVE UNCHANGED state \/ \E e : Sleep(e)
    BY <2>1 DEF ShellRead, ShellReadEnds, KeyboardRead, KeyboardReadEnds, BlockOnKey, ResumeKey, vars
  <2>2. ASSUME ShellWait \/ ShellWaitEnds  PROVE \E k : WaitLoop(k)
    BY <2>2 DEF ShellWait, ShellWaitEnds, ResumeWait
  <2>3. ASSUME ShellLookup \/ ShellFork \/ ChildExec \/ ProgramEnds
        PROVE  UNCHANGED state \/ SysFork \/ Exit
    BY <2>3 DEF ShellLookup, ShellFork, ChildExec, ProgramEnds, vars
  <2>4. ASSUME Stopped \/ UNCHANGED svars  PROVE UNCHANGED state
    BY <2>4 DEF Stopped, svars, kvars, vars
  <2> QED BY <2>1, <2>2, <2>3, <2>4 DEF SNext, keyboard_handler
<1> QED BY <1>1, NoneHalfMadeStep

-----------------------------------------------------------------------------
\* The state of the first shell.
LEMMA InitSIInv ==
  ASSUME ConstantsAssumption, KeyboardAssumption, SInit
  PROVE  SIInv
<1>1. IInv
  BY InitIInv DEF SInit, KInit
<1>2. /\ \A p \in Slot : pid[p] = IF p = InitProc THEN 1 ELSE 0
      /\ \A p \in Slot : upc[p] = "read" /\ target[p] = 0 /\ kstack[p] = UserFrame
      /\ upc \in [Slot -> UserPc] /\ target \in [Slot -> Nat]
      /\ pid_num = 2 /\ kill_list = {} /\ front = 0 /\ end = 0
  BY DEF SInit, KInit, Init, UserPc
<1>3. Parents = {} /\ \A p \in ChainEnd : p = InitProc /\ upc[p] = "read"
  BY <1>2 DEF Parents, ChainEnd, Proc
<1>4. Family
  BY <1>2, <1>3 DEF Family, ChildPc, Proc
<1>5. Frames
  BY <1>2, UserFrameType DEF Frames, Proc
<1>6. Readers
  <2>1. 0 \in Index
    BY DEF Index, KeyboardAssumption
  <2> QED BY <1>2, <2>1, UserFrameType DEF Readers, Proc
<1> QED BY <1>1, <1>4, <1>5, <1>6 DEF SIInv

\* Every step keeps the invariant.
LEMMA NextSIInv ==
  ASSUME ConstantsAssumption, KeyboardAssumption, SIInv, [SNext]_svars
  PROVE  SIInv'
<1>1. CASE \E ch \in Char : keyboard_handler(ch) /\ UNCHANGED uservars
  BY <1>1, KeyTypedStep
<1>2. CASE TimerInterrupt /\ UNCHANGED <<kbvars, uservars>>
  BY <1>2, TickStep
<1>3. CASE UNCHANGED svars
  <2>1. UNCHANGED <<vars, kbvars, uservars>>
    BY <1>3 DEF svars, kvars
  <2>2. IInv'
    BY <2>1 DEF SIInv, IInv, vars, TypeOK, ListsMatchStates, OnlyForkAsserts, SlotsOK
  <2> QED BY <2>1, <2>2, FamilySame, FramesSame, ReadersSame DEF SIInv, vars, kbvars, uservars
<1>4. CASE Stopped /\ UNCHANGED <<kbvars, uservars>>
  BY <1>3, <1>4 DEF Stopped, svars, kvars
<1> QED BY <1>1, <1>2, <1>3, <1>4, ShellReadStep, ShellReadEndsStep, ShellLookupStep,
           ShellForkStep, ChildExecStep, ProgramEndsStep, ShellWaitStep, ShellWaitEndsStep
        DEF SNext

\* The chain of shells, the frames and the readers stay as described above.
THEOREM ShellInvariance == SSpec => []SIInv
<1>1. SInit => SIInv
  BY InitSIInv, ConstantsAssumption, KeyboardAssumption
<1>2. SIInv /\ [SNext]_svars => SIInv'
  BY NextSIInv, ConstantsAssumption, KeyboardAssumption
<1> QED BY <1>1, <1>2, PTL DEF SSpec

\* At most one process is not waiting for a child: reads never overlap.
THEOREM AtMostOneForeground == SSpec => []OneForeground
<1>1. SIInv => OneForeground
  <2> SUFFICES ASSUME SIInv  PROVE Cardinality(Foreground) <= 1
    BY DEF OneForeground
  <2>1. Foreground \subseteq ChainEnd
    BY DEF Foreground, Live, ChainEnd, SIInv, IInv, SlotsOK, Proc
  <2>2. \A p, q \in Foreground : p = q
    BY <2>1 DEF SIInv, Family
  <2>3. CASE Foreground = {}
    BY <2>3, FS_EmptySet
  <2>4. ASSUME NEW p \in Foreground  PROVE Cardinality(Foreground) <= 1
    <3>1. Foreground = {p}
      BY <2>2, <2>4
    <3>2. Cardinality({p}) = 1
      BY FS_Singleton
    <3> QED BY <3>1, <3>2
  <2> QED BY <2>3, <2>4
<1> QED BY <1>1, ShellInvariance, PTL

\* A reader that sleeps has missed no key, and the cell it will return is the
\* one the next key goes into.
THEOREM SleepersMissNothing == SSpec => []SleeperSeesEmpty
<1>1. SIInv => SleeperSeesEmpty
  BY KeySleeper, ConstantsAssumption DEF SIInv, Readers, SleeperSeesEmpty
<1> QED BY <1>1, ShellInvariance, PTL

\* Every shell that waits, waits for a child that exists, alone, and every
\* corpse has a shell that waits for it.
THEOREM WaitsFindChildren == SSpec => []EveryWaitHasItsChild
<1>1. SIInv /\ NoneHalfMade => EveryWaitHasItsChild
  <2> SUFFICES ASSUME SIInv, NoneHalfMade  PROVE EveryWaitHasItsChild
    OBVIOUS
  <2> DEFINE Waiters == {p \in Slot : Live(p) /\ upc[p] = "wait"}
  <2>1. Waiters \subseteq Parents
    BY DEF Live, Parents, SIInv, IInv, SlotsOK, Proc
  <2>2. Parents \subseteq Waiters
    <3> SUFFICES ASSUME NEW p \in Parents  PROVE p \in Waiters
      OBVIOUS
    <3>1. p \in Proc /\ p \in Slot /\ p # Idle /\ pid[p] # 0 /\ upc[p] = "wait"
      BY DEF Parents, Proc
    <3>2. p \notin kill_list
      BY <3>1 DEF SIInv, Family, ChildPc
    <3>3. state[p] \notin {"UNUSED", "KILLED", "INIT"}
      BY <3>1, <3>2 DEF SIInv, IInv, SlotsOK, ListsMatchStates, NoneHalfMade, Proc
    <3> QED BY <3>1, <3>3 DEF Live, SIInv, IInv, TypeOK, States
  <2>3. \A p \in Waiters : \E q \in Slot : q # p /\ state[q] # "UNUSED" /\ pid[q] = target[p]
    <3> SUFFICES ASSUME NEW p \in Parents
                 PROVE  \E q \in Slot : q # p /\ state[q] # "UNUSED" /\ pid[q] = target[p]
      BY <2>1
    <3>1. PICK q \in Proc : q # p /\ pid[q] # 0 /\ pid[q] = target[p]
      BY DEF SIInv, Family
    <3> QED BY <3>1 DEF SIInv, IInv, SlotsOK, Proc
  <2>4. \A p, q \in Waiters : target[p] = target[q] => p = q
    BY <2>1 DEF SIInv, Family
  <2>5. \A z \in kill_list : \E p \in Waiters : target[p] = pid[z]
    BY <2>2, CorpseAtEnd, ConstantsAssumption DEF SIInv, Family
  <2> QED BY <2>3, <2>4, <2>5 DEF EveryWaitHasItsChild
<1>2. SInit => NoneHalfMade
  BY DEF SInit, KInit, Init, NoneHalfMade
<1>3. SIInv /\ NoneHalfMade /\ [SNext]_svars => NoneHalfMade'
  BY ShellSeesNoHalf, ConstantsAssumption DEF SIInv
<1> QED BY <1>1, <1>2, <1>3, ShellInvariance, PTL DEF SSpec

-----------------------------------------------------------------------------
(***************************************************************************)
(* The ring buffer of the keyboard, under the shells, is a queue of        *)
(* BUFFER_SIZE - 1 keys: every key typed into a buffer that is not full is *)
(* read once, in order.  The refinement rests on ShellProofs!Readers: a    *)
(* reader that was woken holds front, and the ring is not empty.           *)
(***************************************************************************)

\* How many keys are unread, and where the i-th of them is.
Count == (end - front) % BUFFER_SIZE
At(i) == (front + i) % BUFFER_SIZE

\* The keys of ring b from f up to e, and the unread ones, oldest first: the
\* refinement mapping of module Keyboard.
Keys(b, f, e) == [i \in 1 .. (e - f) % BUFFER_SIZE |-> b[(f + i - 1) % BUFFER_SIZE]]
Unread == Keys(buffer, front, end)

\* Every cell between front and end holds a key that was typed.
Ring ==
  /\ buffer \in [Index -> Char \cup {NoChar}]
  /\ \A i \in 0 .. Count - 1 : buffer[At(i)] \in Char

-----------------------------------------------------------------------------
(***************************************************************************)
(* Arithmetic on the ring.                                                 *)
(***************************************************************************)
\* The modulus, one step above the ring.
LEMMA ModAbove ==
  ASSUME NEW b \in Nat, NEW x \in Nat, b <= x, x < 2 * b
  PROVE  x % b = x - b
OBVIOUS

\* And one step below 0.
LEMMA ModBelow ==
  ASSUME NEW b \in Nat, NEW x \in Int, x < 0, 0 - b < x
  PROVE  x % b = x + b
OBVIOUS

\* And inside it.
LEMMA ModInside ==
  ASSUME NEW b \in Nat, NEW x \in Nat, x < b
  PROVE  x % b = x
OBVIOUS

\* Distances and positions without the modulus.
LEMMA RingArithmetic ==
  ASSUME KeyboardAssumption, NEW f \in Index, NEW e \in Index
  PROVE  /\ (e - f) % BUFFER_SIZE = IF e >= f THEN e - f ELSE e - f + BUFFER_SIZE
         /\ (e - f) % BUFFER_SIZE \in 0 .. BUFFER_SIZE - 1
         /\ \A i \in 0 .. BUFFER_SIZE - 1 :
              /\ (f + i) % BUFFER_SIZE = IF f + i < BUFFER_SIZE THEN f + i ELSE (f + i) - BUFFER_SIZE
              /\ (f + i) % BUFFER_SIZE \in Index
<1>1. /\ BUFFER_SIZE \in Nat /\ BUFFER_SIZE >= 2
      /\ f \in Nat /\ f < BUFFER_SIZE /\ e \in Nat /\ e < BUFFER_SIZE
  BY DEF KeyboardAssumption, Index
<1>2. ASSUME NEW i \in 0 .. BUFFER_SIZE - 1
      PROVE  /\ (f + i) % BUFFER_SIZE = IF f + i < BUFFER_SIZE THEN f + i ELSE (f + i) - BUFFER_SIZE
             /\ (f + i) % BUFFER_SIZE \in Index
  <2>1. CASE f + i < BUFFER_SIZE
    <3>1. (f + i) % BUFFER_SIZE = f + i
      BY <1>1, <2>1, ModInside
    <3> QED BY <1>1, <2>1, <3>1 DEF Index
  <2>2. CASE f + i >= BUFFER_SIZE
    <3>1. (f + i) % BUFFER_SIZE = (f + i) - BUFFER_SIZE
      <4>1. f + i \in Nat /\ BUFFER_SIZE <= f + i /\ f + i < 2 * BUFFER_SIZE
        BY <1>1, <2>2
      <4> QED BY <1>1, <4>1, ModAbove
    <3>2. (f + i) - BUFFER_SIZE \in 0 .. BUFFER_SIZE - 1 /\ ~(f + i < BUFFER_SIZE)
      BY <1>1, <2>2
    <3> QED BY <3>1, <3>2 DEF Index
  <2> QED BY <1>1, <2>1, <2>2
<1>3. CASE e >= f
  <2>1. (e - f) % BUFFER_SIZE = e - f
    BY <1>1, <1>3, ModInside
  <2> QED BY <1>1, <1>2, <1>3, <2>1
<1>4. CASE e < f
  <2>1. (e - f) % BUFFER_SIZE = e - f + BUFFER_SIZE
    BY <1>1, <1>4, ModBelow
  <2> QED BY <1>1, <1>2, <1>4, <2>1
<1> QED BY <1>1, <1>3, <1>4

\* A function on 1 .. n is a sequence of length n.
LEMMA FunctionIsSequence ==
  ASSUME NEW S, NEW n \in Nat, NEW g \in [1 .. n -> S]
  PROVE  g \in Seq(S) /\ Len(g) = n
<1>1. g \in Seq(S)
  OBVIOUS
<1>2. Len(g) \in Nat /\ DOMAIN g = 1 .. Len(g)
  BY <1>1, LenProperties
<1> QED BY <1>1, <1>2

\* The ring is full, or one more key goes behind the others.
LEMMA RingGrows ==
  ASSUME KeyboardAssumption, NEW f \in Index, NEW e \in Index
  PROVE  /\ (e + 1) % BUFFER_SIZE = f <=> (e - f) % BUFFER_SIZE = BUFFER_SIZE - 1
         /\ (e + 1) % BUFFER_SIZE # f =>
              (((e + 1) % BUFFER_SIZE) - f) % BUFFER_SIZE = ((e - f) % BUFFER_SIZE) + 1
         /\ (f + ((e - f) % BUFFER_SIZE)) % BUFFER_SIZE = e
         /\ \A i \in 0 .. ((e - f) % BUFFER_SIZE) - 1 : (f + i) % BUFFER_SIZE # e
<1> DEFINE n == (e - f) % BUFFER_SIZE
           e1 == (e + 1) % BUFFER_SIZE
<1>1. /\ BUFFER_SIZE \in Nat /\ BUFFER_SIZE >= 2
      /\ f \in Nat /\ f < BUFFER_SIZE /\ e \in Nat /\ e < BUFFER_SIZE
  BY DEF KeyboardAssumption, Index
<1>2. n = (IF e >= f THEN e - f ELSE e - f + BUFFER_SIZE) /\ n \in 0 .. BUFFER_SIZE - 1
  BY RingArithmetic
<1>3. e1 \in Index /\ e1 = IF e = BUFFER_SIZE - 1 THEN 0 ELSE e + 1
  BY NextIndex
<1>4. (e1 - f) % BUFFER_SIZE = IF e1 >= f THEN e1 - f ELSE e1 - f + BUFFER_SIZE
  BY <1>3, RingArithmetic
<1>5. \A i \in 0 .. BUFFER_SIZE - 1 :
        (f + i) % BUFFER_SIZE = IF f + i < BUFFER_SIZE THEN f + i ELSE (f + i) - BUFFER_SIZE
  BY RingArithmetic
<1> HIDE DEF n, e1
<1>6. e1 = f <=> n = BUFFER_SIZE - 1
  BY <1>1, <1>2, <1>3
<1>7. e1 # f => (e1 - f) % BUFFER_SIZE = n + 1
  BY <1>1, <1>2, <1>3, <1>4
<1>8. (f + n) % BUFFER_SIZE = e
  BY <1>1, <1>2, <1>5
<1>9. \A i \in 0 .. n - 1 : (f + i) % BUFFER_SIZE # e
  BY <1>1, <1>2, <1>5
<1> QED BY <1>6, <1>7, <1>8, <1>9 DEF n, e1

\* The oldest key leaves.
LEMMA RingShrinks ==
  ASSUME KeyboardAssumption, NEW f \in Index, NEW e \in Index, f # e
  PROVE  /\ (e - f) % BUFFER_SIZE > 0
         /\ (e - ((f + 1) % BUFFER_SIZE)) % BUFFER_SIZE = ((e - f) % BUFFER_SIZE) - 1
         /\ \A i \in 0 .. BUFFER_SIZE - 2 :
              (((f + 1) % BUFFER_SIZE) + i) % BUFFER_SIZE = (f + (i + 1)) % BUFFER_SIZE
<1> DEFINE f1 == (f + 1) % BUFFER_SIZE
<1>1. /\ BUFFER_SIZE \in Nat /\ BUFFER_SIZE >= 2
      /\ f \in Nat /\ f < BUFFER_SIZE /\ e \in Nat /\ e < BUFFER_SIZE
  BY DEF KeyboardAssumption, Index
<1>2. (e - f) % BUFFER_SIZE = IF e >= f THEN e - f ELSE e - f + BUFFER_SIZE
  BY RingArithmetic
<1>3. f1 \in Index /\ f1 = IF f = BUFFER_SIZE - 1 THEN 0 ELSE f + 1
  BY NextIndex
<1> HIDE DEF f1
<1>4. (e - f1) % BUFFER_SIZE = IF e >= f1 THEN e - f1 ELSE e - f1 + BUFFER_SIZE
  BY <1>3, RingArithmetic
<1>5. (e - f1) % BUFFER_SIZE = ((e - f) % BUFFER_SIZE) - 1 /\ (e - f) % BUFFER_SIZE > 0
  BY <1>1, <1>2, <1>3, <1>4
<1>6. ASSUME NEW i \in 0 .. BUFFER_SIZE - 2
      PROVE  (f1 + i) % BUFFER_SIZE = (f + (i + 1)) % BUFFER_SIZE
  <2>1. i \in 0 .. BUFFER_SIZE - 1 /\ i + 1 \in 0 .. BUFFER_SIZE - 1
    BY <1>1
  <2>2. (f1 + i) % BUFFER_SIZE = IF f1 + i < BUFFER_SIZE THEN f1 + i ELSE (f1 + i) - BUFFER_SIZE
    BY <1>3, <2>1, RingArithmetic
  <2>3. (f + (i + 1)) % BUFFER_SIZE =
          IF f + (i + 1) < BUFFER_SIZE THEN f + (i + 1) ELSE (f + (i + 1)) - BUFFER_SIZE
    BY <2>1, RingArithmetic
  <2> QED BY <1>1, <1>3, <2>1, <2>2, <2>3
<1> QED BY <1>5, <1>6 DEF f1

-----------------------------------------------------------------------------
(***************************************************************************)
(* The two operations of the ring are the two operations of the queue.     *)
(***************************************************************************)

\* The ring read as a sequence.
LEMMA KeysIsSequence ==
  ASSUME KeyboardAssumption, NEW b, NEW f \in Index, NEW e \in Index,
         \A i \in 0 .. ((e - f) % BUFFER_SIZE) - 1 : b[(f + i) % BUFFER_SIZE] \in Char
  PROVE  /\ (e - f) % BUFFER_SIZE \in 0 .. BUFFER_SIZE - 1
         /\ Keys(b, f, e) \in Seq(Char) /\ Len(Keys(b, f, e)) = (e - f) % BUFFER_SIZE
         /\ \A i \in 1 .. (e - f) % BUFFER_SIZE :
              Keys(b, f, e)[i] = b[(f + (i - 1)) % BUFFER_SIZE]
<1> DEFINE n == (e - f) % BUFFER_SIZE
           s == Keys(b, f, e)
<1>1. n \in 0 .. BUFFER_SIZE - 1 /\ n \in Nat
  BY RingArithmetic DEF KeyboardAssumption
<1>2. s = [i \in 1 .. n |-> b[(f + i - 1) % BUFFER_SIZE]]
  BY DEF Keys
<1>3. \A i \in 0 .. n - 1 : b[(f + i) % BUFFER_SIZE] \in Char
  OBVIOUS
<1> HIDE DEF n, s
<1>4. ASSUME NEW i \in 1 .. n
      PROVE  s[i] = b[(f + (i - 1)) % BUFFER_SIZE] /\ s[i] \in Char
  <2>1. i - 1 \in 0 .. n - 1
    BY <1>1
  <2>2. f + i - 1 = f + (i - 1)
    OBVIOUS
  <2> QED BY <1>2, <1>3, <2>1, <2>2
<1>5. s \in [1 .. n -> Char]
  BY <1>2, <1>4
<1>6. s \in Seq(Char) /\ Len(s) = n
  BY <1>1, <1>5, FunctionIsSequence
<1> QED BY <1>1, <1>4, <1>6 DEF n, s

\* So the unread keys are a sequence, as long as Count says.
LEMMA UnreadIsSequence ==
  ASSUME KeyboardAssumption, front \in Index, end \in Index, Ring
  PROVE  /\ Count \in 0 .. BUFFER_SIZE - 1
         /\ Unread \in Seq(Char) /\ Len(Unread) = Count
         /\ \A i \in 1 .. Count : Unread[i] = buffer[(front + (i - 1)) % BUFFER_SIZE]
BY KeysIsSequence DEF Unread, Count, Ring, At

\* The same after a step.
LEMMA UnreadIsSequenceNext ==
  ASSUME KeyboardAssumption, front' \in Index, end' \in Index, Ring'
  PROVE  /\ Unread' \in Seq(Char) /\ Len(Unread') = Count'
         /\ \A i \in 1 .. Count' : Unread'[i] = buffer'[(front' + (i - 1)) % BUFFER_SIZE]
BY KeysIsSequence DEF Unread, Count, Ring, At

\* write_key_buffer() puts the key behind the others, or drops it.
LEMMA RingTypes ==
  ASSUME KeyboardAssumption, front \in Index, end \in Index, Ring,
         NEW ch \in Char, write_key_buffer(ch)
  PROVE  Ring' /\ Fifo!Type(ch)
<1> DEFINE n == Count
<1>1. /\ n \in 0 .. BUFFER_SIZE - 1 /\ n \in Nat /\ BUFFER_SIZE \in Nat
      /\ Unread \in Seq(Char) /\ Len(Unread) = n
      /\ \A i \in 1 .. n : Unread[i] = buffer[(front + (i - 1)) % BUFFER_SIZE]
  BY UnreadIsSequence DEF KeyboardAssumption
<1>2. CASE (end + 1) % BUFFER_SIZE = front /\ UNCHANGED kbvars
  <2>1. Ring' /\ Unread' = Unread /\ delivered' = delivered
    BY <1>2 DEF kbvars, Ring, Count, At, Unread
  <2>2. n = BUFFER_SIZE - 1
    BY <1>2, RingGrows DEF Count
  <2>3. Unread' = IF Len(Unread) = BUFFER_SIZE - 1 THEN Unread ELSE Append(Unread, ch)
    BY <1>1, <2>1, <2>2
  <2> QED BY <2>1, <2>3 DEF Fifo!Type, Unread, Keys, Count
<1>3. CASE /\ (end + 1) % BUFFER_SIZE # front
           /\ buffer' = [buffer EXCEPT ![end] = ch]
           /\ end' = (end + 1) % BUFFER_SIZE
           /\ UNCHANGED <<front, delivered>>
  <2>1. n # BUFFER_SIZE - 1 /\ Count' = n + 1 /\ front' = front
    BY <1>3, RingGrows DEF Count
  <2>2. /\ (front + n) % BUFFER_SIZE = end
        /\ \A i \in 0 .. n - 1 : (front + i) % BUFFER_SIZE # end
    BY RingGrows DEF Count
  <2>3. /\ buffer' \in [Index -> Char \cup {NoChar}] /\ buffer'[end] = ch
        /\ \A i \in Index \ {end} : buffer'[i] = buffer[i]
    BY <1>3 DEF Ring
  <2>4. \A i \in 0 .. BUFFER_SIZE - 1 : (front + i) % BUFFER_SIZE \in Index
    BY RingArithmetic
  <2>5. \A i \in 0 .. n - 1 : /\ i \in 0 .. BUFFER_SIZE - 1
                             /\ buffer'[(front + i) % BUFFER_SIZE] = buffer[(front + i) % BUFFER_SIZE]
    BY <1>1, <2>2, <2>3, <2>4
  <2>6. buffer'[(front + n) % BUFFER_SIZE] = ch
    BY <2>2, <2>3
  <2>7. ASSUME NEW i \in 0 .. Count' - 1
        PROVE  buffer'[(front' + i) % BUFFER_SIZE] \in Char
    <3>1. CASE i = n
      BY <2>1, <2>6, <3>1
    <3>2. CASE i # n
      <4>1. i \in 0 .. n - 1
        BY <1>1, <2>1, <3>2
      <4> QED BY <2>1, <2>5, <4>1 DEF Ring, At
    <3> QED BY <3>1, <3>2
  <2>8. Ring'
    BY <2>3, <2>7 DEF Ring, At
  <2>9. front' \in Index /\ end' \in Index
    BY <1>3, <2>1, NextIndex
  <2>10. /\ Unread' \in Seq(Char) /\ Len(Unread') = n + 1
         /\ \A i \in 1 .. n + 1 : Unread'[i] = buffer'[(front + (i - 1)) % BUFFER_SIZE]
    <3>1. /\ Unread' \in Seq(Char) /\ Len(Unread') = Count'
          /\ \A i \in 1 .. Count' : Unread'[i] = buffer'[(front' + (i - 1)) % BUFFER_SIZE]
      BY <2>8, <2>9, UnreadIsSequenceNext
    <3> QED BY <2>1, <3>1
  <2>11. /\ Append(Unread, ch) \in Seq(Char) /\ Len(Append(Unread, ch)) = n + 1
         /\ \A i \in 1 .. n : Append(Unread, ch)[i] = Unread[i]
         /\ Append(Unread, ch)[n + 1] = ch
    BY <1>1, AppendProperties
  <2>12. ASSUME NEW i \in 1 .. n + 1  PROVE Unread'[i] = Append(Unread, ch)[i]
    <3>1. CASE i = n + 1
      <4>1. i - 1 = n
        BY <1>1, <3>1
      <4> QED BY <2>6, <2>10, <2>11, <3>1, <4>1
    <3>2. CASE i # n + 1
      <4>1. i \in 1 .. n /\ i - 1 \in 0 .. n - 1
        BY <1>1, <3>2
      <4> QED BY <1>1, <2>5, <2>10, <2>11, <4>1
    <3> QED BY <3>1, <3>2
  <2>13. Unread' = Append(Unread, ch)
    BY <2>10, <2>11, <2>12, SeqEqual
  <2>14. Unread' = IF Len(Unread) = BUFFER_SIZE - 1 THEN Unread ELSE Append(Unread, ch)
    BY <1>1, <2>1, <2>13
  <2> QED BY <1>3, <2>8, <2>14 DEF Fifo!Type, Unread, Keys, Count
<1> QED BY <1>2, <1>3 DEF write_key_buffer

\* A read takes the oldest key, if the index it holds is still front and the
\* ring is not empty.
LEMMA RingReads ==
  ASSUME KeyboardAssumption, front \in Index, end \in Index, Ring,
         front # end, TakeKey(front)
  PROVE  Ring' /\ Fifo!Read(current_process)
<1> DEFINE n == Count
<1>1. /\ n \in 0 .. BUFFER_SIZE - 1 /\ n \in Nat /\ BUFFER_SIZE \in Nat /\ front \in Nat
      /\ Unread \in Seq(Char) /\ Len(Unread) = n
      /\ \A i \in 1 .. n : Unread[i] = buffer[(front + (i - 1)) % BUFFER_SIZE]
  BY UnreadIsSequence DEF KeyboardAssumption, Index
<1>2. /\ front' = (front + 1) % BUFFER_SIZE /\ end' = end /\ buffer' = buffer
      /\ delivered' = <<current_process, buffer[front]>>
  BY DEF TakeKey
<1>3. /\ n > 0 /\ Count' = n - 1
      /\ \A i \in 0 .. BUFFER_SIZE - 2 :
           (front' + i) % BUFFER_SIZE = (front + (i + 1)) % BUFFER_SIZE
  BY <1>2, RingShrinks DEF Count
<1>4. ASSUME NEW i \in 0 .. Count' - 1
      PROVE  buffer'[(front' + i) % BUFFER_SIZE] \in Char
  <2>1. i \in 0 .. BUFFER_SIZE - 2 /\ i + 1 \in 0 .. n - 1
    BY <1>1, <1>3
  <2> QED BY <1>2, <1>3, <2>1 DEF Ring, At
<1>5. Ring'
  BY <1>2, <1>4 DEF Ring, At
<1>6. front' \in Index /\ end' \in Index
  BY <1>2, NextIndex
<1>7. /\ Unread' \in Seq(Char) /\ Len(Unread') = n - 1
      /\ \A i \in 1 .. n - 1 : Unread'[i] = buffer[(front' + (i - 1)) % BUFFER_SIZE]
  <2>1. /\ Unread' \in Seq(Char) /\ Len(Unread') = Count'
        /\ \A i \in 1 .. Count' : Unread'[i] = buffer'[(front' + (i - 1)) % BUFFER_SIZE]
    BY <1>5, <1>6, UnreadIsSequenceNext
  <2> QED BY <1>2, <1>3, <2>1
<1>8. Unread # <<>>
  BY <1>1, <1>3, EmptySeq
<1>9. /\ Tail(Unread) \in Seq(Char) /\ Len(Tail(Unread)) = n - 1
      /\ \A i \in 1 .. n - 1 : Tail(Unread)[i] = Unread[i + 1]
  BY <1>1, <1>8, HeadTailProperties
<1>10. ASSUME NEW i \in 1 .. n - 1  PROVE Unread'[i] = Tail(Unread)[i]
  <2>1. /\ i - 1 \in 0 .. BUFFER_SIZE - 2 /\ (i - 1) + 1 = i
        /\ i + 1 \in 1 .. n /\ (i + 1) - 1 = i
    BY <1>1
  <2>2. (front' + (i - 1)) % BUFFER_SIZE = (front + i) % BUFFER_SIZE
    BY <1>3, <2>1
  <2>3. Unread[i + 1] = buffer[(front + i) % BUFFER_SIZE]
    BY <1>1, <2>1
  <2> QED BY <1>7, <1>9, <2>2, <2>3
<1>11. Unread' = Tail(Unread)
  BY <1>7, <1>9, <1>10, SeqEqual
<1>12. Head(Unread) = buffer[front]
  <2>1. Head(Unread) = Unread[1] /\ 1 \in 1 .. n /\ 1 - 1 = 0
    BY <1>1, <1>3
  <2>2. (front + 0) % BUFFER_SIZE = front
    <3>1. front + 0 = front /\ front < BUFFER_SIZE
      BY <1>1 DEF Index
    <3> QED BY <1>1, <3>1, ModInside
  <2> QED BY <1>1, <2>1, <2>2
<1> QED BY <1>2, <1>5, <1>8, <1>11, <1>12 DEF Fifo!Read, Unread, Keys, Count

-----------------------------------------------------------------------------
(***************************************************************************)
(* The system.                                                             *)
(***************************************************************************)

\* The steps that do not touch the ring.
LEMMA RingAlone ==
  ASSUME Ring, UNCHANGED kbvars
  PROVE  Ring' /\ UNCHANGED Fifo!vars
BY DEF Ring, Count, At, kbvars, Fifo!vars

\* Every step of the shells is a step of the queue, or none.
LEMMA QueueSteps ==
  ASSUME ConstantsAssumption, KeyboardAssumption, SIInv, Ring, [SNext]_svars
  PROVE  Ring' /\ [Fifo!Next]_(Fifo!vars)
<1> DEFINE c == current_process
<1>0. front \in Index /\ end \in Index
  BY DEF SIInv, Readers
<1>1. UNCHANGED kbvars => Ring' /\ [Fifo!Next]_(Fifo!vars)
  BY RingAlone
<1>2. ASSUME c # Idle, front # end, TakeKey(front)
      PROVE  Ring' /\ Fifo!Next
  <2>1. Ring' /\ Fifo!Read(c)
    BY <1>0, <1>2, RingReads
  <2>2. c \in Slot \ {Idle}
    BY <1>2, CurrentInProc DEF SIInv
  <2>3. \E p \in Slot \ {Idle} : Fifo!Read(p)
    BY <2>1, <2>2 DEF Fifo!Read
  <2> QED BY <2>1, <2>3 DEF Fifo!Next
<1>3. CASE ShellRead
  <2>1. c # Idle /\ (UNCHANGED kbvars \/ (front # end /\ TakeKey(front)))
    BY <1>3 DEF ShellRead, KeyboardRead, InSyscall
  <2> QED BY <1>1, <1>2, <2>1
<1>4. CASE ShellReadEnds
  <2>1. kstack[c].at = "read_key" /\ c # Idle /\ TakeKey(kstack[c].arg)
    BY <1>4 DEF ShellReadEnds, KeyboardReadEnds, ResumeKey, Resumed, SIInv, IInv, SlotsOK
  <2>2. c \in Proc /\ c \notin Range(wait_list[KeyEvent])
    BY <2>1, CurrentInProc DEF SIInv, Event
  <2>3. kstack[c].arg = front /\ front # end
    BY <2>1, <2>2 DEF SIInv, Readers
  <2> QED BY <1>2, <2>1, <2>3
<1>5. ASSUME NEW ch \in Char, keyboard_handler(ch)
      PROVE  Ring' /\ Fifo!Next
  <2>1. Ring' /\ Fifo!Type(ch)
    BY <1>0, <1>5, RingTypes DEF keyboard_handler
  <2> QED BY <2>1 DEF Fifo!Next
<1>6. ASSUME ShellLookup \/ ShellFork \/ ChildExec \/ ProgramEnds \/ ShellWait \/ ShellWaitEnds
      PROVE  UNCHANGED kbvars
  BY <1>6 DEF ShellLookup, ShellFork, ChildExec, ProgramEnds, ShellWait, ShellWaitEnds
<1>7. UNCHANGED svars => UNCHANGED kbvars
  BY DEF svars, kvars
<1> QED BY <1>1, <1>3, <1>4, <1>5, <1>6, <1>7 DEF SNext

\* The ring starts empty.
LEMMA InitRing ==
  ASSUME KeyboardAssumption, SInit
  PROVE  Ring /\ Fifo!Init
<1>1. /\ buffer = [i \in Index |-> NoChar] /\ front = 0 /\ end = 0
      /\ delivered = NoDelivery
  BY DEF SInit, KInit
<1>2. 0 \in Index /\ BUFFER_SIZE \in Nat /\ 0 < BUFFER_SIZE
  BY DEF KeyboardAssumption, Index
<1>3. (end - front) % BUFFER_SIZE = 0
  BY <1>1, <1>2, ModInside
<1>4. Ring
  BY <1>1, <1>3 DEF Ring, Count
<1>5. Unread \in Seq(Char) /\ Len(Unread) = 0
  BY <1>1, <1>2, <1>3, <1>4, UnreadIsSequence, KeyboardAssumption DEF Count
<1>6. Unread = <<>>
  BY <1>5, EmptySeq
<1> QED BY <1>1, <1>4, <1>6 DEF Fifo!Init, Unread, Keys

\* The indices stay inside the ring, a reader holds one of them, and only keys
\* that were typed lie between front and end.
THEOREM RingTypeCorrect == SSpec => []KTypeOK
<1>1. SInit => Ring
  BY InitRing, KeyboardAssumption
<1>2. SIInv /\ Ring /\ [SNext]_svars => Ring'
  BY QueueSteps, ConstantsAssumption, KeyboardAssumption
<1>3. SIInv /\ Ring => KTypeOK
  <2> SUFFICES ASSUME SIInv, Ring  PROVE KTypeOK
    OBVIOUS
  <2>1. ASSUME NEW p \in Slot, kstack[p].at = "read_key"  PROVE kstack[p].arg \in Index
    <3>1. p \in Proc
      BY <2>1, UserFrameType DEF SIInv, IInv, SlotsOK, Proc
    <3> QED BY <2>1, <3>1 DEF SIInv, Readers
  <2> QED BY <2>1 DEF KTypeOK, Ring, Count, At, SIInv, Readers
<1> QED BY <1>1, <1>2, <1>3, ShellInvariance, PTL DEF SSpec

\* Under the shells the ring is a queue: every key typed into a buffer that is
\* not full is read once, in order, by a process that asked for it.
THEOREM RingIsQueue == SSpec => ImplementsFifo
<1>1. SInit => Ring /\ Fifo!Init
  BY InitRing, KeyboardAssumption
<1>2. SIInv /\ Ring /\ [SNext]_svars => Ring' /\ [Fifo!Next]_(Fifo!vars)
  BY QueueSteps, ConstantsAssumption, KeyboardAssumption
<1> QED BY <1>1, <1>2, ShellInvariance, PTL DEF SSpec, ImplementsFifo, Fifo!Spec
=============================================================================
