------------------------------- MODULE Shell -------------------------------
(***************************************************************************)
(* The system as it is used: every process runs the shell (user1/main.c)   *)
(* or a program the shell started, on the kernel of modules Process and    *)
(* Keyboard.  The shell reads a line, looks the command up, forks a child  *)
(* that execs it, and waits for the child; a command may be the shell      *)
(* itself.  What a line says is left open: any non-empty line may name no  *)
(* file, a program that ends, or a shell.                                  *)
(***************************************************************************)
EXTENDS Keyboard

CONSTANTS
  Newline, Backspace,  \* two of the keys in Char
  LINE_LIMIT           \* a line longer than this ends with the next key (80 in the code)

ASSUME ShellAssumption == {Newline, Backspace} \subseteq Char /\ LINE_LIMIT \in Nat

VARIABLES
  upc,     \* where the program of every slot is
  line,    \* buffer_size in read_cmd()
  target   \* the child the shell forked last

uservars == <<upc, line, target>>
svars == <<kvars, uservars>>

UserPc == {"read", "lookup", "fork", "exec", "wait", "program"}
Current == current_process

SInit ==
  /\ KInit
  /\ upc = [p \in Slot |-> "read"]
  /\ line = [p \in Slot |-> 0]
  /\ target = [p \in Slot |-> 0]

Goto(pc) == upc' = [upc EXCEPT ![Current] = pc]
Prompt == Goto("read") /\ line' = [line EXCEPT ![Current] = 0]

\* What read_cmd() and the test for an empty line do with the key ch.
GotKey(ch) ==
  /\ UNCHANGED target
  /\ \/ /\ ch = Newline \/ line[Current] > LINE_LIMIT
        /\ IF line[Current] = 0 THEN Prompt ELSE Goto("lookup") /\ UNCHANGED line
     \/ /\ ch # Newline /\ line[Current] <= LINE_LIMIT
        /\ line' = [line EXCEPT ![Current] =
             IF ch # Backspace THEN @ + 1 ELSE IF @ > 0 THEN @ - 1 ELSE @]
        /\ UNCHANGED upc

ShellRead ==
  /\ InSyscall
  /\ upc[Current] = "read"
  /\ KeyboardRead
  /\ IF front = end THEN UNCHANGED uservars ELSE GotKey(buffer[front])

ShellReadEnds == KeyboardReadEnds /\ GotKey(buffer[kstack[Current].arg])

\* open_file() finds the command or not; the file is closed again at once.
\* Bound: after MAX_PID forks no command is found any more.
ShellLookup ==
  /\ InSyscall
  /\ upc[Current] = "lookup"
  /\ \/ Prompt
     \/ /\ pid_num <= MAX_PID \/ FreeSlots = {}
        /\ Goto("fork")
        /\ UNCHANGED line
  /\ UNCHANGED <<vars, kbvars, target>>

\* The child starts with a copy of the shell's memory, at the return of fork.
ShellFork ==
  /\ upc[Current] = "fork"
  /\ SysFork
  /\ IF FreeSlots = {} THEN UNCHANGED uservars
     ELSE /\ upc' = [upc EXCEPT ![Current] = "wait", ![FirstFree] = "exec"]
          /\ line' = [line EXCEPT ![FirstFree] = line[Current]]
          /\ target' = [target EXCEPT ![Current] = pid_num, ![FirstFree] = 0]
  /\ UNCHANGED kbvars

\* exec() turns the child into a program, or a shell, or ends it.
ChildExec ==
  /\ upc[Current] = "exec"
  /\ \/ /\ InSyscall
        /\ Prompt \/ (Goto("program") /\ UNCHANGED line)
        /\ UNCHANGED <<vars, kbvars, target>>
     \/ Exit /\ UNCHANGED <<kbvars, uservars>>

ProgramEnds ==
  /\ upc[Current] = "program"
  /\ Exit
  /\ UNCHANGED <<kbvars, uservars>>

\* Slip: the shell does not wait for its child.
NoWait ==
  /\ InSyscall
  /\ upc[Current] = "wait"
  /\ Prompt
  /\ UNCHANGED <<vars, kbvars, target>>

\* waitu(pid): the call blocks, or it returns and the shell prompts again.
Waited == IF kstack'[Current].at = "user" THEN Prompt ELSE UNCHANGED <<upc, line>>
ShellWait ==
  /\ InSyscall
  /\ upc[Current] = "wait"
  /\ WaitLoop(target[Current])
  /\ Waited
  /\ UNCHANGED <<kbvars, target>>
ShellWaitEnds == ResumeWait /\ Waited /\ UNCHANGED <<kbvars, target>>

UserStep == ShellLookup \/ ShellFork \/ ChildExec \/ ProgramEnds \/ ShellWait

SNext ==
  \/ ShellRead
  \/ ShellReadEnds
  \/ ShellLookup
  \/ ShellFork
  \/ ChildExec
  \/ ProgramEnds
  \/ ShellWait
  \/ ShellWaitEnds
  \/ TimerInterrupt /\ UNCHANGED <<kbvars, uservars>>
  \/ \E ch \in Char : keyboard_handler(ch) /\ UNCHANGED uservars
  \/ Stopped /\ UNCHANGED <<kbvars, uservars>>

SSpec == SInit /\ [][SNext]_svars

(***************************************************************************)
(* Ticks keep coming; a process resumed in the kernel runs on; and a       *)
(* process that gets the CPU again and again executes its next instruction *)
(* at some time (the tick that preempts it leaves it time to run).         *)
(***************************************************************************)
SFairness ==
  /\ SF_svars(TimerInterrupt /\ UNCHANGED <<kbvars, uservars>>)
  /\ WF_svars(ShellReadEnds \/ ShellWaitEnds)
  /\ SF_svars(UserStep)
SFairSpec == SSpec /\ SFairness

(***************************************************************************)
(* Properties.                                                             *)
(***************************************************************************)
Foreground == {p \in Slot : Live(p) /\ upc[p] # "wait"}

\* The shells form a chain: at most one process is not waiting for its child
\* or about to.  So reads of the keyboard never overlap, which is what the
\* ring relies on.
OneForeground == Cardinality(Foreground) <= 1

\* Every shell past its fork waits for a child that exists, dead or alive, and
\* nobody else waits for that child: every corpse has its collector and no
\* shell waits for ever for a pid that is not there.
EveryWaitHasItsChild ==
  LET Parents == {p \in Slot : Live(p) /\ upc[p] = "wait"}
  IN  /\ \A p \in Parents : \E q \in Slot : q # p /\ state[q] # "UNUSED" /\ pid[q] = target[p]
      /\ \A p, q \in Parents : target[p] = target[q] => p = q
      /\ \A z \in kill_list : \E p \in Parents : target[p] = pid[z]

\* The machine always gets back to a prompt: whatever was started, some shell
\* reads again, unless the table was full when a shell forked.
PromptReturns ==
  []<>((\E p \in Foreground : upc[p] = "read") \/ panic # "none")
=============================================================================
