------------------------------ MODULE Context ------------------------------
(***************************************************************************)
(* Entry into the kernel, context switch and return, word by word: what    *)
(* Process abbreviates as kstack[p] is here the contents of the kernel     *)
(* stack of p, and the CPU's registers, TSS and CR3 decide where a trap    *)
(* goes and what it comes back to (trap.asm, process.c).                   *)
(*                                                                         *)
(* Of the trap frame, cs stands for cs, ss and rflags, and rip for rip and *)
(* the user's rsp: 0 at the entry of the program, 1 before a system call,  *)
(* 2 behind it.  Of the general registers there are rax (a result), rbx *)
(* (data that calls preserve) and rbp (which C code addresses its locals   *)
(* through: the kernel is compiled without optimisation).  All C frames    *)
(* between the trap and swap() are one frame, with the locals that outlive *)
(* the switch.  A word is an integer.                                      *)
(***************************************************************************)
EXTENDS Memory

VARIABLES
  cpu,       \* the registers; stk and rsp: the kernel stack and its depth
  kmem,      \* the words on every kernel stack, from its top down
  context,   \* Process.context of every slot: a stack and a depth
  tss_rsp0,  \* the stack a trap from ring 3 starts on
  cr3,       \* the address space
  mine       \* history: the registers every process must find in user mode

cvars == <<cpu, kmem, context, tss_rsp0, cr3, mine>>

SyscallTrap == 128
Ring0 == 0
Ring3 == 3
TrapReturnAddress == -1   \* return addresses that swap() may find
ScheduleAddress == -2
Zero == [rip |-> 0, rax |-> 0, rbx |-> 0, rbp |-> 0]
\* The CPU with an empty kernel stack, as in user mode, and the registers regs.
Outside(cs, regs) == [cs |-> cs, stk |-> NULL, rsp |-> 0,
                      rip |-> regs.rip, rax |-> regs.rax, rbx |-> regs.rbx, rbp |-> regs.rbp]
TRAP_FRAME == 6           \* words of a trap frame: cs, rip, trapno, rax, rbx, rbp
SWAP_FRAME == 3           \* words of a swap frame: return address, rbx, rbp
FreshTrapFrame == <<Ring3, 0, 0, 0, 0, 0>>

\* alloc_new_process(): a trap frame that starts the program, and below it what
\* swap() pops, with a return to TrapReturn.
FreshStack == FreshTrapFrame \o <<TrapReturnAddress, 0, 0>>
FreshContext(page) == [stk |-> page, rsp |-> TRAP_FRAME + SWAP_FRAME]

\* The idle process runs on the boot stack, which is called NULL here.
CInit ==
  /\ MInit
  /\ cpu = Outside(Ring0, Zero)
  /\ kmem = [page \in Page \cup {NULL} |->
               IF page = stack[InitProc] THEN FreshStack ELSE <<>>]
  /\ context = [p \in Slot |-> IF p = InitProc THEN FreshContext(stack[p])
                                               ELSE [stk |-> NULL, rsp |-> 0]]
  /\ tss_rsp0 = NULL
  /\ cr3 = page_map[Idle]
  /\ mine = [p \in Slot |-> Zero]

(***************************************************************************)
(* The machine m: its registers and its kernel stacks.                     *)
(***************************************************************************)
Machine == [cpu |-> cpu, mem |-> kmem]
Word(m, i) ==
  IF i \in DOMAIN m.mem[m.cpu.stk] THEN m.mem[m.cpu.stk][i] ELSE 0
Push(m, words) ==
  [m EXCEPT !.mem[m.cpu.stk] = SubSeq(@, 1, m.cpu.rsp) \o words,
            !.cpu.rsp = @ + Len(words)]

\* The CPU switches stacks on a trap from ring 3; vectorN and Trap push.
OnKernelStack(m) ==
  IF m.cpu.cs = Ring3 THEN [m EXCEPT !.cpu.stk = tss_rsp0, !.cpu.rsp = 0] ELSE m
Trap(m, trapno) ==
  [Push(OnKernelStack(m),
        <<m.cpu.cs, IF trapno = SyscallTrap THEN 2 ELSE m.cpu.rip, trapno,
          m.cpu.rax, m.cpu.rbx, m.cpu.rbp>>)
     EXCEPT !.cpu.cs = Ring0]

\* Pops the registers; iretq leaves the kernel stack if it returns to ring 3.
\* The words below rsp are dead.
TrapReturn(m) ==
  LET t == m.cpu.rsp - TRAP_FRAME
      cs == Word(m, t + 1)
  IN  [m EXCEPT !.mem[m.cpu.stk] = SubSeq(@, 1, t),
                !.cpu = [cs |-> cs, rip |-> Word(m, t + 2), rax |-> Word(m, t + 4),
                         rbx |-> Word(m, t + 5), rbp |-> Word(m, t + 6),
                         stk |-> IF cs = Ring3 THEN NULL ELSE m.cpu.stk,
                         rsp |-> IF cs = Ring3 THEN 0 ELSE t]]

\* C code: a frame with the locals of f, found through rbp; its end; and the
\* result that system_call() writes into the trap frame above it.
Code(at) == CASE at = "user" -> 0 [] at = "wait" -> 1
              [] at = "sys_sleep" -> 2 [] at = "read_key" -> 3
Call(m, f) ==
  [Push(m, <<m.cpu.rbp, Code(f.at), f.arg, f.old>>) EXCEPT !.cpu.rbp = m.cpu.rsp + 1]
Leave(m) == [m EXCEPT !.cpu.rsp = m.cpu.rbp - 1, !.cpu.rbp = Word(m, m.cpu.rbp)]
Result(m, value) == [m EXCEPT !.mem[m.cpu.stk][m.cpu.rbp - 3] = value]

\* swap(): what it pushes; what it pops on the stack of the other process.
SwapOut(m) == Push(m, <<ScheduleAddress, m.cpu.rbx, m.cpu.rbp>>)

\* Slip: the registers are popped in the order in which they were pushed.
SwapInOrder(m, c) ==
  LET n == [m EXCEPT !.cpu.stk = c.stk, !.cpu.rsp = c.rsp]
      t == c.rsp - SWAP_FRAME
  IN  [n EXCEPT !.cpu.rsp = t, !.cpu.rbx = Word(n, t + 3), !.cpu.rbp = Word(n, t + 2)]

SwapIn(m, c) ==
  LET n == [m EXCEPT !.cpu.stk = c.stk, !.cpu.rsp = c.rsp]
      t == c.rsp - SWAP_FRAME
  IN  [n EXCEPT !.cpu.rsp = t, !.cpu.rbx = Word(n, t + 2), !.cpu.rbp = Word(n, t + 3)]
ReturnAddress(m, c) == m.mem[c.stk][c.rsp - SWAP_FRAME + 1]

\* Where swap() returns to: a new process goes to TrapReturn; one that was
\* interrupted leaves handler() first; one in a blocking call goes on there.
Resumes(m, c) ==
  LET n == SwapIn(m, c)
  IN  IF ReturnAddress(m, c) = TrapReturnAddress THEN TrapReturn(n)
      ELSE IF Word(n, n.cpu.rbp + 1) = Code("user") THEN TrapReturn(Leave(n))
      ELSE n

Becomes(m) == cpu' = m.cpu /\ kmem' = m.mem

\* Slip: the switch leaves the TSS as it is.
SwitchWithoutTss(m) ==
  /\ context' = [context EXCEPT ![current_process] =
                   [stk |-> m.cpu.stk, rsp |-> SwapOut(m).cpu.rsp]]
  /\ cr3' = page_map[current_process']
  /\ UNCHANGED tss_rsp0
  /\ Becomes(Resumes(SwapOut(m), context[current_process']))

\* switch_process() to the process that schedule() has chosen.
switch_process(m) ==
  /\ context' = [context EXCEPT ![current_process] =
                   [stk |-> m.cpu.stk, rsp |-> SwapOut(m).cpu.rsp]]
  /\ tss_rsp0' = stack[current_process']
  /\ cr3' = page_map[current_process']
  /\ Becomes(Resumes(SwapOut(m), context[current_process']))

\* A handler at m either returns, from done, or schedule() has switched.
HandlerEnds(m, done) ==
  \/ /\ current_process' = current_process
     /\ Becomes(TrapReturn(Leave(done)))
     /\ UNCHANGED <<context, tss_rsp0, cr3>>
  \/ current_process' # current_process /\ switch_process(m)

(***************************************************************************)
(* The steps of Memory with their traps.                                   *)
(***************************************************************************)
InKernel(trapno, f) == Call(Trap(Machine, trapno), f)
AtSyscall == cpu.rip = 1
MustFind(regs) == mine' = [mine EXCEPT ![current_process] = regs]
Own == mine[current_process]

\* The program of the current process works with its registers, up to the
\* instruction before its next system call, whose number is in rax.
UserWorks ==
  /\ InSyscall
  /\ cpu.rip # 1
  /\ MustFind([rip |-> 1, rax |-> 1, rbx |-> pid[current_process], rbp |-> 0])
  /\ cpu' = [cpu EXCEPT !.rip = 1, !.rax = 1, !.rbx = pid[current_process]]
  /\ UNCHANGED <<mvars, kmem, context, tss_rsp0, cr3>>

CTimer ==
  /\ TimerInterrupt
  /\ \E m \in {InKernel(32, UserFrame)} : HandlerEnds(m, m)
  /\ UNCHANGED <<memvars, mine>>

\* A system_call() number out of range.
SysInvalid ==
  /\ InSyscall
  /\ AtSyscall
  /\ MustFind([Own EXCEPT !.rip = 2, !.rax = -1])
  /\ Becomes(TrapReturn(Leave(Result(InKernel(SyscallTrap, UserFrame), -1))))
  /\ UNCHANGED <<mvars, context, tss_rsp0, cr3>>

\* What a freed stack held does not matter: kalloc() is followed by memset().
WithoutFreed(m) ==
  [m EXCEPT !.mem = [page \in DOMAIN m.mem |->
                       IF page \in Range(heap'.free) THEN <<>> ELSE m.mem[page]]]

CWait ==
  /\ AtSyscall
  /\ SysWait
  /\ ReleaseCollected
  /\ MustFind([Own EXCEPT !.rip = 2, !.rax = 0])
  /\ \E m \in {WithoutFreed(InKernel(SyscallTrap, f)) : f \in {kstack'[current_process]}} :
       HandlerEnds(m, Result(m, 0))
CWaitResumed ==
  /\ ResumeWait
  /\ ReleaseCollected
  /\ \E m \in {WithoutFreed(Machine)} : HandlerEnds(m, Result(m, 0))
  /\ UNCHANGED mine

\* Slip: the child is not told that it is the child.
ChildFrameAsIs(frame) == frame

\* The child's trap frame: its parent's, with the result 0.
ChildFrame(frame) == [frame EXCEPT ![4] = 0]
WithChild(m) ==
  [m EXCEPT !.mem[stack'[FirstFree]] =
     ChildFrame(SubSeq(m.mem[stack[current_process]], 1, TRAP_FRAME))
       \o SubSeq(FreshStack, TRAP_FRAME + 1, TRAP_FRAME + SWAP_FRAME)]
ChildMade ==
  /\ Becomes(TrapReturn(Leave(Result(WithChild(InKernel(SyscallTrap, UserFrame)), pid_num))))
  /\ context' = [context EXCEPT ![FirstFree] = FreshContext(stack'[FirstFree])]
  /\ mine' = [mine EXCEPT ![current_process] = [Own EXCEPT !.rip = 2, !.rax = pid_num],
                          ![FirstFree] = [Own EXCEPT !.rip = 2, !.rax = 0]]
  /\ UNCHANGED <<tss_rsp0, cr3>>
CFork == AtSyscall /\ MFork /\ IF panic' = "none" THEN ChildMade ELSE UNCHANGED cvars

\* sys_exit(), or a fault at any instruction.
CExit ==
  /\ Exit
  /\ \E m \in {InKernel(SyscallTrap, UserFrame)} : HandlerEnds(m, m)
  /\ UNCHANGED memvars
  /\ MustFind(Zero)

\* exec() that loads its file: the trap frame is as that of a new process.
WithFreshFrame(m) ==
  [m EXCEPT !.mem[stack[current_process]] =
     FreshTrapFrame \o SubSeq(@, TRAP_FRAME + 1, Len(@))]
SysExec ==
  /\ InSyscall
  /\ AtSyscall
  /\ MustFind(Zero)
  /\ Becomes(TrapReturn(Leave(Result(WithFreshFrame(InKernel(SyscallTrap, UserFrame)), 0))))
  /\ UNCHANGED <<mvars, context, tss_rsp0, cr3>>

CNext ==
  \/ UserWorks
  \/ CTimer
  \/ SysInvalid
  \/ CWait
  \/ CWaitResumed
  \/ CFork
  \/ CExit
  \/ SysExec
  \/ Stopped /\ UNCHANGED <<memvars, cvars>>

CSpec == CInit /\ [][CNext]_<<mvars, cvars>>

(***************************************************************************)
(* Properties.                                                             *)
(***************************************************************************)

\* Whatever ran in between, a process that is in user mode has exactly the
\* registers it left user mode with, but for the result of its system call; a
\* child starts with its parent's and the result 0; and the idle process comes
\* back to its loop with its stack empty.
ReturnsToOwnRegisters ==
  UserMode => cpu = Outside(IF current_process = Idle THEN Ring0 ELSE Ring3,
                            mine[current_process])

\* What a parked process finds when swap() returns on its stack: the call it
\* is in, through the rbp that swap() pops.
Parked(p) ==
  LET words == kmem[context[p].stk]
      t == context[p].rsp - SWAP_FRAME
      rbp == words[t + 3]
  IN  IF words[t + 1] = TrapReturnAddress THEN <<Code("user"), 0, 0>>
      ELSE <<words[rbp + 1], words[rbp + 2], words[rbp + 3]>>

\* Every process that is not running is parked on its own stack, inside the
\* call, and with the locals, that Process says it is; and one that runs in the
\* kernel reads those locals.
StacksTellFrames ==
  panic = "none" => \A p \in {q \in Slot : q = Idle \/ Live(q)} :
    LET frame == <<Code(kstack[p].at), kstack[p].arg, kstack[p].old>>
    IN  IF p # current_process
        THEN context[p].stk = stack[p] /\ Parked(p) = frame
        ELSE UserMode \/ /\ cpu.stk = stack[p]
                         /\ SubSeq(kmem[cpu.stk], cpu.rbp + 1, cpu.rbp + 3) = frame

\* The next trap goes to the stack of the process that runs, and that process
\* runs in its own address space; neither has been given back.
RunsInOwnSpace ==
  panic = "none" =>
    /\ tss_rsp0 = stack[current_process]
    /\ cr3 = page_map[current_process]
    /\ {tss_rsp0, cr3} \cap Range(heap.free) = {}
=============================================================================
