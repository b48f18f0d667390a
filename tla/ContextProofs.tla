--------------------------- MODULE ContextProofs ---------------------------
(***************************************************************************)
(* The kernel stacks and the registers, word by word: every process comes  *)
(* back to user mode with its own registers, and every parked process      *)
(* finds on its stack the call it is in.                                   *)
(*                                                                         *)
(* A stack that nobody runs on has one of two layouts: that of a process   *)
(* that has never run, made by hand by alloc_new_process(), and that left  *)
(* by a trap, a C call and swap().  The proof says what each primitive     *)
(* does to the layout, and from MemoryProofs takes that no two processes   *)
(* share a stack and that no stack in use is on the free list.             *)
(***************************************************************************)
EXTENDS MemoryProofs

\* The code segment that process p runs in.
Cs(p) == IF p = Idle THEN Ring0 ELSE Ring3

\* The stack s begins with the trap frame that brings p back to the registers
\* regs; a blocking call still has to write its result, 0, into it.
HoldsRegisters(s, p, regs, frame) ==
  /\ s[1] = Cs(p) /\ s[2] = regs.rip /\ s[5] = regs.rbx /\ s[6] = regs.rbp
  /\ IF frame.at = "user" THEN s[4] = regs.rax ELSE regs.rax = 0

\* Behind it is the C frame of the call, where rbp is 7.
HoldsCall(s, frame) == s[8] = Code(frame.at) /\ s[9] = frame.arg /\ s[10] = frame.old

\* The stack of a process that has never run, and of one that swap() has left.
FreshLayout(s) == Len(s) = 9 /\ s[7] = TrapReturnAddress
SwappedLayout(s) == Len(s) = 13 /\ s[11] = ScheduleAddress /\ s[13] = 7

ParkedWell(p) ==
  LET s == kmem[stack[p]]
  IN  /\ context[p] = [stk |-> stack[p], rsp |-> Len(s)]
      /\ HoldsRegisters(s, p, mine[p], kstack[p])
      /\ \/ FreshLayout(s) /\ kstack[p] = UserFrame
         \/ SwappedLayout(s) /\ HoldsCall(s, kstack[p])

\* The current process is outside the kernel, with its registers, or it is in
\* a blocking call on its stack.
RunsWell ==
  LET p == current_process
      s == kmem[stack[p]]
  IN  IF kstack[p].at = "user" THEN cpu = Outside(Cs(p), mine[p])
      ELSE /\ cpu.cs = Ring0 /\ cpu.stk = stack[p] /\ cpu.rsp = 10 /\ cpu.rbp = 7
           /\ Len(s) >= 10 /\ HoldsRegisters(s, p, mine[p], kstack[p]) /\ HoldsCall(s, kstack[p])

\* The locals that are not used are 0.
FramesOK ==
  \A p \in Slot : /\ kstack[p].at = "user" => kstack[p] = UserFrame
                  /\ kstack[p].at = "wait" => kstack[p].old = 0

Registers == [rip : Int, rax : Int, rbx : Int, rbp : {0}]
CTypes ==
  /\ cpu \in [cs : Int, stk : Page \cup {NULL}, rsp : Nat, rip : Int, rax : Int, rbx : Int, rbp : Int]
  /\ kmem \in [Page \cup {NULL} -> Seq(Int)]
  /\ context \in [Slot -> [stk : Page \cup {NULL}, rsp : Nat]]
  /\ mine \in [Slot -> Registers]

\* The invariant of the words, on top of that of the memory.
WordsInv ==
  /\ CTypes
  /\ FramesOK
  /\ RunsWell
  /\ \A p \in Slot \ {current_process} : p = Idle \/ Live(p) => ParkedWell(p)
CInv == MInv /\ (panic = "none" => WordsInv)

-----------------------------------------------------------------------------
(***************************************************************************)
(* The primitives on a machine whose registers and stacks are named.       *)
(***************************************************************************)
\* A word of the stack or a register.
IsWord(x) == x \in Int

\* The machine with these registers and stacks.
Mach(c, k, n, ip, a, b, f, mem) ==
  [cpu |-> [cs |-> c, stk |-> k, rsp |-> n, rip |-> ip, rax |-> a, rbx |-> b, rbp |-> f],
   mem |-> mem]

\* Stacks with words behind the first n of stack k; with the value v in the place
\* of rax in the trap frame on k; with nothing on k.
OnTop(mem, k, n, words) == [mem EXCEPT ![k] = SubSeq(mem[k], 1, n) \o words]
WithResult(mem, k, v) == [mem EXCEPT ![k] = [mem[k] EXCEPT ![4] = v]]
Emptied(mem, k) == [mem EXCEPT ![k] = <<>>]

\* Its fields, and what becomes of it when one of them is written.
LEMMA MachFields ==
  ASSUME NEW c, NEW k, NEW n, NEW ip, NEW a, NEW b, NEW f, NEW mem, NEW m,
         m = Mach(c, k, n, ip, a, b, f, mem)
  PROVE  /\ m.cpu.cs = c /\ m.cpu.stk = k /\ m.cpu.rsp = n /\ m.cpu.rip = ip
         /\ m.cpu.rax = a /\ m.cpu.rbx = b /\ m.cpu.rbp = f /\ m.mem = mem
         /\ \A x : [m EXCEPT !.cpu.cs = x] = Mach(x, k, n, ip, a, b, f, mem)
         /\ \A x : [m EXCEPT !.cpu.stk = x] = Mach(c, x, n, ip, a, b, f, mem)
         /\ \A x : [m EXCEPT !.cpu.rsp = x] = Mach(c, k, x, ip, a, b, f, mem)
         /\ \A x : [m EXCEPT !.cpu.rbx = x] = Mach(c, k, n, ip, a, x, f, mem)
         /\ \A x : [m EXCEPT !.cpu.rbp = x] = Mach(c, k, n, ip, a, b, x, mem)
         /\ \A x : [m EXCEPT !.mem = x] = Mach(c, k, n, ip, a, b, f, x)
         /\ \A r : [m EXCEPT !.cpu = r] = [cpu |-> r, mem |-> mem]
<1>1. /\ m.cpu = [cs |-> c, stk |-> k, rsp |-> n, rip |-> ip, rax |-> a, rbx |-> b, rbp |-> f]
      /\ m.mem = mem
  BY DEF Mach
<1>2. /\ m.cpu.cs = c /\ m.cpu.stk = k /\ m.cpu.rsp = n /\ m.cpu.rip = ip
      /\ m.cpu.rax = a /\ m.cpu.rbx = b /\ m.cpu.rbp = f
  BY <1>1
<1>3. \A x : [m EXCEPT !.cpu.cs = x] = Mach(x, k, n, ip, a, b, f, mem)
  BY <1>1 DEF Mach
<1>4. \A x : [m EXCEPT !.cpu.stk = x] = Mach(c, x, n, ip, a, b, f, mem)
  BY <1>1 DEF Mach
<1>5. \A x : [m EXCEPT !.cpu.rsp = x] = Mach(c, k, x, ip, a, b, f, mem)
  BY <1>1 DEF Mach
<1>6. \A x : [m EXCEPT !.cpu.rbx = x] = Mach(c, k, n, ip, a, x, f, mem)
  BY <1>1 DEF Mach
<1>7. \A x : [m EXCEPT !.cpu.rbp = x] = Mach(c, k, n, ip, a, b, x, mem)
  BY <1>1 DEF Mach
<1>8. \A x : [m EXCEPT !.mem = x] = Mach(c, k, n, ip, a, b, f, x)
  BY <1>1 DEF Mach
<1>9. \A r : [m EXCEPT !.cpu = r] = [cpu |-> r, mem |-> mem]
  BY <1>1 DEF Mach
<1> QED BY <1>1, <1>2, <1>3, <1>4, <1>5, <1>6, <1>7, <1>8, <1>9

\* Push() writes behind rsp; what was there before is gone.
LEMMA PushIs ==
  ASSUME NEW c, NEW k, NEW n, NEW ip, NEW a, NEW b, NEW f, NEW mem, NEW words
  PROVE  Push(Mach(c, k, n, ip, a, b, f, mem), words)
           = Mach(c, k, n + Len(words), ip, a, b, f,
                  OnTop(mem, k, n, words))
<1>1. PICK m : m = Mach(c, k, n, ip, a, b, f, mem)
  OBVIOUS
<1>2. m.cpu.stk = k /\ m.cpu.rsp = n /\ m.mem = mem
  BY <1>1, MachFields
<1>3. PICK s : s = [mem EXCEPT ![k] = SubSeq(mem[k], 1, n) \o words] /\ s = OnTop(mem, k, n, words)
  BY DEF OnTop
<1>4. PICK m1 : m1 = Mach(c, k, n, ip, a, b, f, s)
  OBVIOUS
<1>5. [m EXCEPT !.mem = s] = m1
  BY <1>1, <1>4, MachFields
<1>6. m1.cpu.rsp = n
  BY <1>4, MachFields
<1>7. Push(m, words) = [m1 EXCEPT !.cpu.rsp = n + Len(words)]
  BY <1>2, <1>3, <1>5, <1>6 DEF Push
<1>8. [m1 EXCEPT !.cpu.rsp = n + Len(words)] = Mach(c, k, n + Len(words), ip, a, b, f, s)
  BY <1>4, MachFields
<1> QED BY <1>1, <1>3, <1>7, <1>8
\* A C frame of four words, and its end.
LEMMA CallIs ==
  ASSUME NEW c, NEW k, NEW ip, NEW a, NEW b, NEW f, NEW mem, NEW fr
  PROVE  Call(Mach(c, k, 6, ip, a, b, f, mem), fr)
           = Mach(c, k, 10, ip, a, b, 7,
                  OnTop(mem, k, 6, <<f, Code(fr.at), fr.arg, fr.old>>))
<1>1. PICK m : m = Mach(c, k, 6, ip, a, b, f, mem)
  OBVIOUS
<1>2. PICK at, arg, old : at = Code(fr.at) /\ arg = fr.arg /\ old = fr.old
  OBVIOUS
<1>3. PICK w : w = <<f, at, arg, old>>
  OBVIOUS
<1>4. PICK s : s = OnTop(mem, k, 6, w)
  OBVIOUS
<1>5. m.cpu.rsp = 6 /\ m.cpu.rbp = f
  BY <1>1, MachFields
<1>6. PICK m1 : m1 = Mach(c, k, 10, ip, a, b, f, s)
  OBVIOUS
<1>7. Push(m, w) = m1
  <2>1. Push(m, w) = Mach(c, k, 6 + Len(w), ip, a, b, f, s)
    BY <1>1, <1>4, PushIs
  <2>2. 6 + Len(w) = 10
    BY <1>3
  <2> QED BY <1>6, <2>1, <2>2
<1>8. Call(m, fr) = [m1 EXCEPT !.cpu.rbp = 6 + 1]
  BY <1>2, <1>3, <1>5, <1>7, Zenon DEF Call
<1>9. [m1 EXCEPT !.cpu.rbp = 6 + 1] = Mach(c, k, 10, ip, a, b, 6 + 1, s)
  BY <1>6, MachFields
<1>10. 6 + 1 = 7
  OBVIOUS
<1> QED BY <1>1, <1>2, <1>3, <1>4, <1>8, <1>9, <1>10

\* The end of the C frame.
LEMMA LeaveIs ==
  ASSUME NEW c, NEW k, NEW n, NEW ip, NEW a, NEW b, NEW mem, mem[k] \in Seq(Int), Len(mem[k]) >= 10
  PROVE  Leave(Mach(c, k, n, ip, a, b, 7, mem)) = Mach(c, k, 6, ip, a, b, mem[k][7], mem)
<1>1. PICK m : m = Mach(c, k, n, ip, a, b, 7, mem)
  OBVIOUS
<1>2. m.cpu.rbp = 7 /\ m.cpu.stk = k /\ m.mem = mem
  BY <1>1, MachFields
<1>3. Word(m, 7) = mem[k][7]
  <2>1. 7 \in DOMAIN mem[k]
    BY LenProperties
  <2> QED BY <1>2, <2>1 DEF Word
<1>4. PICK x, y : x = 7 - 1 /\ y = Word(m, 7)
  OBVIOUS
<1>5. PICK m1 : m1 = Mach(c, k, x, ip, a, b, 7, mem)
  OBVIOUS
<1>6. [m EXCEPT !.cpu.rsp = x] = m1
  BY <1>1, <1>5, MachFields
<1>7. Leave(m) = [m1 EXCEPT !.cpu.rbp = y]
  BY <1>2, <1>4, <1>6, Zenon DEF Leave
<1>8. [m1 EXCEPT !.cpu.rbp = y] = Mach(c, k, x, ip, a, b, y, mem)
  BY <1>5, MachFields
<1>9. x = 6
  BY <1>4
<1> QED BY <1>1, <1>3, <1>4, <1>7, <1>8, <1>9

\* The result of a system call goes into the place of rax in the trap frame.
LEMMA ResultIs ==
  ASSUME NEW c, NEW k, NEW n, NEW ip, NEW a, NEW b, NEW mem, NEW v
  PROVE  Result(Mach(c, k, n, ip, a, b, 7, mem), v)
           = Mach(c, k, n, ip, a, b, 7, WithResult(mem, k, v))
BY DEF Result, Mach, WithResult

\* The registers are popped, and the stack is empty again.
LEMMA TrapReturnIs ==
  ASSUME NEW c, NEW k, NEW ip, NEW a, NEW b, NEW f, NEW mem,
         mem[k] \in Seq(Int), Len(mem[k]) >= 6
  PROVE  TrapReturn(Mach(c, k, 6, ip, a, b, f, mem))
           = Mach(mem[k][1], IF mem[k][1] = Ring3 THEN NULL ELSE k, 0,
                  mem[k][2], mem[k][4], mem[k][5], mem[k][6], Emptied(mem, k))
<1>1. PICK m : m = Mach(c, k, 6, ip, a, b, f, mem)
  OBVIOUS
<1>2. m.cpu.rsp = 6 /\ m.cpu.stk = k /\ m.mem = mem
  BY <1>1, MachFields
<1>3. PICK t : t = m.cpu.rsp - TRAP_FRAME /\ t = 0
  BY <1>2 DEF TRAP_FRAME
<1>4. \A i \in 1 .. 6 : Word(m, i) = mem[k][i]
  <2>1. 1 .. 6 \subseteq DOMAIN mem[k]
    BY LenProperties
  <2> QED BY <1>2, <2>1 DEF Word
<1>5. /\ Word(m, t + 1) = mem[k][1] /\ Word(m, t + 2) = mem[k][2] /\ Word(m, t + 4) = mem[k][4]
      /\ Word(m, t + 5) = mem[k][5] /\ Word(m, t + 6) = mem[k][6]
  <2>1. t + 1 = 1 /\ t + 2 = 2 /\ t + 4 = 4 /\ t + 5 = 5 /\ t + 6 = 6
    BY <1>3
  <2>2. /\ Word(m, 1) = mem[k][1] /\ Word(m, 2) = mem[k][2] /\ Word(m, 4) = mem[k][4]
        /\ Word(m, 5) = mem[k][5] /\ Word(m, 6) = mem[k][6]
    BY <1>4
  <2> QED BY <2>1, <2>2, Zenon
<1>6. SubSeq(mem[k], 1, t) = <<>>
  BY <1>3, SubSeqEmpty
<1>7. PICK s : s = [mem EXCEPT ![k] = <<>>] /\ s = Emptied(mem, k)
  BY DEF Emptied
<1>8. PICK r : r = [cs |-> mem[k][1], rip |-> mem[k][2], rax |-> mem[k][4],
                    rbx |-> mem[k][5], rbp |-> mem[k][6],
                    stk |-> IF mem[k][1] = Ring3 THEN NULL ELSE k,
                    rsp |-> IF mem[k][1] = Ring3 THEN 0 ELSE t]
  OBVIOUS
<1>9. PICK m1 : m1 = Mach(c, k, 6, ip, a, b, f, s)
  OBVIOUS
<1>10. [m EXCEPT !.mem = s] = m1
  BY <1>1, <1>9, MachFields
<1>11. [m EXCEPT !.mem[k] = <<>>] = m1
  BY <1>2, <1>7, <1>10, Zenon
<1>12. TrapReturn(m) = [m1 EXCEPT !.cpu = r]
  BY <1>2, <1>3, <1>5, <1>6, <1>8, <1>11, Zenon DEF TrapReturn
<1>13. [m1 EXCEPT !.cpu = r] = [cpu |-> r, mem |-> s]
  BY <1>9, MachFields
<1>14. r = [cs |-> mem[k][1], stk |-> IF mem[k][1] = Ring3 THEN NULL ELSE k, rsp |-> 0,
            rip |-> mem[k][2], rax |-> mem[k][4], rbx |-> mem[k][5], rbp |-> mem[k][6]]
  BY <1>3, <1>8
<1> QED BY <1>1, <1>7, <1>12, <1>13, <1>14 DEF Mach

\* At at, on the stack to, swap() finds y and z behind the first n words.
Pops(mem, to, at, n, y, z) ==
  /\ mem[to] \in Seq(Int) /\ Len(mem[to]) >= 9
  /\ at.stk = to /\ at.rsp = Len(mem[to])
  /\ n = Len(mem[to]) - 3 /\ y = mem[to][Len(mem[to]) - 1] /\ z = mem[to][Len(mem[to])]

\* They are what becomes of rsp, rbx and rbp.
LEMMA SwapInIs ==
  ASSUME NEW c, NEW k, NEW n, NEW ip, NEW a, NEW b, NEW f, NEW mem, NEW to, NEW at,
         NEW t, NEW y, NEW z, Pops(mem, to, at, t, y, z)
  PROVE  SwapIn(Mach(c, k, n, ip, a, b, f, mem), at) = Mach(c, to, t, ip, a, y, z, mem)
<1>1. PICK m : m = Mach(c, k, n, ip, a, b, f, mem)
  OBVIOUS
<1>2. PICK d : d = at.rsp /\ to = at.stk
  BY DEF Pops
<1>3. PICK m2 : m2 = Mach(c, to, d, ip, a, b, f, mem)
  OBVIOUS
<1>4. [m EXCEPT !.cpu.stk = at.stk, !.cpu.rsp = at.rsp] = m2
  <2>1. PICK m1 : m1 = Mach(c, to, n, ip, a, b, f, mem)
    OBVIOUS
  <2>2. [m EXCEPT !.cpu.stk = to] = m1
    BY <1>1, <2>1, MachFields
  <2>3. [m EXCEPT !.cpu.stk = at.stk, !.cpu.rsp = at.rsp] = [m1 EXCEPT !.cpu.rsp = d]
    BY <1>2, <2>2, Zenon
  <2>4. [m1 EXCEPT !.cpu.rsp = d] = m2
    BY <1>3, <2>1, MachFields
  <2> QED BY <2>3, <2>4
<1>5. t = at.rsp - SWAP_FRAME /\ Word(m2, t + 2) = y /\ Word(m2, t + 3) = z
  <2>1. t + 2 = d - 1 /\ t + 3 = d /\ t = d - 3 /\ d = Len(mem[to]) /\ d \in Nat /\ d >= 9
    BY <1>2, LenProperties DEF Pops
  <2>2. d - 1 \in DOMAIN mem[to] /\ d \in DOMAIN mem[to]
    BY <2>1, LenProperties DEF Pops
  <2>3. m2.mem = mem /\ m2.cpu.stk = to
    BY <1>3, MachFields
  <2>4. y = mem[to][d - 1] /\ z = mem[to][d]
    BY <2>1 DEF Pops
  <2> QED BY <1>2, <2>1, <2>2, <2>3, <2>4 DEF Word, SWAP_FRAME
<1>6. PICK m3, m4 : m3 = Mach(c, to, t, ip, a, b, f, mem) /\ m4 = Mach(c, to, t, ip, a, y, f, mem)
  OBVIOUS
<1>7. [m2 EXCEPT !.cpu.rsp = t] = m3
  BY <1>3, <1>6, MachFields
<1>8. [m3 EXCEPT !.cpu.rbx = y] = m4
  BY <1>6, MachFields
<1>9. SwapIn(m, at) = [m4 EXCEPT !.cpu.rbp = z]
  BY <1>4, <1>5, <1>7, <1>8, Zenon DEF SwapIn
<1>10. [m4 EXCEPT !.cpu.rbp = z] = Mach(c, to, t, ip, a, y, z, mem)
  BY <1>6, MachFields
<1> QED BY <1>1, <1>9, <1>10
-----------------------------------------------------------------------------
(***************************************************************************)
(* Into the kernel.                                                        *)
(***************************************************************************)

\* A trap starts at the top of the kernel stack of the process that runs.
LEMMA StackOfTrap ==
  ASSUME Running, RunsWell, kstack[current_process].at = "user",
         NEW regs, regs = mine[current_process]
  PROVE  OnKernelStack(Machine)
           = Mach(Cs(current_process), stack[current_process], 0,
                  regs.rip, regs.rax, regs.rbx, regs.rbp, kmem)
<1>1. PICK c, ip, a, b, f : c = Cs(current_process) /\ ip = regs.rip /\ a = regs.rax
                            /\ b = regs.rbx /\ f = regs.rbp
  OBVIOUS
<1>2. PICK m : m = Machine
  OBVIOUS
<1>3. m = Mach(c, NULL, 0, ip, a, b, f, kmem)
  BY <1>1, <1>2 DEF RunsWell, Machine, Outside, Mach
<1>4. m.cpu.cs = c
  BY <1>3, MachFields
<1>5. CASE c = Ring3
  <2>1. PICK k : k = tss_rsp0 /\ k = stack[current_process]
    BY DEF Running
  <2>2. PICK m1 : m1 = Mach(c, k, 0, ip, a, b, f, kmem)
    OBVIOUS
  <2>3. [m EXCEPT !.cpu.stk = k] = m1
    BY <1>3, <2>2, MachFields
  <2>4. OnKernelStack(m) = [m1 EXCEPT !.cpu.rsp = 0]
    BY <1>4, <1>5, <2>1, <2>3, Zenon DEF OnKernelStack
  <2>5. [m1 EXCEPT !.cpu.rsp = 0] = Mach(c, k, 0, ip, a, b, f, kmem)
    BY <2>2, MachFields
  <2> QED BY <1>1, <1>2, <2>1, <2>4, <2>5
<1>6. CASE c # Ring3
  <2>1. stack[current_process] = NULL
    BY <1>1, <1>6 DEF Cs, Running, IdleOwns
  <2>2. OnKernelStack(m) = m
    BY <1>4, <1>6 DEF OnKernelStack
  <2> QED BY <1>1, <1>2, <1>3, <2>1, <2>2
<1> QED BY <1>5, <1>6

\* What the trap and the C frame put there: the registers, and the call fr.
Entered(p, regs, trapno, fr, mem) ==
  LET s == mem[stack[p]]
  IN  /\ mem \in [Page \cup {NULL} -> Seq(Int)]
      /\ \A k \in Page \cup {NULL} : k # stack[p] => mem[k] = kmem[k]
      /\ Len(s) = 10
      /\ s[1] = Cs(p) /\ s[2] = IF trapno = SyscallTrap THEN 2 ELSE regs.rip
      /\ s[4] = regs.rax /\ s[5] = regs.rbx /\ s[6] = regs.rbp
      /\ HoldsCall(s, fr)

\* Every trap from user mode does that.
LEMMA EntersKernel ==
  ASSUME Running, CTypes, RunsWell, kstack[current_process].at = "user",
         NEW regs, regs = mine[current_process], NEW trapno \in Int, NEW fr \in Frame
  PROVE  \E mem : /\ InKernel(trapno, fr)
                       = Mach(Ring0, stack[current_process], 10, regs.rip, regs.rax, regs.rbx, 7, mem)
                  /\ Entered(current_process, regs, trapno, fr, mem)
<1>1. PICK c, k, ip, a, b, f :
        /\ c = Cs(current_process) /\ k = stack[current_process]
        /\ ip = regs.rip /\ a = regs.rax /\ b = regs.rbx /\ f = regs.rbp
  OBVIOUS
<1>2. PICK m : m = OnKernelStack(Machine) /\ m = Mach(c, k, 0, ip, a, b, f, kmem)
  BY <1>1, StackOfTrap
<1>3. /\ Machine.cpu.cs = c /\ Machine.cpu.rip = ip /\ Machine.cpu.rax = a
      /\ Machine.cpu.rbx = b /\ Machine.cpu.rbp = f
  <2>1. Machine.cpu = cpu /\ cpu = Outside(c, regs)
    BY <1>1 DEF Machine, RunsWell
  <2> QED BY <1>1, <2>1 DEF Outside
<1>4. PICK ret : ret = IF trapno = SyscallTrap THEN 2 ELSE ip
  OBVIOUS
<1>5. PICK w : w = <<c, ret, trapno, a, b, f>>
  OBVIOUS
<1>6. PICK mem1 : mem1 = OnTop(kmem, k, 0, w)
  OBVIOUS
<1>7. PICK m1 : m1 = Mach(c, k, 6, ip, a, b, f, mem1)
  OBVIOUS
<1>8. Push(m, w) = m1
  <2>1. Push(m, w) = Mach(c, k, 0 + Len(w), ip, a, b, f, mem1)
    BY <1>2, <1>6, PushIs
  <2>2. 0 + Len(w) = 6
    BY <1>5
  <2> QED BY <1>7, <2>1, <2>2
<1>9. PICK m2 : m2 = Mach(Ring0, k, 6, ip, a, b, f, mem1)
  OBVIOUS
<1>10. Trap(Machine, trapno) = [m1 EXCEPT !.cpu.cs = Ring0]
  BY <1>2, <1>3, <1>4, <1>5, <1>8, Zenon DEF Trap
<1>11. [m1 EXCEPT !.cpu.cs = Ring0] = m2
  BY <1>7, <1>9, MachFields
<1>12. PICK at, arg, old : at = Code(fr.at) /\ arg = fr.arg /\ old = fr.old
  OBVIOUS
<1>13. PICK v : v = <<f, at, arg, old>>
  OBVIOUS
<1>14. PICK mem2 : mem2 = OnTop(mem1, k, 6, v)
  OBVIOUS
<1>15. InKernel(trapno, fr) = Mach(Ring0, k, 10, ip, a, b, 7, mem2)
  <2>1. InKernel(trapno, fr) = Call(m2, fr)
    BY <1>10, <1>11 DEF InKernel
  <2>2. Call(m2, fr) = Mach(Ring0, k, 10, ip, a, b, 7, mem2)
    BY <1>9, <1>12, <1>13, <1>14, CallIs
  <2> QED BY <2>1, <2>2
<1>16. /\ c \in Int /\ ip \in Int /\ a \in Int /\ b \in Int /\ f \in Int /\ ret \in Int
       /\ at \in Int /\ arg \in Int /\ old \in Int
       /\ k \in Page \cup {NULL} /\ kmem \in [Page \cup {NULL} -> Seq(Int)]
  <2>1. current_process \in Slot
    BY DEF Running, IInv, TypeOK
  <2>2. ip \in Int /\ a \in Int /\ b \in Int /\ f \in Int /\ ret \in Int
    BY <1>1, <1>4, <2>1 DEF CTypes, Registers
  <2>3. at \in Int /\ arg \in Int /\ old \in Int
    BY <1>12 DEF Frame, Code
  <2> QED BY <1>1, <2>1, <2>2, <2>3 DEF Cs, Ring0, Ring3, Running, CTypes
<1>17. mem1[k] = w /\ mem1 \in [Page \cup {NULL} -> Seq(Int)]
       /\ \A x \in Page \cup {NULL} : x # k => mem1[x] = kmem[x]
  <2>1. w \in Seq(Int)
    BY <1>5, <1>16
  <2>2. SubSeq(kmem[k], 1, 0) \o w = w
    BY <1>16, <2>1, SubSeqEmpty
  <2> QED BY <1>6, <1>16, <2>1, <2>2 DEF OnTop
<1>18. PICK s : s = w \o v
  OBVIOUS
<1>19. /\ s \in Seq(Int) /\ Len(s) = 10
       /\ s[1] = c /\ s[2] = ret /\ s[4] = a /\ s[5] = b /\ s[6] = f
       /\ s[8] = at /\ s[9] = arg /\ s[10] = old
  <2>1. w \in Seq(Int) /\ Len(w) = 6 /\ v \in Seq(Int) /\ Len(v) = 4
    BY <1>5, <1>13, <1>16
  <2>2. /\ s \in Seq(Int) /\ Len(s) = 10
        /\ \A i \in 1 .. 10 : s[i] = IF i <= 6 THEN w[i] ELSE v[i - 6]
    <3>1. /\ s \in Seq(Int) /\ Len(s) = Len(w) + Len(v)
          /\ \A i \in 1 .. Len(w) + Len(v) : s[i] = IF i <= Len(w) THEN w[i] ELSE v[i - Len(w)]
      BY <1>18, <2>1, ConcatProperties
    <3> QED BY <2>1, <3>1
  <2> QED BY <1>5, <1>13, <2>2
<1>20. mem2[k] = s /\ mem2 \in [Page \cup {NULL} -> Seq(Int)]
       /\ \A x \in Page \cup {NULL} : x # k => mem2[x] = kmem[x]
  <2>1. SubSeq(w, 1, 6) = w
    <3>1. w \in Seq(Int) /\ Len(w) = 6
      BY <1>5, <1>16
    <3> QED BY <3>1
  <2> QED BY <1>14, <1>16, <1>17, <1>18, <1>19, <2>1 DEF OnTop
<1>21. Entered(current_process, regs, trapno, fr, mem2)
  BY <1>1, <1>4, <1>12, <1>19, <1>20 DEF Entered, HoldsCall
<1> QED BY <1>1, <1>15, <1>21
-----------------------------------------------------------------------------
(***************************************************************************)
(* Out of the kernel.                                                      *)
(***************************************************************************)

\* Outside the kernel, with the registers regs, and nothing on stack k.
OutOn(m, p, regs, mem, k) == m.cpu = Outside(Cs(p), regs) /\ m.mem = Emptied(mem, k)

\* A trap frame brings its process back to the registers it holds.
LEMMA FrameReturns ==
  ASSUME NEW p, NEW k, NEW ip, NEW a, NEW b, NEW f, NEW mem,
         mem[k] \in Seq(Int), Len(mem[k]) >= 6, p = Idle => k = NULL,
         NEW regs, HoldsRegisters(mem[k], p, regs, UserFrame)
  PROVE  OutOn(TrapReturn(Mach(Ring0, k, 6, ip, a, b, f, mem)), p, regs, mem, k)
<1>1. PICK s : s = mem[k]
  OBVIOUS
<1>2. s[1] = Cs(p) /\ s[2] = regs.rip /\ s[4] = regs.rax /\ s[5] = regs.rbx /\ s[6] = regs.rbp
  BY <1>1 DEF HoldsRegisters, UserFrame
<1>3. (IF s[1] = Ring3 THEN NULL ELSE k) = NULL
  BY <1>2 DEF Cs, Ring3, Ring0
<1>4. PICK e : e = Emptied(mem, k)
  OBVIOUS
<1>5. TrapReturn(Mach(Ring0, k, 6, ip, a, b, f, mem))
        = Mach(s[1], IF s[1] = Ring3 THEN NULL ELSE k, 0, s[2], s[4], s[5], s[6], e)
  BY <1>1, <1>4, TrapReturnIs
<1>6. TrapReturn(Mach(Ring0, k, 6, ip, a, b, f, mem))
        = Mach(Cs(p), NULL, 0, regs.rip, regs.rax, regs.rbx, regs.rbp, e)
  BY <1>2, <1>3, <1>5
<1> QED BY <1>4, <1>6 DEF OutOn, Mach, Outside

\* The same from inside a handler.
LEMMA HandlerReturns ==
  ASSUME NEW p, NEW k, NEW ip, NEW a, NEW b, NEW mem,
         mem[k] \in Seq(Int), Len(mem[k]) >= 10, p = Idle => k = NULL,
         NEW regs, HoldsRegisters(mem[k], p, regs, UserFrame)
  PROVE  OutOn(TrapReturn(Leave(Mach(Ring0, k, 10, ip, a, b, 7, mem))), p, regs, mem, k)
<1>1. Leave(Mach(Ring0, k, 10, ip, a, b, 7, mem)) = Mach(Ring0, k, 6, ip, a, b, mem[k][7], mem)
  BY LeaveIs
<1>2. Len(mem[k]) >= 6
  BY LenProperties
<1> QED BY <1>1, <1>2, FrameReturns

\* The stack of the idle process is the boot stack; nobody else's is.
LEMMA StackTypes ==
  ASSUME Running, NEW p \in UsedSlots
  PROVE  stack[p] \in Page \cup {NULL} /\ (p = Idle <=> stack[p] = NULL)
<1>1. NULL \notin Page
  BY PageAssumption DEF NULL
<1>2. p # Idle => OwnsAll(p)
  BY DEF Running
<1> QED BY <1>1, <1>2 DEF Running, IdleOwns, OwnsAll

\* No two processes share a stack, and no stack is on the free list.
LEMMA StacksApart ==
  ASSUME Running, Sound(heap), NEW p \in UsedSlots
  PROVE  /\ \A q \in UsedSlots : q # p => stack[q] # stack[p]
         /\ stack[p] \notin FreeSet(heap)
<1>1. NULL \notin Page
  BY PageAssumption DEF NULL
<1>2. \A q \in UsedSlots : q # Idle => stack[q] \in Owned(q) /\ stack[q] \in Page
  <2>1. \A q \in UsedSlots : q # Idle => Owned(q) = {stack[q]} \cup PagesIn(heap.table, page_map[q])
    BY OwnedCount
  <2>2. \A q \in UsedSlots : q # Idle => OwnsAll(q)
    BY DEF Running
  <2> QED BY <2>1, <2>2 DEF OwnsAll
<1>3. \A q \in UsedSlots : q = Idle => stack[q] = NULL
  BY DEF Running, IdleOwns
<1>4. FreeSet(heap) \subseteq Page
  <2>1. heap.free \in Seq(Page)
    BY HeapFields
  <2> QED BY <2>1, RangeOfSeq DEF FreeSet
<1> QED BY <1>1, <1>2, <1>3, <1>4 DEF Running, Parted

\* swap() on the stack of a process that is parked well comes back either to
\* user mode or into its blocking call.
LEMMA SwapReturns ==
  ASSUME Running, CTypes, NEW q \in UsedSlots, ParkedWell(q), NEW t, t = stack[q],
         NEW k, NEW n, NEW ip, NEW a, NEW b, NEW f, NEW mem, mem[t] = kmem[t]
  PROVE  LET m == Resumes(Mach(Ring0, k, n, ip, a, b, f, mem), context[q])
         IN  IF kstack[q].at = "user" THEN OutOn(m, q, mine[q], mem, t)
             ELSE m = Mach(Ring0, t, 10, ip, a, mem[t][12], 7, mem)
<1>1. PICK s : s = mem[t]
  OBVIOUS
<1>2. PICK at : at = context[q] /\ at = [stk |-> t, rsp |-> Len(s)] /\ at.stk = t /\ at.rsp = Len(s)
  BY <1>1 DEF ParkedWell
<1>3. PICK m : m = Mach(Ring0, k, n, ip, a, b, f, mem)
  OBVIOUS
<1>4. q \in Slot /\ s \in Seq(Int) /\ kstack[q] \in Frame
  <2>1. q \in Slot /\ t \in Page \cup {NULL}
    BY StackTypes DEF UsedSlots
  <2>2. kstack[q] \in Frame
    BY <2>1 DEF Running, IInv, TypeOK
  <2> QED BY <1>1, <2>1, <2>2 DEF CTypes
<1>5. /\ HoldsRegisters(s, q, mine[q], kstack[q])
      /\ \/ FreshLayout(s) /\ kstack[q] = UserFrame
         \/ SwappedLayout(s) /\ HoldsCall(s, kstack[q])
  BY <1>1 DEF ParkedWell
<1>6. q = Idle => t = NULL
  BY StackTypes
<1>7. m.mem = mem
  BY <1>3, MachFields
<1>8. CASE FreshLayout(s) /\ kstack[q] = UserFrame
  <2>1. Len(s) = 9 /\ s[7] = TrapReturnAddress
    BY <1>8 DEF FreshLayout
  <2>2. PICK x, y : x = s[8] /\ y = s[9]
    OBVIOUS
  <2>3. SwapIn(m, at) = Mach(Ring0, t, 6, ip, a, x, y, mem)
    <3>1. Pops(mem, t, at, 6, x, y)
      BY <1>1, <1>2, <1>4, <2>1, <2>2 DEF Pops
    <3> QED BY <1>3, <3>1, SwapInIs
  <2>4. ReturnAddress(m, at) = TrapReturnAddress
    <3>1. at.rsp - SWAP_FRAME + 1 = 7
      BY <1>2, <2>1 DEF SWAP_FRAME
    <3> QED BY <1>1, <1>2, <1>7, <2>1, <3>1 DEF ReturnAddress
  <2>5. Resumes(m, at) = TrapReturn(Mach(Ring0, t, 6, ip, a, x, y, mem))
    BY <2>3, <2>4 DEF Resumes
  <2>6. Len(mem[t]) >= 6 /\ mem[t] \in Seq(Int) /\ HoldsRegisters(mem[t], q, mine[q], UserFrame)
    BY <1>1, <1>4, <1>5, <1>8, <2>1
  <2>7. OutOn(TrapReturn(Mach(Ring0, t, 6, ip, a, x, y, mem)), q, mine[q], mem, t)
    BY <1>6, <2>6, FrameReturns
  <2>8. kstack[q].at = "user"
    BY <1>8 DEF UserFrame
  <2> QED BY <1>2, <1>3, <2>5, <2>7, <2>8
<1>9. CASE SwappedLayout(s) /\ HoldsCall(s, kstack[q])
  <2>1. Len(s) = 13 /\ s[11] = ScheduleAddress /\ s[13] = 7 /\ s[8] = Code(kstack[q].at)
    BY <1>9 DEF SwappedLayout, HoldsCall
  <2>2. PICK x : x = s[12]
    OBVIOUS
  <2>3. PICK m1 : m1 = Mach(Ring0, t, 10, ip, a, x, 7, mem) /\ m1 = SwapIn(m, at)
    <3>1. Pops(mem, t, at, 10, x, 7)
      BY <1>1, <1>2, <1>4, <2>1, <2>2 DEF Pops
    <3> QED BY <1>3, <3>1, SwapInIs
  <2>4. ReturnAddress(m, at) # TrapReturnAddress
    <3>1. at.rsp - SWAP_FRAME + 1 = 11
      BY <1>2, <2>1 DEF SWAP_FRAME
    <3> QED BY <1>1, <1>2, <1>7, <2>1, <3>1 DEF ReturnAddress, ScheduleAddress, TrapReturnAddress
  <2>5. Word(m1, m1.cpu.rbp + 1) = Code(kstack[q].at)
    <3>1. m1.cpu.rbp = 7 /\ m1.cpu.stk = t /\ m1.mem = mem
      BY <2>3, MachFields
    <3>2. 7 + 1 = 8 /\ 8 \in DOMAIN s
      BY <1>4, <2>1, LenProperties
    <3> QED BY <1>1, <2>1, <3>1, <3>2 DEF Word
  <2>6. Code(kstack[q].at) = Code("user") <=> kstack[q].at = "user"
    BY <1>4 DEF Frame, Code
  <2>7. CASE kstack[q].at = "user"
    <3>1. Resumes(m, at) = TrapReturn(Leave(Mach(Ring0, t, 10, ip, a, x, 7, mem)))
      BY <2>3, <2>4, <2>5, <2>7 DEF Resumes
    <3>2. Len(mem[t]) >= 10 /\ mem[t] \in Seq(Int)
      BY <1>1, <1>4, <2>1
    <3>3. HoldsRegisters(mem[t], q, mine[q], UserFrame)
      BY <1>1, <1>5, <2>7 DEF HoldsRegisters, UserFrame
    <3>4. OutOn(TrapReturn(Leave(Mach(Ring0, t, 10, ip, a, x, 7, mem))), q, mine[q], mem, t)
      BY <1>6, <3>2, <3>3, HandlerReturns
    <3> QED BY <1>2, <1>3, <2>7, <3>1, <3>4
  <2>8. CASE kstack[q].at # "user"
    <3>1. Resumes(m, at) = m1
      BY <2>3, <2>4, <2>5, <2>6, <2>8 DEF Resumes
    <3> QED BY <1>1, <1>2, <1>3, <2>2, <2>3, <2>8, <3>1
  <2> QED BY <2>7, <2>8
<1> QED BY <1>5, <1>8, <1>9

\* What swap() leaves on the stack of the process it takes the CPU from.
SwapLeft(mem, k, out) ==
  /\ out \in [Page \cup {NULL} -> Seq(Int)]
  /\ \A x \in Page \cup {NULL} : x # k => out[x] = mem[x]
  /\ SwappedLayout(out[k])
  /\ \A i \in 1 .. 10 : out[k][i] = mem[k][i]

\* swap() leaves that, and a machine with 13 words on that stack.
LEMMA SwapLeaves ==
  ASSUME NEW c, NEW k \in Page \cup {NULL}, NEW ip, NEW a, NEW b, IsWord(b),
         NEW mem \in [Page \cup {NULL} -> Seq(Int)], Len(mem[k]) >= 10
  PROVE  \E out : /\ SwapOut(Mach(c, k, 10, ip, a, b, 7, mem)) = Mach(c, k, 13, ip, a, b, 7, out)
                  /\ SwapLeft(mem, k, out)
<1>1. PICK m : m = Mach(c, k, 10, ip, a, b, 7, mem) /\ m.cpu.rbx = b /\ m.cpu.rbp = 7
  BY MachFields
<1>2. PICK w : w = <<ScheduleAddress, b, 7>>
  OBVIOUS
<1>3. PICK s : s = SubSeq(mem[k], 1, 10) \o w
  OBVIOUS
<1>4. PICK out : out = OnTop(mem, k, 10, w)
  OBVIOUS
<1>5. SwapOut(m) = Mach(c, k, 13, ip, a, b, 7, out)
  <2>1. SwapOut(m) = Push(m, w)
    BY <1>1, <1>2 DEF SwapOut
  <2>2. Push(m, w) = Mach(c, k, 10 + Len(w), ip, a, b, 7, out)
    BY <1>1, <1>4, PushIs
  <2>3. 10 + Len(w) = 13
    BY <1>2
  <2> QED BY <2>1, <2>2, <2>3
<1>6. w \in Seq(Int) /\ Len(w) = 3 /\ w[1] = ScheduleAddress /\ w[3] = 7
  BY <1>2 DEF ScheduleAddress, IsWord
<1>7. PICK r : r = SubSeq(mem[k], 1, 10)
  OBVIOUS
<1>8. r \in Seq(Int) /\ Len(r) = 10 /\ \A i \in 1 .. 10 : r[i] = mem[k][i]
  <2>1. PICK z, one, ten : z = mem[k] /\ one = 1 /\ ten = 10
    OBVIOUS
  <2>2. z \in Seq(Int) /\ \A i \in 1 .. 10 : z[i] \in Int
    <3>1. z \in Seq(Int) /\ Len(z) >= 10
      BY <2>1
    <3>2. \A i \in 1 .. 10 : i \in 1 .. Len(z)
      BY <3>1, LenProperties
    <3> QED BY <3>1, <3>2, LenProperties
  <2>3. /\ SubSeq(z, one, ten) \in Seq(Int)
        /\ Len(SubSeq(z, one, ten)) = IF one <= ten THEN ten - one + 1 ELSE 0
        /\ \A i \in 1 .. ten - one + 1 : SubSeq(z, one, ten)[i] = z[one + i - 1]
    <3>1. one \in Int /\ ten \in Int /\ \A i \in one .. ten : z[i] \in Int
      BY <2>1, <2>2
    <3> QED BY <3>1, SubSeqProperties
  <2>4. r = SubSeq(z, one, ten)
    BY <1>7, <2>1
  <2>5. Len(r) = 10 /\ \A i \in 1 .. 10 : r[i] = z[one + i - 1]
    BY <2>1, <2>3, <2>4
  <2>6. \A i \in 1 .. 10 : one + i - 1 = i
    BY <2>1
  <2> QED BY <2>1, <2>3, <2>4, <2>5, <2>6
<1>9. s \in Seq(Int) /\ SwappedLayout(s) /\ \A i \in 1 .. 10 : s[i] = mem[k][i]
  <2>1. /\ s \in Seq(Int) /\ Len(s) = Len(r) + Len(w)
        /\ \A i \in 1 .. Len(r) + Len(w) : s[i] = IF i <= Len(r) THEN r[i] ELSE w[i - Len(r)]
    <3>1. s = r \o w /\ r \in Seq(Int) /\ w \in Seq(Int)
      BY <1>3, <1>6, <1>7, <1>8
    <3> QED BY <3>1, ConcatProperties
  <2>2. Len(s) = 13 /\ \A i \in 1 .. 13 : s[i] = IF i <= 10 THEN r[i] ELSE w[i - 10]
    <3>1. Len(r) = 10 /\ Len(w) = 3
      BY <1>6, <1>8
    <3> QED BY <2>1, <3>1
  <2>3. s[11] = w[1] /\ s[13] = w[3]
    BY <2>2
  <2>4. \A i \in 1 .. 10 : s[i] = r[i]
    <3>1. \A i \in 1 .. 10 : i \in 1 .. 13 /\ i <= 10
      OBVIOUS
    <3> QED BY <2>2, <3>1
  <2> QED BY <1>6, <1>8, <2>1, <2>2, <2>3, <2>4 DEF SwappedLayout
<1>10. /\ out \in [Page \cup {NULL} -> Seq(Int)] /\ out[k] = s
      /\ \A x \in Page \cup {NULL} : x # k => out[x] = mem[x]
  BY <1>3, <1>4, <1>9 DEF OnTop
<1>11. SwapLeft(mem, k, out)
  BY <1>9, <1>10 DEF SwapLeft
<1> QED BY <1>1, <1>5, <1>11
-----------------------------------------------------------------------------
(***************************************************************************)
(* The end of a handler, whoever runs behind it.                           *)
(***************************************************************************)

\* The processes whose stacks count: the idle one, and those that are alive.
Here(p) == p = Idle \/ Live(p)

\* They are the slots with a pid whose process has not ended.
LEMMA HereAre ==
  ASSUME Running
  PROVE  /\ current_process \in Slot /\ Here(current_process)
         /\ \A p \in Slot : /\ Here(p) <=> p = Idle \/ (pid[p] # 0 /\ p \notin kill_list)
                            /\ Here(p) => p \in UsedSlots
<1>1. ASSUME NEW p \in Slot
      PROVE  /\ Here(p) <=> p = Idle \/ (pid[p] # 0 /\ p \notin kill_list)
             /\ Here(p) => p \in UsedSlots
  <2>1. state[p] \in States /\ state[p] # "INIT"
    BY DEF Running, IInv, TypeOK, NoneHalfMade
  <2>2. p # Idle => (pid[p] = 0 <=> state[p] = "UNUSED") /\ (state[p] = "KILLED" <=> p \in kill_list)
    BY DEF Running, IInv, SlotsOK, ListsMatchStates
  <2>3. Idle \in UsedSlots
    BY UsedAre DEF Running
  <2> QED BY <2>1, <2>2, <2>3 DEF Here, Live, States, UsedSlots
<1>2. current_process \in Slot /\ Here(current_process)
  <2>1. IInv
    BY DEF Running
  <2>2. /\ current_process \in Slot
        /\ current_process # Idle => state[current_process] = "RUNNING"
    BY <2>1, ConstantsAssumption, CurrentRuns
  <2> QED BY <2>2 DEF Here, Live
<1> QED BY <1>1, <1>2

\* The same behind a step.
LEMMA HereAreNext ==
  ASSUME Running'
  PROVE  /\ current_process' \in Slot /\ Here(current_process)'
         /\ \A p \in Slot : Here(p)' <=> p = Idle \/ (pid'[p] # 0 /\ p \notin kill_list')
<1>1. ASSUME NEW p \in Slot
      PROVE  Here(p)' <=> p = Idle \/ (pid'[p] # 0 /\ p \notin kill_list')
  <2>1. state'[p] \in States /\ state'[p] # "INIT"
    BY DEF Running, IInv, TypeOK, NoneHalfMade
  <2>2. p # Idle => (pid'[p] = 0 <=> state'[p] = "UNUSED") /\ (state'[p] = "KILLED" <=> p \in kill_list')
    BY DEF Running, IInv, SlotsOK, ListsMatchStates
  <2> QED BY <2>1, <2>2 DEF Here, Live, States
<1>2. current_process' \in Slot /\ Here(current_process)'
  <2>1. /\ current_process' \in Slot
        /\ current_process' # Idle => state'[current_process'] = "RUNNING"
    BY DEF Running, IInv, TypeOK, ListsMatchStates
  <2> QED BY <2>1 DEF Here, Live
<1> QED BY <1>1, <1>2

\* Only the first ten words matter for the registers and the call.
LEMMA SameWords ==
  ASSUME NEW s, NEW t, \A i \in 1 .. 10 : t[i] = s[i], NEW p, NEW regs, NEW frame
  PROVE  /\ HoldsRegisters(s, p, regs, frame) => HoldsRegisters(t, p, regs, frame)
         /\ HoldsCall(s, frame) => HoldsCall(t, frame)
<1>1. /\ t[1] = s[1] /\ t[2] = s[2] /\ t[4] = s[4] /\ t[5] = s[5] /\ t[6] = s[6]
      /\ t[8] = s[8] /\ t[9] = s[9] /\ t[10] = s[10]
  OBVIOUS
<1> QED BY <1>1 DEF HoldsRegisters, HoldsCall

\* A handler that works on the stacks mem has changed only its own, those of
\* the slots X, and those that nobody uses behind it.
Touches(mem, X) ==
  /\ mem \in [Page \cup {NULL} -> Seq(Int)]
  /\ Len(mem[stack[current_process]]) >= 10
  /\ \A p \in Slot \ ({current_process} \cup X) : Here(p)' => mem[stack[p]] = kmem[stack[p]]

\* Nothing else of the other processes that are there behind the step has changed.
OthersKept(X) ==
  /\ mine' \in [Slot -> Registers] /\ FramesOK'
  /\ stack'[current_process] = stack[current_process]
  /\ \A p \in Slot \ ({current_process} \cup X) : Here(p)' =>
       /\ Here(p)
       /\ stack'[p] = stack[p] /\ mine'[p] = mine[p] /\ kstack'[p] = kstack[p]

\* A process of X is parked well on the stacks mem.
ParkedIn(mem, p) ==
  /\ context'[p] = [stk |-> stack'[p], rsp |-> Len(mem[stack'[p]])]
  /\ HoldsRegisters(mem[stack'[p]], p, mine'[p], kstack'[p])
  /\ FreshLayout(mem[stack'[p]]) /\ kstack'[p] = UserFrame

\* All of X that are there are.
NewParked(mem, X, k) ==
  \A q \in X : Here(q)' => ParkedIn(mem, q) /\ stack'[q] \in (Page \cup {NULL}) \ {k}

\* Nobody but X gets another context.
ContextsKept(X) ==
  /\ context' \in [Slot -> [stk : Page \cup {NULL}, rsp : Nat]]
  /\ \A q \in Slot \ X : context'[q] = context[q]

\* A process that is not touched stays parked as it is.
LEMMA StaysParked ==
  ASSUME NEW p, ParkedWell(p), kmem'[stack'[p]] = kmem[stack[p]], context'[p] = context[p],
         stack'[p] = stack[p], mine'[p] = mine[p], kstack'[p] = kstack[p]
  PROVE  ParkedWell(p)'
BY DEF ParkedWell

\* The registers of a process outside the kernel are registers.
LEMMA OutsideType ==
  ASSUME NEW p, NEW regs \in Registers
  PROVE  Outside(Cs(p), regs) \in [cs : Int, stk : Page \cup {NULL}, rsp : Nat, rip : Int,
                                   rax : Int, rbx : Int, rbp : Int]
BY DEF Outside, Registers, Cs, Ring0, Ring3

\* Emptied stacks are stacks.
OnlyAt(mem, k, out) ==
  /\ out \in [Page \cup {NULL} -> Seq(Int)]
  /\ \A x \in Page \cup {NULL} : x # k => out[x] = mem[x]
Stacks(mem) == mem \in [Page \cup {NULL} -> Seq(Int)]

\* They differ from what they were in one stack.
LEMMA EmptiedType ==
  ASSUME NEW mem, Stacks(mem), NEW k
  PROVE  OnlyAt(mem, k, Emptied(mem, k))
<1>1. <<>> \in Seq(Int)
  OBVIOUS
<1> QED BY <1>1 DEF Emptied, OnlyAt, Stacks

\* A handler that returns to its caller.
LEMMA BackStep ==
  ASSUME Running, Sound(heap), Running', WordsInv, NEW X, OthersKept(X),
         UNCHANGED current_process, ContextsKept(X),
         NEW ip, NEW a, NEW b, NEW mem, Touches(mem, X),
         NEW k, k = stack[current_process],
         Becomes(TrapReturn(Leave(Mach(Ring0, k, 10, ip, a, b, 7, mem)))),
         kstack'[current_process].at = "user",
         HoldsRegisters(mem[k], current_process, mine'[current_process], UserFrame),
         NewParked(mem, X, k)
  PROVE  WordsInv'
<1>1. PICK p : p = current_process /\ p = current_process' /\ p \in Slot /\ p \in UsedSlots
  BY HereAre
<1>2. PICK regs \in Registers : regs = mine'[p]
  BY <1>1 DEF OthersKept
<1>3. cpu' = Outside(Cs(p), regs) /\ kmem' = Emptied(mem, k)
  <2>1. mem[k] \in Seq(Int) /\ Len(mem[k]) >= 10 /\ (p = Idle => k = NULL)
    BY <1>1, StackTypes DEF Touches
  <2>2. HoldsRegisters(mem[k], p, regs, UserFrame)
    BY <1>1, <1>2
  <2>3. PICK m : m = TrapReturn(Leave(Mach(Ring0, k, 10, ip, a, b, 7, mem)))
    OBVIOUS
  <2>4. OutOn(m, p, regs, mem, k)
    BY <2>1, <2>2, <2>3, HandlerReturns
  <2> QED BY <2>3, <2>4 DEF OutOn, Becomes
<1>4. /\ kmem' \in [Page \cup {NULL} -> Seq(Int)]
      /\ \A x \in Page \cup {NULL} : x # k => kmem'[x] = mem[x]
  <2>1. Stacks(mem)
    BY DEF Touches, Stacks
  <2>2. OnlyAt(mem, k, kmem')
    BY <1>3, <2>1, EmptiedType
  <2> QED BY <2>2 DEF OnlyAt
<1>5. CTypes'
  <2>1. cpu' \in [cs : Int, stk : Page \cup {NULL}, rsp : Nat, rip : Int, rax : Int, rbx : Int, rbp : Int]
    BY <1>3, OutsideType
  <2> QED BY <1>4, <2>1 DEF CTypes, OthersKept, ContextsKept
<1>6. RunsWell'
  BY <1>1, <1>2, <1>3 DEF RunsWell
<1>7. ASSUME NEW q \in Slot \ {p}, Here(q)', q \notin X  PROVE ParkedWell(q)'
  <2>1. /\ Here(q) /\ q \in UsedSlots /\ ParkedWell(q)
        /\ stack'[q] = stack[q] /\ mine'[q] = mine[q] /\ kstack'[q] = kstack[q]
    BY <1>1, <1>7, HereAre DEF OthersKept, WordsInv, Here
  <2>2. stack[q] # k /\ stack[q] \in Page \cup {NULL}
    BY <1>1, <2>1, StackTypes, StacksApart
  <2>3. kmem'[stack'[q]] = kmem[stack[q]]
    BY <1>1, <1>4, <1>7, <2>1, <2>2 DEF Touches
  <2>4. context'[q] = context[q]
    BY <1>7 DEF ContextsKept
  <2> QED BY <2>1, <2>3, <2>4, StaysParked
<1>8. ASSUME NEW q \in Slot \ {p}, Here(q)', q \in X  PROVE ParkedWell(q)'
  <2>1. ParkedIn(mem, q) /\ stack'[q] \in Page \cup {NULL} /\ stack'[q] # k
    BY <1>8 DEF NewParked
  <2>2. kmem'[stack'[q]] = mem[stack'[q]]
    BY <1>4, <2>1
  <2> QED BY <2>1, <2>2 DEF ParkedIn, ParkedWell
<1> QED BY <1>1, <1>5, <1>6, <1>7, <1>8 DEF WordsInv, Here, OthersKept
\* A handler that has called schedule(), and comes back on another stack.
LEMMA AwayStep ==
  ASSUME Running, Sound(heap), Running', WordsInv, OthersKept({}),
         current_process' # current_process,
         NEW ip, NEW a, NEW b, IsWord(ip), IsWord(a), IsWord(b), NEW mem, Touches(mem, {}),
         NEW k, k = stack[current_process],
         switch_process(Mach(Ring0, k, 10, ip, a, b, 7, mem)),
         NEW p, p = current_process,
         Here(p)' => HoldsRegisters(mem[k], p, mine'[p], kstack'[p]) /\ HoldsCall(mem[k], kstack'[p])
  PROVE  WordsInv'
<1>1. p \in Slot /\ p \in UsedSlots
  BY HereAre
<1>2. PICK q : q = current_process' /\ q \in Slot /\ q # p
  BY <1>1, HereAreNext
<1>3. /\ Here(q) /\ q \in UsedSlots /\ ParkedWell(q)
      /\ stack'[q] = stack[q] /\ mine'[q] = mine[q] /\ kstack'[q] = kstack[q]
  <2>1. Here(q)'
    BY <1>2, HereAreNext
  <2>2. Here(q) /\ stack'[q] = stack[q] /\ mine'[q] = mine[q] /\ kstack'[q] = kstack[q]
    BY <1>1, <1>2, <2>1 DEF OthersKept
  <2>3. ParkedWell(q)
    BY <1>1, <1>2, <2>2 DEF WordsInv, Here
  <2> QED BY <1>2, <2>2, <2>3, HereAre
<1>4. PICK t : t = stack[q] /\ t # k /\ t \in Page \cup {NULL} /\ k \in Page \cup {NULL}
  BY <1>1, <1>2, <1>3, StackTypes, StacksApart
<1>5. PICK out : /\ SwapOut(Mach(Ring0, k, 10, ip, a, b, 7, mem)) = Mach(Ring0, k, 13, ip, a, b, 7, out)
                 /\ out \in [Page \cup {NULL} -> Seq(Int)]
                 /\ \A x \in Page \cup {NULL} : x # k => out[x] = mem[x]
                 /\ SwappedLayout(out[k])
                 /\ \A i \in 1 .. 10 : out[k][i] = mem[k][i]
  <2>1. mem \in [Page \cup {NULL} -> Seq(Int)] /\ Len(mem[k]) >= 10
    BY DEF Touches
  <2>2. PICK out : /\ SwapOut(Mach(Ring0, k, 10, ip, a, b, 7, mem)) = Mach(Ring0, k, 13, ip, a, b, 7, out)
                   /\ SwapLeft(mem, k, out)
    BY <1>4, <2>1, SwapLeaves, ZenonT(60)
  <2> QED BY <2>2, Zenon DEF SwapLeft
<1>6. out[t] = kmem[t]
  <2>1. Here(q)'
    BY <1>2, HereAreNext
  <2> QED BY <1>1, <1>2, <1>4, <1>5, <2>1 DEF Touches
<1>7. PICK m : /\ m = Mach(Ring0, k, 10, ip, a, b, 7, mem) /\ m.cpu.stk = k
               /\ SwapOut(m).cpu.rsp = 13
  <2>1. PICK m1 : m1 = Mach(Ring0, k, 13, ip, a, b, 7, out)
    OBVIOUS
  <2>2. m1.cpu.rsp = 13
    BY <2>1, MachFields
  <2>3. PICK m : m = Mach(Ring0, k, 10, ip, a, b, 7, mem)
    OBVIOUS
  <2>4. m.cpu.stk = k
    BY <2>3, MachFields
  <2>5. SwapOut(m) = m1
    BY <1>5, <2>1, <2>3, Zenon
  <2> QED BY <2>2, <2>3, <2>4, <2>5
<1>8. context' = [context EXCEPT ![p] = [stk |-> k, rsp |-> 13]]
  BY <1>1, <1>7 DEF switch_process
<1>9. PICK r : r = Resumes(Mach(Ring0, k, 13, ip, a, b, 7, out), context[q]) /\ cpu' = r.cpu /\ kmem' = r.mem
  BY <1>2, <1>5 DEF switch_process, Becomes
<1>10. IF kstack[q].at = "user" THEN OutOn(r, q, mine[q], out, t)
       ELSE r = Mach(Ring0, t, 10, ip, a, out[t][12], 7, out)
  BY <1>3, <1>4, <1>6, <1>9, SwapReturns DEF WordsInv
<1>11. \A x \in Page \cup {NULL} : x # t => kmem'[x] = out[x]
  <2>1. CASE kstack[q].at = "user"
    BY <1>5, <1>9, <1>10, <2>1 DEF OutOn, Emptied
  <2>2. CASE kstack[q].at # "user"
    BY <1>9, <1>10, <2>2, MachFields
  <2> QED BY <2>1, <2>2
<1>12. CTypes' /\ RunsWell'
  <2>1. context' \in [Slot -> [stk : Page \cup {NULL}, rsp : Nat]] /\ mine' \in [Slot -> Registers]
    BY <1>1, <1>4, <1>8 DEF WordsInv, CTypes, OthersKept
  <2>2. mine[q] \in Registers
    BY <1>2 DEF WordsInv, CTypes
  <2>3. CASE kstack[q].at = "user"
    <3>1. cpu' = Outside(Cs(q), mine[q]) /\ kmem' = Emptied(out, t)
      BY <1>9, <1>10, <2>3 DEF OutOn
    <3>2. kmem' \in [Page \cup {NULL} -> Seq(Int)]
      <4>1. Stacks(out)
        BY <1>5 DEF Stacks
      <4>2. OnlyAt(out, t, kmem')
        BY <3>1, <4>1, EmptiedType
      <4> QED BY <4>2 DEF OnlyAt
    <3>3. cpu' \in [cs : Int, stk : Page \cup {NULL}, rsp : Nat, rip : Int, rax : Int, rbx : Int, rbp : Int]
      BY <2>2, <3>1, OutsideType
    <3>4. RunsWell'
      BY <1>2, <1>3, <2>3, <3>1 DEF RunsWell
    <3> QED BY <2>1, <3>2, <3>3, <3>4 DEF CTypes
  <2>4. CASE kstack[q].at # "user"
    <3>1. PICK x : x = out[t][12]
      OBVIOUS
    <3>2. kmem' = out /\ r = Mach(Ring0, t, 10, ip, a, x, 7, out)
      BY <1>9, <1>10, <2>4, <3>1, MachFields
    <3>3. cpu' = [cs |-> Ring0, stk |-> t, rsp |-> 10, rip |-> ip, rax |-> a, rbx |-> x, rbp |-> 7]
      BY <1>9, <3>2 DEF Mach
    <3>4. /\ SwappedLayout(out[t]) /\ HoldsCall(out[t], kstack[q])
          /\ HoldsRegisters(out[t], q, mine[q], kstack[q])
      BY <1>3, <1>4, <1>6, <2>4 DEF ParkedWell, UserFrame
    <3>5. Len(out[t]) >= 10 /\ x \in Int
      <4>1. out[t] \in Seq(Int) /\ Len(out[t]) = 13
        BY <1>4, <1>5, <3>4 DEF SwappedLayout
      <4>2. 12 \in 1 .. Len(out[t])
        BY <4>1
      <4>3. out[t][12] \in Int
        BY <4>1, <4>2, LenProperties
      <4> QED BY <3>1, <4>1, <4>3
    <3>6. cpu' \in [cs : Int, stk : Page \cup {NULL}, rsp : Nat, rip : Int, rax : Int, rbx : Int, rbp : Int]
      BY <1>4, <3>3, <3>5 DEF Ring0, IsWord
    <3>7. RunsWell'
      <4>1. cpu'.cs = Ring0 /\ cpu'.stk = t /\ cpu'.rsp = 10 /\ cpu'.rbp = 7
        BY <3>3
      <4> QED BY <1>2, <1>3, <1>4, <2>4, <3>2, <3>4, <3>5, <4>1 DEF RunsWell
    <3> QED BY <1>5, <2>1, <3>2, <3>6, <3>7 DEF CTypes
  <2> QED BY <2>3, <2>4
<1>13. ASSUME Here(p)'  PROVE ParkedWell(p)'
  <2>1. kmem'[stack'[p]] = out[k] /\ stack'[p] = k
    BY <1>1, <1>4, <1>11 DEF OthersKept
  <2>2. context'[p] = [stk |-> k, rsp |-> 13] /\ Len(out[k]) = 13
    BY <1>1, <1>5, <1>8 DEF WordsInv, CTypes, SwappedLayout
  <2>3. HoldsRegisters(mem[k], p, mine'[p], kstack'[p]) /\ HoldsCall(mem[k], kstack'[p])
    BY <1>13
  <2>4. HoldsRegisters(out[k], p, mine'[p], kstack'[p]) /\ HoldsCall(out[k], kstack'[p])
    BY <1>5, <2>3, SameWords
  <2> QED BY <1>5, <2>1, <2>2, <2>4 DEF ParkedWell
<1>14. ASSUME NEW x \in Slot \ {p, q}, Here(x)'  PROVE ParkedWell(x)'
  <2>1. /\ Here(x) /\ x \in UsedSlots /\ ParkedWell(x)
        /\ stack'[x] = stack[x] /\ mine'[x] = mine[x] /\ kstack'[x] = kstack[x]
    BY <1>1, <1>14, HereAre DEF OthersKept, WordsInv, Here
  <2>2. stack[x] # k /\ stack[x] # t /\ stack[x] \in Page \cup {NULL}
    BY <1>1, <1>3, <1>4, <1>14, <2>1, StackTypes, StacksApart
  <2>3. kmem'[stack'[x]] = kmem[stack[x]]
    <3>1. mem[stack[x]] = kmem[stack[x]]
      BY <1>14 DEF Touches
    <3>2. kmem'[stack[x]] = out[stack[x]] /\ out[stack[x]] = mem[stack[x]]
      BY <1>5, <1>11, <2>2
    <3> QED BY <2>1, <3>1, <3>2
  <2>4. context'[x] = context[x]
    BY <1>8, <1>14 DEF WordsInv, CTypes
  <2> QED BY <2>1, <2>3, <2>4, StaysParked
<1> QED BY <1>1, <1>2, <1>12, <1>13, <1>14 DEF WordsInv, Here, OthersKept
-----------------------------------------------------------------------------
(***************************************************************************)
(* The steps.                                                              *)
(***************************************************************************)

\* The registers of the process that runs, and where they are.
LEMMA OwnRegisters ==
  ASSUME Running, WordsInv
  PROVE  /\ mine[current_process] \in Registers
         /\ mine[current_process].rip \in Int /\ mine[current_process].rax \in Int
         /\ mine[current_process].rbx \in Int /\ mine[current_process].rbp = 0
         /\ stack[current_process] \in Page \cup {NULL}
<1>1. current_process \in Slot /\ current_process \in UsedSlots
  BY HereAre
<1>2. mine[current_process] \in Registers
  BY <1>1 DEF WordsInv, CTypes
<1> QED BY <1>1, <1>2, StackTypes DEF Registers

\* mine' where only the registers of the process that runs change.
LEMMA MustFindType ==
  ASSUME Running, WordsInv, NEW regs \in Registers, MustFind(regs)
  PROVE  /\ mine' \in [Slot -> Registers] /\ mine'[current_process] = regs
         /\ \A q \in Slot : q # current_process => mine'[q] = mine[q]
<1>1. current_process \in Slot /\ mine \in [Slot -> Registers]
  BY HereAre DEF WordsInv, CTypes
<1> QED BY <1>1 DEF MustFind

\* The result of a system call in a process' own registers.
Returns(regs, ip, v, new) == new = [regs EXCEPT !.rip = ip, !.rax = v]

\* Only rip and rax change.
LEMMA OwnResult ==
  ASSUME NEW regs \in Registers, NEW ip, NEW v, IsWord(ip), IsWord(v),
         NEW new, Returns(regs, ip, v, new)
  PROVE  /\ new \in Registers
         /\ new.rip = ip /\ new.rax = v /\ new.rbx = regs.rbx /\ new.rbp = regs.rbp
<1>1. PICK one : one = [regs EXCEPT !.rip = ip]
  OBVIOUS
<1>2. one \in Registers /\ one.rip = ip /\ one.rbx = regs.rbx /\ one.rbp = regs.rbp
  BY <1>1 DEF Registers, IsWord
<1>3. new = [one EXCEPT !.rax = v]
  BY <1>1, Zenon DEF Returns
<1> QED BY <1>2, <1>3 DEF Registers, IsWord

\* Where only the process that runs and the lists change.
LEMMA OthersAre ==
  ASSUME Running, Running', WordsInv, UNCHANGED <<kstack, stack, pid>>, kill_list \subseteq kill_list',
         mine' \in [Slot -> Registers], \A q \in Slot : q # current_process => mine'[q] = mine[q]
  PROVE  OthersKept({})
<1>1. \A q \in Slot : Here(q)' => Here(q)
  BY HereAre, HereAreNext
<1>2. FramesOK'
  BY DEF FramesOK, WordsInv
<1> QED BY <1>1, <1>2 DEF OthersKept

\* A trap touches only the stack it is taken on.
LEMMA EnteredTouches ==
  ASSUME Running, Sound(heap), NEW X, NEW regs, NEW trapno, NEW fr, NEW mem,
         Entered(current_process, regs, trapno, fr, mem),
         \A q \in Slot \ ({current_process} \cup X) : Here(q)' => Here(q)
  PROVE  Touches(mem, X)
<1>1. current_process \in UsedSlots
  BY HereAre
<1>2. ASSUME NEW q \in Slot \ ({current_process} \cup X), Here(q)'
      PROVE  mem[stack[q]] = kmem[stack[q]]
  <2>1. q \in UsedSlots /\ q # current_process
    BY <1>2, HereAre
  <2>2. stack[q] # stack[current_process] /\ stack[q] \in Page \cup {NULL}
    BY <1>1, <2>1, StackTypes, StacksApart
  <2> QED BY <2>2 DEF Entered
<1>3. mem \in [Page \cup {NULL} -> Seq(Int)] /\ Len(mem[stack[current_process]]) >= 10
  BY DEF Entered
<1> QED BY <1>2, <1>3 DEF Touches

\* What writing the result v does.
ResultAt(mem, k, v, out) ==
  /\ out \in [Page \cup {NULL} -> Seq(Int)]
  /\ \A x \in Page \cup {NULL} : x # k => out[x] = mem[x]
  /\ Len(out[k]) = Len(mem[k])
  /\ out[k][4] = v
  /\ \A i \in 1 .. 10 : i # 4 => out[k][i] = mem[k][i]

\* It is done by Result().
LEMMA ResultHolds ==
  ASSUME NEW mem \in [Page \cup {NULL} -> Seq(Int)], NEW k \in Page \cup {NULL}, Len(mem[k]) >= 10,
         NEW v, IsWord(v)
  PROVE  ResultAt(mem, k, v, WithResult(mem, k, v))
<1>1. PICK s : s = mem[k] /\ s \in Seq(Int) /\ Len(s) >= 10
  OBVIOUS
<1>2. PICK t : t = [s EXCEPT ![4] = v]
  OBVIOUS
<1>3. \A i \in 1 .. 10 : i \in DOMAIN s
  <2>1. Len(s) \in Nat /\ DOMAIN s = 1 .. Len(s)
    BY <1>1, LenProperties
  <2> QED BY <1>1, <2>1
<1>4. t \in Seq(Int) /\ Len(t) = Len(s)
  <2>1. Len(s) \in Nat
    BY <1>1, LenProperties
  <2>2. 4 \in 1 .. Len(s)
    BY <1>1, <2>1
  <2> QED BY <1>1, <1>2, <2>2, ExceptSeq DEF IsWord
<1>5. t[4] = v
  <2>1. 4 \in DOMAIN s
    BY <1>3
  <2> QED BY <1>2, <2>1
<1>6. \A i \in 1 .. 10 : i # 4 => t[i] = s[i]
  <2>1. \A i \in DOMAIN s : i # 4 => t[i] = s[i]
    BY <1>2
  <2> QED BY <1>3, <2>1
<1>7. PICK out : out = WithResult(mem, k, v) /\ out = [mem EXCEPT ![k] = t]
  BY <1>1, <1>2 DEF WithResult
<1>8. /\ out \in [Page \cup {NULL} -> Seq(Int)] /\ out[k] = t
      /\ \A x \in Page \cup {NULL} : x # k => out[x] = mem[x]
  BY <1>4, <1>7
<1>9. ResultAt(mem, k, v, out)
  BY <1>1, <1>4, <1>5, <1>6, <1>8 DEF ResultAt
<1> QED BY <1>7, <1>9

\* So the trap frame brings the process back with that result.
LEMMA ResultRegisters ==
  ASSUME NEW mem, NEW k, NEW v, NEW out, ResultAt(mem, k, v, out), NEW p, NEW regs, v = regs.rax,
         mem[k][1] = Cs(p), mem[k][2] = regs.rip, mem[k][5] = regs.rbx, mem[k][6] = regs.rbp
  PROVE  HoldsRegisters(out[k], p, regs, UserFrame)
<1>1. PICK s, t : s = mem[k] /\ t = out[k]
  OBVIOUS
<1>2. t[1] = s[1] /\ t[2] = s[2] /\ t[4] = v /\ t[5] = s[5] /\ t[6] = s[6]
  <2>1. t[4] = v /\ \A i \in 1 .. 10 : i # 4 => t[i] = s[i]
    BY <1>1 DEF ResultAt
  <2> QED BY <2>1
<1> QED BY <1>1, <1>2 DEF HoldsRegisters, UserFrame

\* A handler that writes on its own stack does not touch the other stacks.
LEMMA TouchesOwn ==
  ASSUME Running, Sound(heap), NEW X, NEW mem, Touches(mem, X), NEW k, k = stack[current_process],
         NEW out, OnlyAt(mem, k, out), Len(out[k]) >= 10,
         \A q \in Slot \ ({current_process} \cup X) : Here(q)' => Here(q)
  PROVE  Touches(out, X)
<1>1. current_process \in UsedSlots
  BY HereAre
<1>2. /\ out \in [Page \cup {NULL} -> Seq(Int)]
      /\ \A x \in Page \cup {NULL} : x # k => out[x] = mem[x]
  BY DEF OnlyAt
<1>3. ASSUME NEW q \in Slot \ ({current_process} \cup X), Here(q)'
      PROVE  out[stack[q]] = kmem[stack[q]]
  <2>1. q \in UsedSlots /\ q # current_process
    BY <1>3, HereAre
  <2>2. stack[q] # k /\ stack[q] \in Page \cup {NULL}
    BY <1>1, <2>1, StackTypes, StacksApart
  <2> QED BY <1>2, <1>3, <2>2 DEF Touches
<1> QED BY <1>2, <1>3 DEF Touches

\* A program at work changes its registers only.
LEMMA UserWords ==
  ASSUME Running, Running', WordsInv, UserWorks
  PROVE  WordsInv'
<1>1. PICK p : p = current_process /\ p \in Slot /\ kstack[p].at = "user"
  BY HereAre DEF UserWorks, InSyscall, UserMode
<1>2. PICK regs : regs = [rip |-> 1, rax |-> 1, rbx |-> pid[p], rbp |-> 0]
  OBVIOUS
<1>3. pid[p] \in Int
  BY <1>1 DEF Running, IInv, TypeOK
<1>4. regs \in Registers /\ MustFind(regs)
  BY <1>1, <1>2, <1>3 DEF Registers, UserWorks
<1>5. /\ mine' \in [Slot -> Registers] /\ mine'[p] = regs
      /\ \A q \in Slot : q # p => mine'[q] = mine[q]
  BY <1>1, <1>4, MustFindType
<1>6. UNCHANGED <<state, kstack, current_process, stack, kmem, context>>
  BY DEF UserWorks, mvars, vars, memvars
<1>7. cpu' = Outside(Cs(p), regs)
  <2>1. PICK c, own : c = Cs(p) /\ own = mine[p] /\ cpu = Outside(c, own) /\ own.rbp = 0
    BY <1>1, OwnRegisters DEF WordsInv, RunsWell
  <2>2. PICK n : n = pid[p]
    OBVIOUS
  <2>3. PICK one : one = [cpu EXCEPT !.rip = 1]
    OBVIOUS
  <2>4. one = [cs |-> c, stk |-> NULL, rsp |-> 0, rip |-> 1, rax |-> own.rax, rbx |-> own.rbx, rbp |-> own.rbp]
    BY <2>1, <2>3 DEF Outside
  <2>5. PICK two : two = [one EXCEPT !.rax = 1]
    OBVIOUS
  <2>6. two = [cs |-> c, stk |-> NULL, rsp |-> 0, rip |-> 1, rax |-> 1, rbx |-> own.rbx, rbp |-> own.rbp]
    BY <2>4, <2>5
  <2>7. [two EXCEPT !.rbx = n]
          = [cs |-> c, stk |-> NULL, rsp |-> 0, rip |-> 1, rax |-> 1, rbx |-> n, rbp |-> own.rbp]
    BY <2>6
  <2>8. cpu' = [two EXCEPT !.rbx = n]
    BY <1>1, <2>2, <2>3, <2>5, Zenon DEF UserWorks
  <2> QED BY <1>2, <2>1, <2>2, <2>7, <2>8 DEF Outside
<1>8. CTypes'
  <2>1. cpu' \in [cs : Int, stk : Page \cup {NULL}, rsp : Nat, rip : Int, rax : Int, rbx : Int, rbp : Int]
    BY <1>4, <1>7, OutsideType
  <2> QED BY <1>5, <1>6, <2>1 DEF CTypes, WordsInv
<1>9. RunsWell'
  BY <1>1, <1>5, <1>6, <1>7 DEF RunsWell
<1>10. FramesOK'
  BY <1>6 DEF FramesOK, WordsInv
<1>11. ASSUME NEW q \in Slot \ {p}, Here(q)'  PROVE ParkedWell(q)'
  <2>1. ParkedWell(q)
    BY <1>1, <1>6, <1>11 DEF Here, Live, WordsInv
  <2> QED BY <1>5, <1>6, <1>11, <2>1, StaysParked
<1> QED BY <1>1, <1>6, <1>8, <1>9, <1>10, <1>11 DEF WordsInv, Here

\* The timer.
LEMMA TimerWords ==
  ASSUME Running, Sound(heap), Running', WordsInv, CTimer
  PROVE  WordsInv'
<1>1. /\ kstack[current_process].at = "user"
      /\ UNCHANGED <<kstack, pid, kill_list, stack, mine>>
  BY DEF CTimer, TimerInterrupt, UserMode, memvars
<1>2. OthersKept({})
  BY <1>1, OthersAre DEF WordsInv, CTypes
<1>3. PICK p, k, regs : p = current_process /\ k = stack[p] /\ regs = mine[p]
  OBVIOUS
<1>4. PICK ip, a, b : /\ ip = regs.rip /\ a = regs.rax /\ b = regs.rbx
                      /\ IsWord(ip) /\ IsWord(a) /\ IsWord(b)
  BY <1>3, OwnRegisters DEF IsWord
<1>5. PICK mem : /\ InKernel(32, UserFrame) = Mach(Ring0, k, 10, ip, a, b, 7, mem)
                 /\ Entered(p, regs, 32, UserFrame, mem)
  <2>1. PICK trapno \in Int : trapno = 32
    OBVIOUS
  <2>2. UserFrame \in Frame
    BY ConstantsAssumption, UserFrameType
  <2>3. PICK mem : /\ InKernel(trapno, UserFrame) = Mach(Ring0, k, 10, regs.rip, regs.rax, regs.rbx, 7, mem)
                   /\ Entered(p, regs, trapno, UserFrame, mem)
    BY <1>1, <1>3, <2>2, EntersKernel DEF WordsInv
  <2> QED BY <1>4, <2>1, <2>3
<1>6. Touches(mem, {})
  BY <1>2, <1>3, <1>5, EnteredTouches DEF OthersKept
<1>7. HoldsRegisters(mem[k], p, regs, UserFrame) /\ HoldsCall(mem[k], UserFrame)
  BY <1>3, <1>5 DEF Entered, HoldsRegisters, UserFrame, SyscallTrap
<1>8. kstack[p] = UserFrame /\ kstack'[p] = UserFrame /\ mine'[p] = regs /\ kstack'[p].at = "user"
  BY <1>1, <1>3, HereAre DEF WordsInv, FramesOK
<1>9. PICK m : m = Mach(Ring0, k, 10, ip, a, b, 7, mem) /\ HandlerEnds(m, m)
  BY <1>5 DEF CTimer
<1>10. CASE current_process' = current_process
  <2>1. Becomes(TrapReturn(Leave(m))) /\ UNCHANGED context
    BY <1>9, <1>10 DEF HandlerEnds
  <2>2. ContextsKept({}) /\ NewParked(mem, {}, k)
    BY <2>1 DEF WordsInv, CTypes, ContextsKept, NewParked
  <2>3. Becomes(TrapReturn(Leave(Mach(Ring0, k, 10, ip, a, b, 7, mem))))
    BY <1>9, <2>1
  <2>4. HoldsRegisters(mem[k], current_process, mine'[current_process], UserFrame)
    BY <1>3, <1>7, <1>8
  <2>5. kstack'[current_process].at = "user" /\ k = stack[current_process] /\ UNCHANGED current_process
    BY <1>3, <1>8, <1>10
  <2> QED BY <1>2, <1>6, <2>2, <2>3, <2>4, <2>5, BackStep
<1>11. CASE current_process' # current_process
  <2>1. switch_process(Mach(Ring0, k, 10, ip, a, b, 7, mem))
    BY <1>9, <1>11 DEF HandlerEnds
  <2>2. HoldsRegisters(mem[k], p, mine'[p], kstack'[p]) /\ HoldsCall(mem[k], kstack'[p])
    BY <1>7, <1>8
  <2> QED BY <2>2,  <1>2, <1>3, <1>4, <1>6, <1>7, <1>8, <1>9, <1>11, <2>1, AwayStep
<1> QED BY <1>10, <1>11

\* A trap of the process that runs, and a C frame for the call fr.
TrapAt(trapno, fr, k, ip, a, b, mem) ==
  /\ k = stack[current_process] /\ k \in Page \cup {NULL}
  /\ IsWord(ip) /\ IsWord(a) /\ IsWord(b)
  /\ InKernel(trapno, fr) = Mach(Ring0, k, 10, ip, a, b, 7, mem)
  /\ Entered(current_process, mine[current_process], trapno, fr, mem)

\* Every trap from user mode is one.
LEMMA TrapIs ==
  ASSUME Running, WordsInv, kstack[current_process].at = "user",
         NEW trapno, IsWord(trapno), NEW fr \in Frame
  PROVE  \E k, ip, a, b, mem : TrapAt(trapno, fr, k, ip, a, b, mem)
<1>1. PICK p, k, regs : p = current_process /\ k = stack[p] /\ regs = mine[p]
  OBVIOUS
<1>2. PICK ip, a, b : /\ ip = regs.rip /\ a = regs.rax /\ b = regs.rbx
                      /\ IsWord(ip) /\ IsWord(a) /\ IsWord(b)
  BY <1>1, OwnRegisters DEF IsWord
<1>3. PICK mem : /\ InKernel(trapno, fr) = Mach(Ring0, k, 10, ip, a, b, 7, mem)
                 /\ Entered(p, regs, trapno, fr, mem)
  <2>1. trapno \in Int
    BY DEF IsWord
  <2> QED BY <1>1, <1>2, <2>1, EntersKernel DEF WordsInv
<1>4. k \in Page \cup {NULL}
  BY <1>1, OwnRegisters
<1>5. TrapAt(trapno, fr, k, ip, a, b, mem)
  BY <1>1, <1>2, <1>3, <1>4 DEF TrapAt
<1> QED BY <1>5

\* What a trap leaves on the stack.
TrapOn(fr, k, mem) ==
  /\ mem \in [Page \cup {NULL} -> Seq(Int)] /\ Len(mem[k]) = 10
  /\ mem[k][1] = Cs(current_process) /\ mem[k][2] = 2
  /\ mem[k][5] = mine[current_process].rbx /\ mem[k][6] = mine[current_process].rbp
  /\ HoldsCall(mem[k], fr)

\* A system call returns behind its instruction.
LEMMA TrapWords ==
  ASSUME NEW fr, NEW k, NEW ip, NEW a, NEW b, NEW mem,
         TrapAt(SyscallTrap, fr, k, ip, a, b, mem)
  PROVE  TrapOn(fr, k, mem)
BY DEF TrapAt, TrapOn, Entered

\* A system call that has worked on the stacks mem and writes its result.
LEMMA ResultStep ==
  ASSUME Running, Sound(heap), Running', WordsInv, NEW X, OthersKept(X), ContextsKept(X),
         UNCHANGED current_process, kstack'[current_process].at = "user",
         \A q \in Slot \ ({current_process} \cup X) : Here(q)' => Here(q),
         NEW k, NEW ip, NEW a, NEW b, NEW mem, Touches(mem, X), k = stack[current_process],
         NEW new, NEW v, IsWord(v), new = mine'[current_process], v = new.rax,
         Becomes(TrapReturn(Leave(Result(Mach(Ring0, k, 10, ip, a, b, 7, mem), v)))),
         mem[k][1] = Cs(current_process), mem[k][2] = new.rip,
         mem[k][5] = new.rbx, mem[k][6] = new.rbp,
         \A q \in X : Here(q)' => ParkedIn(mem, q) /\ stack'[q] \in (Page \cup {NULL}) \ {k}
  PROVE  WordsInv'
<1>1. PICK out : out = WithResult(mem, k, v)
  OBVIOUS
<1>2. ResultAt(mem, k, v, out)
  <2>1. k \in Page \cup {NULL}
    BY OwnRegisters
  <2>2. mem \in [Page \cup {NULL} -> Seq(Int)] /\ Len(mem[k]) >= 10
    BY DEF Touches
  <2> QED BY <1>1, <2>1, <2>2, ResultHolds
<1>3. Touches(out, X)
  <2>1. OnlyAt(mem, k, out) /\ Len(out[k]) = Len(mem[k])
    BY <1>2 DEF ResultAt, OnlyAt
  <2>2. Len(out[k]) >= 10
    BY <2>1 DEF Touches
  <2> QED BY <2>1, <2>2, TouchesOwn
<1>4. HoldsRegisters(out[k], current_process, mine'[current_process], UserFrame)
  BY <1>2, ResultRegisters
<1>5. Becomes(TrapReturn(Leave(Mach(Ring0, k, 10, ip, a, b, 7, out))))
  BY <1>1, ResultIs
<1>6. NewParked(out, X, k)
  <2>1. \A x \in Page \cup {NULL} : x # k => out[x] = mem[x]
    BY <1>2 DEF ResultAt
  <2> QED BY <2>1 DEF NewParked, ParkedIn
<1> QED BY <1>3, <1>4, <1>5, <1>6, BackStep

\* A system call with a number out of range.
LEMMA InvalidWords ==
  ASSUME Running, Sound(heap), Running', WordsInv, SysInvalid
  PROVE  WordsInv'
<1>1. /\ kstack[current_process].at = "user"
      /\ UNCHANGED <<kstack, pid, kill_list, stack, current_process, context>>
  BY DEF SysInvalid, InSyscall, UserMode, mvars, vars, memvars
<1>2. PICK ip, v, new : ip = 2 /\ v = -1 /\ new = [Own EXCEPT !.rip = 2, !.rax = -1]
  OBVIOUS
<1>3. IsWord(ip) /\ IsWord(v)
  BY <1>2 DEF IsWord
<1>4. new \in Registers /\ new.rip = 2 /\ new.rax = v /\ new.rbx = Own.rbx /\ new.rbp = Own.rbp
  <2>1. Own \in Registers
    BY OwnRegisters DEF Own
  <2>2. Returns(Own, ip, v, new)
    BY <1>2, Zenon DEF Returns
  <2>3. new \in Registers /\ new.rip = ip /\ new.rax = v /\ new.rbx = Own.rbx /\ new.rbp = Own.rbp
    BY <1>3, <2>1, <2>2, OwnResult
  <2> QED BY <1>2, <2>3
<1>5. /\ mine' \in [Slot -> Registers] /\ mine'[current_process] = new
      /\ \A q \in Slot : q # current_process => mine'[q] = mine[q]
  <2>1. MustFind(new)
    BY <1>2 DEF SysInvalid
  <2> QED BY <1>4, <2>1, MustFindType
<1>6. OthersKept({})
  BY <1>1, <1>5, OthersAre
<1>7. ContextsKept({})
  BY <1>1 DEF ContextsKept, WordsInv, CTypes
<1>8. PICK k, a, b, old, mem : TrapAt(SyscallTrap, UserFrame, k, old, a, b, mem)
  <2>1. UserFrame \in Frame /\ IsWord(SyscallTrap)
    BY ConstantsAssumption, UserFrameType DEF IsWord, SyscallTrap
  <2> QED BY <1>1, <2>1, TrapIs
<1>9. Touches(mem, {})
  BY <1>6, <1>8, EnteredTouches DEF OthersKept, TrapAt
<1>10. Becomes(TrapReturn(Leave(Result(Mach(Ring0, k, 10, old, a, b, 7, mem), v))))
  BY <1>2, <1>8 DEF SysInvalid, TrapAt
<1>11. mem[k][1] = Cs(current_process) /\ mem[k][2] = new.rip /\ mem[k][5] = new.rbx /\ mem[k][6] = new.rbp
  BY <1>4, <1>8, TrapWords DEF Own, TrapOn
<1>12. k = stack[current_process]
  BY <1>8 DEF TrapAt
<1>13. \A q \in Slot \ ({current_process} \cup {}) : Here(q)' => Here(q)
  BY <1>6 DEF OthersKept
<1>14. new.rax = v
  BY <1>4
<1> QED BY <1>1, <1>3, <1>14, <1>5, <1>6, <1>7, <1>9, <1>10, <1>11, <1>12, <1>13, ResultStep

\* The stacks with a fresh trap frame on k, and what the program does with it.
Refreshed(mem, k) ==
  [mem EXCEPT ![k] = FreshTrapFrame \o SubSeq(@, TRAP_FRAME + 1, Len(@))]

FreshAt(mem, k, out) ==
  /\ OnlyAt(mem, k, out) /\ Len(out[k]) = 10
  /\ out[k][1] = Ring3 /\ out[k][2] = 0 /\ out[k][5] = 0 /\ out[k][6] = 0

\* exec() puts it there.
LEMMA FreshIs ==
  ASSUME NEW c, NEW k, k = stack[current_process], NEW n, NEW ip, NEW a, NEW b, NEW f, NEW mem
  PROVE  WithFreshFrame(Mach(c, k, n, ip, a, b, f, mem)) = Mach(c, k, n, ip, a, b, f, Refreshed(mem, k))
<1>1. PICK m : m = Mach(c, k, n, ip, a, b, f, mem)
  OBVIOUS
<1>2. m.mem = mem
  BY <1>1, MachFields
<1>3. PICK out : out = Refreshed(mem, k)
  OBVIOUS
<1>4. [m EXCEPT !.mem = out] = Mach(c, k, n, ip, a, b, f, out)
  BY <1>1, MachFields
<1>5. WithFreshFrame(m) = [m EXCEPT !.mem = out]
  BY <1>2, <1>3, Zenon DEF WithFreshFrame, Refreshed
<1> QED BY <1>1, <1>3, <1>4, <1>5

\* The fresh trap frame.
LEMMA FreshWords ==
  ASSUME NEW mem \in [Page \cup {NULL} -> Seq(Int)], NEW k \in Page \cup {NULL}, Len(mem[k]) = 10
  PROVE  FreshAt(mem, k, Refreshed(mem, k))
<1>1. PICK s, r, t, out :
        /\ s = mem[k] /\ s \in Seq(Int) /\ Len(s) = 10
        /\ r = SubSeq(s, 7, 10)
        /\ t = FreshTrapFrame \o r
        /\ out = Refreshed(mem, k)
  OBVIOUS
<1>2. r \in Seq(Int) /\ Len(r) = 4
  <2>1. \A i \in 7 .. 10 : s[i] \in Int
    <3>1. s \in Seq(Int) /\ Len(s) = 10
      BY <1>1
    <3>2. \A i \in 7 .. 10 : i \in 1 .. Len(s)
      BY <3>1
    <3> QED BY <3>1, <3>2, LenProperties
  <2>2. PICK lo, hi : lo = 7 /\ hi = 10
    OBVIOUS
  <2>3. SubSeq(s, lo, hi) \in Seq(Int) /\ Len(SubSeq(s, lo, hi)) = IF lo <= hi THEN hi - lo + 1 ELSE 0
    <3>1. lo \in Int /\ hi \in Int /\ \A i \in lo .. hi : s[i] \in Int
      BY <2>1, <2>2
    <3> QED BY <3>1, SubSeqProperties
  <2> QED BY <1>1, <2>2, <2>3
<1>3. PICK w : w = FreshTrapFrame /\ w = <<Ring3, 0, 0, 0, 0, 0>>
  BY DEF FreshTrapFrame
<1>4. w \in Seq(Int) /\ Len(w) = 6 /\ w[1] = Ring3 /\ w[2] = 0 /\ w[5] = 0 /\ w[6] = 0
  BY <1>3 DEF Ring3
<1>5. /\ t \in Seq(Int) /\ Len(t) = 10
      /\ t[1] = Ring3 /\ t[2] = 0 /\ t[5] = 0 /\ t[6] = 0
  <2>1. /\ t \in Seq(Int) /\ Len(t) = Len(w) + Len(r)
        /\ \A i \in 1 .. Len(w) + Len(r) : t[i] = IF i <= Len(w) THEN w[i] ELSE r[i - Len(w)]
    <3>1. t = w \o r /\ w \in Seq(Int) /\ r \in Seq(Int)
      BY <1>1, <1>2, <1>3, <1>4
    <3> QED BY <3>1, ConcatProperties
  <2>2. Len(t) = 10 /\ \A i \in 1 .. 10 : t[i] = IF i <= 6 THEN w[i] ELSE r[i - 6]
    <3>1. Len(w) = 6 /\ Len(r) = 4
      BY <1>2, <1>4
    <3> QED BY <2>1, <3>1
  <2>3. t[1] = w[1] /\ t[2] = w[2] /\ t[5] = w[5] /\ t[6] = w[6]
    BY <2>2
  <2> QED BY <1>4, <2>1, <2>2, <2>3
<1>6. out = [mem EXCEPT ![k] = t]
  <2>1. PICK lo : lo = TRAP_FRAME + 1 /\ lo = 7
    BY DEF TRAP_FRAME
  <2>2. t = FreshTrapFrame \o SubSeq(mem[k], lo, Len(mem[k]))
    BY <1>1, <2>1
  <2> QED BY <1>1, <2>1, <2>2, Zenon DEF Refreshed
<1>7. OnlyAt(mem, k, out) /\ out[k] = t
  BY <1>5, <1>6 DEF OnlyAt
<1> QED BY <1>1, <1>5, <1>7 DEF FreshAt

\* exec() that loads its file.
LEMMA ExecWords ==
  ASSUME Running, Sound(heap), Running', WordsInv, SysExec
  PROVE  WordsInv'
<1>1. /\ kstack[current_process].at = "user" /\ current_process # Idle
      /\ UNCHANGED <<kstack, pid, kill_list, stack, current_process, context>>
  BY DEF SysExec, InSyscall, UserMode, mvars, vars, memvars
<1>2. /\ Zero \in Registers /\ Zero.rip = 0 /\ Zero.rax = 0 /\ Zero.rbx = 0 /\ Zero.rbp = 0
  BY DEF Zero, Registers
<1>3. /\ mine' \in [Slot -> Registers] /\ mine'[current_process] = Zero
      /\ \A q \in Slot : q # current_process => mine'[q] = mine[q]
  BY <1>2, MustFindType DEF SysExec
<1>4. OthersKept({})
  BY <1>1, <1>3, OthersAre
<1>5. ContextsKept({})
  BY <1>1 DEF ContextsKept, WordsInv, CTypes
<1>6. PICK k, a, b, old, mem : TrapAt(SyscallTrap, UserFrame, k, old, a, b, mem)
  <2>1. UserFrame \in Frame /\ IsWord(SyscallTrap)
    BY ConstantsAssumption, UserFrameType DEF IsWord, SyscallTrap
  <2> QED BY <1>1, <2>1, TrapIs
<1>7. k = stack[current_process] /\ k \in Page \cup {NULL}
  BY <1>6 DEF TrapAt
<1>8. \A q \in Slot \ ({current_process} \cup {}) : Here(q)' => Here(q)
  BY <1>4 DEF OthersKept
<1>9. PICK out : out = Refreshed(mem, k)
  OBVIOUS
<1>10. /\ OnlyAt(mem, k, out) /\ Len(out[k]) = 10
       /\ out[k][1] = Ring3 /\ out[k][2] = 0 /\ out[k][5] = 0 /\ out[k][6] = 0
  <2>1. mem \in [Page \cup {NULL} -> Seq(Int)] /\ Len(mem[k]) = 10
    <3>1. TrapOn(UserFrame, k, mem)
      BY <1>6, TrapWords
    <3> QED BY <3>1 DEF TrapOn
  <2>2. FreshAt(mem, k, out)
    BY <1>7, <1>9, <2>1, FreshWords
  <2> QED BY <2>2 DEF FreshAt
<1>11. Touches(out, {})
  <2>1. Touches(mem, {})
    BY <1>6, <1>8, EnteredTouches DEF TrapAt
  <2>2. Len(out[k]) >= 10
    BY <1>10
  <2> QED BY <1>7, <1>8, <1>10, <2>1, <2>2, TouchesOwn
<1>12. PICK v : v = 0
  OBVIOUS
<1>13. IsWord(v) /\ Zero.rax = v
  BY <1>2, <1>12 DEF IsWord
<1>14. Becomes(TrapReturn(Leave(Result(Mach(Ring0, k, 10, old, a, b, 7, out), v))))
  <2>1. PICK m : m = InKernel(SyscallTrap, UserFrame) /\ m = Mach(Ring0, k, 10, old, a, b, 7, mem)
    BY <1>6 DEF TrapAt
  <2>2. WithFreshFrame(m) = Mach(Ring0, k, 10, old, a, b, 7, out)
    BY <1>7, <1>9, <2>1, FreshIs
  <2> QED BY <1>12, <2>1, <2>2 DEF SysExec
<1>15. /\ out[k][1] = Cs(current_process) /\ out[k][2] = Zero.rip
       /\ out[k][5] = Zero.rbx /\ out[k][6] = Zero.rbp
  BY <1>1, <1>2, <1>10 DEF Cs
<1> QED BY <1>1, <1>3, <1>4, <1>5, <1>7, <1>8, <1>11, <1>13, <1>14, <1>15, ResultStep

\* The end of a process.
LEMMA ExitWords ==
  ASSUME Running, Sound(heap), Running', WordsInv, CExit
  PROVE  WordsInv'
<1>1. /\ kstack[current_process].at = "user" /\ current_process # Idle
      /\ UNCHANGED <<kstack, pid, stack>> /\ kill_list \subseteq kill_list'
      /\ current_process \in kill_list'
  BY DEF CExit, Exit, InSyscall, UserMode, memvars
<1>2. PICK p : p = current_process /\ p \in Slot
  BY HereAre
<1>3. ~Here(p)' /\ current_process' # p
  BY <1>1, <1>2, HereAreNext
<1>4. /\ mine' \in [Slot -> Registers]
      /\ \A q \in Slot : q # current_process => mine'[q] = mine[q]
  <2>1. Zero \in Registers
    BY DEF Zero, Registers
  <2> QED BY <2>1, MustFindType DEF CExit
<1>5. OthersKept({})
  BY <1>1, <1>4, OthersAre
<1>6. PICK k, ip, a, b, mem : TrapAt(SyscallTrap, UserFrame, k, ip, a, b, mem)
  <2>1. UserFrame \in Frame /\ IsWord(SyscallTrap)
    BY ConstantsAssumption, UserFrameType DEF IsWord, SyscallTrap
  <2> QED BY <1>1, <2>1, TrapIs
<1>7. k = stack[current_process] /\ IsWord(ip) /\ IsWord(a) /\ IsWord(b)
  BY <1>6 DEF TrapAt
<1>8. Touches(mem, {})
  BY <1>5, <1>6, EnteredTouches DEF OthersKept, TrapAt
<1>9. switch_process(Mach(Ring0, k, 10, ip, a, b, 7, mem))
  BY <1>2, <1>3, <1>6 DEF CExit, HandlerEnds, TrapAt
<1> QED BY <1>2, <1>3, <1>5, <1>7, <1>8, <1>9, AwayStep
-----------------------------------------------------------------------------
(***************************************************************************)
(* wait(), which frees stacks.                                             *)
(***************************************************************************)

\* Behind a step no two processes share a stack either, and none is free.
LEMMA StacksApartNext ==
  ASSUME Running', Sound(heap'), NEW p \in Slot, Here(p)'
  PROVE  /\ stack'[p] \in Page \cup {NULL}
         /\ stack'[p] \notin Range(heap'.free)
         /\ \A q \in Slot : Here(q)' /\ q # p => stack'[q] # stack'[p]
<1>1. NULL \notin Page
  BY PageAssumption DEF NULL
<1>2. ASSUME NEW q \in Slot, Here(q)'
      PROVE  /\ q \in UsedSlots'
             /\ q = Idle => stack'[q] = NULL
             /\ q # Idle => stack'[q] \in Page /\ stack'[q] \in Owned(q)'
  <2>1. q \in UsedSlots'
    <3>1. q = Idle \/ pid'[q] # 0
      BY <1>2, HereAreNext
    <3>2. IInv'
      BY DEF Running
    <3> QED BY <3>1, <3>2, UsedAreNext
  <2>2. q = Idle => stack'[q] = NULL
    BY DEF Running, IdleOwns
  <2>3. q # Idle => stack'[q] \in Page
    BY <2>1 DEF Running, OwnsAll
  <2>4. q # Idle => stack'[q] \in Owned(q)'
    BY <1>1, <2>3 DEF Owned
  <2> QED BY <2>1, <2>2, <2>3, <2>4
<1>3. heap'.free \in Seq(Page) /\ FreeSet(heap') \subseteq Page
  BY HeapFields
<1>4. stack'[p] \notin FreeSet(heap')
  BY <1>1, <1>2, <1>3 DEF Running, Parted
<1>5. ASSUME NEW q \in Slot, Here(q)', q # p  PROVE stack'[q] # stack'[p]
  BY <1>1, <1>2, <1>5 DEF Running, Parted
<1> QED BY <1>2, <1>4, <1>5 DEF FreeSet

\* The stacks, without those that are free behind the step.
Swept(mem) == [page \in DOMAIN mem |-> IF page \in Range(heap'.free) THEN <<>> ELSE mem[page]]

\* That is what the model makes of what the freed stacks held.
LEMMA SweptIs ==
  ASSUME NEW c, NEW k, NEW n, NEW ip, NEW a, NEW b, NEW f, NEW mem
  PROVE  WithoutFreed(Mach(c, k, n, ip, a, b, f, mem)) = Mach(c, k, n, ip, a, b, f, Swept(mem))
<1>1. PICK m : m = Mach(c, k, n, ip, a, b, f, mem)
  OBVIOUS
<1>2. m.mem = mem
  BY <1>1, MachFields
<1>3. PICK out : out = Swept(mem)
  OBVIOUS
<1>4. [m EXCEPT !.mem = out] = Mach(c, k, n, ip, a, b, f, out)
  BY <1>1, MachFields
<1>5. WithoutFreed(m) = [m EXCEPT !.mem = out]
  BY <1>2, <1>3, Zenon DEF WithoutFreed, Swept
<1> QED BY <1>1, <1>3, <1>4, <1>5

\* The stacks in use are not swept.
LEMMA SweptKeeps ==
  ASSUME NEW mem, Stacks(mem)
  PROVE  /\ Stacks(Swept(mem))
         /\ \A x \in Page \cup {NULL} : x \notin Range(heap'.free) => Swept(mem)[x] = mem[x]
<1>1. <<>> \in Seq(Int)
  OBVIOUS
<1>2. mem \in [Page \cup {NULL} -> Seq(Int)] /\ DOMAIN mem = Page \cup {NULL}
  BY DEF Stacks
<1>3. PICK F : F = Range(heap'.free)
  OBVIOUS
<1>4. PICK out : out = Swept(mem) /\ out = [page \in Page \cup {NULL} |-> IF page \in F THEN <<>> ELSE mem[page]]
  BY <1>2, <1>3 DEF Swept
<1>5. out \in [Page \cup {NULL} -> Seq(Int)] /\ \A x \in Page \cup {NULL} : x \notin F => out[x] = mem[x]
  BY <1>1, <1>2, <1>4
<1> QED BY <1>3, <1>4, <1>5 DEF Stacks

\* What a turn of wait() does: it collects z, or it puts the process to sleep.
TurnReaps(z) ==
  /\ z \in kill_list /\ z # Idle /\ z # current_process
  /\ kill_list' = kill_list \ {z} /\ pid' = [pid EXCEPT ![z] = 0]
  /\ kstack' = [kstack EXCEPT ![current_process] = UserFrame]
  /\ stack' = [stack EXCEPT ![z] = NULL]
  /\ UNCHANGED current_process
TurnSleeps(n) ==
  /\ kstack' = [kstack EXCEPT ![current_process] = [at |-> "wait", arg |-> n, old |-> 0]]
  /\ UNCHANGED <<kill_list, pid, stack>>
  /\ current_process' # current_process

\* It is one of the two.
LEMMA WaitTurn ==
  ASSUME Running, Running', NEW n, WaitLoop(n), ReleaseCollected
  PROVE  (\E z : TurnReaps(z)) \/ TurnSleeps(n)
<1>1. PICK p : p = current_process /\ p \in Slot /\ Here(p)
  BY HereAre
<1>2. CASE \E z \in kill_list : Reap(z)
  <2>1. PICK z \in kill_list : Reap(z)
    BY <1>2
  <2>2. z # Idle /\ z # p /\ z \in Slot
    <3>1. IInv
      BY DEF Running
    <3>2. kill_list \subseteq UsedSlots \ {Idle, p}
      BY <1>1, <3>1, UsedAre
    <3> QED BY <3>2 DEF UsedSlots
  <2>3. kill_list' = kill_list \ {z}
    BY <2>1 DEF Reap
  <2>4. Release(z)
    <3>1. kill_list' \subseteq kill_list /\ kill_list' # kill_list /\ kill_list \ kill_list' = {z}
      BY <2>1, <2>3
    <3> QED BY <3>1 DEF ReleaseCollected
  <2>5. TurnReaps(z)
    BY <1>1, <2>1, <2>2, <2>3, <2>4 DEF Reap, ReturnToUser, Release, TurnReaps
  <2> QED BY <2>5
<1>3. CASE Park("wait", n, 0) /\ Sleep(ExitEvent) /\ UNCHANGED <<pid, kill_list, pid_num, ticks>>
  <2>1. UNCHANGED memvars
    BY <1>3 DEF ReleaseCollected
  <2>2. wait_list'[ExitEvent] = Append(wait_list[ExitEvent], p) /\ wait_list[ExitEvent] \in Seq(Slot \ {Idle})
    BY <1>1, <1>3 DEF Sleep, Running, IInv, TypeOK, Event
  <2>3. p \in Range(wait_list'[ExitEvent])
    <3>1. PICK s : s = wait_list[ExitEvent] /\ s \in Seq(Slot \ {Idle})
      BY <2>2
    <3>2. Append(s, p)[Len(s) + 1] = p /\ Len(s) + 1 \in DOMAIN Append(s, p)
      BY <3>1, LenProperties
    <3> QED BY <2>2, <3>1, <3>2 DEF Range
  <2>4. p # Idle /\ state'[p] = "SLEEP"
    <3>1. wait_list'[ExitEvent] \in Seq(Slot \ {Idle})
      BY DEF Running, IInv, TypeOK, Event
    <3>2. p \in Slot \ {Idle}
      BY <2>3, <3>1, RangeOfSeq
    <3> QED BY <2>3, <3>2 DEF Running, IInv, ListsMatchStates, Event
  <2>5. current_process' # p
    BY <1>1, <2>4 DEF Running, IInv, ListsMatchStates
  <2> QED BY <1>1, <1>3, <2>1, <2>5 DEF Park, TurnSleeps, memvars
<1> QED BY <1>2, <1>3 DEF WaitLoop

\* A turn of wait() that has begun on the stacks mem, with the result 0 to give.
Waits(k, ip, a, b, mem) ==
  /\ k = stack[current_process] /\ IsWord(ip) /\ IsWord(a) /\ IsWord(b)
  /\ Stacks(mem) /\ OnlyAt(kmem, k, mem) /\ Len(mem[k]) >= 10
  /\ mine' \in [Slot -> Registers] /\ mine'[current_process].rax = 0
  /\ \A q \in Slot : q # current_process => mine'[q] = mine[q]
  /\ mem[k][1] = Cs(current_process) /\ mem[k][2] = mine'[current_process].rip
  /\ mem[k][5] = mine'[current_process].rbx /\ mem[k][6] = mine'[current_process].rbp
  /\ kstack'[current_process].at = "wait" => HoldsCall(mem[k], kstack'[current_process])

\* What it does to the others and to the stacks.
LEMMA WaitKeeps ==
  ASSUME Running, Sound(heap), Running', Sound(heap'), WordsInv,
         NEW n, (\E z : TurnReaps(z)) \/ TurnSleeps(n),
         NEW k, NEW ip, NEW a, NEW b, NEW mem, Waits(k, ip, a, b, mem),
         NEW out, out = Swept(mem)
  PROVE  OthersKept({}) /\ Touches(out, {}) /\ out[k] = mem[k]
<1>1. PICK p : p = current_process /\ p \in Slot /\ Here(p) /\ p \in UsedSlots
  BY HereAre
<1>2. kstack \in [Slot -> Frame] /\ pid \in [Slot -> 0 .. MAX_PID] /\ stack \in [Slot -> Page \cup {NULL}]
  BY DEF Running, IInv, TypeOK
<1>3. /\ stack'[p] = stack[p] /\ Here(p)'
      /\ \A q \in Slot \ {p} : Here(q)' => Here(q) /\ stack'[q] = stack[q] /\ kstack'[q] = kstack[q]
      /\ FramesOK'
  <2>1. ASSUME NEW z, TurnReaps(z)
        PROVE  /\ stack'[p] = stack[p] /\ Here(p)'
               /\ \A q \in Slot \ {p} : Here(q)' => Here(q) /\ stack'[q] = stack[q] /\ kstack'[q] = kstack[q]
               /\ FramesOK'
    <3>1. /\ z # Idle /\ z # p /\ z \in Slot /\ kill_list' = kill_list \ {z}
          /\ pid' = [pid EXCEPT ![z] = 0] /\ stack' = [stack EXCEPT ![z] = NULL]
          /\ kstack' = [kstack EXCEPT ![p] = UserFrame] /\ p = current_process'
      <4>1. kill_list \subseteq Slot
        BY DEF Running, IInv, TypeOK
      <4> QED BY <1>1, <2>1, <4>1 DEF TurnReaps
    <3>2. Here(p)'
      BY <3>1, HereAreNext
    <3>3. ASSUME NEW q \in Slot \ {p}, Here(q)'  PROVE Here(q) /\ q # z
      <4>1. q = Idle \/ (pid'[q] # 0 /\ q \notin kill_list')
        BY <3>3, HereAreNext
      <4>2. q # z
        BY <1>2, <3>1, <4>1
      <4>3. q = Idle \/ (pid[q] # 0 /\ q \notin kill_list)
        BY <1>2, <3>1, <4>1, <4>2
      <4> QED BY <4>2, <4>3, HereAre
    <3>4. FramesOK'
      BY <1>2, <3>1 DEF FramesOK, UserFrame, WordsInv
    <3> QED BY <1>2, <3>1, <3>2, <3>3, <3>4
  <2>2. ASSUME TurnSleeps(n)
        PROVE  /\ stack'[p] = stack[p] /\ Here(p)'
               /\ \A q \in Slot \ {p} : Here(q)' => Here(q) /\ stack'[q] = stack[q] /\ kstack'[q] = kstack[q]
               /\ FramesOK'
    <3>1. /\ kstack' = [kstack EXCEPT ![p] = [at |-> "wait", arg |-> n, old |-> 0]]
          /\ UNCHANGED <<kill_list, pid, stack>>
      BY <1>1, <2>2 DEF TurnSleeps
    <3>2. \A q \in Slot : Here(q)' <=> Here(q)
      BY <3>1, HereAre, HereAreNext
    <3>3. FramesOK'
      <4>1. PICK fr : fr = [at |-> "wait", arg |-> n, old |-> 0] 
        OBVIOUS
      <4>2. fr.at = "wait" /\ fr.old = 0
        BY <4>1
      <4>3. kstack'[p] = fr /\ \A q \in Slot \ {p} : kstack'[q] = kstack[q]
        BY <1>1, <1>2, <3>1, <4>1
      <4> QED BY <4>3, <4>2 DEF FramesOK, WordsInv
    <3> QED BY <1>1, <1>2, <3>1, <3>2, <3>3
  <2> QED BY <2>1, <2>2
<1>4. OthersKept({})
  BY <1>1, <1>3 DEF Waits, OthersKept
<1>5. Stacks(out) /\ \A x \in Page \cup {NULL} : x \notin Range(heap'.free) => out[x] = mem[x]
  BY SweptKeeps DEF Waits
<1>6. out[k] = mem[k]
  BY <1>1, <1>3, <1>5, StacksApartNext DEF Waits
<1>7. ASSUME NEW q \in Slot \ {p}, Here(q)'  PROVE out[stack[q]] = kmem[stack[q]]
  <2>1. stack[q] \in Page \cup {NULL} /\ out[stack[q]] = mem[stack[q]]
    BY <1>3, <1>5, <1>7, StacksApartNext
  <2>2. stack[q] # k
    BY <1>1, <1>3, <1>7, StacksApartNext DEF Waits
  <2> QED BY <2>1, <2>2 DEF Waits, OnlyAt
<1>8. Touches(out, {})
  BY <1>1, <1>5, <1>6, <1>7 DEF Waits, Touches, Stacks
<1> QED BY <1>4, <1>6, <1>8

\* How it ends.
LEMMA WaitEnds ==
  ASSUME Running, Sound(heap), Running', Sound(heap'), WordsInv,
         NEW n, WaitLoop(n), ReleaseCollected,
         NEW k, NEW ip, NEW a, NEW b, NEW mem, Waits(k, ip, a, b, mem),
         NEW m, m = WithoutFreed(Mach(Ring0, k, 10, ip, a, b, 7, mem)),
         HandlerEnds(m, Result(m, 0))
  PROVE  WordsInv'
<1>1. PICK p : p = current_process /\ p \in Slot
  BY HereAre
<1>2. (\E z : TurnReaps(z)) \/ TurnSleeps(n)
  BY WaitTurn
<1>3. PICK out : out = Swept(mem) /\ m = Mach(Ring0, k, 10, ip, a, b, 7, out)
  BY SweptIs
<1>4. OthersKept({}) /\ Touches(out, {}) /\ out[k] = mem[k]
  BY <1>2, <1>3, WaitKeeps
<1>5. k = stack[current_process] /\ IsWord(ip) /\ IsWord(a) /\ IsWord(b)
  BY DEF Waits
<1>6. CASE \E z : TurnReaps(z)
  <2>1. UNCHANGED current_process /\ kstack'[current_process].at = "user"
    BY <1>1, <1>6 DEF TurnReaps, UserFrame, Running, IInv, TypeOK
  <2>2. ContextsKept({}) /\ Becomes(TrapReturn(Leave(Result(m, 0))))
    <3>1. UNCHANGED context /\ Becomes(TrapReturn(Leave(Result(m, 0))))
      BY <2>1 DEF HandlerEnds
    <3> QED BY <3>1 DEF ContextsKept, WordsInv, CTypes
  <2>3. PICK v : v = 0
    OBVIOUS
  <2>4. IsWord(v) /\ v = mine'[current_process].rax
    BY <2>3 DEF IsWord, Waits
  <2>5. Becomes(TrapReturn(Leave(Result(Mach(Ring0, k, 10, ip, a, b, 7, out), v))))
    BY <1>3, <2>2, <2>3
  <2>6. PICK new : new = mine'[current_process]
    OBVIOUS
  <2>7. /\ out[k][1] = Cs(current_process) /\ out[k][2] = new.rip
        /\ out[k][5] = new.rbx /\ out[k][6] = new.rbp
    BY <1>4, <2>6 DEF Waits
  <2>8. \A q \in Slot \ ({current_process} \cup {}) : Here(q)' => Here(q)
    BY <1>4 DEF OthersKept
  <2>9. ContextsKept({})
    BY <2>2
  <2>10. v = new.rax
    BY <2>4, <2>6
  <2>11. IsWord(v)
    BY <2>4
  <2> QED BY <1>4, <1>5, <2>1, <2>5, <2>6, <2>7, <2>8, <2>9, <2>10, <2>11, ResultStep
<1>7. CASE TurnSleeps(n)
  <2>1. current_process' # current_process
    BY <1>7 DEF TurnSleeps
  <2>2. switch_process(Mach(Ring0, k, 10, ip, a, b, 7, out))
    BY <1>3, <2>1 DEF HandlerEnds
  <2>3. kstack'[p].at = "wait"
    BY <1>1, <1>7 DEF TurnSleeps, Running, IInv, TypeOK
  <2>4. HoldsRegisters(out[k], p, mine'[p], kstack'[p]) /\ HoldsCall(out[k], kstack'[p])
    BY <1>1, <1>4, <2>3 DEF Waits, HoldsRegisters
  <2> QED BY <1>1, <1>4, <1>5, <2>1, <2>2, <2>4, AwayStep
<1> QED BY <1>2, <1>6, <1>7

\* wait() called by a program.
LEMMA WaitWords ==
  ASSUME Running, Sound(heap), Running', Sound(heap'), WordsInv, CWait
  PROVE  WordsInv'
<1>1. PICK n : WaitLoop(n)
  BY DEF CWait, SysWait
<1>2. kstack[current_process].at = "user" /\ ReleaseCollected /\ current_process \in Slot
  BY HereAre DEF CWait, SysWait, InSyscall, UserMode
<1>3. PICK fr : fr = kstack'[current_process] /\ fr \in Frame
  BY <1>2 DEF Running, IInv, TypeOK
<1>4. PICK m : m = WithoutFreed(InKernel(SyscallTrap, fr)) /\ HandlerEnds(m, Result(m, 0))
  BY <1>3 DEF CWait
<1>5. PICK k, ip, a, b, mem : TrapAt(SyscallTrap, fr, k, ip, a, b, mem)
  <2>1. IsWord(SyscallTrap)
    BY DEF IsWord, SyscallTrap
  <2> QED BY <1>2, <1>3, <2>1, TrapIs
<1>6. PICK i, v, new : i = 2 /\ v = 0 /\ new = [Own EXCEPT !.rip = 2, !.rax = 0]
  OBVIOUS
<1>7. IsWord(i) /\ IsWord(v)
  BY <1>6 DEF IsWord
<1>8. new \in Registers /\ new.rip = 2 /\ new.rax = 0 /\ new.rbx = Own.rbx /\ new.rbp = Own.rbp
  <2>1. Own \in Registers
    BY OwnRegisters DEF Own
  <2>2. Returns(Own, i, v, new)
    BY <1>6, Zenon DEF Returns
  <2>3. new \in Registers /\ new.rip = i /\ new.rax = v /\ new.rbx = Own.rbx /\ new.rbp = Own.rbp
    BY <1>7, <2>1, <2>2, OwnResult
  <2> QED BY <1>6, <2>3
<1>9. /\ mine' \in [Slot -> Registers] /\ mine'[current_process] = new
      /\ \A q \in Slot : q # current_process => mine'[q] = mine[q]
  <2>1. MustFind(new)
    BY <1>6 DEF CWait
  <2> QED BY <1>8, <2>1, MustFindType
<1>10. TrapOn(fr, k, mem)
  BY <1>5, TrapWords
<1>11. Waits(k, ip, a, b, mem)
  <2>1. k = stack[current_process] /\ IsWord(ip) /\ IsWord(a) /\ IsWord(b)
    BY <1>5 DEF TrapAt
  <2>2. Stacks(mem) /\ Len(mem[k]) >= 10
    BY <1>10 DEF TrapOn, Stacks
  <2>3. OnlyAt(kmem, k, mem)
    BY <1>5 DEF TrapAt, Entered, OnlyAt
  <2> QED BY <1>3, <1>8, <1>9, <1>10, <2>1, <2>2, <2>3 DEF Waits, TrapOn, Own
<1>12. InKernel(SyscallTrap, fr) = Mach(Ring0, k, 10, ip, a, b, 7, mem)
  BY <1>5 DEF TrapAt
<1> QED BY <1>1, <1>2, <1>4, <1>11, <1>12, WaitEnds

\* wait() that goes on behind its sleep.
LEMMA WaitResumedWords ==
  ASSUME Running, Sound(heap), Running', Sound(heap'), WordsInv, CWaitResumed
  PROVE  WordsInv'
<1>1. PICK p, n : p = current_process /\ p \in Slot /\ n = kstack[p].arg
  BY HereAre
<1>2. kstack[p].at = "wait" /\ WaitLoop(n) /\ ReleaseCollected /\ UNCHANGED mine
  BY <1>1 DEF CWaitResumed, ResumeWait, Resumed
<1>3. PICK m : m = WithoutFreed(Machine) /\ HandlerEnds(m, Result(m, 0))
  BY DEF CWaitResumed
<1>4. PICK k : k = stack[p] /\ k \in Page \cup {NULL}
  BY <1>1, OwnRegisters
<1>5. /\ cpu.cs = Ring0 /\ cpu.stk = k /\ cpu.rsp = 10 /\ cpu.rbp = 7
      /\ Len(kmem[k]) >= 10 /\ HoldsRegisters(kmem[k], p, mine[p], kstack[p]) /\ HoldsCall(kmem[k], kstack[p])
  BY <1>1, <1>2, <1>4 DEF WordsInv, RunsWell
<1>6. PICK ip, a, b : /\ ip = cpu.rip /\ a = cpu.rax /\ b = cpu.rbx
                      /\ IsWord(ip) /\ IsWord(a) /\ IsWord(b)
  BY DEF WordsInv, CTypes, IsWord
<1>7. Machine = Mach(Ring0, k, 10, ip, a, b, 7, kmem)
  <2>1. cpu \in [cs : Int, stk : Page \cup {NULL}, rsp : Nat, rip : Int, rax : Int, rbx : Int, rbp : Int]
    BY DEF WordsInv, CTypes
  <2>2. cpu = [cs |-> cpu.cs, stk |-> cpu.stk, rsp |-> cpu.rsp, rip |-> cpu.rip,
               rax |-> cpu.rax, rbx |-> cpu.rbx, rbp |-> cpu.rbp]
    BY <2>1
  <2>3. cpu = [cs |-> Ring0, stk |-> k, rsp |-> 10, rip |-> ip, rax |-> a, rbx |-> b, rbp |-> 7]
    BY <1>5, <1>6, <2>2, Zenon
  <2> QED BY <2>3 DEF Machine, Mach
<1>8. mine'[p].rax = 0 /\ mine' \in [Slot -> Registers]
  BY <1>2, <1>5 DEF HoldsRegisters, WordsInv, CTypes
<1>9. kstack'[p].at = "wait" => kstack'[p] = kstack[p]
  <2>1. kstack \in [Slot -> Frame]
    BY DEF Running, IInv, TypeOK
  <2>2. (\E z : TurnReaps(z)) \/ TurnSleeps(n)
    BY <1>2, WaitTurn
  <2>3. CASE \E z : TurnReaps(z)
    BY <1>1, <2>1, <2>3 DEF TurnReaps, UserFrame
  <2>4. CASE TurnSleeps(n)
    <3>1. kstack'[p] = [at |-> "wait", arg |-> n, old |-> 0]
      BY <1>1, <2>1, <2>4 DEF TurnSleeps
    <3>2. kstack[p].old = 0 /\ kstack[p] \in Frame
      BY <1>1, <1>2, <2>1 DEF WordsInv, FramesOK
    <3>3. kstack[p] = [at |-> "wait", arg |-> n, old |-> 0]
      BY <1>1, <1>2, <3>2 DEF Frame
    <3> QED BY <3>1, <3>3
  <2> QED BY <2>2, <2>3, <2>4
<1>10. Waits(k, ip, a, b, kmem)
  <2>1. Stacks(kmem) /\ OnlyAt(kmem, k, kmem)
    BY DEF WordsInv, CTypes, Stacks, OnlyAt
  <2>2. /\ kmem[k][1] = Cs(p) /\ kmem[k][2] = mine[p].rip
        /\ kmem[k][5] = mine[p].rbx /\ kmem[k][6] = mine[p].rbp
    BY <1>5 DEF HoldsRegisters
  <2> QED BY <1>1, <1>2, <1>4, <1>5, <1>6, <1>8, <1>9, <2>1, <2>2 DEF Waits
<1> QED BY <1>2, <1>3, <1>7, <1>10, WaitEnds
-----------------------------------------------------------------------------
(***************************************************************************)
(* fork().                                                                 *)
(***************************************************************************)

\* The stacks with that of a child on page t, whose parent has stack k.
WithChildOn(mem, k, t) ==
  [mem EXCEPT ![t] = ChildFrame(SubSeq(mem[k], 1, TRAP_FRAME))
                       \o SubSeq(FreshStack, TRAP_FRAME + 1, TRAP_FRAME + SWAP_FRAME)]
ChildOn(mem, k, t, out) ==
  /\ OnlyAt(mem, t, out) /\ FreshLayout(out[t])
  /\ out[t][1] = mem[k][1] /\ out[t][2] = mem[k][2] /\ out[t][4] = 0
  /\ out[t][5] = mem[k][5] /\ out[t][6] = mem[k][6]

\* They are those that fork() makes.
LEMMA ChildIs ==
  ASSUME NEW c, NEW k, k = stack[current_process], NEW t, t = stack'[FirstFree],
         NEW n, NEW ip, NEW a, NEW b, NEW f, NEW mem
  PROVE  WithChild(Mach(c, k, n, ip, a, b, f, mem)) = Mach(c, k, n, ip, a, b, f, WithChildOn(mem, k, t))
<1>1. PICK m : m = Mach(c, k, n, ip, a, b, f, mem)
  OBVIOUS
<1>2. m.mem = mem
  BY <1>1, MachFields
<1>3. PICK out : out = WithChildOn(mem, k, t)
  OBVIOUS
<1>4. [m EXCEPT !.mem = out] = Mach(c, k, n, ip, a, b, f, out)
  BY <1>1, MachFields
<1>5. WithChild(m) = [m EXCEPT !.mem = out]
  BY <1>2, <1>3, Zenon DEF WithChild, WithChildOn
<1> QED BY <1>1, <1>3, <1>4, <1>5

\* The stack of a new process.
LEMMA FreshStackWords ==
  /\ FreshStack \in Seq(Int) /\ Len(FreshStack) = 9 /\ FreshStack[7] = TrapReturnAddress
  /\ FreshStack[1] = Ring3 /\ FreshStack[2] = 0 /\ FreshStack[4] = 0
  /\ FreshStack[5] = 0 /\ FreshStack[6] = 0
<1>1. PICK w, v, s : w = FreshTrapFrame /\ v = <<TrapReturnAddress, 0, 0>> /\ s = w \o v /\ s = FreshStack
  BY DEF FreshStack
<1>2. /\ w \in Seq(Int) /\ Len(w) = 6
      /\ w[1] = Ring3 /\ w[2] = 0 /\ w[4] = 0 /\ w[5] = 0 /\ w[6] = 0
  <2>1. w = <<Ring3, 0, 0, 0, 0, 0>>
    BY <1>1 DEF FreshTrapFrame
  <2> QED BY <2>1 DEF Ring3
<1>3. v \in Seq(Int) /\ Len(v) = 3 /\ v[1] = TrapReturnAddress
  BY <1>1 DEF TrapReturnAddress
<1>4. s \in Seq(Int) /\ Len(s) = 9 /\ \A i \in 1 .. 9 : s[i] = IF i <= 6 THEN w[i] ELSE v[i - 6]
  <2>1. /\ s \in Seq(Int) /\ Len(s) = Len(w) + Len(v)
        /\ \A i \in 1 .. Len(w) + Len(v) : s[i] = IF i <= Len(w) THEN w[i] ELSE v[i - Len(w)]
    <3>1. s = w \o v /\ w \in Seq(Int) /\ v \in Seq(Int)
      BY <1>1, <1>2, <1>3
    <3> QED BY <3>1, ConcatProperties
  <2>2. Len(w) = 6 /\ Len(v) = 3
    BY <1>2, <1>3
  <2> QED BY <2>1, <2>2
<1>5. s[7] = v[1] /\ s[1] = w[1] /\ s[2] = w[2] /\ s[4] = w[4] /\ s[5] = w[5] /\ s[6] = w[6]
  BY <1>4
<1> QED BY <1>1, <1>2, <1>3, <1>4, <1>5

\* What swap() pops from the stack of a new process.
LEMMA FreshTail ==
  /\ SubSeq(FreshStack, TRAP_FRAME + 1, TRAP_FRAME + SWAP_FRAME) \in Seq(Int)
  /\ Len(SubSeq(FreshStack, TRAP_FRAME + 1, TRAP_FRAME + SWAP_FRAME)) = 3
  /\ SubSeq(FreshStack, TRAP_FRAME + 1, TRAP_FRAME + SWAP_FRAME)[1] = TrapReturnAddress
<1>1. PICK s : s = FreshStack
  OBVIOUS
<1>2. s \in Seq(Int) /\ Len(s) = 9 /\ s[7] = TrapReturnAddress
  BY <1>1, FreshStackWords
<1>3. PICK lo, hi : lo = TRAP_FRAME + 1 /\ hi = TRAP_FRAME + SWAP_FRAME
  OBVIOUS
<1>4. lo = 7 /\ hi = 9
  BY <1>3 DEF TRAP_FRAME, SWAP_FRAME
<1>5. /\ SubSeq(s, lo, hi) \in Seq(Int)
      /\ Len(SubSeq(s, lo, hi)) = IF lo <= hi THEN hi - lo + 1 ELSE 0
      /\ \A i \in 1 .. hi - lo + 1 : SubSeq(s, lo, hi)[i] = s[lo + i - 1]
  <2>1. \A i \in 7 .. 9 : i \in 1 .. Len(s)
    BY <1>2
  <2>2. \A i \in 7 .. 9 : s[i] \in Int
    BY <1>2, <2>1, LenProperties
  <2>3. lo \in Int /\ hi \in Int /\ \A i \in lo .. hi : s[i] \in Int
    BY <1>4, <2>2
  <2> QED BY <2>3, SubSeqProperties
<1>6. SubSeq(s, lo, hi)[1] = s[7] /\ Len(SubSeq(s, lo, hi)) = 3
  <2>1. 1 \in 1 .. hi - lo + 1 /\ lo + 1 - 1 = 7 /\ hi - lo + 1 = 3 /\ lo <= hi
    BY <1>4
  <2> QED BY <1>5, <2>1
<1>7. SubSeq(FreshStack, TRAP_FRAME + 1, TRAP_FRAME + SWAP_FRAME) = SubSeq(s, lo, hi)
  BY <1>1, <1>3
<1> QED BY <1>2, <1>5, <1>6, <1>7

\* The child's stack: its parent's trap frame with the result 0.
LEMMA ChildWords ==
  ASSUME NEW mem \in [Page \cup {NULL} -> Seq(Int)],
         NEW k, mem[k] \in Seq(Int), Len(mem[k]) = 10, NEW t \in Page \cup {NULL}
  PROVE  ChildOn(mem, k, t, WithChildOn(mem, k, t))
<1>1. PICK s, out : s = mem[k] /\ out = WithChildOn(mem, k, t)
  OBVIOUS
<1>2. PICK r : r = SubSeq(s, 1, 6)
  OBVIOUS
<1>3. r \in Seq(Int) /\ Len(r) = 6 /\ \A i \in 1 .. 6 : r[i] = s[i]
  <2>1. s \in Seq(Int) /\ Len(s) = 10
    BY <1>1
  <2>2. \A i \in 1 .. 6 : i \in 1 .. Len(s)
    BY <2>1
  <2>3. \A i \in 1 .. 6 : s[i] \in Int
    BY <2>1, <2>2, LenProperties
  <2>4. PICK lo, hi : lo = 1 /\ hi = 6
    OBVIOUS
  <2>5. /\ SubSeq(s, lo, hi) \in Seq(Int)
        /\ Len(SubSeq(s, lo, hi)) = IF lo <= hi THEN hi - lo + 1 ELSE 0
        /\ \A i \in 1 .. hi - lo + 1 : SubSeq(s, lo, hi)[i] = s[lo + i - 1]
    <3>1. lo \in Int /\ hi \in Int /\ \A i \in lo .. hi : s[i] \in Int
      BY <2>3, <2>4
    <3> QED BY <3>1, SubSeqProperties
  <2>6. r = SubSeq(s, lo, hi)
    BY <1>2, <2>4
  <2>7. Len(r) = 6 /\ \A i \in 1 .. 6 : r[i] = s[lo + i - 1]
    BY <2>4, <2>5, <2>6
  <2>8. \A i \in 1 .. 6 : lo + i - 1 = i
    BY <2>4
  <2> QED BY <2>5, <2>6, <2>7, <2>8
<1>4. PICK f : f = [r EXCEPT ![4] = 0]
  OBVIOUS
<1>5. f \in Seq(Int) /\ Len(f) = 6
  <2>1. 4 \in 1 .. Len(r)
    BY <1>3
  <2>2. PICK v : v = 0 /\ IsWord(v)
    BY DEF IsWord
  <2>3. f = [r EXCEPT ![4] = v]
    BY <1>4, <2>2
  <2>4. v \in Int /\ r \in Seq(Int)
    BY <1>3, <2>2 DEF IsWord
  <2>5. f \in Seq(Int) /\ Len(f) = Len(r)
    BY <2>1, <2>3, <2>4, ExceptSeq
  <2> QED BY <1>3, <2>5
<1>6. f[4] = 0 /\ f[1] = s[1] /\ f[2] = s[2] /\ f[5] = s[5] /\ f[6] = s[6]
  <2>1. \A i \in 1 .. 6 : i \in DOMAIN r
    BY <1>3, LenProperties
  <2>2. f[4] = 0 /\ \A i \in DOMAIN r : i # 4 => f[i] = r[i]
    <3>1. 4 \in DOMAIN r
      BY <2>1
    <3> QED BY <1>4, <3>1
  <2>3. f[1] = r[1] /\ f[2] = r[2] /\ f[5] = r[5] /\ f[6] = r[6]
    BY <2>1, <2>2
  <2> QED BY <1>3, <2>2, <2>3
<1>7. PICK w : w = SubSeq(FreshStack, TRAP_FRAME + 1, TRAP_FRAME + SWAP_FRAME)
  OBVIOUS
<1>8. w \in Seq(Int) /\ Len(w) = 3 /\ w[1] = TrapReturnAddress
  BY <1>7, FreshTail
<1>9. PICK z : z = f \o w
  OBVIOUS
<1>10. /\ z \in Seq(Int) /\ Len(z) = 9 /\ z[7] = TrapReturnAddress
       /\ z[1] = f[1] /\ z[2] = f[2] /\ z[4] = f[4] /\ z[5] = f[5] /\ z[6] = f[6]
  <2>1. /\ z \in Seq(Int) /\ Len(z) = Len(f) + Len(w)
        /\ \A i \in 1 .. Len(f) + Len(w) : z[i] = IF i <= Len(f) THEN f[i] ELSE w[i - Len(f)]
    BY <1>5, <1>8, <1>9, ConcatProperties
  <2>2. Len(z) = 9 /\ \A i \in 1 .. 9 : z[i] = IF i <= 6 THEN f[i] ELSE w[i - 6]
    <3>1. Len(f) = 6 /\ Len(w) = 3
      BY <1>5, <1>8
    <3> QED BY <2>1, <3>1
  <2>3. z[7] = w[1]
    BY <2>2
  <2>4. z[1] = f[1] /\ z[2] = f[2] /\ z[4] = f[4] /\ z[5] = f[5] /\ z[6] = f[6]
    BY <2>2
  <2> QED BY <1>8, <2>1, <2>2, <2>3, <2>4
<1>11. out = [mem EXCEPT ![t] = z]
  <2>1. PICK n : n = TRAP_FRAME /\ n = 6
    BY DEF TRAP_FRAME
  <2>2. ChildFrame(SubSeq(mem[k], 1, TRAP_FRAME)) = f
    <3>1. SubSeq(mem[k], 1, TRAP_FRAME) = r
      BY <1>1, <1>2, <2>1
    <3> QED BY <1>4, <3>1 DEF ChildFrame
  <2> QED BY <1>1, <1>7, <1>9, <2>2, Zenon DEF WithChildOn
<1>12. OnlyAt(mem, t, out) /\ out[t] = z
  BY <1>10, <1>11 DEF OnlyAt
<1>13. ChildOn(mem, k, t, out)
  <2>1. FreshLayout(z)
    BY <1>10 DEF FreshLayout
  <2> QED BY <1>1, <1>6, <1>10, <1>12, <2>1 DEF ChildOn
<1> QED BY <1>1, <1>13

\* The child that a fork with enough memory makes.
ForkMakes(c, t) ==
  /\ InSyscall /\ c = FirstFree /\ c \in Slot /\ c # Idle /\ c # current_process
  /\ state[c] = "UNUSED" /\ c \notin kill_list
  /\ t = stack'[c] /\ stack' = [stack EXCEPT ![c] = t]
  /\ pid_num \in Nat \ {0} /\ pid' = [pid EXCEPT ![c] = pid_num]
  /\ UNCHANGED <<kstack, current_process, kill_list>>

\* A fork that does not stop the machine makes one.
LEMMA ForkIs ==
  ASSUME Running, MFork, panic' = "none"
  PROVE  \E c, t : ForkMakes(c, t)
<1>1. PICK m : InSyscall /\ FreeSlots # {} /\ Keep(m) /\ IF m.ok THEN SysFork ELSE HalfMade(m)
  <2>1. ~(FreeSlots = {} /\ SysFork)
    BY DEF SysFork
  <2> QED BY <2>1 DEF MFork
<1>2. SysFork
  BY <1>1 DEF HalfMade
<1>3. /\ pid' = [pid EXCEPT ![FirstFree] = pid_num]
      /\ UNCHANGED <<kstack, current_process, kill_list>>
  BY <1>1, <1>2 DEF SysFork
<1>4. PICK c : c = FirstFree
  OBVIOUS
<1>5. c \in FreeSlots
  <2>1. FreeSlots \subseteq Nat
    BY ConstantsAssumption DEF FreeSlots, Slot
  <2>2. \E x \in FreeSlots : \A y \in FreeSlots : x <= y
    BY <1>1, <2>1, LeastElement
  <2> QED BY <1>4, <2>2 DEF FirstFree
<1>6. c \in Slot /\ state[c] = "UNUSED"
  BY <1>5 DEF FreeSlots
<1>7. c # Idle /\ c # current_process /\ c \notin kill_list
  <2>1. IInv /\ c \notin UsedSlots
    BY <1>6 DEF Running, UsedSlots
  <2> QED BY <2>1, UsedAre
<1>8. PICK t : t = m.stack
  OBVIOUS
<1>9. stack' = [stack EXCEPT ![c] = t] /\ t = stack'[c]
  BY <1>1, <1>4, <1>6, <1>8 DEF Keep, Running
<1>10. pid_num \in Nat \ {0}
  BY DEF Running, IInv, TypeOK
<1>11. ForkMakes(c, t)
  BY <1>1, <1>3, <1>4, <1>6, <1>7, <1>9, <1>10 DEF ForkMakes
<1> QED BY <1>11

\* fork().
LEMMA ForkWords ==
  ASSUME Running, Sound(heap), Running', Sound(heap'), WordsInv, CFork, panic' = "none"
  PROVE  WordsInv'
<1>1. MFork /\ ChildMade
  BY DEF CFork
<1>2. PICK c, t : ForkMakes(c, t)
  BY <1>1, ForkIs
<1>3. PICK p : p = current_process /\ p \in Slot /\ p # Idle /\ p # c /\ kstack[p].at = "user"
  BY <1>2, HereAre DEF ForkMakes, InSyscall, UserMode
<1>4. /\ c \in Slot /\ c # Idle /\ c = FirstFree /\ t = stack'[c]
      /\ stack' = [stack EXCEPT ![c] = t] /\ pid' = [pid EXCEPT ![c] = pid_num]
      /\ UNCHANGED <<kstack, current_process, kill_list>>
  BY <1>2 DEF ForkMakes
<1>5. /\ kstack \in [Slot -> Frame] /\ pid \in [Slot -> 0 .. MAX_PID]
      /\ stack \in [Slot -> Page \cup {NULL}] /\ mine \in [Slot -> Registers]
      /\ context \in [Slot -> [stk : Page \cup {NULL}, rsp : Nat]]
  BY DEF Running, IInv, TypeOK, WordsInv, CTypes
<1>6. Here(c)' /\ Here(p)' /\ \A q \in Slot \ {p, c} : Here(q)' => Here(q)
  <2>1. pid'[c] # 0 /\ c \notin kill_list'
    BY <1>2, <1>4, <1>5 DEF ForkMakes
  <2>2. Here(c)'
    BY <1>4, <2>1, HereAreNext
  <2>3. Here(p)'
    BY <1>3, <1>4, HereAreNext
  <2>4. \A q \in Slot \ {p, c} : pid'[q] = pid[q]
    BY <1>4, <1>5
  <2>5. ASSUME NEW q \in Slot \ {p, c}, Here(q)'  PROVE Here(q)
    <3>1. q = Idle \/ (pid'[q] # 0 /\ q \notin kill_list')
      BY <2>5, HereAreNext
    <3> QED BY <1>4, <2>4, <3>1, HereAre
  <2> QED BY <2>2, <2>3, <2>5
<1>7. PICK k, ip, a, b, mem : TrapAt(SyscallTrap, UserFrame, k, ip, a, b, mem)
  <2>1. UserFrame \in Frame /\ IsWord(SyscallTrap)
    BY ConstantsAssumption, UserFrameType DEF IsWord, SyscallTrap
  <2> QED BY <1>3, <2>1, TrapIs
<1>8. k = stack[p] /\ k \in Page \cup {NULL} /\ stack'[p] = k /\ TrapOn(UserFrame, k, mem)
  <2>1. k = stack[p] /\ k \in Page \cup {NULL} /\ TrapOn(UserFrame, k, mem)
    BY <1>3, <1>7, TrapWords DEF TrapAt
  <2> QED BY <1>3, <1>4, <1>5, <2>1
<1>9. /\ t \in Page \cup {NULL} /\ t # k
      /\ \A q \in Slot \ {p, c} : Here(q)' => stack[q] # t /\ stack[q] # k /\ stack[q] \in Page \cup {NULL}
                                              /\ stack'[q] = stack[q]
  <2>1. t \in Page \cup {NULL} /\ t # k
    BY <1>3, <1>4, <1>6, <1>8, StacksApartNext
  <2>2. ASSUME NEW q \in Slot \ {p, c}, Here(q)'
        PROVE  stack[q] # t /\ stack[q] # k /\ stack[q] \in Page \cup {NULL} /\ stack'[q] = stack[q]
    <3>1. stack'[q] = stack[q]
      BY <1>4, <1>5, <2>2
    <3>2. stack'[q] # t /\ stack'[q] # k /\ stack'[q] \in Page \cup {NULL}
      BY <1>3, <1>4, <1>6, <1>8, <2>2, StacksApartNext
    <3> QED BY <3>1, <3>2
  <2> QED BY <2>1, <2>2
<1>10. PICK out : out = WithChildOn(mem, k, t) /\ ChildOn(mem, k, t, out)
  <2>1. mem \in [Page \cup {NULL} -> Seq(Int)] /\ Len(mem[k]) = 10 /\ mem[k] \in Seq(Int)
    BY <1>8 DEF TrapOn
  <2> QED BY <1>9, <2>1, ChildWords
<1>11. OnlyAt(mem, t, out) /\ OnlyAt(kmem, k, mem)
  BY <1>7, <1>10 DEF ChildOn, TrapAt, Entered, OnlyAt
<1>12. Touches(out, {c})
  <2>1. out \in [Page \cup {NULL} -> Seq(Int)] /\ out[k] = mem[k]
    BY <1>8, <1>9, <1>11 DEF OnlyAt
  <2>2. Len(out[k]) >= 10
    <3>1. Len(mem[k]) = 10
      BY <1>8 DEF TrapOn
    <3>2. Len(out[k]) = 10
      BY <2>1, <3>1
    <3> QED BY <3>2
  <2>3. \A q \in Slot \ {p, c} : Here(q)' => out[stack[q]] = kmem[stack[q]]
    BY <1>9, <1>11 DEF OnlyAt
  <2> QED BY <1>3, <1>8, <2>1, <2>2, <2>3 DEF Touches
<1>13. PICK i, v, w, new, child :
         /\ i = 2 /\ v = pid_num /\ w = 0
         /\ new = [Own EXCEPT !.rip = 2, !.rax = pid_num]
         /\ child = [Own EXCEPT !.rip = 2, !.rax = 0]
  OBVIOUS
<1>14. IsWord(i) /\ IsWord(v) /\ IsWord(w)
  BY <1>2, <1>13 DEF IsWord, ForkMakes
<1>15. /\ new \in Registers /\ new.rip = 2 /\ new.rax = v /\ new.rbx = Own.rbx /\ new.rbp = Own.rbp
       /\ child \in Registers /\ child.rip = 2 /\ child.rax = 0 /\ child.rbx = Own.rbx /\ child.rbp = Own.rbp
  <2>1. Own \in Registers
    BY OwnRegisters DEF Own
  <2>2. Returns(Own, i, v, new) /\ Returns(Own, i, w, child)
    BY <1>13, Zenon DEF Returns
  <2>3. new \in Registers /\ new.rip = i /\ new.rax = v /\ new.rbx = Own.rbx /\ new.rbp = Own.rbp
    BY <1>14, <2>1, <2>2, OwnResult
  <2>4. child \in Registers /\ child.rip = i /\ child.rax = w /\ child.rbx = Own.rbx /\ child.rbp = Own.rbp
    BY <1>14, <2>1, <2>2, OwnResult
  <2> QED BY <1>13, <2>3, <2>4
<1>16. /\ mine' \in [Slot -> Registers] /\ mine'[p] = new /\ mine'[c] = child
       /\ \A q \in Slot \ {p, c} : mine'[q] = mine[q]
  <2>1. PICK one : one = [mine EXCEPT ![p] = new]
    OBVIOUS
  <2>2. mine' = [one EXCEPT ![c] = child]
    BY <1>1, <1>3, <1>4, <1>13, <2>1, Zenon DEF ChildMade
  <2>3. one \in [Slot -> Registers] /\ one[p] = new /\ \A q \in Slot \ {p} : one[q] = mine[q]
    BY <1>3, <1>5, <1>15, <2>1
  <2> QED BY <1>3, <1>4, <1>15, <2>2, <2>3
<1>17. kstack'[c] = UserFrame /\ FramesOK'
  <2>1. kstack[c].at = "user"
    BY <1>2 DEF ForkMakes, Running, IInv, SlotsOK
  <2> QED BY <1>4, <2>1 DEF FramesOK, WordsInv
<1>18. OthersKept({c})
  <2>1. ASSUME NEW q \in Slot \ ({current_process} \cup {c}), Here(q)'
        PROVE  Here(q) /\ stack'[q] = stack[q] /\ mine'[q] = mine[q] /\ kstack'[q] = kstack[q]
    BY <1>3, <1>4, <1>6, <1>9, <1>16, <2>1
  <2> QED BY <1>3, <1>8, <1>16, <1>17, <2>1 DEF OthersKept
<1>19. context' = [context EXCEPT ![c] = [stk |-> t, rsp |-> 9]]
  <2>1. FreshContext(t) = [stk |-> t, rsp |-> 9]
    BY DEF FreshContext, TRAP_FRAME, SWAP_FRAME
  <2> QED BY <1>1, <1>4, <2>1 DEF ChildMade
<1>20. ContextsKept({c})
  BY <1>4, <1>5, <1>9, <1>19 DEF ContextsKept
<1>21. ParkedIn(out, c) /\ stack'[c] \in (Page \cup {NULL}) \ {k}
  <2>1. context'[c] = [stk |-> t, rsp |-> 9]
    BY <1>4, <1>5, <1>19
  <2>2. FreshLayout(out[t]) /\ Len(out[t]) = 9
    BY <1>10 DEF ChildOn, FreshLayout
  <2>3. HoldsRegisters(out[t], c, child, UserFrame)
    BY <1>3, <1>4, <1>8, <1>10, <1>15 DEF ChildOn, TrapOn, HoldsRegisters, UserFrame, Cs, Own
  <2> QED BY <1>4, <1>9, <1>16, <1>17, <2>1, <2>2, <2>3 DEF ParkedIn
<1>22. Becomes(TrapReturn(Leave(Result(Mach(Ring0, k, 10, ip, a, b, 7, out), v))))
  <2>1. PICK m : m = InKernel(SyscallTrap, UserFrame) /\ m = Mach(Ring0, k, 10, ip, a, b, 7, mem)
    BY <1>7 DEF TrapAt
  <2>2. WithChild(m) = Mach(Ring0, k, 10, ip, a, b, 7, out)
    <3>1. t = stack'[FirstFree] /\ k = stack[current_process]
      BY <1>3, <1>4, <1>8
    <3>2. out = WithChildOn(mem, k, t)
      BY <1>10
    <3> QED BY <2>1, <3>1, <3>2, ChildIs
  <2> QED BY <1>1, <1>13, <2>1, <2>2 DEF ChildMade
<1>23. out[k][1] = Cs(current_process) /\ out[k][2] = new.rip /\ out[k][5] = new.rbx /\ out[k][6] = new.rbp
  BY <1>8, <1>9, <1>11, <1>15 DEF OnlyAt, TrapOn, Own
<1>24. \A q \in Slot \ ({current_process} \cup {c}) : Here(q)' => Here(q)
  BY <1>18 DEF OthersKept
<1>25. \A q \in {c} : Here(q)' => ParkedIn(out, q) /\ stack'[q] \in (Page \cup {NULL}) \ {k}
  BY <1>21
<1>26. /\ IsWord(v) /\ new = mine'[current_process] /\ v = new.rax /\ k = stack[current_process]
       /\ UNCHANGED current_process /\ kstack'[current_process].at = "user"
  BY <1>3, <1>4, <1>8, <1>14, <1>15, <1>16
<1> QED BY <1>12, <1>18, <1>20, <1>22, <1>23, <1>24, <1>25, <1>26, ResultStep
-----------------------------------------------------------------------------
(***************************************************************************)
(* The theorems.                                                           *)
(***************************************************************************)

\* The machine starts with the idle process on the CPU and init parked.
LEMMA WordsInit ==
  ASSUME CInit
  PROVE  CInv
<1>1. MInv
  BY MemoryInit
<1>2. /\ state = [p \in Slot |-> CASE p = Idle -> "RUNNING" [] p = InitProc -> "READY" [] OTHER -> "UNUSED"]
      /\ kstack = [p \in Slot |-> UserFrame] /\ current_process = Idle /\ panic = "none"
  BY DEF CInit, MInit, Init
<1>3. Idle \in Slot /\ InitProc \in Slot /\ InitProc # Idle
  BY ConstantsAssumption DEF Slot, Idle, InitProc
<1>4. Running
  BY <1>1, <1>2 DEF MInv
<1>5. PICK t : t = stack[InitProc] /\ t \in Page \cup {NULL} /\ t # NULL
  <2>1. InitProc \in UsedSlots
    BY <1>2, <1>3 DEF UsedSlots
  <2> QED BY <1>3, <1>4, <2>1, StackTypes
<1>6. /\ FreshStack \in Seq(Int) /\ Len(FreshStack) = 9 /\ FreshStack[7] = TrapReturnAddress
      /\ FreshStack[1] = Ring3 /\ FreshStack[2] = 0 /\ FreshStack[4] = 0
      /\ FreshStack[5] = 0 /\ FreshStack[6] = 0
  BY FreshStackWords
<1>7. PICK zero : zero = Zero /\ zero \in Registers /\ zero.rip = 0 /\ zero.rax = 0 /\ zero.rbx = 0 /\ zero.rbp = 0
  <2>1. Zero \in Registers /\ Zero.rip = 0 /\ Zero.rax = 0 /\ Zero.rbx = 0 /\ Zero.rbp = 0
    BY DEF Zero, Registers
  <2> QED BY <2>1
<1>8. cpu = Outside(Cs(Idle), zero) /\ mine = [p \in Slot |-> zero]
  BY <1>7 DEF CInit, Cs
<1>9. kmem \in [Page \cup {NULL} -> Seq(Int)] /\ kmem[t] = FreshStack
  <2>1. <<>> \in Seq(Int)
    OBVIOUS
  <2> QED BY <1>5, <1>6, <2>1 DEF CInit
<1>10. /\ context \in [Slot -> [stk : Page \cup {NULL}, rsp : Nat]]
       /\ context[InitProc] = [stk |-> t, rsp |-> 9]
  <2>1. FreshContext(t) = [stk |-> t, rsp |-> 9]
    BY DEF FreshContext, TRAP_FRAME, SWAP_FRAME
  <2>2. context = [p \in Slot |-> IF p = InitProc THEN [stk |-> t, rsp |-> 9] ELSE [stk |-> NULL, rsp |-> 0]]
    BY <1>5, <2>1 DEF CInit
  <2> QED BY <1>3, <1>5, <2>2
<1>11. CTypes
  <2>1. cpu \in [cs : Int, stk : Page \cup {NULL}, rsp : Nat, rip : Int, rax : Int, rbx : Int, rbp : Int]
    BY <1>7, <1>8, OutsideType
  <2>2. mine \in [Slot -> Registers]
    BY <1>7, <1>8
  <2> QED BY <1>9, <1>10, <2>1, <2>2 DEF CTypes
<1>12. FramesOK
  BY <1>2 DEF FramesOK, UserFrame
<1>13. RunsWell
  BY <1>2, <1>3, <1>8 DEF RunsWell, UserFrame
<1>14. ParkedWell(InitProc)
  <2>1. HoldsRegisters(FreshStack, InitProc, zero, UserFrame)
    BY <1>3, <1>6, <1>7 DEF HoldsRegisters, UserFrame, Cs
  <2>2. FreshLayout(FreshStack)
    BY <1>6 DEF FreshLayout
  <2>3. kstack[InitProc] = UserFrame /\ mine[InitProc] = zero
    BY <1>2, <1>3, <1>8
  <2>4. context[InitProc] = [stk |-> t, rsp |-> Len(FreshStack)]
    BY <1>6, <1>10
  <2> QED BY <1>5, <1>9, <2>1, <2>2, <2>3, <2>4 DEF ParkedWell
<1>15. \A p \in Slot \ {current_process} : p = Idle \/ Live(p) => p = InitProc
  BY <1>2, <1>3 DEF Live
<1> QED BY <1>1, <1>11, <1>12, <1>13, <1>14, <1>15 DEF CInv, WordsInv

\* Every step keeps the invariant.
LEMMA WordsStep ==
  ASSUME CInv, [CNext]_<<mvars, cvars>>
  PROVE  CInv'
<1>1. MInv /\ MInv'
  BY MemoryStep DEF CInv
<1>2. SUFFICES ASSUME panic' = "none"  PROVE WordsInv'
  BY <1>1 DEF CInv
<1>3. Running' /\ Sound(heap')
  BY <1>1, <1>2 DEF MInv
<1>4. CASE panic # "none"
  <2>1. UNCHANGED panic
    BY <1>4 DEF CNext, Stopped, UserWorks, CTimer, SysInvalid, CWait, CWaitResumed, CFork, CExit,
                SysExec, TimerInterrupt, InSyscall, UserMode, SysWait, ResumeWait, Resumed,
                MFork, SysFork, Exit, mvars, vars
  <2> QED BY <1>2, <1>4, <2>1
<1>5. CASE panic = "none"
  <2>1. Running /\ Sound(heap) /\ WordsInv
    BY <1>1, <1>5 DEF MInv, CInv
  <2>2. CASE UserWorks
    BY <1>3, <2>1, <2>2, UserWords
  <2>3. CASE CTimer
    BY <1>3, <2>1, <2>3, TimerWords
  <2>4. CASE SysInvalid
    BY <1>3, <2>1, <2>4, InvalidWords
  <2>5. CASE CWait
    BY <1>3, <2>1, <2>5, WaitWords
  <2>6. CASE CWaitResumed
    BY <1>3, <2>1, <2>6, WaitResumedWords
  <2>7. CASE CFork
    BY <1>2, <1>3, <2>1, <2>7, ForkWords
  <2>8. CASE CExit
    BY <1>3, <2>1, <2>8, ExitWords
  <2>9. CASE SysExec
    BY <1>3, <2>1, <2>9, ExecWords
  <2>10. CASE UNCHANGED <<mvars, cvars>>
    <3>1. UNCHANGED <<state, kstack, current_process, stack, cpu, kmem, context, mine>>
      BY <2>10 DEF mvars, vars, memvars, cvars
    <3>2. ASSUME NEW q \in Slot \ {current_process}, Here(q)  PROVE ParkedWell(q)'
      <4>1. ParkedWell(q)
        BY <2>1, <3>2 DEF WordsInv, Here
      <4> QED BY <3>1, <4>1, StaysParked
    <3>3. \A q \in Slot : Here(q)' <=> Here(q)
      BY <3>1 DEF Here, Live
    <3>4. CTypes' /\ FramesOK' /\ RunsWell'
      BY <2>1, <3>1 DEF WordsInv, CTypes, FramesOK, RunsWell
    <3> QED BY <3>1, <3>2, <3>3, <3>4 DEF WordsInv, Here
  <2> QED BY <1>5, <2>2, <2>3, <2>4, <2>5, <2>6, <2>7, <2>8, <2>9, <2>10 DEF CNext, Stopped
<1> QED BY <1>4, <1>5

\* The invariant of the kernel stacks and of the registers holds in every
\* reachable state.
THEOREM WordsInvariance == CSpec => []CInv
<1>1. CInit => CInv
  BY WordsInit
<1>2. CInv /\ [CNext]_<<mvars, cvars>> => CInv'
  BY WordsStep
<1> QED BY <1>1, <1>2, PTL DEF CSpec

\* Whatever ran in between, every process finds its own registers when it comes
\* back to user mode, with the result of its system call in rax.
THEOREM RegistersComeBack == CSpec => []ReturnsToOwnRegisters
<1>1. CInv => ReturnsToOwnRegisters
  BY DEF CInv, WordsInv, RunsWell, UserMode, ReturnsToOwnRegisters, Cs
<1> QED BY <1>1, WordsInvariance, PTL

\* The three words of a frame of a C call.
LEMMA ThreeWords ==
  ASSUME NEW s \in Seq(Int), Len(s) >= 10
  PROVE  SubSeq(s, 8, 10) = <<s[8], s[9], s[10]>>
<1>1. \A i \in 8 .. 10 : s[i] \in Int
  <2>1. \A i \in 8 .. 10 : i \in 1 .. Len(s)
    BY LenProperties
  <2> QED BY <2>1, LenProperties
<1>2. PICK r : r = SubSeq(s, 8, 10)
  OBVIOUS
<1>3. PICK lo, hi : lo = 8 /\ hi = 10
  OBVIOUS
<1>4. /\ SubSeq(s, lo, hi) \in Seq(Int)
      /\ Len(SubSeq(s, lo, hi)) = IF lo <= hi THEN hi - lo + 1 ELSE 0
      /\ \A i \in 1 .. hi - lo + 1 : SubSeq(s, lo, hi)[i] = s[lo + i - 1]
  <2>1. lo \in Int /\ hi \in Int /\ \A i \in lo .. hi : s[i] \in Int
    BY <1>1, <1>3
  <2> QED BY <2>1, SubSeqProperties
<1>5. r = SubSeq(s, lo, hi)
  BY <1>2, <1>3
<1>6. r \in Seq(Int) /\ Len(r) = 3 /\ \A i \in 1 .. 3 : r[i] = s[lo + i - 1]
  BY <1>3, <1>4, <1>5
<1>7. r[1] = s[8] /\ r[2] = s[9] /\ r[3] = s[10]
  BY <1>3, <1>6
<1>8. r = <<r[1], r[2], r[3]>>
  BY <1>6
<1> QED BY <1>2, <1>7, <1>8

\* What a process parked well finds on its stack is the call it is in.
LEMMA ParkedReads ==
  ASSUME NEW p, ParkedWell(p)
  PROVE  /\ context[p].stk = stack[p]
         /\ Parked(p) = <<Code(kstack[p].at), kstack[p].arg, kstack[p].old>>
<1>1. PICK s : s = kmem[stack[p]]
  OBVIOUS
<1>2. context[p].stk = stack[p] /\ context[p].rsp = Len(s)
  BY <1>1 DEF ParkedWell
<1>3. CASE FreshLayout(s) /\ kstack[p] = UserFrame
  <2>1. context[p].rsp - SWAP_FRAME + 1 = 7 /\ s[7] = TrapReturnAddress
    BY <1>2, <1>3 DEF FreshLayout, SWAP_FRAME
  <2>2. Parked(p) = <<Code("user"), 0, 0>>
    BY <1>1, <1>2, <2>1 DEF Parked
  <2>3. kstack[p].at = "user" /\ kstack[p].arg = 0 /\ kstack[p].old = 0
    BY <1>3 DEF UserFrame
  <2> QED BY <1>2, <2>2, <2>3
<1>4. CASE SwappedLayout(s) /\ HoldsCall(s, kstack[p])
  <2>1. /\ context[p].rsp - SWAP_FRAME + 1 = 11 /\ context[p].rsp - SWAP_FRAME + 3 = 13
        /\ s[11] # TrapReturnAddress /\ s[13] = 7
    BY <1>2, <1>4 DEF SwappedLayout, SWAP_FRAME, ScheduleAddress, TrapReturnAddress
  <2>2. s[13] + 1 = 8 /\ s[13] + 2 = 9 /\ s[13] + 3 = 10
    BY <2>1
  <2>3. Parked(p) = <<s[8], s[9], s[10]>>
    BY <1>1, <1>2, <2>1, <2>2 DEF Parked
  <2> QED BY <1>2, <1>4, <2>3 DEF HoldsCall
<1> QED BY <1>1, <1>3, <1>4 DEF ParkedWell

\* Every process that is alive and does not run is parked on its own stack,
\* inside the blocking call and with the locals that Process says it has.
THEOREM StacksHoldFrames == CSpec => []StacksTellFrames
<1>1. CInv => StacksTellFrames
  <2> SUFFICES ASSUME CInv, panic = "none", NEW p \in Slot, p = Idle \/ Live(p)
               PROVE  LET frame == <<Code(kstack[p].at), kstack[p].arg, kstack[p].old>>
                      IN  IF p # current_process
                          THEN context[p].stk = stack[p] /\ Parked(p) = frame
                          ELSE UserMode \/ /\ cpu.stk = stack[p]
                                           /\ SubSeq(kmem[cpu.stk], cpu.rbp + 1, cpu.rbp + 3) = frame
    BY DEF StacksTellFrames
  <2>1. Running /\ WordsInv
    BY DEF CInv, MInv
  <2>2. CASE p # current_process
    <3>1. ParkedWell(p)
      BY <2>1, <2>2 DEF WordsInv
    <3> QED BY <2>2, <3>1, ParkedReads
  <2>3. CASE p = current_process /\ kstack[p].at = "user"
    BY <2>3 DEF UserMode
  <2>4. CASE p = current_process /\ kstack[p].at # "user"
    <3>1. PICK s : s = kmem[stack[p]]
      OBVIOUS
    <3>2. cpu.stk = stack[p] /\ cpu.rbp = 7 /\ Len(s) >= 10 /\ HoldsCall(s, kstack[p])
      BY <2>1, <2>4, <3>1 DEF WordsInv, RunsWell
    <3>3. s \in Seq(Int)
      BY <2>1, <2>4, <3>1, OwnRegisters DEF WordsInv, CTypes
    <3>4. SubSeq(s, 8, 10) = <<s[8], s[9], s[10]>>
      BY <3>2, <3>3, ThreeWords
    <3>5. cpu.rbp + 1 = 8 /\ cpu.rbp + 3 = 10
      BY <3>2
    <3> QED BY <2>4, <3>1, <3>2, <3>4, <3>5 DEF HoldsCall
  <2> QED BY <2>2, <2>3, <2>4
<1> QED BY <1>1, WordsInvariance, PTL
=============================================================================
