------------------------------ MODULE Process ------------------------------
(***************************************************************************)
(* The process core of the kernel: the process table, the ready, wait and  *)
(* kill lists, the round-robin scheduler, and the system calls and         *)
(* interrupts that move a process between them (process.c, with the        *)
(* callers in trap.c, syscall.c and keyboard.c).                           *)
(*                                                                         *)
(* The kernel runs with interrupts off (every gate of init_idt is an       *)
(* interrupt gate), so a handler is atomic up to the point where it calls  *)
(* schedule().  There swap() parks the caller on its own kernel stack and  *)
(* resumes another process where that one had called schedule() itself.    *)
(* What is parked is kstack[p]: "user" for a process that will return      *)
(* straight to user mode (for the idle process: to its sti/hlt loop),      *)
(* otherwise the blocking call it is inside and that call's locals.        *)
(*                                                                         *)
(* remove_list(list, w) takes the first element whose wait field is w, so  *)
(* the order of elements with different wait fields is never observed: the *)
(* wait list is modelled as one FIFO per event, and the kill list, whose   *)
(* wait fields are the distinct pids, as a set.  Module Lists checks that  *)
(* the pointer code of lib.c does implement this.                          *)
(***************************************************************************)
EXTENDS Integers, SequencesExt

CONSTANTS
  NUM_PROC,     \* number of slots of process_table
  MAX_PID,      \* bound: the largest pid fork() hands out
  TICK_MOD,     \* ticks is an unsigned counter modulo TICK_MOD
  SLEEP_TICKS,  \* the arguments sys_sleep is called with
  WAIT_PIDS     \* the arguments sys_wait is called with

ASSUME ConstantsAssumption ==
  /\ NUM_PROC \in Nat /\ NUM_PROC >= 2
  /\ MAX_PID \in Nat /\ MAX_PID >= 1
  /\ TICK_MOD \in Nat \ {0}
  /\ SLEEP_TICKS \subseteq Nat
  /\ WAIT_PIDS \subseteq Int

Slot == 0 .. NUM_PROC - 1
Idle == 0
InitProc == 1

\* The events a process sleeps on: a tick, a key, the death of a process.
TickEvent == -1
KeyEvent  == -2
ExitEvent == -3
Event == {TickEvent, KeyEvent, ExitEvent}

\* INIT is seen only in module Memory, on a slot that fork() could not finish.
States == {"UNUSED", "INIT", "RUNNING", "READY", "SLEEP", "KILLED"}
Frame == [at : {"user", "sys_sleep", "read_key", "wait"},
          arg : Int, old : 0 .. TICK_MOD - 1]
UserFrame == [at |-> "user", arg |-> 0, old |-> 0]

VARIABLES
  state,            \* Process.state of every slot
  pid,              \* Process.pid of every slot
  kstack,           \* where the process of a slot is parked
  current_process,  \* the slot that owns the CPU
  ready_list,       \* runnable slots, the next one to run first
  wait_list,        \* per event, the slots asleep on it, oldest first
  kill_list,        \* slots of dead processes nobody has waited for yet
  pid_num,          \* the next pid
  ticks,            \* timer interrupts so far, modulo TICK_MOD
  panic             \* the failed ASSERT that stopped the machine, or "none"

vars == <<state, pid, kstack, current_process, ready_list, wait_list,
          kill_list, pid_num, ticks, panic>>

Init ==
  /\ state = [p \in Slot |-> CASE p = Idle -> "RUNNING"
                               [] p = InitProc -> "READY"
                               [] OTHER -> "UNUSED"]
  /\ pid = [p \in Slot |-> IF p = InitProc THEN 1 ELSE 0]
  /\ kstack = [p \in Slot |-> UserFrame]
  /\ current_process = Idle
  /\ ready_list = <<InitProc>>
  /\ wait_list = [e \in Event |-> <<>>]
  /\ kill_list = {}
  /\ pid_num = 2
  /\ ticks = 0
  /\ panic = "none"

(***************************************************************************)
(* schedule() on the states st and the ready list rl its caller has built: *)
(* the head of the ready list runs next, or the idle process if there is   *)
(* none.  The idle process itself must never find the list empty.          *)
(***************************************************************************)
Schedule(st, rl) ==
  LET next == IF rl = <<>> THEN Idle ELSE Head(rl)
  IN /\ state' = [st EXCEPT ![next] = "RUNNING"]
     /\ current_process' = next
     /\ ready_list' = IF rl = <<>> THEN rl ELSE Tail(rl)
     /\ panic' = IF rl = <<>> /\ pid[current_process] = 0
                   THEN "schedule" ELSE panic

\* Slips, used only to see that the properties notice: yield() queues the idle
\* process too; goes on without looking at the list; requeues at the head.
YieldQueuesIdle(st, rl) ==
  \/ rl = <<>> /\ state' = st /\ ready_list' = rl /\ UNCHANGED <<current_process, panic>>
  \/ rl # <<>> /\ Schedule([st EXCEPT ![current_process] = "READY"],
                           Append(rl, current_process))
YieldUnchecked(st, rl) ==
  Schedule([st EXCEPT ![current_process] = "READY"],
           IF pid[current_process] = 0 THEN rl ELSE Append(rl, current_process))
YieldAtHead(st, rl) ==
  \/ rl = <<>> /\ state' = st /\ ready_list' = rl /\ UNCHANGED <<current_process, panic>>
  \/ rl # <<>> /\ Schedule([st EXCEPT ![current_process] = "READY"],
                           IF pid[current_process] = 0 THEN rl ELSE <<current_process>> \o rl)

\* yield(): requeue the current process, unless nobody else is ready.  The
\* idle process is never queued.
Yield(st, rl) ==
  \/ /\ rl = <<>>
     /\ state' = st
     /\ ready_list' = rl
     /\ UNCHANGED <<current_process, panic>>
  \/ /\ rl # <<>>
     /\ Schedule([st EXCEPT ![current_process] = "READY"],
                 IF pid[current_process] = 0
                   THEN rl ELSE Append(rl, current_process))

\* sleep(e), called by the current process.
Sleep(e) ==
  /\ wait_list' = [wait_list EXCEPT ![e] = Append(@, current_process)]
  /\ Schedule([state EXCEPT ![current_process] = "SLEEP"], ready_list)

\* Slip: wake_up() moves the sleepers but leaves them in PROC_SLEEP.
WokenStateForgotten(e) == state

\* What wake_up(e) makes of the states, the ready list and the wait list.
WokenState(e) ==
  [p \in Slot |-> IF p \in Range(wait_list[e]) THEN "READY" ELSE state[p]]
WokenReady(e) == ready_list \o wait_list[e]
WokenWait(e)  == [wait_list EXCEPT ![e] = <<>>]

(***************************************************************************)
(* Interrupts.  They are taken only while the current process is in user   *)
(* mode or the idle process sits in its hlt loop.                          *)
(***************************************************************************)
UserMode == panic = "none" /\ kstack[current_process].at = "user"

\* IRQ 0: timer_handler() wakes the sleepers, then handler() yields.
TimerInterrupt ==
  /\ UserMode
  /\ ticks' = (ticks + 1) % TICK_MOD
  /\ wait_list' = WokenWait(TickEvent)
  /\ Yield(WokenState(TickEvent), WokenReady(TickEvent))
  /\ UNCHANGED <<pid, kstack, kill_list, pid_num>>

\* IRQ 1 with a printable key: keyboard_handler() wakes the readers and
\* returns to whatever was interrupted.
KeyInterrupt ==
  /\ UserMode
  /\ state' = WokenState(KeyEvent)
  /\ ready_list' = WokenReady(KeyEvent)
  /\ wait_list' = WokenWait(KeyEvent)
  /\ UNCHANGED <<pid, kstack, current_process, kill_list, pid_num, ticks, panic>>

(***************************************************************************)
(* System calls of the current process.                                    *)
(***************************************************************************)
InSyscall == UserMode /\ current_process # Idle
Park(at, arg, old) ==
  kstack' = [kstack EXCEPT ![current_process] = [at |-> at, arg |-> arg, old |-> old]]
ReturnToUser == kstack' = [kstack EXCEPT ![current_process] = UserFrame]

\* One turn of the loop of sys_sleep(n), which began at tick old.
SleepLoop(n, old) ==
  \/ /\ (ticks - old) % TICK_MOD < n
     /\ Park("sys_sleep", n, old)
     /\ Sleep(TickEvent)
     /\ UNCHANGED <<pid, kill_list, pid_num, ticks>>
  \/ /\ (ticks - old) % TICK_MOD >= n
     /\ ReturnToUser
     /\ UNCHANGED <<state, pid, current_process, ready_list, wait_list,
                    kill_list, pid_num, ticks, panic>>

\* read_key_buffer() on an empty buffer: sleep once, holding the front index it
\* has read, and do not look at the buffer again.  The buffer is module
\* Keyboard's; a read that finds a key changes nothing here.
BlockOnKey(front) ==
  /\ Park("read_key", front, 0)
  /\ Sleep(KeyEvent)
  /\ UNCHANGED <<pid, kill_list, pid_num, ticks>>

\* wait(k) finds the corpse z: it frees everything and clears the slot.
Reap(z) ==
  /\ panic' = IF state[z] # "KILLED" THEN "wait" ELSE panic
  /\ kill_list' = kill_list \ {z}
  /\ state' = [state EXCEPT ![z] = "UNUSED"]
  /\ pid' = [pid EXCEPT ![z] = 0]
  /\ ReturnToUser
  /\ UNCHANGED <<current_process, ready_list, wait_list, pid_num, ticks>>

\* One turn of the loop of wait(k).
WaitLoop(k) ==
  LET dead == {z \in kill_list : pid[z] = k}
  IN \/ \E z \in dead : Reap(z)
     \/ /\ dead = {}
        /\ Park("wait", k, 0)
        /\ Sleep(ExitEvent)
        /\ UNCHANGED <<pid, kill_list, pid_num, ticks>>

\* Slip: a sleeper that wakes up counts its ticks from the start again.
ResumeSleepAfresh ==
  panic = "none" /\ kstack[current_process].at = "sys_sleep"
    /\ SleepLoop(kstack[current_process].arg, ticks)

\* Slip: wait() sleeps before it looks at the kill list.
SysWaitBlind ==
  /\ InSyscall
  /\ \E k \in WAIT_PIDS : Park("wait", k, 0)
  /\ Sleep(ExitEvent)
  /\ UNCHANGED <<pid, kill_list, pid_num, ticks>>

SysSleep == InSyscall /\ \E n \in SLEEP_TICKS : SleepLoop(n, ticks)
SysKeyboardRead == InSyscall /\ BlockOnKey(0)
SysWait == InSyscall /\ \E k \in WAIT_PIDS : WaitLoop(k)

\* Slip: the slot of a process that is dead, but not waited for, is reused.
FreeSlotsDead == {p \in Slot : state[p] \in {"UNUSED", "KILLED"}}

\* The lowest unused slot, as find_unused_process() scans the table.
FreeSlots == {p \in Slot : state[p] = "UNUSED"}
FirstFree == CHOOSE p \in FreeSlots : \A q \in FreeSlots : p <= q

\* fork(): the child starts in user mode, at the tail of the ready list.
\* A full table fails ASSERT(0).
SysFork ==
  /\ InSyscall
  /\ \/ /\ FreeSlots # {}
        /\ pid_num <= MAX_PID
        /\ state' = [state EXCEPT ![FirstFree] = "READY"]
        /\ pid' = [pid EXCEPT ![FirstFree] = pid_num]
        /\ pid_num' = pid_num + 1
        /\ ready_list' = Append(ready_list, FirstFree)
        /\ UNCHANGED <<kstack, current_process, wait_list, kill_list, ticks, panic>>
     \/ /\ FreeSlots = {}
        /\ panic' = "fork"
        /\ UNCHANGED <<state, pid, kstack, current_process, ready_list,
                       wait_list, kill_list, pid_num, ticks>>

\* Slip: exit() tells nobody.
ExitSilent ==
  /\ InSyscall
  /\ kill_list' = kill_list \cup {current_process}
  /\ Schedule([state EXCEPT ![current_process] = "KILLED"], ready_list)
  /\ UNCHANGED <<pid, kstack, wait_list, pid_num, ticks>>

\* exit(): sys_exit, a fault in ring 3, or an exec that cannot load its file.
Exit ==
  /\ InSyscall
  /\ kill_list' = kill_list \cup {current_process}
  /\ wait_list' = WokenWait(ExitEvent)
  /\ Schedule([WokenState(ExitEvent) EXCEPT ![current_process] = "KILLED"],
              WokenReady(ExitEvent))
  /\ UNCHANGED <<pid, kstack, pid_num, ticks>>

(***************************************************************************)
(* A process that was parked inside a blocking call has been switched to:  *)
(* it goes on in the kernel, interrupts still off, where sleep() returned. *)
(***************************************************************************)
Resumed(at) == panic = "none" /\ kstack[current_process].at = at

ResumeSleep ==
  /\ Resumed("sys_sleep")
  /\ SleepLoop(kstack[current_process].arg, kstack[current_process].old)

ResumeKey ==
  /\ Resumed("read_key")
  /\ ReturnToUser
  /\ UNCHANGED <<state, pid, current_process, ready_list, wait_list,
                 kill_list, pid_num, ticks, panic>>

ResumeWait ==
  /\ Resumed("wait")
  /\ WaitLoop(kstack[current_process].arg)

Resume == ResumeSleep \/ ResumeKey \/ ResumeWait

\* A failed ASSERT loops for ever with interrupts off.
Stopped == panic # "none" /\ UNCHANGED vars

Next ==
  \/ TimerInterrupt
  \/ KeyInterrupt
  \/ SysSleep
  \/ SysKeyboardRead
  \/ SysWait
  \/ SysFork
  \/ Exit
  \/ ResumeSleep
  \/ ResumeKey
  \/ ResumeWait
  \/ Stopped

Spec == Init /\ [][Next]_vars

(***************************************************************************)
(* The PIT interrupts periodically and the PIC holds an interrupt until it *)
(* is taken, so a tick that is possible again and again does happen; a     *)
(* resumed process runs on without waiting for anything.                   *)
(***************************************************************************)
Fairness == SF_vars(TimerInterrupt) /\ WF_vars(Resume)
FairSpec == Spec /\ Fairness

(***************************************************************************)
(* Properties.                                                             *)
(***************************************************************************)

\* Every variable has its type; only real processes (never the idle one) are
\* ever linked into a list.
TypeOK ==
  /\ state \in [Slot -> States]
  /\ pid \in [Slot -> 0 .. MAX_PID]
  /\ kstack \in [Slot -> Frame]
  /\ current_process \in Slot
  /\ ready_list \in Seq(Slot \ {Idle})
  /\ wait_list \in [Event -> Seq(Slot \ {Idle})]
  /\ kill_list \subseteq Slot \ {Idle}
  /\ pid_num \in 2 .. MAX_PID + 1
  /\ ticks \in 0 .. TICK_MOD - 1
  /\ panic \in {"none", "schedule", "wait", "fork"}

\* The event the blocking call of a frame sleeps on.
EventOf(f) == CASE f.at = "sys_sleep" -> TickEvent
                [] f.at = "read_key"  -> KeyEvent
                [] f.at = "wait"      -> ExitEvent
                [] f.at = "user"      -> 0

\* The three lists and the state fields tell one story.  A process owns one
\* next pointer, so it must be on at most one list, once; it is on the ready
\* list exactly when READY, on the wait list exactly when SLEEP, and then for
\* the event of the call it is blocked in, on the kill list exactly when
\* KILLED, and on none when it runs or its slot is free.
ListsMatchStates ==
  /\ IsInjective(ready_list)
  /\ \A e \in Event : IsInjective(wait_list[e])
  /\ \A p \in Slot \ {Idle} :
       /\ state[p] = "READY" <=> p \in Range(ready_list)
       /\ \A e \in Event : p \in Range(wait_list[e]) <=>
                             state[p] = "SLEEP" /\ EventOf(kstack[p]) = e
       /\ state[p] = "SLEEP" => EventOf(kstack[p]) \in Event
       /\ state[p] = "KILLED" <=> p \in kill_list
       /\ state[p] = "RUNNING" <=> p = current_process

\* Of the ASSERTs on the process paths only fork's can fail: the idle process
\* never schedules with nothing to run, and a process on the kill list is dead.
OnlyForkAsserts == panic \in {"none", "fork"}

\* No wakeup of a waiting parent is lost: whenever a process is asleep in
\* wait(k), there is no corpse with pid k on the kill list.  (exit() publishes
\* the corpse, then wakes; wait() looks, then sleeps, with no gap between.)
NoLostWakeup ==
  \A p \in Range(wait_list[ExitEvent]), z \in kill_list : kstack[p].arg # pid[z]

\* sys_sleep(n) overruns by less than a round of the ready list: as long as a
\* process is inside the call, at most n + NUM_PROC - 2 ticks have passed.  So
\* the unsigned difference is never near the wrap of the tick counter.
SleepOverrun ==
  \A p \in Slot : kstack[p].at = "sys_sleep" =>
    (ticks - kstack[p].old) % TICK_MOD <= kstack[p].arg + NUM_PROC - 2

\* A process that is ready runs, whatever the others do (unless an ASSERT
\* stops the machine): the scheduler starves nobody.
ReadyRuns ==
  \A p \in Slot \ {Idle} :
    state[p] = "READY" ~> state[p] = "RUNNING" \/ panic # "none"

\* sys_sleep returns.
SleepEnds ==
  \A p \in Slot : kstack[p].at = "sys_sleep" ~> kstack[p].at = "user" \/ panic # "none"

(***************************************************************************)
(* The abstract life cycle this module implements.                         *)
(***************************************************************************)
Live(p) == p # Idle /\ state[p] \in {"RUNNING", "READY", "SLEEP"}

Life == INSTANCE Lifecycle WITH
  CAPACITY <- NUM_PROC - 1,
  MAX_PID  <- MAX_PID,
  TARGETS  <- WAIT_PIDS,
  alive    <- {pid[p] : p \in {q \in Slot : Live(q)}},
  corpse   <- {pid[p] : p \in kill_list},
  waiting  <- {<<pid[p], kstack[p].arg>> : p \in {q \in Slot : kstack[q].at = "wait"}},
  next_pid <- pid_num,
  halted   <- panic # "none"

\* fork, exit and wait keep the promises of Lifecycle: pids are unique, a
\* corpse is collected exactly once and only by a wait for its pid, wait
\* returns only with a corpse, slots never leak (fork fails only on a table
\* full of live and dead processes), and a corpse somebody waits for is
\* collected in the end.
ImplementsLifecycle == Life!FairSpec
=============================================================================
