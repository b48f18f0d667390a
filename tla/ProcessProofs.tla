--------------------------- MODULE ProcessProofs ---------------------------
(***************************************************************************)
(* The safety invariants of Process hold for every number of slots, every  *)
(* bound on the pids and every argument of the system calls.               *)
(*                                                                         *)
(* TypeOK, ListsMatchStates and OnlyForkAsserts are not inductive alone:   *)
(* that fork never hands out the idle process' slot, that schedule can     *)
(* tell the idle process by its pid 0, and that a dead process is not      *)
(* parked inside a blocking call are facts of their own (SlotsOK).         *)
(* That fork, exit and wait implement Lifecycle needs, besides, that no    *)
(* two slots share a pid (PidsOK): the last section.                       *)
(***************************************************************************)
EXTENDS Process, SequencesExt, SequenceTheorems, WellFoundedInduction,
        FiniteSetTheorems, TLAPS

Proc == Slot \ {Idle}

SlotsOK ==
  /\ state[Idle] \in {"READY", "RUNNING"}
  /\ kstack[Idle].at = "user"
  /\ \A p \in Slot : pid[p] = 0 <=> p = Idle \/ state[p] = "UNUSED"
  /\ \A p \in Slot : state[p] \in {"UNUSED", "KILLED"} => kstack[p].at = "user"

IInv == TypeOK /\ ListsMatchStates /\ OnlyForkAsserts /\ SlotsOK

-----------------------------------------------------------------------------
(***************************************************************************)
(* What the list operations of the kernel do to a queue without repetition *)
(* when the queue is seen as a sequence: its type, its elements, and that  *)
(* it stays without repetition.                                            *)
(***************************************************************************)

\* The empty queue (a list the boot code left zeroed).
LEMMA EmptyQueue ==
  ASSUME NEW S
  PROVE  <<>> \in Seq(S) /\ Range(<<>>) = {} /\ IsInjective(<<>>)
BY DEF Range, IsInjective

\* append_list_tail(): the new element is the only one added, and a queue that
\* did not hold it stays without repetition.
LEMMA AppendQueue ==
  ASSUME NEW S, NEW q \in Seq(S), NEW x \in S
  PROVE  /\ Append(q, x) \in Seq(S)
         /\ Append(q, x) # <<>>
         /\ Range(Append(q, x)) = Range(q) \cup {x}
         /\ IsInjective(q) /\ x \notin Range(q) => IsInjective(Append(q, x))
<1>1. /\ Append(q, x) \in Seq(S)
      /\ Len(Append(q, x)) = Len(q) + 1
      /\ Append(q, x)[Len(q) + 1] = x
      /\ \A i \in 1 .. Len(q) : Append(q, x)[i] = q[i]
  BY AppendProperties
<1>2. DOMAIN Append(q, x) = 1 .. Len(q) + 1 /\ DOMAIN q = 1 .. Len(q) /\ Len(q) \in Nat
  BY <1>1, LenProperties
<1>3. Range(Append(q, x)) = Range(q) \cup {x}
  BY <1>1, <1>2 DEF Range
<1>4. ASSUME IsInjective(q), x \notin Range(q)  PROVE IsInjective(Append(q, x))
  BY <1>1, <1>2, <1>4 DEF Range, IsInjective
<1> QED BY <1>1, <1>2, <1>3, <1>4

\* Moving all of one queue behind another, as wake_up() does.
LEMMA ConcatQueue ==
  ASSUME NEW S, NEW q \in Seq(S), NEW r \in Seq(S)
  PROVE  /\ q \o r \in Seq(S)
         /\ Range(q \o r) = Range(q) \cup Range(r)
         /\ IsInjective(q) /\ IsInjective(r) /\ Range(q) \cap Range(r) = {}
              => IsInjective(q \o r)
<1>1. /\ q \o r \in Seq(S)
      /\ Len(q \o r) = Len(q) + Len(r)
      /\ \A i \in 1 .. Len(q) + Len(r) :
           (q \o r)[i] = IF i <= Len(q) THEN q[i] ELSE r[i - Len(q)]
  BY ConcatProperties
<1>2. /\ DOMAIN (q \o r) = 1 .. Len(q) + Len(r)
      /\ DOMAIN q = 1 .. Len(q) /\ Len(q) \in Nat
      /\ DOMAIN r = 1 .. Len(r) /\ Len(r) \in Nat
  BY <1>1, LenProperties
<1>3. Range(q \o r) = Range(q) \cup Range(r)
  <2>1. Range(q \o r) \subseteq Range(q) \cup Range(r)
    BY <1>1, <1>2 DEF Range
  <2>2. Range(q) \subseteq Range(q \o r)
    BY <1>1, <1>2 DEF Range
  <2>3. ASSUME NEW j \in 1 .. Len(r)  PROVE r[j] \in Range(q \o r)
    <3>1. j + Len(q) \in 1 .. Len(q) + Len(r) /\ (q \o r)[j + Len(q)] = r[j]
      BY <1>1, <1>2
    <3> QED BY <3>1, <1>2 DEF Range
  <2> QED BY <2>1, <2>2, <2>3, <1>2 DEF Range
<1>4. ASSUME IsInjective(q), IsInjective(r), Range(q) \cap Range(r) = {},
             NEW a \in DOMAIN (q \o r), NEW b \in DOMAIN (q \o r),
             (q \o r)[a] = (q \o r)[b]
      PROVE  a = b
  <2>1. CASE a <= Len(q) /\ b <= Len(q)
    BY <1>1, <1>2, <1>4, <2>1 DEF IsInjective
  <2>2. CASE a > Len(q) /\ b > Len(q)
    <3>1. a - Len(q) \in DOMAIN r /\ b - Len(q) \in DOMAIN r
      BY <1>2, <2>2
    <3>2. r[a - Len(q)] = r[b - Len(q)]
      BY <1>1, <1>2, <1>4, <2>2
    <3> QED BY <1>2, <1>4, <3>1, <3>2 DEF IsInjective
  <2>3. ASSUME NEW i \in 1 .. Len(q), NEW k \in 1 .. Len(r)  PROVE q[i] # r[k]
    BY <1>2, <1>4 DEF Range
  <2>4. CASE a <= Len(q) /\ b > Len(q)
    BY <1>1, <1>2, <1>4, <2>3, <2>4
  <2>5. CASE a > Len(q) /\ b <= Len(q)
    BY <1>1, <1>2, <1>4, <2>3, <2>5
  <2> QED BY <1>2, <2>1, <2>2, <2>4, <2>5
<1> QED BY <1>1, <1>3, <1>4 DEF IsInjective

\* remove_list_head(): the head, and only the head, leaves a queue without
\* repetition.
LEMMA TailQueue ==
  ASSUME NEW S, NEW q \in Seq(S), q # <<>>, IsInjective(q)
  PROVE  /\ Head(q) \in S
         /\ Head(q) \in Range(q)
         /\ Tail(q) \in Seq(S)
         /\ Range(Tail(q)) = Range(q) \ {Head(q)}
         /\ IsInjective(Tail(q))
<1>1. /\ Head(q) \in S /\ Tail(q) \in Seq(S)
      /\ Len(Tail(q)) = Len(q) - 1
      /\ \A i \in 1 .. Len(Tail(q)) : Tail(q)[i] = q[i + 1]
  BY HeadTailProperties
<1>2. /\ DOMAIN q = 1 .. Len(q) /\ Len(q) \in Nat /\ Len(q) # 0 /\ Head(q) = q[1]
      /\ DOMAIN Tail(q) = 1 .. Len(q) - 1
  BY <1>1, LenProperties, EmptySeq
<1>3. Range(Tail(q)) \subseteq Range(q) \ {Head(q)}
  BY <1>1, <1>2 DEF Range, IsInjective
<1>4. ASSUME NEW i \in 1 .. Len(q), q[i] # Head(q)  PROVE q[i] \in Range(Tail(q))
  <2>1. i - 1 \in 1 .. Len(q) - 1 /\ Tail(q)[i - 1] = q[i]
    BY <1>1, <1>2, <1>4
  <2> QED BY <2>1, <1>2 DEF Range
<1>5. IsInjective(Tail(q))
  <2> SUFFICES ASSUME NEW a \in 1 .. Len(q) - 1, NEW b \in 1 .. Len(q) - 1,
                      Tail(q)[a] = Tail(q)[b]
               PROVE  a = b
    BY <1>2 DEF IsInjective
  <2>1. q[a + 1] = q[b + 1] /\ a + 1 \in DOMAIN q /\ b + 1 \in DOMAIN q
    BY <1>1, <1>2
  <2>2. a + 1 = b + 1
    BY <2>1 DEF IsInjective
  <2> QED BY <2>2, <1>2
<1>6. Range(q) \ {Head(q)} \subseteq Range(Tail(q))
  BY <1>2, <1>4 DEF Range
<1>7. Head(q) \in Range(q)
  BY <1>2 DEF Range
<1> QED BY <1>1, <1>3, <1>5, <1>6, <1>7

\* A scan of a table from index 0 upwards stops at the lowest index that fits.
LEMMA LeastElement ==
  ASSUME NEW T, T \subseteq Nat, T # {}
  PROVE  \E x \in T : \A y \in T : x <= y
<1> DEFINE R == OpToRel(<, Nat)
<1>1. IsWellFoundedOn(R, Nat)
  BY NatLessThanWellFounded
<1>2. \A x, y \in Nat : <<y, x>> \in R <=> y < x
  BY DEF OpToRel
<1> HIDE DEF R
<1>3. PICK x \in T : \A y \in T : ~ (<<y, x>> \in R)
  BY <1>1, WFMin
<1>4. \A y \in T : ~ (y < x)
  BY <1>2, <1>3
<1>5. \A y \in T : x <= y
  BY <1>4
<1> QED BY <1>5

-----------------------------------------------------------------------------
(***************************************************************************)
(* The building blocks of the actions.                                     *)
(***************************************************************************)

\* What holds of the states st and the ready list rl that a caller hands to
\* schedule(): nobody runs any more, and the list holds who is READY.
CanSchedule(st, rl) ==
  /\ st \in [Slot -> States]
  /\ rl \in Seq(Proc)
  /\ IsInjective(rl)
  /\ st[Idle] \in {"READY", "RUNNING"}
  /\ \A p \in Proc : st[p] = "READY" <=> p \in Range(rl)
  /\ \A p \in Proc : st[p] # "RUNNING"
  /\ rl = <<>> => pid[current_process] # 0

\* schedule() makes exactly one real process RUNNING, or the idle process, and
\* never fails its ASSERT.
LEMMA ScheduleStep ==
  ASSUME NEW st, NEW rl, ConstantsAssumption, CanSchedule(st, rl), Schedule(st, rl)
  PROVE  /\ state' \in [Slot -> States]
         /\ current_process' \in Slot
         /\ ready_list' \in Seq(Proc)
         /\ IsInjective(ready_list')
         /\ state'[Idle] \in {"READY", "RUNNING"}
         /\ \A p \in Proc : state'[p] = "READY" <=> p \in Range(ready_list')
         /\ \A p \in Proc : state'[p] = "RUNNING" <=> p = current_process'
         /\ \A p \in Proc, x \in {"SLEEP", "KILLED", "UNUSED"} : state'[p] = x <=> st[p] = x
         /\ panic' = panic
<1> USE DEF CanSchedule
<1>0. Idle \in Slot
  BY DEF ConstantsAssumption, Slot, Idle
<1>1. CASE rl = <<>>
  <2>1. /\ state' = [st EXCEPT ![Idle] = "RUNNING"] /\ current_process' = Idle
        /\ ready_list' = <<>> /\ panic' = panic
    BY <1>1 DEF Schedule
  <2>2. Range(<<>>) = {} /\ IsInjective(<<>>) /\ <<>> \in Seq(Proc)
    BY EmptyQueue
  <2> QED BY <1>0, <1>1, <2>1, <2>2 DEF States, Proc
<1>2. CASE rl # <<>>
  <2>1. /\ state' = [st EXCEPT ![Head(rl)] = "RUNNING"] /\ current_process' = Head(rl)
        /\ ready_list' = Tail(rl) /\ panic' = panic
    BY <1>2 DEF Schedule
  <2>2. /\ Head(rl) \in Proc /\ Head(rl) \in Range(rl) /\ Tail(rl) \in Seq(Proc)
        /\ Range(Tail(rl)) = Range(rl) \ {Head(rl)} /\ IsInjective(Tail(rl))
    BY <1>2, TailQueue
  <2> QED BY <1>0, <2>1, <2>2 DEF States, Proc
<1> QED BY <1>1, <1>2

\* The wait lists wl hold, per event, who is in SLEEP in st inside a blocking
\* call ks on that event.
Waiting(st, ks, wl) ==
  /\ wl \in [Event -> Seq(Proc)]
  /\ \A e \in Event : IsInjective(wl[e])
  /\ \A p \in Proc, e \in Event :
       p \in Range(wl[e]) <=> st[p] = "SLEEP" /\ EventOf(ks[p]) = e
  /\ \A p \in Proc : st[p] = "SLEEP" => EventOf(ks[p]) \in Event

\* wake_up(e) empties one wait list into the ready list and changes the state
\* of exactly the processes it moves.
LEMMA WakeUp ==
  ASSUME IInv, ConstantsAssumption, NEW e \in Event
  PROVE  /\ WokenState(e) \in [Slot -> States]
         /\ WokenState(e)[Idle] = state[Idle]
         /\ WokenReady(e) \in Seq(Proc)
         /\ IsInjective(WokenReady(e))
         /\ \A p \in Proc : WokenState(e)[p] = "READY" <=> p \in Range(WokenReady(e))
         /\ \A p \in Proc, x \in {"RUNNING", "KILLED", "UNUSED"} :
              WokenState(e)[p] = x <=> state[p] = x
         /\ Waiting(WokenState(e), kstack, WokenWait(e))
<1> USE DEF IInv, TypeOK, ListsMatchStates, Proc
<1>0. /\ Idle \in Slot
      /\ Range(wait_list[e]) \subseteq Proc
  <2>1. wait_list[e] \in Seq(Proc)
    OBVIOUS
  <2> QED BY <2>1, RangeOfSeq DEF ConstantsAssumption, Slot, Idle, Range
<1>1. /\ WokenReady(e) \in Seq(Proc)
      /\ Range(WokenReady(e)) = Range(ready_list) \cup Range(wait_list[e])
      /\ IsInjective(WokenReady(e))
  <2>1. Range(ready_list) \cap Range(wait_list[e]) = {}
    <3>1. \A p \in Proc : p \in Range(ready_list) => state[p] = "READY"
      OBVIOUS
    <3>2. \A p \in Proc : p \in Range(wait_list[e]) => state[p] = "SLEEP"
      OBVIOUS
    <3> QED BY <1>0, <3>1, <3>2
  <2> QED BY <2>1, ConcatQueue DEF WokenReady
<1>2. /\ WokenState(e) \in [Slot -> States]
      /\ \A p \in Slot : WokenState(e)[p] = IF p \in Range(wait_list[e]) THEN "READY" ELSE state[p]
  BY DEF WokenState, States
<1>3. /\ WokenWait(e) \in [Event -> Seq(Proc)]
      /\ WokenWait(e)[e] = <<>>
      /\ \A f \in Event \ {e} : WokenWait(e)[f] = wait_list[f]
  BY EmptyQueue DEF WokenWait
<1>4. Range(<<>>) = {} /\ IsInjective(<<>>)
  BY EmptyQueue
<1>5. Waiting(WokenState(e), kstack, WokenWait(e))
  <2>1. \A f \in Event : IsInjective(WokenWait(e)[f])
    BY <1>3, <1>4
  <2>2. ASSUME NEW p \in Proc, NEW f \in Event
        PROVE  p \in Range(WokenWait(e)[f])
                 <=> WokenState(e)[p] = "SLEEP" /\ EventOf(kstack[p]) = f
    <3>1. CASE f = e
      BY <1>2, <1>3, <1>4, <3>1
    <3>2. CASE f # e
      BY <1>2, <1>3, <3>2
    <3> QED BY <3>1, <3>2
  <2>3. \A p \in Proc : WokenState(e)[p] = "SLEEP" => EventOf(kstack[p]) \in Event
    BY <1>2
  <2> QED BY <1>3, <2>1, <2>2, <2>3 DEF Waiting
<1> QED BY <1>0, <1>1, <1>2, <1>5

\* Who may be on the CPU: the idle process, or a process in state RUNNING, and
\* then its pid is not 0.
LEMMA CurrentRuns ==
  ASSUME IInv, ConstantsAssumption
  PROVE  /\ Idle \in Slot /\ current_process \in Slot
         /\ current_process # Idle => current_process \in Proc /\ state[current_process] = "RUNNING"
         /\ pid[current_process] = 0 <=> current_process = Idle
BY DEF IInv, TypeOK, ListsMatchStates, SlotsOK, ConstantsAssumption, Slot, Idle, Proc

\* The frames of the blocking calls and the events they sleep on.
LEMMA FrameEvents ==
  ASSUME NEW f \in Frame
  PROVE  /\ f.at = "sys_sleep" => EventOf(f) = TickEvent
         /\ f.at = "read_key"  => EventOf(f) = KeyEvent
         /\ f.at = "wait"      => EventOf(f) = ExitEvent
         /\ f.at = "user"      => EventOf(f) \notin Event
         /\ f.at \in {"user", "sys_sleep", "read_key", "wait"}
BY DEF Frame, EventOf, Event, TickEvent, KeyEvent, ExitEvent

\* The frame of a process in user mode is a frame.
LEMMA UserFrameType ==
  ASSUME ConstantsAssumption
  PROVE  UserFrame \in Frame /\ UserFrame.at = "user"
BY DEF ConstantsAssumption, UserFrame, Frame

-----------------------------------------------------------------------------
(***************************************************************************)
(* Steps that several actions share.                                       *)
(***************************************************************************)

\* Blocking: the current process parks in a call and goes to sleep on the
\* event of that call.
LEMMA BlockStep ==
  ASSUME IInv, ConstantsAssumption, current_process # Idle,
         NEW at, NEW arg, NEW old, NEW e \in Event,
         [at |-> at, arg |-> arg, old |-> old] \in Frame,
         EventOf([at |-> at, arg |-> arg, old |-> old]) = e,
         Park(at, arg, old), Sleep(e), UNCHANGED <<pid, kill_list, pid_num, ticks>>
  PROVE  IInv'
<1> DEFINE c == current_process
           f == [at |-> at, arg |-> arg, old |-> old]
           st == [state EXCEPT ![c] = "SLEEP"]
<1>1. c \in Proc /\ c \in Slot /\ Idle \in Slot /\ state[c] = "RUNNING" /\ pid[c] # 0
  BY CurrentRuns
<1>2. /\ kstack' = [kstack EXCEPT ![c] = f]
      /\ wait_list' = [wait_list EXCEPT ![e] = Append(@, c)]
      /\ Schedule(st, ready_list)
  BY DEF Park, Sleep
<1>3. CanSchedule(st, ready_list)
  BY <1>1 DEF CanSchedule, IInv, TypeOK, ListsMatchStates, SlotsOK, States, Proc
<1> HIDE DEF f, st
<1>4. /\ state' \in [Slot -> States] /\ current_process' \in Slot
      /\ ready_list' \in Seq(Proc) /\ IsInjective(ready_list')
      /\ state'[Idle] \in {"READY", "RUNNING"}
      /\ \A p \in Proc : state'[p] = "READY" <=> p \in Range(ready_list')
      /\ \A p \in Proc : state'[p] = "RUNNING" <=> p = current_process'
      /\ \A p \in Proc, x \in {"SLEEP", "KILLED", "UNUSED"} : state'[p] = x <=> st[p] = x
      /\ panic' = panic
  BY <1>2, <1>3, ScheduleStep
<1>5. /\ st[c] = "SLEEP" /\ \A p \in Proc \ {c} : st[p] = state[p]
      /\ kstack'[c] = f /\ \A p \in Slot \ {c} : kstack'[p] = kstack[p]
      /\ kstack' \in [Slot -> Frame]
  BY <1>1, <1>2 DEF st, f, IInv, TypeOK, Proc
<1>6. /\ wait_list' \in [Event -> Seq(Proc)]
      /\ IsInjective(wait_list'[e])
      /\ Range(wait_list'[e]) = Range(wait_list[e]) \cup {c}
      /\ \A d \in Event \ {e} : wait_list'[d] = wait_list[d]
  <2>1. wait_list \in [Event -> Seq(Proc)]
    BY DEF IInv, TypeOK, Proc
  <2>2. IsInjective(wait_list[e]) /\ c \notin Range(wait_list[e])
    BY <1>1 DEF IInv, ListsMatchStates, Proc
  <2>3. /\ Append(wait_list[e], c) \in Seq(Proc) /\ IsInjective(Append(wait_list[e], c))
        /\ Range(Append(wait_list[e], c)) = Range(wait_list[e]) \cup {c}
    BY <1>1, <2>1, <2>2, AppendQueue
  <2> QED BY <1>2, <2>1, <2>3
<1>7. EventOf(f) = e
  BY DEF f
<1>8. /\ \A d \in Event : IsInjective(wait_list'[d])
      /\ \A p \in Proc, d \in Event :
           p \in Range(wait_list'[d]) <=> state'[p] = "SLEEP" /\ EventOf(kstack'[p]) = d
      /\ \A p \in Proc : state'[p] = "SLEEP" => EventOf(kstack'[p]) \in Event
  <2>1. \A d \in Event : IsInjective(wait_list'[d])
    BY <1>6 DEF IInv, ListsMatchStates
  <2>2. ASSUME NEW p \in Proc, NEW d \in Event
        PROVE  p \in Range(wait_list'[d]) <=> state'[p] = "SLEEP" /\ EventOf(kstack'[p]) = d
    <3>1. p \in Range(wait_list[d]) <=> state[p] = "SLEEP" /\ EventOf(kstack[p]) = d
      BY DEF IInv, ListsMatchStates, Proc
    <3>2. CASE p = c
      BY <1>1, <1>4, <1>5, <1>6, <1>7, <3>1, <3>2
    <3>3. CASE p # c
      BY <1>4, <1>5, <1>6, <3>1, <3>3 DEF Proc
    <3> QED BY <3>2, <3>3
  <2>3. \A p \in Proc : state'[p] = "SLEEP" => EventOf(kstack'[p]) \in Event
    BY <1>4, <1>5, <1>7 DEF IInv, ListsMatchStates, Proc
  <2> QED BY <2>1, <2>2, <2>3
<1>9. SlotsOK'
  <2>1. kstack'[Idle].at = "user"
    BY <1>1, <1>5 DEF IInv, SlotsOK
  <2>2. \A p \in Slot : pid'[p] = 0 <=> p = Idle \/ state'[p] = "UNUSED"
    BY <1>1, <1>4, <1>5 DEF IInv, SlotsOK, Proc
  <2>3. \A p \in Slot : state'[p] \in {"UNUSED", "KILLED"} => kstack'[p].at = "user"
    BY <1>1, <1>4, <1>5, <2>1 DEF IInv, SlotsOK, Proc
  <2> QED BY <1>4, <2>1, <2>2, <2>3 DEF SlotsOK
<1>10. ListsMatchStates'
  <2>1. \A p \in Proc : state'[p] = "KILLED" <=> p \in kill_list'
    BY <1>1, <1>4, <1>5 DEF IInv, ListsMatchStates, Proc
  <2> QED BY <1>4, <1>8, <2>1 DEF ListsMatchStates, Proc
<1>11. TypeOK' /\ OnlyForkAsserts'
  BY <1>4, <1>5, <1>6 DEF IInv, TypeOK, OnlyForkAsserts, Proc
<1> QED BY <1>9, <1>10, <1>11 DEF IInv

\* Returning from a call without a switch changes only the parked frame.
LEMMA ReturnStep ==
  ASSUME IInv, ConstantsAssumption, ReturnToUser,
         UNCHANGED <<state, pid, current_process, ready_list, wait_list,
                     kill_list, pid_num, ticks, panic>>
  PROVE  IInv'
<1>1. /\ current_process \in Slot /\ Idle \in Slot
      /\ current_process # Idle => state[current_process] = "RUNNING"
  BY CurrentRuns
<1>2. /\ kstack' \in [Slot -> Frame]
      /\ kstack'[current_process].at = "user"
      /\ \A p \in Slot \ {current_process} : kstack'[p] = kstack[p]
  BY <1>1, UserFrameType DEF ReturnToUser, IInv, TypeOK
<1>3. TypeOK' /\ OnlyForkAsserts'
  BY <1>2 DEF IInv, TypeOK, OnlyForkAsserts
<1>4. SlotsOK'
  BY <1>1, <1>2 DEF IInv, SlotsOK
<1>5. ListsMatchStates'
  <2>1. \A p \in Proc : state[p] = "SLEEP" => kstack'[p] = kstack[p]
    BY <1>1, <1>2 DEF Proc
  <2>2. \A p \in Proc, e \in Event :
          p \in Range(wait_list[e]) <=> state[p] = "SLEEP" /\ EventOf(kstack'[p]) = e
    BY <2>1 DEF IInv, ListsMatchStates, Proc
  <2> QED BY <2>1, <2>2 DEF IInv, ListsMatchStates, Proc
<1> QED BY <1>3, <1>4, <1>5 DEF IInv

\* One turn of the loop of sys_sleep.
LEMMA SleepLoopStep ==
  ASSUME IInv, ConstantsAssumption, current_process # Idle,
         NEW n \in Int, NEW old \in 0 .. TICK_MOD - 1, SleepLoop(n, old)
  PROVE  IInv'
<1>1. CASE /\ Park("sys_sleep", n, old) /\ Sleep(TickEvent)
           /\ UNCHANGED <<pid, kill_list, pid_num, ticks>>
  <2> DEFINE f == [at |-> "sys_sleep", arg |-> n, old |-> old]
  <2>1. f \in Frame /\ f.at = "sys_sleep"
    BY DEF Frame
  <2>2. EventOf(f) = TickEvent
    BY <2>1, FrameEvents
  <2>3. TickEvent \in Event
    BY DEF Event
  <2> QED BY <1>1, <2>1, <2>2, <2>3, BlockStep
<1>2. CASE ReturnToUser /\ UNCHANGED <<state, pid, current_process, ready_list, wait_list,
                                       kill_list, pid_num, ticks, panic>>
  BY <1>2, ReturnStep
<1> QED BY <1>1, <1>2 DEF SleepLoop

\* wait() takes a corpse: it is KILLED, on no other list, and its slot is free
\* afterwards.
LEMMA ReapStep ==
  ASSUME IInv, ConstantsAssumption, current_process # Idle, NEW z \in kill_list, Reap(z)
  PROVE  IInv'
<1>1. /\ z \in Proc /\ z \in Slot /\ Idle \in Slot /\ state[z] = "KILLED"
      /\ z # current_process /\ z # Idle /\ kstack[z].at = "user"
      /\ current_process \in Slot /\ state[current_process] = "RUNNING"
  BY CurrentRuns DEF IInv, TypeOK, ListsMatchStates, SlotsOK, Proc
<1>2. /\ state' \in [Slot -> States] /\ state'[z] = "UNUSED"
      /\ \A p \in Slot \ {z} : state'[p] = state[p]
      /\ pid' \in [Slot -> 0 .. MAX_PID] /\ pid'[z] = 0
      /\ \A p \in Slot \ {z} : pid'[p] = pid[p]
      /\ kill_list' = kill_list \ {z}
      /\ panic' = panic
      /\ UNCHANGED <<current_process, ready_list, wait_list, pid_num, ticks>>
  BY <1>1 DEF Reap, IInv, TypeOK, States, ConstantsAssumption
<1>3. /\ kstack' \in [Slot -> Frame]
      /\ kstack'[current_process].at = "user"
      /\ \A p \in Slot \ {current_process} : kstack'[p] = kstack[p]
  BY <1>1, UserFrameType DEF Reap, ReturnToUser, IInv, TypeOK
<1>4. TypeOK' /\ OnlyForkAsserts'
  BY <1>2, <1>3 DEF IInv, TypeOK, OnlyForkAsserts
<1>5. SlotsOK'
  BY <1>1, <1>2, <1>3 DEF IInv, SlotsOK, Proc
<1>6. ListsMatchStates'
  <2>1. \A p \in Proc : state'[p] = "SLEEP" => kstack'[p] = kstack[p]
    BY <1>1, <1>2, <1>3 DEF Proc
  <2>2. ASSUME NEW p \in Proc, NEW e \in Event
        PROVE  p \in Range(wait_list[e]) <=> state'[p] = "SLEEP" /\ EventOf(kstack'[p]) = e
    BY <1>1, <1>2, <1>3 DEF IInv, ListsMatchStates, Proc
  <2>3. \A p \in Proc : /\ state'[p] = "READY" <=> p \in Range(ready_list)
                        /\ state'[p] = "KILLED" <=> p \in kill_list'
                        /\ state'[p] = "RUNNING" <=> p = current_process
                        /\ state'[p] = "SLEEP" => EventOf(kstack'[p]) \in Event
    BY <1>1, <1>2, <2>1 DEF IInv, ListsMatchStates, Proc
  <2> QED BY <1>2, <2>2, <2>3 DEF IInv, ListsMatchStates, Proc
<1> QED BY <1>4, <1>5, <1>6 DEF IInv

\* One turn of the loop of wait(k).
LEMMA WaitLoopStep ==
  ASSUME IInv, ConstantsAssumption, current_process # Idle, NEW k \in Int, WaitLoop(k)
  PROVE  IInv'
<1>1. CASE \E z \in {y \in kill_list : pid[y] = k} : Reap(z)
  BY <1>1, ReapStep
<1>2. CASE Park("wait", k, 0) /\ Sleep(ExitEvent) /\ UNCHANGED <<pid, kill_list, pid_num, ticks>>
  <2> DEFINE f == [at |-> "wait", arg |-> k, old |-> 0]
  <2>1. f \in Frame /\ f.at = "wait"
    BY DEF Frame, ConstantsAssumption
  <2>2. EventOf(f) = ExitEvent
    BY <2>1, FrameEvents
  <2>3. ExitEvent \in Event
    BY DEF Event
  <2> QED BY <1>2, <2>1, <2>2, <2>3, BlockStep
<1> QED BY <1>1, <1>2 DEF WaitLoop

-----------------------------------------------------------------------------
(***************************************************************************)
(* The actions.                                                            *)
(***************************************************************************)

\* IRQ 0: the sleepers become ready, and the current process yields.
LEMMA TimerStep ==
  ASSUME IInv, ConstantsAssumption, TimerInterrupt
  PROVE  IInv'
<1> DEFINE c == current_process
           ws == WokenState(TickEvent)
           wr == WokenReady(TickEvent)
<1>1. /\ Idle \in Slot /\ c \in Slot /\ (pid[c] = 0 <=> c = Idle)
      /\ c # Idle => c \in Proc /\ state[c] = "RUNNING"
  BY CurrentRuns
<1>2. /\ ws \in [Slot -> States] /\ ws[Idle] = state[Idle]
      /\ wr \in Seq(Proc) /\ IsInjective(wr)
      /\ \A p \in Proc : ws[p] = "READY" <=> p \in Range(wr)
      /\ \A p \in Proc, x \in {"RUNNING", "KILLED", "UNUSED"} : ws[p] = x <=> state[p] = x
      /\ Waiting(ws, kstack, WokenWait(TickEvent))
  BY WakeUp DEF Event
<1>3. /\ ticks' = (ticks + 1) % TICK_MOD /\ wait_list' = WokenWait(TickEvent)
      /\ Yield(ws, wr) /\ UNCHANGED <<pid, kstack, kill_list, pid_num>>
  BY DEF TimerInterrupt
<1> HIDE DEF ws, wr
<1>4. /\ state' \in [Slot -> States] /\ c' \in Slot
      /\ ready_list' \in Seq(Proc) /\ IsInjective(ready_list')
      /\ state'[Idle] \in {"READY", "RUNNING"}
      /\ \A p \in Proc : state'[p] = "READY" <=> p \in Range(ready_list')
      /\ \A p \in Proc : state'[p] = "RUNNING" <=> p = c'
      /\ \A p \in Proc, x \in {"SLEEP", "KILLED", "UNUSED"} : state'[p] = x <=> ws[p] = x
      /\ panic' = panic
  <2>1. CASE /\ state' = ws /\ ready_list' = wr /\ UNCHANGED <<current_process, panic>>
    BY <1>1, <1>2, <2>1 DEF IInv, SlotsOK, ListsMatchStates, Proc
  <2>2. ASSUME wr # <<>>
        PROVE  LET st == [ws EXCEPT ![c] = "READY"]
                   rl == IF pid[c] = 0 THEN wr ELSE Append(wr, c)
               IN  /\ CanSchedule(st, rl)
                   /\ \A p \in Proc, x \in {"SLEEP", "KILLED", "UNUSED"} : st[p] = x <=> ws[p] = x
    <3> DEFINE st == [ws EXCEPT ![c] = "READY"]
               rl == IF pid[c] = 0 THEN wr ELSE Append(wr, c)
    <3>1. /\ st \in [Slot -> States] /\ st[c] = "READY"
          /\ \A p \in Slot \ {c} : st[p] = ws[p]
      BY <1>1, <1>2 DEF States
    <3>2. CASE c = Idle
      BY <1>1, <1>2, <2>2, <3>1, <3>2 DEF CanSchedule, IInv, SlotsOK, ListsMatchStates, Proc
    <3>3. CASE c # Idle
      <4>1. c \notin Range(wr) /\ ws[c] = "RUNNING"
        BY <1>1, <1>2, <3>3
      <4>2. /\ rl = Append(wr, c) /\ rl # <<>> /\ rl \in Seq(Proc) /\ IsInjective(rl)
            /\ Range(rl) = Range(wr) \cup {c}
        BY <1>1, <1>2, <3>3, <4>1, AppendQueue
      <4> HIDE DEF st, rl
      <4>3. \A p \in Proc : (st[p] = "READY" <=> p \in Range(rl)) /\ st[p] # "RUNNING"
        BY <1>1, <1>2, <3>1, <3>3, <4>2 DEF IInv, ListsMatchStates, Proc
      <4>4. st[Idle] \in {"READY", "RUNNING"}
        BY <1>1, <1>2, <3>1, <3>3 DEF IInv, SlotsOK
      <4>5. \A p \in Proc, x \in {"SLEEP", "KILLED", "UNUSED"} : st[p] = x <=> ws[p] = x
        BY <3>1, <4>1 DEF Proc
      <4>6. CanSchedule(st, rl)
        BY <3>1, <4>2, <4>3, <4>4 DEF CanSchedule
      <4> QED BY <4>5, <4>6 DEF st, rl
    <3> QED BY <3>2, <3>3
  <2>3. CASE /\ wr # <<>>
             /\ Schedule([ws EXCEPT ![c] = "READY"], IF pid[c] = 0 THEN wr ELSE Append(wr, c))
    BY <2>2, <2>3, ScheduleStep
  <2> QED BY <1>3, <2>1, <2>3 DEF Yield
<1>5. Waiting(state', kstack', wait_list')
  BY <1>2, <1>3, <1>4 DEF Waiting
<1>6. ListsMatchStates'
  <2>1. \A p \in Proc : state'[p] = "KILLED" <=> p \in kill_list'
    BY <1>2, <1>3, <1>4 DEF IInv, ListsMatchStates, Proc
  <2> QED BY <1>4, <1>5, <2>1 DEF ListsMatchStates, Waiting, Proc
<1>7. SlotsOK'
  <2>1. \A p \in Proc : state'[p] = "UNUSED" <=> state[p] = "UNUSED"
    BY <1>2, <1>4
  <2>2. \A p \in Proc : state'[p] = "KILLED" <=> state[p] = "KILLED"
    BY <1>2, <1>4
  <2> QED BY <1>1, <1>3, <1>4, <2>1, <2>2 DEF IInv, SlotsOK, Proc
<1>8. TypeOK' /\ OnlyForkAsserts'
  BY <1>3, <1>4, <1>5 DEF IInv, TypeOK, OnlyForkAsserts, Waiting, Proc, ConstantsAssumption
<1> QED BY <1>6, <1>7, <1>8 DEF IInv

\* IRQ 1: the readers become ready; nobody is switched.
LEMMA KeyStep ==
  ASSUME IInv, ConstantsAssumption, KeyInterrupt
  PROVE  IInv'
<1>1. /\ Idle \in Slot
      /\ current_process # Idle => current_process \in Proc
  BY CurrentRuns
<1>2. /\ state' \in [Slot -> States] /\ state'[Idle] = state[Idle]
      /\ ready_list' \in Seq(Proc) /\ IsInjective(ready_list')
      /\ \A p \in Proc : state'[p] = "READY" <=> p \in Range(ready_list')
      /\ \A p \in Proc, x \in {"RUNNING", "KILLED", "UNUSED"} : state'[p] = x <=> state[p] = x
      /\ Waiting(state', kstack, wait_list')
  BY WakeUp DEF KeyInterrupt, Event
<1>3. UNCHANGED <<pid, kstack, current_process, kill_list, pid_num, ticks, panic>>
  BY DEF KeyInterrupt
<1>4. ListsMatchStates'
  <2>1. \A p \in Proc : /\ state'[p] = "KILLED" <=> p \in kill_list'
                        /\ state'[p] = "RUNNING" <=> p = current_process'
    BY <1>2, <1>3 DEF IInv, ListsMatchStates, Proc
  <2> QED BY <1>2, <1>3, <2>1 DEF ListsMatchStates, Waiting, Proc
<1>5. SlotsOK'
  <2>1. \A p \in Proc, x \in {"UNUSED", "KILLED"} : state'[p] = x <=> state[p] = x
    BY <1>2
  <2> QED BY <1>1, <1>2, <1>3, <2>1 DEF IInv, SlotsOK, Proc
<1>6. TypeOK' /\ OnlyForkAsserts'
  BY <1>2, <1>3 DEF IInv, TypeOK, OnlyForkAsserts, Waiting, Proc
<1> QED BY <1>4, <1>5, <1>6 DEF IInv

\* find_unused_process() returns an unused slot, never the idle process'.
LEMMA FirstFreeIsFree ==
  ASSUME IInv, ConstantsAssumption, FreeSlots # {}
  PROVE  FirstFree \in Proc /\ FirstFree \in Slot /\ state[FirstFree] = "UNUSED"
<1>1. FreeSlots \subseteq Nat
  BY DEF FreeSlots, Slot, ConstantsAssumption
<1>2. \E p \in FreeSlots : \A q \in FreeSlots : p <= q
  BY <1>1, LeastElement
<1>3. FirstFree \in FreeSlots
  BY <1>2 DEF FirstFree
<1> QED BY <1>3 DEF FreeSlots, IInv, SlotsOK, Proc

\* fork() fills an unused slot and queues it, or stops the machine.
LEMMA ForkStep ==
  ASSUME IInv, ConstantsAssumption, SysFork
  PROVE  IInv'
<1> DEFINE n == FirstFree
<1>0. Idle \in Slot /\ current_process \in Slot /\ current_process \in Proc
  BY CurrentRuns DEF SysFork, InSyscall
<1>1. CASE FreeSlots = {}
  <2>1. panic' = "fork" /\ UNCHANGED <<state, pid, kstack, current_process, ready_list,
                                       wait_list, kill_list, pid_num, ticks>>
    BY <1>1 DEF SysFork
  <2> QED BY <2>1 DEF IInv, TypeOK, ListsMatchStates, OnlyForkAsserts, SlotsOK
<1>2. CASE FreeSlots # {}
  <2>1. n \in Proc /\ n \in Slot /\ state[n] = "UNUSED" /\ kstack[n].at = "user"
    BY <1>2, FirstFreeIsFree DEF IInv, SlotsOK
  <2>2. /\ pid_num <= MAX_PID /\ pid_num \in Nat /\ pid_num # 0
        /\ state' = [state EXCEPT ![n] = "READY"]
        /\ pid' = [pid EXCEPT ![n] = pid_num]
        /\ pid_num' = pid_num + 1
        /\ ready_list' = Append(ready_list, n)
        /\ UNCHANGED <<kstack, current_process, wait_list, kill_list, ticks, panic>>
    BY <1>2 DEF SysFork, IInv, TypeOK
  <2> HIDE DEF n
  <2>3. n \notin Range(ready_list) /\ n # current_process /\ n # Idle
    BY <1>0, <2>1 DEF IInv, ListsMatchStates, Proc
  <2>4. /\ ready_list' \in Seq(Proc) /\ IsInjective(ready_list')
        /\ Range(ready_list') = Range(ready_list) \cup {n}
    BY <2>1, <2>2, <2>3, AppendQueue DEF IInv, TypeOK, ListsMatchStates, Proc
  <2>5. /\ state' \in [Slot -> States] /\ state'[n] = "READY"
        /\ \A p \in Slot \ {n} : state'[p] = state[p]
        /\ pid' \in [Slot -> 0 .. MAX_PID] /\ pid'[n] # 0
        /\ \A p \in Slot \ {n} : pid'[p] = pid[p]
    BY <2>1, <2>2 DEF IInv, TypeOK, States, ConstantsAssumption
  <2>6. TypeOK' /\ OnlyForkAsserts'
    <3>1. pid_num' \in 2 .. MAX_PID + 1
      BY <2>2 DEF IInv, TypeOK, ConstantsAssumption
    <3> QED BY <2>2, <2>4, <2>5, <3>1 DEF IInv, TypeOK, OnlyForkAsserts, Proc
  <2>7. SlotsOK'
    BY <2>1, <2>2, <2>3, <2>5 DEF IInv, SlotsOK, Proc
  <2>8. ListsMatchStates'
    <3>1. ASSUME NEW p \in Proc
          PROVE  /\ state'[p] = "READY" <=> p \in Range(ready_list')
                 /\ \A e \in Event : p \in Range(wait_list[e]) <=>
                                       state'[p] = "SLEEP" /\ EventOf(kstack[p]) = e
                 /\ state'[p] = "SLEEP" => EventOf(kstack[p]) \in Event
                 /\ state'[p] = "KILLED" <=> p \in kill_list
                 /\ state'[p] = "RUNNING" <=> p = current_process
      <4>1. p \in Slot /\ (p # n => state'[p] = state[p])
        BY <2>5 DEF Proc
      <4> QED BY <2>1, <2>3, <2>4, <2>5, <4>1 DEF IInv, ListsMatchStates, Proc
    <3> QED BY <2>2, <2>4, <3>1 DEF IInv, ListsMatchStates, Proc
  <2> QED BY <2>6, <2>7, <2>8 DEF IInv
<1> QED BY <1>1, <1>2

\* exit() moves the current process to the kill list and wakes the waiters.
LEMMA ExitStep ==
  ASSUME IInv, ConstantsAssumption, Exit
  PROVE  IInv'
<1> DEFINE c == current_process
           ws == WokenState(ExitEvent)
           wr == WokenReady(ExitEvent)
           st == [ws EXCEPT ![c] = "KILLED"]
<1>1. /\ Idle \in Slot /\ c \in Slot /\ c \in Proc /\ c # Idle /\ pid[c] # 0
      /\ state[c] = "RUNNING"
  BY CurrentRuns DEF Exit, InSyscall
<1>2. /\ ws \in [Slot -> States] /\ ws[Idle] = state[Idle]
      /\ wr \in Seq(Proc) /\ IsInjective(wr)
      /\ \A p \in Proc : ws[p] = "READY" <=> p \in Range(wr)
      /\ \A p \in Proc, x \in {"RUNNING", "KILLED", "UNUSED"} : ws[p] = x <=> state[p] = x
      /\ Waiting(ws, kstack, WokenWait(ExitEvent))
  BY WakeUp DEF Event
<1>3. /\ kill_list' = kill_list \cup {c} /\ wait_list' = WokenWait(ExitEvent)
      /\ Schedule(st, wr) /\ UNCHANGED <<pid, kstack, pid_num, ticks>>
      /\ kstack[c].at = "user"
  BY DEF Exit, InSyscall, UserMode
<1> HIDE DEF ws, wr
<1>4. /\ st \in [Slot -> States] /\ st[c] = "KILLED"
      /\ \A p \in Slot \ {c} : st[p] = ws[p]
      /\ ws[c] = "RUNNING"
  BY <1>1, <1>2 DEF States
<1> HIDE DEF st
<1>5. CanSchedule(st, wr)
  <2>1. \A p \in Proc : (st[p] = "READY" <=> p \in Range(wr)) /\ st[p] # "RUNNING"
    BY <1>1, <1>2, <1>4 DEF IInv, ListsMatchStates, Proc
  <2>2. st[Idle] \in {"READY", "RUNNING"}
    BY <1>1, <1>2, <1>4 DEF IInv, SlotsOK
  <2> QED BY <1>1, <1>2, <1>4, <2>1, <2>2 DEF CanSchedule
<1>6. /\ state' \in [Slot -> States] /\ c' \in Slot
      /\ ready_list' \in Seq(Proc) /\ IsInjective(ready_list')
      /\ state'[Idle] \in {"READY", "RUNNING"}
      /\ \A p \in Proc : state'[p] = "READY" <=> p \in Range(ready_list')
      /\ \A p \in Proc : state'[p] = "RUNNING" <=> p = c'
      /\ \A p \in Proc, x \in {"SLEEP", "KILLED", "UNUSED"} : state'[p] = x <=> st[p] = x
      /\ panic' = panic
  BY <1>3, <1>5, ScheduleStep
<1>7. \A p \in Proc : /\ p # c => (state'[p] = "SLEEP" <=> ws[p] = "SLEEP")
                      /\ p # c => (state'[p] = "KILLED" <=> state[p] = "KILLED")
                      /\ p # c => (state'[p] = "UNUSED" <=> state[p] = "UNUSED")
                      /\ state'[c] = "KILLED"
  BY <1>1, <1>2, <1>4, <1>6 DEF Proc
<1>8. Waiting(state', kstack', wait_list')
  BY <1>1, <1>2, <1>3, <1>4, <1>7 DEF Waiting
<1>9. ListsMatchStates'
  <2>1. \A p \in Proc : state'[p] = "KILLED" <=> p \in kill_list'
    BY <1>1, <1>3, <1>7 DEF IInv, ListsMatchStates, Proc
  <2> QED BY <1>6, <1>8, <2>1 DEF ListsMatchStates, Waiting, Proc
<1>10. SlotsOK'
  BY <1>1, <1>3, <1>6, <1>7 DEF IInv, SlotsOK, Proc
<1>11. TypeOK' /\ OnlyForkAsserts'
  BY <1>1, <1>3, <1>6, <1>8 DEF IInv, TypeOK, OnlyForkAsserts, Waiting, Proc
<1> QED BY <1>9, <1>10, <1>11 DEF IInv

-----------------------------------------------------------------------------
\* The state init_process() leaves.
LEMMA InitIInv ==
  ASSUME ConstantsAssumption, Init
  PROVE  IInv
<1>1. Idle \in Slot /\ InitProc \in Slot /\ Idle # InitProc
  BY DEF ConstantsAssumption, Slot, Idle, InitProc
<1>2. UserFrame \in Frame /\ UserFrame.at = "user" /\ EventOf(UserFrame) \notin Event
  BY UserFrameType, FrameEvents
<1>3. Range(<<>>) = {} /\ IsInjective(<<>>) /\ <<>> \in Seq(Proc)
  BY EmptyQueue
<1>4. /\ Range(<<InitProc>>) = {InitProc} /\ IsInjective(<<InitProc>>)
      /\ <<InitProc>> \in Seq(Proc)
  BY <1>1 DEF Range, IsInjective, Proc
<1>5. /\ state \in [Slot -> States] /\ state[Idle] = "RUNNING" /\ state[InitProc] = "READY"
      /\ \A p \in Slot \ {Idle, InitProc} : state[p] = "UNUSED"
  BY <1>1 DEF Init, States
<1>6. TypeOK /\ OnlyForkAsserts
  BY <1>1, <1>2, <1>3, <1>4, <1>5
     DEF Init, TypeOK, OnlyForkAsserts, ConstantsAssumption, InitProc, Proc
<1>7. ListsMatchStates
  BY <1>1, <1>2, <1>3, <1>4, <1>5 DEF Init, ListsMatchStates, Proc
<1>8. SlotsOK
  BY <1>1, <1>2, <1>5 DEF Init, SlotsOK
<1> QED BY <1>6, <1>7, <1>8 DEF IInv

\* Every step keeps the inductive invariant.
LEMMA NextIInv ==
  ASSUME ConstantsAssumption, IInv, [Next]_vars
  PROVE  IInv'
<1>0. kstack[Idle].at = "user" /\ kstack \in [Slot -> Frame] /\ ticks \in 0 .. TICK_MOD - 1
  BY DEF IInv, SlotsOK, TypeOK
<1>1. current_process \in Slot
  BY CurrentRuns
<1>2. CASE TimerInterrupt
  BY <1>2, TimerStep
<1>3. CASE KeyInterrupt
  BY <1>3, KeyStep
<1>4. CASE SysSleep
  <2>1. PICK n \in SLEEP_TICKS : SleepLoop(n, ticks)
    BY <1>4 DEF SysSleep
  <2>2. n \in Int /\ current_process # Idle
    BY <1>4 DEF ConstantsAssumption, SysSleep, InSyscall
  <2> QED BY <1>0, <2>1, <2>2, SleepLoopStep
<1>5. CASE SysKeyboardRead
  <2> DEFINE f == [at |-> "read_key", arg |-> 0, old |-> 0]
  <2>1. f \in Frame /\ f.at = "read_key"
    BY DEF Frame, ConstantsAssumption
  <2>2. EventOf(f) = KeyEvent /\ KeyEvent \in Event
    BY <2>1, FrameEvents DEF Event
  <2> QED BY <1>5, <2>1, <2>2, BlockStep DEF SysKeyboardRead, InSyscall, BlockOnKey
<1>6. CASE SysWait
  <2>1. PICK k \in WAIT_PIDS : WaitLoop(k)
    BY <1>6 DEF SysWait
  <2>2. k \in Int /\ current_process # Idle
    BY <1>6 DEF ConstantsAssumption, SysWait, InSyscall
  <2> QED BY <2>1, <2>2, WaitLoopStep
<1>7. CASE SysFork
  BY <1>7, ForkStep
<1>8. CASE Exit
  BY <1>8, ExitStep
<1>9. CASE ResumeSleep
  <2>1. /\ current_process # Idle
        /\ kstack[current_process].arg \in Int
        /\ kstack[current_process].old \in 0 .. TICK_MOD - 1
        /\ SleepLoop(kstack[current_process].arg, kstack[current_process].old)
    BY <1>0, <1>1, <1>9 DEF ResumeSleep, Resumed, Frame
  <2> QED BY <2>1, SleepLoopStep
<1>10. CASE ResumeKey
  BY <1>10, ReturnStep DEF ResumeKey
<1>11. CASE ResumeWait
  <2>1. /\ current_process # Idle
        /\ kstack[current_process].arg \in Int
        /\ WaitLoop(kstack[current_process].arg)
    BY <1>0, <1>1, <1>11 DEF ResumeWait, Resumed, Frame
  <2> QED BY <2>1, WaitLoopStep
<1>12. CASE UNCHANGED vars
  BY <1>12 DEF vars, IInv, TypeOK, ListsMatchStates, OnlyForkAsserts, SlotsOK
<1> QED BY <1>2, <1>3, <1>4, <1>5, <1>6, <1>7, <1>8, <1>9, <1>10, <1>11, <1>12 DEF Next, Stopped

\* The inductive invariant holds in every reachable state.
THEOREM Invariance == Spec => []IInv
<1>1. Init => IInv
  BY InitIInv, ConstantsAssumption
<1>2. IInv /\ [Next]_vars => IInv'
  BY NextIInv, ConstantsAssumption
<1> QED BY <1>1, <1>2, PTL DEF Spec

\* Every variable keeps its type, and the idle process is on no list.
THEOREM TypeCorrect == Spec => []TypeOK
BY Invariance, PTL DEF IInv

\* The ready, wait and kill lists agree with the state fields, so no process is
\* ever linked twice through its one next pointer.
THEOREM ListsCorrect == Spec => []ListsMatchStates
BY Invariance, PTL DEF IInv

\* The ASSERTs of schedule() and wait() never fail.
THEOREM AssertsHold == Spec => []OnlyForkAsserts
BY Invariance, PTL DEF IInv

-----------------------------------------------------------------------------
(***************************************************************************)
(* No wakeup of a waiting parent is lost.                                  *)
(***************************************************************************)

\* A step that leaves the sleepers in wait() and what they wait for alone, and
\* adds no corpse, loses no wakeup.
LEMMA SameWaiters ==
  ASSUME NoLostWakeup,
         wait_list'[ExitEvent] = wait_list[ExitEvent],
         \A p \in Range(wait_list[ExitEvent]) : kstack'[p].arg = kstack[p].arg,
         kill_list' \subseteq kill_list,
         \A z \in kill_list' : pid'[z] = pid[z]
  PROVE  NoLostWakeup'
BY DEF NoLostWakeup

\* The process on the CPU is not asleep.
LEMMA CurrentAwake ==
  ASSUME IInv, ConstantsAssumption
  PROVE  /\ \A p \in Range(wait_list[ExitEvent]) : p \in Slot /\ p # current_process
         /\ wait_list \in [Event -> Seq(Proc)]
<1>1. Range(wait_list[ExitEvent]) \subseteq Proc /\ wait_list \in [Event -> Seq(Proc)]
  BY RangeOfSeq DEF IInv, TypeOK, Event, Proc, Range
<1>2. \A p \in Range(wait_list[ExitEvent]) : state[p] = "SLEEP"
  BY <1>1 DEF IInv, ListsMatchStates, Event, Proc
<1>3. current_process # Idle => state[current_process] = "RUNNING"
  BY CurrentRuns
<1> QED BY <1>1, <1>2, <1>3 DEF Proc

\* Parking and sleeping on another event, and returning, leave them alone.
LEMMA OtherSleep ==
  ASSUME IInv, ConstantsAssumption, NoLostWakeup, NEW at, NEW arg, NEW old,
         NEW e \in {TickEvent, KeyEvent},
         Park(at, arg, old), Sleep(e), UNCHANGED <<pid, kill_list>>
  PROVE  NoLostWakeup'
<1>1. wait_list'[ExitEvent] = wait_list[ExitEvent]
  BY CurrentAwake DEF Sleep, Event, TickEvent, KeyEvent, ExitEvent
<1>2. \A p \in Range(wait_list[ExitEvent]) : kstack'[p] = kstack[p]
  BY CurrentAwake DEF Park, IInv, TypeOK
<1> QED BY <1>1, <1>2, SameWaiters

\* Returning to user mode puts nobody to sleep.
LEMMA ReturnWakesNobody ==
  ASSUME IInv, ConstantsAssumption, NoLostWakeup, ReturnToUser, UNCHANGED wait_list,
         kill_list' \subseteq kill_list, \A z \in kill_list' : pid'[z] = pid[z]
  PROVE  NoLostWakeup'
<1>1. \A p \in Range(wait_list[ExitEvent]) : kstack'[p] = kstack[p]
  BY CurrentAwake DEF ReturnToUser, IInv, TypeOK
<1> QED BY <1>1, SameWaiters

\* sys_sleep sleeps on ticks, not on deaths.
LEMMA SleepLoopWakeup ==
  ASSUME IInv, ConstantsAssumption, NoLostWakeup, NEW n, NEW old, SleepLoop(n, old)
  PROVE  NoLostWakeup'
BY OtherSleep, ReturnWakesNobody DEF SleepLoop

\* wait(k) goes to sleep only after it has seen that there is no corpse k.
LEMMA WaitLoopWakeup ==
  ASSUME IInv, ConstantsAssumption, NoLostWakeup, current_process # Idle,
         NEW k \in Int, WaitLoop(k)
  PROVE  NoLostWakeup'
<1> DEFINE c == current_process
           dead == {z \in kill_list : pid[z] = k}
<1>1. ASSUME NEW z \in dead, Reap(z)  PROVE NoLostWakeup'
  <2>1. kill_list' = kill_list \ {z} /\ \A y \in kill_list' : pid'[y] = pid[y]
    BY <1>1 DEF Reap, IInv, TypeOK
  <2> QED BY <1>1, <2>1, ReturnWakesNobody DEF Reap
<1>2. CASE dead = {} /\ Park("wait", k, 0) /\ Sleep(ExitEvent) /\ UNCHANGED <<pid, kill_list>>
  <2>1. c \in Proc /\ c \in Slot
    BY CurrentRuns
  <2>2. Range(wait_list'[ExitEvent]) = Range(wait_list[ExitEvent]) \cup {c}
    BY <1>2, <2>1, CurrentAwake, AppendQueue DEF Sleep, Event
  <2>3. kstack'[c].arg = k /\ \A p \in Slot \ {c} : kstack'[p] = kstack[p]
    BY <1>2, <2>1 DEF Park, IInv, TypeOK
  <2>4. \A p \in Range(wait_list'[ExitEvent]), z \in kill_list : kstack'[p].arg # pid[z]
    BY <1>2, <2>2, <2>3, CurrentAwake DEF NoLostWakeup
  <2> QED BY <1>2, <2>4 DEF NoLostWakeup
<1> QED BY <1>1, <1>2 DEF WaitLoop

\* wake_up of another event leaves the sleepers in wait() where they are.
LEMMA OtherWakeUp ==
  ASSUME IInv, ConstantsAssumption, NEW e \in {TickEvent, KeyEvent}
  PROVE  WokenWait(e)[ExitEvent] = wait_list[ExitEvent]
BY CurrentAwake DEF WokenWait, Event, TickEvent, KeyEvent, ExitEvent

\* Every step keeps NoLostWakeup, given the inductive invariant.
LEMMA NextWakeup ==
  ASSUME IInv, ConstantsAssumption, NoLostWakeup, [Next]_vars
  PROVE  NoLostWakeup'
<1>0. kstack[Idle].at = "user" /\ kstack \in [Slot -> Frame] /\ current_process \in Slot
  BY CurrentRuns DEF IInv, SlotsOK, TypeOK
<1>1. CASE TimerInterrupt \/ KeyInterrupt
  BY <1>1, OtherWakeUp, SameWaiters DEF TimerInterrupt, KeyInterrupt
<1>2. CASE SysSleep
  BY <1>2, SleepLoopWakeup DEF SysSleep
<1>3. CASE SysKeyboardRead
  BY <1>3, OtherSleep DEF SysKeyboardRead, BlockOnKey
<1>4. CASE SysWait
  BY <1>4, WaitLoopWakeup, ConstantsAssumption DEF SysWait, InSyscall, ConstantsAssumption
<1>5. CASE SysFork
  <2>1. CASE FreeSlots # {}
    <3>1. state[FirstFree] = "UNUSED" /\ FirstFree \in Proc
      BY <2>1, FirstFreeIsFree
    <3>2. FirstFree \notin kill_list
      BY <3>1 DEF IInv, ListsMatchStates, Proc
    <3>3. \A z \in kill_list : pid'[z] = pid[z]
      BY <1>5, <2>1, <3>2 DEF SysFork, IInv, TypeOK
    <3> QED BY <1>5, <2>1, <3>3, SameWaiters DEF SysFork
  <2>2. CASE FreeSlots = {}
    BY <1>5, <2>2, SameWaiters DEF SysFork
  <2> QED BY <2>1, <2>2
<1>6. CASE Exit
  <2>1. wait_list'[ExitEvent] = <<>>
    BY <1>6, CurrentAwake DEF Exit, WokenWait, Event
  <2>2. Range(wait_list'[ExitEvent]) = {}
    BY <2>1, EmptyQueue
  <2> QED BY <2>2 DEF NoLostWakeup
<1>7. CASE ResumeSleep
  BY <1>7, SleepLoopWakeup DEF ResumeSleep
<1>8. CASE ResumeKey
  BY <1>8, ReturnWakesNobody DEF ResumeKey
<1>9. CASE ResumeWait
  <2>1. /\ current_process # Idle
        /\ kstack[current_process].arg \in Int
        /\ WaitLoop(kstack[current_process].arg)
    BY <1>0, <1>9 DEF ResumeWait, Resumed, Frame
  <2> QED BY <2>1, WaitLoopWakeup
<1>10. CASE UNCHANGED vars
  BY <1>10 DEF vars, NoLostWakeup
<1> QED BY <1>1, <1>2, <1>3, <1>4, <1>5, <1>6, <1>7, <1>8, <1>9, <1>10 DEF Next, Stopped

\* No process sleeps in wait(k) while a corpse with pid k is on the kill list:
\* wait() cannot miss the exit() it is waiting for.
THEOREM WakeupNeverLost == Spec => []NoLostWakeup
<1>1. Init => NoLostWakeup
  BY DEF Init, NoLostWakeup
<1>2. IInv /\ NoLostWakeup /\ [Next]_vars => NoLostWakeup'
  BY NextWakeup, ConstantsAssumption
<1> QED BY <1>1, <1>2, Invariance, PTL DEF Spec

-----------------------------------------------------------------------------
(***************************************************************************)
(* fork, exit and wait keep the promises of Lifecycle.  Its pids are those *)
(* of the slots in use, so what has to be known is that no two slots share *)
(* a pid, that pid_num is above them all, that no slot is left half made,  *)
(* and that whoever is in wait(k) was asked for a k of WAIT_PIDS.          *)
(***************************************************************************)
NoneHalfMade == \A p \in Slot : state[p] # "INIT"

PidsOK ==
  /\ NoneHalfMade
  /\ \A p, q \in Slot : pid[p] = pid[q] /\ pid[p] # 0 => p = q
  /\ \A p \in Slot : pid[p] < pid_num
  /\ \A p \in Slot : kstack[p].at = "wait" => kstack[p].arg \in WAIT_PIDS

LInv == IInv /\ PidsOK

\* schedule() leaves no slot half made.
LEMMA ScheduleSeesNoHalf ==
  ASSUME NEW st, st \in [Slot -> States], NEW rl, Schedule(st, rl),
         \A p \in Slot : st[p] # "INIT"
  PROVE  NoneHalfMade'
BY DEF Schedule, NoneHalfMade

\* wake_up() makes its sleepers READY.
LEMMA WokenSeesNoHalf ==
  ASSUME IInv, NoneHalfMade, NEW e \in Event
  PROVE  WokenState(e) \in [Slot -> States] /\ \A p \in Slot : WokenState(e)[p] # "INIT"
BY DEF WokenState, NoneHalfMade, IInv, TypeOK, States

\* Going to sleep.
LEMMA SleepSeesNoHalf ==
  ASSUME IInv, NoneHalfMade, NEW e, Sleep(e)
  PROVE  NoneHalfMade'
<1>1. [state EXCEPT ![current_process] = "SLEEP"] \in [Slot -> States]
  BY DEF IInv, TypeOK, States
<1>2. \A p \in Slot : [state EXCEPT ![current_process] = "SLEEP"][p] # "INIT"
  BY DEF NoneHalfMade, IInv, TypeOK
<1> QED BY <1>1, <1>2, ScheduleSeesNoHalf DEF Sleep

\* One turn of the loop of wait().
LEMMA WaitLoopSeesNoHalf ==
  ASSUME IInv, NoneHalfMade, NEW k, WaitLoop(k)
  PROVE  NoneHalfMade'
<1>1. ASSUME NEW z \in kill_list, Reap(z)  PROVE NoneHalfMade'
  BY <1>1 DEF Reap, NoneHalfMade, IInv, TypeOK
<1> QED BY <1>1, SleepSeesNoHalf DEF WaitLoop

\* Nor does anything else that changes a state.
LEMMA NoneHalfMadeStep ==
  ASSUME ConstantsAssumption, IInv, NoneHalfMade,
         \/ UNCHANGED state \/ TimerInterrupt \/ KeyInterrupt \/ \E k : WaitLoop(k)
         \/ \E e : Sleep(e) \/ SysFork \/ Exit
  PROVE  NoneHalfMade'
<1>1. CASE UNCHANGED state
  BY <1>1 DEF NoneHalfMade
<1>2. CASE TimerInterrupt
  <2> DEFINE ws == WokenState(TickEvent)
             st == [ws EXCEPT ![current_process] = "READY"]
  <2>1. ws \in [Slot -> States] /\ \A p \in Slot : ws[p] # "INIT"
    BY WokenSeesNoHalf DEF Event
  <2> HIDE DEF ws
  <2>2. st \in [Slot -> States] /\ \A p \in Slot : st[p] # "INIT"
    BY <2>1 DEF States
  <2>3. state' = ws \/ \E rl : Schedule(st, rl)
    BY <1>2 DEF TimerInterrupt, Yield, ws
  <2> QED BY <2>1, <2>2, <2>3, ScheduleSeesNoHalf DEF NoneHalfMade
<1>3. CASE KeyInterrupt
  BY <1>3, WokenSeesNoHalf DEF KeyInterrupt, NoneHalfMade, Event
<1>4. CASE \E k : WaitLoop(k)
  BY <1>4, WaitLoopSeesNoHalf
<1>5. CASE \E e : Sleep(e)
  BY <1>5, SleepSeesNoHalf
<1>6. CASE SysFork
  <2>1. state' = state \/ state' = [state EXCEPT ![FirstFree] = "READY"]
    BY <1>6 DEF SysFork
  <2> QED BY <2>1 DEF NoneHalfMade, IInv, TypeOK
<1>7. CASE Exit
  <2> DEFINE ws == WokenState(ExitEvent)
             st == [ws EXCEPT ![current_process] = "KILLED"]
  <2>1. ws \in [Slot -> States] /\ \A p \in Slot : ws[p] # "INIT"
    BY WokenSeesNoHalf DEF Event
  <2> HIDE DEF ws
  <2>2. st \in [Slot -> States] /\ \A p \in Slot : st[p] # "INIT"
    BY <2>1 DEF States
  <2>3. Schedule(st, WokenReady(ExitEvent))
    BY <1>7 DEF Exit, ws
  <2> QED BY <2>2, <2>3, ScheduleSeesNoHalf
<1> QED BY <1>1, <1>2, <1>3, <1>4, <1>5, <1>6, <1>7

\* So no step of Process does.
LEMMA NextSeesNoHalf ==
  ASSUME ConstantsAssumption, IInv, NoneHalfMade, [Next]_vars
  PROVE  NoneHalfMade'
<1>1. ASSUME NEW n, NEW old, SleepLoop(n, old)  PROVE UNCHANGED state \/ \E e : Sleep(e)
  BY <1>1 DEF SleepLoop
<1>2. CASE SysSleep \/ ResumeSleep
  BY <1>1, <1>2, NoneHalfMadeStep DEF SysSleep, ResumeSleep
<1>3. CASE SysKeyboardRead
  BY <1>3, NoneHalfMadeStep DEF SysKeyboardRead, BlockOnKey
<1>4. CASE SysWait \/ ResumeWait
  BY <1>4, NoneHalfMadeStep DEF SysWait, ResumeWait
<1>5. CASE ResumeKey \/ Stopped \/ UNCHANGED vars
  BY <1>5, NoneHalfMadeStep DEF ResumeKey, Stopped, vars
<1> QED BY <1>2, <1>3, <1>4, <1>5, NoneHalfMadeStep DEF Next

\* Blocking calls other than wait(), and returns, leave the pids alone.
LEMMA FramePids ==
  ASSUME ConstantsAssumption, LInv, NEW f \in Frame,
         f.at = "wait" => f.arg \in WAIT_PIDS,
         kstack' = [kstack EXCEPT ![current_process] = f], UNCHANGED <<pid, pid_num>>,
         NoneHalfMade'
  PROVE  PidsOK'
<1>1. current_process \in Slot /\ kstack \in [Slot -> Frame]
  BY DEF LInv, IInv, TypeOK
<1>2. /\ kstack'[current_process] = f
      /\ \A p \in Slot \ {current_process} : kstack'[p] = kstack[p]
  BY <1>1
<1>3. \A p \in Slot : kstack'[p].at = "wait" => kstack'[p].arg \in WAIT_PIDS
  BY <1>2 DEF LInv, PidsOK
<1> QED BY <1>3 DEF LInv, PidsOK

\* No two slots ever share a pid.
LEMMA PidsStep ==
  ASSUME ConstantsAssumption, LInv, [Next]_vars
  PROVE  PidsOK'
<1>1. NoneHalfMade'
  BY NextSeesNoHalf DEF LInv, PidsOK
<1>2. /\ current_process \in Slot /\ kstack \in [Slot -> Frame]
      /\ ticks \in 0 .. TICK_MOD - 1 /\ kstack[Idle].at = "user"
  BY DEF LInv, IInv, TypeOK, SlotsOK
<1>3. CASE UNCHANGED <<pid, kstack, pid_num>>
  BY <1>1, <1>3 DEF LInv, PidsOK
<1>4. CASE ReturnToUser /\ UNCHANGED <<pid, pid_num>>
  <2>1. UserFrame \in Frame /\ UserFrame.at # "wait"
    BY UserFrameType
  <2> QED BY <1>1, <1>4, <2>1, FramePids DEF ReturnToUser
<1>5. ASSUME NEW at, NEW arg, NEW old, [at |-> at, arg |-> arg, old |-> old] \in Frame,
             at = "wait" => arg \in WAIT_PIDS,
             Park(at, arg, old), UNCHANGED <<pid, pid_num>>
      PROVE  PidsOK'
  <2>1. PICK f \in Frame : f = [at |-> at, arg |-> arg, old |-> old]
    BY <1>5
  <2>2. f.at = "wait" => f.arg \in WAIT_PIDS
    BY <1>5, <2>1
  <2> QED BY <1>1, <1>5, <2>1, <2>2, FramePids DEF Park
<1>6. ASSUME NEW n \in Int, NEW old \in 0 .. TICK_MOD - 1, SleepLoop(n, old)  PROVE PidsOK'
  <2>1. [at |-> "sys_sleep", arg |-> n, old |-> old] \in Frame
    BY DEF Frame
  <2> QED BY <1>4, <1>5, <1>6, <2>1 DEF SleepLoop
<1>7. ASSUME NEW k \in WAIT_PIDS, WaitLoop(k)  PROVE PidsOK'
  <2>1. CASE Park("wait", k, 0) /\ UNCHANGED <<pid, pid_num>>
    <3>1. [at |-> "wait", arg |-> k, old |-> 0] \in Frame
      BY DEF Frame, ConstantsAssumption
    <3> QED BY <1>5, <2>1, <3>1
  <2>2. ASSUME NEW z \in kill_list, Reap(z)  PROVE PidsOK'
    <3>1. /\ pid' = [pid EXCEPT ![z] = 0] /\ ReturnToUser /\ pid_num' = pid_num
          /\ pid \in [Slot -> 0 .. MAX_PID] /\ z \in Slot /\ pid_num \in 2 .. MAX_PID + 1
      BY <2>2 DEF Reap, LInv, IInv, TypeOK
    <3>2. \A p \in Slot : pid'[p] = IF p = z THEN 0 ELSE pid[p]
      BY <3>1
    <3>3. \A p, q \in Slot : pid'[p] = pid'[q] /\ pid'[p] # 0 => p = q
      BY <3>2 DEF LInv, PidsOK
    <3>4. \A p \in Slot : pid'[p] < pid_num'
      BY <3>1, <3>2 DEF LInv, PidsOK, ConstantsAssumption
    <3>5. \A p \in Slot : kstack'[p].at = "wait" => kstack'[p].arg \in WAIT_PIDS
      <4>1. /\ kstack'[current_process].at = "user"
            /\ \A p \in Slot \ {current_process} : kstack'[p] = kstack[p]
        BY <1>2, <3>1, UserFrameType DEF ReturnToUser
      <4> QED BY <4>1 DEF LInv, PidsOK
    <3> QED BY <1>1, <3>3, <3>4, <3>5 DEF PidsOK
  <2> QED BY <1>7, <2>1, <2>2 DEF WaitLoop
<1>8. CASE SysFork
  <2>1. CASE FreeSlots = {}
    BY <1>3, <1>8, <2>1 DEF SysFork
  <2>2. CASE FreeSlots # {}
    <3>1. PICK n \in Slot : n = FirstFree
      BY <2>2, FirstFreeIsFree DEF LInv
    <3>2. /\ pid' = [pid EXCEPT ![n] = pid_num] /\ pid_num' = pid_num + 1 /\ kstack' = kstack
          /\ pid \in [Slot -> 0 .. MAX_PID] /\ pid_num \in 2 .. MAX_PID + 1 /\ MAX_PID \in Nat
      BY <1>8, <2>2, <3>1 DEF SysFork, LInv, IInv, TypeOK, ConstantsAssumption
    <3>3. \A p \in Slot : pid'[p] = IF p = n THEN pid_num ELSE pid[p]
      BY <3>2
    <3>4. \A p \in Slot : pid[p] < pid_num /\ pid[p] \in Nat
      BY <3>2 DEF LInv, PidsOK
    <3>5. \A p, q \in Slot : pid'[p] = pid'[q] /\ pid'[p] # 0 => p = q
      BY <3>2, <3>3, <3>4 DEF LInv, PidsOK
    <3>6. \A p \in Slot : pid'[p] < pid_num'
      BY <3>2, <3>3, <3>4
    <3> QED BY <1>1, <3>2, <3>5, <3>6 DEF LInv, PidsOK
  <2> QED BY <2>1, <2>2
<1>9. CASE TimerInterrupt \/ KeyInterrupt \/ Exit \/ Stopped \/ UNCHANGED vars
  BY <1>3, <1>9 DEF TimerInterrupt, KeyInterrupt, Exit, Stopped, vars
<1>10. CASE SysSleep
  <2>1. PICK n \in SLEEP_TICKS : SleepLoop(n, ticks)
    BY <1>10 DEF SysSleep
  <2>2. n \in Int
    BY DEF ConstantsAssumption
  <2> QED BY <1>2, <1>6, <2>1, <2>2
<1>11. CASE ResumeSleep
  <2>1. kstack[current_process].arg \in Int /\ kstack[current_process].old \in 0 .. TICK_MOD - 1
    BY <1>2 DEF Frame
  <2> QED BY <1>6, <1>11, <2>1 DEF ResumeSleep
<1>12. CASE SysWait
  BY <1>7, <1>12 DEF SysWait
<1>13. CASE ResumeWait
  <2>1. kstack[current_process].arg \in WAIT_PIDS /\ WaitLoop(kstack[current_process].arg)
    BY <1>2, <1>13 DEF ResumeWait, Resumed, LInv, PidsOK
  <2> QED BY <1>7, <2>1
<1>14. CASE SysKeyboardRead
  <2>1. [at |-> "read_key", arg |-> 0, old |-> 0] \in Frame
    BY DEF Frame, ConstantsAssumption
  <2> QED BY <1>5, <1>14, <2>1 DEF SysKeyboardRead, BlockOnKey
<1>15. CASE ResumeKey
  BY <1>4, <1>15 DEF ResumeKey
<1> QED BY <1>8, <1>9, <1>10, <1>11, <1>12, <1>13, <1>14, <1>15 DEF Next

\* The pids of the slots in use, of the corpses, and who waits for whom.
PidsInUse(pd, kl) == {pd[p] : p \in {q \in Slot : pd[q] # 0 /\ q \notin kl}}
PidsDead(pd, kl) == {pd[p] : p \in kl}
WaitPairs(pd, ks) == {<<pd[p], ks[p].arg>> : p \in {q \in Slot : ks[q].at = "wait"}}

\* The live processes of the refinement are the pids in use.
LEMMA LiveInUse ==
  ASSUME ConstantsAssumption, LInv, LInv'
  PROVE  /\ {pid[p] : p \in {q \in Slot : Live(q)}} = PidsInUse(pid, kill_list)
         /\ {pid[p] : p \in {q \in Slot : Live(q)}}' = PidsInUse(pid', kill_list')
<1>1. \A p \in Slot : Live(p) <=> pid[p] # 0 /\ p \notin kill_list
  BY DEF Live, LInv, PidsOK, NoneHalfMade, IInv, TypeOK, ListsMatchStates, SlotsOK, States, Proc
<1>2. \A p \in Slot : Live(p)' <=> pid'[p] # 0 /\ p \notin kill_list'
  BY DEF Live, LInv, PidsOK, NoneHalfMade, IInv, TypeOK, ListsMatchStates, SlotsOK, States, Proc
<1>3. {q \in Slot : Live(q)} = {q \in Slot : pid[q] # 0 /\ q \notin kill_list}
  BY <1>1
<1>4. {q \in Slot : Live(q)}' = {q \in Slot : pid'[q] # 0 /\ q \notin kill_list'}
  BY <1>2
<1> QED BY <1>3, <1>4 DEF PidsInUse

\* Steps that leave the pids, the corpses and the waiters alone.
LEMMA LifeStutters ==
  ASSUME ConstantsAssumption, LInv, LInv', UNCHANGED <<pid, kill_list, pid_num, panic>>,
         \A q \in Slot : /\ kstack'[q].at = "wait" <=> kstack[q].at = "wait"
                         /\ kstack[q].at = "wait" => kstack'[q].arg = kstack[q].arg
  PROVE  UNCHANGED Life!vars
<1>1. {pid[p] : p \in {q \in Slot : Live(q)}}' = {pid[p] : p \in {q \in Slot : Live(q)}}
  BY LiveInUse
<1>2. WaitPairs(pid', kstack') = WaitPairs(pid, kstack)
  BY DEF WaitPairs
<1>3. {pid[p] : p \in kill_list}' = {pid[p] : p \in kill_list}
  OBVIOUS
<1> QED BY <1>1, <1>2, <1>3 DEF Life!vars, WaitPairs

\* A process that makes a system call is live, and in no wait().
LEMMA CallerActive ==
  ASSUME ConstantsAssumption, LInv, LInv', InSyscall
  PROVE  /\ pid[current_process] \in Life!Pid
         /\ Life!Active(pid[current_process])
         /\ current_process \in Proc /\ current_process \notin kill_list
<1>1. /\ current_process \in Proc /\ state[current_process] = "RUNNING"
      /\ pid[current_process] # 0 /\ kstack[current_process].at = "user" /\ panic = "none"
  BY CurrentRuns DEF InSyscall, UserMode, LInv
<1>2. current_process \in Slot /\ current_process \notin kill_list /\ pid[current_process] \in 0 .. MAX_PID
  BY <1>1 DEF LInv, IInv, TypeOK, ListsMatchStates, Proc
<1>3. pid[current_process] \in {pid[p] : p \in {q \in Slot : Live(q)}}
  BY <1>1, <1>2 DEF Live, Proc
<1>4. ASSUME NEW k,
             <<pid[current_process], k>> \in {<<pid[p], kstack[p].arg>> : p \in {q \in Slot : kstack[q].at = "wait"}}
      PROVE  FALSE
  <2>1. PICK q \in Slot : kstack[q].at = "wait" /\ <<pid[current_process], k>> = <<pid[q], kstack[q].arg>>
    BY <1>4
  <2>2. pid[q] = pid[current_process]
    BY <2>1
  <2> QED BY <1>1, <1>2, <2>1, <2>2 DEF LInv, PidsOK
<1>5. pid[current_process] \in Life!Pid
  BY <1>1, <1>2 DEF Life!Pid, ConstantsAssumption
<1> QED BY <1>1, <1>2, <1>3, <1>4, <1>5 DEF Life!Active

\* Scheduling changes panic only when an ASSERT fails, and none does.
LEMMA ScheduleQuiet ==
  ASSUME LInv', panic = "none", NEW st, NEW rl, Schedule(st, rl)
  PROVE  panic' = panic
BY DEF Schedule, LInv, IInv, OnlyForkAsserts

\* exit() is a death.
LEMMA ExitDies ==
  ASSUME ConstantsAssumption, LInv, LInv', Exit
  PROVE  \E p \in Life!Pid : Life!Die(p)
<1>1. /\ pid[current_process] \in Life!Pid /\ Life!Active(pid[current_process]) /\ InSyscall /\ panic = "none"
      /\ current_process \in Proc /\ current_process \in Slot /\ current_process \notin kill_list
  BY CallerActive DEF Exit, InSyscall, UserMode, Proc
<1>2. /\ kill_list' = kill_list \cup {current_process} /\ UNCHANGED <<pid, kstack, pid_num>>
      /\ panic' = panic
  BY <1>1, ScheduleQuiet DEF Exit
<1>3. PidsInUse(pid', kill_list') = PidsInUse(pid, kill_list) \ {pid[current_process]}
  BY <1>1, <1>2 DEF PidsInUse, LInv, PidsOK
<1>4. {pid[p] : p \in kill_list}' = {pid[p] : p \in kill_list} \cup {pid[current_process]}
  BY <1>2
<1>5. {<<pid[p], kstack[p].arg>> : p \in {q \in Slot : kstack[q].at = "wait"}}'
        = {<<pid[p], kstack[p].arg>> : p \in {q \in Slot : kstack[q].at = "wait"}}
  BY <1>2
<1>6. {pid[p] : p \in {q \in Slot : Live(q)}}'
        = {pid[p] : p \in {q \in Slot : Live(q)}} \ {pid[current_process]}
  BY <1>3, LiveInUse
<1> QED BY <1>1, <1>2, <1>4, <1>5, <1>6 DEF Life!Die

\* The pids handed out and not collected yet are as many as the slots in use.
LEMMA PidsAreSlots ==
  ASSUME ConstantsAssumption, LInv
  PROVE  /\ Cardinality(PidsInUse(pid, kill_list) \cup {pid[p] : p \in kill_list})
              = Cardinality(Proc \ FreeSlots)
         /\ Cardinality(Proc) = NUM_PROC - 1 /\ IsFiniteSet(Proc)
<1> DEFINE Used == Proc \ FreeSlots
           Pids == PidsInUse(pid, kill_list) \cup {pid[p] : p \in kill_list}
           f == [p \in Used |-> pid[p]]
<1>1. Proc = 1 .. NUM_PROC - 1
  BY DEF Proc, Slot, Idle, ConstantsAssumption
<1>2. IsFiniteSet(Proc) /\ Cardinality(Proc) = NUM_PROC - 1
  <2>1. /\ IsFiniteSet(1 .. NUM_PROC - 1)
        /\ Cardinality(1 .. NUM_PROC - 1) = IF 1 > NUM_PROC - 1 THEN 0 ELSE NUM_PROC - 1 - 1 + 1
    BY FS_Interval DEF ConstantsAssumption
  <2> QED BY <1>1, <2>1 DEF ConstantsAssumption
<1>3. IsFiniteSet(Used)
  BY <1>2, FS_Subset
<1>4. \A p \in Slot : p \in Used <=> pid[p] # 0
  BY DEF FreeSlots, Proc, LInv, IInv, SlotsOK
<1>5. kill_list \subseteq Used
  BY DEF FreeSlots, Proc, LInv, IInv, TypeOK, ListsMatchStates
<1>6. Pids = {pid[p] : p \in Used}
  <2>1. \A x : x \in Pids <=> \E p \in Slot : pid[p] # 0 /\ x = pid[p]
    BY <1>4, <1>5 DEF PidsInUse, Proc
  <2>2. \A x : x \in {pid[p] : p \in Used} <=> \E p \in Slot : pid[p] # 0 /\ x = pid[p]
    BY <1>4 DEF Proc
  <2> QED BY <2>1, <2>2
<1> HIDE DEF Pids
<1>7. f \in Bijection(Used, Pids)
  <2>1. \A p, q \in Used : f[p] = f[q] => p = q
    BY <1>4 DEF LInv, PidsOK, Proc
  <2>2. f \in [Used -> Pids] /\ \A x \in Pids : \E p \in Used : f[p] = x
    BY <1>6
  <2> QED BY <2>1, <2>2 DEF Bijection, Injection, Surjection, IsInjective
<1>8. Cardinality(Pids) = Cardinality(Used)
  BY <1>3, <1>7, FS_Bijection DEF ExistsBijection
<1> QED BY <1>2, <1>8 DEF Pids

\* Lifecycle counts with the same Cardinality.
LEMMA SameCardinality == \A S : Life!Cardinality(S) = Cardinality(S)
BY DEF Cardinality, Life!Cardinality, IsFiniteSet, Life!IsFiniteSet

\* fork() makes a process, or fails because there is no room for one.
LEMMA ForkMaps ==
  ASSUME ConstantsAssumption, LInv, LInv', SysFork
  PROVE  \E p \in Life!Pid : Life!Fork(p) \/ Life!ForkFails(p)
<1>1. Life!Active(pid[current_process]) /\ pid[current_process] \in Life!Pid /\ panic = "none"
  BY CallerActive DEF SysFork, InSyscall, UserMode
<1>2. {pid[p] : p \in {q \in Slot : Live(q)}} = PidsInUse(pid, kill_list)
  BY LiveInUse
<1>3. CASE FreeSlots = {}
  <2>1. Proc \ FreeSlots = Proc
    BY <1>3
  <2>2. Life!Full
    BY <1>2, <2>1, PidsAreSlots, SameCardinality DEF Life!Full
  <2>3. panic' = "fork" /\ UNCHANGED <<pid, kstack, pid_num, kill_list>>
    BY <1>3 DEF SysFork
  <2>4. PidsInUse(pid', kill_list') = PidsInUse(pid, kill_list)
    BY <2>3
  <2>5. {pid[p] : p \in {q \in Slot : Live(q)}}' = {pid[p] : p \in {q \in Slot : Live(q)}}
    BY <2>4, LiveInUse
  <2>6. /\ {pid[p] : p \in kill_list}' = {pid[p] : p \in kill_list}
        /\ {<<pid[p], kstack[p].arg>> : p \in {q \in Slot : kstack[q].at = "wait"}}'
             = {<<pid[p], kstack[p].arg>> : p \in {q \in Slot : kstack[q].at = "wait"}}
    BY <2>3
  <2> QED BY <1>1, <2>2, <2>3, <2>5, <2>6 DEF Life!ForkFails
<1>4. CASE FreeSlots # {}
  <2>1. PICK n \in Slot : n = FirstFree /\ n \in Proc /\ n \in FreeSlots
    BY <1>4, FirstFreeIsFree DEF LInv, FreeSlots
  <2>2. /\ pid_num <= MAX_PID /\ pid' = [pid EXCEPT ![n] = pid_num] /\ pid_num' = pid_num + 1
        /\ UNCHANGED <<kstack, kill_list, panic>>
        /\ pid_num \in 2 .. MAX_PID + 1
    BY <1>4, <2>1 DEF SysFork, LInv, IInv, TypeOK
  <2>3. /\ pid[n] = 0 /\ n \notin kill_list /\ kstack[n].at # "wait"
        /\ pid \in [Slot -> 0 .. MAX_PID]
    BY <2>1 DEF FreeSlots, LInv, IInv, TypeOK, ListsMatchStates, SlotsOK
  <2>4. pid'[n] = pid_num /\ pid_num # 0 /\ \A p \in Slot \ {n} : pid'[p] = pid[p]
    BY <2>2, <2>3
  <2>5. PidsInUse(pid', kill_list') = PidsInUse(pid, kill_list) \cup {pid_num}
    BY <2>2, <2>3, <2>4 DEF PidsInUse
  <2>6. {pid[p] : p \in kill_list}' = {pid[p] : p \in kill_list}
    BY <2>2, <2>3, <2>4 DEF LInv, IInv, TypeOK
  <2>7. {<<pid[p], kstack[p].arg>> : p \in {q \in Slot : kstack[q].at = "wait"}}'
          = {<<pid[p], kstack[p].arg>> : p \in {q \in Slot : kstack[q].at = "wait"}}
    BY <2>2, <2>3, <2>4
  <2>8. ~Life!Full
    <3>1. /\ IsFiniteSet(Proc) /\ Cardinality(Proc) = NUM_PROC - 1
          /\ Cardinality(PidsInUse(pid, kill_list) \cup {pid[p] : p \in kill_list})
               = Cardinality(Proc \ FreeSlots)
      BY PidsAreSlots
    <3>2. Proc \ FreeSlots \in SUBSET Proc /\ Proc \ FreeSlots # Proc
      BY <2>1
    <3>3. Cardinality(Proc \ FreeSlots) # Cardinality(Proc)
      BY <3>1, <3>2, FS_Subset
    <3> QED BY <1>2, <3>1, <3>3, SameCardinality DEF Life!Full
  <2>9. pid_num \in Life!Pid
    BY <2>2 DEF Life!Pid, ConstantsAssumption
  <2>10. {pid[p] : p \in {q \in Slot : Live(q)}}'
           = {pid[p] : p \in {q \in Slot : Live(q)}} \cup {pid_num}
    BY <1>2, <2>5, LiveInUse
  <2> QED BY <1>1, <2>2, <2>6, <2>7, <2>8, <2>9, <2>10 DEF Life!Fork
<1> QED BY <1>3, <1>4

\* wait() finds the corpse z: the caller, if it was blocked, waited for its
\* pid, and no other process has that pid.
LEMMA ReapCollects ==
  ASSUME ConstantsAssumption, LInv, LInv', NEW k \in WAIT_PIDS, panic = "none",
         current_process # Idle, kstack[current_process].at \in {"user", "wait"},
         kstack[current_process].at = "wait" => kstack[current_process].arg = k,
         NEW z \in kill_list, pid[z] = k, Reap(z)
  PROVE  Life!Collect(pid[current_process], k) /\ pid[current_process] \in Life!Pid
<1> DEFINE c == current_process
<1>1. /\ c \in Slot /\ c \in Proc /\ state[c] = "RUNNING" /\ pid[c] # 0
      /\ pid[c] \in 0 .. MAX_PID /\ MAX_PID \in Nat
  BY CurrentRuns DEF LInv, IInv, TypeOK, ConstantsAssumption
<1>2. /\ z \in Slot /\ z \in Proc /\ state[z] = "KILLED" /\ kstack[z].at = "user" /\ z # c /\ k # 0
  BY <1>1 DEF LInv, IInv, TypeOK, ListsMatchStates, SlotsOK, Proc
<1>3. /\ panic' = panic /\ kill_list' = kill_list \ {z} /\ pid_num' = pid_num
      /\ pid' = [pid EXCEPT ![z] = 0] /\ kstack' = [kstack EXCEPT ![c] = UserFrame]
      /\ pid \in [Slot -> 0 .. MAX_PID] /\ kstack \in [Slot -> Frame]
  BY <1>2 DEF Reap, ReturnToUser, LInv, IInv, TypeOK
<1>4. /\ pid'[z] = 0 /\ \A p \in Slot \ {z} : pid'[p] = pid[p]
      /\ kstack'[c].at = "user" /\ \A p \in Slot \ {c} : kstack'[p] = kstack[p]
  BY <1>1, <1>2, <1>3, UserFrameType
<1>5. \A p, q \in Slot : pid[p] = pid[q] /\ pid[p] # 0 => p = q
  BY DEF LInv, PidsOK
<1>6. PidsInUse(pid', kill_list') = PidsInUse(pid, kill_list)
  BY <1>2, <1>3, <1>4 DEF PidsInUse
<1>7. {pid[p] : p \in kill_list}' = {pid[p] : p \in kill_list} \ {k}
  <2>1. kill_list \subseteq Slot
    BY DEF LInv, IInv, TypeOK
  <2>2. \A x : x \in {pid'[p] : p \in kill_list'} <=> \E p \in kill_list : p # z /\ x = pid[p]
    BY <1>3, <1>4, <2>1
  <2>3. \A p \in kill_list : p # z <=> pid[p] # k
    BY <1>2, <1>5, <2>1
  <2>4. \A x : x \in {pid[p] : p \in kill_list} \ {k} <=> \E p \in kill_list : p # z /\ x = pid[p]
    BY <2>3
  <2>5. {pid'[p] : p \in kill_list'} = {pid[p] : p \in kill_list} \ {k}
    BY <2>2, <2>4
  <2> QED BY <2>5
<1>8. WaitPairs(pid', kstack') = WaitPairs(pid, kstack) \ {<<pid[c], k>>}
  <2>1. \A p \in Slot : kstack'[p].at = "wait" <=> kstack[p].at = "wait" /\ p # c
    BY <1>1, <1>4
  <2>2. \A p \in Slot : kstack[p].at = "wait" /\ p # c =>
           pid'[p] = pid[p] /\ kstack'[p] = kstack[p] /\ pid[p] # pid[c]
    BY <1>1, <1>2, <1>4, <1>5
  <2>3. ASSUME NEW x  PROVE x \in WaitPairs(pid', kstack') <=> x \in WaitPairs(pid, kstack) \ {<<pid[c], k>>}
    <3>1. x \in WaitPairs(pid', kstack') <=>
            \E p \in Slot : kstack[p].at = "wait" /\ p # c /\ x = <<pid[p], kstack[p].arg>>
      BY <2>1, <2>2 DEF WaitPairs
    <3>2. x \in WaitPairs(pid, kstack) <=>
            \E p \in Slot : kstack[p].at = "wait" /\ x = <<pid[p], kstack[p].arg>>
      BY DEF WaitPairs
    <3>3. ASSUME NEW p \in Slot, kstack[p].at = "wait", x = <<pid[p], kstack[p].arg>>
          PROVE  p # c <=> x # <<pid[c], k>>
      BY <2>2, <3>3
    <3> QED BY <3>1, <3>2, <3>3
  <2> QED BY <2>3
<1>9. Life!Active(pid[c]) \/ <<pid[c], k>> \in WaitPairs(pid, kstack)
  <2>1. CASE kstack[c].at = "user"
    BY <1>1, <2>1, CallerActive DEF InSyscall, UserMode
  <2>2. CASE kstack[c].at = "wait"
    BY <1>1, <2>2 DEF WaitPairs
  <2> QED BY <2>1, <2>2
<1>10. k \in {pid[p] : p \in kill_list}
  OBVIOUS
<1>11. {pid[p] : p \in {q \in Slot : Live(q)}}' = {pid[p] : p \in {q \in Slot : Live(q)}}
  BY <1>6, LiveInUse
<1>12. pid[c] \in Life!Pid
  BY <1>1 DEF Life!Pid
<1> QED BY <1>3, <1>7, <1>8, <1>9, <1>10, <1>11, <1>12 DEF Life!Collect, WaitPairs

\* wait() finds no corpse: the caller blocks, or stays blocked.
LEMMA SleepBlocks ==
  ASSUME ConstantsAssumption, LInv, LInv', NEW k \in WAIT_PIDS, panic = "none",
         current_process # Idle, kstack[current_process].at \in {"user", "wait"},
         kstack[current_process].at = "wait" => kstack[current_process].arg = k,
         {z \in kill_list : pid[z] = k} = {}, Park("wait", k, 0), Sleep(ExitEvent),
         UNCHANGED <<pid, kill_list, pid_num, ticks>>
  PROVE  \/ Life!Block(pid[current_process], k) /\ pid[current_process] \in Life!Pid
         \/ UNCHANGED Life!vars
<1> DEFINE c == current_process
<1>1. /\ c \in Slot /\ panic' = panic /\ kstack \in [Slot -> Frame]
      /\ kstack' = [kstack EXCEPT ![c] = [at |-> "wait", arg |-> k, old |-> 0]]
  BY ScheduleQuiet DEF Sleep, Park, LInv, IInv, TypeOK
<1>2. /\ kstack'[c].at = "wait" /\ kstack'[c].arg = k
      /\ \A p \in Slot \ {c} : kstack'[p] = kstack[p]
  BY <1>1
<1>3. CASE kstack[c].at = "user"
  <2>1. Life!Active(pid[c]) /\ pid[c] \in Life!Pid
    BY <1>3, CallerActive DEF InSyscall, UserMode
  <2>2. WaitPairs(pid', kstack') = WaitPairs(pid, kstack) \cup {<<pid[c], k>>}
    BY <1>1, <1>2, <1>3 DEF WaitPairs
  <2>3. k \notin {pid[p] : p \in kill_list}
    OBVIOUS
  <2>4. {pid[p] : p \in {q \in Slot : Live(q)}}' = {pid[p] : p \in {q \in Slot : Live(q)}}
    BY LiveInUse
  <2>5. {pid[p] : p \in kill_list}' = {pid[p] : p \in kill_list}
    OBVIOUS
  <2> QED BY <1>1, <2>1, <2>2, <2>3, <2>4, <2>5 DEF Life!Block, WaitPairs
<1>4. CASE kstack[c].at = "wait"
  BY <1>1, <1>2, <1>4, LifeStutters
<1> QED BY <1>3, <1>4

\* One turn of the loop of wait().
LEMMA WaitMaps ==
  ASSUME ConstantsAssumption, LInv, LInv', NEW k \in WAIT_PIDS, panic = "none",
         current_process # Idle, kstack[current_process].at \in {"user", "wait"},
         kstack[current_process].at = "wait" => kstack[current_process].arg = k, WaitLoop(k)
  PROVE  [Life!Next]_(Life!vars)
<1>1. CASE \E z \in {y \in kill_list : pid[y] = k} : Reap(z)
  BY <1>1, ReapCollects DEF Life!Next
<1>2. CASE ~ \E z \in {y \in kill_list : pid[y] = k} : Reap(z)
  BY <1>2, SleepBlocks DEF WaitLoop, Life!Next
<1> QED BY <1>1, <1>2

\* Blocking elsewhere, and returning, is no step of Lifecycle.
LEMMA ElsewhereStutters ==
  ASSUME ConstantsAssumption, LInv, LInv', NEW f, f.at # "wait",
         kstack[current_process].at # "wait",
         kstack' = [kstack EXCEPT ![current_process] = f],
         UNCHANGED <<pid, kill_list, pid_num, panic>>
  PROVE  UNCHANGED Life!vars
<1>1. current_process \in Slot /\ kstack \in [Slot -> Frame]
  BY DEF LInv, IInv, TypeOK
<1> QED BY <1>1, LifeStutters

\* Every step of Process is a step of Lifecycle, or none.
LEMMA NextMaps ==
  ASSUME ConstantsAssumption, LInv, LInv', [Next]_vars
  PROVE  [Life!Next]_(Life!vars)
<1>1. /\ kstack[Idle].at = "user" /\ kstack \in [Slot -> Frame] /\ current_process \in Slot
      /\ UserFrame.at # "wait"
  BY UserFrameType DEF LInv, IInv, TypeOK, SlotsOK
<1>2. ASSUME NEW n, NEW old, SleepLoop(n, old), panic = "none", kstack[current_process].at # "wait"
      PROVE  UNCHANGED Life!vars
  <2>1. CASE Park("sys_sleep", n, old) /\ Sleep(TickEvent) /\ UNCHANGED <<pid, kill_list, pid_num>>
    BY <1>2, <2>1, ElsewhereStutters, ScheduleQuiet DEF Park, Sleep
  <2>2. CASE ReturnToUser /\ UNCHANGED <<pid, kill_list, pid_num, panic>>
    BY <1>1, <1>2, <2>2, ElsewhereStutters DEF ReturnToUser
  <2> QED BY <1>2, <2>1, <2>2 DEF SleepLoop
<1>3. CASE TimerInterrupt
  <2>1. panic' = panic
    BY <1>3, ScheduleQuiet DEF TimerInterrupt, Yield, UserMode
  <2> QED BY <1>3, <2>1, LifeStutters DEF TimerInterrupt
<1>4. CASE KeyInterrupt \/ Stopped \/ UNCHANGED vars
  BY <1>4, LifeStutters DEF KeyInterrupt, Stopped, vars
<1>5. CASE SysSleep \/ ResumeSleep
  BY <1>1, <1>2, <1>5 DEF SysSleep, ResumeSleep, Resumed, InSyscall, UserMode
<1>6. CASE SysKeyboardRead
  BY <1>1, <1>6, ElsewhereStutters, ScheduleQuiet
     DEF SysKeyboardRead, BlockOnKey, InSyscall, UserMode, Park, Sleep
<1>7. CASE ResumeKey
  BY <1>1, <1>7, ElsewhereStutters DEF ResumeKey, Resumed, ReturnToUser
<1>8. CASE SysFork
  BY <1>8, ForkMaps DEF Life!Next
<1>9. CASE Exit
  BY <1>9, ExitDies DEF Life!Next
<1>10. CASE SysWait
  BY <1>10, WaitMaps DEF SysWait, InSyscall, UserMode
<1>11. CASE ResumeWait
  <2>1. /\ kstack[current_process].at = "wait" /\ panic = "none" /\ current_process # Idle
        /\ WaitLoop(kstack[current_process].arg)
    BY <1>1, <1>11 DEF ResumeWait, Resumed
  <2>2. kstack[current_process].arg \in WAIT_PIDS
    BY <1>1, <2>1 DEF LInv, PidsOK
  <2> QED BY <2>1, <2>2, WaitMaps
<1> QED BY <1>3, <1>4, <1>5, <1>6, <1>7, <1>8, <1>9, <1>10, <1>11 DEF Next

\* The first process is the only one, and its pid is 1.
LEMMA InitMaps ==
  ASSUME ConstantsAssumption, Init
  PROVE  LInv /\ Life!Init
<1>1. /\ IInv /\ Idle \in Slot /\ InitProc \in Slot /\ Idle # InitProc
      /\ Idle = 0 /\ InitProc = 1
  BY InitIInv DEF ConstantsAssumption, Slot, Idle, InitProc
<1>2. /\ state[InitProc] = "READY" /\ pid[InitProc] = 1
      /\ \A p \in Slot \ {InitProc} : pid[p] = 0 /\ state[p] \in {"RUNNING", "UNUSED"}
      /\ \A p \in Slot : kstack[p].at = "user"
      /\ \A p \in Slot \ {Idle, InitProc} : state[p] = "UNUSED"
      /\ pid_num = 2 /\ kill_list = {} /\ panic = "none"
  BY <1>1, UserFrameType DEF Init
<1>3. PidsOK
  BY <1>2 DEF PidsOK, NoneHalfMade
<1>4. \A p \in Slot : Live(p) <=> p = InitProc
  BY <1>1, <1>2 DEF Live
<1>5. {pid[p] : p \in {q \in Slot : Live(q)}} = {1}
  <2>1. {q \in Slot : Live(q)} = {InitProc}
    BY <1>1, <1>4
  <2> QED BY <1>2, <2>1
<1>6. /\ {pid[p] : p \in kill_list} = {}
      /\ {<<pid[p], kstack[p].arg>> : p \in {q \in Slot : kstack[q].at = "wait"}} = {}
  BY <1>2
<1> QED BY <1>1, <1>2, <1>3, <1>5, <1>6 DEF LInv, Life!Init

\* fork, exit and wait implement the life cycle: no pid is handed out twice, a
\* corpse is collected once and by a wait for its pid, wait returns in no
\* other way, and fork fails only on a table full of processes and corpses.
\* (The safety part of ImplementsLifecycle, for every number of slots.)
THEOREM ProcessIsLifecycle == Spec => Life!Spec
<1>1. Init => LInv /\ Life!Init
  BY InitMaps, ConstantsAssumption
<1>2. LInv /\ [Next]_vars => LInv'
  BY NextIInv, PidsStep, ConstantsAssumption DEF LInv
<1>3. LInv /\ LInv' /\ [Next]_vars => [Life!Next]_(Life!vars)
  BY NextMaps, ConstantsAssumption
<1> QED BY <1>1, <1>2, <1>3, PTL DEF Spec, Life!Spec

-----------------------------------------------------------------------------
(***************************************************************************)
(* sys_sleep(n) is late by less than a round of the ready list, for every  *)
(* number of slots, every modulus of the tick counter and every n.         *)
(*                                                                         *)
(* SleepOverrun is not inductive.  What is: a sleeper that still waits for *)
(* a tick has not slept its time; the tick that wakes it puts it into the  *)
(* ready list, at most as many places from the head as there are real      *)
(* processes; and a tick moves whoever is in the ready list one place      *)
(* ahead, because the process it interrupts goes to the tail and the head  *)
(* runs.  So a sleeper's place, added to the ticks that have passed, never *)
(* exceeds n + NUM_PROC - 2 (InTime).                                      *)
(***************************************************************************)

Elapsed(p) == (ticks - kstack[p].old) % TICK_MOD

\* How many more ticks process p may still wait, and the claim that p is not
\* further than k places from the head of queue q.
Slack(p) == (kstack[p].arg + (NUM_PROC - 2)) - Elapsed(p)
Ahead(q, p, k) == \A i \in 1 .. Len(q) : q[i] = p => i <= k

InTime(p) ==
  kstack[p].at = "sys_sleep" =>
    /\ \/ p \in Range(wait_list[TickEvent]) /\ Elapsed(p) < kstack[p].arg
       \/ p \in Range(ready_list)
       \/ p = current_process /\ Slack(p) >= 0
    /\ p \in Range(wait_list[TickEvent]) => Elapsed(p) < kstack[p].arg
    /\ Ahead(ready_list, p, Slack(p))

Rounds == \A p \in Proc : InTime(p)

-----------------------------------------------------------------------------
(***************************************************************************)
(* Facts about queues and the tick counter.                                *)
(***************************************************************************)

\* A queue without repetition is not longer than there are real processes.
LEMMA QueueLength ==
  ASSUME ConstantsAssumption, NEW q \in Seq(Proc), IsInjective(q)
  PROVE  Len(q) \in Nat /\ Len(q) <= NUM_PROC - 1
<1>1. /\ Len(q) \in Nat /\ q \in [1 .. Len(q) -> Proc] /\ DOMAIN q = 1 .. Len(q)
  BY LenProperties
<1>2. Proc = 1 .. NUM_PROC - 1 /\ NUM_PROC - 1 \in Nat
  BY DEF Proc, Slot, Idle, ConstantsAssumption
<1>3. IsFiniteSet(Proc) /\ Cardinality(Proc) = NUM_PROC - 1
  <2>1. /\ IsFiniteSet(1 .. NUM_PROC - 1)
        /\ Cardinality(1 .. NUM_PROC - 1)
             = IF 1 > NUM_PROC - 1 THEN 0 ELSE ((NUM_PROC - 1) - 1) + 1
    BY <1>2, FS_Interval
  <2> QED BY <1>2, <2>1
<1>4. Cardinality(1 .. Len(q)) = Len(q)
  <2>1. Cardinality(1 .. Len(q)) = IF 1 > Len(q) THEN 0 ELSE (Len(q) - 1) + 1
    BY <1>1, FS_Interval
  <2> QED BY <1>1, <2>1
<1>5. q \in Injection(1 .. Len(q), Proc)
  BY <1>1 DEF IsInjective, Injection
<1>6. Cardinality(1 .. Len(q)) <= Cardinality(Proc)
  BY <1>3, <1>5, FS_Injection
<1> QED BY <1>1, <1>3, <1>4, <1>6

\* One more tick is one more tick, or the counter has wrapped to the start of
\* the sleep.
LEMMA ElapsedGrows ==
  ASSUME NEW m \in Nat \ {0}, NEW t \in 0 .. m - 1, NEW o \in 0 .. m - 1
  PROVE  /\ (t - o) % m \in 0 .. m - 1
         /\ (((t + 1) % m) - o) % m \in 0 .. m - 1
         /\ (((t + 1) % m) - o) % m <= ((t - o) % m) + 1
<1>1. \A x \in 0 .. m - 1 : x % m = x
  OBVIOUS
<1>2. \A x \in Int : x < 0 /\ 0 - m < x => x % m = x + m
  OBVIOUS
<1>3. \A x \in 0 .. m - 1 : (x - o) % m = IF x >= o THEN x - o ELSE (x - o) + m
  <2> SUFFICES ASSUME NEW x \in 0 .. m - 1
               PROVE  (x - o) % m = IF x >= o THEN x - o ELSE (x - o) + m
    OBVIOUS
  <2>1. CASE x >= o
    <3>1. x - o \in 0 .. m - 1
      BY <2>1
    <3> QED BY <1>1, <2>1, <3>1
  <2>2. CASE x < o
    <3>1. x - o \in Int /\ x - o < 0 /\ 0 - m < x - o
      BY <2>2
    <3> QED BY <1>2, <2>2, <3>1
  <2> QED BY <2>1, <2>2
<1>4. (t + 1) % m = (IF t = m - 1 THEN 0 ELSE t + 1) /\ (t + 1) % m \in 0 .. m - 1
  <2>1. CASE t = m - 1
    <3>1. m % m = 0
      OBVIOUS
    <3> QED BY <2>1, <3>1
  <2>2. CASE t # m - 1
    <3>1. t + 1 \in 0 .. m - 1
      BY <2>2
    <3> QED BY <1>1, <2>2, <3>1
  <2> QED BY <2>1, <2>2
<1> DEFINE u == (t + 1) % m
<1>5. (t - o) % m = (IF t >= o THEN t - o ELSE (t - o) + m)
  BY <1>3
<1>6. (u - o) % m = (IF u >= o THEN u - o ELSE (u - o) + m)
  BY <1>3, <1>4
<1> DEFINE d == (t - o) % m
           e == (u - o) % m
<1>7. u = (IF t = m - 1 THEN 0 ELSE t + 1) /\ u \in 0 .. m - 1
  BY <1>4
<1> HIDE DEF u, d, e
<1>8. d = (IF t >= o THEN t - o ELSE (t - o) + m) /\ e = (IF u >= o THEN u - o ELSE (u - o) + m)
  BY <1>5, <1>6 DEF d, e
<1>9. d \in 0 .. m - 1 /\ e \in 0 .. m - 1 /\ e <= d + 1
  BY <1>7, <1>8
<1> QED BY <1>9 DEF u, d, e

\* The head leaves the ready list for the CPU and everybody else moves up.
LEMMA ScheduleMovesUp ==
  ASSUME NEW st, NEW rl \in Seq(Proc), Schedule(st, rl), NEW p \in Proc,
         NEW k \in Int, Ahead(rl, p, k)
  PROVE  /\ Ahead(ready_list', p, k - 1)
         /\ p = current_process' => k >= 1
         /\ p \in Range(rl) => p = current_process' \/ p \in Range(ready_list')
         /\ p = current_process' => p \in Range(rl)
<1>1. CASE rl = <<>>
  <2>1. ready_list' = <<>> /\ current_process' = Idle /\ p # Idle
    BY <1>1 DEF Schedule, Proc
  <2>2. Range(<<>>) = {} /\ Len(<<>>) = 0
    BY EmptyQueue, EmptySeq
  <2> QED BY <1>1, <2>1, <2>2 DEF Ahead
<1>2. CASE rl # <<>>
  <2>1. ready_list' = Tail(rl) /\ current_process' = Head(rl)
    BY <1>2 DEF Schedule
  <2>2. /\ Len(rl) \in Nat /\ Len(rl) > 0 /\ DOMAIN rl = 1 .. Len(rl) /\ Head(rl) = rl[1]
        /\ Tail(rl) \in Seq(Proc) /\ Len(Tail(rl)) = Len(rl) - 1
        /\ \A i \in 1 .. Len(Tail(rl)) : Tail(rl)[i] = rl[i + 1]
    BY <1>2, LenProperties, EmptySeq, HeadTailProperties
  <2>3. Ahead(ready_list', p, k - 1)
    <3> SUFFICES ASSUME NEW i \in 1 .. Len(ready_list'), ready_list'[i] = p  PROVE i <= k - 1
      BY DEF Ahead
    <3>1. i + 1 \in 1 .. Len(rl) /\ rl[i + 1] = p
      BY <2>1, <2>2
    <3> QED BY <2>1, <2>2, <3>1 DEF Ahead
  <2>4. p = current_process' => k >= 1
    BY <2>1, <2>2 DEF Ahead
  <2>5. ASSUME p \in Range(rl)  PROVE p = current_process' \/ p \in Range(ready_list')
    <3>1. PICK i \in 1 .. Len(rl) : rl[i] = p
      BY <2>2, <2>5 DEF Range
    <3>2. CASE i = 1
      BY <2>1, <2>2, <3>1, <3>2
    <3>3. CASE i # 1
      <4>1. i - 1 \in 1 .. Len(Tail(rl)) /\ Tail(rl)[i - 1] = p
        BY <2>2, <3>1, <3>3
      <4>2. DOMAIN Tail(rl) = 1 .. Len(Tail(rl))
        BY <2>2, LenProperties
      <4> QED BY <2>1, <4>1, <4>2 DEF Range
    <3> QED BY <3>2, <3>3
  <2>6. p = current_process' => p \in Range(rl)
    BY <2>1, <2>2 DEF Range
  <2> QED BY <2>3, <2>4, <2>5, <2>6
<1> QED BY <1>1, <1>2

\* Who is queued behind does not move anybody back.
LEMMA BehindOthers ==
  ASSUME NEW q \in Seq(Proc), NEW r \in Seq(Proc), NEW p, NEW k,
         Ahead(q, p, k), p \notin Range(r)
  PROVE  Ahead(q \o r, p, k)
<1>1. /\ Len(q) \in Nat /\ Len(r) \in Nat /\ DOMAIN r = 1 .. Len(r)
      /\ Len(q \o r) = Len(q) + Len(r)
      /\ \A i \in 1 .. Len(q) + Len(r) :
           (q \o r)[i] = IF i <= Len(q) THEN q[i] ELSE r[i - Len(q)]
  BY ConcatProperties, LenProperties
<1> SUFFICES ASSUME NEW i \in 1 .. Len(q \o r), (q \o r)[i] = p  PROVE i <= k
  BY DEF Ahead
<1>2. CASE i <= Len(q)
  BY <1>1, <1>2 DEF Ahead
<1>3. CASE i > Len(q)
  <2>1. i - Len(q) \in 1 .. Len(r) /\ r[i - Len(q)] = p
    BY <1>1, <1>3
  <2> QED BY <1>1, <2>1 DEF Range
<1> QED BY <1>1, <1>2, <1>3

\* Whoever is appended comes behind the others.
LEMMA BehindOne ==
  ASSUME NEW q \in Seq(Proc), NEW c \in Proc, NEW p, p # c, NEW k, Ahead(q, p, k)
  PROVE  Ahead(Append(q, c), p, k)
<1>1. /\ Len(q) \in Nat /\ Len(Append(q, c)) = Len(q) + 1
      /\ \A i \in 1 .. Len(q) : Append(q, c)[i] = q[i]
      /\ Append(q, c)[Len(q) + 1] = c
  BY AppendProperties, LenProperties
<1> QED BY <1>1 DEF Ahead

-----------------------------------------------------------------------------
(***************************************************************************)
(* What the steps do to one process.                                       *)
(***************************************************************************)

\* The types the arithmetic needs, and where a sleeper is not.
LEMMA SleeperTypes ==
  ASSUME ConstantsAssumption, IInv, NEW p \in Proc
  PROVE  /\ p \in Slot /\ kstack[p] \in Frame /\ kstack[p].arg \in Int /\ ticks \in 0 .. TICK_MOD - 1
         /\ Elapsed(p) \in 0 .. TICK_MOD - 1 /\ Elapsed(p) \in Int /\ Slack(p) \in Int
         /\ kstack[p].at = "sys_sleep" =>
              \A e \in {KeyEvent, ExitEvent} : p \notin Range(wait_list[e])
<1>1. /\ p \in Slot /\ kstack[p] \in Frame /\ ticks \in 0 .. TICK_MOD - 1
      /\ TICK_MOD \in Nat \ {0} /\ NUM_PROC \in Nat
  BY DEF IInv, TypeOK, Proc, ConstantsAssumption
<1>2. kstack[p].arg \in Int /\ kstack[p].old \in 0 .. TICK_MOD - 1
  BY <1>1 DEF Frame
<1>3. Elapsed(p) \in 0 .. TICK_MOD - 1
  BY <1>1, <1>2, ElapsedGrows DEF Elapsed
<1>4. Elapsed(p) \in Int /\ Slack(p) \in Int
  BY <1>1, <1>2, <1>3 DEF Slack
<1>5. ASSUME kstack[p].at = "sys_sleep", NEW e \in {KeyEvent, ExitEvent}
      PROVE  p \notin Range(wait_list[e])
  <2>1. EventOf(kstack[p]) = TickEvent
    BY <1>1, <1>5, FrameEvents
  <2>2. e \in Event /\ e # TickEvent
    BY DEF Event, TickEvent, KeyEvent, ExitEvent
  <2> QED BY <2>1, <2>2 DEF IInv, ListsMatchStates, Proc
<1> QED BY <1>1, <1>2, <1>3, <1>4, <1>5

\* A process that is neither on the CPU nor moved by the step, while another
\* one leaves the CPU: it stays where it is or moves up.
LEMMA OthersMoveUp ==
  ASSUME ConstantsAssumption, IInv, NEW p \in Proc, InTime(p), p # current_process,
         NEW st, NEW rl \in Seq(Proc), Schedule(st, rl),
         kstack[p].at = "sys_sleep" => Ahead(rl, p, Slack(p)),
         p \in Range(ready_list) => p \in Range(rl),
         Range(wait_list'[TickEvent]) \ {current_process}
           = Range(wait_list[TickEvent]) \ {current_process},
         kstack'[p] = kstack[p], ticks' = ticks
  PROVE  InTime(p)'
<1> SUFFICES ASSUME kstack[p].at = "sys_sleep"  PROVE InTime(p)'
  BY DEF InTime
<1>1. Slack(p) \in Int /\ Elapsed(p)' = Elapsed(p) /\ Slack(p)' = Slack(p)
  BY SleeperTypes DEF Slack, Elapsed
<1>2. /\ Ahead(ready_list', p, Slack(p) - 1)
      /\ p = current_process' => Slack(p) >= 1
      /\ p \in Range(rl) => p = current_process' \/ p \in Range(ready_list')
  BY <1>1, ScheduleMovesUp
<1>3. Ahead(ready_list', p, Slack(p))
  BY <1>1, <1>2 DEF Ahead
<1>4. p \in Range(wait_list'[TickEvent]) <=> p \in Range(wait_list[TickEvent])
  OBVIOUS
<1>5. p = current_process' => Slack(p)' >= 0
  BY <1>1, <1>2
<1>6. Ahead(ready_list, p, Slack(p))' <=> Ahead(ready_list', p, Slack(p))
  BY <1>1 DEF Ahead
<1> QED BY <1>1, <1>2, <1>3, <1>4, <1>5, <1>6 DEF InTime

\* The process on the CPU is on no queue.
LEMMA RunnerUnqueued ==
  ASSUME ConstantsAssumption, IInv
  PROVE  /\ current_process \notin Range(ready_list)
         /\ \A e \in Event : current_process \notin Range(wait_list[e])
         /\ ready_list \in Seq(Proc) /\ wait_list \in [Event -> Seq(Proc)]
<1>1. ready_list \in Seq(Proc) /\ wait_list \in [Event -> Seq(Proc)]
  BY DEF IInv, TypeOK, Proc
<1>2. Range(ready_list) \subseteq Proc /\ \A e \in Event : Range(wait_list[e]) \subseteq Proc
  BY <1>1, RangeOfSeq DEF Range
<1>3. current_process \in Proc => state[current_process] = "RUNNING"
  BY CurrentRuns DEF Proc
<1> QED BY <1>1, <1>2, <1>3 DEF IInv, ListsMatchStates, Proc

\* The current process blocks in a call; if the call is sys_sleep, its time is
\* not up.
LEMMA BlocksInTime ==
  ASSUME ConstantsAssumption, IInv, Rounds, current_process # Idle,
         NEW at, NEW arg \in Int, NEW old, NEW e \in Event, Park(at, arg, old), Sleep(e),
         ticks' = ticks,
         at = "sys_sleep" <=> e = TickEvent,
         at = "sys_sleep" => (ticks - old) % TICK_MOD < arg
  PROVE  Rounds'
<1> DEFINE c == current_process
<1>1. /\ c \in Proc /\ c \in Slot
      /\ c \notin Range(ready_list) /\ c \notin Range(wait_list[TickEvent])
      /\ ready_list \in Seq(Proc) /\ wait_list \in [Event -> Seq(Proc)]
  BY CurrentRuns, RunnerUnqueued DEF Event
<1>2. /\ kstack' = [kstack EXCEPT ![c] = [at |-> at, arg |-> arg, old |-> old]]
      /\ kstack'[c] = [at |-> at, arg |-> arg, old |-> old]
      /\ \A p \in Proc \ {c} : kstack'[p] = kstack[p]
  BY <1>1 DEF Park, IInv, TypeOK, Proc
<1>3. /\ Schedule([state EXCEPT ![c] = "SLEEP"], ready_list)
      /\ wait_list' = [wait_list EXCEPT ![e] = Append(@, c)]
  BY DEF Sleep
<1>4. /\ Range(wait_list'[e]) = Range(wait_list[e]) \cup {c}
      /\ \A d \in Event \ {e} : wait_list'[d] = wait_list[d]
  BY <1>1, <1>3, AppendQueue
<1>5. Range(wait_list'[TickEvent]) \ {c} = Range(wait_list[TickEvent]) \ {c}
  BY <1>4 DEF Event
<1>6. ASSUME NEW p \in Proc, p # c  PROVE InTime(p)'
  <2>1. InTime(p)
    BY DEF Rounds
  <2>2. kstack[p].at = "sys_sleep" => Ahead(ready_list, p, Slack(p))
    BY <2>1 DEF InTime
  <2> QED BY <1>1, <1>2, <1>3, <1>5, <1>6, <2>1, <2>2, OthersMoveUp
<1>7. ASSUME NEW p \in Proc, p = c  PROVE InTime(p)'
  <2> SUFFICES ASSUME at = "sys_sleep"
               PROVE  /\ p \in Range(wait_list'[TickEvent])
                      /\ (ticks' - kstack'[p].old) % TICK_MOD < kstack'[p].arg
                      /\ \A i \in 1 .. Len(ready_list') : ready_list'[i] # p
    BY <1>2, <1>7 DEF InTime, Elapsed, Ahead
  <2>1. Ahead(ready_list, p, 0)
    BY <1>1, <1>7, LenProperties DEF Ahead, Range
  <2>2. Ahead(ready_list', p, 0 - 1)
    BY <1>1, <1>3, <2>1, ScheduleMovesUp
  <2>3. ready_list' \in Seq(Proc)
    BY <1>1, <1>3, EmptySeq, HeadTailProperties DEF Schedule
  <2>4. \A i \in 1 .. Len(ready_list') : ready_list'[i] # p
    BY <2>2, <2>3, LenProperties DEF Ahead
  <2> QED BY <1>2, <1>4, <1>7, <2>4
<1>8. ASSUME NEW p \in Proc  PROVE InTime(p)'
  BY <1>6, <1>7
<1> QED BY <1>8 DEF Rounds

\* A return to user mode ends a sleep and changes nothing for the others.
LEMMA ReturnsInTime ==
  ASSUME ConstantsAssumption, IInv, Rounds, ReturnToUser,
         UNCHANGED <<current_process, ready_list, wait_list, ticks>>
  PROVE  Rounds'
<1>1. /\ kstack'[current_process].at = "user"
      /\ \A p \in Slot \ {current_process} : kstack'[p] = kstack[p]
  BY CurrentRuns, UserFrameType DEF ReturnToUser, IInv, TypeOK
<1>2. ASSUME NEW p \in Proc  PROVE InTime(p)'
  <2>1. CASE p = current_process
    BY <1>1, <2>1 DEF InTime
  <2>2. CASE p # current_process
    <3>1. kstack'[p] = kstack[p] /\ InTime(p)
      BY <1>1, <2>2 DEF Rounds, Proc
    <3> QED BY <3>1 DEF InTime, Elapsed, Slack, Ahead
  <2> QED BY <2>1, <2>2
<1> QED BY <1>2 DEF Rounds

\* wake_up() of readers and waiters queues them behind the sleepers.
LEMMA WokenBehind ==
  ASSUME ConstantsAssumption, IInv, Rounds, NEW e \in {KeyEvent, ExitEvent},
         NEW p \in Proc, kstack[p].at = "sys_sleep"
  PROVE  /\ Ahead(WokenReady(e), p, Slack(p))
         /\ p \in Range(ready_list) => p \in Range(WokenReady(e))
         /\ WokenReady(e) \in Seq(Proc)
         /\ WokenWait(e)[TickEvent] = wait_list[TickEvent]
<1>1. /\ ready_list \in Seq(Proc) /\ wait_list \in [Event -> Seq(Proc)]
      /\ e \in Event /\ e # TickEvent /\ TickEvent \in Event
  BY RunnerUnqueued DEF Event, TickEvent, KeyEvent, ExitEvent
<1>2. wait_list[e] \in Seq(Proc) /\ p \notin Range(wait_list[e])
  BY <1>1, SleeperTypes
<1>3. Ahead(ready_list, p, Slack(p))
  BY DEF Rounds, InTime
<1>4. Ahead(ready_list \o wait_list[e], p, Slack(p))
  BY <1>1, <1>2, <1>3, BehindOthers
<1> QED BY <1>1, <1>2, <1>4, ConcatQueue DEF WokenReady, WokenWait

-----------------------------------------------------------------------------
(***************************************************************************)
(* The actions.                                                            *)
(***************************************************************************)

\* IRQ 0: the sleepers whose time was not up join the ready list, and one
\* place is gained for the tick that is lost.
LEMMA TickInTime ==
  ASSUME ConstantsAssumption, IInv, Rounds, TimerInterrupt
  PROVE  Rounds'
<1> DEFINE wr == WokenReady(TickEvent)
<1>1. /\ kstack[current_process].at = "user" /\ kstack' = kstack
      /\ ticks' = (ticks + 1) % TICK_MOD /\ wait_list' = WokenWait(TickEvent)
      /\ Yield(WokenState(TickEvent), wr)
  BY DEF TimerInterrupt, UserMode
<1>2. /\ ready_list \in Seq(Proc) /\ wait_list \in [Event -> Seq(Proc)] /\ TickEvent \in Event
  BY RunnerUnqueued DEF Event
<1>3. /\ wr \in Seq(Proc) /\ wr = ready_list \o wait_list[TickEvent]
      /\ Range(wr) = Range(ready_list) \cup Range(wait_list[TickEvent])
      /\ Len(wr) \in Nat /\ Len(wr) <= NUM_PROC - 1
      /\ wait_list'[TickEvent] = <<>>
  <2>1. wr \in Seq(Proc) /\ IsInjective(wr)
    BY <1>2, WakeUp
  <2>2. Len(wr) \in Nat /\ Len(wr) <= NUM_PROC - 1
    BY <2>1, QueueLength
  <2>3. wr = ready_list \o wait_list[TickEvent]
    BY DEF WokenReady
  <2>4. Range(wr) = Range(ready_list) \cup Range(wait_list[TickEvent])
    BY <1>2, <2>3, ConcatQueue
  <2>5. wait_list'[TickEvent] = <<>>
    BY <1>1, <1>2 DEF WokenWait
  <2> QED BY <2>1, <2>2, <2>3, <2>4, <2>5
<1> HIDE DEF wr
<1>4. ASSUME NEW p \in Proc, kstack[p].at = "sys_sleep"  PROVE InTime(p)'
  <2>1. /\ p # current_process
        /\ p \in Range(wait_list[TickEvent]) => Elapsed(p) < kstack[p].arg
        /\ p \in Range(wr)
        /\ Ahead(ready_list, p, Slack(p))
    BY <1>1, <1>3, <1>4 DEF Rounds, InTime
  <2>2. /\ kstack[p].arg \in Int /\ Elapsed(p) \in Int /\ Slack(p) \in Int
        /\ NUM_PROC \in Int
        /\ Slack(p) = (kstack[p].arg + (NUM_PROC - 2)) - Elapsed(p)
    BY SleeperTypes DEF ConstantsAssumption, Slack
  <2>3. p \in Range(wait_list[TickEvent]) => Slack(p) >= NUM_PROC - 1
    BY <2>1, <2>2
  <2>4. Ahead(wr, p, Slack(p))
    <3>1. CASE p \in Range(wait_list[TickEvent])
      <4>1. \A i \in 1 .. Len(wr) : i <= Slack(p)
        BY <1>3, <2>2, <2>3, <3>1 DEF ConstantsAssumption
      <4> QED BY <4>1 DEF Ahead
    <3>2. CASE p \notin Range(wait_list[TickEvent])
      BY <1>2, <1>3, <2>1, <3>2, BehindOthers
    <3> QED BY <3>1, <3>2
  <2>5. wr # <<>>
    BY <2>1, EmptyQueue
  <2>6. PICK st :
          \/ Schedule(st, wr)
          \/ current_process \in Proc /\ Schedule(st, Append(wr, current_process))
    <3>1. Schedule([WokenState(TickEvent) EXCEPT ![current_process] = "READY"],
                   IF pid[current_process] = 0 THEN wr ELSE Append(wr, current_process))
      BY <1>1, <2>5 DEF Yield
    <3>2. pid[current_process] # 0 => current_process \in Proc
      BY CurrentRuns
    <3> QED BY <3>1, <3>2
  <2>7. PICK rl \in Seq(Proc) : Schedule(st, rl) /\ Ahead(rl, p, Slack(p)) /\ p \in Range(rl)
    <3>1. CASE Schedule(st, wr)
      BY <1>3, <2>1, <2>4, <3>1
    <3>2. CASE current_process \in Proc /\ Schedule(st, Append(wr, current_process))
      <4>1. /\ Append(wr, current_process) \in Seq(Proc)
            /\ Range(Append(wr, current_process)) = Range(wr) \cup {current_process}
        <5>1. wr \in Seq(Proc) /\ current_process \in Proc
          BY <1>3, <3>2
        <5> QED BY <5>1, AppendQueue
      <4>2. Ahead(Append(wr, current_process), p, Slack(p))
        BY <1>3, <2>1, <2>4, <3>2, BehindOne
      <4> QED BY <2>1, <3>2, <4>1, <4>2
    <3> QED BY <2>6, <3>1, <3>2
  <2>8. /\ Ahead(ready_list', p, Slack(p) - 1)
        /\ p = current_process' => Slack(p) >= 1
        /\ p = current_process' \/ p \in Range(ready_list')
    BY <2>2, <2>7, ScheduleMovesUp
  <2>9. Slack(p)' \in Int /\ Slack(p)' >= Slack(p) - 1
    <3>1. /\ ticks \in 0 .. TICK_MOD - 1 /\ TICK_MOD \in Nat \ {0}
          /\ kstack[p].old \in 0 .. TICK_MOD - 1
      BY SleeperTypes DEF ConstantsAssumption, Frame
    <3>2. /\ (ticks' - kstack[p].old) % TICK_MOD \in Int
          /\ (ticks' - kstack[p].old) % TICK_MOD <= Elapsed(p) + 1
      <4>1. /\ (((ticks + 1) % TICK_MOD) - kstack[p].old) % TICK_MOD \in 0 .. TICK_MOD - 1
            /\ (((ticks + 1) % TICK_MOD) - kstack[p].old) % TICK_MOD
                 <= ((ticks - kstack[p].old) % TICK_MOD) + 1
        BY <3>1, ElapsedGrows
      <4>2. ticks' = ((ticks + 1) % TICK_MOD)
        BY <1>1
      <4> QED BY <4>1, <4>2 DEF Elapsed
    <3>3. Slack(p)' = (kstack[p].arg + (NUM_PROC - 2)) - ((ticks' - kstack[p].old) % TICK_MOD)
      BY <1>1 DEF Slack, Elapsed
    <3> DEFINE d == (ticks' - kstack[p].old) % TICK_MOD
    <3> HIDE DEF d
    <3>4. d \in Int /\ d <= Elapsed(p) + 1
      BY <3>2 DEF d
    <3>5. Slack(p)' = (kstack[p].arg + (NUM_PROC - 2)) - d
      BY <3>3 DEF d
    <3> QED BY <2>2, <3>4, <3>5
  <2>10. ready_list' \in Seq(Proc)
    BY <2>7, EmptySeq, HeadTailProperties DEF Schedule
  <2>11. \A i \in 1 .. Len(ready_list') : ready_list'[i] = p => i <= Slack(p)'
    BY <2>2, <2>8, <2>9, <2>10, LenProperties DEF Ahead
  <2>12. p = current_process' => Slack(p)' >= 0
    BY <2>2, <2>8, <2>9
  <2>13. p \notin Range(wait_list'[TickEvent])
    BY <1>3, EmptyQueue
  <2> QED BY <2>8, <2>11, <2>12, <2>13 DEF InTime, Ahead
<1>5. ASSUME NEW p \in Proc, kstack[p].at # "sys_sleep"  PROVE InTime(p)'
  BY <1>1, <1>5 DEF InTime
<1>6. ASSUME NEW p \in Proc  PROVE InTime(p)'
  BY <1>4, <1>5
<1> QED BY <1>6 DEF Rounds

\* IRQ 1: the readers queue behind.
LEMMA KeyInTime ==
  ASSUME ConstantsAssumption, IInv, Rounds, KeyInterrupt
  PROVE  Rounds'
<1>1. /\ ready_list' = WokenReady(KeyEvent) /\ wait_list' = WokenWait(KeyEvent)
      /\ UNCHANGED <<kstack, current_process, ticks>>
  BY DEF KeyInterrupt
<1>2. ASSUME NEW p \in Proc  PROVE InTime(p)'
  <2>1. InTime(p)
    BY DEF Rounds
  <2>2. CASE kstack[p].at = "sys_sleep"
    <3>1. /\ Ahead(ready_list', p, Slack(p))
          /\ p \in Range(ready_list) => p \in Range(ready_list')
          /\ wait_list'[TickEvent] = wait_list[TickEvent]
      BY <1>1, <2>2, WokenBehind
    <3> QED BY <1>1, <2>1, <3>1 DEF InTime, Ahead, Slack, Elapsed
  <2>3. CASE kstack[p].at # "sys_sleep"
    BY <1>1, <2>3 DEF InTime
  <2> QED BY <2>2, <2>3
<1> QED BY <1>2 DEF Rounds

\* exit(): the waiters queue behind, and the CPU goes to the head of the list.
LEMMA ExitInTime ==
  ASSUME ConstantsAssumption, IInv, Rounds, Exit
  PROVE  Rounds'
<1>1. /\ kstack[current_process].at = "user" /\ current_process # Idle
      /\ wait_list' = WokenWait(ExitEvent) /\ UNCHANGED <<kstack, ticks>>
  BY DEF Exit, InSyscall, UserMode
<1>2. PICK st : Schedule(st, WokenReady(ExitEvent))
  BY DEF Exit
<1>3. ASSUME NEW p \in Proc  PROVE InTime(p)'
  <2>1. CASE kstack[p].at # "sys_sleep"
    BY <1>1, <2>1 DEF InTime
  <2>2. CASE kstack[p].at = "sys_sleep"
    <3>1. /\ Ahead(WokenReady(ExitEvent), p, Slack(p))
          /\ p \in Range(ready_list) => p \in Range(WokenReady(ExitEvent))
          /\ WokenReady(ExitEvent) \in Seq(Proc)
          /\ wait_list'[TickEvent] = wait_list[TickEvent]
      BY <1>1, <2>2, WokenBehind
    <3>2. InTime(p) /\ p # current_process /\ kstack'[p] = kstack[p] /\ ticks' = ticks
      BY <1>1, <2>2 DEF Rounds
    <3> QED BY <1>2, <3>1, <3>2, OthersMoveUp
  <2> QED BY <2>1, <2>2
<1> QED BY <1>3 DEF Rounds

\* fork(): the child, which sleeps in no call, queues behind.
LEMMA ForkInTime ==
  ASSUME ConstantsAssumption, IInv, Rounds, SysFork
  PROVE  Rounds'
<1>1. CASE FreeSlots = {}
  <2>1. UNCHANGED <<kstack, current_process, ready_list, wait_list, ticks>>
    BY <1>1 DEF SysFork
  <2> QED BY <2>1 DEF Rounds, InTime, Ahead, Slack, Elapsed
<1>2. CASE FreeSlots # {}
  <2>1. FirstFree \in Proc /\ kstack[FirstFree].at = "user"
    BY <1>2, FirstFreeIsFree DEF IInv, SlotsOK
  <2>2. /\ ready_list' = Append(ready_list, FirstFree)
        /\ UNCHANGED <<kstack, current_process, wait_list, ticks>>
    BY <1>2 DEF SysFork
  <2>3. ready_list \in Seq(Proc)
    BY RunnerUnqueued
  <2>4. ASSUME NEW p \in Proc  PROVE InTime(p)'
    <3>1. CASE kstack[p].at # "sys_sleep"
      BY <2>2, <3>1 DEF InTime
    <3>2. CASE kstack[p].at = "sys_sleep"
      <4>1. InTime(p) /\ p # FirstFree
        BY <2>1, <3>2 DEF Rounds
      <4>2. Ahead(ready_list', p, Slack(p))
        BY <2>1, <2>2, <2>3, <3>2, <4>1, BehindOne DEF InTime
      <4>3. Range(ready_list') = Range(ready_list) \cup {FirstFree}
        BY <2>1, <2>2, <2>3, AppendQueue
      <4> QED BY <2>2, <4>1, <4>2, <4>3 DEF InTime, Ahead, Slack, Elapsed
    <3> QED BY <3>1, <3>2
  <2> QED BY <2>4 DEF Rounds
<1> QED BY <1>1, <1>2

\* One turn of the loop of sys_sleep.
LEMMA SleepLoopInTime ==
  ASSUME ConstantsAssumption, IInv, Rounds, current_process # Idle,
         NEW n \in Int, NEW old \in 0 .. TICK_MOD - 1, SleepLoop(n, old)
  PROVE  Rounds'
<1>1. CASE /\ (ticks - old) % TICK_MOD < n
           /\ Park("sys_sleep", n, old) /\ Sleep(TickEvent) /\ ticks' = ticks
  BY <1>1, BlocksInTime DEF Event
<1>2. CASE ReturnToUser /\ UNCHANGED <<current_process, ready_list, wait_list, ticks>>
  BY <1>2, ReturnsInTime
<1> QED BY <1>1, <1>2 DEF SleepLoop

\* One turn of the loop of wait(k).
LEMMA WaitLoopInTime ==
  ASSUME ConstantsAssumption, IInv, Rounds, current_process # Idle,
         NEW k \in Int, WaitLoop(k)
  PROVE  Rounds'
<1>1. CASE \E z \in kill_list : Reap(z)
  BY <1>1, ReturnsInTime DEF Reap
<1>2. CASE Park("wait", k, 0) /\ Sleep(ExitEvent) /\ ticks' = ticks
  BY <1>2, BlocksInTime DEF Event, ExitEvent, TickEvent
<1> QED BY <1>1, <1>2 DEF WaitLoop

\* read_key_buffer() on an empty buffer.
LEMMA BlockOnKeyInTime ==
  ASSUME ConstantsAssumption, IInv, Rounds, current_process # Idle, BlockOnKey(0)
  PROVE  Rounds'
<1>1. Park("read_key", 0, 0) /\ Sleep(KeyEvent) /\ ticks' = ticks
  BY DEF BlockOnKey
<1> QED BY <1>1, BlocksInTime DEF Event, KeyEvent, TickEvent

\* init_process() leaves nobody in a call.
LEMMA InitRounds ==
  ASSUME ConstantsAssumption, Init
  PROVE  Rounds
<1>1. \A p \in Slot : kstack[p].at = "user"
  BY DEF Init, UserFrame
<1> QED BY <1>1 DEF Rounds, InTime, Proc

\* Every step keeps the sleepers in time.
LEMMA NextRounds ==
  ASSUME ConstantsAssumption, IInv, Rounds, [Next]_vars
  PROVE  Rounds'
<1>0. current_process \in Slot /\ kstack[Idle].at = "user"
  BY CurrentRuns DEF IInv, SlotsOK
<1>1. CASE TimerInterrupt
  BY <1>1, TickInTime
<1>2. CASE KeyInterrupt
  BY <1>2, KeyInTime
<1>3. CASE SysSleep
  <2>1. PICK n \in SLEEP_TICKS : SleepLoop(n, ticks)
    BY <1>3 DEF SysSleep
  <2>2. n \in Int /\ ticks \in 0 .. TICK_MOD - 1 /\ current_process # Idle
    BY <1>3 DEF SysSleep, InSyscall, ConstantsAssumption, IInv, TypeOK
  <2> QED BY <2>1, <2>2, SleepLoopInTime
<1>4. CASE SysKeyboardRead
  BY <1>4, BlockOnKeyInTime DEF SysKeyboardRead, InSyscall
<1>5. CASE SysWait
  <2>1. PICK k \in WAIT_PIDS : WaitLoop(k)
    BY <1>5 DEF SysWait
  <2>2. k \in Int /\ current_process # Idle
    BY <1>5 DEF SysWait, InSyscall, ConstantsAssumption
  <2> QED BY <2>1, <2>2, WaitLoopInTime
<1>6. CASE SysFork
  BY <1>6, ForkInTime
<1>7. CASE Exit
  BY <1>7, ExitInTime
<1>8. CASE ResumeSleep
  <2>1. /\ kstack[current_process].at = "sys_sleep"
        /\ SleepLoop(kstack[current_process].arg, kstack[current_process].old)
    BY <1>8 DEF ResumeSleep, Resumed
  <2>2. /\ current_process # Idle
        /\ kstack[current_process].arg \in Int
        /\ kstack[current_process].old \in 0 .. TICK_MOD - 1
    BY <1>0, <2>1 DEF IInv, TypeOK, Frame
  <2> QED BY <2>1, <2>2, SleepLoopInTime
<1>9. CASE ResumeKey
  BY <1>9, ReturnsInTime DEF ResumeKey
<1>10. CASE ResumeWait
  <2>1. kstack[current_process].at = "wait" /\ WaitLoop(kstack[current_process].arg)
    BY <1>10 DEF ResumeWait, Resumed
  <2>2. current_process # Idle /\ kstack[current_process].arg \in Int
    BY <1>0, <2>1 DEF IInv, TypeOK, Frame
  <2> QED BY <2>1, <2>2, WaitLoopInTime
<1>11. CASE Stopped \/ UNCHANGED vars
  <2>1. UNCHANGED vars
    BY <1>11 DEF Stopped
  <2> QED BY <2>1 DEF vars, Rounds, InTime, Ahead, Slack, Elapsed
<1> QED BY <1>1, <1>2, <1>3, <1>4, <1>5, <1>6, <1>7, <1>8, <1>9, <1>10, <1>11 DEF Next

\* Whoever is in time overruns by less than a round.
LEMMA RoundsBound ==
  ASSUME ConstantsAssumption, IInv, Rounds
  PROVE  SleepOverrun
<1> SUFFICES ASSUME NEW p \in Slot, kstack[p].at = "sys_sleep"
             PROVE  Elapsed(p) <= kstack[p].arg + NUM_PROC - 2
  BY DEF SleepOverrun, Elapsed
<1>1. p \in Proc
  BY DEF IInv, SlotsOK, Proc
<1>2. /\ kstack[p].arg \in Int /\ Elapsed(p) \in Int /\ NUM_PROC \in Int /\ NUM_PROC >= 2
      /\ Slack(p) = (kstack[p].arg + (NUM_PROC - 2)) - Elapsed(p) /\ Slack(p) \in Int
  BY <1>1, SleeperTypes DEF ConstantsAssumption, Slack
<1>3. InTime(p)
  BY <1>1 DEF Rounds
<1>4. CASE p \in Range(wait_list[TickEvent])
  BY <1>2, <1>3, <1>4 DEF InTime
<1>5. CASE p \in Range(ready_list)
  <2>1. PICK i \in 1 .. Len(ready_list) : ready_list[i] = p
    BY <1>5, RunnerUnqueued, LenProperties DEF Range
  <2>2. i <= Slack(p) /\ i \in Int /\ i >= 1
    BY <1>3, <2>1, RunnerUnqueued, LenProperties DEF InTime, Ahead
  <2> QED BY <1>2, <2>2
<1>6. CASE Slack(p) >= 0
  BY <1>2, <1>6
<1> QED BY <1>3, <1>4, <1>5, <1>6 DEF InTime

\* sys_sleep(n) (syscall.c) returns before n + NUM_PROC - 1 ticks have passed,
\* or the process is still in a list that gets it there: the overrun is less
\* than a round of the ready list, for every table size and every n.
THEOREM SleepsNotLonger == Spec => []SleepOverrun
<1> USE ConstantsAssumption
<1>1. Init => Rounds
  BY InitRounds
<1>2. IInv /\ Rounds /\ [Next]_vars => Rounds'
  BY NextRounds
<1>3. IInv /\ Rounds => SleepOverrun
  BY RoundsBound
<1>4. Spec => []IInv
  BY Invariance
<1> QED BY <1>1, <1>2, <1>3, <1>4, PTL DEF Spec
=============================================================================
