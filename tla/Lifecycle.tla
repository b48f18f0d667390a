----------------------------- MODULE Lifecycle -----------------------------
(***************************************************************************)
(* What fork, exit and wait promise, without a scheduler, lists or slots:  *)
(* processes are pids, never used twice; a process that dies stays a       *)
(* corpse until exactly one wait(k) for its pid consumes it; wait(k)       *)
(* returns in no other way; and fork fails (and with it the machine) only  *)
(* when CAPACITY processes and corpses exist.  Module Process refines it.  *)
(***************************************************************************)
EXTENDS Integers, FiniteSets

CONSTANTS
  CAPACITY,   \* processes and corpses there is room for
  MAX_PID,    \* bound: the largest pid
  TARGETS     \* the arguments of wait

Pid == 1 .. MAX_PID

VARIABLES
  alive,     \* pids of live processes
  corpse,    \* pids of dead processes nobody has waited for yet
  waiting,   \* pairs <<p, k>>: p is blocked in wait(k)
  next_pid,  \* the pid the next fork hands out
  halted     \* the machine has stopped

vars == <<alive, corpse, waiting, next_pid, halted>>

Init ==
  /\ alive = {1}
  /\ corpse = {}
  /\ waiting = {}
  /\ next_pid = 2
  /\ halted = FALSE

\* A process that can take a step of its own.
Active(p) == ~halted /\ p \in alive /\ \A k \in TARGETS : <<p, k>> \notin waiting

Full == Cardinality(alive \cup corpse) = CAPACITY

Fork(p) ==
  /\ Active(p)
  /\ ~Full
  /\ next_pid \in Pid
  /\ alive' = alive \cup {next_pid}
  /\ next_pid' = next_pid + 1
  /\ UNCHANGED <<corpse, waiting, halted>>

ForkFails(p) ==
  /\ Active(p)
  /\ Full
  /\ halted' = TRUE
  /\ UNCHANGED <<alive, corpse, waiting, next_pid>>

Die(p) ==
  /\ Active(p)
  /\ alive' = alive \ {p}
  /\ corpse' = corpse \cup {p}
  /\ UNCHANGED <<waiting, next_pid, halted>>

\* wait(k) with no corpse k: block.
Block(p, k) ==
  /\ Active(p)
  /\ k \notin corpse
  /\ waiting' = waiting \cup {<<p, k>>}
  /\ UNCHANGED <<alive, corpse, next_pid, halted>>

\* wait(k) takes the corpse k and returns.
Collect(p, k) ==
  /\ ~halted
  /\ Active(p) \/ <<p, k>> \in waiting
  /\ k \in corpse
  /\ corpse' = corpse \ {k}
  /\ waiting' = waiting \ {<<p, k>>}
  /\ UNCHANGED <<alive, next_pid, halted>>

Next ==
  \/ \E p \in Pid : Fork(p) \/ ForkFails(p) \/ Die(p)
  \/ \E p \in Pid, k \in TARGETS : Block(p, k) \/ Collect(p, k)

Spec == Init /\ [][Next]_vars

\* A corpse somebody is blocked for is collected, by one of those blocked.
Fairness ==
  \A k \in TARGETS :
    WF_vars(\E p \in Pid : <<p, k>> \in waiting /\ Collect(p, k))

FairSpec == Spec /\ Fairness
=============================================================================
