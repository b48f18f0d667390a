------------------------------- MODULE Queues -------------------------------
(***************************************************************************)
(* What the kernel needs of its three lists: a FIFO of ready processes, a  *)
(* FIFO of sleepers per event, and a set of dead processes.  Module Process *)
(* is written in these terms; module Lists, the linked lists of lib.c,     *)
(* implements them.                                                        *)
(***************************************************************************)
EXTENDS SequencesExt

CONSTANTS Node,   \* the processes
          Event,  \* what a process sleeps on
          NULL

VARIABLES
  ready,    \* ready processes, oldest first
  waiting,  \* per event, the sleepers, oldest first
  dead,     \* dead processes
  item      \* what the last removal returned

vars == <<ready, waiting, dead, item>>

Init ==
  /\ ready = <<>>
  /\ waiting = [e \in Event |-> <<>>]
  /\ dead = {}
  /\ item = NULL

\* On no list: running, unused, or in the hands of the caller of a removal.
Free(p) ==
  /\ p \notin Range(ready) \cup dead
  /\ \A e \in Event : p \notin Range(waiting[e])

MakeReady(p) ==
  /\ Free(p)
  /\ ready' = Append(ready, p)
  /\ UNCHANGED <<waiting, dead, item>>

Sleep(p, e) ==
  /\ Free(p)
  /\ waiting' = [waiting EXCEPT ![e] = Append(@, p)]
  /\ UNCHANGED <<ready, dead, item>>

Die(p) ==
  /\ Free(p)
  /\ dead' = dead \cup {p}
  /\ UNCHANGED <<ready, waiting, item>>

Take ==
  /\ item' = IF ready = <<>> THEN NULL ELSE Head(ready)
  /\ ready' = IF ready = <<>> THEN ready ELSE Tail(ready)
  /\ UNCHANGED <<waiting, dead>>

Wake(e) ==
  /\ item' = IF waiting[e] = <<>> THEN NULL ELSE Head(waiting[e])
  /\ waiting' = IF waiting[e] = <<>> THEN waiting ELSE [waiting EXCEPT ![e] = Tail(@)]
  /\ UNCHANGED <<ready, dead>>

Collect(p) ==
  /\ item' = IF p \in dead THEN p ELSE NULL
  /\ dead' = dead \ {p}
  /\ UNCHANGED <<ready, waiting>>

Next ==
  \/ \E p \in Node : MakeReady(p) \/ Die(p) \/ Collect(p)
  \/ \E p \in Node, e \in Event : Sleep(p, e)
  \/ Take
  \/ \E e \in Event : Wake(e)

Spec == Init /\ [][Next]_vars
=============================================================================
