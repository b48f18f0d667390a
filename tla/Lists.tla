------------------------------- MODULE Lists -------------------------------
(***************************************************************************)
(* The singly linked lists of lib.c, pointer by pointer, used the way      *)
(* process.c uses them: a process is on at most one list, because it has   *)
(* one next pointer.  A HeadList starts with its next field, so a list     *)
(* head can stand where a node is expected (remove_list's prev starts as   *)
(* the list itself): next is one function over nodes and list heads.       *)
(*                                                                         *)
(* The wait field is the event of a sleeper and the pid of a dead process; *)
(* pids are unique, so a node stands for its own pid.                      *)
(***************************************************************************)
EXTENDS Integers, FiniteSets, SequencesExt

CONSTANTS Node,   \* the processes
          Event,  \* the events they sleep on
          NULL

HeadList == {"ready_list", "wait_list", "kill_list"}

ASSUME ListsAssumption ==
  /\ IsFiniteSet(Node)
  /\ Node \cap Event = {} /\ NULL \notin Node \cup Event
  /\ HeadList \cap (Node \cup {NULL}) = {}

VARIABLES
  next,  \* the next field of every node and of every list head
  tail,  \* the tail field of every list head
  wait,  \* the wait field of every node
  item   \* what the last removal returned

vars == <<next, tail, wait, item>>

Init ==
  /\ next = [x \in Node \cup HeadList |-> NULL]
  /\ tail = [l \in HeadList |-> NULL]
  /\ wait = [p \in Node |-> NULL]
  /\ item = NULL

\* What is reached from list l after each number of pointers, up to one more
\* than there are nodes.
Walk(l) ==
  LET walk[i \in 0 .. Cardinality(Node) + 1] ==
        IF i = 0 THEN l
        ELSE IF walk[i - 1] = NULL THEN NULL ELSE next[walk[i - 1]]
  IN  walk

\* The nodes reached, in order.
Chain(l) ==
  LET n == Cardinality({i \in DOMAIN Walk(l) : Walk(l)[i] # NULL}) - 1
  IN  [i \in 1 .. n |-> Walk(l)[i]]

is_list_empty(l) == next[l] = NULL

\* Slip: append_list_tail() does not end the chain at the new item.
AppendDangling(l, p) ==
  /\ next' = [next EXCEPT ![IF is_list_empty(l) THEN l ELSE tail[l]] = p]
  /\ tail' = [tail EXCEPT ![l] = p]

append_list_tail(l, p) ==
  /\ next' = [next EXCEPT ![p] = NULL,
                          ![IF is_list_empty(l) THEN l ELSE tail[l]] = p]
  /\ tail' = [tail EXCEPT ![l] = p]

remove_list_head(l) ==
  \/ /\ is_list_empty(l)
     /\ item' = NULL
     /\ UNCHANGED <<next, tail, wait>>
  \/ /\ ~is_list_empty(l)
     /\ item' = next[l]
     /\ next' = [next EXCEPT ![l] = next[next[l]]]
     /\ tail' = IF next[next[l]] = NULL THEN [tail EXCEPT ![l] = NULL] ELSE tail
     /\ UNCHANGED wait

\* Where remove_list() stops: the first node with the wait field w.
Matches(l, w) == {i \in DOMAIN Chain(l) : wait[Chain(l)[i]] = w}
FirstMatch(l, w) == CHOOSE i \in Matches(l, w) : \A j \in Matches(l, w) : i <= j

\* Slip: remove_list() unlinks the last node but leaves the tail behind.
UnlinkKeepsTail(l, prev, current) ==
  /\ next' = [next EXCEPT ![prev] = next[current]]
  /\ tail' = IF prev = l /\ next[current] = NULL THEN [tail EXCEPT ![l] = NULL] ELSE tail

\* Unlinking current, which follows prev (the list itself, for the first node).
Unlink(l, prev, current) ==
  /\ next' = [next EXCEPT ![prev] = next[current]]
  /\ tail' = IF prev = l /\ next[current] = NULL
               THEN [tail EXCEPT ![l] = NULL]
             ELSE IF next[current] = NULL
               THEN [tail EXCEPT ![l] = prev]
             ELSE tail

remove_list(l, w) ==
  \/ /\ Matches(l, w) = {}
     /\ item' = NULL
     /\ UNCHANGED <<next, tail, wait>>
  \/ /\ Matches(l, w) # {}
     /\ LET i == FirstMatch(l, w)
            current == Chain(l)[i]
            prev == IF i = 1 THEN l ELSE Chain(l)[i - 1]
        IN  item' = current /\ Unlink(l, prev, current)
     /\ UNCHANGED wait

(***************************************************************************)
(* The callers.                                                            *)
(***************************************************************************)
OnList == UNION {Range(Chain(l)) : l \in HeadList}

\* yield(), wake_up(), fork(): queue a process that has become ready.
MakeReady(p) ==
  /\ p \notin OnList
  /\ append_list_tail("ready_list", p)
  /\ UNCHANGED <<wait, item>>

\* sleep(e)
Sleep(p, e) ==
  /\ p \notin OnList
  /\ wait' = [wait EXCEPT ![p] = e]
  /\ append_list_tail("wait_list", p)
  /\ UNCHANGED item

\* exit()
Exit(p) ==
  /\ p \notin OnList
  /\ wait' = [wait EXCEPT ![p] = p]
  /\ append_list_tail("kill_list", p)
  /\ UNCHANGED item

Next ==
  \/ \E p \in Node : MakeReady(p)
  \/ \E p \in Node : Exit(p)
  \/ \E p \in Node, e \in Event : Sleep(p, e)
  \/ remove_list_head("ready_list")
  \/ \E e \in Event : remove_list("wait_list", e)
  \/ \E p \in Node : remove_list("kill_list", p)

Spec == Init /\ [][Next]_vars

(***************************************************************************)
(* Properties.                                                             *)
(***************************************************************************)

\* The tail of a list is the last node of its chain (NULL for an empty list),
\* chains end, and no node is linked into two lists or twice into one.
WellFormed ==
  /\ \A l \in HeadList :
       /\ tail[l] = IF Chain(l) = <<>> THEN NULL ELSE Last(Chain(l))
       /\ Len(Chain(l)) <= Cardinality(Node)
       /\ IsInjective(Chain(l))
  /\ \A l, m \in HeadList : l # m => Range(Chain(l)) \cap Range(Chain(m)) = {}

\* Under the wait fields w, those of the first i elements of s that sleep on
\* event e, for every i; and all of them.
Selected(s, w, e) ==
  LET selected[i \in 0 .. Len(s)] ==
        IF i = 0 THEN <<>>
        ELSE IF w[s[i]] = e THEN Append(selected[i - 1], s[i]) ELSE selected[i - 1]
  IN  selected
Sleepers(s, w, e) == Selected(s, w, e)[Len(s)]

\* The pointer code implements the queues module Process is written with: one
\* FIFO of ready processes, one FIFO per event on the single wait list (a
\* removal by event skips the others and keeps their order), a set of dead
\* processes found by pid.
Abstract == INSTANCE Queues WITH
  ready   <- Chain("ready_list"),
  waiting <- [e \in Event |-> Sleepers(Chain("wait_list"), wait, e)],
  dead    <- Range(Chain("kill_list"))

ImplementsQueues == Abstract!Spec
=============================================================================
