------------------------------ MODULE KeyFifo ------------------------------
(***************************************************************************)
(* What a program sees of the keyboard: the keys typed, in order, each     *)
(* read once; a key typed while CAPACITY are unread is dropped.            *)
(***************************************************************************)
EXTENDS Integers, Sequences

CONSTANTS Char, CAPACITY, Reader, NoDelivery

VARIABLES
  unread,    \* the keys typed and not yet read, oldest first
  delivered  \* the last read: its reader and its key

vars == <<unread, delivered>>

Init == unread = <<>> /\ delivered = NoDelivery

Type(ch) ==
  /\ unread' = IF Len(unread) = CAPACITY THEN unread ELSE Append(unread, ch)
  /\ UNCHANGED delivered

Read(p) ==
  /\ unread # <<>>
  /\ delivered' = <<p, Head(unread)>>
  /\ unread' = Tail(unread)

Next ==
  \/ \E ch \in Char : Type(ch)
  \/ \E p \in Reader : Read(p)

Spec == Init /\ [][Next]_vars
=============================================================================
