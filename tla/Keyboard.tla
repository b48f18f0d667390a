------------------------------ MODULE Keyboard ------------------------------
(***************************************************************************)
(* The keyboard buffer (keyboard.c) on top of the process core: the IRQ    *)
(* handler writes a ring, readers block on it.                             *)
(*                                                                         *)
(* read_key_buffer() reads front BEFORE it sleeps and does not look at the *)
(* buffer again afterwards, so the ring is a FIFO only as long as no two   *)
(* reads overlap.  The kernel does not enforce that.  The programs keep    *)
(* it: module Shell puts them on top and checks the properties below.      *)
(***************************************************************************)
EXTENDS Process

CONSTANTS
  Char,         \* the printable keys
  NoChar,       \* the zero byte the buffer starts with
  BUFFER_SIZE   \* size of the ring (500 in the code)

ASSUME KeyboardAssumption == BUFFER_SIZE \in Nat /\ BUFFER_SIZE >= 2 /\ NoChar \notin Char

Index == 0 .. BUFFER_SIZE - 1
NoDelivery == <<Idle, NoChar>>

VARIABLES
  buffer,     \* key_buffer.buffer
  front,      \* key_buffer.front
  end,        \* key_buffer.end
  delivered   \* history: the last read_key_buffer() to return, and its key

kbvars == <<buffer, front, end, delivered>>
kvars == <<vars, kbvars>>

KInit ==
  /\ Init
  /\ buffer = [i \in Index |-> NoChar]
  /\ front = 0
  /\ end = 0
  /\ delivered = NoDelivery

\* Slips: the key goes into the cell behind the one that end names; the writer
\* does not keep one cell free, so a full ring looks empty.
WriteBehindEnd(ch) ==
  \/ (end + 1) % BUFFER_SIZE = front /\ UNCHANGED kbvars
  \/ /\ (end + 1) % BUFFER_SIZE # front
     /\ buffer' = [buffer EXCEPT ![(end + 1) % BUFFER_SIZE] = ch]
     /\ end' = (end + 1) % BUFFER_SIZE
     /\ UNCHANGED <<front, delivered>>
WriteOverfull(ch) ==
  /\ buffer' = [buffer EXCEPT ![end] = ch]
  /\ end' = (end + 1) % BUFFER_SIZE
  /\ UNCHANGED <<front, delivered>>

write_key_buffer(ch) ==
  \/ /\ (end + 1) % BUFFER_SIZE = front
     /\ UNCHANGED kbvars
  \/ /\ (end + 1) % BUFFER_SIZE # front
     /\ buffer' = [buffer EXCEPT ![end] = ch]
     /\ end' = (end + 1) % BUFFER_SIZE
     /\ UNCHANGED <<front, delivered>>

\* Slip: the key is buffered, but nobody is woken.
KeyUnannounced(ch) == UserMode /\ write_key_buffer(ch) /\ UNCHANGED vars

\* keyboard_handler() with a printable key.
keyboard_handler(ch) == KeyInterrupt /\ write_key_buffer(ch)

\* The end of read_key_buffer(), with the front it read when it began.
TakeKey(saved) ==
  /\ front' = (front + 1) % BUFFER_SIZE
  /\ delivered' = <<current_process, buffer[saved]>>
  /\ UNCHANGED <<buffer, end>>

\* sys_keyboard_read()
KeyboardRead ==
  /\ InSyscall
  /\ \/ /\ front = end
        /\ BlockOnKey(front)
        /\ UNCHANGED kbvars
     \/ /\ front # end
        /\ TakeKey(front)
        /\ UNCHANGED vars

KeyboardReadEnds == ResumeKey /\ TakeKey(kstack[current_process].arg)

(***************************************************************************)
(* Properties.                                                             *)
(***************************************************************************)

\* The indices stay inside the ring, a blocked reader holds an index of it,
\* and every cell between front and end holds a key that was typed.
KTypeOK ==
  /\ front \in Index /\ end \in Index
  /\ buffer \in [Index -> Char \cup {NoChar}]
  /\ \A i \in 0 .. ((end - front) % BUFFER_SIZE) - 1 :
       buffer[(front + i) % BUFFER_SIZE] \in Char
  /\ \A p \in Slot : kstack[p].at = "read_key" => kstack[p].arg \in Index

\* A reader that still sleeps has missed nothing: the buffer is empty, and the
\* cell it will return is the one the next key goes into.
SleeperSeesEmpty ==
  \A p \in Range(wait_list[KeyEvent]) : front = end /\ kstack[p].arg = front

Fifo == INSTANCE KeyFifo WITH
  CAPACITY <- BUFFER_SIZE - 1,
  Reader   <- Slot \ {Idle},
  unread   <- [i \in 1 .. (end - front) % BUFFER_SIZE |->
                 buffer[(front + i - 1) % BUFFER_SIZE]]

\* Every key typed into a buffer that is not full is delivered once, in order,
\* to a process that asked for it.
ImplementsFifo == Fifo!Spec

\* A blocked reader returns once a key is there.
KeyDelivered ==
  \A p \in Slot :
    kstack[p].at = "read_key" /\ front # end
      ~> kstack[p].at = "user" \/ panic # "none"
=============================================================================
