---------------------------- MODULE Interrupts ----------------------------
(***************************************************************************)
(* How an interrupt gets from a device into the kernel: the PIT and the    *)
(* keyboard controller, the master 8259 PIC, and the CPU between user mode *)
(* and the handlers of trap.c.  The devices are those of the emulator the  *)
(* repository builds and boots (config/bochs/iodev).                       *)
(*                                                                         *)
(* The PIC is edge triggered: a line that is already high when the PIC is  *)
(* initialised, or stays high, requests nothing more.  The kernel runs     *)
(* with interrupts off, so the devices go on between any two of its steps  *)
(* and are heard when it is back in user mode (or at the hlt of the idle   *)
(* loop).  Only lines 0 and 1 are unmasked, so the others, the slave PIC   *)
(* and the mask register are left out; so are the mouse and the paste      *)
(* buffer of the keyboard controller, which are off.                       *)
(***************************************************************************)
EXTENDS Integers, Sequences

CONSTANTS
  BX_KBD_ELEMENTS,  \* size of the keyboard's internal buffer (16)
  MAX_BYTES,        \* bound: scan code bytes the keyboard accepts
  BOOT_KEYS         \* whether a key may move between the loader's cli and InitPIC

ASSUME InterruptsAssumption ==
  /\ BX_KBD_ELEMENTS \in Nat \ {0}
  /\ MAX_BYTES \in Nat
  /\ BOOT_KEYS \in BOOLEAN

Timer == 0
Key == 1
Line == {Timer, Key}

VARIABLES
  cpu,             \* what the CPU is doing
  IRQ_in, irr,     \* PIC: lines that are high; edges not acknowledged
  isr,             \* PIC: interrupts in service
  INT, irq,        \* PIC: the CPU is being interrupted, by this line
  kbd_buffer,      \* keyboard: bytes in the internal buffer, oldest first
  output,          \* keyboard: the byte last put into the output buffer
  outb,            \* keyboard: that byte has not been read
  irq1_requested, timer_pending,
  accepted,        \* history: bytes taken by kbd_enQ; the n-th byte is n
  handled          \* history: what keyboard_handler() has read

pic == <<IRQ_in, irr, isr, INT, irq>>
kbd == <<kbd_buffer, output, outb, irq1_requested, timer_pending, accepted>>
vars == <<cpu, pic, kbd, handled>>

\* Boot: after the loader's cli; after ICW1.  Then the kernel: a handler up to
\* its eoi, a system call or the rest of a handler, and user mode.
BootPc == {"loaded", "initialised"}
Pc == BootPc \cup {"user", "kernel", "timer", "key", "key_eoi", "spurious"}

Init ==
  /\ cpu = "loaded"
  /\ IRQ_in = {Timer} /\ irr = {} /\ isr = {} /\ INT = FALSE /\ irq = Timer
  /\ kbd_buffer = <<>> /\ output = 0 /\ outb = FALSE
  /\ irq1_requested = FALSE /\ timer_pending = FALSE
  /\ accepted = 0
  /\ handled = <<>>

(***************************************************************************)
(* The PIC, from the requests r and the in-service set s a caller leaves:  *)
(* service_master_pic() interrupts the CPU with the first requested line   *)
(* before the first one in service, unless it is interrupting already.     *)
(***************************************************************************)
Eligible(r, s) == {i \in r : \A j \in s : i < j}
service_master_pic(int, r, s) ==
  /\ irr' = r
  /\ isr' = s
  /\ INT' = (int \/ Eligible(r, s) # {})
  /\ irq' = IF int \/ Eligible(r, s) = {} THEN irq
            ELSE CHOOSE i \in Eligible(r, s) : \A j \in Eligible(r, s) : i <= j

raise_irq(i) ==
  \/ /\ i \notin IRQ_in
     /\ IRQ_in' = IRQ_in \cup {i}
     /\ service_master_pic(INT, irr \cup {i}, isr)
  \/ i \in IRQ_in /\ UNCHANGED pic

\* A line that falls takes its request back; INT stays.
lower_irq(i) ==
  /\ IRQ_in' = IRQ_in \ {i}
  /\ irr' = IF i \in IRQ_in THEN irr \ {i} ELSE irr
  /\ UNCHANGED <<isr, INT, irq>>

\* eoi(): OCW2 0x20, the first line in service is done.
eoi ==
  /\ service_master_pic(INT, irr, {i \in isr : \E j \in isr : j < i})
  /\ UNCHANGED IRQ_in

(***************************************************************************)
(* The PIT in mode 2: OUT falls for one clock and rises, which is the      *)
(* interrupt, every 11931 clocks.  Two assumptions on time: OUT does not   *)
(* fall between a request the CPU is ready for and its acknowledgement,    *)
(* which comes before the next instruction (a fall in between counts as    *)
(* one just before); and it does not fall in the handler of vector 39,     *)
(* which began when OUT was low and takes less than a period.              *)
(***************************************************************************)
PitFalls ==
  /\ Timer \in IRQ_in
  /\ ~(cpu = "user" /\ INT) /\ cpu # "spurious"
  /\ lower_irq(Timer)
  /\ UNCHANGED <<cpu, kbd, handled>>

PitRises ==
  /\ Timer \notin IRQ_in
  /\ raise_irq(Timer)
  /\ UNCHANGED <<cpu, kbd, handled>>

(***************************************************************************)
(* The keyboard.  kbd_enQ() takes a byte of a scan code if there is room.  *)
(* timer_handler() puts a byte into the output buffer in one period and    *)
(* raises the line in the next.                                            *)
(***************************************************************************)
kbd_enQ ==
  /\ accepted < MAX_BYTES
  /\ BOOT_KEYS \/ cpu \notin BootPc
  /\ Len(kbd_buffer) < BX_KBD_ELEMENTS
  /\ accepted' = accepted + 1
  /\ kbd_buffer' = Append(kbd_buffer, accepted + 1)
  /\ timer_pending' = (timer_pending \/ ~outb)
  /\ UNCHANGED <<cpu, pic, output, outb, irq1_requested, handled>>

\* periodic(): a byte moves if the output buffer is free.
ByteMoves == timer_pending /\ ~outb /\ kbd_buffer # <<>>
timer_handler ==
  /\ irq1_requested \/ timer_pending
  /\ timer_pending' = FALSE
  /\ irq1_requested' = ByteMoves
  /\ \/ /\ ByteMoves
        /\ output' = Head(kbd_buffer)
        /\ kbd_buffer' = Tail(kbd_buffer)
        /\ outb' = TRUE
     \/ /\ ~ByteMoves
        /\ UNCHANGED <<output, kbd_buffer, outb>>
  /\ IF irq1_requested THEN raise_irq(Key) ELSE UNCHANGED pic
  /\ UNCHANGED <<cpu, accepted, handled>>

\* in_byte(0x60): the byte in the output buffer, read before or not.
ReadPort ==
  /\ handled' = Append(handled, output)
  /\ \/ /\ outb
        /\ outb' = FALSE
        /\ irq1_requested' = FALSE
        /\ timer_pending' = TRUE
        /\ lower_irq(Key)
     \/ /\ ~outb
        /\ UNCHANGED <<outb, irq1_requested, timer_pending, pic>>
  /\ UNCHANGED <<kbd_buffer, output, accepted>>

(***************************************************************************)
(* The CPU.                                                                *)
(***************************************************************************)
\* ICW1: the PIC forgets every request, but not what the lines are.
InitPIC ==
  /\ cpu = "loaded"
  /\ cpu' = "initialised"
  /\ irr' = {} /\ isr' = {} /\ INT' = FALSE
  /\ UNCHANGED <<IRQ_in, irq, kbd, handled>>

\* ICW2 to ICW4, the mask, KMain, and the first return to a program.
KernelStarts ==
  /\ cpu = "initialised"
  /\ cpu' = "user"
  /\ service_master_pic(INT, irr, isr)
  /\ UNCHANGED <<IRQ_in, kbd, handled>>

\* IAC(): the CPU acknowledges before the next instruction of a program.  A
\* request that was taken back is answered with vector 39.
Acknowledge ==
  /\ cpu = "user"
  /\ INT
  /\ \/ /\ irr = {}
        /\ cpu' = "spurious"
        /\ INT' = FALSE
        /\ UNCHANGED <<irr, isr, irq>>
     \/ /\ irr # {}
        /\ cpu' = IF irq = Timer THEN "timer" ELSE "key"
        /\ service_master_pic(FALSE, irr \ {irq}, isr \cup {irq})
  /\ UNCHANGED <<IRQ_in, kbd, handled>>

\* Slip: eoi() only after yield(), which need not come back to this process.
TimerLateEoi ==
  /\ cpu = "timer"
  /\ cpu' = "kernel"
  /\ eoi \/ UNCHANGED pic
  /\ UNCHANGED <<kbd, handled>>

\* Vector 32: timer_handler() and eoi(); then yield(), which goes on in the
\* kernel on whichever stack it picks.
TimerVector ==
  /\ cpu = "timer"
  /\ cpu' = "kernel"
  /\ eoi
  /\ UNCHANGED <<kbd, handled>>

\* Slips: a handler that does not read the byte it has no use for; one that
\* reads the second byte of a scan code at once.
KeyUnread ==
  /\ cpu = "key"
  /\ cpu' = "key_eoi"
  /\ \/ ReadPort
     \/ UNCHANGED <<pic, kbd, handled>>
KeyReadTwice ==
  /\ cpu = "key"
  /\ cpu' = "key_eoi"
  /\ ReadPort \/ (outb' = FALSE /\ handled' = handled \o <<output, output>>
       /\ irq1_requested' = FALSE /\ timer_pending' = TRUE /\ lower_irq(Key)
       /\ UNCHANGED <<kbd_buffer, output, accepted>>)

\* Vector 33: keyboard_handler(), then eoi().
KeyVector ==
  /\ cpu = "key"
  /\ cpu' = "key_eoi"
  /\ ReadPort

\* Slip: the keyboard's interrupt is never ended.
KeyNoEoi ==
  /\ cpu = "key_eoi"
  /\ cpu' = "kernel"
  /\ UNCHANGED <<pic, kbd, handled>>

KeyEoi ==
  /\ cpu = "key_eoi"
  /\ cpu' = "kernel"
  /\ eoi
  /\ UNCHANGED <<kbd, handled>>

\* Vector 39: an eoi() only if line 7 is in service, which it never is.
SpuriousVector ==
  /\ cpu = "spurious"
  /\ cpu' = "kernel"
  /\ IF 7 \in isr THEN eoi ELSE UNCHANGED pic
  /\ UNCHANGED <<kbd, handled>>

\* A system call or a fault, and the way back; the kernel may take long.
TrapVector ==
  /\ cpu = "user"
  /\ ~INT
  /\ cpu' = "kernel"
  /\ UNCHANGED <<pic, kbd, handled>>

TrapReturn ==
  /\ cpu = "kernel"
  /\ cpu' = "user"
  /\ UNCHANGED <<pic, kbd, handled>>

Cpu == InitPIC \/ KernelStarts \/ Acknowledge \/ TimerVector \/ KeyVector
         \/ KeyEoi \/ SpuriousVector \/ TrapReturn

Next ==
  \/ PitFalls
  \/ PitRises
  \/ kbd_enQ
  \/ timer_handler
  \/ InitPIC
  \/ KernelStarts
  \/ Acknowledge
  \/ TimerVector
  \/ KeyVector
  \/ KeyEoi
  \/ SpuriousVector
  \/ TrapVector
  \/ TrapReturn

Spec == Init /\ [][Next]_vars

(***************************************************************************)
(* The clocks of the PIT and of the keyboard do not stop, and neither does *)
(* the CPU.  OUT is low in one of 11931 clocks, so the kernel does not     *)
(* return to programs just then every time (a long call can lose ticks);   *)
(* and timer_handler() takes a small part of a period, so its eoi() does   *)
(* not find the next tick already requested every time.                    *)
(***************************************************************************)
Fairness ==
  /\ WF_vars(PitFalls) /\ WF_vars(PitRises)
  /\ WF_vars(timer_handler)
  /\ WF_vars(Cpu)
  /\ SF_vars(TrapReturn /\ Timer \in irr)
  /\ SF_vars(TimerVector /\ Timer \notin irr)
FairSpec == Spec /\ Fairness

(***************************************************************************)
(* Properties.                                                             *)
(***************************************************************************)
TypeOK ==
  /\ cpu \in Pc
  /\ IRQ_in \subseteq Line /\ irr \subseteq IRQ_in /\ isr \subseteq Line
  /\ INT \in BOOLEAN /\ irq \in Line
  /\ kbd_buffer \in Seq(1 .. MAX_BYTES) /\ Len(kbd_buffer) <= BX_KBD_ELEMENTS
  /\ output \in 0 .. MAX_BYTES
  /\ outb \in BOOLEAN /\ irq1_requested \in BOOLEAN /\ timer_pending \in BOOLEAN
  /\ accepted \in 0 .. MAX_BYTES
  /\ handled \in Seq(0 .. MAX_BYTES)

\* Nothing is in service while a program runs: whatever process a handler goes
\* on to through yield(), its interrupt has been ended, so the next one of any
\* priority comes through.
NothingInServiceInUserMode == cpu = "user" => isr = {}

\* A byte in the output buffer is on its way to the handler: its interrupt is
\* still to be raised, requested, or being handled.  (The PIC sees only edges
\* and the line stays high until the byte is read, so a lost one is lost for
\* good, and all keys after it.)
ByteHasItsInterrupt ==
  outb => irq1_requested \/ Key \in irr \/ cpu = "key"

\* Every byte the keyboard took is read once, in order.
BytesReadInOrder ==
  handled \o (IF outb THEN <<output>> ELSE <<>>) \o kbd_buffer
    = [n \in 1 .. accepted |-> n]

\* Every byte is handled in the end.
EveryByteHandled == \A n \in 1 .. MAX_BYTES : accepted = n ~> Len(handled) >= n

\* Ticks keep coming: what Process assumes of TimerInterrupt.
TicksKeepComing == []<>(cpu = "timer")
=============================================================================
