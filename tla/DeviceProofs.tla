---------------------------- MODULE DeviceProofs ----------------------------
(***************************************************************************)
(* The safety of the three modules about devices, each for instances of    *)
(* every size: the interrupts and their controller (Interrupts), the       *)
(* driver of the keyboard (Scancodes) and the screen (Screen).  They share *)
(* neither state nor steps; each part stands for itself.                   *)
(***************************************************************************)
EXTENDS Interrupts, Scancodes, Screen, SequenceTheorems, TLAPS

(***************************************************************************)
(* The safety properties of Interrupts, for a keyboard buffer of any size  *)
(* and any number of scan code bytes.                                      *)
(*                                                                         *)
(* None of them is inductive alone.  That every byte is read once needs to *)
(* know that the handler of vector 33 runs only while its byte is in the   *)
(* output buffer, and so that a request of the keyboard is never taken     *)
(* back: its line is high exactly as long as there is a byte to read       *)
(* (KeyLine).  That no byte gets stuck needs, besides, that the keyboard   *)
(* is quiet until InitPIC (Pending): without that it is false.             *)
(***************************************************************************)

\* What is in service in every phase of the CPU.
InService ==
  /\ cpu = "timer" => isr = {Timer}
  /\ cpu \in {"key", "key_eoi"} => isr = {Key}
  /\ cpu \notin {"timer", "key", "key_eoi"} => isr = {}

\* The line of the keyboard is high only with a byte to read; it is about to
\* rise only for a byte; a request for it stands until it is acknowledged, and
\* its handler finds the line still high.
KeyLine ==
  /\ Key \in IRQ_in => outb
  /\ irq1_requested => outb /\ Key \notin IRQ_in
  /\ cpu = "key" => Key \in IRQ_in /\ Key \notin irr
  /\ INT /\ irq = Key => Key \in irr

IInv == TypeOK /\ InService /\ KeyLine

\* A keyboard that is quiet until InitPIC never loses an edge.
Pending ==
  /\ outb => irq1_requested \/ Key \in IRQ_in
  /\ Key \in IRQ_in => Key \in irr \/ cpu = "key"
  /\ cpu \in BootPc => kbd_buffer = <<>> /\ ~outb /\ ~irq1_requested /\ ~timer_pending

-----------------------------------------------------------------------------
(***************************************************************************)
(* The PIC.                                                                *)
(***************************************************************************)

\* Whatever is requested and in service, the line that interrupts the CPU is
\* one that is requested, or the one that interrupted it before.
LEMMA ServicePicks ==
  ASSUME NEW int \in BOOLEAN, NEW r, r \subseteq Line, NEW s, irq \in Line,
         service_master_pic(int, r, s)
  PROVE  /\ irr' = r /\ isr' = s /\ INT' \in BOOLEAN /\ irq' \in Line
         /\ INT' => (int /\ irq' = irq) \/ irq' \in r
<1> DEFINE E == Eligible(r, s)
<1>1. E \subseteq r /\ E \subseteq Line
  BY DEF Eligible
<1>2. ASSUME E # {}
      PROVE  \E i \in E : \A j \in E : i <= j
  BY <1>1, <1>2 DEF Line, Timer, Key
<1> HIDE DEF E
<1>3. CASE int \/ E = {}
  BY <1>3 DEF service_master_pic, E
<1>4. CASE ~int /\ E # {}
  <2>1. (CHOOSE i \in E : \A j \in E : i <= j) \in E
    BY <1>2, <1>4
  <2> QED BY <1>1, <1>4, <2>1 DEF service_master_pic, E
<1> QED BY <1>3, <1>4

\* A line that rises adds its request; nothing else of the PIC is lost.
LEMMA RaiseStep ==
  ASSUME TypeOK, NEW i \in Line, raise_irq(i)
  PROVE  /\ IRQ_in' = IRQ_in \cup {i} /\ isr' = isr
         /\ irr' = IF i \in IRQ_in THEN irr ELSE irr \cup {i}
         /\ irr' \subseteq IRQ_in'
         /\ INT' \in BOOLEAN /\ irq' \in Line
         /\ INT' => (INT /\ irq' = irq) \/ irq' \in irr'
<1>1. CASE i \in IRQ_in
  BY <1>1 DEF raise_irq, pic, TypeOK
<1>2. CASE i \notin IRQ_in
  <2>1. IRQ_in' = IRQ_in \cup {i} /\ service_master_pic(INT, irr \cup {i}, isr)
    BY <1>2 DEF raise_irq
  <2>2. irr \cup {i} \subseteq Line /\ INT \in BOOLEAN /\ irq \in Line
    BY DEF TypeOK
  <2>3. /\ irr' = irr \cup {i} /\ isr' = isr /\ INT' \in BOOLEAN /\ irq' \in Line
        /\ INT' => (INT /\ irq' = irq) \/ irq' \in irr \cup {i}
    BY <2>1, <2>2, ServicePicks
  <2> QED BY <1>2, <2>1, <2>3 DEF TypeOK
<1> QED BY <1>1, <1>2

\* The end of the interrupt of the only line in service.
LEMMA EoiStep ==
  ASSUME TypeOK, NEW i, isr = {i}, eoi
  PROVE  /\ isr' = {} /\ irr' = irr /\ IRQ_in' = IRQ_in
         /\ INT' \in BOOLEAN /\ irq' \in Line
         /\ INT' => (INT /\ irq' = irq) \/ irq' \in irr
<1>1. i \in Line
  BY DEF TypeOK
<1>2. {k \in isr : \E j \in isr : j < k} = {}
  BY <1>1 DEF Line, Timer, Key
<1>3. service_master_pic(INT, irr, {}) /\ IRQ_in' = IRQ_in
  BY <1>2 DEF eoi
<1> QED BY <1>3, ServicePicks DEF TypeOK

-----------------------------------------------------------------------------
(***************************************************************************)
(* The inductive invariant.                                                *)
(***************************************************************************)
LEMMA InitIInv ==
  ASSUME InterruptsAssumption, Init
  PROVE  IInv
<1>1. \A S : <<>> \in Seq(S) /\ Len(<<>>) = 0
  BY EmptySeq
<1>2. TypeOK
  <2>1. /\ kbd_buffer \in Seq(1 .. MAX_BYTES) /\ Len(kbd_buffer) <= BX_KBD_ELEMENTS
        /\ handled \in Seq(0 .. MAX_BYTES)
    BY <1>1 DEF Init, InterruptsAssumption
  <2>2. output \in 0 .. MAX_BYTES /\ accepted \in 0 .. MAX_BYTES
    BY DEF Init, InterruptsAssumption
  <2> QED BY <2>1, <2>2 DEF Init, TypeOK, Line, Pc, BootPc
<1>3. InService /\ KeyLine
  BY DEF Init, InService, KeyLine, Timer, Key
<1> QED BY <1>2, <1>3 DEF IInv

\* The line of the timer falls: a request nobody took is forgotten.
LEMMA PitFallsStep ==
  ASSUME IInv, PitFalls
  PROVE  IInv'
<1>1. /\ IRQ_in' = IRQ_in \ {Timer} /\ irr' = irr \ {Timer}
      /\ UNCHANGED <<isr, INT, irq, cpu, kbd, handled>>
  BY DEF PitFalls, lower_irq
<1>2. TypeOK'
  BY <1>1 DEF IInv, TypeOK, kbd
<1>3. InService' /\ KeyLine'
  BY <1>1 DEF IInv, InService, KeyLine, kbd, Timer, Key
<1> QED BY <1>2, <1>3 DEF IInv

\* It rises: a request is made.
LEMMA PitRisesStep ==
  ASSUME IInv, PitRises
  PROVE  IInv'
<1>1. raise_irq(Timer) /\ UNCHANGED <<cpu, kbd, handled>> /\ Timer \in Line
  BY DEF PitRises, Line
<1>2. /\ IRQ_in' = IRQ_in \cup {Timer} /\ isr' = isr
      /\ irr \subseteq irr' /\ irr' \subseteq irr \cup {Timer}
      /\ irr' \subseteq IRQ_in'
      /\ INT' \in BOOLEAN /\ irq' \in Line
      /\ INT' => (INT /\ irq' = irq) \/ irq' \in irr'
  BY <1>1, RaiseStep DEF IInv
<1>3. TypeOK'
  BY <1>1, <1>2 DEF IInv, TypeOK, kbd
<1>4. InService' /\ KeyLine'
  BY <1>1, <1>2 DEF IInv, InService, KeyLine, kbd, Timer, Key
<1> QED BY <1>3, <1>4 DEF IInv

\* The device queues a byte and arms its timer.
LEMMA EnQStep ==
  ASSUME InterruptsAssumption, IInv, kbd_enQ
  PROVE  IInv'
<1>1. /\ accepted' = accepted + 1 /\ accepted < MAX_BYTES
      /\ Len(kbd_buffer) < BX_KBD_ELEMENTS
      /\ kbd_buffer' = Append(kbd_buffer, accepted + 1)
      /\ timer_pending' = (timer_pending \/ ~outb)
      /\ UNCHANGED <<cpu, pic, output, outb, irq1_requested, handled>>
  BY DEF kbd_enQ
<1>2. accepted + 1 \in 1 .. MAX_BYTES
  BY <1>1 DEF IInv, TypeOK, InterruptsAssumption
<1>3. kbd_buffer' \in Seq(1 .. MAX_BYTES) /\ Len(kbd_buffer') = Len(kbd_buffer) + 1
  BY <1>1, <1>2, AppendProperties DEF IInv, TypeOK
<1>4. Len(kbd_buffer') <= BX_KBD_ELEMENTS
  BY <1>1, <1>3, LenProperties DEF IInv, TypeOK, InterruptsAssumption
<1>5. timer_pending' \in BOOLEAN
  BY <1>1
<1>6. TypeOK'
  BY <1>1, <1>2, <1>3, <1>4, <1>5 DEF IInv, TypeOK, pic
<1>7. InService' /\ KeyLine'
  BY <1>1 DEF IInv, InService, KeyLine, pic
<1> QED BY <1>6, <1>7 DEF IInv

\* A byte that moves to the output buffer finds the line low, and raises it one
\* period later.
LEMMA TimerHandlerStep ==
  ASSUME InterruptsAssumption, IInv, timer_handler
  PROVE  /\ IInv'
         /\ irq1_requested => IRQ_in' = IRQ_in \cup {Key} /\ irr' = irr \cup {Key}
         /\ ~irq1_requested => UNCHANGED pic
         /\ irq1_requested => ~ByteMoves
<1>0. /\ cpu' = cpu /\ accepted' = accepted /\ handled' = handled
      /\ timer_pending' = FALSE /\ irq1_requested' = ByteMoves
      /\ (irq1_requested => raise_irq(Key)) /\ (~irq1_requested => UNCHANGED pic)
  BY DEF timer_handler
<1>1. irq1_requested => ~ByteMoves /\ Key \notin IRQ_in
  BY DEF IInv, KeyLine, ByteMoves
<1>2. /\ irq1_requested => IRQ_in' = IRQ_in \cup {Key} /\ irr' = irr \cup {Key}
      /\ ~irq1_requested => IRQ_in' = IRQ_in /\ irr' = irr
      /\ isr' = isr /\ irr' \subseteq IRQ_in' /\ IRQ_in' \subseteq Line
      /\ INT' \in BOOLEAN /\ irq' \in Line
      /\ INT' => (INT /\ irq' = irq) \/ irq' \in irr'
  <2>1. CASE irq1_requested
    BY <1>0, <1>1, <2>1, RaiseStep DEF IInv, TypeOK, Line
  <2>2. CASE ~irq1_requested
    BY <1>0, <2>2 DEF IInv, TypeOK, pic
  <2> QED BY <2>1, <2>2
<1>3. /\ ByteMoves => /\ kbd_buffer # <<>> /\ ~outb /\ outb'
                      /\ output' = Head(kbd_buffer) /\ kbd_buffer' = Tail(kbd_buffer)
      /\ ~ByteMoves => UNCHANGED <<output, kbd_buffer, outb>>
  BY DEF timer_handler, ByteMoves
<1>4. /\ output' \in 0 .. MAX_BYTES /\ kbd_buffer' \in Seq(1 .. MAX_BYTES)
      /\ Len(kbd_buffer') <= BX_KBD_ELEMENTS
  <2>1. CASE ByteMoves
    <3>1. /\ Head(kbd_buffer) \in 1 .. MAX_BYTES /\ Tail(kbd_buffer) \in Seq(1 .. MAX_BYTES)
          /\ Len(Tail(kbd_buffer)) = Len(kbd_buffer) - 1 /\ Len(kbd_buffer) \in Nat
      BY <1>3, <2>1, HeadTailProperties, LenProperties DEF IInv, TypeOK
    <3>2. Len(kbd_buffer) <= BX_KBD_ELEMENTS /\ BX_KBD_ELEMENTS \in Nat /\ MAX_BYTES \in Nat
      BY DEF IInv, TypeOK, InterruptsAssumption
    <3>3. output' = Head(kbd_buffer) /\ kbd_buffer' = Tail(kbd_buffer)
      BY <1>3, <2>1
    <3>4. Head(kbd_buffer) \in 0 .. MAX_BYTES /\ Len(Tail(kbd_buffer)) <= BX_KBD_ELEMENTS
      BY <3>1, <3>2
    <3> QED BY <3>1, <3>3, <3>4
  <2>2. CASE ~ByteMoves
    BY <1>3, <2>2 DEF IInv, TypeOK
  <2> QED BY <2>1, <2>2
<1>5. outb' \in BOOLEAN /\ irq1_requested' \in BOOLEAN
  <2>1. outb' = (outb \/ ByteMoves)
    BY DEF timer_handler, IInv, TypeOK, ByteMoves
  <2> QED BY <1>0, <2>1 DEF ByteMoves
<1>6. TypeOK'
  BY <1>0, <1>2, <1>4, <1>5 DEF IInv, TypeOK
<1>7. InService'
  BY <1>0, <1>2 DEF IInv, InService
<1>8. KeyLine'
  <2>1. ByteMoves => Key \notin IRQ_in'
    BY <1>1, <1>2, <1>3 DEF IInv, KeyLine
  <2>2. Key \in IRQ_in' => outb'
    BY <1>1, <1>2, <1>3 DEF IInv, KeyLine
  <2>3. cpu' = "key" => Key \in IRQ_in' /\ Key \notin irr'
    BY <1>0, <1>1, <1>2 DEF IInv, KeyLine
  <2>4. INT' /\ irq' = Key => Key \in irr'
    BY <1>2 DEF IInv, KeyLine
  <2> QED BY <1>0, <1>3, <2>1, <2>2, <2>3, <2>4 DEF KeyLine
<1> QED BY <1>0, <1>1, <1>2, <1>6, <1>7, <1>8 DEF IInv

\* The CPU acknowledges a line that is still requested, if it is the keyboard's.
LEMMA AcknowledgeStep ==
  ASSUME IInv, Acknowledge
  PROVE  IInv'
<1>0. /\ cpu = "user" /\ INT /\ isr = {} /\ irq \in Line
      /\ UNCHANGED <<IRQ_in, kbd, handled>>
  BY DEF Acknowledge, IInv, TypeOK, InService
<1>1. CASE irr = {} /\ cpu' = "spurious" /\ INT' = FALSE /\ UNCHANGED <<irr, isr, irq>>
  BY <1>0, <1>1 DEF IInv, TypeOK, InService, KeyLine, kbd, Pc
<1>2. CASE /\ irr # {}
           /\ cpu' = IF irq = Timer THEN "timer" ELSE "key"
           /\ service_master_pic(FALSE, irr \ {irq}, isr \cup {irq})
  <2>1. /\ irr' = irr \ {irq} /\ isr' = {irq} /\ INT' \in BOOLEAN /\ irq' \in Line
        /\ INT' => irq' \in irr'
    BY <1>0, <1>2, ServicePicks DEF IInv, TypeOK
  <2>2. TypeOK'
    BY <1>0, <1>2, <2>1 DEF IInv, TypeOK, kbd, Pc
  <2>3. InService' /\ KeyLine'
    BY <1>0, <1>2, <2>1 DEF IInv, TypeOK, InService, KeyLine, kbd, Line, Timer, Key
  <2> QED BY <2>2, <2>3 DEF IInv
<1> QED BY <1>1, <1>2 DEF Acknowledge

\* The handler reads the byte, which is there, and the line falls.
LEMMA KeyVectorStep ==
  ASSUME IInv, KeyVector
  PROVE  /\ IInv'
         /\ outb /\ ~outb' /\ ~irq1_requested'
         /\ IRQ_in' = IRQ_in \ {Key}
         /\ handled' = Append(handled, output)
         /\ UNCHANGED <<kbd_buffer, accepted>>
<1>1. /\ cpu = "key" /\ cpu' = "key_eoi" /\ outb /\ Key \in IRQ_in /\ Key \notin irr
      /\ ~(INT /\ irq = Key)
  BY DEF KeyVector, IInv, KeyLine
<1>2. /\ handled' = Append(handled, output)
      /\ outb' = FALSE /\ irq1_requested' = FALSE /\ timer_pending' = TRUE
      /\ IRQ_in' = IRQ_in \ {Key} /\ irr' = irr \ {Key}
      /\ UNCHANGED <<isr, INT, irq, kbd_buffer, output, accepted>>
  BY <1>1 DEF KeyVector, ReadPort, lower_irq
<1>3. handled' \in Seq(0 .. MAX_BYTES)
  BY <1>2, AppendProperties DEF IInv, TypeOK
<1>4. TypeOK'
  BY <1>1, <1>2, <1>3 DEF IInv, TypeOK, Pc
<1>5. InService' /\ KeyLine'
  BY <1>1, <1>2 DEF IInv, InService, KeyLine
<1> QED BY <1>1, <1>2, <1>4, <1>5 DEF IInv

\* Every step keeps the inductive invariant.
LEMMA NextIInv ==
  ASSUME InterruptsAssumption, IInv, [Next]_vars
  PROVE  IInv'
<1>1. CASE InitPIC
  <2>1. /\ cpu = "loaded" /\ cpu' = "initialised" /\ irr' = {} /\ isr' = {} /\ INT' = FALSE
        /\ UNCHANGED <<IRQ_in, irq, kbd, handled>>
    BY <1>1 DEF InitPIC
  <2> QED BY <2>1 DEF IInv, TypeOK, InService, KeyLine, kbd, Pc, BootPc
<1>2. CASE KernelStarts
  <2>1. /\ cpu = "initialised" /\ cpu' = "user" /\ isr = {}
        /\ service_master_pic(INT, irr, isr) /\ UNCHANGED <<IRQ_in, kbd, handled>>
    BY <1>2 DEF KernelStarts, IInv, InService
  <2>2. /\ irr' = irr /\ isr' = {} /\ INT' \in BOOLEAN /\ irq' \in Line
        /\ INT' => (INT /\ irq' = irq) \/ irq' \in irr
    BY <2>1, ServicePicks DEF IInv, TypeOK
  <2> QED BY <2>1, <2>2 DEF IInv, TypeOK, InService, KeyLine, kbd, Pc
<1>3. CASE TimerVector
  <2>1. /\ cpu = "timer" /\ cpu' = "kernel" /\ isr = {Timer} /\ eoi /\ UNCHANGED <<kbd, handled>>
    BY <1>3 DEF TimerVector, IInv, InService
  <2>2. /\ isr' = {} /\ irr' = irr /\ IRQ_in' = IRQ_in /\ INT' \in BOOLEAN /\ irq' \in Line
        /\ INT' => (INT /\ irq' = irq) \/ irq' \in irr
    BY <2>1, EoiStep DEF IInv
  <2> QED BY <2>1, <2>2 DEF IInv, TypeOK, InService, KeyLine, kbd, Pc
<1>4. CASE KeyEoi
  <2>1. /\ cpu = "key_eoi" /\ cpu' = "kernel" /\ isr = {Key} /\ eoi /\ UNCHANGED <<kbd, handled>>
    BY <1>4 DEF KeyEoi, IInv, InService
  <2>2. /\ isr' = {} /\ irr' = irr /\ IRQ_in' = IRQ_in /\ INT' \in BOOLEAN /\ irq' \in Line
        /\ INT' => (INT /\ irq' = irq) \/ irq' \in irr
    BY <2>1, EoiStep DEF IInv
  <2> QED BY <2>1, <2>2 DEF IInv, TypeOK, InService, KeyLine, kbd, Pc
<1>5. CASE SpuriousVector
  <2>1. /\ cpu = "spurious" /\ cpu' = "kernel" /\ UNCHANGED <<pic, kbd, handled>>
    BY <1>5 DEF SpuriousVector, IInv, InService
  <2> QED BY <2>1 DEF IInv, TypeOK, InService, KeyLine, kbd, pic, Pc
<1>6. CASE TrapVector \/ TrapReturn
  <2>1. /\ cpu \in {"user", "kernel"} /\ cpu' \in {"user", "kernel"}
        /\ UNCHANGED <<pic, kbd, handled>>
    BY <1>6 DEF TrapVector, TrapReturn
  <2> QED BY <2>1 DEF IInv, TypeOK, InService, KeyLine, kbd, pic, Pc
<1>7. CASE UNCHANGED vars
  BY <1>7 DEF vars, pic, kbd, IInv, TypeOK, InService, KeyLine
<1> QED BY <1>1, <1>2, <1>3, <1>4, <1>5, <1>6, <1>7, PitFallsStep, PitRisesStep, EnQStep,
           TimerHandlerStep, AcknowledgeStep, KeyVectorStep DEF Next

\* Every variable keeps its type, the handlers know what is in service, and the
\* line of the keyboard follows its output buffer.
THEOREM Invariance == Spec => []IInv
<1>1. Init => IInv
  BY InitIInv, InterruptsAssumption
<1>2. IInv /\ [Next]_vars => IInv'
  BY NextIInv, InterruptsAssumption
<1> QED BY <1>1, <1>2, PTL DEF Spec

\* Nothing is in service while a program runs.
THEOREM ServiceEnds == Spec => []NothingInServiceInUserMode
<1>1. IInv => NothingInServiceInUserMode
  BY DEF IInv, InService, NothingInServiceInUserMode
<1> QED BY <1>1, Invariance, PTL

-----------------------------------------------------------------------------
(***************************************************************************)
(* No byte gets stuck.                                                     *)
(***************************************************************************)
LEMMA NextPending ==
  ASSUME InterruptsAssumption, ~BOOT_KEYS, IInv, Pending, [Next]_vars
  PROVE  Pending'
<1>1. CASE PitFalls
  BY <1>1 DEF PitFalls, lower_irq, kbd, Pending, Timer, Key
<1>2. CASE PitRises
  <2>1. /\ IRQ_in' = IRQ_in \cup {Timer} /\ irr \subseteq irr'
        /\ UNCHANGED <<cpu, kbd>>
    BY <1>2, RaiseStep DEF PitRises, IInv, Line
  <2> QED BY <2>1 DEF Pending, kbd, Timer, Key
<1>3. CASE kbd_enQ
  BY <1>3 DEF kbd_enQ, Pending, pic
<1>4. CASE timer_handler
  <2>1. /\ irq1_requested => IRQ_in' = IRQ_in \cup {Key} /\ irr' = irr \cup {Key}
        /\ ~irq1_requested => UNCHANGED pic
        /\ irq1_requested => ~ByteMoves
    BY <1>4, TimerHandlerStep
  <2>2. /\ cpu' = cpu /\ irq1_requested' = ByteMoves /\ timer_pending' = FALSE
        /\ ~ByteMoves => UNCHANGED <<outb, kbd_buffer>>
        /\ ByteMoves => outb'
        /\ irq1_requested \/ timer_pending
    BY <1>4 DEF timer_handler, ByteMoves
  <2>3. cpu \notin BootPc
    BY <2>2 DEF Pending
  <2> QED BY <2>1, <2>2, <2>3 DEF Pending, pic
<1>5. CASE InitPIC
  <2>1. Key \notin IRQ_in
    BY <1>5 DEF InitPIC, BootPc, Pending, IInv, KeyLine
  <2> QED BY <1>5, <2>1 DEF InitPIC, BootPc, Pending, kbd
<1>6. CASE KernelStarts
  <2>1. irr' = irr
    BY <1>6 DEF KernelStarts, service_master_pic
  <2> QED BY <1>6, <2>1 DEF KernelStarts, BootPc, Pending, kbd
<1>7. CASE Acknowledge
  <2>1. irr # {} => irr' = irr \ {irq}
    BY <1>7 DEF Acknowledge, service_master_pic
  <2>2. irr # {} => cpu' = IF irq = Timer THEN "timer" ELSE "key"
    BY <1>7 DEF Acknowledge
  <2>3. irr = {} => irr' = irr
    BY <1>7 DEF Acknowledge
  <2>4. cpu = "user" /\ cpu' \notin BootPc /\ UNCHANGED <<IRQ_in, kbd>>
    BY <1>7 DEF Acknowledge, BootPc
  <2> QED BY <2>1, <2>2, <2>3, <2>4 DEF Pending, kbd, Timer, Key
<1>8. CASE TimerVector
  <2>1. irr' = irr /\ IRQ_in' = IRQ_in
    BY <1>8, EoiStep DEF TimerVector, IInv, InService
  <2> QED BY <1>8, <2>1 DEF TimerVector, BootPc, Pending, kbd
<1>9. CASE KeyVector
  <2>1. ~outb' /\ Key \notin IRQ_in' /\ cpu' = "key_eoi"
    BY <1>9, KeyVectorStep DEF KeyVector
  <2> QED BY <2>1 DEF Pending, BootPc
<1>10. CASE KeyEoi
  <2>1. irr' = irr /\ IRQ_in' = IRQ_in
    BY <1>10, EoiStep DEF KeyEoi, IInv, InService
  <2> QED BY <1>10, <2>1 DEF KeyEoi, BootPc, Pending, kbd
<1>11. CASE SpuriousVector
  <2>1. UNCHANGED pic
    BY <1>11 DEF SpuriousVector, IInv, InService
  <2> QED BY <1>11, <2>1 DEF SpuriousVector, BootPc, Pending, kbd, pic
<1>12. CASE TrapVector \/ TrapReturn
  BY <1>12 DEF TrapVector, TrapReturn, BootPc, Pending, kbd, pic
<1>13. CASE UNCHANGED vars
  BY <1>13 DEF vars, pic, kbd, Pending
<1> QED BY <1>1, <1>2, <1>3, <1>4, <1>5, <1>6, <1>7, <1>8, <1>9, <1>10, <1>11, <1>12, <1>13
        DEF Next

\* If no key moves while the machine boots, every byte in the output buffer of
\* the keyboard is on its way to the handler.
THEOREM NoByteStuck ==
  ASSUME ~BOOT_KEYS
  PROVE  Spec => []ByteHasItsInterrupt
<1>1. Init => Pending
  BY DEF Init, Pending, Timer, Key
<1>2. IInv /\ Pending /\ [Next]_vars => Pending'
  BY NextPending, InterruptsAssumption
<1>3. Pending => ByteHasItsInterrupt
  BY DEF Pending, ByteHasItsInterrupt
<1> QED BY <1>1, <1>2, <1>3, Invariance, PTL DEF Spec

-----------------------------------------------------------------------------
(***************************************************************************)
(* Every byte is read once, in order.                                      *)
(***************************************************************************)

\* What the output buffer holds, and all bytes from the oldest on.
Unread == IF outb THEN <<output>> ELSE <<>>
AllBytes == handled \o Unread \o kbd_buffer
Byte == 0 .. MAX_BYTES

\* The bytes handled, in the output buffer and in the device are sequences.
LEMMA BytesAreSequences ==
  ASSUME InterruptsAssumption, TypeOK
  PROVE  /\ handled \in Seq(Byte) /\ Unread \in Seq(Byte) /\ kbd_buffer \in Seq(Byte)
         /\ handled \o Unread \in Seq(Byte) /\ AllBytes \in Seq(Byte)
         /\ output \in Byte
<1>1. handled \in Seq(Byte) /\ output \in Byte
  BY DEF TypeOK, Byte
<1>2. kbd_buffer \in Seq(Byte)
  <2>1. kbd_buffer \in Seq(1 .. MAX_BYTES) /\ 1 .. MAX_BYTES \subseteq Byte
    BY DEF TypeOK, Byte, InterruptsAssumption
  <2> QED BY <2>1, SeqMonotonic
<1>3. Unread \in Seq(Byte)
  BY <1>1, EmptySeq DEF Unread
<1>4. handled \o Unread \in Seq(Byte)
  BY <1>1, <1>3, ConcatProperties
<1>5. AllBytes \in Seq(Byte)
  BY <1>2, <1>4, ConcatProperties DEF AllBytes
<1> QED BY <1>1, <1>2, <1>3, <1>4, <1>5

\* Counting one further.
LEMMA CountOn ==
  ASSUME NEW n \in Nat, NEW s \in Seq(Nat), s = [i \in 1 .. n |-> i]
  PROVE  Append(s, n + 1) = [i \in 1 .. n + 1 |-> i]
<1>1. Len(s) = n
  BY LenProperties
<1>2. /\ Append(s, n + 1) \in Seq(Nat) /\ Len(Append(s, n + 1)) = n + 1
      /\ \A i \in 1 .. n : Append(s, n + 1)[i] = i
      /\ Append(s, n + 1)[n + 1] = n + 1
  BY <1>1, AppendProperties
<1>3. /\ DOMAIN Append(s, n + 1) = 1 .. n + 1
      /\ Append(s, n + 1) \in [1 .. n + 1 -> Nat]
  BY <1>2, LenProperties
<1>4. \A i \in 1 .. n + 1 : Append(s, n + 1)[i] = i
  BY <1>2
<1> QED BY <1>3, <1>4

\* A queue is its head and what is behind it.
LEMMA HeadThenTail ==
  ASSUME NEW S, NEW q \in Seq(S), q # <<>>
  PROVE  q = <<Head(q)>> \o Tail(q)
<1>1. Len(q) \in Nat /\ Len(q) >= 1
  BY EmptySeq, LenProperties
<1>2. q = SubSeq(q, 1, Len(q)) /\ Tail(q) = SubSeq(q, 2, Len(q))
  BY SubSeqFull, TailIsSubSeq
<1>3. SubSeq(q, 1, Len(q)) = <<q[1]>> \o SubSeq(q, 1 + 1, Len(q))
  BY <1>1, SubSeqRecursiveFirst
<1>4. Head(q) = q[1] /\ 1 + 1 = 2
  OBVIOUS
<1> QED BY <1>2, <1>3, <1>4

\* Every step keeps the bytes in order, and loses and repeats none.
LEMMA NextInOrder ==
  ASSUME InterruptsAssumption, IInv, BytesReadInOrder, [Next]_vars
  PROVE  BytesReadInOrder'
<1>0. /\ handled \in Seq(Byte) /\ Unread \in Seq(Byte) /\ kbd_buffer \in Seq(Byte)
      /\ handled \o Unread \in Seq(Byte) /\ AllBytes \in Seq(Byte) /\ output \in Byte
      /\ AllBytes = [n \in 1 .. accepted |-> n]
  BY BytesAreSequences DEF IInv, BytesReadInOrder, AllBytes, Unread
<1>1. SUFFICES AllBytes' = [n \in 1 .. accepted' |-> n]
  BY DEF BytesReadInOrder, AllBytes, Unread
<1>2. CASE kbd_enQ
  <2>1. /\ kbd_buffer' = Append(kbd_buffer, accepted + 1) /\ accepted' = accepted + 1
        /\ handled' = handled /\ Unread' = Unread
        /\ accepted + 1 \in Byte /\ accepted \in Nat
    BY <1>2 DEF kbd_enQ, Unread, Byte, IInv, TypeOK, InterruptsAssumption
  <2>2. AllBytes' = (handled \o Unread) \o Append(kbd_buffer, accepted + 1)
    BY <2>1 DEF AllBytes
  <2>3. AllBytes' = Append(AllBytes, accepted + 1)
    <3>1. Append(kbd_buffer, accepted + 1) = kbd_buffer \o <<accepted + 1>>
      BY <1>0, <2>1, AppendIsConcat
    <3>2. Append(AllBytes, accepted + 1) = AllBytes \o <<accepted + 1>>
      BY <1>0, <2>1, AppendIsConcat
    <3>3. <<accepted + 1>> \in Seq(Byte)
      BY <2>1
    <3>4. ((handled \o Unread) \o kbd_buffer) \o <<accepted + 1>>
            = (handled \o Unread) \o (kbd_buffer \o <<accepted + 1>>)
      <4>1. handled \o Unread \in Seq(Byte) /\ kbd_buffer \in Seq(Byte)
        BY <1>0
      <4> QED BY <3>3, <4>1, ConcatAssociative
    <3> QED BY <2>2, <3>1, <3>2, <3>4 DEF AllBytes
  <2>4. AllBytes \in Seq(Nat)
    BY <1>0, SeqMonotonic DEF Byte, InterruptsAssumption
  <2> QED BY <1>0, <2>1, <2>3, <2>4, CountOn
<1>3. CASE timer_handler
  <2>1. CASE ByteMoves
    <3>1. /\ handled' = handled /\ accepted' = accepted
          /\ Unread = <<>> /\ Unread' = <<Head(kbd_buffer)>>
          /\ kbd_buffer # <<>> /\ kbd_buffer' = Tail(kbd_buffer)
      BY <1>3, <2>1 DEF timer_handler, ByteMoves, Unread
    <3>2. Head(kbd_buffer) \in Byte /\ Tail(kbd_buffer) \in Seq(Byte)
      BY <1>0, <3>1, HeadTailProperties
    <3>3. <<Head(kbd_buffer)>> \in Seq(Byte)
      BY <3>2
    <3>4. kbd_buffer = <<Head(kbd_buffer)>> \o Tail(kbd_buffer)
      BY <1>0, <3>1, HeadThenTail
    <3>5. AllBytes' = (handled \o <<Head(kbd_buffer)>>) \o Tail(kbd_buffer)
      BY <3>1 DEF AllBytes
    <3>6. AllBytes' = handled \o kbd_buffer
      <4>1. handled \in Seq(Byte) /\ Tail(kbd_buffer) \in Seq(Byte)
        BY <1>0, <3>2
      <4>2. (handled \o <<Head(kbd_buffer)>>) \o Tail(kbd_buffer)
              = handled \o (<<Head(kbd_buffer)>> \o Tail(kbd_buffer))
        BY <3>3, <4>1, ConcatAssociative
      <4> QED BY <3>4, <3>5, <4>2
    <3>7. AllBytes = handled \o kbd_buffer
      BY <1>0, <3>1, ConcatEmptySeq DEF AllBytes
    <3> QED BY <1>0, <3>1, <3>6, <3>7
  <2>2. CASE ~ByteMoves
    <3>1. UNCHANGED <<handled, output, outb, kbd_buffer, accepted>>
      BY <1>3, <2>2 DEF timer_handler, ByteMoves
    <3> QED BY <1>0, <3>1 DEF AllBytes, Unread
  <2> QED BY <2>1, <2>2
<1>4. CASE KeyVector
  <2>1. /\ outb /\ ~outb' /\ handled' = Append(handled, output)
        /\ UNCHANGED <<kbd_buffer, accepted>>
    BY <1>4, KeyVectorStep
  <2>2. Unread = <<output>> /\ Unread' = <<>>
    BY <2>1 DEF Unread
  <2>3. Append(handled, output) = handled \o <<output>>
    BY <1>0, AppendIsConcat
  <2>4. AllBytes' = (Append(handled, output) \o <<>>) \o kbd_buffer
    BY <2>1, <2>2 DEF AllBytes
  <2>5. Append(handled, output) \o <<>> = Append(handled, output)
    BY <1>0, <2>2, <2>3, ConcatEmptySeq
  <2> QED BY <1>0, <2>1, <2>2, <2>3, <2>4, <2>5 DEF AllBytes
<1>5. CASE UNCHANGED <<handled, output, outb, kbd_buffer, accepted>>
  BY <1>0, <1>5 DEF AllBytes, Unread
<1>6. ASSUME \/ PitFalls \/ PitRises \/ InitPIC \/ KernelStarts \/ Acknowledge
             \/ TimerVector \/ KeyEoi \/ SpuriousVector \/ TrapVector \/ TrapReturn
             \/ UNCHANGED vars
      PROVE  UNCHANGED <<handled, output, outb, kbd_buffer, accepted>>
  BY <1>6 DEF PitFalls, PitRises, InitPIC, KernelStarts, Acknowledge, TimerVector, KeyEoi,
     SpuriousVector, TrapVector, TrapReturn, vars, kbd
<1> QED BY <1>2, <1>3, <1>4, <1>5, <1>6 DEF Next

\* Every byte the keyboard took is read exactly once, in order.
THEOREM EveryByteOnce == Spec => []BytesReadInOrder
<1>1. Init => BytesReadInOrder
  <2> SUFFICES ASSUME Init  PROVE AllBytes = [n \in 1 .. accepted |-> n]
    BY DEF BytesReadInOrder, AllBytes, Unread
  <2>1. AllBytes = <<>> /\ accepted = 0
    BY EmptySeq, ConcatEmptySeq DEF Init, AllBytes, Unread
  <2>2. <<>> = [n \in 1 .. 0 |-> n]
    OBVIOUS
  <2> QED BY <2>1, <2>2
<1>2. IInv /\ BytesReadInOrder /\ [Next]_vars => BytesReadInOrder'
  BY NextInOrder, InterruptsAssumption
<1> QED BY <1>1, <1>2, Invariance, PTL DEF Spec

-----------------------------------------------------------------------------
(***************************************************************************)
(* The driver of the keyboard types what is meant, however late it reads   *)
(* the bytes and however many there are.                                   *)
(*                                                                         *)
(* What it has typed says nothing of the bytes on the wire.  The invariant *)
(* is about their future: reading them all takes the driver to where the   *)
(* keys are now (Decodes).  A key that moves adds to the end of that       *)
(* reading, an interrupt takes away its beginning.                         *)
(***************************************************************************)

(***************************************************************************)
(* What the driver does with one byte, case by case.                       *)
(***************************************************************************)
\* The flags, the characters and the keys there are.
Flags == {E0_SIGN, SHIFT, CAPS_LOCK}
Typeable == {"1", "!", "a", "A", "backspace"}
AnyKey == CharKey \cup ShiftKey \cup GreyKey \cup {CapsKey}

\* The flags that belong to the keys.
KeyFlags == (IF Shifted THEN {SHIFT} ELSE {}) \cup (IF caps THEN {CAPS_LOCK} ELSE {})

\* The names are different things.
LEMMA FlagNames ==
  /\ E0_SIGN # SHIFT /\ E0_SIGN # CAPS_LOCK /\ SHIFT # CAPS_LOCK
  /\ NUL # "1" /\ NUL # "!" /\ NUL # "a" /\ NUL # "A" /\ NUL # "backspace"
BY DEF E0_SIGN, SHIFT, CAPS_LOCK, NUL

\* The prefix is remembered.
LEMMA ReadPrefix ==
  ASSUME NEW f
  PROVE  keyboard_read(f, \hE0) = [flag |-> f \cup {E0_SIGN}, ch |-> NUL]
BY DEF keyboard_read

\* A byte behind a prefix does nothing but clear it, also when it is a shift code.
LEMMA ReadPrefixed ==
  ASSUME NEW f, E0_SIGN \in f, NEW c \in Nat, c # \hE0
  PROVE  keyboard_read(f, c) = [flag |-> f \ {E0_SIGN}, ch |-> NUL]
BY DEF keyboard_read

\* A shift key sets and clears its flag.
LEMMA ReadShift ==
  ASSUME NEW f, E0_SIGN \notin f, NEW k \in ShiftKey
  PROVE  /\ keyboard_read(f, k) = [flag |-> f \cup {SHIFT}, ch |-> NUL]
         /\ keyboard_read(f, k + 128) = [flag |-> f \ {SHIFT}, ch |-> NUL]
<1>1. k \in {\h2A, \h36}
  BY DEF ShiftKey
<1>2. /\ Entry(shift_code, k, {}) = {SHIFT} /\ Entry(shift_code, k + 128, {}) = {SHIFT}
      /\ Entry(lock_code, k, {}) = {}
  BY <1>1 DEF Entry, shift_code, lock_code
<1>3. \A g : Character(g, k) = NUL
  <2>1. /\ \A g : Entry(IF SHIFT \in g THEN shift_key_map ELSE key_map, k, NUL) = NUL
        /\ Entry(OtherCase, NUL, NUL) = NUL
    BY <1>1 DEF Entry, shift_key_map, key_map, OtherCase, NUL
  <2> QED BY <2>1 DEF Character
<1>4. KeyDown(f, k) = [flag |-> f \cup {SHIFT}, ch |-> NUL]
  <2>1. SymDiff(f \cup {SHIFT}, {}) = f \cup {SHIFT}
    BY DEF SymDiff
  <2> QED BY <1>2, <1>3, <2>1 DEF KeyDown
<1>5. KeyUp(f, k + 128) = [flag |-> f \ {SHIFT}, ch |-> NUL]
  BY <1>2 DEF KeyUp
<1> QED BY <1>1, <1>4, <1>5 DEF keyboard_read

\* Caps Lock changes its flag going down, and nothing going up.
LEMMA ReadCaps ==
  ASSUME NEW f, E0_SIGN \notin f
  PROVE  /\ keyboard_read(f, CapsKey) = [flag |-> SymDiff(f, {CAPS_LOCK}), ch |-> NUL]
         /\ keyboard_read(f, CapsKey + 128) = [flag |-> f, ch |-> NUL]
<1>1. /\ Entry(shift_code, \h3A, {}) = {} /\ Entry(shift_code, \hBA, {}) = {}
      /\ Entry(lock_code, \h3A, {}) = {CAPS_LOCK}
  BY DEF Entry, shift_code, lock_code
<1>2. \A g : Character(g, \h3A) = NUL
  <2>1. /\ \A g : Entry(IF SHIFT \in g THEN shift_key_map ELSE key_map, \h3A, NUL) = NUL
        /\ Entry(OtherCase, NUL, NUL) = NUL
    BY DEF Entry, shift_key_map, key_map, OtherCase, NUL
  <2> QED BY <2>1 DEF Character
<1>3. KeyDown(f, \h3A) = [flag |-> SymDiff(f, {CAPS_LOCK}), ch |-> NUL]
  <2>1. f \cup {} = f
    OBVIOUS
  <2> QED BY <1>1, <1>2, <2>1 DEF KeyDown
<1>4. KeyUp(f, \hBA) = [flag |-> f, ch |-> NUL]
  <2>1. f \ {} = f
    OBVIOUS
  <2> QED BY <1>1, <2>1 DEF KeyUp
<1> QED BY <1>3, <1>4 DEF keyboard_read, CapsKey

\* A key without the prefix: its code going down is its character, its code
\* going up is nothing.
LEMMA ReadChar ==
  ASSUME NEW f, E0_SIGN \notin f, NEW k \in CharKey
  PROVE  /\ keyboard_read(f, k) = [flag |-> f, ch |-> Character(f, k)]
         /\ keyboard_read(f, k + 128) = [flag |-> f, ch |-> NUL]
<1>1. k \in {\h02, \h0E, \h1E}
  BY DEF CharKey
<1>2. /\ Entry(shift_code, k, {}) = {} /\ Entry(shift_code, k + 128, {}) = {}
      /\ Entry(lock_code, k, {}) = {}
  BY <1>1 DEF Entry, shift_code, lock_code
<1>3. f \cup {} = f /\ SymDiff(f, {}) = f /\ f \ {} = f
  BY DEF SymDiff
<1>4. KeyDown(f, k) = [flag |-> f, ch |-> Character(f, k)]
  BY <1>2, <1>3 DEF KeyDown
<1>5. KeyUp(f, k + 128) = [flag |-> f, ch |-> NUL]
  BY <1>2, <1>3 DEF KeyUp
<1> QED BY <1>1, <1>4, <1>5 DEF keyboard_read

\* The character is the one the key stands for.
LEMMA CharacterMeans ==
  ASSUME caps \in BOOLEAN, NEW k \in CharKey
  PROVE  Character(KeyFlags, k) = Meaning(k) /\ Meaning(k) \in Typeable
<1>1. k \in {\h02, \h0E, \h1E}
  BY DEF CharKey
<1>2. (SHIFT \in KeyFlags <=> Shifted) /\ (CAPS_LOCK \in KeyFlags <=> caps)
  BY FlagNames DEF KeyFlags
<1>3. /\ Entry(key_map, \h02, NUL) = "1" /\ Entry(shift_key_map, \h02, NUL) = "!"
      /\ Entry(key_map, \h0E, NUL) = "backspace" /\ Entry(shift_key_map, \h0E, NUL) = "backspace"
      /\ Entry(key_map, \h1E, NUL) = "a" /\ Entry(shift_key_map, \h1E, NUL) = "A"
  BY DEF Entry, key_map, shift_key_map
<1>4. /\ Entry(OtherCase, "1", "1") = "1" /\ Entry(OtherCase, "!", "!") = "!"
      /\ Entry(OtherCase, "backspace", "backspace") = "backspace"
      /\ Entry(OtherCase, "a", "a") = "A" /\ Entry(OtherCase, "A", "A") = "a"
  BY DEF Entry, OtherCase
<1>5. CASE k = \h02
  BY <1>2, <1>3, <1>4, <1>5 DEF Character, Meaning, Typeable
<1>6. CASE k = \h0E
  BY <1>2, <1>3, <1>4, <1>6 DEF Character, Meaning, Typeable
<1>7. CASE k = \h1E
  <2>1. CASE caps /\ Shifted
    BY <1>2, <1>3, <1>4, <1>7, <2>1 DEF Character, Meaning, Typeable
  <2>2. CASE caps /\ ~Shifted
    BY <1>2, <1>3, <1>4, <1>7, <2>2 DEF Character, Meaning, Typeable
  <2>3. CASE ~caps /\ Shifted
    BY <1>2, <1>3, <1>4, <1>7, <2>3 DEF Character, Meaning, Typeable
  <2>4. CASE ~caps /\ ~Shifted
    <3>1. caps = FALSE /\ Shifted = FALSE
      BY <2>4, Zenon DEF Shifted
    <3>2. ~(Shifted # caps)
      BY <3>1
    <3> QED BY <1>2, <1>3, <1>4, <1>7, <2>4, <3>2 DEF Character, Meaning, Typeable
  <2> QED BY <2>1, <2>2, <2>3, <2>4
<1> QED BY <1>1, <1>5, <1>6, <1>7

\* Whatever the byte, it gives flags and at most one character.
LEMMA ReadIsTyped ==
  ASSUME NEW f \in SUBSET Flags, NEW c \in Nat
  PROVE  /\ keyboard_read(f, c).flag \in SUBSET Flags
         /\ keyboard_read(f, c).ch \in Typeable \cup {NUL}
<1>1. /\ Entry(shift_code, c, {}) \in SUBSET Flags
      /\ Entry(lock_code, c, {}) \in SUBSET Flags
  BY DEF Entry, shift_code, lock_code, Flags
<1>2. \A g : Character(g, c) \in Typeable \cup {NUL}
  <2>1. /\ Entry(key_map, c, NUL) \in Typeable \cup {NUL}
        /\ Entry(shift_key_map, c, NUL) \in Typeable \cup {NUL}
    BY DEF Entry, key_map, shift_key_map, Typeable
  <2>2. \A ch \in Typeable \cup {NUL} : Entry(OtherCase, ch, ch) \in Typeable \cup {NUL}
    BY DEF Entry, OtherCase, Typeable
  <2> QED BY <2>1, <2>2 DEF Character
<1>3. /\ KeyDown(f, c).flag \in SUBSET Flags /\ KeyDown(f, c).ch \in Typeable \cup {NUL}
  BY <1>1, <1>2 DEF KeyDown, SymDiff
<1>4. /\ KeyUp(f, c).flag \in SUBSET Flags /\ KeyUp(f, c).ch \in Typeable \cup {NUL}
  BY <1>1 DEF KeyUp
<1>5. E0_SIGN \in Flags
  BY DEF Flags
<1> QED BY <1>3, <1>4, <1>5 DEF keyboard_read

-----------------------------------------------------------------------------
(***************************************************************************)
(* The driver reading one byte after the other.                            *)
(***************************************************************************)

\* What the driver keeps.
Driver == [flag : SUBSET Flags, typed : Seq(Typeable)]

\* keyboard_read() and the writing of its character.
Read(x, c) ==
  LET r == keyboard_read(x.flag, c)
  IN  [flag |-> r.flag, typed |-> IF r.ch = NUL THEN x.typed ELSE Append(x.typed, r.ch)]

\* t is what s goes on to be.
Begins(s, t) == Len(s) <= Len(t) /\ \A i \in 1 .. Len(s) : s[i] = t[i]

\* The states of the driver from x on, byte by byte of w, to y.
Reads(s, w, x, y) ==
  /\ s \in [0 .. Len(w) -> Driver]
  /\ s[0] = x /\ s[Len(w)] = y
  /\ \A i \in 1 .. Len(w) : s[i] = Read(s[i - 1], w[i])
  /\ \A i \in 0 .. Len(w) : Begins(s[i].typed, y.typed)

\* Reading all of w takes the driver from x to y.
Decodes(w, x, y) == \E s : Reads(s, w, x, y)

\* A byte without a character, and one with a character.
LEMMA ReadIs ==
  ASSUME NEW x, NEW c, NEW g, NEW ch,
         keyboard_read(x.flag, c) = [flag |-> g, ch |-> ch]
  PROVE  /\ ch = NUL => Read(x, c) = [flag |-> g, typed |-> x.typed]
         /\ ch # NUL => Read(x, c) = [flag |-> g, typed |-> Append(x.typed, ch)]
BY DEF Read

\* A byte read keeps the type, and what has been typed stays typed.
LEMMA ReadStays ==
  ASSUME NEW x \in Driver, NEW c \in Nat
  PROVE  Read(x, c) \in Driver /\ Begins(x.typed, Read(x, c).typed)
<1> DEFINE r == keyboard_read(x.flag, c)
<1>1. r.flag \in SUBSET Flags /\ r.ch \in Typeable \cup {NUL}
  BY ReadIsTyped DEF Driver
<1>2. x.typed \in Seq(Typeable) /\ Len(x.typed) \in Nat
  BY LenProperties DEF Driver
<1> HIDE DEF r
<1>3. CASE r.ch = NUL
  BY <1>1, <1>2, <1>3 DEF Read, Driver, Begins, r
<1>4. CASE r.ch # NUL
  <2>1. /\ Append(x.typed, r.ch) \in Seq(Typeable)
        /\ Len(Append(x.typed, r.ch)) = Len(x.typed) + 1
        /\ \A i \in 1 .. Len(x.typed) : Append(x.typed, r.ch)[i] = x.typed[i]
    BY <1>1, <1>2, <1>4, AppendProperties
  <2>2. Read(x, c) = [flag |-> r.flag, typed |-> Append(x.typed, r.ch)]
    BY <1>4 DEF Read, r
  <2> QED BY <1>1, <1>2, <2>1, <2>2 DEF Driver, Begins
<1> QED BY <1>3, <1>4

\* Going on twice is going on.
LEMMA BeginsOn ==
  ASSUME NEW s \in Seq(Typeable), NEW t \in Seq(Typeable), NEW u \in Seq(Typeable),
         Begins(s, t), Begins(t, u)
  PROVE  Begins(s, u)
BY LenProperties DEF Begins

\* Nothing to read.
LEMMA DecodesNothing ==
  ASSUME NEW x \in Driver, NEW y \in Driver
  PROVE  Decodes(<<>>, x, y) <=> x = y
<1>1. Len(<<>>) = 0
  OBVIOUS
<1>2. Decodes(<<>>, x, y) => x = y
  BY <1>1 DEF Decodes, Reads
<1>3. Reads([i \in 0 .. 0 |-> x], <<>>, x, x)
  BY <1>1, LenProperties DEF Reads, Begins, Driver
<1> QED BY <1>2, <1>3 DEF Decodes

\* The characters there are already are those that come first.
LEMMA DecodesBegins ==
  ASSUME NEW w \in Seq(Nat), NEW x, NEW y, Decodes(w, x, y)
  PROVE  x \in Driver /\ y \in Driver /\ Begins(x.typed, y.typed)
<1>1. PICK s : Reads(s, w, x, y)
  BY DEF Decodes
<1> QED BY <1>1, LenProperties DEF Reads

\* One byte more to read.
LEMMA DecodesOne ==
  ASSUME NEW w \in Seq(Nat), NEW x, NEW y, NEW c \in Nat, Decodes(w, x, y)
  PROVE  Decodes(Append(w, c), x, Read(y, c))
<1>1. PICK s : Reads(s, w, x, y)
  BY DEF Decodes
<1> DEFINE n == Len(w)
           z == Read(y, c)
           v == Append(w, c)
           t == [i \in 0 .. n + 1 |-> IF i <= n THEN s[i] ELSE z]
<1>2. n \in Nat /\ s \in [0 .. n -> Driver] /\ s[0] = x /\ s[n] = y /\ y \in Driver
  BY <1>1, LenProperties DEF Reads
<1>3. z \in Driver /\ Begins(y.typed, z.typed)
  BY <1>2, ReadStays
<1>4. Len(v) = n + 1 /\ v[n + 1] = c /\ \A i \in 1 .. n : v[i] = w[i]
  BY AppendProperties
<1> HIDE DEF z, v
<1>5. t \in [0 .. Len(v) -> Driver] /\ t[0] = x /\ t[Len(v)] = z
  BY <1>2, <1>3, <1>4
<1>6. ASSUME NEW i \in 1 .. Len(v)  PROVE t[i] = Read(t[i - 1], v[i])
  <2>1. CASE i <= n
    <3>1. i \in 1 .. n /\ i - 1 \in 0 .. n
      BY <1>2, <1>4, <2>1
    <3>2. s[i] = Read(s[i - 1], w[i])
      BY <1>1, <3>1 DEF Reads
    <3>3. t[i] = s[i] /\ t[i - 1] = s[i - 1] /\ v[i] = w[i]
      BY <1>2, <1>4, <2>1, <3>1
    <3> QED BY <3>2, <3>3
  <2>2. CASE i = n + 1
    <3>1. t[i] = z /\ t[i - 1] = y /\ v[i] = c
      BY <1>2, <1>4, <2>2
    <3> QED BY <3>1 DEF z
  <2> QED BY <1>2, <1>4, <2>1, <2>2
<1>7. ASSUME NEW i \in 0 .. Len(v)  PROVE Begins(t[i].typed, z.typed)
  <2>1. CASE i <= n
    <3>1. i \in 0 .. n /\ t[i] = s[i] /\ s[i] \in Driver
      BY <1>2, <1>4, <2>1
    <3>2. Begins(s[i].typed, y.typed)
      BY <1>1, <3>1 DEF Reads
    <3>3. /\ s[i].typed \in Seq(Typeable) /\ y.typed \in Seq(Typeable)
          /\ z.typed \in Seq(Typeable)
      BY <1>2, <1>3, <3>1 DEF Driver
    <3>4. Begins(s[i].typed, z.typed)
      BY <1>3, <3>2, <3>3, BeginsOn
    <3> QED BY <3>1, <3>4
  <2>2. CASE i = n + 1
    <3>1. t[i] = z
      BY <1>2, <2>2
    <3>2. z.typed \in Seq(Typeable)
      BY <1>3 DEF Driver
    <3>3. Begins(z.typed, z.typed)
      BY <3>2, LenProperties DEF Begins
    <3> QED BY <3>1, <3>3
  <2> QED BY <1>2, <1>4, <2>1, <2>2
<1>8. Reads(t, v, x, z)
  BY <1>5, <1>6, <1>7 DEF Reads
<1> QED BY <1>8 DEF Decodes, z, v

\* One byte read.
LEMMA DecodesRest ==
  ASSUME NEW w \in Seq(Nat), NEW x, NEW y, w # <<>>, Decodes(w, x, y)
  PROVE  Decodes(Tail(w), Read(x, Head(w)), y)
<1>1. PICK s : Reads(s, w, x, y)
  BY DEF Decodes
<1> DEFINE n == Len(w)
           v == Tail(w)
           t == [i \in 0 .. n - 1 |-> s[i + 1]]
<1>2. n \in Nat /\ n > 0
  BY LenProperties, EmptySeq
<1>3. v \in Seq(Nat) /\ Len(v) = n - 1 /\ Head(w) = w[1] /\ \A i \in 1 .. n - 1 : v[i] = w[i + 1]
  BY <1>2, HeadTailProperties
<1>4. s \in [0 .. n -> Driver] /\ s[0] = x /\ s[n] = y
  BY <1>1 DEF Reads
<1>5. s[1] = Read(x, Head(w))
  <2>1. 1 \in 1 .. n
    BY <1>2
  <2>2. s[1] = Read(s[1 - 1], w[1])
    BY <1>1, <2>1 DEF Reads
  <2> QED BY <1>3, <1>4, <2>2
<1> HIDE DEF v
<1>6. t \in [0 .. Len(v) -> Driver] /\ t[0] = s[1] /\ t[Len(v)] = y
  BY <1>2, <1>3, <1>4
<1>7. ASSUME NEW i \in 1 .. Len(v)  PROVE t[i] = Read(t[i - 1], v[i])
  <2>1. i + 1 \in 1 .. n /\ t[i] = s[i + 1] /\ t[i - 1] = s[i] /\ v[i] = w[i + 1]
    BY <1>2, <1>3
  <2>2. s[i + 1] = Read(s[(i + 1) - 1], w[i + 1])
    BY <1>1, <2>1 DEF Reads
  <2>3. (i + 1) - 1 = i
    BY <1>2, <1>3
  <2> QED BY <2>1, <2>2, <2>3
<1>8. ASSUME NEW i \in 0 .. Len(v)  PROVE Begins(t[i].typed, y.typed)
  <2>1. i + 1 \in 0 .. n /\ t[i] = s[i + 1]
    BY <1>2, <1>3
  <2> QED BY <1>1, <2>1 DEF Reads
<1>9. Reads(t, v, s[1], y)
  BY <1>6, <1>7, <1>8 DEF Reads
<1> QED BY <1>5, <1>9 DEF Decodes, v

\* Two bytes.
LEMMA Pair ==
  ASSUME NEW a \in Nat, NEW b \in Nat
  PROVE  /\ <<a>> \in Seq(Nat) /\ <<a, b>> \in Seq(Nat)
         /\ <<a>> \o <<b>> = <<a, b>>
<1>1. <<a>> \in Seq(Nat) /\ Len(<<a>>) = 1 /\ <<a>>[1] = a
  OBVIOUS
<1>2. <<a, b>> \in Seq(Nat) /\ Len(<<a, b>>) = 2 /\ <<a, b>>[1] = a /\ <<a, b>>[2] = b
  OBVIOUS
<1>3. /\ Append(<<a>>, b) \in Seq(Nat) /\ Len(Append(<<a>>, b)) = 2
      /\ Append(<<a>>, b)[1] = a /\ Append(<<a>>, b)[2] = b
  BY <1>1, AppendProperties
<1>4. Append(<<a>>, b) = <<a, b>>
  <2>1. \A i \in 1 .. 2 : Append(<<a>>, b)[i] = <<a, b>>[i]
    <3>1. \A i \in 1 .. 2 : i = 1 \/ i = 2
      OBVIOUS
    <3> QED BY <1>2, <1>3, <3>1
  <2> QED BY <1>2, <1>3, <2>1, SeqEqual
<1>5. Append(<<a>>, b) = <<a>> \o <<b>>
  BY <1>1, AppendIsConcat
<1> QED BY <1>1, <1>2, <1>4, <1>5

\* The fake shifts are pairs of bytes.
LEMMA FakeIsSeq == FakeShift \subseteq Seq(Nat)
<1>1. <<>> \in Seq(Nat) /\ <<\hE0, \h2A>> \in Seq(Nat) /\ <<\hE0, \hAA>> \in Seq(Nat)
  BY Pair
<1> QED BY <1>1 DEF FakeShift

\* A code with the prefix, and a fake shift, leave the driver as it was.
LEMMA DecodesPrefixed ==
  ASSUME NEW w \in Seq(Nat), NEW x, NEW y, NEW c \in Nat, c # \hE0,
         E0_SIGN \notin y.flag, Decodes(w, x, y)
  PROVE  Decodes(w \o <<\hE0, c>>, x, y)
<1> DEFINE v == Append(w, \hE0)
           z == Read(y, \hE0)
<1>1. y \in Driver
  BY DecodesBegins
<1>2. v \in Seq(Nat) /\ Decodes(v, x, z)
  BY DecodesOne, AppendProperties
<1>3. z = [flag |-> y.flag \cup {E0_SIGN}, typed |-> y.typed]
  BY ReadPrefix, ReadIs
<1> HIDE DEF v, z
<1>4. keyboard_read(z.flag, c) = [flag |-> z.flag \ {E0_SIGN}, ch |-> NUL]
  BY <1>3, ReadPrefixed
<1>5. Read(z, c) = y
  <2>1. Read(z, c) = [flag |-> z.flag \ {E0_SIGN}, typed |-> z.typed]
    BY <1>4, ReadIs
  <2>2. (y.flag \cup {E0_SIGN}) \ {E0_SIGN} = y.flag
    OBVIOUS
  <2> QED BY <1>1, <1>3, <2>1, <2>2 DEF Driver
<1>6. Decodes(Append(v, c), x, y)
  BY <1>2, <1>5, DecodesOne
<1>7. Append(v, c) = w \o <<\hE0, c>>
  <2>1. <<\hE0>> \in Seq(Nat) /\ <<c>> \in Seq(Nat) /\ <<\hE0>> \o <<c>> = <<\hE0, c>>
    BY Pair
  <2>2. v = w \o <<\hE0>> /\ Append(v, c) = v \o <<c>>
    BY <1>2, AppendIsConcat DEF v
  <2> QED BY <2>1, <2>2, ConcatAssociative
<1> QED BY <1>6, <1>7

\* A fake shift, or none.
LEMMA DecodesFake ==
  ASSUME NEW w \in Seq(Nat), NEW x, NEW y, NEW fake \in FakeShift,
         E0_SIGN \notin y.flag, Decodes(w, x, y)
  PROVE  w \o fake \in Seq(Nat) /\ Decodes(w \o fake, x, y)
<1>1. \A c \in Nat : <<\hE0, c>> \in Seq(Nat)
  BY Pair
<1>2. CASE fake = <<>>
  BY <1>2, ConcatEmptySeq
<1>3. CASE fake # <<>>
  <2>1. PICK c \in {\h2A, \hAA} : fake = <<\hE0, c>>
    BY <1>3 DEF FakeShift
  <2>2. w \o fake \in Seq(Nat)
    BY <1>1, <2>1, ConcatProperties
  <2> QED BY <2>1, <2>2, DecodesPrefixed
<1> QED BY <1>2, <1>3

-----------------------------------------------------------------------------
(***************************************************************************)
(* The inductive invariant: reading what is on the wire takes the driver   *)
(* to the flags the keys have and to the characters that are meant.        *)
(***************************************************************************)
Now == [flag |-> flag, typed |-> typed]
Then == [flag |-> KeyFlags, typed |-> meant]

HeldOK ==
  /\ held \subseteq AnyKey
  /\ \A j, k \in held \cap ShiftKey : j = k

KeysInv ==
  /\ HeldOK /\ caps \in BOOLEAN /\ wire \in Seq(Nat)
  /\ Decodes(wire, Now, Then)

\* The keys never leave a prefix pending.
LEMMA NoPrefixPending == E0_SIGN \notin KeyFlags
BY FlagNames DEF KeyFlags

\* The keys differ by kind.
LEMMA KeyKinds ==
  /\ AnyKey \subseteq Nat
  /\ CapsKey \notin ShiftKey \cup CharKey \cup GreyKey
  /\ \A k \in CharKey \cup GreyKey : k \notin ShiftKey
  /\ \A k \in CharKey \cup ShiftKey : k \notin GreyKey
  /\ \A k \in AnyKey : k + 128 \in Nat /\ k + 128 # \hE0 /\ k # \hE0
BY DEF AnyKey, CapsKey, ShiftKey, CharKey, GreyKey

\* One byte sent.
LEMMA SendOne ==
  ASSUME KeysInv, NEW c \in Nat, Send(<<c>>)
  PROVE  wire' \in Seq(Nat) /\ Decodes(wire', Now, Read(Then, c))
<1>1. wire' = Append(wire, c)
  BY AppendIsConcat DEF Send, KeysInv
<1> QED BY <1>1, DecodesOne, AppendProperties DEF KeysInv

\* One byte that gives no character, and one that gives one.
LEMMA ReadThen ==
  ASSUME NEW c, NEW g, NEW ch, keyboard_read(KeyFlags, c) = [flag |-> g, ch |-> ch]
  PROVE  /\ ch = NUL => Read(Then, c) = [flag |-> g, typed |-> meant]
         /\ ch # NUL => Read(Then, c) = [flag |-> g, typed |-> Append(meant, ch)]
<1>1. Then.flag = KeyFlags /\ Then.typed = meant
  BY DEF Then
<1> QED BY <1>1, ReadIs

\* What shift keys are held, seen as a flag.
LEMMA SameShift ==
  ASSUME held' \cap ShiftKey = held \cap ShiftKey, caps' = caps
  PROVE  KeyFlags' = KeyFlags
BY DEF KeyFlags, Shifted

\* Nothing is on the wire, and nothing has been typed.
LEMMA KeysInitInv == KeysInit => KeysInv
<1> SUFFICES ASSUME KeysInit PROVE KeysInv
  OBVIOUS
<1>1. Then = Now /\ Now \in Driver
  <2>1. ~Shifted
    BY DEF KeysInit, Shifted
  <2>2. KeyFlags = {}
    BY <2>1 DEF KeysInit, KeyFlags
  <2> QED BY <2>2 DEF KeysInit, Now, Then, Driver
<1>2. wire = <<>> /\ Decodes(<<>>, Now, Then)
  BY <1>1, DecodesNothing DEF KeysInit
<1>3. HeldOK /\ caps \in BOOLEAN /\ wire \in Seq(Nat)
  <2>1. held = {} /\ caps = FALSE /\ wire = <<>>
    BY DEF KeysInit
  <2>2. <<>> \in Seq(Nat)
    OBVIOUS
  <2>3. FALSE \in BOOLEAN
    OBVIOUS
  <2> QED BY <2>1, <2>2, <2>3 DEF HeldOK
<1> QED BY <1>2, <1>3 DEF KeysInv

\* The byte of a character key will be read under the flags the keys have now.
LEMMA PressCharStep ==
  ASSUME KeysInv, NEW k \in CharKey, PressChar(k)
  PROVE  KeysInv'
<1>1. /\ Send(<<k>>) /\ held' = held \cup {k} /\ meant' = Append(meant, Meaning(k))
      /\ caps' = caps /\ flag' = flag /\ typed' = typed
  BY DEF PressChar
<1>2. k \in Nat /\ k \in AnyKey /\ k \notin ShiftKey
  BY KeyKinds DEF AnyKey
<1>3. held' \cap ShiftKey = held \cap ShiftKey
  BY <1>1, <1>2
<1>4. KeyFlags' = KeyFlags
  BY <1>1, <1>3, SameShift
<1>5. Read(Then, k) = Then'
  <2>1. keyboard_read(KeyFlags, k) = [flag |-> KeyFlags, ch |-> Meaning(k)]
    BY NoPrefixPending, ReadChar, CharacterMeans DEF KeysInv
  <2>2. Meaning(k) # NUL
    BY CharacterMeans, FlagNames DEF KeysInv, Typeable
  <2>3. Read(Then, k) = [flag |-> KeyFlags, typed |-> Append(meant, Meaning(k))]
    BY <2>1, <2>2, ReadThen
  <2> QED BY <1>1, <1>4, <2>3 DEF Then
<1>6. wire' \in Seq(Nat) /\ Decodes(wire', Now', Then')
  BY <1>1, <1>2, <1>5, SendOne DEF Now
<1>7. HeldOK'
  BY <1>1, <1>2, <1>3 DEF KeysInv, HeldOK
<1> QED BY <1>1, <1>6, <1>7 DEF KeysInv

\* A shift key goes down or repeats.
LEMMA PressShiftStep ==
  ASSUME KeysInv, NEW k \in ShiftKey, PressShift(k)
  PROVE  KeysInv'
<1>1. /\ ~Shifted \/ k \in held
      /\ Send(<<k>>) /\ held' = held \cup {k} /\ meant' = meant
      /\ caps' = caps /\ flag' = flag /\ typed' = typed
  BY DEF PressShift
<1>2. k \in Nat /\ k \in AnyKey
  BY KeyKinds DEF AnyKey
<1>3. KeyFlags' = KeyFlags \cup {SHIFT}
  BY <1>1 DEF KeyFlags, Shifted
<1>4. Read(Then, k) = Then'
  <2>1. keyboard_read(KeyFlags, k) = [flag |-> KeyFlags \cup {SHIFT}, ch |-> NUL]
    BY NoPrefixPending, ReadShift
  <2>2. Read(Then, k) = [flag |-> KeyFlags \cup {SHIFT}, typed |-> meant]
    BY <2>1, ReadThen
  <2> QED BY <1>1, <1>3, <2>2 DEF Then
<1>5. wire' \in Seq(Nat) /\ Decodes(wire', Now', Then')
  BY <1>1, <1>2, <1>4, SendOne DEF Now
<1>6. HeldOK'
  BY <1>1, <1>2 DEF KeysInv, HeldOK, Shifted
<1> QED BY <1>1, <1>5, <1>6 DEF KeysInv

\* Caps Lock goes down.
LEMMA PressCapsStep ==
  ASSUME KeysInv, PressCaps
  PROVE  KeysInv'
<1>1. /\ Send(<<CapsKey>>) /\ held' = held \cup {CapsKey} /\ meant' = meant
      /\ caps' = ~caps /\ flag' = flag /\ typed' = typed
  BY DEF PressCaps
<1>2. CapsKey \in Nat /\ CapsKey \in AnyKey /\ CapsKey \notin ShiftKey
  BY KeyKinds DEF AnyKey
<1>3. held' \cap ShiftKey = held \cap ShiftKey
  BY <1>1, <1>2
<1>4. KeyFlags' = SymDiff(KeyFlags, {CAPS_LOCK})
  <2>1. Shifted' <=> Shifted
    BY <1>3 DEF Shifted
  <2>2. CASE caps
    <3>1. ~caps'
      BY <1>1, <2>2
    <3> QED BY <2>1, <2>2, <3>1, FlagNames DEF KeyFlags, SymDiff
  <2>3. CASE ~caps
    <3>1. caps'
      BY <1>1, <2>3
    <3> QED BY <2>1, <2>3, <3>1, FlagNames DEF KeyFlags, SymDiff
  <2> QED BY <2>2, <2>3
<1>5. Read(Then, CapsKey) = Then'
  <2>1. keyboard_read(KeyFlags, CapsKey) = [flag |-> SymDiff(KeyFlags, {CAPS_LOCK}), ch |-> NUL]
    BY NoPrefixPending, ReadCaps
  <2>2. Read(Then, CapsKey) = [flag |-> SymDiff(KeyFlags, {CAPS_LOCK}), typed |-> meant]
    BY <2>1, ReadThen
  <2> QED BY <1>1, <1>4, <2>2 DEF Then
<1>6. wire' \in Seq(Nat) /\ Decodes(wire', Now', Then')
  BY <1>1, <1>2, <1>5, SendOne DEF Now
<1>7. HeldOK'
  BY <1>1, <1>2, <1>3 DEF KeysInv, HeldOK
<1>8. caps' \in BOOLEAN
  BY <1>1
<1> QED BY <1>6, <1>7, <1>8 DEF KeysInv

\* A grey key goes down, with a fake shift before it or without.
LEMMA PressGreyStep ==
  ASSUME KeysInv, NEW k \in GreyKey, PressGrey(k)
  PROVE  KeysInv'
<1>1. PICK fake \in FakeShift : Send(fake \o <<\hE0, k>>)
  BY DEF PressGrey
<1>2. /\ held' = held \cup {k} /\ meant' = meant
      /\ caps' = caps /\ flag' = flag /\ typed' = typed
  BY DEF PressGrey
<1>3. k \in Nat /\ k # \hE0 /\ k \in AnyKey /\ k \notin ShiftKey
  BY KeyKinds DEF AnyKey
<1>4. held' \cap ShiftKey = held \cap ShiftKey
  BY <1>2, <1>3
<1>5. KeyFlags' = KeyFlags
  BY <1>2, <1>4, SameShift
<1>6. E0_SIGN \notin Then.flag
  BY NoPrefixPending DEF Then
<1>7. wire \o fake \in Seq(Nat) /\ Decodes(wire \o fake, Now, Then)
  BY <1>6, DecodesFake DEF KeysInv
<1>8. Decodes((wire \o fake) \o <<\hE0, k>>, Now, Then)
  BY <1>3, <1>6, <1>7, DecodesPrefixed
<1>9. fake \in Seq(Nat) /\ <<\hE0, k>> \in Seq(Nat)
  BY <1>3, FakeIsSeq, Pair
<1>10. wire' = (wire \o fake) \o <<\hE0, k>> /\ wire' \in Seq(Nat)
  BY <1>1, <1>7, <1>9, ConcatAssociative, ConcatProperties DEF Send, KeysInv
<1>11. Now' = Now /\ Then' = Then
  BY <1>2, <1>5 DEF Now, Then
<1>12. HeldOK'
  BY <1>2, <1>3, <1>4 DEF KeysInv, HeldOK
<1> QED BY <1>2, <1>8, <1>10, <1>11, <1>12 DEF KeysInv

\* Releasing a key that is no grey one.
LEMMA ReleasePlainStep ==
  ASSUME KeysInv, NEW k \in AnyKey, k \notin GreyKey, ReleaseKey(k)
  PROVE  KeysInv'
<1>1. /\ Send(<<k + 128>>) /\ k \in held /\ held' = held \ {k} /\ meant' = meant
      /\ caps' = caps /\ flag' = flag /\ typed' = typed
  BY DEF ReleaseKey
<1>2. k + 128 \in Nat
  BY KeyKinds
<1>3. Read(Then, k + 128) = Then'
  <2>1. CASE k \in ShiftKey
    <3>1. keyboard_read(KeyFlags, k + 128) = [flag |-> KeyFlags \ {SHIFT}, ch |-> NUL]
      BY <2>1, NoPrefixPending, ReadShift
    <3>2. KeyFlags' = KeyFlags \ {SHIFT}
      <4>1. ~Shifted'
        BY <1>1, <2>1 DEF KeysInv, HeldOK, Shifted
      <4> QED BY <1>1, <4>1, FlagNames DEF KeyFlags
    <3>3. Read(Then, k + 128) = [flag |-> KeyFlags \ {SHIFT}, typed |-> meant]
      BY <3>1, ReadThen
    <3> QED BY <1>1, <3>2, <3>3 DEF Then
  <2>2. CASE k \notin ShiftKey
    <3>1. keyboard_read(KeyFlags, k + 128) = [flag |-> KeyFlags, ch |-> NUL]
      BY <2>2, NoPrefixPending, ReadChar, ReadCaps DEF AnyKey
    <3>2. held' \cap ShiftKey = held \cap ShiftKey
      BY <1>1, <2>2
    <3>3. KeyFlags' = KeyFlags
      BY <1>1, <3>2, SameShift
    <3>4. Read(Then, k + 128) = [flag |-> KeyFlags, typed |-> meant]
      BY <3>1, ReadThen
    <3> QED BY <1>1, <3>3, <3>4 DEF Then
  <2> QED BY <2>1, <2>2
<1>4. wire' \in Seq(Nat) /\ Decodes(wire', Now', Then')
  BY <1>1, <1>2, <1>3, SendOne DEF Now
<1>5. HeldOK'
  BY <1>1 DEF KeysInv, HeldOK
<1> QED BY <1>1, <1>4, <1>5 DEF KeysInv

\* A grey key goes up.
LEMMA ReleaseGreyStep ==
  ASSUME KeysInv, NEW k \in GreyKey, ReleaseKey(k)
  PROVE  KeysInv'
<1>1. PICK fake \in FakeShift : Send(<<\hE0, k + 128>> \o fake)
  BY DEF ReleaseKey
<1>2. /\ held' = held \ {k} /\ meant' = meant
      /\ caps' = caps /\ flag' = flag /\ typed' = typed
  BY DEF ReleaseKey
<1>3. k + 128 \in Nat /\ k + 128 # \hE0 /\ k \notin ShiftKey
  BY KeyKinds DEF AnyKey
<1>4. held' \cap ShiftKey = held \cap ShiftKey
  BY <1>2, <1>3
<1>5. KeyFlags' = KeyFlags
  BY <1>2, <1>4, SameShift
<1>6. E0_SIGN \notin Then.flag
  BY NoPrefixPending DEF Then
<1> DEFINE v == wire \o <<\hE0, k + 128>>
<1>7. fake \in Seq(Nat) /\ <<\hE0, k + 128>> \in Seq(Nat)
  BY <1>3, FakeIsSeq, Pair
<1>8. v \in Seq(Nat) /\ Decodes(v, Now, Then)
  BY <1>3, <1>6, <1>7, DecodesPrefixed, ConcatProperties DEF KeysInv
<1>9. v \o fake \in Seq(Nat) /\ Decodes(v \o fake, Now, Then)
  <2> HIDE DEF v
  <2> QED BY <1>6, <1>8, DecodesFake
<1>10. wire' = v \o fake
  <2> DEFINE p == <<\hE0, k + 128>>
  <2>1. wire \in Seq(Nat) /\ wire' = wire \o (p \o fake)
    BY <1>1 DEF Send, KeysInv
  <2>2. p \in Seq(Nat) /\ fake \in Seq(Nat)
    BY <1>7
  <2> HIDE DEF p
  <2>3. (wire \o p) \o fake = wire \o (p \o fake)
    BY <2>1, <2>2, ConcatAssociative
  <2> QED BY <2>1, <2>3 DEF p
<1>11. Now' = Now /\ Then' = Then
  BY <1>2, <1>5 DEF Now, Then
<1>12. HeldOK'
  BY <1>2 DEF KeysInv, HeldOK
<1> QED BY <1>2, <1>9, <1>10, <1>11, <1>12 DEF KeysInv

\* The driver reads the byte that is first on the wire.
LEMMA InterruptStep ==
  ASSUME KeysInv, Interrupt
  PROVE  KeysInv'
<1>1. /\ wire # <<>> /\ wire' = Tail(wire)
      /\ UNCHANGED <<held, caps, meant>>
      /\ Now' = Read(Now, Head(wire))
  BY DEF Interrupt, Read, Now
<1>2. KeyFlags' = KeyFlags
  BY <1>1, SameShift
<1>3. Then' = Then
  BY <1>1, <1>2 DEF Then
<1>4. wire' \in Seq(Nat) /\ Decodes(wire', Now', Then')
  BY <1>1, <1>3, DecodesRest, HeadTailProperties DEF KeysInv
<1> QED BY <1>1, <1>4 DEF KeysInv, HeldOK

\* Every step keeps the invariant.
LEMMA KeysNextInv ==
  ASSUME KeysInv, [KeysNext]_keysVars
  PROVE  KeysInv'
<1>1. CASE UNCHANGED keysVars
  BY <1>1 DEF keysVars, KeysInv, HeldOK, Now, Then, KeyFlags, Shifted
<1>2. CASE KeysNext
  BY <1>2, InterruptStep, PressCharStep, PressShiftStep, PressCapsStep, PressGreyStep,
     ReleasePlainStep, ReleaseGreyStep DEF KeysNext, AnyKey
<1> QED BY <1>1, <1>2

\* The inductive invariant of the keys holds throughout.
THEOREM KeysInvariance == KeysSpec => []KeysInv
<1>1. KeysInit => KeysInv
  BY KeysInitInv
<1>2. KeysInv /\ [KeysNext]_keysVars => KeysInv'
  BY KeysNextInv
<1> QED BY <1>1, <1>2, PTL DEF KeysSpec

\* keyboard_read() gives the characters the keys stood for when they went down.
THEOREM TypedIsMeant == KeysSpec => []TypesWhatIsMeant
<1>1. KeysInv => TypesWhatIsMeant
  <2> SUFFICES ASSUME KeysInv PROVE TypesWhatIsMeant
    OBVIOUS
  <2>1. Now \in Driver /\ Then \in Driver /\ Begins(Now.typed, Then.typed)
    BY DecodesBegins DEF KeysInv
  <2>2. /\ typed \in Seq(Typeable) /\ meant \in Seq(Typeable)
        /\ Len(typed) <= Len(meant) /\ \A i \in 1 .. Len(typed) : typed[i] = meant[i]
    BY <2>1 DEF Driver, Now, Then, Begins
  <2>3. IsPrefix(typed, meant)
    <3>1. /\ SubSeq(typed, 1, Len(typed)) \in Seq(Typeable)
          /\ Len(SubSeq(typed, 1, Len(typed))) = Len(typed)
          /\ \A i \in 1 .. Len(typed) : SubSeq(typed, 1, Len(typed))[i] = typed[i]
      BY <2>2, LenProperties
    <3>2. /\ SubSeq(meant, 1, Len(typed)) \in Seq(Typeable)
          /\ Len(SubSeq(meant, 1, Len(typed))) = Len(typed)
          /\ \A i \in 1 .. Len(typed) : SubSeq(meant, 1, Len(typed))[i] = meant[i]
      BY <2>2, LenProperties
    <3>3. SubSeq(typed, 1, Len(typed)) = SubSeq(meant, 1, Len(typed))
      BY <2>2, <3>1, <3>2, SeqEqual
    <3> QED BY <2>2, <3>3 DEF IsPrefix
  <2>4. wire = <<>> => typed = meant
    BY <2>1, DecodesNothing DEF KeysInv, Now, Then
  <2> QED BY <2>3, <2>4 DEF TypesWhatIsMeant
<1> QED BY <1>1, KeysInvariance, PTL

\* Once all bytes have been read the flags are those of the keys.
THEOREM FlagsAreKeys == KeysSpec => []FlagsFollowKeys
<1>1. KeysInv => FlagsFollowKeys
  <2> SUFFICES ASSUME KeysInv, wire = <<>>
               PROVE  flag = KeyFlags
    BY DEF FlagsFollowKeys, KeyFlags
  <2>1. Now \in Driver /\ Then \in Driver
    BY DecodesBegins DEF KeysInv
  <2>2. Now = Then
    BY <2>1, DecodesNothing DEF KeysInv
  <2>3. Now.flag = flag /\ Then.flag = KeyFlags
    BY DEF Now, Then
  <2> QED BY <2>2, <2>3
<1> QED BY <1>1, KeysInvariance, PTL

-----------------------------------------------------------------------------
(***************************************************************************)
(* The properties of the screen, for every size of it, every alphabet and  *)
(* every limit on the line that fits (ScreenAssumption).                   *)
(*                                                                         *)
(* The three invariants are about one number, the cell under the cursor    *)
(* (Pos).  What a character does is said once in terms of that cell        *)
(* (Written); with the type of the variables and the bound on the length   *)
(* of the line (Editor), the invariants are then inductive.                *)
(***************************************************************************)

\* The cell under the cursor; that of the last line's first column; the end.
Pos == column + row * COLS
LastLine == (ROWS - 1) * COLS
Size == ROWS * COLS

\* The line editor and the video memory.
Editor ==
  /\ cell \in [Cell -> Char \cup {Blank}]
  /\ line \in Seq(Char)
  /\ start \in Int
  /\ old \in [Cell -> Char \cup {Blank}]
  /\ editing \in BOOLEAN
  /\ editing => Len(line) <= LINE_LIMIT + 1

ScreenInv == Editor /\ CursorOnScreen /\ EchoMatchesLine /\ CleanAhead

-----------------------------------------------------------------------------
(***************************************************************************)
(* Arithmetic on lines of COLS cells.                                      *)
(***************************************************************************)
LEMMA NextLine ==
  ASSUME NEW c \in Int, NEW r \in Int
  PROVE  /\ r * c \in Int
         /\ (r + 1) * c = r * c + c
         /\ (r - 1) * c = r * c - c
OBVIOUS

\* A lower row begins later in the video memory.
LEMMA LinesGrow ==
  ASSUME NEW c \in Nat, NEW r \in Nat, NEW s \in Nat, r <= s
  PROVE  r * c <= s * c /\ r * c >= 0
OBVIOUS

\* The screen has two lines at least, and a whole line fits under the limit.
LEMMA ScreenSize ==
  ASSUME ScreenAssumption
  PROVE  /\ COLS \in Nat /\ COLS >= 2 /\ ROWS \in Nat /\ ROWS >= 2
         /\ Size \in Nat /\ LastLine \in Nat /\ Size = LastLine + COLS
         /\ Size >= LINE_LIMIT + 2 * COLS /\ LINE_LIMIT \in Nat
         /\ Cell = 0 .. Size - 1
<1>1. /\ COLS \in Nat /\ COLS >= 2 /\ ROWS \in Nat /\ LINE_LIMIT \in Nat
      /\ Size >= LINE_LIMIT + 2 * COLS
  BY DEF ScreenAssumption, Size
<1>2. ROWS >= 2
  <2>1. CASE ROWS = 0
    BY <1>1, <2>1 DEF Size
  <2>2. CASE ROWS = 1
    BY <1>1, <2>2 DEF Size
  <2> QED BY <1>1, <2>1, <2>2
<1>3. LastLine = Size - COLS /\ Size \in Int
  BY <1>1, NextLine DEF LastLine, Size
<1> QED BY <1>1, <1>2, <1>3 DEF Cell, Size

-----------------------------------------------------------------------------
(***************************************************************************)
(* Scrolling, and writing one character.                                   *)
(***************************************************************************)

\* Scrolling moves the cursor and the text by one line and adds a blank one.
LEMMA Scrolled ==
  ASSUME ScreenAssumption, Editor, CursorOnScreen
  PROVE  /\ Row \in 0 .. ROWS - 1 /\ Row * COLS \in 0 .. LastLine /\ Pos \in Nat
         /\ Here \in Cell /\ Here = column + Row * COLS
         /\ Shown \in [Cell -> Char \cup {Blank}]
         /\ Late => /\ Pos = Size /\ Here = LastLine
                    /\ \A i \in Cell : i < LastLine => Shown[i] = cell[i + COLS]
         /\ ~Late => Pos = Here /\ Shown = cell
<1>1. /\ COLS \in Nat /\ COLS >= 2 /\ ROWS \in Nat /\ ROWS >= 2
      /\ Size \in Nat /\ LastLine \in Nat /\ Size = LastLine + COLS
      /\ Cell = 0 .. Size - 1
  BY ScreenSize
<1>2. /\ column \in 0 .. COLS - 1 /\ row \in 0 .. ROWS
      /\ row = ROWS => column = 0
  BY DEF CursorOnScreen
<1>3. Row \in 0 .. ROWS - 1
  BY <1>1, <1>2 DEF Row, Late
<1>4. Row * COLS \in 0 .. LastLine
  BY <1>1, <1>3, NextLine, LinesGrow DEF LastLine
<1>5. Here \in Cell /\ Here = column + Row * COLS
  BY <1>1, <1>2, <1>4 DEF Here
<1>6. Pos \in Nat
  BY <1>1, <1>2, LinesGrow DEF Pos
<1>7. Shown \in [Cell -> Char \cup {Blank}]
  <2>1. ASSUME NEW i \in Cell, i < LastLine  PROVE i + COLS \in Cell
    BY <1>1, <2>1
  <2> QED BY <2>1 DEF Shown, Editor, LastLine
<1>8. ASSUME Late
      PROVE  /\ Pos = Size /\ Here = LastLine
             /\ \A i \in Cell : i < LastLine => Shown[i] = cell[i + COLS]
  <2>1. row = ROWS /\ column = 0 /\ Row = ROWS - 1
    BY <1>1, <1>2, <1>8 DEF Late, Row
  <2>2. Pos = Size /\ Here = LastLine
    BY <1>1, <1>5, <2>1 DEF Pos, Size, LastLine
  <2>3. \A i \in Cell : i < LastLine => Shown[i] = cell[i + COLS]
    BY <1>8 DEF Shown, LastLine
  <2> QED BY <2>2, <2>3
<1>9. ASSUME ~Late  PROVE Pos = Here /\ Shown = cell
  BY <1>9 DEF Pos, Here, Row, Shown
<1> QED BY <1>3, <1>4, <1>5, <1>6, <1>7, <1>8, <1>9

\* What one character does, seen from the cell it goes to.
Written(ch) ==
  /\ CursorOnScreen'
  /\ cell' \in [Cell -> Char \cup {Blank}]
  /\ Pos' \in Nat
  /\ \/ ch \in Char /\ cell' = [Shown EXCEPT ![Here] = ch] /\ Pos' = Here + 1
     \/ ch = Newline /\ cell' = Shown /\ Pos' > Here
     \/ ch = Backspace /\ Here = 0 /\ cell' = Shown /\ Pos' = 0
     \/ ch = Backspace /\ Here > 0 /\ cell' = [Shown EXCEPT ![Here - 1] = Blank] /\ Pos' = Here - 1
  /\ old' = IF Late THEN Empty ELSE old

\* write_screen() does what Written says.
LEMMA WritesOne ==
  ASSUME ScreenAssumption, Editor, CursorOnScreen, NEW ch, write_screen(ch)
  PROVE  Written(ch)
<1>1. /\ COLS \in Nat /\ COLS >= 2 /\ ROWS \in Nat /\ ROWS >= 2
      /\ Size \in Nat /\ LastLine \in Nat /\ Size = LastLine + COLS
      /\ Cell = 0 .. Size - 1
  BY ScreenSize
<1>2. /\ Row \in 0 .. ROWS - 1 /\ Row * COLS \in 0 .. LastLine
      /\ Here \in Cell /\ Here = column + Row * COLS
      /\ Shown \in [Cell -> Char \cup {Blank}]
      /\ column \in 0 .. COLS - 1
  BY Scrolled DEF CursorOnScreen
<1>3. (Row + 1) * COLS = Row * COLS + COLS /\ (Row - 1) * COLS = Row * COLS - COLS
  BY <1>1, <1>2, NextLine
<1>0. old' = IF Late THEN Empty ELSE old
  BY DEF write_screen
<1> DEFINE base == Row * COLS
<1>4. base \in 0 .. LastLine /\ Here = column + base
  BY <1>2
<1>5. CASE ch = Newline /\ BreakLine
  <2>1. cell' = Shown /\ column' = 0 /\ row' = Row + 1
    BY <1>5 DEF BreakLine
  <2>2. Pos' = base + COLS
    BY <1>1, <1>2, <1>3, <2>1 DEF Pos
  <2> HIDE DEF base
  <2>3. Pos' \in Nat /\ Pos' > Here
    BY <1>1, <1>2, <1>4, <2>2
  <2>4. CursorOnScreen'
    BY <1>1, <1>2, <2>1 DEF CursorOnScreen
  <2> QED BY <1>0, <1>2, <1>5, <2>1, <2>3, <2>4 DEF Written
<1>6. CASE ch \in Char /\ Put(ch)
  <2>1. /\ cell' = [Shown EXCEPT ![Here] = ch]
        /\ column' = IF column + 1 >= COLS THEN 0 ELSE column + 1
        /\ row' = IF column + 1 >= COLS THEN Row + 1 ELSE Row
    BY <1>6 DEF Put
  <2>2. Pos' = Here + 1
    <3>1. CASE column + 1 >= COLS
      <4>1. Pos' = base + COLS /\ column = COLS - 1
        BY <1>1, <1>2, <1>3, <2>1, <3>1 DEF Pos
      <4> QED BY <1>1, <1>4, <4>1
    <3>2. CASE column + 1 < COLS
      <4>1. Pos' = (column + 1) + base
        BY <1>1, <1>2, <2>1, <3>2 DEF Pos
      <4> QED BY <1>1, <1>2, <1>4, <4>1
    <3> QED BY <1>1, <1>2, <3>1, <3>2
  <2>3. CursorOnScreen'
    BY <1>1, <1>2, <2>1 DEF CursorOnScreen
  <2>4. cell' \in [Cell -> Char \cup {Blank}] /\ Pos' \in Nat
    BY <1>1, <1>2, <1>6, <2>1, <2>2
  <2> QED BY <1>0, <1>6, <2>1, <2>2, <2>3, <2>4 DEF Written
<1>7. CASE ch = Backspace /\ Erase
  <2>1. CASE column = 0 /\ Row = 0
    <3>1. cell' = Shown /\ column' = 0 /\ row' = 0
      BY <1>7, <2>1 DEF Erase
    <3>2. Here = 0 /\ Pos' = 0
      BY <1>1, <1>2, <2>1, <3>1 DEF Pos
    <3>3. CursorOnScreen'
      BY <1>1, <3>1 DEF CursorOnScreen
    <3> QED BY <1>0, <1>2, <1>7, <3>1, <3>2, <3>3 DEF Written
  <2>2. CASE column # 0 \/ Row # 0
    <3>1. /\ cell' = [Shown EXCEPT ![Here - 1] = Blank]
          /\ column' = IF column = 0 THEN COLS - 1 ELSE column - 1
          /\ row' = IF column = 0 THEN Row - 1 ELSE Row
      BY <1>7, <2>2 DEF Erase
    <3>2. Here > 0
      <4>1. CASE column # 0
        BY <1>1, <1>2, <1>4, <4>1
      <4>2. CASE Row # 0
        <5>1. 1 <= Row /\ 1 * COLS <= Row * COLS
          BY <1>1, <1>2, <4>2, LinesGrow
        <5> QED BY <1>1, <1>2, <5>1
      <4> QED BY <2>2, <4>1, <4>2
    <3>3. Pos' = Here - 1
      <4>1. CASE column = 0
        <5>1. Pos' = (COLS - 1) + (base - COLS)
          BY <1>1, <1>2, <1>3, <3>1, <4>1 DEF Pos
        <5> QED BY <1>1, <1>4, <4>1, <5>1
      <4>2. CASE column # 0
        <5>1. Pos' = (column - 1) + base
          BY <1>1, <1>2, <3>1, <4>2 DEF Pos
        <5> QED BY <1>1, <1>2, <1>4, <5>1
      <4> QED BY <4>1, <4>2
    <3>4. CursorOnScreen'
      BY <1>1, <1>2, <2>2, <3>1 DEF CursorOnScreen
    <3>5. cell' \in [Cell -> Char \cup {Blank}] /\ Pos' \in Nat
      BY <1>1, <1>2, <3>1, <3>2, <3>3
    <3> QED BY <1>0, <1>7, <3>1, <3>2, <3>3, <3>4, <3>5 DEF Written
  <2> QED BY <2>1, <2>2
<1> QED BY <1>5, <1>6, <1>7 DEF write_screen

\* What the last clear_screen() left is part of the screen, until it scrolls.
LEMMA OldTyped ==
  ASSUME ScreenAssumption, Editor, NEW ch, Written(ch)
  PROVE  old' \in [Cell -> Char \cup {Blank}]
<1>1. old' = Empty \/ old' = old
  BY DEF Written
<1>2. Empty \in [Cell -> Char \cup {Blank}]
  BY DEF Empty
<1> QED BY <1>1, <1>2 DEF Editor

\* A cell from the cursor on: blank, or left there by clear_screen().
Clean(c, o, i) == c[i] = Blank \/ (i >= LastLine /\ c[i] = o[i])

\* No character leaves old text ahead of the cursor.
LEMMA StaysClean ==
  ASSUME ScreenAssumption, Editor, CursorOnScreen, CleanAhead, NEW ch, Written(ch)
  PROVE  CleanAhead'
<1>1. /\ COLS \in Nat /\ COLS >= 2 /\ Size \in Nat /\ LastLine \in Nat
      /\ Size = LastLine + COLS /\ Cell = 0 .. Size - 1
  BY ScreenSize
<1>2. Here \in Cell /\ Shown \in [Cell -> Char \cup {Blank}] /\ Pos' \in Nat
  BY Scrolled DEF Written
<1>3. \A i \in Cell : i >= Here => Clean(Shown, old', i)
  <2>1. CASE Late
    <3>1. Here = LastLine
      BY <2>1, Scrolled
    <3>2. \A i \in Cell : i >= LastLine => Shown[i] = Blank
      BY <1>1, <2>1 DEF Shown, LastLine
    <3> QED BY <3>1, <3>2 DEF Clean
  <2>2. CASE ~Late
    <3>1. Pos = Here /\ Shown = cell /\ old' = old
      BY <2>2, Scrolled DEF Written
    <3> QED BY <3>1 DEF CleanAhead, Pos, LastLine, Clean
  <2> QED BY <2>1, <2>2
<1>4. ASSUME NEW i \in Cell, i >= Pos'  PROVE Clean(cell', old', i)
  <2>1. CASE cell'[i] = Blank
    BY <2>1 DEF Clean
  <2>2. CASE cell'[i] # Blank
    <3>1. i >= Here /\ cell'[i] = Shown[i]
      BY <1>1, <1>2, <1>4, <2>2 DEF Written
    <3> QED BY <1>3, <3>1 DEF Clean
  <2> QED BY <2>1, <2>2
<1> QED BY <1>4 DEF CleanAhead, Pos, LastLine, Clean

\* The cells of n characters from s on lie before the cell behind them.
LEMMA CellsBefore ==
  ASSUME NEW s \in Nat, NEW n \in Nat, NEW k \in 1 .. n
  PROVE  (s + k) - 1 \in 0 .. (s + n) - 1
OBVIOUS

\* The cell before the cursor is not one of those before it.
LEMMA CellsDiffer ==
  ASSUME NEW s \in Nat, NEW n \in Nat, NEW k \in 1 .. n - 1, NEW h, h = s + n
  PROVE  s + k - 1 # h - 1
OBVIOUS

\* A cell before and after the screen has scrolled.
LEMMA CellAbove ==
  ASSUME NEW s \in Int, NEW k \in Int, NEW c \in Int, NEW t, t = s - c
  PROVE  ((t + k) - 1) + c = s + k - 1 /\ (t + k) - 1 = t + k - 1
OBVIOUS

\* While a line is edited, the text behind the prompt stays on the screen when
\* it scrolls: there is room for the prompt's line, the line and a wrap.
LEMMA EchoScrolls ==
  ASSUME ScreenAssumption, ScreenInv, editing, Len(line) <= LINE_LIMIT, Follow
  PROVE  /\ start' \in Nat /\ Here = start' + Len(line) /\ Len(line) \in Nat
         /\ \A k \in 1 .. Len(line) : (start' + k) - 1 \in Cell /\ Shown[start' + k - 1] = line[k]
<1>1. /\ COLS \in Nat /\ COLS >= 2 /\ Size \in Nat /\ LastLine \in Nat
      /\ Size = LastLine + COLS /\ Cell = 0 .. Size - 1
      /\ Size >= LINE_LIMIT + 2 * COLS /\ LINE_LIMIT \in Nat
  BY ScreenSize
<1>2. /\ Pos = start + Len(line) /\ start >= 0 /\ start \in Int /\ Len(line) \in Nat
      /\ \A k \in 1 .. Len(line) : cell[start + k - 1] = line[k]
  BY LenProperties DEF ScreenInv, Editor, EchoMatchesLine, Pos
<1>3. Here \in Cell
  BY Scrolled DEF ScreenInv
<1>4. CASE Late
  <2>1. /\ Pos = Size /\ Here = LastLine /\ start' = start - COLS
        /\ \A i \in Cell : i < LastLine => Shown[i] = cell[i + COLS]
    BY <1>4, Scrolled DEF ScreenInv, Follow
  <2>2. start' \in Nat /\ Here = start' + Len(line)
    <3> DEFINE n == Len(line)
    <3>1. /\ n \in Nat /\ n <= LINE_LIMIT /\ start \in Int /\ start + n = Size
          /\ start' = start - COLS
      BY <1>2, <2>1
    <3> HIDE DEF n
    <3>2. start >= 2 * COLS
      BY <1>1, <3>1
    <3>3. start' \in Nat /\ LastLine = start' + n
      BY <1>1, <3>1, <3>2
    <3> QED BY <2>1, <3>3 DEF n
  <2>3. ASSUME NEW k \in 1 .. Len(line)
        PROVE  (start' + k) - 1 \in Cell /\ Shown[start' + k - 1] = line[k]
    <3>1. (start' + k) - 1 \in 0 .. LastLine - 1
      BY <1>2, <2>1, <2>2, CellsBefore
    <3>2. (start' + k) - 1 \in Cell /\ (start' + k) - 1 < LastLine
      BY <1>1, <3>1
    <3>3. k \in Int /\ start \in Int /\ COLS \in Int /\ start' = start - COLS
      BY <1>1, <1>2, <2>1
    <3>4. ((start' + k) - 1) + COLS = start + k - 1 /\ (start' + k) - 1 = start' + k - 1
      BY <3>3, CellAbove
    <3> QED BY <1>2, <2>1, <3>2, <3>4
  <2> QED BY <1>2, <2>2, <2>3
<1>5. CASE ~Late
  <2>1. Pos = Here /\ Shown = cell /\ start' = start
    BY <1>5, Scrolled DEF ScreenInv, Follow
  <2>2. \A k \in 1 .. Len(line) : (start' + k) - 1 \in Cell
    BY <1>1, <1>2, <1>3, <2>1
  <2>3. \A k \in 1 .. Len(line) : Shown[start' + k - 1] = line[k]
    BY <1>2, <2>1
  <2>4. start' \in Nat /\ Here = start' + Len(line)
    BY <1>2, <2>1
  <2> QED BY <1>2, <2>2, <2>3, <2>4
<1> QED BY <1>4, <1>5

-----------------------------------------------------------------------------
(***************************************************************************)
(* The actions.                                                            *)
(***************************************************************************)
LEMMA ScreenInitInv ==
  ASSUME ScreenAssumption, ScreenInit
  PROVE  ScreenInv
<1>1. /\ COLS \in Nat /\ COLS >= 2 /\ ROWS \in Nat /\ ROWS >= 2 /\ LINE_LIMIT \in Nat
  BY ScreenSize
<1>2. /\ cell = [i \in Cell |-> Blank] /\ column = 0 /\ row = 0
      /\ editing = FALSE /\ line = <<>> /\ start = 0 /\ old = [i \in Cell |-> Blank]
  BY DEF ScreenInit, Empty
<1>3. Editor
  <2>1. line \in Seq(Char)
    BY <1>2, EmptySeq
  <2>2. cell \in [Cell -> Char \cup {Blank}] /\ old \in [Cell -> Char \cup {Blank}] /\ start \in Int
    BY <1>2
  <2>3. editing \in BOOLEAN /\ (editing => Len(line) <= LINE_LIMIT + 1)
    BY <1>2
  <2> QED BY <2>1, <2>2, <2>3 DEF Editor
<1>4. CursorOnScreen
  BY <1>1, <1>2 DEF CursorOnScreen
<1>5. EchoMatchesLine /\ CleanAhead
  BY <1>2 DEF EchoMatchesLine, CleanAhead
<1> QED BY <1>3, <1>4, <1>5 DEF ScreenInv

\* The actions, one by one: a program prints a character,
LEMMA ProgramWritesStep ==
  ASSUME ScreenAssumption, ScreenInv, ProgramWrites
  PROVE  ScreenInv'
<1>1. PICK ch \in Char \cup {Newline} : write_screen(ch)
  BY DEF ProgramWrites
<1>2. ~editing /\ UNCHANGED <<editing, line, start>>
  BY DEF ProgramWrites
<1>3. Written(ch)
  BY <1>1, WritesOne DEF ScreenInv
<1>4. CursorOnScreen' /\ CleanAhead' /\ old' \in [Cell -> Char \cup {Blank}]
  BY <1>3, StaysClean, OldTyped DEF ScreenInv, Written
<1>5. Editor' /\ EchoMatchesLine'
  BY <1>2, <1>3, <1>4 DEF ScreenInv, Editor, EchoMatchesLine, Written
<1> QED BY <1>4, <1>5 DEF ScreenInv

\* a program clears the screen,
LEMMA ProgramClearsStep ==
  ASSUME ScreenAssumption, ScreenInv, ProgramClears
  PROVE  ScreenInv'
<1>1. /\ cell' = [i \in Cell |-> IF i < LastLine THEN Blank ELSE cell[i]]
      /\ column' = 0 /\ row' = 0 /\ ~editing /\ UNCHANGED <<editing, line, start>>
      /\ old' = cell'
  BY DEF ProgramClears, clear_screen, LastLine
<1>2. COLS \in Nat /\ COLS >= 2 /\ ROWS \in Nat /\ ROWS >= 2
  BY ScreenSize
<1>3. CursorOnScreen'
  BY <1>1, <1>2 DEF CursorOnScreen
<1>4. CleanAhead'
  BY <1>1, ScreenSize DEF CleanAhead, LastLine
<1>5. cell' \in [Cell -> Char \cup {Blank}]
  BY <1>1 DEF ScreenInv, Editor
<1>6. Editor' /\ EchoMatchesLine'
  BY <1>1, <1>5 DEF ScreenInv, Editor, EchoMatchesLine
<1> QED BY <1>3, <1>4, <1>6 DEF ScreenInv

\* the shell starts to read a line behind its prompt,
LEMMA StartLineStep ==
  ASSUME ScreenAssumption, ScreenInv, StartLine
  PROVE  ScreenInv'
<1>1. /\ editing' = TRUE /\ line' = <<>> /\ start' = Pos
      /\ cell' = cell /\ column' = column /\ row' = row /\ old' = old
  BY DEF StartLine, Pos, cursor
<1>2. Pos \in Nat /\ LINE_LIMIT \in Nat
  BY Scrolled, ScreenSize DEF ScreenInv
<1>3. line' \in Seq(Char) /\ Len(line') = 0
  BY <1>1, EmptySeq
<1>4. Editor'
  BY <1>1, <1>2, <1>3 DEF ScreenInv, Editor
<1>5. EchoMatchesLine'
  BY <1>1, <1>2, <1>3 DEF EchoMatchesLine, Pos
<1>6. CursorOnScreen' /\ CleanAhead'
  BY <1>1 DEF ScreenInv, CursorOnScreen, CleanAhead
<1> QED BY <1>4, <1>5, <1>6 DEF ScreenInv

\* The key that ends the line.
LEMMA LineEnds ==
  ASSUME ScreenAssumption, ScreenInv, NEW ch, editing' = FALSE, write_screen(ch),
         start' = 0, line' = line
  PROVE  ScreenInv'
<1>1. Written(ch)
  BY WritesOne DEF ScreenInv
<1>2. CursorOnScreen' /\ CleanAhead'
  BY <1>1, StaysClean DEF ScreenInv, Written
<1>3. EchoMatchesLine' /\ (editing' => Len(line') <= LINE_LIMIT + 1)
  BY Zenon DEF EchoMatchesLine
<1>4. /\ cell' \in [Cell -> Char \cup {Blank}] /\ line' \in Seq(Char) /\ start' \in Int
      /\ old' \in [Cell -> Char \cup {Blank}]
  BY <1>1, OldTyped DEF ScreenInv, Editor, Written
<1> QED BY <1>2, <1>3, <1>4 DEF ScreenInv, Editor

\* The erase key takes back the last character of the line, if there is one.
LEMMA LineShrinks ==
  ASSUME ScreenAssumption, ScreenInv, editing, editing' = editing, line # <<>>,
         Len(line) <= LINE_LIMIT, line' = Front(line), write_screen(Backspace), Follow
  PROVE  ScreenInv'
<1>1. Written(Backspace)
  BY WritesOne DEF ScreenInv
<1>2. CursorOnScreen' /\ CleanAhead'
  BY <1>1, StaysClean DEF ScreenInv, Written
<1>3. /\ line \in Seq(Char) /\ Len(line) \in Nat /\ Len(line) > 0 /\ LINE_LIMIT \in Nat
  BY EmptySeq, LenProperties, ScreenSize DEF ScreenInv, Editor
<1>4. /\ line' \in Seq(Char) /\ Len(line') = Len(line) - 1
      /\ \A k \in 1 .. Len(line) - 1 : line'[k] = line[k]
  <2>1. line' = SubSeq(line, 1, Len(line) - 1)
    BY DEF Front
  <2>2. \A k \in 1 .. Len(line) - 1 : line[k] \in Char
    BY <1>3, ElementOfSeq
  <2>3. /\ line' \in Seq(Char)
        /\ Len(line') = IF 1 <= Len(line) - 1 THEN ((Len(line) - 1) - 1) + 1 ELSE 0
        /\ \A k \in 1 .. ((Len(line) - 1) - 1) + 1 : line'[k] = line[1 + (k - 1)]
    BY <1>3, <2>1, <2>2, SubSeqProperties
  <2>4. Len(line') = Len(line) - 1
    <3> DEFINE n == Len(line)
    <3>1. n \in Nat /\ n > 0 /\ Len(line') = IF 1 <= n - 1 THEN ((n - 1) - 1) + 1 ELSE 0
      BY <1>3, <2>3
    <3> HIDE DEF n
    <3>2. Len(line') = n - 1
      BY <3>1
    <3> QED BY <3>2 DEF n
  <2>5. ASSUME NEW k \in 1 .. Len(line) - 1  PROVE line'[k] = line[k]
    <3>1. k \in 1 .. ((Len(line) - 1) - 1) + 1 /\ 1 + (k - 1) = k
      BY <1>3
    <3> QED BY <2>3, <3>1
  <2> QED BY <2>3, <2>4, <2>5
<1>5. /\ start' \in Nat /\ Here = start' + Len(line)
      /\ \A k \in 1 .. Len(line) : (start' + k) - 1 \in Cell /\ Shown[start' + k - 1] = line[k]
  BY EchoScrolls
<1>6. /\ Shown \in [Cell -> Char \cup {Blank}]
      /\ cell' = [Shown EXCEPT ![Here - 1] = Blank] /\ Pos' = Here - 1
  <2>1. Here > 0
    BY <1>3, <1>5
  <2>2. Backspace \notin Char /\ Backspace # Newline
    BY DEF ScreenAssumption, Backspace, Newline
  <2> QED BY <1>1, <2>1, <2>2, Scrolled DEF ScreenInv, Written
<1>7. Editor'
  BY <1>1, <1>3, <1>4, <1>5, OldTyped DEF ScreenInv, Editor, Written
<1>8. EchoMatchesLine'
  <2>1. ASSUME NEW k \in 1 .. Len(line')  PROVE cell'[start' + k - 1] = line'[k]
    <3>1. k \in 1 .. Len(line) - 1
      BY <1>4
    <3>2. start' + k - 1 # Here - 1
      BY <1>3, <1>5, <3>1, CellsDiffer
    <3> QED BY <1>4, <1>5, <1>6, <3>1, <3>2
  <2>2. Pos' = start' + Len(line') /\ start' >= 0
    BY <1>3, <1>4, <1>5, <1>6
  <2> QED BY <2>1, <2>2 DEF EchoMatchesLine, Pos
<1> QED BY <1>2, <1>7, <1>8 DEF ScreenInv

\* A character goes behind the others.
LEMMA LineGrows ==
  ASSUME ScreenAssumption, ScreenInv, editing, editing' = editing, NEW ch \in Char,
         Len(line) <= LINE_LIMIT, line' = Append(line, ch), write_screen(ch), Follow
  PROVE  ScreenInv'
<1>1. Written(ch)
  BY WritesOne DEF ScreenInv
<1>2. CursorOnScreen' /\ CleanAhead'
  BY <1>1, StaysClean DEF ScreenInv, Written
<1>3. line \in Seq(Char) /\ Len(line) \in Nat /\ LINE_LIMIT \in Nat
  BY LenProperties, ScreenSize DEF ScreenInv, Editor
<1>4. /\ line' \in Seq(Char) /\ Len(line') = Len(line) + 1
      /\ \A k \in 1 .. Len(line) : line'[k] = line[k]
      /\ line'[Len(line) + 1] = ch
  BY <1>3, AppendProperties
<1>5. /\ start' \in Nat /\ Here = start' + Len(line) /\ Here \in Cell
      /\ \A k \in 1 .. Len(line) : (start' + k) - 1 \in Cell /\ Shown[start' + k - 1] = line[k]
  BY EchoScrolls, Scrolled DEF ScreenInv
<1>6. /\ Shown \in [Cell -> Char \cup {Blank}]
      /\ cell' = [Shown EXCEPT ![Here] = ch] /\ Pos' = Here + 1
  <2>1. ch # Backspace /\ ch # Newline
    BY DEF ScreenAssumption
  <2> QED BY <1>1, <2>1, Scrolled DEF ScreenInv, Written
<1>7. Editor'
  BY <1>1, <1>3, <1>4, <1>5, OldTyped DEF ScreenInv, Editor, Written
<1>8. EchoMatchesLine'
  <2>1. ASSUME NEW k \in 1 .. Len(line')  PROVE cell'[start' + k - 1] = line'[k]
    <3>1. CASE k = Len(line) + 1
      <4>1. start' + k - 1 = Here
        BY <1>3, <1>5, <3>1
      <4> QED BY <1>4, <1>5, <1>6, <3>1, <4>1
    <3>2. CASE k # Len(line) + 1
      <4>1. k \in 1 .. Len(line) /\ start' + k - 1 # Here
        BY <1>3, <1>4, <1>5, <3>2
      <4> QED BY <1>4, <1>5, <1>6, <4>1
    <3> QED BY <3>1, <3>2
  <2>2. Pos' = start' + Len(line') /\ start' >= 0
    BY <1>3, <1>4, <1>5, <1>6
  <2> QED BY <2>1, <2>2 DEF EchoMatchesLine, Pos
<1> QED BY <1>2, <1>7, <1>8 DEF ScreenInv

\* and the shell handles a key.
LEMMA KeyReadStep ==
  ASSUME ScreenAssumption, ScreenInv, NEW ch, KeyRead(ch)
  PROVE  ScreenInv'
<1>1. editing
  BY DEF KeyRead
<1>2. CASE editing' = FALSE /\ write_screen(ch) /\ start' = 0 /\ line' = line
  BY <1>2, LineEnds
<1>3. CASE /\ ch = Backspace /\ Len(line) <= LINE_LIMIT /\ editing' = editing
           /\ line # <<>> /\ line' = Front(line) /\ write_screen(ch) /\ Follow
  BY <1>1, <1>3, LineShrinks
<1>4. CASE UNCHANGED screenVars
  BY <1>4 DEF screenVars, cursor, ScreenInv, Editor, CursorOnScreen, EchoMatchesLine, CleanAhead
<1>5. CASE /\ ch \in Char /\ Len(line) <= LINE_LIMIT /\ line' = Append(line, ch)
           /\ write_screen(ch) /\ Follow /\ editing' = editing
  BY <1>1, <1>5, LineGrows
<1> QED BY <1>2, <1>3, <1>4, <1>5 DEF KeyRead, screenVars

\* Every step keeps the invariant.
LEMMA ScreenNextInv ==
  ASSUME ScreenAssumption, ScreenInv, [ScreenNext]_screenVars
  PROVE  ScreenInv'
<1>1. CASE UNCHANGED screenVars
  BY <1>1 DEF screenVars, cursor, ScreenInv, Editor, CursorOnScreen, EchoMatchesLine, CleanAhead
<1> QED BY <1>1, ProgramWritesStep, ProgramClearsStep, StartLineStep, KeyReadStep DEF ScreenNext

\* The variables keep their types and the three properties hold together.
THEOREM ScreenInvariance == ScreenSpec => []ScreenInv
<1>1. ScreenInit => ScreenInv
  BY ScreenInitInv, ScreenAssumption
<1>2. ScreenInv /\ [ScreenNext]_screenVars => ScreenInv'
  BY ScreenNextInv, ScreenAssumption
<1> QED BY <1>1, <1>2, PTL DEF ScreenSpec

\* The cursor never leaves the screen by more than the line that is still to be
\* scrolled, so no character is written behind the video memory.
THEOREM CursorStays == ScreenSpec => []CursorOnScreen
<1>1. ScreenInv => CursorOnScreen
  BY DEF ScreenInv
<1> QED BY <1>1, ScreenInvariance, PTL

\* While a line is edited, the cells behind the prompt hold the buffer of
\* read_cmd().
THEOREM EchoIsLine == ScreenSpec => []EchoMatchesLine
<1>1. ScreenInv => EchoMatchesLine
  BY DEF ScreenInv
<1> QED BY <1>1, ScreenInvariance, PTL

\* From the cursor on there is nothing but blanks, and in the last line of the
\* screen what the last clear_screen() left there, until the screen scrolls.
THEOREM NothingAhead == ScreenSpec => []CleanAhead
<1>1. ScreenInv => CleanAhead
  BY DEF ScreenInv
<1> QED BY <1>1, ScreenInvariance, PTL
=============================================================================
