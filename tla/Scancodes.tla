----------------------------- MODULE Scancodes -----------------------------
(***************************************************************************)
(* keyboard_read() of keyboard.c: from the bytes the keyboard sends, one   *)
(* per interrupt, to characters, with the flags that remember shift, caps  *)
(* lock and the prefix 0xE0.  The keyboard, keyboard.cc of the emulator,   *)
(* queues its bytes, which are read, in order, some time after the keys    *)
(* have moved.  Grey keys may also wrap their code in fake shift codes, as *)
(* real keyboards do depending on Num Lock; all their codes carry the      *)
(* prefix.                                                                 *)
(*                                                                         *)
(* Two limits of the driver are kept out by the way the keyboard is used   *)
(* here: one shift key at a time (there is one flag for both), and no      *)
(* auto-repeat of Caps Lock (each repeat would toggle it).  So is a key    *)
(* that moves when the keyboard's buffer is full: its bytes would be       *)
(* dropped one by one.  The tables are given for a letter, a digit and     *)
(* Backspace.                                                              *)
(***************************************************************************)
EXTENDS Integers, SequencesExt

CONSTANTS
  MAX_TYPED,  \* bound: how many characters are meant to be typed
  WIRE        \* bytes the keyboard can hold back (BX_KBD_ELEMENTS, 16)

ASSUME ScancodesAssumption == MAX_TYPED \in Nat /\ WIRE \in Nat

E0_SIGN == "e0"
SHIFT == "shift"
CAPS_LOCK == "caps"
NUL == "nul"   \* no character

shift_code == [c \in {\h2A, \h36, \hAA, \hB6} |-> {SHIFT}]
lock_code == [c \in {\h3A} |-> {CAPS_LOCK}]
key_map == [c \in {\h02, \h0E, \h1E} |->
             CASE c = \h02 -> "1" [] c = \h0E -> "backspace" [] c = \h1E -> "a"]
shift_key_map == [c \in {\h02, \h0E, \h1E} |->
                   CASE c = \h02 -> "!" [] c = \h0E -> "backspace" [] c = \h1E -> "A"]
OtherCase == [ch \in {"a", "A"} |-> IF ch = "a" THEN "A" ELSE "a"]

\* The entry of a table for scan code c; the others hold nothing.
Entry(table, c, nothing) == IF c \in DOMAIN table THEN table[c] ELSE nothing

\* Slip: caps lock is one more shift.
CharacterCapsWins(f, c) ==
  Entry(IF f \cap {SHIFT, CAPS_LOCK} # {} THEN shift_key_map ELSE key_map, c, NUL)

\* The character of a key that goes down, under the flags f.
Character(f, c) ==
  LET ch == Entry(IF SHIFT \in f THEN shift_key_map ELSE key_map, c, NUL)
  IN  IF CAPS_LOCK \in f THEN Entry(OtherCase, ch, ch) ELSE ch

KeyDown(f, c) ==
  LET shifted == f \cup Entry(shift_code, c, {})
      g == SymDiff(shifted, Entry(lock_code, c, {}))
  IN  [flag |-> g, ch |-> Character(g, c)]
KeyUp(f, c) == [flag |-> f \ Entry(shift_code, c, {}), ch |-> NUL]

\* Slip: a key that goes up is looked for before the prefix.
UpBeforePrefix(f, c) ==
  IF c = \hE0 THEN [flag |-> f \cup {E0_SIGN}, ch |-> NUL]
  ELSE IF c >= \h80 THEN KeyUp(f, c)
  ELSE IF E0_SIGN \in f THEN [flag |-> f \ {E0_SIGN}, ch |-> NUL]
  ELSE KeyDown(f, c)

keyboard_read(f, c) ==
  IF c = \hE0 THEN [flag |-> f \cup {E0_SIGN}, ch |-> NUL]
  ELSE IF E0_SIGN \in f THEN [flag |-> f \ {E0_SIGN}, ch |-> NUL]
  ELSE IF c >= \h80 THEN KeyUp(f, c)
  ELSE KeyDown(f, c)

VARIABLES
  held,   \* the keys that are down
  caps,   \* Caps Lock has been pressed an odd number of times
  wire,   \* bytes sent and not yet read
  flag,   \* the flags of the driver
  typed,  \* history: the characters of keyboard_read()
  meant   \* history: the characters the keys stood for when they went down

keysVars == <<held, caps, wire, flag, typed, meant>>

KeysInit ==
  /\ held = {} /\ caps = FALSE /\ wire = <<>> /\ flag = {}
  /\ typed = <<>> /\ meant = <<>>

(***************************************************************************)
(* The keyboard: gen_scancode() for a key that goes down or up.  A key has *)
(* one scan code; a grey key has the prefix, and would be Enter without    *)
(* it.                                                                     *)
(***************************************************************************)
ShiftKey == {\h2A, \h36}
CapsKey == \h3A
CharKey == {\h02, \h0E, \h1E}
GreyKey == {\h1C}

Shifted == held \cap ShiftKey # {}
Meaning(k) ==
  CASE k = \h02 -> IF Shifted THEN "!" ELSE "1"
    [] k = \h0E -> "backspace"
    [] k = \h1E -> IF Shifted # caps THEN "A" ELSE "a"

\* kbd_enQ() of the bytes of one key.  It drops a byte that finds the buffer
\* full; here a key moves only when all its bytes fit.
Send(bytes) ==
  /\ Len(wire) + Len(bytes) <= WIRE
  /\ wire' = wire \o bytes

FakeShift == {<<>>, <<\hE0, \h2A>>, <<\hE0, \hAA>>}

\* A character key goes down, or repeats.
PressChar(k) ==
  /\ Len(meant) < MAX_TYPED
  /\ Send(<<k>>)
  /\ held' = held \cup {k}
  /\ meant' = Append(meant, Meaning(k))
  /\ UNCHANGED <<caps, flag, typed>>

PressShift(k) ==
  /\ ~Shifted \/ k \in held
  /\ Send(<<k>>)
  /\ held' = held \cup {k}
  /\ UNCHANGED <<caps, flag, typed, meant>>

PressCaps ==
  /\ CapsKey \notin held
  /\ Send(<<CapsKey>>)
  /\ held' = held \cup {CapsKey}
  /\ caps' = ~caps
  /\ UNCHANGED <<flag, typed, meant>>

PressGrey(k) ==
  /\ \E fake \in FakeShift : Send(fake \o <<\hE0, k>>)
  /\ held' = held \cup {k}
  /\ UNCHANGED <<caps, flag, typed, meant>>

ReleaseKey(k) ==
  /\ k \in held
  /\ IF k \in GreyKey THEN \E fake \in FakeShift : Send(<<\hE0, k + 128>> \o fake)
                      ELSE Send(<<k + 128>>)
  /\ held' = held \ {k}
  /\ UNCHANGED <<caps, flag, typed, meant>>

\* The interrupt: keyboard_handler() reads one byte.
Interrupt ==
  /\ wire # <<>>
  /\ wire' = Tail(wire)
  /\ LET r == keyboard_read(flag, Head(wire))
     IN  /\ flag' = r.flag
         /\ typed' = IF r.ch = NUL THEN typed ELSE Append(typed, r.ch)
  /\ UNCHANGED <<held, caps, meant>>

KeysNext ==
  \/ Interrupt
  \/ \E k \in CharKey : PressChar(k)
  \/ \E k \in ShiftKey : PressShift(k)
  \/ PressCaps
  \/ \E k \in GreyKey : PressGrey(k)
  \/ \E k \in CharKey \cup ShiftKey \cup GreyKey \cup {CapsKey} : ReleaseKey(k)

KeysSpec == KeysInit /\ [][KeysNext]_keysVars

(***************************************************************************)
(* Properties.                                                             *)
(***************************************************************************)

\* The characters are those the keys stood for when they went down, in that
\* order and none left out, however late the bytes are read and whatever grey
\* keys and fake shifts come between them.
TypesWhatIsMeant == IsPrefix(typed, meant) /\ (wire = <<>> => typed = meant)

\* No flag gets stuck: once all bytes have been read, the driver and the
\* keyboard agree about shift and caps lock, and no prefix is pending.
FlagsFollowKeys ==
  wire = <<>> =>
    flag = (IF Shifted THEN {SHIFT} ELSE {}) \cup (IF caps THEN {CAPS_LOCK} ELSE {})
=============================================================================
