------------------------------- MODULE Screen -------------------------------
(***************************************************************************)
(* The text screen (print.c) under the line editor of the shell: programs  *)
(* write and clear, the shell prints its prompt and echoes the keys of     *)
(* read_cmd() (user1/main.c), the erase key included.  The video memory is *)
(* linear, as in the code: a cell is row * COLS + column, so a column that *)
(* is off by one lands in another line, not outside.  Colours are left     *)
(* out.  The screen scrolls late, when the next character arrives.         *)
(***************************************************************************)
EXTENDS Integers, SequencesExt

CONSTANTS
  COLS, ROWS,   \* the size of the screen (80 and 25)
  Char,         \* the printable characters
  LINE_LIMIT    \* a line longer than this ends with the next key (80)

Blank == "blank"
Newline == "newline"
Backspace == "backspace"

ASSUME ScreenAssumption ==
  /\ COLS \in Nat /\ COLS >= 2 /\ ROWS \in Nat
  /\ LINE_LIMIT \in Nat /\ Newline \notin Char /\ Backspace \notin Char
  /\ ROWS * COLS >= LINE_LIMIT + 2 * COLS   \* prompt, line and a wrap fit on it

Cell == 0 .. ROWS * COLS - 1
Empty == [i \in Cell |-> Blank]

VARIABLES
  cell,     \* the video memory
  column,
  row,
  editing,  \* the shell is in read_cmd()
  line,     \* the buffer of read_cmd()
  start,    \* history: the cell the line began at, moved up with it (0 outside a line)
  old       \* history: the screen as the last clear_screen() left it, until it scrolls

cursor == <<column, row>>
screenVars == <<cell, cursor, editing, line, start, old>>

ScreenInit ==
  /\ cell = Empty
  /\ column = 0 /\ row = 0
  /\ editing = FALSE
  /\ line = <<>>
  /\ start = 0
  /\ old = Empty

\* The start of the loop body of write_screen(): scroll if the row is behind
\* the last one.
Late == row >= ROWS
\* Slip: scrolling moves the lines up and does not clear the last one.
ShownKeepsLast == IF Late
                  THEN [i \in Cell |-> IF i < (ROWS - 1) * COLS THEN cell[i + COLS] ELSE cell[i]]
                  ELSE cell
Shown == IF Late
         THEN [i \in Cell |-> IF i < (ROWS - 1) * COLS THEN cell[i + COLS] ELSE Blank]
         ELSE cell
Row == IF Late THEN row - 1 ELSE row
Here == column + Row * COLS

\* Slips: the line wraps one column late; erasing at the start of a line stays
\* in that line.
PutWrapsLate(ch) ==
  /\ cell' = [Shown EXCEPT ![Here] = ch]
  /\ column' = IF column + 1 > COLS THEN 0 ELSE column + 1
  /\ row' = IF column + 1 > COLS THEN Row + 1 ELSE Row
EraseStaysInLine ==
  /\ column' = IF column = 0 THEN 0 ELSE column - 1
  /\ row' = Row
  /\ cell' = [Shown EXCEPT ![column' + Row * COLS] = Blank]

Put(ch) ==
  /\ cell' = [Shown EXCEPT ![Here] = ch]
  /\ column' = IF column + 1 >= COLS THEN 0 ELSE column + 1
  /\ row' = IF column + 1 >= COLS THEN Row + 1 ELSE Row

BreakLine ==
  /\ cell' = Shown
  /\ column' = 0
  /\ row' = Row + 1

Erase ==
  \/ column = 0 /\ Row = 0 /\ cell' = Shown /\ UNCHANGED column /\ row' = Row
  \/ /\ column # 0 \/ Row # 0
     /\ cell' = [Shown EXCEPT ![Here - 1] = Blank]
     /\ column' = IF column = 0 THEN COLS - 1 ELSE column - 1
     /\ row' = IF column = 0 THEN Row - 1 ELSE Row

\* write_screen() of one character; a string is written one by one.
write_screen(ch) ==
  /\ \/ ch = Newline /\ BreakLine
     \/ ch = Backspace /\ Erase
     \/ ch \in Char /\ Put(ch)
  /\ old' = IF Late THEN Empty ELSE old

\* clear_screen(): all lines but the last.
clear_screen ==
  /\ cell' = [i \in Cell |-> IF i < (ROWS - 1) * COLS THEN Blank ELSE cell[i]]
  /\ column' = 0 /\ row' = 0
  /\ old' = cell'

(***************************************************************************)
(* The writers.                                                            *)
(***************************************************************************)
ProgramWrites ==
  /\ ~editing
  /\ \E ch \in Char \cup {Newline} : write_screen(ch)
  /\ UNCHANGED <<editing, line, start>>

ProgramClears ==
  /\ ~editing
  /\ clear_screen
  /\ UNCHANGED <<editing, line, start>>

\* The shell has printed its prompt and calls read_cmd().
StartLine ==
  /\ ~editing
  /\ editing' = TRUE
  /\ line' = <<>>
  /\ start' = column + row * COLS
  /\ UNCHANGED <<cell, cursor, old>>

Follow == start' = IF Late THEN start - COLS ELSE start

\* One turn of read_cmd().  Any key ends a line that is too long: it is written,
\* not stored, so a Backspace there takes a stored character off the screen only.
KeyRead(ch) ==
  /\ editing
  /\ \/ /\ ch = Newline \/ Len(line) > LINE_LIMIT
        /\ editing' = FALSE
        /\ write_screen(ch)
        /\ start' = 0
        /\ UNCHANGED line
     \/ /\ ch = Backspace /\ Len(line) <= LINE_LIMIT
        /\ IF line = <<>> THEN UNCHANGED <<cell, cursor, line, start, old>>
           ELSE line' = Front(line) /\ write_screen(ch) /\ Follow
        /\ UNCHANGED editing
     \/ /\ ch \in Char /\ Len(line) <= LINE_LIMIT
        /\ line' = Append(line, ch)
        /\ write_screen(ch)
        /\ Follow
        /\ UNCHANGED editing

ScreenNext ==
  \/ ProgramWrites
  \/ ProgramClears
  \/ StartLine
  \/ \E ch \in Char \cup {Newline, Backspace} : KeyRead(ch)

ScreenSpec == ScreenInit /\ [][ScreenNext]_screenVars

(***************************************************************************)
(* Properties.                                                             *)
(***************************************************************************)

\* The cursor is on the screen, or at the start of the line below it.
CursorOnScreen ==
  /\ column \in 0 .. COLS - 1
  /\ row \in 0 .. ROWS
  /\ row = ROWS => column = 0

\* While a line is edited, the user sees behind the prompt what read_cmd() has
\* stored: through wrapping, scrolling and erasing back over the end of a line,
\* the cells from the start of the line to the cursor hold its buffer.  (The key
\* that ends the line is outside this: see KeyRead.)
EchoMatchesLine ==
  editing =>
    /\ column + row * COLS = start + Len(line)
    /\ start >= 0
    /\ \A k \in 1 .. Len(line) : cell[start + k - 1] = line[k]

\* There is no old text from the cursor on: write_screen() writes and erases up
\* to the cursor only, and scrolling blanks the line it adds.  The exception is
\* what clear_screen() has left in the last line, until that line scrolls.
CleanAhead ==
  \A i \in Cell :
    i >= column + row * COLS =>
      cell[i] = Blank \/ (i >= (ROWS - 1) * COLS /\ cell[i] = old[i])
=============================================================================
