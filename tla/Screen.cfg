\* A line of up to four keys wraps once or twice and scrolls the screen twice.
CONSTANTS
  COLS = 2
  ROWS = 4
  Char = {"x", "y"}
  LINE_LIMIT = 3
SPECIFICATION ScreenSpec
INVARIANTS
  CursorOnScreen
  EchoMatchesLine
  CleanAhead
