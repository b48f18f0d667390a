\* Shells three deep, lines of one or two keys, a ring of three cells that
\* wraps and fills.
CONSTANTS
  NUM_PROC = 4
  MAX_PID = 3
  TICK_MOD = 1
  SLEEP_TICKS = {}
  WAIT_PIDS = {}
  Char = {nl, bs, a}
  NoChar = NoChar
  BUFFER_SIZE = 3
  Newline = nl
  Backspace = bs
  LINE_LIMIT = 1
SPECIFICATION SFairSpec
INVARIANTS
  KTypeOK
  SleeperSeesEmpty
  OneForeground
  EveryWaitHasItsChild
PROPERTIES
  ImplementsFifo
  KeyDelivered
  PromptReturns
