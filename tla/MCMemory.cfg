\* No ticks and no keys: only fork, exit and wait touch the memory.
CONSTANTS
  NUM_PROC = 4
  MAX_PID = 6
  TICK_MOD = 1
  SLEEP_TICKS = {}
  WAIT_PIDS = {2, 3, 4}
  Page <- MCPage
  PAGE_SIZE = 2
  kernel_end = 5
  MEMORY_LIMIT = 64
  E820Maps <- MCMaps
SPECIFICATION CSpec
INVARIANTS
  PagesPartitioned
  MemoryAssertsHold
  ForkFailsOnlyWhenFull
  FailedForkLosesNothing
  FailedAllocGivesBack
  ReturnsToOwnRegisters
  StacksTellFrames
  RunsInOwnSpace
