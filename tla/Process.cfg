\* Four slots: the idle process, init and two children.
CONSTANTS
  NUM_PROC = 4
  MAX_PID = 4
  TICK_MOD = 6
  SLEEP_TICKS = {1, 2}
  WAIT_PIDS = {1, 2, 3}
SPECIFICATION FairSpec
INVARIANTS
  TypeOK
  ListsMatchStates
  OnlyForkAsserts
  NoLostWakeup
  SleepOverrun
PROPERTIES
  ReadyRuns
  SleepEnds
  ImplementsLifecycle
