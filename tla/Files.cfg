\* Reads reach the end of a file, on a cluster boundary, and stop short of one.
CONSTANTS
  NUM_PROC = 3
  MAX_PID = 3
  TICK_MOD = 1
  SLEEP_TICKS = {}
  WAIT_PIDS = {1, 2}
  Fd = {0, 1}
  Desc = {0, 1, 2}
  kernel = kernel
  shell = shell
  File = {kernel, shell}
  FileSize <- MCFileSize
  CLUSTER_SIZE = 2
  READ_SIZES = {0, 2}
  NULL = NULL
SPECIFICATION FSpec
INVARIANTS
  CountsMatch
PROPERTY OpenFileStays
