\* A process uses a descriptor that it has not opened.
CONSTANTS
  NUM_PROC = 3
  MAX_PID = 3
  TICK_MOD = 1
  SLEEP_TICKS = {}
  WAIT_PIDS = {1, 2}
  Fd = {0, 1}
  Desc = {0, 1, 2}
  kernel = kernel
  shell = shell
  File = {kernel, shell}
  FileSize <- MCFileSize
  CLUSTER_SIZE = 2
  READ_SIZES = {0, 2}
  NULL = NULL
SPECIFICATION FSpec
INVARIANT
  InvalidFdIsAnError
