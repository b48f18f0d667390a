\* A read of nothing at the end of a file that fills its last cluster.
CONSTANTS
  NAME_LENGTH = 2
  EXT_LENGTH = 1
  NULL = NULL
  RootDirectories <- MCRoots
  Path <- MCPath
  Cluster = {2, 3, 4}
  CLUSTER_SIZE = 3
SPECIFICATION Spec
INVARIANT
  SeekStaysInChain
