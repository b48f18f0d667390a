\* Three clusters of three bytes: a read can end and begin before, on and after
\* a cluster boundary, and cross one and two of them.
CONSTANTS
  NAME_LENGTH = 2
  EXT_LENGTH = 1
  NULL = NULL
  RootDirectories <- MCRoots
  Path <- MCPath
  Cluster = {2, 3, 4}
  CLUSTER_SIZE = 3
SPECIFICATION Spec
INVARIANTS
  LookupIsExact
  RightBytes
  SeekFailsOnlyAtEnd
