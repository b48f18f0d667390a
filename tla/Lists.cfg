\* Three processes, two events: a removal can hit the first, the middle and the
\* last node of a chain, with nodes of the other event before and after it.
CONSTANTS
  Node = {p1, p2, p3}
  Event = {e1, e2}
  NULL = NULL
SPECIFICATION Spec
INVARIANT WellFormed
PROPERTY ImplementsQueues
