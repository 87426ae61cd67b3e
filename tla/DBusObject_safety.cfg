CONSTANTS
  o1 = o1
  o2 = o2
  o3 = o3
  p1 = p1
  p2 = p2
  p3 = p3
  NoObject = NoObject
  Objects <- MCObjects
  Paths <- MCPaths
  OOM = TRUE
  ReleaseAfterDisconnect = FALSE
SPECIFICATION Spec
INVARIANT NoDoubleFree
INVARIANT TreeMatchesRegistered
\* Once the connection is finalized and every object released nothing is left
\* to do: the program stops using the binding.
CHECK_DEADLOCK FALSE
