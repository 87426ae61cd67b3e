CONSTANTS
  c1 = c1
  o1 = o1
  o2 = o2
  p1 = p1
  p2 = p2
  noObject = noObject
  Conns <- MCConns
  Kind <- MCKind
  ObjConn = c1
  OOM <- MCOOMWhole
  MaxSetups = 2
  MaxRetries = 1
  MaxMsgs = 1
  Objects <- MCObjects
  Paths <- MCPaths
  NoObject = noObject
  ObjOOM = TRUE
  ReleaseAfterDisconnect = FALSE
SPECIFICATION Spec
PROPERTY HeldObjectsFreedOnlyOnDisconnect
PROPERTY HungUpObjectsUnregistered
\* The main loop blocks in select() once the connection is idle or freed.
CHECK_DEADLOCK FALSE
