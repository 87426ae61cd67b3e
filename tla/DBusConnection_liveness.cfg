CONSTANTS
  c1 = c1
  c2 = c2
  c3 = c3
  Conns <- MCConns
  Kind <- MCKind
  OOM <- MCOOMWhole
  MaxSetups = 2
  MaxRetries = 2
  MaxMsgs = 1
SPECIFICATION Spec
\* The main loop blocks in select() once every connection is idle or freed.
PROPERTY HungUpReleased
PROPERTY Refinement
CHECK_DEADLOCK FALSE
