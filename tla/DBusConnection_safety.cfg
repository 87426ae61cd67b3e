CONSTANTS
  c1 = c1
  c2 = c2
  c3 = c3
  Conns <- MCConns
  Kind <- MCKind
  OOM <- MCOOMAll
  MaxSetups = 2
  MaxRetries = 2
  MaxMsgs = 1
SPECIFICATION Spec
INVARIANT TypeOK
INVARIANT RefsBalanced
INVARIANT DisconnectReleasesAll
INVARIANT LoopBinding
\* The main loop blocks in select() once every connection is idle or freed.
CHECK_DEADLOCK FALSE
