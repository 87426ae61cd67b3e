CONSTANTS
  ObjPath = objPath
  Tables <- MCTables
  ChildLists <- MCChildLists
  OOM = TRUE
SPECIFICATION Spec
INVARIANT ReplyDescribesObject
INVARIANT ReleasedOnce
\* One Introspect call: once it has returned there is nothing left to do.
CHECK_DEADLOCK FALSE
