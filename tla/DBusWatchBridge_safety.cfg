CONSTANTS
  wRead = wRead
  wWrite = wWrite
  tReply = tReply
  Watches <- MCWatches
  WatchFlags <- MCWatchFlags
  Timeouts <- MCTimeouts
  Intervals <- MCIntervals
  TicksPerSec = 2
  AddMayFail = TRUE
SPECIFICATION Spec
INVARIANT BridgeMirrorsLibrary
PROPERTY DispatchOnlyEnabled
INVARIANT TimerTracksInterval
PROPERTY EnabledTimeoutsFire
