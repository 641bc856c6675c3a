\* Without acks (the receive channel is full: every ack is dropped), with Stop
\* at any time.  A panic or Stop ends the program.
SPECIFICATION FairSpec
CONSTANTS
  Iface = {i1}
  NoIface = NoIface
  LAddr = {a1, a2}
  OtherFamily = OtherFamily
  NoLAddr = NoLAddr
  PathStale = 0
  MinInterval = 0
  Backoff = 0
  MaxAttempts = 1
  ChanSize = 0
  FaultySockets = FALSE
  ScansMayMiss = FALSE
  MaySendFail = FALSE
  MayStop = TRUE
  MaxSocket = 3
  MaxRecycles = 1
  MaxChanges = 1
PROPERTIES ReadersOfRemovedPathsEnd FollowsInterfaces StopEnds
CHECK_DEADLOCK FALSE
