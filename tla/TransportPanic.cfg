\* An interface that goes away while its path is recycled.
SPECIFICATION Spec
CONSTANTS
  Iface = {i1}
  NoIface = NoIface
  LAddr = {a1, a2}
  OtherFamily = OtherFamily
  NoLAddr = NoLAddr
  PathStale = 1
  MinInterval = 1
  Backoff = 1
  MaxAttempts = 1
  ChanSize = 0
  FaultySockets = FALSE
  ScansMayMiss = FALSE
  MaySendFail = TRUE
  MayStop = FALSE
  MaxSocket = 3
  MaxRecycles = 1
  MaxChanges = 1
INVARIANT NeverPanics
CHECK_DEADLOCK FALSE
