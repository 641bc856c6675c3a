\* One interface that goes, comes, moves or is missed once, one recycle, acks,
\* failing sockets, and Stop at any time.  A panic or Stop ends the program.  A tick
\* is longer than every timeout.
SPECIFICATION Spec
CONSTANTS
  Iface = {i1}
  NoIface = NoIface
  LAddr = {a1, a2}
  OtherFamily = OtherFamily
  NoLAddr = NoLAddr
  PathStale = 0
  MinInterval = 0
  Backoff = 0
  MaxAttempts = 1
  ChanSize = 1
  FaultySockets = TRUE
  ScansMayMiss = TRUE
  MaySendFail = FALSE
  MayStop = TRUE
  MaxSocket = 3
  MaxRecycles = 1
  MaxChanges = 1
INVARIANTS TypeOK EveryPathIsRead NoSocketLeaks
CHECK_DEADLOCK FALSE
SYMMETRY Symmetric
