\* Two addresses, acked in any order and as often as one likes; creation of the
\* device may fail, the process may stop, end and start again.  Both platforms.
SPECIFICATION FairSpec
CONSTANTS
  Address = {2, 3}
  TunMayFail = TRUE
  MayStop = TRUE
  MayRestart = TRUE
INVARIANTS TypeOK DeviceIsServed ReadyOnce
PROPERTIES RunReturns
