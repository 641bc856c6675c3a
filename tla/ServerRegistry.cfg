\* Two clients, one free host and one foreign address: registration, kicks, cleanup, restarts.
SPECIFICATION Spec
CONSTANTS
  Client = {c1, c2}
  NoClient = NoClient
  ServerVIP = 1
  MaxHosts = 3
  Foreign = {9}
  Asked = {0, 1, 2, 9}
  Addr = {a1}
  NoAddr = NoAddr
  NIC = {}
  NoNIC = NoNIC
  NoExt = NoExt
  Seq = {}
  TunDst = {}
  Deleter = {d1}
  ClientTimeout = 0
  AddrTimeout = 0
  Retention = 1
  FaultyDisk = FALSE
  Reload = TRUE
  Crashes = TRUE
INVARIANTS TypeOK SoleHolder ServerKeepsItsAddress RouteExclusive NoStaleRoute ReservationsDurable
PROPERTIES LeaseSpec
