\* Two clients, one free host, kicks and cleanup; no restart.  Ages of 0: every tick times out.
SPECIFICATION FairSpec
CONSTANTS
  Client = {c1, c2}
  NoClient = NoClient
  ServerVIP = 1
  MaxHosts = 3
  Foreign = {}
  Asked = {0}
  Addr = {a1}
  NoAddr = NoAddr
  NIC = {}
  NoNIC = NoNIC
  NoExt = NoExt
  Seq = {}
  TunDst = {}
  Deleter = {d1}
  ClientTimeout = 0
  AddrTimeout = 0
  Retention = 0
  FaultyDisk = FALSE
  Reload = FALSE
  Crashes = FALSE
PROPERTIES SilentClientLeaves StaleRouteGoes OrphanExpires
