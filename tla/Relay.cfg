\* One free host for the node and another client, which may also ask for it; no
\* kicks.  Ages of 0: every tick times out.  Either side may start again.
SPECIFICATION RelayFairSpec
CONSTANTS
  Client = {c1, c2}
  NoClient = NoClient
  ServerVIP = 1
  MaxHosts = 3
  Foreign = {}
  Asked = {0, 2}
  Addr = {a1}
  NoAddr = NoAddr
  NIC = {}
  NoNIC = NoNIC
  NoExt = NoExt
  Seq = {}
  TunDst = {}
  Deleter = {}
  ClientTimeout = 0
  AddrTimeout = 0
  Retention = 0
  FaultyDisk = FALSE
  Reload = FALSE
  Crashes = TRUE
  Node = c1
INVARIANTS RelayTypeOK AsksForItsOwn
PROPERTIES AgreesInTheEnd ComesBack
