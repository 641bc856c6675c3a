\* A registration between the scan of a cleanup and its mark; the retention is over at once.
SPECIFICATION Spec
CONSTANTS
  Client = {c1, c2}
  NoClient = NoClient
  ServerVIP = 1
  MaxHosts = 3
  Foreign = {9}
  Asked = {0, 1, 2, 9}
  Addr = {a1}
  NoAddr = NoAddr
  NIC = {}
  NoNIC = NoNIC
  NoExt = NoExt
  Seq = {}
  TunDst = {}
  Deleter = {}
  ClientTimeout = 0
  AddrTimeout = 0
  Retention = 0
  FaultyDisk = FALSE
  Reload = FALSE
  Crashes = TRUE
PROPERTIES ReconnectedKeepsMapping
