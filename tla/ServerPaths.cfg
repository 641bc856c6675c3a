\* Two clients that want one address, on two endpoints and two interfaces; data packets,
\* timeouts of a second, restarts.  The model values of each set are interchangeable.
SPECIFICATION Spec
CONSTANTS
  Client = {c1, c2}
  NoClient = NoClient
  ServerVIP = 1
  MaxHosts = 0
  Foreign = {2}
  Asked = {2}
  Addr = {a1, a2}
  NoAddr = NoAddr
  NIC = {n1, n2}
  NoNIC = NoNIC
  NoExt = NoExt
  Seq = {1}
  TunDst = {1, 2}
  Deleter = {}
  ClientTimeout = 1
  AddrTimeout = 1
  Retention = 0
  FaultyDisk = FALSE
  Reload = FALSE
  Crashes = TRUE
INVARIANTS SessionFreshAsAddresses OneAddressPerNic
PROPERTIES AddressKept SentToHolder
SYMMETRY Symmetric
