------------------------------- MODULE Server -------------------------------
(***************************************************************************)
(* The relay server (server/server.go) and the one web handler that writes *)
(* its tables (deleteClient, server/web.go).                               *)
(*                                                                         *)
(* Four kinds of goroutine share the tables, each behind a lock of its own:*)
(*   recv      reads the UDP socket: heartbeats and data packets           *)
(*   tun       reads the TUN device                                        *)
(*   cl        cleanupLoop, once a second                                  *)
(*   del[d]    HTTP handlers that run deleteClient ("kick")                *)
(* A step is what a goroutine does between two points where others can     *)
(* interfere: one critical section of sessionsLock, routeLock or           *)
(* ipPoolLock.  Only the registration of a new client holds sessionsLock   *)
(* over several of them; SessionsUnlocked says when nobody does.           *)
(*                                                                         *)
(* Ages count seconds (cleanup's ticker) and stop one past their timeout.  *)
(* Heartbeats with a bad team key or the reserved client ID, and malformed *)
(* packets, change no table and have no action.                            *)
(***************************************************************************)
EXTENDS Integers, FiniteSets

CONSTANTS
  Client,         \* client IDs other than the reserved 0
  NoClient,       \* no client
  ServerVIP,      \* serverVirtualIP
  MaxHosts,       \* allocateIP's maxHosts: 2^hostBits - 1 (0: no subnet configured)
  Foreign,        \* addresses outside the subnet that a client may ask for
  Asked,          \* what heartbeats carry in VirtualIP
  Addr,           \* UDP endpoints that packets come from
  NoAddr,         \* no endpoint
  NIC,            \* interface names in the heartbeat extension
  NoNIC,          \* the empty name, or an address not named yet
  NoExt,          \* no extension in the heartbeat
  Seq,            \* data sequence numbers, fewer than the dedup window
  TunDst,         \* destinations of data packets
  Deleter,        \* concurrent HTTP requests that delete a client
  ClientTimeout,  \* seconds
  AddrTimeout,    \* seconds
  Retention,      \* ipPoolRetention, in seconds
  FaultyDisk,     \* whether os.WriteFile may fail (saveIPPool only logs it)
  Reload,         \* whether the server starts with the pool file of an earlier run
  Crashes         \* whether it may stop and start again

ZeroIP == 0                       \* net.IPv4zero
Subnet == 1 .. (MaxHosts - 1)     \* the offsets that allocateIP tries
VIP    == Subnet \cup Foreign \cup {ServerVIP}
VIP0   == VIP \cup {ZeroIP}
Absent == -1                      \* the age of an entry its map does not have
Ext    == NIC \cup {NoNIC, NoExt}  \* what a heartbeat says of its interface

ASSUME NullsAreNotValues ==
  NoClient \notin Client /\ NoAddr \notin Addr /\ NoNIC \notin NIC /\ NoExt \notin NIC \cup {NoNIC}
ASSUME AddressesAreNonZero == MaxHosts \in Nat /\ ServerVIP \in Nat \ {0} /\ Foreign \subseteq Nat \ {0}
ASSUME InputsAreAddresses == Asked \subseteq VIP0 /\ TunDst \subseteq VIP
ASSUME TimeoutsAreNatural == ClientTimeout \in Nat /\ AddrTimeout \in Nat /\ Retention \in Nat
ASSUME FlagsAreBoolean == FaultyDisk \in BOOLEAN /\ Reload \in BOOLEAN /\ Crashes \in BOOLEAN

VARIABLES
  sessions,      \* clients that have a Session
  vip,           \* vip[c]: the session's VirtualIP (ZeroIP: none, or no session)
  lastSeen,      \* lastSeen[c]: age of the session's LastSeen
  addrSeen,      \* addrSeen[c][a]: age of Addrs[a].LastSeen, or Absent
  addrNic,       \* addrNic[c][a]: Addrs[a].NICName
  routeTable,    \* routeTable[v]: the client that v is routed to, or NoClient
  ipPool,        \* ipPool[c]: the address reserved for c, or ZeroIP
  ipPoolExpiry,  \* ipPoolExpiry[c]: age of the expiry mark, or Absent
  poolFile,      \* what ipPoolFile holds (all ZeroIP when missing or unreadable)
  seen,          \* seen[c]: sequence numbers the deduplicator remembers
  recv,          \* the goroutine that handles packets
  tun,           \* tunReadLoop
  cl,            \* cleanupLoop
  del            \* the deleteClient calls

tables == <<sessions, vip, lastSeen, addrSeen, addrNic>>
pool   == <<ipPool, ipPoolExpiry, poolFile>>
vars   == <<tables, routeTable, pool, seen, recv, tun, cl, del>>

NoPool   == [c \in Client |-> ZeroIP]
NoAges   == [a \in Addr |-> Absent]
NoNames  == [a \in Addr |-> NoNIC]
RecvIdle == [pc |-> "idle", client |-> NoClient, vip |-> ZeroIP, from |-> NoAddr, nic |-> NoNIC]
TunIdle  == [pc |-> "idle", client |-> NoClient, vip |-> ZeroIP]
NoPair   == [client |-> NoClient, vip |-> ZeroIP]
ClWait   == [pc |-> "wait", todo |-> {}, cur |-> NoPair]
DelIdle  == [pc |-> "idle", client |-> NoClient, vip |-> ZeroIP]

Pair == [client : Client, vip : VIP0]   \* sessRm, what cleanup remembers of a session

\* What each goroutine carries from one step to the next.
Registering == [pc : {"alloc", "insert", "persist"}, client : Client, vip : VIP0,
                from : Addr, nic : Ext]
Routing     == [pc : {"route"}, client : {NoClient}, vip : VIP, from : {NoAddr}, nic : {NoNIC}]
Sending     == [pc : {"send"}, client : Client, vip : VIP, from : {NoAddr}, nic : {NoNIC}]
RecvState   == {RecvIdle} \cup Registering \cup Routing \cup Sending

TunState == {TunIdle} \cup [pc : {"send"}, client : Client, vip : VIP]

ClState ==
  [pc : {"wait", "scan", "retire"}, todo : {{}}, cur : {NoPair}]
    \cup [pc : {"route"}, todo : SUBSET Pair, cur : {NoPair}]
    \cup [pc : {"dedup", "mark"}, todo : SUBSET Pair, cur : Pair]

Deleting == [pc : {"route", "dedup", "pool"}, client : Client, vip : VIP0]
DelState == {DelIdle} \cup Deleting

TypeOK ==
  /\ sessions \subseteq Client
  /\ vip \in [Client -> VIP0]
  /\ lastSeen \in [Client -> 0 .. (ClientTimeout + 1)]
  /\ addrSeen \in [Client -> [Addr -> Absent .. (AddrTimeout + 1)]]
  /\ addrNic \in [Client -> [Addr -> NIC \cup {NoNIC}]]
  /\ routeTable \in [VIP -> Client \cup {NoClient}]
  /\ ipPool \in [Client -> VIP0]
  /\ ipPoolExpiry \in [Client -> Absent .. (Retention + 1)]
  /\ poolFile \in [Client -> VIP0]
  /\ seen \in [Client -> SUBSET Seq]
  /\ recv \in RecvState
  /\ tun \in TunState
  /\ cl \in ClState
  /\ del \in [Deleter -> DelState]

\* What an earlier run with the same configuration may have saved.
SavedPools ==
  {p \in [Client -> VIP0 \ {ServerVIP}] :
     \A c, d \in Client : p[c] # ZeroIP /\ p[c] = p[d] => c = d}

\* New: empty tables, and the pool that loadIPPool reads.
Init ==
  /\ sessions = {}
  /\ vip = NoPool
  /\ lastSeen = [c \in Client |-> 0]
  /\ addrSeen = [c \in Client |-> NoAges]
  /\ addrNic = [c \in Client |-> NoNames]
  /\ routeTable = [v \in VIP |-> NoClient]
  /\ poolFile \in {NoPool} \cup (IF Reload THEN SavedPools ELSE {})
  /\ ipPool = poolFile
  /\ ipPoolExpiry = [c \in Client |-> Absent]
  /\ seen = [c \in Client |-> {}]
  /\ recv = RecvIdle
  /\ tun = TunIdle
  /\ cl = ClWait
  /\ del = [d \in Deleter |-> DelIdle]

-----------------------------------------------------------------------------
(* Locks, ages and the pool file *)

\* handleHeartbeat keeps sessionsLock while it registers a client.
SessionsUnlocked == recv.pc \notin {"alloc", "insert", "persist"}

Older(age, timeout) == IF age <= timeout THEN age + 1 ELSE age

\* saveIPPool writes p; a failed write leaves the old file or a truncated one.
Save(p) == poolFile' \in {p} \cup (IF FaultyDisk THEN {poolFile, NoPool} ELSE {})

\* The session of c, its addresses with it, is taken out of the map.
DropSessions(S) ==
  /\ sessions' = sessions \ S
  /\ vip' = [c \in Client |-> IF c \in S THEN ZeroIP ELSE vip[c]]
  /\ lastSeen' = [c \in Client |-> IF c \in S THEN 0 ELSE lastSeen[c]]

\* Mutant: the route is left in the table.
RouteLeftBehind(v) == UNCHANGED routeTable

RemoveRoute(v) ==
  routeTable' = [w \in VIP |-> IF w = v THEN NoClient ELSE routeTable[w]]

ForgetSeqs(c) == seen' = [seen EXCEPT ![c] = {}]

\* Mutant: a new port of an interface does not replace the old one.
TouchAddrKeepingStale(c, a, n) ==
  /\ addrSeen' = [addrSeen EXCEPT ![c][a] = 0]
  /\ addrNic' = [addrNic EXCEPT ![c][a] = IF n = NoExt THEN @ ELSE n]

\* Mutant: every other address is taken for a stale one.
TouchAddrDroppingAll(c, a, n) ==
  /\ addrSeen' = [addrSeen EXCEPT ![c] = [NoAges EXCEPT ![a] = 0]]
  /\ addrNic' = [addrNic EXCEPT ![c] = [NoNames EXCEPT ![a] = IF n = NoExt THEN addrNic[c][a] ELSE n]]

\* The tail of handleHeartbeat: refresh the address, then let it replace the
\* addresses that carried the same interface name (the port changed).  An
\* extension with an empty name replaces nothing and takes the address's name.
TouchAddr(c, a, n) ==
  LET stale == {b \in Addr \ {a} : n \in NIC /\ addrNic[c][b] = n}
  IN  /\ addrSeen' = [addrSeen EXCEPT ![c] =
           [b \in Addr |-> IF b = a THEN 0 ELSE IF b \in stale THEN Absent ELSE @[b]]]
      /\ addrNic' = [addrNic EXCEPT ![c] =
           [b \in Addr |-> IF b = a THEN (IF n = NoExt THEN @[b] ELSE n)
                           ELSE IF b \in stale THEN NoNIC ELSE @[b]]]

-----------------------------------------------------------------------------
(* The packet goroutine: heartbeats *)

\* Mutant: LastSeen is not refreshed.
HeartbeatWithoutRefresh(c, a, n) ==
  /\ recv.pc = "idle"
  /\ c \in sessions
  /\ TouchAddr(c, a, n)
  /\ UNCHANGED <<sessions, vip, lastSeen, routeTable, pool, seen, recv, tun, cl, del>>

\* A heartbeat of a client that has a session.
KnownHeartbeat(c, a, n) ==
  /\ recv.pc = "idle"
  /\ c \in sessions
  /\ lastSeen' = [lastSeen EXCEPT ![c] = 0]
  /\ TouchAddr(c, a, n)
  /\ UNCHANGED <<sessions, vip, routeTable, pool, seen, recv, tun, cl, del>>

\* Mutants of the validation, each without one of its three checks.
ConflictWithoutServer(c, v) ==
  (\E d \in sessions : vip[d] = v) \/ (\E d \in Client \ {c} : ipPool[d] = v)

ConflictWithoutSessions(c, v) == v = ServerVIP \/ \E d \in Client \ {c} : ipPool[d] = v

ConflictWithoutPool(c, v) == v = ServerVIP \/ \E d \in sessions : vip[d] = v

\* The address a new client asks for is the server's, in a session or reserved
\* for somebody else.
Conflict(c, v) ==
  \/ v = ServerVIP
  \/ \E d \in sessions : vip[d] = v
  \/ \E d \in Client \ {c} : ipPool[d] = v

\* Mutant: a client that asks for a taken address is turned away.
NewHeartbeatUnlessConflict(c, v, a, n) ==
  /\ recv.pc = "idle"
  /\ c \notin sessions
  /\ ~Conflict(c, v)
  /\ recv' = [pc |-> IF v = ZeroIP THEN "alloc" ELSE "insert", client |-> c,
              vip |-> v, from |-> a, nic |-> n]
  /\ UNCHANGED <<tables, routeTable, pool, seen, tun, cl, del>>

\* A heartbeat of a client without one: lock the sessions and validate what it
\* asks for; ZeroIP and a conflict lead to the allocation.
NewHeartbeat(c, v, a, n) ==
  /\ recv.pc = "idle"
  /\ c \notin sessions
  /\ LET refused == v = ZeroIP \/ Conflict(c, v)
     IN  recv' = [pc |-> IF refused THEN "alloc" ELSE "insert", client |-> c,
                  vip |-> IF refused THEN ZeroIP ELSE v, from |-> a, nic |-> n]
  /\ UNCHANGED <<tables, routeTable, pool, seen, tun, cl, del>>

\* Mutants of the scan: it reaches the broadcast address, or forgets that a session
\* may have an address that is not in the pool.
FreeHostsWithBroadcast ==
  {v \in (1 .. MaxHosts) \ {ServerVIP} :
     (\A d \in Client : ipPool[d] # v) /\ (\A d \in sessions : vip[d] # v)}

FreeHostsIgnoringSessions == {v \in Subnet \ {ServerVIP} : \A d \in Client : ipPool[d] # v}

\* The hosts that neither the server, the pool nor a session uses.
FreeHosts ==
  {v \in Subnet \ {ServerVIP} :
     /\ \A d \in Client : ipPool[d] # v
     /\ \A d \in sessions : vip[d] # v}

Allocated(v) == recv' = [recv EXCEPT !.pc = "insert", !.vip = v]

\* allocateIP, "existing allocation": cancel its expiry; the file is rewritten
\* when the heartbeat names the device.
ReuseAllocation ==
  /\ recv.pc = "alloc"
  /\ ipPool[recv.client] # ZeroIP
  /\ ipPoolExpiry' = [ipPoolExpiry EXCEPT ![recv.client] = Absent]
  /\ \/ Save(ipPool)
     \/ poolFile' = poolFile
  /\ Allocated(ipPool[recv.client])
  /\ UNCHANGED <<tables, routeTable, ipPool, seen, tun, cl, del>>

\* allocateIP, the scan of the subnet: the lowest free host.
AllocateNext ==
  /\ recv.pc = "alloc"
  /\ ipPool[recv.client] = ZeroIP
  /\ \E v \in FreeHosts :
       /\ \A w \in FreeHosts : v <= w
       /\ ipPool' = [ipPool EXCEPT ![recv.client] = v]
       /\ Save(ipPool')
       /\ Allocated(v)
  /\ UNCHANGED <<tables, routeTable, ipPoolExpiry, seen, tun, cl, del>>

\* allocateIP finds no host: the client gets a session without an address.
AllocationFails ==
  /\ recv.pc = "alloc"
  /\ ipPool[recv.client] = ZeroIP
  /\ FreeHosts = {}
  /\ Allocated(ZeroIP)
  /\ UNCHANGED <<tables, routeTable, pool, seen, tun, cl, del>>

\* Mutant: a route that is still there is kept.
InsertKeepingRoute ==
  /\ recv.pc = "insert"
  /\ sessions' = sessions \cup {recv.client}
  /\ vip' = [vip EXCEPT ![recv.client] = recv.vip]
  /\ lastSeen' = [lastSeen EXCEPT ![recv.client] = 0]
  /\ routeTable' = [v \in VIP |-> IF v = recv.vip /\ routeTable[v] = NoClient THEN recv.client ELSE routeTable[v]]
  /\ TouchAddr(recv.client, recv.from, recv.nic)
  /\ recv' = [recv EXCEPT !.pc = "persist"]
  /\ UNCHANGED <<pool, seen, tun, cl, del>>

\* The session enters the map and its address the route table.  The lock is held,
\* so the source address, added last in the code with the same now, is added here.
InsertSession ==
  /\ recv.pc = "insert"
  /\ sessions' = sessions \cup {recv.client}
  /\ vip' = [vip EXCEPT ![recv.client] = recv.vip]
  /\ lastSeen' = [lastSeen EXCEPT ![recv.client] = 0]
  /\ routeTable' = [v \in VIP |-> IF v = recv.vip THEN recv.client ELSE routeTable[v]]
  /\ TouchAddr(recv.client, recv.from, recv.nic)
  /\ recv' = [recv EXCEPT !.pc = "persist"]
  /\ UNCHANGED <<pool, seen, tun, cl, del>>

\* Cancel the expiry, persist the address unless the client has one in the pool,
\* unlock and acknowledge.
PersistSession ==
  /\ recv.pc = "persist"
  /\ LET c == recv.client
     IN  IF recv.vip = ZeroIP THEN UNCHANGED pool
         ELSE /\ ipPoolExpiry' = [ipPoolExpiry EXCEPT ![c] = Absent]
              /\ IF ipPool[c] # ZeroIP THEN UNCHANGED <<ipPool, poolFile>>
                 ELSE ipPool' = [ipPool EXCEPT ![c] = recv.vip] /\ Save(ipPool')
  /\ recv' = RecvIdle
  /\ UNCHANGED <<tables, routeTable, seen, tun, cl, del>>

-----------------------------------------------------------------------------
(* The packet goroutine: data *)

\* The number is recorded before the session and the inner source are looked at.
RejectData(c, q) ==
  /\ recv.pc = "idle"
  /\ q \notin seen[c]
  /\ seen' = [seen EXCEPT ![c] = @ \cup {q}]
  /\ UNCHANGED <<tables, routeTable, pool, recv, tun, cl, del>>

\* A first copy from a session's own virtual address refreshes the session and
\* the endpoint it came from, and goes to the TUN device or to the route table.
AcceptData(c, q, a, dst) ==
  /\ recv.pc = "idle"
  /\ q \notin seen[c]
  /\ c \in sessions
  /\ seen' = [seen EXCEPT ![c] = @ \cup {q}]
  /\ lastSeen' = [lastSeen EXCEPT ![c] = 0]
  /\ addrSeen' = [addrSeen EXCEPT ![c][a] = IF @ = Absent THEN Absent ELSE 0]
  /\ recv' = IF dst = ServerVIP THEN recv ELSE [RecvIdle EXCEPT !.pc = "route", !.vip = dst]
  /\ UNCHANGED <<sessions, vip, addrNic, routeTable, pool, tun, cl, del>>

\* Read the route table; a packet without a route is dropped.
RouteData ==
  /\ recv.pc = "route"
  /\ LET d == routeTable[recv.vip]
     IN  recv' = IF d = NoClient THEN RecvIdle
                 ELSE [recv EXCEPT !.pc = "send", !.client = d]
  /\ UNCHANGED <<tables, routeTable, pool, seen, tun, cl, del>>

\* sendToClient copies the addresses and writes to each; it changes no table.
SendData ==
  /\ recv.pc = "send"
  /\ recv' = RecvIdle
  /\ UNCHANGED <<tables, routeTable, pool, seen, tun, cl, del>>

-----------------------------------------------------------------------------
(* tunReadLoop *)

TunRead(dst) ==
  /\ tun.pc = "idle"
  /\ routeTable[dst] # NoClient
  /\ tun' = [pc |-> "send", client |-> routeTable[dst], vip |-> dst]
  /\ UNCHANGED <<tables, routeTable, pool, seen, recv, cl, del>>

TunSend ==
  /\ tun.pc = "send"
  /\ SessionsUnlocked
  /\ tun' = TunIdle
  /\ UNCHANGED <<tables, routeTable, pool, seen, recv, cl, del>>

-----------------------------------------------------------------------------
(* cleanupLoop *)

\* One second passes and the ticker fires; a cleanup ends before the next tick.
Tick ==
  /\ cl.pc = "wait"
  /\ cl' = [cl EXCEPT !.pc = "scan"]
  /\ lastSeen' = [c \in Client |-> IF c \in sessions THEN Older(lastSeen[c], ClientTimeout) ELSE 0]
  /\ addrSeen' = [c \in Client |-> [a \in Addr |->
       IF addrSeen[c][a] = Absent THEN Absent ELSE Older(addrSeen[c][a], AddrTimeout)]]
  /\ ipPoolExpiry' = [c \in Client |->
       IF ipPoolExpiry[c] = Absent THEN Absent ELSE Older(ipPoolExpiry[c], Retention)]
  /\ UNCHANGED <<sessions, vip, addrNic, routeTable, ipPool, poolFile, seen, recv, tun, del>>

\* Mutant: addresses do not expire.
AddrNeverExpires(c, a) == FALSE

AddrExpired(c, a) == addrSeen[c][a] > AddrTimeout

\* Under sessionsLock: drop old addresses, then the sessions left without one
\* and silent for longer than clientTimeout.
CleanupScan ==
  /\ cl.pc = "scan"
  /\ SessionsUnlocked
  /\ LET expSess == {c \in sessions :
                       /\ \A a \in Addr : addrSeen[c][a] = Absent \/ AddrExpired(c, a)
                       /\ lastSeen[c] > ClientTimeout}
         removed == {[client |-> c, vip |-> vip[c]] : c \in expSess}
     IN  /\ DropSessions(expSess)
         /\ addrSeen' = [c \in Client |-> [a \in Addr |->
              IF AddrExpired(c, a) THEN Absent ELSE addrSeen[c][a]]]
         /\ addrNic' = [c \in Client |-> [a \in Addr |->
              IF AddrExpired(c, a) THEN NoNIC ELSE addrNic[c][a]]]
         /\ cl' = [pc |-> IF removed = {} THEN "retire" ELSE "route",
                   todo |-> removed, cur |-> NoPair]
  /\ UNCHANGED <<routeTable, pool, seen, recv, tun, del>>

\* For each of them, lock by lock: its route, ...
CleanupRoute ==
  /\ cl.pc = "route"
  /\ \E p \in cl.todo :
       /\ RemoveRoute(p.vip)
       /\ cl' = [pc |-> "dedup", todo |-> cl.todo \ {p}, cur |-> p]
  /\ UNCHANGED <<tables, pool, seen, recv, tun, del>>

\* ... its dedup state ...
CleanupDedup ==
  /\ cl.pc = "dedup"
  /\ ForgetSeqs(cl.cur.client)
  /\ cl' = [cl EXCEPT !.pc = "mark"]
  /\ UNCHANGED <<tables, routeTable, pool, recv, tun, del>>

\* Mutant: no mark.
CleanupWithoutMark ==
  /\ cl.pc = "mark"
  /\ cl' = [cl EXCEPT !.pc = IF cl.todo = {} THEN "retire" ELSE "route", !.cur = NoPair]
  /\ UNCHANGED <<tables, routeTable, pool, seen, recv, tun, del>>

\* ... and the expiry mark of its pool entry.
CleanupMark ==
  /\ cl.pc = "mark"
  /\ LET c == cl.cur.client
     IN  ipPoolExpiry' = IF ipPool[c] = ZeroIP THEN ipPoolExpiry
                         ELSE [ipPoolExpiry EXCEPT ![c] = 0]
  /\ cl' = [cl EXCEPT !.pc = IF cl.todo = {} THEN "retire" ELSE "route", !.cur = NoPair]
  /\ UNCHANGED <<tables, routeTable, ipPool, poolFile, seen, recv, tun, del>>

Retired == {c \in Client : ipPoolExpiry[c] > Retention}

\* Reservations marked for longer than the retention period are given up.
CleanupRetire ==
  /\ cl.pc = "retire"
  /\ ipPool' = [c \in Client |-> IF c \in Retired THEN ZeroIP ELSE ipPool[c]]
  /\ ipPoolExpiry' = [c \in Client |-> IF c \in Retired THEN Absent ELSE ipPoolExpiry[c]]
  /\ IF Retired = {} THEN poolFile' = poolFile ELSE Save(ipPool')
  /\ cl' = ClWait
  /\ UNCHANGED <<tables, routeTable, seen, recv, tun, del>>

-----------------------------------------------------------------------------
(* deleteClient, called by the web interface *)

DeleteSession(d, c) ==
  /\ del[d].pc = "idle"
  /\ SessionsUnlocked
  /\ c \in sessions
  /\ DropSessions({c})
  /\ addrSeen' = [addrSeen EXCEPT ![c] = NoAges]
  /\ addrNic' = [addrNic EXCEPT ![c] = NoNames]
  /\ del' = [del EXCEPT ![d] = [pc |-> "route", client |-> c, vip |-> vip[c]]]
  /\ UNCHANGED <<routeTable, pool, seen, recv, tun, cl>>

DeleteRoute(d) ==
  /\ del[d].pc = "route"
  /\ RemoveRoute(del[d].vip)
  /\ del' = [del EXCEPT ![d].pc = "dedup"]
  /\ UNCHANGED <<tables, pool, seen, recv, tun, cl>>

DeleteDedup(d) ==
  /\ del[d].pc = "dedup"
  /\ ForgetSeqs(del[d].client)
  /\ del' = [del EXCEPT ![d].pc = "pool"]
  /\ UNCHANGED <<tables, routeTable, pool, recv, tun, cl>>

\* Mutant: the file keeps the reservation.
DeletePoolUnsaved(d) ==
  /\ del[d].pc = "pool"
  /\ ipPool' = [ipPool EXCEPT ![del[d].client] = ZeroIP]
  /\ del' = [del EXCEPT ![d] = DelIdle]
  /\ UNCHANGED <<tables, routeTable, ipPoolExpiry, poolFile, seen, recv, tun, cl>>

\* The reservation goes at once; an expiry mark stays behind.
DeletePool(d) ==
  /\ del[d].pc = "pool"
  /\ ipPool' = [ipPool EXCEPT ![del[d].client] = ZeroIP]
  /\ Save(ipPool')
  /\ del' = [del EXCEPT ![d] = DelIdle]
  /\ UNCHANGED <<tables, routeTable, ipPoolExpiry, seen, recv, tun, cl>>

-----------------------------------------------------------------------------
(* Restart *)

\* Somebody is about to call os.WriteFile, which truncates the file first.
SavePending ==
  \/ recv.pc = "alloc" /\ (ipPool[recv.client] # ZeroIP \/ FreeHosts # {})
  \/ recv.pc = "persist" /\ recv.vip # ZeroIP /\ ipPool[recv.client] = ZeroIP
  \/ cl.pc = "retire" /\ Retired # {}
  \/ \E d \in Deleter : del[d].pc = "pool"

\* The process ends and New runs again: memory is lost, loadIPPool reads the
\* file.  A crash in the middle of a save leaves a file that does not parse.
Restart ==
  /\ Crashes
  /\ poolFile' \in {poolFile} \cup (IF SavePending THEN {NoPool} ELSE {})
  /\ ipPool' = poolFile'
  /\ sessions' = {}
  /\ vip' = NoPool
  /\ lastSeen' = [c \in Client |-> 0]
  /\ addrSeen' = [c \in Client |-> NoAges]
  /\ addrNic' = [c \in Client |-> NoNames]
  /\ routeTable' = [v \in VIP |-> NoClient]
  /\ ipPoolExpiry' = [c \in Client |-> Absent]
  /\ seen' = [c \in Client |-> {}]
  /\ recv' = RecvIdle
  /\ tun' = TunIdle
  /\ cl' = ClWait
  /\ del' = [d \in Deleter |-> DelIdle]

-----------------------------------------------------------------------------
(* The goroutines, and the specification *)

\* The rest of handleHeartbeat and handleData, once a packet is taken.
RecvStep ==
  \/ ReuseAllocation \/ AllocateNext \/ AllocationFails
  \/ InsertSession \/ PersistSession
  \/ RouteData \/ SendData

RecvPacket ==
  \/ \E c \in Client, a \in Addr, n \in Ext :
       \/ KnownHeartbeat(c, a, n)
       \/ \E v \in Asked : NewHeartbeat(c, v, a, n)
  \/ \E c \in Client, q \in Seq :
       \/ RejectData(c, q)
       \/ \E a \in Addr, dst \in TunDst : AcceptData(c, q, a, dst)

Tun == TunSend \/ \E dst \in TunDst : TunRead(dst)

CleanupStep == CleanupRoute \/ CleanupDedup \/ CleanupMark \/ CleanupRetire

DeleteStep(d) == DeleteRoute(d) \/ DeleteDedup(d) \/ DeletePool(d)

Next ==
  \/ RecvPacket
  \/ RecvStep
  \/ Tun
  \/ Tick
  \/ CleanupScan
  \/ CleanupStep
  \/ \E d \in Deleter : DeleteStep(d) \/ \E c \in Client : DeleteSession(d, c)
  \/ Restart

Spec == Init /\ [][Next]_vars

\* A handler or a cleanup that has begun ends, and the ticker ticks.  The scan
\* needs sessionsLock, which packets take again and again: a sync.RWMutex hands
\* itself to a waiting writer, hence strong fairness.  Nothing says that a
\* packet, a kick or a restart ever comes.
Fairness ==
  /\ WF_vars(RecvStep)
  /\ WF_vars(Tick)
  /\ SF_vars(CleanupScan)
  /\ WF_vars(CleanupStep)
  /\ \A d \in Deleter : WF_vars(DeleteStep(d))

FairSpec == Spec /\ Fairness

-----------------------------------------------------------------------------
(* Who holds an address *)

\* recv carries, under sessionsLock, an address it is about to hand out.
Granting(c, v) == recv.pc \in {"insert", "persist"} /\ recv.client = c /\ recv.vip = v

\* v belongs to c through its session, its reservation or its registration.
Holds(c, v) == vip[c] = v \/ ipPool[c] = v \/ Granting(c, v)

\* A goroutine that removed a session still has to remove the route of v.
RemovalPending(v) ==
  \/ \E p \in cl.todo : p.vip = v
  \/ \E d \in Deleter : del[d].pc = "route" /\ del[d].vip = v

-----------------------------------------------------------------------------
(* Safety *)

\* No address belongs to two clients, in memory or in the file a restart reads.
\* The check of what a client asks for, the allocation and the insertion are
\* separate critical sections of the pool's lock: a kick, an expiry or a restart
\* can fall between any two of them (handleHeartbeat, allocateIP).
SoleHolder ==
  /\ \A v \in VIP, c, d \in Client : Holds(c, v) /\ Holds(d, v) => c = d
  /\ \A v \in VIP, c, d \in Client : poolFile[c] = v /\ poolFile[d] = v => c = d

\* The server's own address is nobody's, however a client came to its address:
\* asked for, allocated, reserved earlier or reloaded from the file.
ServerKeepsItsAddress ==
  \A c \in Client : ~Holds(c, ServerVIP) /\ poolFile[c] # ServerVIP

\* The route of a session's address never leads to another client, although
\* cleanup and deleteClient change routes after they gave up sessionsLock.
RouteExclusive ==
  \A c \in sessions : vip[c] # ZeroIP => routeTable[vip[c]] \in {c, NoClient}

\* A route whose client no longer has the address is one that cleanup or
\* deleteClient is still about to remove: none is left behind for good.
NoStaleRoute ==
  \A v \in VIP : LET c == routeTable[v]
                 IN  c # NoClient => vip[c] = v \/ RemovalPending(v)

\* While writes succeed, the file has every reservation the memory has and no
\* other, so that a restart between two steps of any goroutine loses nothing
\* (every change of ipPool is followed by saveIPPool under the same lock).
ReservationsDurable == ~FaultyDisk => poolFile = ipPool

\* An address is never fresher than its session: whatever refreshes an endpoint
\* (heartbeat, data) refreshes the session, so cleanup cannot drop a session
\* whose client is still being heard on one of its addresses.
SessionFreshAsAddresses ==
  \A c \in Client, a \in Addr :
    addrSeen[c][a] # Absent =>
      /\ c \in sessions
      /\ lastSeen[c] <= addrSeen[c][a] \/ addrSeen[c][a] > AddrTimeout

\* At most one endpoint of a client carries the name of an interface: the one
\* that sent last.  Data goes to each endpoint, so a second one would double it.
OneAddressPerNic ==
  \A c \in Client, a, b \in Addr :
    addrNic[c][a] # NoNIC /\ addrNic[c][a] = addrNic[c][b] => a = b

\* An endpoint leaves a session that stays only after addrTimeout, or when the
\* interface that it was named after just sent from another endpoint.
AddressKept ==
  [][\A c \in Client, a \in Addr :
       addrSeen[c][a] # Absent /\ addrSeen'[c][a] = Absent /\ c \in sessions' =>
         \/ addrSeen[c][a] > AddrTimeout
         \/ \E b \in Addr \ {a} :
              /\ addrNic[c][a] # NoNIC
              /\ addrSeen'[c][b] = 0
              /\ addrNic'[c][b] = addrNic[c][a]]_vars

\* The packet that g is about to send goes to a client although the session of
\* another one has its destination.
Misdirected(g) == g.pc = "send" /\ \E c \in sessions \ {g.client} : vip[c] = g.vip

\* A packet from one client to another never goes to somebody else than the
\* client that has its destination, although route and session are looked up
\* under two locks and kicks, cleanup and registrations change both (handleData,
\* sendToClient).  It is the one reader of the UDP socket that makes it so: a
\* packet from the TUN device does get a wrong receiver, but only if the
\* registration of a new holder falls between its two lookups.
SentToHolder ==
  [][/\ ~Misdirected(recv)'
     /\ Misdirected(tun)' => tun.pc = "send" /\ (Misdirected(tun) \/ recv.pc = "insert")]_vars

-----------------------------------------------------------------------------
(* The abstract lease service *)

owner ==
  [v \in VIP \ {ServerVIP} |->
     IF \E c \in Client : Holds(c, v) THEN CHOOSE c \in Client : Holds(c, v) ELSE NoClient]

Lease == INSTANCE AddressLease WITH Address <- VIP \ {ServerVIP}

\* While writes succeed, the tables, the locks and the file implement the lease
\* service: an address changes hands only after it was given up.
LeaseSpec == Lease!Spec

-----------------------------------------------------------------------------
(* Liveness *)

\* A client that falls silent loses its session: kicks, other registrations and
\* a cleanup delayed by them do not keep it.
SilentClientLeaves ==
  \A c \in Client : c \in sessions ~> c \notin sessions \/ lastSeen[c] = 0

\* A route whose client has left goes away or gets a new holder.
StaleRouteGoes ==
  \A v \in VIP :
    routeTable[v] # NoClient /\ vip[routeTable[v]] # v
      ~> routeTable[v] = NoClient \/ vip[routeTable[v]] = v

\* A reservation whose client has no session ends, or the client comes back
\* (the comment on ipPoolExpiry: "orphaned pool entries awaiting cleanup").
OrphanExpires ==
  \A c \in Client : ipPool[c] # ZeroIP /\ c \notin sessions
                      ~> ipPool[c] = ZeroIP \/ c \in sessions

-----------------------------------------------------------------------------
(* What the code's comments say and the code does not do *)

\* "Also remove from IP pool so the device can re-register" (web.go:393): a
\* device that did re-register, and whose registration is complete, is reachable.
RegisteredIsReachable ==
  SessionsUnlocked =>
    \A c \in sessions : vip[c] # ZeroIP => routeTable[vip[c]] = c

\* "... so brief disconnects don't lose the IP mapping" (server.go:796): the
\* expiry takes no reservation of a client that has a session.
ReconnectedKeepsMapping ==
  [][CleanupRetire => \A c \in sessions : ipPool'[c] = ipPool[c]]_vars
=============================================================================
