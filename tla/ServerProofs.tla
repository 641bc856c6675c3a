---------------------------- MODULE ServerProofs ----------------------------
(***************************************************************************)
(* Proofs about the server, for any clients, addresses, timeouts, numbers  *)
(* of concurrent kicks, disk and crash behaviour.                          *)
(***************************************************************************)
EXTENDS Server, TLAPS

-----------------------------------------------------------------------------
(* Types *)

\* What saveIPPool leaves in the file is a pool again.
LEMMA SaveType ==
  ASSUME NEW p \in [Client -> VIP0], poolFile \in [Client -> VIP0], Save(p)
  PROVE  poolFile' \in [Client -> VIP0]
  BY DEF Save, NoPool, VIP0

\* Ages stay within their bounds.
LEMMA OlderType ==
  ASSUME NEW t \in Nat, NEW age \in 0 .. (t + 1)
  PROVE  Older(age, t) \in 0 .. (t + 1)
  BY DEF Older

LEMMA AgeBounds ==
  ASSUME NEW t \in Nat
  PROVE  Absent \in Absent .. (t + 1) /\ 0 \in Absent .. (t + 1)
  BY DEF Absent

\* The program counter tells what recv and a kick carry.
LEMMA RecvKind ==
  ASSUME recv \in RecvState
  PROVE  /\ recv.pc \in {"alloc", "insert", "persist"} => recv \in Registering
         /\ recv.pc = "route" => recv \in Routing
         /\ recv.pc = "send" => recv \in Sending
<1>1. recv = RecvIdle => recv.pc = "idle"
  BY DEF RecvIdle
<1>2. recv \in Registering => recv.pc \in {"alloc", "insert", "persist"}
  BY DEF Registering
<1>3. recv \in Routing => recv.pc = "route"
  BY DEF Routing
<1>4. recv \in Sending => recv.pc = "send"
  BY DEF Sending
<1>. QED
  BY <1>1, <1>2, <1>3, <1>4 DEF RecvState

LEMMA DelKind ==
  ASSUME NEW k \in DelState, k.pc # "idle"
  PROVE  k \in Deleting
  BY DEF DelState, DelIdle

\* A step of the registration changes where it is and the address it carries.
LEMMA RegisteringStep ==
  ASSUME recv \in Registering, NEW v \in VIP0,
         \/ recv' = [recv EXCEPT !.pc = "insert", !.vip = v]
         \/ recv' = [recv EXCEPT !.pc = "persist"]
  PROVE  recv' \in Registering
  BY DEF Registering

LEMMA TouchAddrType ==
  ASSUME TypeOK, NEW c \in Client, NEW a \in Addr, NEW n \in Ext, TouchAddr(c, a, n)
  PROVE  /\ addrSeen' \in [Client -> [Addr -> Absent .. (AddrTimeout + 1)]]
         /\ addrNic' \in [Client -> [Addr -> NIC \cup {NoNIC}]]
  BY TimeoutsAreNatural DEF TypeOK, TouchAddr, Absent, Ext

LEMMA DropSessionsType ==
  ASSUME TypeOK, NEW S \in SUBSET Client, DropSessions(S)
  PROVE  /\ sessions' \subseteq Client
         /\ vip' \in [Client -> VIP0]
         /\ lastSeen' \in [Client -> 0 .. (ClientTimeout + 1)]
  BY TimeoutsAreNatural DEF TypeOK, DropSessions, VIP0

LEMMA InitType == Init => TypeOK
<1> SUFFICES ASSUME Init PROVE TypeOK
  OBVIOUS
<1> USE DEF Init, NoPool, VIP0
<1>1. poolFile \in [Client -> VIP0]
  BY DEF SavedPools
<1>2. /\ sessions \subseteq Client
      /\ vip \in [Client -> VIP0]
      /\ ipPool \in [Client -> VIP0]
      /\ routeTable \in [VIP -> Client \cup {NoClient}]
      /\ seen \in [Client -> SUBSET Seq]
  BY <1>1
<1>3. /\ lastSeen \in [Client -> 0 .. (ClientTimeout + 1)]
      /\ ipPoolExpiry \in [Client -> Absent .. (Retention + 1)]
      /\ addrSeen \in [Client -> [Addr -> Absent .. (AddrTimeout + 1)]]
      /\ addrNic \in [Client -> [Addr -> NIC \cup {NoNIC}]]
  BY TimeoutsAreNatural DEF Absent, NoAges, NoNames
<1>4. recv \in RecvState /\ tun \in TunState
  BY DEF RecvState, TunState
<1>5. cl \in ClState /\ del \in [Deleter -> DelState]
  BY DEF ClState, ClWait, DelState
<1>. QED
  BY <1>1, <1>2, <1>3, <1>4, <1>5 DEF TypeOK

LEMMA StepType == TypeOK /\ [Next]_vars => TypeOK'
<1> SUFFICES ASSUME TypeOK, [Next]_vars PROVE TypeOK'
  OBVIOUS
<1> USE DEF tables, pool
<1>1. ASSUME NEW c \in Client, NEW a \in Addr, NEW n \in Ext,
             KnownHeartbeat(c, a, n)
      PROVE  TypeOK'
  <2>1. /\ addrSeen' \in [Client -> [Addr -> Absent .. (AddrTimeout + 1)]]
        /\ addrNic' \in [Client -> [Addr -> NIC \cup {NoNIC}]]
    BY <1>1, TouchAddrType DEF KnownHeartbeat
  <2>2. lastSeen' \in [Client -> 0 .. (ClientTimeout + 1)]
    BY <1>1, TimeoutsAreNatural DEF KnownHeartbeat, TypeOK
  <2>. QED
    BY <1>1, <2>1, <2>2 DEF KnownHeartbeat, TypeOK
<1>2. ASSUME NEW c \in Client, NEW v \in Asked, NEW a \in Addr, NEW n \in Ext,
             NewHeartbeat(c, v, a, n)
      PROVE  TypeOK'
  <2>1. v \in VIP0 /\ ZeroIP \in VIP0
    BY InputsAreAddresses DEF VIP0
  <2>2. recv' \in RecvState
    BY <1>2, <2>1 DEF NewHeartbeat, RecvState, Registering
  <2>. QED
    BY <1>2, <2>2 DEF NewHeartbeat, TypeOK
<1>3. ASSUME ReuseAllocation PROVE TypeOK'
  <2> recv \in Registering
    BY <1>3, RecvKind DEF ReuseAllocation, TypeOK
  <2>1. recv.client \in Client /\ ipPool[recv.client] \in VIP0
    BY DEF TypeOK, Registering
  <2>2. poolFile' \in [Client -> VIP0]
    BY <1>3, SaveType DEF ReuseAllocation, TypeOK
  <2>3. ipPoolExpiry' \in [Client -> Absent .. (Retention + 1)]
    BY <1>3, AgeBounds, TimeoutsAreNatural DEF ReuseAllocation, TypeOK
  <2>4. recv' \in RecvState
    BY <1>3, <2>1, RegisteringStep DEF ReuseAllocation, Allocated, RecvState
  <2>. QED
    BY <1>3, <2>2, <2>3, <2>4 DEF ReuseAllocation, TypeOK
<1>4. ASSUME AllocateNext PROVE TypeOK'
  <2> PICK v \in FreeHosts : /\ ipPool' = [ipPool EXCEPT ![recv.client] = v]
                             /\ Save(ipPool')
                             /\ Allocated(v)
    BY <1>4 DEF AllocateNext
  <2>1. v \in VIP0
    BY DEF FreeHosts, VIP0, VIP
  <2>2. ipPool' \in [Client -> VIP0]
    BY <2>1 DEF TypeOK
  <2>3. poolFile' \in [Client -> VIP0]
    BY <2>2, SaveType DEF TypeOK
  <2>4. recv' \in RecvState
    BY <1>4, <2>1, RecvKind, RegisteringStep DEF AllocateNext, Allocated, TypeOK, RecvState
  <2>. QED
    BY <1>4, <2>2, <2>3, <2>4 DEF AllocateNext, TypeOK
<1>5. ASSUME AllocationFails PROVE TypeOK'
  <2>1. recv' \in RecvState
    BY <1>5, RecvKind, RegisteringStep DEF AllocationFails, Allocated, TypeOK, RecvState, VIP0
  <2>. QED
    BY <1>5, <2>1 DEF AllocationFails, TypeOK
<1>6. ASSUME InsertSession PROVE TypeOK'
  <2>1. /\ recv \in Registering
        /\ recv.client \in Client /\ recv.vip \in VIP0
        /\ recv.from \in Addr /\ recv.nic \in Ext
    BY <1>6, RecvKind DEF InsertSession, TypeOK, Registering
  <2>2. /\ addrSeen' \in [Client -> [Addr -> Absent .. (AddrTimeout + 1)]]
        /\ addrNic' \in [Client -> [Addr -> NIC \cup {NoNIC}]]
    BY <1>6, <2>1, TouchAddrType DEF InsertSession
  <2>3. /\ sessions' \subseteq Client
        /\ vip' \in [Client -> VIP0]
        /\ lastSeen' \in [Client -> 0 .. (ClientTimeout + 1)]
        /\ routeTable' \in [VIP -> Client \cup {NoClient}]
    BY <1>6, <2>1, TimeoutsAreNatural DEF InsertSession, TypeOK
  <2>4. recv' \in RecvState
    BY <1>6, <2>1, RegisteringStep DEF InsertSession, RecvState
  <2>. QED
    BY <1>6, <2>2, <2>3, <2>4 DEF InsertSession, TypeOK
<1>7. ASSUME PersistSession PROVE TypeOK'
  <2>1. recv.client \in Client /\ recv.vip \in VIP0
    BY <1>7, RecvKind DEF PersistSession, TypeOK, Registering
  <2>2. /\ ipPool' \in [Client -> VIP0]
        /\ ipPoolExpiry' \in [Client -> Absent .. (Retention + 1)]
        /\ poolFile' = poolFile \/ Save(ipPool')
    <3>1. CASE recv.vip = ZeroIP
      BY <1>7, <3>1 DEF PersistSession, TypeOK
    <3>2. CASE recv.vip # ZeroIP
      <4>1. ipPoolExpiry' = [ipPoolExpiry EXCEPT ![recv.client] = Absent]
        BY <1>7, <3>2 DEF PersistSession
      <4>2. ipPoolExpiry' \in [Client -> Absent .. (Retention + 1)]
        BY <4>1, AgeBounds, TimeoutsAreNatural DEF TypeOK
      <4>3. \/ UNCHANGED <<ipPool, poolFile>>
            \/ ipPool' = [ipPool EXCEPT ![recv.client] = recv.vip] /\ Save(ipPool')
        BY <1>7, <3>2 DEF PersistSession
      <4>. QED
        BY <2>1, <4>2, <4>3 DEF TypeOK
    <3>. QED
      BY <3>1, <3>2
  <2>3. poolFile' \in [Client -> VIP0]
    BY <2>2, SaveType DEF TypeOK
  <2>4. recv' \in RecvState
    BY <1>7 DEF PersistSession, RecvState
  <2>. QED
    BY <1>7, <2>2, <2>3, <2>4 DEF PersistSession, TypeOK
<1>8. ASSUME NEW c \in Client, NEW q \in Seq, RejectData(c, q) PROVE TypeOK'
  BY <1>8 DEF RejectData, TypeOK
<1>9. ASSUME NEW c \in Client, NEW q \in Seq, NEW a \in Addr, NEW dst \in TunDst,
             AcceptData(c, q, a, dst)
      PROVE  TypeOK'
  <2>1. dst \in VIP
    BY InputsAreAddresses
  <2>2. recv' \in RecvState
    BY <1>9, <2>1 DEF AcceptData, TypeOK, RecvState, RecvIdle, Routing
  <2>3. /\ seen' \in [Client -> SUBSET Seq]
        /\ lastSeen' \in [Client -> 0 .. (ClientTimeout + 1)]
    BY <1>9, TimeoutsAreNatural DEF AcceptData, TypeOK
  <2>4. addrSeen' \in [Client -> [Addr -> Absent .. (AddrTimeout + 1)]]
    BY <1>9, TimeoutsAreNatural DEF AcceptData, TypeOK, Absent
  <2>. QED
    BY <1>9, <2>2, <2>3, <2>4 DEF AcceptData, TypeOK
<1>10. ASSUME RouteData PROVE TypeOK'
  <2>1. recv \in Routing /\ routeTable[recv.vip] \in Client \cup {NoClient}
    <3>1. recv \in Routing
      BY <1>10, RecvKind DEF RouteData, TypeOK
    <3>. QED
      BY <3>1 DEF Routing, TypeOK
  <2>2. recv' \in RecvState
    BY <1>10, <2>1 DEF RouteData, Routing, Sending, RecvState
  <2>. QED
    BY <1>10, <2>2 DEF RouteData, TypeOK
<1>11. ASSUME SendData PROVE TypeOK'
  BY <1>11 DEF SendData, TypeOK, RecvState
<1>12. ASSUME Tun PROVE TypeOK'
  <2>1. tun' \in TunState
    BY <1>12, InputsAreAddresses, NullsAreNotValues
    DEF Tun, TunRead, TunSend, TypeOK, TunState, TunIdle, VIP0
  <2>. QED
    BY <1>12, <2>1 DEF Tun, TunRead, TunSend, TypeOK
<1>13. ASSUME Tick PROVE TypeOK'
  <2>1. lastSeen' \in [Client -> 0 .. (ClientTimeout + 1)]
    BY <1>13, OlderType, TimeoutsAreNatural DEF Tick, TypeOK
  <2>2. addrSeen' \in [Client -> [Addr -> Absent .. (AddrTimeout + 1)]]
    BY <1>13, TimeoutsAreNatural DEF Tick, TypeOK, Absent, Older
  <2>3. ipPoolExpiry' \in [Client -> Absent .. (Retention + 1)]
    BY <1>13, TimeoutsAreNatural DEF Tick, TypeOK, Absent, Older
  <2>4. cl' \in ClState
    BY <1>13 DEF Tick, TypeOK, ClState
  <2>. QED
    BY <1>13, <2>1, <2>2, <2>3, <2>4 DEF Tick, TypeOK
<1>14. ASSUME CleanupScan PROVE TypeOK'
  <2> DEFINE expSess == {c \in sessions :
                           /\ \A a \in Addr : addrSeen[c][a] = Absent \/ AddrExpired(c, a)
                           /\ lastSeen[c] > ClientTimeout}
             removed == {[client |-> c, vip |-> vip[c]] : c \in expSess}
  <2>1. /\ sessions' \subseteq Client
        /\ vip' \in [Client -> VIP0]
        /\ lastSeen' \in [Client -> 0 .. (ClientTimeout + 1)]
    <3>1. expSess \in SUBSET Client
      BY DEF TypeOK
    <3>2. DropSessions(expSess)
      BY <1>14 DEF CleanupScan
    <3>. QED
      BY <3>1, <3>2, DropSessionsType
  <2>2. addrSeen' \in [Client -> [Addr -> Absent .. (AddrTimeout + 1)]]
    BY <1>14, TimeoutsAreNatural DEF CleanupScan, TypeOK, Absent
  <2>3. addrNic' \in [Client -> [Addr -> NIC \cup {NoNIC}]]
    BY <1>14 DEF CleanupScan, TypeOK
  <2>4. cl' \in ClState
    <3>1. removed \in SUBSET Pair
      BY DEF TypeOK, Pair
    <3>2. cl' = [pc |-> IF removed = {} THEN "retire" ELSE "route",
                 todo |-> removed, cur |-> NoPair]
      BY <1>14 DEF CleanupScan
    <3>. HIDE DEF removed
    <3>. QED
      BY <3>1, <3>2 DEF ClState
  <2>. QED
    BY <1>14, <2>1, <2>2, <2>3, <2>4 DEF CleanupScan, TypeOK
<1>15. ASSUME CleanupRoute PROVE TypeOK'
  <2>1. cl' \in ClState
    BY <1>15 DEF CleanupRoute, TypeOK, ClState
  <2>2. routeTable' \in [VIP -> Client \cup {NoClient}]
    BY <1>15 DEF CleanupRoute, RemoveRoute, TypeOK
  <2>. QED
    BY <1>15, <2>1, <2>2 DEF CleanupRoute, TypeOK
<1>16. ASSUME CleanupDedup PROVE TypeOK'
  <2>1. cl' \in ClState
    BY <1>16 DEF CleanupDedup, TypeOK, ClState
  <2>. QED
    BY <1>16, <2>1 DEF CleanupDedup, ForgetSeqs, TypeOK
<1>17. ASSUME CleanupMark PROVE TypeOK'
  <2>1. cl' \in ClState
    BY <1>17 DEF CleanupMark, TypeOK, ClState
  <2>2. ipPoolExpiry' \in [Client -> Absent .. (Retention + 1)]
    BY <1>17, AgeBounds, TimeoutsAreNatural DEF CleanupMark, TypeOK
  <2>. QED
    BY <1>17, <2>1, <2>2 DEF CleanupMark, TypeOK
<1>18. ASSUME CleanupRetire PROVE TypeOK'
  <2>1. cl' \in ClState
    BY <1>18 DEF CleanupRetire, ClWait, ClState
  <2>2. /\ ipPool' \in [Client -> VIP0]
        /\ ipPoolExpiry' \in [Client -> Absent .. (Retention + 1)]
    BY <1>18, TimeoutsAreNatural DEF CleanupRetire, TypeOK, VIP0, Absent
  <2>3. poolFile' \in [Client -> VIP0]
    BY <1>18, <2>2, SaveType DEF CleanupRetire, TypeOK
  <2>. QED
    BY <1>18, <2>1, <2>2, <2>3 DEF CleanupRetire, TypeOK
<1>19. ASSUME NEW d \in Deleter, NEW c \in Client, DeleteSession(d, c) PROVE TypeOK'
  <2>1. /\ sessions' \subseteq Client
        /\ vip' \in [Client -> VIP0]
        /\ lastSeen' \in [Client -> 0 .. (ClientTimeout + 1)]
    BY <1>19, DropSessionsType DEF DeleteSession
  <2>2. /\ addrSeen' \in [Client -> [Addr -> Absent .. (AddrTimeout + 1)]]
        /\ addrNic' \in [Client -> [Addr -> NIC \cup {NoNIC}]]
    BY <1>19, TimeoutsAreNatural DEF DeleteSession, TypeOK, NoAges, NoNames, Absent
  <2>3. del' \in [Deleter -> DelState]
    BY <1>19 DEF DeleteSession, TypeOK, DelState, Deleting
  <2>. QED
    BY <1>19, <2>1, <2>2, <2>3 DEF DeleteSession, TypeOK
<1>20. ASSUME NEW d \in Deleter, DeleteRoute(d) PROVE TypeOK'
  <2>1. del' \in [Deleter -> DelState]
    <3>1. del[d] \in Deleting
      BY <1>20, DelKind DEF DeleteRoute, TypeOK
    <3>. QED
      BY <1>20, <3>1 DEF DeleteRoute, TypeOK, DelState, Deleting
  <2>2. routeTable' \in [VIP -> Client \cup {NoClient}]
    BY <1>20 DEF DeleteRoute, RemoveRoute, TypeOK
  <2>. QED
    BY <1>20, <2>1, <2>2 DEF DeleteRoute, TypeOK
<1>21. ASSUME NEW d \in Deleter, DeleteDedup(d) PROVE TypeOK'
  <2>1. del' \in [Deleter -> DelState]
    <3>1. del[d] \in Deleting
      BY <1>21, DelKind DEF DeleteDedup, TypeOK
    <3>. QED
      BY <1>21, <3>1 DEF DeleteDedup, TypeOK, DelState, Deleting
  <2>. QED
    BY <1>21, <2>1 DEF DeleteDedup, ForgetSeqs, TypeOK
<1>22. ASSUME NEW d \in Deleter, DeletePool(d) PROVE TypeOK'
  <2>1. del' \in [Deleter -> DelState]
    BY <1>22 DEF DeletePool, TypeOK, DelState
  <2>2. ipPool' \in [Client -> VIP0]
    BY <1>22 DEF DeletePool, TypeOK, VIP0
  <2>3. poolFile' \in [Client -> VIP0]
    BY <1>22, <2>2, SaveType DEF DeletePool, TypeOK
  <2>. QED
    BY <1>22, <2>1, <2>2, <2>3 DEF DeletePool, TypeOK
<1>23. ASSUME Restart PROVE TypeOK'
  <2>1. poolFile' \in [Client -> VIP0] /\ ipPool' = poolFile'
    BY <1>23 DEF Restart, TypeOK, NoPool, VIP0
  <2>2. /\ sessions' \subseteq Client
        /\ vip' \in [Client -> VIP0]
        /\ routeTable' \in [VIP -> Client \cup {NoClient}]
        /\ seen' \in [Client -> SUBSET Seq]
    BY <1>23 DEF Restart, NoPool, VIP0
  <2>3. /\ lastSeen' \in [Client -> 0 .. (ClientTimeout + 1)]
        /\ ipPoolExpiry' \in [Client -> Absent .. (Retention + 1)]
        /\ addrSeen' \in [Client -> [Addr -> Absent .. (AddrTimeout + 1)]]
        /\ addrNic' \in [Client -> [Addr -> NIC \cup {NoNIC}]]
    BY <1>23, TimeoutsAreNatural DEF Restart, Absent, NoAges, NoNames
  <2>4. /\ recv' \in RecvState /\ tun' \in TunState
        /\ cl' \in ClState /\ del' \in [Deleter -> DelState]
    BY <1>23 DEF Restart, RecvState, TunState, ClState, ClWait, DelState
  <2>. QED
    BY <2>1, <2>2, <2>3, <2>4 DEF TypeOK
<1>24. CASE UNCHANGED vars
  BY <1>24 DEF vars, TypeOK
<1>. QED
  BY <1>1, <1>2, <1>3, <1>4, <1>5, <1>6, <1>7, <1>8, <1>9, <1>10, <1>11, <1>12, <1>13,
     <1>14, <1>15, <1>16, <1>17, <1>18, <1>19, <1>20, <1>21, <1>22, <1>23, <1>24
  DEF Next, RecvPacket, RecvStep, CleanupStep, DeleteStep

\* Every table keeps its type, every age its bound, and every goroutine carries
\* what its next step needs.
THEOREM TypeCorrect == Spec => []TypeOK
  BY InitType, StepType, PTL DEF Spec

-----------------------------------------------------------------------------
(* Addresses have one holder *)

\* A client without a session has no address in it, and recv registers clients
\* that have none.
NoSession ==
  /\ \A c \in Client \ sessions : vip[c] = ZeroIP
  /\ recv.pc \in {"alloc", "insert"} => recv.client \notin sessions

LEMMA VIPNonZero == ASSUME NEW v \in VIP PROVE v # ZeroIP
  BY AddressesAreNonZero DEF VIP, Subnet, ZeroIP

LEMMA InitNoSession == Init => NoSession
  BY DEF Init, NoSession, NoPool, RecvIdle

LEMMA DropSessionsNoSession ==
  ASSUME TypeOK, NoSession, NEW S \in SUBSET Client, DropSessions(S),
         SessionsUnlocked, recv' = recv
  PROVE  NoSession'
  BY DEF TypeOK, NoSession, DropSessions, SessionsUnlocked

LEMMA StepNoSession == TypeOK /\ NoSession /\ [Next]_vars => NoSession'
<1> SUFFICES ASSUME TypeOK, NoSession, [Next]_vars PROVE NoSession'
  OBVIOUS
<1> USE DEF tables
<1>1. CASE RecvPacket
  <2>1. UNCHANGED <<sessions, vip>>
    BY <1>1 DEF RecvPacket, KnownHeartbeat, NewHeartbeat, RejectData, AcceptData
  <2>2. recv'.pc \in {"alloc", "insert"} => recv'.client \notin sessions
    <3>1. CASE recv' = recv
      BY <3>1 DEF NoSession
    <3>2. CASE \E c \in Client, v \in Asked, a \in Addr, n \in Ext : NewHeartbeat(c, v, a, n)
      BY <3>2 DEF NewHeartbeat
    <3>3. CASE \E dst \in TunDst : recv' = [RecvIdle EXCEPT !.pc = "route", !.vip = dst]
      BY <3>3 DEF RecvIdle
    <3>. QED
      BY <1>1, <3>1, <3>2, <3>3 DEF RecvPacket, KnownHeartbeat, RejectData, AcceptData
  <2>. QED
    BY <2>1, <2>2 DEF NoSession
<1>2. CASE ReuseAllocation \/ AllocateNext \/ AllocationFails
  <2>1. /\ UNCHANGED <<sessions, vip>>
        /\ recv.pc = "alloc"
        /\ \E v \in VIP0 : recv' = [recv EXCEPT !.pc = "insert", !.vip = v]
    <3>1. recv.pc = "alloc" /\ recv.client \in Client
      BY <1>2, RecvKind DEF ReuseAllocation, AllocateNext, AllocationFails, TypeOK, Registering
    <3>2. FreeHosts \subseteq VIP0 /\ ZeroIP \in VIP0 /\ ipPool[recv.client] \in VIP0
      BY <3>1 DEF FreeHosts, VIP0, VIP, TypeOK
    <3>. QED
      BY <1>2, <3>1, <3>2 DEF ReuseAllocation, AllocateNext, AllocationFails, Allocated
  <2>2. recv'.client = recv.client
    BY <1>2, <2>1, RecvKind DEF TypeOK, Registering
  <2>. QED
    BY <2>1, <2>2 DEF NoSession
<1>3. CASE InsertSession
  <2>1. recv \in Registering
    BY <1>3, RecvKind DEF InsertSession, TypeOK
  <2>2. recv'.pc = "persist"
    BY <1>3, <2>1 DEF InsertSession, Registering
  <2>. QED
    BY <1>3, <2>2 DEF InsertSession, NoSession, TypeOK
<1>4. CASE PersistSession \/ RouteData \/ SendData
  <2>1. UNCHANGED <<sessions, vip>>
    BY <1>4 DEF PersistSession, RouteData, SendData
  <2>2. recv'.pc \notin {"alloc", "insert"}
    <3>1. CASE recv' = RecvIdle
      BY <3>1 DEF RecvIdle
    <3>2. CASE recv.pc = "route" /\ recv' = [recv EXCEPT !.pc = "send", !.client = routeTable[recv.vip]]
      BY <3>2, RecvKind DEF TypeOK, Routing
    <3>. QED
      BY <1>4, <3>1, <3>2 DEF PersistSession, RouteData, SendData
  <2>. QED
    BY <2>1, <2>2 DEF NoSession
<1>5. CASE Tun \/ Tick \/ CleanupStep \/ \E d \in Deleter : DeleteStep(d)
  BY <1>5 DEF Tun, TunRead, TunSend, Tick, CleanupStep, CleanupRoute, CleanupDedup, CleanupMark,
              CleanupRetire, DeleteStep, DeleteRoute, DeleteDedup, DeletePool, NoSession
<1>6. CASE CleanupScan
  <2> DEFINE expSess == {c \in sessions :
                           /\ \A a \in Addr : addrSeen[c][a] = Absent \/ AddrExpired(c, a)
                           /\ lastSeen[c] > ClientTimeout}
  <2>1. DropSessions(expSess) /\ SessionsUnlocked /\ recv' = recv
    BY <1>6 DEF CleanupScan
  <2>2. expSess \in SUBSET Client
    BY DEF TypeOK
  <2>. QED
    BY <2>1, <2>2, DropSessionsNoSession
<1>7. ASSUME NEW d \in Deleter, NEW c \in Client, DeleteSession(d, c) PROVE NoSession'
  BY <1>7, DropSessionsNoSession DEF DeleteSession
<1>8. CASE Restart
  BY <1>8 DEF Restart, NoSession, NoPool, RecvIdle
<1>9. CASE UNCHANGED vars
  BY <1>9 DEF vars, NoSession
<1>. QED
  BY <1>1, <1>2, <1>3, <1>4, <1>5, <1>6, <1>7, <1>8, <1>9 DEF Next, RecvStep

\* Nobody gains an address ...
NobodyGains == \A v \in VIP, c \in Client : Holds(c, v)' => Holds(c, v)

\* ... or one client gains one that nobody else holds.
Gains(c, v) ==
  /\ v # ServerVIP
  /\ \A d \in Client \ {c} : ~Holds(d, v)
  /\ \A w \in VIP, d \in Client : Holds(d, w)' <=> Holds(d, w) \/ (d = c /\ w = v)

LEMMA HoldsStep ==
  ASSUME TypeOK, NoSession, [Next]_vars, ~Restart
  PROVE  NobodyGains \/ \E c \in Client, v \in VIP : Gains(c, v)
<1> USE DEF tables, pool
<1>1. ASSUME NEW c \in Client, NEW v \in Asked, NEW a \in Addr, NEW n \in Ext,
             NewHeartbeat(c, v, a, n)
      PROVE  NobodyGains \/ \E d \in Client, w \in VIP : Gains(d, w)
  <2> DEFINE refused == v = ZeroIP \/ Conflict(c, v)
  <2>1. UNCHANGED <<sessions, vip, ipPool>> /\ recv.pc = "idle"
    BY <1>1 DEF NewHeartbeat
  <2>2. CASE refused
    <3>1. recv'.pc = "alloc"
      BY <1>1, <2>2 DEF NewHeartbeat
    <3>. QED
      BY <2>1, <3>1 DEF NobodyGains, Holds, Granting
  <2>3. CASE ~refused
    <3>1. v \in VIP
      BY <2>3, InputsAreAddresses DEF VIP0
    <3>2. recv'.client = c /\ recv'.vip = v
      BY <1>1, <2>3 DEF NewHeartbeat
    <3>3. \A d \in Client \ {c} : vip[d] # v /\ ipPool[d] # v
      BY <2>3, <3>1, VIPNonZero DEF Conflict, NoSession
    <3>4. recv'.pc = "insert"
      BY <1>1, <2>3 DEF NewHeartbeat
    <3>5. \A w \in VIP, d \in Client : Holds(d, w)' <=> Holds(d, w) \/ (d = c /\ w = v)
      BY <2>1, <3>2, <3>4 DEF Holds, Granting
    <3>6. v # ServerVIP /\ \A d \in Client \ {c} : ~Holds(d, v)
      BY <2>1, <2>3, <3>3 DEF Holds, Granting, Conflict
    <3>7. Gains(c, v)
      BY <3>5, <3>6 DEF Gains
    <3>. QED
      BY <3>1, <3>7
  <2>. QED
    BY <2>2, <2>3
<1>2. CASE ReuseAllocation
  <2>1. recv \in Registering
    BY <1>2, RecvKind DEF ReuseAllocation, TypeOK
  <2>2. recv'.client = recv.client /\ recv'.vip = ipPool[recv.client]
    BY <1>2, <2>1 DEF ReuseAllocation, Allocated, Registering
  <2>. QED
    BY <1>2, <2>2 DEF ReuseAllocation, NobodyGains, Holds, Granting
<1>3. CASE AllocateNext
  <2>1. recv \in Registering /\ recv.client \in Client
    BY <1>3, RecvKind DEF AllocateNext, TypeOK, Registering
  <2> PICK v \in FreeHosts : ipPool' = [ipPool EXCEPT ![recv.client] = v] /\ Allocated(v)
    BY <1>3 DEF AllocateNext
  <2>2. recv'.client = recv.client /\ recv'.vip = v
    BY <2>1 DEF Allocated, Registering
  <2>3. v \in VIP /\ v # ServerVIP
    BY DEF FreeHosts, VIP
  <2>4. \A d \in Client : vip[d] # v /\ ipPool[d] # v
    BY <2>3, VIPNonZero DEF FreeHosts, NoSession
  <2>5. \A w \in VIP, d \in Client :
          Holds(d, w)' <=> Holds(d, w) \/ (d = recv.client /\ w = v)
    <3> SUFFICES ASSUME NEW w \in VIP, NEW d \in Client
                 PROVE  Holds(d, w)' <=> Holds(d, w) \/ (d = recv.client /\ w = v)
      OBVIOUS
    <3>1. vip' = vip /\ recv.pc = "alloc" /\ ipPool[recv.client] = ZeroIP
      BY <1>3 DEF AllocateNext
    <3>2. recv'.pc = "insert"
      BY <2>1 DEF Allocated, Registering
    <3>3. ipPool'[d] = IF d = recv.client THEN v ELSE ipPool[d]
      BY DEF TypeOK
    <3>4. w # ZeroIP
      BY VIPNonZero
    <3>. QED
      BY <2>2, <3>1, <3>2, <3>3, <3>4 DEF Holds, Granting
  <2>6. \A d \in Client : ~Holds(d, v)
    BY <1>3, <2>4 DEF AllocateNext, Holds, Granting
  <2>7. Gains(recv.client, v)
    BY <2>3, <2>5, <2>6 DEF Gains
  <2>. QED
    BY <2>1, <2>3, <2>7
<1>4. CASE AllocationFails
  <2>1. recv \in Registering
    BY <1>4, RecvKind DEF AllocationFails, TypeOK
  <2>2. recv'.vip = ZeroIP
    BY <1>4, <2>1 DEF AllocationFails, Allocated, Registering
  <2>. QED
    BY <1>4, <2>2, VIPNonZero DEF AllocationFails, NobodyGains, Holds, Granting
<1>5. CASE InsertSession
  <2>1. recv \in Registering
    BY <1>5, RecvKind DEF InsertSession, TypeOK
  <2>2. recv'.client = recv.client /\ recv'.vip = recv.vip
    BY <1>5, <2>1 DEF InsertSession, Registering
  <2>. QED
    BY <1>5, <2>2 DEF InsertSession, NobodyGains, Holds, Granting, TypeOK
<1>6. CASE PersistSession
  <2>1. recv'.pc = "idle" /\ vip' = vip
    BY <1>6 DEF PersistSession, RecvIdle
  <2>2. ipPool' = ipPool \/ ipPool' = [ipPool EXCEPT ![recv.client] = recv.vip]
    BY <1>6 DEF PersistSession
  <2>. QED
    BY <1>6, <2>1, <2>2 DEF PersistSession, NobodyGains, Holds, Granting, TypeOK
<1>7. CASE RouteData \/ SendData
  <2>1. recv.pc \in {"route", "send"} /\ UNCHANGED <<vip, ipPool>>
    BY <1>7 DEF RouteData, SendData
  <2>2. recv'.pc \in {"idle", "send"}
    <3>1. CASE recv' = RecvIdle
      BY <3>1 DEF RecvIdle
    <3>2. CASE recv.pc = "route" /\ recv' = [recv EXCEPT !.pc = "send", !.client = routeTable[recv.vip]]
      BY <3>2, RecvKind DEF TypeOK, Routing
    <3>. QED
      BY <1>7, <3>1, <3>2 DEF RouteData, SendData
  <2>. QED
    BY <2>1, <2>2 DEF NobodyGains, Holds, Granting
<1>8. ASSUME NEW c \in Client, NEW a \in Addr,
             \/ \E n \in Ext : KnownHeartbeat(c, a, n)
             \/ \E q \in Seq, dst \in TunDst : AcceptData(c, q, a, dst)
      PROVE  NobodyGains
  <2>1. UNCHANGED <<vip, ipPool>> /\ recv.pc = "idle"
    BY <1>8 DEF KnownHeartbeat, AcceptData
  <2>2. recv'.pc \in {"idle", "route"}
    <3>1. CASE recv' = recv
      BY <2>1, <3>1
    <3>2. CASE \E dst \in TunDst : recv' = [RecvIdle EXCEPT !.pc = "route", !.vip = dst]
      BY <3>2 DEF RecvIdle
    <3>. QED
      BY <1>8, <3>1, <3>2 DEF KnownHeartbeat, AcceptData
  <2>. QED
    BY <2>1, <2>2 DEF NobodyGains, Holds, Granting
<1>9. ASSUME NEW c \in Client, NEW q \in Seq, RejectData(c, q) PROVE NobodyGains
  BY <1>9 DEF RejectData, NobodyGains, Holds, Granting
<1>10. CASE Tun \/ Tick \/ CleanupRoute \/ CleanupDedup \/ CleanupMark
  BY <1>10 DEF Tun, TunRead, TunSend, Tick, CleanupRoute, CleanupDedup, CleanupMark,
               NobodyGains, Holds, Granting
<1>11. CASE CleanupScan
  <2>1. PICK S : DropSessions(S) /\ UNCHANGED <<ipPool, recv>>
    BY <1>11 DEF CleanupScan
  <2>. QED
    BY <2>1, VIPNonZero DEF DropSessions, NobodyGains, Holds, Granting
<1>12. CASE CleanupRetire
  BY <1>12, VIPNonZero DEF CleanupRetire, NobodyGains, Holds, Granting
<1>13. ASSUME NEW d \in Deleter, NEW c \in Client, DeleteSession(d, c) PROVE NobodyGains
  BY <1>13, VIPNonZero DEF DeleteSession, DropSessions, NobodyGains, Holds, Granting
<1>14. ASSUME NEW d \in Deleter, DeleteStep(d) PROVE NobodyGains
  BY <1>14, VIPNonZero
  DEF DeleteStep, DeleteRoute, DeleteDedup, DeletePool, NobodyGains, Holds, Granting, TypeOK
<1>15. CASE UNCHANGED vars
  BY <1>15 DEF vars, NobodyGains, Holds, Granting
<1>. QED
  BY <1>1, <1>2, <1>3, <1>4, <1>5, <1>6, <1>7, <1>8, <1>9, <1>10, <1>11, <1>12, <1>13, <1>14, <1>15
  DEF Next, RecvPacket, RecvStep, CleanupStep

\* Whatever a step saves is the pool it leaves in memory; a failed write leaves
\* the old file or an empty one.
LEMMA FileStep ==
  ASSUME [Next]_vars
  PROVE  poolFile' \in {poolFile, ipPool', NoPool}
  BY DEF Next, RecvPacket, RecvStep, Tun, CleanupStep, DeleteStep, Save, vars, pool,
         KnownHeartbeat, NewHeartbeat, RejectData, AcceptData, ReuseAllocation, AllocateNext,
         AllocationFails, InsertSession, PersistSession, RouteData, SendData, TunRead, TunSend,
         Tick, CleanupScan, CleanupRoute, CleanupDedup, CleanupMark, CleanupRetire,
         DeleteSession, DeleteRoute, DeleteDedup, DeletePool, Restart

HoldInv == TypeOK /\ NoSession /\ SoleHolder /\ ServerKeepsItsAddress

LEMMA InitHold == Init => HoldInv
<1> SUFFICES ASSUME Init PROVE HoldInv
  OBVIOUS
<1>1. \A v \in VIP, c \in Client : Holds(c, v) => poolFile[c] = v
  BY VIPNonZero DEF Init, Holds, Granting, NoPool, RecvIdle
<1>2. \A v \in VIP, c, d \in Client : poolFile[c] = v /\ poolFile[d] = v => c = d
  BY VIPNonZero DEF Init, SavedPools, NoPool
<1>3. \A c \in Client : poolFile[c] # ServerVIP
  BY VIPNonZero DEF Init, SavedPools, NoPool, VIP
<1>4. ServerVIP \in VIP
  BY DEF VIP
<1>. QED
  BY <1>1, <1>2, <1>3, <1>4, InitType, InitNoSession DEF HoldInv, SoleHolder, ServerKeepsItsAddress

LEMMA StepHold == HoldInv /\ [Next]_vars => HoldInv'
<1> SUFFICES ASSUME HoldInv, [Next]_vars PROVE HoldInv'
  OBVIOUS
<1>1. TypeOK' /\ NoSession'
  BY StepType, StepNoSession DEF HoldInv
<1>2. ServerVIP \in VIP
  BY DEF VIP
<1>3. /\ \A v \in VIP, c, d \in Client : Holds(c, v)' /\ Holds(d, v)' => c = d
      /\ \A c \in Client : ~Holds(c, ServerVIP)'
  <2>1. CASE Restart
    <3>1. poolFile' = poolFile \/ poolFile' = NoPool
      BY <2>1 DEF Restart
    <3>2. \A v \in VIP, c \in Client : Holds(c, v)' => poolFile[c] = v
      BY <2>1, <3>1, VIPNonZero DEF Restart, Holds, Granting, RecvIdle, NoPool
    <3>. QED
      BY <1>2, <3>2 DEF HoldInv, SoleHolder, ServerKeepsItsAddress
  <2>2. CASE NobodyGains
    BY <1>2, <2>2 DEF NobodyGains, HoldInv, SoleHolder, ServerKeepsItsAddress
  <2>3. ASSUME NEW c0 \in Client, NEW v0 \in VIP, Gains(c0, v0)
        PROVE  /\ \A v \in VIP, c, d \in Client : Holds(c, v)' /\ Holds(d, v)' => c = d
               /\ \A c \in Client : ~Holds(c, ServerVIP)'
    BY <1>2, <2>3 DEF Gains, HoldInv, SoleHolder, ServerKeepsItsAddress
  <2>. QED
    BY <2>1, <2>2, <2>3, HoldsStep DEF HoldInv
<1>4. \A v \in VIP, c, d \in Client : poolFile'[c] = v /\ poolFile'[d] = v => c = d
  <2>1. \A v \in VIP, c, d \in Client : ipPool'[c] = v /\ ipPool'[d] = v => c = d
    BY <1>3 DEF Holds
  <2>. QED
    BY <2>1, FileStep, VIPNonZero DEF HoldInv, SoleHolder, NoPool
<1>5. \A c \in Client : poolFile'[c] # ServerVIP
  <2>1. \A c \in Client : ipPool'[c] # ServerVIP
    BY <1>3 DEF Holds
  <2>. QED
    BY <1>2, <2>1, FileStep, VIPNonZero DEF HoldInv, ServerKeepsItsAddress, NoPool
<1>. QED
  BY <1>1, <1>3, <1>4, <1>5 DEF HoldInv, SoleHolder, ServerKeepsItsAddress

LEMMA HoldCorrect == Spec => []HoldInv
  BY InitHold, StepHold, PTL DEF Spec

\* No address ever belongs to two clients, in memory or in the pool file,
\* however registrations, kicks, expiries, failed writes and restarts interleave.
THEOREM AddressesHaveOneHolder == Spec => []SoleHolder
<1>1. HoldInv => SoleHolder
  BY DEF HoldInv
<1>. QED
  BY <1>1, HoldCorrect, PTL

\* No client ever has the server's address.
THEOREM ServerAddressIsReserved == Spec => []ServerKeepsItsAddress
<1>1. HoldInv => ServerKeepsItsAddress
  BY DEF HoldInv
<1>. QED
  BY <1>1, HoldCorrect, PTL

-----------------------------------------------------------------------------
(* Routes *)

RouteInv == HoldInv /\ RouteExclusive /\ NoStaleRoute

LEMMA InitRoute == Init => RouteInv
  BY InitHold DEF RouteInv, RouteExclusive, NoStaleRoute, Init

\* Steps that change neither a session's address nor the routes, and end no
\* pending removal.
RoutesUntouched ==
  /\ UNCHANGED <<sessions, vip, routeTable>>
  /\ \A v \in VIP : RemovalPending(v) => RemovalPending(v)'

\* Removing the route of an address, and with it the pending removals of it.
RouteRemoved(w) ==
  /\ UNCHANGED <<sessions, vip>>
  /\ RemoveRoute(w)
  /\ \A v \in VIP \ {w} : RemovalPending(v) => RemovalPending(v)'

\* Dropping sessions makes their routes pending.
SessionsDropped(S) ==
  /\ S \subseteq Client
  /\ DropSessions(S)
  /\ routeTable' = routeTable
  /\ \A v \in VIP : RemovalPending(v) => RemovalPending(v)'
  /\ \A c \in S, v \in VIP : vip[c] = v => RemovalPending(v)'

LEMMA TodoEmpty ==
  ASSUME TypeOK, cl.pc \in {"wait", "scan", "retire"}
  PROVE  cl.todo = {}
  BY DEF TypeOK, ClState

LEMMA RouteStep ==
  ASSUME TypeOK, [Next]_vars
  PROVE  \/ RoutesUntouched
         \/ \E w \in VIP0 : RouteRemoved(w)
         \/ \E S \in SUBSET Client : SessionsDropped(S)
         \/ InsertSession
         \/ Restart
<1> USE DEF tables, pool
<1>1. CASE RecvPacket \/ Tun
  <2>1. ASSUME NEW c \in Client, NEW a \in Addr, NEW n, KnownHeartbeat(c, a, n) PROVE RoutesUntouched
    BY <2>1 DEF KnownHeartbeat, RoutesUntouched, RemovalPending
  <2>2. ASSUME NEW c \in Client, NEW v, NEW a, NEW n, NewHeartbeat(c, v, a, n) PROVE RoutesUntouched
    BY <2>2 DEF NewHeartbeat, RoutesUntouched, RemovalPending
  <2>3. ASSUME NEW c \in Client, NEW q, RejectData(c, q) PROVE RoutesUntouched
    BY <2>3 DEF RejectData, RoutesUntouched, RemovalPending
  <2>4. ASSUME NEW c \in Client, NEW q, NEW a, NEW dst, AcceptData(c, q, a, dst) PROVE RoutesUntouched
    BY <2>4 DEF AcceptData, RoutesUntouched, RemovalPending
  <2>5. CASE Tun
    BY <2>5 DEF Tun, TunRead, TunSend, RoutesUntouched, RemovalPending
  <2>. QED
    BY <1>1, <2>1, <2>2, <2>3, <2>4, <2>5 DEF RecvPacket
<1>2. CASE RecvStep
  BY <1>2 DEF RecvStep, ReuseAllocation, AllocateNext, AllocationFails, PersistSession,
              RouteData, SendData, RoutesUntouched, RemovalPending
<1>3. CASE Tick
  <2>1. cl'.todo = cl.todo
    BY <1>3 DEF Tick, TypeOK, ClState
  <2>. QED
    BY <1>3, <2>1 DEF Tick, RoutesUntouched, RemovalPending
<1>4. CASE CleanupScan
  <2> DEFINE expSess == {c \in sessions :
                           /\ \A a \in Addr : addrSeen[c][a] = Absent \/ AddrExpired(c, a)
                           /\ lastSeen[c] > ClientTimeout}
             removed == {[client |-> c, vip |-> vip[c]] : c \in expSess}
  <2>1. expSess \in SUBSET Client
    BY DEF TypeOK
  <2>2. DropSessions(expSess) /\ UNCHANGED <<routeTable, del>> /\ cl'.todo = removed
    BY <1>4 DEF CleanupScan
  <2>3. cl.todo = {}
    BY <1>4, TodoEmpty DEF CleanupScan
  <2>4. ASSUME NEW c \in expSess, NEW v \in VIP, vip[c] = v PROVE RemovalPending(v)'
    <3>1. [client |-> c, vip |-> v] \in removed
      BY <2>4
    <3>. HIDE DEF removed
    <3>. QED
      BY <2>2, <3>1 DEF RemovalPending
  <2>5. SessionsDropped(expSess)
    BY <2>1, <2>2, <2>3, <2>4 DEF SessionsDropped, RemovalPending
  <2>. QED
    BY <2>1, <2>5
<1>5. CASE CleanupRoute
  <2> PICK p \in cl.todo : RemoveRoute(p.vip) /\ cl'.todo = cl.todo \ {p}
    BY <1>5 DEF CleanupRoute
  <2>1. p.vip \in VIP0
    BY DEF TypeOK, ClState, Pair
  <2>2. RouteRemoved(p.vip)
    BY <1>5 DEF CleanupRoute, RouteRemoved, RemovalPending
  <2>. QED
    BY <2>1, <2>2
<1>6. CASE CleanupDedup \/ CleanupMark \/ CleanupRetire
  <2>1. cl'.todo = cl.todo
    <3>1. CASE CleanupDedup \/ CleanupMark
      <4>1. cl \in [pc : {"dedup", "mark"}, todo : SUBSET Pair, cur : Pair]
        BY <3>1 DEF CleanupDedup, CleanupMark, TypeOK, ClState
      <4>. QED
        BY <3>1, <4>1 DEF CleanupDedup, CleanupMark
    <3>2. CASE CleanupRetire
      BY <3>2, TodoEmpty DEF CleanupRetire, ClWait
    <3>. QED
      BY <1>6, <3>1, <3>2
  <2>. QED
    BY <1>6, <2>1 DEF CleanupDedup, CleanupMark, CleanupRetire, RoutesUntouched, RemovalPending
<1>7. ASSUME NEW d \in Deleter, NEW c \in Client, DeleteSession(d, c)
      PROVE  \E S \in SUBSET Client : SessionsDropped(S)
  <2>1. del'[d].pc = "route" /\ del'[d].vip = vip[c] /\ \A e \in Deleter \ {d} : del'[e] = del[e]
    BY <1>7 DEF DeleteSession, TypeOK
  <2>2. del[d].pc = "idle" /\ cl' = cl
    BY <1>7 DEF DeleteSession
  <2>3. \A v \in VIP : RemovalPending(v) => RemovalPending(v)'
    BY <2>1, <2>2 DEF RemovalPending
  <2>4. \A v \in VIP : vip[c] = v => RemovalPending(v)'
    BY <2>1 DEF RemovalPending
  <2>5. SessionsDropped({c})
    BY <1>7, <2>3, <2>4 DEF DeleteSession, SessionsDropped
  <2>. QED
    BY <2>5
<1>8. ASSUME NEW d \in Deleter, DeleteRoute(d) PROVE \E w \in VIP0 : RouteRemoved(w)
  <2>1. del[d].vip \in VIP0
    BY <1>8, DelKind DEF DeleteRoute, TypeOK, Deleting
  <2>2. \A e \in Deleter \ {d} : del'[e] = del[e]
    BY <1>8 DEF DeleteRoute, TypeOK
  <2>3. RouteRemoved(del[d].vip)
    BY <1>8, <2>2 DEF DeleteRoute, RouteRemoved, RemovalPending
  <2>. QED
    BY <2>1, <2>3
<1>9. ASSUME NEW d \in Deleter, DeleteDedup(d) \/ DeletePool(d) PROVE RoutesUntouched
  <2>1. del[d].pc # "route" /\ \A e \in Deleter \ {d} : del'[e] = del[e]
    BY <1>9 DEF DeleteDedup, DeletePool, TypeOK
  <2>. QED
    BY <1>9, <2>1 DEF DeleteDedup, DeletePool, RoutesUntouched, RemovalPending
<1>10. CASE UNCHANGED vars
  BY <1>10 DEF vars, RoutesUntouched, RemovalPending
<1>. QED
  BY <1>1, <1>2, <1>3, <1>4, <1>5, <1>6, <1>7, <1>8, <1>9, <1>10 DEF Next, CleanupStep, DeleteStep

LEMMA StepRoute == RouteInv /\ [Next]_vars => RouteInv'
<1> SUFFICES ASSUME RouteInv, [Next]_vars PROVE RouteInv'
  OBVIOUS
<1>1. HoldInv' /\ TypeOK /\ TypeOK'
  BY StepHold DEF RouteInv, HoldInv
<1>2. CASE RoutesUntouched
  BY <1>1, <1>2 DEF RoutesUntouched, RouteInv, RouteExclusive, NoStaleRoute
<1>3. ASSUME NEW w \in VIP0, RouteRemoved(w) PROVE RouteInv'
  <2>1. \A v \in VIP : routeTable'[v] = IF v = w THEN NoClient ELSE routeTable[v]
    BY <1>3 DEF RouteRemoved, RemoveRoute
  <2>2. \A c \in sessions : vip[c] # ZeroIP => vip[c] \in VIP
    BY <1>1 DEF TypeOK, VIP0
  <2>3. RouteExclusive'
    BY <1>3, <2>1, <2>2 DEF RouteRemoved, RouteInv, RouteExclusive
  <2>4. NoStaleRoute'
    BY <1>3, <2>1 DEF RouteRemoved, RouteInv, NoStaleRoute
  <2>. QED
    BY <1>1, <2>3, <2>4 DEF RouteInv
<1>4. ASSUME NEW S \in SUBSET Client, SessionsDropped(S) PROVE RouteInv'
  <2>1. RouteExclusive'
    BY <1>1, <1>4 DEF SessionsDropped, DropSessions, RouteInv, RouteExclusive, TypeOK
  <2>2. NoStaleRoute'
    <3> SUFFICES ASSUME NEW v \in VIP, routeTable'[v] # NoClient
                 PROVE  vip'[routeTable'[v]] = v \/ RemovalPending(v)'
      BY DEF NoStaleRoute
    <3> DEFINE c == routeTable[v]
    <3>1. routeTable'[v] = c /\ c \in Client
      BY <1>1, <1>4 DEF SessionsDropped, TypeOK
    <3>2. vip[c] = v \/ RemovalPending(v)
      BY <3>1 DEF RouteInv, NoStaleRoute
    <3>3. vip'[c] = v \/ RemovalPending(v)'
      BY <1>4, <3>1, <3>2, VIPNonZero DEF SessionsDropped, DropSessions
    <3>. QED
      BY <3>1, <3>3
  <2>. QED
    BY <1>1, <2>1, <2>2 DEF RouteInv
<1>5. CASE InsertSession
  <2> DEFINE c0 == recv.client
  <2>1. c0 \in Client /\ recv.vip \in VIP0 /\ vip[c0] = ZeroIP /\ recv.pc = "insert"
    BY <1>1, <1>5, RecvKind DEF InsertSession, TypeOK, Registering, RouteInv, HoldInv, NoSession
  <2>2. /\ sessions' = sessions \cup {c0}
        /\ vip' = [vip EXCEPT ![c0] = recv.vip]
        /\ \A v \in VIP : routeTable'[v] = IF v = recv.vip THEN c0 ELSE routeTable[v]
        /\ UNCHANGED <<cl, del>>
    BY <1>5 DEF InsertSession
  <2>3. RouteExclusive'
    <3> SUFFICES ASSUME NEW c \in sessions', vip'[c] # ZeroIP
                 PROVE  routeTable'[vip'[c]] \in {c, NoClient}
      BY DEF RouteExclusive
    <3>1. c \in Client /\ vip'[c] \in VIP
      BY <1>1 DEF TypeOK, VIP0
    <3>2. CASE c = c0
      BY <1>1, <2>1, <2>2, <3>1, <3>2 DEF TypeOK
    <3>3. CASE c # c0
      <4>1. c \in sessions /\ vip'[c] = vip[c]
        BY <1>1, <2>1, <2>2, <3>1, <3>3 DEF TypeOK
      <4>2. vip[c] # recv.vip
        BY <2>1, <3>1, <3>3, <4>1 DEF RouteInv, HoldInv, SoleHolder, Holds, Granting
      <4>3. routeTable'[vip[c]] = routeTable[vip[c]]
        BY <2>2, <3>1, <4>1, <4>2
      <4>. QED
        BY <4>1, <4>3 DEF RouteInv, RouteExclusive
    <3>. QED
      BY <3>2, <3>3
  <2>4. NoStaleRoute'
    <3> SUFFICES ASSUME NEW v \in VIP, routeTable'[v] # NoClient
                 PROVE  vip'[routeTable'[v]] = v \/ RemovalPending(v)'
      BY DEF NoStaleRoute
    <3>1. CASE v = recv.vip
      BY <1>1, <2>1, <2>2, <3>1 DEF TypeOK
    <3>2. CASE v # recv.vip
      <4>1. routeTable'[v] = routeTable[v] /\ routeTable[v] \in Client
        BY <1>1, <2>2, <3>2 DEF TypeOK
      <4>2. vip[routeTable[v]] = v \/ RemovalPending(v)
        BY <4>1 DEF RouteInv, NoStaleRoute
      <4>3. RemovalPending(v) => RemovalPending(v)'
        BY <2>2 DEF RemovalPending
      <4>4. vip[routeTable[v]] = v => vip'[routeTable[v]] = v
        BY <1>1, <2>1, <2>2, <4>1, VIPNonZero DEF TypeOK
      <4>. QED
        BY <4>1, <4>2, <4>3, <4>4
    <3>. QED
      BY <3>1, <3>2
  <2>. QED
    BY <1>1, <2>3, <2>4 DEF RouteInv
<1>6. CASE Restart
  BY <1>1, <1>6 DEF Restart, RouteInv, RouteExclusive, NoStaleRoute
<1>. QED
  BY <1>1, <1>2, <1>3, <1>4, <1>5, <1>6, RouteStep

LEMMA RouteCorrect == Spec => []RouteInv
  BY InitRoute, StepRoute, PTL DEF Spec

\* The route of a live session's address leads to that session's client or, for
\* as long as a removal overtook it, nowhere: never to another client.
THEOREM RoutesAreExclusive == Spec => []RouteExclusive
<1>1. RouteInv => RouteExclusive
  BY DEF RouteInv
<1>. QED
  BY <1>1, RouteCorrect, PTL

\* Every route that outlived its session is still on some goroutine's list.
THEOREM StaleRoutesArePending == Spec => []NoStaleRoute
<1>1. RouteInv => NoStaleRoute
  BY DEF RouteInv
<1>. QED
  BY <1>1, RouteCorrect, PTL

-----------------------------------------------------------------------------
(* Who packets are sent to *)

\* Sessions leave or stay as they are.
SessionsFewer ==
  /\ sessions' \subseteq sessions
  /\ \A c \in Client : vip'[c] \in {vip[c], ZeroIP}

\* Only InsertSession gives a session an address, and then recv sends nothing; a
\* goroutine sends what it looked up in the step before it, or keeps on sending.
LEMMA SendStep ==
  ASSUME TypeOK, [Next]_vars
  PROVE  /\ SessionsFewer \/ (recv.pc = "insert" /\ recv'.pc # "send")
         /\ recv'.pc = "send" => RouteData \/ recv' = recv
         /\ tun'.pc = "send" => tun' = tun \/ \E dst \in TunDst : TunRead(dst)
<1> USE DEF tables, SessionsFewer
<1>1. CASE RecvPacket
  <2>1. UNCHANGED <<sessions, vip, tun>>
    BY <1>1 DEF RecvPacket, KnownHeartbeat, NewHeartbeat, RejectData, AcceptData
  <2>2. recv'.pc = "send" => recv' = recv
    <3>1. ASSUME NEW c \in Client, NEW v \in Asked, NEW a \in Addr, NEW n \in Ext,
                 NewHeartbeat(c, v, a, n)
          PROVE  recv'.pc # "send"
      BY <3>1 DEF NewHeartbeat
    <3>2. ASSUME NEW c \in Client, NEW q \in Seq, NEW a \in Addr, NEW dst \in TunDst,
                 AcceptData(c, q, a, dst)
          PROVE  recv'.pc # "send"
      BY <3>2 DEF AcceptData, RecvIdle
    <3>. QED
      BY <1>1, <3>1, <3>2 DEF RecvPacket, KnownHeartbeat, RejectData
  <2>. QED
    BY <2>1, <2>2
<1>2. CASE InsertSession
  BY <1>2 DEF InsertSession, TypeOK, RecvState, RecvIdle, Registering, Routing, Sending
<1>3. CASE RecvStep /\ ~InsertSession
  <2>1. CASE ReuseAllocation \/ AllocateNext \/ AllocationFails
    <3>1. recv \in Registering
      BY <2>1, RecvKind DEF TypeOK, ReuseAllocation, AllocateNext, AllocationFails
    <3>. QED
      BY <2>1, <3>1 DEF Registering, ReuseAllocation, AllocateNext, AllocationFails, Allocated
  <2>. QED
    BY <1>3, <2>1 DEF RecvStep, PersistSession, RouteData, SendData, RecvIdle
<1>4. CASE Tun
  BY <1>4 DEF Tun, TunSend, TunRead, TunIdle
<1>5. CASE Tick
  BY <1>5 DEF Tick
<1>6. CASE CleanupScan
  <2>1. PICK S : DropSessions(S)
    BY <1>6 DEF CleanupScan
  <2>. QED
    BY <1>6, <2>1 DEF CleanupScan, DropSessions
<1>7. CASE CleanupStep
  BY <1>7 DEF CleanupStep, CleanupRoute, CleanupDedup, CleanupMark, CleanupRetire
<1>8. ASSUME NEW d \in Deleter, NEW c \in Client, DeleteSession(d, c)
      PROVE  SessionsFewer /\ recv' = recv /\ tun' = tun
  BY <1>8 DEF DeleteSession, DropSessions
<1>9. ASSUME NEW d \in Deleter, DeleteStep(d) PROVE SessionsFewer /\ recv' = recv /\ tun' = tun
  BY <1>9 DEF DeleteStep, DeleteRoute, DeleteDedup, DeletePool
<1>10. CASE Restart
  BY <1>10 DEF Restart, RecvIdle, TunIdle, NoPool
<1>11. CASE UNCHANGED vars
  BY <1>11 DEF vars
<1>. QED
  BY <1>1, <1>2, <1>3, <1>4, <1>5, <1>6, <1>7, <1>8, <1>9, <1>10, <1>11 DEF Next

\* The client that a route names is the only one whose session can have the address.
LEMMA RouteNamesHolder ==
  ASSUME RouteInv, NEW v \in VIP, routeTable[v] # NoClient, NEW c \in sessions, vip[c] = v
  PROVE  c = routeTable[v]
BY VIPNonZero DEF RouteInv, RouteExclusive

SendInv == RouteInv /\ ~Misdirected(recv)

\* What SentToHolder says of one step.
Sent ==
  /\ ~Misdirected(recv)'
  /\ Misdirected(tun)' => tun.pc = "send" /\ (Misdirected(tun) \/ recv.pc = "insert")

LEMMA StepSent == SendInv /\ [Next]_vars => Sent
<1> SUFFICES ASSUME SendInv, [Next]_vars PROVE Sent
  OBVIOUS
<1>1. RouteInv /\ TypeOK /\ sessions \subseteq Client
  BY DEF SendInv, RouteInv, HoldInv, TypeOK
<1>2. ~Misdirected(recv)'
  <2> SUFFICES ASSUME recv'.pc = "send", NEW c \in sessions', c # recv'.client, vip'[c] = recv'.vip
               PROVE  FALSE
    BY DEF Misdirected
  <2>1. CASE RouteData
    <3>1. recv \in Routing
      BY <1>1, <2>1, RecvKind DEF RouteData, TypeOK
    <3>2. routeTable[recv.vip] # NoClient /\ recv' = [recv EXCEPT !.pc = "send", !.client = routeTable[recv.vip]]
      BY <2>1 DEF RouteData, RecvIdle
    <3>3. recv.vip \in VIP /\ recv'.client = routeTable[recv.vip] /\ recv'.vip = recv.vip
      BY <3>1, <3>2 DEF Routing
    <3>4. c \in sessions /\ vip[c] = recv.vip
      BY <2>1, <3>3 DEF RouteData, tables
    <3>. QED
      BY <1>1, <3>2, <3>3, <3>4, RouteNamesHolder
  <2>2. CASE recv' = recv
    <3>1. SessionsFewer
      BY <1>1, <2>2, SendStep
    <3>2. recv \in Sending
      BY <1>1, <2>2, RecvKind DEF TypeOK
    <3>3. recv.vip # ZeroIP
      BY <3>2, VIPNonZero DEF Sending
    <3>4. c \in sessions /\ vip[c] = recv.vip
      BY <1>1, <2>2, <3>1, <3>3 DEF SessionsFewer
    <3>. QED
      BY <2>2, <3>4 DEF SendInv, Misdirected
  <2>. QED
    BY <1>1, <2>1, <2>2, SendStep
<1>3. ASSUME Misdirected(tun)' PROVE tun.pc = "send" /\ (Misdirected(tun) \/ recv.pc = "insert")
  <2>1. PICK c \in sessions' : tun'.pc = "send" /\ c # tun'.client /\ vip'[c] = tun'.vip
    BY <1>3 DEF Misdirected
  <2>2. ASSUME NEW dst \in TunDst, TunRead(dst) PROVE FALSE
    <3>1. tun' = [pc |-> "send", client |-> routeTable[dst], vip |-> dst] /\ routeTable[dst] # NoClient
      BY <2>2 DEF TunRead
    <3>2. c \in sessions /\ vip[c] = dst /\ c # routeTable[dst] /\ dst \in VIP
      BY <2>1, <2>2, <3>1, InputsAreAddresses DEF TunRead, tables
    <3>. QED
      BY <1>1, <3>1, <3>2, RouteNamesHolder
  <2>3. tun' = tun
    BY <1>1, <2>1, <2>2, SendStep
  <2>4. ASSUME SessionsFewer PROVE Misdirected(tun)
    <3>1. tun.vip # ZeroIP
      BY <1>1, <2>1, <2>3, VIPNonZero DEF TypeOK, TunState, TunIdle
    <3>2. c \in sessions /\ vip[c] = tun.vip
      BY <1>1, <2>1, <2>3, <2>4, <3>1 DEF SessionsFewer
    <3>. QED
      BY <2>1, <2>3, <3>2 DEF Misdirected
  <2>. QED
    BY <1>1, <2>1, <2>3, <2>4, SendStep
<1>. QED
  BY <1>2, <1>3 DEF Sent

\* A packet of one client never goes to another client than the holder of its
\* destination, and one from the TUN device only if a new holder registers between
\* the two lookups: kicks, timeouts and restarts alone misdirect nothing.
THEOREM PacketsGoToTheHolder == Spec => SentToHolder
<1>1. Init => ~Misdirected(recv)
  BY DEF Init, RecvIdle, Misdirected
<1>2. SendInv /\ [Next]_vars => SendInv'
  BY StepSent, StepRoute DEF SendInv, Sent
<1>3. SendInv /\ [Next]_vars => [Sent]_vars
  BY StepSent
<1>. QED
  BY <1>1, <1>2, <1>3, InitRoute, PTL DEF Spec, SentToHolder, Sent, SendInv

-----------------------------------------------------------------------------
(* The pool file *)

LEMMA StepDurable == TypeOK /\ ReservationsDurable /\ [Next]_vars => ReservationsDurable'
<1> SUFFICES ASSUME TypeOK, ReservationsDurable, [Next]_vars, ~FaultyDisk
             PROVE  poolFile' = ipPool'
  BY DEF ReservationsDurable
<1>1. poolFile = ipPool /\ \A p : Save(p) => poolFile' = p
  BY DEF ReservationsDurable, Save
<1>2. UNCHANGED <<ipPool, poolFile>> => poolFile' = ipPool'
  BY <1>1
<1>3. CASE ReuseAllocation
  BY <1>1, <1>3 DEF ReuseAllocation
<1>4. CASE AllocateNext
  BY <1>1, <1>4 DEF AllocateNext
<1>5. CASE PersistSession
  BY <1>1, <1>5 DEF PersistSession, pool
<1>6. CASE CleanupRetire
  <2>1. Retired = {} => ipPool' = ipPool
    BY <1>6 DEF CleanupRetire, TypeOK
  <2>. QED
    BY <1>1, <1>6, <2>1 DEF CleanupRetire
<1>7. ASSUME NEW d \in Deleter, DeletePool(d) PROVE poolFile' = ipPool'
  BY <1>1, <1>7 DEF DeletePool
<1>8. CASE Restart
  BY <1>8 DEF Restart
<1>. QED
  BY <1>2, <1>3, <1>4, <1>5, <1>6, <1>7, <1>8
  DEF Next, RecvPacket, RecvStep, Tun, CleanupStep, DeleteStep, vars, pool,
      KnownHeartbeat, NewHeartbeat, RejectData, AcceptData, AllocationFails, InsertSession,
      RouteData, SendData, TunRead, TunSend, Tick, CleanupScan, CleanupRoute, CleanupDedup,
      CleanupMark, DeleteSession, DeleteRoute, DeleteDedup

\* As long as writes succeed, a restart at any point finds every reservation.
THEOREM ReservationsAreDurable == Spec => []ReservationsDurable
<1>1. Init => ReservationsDurable
  BY DEF Init, ReservationsDurable
<1>. QED
  BY <1>1, StepDurable, TypeCorrect, PTL DEF Spec

-----------------------------------------------------------------------------
(* The tables implement the lease service *)

LEMMA OwnerIsHolder ==
  ASSUME SoleHolder, NEW v \in VIP \ {ServerVIP}
  PROVE  /\ \A c \in Client : Holds(c, v) => owner[v] = c
         /\ (\A c \in Client : ~Holds(c, v)) => owner[v] = NoClient
<1>1. ASSUME NEW c \in Client, Holds(c, v) PROVE owner[v] = c
  <2>1. owner[v] = CHOOSE d \in Client : Holds(d, v)
    BY <1>1 DEF owner
  <2>2. (CHOOSE d \in Client : Holds(d, v)) \in {d \in Client : Holds(d, v)}
    BY <1>1
  <2>. QED
    BY <1>1, <2>1, <2>2 DEF SoleHolder
<1>2. (\A c \in Client : ~Holds(c, v)) => owner[v] = NoClient
  BY DEF owner
<1>. QED
  BY <1>1, <1>2

LEMMA StepLease ==
  ASSUME HoldInv, ReservationsDurable, ~FaultyDisk, HoldInv', [Next]_vars
  PROVE  [Lease!Next]_owner
<1> DEFINE Free(v) == \A c \in Client : ~Holds(c, v)
           Leased == VIP \ {ServerVIP}
<1>1. /\ \A v \in Leased, c \in Client : Holds(c, v) => owner[v] = c
      /\ \A v \in Leased : Free(v) => owner[v] = NoClient
  BY OwnerIsHolder DEF HoldInv
<1>2. /\ \A v \in Leased, c \in Client : Holds(c, v)' => owner'[v] = c
      /\ \A v \in Leased : Free(v)' => owner'[v] = NoClient
  <2>1. SoleHolder'
    BY DEF HoldInv
  <2>2. ASSUME NEW v \in Leased
        PROVE  /\ \A c \in Client : Holds(c, v)' => owner'[v] = c
               /\ Free(v)' => owner'[v] = NoClient
    <3>1. ASSUME NEW c \in Client, Holds(c, v)' PROVE owner'[v] = c
      <4>1. owner'[v] = CHOOSE d \in Client : Holds(d, v)'
        BY <3>1 DEF owner
      <4>2. (CHOOSE d \in Client : Holds(d, v)') \in {d \in Client : Holds(d, v)'}
        BY <3>1
      <4>. QED
        BY <2>1, <3>1, <4>1, <4>2 DEF SoleHolder
    <3>2. Free(v)' => owner'[v] = NoClient
      BY DEF owner
    <3>. QED
      BY <3>1, <3>2
  <2>. QED
    BY <2>2
<1>3. owner = [v \in Leased |-> owner[v]] /\ owner' = [v \in Leased |-> owner'[v]]
  BY DEF owner
<1>4. CASE NobodyGains
  <2> DEFINE S == {v \in Leased : Free(v)'}
  <2>1. ASSUME NEW v \in Leased
        PROVE  owner'[v] = IF v \in S THEN NoClient ELSE owner[v]
    BY <1>1, <1>2, <1>4, <2>1 DEF NobodyGains
  <2>2. Lease!Release(S)
    BY <1>3, <2>1 DEF Lease!Release
  <2>. QED
    BY <2>2 DEF Lease!Next
<1>5. ASSUME NEW c \in Client, NEW v \in VIP, Gains(c, v) PROVE [Lease!Next]_owner
  <2>1. v \in Leased
    BY <1>5 DEF Gains
  <2>2. \A w \in Leased \ {v} : owner'[w] = owner[w]
    BY <1>1, <1>2, <1>5 DEF Gains
  <2>3. owner'[v] = c
    BY <1>2, <1>5, <2>1 DEF Gains
  <2>4. CASE Holds(c, v)
    <3>1. owner[v] = c
      BY <1>1, <2>1, <2>4
    <3>. QED
      BY <1>3, <2>2, <2>3, <3>1
  <2>5. CASE ~Holds(c, v)
    <3>1. owner[v] = NoClient
      BY <1>1, <1>5, <2>1, <2>5 DEF Gains
    <3>2. Lease!Grant(c, v)
      BY <1>3, <2>1, <2>2, <2>3, <3>1 DEF Lease!Grant
    <3>. QED
      BY <2>1, <3>2 DEF Lease!Next
  <2>. QED
    BY <2>4, <2>5
<1>6. CASE Restart
  <2>1. \A w \in VIP, c \in Client : Holds(c, w)' => poolFile[c] = w
    BY <1>6, VIPNonZero DEF Restart, Holds, Granting, RecvIdle, NoPool
  <2>2. NobodyGains
    BY <2>1 DEF NobodyGains, ReservationsDurable, Holds
  <2>. QED
    BY <1>4, <2>2
<1>. QED
  BY <1>4, <1>5, <1>6, HoldsStep DEF HoldInv

LEMMA InitLease == HoldInv => Lease!Init
<1> SUFFICES ASSUME HoldInv PROVE Lease!Init
  OBVIOUS
<1>1. ASSUME NEW v \in VIP \ {ServerVIP} PROVE owner[v] \in Client \cup {NoClient}
  BY OwnerIsHolder DEF HoldInv
<1>. QED
  BY <1>1 DEF Lease!Init, owner

\* On a disk whose writes succeed, the sessions, the pool, its file and the
\* registration in flight together implement the lease service: an address is
\* granted only when nobody owns it.
THEOREM ServerImplementsLease == ASSUME ~FaultyDisk PROVE Spec => LeaseSpec
<1>1. HoldInv /\ ReservationsDurable /\ HoldInv' /\ [Next]_vars => [Lease!Next]_owner
  BY StepLease
<1>2. Init => Lease!Init
  BY InitHold, InitLease
<1>. QED
  BY <1>1, <1>2, HoldCorrect, ReservationsAreDurable, PTL DEF Spec, LeaseSpec, Lease!Spec
=============================================================================
