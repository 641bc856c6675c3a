------------------------ MODULE ServerEndpointProofs ------------------------
(***************************************************************************)
(* Theorems about the endpoints of Server's sessions, for any numbers of   *)
(* clients, endpoints and interfaces and any timeouts.                     *)
(***************************************************************************)
EXTENDS ServerProofs

endpoints == <<sessions, lastSeen, addrSeen, addrNic>>

\* What may happen to the endpoints: a heartbeat or data packet refreshes one, time
\* passes, or sessions and endpoints are taken away.
EndpointsTouched ==
  \E c \in Client, a \in Addr, n \in Ext :
    /\ sessions' = sessions \cup {c}
    /\ lastSeen' = [lastSeen EXCEPT ![c] = 0]
    /\ TouchAddr(c, a, n)

DataRefreshed ==
  \E c \in sessions, a \in Addr :
    /\ lastSeen' = [lastSeen EXCEPT ![c] = 0]
    /\ addrSeen' = [addrSeen EXCEPT ![c][a] = IF @ = Absent THEN Absent ELSE 0]
    /\ UNCHANGED <<sessions, addrNic>>

EndpointsGone ==
  /\ sessions' \subseteq sessions
  /\ \A c \in sessions' : lastSeen'[c] = lastSeen[c]
  /\ \A c \in Client, a \in Addr :
       /\ addrSeen'[c][a] \in {addrSeen[c][a], Absent}
       /\ addrNic'[c][a] \in {addrNic[c][a], NoNIC}
       /\ c \notin sessions' => addrSeen'[c][a] = Absent \/ c \notin sessions
       /\ addrSeen'[c][a] # addrSeen[c][a] => c \notin sessions' \/ AddrExpired(c, a)

LEMMA EndpointStep ==
  ASSUME TypeOK, [Next]_vars
  PROVE  EndpointsTouched \/ DataRefreshed \/ Tick \/ EndpointsGone \/ UNCHANGED endpoints
<1> USE DEF tables, endpoints
<1>1. CASE RecvPacket
  <2>1. ASSUME NEW c \in Client, NEW a \in Addr, NEW n \in Ext, KnownHeartbeat(c, a, n)
        PROVE  EndpointsTouched
    <3>1. sessions' = sessions \cup {c}
      BY <2>1 DEF KnownHeartbeat
    <3>. QED
      BY <2>1, <3>1 DEF KnownHeartbeat, EndpointsTouched
  <2>2. ASSUME NEW c \in Client, NEW q \in Seq, NEW a \in Addr, NEW dst \in TunDst,
               AcceptData(c, q, a, dst)
        PROVE  DataRefreshed
    BY <2>2 DEF AcceptData, DataRefreshed
  <2>. QED
    BY <1>1, <2>1, <2>2 DEF RecvPacket, NewHeartbeat, RejectData
<1>2. CASE InsertSession
  <2>1. recv \in Registering
    BY <1>2, RecvKind DEF TypeOK, InsertSession
  <2>2. recv.client \in Client /\ recv.from \in Addr /\ recv.nic \in Ext
    BY <2>1 DEF Registering
  <2>. QED
    BY <1>2, <2>2 DEF InsertSession, EndpointsTouched
<1>3. CASE RecvStep /\ ~InsertSession
  BY <1>3 DEF RecvStep, ReuseAllocation, AllocateNext, AllocationFails, PersistSession,
              RouteData, SendData
<1>4. CASE Tun
  BY <1>4 DEF Tun, TunRead, TunSend
<1>5. CASE CleanupScan
  <2> DEFINE expSess == {c \in sessions :
                           /\ \A a \in Addr : addrSeen[c][a] = Absent \/ AddrExpired(c, a)
                           /\ lastSeen[c] > ClientTimeout}
  <2>1. DropSessions(expSess)
    BY <1>5 DEF CleanupScan
  <2>2. /\ addrSeen' = [c \in Client |-> [a \in Addr |->
                          IF AddrExpired(c, a) THEN Absent ELSE addrSeen[c][a]]]
        /\ addrNic' = [c \in Client |-> [a \in Addr |->
                          IF AddrExpired(c, a) THEN NoNIC ELSE addrNic[c][a]]]
    BY <1>5 DEF CleanupScan
  <2>3. sessions' = sessions \ expSess /\ \A c \in sessions' : lastSeen'[c] = lastSeen[c]
    BY <2>1 DEF DropSessions, TypeOK
  <2>4. \A c \in expSess, a \in Addr : addrSeen'[c][a] = Absent
    BY <2>2 DEF TypeOK
  <2>5. \A c \in Client, a \in Addr :
          /\ addrSeen'[c][a] \in {addrSeen[c][a], Absent}
          /\ addrNic'[c][a] \in {addrNic[c][a], NoNIC}
    BY <2>2
  <2>6. \A c \in Client, a \in Addr :
          c \notin sessions' => addrSeen'[c][a] = Absent \/ c \notin sessions
    BY <2>3, <2>4
  <2>7. \A c \in Client, a \in Addr : addrSeen'[c][a] # addrSeen[c][a] => AddrExpired(c, a)
    BY <2>2
  <2>. QED
    BY <2>3, <2>5, <2>6, <2>7 DEF EndpointsGone
<1>6. CASE CleanupStep
  BY <1>6 DEF CleanupStep, CleanupRoute, CleanupDedup, CleanupMark, CleanupRetire
<1>7. ASSUME NEW d \in Deleter, NEW c \in Client, DeleteSession(d, c) PROVE EndpointsGone
  BY <1>7 DEF DeleteSession, DropSessions, TypeOK, NoAges, NoNames, EndpointsGone
<1>8. ASSUME NEW d \in Deleter, DeleteStep(d) PROVE UNCHANGED endpoints
  BY <1>8 DEF DeleteStep, DeleteRoute, DeleteDedup, DeletePool
<1>9. CASE Restart
  BY <1>9 DEF Restart, NoAges, NoNames, EndpointsGone
<1>10. CASE UNCHANGED vars
  BY <1>10 DEF vars
<1>. QED
  BY <1>1, <1>2, <1>3, <1>4, <1>5, <1>6, <1>7, <1>8, <1>9, <1>10 DEF Next

-----------------------------------------------------------------------------
(* One endpoint per interface *)

LEMMA StepOneAddress == TypeOK /\ OneAddressPerNic /\ [Next]_vars => OneAddressPerNic'
<1> SUFFICES ASSUME TypeOK, OneAddressPerNic, [Next]_vars PROVE OneAddressPerNic'
  OBVIOUS
<1>1. CASE EndpointsTouched
  <2>1. PICK c \in Client, a \in Addr, n \in Ext : TouchAddr(c, a, n)
    BY <1>1 DEF EndpointsTouched
  <2>2. \A d \in Client \ {c} : addrNic'[d] = addrNic[d]
    BY <2>1 DEF TouchAddr, TypeOK
  <2>3. \A b \in Addr : addrNic'[c][b] =
          IF b = a THEN (IF n = NoExt THEN addrNic[c][b] ELSE n)
          ELSE IF n \in NIC /\ addrNic[c][b] = n THEN NoNIC ELSE addrNic[c][b]
    BY <2>1 DEF TouchAddr, TypeOK
  <2>4. \A b, e \in Addr : addrNic'[c][b] # NoNIC /\ addrNic'[c][b] = addrNic'[c][e] => b = e
    BY <2>1, <2>3, NullsAreNotValues DEF OneAddressPerNic, Ext
  <2>. QED
    BY <2>2, <2>4 DEF OneAddressPerNic
<1>2. CASE EndpointsGone
  BY <1>2 DEF EndpointsGone, OneAddressPerNic
<1>3. CASE DataRefreshed \/ Tick \/ UNCHANGED endpoints
  BY <1>3 DEF DataRefreshed, Tick, endpoints, OneAddressPerNic
<1>. QED
  BY <1>1, <1>2, <1>3, EndpointStep

\* However heartbeats of old and new ports, expiries, kicks and restarts mix, a
\* client never has two endpoints under the name of one interface.
THEOREM InterfacesHaveOneEndpoint == Spec => []OneAddressPerNic
<1>1. Init => OneAddressPerNic
  BY DEF Init, NoNames, OneAddressPerNic
<1>. QED
  BY <1>1, StepOneAddress, TypeCorrect, PTL DEF Spec

-----------------------------------------------------------------------------
(* Sessions are as fresh as their endpoints *)

LEMMA StepFresh == TypeOK /\ SessionFreshAsAddresses /\ [Next]_vars => SessionFreshAsAddresses'
<1> SUFFICES ASSUME TypeOK, SessionFreshAsAddresses, [Next]_vars PROVE SessionFreshAsAddresses'
  OBVIOUS
<1>1. /\ lastSeen \in [Client -> 0 .. (ClientTimeout + 1)]
      /\ addrSeen \in [Client -> [Addr -> Absent .. (AddrTimeout + 1)]]
      /\ sessions \subseteq Client
  BY DEF TypeOK
<1>2. CASE EndpointsTouched
  <2>1. PICK c \in Client, a \in Addr, n \in Ext :
          /\ sessions' = sessions \cup {c}
          /\ lastSeen' = [lastSeen EXCEPT ![c] = 0]
          /\ TouchAddr(c, a, n)
    BY <1>2 DEF EndpointsTouched
  <2>2. \A d \in Client \ {c} : addrSeen'[d] = addrSeen[d] /\ lastSeen'[d] = lastSeen[d]
    BY <1>1, <2>1 DEF TouchAddr
  <2>3. lastSeen'[c] = 0
    BY <1>1, <2>1
  <2>4. \A b \in Addr : addrSeen'[c][b] \in {0, Absent, addrSeen[c][b]}
    BY <1>1, <2>1 DEF TouchAddr
  <2>5. \A b \in Addr : addrSeen'[c][b] # Absent => 0 <= addrSeen'[c][b]
    BY <1>1, <2>4, TimeoutsAreNatural DEF Absent
  <2>. QED
    BY <2>1, <2>2, <2>3, <2>5 DEF SessionFreshAsAddresses
<1>3. CASE DataRefreshed
  <2>1. PICK c \in sessions, a \in Addr :
          /\ lastSeen' = [lastSeen EXCEPT ![c] = 0]
          /\ addrSeen' = [addrSeen EXCEPT ![c][a] = IF @ = Absent THEN Absent ELSE 0]
          /\ UNCHANGED <<sessions, addrNic>>
    BY <1>3 DEF DataRefreshed
  <2>2. \A d \in Client \ {c} : addrSeen'[d] = addrSeen[d] /\ lastSeen'[d] = lastSeen[d]
    BY <1>1, <2>1
  <2>3. lastSeen'[c] = 0
    BY <1>1, <2>1
  <2>4. \A b \in Addr : addrSeen'[c][b] \in {0, Absent, addrSeen[c][b]}
    BY <1>1, <2>1
  <2>5. \A b \in Addr : addrSeen'[c][b] # Absent => 0 <= addrSeen'[c][b]
    BY <1>1, <2>4, TimeoutsAreNatural DEF Absent
  <2>. QED
    BY <2>1, <2>2, <2>3, <2>5 DEF SessionFreshAsAddresses
<1>4. CASE Tick
  <2> SUFFICES ASSUME NEW c \in Client, NEW a \in Addr, addrSeen'[c][a] # Absent
               PROVE  /\ c \in sessions'
                      /\ lastSeen'[c] <= addrSeen'[c][a] \/ addrSeen'[c][a] > AddrTimeout
    BY DEF SessionFreshAsAddresses
  <2>1. addrSeen[c][a] # Absent /\ addrSeen'[c][a] = Older(addrSeen[c][a], AddrTimeout)
    BY <1>4 DEF Tick
  <2>2. /\ c \in sessions /\ sessions' = sessions
        /\ lastSeen[c] <= addrSeen[c][a] \/ addrSeen[c][a] > AddrTimeout
    BY <1>4, <2>1 DEF SessionFreshAsAddresses, Tick
  <2>3. lastSeen'[c] = Older(lastSeen[c], ClientTimeout)
    BY <1>4, <2>2 DEF Tick
  <2>4. lastSeen[c] \in Int /\ addrSeen[c][a] \in Int /\ AddrTimeout \in Int /\ ClientTimeout \in Int
    BY <1>1, TimeoutsAreNatural DEF Absent
  <2>. QED
    BY <2>1, <2>2, <2>3, <2>4 DEF Older
<1>5. CASE EndpointsGone
  <2> SUFFICES ASSUME NEW c \in Client, NEW a \in Addr, addrSeen'[c][a] # Absent
               PROVE  /\ c \in sessions'
                      /\ lastSeen'[c] <= addrSeen'[c][a] \/ addrSeen'[c][a] > AddrTimeout
    BY DEF SessionFreshAsAddresses
  <2>1. addrSeen'[c][a] = addrSeen[c][a]
    BY <1>5 DEF EndpointsGone
  <2>2. c \in sessions /\ (lastSeen[c] <= addrSeen[c][a] \/ addrSeen[c][a] > AddrTimeout)
    BY <2>1 DEF SessionFreshAsAddresses
  <2>3. c \in sessions' /\ lastSeen'[c] = lastSeen[c]
    BY <1>5, <2>2 DEF EndpointsGone
  <2>. QED
    BY <2>1, <2>2, <2>3
<1>6. CASE UNCHANGED endpoints
  BY <1>6 DEF endpoints, SessionFreshAsAddresses
<1>. QED
  BY <1>2, <1>3, <1>4, <1>5, <1>6, EndpointStep

\* Whatever refreshes an endpoint refreshes its session, and endpoints go with
\* their session: cleanup drops no session that is still heard.
THEOREM SessionsAreFresh == Spec => []SessionFreshAsAddresses
<1>1. Init => SessionFreshAsAddresses
  BY DEF Init, NoAges, SessionFreshAsAddresses
<1>. QED
  BY <1>1, StepFresh, TypeCorrect, PTL DEF Spec

-----------------------------------------------------------------------------
(* No endpoint leaves a session too early *)

\* What AddressKept says of one step.
Kept ==
  \A c \in Client, a \in Addr :
    addrSeen[c][a] # Absent /\ addrSeen'[c][a] = Absent /\ c \in sessions' =>
      \/ addrSeen[c][a] > AddrTimeout
      \/ \E b \in Addr \ {a} : addrNic[c][a] # NoNIC /\ addrSeen'[c][b] = 0 /\ addrNic'[c][b] = addrNic[c][a]

LEMMA StepKept == TypeOK /\ SessionFreshAsAddresses /\ [Next]_vars => Kept
<1> SUFFICES ASSUME TypeOK, SessionFreshAsAddresses, [Next]_vars,
                    NEW c \in Client, NEW a \in Addr,
                    addrSeen[c][a] # Absent, addrSeen'[c][a] = Absent, c \in sessions'
             PROVE  \/ addrSeen[c][a] > AddrTimeout
                    \/ \E b \in Addr \ {a} : addrNic[c][a] # NoNIC /\ addrSeen'[c][b] = 0 /\ addrNic'[c][b] = addrNic[c][a]
  BY DEF Kept
<1>1. /\ addrSeen \in [Client -> [Addr -> Absent .. (AddrTimeout + 1)]]
      /\ addrNic \in [Client -> [Addr -> NIC \cup {NoNIC}]]
  BY DEF TypeOK
<1>2. CASE EndpointsTouched
  <2>1. PICK d \in Client, b \in Addr, n \in Ext : TouchAddr(d, b, n)
    BY <1>2 DEF EndpointsTouched
  <2>2. d = c /\ a # b /\ n \in NIC /\ addrNic[c][a] = n
    BY <1>1, <2>1 DEF TouchAddr, Absent
  <2>3. addrSeen'[c][b] = 0 /\ addrNic'[c][b] = n
    BY <1>1, <2>1, <2>2, NullsAreNotValues DEF TouchAddr
  <2>. QED
    BY <2>2, <2>3, NullsAreNotValues
<1>3. CASE DataRefreshed
  BY <1>1, <1>3 DEF DataRefreshed, Absent
<1>4. CASE Tick
  <2>1. addrSeen'[c][a] = Older(addrSeen[c][a], AddrTimeout)
    BY <1>4 DEF Tick
  <2>. QED
    BY <1>1, <2>1, TimeoutsAreNatural DEF Older, Absent
<1>5. CASE EndpointsGone
  BY <1>5 DEF EndpointsGone, AddrExpired
<1>6. CASE UNCHANGED endpoints
  BY <1>6 DEF endpoints
<1>. QED
  BY <1>2, <1>3, <1>4, <1>5, <1>6, EndpointStep

\* An endpoint that a session keeps being sent from is dropped only when its own
\* time is up or its interface sent from another: never by its neighbours'.
THEOREM AddressesAreKept == Spec => AddressKept
<1>1. TypeOK /\ SessionFreshAsAddresses /\ [Next]_vars =>
      [\A c \in Client, a \in Addr :
         addrSeen[c][a] # Absent /\ addrSeen'[c][a] = Absent /\ c \in sessions' =>
           \/ addrSeen[c][a] > AddrTimeout
           \/ \E b \in Addr \ {a} :
                /\ addrNic[c][a] # NoNIC
                /\ addrSeen'[c][b] = 0
                /\ addrNic'[c][b] = addrNic[c][a]]_vars
  BY StepKept DEF Kept
<1>. QED
  BY <1>1, TypeCorrect, SessionsAreFresh, PTL DEF Spec, AddressKept
=============================================================================
