----------------------------- MODULE RelayProofs -----------------------------
(***************************************************************************)
(* Theorems about Relay: for any numbers of clients and addresses, disks   *)
(* that fail, and a network that loses, repeats and reorders messages.     *)
(***************************************************************************)
EXTENDS Relay, ServerProofs

\* The session of the node has an address of its own, and so has a registration
\* that is about to be acknowledged.
OwnSession ==
  /\ vip[Node] \in held \cup {ZeroIP}
  /\ recv.pc = "persist" /\ recv.client = Node => recv.vip \in held \cup {ZeroIP}

OwnInv == RelayTypeOK /\ OwnSession /\ AsksForItsOwn

-----------------------------------------------------------------------------
(* Types *)

\* A step of Relay is one of the server's or leaves it alone, but for the address
\* in a heartbeat of the node, which may be any.
LEMMA ServerMoves ==
  ASSUME RelayTypeOK, [RelayNext]_relayVars
  PROVE  \/ [Next]_vars
         \/ \E c \in Client, v \in VIP0, a \in Addr : NewHeartbeat(c, v, a, NoExt)
<1>1. ASSUME NEW c \in Client, NEW v \in VIP0, Heartbeat(c, v)
      PROVE  \/ [Next]_vars
             \/ \E d \in Client, w \in VIP0, a \in Addr : NewHeartbeat(d, w, a, NoExt)
  BY <1>1 DEF Heartbeat, Next, RecvPacket, Ext
<1>2. ASSUME NEW v \in VIP0, HeartbeatArrives(v)
      PROVE  \/ [Next]_vars
             \/ \E d \in Client, w \in VIP0, a \in Addr : NewHeartbeat(d, w, a, NoExt)
  BY <1>1, <1>2, NodeIsAClient DEF HeartbeatArrives
<1>3. ASSUME OtherHeartbeat
      PROVE  \/ [Next]_vars
             \/ \E d \in Client, w \in VIP0, a \in Addr : NewHeartbeat(d, w, a, NoExt)
  BY <1>1, <1>3, InputsAreAddresses DEF OtherHeartbeat
<1>4. CASE Registers
  BY <1>4 DEF Registers, Next, RecvStep
<1>5. CASE ServerTick \/ Scan \/ Cleanup \/ ServerRestart
  BY <1>5 DEF ServerTick, Scan, Cleanup, ServerRestart, Next
<1>6. ASSUME NEW v \in VIP0, NodeHandlesAck(v) \/ HeartbeatVanishes(v) \/ AckVanishes(v)
      PROVE  UNCHANGED vars
  BY <1>6 DEF NodeHandlesAck, HeartbeatVanishes, AckVanishes
<1>7. CASE NodeHeartbeat \/ NodeRestart \/ Settle \/ UNCHANGED relayVars
  BY <1>7 DEF NodeHeartbeat, NodeRestart, Settle, relayVars
<1>. QED
  BY <1>2, <1>3, <1>4, <1>5, <1>6, <1>7 DEF RelayNext

LEMMA ServerTypes ==
  ASSUME RelayTypeOK, [RelayNext]_relayVars
  PROVE  TypeOK'
<1>1. CASE [Next]_vars
  BY <1>1, StepType DEF RelayTypeOK
<1>2. ASSUME NEW c \in Client, NEW v \in VIP0, NEW a \in Addr, NewHeartbeat(c, v, a, NoExt)
      PROVE  TypeOK'
  <2>1. recv' \in Registering
    BY <1>2 DEF NewHeartbeat, Registering, VIP0, Ext
  <2>. QED
    BY <1>2, <2>1 DEF NewHeartbeat, RelayTypeOK, TypeOK, RecvState, tables, pool
<1>. QED
  BY <1>1, <1>2, ServerMoves

LEMMA StepRelayType == RelayTypeOK /\ [RelayNext]_relayVars => RelayTypeOK'
<1> SUFFICES ASSUME RelayTypeOK, [RelayNext]_relayVars PROVE RelayTypeOK'
  OBVIOUS
<1>1. TypeOK'
  BY ServerTypes
<1>2. TypeOK /\ ZeroIP \in VIP0
  BY DEF RelayTypeOK, VIP0
<1> USE DEF RelayTypeOK, net
<1>3. ASSUME NEW c \in Client, NEW v \in VIP0, Heartbeat(c, v) PROVE ackNet' \subseteq VIP0
  <2>1. vip[c] \in VIP0
    BY <1>2 DEF TypeOK
  <2>. QED
    BY <1>3, <2>1 DEF Heartbeat, Ack
<1>4. ASSUME NEW v \in VIP0, HeartbeatArrives(v) PROVE RelayTypeOK'
  BY <1>1, <1>3, <1>4, NodeIsAClient DEF HeartbeatArrives
<1>5. ASSUME OtherHeartbeat PROVE RelayTypeOK'
  BY <1>1, <1>3, <1>5, InputsAreAddresses DEF OtherHeartbeat
<1>6. ASSUME Registers PROVE RelayTypeOK'
  <2>1. CASE ReuseAllocation \/ AllocateNext \/ AllocationFails
    BY <1>1, <1>6, <2>1 DEF Registers, ReuseAllocation, AllocateNext, AllocationFails, InsertSession, PersistSession
  <2>2. CASE InsertSession \/ PersistSession
    <3>1. recv \in Registering
      BY <1>2, <2>2, RecvKind DEF TypeOK, InsertSession, PersistSession
    <3>2. recv.vip \in VIP0
      BY <3>1 DEF Registering
    <3>. QED
      BY <1>1, <1>6, <2>2, <3>2 DEF Registers, ReuseAllocation, AllocateNext, AllocationFails,
                                    InsertSession, PersistSession, Ack, VIP0
  <2>. QED
    BY <1>6, <2>1, <2>2 DEF Registers
<1>7. CASE ServerTick \/ Scan \/ Cleanup \/ ServerRestart
  BY <1>1, <1>7 DEF ServerTick, Scan, Cleanup, ServerRestart
<1>8. ASSUME NEW v \in VIP0, NodeHandlesAck(v) \/ HeartbeatVanishes(v) \/ AckVanishes(v)
      PROVE  RelayTypeOK'
  BY <1>1, <1>8 DEF NodeHandlesAck, HeartbeatVanishes, AckVanishes
<1>9. CASE NodeHeartbeat \/ NodeRestart \/ Settle \/ UNCHANGED relayVars
  BY <1>1, <1>2, <1>9 DEF NodeHeartbeat, NodeRestart, Settle, relayVars
<1>. QED
  BY <1>4, <1>5, <1>6, <1>7, <1>8, <1>9 DEF RelayNext

-----------------------------------------------------------------------------
(* The node's addresses *)

\* Only a registration gives a client an address.
Takes(c) == vip'[c] \in {vip[c], ZeroIP}

\* What the server does besides registering gives nobody an address, and makes no
\* registration ready to be acknowledged.
LEMMA OtherSteps ==
  ASSUME TypeOK, NEW c \in Client,
         Tick \/ CleanupScan \/ CleanupStep \/ Restart \/ UNCHANGED vars
  PROVE  Takes(c) /\ (recv'.pc = "persist" => recv' = recv)
<1> USE DEF tables, Takes
<1>1. CASE Tick \/ CleanupStep \/ UNCHANGED vars
  BY <1>1 DEF Tick, CleanupStep, CleanupRoute, CleanupDedup, CleanupMark, CleanupRetire, vars
<1>2. CASE CleanupScan
  BY <1>2 DEF CleanupScan, DropSessions
<1>3. CASE Restart
  BY <1>3 DEF Restart, NoPool, RecvIdle
<1>. QED
  BY <1>1, <1>2, <1>3

LEMMA StepOwn == OwnInv /\ [RelayNext]_relayVars => OwnSession' /\ AsksForItsOwn'
<1> SUFFICES ASSUME OwnInv, [RelayNext]_relayVars PROVE OwnSession' /\ AsksForItsOwn'
  OBVIOUS
<1> USE DEF net, tables
<1>1. /\ TypeOK /\ RelayTypeOK /\ OwnSession /\ AsksForItsOwn
      /\ Node \in Client
  BY NodeIsAClient DEF OwnInv, RelayTypeOK
<1>2. ASSUME NEW c \in Client, NEW v \in VIP0, Heartbeat(c, v), UNCHANGED <<virtualIP, hbNet, held>>
      PROVE  OwnSession' /\ AsksForItsOwn'
  <2>1. vip' = vip /\ recv'.pc # "persist"
    BY <1>2 DEF Heartbeat, KnownHeartbeat, NewHeartbeat
  <2>2. ackNet' \subseteq ackNet \cup {vip[Node]}
    BY <1>2 DEF Heartbeat, Ack
  <2>. QED
    BY <1>1, <1>2, <2>1, <2>2 DEF OwnSession, AsksForItsOwn
<1>3. ASSUME NEW v \in VIP0, HeartbeatArrives(v) PROVE OwnSession' /\ AsksForItsOwn'
  BY <1>1, <1>2, <1>3 DEF HeartbeatArrives
<1>4. ASSUME OtherHeartbeat PROVE OwnSession' /\ AsksForItsOwn'
  BY <1>2, <1>4, InputsAreAddresses DEF OtherHeartbeat
<1>5. ASSUME Registers PROVE OwnSession' /\ AsksForItsOwn'
  <2>1. CASE ReuseAllocation \/ AllocateNext \/ AllocationFails
    <3>1. vip' = vip /\ recv'.pc = "insert" /\ UNCHANGED <<ackNet, held>>
      <4>1. recv \in Registering
        BY <1>1, <2>1, RecvKind DEF TypeOK, ReuseAllocation, AllocateNext, AllocationFails
      <4>2. recv'.pc = "insert"
        BY <2>1, <4>1 DEF ReuseAllocation, AllocateNext, AllocationFails, Allocated, Registering
      <4>3. vip' = vip
        BY <2>1 DEF ReuseAllocation, AllocateNext, AllocationFails
      <4>4. UNCHANGED <<ackNet, held>>
        BY <1>5, <2>1 DEF Registers, ReuseAllocation, AllocateNext, AllocationFails,
                          InsertSession, PersistSession
      <4>. QED
        BY <4>2, <4>3, <4>4
    <3>. QED
      BY <1>1, <1>5, <3>1 DEF Registers, OwnSession, AsksForItsOwn
  <2>2. CASE InsertSession
    <3>1. recv \in Registering
      BY <1>1, <2>2, RecvKind DEF TypeOK, InsertSession
    <3>2. /\ vip' = [vip EXCEPT ![recv.client] = recv.vip]
          /\ recv'.client = recv.client /\ recv'.vip = recv.vip
      BY <2>2, <3>1 DEF InsertSession, Registering
    <3>3. /\ held' = IF recv.client = Node THEN held \cup ({recv.vip} \ {ZeroIP}) ELSE held
          /\ UNCHANGED <<virtualIP, hbNet, ackNet>>
      BY <1>5, <2>2 DEF Registers, ReuseAllocation, AllocateNext, AllocationFails,
                        InsertSession, PersistSession
    <3>4. vip'[Node] = IF recv.client = Node THEN recv.vip ELSE vip[Node]
      BY <1>1, <3>2 DEF TypeOK
    <3>. QED
      BY <1>1, <3>2, <3>3, <3>4 DEF OwnSession, AsksForItsOwn
  <2>3. CASE PersistSession
    <3>1. /\ vip' = vip /\ recv'.pc = "idle" /\ recv.pc = "persist"
          /\ held' = held /\ Ack(recv.client, recv.vip, recv.vip)
          /\ UNCHANGED <<virtualIP, hbNet>>
      BY <1>5, <2>3 DEF Registers, ReuseAllocation, AllocateNext, AllocationFails,
                        InsertSession, PersistSession, RecvIdle
    <3>. QED
      BY <1>1, <3>1 DEF Ack, OwnSession, AsksForItsOwn
  <2>. QED
    BY <1>5, <2>1, <2>2, <2>3 DEF Registers
<1>6. CASE ServerTick \/ Scan \/ Cleanup \/ ServerRestart
  <2>1. Takes(Node) /\ (recv'.pc = "persist" => recv' = recv)
    BY <1>1, <1>6, OtherSteps DEF ServerTick, Scan, Cleanup, ServerRestart
  <2>2. UNCHANGED <<virtualIP, net, held>>
    BY <1>6 DEF ServerTick, Scan, Cleanup, ServerRestart
  <2>. QED
    BY <1>1, <2>1, <2>2 DEF Takes, OwnSession, AsksForItsOwn
<1>7. ASSUME NEW v \in VIP0, NodeHandlesAck(v) \/ HeartbeatVanishes(v) \/ AckVanishes(v)
      PROVE  OwnSession' /\ AsksForItsOwn'
  BY <1>1, <1>7 DEF NodeHandlesAck, HeartbeatVanishes, AckVanishes, vars, OwnSession, AsksForItsOwn
<1>8. CASE NodeHeartbeat \/ NodeRestart \/ Settle \/ UNCHANGED relayVars
  BY <1>1, <1>8 DEF NodeHeartbeat, NodeRestart, Settle, relayVars, vars, OwnSession, AsksForItsOwn
<1>. QED
  BY <1>3, <1>4, <1>5, <1>6, <1>7, <1>8 DEF RelayNext

LEMMA OwnCorrect == RelaySpec => []OwnInv
<1>1. RelayInit => OwnInv
  <2> SUFFICES ASSUME RelayInit PROVE OwnInv
    OBVIOUS
  <2>1. RelayTypeOK
    BY InitType DEF RelayInit, RelayTypeOK, VIP0
  <2>2. vip[Node] = ZeroIP /\ recv.pc # "persist"
    BY NodeIsAClient DEF RelayInit, Init, NoPool, RecvIdle
  <2>. QED
    BY <2>1, <2>2 DEF RelayInit, OwnInv, OwnSession, AsksForItsOwn
<1>2. OwnInv /\ [RelayNext]_relayVars => OwnInv'
  BY StepOwn, StepRelayType DEF OwnInv
<1>. QED
  BY <1>1, <1>2, PTL DEF RelaySpec

\* The type invariant of the composed system, whatever the node asks for.
THEOREM RelayTypeCorrect == RelaySpec => []RelayTypeOK
<1>1. OwnInv => RelayTypeOK
  BY DEF OwnInv
<1>. QED
  BY <1>1, OwnCorrect, PTL

\* However late, often and disordered heartbeats and acks arrive, and whoever
\* starts again meanwhile, the node asks only for addresses of its own sessions.
THEOREM NodeAsksForItsOwn == RelaySpec => []AsksForItsOwn
<1>1. OwnInv => AsksForItsOwn
  BY DEF OwnInv
<1>. QED
  BY <1>1, OwnCorrect, PTL
=============================================================================
