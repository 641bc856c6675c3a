-------------------------------- MODULE Relay --------------------------------
(***************************************************************************)
(* The server and one of its clients: Server, joined by heartbeats and acks*)
(* to the part of client/client.go that the server sees, the address that  *)
(* the process asks for.  Node is its client ID; the other clients are free*)
(* to send what they like.  (ClientNode has the rest of the process.)      *)
(*                                                                         *)
(* UDP is two sets of messages in flight, each message the address it      *)
(* carries.  A message arrives when it likes, not at all, or more than     *)
(* once, and vanishes in the end.  A redundant copy through another path   *)
(* is a message that arrives again.  Data packets and kicks are left to    *)
(* Server.                                                                 *)
(***************************************************************************)
EXTENDS Server

CONSTANTS
  Node  \* the client whose process is modelled

ASSUME NodeIsAClient == Node \in Client

VARIABLES
  virtualIP,  \* the node's address: what it asks for in its heartbeats
  hbNet,      \* addresses that its heartbeats in flight ask for
  ackNet,     \* addresses that acks in flight to it assign
  held,       \* history: the addresses that its sessions have had
  quiet       \* no process starts again from here on

net       == <<hbNet, ackNet>>
relayVars == <<vars, virtualIP, net, held, quiet>>

RelayTypeOK ==
  /\ TypeOK
  /\ virtualIP \in VIP0
  /\ hbNet \subseteq VIP0
  /\ ackNet \subseteq VIP0
  /\ held \subseteq VIP
  /\ quiet \in BOOLEAN

RelayInit ==
  /\ Init
  /\ virtualIP = ZeroIP
  /\ hbNet = {} /\ ackNet = {}
  /\ held = {}
  /\ quiet = FALSE

-----------------------------------------------------------------------------
(* The node *)

\* sendHeartbeat, once a second.
NodeHeartbeat ==
  /\ hbNet' = hbNet \cup {virtualIP}
  /\ UNCHANGED <<vars, virtualIP, ackNet, held, quiet>>

\* Mutant: an ack without an address leaves none that can be sent.
NodeHandlesAckAsNil(v) ==
  /\ v \in ackNet
  /\ virtualIP' = IF v = ZeroIP THEN Absent ELSE v
  /\ UNCHANGED <<vars, net, held, quiet>>

\* handleHeartbeatAck: whichever ack comes last counts.
NodeHandlesAck(v) ==
  /\ v \in ackNet
  /\ virtualIP' = v
  /\ UNCHANGED <<vars, net, held, quiet>>

\* A new process of the same client ID knows no address.
NodeRestart ==
  /\ ~quiet
  /\ virtualIP' = ZeroIP
  /\ UNCHANGED <<vars, net, held, quiet>>

-----------------------------------------------------------------------------
(* The server *)

\* Mutant: the ack repeats what the heartbeat asked for.
AckRequested(c, asked, given) ==
  ackNet' = IF c = Node THEN ackNet \cup {asked} ELSE ackNet

\* Mutant: everybody's ack goes to the node.
AckToAll(c, asked, given) == ackNet' = ackNet \cup {given}

\* sendHeartbeatAck: the ack goes where the heartbeat of c came from, with the
\* address of the session.
Ack(c, asked, given) ==
  ackNet' = IF c = Node THEN ackNet \cup {given} ELSE ackNet

\* A heartbeat of c that asks for v is taken from the socket.
Heartbeat(c, v) ==
  \E a \in Addr :
    \/ /\ KnownHeartbeat(c, a, NoExt)
       /\ Ack(c, v, vip[c])
    \/ /\ NewHeartbeat(c, v, a, NoExt)
       /\ UNCHANGED ackNet

HeartbeatArrives(v) ==
  /\ v \in hbNet
  /\ Heartbeat(Node, v)
  /\ UNCHANGED <<virtualIP, hbNet, held, quiet>>

OtherHeartbeat ==
  /\ \E c \in Client \ {Node}, v \in Asked : Heartbeat(c, v)
  /\ UNCHANGED <<virtualIP, hbNet, held, quiet>>

\* The end of a registration acknowledges it.
Registers ==
  /\ \/ /\ ReuseAllocation \/ AllocateNext \/ AllocationFails
        /\ UNCHANGED <<ackNet, held>>
     \/ /\ InsertSession
        /\ held' = IF recv.client = Node THEN held \cup ({recv.vip} \ {ZeroIP}) ELSE held
        /\ UNCHANGED ackNet
     \/ /\ PersistSession
        /\ Ack(recv.client, recv.vip, recv.vip)
        /\ UNCHANGED held
  /\ UNCHANGED <<virtualIP, hbNet, quiet>>

ServerTick == Tick /\ UNCHANGED <<virtualIP, net, held, quiet>>

Scan == CleanupScan /\ UNCHANGED <<virtualIP, net, held, quiet>>

Cleanup == CleanupStep /\ UNCHANGED <<virtualIP, net, held, quiet>>

ServerRestart ==
  /\ ~quiet
  /\ Restart
  /\ UNCHANGED <<virtualIP, net, held, quiet>>

\* Restarts come to an end, if they do.
Settle ==
  /\ ~quiet
  /\ quiet' = TRUE
  /\ UNCHANGED <<vars, virtualIP, net, held>>

-----------------------------------------------------------------------------
(* The network *)

\* While the server could have taken it: one that goes while the server is at a
\* registration might as well go right after.
HeartbeatVanishes(v) ==
  /\ v \in hbNet
  /\ recv.pc = "idle"
  /\ hbNet' = hbNet \ {v}
  /\ UNCHANGED <<virtualIP, vars, ackNet, held, quiet>>

AckVanishes(v) ==
  /\ v \in ackNet
  /\ ackNet' = ackNet \ {v}
  /\ UNCHANGED <<virtualIP, vars, hbNet, held, quiet>>

-----------------------------------------------------------------------------
(* The specification *)

RelayNext ==
  \/ NodeHeartbeat \/ NodeRestart
  \/ \E v \in VIP0 : NodeHandlesAck(v) \/ HeartbeatArrives(v)
  \/ OtherHeartbeat
  \/ Registers
  \/ ServerTick \/ Scan \/ Cleanup
  \/ ServerRestart \/ Settle
  \/ \E v \in VIP0 : HeartbeatVanishes(v) \/ AckVanishes(v)

RelaySpec == RelayInit /\ [][RelayNext]_relayVars

\* The node's ticker ticks.  A message does not stay in flight for ever, and of
\* infinitely many some arrive.  A registration or cleanup that has begun ends,
\* as in Server.  Nobody else has to do anything.
RelayFairness ==
  /\ WF_relayVars(NodeHeartbeat)
  /\ SF_relayVars(\E v \in VIP0 : HeartbeatArrives(v))
  /\ SF_relayVars(\E v \in VIP0 : NodeHandlesAck(v))
  /\ \A v \in VIP0 : SF_relayVars(HeartbeatVanishes(v)) /\ WF_relayVars(AckVanishes(v))
  /\ WF_relayVars(Registers)
  /\ WF_relayVars(ServerTick)
  /\ SF_relayVars(Scan)
  /\ WF_relayVars(Cleanup)

RelayFairSpec == RelaySpec /\ RelayFairness

-----------------------------------------------------------------------------
(* Properties *)

\* The node only ever asks for addresses that a session of its own has had, and
\* only these are on their way to it: late, repeated and reordered messages and
\* restarts of either side never make it ask for somebody else's.
AsksForItsOwn == {virtualIP} \cup hbNet \cup ackNet \subseteq held \cup {ZeroIP}

\* A node that keeps its session comes to use the session's address, however many
\* acks of earlier sessions are still under way.  (The server drops data from any
\* other source address.)
AgreesInTheEnd == <>[](quiet /\ Node \in sessions) => <>[](virtualIP = vip[Node])

\* Once restarts are over the node is registered again and again, whatever ends
\* its session and whoever took its address meanwhile.
ComesBack == []<>(quiet => Node \in sessions)
=============================================================================
