----------------------------- MODULE ClientNode -----------------------------
(***************************************************************************)
(* One client process (client/client.go): its registration, its TUN device *)
(* and the end of Run.  Four goroutines:                                   *)
(*   hb    heartbeatLoop, which asks for virtualIP once a second           *)
(*   rcv   recvLoop or recvLoopMultipath, which handles acks               *)
(*   tunr  tunReadLoop, which waits for tunReady and reads the device      *)
(*   run   Run itself: it waits for the context, closes what it finds,     *)
(*         waits for the other three and, in multipath mode, stops the     *)
(*         paths (Transport has their side of it)                          *)
(* Only rcv writes virtualIP, registered and tunDev.  The prefix length,   *)
(* numbers and payloads are left out; data changes no state here.  A       *)
(* heartbeat that fails, for want of a resolved name or a socket, is one   *)
(* that is not sent.                                                       *)
(***************************************************************************)
EXTENDS Integers

CONSTANTS
  Address,     \* what the server may assign
  TunMayFail,  \* whether CreateTUN may fail
  MayStop,     \* whether the context may be cancelled
  MayRestart   \* whether the process may be killed, or started again

ZeroIP == 0     \* net.IPv4zero: no address
NoDevice == -1  \* tunDev is nil

ASSUME AddressesAreNatural == Address \subseteq Nat \ {0}
ASSUME FlagsAreBoolean ==
  TunMayFail \in BOOLEAN /\ MayStop \in BOOLEAN /\ MayRestart \in BOOLEAN

VARIABLES
  virtualIP,   \* the address of the last ack
  registered,  \* whether an ack has come
  tunDev,      \* the address the device was made with, or NoDevice
  tunOpen,     \* whether the device is open
  tunReady,    \* whether the channel tunReady is closed
  closeWakes,  \* the platform: whether Close ends a Read that waits (Windows), or
               \* leaves it waiting (Linux: the file is opened in blocking mode)
  multipath,   \* useMultipath: one socket per interface instead of a single one
  hb, rcv, tunr, run

device == <<tunDev, tunOpen, tunReady, closeWakes, multipath>>
vars == <<virtualIP, registered, device, hb, rcv, tunr, run>>

TypeOK ==
  /\ virtualIP \in Address \cup {ZeroIP}
  /\ registered \in BOOLEAN
  /\ tunDev \in Address \cup {ZeroIP, NoDevice}
  /\ tunOpen \in BOOLEAN
  /\ tunReady \in BOOLEAN
  /\ closeWakes \in BOOLEAN
  /\ multipath \in BOOLEAN
  /\ hb \in {"first", "loop", "done"}
  /\ rcv \in {"idle", "setup", "ready", "done"}
  /\ tunr \in {"start", "wait", "loop", "read", "done"}
  /\ run \in {"running", "cancelled", "waiting", "stopping", "blocked", "returned"}

\* New, and Run up to the goroutines; multipath mode when its start succeeds.
Init ==
  /\ virtualIP = ZeroIP
  /\ registered = FALSE
  /\ tunDev = NoDevice /\ tunOpen = FALSE /\ tunReady = FALSE
  /\ hb = "first" /\ rcv = "idle" /\ tunr = "start"
  /\ run = "running"
  /\ closeWakes \in BOOLEAN
  /\ multipath \in BOOLEAN

Cancelled == run # "running"

-----------------------------------------------------------------------------
(* heartbeatLoop *)

\* sendHeartbeat; the first one does not wait for the ticker.
SendHeartbeat ==
  /\ hb \in {"first", "loop"}
  /\ hb' = "loop"
  /\ UNCHANGED <<virtualIP, registered, device, rcv, tunr, run>>

HbEnds ==
  /\ hb = "loop" /\ Cancelled
  /\ hb' = "done"
  /\ UNCHANGED <<virtualIP, registered, device, rcv, tunr, run>>

-----------------------------------------------------------------------------
(* The receive loop *)

\* Mutant: an ack is a new one unless it carries the address we have.
HandleAckAnew(v) ==
  /\ rcv = "idle"
  /\ virtualIP' = v
  /\ registered' = TRUE
  /\ rcv' = IF registered /\ virtualIP = v THEN "idle" ELSE "setup"
  /\ UNCHANGED <<device, hb, tunr, run>>

\* Mutant: no address is stored as nil.
HandleAckStoringNil(v) ==
  /\ rcv = "idle"
  /\ virtualIP' = IF v = ZeroIP THEN NoDevice ELSE v
  /\ registered' = TRUE
  /\ rcv' = IF registered THEN "idle" ELSE "setup"
  /\ UNCHANGED <<device, hb, tunr, run>>

\* handleHeartbeatAck with status OK; the first ack goes on to the device.
HandleAck(v) ==
  /\ rcv = "idle"
  /\ virtualIP' = v
  /\ registered' = TRUE
  /\ rcv' = IF registered THEN "idle" ELSE "setup"
  /\ UNCHANGED <<device, hb, tunr, run>>

\* setupTUN takes its time; it fails with a warning.
SetupTUN ==
  /\ rcv = "setup"
  /\ \/ tunDev' = virtualIP /\ tunOpen' = TRUE
     \/ TunMayFail /\ UNCHANGED <<tunDev, tunOpen>>
  /\ rcv' = "ready"
  /\ UNCHANGED <<virtualIP, registered, tunReady, closeWakes, multipath, hb, tunr, run>>

\* close(tunReady), with or without a device.
CloseTunReady ==
  /\ rcv = "ready"
  /\ tunReady' = TRUE
  /\ rcv' = "idle"
  /\ UNCHANGED <<virtualIP, registered, tunDev, tunOpen, closeWakes, multipath, hb, tunr, run>>

RcvEnds ==
  /\ rcv = "idle" /\ Cancelled
  /\ rcv' = "done"
  /\ UNCHANGED <<virtualIP, registered, device, hb, tunr, run>>

-----------------------------------------------------------------------------
(* tunReadLoop *)

\* A device that is there already needs no waiting for.
TunrStarts ==
  /\ tunr = "start"
  /\ tunr' = IF tunDev # NoDevice THEN "loop" ELSE "wait"
  /\ UNCHANGED <<virtualIP, registered, device, hb, rcv, run>>

\* Mutant: the wait ends with the registration.
TunrWakesEarly ==
  /\ tunr = "wait"
  /\ registered \/ Cancelled
  /\ tunr' = IF tunDev # NoDevice THEN "loop" ELSE "done"
  /\ UNCHANGED <<virtualIP, registered, device, hb, rcv, run>>

\* Either channel may be the one that select sees.
TunrWakes ==
  /\ tunr = "wait"
  /\ \/ tunReady /\ tunr' = IF tunDev # NoDevice THEN "loop" ELSE "done"
     \/ Cancelled /\ tunr' = "done"
  /\ UNCHANGED <<virtualIP, registered, device, hb, rcv, run>>

\* The look at the context, and into Read.
TunrLoops ==
  /\ tunr = "loop"
  /\ tunr' = IF Cancelled THEN "done" ELSE "read"
  /\ UNCHANGED <<virtualIP, registered, device, hb, rcv, run>>

\* Read returns a packet of the host, which is sent; a Read that waits keeps the
\* device alive where Close does not wake it.
TunrGets ==
  /\ tunr = "read"
  /\ tunOpen \/ ~closeWakes
  /\ tunr' = "loop"
  /\ UNCHANGED <<virtualIP, registered, device, hb, rcv, run>>

\* Read fails; only Run's end closes the device.  A Read that comes after Close
\* fails on both platforms.
TunrFails ==
  /\ tunr = "read"
  /\ ~tunOpen
  /\ tunr' = IF Cancelled THEN "done" ELSE "loop"
  /\ UNCHANGED <<virtualIP, registered, device, hb, rcv, run>>

-----------------------------------------------------------------------------
(* Run *)

Cancel ==
  /\ MayStop
  /\ run = "running"
  /\ run' = "cancelled"
  /\ UNCHANGED <<virtualIP, registered, device, hb, rcv, tunr>>

\* Mutant: the device is left to the end of the process.
RunClosesSocketOnly ==
  /\ run = "cancelled"
  /\ run' = "waiting"
  /\ UNCHANGED <<virtualIP, registered, device, hb, rcv, tunr>>

\* The socket and the device are closed, if there is one at this moment.
RunCloses ==
  /\ run = "cancelled"
  /\ tunOpen' = FALSE
  /\ run' = "waiting"
  /\ UNCHANGED <<virtualIP, registered, tunDev, tunReady, closeWakes, multipath, hb, rcv, tunr>>

\* wg.Wait is over: Run returns, through the deferred Stop in multipath mode.
RunEnds ==
  /\ run = "waiting"
  /\ hb = "done" /\ rcv = "done" /\ tunr = "done"
  /\ run' = IF multipath THEN "stopping" ELSE "returned"
  /\ UNCHANGED <<virtualIP, registered, device, hb, rcv, tunr>>

\* The deferred Stop ends its paths and their goroutines, ...
StopReturns ==
  /\ run = "stopping"
  /\ run' = "returned"
  /\ UNCHANGED <<virtualIP, registered, device, hb, rcv, tunr>>

\* ... or waits for ever for the reader of a path that pollInterfaces adds after
\* Stop emptied the map (Transport says when).
StopBlocks ==
  /\ run = "stopping"
  /\ run' = "blocked"
  /\ UNCHANGED <<virtualIP, registered, device, hb, rcv, tunr>>

\* The process is killed or has ended, and is started again.
Restart ==
  /\ MayRestart
  /\ virtualIP' = ZeroIP
  /\ registered' = FALSE
  /\ tunDev' = NoDevice /\ tunOpen' = FALSE /\ tunReady' = FALSE
  /\ hb' = "first" /\ rcv' = "idle" /\ tunr' = "start"
  /\ run' = "running"
  /\ multipath' \in BOOLEAN
  /\ UNCHANGED closeWakes

-----------------------------------------------------------------------------
(* The goroutines, and the specification.  Here any address may be acked at  *)
(* any time; in Relay the server and the network decide.                  *)

RcvStep  == SetupTUN \/ CloseTunReady \/ RcvEnds
TunrStep == TunrStarts \/ TunrWakes \/ TunrLoops \/ (closeWakes /\ TunrFails)
RunStep  == RunCloses \/ RunEnds \/ StopReturns \/ StopBlocks

Next ==
  \/ SendHeartbeat
  \/ \E v \in Address \cup {ZeroIP} : HandleAck(v)
  \/ HbEnds \/ RcvStep \/ TunrStep \/ TunrGets \/ TunrFails
  \/ Cancel \/ RunStep
  \/ Restart

Spec == Init /\ [][Next]_vars

\* Each goroutine goes on when it can, and the ticker ticks; a Read that waits goes
\* on where Close wakes it.  Nothing says that an ack comes, that the host sends a
\* packet, or that anybody cancels.
Fairness ==
  /\ WF_vars(SendHeartbeat) /\ WF_vars(HbEnds)
  /\ WF_vars(RcvStep)
  /\ WF_vars(TunrStep)
  /\ WF_vars(RunStep)

FairSpec == Spec /\ Fairness

-----------------------------------------------------------------------------
(* Properties *)

\* While the client runs, a device that was made has a reader, though the reader
\* started first, waits on a channel of its own and gives up without a device
\* (setupTUN and close(tunReady) are two steps, and the first may fail).
DeviceIsServed == run = "running" /\ tunDev # NoDevice => tunr # "done"

\* tunReady is closed once: closing it for the second time would panic.
ReadyOnce == rcv = "ready" => ~tunReady

\* Run ends with its context, whatever its goroutines waited for and whenever the
\* device was made.  Two things keep it: a Read which Close does not wake, until
\* the host sends a packet (Linux), and in multipath mode a Stop that waits for a
\* path added behind its back (client.go:169).
RunReturns ==
  run = "cancelled" ~> \/ run \in {"returned", "running"}
                       \/ ~closeWakes /\ tunr = "read"
                       \/ multipath /\ run = "blocked"
=============================================================================
