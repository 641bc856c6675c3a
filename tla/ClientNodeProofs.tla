-------------------------- MODULE ClientNodeProofs --------------------------
(***************************************************************************)
(* Theorems about ClientNode, for any set of addresses, any order of acks, *)
(* both platforms, devices that cannot be made, cancellation and restarts. *)
(***************************************************************************)
EXTENDS ClientNode, TLAPS

\* What the receive loop knows: the device is made and tunReady closed by one
\* ack, the first, which alone finds registered unset.
SetupOnce ==
  /\ rcv \in {"setup", "ready"} => registered /\ ~tunReady
  /\ tunReady => registered

\* A reader that has ended while the client runs found tunReady closed and no
\* device; no device comes after that.
ReaderGaveUp == run = "running" /\ tunr = "done" => tunReady /\ tunDev = NoDevice

NodeInv == TypeOK /\ SetupOnce /\ ReaderGaveUp

\* Every goroutine's step keeps every variable in its type.
LEMMA StepType == ASSUME TypeOK, [Next]_vars PROVE TypeOK'
<1> USE DEF TypeOK, device
<1>1. CASE SendHeartbeat BY <1>1 DEF SendHeartbeat
<1>2. ASSUME NEW v \in Address \cup {ZeroIP}, HandleAck(v) PROVE TypeOK'
  BY <1>2 DEF HandleAck
<1>3. CASE HbEnds BY <1>3 DEF HbEnds
<1>4. CASE RcvStep
  <2>1. CASE SetupTUN
    <3>1. CASE tunDev' = virtualIP /\ tunOpen' = TRUE
      BY <2>1, <3>1 DEF SetupTUN
    <3>2. CASE UNCHANGED <<tunDev, tunOpen>>
      BY <2>1, <3>2 DEF SetupTUN
    <3> QED BY <2>1, <3>1, <3>2 DEF SetupTUN
  <2>2. CASE CloseTunReady BY <2>2 DEF CloseTunReady
  <2>3. CASE RcvEnds BY <2>3 DEF RcvEnds
  <2> QED BY <1>4, <2>1, <2>2, <2>3 DEF RcvStep
<1>5. CASE TunrStep \/ TunrGets \/ TunrFails
  <2>1. CASE TunrStarts BY <2>1 DEF TunrStarts
  <2>2. CASE TunrWakes BY <2>2 DEF TunrWakes
  <2>3. CASE TunrLoops BY <2>3 DEF TunrLoops
  <2>4. CASE TunrFails BY <2>4 DEF TunrFails
  <2>5. CASE TunrGets BY <2>5 DEF TunrGets
  <2> QED BY <1>5, <2>1, <2>2, <2>3, <2>4, <2>5 DEF TunrStep
<1>6. CASE Cancel BY <1>6 DEF Cancel
<1>7. CASE RunStep
  <2>1. CASE RunCloses
    <3>1. /\ tunOpen' = FALSE /\ run' = "waiting"
          /\ UNCHANGED <<virtualIP, registered, tunDev, tunReady, closeWakes, multipath, hb, rcv, tunr>>
      BY <2>1 DEF RunCloses
    <3>2. virtualIP' \in Address \cup {ZeroIP} /\ tunDev' \in Address \cup {ZeroIP, NoDevice}
      BY <3>1
    <3> QED BY <3>1, <3>2
  <2>2. CASE RunEnds BY <2>2 DEF RunEnds
  <2>3. CASE StopReturns \/ StopBlocks BY <2>3 DEF StopReturns, StopBlocks
  <2> QED BY <1>7, <2>1, <2>2, <2>3 DEF RunStep
<1>8. CASE Restart BY <1>8 DEF Restart
<1>9. CASE UNCHANGED vars BY <1>9 DEF vars
<1> QED BY <1>1, <1>2, <1>3, <1>4, <1>5, <1>6, <1>7, <1>8, <1>9 DEF Next

\* Only the first ack leads to a device and to the closing of tunReady.
LEMMA StepSetup == ASSUME TypeOK, SetupOnce, [Next]_vars PROVE SetupOnce'
<1> USE DEF SetupOnce, device
<1>1. CASE SendHeartbeat BY <1>1 DEF SendHeartbeat
<1>2. ASSUME NEW v \in Address \cup {ZeroIP}, HandleAck(v) PROVE SetupOnce'
  BY <1>2 DEF HandleAck
<1>3. CASE HbEnds BY <1>3 DEF HbEnds
<1>4. CASE RcvStep
  <2>1. CASE SetupTUN BY <2>1 DEF SetupTUN
  <2>2. CASE CloseTunReady BY <2>2 DEF CloseTunReady
  <2>3. CASE RcvEnds BY <2>3 DEF RcvEnds
  <2> QED BY <1>4, <2>1, <2>2, <2>3 DEF RcvStep
<1>5. CASE TunrStep \/ TunrGets \/ TunrFails
  <2>1. CASE TunrStarts BY <2>1 DEF TunrStarts
  <2>2. CASE TunrWakes BY <2>2 DEF TunrWakes
  <2>3. CASE TunrLoops BY <2>3 DEF TunrLoops
  <2>4. CASE TunrFails BY <2>4 DEF TunrFails
  <2>5. CASE TunrGets BY <2>5 DEF TunrGets
  <2> QED BY <1>5, <2>1, <2>2, <2>3, <2>4, <2>5 DEF TunrStep
<1>6. CASE Cancel BY <1>6 DEF Cancel
<1>7. CASE RunStep
  <2>1. CASE RunCloses BY <2>1 DEF RunCloses
  <2>2. CASE RunEnds BY <2>2 DEF RunEnds
  <2>3. CASE StopReturns \/ StopBlocks BY <2>3 DEF StopReturns, StopBlocks
  <2> QED BY <1>7, <2>1, <2>2, <2>3 DEF RunStep
<1>8. CASE Restart BY <1>8 DEF Restart
<1>9. CASE UNCHANGED vars BY <1>9 DEF vars
<1> QED BY <1>1, <1>2, <1>3, <1>4, <1>5, <1>6, <1>7, <1>8, <1>9 DEF Next

\* A reader gives up for good: the device would have to come before tunReady.
LEMMA StepReader == ASSUME NodeInv, [Next]_vars PROVE ReaderGaveUp'
<1> USE DEF NodeInv, SetupOnce, ReaderGaveUp, device, Cancelled
<1>1. CASE SendHeartbeat BY <1>1 DEF SendHeartbeat
<1>2. ASSUME NEW v \in Address \cup {ZeroIP}, HandleAck(v) PROVE ReaderGaveUp'
  BY <1>2 DEF HandleAck
<1>3. CASE HbEnds BY <1>3 DEF HbEnds
<1>4. CASE RcvStep
  <2>1. CASE SetupTUN BY <2>1 DEF SetupTUN
  <2>2. CASE CloseTunReady BY <2>2 DEF CloseTunReady
  <2>3. CASE RcvEnds BY <2>3 DEF RcvEnds
  <2> QED BY <1>4, <2>1, <2>2, <2>3 DEF RcvStep
<1>5. CASE TunrStep \/ TunrGets \/ TunrFails
  <2>1. CASE TunrStarts BY <2>1 DEF TunrStarts
  <2>2. CASE TunrWakes BY <2>2 DEF TunrWakes
  <2>3. CASE TunrLoops BY <2>3 DEF TunrLoops
  <2>4. CASE TunrFails BY <2>4 DEF TunrFails
  <2>5. CASE TunrGets BY <2>5 DEF TunrGets
  <2> QED BY <1>5, <2>1, <2>2, <2>3, <2>4, <2>5 DEF TunrStep
<1>6. CASE Cancel BY <1>6 DEF Cancel
<1>7. CASE RunStep
  <2>1. CASE RunCloses BY <2>1 DEF RunCloses
  <2>2. CASE RunEnds BY <2>2 DEF RunEnds
  <2>3. CASE StopReturns \/ StopBlocks BY <2>3 DEF StopReturns, StopBlocks
  <2> QED BY <1>7, <2>1, <2>2, <2>3 DEF RunStep
<1>8. CASE Restart BY <1>8 DEF Restart
<1>9. CASE UNCHANGED vars BY <1>9 DEF vars
<1> QED BY <1>1, <1>2, <1>3, <1>4, <1>5, <1>6, <1>7, <1>8, <1>9 DEF Next

LEMMA NodeInvariant == Spec => []NodeInv
<1>1. Init => NodeInv
  BY DEF Init, NodeInv, TypeOK, SetupOnce, ReaderGaveUp
<1>2. NodeInv /\ [Next]_vars => NodeInv'
  BY StepType, StepSetup, StepReader DEF NodeInv
<1> QED BY <1>1, <1>2, PTL DEF Spec

\* The type invariant of a client process.
THEOREM TypeCorrect == Spec => []TypeOK
<1>1. NodeInv => TypeOK BY DEF NodeInv
<1> QED BY <1>1, NodeInvariant, PTL

\* A device that was made is read as long as the client runs: tunReadLoop never
\* gives up before the device that setupTUN is still making.
THEOREM DevicesAreServed == Spec => []DeviceIsServed
<1>1. NodeInv => DeviceIsServed BY DEF NodeInv, ReaderGaveUp, DeviceIsServed
<1> QED BY <1>1, NodeInvariant, PTL

\* handleHeartbeatAck closes tunReady at most once, however many acks come while
\* the device is being made.
THEOREM ClosedOnce == Spec => []ReadyOnce
<1>1. NodeInv => ReadyOnce BY DEF NodeInv, SetupOnce, ReadyOnce
<1> QED BY <1>1, NodeInvariant, PTL
=============================================================================
