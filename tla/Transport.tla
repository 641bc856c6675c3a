------------------------------ MODULE Transport ------------------------------
(***************************************************************************)
(* The client's multipath transport (client/transport.go) under the three  *)
(* loops that use it (client/client.go):                                   *)
(*   hb         heartbeatLoop: heartbeats, then the check for stale paths  *)
(*   snd        tunReadLoop: data packets                                  *)
(*   rcv        recvLoopMultipath: acks                                    *)
(*   poll       pollInterfaces, five times a second                        *)
(*   reader[s]  perPathRecvLoop, one for each socket ever made             *)
(*   run        Run's end, and Stop                                        *)
(* MultiPath.mu guards the map of paths: hb and snd keep it for reading    *)
(* through their loops, recyclePath for writing through its whole body.    *)
(* removePath and the readers use p.Conn and p.closed without any lock, so *)
(* the steps of recyclePath that they can see are steps of their own.      *)
(*                                                                         *)
(* A socket and the channel "closed" made next to it have one number; a    *)
(* Path has the number of its first socket.  Data, sizes, round-trip times *)
(* and the central socket, whose acks confirm no path, are left out.       *)
(***************************************************************************)
EXTENDS Integers, Sequences, FiniteSets

CONSTANTS
  Iface,         \* names of the physical interfaces
  NoIface,       \* no name
  LAddr,         \* local addresses of the server's family
  OtherFamily,   \* the interface only has addresses of the other family
  NoLAddr,       \* the interface is down, or has no usable address
  PathStale,     \* pathStaleTimeout, in heartbeat intervals
  MinInterval,   \* recycleMinInterval
  Backoff,       \* recycleBackoff
  MaxAttempts,   \* recycleMaxAttempts
  ChanSize,      \* recvChanSize
  FaultySockets, \* whether a socket may fail although its address is the interface's
  ScansMayMiss,  \* whether scanInterfaces may miss interfaces that are there
  MaySendFail,   \* whether a write on an open socket may fail
  MayStop,       \* whether the context may be cancelled
  MaxSocket,     \* bound: sockets made
  MaxRecycles,   \* bound: recycles, before the next of which hb stands still
  MaxChanges     \* bound: changes of the interfaces, and scans that miss some

ASSUME NullsAreNotValues == NoIface \notin Iface /\ NoLAddr \notin LAddr \cup {OtherFamily} /\ OtherFamily \notin LAddr
ASSUME NumbersAreNatural ==
  /\ PathStale \in Nat /\ MinInterval \in Nat /\ Backoff \in Nat
  /\ MaxAttempts \in Nat /\ ChanSize \in Nat /\ MaxSocket \in Nat
  /\ MaxRecycles \in Nat /\ MaxChanges \in Nat
ASSUME FlagsAreBoolean ==
  /\ FaultySockets \in BOOLEAN /\ ScansMayMiss \in BOOLEAN
  /\ MaySendFail \in BOOLEAN /\ MayStop \in BOOLEAN

Sock  == 1 .. MaxSocket
None  == 0             \* no socket, no path
Never == -1            \* the zero time of lastRecycled
Nic    == LAddr \cup {OtherFamily, NoLAddr}   \* what scanInterfaces finds
Status == {"probing", "active", "suspect", "down"}

VARIABLES
  nics,       \* nics[i]: the first usable address of interface i
  changes,    \* how often nics changed or a scan missed some
  made,       \* number of sockets made
  open,       \* sockets not closed
  shut,       \* channels "closed" that are closed
  paths,      \* paths[i]: the Path of i in the map, or None
  path,       \* path[p]: the fields of Path p
  reader,     \* reader[s]: the perPathRecvLoop started with socket s
  recvCh,     \* interface names of the acks in recvCh
  pinged,     \* sockets that a heartbeat has left through
  recycled,   \* number of recycles
  hb, snd, rcv, poll, run,
  panicked    \* a channel was closed twice: the process is dead

sockets == <<made, open, shut>>
env     == <<nics, changes>>
vars    == <<env, sockets, paths, path, reader, recvCh, pinged, recycled,
             hb, snd, rcv, poll, run, panicked>>

NoPath   == [iface |-> NoIface, addr |-> NoLAddr, conn |-> None, closed |-> None,
             status |-> "probing", lastRecv |-> 0, lastRecycled |-> Never, recycles |-> 0]
NoReader == [pc |-> "none", path |-> None, conn |-> None]
Ended    == [NoReader EXCEPT !.pc = "done"]
HbIdle   == [pc |-> "idle", todo |-> {}, stale |-> {}, name |-> NoIface]
SndIdle  == [pc |-> "idle", todo |-> {}, name |-> NoIface]
RcvIdle  == [pc |-> "idle", path |-> None]
NoNics   == [i \in Iface |-> NoLAddr]
PollIdle == [pc |-> "idle", phase |-> "gone", snap |-> NoNics,
             known |-> {}, todo |-> {}, name |-> NoIface, path |-> None]

TypeOK ==
  /\ nics \in [Iface -> Nic]
  /\ changes \in 0 .. MaxChanges
  /\ made \in 0 .. MaxSocket
  /\ open \subseteq 1 .. made
  /\ shut \subseteq 1 .. made
  /\ paths \in [Iface -> 0 .. made]
  /\ path \in [Sock -> [iface : Iface \cup {NoIface}, addr : LAddr \cup {NoLAddr},
                        conn : 0 .. made, closed : 0 .. made, status : Status,
                        lastRecv : 0 .. (PathStale + 1),
                        lastRecycled : Never .. (Backoff + 1), recycles : 0 .. MaxAttempts]]
  /\ reader \in [Sock -> [pc : {"none", "top", "read", "done"}, path : 0 .. made, conn : 0 .. made]]
  /\ recvCh \in Seq(Iface) /\ Len(recvCh) <= ChanSize
  /\ pinged \subseteq 1 .. made
  /\ recycled \in Nat
  /\ hb \in [pc : {"idle", "send", "sent", "check", "mark", "recycle", "create", "swap", "done"},
             todo : SUBSET Iface, stale : SUBSET Iface, name : Iface \cup {NoIface}]
  /\ snd \in [pc : {"idle", "send", "mark", "done"}, todo : SUBSET Iface, name : Iface \cup {NoIface}]
  /\ rcv \in [pc : {"idle", "done"}, path : {None}] \cup [pc : {"update"}, path : 1 .. made]
  /\ poll \in [pc : {"idle", "next", "remove", "close", "delete", "open", "insert", "spawn", "done"},
               phase : {"gone", "new", "moved"}, snap : [Iface -> Nic],
               known : SUBSET Iface, todo : SUBSET Iface, name : Iface \cup {NoIface}, path : 0 .. made]
  /\ poll.pc \in {"close", "delete", "insert", "spawn"} => poll.name \in Iface /\ poll.path # None
  /\ run \in {"running", "cancelled", "stopping", "waiting", "stopped"}
  /\ panicked \in BOOLEAN

Init ==
  /\ nics \in [Iface -> Nic]
  /\ changes = 0
  /\ made = 0 /\ open = {} /\ shut = {}
  /\ paths = [i \in Iface |-> None]
  /\ path = [s \in Sock |-> NoPath]
  /\ reader = [s \in Sock |-> NoReader]
  /\ recvCh = <<>>
  /\ pinged = {}
  /\ recycled = 0
  /\ hb = HbIdle /\ snd = SndIdle /\ rcv = RcvIdle /\ poll = PollIdle
  /\ run = "running"
  /\ panicked = FALSE

-----------------------------------------------------------------------------
(* Panics, locks, channels and sockets *)

\* A panic ends the process, and every goroutine with it.
At(goroutine, pc) == ~panicked /\ goroutine.pc = pc

WriteLocked == hb.pc \in {"create", "swap"}
ReadLocked  == hb.pc \in {"send", "check", "mark"} \/ snd.pc \in {"send", "mark"}
CanLock     == ~WriteLocked /\ ~ReadLocked

StopClosed == run \in {"stopping", "waiting", "stopped"}   \* stopCh is closed

Known     == {i \in Iface : paths[i] # None}
Usable(n) == {i \in Iface : n[i] # NoLAddr}

\* Mutant: the socket stays open.
ClosePathsHalf(P) ==
  LET channels == {path[p].closed : p \in P}
  IN  IF channels \cap shut # {}
      THEN panicked' = TRUE /\ UNCHANGED sockets
      ELSE /\ shut' = shut \cup channels
           /\ UNCHANGED <<made, open, panicked>>

\* close(p.closed); p.Conn.Close(): a second close of a channel panics.
ClosePaths(P) ==
  LET channels == {path[p].closed : p \in P}
  IN  IF channels \cap shut # {}
      THEN panicked' = TRUE /\ UNCHANGED sockets
      ELSE /\ shut' = shut \cup channels
           /\ open' = open \ {path[p].conn : p \in P}
           /\ UNCHANGED <<made, panicked>>

\* createBoundUDPConn may fail once a is not the first address of i: gone, or still
\* there as another one.
BindMayFail(i, a) == nics[i] # a \/ FaultySockets

MakeSocket ==
  /\ made < MaxSocket
  /\ made' = made + 1
  /\ open' = open \cup {made'}
  /\ UNCHANGED shut

StartReader(s, p) == reader' = [reader EXCEPT ![s] = [pc |-> "top", path |-> p, conn |-> None]]

\* What a reader still looks at once the path is out of the map.
Removed(p) == [path[p] EXCEPT !.status = "probing", !.lastRecv = 0, !.lastRecycled = Never, !.recycles = 0]

SetStatus(p, st) == path' = [path EXCEPT ![p].status = st]

-----------------------------------------------------------------------------
(* heartbeatLoop: one round a second *)

Older(age, limit) == IF age # Never /\ age <= limit THEN age + 1 ELSE age

\* The ticker, and the heartbeat that heartbeatLoop sends before the first tick:
\* SendAllHeartbeat takes the lock for reading.  Nobody asks for
\* the ages of a path outside the map.
Tick ==
  /\ At(hb, "idle")
  /\ path' = [p \in Sock |-> IF \A i \in Iface : paths[i] # p THEN path[p]
                             ELSE [path[p] EXCEPT !.lastRecv = Older(@, PathStale),
                                                  !.lastRecycled = Older(@, Backoff)]]
  /\ hb' = [HbIdle EXCEPT !.pc = "send", !.todo = Known]
  /\ UNCHANGED <<env, sockets, paths, reader, recvCh, pinged, recycled, snd, rcv, poll, run, panicked>>

\* A path that is down gets no heartbeat; a failed write makes a path suspect.
HeartbeatOn(i) ==
  LET p == paths[i] IN
  /\ At(hb, "send")
  /\ i \in hb.todo
  /\ \/ /\ path[p].status = "down"
        /\ UNCHANGED <<pinged, path>>
     \/ /\ path[p].status # "down"
        /\ path[p].conn \in open
        /\ pinged' = (pinged \cap open) \cup {path[p].conn}
        /\ UNCHANGED path
     \/ /\ path[p].status # "down"
        /\ path[p].conn \notin open \/ MaySendFail
        /\ SetStatus(p, "suspect")
        /\ UNCHANGED pinged
  /\ hb' = [hb EXCEPT !.todo = @ \ {i}]
  /\ UNCHANGED <<env, sockets, paths, reader, recvCh, recycled, snd, rcv, poll, run, panicked>>

HeartbeatsSent ==
  /\ At(hb, "send")
  /\ hb.todo = {}
  /\ hb' = [hb EXCEPT !.pc = "sent"]
  /\ UNCHANGED <<env, sockets, paths, path, reader, recvCh, pinged, recycled, snd, rcv, poll, run, panicked>>

BeginCheck ==
  /\ At(hb, "sent")
  /\ hb' = [hb EXCEPT !.pc = "check", !.todo = Known]
  /\ UNCHANGED <<env, sockets, paths, path, reader, recvCh, pinged, recycled, snd, rcv, poll, run, panicked>>

\* The tests of CheckAndRecycleStalePaths, on what p.mu showed.
Exhausted(p) == path[p].recycles >= MaxAttempts
Recyclable(p) ==
  IF path[p].status = "down"
  THEN Exhausted(p) /\ (path[p].lastRecycled = Never \/ path[p].lastRecycled > Backoff)
  ELSE /\ path[p].lastRecv > PathStale
       /\ ~Exhausted(p)
       /\ path[p].lastRecycled = Never \/ path[p].lastRecycled > MinInterval
GivenUp(p) == path[p].status # "down" /\ path[p].lastRecv > PathStale /\ Exhausted(p)

CheckPath(i) ==
  /\ At(hb, "check")
  /\ i \in hb.todo
  /\ hb' = [hb EXCEPT !.todo = @ \ {i},
                      !.stale = IF Recyclable(paths[i]) THEN @ \cup {i} ELSE @,
                      !.pc = IF GivenUp(paths[i]) THEN "mark" ELSE "check",
                      !.name = IF GivenUp(paths[i]) THEN i ELSE NoIface]
  /\ UNCHANGED <<env, sockets, paths, path, reader, recvCh, pinged, recycled, snd, rcv, poll, run, panicked>>

\* p.mu was given up since the test: the status is written on what it showed.
MarkDown ==
  /\ At(hb, "mark")
  /\ SetStatus(paths[hb.name], "down")
  /\ hb' = [hb EXCEPT !.pc = "check", !.name = NoIface]
  /\ UNCHANGED <<env, sockets, paths, reader, recvCh, pinged, recycled, snd, rcv, poll, run, panicked>>

\* The lock for reading is given up before the stale paths are recycled.
CheckDone ==
  /\ At(hb, "check")
  /\ hb.todo = {}
  /\ hb' = [HbIdle EXCEPT !.pc = "recycle", !.todo = hb.stale]
  /\ UNCHANGED <<env, sockets, paths, path, reader, recvCh, pinged, recycled, snd, rcv, poll, run, panicked>>

-----------------------------------------------------------------------------
(* recyclePath, with the lock for writing *)

RecycleBegins(i) ==
  /\ At(hb, "recycle")
  /\ i \in hb.todo
  /\ CanLock
  /\ recycled < MaxRecycles
  /\ IF paths[i] = None
     THEN /\ hb' = [hb EXCEPT !.todo = @ \ {i}]
          /\ UNCHANGED <<sockets, panicked>>
     ELSE /\ ClosePaths({paths[i]})
          /\ hb' = [hb EXCEPT !.pc = "create", !.todo = @ \ {i}, !.name = i]
  /\ UNCHANGED <<env, paths, path, reader, recvCh, pinged, recycled, snd, rcv, poll, run>>

RecycleOpens ==
  LET p == paths[hb.name] IN
  /\ At(hb, "create")
  /\ MakeSocket
  /\ path' = [path EXCEPT ![p].conn = made']
  /\ hb' = [hb EXCEPT !.pc = "swap"]
  /\ UNCHANGED <<env, paths, reader, recvCh, pinged, recycled, snd, rcv, poll, run, panicked>>

\* Neither recycleCount nor lastRecycled tells of the attempt.
RecycleFails ==
  LET p == paths[hb.name] IN
  /\ At(hb, "create")
  /\ BindMayFail(hb.name, path[p].addr)
  /\ SetStatus(p, "down")
  /\ hb' = [hb EXCEPT !.pc = "recycle", !.name = NoIface]
  /\ UNCHANGED <<env, sockets, paths, reader, recvCh, pinged, recycled, snd, rcv, poll, run, panicked>>

\* Mutant: no goroutine reads the new socket.
RecycleSwapsOnly ==
  LET p == paths[hb.name] IN
  /\ At(hb, "swap")
  /\ path' = [path EXCEPT ![p].closed = path[p].conn, ![p].status = "probing",
                          ![p].lastRecycled = 0, ![p].recycles = IF @ < MaxAttempts THEN @ + 1 ELSE @]
  /\ recycled' = recycled + 1
  /\ hb' = [hb EXCEPT !.pc = "recycle", !.name = NoIface]
  /\ UNCHANGED <<env, sockets, paths, reader, recvCh, pinged, snd, rcv, poll, run, panicked>>

\* The new channel, the counters and the new reader (recycleCount is only
\* compared with recycleMaxAttempts: it counts no further here).
RecycleSwaps ==
  LET p == paths[hb.name] IN
  /\ At(hb, "swap")
  /\ path' = [path EXCEPT ![p].closed = path[p].conn, ![p].status = "probing",
                          ![p].lastRecycled = 0, ![p].recycles = IF @ < MaxAttempts THEN @ + 1 ELSE @]
  /\ StartReader(path[p].conn, p)
  /\ recycled' = recycled + 1
  /\ hb' = [hb EXCEPT !.pc = "recycle", !.name = NoIface]
  /\ UNCHANGED <<env, sockets, paths, recvCh, pinged, snd, rcv, poll, run, panicked>>

RoundDone ==
  /\ At(hb, "recycle")
  /\ hb.todo = {}
  /\ hb' = HbIdle
  /\ UNCHANGED <<env, sockets, paths, path, reader, recvCh, pinged, recycled, snd, rcv, poll, run, panicked>>

-----------------------------------------------------------------------------
(* Send, from tunReadLoop *)

SendBegins ==
  /\ At(snd, "idle")
  /\ ~WriteLocked
  /\ Known # {}
  /\ snd' = [pc |-> "send", todo |-> Known, name |-> NoIface]
  /\ UNCHANGED <<env, sockets, paths, path, reader, recvCh, pinged, recycled, hb, rcv, poll, run, panicked>>

\* Only active paths carry data; what a write tells is noted under p.mu later.
SendOn(i) ==
  LET p == paths[i] IN
  /\ At(snd, "send")
  /\ i \in snd.todo
  /\ \/ /\ path[p].status # "active" \/ path[p].conn \in open
        /\ snd' = [snd EXCEPT !.todo = @ \ {i}]
     \/ /\ path[p].status = "active"
        /\ path[p].conn \notin open \/ MaySendFail
        /\ snd' = [snd EXCEPT !.pc = "mark", !.todo = @ \ {i}, !.name = i]
  /\ UNCHANGED <<env, sockets, paths, path, reader, recvCh, pinged, recycled, hb, rcv, poll, run, panicked>>

SendMarks ==
  /\ At(snd, "mark")
  /\ SetStatus(paths[snd.name], "suspect")
  /\ snd' = [snd EXCEPT !.pc = "send", !.name = NoIface]
  /\ UNCHANGED <<env, sockets, paths, reader, recvCh, pinged, recycled, hb, rcv, poll, run, panicked>>

SendDone ==
  /\ At(snd, "send")
  /\ snd.todo = {}
  /\ snd' = SndIdle
  /\ UNCHANGED <<env, sockets, paths, path, reader, recvCh, pinged, recycled, hb, rcv, poll, run, panicked>>

-----------------------------------------------------------------------------
(* Acks: recvLoopMultipath and UpdateRTT *)

\* The ack names an interface; the Path is the one the map has for it now.
AckTaken ==
  /\ At(rcv, "idle")
  /\ recvCh # <<>>
  /\ ~WriteLocked
  /\ recvCh' = Tail(recvCh)
  /\ rcv' = IF paths[Head(recvCh)] = None THEN RcvIdle
            ELSE [pc |-> "update", path |-> paths[Head(recvCh)]]
  /\ UNCHANGED <<env, sockets, paths, path, reader, pinged, recycled, hb, snd, poll, run, panicked>>

\* Under p.mu alone, which recyclePath holds while it replaces socket and channel.
AckRecorded ==
  /\ At(rcv, "update")
  /\ hb.pc # "swap"
  /\ path' = [path EXCEPT ![rcv.path].status = "active", ![rcv.path].lastRecv = 0,
                          ![rcv.path].recycles = 0]
  /\ rcv' = RcvIdle
  /\ UNCHANGED <<env, sockets, paths, reader, recvCh, pinged, recycled, hb, snd, poll, run, panicked>>

-----------------------------------------------------------------------------
(* perPathRecvLoop *)

\* p.Conn is read without a lock, each time around.
ReaderLoads(s) ==
  /\ At(reader[s], "top")
  /\ reader' = [reader EXCEPT ![s].pc = "read", ![s].conn = path[reader[s].path].conn]
  /\ UNCHANGED <<env, sockets, paths, path, recvCh, pinged, recycled, hb, snd, rcv, poll, run, panicked>>

\* The server answers a heartbeat to the socket it came from, once or more
\* often; a full recvCh drops the ack.
ReaderGets(s) ==
  /\ At(reader[s], "read")
  /\ reader[s].conn \in open \cap pinged
  /\ \/ /\ recvCh' = IF Len(recvCh) < ChanSize
                     THEN Append(recvCh, path[reader[s].path].iface) ELSE recvCh
        /\ reader' = [reader EXCEPT ![s].pc = "top", ![s].conn = None]
     \/ /\ StopClosed
        /\ reader' = [reader EXCEPT ![s] = Ended]
        /\ UNCHANGED recvCh
  /\ UNCHANGED <<env, sockets, paths, path, pinged, recycled, hb, snd, rcv, poll, run, panicked>>

\* Mutant: only stopCh ends the loop.
ReaderFailsOn(s) ==
  /\ At(reader[s], "read")
  /\ reader[s].conn \notin open
  /\ reader' = [reader EXCEPT ![s] = IF StopClosed THEN Ended ELSE [@ EXCEPT !.pc = "top", !.conn = None]]
  /\ UNCHANGED <<env, sockets, paths, path, recvCh, pinged, recycled, hb, snd, rcv, poll, run, panicked>>

\* An error ends the loop only if stopCh or the channel p.closed, as it is now,
\* is closed: a loop that wakes after recyclePath goes on with the new socket.
ReaderFails(s) ==
  /\ At(reader[s], "read")
  /\ reader[s].conn \notin open
  /\ reader' = [reader EXCEPT ![s] =
       IF StopClosed \/ path[@.path].closed \in shut THEN Ended ELSE [@ EXCEPT !.pc = "top", !.conn = None]]
  /\ UNCHANGED <<env, sockets, paths, path, recvCh, pinged, recycled, hb, snd, rcv, poll, run, panicked>>

-----------------------------------------------------------------------------
(* detectChanges *)

\* Interfaces come, go and change their address.
NicChanges(i, a) ==
  /\ ~panicked /\ changes < MaxChanges
  /\ nics[i] # a
  /\ nics' = [nics EXCEPT ![i] = a]
  /\ changes' = changes + 1
  /\ UNCHANGED <<sockets, paths, path, reader, recvCh, pinged, recycled, hb, snd, rcv, poll, run, panicked>>

Polling(found) ==
  poll' = [PollIdle EXCEPT !.pc = "next", !.snap = found, !.known = Known,
                           !.todo = Known \ Usable(found)]

\* scanInterfaces misses all interfaces when net.Interfaces fails, and one whose
\* addresses cannot be read.
DetectChanges ==
  /\ At(poll, "idle")
  /\ ~WriteLocked
  /\ \/ Polling(nics) /\ UNCHANGED changes
     \/ /\ ScansMayMiss /\ changes < MaxChanges
        /\ changes' = changes + 1
        /\ \E missed \in (SUBSET Iface) \ {{}} :
             Polling([i \in Iface |-> IF i \in missed THEN NoLAddr ELSE nics[i]])
  /\ UNCHANGED <<nics, sockets, paths, path, reader, recvCh, pinged, recycled, hb, snd, rcv, run, panicked>>

\* Mutant: addresses are not compared.
PhasesWithoutMoved ==
  /\ At(poll, "next")
  /\ poll.todo = {}
  /\ poll' = IF poll.phase = "gone"
             THEN [poll EXCEPT !.phase = "new", !.todo = Usable(poll.snap) \ poll.known]
             ELSE PollIdle
  /\ UNCHANGED <<env, sockets, paths, path, reader, recvCh, pinged, recycled, hb, snd, rcv, run, panicked>>

\* Removed first, then added, then those whose address changed.
NextPhase ==
  LET added == Usable(poll.snap) \ poll.known
  IN  /\ At(poll, "next")
      /\ poll.todo = {}
      /\ poll' = IF poll.phase = "gone" /\ added # {} THEN [poll EXCEPT !.phase = "new", !.todo = added]
                 ELSE IF poll.phase # "moved" THEN [poll EXCEPT !.phase = "moved", !.todo = Usable(poll.snap)]
                 ELSE PollIdle
      /\ UNCHANGED <<env, sockets, paths, path, reader, recvCh, pinged, recycled, hb, snd, rcv, run, panicked>>

Moved(i) == paths[i] # None /\ poll.snap[i] # OtherFamily /\ path[paths[i]].addr # poll.snap[i]

Skipping(i) == poll' = [poll EXCEPT !.todo = @ \ {i}]
Removing(i) == poll' = [poll EXCEPT !.todo = @ \ {i}, !.pc = "close", !.name = i, !.path = paths[i]]
Moving(i)   == poll' = [poll EXCEPT !.todo = @ \ {i}, !.pc = "remove", !.name = i]
Adding(i)   == poll' = [poll EXCEPT !.todo = @ \ {i}, !.pc = "open", !.name = i]

\* Mutant: removePath does not ask whether the path is still there.
TakeInterfaceUnchecked(i) ==
  /\ At(poll, "next")
  /\ i \in poll.todo
  /\ \/ poll.phase = "gone" /\ ~WriteLocked /\ Removing(i)
     \/ poll.phase = "new" /\ IF poll.snap[i] = OtherFamily THEN Skipping(i) ELSE Adding(i)
     \/ /\ poll.phase = "moved"
        /\ ~WriteLocked
        /\ IF Moved(i) THEN Moving(i) ELSE Skipping(i)
  /\ UNCHANGED <<env, sockets, paths, path, reader, recvCh, pinged, recycled, hb, snd, rcv, run, panicked>>

\* The lookup of removePath, or the comparison, with the lock for reading.
TakeInterface(i) ==
  /\ At(poll, "next")
  /\ i \in poll.todo
  /\ \/ poll.phase = "gone" /\ ~WriteLocked /\ IF paths[i] = None THEN Skipping(i) ELSE Removing(i)
     \/ poll.phase = "new" /\ IF poll.snap[i] = OtherFamily THEN Skipping(i) ELSE Adding(i)
     \/ /\ poll.phase = "moved"
        /\ ~WriteLocked
        /\ IF Moved(i) THEN Moving(i) ELSE Skipping(i)
  /\ UNCHANGED <<env, sockets, paths, path, reader, recvCh, pinged, recycled, hb, snd, rcv, run, panicked>>

\* After a comparison removePath looks again; Stop may have emptied the map, and
\* addPath follows all the same.
PollLooksUp ==
  /\ At(poll, "remove")
  /\ ~WriteLocked
  /\ poll' = IF paths[poll.name] = None THEN [poll EXCEPT !.pc = "open"]
             ELSE [poll EXCEPT !.pc = "close", !.path = paths[poll.name]]
  /\ UNCHANGED <<env, sockets, paths, path, reader, recvCh, pinged, recycled, hb, snd, rcv, run, panicked>>

\* removePath closes what it found before it takes the lock for writing, ...
PollCloses ==
  /\ At(poll, "close")
  /\ ClosePaths({poll.path})
  /\ poll' = [poll EXCEPT !.pc = "delete"]
  /\ UNCHANGED <<env, paths, path, reader, recvCh, pinged, recycled, hb, snd, rcv, run>>

\* ... and deletes by name.
PollDeletes ==
  /\ At(poll, "delete")
  /\ CanLock
  /\ paths' = [paths EXCEPT ![poll.name] = None]
  /\ poll' = [poll EXCEPT !.pc = IF poll.phase = "moved" THEN "open" ELSE "next", !.path = None]
  /\ path' = [path EXCEPT ![poll.path] = Removed(poll.path)]
  /\ UNCHANGED <<env, sockets, reader, recvCh, pinged, recycled, hb, snd, rcv, run, panicked>>

\* addPath: the socket, ...
PollOpens ==
  LET a == poll.snap[poll.name] IN
  /\ At(poll, "open")
  /\ MakeSocket
  /\ path' = [path EXCEPT ![made'] = [NoPath EXCEPT !.iface = poll.name, !.addr = a,
                                                    !.conn = made', !.closed = made']]
  /\ poll' = [poll EXCEPT !.pc = "insert", !.path = made']
  /\ UNCHANGED <<env, paths, reader, recvCh, pinged, recycled, hb, snd, rcv, run, panicked>>

PollOpenFails ==
  /\ At(poll, "open")
  /\ BindMayFail(poll.name, poll.snap[poll.name])
  /\ poll' = [poll EXCEPT !.pc = "next", !.name = NoIface]
  /\ UNCHANGED <<env, sockets, paths, path, reader, recvCh, pinged, recycled, hb, snd, rcv, run, panicked>>

\* ... the map, ...
PollInserts ==
  /\ At(poll, "insert")
  /\ CanLock
  /\ paths' = [paths EXCEPT ![poll.name] = poll.path]
  /\ poll' = [poll EXCEPT !.pc = "spawn"]
  /\ UNCHANGED <<env, sockets, path, reader, recvCh, pinged, recycled, hb, snd, rcv, run, panicked>>

\* ... and the reader.
PollSpawns ==
  /\ At(poll, "spawn")
  /\ StartReader(poll.path, poll.path)
  /\ poll' = [poll EXCEPT !.pc = "next", !.name = NoIface, !.path = None]
  /\ UNCHANGED <<env, sockets, paths, path, recvCh, pinged, recycled, hb, snd, rcv, run, panicked>>

-----------------------------------------------------------------------------
(* The end of Run, and Stop *)

Cancel ==
  /\ MayStop
  /\ ~panicked /\ run = "running"
  /\ run' = "cancelled"
  /\ UNCHANGED <<env, sockets, paths, path, reader, recvCh, pinged, recycled, hb, snd, rcv, poll, panicked>>

\* The three loops notice the end of the context between two rounds.
LoopEnds ==
  /\ ~panicked /\ run = "cancelled"
  /\ \/ hb.pc = "idle" /\ hb' = [hb EXCEPT !.pc = "done"] /\ UNCHANGED <<snd, rcv>>
     \/ snd.pc = "idle" /\ snd' = [snd EXCEPT !.pc = "done"] /\ UNCHANGED <<hb, rcv>>
     \/ rcv.pc = "idle" /\ rcv' = [rcv EXCEPT !.pc = "done"] /\ UNCHANGED <<hb, snd>>
  /\ UNCHANGED <<env, sockets, paths, path, reader, recvCh, pinged, recycled, poll, run, panicked>>

\* Run waits for them before its deferred Stop, which closes stopCh, ...
StopBegins ==
  /\ ~panicked /\ run = "cancelled"
  /\ hb.pc = "done" /\ snd.pc = "done" /\ rcv.pc = "done"
  /\ run' = "stopping"
  /\ UNCHANGED <<env, sockets, paths, path, reader, recvCh, pinged, recycled, hb, snd, rcv, poll, panicked>>

\* Mutant: the paths are only forgotten.
StopForgets ==
  /\ ~panicked /\ run = "stopping"
  /\ paths' = [i \in Iface |-> None]
  /\ path' = [p \in Sock |-> IF \E i \in Iface : paths[i] = p THEN Removed(p) ELSE path[p]]
  /\ run' = "waiting"
  /\ UNCHANGED <<env, sockets, reader, recvCh, pinged, recycled, hb, snd, rcv, poll, panicked>>

\* ... every path, with the lock for writing, and the central socket, ...
StopCloses ==
  /\ ~panicked /\ run = "stopping"
  /\ ClosePaths({paths[i] : i \in Known})
  /\ paths' = [i \in Iface |-> None]
  /\ path' = [p \in Sock |-> IF \E i \in Iface : paths[i] = p THEN Removed(p) ELSE path[p]]
  /\ run' = "waiting"
  /\ UNCHANGED <<env, reader, recvCh, pinged, recycled, hb, snd, rcv, poll>>

\* ... and waits for the readers and for pollInterfaces.
StopReturns ==
  /\ ~panicked /\ run = "waiting"
  /\ At(poll, "done")
  /\ \A s \in Sock : reader[s].pc \in {"none", "done"}
  /\ run' = "stopped"
  /\ UNCHANGED <<env, sockets, paths, path, reader, recvCh, pinged, recycled, hb, snd, rcv, poll, panicked>>

\* pollInterfaces may take one more tick before it sees stopCh.
PollEnds ==
  /\ At(poll, "idle")
  /\ StopClosed
  /\ poll' = [poll EXCEPT !.pc = "done"]
  /\ UNCHANGED <<env, sockets, paths, path, reader, recvCh, pinged, recycled, hb, snd, rcv, run, panicked>>

-----------------------------------------------------------------------------
(* The goroutines, and the specification *)

HbStep ==
  \/ \E i \in Iface : HeartbeatOn(i) \/ CheckPath(i) \/ RecycleBegins(i)
  \/ HeartbeatsSent \/ BeginCheck \/ MarkDown \/ CheckDone
  \/ RecycleOpens \/ RecycleFails \/ RecycleSwaps \/ RoundDone

SndStep == SendMarks \/ SendDone \/ \E i \in Iface : SendOn(i)

RcvStep == AckTaken \/ AckRecorded

ReaderStep(s) == ReaderLoads(s) \/ ReaderFails(s)

PollStep ==
  \/ DetectChanges \/ NextPhase \/ \E i \in Iface : TakeInterface(i)
  \/ PollLooksUp \/ PollCloses \/ PollDeletes
  \/ PollOpens \/ PollOpenFails \/ PollInserts \/ PollSpawns

StopStep == LoopEnds \/ StopBegins \/ StopCloses \/ StopReturns

Next ==
  \/ Tick \/ HbStep
  \/ SendBegins \/ SndStep
  \/ RcvStep
  \/ \E s \in Sock : ReaderStep(s) \/ ReaderGets(s)
  \/ PollStep
  \/ \E i \in Iface, a \in Nic : NicChanges(i, a)
  \/ Cancel \/ StopStep \/ PollEnds

Spec == Init /\ [][Next]_vars

\* Loops that have begun a round end it, pollInterfaces' ticker ticks, and a
\* sync.RWMutex lets nobody wait for ever (strong fairness where it is taken).
\* pollInterfaces sees stopCh in the end, though the ticker may be ready as well.
\* Nothing says that a heartbeat, an ack or a data packet ever comes, or that the
\* client stops.
Fairness ==
  /\ SF_vars(HbStep)
  /\ WF_vars(SndStep)
  /\ WF_vars(RcvStep)
  /\ \A s \in Sock : WF_vars(ReaderStep(s))
  /\ SF_vars(PollStep)
  /\ WF_vars(StopStep)
  /\ SF_vars(PollEnds)

FairSpec == Spec /\ Fairness

-----------------------------------------------------------------------------
(* Safety *)

\* Whoever reads from the socket of p will read it again and again.
ReadBy(s, p) ==
  /\ reader[s].path = p
  /\ \/ reader[s].pc = "top"
     \/ /\ reader[s].pc = "read"
        /\ reader[s].conn = path[p].conn \/ reader[s].conn \notin open

\* An open socket in the map has a reader that will come to it, or is about to
\* get one: recycling takes the socket and the channel away from a reader that
\* looks at both without a lock (recyclePath, perPathRecvLoop, addPath).
EveryPathIsRead ==
  \A i \in Known : LET p == paths[i] IN
    path[p].conn \in open /\ ~StopClosed =>
      \/ path[p].closed \notin shut /\ \E s \in Sock : ReadBy(s, p)
      \/ hb.pc = "swap" /\ hb.name = i
      \/ poll.pc = "spawn" /\ poll.path = p

\* Every open socket belongs to a path in the map, or to the one that addPath
\* is about to put there: none is lost when pollInterfaces, the heartbeat
\* loop's recycling and Stop close, replace and delete the same path.
NoSocketLeaks ==
  ~panicked => open \subseteq {path[paths[i]].conn : i \in Known} \cup {path[p].conn : p \in {poll.path} \ {None}}

-----------------------------------------------------------------------------
(* Liveness *)

Gone(p) == p # poll.path /\ \A i \in Iface : paths[i] # p

Lingers(s) == reader[s].pc \in {"top", "read"} /\ Gone(reader[s].path)

\* The readers of a path that was removed end, also those that a recycling left
\* running next to the new one (removePath closes one channel and one socket).
\* Such a path never comes back: if all have ended again and again, each has.
ReadersOfRemovedPathsEnd == []<>(panicked \/ \A s \in Sock : ~Lingers(s))

Follows(i) ==
  /\ nics[i] = NoLAddr => paths[i] = None
  /\ nics[i] \in LAddr => paths[i] # None /\ path[paths[i]].addr = nics[i]

\* Once the interfaces settle, each that has an address has a path on it, and one
\* that is gone has none, whatever the polls saw and whoever held the lock.  (An
\* interface that kept only the other family's addresses keeps an old path.)
FollowsInterfaces ==
  <>[](panicked \/ run # "running" \/ \A i \in Iface : Follows(i))

AtBound == poll.pc = "open" /\ made = MaxSocket

\* Stop, once it has closed the paths, returns: every reader wakes and ends, those
\* of paths that were being removed or recycled too.  The one thing that keeps it
\* is a path that pollInterfaces puts into the map after that (or would, without
\* the bound on sockets).
StopEnds ==
  run = "waiting" ~> run = "stopped" \/ panicked \/ Known # {} \/ AtBound

-----------------------------------------------------------------------------
(* What the code's comments say and the code does not do *)

\* "removePath closes and removes the named path" (transport.go:482): no
\* removal, recycling or stop ever closes a channel for the second time.
NeverPanics == ~panicked
=============================================================================
