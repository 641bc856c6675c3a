---------------------------- MODULE TransportProofs ----------------------------
(***************************************************************************)
(* What Transport promises for any interfaces, addresses and bounds: its   *)
(* types, that no open socket is lost, and that a path with an open socket *)
(* has a reader, whatever recycling, removal and Stop do to it at once.    *)
(***************************************************************************)
EXTENDS Transport, TLAPS

-----------------------------------------------------------------------------
(* What the goroutines know *)

\* Whoever waits for the loops to end finds them ended.
LoopsHaveEnded == StopClosed => hb.pc = "done" /\ snd.pc = "done" /\ rcv.pc = "done"

\* A Path is in the map under its own name, and whoever holds one holds one that
\* has been made, with a socket and a channel.
Named ==
  /\ \A p \in Sock : path[p].iface # NoIface => path[p].conn # None /\ path[p].closed # None
  /\ \A i \in Known : path[paths[i]].iface = i
  /\ \A s \in Sock : reader[s].pc \in {"top", "read"} =>
       reader[s].path # None /\ path[reader[s].path].iface \in Iface
  /\ hb.pc \in {"create", "swap"} => hb.name \in Known
  /\ poll.path # None => poll.name \in Iface /\ path[poll.path].iface = poll.name

\* pollInterfaces alone adds paths: what it saw of the map stays true but for
\* paths that Stop takes.  It has a Path of its own only while it works on one.
PollPlan ==
  /\ poll.pc \in {"idle", "next", "remove", "open", "done"} => poll.path = None
  /\ poll.pc \in {"next", "close", "delete"} /\ poll.phase = "gone" => Known \subseteq poll.known
  /\ poll.pc \in {"close", "delete"} => poll.phase # "new" /\ paths[poll.name] \in {poll.path, None}
  /\ poll.pc \in {"close", "delete"} /\ poll.phase = "moved" => poll.snap[poll.name] # OtherFamily
  /\ poll.pc = "remove" => poll.phase = "moved"
  /\ poll.pc \in {"remove", "open"} => poll.name \in Iface /\ poll.snap[poll.name] # OtherFamily
  /\ poll.pc \in {"open", "insert", "spawn"} => poll.phase # "gone" /\ ~(poll.phase = "new" /\ poll.name \in poll.todo)
  /\ poll.pc \in {"open", "insert"} => paths[poll.name] = None
  /\ poll.phase = "new" => poll.todo \cap Known = {}

TypeInv == TypeOK /\ LoopsHaveEnded /\ Named /\ PollPlan

-----------------------------------------------------------------------------
(* Who holds an open socket *)

Recycling(p) == hb.pc \in {"create", "swap"} /\ paths[hb.name] = p

\* The channel of a path under recycling, or closed by removePath, is closed:
\* whoever closes it again panics, so the two never work on one path together.
SocketsHeld ==
  ~panicked =>
    /\ hb.pc \in {"create", "swap"} => path[paths[hb.name]].closed \in shut
    /\ hb.pc = "create" => path[paths[hb.name]].conn \notin open
    /\ poll.pc = "delete" =>
         /\ path[poll.path].closed \in shut
         /\ path[poll.path].conn \notin open
         /\ ~Recycling(poll.path)
    /\ poll.pc = "spawn" => paths[poll.name] = poll.path \/ path[poll.path].conn \notin open

-----------------------------------------------------------------------------
(* Who reads *)

\* No channel belongs to two paths.
ChannelsDistinct ==
  \A p, q \in Sock : path[p].closed = path[q].closed => p = q \/ path[p].closed = None

\* A socket that its reader does not have yet is new to everybody.
FreshSockets ==
  /\ \A s \in Sock : s > made => reader[s].pc = "none"
  /\ poll.pc \in {"insert", "spawn"} => reader[poll.path].pc = "none"
  /\ poll.pc = "insert" => path[poll.path].closed \notin shut
  /\ hb.pc = "swap" =>
       LET c == path[paths[hb.name]].conn IN
         /\ c # None /\ c \notin shut
         /\ reader[c].pc = "none"
         /\ \A q \in Sock : path[q].closed # c
         /\ poll.pc \in {"insert", "spawn"} => poll.path # c

\* The channel is open as long as the socket is, but for the step between the two
\* assignments of recyclePath.
ChannelFollowsSocket ==
  \A i \in Known : path[paths[i]].conn \in open =>
    path[paths[i]].closed \notin shut \/ (hb.pc = "swap" /\ hb.name = i)

-----------------------------------------------------------------------------
(* Types *)

\* TypeOK, part by part: an action changes one or two of them.
EnvTyped == nics \in [Iface -> Nic] /\ changes \in 0 .. MaxChanges
SocketsTyped == made \in 0 .. MaxSocket /\ open \subseteq 1 .. made /\ shut \subseteq 1 .. made
MapTyped == paths \in [Iface -> 0 .. made]
RecvAges    == 0 .. (PathStale + 1)
RecycleAges == Never .. (Backoff + 1)
Counts      == 0 .. MaxAttempts
PathRecords(m) ==
  [iface : Iface \cup {NoIface}, addr : LAddr \cup {NoLAddr},
   conn : 0 .. m, closed : 0 .. m, status : Status,
   lastRecv : RecvAges, lastRecycled : RecycleAges, recycles : Counts]
PathRecord == PathRecords(made)
PathTyped == path \in [Sock -> PathRecord]
ReaderRecord == [pc : {"none", "top", "read", "done"}, path : 0 .. made, conn : 0 .. made]
ReaderTyped == reader \in [Sock -> ReaderRecord]
AcksTyped == recvCh \in Seq(Iface) /\ Len(recvCh) <= ChanSize
PingsTyped == pinged \subseteq 1 .. made
HbTyped ==
  hb \in [pc : {"idle", "send", "sent", "check", "mark", "recycle", "create", "swap", "done"},
          todo : SUBSET Iface, stale : SUBSET Iface, name : Iface \cup {NoIface}]
SndTyped == snd \in [pc : {"idle", "send", "mark", "done"}, todo : SUBSET Iface, name : Iface \cup {NoIface}]
RcvTyped == rcv \in [pc : {"idle", "done"}, path : {None}] \cup [pc : {"update"}, path : 1 .. made]
IfaceSets  == SUBSET Iface
Scans      == [Iface -> Nic]
PollRecords(m) ==
  [pc : {"idle", "next", "remove", "close", "delete", "open", "insert", "spawn", "done"},
   phase : {"gone", "new", "moved"}, snap : Scans,
   known : IfaceSets, todo : IfaceSets, name : Iface \cup {NoIface}, path : 0 .. m]
PollRecord == PollRecords(made)
PollTyped ==
  /\ poll \in PollRecord
  /\ poll.pc \in {"close", "delete", "insert", "spawn"} => poll.name \in Iface /\ poll.path # None
RunTyped ==
  /\ recycled \in Nat
  /\ run \in {"running", "cancelled", "stopping", "waiting", "stopped"}
  /\ panicked \in BOOLEAN

\* TypeOK is the conjunction of the parts, in this state and the next.
LEMMA TypeParts ==
  LET Parts == /\ EnvTyped /\ SocketsTyped /\ MapTyped /\ PathTyped /\ ReaderTyped /\ AcksTyped
               /\ PingsTyped /\ HbTyped /\ SndTyped /\ RcvTyped /\ PollTyped /\ RunTyped
  IN  (TypeOK <=> Parts) /\ (Parts' => TypeOK')
BY DEF TypeOK, EnvTyped, SocketsTyped, MapTyped, PathTyped, PathRecord, PathRecords, RecvAges,
       RecycleAges, Counts, ReaderTyped, ReaderRecord, AcksTyped, PingsTyped, HbTyped, SndTyped,
       RcvTyped, PollTyped, PollRecord, PollRecords, IfaceSets, Scans, RunTyped

\* Sockets are numbered in the order in which they are made.
Numbered == made \in Nat /\ made' \in {made, made + 1}

\* A part whose variable stays keeps its type, also when a socket is made.
LEMMA TypeFrames ==
  ASSUME Numbered
  PROVE  /\ MapTyped /\ UNCHANGED paths => MapTyped'
         /\ PathTyped /\ UNCHANGED path => PathTyped'
         /\ ReaderTyped /\ UNCHANGED reader => ReaderTyped'
         /\ PingsTyped /\ UNCHANGED pinged => PingsTyped'
         /\ RcvTyped /\ UNCHANGED rcv => RcvTyped'
         /\ PollTyped /\ UNCHANGED poll => PollTyped'
<1>1. 0 .. made \subseteq 0 .. made' /\ 1 .. made \subseteq 1 .. made'
  BY DEF Numbered
<1>2. MapTyped /\ UNCHANGED paths => MapTyped'
  BY <1>1 DEF MapTyped
<1>3. PathTyped /\ UNCHANGED path => PathTyped'
  BY <1>1 DEF PathTyped, PathRecord, PathRecords
<1>4. ReaderTyped /\ UNCHANGED reader => ReaderTyped'
  BY <1>1 DEF ReaderTyped, ReaderRecord
<1>5. PingsTyped /\ UNCHANGED pinged => PingsTyped'
  BY <1>1 DEF PingsTyped
<1>6. RcvTyped /\ UNCHANGED rcv => RcvTyped'
  BY <1>1 DEF RcvTyped
<1>7. PollTyped /\ UNCHANGED poll => PollTyped'
  BY <1>1 DEF PollTyped, PollRecord, PollRecords
<1>. QED
  BY <1>2, <1>3, <1>4, <1>5, <1>6, <1>7

\* ... and so do the parts that know no socket numbers.
LEMMA OtherFrames ==
  /\ EnvTyped /\ UNCHANGED env => EnvTyped'
  /\ SocketsTyped /\ UNCHANGED sockets => SocketsTyped'
  /\ AcksTyped /\ UNCHANGED recvCh => AcksTyped'
  /\ HbTyped /\ UNCHANGED hb => HbTyped'
  /\ SndTyped /\ UNCHANGED snd => SndTyped'
  /\ RunTyped /\ UNCHANGED <<recycled, run, panicked>> => RunTyped'
BY DEF EnvTyped, SocketsTyped, AcksTyped, HbTyped, SndTyped, RunTyped, env, sockets

-----------------------------------------------------------------------------
(* Assignments to single fields *)

\* "No socket" is a number.
LEMMA NoneIsNumber == made \in Nat => None \in 0 .. made
BY DEF None

\* The state of a reader that has ended.
LEMMA EndedTyped == ASSUME made \in Nat PROVE Ended \in ReaderRecord
<1>1. Ended = [pc |-> "done", path |-> 0, conn |-> 0]
  BY DEF Ended, NoReader, None
<1>. QED
  BY <1>1 DEF ReaderRecord

\* Assigning one reader.
LEMMA ReaderSet ==
  ASSUME ReaderTyped, UNCHANGED made, NEW s \in Sock, NEW r \in ReaderRecord,
         reader' = [reader EXCEPT ![s] = r]
  PROVE  ReaderTyped'
BY DEF ReaderTyped, ReaderRecord

\* Assigning one Path, perhaps with the socket just made.
LEMMA PathSet ==
  ASSUME PathTyped, Numbered, NEW p, NEW r \in PathRecord',
         path' = [path EXCEPT ![p] = r]
  PROVE  PathTyped'
<1>1. PathRecord \subseteq PathRecord'
  BY DEF PathRecord, PathRecords, Numbered
<1>. QED
  BY <1>1 DEF PathTyped

\* Assigning the status of a Path: MarkDown, failed writes, failed recycling.
LEMMA StatusTyped ==
  ASSUME PathTyped, NEW p, NEW st \in Status, SetStatus(p, st), UNCHANGED made
  PROVE  PathTyped'
<1>1. \A q \in Sock : path[q] \in PathRecord => [path[q] EXCEPT !.status = st] \in PathRecord
  BY DEF PathRecord, PathRecords
<1>2. PathRecord' = PathRecord
  BY DEF PathRecord
<1>. QED
  BY <1>1, <1>2 DEF PathTyped, SetStatus

\* What pollInterfaces assigns to its own variables.
LEMMA PollUpdates ==
  ASSUME NEW r \in PollRecord
  PROVE  \A pc \in {"idle", "next", "remove", "close", "delete", "open", "insert", "spawn", "done"} :
         /\ [r EXCEPT !.pc = pc] \in PollRecord
         /\ \A p \in 0 .. made : [r EXCEPT !.pc = pc, !.path = p] \in PollRecord
         /\ \A n \in Iface \cup {NoIface} :
              /\ [r EXCEPT !.pc = pc, !.name = n] \in PollRecord
              /\ \A p \in 0 .. made : [r EXCEPT !.pc = pc, !.name = n, !.path = p] \in PollRecord
<1> TAKE pc \in {"idle", "next", "remove", "close", "delete", "open", "insert", "spawn", "done"}
<1>1. [r EXCEPT !.pc = pc] \in PollRecord
  BY DEF PollRecord, PollRecords
<1>2. \A p \in 0 .. made : [r EXCEPT !.pc = pc, !.path = p] \in PollRecord
  BY DEF PollRecord, PollRecords
<1>3. \A n \in Iface \cup {NoIface} : [r EXCEPT !.pc = pc, !.name = n] \in PollRecord
  BY DEF PollRecord, PollRecords
<1>4. \A n \in Iface \cup {NoIface}, p \in 0 .. made :
        [r EXCEPT !.pc = pc, !.name = n, !.path = p] \in PollRecord
  BY DEF PollRecord, PollRecords
<1>. QED
  BY <1>1, <1>2, <1>3, <1>4

\* ... with the set of interfaces it has left.
LEMMA TodoUpdates ==
  ASSUME NEW r \in PollRecord, NEW t \in IfaceSets
  PROVE  /\ [r EXCEPT !.todo = t] \in PollRecord
         /\ \A ph \in {"gone", "new", "moved"} : [r EXCEPT !.phase = ph, !.todo = t] \in PollRecord
         /\ \A pc \in {"open", "close", "remove"}, n \in Iface :
              /\ [r EXCEPT !.todo = t, !.pc = pc, !.name = n] \in PollRecord
              /\ \A p \in 0 .. made : [r EXCEPT !.todo = t, !.pc = pc, !.name = n, !.path = p] \in PollRecord
BY DEF PollRecord, PollRecords

\* The starting values of the fields of a Path.
LEMMA FieldsTyped ==
  /\ 0 \in RecvAges
  /\ 0 \in RecycleAges /\ Never \in RecycleAges
  /\ 0 \in Counts
  /\ \A n \in Counts : (IF n < MaxAttempts THEN n + 1 ELSE n) \in Counts
  /\ \A age \in RecvAges : Older(age, PathStale) \in RecvAges
  /\ \A age \in RecycleAges : Older(age, Backoff) \in RecycleAges
BY NumbersAreNatural DEF RecvAges, RecycleAges, Counts, Never, Older

\* What pollInterfaces starts each tick with.
LEMMA PollIdleTyped == ASSUME made \in Nat PROVE PollIdle \in PollRecord
<1>1. (None \in 0 .. made) /\ ({} \in IfaceSets) /\ (NoNics \in Scans)
  BY DEF None, NoNics, IfaceSets, Scans, Nic
<1>. QED
  BY <1>1 DEF PollIdle, PollRecord, PollRecords

\* What detectChanges starts with, whatever the scan missed.
LEMMA PollBegins ==
  ASSUME EnvTyped, DetectChanges
  PROVE  /\ EnvTyped'
         /\ \E found \in Scans :
              poll' = [pc |-> "next", phase |-> "gone", snap |-> found, known |-> Known,
                       todo |-> Known \ Usable(found), name |-> NoIface, path |-> None]
<1>1. nics \in Scans /\ \A M \in SUBSET Iface : [i \in Iface |-> IF i \in M THEN NoLAddr ELSE nics[i]] \in Scans
  BY DEF EnvTyped, Scans, Nic
<1>2. \E found \in Scans : Polling(found)
  BY <1>1 DEF DetectChanges
<1>3. EnvTyped'
  <2>1. nics' = nics /\ (changes' = changes \/ (changes < MaxChanges /\ changes' = changes + 1))
    BY DEF DetectChanges
  <2>. QED
    BY <2>1, NumbersAreNatural DEF EnvTyped
<1>. QED
  BY <1>2, <1>3 DEF Polling, PollIdle

\* Closing keeps the books: the channels are those of paths.
LEMMA ClosePathsTyped ==
  ASSUME SocketsTyped, NEW P \in SUBSET Sock, ClosePaths(P), \A p \in P : path[p].closed \in 1 .. made
  PROVE  SocketsTyped' /\ made' = made
<1>1. {path[p].closed : p \in P} \subseteq 1 .. made
  OBVIOUS
<1>2. CASE UNCHANGED sockets
  BY <1>2 DEF sockets, SocketsTyped
<1>3. CASE /\ shut' = shut \cup {path[p].closed : p \in P}
           /\ open' = open \ {path[p].conn : p \in P}
           /\ made' = made
  BY <1>1, <1>3 DEF SocketsTyped
<1>. QED
  BY <1>2, <1>3 DEF ClosePaths

\* Paths in the map, and the one that pollInterfaces works on, can be closed.
LEMMA Closable ==
  ASSUME MapTyped, PathTyped, SocketsTyped, PollTyped, Named
  PROVE  /\ \A i \in Known : paths[i] \in Sock /\ path[paths[i]].closed \in 1 .. made
         /\ poll.path # None => poll.path \in Sock /\ path[poll.path].closed \in 1 .. made
<1>1. \A p \in Sock : path[p].closed \in 0 .. made
  BY DEF PathTyped, PathRecord, PathRecords
<1>2. \A i \in Known : i \in Iface /\ paths[i] \in Sock
  BY NumbersAreNatural DEF Known, MapTyped, SocketsTyped, Sock, None
<1>3. poll.path # None => poll.path \in Sock
  BY NumbersAreNatural DEF PollTyped, PollRecord, PollRecords, SocketsTyped, Sock, None
<1>. QED
  BY <1>1, <1>2, <1>3, NullsAreNotValues DEF Named, None

\* What is left of a Path that removePath or Stop took.
LEMMA RemovedTyped == ASSUME PathTyped, NEW p \in Sock PROVE Removed(p) \in PathRecord
<1>1. path[p] \in PathRecord
  BY DEF PathTyped
<1>. QED
  BY <1>1, FieldsTyped DEF Removed, PathRecord, PathRecords, Status

\* Starting a reader (go perPathRecvLoop).
LEMMA SpawnTyped ==
  ASSUME ReaderTyped, SocketsTyped, UNCHANGED made, NEW s, NEW p \in 0 .. made, StartReader(s, p)
  PROVE  ReaderTyped'
<1>1. [pc |-> "top", path |-> p, conn |-> None] \in ReaderRecord
  BY DEF ReaderRecord, None, SocketsTyped
<1>2. ReaderRecord' = ReaderRecord
  BY DEF ReaderRecord
<1>. QED
  BY <1>1, <1>2 DEF StartReader, ReaderTyped

\* pollInterfaces where it has no Path of its own.
LEMMA PollSet ==
  ASSUME poll' \in PollRecord, UNCHANGED made, poll'.pc \in {"idle", "next", "remove", "open", "done"}
  PROVE  PollTyped'
BY DEF PollTyped, PollRecord, PollRecords

\* Every step keeps the types.
LEMMA StepType == TypeInv /\ [Next]_vars => TypeOK'
<1> SUFFICES ASSUME LoopsHaveEnded, Named, PollPlan, [Next]_vars,
                    EnvTyped, SocketsTyped, MapTyped, PathTyped, ReaderTyped, AcksTyped,
                    PingsTyped, HbTyped, SndTyped, RcvTyped, PollTyped, RunTyped
             PROVE  TypeOK'
  BY TypeParts DEF TypeInv
<1>1. CASE Tick
  <2>1. Numbered
    <3>1. made' = made
      BY <1>1 DEF Tick, sockets
    <3>. QED
      BY <3>1 DEF Numbered, SocketsTyped
  <2>2. PathTyped'
    <3>1. made' = made
      BY <1>1 DEF Tick, sockets
    <3>2. PathRecord' = PathRecord
      BY <3>1 DEF PathRecord
    <3>3. \A r \in PathRecord :
            [r EXCEPT !.lastRecv = Older(@, PathStale), !.lastRecycled = Older(@, Backoff)] \in PathRecord
      BY FieldsTyped DEF PathRecord, PathRecords
    <3>. QED
      BY <1>1, <3>2, <3>3 DEF PathTyped, Tick
  <2>3. HbTyped'
    BY <1>1 DEF Tick, Known, HbIdle, HbTyped
  <2>. QED
    BY <1>1, <2>1, <2>2, <2>3, TypeParts, TypeFrames, OtherFrames DEF Tick
<1>2. ASSUME NEW i \in Iface, HeartbeatOn(i) PROVE TypeOK'
  <2>1. Numbered
    BY <1>2 DEF HeartbeatOn, Numbered, sockets, SocketsTyped
  <2>2. PathTyped'
    <3>1. UNCHANGED path \/ SetStatus(paths[i], "suspect")
      BY <1>2 DEF HeartbeatOn
    <3>2. UNCHANGED made
      BY <1>2 DEF HeartbeatOn, sockets
    <3>. QED
      BY <2>1, <3>1, <3>2, StatusTyped, TypeFrames DEF Status
  <2>3. PingsTyped'
    BY <1>2 DEF HeartbeatOn, PingsTyped, PathTyped, PathRecord, PathRecords, SocketsTyped, sockets
  <2>4. HbTyped'
    BY <1>2 DEF HeartbeatOn, HbTyped
  <2>. QED
    BY <1>2, <2>1, <2>2, <2>3, <2>4, TypeParts, TypeFrames, OtherFrames DEF HeartbeatOn
<1>3. CASE HeartbeatsSent
  <2>1. Numbered
    BY <1>3 DEF HeartbeatsSent, Numbered, sockets, SocketsTyped
  <2>2. HbTyped'
    BY <1>3 DEF HeartbeatsSent, HbTyped
  <2>. QED
    BY <1>3, <2>1, <2>2, TypeParts, TypeFrames, OtherFrames DEF HeartbeatsSent
<1>4. CASE BeginCheck
  <2>1. Numbered
    BY <1>4 DEF BeginCheck, Numbered, sockets, SocketsTyped
  <2>2. HbTyped'
    BY <1>4 DEF BeginCheck, Known, HbTyped
  <2>. QED
    BY <1>4, <2>1, <2>2, TypeParts, TypeFrames, OtherFrames DEF BeginCheck
<1>5. ASSUME NEW i \in Iface, CheckPath(i) PROVE TypeOK'
  <2>1. Numbered
    BY <1>5 DEF CheckPath, Numbered, sockets, SocketsTyped
  <2>2. HbTyped'
    BY <1>5 DEF CheckPath, HbTyped
  <2>. QED
    BY <1>5, <2>1, <2>2, TypeParts, TypeFrames, OtherFrames DEF CheckPath
<1>6. CASE MarkDown
  <2>1. Numbered
    BY <1>6 DEF MarkDown, Numbered, sockets, SocketsTyped
  <2>2. PathTyped'
    BY <1>6, StatusTyped DEF MarkDown, Status, sockets
  <2>3. HbTyped'
    BY <1>6 DEF MarkDown, HbTyped
  <2>. QED
    BY <1>6, <2>1, <2>2, <2>3, TypeParts, TypeFrames, OtherFrames DEF MarkDown
<1>7. CASE CheckDone
  <2>1. Numbered
    BY <1>7 DEF CheckDone, Numbered, sockets, SocketsTyped
  <2>2. HbTyped'
    BY <1>7 DEF CheckDone, HbIdle, HbTyped
  <2>. QED
    BY <1>7, <2>1, <2>2, TypeParts, TypeFrames, OtherFrames DEF CheckDone
<1>8. ASSUME NEW i \in Iface, RecycleBegins(i) PROVE TypeOK'
  <2>1. SocketsTyped' /\ made' = made
    <3>1. CASE paths[i] = None
      BY <1>8, <3>1 DEF RecycleBegins, sockets, SocketsTyped
    <3>2. CASE paths[i] # None
      <4>1. i \in Known
        BY <3>2 DEF Known
      <4>2. ClosePaths({paths[i]})
        BY <1>8, <3>2 DEF RecycleBegins
      <4>. QED
        BY <4>1, <4>2, Closable, ClosePathsTyped
    <3>. QED
      BY <3>1, <3>2
  <2>2. Numbered
    BY <2>1 DEF Numbered, SocketsTyped
  <2>3. HbTyped'
    BY <1>8 DEF RecycleBegins, HbTyped
  <2>4. RunTyped'
    BY <1>8 DEF RecycleBegins, ClosePaths, RunTyped
  <2>. QED
    BY <1>8, <2>1, <2>2, <2>3, <2>4, TypeParts, TypeFrames, OtherFrames DEF RecycleBegins
<1>9. CASE RecycleOpens
  <2>1. Numbered
    BY <1>9 DEF RecycleOpens, MakeSocket, Numbered, SocketsTyped
  <2>2. SocketsTyped'
    BY <1>9, NumbersAreNatural DEF RecycleOpens, MakeSocket, SocketsTyped
  <2>3. PathTyped'
    <3>1. /\ path' = [path EXCEPT ![paths[hb.name]].conn = made']
          /\ made \in Nat /\ made' = made + 1
            BY <1>9 DEF RecycleOpens, MakeSocket, SocketsTyped
    <3>2. PathRecord \subseteq PathRecord'
      BY <3>1 DEF PathRecord, PathRecords
    <3>3. \A r \in PathRecord : [r EXCEPT !.conn = made'] \in PathRecord'
      BY <3>1 DEF PathRecord, PathRecords
    <3>. QED
      BY <3>1, <3>2, <3>3 DEF PathTyped
  <2>4. HbTyped'
    BY <1>9 DEF RecycleOpens, MakeSocket, HbTyped
  <2>. QED
    BY <1>9, <2>1, <2>2, <2>3, <2>4, TypeParts, TypeFrames, OtherFrames DEF RecycleOpens
<1>10. CASE RecycleFails
  <2>1. Numbered
    BY <1>10 DEF RecycleFails, Numbered, sockets, SocketsTyped
  <2>2. PathTyped'
    BY <1>10, StatusTyped DEF RecycleFails, Status, sockets
  <2>3. HbTyped'
    BY <1>10 DEF RecycleFails, HbTyped
  <2>. QED
    BY <1>10, <2>1, <2>2, <2>3, TypeParts, TypeFrames, OtherFrames DEF RecycleFails
<1>11. CASE RecycleSwaps
  <2>1. Numbered
    BY <1>11 DEF RecycleSwaps, Numbered, sockets, SocketsTyped
  <2>2. PathTyped'
    <3> DEFINE p == paths[hb.name]
               r == [path[p] EXCEPT !.closed = path[p].conn, !.status = "probing", !.lastRecycled = 0,
                                    !.recycles = IF @ < MaxAttempts THEN @ + 1 ELSE @]
    <3>1. path' = [path EXCEPT ![p] = r] /\ made' = made
      BY <1>11 DEF RecycleSwaps, sockets, PathTyped
    <3>2. p \in Sock
      BY <1>11, NumbersAreNatural DEF RecycleSwaps, At, Named, Known, MapTyped, Sock, None, SocketsTyped
    <3>3. path[p] \in PathRecord
      BY <3>2 DEF PathTyped
    <3>4. r \in PathRecord
      BY <3>3, FieldsTyped DEF PathRecord, PathRecords, Status
    <3>5. PathRecord' = PathRecord
      BY <3>1 DEF PathRecord
    <3>. QED
      BY <3>1, <3>4, <3>5 DEF PathTyped
  <2>3. ReaderTyped'
    <3>1. paths[hb.name] \in 0 .. made /\ made' = made
      BY <1>11 DEF RecycleSwaps, At, Named, Known, MapTyped, sockets
    <3>2. StartReader(path[paths[hb.name]].conn, paths[hb.name])
      BY <1>11 DEF RecycleSwaps
    <3>. QED
      BY <3>1, <3>2, SpawnTyped
  <2>4. HbTyped'
    BY <1>11 DEF RecycleSwaps, HbTyped
  <2>5. RunTyped'
    BY <1>11 DEF RecycleSwaps, RunTyped
  <2>. QED
    BY <1>11, <2>1, <2>2, <2>3, <2>4, <2>5, TypeParts, TypeFrames, OtherFrames DEF RecycleSwaps
<1>12. CASE RoundDone
  <2>1. Numbered
    BY <1>12 DEF RoundDone, Numbered, sockets, SocketsTyped
  <2>2. HbTyped'
    BY <1>12 DEF RoundDone, HbIdle, HbTyped
  <2>. QED
    BY <1>12, <2>1, <2>2, TypeParts, TypeFrames, OtherFrames DEF RoundDone
<1>13. CASE SendBegins
  <2>1. Numbered
    BY <1>13 DEF SendBegins, Numbered, sockets, SocketsTyped
  <2>2. SndTyped'
    BY <1>13 DEF SendBegins, Known, SndTyped
  <2>. QED
    BY <1>13, <2>1, <2>2, TypeParts, TypeFrames, OtherFrames DEF SendBegins
<1>14. ASSUME NEW i \in Iface, SendOn(i) PROVE TypeOK'
  <2>1. Numbered
    BY <1>14 DEF SendOn, Numbered, sockets, SocketsTyped
  <2>2. SndTyped'
    BY <1>14 DEF SendOn, SndTyped
  <2>. QED
    BY <1>14, <2>1, <2>2, TypeParts, TypeFrames, OtherFrames DEF SendOn
<1>15. CASE SendMarks
  <2>1. Numbered
    BY <1>15 DEF SendMarks, Numbered, sockets, SocketsTyped
  <2>2. PathTyped'
    BY <1>15, StatusTyped DEF SendMarks, Status, sockets
  <2>3. SndTyped'
    BY <1>15 DEF SendMarks, SndTyped
  <2>. QED
    BY <1>15, <2>1, <2>2, <2>3, TypeParts, TypeFrames, OtherFrames DEF SendMarks
<1>16. CASE SendDone
  <2>1. Numbered
    BY <1>16 DEF SendDone, Numbered, sockets, SocketsTyped
  <2>2. SndTyped'
    BY <1>16 DEF SendDone, SndIdle, SndTyped
  <2>. QED
    BY <1>16, <2>1, <2>2, TypeParts, TypeFrames, OtherFrames DEF SendDone
<1>17. CASE AckTaken
  <2>1. Numbered
    BY <1>17 DEF AckTaken, Numbered, sockets, SocketsTyped
  <2>2. RcvTyped' /\ AcksTyped'
    <3>1. Head(recvCh) \in Iface /\ Tail(recvCh) \in Seq(Iface) /\ Len(Tail(recvCh)) <= ChanSize
      BY <1>17, NumbersAreNatural DEF AckTaken, AcksTyped
    <3>2. made' = made
      BY <1>17 DEF AckTaken, sockets
    <3>3. paths[Head(recvCh)] \in 0 .. made
      BY <3>1 DEF MapTyped
    <3>. QED
      BY <1>17, <3>1, <3>2, <3>3 DEF RcvTyped, AcksTyped, AckTaken, RcvIdle, None
  <2>. QED
    BY <1>17, <2>1, <2>2, TypeParts, TypeFrames, OtherFrames DEF AckTaken
<1>18. CASE AckRecorded
  <2>1. Numbered
    BY <1>18 DEF AckRecorded, Numbered, sockets, SocketsTyped
  <2>2. PathTyped'
    <3> DEFINE r == [path[rcv.path] EXCEPT !.status = "active", !.lastRecv = 0, !.recycles = 0]
    <3>1. path' = [path EXCEPT ![rcv.path] = r] /\ made' = made
      BY <1>18 DEF AckRecorded, sockets, PathTyped
    <3>2. rcv.path \in Sock
      BY <1>18, NumbersAreNatural DEF AckRecorded, RcvTyped, SocketsTyped, Sock, At
    <3>3. path[rcv.path] \in PathRecord
      BY <3>2 DEF PathTyped
    <3>4. r \in PathRecord
      BY <3>3, FieldsTyped DEF PathRecord, PathRecords, Status
    <3>5. PathRecord' = PathRecord
      BY <3>1 DEF PathRecord
    <3>. QED
      BY <3>1, <3>4, <3>5 DEF PathTyped
  <2>3. RcvTyped'
    BY <1>18 DEF AckRecorded, RcvIdle, RcvTyped, MapTyped
  <2>. QED
    BY <1>18, <2>1, <2>2, <2>3, TypeParts, TypeFrames, OtherFrames DEF AckRecorded
<1>19. ASSUME NEW s \in Sock, ReaderLoads(s) PROVE TypeOK'
  <2>1. Numbered
    BY <1>19 DEF ReaderLoads, Numbered, sockets, SocketsTyped
  <2>2. ReaderTyped'
    <3> DEFINE r == [reader[s] EXCEPT !.pc="read", !.conn=path[reader[s].path].conn]
    <3>1. reader' = [reader EXCEPT ![s] = r]
      BY <1>19 DEF ReaderLoads, ReaderTyped
    <3>2. made' = made
      BY <1>19 DEF ReaderLoads, sockets
    <3>3. reader[s].path \in Sock
      BY <1>19, NumbersAreNatural
        DEF ReaderTyped, ReaderRecord, ReaderLoads, At, Named, SocketsTyped, Sock, None
    <3>4. path[reader[s].path].conn \in 0 .. made
      BY <3>3 DEF PathTyped, PathRecord, PathRecords
    <3>5. r \in ReaderRecord
      BY <3>4 DEF ReaderRecord, ReaderTyped
    <3>. QED
      BY <3>1, <3>2, <3>5, ReaderSet
  <2>. QED
    BY <1>19, <2>1, <2>2, TypeParts, TypeFrames, OtherFrames DEF ReaderLoads
<1>20. ASSUME NEW s \in Sock, ReaderGets(s) PROVE TypeOK'
  <2>1. Numbered
    BY <1>20 DEF ReaderGets, Numbered, sockets, SocketsTyped
  <2>2. AcksTyped'
    <3>1. path[reader[s].path].iface \in Iface
      BY <1>20 DEF ReaderGets, At, Named
    <3>2. CASE Len(recvCh) < ChanSize
      <4>1. Append(recvCh, path[reader[s].path].iface) \in Seq(Iface)
        BY <3>1 DEF AcksTyped
      <4>2. Len(Append(recvCh, path[reader[s].path].iface)) = Len(recvCh) + 1
        BY DEF AcksTyped
      <4>. QED
        <5>1. Len(recvCh) + 1 <= ChanSize
          BY <3>2, NumbersAreNatural DEF AcksTyped
        <5>. QED
          BY <1>20, <3>2, <4>1, <4>2, <5>1 DEF AcksTyped, ReaderGets
    <3>3. CASE ~(Len(recvCh) < ChanSize)
      BY <1>20, <3>3 DEF AcksTyped, ReaderGets
    <3>. QED
      BY <3>2, <3>3
  <2>3. ReaderTyped'
    <3> DEFINE again == [reader[s] EXCEPT !.pc="top", !.conn=None]
    <3>1. reader' = [reader EXCEPT ![s] = again] \/ reader' = [reader EXCEPT ![s] = Ended]
      BY <1>20 DEF ReaderGets, ReaderTyped
    <3>2. made' = made
      BY <1>20 DEF ReaderGets, sockets
    <3>0. reader[s] \in ReaderRecord /\ None \in 0 .. made
      BY NoneIsNumber DEF ReaderTyped, SocketsTyped
    <3>3. again \in ReaderRecord
      BY <3>0 DEF ReaderRecord
    <3>4. Ended \in ReaderRecord
      BY EndedTyped DEF SocketsTyped
    <3>. QED
      BY <3>1, <3>2, <3>3, <3>4, ReaderSet
  <2>. QED
    BY <1>20, <2>1, <2>2, <2>3, TypeParts, TypeFrames, OtherFrames DEF ReaderGets
<1>21. ASSUME NEW s \in Sock, ReaderFails(s) PROVE TypeOK'
  <2>1. Numbered
    BY <1>21 DEF ReaderFails, Numbered, sockets, SocketsTyped
  <2>2. ReaderTyped'
    <3> DEFINE again == [reader[s] EXCEPT !.pc="top", !.conn=None]
               r == IF StopClosed \/ path[reader[s].path].closed \in shut THEN Ended ELSE again
    <3>1. reader' = [reader EXCEPT ![s] = r]
      BY <1>21 DEF ReaderFails
    <3>2. made' = made
      BY <1>21 DEF ReaderFails, sockets
    <3>0. reader[s] \in ReaderRecord /\ None \in 0 .. made
      BY NoneIsNumber DEF ReaderTyped, SocketsTyped
    <3>3. again \in ReaderRecord
      BY <3>0 DEF ReaderRecord
    <3>4. r \in ReaderRecord
      BY <3>3, EndedTyped DEF SocketsTyped
    <3>. QED
      BY <3>1, <3>2, <3>4, ReaderSet
  <2>. QED
    BY <1>21, <2>1, <2>2, TypeParts, TypeFrames, OtherFrames DEF ReaderFails
<1>22. ASSUME NEW i \in Iface, NEW a \in Nic, NicChanges(i, a) PROVE TypeOK'
  <2>1. Numbered
    BY <1>22 DEF NicChanges, Numbered, sockets, SocketsTyped
  <2>2. EnvTyped'
    BY <1>22, NumbersAreNatural DEF NicChanges, EnvTyped
  <2>. QED
    BY <1>22, <2>1, <2>2, TypeParts, TypeFrames, OtherFrames DEF NicChanges
<1>23. CASE DetectChanges
  <2>1. Numbered
    BY <1>23 DEF DetectChanges, Numbered, sockets, SocketsTyped
  <2>2. PollTyped'
    <3>1. made' = made /\ made \in Nat
      BY <1>23 DEF DetectChanges, sockets, SocketsTyped
    <3>2. PICK found \in Scans :
            poll' = [pc |-> "next", phase |-> "gone", snap |-> found, known |-> Known,
                     todo |-> Known \ Usable(found), name |-> NoIface, path |-> None]
      BY <1>23, PollBegins
    <3>3. (Known \in IfaceSets) /\ (Known \ Usable(found) \in IfaceSets) /\ (None \in 0 .. made)
      BY <3>1 DEF Known, IfaceSets, None
    <3>. QED
      BY <3>1, <3>3, <3>2 DEF PollTyped, PollRecord, PollRecords
  <2>3. EnvTyped'
    BY <1>23, PollBegins
  <2>. QED
    BY <1>23, <2>1, <2>2, <2>3, TypeParts, TypeFrames, OtherFrames DEF DetectChanges
<1>24. CASE NextPhase
  <2>1. Numbered
    BY <1>24 DEF NextPhase, Numbered, sockets, SocketsTyped
  <2>2. PollTyped'
    <3>1. made' = made /\ made \in Nat
      BY <1>24 DEF NextPhase, sockets, SocketsTyped
    <3>2. PollRecord' = PollRecord
      BY <3>1 DEF PollRecord
    <3>3. (Usable(poll.snap) \in IfaceSets) /\ (Usable(poll.snap) \ poll.known \in IfaceSets)
      BY DEF Usable, IfaceSets
    <3>4. poll' \in PollRecord
      BY <1>24, <3>1, <3>3, TodoUpdates, PollIdleTyped, NoneIsNumber DEF NextPhase, PollTyped
    <3>5. poll'.pc \in {"next", "idle"}
      BY <1>24 DEF NextPhase, At, PollRecord, PollRecords, PollIdle
    <3>. QED
      BY <3>2, <3>4, <3>5 DEF PollTyped
  <2>. QED
    BY <1>24, <2>1, <2>2, TypeParts, TypeFrames, OtherFrames DEF NextPhase
<1>25. ASSUME NEW i \in Iface, TakeInterface(i) PROVE TypeOK'
  <2>1. Numbered
    BY <1>25 DEF TakeInterface, Numbered, sockets, SocketsTyped
  <2>2. PollTyped'
    <3>1. made' = made /\ made \in Nat
      BY <1>25 DEF TakeInterface, sockets, SocketsTyped
    <3>2. PollRecord' = PollRecord
      BY <3>1 DEF PollRecord
    <3>3. poll.todo \ {i} \in IfaceSets
      BY DEF PollTyped, PollRecord, PollRecords, IfaceSets
    <3>4. paths[i] \in 0 .. made
      BY DEF MapTyped
    <3>5. Skipping(i) \/ (Removing(i) /\ paths[i] # None) \/ Adding(i) \/ Moving(i)
      BY <1>25 DEF TakeInterface, Moved
    <3>6. CASE Skipping(i)
      <4>1. poll' \in PollRecord
        BY <3>3, <3>6, TodoUpdates DEF Skipping, PollTyped
      <4>2. poll'.pc = "next"
        BY <1>25, <3>6 DEF Skipping, TakeInterface, At, PollRecord, PollRecords
      <4>. QED
        BY <3>1, <4>1, <4>2, PollSet
    <3>7. CASE Adding(i)
      <4>1. poll' \in PollRecord
        BY <3>3, <3>7, TodoUpdates DEF Adding, PollTyped
      <4>2. poll'.pc = "open"
        BY <3>7 DEF Adding, PollRecord, PollRecords
      <4>. QED
        BY <3>2, <4>1, <4>2 DEF PollTyped
    <3>8. CASE Moving(i)
      <4>1. poll' \in PollRecord
        BY <3>3, <3>8, TodoUpdates DEF Moving, PollTyped
      <4>2. poll'.pc = "remove"
        BY <3>8 DEF Moving, PollRecord, PollRecords
      <4>. QED
        BY <3>1, <4>1, <4>2, PollSet
    <3>9. CASE Removing(i) /\ paths[i] # None
      <4>1. poll' \in PollRecord
        BY <3>3, <3>4, <3>9, TodoUpdates DEF Removing, PollTyped
      <4>2. poll'.name = i /\ poll'.path = paths[i]
        BY <3>9 DEF Removing, PollRecord, PollRecords
      <4>. QED
        BY <3>2, <3>9, <4>1, <4>2 DEF PollTyped
    <3>. QED
      BY <3>5, <3>6, <3>7, <3>9, <3>8
  <2>. QED
    BY <1>25, <2>1, <2>2, TypeParts, TypeFrames, OtherFrames DEF TakeInterface
<1>26. CASE PollCloses
  <2>1. SocketsTyped' /\ made' = made
      BY <1>26, Closable, ClosePathsTyped DEF PollCloses, PollTyped, At
  <2>2. Numbered
    BY <2>1 DEF Numbered, SocketsTyped
  <2>3. PollTyped'
    <3>1. poll' \in PollRecord
      BY <1>26, <2>1, PollUpdates DEF PollCloses, PollTyped
    <3>2. PollRecord' = PollRecord
      BY <2>1 DEF PollRecord
    <3>3. poll'.name = poll.name /\ poll'.path = poll.path
      BY <1>26, <2>1 DEF PollCloses, PollRecord, PollRecords
    <3>. QED
      BY <1>26, <2>1, <3>1, <3>2, <3>3 DEF PollTyped, PollCloses, At
  <2>4. RunTyped'
    BY <1>26 DEF PollCloses, ClosePaths, RunTyped
  <2>. QED
    BY <1>26, <2>1, <2>2, <2>3, <2>4, TypeParts, TypeFrames, OtherFrames DEF PollCloses
<1>27. CASE PollDeletes
  <2>1. Numbered
    BY <1>27 DEF PollDeletes, Numbered, sockets, SocketsTyped
  <2>2. MapTyped'
    <3>1. made' = made /\ None \in 0 .. made
      BY <1>27, NoneIsNumber DEF PollDeletes, sockets, SocketsTyped
    <3>. QED
      BY <1>27, <3>1 DEF MapTyped, PollDeletes
  <2>3. PathTyped'
    <3>1. path' = [path EXCEPT ![poll.path] = Removed(poll.path)] /\ made' = made
      BY <1>27 DEF PollDeletes, sockets
    <3>2. poll.path \in Sock
      BY <1>27, NumbersAreNatural
        DEF PollDeletes, At, PollTyped, PollRecord, PollRecords, SocketsTyped, Sock, None
    <3>3. PathRecord' = PathRecord
      BY <3>1 DEF PathRecord
    <3>. QED
      BY <3>1, <3>2, <3>3, RemovedTyped DEF PathTyped
  <2>4. PollTyped'
    <3>1. made' = made /\ made \in Nat
      BY <1>27 DEF PollDeletes, sockets, SocketsTyped
    <3>2. poll' \in PollRecord
      BY <1>27, <3>1, PollUpdates, NoneIsNumber DEF PollDeletes, PollTyped
    <3>3. poll'.pc \in {"next", "open"}
      BY <1>27 DEF PollDeletes, PollRecord, PollRecords
    <3>. QED
      BY <3>1, <3>2, <3>3, PollSet
  <2>. QED
    BY <1>27, <2>1, <2>2, <2>3, <2>4, TypeParts, TypeFrames, OtherFrames DEF PollDeletes
<1>28. CASE PollOpens
  <2>1. Numbered
    BY <1>28 DEF PollOpens, MakeSocket, Numbered, SocketsTyped
  <2>2. SocketsTyped'
    BY <1>28, NumbersAreNatural DEF PollOpens, MakeSocket, NoPath, SocketsTyped
  <2>3. PathTyped'
    <3> DEFINE r == [NoPath EXCEPT !.iface = poll.name, !.addr = poll.snap[poll.name], !.conn = made', !.closed = made']
    <3>1. path' = [path EXCEPT ![made'] = r] /\ made \in Nat /\ made' = made + 1
      BY <1>28 DEF PollOpens, MakeSocket, SocketsTyped
    <3>2. poll.name \in Iface /\ poll.snap[poll.name] \in LAddr \cup {NoLAddr}
      BY <1>28 DEF PollOpens, At, PollPlan, PollTyped, PollRecord, PollRecords, Scans, Nic
    <3>3. NoPath \in PathRecords(made')
      BY <3>1, FieldsTyped DEF PathRecords, NoPath, None, Status
    <3>4. made' \in 0 .. made'
      BY <3>1
    <3>5. r \in PathRecords(made')
      BY <3>4, <3>2, <3>3 DEF PathRecords
    <3>6. r \in PathRecord'
      BY <3>5 DEF PathRecord
    <3>. QED
      BY <3>1, <3>6, PathSet DEF Numbered
  <2>4. PollTyped'
    <3>1. made \in Nat /\ made' = made + 1
      BY <1>28 DEF PollOpens, MakeSocket, SocketsTyped
    <3>0. poll \in PollRecords(made')
      BY <3>1 DEF PollTyped, PollRecord, PollRecords
    <3>2. made' \in 0 .. made'
      BY <3>1
    <3>3. [poll EXCEPT !.pc = "insert", !.path = made'] \in PollRecords(made')
      BY <3>0, <3>2 DEF PollRecords
    <3>4. poll' \in PollRecord'
      BY <1>28, <3>3 DEF PollRecord, PollOpens
    <3>5. poll'.name \in Iface /\ poll'.path # None
      BY <1>28, <3>1 DEF PollTyped, PollRecord, PollRecords, PollOpens, PollPlan, At
    <3>. QED
      BY <3>4, <3>5 DEF PollTyped, PollOpens
  <2>. QED
    BY <1>28, <2>1, <2>2, <2>3, <2>4, TypeParts, TypeFrames, OtherFrames DEF PollOpens
<1>29. CASE PollOpenFails
  <2>1. Numbered
    BY <1>29 DEF PollOpenFails, Numbered, sockets, SocketsTyped
  <2>2. PollTyped'
    <3>1. made' = made
      BY <1>29 DEF PollOpenFails, sockets
    <3>2. poll' \in PollRecord
      BY <1>29, PollUpdates DEF PollOpenFails, PollTyped
    <3>3. poll'.pc = "next"
      BY <1>29 DEF PollOpenFails, PollRecord, PollRecords
    <3>. QED
      BY <3>1, <3>2, <3>3, PollSet
  <2>. QED
    BY <1>29, <2>1, <2>2, TypeParts, TypeFrames, OtherFrames DEF PollOpenFails
<1>30. CASE PollInserts
  <2>1. Numbered
    BY <1>30 DEF PollInserts, Numbered, sockets, SocketsTyped
  <2>2. MapTyped'
      BY <1>30 DEF MapTyped, PollTyped, PollRecord, PollRecords, PollInserts, sockets
  <2>3. PollTyped'
    <3>1. made' = made
      BY <1>30 DEF PollInserts, sockets
    <3>2. poll' \in PollRecord
      BY <1>30, PollUpdates DEF PollInserts, PollTyped
    <3>3. PollRecord' = PollRecord
      BY <3>1 DEF PollRecord
    <3>4. poll'.name = poll.name /\ poll'.path = poll.path
      BY <1>30 DEF PollInserts, PollRecord, PollRecords
    <3>. QED
      BY <1>30, <3>2, <3>3, <3>4 DEF PollTyped, PollInserts, At
  <2>. QED
    BY <1>30, <2>1, <2>2, <2>3, TypeParts, TypeFrames, OtherFrames DEF PollInserts
<1>31. CASE PollSpawns
  <2>1. Numbered
    BY <1>31 DEF PollSpawns, Numbered, sockets, SocketsTyped
  <2>2. ReaderTyped'
    <3>1. poll.path \in 0 .. made /\ made' = made
      BY <1>31 DEF PollSpawns, PollTyped, PollRecord, PollRecords, sockets
    <3>2. StartReader(poll.path, poll.path)
      BY <1>31 DEF PollSpawns
    <3>. QED
      BY <3>1, <3>2, SpawnTyped
  <2>3. PollTyped'
    <3>1. made' = made /\ made \in Nat
      BY <1>31 DEF PollSpawns, sockets, SocketsTyped
    <3>2. poll' \in PollRecord
      BY <1>31, <3>1, PollUpdates, NoneIsNumber DEF PollSpawns, PollTyped
    <3>3. poll'.pc = "next"
      BY <1>31 DEF PollSpawns, PollRecord, PollRecords
    <3>. QED
      BY <3>1, <3>2, <3>3, PollSet
  <2>. QED
    BY <1>31, <2>1, <2>2, <2>3, TypeParts, TypeFrames, OtherFrames DEF PollSpawns
<1>32. CASE Cancel
  <2>1. Numbered
    BY <1>32 DEF Cancel, Numbered, sockets, SocketsTyped
  <2>2. RunTyped'
    BY <1>32 DEF Cancel, RunTyped
  <2>. QED
    BY <1>32, <2>1, <2>2, TypeParts, TypeFrames, OtherFrames DEF Cancel
<1>33. CASE LoopEnds
  <2>1. Numbered
    BY <1>33 DEF LoopEnds, Numbered, sockets, SocketsTyped
  <2>2. HbTyped'
    BY <1>33 DEF LoopEnds, HbTyped
  <2>3. SndTyped'
    BY <1>33 DEF LoopEnds, SndTyped
  <2>4. RcvTyped'
    BY <1>33 DEF LoopEnds, RcvTyped, sockets, MapTyped
  <2>. QED
    BY <1>33, <2>1, <2>2, <2>3, <2>4, TypeParts, TypeFrames, OtherFrames DEF LoopEnds
<1>34. CASE StopBegins
  <2>1. Numbered
    BY <1>34 DEF StopBegins, Numbered, sockets, SocketsTyped
  <2>2. RunTyped'
    BY <1>34 DEF StopBegins, RunTyped
  <2>. QED
    BY <1>34, <2>1, <2>2, TypeParts, TypeFrames, OtherFrames DEF StopBegins
<1>35. CASE StopCloses
  <2>1. SocketsTyped' /\ made' = made
    <3>1. {paths[i] : i \in Known} \subseteq Sock
      BY Closable
    <3>2. \A p \in {paths[i] : i \in Known} : path[p].closed \in 1 .. made
      BY Closable
    <3>. QED
      BY <1>35, <3>1, <3>2, ClosePathsTyped DEF StopCloses
  <2>2. Numbered
    BY <2>1 DEF Numbered, SocketsTyped
  <2>3. MapTyped'
      BY <1>35, <2>1 DEF MapTyped, StopCloses, None, SocketsTyped
  <2>4. PathTyped'
    <3>1. PathRecord' = PathRecord
      BY <2>1 DEF PathRecord
    <3>. QED
      BY <1>35, <2>1, <3>1, RemovedTyped DEF PathTyped, StopCloses
  <2>5. RunTyped'
    BY <1>35 DEF StopCloses, ClosePaths, Removed, RunTyped
  <2>. QED
    BY <1>35, <2>1, <2>2, <2>3, <2>4, <2>5, TypeParts, TypeFrames, OtherFrames DEF StopCloses
<1>36. CASE StopReturns
  <2>1. Numbered
    BY <1>36 DEF StopReturns, Numbered, sockets, SocketsTyped
  <2>2. RunTyped'
    BY <1>36 DEF StopReturns, RunTyped
  <2>. QED
    BY <1>36, <2>1, <2>2, TypeParts, TypeFrames, OtherFrames DEF StopReturns
<1>37. CASE PollEnds
  <2>1. Numbered
    BY <1>37 DEF PollEnds, Numbered, sockets, SocketsTyped
  <2>2. PollTyped'
    <3>1. made' = made
      BY <1>37 DEF PollEnds, sockets
    <3>2. poll' \in PollRecord
      BY <1>37, PollUpdates DEF PollEnds, PollTyped
    <3>3. poll'.pc = "done"
      BY <1>37 DEF PollEnds, PollRecord, PollRecords
    <3>. QED
      BY <3>1, <3>2, <3>3, PollSet
  <2>. QED
    BY <1>37, <2>1, <2>2, TypeParts, TypeFrames, OtherFrames DEF PollEnds
<1>38. CASE PollLooksUp
  <2>1. Numbered
    BY <1>38 DEF PollLooksUp, Numbered, sockets, SocketsTyped
  <2>2. PollTyped'
    <3>1. made' = made /\ poll.name \in Iface
      BY <1>38 DEF PollLooksUp, At, PollPlan, sockets
    <3>2. paths[poll.name] \in 0 .. made /\ PollRecord' = PollRecord
      BY <3>1 DEF MapTyped, PollRecord
    <3>3. CASE poll' = [poll EXCEPT !.pc = "open"]
      <4>1. poll' \in PollRecord
        BY <3>3, PollUpdates DEF PollTyped
      <4>2. poll'.pc = "open"
        BY <3>3 DEF PollTyped, PollRecord, PollRecords
      <4>. QED
        BY <3>1, <4>1, <4>2, PollSet
    <3>4. CASE paths[poll.name] # None /\ poll' = [poll EXCEPT !.pc = "close", !.path = paths[poll.name]]
      <4>1. poll' \in PollRecord
        BY <3>2, <3>4, PollUpdates DEF PollTyped
      <4>2. poll'.name = poll.name /\ poll'.path = paths[poll.name]
        BY <3>4 DEF PollTyped, PollRecord, PollRecords
      <4>. QED
        BY <3>1, <3>2, <3>4, <4>1, <4>2 DEF PollTyped
    <3>. QED
      BY <1>38, <3>3, <3>4 DEF PollLooksUp
  <2>. QED
    BY <1>38, <2>1, <2>2, TypeParts, TypeFrames, OtherFrames DEF PollLooksUp
<1>39. CASE UNCHANGED vars
  <2>1. Numbered
    BY <1>39 DEF vars, Numbered, sockets, SocketsTyped
  <2>. QED
    BY <1>39, <2>1, TypeParts, TypeFrames, OtherFrames DEF vars
<1>. QED
  BY <1>1, <1>2, <1>3, <1>4, <1>5, <1>6, <1>7, <1>8, <1>9, <1>10, <1>11, <1>12, <1>13, <1>14, <1>15,
     <1>16, <1>17, <1>18, <1>19, <1>20, <1>21, <1>22, <1>23, <1>24, <1>25, <1>26, <1>27, <1>28, <1>29,
     <1>30, <1>31, <1>32, <1>33, <1>34, <1>35, <1>36, <1>37, <1>38, <1>39
    DEF Next, HbStep, SndStep, RcvStep, ReaderStep, PollStep, StopStep

-----------------------------------------------------------------------------
(* What steps do to paths and sockets *)

\* The name, the socket and the channel of a Path.
Same(p) ==
  /\ path'[p].iface = path[p].iface
  /\ path'[p].conn = path[p].conn
  /\ path'[p].closed = path[p].closed

\* Most steps leave them alone: heartbeats, data, acks, ages, verdicts.
Quiet ==
  /\ UNCHANGED <<made, open, shut, paths, reader, poll, panicked>>
  /\ \A p \in Sock : Same(p)
  /\ UNCHANGED hb \/ (hb.pc # "swap" /\ hb'.pc \notin {"create", "swap"})
  /\ StopClosed => StopClosed'

Opening(p) ==
  /\ p \in Sock /\ path'[p].iface = path[p].iface /\ path'[p].closed = path[p].closed
  /\ path'[p].conn = made'
  /\ \A q \in Sock \ {p} : Same(q)

Swapping(p) ==
  /\ p \in Sock /\ path'[p].iface = path[p].iface /\ path'[p].conn = path[p].conn
  /\ path'[p].closed = path[p].conn
  /\ \A q \in Sock \ {p} : Same(q)

Creating ==
  /\ made' \in Sock
  /\ path'[made'].iface = poll.name /\ path'[made'].conn = made' /\ path'[made'].closed = made'
  /\ \A q \in Sock \ {made'} : Same(q)

\* A status is no name, socket or channel.
LEMMA StatusSame ==
  ASSUME PathTyped, NEW p, NEW st, SetStatus(p, st)
  PROVE  \A q \in Sock : Same(q)
BY DEF PathTyped, PathRecord, PathRecords, SetStatus, Same

\* The steps that write Paths, as the proofs below see them.
LEMMA PathEffects ==
  ASSUME TypeInv, MapTyped, PathTyped, SocketsTyped, PollTyped, RcvTyped
  PROVE  /\ Tick \/ AckRecorded \/ PollDeletes \/ StopCloses => \A q \in Sock : Same(q)
         /\ RecycleOpens => Opening(paths[hb.name])
         /\ RecycleSwaps => Swapping(paths[hb.name])
         /\ PollOpens => Creating
<1> USE DEF Same
<1>1. ASSUME Tick PROVE \A q \in Sock : Same(q)
  BY <1>1 DEF Tick, PathTyped, PathRecord, PathRecords
<1>2. ASSUME AckRecorded PROVE \A q \in Sock : Same(q)
  BY <1>2 DEF AckRecorded, PathTyped, PathRecord, PathRecords
<1>3. ASSUME PollDeletes PROVE \A q \in Sock : Same(q)
  BY <1>3 DEF PollDeletes, Removed, PathTyped, PathRecord, PathRecords
<1>4. ASSUME StopCloses PROVE \A q \in Sock : Same(q)
  BY <1>4 DEF StopCloses, Removed, PathTyped, PathRecord, PathRecords
<1>5. hb.pc \in {"create", "swap"} => paths[hb.name] \in Sock
  BY NumbersAreNatural DEF TypeInv, Named, Known, MapTyped, SocketsTyped, Sock, None
<1>6. ASSUME RecycleOpens PROVE Opening(paths[hb.name])
  BY <1>5, <1>6 DEF RecycleOpens, At, Opening, PathTyped, PathRecord, PathRecords
<1>7. ASSUME RecycleSwaps PROVE Swapping(paths[hb.name])
  BY <1>5, <1>7 DEF RecycleSwaps, At, Swapping, PathTyped, PathRecord, PathRecords
<1>8. ASSUME PollOpens PROVE Creating
  <2>1. made' \in Sock
    BY <1>8, NumbersAreNatural DEF PollOpens, MakeSocket, SocketsTyped, Sock
  <2>. QED
    BY <1>8, <2>1 DEF PollOpens, Creating, PathTyped, NoPath
<1>. QED
  BY <1>1, <1>2, <1>3, <1>4, <1>6, <1>7, <1>8

\* Every step is quiet, or one of those that make, close and read sockets.
Closing(i) == RecycleBegins(i) /\ paths[i] # None
PollThinks ==
  DetectChanges \/ NextPhase \/ PollLooksUp \/ PollOpenFails \/ PollEnds \/ \E i \in Iface : TakeInterface(i)
ReaderMoves(s) == ReaderLoads(s) \/ ReaderGets(s) \/ ReaderFails(s)

\* Every step is of one of these kinds.
LEMMA StepKinds ==
  ASSUME TypeInv, MapTyped, PathTyped, SocketsTyped, PollTyped, RcvTyped, HbTyped, [Next]_vars
  PROVE  \/ Quiet
         \/ \E i \in Iface : Closing(i)
         \/ RecycleOpens \/ RecycleSwaps
         \/ \E s \in Sock : ReaderMoves(s)
         \/ PollThinks \/ PollCloses \/ PollDeletes \/ PollOpens \/ PollInserts \/ PollSpawns
         \/ StopCloses
<1>1. UNCHANGED path => \A q \in Sock : Same(q)
  BY DEF Same
<1> USE DEF sockets, At, HbTyped, StopClosed
<1>2. CASE Tick
  BY <1>2, PathEffects DEF Tick, Quiet, HbIdle
<1>3. ASSUME NEW i \in Iface, HeartbeatOn(i) PROVE Quiet
  <2>1. UNCHANGED path \/ SetStatus(paths[i], "suspect")
    BY <1>3 DEF HeartbeatOn
  <2>. QED
    BY <1>1, <1>3, <2>1, StatusSame DEF HeartbeatOn, Quiet
<1>4. CASE HeartbeatsSent \/ BeginCheck \/ CheckDone \/ RoundDone
  <2>1. CASE HeartbeatsSent
    BY <1>1, <2>1 DEF HeartbeatsSent, Quiet
  <2>2. CASE BeginCheck
    BY <1>1, <2>2 DEF BeginCheck, Quiet
  <2>3. CASE CheckDone
    BY <1>1, <2>3 DEF CheckDone, HbIdle, Quiet
  <2>4. CASE RoundDone
    BY <1>1, <2>4 DEF RoundDone, HbIdle, Quiet
  <2>. QED
    BY <1>4, <2>1, <2>2, <2>3, <2>4
<1>5. ASSUME NEW i \in Iface, CheckPath(i) PROVE Quiet
  BY <1>1, <1>5 DEF CheckPath, Quiet
<1>6. CASE MarkDown
  BY <1>6, StatusSame DEF MarkDown, Quiet
<1>7. CASE RecycleFails
  BY <1>7, StatusSame DEF RecycleFails, Quiet
<1>8. ASSUME NEW i \in Iface, RecycleBegins(i), paths[i] = None PROVE Quiet
  BY <1>1, <1>8 DEF RecycleBegins, Quiet
<1>9. CASE SendBegins \/ SendDone \/ AckTaken \/ Cancel \/ StopReturns \/ StopBegins
  BY <1>1, <1>9 DEF SendBegins, SendDone, AckTaken, Cancel, StopReturns, StopBegins, Quiet
<1>10. ASSUME NEW i \in Iface, SendOn(i) PROVE Quiet
  BY <1>1, <1>10 DEF SendOn, Quiet
<1>11. CASE SendMarks
  BY <1>11, StatusSame DEF SendMarks, Quiet
<1>12. CASE AckRecorded
  BY <1>12, PathEffects DEF AckRecorded, Quiet
<1>13. ASSUME NEW i \in Iface, NEW a \in Nic, NicChanges(i, a) PROVE Quiet
  BY <1>1, <1>13 DEF NicChanges, Quiet
<1>14. CASE LoopEnds
  BY <1>1, <1>14 DEF LoopEnds, Quiet
<1>15. CASE UNCHANGED vars
  BY <1>1, <1>15 DEF vars, Quiet
<1>. QED
  BY <1>2, <1>3, <1>4, <1>5, <1>6, <1>7, <1>8, <1>9, <1>10, <1>11, <1>12, <1>13, <1>14, <1>15
    DEF Next, HbStep, SndStep, RcvStep, ReaderStep, PollStep, StopStep, Closing, PollThinks, ReaderMoves

-----------------------------------------------------------------------------
(* What the goroutines know: the steps *)

\* Every step keeps LoopsHaveEnded.
LEMMA StepEnded == TypeInv /\ [Next]_vars => LoopsHaveEnded'
<1> SUFFICES ASSUME LoopsHaveEnded, HbTyped, SndTyped, RcvTyped, [Next]_vars PROVE LoopsHaveEnded'
  BY TypeParts DEF TypeInv
<1> USE DEF LoopsHaveEnded, StopClosed, At
<1>1. CASE Tick \/ HbStep
  BY <1>1
    DEF Tick, HbStep, HeartbeatOn, CheckPath, RecycleBegins, HeartbeatsSent, BeginCheck, MarkDown,
        CheckDone, RecycleOpens, RecycleFails, RecycleSwaps, RoundDone
<1>2. CASE SendBegins \/ SndStep
  BY <1>2 DEF SendBegins, SndStep, SendMarks, SendDone, SendOn
<1>3. CASE RcvStep
  BY <1>3 DEF RcvStep, AckTaken, AckRecorded
<1>4. ASSUME NEW s \in Sock, ReaderStep(s) \/ ReaderGets(s) PROVE LoopsHaveEnded'
  BY <1>4 DEF ReaderStep, ReaderLoads, ReaderFails, ReaderGets
<1>5. CASE PollStep \/ PollEnds
  BY <1>5
    DEF PollStep, PollEnds, DetectChanges, NextPhase, TakeInterface, PollLooksUp, PollCloses, PollDeletes, PollOpens,
        PollOpenFails, PollInserts, PollSpawns
<1>6. ASSUME NEW i \in Iface, NEW a \in Nic, NicChanges(i, a) PROVE LoopsHaveEnded'
  BY <1>6 DEF NicChanges
<1>7. CASE Cancel \/ LoopEnds \/ StopBegins \/ StopCloses \/ StopReturns
  BY <1>7 DEF Cancel, LoopEnds, StopBegins, StopCloses, StopReturns
<1>8. CASE UNCHANGED vars
  BY <1>8 DEF vars
<1>. QED
  BY <1>1, <1>2, <1>3, <1>4, <1>5, <1>6, <1>7, <1>8 DEF Next, StopStep

\* Numbers that stand for Paths do so.
LEMMA PathNumbers ==
  ASSUME MapTyped, PathTyped, SocketsTyped, PollTyped, ReaderTyped, HbTyped, Named
  PROVE  /\ \A i \in Known : i \in Iface /\ paths[i] \in Sock /\ paths[i] # None
         /\ poll.path # None => poll.path \in Sock
         /\ \A s \in Sock : reader[s].pc \in {"top", "read"} => reader[s].path \in Sock
         /\ hb.pc \in {"create", "swap"} => hb.name \in Iface /\ paths[hb.name] \in Sock
         /\ \A p \in Sock : path[p].closed \in 0 .. made /\ path[p].conn \in 0 .. made
<1>1. \A i \in Known : i \in Iface /\ paths[i] \in Sock /\ paths[i] # None
  BY NumbersAreNatural DEF Known, MapTyped, SocketsTyped, Sock, None
<1>2. poll.path # None => poll.path \in Sock
  BY NumbersAreNatural DEF PollTyped, PollRecord, PollRecords, SocketsTyped, Sock, None
<1>3. \A s \in Sock : reader[s].pc \in {"top", "read"} => reader[s].path \in Sock
  BY NumbersAreNatural DEF Named, ReaderTyped, ReaderRecord, SocketsTyped, Sock, None
<1>4. hb.pc \in {"create", "swap"} => hb.name \in Iface /\ paths[hb.name] \in Sock
  BY <1>1 DEF Named
<1>5. \A p \in Sock : path[p].closed \in 0 .. made /\ path[p].conn \in 0 .. made
  BY DEF PathTyped, PathRecord, PathRecords
<1>. QED
  BY <1>1, <1>2, <1>3, <1>4, <1>5

\* Every step keeps Named: no reader, recycling or removal loses its Path.
LEMMA StepNamed == TypeInv /\ [Next]_vars => Named'
<1> SUFFICES ASSUME TypeInv, Named, PollPlan, LoopsHaveEnded, [Next]_vars,
                    EnvTyped, SocketsTyped, MapTyped, PathTyped, ReaderTyped, HbTyped, PollTyped, RcvTyped
             PROVE  Named'
  BY TypeParts DEF TypeInv
<1>0. /\ \A i \in Known : i \in Iface /\ paths[i] \in Sock /\ paths[i] # None
      /\ poll.path # None => poll.path \in Sock
      /\ \A s \in Sock : reader[s].pc \in {"top", "read"} => reader[s].path \in Sock
      /\ hb.pc \in {"create", "swap"} => hb.name \in Iface /\ paths[hb.name] \in Sock
  BY PathNumbers
<1>1. CASE Quiet
  BY <1>0, <1>1 DEF Quiet, Named, Known, Same
<1>2. ASSUME NEW i \in Iface, Closing(i) PROVE Named'
  BY <1>0, <1>2 DEF Closing, RecycleBegins, Named, Known, HbTyped
<1>3. CASE RecycleOpens
  <2>1. Opening(paths[hb.name]) /\ made' # None
    BY <1>3, PathEffects DEF RecycleOpens, MakeSocket, SocketsTyped, None
  <2>. QED
    BY <1>0, <1>3, <2>1 DEF RecycleOpens, At, Opening, Same, Named, Known, HbTyped
<1>4. CASE RecycleSwaps
  <2>1. Swapping(paths[hb.name])
    BY <1>4, PathEffects
  <2>2. path[paths[hb.name]].iface \in Iface
    BY <1>0, <1>4 DEF RecycleSwaps, At, Named
  <2>3. \A s \in Sock : reader'[s] = reader[s] \/ reader'[s].path = paths[hb.name]
    BY <1>4 DEF RecycleSwaps, StartReader, ReaderTyped
  <2>4. hb'.pc = "recycle"
    BY <1>4 DEF RecycleSwaps, HbTyped
  <2>5. UNCHANGED <<paths, poll>> /\ paths[hb.name] # None
    BY <1>4 DEF RecycleSwaps, At, Named, Known
  <2>6. \A p \in Sock : path'[p].iface = path[p].iface /\ path'[p].conn = path[p].conn
                        /\ path'[p].closed \in {path[p].closed, path[p].conn}
    BY <2>1 DEF Swapping, Same
  <2>7. \A s \in Sock : reader'[s].pc \in {"top", "read"} =>
          reader'[s].path # None /\ path'[reader'[s].path].iface \in Iface
    BY <1>0, <2>1, <2>2, <2>3, <2>5, <2>6 DEF Named, Swapping
  <2>. QED
    BY <1>0, <2>4, <2>5, <2>6, <2>7 DEF Named, Known
<1>5. ASSUME NEW s \in Sock, ReaderMoves(s) PROVE Named'
  <2>1. /\ UNCHANGED <<path, paths, hb, poll>>
        /\ reader[s].pc \in {"top", "read"}
        /\ \A t \in Sock \ {s} : reader'[t] = reader[t]
        /\ reader'[s].path = reader[s].path \/ reader'[s].pc = "done"
    <3>1. CASE ReaderLoads(s)
      BY <3>1 DEF ReaderLoads, At, ReaderTyped, ReaderRecord
    <3>2. CASE ReaderGets(s)
      BY <3>2 DEF ReaderGets, At, ReaderTyped, ReaderRecord, Ended, NoReader
    <3>3. CASE ReaderFails(s)
      BY <3>3 DEF ReaderFails, At, ReaderTyped, ReaderRecord, Ended, NoReader
    <3>. QED
      BY <1>5, <3>1, <3>2, <3>3 DEF ReaderMoves
  <2>. QED
    BY <2>1 DEF Named, Known
<1>6. CASE PollThinks
  <2>1. UNCHANGED <<path, paths, hb, reader>>
    BY <1>6 DEF PollThinks, DetectChanges, NextPhase, PollLooksUp, PollOpenFails, PollEnds, TakeInterface
  <2>2. poll'.path # None => poll'.name \in Iface /\ path[poll'.path].iface = poll'.name
    <3>1. CASE DetectChanges
      BY <3>1, PollBegins
    <3>2. CASE NextPhase
      BY <3>2 DEF NextPhase, PollIdle, At, PollPlan, PollRecord, PollRecords
    <3>3. CASE PollOpenFails
      BY <3>3 DEF PollOpenFails, At, PollPlan, PollRecord, PollRecords
    <3>4. CASE PollEnds
      BY <3>4 DEF PollEnds, At, PollPlan, PollRecord, PollRecords
    <3>5. ASSUME NEW i \in Iface, TakeInterface(i)
          PROVE  poll'.path # None => poll'.name \in Iface /\ path[poll'.path].iface = poll'.name
      <4>1. CASE Skipping(i) \/ Adding(i) \/ Moving(i)
        BY <3>5, <4>1
          DEF TakeInterface, Skipping, Adding, Moving, At, PollPlan, PollTyped, PollRecord, PollRecords
      <4>2. CASE Removing(i) /\ paths[i] # None
        BY <4>2 DEF Removing, Named, Known, PollRecord, PollRecords
      <4>. QED
        BY <3>5, <4>1, <4>2 DEF TakeInterface, Moved
    <3>6. CASE PollLooksUp
      BY <3>6 DEF PollLooksUp, At, Named, Known, PollPlan, PollTyped, PollRecord, PollRecords
    <3>. QED
      BY <1>6, <3>1, <3>2, <3>3, <3>4, <3>5, <3>6 DEF PollThinks
  <2>. QED
    BY <2>1, <2>2 DEF Named, Known
<1>7. CASE PollCloses
  BY <1>7 DEF PollCloses, Named, Known, PollRecord, PollRecords
<1>8. CASE PollDeletes
  <2>1. \A q \in Sock : Same(q)
    BY <1>8, PathEffects
  <2>2. poll'.path = None /\ UNCHANGED <<hb, reader>> /\ hb.pc \notin {"create", "swap"}
    BY <1>8 DEF PollDeletes, CanLock, WriteLocked, PollRecord, PollRecords
  <2>3. \A i \in Iface : paths'[i] \in {paths[i], None}
    BY <1>8 DEF PollDeletes, MapTyped
  <2>. QED
    BY <1>0, <2>1, <2>2, <2>3 DEF Named, Known, Same
<1>9. CASE PollOpens
  <2>1. Creating /\ made' # None
    BY <1>9, PathEffects DEF PollOpens, MakeSocket, SocketsTyped, None
  <2>2. UNCHANGED <<hb, reader, paths>> /\ poll'.path = made' /\ poll'.name = poll.name /\ poll.name \in Iface
    BY <1>9 DEF PollOpens, At, PollPlan, PollRecord, PollRecords
  <2>3. \A i \in Known : paths[i] # made'
    BY <1>9 DEF PollOpens, MakeSocket, SocketsTyped, Known, MapTyped
  <2>4. \A s \in Sock : reader[s].path # made'
    BY <1>9 DEF PollOpens, MakeSocket, SocketsTyped, ReaderTyped, ReaderRecord
  <2>. QED
    BY <1>0, <2>1, <2>2, <2>3, <2>4 DEF Creating, Named, Known, Same
<1>10. CASE PollInserts
  <2>1. /\ UNCHANGED <<path, hb, reader>> /\ hb.pc \notin {"create", "swap"}
        /\ poll'.path = poll.path /\ poll'.name = poll.name
        /\ paths' = [paths EXCEPT ![poll.name] = poll.path]
        /\ poll.path # None
    BY <1>10 DEF PollInserts, At, CanLock, WriteLocked, PollTyped, PollRecord, PollRecords
  <2>. QED
    BY <2>1 DEF Named, Known, MapTyped
<1>11. CASE PollSpawns
  <2>1. /\ UNCHANGED <<path, paths, hb>> /\ poll'.path = None /\ poll.path # None
        /\ \A s \in Sock : reader'[s] = reader[s] \/ reader'[s].path = poll.path
    BY <1>11 DEF PollSpawns, At, StartReader, PollTyped, PollRecord, PollRecords, ReaderTyped
  <2>. QED
    BY <2>1 DEF Named, Known
<1>12. CASE StopCloses
  <2>1. \A q \in Sock : Same(q)
    BY <1>12, PathEffects
  <2>2. UNCHANGED <<hb, reader, poll>> /\ hb.pc = "done" /\ \A i \in Iface : paths'[i] = None
    BY <1>12 DEF StopCloses, LoopsHaveEnded, StopClosed
  <2>. QED
    BY <1>0, <2>1, <2>2 DEF Named, Known, Same
<1>. QED
  BY <1>1, <1>2, <1>3, <1>4, <1>5, <1>6, <1>7, <1>8, <1>9, <1>10, <1>11, <1>12, StepKinds

\* Every step keeps PollPlan, with Stop and the heartbeat loop around it.
LEMMA StepPlan == TypeInv /\ [Next]_vars => PollPlan'
<1> SUFFICES ASSUME TypeInv, Named, PollPlan, LoopsHaveEnded, [Next]_vars,
                    EnvTyped, SocketsTyped, MapTyped, PathTyped, ReaderTyped, HbTyped, PollTyped, RcvTyped
             PROVE  PollPlan'
  BY TypeParts DEF TypeInv
<1>1. CASE Quiet
  BY <1>1 DEF Quiet, PollPlan, Known
<1>2. ASSUME NEW i \in Iface, Closing(i) PROVE PollPlan'
  BY <1>2 DEF Closing, RecycleBegins, PollPlan, Known
<1>3. CASE RecycleOpens \/ RecycleSwaps
  BY <1>3 DEF RecycleOpens, RecycleSwaps, PollPlan, Known
<1>4. ASSUME NEW s \in Sock, ReaderMoves(s) PROVE PollPlan'
  BY <1>4 DEF ReaderMoves, ReaderLoads, ReaderGets, ReaderFails, PollPlan, Known
<1>5. CASE DetectChanges
  <2>1. UNCHANGED paths
    BY <1>5 DEF DetectChanges
  <2>2. poll'.pc = "next" /\ poll'.phase = "gone" /\ poll'.known = Known /\ poll'.path = None
    BY <1>5, PollBegins
  <2>. QED
    BY <2>1, <2>2 DEF PollPlan, Known
<1>6. CASE NextPhase
  BY <1>6 DEF NextPhase, PollIdle, At, PollPlan, Known, PollRecord, PollRecords
<1>7. CASE PollOpenFails
  BY <1>7 DEF PollOpenFails, At, PollPlan, Known, PollRecord, PollRecords
<1>8. CASE PollEnds
  BY <1>8 DEF PollEnds, At, PollPlan, Known, PollRecord, PollRecords
<1>9. ASSUME NEW i \in Iface, TakeInterface(i) PROVE PollPlan'
  <2>1. UNCHANGED paths /\ poll.pc = "next" /\ i \in poll.todo /\ poll.path = None
    BY <1>9 DEF TakeInterface, At, PollPlan
  <2>2. CASE Skipping(i)
    BY <2>1, <2>2 DEF Skipping, PollPlan, Known, PollRecord, PollRecords
  <2>3. CASE poll.phase = "new" /\ poll.snap[i] # OtherFamily /\ Adding(i)
    BY <2>1, <2>3 DEF Adding, PollPlan, Known, PollRecord, PollRecords
  <2>4. CASE poll.phase = "gone" /\ Removing(i)
    BY <2>1, <2>4 DEF Removing, PollPlan, Known, PollRecord, PollRecords
  <2>5. CASE poll.phase = "moved" /\ poll.snap[i] # OtherFamily /\ Moving(i)
    BY <2>1, <2>5 DEF Moving, PollPlan, Known, PollRecord, PollRecords
  <2>. QED
    BY <1>9, <2>2, <2>3, <2>4, <2>5 DEF TakeInterface, Moved
<1>10. CASE PollCloses
  BY <1>10 DEF PollCloses, At, PollPlan, Known, PollRecord, PollRecords
<1>11. CASE PollDeletes
  <2>1. paths' = [paths EXCEPT ![poll.name] = None] /\ poll.name \in Iface
    BY <1>11 DEF PollDeletes, At, PollTyped
  <2>2. Known' \subseteq Known /\ paths'[poll.name] = None
    BY <2>1 DEF Known, MapTyped
  <2>. QED
    BY <1>11, <2>2 DEF PollDeletes, At, PollPlan, PollTyped, PollRecord, PollRecords
<1>12. CASE PollOpens
  BY <1>12 DEF PollOpens, At, PollPlan, Known, PollRecord, PollRecords
<1>13. CASE PollInserts
  <2>1. paths' = [paths EXCEPT ![poll.name] = poll.path] /\ poll.name \in Iface
    BY <1>13 DEF PollInserts, At, PollTyped
  <2>2. Known' \subseteq Known \cup {poll.name}
    BY <2>1 DEF Known, MapTyped
  <2>. QED
    BY <1>13, <2>2 DEF PollInserts, At, PollPlan, PollRecord, PollRecords
<1>14. CASE PollSpawns
  BY <1>14 DEF PollSpawns, At, PollPlan, Known, PollRecord, PollRecords
<1>15. CASE StopCloses
  <2>1. UNCHANGED poll /\ Known' = {} /\ \A i \in Iface : paths'[i] = None
    BY <1>15 DEF StopCloses, Known
  <2>2. poll.pc \in {"close", "delete", "open", "insert"} => poll.name \in Iface
    BY DEF PollTyped, PollPlan
  <2>. QED
    BY <2>1, <2>2 DEF PollPlan
<1>16. CASE PollLooksUp
  BY <1>16 DEF PollLooksUp, At, PollPlan, Known, PollTyped, PollRecord, PollRecords
<1>. QED
  BY <1>1, <1>2, <1>3, <1>4, <1>5, <1>6, <1>7, <1>8, <1>9, <1>10, <1>11, <1>12, <1>13, <1>14, <1>15,
     <1>16, StepKinds DEF PollThinks

\* It holds when the client starts.
LEMMA TypeInvInit == Init => TypeInv
<1> SUFFICES ASSUME Init PROVE TypeInv
  OBVIOUS
<1>1. EnvTyped /\ SocketsTyped /\ MapTyped /\ AcksTyped
  BY NumbersAreNatural DEF Init, EnvTyped, SocketsTyped, MapTyped, AcksTyped, None
<1>2. PingsTyped /\ HbTyped
  BY DEF Init, PingsTyped, HbTyped, HbIdle
<1>3. SndTyped /\ RcvTyped /\ RunTyped
  BY DEF Init, SndTyped, RcvTyped, RunTyped, SndIdle, RcvIdle
<1>4. PathTyped
  <2>1. NoPath \in PathRecord
    BY FieldsTyped DEF PathRecord, PathRecords, NoPath, None, Status, Init
  <2>. QED
    BY <2>1 DEF PathTyped, Init
<1>5. ReaderTyped
  BY DEF ReaderTyped, ReaderRecord, NoReader, Init, None
<1>6. PollTyped
  BY PollIdleTyped DEF PollTyped, PollIdle, Init
<1>7. LoopsHaveEnded /\ Named /\ PollPlan
  BY DEF Init, LoopsHaveEnded, StopClosed, Named, PollPlan, NoPath, NoReader, Known, HbIdle, PollIdle
<1>. QED
  BY <1>1, <1>4, <1>5, <1>6, <1>7, <1>2, <1>3, TypeParts DEF TypeInv

\* It is an invariant.
LEMMA TypeInvCorrect == Spec => []TypeInv
<1>1. TypeInv /\ [Next]_vars => TypeInv'
  BY StepType, StepEnded, StepNamed, StepPlan DEF TypeInv
<1>. QED
  BY <1>1, TypeInvInit, PTL DEF Spec

\* The variables have their types: no loop uses a Path, a socket or a name that is not
\* there, whatever was recycled, removed or stopped since it looked.
THEOREM TypeCorrect == Spec => []TypeOK
BY TypeInvCorrect, PTL DEF TypeInv

-----------------------------------------------------------------------------
(* No open socket is lost *)

HeldInv == TypeInv /\ SocketsHeld /\ NoSocketLeaks

\* What the map and pollInterfaces hold, as sets.
InMap   == {path[paths[i]].conn : i \in Known}
AtPoll  == {path[p].conn : p \in {poll.path} \ {None}}

\* Closing one path, in a step that does not panic.
LEMMA ClosesOne ==
  ASSUME NEW p, ClosePaths({p}), ~panicked'
  PROVE  /\ path[p].closed \notin shut
         /\ shut' = shut \cup {path[p].closed}
         /\ open' = open \ {path[p].conn}
         /\ made' = made
<1>1. {path[q].closed : q \in {p}} = {path[p].closed} /\ {path[q].conn : q \in {p}} = {path[p].conn}
  OBVIOUS
<1>. QED
  BY DEF ClosePaths

\* Every step keeps the book of who holds an open socket.
LEMMA StepHeld == HeldInv /\ [Next]_vars => SocketsHeld' /\ NoSocketLeaks'
<1> SUFFICES ASSUME TypeInv, Named, PollPlan, LoopsHaveEnded, [Next]_vars, SocketsHeld, NoSocketLeaks,
                    ~panicked', 
                    EnvTyped, SocketsTyped, MapTyped, PathTyped, ReaderTyped, HbTyped, PollTyped, RcvTyped
             PROVE  SocketsHeld' /\ NoSocketLeaks'
  BY TypeParts DEF HeldInv, TypeInv, SocketsHeld, NoSocketLeaks
<1>0. /\ \A i \in Known : i \in Iface /\ paths[i] \in Sock /\ paths[i] # None
      /\ poll.path # None => poll.path \in Sock
      /\ hb.pc \in {"create", "swap"} => hb.name \in Iface /\ paths[hb.name] \in Sock
      /\ \A p \in Sock : path[p].closed \in 0 .. made /\ path[p].conn \in 0 .. made
  BY PathNumbers
<1>1. CASE Quiet
  BY <1>0, <1>1 DEF Quiet, SocketsHeld, NoSocketLeaks, Named, PollTyped, Known, Same, Recycling
<1>2. ASSUME NEW i \in Iface, Closing(i) PROVE SocketsHeld' /\ NoSocketLeaks'
  <2>1. /\ UNCHANGED <<paths, path, poll>> /\ ~panicked
        /\ hb'.pc = "create" /\ hb'.name = i
        /\ path[paths[i]].closed \notin shut
        /\ shut' = shut \cup {path[paths[i]].closed}
        /\ open' = open \ {path[paths[i]].conn}
    <3>1. ClosePaths({paths[i]})
      BY <1>2 DEF Closing, RecycleBegins
    <3>. QED
      BY <1>2, <3>1, ClosesOne DEF Closing, RecycleBegins, At, HbTyped
  <2>. QED
    BY <2>1 DEF SocketsHeld, NoSocketLeaks, Known, Recycling
<1>3. CASE RecycleOpens
  <2>1. Opening(paths[hb.name])
    BY <1>3, PathEffects
  <2>2. /\ UNCHANGED <<paths, poll, shut>> /\ ~panicked /\ hb.pc = "create"
        /\ hb'.pc = "swap" /\ hb'.name = hb.name
        /\ open' = open \cup {made'} /\ made' = made + 1 /\ made \in Nat
    BY <1>3 DEF RecycleOpens, MakeSocket, At, HbTyped, SocketsTyped
  <2>3. path'[paths[hb.name]].closed = path[paths[hb.name]].closed
    BY <2>1 DEF Opening
  <2>4. poll.pc = "delete" => poll.path # paths[hb.name] /\ poll.path \in Sock
    BY <1>0, <2>2 DEF SocketsHeld, Recycling, PollTyped
  <2>5. poll.pc = "delete" => Same(poll.path) /\ path[poll.path].conn # made'
    BY <1>0, <2>1, <2>2, <2>4 DEF Opening
  <2>6. poll.pc = "spawn" => poll.path \in Sock
    BY <1>0 DEF PollTyped
  <2>7. poll.pc = "spawn" /\ paths[poll.name] # poll.path => poll.path # paths[hb.name]
    BY <2>2 DEF Named, PollTyped
  <2>8. poll.pc = "spawn" /\ paths[poll.name] # poll.path =>
           Same(poll.path) /\ path[poll.path].conn # made'
    BY <1>0, <2>1, <2>2, <2>6, <2>7 DEF Opening
  <2>9. SocketsHeld'
    BY <2>2, <2>3, <2>4, <2>5, <2>6, <2>8 DEF SocketsHeld, Same, Recycling
  <2>10. NoSocketLeaks'
    BY <1>0, <2>1, <2>2 DEF SocketsHeld, NoSocketLeaks, Opening, Same, Known, Named
  <2>. QED
    BY <2>9, <2>10
<1>4. CASE RecycleSwaps
  <2>1. Swapping(paths[hb.name])
    BY <1>4, PathEffects
  <2>2. /\ UNCHANGED <<paths, poll, sockets>> /\ ~panicked /\ hb.pc = "swap" /\ hb'.pc = "recycle"
    BY <1>4 DEF RecycleSwaps, At, HbTyped
  <2>3. SocketsHeld'
    BY <1>0, <2>1, <2>2 DEF SocketsHeld, Swapping, Same, Recycling, PollTyped, sockets
  <2>4. NoSocketLeaks'
    BY <1>0, <2>1, <2>2 DEF NoSocketLeaks, Swapping, Same, Known, sockets
  <2>. QED
    BY <2>3, <2>4
<1>5. ASSUME NEW s \in Sock, ReaderMoves(s) PROVE SocketsHeld' /\ NoSocketLeaks'
  BY <1>5
    DEF ReaderMoves, ReaderLoads, ReaderGets, ReaderFails, sockets, SocketsHeld, NoSocketLeaks, Known,
        Recycling
<1>6. CASE PollThinks
  <2>1. UNCHANGED <<path, paths, hb, open, shut, panicked>> /\ poll.path = None
        /\ poll'.pc \notin {"delete", "spawn"}
    <3>1. CASE DetectChanges
      <4>1. poll'.pc = "next"
        BY <3>1, PollBegins
      <4>2. UNCHANGED <<path, paths, hb, open, shut, panicked>> /\ poll.path = None
        BY <3>1 DEF DetectChanges, At, PollPlan, sockets
      <4>. QED
        BY <4>1, <4>2
    <3>2. CASE NextPhase
      BY <3>2 DEF NextPhase, PollIdle, At, PollPlan, PollRecord, PollRecords, sockets
    <3>3. CASE PollOpenFails
      BY <3>3 DEF PollOpenFails, At, PollPlan, PollRecord, PollRecords, sockets
    <3>4. CASE PollEnds
      BY <3>4 DEF PollEnds, At, PollPlan, PollRecord, PollRecords, sockets
    <3>5. ASSUME NEW i \in Iface, TakeInterface(i)
          PROVE  /\ UNCHANGED <<path, paths, hb, open, shut, panicked>> /\ poll.path = None
                 /\ poll'.pc \notin {"delete", "spawn"}
      BY <3>5
        DEF TakeInterface, Skipping, Removing, Adding, Moving, At, PollPlan, PollTyped, PollRecord, PollRecords,
            sockets
    <3>6. CASE PollLooksUp
      BY <3>6 DEF PollLooksUp, At, PollPlan, PollTyped, PollRecord, PollRecords, sockets
    <3>. QED
      BY <1>6, <3>1, <3>2, <3>3, <3>4, <3>5, <3>6 DEF PollThinks
  <2>. QED
    BY <2>1 DEF SocketsHeld, NoSocketLeaks, Known
<1>7. CASE PollCloses
  <2>1. /\ UNCHANGED <<paths, path, hb>> /\ ~panicked /\ poll.pc = "close" /\ poll.path # None
        /\ poll'.pc = "delete" /\ poll'.path = poll.path
        /\ path[poll.path].closed \notin shut
        /\ shut' = shut \cup {path[poll.path].closed}
        /\ open' = open \ {path[poll.path].conn}
    BY <1>7, ClosesOne DEF PollCloses, At, PollTyped, PollRecord, PollRecords
  <2>. QED
    BY <2>1 DEF SocketsHeld, NoSocketLeaks, Known, Recycling
<1>8. CASE PollDeletes
  <2>1. \A q \in Sock : Same(q)
    BY <1>8, PathEffects
  <2>2. /\ UNCHANGED <<hb, sockets>> /\ ~panicked /\ poll.pc = "delete" /\ poll.path # None
        /\ poll'.pc \in {"open", "next"} /\ poll'.path = None
        /\ hb.pc \notin {"create", "swap"}
        /\ poll.name \in Iface /\ paths' = [paths EXCEPT ![poll.name] = None]
    BY <1>8 DEF PollDeletes, At, CanLock, WriteLocked, PollTyped, PollRecord, PollRecords
  <2>3. \A i \in Known \ Known' : path[paths[i]].conn \notin open
    BY <2>2 DEF Known, MapTyped, PollPlan, SocketsHeld
  <2>. QED
    BY <1>0, <2>1, <2>2, <2>3 DEF SocketsHeld, NoSocketLeaks, Known, Same, MapTyped, sockets
<1>9. CASE PollOpens
  <2>1. Creating
    BY <1>9, PathEffects
  <2>2. /\ UNCHANGED <<hb, paths, shut>> /\ ~panicked /\ poll.path = None
        /\ poll'.pc = "insert" /\ poll'.path = made'
        /\ open' = open \cup {made'} /\ made' = made + 1 /\ made \in Nat
    BY <1>9 DEF PollOpens, MakeSocket, At, PollPlan, PollRecord, PollRecords, SocketsTyped
  <2>3. made' # None /\ made' \notin open /\ made' \notin shut /\ \A i \in Iface : paths[i] # made'
    BY <2>2 DEF SocketsTyped, None, MapTyped
  <2>4. \A p \in Sock : p # made' => Same(p)
    BY <2>1 DEF Creating
  <2>5. \A i \in Known : Same(paths[i])
    BY <1>0, <2>3, <2>4
  <2>6. hb.pc \in {"create", "swap"} => Same(paths[hb.name])
    BY <2>5 DEF Named
  <2>7. hb.pc = "create" => path[paths[hb.name]].conn # made'
    BY <1>0, <2>2
  <2>8. SocketsHeld'
    BY <2>2, <2>3, <2>6, <2>7 DEF SocketsHeld, Same
  <2>9. NoSocketLeaks'
    <3>1. \A i \in Known : path'[paths'[i]].conn = path[paths[i]].conn
      BY <2>2, <2>5 DEF Same
    <3>2. Known' = Known /\ path'[poll'.path].conn = made' /\ poll'.path # None
      BY <2>1, <2>2, <2>3 DEF Known, Creating
    <3>. QED
      BY <2>2, <3>1, <3>2 DEF NoSocketLeaks
  <2>. QED
    BY <2>8, <2>9
<1>10. CASE PollInserts
  <2>1. /\ UNCHANGED <<path, hb, sockets>> /\ ~panicked /\ hb.pc \notin {"create", "swap"}
        /\ poll'.pc = "spawn" /\ poll'.path = poll.path /\ poll'.name = poll.name
        /\ poll.path # None /\ poll.name \in Iface /\ poll.name \notin Known
        /\ paths' = [paths EXCEPT ![poll.name] = poll.path]
    BY <1>10
      DEF PollInserts, At, CanLock, WriteLocked, PollPlan, Known, PollTyped, PollRecord, PollRecords
  <2>. QED
    BY <2>1 DEF SocketsHeld, NoSocketLeaks, Known, MapTyped, sockets
<1>11. CASE PollSpawns
  <2>1. /\ UNCHANGED <<path, paths, hb, sockets>> /\ ~panicked /\ poll.pc = "spawn"
        /\ poll'.pc = "next" /\ poll'.path = None /\ poll.path # None /\ poll.name \in Iface
    BY <1>11 DEF PollSpawns, At, PollTyped, PollRecord, PollRecords
  <2>. QED
    BY <2>1 DEF SocketsHeld, NoSocketLeaks, Known, sockets
<1>12. CASE StopCloses
  <2>1. \A q \in Sock : Same(q)
    BY <1>12, PathEffects
  <2>2. /\ UNCHANGED <<hb, poll>> /\ ~panicked /\ hb.pc = "done" /\ \A i \in Iface : paths'[i] = None
        /\ shut' = shut \cup {path[p].closed : p \in {paths[i] : i \in Known}}
        /\ open' = open \ {path[p].conn : p \in {paths[i] : i \in Known}}
    BY <1>12 DEF StopCloses, ClosePaths, LoopsHaveEnded, StopClosed
  <2>3. open' \cap InMap = {}
    BY <2>2 DEF InMap
  <2>4. NoSocketLeaks'
    BY <1>0, <2>1, <2>2, <2>3 DEF NoSocketLeaks, InMap, Same
  <2>5. poll.pc = "spawn" => path[poll.path].conn \notin open'
    BY <2>2, <2>3 DEF SocketsHeld, InMap, Known, PollTyped
  <2>6. SocketsHeld'
    BY <1>0, <2>1, <2>2, <2>5 DEF SocketsHeld, Recycling, Same, PollTyped
  <2>. QED
    BY <2>4, <2>6
<1>. QED
  BY <1>1, <1>2, <1>3, <1>4, <1>5, <1>6, <1>7, <1>8, <1>9, <1>10, <1>11, <1>12, StepKinds

\* pollInterfaces, recycling and Stop close, replace and delete the same paths: every
\* open socket still belongs to a path in the map, or to the one addPath puts there.
THEOREM NoSocketIsLost == Spec => []NoSocketLeaks
<1>1. Init => SocketsHeld /\ NoSocketLeaks
  BY DEF Init, SocketsHeld, NoSocketLeaks, HbIdle, PollIdle
<1>2. TypeInv /\ TypeInv' /\ SocketsHeld /\ NoSocketLeaks /\ [Next]_vars => SocketsHeld' /\ NoSocketLeaks'
  BY StepHeld DEF HeldInv
<1>. QED
  BY <1>1, <1>2, TypeInvCorrect, PTL DEF Spec

-----------------------------------------------------------------------------
(* Every path is read *)

ReaderInv == TypeInv /\ ChannelsDistinct /\ FreshSockets /\ ChannelFollowsSocket /\ EveryPathIsRead

\* Closing one path leaves the others' channels open and opens no socket; it
\* does nothing at all if it panics.
LEMMA ClosesOnlyOne ==
  ASSUME NEW p \in Sock, ClosePaths({p}), ChannelsDistinct, path[p].closed # None
  PROVE  /\ made' = made
         /\ open' \subseteq open
         /\ \A q \in Sock \ {p} : path[q].closed \notin shut => path[q].closed \notin shut'
         /\ \A c : c \notin shut /\ c # path[p].closed => c \notin shut'
         /\ path[p].conn \in open' => shut' = shut
<1>1. {path[q].closed : q \in {p}} = {path[p].closed} /\ {path[q].conn : q \in {p}} = {path[p].conn}
  OBVIOUS
<1>2. CASE UNCHANGED sockets
  BY <1>2 DEF sockets
<1>3. CASE shut' = shut \cup {path[p].closed} /\ open' = open \ {path[p].conn} /\ made' = made
  BY <1>3 DEF ChannelsDistinct
<1>. QED
  BY <1>1, <1>2, <1>3 DEF ClosePaths

\* Every step keeps a reader at every open path.
LEMMA StepReaders ==
  ReaderInv /\ [Next]_vars =>
    ChannelsDistinct' /\ FreshSockets' /\ ChannelFollowsSocket' /\ EveryPathIsRead'
<1> DEFINE Goal == ChannelsDistinct' /\ FreshSockets' /\ ChannelFollowsSocket' /\ EveryPathIsRead'
<1> SUFFICES ASSUME TypeInv, Named, PollPlan, LoopsHaveEnded, [Next]_vars,
                    ChannelsDistinct, FreshSockets, ChannelFollowsSocket, EveryPathIsRead,
                    EnvTyped, SocketsTyped, MapTyped, PathTyped, ReaderTyped, HbTyped, PollTyped, RcvTyped
             PROVE  Goal
  BY TypeParts DEF ReaderInv, TypeInv
<1>0. /\ \A i \in Known : i \in Iface /\ paths[i] \in Sock /\ paths[i] # None
      /\ poll.path # None => poll.path \in Sock
      /\ hb.pc \in {"create", "swap"} => hb.name \in Known /\ paths[hb.name] \in Sock
      /\ \A p \in Sock : path[p].closed \in 0 .. made /\ path[p].conn \in 0 .. made
      /\ \A s \in Sock : reader[s].path \in 0 .. made /\ reader[s].conn \in 0 .. made
      /\ \A i, j \in Known : paths[i] = paths[j] => i = j
      /\ \A i \in Known : path[paths[i]].closed # None
      /\ made \in Nat
  BY PathNumbers, NullsAreNotValues DEF Named, ReaderTyped, ReaderRecord, SocketsTyped
<1>a. poll.pc = "insert" => \A i \in Known : paths[i] # poll.path
  BY <1>0 DEF PollPlan, Named
<1>b. hb.pc = "swap" => path[paths[hb.name]].conn \in Sock
  BY <1>0, NumbersAreNatural DEF FreshSockets, Sock, None, SocketsTyped
<1>1. CASE Quiet
  <2>1. \A i \in Known : Same(paths[i])
    BY <1>0, <1>1 DEF Quiet
  <2>2. poll.pc \in {"insert", "spawn"} => Same(poll.path)
    BY <1>0, <1>1 DEF Quiet, PollTyped
  <2>3. ChannelsDistinct'
    BY <1>1 DEF Quiet, Same, ChannelsDistinct
  <2>4. hb'.pc = "swap" => hb' = hb /\ Same(paths[hb.name])
    BY <1>0, <1>1 DEF Quiet
  <2>5. FreshSockets'
    BY <1>1, <2>2, <2>4 DEF Quiet, Same, FreshSockets
  <2>6. ChannelFollowsSocket'
    BY <1>1, <2>1 DEF Quiet, Same, ChannelFollowsSocket, Known
  <2>7. EveryPathIsRead'
    BY <1>1, <2>1 DEF Quiet, Same, EveryPathIsRead, ReadBy, Known
  <2>. QED
    BY <2>3, <2>5, <2>6, <2>7
<1>2. ASSUME NEW i \in Iface, Closing(i) PROVE Goal
  <2>1. /\ UNCHANGED <<paths, path, poll, reader, run>> /\ i \in Known
        /\ hb.pc = "recycle" /\ hb'.pc = "create" /\ hb'.name = i
        /\ ClosePaths({paths[i]})
    BY <1>2 DEF Closing, RecycleBegins, At, HbTyped, Known
  <2>2. /\ made' = made
        /\ open' \subseteq open
        /\ \A q \in Sock \ {paths[i]} : path[q].closed \notin shut => path[q].closed \notin shut'
        /\ path[paths[i]].conn \in open' => shut' = shut
    BY <1>0, <2>1, ClosesOnlyOne
  <2>3. \A j \in Known : path[paths[j]].conn \in open' /\ path[paths[j]].closed \notin shut =>
          path[paths[j]].closed \notin shut'
    BY <1>0, <2>1, <2>2
  <2>4. ChannelsDistinct'
    BY <2>1 DEF ChannelsDistinct
  <2>5. poll.pc = "insert" => path[poll.path].closed \notin shut'
    BY <1>0, <1>a, <2>1, <2>2 DEF FreshSockets, PollTyped
  <2>6. FreshSockets'
    BY <2>1, <2>2, <2>5 DEF FreshSockets
  <2>7. ChannelFollowsSocket'
    BY <2>1, <2>2, <2>3 DEF ChannelFollowsSocket, Known
  <2>8. EveryPathIsRead'
    BY <2>1, <2>2, <2>3 DEF EveryPathIsRead, ReadBy, Known, StopClosed
  <2>. QED
    BY <2>4, <2>6, <2>7, <2>8
<1>3. CASE RecycleOpens
  <2> DEFINE p == paths[hb.name]
  <2>1. Opening(p)
    BY <1>3, PathEffects
  <2>2. /\ UNCHANGED <<paths, poll, reader, run, shut>> /\ hb.pc = "create"
        /\ hb'.pc = "swap" /\ hb'.name = hb.name
        /\ open' = open \cup {made'} /\ made' = made + 1 /\ made < MaxSocket
    BY <1>3 DEF RecycleOpens, MakeSocket, At, HbTyped
  <2>3. /\ made' \in Sock /\ made' \notin 0 .. made /\ made' # None /\ made' \notin shut
    BY <2>2, NumbersAreNatural DEF Sock, None, SocketsTyped
  <2>4. \A q \in Sock : path'[q].closed = path[q].closed
    BY <2>1 DEF Opening, Same
  <2>5. ChannelsDistinct'
    BY <2>4 DEF ChannelsDistinct
  <2>6. poll.pc \in {"insert", "spawn"} => poll.path \in Sock /\ poll.path # made'
    BY <1>0, <2>3 DEF PollTyped, PollRecord, PollRecords
  <2>7. \A s \in Sock : s > made' => reader'[s].pc = "none"
    BY <1>0, <2>2 DEF FreshSockets, Sock
  <2>8. reader'[made'].pc = "none" /\ path'[p].conn = made' /\ p \in Sock
    BY <1>0, <2>1, <2>2, <2>3 DEF FreshSockets, Opening
  <2>9. path'[paths'[hb'.name]].conn = made' /\ \A q \in Sock : path'[q].closed # made'
    BY <1>0, <2>2, <2>3, <2>4, <2>8
  <2>10. poll.pc = "insert" => path'[poll.path].closed \notin shut
    BY <2>4, <2>6 DEF FreshSockets
  <2>11. FreshSockets'
    BY <2>2, <2>3, <2>6, <2>7, <2>8, <2>9, <2>10 DEF FreshSockets
  <2>12. \A j \in Known : j # hb.name => Same(paths[j])
    BY <1>0, <2>1, <2>2 DEF Opening
  <2>13. \A j \in Known : path[paths[j]].conn # made'
    BY <1>0, <2>3
  <2>14. \A j \in Known : j # hb.name =>
           Same(paths[j]) /\ (path'[paths[j]].conn \in open' => path[paths[j]].conn \in open)
    BY <2>2, <2>12, <2>13 DEF Same
  <2>15. ChannelFollowsSocket'
    BY <2>2, <2>14 DEF ChannelFollowsSocket, Same, Known
  <2>16. \A s \in Sock : reader[s].conn \notin open => reader'[s].conn \notin open'
    BY <1>0, <2>2, <2>3
  <2>17. ASSUME NEW j \in Known, j # hb.name, NEW s \in Sock, ReadBy(s, paths[j]) PROVE ReadBy(s, paths[j])'
    BY <2>2, <2>14, <2>16, <2>17 DEF ReadBy, Same
  <2>18. EveryPathIsRead'
    BY <2>2, <2>14, <2>17 DEF EveryPathIsRead, Same, Known, StopClosed
  <2>. QED
    BY <2>5, <2>11, <2>15, <2>18
<1>4. CASE RecycleSwaps
  <2> DEFINE p == paths[hb.name]
             c == path[p].conn
  <2>1. Swapping(p)
    BY <1>4, PathEffects
  <2>2. /\ UNCHANGED <<paths, poll, sockets, run>> /\ hb.pc = "swap" /\ hb'.pc = "recycle"
        /\ hb.name \in Known /\ p \in Sock
    BY <1>0, <1>4 DEF RecycleSwaps, At, HbTyped
  <2>3. /\ c \in Sock /\ c \in 0 .. made /\ c \notin shut /\ reader[c].pc = "none"
        /\ \A q \in Sock : path[q].closed # c
        /\ poll.pc \in {"insert", "spawn"} => poll.path # c
    BY <1>0, <2>2, NumbersAreNatural DEF FreshSockets, Sock, None, SocketsTyped
  <2>4. reader'[c].pc = "top" /\ reader'[c].path = p /\ \A s \in Sock \ {c} : reader'[s] = reader[s]
    BY <1>4, <2>3 DEF RecycleSwaps, StartReader, ReaderTyped
  <2>5. ChannelsDistinct'
    BY <2>1, <2>3 DEF ChannelsDistinct, Swapping, Same
  <2>6. \A s \in Sock : s > made' => reader'[s].pc = "none"
    BY <1>0, <2>2, <2>3, <2>4 DEF FreshSockets, sockets
  <2>7. poll.pc \in {"insert", "spawn"} => reader'[poll.path].pc = "none"
    BY <1>0, <2>3, <2>4 DEF FreshSockets, PollTyped
  <2>8. poll.pc = "insert" => path'[poll.path].closed \notin shut
    BY <1>0, <2>1, <2>3 DEF FreshSockets, PollTyped, Swapping, Same
  <2>9. FreshSockets'
    BY <2>2, <2>6, <2>7, <2>8 DEF FreshSockets, sockets
  <2>10. \A j \in Known : j # hb.name => Same(paths[j])
    BY <1>0, <2>1, <2>2 DEF Swapping
  <2>11. ChannelFollowsSocket'
    BY <2>1, <2>2, <2>3, <2>10 DEF ChannelFollowsSocket, Swapping, Same, Known, sockets
  <2>12. ASSUME NEW j \in Known, j # hb.name, NEW s \in Sock, ReadBy(s, paths[j]) PROVE ReadBy(s, paths[j])'
    BY <2>2, <2>3, <2>4, <2>10, <2>12 DEF ReadBy, Same, sockets
  <2>13. ASSUME NEW j \in Known, j = hb.name PROVE \E s \in Sock : ReadBy(s, paths[j])'
    BY <2>2, <2>3, <2>4, <2>13 DEF ReadBy
  <2>14. EveryPathIsRead'
    BY <2>1, <2>2, <2>3, <2>10, <2>12, <2>13
      DEF EveryPathIsRead, Swapping, Same, Known, StopClosed, sockets
  <2>. QED
    BY <2>5, <2>9, <2>11, <2>14
<1>5. ASSUME NEW s \in Sock, ReaderMoves(s) PROVE Goal
  <2>1. /\ UNCHANGED <<path, paths, hb, poll, made, open, shut, run>>
        /\ reader[s].pc \in {"top", "read"}
        /\ \A t \in Sock \ {s} : reader'[t] = reader[t]
    BY <1>5 DEF ReaderMoves, ReaderLoads, ReaderGets, ReaderFails, At, ReaderTyped, sockets
  <2>2. ASSUME NEW i \in Known, ReadBy(s, paths[i]), ~StopClosed, path[paths[i]].closed \notin shut
        PROVE  ReadBy(s, paths[i])'
    <3>1. CASE ReaderLoads(s)
      BY <2>2, <3>1 DEF ReaderLoads, ReadBy, ReaderTyped, ReaderRecord
    <3>2. CASE ReaderGets(s)
      BY <2>2, <3>2 DEF ReaderGets, ReadBy, ReaderTyped, ReaderRecord
    <3>3. CASE ReaderFails(s)
      BY <2>2, <3>3 DEF ReaderFails, ReadBy, ReaderTyped, ReaderRecord
    <3>. QED
      BY <1>5, <3>1, <3>2, <3>3 DEF ReaderMoves
  <2>3. ASSUME NEW i \in Known, NEW t \in Sock, ReadBy(t, paths[i]), ~StopClosed,
               path[paths[i]].closed \notin shut
        PROVE  ReadBy(t, paths[i])'
    BY <2>1, <2>2, <2>3 DEF ReadBy
  <2>4. FreshSockets'
    BY <1>0, <1>b, <2>1 DEF FreshSockets, PollTyped
  <2>5. ChannelsDistinct' /\ ChannelFollowsSocket'
    BY <2>1 DEF ChannelsDistinct, ChannelFollowsSocket, Known
  <2>6. EveryPathIsRead'
    BY <2>1, <2>3 DEF EveryPathIsRead, Known, StopClosed
  <2>. QED
    BY <2>4, <2>5, <2>6
<1>6. CASE PollThinks
  <2>1. UNCHANGED <<path, paths, hb, reader, made, open, shut, run>> /\ poll.path = None
        /\ poll'.pc \notin {"insert", "spawn"}
    <3>1. CASE DetectChanges
      <4>1. poll'.pc = "next"
        BY <3>1, PollBegins
      <4>2. UNCHANGED <<path, paths, hb, reader, made, open, shut, run>> /\ poll.path = None
        BY <3>1 DEF DetectChanges, At, PollPlan, sockets
      <4>. QED
        BY <4>1, <4>2
    <3>2. CASE NextPhase
      BY <3>2 DEF NextPhase, PollIdle, At, PollPlan, PollRecord, PollRecords, sockets
    <3>3. CASE PollOpenFails
      BY <3>3 DEF PollOpenFails, At, PollPlan, PollRecord, PollRecords, sockets
    <3>4. CASE PollEnds
      BY <3>4 DEF PollEnds, At, PollPlan, PollRecord, PollRecords, sockets
    <3>5. ASSUME NEW i \in Iface, TakeInterface(i)
          PROVE  /\ UNCHANGED <<path, paths, hb, reader, made, open, shut, run>> /\ poll.path = None
                 /\ poll'.pc \notin {"insert", "spawn"}
      BY <3>5
        DEF TakeInterface, Skipping, Removing, Adding, Moving, At, PollPlan, PollTyped, PollRecord, PollRecords,
            sockets
    <3>6. CASE PollLooksUp
      BY <3>6 DEF PollLooksUp, At, PollPlan, PollTyped, PollRecord, PollRecords, sockets
    <3>. QED
      BY <1>6, <3>1, <3>2, <3>3, <3>4, <3>5, <3>6 DEF PollThinks
  <2>2. poll.pc # "spawn"
    BY <2>1 DEF PollTyped
  <2>3. ChannelsDistinct' /\ ChannelFollowsSocket' /\ FreshSockets'
    BY <2>1 DEF ChannelsDistinct, ChannelFollowsSocket, FreshSockets, Known
  <2>4. EveryPathIsRead'
    BY <2>1, <2>2 DEF EveryPathIsRead, ReadBy, Known, StopClosed
  <2>. QED
    BY <2>3, <2>4
<1>7. CASE PollCloses
  <2>1. /\ UNCHANGED <<paths, path, hb, reader, run>> /\ poll.pc = "close" /\ poll.path \in Sock
        /\ poll'.pc = "delete" /\ ClosePaths({poll.path}) /\ path[poll.path].closed # None
    BY <1>0, <1>7, NullsAreNotValues DEF PollCloses, At, Named, PollTyped, PollRecord, PollRecords
  <2>2. /\ made' = made
        /\ open' \subseteq open
        /\ \A q \in Sock \ {poll.path} : path[q].closed \notin shut => path[q].closed \notin shut'
        /\ \A c : c \notin shut /\ c # path[poll.path].closed => c \notin shut'
        /\ path[poll.path].conn \in open' => shut' = shut
    BY <2>1, ClosesOnlyOne
  <2>3. \A j \in Known : path[paths[j]].conn \in open' /\ path[paths[j]].closed \notin shut =>
          path[paths[j]].closed \notin shut'
    BY <1>0, <2>2
  <2>4. ChannelsDistinct'
    BY <2>1 DEF ChannelsDistinct
  <2>5. FreshSockets'
    BY <2>1, <2>2 DEF FreshSockets
  <2>6. ChannelFollowsSocket'
    BY <2>1, <2>2, <2>3 DEF ChannelFollowsSocket, Known
  <2>7. EveryPathIsRead'
    BY <2>1, <2>2, <2>3 DEF EveryPathIsRead, ReadBy, Known, StopClosed
  <2>. QED
    BY <2>4, <2>5, <2>6, <2>7
<1>8. CASE PollDeletes
  <2>1. \A q \in Sock : Same(q)
    BY <1>8, PathEffects
  <2>2. /\ UNCHANGED <<hb, made, open, shut, reader, run>> /\ poll.pc = "delete"
        /\ poll'.pc \in {"open", "next"} /\ hb.pc # "swap"
        /\ paths' = [paths EXCEPT ![poll.name] = None]
    BY <1>8 DEF PollDeletes, At, CanLock, WriteLocked, PollRecord, PollRecords, sockets
  <2>3. \A i \in Known' : i \in Known /\ paths'[i] = paths[i] /\ Same(paths[i])
    BY <1>0, <2>1, <2>2 DEF Known, MapTyped
  <2>4. ChannelsDistinct' /\ FreshSockets'
    BY <2>1, <2>2 DEF ChannelsDistinct, FreshSockets, Same
  <2>5. ChannelFollowsSocket'
    BY <2>2, <2>3 DEF ChannelFollowsSocket, Same
  <2>6. EveryPathIsRead'
    BY <2>2, <2>3 DEF EveryPathIsRead, ReadBy, Same, StopClosed
  <2>. QED
    BY <2>4, <2>5, <2>6
<1>9. CASE PollOpens
  <2>1. Creating
    BY <1>9, PathEffects
  <2>2. /\ UNCHANGED <<hb, paths, shut, reader, run>> /\ poll.pc = "open"
        /\ poll'.pc = "insert" /\ poll'.path = made'
        /\ open' = open \cup {made'} /\ made' = made + 1
    BY <1>9 DEF PollOpens, MakeSocket, At, PollRecord, PollRecords
  <2>3. made' \in Sock /\ made' \notin 0 .. made /\ made' \notin shut
    BY <2>1, <2>2 DEF Creating, SocketsTyped
  <2>4. \A q \in Sock : q # made' => Same(q)
    BY <2>1 DEF Creating
  <2>5. \A i \in Known : Same(paths[i]) /\ path[paths[i]].conn # made'
    BY <1>0, <2>3, <2>4 DEF MapTyped
  <2>6. ChannelsDistinct'
    BY <1>0, <2>1, <2>3, <2>4 DEF ChannelsDistinct, Creating, Same
  <2>7. \A s \in Sock : s >= made' => reader'[s].pc = "none"
    BY <1>0, <2>2 DEF FreshSockets, Sock
  <2>8. hb.pc = "swap" => LET c == path[paths[hb.name]].conn IN
          /\ Same(paths[hb.name]) /\ c # made'
          /\ \A q \in Sock : path'[q].closed # c
    BY <1>0, <2>1, <2>4, <2>5 DEF FreshSockets, Creating, Same
  <2>9. reader'[made'].pc = "none" /\ path'[made'].closed \notin shut
    BY <2>1, <2>3, <2>7, <1>0, <2>2 DEF Creating
  <2>10. FreshSockets'
    <3>1. \A s \in Sock : s > made' => reader'[s].pc = "none"
      BY <1>0, <2>2, <2>7 DEF SocketsTyped, Sock
    <3>2. /\ poll'.pc \in {"insert", "spawn"} => reader'[poll'.path].pc = "none"
          /\ poll'.pc = "insert" => path'[poll'.path].closed \notin shut'
      BY <2>2, <2>9
    <3>3. ASSUME hb'.pc = "swap"
          PROVE  LET c == path'[paths'[hb'.name]].conn IN
                   /\ c # None /\ c \notin shut'
                   /\ reader'[c].pc = "none"
                   /\ \A q \in Sock : path'[q].closed # c
                   /\ poll'.pc \in {"insert", "spawn"} => poll'.path # c
      BY <2>2, <2>8, <3>3 DEF FreshSockets, Same
    <3>. QED
      BY <3>1, <3>2, <3>3 DEF FreshSockets
  <2>11. ChannelFollowsSocket'
    BY <2>2, <2>5 DEF ChannelFollowsSocket, Same, Known
  <2>12. \A s \in Sock : reader[s].conn \notin open => reader'[s].conn \notin open'
    BY <1>0, <2>2, <2>3
  <2>13. ASSUME NEW j \in Known, NEW s \in Sock, ReadBy(s, paths[j]) PROVE ReadBy(s, paths[j])'
    BY <2>2, <2>5, <2>12, <2>13 DEF ReadBy, Same
  <2>14. EveryPathIsRead'
    BY <2>2, <2>5, <2>13 DEF EveryPathIsRead, Same, Known, StopClosed
  <2>. QED
    BY <2>6, <2>10, <2>11, <2>14
<1>10. CASE PollInserts
  <2>1. /\ UNCHANGED <<path, hb, made, open, shut, reader, run>> /\ hb.pc # "swap"
        /\ poll.pc = "insert" /\ poll'.pc = "spawn" /\ poll'.path = poll.path
        /\ poll.name \in Iface /\ paths' = [paths EXCEPT ![poll.name] = poll.path]
    BY <1>10 DEF PollInserts, At, CanLock, WriteLocked, PollTyped, PollRecord, PollRecords, sockets
  <2>2. paths'[poll.name] = poll.path /\ \A i \in Iface : i # poll.name => paths'[i] = paths[i]
    BY <2>1 DEF MapTyped
  <2>3. \A i \in Known' : i = poll.name \/ i \in Known
    BY <2>2 DEF Known
  <2>4. ChannelsDistinct' /\ FreshSockets'
    BY <2>1 DEF ChannelsDistinct, FreshSockets
  <2>5. path[poll.path].closed \notin shut
    BY <2>1 DEF FreshSockets
  <2>6. ChannelFollowsSocket'
    BY <2>1, <2>2, <2>3, <2>5 DEF ChannelFollowsSocket
  <2>7. EveryPathIsRead'
    BY <2>1, <2>2, <2>3 DEF EveryPathIsRead, ReadBy, StopClosed
  <2>. QED
    BY <2>4, <2>6, <2>7
<1>11. CASE PollSpawns
  <2>1. /\ UNCHANGED <<path, paths, hb, made, open, shut, run>> /\ poll.pc = "spawn"
        /\ poll'.pc = "next" /\ poll.path \in Sock /\ poll.path \in 0 .. made
        /\ reader' = [reader EXCEPT ![poll.path] = [pc |-> "top", path |-> poll.path, conn |-> None]]
    BY <1>0, <1>11 DEF PollSpawns, StartReader, At, PollTyped, PollRecord, PollRecords, sockets
  <2>2. /\ reader[poll.path].pc = "none"
        /\ reader'[poll.path].pc = "top" /\ reader'[poll.path].path = poll.path
        /\ \A s \in Sock : s # poll.path => reader'[s] = reader[s]
    BY <2>1 DEF FreshSockets, ReaderTyped
  <2>3. ASSUME NEW j \in Known, NEW s \in Sock, ReadBy(s, paths[j]) PROVE ReadBy(s, paths[j])'
    BY <2>1, <2>2, <2>3 DEF ReadBy
  <2>4. FreshSockets'
    <3>1. \A s \in Sock : s > made' => s # poll.path
      BY <1>0, <2>1
    <3>. QED
      BY <1>b, <2>1, <2>2, <3>1 DEF FreshSockets
  <2>5. ChannelsDistinct' /\ ChannelFollowsSocket'
    BY <2>1 DEF ChannelsDistinct, ChannelFollowsSocket, Known
  <2>6. ASSUME NEW j \in Known, paths[j] = poll.path PROVE \E s \in Sock : ReadBy(s, paths[j])'
    BY <2>1, <2>2, <2>6 DEF ReadBy
  <2>7. EveryPathIsRead'
    BY <2>1, <2>3, <2>6 DEF EveryPathIsRead, ChannelFollowsSocket, Known, StopClosed
  <2>. QED
    BY <2>4, <2>5, <2>7
<1>12. CASE StopCloses
  <2>1. \A q \in Sock : Same(q)
    BY <1>12, PathEffects
  <2>2. /\ UNCHANGED <<hb, poll, reader, made>> /\ hb.pc = "done" /\ Known' = {} /\ StopClosed'
        /\ \/ shut' = shut
           \/ shut' = shut \cup {path[p].closed : p \in {paths[i] : i \in Known}}
    BY <1>12 DEF StopCloses, ClosePaths, LoopsHaveEnded, StopClosed, Known, sockets
  <2>3. poll.pc = "insert" => path[poll.path].closed \notin shut'
    BY <1>0, <1>a, <2>2 DEF FreshSockets, ChannelsDistinct, PollTyped
  <2>4. poll.pc = "insert" => Same(poll.path)
    BY <1>0, <2>1 DEF PollTyped
  <2>5. ChannelsDistinct'
    BY <2>1 DEF ChannelsDistinct, Same
  <2>6. FreshSockets'
    BY <2>2, <2>3, <2>4 DEF FreshSockets, Same
  <2>7. ChannelFollowsSocket' /\ EveryPathIsRead'
    BY <2>2 DEF ChannelFollowsSocket, EveryPathIsRead
  <2>. QED
    BY <2>5, <2>6, <2>7
<1>. QED
  BY <1>1, <1>2, <1>3, <1>4, <1>5, <1>6, <1>7, <1>8, <1>9, <1>10, <1>11, <1>12, StepKinds

\* Recycling takes socket and channel from under a reader that looks at both
\* without a lock, and addPath, removePath and Stop run at the same time: a path
\* with an open socket keeps a reader that comes to it.
THEOREM OpenPathsAreRead == Spec => []EveryPathIsRead
<1>1. Init => ChannelsDistinct /\ FreshSockets /\ ChannelFollowsSocket /\ EveryPathIsRead
  BY DEF Init, ChannelsDistinct, FreshSockets, ChannelFollowsSocket, EveryPathIsRead, HbIdle, PollIdle,
         NoPath, NoReader
<1>2. /\ TypeInv /\ ChannelsDistinct /\ FreshSockets /\ ChannelFollowsSocket /\ EveryPathIsRead
      /\ TypeInv' /\ [Next]_vars
      => ChannelsDistinct' /\ FreshSockets' /\ ChannelFollowsSocket' /\ EveryPathIsRead'
  BY StepReaders DEF ReaderInv
<1>. QED
  BY <1>1, <1>2, TypeInvCorrect, PTL DEF Spec
=============================================================================
