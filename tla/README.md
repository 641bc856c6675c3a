# mpfpv2 in TLA+

mpfpv2 is a UDP relay for drones: clients behind several network interfaces
send every packet through all of them to one server, which drops the copies and
relays the rest between virtual addresses it has assigned. This directory holds
TLA+ models of the parts that keep state under concurrency, TLC runs on small
instances, and TLAPS proofs about the server, the client and the two together. Paths below are relative to `src/`.

## The system

| Part | State | Operations | Goroutines |
|---|---|---|---|
| server (`server/server.go`) | `sessions` with their `Addrs`, `routeTable`, `ipPool`, `ipPoolExpiry`, the pool file | heartbeat, data packet, packet from TUN, cleanup, start | one UDP reader, one TUN reader, `cleanupLoop` once a second |
| web interface (`server/web.go`) | none of its own | `deleteClient` ("kick"), read-only views, `updateServerConfig` | one per HTTP request |
| deduplicator (`protocol/dedup.go`) | newest number and ring bitmap per sender | `IsDuplicate`, `Reset` | whoever receives, kicks or cleans up |
| transport (`client/transport.go`) | map of paths; per path socket, channel, status, counters | send, heartbeat, ack, recycle, interface poll, `Stop` | three client loops, `pollInterfaces`, one reader per socket ever made |
| client (`client/client.go`) | virtual address, registration, TUN device | heartbeat loop, ack, data, TUN reader | three loops, `Run` |
| codec, configuration, identity, TUN devices, commands | files and OS handles | encode, load, open | none |

They meet in few places. Client and server exchange heartbeats, acks and data
over UDP. In the server, packets, cleanup and kicks share the three tables, each
behind a lock of its own (`sessionsLock`, `routeLock`, `ipPoolLock`), and no
operation but the registration of a new client holds one while it takes another:
between two critical sections anything may happen. In the client, `MultiPath.mu`
guards the map of paths and `Path.mu` a path's status, but `removePath` and the
readers use a path's socket and channel without either.

What makes each part correct, and what is hard about it:

- **Server.** One holder per address, through sessions, reservations, pending
  registrations, the file and a restart; routes that lead to the holder or are
  about to be removed; endpoints that live as long as they are heard; everything
  a silent client held is given up in the end. Hard: removals that are spread
  over four critical sections, expiry marks written after the fact, a file that
  is truncated before it is written.
- **Deduplicator.** Copies are dropped, first copies are not, across the wrap of
  the numbers, jumps, and resets between lookup and verdict.
- **Transport.** Every open path is read, no socket or reader is lost, channels
  are closed once, the paths follow the interfaces. Hard: three goroutines that
  close, replace and delete the same path.
- **Client.** The TUN device is made once and read, `Run` ends with its context.
  Hard: acks go on arriving while the first one makes the device, the reader waits
  on a channel that is closed after it, and `Run` looks at the device once.
- **Server and client together.** The client comes back after every loss of its
  session, never asks for an address that was not its own, and ends up with the
  session's. Hard: late and repeated acks, restarts of either side, rivals.

## Modules

| Module | What it is |
|---|---|
| `AddressLease` | abstract: every address has at most one owner, and passes from one client to another only through nobody |
| `Server` | the server's tables, their locks, the pool file and `deleteClient`; instantiates `AddressLease` |
| `ServerMC`, `Server*.cfg` | instances of `Server` |
| `ServerProofs`, `ServerEndpointProofs` | theorems about `Server` |
| `ClientNode`, `ClientNodeMC`, `ClientNode.cfg` | one client process: registration, TUN device, the end of `Run` |
| `ClientNodeProofs` | theorems about `ClientNode` |
| `Relay`, `RelayMC`, `Relay.cfg` | extends `Server` with a client and the network between them |
| `RelayProofs` | theorems about `Relay` |
| `Dedup`, `DedupMC`, `Dedup*.cfg` | the deduplicator for one sender |
| `DedupProofs` | theorems about `Dedup` |
| `Transport`, `TransportMC`, `Transport*.cfg` | the client's paths and the goroutines that use them |
| `TransportProofs` | theorems about `Transport` |

Operators named `...With...`, `...Without...` and the like under a comment
"Mutant:" are deliberately wrong versions of the definition that follows. They
are used to see that a property notices the mistake, and by nothing else.
`PROJECT.json` pairs each with its property, and maps every definition to the
lines it models.

### Server

A step is one critical section. The goroutine that reads the UDP socket (`recv`)
takes a heartbeat of a known client in one step (`KnownHeartbeat`) and of a new
one in up to three: `NewHeartbeat` (the checks of the requested address, under
`sessionsLock` and `ipPoolLock`), `ReuseAllocation` / `AllocateNext` /
`AllocationFails` (`allocateIP`, under `ipPoolLock`), `InsertSession` and
`PersistSession` (session and route; the pool entry). `SessionsUnlocked` says
that none of these is under way, and guards whoever else takes `sessionsLock`.
`cl` walks through the scan of `cleanup`, then route, dedup and mark for each
session it removed, then `CleanupRetire`. `del[d]` does the same for a kick.
`recv` and `tun` route data in two steps, because the route table is read before
the session is; both carry the destination to the second one. A heartbeat names its
interface, or carries no extension (`NoExt`: the endpoint keeps its name), or an
empty name (`NoNIC`: the endpoint loses it). `Tick` lets a second pass, `Restart` ends the process and runs
`New`.

Abstractions. Ages count seconds and stop one past their timeout. A cleanup ends
before the next tick, which is how `time.Ticker` behaves for a loop that takes
less than a second. The deduplicator is the set of numbers it remembers, exact
for fewer numbers than the window (`Dedup` models the bitmap). Device names,
traffic counters and per-path statistics are left out; the pool file is assumed
configured. Packets with a bad key, a reserved ID or a malformed body change no
table and have no action. `ZeroIP` is a session whose allocation failed. The
address of a session is registered by one goroutine at a time because the UDP
socket has one reader.

`FaultyDisk` lets any save fail or leave a truncated file, `Crashes` lets the
process end between two steps, or inside a save that is about to happen
(`SavePending`), `Reload` starts it with any pool an earlier run may have saved.

### Dedup

`Lookup` finds or makes the sender's state, `Judge` gives the verdict under the
state's own lock. A `Reset` in between leaves the reader with a state nobody else
will see (`JudgeOrphan`). Sequence numbers are `n % Modulus`, slots
`seq % Window`, the signed difference is folded as in the code. `accepted` and
`top` are history variables: what really arrived. Arrivals lag at most `MaxLag`
behind the newest and lead by at most `MaxJump`; the assumption `CopiesAreNear`
states what this asks of the network (a copy older than a window is taken for a
restart, in the code and in the model).

### Transport

Sockets are numbered; the channel `closed` made next to a socket has its number,
a path the number of its first socket. `recyclePath` holds the map's lock from
`RecycleBegins` to `RecycleSwaps` / `RecycleFails`, in steps between which the
readers and `removePath` see an old channel with a closed or a new socket.
`CheckPath` and `MarkDown` are the two critical sections of `Path.mu` in the
check. `detectChanges` is `DetectChanges`, then one `TakeInterface` per interface
and phase, and the steps of `removePath` (`PollCloses`, `PollDeletes`, and
`PollLooksUp` where a comparison came before its lookup) and
`addPath` (`PollOpens`, `PollInserts`, `PollSpawns`). A second close of a channel
sets `panicked`, and nothing happens after that (`At`). The initial scan of
`Start` is the first poll. An interface is abstracted to its first address of the
server's family, `OtherFamily` if it has only addresses of the other, `NoLAddr`
if it is down. A socket bound to an address that is no longer the interface's
first may be made or not (`BindMayFail`): the address may be gone, or still there
as a second one. A scan can miss interfaces that are there (`ScansMayMiss`):
`scanInterfaces` returns nothing when `net.Interfaces` fails, and leaves out an
interface whose addresses cannot be read; the poll then removes their paths. A socket
through which a heartbeat has left may receive any number of acks. Fields of a
path outside the map that no reader looks at are reset.

### ClientNode

Four goroutines of one process. `HandleAck` is the part of `handleHeartbeatAck`
that stores the address and sets `registered`; the first ack goes on to `SetupTUN`
(`setupTUN`, which may fail) and `CloseTunReady`, and the receive loop takes no
other ack before that. `tunReadLoop` is `TunrStarts` (is the device there?),
`TunrWakes` (the `select`), then `TunrLoops` (the look at the context) and
`TunrGets` / `TunrFails` (`Read`). `RunCloses` closes the device that exists at
that moment, `RunEnds` is `wg.Wait`. In multipath mode (`multipath`, chosen with every
start) the deferred `Stop` comes after it: `StopReturns`, or `StopBlocks` in the case
that `StopEnds` of `Transport` excepts. `Restart` ends the process at any point.
`tunDev` is the address the device was made with.

`closeWakes` is the platform, chosen in `Init`: on Windows `Close` ends a `Read`
that waits; on Linux the file is opened in blocking mode
(`tunnel/tun_linux.go:33,55`), and a `Read` that waits goes on until the host
sends a packet. A `Read` that starts after `Close` fails on both.

Left out: the prefix length (stored after the address: a heartbeat in between
carries a mixed pair, which the server ignores once it knows the client), the
resolving of the server's name (a heartbeat that fails is one that is lost),
sequence numbers and data, which change nothing here. Acks with another status
are only logged.

### Relay

`Relay` extends `Server`: its variables are the server's and those of one client,
`Node`. Of the client it keeps what the server can see, the address the process
asks for (`virtualIP`: `NodeHeartbeat`, `NodeHandlesAck`, `NodeRestart`); the rest
of the process is `ClientNode`. UDP is the sets `hbNet` and `ackNet`. A message in
a set can arrive any number of times, in any order, and vanishes at any time: a
copy through another path is one more arrival. `Heartbeat` and `Registers` join
`Ack` (`sendHeartbeatAck`) to the steps of `Server` that end a heartbeat. Other
clients ask for what they like (`OtherHeartbeat`). Kicks and data are left to
`Server`'s own runs.

`held` is a history variable. `quiet` is set by `Settle`: from there on no process
starts again, which is how the liveness properties say "once restarts are over".
`HeartbeatVanishes` waits for the server to be between packets; a loss during a
registration has the same effect as one right after it.

## Runs

| Run | Instance | Shows |
|---|---|---|
| `server_registry` | 2 clients, hosts 1 (the server's) and 2, address 9 outside the subnet, one kick at a time, restarts, any reloaded pool | types, one holder per address, the server's address, routes, durability of the file, and that `Server` implements `AddressLease` |
| `server_paths` | 2 clients that ask for one address, 2 endpoints, 2 interface names, data, timeouts of one second, restarts (symmetry) | endpoints live as long as they are heard and one per interface; packets are sent to the holder of their destination |
| `server_live` | 2 clients, 1 free host, kicks, fairness | silent clients, stale routes and orphaned reservations go away |
| `dedup_window` | window 4, 16 numbers, 50 packets | duplicates are judged exactly; the bitmap is the window |
| `transport_paths` | 1 interface, 2 addresses (symmetry), 3 sockets, 1 recycle, 1 change or scan that misses it, failing sockets, Stop | every open path is read, no socket leaks |
| `transport_live` | the same without acks, failing sockets and incomplete scans, Stop at any time, fairness | readers of removed paths end; the paths follow the interfaces; `Stop` returns |
| `client_node` | 2 addresses, both platforms, creation may fail, cancellation, restarts, fairness | the device is read, `tunReady` is closed once, `Run` returns |
| `relay` | the client and one rival, 1 free host, timeouts, restarts of both sides, messages lost, repeated, reordered, fairness | the client asks only for its own addresses, comes back, and ends up with the session's address |

Why these bounds are enough to be interesting. Two clients and one free host make
every allocation compete with a reservation or a request; the foreign address
separates the checks of requested addresses from those of allocated ones. A
timeout of 0 means that every tick may expire what was not refreshed in the last
second, which exposes all orders of expiry and refresh; `server_paths` has 1, so
that an address can outlive its session's freshness or the reverse. One kick
races with one cleanup: the races are between pairs of removals and a
registration. In `server_paths` there is one address for both clients, so that a
route, a packet on its way and a registration always compete for it; kicks are left
to the theorem, which covers them. Two endpoints on two names let one be replaced
while its session stays. In `Dedup`
the numbers wrap three times, jumps reach twice the window. In `Transport` one
interface suffices because paths meet only in the goroutines that visit them one
after the other; one recycle and one change give old and new readers, sockets and
paths at the same time. There every tick is longer than all timeouts, so that
any path without an ack since the last tick is stale, and the heartbeat loop
stands still before a second recycle (`MaxRecycles`); with one change no recycle
succeeds once a removal is decided, which `TransportProofs` covers. In `Relay` the one free host is
what the client and its rival take from each other after every timeout; ages of 0
let every tick end a session. Restarts and lost files come from `Crashes`. In
`ClientNode` two addresses tell the first ack from later ones. `StopEnds` excuses a
`Stop` that would need a fourth socket (`AtBound`).
`server_registry` runs with a disk that works, where the
file is torn only by a crash; `ServerProofs` covers the failing one.

The two largest safety runs, `server_paths` (0.9 million states) and
`transport_paths` (5 million), use symmetry: clients, endpoints, interface names and
local addresses are model values that are only compared for equality. The liveness
runs forbid it.
Deadlock is checked except where the program really stops: after `Stop` or a
panic in `Transport`.

### What the code does and its comments do not say

These runs end in a counterexample; `PROJECT.json` quotes the lines.

- `server_reachable`: a client that registers again between the two steps of a
  kick or of a timeout gets its session, then loses its route to the goroutine
  that is still cleaning up after the old one. It stays unreachable.
- `server_reconnect`: in the same gap of a timeout the expiry mark is put on the
  reservation of a session that has just been made, and takes it away later.
- `dedup_restart`: a sender that restarts before it has come a window further
  has its first packets dropped.
- `transport_panic`: the interface goes away while its path is being recycled, or
  a recycle fails; the channel is closed twice and the client panics.

Three more facts of the code that the models contain. A packet from the TUN device
can be sent to the former holder of an address (see `PacketsGoToTheHolder` below).
Reservations read from the
pool file have no expiry mark, so that `OrphanExpires` holds in `server_live` only
because nothing restarts there. And `CheckPath` and `MarkDown` are two critical
sections of `Path.mu`: an ack recorded in between is overruled, and the path is
down, with a recycle count of 0 that keeps it from being tried again, until its
interface changes.

### Fairness

`Server`: a handler, a kick or a cleanup that has begun ends (weak fairness): its
steps only wait for locks that are held for a finite time. The ticker ticks. The
scan of cleanup needs `sessionsLock`, which packets take again and again; a
`sync.RWMutex` lets a waiting writer go before later readers, and its inner mutex
serves starving waiters first, hence strong fairness. Nothing makes a packet, a
kick or a restart come. `Transport`: the same for loops that have begun a round,
readers, and `pollInterfaces`, whose ticker ticks on; strong fairness where
`MultiPath.mu` is taken. In `transport_live` an address that stays can be bound and
is seen by every scan: `FollowsInterfaces` says nothing of a system that fails for
ever. The steps of `Run`'s end and of `Stop`
are weakly fair; `pollInterfaces` sees `stopCh` in the end although its `select`
may take a tick that is ready as well (strong fairness). Nothing makes the next
heartbeat round, an ack or a data packet come, or the client stop. `ClientNode`:
every goroutine that can go on does; a `Read` that waits goes on only where
`Close` wakes it, and no ack, packet or cancellation has to come. `Relay`: the
server as above; the client's ticker ticks; of infinitely many heartbeats or acks
some arrive (strong fairness of the two arrivals), and every message vanishes in
the end. Nobody else has to do anything, and restarts may go on for ever, in which
case `quiet` stays false.

`StopEnds` states one exception, which the code has: a path that `pollInterfaces`
is adding while `Stop` runs gets into the map after `Stop` has emptied it, is never
closed, and keeps `Stop` waiting. `RunReturns` states two: a `Read` on Linux, and
that `Stop`. A panic of the transport ends the process, and is the matter of
`NeverPanics`.

## Proofs

`ServerProofs` holds for any finite or infinite set of clients, endpoints,
interfaces and kicks, any subnet size, timeouts, and, except where said, disks
that fail and processes that crash. It assumes only the named assumptions of
`Server`: null values differ from values, addresses are non-zero numbers,
timeouts are natural, flags are Boolean.

- `TypeCorrect`: `TypeOK` is inductive, one step per action (`StepType`), after
  lemmas on ages, the pool file and what each program counter carries.
- `AddressesHaveOneHolder`, `ServerAddressIsReserved`: from
  `HoldInv == TypeOK /\ NoSession /\ SoleHolder /\ ServerKeepsItsAddress`.
  `SoleHolder` alone is not inductive: a client without a session must have no
  address (`NoSession`), and a registration under way must be of such a client,
  or the insertion would hand its address out next to the one it had. `Holds`
  counts session, reservation and the address that `recv` carries; `HoldsStep`
  says that a step adds a holder only if the address had none, `FileStep` that
  the file takes over a subset of reservations that existed.
- `RoutesAreExclusive`, `StaleRoutesArePending`: from
  `RouteInv == HoldInv /\ RouteExclusive /\ NoStaleRoute`. A route changes hands
  without disturbing a session because of `SoleHolder`; every step is one of
  three kinds (`RoutesUntouched`, `RouteRemoved`, `SessionsDropped`) or inserts.
- `PacketsGoToTheHolder`: `SentToHolder`, an action property over both lookups of a
  packet, from `SendInv == RouteInv /\ ~Misdirected(recv)`. By `RouteExclusive` and
  `SoleHolder` the client that a route names is the only one whose session can have
  the address at that moment (`RouteNamesHolder`), and between the two lookups only a
  registration gives a session an address (`SendStep`). The reader of the UDP socket
  registers and routes, one packet after the other, so that its own packets cannot be
  misdirected. The TUN goroutine runs beside it: its packet does go to the former
  holder when a new one registers between the two lookups, and the property excepts
  that step and no other.
- `ReservationsAreDurable`: while writes succeed, file and memory agree.
- `ServerImplementsLease`: `Spec => LeaseSpec` for a disk that does not fail. The
  mapping `owner` chooses the holder, unique by `SoleHolder` (`OwnerIsHolder`);
  `StepLease` maps every step to a grant, a release or a stutter. With a failing
  disk a restart can bring back a deleted reservation: `SoleHolder` still holds,
  but an address can then pass to an owner straight from another one.

`ServerEndpointProofs` sorts the steps by what they do to sessions and endpoints
(`EndpointStep`): one refreshed by a heartbeat or by data, time passing, or
sessions and endpoints taken away.

- `InterfacesHaveOneEndpoint`: `OneAddressPerNic` is inductive with `TypeOK`.
- `SessionsAreFresh`: so is `SessionFreshAsAddresses`, whatever the two timeouts
  are; the case of a tick is arithmetic on ages that stop one past their timeout.
- `AddressesAreKept`: `AddressKept`, an action property, from the same invariants
  (`StepKept`): of the steps in `EndpointStep` only a heartbeat on the same
  interface and an endpoint's own expiry take it from a session that stays.

`RelayProofs` proves `RelayTypeCorrect` and `NodeAsksForItsOwn` from
`OwnInv == RelayTypeOK /\ OwnSession /\ AsksForItsOwn`. `AsksForItsOwn` speaks of
the client and the network only; `OwnSession` adds where new addresses come from:
the session's, and the one a registration is about to acknowledge, are among those
held. `ServerMoves` shows that the server's part of every step is a step of
`Server`, so that its lemmas apply, or a heartbeat asking for any address at all.
No assumption on fairness, disks or the number of clients is needed.

`ClientNodeProofs` proves `TypeCorrect`, `DevicesAreServed` and `ClosedOnce` from
`NodeInv == TypeOK /\ SetupOnce /\ ReaderGaveUp`: `tunReady` is closed by the ack
that found `registered` unset (`SetupOnce`), hence after the device was made, and
a reader that gave up while the client runs saw it closed without a device
(`ReaderGaveUp`).

`TransportProofs` holds for any set of interfaces and addresses, any timeouts and
queue length, and any bounds on sockets, recycles and changes; sockets and writes
may fail or not. It assumes the named assumptions of `Transport` only. Each step
is first sorted by what it does to paths and sockets (`StepKinds`): most are
`Quiet`, the others make, close, hand over or read a socket.

- `TypeCorrect`: `TypeOK` alone is not inductive, since a loop that looked a path
  up uses it later without asking again. `TypeInv` adds `Named` (whoever holds a
  Path holds one that was made, under the name it has in the map), `PollPlan`
  (pollInterfaces alone adds paths, so what it saw of the map stays true but for
  what Stop takes) and `LoopsHaveEnded` (Stop finds the three loops ended).
- `NoSocketIsLost`: `NoSocketLeaks`, with `SocketsHeld`: the channel of a path
  under recycling, or closed by removePath and not yet deleted, is closed. Two
  goroutines that closed the same path would have panicked, so at most one of them
  replaces or deletes it, and the socket it forgets is closed.
- `OpenPathsAreRead`: `EveryPathIsRead`, with `ChannelsDistinct` (no channel has
  two paths, so closing one path wakes only its readers), `FreshSockets` (a socket
  that its reader does not have yet has none and its channel is open) and
  `ChannelFollowsSocket` (the channel is open as long as the socket is, but for
  the step between the two assignments of recyclePath). A reader that wakes in
  that step goes on with the new socket or ends; the new reader is there either way.

`DedupProofs` holds for any window, any modulus that the window divides, and any
lag and jump that `CopiesAreNear` allows. The arithmetic is proved from quotient
and remainder: `DiffNear` (the distance on the wire is the true one, or seems a
window behind after half a turn), `SlotOfSeq` (a slot can be told from a wrapped
number), `SlotsDiffer`, `SlotsBetween` (what `SlotsPassed` clears).

- `TypeCorrect` needs nothing else.
- `JudgedExactly`, `BitmapCorrect`: from `WindowInv`. Neither property is inductive:
  the bitmap must be compared with the newest number accepted, which after a Reset
  can be `MaxLag` behind the newest one that arrived (`Newest`), and what a state
  from before the sender's restart says of a small number must be known
  (`OldLife`). `NextOfLife` is one verdict in a running life, `FirstOfNewLife` the
  first after a restart. Both theorems say "until a sender starts again before
  `Window` numbers were used" (`SlowRestarts`), which is all the time if
  `QuickRestart` is FALSE; with such a restart they are false (run `dedup_restart`).

All invariants and action properties that passing runs check are theorems, too.
Only model-checked is liveness (`server_live`, `transport_live`, `RunReturns` and
the last two properties of `relay`): fairness and ENABLED are out of the prover's
reach.

## Not modelled

The codec, configuration, identity, TUN devices and commands keep no shared state
or only do I/O. `updateServerConfig` writes the team key without a lock; keys are
not in the models. The TUN device keeps the address of the first ack although
later acks may bring another (`client/client.go:464-469`): the device itself is
outside the models, and no property claims that it follows. Two machines that generate one client ID are one client with more endpoints.

## Plan

1. Done: `AddressLease`, `Server`, `Dedup`, `Transport`, `ClientNode`, `Relay`, and
   the theorems above.
2. Done: theorems about `Transport` and `Dedup`, so that no safety property of a
   passing run is only model-checked.
3. Kicks in `Relay`: a route lost to a kick (`server_reachable`) keeps a client
   with a session from being reached, which needs data in the network.
