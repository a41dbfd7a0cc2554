# Verification of Psiphon for Android

TLA+ models of Psiphon for Android: of the part that decides whether a phone's
traffic goes through the tunnel, of the native forwarder that carries it, and of
the parts of the app around them; what TLC checks of the models on small
instances, and what TLAPS proves of them for every value of their constants.
`PROJECT.json` lists components, runs, mutants, the map from definitions to source
lines, findings, hazards and theorems.

Java paths below are relative to `src/app/src/main/java/com/psiphon3/`, C paths to
`src/app/src/main/jni/badvpn/`.

## 1. The system

The app has three processes. In the main one, the user interface (`MainActivity` and
its fragments) starts and stops a VPN service and shows its state. The service
(`psiphonlibrary/TunnelVpnService.java`, a shell around `TunnelManager`), in the
second, runs the tunnel core (the `ca.psiphon` library, closed to this repository),
the VPN interface and a native packet forwarder. `UpgradeChecker` has the third.

| component | state | operations | what makes it correct |
|---|---|---|---|
| `VpnManager` | tun descriptor, routing flag, forwarder thread, host service | establish, teardown, start and stop routing, all synchronized | one forwarder at a time; it never outlives the interface; stops end |
| tun2socks life cycle | `g_terminate`, the event loop, a duplicate of the descriptor | run, terminate, timer, device error | a terminate request reaches the instance it is for, and no other |
| `TunnelManager` | tunnel thread, stop latch, `m_isStopping`, two relays, clients, home pages, notification | service life cycle, `runTunnel`, client messages, core callbacks | what clients are told is true; traffic is routed when connected; stopping stops everything |
| `TunnelServiceInteractor` | binding, last tunnel state | start, stop, restart, bind, messages | the client ends in the state of the service it is bound to |
| tun2socks TCP relay | lwip connections, SOCKS clients, buffers, windows | accept, receive, send, close, abort | callbacks meet the states they assert, no byte lost while its receiver is there, everything freed |
| SOCKS client | state of the handshake, one reallocated buffer | connect, exchange messages, fail, free | it takes exactly the bytes of the handshake, and always ends |
| udpgw client and server | two tables of UDP connections held together by packets | submit, evict, receive, reconnect | no two flows share a socket; there is always a way back |
| badvpn event loop and flow modules | jobs, timers, descriptors, stream connections; a fair queue, a packet ring, a sender, a decoder | dispatch, set, remove; connect, send, receive, free; queue, connect and disconnect | no stale event, no lost wake-up, no starvation, packets whole and in order |
| `DataTransferStats` | bytes in time buckets, in the service and in the user interface | add, shift, copy | bytes are in the bucket of their time |
| `FeedbackWorker` | attempts, uploads, shutdown hook | upload when the tunnel state allows, retry | one upload at a time, success only after one |
| `UpgradeManager`, `UpgradeChecker` | three files shared by the threads of three processes | download, extract, verify, offer | the verified file is a good package; the last version gets installed |
| `MyLog` | one executor, a failure count, a circuit breaker | log, insert, retry, shut down | no error is lost; the circuit closes again |
| settings, NFC, crash service, tray, user interface | preferences, screens | see PROJECT.json | not modelled |

Interaction. The main thread of the service runs intents, client messages
(`Messenger`), tasks posted by the core callbacks, and the drain loop of an Rx
pipeline. The tunnel thread runs `runTunnel`: publish CONNECTING and "not
routing", establish the interface, start the core, wait for a latch, and undo all
of it. Core callbacks and the tunnel thread publish to two relays; the pipeline
combines them on the main thread and, on "connected, not routing", calls
`VpnManager.routeThroughTunnel`, possibly after waiting for an activity that can
show a landing page. A restart stops routing and restarts the core; its
configuration may have to wait for the device location and is then delivered on
another thread. `VpnManager` starts a thread that runs tun2socks in native code and
stops it through a global flag and `join()`. tun2socks runs in one event loop
(`Reactor`): lwip terminates the applications' TCP connections, each is relayed
through a SOCKS client to the core's proxy, and UDP goes over one more SOCKS
connection to a udpgw server, through a fair queue, a packet buffer and a decoder.
The activities follow and command the service through `TunnelServiceInteractor`,
over `Messenger`s between the processes.

What is hard here: four threads publish to one pipeline; values published before
the subscription are lost; methods wait in `join()` with a monitor held; a global
flag is set by one thread and reset by the thread it is meant for; tasks posted
before a stop run after it; clients die without saying so; a binding reports its
end only to whoever is still bound; callbacks of two sides of a connection come
while either is going down; tables on two machines are held together by packets
that get lost; threads of three processes write the same files without a lock. The
list with source lines is under `hazards` in `PROJECT.json`.

## 2. Plan

Done:

1. `VpnInterface`, `VpnManager`, `VpnManagerProofs`: interface and forwarder, with
   the abstract promise and its refinement.
2. `TunnelManager`, `TunnelManagerProofs`: life cycle, tunnel thread, commands and
   the pipeline; `StopAndWait`: the end of the tunnel thread, finer, with `onRevoke`.
3. `TunnelServiceInteractor`: the clients, their bindings and the service's side of
   the protocol.
4. `TcpClient` and `SocksClient`, composed in `TcpRelay`.
5. `UdpGw`: client, server and what is between them; `FairQueue`, `PacketBuffer`,
   `PacketSender`, `ProtoDecoder`: the flow modules; `Reactor` and `Connection`: the
   event loop and the stream connection under all of it.
6. `TransferStats`, `Feedback`, `Upgrade`, `MyLog`.

7. Proofs of every invariant of every run, of `NoStopIgnored`, of the refinement of
   `VpnInterface`, and that `TcpRelay` implements both of its sides: `VpnManagerProofs`,
   `TunnelManagerProofs`, `TunnelServiceInteractorProofs`, `TcpRelayProofs`,
   `UdpGwProofs`, `BadvpnProofs`, `AndroidProofs`, `UpgradeProofs`.

Left, in this order:

8. A theorem about `VpnManager` as `TunnelManager` uses it: that one step per method is
   an abstraction of the finer module under the calls that `TunnelManager` makes.
9. The NFC exchange, the pure choices of `VpnManager.selectPrivateAddress` and of the
   app lists in `vpnServiceBuilder`, and the migrations of the tray library.

## 3. Modules

### VpnInterface.tla

The abstract promise: an interface is opened, forwarding starts and stops on it,
and it is closed only when nothing forwards.

### VpnManager.tla

`VpnManager.java` and the native thread of tun2socks.c. Every public method is
synchronized. A method that does not wait is one action. `stopRouteThroughTunnel`
and `vpnTeardown` may wait in `Thread.join()` inside `stopTun2Socks` with the
monitor held; they are split at the join (`BeginStop`, `JoinReturns`), and `owner`
names the waiting thread. Nobody else enters the monitor meanwhile (`MonitorFree`).

| model | code |
|---|---|
| `hostService` | `vpnServiceBuilderProviderRef` |
| `tunFd` | `tunFd`; a number per session, 0 for null |
| `isRouting` | `isRoutingThroughTunnel` |
| `t2sThread` | `mTun2SocksThread`; a number per instance, 0 for null |
| `native[i]` | the native thread of instance i: started, running (after the reset of `g_terminate`), done |
| `dupFd[i]` | the duplicate given to instance i: open, closed by `BTap_Free`, leaked by an early failure of `run()`, dropped by `startTun2Socks` |
| `g_terminate` | `g_terminate` |
| `inSession`, `sessions` | from `vpnEstablish` to the end of `vpnTeardown` in `runTunnel` |

The tunnel thread calls `vpnEstablish` and `vpnTeardown` in pairs, as `runTunnel`
does with its `finally`; all other threads (`Routers`) may start and stop routing at
any time, also outside a session. The failures of `vpnEstablish`, of
`routeThroughTunnel` (no descriptor, no port, `dup()` throws), of `run()` before and
after it owns the descriptor, and device errors are all included. `join()` is not
interrupted: the only interrupt in the code is the disposal in `onDestroy`, which
comes after the tunnel thread has left the monitor for good. Addresses and ports
are abstracted away.

### TunnelManager.tla

`TunnelManager.java`. The main thread is `mainPc` and the queue `mq` of the tasks
that the process posts to itself; a task or a command is one action, except where
another thread can see its middle: between `routeThroughTunnel` and `accept(TRUE)`
(`acceptInDrain`, `acceptAlone`), in the join of `onDestroy`, and between its end
and `dispose()`. The tunnel thread is at one of the statements of `runTunnel` that
touch shared state. `cfg[k]` is the k-th configuration asked for (0 is the start,
the others are restarts).

The Rx operators are modelled by what they do: `PublishRelay` drops what nobody has
subscribed to (`subs` counts the relays the io thread has reached), `combineLatest`
makes a pair once both relays have a value, `observeOn` has a queue (`bus.rx`) and
posts one drain task when the queue stops being empty and no drain is running,
`distinctUntilChanged` compares with `lastPair` and `emitted`, and `switchMap` drops
the wait for an activity when a new pair comes (`waiting`).

`VpnManager` appears with one step per method (`tunFd`, `isRouting`); what is inside
these steps is the subject of `VpnManager.tla`. One thing of it reaches its callers: a
stop that asks a native thread which has not reset `g_terminate` yet never returns.
`native` therefore says whether the thread is starting, running, or "deaf", that is, being
waited for in vain. A stop of a starting one (`StopRouteLosesRequest`) leaves its caller
where it is (`StopVpnHangs`, `ConfigStopHangs`, or the main thread at "hung") with the
monitor held, and whoever enters the monitor later hangs too. `vpnEstablish`, `startTunneling` and
`restartPsiphon` may fail. `restartPsiphon` starts the core whether or not it was
running, which is what the library does. Left out, because no other modelled state
depends on it: wording of notifications, ports, regions, sponsor, logging; and the
operations listed for the component in `PROJECT.json`.

External: the core posts callbacks only while it runs; the activity manager
destroys a service after `stopSelf()`, but not while the system is bound to it
through an open VPN interface; clients die at any time.

Modes. `OldAndroid` is the SDK test of `canSendIntentToActivity`. `AsyncConfig`
says whether a configuration has to wait for the location (a precision is
configured and Play services are there) or is resolved inside the handler.
`LateSubscribe` lets the tunnel thread run ahead of the io subscription made in
`onCreate`. `EarlyRestart` lets a restart arrive before `runTunnel` has started the
core.

### StopAndWait.tla

`stopAndWaitForTunnel` with `onDestroy` on the main thread and `onRevoke` on a
binder thread, against `runTunnel` and the stop commands. The two fields are read
again at every use and no lock is taken, so each use is a step, and a use that
finds null ends its thread with an exception (which ends the process when it is the
main thread's, see `Alive`). `vpnTeardown` in the `finally` of `runTunnel` may lose its
terminate request; then the tunnel thread is "stuck" (`VpnTeardownHangs`).

### TunnelServiceInteractor.tla

The interactors (the activity's, and that of a worker that is never paused), each
with every binding it has made: a new `bindTunnelService` replaces the field but
does not unbind the old one. Messages to the service and from it are queues;
`svc`, `net` and `mClients` are the service as its message handler sees it. A
message sent before the messenger is there waits in the binding, as
`sendServiceMessageCompletable` does. When the service ends, the bindings are told in
any order. `Faults` names the untimely events of the
environment that a run allows: a crash after which the system starts the service
again, an end or a pause while a binding is being made, a pause during a restart, a
settings result before `onStart`.

### TcpClient.tla, SocksClient.tla, TcpRelay.tla

`TcpClient` is `struct tcp_client` of `tun2socks/tun2socks.c`: one action per
callback, each with the frees and sends it does before it returns. lwip is
modelled by what the callbacks see: a window, a send buffer, what is not yet
confirmed. Data is counted, not represented. `SocksClient` is
`socksclient/BSocksClient.c` with the sizes of its messages, the block the buffer is
in, and what is initialised; the proxy answers in pieces of any length and the
destination's bytes follow without a gap. `TcpRelay` extends the first and
instantiates the second: the SOCKS client is created by `listener_accept_func`,
reports to `client_socks_handler` in the step that decides it, and is freed by
`client_free_socks` in whichever callback does so. What `TcpClient` alone leaves
open (when SOCKS comes up, fails, delivers) is what the handshake does. `reads` says
which of the application and the proxy have room for data; it changes at any time
(`WindowChanges`). lwip probes a closed window without limit (the persist timer,
`lwip/src/core/tcp.c:897-907`) and gives a pcb up only when data it could send stays
unconfirmed.

### UdpGw.tla, MCUdpGw.tla

`UdpGwClient.c`, `SocksUdpGwClient.c` and, as their peer, `udpgw.c`. `connections` is
the client's list in the order of use with both trees; `server` is the server's.
`event` records what the last step sent out of a socket of the server; `told` in a
connection and its packets records that no REBIND packet of this owner was dropped.
Both are history, for the properties alone. The client drops a packet when its buffer is full (the REBIND flag with it), a
lost SOCKS connection loses what was under way, and the server has a limit of its
own. Keepalives are left out: the Android build (`PSIPHON`) switches them off.

### FairQueue, PacketBuffer, PacketSender, ProtoDecoder, Reactor, Connection, MCBadvpn

`flow/PacketPassFairQueue.c` with its virtual times and the shift at their
overflow; `flow/PacketBuffer.c` over the ring of `structure/ChunkBuffer2.h`, with the
block in which each packet lies; `flow/PacketProtoDecoder.c` with the stream cut
anywhere. `system/BReactor_badvpn.c` in its epoll build, with `base/BPending.c`: the
loop dispatches one job, else one timer, else one descriptor, and a handler may
call anything meanwhile. Times are relative to the present. The limits of the
connections (`BReactorLimit`) are one limit, which bars a job from setting jobs
for ever; the jobs of the tun device (`DeviceJobs`: `tuntap/BTap.c:143-188` with
`flow/SinglePacketBuffer.c:37-49`) have none and may set any job at any time.

`PacketSender` is `flow/PacketPassConnector.c` with `flow/PacketStreamSender.c`: the
connector keeps the packet it was handed when the connection, and the sender with it,
goes away, and hands it from its first byte to the sender of the next one. `stream` is
what was written to the present connection, byte by byte, `whole` the packets of which
some stream got the last byte.

`Connection` is `system/BConnection_unix.c` as tun2socks uses it: `BConnector` until it
is connected, then `BConnection`, which takes the descriptor over, and the interfaces of
the two directions, whose operations and their ends are jobs. `wait` is `wait_events`,
`result` what `epoll_wait` has returned for the descriptor; a hang-up (`is_hupd`) ends
the watching. The user, that is `BSocksClient`, may call any operation between two
handlers; once an error was reported it frees everything, as the code demands. The
kernel (`kernel`) and the peer are external.

The six share no state; `MCBadvpn` makes one specification of them in which `part`
says which one a behaviour is about.

### TransferStats.tla, Feedback.tla, Upgrade.tla, MyLog.tla, MCAndroid.tla

`TransferStats` is the bucket list of `DataTransferStats.java`: a bucket is the set of
the periods counted into it, `ui` the copy made field by field while the other
thread may reset. The turns of the loop of `shiftBuckets` are taken together (`Shifted`);
`TurnsShift` proves that this is what they do. `Feedback` has the three steps in which RxJava's emitter ends an
upload on the core's thread, between which the io thread may be at the next one.
`Upgrade` has the five callers of `getAvailableCompleteUpgradeFile` ("May be called from any
process or thread", `UpgradeChecker.java:79`): the receiver and the job service's thread
in the checker's process, the tunnel thread and the main thread's handler in the VPN
service's, and the feedback worker in the main one. Every operation on a file is a step;
a file that is open keeps its identity when its name is given away; a crash takes the
threads of one process. `overlaps` counts the extractions begun while another caller is
between creating the unverified file and renaming it. `MyLog` has the executor's queue with retries
and the reset of the circuit in it. `MCAndroid` extends `Upgrade` and joins it with the
others and `StopAndWait` as `MCBadvpn` does. The upgrade is there twice: with all its
callers (`AllCallersBound`), and with the two of the checker's process, which are there
whenever the app is installed, and more faults (`CheckerBound`).

## 4. Runs

| run | result | shows |
|---|---|---|
| `VpnManager` | pass | one forwarder, addressed terminate requests, nothing left between sessions, no dropped duplicate, refinement of `VpnInterface`; a stop that reaches an instance inside `run()` returns |
| `VpnManager_lost_terminate` | violation | a stop that comes before the native thread has reset `g_terminate` waits for ever |
| `TunnelManager_safety` | pass | with synchronous configurations: reports are current, CONNECTED means forwarding, relay and flag agree, destroyed is quiescent; connected is acted on or overtaken |
| `TunnelManager_stop` | pass | in the most permissive mode, a stop ends in `onDestroy` unless a terminate request is lost |
| `TunnelManager_relay_mismatch` | violation | an asynchronous restart leaves relay and flag different |
| `TunnelServiceInteractor` | pass | two interactors under crashes, early ends and pauses in a restart: statistics follow a state, no stop of a running service is ignored |
| `TunnelServiceInteractor_liveness` | pass | without untimely events an interactor comes to show the service's state, and restarts complete |
| `TunnelServiceInteractor_pause_in_restart` | violation | a pause during a restart: the service stops and is not started again |
| `TcpRelay` | pass | assertions of the callbacks, window, no byte lost, exact handshake, balanced resources, agreement of both sides; every connection is answered, and freed when one side is down and the other reads |
| `UdpGw` | pass | tables consistent under eviction and loss, a datagram leaves by the socket opened for its own flow, a way back after every error |
| `MCBadvpn` | pass | event loop, stream connection and flow modules: no stale event, no lost wake-up, no starved flow or receiver, nor a timer if the device is found empty again and again, descriptors closed once by their owner; ring, sender and decoder hand on the packets they got, whole |
| `MCAndroid` | pass | end of the tunnel thread, transfer statistics, feedback, log; the verified upgrade file is a good package without overlapping extractions, and the last version is installed with them too |

Each violation is a finding in `PROJECT.json` with the comment it contradicts.

Where a run covers a component with many invariants, it checks their conjunction.
The parts are defined, named and explained in the component's module:

| property | parts |
|---|---|
| `ClientSafe` (`TcpRelay`) | type invariants of both sides, `CallbackAsserts`, `WindowFits` |
| `HandshakeSafe` (`TcpRelay`) | `IoInsideBuffer`, `NoStreamByteSwallowed`, `ResourcesBalanced` |
| `InteractorSafe` | `TypeOK`, `StatsFollowState`, `DisconnectedWasBound` |
| `TablesSafe` (`UdpGw`) | `TypeOK`, `TablesConsistent` |
| `QueueSafe` (`FairQueue`) | `TypeOK`, `QueueAsserts`, `NobodyJumpsAhead` |
| `PacketsSafe` (`MCBadvpn`) | of `PacketBuffer`: `CachedIoIsCurrent`, `ReceiveStaysValid`, `SendsOldestIntact`, `HoldsNumPackets`; of `PacketSender`: `StreamIsPackets`, `NoPacketSkipped`, `HandoversAgree`; of `ProtoDecoder`: `PacketsIntact`, `RoomToReceive` |
| `ConnectionSafe` (`Connection`) | `TypeOK`, `BusyIsWatched`, `InterfacesAgree`, `DescriptorHasOneOwner` |
| `ReactorSafe` (`Reactor`) | `TypeOK`, `NoStaleEvent`, `NothingTwice` |
| `NobodyStarves` (`MCBadvpn`) | `EveryFlowServed`, `EveryPacketDecoded`, `EveryTimerFires`, `EveryReceiveEnds`, `EveryPacketSent` |
| `StopSafe` (`StopAndWait`) | `TypeOK`, `NobodyLeavesEarly`, `TunnelFindsItsSignal` |
| `StatsSafe` (`TransferStats`) | `TypeOK`, `NoBucketMixesPeriods`, `GraphNotYounger` |
| `FeedbackSafe` (`Feedback`) | `TypeOK`, `OneUploadAtATime`, `UploadOnlyWhenAllowed`, `SuccessMeansUploaded` |
| `UpgradeSafe` (`Upgrade`) | `TypeOK`, `SaneWithoutOverlap` |
| `LogSafe` (`MyLog`) | `TypeOK`, `ErrorsAreKept`, `CircuitConsistent` |
| `EverythingEnds` (`MCAndroid`) | `WaitIsBounded`, `WorkEnds`, `CircuitCloses` |

**Bounds.** `VpnManager`: two sessions, three instances, two routing threads. Two
sessions are needed for leftovers of one to reach the next, three instances for one
that dies by itself between two that are stopped. `TunnelManager`: a start and up to
three further commands (register, restart and a stop or a death make the shortest
sequence in which a restart races a session), one restart, two core callbacks (a
landing page and a connection), one client that is an activity.
`TunnelServiceInteractor`: two bindings of each of two interactors, one of which is
paused, or three of one; two suffice for an old binding to act on a new one.
`TcpRelay`: a window of two bytes, a send buffer of three and four bytes in either
direction, so that each buffer fills, drains in parts and fills again; both address
types and both ways to authenticate. `UdpGw`: four flows, two ids and a server table
of one entry, one packet in each buffer: every packet can be the dropped one.
`MCBadvpn`: three flows and a time that overflows after four units; a ring of two
packets of one data block and so every offset at the wrap; five packets of length
0 to one too many in the decoder; two jobs, one of a connection and one of the device,
two timers and two descriptors, timers one or two ticks ahead and seen up to one tick late; a connection with one operation per
turn, one byte of room and two arrivals, whose interfaces are each initialised twice
(for the handshake and for the user); three packets of two or three bytes and three
streams, so that a packet can be cut off twice. `MCAndroid`: two stop commands;
nine ticks of two to a period and three buckets; three uploads, two attempts and
three changes of the tunnel state; three log entries, two retries and a circuit of three
failures. The upgrade with all five callers has two versions, one start of the tunnel or
of a feedback upload, and no fault; with the two callers of the checker's process it has
three versions, so that an older upgrade can be pending when a newer one comes out, and
either a damaged download or a crash and an overlap.
Only `VpnManager` checks deadlock: the others come to rest when a service is
destroyed, a connection freed or a bound used up.

**Fairness.** `VpnManager`: weak fairness of the native thread's start, of its timer
(tun2socks sets it again on every tick) and of the wake-up of a joining thread; none
for callers, device errors or failures. `TunnelManager`: weak fairness of the io
thread, of the main thread as long as it has something to do, of the tunnel thread,
of the delivery of a configuration (the location request has a timeout of one
second, `Location.java:87`), of the native thread's start and of the activity manager.
Nobody is obliged to send commands, and the core is not obliged to call back. No
fairness makes `stopRouteThroughTunnel` or `vpnTeardown` return when the terminate request
was lost: `StopVpn` is not enabled then, and `StopEndsInDestroy` and `WaitIsBounded` name
the case as an outcome of its own. `TunnelServiceInteractor`: both
loopers handle their messages, a binding to a running service connects, a service
told to stop ends. `TcpRelay`: the event loop runs what is ready; the proxy, which is
the core in the same process, answers every message of the handshake; while the
application has room, what lwip sent it is confirmed or the pcb given up (`TCP_MAXRTX`), and
while the proxy has room, what is sent to it goes out or the connection breaks. Neither
need ever have room, and no application has to send or close; `ClosedIsFreed` says for
which side it asks that it has room in the end. `MCBadvpn`: the output takes packets, handlers
return, `epoll_wait` returns when its time is over; a lost connection is made again
(`SocksUdpGwClient` has a timer for it). Nothing makes the jobs of the device end:
`EveryTimerFires` is conditional on a device that is found empty again and again.
`MCAndroid`: threads and the executor run; WorkManager runs what is due and stops what takes ten minutes (an
upload itself may never end). The upgrade, in the checker's process: the alarm
repeats, broadcasts and work are delivered, and both threads run.
Strong fairness is used in two places: in `Upgrade`, a core that gets the chance to
download again and again does so in the end, a broadcast finds the receiver's thread free
between alarms, and the user takes the notification; in
`Connection`, an `epoll_wait` that is called again and again reports a descriptor that
is ready (it returns other descriptors too, and the loop may be busy in between).

**Mutants.** Every property of a passing run has a mutant: an operator next to the
action it replaces, marked as such, that changes it the way a slip in the code
would; TLC then finds the property violated.

**What does not hold.** Besides the three violation runs, the models show deviations
that are stated in the modules ("This does not hold") or bounded out of a run by
name, and are listed here so that nobody takes the passing runs for more than they
are:

* `routeThroughTunnel` does nothing after it once gave up, or after the forwarder
  died of a device error, until a stop takes the flag down
  (`RouteStartsWhenNotRunning`; `VpnManager.java:220` says otherwise).
* When the terminate request of a stop is lost (`VpnManager_lost_terminate`), `vpnTeardown`
  or `stopRouteThroughTunnel` never returns. Then a commanded stop does not end in
  `onDestroy` (`StopEndsInDestroy` allows for it by `TerminateLost`), `onDestroy` and
  `onRevoke` wait in `stopAndWaitForTunnel` for ever (`WaitIsBounded` allows for "stuck"), and
  the main thread hangs at its next call of `VpnManager`. Only an error of the tun device
  would end it.
* A value that `runTunnel` publishes before the io thread has subscribed is lost; if it
  is the first FALSE of the routing relay, no pair is made and a connected tunnel is
  not routed (`ConnectedIsActedOn` therefore asks for a value of each relay).
* A notification may still be posted after a stop was commanded
  (`NoNotificationAfterStop`), and a posted restart may start the core after it was
  stopped (`StoppedCoreStaysStopped`).
* With configurations delivered on another thread, `DestroyedIsQuiescent` fails: a
  tunnel thread may be started while `onDestroy` runs.
* A restart commanded before `runTunnel` has started the core (`EarlyRestart`) starts it
  early; what it then reports may be routed before `vpnEstablish`, which stops routing
  and tells no relay: `RelayMirrorsRouting` and `ConnectedMeansForwarding` fail.
* `onRevoke` may meet a field that `onDestroy` has just set to null, and then does not
  tell the user (`RevokeIsReported`).
* `RelayFollowsService` fails under `redelivery` (the interactors are not told of a
  service the system starts again), `early_end` (no callback ever comes from a service
  that ended while being bound) and `early_pause` (a delayed unbind hits the next
  binding); `RestartCompletes` also under `stale_result`; and `NoStopIgnored` under
  `early_pause` and `stale_result`. A client that registers after
  the stop is answered (`NoMessageAfterStop`).
* `PacketPassFairQueue.c:195` says that the schedule job removes the time of a flow
  that did not send again; it only forgets the flow. The time is corrected when the
  flow comes back, which is why `NobodyJumpsAhead` holds.
* An application, or a proxy, that stops reading and keeps its connection open keeps the
  TCP structure of tun2socks for ever, the other side being closed or not: lwip's persist
  timer probes a zero window without a limit. `ClosedIsFreed` is stated for a side that
  reads in the end.
* A tun device that always has another packet starves the timers: the jobs that read it
  (`BTap.c`, `SinglePacketBuffer.c`) set one another without a `BReactorLimit` and go ahead
  of every timer. `EveryTimerFires` fails without its premise `[]<>DeviceIdle`.
* Two uploads share one shutdown hook field, and one may remove the other's
  (`HookCoversUpload`).
* When two callers extract an upgrade at once, be it in one process, the verified file may be
  truncated or mixed, against `UpgradeChecker.java:63` (`FilesSane`; `SaneWithoutOverlap` is
  what holds of it): one renames what the other has just truncated. The damage is found at
  the next check, which is why `LatestIsInstalled` holds nevertheless.
* A UDP flow whose own REBIND packet met a full buffer inherits the server's socket of the
  previous owner of its id if both have the same remote address (`OwnSocket` excludes it by
  `told`), and a late reply of an evicted flow is handed to a successor with that address.
* `run()` leaks the duplicate descriptor when it fails before `BTap_InitWithFD`
  (`tun2socks.c:542`; `dupFd` becomes "leaked").
* `m_sendDataTransferStatsHandler` may miss its removal and re-post itself for the
  rest of the process (`TunnelManager.java:905`, 961); not modelled.

## 5. Proofs

Every invariant that a run checks, the action property `NoStopIgnored` and the
refinement of `VpnInterface` are theorems about the specifications the runs check,
for every value of the constants that satisfies the named assumptions. In most cases
the property alone is not inductive; what each proof adds to it is below.

| module | theorems | mode |
|---|---|---|
| `VpnManagerProofs` | `TypeCorrect`, `OnlyOneInstance`, `TerminateReachesItsTarget`, `QuiescentBetweenSessions`, `NoDuplicateDropped`, `Refinement` | any |
| `TunnelManagerProofs` | `TypeIsKept`, `ReportAlwaysCurrent` | any |
| | `DestroyLeavesNothing` | `~AsyncConfig` |
| | `RelayAlwaysMirrors`, `ConnectedIsTrue` | `~AsyncConfig`, `~EarlyRestart` |
| `TunnelServiceInteractorProofs` | `InteractorIsSafe` | any `Faults` |
| | `NoStopIsIgnored` | neither `early_pause` nor `stale_result` in `Faults` |
| `TcpRelayProofs` | `CallbacksAreSafe`, `OrderlyEndLosesNothing`, `HandshakeIsSafe`, `SidesAlwaysAgree`, `RelayImplementsBoth` | any |
| `UdpGwProofs` | `TablesAreSafe`, `AlwaysAWayBack`, `OwnSocketAlways` | any |
| `BadvpnProofs` | `QueueIsSafe`, `ReactorIsSafe`, `ConnectionIsSafe`, `PacketsAreSafe`, together `BadvpnIsSafe` | any |
| `AndroidProofs` | `StopIsSafe`, `StatsAreSafe`, `TurnsShift`, `FeedbackIsSafe`, `LogIsSafe`, together and with `UpgradeIsSafe` `AndroidIsSafe` | any |
| `UpgradeProofs` | `UpgradeIsSafe` | any callers and bounds (the files are sane until extractions overlap) |

**Assumptions.** The named ASSUMEs of the modules, which TLC evaluates on every run:
the tunnel thread is not a router, activities are clients, modes are Booleans, bounds
are natural numbers, sizes and limits positive ones. Those that say more come from the
code: a fair queue's time has room for one packet and its weight
(`PacketPassFairQueue_Init` fails otherwise), packets of the sender have a header and so
at least one byte, timers are set at least one tick ahead, the sets of timers and
descriptors are finite, and a period of the statistics is not longer than the time
covered. `MCBadvpn` and `MCAndroid` collect the assumptions of
their parts in `FlowAssumption` and `BoundsAssumption`. The modes in the
table are hypotheses of the theorems, and each is needed: without it the property is
false, which a violation run or "What does not hold" above shows.

**VpnManager.** Whether two instances can be alive depends on whether the routing
flag, `mTun2SocksThread`, the descriptor and the native thread are in step. `Inv`
states how: an instance that is alive is the remembered one; whoever waits in `join()`
has taken the flag down and holds a thread; a remembered thread is inside a session
with an open descriptor, and the flag is up unless somebody is stopping it.
`Refinement` maps every step that keeps `Inv` to a step or a stutter of `VpnInterface`.

**TunnelManager.** `PipeInv` says that the last pair in flight is made of the relays'
last values, and that whenever "connected, not routing" was the pair taken last,
somebody is waiting for an activity, or the main thread is about to call
`accept(TRUE)`, or a different pair is still queued. It is stated for a value of the bus
(`BusInv(b)`), so that the two calls of `accept()` inside one handler are followed one
after the other (`AcceptNetKeeps`, `AcceptRouteKeeps`). `DestroyInv` says that no
configuration is on its way, that the interface is open only between `vpnEstablish` and
`vpnTeardown`, and that a destroyed service has an empty queue. `MirrorInv` adds to
both that before `startTunneling` nothing can ask for routing (`QuietStart`: the core is
off and the pipeline knows no other pair than "connecting, direct"), that the interface
is open during the session (`SessionOpen`), and that relay and flag differ only between
`routeThroughTunnel` and `accept(TRUE)` (`RelayTold`). `QuietStart` is what
`EarlyRestart` breaks.

**TunnelServiceInteractor.** For `InteractorSafe`, every queue on the way to an
interactor has a state in front of its first statistics unless one was handled, and
whoever is registered was told a state or has one under way. For `NoStopIgnored`,
`OrderInv` follows the messages of one interactor through the binding and the service's
queue: a binding without a messenger is still bound and has its REGISTER waiting first;
a service that is down has an empty queue and no messenger that works; and in a running
service every queued stop will meet a registered sender when its turn comes, as will
whatever a started interactor sends after all that is queued. `Registered(q, M, c, k)`
says that c is a client when message k comes up: by the last REGISTER before it that no
UNREGISTER followed, and not by a computation over the queue, so that no induction is
needed.

**TcpRelay.** `ClientInv`: which side is down decides which callbacks are left
(`SidesDown`); nothing flows before SOCKS is up, what lwip may deliver fits, and a
buffer that is half queued waits for a confirmation that will come (`Flow`); every byte
is in a buffer, pending, or delivered, until the side it is meant for goes down
(`Accounts`). `SocksInv`: what is under way on the connection and what is initialised
follow from the state, and while a reply is awaited exactly its rest is unread
(`HandshakeBytes`). The composition keeps both, and `SidesAgree` with them;
`RelayImplementsBoth` says that it implements the specification of either side, so that
what was proved of the two alone carries over.

**UdpGw.** `UdpInv` states separately what the client keeps, its flows, the state of the
reconnection, the packets under way, the server's table and what the last step handed
out. Its heart is that conids and addresses differ within each table; a new connection
finds an id because a table below its limit cannot use all of them (`SomeConidUnused`,
a pigeonhole argument over cardinalities). For `OwnSocket`, `OrderInv` looks at every stream of
packets of an id: the wire, what its buffer holds, and the packet its connection may send
next. A packet that needs another socket than the one an earlier packet, or the server's
entry, leaves behind (`Needs`) has a REBIND packet of its own owner in front of it
(`Brings`; `Chained`, `Served`). Drops at the end of a stream, takeovers, evictions and
lost connections keep this, and the server's step takes the first packet away.

**badvpn.** *Fair queue*: flows in the queue are alive, and none of them is earlier than the
flow that sends; so the shift at the overflow takes at least that flow's time away, and
there is room again for one packet and its weight.
*Reactor*: the lists of jobs and timers hold what their states say, each once, and an
entry of `epoll_wait`'s results names a descriptor that is still there or none.
*Connection*: a direction is busy exactly while it is watched or its job is set, the
interfaces follow from the jobs, and between `epoll_wait` and the handler no send got
through a reset (`CnLate`). *Buffer*: some function `off` gives the block at which each
packet of the queue begins; the region satisfies the assertions of `ChunkBuffer2.h`, and
the places told to the neighbours are computed from it. *Sender*: the stream ends either
behind a whole packet or inside the packet held, after as many bytes as were reported
(`SnPlace`). *Decoder*: the used part of the buffer is the stretch of the stream from
`boundary` to `arrived`. `BadvpnIsSafe` joins them along the parts of `MCBadvpn`.

**App.** *StopAndWait*: a field is null only while there is no tunnel thread to find
(`FieldsCover`), and `onRevoke` has begun only for a thread that was there. *Log*: the
reset is queued or running exactly once while the circuit is open and not at all
otherwise, and the circuit is open exactly when the failures have reached the threshold. *Feedback*: an upload that runs has a live
emitter, a result under way is of one that has ended, a success of one that reached the
server. *Stats*: list and start time agree, in the message too unless a reset came
between its two reads. `TurnsShift` justifies `Shifted`: any number of turns of the loop
of `shiftBuckets` make that closed form of a full list.

**Upgrade.** Until extractions overlap, at most one caller is between the creation and the
renaming of the unverified file (`OneExtracts`); it has open at most the file with that
name, and what it is about to rename is a good package (`WritesUnverified`); no package is
newer than what is released. The other callers only take names away or open nothing. That
there is a file to create for every set of callers is once more a pigeonhole argument.

**Only model-checked.** The temporal properties, since fairness and ENABLED are out of
the prover's reach: `StopOfRunningReturns`, `ConnectedIsActedOn`, `StopEndsInDestroy`,
`RelayFollowsService`, `RestartCompletes`, `ClosedIsFreed`, `AcceptedIsAnswered`,
`NobodyStarves`, `LatestIsInstalled`, `EverythingEnds`. The violation runs are
counterexamples and need no proof.

## 6. Not modelled

* The user interface, the settings screens, the crash service and the NFC exchange:
  screens, preferences, one request and one answer.
* Parts of modelled components, each named in `PROJECT.json`: what only formats, logs
  or stores preferences; the builder of the VPN; the content provider of the log; the
  packet parsing of tun2socks.c, which keeps no state; `BReactor_Synchronize`.
* The tray library: third-party code.
* lwip and the rest of badvpn. The repository holds the whole badvpn distribution.
  `Android.mk` compiles the part that tun2socks needs; NCD, the badvpn VPN client and
  server, the parser generators with their output, and lwip's sockets, SNMP and PPP
  are not part of the app at all. They are most of the repository's C lines, so that
  the share of all lines that the models cover is small although the control of the
  app and of the forwarder is modelled. Of lwip itself, a TCP/IP stack with its own
  specification, the models contain what tun2socks.c relies on.
