---------------------------- MODULE TunnelManager ----------------------------
(***************************************************************************)
(* TunnelManager.java, the service behind the VPN: its life cycle, the     *)
(* tunnel thread (runTunnel), the commands of its clients, the callbacks   *)
(* of the tunnel core, and the Rx pipeline that turns the two relays       *)
(* (network state, "are we routing") into routing decisions and into what  *)
(* clients are told.                                                       *)
(*                                                                         *)
(* Four kinds of threads act.  The main thread runs one task at a time:    *)
(* the tasks the process posts to itself wait in the FIFO mq; commands     *)
(* from outside (intents, client messages) may arrive between any two      *)
(* tasks.  The tunnel thread runs runTunnel.  A computation thread         *)
(* delivers a tunnel configuration that had to wait for the device         *)
(* location.  An io thread subscribes the pipeline to the relays.          *)
(*                                                                         *)
(* VpnManager's methods are one step each here; VpnManager.tla opens them. *)
(* What it shows of them is kept: a stop that comes before the native      *)
(* thread has reset g_terminate is lost, and its caller waits in join()    *)
(* with VpnManager's monitor held, so that nobody else gets in either.     *)
(***************************************************************************)
EXTENDS Naturals, Sequences, FiniteSets

CONSTANTS
  Clients,         \* messengers that may register
  Activities,      \* the clients that are activities
  OldAndroid,      \* SDK < 29: an intent may be sent without a live activity
  AsyncConfig,     \* the configuration waits for the device location
  LateSubscribe,   \* the io thread may lag behind the tunnel thread
  EarlyRestart,    \* a restart may be commanded while the tunnel is starting
  MaxCommands,     \* bound: commands from outside after the first start
  MaxRestarts,     \* bound: restart commands
  MaxCoreEvents    \* bound: callbacks of the tunnel core

ASSUME ClientAssumption == Activities \subseteq Clients
ASSUME ModeAssumption ==
  {OldAndroid, AsyncConfig, LateSubscribe, EarlyRestart} \subseteq BOOLEAN
ASSUME BoundAssumption ==
  MaxCommands \in Nat /\ MaxRestarts \in Nat /\ MaxCoreEvents \in Nat

VARIABLES
  life,         \* "up", "dying" (onDestroy is queued), "destroyed"
  stopSelf,     \* stopSelf() has been called
  firstStart,   \* m_firstStart
  latch,        \* m_tunnelThreadStopSignal: "null", "armed" or "down"
  mainPc,       \* what the main thread is in the middle of
  mq,           \* the main looper's queue of posted tasks
  thread,       \* the tunnel thread: the statement of runTunnel it is at
  isStopping,   \* m_isStopping
  cfg,          \* configurations being resolved: 0 for the start, then restarts
  subs,         \* relays the pipeline has subscribed to: none, net, net and route
  bus,          \* combineLatest: last value of each relay, queue of observeOn
  lastPair,     \* first distinctUntilChanged
  waiting,      \* switchMap's inner source is waiting for an activity
  emitted,      \* second distinctUntilChanged: the state last sent to clients
  homePages,    \* m_tunnelState.homePages is not empty
  tunFd,        \* VpnManager: the interface is open
  isRouting,    \* VpnManager: isRoutingThroughTunnel
  native,       \* VpnManager: mTun2SocksThread and how far it has come
  coreOn,       \* the tunnel core runs
  clients,      \* mClients
  dead,         \* clients whose process has died
  notification, \* the service notification shown
  serviceRunning, \* serviceRunningPreference
  commands, coreEvents   \* used up so far

lifeVars   == <<life, stopSelf, firstStart, latch, serviceRunning>>
threadVars == <<thread, isStopping>>
pipeVars   == <<lastPair, waiting, emitted>>
vpnVars    == <<tunFd, isRouting, native>>
clientVars == <<clients, dead>>
coreVars   == <<coreOn, homePages>>
counters   == <<commands, coreEvents>>
vars == <<lifeVars, mainPc, mq, threadVars, cfg, subs, bus, pipeVars,
          coreVars, vpnVars, clientVars, notification, counters>>

NetStates == {"CONNECTING", "CONNECTED", "WAITING_FOR_NETWORK"}
None == "none"
CoreTasks == {"onConnecting", "onConnected", "onHomepage",
              "onStartedWaiting", "onStoppedWaiting"}
Tasks == [op : CoreTasks \cup {"drain", "restartPsiphon", "destroy"}]
           \cup [op : {"notify"}, state : NetStates]
Task(o) == [op |-> o]
Notify(s) == [op |-> "notify", state |-> s]
RouteStates == {"routed", "direct"}   \* Boolean.TRUE, Boolean.FALSE
Pairs == NetStates \X RouteStates
Configs == 0 .. MaxRestarts
ConfigStages == {None, "pending", "delivering", "accept", "done"}
MainSteps == {"idle", "drain", "acceptInDrain", "acceptAlone", "join",
              "dispose", "hung"}

(* No thread; started, g_terminate not reset yet; inside run(); or "deaf": *)
(* inside run() after a terminate request that the reset has wiped out.    *)
NativeStates == {"off", "starting", "running", "deaf"}

ThreadSteps == {None, "begin", "acceptNet", "acceptRoute", "establish",
                "startTunneling", "await", "stopping", "stopNet", "stopRoute",
                "teardown", "stopCore", "stopService", "done"}

(* The variables keep their ranges: the queued tasks, the pairs of the     *)
(* pipeline, the steps of runTunnel and the stages of a configuration.     *)
TypeOK ==
  /\ life \in {"up", "dying", "destroyed"}
  /\ stopSelf \in BOOLEAN /\ firstStart \in BOOLEAN /\ serviceRunning \in BOOLEAN
  /\ isStopping \in BOOLEAN /\ waiting \in BOOLEAN /\ homePages \in BOOLEAN
  /\ tunFd \in BOOLEAN /\ isRouting \in BOOLEAN /\ coreOn \in BOOLEAN
  /\ native \in NativeStates
  /\ latch \in {"null", "armed", "down"}
  /\ mainPc \in MainSteps
  /\ mq \in Seq(Tasks)
  /\ thread \in ThreadSteps
  /\ cfg \in [Configs -> ConfigStages]
  /\ subs \in 0 .. 2
  /\ bus \in [net : NetStates \cup {None}, route : RouteStates \cup {None},
              rx : Seq(Pairs)]
  /\ lastPair \in Pairs \cup {<<>>}
  /\ emitted \in NetStates \cup {None}
  /\ clients \subseteq Clients /\ dead \subseteq Clients
  /\ notification \in NetStates \cup {None}
  /\ commands \in 0 .. MaxCommands /\ coreEvents \in 0 .. MaxCoreEvents

Init ==
  /\ life = "up"
  /\ stopSelf = FALSE
  /\ firstStart = TRUE
  /\ latch = "null"
  /\ serviceRunning = FALSE
  /\ mainPc = "idle"
  /\ mq = <<>>
  /\ thread = None
  /\ isStopping = FALSE
  /\ cfg = [k \in Configs |-> None]
  /\ subs = 0
  /\ bus = [net |-> None, route |-> None, rx |-> <<>>]
  /\ lastPair = <<>>
  /\ waiting = FALSE
  /\ emitted = None
  /\ homePages = FALSE
  /\ coreOn = FALSE
  /\ tunFd = FALSE /\ isRouting = FALSE /\ native = "off"
  /\ clients = {} /\ dead = {}
  /\ notification = "CONNECTING"
  /\ commands = 0 /\ coreEvents = 0

Forwarding == isRouting /\ tunFd

(* VpnManager, seen from its callers.  Its methods are synchronized.       *)
MonitorFree == native # "deaf"

(* routeThroughTunnel, called by the main thread, which goes on to next or *)
(* waits for the monitor: nothing when it routes already, no thread        *)
(* without an interface or when there is one.                              *)
RouteThroughTunnel(next) ==
  /\ isRouting' = (isRouting \/ MonitorFree)
  /\ native' = IF ~isRouting /\ tunFd /\ native = "off" THEN "starting"
               ELSE native
  /\ mainPc' = IF MonitorFree THEN next ELSE "hung"

(* stopRouteThroughTunnel returns: there was nothing to stop, or the       *)
(* thread was inside run() and its timer found the request.                *)
StopRouteThroughTunnel ==
  /\ MonitorFree
  /\ ~(isRouting /\ native = "starting")
  /\ isRouting' = FALSE
  /\ native' = IF isRouting THEN "off" ELSE native

(* stopRouteThroughTunnel asks a thread that has not reset g_terminate     *)
(* yet, and waits in join().  (Only an error of the device would end it.)  *)
StopRouteLosesRequest ==
  /\ isRouting
  /\ native = "starting"
  /\ isRouting' = FALSE
  /\ native' = "deaf"

(* The native thread resets g_terminate and enters run().                  *)
NativeRuns ==
  /\ native = "starting"
  /\ native' = "running"
  /\ UNCHANGED <<lifeVars, mainPc, mq, threadVars, cfg, subs, bus, pipeVars,
                 coreVars, tunFd, isRouting, clientVars, notification, counters>>

(* Mutant: State.networkConnectionState has no initial value.              *)
ReportedUninitialised == emitted

(* m_tunnelState.networkConnectionState                                    *)
Reported == IF emitted = None THEN "CONNECTING" ELSE emitted

-----------------------------------------------------------------------------
(* The relays and the pipeline: combineLatest, observeOn(main),            *)
(* distinctUntilChanged, switchMap, distinctUntilChanged, doOnNext.        *)

(* PublishRelay.accept: a value is lost when nobody has subscribed; a pair *)
(* is queued once both sources have a value.                               *)
AcceptNet(b, v) ==
  IF subs < 1 THEN b
  ELSE [b EXCEPT !.net = v,
                 !.rx = IF b.route = None THEN @ ELSE Append(@, <<v, b.route>>)]

AcceptRoute(b, v) ==
  IF subs < 2 THEN b
  ELSE [b EXCEPT !.route = v,
                 !.rx = IF b.net = None THEN @ ELSE Append(@, <<b.net, v>>)]

Draining == mainPc \in {"drain", "acceptInDrain"}

(* observeOn posts its drain task when its queue stops being empty, unless *)
(* the drain loop is running and will find the pair itself.                *)
Schedule(q, b) ==
  IF ~Draining /\ bus.rx = <<>> /\ b.rx # <<>>
  THEN Append(q, Task("drain")) ELSE q

Publish(b, q) == bus' = b /\ mq' = Schedule(q, b)

(* The io thread carries out subscribeOn: the two relays one after the     *)
(* other.                                                                  *)
IoSubscribe ==
  /\ life # "destroyed"
  /\ subs < 2
  /\ subs' = subs + 1
  /\ UNCHANGED <<lifeVars, mainPc, mq, threadVars, cfg, bus, pipeVars,
                 coreVars, vpnVars, clientVars, notification, counters>>

PingForActivity(cs) == (cs \cap Activities) \ dead # {}
CanSendIntentToActivity == OldAndroid \/ PingForActivity(clients)

(* The end of the pipeline: remember and send a state that is new; sending *)
(* drops the clients found dead.                                           *)
Emit(v) ==
  IF v = emitted
  THEN UNCHANGED <<emitted, clients, mq>>
  ELSE /\ emitted' = v
       /\ clients' = clients \ dead
       /\ mq' = IF isStopping THEN mq ELSE Append(mq, Notify(v))

NextPair == Head(bus.rx)
IsNewPair == bus.rx # <<>> /\ NextPair # lastPair
TakePair ==
  /\ mainPc = "drain"
  /\ bus' = [bus EXCEPT !.rx = Tail(@)]
  /\ UNCHANGED <<lifeVars, threadVars, cfg, subs, coreVars, tunFd, dead,
                 notification, counters>>

(* The same pair again: nothing passes distinctUntilChanged.               *)
DrainRepeated ==
  /\ bus.rx # <<>>
  /\ NextPair = lastPair
  /\ TakePair
  /\ UNCHANGED <<mainPc, mq, pipeVars, isRouting, native, clients>>

(* Mutant: the relay will be told, but routeThroughTunnel is not called.   *)
DrainRoutesNothing ==
  /\ IsNewPair
  /\ NextPair = <<"CONNECTED", "direct">>
  /\ ~homePages \/ CanSendIntentToActivity
  /\ TakePair
  /\ lastPair' = NextPair
  /\ waiting' = FALSE
  /\ mainPc' = "acceptInDrain"
  /\ UNCHANGED <<mq, emitted, clients, isRouting, native>>

(* Connected and not routing yet, with no landing page to show or an       *)
(* activity to show it: start routing; the relay is told in the next step. *)
(* While VpnManager's monitor is taken the main thread stays in the loop.  *)
DrainRoutes ==
  /\ IsNewPair
  /\ NextPair = <<"CONNECTED", "direct">>
  /\ ~homePages \/ CanSendIntentToActivity
  /\ TakePair
  /\ lastPair' = NextPair
  /\ waiting' = FALSE
  /\ MonitorFree
  /\ RouteThroughTunnel("acceptInDrain")
  /\ UNCHANGED <<mq, emitted, clients>>

(* Connected, a landing page and nobody to show it to: report CONNECTING   *)
(* and wait for an activity.                                               *)
DrainWaits ==
  /\ IsNewPair
  /\ NextPair = <<"CONNECTED", "direct">>
  /\ homePages
  /\ ~CanSendIntentToActivity
  /\ TakePair
  /\ lastPair' = NextPair
  /\ waiting' = TRUE
  /\ Emit("CONNECTING")
  /\ UNCHANGED <<mainPc, isRouting, native>>

(* Any other pair: switchMap drops the inner source, the state goes out.   *)
DrainEmits ==
  /\ IsNewPair
  /\ NextPair # <<"CONNECTED", "direct">>
  /\ TakePair
  /\ lastPair' = NextPair
  /\ waiting' = FALSE
  /\ Emit(NextPair[1])
  /\ UNCHANGED <<mainPc, isRouting, native>>

DrainEnds ==
  /\ mainPc = "drain"
  /\ bus.rx = <<>>
  /\ mainPc' = "idle"
  /\ UNCHANGED <<lifeVars, mq, threadVars, cfg, subs, bus, pipeVars, coreVars,
                 vpnVars, clientVars, notification, counters>>

(* Mutant: the relay is not told that routing has started.                 *)
AcceptRoutedForgotten ==
  /\ mainPc \in {"acceptInDrain", "acceptAlone"}
  /\ mainPc' = IF mainPc = "acceptInDrain" THEN "drain" ELSE "idle"
  /\ UNCHANGED <<lifeVars, mq, threadVars, cfg, subs, bus, pipeVars, coreVars,
                 vpnVars, clientVars, notification, counters>>

(* The main thread tells the relay that it has started routing.            *)
AcceptRouted ==
  /\ mainPc \in {"acceptInDrain", "acceptAlone"}
  /\ mainPc' = IF mainPc = "acceptInDrain" THEN "drain" ELSE "idle"
  /\ Publish(AcceptRoute(bus, "routed"), mq)
  /\ UNCHANGED <<lifeVars, threadVars, cfg, subs, pipeVars, coreVars, vpnVars,
                 clientVars, notification, counters>>

-----------------------------------------------------------------------------
(* Tasks of the main thread.                                               *)

Runs(o) ==
  /\ mainPc = "idle"
  /\ mq # <<>>
  /\ Head(mq).op = o

BeginDrain ==
  /\ Runs("drain")
  /\ mainPc' = "drain"
  /\ mq' = Tail(mq)
  /\ UNCHANGED <<lifeVars, threadVars, cfg, subs, bus, pipeVars, coreVars,
                 vpnVars, clientVars, notification, counters>>

ShowNotification ==
  /\ Runs("notify")
  /\ notification' = Head(mq).state
  /\ mq' = Tail(mq)
  /\ UNCHANGED <<lifeVars, mainPc, threadVars, cfg, subs, bus, pipeVars,
                 coreVars, vpnVars, clientVars, counters>>

(* onRestartTunnel's task: restartPsiphon stops the core and starts it     *)
(* again, which may fail.                                                  *)
RestartPsiphon ==
  /\ Runs("restartPsiphon")
  /\ coreOn' \in BOOLEAN
  /\ mq' = Tail(mq)
  /\ UNCHANGED <<lifeVars, mainPc, threadVars, cfg, subs, bus, pipeVars,
                 homePages, vpnVars, clientVars, notification, counters>>

(* onConnecting, onConnected, onStartedWaitingForNetworkConnectivity and   *)
(* onStoppedWaitingForNetworkConnectivity: a new network state.            *)
NetTask(o, v) ==
  /\ Runs(o)
  /\ Publish(AcceptNet(bus, v), Tail(mq))
  /\ homePages' = IF o = "onConnecting" THEN FALSE ELSE homePages
  /\ UNCHANGED <<lifeVars, mainPc, threadVars, cfg, subs, pipeVars, coreOn,
                 vpnVars, clientVars, notification, counters>>

OnConnecting == NetTask("onConnecting", "CONNECTING")
OnConnected == NetTask("onConnected", "CONNECTED")
OnStartedWaiting == NetTask("onStartedWaiting", "WAITING_FOR_NETWORK")
OnStoppedWaiting == NetTask("onStoppedWaiting", "CONNECTING")

OnHomepage ==
  /\ Runs("onHomepage")
  /\ homePages' = TRUE
  /\ mq' = Tail(mq)
  /\ UNCHANGED <<lifeVars, mainPc, threadVars, cfg, subs, bus, pipeVars,
                 coreOn, vpnVars, clientVars, notification, counters>>

(* The end of onDestroy: m_compositeDisposable.dispose() takes the         *)
(* pipeline down (a drain task still posted finds nothing to do) and drops *)
(* the configurations that have not been resolved; unregisterHostService   *)
(* needs the monitor.                                                      *)
Dispose ==
  /\ MonitorFree
  /\ life' = "destroyed"
  /\ subs' = 0
  /\ bus' = [net |-> None, route |-> None, rx |-> <<>>]
  /\ waiting' = FALSE
  /\ cfg' = [k \in Configs |-> IF cfg[k] = "pending" THEN "done" ELSE cfg[k]]

(* onDestroy finds no tunnel thread to wait for.                           *)
OnDestroy ==
  /\ Runs("destroy")
  /\ thread = None
  /\ notification' = None
  /\ mainPc' = "dispose"
  /\ mq' = Tail(mq)
  /\ UNCHANGED <<lifeVars, threadVars, cfg, subs, bus, pipeVars, coreVars,
                 vpnVars, clientVars, counters>>

DisposeWithoutThread ==
  /\ mainPc = "dispose"
  /\ mainPc' = "idle"
  /\ Dispose
  /\ UNCHANGED <<mq, stopSelf, firstStart, latch, serviceRunning, threadVars,
                 lastPair, emitted, coreVars, vpnVars, clientVars,
                 notification, counters>>

(* onDestroy: stopAndWaitForTunnel counts the latch down and joins.        *)
OnDestroyWaits ==
  /\ Runs("destroy")
  /\ thread # None
  /\ notification' = None
  /\ latch' = IF latch = "null" THEN "null" ELSE "down"
  /\ mainPc' = "join"
  /\ mq' = Tail(mq)
  /\ UNCHANGED <<life, stopSelf, firstStart, serviceRunning, threadVars, cfg,
                 subs, bus, pipeVars, coreVars, vpnVars, clientVars, counters>>

(* Mutant: onDestroy does not wait for the tunnel thread.                  *)
DestroyWithoutJoin ==
  /\ mainPc = "join"
  /\ mainPc' = "idle"
  /\ latch' = "null"
  /\ Dispose
  /\ UNCHANGED <<mq, stopSelf, firstStart, serviceRunning, threadVars, lastPair,
                 emitted, coreVars, vpnVars, clientVars, notification, counters>>

(* The tunnel thread has ended: the rest of onDestroy.                     *)
JoinTunnelThread ==
  /\ mainPc = "join"
  /\ thread = "done"
  /\ mainPc' = "idle"
  /\ latch' = "null"
  /\ Dispose
  /\ UNCHANGED <<mq, stopSelf, firstStart, serviceRunning, threadVars, lastPair,
                 emitted, coreVars, vpnVars, clientVars, notification, counters>>

-----------------------------------------------------------------------------
(* Commands from outside, handled by the main thread between tasks.        *)

(* The first onStartCommand; later ones return at once.                    *)
OnStartCommand ==
  /\ mainPc = "idle"
  /\ life # "destroyed"
  /\ firstStart
  /\ firstStart' = FALSE
  /\ latch' = "armed"
  /\ IF AsyncConfig
     THEN cfg' = [cfg EXCEPT ![0] = "pending"] /\ UNCHANGED thread
     ELSE thread' = "begin" /\ UNCHANGED cfg
  /\ serviceRunning' = TRUE
  /\ UNCHANGED <<life, stopSelf, mainPc, mq, isStopping, subs, bus, pipeVars,
                 coreVars, vpnVars, clientVars, notification, counters>>

Command ==
  /\ mainPc = "idle"
  /\ commands < MaxCommands
  /\ commands' = commands + 1
  /\ UNCHANGED coreEvents

(* signalStopService                                                       *)
SignalStopService ==
  /\ latch' = IF latch = "null" THEN "null" ELSE "down"
  /\ serviceRunning' = FALSE

(* onStartCommand with INTENT_ACTION_STOP_TUNNEL.                          *)
OnStopIntent ==
  /\ Command
  /\ life # "destroyed"
  /\ IF latch = "armed"
     THEN SignalStopService /\ UNCHANGED stopSelf
     ELSE stopSelf' = TRUE /\ UNCHANGED <<latch, serviceRunning>>
  /\ UNCHANGED <<life, firstStart, mainPc, mq, threadVars, cfg, subs, bus,
                 pipeVars, coreVars, vpnVars, clientVars, notification>>

(* REGISTER.  A registered activity ends the wait: start routing, the      *)
(* relay is told in the next step, unless VpnManager's monitor is taken.   *)
Register(c) ==
  /\ Command
  /\ c \notin dead
  /\ clients' = clients \cup {c}
  /\ IF waiting /\ PingForActivity(clients')
     THEN waiting' = ~MonitorFree /\ RouteThroughTunnel("acceptAlone")
     ELSE UNCHANGED <<waiting, isRouting, native, mainPc>>
  /\ UNCHANGED <<lifeVars, mq, threadVars, cfg, subs, bus, lastPair, emitted,
                 coreVars, tunFd, dead, notification>>

Unregister(c) ==
  /\ Command
  /\ clients' = clients \ {c}
  /\ UNCHANGED <<lifeVars, mainPc, mq, threadVars, cfg, subs, bus, pipeVars,
                 coreVars, vpnVars, dead, notification>>

StopService(c) ==
  /\ Command
  /\ c \in clients
  /\ clients' = {}
  /\ SignalStopService
  /\ UNCHANGED <<life, stopSelf, firstStart, mainPc, mq, threadVars, cfg, subs,
                 bus, pipeVars, coreVars, vpnVars, dead, notification>>

(* Mutant: a restart stops routing and does not tell the relay.            *)
RestartWithoutRelay(c) ==
  /\ Command
  /\ c \in clients
  /\ \E k \in Configs \ {0} :
       /\ cfg[k] = None
       /\ \A j \in 1 .. k - 1 : cfg[j] # None
       /\ cfg' = [cfg EXCEPT ![k] = "done"]
  /\ StopRouteThroughTunnel
  /\ bus' = AcceptNet(bus, "CONNECTING")
  /\ mq' = Append(Schedule(mq, bus'), Task("restartPsiphon"))
  /\ UNCHANGED <<lifeVars, mainPc, threadVars, subs, pipeVars, coreVars, tunFd,
                 clientVars, notification>>

(* RESTART_TUNNEL.  Without a location to wait for, the whole restart      *)
(* happens in the handler, which may wait in VpnManager for ever; a        *)
(* configuration asked for after dispose() is dropped.                     *)
RestartTunnel(c) ==
  /\ Command
  /\ c \in clients
  /\ \E k \in Configs \ {0} :
       /\ cfg[k] = None
       /\ \A j \in 1 .. k - 1 : cfg[j] # None
       /\ LET b == AcceptNet(bus, "CONNECTING") IN
          IF AsyncConfig
          THEN /\ Publish(b, mq)
               /\ cfg' = [cfg EXCEPT ![k] =
                            IF life = "destroyed" THEN "done" ELSE "pending"]
               /\ UNCHANGED <<isRouting, native, mainPc>>
          ELSE /\ cfg' = [cfg EXCEPT ![k] = "done"]
               /\ \/ /\ StopRouteThroughTunnel
                     /\ bus' = AcceptRoute(b, "direct")
                     /\ mq' = Append(Schedule(mq, bus'), Task("restartPsiphon"))
                     /\ UNCHANGED mainPc
                  \/ /\ \/ StopRouteLosesRequest
                        \/ ~MonitorFree /\ UNCHANGED <<isRouting, native>>
                     /\ Publish(b, mq)
                     /\ mainPc' = "hung"
  /\ UNCHANGED <<lifeVars, threadVars, subs, pipeVars, coreVars, tunFd,
                 clientVars, notification>>

(* CHANGED_LOCALE: the notification is posted again.                       *)
ChangedLocale(c) ==
  /\ Command
  /\ c \in clients
  /\ mq' = Append(mq, Notify(Reported))
  /\ UNCHANGED <<lifeVars, mainPc, threadVars, cfg, subs, bus, pipeVars,
                 coreVars, vpnVars, clientVars, notification>>

(* The process of a client dies; the manager finds out when it sends.      *)
ClientDies(c) ==
  /\ c \notin dead
  /\ dead' = dead \cup {c}
  /\ commands < MaxCommands
  /\ commands' = commands + 1
  /\ UNCHANGED <<lifeVars, mainPc, mq, threadVars, cfg, subs, bus, pipeVars,
                 coreVars, vpnVars, clients, notification, coreEvents>>

-----------------------------------------------------------------------------
(* A configuration that waited for the device location is delivered on     *)
(* another thread; dispose() does not stop one that is being delivered.    *)

ConfigStep(k, from, to) ==
  /\ cfg[k] = from
  /\ cfg' = [cfg EXCEPT ![k] = to]
  /\ UNCHANGED <<lifeVars, mainPc, isStopping, subs, pipeVars, coreVars, tunFd,
                 clientVars, notification, counters>>

ConfigResolves(k) ==
  /\ ConfigStep(k, "pending", "delivering")
  /\ UNCHANGED <<mq, thread, bus, isRouting, native>>

(* doOnSuccess of onStartCommand.                                          *)
ConfigStartsThread ==
  /\ ConfigStep(0, "delivering", "done")
  /\ thread' = "begin"
  /\ UNCHANGED <<mq, bus, isRouting, native>>

(* doOnSuccess of RESTART_TUNNEL: stop routing, then tell the relay and    *)
(* post the restart of the core.                                           *)
ConfigStopsRouting(k) ==
  /\ k # 0
  /\ ConfigStep(k, "delivering", "accept")
  /\ StopRouteThroughTunnel
  /\ UNCHANGED <<mq, thread, bus>>

(* The same, and the request is lost: the configuration stays here.        *)
ConfigStopHangs(k) ==
  /\ k # 0
  /\ ConfigStep(k, "delivering", "delivering")
  /\ StopRouteLosesRequest
  /\ UNCHANGED <<mq, thread, bus>>

ConfigRestarts(k) ==
  /\ ConfigStep(k, "accept", "done")
  /\ bus' = AcceptRoute(bus, "direct")
  /\ mq' = Append(Schedule(mq, bus'), Task("restartPsiphon"))
  /\ UNCHANGED <<thread, isRouting, native>>

-----------------------------------------------------------------------------
(* The tunnel thread: runTunnel.                                           *)

ThreadStep(from, to) ==
  /\ thread = from
  /\ thread' = to
  /\ UNCHANGED <<life, firstStart, latch, serviceRunning, mainPc, cfg, subs,
                 pipeVars, clientVars, notification, counters>>

(* setLocale posts the notification again; m_isStopping is reset.          *)
RunTunnel ==
  /\ ThreadStep("begin", "acceptNet")
  /\ LateSubscribe \/ subs = 2 \/ life = "destroyed"
  /\ isStopping' = FALSE
  /\ mq' = Append(mq, Notify(Reported))
  /\ UNCHANGED <<stopSelf, bus, coreVars, vpnVars>>

RunTunnelConnecting ==
  /\ ThreadStep("acceptNet", "acceptRoute")
  /\ Publish(AcceptNet(bus, "CONNECTING"), mq)
  /\ UNCHANGED <<stopSelf, isStopping, coreVars, vpnVars>>

RunTunnelNotRouting ==
  /\ ThreadStep("acceptRoute", "establish")
  /\ Publish(AcceptRoute(bus, "direct"), mq)
  /\ homePages' = FALSE
  /\ UNCHANGED <<stopSelf, isStopping, coreOn, vpnVars>>

(* vpnEstablish succeeds while this service is the registered host.        *)
RunTunnelEstablishes ==
  /\ ThreadStep("establish", "startTunneling")
  /\ MonitorFree
  /\ life # "destroyed"
  /\ tunFd' = TRUE
  /\ isRouting' = FALSE
  /\ UNCHANGED <<stopSelf, isStopping, mq, bus, coreVars, native>>

RunTunnelStartsCore ==
  /\ ThreadStep("startTunneling", "await")
  /\ coreOn' = TRUE
  /\ UNCHANGED <<stopSelf, isStopping, mq, bus, homePages, vpnVars>>

(* vpnEstablish or startTunneling throws.                                  *)
RunTunnelFails ==
  /\ \/ ThreadStep("establish", "stopping") /\ MonitorFree
     \/ ThreadStep("startTunneling", "stopping")
  /\ UNCHANGED <<stopSelf, isStopping, mq, bus, coreVars, vpnVars>>

RunTunnelSignalled ==
  /\ ThreadStep("await", "stopping")
  /\ latch = "down"
  /\ UNCHANGED <<stopSelf, isStopping, mq, bus, coreVars, vpnVars>>

StopMarks ==
  /\ ThreadStep("stopping", "stopNet")
  /\ isStopping' = TRUE
  /\ UNCHANGED <<stopSelf, mq, bus, coreVars, vpnVars>>

StopConnecting ==
  /\ ThreadStep("stopNet", "stopRoute")
  /\ Publish(AcceptNet(bus, "CONNECTING"), mq)
  /\ UNCHANGED <<stopSelf, isStopping, coreVars, vpnVars>>

StopNotRouting ==
  /\ ThreadStep("stopRoute", "teardown")
  /\ Publish(AcceptRoute(bus, "direct"), mq)
  /\ UNCHANGED <<stopSelf, isStopping, coreVars, vpnVars>>

(* vpnTeardown returns.                                                    *)
StopVpn ==
  /\ ThreadStep("teardown", "stopCore")
  /\ tunFd' = FALSE
  /\ StopRouteThroughTunnel
  /\ UNCHANGED <<stopSelf, isStopping, mq, bus, coreVars>>

(* vpnTeardown stops a tun2socks that has just been started: the request   *)
(* is lost, and runTunnel stays here.                                      *)
StopVpnHangs ==
  /\ ThreadStep("teardown", "teardown")
  /\ StopRouteLosesRequest
  /\ UNCHANGED <<stopSelf, isStopping, mq, bus, coreVars, tunFd>>

StopCore ==
  /\ ThreadStep("stopCore", "stopService")
  /\ coreOn' = FALSE
  /\ UNCHANGED <<stopSelf, isStopping, mq, bus, homePages, vpnVars>>

(* Mutant: runTunnel ends without stopSelf().                              *)
StopWithoutStopSelf ==
  /\ ThreadStep("stopService", "done")
  /\ UNCHANGED <<stopSelf, isStopping, mq, bus, coreVars, vpnVars>>

StopParentService ==
  /\ ThreadStep("stopService", "done")
  /\ stopSelf' = TRUE
  /\ UNCHANGED <<isStopping, mq, bus, coreVars, vpnVars>>

-----------------------------------------------------------------------------
(* The environment: the tunnel core and the activity manager.              *)

(* The core posts a callback to the main thread while it runs.             *)
CorePosts(o) ==
  /\ coreOn
  /\ coreEvents < MaxCoreEvents
  /\ coreEvents' = coreEvents + 1
  /\ mq' = Append(mq, Task(o))
  /\ UNCHANGED <<lifeVars, mainPc, threadVars, cfg, subs, bus, pipeVars,
                 coreVars, vpnVars, clientVars, notification, commands>>

(* After stopSelf() the activity manager destroys the service, but the     *)
(* system stays bound to a VpnService whose interface is open.             *)
BringDown ==
  /\ life = "up"
  /\ stopSelf
  /\ ~tunFd
  /\ life' = "dying"
  /\ mq' = Append(mq, Task("destroy"))
  /\ UNCHANGED <<stopSelf, firstStart, latch, serviceRunning, mainPc,
                 threadVars, cfg, subs, bus, pipeVars, coreVars, vpnVars,
                 clientVars, notification, counters>>

-----------------------------------------------------------------------------
PipelineNext ==
  \/ DrainRepeated \/ DrainRoutes \/ DrainWaits \/ DrainEmits \/ DrainEnds
  \/ AcceptRouted

TaskNext ==
  \/ BeginDrain \/ ShowNotification \/ RestartPsiphon
  \/ OnConnecting \/ OnConnected \/ OnStartedWaiting \/ OnStoppedWaiting
  \/ OnHomepage
  \/ OnDestroy \/ DisposeWithoutThread \/ OnDestroyWaits \/ JoinTunnelThread

(* A client that asks for a restart has seen the tunnel: unless            *)
(* EarlyRestart, runTunnel has come to the end of its start.               *)
Started == thread \notin {None, "begin", "acceptNet", "acceptRoute",
                          "establish", "startTunneling"}

CommandNext ==
  \/ OnStartCommand
  \/ OnStopIntent
  \/ \E c \in Clients :
       \/ Register(c) \/ Unregister(c) \/ StopService(c)
       \/ (EarlyRestart \/ Started) /\ RestartTunnel(c)
       \/ ChangedLocale(c) \/ ClientDies(c)

ConfigNext ==
  \/ ConfigStartsThread
  \/ \E k \in Configs :
       \/ ConfigResolves(k) \/ ConfigStopsRouting(k) \/ ConfigStopHangs(k)
       \/ ConfigRestarts(k)

ThreadNext ==
  \/ RunTunnel \/ RunTunnelConnecting \/ RunTunnelNotRouting
  \/ RunTunnelEstablishes \/ RunTunnelStartsCore \/ RunTunnelFails
  \/ RunTunnelSignalled
  \/ StopMarks \/ StopConnecting \/ StopNotRouting \/ StopVpn
  \/ StopVpnHangs \/ StopCore \/ StopParentService

Next ==
  \/ IoSubscribe \/ PipelineNext \/ TaskNext \/ CommandNext \/ ConfigNext
  \/ ThreadNext \/ NativeRuns \/ BringDown
  \/ \E o \in CoreTasks : CorePosts(o)

Spec == Init /\ [][Next]_vars

(* Every thread that can run is scheduled, the location request times out, *)
(* and the activity manager carries out stopSelf(); commands, core events  *)
(* and deaths of clients need not happen.  A call of VpnManager that has   *)
(* to wait for a lost terminate request is not enabled, so nothing here    *)
(* makes it return.                                                        *)
Fairness ==
  /\ WF_vars(IoSubscribe)
  /\ WF_vars(PipelineNext \/ TaskNext)
  /\ WF_vars(ThreadNext)
  /\ WF_vars(ConfigNext)
  /\ WF_vars(NativeRuns)
  /\ WF_vars(BringDown)

FairSpec == Spec /\ Fairness

-----------------------------------------------------------------------------
(* Properties.                                                             *)

(* Nothing is on its way through the pipeline, and no restart is half done *)
(* on another thread.                                                      *)
Settled ==
  /\ mainPc = "idle"
  /\ bus.rx = <<>>
  /\ \A k \in Configs : cfg[k] # "accept"

PairKnown == bus.net # None /\ bus.route # None

(* runTunnel has started the core and nothing has ended the session yet.   *)
SessionUp == thread = "await"

(* What clients were told last is the current pair's meaning: once the     *)
(* queue of observeOn is empty, the state reported is the network state,   *)
(* and CONNECTING while the manager waits for an activity before it routes.*)
(* No value is lost between the relays and the clients, whatever the       *)
(* order in which the threads call accept().                               *)
ReportIsCurrent ==
  Settled /\ PairKnown =>
    /\ Reported = IF waiting THEN "CONNECTING" ELSE bus.net
    /\ waiting <=> <<bus.net, bus.route>> = <<"CONNECTED", "direct">>

(* Clients are told CONNECTED only when traffic goes through the tunnel.   *)
ConnectedMeansForwarding ==
  Settled /\ SessionUp /\ Reported = "CONNECTED" /\ PairKnown => Forwarding

(* The Boolean of the pair says whether VpnManager routes (the comment on  *)
(* connectionObservable).                                                  *)
RelayMirrorsRouting ==
  Settled /\ SessionUp /\ PairKnown => (bus.route = "routed" <=> isRouting)

(* After onDestroy nothing of the session is left: the tunnel thread has   *)
(* ended, the interface is closed, nothing waits for an activity and the   *)
(* pipeline is down (stopAndWaitForTunnel, then dispose()).                *)
DestroyedIsQuiescent ==
  life = "destroyed" =>
    /\ thread \in {None, "done"}
    /\ ~tunFd
    /\ ~waiting /\ subs = 0

(* A thread waits in VpnManager.stopTun2Socks for a native thread that     *)
(* will never look at g_terminate again (see VpnManager!StopReturns).      *)
TerminateLost == native = "deaf"

(* A stop that has been commanded ends in onDestroy, whether the tunnel    *)
(* thread has been started yet or not, and whatever restarts and routing   *)
(* steps it meets, unless a terminate request of VpnManager is lost: then  *)
(* vpnTeardown never returns and onDestroy waits for it.                   *)
StopEndsInDestroy ==
  (latch = "down") ~> (life = "destroyed" \/ TerminateLost)

(* Once the pipeline has a value of each relay, a connected network state  *)
(* ends in traffic being forwarded, in waiting for an activity, or is      *)
(* overtaken by another state or a stop.  (A first value that runTunnel    *)
(* publishes before the io thread has subscribed is dropped, and then the  *)
(* pipeline has no pair until the next one.)                               *)
ConnectedIsActedOn ==
  (PairKnown /\ bus.net = "CONNECTED")
    ~> (Forwarding \/ waiting \/ bus.net # "CONNECTED" \/ isStopping)

IsNotify(t) == t.op = "notify"
NotifyTasks(q) == Len(SelectSeq(q, IsNotify))

(* "Don't update notification to CONNECTING, etc., when a stop was         *)
(* commanded": once the latch is down, a state that reaches the end of the *)
(* pipeline posts no notification.  This does not hold: the test is on     *)
(* m_isStopping, which runTunnel sets only once it has woken up.           *)
NoNotificationAfterStop ==
  [][latch = "down" /\ emitted' # emitted
       => NotifyTasks(mq') <= NotifyTasks(mq)]_vars

(* Once runTunnel has stopped the core, the core stays stopped while the   *)
(* service is on its way to onDestroy.  This does not hold: a restart that *)
(* was posted before runs after it.                                        *)
StoppedCoreStaysStopped ==
  thread \in {"stopService", "done"} /\ life # "destroyed" => ~coreOn
=============================================================================
