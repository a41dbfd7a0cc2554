------------------------ MODULE TunnelServiceInteractor ------------------------
(***************************************************************************)
(* TunnelServiceInteractor.java: how the activities and workers of the app *)
(* process follow and command the tunnel service, which runs in a process  *)
(* of its own.  Every interactor lives on the main looper of the app; it   *)
(* binds to the service, registers its messenger, and mirrors what the     *)
(* service reports in tunnelStateRelay.                                    *)
(*                                                                         *)
(* Each call of bindTunnelService makes a new Rx2ServiceBindingFactory;    *)
(* factories[c] keeps them all, because an old one stays subscribed (and   *)
(* bound) when a new one replaces it in the field serviceBindingFactory.   *)
(* The service side is the message handler of TunnelManager.java with the  *)
(* life of the service around it.                                          *)
(***************************************************************************)
EXTENDS Naturals, Sequences, FiniteSets

SeqExt == INSTANCE SequencesExt

CONSTANTS
  Clients,     \* the interactors of the app process
  Pausable,    \* the ones an activity owns: they get onStop (a worker does not)
  MaxBinds,    \* bound: calls of bindTunnelService per interactor
  MaxInbox,    \* bound: messages waiting in a queue when one more is sent
  Faults       \* the untimely events of the environment that may happen

(* redelivery: the system restarts a crashed service by itself
   (START_REDELIVER_INTENT); early_end: the service ends while a client is
   still binding to it; early_pause: onStop comes before the binding has
   connected; pause_in_restart: onStop comes while a restart is awaited;
   stale_result: a settings result is handled before onStart. *)
FaultKinds == {"redelivery", "early_end", "early_pause", "pause_in_restart", "stale_result"}

ASSUME ClientsAssumption ==
  /\ Pausable \subseteq Clients
  /\ MaxBinds \in Nat \ {0} /\ MaxInbox \in Nat \ {0}
  /\ Faults \subseteq FaultKinds

VARIABLES
  svc,         \* the service: down, running, commanded to stop by a client, or stopping
  crashed,     \* whether the service that is down was killed rather than stopped
  net,         \* the connection state the service reports
  mClients,    \* the clients the service knows
  toService,   \* messages on their way to the service
  inbox,       \* per client: what its looper has still to run
  relay,       \* per client: the value of tunnelStateRelay
  started,     \* per client: ~isStopped
  factories,   \* per client: the bindings made so far, the last one current
  known        \* per client: whether IncomingMessageHandler.state is set

service == <<svc, crashed, net, mClients>>
vars == <<svc, crashed, net, mClients, toService, inbox, relay, started, factories, known>>

Nets == {"connecting", "connected"}
Running(v) == v \in Nets

(* messenger: none until onServiceConnected, live while it reaches the
   service, dead once that service is gone.  waiting: the messages that wait
   for the first messenger.  restart: a restart awaits the completion. *)
Factory == [conn : {"bound", "unbound", "completed"}, messenger : {"none", "live", "dead"},
            waiting : Seq({"register", "unregister", "stop"}), restart : BOOLEAN]

Messages == [what : {"state"}, net : Nets] \cup [what : {"stats", "starting"}]
            \cup [what : {"disconnected"}, factory : Nat \ {0}]

TypeOK ==
  /\ svc \in {"down", "running", "commanded", "stopping"}
  /\ crashed \in BOOLEAN
  /\ net \in Nets
  /\ mClients \subseteq Clients
  /\ toService \in Seq([from : Clients, what : {"register", "unregister", "stop"}])
  /\ inbox \in [Clients -> Seq(Messages)]
  /\ relay \in [Clients -> Nets \cup {"unknown", "stopped"}]
  /\ started \in [Clients -> BOOLEAN]
  /\ factories \in [Clients -> Seq(Factory)]
  /\ known \in [Clients -> BOOLEAN]

(* The constructor, for every interactor. *)
Init ==
  /\ svc = "down" /\ crashed = FALSE /\ net = "connecting" /\ mClients = {}
  /\ toService = <<>>
  /\ inbox = [c \in Clients |-> <<>>]
  /\ relay = [c \in Clients |-> "unknown"]
  /\ started = [c \in Clients |-> FALSE]
  /\ factories = [c \in Clients |-> <<>>]
  /\ known = [c \in Clients |-> FALSE]

-----------------------------------------------------------------------------
(* Bindings *)

Last(c) == Len(factories[c])
HasFactory(c) == factories[c] # <<>>
Current(c) == factories[c][Last(c)]

(* restartServiceDisposable is set and not disposed. *)
Restarting(c) == \E i \in DOMAIN factories[c] : factories[c][i].restart

(* A client is on its way to the service: the start was broadcast to it and it
   has not bound yet, or it has bound and has no messenger. *)
Binding(c) ==
  \/ \E i \in DOMAIN inbox[c] : inbox[c][i].what = "starting"
  \/ \E i \in DOMAIN factories[c] :
        factories[c][i].conn = "bound" /\ factories[c][i].messenger = "none"

(* Room for one more binding, counting the ones that the broadcasts not handled
   yet and the restarts still awaited will make. *)
MayBind(c) ==
  Last(c) + Cardinality({i \in DOMAIN inbox[c] : inbox[c][i].what = "starting"})
          + Cardinality({d \in Clients : Restarting(d)}) < MaxBinds

MaySend(c) ==
  /\ Len(toService) < MaxInbox
  /\ HasFactory(c) => Len(Current(c).waiting) <= MaxInbox

BindForgetsRegister(c) ==   \* Mutant: the new binding does not register
  factories' = [factories EXCEPT ![c] = Append(@,
    [conn |-> "bound", messenger |-> "none", waiting |-> <<>>, restart |-> FALSE])]

(* bindTunnelService: a new factory becomes current, its REGISTER waits for
   the messenger; the factory it replaces is neither disposed nor unbound. *)
BindTunnelService(c) ==
  factories' = [factories EXCEPT ![c] = Append(@,
    [conn |-> "bound", messenger |-> "none", waiting |-> <<"register">>, restart |-> FALSE])]

(* What Message.send does once there is a messenger: a dead one throws, and
   the exception is only logged. *)
Sent(c, whats, messenger) ==
  IF messenger = "live"
  THEN toService \o [i \in 1..Len(whats) |-> [from |-> c, what |-> whats[i]]]
  ELSE toService

SendLosesWaiting(c, what, f) ==   \* Mutant: what is sent before the messenger is there is lost
  LET cur == Current(c) IN
  IF ~HasFactory(c) \/ cur.messenger = "none" \/ cur.conn = "completed"
  THEN /\ factories' = IF HasFactory(c) THEN [factories EXCEPT ![c][Last(c)].restart = f.restart]
                                        ELSE factories
       /\ UNCHANGED toService
  ELSE /\ toService' = Sent(c, <<what>>, cur.messenger)
       /\ factories' = [factories EXCEPT ![c][Last(c)] = f]

(* sendServiceMessageCompletable, with the change f of the current factory
   that follows in the same step. *)
SendServiceMessage(c, what, f) ==
  LET cur == Current(c) IN
  IF ~HasFactory(c) \/ cur.conn = "completed"
  THEN UNCHANGED <<toService, factories>>                \* disposed: nothing is sent
  ELSE IF cur.messenger = "none"
  THEN /\ factories' = [factories EXCEPT ![c][Last(c)] =
                          [cur EXCEPT !.waiting = Append(@, what), !.restart = f.restart]]
       /\ UNCHANGED toService
  ELSE /\ toService' = Sent(c, <<what>>, cur.messenger)
       /\ factories' = [factories EXCEPT ![c][Last(c)] = f]

-----------------------------------------------------------------------------
(* The app process *)

(* onStart: bind if the system lists the service as running.  It comes through
   the looper too, after what was posted before it. *)
OnStart(c) ==
  /\ ~started[c] /\ MayBind(c) /\ inbox[c] = <<>>
  /\ started' = [started EXCEPT ![c] = TRUE]
  /\ IF svc # "down"
     THEN BindTunnelService(c) /\ UNCHANGED relay
     ELSE relay' = [relay EXCEPT ![c] = "stopped"] /\ UNCHANGED factories
  /\ UNCHANGED <<service, toService, inbox, known>>

(* onStop: UNREGISTER, then unbind the current factory.  While there is no
   messenger both wait for it. *)
OnStop(c) ==
  /\ started[c] /\ c \in Pausable
  /\ Binding(c) => "early_pause" \in Faults
  /\ Restarting(c) => "pause_in_restart" \in Faults
  /\ MaySend(c)
  /\ started' = [started EXCEPT ![c] = FALSE]
  /\ relay' = [relay EXCEPT ![c] = "unknown"]
  /\ SendServiceMessage(c, "unregister",
                        IF HasFactory(c) THEN [Current(c) EXCEPT !.conn = "unbound"] ELSE <<>>)
  /\ UNCHANGED <<service, inbox, known>>

(* startTunnelService, with the relay as its caller left it: start the service
   and tell every interactor; queue is what the looper of the caller had left.
   A service that is there already, stopping or not, takes the start command
   without effect. *)
StartTunnelService(c, queue) ==
  /\ relay' = [relay EXCEPT ![c] = "unknown"]
  /\ inbox' = [d \in Clients |-> Append(queue[d], [what |-> "starting"])]
  /\ IF svc = "down"
     THEN svc' = "running" /\ net' = "connecting" /\ crashed' = FALSE /\ UNCHANGED mClients
     ELSE UNCHANGED service

(* startTunnelService, the system refusing the start. *)
StartTunnelServiceFails(c, queue) ==
  /\ relay' = [relay EXCEPT ![c] = "stopped"]
  /\ inbox' = queue
  /\ UNCHANGED service

(* The user starts the tunnel: the button while the relay says stopped, or the
   answer to the VPN permission dialog before onStart. *)
UserStarts(c) ==
  /\ c \in Pausable
  /\ ~started[c] \/ relay[c] = "stopped"
  /\ \A d \in Clients : MayBind(d)
  /\ StartTunnelService(c, inbox) \/ StartTunnelServiceFails(c, inbox)
  /\ UNCHANGED <<toService, started, factories, known>>

(* stopTunnelService, from the button: only while the relay says running. *)
UserStops(c) ==
  /\ c \in Pausable /\ started[c] /\ Running(relay[c]) /\ MaySend(c)
  /\ relay' = [relay EXCEPT ![c] = "unknown"]
  /\ SendServiceMessage(c, "stop", Current(c))
  /\ UNCHANGED <<service, inbox, started, known>>

(* scheduleVpnServiceRestart, from the result of the settings screen once the
   relay says running: wait for the disconnection, and command a stop. *)
ScheduleVpnServiceRestart(c) ==
  /\ c \in Pausable /\ Running(relay[c]) /\ MaySend(c)
  /\ started[c] \/ "stale_result" \in Faults
  /\ svc # "down" /\ ~Restarting(c)
  /\ \A d \in Clients : MayBind(d)
  /\ HasFactory(c) /\ Current(c).conn # "completed"
  /\ relay' = [relay EXCEPT ![c] = "unknown"]
  /\ SendServiceMessage(c, "stop", [Current(c) EXCEPT !.restart = TRUE])
  /\ UNCHANGED <<service, inbox, started, known>>

(* onServiceConnected of the i-th binding: the messages that waited go out in
   order; the unbind that follows an UNREGISTER reads the field, so it takes
   the binding that is current now. *)
OnServiceConnected(c, i) ==
  LET f == factories[c][i]
      sent == [f EXCEPT !.messenger = "live", !.waiting = <<>>]
      all == [factories[c] EXCEPT ![i] = sent]
  IN
  /\ svc # "down" /\ f.conn = "bound" /\ f.messenger = "none"
  /\ toService' = Sent(c, f.waiting, "live")
  /\ factories' = [factories EXCEPT ![c] =
       IF (\E k \in DOMAIN f.waiting : f.waiting[k] = "unregister") /\ all[Last(c)].conn = "bound"
       THEN [all EXCEPT ![Last(c)].conn = "unbound"]
       ELSE all]
  /\ UNCHANGED <<service, inbox, relay, started, known>>

(* The looper runs the next thing of c's. *)
NextIs(c, what) == inbox[c] # <<>> /\ Head(inbox[c]).what = what
Rest(c) == [inbox EXCEPT ![c] = Tail(@)]

(* The receiver of SERVICE_STARTING_BROADCAST_INTENT. *)
OnStartingBroadcast(c) ==
  /\ NextIs(c, "starting")
  /\ IF started[c] THEN BindTunnelService(c) ELSE UNCHANGED factories
  /\ inbox' = Rest(c)
  /\ UNCHANGED <<service, toService, relay, started, known>>

(* handleMessage, TUNNEL_CONNECTION_STATE: accepted whether started or not. *)
OnState(c) ==
  /\ NextIs(c, "state")
  /\ relay' = [relay EXCEPT ![c] = Head(inbox[c]).net]
  /\ known' = [known EXCEPT ![c] = TRUE]
  /\ inbox' = Rest(c)
  /\ UNCHANGED <<service, toService, started, factories>>

(* handleMessage, DATA_TRANSFER_STATS: reads state.isConnected(). *)
OnStats(c) ==
  /\ NextIs(c, "stats")
  /\ inbox' = Rest(c)
  /\ UNCHANGED <<service, toService, relay, started, factories, known>>

(* onServiceDisconnected of a binding that is still bound completes it: the
   relay says stopped, then a restart that awaited this starts the service. *)
OnServiceDisconnected(c) ==
  LET i == Head(inbox[c]).factory
      f == factories[c][i]
  IN
  /\ NextIs(c, "disconnected")
  /\ IF f.conn # "bound"
     THEN inbox' = Rest(c) /\ UNCHANGED <<service, relay, factories>>
     ELSE /\ factories' = [factories EXCEPT ![c][i] = [f EXCEPT !.conn = "completed", !.restart = FALSE]]
          /\ IF f.restart
             THEN StartTunnelService(c, Rest(c)) \/ StartTunnelServiceFails(c, Rest(c))
             ELSE /\ relay' = [relay EXCEPT ![c] = "stopped"]
                  /\ inbox' = Rest(c)
                  /\ UNCHANGED service
  /\ UNCHANGED <<toService, started, known>>

-----------------------------------------------------------------------------
(* The service process *)

(* sendClientMessage *)
SendToClients(m) ==
  /\ \A c \in mClients : Len(inbox[c]) < MaxInbox
  /\ inbox' = [c \in Clients |-> IF c \in mClients THEN Append(inbox[c], m) ELSE inbox[c]]

ReplySwapped == <<[what |-> "stats"], [what |-> "state", net |-> net]>>   \* Mutant: statistics first

(* The two messages that answer REGISTER, in the order they are sent. *)
RegisterReply == <<[what |-> "state", net |-> net], [what |-> "stats"]>>

NextForService(what) == toService # <<>> /\ Head(toService).what = what

RegisterNotKept ==   \* Mutant: the client is answered but not put into mClients
  /\ NextForService("register")
  /\ inbox' = [inbox EXCEPT ![Head(toService).from] = @ \o RegisterReply]
  /\ toService' = Tail(toService)
  /\ UNCHANGED <<service, relay, started, factories, known>>

(* handleMessage, REGISTER *)
ServiceRegister ==
  /\ NextForService("register")
  /\ LET c == Head(toService).from IN
       /\ inbox' = [inbox EXCEPT ![c] = @ \o RegisterReply]
       /\ mClients' = mClients \cup {c}
  /\ toService' = Tail(toService)
  /\ UNCHANGED <<svc, crashed, net, relay, started, factories, known>>

(* handleMessage, UNREGISTER *)
ServiceUnregister ==
  /\ NextForService("unregister")
  /\ mClients' = mClients \ {Head(toService).from}
  /\ toService' = Tail(toService)
  /\ UNCHANGED <<svc, crashed, net, inbox, relay, started, factories, known>>

(* handleMessage, STOP_SERVICE: ignored unless the sender is registered. *)
ServiceStop ==
  /\ NextForService("stop")
  /\ IF Head(toService).from \in mClients
     THEN mClients' = {} /\ svc' = IF svc = "running" THEN "commanded" ELSE svc
     ELSE UNCHANGED <<mClients, svc>>
  /\ toService' = Tail(toService)
  /\ UNCHANGED <<crashed, net, inbox, relay, started, factories, known>>

(* The connection state changes; once the stop is signalled the tunnel thread
   reports connecting and nothing else. *)
ServiceReports ==
  /\ svc # "down"
  /\ net' \in Nets \ {net}
  /\ svc # "running" => net' = "connecting"
  /\ SendToClients([what |-> "state", net |-> net'])
  /\ UNCHANGED <<svc, crashed, mClients, toService, relay, started, factories, known>>

(* sendDataTransferStats *)
ServiceSendsStats ==
  /\ svc # "down" /\ mClients # {}
  /\ SendToClients([what |-> "stats"])
  /\ UNCHANGED <<service, toService, relay, started, factories, known>>

(* INTENT_ACTION_STOP_TUNNEL of the notification, or onRevoke: no client is
   forgotten. *)
ServiceToldToStop ==
  /\ svc = "running"
  /\ svc' = "stopping"
  /\ UNCHANGED <<crashed, net, mClients, toService, inbox, relay, started, factories, known>>

(* The indices of c's bindings that hear of the end of the service. *)
Hears(c) ==
  {i \in DOMAIN factories[c] : factories[c][i].conn = "bound" /\ factories[c][i].messenger = "live"}

(* The messages posted to c when its bindings hear of it in the order s. *)
Disconnections(s) == [i \in 1..Len(s) |-> [what |-> "disconnected", factory |-> s[i]]]

(* The service is gone: stopped, or killed.  Messages to it are lost, and the
   system tells every binding that was connected, in an order of its own. *)
ServiceEnds(killed) ==
  /\ IF killed THEN svc = "running" ELSE svc \in {"commanded", "stopping"}
  /\ (\E c \in Clients : Binding(c)) => "early_end" \in Faults
  /\ svc' = "down" /\ crashed' = killed /\ net' = "connecting" /\ mClients' = {}
  /\ toService' = <<>>
  /\ \E order \in [Clients -> UNION {SeqExt!SetToSeqs(Hears(c)) : c \in Clients}] :
       /\ \A c \in Clients : order[c] \in SeqExt!SetToSeqs(Hears(c))
       /\ inbox' = [c \in Clients |-> inbox[c] \o Disconnections(order[c])]
  /\ factories' = [c \in Clients |-> [i \in 1..Last(c) |->
       [factories[c][i] EXCEPT !.messenger = IF @ = "live" THEN "dead" ELSE @]]]
  /\ UNCHANGED <<relay, started, known>>

(* START_REDELIVER_INTENT: the system starts the killed service again; no
   interactor broadcasts it. *)
SystemRestartsService ==
  /\ "redelivery" \in Faults
  /\ svc = "down" /\ crashed
  /\ svc' = "running" /\ crashed' = FALSE
  /\ UNCHANGED <<net, mClients, toService, inbox, relay, started, factories, known>>

-----------------------------------------------------------------------------
Looper(c) ==
  \/ OnStartingBroadcast(c) \/ OnState(c) \/ OnStats(c) \/ OnServiceDisconnected(c)

Connects(c) == \E i \in DOMAIN factories[c] : OnServiceConnected(c, i)

ServiceHandler == ServiceRegister \/ ServiceUnregister \/ ServiceStop

Next ==
  \/ \E c \in Clients :
       \/ OnStart(c) \/ OnStop(c) \/ UserStarts(c) \/ UserStops(c)
       \/ ScheduleVpnServiceRestart(c)
       \/ Looper(c) \/ Connects(c)
  \/ ServiceHandler
  \/ ServiceReports \/ ServiceSendsStats \/ ServiceToldToStop
  \/ \E killed \in BOOLEAN : ServiceEnds(killed)
  \/ SystemRestartsService

(* Loopers run what is posted, the system connects a binding to a service that
   is there, and a service told to stop ends.  Nothing is assumed of the user,
   of crashes or of the tunnel. *)
Fairness ==
  /\ \A c \in Clients : WF_vars(Looper(c)) /\ WF_vars(Connects(c))
  /\ WF_vars(ServiceHandler)
  /\ WF_vars(ServiceEnds(FALSE))

Spec == Init /\ [][Next]_vars
FairSpec == Spec /\ Fairness

-----------------------------------------------------------------------------
(* Properties *)

(* The statistics handler dereferences the state a TUNNEL_CONNECTION_STATE
   message left (IncomingMessageHandler.state); whatever the order of
   bindings, stops and restarts, one has been handled before any
   DATA_TRANSFER_STATS. *)
StatsFollowState == \A c \in Clients : NextIs(c, "stats") => known[c]

(* onServiceDisconnected is called for a binding that was made. *)
DisconnectedWasBound ==
  \A c \in Clients : NextIs(c, "disconnected") => Head(inbox[c]).factory <= Last(c)

(* TunnelServiceInteractor.java, IncomingMessageHandler and bindings: types, and
   that. *)
InteractorSafe == TypeOK /\ StatsFollowState /\ DisconnectedWasBound

(* STOP_SERVICE of an unregistered sender is dropped.  A user's stop never
   meets that fate while the service would go on: if the stop is ignored the
   service is ending already.  (An onStop that comes before the binding, or a
   result handled after onStop, can let an UNREGISTER overtake it: it does not
   hold with the faults early_pause and stale_result.) *)
NoStopIgnored ==
  [][ServiceStop /\ Head(toService).from \notin mClients => svc # "running"]_vars

(* What a started interactor should show. *)
View == IF svc = "down" THEN "stopped" ELSE net

(* If from some time on an interactor is started and the service neither
   begins nor ends nor changes its connection state, the relay comes to show
   exactly that state and keeps showing it. *)
RelayFollowsService ==
  \A c \in Clients, v \in Nets \cup {"stopped"} :
    <>[](started[c] /\ svc \in {"down", "running"} /\ View = v) => <>[](relay[c] = v)

(* scheduleVpnServiceRestart waits for the disconnection of the service it
   told to stop: the wait ends. *)
RestartCompletes == \A c \in Clients : Restarting(c) ~> ~Restarting(c)

(* The comment in handleMessage (STOP_SERVICE): no message is sent to a
   client after a stop was commanded.  This does not hold: a client that
   registers then is answered. *)
FromService(c) == SelectSeq(inbox[c], LAMBDA m : m.what \in {"state", "stats"})
NoMessageAfterStop ==
  [][svc = "commanded" => \A c \in Clients : Len(FromService(c)') <= Len(FromService(c))]_vars
=============================================================================
