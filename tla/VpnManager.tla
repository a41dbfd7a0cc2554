----------------------------- MODULE VpnManager -----------------------------
(***************************************************************************)
(* VpnManager.java: the singleton that owns the VPN interface and the      *)
(* tun2socks library, together with the native thread it starts            *)
(* (tun2socks.c, runTun2SocksNative and run).                              *)
(*                                                                         *)
(* Every public method is synchronized.  Most of them do all their work    *)
(* under the monitor without waiting and are one step here.  The two that  *)
(* stop tun2socks wait in Thread.join() with the monitor held, and are     *)
(* split at the join: `owner` is the thread that is waiting.               *)
(*                                                                         *)
(* The tunnel thread brackets every session with vpnEstablish and          *)
(* vpnTeardown (TunnelManager.runTunnel); the other threads, which deliver *)
(* connection state and restart commands, call routeThroughTunnel and      *)
(* stopRouteThroughTunnel at any time, before, inside and after a session. *)
(***************************************************************************)
EXTENDS Naturals, FiniteSets

CONSTANTS
  TunnelThread,   \* the thread of runTunnel
  Routers,        \* the threads that start and stop routing
  NoThread,       \* nobody is waiting in join()
  MaxStarts,      \* bound: tun2socks instances in a behaviour
  MaxSessions     \* bound: VPN sessions in a behaviour

ASSUME ThreadAssumption ==
  /\ TunnelThread \notin Routers
  /\ NoThread \notin Routers
  /\ NoThread # TunnelThread

ASSUME BoundAssumption == MaxStarts \in Nat /\ MaxSessions \in Nat

VARIABLES
  hostService,    \* vpnServiceBuilderProviderRef: is a host registered
  owner,          \* thread holding the monitor inside stopTun2Socks, or NoThread
  inSession,      \* TRUE between vpnEstablish and the end of vpnTeardown
  sessions,       \* sessions begun so far; numbers the tun descriptors
  tunFd,          \* tunFd: the session whose descriptor is held, 0 is null
  isRouting,      \* isRoutingThroughTunnel
  t2sThread,      \* mTun2SocksThread: the instance it runs, 0 is null
  native,         \* life of each instance of the native thread
  dupFd,          \* the descriptor each instance was given
  g_terminate     \* tun2socks.c's global flag

vars == <<hostService, owner, inSession, sessions, tunFd, isRouting,
          t2sThread, native, dupFd, g_terminate>>

Threads == Routers \cup {TunnelThread}
Instances == 1 .. MaxStarts

(* "unborn": not created; "started": the Java thread runs but g_terminate has not been  *)
(* reset yet; "running": inside run(); "done": the thread has ended.       *)
NativeStates == {"unborn", "started", "running", "done"}

DupStates == {"none", "open", "closed", "leaked", "dropped"}

(* The variables keep their ranges: a descriptor is that of one of the     *)
(* sessions (tunFd), the thread is one of the instances started.           *)
TypeOK ==
  /\ hostService \in BOOLEAN
  /\ owner \in Threads \cup {NoThread}
  /\ inSession \in BOOLEAN
  /\ sessions \in 0 .. MaxSessions
  /\ tunFd \in 0 .. MaxSessions
  /\ isRouting \in BOOLEAN
  /\ t2sThread \in 0 .. MaxStarts
  /\ native \in [Instances -> NativeStates]
  /\ dupFd \in [Instances -> DupStates]
  /\ g_terminate \in {0, 1}

Init ==
  /\ hostService = FALSE
  /\ owner = NoThread
  /\ inSession = FALSE
  /\ sessions = 0
  /\ tunFd = 0
  /\ isRouting = FALSE
  /\ t2sThread = 0
  /\ native = [i \in Instances |-> "unborn"]
  /\ dupFd = [i \in Instances |-> "none"]
  /\ g_terminate = 0

MonitorFree == owner = NoThread
Alive(i) == native[i] \in {"started", "running"}
Born == {i \in Instances : native[i] # "unborn"}

-----------------------------------------------------------------------------
(* The Java methods.                                                       *)

RegisterHostService ==
  /\ MonitorFree
  /\ hostService' = TRUE
  /\ UNCHANGED <<owner, inSession, sessions, tunFd, isRouting, t2sThread,
                 native, dupFd, g_terminate>>

UnregisterHostService ==
  /\ MonitorFree
  /\ hostService' = FALSE
  /\ UNCHANGED <<owner, inSession, sessions, tunFd, isRouting, t2sThread,
                 native, dupFd, g_terminate>>

(* The tunnel thread enters the try block of runTunnel.                    *)
BeginSession ==
  /\ MonitorFree
  /\ ~inSession
  /\ sessions < MaxSessions
  /\ inSession' = TRUE
  /\ sessions' = sessions + 1
  /\ UNCHANGED <<hostService, owner, t2sThread, native, dupFd, g_terminate>>

(* vpnEstablish: builder.establish() returned a descriptor.                *)
VpnEstablish ==
  /\ BeginSession
  /\ hostService
  /\ tunFd' = sessions + 1
  /\ isRouting' = FALSE

(* vpnEstablish throws: no private address, no host service, or            *)
(* establish() refused.  runTunnel still goes through its finally block.   *)
VpnEstablishFails ==
  /\ BeginSession
  /\ UNCHANGED <<tunFd, isRouting>>

(* startTun2Socks on a fresh duplicate of the tun descriptor: the          *)
(* duplicate is dropped, never closed, when a thread is there already.     *)
StartTun2Socks(i) ==
  /\ i \in Instances \ Born
  /\ \A j \in Instances \ Born : i <= j
  /\ IF t2sThread # 0
     THEN /\ dupFd' = [dupFd EXCEPT ![i] = "dropped"]
          /\ native' = [native EXCEPT ![i] = "done"]
          /\ UNCHANGED t2sThread
     ELSE /\ dupFd' = [dupFd EXCEPT ![i] = "open"]
          /\ native' = [native EXCEPT ![i] = "started"]
          /\ t2sThread' = i

(* routeThroughTunnel that starts tun2socks.                               *)
RouteThroughTunnel ==
  /\ MonitorFree
  /\ ~isRouting
  /\ isRouting' = TRUE
  /\ tunFd # 0
  /\ \E i \in Instances : StartTun2Socks(i)
  /\ UNCHANGED <<hostService, owner, inSession, sessions, tunFd, g_terminate>>

(* routeThroughTunnel that sets the flag and gives up: there is no         *)
(* descriptor, the SOCKS port is not known, or dup() threw.                *)
RouteThroughTunnelGivesUp ==
  /\ MonitorFree
  /\ ~isRouting
  /\ isRouting' = TRUE
  /\ UNCHANGED <<hostService, owner, inSession, sessions, tunFd, t2sThread,
                 native, dupFd, g_terminate>>

(* Mutant: terminate requests are counted instead of set.                  *)
BeginStopCounts(t) ==
  /\ isRouting
  /\ isRouting' = FALSE
  /\ t2sThread # 0
  /\ owner' = t
  /\ g_terminate' = g_terminate + 1

(* The first half of stopRouteThroughTunnel and stopTun2Socks: take the    *)
(* flag down and, when a thread is there, ask it to terminate and wait.    *)
BeginStop(t) ==
  /\ isRouting
  /\ isRouting' = FALSE
  /\ t2sThread # 0
  /\ owner' = t
  /\ g_terminate' = 1

StopRouteThroughTunnel(t) ==
  /\ MonitorFree
  /\ BeginStop(t)
  /\ UNCHANGED <<hostService, inSession, sessions, tunFd, t2sThread, native,
                 dupFd>>

(* stopRouteThroughTunnel with the flag up and no tun2socks thread.        *)
StopRouteWithoutThread ==
  /\ MonitorFree
  /\ isRouting
  /\ t2sThread = 0
  /\ isRouting' = FALSE
  /\ UNCHANGED <<hostService, owner, inSession, sessions, tunFd, t2sThread,
                 native, dupFd, g_terminate>>

(* The tail of vpnTeardown: close the descriptor, flag down.               *)
CloseTun ==
  /\ tunFd' = 0
  /\ isRouting' = FALSE
  /\ inSession' = FALSE

(* Mutant: the descriptor is closed before tun2socks is stopped.           *)
VpnTeardownClosesFirst ==
  /\ MonitorFree
  /\ inSession
  /\ BeginStop(TunnelThread)
  /\ tunFd' = 0
  /\ UNCHANGED <<hostService, inSession, sessions, t2sThread, native, dupFd>>

(* vpnTeardown, up to the join.                                            *)
VpnTeardown ==
  /\ MonitorFree
  /\ inSession
  /\ BeginStop(TunnelThread)
  /\ UNCHANGED <<hostService, inSession, sessions, tunFd, t2sThread, native,
                 dupFd>>

(* Mutant: vpnTeardown does not stop tun2socks.                            *)
VpnTeardownWithoutStop ==
  /\ MonitorFree
  /\ inSession
  /\ CloseTun
  /\ UNCHANGED <<hostService, owner, sessions, t2sThread, native, dupFd,
                 g_terminate>>

(* vpnTeardown with nothing to stop.                                       *)
VpnTeardownIdle ==
  /\ MonitorFree
  /\ inSession
  /\ ~(isRouting /\ t2sThread # 0)
  /\ CloseTun
  /\ UNCHANGED <<hostService, owner, sessions, t2sThread, native, dupFd,
                 g_terminate>>

(* Mutant: stopTun2Socks goes on although join() has not returned.         *)
JoinInterrupted(t) ==
  /\ owner = t
  /\ t2sThread' = 0
  /\ owner' = NoThread
  /\ IF t = TunnelThread
     THEN CloseTun
     ELSE UNCHANGED <<inSession, tunFd, isRouting>>
  /\ UNCHANGED <<hostService, sessions, native, dupFd, g_terminate>>

(* Mutant: stopTun2Socks leaves mTun2SocksThread set.                      *)
JoinKeepsThread(t) ==
  /\ owner = t
  /\ native[t2sThread] = "done"
  /\ owner' = NoThread
  /\ IF t = TunnelThread
     THEN CloseTun
     ELSE UNCHANGED <<inSession, tunFd, isRouting>>
  /\ UNCHANGED <<hostService, sessions, t2sThread, native, dupFd, g_terminate>>

(* join() returns: the rest of stopTun2Socks and of the method it is in.   *)
JoinReturns(t) ==
  /\ owner = t
  /\ native[t2sThread] = "done"
  /\ t2sThread' = 0
  /\ owner' = NoThread
  /\ IF t = TunnelThread
     THEN CloseTun
     ELSE UNCHANGED <<inSession, tunFd, isRouting>>
  /\ UNCHANGED <<hostService, sessions, native, dupFd, g_terminate>>

-----------------------------------------------------------------------------
(* The native thread.                                                      *)

(* Mutant: the terminate request of an earlier stop is not cleared.        *)
RunKeepsRequest(i) ==
  /\ native[i] = "started"
  /\ native' = [native EXCEPT ![i] = "running"]
  /\ UNCHANGED <<hostService, owner, inSession, sessions, tunFd, isRouting,
                 t2sThread, dupFd, g_terminate>>

(* runTun2SocksNative up to the call of run(): the compare-and-swap clears *)
(* whatever terminate request it finds.                                    *)
RunTun2Socks(i) ==
  /\ native[i] = "started"
  /\ native' = [native EXCEPT ![i] = "running"]
  /\ g_terminate' = 0
  /\ UNCHANGED <<hostService, owner, inSession, sessions, tunFd, isRouting,
                 t2sThread, dupFd>>

(* run() returns through its cleanup labels; BTap_Free closes the          *)
(* descriptor.                                                             *)
RunEnds(i) ==
  /\ native' = [native EXCEPT ![i] = "done"]
  /\ dupFd' = [dupFd EXCEPT ![i] = "closed"]
  /\ UNCHANGED <<hostService, owner, inSession, sessions, tunFd, isRouting,
                 t2sThread, g_terminate>>

(* Mutant: tcp_timer_handler takes the request and does not quit.          *)
TcpTimerHandlerStays(i) ==
  /\ native[i] = "running"
  /\ g_terminate = 1
  /\ g_terminate' = 0
  /\ UNCHANGED <<hostService, owner, inSession, sessions, tunFd, isRouting,
                 t2sThread, native, dupFd>>

(* tcp_timer_handler finds the terminate request.                          *)
TcpTimerHandler(i) ==
  /\ native[i] = "running"
  /\ g_terminate = 1
  /\ RunEnds(i)

(* device_error_handler, a failed lwip_init_job_hadler, or an allocation   *)
(* that fails in run() from BTap_InitWithFD on.                            *)
DeviceError(i) ==
  /\ native[i] = "running"
  /\ RunEnds(i)

(* run() fails before BTap_InitWithFD took the descriptor over.            *)
RunFailsEarly(i) ==
  /\ native[i] = "running"
  /\ native' = [native EXCEPT ![i] = "done"]
  /\ dupFd' = [dupFd EXCEPT ![i] = "leaked"]
  /\ UNCHANGED <<hostService, owner, inSession, sessions, tunFd, isRouting,
                 t2sThread, g_terminate>>

-----------------------------------------------------------------------------
HostNext ==
  \/ RegisterHostService
  \/ UnregisterHostService
  \/ RouteThroughTunnel
  \/ RouteThroughTunnelGivesUp
  \/ StopRouteWithoutThread
  \/ \E t \in Routers : StopRouteThroughTunnel(t)

SessionNext ==
  \/ VpnEstablish
  \/ VpnEstablishFails
  \/ VpnTeardown
  \/ VpnTeardownIdle

NativeNext(i) ==
  \/ RunTun2Socks(i)
  \/ TcpTimerHandler(i)
  \/ DeviceError(i)
  \/ RunFailsEarly(i)

Next ==
  \/ HostNext
  \/ SessionNext
  \/ \E t \in Threads : JoinReturns(t)
  \/ \E i \in Instances : NativeNext(i)

Spec == Init /\ [][Next]_vars

(* The scheduler runs the native thread and the timer of its event loop,   *)
(* and wakes a joining thread; nothing makes the device fail.              *)
Fairness ==
  /\ \A i \in Instances : WF_vars(RunTun2Socks(i)) /\ WF_vars(TcpTimerHandler(i))
  /\ \A t \in Threads : WF_vars(JoinReturns(t))

FairSpec == Spec /\ Fairness

-----------------------------------------------------------------------------
(* Properties.                                                             *)

(* At most one instance of tun2socks is alive at any time, across stops,   *)
(* restarts, sessions and instances that die by themselves: "the library   *)
(* has global state" (VpnManager.java, INSTANCE).                          *)
SingleInstance ==
  \A i, j \in Instances : Alive(i) /\ Alive(j) => i = j

(* A terminate request reaches the instance it was made for: a running     *)
(* instance sees g_terminate only while somebody waits for that instance   *)
(* in stopTun2Socks.  A request left over from a stop whose instance had   *)
(* died by itself never takes down a later one.                            *)
TerminateAddressed ==
  \A i \in Instances :
    native[i] = "running" /\ g_terminate = 1 => owner # NoThread /\ t2sThread = i

(* Between sessions nothing is left of a session: vpnTeardown has closed   *)
(* the tun descriptor, no instance is alive, no duplicate is open and no   *)
(* thread is remembered.                                                   *)
Quiescent ==
  ~inSession =>
    /\ tunFd = 0
    /\ t2sThread = 0
    /\ \A i \in Instances : ~Alive(i) /\ dupFd[i] # "open"

(* startTun2Socks never finds a thread in its way, although the flag that  *)
(* guards it and mTun2SocksThread are two variables: no duplicate of the   *)
(* tun descriptor is dropped.                                              *)
NoDroppedDescriptor ==
  \A i \in Instances : dupFd[i] # "dropped"

(* VpnManager keeps the promise of VpnInterface.                           *)
VI == INSTANCE VpnInterface WITH
        interface  <- IF tunFd = 0 THEN "closed" ELSE "open",
        forwarding <- \E i \in Instances : Alive(i)

(* Every behaviour of the Java methods and of the native thread is one of  *)
(* the abstract interface: forwarding starts on an open interface, and     *)
(* vpnTeardown closes the interface only after its forwarder has ended.    *)
ImplementsInterface == VI!Spec

(* A stop (stopTun2Socks) whose request reaches an instance inside run()   *)
(* ends: the timer of the event loop quits the loop, run() cleans up, the  *)
(* thread ends and join() returns.                                         *)
StopOfRunningReturns ==
  \A t \in Threads :
    (owner = t /\ native[t2sThread] = "running" /\ g_terminate = 1)
      ~> (owner # t)

(* Every stop ends, whenever it comes.  This does not hold: a request that *)
(* comes before runTun2SocksNative resets g_terminate is forgotten.        *)
StopReturns ==
  \A t \in Threads : (owner = t) ~> (owner # t)

(* With the interface open and tun2socks not running, routeThroughTunnel   *)
(* has a flag it can take and starts it.  This does not hold: the flag     *)
(* stays up when tun2socks was not started, or died of a device error.     *)
RouteStartsWhenNotRunning ==
  MonitorFree /\ tunFd # 0 /\ (\A i \in Instances : ~Alive(i)) => ~isRouting
=============================================================================
