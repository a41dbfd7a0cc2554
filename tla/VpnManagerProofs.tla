-------------------------- MODULE VpnManagerProofs --------------------------
(***************************************************************************)
(* Proofs about VpnManager for any set of calling threads and any number   *)
(* of sessions and tun2socks instances: the type invariant, the safety     *)
(* invariants and the refinement of VpnInterface.                          *)
(*                                                                         *)
(* None of the safety invariants is inductive alone.  Inv relates the      *)
(* variables that the code keeps in step by hand: the routing flag,        *)
(* mTun2SocksThread, the tun descriptor and the native thread.             *)
(***************************************************************************)
EXTENDS VpnManager, TLAPS

(* An instance that is alive is the one mTun2SocksThread names, and holds  *)
(* the only open duplicate.                                                *)
AliveIsRemembered ==
  \A i \in Instances :
    /\ Alive(i) => t2sThread = i
    /\ dupFd[i] = "open" => Alive(i)

(* Whoever waits in join() has taken the flag down and left the thread.    *)
WaitingForThread ==
  owner # NoThread =>
    /\ ~isRouting
    /\ t2sThread # 0
    /\ owner = TunnelThread => inSession

(* A remembered thread is inside a session with an open descriptor, and    *)
(* the flag is up unless somebody is stopping it.                          *)
ThreadInSession ==
  t2sThread # 0 =>
    /\ tunFd # 0
    /\ owner = NoThread => isRouting

DescriptorInSession == tunFd # 0 => inSession

Inv ==
  /\ TypeOK
  /\ AliveIsRemembered
  /\ WaitingForThread
  /\ ThreadInSession
  /\ DescriptorInSession
  /\ TerminateAddressed
  /\ NoDroppedDescriptor

(* Inv holds initially.                                                    *)
LEMMA InitInv == Init => Inv
<1> SUFFICES ASSUME Init PROVE Inv
  OBVIOUS
<1> USE DEF Init
<1>1. TypeOK
  <2>1. hostService \in BOOLEAN /\ inSession \in BOOLEAN /\ isRouting \in BOOLEAN
    BY Zenon
  <2>2. /\ sessions \in 0 .. MaxSessions
        /\ tunFd \in 0 .. MaxSessions
        /\ t2sThread \in 0 .. MaxStarts
        /\ g_terminate \in {0, 1}
    BY BoundAssumption
  <2>3. /\ owner \in Threads \cup {NoThread}
        /\ native \in [Instances -> NativeStates]
        /\ dupFd \in [Instances -> DupStates]
    BY DEF NativeStates, DupStates
  <2> QED
    BY <2>1, <2>2, <2>3, Zenon DEF TypeOK
<1>2. AliveIsRemembered /\ TerminateAddressed /\ NoDroppedDescriptor
  BY DEF AliveIsRemembered, TerminateAddressed, NoDroppedDescriptor, Alive
<1>3. WaitingForThread /\ ThreadInSession /\ DescriptorInSession
  BY DEF WaitingForThread, ThreadInSession, DescriptorInSession
<1> QED
  BY <1>1, <1>2, <1>3 DEF Inv

(* Every step keeps the variables in their ranges.                         *)
LEMMA TypeStep == TypeOK /\ [Next]_vars => TypeOK'
<1> SUFFICES ASSUME TypeOK, [Next]_vars PROVE TypeOK'
  OBVIOUS
<1> USE DEF TypeOK, Threads
<1>1. CASE RegisterHostService \/ UnregisterHostService
  BY <1>1 DEF RegisterHostService, UnregisterHostService
<1>2. CASE VpnEstablish \/ VpnEstablishFails
  <2>1. BeginSession
    BY <1>2 DEF VpnEstablish, VpnEstablishFails
  <2>2. sessions' \in 0 .. MaxSessions /\ sessions + 1 \in 0 .. MaxSessions
    BY <2>1, BoundAssumption DEF BeginSession
  <2> QED
    BY <1>2, <2>1, <2>2 DEF VpnEstablish, VpnEstablishFails, BeginSession
<1>3. CASE RouteThroughTunnel
  <2>1. PICK i \in Instances : StartTun2Socks(i)
    BY <1>3 DEF RouteThroughTunnel
  <2>2. t2sThread' \in 0 .. MaxStarts
    BY <2>1 DEF StartTun2Socks, Instances
  <2>3. native' \in [Instances -> NativeStates] /\ dupFd' \in [Instances -> DupStates]
    BY <2>1 DEF StartTun2Socks, NativeStates, DupStates
  <2> QED
    BY <1>3, <2>2, <2>3 DEF RouteThroughTunnel
<1>4. CASE RouteThroughTunnelGivesUp \/ StopRouteWithoutThread
  BY <1>4 DEF RouteThroughTunnelGivesUp, StopRouteWithoutThread
<1>5. ASSUME NEW t \in Routers, StopRouteThroughTunnel(t)
      PROVE  TypeOK'
  BY <1>5 DEF StopRouteThroughTunnel, BeginStop
<1>6. CASE VpnTeardown
  BY <1>6 DEF VpnTeardown, BeginStop
<1>7. CASE VpnTeardownIdle
  <2>1. 0 \in 0 .. MaxSessions
    BY BoundAssumption
  <2> QED
    BY <1>7, <2>1 DEF VpnTeardownIdle, CloseTun
<1>8. ASSUME NEW t \in Threads, JoinReturns(t)
      PROVE  TypeOK'
  <2>1. 0 \in 0 .. MaxStarts /\ 0 \in 0 .. MaxSessions
    BY BoundAssumption
  <2>2. CASE t = TunnelThread
    BY <1>8, <2>1, <2>2 DEF JoinReturns, CloseTun
  <2>3. CASE t # TunnelThread
    BY <1>8, <2>1, <2>3 DEF JoinReturns
  <2> QED
    BY <2>2, <2>3
<1>9. ASSUME NEW i \in Instances, NativeNext(i)
      PROVE  TypeOK'
  <2>1. CASE RunTun2Socks(i)
    BY <2>1 DEF RunTun2Socks, NativeStates
  <2>2. CASE RunEnds(i)
    BY <2>2 DEF RunEnds, NativeStates, DupStates
  <2>3. CASE RunFailsEarly(i)
    BY <2>3 DEF RunFailsEarly, NativeStates, DupStates
  <2> QED
    BY <1>9, <2>1, <2>2, <2>3 DEF NativeNext, TcpTimerHandler, DeviceError
<1>10. CASE UNCHANGED vars
  BY <1>10 DEF vars
<1> QED
  BY <1>1, <1>2, <1>3, <1>4, <1>5, <1>6, <1>7, <1>8, <1>9, <1>10
     DEF Next, HostNext, SessionNext

(* Every step keeps Inv.                                                   *)
LEMMA InvStep == Inv /\ [Next]_vars => Inv'
<1> SUFFICES ASSUME Inv, [Next]_vars PROVE Inv'
  OBVIOUS
<1>0. TypeOK'
  BY TypeStep DEF Inv
<1> USE ThreadAssumption
<1> USE DEF Inv, TypeOK, AliveIsRemembered, WaitingForThread, ThreadInSession,
            DescriptorInSession, TerminateAddressed, NoDroppedDescriptor, Alive,
            MonitorFree, Threads
<1>1. CASE RegisterHostService \/ UnregisterHostService
  BY <1>0, <1>1 DEF RegisterHostService, UnregisterHostService
<1>2. CASE VpnEstablish \/ VpnEstablishFails
  BY <1>0, <1>2 DEF VpnEstablish, VpnEstablishFails, BeginSession
<1>3. CASE RouteThroughTunnel
  <2>1. PICK i \in Instances : StartTun2Socks(i)
    BY <1>3 DEF RouteThroughTunnel
  <2>2. t2sThread = 0
    BY <1>3 DEF RouteThroughTunnel
  <2> QED
    BY <1>0, <1>3, <2>1, <2>2
       DEF RouteThroughTunnel, StartTun2Socks, Instances
<1>4. CASE RouteThroughTunnelGivesUp \/ StopRouteWithoutThread
  BY <1>0, <1>4 DEF RouteThroughTunnelGivesUp, StopRouteWithoutThread
<1>5. ASSUME NEW t \in Routers, StopRouteThroughTunnel(t)
      PROVE  Inv'
  BY <1>0, <1>5 DEF StopRouteThroughTunnel, BeginStop
<1>6. CASE VpnTeardown
  BY <1>0, <1>6 DEF VpnTeardown, BeginStop
<1>7. CASE VpnTeardownIdle
  BY <1>0, <1>7 DEF VpnTeardownIdle, CloseTun
<1>8. ASSUME NEW t \in Threads, JoinReturns(t)
      PROVE  Inv'
  <2>1. \A i \in Instances : ~Alive(i) /\ ~Alive(i)'
    BY <1>8 DEF JoinReturns
  <2>2. CASE t = TunnelThread
    BY <1>0, <1>8, <2>1, <2>2 DEF JoinReturns, CloseTun
  <2>3. CASE t # TunnelThread
    BY <1>0, <1>8, <2>1, <2>3 DEF JoinReturns
  <2> QED
    BY <2>2, <2>3
<1>9. ASSUME NEW i \in Instances, NativeNext(i)
      PROVE  Inv'
  <2>1. CASE RunTun2Socks(i)
    BY <1>0, <2>1 DEF RunTun2Socks
  <2>2. CASE RunEnds(i) /\ native[i] = "running"
    BY <1>0, <2>2 DEF RunEnds
  <2>3. CASE RunFailsEarly(i)
    BY <1>0, <2>3 DEF RunFailsEarly
  <2> QED
    BY <1>9, <2>1, <2>2, <2>3 DEF NativeNext, TcpTimerHandler, DeviceError
<1>10. CASE UNCHANGED vars
  BY <1>0, <1>10 DEF vars
<1> QED
  BY <1>1, <1>2, <1>3, <1>4, <1>5, <1>6, <1>7, <1>8, <1>9, <1>10
     DEF Next, HostNext, SessionNext

(* Inv is an invariant of the methods and the native thread.               *)
LEMMA InvAlways == Spec => []Inv
<1>1. Init => Inv
  BY InitInv
<1>2. Inv /\ [Next]_vars => Inv'
  BY InvStep
<1> QED
  BY <1>1, <1>2, PTL DEF Spec

-----------------------------------------------------------------------------
(* The variables keep their ranges: tunFd, mTun2SocksThread and the native *)
(* threads (VpnManager.java fields, tun2socks.c g_terminate).              *)
THEOREM TypeCorrect == Spec => []TypeOK
<1>1. Inv => TypeOK
  BY DEF Inv
<1> QED
  BY InvAlways, <1>1, PTL

(* At most one instance of tun2socks is alive, however many threads start  *)
(* and stop routing and however often instances die by themselves.         *)
THEOREM OnlyOneInstance == Spec => []SingleInstance
<1>1. Inv => SingleInstance
  BY DEF Inv, AliveIsRemembered, SingleInstance
<1> QED
  BY InvAlways, <1>1, PTL

(* A terminate request is seen only by the instance somebody is waiting    *)
(* for: g_terminate left set by an earlier stop never stops a later one.   *)
THEOREM TerminateReachesItsTarget == Spec => []TerminateAddressed
<1>1. Inv => TerminateAddressed
  BY DEF Inv
<1> QED
  BY InvAlways, <1>1, PTL

(* Outside a session the descriptor is closed, no instance is alive, no    *)
(* duplicate is open: vpnTeardown leaves nothing behind.                   *)
THEOREM QuiescentBetweenSessions == Spec => []Quiescent
<1>1. Inv => Quiescent
  BY DEF Inv, Quiescent, AliveIsRemembered, ThreadInSession,
         DescriptorInSession, Instances
<1> QED
  BY InvAlways, <1>1, PTL

(* startTun2Socks is never called while a thread is remembered, so no      *)
(* duplicate of the tun descriptor is dropped.                             *)
THEOREM NoDuplicateDropped == Spec => []NoDroppedDescriptor
<1>1. Inv => NoDroppedDescriptor
  BY DEF Inv
<1> QED
  BY InvAlways, <1>1, PTL

-----------------------------------------------------------------------------
(* Refinement of VpnInterface.                                             *)

(* A closed interface without a forwarder, as VpnInterface begins.         *)
LEMMA InterfaceInit == Init => VI!Init
BY DEF Init, VI!Init, Alive

(* Each step opens or closes the interface, starts or ends the forwarder,  *)
(* or changes neither.                                                     *)
LEMMA InterfaceStep == Inv /\ [Next]_vars => [VI!Next]_(VI!vars)
<1> SUFFICES ASSUME Inv, [Next]_vars
             PROVE  VI!Next \/ UNCHANGED VI!vars
  OBVIOUS
<1> USE ThreadAssumption
<1> USE DEF Inv, TypeOK, AliveIsRemembered, WaitingForThread, ThreadInSession,
            DescriptorInSession, Alive, MonitorFree, Threads, VI!vars
<1>1. CASE UNCHANGED <<tunFd, native>>
  BY <1>1
<1>2. CASE VpnEstablish
  <2>1. tunFd = 0 /\ tunFd' # 0 /\ native' = native
    BY <1>2, BoundAssumption DEF VpnEstablish, BeginSession
  <2>2. \A i \in Instances : ~Alive(i)
    BY <2>1 DEF Instances
  <2> QED
    BY <2>1, <2>2 DEF VI!Next, VI!Open
<1>3. CASE RouteThroughTunnel
  <2>1. PICK i \in Instances : StartTun2Socks(i)
    BY <1>3 DEF RouteThroughTunnel
  <2>2. t2sThread = 0 /\ tunFd # 0 /\ tunFd' = tunFd
    BY <1>3 DEF RouteThroughTunnel
  <2>3. \A j \in Instances : ~Alive(j)
    BY <2>2 DEF Instances
  <2>4. Alive(i)'
    BY <2>1, <2>2 DEF StartTun2Socks
  <2> QED
    BY <2>2, <2>3, <2>4 DEF VI!Next, VI!StartForwarding
<1>4. CASE VpnTeardownIdle
  <2>1. native' = native /\ tunFd' = 0 /\ t2sThread = 0
    BY <1>4 DEF VpnTeardownIdle, CloseTun
  <2>2. \A i \in Instances : ~Alive(i) /\ ~Alive(i)'
    BY <2>1 DEF Instances
  <2> QED
    BY <2>1, <2>2 DEF VI!Next, VI!Close
<1>5. ASSUME NEW t \in Threads, JoinReturns(t)
      PROVE  VI!Next \/ UNCHANGED VI!vars
  <2>1. native' = native /\ tunFd' \in {0, tunFd}
    BY <1>5 DEF JoinReturns, CloseTun
  <2>2. \A i \in Instances : ~Alive(i) /\ ~Alive(i)'
    BY <1>5 DEF JoinReturns
  <2> QED
    BY <2>1, <2>2 DEF VI!Next, VI!Close
<1>6. ASSUME NEW i \in Instances, NativeNext(i)
      PROVE  VI!Next \/ UNCHANGED VI!vars
  <2>1. Alive(i) /\ tunFd' = tunFd
    BY <1>6 DEF NativeNext, RunTun2Socks, TcpTimerHandler, DeviceError,
                RunFailsEarly, RunEnds
  <2>2. CASE RunTun2Socks(i)
    <3>1. Alive(i)'
      BY <2>2 DEF RunTun2Socks
    <3> QED
      BY <2>1, <3>1
  <2>3. CASE RunEnds(i) \/ RunFailsEarly(i)
    <3>1. \A j \in Instances : ~Alive(j)'
      BY <2>1, <2>3 DEF RunEnds, RunFailsEarly
    <3> QED
      BY <2>1, <3>1 DEF VI!Next, VI!StopForwarding
  <2> QED
    BY <1>6, <2>2, <2>3 DEF NativeNext, TcpTimerHandler, DeviceError
<1> QED
  BY <1>1, <1>2, <1>3, <1>4, <1>5, <1>6
     DEF Next, HostNext, SessionNext, RegisterHostService,
         UnregisterHostService, VpnEstablishFails, BeginSession,
         RouteThroughTunnelGivesUp, StopRouteThroughTunnel,
         StopRouteWithoutThread, VpnTeardown, BeginStop, vars

(* The detailed specification implements the abstract one: packets are     *)
(* forwarded only through an open interface, and vpnTeardown closes it     *)
(* after the forwarder has ended.                                          *)
THEOREM Refinement == Spec => ImplementsInterface
<1>1. Init => VI!Init
  BY InterfaceInit
<1>2. Inv /\ [Next]_vars => [VI!Next]_(VI!vars)
  BY InterfaceStep
<1> QED
  BY <1>1, <1>2, InvAlways, PTL DEF Spec, VI!Spec, ImplementsInterface
=============================================================================
