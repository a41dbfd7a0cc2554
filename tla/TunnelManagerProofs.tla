------------------------ MODULE TunnelManagerProofs ------------------------
(***************************************************************************)
(* Proofs about TunnelManager, for any clients, bounds and modes: the      *)
(* types, and that what clients are told is the meaning of the relays'     *)
(* last values, whichever threads call accept() and in whatever order.     *)
(* When configurations are resolved in the handler, a destroyed service    *)
(* leaves nothing behind; when also no restart is commanded while the      *)
(* tunnel is starting, the routing relay says what tun2socks does and a    *)
(* client is told CONNECTED only while packets are forwarded.              *)
(***************************************************************************)
EXTENDS TunnelManager, SequenceTheorems, TLAPS

ConnectedDirect == <<"CONNECTED", "direct">>
Accepting == mainPc \in {"acceptInDrain", "acceptAlone"}

(* The invariant of the pipeline is stated for a value b of bus, so that   *)
(* the two calls of accept() in one handler can be followed one by one.    *)
BusType == [net : NetStates \cup {None}, route : RouteStates \cup {None},
            rx : Seq(Pairs)]
Known(b) == b.net # None /\ b.route # None

(* A relay has a last value only once it is subscribed, pairs are queued   *)
(* or taken only once both have one, and dispose() ends the subscription.  *)
KnownIfSubscribed(b) ==
  /\ b.route # None => subs = 2
  /\ b.rx # <<>> => Known(b)
  /\ life = "destroyed" => subs = 0
  /\ life # "destroyed" /\ lastPair # <<>> => Known(b)

(* The last pair in flight is made of the last values.                     *)
Latest(b) == IF b.rx = <<>> THEN lastPair ELSE b.rx[Len(b.rx)]
LatestIsCurrent(b) == Known(b) => Latest(b) = <<b.net, b.route>>

(* When "connected, not routing" was taken, somebody is waiting for an     *)
(* activity, the main thread is about to call accept(TRUE), or a different *)
(* pair is still in the queue.                                             *)
RoutingUnderWay(b) ==
  Known(b) /\ lastPair = ConnectedDirect /\ ~waiting /\ ~Accepting
    => \E i \in 1 .. Len(b.rx) : b.rx[i] # ConnectedDirect

(* The state sent last belongs to the pair taken last.                     *)
EmittedMatches ==
  /\ waiting => lastPair = ConnectedDirect /\ emitted = "CONNECTING"
  /\ lastPair # <<>> /\ lastPair # ConnectedDirect => emitted = lastPair[1]

BusInv(b) ==
  /\ b \in BusType
  /\ KnownIfSubscribed(b)
  /\ LatestIsCurrent(b)
  /\ RoutingUnderWay(b)

PipeInv ==
  /\ subs \in 0 .. 2
  /\ lastPair \in Pairs \cup {<<>>}
  /\ BusInv(bus)
  /\ EmittedMatches

pipeline == <<life, subs, bus, lastPair, waiting, emitted, mainPc>>

-----------------------------------------------------------------------------
(* What Append does to a queue of pairs.                                   *)
LEMMA AppendPair ==
  ASSUME NEW q \in Seq(Pairs), NEW p \in Pairs
  PROVE  /\ Append(q, p) \in Seq(Pairs)
         /\ Append(q, p) # <<>>
         /\ Len(Append(q, p)) = Len(q) + 1
         /\ Append(q, p)[Len(q) + 1] = p
         /\ \A i \in 1 .. Len(q) : Append(q, p)[i] = q[i]
  OBVIOUS

(* The empty tuple, "no pair yet", is not a pair.                          *)
LEMMA NoPairYet == <<>> # ConnectedDirect
<1>1. Len(<<>>) = 0 /\ Len(ConnectedDirect) = 2
  BY DEF ConnectedDirect
<1> QED
  BY <1>1

(* accept() on the network relay keeps the invariant of the pipeline.      *)
LEMMA AcceptNetKeeps ==
  ASSUME NEW b, subs \in 0 .. 2, BusInv(b), NEW v \in NetStates
  PROVE  BusInv(AcceptNet(b, v))
<1> DEFINE c == AcceptNet(b, v)
<1> USE DEF BusInv
<1>1. CASE subs < 1
  BY <1>1 DEF AcceptNet
<1>2. CASE ~(subs < 1) /\ b.route = None
  <2>1. c = [b EXCEPT !.net = v]
    BY <1>2 DEF AcceptNet, BusType
  <2> QED
    BY <1>2, <2>1 DEF BusType, KnownIfSubscribed, LatestIsCurrent,
                      RoutingUnderWay, Known
<1>3. CASE ~(subs < 1) /\ b.route # None
  <2>1. /\ c = [b EXCEPT !.net = v, !.rx = Append(b.rx, <<v, b.route>>)]
        /\ b.route \in RouteStates
    BY <1>3 DEF AcceptNet, BusType
  <2>2. /\ c.rx = Append(b.rx, <<v, b.route>>)
        /\ c.net = v /\ c.route = b.route
        /\ <<v, b.route>> \in Pairs
        /\ b.rx \in Seq(Pairs)
    BY <2>1 DEF BusType, Pairs
  <2>3. /\ c.rx \in Seq(Pairs)
        /\ c.rx # <<>>
        /\ Len(c.rx) = Len(b.rx) + 1
        /\ c.rx[Len(c.rx)] = <<v, b.route>>
        /\ \A i \in 1 .. Len(b.rx) : c.rx[i] = b.rx[i]
    BY <2>2, AppendPair
  <2>4. c \in BusType
    BY <2>1, <2>2, <2>3 DEF BusType
  <2>5. KnownIfSubscribed(c) /\ Known(c)
    BY <1>3, <2>2 DEF KnownIfSubscribed, Known, NetStates, None
  <2>6. LatestIsCurrent(c)
    BY <2>2, <2>3 DEF LatestIsCurrent, Latest
  <2>7. RoutingUnderWay(c)
    <3>1. CASE b.net = None
      <4>1. lastPair # ConnectedDirect
        BY <1>3, <3>1, NoPairYet DEF KnownIfSubscribed, Known
      <4> QED
        BY <4>1 DEF RoutingUnderWay
    <3>2. CASE b.net # None
      BY <3>2, <1>3, <2>2, <2>3 DEF RoutingUnderWay, Known
    <3> QED
      BY <3>1, <3>2
  <2> QED
    BY <2>4, <2>5, <2>6, <2>7
<1> QED
  BY <1>1, <1>2, <1>3

(* So does accept() on the routing relay.                                  *)
LEMMA AcceptRouteKeeps ==
  ASSUME NEW b, subs \in 0 .. 2, BusInv(b), NEW v \in RouteStates
  PROVE  BusInv(AcceptRoute(b, v))
<1> DEFINE c == AcceptRoute(b, v)
<1> USE DEF BusInv
<1>1. CASE subs < 2
  BY <1>1 DEF AcceptRoute
<1>2. CASE ~(subs < 2) /\ b.net = None
  <2>1. c = [b EXCEPT !.route = v]
    BY <1>2 DEF AcceptRoute, BusType
  <2> QED
    BY <1>2, <2>1 DEF BusType, KnownIfSubscribed, LatestIsCurrent,
                      RoutingUnderWay, Known
<1>3. CASE ~(subs < 2) /\ b.net # None
  <2>1. /\ c = [b EXCEPT !.route = v, !.rx = Append(b.rx, <<b.net, v>>)]
        /\ b.net \in NetStates
    BY <1>3 DEF AcceptRoute, BusType
  <2>2. /\ c.rx = Append(b.rx, <<b.net, v>>)
        /\ c.net = b.net /\ c.route = v
        /\ <<b.net, v>> \in Pairs
        /\ b.rx \in Seq(Pairs)
    BY <2>1 DEF BusType, Pairs
  <2>3. /\ c.rx \in Seq(Pairs)
        /\ c.rx # <<>>
        /\ Len(c.rx) = Len(b.rx) + 1
        /\ c.rx[Len(c.rx)] = <<b.net, v>>
        /\ \A i \in 1 .. Len(b.rx) : c.rx[i] = b.rx[i]
    BY <2>2, AppendPair
  <2>4. c \in BusType
    BY <2>1, <2>2, <2>3 DEF BusType
  <2>5. KnownIfSubscribed(c) /\ Known(c)
    BY <1>3, <2>2 DEF KnownIfSubscribed, Known, RouteStates, None
  <2>6. LatestIsCurrent(c)
    BY <2>2, <2>3 DEF LatestIsCurrent, Latest
  <2>7. RoutingUnderWay(c)
    <3>1. CASE b.route = None
      <4>1. lastPair # ConnectedDirect
        BY <1>3, <3>1, NoPairYet DEF KnownIfSubscribed, Known
      <4> QED
        BY <4>1 DEF RoutingUnderWay
    <3>2. CASE b.route # None
      BY <3>2, <1>3, <2>2, <2>3 DEF RoutingUnderWay, Known
    <3> QED
      BY <3>1, <3>2
  <2> QED
    BY <2>4, <2>5, <2>6, <2>7
<1> QED
  BY <1>1, <1>2, <1>3

-----------------------------------------------------------------------------
(* A step that replaces bus by a value for which the invariant holds, and  *)
(* leaves the rest of the pipeline alone, keeps the invariant.             *)
LEMMA BusStep ==
  ASSUME PipeInv, BusInv(bus'), Accepting' <=> Accepting,
         UNCHANGED <<life, subs, lastPair, waiting, emitted>>
  PROVE  PipeInv'
<1>1. BusInv(bus)'
  BY DEF BusInv, KnownIfSubscribed, LatestIsCurrent, Latest, RoutingUnderWay,
         Known
<1>2. EmittedMatches'
  BY DEF PipeInv, EmittedMatches
<1> QED
  BY <1>1, <1>2 DEF PipeInv

(* The steps of the drain loop, each taking the first pair of the queue.   *)
LEMMA TakeFirst ==
  ASSUME PipeInv, bus.rx # <<>>
  PROVE  /\ NextPair \in Pairs
         /\ Tail(bus.rx) \in Seq(Pairs)
         /\ Len(Tail(bus.rx)) = Len(bus.rx) - 1
         /\ Len(bus.rx) \in Nat \ {0}
         /\ NextPair = bus.rx[1]
         /\ \A i \in 1 .. Len(bus.rx) - 1 : Tail(bus.rx)[i] = bus.rx[i + 1]
         /\ Tail(bus.rx) = <<>> <=> Len(bus.rx) = 1
<1>1. bus.rx \in Seq(Pairs)
  BY DEF PipeInv, BusInv, BusType
<1>2. /\ NextPair \in Pairs /\ NextPair = bus.rx[1]
      /\ Tail(bus.rx) \in Seq(Pairs)
      /\ Len(Tail(bus.rx)) = Len(bus.rx) - 1
      /\ \A i \in 1 .. Len(Tail(bus.rx)) : Tail(bus.rx)[i] = bus.rx[i + 1]
  BY <1>1, HeadTailProperties DEF NextPair
<1>3. Len(bus.rx) \in Nat /\ Len(bus.rx) # 0
  BY <1>1, EmptySeq, LenProperties
<1>4. Tail(bus.rx) = <<>> <=> Len(Tail(bus.rx)) = 0
  BY <1>2, EmptySeq
<1> QED
  BY <1>2, <1>3, <1>4

(* What every step that takes a new pair establishes, whatever it does     *)
(* with it.                                                                *)
LEMMA TakeNewPair ==
  ASSUME PipeInv, bus.rx # <<>>, TakePair, lastPair' = NextPair, life' = life
  PROVE  /\ bus' \in BusType
         /\ subs' \in 0 .. 2
         /\ lastPair' \in Pairs
         /\ KnownIfSubscribed(bus)'
         /\ LatestIsCurrent(bus)'
         /\ Known(bus)
<1>1. bus \in BusType /\ Known(bus)
  BY DEF PipeInv, BusInv, KnownIfSubscribed
<1>2. /\ bus' = [bus EXCEPT !.rx = Tail(bus.rx)]
      /\ subs' = subs
  BY DEF TakePair
<1>3. /\ bus'.rx = Tail(bus.rx) /\ bus'.net = bus.net /\ bus'.route = bus.route
      /\ bus' \in BusType
  BY <1>1, <1>2, TakeFirst DEF BusType
<1>4. KnownIfSubscribed(bus)'
  BY <1>1, <1>2, <1>3 DEF PipeInv, BusInv, KnownIfSubscribed, Known
<1>5. LatestIsCurrent(bus)'
  <2>1. bus.rx[Len(bus.rx)] = <<bus.net, bus.route>>
    BY <1>1 DEF PipeInv, BusInv, LatestIsCurrent, Latest
  <2>2. CASE Len(bus.rx) = 1
    BY <2>1, <2>2, <1>3, TakeFirst DEF LatestIsCurrent, Latest
  <2>3. CASE Len(bus.rx) # 1
    <3>1. /\ Tail(bus.rx) # <<>>
          /\ Len(bus.rx) - 1 \in 1 .. Len(bus.rx) - 1
      BY <2>3, TakeFirst
    <3>2. Tail(bus.rx)[Len(bus.rx) - 1] = bus.rx[Len(bus.rx)]
      BY <3>1, TakeFirst
    <3> QED
      BY <2>1, <3>1, <3>2, <1>3, TakeFirst DEF LatestIsCurrent, Latest
  <2> QED
    BY <2>2, <2>3
<1> QED
  BY <1>1, <1>2, <1>3, <1>4, <1>5, TakeFirst DEF PipeInv

(* Taking a pair keeps the invariant, whether it is dropped as a repeat,   *)
(* starts routing, waits for an activity or is sent on.                    *)
LEMMA DrainStep ==
  ASSUME PipeInv, DrainRepeated \/ DrainRoutes \/ DrainWaits \/ DrainEmits
  PROVE  PipeInv'
<1> USE DEF lifeVars, pipeVars
<1>1. CASE DrainRepeated
  <2>1. /\ bus.rx # <<>> /\ NextPair = lastPair /\ TakePair
        /\ UNCHANGED <<life, lastPair, waiting, emitted, mainPc>>
    BY <1>1 DEF DrainRepeated, TakePair
  <2>2. /\ bus' \in BusType /\ subs' \in 0 .. 2
        /\ lastPair' \in Pairs \cup {<<>>}
        /\ KnownIfSubscribed(bus)' /\ LatestIsCurrent(bus)' /\ Known(bus)
    BY <2>1, TakeNewPair
  <2>3. RoutingUnderWay(bus)'
    <3>1. SUFFICES ASSUME lastPair = ConnectedDirect, ~waiting, ~Accepting
                   PROVE  \E i \in 1 .. Len(bus'.rx) : bus'.rx[i] # ConnectedDirect
      BY <2>1 DEF RoutingUnderWay, Accepting
    <3>2. PICK i \in 1 .. Len(bus.rx) : bus.rx[i] # ConnectedDirect
      BY <2>2, <3>1 DEF PipeInv, BusInv, RoutingUnderWay
    <3>3. bus'.rx = Tail(bus.rx)
      BY <2>1 DEF TakePair, PipeInv, BusInv, BusType
    <3>4. i # 1
      BY <2>1, <3>1, <3>2, TakeFirst
    <3>5. /\ i - 1 \in 1 .. Len(bus.rx) - 1
          /\ (i - 1) + 1 = i
      BY <2>1, <3>2, <3>4, TakeFirst
    <3>6. bus'.rx[i - 1] = bus.rx[i] /\ Len(bus'.rx) = Len(bus.rx) - 1
      BY <2>1, <3>3, <3>5, TakeFirst
    <3> QED
      BY <3>2, <3>5, <3>6
  <2>4. EmittedMatches'
    BY <2>1 DEF PipeInv, EmittedMatches
  <2> QED
    BY <2>2, <2>3, <2>4 DEF PipeInv, BusInv
<1>2. CASE DrainRoutes
  <2>1. /\ bus.rx # <<>> /\ TakePair /\ lastPair' = NextPair
        /\ NextPair = ConnectedDirect /\ life' = life
        /\ waiting' = FALSE /\ mainPc' = "acceptInDrain"
    BY <1>2 DEF DrainRoutes, RouteThroughTunnel, IsNewPair, TakePair,
                ConnectedDirect
  <2>2. RoutingUnderWay(bus)' /\ EmittedMatches'
    BY <2>1 DEF RoutingUnderWay, Accepting, EmittedMatches
  <2> QED
    BY <2>1, <2>2, TakeNewPair DEF PipeInv, BusInv
<1>3. CASE DrainWaits
  <2>1. /\ bus.rx # <<>> /\ TakePair /\ lastPair' = NextPair
        /\ NextPair = ConnectedDirect /\ life' = life
        /\ waiting' = TRUE /\ emitted' = "CONNECTING"
    BY <1>3 DEF DrainWaits, IsNewPair, TakePair, ConnectedDirect, Emit
  <2>2. RoutingUnderWay(bus)' /\ EmittedMatches'
    BY <2>1 DEF RoutingUnderWay, EmittedMatches
  <2> QED
    BY <2>1, <2>2, TakeNewPair DEF PipeInv, BusInv
<1>4. CASE DrainEmits
  <2>1. /\ bus.rx # <<>> /\ TakePair /\ lastPair' = NextPair
        /\ NextPair # ConnectedDirect /\ life' = life
        /\ waiting' = FALSE /\ emitted' = NextPair[1]
    BY <1>4 DEF DrainEmits, IsNewPair, TakePair, ConnectedDirect, Emit
  <2>2. RoutingUnderWay(bus)' /\ EmittedMatches'
    BY <2>1 DEF RoutingUnderWay, EmittedMatches
  <2> QED
    BY <2>1, <2>2, TakeNewPair DEF PipeInv, BusInv
<1> QED
  BY <1>1, <1>2, <1>3, <1>4

(* accept(TRUE) after routeThroughTunnel: the new pair is not the one the  *)
(* main thread took.                                                       *)
LEMMA AcceptRoutedStep ==
  ASSUME PipeInv, AcceptRouted
  PROVE  PipeInv'
<1> DEFINE c == AcceptRoute(bus, "routed")
<1>1. /\ bus' = c
      /\ UNCHANGED <<life, subs, lastPair, waiting, emitted>>
  BY DEF AcceptRouted, Publish, lifeVars, pipeVars
<1>2. BusInv(c)
  BY AcceptRouteKeeps DEF PipeInv, RouteStates
<1>3. RoutingUnderWay(bus)'
  <2>1. SUFFICES ASSUME Known(bus'), lastPair = ConnectedDirect
                 PROVE  \E i \in 1 .. Len(bus'.rx) : bus'.rx[i] # ConnectedDirect
    BY <1>1 DEF RoutingUnderWay
  <2>2. Known(bus) /\ subs = 2
    <3>1. life # "destroyed"
      BY <1>1, <1>2, <2>1 DEF BusInv, KnownIfSubscribed, Known
    <3> QED
      BY <2>1, <3>1, NoPairYet DEF PipeInv, BusInv, KnownIfSubscribed, Known
  <2>3. /\ bus'.rx = Append(bus.rx, <<bus.net, "routed">>)
        /\ bus.rx \in Seq(Pairs)
        /\ <<bus.net, "routed">> \in Pairs
    BY <1>1, <2>2 DEF AcceptRoute, PipeInv, BusInv, BusType, Known, Pairs,
                      RouteStates
  <2>4. /\ bus'.rx[Len(bus.rx) + 1] = <<bus.net, "routed">>
        /\ Len(bus'.rx) = Len(bus.rx) + 1
    BY <2>3, AppendPair
  <2>5. Len(bus.rx) + 1 \in 1 .. Len(bus'.rx)
    BY <2>3, <2>4, LenProperties
  <2>6. <<bus.net, "routed">> # ConnectedDirect
    BY DEF ConnectedDirect
  <2> QED
    BY <2>4, <2>5, <2>6
<1>4. BusInv(bus)'
  BY <1>1, <1>2, <1>3 DEF BusInv, KnownIfSubscribed, LatestIsCurrent, Latest,
                          Known
<1>5. EmittedMatches'
  BY <1>1 DEF PipeInv, EmittedMatches
<1> QED
  BY <1>1, <1>4, <1>5 DEF PipeInv

(* The steps that call accept() once or twice and change nothing else of   *)
(* the pipeline.                                                           *)
LEMMA AcceptSteps ==
  ASSUME PipeInv,
         \/ OnConnecting \/ OnConnected \/ OnStartedWaiting \/ OnStoppedWaiting
         \/ RunTunnelConnecting \/ RunTunnelNotRouting
         \/ StopConnecting \/ StopNotRouting
         \/ \E k \in Configs : ConfigRestarts(k)
         \/ \E c \in Clients : RestartTunnel(c)
  PROVE  PipeInv'
<1> DEFINE Rest == /\ UNCHANGED <<life, subs, lastPair, waiting, emitted>>
                   /\ Accepting' <=> Accepting
<1>1. subs \in 0 .. 2 /\ BusInv(bus)
  BY DEF PipeInv
<1>2. \A v \in NetStates : BusInv(AcceptNet(bus, v))
  BY <1>1, AcceptNetKeeps
<1>3. \A v \in RouteStates : BusInv(AcceptRoute(bus, v))
  BY <1>1, AcceptRouteKeeps
<1>4. CASE OnConnecting \/ OnConnected \/ OnStartedWaiting \/ OnStoppedWaiting
  <2>1. Rest /\ \E v \in NetStates : bus' = AcceptNet(bus, v)
    BY <1>4 DEF OnConnecting, OnConnected, OnStartedWaiting, OnStoppedWaiting,
                NetTask, Publish, NetStates, lifeVars, pipeVars,
                Accepting
  <2> QED
    BY <2>1, <1>2, BusStep
<1>5. CASE RunTunnelConnecting \/ StopConnecting
  <2>1. Rest /\ \E v \in NetStates : bus' = AcceptNet(bus, v)
    BY <1>5 DEF RunTunnelConnecting, StopConnecting, ThreadStep, Publish,
                NetStates, pipeVars, Accepting
  <2> QED
    BY <2>1, <1>2, BusStep
<1>6. CASE RunTunnelNotRouting \/ StopNotRouting
  <2>1. Rest /\ \E v \in RouteStates : bus' = AcceptRoute(bus, v)
    BY <1>6 DEF RunTunnelNotRouting, StopNotRouting, ThreadStep, Publish,
                RouteStates, pipeVars, Accepting
  <2> QED
    BY <2>1, <1>3, BusStep
<1>7. CASE \E k \in Configs : ConfigRestarts(k)
  <2>1. Rest /\ \E v \in RouteStates : bus' = AcceptRoute(bus, v)
    BY <1>7 DEF ConfigRestarts, ConfigStep, RouteStates, lifeVars, pipeVars,
                Accepting
  <2> QED
    BY <2>1, <1>3, BusStep
<1>8. CASE \E c \in Clients : RestartTunnel(c)
  <2>1. Rest
    BY <1>8 DEF RestartTunnel, Command, lifeVars, pipeVars, Accepting
  <2>2. \/ bus' = AcceptNet(bus, "CONNECTING")
        \/ bus' = AcceptRoute(AcceptNet(bus, "CONNECTING"), "direct")
    BY <1>8 DEF RestartTunnel, Publish
  <2>3. BusInv(AcceptNet(bus, "CONNECTING"))
    BY <1>2 DEF NetStates
  <2>4. BusInv(AcceptRoute(AcceptNet(bus, "CONNECTING"), "direct"))
    BY <1>1, <2>3, AcceptRouteKeeps DEF RouteStates
  <2> QED
    BY <2>1, <2>2, <2>3, <2>4, BusStep
<1> QED
  BY <1>4, <1>5, <1>6, <1>7, <1>8

(* The steps that change the subscription, what the main thread is doing   *)
(* or the life of the service.                                             *)
LEMMA OtherPipeSteps ==
  ASSUME PipeInv,
         \/ IoSubscribe \/ DrainEnds \/ BeginDrain
         \/ OnDestroy \/ OnDestroyWaits \/ DisposeWithoutThread
         \/ JoinTunnelThread \/ BringDown
         \/ \E c \in Clients : Register(c)
  PROVE  PipeInv'
<1> USE DEF lifeVars, pipeVars
<1>1. CASE IoSubscribe
  <2>1. /\ subs' = subs + 1 /\ subs \in {0, 1} /\ life # "destroyed"
        /\ UNCHANGED <<life, bus, lastPair, waiting, emitted, mainPc>>
    BY <1>1 DEF IoSubscribe, PipeInv
  <2>2. BusInv(bus)' /\ subs' \in 0 .. 2
    BY <2>1 DEF PipeInv, BusInv, KnownIfSubscribed, LatestIsCurrent, Latest,
                RoutingUnderWay, Known, Accepting
  <2>3. EmittedMatches'
    BY <2>1 DEF PipeInv, EmittedMatches
  <2> QED
    BY <2>1, <2>2, <2>3 DEF PipeInv
<1>2. CASE DrainEnds \/ BeginDrain \/ OnDestroy \/ OnDestroyWaits
  <2>1. /\ ~Accepting /\ ~Accepting'
        /\ UNCHANGED <<life, subs, bus, lastPair, waiting, emitted>>
    BY <1>2 DEF DrainEnds, BeginDrain, OnDestroy, OnDestroyWaits, Runs,
                Accepting
  <2> QED
    BY <2>1 DEF PipeInv, BusInv, KnownIfSubscribed, LatestIsCurrent, Latest,
                RoutingUnderWay, Known, EmittedMatches
<1>3. CASE BringDown
  <2>1. /\ life # "destroyed" /\ life' # "destroyed"
        /\ UNCHANGED <<subs, bus, lastPair, waiting, emitted, mainPc>>
    BY <1>3 DEF BringDown
  <2> QED
    BY <2>1 DEF PipeInv, BusInv, KnownIfSubscribed, LatestIsCurrent, Latest,
                RoutingUnderWay, Known, Accepting, EmittedMatches
<1>4. CASE DisposeWithoutThread \/ JoinTunnelThread
  <2>1. /\ life' = "destroyed" /\ subs' = 0 /\ waiting' = FALSE
        /\ bus' = [net |-> None, route |-> None, rx |-> <<>>]
        /\ UNCHANGED <<lastPair, emitted>>
    BY <1>4 DEF DisposeWithoutThread, JoinTunnelThread, Dispose
  <2>2. bus' \in BusType
    BY <2>1, EmptySeq DEF BusType
  <2> QED
    BY <2>1, <2>2 DEF PipeInv, BusInv, KnownIfSubscribed, LatestIsCurrent,
                      RoutingUnderWay, Known, EmittedMatches
<1>5. CASE \E c \in Clients : Register(c)
  <2>1. /\ UNCHANGED <<life, subs, bus, lastPair, emitted>>
        /\ \/ waiting' = FALSE /\ mainPc' = "acceptAlone"
           \/ waiting' = waiting /\ (Accepting' <=> Accepting)
    BY <1>5 DEF Register, Command, RouteThroughTunnel, Accepting
  <2> QED
    BY <2>1 DEF PipeInv, BusInv, KnownIfSubscribed, LatestIsCurrent, Latest,
                RoutingUnderWay, Known, Accepting, EmittedMatches
<1> QED
  BY <1>1, <1>2, <1>3, <1>4, <1>5

(* Every other step leaves the pipeline alone.                             *)
LEMMA IdleSteps ==
  ASSUME \/ UNCHANGED vars
         \/ ShowNotification \/ RestartPsiphon \/ OnHomepage
         \/ OnStartCommand \/ OnStopIntent
         \/ \E c \in Clients : \/ Unregister(c) \/ StopService(c)
                               \/ ChangedLocale(c) \/ ClientDies(c)
         \/ ConfigStartsThread
         \/ \E k \in Configs : \/ ConfigResolves(k) \/ ConfigStopsRouting(k)
                               \/ ConfigStopHangs(k)
         \/ NativeRuns
         \/ RunTunnel \/ RunTunnelEstablishes \/ RunTunnelStartsCore
         \/ RunTunnelFails \/ RunTunnelSignalled
         \/ StopMarks \/ StopVpn \/ StopVpnHangs \/ StopCore
         \/ StopParentService
         \/ \E o \in CoreTasks : CorePosts(o)
  PROVE  UNCHANGED pipeline
<1> USE DEF pipeline, lifeVars, pipeVars
<1>1. ASSUME UNCHANGED vars PROVE UNCHANGED pipeline
  BY <1>1 DEF vars
<1>2. ASSUME ShowNotification \/ RestartPsiphon \/ OnHomepage
      PROVE  UNCHANGED pipeline
  BY <1>2 DEF ShowNotification, RestartPsiphon, OnHomepage
<1>3. ASSUME OnStartCommand \/ OnStopIntent PROVE UNCHANGED pipeline
  BY <1>3 DEF OnStartCommand, OnStopIntent
<1>4. ASSUME NEW c \in Clients,
             Unregister(c) \/ StopService(c) \/ ChangedLocale(c) \/ ClientDies(c)
      PROVE  UNCHANGED pipeline
  BY <1>4 DEF Unregister, StopService, ChangedLocale, ClientDies
<1>5. ASSUME \/ ConfigStartsThread
             \/ \E k \in Configs : \/ ConfigResolves(k) \/ ConfigStopsRouting(k)
                                   \/ ConfigStopHangs(k)
      PROVE  UNCHANGED pipeline
  BY <1>5 DEF ConfigStartsThread, ConfigResolves, ConfigStopsRouting,
              ConfigStopHangs, ConfigStep
<1>6. ASSUME \/ RunTunnel \/ RunTunnelEstablishes \/ RunTunnelStartsCore
             \/ RunTunnelFails \/ RunTunnelSignalled
      PROVE  UNCHANGED pipeline
  BY <1>6 DEF RunTunnel, RunTunnelEstablishes, RunTunnelStartsCore,
              RunTunnelFails, RunTunnelSignalled, ThreadStep
<1>7. ASSUME StopMarks \/ StopVpn \/ StopVpnHangs \/ StopCore \/ StopParentService
      PROVE  UNCHANGED pipeline
  BY <1>7 DEF StopMarks, StopVpn, StopVpnHangs, StopCore, StopParentService,
              ThreadStep
<1>8. ASSUME NEW o \in CoreTasks, CorePosts(o) PROVE UNCHANGED pipeline
  BY <1>8 DEF CorePosts
<1>9. ASSUME NativeRuns PROVE UNCHANGED pipeline
  BY <1>9 DEF NativeRuns
<1> QED
  BY <1>1, <1>2, <1>3, <1>4, <1>5, <1>6, <1>7, <1>8, <1>9

(* The pipeline starts with nothing subscribed, queued or sent.            *)
LEMMA PipeInit == Init => PipeInv
<1> SUFFICES ASSUME Init PROVE PipeInv
  OBVIOUS
<1>1. /\ subs = 0 /\ bus = [net |-> None, route |-> None, rx |-> <<>>]
      /\ lastPair = <<>> /\ waiting = FALSE /\ emitted = None /\ life = "up"
  BY DEF Init
<1>2. bus \in BusType
  BY <1>1, EmptySeq DEF BusType
<1> QED
  BY <1>1, <1>2, NoPairYet DEF PipeInv, BusInv, KnownIfSubscribed,
       LatestIsCurrent, RoutingUnderWay, Known, EmittedMatches

(* Every step of the service keeps the invariant of the pipeline.          *)
LEMMA PipeStep == PipeInv /\ [Next]_vars => PipeInv'
<1> SUFFICES ASSUME PipeInv, [Next]_vars PROVE PipeInv'
  OBVIOUS
<1>1. ASSUME UNCHANGED pipeline PROVE PipeInv'
  BY <1>1 DEF pipeline, PipeInv, BusInv, KnownIfSubscribed, LatestIsCurrent,
       Latest, RoutingUnderWay, Known, Accepting, EmittedMatches
<1>2. CASE IoSubscribe \/ BringDown
  BY <1>2, OtherPipeSteps
<1>3. CASE PipelineNext
  BY <1>3, OtherPipeSteps, DrainStep, AcceptRoutedStep DEF PipelineNext
<1>4. CASE TaskNext
  BY <1>4, <1>1, OtherPipeSteps, AcceptSteps, IdleSteps DEF TaskNext
<1>5. CASE CommandNext
  BY <1>5, <1>1, OtherPipeSteps, AcceptSteps, IdleSteps DEF CommandNext
<1>6. CASE ConfigNext
  BY <1>6, <1>1, AcceptSteps, IdleSteps DEF ConfigNext
<1>7. CASE ThreadNext
  BY <1>7, <1>1, AcceptSteps, IdleSteps DEF ThreadNext
<1>8. CASE \/ \E o \in CoreTasks : CorePosts(o)
           \/ NativeRuns \/ UNCHANGED vars
  BY <1>8, <1>1, IdleSteps
<1> QED
  BY <1>2, <1>3, <1>4, <1>5, <1>6, <1>7, <1>8 DEF Next

(* With an empty queue the pair taken last is the current one, so what was *)
(* sent last is its meaning.                                               *)
LEMMA PipeImpliesReport == PipeInv => ReportIsCurrent
<1> SUFFICES ASSUME PipeInv, mainPc = "idle", bus.rx = <<>>, PairKnown
             PROVE  /\ Reported = IF waiting THEN "CONNECTING" ELSE bus.net
                    /\ waiting <=> <<bus.net, bus.route>> = ConnectedDirect
  BY DEF ReportIsCurrent, Settled, ConnectedDirect
<1>1. lastPair = <<bus.net, bus.route>> /\ bus.net \in NetStates
  BY DEF PairKnown, PipeInv, BusInv, BusType, LatestIsCurrent, Latest, Known
<1>2. waiting <=> lastPair = ConnectedDirect
  <2>1. Len(bus.rx) = 0
    BY EmptySeq
  <2> QED
    BY <2>1 DEF PairKnown, PipeInv, BusInv, RoutingUnderWay, Known, Accepting,
                EmittedMatches
<1>3. emitted = IF waiting THEN "CONNECTING" ELSE bus.net
  BY <1>1, <1>2 DEF PipeInv, EmittedMatches
<1> QED
  BY <1>1, <1>2, <1>3 DEF Reported, NetStates, None

(* Whatever threads call accept(), in whatever order and however often:    *)
(* when the queue of observeOn is empty, clients have been told the        *)
(* meaning of the relays' last values.                                     *)
THEOREM ReportAlwaysCurrent == Spec => []ReportIsCurrent
BY PipeInit, PipeStep, PipeImpliesReport, PTL DEF Spec

-----------------------------------------------------------------------------
(* onDestroy, when configurations are resolved in the handler itself: then *)
(* only onStartCommand starts a tunnel thread, and never while the main    *)
(* thread is in onDestroy.                                                 *)

(* The places of runTunnel at which the interface is not open.             *)
Closed == {None, "begin", "acceptNet", "acceptRoute", "establish",
           "stopCore", "stopService", "done"}

(* The inductive invariant behind DestroyedIsQuiescent: no configuration   *)
(* is on its way, the interface is open only inside the session, onDestroy *)
(* found no thread and none has come, and a destroyed service has an empty *)
(* queue, so that no pair can make it wait again.                          *)
DestroyInv ==
  /\ cfg \in [Configs -> {None, "done"}]
  /\ firstStart => thread = None
  /\ thread \in Closed => tunFd = FALSE
  /\ mainPc = "dispose" => thread = None
  /\ life = "destroyed" =>
       /\ thread \in {None, "done"}
       /\ waiting = FALSE
       /\ subs = 0
       /\ bus.rx = <<>>

(* A new service has no thread and no interface.                           *)
LEMMA DestroyInit == Init => DestroyInv
<1> SUFFICES ASSUME Init PROVE DestroyInv
  OBVIOUS
<1> QED
  BY DEF Init, DestroyInv

(* Values offered to the relays of a destroyed service go nowhere.         *)
LEMMA NoSubscriber ==
  ASSUME subs = 0
  PROVE  /\ \A b, v : AcceptNet(b, v) = b
         /\ \A b, v : AcceptRoute(b, v) = b
  BY DEF AcceptNet, AcceptRoute

(* Every step keeps DestroyInv: onDestroy waits for the thread it finds,   *)
(* and nothing starts another one afterwards.                              *)
LEMMA DestroyStep ==
  ASSUME ~AsyncConfig, DestroyInv, [Next]_vars
  PROVE  DestroyInv'
<1> USE DEF lifeVars, threadVars, pipeVars, vpnVars
<1>1. ASSUME UNCHANGED <<cfg, firstStart, thread, tunFd, mainPc, life, waiting,
                         subs, bus>>
      PROVE  DestroyInv'
  BY <1>1 DEF DestroyInv
<1>2. CASE UNCHANGED vars
  BY <1>1, <1>2 DEF vars
<1>3. CASE IoSubscribe
  BY <1>3 DEF IoSubscribe, DestroyInv
<1>4. CASE BringDown
  BY <1>4 DEF BringDown, DestroyInv
<1>5. CASE NativeRuns \/ \E o \in CoreTasks : CorePosts(o)
  BY <1>1, <1>5 DEF NativeRuns, CorePosts
<1>6. CASE PipelineNext
  <2>1. UNCHANGED <<cfg, firstStart, thread, tunFd, life, subs>>
    BY <1>6 DEF PipelineNext, DrainRepeated, DrainRoutes, DrainWaits,
                DrainEmits, DrainEnds, AcceptRouted, TakePair
  <2>2. mainPc' # "dispose"
    BY <1>6 DEF PipelineNext, RouteThroughTunnel, DrainRepeated, DrainRoutes,
                DrainWaits,
                DrainEmits, DrainEnds, AcceptRouted, TakePair
  <2>3. ASSUME life = "destroyed"
        PROVE  waiting' = FALSE /\ bus'.rx = <<>>
    <3>1. subs = 0 /\ bus.rx = <<>> /\ waiting = FALSE
      BY <2>3 DEF DestroyInv
    <3>2. CASE DrainEnds
      BY <3>1, <3>2 DEF DrainEnds
    <3>3. CASE AcceptRouted
      BY <3>1, <3>3, NoSubscriber DEF AcceptRouted, Publish
    <3>4. CASE DrainRepeated \/ DrainRoutes \/ DrainWaits \/ DrainEmits
      BY <3>1, <3>4 DEF DrainRepeated, DrainRoutes, DrainWaits, DrainEmits,
                        IsNewPair
    <3> QED
      BY <1>6, <3>2, <3>3, <3>4 DEF PipelineNext
  <2> QED
    BY <2>1, <2>2, <2>3 DEF DestroyInv
<1>7. CASE TaskNext
  <2>1. CASE BeginDrain
    BY <2>1 DEF BeginDrain, DestroyInv
  <2>2. CASE ShowNotification \/ RestartPsiphon \/ OnHomepage
    BY <1>1, <2>2 DEF ShowNotification, RestartPsiphon, OnHomepage
  <2>3. CASE OnConnecting \/ OnConnected \/ OnStartedWaiting \/ OnStoppedWaiting
    <3>1. /\ UNCHANGED <<cfg, firstStart, thread, tunFd, mainPc, life, waiting,
                         subs>>
          /\ \E v \in NetStates : bus' = AcceptNet(bus, v)
      BY <2>3 DEF OnConnecting, OnConnected, OnStartedWaiting,
                  OnStoppedWaiting, NetTask, Publish, NetStates
    <3> QED
      BY <3>1, NoSubscriber DEF DestroyInv
  <2>4. CASE OnDestroy \/ OnDestroyWaits
    BY <2>4 DEF OnDestroy, OnDestroyWaits, DestroyInv
  <2>5. CASE DisposeWithoutThread \/ JoinTunnelThread
    <3>1. /\ thread \in {None, "done"} /\ mainPc' = "idle"
          /\ UNCHANGED <<firstStart, thread, tunFd>>
      BY <2>5 DEF DisposeWithoutThread, JoinTunnelThread, DestroyInv
    <3>2. Dispose
      BY <2>5 DEF DisposeWithoutThread, JoinTunnelThread
    <3>3. cfg' \in [Configs -> {None, "done"}]
      BY <3>2 DEF Dispose, DestroyInv
    <3> QED
      BY <3>1, <3>2, <3>3 DEF Dispose, DestroyInv
  <2> QED
    BY <1>7, <2>1, <2>2, <2>3, <2>4, <2>5 DEF TaskNext
<1>8. CASE CommandNext
  <2>1. CASE OnStartCommand
    <3>1. /\ thread = None /\ thread' = "begin" /\ firstStart' = FALSE
          /\ life # "destroyed" /\ mainPc = "idle"
          /\ UNCHANGED <<cfg, tunFd, mainPc, life>>
      BY <2>1 DEF OnStartCommand, DestroyInv
    <3> QED
      BY <3>1 DEF DestroyInv, Closed
  <2>2. CASE OnStopIntent
    BY <1>1, <2>2 DEF OnStopIntent
  <2>3. ASSUME NEW c \in Clients, Register(c) PROVE DestroyInv'
    BY <2>3 DEF Register, RouteThroughTunnel, Command, DestroyInv
  <2>4. ASSUME NEW c \in Clients,
               Unregister(c) \/ StopService(c) \/ ChangedLocale(c) \/ ClientDies(c)
        PROVE  DestroyInv'
    BY <1>1, <2>4 DEF Unregister, StopService, ChangedLocale, ClientDies
  <2>5. ASSUME NEW c \in Clients, RestartTunnel(c) PROVE DestroyInv'
    <3>1. /\ UNCHANGED <<firstStart, thread, tunFd, life, waiting, subs>>
          /\ mainPc' # "dispose"
          /\ \E k \in Configs : cfg' = [cfg EXCEPT ![k] = "done"]
          /\ bus' \in {AcceptNet(bus, "CONNECTING"),
                      AcceptRoute(AcceptNet(bus, "CONNECTING"), "direct")}
      BY <2>5 DEF RestartTunnel, Command, Publish
    <3>2. cfg' \in [Configs -> {None, "done"}]
      BY <3>1 DEF DestroyInv
    <3> QED
      BY <3>1, <3>2, NoSubscriber DEF DestroyInv
  <2> QED
    BY <1>8, <2>1, <2>2, <2>3, <2>4, <2>5 DEF CommandNext
<1>9. CASE ConfigNext
  <2>1. \A k \in Configs : cfg[k] \in {None, "done"}
    BY DEF DestroyInv
  <2>2. 0 \in Configs
    BY BoundAssumption DEF Configs
  <2> QED
    BY <1>9, <2>1, <2>2 DEF ConfigNext, ConfigStartsThread, ConfigResolves,
         ConfigStopsRouting, ConfigStopHangs, ConfigRestarts, ConfigStep, None
<1>10. CASE ThreadNext
  <2>1. /\ life # "destroyed" /\ mainPc # "dispose" /\ ~firstStart
        /\ UNCHANGED <<cfg, firstStart, mainPc, life>>
    BY <1>10 DEF ThreadNext, RunTunnel, RunTunnelConnecting,
         RunTunnelNotRouting, RunTunnelEstablishes, RunTunnelStartsCore,
         RunTunnelFails, RunTunnelSignalled, StopMarks, StopConnecting,
         StopNotRouting, StopVpn, StopVpnHangs, StopCore, StopParentService,
         ThreadStep,
         DestroyInv, None
  <2>2. thread' \in Closed => tunFd' = FALSE
    BY <1>10 DEF ThreadNext, RunTunnel, RunTunnelConnecting,
         RunTunnelNotRouting, RunTunnelEstablishes, RunTunnelStartsCore,
         RunTunnelFails, RunTunnelSignalled, StopMarks, StopConnecting,
         StopNotRouting, StopVpn, StopVpnHangs, StopCore, StopParentService,
         ThreadStep,
         DestroyInv, Closed, None
  <2> QED
    BY <2>1, <2>2 DEF DestroyInv
<1> QED
  BY <1>2, <1>3, <1>4, <1>5, <1>6, <1>7, <1>8, <1>9, <1>10 DEF Next

(* After onDestroy nothing of the session is left, for any clients and any *)
(* number of commands, provided configurations are resolved in the handler *)
(* (no location has to be waited for).                                     *)
THEOREM DestroyLeavesNothing ==
  ASSUME ~AsyncConfig
  PROVE  Spec => []DestroyedIsQuiescent
<1>1. DestroyInv /\ [Next]_vars => DestroyInv'
  BY DestroyStep
<1>2. DestroyInv => DestroyedIsQuiescent
  BY DEF DestroyInv, DestroyedIsQuiescent, Closed
<1> QED
  BY <1>1, <1>2, DestroyInit, PTL DEF Spec

-----------------------------------------------------------------------------
(* Type correctness.  The invariant of the pipeline gives the types of the *)
(* bus and of the pair taken last; the rest is taken part by part.         *)

PhasesOK ==
  /\ life \in {"up", "dying", "destroyed"}
  /\ latch \in {"null", "armed", "down"}
  /\ mainPc \in MainSteps
  /\ thread \in ThreadSteps
  /\ cfg \in [Configs -> ConfigStages]

FlagsOK ==
  /\ stopSelf \in BOOLEAN /\ firstStart \in BOOLEAN /\ serviceRunning \in BOOLEAN
  /\ isStopping \in BOOLEAN /\ waiting \in BOOLEAN /\ homePages \in BOOLEAN
  /\ tunFd \in BOOLEAN /\ isRouting \in BOOLEAN /\ coreOn \in BOOLEAN

QueueOK ==
  /\ mq \in Seq(Tasks)
  /\ emitted \in NetStates \cup {None}
  /\ notification \in NetStates \cup {None}

ClientsOK ==
  /\ clients \subseteq Clients /\ dead \subseteq Clients
  /\ commands \in 0 .. MaxCommands /\ coreEvents \in 0 .. MaxCoreEvents

NativeOK == native \in NativeStates

(* The parts and the invariant of the pipeline are the type invariant.     *)
LEMMA TypeParts ==
  ASSUME PipeInv, PhasesOK, FlagsOK, QueueOK, ClientsOK, NativeOK
  PROVE  TypeOK
BY DEF PipeInv, BusInv, BusType, PhasesOK, FlagsOK, QueueOK, ClientsOK,
       NativeOK, TypeOK

(* The tasks the process posts to itself, and what Schedule returns.       *)
LEMMA TaskTypes ==
  /\ \A o \in CoreTasks \cup {"drain", "restartPsiphon", "destroy"} :
       Task(o) \in Tasks
  /\ \A v \in NetStates : Notify(v) \in Tasks
  /\ \A q \in Seq(Tasks) : \A t \in Tasks : Append(q, t) \in Seq(Tasks)
  /\ \A q \in Seq(Tasks) : \A b : Schedule(q, b) \in Seq(Tasks)
<1>1. \A o \in CoreTasks \cup {"drain", "restartPsiphon", "destroy"} :
        Task(o) \in Tasks
  BY DEF Tasks, Task
<1>2. \A v \in NetStates : Notify(v) \in Tasks
  BY DEF Tasks, Notify
<1>3. \A q \in Seq(Tasks) : \A t \in Tasks : Append(q, t) \in Seq(Tasks)
  OBVIOUS
<1>4. \A q \in Seq(Tasks) : \A b : Schedule(q, b) \in Seq(Tasks)
  <2>1. Task("drain") \in Tasks
    BY <1>1
  <2> QED
    BY <2>1, <1>3 DEF Schedule
<1> QED
  BY <1>1, <1>2, <1>3, <1>4

(* What VpnManager's methods make of the native thread.                    *)
LEMMA NativeStep ==
  ASSUME NativeOK, [Next]_vars
  PROVE  NativeOK'
<1> USE DEF NativeOK, vpnVars
<1>1. CASE UNCHANGED vars
  BY <1>1 DEF vars
<1>2. CASE IoSubscribe \/ BringDown \/ \E o \in CoreTasks : CorePosts(o)
  BY <1>2 DEF IoSubscribe, BringDown, CorePosts
<1>3. CASE NativeRuns
  BY <1>3 DEF NativeRuns, NativeStates
<1>4. CASE PipelineNext
  <2>1. native' \in {native, "starting"}
    BY <1>4 DEF PipelineNext, DrainRepeated, DrainRoutes, DrainWaits,
         DrainEmits, DrainEnds, AcceptRouted, RouteThroughTunnel
  <2> QED
    BY <2>1 DEF NativeStates
<1>5. CASE TaskNext
  BY <1>5 DEF TaskNext, BeginDrain, ShowNotification, RestartPsiphon,
       OnConnecting, OnConnected, OnStartedWaiting, OnStoppedWaiting, NetTask,
       OnHomepage, OnDestroy, DisposeWithoutThread, OnDestroyWaits,
       JoinTunnelThread
<1>6. CASE CommandNext
  <2>1. CASE OnStartCommand \/ OnStopIntent
    BY <2>1 DEF OnStartCommand, OnStopIntent
  <2>2. ASSUME NEW c \in Clients,
               Unregister(c) \/ StopService(c) \/ ChangedLocale(c) \/ ClientDies(c)
        PROVE  NativeOK'
    BY <2>2 DEF Unregister, StopService, ChangedLocale, ClientDies
  <2>3. ASSUME NEW c \in Clients, Register(c) \/ RestartTunnel(c)
        PROVE  NativeOK'
    <3>1. native' \in {native, "starting", "off", "deaf"}
      BY <2>3 DEF Register, RouteThroughTunnel, RestartTunnel,
                  StopRouteThroughTunnel, StopRouteLosesRequest
    <3> QED
      BY <3>1 DEF NativeStates
  <2> QED
    BY <1>6, <2>1, <2>2, <2>3 DEF CommandNext
<1>7. CASE ConfigNext
  <2>1. native' \in {native, "off", "deaf"}
    BY <1>7 DEF ConfigNext, ConfigStartsThread, ConfigResolves,
         ConfigStopsRouting, ConfigStopHangs, ConfigRestarts,
         StopRouteThroughTunnel, StopRouteLosesRequest
  <2> QED
    BY <2>1 DEF NativeStates
<1>8. CASE ThreadNext
  <2>1. native' \in {native, "off", "deaf"}
    BY <1>8 DEF ThreadNext, RunTunnel, RunTunnelConnecting,
         RunTunnelNotRouting, RunTunnelEstablishes, RunTunnelStartsCore,
         RunTunnelFails, RunTunnelSignalled, StopMarks, StopConnecting,
         StopNotRouting, StopVpn, StopVpnHangs, StopCore, StopParentService,
         StopRouteThroughTunnel, StopRouteLosesRequest
  <2> QED
    BY <2>1 DEF NativeStates
<1> QED
  BY <1>1, <1>2, <1>3, <1>4, <1>5, <1>6, <1>7, <1>8 DEF Next

(* The phases of the service, of its two threads and of a configuration.   *)
LEMMA PhasesStep ==
  ASSUME PhasesOK, [Next]_vars
  PROVE  PhasesOK'
<1> USE DEF lifeVars, threadVars, pipeVars, vpnVars, MainSteps, ThreadSteps,
            ConfigStages
<1>1. ASSUME UNCHANGED <<life, latch, mainPc, thread, cfg>> PROVE PhasesOK'
  BY <1>1 DEF PhasesOK
<1>2. CASE UNCHANGED vars
  BY <1>1, <1>2 DEF vars
<1>3. CASE IoSubscribe \/ NativeRuns \/ \E o \in CoreTasks : CorePosts(o)
  BY <1>1, <1>3 DEF IoSubscribe, NativeRuns, CorePosts
<1>4. CASE BringDown
  BY <1>4 DEF BringDown, PhasesOK
<1>5. CASE PipelineNext
  <2>1. UNCHANGED <<life, latch, thread, cfg>> /\ mainPc' \in MainSteps
    BY <1>5 DEF PipelineNext, DrainRepeated, DrainRoutes, DrainWaits,
         DrainEmits, DrainEnds, AcceptRouted, TakePair, RouteThroughTunnel,
         PhasesOK
  <2> QED
    BY <2>1 DEF PhasesOK
<1>6. CASE TaskNext
  <2>1. CASE \/ ShowNotification \/ RestartPsiphon \/ OnHomepage \/ OnConnecting
             \/ OnConnected \/ OnStartedWaiting \/ OnStoppedWaiting
    BY <1>1, <2>1 DEF ShowNotification, RestartPsiphon, OnHomepage,
         OnConnecting, OnConnected, OnStartedWaiting, OnStoppedWaiting, NetTask
  <2>2. CASE BeginDrain \/ OnDestroy
    BY <2>2 DEF BeginDrain, OnDestroy, PhasesOK
  <2>3. CASE OnDestroyWaits
    BY <2>3 DEF OnDestroyWaits, SignalStopService, PhasesOK
  <2>4. CASE DisposeWithoutThread \/ JoinTunnelThread
    <3>1. /\ latch' \in {latch, "null"} /\ mainPc' = "idle"
          /\ UNCHANGED thread /\ Dispose
      BY <2>4 DEF DisposeWithoutThread, JoinTunnelThread
    <3>2. life' = "destroyed" /\ cfg' \in [Configs -> ConfigStages]
      BY <3>1 DEF Dispose, PhasesOK
    <3> QED
      BY <3>1, <3>2 DEF PhasesOK
  <2> QED
    BY <1>6, <2>1, <2>2, <2>3, <2>4 DEF TaskNext
<1>7. CASE CommandNext
  <2>1. CASE OnStartCommand
    <3>1. cfg' \in [Configs -> ConfigStages] /\ thread' \in ThreadSteps
      BY <2>1 DEF OnStartCommand, PhasesOK
    <3> QED
      BY <2>1, <3>1 DEF OnStartCommand, PhasesOK
  <2>2. CASE OnStopIntent
    BY <2>2 DEF OnStopIntent, SignalStopService, PhasesOK
  <2>3. ASSUME NEW c \in Clients,
               Unregister(c) \/ ChangedLocale(c) \/ ClientDies(c)
        PROVE  PhasesOK'
    BY <1>1, <2>3 DEF Unregister, ChangedLocale, ClientDies
  <2>4. ASSUME NEW c \in Clients, Register(c) PROVE PhasesOK'
    BY <2>4 DEF Register, RouteThroughTunnel, PhasesOK
  <2>5. ASSUME NEW c \in Clients, StopService(c) PROVE PhasesOK'
    BY <2>5 DEF StopService, SignalStopService, PhasesOK
  <2>6. ASSUME NEW c \in Clients, RestartTunnel(c) PROVE PhasesOK'
    <3>1. /\ UNCHANGED <<life, latch, thread>> /\ mainPc' \in {mainPc, "hung"}
          /\ \E k \in Configs : \E v \in {"done", "pending"} :
               cfg' = [cfg EXCEPT ![k] = v]
      BY <2>6 DEF RestartTunnel
    <3>2. cfg' \in [Configs -> ConfigStages]
      BY <3>1 DEF PhasesOK
    <3> QED
      BY <3>1, <3>2 DEF PhasesOK
  <2> QED
    BY <1>7, <2>1, <2>2, <2>3, <2>4, <2>5, <2>6 DEF CommandNext
<1>8. CASE ConfigNext
  <2>1. /\ UNCHANGED <<life, latch, mainPc>> /\ thread' \in {thread, "begin"}
        /\ \E k \in Configs \cup {0} : \E v \in ConfigStages :
             cfg' = [cfg EXCEPT ![k] = v]
    BY <1>8 DEF ConfigNext, ConfigStartsThread, ConfigResolves,
         ConfigStopsRouting, ConfigStopHangs, ConfigRestarts, ConfigStep
  <2>2. cfg' \in [Configs -> ConfigStages]
    BY <2>1 DEF PhasesOK
  <2> QED
    BY <2>1, <2>2 DEF PhasesOK
<1>9. CASE ThreadNext
  <2>1. UNCHANGED <<life, latch, mainPc, cfg>> /\ thread' \in ThreadSteps
    BY <1>9 DEF ThreadNext, RunTunnel, RunTunnelConnecting,
         RunTunnelNotRouting, RunTunnelEstablishes, RunTunnelStartsCore,
         RunTunnelFails, RunTunnelSignalled, StopMarks, StopConnecting,
         StopNotRouting, StopVpn, StopVpnHangs, StopCore, StopParentService,
         ThreadStep
  <2> QED
    BY <2>1 DEF PhasesOK
<1> QED
  BY <1>2, <1>3, <1>4, <1>5, <1>6, <1>7, <1>8, <1>9 DEF Next

(* The Boolean fields.                                                     *)
LEMMA FlagsStep ==
  ASSUME FlagsOK, [Next]_vars
  PROVE  FlagsOK'
<1> USE DEF lifeVars, threadVars, pipeVars, vpnVars, coreVars
<1>1. ASSUME UNCHANGED <<stopSelf, firstStart, serviceRunning, isStopping,
                         waiting, homePages, tunFd, isRouting, coreOn>>
      PROVE  FlagsOK'
  BY <1>1 DEF FlagsOK
<1>2. CASE UNCHANGED vars
  BY <1>1, <1>2 DEF vars
<1>3. CASE \/ IoSubscribe \/ NativeRuns \/ BringDown
           \/ \E o \in CoreTasks : CorePosts(o)
  BY <1>1, <1>3 DEF IoSubscribe, NativeRuns, BringDown, CorePosts
<1>4. CASE PipelineNext
  <2>1. /\ UNCHANGED <<stopSelf, firstStart, serviceRunning, isStopping,
                       homePages, tunFd, coreOn>>
        /\ waiting' \in {waiting, TRUE, FALSE} /\ isRouting' \in {isRouting, TRUE}
    BY <1>4 DEF PipelineNext, DrainRepeated, DrainRoutes, DrainWaits,
         DrainEmits, DrainEnds, AcceptRouted, TakePair, RouteThroughTunnel
  <2> QED
    BY <2>1 DEF FlagsOK
<1>5. CASE TaskNext
  <2>1. /\ UNCHANGED <<stopSelf, firstStart, isStopping, tunFd, isRouting>>
        /\ waiting' \in {waiting, FALSE}
        /\ serviceRunning' \in {serviceRunning, FALSE}
        /\ homePages' \in {homePages, TRUE, FALSE}
        /\ coreOn' \in {coreOn, TRUE, FALSE}
    BY <1>5 DEF TaskNext, BeginDrain, ShowNotification, RestartPsiphon,
         OnConnecting, OnConnected, OnStartedWaiting, OnStoppedWaiting, NetTask,
         OnHomepage, OnDestroy, DisposeWithoutThread, OnDestroyWaits,
         SignalStopService, JoinTunnelThread, Dispose
  <2> QED
    BY <2>1, ZenonT(60) DEF FlagsOK
<1>6. CASE CommandNext
  <2>1. /\ UNCHANGED <<isStopping, homePages, tunFd, coreOn>>
        /\ stopSelf' \in {stopSelf, TRUE} /\ firstStart' \in {firstStart, FALSE}
        /\ serviceRunning' \in {serviceRunning, TRUE, FALSE}
        /\ waiting' \in {waiting, TRUE, FALSE}
        /\ isRouting' \in {isRouting, TRUE, FALSE}
    BY <1>6 DEF CommandNext, OnStartCommand, OnStopIntent, SignalStopService,
         Register, Unregister, StopService, RestartTunnel, ChangedLocale,
         ClientDies, RouteThroughTunnel, StopRouteThroughTunnel,
         StopRouteLosesRequest
  <2> QED
    BY <2>1, ZenonT(60) DEF FlagsOK
<1>7. CASE ConfigNext
  <2>1. /\ UNCHANGED <<stopSelf, firstStart, serviceRunning, isStopping,
                       waiting, homePages, tunFd, coreOn>>
        /\ isRouting' \in {isRouting, FALSE}
    BY <1>7 DEF ConfigNext, ConfigStartsThread, ConfigResolves,
         ConfigStopsRouting, ConfigStopHangs, ConfigRestarts, ConfigStep,
         StopRouteThroughTunnel, StopRouteLosesRequest
  <2> QED
    BY <2>1 DEF FlagsOK
<1>8. CASE ThreadNext
  <2>1. /\ UNCHANGED <<firstStart, serviceRunning, waiting>>
        /\ stopSelf' \in {stopSelf, TRUE} /\ homePages' \in {homePages, FALSE}
        /\ isStopping' \in {isStopping, TRUE, FALSE}
        /\ tunFd' \in {tunFd, TRUE, FALSE} /\ isRouting' \in {isRouting, FALSE}
        /\ coreOn' \in {coreOn, TRUE, FALSE}
    BY <1>8 DEF ThreadNext, RunTunnel, RunTunnelConnecting,
         RunTunnelNotRouting, RunTunnelEstablishes, RunTunnelStartsCore,
         RunTunnelFails, RunTunnelSignalled, StopMarks, StopConnecting,
         StopNotRouting, StopVpn, StopVpnHangs, StopCore, StopParentService,
         ThreadStep,
         StopRouteThroughTunnel, StopRouteLosesRequest
  <2>2. /\ stopSelf' \in BOOLEAN /\ firstStart' \in BOOLEAN /\ serviceRunning' \in BOOLEAN
        /\ waiting' \in BOOLEAN /\ homePages' \in BOOLEAN
    BY <2>1, ZenonT(30) DEF FlagsOK
  <2>3. isStopping' \in BOOLEAN
    BY <2>1, ZenonT(30) DEF FlagsOK
  <2>4. tunFd' \in BOOLEAN
    BY <2>1, ZenonT(30) DEF FlagsOK
  <2>5. isRouting' \in BOOLEAN
    BY <2>1, ZenonT(30) DEF FlagsOK
  <2>6. coreOn' \in BOOLEAN
    BY <2>1, ZenonT(30) DEF FlagsOK
  <2> QED
    BY <2>2, <2>3, <2>4, <2>5, <2>6, ZenonT(30) DEF FlagsOK
<1> QED
  BY <1>2, <1>3, <1>4, <1>5, <1>6, <1>7, <1>8 DEF Next

(* The main looper's queue, the state sent last and the notification.      *)
LEMMA QueueStep ==
  ASSUME PipeInv, QueueOK, [Next]_vars
  PROVE  QueueOK'
<1> USE DEF lifeVars, threadVars, pipeVars, vpnVars
<1>1. ASSUME UNCHANGED <<mq, emitted, notification>> PROVE QueueOK'
  BY <1>1 DEF QueueOK
<1>2. ASSUME UNCHANGED <<emitted, notification>>, mq' \in Seq(Tasks)
      PROVE  QueueOK'
  BY <1>2 DEF QueueOK
<1>3. mq \in Seq(Tasks) /\ (mq # <<>> => Tail(mq) \in Seq(Tasks))
  BY HeadTailProperties DEF QueueOK
<1>4. CASE UNCHANGED vars
  BY <1>1, <1>4 DEF vars
<1>5. CASE IoSubscribe \/ NativeRuns
  BY <1>1, <1>5 DEF IoSubscribe, NativeRuns
<1>6. CASE BringDown
  <2>1. UNCHANGED <<emitted, notification>> /\ mq' = Append(mq, Task("destroy"))
    BY <1>6 DEF BringDown
  <2> QED
    BY <1>2, <1>3, <2>1, TaskTypes
<1>7. ASSUME NEW o \in CoreTasks, CorePosts(o) PROVE QueueOK'
  <2>1. UNCHANGED <<emitted, notification>> /\ mq' = Append(mq, Task(o))
    BY <1>7 DEF CorePosts
  <2> QED
    BY <1>2, <1>3, <2>1, TaskTypes
<1>8. CASE PipelineNext
  <2>1. CASE DrainRepeated \/ DrainRoutes \/ DrainEnds
    BY <1>1, <2>1 DEF DrainRepeated, DrainRoutes, DrainEnds, TakePair
  <2>2. CASE AcceptRouted
    <3>1. /\ UNCHANGED <<emitted, notification>>
          /\ mq' = Schedule(mq, AcceptRoute(bus, "routed"))
      BY <2>2 DEF AcceptRouted, Publish
    <3> QED
      BY <1>2, <1>3, <3>1, TaskTypes
  <2>3. ASSUME NEW v \in NetStates, Emit(v), UNCHANGED notification
        PROVE  QueueOK'
    <3>1. CASE v = emitted
      BY <1>1, <2>3, <3>1 DEF Emit
    <3>2. CASE v # emitted
      <4>1. emitted' = v /\ (mq' = mq \/ mq' = Append(mq, Notify(v)))
        BY <2>3, <3>2 DEF Emit
      <4>2. mq' \in Seq(Tasks)
        BY <4>1, <1>3, TaskTypes
      <4> QED
        BY <2>3, <4>1, <4>2 DEF QueueOK
    <3> QED
      BY <3>1, <3>2
  <2>4. CASE DrainWaits
    <3>1. Emit("CONNECTING") /\ UNCHANGED notification
      BY <2>4 DEF DrainWaits, TakePair
    <3> QED
      BY <2>3, <3>1 DEF NetStates
  <2>5. CASE DrainEmits
    <3>1. Emit(NextPair[1]) /\ bus.rx # <<>> /\ UNCHANGED notification
      BY <2>5 DEF DrainEmits, IsNewPair, TakePair
    <3>2. NextPair[1] \in NetStates
      BY <3>1, TakeFirst DEF Pairs
    <3> QED
      BY <2>3, <3>1, <3>2
  <2> QED
    BY <1>8, <2>1, <2>2, <2>4, <2>5 DEF PipelineNext
<1>9. CASE TaskNext
  <2>1. CASE BeginDrain \/ RestartPsiphon \/ OnHomepage
    <3>1. UNCHANGED <<emitted, notification>> /\ mq # <<>> /\ mq' = Tail(mq)
      BY <2>1 DEF BeginDrain, RestartPsiphon, OnHomepage, Runs
    <3> QED
      BY <1>2, <1>3, <3>1
  <2>2. CASE ShowNotification
    <3>1. /\ mq # <<>> /\ mq' = Tail(mq) /\ emitted' = emitted
          /\ Head(mq).op = "notify" /\ notification' = Head(mq).state
      BY <2>2 DEF ShowNotification, Runs
    <3>2. Head(mq) \in Tasks
      BY <1>3, <3>1, HeadTailProperties
    <3>3. Head(mq).state \in NetStates
      BY <3>1, <3>2 DEF Tasks, CoreTasks
    <3> QED
      BY <1>3, <3>1, <3>3 DEF QueueOK
  <2>3. CASE OnConnecting \/ OnConnected \/ OnStartedWaiting \/ OnStoppedWaiting
    <3>1. /\ UNCHANGED <<emitted, notification>> /\ mq # <<>>
          /\ \E b : mq' = Schedule(Tail(mq), b)
      BY <2>3 DEF OnConnecting, OnConnected, OnStartedWaiting,
                  OnStoppedWaiting, NetTask, Publish, Runs
    <3> QED
      BY <1>2, <1>3, <3>1, TaskTypes
  <2>4. CASE OnDestroy \/ OnDestroyWaits
    <3>1. /\ emitted' = emitted /\ notification' = None
          /\ mq # <<>> /\ mq' = Tail(mq)
      BY <2>4 DEF OnDestroy, OnDestroyWaits, Runs
    <3> QED
      BY <1>3, <3>1 DEF QueueOK
  <2>5. CASE DisposeWithoutThread \/ JoinTunnelThread
    BY <1>1, <2>5 DEF DisposeWithoutThread, JoinTunnelThread
  <2> QED
    BY <1>9, <2>1, <2>2, <2>3, <2>4, <2>5 DEF TaskNext
<1>10. Reported \in NetStates
  BY DEF QueueOK, Reported, NetStates, None
<1>11. CASE CommandNext
  <2>1. CASE OnStartCommand \/ OnStopIntent
    BY <1>1, <2>1 DEF OnStartCommand, OnStopIntent
  <2>2. ASSUME NEW c \in Clients,
               Register(c) \/ Unregister(c) \/ StopService(c) \/ ClientDies(c)
        PROVE  QueueOK'
    BY <1>1, <2>2 DEF Register, Unregister, StopService, ClientDies
  <2>3. ASSUME NEW c \in Clients, ChangedLocale(c) PROVE QueueOK'
    <3>1. /\ UNCHANGED <<emitted, notification>>
          /\ mq' = Append(mq, Notify(Reported))
      BY <2>3 DEF ChangedLocale
    <3> QED
      BY <1>2, <1>3, <1>10, <3>1, TaskTypes
  <2>4. ASSUME NEW c \in Clients, RestartTunnel(c) PROVE QueueOK'
    <3>1. /\ UNCHANGED <<emitted, notification>>
          /\ \E b : \/ mq' = Schedule(mq, b)
                    \/ mq' = Append(Schedule(mq, b), Task("restartPsiphon"))
      BY <2>4 DEF RestartTunnel, Publish
    <3> QED
      BY <1>2, <1>3, <3>1, TaskTypes
  <2> QED
    BY <1>11, <2>1, <2>2, <2>3, <2>4 DEF CommandNext
<1>12. CASE ConfigNext
  <2>1. CASE ConfigStartsThread \/
             \E k \in Configs : \/ ConfigResolves(k) \/ ConfigStopsRouting(k)
                               \/ ConfigStopHangs(k)
    BY <1>1, <2>1 DEF ConfigStartsThread, ConfigResolves, ConfigStopsRouting,
                      ConfigStopHangs, ConfigStep
  <2>2. ASSUME NEW k \in Configs, ConfigRestarts(k) PROVE QueueOK'
    <3>1. /\ UNCHANGED <<emitted, notification>>
          /\ mq' = Append(Schedule(mq, bus'), Task("restartPsiphon"))
      BY <2>2 DEF ConfigRestarts, ConfigStep
    <3> QED
      BY <1>2, <1>3, <3>1, TaskTypes
  <2> QED
    BY <1>12, <2>1, <2>2 DEF ConfigNext
<1>13. CASE ThreadNext
  <2>1. /\ UNCHANGED <<emitted, notification>>
        /\ \/ mq' = mq
           \/ mq' = Append(mq, Notify(Reported))
           \/ \E b : mq' = Schedule(mq, b)
    BY <1>13 DEF ThreadNext, RunTunnel, RunTunnelConnecting,
         RunTunnelNotRouting, RunTunnelEstablishes, RunTunnelStartsCore,
         RunTunnelFails, RunTunnelSignalled, StopMarks, StopConnecting,
         StopNotRouting, StopVpn, StopVpnHangs, StopCore, StopParentService,
         ThreadStep,
         Publish
  <2> QED
    BY <1>2, <1>3, <1>10, <2>1, TaskTypes
<1> QED
  BY <1>4, <1>5, <1>6, <1>7, <1>8, <1>9, <1>11, <1>12, <1>13 DEF Next

(* The clients and what is left of the bounds.                             *)
LEMMA ClientsStep ==
  ASSUME ClientsOK, [Next]_vars
  PROVE  ClientsOK'
<1> USE DEF clientVars, counters
<1>1. ASSUME /\ clients' \subseteq clients \/ UNCHANGED clients
             /\ UNCHANGED <<dead, commands, coreEvents>>
      PROVE  ClientsOK'
  BY <1>1 DEF ClientsOK
<1>2. CASE UNCHANGED vars
  BY <1>1, <1>2 DEF vars
<1>3. CASE IoSubscribe \/ NativeRuns \/ BringDown
  BY <1>1, <1>3 DEF IoSubscribe, NativeRuns, BringDown
<1>4. ASSUME NEW o \in CoreTasks, CorePosts(o) PROVE ClientsOK'
  BY <1>4, BoundAssumption DEF CorePosts, ClientsOK
<1>5. CASE PipelineNext
  <2>1. /\ clients' = clients \/ clients' = clients \ dead
        /\ UNCHANGED <<dead, commands, coreEvents>>
    BY <1>5 DEF PipelineNext, DrainRepeated, DrainRoutes, DrainWaits,
         DrainEmits, DrainEnds, AcceptRouted, TakePair, Emit
  <2> QED
    BY <1>1, <2>1
<1>6. CASE TaskNext
  BY <1>1, <1>6 DEF TaskNext, BeginDrain, ShowNotification, RestartPsiphon,
       OnConnecting, OnConnected, OnStartedWaiting, OnStoppedWaiting, NetTask,
       OnHomepage, OnDestroy, DisposeWithoutThread, OnDestroyWaits,
       JoinTunnelThread
<1>7. CASE CommandNext
  <2>1. CASE OnStartCommand
    BY <1>1, <2>1 DEF OnStartCommand
  <2>2. CASE OnStopIntent
    BY <2>2, BoundAssumption DEF OnStopIntent, Command, ClientsOK
  <2>3. ASSUME NEW c \in Clients, Register(c) \/ Unregister(c) \/ StopService(c)
        PROVE  ClientsOK'
    <3>1. /\ clients' \subseteq clients \cup {c}
          /\ Command /\ UNCHANGED dead
      BY <2>3 DEF Register, Unregister, StopService
    <3> QED
      BY <2>3, <3>1, BoundAssumption DEF Command, ClientsOK
  <2>4. ASSUME NEW c \in Clients, RestartTunnel(c) \/ ChangedLocale(c)
        PROVE  ClientsOK'
    <3>1. Command /\ UNCHANGED <<clients, dead>>
      BY <2>4 DEF RestartTunnel, ChangedLocale
    <3> QED
      BY <3>1, BoundAssumption DEF Command, ClientsOK
  <2>5. ASSUME NEW c \in Clients, ClientDies(c) PROVE ClientsOK'
    BY <2>5, BoundAssumption DEF ClientDies, ClientsOK
  <2> QED
    BY <1>7, <2>1, <2>2, <2>3, <2>4, <2>5 DEF CommandNext
<1>8. CASE ConfigNext
  BY <1>1, <1>8 DEF ConfigNext, ConfigStartsThread, ConfigResolves,
       ConfigStopsRouting, ConfigStopHangs, ConfigRestarts, ConfigStep
<1>9. CASE ThreadNext
  BY <1>1, <1>9 DEF ThreadNext, RunTunnel, RunTunnelConnecting,
       RunTunnelNotRouting, RunTunnelEstablishes, RunTunnelStartsCore,
       RunTunnelFails, RunTunnelSignalled, StopMarks, StopConnecting,
       StopNotRouting, StopVpn, StopVpnHangs, StopCore, StopParentService,
         ThreadStep
<1> QED
  BY <1>2, <1>3, <1>4, <1>5, <1>6, <1>7, <1>8, <1>9 DEF Next

(* In every mode and for any bounds the variables keep their ranges: only  *)
(* known tasks are posted, a notification shows a network state or none,   *)
(* and what the pipeline sends on is a network state.                      *)
THEOREM TypeIsKept == Spec => []TypeOK
<1> DEFINE Parts == /\ PipeInv /\ PhasesOK /\ FlagsOK /\ QueueOK /\ ClientsOK
                    /\ NativeOK
<1>1. Init => Parts
  <2> SUFFICES ASSUME Init PROVE Parts
    OBVIOUS
  <2>1. PhasesOK
    BY DEF Init, PhasesOK, MainSteps, ThreadSteps, ConfigStages
  <2>2. FlagsOK
    BY DEF Init, FlagsOK
  <2>3. QueueOK
    BY EmptySeq DEF Init, QueueOK, NetStates
  <2>4. ClientsOK
    BY BoundAssumption DEF Init, ClientsOK
  <2>5. NativeOK
    BY DEF Init, NativeOK, NativeStates
  <2> QED
    BY <2>1, <2>2, <2>3, <2>4, <2>5, PipeInit
<1>2. Parts /\ [Next]_vars => Parts'
  BY PipeStep, PhasesStep, FlagsStep, QueueStep, ClientsStep, NativeStep
<1>3. Parts => TypeOK
  BY TypeParts
<1> QED
  BY <1>1, <1>2, <1>3, PTL DEF Spec

-----------------------------------------------------------------------------
(* The routing relay and VpnManager, when configurations are resolved in   *)
(* the handler and nobody restarts a tunnel that is still starting.        *)

(* Before runTunnel has started the core nothing has happened yet: the     *)
(* core is off, no callback of it and no restart is queued, the relays     *)
(* carry only "connecting, not routing" and VpnManager does not route.     *)
(* Without this part the pair taken by the main thread could be one of     *)
(* before vpnEstablish, which stops routing without telling the relay.     *)
StartPair == <<"CONNECTING", "direct">>
StartBus == [net : {None, "CONNECTING"}, route : {None, "direct"},
             rx : Seq({StartPair})]
StartTasks == [op : {"drain", "destroy"}] \cup [op : {"notify"}, state : NetStates]
QuietStart ==
  ~Started =>
    /\ coreOn = FALSE /\ isRouting = FALSE /\ waiting = FALSE
    /\ ~Accepting
    /\ bus \in StartBus
    /\ mq \in Seq(StartTasks)

(* From vpnEstablish to the end of the session the interface is open; and  *)
(* while the session is up, the relay and VpnManager differ only between   *)
(* routeThroughTunnel and the accept(TRUE) after it, and once the main     *)
(* thread waits for ever in stopRouteThroughTunnel.                        *)
SessionOpen == thread \in {"startTunneling", "await"} => tunFd = TRUE
RelayTold ==
  thread = "await" /\ mainPc # "hung" =>
    /\ Accepting => isRouting = TRUE
    /\ ~Accepting /\ bus.route = "routed" => isRouting = TRUE
    /\ ~Accepting /\ bus.route = "direct" => isRouting = FALSE

MirrorInv ==
  PipeInv /\ QueueOK /\ DestroyInv /\ QuietStart /\ SessionOpen /\ RelayTold

(* The tunnel thread never comes back to its start.                        *)
LEMMA StartIsLeftOnce ==
  ASSUME ~AsyncConfig, DestroyInv, [Next]_vars, Started
  PROVE  Started'
<1> USE DEF Started, lifeVars, threadVars, None
<1>1. CASE UNCHANGED vars
  BY <1>1 DEF vars
<1>2. CASE \/ IoSubscribe \/ NativeRuns \/ BringDown
           \/ \E o \in CoreTasks : CorePosts(o)
  BY <1>2 DEF IoSubscribe, NativeRuns, BringDown, CorePosts
<1>3. CASE PipelineNext
  BY <1>3 DEF PipelineNext, DrainRepeated, DrainRoutes, DrainWaits, DrainEmits,
       DrainEnds, AcceptRouted, TakePair
<1>4. CASE TaskNext
  BY <1>4 DEF TaskNext, BeginDrain, ShowNotification, RestartPsiphon,
       OnConnecting, OnConnected, OnStartedWaiting, OnStoppedWaiting, NetTask,
       OnHomepage, OnDestroy, DisposeWithoutThread, OnDestroyWaits,
       JoinTunnelThread
<1>5. CASE CommandNext
  BY <1>5 DEF CommandNext, OnStartCommand, OnStopIntent, Register, Unregister,
       StopService, RestartTunnel, ChangedLocale, ClientDies, DestroyInv
<1>6. CASE ConfigNext
  <2>1. \A k \in Configs : cfg[k] \in {None, "done"}
    BY DEF DestroyInv
  <2>2. 0 \in Configs
    BY BoundAssumption DEF Configs
  <2> QED
    BY <1>6, <2>1, <2>2 DEF ConfigNext, ConfigStartsThread, ConfigResolves,
         ConfigStopsRouting, ConfigStopHangs, ConfigRestarts, ConfigStep
<1>7. CASE ThreadNext
  BY <1>7 DEF ThreadNext, RunTunnel, RunTunnelConnecting,
       RunTunnelNotRouting, RunTunnelEstablishes, RunTunnelStartsCore,
       RunTunnelFails, RunTunnelSignalled, StopMarks, StopConnecting,
       StopNotRouting, StopVpn, StopVpnHangs, StopCore, StopParentService,
         ThreadStep
<1> QED
  BY <1>1, <1>2, <1>3, <1>4, <1>5, <1>6, <1>7 DEF Next

(* What the thread publishes while it starts keeps the bus quiet.          *)
LEMMA StartAccepts ==
  ASSUME NEW b \in StartBus
  PROVE  /\ AcceptNet(b, "CONNECTING") \in StartBus
         /\ AcceptRoute(b, "direct") \in StartBus
<1>1. /\ b.net \in {None, "CONNECTING"} /\ b.route \in {None, "direct"}
      /\ b.rx \in Seq({StartPair})
      /\ Append(b.rx, StartPair) \in Seq({StartPair})
  BY DEF StartBus
<1>2. AcceptNet(b, "CONNECTING") \in StartBus
  <2>1. CASE subs < 1
    BY <2>1 DEF AcceptNet
  <2>2. CASE ~(subs < 1) /\ b.route = None
    <3>1. AcceptNet(b, "CONNECTING") = [b EXCEPT !.net = "CONNECTING"]
      BY <2>2 DEF AcceptNet, StartBus
    <3> QED
      BY <3>1 DEF StartBus
  <2>3. CASE ~(subs < 1) /\ b.route # None
    <3>1. AcceptNet(b, "CONNECTING") =
            [b EXCEPT !.net = "CONNECTING", !.rx = Append(b.rx, StartPair)]
      BY <1>1, <2>3 DEF AcceptNet, StartBus, StartPair
    <3> QED
      BY <1>1, <3>1 DEF StartBus
  <2> QED
    BY <2>1, <2>2, <2>3
<1>3. AcceptRoute(b, "direct") \in StartBus
  <2>1. CASE subs < 2
    BY <2>1 DEF AcceptRoute
  <2>2. CASE ~(subs < 2) /\ b.net = None
    <3>1. AcceptRoute(b, "direct") = [b EXCEPT !.route = "direct"]
      BY <2>2 DEF AcceptRoute, StartBus
    <3> QED
      BY <3>1 DEF StartBus
  <2>3. CASE ~(subs < 2) /\ b.net # None
    <3>1. AcceptRoute(b, "direct") =
            [b EXCEPT !.route = "direct", !.rx = Append(b.rx, StartPair)]
      BY <1>1, <2>3 DEF AcceptRoute, StartBus, StartPair
    <3> QED
      BY <1>1, <3>1 DEF StartBus
  <2> QED
    BY <2>1, <2>2, <2>3
<1> QED
  BY <1>2, <1>3

(* The tasks that may be queued while the thread starts.                   *)
LEMMA StartTaskTypes ==
  /\ Task("drain") \in StartTasks /\ Task("destroy") \in StartTasks
  /\ \A v \in NetStates : Notify(v) \in StartTasks
  /\ \A q \in Seq(StartTasks) : \A t \in StartTasks :
       Append(q, t) \in Seq(StartTasks)
  /\ \A q \in Seq(StartTasks) : \A b : Schedule(q, b) \in Seq(StartTasks)
<1>1. /\ Task("drain") \in StartTasks /\ Task("destroy") \in StartTasks
      /\ \A v \in NetStates : Notify(v) \in StartTasks
  BY DEF StartTasks, Task, Notify
<1>2. \A q \in Seq(StartTasks) : \A t \in StartTasks :
        Append(q, t) \in Seq(StartTasks)
  OBVIOUS
<1> QED
  BY <1>1, <1>2 DEF Schedule

(* While the tunnel thread is starting, every step keeps the start quiet.  *)
LEMMA QuietStep ==
  ASSUME ~AsyncConfig, ~EarlyRestart, QueueOK, DestroyInv, QuietStart,
         [Next]_vars
  PROVE  QuietStart'
<1> USE DEF lifeVars, threadVars, pipeVars, vpnVars, coreVars
<1>1. SUFFICES ASSUME ~Started' PROVE QuietStart'
  BY DEF QuietStart
<1>2. ~Started
  BY <1>1, StartIsLeftOnce
<1>3. /\ coreOn = FALSE /\ isRouting = FALSE /\ waiting = FALSE /\ ~Accepting
      /\ bus \in StartBus /\ mq \in Seq(StartTasks)
  BY <1>2 DEF QuietStart
<1>4. ASSUME UNCHANGED <<coreOn, isRouting, waiting>>, ~Accepting',
             bus' \in StartBus, mq' \in Seq(StartTasks)
      PROVE  QuietStart'
  BY <1>3, <1>4 DEF QuietStart
<1>5. mq # <<>> => Head(mq) \in StartTasks /\ Tail(mq) \in Seq(StartTasks)
  BY <1>3, HeadTailProperties
<1>6. mq # <<>> => Head(mq).op \in {"drain", "destroy", "notify"}
  BY <1>5 DEF StartTasks
<1>7. CASE UNCHANGED vars
  BY <1>3, <1>4, <1>7 DEF vars, Accepting
<1>8. CASE IoSubscribe \/ NativeRuns
  BY <1>3, <1>4, <1>8 DEF IoSubscribe, NativeRuns, Accepting
<1>9. CASE BringDown
  <2>1. /\ UNCHANGED <<coreOn, isRouting, waiting, mainPc, bus>>
        /\ mq' = Append(mq, Task("destroy"))
    BY <1>9 DEF BringDown
  <2> QED
    BY <1>3, <1>4, <2>1, StartTaskTypes DEF Accepting
<1>10. CASE \E o \in CoreTasks : CorePosts(o)
  BY <1>3, <1>10 DEF CorePosts
<1>11. CASE PipelineNext
  <2>1. bus.rx \in Seq({StartPair})
    BY <1>3 DEF StartBus
  <2>2. bus.rx # <<>> => NextPair = StartPair /\ Tail(bus.rx) \in Seq({StartPair})
    BY <2>1, HeadTailProperties DEF NextPair
  <2>3. StartPair # ConnectedDirect /\ StartPair[1] = "CONNECTING"
    BY DEF StartPair, ConnectedDirect
  <2>4. CASE DrainEnds
    BY <1>3, <1>4, <2>4 DEF DrainEnds, Accepting
  <2>5. CASE AcceptRouted
    BY <1>3, <2>5 DEF AcceptRouted, Accepting
  <2>6. CASE DrainRoutes \/ DrainWaits
    BY <2>2, <2>3, <2>6 DEF DrainRoutes, DrainWaits, IsNewPair, ConnectedDirect
  <2>7. ASSUME TakePair, bus.rx # <<>> PROVE bus' \in StartBus
    <3>1. bus' = [bus EXCEPT !.rx = Tail(bus.rx)]
      BY <2>7 DEF TakePair
    <3> QED
      BY <1>3, <2>2, <2>7, <3>1 DEF StartBus
  <2>8. CASE DrainRepeated
    <3>1. /\ UNCHANGED <<coreOn, isRouting, waiting, mainPc, mq>>
          /\ TakePair /\ bus.rx # <<>>
      BY <2>8 DEF DrainRepeated, TakePair
    <3> QED
      BY <1>3, <1>4, <2>7, <3>1 DEF Accepting
  <2>9. CASE DrainEmits
    <3>1. /\ UNCHANGED <<coreOn, isRouting, mainPc>> /\ waiting' = FALSE
          /\ TakePair /\ bus.rx # <<>> /\ Emit(NextPair[1])
      BY <2>9 DEF DrainEmits, TakePair, IsNewPair
    <3>2. mq' = mq \/ mq' = Append(mq, Notify("CONNECTING"))
      BY <2>2, <2>3, <3>1 DEF Emit
    <3>3. mq' \in Seq(StartTasks)
      BY <1>3, <3>2, StartTaskTypes DEF NetStates
    <3> QED
      BY <1>3, <1>4, <2>7, <3>1, <3>3 DEF Accepting
  <2> QED
    BY <1>11, <2>4, <2>5, <2>6, <2>8, <2>9 DEF PipelineNext
<1>12. CASE TaskNext
  <2>1. CASE \/ RestartPsiphon \/ OnHomepage \/ OnConnecting \/ OnConnected
             \/ OnStartedWaiting \/ OnStoppedWaiting
    BY <1>6, <2>1 DEF RestartPsiphon, OnHomepage, OnConnecting, OnConnected,
         OnStartedWaiting, OnStoppedWaiting, NetTask, Runs
  <2>2. CASE BeginDrain \/ ShowNotification \/ OnDestroy \/ OnDestroyWaits
    <3>1. /\ UNCHANGED <<coreOn, isRouting, waiting, bus>>
          /\ mq # <<>> /\ mq' = Tail(mq)
          /\ mainPc' \in {"idle", "drain", "dispose", "join"}
      BY <2>2 DEF BeginDrain, ShowNotification, OnDestroy, OnDestroyWaits, Runs
    <3> QED
      BY <1>3, <1>4, <1>5, <3>1 DEF Accepting
  <2>3. CASE DisposeWithoutThread \/ JoinTunnelThread
    <3>1. /\ UNCHANGED <<coreOn, isRouting, mq>> /\ mainPc' = "idle"
          /\ Dispose
      BY <2>3 DEF DisposeWithoutThread, JoinTunnelThread
    <3>2. /\ waiting' = FALSE
          /\ bus' = [net |-> None, route |-> None, rx |-> <<>>]
      BY <3>1 DEF Dispose
    <3>3. bus' \in StartBus
      BY <3>2, EmptySeq DEF StartBus
    <3> QED
      BY <1>3, <1>4, <3>1, <3>2, <3>3 DEF Accepting
  <2> QED
    BY <1>12, <2>1, <2>2, <2>3 DEF TaskNext
<1>13. Reported \in NetStates
  BY DEF QueueOK, Reported, NetStates, None
<1>14. CASE CommandNext
  <2>1. CASE OnStartCommand \/ OnStopIntent
    BY <1>3, <1>4, <2>1 DEF OnStartCommand, OnStopIntent, Accepting
  <2>2. ASSUME NEW c \in Clients,
               Unregister(c) \/ StopService(c) \/ ClientDies(c)
        PROVE  QuietStart'
    BY <1>3, <1>4, <2>2 DEF Unregister, StopService, ClientDies, Accepting
  <2>3. ASSUME NEW c \in Clients, Register(c) PROVE QuietStart'
    BY <1>3, <1>4, <2>3 DEF Register, Accepting
  <2>4. ASSUME NEW c \in Clients, ChangedLocale(c) PROVE QuietStart'
    <3>1. /\ UNCHANGED <<coreOn, isRouting, waiting, mainPc, bus>>
          /\ mq' = Append(mq, Notify(Reported))
      BY <2>4 DEF ChangedLocale
    <3> QED
      BY <1>3, <1>4, <1>13, <3>1, StartTaskTypes DEF Accepting
  <2> QED
    BY <1>2, <1>14, <2>1, <2>2, <2>3, <2>4 DEF CommandNext
<1>15. CASE ConfigNext
  <2>1. \A k \in Configs : cfg[k] \in {None, "done"}
    BY DEF DestroyInv
  <2>2. 0 \in Configs
    BY BoundAssumption DEF Configs
  <2> QED
    BY <1>15, <2>1, <2>2 DEF ConfigNext, ConfigStartsThread, ConfigResolves,
         ConfigStopsRouting, ConfigStopHangs, ConfigRestarts, ConfigStep, None
<1>16. CASE ThreadNext
  <2>1. CASE RunTunnel
    <3>1. /\ UNCHANGED <<coreOn, isRouting, waiting, mainPc, bus>>
          /\ mq' = Append(mq, Notify(Reported))
      BY <2>1 DEF RunTunnel, ThreadStep
    <3> QED
      BY <1>3, <1>4, <1>13, <3>1, StartTaskTypes DEF Accepting
  <2>2. CASE RunTunnelConnecting \/ RunTunnelNotRouting
    <3>1. /\ UNCHANGED <<coreOn, isRouting, waiting, mainPc>>
          /\ bus' \in {AcceptNet(bus, "CONNECTING"), AcceptRoute(bus, "direct")}
          /\ mq' = Schedule(mq, bus')
      BY <2>2 DEF RunTunnelConnecting, RunTunnelNotRouting, ThreadStep, Publish
    <3> QED
      BY <1>3, <1>4, <3>1, StartTaskTypes, StartAccepts DEF Accepting
  <2>3. CASE RunTunnelEstablishes
    BY <1>3, <1>4, <2>3 DEF RunTunnelEstablishes, ThreadStep, Accepting
  <2>4. CASE \/ RunTunnelStartsCore \/ RunTunnelFails \/ RunTunnelSignalled
             \/ StopMarks \/ StopConnecting \/ StopNotRouting \/ StopVpn
             \/ StopVpnHangs \/ StopCore \/ StopParentService
    BY <1>1, <2>4 DEF RunTunnelStartsCore, RunTunnelFails, RunTunnelSignalled,
         StopMarks, StopConnecting, StopNotRouting, StopVpn, StopVpnHangs, StopCore,
         StopParentService, ThreadStep, Started, None
  <2> QED
    BY <1>16, <2>1, <2>2, <2>3, <2>4 DEF ThreadNext
<1> QED
  BY <1>7, <1>8, <1>9, <1>10, <1>11, <1>12, <1>14, <1>15, <1>16 DEF Next

(* The interface is open while the session runs.                           *)
LEMMA SessionOpenStep ==
  ASSUME ~AsyncConfig, DestroyInv, SessionOpen, [Next]_vars
  PROVE  SessionOpen'
<1> USE DEF lifeVars, threadVars, vpnVars, SessionOpen
<1>1. CASE UNCHANGED vars
  BY <1>1 DEF vars
<1>2. CASE \/ IoSubscribe \/ NativeRuns \/ BringDown
           \/ \E o \in CoreTasks : CorePosts(o)
  BY <1>2 DEF IoSubscribe, NativeRuns, BringDown, CorePosts
<1>3. CASE PipelineNext
  BY <1>3 DEF PipelineNext, DrainRepeated, DrainRoutes, DrainWaits, DrainEmits,
       DrainEnds, AcceptRouted, TakePair
<1>4. CASE TaskNext
  BY <1>4 DEF TaskNext, BeginDrain, ShowNotification, RestartPsiphon,
       OnConnecting, OnConnected, OnStartedWaiting, OnStoppedWaiting, NetTask,
       OnHomepage, OnDestroy, DisposeWithoutThread, OnDestroyWaits,
       JoinTunnelThread
<1>5. CASE CommandNext
  BY <1>5 DEF CommandNext, OnStartCommand, OnStopIntent, Register, Unregister,
       StopService, RestartTunnel, ChangedLocale, ClientDies
<1>6. CASE ConfigNext
  BY <1>6 DEF ConfigNext, ConfigStartsThread, ConfigResolves,
       ConfigStopsRouting, ConfigStopHangs, ConfigRestarts, ConfigStep
<1>7. CASE ThreadNext
  BY <1>7 DEF ThreadNext, RunTunnel, RunTunnelConnecting,
       RunTunnelNotRouting, RunTunnelEstablishes, RunTunnelStartsCore,
       RunTunnelFails, RunTunnelSignalled, StopMarks, StopConnecting,
       StopNotRouting, StopVpn, StopVpnHangs, StopCore, StopParentService,
         ThreadStep
<1> QED
  BY <1>1, <1>2, <1>3, <1>4, <1>5, <1>6, <1>7 DEF Next

(* What accept() leaves in the routing relay.                              *)
LEMMA RouteAfterAccept ==
  ASSUME NEW b \in BusType
  PROVE  /\ \A v \in NetStates :
              /\ AcceptNet(b, v).route = b.route
              /\ AcceptNet(b, v) \in BusType
         /\ \A v \in RouteStates :
              AcceptRoute(b, v).route = IF subs < 2 THEN b.route ELSE v
<1>1. ASSUME NEW v \in NetStates
      PROVE  AcceptNet(b, v).route = b.route /\ AcceptNet(b, v) \in BusType
  <2>1. CASE subs < 1
    BY <2>1 DEF AcceptNet
  <2>2. CASE ~(subs < 1)
    <3> DEFINE q == IF b.route = None THEN b.rx
                    ELSE Append(b.rx, <<v, b.route>>)
    <3>1. AcceptNet(b, v) = [b EXCEPT !.net = v, !.rx = q]
      BY <2>2 DEF AcceptNet, BusType
    <3>2. q \in Seq(Pairs)
      <4>1. b.route # None => <<v, b.route>> \in Pairs
        BY DEF BusType, Pairs
      <4> QED
        BY <4>1, AppendPair DEF BusType
    <3> HIDE DEF q
    <3> QED
      BY <3>1, <3>2 DEF BusType
  <2> QED
    BY <2>1, <2>2
<1>2. ASSUME NEW v \in RouteStates
      PROVE  AcceptRoute(b, v).route = IF subs < 2 THEN b.route ELSE v
  BY DEF AcceptRoute, BusType
<1> QED
  BY <1>1, <1>2

(* During the session the relay and VpnManager part only while the main    *)
(* thread is between routeThroughTunnel and accept(TRUE), and while it is, *)
(* no handler of the main thread can stop routing.                         *)
LEMMA RelayToldStep ==
  ASSUME ~AsyncConfig, MirrorInv, [Next]_vars
  PROVE  RelayTold'
<1> USE DEF lifeVars, threadVars, pipeVars, vpnVars
<1>1. ASSUME UNCHANGED <<thread, mainPc, isRouting>>, bus'.route = bus.route
      PROVE  RelayTold'
  BY <1>1 DEF MirrorInv, RelayTold, Accepting
<1>2. ASSUME thread' # "await" PROVE RelayTold'
  BY <1>2 DEF RelayTold
<1>3. /\ bus \in BusType
      /\ bus.route # None => ~(subs < 2)
      /\ subs \in 0 .. 2
  BY DEF MirrorInv, PipeInv, BusInv, KnownIfSubscribed
<1>4. CASE UNCHANGED vars
  BY <1>1, <1>4 DEF vars
<1>5. CASE \/ IoSubscribe \/ NativeRuns \/ BringDown
           \/ \E o \in CoreTasks : CorePosts(o)
  BY <1>1, <1>5 DEF IoSubscribe, NativeRuns, BringDown, CorePosts
<1>6. CASE PipelineNext
  <2>1. ASSUME TakePair PROVE bus'.route = bus.route /\ thread' = thread
    BY <1>3, <2>1 DEF TakePair, BusType
  <2>2. CASE DrainRepeated \/ DrainWaits \/ DrainEmits
    <3>1. TakePair /\ UNCHANGED <<mainPc, isRouting>>
      BY <2>2 DEF DrainRepeated, DrainWaits, DrainEmits
    <3> QED
      BY <1>1, <2>1, <3>1
  <2>3. CASE DrainRoutes
    BY <2>3 DEF DrainRoutes, RouteThroughTunnel, MonitorFree, RelayTold,
                Accepting
  <2>4. CASE DrainEnds
    BY <2>4 DEF DrainEnds, MirrorInv, RelayTold, Accepting
  <2>5. CASE AcceptRouted
    <3>1. /\ Accepting /\ mainPc # "hung" /\ UNCHANGED <<thread, isRouting>>
          /\ bus' = AcceptRoute(bus, "routed")
      BY <2>5 DEF AcceptRouted, Accepting, Publish
    <3>2. bus'.route \in {None, "routed"}
      BY <1>3, <3>1, RouteAfterAccept DEF RouteStates
    <3> QED
      BY <3>1, <3>2 DEF MirrorInv, RelayTold, None
  <2> QED
    BY <1>6, <2>2, <2>3, <2>4, <2>5 DEF PipelineNext
<1>7. CASE TaskNext
  <2>1. CASE ShowNotification \/ RestartPsiphon \/ OnHomepage
    BY <1>1, <2>1 DEF ShowNotification, RestartPsiphon, OnHomepage
  <2>2. CASE BeginDrain \/ OnDestroy \/ OnDestroyWaits
    BY <2>2 DEF BeginDrain, OnDestroy, OnDestroyWaits, Runs, MirrorInv,
                RelayTold, Accepting
  <2>3. CASE OnConnecting \/ OnConnected \/ OnStartedWaiting \/ OnStoppedWaiting
    <3>1. /\ UNCHANGED <<thread, mainPc, isRouting>>
          /\ \E v \in NetStates : bus' = AcceptNet(bus, v)
      BY <2>3 DEF OnConnecting, OnConnected, OnStartedWaiting,
                  OnStoppedWaiting, NetTask, Publish, NetStates
    <3> QED
      BY <1>1, <1>3, <3>1, RouteAfterAccept
  <2>4. CASE DisposeWithoutThread \/ JoinTunnelThread
    <3>1. thread' \in {None, "done"}
      BY <2>4 DEF DisposeWithoutThread, JoinTunnelThread, MirrorInv, DestroyInv
    <3> QED
      BY <1>2, <3>1 DEF None
  <2> QED
    BY <1>7, <2>1, <2>2, <2>3, <2>4 DEF TaskNext
<1>8. CASE CommandNext
  <2>1. CASE OnStartCommand
    BY <1>2, <2>1 DEF OnStartCommand
  <2>2. CASE OnStopIntent
    BY <1>1, <2>2 DEF OnStopIntent
  <2>3. ASSUME NEW c \in Clients,
               Unregister(c) \/ StopService(c) \/ ChangedLocale(c) \/ ClientDies(c)
        PROVE  RelayTold'
    BY <1>1, <2>3 DEF Unregister, StopService, ChangedLocale, ClientDies
  <2>4. ASSUME NEW c \in Clients, Register(c) PROVE RelayTold'
    <3>1. /\ UNCHANGED <<thread, bus>>
          /\ \/ isRouting' = TRUE /\ mainPc' = "acceptAlone"
             \/ mainPc' = "hung"
             \/ UNCHANGED <<isRouting, mainPc>>
      BY <2>4 DEF Register, RouteThroughTunnel
    <3> QED
      BY <3>1 DEF MirrorInv, RelayTold, Accepting
  <2>5. ASSUME NEW c \in Clients, RestartTunnel(c) PROVE RelayTold'
    <3>1. CASE mainPc' = "hung"
      BY <3>1 DEF RelayTold
    <3>2. CASE mainPc' # "hung"
      <4>1. /\ mainPc = "idle" /\ UNCHANGED <<thread, mainPc>>
            /\ isRouting' = FALSE
            /\ bus' = AcceptRoute(AcceptNet(bus, "CONNECTING"), "direct")
        BY <2>5, <3>2 DEF RestartTunnel, Command, StopRouteThroughTunnel
      <4>2. bus'.route \in {None, "direct"}
        BY <1>3, <4>1, RouteAfterAccept DEF NetStates, RouteStates
      <4> QED
        BY <4>1, <4>2 DEF RelayTold, Accepting, None
    <3> QED
      BY <3>1, <3>2
  <2> QED
    BY <1>8, <2>1, <2>2, <2>3, <2>4, <2>5 DEF CommandNext
<1>9. CASE ConfigNext
  <2>1. \A k \in Configs : cfg[k] \in {None, "done"}
    BY DEF MirrorInv, DestroyInv
  <2>2. 0 \in Configs
    BY BoundAssumption DEF Configs
  <2> QED
    BY <1>9, <2>1, <2>2 DEF ConfigNext, ConfigStartsThread, ConfigResolves,
         ConfigStopsRouting, ConfigStopHangs, ConfigRestarts, ConfigStep, None
<1>10. CASE ThreadNext
  <2>1. CASE RunTunnelStartsCore
    <3>1. ~Started /\ UNCHANGED <<mainPc, bus, isRouting>>
      BY <2>1 DEF RunTunnelStartsCore, ThreadStep, Started
    <3>2. isRouting = FALSE /\ ~Accepting /\ bus.route \in {None, "direct"}
      BY <3>1 DEF MirrorInv, QuietStart, StartBus
    <3> QED
      BY <3>1, <3>2 DEF RelayTold, Accepting, None
  <2>2. CASE \/ RunTunnel \/ RunTunnelConnecting \/ RunTunnelNotRouting
             \/ RunTunnelEstablishes \/ RunTunnelFails \/ RunTunnelSignalled
             \/ StopMarks \/ StopConnecting \/ StopNotRouting \/ StopVpn
             \/ StopVpnHangs \/ StopCore \/ StopParentService
    BY <1>2, <2>2 DEF RunTunnel, RunTunnelConnecting, RunTunnelNotRouting,
         RunTunnelEstablishes, RunTunnelFails, RunTunnelSignalled, StopMarks,
         StopConnecting, StopNotRouting, StopVpn, StopVpnHangs, StopCore, StopParentService,
         ThreadStep
  <2> QED
    BY <1>10, <2>1, <2>2 DEF ThreadNext
<1> QED
  BY <1>4, <1>5, <1>6, <1>7, <1>8, <1>9, <1>10 DEF Next

(* MirrorInv is an invariant of the mode in question.                      *)
LEMMA MirrorHolds ==
  ASSUME ~AsyncConfig, ~EarlyRestart
  PROVE  Spec => []MirrorInv
<1>1. Init => MirrorInv
  <2> SUFFICES ASSUME Init PROVE MirrorInv
    OBVIOUS
  <2>1. QueueOK
    BY EmptySeq DEF Init, QueueOK, NetStates
  <2>2. QuietStart
    <3>1. bus \in StartBus /\ mq \in Seq(StartTasks)
      BY EmptySeq DEF Init, StartBus
    <3> QED
      BY <3>1 DEF Init, QuietStart, Accepting
  <2>3. SessionOpen /\ RelayTold
    BY DEF Init, SessionOpen, RelayTold, None
  <2> QED
    BY <2>1, <2>2, <2>3, PipeInit, DestroyInit DEF MirrorInv
<1>2. MirrorInv /\ [Next]_vars => MirrorInv'
  BY PipeStep, QueueStep, DestroyStep, QuietStep, SessionOpenStep, RelayToldStep
     DEF MirrorInv
<1> QED
  BY <1>1, <1>2, PTL DEF Spec

(* The Boolean of the pair says whether VpnManager routes, whichever way   *)
(* commands, callbacks of the core, the late subscription and the tunnel   *)
(* thread interleave, for any clients and bounds, when configurations are  *)
(* resolved in the handler and a restart is asked for once the tunnel has  *)
(* started.  (The run TunnelManager_relay_mismatch shows what happens      *)
(* otherwise.)                                                             *)
THEOREM RelayAlwaysMirrors ==
  ASSUME ~AsyncConfig, ~EarlyRestart
  PROVE  Spec => []RelayMirrorsRouting
<1>1. MirrorInv => RelayMirrorsRouting
  <2> SUFFICES ASSUME MirrorInv, mainPc = "idle", thread = "await", PairKnown
               PROVE  bus.route = "routed" <=> isRouting
    BY DEF RelayMirrorsRouting, Settled, SessionUp
  <2>1. bus.route \in {"routed", "direct"}
    BY DEF MirrorInv, PipeInv, BusInv, BusType, PairKnown, RouteStates
  <2>2. /\ bus.route = "routed" => isRouting = TRUE
        /\ bus.route = "direct" => isRouting = FALSE
    BY DEF MirrorInv, RelayTold, Accepting
  <2> QED
    BY <2>1, <2>2
<1> QED
  BY <1>1, MirrorHolds, PTL

(* Clients are told CONNECTED only when traffic goes through the tunnel:   *)
(* the report is current, the relay mirrors VpnManager, and the interface  *)
(* is open as long as the session is up.  Same modes as above.             *)
THEOREM ConnectedIsTrue ==
  ASSUME ~AsyncConfig, ~EarlyRestart
  PROVE  Spec => []ConnectedMeansForwarding
<1>1. MirrorInv => ConnectedMeansForwarding
  <2> SUFFICES ASSUME MirrorInv, Settled, thread = "await", PairKnown,
                      Reported = "CONNECTED"
               PROVE  Forwarding
    BY DEF ConnectedMeansForwarding, SessionUp
  <2>1. ReportIsCurrent
    BY PipeImpliesReport DEF MirrorInv
  <2>2. ~waiting /\ bus.net = "CONNECTED" /\ bus.route # "direct"
    BY <2>1 DEF ReportIsCurrent
  <2>3. bus.route = "routed" /\ mainPc = "idle"
    BY <2>2 DEF MirrorInv, PipeInv, BusInv, BusType, PairKnown, RouteStates,
                Settled
  <2>4. isRouting = TRUE /\ tunFd = TRUE
    BY <2>3 DEF MirrorInv, RelayTold, SessionOpen, Accepting
  <2> QED
    BY <2>4 DEF Forwarding
<1> QED
  BY <1>1, MirrorHolds, PTL
=============================================================================
