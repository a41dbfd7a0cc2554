-------------------- MODULE TunnelServiceInteractorProofs --------------------
(***************************************************************************)
(* Proofs about TunnelServiceInteractor, for any interactors and bounds:   *)
(* however bindings, stops, restarts and crashes interleave, a             *)
(* DATA_TRANSFER_STATS message is handled only after a connection state    *)
(* was, and onServiceDisconnected is for a binding that was made (under    *)
(* all faults); and a service that goes on never drops a stop (without the *)
(* two faults that let an UNREGISTER overtake it).                         *)
(***************************************************************************)
EXTENDS TunnelServiceInteractor, SequenceTheorems, FiniteSetTheorems, TLAPS

(* What a looper has still to run, for a queue q, whether a state was handled
   (k) and the number of bindings made (n).  In front of every statistics
   message that is not preceded by a handled state there is a state message, and
   a disconnection is of a binding that was made. *)
HasState(q) == \E i \in 1..Len(q) : q[i].what = "state"
StatsBehindState(q, k) ==
  \A i \in 1..Len(q) : q[i].what = "stats" =>
    k = TRUE \/ \E j \in 1..Len(q) : j < i /\ q[j].what = "state"
RefersToBindings(q, n) ==
  \A i \in 1..Len(q) : q[i].what = "disconnected" => q[i].factory <= n
QueueFine(q, k, n) == q \in Seq(Messages) /\ StatsBehindState(q, k) /\ RefersToBindings(q, n)

(* The service sends statistics to its clients only, and those have a state or
   one under way. *)
Told(q, k) == k = TRUE \/ HasState(q)

InteractorInv ==
  /\ TypeOK
  /\ \A c \in Clients : QueueFine(inbox[c], known[c], Len(factories[c]))
  /\ \A c \in mClients : Told(inbox[c], known[c])

-----------------------------------------------------------------------------
(* The messages, and what is in a field of them. *)
LEMMA MessageKinds ==
  /\ \A m \in Messages : m.what \in {"state", "stats", "starting", "disconnected"}
  /\ \A m \in Messages : m.what = "disconnected" => m.factory \in Nat
  /\ \A m \in Messages : m.what = "state" => m.net \in Nets
  /\ \A x \in Nets : [what |-> "state", net |-> x] \in Messages
  /\ [what |-> "stats"] \in Messages /\ [what |-> "starting"] \in Messages
  /\ \A n \in Nat \ {0} : [what |-> "disconnected", factory |-> n] \in Messages
<1>1. ASSUME NEW m \in Messages
      PROVE  /\ m.what \in {"state", "stats", "starting", "disconnected"}
             /\ m.what = "disconnected" => m.factory \in Nat
             /\ m.what = "state" => m.net \in Nets
  BY DEF Messages
<1>2. \A x \in Nets : [what |-> "state", net |-> x] \in Messages
  BY DEF Messages
<1>3. [what |-> "stats"] \in Messages /\ [what |-> "starting"] \in Messages
  BY DEF Messages
<1>4. \A n \in Nat \ {0} : [what |-> "disconnected", factory |-> n] \in Messages
  BY DEF Messages
<1> QED
  BY <1>1, <1>2, <1>3, <1>4

(* A message is posted. *)
LEMMA AppendFine ==
  ASSUME NEW q, NEW k, NEW n, QueueFine(q, k, n), NEW m \in Messages,
         m.what = "stats" => Told(q, k), m.what = "disconnected" => m.factory <= n
  PROVE  /\ QueueFine(Append(q, m), k, n)
         /\ Told(q, k) \/ m.what = "state" => Told(Append(q, m), k)
<1> DEFINE a == Append(q, m)
<1>1. /\ q \in Seq(Messages) /\ a \in Seq(Messages) /\ Len(q) \in Nat /\ Len(a) = Len(q) + 1
      /\ \A i \in 1..Len(q) : a[i] = q[i]
      /\ a[Len(q) + 1] = m
  BY DEF QueueFine
<1> HIDE DEF a
<1>2. ASSUME NEW i \in 1..Len(a), a[i].what = "stats"
      PROVE  k = TRUE \/ \E j \in 1..Len(a) : j < i /\ a[j].what = "state"
  <2>1. CASE i \in 1..Len(q)
    BY <1>1, <1>2, <2>1 DEF QueueFine, StatsBehindState
  <2>2. CASE i = Len(q) + 1
    <3>1. k = TRUE \/ \E j \in 1..Len(q) : q[j].what = "state"
      BY <1>1, <1>2, <2>2 DEF Told, HasState
    <3>2. \A j \in 1..Len(q) : j \in 1..Len(a) /\ j < i /\ a[j] = q[j]
      BY <1>1, <2>2
    <3> QED
      BY <3>1, <3>2
  <2>3. i \in 1..Len(q) \/ i = Len(q) + 1
    BY <1>1
  <2> QED
    BY <2>1, <2>2, <2>3
<1>3. ASSUME NEW i \in 1..Len(a), a[i].what = "disconnected" PROVE a[i].factory <= n
  <2>1. CASE i \in 1..Len(q)
    BY <1>1, <1>3, <2>1 DEF QueueFine, RefersToBindings
  <2>2. CASE i = Len(q) + 1
    BY <1>1, <1>3, <2>2
  <2> QED
    BY <1>1, <2>1, <2>2
<1>4. Told(q, k) \/ m.what = "state" => Told(a, k)
  BY <1>1 DEF Told, HasState
<1> QED
  BY <1>1, <1>2, <1>3, <1>4 DEF a, QueueFine, StatsBehindState, RefersToBindings

(* The looper runs the first message; a state makes the state known. *)
LEMMA TailFine ==
  ASSUME NEW q, NEW k, NEW n, QueueFine(q, k, n), q # <<>>,
         NEW l, k = TRUE \/ Head(q).what = "state" => l = TRUE
  PROVE  QueueFine(Tail(q), l, n) /\ (Told(q, k) => Told(Tail(q), l))
<1> DEFINE r == Tail(q)
<1>1. /\ q \in Seq(Messages) /\ r \in Seq(Messages) /\ Len(q) \in Nat /\ Len(r) = Len(q) - 1
      /\ \A i \in 1..Len(r) : r[i] = q[i + 1]
      /\ Head(q) = q[1] /\ Len(q) > 0
  BY HeadTailProperties DEF QueueFine
<1> HIDE DEF r
<1>2. ASSUME NEW i \in 1..Len(r), r[i].what = "stats"
      PROVE  l = TRUE \/ \E j \in 1..Len(r) : j < i /\ r[j].what = "state"
  <2>1. i + 1 \in 1..Len(q) /\ q[i + 1].what = "stats"
    BY <1>1, <1>2
  <2>2. k = TRUE \/ \E j \in 1..Len(q) : j < i + 1 /\ q[j].what = "state"
    BY <2>1 DEF QueueFine, StatsBehindState
  <2>3. CASE k = TRUE
    BY <2>3
  <2>4. CASE \E j \in 1..Len(q) : j < i + 1 /\ q[j].what = "state"
    <3>1. PICK j \in 1..Len(q) : j < i + 1 /\ q[j].what = "state"
      BY <2>4
    <3>2. CASE j = 1
      BY <1>1, <3>1, <3>2
    <3>3. CASE j # 1
      <4>1. j - 1 \in 1..Len(r) /\ j - 1 < i /\ (j - 1) + 1 = j
        BY <1>1, <3>1, <3>3
      <4>2. r[j - 1] = q[j]
        BY <1>1, <4>1
      <4> QED
        BY <3>1, <4>1, <4>2
    <3> QED
      BY <3>2, <3>3
  <2> QED
    BY <2>2, <2>3, <2>4
<1>3. ASSUME NEW i \in 1..Len(r), r[i].what = "disconnected" PROVE r[i].factory <= n
  <2>1. i + 1 \in 1..Len(q) /\ r[i] = q[i + 1]
    BY <1>1
  <2> QED
    BY <1>3, <2>1 DEF QueueFine, RefersToBindings
<1>4. Told(q, k) => Told(r, l)
  <2>1. CASE k = TRUE
    BY <2>1 DEF Told
  <2>2. CASE HasState(q)
    <3>1. PICK j \in 1..Len(q) : q[j].what = "state"
      BY <2>2 DEF HasState
    <3>2. CASE j = 1
      BY <1>1, <3>1, <3>2 DEF Told
    <3>3. CASE j # 1
      <4>1. j - 1 \in 1..Len(r) /\ (j - 1) + 1 = j
        BY <1>1, <3>1, <3>3
      <4> QED
        BY <1>1, <3>1, <4>1 DEF Told, HasState
    <3> QED
      BY <3>2, <3>3
  <2> QED
    BY <2>1, <2>2 DEF Told
<1> QED
  BY <1>1, <1>2, <1>3, <1>4 DEF r, QueueFine, StatsBehindState, RefersToBindings

(* A binding more, or a queue that nobody touches. *)
LEMMA MoreBindings ==
  ASSUME NEW q, NEW k, NEW n \in Nat, NEW m \in Nat, n <= m, QueueFine(q, k, n)
  PROVE  QueueFine(q, k, m)
<1>1. ASSUME NEW i \in 1..Len(q), q[i].what = "disconnected" PROVE q[i].factory <= m
  <2>1. q[i] \in Messages /\ q[i].factory <= n
    BY <1>1 DEF QueueFine, RefersToBindings
  <2>2. q[i].factory \in Nat
    BY <1>1, <2>1, MessageKinds
  <2> QED
    BY <2>1, <2>2
<1> QED
  BY <1>1 DEF QueueFine, RefersToBindings

(* The bindings of an interactor hear that the service is gone. *)
LEMMA DisconnectionsFine ==
  ASSUME NEW q, NEW k, NEW n \in Nat, QueueFine(q, k, n), NEW s \in Seq(1..n)
  PROVE  QueueFine(q \o Disconnections(s), k, n)
<1> DEFINE d == Disconnections(s)
           a == q \o d
<1>1. d \in Seq(Messages) /\ Len(d) = Len(s) /\ Len(s) \in Nat
      /\ \A i \in 1..Len(s) : d[i].what = "disconnected" /\ d[i].factory <= n
  <2>1. Len(s) \in Nat /\ \A i \in 1..Len(s) : s[i] \in 1..n
    OBVIOUS
  <2>2. \A i \in 1..Len(s) : d[i] = [what |-> "disconnected", factory |-> s[i]]
    BY DEF Disconnections
  <2>3. \A i \in 1..Len(s) : d[i] \in Messages
    <3>1. ASSUME NEW i \in 1..Len(s) PROVE d[i] \in Messages
      <4>1. s[i] \in Nat \ {0}
        BY <2>1
      <4> QED
        BY <2>2, <4>1, MessageKinds
    <3> QED
      BY <3>1
  <2>4. d = [i \in 1..Len(s) |-> [what |-> "disconnected", factory |-> s[i]]]
    BY DEF Disconnections
  <2>5. d \in [1..Len(s) -> Messages]
    BY <2>3, <2>4
  <2>6. d \in Seq(Messages) /\ Len(d) = Len(s)
    BY <2>1, <2>5
  <2>7. ASSUME NEW i \in 1..Len(s) PROVE d[i].what = "disconnected" /\ d[i].factory <= n
    <3>1. d[i] = [what |-> "disconnected", factory |-> s[i]] /\ s[i] <= n
      BY <2>1, <2>2
    <3> QED
      BY <3>1
  <2> QED
    BY <2>1, <2>6, <2>7
<1> HIDE DEF d
<1>2. /\ q \in Seq(Messages) /\ a \in Seq(Messages) /\ Len(q) \in Nat
      /\ Len(a) = Len(q) + Len(s)
      /\ \A i \in 1..Len(q) : a[i] = q[i]
      /\ \A i \in 1..Len(a) : i > Len(q) => a[i] = d[i - Len(q)] /\ i - Len(q) \in 1..Len(s)
  <2>1. q \in Seq(Messages)
    BY DEF QueueFine
  <2>2. /\ a \in Seq(Messages) /\ Len(a) = Len(q) + Len(d)
        /\ \A i \in 1..Len(a) : a[i] = IF i <= Len(q) THEN q[i] ELSE d[i - Len(q)]
    BY <1>1, <2>1, ConcatProperties
  <2>3. Len(q) \in Nat
    BY <2>1
  <2> HIDE DEF a
  <2> QED
    BY <1>1, <2>1, <2>2, <2>3
<1> HIDE DEF a
<1>3. ASSUME NEW i \in 1..Len(a), a[i].what = "stats"
      PROVE  k = TRUE \/ \E j \in 1..Len(a) : j < i /\ a[j].what = "state"
  <2>1. CASE i > Len(q)
    <3>1. a[i] = d[i - Len(q)] /\ d[i - Len(q)].what = "disconnected"
      BY <1>1, <1>2, <2>1
    <3> QED
      BY <1>3, <3>1
  <2>2. CASE i \in 1..Len(q)
    BY <1>2, <1>3, <2>2, SMTT(40) DEF QueueFine, StatsBehindState
  <2>3. i > Len(q) \/ i \in 1..Len(q)
    BY <1>2
  <2> QED
    BY <2>1, <2>2, <2>3
<1>4. ASSUME NEW i \in 1..Len(a), a[i].what = "disconnected" PROVE a[i].factory <= n
  <2>1. CASE i \in 1..Len(q)
    BY <1>2, <1>4, <2>1 DEF QueueFine, RefersToBindings
  <2>2. CASE i > Len(q)
    BY <1>1, <1>2, <2>2
  <2> QED
    BY <1>2, <2>1, <2>2
<1> QED
  BY <1>2, <1>3, <1>4 DEF a, d, QueueFine, StatsBehindState, RefersToBindings

-----------------------------------------------------------------------------
Whats == {"register", "unregister", "stop"}
Orders == [from : Clients, what : Whats]

(* A factory changes in place. *)
LEMMA FactoryChanged ==
  ASSUME TypeOK, NEW c \in Clients, NEW i \in 1..Len(factories[c]), NEW g \in Factory
  PROVE  /\ [factories EXCEPT ![c][i] = g] \in [Clients -> Seq(Factory)]
         /\ \A d \in Clients : Len([factories EXCEPT ![c][i] = g][d]) = Len(factories[d])
<1> DEFINE s == factories[c]
           e == [s EXCEPT ![i] = g]
<1>1. factories \in [Clients -> Seq(Factory)] /\ s \in Seq(Factory) /\ i \in 1..Len(s)
  BY DEF TypeOK
<1>2. e \in Seq(Factory) /\ Len(e) = Len(s)
  <2> HIDE DEF s
  <2> QED
    BY <1>1, ExceptSeq
<1>3. [factories EXCEPT ![c][i] = g] = [factories EXCEPT ![c] = e]
  OBVIOUS
<1> HIDE DEF e
<1>4. [factories EXCEPT ![c] = e] \in [Clients -> Seq(Factory)]
  BY <1>1, <1>2
<1>5. \A d \in Clients : Len([factories EXCEPT ![c] = e][d]) = Len(factories[d])
  BY <1>1, <1>2
<1> QED
  BY <1>3, <1>4, <1>5

(* bindTunnelService adds one. *)
LEMMA FactoryAdded ==
  ASSUME TypeOK, NEW c \in Clients, BindTunnelService(c)
  PROVE  /\ factories' \in [Clients -> Seq(Factory)]
         /\ \A d \in Clients : Len(factories[d]) \in Nat /\ Len(factories'[d]) \in Nat
                               /\ Len(factories[d]) <= Len(factories'[d])
<1> DEFINE g == [conn |-> "bound", messenger |-> "none", waiting |-> <<"register">>,
                 restart |-> FALSE]
<1>1. factories \in [Clients -> Seq(Factory)]
  BY DEF TypeOK
<1>2. <<"register">> \in Seq(Whats)
  BY DEF Whats
<1>3. g \in Factory
  BY <1>2 DEF Factory, Whats
<1>4. factories' = [factories EXCEPT ![c] = Append(factories[c], g)]
  BY DEF BindTunnelService
<1> HIDE DEF g
<1>5. Append(factories[c], g) \in Seq(Factory) /\ Len(Append(factories[c], g)) = Len(factories[c]) + 1
  BY <1>1, <1>3
<1>6. \A d \in Clients : Len(factories[d]) \in Nat
  BY <1>1
<1> DEFINE a == Append(factories[c], g)
<1> HIDE DEF a
<1>7. factories' = [factories EXCEPT ![c] = a] /\ a \in Seq(Factory) /\ Len(a) = Len(factories[c]) + 1
  BY <1>4, <1>5 DEF a
<1>8. factories' \in [Clients -> Seq(Factory)]
  BY <1>1, <1>7
<1>9. ASSUME NEW d \in Clients
      PROVE  Len(factories'[d]) \in Nat /\ Len(factories[d]) <= Len(factories'[d])
  <2>1. CASE d = c
    BY <1>1, <1>6, <1>7, <2>1
  <2>2. CASE d # c
    BY <1>1, <1>6, <1>7, <2>2
  <2> QED
    BY <2>1, <2>2
<1> QED
  BY <1>6, <1>8, <1>9

(* What Message.send puts on its way. *)
LEMMA SentType ==
  ASSUME TypeOK, NEW c \in Clients, NEW whats \in Seq(Whats), NEW messenger
  PROVE  Sent(c, whats, messenger) \in Seq(Orders)
<1> DEFINE new == [i \in 1..Len(whats) |-> [from |-> c, what |-> whats[i]]]
<1>1. toService \in Seq(Orders) /\ Len(whats) \in Nat
  BY DEF TypeOK, Orders, Whats
<1>2. ASSUME NEW i \in 1..Len(whats) PROVE [from |-> c, what |-> whats[i]] \in Orders
  <2>1. whats[i] \in Whats
    OBVIOUS
  <2> QED
    BY <2>1 DEF Orders
<1>3. new \in [1..Len(whats) -> Orders]
  BY <1>2
<1>4. new \in Seq(Orders)
  <2> HIDE DEF new
  <2> QED
    BY <1>1, <1>3
<1>5. toService \o new \in Seq(Orders)
  <2> HIDE DEF new
  <2> QED
    BY <1>1, <1>4, ConcatProperties
<1> QED
  BY <1>1, <1>5 DEF Sent

(* sendServiceMessageCompletable changes the current factory at most. *)
LEMMA MessageSent ==
  ASSUME TypeOK, NEW c \in Clients, NEW what \in Whats, NEW f,
         HasFactory(c) => f \in Factory, SendServiceMessage(c, what, f)
  PROVE  /\ factories' \in [Clients -> Seq(Factory)] /\ toService' \in Seq(Orders)
         /\ \A d \in Clients : Len(factories'[d]) = Len(factories[d])
<1>1. factories \in [Clients -> Seq(Factory)] /\ toService \in Seq(Orders)
  BY DEF TypeOK, Orders, Whats
<1>2. CASE UNCHANGED <<toService, factories>>
  BY <1>1, <1>2
<1>3. CASE HasFactory(c) /\ ~UNCHANGED <<toService, factories>>
  <2> DEFINE n == Last(c)
             cur == Current(c)
  <2>1. n \in 1..Len(factories[c]) /\ factories[c][n] = cur
    <3>1. factories[c] \in Seq(Factory) /\ factories[c] # <<>>
      BY <1>1, <1>3 DEF HasFactory
    <3> QED
      BY <3>1, EmptySeq DEF Last, Current
  <2>2. cur \in Factory /\ f \in Factory
    BY <1>1, <1>3, <2>1
  <2>3. <<what>> \in Seq(Whats)
    OBVIOUS
  <2>4. CASE cur.messenger = "none"
    <3> DEFINE g == [cur EXCEPT !.waiting = Append(cur.waiting, what), !.restart = f.restart]
    <3>1. factories' = [factories EXCEPT ![c][n] = g] /\ toService' = toService
      BY <1>3, <2>4 DEF SendServiceMessage
    <3>2. g \in Factory
      <4>1. cur.waiting \in Seq(Whats) /\ f.restart \in BOOLEAN
        BY <2>2 DEF Factory, Whats
      <4>2. Append(cur.waiting, what) \in Seq(Whats)
        BY <4>1
      <4> QED
        BY <2>2, <4>1, <4>2 DEF Factory, Whats
    <3> HIDE DEF g, n
    <3>3. factories' \in [Clients -> Seq(Factory)]
          /\ \A d \in Clients : Len(factories'[d]) = Len(factories[d])
      BY <2>1, <3>1, <3>2, FactoryChanged
    <3> QED
      BY <1>1, <3>1, <3>3
  <2>5. CASE cur.messenger # "none"
    <3>1. factories' = [factories EXCEPT ![c][n] = f]
          /\ toService' = Sent(c, <<what>>, cur.messenger)
      BY <1>3, <2>5 DEF SendServiceMessage
    <3> HIDE DEF n, cur
    <3>2. factories' \in [Clients -> Seq(Factory)]
          /\ \A d \in Clients : Len(factories'[d]) = Len(factories[d])
      BY <2>1, <2>2, <3>1, FactoryChanged
    <3>3. toService' \in Seq(Orders)
      BY <2>3, <3>1, SentType
    <3> QED
      BY <3>2, <3>3
  <2> QED
    BY <2>4, <2>5
<1>4. ~HasFactory(c) => UNCHANGED <<toService, factories>>
  BY DEF SendServiceMessage
<1> QED
  BY <1>2, <1>3, <1>4

-----------------------------------------------------------------------------
(* A step that posts nothing and runs nothing leaves the queues fine. *)
LEMMA QueuesUntouched ==
  ASSUME InteractorInv, TypeOK', UNCHANGED <<inbox, known>>, mClients' \subseteq mClients,
         \A d \in Clients : Len(factories[d]) <= Len(factories'[d])
  PROVE  InteractorInv'
<1>1. ASSUME NEW c \in Clients PROVE QueueFine(inbox'[c], known'[c], Len(factories'[c]))
  <2>1. Len(factories[c]) \in Nat /\ Len(factories'[c]) \in Nat
    BY DEF InteractorInv, TypeOK
  <2>2. QueueFine(inbox[c], known[c], Len(factories[c]))
    BY DEF InteractorInv
  <2> QED
    BY <2>1, <2>2, MoreBindings
<1>2. \A c \in mClients' : Told(inbox'[c], known'[c])
  BY DEF InteractorInv
<1> QED
  BY <1>1, <1>2 DEF InteractorInv

(* The constructor of every interactor. *)
LEMMA InteractorInitInv ==
  ASSUME Init PROVE InteractorInv
<1>1. crashed \in BOOLEAN /\ started \in [Clients -> BOOLEAN] /\ known \in [Clients -> BOOLEAN]
  BY DEF Init
<1>2. /\ <<>> \in Seq(Messages) /\ <<>> \in Seq(Factory)
      /\ toService \in Seq([from : Clients, what : {"register", "unregister", "stop"}])
  BY EmptySeq DEF Init
<1>3. inbox \in [Clients -> Seq(Messages)] /\ factories \in [Clients -> Seq(Factory)]
  BY <1>2 DEF Init
<1>4. TypeOK
  BY <1>1, <1>2, <1>3 DEF Init, TypeOK, Nets
<1>5. ASSUME NEW c \in Clients PROVE QueueFine(inbox[c], known[c], Len(factories[c]))
  <2>1. inbox[c] = <<>>
    BY DEF Init
  <2> QED
    BY <1>2, <2>1 DEF QueueFine, StatsBehindState, RefersToBindings
<1> QED
  BY <1>4, <1>5 DEF Init, InteractorInv

(* onStart, onStop, stopTunnelService and scheduleVpnServiceRestart. *)
LEMMA ClientCalls ==
  ASSUME InteractorInv, NEW c \in Clients,
         OnStart(c) \/ OnStop(c) \/ UserStops(c) \/ ScheduleVpnServiceRestart(c)
  PROVE  InteractorInv'
<1>0. /\ TypeOK /\ relay \in [Clients -> Nets \cup {"unknown", "stopped"}]
      /\ started \in [Clients -> BOOLEAN] /\ factories \in [Clients -> Seq(Factory)]
  BY DEF InteractorInv, TypeOK
<1>1. UNCHANGED <<svc, crashed, net, mClients, inbox, known>>
  BY DEF OnStart, OnStop, UserStops, ScheduleVpnServiceRestart, service
<1>2. relay' \in [Clients -> Nets \cup {"unknown", "stopped"}]
  BY <1>0 DEF OnStart, OnStop, UserStops, ScheduleVpnServiceRestart
<1>3. started' \in [Clients -> BOOLEAN]
  BY <1>0 DEF OnStart, OnStop, UserStops, ScheduleVpnServiceRestart
<1>4. \A d \in Clients : Len(factories[d]) \in Nat
  BY <1>0
<1>5. HasFactory(c) => Current(c) \in Factory
  <2>1. factories[c] \in Seq(Factory)
    BY <1>0
  <2> QED
    BY <2>1, EmptySeq DEF HasFactory, Current, Last
<1>6. /\ factories' \in [Clients -> Seq(Factory)] /\ toService' \in Seq(Orders)
      /\ \A d \in Clients : Len(factories[d]) <= Len(factories'[d])
  <2>0. toService \in Seq(Orders)
    BY <1>0 DEF TypeOK, Orders, Whats
  <2>1. CASE OnStart(c)
    <3>1. toService' = toService /\ (BindTunnelService(c) \/ factories' = factories)
      BY <2>1 DEF OnStart
    <3> QED
      BY <1>0, <1>4, <2>0, <3>1, FactoryAdded
  <2>2. CASE OnStop(c)
    <3> DEFINE f == IF HasFactory(c) THEN [Current(c) EXCEPT !.conn = "unbound"] ELSE <<>>
    <3>1. SendServiceMessage(c, "unregister", f) /\ "unregister" \in Whats
      BY <2>2 DEF OnStop, Whats
    <3>2. HasFactory(c) => f \in Factory
      BY <1>5 DEF Factory
    <3> HIDE DEF f
    <3>3. /\ factories' \in [Clients -> Seq(Factory)] /\ toService' \in Seq(Orders)
          /\ \A d \in Clients : Len(factories'[d]) = Len(factories[d])
      BY <1>0, <3>1, <3>2, MessageSent
    <3> QED
      BY <1>4, <3>3
  <2>3. CASE UserStops(c)
    <3>1. SendServiceMessage(c, "stop", Current(c)) /\ "stop" \in Whats
      BY <2>3 DEF UserStops, Whats
    <3>3. /\ factories' \in [Clients -> Seq(Factory)] /\ toService' \in Seq(Orders)
          /\ \A d \in Clients : Len(factories'[d]) = Len(factories[d])
      BY <1>0, <1>5, <3>1, MessageSent
    <3> QED
      BY <1>4, <3>3
  <2>4. CASE ScheduleVpnServiceRestart(c)
    <3> DEFINE f == [Current(c) EXCEPT !.restart = TRUE]
    <3>1. SendServiceMessage(c, "stop", f) /\ "stop" \in Whats
      BY <2>4 DEF ScheduleVpnServiceRestart, Whats
    <3>2. HasFactory(c) => f \in Factory
      BY <1>5 DEF Factory
    <3> HIDE DEF f
    <3>3. /\ factories' \in [Clients -> Seq(Factory)] /\ toService' \in Seq(Orders)
          /\ \A d \in Clients : Len(factories'[d]) = Len(factories[d])
      BY <1>0, <3>1, <3>2, MessageSent
    <3> QED
      BY <1>4, <3>3
  <2> QED
    BY <2>1, <2>2, <2>3, <2>4
<1>7. TypeOK'
  BY <1>1, <1>2, <1>3, <1>6 DEF InteractorInv, TypeOK, Orders, Whats
<1> QED
  BY <1>1, <1>6, <1>7, QueuesUntouched

(* startTunnelService posts the start to every interactor; q is what the loopers
   have otherwise to run. *)
LEMMA StartPosted ==
  ASSUME TypeOK, NEW c \in Clients, NEW q \in [Clients -> Seq(Messages)],
         StartTunnelService(c, q) \/ StartTunnelServiceFails(c, q),
         NEW k, NEW n,
         \A d \in Clients : QueueFine(q[d], k[d], n[d])
  PROVE  /\ inbox' \in [Clients -> Seq(Messages)]
         /\ relay' \in [Clients -> Nets \cup {"unknown", "stopped"}]
         /\ svc' \in {"down", "running", "commanded", "stopping"} /\ net' \in Nets
         /\ crashed' \in BOOLEAN /\ mClients' = mClients
         /\ \A d \in Clients : QueueFine(inbox'[d], k[d], n[d])
         /\ \A d \in Clients : Told(q[d], k[d]) => Told(inbox'[d], k[d])
<1> DEFINE m == [what |-> "starting"]
<1>1. m \in Messages /\ m.what = "starting"
  BY MessageKinds
<1> HIDE DEF m
<1>2. \/ inbox' = q
      \/ inbox' = [d \in Clients |-> Append(q[d], m)]
  BY DEF StartTunnelService, StartTunnelServiceFails, m
<1>3. relay' \in [Clients -> Nets \cup {"unknown", "stopped"}]
  BY DEF TypeOK, StartTunnelService, StartTunnelServiceFails
<1>4. svc' \in {"down", "running", "commanded", "stopping"} /\ net' \in Nets
      /\ mClients' = mClients
  BY DEF TypeOK, StartTunnelService, StartTunnelServiceFails, service, Nets
<1>5. crashed' \in BOOLEAN
  BY ZenonT(20) DEF TypeOK, StartTunnelService, StartTunnelServiceFails, service
<1>6. CASE inbox' = q
  BY <1>3, <1>4, <1>5, <1>6
<1>7. CASE inbox' = [d \in Clients |-> Append(q[d], m)]
  <2>1. \A d \in Clients : inbox'[d] = Append(q[d], m)
    BY <1>7
  <2>2. inbox' \in [Clients -> Seq(Messages)]
    BY <1>1, <1>7
  <2>3. ASSUME NEW d \in Clients
        PROVE  /\ QueueFine(inbox'[d], k[d], n[d])
               /\ Told(q[d], k[d]) => Told(inbox'[d], k[d])
    <3>1. QueueFine(q[d], k[d], n[d])
      OBVIOUS
    <3>2. /\ QueueFine(Append(q[d], m), k[d], n[d])
          /\ Told(q[d], k[d]) \/ m.what = "state" => Told(Append(q[d], m), k[d])
      BY <1>1, <3>1, AppendFine
    <3> QED
      BY <2>1, <3>2
  <2> QED
    BY <1>3, <1>4, <1>5, <2>2, <2>3
<1> QED
  BY <1>2, <1>6, <1>7

(* The user starts the tunnel. *)
LEMMA UserStartsInv ==
  ASSUME InteractorInv, NEW c \in Clients, UserStarts(c)
  PROVE  InteractorInv'
<1> DEFINE n == [d \in Clients |-> Len(factories[d])]
<1>1. TypeOK /\ inbox \in [Clients -> Seq(Messages)]
  BY DEF InteractorInv, TypeOK
<1>2. /\ StartTunnelService(c, inbox) \/ StartTunnelServiceFails(c, inbox)
      /\ UNCHANGED <<toService, started, factories, known>>
  BY DEF UserStarts
<1>3. \A d \in Clients : QueueFine(inbox[d], known[d], n[d])
  BY DEF InteractorInv
<1>4. \A d \in Clients : n[d] = Len(factories[d])
  OBVIOUS
<1> HIDE DEF n
<1>5. /\ inbox' \in [Clients -> Seq(Messages)]
      /\ relay' \in [Clients -> Nets \cup {"unknown", "stopped"}]
      /\ svc' \in {"down", "running", "commanded", "stopping"} /\ net' \in Nets
      /\ crashed' \in BOOLEAN /\ mClients' = mClients
      /\ \A d \in Clients : QueueFine(inbox'[d], known[d], n[d])
      /\ \A d \in Clients : Told(inbox[d], known[d]) => Told(inbox'[d], known[d])
  BY <1>1, <1>2, <1>3, StartPosted
<1>6. TypeOK'
  BY <1>1, <1>2, <1>5 DEF TypeOK
<1>7. \A d \in mClients' : Told(inbox'[d], known'[d])
  BY <1>1, <1>2, <1>5 DEF InteractorInv, TypeOK
<1> QED
  BY <1>2, <1>4, <1>5, <1>6, <1>7 DEF InteractorInv


(* onServiceConnected: what waited is sent, and a binding changes in place. *)
LEMMA ConnectsInv ==
  ASSUME InteractorInv, NEW c \in Clients, NEW i \in DOMAIN factories[c],
         OnServiceConnected(c, i)
  PROVE  InteractorInv'
<1> DEFINE s == factories[c]
           f == s[i]
           sent == [f EXCEPT !.messenger = "live", !.waiting = <<>>]
           all == [s EXCEPT ![i] = sent]
           n == Last(c)
           end == [all[n] EXCEPT !.conn = "unbound"]
           new == [all EXCEPT ![n].conn = "unbound"]
<1>1. TypeOK /\ factories \in [Clients -> Seq(Factory)] /\ s \in Seq(Factory)
  BY DEF InteractorInv, TypeOK
<1>2. i \in 1..Len(s) /\ Len(s) \in Nat /\ n \in 1..Len(s) /\ f \in Factory
  BY <1>1 DEF Last
<1>3. /\ toService' = Sent(c, f.waiting, "live")
      /\ factories' = [factories EXCEPT ![c] = all] \/ factories' = [factories EXCEPT ![c] = new]
      /\ UNCHANGED <<svc, crashed, net, mClients, inbox, relay, started, known>>
  BY DEF OnServiceConnected, service
<1>4. f.waiting \in Seq(Whats) /\ <<>> \in Seq(Whats)
  BY <1>2, EmptySeq DEF Factory, Whats
<1>5. sent \in Factory
  BY <1>2, <1>4 DEF Factory, Whats
<1>6. toService' \in Seq(Orders)
  BY <1>1, <1>3, <1>4, SentType
<1> HIDE DEF s, sent, n, f
<1>7. all \in Seq(Factory) /\ Len(all) = Len(s)
  BY <1>1, <1>2, <1>5, ExceptSeq
<1> HIDE DEF all
<1>8. all[n] \in Factory
  BY <1>2, <1>7
<1>9. end \in Factory
  BY <1>8 DEF Factory
<1>10. new = [all EXCEPT ![n] = end]
  OBVIOUS
<1> HIDE DEF end
<1>11. [all EXCEPT ![n] = end] \in Seq(Factory) /\ Len([all EXCEPT ![n] = end]) = Len(all)
  BY <1>2, <1>7, <1>9, ExceptSeq
<1>12. new \in Seq(Factory) /\ Len(new) = Len(s)
  BY <1>7, <1>10, <1>11
<1> HIDE DEF new
<1>13. PICK t \in Seq(Factory) : Len(t) = Len(s) /\ factories' = [factories EXCEPT ![c] = t]
  BY <1>3, <1>7, <1>12
<1>14. factories' \in [Clients -> Seq(Factory)]
  BY <1>1, <1>13
<1>15. \A d \in Clients : Len(factories[d]) <= Len(factories'[d])
  <2>1. ASSUME NEW d \in Clients PROVE Len(factories[d]) <= Len(factories'[d])
    <3>1. Len(factories[d]) \in Nat
      BY <1>1
    <3>2. CASE d = c
      BY <1>1, <1>2, <1>13, <3>2 DEF s
    <3>3. CASE d # c
      BY <1>1, <1>13, <3>1, <3>3
    <3> QED
      BY <3>2, <3>3
  <2> QED
    BY <2>1
<1>16. TypeOK'
  BY <1>1, <1>3, <1>6, <1>14 DEF TypeOK, Orders, Whats
<1> QED
  BY <1>3, <1>15, <1>16, QueuesUntouched

(* The looper takes the first thing off its queue: the queues are fine and the
   clients are told as before. *)
LEMMA FirstTaken ==
  ASSUME InteractorInv, NEW c \in Clients, inbox[c] # <<>>, inbox' = Rest(c),
         known' = known \/ (known' = [known EXCEPT ![c] = TRUE] /\ Head(inbox[c]).what = "state"),
         Head(inbox[c]).what = "state" => known'[c] = TRUE
  PROVE  /\ inbox' \in [Clients -> Seq(Messages)] /\ known' \in [Clients -> BOOLEAN]
         /\ \A d \in Clients : QueueFine(inbox'[d], known'[d], Len(factories[d]))
         /\ \A d \in mClients : Told(inbox'[d], known'[d])
<1>1. /\ TypeOK /\ inbox \in [Clients -> Seq(Messages)] /\ known \in [Clients -> BOOLEAN]
      /\ mClients \subseteq Clients
  BY DEF InteractorInv, TypeOK
<1>2. known' \in [Clients -> BOOLEAN]
  BY <1>1
<1>3. inbox[c] \in Seq(Messages)
  BY <1>1
<1>4. Tail(inbox[c]) \in Seq(Messages)
  BY <1>3, HeadTailProperties
<1>5. inbox' = [inbox EXCEPT ![c] = Tail(inbox[c])]
  BY DEF Rest
<1>6. inbox' \in [Clients -> Seq(Messages)]
  BY <1>1, <1>4, <1>5
<1>7. ASSUME NEW d \in Clients
      PROVE  /\ QueueFine(inbox'[d], known'[d], Len(factories[d]))
             /\ Told(inbox[d], known[d]) => Told(inbox'[d], known'[d])
  <2>1. QueueFine(inbox[d], known[d], Len(factories[d]))
    BY DEF InteractorInv
  <2>2. CASE d = c
    <3>1. inbox'[d] = Tail(inbox[d]) /\ inbox[d] # <<>>
      BY <1>1, <1>5, <2>2
    <3>2. known[d] = TRUE => known'[d] = TRUE
      BY <1>1
    <3>3. known[d] = TRUE \/ Head(inbox[d]).what = "state" => known'[d] = TRUE
      BY <2>2, <3>2
    <3>4. /\ QueueFine(Tail(inbox[d]), known'[d], Len(factories[d]))
          /\ Told(inbox[d], known[d]) => Told(Tail(inbox[d]), known'[d])
      BY <2>1, <3>1, <3>3, TailFine
    <3> QED
      BY <3>1, <3>4
  <2>3. CASE d # c
    <3>1. inbox'[d] = inbox[d] /\ known'[d] = known[d]
      BY <1>1, <1>5, <2>3
    <3> QED
      BY <2>1, <3>1
  <2> QED
    BY <2>2, <2>3
<1>8. \A d \in mClients : Told(inbox'[d], known'[d])
  BY <1>1, <1>7 DEF InteractorInv
<1> QED
  BY <1>2, <1>6, <1>7, <1>8

(* The handlers of a state, of statistics and of the start broadcast. *)
LEMMA MessagesHandled ==
  ASSUME InteractorInv, NEW c \in Clients, OnStartingBroadcast(c) \/ OnState(c) \/ OnStats(c)
  PROVE  InteractorInv'
<1>0. TypeOK /\ inbox \in [Clients -> Seq(Messages)] /\ known \in [Clients -> BOOLEAN]
      /\ relay \in [Clients -> Nets \cup {"unknown", "stopped"}]
      /\ factories \in [Clients -> Seq(Factory)]
  BY DEF InteractorInv, TypeOK
<1>1. /\ inbox[c] # <<>> /\ inbox' = Rest(c)
      /\ UNCHANGED <<svc, crashed, net, mClients, toService, started>>
  BY DEF OnStartingBroadcast, OnState, OnStats, NextIs, service
<1>2. known' = known \/ (known' = [known EXCEPT ![c] = TRUE] /\ Head(inbox[c]).what = "state")
  BY DEF OnStartingBroadcast, OnState, OnStats, NextIs
<1>3. Head(inbox[c]).what = "state" => known'[c] = TRUE
  <2>1. Head(inbox[c]).what = "state" => OnState(c)
    BY DEF OnStartingBroadcast, OnStats, NextIs
  <2>2. OnState(c) => known' = [known EXCEPT ![c] = TRUE]
    BY DEF OnState
  <2> QED
    BY <1>0, <2>1, <2>2
<1>4. /\ inbox' \in [Clients -> Seq(Messages)] /\ known' \in [Clients -> BOOLEAN]
      /\ \A d \in Clients : QueueFine(inbox'[d], known'[d], Len(factories[d]))
      /\ \A d \in mClients : Told(inbox'[d], known'[d])
  BY <1>1, <1>2, <1>3, FirstTaken
<1>5. /\ factories' \in [Clients -> Seq(Factory)]
      /\ \A d \in Clients : Len(factories[d]) \in Nat /\ Len(factories'[d]) \in Nat
                            /\ Len(factories[d]) <= Len(factories'[d])
  <2>1. BindTunnelService(c) \/ factories' = factories
    BY DEF OnStartingBroadcast, OnState, OnStats
  <2>2. CASE BindTunnelService(c)
    BY <1>0, <2>2, FactoryAdded
  <2>3. CASE factories' = factories
    <3>1. \A d \in Clients : Len(factories[d]) \in Nat
      BY <1>0
    <3> QED
      BY <1>0, <2>3, <3>1
  <2> QED
    BY <2>1, <2>2, <2>3
<1>6. relay' \in [Clients -> Nets \cup {"unknown", "stopped"}]
  <2>1. CASE OnState(c)
    <3>1. inbox[c] \in Seq(Messages) /\ inbox[c] # <<>>
      BY <1>0, <1>1
    <3>2. Head(inbox[c]) \in Messages
      BY <3>1, HeadTailProperties
    <3>3. Head(inbox[c]).what = "state"
      BY <2>1 DEF OnState, NextIs
    <3>4. Head(inbox[c]).net \in Nets
      BY <3>2, <3>3, MessageKinds
    <3>5. relay' = [relay EXCEPT ![c] = Head(inbox[c]).net]
      BY <2>1 DEF OnState
    <3> QED
      BY <1>0, <3>4, <3>5
  <2>2. CASE relay' = relay
    BY <1>0, <2>2
  <2>3. OnState(c) \/ relay' = relay
    BY DEF OnStartingBroadcast, OnStats
  <2> QED
    BY <2>1, <2>2, <2>3
<1>7. TypeOK'
  BY <1>0, <1>1, <1>4, <1>5, <1>6 DEF TypeOK
<1>8. ASSUME NEW d \in Clients PROVE QueueFine(inbox'[d], known'[d], Len(factories'[d]))
  BY <1>4, <1>5, MoreBindings
<1> QED
  BY <1>1, <1>4, <1>7, <1>8 DEF InteractorInv


(* onServiceDisconnected: of a binding that was made, so it changes in place; a
   restart that awaited it posts the start. *)
LEMMA DisconnectedInv ==
  ASSUME InteractorInv, NEW c \in Clients, OnServiceDisconnected(c)
  PROVE  InteractorInv'
<1> DEFINE m == Head(inbox[c])
           i == m.factory
           f == factories[c][i]
           g == [f EXCEPT !.conn = "completed", !.restart = FALSE]
           q == Rest(c)
           n == [d \in Clients |-> Len(factories[d])]
<1>0. /\ TypeOK /\ inbox \in [Clients -> Seq(Messages)] /\ known \in [Clients -> BOOLEAN]
      /\ relay \in [Clients -> Nets \cup {"unknown", "stopped"}]
      /\ factories \in [Clients -> Seq(Factory)] /\ mClients \subseteq Clients
  BY DEF InteractorInv, TypeOK
<1>1. /\ inbox[c] # <<>> /\ m.what = "disconnected"
      /\ UNCHANGED <<toService, started, known>>
  BY DEF OnServiceDisconnected, NextIs
<1>2. m \in Messages /\ m = inbox[c][1] /\ 1 \in 1..Len(inbox[c])
  <2>1. inbox[c] \in Seq(Messages) /\ inbox[c] # <<>>
    BY <1>0, <1>1
  <2> QED
    BY <2>1, HeadTailProperties, EmptySeq
<1>3. i \in 1..Len(factories[c])
  <2>1. QueueFine(inbox[c], known[c], Len(factories[c]))
    BY DEF InteractorInv
  <2>2. i <= Len(factories[c])
    BY <1>1, <1>2, <2>1 DEF QueueFine, RefersToBindings
  <2>3. i \in Nat \ {0}
    BY <1>1, <1>2 DEF Messages
  <2>4. Len(factories[c]) \in Nat
    BY <1>0
  <2> HIDE DEF i
  <2> QED
    BY <2>2, <2>3, <2>4
<1>4. f \in Factory
  BY <1>0, <1>3
<1>5. g \in Factory
  BY <1>4 DEF Factory
<1>6. /\ factories' = factories \/ factories' = [factories EXCEPT ![c][i] = g]
      /\ \/ /\ inbox' = q /\ UNCHANGED service
            /\ relay' = relay \/ relay' = [relay EXCEPT ![c] = "stopped"]
         \/ StartTunnelService(c, q)
         \/ StartTunnelServiceFails(c, q)
  BY DEF OnServiceDisconnected
<1> HIDE DEF f, g, i, m, q, n
<1>7. /\ factories' \in [Clients -> Seq(Factory)]
      /\ \A d \in Clients : Len(factories'[d]) = Len(factories[d])
  <2>1. CASE factories' = factories
    BY <1>0, <2>1
  <2>2. CASE factories' = [factories EXCEPT ![c][i] = g]
    <3>1. /\ [factories EXCEPT ![c][i] = g] \in [Clients -> Seq(Factory)]
          /\ \A d \in Clients : Len([factories EXCEPT ![c][i] = g][d]) = Len(factories[d])
      BY <1>0, <1>3, <1>5, FactoryChanged
    <3> QED
      BY <2>2, <3>1
  <2>3. factories' = factories \/ factories' = [factories EXCEPT ![c][i] = g]
    BY <1>6
  <2> QED
    BY <2>1, <2>2, <2>3
<1>8. /\ q \in [Clients -> Seq(Messages)]
      /\ \A d \in Clients : QueueFine(q[d], known[d], n[d])
      /\ \A d \in mClients : Told(q[d], known[d])
  <2>1. q = [inbox EXCEPT ![c] = Tail(inbox[c])]
    BY DEF q, Rest
  <2>2. Tail(inbox[c]) \in Seq(Messages)
    <3>1. inbox[c] \in Seq(Messages)
      BY <1>0
    <3> QED
      BY <1>1, <3>1, HeadTailProperties
  <2>3. q \in [Clients -> Seq(Messages)]
    BY <1>0, <2>1, <2>2
  <2>4. ASSUME NEW d \in Clients
        PROVE  /\ QueueFine(q[d], known[d], n[d])
               /\ Told(inbox[d], known[d]) => Told(q[d], known[d])
    <3>0. n[d] = Len(factories[d])
      BY DEF n
    <3>1. QueueFine(inbox[d], known[d], n[d])
      BY <3>0 DEF InteractorInv
    <3>2. CASE d = c
      <4>1. q[d] = Tail(inbox[d]) /\ inbox[d] # <<>> /\ Head(inbox[d]).what # "state"
        BY <1>0, <1>1, <2>1, <3>2 DEF m
      <4>2. known[d] = TRUE \/ Head(inbox[d]).what = "state" => known[d] = TRUE
        BY <4>1
      <4>3. /\ QueueFine(Tail(inbox[d]), known[d], n[d])
            /\ Told(inbox[d], known[d]) => Told(Tail(inbox[d]), known[d])
        BY <3>1, <4>1, <4>2, TailFine
      <4> QED
        BY <4>1, <4>3
    <3>3. CASE d # c
      <4>1. q[d] = inbox[d]
        BY <1>0, <2>1, <3>3
      <4> QED
        BY <3>1, <4>1
    <3> QED
      BY <3>2, <3>3
  <2> QED
    BY <1>0, <2>3, <2>4 DEF InteractorInv
<1>9. /\ inbox' \in [Clients -> Seq(Messages)]
      /\ relay' \in [Clients -> Nets \cup {"unknown", "stopped"}]
      /\ svc' \in {"down", "running", "commanded", "stopping"} /\ net' \in Nets
      /\ crashed' \in BOOLEAN /\ mClients' = mClients
      /\ \A d \in Clients : QueueFine(inbox'[d], known[d], n[d])
      /\ \A d \in Clients : Told(q[d], known[d]) => Told(inbox'[d], known[d])
  <2>1. CASE /\ inbox' = q /\ UNCHANGED service
             /\ relay' = relay \/ relay' = [relay EXCEPT ![c] = "stopped"]
    <3>1. UNCHANGED <<svc, crashed, net, mClients>>
      BY <2>1 DEF service
    <3>2. relay' \in [Clients -> Nets \cup {"unknown", "stopped"}]
      BY <1>0, <2>1
    <3>3. /\ svc' \in {"down", "running", "commanded", "stopping"} /\ net' \in Nets
          /\ crashed' \in BOOLEAN
      BY <1>0, <3>1 DEF TypeOK
    <3> QED
      BY <1>8, <2>1, <3>1, <3>2, <3>3
  <2>2. CASE StartTunnelService(c, q) \/ StartTunnelServiceFails(c, q)
    BY <1>0, <1>8, <2>2, StartPosted
  <2> QED
    BY <1>6, <2>1, <2>2
<1>10. TypeOK'
  BY <1>0, <1>1, <1>7, <1>9 DEF TypeOK
<1>11. ASSUME NEW d \in Clients PROVE QueueFine(inbox'[d], known'[d], Len(factories'[d]))
  <2>1. n[d] = Len(factories'[d])
    BY <1>7 DEF n
  <2> QED
    BY <1>1, <1>9, <2>1
<1>12. \A d \in mClients' : Told(inbox'[d], known'[d])
  BY <1>0, <1>1, <1>8, <1>9
<1> QED
  BY <1>10, <1>11, <1>12 DEF InteractorInv

-----------------------------------------------------------------------------
(* The service answers a registration: a state first, so that the statistics
   that follow, in this answer and later, have one. *)
LEMMA RegisterInv ==
  ASSUME InteractorInv, ServiceRegister
  PROVE  InteractorInv'
<1> DEFINE c == Head(toService).from
           st == [what |-> "state", net |-> net]
           sts == [what |-> "stats"]
           q == inbox[c]
<1>0. /\ TypeOK /\ inbox \in [Clients -> Seq(Messages)] /\ toService \in Seq(Orders)
      /\ mClients \subseteq Clients /\ net \in Nets
  BY DEF InteractorInv, TypeOK, Orders, Whats
<1>1. /\ toService # <<>> /\ inbox' = [inbox EXCEPT ![c] = q \o RegisterReply]
      /\ mClients' = mClients \cup {c} /\ toService' = Tail(toService)
      /\ UNCHANGED <<svc, crashed, net, relay, started, factories, known>>
  BY DEF ServiceRegister, NextForService
<1>2. Head(toService) \in Orders /\ toService' \in Seq(Orders)
  BY <1>0, <1>1, HeadTailProperties
<1>3. c \in Clients
  BY <1>2 DEF Orders
<1>4. /\ st \in Messages /\ sts \in Messages /\ st.what = "state" /\ sts.what = "stats"
      /\ RegisterReply = <<st, sts>>
  BY <1>0, MessageKinds DEF RegisterReply
<1> HIDE DEF c, st, sts
<1>5. QueueFine(q, known[c], Len(factories[c])) /\ q \in Seq(Messages)
  BY <1>0, <1>3 DEF InteractorInv
<1>6. q \o RegisterReply = Append(Append(q, st), sts)
  <2> HIDE DEF q
  <2>1. q \o <<st, sts>> = Append(Append(q, st), sts)
    BY <1>4, <1>5
  <2> QED
    BY <1>4, <2>1
<1>7. QueueFine(Append(q, st), known[c], Len(factories[c])) /\ Told(Append(q, st), known[c])
  BY <1>4, <1>5, AppendFine
<1>8. /\ QueueFine(Append(Append(q, st), sts), known[c], Len(factories[c]))
      /\ Told(Append(Append(q, st), sts), known[c])
  BY <1>4, <1>7, AppendFine
<1>9. inbox' \in [Clients -> Seq(Messages)]
  BY <1>0, <1>1, <1>3, <1>6, <1>8 DEF QueueFine
<1>10. TypeOK'
  BY <1>0, <1>1, <1>2, <1>3, <1>9 DEF TypeOK, Orders, Whats
<1>11. ASSUME NEW d \in Clients
       PROVE  /\ QueueFine(inbox'[d], known'[d], Len(factories'[d]))
              /\ d \in mClients' => Told(inbox'[d], known'[d])
  <2>1. CASE d = c
    <3>1. inbox'[d] = Append(Append(q, st), sts)
      BY <1>0, <1>1, <1>6, <2>1
    <3> QED
      BY <1>1, <1>8, <2>1, <3>1
  <2>2. CASE d # c
    <3>1. inbox'[d] = inbox[d] /\ (d \in mClients' => d \in mClients)
      BY <1>0, <1>1, <2>2
    <3> QED
      BY <1>1, <3>1 DEF InteractorInv
  <2> QED
    BY <2>1, <2>2
<1>12. mClients' \subseteq Clients
  BY <1>0, <1>1, <1>3
<1> QED
  BY <1>10, <1>11, <1>12 DEF InteractorInv

(* The other messages to the service, and the steps that post nothing. *)
LEMMA ServiceQuiet ==
  ASSUME InteractorInv,
         ServiceUnregister \/ ServiceStop \/ ServiceToldToStop \/ SystemRestartsService
  PROVE  InteractorInv'
<1>0. /\ TypeOK /\ toService \in Seq(Orders) /\ factories \in [Clients -> Seq(Factory)]
  BY DEF InteractorInv, TypeOK, Orders, Whats
<1>1. /\ toService' = toService \/ (toService # <<>> /\ toService' = Tail(toService))
      /\ mClients' \subseteq mClients
      /\ UNCHANGED <<net, inbox, relay, started, factories, known>>
  BY DEF ServiceUnregister, ServiceStop, ServiceToldToStop, SystemRestartsService, NextForService
<1>2. toService' \in Seq(Orders)
  BY <1>0, <1>1, HeadTailProperties
<1>3. svc' \in {"down", "running", "commanded", "stopping"}
  BY <1>0 DEF TypeOK, ServiceUnregister, ServiceStop, ServiceToldToStop, SystemRestartsService
<1>4. crashed' \in BOOLEAN
  BY <1>0, ZenonT(20)
  DEF TypeOK, ServiceUnregister, ServiceStop, ServiceToldToStop, SystemRestartsService
<1>5. TypeOK'
  BY <1>0, <1>1, <1>2, <1>3, <1>4 DEF TypeOK, Orders, Whats
<1>6. \A d \in Clients : Len(factories[d]) <= Len(factories'[d])
  <2>1. \A d \in Clients : Len(factories[d]) \in Nat
    BY <1>0
  <2> QED
    BY <1>1, <2>1
<1> QED
  BY <1>1, <1>5, <1>6, QueuesUntouched

(* sendClientMessage, of a state or of statistics. *)
LEMMA SentToClients ==
  ASSUME InteractorInv, ServiceReports \/ ServiceSendsStats
  PROVE  InteractorInv'
<1>0. /\ TypeOK /\ inbox \in [Clients -> Seq(Messages)] /\ mClients \subseteq Clients
  BY DEF InteractorInv, TypeOK
<1>1. net' \in Nets /\ UNCHANGED <<svc, crashed, mClients, toService, relay, started, factories, known>>
  BY <1>0 DEF TypeOK, ServiceReports, ServiceSendsStats, service
<1>2. PICK m \in Messages : m.what \in {"state", "stats"} /\ SendToClients(m)
  <2>1. CASE ServiceReports
    <3> DEFINE m == [what |-> "state", net |-> net']
    <3>1. m \in Messages /\ m.what = "state" /\ SendToClients(m)
      BY <1>1, <2>1, MessageKinds DEF ServiceReports
    <3> QED
      BY <3>1
  <2>2. CASE ServiceSendsStats
    <3> DEFINE m == [what |-> "stats"]
    <3>1. m \in Messages /\ m.what = "stats" /\ SendToClients(m)
      BY <2>2, MessageKinds DEF ServiceSendsStats
    <3> QED
      BY <3>1
  <2> QED
    BY <2>1, <2>2
<1>3. inbox' = [c \in Clients |-> IF c \in mClients THEN Append(inbox[c], m) ELSE inbox[c]]
  BY <1>2 DEF SendToClients
<1>4. inbox' \in [Clients -> Seq(Messages)]
  BY <1>0, <1>2, <1>3
<1>5. TypeOK'
  BY <1>0, <1>1, <1>4 DEF TypeOK
<1>6. ASSUME NEW d \in Clients
      PROVE  /\ QueueFine(inbox'[d], known'[d], Len(factories'[d]))
             /\ d \in mClients' => Told(inbox'[d], known'[d])
  <2>1. QueueFine(inbox[d], known[d], Len(factories[d]))
    BY DEF InteractorInv
  <2>2. CASE d \in mClients
    <3>1. inbox'[d] = Append(inbox[d], m) /\ Told(inbox[d], known[d])
      BY <1>3, <2>2 DEF InteractorInv
    <3>2. m.what # "disconnected"
      BY <1>2
    <3>3. /\ QueueFine(Append(inbox[d], m), known[d], Len(factories[d]))
          /\ Told(Append(inbox[d], m), known[d])
      BY <2>1, <3>1, <3>2, AppendFine
    <3> QED
      BY <1>1, <3>1, <3>3
  <2>3. CASE d \notin mClients
    <3>1. inbox'[d] = inbox[d]
      BY <1>3, <2>3
    <3> QED
      BY <1>1, <2>1, <2>3, <3>1
  <2> QED
    BY <2>2, <2>3
<1>7. mClients' \subseteq Clients
  BY <1>0, <1>1
<1> QED
  BY <1>5, <1>6, <1>7 DEF InteractorInv


(* An order of the bindings that hear of the end names bindings that were
   made. *)
LEMMA OrderOfBindings ==
  ASSUME TypeOK, NEW c \in Clients, NEW s \in SeqExt!SetToSeqs(Hears(c))
  PROVE  s \in Seq(1..Len(factories[c]))
<1> DEFINE n == Len(factories[c])
           H == Hears(c)
           m == Cardinality(H)
<1>1. factories[c] \in Seq(Factory)
  BY DEF TypeOK
<1>2. n \in Nat /\ H \subseteq 1..n
  BY <1>1 DEF Hears
<1>3. IsFiniteSet(1..n)
  BY <1>2, FS_Interval
<1>4. IsFiniteSet(H)
  BY <1>2, <1>3, FS_Subset
<1>5. m \in Nat
  BY <1>4, FS_CardinalityType
<1>6. SeqExt!Cardinality(H) = m
  BY DEF SeqExt!Cardinality, Cardinality
<1> HIDE DEF H, m, n
<1>7. s \in [1..SeqExt!Cardinality(H) -> H]
  BY DEF SeqExt!SetToSeqs, H
<1>8. s \in [1..m -> H]
  BY <1>6, <1>7
<1> DEFINE Made == 1..n
<1>9. H \subseteq Made
  BY <1>2
<1> HIDE DEF Made
<1>10. s \in [1..m -> Made]
  BY <1>8, <1>9
<1>11. s \in Seq(Made)
  BY <1>5, <1>10
<1> QED
  BY <1>11 DEF n, Made

(* The service is gone. *)
LEMMA EndsInv ==
  ASSUME InteractorInv, NEW killed \in BOOLEAN, ServiceEnds(killed)
  PROVE  InteractorInv'
<1>0. /\ TypeOK /\ inbox \in [Clients -> Seq(Messages)] /\ factories \in [Clients -> Seq(Factory)]
  BY DEF InteractorInv, TypeOK
<1>1. /\ svc' = "down" /\ net' = "connecting" /\ mClients' = {} /\ toService' = <<>>
      /\ factories' = [c \in Clients |-> [i \in 1..Last(c) |->
           [factories[c][i] EXCEPT !.messenger = IF @ = "live" THEN "dead" ELSE @]]]
      /\ UNCHANGED <<relay, started, known>>
  BY DEF ServiceEnds
<1>2. crashed' \in BOOLEAN
  BY ZenonT(20) DEF ServiceEnds
<1>3. PICK order \in [Clients -> UNION {SeqExt!SetToSeqs(Hears(c)) : c \in Clients}] :
        /\ \A c \in Clients : order[c] \in SeqExt!SetToSeqs(Hears(c))
        /\ inbox' = [c \in Clients |-> inbox[c] \o Disconnections(order[c])]
  BY DEF ServiceEnds
<1>4. ASSUME NEW c \in Clients
      PROVE  factories'[c] \in Seq(Factory) /\ Len(factories'[c]) = Len(factories[c])
             /\ Len(factories[c]) \in Nat
  <2> DEFINE n == Len(factories[c])
             h(i) == [factories[c][i] EXCEPT !.messenger = IF @ = "live" THEN "dead" ELSE @]
             t == [i \in 1..n |-> h(i)]
  <2>1. factories[c] \in Seq(Factory)
    BY <1>0
  <2>2. n \in Nat /\ \A i \in 1..n : factories[c][i] \in Factory
    BY <2>1
  <2>3. factories'[c] = t
    BY <1>1 DEF Last
  <2>4. ASSUME NEW i \in 1..n PROVE h(i) \in Factory
    <3>1. factories[c][i] \in Factory
      BY <2>2
    <3> QED
      BY <3>1 DEF Factory
  <2> HIDE DEF h
  <2>5. t \in [1..n -> Factory]
    BY <2>4
  <2> HIDE DEF t, n
  <2>6. t \in Seq(Factory) /\ Len(t) = n
    BY <2>2, <2>5
  <2> QED
    BY <2>2, <2>3, <2>6 DEF n
<1>5. factories' \in [Clients -> Seq(Factory)]
  <2>1. DOMAIN factories' = Clients /\ factories' = [c \in Clients |-> factories'[c]]
    BY <1>1
  <2> QED
    BY <1>4, <2>1
<1>6. ASSUME NEW c \in Clients PROVE QueueFine(inbox'[c], known'[c], Len(factories'[c]))
  <2>1. QueueFine(inbox[c], known[c], Len(factories[c]))
    BY DEF InteractorInv
  <2>2. order[c] \in Seq(1..Len(factories[c]))
    BY <1>0, <1>3, OrderOfBindings
  <2>3. QueueFine(inbox[c] \o Disconnections(order[c]), known[c], Len(factories[c]))
    BY <1>4, <2>1, <2>2, DisconnectionsFine
  <2> QED
    BY <1>1, <1>3, <1>4, <2>3
<1>7. inbox' \in [Clients -> Seq(Messages)]
  <2>1. inbox' = [c \in Clients |-> inbox'[c]]
    BY <1>3
  <2>2. \A c \in Clients : inbox'[c] \in Seq(Messages)
    BY <1>6 DEF QueueFine
  <2> QED
    BY <2>1, <2>2
<1>8. toService' \in Seq([from : Clients, what : {"register", "unregister", "stop"}])
  BY <1>1, EmptySeq
<1>9. TypeOK'
  BY <1>0, <1>1, <1>2, <1>5, <1>7, <1>8 DEF TypeOK, Nets
<1> QED
  BY <1>1, <1>6, <1>9 DEF InteractorInv

-----------------------------------------------------------------------------
(* Every step keeps the invariant. *)
LEMMA InteractorStep ==
  ASSUME InteractorInv, [Next]_vars
  PROVE  InteractorInv'
<1>1. ASSUME NEW c \in Clients,
             OnStart(c) \/ OnStop(c) \/ UserStops(c) \/ ScheduleVpnServiceRestart(c)
      PROVE  InteractorInv'
  BY <1>1, ClientCalls
<1>2. ASSUME NEW c \in Clients, UserStarts(c) PROVE InteractorInv'
  BY <1>2, UserStartsInv
<1>3. ASSUME NEW c \in Clients, Looper(c) PROVE InteractorInv'
  BY <1>3, MessagesHandled, DisconnectedInv DEF Looper
<1>4. ASSUME NEW c \in Clients, Connects(c) PROVE InteractorInv'
  BY <1>4, ConnectsInv DEF Connects
<1>5. CASE ServiceHandler
  BY <1>5, RegisterInv, ServiceQuiet DEF ServiceHandler
<1>6. CASE ServiceReports \/ ServiceSendsStats
  BY <1>6, SentToClients
<1>7. CASE ServiceToldToStop \/ SystemRestartsService
  BY <1>7, ServiceQuiet
<1>8. ASSUME NEW killed \in BOOLEAN, ServiceEnds(killed) PROVE InteractorInv'
  BY <1>8, EndsInv
<1>9. CASE UNCHANGED vars
  <2>1. UNCHANGED <<svc, crashed, net, mClients, toService, inbox, relay, started, factories, known>>
    BY <1>9 DEF vars
  <2> QED
    BY <2>1 DEF InteractorInv, TypeOK
<1>10. CASE Next
  BY <1>1, <1>2, <1>3, <1>4, <1>5, <1>6, <1>7, <1>8, <1>10 DEF Next
<1> QED
  BY <1>9, <1>10

(* However bindings, stops, restarts, crashes and redeliveries interleave, for
   any number of interactors: IncomingMessageHandler has a state when a
   DATA_TRANSFER_STATS message is handled, and onServiceDisconnected is of a
   binding that bindTunnelService made. *)
THEOREM InteractorIsSafe == Spec => []InteractorSafe
<1>1. Init => InteractorInv
  BY InteractorInitInv
<1>2. InteractorInv /\ [Next]_vars => InteractorInv'
  BY InteractorStep
<1>3. InteractorInv => InteractorSafe
  <2> SUFFICES ASSUME InteractorInv PROVE InteractorSafe
    OBVIOUS
  <2>1. ASSUME NEW c \in Clients, inbox[c] # <<>>
        PROVE  /\ Head(inbox[c]) = inbox[c][1] /\ 1 \in 1..Len(inbox[c])
               /\ QueueFine(inbox[c], known[c], Len(factories[c]))
    <3>1. inbox[c] \in Seq(Messages)
      BY DEF InteractorInv, TypeOK
    <3> QED
      BY <2>1, <3>1, EmptySeq DEF InteractorInv
  <2>2. ASSUME NEW c \in Clients, NextIs(c, "stats") PROVE known[c]
    <3>1. inbox[c][1].what = "stats" /\ 1 \in 1..Len(inbox[c])
          /\ StatsBehindState(inbox[c], known[c])
      BY <2>1, <2>2 DEF NextIs, QueueFine
    <3>2. known[c] = TRUE \/ \E j \in 1..Len(inbox[c]) : j < 1
      BY <3>1 DEF StatsBehindState
    <3>3. known[c] = TRUE
      BY <3>2
    <3> QED
      BY <3>3
  <2>3. ASSUME NEW c \in Clients, NextIs(c, "disconnected")
        PROVE  Head(inbox[c]).factory <= Last(c)
    BY <2>1, <2>3 DEF NextIs, QueueFine, RefersToBindings, Last
  <2> QED
    BY <2>2, <2>3 DEF InteractorInv, InteractorSafe, StatsFollowState, DisconnectedWasBound
<1> QED
  BY <1>1, <1>2, <1>3, PTL DEF Spec


-----------------------------------------------------------------------------
(* The order of the messages to the service.  c is registered when the first
   k - 1 messages of q have been handled by a service whose clients are M: it was,
   or a REGISTER of it is among them, and no UNREGISTER of it came since. *)
Registered(q, M, c, k) ==
  \E j \in 0..(k - 1) :
    /\ IF j = 0 THEN c \in M ELSE q[j] = [from |-> c, what |-> "register"]
    /\ \A l \in (j + 1)..(k - 1) : q[l] # [from |-> c, what |-> "unregister"]

StopsMeetClients(q, M) ==
  \A k \in 1..Len(q) : q[k].what = "stop" => Registered(q, M, q[k].from, k)

(* A binding without a messenger has its REGISTER waiting before anything else,
   and no UNREGISTER: onStop does not come before the messenger. *)
InOrder(w) == Len(w) > 0 /\ w[1] = "register" /\ \A i \in 1..Len(w) : w[i] # "unregister"
FactoryFine(f) == f.messenger = "none" => f.conn # "unbound" /\ InOrder(f.waiting)
FactoriesFine(F) == \A c \in Clients : \A i \in 1..Len(F[c]) : FactoryFine(F[c][i])

NoneLive(F) == \A c \in Clients : \A i \in 1..Len(F[c]) : F[c][i].messenger # "live"
CurrentLive(F, c) == Len(F[c]) > 0 /\ F[c][Len(F[c])].messenger = "live"

(* Nothing is on its way to a service that is not there; a running one knows the
   sender of every stop by the time it gets to it, and every interactor that
   could send one now. *)
DownIsSilent == svc = "down" => toService = <<>> /\ NoneLive(factories)
RunningKnows ==
  svc = "running" =>
    /\ StopsMeetClients(toService, mClients)
    /\ \A c \in Clients : started[c] = TRUE /\ CurrentLive(factories, c)
                            => Registered(toService, mClients, c, Len(toService) + 1)

OrderInv == FactoriesFine(factories) /\ DownIsSilent /\ RunningKnows

(* What is appended changes nothing for the messages before it. *)
LEMMA RegisteredBefore ==
  ASSUME NEW q \in Seq(Orders), NEW r \in Seq(Orders), NEW M, NEW c, NEW k \in 1..(Len(q) + 1),
         Len(q) <= Len(r), \A i \in 1..Len(q) : r[i] = q[i], Registered(q, M, c, k)
  PROVE  Registered(r, M, c, k)
<1>1. PICK j \in 0..(k - 1) :
        /\ IF j = 0 THEN c \in M ELSE q[j] = [from |-> c, what |-> "register"]
        /\ \A l \in (j + 1)..(k - 1) : q[l] # [from |-> c, what |-> "unregister"]
  BY DEF Registered
<1>2. Len(q) \in Nat /\ \A l \in 1..(k - 1) : r[l] = q[l]
  OBVIOUS
<1>3. IF j = 0 THEN c \in M ELSE r[j] = [from |-> c, what |-> "register"]
  BY <1>1, <1>2
<1>4. \A l \in (j + 1)..(k - 1) : r[l] # [from |-> c, what |-> "unregister"]
  BY <1>1, <1>2
<1> QED
  BY <1>3, <1>4 DEF Registered

(* A client stays registered while nothing of it but registrations and stops
   comes. *)
LEMMA RegisteredOn ==
  ASSUME NEW q \in Seq(Orders), NEW M, NEW c, NEW k \in 1..(Len(q) + 1), NEW h \in 1..k,
         Registered(q, M, c, h),
         \A l \in h..(k - 1) : q[l] # [from |-> c, what |-> "unregister"]
  PROVE  Registered(q, M, c, k)
<1>1. PICK j \in 0..(h - 1) :
        /\ IF j = 0 THEN c \in M ELSE q[j] = [from |-> c, what |-> "register"]
        /\ \A l \in (j + 1)..(h - 1) : q[l] # [from |-> c, what |-> "unregister"]
  BY DEF Registered
<1>2. j \in 0..(k - 1)
  OBVIOUS
<1>3. ASSUME NEW l \in (j + 1)..(k - 1) PROVE q[l] # [from |-> c, what |-> "unregister"]
  <2>1. l \in (j + 1)..(h - 1) \/ l \in h..(k - 1)
    OBVIOUS
  <2> QED
    BY <1>1, <2>1
<1> QED
  BY <1>1, <1>2, <1>3 DEF Registered

(* A registration is one. *)
LEMMA RegisteredBy ==
  ASSUME NEW q \in Seq(Orders), NEW M, NEW c, NEW h \in 1..Len(q),
         q[h] = [from |-> c, what |-> "register"]
  PROVE  Registered(q, M, c, h + 1)
BY DEF Registered

(* The service handles its first message. *)
LEMMA RegisteredHandled ==
  ASSUME NEW q \in Seq(Orders), q # <<>>, NEW M, NEW N, NEW c, NEW k \in 1..Len(q),
         Registered(q, M, c, k + 1),
         Head(q) = [from |-> c, what |-> "register"] => c \in N,
         Head(q) # [from |-> c, what |-> "unregister"] /\ c \in M => c \in N
  PROVE  Registered(Tail(q), N, c, k)
<1> DEFINE r == Tail(q)
<1>1. Len(q) \in Nat /\ Len(q) > 0 /\ Head(q) = q[1] /\ Len(r) = Len(q) - 1
      /\ \A i \in 1..(Len(q) - 1) : r[i] = q[i + 1]
  BY HeadTailProperties
<1> HIDE DEF r
<1>2. PICK j \in 0..k :
        /\ IF j = 0 THEN c \in M ELSE q[j] = [from |-> c, what |-> "register"]
        /\ \A l \in (j + 1)..k : q[l] # [from |-> c, what |-> "unregister"]
  <2>1. (k + 1) - 1 = k
    OBVIOUS
  <2> QED
    BY <2>1 DEF Registered
<1>3. CASE j > 1
  <2>1. j - 1 \in 0..(k - 1) /\ j - 1 # 0 /\ j - 1 \in 1..(Len(q) - 1) /\ (j - 1) + 1 = j
    BY <1>1, <1>3
  <2>2. r[j - 1] = [from |-> c, what |-> "register"]
    BY <1>1, <1>2, <1>3, <2>1
  <2>3. ASSUME NEW l \in ((j - 1) + 1)..(k - 1) PROVE r[l] # [from |-> c, what |-> "unregister"]
    <3>1. l \in 1..(Len(q) - 1) /\ l + 1 \in (j + 1)..k
      BY <1>1, <1>3
    <3> QED
      BY <1>1, <1>2, <3>1
  <2> QED
    BY <2>1, <2>2, <2>3 DEF Registered, r
<1>4. CASE j \in {0, 1}
  <2>1. c \in N
    <3>1. CASE j = 0
      <4>1. 1 \in (j + 1)..k
        BY <3>1
      <4> QED
        BY <1>1, <1>2, <3>1, <4>1
    <3>2. CASE j = 1
      BY <1>1, <1>2, <3>2
    <3> QED
      BY <1>4, <3>1, <3>2
  <2>2. ASSUME NEW l \in 1..(k - 1) PROVE r[l] # [from |-> c, what |-> "unregister"]
    <3>1. l \in 1..(Len(q) - 1) /\ l + 1 \in (j + 1)..k
      BY <1>1, <1>4
    <3> QED
      BY <1>1, <1>2, <3>1
  <2>3. 0 \in 0..(k - 1)
    OBVIOUS
  <2> QED
    BY <2>1, <2>2, <2>3 DEF Registered, r
<1> QED
  BY <1>2, <1>3, <1>4

(* One message more: the stops before it are as they were, and a stop is met if its
   sender is registered at the end. *)
LEMMA MessageMore ==
  ASSUME NEW q \in Seq(Orders), NEW M, NEW m \in Orders, StopsMeetClients(q, M),
         m.what = "stop" => Registered(q, M, m.from, Len(q) + 1)
  PROVE  /\ StopsMeetClients(Append(q, m), M)
         /\ \A c : Registered(q, M, c, Len(q) + 1) /\ m # [from |-> c, what |-> "unregister"]
                     => Registered(Append(q, m), M, c, Len(Append(q, m)) + 1)
<1> DEFINE r == Append(q, m)
<1>1. /\ r \in Seq(Orders) /\ Len(q) \in Nat /\ Len(r) = Len(q) + 1
      /\ \A i \in 1..Len(q) : r[i] = q[i]
      /\ r[Len(q) + 1] = m
  OBVIOUS
<1> HIDE DEF r
<1>2. ASSUME NEW c, NEW k \in 1..(Len(q) + 1), Registered(q, M, c, k)
      PROVE  Registered(r, M, c, k)
  <2>1. Len(q) <= Len(r)
    BY <1>1
  <2> QED
    BY <1>1, <1>2, <2>1, RegisteredBefore
<1>3. ASSUME NEW k \in 1..Len(r), r[k].what = "stop" PROVE Registered(r, M, r[k].from, k)
  <2>1. CASE k \in 1..Len(q)
    <3>1. q[k].what = "stop" /\ r[k].from = q[k].from
      BY <1>1, <1>3, <2>1
    <3>2. Registered(q, M, q[k].from, k) /\ k \in 1..(Len(q) + 1)
      BY <1>1, <2>1, <3>1 DEF StopsMeetClients
    <3>3. Registered(r, M, q[k].from, k)
      BY <1>2, <3>2
    <3> QED
      BY <3>1, <3>3
  <2>2. CASE k = Len(q) + 1
    <3>1. r[k] = m
      BY <1>1, <2>2
    <3>2. Registered(q, M, m.from, k) /\ k \in 1..(Len(q) + 1)
      BY <1>1, <1>3, <2>2, <3>1
    <3>3. Registered(r, M, m.from, k)
      BY <1>2, <3>2
    <3> QED
      BY <3>1, <3>3
  <2>3. k \in 1..Len(q) \/ k = Len(q) + 1
    BY <1>1
  <2> QED
    BY <2>1, <2>2, <2>3
<1>4. ASSUME NEW c, Registered(q, M, c, Len(q) + 1), m # [from |-> c, what |-> "unregister"]
      PROVE  Registered(r, M, c, Len(r) + 1)
  <2>1. Len(q) + 1 \in 1..(Len(q) + 1)
    BY <1>1
  <2>2. Registered(r, M, c, Len(q) + 1)
    BY <1>2, <1>4, <2>1
  <2>3. /\ Len(r) + 1 \in 1..(Len(r) + 1) /\ Len(q) + 1 \in 1..(Len(r) + 1)
        /\ \A l \in (Len(q) + 1)..((Len(r) + 1) - 1) : l = Len(q) + 1
    BY <1>1
  <2>4. \A l \in (Len(q) + 1)..((Len(r) + 1) - 1) : r[l] # [from |-> c, what |-> "unregister"]
    BY <1>1, <1>4, <2>3
  <2> HIDE DEF r
  <2> QED
    BY <1>1, <2>2, <2>3, <2>4, RegisteredOn
<1> QED
  BY <1>3, <1>4 DEF StopsMeetClients, r

(* What waited in a binding goes out: the registration first, so that the stops
   behind it are met, and c is registered at the end. *)
SentBehind(r, q, c, w) ==
  /\ Len(r) = Len(q) + Len(w)
  /\ \A i \in 1..Len(q) : r[i] = q[i]
  /\ \A i \in 1..Len(w) : r[Len(q) + i] = [from |-> c, what |-> w[i]]

LEMMA WaitingSent ==
  ASSUME NEW q \in Seq(Orders), NEW M, NEW c \in Clients, NEW w \in Seq(Whats), InOrder(w),
         NEW r \in Seq(Orders), SentBehind(r, q, c, w), StopsMeetClients(q, M)
  PROVE  /\ StopsMeetClients(r, M)
         /\ Registered(r, M, c, Len(r) + 1)
         /\ \A d : d # c /\ Registered(q, M, d, Len(q) + 1) => Registered(r, M, d, Len(r) + 1)
<1> USE DEF SentBehind
<1>1. /\ Len(q) \in Nat /\ Len(w) \in Nat /\ Len(w) > 0 /\ Len(q) <= Len(r)
      /\ r[Len(q) + 1] = [from |-> c, what |-> "register"] /\ Len(q) + 1 \in 1..Len(r)
  <2>1. Len(q) \in Nat /\ Len(w) \in Nat
    OBVIOUS
  <2>2. Len(w) > 0 /\ w[1] = "register"
    BY DEF InOrder
  <2> QED
    BY <2>1, <2>2
<1>2. ASSUME NEW k \in 1..Len(r), k > Len(q)
      PROVE  /\ k - Len(q) \in 1..Len(w)
             /\ r[k] = [from |-> c, what |-> w[k - Len(q)]]
             /\ w[k - Len(q)] # "unregister"
  <2>1. k - Len(q) \in 1..Len(w) /\ Len(q) + (k - Len(q)) = k
    BY <1>1, <1>2
  <2> QED
    BY <2>1 DEF InOrder
<1>3. ASSUME NEW k \in (Len(q) + 2)..(Len(r) + 1) PROVE Registered(r, M, c, k)
  <2>1. Registered(r, M, c, (Len(q) + 1) + 1)
    BY <1>1, RegisteredBy
  <2>2. (Len(q) + 1) + 1 = Len(q) + 2 /\ Len(q) + 2 \in 1..k /\ k \in 1..(Len(r) + 1)
    BY <1>1
  <2>3. ASSUME NEW l \in (Len(q) + 2)..(k - 1) PROVE r[l] # [from |-> c, what |-> "unregister"]
    <3>1. l \in 1..Len(r) /\ l > Len(q)
      BY <1>1
    <3>2. r[l].what # "unregister"
      BY <1>2, <3>1
    <3> QED
      BY <3>2
  <2> QED
    BY <2>1, <2>2, <2>3, RegisteredOn
<1>4. ASSUME NEW k \in 1..Len(r), r[k].what = "stop" PROVE Registered(r, M, r[k].from, k)
  <2>1. CASE k \in 1..Len(q)
    <3>1. r[k] = q[k] /\ k \in 1..(Len(q) + 1)
      BY <1>1, <2>1
    <3>2. Registered(q, M, q[k].from, k)
      BY <1>4, <2>1, <3>1 DEF StopsMeetClients
    <3>3. Registered(r, M, q[k].from, k)
      BY <1>1, <3>1, <3>2, RegisteredBefore
    <3> QED
      BY <3>1, <3>3
  <2>2. CASE k > Len(q)
    <3>1. r[k] = [from |-> c, what |-> w[k - Len(q)]]
      BY <1>2, <2>2
    <3>2. r[k].from = c
      BY <3>1
    <3>3. k # Len(q) + 1
      BY <1>1, <1>4
    <3>4. k \in (Len(q) + 2)..(Len(r) + 1)
      BY <1>1, <2>2, <3>3
    <3> QED
      BY <1>3, <3>2, <3>4
  <2>3. k \in 1..Len(q) \/ k > Len(q)
    BY <1>1
  <2> QED
    BY <2>1, <2>2, <2>3
<1>5. Registered(r, M, c, Len(r) + 1)
  <2>1. Len(r) + 1 \in (Len(q) + 2)..(Len(r) + 1)
    BY <1>1
  <2> QED
    BY <1>3, <2>1
<1>6. ASSUME NEW d, d # c, Registered(q, M, d, Len(q) + 1)
      PROVE  Registered(r, M, d, Len(r) + 1)
  <2>1. Len(q) + 1 \in 1..(Len(q) + 1) /\ Len(q) + 1 \in 1..(Len(r) + 1)
        /\ Len(r) + 1 \in 1..(Len(r) + 1)
    BY <1>1
  <2>2. Registered(r, M, d, Len(q) + 1)
    BY <1>1, <1>6, <2>1, RegisteredBefore
  <2>3. ASSUME NEW l \in (Len(q) + 1)..((Len(r) + 1) - 1)
        PROVE  r[l] # [from |-> d, what |-> "unregister"]
    <3>1. l \in 1..Len(r) /\ l > Len(q)
      BY <1>1
    <3>2. r[l] = [from |-> c, what |-> w[l - Len(q)]]
      BY <1>2, <3>1
    <3>3. r[l].from = c
      BY <3>2
    <3> QED
      BY <1>6, <3>3
  <2> QED
    BY <2>1, <2>2, <2>3, RegisteredOn
<1> QED
  BY <1>4, <1>5, <1>6 DEF StopsMeetClients

(* The parts of the state that OrderInv is about, for a binding that changes in
   place ... *)
LEMMA FactoryOrder ==
  ASSUME TypeOK, NEW c \in Clients, NEW i \in 1..Len(factories[c]), NEW g \in Factory,
         FactoriesFine(factories), FactoryFine(g)
  PROVE  LET F == [factories EXCEPT ![c][i] = g]
         IN  /\ FactoriesFine(F)
             /\ NoneLive(factories) /\ g.messenger # "live" => NoneLive(F)
             /\ \A d \in Clients : CurrentLive(F, d) /\ (d = c => g.messenger # "live")
                                     => CurrentLive(factories, d)
             /\ g.messenger = factories[c][i].messenger =>
                  \A d \in Clients : CurrentLive(F, d) => CurrentLive(factories, d)
<1> DEFINE F == [factories EXCEPT ![c][i] = g]
<1>1. factories \in [Clients -> Seq(Factory)]
  BY DEF TypeOK
<1>2. \A d \in Clients : Len(F[d]) = Len(factories[d]) /\ Len(factories[d]) \in Nat
  BY <1>1, FactoryChanged
<1>3. \A d \in Clients : \A k \in 1..Len(factories[d]) :
        F[d][k] = IF d = c /\ k = i THEN g ELSE factories[d][k]
  BY <1>1
<1> HIDE DEF F
<1>4. FactoriesFine(F)
  BY <1>2, <1>3 DEF FactoriesFine
<1>5. NoneLive(factories) /\ g.messenger # "live" => NoneLive(F)
  BY <1>2, <1>3 DEF NoneLive
<1>6. ASSUME NEW d \in Clients, CurrentLive(F, d)
      PROVE  /\ (d = c /\ g.messenger # "live") \/ d # c => CurrentLive(factories, d)
             /\ g.messenger = factories[c][i].messenger => CurrentLive(factories, d)
  <2>1. Len(factories[d]) > 0 /\ F[d][Len(factories[d])].messenger = "live"
        /\ Len(factories[d]) \in 1..Len(factories[d])
    BY <1>2, <1>6 DEF CurrentLive
  <2>2. F[d][Len(factories[d])] = IF d = c /\ Len(factories[d]) = i THEN g
                                  ELSE factories[d][Len(factories[d])]
    BY <1>3, <2>1
  <2> QED
    BY <2>1, <2>2 DEF CurrentLive
<1> QED
  BY <1>4, <1>5, <1>6 DEF F

(* ... and for a new one, which has no messenger. *)
LEMMA BindOrder ==
  ASSUME TypeOK, NEW c \in Clients, BindTunnelService(c), FactoriesFine(factories)
  PROVE  /\ FactoriesFine(factories')
         /\ NoneLive(factories) => NoneLive(factories')
         /\ ~CurrentLive(factories', c)
         /\ \A d \in Clients : CurrentLive(factories', d) => CurrentLive(factories, d)
<1> DEFINE g == [conn |-> "bound", messenger |-> "none", waiting |-> <<"register">>,
                 restart |-> FALSE]
<1>1. factories \in [Clients -> Seq(Factory)]
  BY DEF TypeOK
<1>2. <<"register">> \in Seq(Whats)
  BY DEF Whats
<1>3. g \in Factory /\ FactoryFine(g) /\ g.messenger = "none"
  <2>1. InOrder(<<"register">>)
    BY DEF InOrder
  <2> QED
    BY <1>2, <2>1 DEF Factory, Whats, FactoryFine
<1>4. factories' = [factories EXCEPT ![c] = Append(factories[c], g)]
  BY DEF BindTunnelService
<1> HIDE DEF g
<1>5. /\ Len(Append(factories[c], g)) = Len(factories[c]) + 1
      /\ \A k \in 1..Len(factories[c]) : Append(factories[c], g)[k] = factories[c][k]
      /\ Append(factories[c], g)[Len(factories[c]) + 1] = g
  BY <1>1, <1>3
<1>6. /\ factories'[c] = Append(factories[c], g)
      /\ \A d \in Clients : d # c => factories'[d] = factories[d]
      /\ \A d \in Clients : Len(factories[d]) \in Nat
  BY <1>1, <1>4
<1> DEFINE n == Len(factories[c])
<1>7. /\ Len(factories'[c]) = n + 1 /\ n \in Nat
      /\ \A k \in 1..n : factories'[c][k] = factories[c][k]
      /\ factories'[c][n + 1] = g
  BY <1>5, <1>6
<1> HIDE DEF n
<1>8. ASSUME NEW d \in Clients, NEW k \in 1..Len(factories'[d])
      PROVE  factories'[d][k] = g \/ (k \in 1..Len(factories[d]) /\ factories'[d][k] = factories[d][k])
  <2>1. CASE d = c
    <3>1. k \in 1..n \/ k = n + 1
      BY <1>7, <2>1
    <3> QED
      BY <1>7, <2>1, <3>1 DEF n
  <2>2. CASE d # c
    BY <1>6, <2>2
  <2> QED
    BY <2>1, <2>2
<1>9. FactoriesFine(factories')
  BY <1>3, <1>8 DEF FactoriesFine
<1>10. NoneLive(factories) => NoneLive(factories')
  BY <1>3, <1>8 DEF NoneLive
<1>11. ~CurrentLive(factories', c)
  BY <1>3, <1>7 DEF CurrentLive
<1>12. \A d \in Clients : d # c /\ CurrentLive(factories', d) => CurrentLive(factories, d)
  BY <1>6 DEF CurrentLive
<1> QED
  BY <1>9, <1>10, <1>11, <1>12, Zenon

(* A step that sends and handles no message to the service, and after which the same
   interactors, or fewer, could send a stop. *)
LEMMA NothingSent ==
  ASSUME OrderInv, FactoriesFine(factories'), UNCHANGED <<toService, mClients>>,
         svc' = svc \/ svc = "down" \/ svc' \notin {"down", "running"},
         NoneLive(factories) => NoneLive(factories'),
         \A d \in Clients : started'[d] = TRUE /\ CurrentLive(factories', d)
                              => CurrentLive(factories, d) /\ (svc # "down" => started[d] = TRUE)
  PROVE  OrderInv'
<1>1. svc' = "down" => svc = "down"
  OBVIOUS
<1>2. DownIsSilent'
  BY <1>1 DEF OrderInv, DownIsSilent
<1>3. RunningKnows'
  <2> SUFFICES ASSUME svc' = "running" PROVE RunningKnows'
    BY DEF RunningKnows
  <2>1. CASE svc = "running"
    BY <2>1 DEF OrderInv, RunningKnows
  <2>2. CASE svc = "down"
    <3>1. toService' = <<>> /\ NoneLive(factories')
      BY <2>2 DEF OrderInv, DownIsSilent
    <3>2. StopsMeetClients(toService', mClients')
      BY <3>1 DEF StopsMeetClients
    <3>3. ASSUME NEW d \in Clients, CurrentLive(factories', d) PROVE FALSE
      <4>1. factories'[d][Len(factories'[d])].messenger = "live" /\ Len(factories'[d]) > 0
        BY <3>3 DEF CurrentLive
      <4> QED
        BY <3>1, <4>1 DEF NoneLive
    <3> QED
      BY <3>2, <3>3 DEF RunningKnows
  <2> QED
    BY <2>1, <2>2
<1> QED
  BY <1>2, <1>3 DEF OrderInv

(* sendServiceMessageCompletable: a stop of an interactor that is started, or the
   UNREGISTER of one that is started no more. *)
LEMMA SendOrder ==
  ASSUME TypeOK, OrderInv, NEW c \in Clients, NEW what \in {"unregister", "stop"}, NEW f,
         SendServiceMessage(c, what, f), UNCHANGED <<svc, mClients>>,
         HasFactory(c) => f \in Factory /\ f.messenger = Current(c).messenger,
         \A d \in Clients : started'[d] = TRUE => started[d] = TRUE,
         what = "stop" => started[c] = TRUE,
         what = "unregister" => /\ started'[c] # TRUE
                                /\ HasFactory(c) => ~(Current(c).messenger = "none"
                                                       /\ Current(c).conn = "bound")
  PROVE  OrderInv'
<1>1. factories \in [Clients -> Seq(Factory)] /\ toService \in Seq(Orders)
      /\ FactoriesFine(factories) /\ what \in Whats
  BY DEF TypeOK, Orders, Whats, OrderInv
<1>2. CASE UNCHANGED <<toService, factories>>
  BY <1>1, <1>2, NothingSent
<1>3. CASE HasFactory(c) /\ Current(c).conn # "completed"
  <2> DEFINE n == Last(c)
             cur == Current(c)
  <2>1. n \in 1..Len(factories[c]) /\ factories[c][n] = cur /\ n = Len(factories[c])
    <3>1. factories[c] \in Seq(Factory) /\ factories[c] # <<>>
      BY <1>1, <1>3 DEF HasFactory
    <3> QED
      BY <3>1, EmptySeq DEF Last, Current
  <2>2. cur \in Factory /\ f \in Factory /\ f.messenger = cur.messenger /\ FactoryFine(cur)
    BY <1>1, <1>3, <2>1 DEF FactoriesFine
  <2>3. CASE cur.messenger = "none"
    <3> DEFINE g == [cur EXCEPT !.waiting = Append(cur.waiting, what), !.restart = f.restart]
    <3>1. factories' = [factories EXCEPT ![c][n] = g] /\ toService' = toService
      BY <1>3, <2>3 DEF SendServiceMessage
    <3>2. cur.waiting \in Seq(Whats) /\ f.restart \in BOOLEAN
      BY <2>2 DEF Factory, Whats
    <3>3. Append(cur.waiting, what) \in Seq(Whats)
      BY <1>1, <3>2
    <3>4. /\ g \in Factory /\ g.messenger = cur.messenger /\ g.conn = cur.conn
          /\ g.waiting = Append(cur.waiting, what)
      BY <2>2, <3>2, <3>3 DEF Factory, Whats
    <3>5. cur.conn = "bound" /\ InOrder(cur.waiting)
      BY <1>3, <2>2, <2>3 DEF Factory, FactoryFine
    <3>6. what = "stop"
      BY <1>3, <2>3, <3>5
    <3>7. InOrder(Append(cur.waiting, what))
      <4> DEFINE w == cur.waiting
                 v == Append(w, what)
      <4>1. /\ Len(v) = Len(w) + 1 /\ Len(w) \in Nat /\ v[Len(w) + 1] = what
            /\ \A k \in 1..Len(w) : v[k] = w[k]
        BY <3>2
      <4> HIDE DEF v, w
      <4>2. InOrder(w)
        BY <3>5 DEF w
      <4>3. InOrder(v)
        BY <3>6, <4>1, <4>2 DEF InOrder
      <4> QED
        BY <4>3 DEF v, w
    <3>8. FactoryFine(g)
      BY <3>4, <3>5, <3>7 DEF FactoryFine
    <3> HIDE DEF g, n, cur
    <3>9. /\ FactoriesFine(factories')
          /\ NoneLive(factories) => NoneLive(factories')
          /\ \A d \in Clients : CurrentLive(factories', d) => CurrentLive(factories, d)
      BY <1>1, <2>1, <2>3, <3>1, <3>4, <3>8, FactoryOrder
    <3> QED
      BY <3>1, <3>9, NothingSent
  <2>4. CASE cur.messenger # "none"
    <3>1. factories' = [factories EXCEPT ![c][n] = f]
          /\ toService' = Sent(c, <<what>>, cur.messenger)
      BY <1>3, <2>4 DEF SendServiceMessage
    <3>2. FactoryFine(f)
      BY <2>2, <2>4 DEF FactoryFine
    <3> HIDE DEF n, cur
    <3>3. /\ FactoriesFine(factories')
          /\ NoneLive(factories) /\ cur.messenger # "live" => NoneLive(factories')
          /\ \A d \in Clients : CurrentLive(factories', d) => CurrentLive(factories, d)
      BY <1>1, <2>1, <2>2, <3>1, <3>2, FactoryOrder
    <3>4. CASE cur.messenger # "live"
      <4>1. toService' = toService
        BY <3>1, <3>4 DEF Sent
      <4> QED
        BY <3>3, <3>4, <4>1, NothingSent
    <3>5. CASE cur.messenger = "live"
      <4> DEFINE m == [from |-> c, what |-> what]
      <4>1. m \in Orders /\ m.what = what /\ m.from = c
        BY <1>1 DEF Orders
      <4>2. toService' = Append(toService, m)
        <5>1. toService' = toService \o [i \in 1..Len(<<what>>) |-> [from |-> c, what |-> <<what>>[i]]]
          BY <3>1, <3>5 DEF Sent
        <5>2. [i \in 1..Len(<<what>>) |-> [from |-> c, what |-> <<what>>[i]]] = <<m>>
          OBVIOUS
        <5> HIDE DEF m
        <5>3. toService \o <<m>> = Append(toService, m)
          BY <1>1, <4>1
        <5> QED
          BY <5>1, <5>2, <5>3
      <4>3. CurrentLive(factories, c)
        BY <2>1, <3>5 DEF CurrentLive
      <4>4. svc # "down"
        BY <2>1, <3>5 DEF OrderInv, DownIsSilent, NoneLive
      <4>5. m # [from |-> c, what |-> "unregister"] \/ started'[c] # TRUE
        BY <4>1
      <4>6. \A d \in Clients : d # c => m # [from |-> d, what |-> "unregister"]
        BY <4>1
      <4> HIDE DEF m
      <4>7. RunningKnows'
        <5> SUFFICES ASSUME svc = "running" PROVE RunningKnows'
          BY DEF RunningKnows
        <5>1. /\ StopsMeetClients(toService, mClients)
              /\ \A d \in Clients : started[d] = TRUE /\ CurrentLive(factories, d)
                                      => Registered(toService, mClients, d, Len(toService) + 1)
          BY DEF OrderInv, RunningKnows
        <5>2. m.what = "stop" => Registered(toService, mClients, m.from, Len(toService) + 1)
          BY <4>1, <4>3, <5>1
        <5>3. /\ StopsMeetClients(toService', mClients)
              /\ \A d : Registered(toService, mClients, d, Len(toService) + 1)
                          /\ m # [from |-> d, what |-> "unregister"]
                        => Registered(toService', mClients, d, Len(toService') + 1)
          BY <1>1, <4>1, <4>2, <5>1, <5>2, MessageMore
        <5>4. ASSUME NEW d \in Clients, started'[d] = TRUE, CurrentLive(factories', d)
              PROVE  Registered(toService', mClients, d, Len(toService') + 1)
          <6>1. Registered(toService, mClients, d, Len(toService) + 1)
            BY <3>3, <5>1, <5>4
          <6>2. m # [from |-> d, what |-> "unregister"]
            BY <4>5, <4>6, <5>4
          <6> QED
            BY <5>3, <6>1, <6>2
        <5> QED
          BY <5>3, <5>4 DEF RunningKnows
      <4>8. DownIsSilent'
        BY <4>4 DEF DownIsSilent
      <4> QED
        BY <3>3, <4>7, <4>8 DEF OrderInv
    <3> QED
      BY <3>4, <3>5
  <2> QED
    BY <2>3, <2>4
<1>4. (HasFactory(c) /\ Current(c).conn # "completed") \/ UNCHANGED <<toService, factories>>
  BY DEF SendServiceMessage
<1> QED
  BY <1>2, <1>3, <1>4

(* Without early pauses and late results: the calls of the activities. *)
LEMMA ClientCallsOrder ==
  ASSUME "early_pause" \notin Faults, "stale_result" \notin Faults,
         TypeOK, OrderInv, NEW c \in Clients,
         OnStart(c) \/ OnStop(c) \/ UserStops(c) \/ ScheduleVpnServiceRestart(c)
  PROVE  OrderInv'
<1>1. /\ factories \in [Clients -> Seq(Factory)] /\ started \in [Clients -> BOOLEAN]
      /\ FactoriesFine(factories)
  BY DEF TypeOK, OrderInv
<1>2. UNCHANGED <<svc, mClients>>
  BY DEF OnStart, OnStop, UserStops, ScheduleVpnServiceRestart, service
<1>3. HasFactory(c) => /\ Current(c) \in Factory /\ Last(c) \in DOMAIN factories[c]
                       /\ factories[c][Last(c)] = Current(c)
  <2>1. factories[c] \in Seq(Factory)
    BY <1>1
  <2> QED
    BY <2>1, EmptySeq DEF HasFactory, Current, Last
<1>4. CASE OnStart(c)
  <2>1. /\ toService' = toService /\ started' = [started EXCEPT ![c] = TRUE]
        /\ IF svc # "down" THEN BindTunnelService(c) ELSE factories' = factories
    BY <1>4 DEF OnStart
  <2>2. \A d \in Clients : d # c => started'[d] = started[d]
    BY <1>1, <2>1
  <2>3. CASE svc # "down"
    <3>1. /\ FactoriesFine(factories')
          /\ NoneLive(factories) => NoneLive(factories')
          /\ ~CurrentLive(factories', c)
          /\ \A d \in Clients : CurrentLive(factories', d) => CurrentLive(factories, d)
      BY <1>1, <2>1, <2>3, BindOrder
    <3>2. \A d \in Clients : started'[d] = TRUE /\ CurrentLive(factories', d)
                                => CurrentLive(factories, d) /\ (svc # "down" => started[d] = TRUE)
      BY <2>2, <3>1
    <3> QED
      BY <1>2, <2>1, <3>1, <3>2, NothingSent
  <2>4. CASE svc = "down"
    BY <1>1, <1>2, <2>1, <2>4, NothingSent
  <2> QED
    BY <2>3, <2>4
<1>5. CASE OnStop(c)
  <2> DEFINE f == IF HasFactory(c) THEN [Current(c) EXCEPT !.conn = "unbound"] ELSE <<>>
  <2>1. SendServiceMessage(c, "unregister", f) /\ started' = [started EXCEPT ![c] = FALSE]
        /\ ~Binding(c)
    BY <1>5 DEF OnStop
  <2>2. HasFactory(c) => f \in Factory /\ f.messenger = Current(c).messenger
    BY <1>3 DEF Factory
  <2>3. HasFactory(c) => ~(Current(c).messenger = "none" /\ Current(c).conn = "bound")
    BY <1>3, <2>1 DEF Binding
  <2>4. started'[c] # TRUE /\ \A d \in Clients : started'[d] = TRUE => started[d] = TRUE
    BY <1>1, <2>1
  <2> HIDE DEF f
  <2> QED
    BY <1>2, <2>1, <2>2, <2>3, <2>4, SendOrder
<1>6. CASE UserStops(c)
  <2>1. /\ SendServiceMessage(c, "stop", Current(c)) /\ started' = started /\ started[c]
    BY <1>6 DEF UserStops
  <2>2. started[c] = TRUE
    BY <1>1, <2>1
  <2> QED
    BY <1>2, <1>3, <2>1, <2>2, SendOrder
<1>7. CASE ScheduleVpnServiceRestart(c)
  <2> DEFINE f == [Current(c) EXCEPT !.restart = TRUE]
  <2>1. /\ SendServiceMessage(c, "stop", f) /\ started' = started /\ started[c]
    BY <1>7 DEF ScheduleVpnServiceRestart
  <2>2. started[c] = TRUE
    BY <1>1, <2>1
  <2>3. HasFactory(c) => f \in Factory /\ f.messenger = Current(c).messenger
    BY <1>3 DEF Factory
  <2> HIDE DEF f
  <2> QED
    BY <1>2, <2>1, <2>2, <2>3, SendOrder
<1> QED
  BY <1>4, <1>5, <1>6, <1>7

(* onServiceConnected: the registration goes out, and what waited behind it. *)
LEMMA ConnectsOrder ==
  ASSUME TypeOK, OrderInv, NEW c \in Clients, NEW i \in DOMAIN factories[c],
         OnServiceConnected(c, i), TypeOK'
  PROVE  OrderInv'
<1> DEFINE f == factories[c][i]
           g == [f EXCEPT !.messenger = "live", !.waiting = <<>>]
           w == f.waiting
<1>1. /\ factories \in [Clients -> Seq(Factory)] /\ toService \in Seq(Orders)
      /\ toService' \in Seq(Orders) /\ FactoriesFine(factories)
  BY DEF TypeOK, Orders, Whats, OrderInv
<1>2. i \in 1..Len(factories[c]) /\ f \in Factory /\ f.messenger = "none" /\ svc # "down"
      /\ UNCHANGED <<svc, mClients, started>>
  BY <1>1 DEF OnServiceConnected, service
<1>3. w \in Seq(Whats) /\ <<>> \in Seq(Whats) /\ InOrder(w)
  BY <1>1, <1>2, EmptySeq DEF Factory, Whats, FactoriesFine, FactoryFine
<1>4. g \in Factory /\ g.messenger = "live"
  BY <1>2, <1>3 DEF Factory, Whats
<1>5. ~ \E k \in DOMAIN w : w[k] = "unregister"
  BY <1>3 DEF InOrder
<1>6. factories' = [factories EXCEPT ![c][i] = g]
  <2>1. factories' = [factories EXCEPT ![c] = [factories[c] EXCEPT ![i] = g]]
    BY <1>5 DEF OnServiceConnected
  <2> QED
    BY <2>1
<1>7. FactoryFine(g)
  BY <1>4 DEF FactoryFine
<1>8. toService' = toService \o [k \in 1..Len(w) |-> [from |-> c, what |-> w[k]]]
  BY DEF OnServiceConnected, Sent
<1> HIDE DEF g
<1>9. /\ FactoriesFine(factories')
      /\ \A d \in Clients : d # c /\ CurrentLive(factories', d) => CurrentLive(factories, d)
  BY <1>1, <1>2, <1>4, <1>6, <1>7, FactoryOrder
<1> HIDE DEF f, w
<1>10. SentBehind(toService', toService, c, w)
  <2> DEFINE s == [k \in 1..Len(w) |-> [from |-> c, what |-> w[k]]]
  <2>0. Len(w) \in Nat /\ Len(toService) \in Nat
    BY <1>1, <1>3
  <2>1. ASSUME NEW k \in 1..Len(w) PROVE [from |-> c, what |-> w[k]] \in Orders
    <3>1. w[k] \in Whats
      BY <1>3
    <3> QED
      BY <3>1 DEF Orders
  <2>2. s \in [1..Len(w) -> Orders]
    BY <2>1
  <2>3. \A k \in 1..Len(w) : s[k] = [from |-> c, what |-> w[k]]
    OBVIOUS
  <2> HIDE DEF s
  <2>4. s \in Seq(Orders) /\ Len(s) = Len(w)
    BY <2>0, <2>2
  <2>5. toService' = toService \o s
    BY <1>8 DEF s
  <2>6. /\ Len(toService') = Len(toService) + Len(s)
        /\ \A k \in 1..(Len(toService) + Len(s)) :
             toService'[k] = IF k <= Len(toService) THEN toService[k] ELSE s[k - Len(toService)]
    BY <1>1, <2>4, <2>5, ConcatProperties, ZenonT(60)
  <2>7. ASSUME NEW k \in 1..Len(w)
        PROVE  toService'[Len(toService) + k] = [from |-> c, what |-> w[k]]
    <3>1. /\ Len(toService) + k \in 1..(Len(toService) + Len(s))
          /\ ~(Len(toService) + k <= Len(toService)) /\ (Len(toService) + k) - Len(toService) = k
      BY <2>0, <2>4
    <3>2. toService'[Len(toService) + k] = s[k]
      BY <2>6, <3>1
    <3> QED
      BY <2>3, <3>2
  <2> QED
    BY <2>0, <2>4, <2>6, <2>7 DEF SentBehind
<1>11. RunningKnows'
  <2> SUFFICES ASSUME svc = "running" PROVE RunningKnows'
    BY <1>2 DEF RunningKnows
  <2>1. /\ StopsMeetClients(toService, mClients)
        /\ \A d \in Clients : started[d] = TRUE /\ CurrentLive(factories, d)
                                => Registered(toService, mClients, d, Len(toService) + 1)
    BY DEF OrderInv, RunningKnows
  <2>2. /\ StopsMeetClients(toService', mClients)
        /\ Registered(toService', mClients, c, Len(toService') + 1)
        /\ \A d : d # c /\ Registered(toService, mClients, d, Len(toService) + 1)
                    => Registered(toService', mClients, d, Len(toService') + 1)
    BY <1>1, <1>3, <1>10, <2>1, WaitingSent
  <2>3. ASSUME NEW d \in Clients, started'[d] = TRUE, CurrentLive(factories', d)
        PROVE  Registered(toService', mClients, d, Len(toService') + 1)
    <3>1. CASE d = c
      BY <2>2, <3>1
    <3>2. CASE d # c
      BY <1>2, <1>9, <2>1, <2>2, <2>3, <3>2
    <3> QED
      BY <3>1, <3>2
  <2> QED
    BY <1>2, <2>2, <2>3 DEF RunningKnows
<1>12. DownIsSilent'
  BY <1>2 DEF DownIsSilent
<1> QED
  BY <1>9, <1>11, <1>12 DEF OrderInv

(* A start command, and a start that the system refuses. *)
LEMMA StartOrder ==
  ASSUME OrderInv, NEW c \in Clients, NEW q,
         StartTunnelService(c, q) \/ StartTunnelServiceFails(c, q)
         \/ (inbox' = q /\ UNCHANGED service),
         FactoriesFine(factories'), UNCHANGED <<toService, started>>,
         NoneLive(factories) => NoneLive(factories'),
         \A d \in Clients : CurrentLive(factories', d) => CurrentLive(factories, d)
  PROVE  OrderInv'
<1>1. mClients' = mClients /\ (svc' = svc \/ svc = "down")
  BY DEF StartTunnelService, StartTunnelServiceFails, service
<1> QED
  BY <1>1, NothingSent

(* The looper of the app. *)
LEMMA LooperOrder ==
  ASSUME InteractorInv, OrderInv, NEW c \in Clients, Looper(c) \/ UserStarts(c)
  PROVE  OrderInv'
<1>1. /\ TypeOK /\ factories \in [Clients -> Seq(Factory)] /\ inbox \in [Clients -> Seq(Messages)]
      /\ FactoriesFine(factories)
  BY DEF InteractorInv, TypeOK, OrderInv
<1>2. CASE UserStarts(c)
  <2>1. /\ StartTunnelService(c, inbox) \/ StartTunnelServiceFails(c, inbox)
        /\ UNCHANGED <<toService, started, factories>>
    BY <1>2 DEF UserStarts
  <2> QED
    BY <1>1, <2>1, StartOrder
<1>3. CASE OnStartingBroadcast(c)
  <2>1. /\ BindTunnelService(c) \/ factories' = factories
        /\ UNCHANGED <<svc, mClients, toService, started>>
    BY <1>3 DEF OnStartingBroadcast, service
  <2>2. /\ FactoriesFine(factories')
        /\ NoneLive(factories) => NoneLive(factories')
        /\ \A d \in Clients : CurrentLive(factories', d) => CurrentLive(factories, d)
    BY <1>1, <2>1, BindOrder
  <2> QED
    BY <2>1, <2>2, NothingSent
<1>4. CASE OnState(c) \/ OnStats(c)
  <2>1. UNCHANGED <<svc, mClients, toService, started, factories>>
    BY <1>4 DEF OnState, OnStats, service
  <2> QED
    BY <1>1, <2>1, NothingSent
<1>5. CASE OnServiceDisconnected(c)
  <2> DEFINE i == Head(inbox[c]).factory
             f == factories[c][i]
             g == [f EXCEPT !.conn = "completed", !.restart = FALSE]
  <2>1. UNCHANGED <<toService, started>> /\ NextIs(c, "disconnected")
    BY <1>5 DEF OnServiceDisconnected
  <2>2. i \in 1..Len(factories[c])
    <3>1. inbox[c] \in Seq(Messages) /\ inbox[c] # <<>> /\ Head(inbox[c]).what = "disconnected"
      BY <1>1, <2>1 DEF NextIs
    <3>2. Head(inbox[c]) = inbox[c][1] /\ 1 \in 1..Len(inbox[c]) /\ Head(inbox[c]) \in Messages
      BY <3>1, HeadTailProperties
    <3>3. i <= Len(factories[c])
      BY <3>1, <3>2 DEF InteractorInv, QueueFine, RefersToBindings
    <3>4. i \in Nat \ {0}
      BY <3>1, <3>2 DEF Messages
    <3>5. Len(factories[c]) \in Nat
      BY <1>1
    <3> QED
      BY <3>3, <3>4, <3>5
  <2>3. CASE f.conn # "bound"
    <3>1. UNCHANGED <<svc, mClients, factories>>
      BY <1>5, <2>3 DEF OnServiceDisconnected, service
    <3> QED
      BY <1>1, <2>1, <3>1, NothingSent
  <2>4. CASE f.conn = "bound"
    <3>1. /\ factories' = [factories EXCEPT ![c][i] = g]
          /\ \/ StartTunnelService(c, Rest(c)) \/ StartTunnelServiceFails(c, Rest(c))
             \/ inbox' = Rest(c) /\ UNCHANGED service
      BY <1>5, <2>4 DEF OnServiceDisconnected
    <3>2. f \in Factory /\ FactoryFine(f)
      BY <1>1, <2>2 DEF FactoriesFine
    <3>3. g \in Factory /\ g.messenger = f.messenger /\ g.waiting = f.waiting /\ g.conn = "completed"
      BY <3>2 DEF Factory
    <3>4. FactoryFine(g)
      BY <3>2, <3>3 DEF FactoryFine
    <3>5. NoneLive(factories) => f.messenger # "live"
      BY <2>2 DEF NoneLive
    <3> HIDE DEF g, i
    <3>6. /\ FactoriesFine(factories')
          /\ NoneLive(factories) => NoneLive(factories')
          /\ \A d \in Clients : CurrentLive(factories', d) => CurrentLive(factories, d)
      BY <1>1, <2>2, <3>1, <3>3, <3>4, <3>5, FactoryOrder
    <3> QED
      BY <2>1, <3>1, <3>6, StartOrder
  <2> QED
    BY <2>3, <2>4
<1> QED
  BY <1>2, <1>3, <1>4, <1>5 DEF Looper

(* The service handles a message. *)
LEMMA HandlerOrder ==
  ASSUME TypeOK, OrderInv, ServiceHandler
  PROVE  OrderInv'
<1> DEFINE m == Head(toService)
<1>1. /\ toService \in Seq(Orders) /\ toService # <<>> /\ toService' = Tail(toService)
      /\ UNCHANGED <<started, factories>> /\ m.what \in Whats
      /\ svc' = svc \/ (svc = "running" /\ svc' = "commanded")
  BY DEF TypeOK, Orders, Whats, ServiceHandler, ServiceRegister, ServiceUnregister, ServiceStop,
         NextForService
<1>2. /\ m \in Orders /\ m = toService[1] /\ Tail(toService) \in Seq(Orders)
      /\ Len(Tail(toService)) = Len(toService) - 1 /\ Len(toService) \in Nat /\ Len(toService) > 0
      /\ \A k \in 1..Len(Tail(toService)) : Tail(toService)[k] = toService[k + 1]
  BY <1>1, HeadTailProperties
<1>3. svc # "down"
  BY <1>1 DEF OrderInv, DownIsSilent
<1>4. RunningKnows'
  <2> SUFFICES ASSUME svc' = "running" PROVE RunningKnows'
    BY DEF RunningKnows
  <2>1. /\ svc = "running" /\ StopsMeetClients(toService, mClients)
        /\ \A c \in Clients : started[c] = TRUE /\ CurrentLive(factories, c)
                                => Registered(toService, mClients, c, Len(toService) + 1)
    BY <1>1 DEF OrderInv, RunningKnows
  <2>2. m.what # "stop"
    <3> SUFFICES ASSUME m.what = "stop" PROVE FALSE
      OBVIOUS
    <3>1. ServiceStop
      BY DEF ServiceHandler, ServiceRegister, ServiceUnregister, NextForService
    <3>2. m.from \notin mClients
      BY <2>1, <3>1 DEF ServiceStop
    <3>3. Registered(toService, mClients, m.from, 1)
      BY <1>2, <2>1 DEF StopsMeetClients
    <3> QED
      BY <3>2, <3>3 DEF Registered
  <2>3. ASSUME NEW c
        PROVE  /\ m = [from |-> c, what |-> "register"] => c \in mClients'
               /\ m # [from |-> c, what |-> "unregister"] /\ c \in mClients => c \in mClients'
    <3>1. \/ m.what = "register" /\ mClients' = mClients \cup {m.from}
          \/ m.what = "unregister" /\ mClients' = mClients \ {m.from}
      BY <2>2 DEF ServiceHandler, ServiceRegister, ServiceUnregister, ServiceStop, NextForService
    <3>2. m = [from |-> m.from, what |-> m.what]
      BY <1>2 DEF Orders
    <3> HIDE DEF m
    <3> QED
      BY <3>1, <3>2
  <2> HIDE DEF m
  <2>4. ASSUME NEW c, NEW k \in 1..Len(toService), Registered(toService, mClients, c, k + 1)
        PROVE  Registered(toService', mClients', c, k)
    <3>1. /\ Head(toService) = [from |-> c, what |-> "register"] => c \in mClients'
          /\ Head(toService) # [from |-> c, what |-> "unregister"] /\ c \in mClients => c \in mClients'
      BY <2>3 DEF m
    <3> QED
      BY <1>1, <2>4, <3>1, RegisteredHandled
  <2>5. ASSUME NEW k \in 1..Len(toService'), toService'[k].what = "stop"
        PROVE  Registered(toService', mClients', toService'[k].from, k)
    <3>1. k \in 1..Len(toService) /\ k + 1 \in 1..Len(toService) /\ toService'[k] = toService[k + 1]
      BY <1>1, <1>2
    <3>2. Registered(toService, mClients, toService[k + 1].from, k + 1)
      BY <2>1, <2>5, <3>1 DEF StopsMeetClients
    <3> QED
      BY <2>4, <3>1, <3>2
  <2>6. ASSUME NEW c \in Clients, started'[c] = TRUE, CurrentLive(factories', c)
        PROVE  Registered(toService', mClients', c, Len(toService') + 1)
    <3>1. Registered(toService, mClients, c, Len(toService) + 1)
      BY <1>1, <2>1, <2>6
    <3>2. Len(toService') + 1 = Len(toService) /\ Len(toService) \in 1..Len(toService)
      BY <1>1, <1>2
    <3> QED
      BY <2>4, <3>1, <3>2
  <2> QED
    BY <2>5, <2>6 DEF RunningKnows, StopsMeetClients
<1>5. DownIsSilent'
  BY <1>1, <1>3 DEF DownIsSilent
<1>6. FactoriesFine(factories)'
  BY <1>1 DEF OrderInv
<1> QED
  BY <1>4, <1>5, <1>6 DEF OrderInv

(* The service is gone, and with it every messenger. *)
LEMMA EndsOrder ==
  ASSUME TypeOK, OrderInv, NEW killed \in BOOLEAN, ServiceEnds(killed)
  PROVE  OrderInv'
<1>1. factories \in [Clients -> Seq(Factory)] /\ FactoriesFine(factories)
  BY DEF TypeOK, OrderInv
<1>2. /\ svc' = "down" /\ toService' = <<>>
      /\ factories' = [c \in Clients |-> [i \in 1..Last(c) |->
           [factories[c][i] EXCEPT !.messenger = IF @ = "live" THEN "dead" ELSE @]]]
  BY DEF ServiceEnds
<1>3. ASSUME NEW c \in Clients, NEW i \in 1..Len(factories'[c])
      PROVE  factories'[c][i].messenger # "live" /\ FactoryFine(factories'[c][i])
  <2> DEFINE n == Len(factories[c])
             h(k) == [factories[c][k] EXCEPT !.messenger = IF @ = "live" THEN "dead" ELSE @]
  <2>1. factories'[c] = [k \in 1..n |-> h(k)] /\ n \in Nat
    BY <1>1, <1>2 DEF Last
  <2>2. Len(factories'[c]) = n
    <3> HIDE DEF h, n
    <3> QED
      BY <2>1
  <2>3. i \in 1..n /\ factories'[c][i] = h(i)
    <3>1. i \in 1..n
      BY <1>3, <2>2
    <3> QED
      BY <2>1, <3>1
  <2>4. factories[c][i] \in Factory /\ FactoryFine(factories[c][i])
    BY <1>1, <2>3 DEF FactoriesFine
  <2>5. /\ h(i).messenger # "live" /\ h(i).conn = factories[c][i].conn
        /\ h(i).waiting = factories[c][i].waiting
        /\ h(i).messenger = "none" => factories[c][i].messenger = "none"
    BY <2>4 DEF Factory
  <2> QED
    BY <2>3, <2>4, <2>5 DEF FactoryFine
<1> QED
  BY <1>2, <1>3 DEF OrderInv, FactoriesFine, NoneLive, DownIsSilent, RunningKnows

(* Every step keeps the order. *)
LEMMA OrderStep ==
  ASSUME "early_pause" \notin Faults, "stale_result" \notin Faults,
         InteractorInv, OrderInv, [Next]_vars
  PROVE  OrderInv'
<1>0. TypeOK /\ FactoriesFine(factories)
  BY DEF InteractorInv, OrderInv
<1>1. ASSUME NEW c \in Clients,
             OnStart(c) \/ OnStop(c) \/ UserStops(c) \/ ScheduleVpnServiceRestart(c)
      PROVE  OrderInv'
  BY <1>0, <1>1, ClientCallsOrder
<1>2. ASSUME NEW c \in Clients, Looper(c) \/ UserStarts(c) PROVE OrderInv'
  BY <1>2, LooperOrder
<1>3. ASSUME NEW c \in Clients, Connects(c) PROVE OrderInv'
  <2>1. PICK i \in DOMAIN factories[c] : OnServiceConnected(c, i)
    BY <1>3 DEF Connects
  <2>2. TypeOK'
    BY <2>1, ConnectsInv DEF InteractorInv
  <2> QED
    BY <1>0, <2>1, <2>2, ConnectsOrder
<1>4. CASE ServiceHandler
  BY <1>0, <1>4, HandlerOrder
<1>5. CASE ServiceReports \/ ServiceSendsStats \/ UNCHANGED vars
  <2>1. UNCHANGED <<svc, mClients, toService, started, factories>>
    BY <1>5 DEF ServiceReports, ServiceSendsStats, service, vars
  <2> QED
    BY <1>0, <2>1, NothingSent
<1>6. CASE ServiceToldToStop \/ SystemRestartsService
  <2>1. /\ UNCHANGED <<mClients, toService, started, factories>>
        /\ svc' = "stopping" \/ svc = "down"
    BY <1>6 DEF ServiceToldToStop, SystemRestartsService
  <2> QED
    BY <1>0, <2>1, NothingSent
<1>7. ASSUME NEW killed \in BOOLEAN, ServiceEnds(killed) PROVE OrderInv'
  BY <1>0, <1>7, EndsOrder
<1>8. CASE Next
  BY <1>1, <1>2, <1>3, <1>4, <1>5, <1>6, <1>7, <1>8 DEF Next
<1> QED
  BY <1>5, <1>8

(* stopTunnelService and scheduleVpnServiceRestart, for any number of interactors and
   bindings, under crashes, redeliveries, early ends and pauses in a restart: when the
   service finds the sender of a STOP_SERVICE unregistered it is ending already.  It
   takes that onStop does not come before the binding has connected, nor a settings
   result after it: both let an UNREGISTER overtake the stop. *)
THEOREM NoStopIsIgnored ==
  ASSUME "early_pause" \notin Faults, "stale_result" \notin Faults
  PROVE  Spec => NoStopIgnored
<1>1. Init => InteractorInv /\ OrderInv
  <2> SUFFICES ASSUME Init PROVE OrderInv
    BY InteractorInitInv
  <2>1. \A c \in Clients : Len(factories[c]) = 0
    BY DEF Init
  <2>2. FactoriesFine(factories) /\ NoneLive(factories) /\ toService = <<>> /\ svc = "down"
    BY <2>1 DEF Init, FactoriesFine, NoneLive
  <2> QED
    BY <2>2 DEF OrderInv, DownIsSilent, RunningKnows
<1>2. InteractorInv /\ OrderInv /\ [Next]_vars => (InteractorInv /\ OrderInv)'
  BY InteractorStep, OrderStep
<1>3. InteractorInv /\ OrderInv /\ [Next]_vars =>
        [ServiceStop /\ Head(toService).from \notin mClients => svc # "running"]_vars
  <2> SUFFICES ASSUME InteractorInv, OrderInv, ServiceStop, svc = "running"
               PROVE  Head(toService).from \in mClients
    OBVIOUS
  <2>1. toService \in Seq(Orders) /\ toService # <<>> /\ Head(toService).what = "stop"
    BY DEF InteractorInv, TypeOK, Orders, Whats, ServiceStop, NextForService
  <2>2. Head(toService) = toService[1] /\ 1 \in 1..Len(toService)
    BY <2>1, HeadTailProperties
  <2>3. Registered(toService, mClients, Head(toService).from, 1)
    BY <2>1, <2>2 DEF OrderInv, RunningKnows, StopsMeetClients
  <2> QED
    BY <2>3 DEF Registered
<1> QED
  BY <1>1, <1>2, <1>3, PTL DEF Spec, NoStopIgnored
=============================================================================
