------------------------------ MODULE UdpGwProofs ------------------------------
(***************************************************************************)
(* Proofs about UdpGw, for any addresses, limits and buffer sizes.         *)
(***************************************************************************)
EXTENDS UdpGw, SequenceTheorems, FiniteSetTheorems, WellFoundedInduction, TLAPS

(* RemoveAt closes the gap. *)
LEMMA RemoveAtElements ==
  ASSUME NEW S, NEW s \in Seq(S), NEW i \in 1..Len(s)
  PROVE  /\ RemoveAt(s, i) \in Seq(S)
         /\ Len(RemoveAt(s, i)) = Len(s) - 1
         /\ \A j \in 1..(Len(s) - 1) : RemoveAt(s, i)[j] = IF j < i THEN s[j] ELSE s[j + 1]
<1> DEFINE a == SubSeq(s, 1, i - 1)
           b == SubSeq(s, i + 1, Len(s))
<1>1. /\ a \in Seq(S) /\ Len(a) = i - 1 /\ \A j \in 1..(i - 1) : a[j] = s[j]
  OBVIOUS
<1>2. /\ b \in Seq(S) /\ Len(b) = Len(s) - i /\ \A j \in 1..(Len(s) - i) : b[j] = s[j + i]
  OBVIOUS
<1> HIDE DEF a, b
<1>3. /\ a \o b \in Seq(S) /\ Len(a \o b) = Len(a) + Len(b)
      /\ \A j \in 1..(Len(a) + Len(b)) : (a \o b)[j] = IF j <= Len(a) THEN a[j] ELSE b[j - Len(a)]
  BY <1>1, <1>2, ConcatProperties, Zenon
<1>4. \A j \in 1..(Len(s) - 1) : (a \o b)[j] = IF j < i THEN s[j] ELSE s[j + 1]
  BY <1>1, <1>2, <1>3
<1>5. Len(a \o b) = Len(s) - 1
  BY <1>1, <1>2, <1>3
<1>6. RemoveAt(s, i) = a \o b
  BY Zenon DEF RemoveAt, a, b
<1> QED
  BY <1>3, <1>4, <1>5, <1>6

(* MoveToBack of the lists permutes them. *)
LEMMA MoveToBackElements ==
  ASSUME NEW S, NEW s \in Seq(S), NEW i \in 1..Len(s)
  PROVE  /\ MoveToBack(s, i) \in Seq(S)
         /\ Len(MoveToBack(s, i)) = Len(s)
         /\ \A j \in 1..(Len(s) - 1) : MoveToBack(s, i)[j] = IF j < i THEN s[j] ELSE s[j + 1]
         /\ MoveToBack(s, i)[Len(s)] = s[i]
BY RemoveAtElements DEF MoveToBack

(* What the search of a list finds. *)
LEMMA Found ==
  /\ \A a : ByConaddr(a) = {i \in DOMAIN connections : connections[i].addr = a}
  /\ \A list, k : ByConid(list, k) = {i \in DOMAIN list : list[i].conid = k}
BY DEF ByConaddr, ByConid, IndicesOf

(* Every set of numbers has a least one. *)
LEMMA LeastNumber ==
  ASSUME NEW T \in SUBSET Nat, T # {}
  PROVE  \E x \in T : \A y \in T : x <= y
<1> DEFINE R == {ss \in Nat \X Nat : ss[1] < ss[2]}
<1>1. IsWellFoundedOn(R, Nat)
  BY NatLessThanWellFounded, Zenon DEF OpToRel
<1>2. PICK x \in T : \A y \in T : ~(<<y, x>> \in R)
  <2> HIDE DEF R
  <2> QED
    BY <1>1, WFMin
<1>3. ASSUME NEW y \in T PROVE x <= y
  <2>1. <<y, x>> \in Nat \X Nat /\ <<y, x>>[1] = y /\ <<y, x>>[2] = x
    OBVIOUS
  <2>2. ~(y < x)
    BY <1>2, <2>1, Zenon
  <2> QED
    BY <2>2
<1> QED
  BY <1>3

-----------------------------------------------------------------------------
(* The lists.  The trees over them have one node per key. *)
ConidsDiffer(list) == \A i, j \in 1..Len(list) : i # j => list[i].conid # list[j].conid
AddrsDiffer(list) == \A i, j \in 1..Len(list) : i # j => list[i].addr # list[j].addr

(* Using a connection changes nothing but its place. *)
LEMMA MoveToBackKeeps ==
  ASSUME NEW S, NEW list \in Seq(S), NEW i \in 1..Len(list)
  PROVE  /\ ConidsDiffer(list) => ConidsDiffer(MoveToBack(list, i))
         /\ AddrsDiffer(list) => AddrsDiffer(MoveToBack(list, i))
<1> DEFINE new == MoveToBack(list, i)
           from == [j \in 1..Len(list) |->
                      IF j = Len(list) THEN i ELSE IF j < i THEN j ELSE j + 1]
<1>1. /\ Len(new) = Len(list)
      /\ \A j \in 1..(Len(list) - 1) : new[j] = IF j < i THEN list[j] ELSE list[j + 1]
      /\ new[Len(list)] = list[i]
  BY MoveToBackElements
<1> HIDE DEF new
<1>2. \A j \in 1..Len(list) : from[j] \in 1..Len(list) /\ new[j] = list[from[j]]
  BY <1>1
<1>3. \A j, k \in 1..Len(list) : j # k => from[j] # from[k]
  OBVIOUS
<1> HIDE DEF from
<1>4. ASSUME NEW j \in 1..Len(new), NEW k \in 1..Len(new), j # k
      PROVE  /\ ConidsDiffer(list) => new[j].conid # new[k].conid
             /\ AddrsDiffer(list) => new[j].addr # new[k].addr
  <2>1. /\ from[j] \in 1..Len(list) /\ new[j] = list[from[j]]
        /\ from[k] \in 1..Len(list) /\ new[k] = list[from[k]]
        /\ from[j] # from[k]
    BY <1>1, <1>2, <1>3, <1>4
  <2> QED
    BY <2>1, Zenon DEF ConidsDiffer, AddrsDiffer
<1>5. /\ ConidsDiffer(list) => ConidsDiffer(new)
      /\ AddrsDiffer(list) => AddrsDiffer(new)
  BY <1>4, Zenon DEF ConidsDiffer, AddrsDiffer
<1> QED
  BY <1>5 DEF new

(* Closing a connection leaves none of its id. *)
LEMMA RemoveAtKeeps ==
  ASSUME NEW S, NEW list \in Seq(S), NEW i \in 1..Len(list), ConidsDiffer(list)
  PROVE  /\ ConidsDiffer(RemoveAt(list, i))
         /\ \A j \in 1..(Len(list) - 1) : RemoveAt(list, i)[j].conid # list[i].conid
<1> DEFINE new == RemoveAt(list, i)
           from == [j \in 1..(Len(list) - 1) |-> IF j < i THEN j ELSE j + 1]
<1>1. /\ Len(new) = Len(list) - 1
      /\ \A j \in 1..(Len(list) - 1) : new[j] = IF j < i THEN list[j] ELSE list[j + 1]
  BY RemoveAtElements
<1> HIDE DEF new
<1>2. \A j \in 1..(Len(list) - 1) :
        from[j] \in 1..Len(list) /\ from[j] # i /\ new[j] = list[from[j]]
  BY <1>1
<1>3. \A j, k \in 1..(Len(list) - 1) : j # k => from[j] # from[k]
  OBVIOUS
<1> HIDE DEF from
<1>4. ASSUME NEW j \in 1..Len(new), NEW k \in 1..Len(new), j # k
      PROVE  new[j].conid # new[k].conid
  <2>1. /\ from[j] \in 1..Len(list) /\ new[j] = list[from[j]]
        /\ from[k] \in 1..Len(list) /\ new[k] = list[from[k]]
        /\ from[j] # from[k]
    BY <1>1, <1>2, <1>3, <1>4
  <2> QED
    BY <2>1, Zenon DEF ConidsDiffer
<1>5. \A j \in 1..(Len(list) - 1) : new[j].conid # list[i].conid
  <2> SUFFICES ASSUME NEW j \in 1..(Len(list) - 1) PROVE new[j].conid # list[i].conid
    OBVIOUS
  <2>1. from[j] \in 1..Len(list) /\ from[j] # i /\ new[j] = list[from[j]]
    BY <1>2
  <2> QED
    BY <2>1, Zenon DEF ConidsDiffer
<1>6. ConidsDiffer(new)
  BY <1>4, Zenon DEF ConidsDiffer
<1> QED
  BY <1>5, <1>6 DEF new

(* Dropping the least recently used one; it leaves none of its id. *)
LEMMA TailKeeps ==
  ASSUME NEW S, NEW list \in Seq(S), list # << >>
  PROVE  /\ Tail(list) \in Seq(S) /\ Len(Tail(list)) = Len(list) - 1
         /\ \A j \in 1..(Len(list) - 1) : Tail(list)[j] = list[j + 1]
         /\ Head(list) \in S /\ Head(list) = list[1]
         /\ ConidsDiffer(list) => ConidsDiffer(Tail(list))
         /\ AddrsDiffer(list) => AddrsDiffer(Tail(list))
<1>1. /\ Tail(list) \in Seq(S) /\ Len(Tail(list)) = Len(list) - 1
      /\ \A j \in 1..(Len(list) - 1) : Tail(list)[j] = list[j + 1]
      /\ Head(list) \in S /\ Head(list) = list[1]
  OBVIOUS
<1>2. /\ ConidsDiffer(list) => ConidsDiffer(Tail(list))
      /\ AddrsDiffer(list) => AddrsDiffer(Tail(list))
  BY <1>1 DEF ConidsDiffer, AddrsDiffer
<1> QED
  BY <1>1, <1>2

(* Adding a connection whose id, or whose addresses, are new. *)
LEMMA AppendKeeps ==
  ASSUME NEW S, NEW list \in Seq(S), NEW c \in S
  PROVE  /\ Append(list, c) \in Seq(S) /\ Len(Append(list, c)) = Len(list) + 1
         /\ ConidsDiffer(list) /\ (\A j \in 1..Len(list) : list[j].conid # c.conid)
              => ConidsDiffer(Append(list, c))
         /\ AddrsDiffer(list) /\ (\A j \in 1..Len(list) : list[j].addr # c.addr)
              => AddrsDiffer(Append(list, c))
<1> DEFINE new == Append(list, c)
<1>1. /\ new \in Seq(S) /\ Len(new) = Len(list) + 1
      /\ \A j \in 1..Len(list) : new[j] = list[j]
      /\ new[Len(list) + 1] = c
  OBVIOUS
<1> HIDE DEF new
<1>2. \A j \in 1..(Len(list) + 1) : j \in 1..Len(list) \/ j = Len(list) + 1
  OBVIOUS
<1>3. ConidsDiffer(list) /\ (\A j \in 1..Len(list) : list[j].conid # c.conid) => ConidsDiffer(new)
  BY <1>1, <1>2 DEF ConidsDiffer
<1>4. AddrsDiffer(list) /\ (\A j \in 1..Len(list) : list[j].addr # c.addr) => AddrsDiffer(new)
  BY <1>1, <1>2 DEF AddrsDiffer
<1> QED
  BY <1>1, <1>3, <1>4 DEF new

-----------------------------------------------------------------------------
(* The invariant of the tables, part by part: what one end keeps, what is under
   way and what the last step sent. *)
ClientOK ==
  /\ connections \in Seq(ClientConnection) /\ Len(connections) <= MaxConnections
  /\ ConidsDiffer(connections) /\ AddrsDiffer(connections)
FlowsOK ==
  /\ next_conid \in ConIds
  /\ flow \in [ConIds -> Seq(Packet)]
  /\ \A k \in ConIds : Len(flow[k]) <= SendBufferSize
ReconnectOK ==
  /\ have_socks \in BOOLEAN /\ socks_up \in BOOLEAN
  /\ reconnect_timer \in BOOLEAN /\ have_server \in BOOLEAN
  /\ WayBack
WireOK == toServer \in Seq(Packet) /\ toClient \in Seq(Connection)
ServerOK ==
  /\ server \in Seq(Connection) /\ Len(server) <= ServerConnections
  /\ ConidsDiffer(server)
EventOK ==
  event \in {NoEvent} \cup [what : {"datagram"}, at : Addresses, of : Addresses, told : BOOLEAN]

UdpInv == ClientOK /\ FlowsOK /\ ReconnectOK /\ WireOK /\ ServerOK /\ EventOK

(* It says what the properties ask for. *)
LEMMA UdpInvImplies ==
  ASSUME UdpInv
  PROVE  TablesSafe /\ WayBack
<1>1. TypeOK
  BY DEF UdpInv, ClientOK, FlowsOK, ReconnectOK, WireOK, ServerOK, EventOK, TypeOK
<1>2. TablesConsistent
  <2>1. DOMAIN connections = 1..Len(connections) /\ DOMAIN server = 1..Len(server)
    BY DEF UdpInv, ClientOK, ServerOK
  <2>2. /\ \A i, j \in 1..Len(connections) : i # j =>
             connections[i].conid # connections[j].conid /\ connections[i].addr # connections[j].addr
        /\ \A i, j \in 1..Len(server) : i # j => server[i].conid # server[j].conid
        /\ Len(connections) <= MaxConnections
    BY Zenon DEF UdpInv, ClientOK, ServerOK, ConidsDiffer, AddrsDiffer
  <2> QED
    BY <2>1, <2>2, Zenon DEF TablesConsistent
<1> QED
  BY <1>1, <1>2 DEF TablesSafe, UdpInv, ReconnectOK

(* Both ends start empty, with a SOCKS client or with the timer. *)
LEMMA UdpInvInit == Init => UdpInv
<1> SUFFICES ASSUME Init PROVE UdpInv
  OBVIOUS
<1>1. ClientOK /\ ServerOK
  BY UdpGwAssumption DEF Init, ClientOK, ServerOK, ConidsDiffer, AddrsDiffer
<1>2. FlowsOK /\ WireOK
  BY UdpGwAssumption DEF Init, FlowsOK, WireOK, ConIds
<1>3. ReconnectOK
  BY Zenon DEF Init, ReconnectOK, WayBack
<1>4. EventOK
  BY DEF Init, EventOK
<1> QED
  BY <1>1, <1>2, <1>3, <1>4 DEF UdpInv

(* connection_send, with room or without. *)
LEMMA ConnectionSendKeeps ==
  ASSUME FlowsOK, NEW c \in ClientConnection, NEW rebind \in BOOLEAN,
         next_conid' \in ConIds, ConnectionSend(c, rebind)
  PROVE  FlowsOK'
<1> DEFINE k == c.conid
           p == [conid |-> k, rebind |-> rebind, addr |-> c.addr, told |-> c.told]
<1>1. p \in Packet /\ k \in ConIds
  BY DEF Packet, ClientConnection
<1> HIDE DEF p
<1>2. CASE HasRoom(k)
  <2>1. flow' = [flow EXCEPT ![k] = Append(flow[k], p)]
    BY <1>2, Zenon DEF ConnectionSend, p
  <2>2. Append(flow[k], p) \in Seq(Packet) /\ Len(Append(flow[k], p)) <= SendBufferSize
    BY <1>1, <1>2, UdpGwAssumption DEF FlowsOK, HasRoom
  <2> QED
    BY <1>1, <2>1, <2>2 DEF FlowsOK
<1>3. CASE ~HasRoom(k)
  BY <1>3 DEF FlowsOK, ConnectionSend
<1> QED
  BY <1>2, <1>3

(* UdpGwClient_SubmitPacket for a flow that has a connection. *)
LEMMA SubmitExistingKeeps ==
  ASSUME UdpInv, NEW a \in Addresses, SubmitExisting(a) PROVE UdpInv'
<1>1. PICK i \in ByConaddr(a) :
        /\ connections' = MoveToBack(connections, i)
        /\ ConnectionSend(connections[i], FALSE)
  BY DEF SubmitExisting
<1>2. i \in 1..Len(connections) /\ connections[i] \in ClientConnection
  BY Found DEF UdpInv, ClientOK
<1>3. ClientOK'
  BY <1>1, <1>2, MoveToBackElements, MoveToBackKeeps DEF UdpInv, ClientOK
<1>4. FlowsOK'
  BY <1>1, <1>2, ConnectionSendKeeps DEF UdpInv, FlowsOK, SubmitExisting
<1>5. ReconnectOK' /\ WireOK' /\ ServerOK' /\ EventOK'
  BY DEF UdpInv, SubmitExisting, socks, wire, ReconnectOK, WayBack, WireOK, ServerOK, EventOK
<1> QED
  BY <1>3, <1>4, <1>5 DEF UdpInv

(* reuse_connection: the id of the least recently used flow goes to this one. *)
LEMMA SubmitReusingKeeps ==
  ASSUME UdpInv, NEW a \in Addresses, SubmitReusing(a) PROVE UdpInv'
<1> DEFINE lru == Head(connections)
           new == Bound(lru.conid, a)
<1>1. /\ connections' = Append(Tail(connections), new)
      /\ ConnectionSend(new, TRUE)
      /\ ByConaddr(a) = {} /\ Len(connections) = MaxConnections
      /\ UNCHANGED next_conid
  BY DEF SubmitReusing
<1>2. connections # << >> /\ connections \in Seq(ClientConnection)
  BY <1>1, UdpGwAssumption DEF UdpInv, ClientOK
<1>3. /\ Tail(connections) \in Seq(ClientConnection) /\ Len(Tail(connections)) = Len(connections) - 1
      /\ \A j \in 1..(Len(connections) - 1) : Tail(connections)[j] = connections[j + 1]
      /\ lru \in ClientConnection /\ lru = connections[1]
      /\ ConidsDiffer(Tail(connections)) /\ AddrsDiffer(Tail(connections))
  BY <1>2, TailKeeps DEF UdpInv, ClientOK
<1>4. /\ new \in ClientConnection /\ new.conid = lru.conid /\ new.addr = a
      /\ lru.conid \in ConIds
  BY <1>3 DEF ClientConnection, Bound, HasRoom
<1> HIDE DEF lru, new
<1>5. ASSUME NEW j \in 1..(Len(connections) - 1)
      PROVE  Tail(connections)[j].conid # new.conid /\ Tail(connections)[j].addr # new.addr
  <2>1. /\ j + 1 \in 1..Len(connections) /\ 1 \in 1..Len(connections) /\ j + 1 # 1
        /\ j + 1 \in DOMAIN connections
    BY <1>2, <1>5
  <2>2. connections[j + 1].conid # connections[1].conid
    BY <2>1, Zenon DEF UdpInv, ClientOK, ConidsDiffer
  <2>3. connections[j + 1].addr # a
    BY <1>1, <2>1, Found
  <2> QED
    BY <1>3, <1>4, <1>5, <2>2, <2>3
<1>6. ClientOK'
  <2>1. /\ \A j \in 1..Len(Tail(connections)) : Tail(connections)[j].conid # new.conid
        /\ \A j \in 1..Len(Tail(connections)) : Tail(connections)[j].addr # new.addr
    BY <1>3, <1>5
  <2>2. /\ connections' \in Seq(ClientConnection)
        /\ Len(connections') = Len(Tail(connections)) + 1
        /\ ConidsDiffer(connections') /\ AddrsDiffer(connections')
    BY <1>1, <1>3, <1>4, <2>1, AppendKeeps, Zenon
  <2> QED
    BY <1>1, <1>2, <1>3, <2>2, UdpGwAssumption DEF ClientOK
<1>7. FlowsOK'
  BY <1>1, <1>4, ConnectionSendKeeps DEF UdpInv, FlowsOK
<1>8. ReconnectOK' /\ WireOK' /\ ServerOK' /\ EventOK'
  BY DEF UdpInv, SubmitReusing, socks, wire, ReconnectOK, WayBack, WireOK, ServerOK, EventOK
<1> QED
  BY <1>6, <1>7, <1>8 DEF UdpInv

(* find_unused_conid ends: fewer connections than ids leave an id unused. *)
LEMMA SomeConidUnused ==
  ASSUME ClientOK, Len(connections) < MaxConnections
  PROVE  \E k \in ConIds : ByConid(connections, k) = {}
<1> SUFFICES ASSUME \A k \in ConIds : ByConid(connections, k) # {} PROVE FALSE
  OBVIOUS
<1> DEFINE places == 1..Len(connections)
           place == [k \in ConIds |-> CHOOSE i \in places : connections[i].conid = k]
<1>1. \A k \in ConIds : \E i \in places : connections[i].conid = k
  BY Found DEF ClientOK
<1>2. \A k \in ConIds : place[k] \in places /\ connections[place[k]].conid = k
  BY <1>1
<1>3. place \in [ConIds -> places]
  BY <1>2
<1>4. /\ IsFiniteSet(ConIds) /\ Cardinality(ConIds) = MaxConnections
      /\ IsFiniteSet(places) /\ Cardinality(places) = Len(connections)
  <2>1. Len(connections) \in Nat
    BY DEF ClientOK
  <2>2. IsFiniteSet(ConIds) /\ Cardinality(ConIds) = MaxConnections
    <3>1. 0 \in Int /\ MaxConnections - 1 \in Int /\ ~(0 > MaxConnections - 1)
          /\ (MaxConnections - 1) - 0 + 1 = MaxConnections
      BY UdpGwAssumption
    <3>2. IsFiniteSet(0..(MaxConnections - 1))
          /\ Cardinality(0..(MaxConnections - 1)) = (MaxConnections - 1) - 0 + 1
      BY <3>1, FS_Interval, Zenon
    <3> QED
      BY <3>1, <3>2 DEF ConIds
  <2>3. IsFiniteSet(places) /\ Cardinality(places) = Len(connections)
    BY <2>1, FS_Interval, SMTT(40)
  <2> QED
    BY <2>2, <2>3
<1> HIDE DEF places, place
<1>5. PICK x \in ConIds, y \in ConIds : x # y /\ place[x] = place[y]
  BY <1>3, <1>4, FS_PigeonHole
<1> QED
  BY <1>2, <1>5

(* It returns an id of its range that no connection has. *)
LEMMA FindUnusedConidFinds ==
  ASSUME ClientOK, FlowsOK, Len(connections) < MaxConnections
  PROVE  FindUnusedConid \in ConIds /\ ByConid(connections, FindUnusedConid) = {}
<1> DEFINE unused == {k \in ConIds : ByConid(connections, k) = {}}
           distance(k) == (k - next_conid) % MaxConnections
           distances == {distance(k) : k \in unused}
<1>1. unused # {}
  BY SomeConidUnused
<1>2. \A k \in ConIds : distance(k) \in Nat
  BY UdpGwAssumption DEF ConIds, FlowsOK
<1> HIDE DEF distance
<1>3. distances \in SUBSET Nat /\ distances # {}
  BY <1>1, <1>2
<1>4. PICK d \in distances : \A e \in distances : d <= e
  BY <1>3, LeastNumber
<1>5. PICK k \in unused : d = distance(k)
  BY <1>4
<1>6. \A j \in unused : distance(k) <= distance(j)
  BY <1>4, <1>5
<1>7. \E n \in ConIds : /\ ByConid(connections, n) = {}
                        /\ \A j \in ConIds : ByConid(connections, j) = {} =>
                             distance(n) <= distance(j)
  BY <1>5, <1>6
<1> QED
  BY <1>7, Zenon DEF FindUnusedConid, distance

(* UdpGwClient_SubmitPacket for a flow without a connection while there is room. *)
LEMMA SubmitNewKeeps ==
  ASSUME UdpInv, NEW a \in Addresses, SubmitNew(a) PROVE UdpInv'
<1> DEFINE new == Bound(FindUnusedConid, a)
<1>1. /\ ByConaddr(a) = {} /\ Len(connections) < MaxConnections
      /\ next_conid' = FindUnusedConid
      /\ \/ connections' = Append(connections, new) /\ ConnectionSend(new, TRUE)
         \/ UNCHANGED <<connections, flow>>
      /\ connections \in Seq(ClientConnection)
  BY DEF SubmitNew, UdpInv, ClientOK
<1>2. FindUnusedConid \in ConIds /\ ByConid(connections, FindUnusedConid) = {}
  BY <1>1, FindUnusedConidFinds DEF UdpInv
<1>3. /\ new \in ClientConnection /\ new.conid = FindUnusedConid /\ new.addr = a
  BY <1>2 DEF ClientConnection, Bound, HasRoom
<1> HIDE DEF new
<1>4. /\ \A j \in 1..Len(connections) : connections[j].conid # new.conid
      /\ \A j \in 1..Len(connections) : connections[j].addr # new.addr
  <2>1. DOMAIN connections = 1..Len(connections)
    BY <1>1
  <2>2. /\ \A j \in DOMAIN connections : connections[j].addr # a
        /\ \A j \in DOMAIN connections : connections[j].conid # FindUnusedConid
    <3>1. /\ {i \in DOMAIN connections : connections[i].addr = a} = {}
          /\ {i \in DOMAIN connections : connections[i].conid = FindUnusedConid} = {}
      BY <1>1, <1>2, Found, Zenon
    <3> QED
      BY <3>1, Zenon
  <2> QED
    BY <1>3, <2>1, <2>2, Zenon
<1>5. ClientOK'
  <2>1. CASE connections' = Append(connections, new)
    <3>1. /\ connections' \in Seq(ClientConnection)
          /\ Len(connections') = Len(connections) + 1
          /\ ConidsDiffer(connections') /\ AddrsDiffer(connections')
      BY <1>1, <1>3, <1>4, <2>1, AppendKeeps, Zenon DEF UdpInv, ClientOK
    <3> QED
      BY <1>1, <3>1, UdpGwAssumption DEF ClientOK
  <2>2. CASE UNCHANGED connections
    BY <2>2 DEF UdpInv, ClientOK
  <2> QED
    BY <1>1, <2>1, <2>2
<1>6. FlowsOK'
  <2>1. CASE ConnectionSend(new, TRUE)
    BY <1>1, <1>2, <1>3, <2>1, ConnectionSendKeeps DEF UdpInv
  <2>2. CASE UNCHANGED flow
    BY <1>1, <1>2, <2>2 DEF UdpInv, FlowsOK
  <2> QED
    BY <1>1, <2>1, <2>2
<1>7. ReconnectOK' /\ WireOK' /\ ServerOK' /\ EventOK'
  BY DEF UdpInv, SubmitNew, socks, wire, ReconnectOK, WayBack, WireOK, ServerOK, EventOK
<1> QED
  BY <1>5, <1>6, <1>7 DEF UdpInv

(* recv_interface_handler_send: at most the order of the list changes. *)
LEMMA ReceiveKeeps == ASSUME UdpInv, Receive PROVE UdpInv'
<1> DEFINE p == Head(toClient)
           found == {i \in ByConid(connections, p.conid) :
                       connections[i].addr.remote = p.addr.remote}
<1>1. p \in Connection /\ Tail(toClient) \in Seq(Connection)
  BY TailKeeps DEF Receive, UdpInv, WireOK
<1>2. ClientOK'
  <2>1. CASE found = {}
    BY <2>1 DEF Receive, UdpInv, ClientOK
  <2>2. CASE found # {}
    <3>1. PICK i \in found : connections' = MoveToBack(connections, i)
      BY <2>2 DEF Receive
    <3>2. i \in 1..Len(connections)
      BY <3>1, Found DEF UdpInv, ClientOK
    <3> QED
      BY <3>1, <3>2, MoveToBackElements, MoveToBackKeeps DEF UdpInv, ClientOK
  <2> QED
    BY <2>1, <2>2
<1>3. FlowsOK' /\ ReconnectOK' /\ WireOK' /\ ServerOK' /\ EventOK'
  BY <1>1 DEF UdpInv, Receive, socks, FlowsOK, ReconnectOK, WayBack, WireOK, ServerOK, EventOK
<1> QED
  BY <1>2, <1>3 DEF UdpInv

(* A packet goes on its way. *)
LEMMA SendNextKeeps == ASSUME UdpInv, NEW k \in ConIds, SendNext(k) PROVE UdpInv'
<1>1. /\ flow[k] \in Seq(Packet) /\ flow[k] # << >> /\ Len(flow[k]) <= SendBufferSize
  BY DEF SendNext, UdpInv, FlowsOK
<1>2. /\ Tail(flow[k]) \in Seq(Packet) /\ Len(Tail(flow[k])) <= SendBufferSize
      /\ Head(flow[k]) \in Packet
  BY <1>1, UdpGwAssumption
<1>3. FlowsOK'
  BY <1>2 DEF SendNext, UdpInv, FlowsOK
<1>4. WireOK'
  BY <1>2 DEF SendNext, UdpInv, WireOK
<1>5. ClientOK' /\ ReconnectOK' /\ ServerOK' /\ EventOK'
  BY DEF UdpInv, SendNext, socks, ClientOK, ReconnectOK, WayBack, ServerOK, EventOK
<1> QED
  BY <1>3, <1>4, <1>5 DEF UdpInv

-----------------------------------------------------------------------------
(* free_socks leaves the timer running and the server without the client. *)
LEMMA FreeSocksKeeps ==
  ASSUME UdpInv, have_socks, FreeSocks, event' = NoEvent PROVE UdpInv'
<1>1. ReconnectOK'
  BY Zenon DEF UdpInv, FreeSocks, ReconnectOK, WayBack
<1>2. ClientOK' /\ FlowsOK'
  BY DEF UdpInv, FreeSocks, client, ClientOK, FlowsOK
<1>3. WireOK' /\ ServerOK' /\ EventOK'
  BY UdpGwAssumption DEF FreeSocks, WireOK, ServerOK, ConidsDiffer, EventOK
<1> QED
  BY <1>1, <1>2, <1>3 DEF UdpInv

(* try_connect, EVENT_UP and the errors. *)
LEMMA SocksKeeps ==
  ASSUME UdpInv, ReconnectTimer \/ SocksUp \/ SocksError PROVE UdpInv'
<1>1. CASE ReconnectTimer
  <2>1. ReconnectOK'
    <3>1. have_socks = FALSE /\ have_server = FALSE /\ have_server' = FALSE
      BY <1>1 DEF UdpInv, ReconnectTimer, ReconnectOK, WayBack
    <3>2. CASE have_socks' = TRUE /\ socks_up' = FALSE /\ reconnect_timer' = FALSE
      BY <3>1, <3>2 DEF ReconnectOK, WayBack
    <3>3. CASE reconnect_timer' = TRUE /\ UNCHANGED <<have_socks, socks_up>>
      BY <3>1, <3>3 DEF UdpInv, ReconnectOK, WayBack
    <3> QED
      BY <1>1, <3>2, <3>3 DEF ReconnectTimer
  <2> QED
    BY <1>1, <2>1 DEF UdpInv, ReconnectTimer, client, wire, ClientOK, FlowsOK, WireOK, ServerOK, EventOK
<1>2. CASE SocksUp
  <2>1. CASE FreeSocks
    BY <1>2, <2>1, FreeSocksKeeps DEF SocksUp
  <2>2. CASE ~FreeSocks
    <3>1. ReconnectOK'
      BY <1>2, <2>2, ZenonT(30) DEF UdpInv, SocksUp, ReconnectOK, WayBack
    <3> QED
      BY <1>2, <2>2, <3>1
         DEF UdpInv, SocksUp, client, wire, ClientOK, FlowsOK, WireOK, ServerOK, EventOK
  <2> QED
    BY <2>1, <2>2
<1>3. CASE SocksError
  BY <1>3, FreeSocksKeeps DEF SocksError
<1> QED
  BY <1>1, <1>2, <1>3

-----------------------------------------------------------------------------
(* connection_init of the server: the new connection fits, evicting if need be. *)
LEMMA ServerConnectionInitKeeps ==
  ASSUME NEW list \in Seq(Connection), Len(list) <= ServerConnections, ConidsDiffer(list),
         NEW p \in Packet, \A j \in 1..Len(list) : list[j].conid # p.conid
  PROVE  /\ ServerConnectionInit(list, p) \in Seq(Connection)
         /\ Len(ServerConnectionInit(list, p)) <= ServerConnections
         /\ ConidsDiffer(ServerConnectionInit(list, p))
<1> DEFINE kept == IF Len(list) = ServerConnections THEN Tail(list) ELSE list
           new == [conid |-> p.conid, addr |-> p.addr]
<1>1. new \in Connection /\ new.conid = p.conid
  BY DEF Connection, Packet
<1>2. /\ kept \in Seq(Connection) /\ Len(kept) < ServerConnections /\ ConidsDiffer(kept)
      /\ \A j \in 1..Len(kept) : kept[j].conid # p.conid
  <2>1. CASE Len(list) = ServerConnections
    <3>1. /\ list # << >> /\ kept = Tail(list)
      BY <2>1, UdpGwAssumption
    <3>2. /\ kept \in Seq(Connection) /\ Len(kept) = Len(list) - 1 /\ ConidsDiffer(kept)
          /\ \A j \in 1..(Len(list) - 1) : kept[j] = list[j + 1]
      BY <3>1, TailKeeps
    <3> HIDE DEF kept
    <3> QED
      BY <2>1, <3>2, UdpGwAssumption
  <2>2. CASE Len(list) # ServerConnections
    BY <2>2, UdpGwAssumption
  <2> QED
    BY <2>1, <2>2
<1>3. ServerConnectionInit(list, p) = Append(kept, new)
  BY Zenon DEF ServerConnectionInit
<1> HIDE DEF kept, new
<1>4. \A j \in 1..Len(kept) : kept[j].conid # new.conid
  BY <1>1, <1>2
<1>5. /\ Append(kept, new) \in Seq(Connection) /\ Len(Append(kept, new)) = Len(kept) + 1
      /\ ConidsDiffer(Append(kept, new))
  BY <1>1, <1>2, <1>4, AppendKeeps, Zenon
<1> QED
  BY <1>2, <1>3, <1>5, UdpGwAssumption

(* client_recv_if_handler_send: the socket of the id is used, or closed, or
   another one is opened. *)
LEMMA ServerReceiveKeeps == ASSUME UdpInv, ServerReceive PROVE UdpInv'
<1> DEFINE p == Head(toServer)
           found == ByConid(server, p.conid)
           stale == {i \in found : p.rebind \/ server[i].addr.remote # p.addr.remote}
           one == CHOOSE i \in stale : TRUE
           rest == IF stale = {} THEN server ELSE RemoveAt(server, one)
<1>1. /\ p \in Packet /\ Tail(toServer) \in Seq(Packet) /\ toServer' = Tail(toServer)
      /\ server \in Seq(Connection)
  BY TailKeeps DEF ServerReceive, UdpInv, WireOK, ServerOK
<1>2. \A i \in found : i \in 1..Len(server) /\ server[i].conid = p.conid /\ server[i] \in Connection
  BY <1>1, Found
<1>4. ServerOK' /\ EventOK'
  <2>1. CASE found \ stale # {}
    <3>1. PICK i \in found :
            /\ server' = MoveToBack(server, i)
            /\ Datagram(server[i].addr, p)
      BY <2>1 DEF ServerReceive
    <3>3. ServerOK'
      BY <1>1, <1>2, <3>1, MoveToBackElements, MoveToBackKeeps DEF UdpInv, ServerOK
    <3>4. EventOK'
      BY <1>1, <1>2, <3>1 DEF EventOK, Datagram, Connection, Packet
    <3> QED
      BY <3>3, <3>4
  <2>2. CASE found \ stale = {}
    <3>1. \/ /\ server' = ServerConnectionInit(rest, p)
             /\ Datagram(p.addr, p)
          \/ /\ server' = IF Len(rest) = ServerConnections THEN Tail(rest) ELSE rest
             /\ event' = NoEvent
      BY <2>2 DEF ServerReceive
    <3>2. /\ rest \in Seq(Connection) /\ Len(rest) <= ServerConnections /\ ConidsDiffer(rest)
          /\ \A j \in 1..Len(rest) : rest[j].conid # p.conid
      <4>1. CASE stale = {}
        <5>1. rest = server /\ found = {}
          BY <2>2, <4>1
        <5>2. {i \in DOMAIN server : server[i].conid = p.conid} = {}
          BY <5>1, Found
        <5>3. \A j \in 1..Len(server) : server[j].conid # p.conid
          BY <1>1, <5>2
        <5> QED
          BY <1>1, <5>1, <5>3 DEF UdpInv, ServerOK
      <4>2. CASE stale # {}
        <5>1. one \in found /\ rest = RemoveAt(server, one)
          BY <4>2
        <5> HIDE DEF one, rest
        <5>2. one \in 1..Len(server) /\ server[one].conid = p.conid
          BY <1>2, <5>1
        <5>3. /\ rest \in Seq(Connection) /\ Len(rest) = Len(server) - 1
          BY <1>1, <5>1, <5>2, RemoveAtElements
        <5>4. /\ ConidsDiffer(rest)
              /\ \A j \in 1..(Len(server) - 1) : rest[j].conid # p.conid
          BY <1>1, <5>1, <5>2, RemoveAtKeeps DEF UdpInv, ServerOK
        <5> QED
          BY <1>1, <5>3, <5>4, UdpGwAssumption DEF UdpInv, ServerOK
      <4> QED
        BY <4>1, <4>2
    <3> HIDE DEF rest
    <3>3. EventOK'
      BY <1>1, <3>1 DEF EventOK, Datagram, Packet
    <3>4. CASE server' = ServerConnectionInit(rest, p)
      BY <1>1, <3>2, <3>3, <3>4, ServerConnectionInitKeeps DEF ServerOK
    <3>5. CASE server' = IF Len(rest) = ServerConnections THEN Tail(rest) ELSE rest
      <4>1. CASE Len(rest) = ServerConnections
        <5>1. rest # << >>
          BY <3>2, <4>1, UdpGwAssumption
        <5>2. server' = Tail(rest)
          BY <3>5, <4>1
        <5>3. /\ Tail(rest) \in Seq(Connection) /\ Len(Tail(rest)) = Len(rest) - 1
              /\ ConidsDiffer(Tail(rest))
          BY <3>2, <5>1, TailKeeps
        <5> QED
          BY <3>3, <4>1, <5>2, <5>3, UdpGwAssumption DEF ServerOK
      <4>2. CASE Len(rest) # ServerConnections
        BY <3>2, <3>3, <3>5, <4>2 DEF ServerOK
      <4> QED
        BY <4>1, <4>2
    <3> QED
      BY <3>1, <3>4, <3>5
  <2> QED
    BY <2>1, <2>2
<1>5. ClientOK' /\ FlowsOK' /\ ReconnectOK' /\ WireOK'
  BY <1>1 DEF UdpInv, ServerReceive, client, socks, ClientOK, FlowsOK, ReconnectOK, WayBack, WireOK
<1> QED
  BY <1>4, <1>5 DEF UdpInv

(* A reply, and a socket that fails. *)
LEMMA ServerKeeps == ASSUME UdpInv, ServerReply \/ ServerUdpError PROVE UdpInv'
<1>1. CASE ServerReply
  <2>1. PICK i \in DOMAIN server :
          server' = MoveToBack(server, i) /\ toClient' = Append(toClient, server[i])
    BY <1>1 DEF ServerReply
  <2>2. i \in 1..Len(server) /\ server[i] \in Connection
    BY <2>1 DEF UdpInv, ServerOK
  <2>3. ServerOK'
    BY <2>1, <2>2, MoveToBackElements, MoveToBackKeeps DEF UdpInv, ServerOK
  <2>4. WireOK'
    BY <1>1, <2>1, <2>2 DEF UdpInv, WireOK, ServerReply
  <2> QED
    BY <1>1, <2>3, <2>4
       DEF UdpInv, ServerReply, client, socks, ClientOK, FlowsOK, ReconnectOK, WayBack, EventOK
<1>2. CASE ServerUdpError
  <2>1. PICK i \in DOMAIN server : server' = RemoveAt(server, i)
    BY <1>2 DEF ServerUdpError
  <2>2. i \in 1..Len(server) /\ server \in Seq(Connection) /\ ConidsDiffer(server)
        /\ Len(server) <= ServerConnections
    BY <2>1 DEF UdpInv, ServerOK
  <2>3. /\ server' \in Seq(Connection) /\ Len(server') = Len(server) - 1
        /\ ConidsDiffer(server')
    BY <2>1, <2>2, RemoveAtElements, RemoveAtKeeps
  <2>4. ServerOK'
    BY <2>2, <2>3, UdpGwAssumption DEF ServerOK
  <2> QED
    BY <1>2, <2>4
       DEF UdpInv, ServerUdpError, client, socks, wire, ClientOK, FlowsOK, ReconnectOK, WayBack,
           WireOK, EventOK
<1> QED
  BY <1>1, <1>2

-----------------------------------------------------------------------------
(* Every step keeps the invariant. *)
LEMMA UdpStep == UdpInv /\ [Next]_vars => UdpInv'
<1> SUFFICES ASSUME UdpInv, [Next]_vars PROVE UdpInv'
  OBVIOUS
<1>1. CASE Next
  BY <1>1, SubmitExistingKeeps, SubmitReusingKeeps, SubmitNewKeeps, ReceiveKeeps, SendNextKeeps,
     SocksKeeps, ServerReceiveKeeps, ServerKeeps
     DEF Next
<1>2. CASE UNCHANGED vars
  BY <1>2 DEF vars, client, socks, wire, UdpInv, ClientOK, FlowsOK, ReconnectOK, WayBack, WireOK,
              ServerOK, EventOK
<1> QED
  BY <1>1, <1>2

(* The invariant holds throughout. *)
LEMMA UdpInvariant == Spec => []UdpInv
BY UdpInvInit, UdpStep, PTL DEF Spec

-----------------------------------------------------------------------------
(* The order of the packets of one id.  Packet q needs another socket than the
   one that x, before it, leaves behind; packet r brings it. *)
Needs(x, q) == x.conid = q.conid /\ q.told /\ ~q.rebind /\ x.addr # q.addr
Brings(r, q) == r.conid = q.conid /\ r.rebind /\ r.addr = q.addr

Chained(s) ==
  \A i, j \in 1..Len(s) : i < j /\ Needs(s[i], s[j]) =>
    \E m \in (i + 1)..(j - 1) : Brings(s[m], s[j])
Served(list, s) ==
  \A i \in 1..Len(list), j \in 1..Len(s) : Needs(list[i], s[j]) =>
    \E m \in 1..(j - 1) : Brings(s[m], s[j])

(* The packet that connection c may send next, and all of them on their way. *)
Latest(c) == [conid |-> c.conid, rebind |-> FALSE, addr |-> c.addr, told |-> c.told]
Stream(c) == toServer \o Append(flow[c.conid], Latest(c))

(* Whoever needs another socket has it brought by a packet in between. *)
WireChained == Chained(toServer) /\ Served(server, toServer)
StreamsChained ==
  \A i \in 1..Len(connections) :
    Chained(Stream(connections[i])) /\ Served(server, Stream(connections[i]))
FlowsOwned ==
  \A k \in ConIds :
    /\ flow[k] # << >> => \E i \in 1..Len(connections) : connections[i].conid = k
    /\ \A j \in 1..Len(flow[k]) : flow[k][j].conid = k
OrderInv == WireChained /\ StreamsChained /\ FlowsOwned /\ OwnSocket

(* What is left of a stream without its end ... *)
LEMMA PrefixChained ==
  ASSUME NEW s \in Seq(Packet), NEW t \in Seq(Packet), Len(t) <= Len(s),
         \A j \in 1..Len(t) : t[j] = s[j]
  PROVE  /\ Chained(s) => Chained(t)
         /\ \A list : Served(list, s) => Served(list, t)
<1>1. ASSUME NEW j \in 1..Len(t) PROVE j \in 1..Len(s) /\ t[j] = s[j]
  OBVIOUS
<1>2. ASSUME NEW i \in 1..Len(t), NEW j \in 1..Len(t), NEW m \in (i + 1)..(j - 1)
      PROVE  t[m] = s[m]
  OBVIOUS
<1>3. ASSUME NEW j \in 1..Len(t), NEW m \in 1..(j - 1) PROVE t[m] = s[m]
  OBVIOUS
<1>4. ASSUME Chained(s) PROVE Chained(t)
  BY <1>1, <1>2, <1>4 DEF Chained
<1>5. ASSUME NEW list, Served(list, s) PROVE Served(list, t)
  BY <1>1, <1>3, <1>5 DEF Served
<1> QED
  BY <1>4, <1>5

(* ... or without its beginning. *)
LEMMA SuffixChained ==
  ASSUME NEW s \in Seq(Packet), NEW t \in Seq(Packet), NEW d \in Nat, Len(s) = Len(t) + d,
         \A j \in 1..Len(t) : t[j] = s[j + d], Chained(s)
  PROVE  Chained(t)
<1> SUFFICES ASSUME NEW i \in 1..Len(t), NEW j \in 1..Len(t), i < j, Needs(t[i], t[j])
             PROVE  \E m \in (i + 1)..(j - 1) : Brings(t[m], t[j])
  BY DEF Chained
<1> DEFINE a == i + d
           b == j + d
<1>1. /\ a \in 1..Len(s) /\ b \in 1..Len(s) /\ a < b /\ t[i] = s[a] /\ t[j] = s[b]
  OBVIOUS
<1>2. \A n \in (a + 1)..(b - 1) :
        n - d \in (i + 1)..(j - 1) /\ n - d \in 1..Len(t) /\ (n - d) + d = n
  OBVIOUS
<1> HIDE DEF a, b
<1>3. PICK n \in (a + 1)..(b - 1) : Brings(s[n], s[b])
  BY <1>1 DEF Chained
<1>4. n - d \in (i + 1)..(j - 1) /\ t[n - d] = s[n]
  BY <1>2
<1> QED
  BY <1>1, <1>3, <1>4

(* A packet at the end: one with REBIND, one that promises nothing, one like the
   last, or one for which the last opens the socket. *)
LEMMA AppendChained ==
  ASSUME NEW s \in Seq(Packet), NEW q \in Packet, Chained(s),
         \/ q.rebind \/ ~q.told
         \/ s # << >> /\ (s[Len(s)] = q \/ Brings(s[Len(s)], q))
  PROVE  /\ Chained(Append(s, q))
         /\ \A list : Served(list, s) => Served(list, Append(s, q))
<1> DEFINE t == Append(s, q)
           n == Len(s)
<1>1. /\ Len(t) = n + 1 /\ t[n + 1] = q /\ n \in Nat
      /\ \A j \in 1..n : t[j] = s[j]
  OBVIOUS
<1>2. s # << >> => n \in 1..n
  OBVIOUS
<1> HIDE DEF t, n
<1>3. ASSUME NEW i \in 1..n, Needs(s[i], q)
      PROVE  \E m \in (i + 1)..n : Brings(s[m], q)
  <2>1. s # << >> /\ (s[n] = q \/ Brings(s[n], q)) /\ n \in 1..n
    BY <1>2, <1>3 DEF Needs, n
  <2>2. i # n
    BY <1>3, <2>1 DEF Needs, Brings
  <2>3. i < n
    BY <1>1, <2>2
  <2>4. CASE Brings(s[n], q)
    BY <1>1, <2>3, <2>4
  <2>5. CASE s[n] = q
    <3>1. \E m \in (i + 1)..(n - 1) : Brings(s[m], q)
      BY <1>3, <2>1, <2>3, <2>5 DEF Chained, n
    <3> QED
      BY <1>1, <3>1
  <2> QED
    BY <2>1, <2>4, <2>5
<1>4. Chained(t)
  <2> SUFFICES ASSUME NEW i \in 1..Len(t), NEW j \in 1..Len(t), i < j, Needs(t[i], t[j])
               PROVE  \E m \in (i + 1)..(j - 1) : Brings(t[m], t[j])
    BY DEF Chained
  <2>1. i \in 1..n /\ t[i] = s[i]
    BY <1>1
  <2>2. CASE j = n + 1
    <3>1. PICK m \in (i + 1)..n : Brings(s[m], q)
      BY <1>1, <1>3, <2>1, <2>2
    <3> QED
      BY <1>1, <2>2, <3>1
  <2>3. CASE j \in 1..n
    <3>1. PICK m \in (i + 1)..(j - 1) : Brings(s[m], s[j])
      BY <1>1, <2>1, <2>3 DEF Chained, n
    <3> QED
      BY <1>1, <2>3, <3>1
  <2> QED
    BY <1>1, <2>2, <2>3
<1>5. ASSUME NEW list, Served(list, s) PROVE Served(list, t)
  <2> SUFFICES ASSUME NEW i \in 1..Len(list), NEW j \in 1..Len(t), Needs(list[i], t[j])
               PROVE  \E m \in 1..(j - 1) : Brings(t[m], t[j])
    BY DEF Served
  <2>1. CASE j = n + 1
    <3>1. s # << >> /\ (s[n] = q \/ Brings(s[n], q)) /\ n \in 1..n
      BY <1>1, <1>2, <2>1 DEF Needs, n
    <3>2. CASE Brings(s[n], q)
      BY <1>1, <2>1, <3>1, <3>2
    <3>3. CASE s[n] = q
      <4>1. PICK m \in 1..(n - 1) : Brings(s[m], q)
        BY <1>1, <1>5, <2>1, <3>1, <3>3 DEF Served, n
      <4> QED
        BY <1>1, <2>1, <4>1
    <3> QED
      BY <3>1, <3>2, <3>3
  <2>2. CASE j \in 1..n
    <3>1. PICK m \in 1..(j - 1) : Brings(s[m], s[j])
      BY <1>1, <1>5, <2>2 DEF Served, n
    <3> QED
      BY <1>1, <2>2, <3>1
  <2> QED
    BY <1>1, <2>1, <2>2
<1> QED
  BY <1>4, <1>5 DEF t

(* A packet of another id in between (t is s with h after its first n, u the
   beginning of t up to h). *)
LEMMA InsertChained ==
  ASSUME NEW s \in Seq(Packet), NEW t \in Seq(Packet), NEW u \in Seq(Packet),
         NEW n \in Nat, n <= Len(s), Len(t) = Len(s) + 1, Len(u) = n + 1,
         \A j \in 1..n : t[j] = s[j], \A j \in (n + 2)..Len(t) : t[j] = s[j - 1],
         \A j \in 1..(n + 1) : u[j] = t[j],
         \A j \in (n + 2)..Len(t) : t[j].conid # t[n + 1].conid,
         Chained(s), Chained(u)
  PROVE  /\ Chained(t)
         /\ \A list : Served(list, s) /\ Served(list, u) => Served(list, t)
<1>1. ASSUME NEW j \in (n + 2)..Len(t)
      PROVE  j - 1 \in 1..Len(s) /\ j - 1 \in (n + 1)..Len(s) /\ t[j] = s[j - 1]
  BY <1>1
<1>2. Chained(t)
  <2> SUFFICES ASSUME NEW i \in 1..Len(t), NEW j \in 1..Len(t), i < j, Needs(t[i], t[j])
               PROVE  \E m \in (i + 1)..(j - 1) : Brings(t[m], t[j])
    BY DEF Chained
  <2>1. CASE j <= n + 1
    <3>1. i \in 1..Len(u) /\ j \in 1..Len(u) /\ u[i] = t[i] /\ u[j] = t[j]
      BY <2>1
    <3>2. PICK m \in (i + 1)..(j - 1) : Brings(u[m], u[j])
      BY <3>1 DEF Chained
    <3>3. u[m] = t[m]
      BY <2>1, <3>2
    <3> QED
      BY <3>1, <3>2, <3>3
  <2>2. CASE j > n + 1
    <3> DEFINE b == j - 1
    <3>1. b \in 1..Len(s) /\ b \in (n + 1)..Len(s) /\ t[j] = s[b] /\ j = b + 1
      BY <1>1, <2>2
    <3>2. i # n + 1
      BY <2>2 DEF Needs
    <3>3. PICK a \in 1..Len(s) :
            /\ t[i] = s[a] /\ a < b
            /\ (a = i /\ i <= n) \/ (i = a + 1 /\ a > n)
      <4>1. CASE i <= n
        <5>1. i \in 1..Len(s) /\ t[i] = s[i] /\ i < b
          BY <4>1, <3>1
        <5> QED
          BY <4>1, <5>1
      <4>2. CASE i > n + 1
        <5> DEFINE a == i - 1
        <5>1. a \in 1..Len(s) /\ t[i] = s[a] /\ a < b /\ i = a + 1 /\ a > n
          BY <4>2, <1>1
        <5> HIDE DEF a
        <5> QED
          BY <5>1
      <4> QED
        BY <3>2, <4>1, <4>2
    <3> HIDE DEF b
    <3>4. PICK m \in (a + 1)..(b - 1) : Brings(s[m], s[b])
      BY <3>1, <3>3 DEF Chained
    <3>5. CASE m <= n
      <4>1. t[m] = s[m] /\ m \in (i + 1)..(j - 1)
        BY <3>1, <3>3, <3>4, <3>5
      <4> QED
        BY <3>1, <3>4, <4>1
    <3>6. CASE m > n
      <4>1. m \in Int /\ b \in Int /\ a \in Int /\ m > a /\ m < b
        BY <3>1, <3>3, <3>4
      <4>2. i <= m
        BY <3>3, <3>6, <4>1
      <4>3. m + 1 \in (n + 2)..Len(t) /\ (m + 1) - 1 = m /\ m + 1 \in (i + 1)..(j - 1)
        BY <3>1, <3>6, <4>1, <4>2
      <4>4. t[m + 1] = s[m]
        BY <1>1, <4>3
      <4> QED
        BY <3>1, <3>4, <4>3, <4>4
    <3> QED
      BY <3>4, <3>5, <3>6
  <2> QED
    BY <2>1, <2>2
<1>3. ASSUME NEW list, Served(list, s), Served(list, u) PROVE Served(list, t)
  <2> SUFFICES ASSUME NEW i \in 1..Len(list), NEW j \in 1..Len(t), Needs(list[i], t[j])
               PROVE  \E m \in 1..(j - 1) : Brings(t[m], t[j])
    BY DEF Served
  <2>1. CASE j <= n + 1
    <3>1. j \in 1..Len(u) /\ u[j] = t[j]
      BY <2>1
    <3>2. PICK m \in 1..(j - 1) : Brings(u[m], u[j])
      BY <1>3, <3>1 DEF Served
    <3>3. u[m] = t[m]
      BY <2>1, <3>2
    <3> QED
      BY <3>1, <3>2, <3>3
  <2>2. CASE j > n + 1
    <3> DEFINE b == j - 1
    <3>1. b \in 1..Len(s) /\ b \in (n + 1)..Len(s) /\ t[j] = s[b] /\ j = b + 1
      BY <1>1, <2>2
    <3> HIDE DEF b
    <3>2. PICK m \in 1..(b - 1) : Brings(s[m], s[b])
      BY <1>3, <3>1 DEF Served
    <3>3. CASE m <= n
      <4>1. t[m] = s[m] /\ m \in 1..(j - 1)
        BY <3>1, <3>2, <3>3
      <4> QED
        BY <3>1, <3>2, <4>1
    <3>4. CASE m > n
      <4>1. m + 1 \in (n + 2)..Len(t) /\ (m + 1) - 1 = m /\ m + 1 \in 1..(j - 1)
        BY <3>1, <3>2, <3>4
      <4>2. t[m + 1] = s[m]
        BY <1>1, <4>1
      <4> QED
        BY <3>1, <3>2, <4>1, <4>2
    <3> QED
      BY <3>2, <3>3, <3>4
  <2> QED
    BY <2>1, <2>2
<1> QED
  BY <1>2, <1>3

(* The server takes the first packet: what it has then is the socket of that
   packet, or was there before and is not what the packet replaces. *)
LEMMA TakenServed ==
  ASSUME NEW s \in Seq(Packet), NEW t \in Seq(Packet), Len(s) = Len(t) + 1,
         \A j \in 1..Len(t) : t[j] = s[j + 1], Chained(s),
         NEW old, NEW new, Served(old, s),
         \A i \in 1..Len(new) :
           \/ new[i].conid = s[1].conid /\ new[i].addr = s[1].addr
           \/ \E k \in 1..Len(old) : new[i] = old[k] /\ (old[k].conid # s[1].conid \/ ~s[1].rebind)
  PROVE  Served(new, t)
<1> SUFFICES ASSUME NEW i \in 1..Len(new), NEW j \in 1..Len(t), Needs(new[i], t[j])
             PROVE  \E m \in 1..(j - 1) : Brings(t[m], t[j])
  BY DEF Served
<1> DEFINE b == j + 1
<1>1. b \in 1..Len(s) /\ 1 \in 1..Len(s) /\ 1 < b /\ t[j] = s[b] /\ b = j + 1
  OBVIOUS
<1>2. ASSUME NEW m \in 2..(b - 1) PROVE m - 1 \in 1..(j - 1) /\ t[m - 1] = s[m]
  <2>1. m - 1 \in 1..(j - 1) /\ m - 1 \in 1..Len(t) /\ (m - 1) + 1 = m
    BY <1>2
  <2> HIDE DEF b
  <2> QED
    BY <2>1
<1> HIDE DEF b
<1>3. \E m \in 2..(b - 1) : Brings(s[m], s[b])
  <2>1. CASE new[i].conid = s[1].conid /\ new[i].addr = s[1].addr
    <3>1. Needs(s[1], s[b])
      BY <1>1, <2>1 DEF Needs
    <3>2. \E m \in (1 + 1)..(b - 1) : Brings(s[m], s[b])
      BY <1>1, <3>1 DEF Chained
    <3> QED
      BY <3>2
  <2>2. ASSUME NEW k \in 1..Len(old), new[i] = old[k], old[k].conid # s[1].conid \/ ~s[1].rebind
        PROVE  \E m \in 2..(b - 1) : Brings(s[m], s[b])
    <3>1. Needs(old[k], s[b])
      BY <1>1, <2>2
    <3>2. PICK m \in 1..(b - 1) : Brings(s[m], s[b])
      BY <1>1, <2>2, <3>1 DEF Served
    <3>3. m # 1
      BY <2>2, <3>1, <3>2 DEF Needs, Brings
    <3> QED
      BY <1>1, <3>2, <3>3
  <2> QED
    BY <2>1, <2>2
<1> QED
  BY <1>1, <1>2, <1>3

(* A list with nothing new on it. *)
LEMMA FewerServed ==
  ASSUME NEW s, NEW old, NEW new, Served(old, s),
         \A i \in 1..Len(new) : \E k \in 1..Len(old) : new[i] = old[k]
  PROVE  Served(new, s)
BY DEF Served

(* The stream of a connection, by its parts. *)
LEMMA StreamElements ==
  ASSUME NEW w \in Seq(Packet), NEW f \in Seq(Packet), NEW q \in Packet
  PROVE  LET s == w \o Append(f, q) IN
         /\ s \in Seq(Packet) /\ Len(s) = Len(w) + Len(f) + 1
         /\ \A j \in 1..Len(w) : s[j] = w[j]
         /\ \A j \in 1..Len(f) : s[Len(w) + j] = f[j]
         /\ s[Len(s)] = q
<1> DEFINE g == Append(f, q)
<1>1. g \in Seq(Packet) /\ Len(g) = Len(f) + 1 /\ g[Len(f) + 1] = q
      /\ \A j \in 1..Len(f) : g[j] = f[j]
  OBVIOUS
<1> HIDE DEF g
<1>2. /\ w \o g \in Seq(Packet) /\ Len(w \o g) = Len(w) + Len(g)
      /\ \A j \in 1..(Len(w) + Len(g)) : (w \o g)[j] = IF j <= Len(w) THEN w[j] ELSE g[j - Len(w)]
  BY <1>1, ConcatProperties, Zenon
<1>3. /\ w \o g \in Seq(Packet) /\ Len(w \o g) = Len(w) + Len(f) + 1
      /\ \A j \in 1..Len(w) : (w \o g)[j] = w[j]
      /\ \A j \in 1..Len(f) : (w \o g)[Len(w) + j] = f[j]
      /\ (w \o g)[Len(w \o g)] = q
  BY <1>1, <1>2
<1> QED
  BY <1>3 DEF g

(* The stream without its first packet. *)
LEMMA TakenStream ==
  ASSUME NEW w \in Seq(Packet), w # << >>, NEW f \in Seq(Packet), NEW q \in Packet
  PROVE  LET s == w \o Append(f, q)
             t == Tail(w) \o Append(f, q) IN
         /\ s \in Seq(Packet) /\ t \in Seq(Packet) /\ Len(s) = Len(t) + 1
         /\ \A j \in 1..Len(t) : t[j] = s[j + 1]
         /\ s[1] = Head(w)
<1> DEFINE v == Tail(w)
           s == w \o Append(f, q)
           t == v \o Append(f, q)
           a == Len(v)
           b == Len(f)
<1>1. /\ v \in Seq(Packet) /\ Len(w) = a + 1 /\ a \in Nat /\ b \in Nat
      /\ \A j \in 1..a : v[j] = w[j + 1]
      /\ Head(w) = w[1]
  OBVIOUS
<1>2. /\ s \in Seq(Packet) /\ Len(s) = Len(w) + Len(f) + 1
      /\ \A j \in 1..Len(w) : s[j] = w[j]
      /\ \A j \in 1..Len(f) : s[Len(w) + j] = f[j]
      /\ s[Len(s)] = q
  BY StreamElements
<1> HIDE DEF v, s
<1>3. /\ t \in Seq(Packet) /\ Len(t) = Len(v) + Len(f) + 1
      /\ \A j \in 1..Len(v) : t[j] = v[j]
      /\ \A j \in 1..Len(f) : t[Len(v) + j] = f[j]
      /\ t[Len(t)] = q
  BY <1>1, StreamElements
<1> HIDE DEF t
<1>4. /\ Len(s) = (a + 1) + b + 1 /\ Len(t) = a + b + 1
      /\ \A j \in 1..(a + 1) : s[j] = w[j]
      /\ \A j \in 1..b : s[(a + 1) + j] = f[j]
      /\ \A j \in 1..a : t[j] = v[j]
      /\ \A j \in 1..b : t[a + j] = f[j]
      /\ s[(a + 1) + b + 1] = q /\ t[a + b + 1] = q
  BY <1>1, <1>2, <1>3
<1> HIDE DEF a, b
<1>5. ASSUME NEW j \in 1..Len(t) PROVE t[j] = s[j + 1]
  <2>1. CASE j \in 1..a
    <3>1. j + 1 \in 1..(a + 1)
      BY <1>1, <2>1
    <3> QED
      BY <1>1, <1>4, <2>1, <3>1
  <2>2. CASE j \in (a + 1)..(a + b)
    <3>1. PICK m \in 1..b : j = a + m
      <4>1. j - a \in 1..b /\ j = a + (j - a)
        BY <1>1, <2>2
      <4> QED
        BY <4>1
    <3>2. j + 1 = (a + 1) + m
      BY <1>1, <3>1
    <3> QED
      BY <1>4, <3>1, <3>2
  <2>3. CASE j = a + b + 1
    <3>1. j + 1 = (a + 1) + b + 1
      BY <1>1, <2>3
    <3> QED
      BY <1>4, <2>3, <3>1
  <2> QED
    BY <1>1, <1>4, <2>1, <2>2, <2>3
<1>6. Len(s) = Len(t) + 1 /\ s[1] = Head(w)
  BY <1>1, <1>4
<1>7. /\ s \in Seq(Packet) /\ t \in Seq(Packet) /\ Len(s) = Len(t) + 1
      /\ \A j \in 1..Len(t) : t[j] = s[j + 1]
      /\ s[1] = Head(w)
  BY <1>2, <1>3, <1>5, <1>6
<1> QED
  BY <1>7 DEF s, t, v

(* What a packet at the end adds to any of them ... *)
LEMMA AppendElements ==
  ASSUME NEW S, NEW s \in Seq(S), NEW q \in S
  PROVE  /\ Append(s, q) \in Seq(S) /\ Len(Append(s, q)) = Len(s) + 1 /\ Append(s, q) # << >>
         /\ Append(s, q)[Len(Append(s, q))] = q
         /\ \A j \in 1..Len(s) : Append(s, q)[j] = s[j]
OBVIOUS

(* ... and that the two ways to put one there agree. *)
LEMMA StreamIsAppend ==
  ASSUME NEW w \in Seq(Packet), NEW f \in Seq(Packet), NEW q \in Packet
  PROVE  w \o f \in Seq(Packet) /\ w \o Append(f, q) = Append(w \o f, q)
<1> DEFINE s == w \o Append(f, q)
           t == Append(w \o f, q)
<1>1. /\ s \in Seq(Packet) /\ Len(s) = Len(w) + Len(f) + 1
      /\ \A j \in 1..Len(w) : s[j] = w[j]
      /\ \A j \in 1..Len(f) : s[Len(w) + j] = f[j]
      /\ s[Len(s)] = q
  BY StreamElements
<1>2. /\ w \o f \in Seq(Packet) /\ Len(w \o f) = Len(w) + Len(f)
      /\ \A j \in 1..(Len(w) + Len(f)) : (w \o f)[j] = IF j <= Len(w) THEN w[j] ELSE f[j - Len(w)]
  BY ConcatProperties, Zenon
<1>3. /\ t \in Seq(Packet) /\ Len(t) = Len(w) + Len(f) + 1 /\ t[Len(w) + Len(f) + 1] = q
      /\ \A j \in 1..(Len(w) + Len(f)) : t[j] = IF j <= Len(w) THEN w[j] ELSE f[j - Len(w)]
  BY <1>2
<1> DEFINE n == Len(w)
           l == Len(f)
<1> HIDE DEF s, t
<1>4. ASSUME NEW j \in 1..Len(s) PROVE s[j] = t[j]
  <2>0. n \in Nat /\ l \in Nat /\ j \in 1..(n + l + 1)
    BY <1>1, <1>4
  <2>1. CASE j <= Len(w)
    <3>1. j \in 1..Len(w) /\ j \in 1..(Len(w) + Len(f)) /\ j <= Len(w)
      BY <2>0, <2>1
    <3> QED
      BY <1>1, <1>3, <3>1
  <2>2. CASE j = Len(s)
    BY <1>1, <1>3, <2>2
  <2>3. CASE j > Len(w) /\ j < Len(s)
    <3>1. j - Len(w) \in 1..Len(f) /\ Len(w) + (j - Len(w)) = j
      BY <1>1, <2>3
    <3>2. s[j] = f[j - Len(w)]
      BY <1>1, <3>1
    <3>3. j \in 1..(Len(w) + Len(f)) /\ ~(j <= Len(w))
      BY <1>1, <2>3
    <3> QED
      BY <1>3, <3>2, <3>3
  <2> HIDE DEF n, l
  <2>4. j <= n \/ j = n + l + 1 \/ (j > n /\ j < n + l + 1)
    BY <2>0
  <2> QED
    BY <1>1, <2>1, <2>2, <2>3, <2>4 DEF n, l
<1>5. s = t
  BY <1>1, <1>3, <1>4, SeqEqual
<1> QED
  BY <1>2, <1>5 DEF s, t

(* What MoveToBack and its relatives leave on a list was there before. *)
LEMMA MovedElements ==
  ASSUME NEW S, NEW list \in Seq(S), NEW i \in 1..Len(list)
  PROVE  /\ \A j \in 1..Len(list) : \E n \in 1..Len(list) : MoveToBack(list, i)[j] = list[n]
         /\ \A n \in 1..Len(list) : \E j \in 1..Len(list) : MoveToBack(list, i)[j] = list[n]
<1> DEFINE new == MoveToBack(list, i)
<1>1. /\ \A j \in 1..(Len(list) - 1) : new[j] = IF j < i THEN list[j] ELSE list[j + 1]
      /\ new[Len(list)] = list[i]
  BY MoveToBackElements
<1> HIDE DEF new
<1>2. ASSUME NEW j \in 1..Len(list) PROVE \E n \in 1..Len(list) : new[j] = list[n]
  <2>1. CASE j = Len(list)
    BY <1>1, <2>1
  <2>2. CASE j # Len(list)
    <3>1. j \in 1..(Len(list) - 1) /\ j + 1 \in 1..Len(list)
      BY <2>2
    <3> QED
      BY <1>1, <3>1
  <2> QED
    BY <2>1, <2>2
<1>3. ASSUME NEW n \in 1..Len(list) PROVE \E j \in 1..Len(list) : new[j] = list[n]
  <2>1. CASE n = i
    BY <1>1, <2>1
  <2>2. CASE n < i
    BY <1>1, <2>2
  <2>3. CASE n > i
    <3>1. n - 1 \in 1..(Len(list) - 1) /\ ~(n - 1 < i) /\ (n - 1) + 1 = n /\ n - 1 \in 1..Len(list)
      BY <2>3
    <3>2. new[n - 1] = list[n]
      BY <1>1, <3>1
    <3> QED
      BY <3>1, <3>2
  <2> QED
    BY <2>1, <2>2, <2>3
<1> QED
  BY <1>2, <1>3 DEF new

-----------------------------------------------------------------------------
(* Connection c sends: the owner it was, with any packet, or a new owner, with
   one that has REBIND. *)
LEMMA SendKeepsOrder ==
  ASSUME UdpInv, UdpInv', OrderInv, NEW c \in ClientConnection, NEW rebind \in BOOLEAN,
         ConnectionSend(c, rebind), UNCHANGED <<toServer, server>>, event' = NoEvent,
         ~rebind => \E i \in 1..Len(connections) : connections[i] = c,
         rebind => c.told = HasRoom(c.conid),
         \A i \in 1..Len(connections') :
           \/ connections'[i] = c
           \/ \E j \in 1..Len(connections) :
                connections'[i] = connections[j] /\ connections[j].conid # c.conid,
         \E i \in 1..Len(connections') : connections'[i] = c,
         \A j \in 1..Len(connections) : connections[j].conid # c.conid =>
           \E i \in 1..Len(connections') : connections'[i] = connections[j]
  PROVE  OrderInv'
<1> DEFINE k == c.conid
           P == toServer \o flow[k]
           V == Latest(c)
           p == [conid |-> k, rebind |-> rebind, addr |-> c.addr, told |-> c.told]
<1>1. /\ k \in ConIds /\ p \in Packet /\ V \in Packet
      /\ toServer \in Seq(Packet) /\ flow \in [ConIds -> Seq(Packet)]
      /\ flow' \in [ConIds -> Seq(Packet)] /\ flow[k] \in Seq(Packet)
      /\ connections \in Seq(ClientConnection)
  BY DEF Packet, ClientConnection, Latest, UdpInv, WireOK, FlowsOK, ClientOK
<1>2. /\ V.conid = k /\ V.addr = c.addr /\ V.told = c.told /\ ~V.rebind
      /\ p.conid = k /\ p.addr = c.addr /\ p.told = c.told /\ p.rebind = rebind
      /\ ~rebind => p = V
  BY DEF Latest
<1>3. P \in Seq(Packet) /\ \A q \in Packet : toServer \o Append(flow[k], q) = Append(P, q)
  BY <1>1, StreamIsAppend
<1>4. Chained(P) /\ Served(server, P)
  <2>1. CASE flow[k] = << >>
    BY <1>1, <2>1, ConcatEmptySeq DEF OrderInv, WireChained
  <2>2. CASE flow[k] # << >>
    <3>1. PICK i \in 1..Len(connections) : connections[i].conid = k
      BY <1>1, <2>2 DEF OrderInv, FlowsOwned
    <3>2. Latest(connections[i]) \in Packet
      <4>1. connections[i] \in ClientConnection
        BY <1>1, <3>1, ElementOfSeq
      <4> QED
        BY <4>1 DEF Latest, Packet, ClientConnection
    <3>3. /\ Stream(connections[i]) = Append(P, Latest(connections[i]))
          /\ Chained(Stream(connections[i])) /\ Served(server, Stream(connections[i]))
      BY <1>3, <3>1, <3>2 DEF Stream, OrderInv, StreamsChained
    <3> HIDE DEF P
    <3> DEFINE L == Append(P, Latest(connections[i]))
    <3>4. L \in Seq(Packet) /\ Len(P) <= Len(L) /\ \A j \in 1..Len(P) : P[j] = L[j]
      BY <1>3, <3>2
    <3>5. Chained(L) /\ Served(server, L)
      BY <3>3
    <3> HIDE DEF L
    <3> QED
      BY <1>3, <3>4, <3>5, PrefixChained
  <2> QED
    BY <2>1, <2>2
<1> HIDE DEF p, V, P
<1>5. /\ flow'[k] = IF HasRoom(k) THEN Append(flow[k], p) ELSE flow[k]
      /\ \A n \in ConIds : n # k => flow'[n] = flow[n]
  BY <1>1 DEF ConnectionSend, p
<1>6. ~rebind => Chained(Append(P, V)) /\ Served(server, Append(P, V))
  BY <1>1, <1>3 DEF OrderInv, StreamsChained, Stream, V
<1>7. Chained(Stream(c)') /\ Served(server, Stream(c)')
  <2>1. CASE HasRoom(k)
    <3>1. Append(P, p) \in Seq(Packet) /\ Append(P, p)[Len(Append(P, p))] = p /\ Append(P, p) # << >>
      <4>1. P \in Seq(Packet) /\ p \in Packet
        BY <1>1, <1>3
      <4> QED
        BY <4>1
    <3>2. Chained(Append(P, p)) /\ Served(server, Append(P, p))
      <4>1. CASE rebind
        BY <1>1, <1>2, <1>3, <1>4, <4>1, AppendChained
      <4>2. CASE ~rebind
        BY <1>2, <1>6, <4>2
      <4> QED
        BY <4>1, <4>2
    <3>3. p = V \/ Brings(p, V)
      BY <1>2 DEF Brings
    <3>4. Chained(Append(Append(P, p), V)) /\ Served(server, Append(Append(P, p), V))
      BY <1>1, <3>1, <3>2, <3>3, AppendChained
    <3>5. Stream(c)' = toServer \o Append(Append(flow[k], p), V)
      BY <1>5, <2>1 DEF Stream, V, Latest
    <3>6. toServer \o Append(Append(flow[k], p), V) = Append(toServer \o Append(flow[k], p), V)
      <4>1. Append(flow[k], p) \in Seq(Packet)
        BY <1>1, AppendElements
      <4> QED
        BY <1>1, <4>1, StreamIsAppend, Zenon
    <3> QED
      BY <1>1, <1>3, <3>4, <3>5, <3>6
  <2>2. CASE ~HasRoom(k)
    <3>1. Stream(c)' = Append(P, V)
      BY <1>1, <1>3, <1>5, <2>2 DEF Stream, V, Latest
    <3>2. CASE rebind
      <4>1. ~V.told
        BY <1>2, <2>2, <3>2
      <4> QED
        BY <1>1, <1>3, <1>4, <3>1, <4>1, AppendChained
    <3>3. CASE ~rebind
      BY <1>6, <3>1, <3>3
    <3> QED
      BY <3>2, <3>3
  <2> QED
    BY <2>1, <2>2
<1>8. StreamsChained'
  <2> SUFFICES ASSUME NEW i \in 1..Len(connections')
               PROVE  Chained(Stream(connections[i])') /\ Served(server, Stream(connections[i])')
    BY DEF StreamsChained
  <2>1. CASE connections'[i] = c
    BY <1>7, <2>1 DEF Stream, Latest
  <2>2. ASSUME NEW j \in 1..Len(connections), connections'[i] = connections[j],
               connections[j].conid # k
        PROVE  Chained(Stream(connections[i])') /\ Served(server, Stream(connections[i])')
    <3>1. connections[j].conid \in ConIds
      <4>1. connections[j] \in ClientConnection
        BY <1>1, ElementOfSeq
      <4> QED
        BY <4>1 DEF ClientConnection
    <3>2. Stream(connections[i])' = Stream(connections[j])
      BY <1>5, <2>2, <3>1 DEF Stream, Latest
    <3> QED
      BY <3>2 DEF OrderInv, StreamsChained
  <2> QED
    BY <2>1, <2>2
<1>9. FlowsOwned'
  <2> SUFFICES ASSUME NEW n \in ConIds
               PROVE  /\ flow'[n] # << >> => \E i \in 1..Len(connections') : connections'[i].conid = n
                      /\ \A j \in 1..Len(flow'[n]) : flow'[n][j].conid = n
    BY DEF FlowsOwned
  <2>1. CASE n # k
    <3>1. flow'[n] = flow[n] /\ \A j \in 1..Len(flow[n]) : flow[n][j].conid = n
      BY <1>5, <2>1 DEF OrderInv, FlowsOwned
    <3>2. ASSUME flow[n] # << >>
          PROVE  \E i \in 1..Len(connections') : connections'[i].conid = n
      <4>1. PICK j \in 1..Len(connections) : connections[j].conid = n
        BY <3>2 DEF OrderInv, FlowsOwned
      <4>2. PICK i \in 1..Len(connections') : connections'[i] = connections[j]
        BY <2>1, <4>1
      <4> QED
        BY <4>1, <4>2
    <3> QED
      BY <3>1, <3>2
  <2>2. CASE n = k
    <3>1. \A j \in 1..Len(Append(flow[k], p)) : Append(flow[k], p)[j].conid = k
      BY <1>1, <1>2 DEF OrderInv, FlowsOwned
    <3>2. \A j \in 1..Len(flow[k]) : flow[k][j].conid = k
      BY <1>1 DEF OrderInv, FlowsOwned
    <3> QED
      BY <1>5, <2>2, <3>1, <3>2
  <2> QED
    BY <2>1, <2>2
<1>10. WireChained' /\ OwnSocket'
  BY DEF OrderInv, WireChained, OwnSocket, NoEvent
<1> QED
  BY <1>8, <1>9, <1>10 DEF OrderInv

(* UdpGwClient_SubmitPacket for a flow that has a connection ... *)
LEMMA SubmitExistingOrder ==
  ASSUME UdpInv, UdpInv', OrderInv, NEW a \in Addresses, SubmitExisting(a) PROVE OrderInv'
<1>1. PICK i \in ByConaddr(a) :
        /\ connections' = MoveToBack(connections, i)
        /\ ConnectionSend(connections[i], FALSE)
  BY DEF SubmitExisting
<1> DEFINE c == connections[i]
<1>2. connections \in Seq(ClientConnection) /\ i \in 1..Len(connections)
  BY Found DEF UdpInv, ClientOK
<1>3. c \in ClientConnection
  BY <1>2, ElementOfSeq
<1>4. /\ Len(connections') = Len(connections)
      /\ \A j \in 1..Len(connections) : \E n \in 1..Len(connections) : connections'[j] = connections[n]
      /\ \A n \in 1..Len(connections) : \E j \in 1..Len(connections) : connections'[j] = connections[n]
  BY <1>1, <1>2, MoveToBackElements, MovedElements
<1>5. \A n \in 1..Len(connections) : n = i \/ connections[n].conid # c.conid
  BY <1>2 DEF UdpInv, ClientOK, ConidsDiffer
<1> HIDE DEF c
<1>6. /\ \A j \in 1..Len(connections') :
           \/ connections'[j] = c
           \/ \E n \in 1..Len(connections) :
                connections'[j] = connections[n] /\ connections[n].conid # c.conid
      /\ \E j \in 1..Len(connections') : connections'[j] = c
      /\ \A n \in 1..Len(connections) : connections[n].conid # c.conid =>
           \E j \in 1..Len(connections') : connections'[j] = connections[n]
  BY <1>2, <1>4, <1>5 DEF c
<1>7. /\ ConnectionSend(c, FALSE) /\ \E n \in 1..Len(connections) : connections[n] = c
      /\ UNCHANGED <<toServer, server>> /\ event' = NoEvent
  BY <1>1, <1>2 DEF SubmitExisting, wire, c
<1> QED
  BY <1>3, <1>6, <1>7, SendKeepsOrder

(* ... for one that takes over the oldest one's ... *)
LEMMA SubmitReusingOrder ==
  ASSUME UdpInv, UdpInv', OrderInv, NEW a \in Addresses, SubmitReusing(a) PROVE OrderInv'
<1> DEFINE c == Bound(Head(connections).conid, a)
           rest == Tail(connections)
<1>1. /\ connections' = Append(rest, c) /\ ConnectionSend(c, TRUE)
      /\ UNCHANGED <<toServer, server>> /\ event' = NoEvent
      /\ connections \in Seq(ClientConnection) /\ connections # << >>
  BY UdpGwAssumption DEF SubmitReusing, wire, UdpInv, ClientOK
<1>2. /\ rest \in Seq(ClientConnection) /\ Len(rest) = Len(connections) - 1
      /\ \A j \in 1..(Len(connections) - 1) : rest[j] = connections[j + 1]
      /\ Head(connections) \in ClientConnection /\ Head(connections) = connections[1]
  BY <1>1, TailKeeps
<1>3. /\ c \in ClientConnection /\ c.conid = connections[1].conid
      /\ c.told = HasRoom(c.conid)
  BY <1>2 DEF Bound, HasRoom, ClientConnection
<1> HIDE DEF c, rest
<1>4. /\ Len(connections') = Len(rest) + 1 /\ connections'[Len(connections')] = c
      /\ \A j \in 1..Len(rest) : connections'[j] = rest[j]
  BY <1>1, <1>2, <1>3, AppendElements
<1>5. \A n \in 1..Len(connections) : n = 1 \/ connections[n].conid # c.conid
  BY <1>1, <1>3 DEF UdpInv, ClientOK, ConidsDiffer
<1>6. ASSUME NEW j \in 1..Len(connections')
      PROVE  \/ connections'[j] = c
             \/ \E n \in 1..Len(connections) :
                  connections'[j] = connections[n] /\ connections[n].conid # c.conid
  <2>1. CASE j = Len(connections')
    BY <1>4, <2>1
  <2>2. CASE j # Len(connections')
    <3>1. /\ j \in 1..Len(rest) /\ j \in 1..(Len(connections) - 1)
          /\ j + 1 \in 1..Len(connections) /\ j + 1 # 1
      BY <1>2, <1>4, <2>2
    <3>2. connections'[j] = connections[j + 1] /\ connections[j + 1].conid # c.conid
      BY <1>2, <1>4, <1>5, <3>1
    <3> QED
      BY <3>1, <3>2
  <2> QED
    BY <2>1, <2>2
<1>7. ASSUME NEW n \in 1..Len(connections), connections[n].conid # c.conid
      PROVE  \E j \in 1..Len(connections') : connections'[j] = connections[n]
  <2>1. n # 1
    BY <1>3, <1>7
  <2>2. /\ n - 1 \in 1..(Len(connections) - 1) /\ n - 1 \in 1..Len(rest) /\ (n - 1) + 1 = n
        /\ n - 1 \in 1..Len(connections')
    BY <1>2, <1>4, <2>1
  <2>3. connections'[n - 1] = connections[n]
    BY <1>2, <1>4, <2>2
  <2> QED
    BY <2>2, <2>3
<1>8. \E j \in 1..Len(connections') : connections'[j] = c
  BY <1>2, <1>4
<1> QED
  BY <1>1, <1>3, <1>6, <1>7, <1>8, SendKeepsOrder

(* ... and for one that gets its own. *)
LEMMA SubmitNewOrder ==
  ASSUME UdpInv, UdpInv', OrderInv, NEW a \in Addresses, SubmitNew(a) PROVE OrderInv'
<1> DEFINE c == Bound(FindUnusedConid, a)
<1>1. /\ Len(connections) < MaxConnections
      /\ \/ connections' = Append(connections, c) /\ ConnectionSend(c, TRUE)
         \/ UNCHANGED <<connections, flow>>
      /\ UNCHANGED <<toServer, server>> /\ event' = NoEvent
      /\ connections \in Seq(ClientConnection)
  BY DEF SubmitNew, wire, UdpInv, ClientOK
<1>2. FindUnusedConid \in ConIds /\ ByConid(connections, FindUnusedConid) = {}
  BY <1>1, FindUnusedConidFinds DEF UdpInv
<1>3. c \in ClientConnection /\ c.conid = FindUnusedConid /\ c.told = HasRoom(c.conid)
  BY <1>2 DEF Bound, HasRoom, ClientConnection
<1>4. \A n \in 1..Len(connections) : connections[n].conid # c.conid
  <2>1. DOMAIN connections = 1..Len(connections)
    BY <1>1
  <2>2. {i \in DOMAIN connections : connections[i].conid = FindUnusedConid} = {}
    BY <1>2, Found, Zenon
  <2> QED
    BY <1>3, <2>1, <2>2
<1> HIDE DEF c
<1>5. CASE connections' = Append(connections, c) /\ ConnectionSend(c, TRUE)
  <2>1. /\ Len(connections') = Len(connections) + 1 /\ connections'[Len(connections')] = c
        /\ \A j \in 1..Len(connections) : connections'[j] = connections[j]
    BY <1>1, <1>3, <1>5, AppendElements
  <2>2. /\ \A j \in 1..Len(connections') : j = Len(connections') \/ j \in 1..Len(connections)
        /\ \A j \in 1..Len(connections) : j \in 1..Len(connections')
        /\ Len(connections') \in 1..Len(connections')
    BY <1>1, <2>1
  <2>3. /\ \A j \in 1..Len(connections') :
             \/ connections'[j] = c
             \/ \E n \in 1..Len(connections) :
                  connections'[j] = connections[n] /\ connections[n].conid # c.conid
        /\ \E j \in 1..Len(connections') : connections'[j] = c
        /\ \A n \in 1..Len(connections) : connections[n].conid # c.conid =>
             \E j \in 1..Len(connections') : connections'[j] = connections[n]
    BY <1>4, <2>1, <2>2, Zenon
  <2> QED
    BY <1>1, <1>3, <1>5, <2>3, SendKeepsOrder
<1>6. CASE UNCHANGED <<connections, flow>>
  BY <1>1, <1>6 DEF OrderInv, WireChained, StreamsChained, Stream, Latest, FlowsOwned, OwnSocket,
                    NoEvent
<1> QED
  BY <1>1, <1>5, <1>6

(* recv_interface_handler_send: the order of the list means nothing here. *)
LEMMA ReceiveOrder == ASSUME UdpInv, OrderInv, Receive PROVE OrderInv'
<1> DEFINE p == Head(toClient)
           found == {i \in ByConid(connections, p.conid) :
                       connections[i].addr.remote = p.addr.remote}
<1>1. /\ Len(connections') = Len(connections)
      /\ \A j \in 1..Len(connections) : \E n \in 1..Len(connections) : connections'[j] = connections[n]
      /\ \A n \in 1..Len(connections) : \E j \in 1..Len(connections) : connections'[j] = connections[n]
  <2>1. CASE found = {}
    BY <2>1 DEF Receive
  <2>2. CASE found # {}
    <3>1. PICK i \in found : connections' = MoveToBack(connections, i)
      BY <2>2 DEF Receive
    <3>2. i \in 1..Len(connections) /\ connections \in Seq(ClientConnection)
      BY <3>1, Found DEF UdpInv, ClientOK
    <3> QED
      BY <3>1, <3>2, MoveToBackElements, MovedElements
  <2> QED
    BY <2>1, <2>2
<1>2. UNCHANGED <<flow, toServer, server>> /\ event' = NoEvent
  BY DEF Receive
<1>3. StreamsChained'
  <2> SUFFICES ASSUME NEW j \in 1..Len(connections)
               PROVE  Chained(Stream(connections[j])') /\ Served(server, Stream(connections[j])')
    BY <1>1, <1>2 DEF StreamsChained
  <2>1. PICK n \in 1..Len(connections) : connections'[j] = connections[n]
    BY <1>1
  <2>2. Stream(connections[j])' = Stream(connections[n])
    BY <1>2, <2>1 DEF Stream, Latest
  <2> QED
    BY <2>2 DEF OrderInv, StreamsChained
<1>4. FlowsOwned'
  <2> SUFFICES ASSUME NEW k \in ConIds, flow[k] # << >>
               PROVE  \E j \in 1..Len(connections) : connections'[j].conid = k
    BY <1>1, <1>2 DEF OrderInv, FlowsOwned
  <2>1. PICK n \in 1..Len(connections) : connections[n].conid = k
    BY DEF OrderInv, FlowsOwned
  <2> QED
    BY <1>1, <2>1
<1>5. WireChained' /\ OwnSocket'
  BY <1>2 DEF OrderInv, WireChained, OwnSocket, NoEvent
<1> QED
  BY <1>3, <1>4, <1>5 DEF OrderInv

(* The first packet of a buffer goes to the end of the wire: in the stream of its
   own id nothing moves ... *)
LEMMA SentInOwnStream ==
  ASSUME NEW w \in Seq(Packet), NEW f \in Seq(Packet), f # << >>, NEW q \in Packet
  PROVE  Append(w, Head(f)) \o Append(Tail(f), q) = w \o Append(f, q)
<1> DEFINE h == Head(f)
           u == Append(w, h)
           g == Tail(f)
           s == w \o Append(f, q)
           t == u \o Append(g, q)
           a == Len(w)
           b == Len(g)
<1>1. /\ h \in Packet /\ h = f[1] /\ g \in Seq(Packet) /\ Len(f) = b + 1
      /\ \A j \in 1..b : g[j] = f[j + 1]
      /\ a \in Nat /\ b \in Nat
  OBVIOUS
<1> HIDE DEF h, g
<1>2. u \in Seq(Packet) /\ Len(u) = a + 1 /\ u[a + 1] = h /\ \A j \in 1..a : u[j] = w[j]
  BY <1>1
<1> HIDE DEF u
<1>3. /\ s \in Seq(Packet) /\ Len(s) = a + (b + 1) + 1
      /\ \A j \in 1..a : s[j] = w[j]
      /\ \A j \in 1..(b + 1) : s[a + j] = f[j]
      /\ s[a + (b + 1) + 1] = q
  <2>1. /\ s \in Seq(Packet) /\ Len(s) = Len(w) + Len(f) + 1
        /\ \A j \in 1..Len(w) : s[j] = w[j]
        /\ \A j \in 1..Len(f) : s[Len(w) + j] = f[j]
        /\ s[Len(s)] = q
    BY StreamElements
  <2> HIDE DEF s
  <2> QED
    BY <1>1, <2>1
<1>4. /\ t \in Seq(Packet) /\ Len(t) = (a + 1) + b + 1
      /\ \A j \in 1..(a + 1) : t[j] = u[j]
      /\ \A j \in 1..b : t[(a + 1) + j] = g[j]
      /\ t[(a + 1) + b + 1] = q
  <2>1. /\ t \in Seq(Packet) /\ Len(t) = Len(u) + Len(g) + 1
        /\ \A j \in 1..Len(u) : t[j] = u[j]
        /\ \A j \in 1..Len(g) : t[Len(u) + j] = g[j]
        /\ t[Len(t)] = q
    BY <1>1, <1>2, StreamElements
  <2> HIDE DEF t
  <2> QED
    BY <1>1, <1>2, <2>1
<1> HIDE DEF s, t, a, b
<1>5. ASSUME NEW j \in 1..(a + b + 2) PROVE s[j] = t[j]
  <2>1. CASE j \in 1..a
    <3>1. j \in 1..(a + 1)
      BY <1>1, <2>1
    <3> QED
      BY <1>2, <1>3, <1>4, <2>1, <3>1
  <2>2. CASE j = a + 1
    <3>1. 1 \in 1..(b + 1) /\ a + 1 \in 1..(a + 1)
      BY <1>1
    <3> QED
      BY <1>1, <1>2, <1>3, <1>4, <2>2, <3>1
  <2>3. CASE j \in (a + 2)..(a + b + 1)
    <3>1. PICK m \in 1..b : j = (a + 1) + m
      <4>1. j - a - 1 \in 1..b /\ j = (a + 1) + (j - a - 1)
        BY <1>1, <2>3
      <4> QED
        BY <4>1
    <3>2. m + 1 \in 1..(b + 1) /\ j = a + (m + 1)
      BY <1>1, <3>1
    <3>3. t[j] = f[m + 1]
      BY <1>1, <1>4, <3>1
    <3>4. s[j] = f[m + 1]
      BY <1>3, <3>2
    <3> QED
      BY <3>3, <3>4
  <2>4. CASE j = a + b + 2
    <3>1. j = a + (b + 1) + 1 /\ j = (a + 1) + b + 1
      BY <1>1, <2>4
    <3> QED
      BY <1>3, <1>4, <3>1
  <2> QED
    BY <1>1, <2>1, <2>2, <2>3, <2>4
<1>6. Len(s) = a + b + 2 /\ Len(t) = a + b + 2
  BY <1>1, <1>3, <1>4
<1>7. s = t
  BY <1>3, <1>4, <1>5, <1>6, SeqEqual
<1> QED
  BY <1>7 DEF s, t, u, g, h

(* ... and in that of another it comes in between. *)
LEMMA SentBeforeOthers ==
  ASSUME NEW w \in Seq(Packet), NEW h \in Packet, NEW f \in Seq(Packet), NEW q \in Packet,
         \A j \in 1..Len(f) : f[j].conid # h.conid, q.conid # h.conid,
         Chained(w \o Append(f, q)), Chained(Append(w, h))
  PROVE  LET t == Append(w, h) \o Append(f, q) IN
         /\ Chained(t)
         /\ \A list : Served(list, w \o Append(f, q)) /\ Served(list, Append(w, h)) =>
              Served(list, t)
<1> DEFINE u == Append(w, h)
           s == w \o Append(f, q)
           t == u \o Append(f, q)
           a == Len(w)
           b == Len(f)
<1>1. a \in Nat /\ b \in Nat
  OBVIOUS
<1>2. u \in Seq(Packet) /\ Len(u) = a + 1 /\ u[a + 1] = h /\ \A j \in 1..a : u[j] = w[j]
  OBVIOUS
<1> HIDE DEF u
<1>3. /\ s \in Seq(Packet) /\ Len(s) = a + b + 1
      /\ \A j \in 1..a : s[j] = w[j]
      /\ \A j \in 1..b : s[a + j] = f[j]
      /\ s[a + b + 1] = q
  <2>1. /\ s \in Seq(Packet) /\ Len(s) = Len(w) + Len(f) + 1
        /\ \A j \in 1..Len(w) : s[j] = w[j]
        /\ \A j \in 1..Len(f) : s[Len(w) + j] = f[j]
        /\ s[Len(s)] = q
    BY StreamElements
  <2> HIDE DEF s
  <2> QED
    BY <1>1, <2>1
<1>4. /\ t \in Seq(Packet) /\ Len(t) = (a + 1) + b + 1
      /\ \A j \in 1..(a + 1) : t[j] = u[j]
      /\ \A j \in 1..b : t[(a + 1) + j] = f[j]
      /\ t[(a + 1) + b + 1] = q
  <2>1. /\ t \in Seq(Packet) /\ Len(t) = Len(u) + Len(f) + 1
        /\ \A j \in 1..Len(u) : t[j] = u[j]
        /\ \A j \in 1..Len(f) : t[Len(u) + j] = f[j]
        /\ t[Len(t)] = q
    BY <1>2, StreamElements, Zenon
  <2> HIDE DEF t
  <2> QED
    BY <1>1, <1>2, <2>1
<1>5. Chained(s) /\ Chained(u) /\ \A j \in 1..b : f[j].conid # h.conid
  BY DEF u
<1> HIDE DEF s, t, a, b
<1>6. /\ a <= Len(s) /\ Len(t) = Len(s) + 1 /\ \A j \in 1..a : t[j] = s[j]
      /\ \A j \in 1..(a + 1) : u[j] = t[j]
  BY <1>1, <1>2, <1>3, <1>4
<1>7. ASSUME NEW j \in (a + 2)..Len(t)
      PROVE  t[j] = s[j - 1] /\ t[j].conid # t[a + 1].conid
  <2>1. t[a + 1] = h
    BY <1>1, <1>2, <1>4
  <2>2. CASE j = a + b + 2
    <3>1. j = (a + 1) + b + 1 /\ j - 1 = a + b + 1
      BY <1>1, <2>2
    <3> QED
      BY <1>3, <1>4, <2>1, <3>1
  <2>3. CASE j \in (a + 2)..(a + b + 1)
    <3>1. PICK m \in 1..b : j = (a + 1) + m
      <4>1. j - a - 1 \in 1..b /\ j = (a + 1) + (j - a - 1)
        BY <1>1, <2>3
      <4> QED
        BY <4>1
    <3>2. j - 1 = a + m
      BY <1>1, <3>1
    <3> QED
      BY <1>3, <1>4, <1>5, <2>1, <3>1, <3>2
  <2> QED
    BY <1>1, <1>4, <2>2, <2>3
<1>8. /\ Chained(t)
      /\ \A list : Served(list, s) /\ Served(list, u) => Served(list, t)
  BY <1>1, <1>2, <1>3, <1>4, <1>5, <1>6, <1>7, InsertChained
<1> QED
  BY <1>8 DEF s, t, u

(* A packet goes on its way: the streams of its id are as they were, all others
   have it in between. *)
LEMMA SendNextOrder ==
  ASSUME UdpInv, OrderInv, NEW k \in ConIds, SendNext(k) PROVE OrderInv'
<1> DEFINE h == Head(flow[k])
           w == toServer
           f == flow[k]
           u == Append(toServer, h)
<1>1. /\ toServer' = u /\ flow' = [flow EXCEPT ![k] = Tail(f)] /\ f # << >>
      /\ UNCHANGED <<connections, server>> /\ event' = NoEvent
  BY DEF SendNext
<1>2. /\ w \in Seq(Packet) /\ flow \in [ConIds -> Seq(Packet)] /\ f \in Seq(Packet)
      /\ connections \in Seq(ClientConnection)
  BY DEF UdpInv, WireOK, FlowsOK, ClientOK
<1>3. /\ h \in Packet /\ h = f[1] /\ Tail(f) \in Seq(Packet) /\ Len(Tail(f)) = Len(f) - 1
      /\ \A j \in 1..(Len(f) - 1) : Tail(f)[j] = f[j + 1]
      /\ Len(f) \in Nat \ {0} /\ Len(w) \in Nat
  BY <1>1, <1>2, TailKeeps
<1>4. h.conid = k
  BY <1>3 DEF OrderInv, FlowsOwned
<1> HIDE DEF h
<1>5. /\ u \in Seq(Packet) /\ Len(u) = Len(w) + 1 /\ u[Len(w) + 1] = h
      /\ \A j \in 1..Len(w) : u[j] = w[j]
  BY <1>2, <1>3, AppendElements
<1>6. /\ flow'[k] = Tail(f) /\ \A n \in ConIds : n # k => flow'[n] = flow[n]
  BY <1>1, <1>2
<1> HIDE DEF w, f, u
<1>7. ASSUME NEW i \in 1..Len(connections)
      PROVE  LET c == connections[i] IN
             /\ c.conid \in ConIds /\ Latest(c) \in Packet
             /\ Stream(c) = w \o Append(flow[c.conid], Latest(c))
             /\ Stream(connections[i])' = u \o Append(flow'[c.conid], Latest(c))
             /\ Chained(Stream(c)) /\ Served(server, Stream(c))
  <2>1. connections[i] \in ClientConnection
    BY <1>2, ElementOfSeq
  <2>2. connections[i].conid \in ConIds /\ Latest(connections[i]) \in Packet
    BY <2>1 DEF ClientConnection, Latest, Packet
  <2> QED
    BY <1>1, <2>2 DEF Stream, Latest, OrderInv, StreamsChained, w
<1>8. Chained(u) /\ Served(server, u)
  <2>1. PICK i \in 1..Len(connections) : connections[i].conid = k
    BY <1>1 DEF OrderInv, FlowsOwned, f
  <2> DEFINE q == Latest(connections[i])
             s == w \o Append(f, q)
  <2>2. q \in Packet /\ Chained(s) /\ Served(server, s)
    BY <1>7, <2>1 DEF f
  <2> HIDE DEF q
  <2>3. /\ s \in Seq(Packet) /\ Len(s) = Len(w) + Len(f) + 1
        /\ \A j \in 1..Len(w) : s[j] = w[j]
        /\ \A j \in 1..Len(f) : s[Len(w) + j] = f[j]
    BY <1>2, <2>2, StreamElements
  <2> HIDE DEF s
  <2>4. Len(u) <= Len(s) /\ \A j \in 1..Len(u) : u[j] = s[j]
    <3>1. s[Len(w) + 1] = h
      BY <1>3, <2>3
    <3> QED
      BY <1>3, <1>5, <2>3, <3>1
  <2> QED
    BY <1>5, <2>2, <2>3, <2>4, PrefixChained
<1>9. StreamsChained'
  <2> SUFFICES ASSUME NEW i \in 1..Len(connections)
               PROVE  Chained(Stream(connections[i])') /\ Served(server, Stream(connections[i])')
    BY <1>1 DEF StreamsChained
  <2> DEFINE n == connections[i].conid
             q == Latest(connections[i])
  <2>1. /\ n \in ConIds /\ q \in Packet /\ q.conid = n
        /\ Stream(connections[i])' = u \o Append(flow'[n], q)
        /\ Chained(w \o Append(flow[n], q)) /\ Served(server, w \o Append(flow[n], q))
    BY <1>7 DEF Latest
  <2> HIDE DEF n, q
  <2>2. CASE n = k
    <3>1. u \o Append(flow'[n], q) = w \o Append(flow[n], q)
      <4>1. Append(w, Head(f)) \o Append(Tail(f), q) = w \o Append(f, q)
        BY <1>1, <1>2, <2>1, SentInOwnStream
      <4>2. u = Append(w, Head(f)) /\ flow'[n] = Tail(f) /\ flow[n] = f
        BY <1>6, <2>2 DEF u, w, f, h
      <4> QED
        BY <4>1, <4>2
    <3> QED
      BY <2>1, <3>1
  <2>3. CASE n # k
    <3>1. /\ flow'[n] = flow[n] /\ flow[n] \in Seq(Packet)
          /\ \A j \in 1..Len(flow[n]) : flow[n][j].conid # h.conid
      BY <1>2, <1>4, <1>6, <2>1, <2>3 DEF OrderInv, FlowsOwned
    <3>2. /\ Chained(u \o Append(flow[n], q))
          /\ Served(server, w \o Append(flow[n], q)) /\ Served(server, u) =>
               Served(server, u \o Append(flow[n], q))
      <4>1. u = Append(w, h) /\ q.conid # h.conid
        BY <1>4, <2>1, <2>3 DEF u, w
      <4> QED
        BY <1>2, <1>3, <1>8, <2>1, <3>1, <4>1, SentBeforeOthers
    <3> QED
      BY <1>8, <2>1, <3>1, <3>2
  <2> QED
    BY <2>2, <2>3
<1>10. FlowsOwned'
  <2> SUFFICES ASSUME NEW n \in ConIds
               PROVE  /\ flow'[n] # << >> => \E i \in 1..Len(connections) : connections[i].conid = n
                      /\ \A j \in 1..Len(flow'[n]) : flow'[n][j].conid = n
    BY <1>1 DEF FlowsOwned
  <2>1. CASE n # k
    BY <1>6, <2>1 DEF OrderInv, FlowsOwned
  <2>2. CASE n = k
    <3>1. ASSUME NEW j \in 1..Len(Tail(f)) PROVE Tail(f)[j].conid = k
      <4>1. j \in 1..(Len(f) - 1) /\ j + 1 \in 1..Len(f)
        BY <1>3, <3>1
      <4> QED
        BY <1>3, <4>1 DEF OrderInv, FlowsOwned, f
    <3> QED
      BY <1>1, <1>6, <2>2, <3>1 DEF OrderInv, FlowsOwned, f
  <2> QED
    BY <2>1, <2>2
<1>11. WireChained' /\ OwnSocket'
  BY <1>1, <1>8 DEF WireChained, OwnSocket, NoEvent
<1> QED
  BY <1>9, <1>10, <1>11 DEF OrderInv

(* free_socks: what was under way is gone, and so are the sockets. *)
LEMMA FreeSocksOrder ==
  ASSUME UdpInv, OrderInv, FreeSocks, event' = NoEvent PROVE OrderInv'
<1>1. toServer' = << >> /\ server' = << >> /\ UNCHANGED <<connections, flow>>
  BY DEF FreeSocks, client
<1>2. WireChained'
  BY <1>1 DEF WireChained, Chained, Served
<1>3. StreamsChained'
  <2> SUFFICES ASSUME NEW i \in 1..Len(connections)
               PROVE  Chained(Stream(connections[i])') /\ Served(<< >>, Stream(connections[i])')
    BY <1>1 DEF StreamsChained
  <2> DEFINE q == Latest(connections[i])
             f == flow[connections[i].conid]
             s == toServer \o Append(f, q)
             t == << >> \o Append(f, q)
             n == Len(toServer)
  <2>1. q \in Packet /\ f \in Seq(Packet) /\ toServer \in Seq(Packet)
    <3>1. connections[i] \in ClientConnection
      BY ElementOfSeq DEF UdpInv, ClientOK
    <3> QED
      BY <3>1 DEF ClientConnection, Latest, Packet, UdpInv, FlowsOK, WireOK
  <2>2. Chained(s) /\ Stream(connections[i])' = t
    BY <1>1 DEF OrderInv, StreamsChained, Stream, Latest
  <2>3. /\ s \in Seq(Packet) /\ Len(s) = n + Len(f) + 1
        /\ \A j \in 1..Len(f) : s[n + j] = f[j]
        /\ s[Len(s)] = q
    BY <2>1, StreamElements
  <2>4. t \in Seq(Packet) /\ Len(t) = Len(f) + 1 /\ t[Len(t)] = q /\ \A j \in 1..Len(f) : t[j] = f[j]
    <3>1. Append(f, q) \in Seq(Packet)
      BY <2>1, AppendElements
    <3>2. t = Append(f, q)
      BY <3>1, ConcatEmptySeq
    <3> QED
      BY <2>1, <3>2, AppendElements
  <2>5. n \in Nat /\ Len(f) \in Nat
    BY <2>1
  <2> HIDE DEF q, f, s, t, n
  <2>6. ASSUME NEW j \in 1..Len(t) PROVE t[j] = s[j + n]
    <3>1. CASE j = Len(t)
      <4>1. j + n = Len(s)
        BY <2>3, <2>4, <2>5, <3>1
      <4> QED
        BY <2>3, <2>4, <3>1, <4>1
    <3>2. CASE j # Len(t)
      <4>1. j \in 1..Len(f) /\ j + n = n + j
        BY <2>4, <2>5, <3>2
      <4> QED
        BY <2>3, <2>4, <4>1
    <3> QED
      BY <3>1, <3>2
  <2>7. Len(s) = Len(t) + n
    BY <2>3, <2>4, <2>5
  <2>8. Chained(t)
    BY <2>2, <2>3, <2>4, <2>5, <2>6, <2>7, SuffixChained
  <2> QED
    BY <2>2, <2>8 DEF Served
<1>4. FlowsOwned' /\ OwnSocket'
  BY <1>1 DEF OrderInv, FlowsOwned, OwnSocket, NoEvent
<1> QED
  BY <1>2, <1>3, <1>4 DEF OrderInv

(* SocksUdpGwClient: nothing else of it touches a packet. *)
LEMMA SocksOrder ==
  ASSUME UdpInv, OrderInv, ReconnectTimer \/ SocksUp \/ SocksError PROVE OrderInv'
<1>1. event' = NoEvent /\ (FreeSocks \/ UNCHANGED <<connections, flow, toServer, server>>)
  BY DEF ReconnectTimer, SocksUp, SocksError, client, wire
<1>2. CASE FreeSocks
  BY <1>1, <1>2, FreeSocksOrder
<1>3. CASE UNCHANGED <<connections, flow, toServer, server>>
  BY <1>1, <1>3 DEF OrderInv, WireChained, StreamsChained, Stream, Latest, FlowsOwned, OwnSocket,
                    NoEvent
<1> QED
  BY <1>1, <1>2, <1>3

(* The server replies, or loses a socket: nothing new is on its list. *)
LEMMA ServerOrder == ASSUME UdpInv, OrderInv, ServerReply \/ ServerUdpError PROVE OrderInv'
<1>1. UNCHANGED <<connections, flow, toServer>> /\ event' = NoEvent
  BY DEF ServerReply, ServerUdpError, client, wire
<1>2. PICK i \in DOMAIN server : server' = MoveToBack(server, i) \/ server' = RemoveAt(server, i)
  BY DEF ServerReply, ServerUdpError
<1>3. i \in 1..Len(server) /\ server \in Seq(Connection)
  BY <1>2 DEF UdpInv, ServerOK
<1>4. \A j \in 1..Len(server') : \E n \in 1..Len(server) : server'[j] = server[n]
  <2>1. CASE server' = MoveToBack(server, i)
    <3>1. /\ Len(MoveToBack(server, i)) = Len(server)
          /\ \A j \in 1..Len(server) : \E n \in 1..Len(server) : MoveToBack(server, i)[j] = server[n]
      BY <1>3, MoveToBackElements, MovedElements
    <3> QED
      BY <2>1, <3>1
  <2>2. CASE server' = RemoveAt(server, i)
    <3>1. /\ Len(server') = Len(server) - 1
          /\ \A j \in 1..(Len(server) - 1) : server'[j] = IF j < i THEN server[j] ELSE server[j + 1]
      BY <1>3, <2>2, RemoveAtElements
    <3>2. \A j \in 1..(Len(server) - 1) : j \in 1..Len(server) /\ j + 1 \in 1..Len(server)
      BY <1>3
    <3> QED
      BY <3>1, <3>2
  <2> QED
    BY <1>2, <2>1, <2>2
<1>5. \A s : Served(server, s) => Served(server', s)
  BY <1>4, FewerServed
<1>6. WireChained' /\ StreamsChained'
  BY <1>1, <1>5 DEF OrderInv, WireChained, StreamsChained, Stream, Latest
<1>7. FlowsOwned' /\ OwnSocket'
  BY <1>1 DEF OrderInv, FlowsOwned, OwnSocket, NoEvent
<1> QED
  BY <1>6, <1>7 DEF OrderInv

(* client_recv_if_handler_send: the sockets that are there afterwards. *)
LEMMA ServerAfter ==
  ASSUME UdpInv, ServerReceive
  PROVE  LET p == Head(toServer) IN
         \A i \in 1..Len(server') :
           \/ server'[i].conid = p.conid /\ server'[i].addr = p.addr
           \/ \E n \in 1..Len(server) :
                server'[i] = server[n] /\ (server[n].conid # p.conid \/ ~p.rebind)
<1> DEFINE p == Head(toServer)
           found == ByConid(server, p.conid)
           stale == {i \in found : p.rebind \/ server[i].addr.remote # p.addr.remote}
           one == CHOOSE i \in stale : TRUE
           rest == IF stale = {} THEN server ELSE RemoveAt(server, one)
           Kept(c) == \E n \in 1..Len(server) :
                        c = server[n] /\ (server[n].conid # p.conid \/ ~p.rebind)
<1>1. server \in Seq(Connection) /\ ConidsDiffer(server)
  BY DEF UdpInv, ServerOK
<1>2. found = {i \in 1..Len(server) : server[i].conid = p.conid}
  BY <1>1, Found
<1>3. CASE found \ stale # {}
  <2>1. PICK i \in found : server' = MoveToBack(server, i)
    BY <1>3 DEF ServerReceive
  <2>2. ~p.rebind /\ i \in 1..Len(server)
    BY <1>2, <1>3, <2>1
  <2>3. /\ Len(MoveToBack(server, i)) = Len(server)
        /\ \A j \in 1..Len(server) : \E n \in 1..Len(server) : MoveToBack(server, i)[j] = server[n]
    BY <1>1, <2>2, MoveToBackElements, MovedElements
  <2> HIDE DEF p
  <2> QED
    BY <2>1, <2>2, <2>3 DEF p
<1>4. CASE found \ stale = {}
  <2>1. \/ server' = ServerConnectionInit(rest, p)
        \/ server' = IF Len(rest) = ServerConnections THEN Tail(rest) ELSE rest
    BY <1>4 DEF ServerReceive
  <2>2. rest \in Seq(Connection) /\ \A j \in 1..Len(rest) : Kept(rest[j])
    <3>1. CASE stale = {}
      <4>1. rest = server /\ \A j \in 1..Len(server) : server[j].conid # p.conid
        BY <1>2, <1>4, <3>1
      <4> HIDE DEF rest, p
      <4> QED
        BY <1>1, <4>1
    <3>2. CASE stale # {}
      <4>1. one \in 1..Len(server) /\ server[one].conid = p.conid /\ rest = RemoveAt(server, one)
        BY <1>2, <3>2
      <4> HIDE DEF one, rest, p
      <4>2. /\ rest \in Seq(Connection) /\ Len(rest) = Len(server) - 1
            /\ \A j \in 1..(Len(server) - 1) : rest[j] = IF j < one THEN server[j] ELSE server[j + 1]
            /\ \A j \in 1..(Len(server) - 1) : rest[j].conid # p.conid
        <5>1. /\ RemoveAt(server, one) \in Seq(Connection)
              /\ Len(RemoveAt(server, one)) = Len(server) - 1
              /\ \A j \in 1..(Len(server) - 1) :
                   RemoveAt(server, one)[j] = IF j < one THEN server[j] ELSE server[j + 1]
          BY <1>1, <4>1, RemoveAtElements
        <5>2. \A j \in 1..(Len(server) - 1) : RemoveAt(server, one)[j].conid # server[one].conid
          BY <1>1, <4>1, RemoveAtKeeps
        <5> QED
          BY <4>1, <5>1, <5>2
      <4>3. ASSUME NEW j \in 1..Len(rest) PROVE Kept(rest[j])
        <5>1. j \in 1..(Len(server) - 1) /\ j \in 1..Len(server) /\ j + 1 \in 1..Len(server)
          BY <1>1, <4>2, <4>3
        <5> QED
          BY <4>2, <5>1
      <4> QED
        BY <4>2, <4>3
    <3> QED
      BY <3>1, <3>2
  <2> HIDE DEF rest, Kept, p
  <2> DEFINE left == IF Len(rest) = ServerConnections THEN Tail(rest) ELSE rest
             new == [conid |-> p.conid, addr |-> p.addr]
  <2>3. left \in Seq(Connection) /\ \A j \in 1..Len(left) : Kept(left[j])
    <3>1. CASE Len(rest) = ServerConnections
      <4>1. rest # << >> /\ left = Tail(rest)
        BY <2>2, <3>1, UdpGwAssumption
      <4>2. /\ Tail(rest) \in Seq(Connection) /\ Len(Tail(rest)) = Len(rest) - 1
            /\ \A j \in 1..(Len(rest) - 1) : Tail(rest)[j] = rest[j + 1]
        BY <2>2, <4>1, TailKeeps
      <4> HIDE DEF left
      <4>3. \A j \in 1..Len(left) : j \in 1..(Len(rest) - 1) /\ j + 1 \in 1..Len(rest)
        BY <2>2, <4>1, <4>2
      <4> QED
        BY <2>2, <4>1, <4>2, <4>3
    <3>2. CASE Len(rest) # ServerConnections
      BY <2>2, <3>2
    <3> QED
      BY <3>1, <3>2
  <2>4. ServerConnectionInit(rest, p) = Append(left, new)
    BY Zenon DEF ServerConnectionInit
  <2>5. new \in Connection
    <3>1. p \in Packet
      BY TailKeeps DEF ServerReceive, UdpInv, WireOK, p
    <3> QED
      BY <3>1 DEF Packet, Connection
  <2>6. new.conid = p.conid /\ new.addr = p.addr
    OBVIOUS
  <2> HIDE DEF left, new
  <2>7. /\ Len(Append(left, new)) = Len(left) + 1 /\ Append(left, new)[Len(left) + 1] = new
        /\ \A j \in 1..Len(left) : Append(left, new)[j] = left[j]
    BY <2>3, <2>5
  <2>8. ASSUME NEW j \in 1..Len(server')
        PROVE  (server'[j].conid = p.conid /\ server'[j].addr = p.addr) \/ Kept(server'[j])
    <3>1. CASE server' = ServerConnectionInit(rest, p)
      <4>1. server' = Append(left, new) /\ (j \in 1..Len(left) \/ j = Len(left) + 1)
        BY <2>3, <2>4, <2>7, <2>8, <3>1
      <4> QED
        BY <2>3, <2>6, <2>7, <4>1
    <3>2. CASE server' = left
      BY <2>3, <2>8, <3>2
    <3> QED
      BY <2>1, <3>1, <3>2 DEF left
  <2> QED
    BY <2>8 DEF Kept, p
<1> QED
  BY <1>3, <1>4

(* ... and the socket that the datagram leaves through. *)
LEMMA ServerReceiveOrder == ASSUME UdpInv, OrderInv, ServerReceive PROVE OrderInv'
<1> DEFINE p == Head(toServer)
           found == ByConid(server, p.conid)
           stale == {i \in found : p.rebind \/ server[i].addr.remote # p.addr.remote}
<1>1. /\ toServer' = Tail(toServer) /\ UNCHANGED <<connections, flow>>
      /\ toServer \in Seq(Packet) /\ toServer # << >>
  BY DEF ServerReceive, client, UdpInv, WireOK
<1>2. /\ toServer' \in Seq(Packet) /\ Len(toServer) = Len(toServer') + 1
      /\ \A j \in 1..Len(toServer') : toServer'[j] = toServer[j + 1]
      /\ p \in Packet /\ p = toServer[1] /\ 1 \in 1..Len(toServer)
  BY <1>1, TailKeeps
<1> HIDE DEF p
<1>3. \A i \in 1..Len(server') :
        \/ server'[i].conid = p.conid /\ server'[i].addr = p.addr
        \/ \E n \in 1..Len(server) :
             server'[i] = server[n] /\ (server[n].conid # p.conid \/ ~p.rebind)
  BY ServerAfter DEF p
<1>4. WireChained'
  <2>1. Chained(toServer')
    BY <1>1, <1>2, SuffixChained DEF OrderInv, WireChained
  <2>2. Served(server', toServer')
    <3> DEFINE w == toServer
               v == toServer'
               new == server'
    <3>1. w \in Seq(Packet) /\ Chained(w) /\ Served(server, w)
      BY <1>1 DEF OrderInv, WireChained
    <3>2. /\ v \in Seq(Packet) /\ Len(w) = Len(v) + 1
          /\ \A j \in 1..Len(v) : v[j] = w[j + 1]
      BY <1>2
    <3>3. \A i \in 1..Len(new) :
            \/ new[i].conid = w[1].conid /\ new[i].addr = w[1].addr
            \/ \E k \in 1..Len(server) :
                 new[i] = server[k] /\ (server[k].conid # w[1].conid \/ ~w[1].rebind)
      BY <1>2, <1>3
    <3>4. Served(new, v)
      <4> HIDE DEF w, v, new
      <4> QED
        BY <3>1, <3>2, <3>3, TakenServed
    <3> QED
      BY <3>4
  <2> QED
    BY <2>1, <2>2 DEF WireChained
<1>5. StreamsChained'
  <2> SUFFICES ASSUME NEW i \in 1..Len(connections)
               PROVE  Chained(Stream(connections[i])') /\ Served(server', Stream(connections[i])')
    BY <1>1 DEF StreamsChained
  <2> DEFINE q == Latest(connections[i])
             f == flow[connections[i].conid]
             w == toServer
             v == toServer'
             s == w \o Append(f, q)
             t == v \o Append(f, q)
  <2>1. q \in Packet /\ f \in Seq(Packet)
    <3>1. connections[i] \in ClientConnection
      BY ElementOfSeq DEF UdpInv, ClientOK
    <3> QED
      BY <3>1 DEF ClientConnection, Latest, Packet, UdpInv, FlowsOK
  <2>2. Chained(s) /\ Served(server, s) /\ Stream(connections[i])' = t
    BY <1>1 DEF OrderInv, StreamsChained, Stream, Latest
  <2>3. /\ w \in Seq(Packet) /\ w # << >> /\ v = Tail(w) /\ p = Head(w)
    BY <1>1 DEF p
  <2> HIDE DEF q, f, w, v
  <2>4. /\ s \in Seq(Packet) /\ t \in Seq(Packet) /\ Len(s) = Len(t) + 1
        /\ \A j \in 1..Len(t) : t[j] = s[j + 1]
        /\ s[1] = p
    <3> DEFINE u == Tail(w) \o Append(f, q)
    <3>1. /\ s \in Seq(Packet) /\ u \in Seq(Packet) /\ Len(s) = Len(u) + 1
          /\ \A j \in 1..Len(u) : u[j] = s[j + 1]
          /\ s[1] = Head(w)
      BY <2>1, <2>3, TakenStream
    <3>2. t = u
      BY <2>3
    <3> HIDE DEF s, t, u
    <3> QED
      BY <2>3, <3>1, <3>2
  <2> HIDE DEF s, t
  <2>5. Chained(t)
    BY <2>2, <2>4, SuffixChained
  <2>6. Served(server', t)
    <3> DEFINE new == server'
    <3>1. \A n \in 1..Len(new) :
            \/ new[n].conid = s[1].conid /\ new[n].addr = s[1].addr
            \/ \E k \in 1..Len(server) :
                 new[n] = server[k] /\ (server[k].conid # s[1].conid \/ ~s[1].rebind)
      BY <1>3, <2>4
    <3>2. Served(new, t)
      <4> HIDE DEF new
      <4> QED
        BY <2>2, <2>4, <3>1, TakenServed
    <3> QED
      BY <3>2
  <2> QED
    BY <2>2, <2>5, <2>6
<1>6. FlowsOwned'
  BY <1>1 DEF OrderInv, FlowsOwned
<1>7. OwnSocket'
  <2>1. CASE found \ stale # {}
    <3>1. PICK i \in found : Datagram(server[i].addr, p)
      BY <2>1 DEF ServerReceive, p
    <3>2. ~p.rebind /\ i \in 1..Len(server) /\ server[i].conid = p.conid
      BY <2>1, <3>1, Found DEF UdpInv, ServerOK
    <3>3. ~Needs(server[i], p)
      <4>1. Served(server, toServer)
        BY DEF OrderInv, WireChained
      <4>2. Needs(server[i], toServer[1]) => \E m \in 1..(1 - 1) : Brings(toServer[m], toServer[1])
        BY <1>2, <3>2, <4>1 DEF Served
      <4> QED
        BY <1>2, <4>2
    <3> QED
      BY <3>1, <3>2, <3>3 DEF Datagram, OwnSocket, Needs
  <2>2. CASE found \ stale = {}
    <3>1. Datagram(p.addr, p) \/ event' = NoEvent
      BY <2>2 DEF ServerReceive, p
    <3> QED
      BY <3>1 DEF Datagram, OwnSocket, NoEvent
  <2> QED
    BY <2>1, <2>2
<1> QED
  BY <1>4, <1>5, <1>6, <1>7 DEF OrderInv

(* Every step keeps the order. *)
LEMMA OrderStep == UdpInv /\ UdpInv' /\ OrderInv /\ [Next]_vars => OrderInv'
<1> SUFFICES ASSUME UdpInv, UdpInv', OrderInv, [Next]_vars PROVE OrderInv'
  OBVIOUS
<1>1. CASE Next
  BY <1>1, SubmitExistingOrder, SubmitReusingOrder, SubmitNewOrder, ReceiveOrder, SendNextOrder,
     SocksOrder, ServerReceiveOrder, ServerOrder
     DEF Next
<1>2. CASE UNCHANGED vars
  BY <1>2 DEF vars, client, wire, OrderInv, WireChained, StreamsChained, Stream, Latest, FlowsOwned,
              OwnSocket
<1> QED
  BY <1>1, <1>2

(* UdpGwClient.c and udpgw.c: for any number of flows, ids and sockets, and
   whatever is evicted, dropped or lost, both trees of the client and the one of
   the server have one node per key, no list and no buffer outgrows its limit,
   and find_unused_conid always finds an id. *)
THEOREM TablesAreSafe == Spec => []TablesSafe
<1>1. UdpInv => TablesSafe
  BY UdpInvImplies
<1> QED
  BY <1>1, UdpInvariant, PTL

(* SocksUdpGwClient.c: there is either a SOCKS connection or the running timer
   that makes one, and a server exactly while the connection is up. *)
THEOREM AlwaysAWayBack == Spec => []WayBack
<1>1. UdpInv => WayBack
  BY UdpInvImplies
<1> QED
  BY <1>1, UdpInvariant, PTL


(* udpgw.c and UdpGwClient.c: for any number of flows, ids and sockets, a
   datagram of a flow whose packet with REBIND was not dropped leaves the server
   through the socket opened for that flow, however the id passed from flow to
   flow and whatever was lost or evicted in between. *)
THEOREM OwnSocketAlways == Spec => []OwnSocket
<1>1. Init => OrderInv
  BY UdpInvInit DEF Init, OrderInv, WireChained, StreamsChained, Chained, Served, FlowsOwned,
                    OwnSocket, NoEvent
<1>2. OrderInv => OwnSocket
  BY DEF OrderInv
<1> QED
  BY <1>1, <1>2, OrderStep, UdpInvariant, PTL DEF Spec
==============================================================================
