--------------------------------- MODULE UdpGw ---------------------------------
(***************************************************************************)
(* UDP through the tunnel: UdpGwClient.c and SocksUdpGwClient.c of         *)
(* tun2socks, and their peer as udpgw.c implements it.  A flow is a pair   *)
(* of a local and a remote address.  The client gives a flow one of        *)
(* MaxConnections connection ids, and takes the id of the least recently   *)
(* used flow when there is none left; the server keeps one UDP socket per  *)
(* id.  The two tables are only held together by the packets, of which the *)
(* client drops some (its buffer is full) and the reconnection loses more. *)
(*                                                                         *)
(* The payload, keepalives (disabled in this build) and transparent DNS (a *)
(* function of the remote address) are left out.                           *)
(***************************************************************************)
EXTENDS Integers, Sequences, FiniteSets, SequencesExt

CONSTANTS
  Locals, Remotes,        \* addresses with their ports
  MaxConnections,         \* max_connections of the client
  SendBufferSize,         \* send_buffer_size, in packets
  ServerConnections,      \* max_connections_for_client of the server
  MaxWire                 \* bound: packets under way in either direction

ASSUME UdpGwAssumption ==
  /\ MaxConnections \in Nat \ {0} /\ SendBufferSize \in Nat \ {0}
  /\ ServerConnections \in Nat \ {0} /\ MaxWire \in Nat \ {0}

VARIABLES
  connections,    \* connections_list with both trees: least recently used first
  next_conid,
  flow,           \* per id: the packets in send_ppflow
  have_socks, socks_up, reconnect_timer,
  have_server,
  toServer, toClient,     \* packets under way on the SOCKS connection
  server,         \* the server's connections_list, least recently used first
  event           \* the datagram that the last step sent through a socket, for the properties

client == <<connections, next_conid, flow>>
socks == <<have_socks, socks_up, reconnect_timer, have_server>>
wire == <<toServer, toClient>>
vars == <<client, socks, wire, server, event>>

ConIds == 0..(MaxConnections - 1)
Addresses == [local : Locals, remote : Remotes]
Connection == [conid : ConIds, addr : Addresses]

(* told is history: the packet with REBIND of this owner of the id was not
   dropped.  A packet has it from its connection. *)
ClientConnection == [conid : ConIds, addr : Addresses, told : BOOLEAN]
Packet == [conid : ConIds, rebind : BOOLEAN, addr : Addresses, told : BOOLEAN]

NoEvent == [what |-> "none"]

TypeOK ==
  /\ connections \in Seq(ClientConnection)
  /\ next_conid \in ConIds
  /\ flow \in [ConIds -> Seq(Packet)]
  /\ \A k \in ConIds : Len(flow[k]) <= SendBufferSize
  /\ <<have_socks, socks_up, reconnect_timer, have_server>> \in BOOLEAN \X BOOLEAN \X BOOLEAN \X BOOLEAN
  /\ toServer \in Seq(Packet) /\ toClient \in Seq(Connection)
  /\ server \in Seq(Connection) /\ Len(server) <= ServerConnections
  /\ event \in {NoEvent} \cup
               [what : {"datagram"}, at : Addresses, of : Addresses, told : BOOLEAN]

(* UdpGwClient_Init and SocksUdpGwClient_Init: try_connect either has a SOCKS
   client or sets the timer. *)
Init ==
  /\ connections = <<>> /\ next_conid = 0
  /\ flow = [k \in ConIds |-> <<>>]
  /\ have_socks \in BOOLEAN /\ reconnect_timer = ~have_socks
  /\ socks_up = FALSE /\ have_server = FALSE
  /\ toServer = <<>> /\ toClient = <<>> /\ server = <<>>
  /\ event = NoEvent

-----------------------------------------------------------------------------
(* The client's table *)

IndicesOf(list, P(_)) == {i \in DOMAIN list : P(list[i])}
ByConaddr(a) == IndicesOf(connections, LAMBDA c : c.addr = a)
ByConid(list, k) == IndicesOf(list, LAMBDA c : c.conid = k)

(* Both ends move a connection that was used to the back of their list. *)
MoveToBack(list, i) == Append(RemoveAt(list, i), list[i])

NextConidBlindly == next_conid   \* Mutant: the id is not looked up

(* find_unused_conid: the first id not in use, counting round from next_conid. *)
FindUnusedConid ==
  CHOOSE k \in ConIds :
    /\ ByConid(connections, k) = {}
    /\ \A j \in ConIds : ByConid(connections, j) = {} =>
         (k - next_conid) % MaxConnections <= (j - next_conid) % MaxConnections

HasRoom(k) == Len(flow[k]) < SendBufferSize

(* connection_send for connection c: a full buffer drops the packet, whatever
   its flags. *)
ConnectionSend(c, rebind) ==
  flow' = IF HasRoom(c.conid)
          THEN [flow EXCEPT ![c.conid] =
                  Append(@, [conid |-> c.conid, rebind |-> rebind, addr |-> c.addr, told |-> c.told])]
          ELSE flow

(* A connection, new or taken over, whose first packet is about to be sent. *)
Bound(k, a) == [conid |-> k, addr |-> a, told |-> HasRoom(k)]

-----------------------------------------------------------------------------
(* UdpGwClient_SubmitPacket: a datagram of the device, by what the table says
   of its addresses. *)

SubmitExisting(a) ==
  /\ \E i \in ByConaddr(a) :
       /\ connections' = MoveToBack(connections, i)
       /\ ConnectionSend(connections[i], FALSE)
  /\ event' = NoEvent
  /\ UNCHANGED <<next_conid, socks, wire, server>>

ReuseWithoutRebind(a) ==   \* Mutant: the flag is only set for a new connection
  LET new == Bound(Head(connections).conid, a) IN
  /\ ByConaddr(a) = {} /\ Len(connections) = MaxConnections
  /\ connections' = Append(Tail(connections), new)
  /\ ConnectionSend(new, FALSE)
  /\ event' = NoEvent
  /\ UNCHANGED <<next_conid, socks, wire, server>>

(* reuse_connection: the id of the least recently used flow. *)
SubmitReusing(a) ==
  LET new == Bound(Head(connections).conid, a) IN
  /\ ByConaddr(a) = {} /\ Len(connections) = MaxConnections
  /\ connections' = Append(Tail(connections), new)
  /\ ConnectionSend(new, TRUE)
  /\ event' = NoEvent
  /\ UNCHANGED <<next_conid, socks, wire, server>>

(* connection_init and its first job, which runs before any other event.  With
   no memory for the buffers only the id has moved on. *)
SubmitNew(a) ==
  LET new == Bound(FindUnusedConid, a) IN
  /\ ByConaddr(a) = {} /\ Len(connections) < MaxConnections
  /\ next_conid' = FindUnusedConid
  /\ \/ /\ connections' = Append(connections, new)
        /\ ConnectionSend(new, TRUE)
     \/ UNCHANGED <<connections, flow>>
  /\ event' = NoEvent
  /\ UNCHANGED <<socks, wire, server>>

(* recv_interface_handler_send: a reply of an unknown id or from another remote
   address than the flow's is dropped, any other goes to the device. *)
Receive ==
  /\ toClient # <<>>
  /\ toClient' = Tail(toClient)
  /\ LET p == Head(toClient)
         found == {i \in ByConid(connections, p.conid) : connections[i].addr.remote = p.addr.remote}
     IN IF found = {}
        THEN UNCHANGED connections
        ELSE \E i \in found : connections' = MoveToBack(connections, i)
  /\ event' = NoEvent
  /\ UNCHANGED <<next_conid, flow, socks, toServer, server>>

(* The fair queue passes the next packet of some connection through the
   connector; without a server the packet stays where it is. *)
SendNext(k) ==
  /\ have_server /\ flow[k] # <<>> /\ Len(toServer) < MaxWire
  /\ flow' = [flow EXCEPT ![k] = Tail(@)]
  /\ toServer' = Append(toServer, Head(flow[k]))
  /\ event' = NoEvent
  /\ UNCHANGED <<connections, next_conid, socks, toClient, server>>

-----------------------------------------------------------------------------
(* SocksUdpGwClient *)

(* try_connect, from the reconnect timer; BSocksClient_Init may fail. *)
ReconnectTimer ==
  /\ reconnect_timer
  /\ \/ have_socks' = TRUE /\ socks_up' = FALSE /\ reconnect_timer' = FALSE
     \/ reconnect_timer' = TRUE /\ UNCHANGED <<have_socks, socks_up>>
  /\ event' = NoEvent
  /\ UNCHANGED <<have_server, client, wire, server>>

FreeSocksWithoutTimer ==   \* Mutant: an error does not set the reconnect timer
  /\ have_socks' = FALSE /\ UNCHANGED reconnect_timer
  /\ have_server' = (have_server /\ ~socks_up)
  /\ toServer' = <<>> /\ toClient' = <<>> /\ server' = <<>>
  /\ UNCHANGED <<socks_up, client>>

(* free_socks with the timer set after it: what was under way is lost, and the
   server forgets the client (client_free). *)
FreeSocks ==
  /\ have_socks' = FALSE /\ reconnect_timer' = TRUE
  /\ have_server' = (have_server /\ ~socks_up)
  /\ toServer' = <<>> /\ toClient' = <<>> /\ server' = <<>>
  /\ UNCHANGED <<socks_up, client>>

(* BSOCKSCLIENT_EVENT_UP; UdpGwClient_ConnectServer may fail. *)
SocksUp ==
  /\ have_socks /\ ~socks_up
  /\ \/ have_server' = TRUE /\ socks_up' = TRUE
        /\ UNCHANGED <<have_socks, reconnect_timer, client, wire, server>>
     \/ FreeSocks
  /\ event' = NoEvent

(* BSOCKSCLIENT_EVENT_ERROR(_CLOSED), udpgw_handler_servererror, and the
   server's client_disconnect_timer_handler. *)
SocksError ==
  /\ have_socks
  /\ FreeSocks
  /\ event' = NoEvent

-----------------------------------------------------------------------------
(* The server *)

(* connection_init with its first job, making room in the table first. *)
ServerConnectionInit(list, p) ==
  Append(IF Len(list) = ServerConnections THEN Tail(list) ELSE list,
         [conid |-> p.conid, addr |-> p.addr])

(* A datagram of packet p leaves through the socket opened for at. *)
Datagram(at, p) == event' = [what |-> "datagram", at |-> at, of |-> p.addr, told |-> p.told]

(* client_recv_if_handler_send: REBIND or another address closes the connection
   of this id; a missing one is made (or cannot be). *)
ServerReceive ==
  /\ toServer # <<>>
  /\ toServer' = Tail(toServer)
  /\ LET p == Head(toServer)
         found == ByConid(server, p.conid)
         stale == {i \in found : p.rebind \/ server[i].addr.remote # p.addr.remote}
         rest == IF stale = {} THEN server ELSE RemoveAt(server, CHOOSE i \in stale : TRUE)
     IN IF found \ stale # {}
        THEN \E i \in found :
               /\ server' = MoveToBack(server, i)
               /\ Datagram(server[i].addr, p)
        ELSE \/ /\ server' = ServerConnectionInit(rest, p)
                /\ Datagram(p.addr, p)
             \/ /\ server' = IF Len(rest) = ServerConnections THEN Tail(rest) ELSE rest
                /\ event' = NoEvent
  /\ UNCHANGED <<client, socks, toClient>>

(* connection_udp_recv_if_handler_send: a datagram comes back. *)
ServerReply ==
  /\ Len(toClient) < MaxWire
  /\ \E i \in DOMAIN server :
       /\ server' = MoveToBack(server, i)
       /\ toClient' = Append(toClient, server[i])
  /\ event' = NoEvent
  /\ UNCHANGED <<client, socks, toServer>>

(* connection_dgram_handler_event: the socket failed. *)
ServerUdpError ==
  /\ \E i \in DOMAIN server : server' = RemoveAt(server, i)
  /\ event' = NoEvent
  /\ UNCHANGED <<client, socks, wire>>

-----------------------------------------------------------------------------
Next ==
  \/ \E a \in Addresses : SubmitExisting(a) \/ SubmitReusing(a) \/ SubmitNew(a)
  \/ Receive
  \/ \E k \in ConIds : SendNext(k)
  \/ ReconnectTimer \/ SocksUp \/ SocksError
  \/ ServerReceive \/ ServerReply \/ ServerUdpError

Spec == Init /\ [][Next]_vars

-----------------------------------------------------------------------------
(* Properties *)

(* The ASSERTs on the tables: both of the client's trees and the server's one
   have one node per key, whatever was evicted, and the client's list does not
   outgrow its limit (find_unused_conid would loop for ever). *)
TablesConsistent ==
  /\ \A i, j \in DOMAIN connections : i # j =>
       connections[i].conid # connections[j].conid /\ connections[i].addr # connections[j].addr
  /\ \A i, j \in DOMAIN server : i # j => server[i].conid # server[j].conid
  /\ Len(connections) <= MaxConnections

(* UdpGwClient.c, udpgw.c: the tables and everything else in its range. *)
TablesSafe == TypeOK /\ TablesConsistent

(* UDP forwarding can always come back: either there is a SOCKS connection, or
   the timer that makes one runs, never both; and the udpgw client has a server
   exactly while that connection is up.  (socks_up is stale while there is no
   connection.) *)
WayBack ==
  /\ reconnect_timer = ~have_socks
  /\ have_server = (have_socks /\ socks_up)

(* A datagram leaves the server through the socket that was opened for its own
   flow, so that no two flows share a port and the answers of one cannot come to
   the other: the order in which the buffers, the fair queue and the SOCKS
   connection pass on the packets of an id brings the one with REBIND to the
   server before any other of the new owner, through takeovers, evictions at
   both ends, drops and reconnections.  The exception is an owner whose own
   packet with REBIND met a full buffer (connection_send): it inherits the socket
   of the previous owner if the two have the same remote address. *)
OwnSocket == event.what = "datagram" /\ event.told => event.at = event.of
=============================================================================
