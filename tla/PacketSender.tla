----------------------------- MODULE PacketSender -----------------------------
(***************************************************************************)
(* How packets get from the fair queue of the udpgw client into the stream *)
(* of a SOCKS connection: PacketPassConnector, which stays, and            *)
(* PacketStreamSender, which is made and freed with the connection         *)
(* (src/app/src/main/jni/badvpn/flow, UdpGwClient_ConnectServer and        *)
(* free_server of udpgw_client/UdpGwClient.c).                             *)
(*                                                                         *)
(* Packets are numbered in the order in which they come.  An interface is  *)
(* in one of the states of flow/PacketPassInterface.h; its pending jobs    *)
(* run one by one, and the connection may be lost between any two.         *)
(***************************************************************************)
EXTENDS Integers, Sequences

CONSTANTS
  PacketLengths, \* lengths of packets
  MaxSent,       \* bound: packets handed to the connector
  MaxStreams     \* bound: connections made

PacketSenderAssumption ==
  /\ PacketLengths \subseteq Nat \ {0}   \* they have a header (PACKETPROTO_ENCLEN)
  /\ MaxSent \in Nat /\ MaxStreams \in Nat

VARIABLES
  packet,   \* in_len of the connector: [no, len], or NoPacket
  taken,    \* how many packets the connector was given
  input,    \* state of the connector's input
  output,   \* whether the connector has an output
  handover, \* state of the sender's input, the connector's output
  in_len,   \* of the sender
  in_used,
  out,      \* state of the stream's interface, as the sender sees it
  done_len, \* what its done job will report
  stream,   \* what was written to the present stream: <<packet, byte>> each
  streams,  \* how many there were
  whole     \* packets that some stream has got to the last byte

vars == <<packet, taken, input, output, handover, in_len, in_used, out, done_len, stream,
          streams, whole>>

NoPacket == [no |-> 0, len |-> 0]
NoInput == -1
States == {"NONE", "OPERATION_PENDING", "BUSY", "DONE_PENDING"}

Init ==
  /\ packet = NoPacket /\ taken = 0 /\ input = "NONE" /\ output = FALSE
  /\ handover = "NONE" /\ in_len = NoInput /\ in_used = 0
  /\ out = "NONE" /\ done_len = 0
  /\ stream = <<>> /\ streams = 0 /\ whole = {}

sender == <<handover, in_len, in_used, out, done_len>>

-----------------------------------------------------------------------------
(* PacketPassConnector. *)

(* input_handler_send of the connector. *)
ConnectorInputHandlerSend ==
  /\ input = "NONE" /\ taken < MaxSent
  /\ \E l \in PacketLengths : packet' = [no |-> taken + 1, len |-> l]
  /\ taken' = taken + 1
  /\ input' = "BUSY"
  /\ handover' = IF output THEN "OPERATION_PENDING" ELSE handover
  /\ UNCHANGED <<output, in_len, in_used, out, done_len, stream, streams, whole>>

(* output_handler_done of the connector, when the sender's done job runs. *)
ConnectorOutputHandlerDone ==
  /\ handover = "DONE_PENDING"
  /\ handover' = "NONE"
  /\ packet' = NoPacket
  /\ input' = "DONE_PENDING"
  /\ UNCHANGED <<taken, output, in_len, in_used, out, done_len, stream, streams, whole>>

(* The done job of the input: the queue may hand over the next packet. *)
InputDone ==
  /\ input = "DONE_PENDING"
  /\ input' = "NONE"
  /\ UNCHANGED <<packet, taken, output, sender, stream, streams, whole>>

(* UdpGwClient_ConnectServer: a new sender, and ConnectOutput sends what waits
   for an output. *)
ConnectOutput ==
  /\ ~output /\ streams < MaxStreams
  /\ output' = TRUE
  /\ handover' = IF packet # NoPacket THEN "OPERATION_PENDING" ELSE "NONE"
  /\ in_len' = NoInput /\ in_used' = 0 /\ out' = "NONE" /\ done_len' = 0
  /\ streams' = streams + 1 /\ stream' = <<>>
  /\ UNCHANGED <<packet, taken, input, whole>>

(* free_server: the packet stays with the connector, the jobs of the sender go
   with it.  (The last connection of a behaviour is not lost.) *)
DisconnectOutput ==
  /\ output /\ streams < MaxStreams
  /\ output' = FALSE
  /\ handover' = "NONE"
  /\ in_len' = NoInput /\ in_used' = 0 /\ out' = "NONE" /\ done_len' = 0
  /\ UNCHANGED <<packet, taken, input, stream, streams, whole>>

-----------------------------------------------------------------------------
(* PacketStreamSender. *)

(* send_data: the rest of the packet, or the end of it. *)
SendData(len, used) ==
  /\ in_used' = used
  /\ IF used < len
     THEN in_len' = len /\ out' = "OPERATION_PENDING" /\ handover' = "BUSY"
     ELSE in_len' = NoInput /\ out' = "NONE" /\ handover' = "DONE_PENDING"

(* input_handler_send of the sender, when the job of its input runs. *)
SenderInputHandlerSend ==
  /\ handover = "OPERATION_PENDING"
  /\ SendData(packet.len, 0)
  /\ UNCHANGED <<packet, taken, input, output, done_len, stream, streams, whole>>

(* output_handler_done of the sender. *)
SenderOutputHandlerDone ==
  /\ out = "DONE_PENDING"
  /\ done_len' = 0
  /\ SendData(in_len, in_used + done_len)
  /\ UNCHANGED <<packet, taken, input, output, stream, streams, whole>>

(* The connection writes some of the bytes it was given (Connection.tla). *)
Written ==
  /\ out = "OPERATION_PENDING"
  /\ \E n \in 1..(in_len - in_used) :
       /\ done_len' = n
       /\ stream' = stream \o [i \in 1..n |-> <<packet.no, in_used + i>>]
       /\ whole' = IF in_used + n = in_len THEN whole \cup {packet.no} ELSE whole
  /\ out' = "DONE_PENDING"
  /\ UNCHANGED <<packet, taken, input, output, handover, in_len, in_used, streams>>

SenderJobs ==
  \/ SenderInputHandlerSend \/ SenderOutputHandlerDone \/ Written

Next ==
  \/ ConnectorInputHandlerSend \/ ConnectorOutputHandlerDone \/ InputDone
  \/ ConnectOutput \/ DisconnectOutput \/ SenderJobs

Spec == Init /\ [][Next]_vars

-----------------------------------------------------------------------------
TypeOK ==
  /\ packet.no \in 0..MaxSent /\ packet.len \in Nat /\ taken \in 0..MaxSent
  /\ {input, handover, out} \subseteq States
  /\ output \in BOOLEAN /\ streams \in 0..MaxStreams /\ whole \subseteq 1..MaxSent
  /\ in_used \in Nat /\ in_len \in Nat \cup {NoInput} /\ done_len \in Nat

(* The decoder at the other end can take every stream apart: a packet follows
   the last byte of another one, in the order of the queue and not twice, and the
   first one begins with its first byte, also when the connection before was
   lost in the middle of that packet (PacketPassConnector_ConnectOutput). *)
StreamIsPackets ==
  \A i \in DOMAIN stream :
    LET b == stream[i] IN
    IF b[2] > 1
    THEN i > 1 /\ stream[i - 1] = <<b[1], b[2] - 1>>
    ELSE i > 1 => stream[i - 1][1] < b[1] /\ stream[i - 1][1] \in whole

(* No packet is skipped: a packet that the connector has let go of was written
   to the last byte to some stream. *)
NoPacketSkipped ==
  \A p \in 1..taken : p \in whole \/ packet.no = p

(* The interfaces hold together whenever a connection is lost: a packet is held
   exactly while the input is busy, and its sending is under way exactly while
   there is an output (the ASSERTs on in_len of both files). *)
HandoversAgree ==
  /\ packet # NoPacket <=> input = "BUSY"
  /\ (output /\ packet # NoPacket) <=> handover # "NONE"
  /\ handover = "BUSY" <=> in_len # NoInput
  /\ in_len # NoInput => in_len = packet.len /\ in_used + done_len <= in_len /\ out # "NONE"

(* Every packet gets through in the end, provided that there is a connection
   again after one was lost (SocksUdpGwClient reconnects), and not for ever lost
   ones: the packet that was cut off is not forgotten. *)
EveryPacketSent == \A p \in 1..MaxSent : packet.no = p ~> p \in whole

(* PacketPassConnector.c and PacketStreamSender.c as a whole. *)
SenderSafe == TypeOK /\ StreamIsPackets /\ NoPacketSkipped /\ HandoversAgree
=============================================================================
