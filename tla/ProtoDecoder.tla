------------------------------ MODULE ProtoDecoder ------------------------------
(***************************************************************************)
(* PacketProtoDecoder.c: packets of at most OutputMtu bytes are cut out of *)
(* the byte stream of the udpgw server.  Each is preceded by a header with *)
(* its length.  The buffer has room for exactly one packet of full length; *)
(* what is left of it is moved to the front only when its end is reached.  *)
(*                                                                         *)
(* A byte is represented by its offset in the stream.                      *)
(***************************************************************************)
EXTENDS Integers, Sequences

CONSTANTS
  HeaderSize,     \* sizeof(struct packetproto_header)
  OutputMtu,      \* output_mtu
  Lengths,        \* the lengths of packets the server may send
  MaxPackets      \* bound: packets in the stream

DecoderAssumption ==
  /\ HeaderSize \in Nat \ {0} /\ OutputMtu \in Nat
  /\ Lengths \subseteq Nat /\ MaxPackets \in Nat

BufSize == HeaderSize + OutputMtu       \* PACKETPROTO_ENCLEN

VARIABLES
  buf, buf_start, buf_used,
  receiving,      \* whether a receive into the rest of the buffer is under way
  sending,        \* the packet handed to the output, as its bytes, or NoPacket
  state,          \* running, or failed once handler_error was called
  stream,         \* lengths of the packets the server has sent
  boundary,       \* offset at which the next packet to decode begins
  decoded,        \* number of packets decoded
  arrived,        \* offset of the next byte to arrive
  total           \* bytes sent by the server

vars == <<buf, buf_start, buf_used, receiving, sending, state, stream, boundary, decoded,
          arrived, total>>

NoPacket == <<-1>>

TypeOK ==
  /\ buf \in [0..(BufSize - 1) -> -1..(arrived - 1)]
  /\ buf_start \in 0..BufSize /\ buf_used \in 0..BufSize
  /\ receiving \in BOOLEAN
  /\ state \in {"running", "failed"}
  /\ stream \in Seq(Lengths) /\ decoded \in 0..Len(stream)
  /\ total \in Nat /\ boundary \in 0..total /\ arrived \in 0..total

(* PacketProtoDecoder_Init *)
Init ==
  /\ buf = [i \in 0..(BufSize - 1) |-> -1] /\ buf_start = 0 /\ buf_used = 0
  /\ receiving = TRUE /\ sending = NoPacket /\ state = "running"
  /\ stream = <<>> /\ boundary = 0 /\ decoded = 0 /\ arrived = 0 /\ total = 0

-----------------------------------------------------------------------------
(* Environment: the server sends a packet. *)
ServerSends(len) ==
  /\ Len(stream) < MaxPackets
  /\ stream' = Append(stream, len)
  /\ total' = total + HeaderSize + len
  /\ UNCHANGED <<buf, buf_start, buf_used, receiving, sending, state, boundary, decoded, arrived>>

(* The end of process_data: what is left goes to the front of the buffer when
   its end is reached. *)
MakeRoom(b, used) ==
  IF buf_start + used = BufSize
  THEN [start |-> 0, buf |-> [i \in DOMAIN b |-> IF i < used THEN b[buf_start + i] ELSE b[i]]]
  ELSE [start |-> buf_start, buf |-> b]

(* process_data, with the buffer's contents b and the number of bytes used: cut
   off the next packet if it is there; report one that is too long; else make
   room when the end is reached, and receive. *)
ProcessData(b, used) ==
  LET next == stream[decoded + 1]
      whole == used >= HeaderSize /\ next <= OutputMtu /\ used - HeaderSize >= next
      tooLong == used >= HeaderSize /\ next > OutputMtu
  IN
  \/ /\ whole
     /\ buf_start' = buf_start + HeaderSize + next
     /\ buf_used' = used - (HeaderSize + next)
     /\ sending' = [i \in 1..next |-> b[buf_start + HeaderSize + i - 1]]
     /\ boundary' = boundary + HeaderSize + next /\ decoded' = decoded + 1
     /\ buf' = b /\ receiving' = FALSE /\ UNCHANGED state
  \/ /\ ~whole /\ tooLong
     /\ buf_start' = 0 /\ buf_used' = 0 /\ receiving' = TRUE /\ sending' = NoPacket
     /\ state' = "failed"
     /\ buf' = b /\ UNCHANGED <<boundary, decoded>>
  \/ /\ ~whole /\ ~tooLong
     /\ buf_start' = MakeRoom(b, used).start /\ buf' = MakeRoom(b, used).buf
     /\ buf_used' = used /\ receiving' = TRUE /\ sending' = NoPacket
     /\ UNCHANGED <<boundary, decoded, state>>

(* input_handler_done: n bytes of the stream were received. *)
InputHandlerDone(n) ==
  LET at == buf_start + buf_used IN
  /\ state = "running" /\ receiving
  /\ n <= BufSize - at /\ arrived + n <= total
  /\ arrived' = arrived + n
  /\ ProcessData([i \in DOMAIN buf |-> IF i \in at..(at + n - 1) THEN arrived + i - at ELSE buf[i]],
                 buf_used + n)
  /\ UNCHANGED <<stream, total>>

(* output_handler_done: the output has taken the packet. *)
OutputHandlerDone ==
  /\ state = "running" /\ sending # NoPacket
  /\ ProcessData(buf, buf_used)
  /\ UNCHANGED <<stream, total, arrived>>

Receives == \E n \in 1..BufSize : InputHandlerDone(n)

Next ==
  \/ \E len \in Lengths : ServerSends(len)
  \/ Receives
  \/ OutputHandlerDone

Spec == Init /\ [][Next]_vars

-----------------------------------------------------------------------------
(* Properties *)

(* However the stream is cut into pieces, the packet handed out last consists
   of exactly the payload bytes of that packet, in order, and the next header
   is read where the next packet begins. *)
PacketsIntact ==
  /\ sending # NoPacket =>
       LET len == stream[decoded] IN
       /\ Len(sending) = len
       /\ \A i \in 1..len : sending[i] = boundary - len + i - 1
  /\ buf_used > 0 /\ state = "running" => buf[buf_start] = boundary

(* A receive always has room for a byte (the ASSERT of the receiver), although
   the buffer is only moved when its end is reached. *)
RoomToReceive ==
  state = "running" /\ receiving => buf_start + buf_used < BufSize

(* Every packet of the server is decoded, unless a packet that is too long was
   met and reported. *)
EveryPacketDecoded ==
  \A k \in 1..MaxPackets : Len(stream) >= k ~> (decoded >= k \/ state = "failed")

(* PacketProtoDecoder.c: the packets are the ones sent, and there is room. *)
DecoderSafe == TypeOK /\ PacketsIntact /\ RoomToReceive
=============================================================================
