-------------------------------- MODULE MCBadvpn --------------------------------
(***************************************************************************)
(* The parts of badvpn that tun2socks stands on: the event loop, the      *)
(* stream connections, and the flow modules that carry UDP between         *)
(* tun2socks and the udpgw server (the fair queue, the packet buffer, the  *)
(* sender into the stream and the decoder).  Each is checked on its own:   *)
(* part says which of them a behaviour is about, and the others stay as    *)
(* they were initialised.                                                  *)
(*                                                                         *)
(* The queue is there twice: with its flows all living as long as itself,  *)
(* as in tun2socks, and with flows freed one by one ("churn").             *)
(***************************************************************************)
EXTENDS Integers, Sequences

CONSTANTS
  Flows, MaxTime, Mtu, PacketWeight,                     \* of FairQueue
  BlockSize, InputMtu, NumPackets, Packets,              \* of PacketBuffer
  HeaderSize, OutputMtu, Lengths, MaxPackets,            \* of ProtoDecoder
  Jobs, DeviceJobs, Timers, Fds, Null, After, Limit, MaxLate,   \* of Reactor
  IoLimit, Room, MaxArrivals, MaxInits,                  \* of Connection
  PacketLengths, MaxSent, MaxStreams                     \* of PacketSender

VARIABLES
  part,
  time, queued, alive, sending_flow, sending_len, previous_flow, schedule_job,
  mem, wrap, start, used, input_dest, input_avail, output_dest, output_avail,
  pb_receiving, pb_sending, pb_queue,
  buf, buf_start, buf_used, pd_receiving, pd_sending, pd_state, stream, boundary, decoded,
  arrived, total,
  pc, jobs, state, left, expired, active, waits, results, returned, count,
  connector, con, is_hupd, wait, send, recv, sendIf, recvIf, inits, spent, cn_jobs, fd,
  registered, result, kernel,
  packet, taken, input, output, handover, in_len, in_used, out, done_len, ps_stream,
  streams, whole

queue == <<time, queued, alive, sending_flow, sending_len, previous_flow, schedule_job>>
buffer == <<mem, wrap, start, used, input_dest, input_avail, output_dest, output_avail,
            pb_receiving, pb_sending, pb_queue>>
decoder == <<buf, buf_start, buf_used, pd_receiving, pd_sending, pd_state, stream, boundary,
             decoded, arrived, total>>
loop == <<pc, jobs, state, left, expired, active, waits, results, returned, count>>
connection == <<connector, con, is_hupd, wait, send, recv, sendIf, recvIf, inits, spent, cn_jobs,
                fd, registered, result, kernel>>
sender == <<packet, taken, input, output, handover, in_len, in_used, out, done_len, ps_stream,
            streams, whole>>
all == <<part, queue, buffer, decoder, loop, connection, sender>>

Queue == INSTANCE FairQueue WITH Churn <- FALSE
Churning == INSTANCE FairQueue WITH Churn <- TRUE
Buffer == INSTANCE PacketBuffer
            WITH receiving <- pb_receiving, sending <- pb_sending, queue <- pb_queue
Decoder == INSTANCE ProtoDecoder
             WITH receiving <- pd_receiving, sending <- pd_sending, state <- pd_state
Reactor == INSTANCE Reactor
Connection == INSTANCE Connection WITH jobs <- cn_jobs
Sender == INSTANCE PacketSender WITH stream <- ps_stream

ASSUME FlowAssumption ==
  /\ Queue!FairQueueAssumption /\ Buffer!PacketBufferAssumption
  /\ Decoder!DecoderAssumption /\ Reactor!ReactorAssumption
  /\ Connection!ConnectionAssumption /\ Sender!PacketSenderAssumption

Init ==
  /\ part \in {"queue", "churn", "buffer", "decoder", "reactor", "connection", "sender"}
  /\ Queue!Init /\ Buffer!Init /\ Decoder!Init /\ Reactor!Init
  /\ Connection!Init /\ Sender!Init

Next ==
  /\ UNCHANGED part
  /\ \/ part = "queue" /\ Queue!Next /\ UNCHANGED <<buffer, decoder, loop, connection, sender>>
     \/ part = "churn" /\ Churning!Next /\ UNCHANGED <<buffer, decoder, loop, connection, sender>>
     \/ part = "buffer" /\ Buffer!Next /\ UNCHANGED <<queue, decoder, loop, connection, sender>>
     \/ part = "decoder" /\ Decoder!Next /\ UNCHANGED <<queue, buffer, loop, connection, sender>>
     \/ part = "reactor" /\ Reactor!Next /\ UNCHANGED <<queue, buffer, decoder, connection, sender>>
     \/ part = "connection" /\ Connection!Next /\ UNCHANGED <<queue, buffer, decoder, loop, sender>>
     \/ part = "sender" /\ Sender!Next /\ UNCHANGED <<queue, buffer, decoder, loop, connection>>

(* The output takes what it is given and the reactor runs its jobs; bytes that
   were sent arrive; handlers return, the loop goes on, and epoll_wait returns
   when its time is over.  epoll_wait returns a limited number of descriptors and
   may return others first, but the kernel goes round: strong fairness.  A lost
   connection of the udpgw client is followed by another one. *)
Fairness ==
  /\ WF_queue(part = "queue" /\ Queue!OutputHandlerDone)
  /\ WF_queue(part = "queue" /\ Queue!ScheduleJobHandler)
  /\ WF_decoder(part = "decoder" /\ Decoder!Receives)
  /\ WF_decoder(part = "decoder" /\ Decoder!OutputHandlerDone)
  /\ WF_loop(part = "reactor" /\ Reactor!HandlerReturns)
  /\ WF_loop(part = "reactor" /\ Reactor!Exec)
  /\ WF_loop(part = "reactor" /\ Reactor!EpollTimesOut)
  /\ WF_connection(part = "connection" /\ Connection!Loop)
  /\ SF_connection(part = "connection" /\ Connection!EpollWait /\ result' # {})
  /\ WF_sender(part = "sender" /\ Sender!ConnectOutput)
  /\ WF_sender(part = "sender" /\ Sender!SenderJobs)

Spec == Init /\ [][Next]_all /\ Fairness

-----------------------------------------------------------------------------
(* PacketPassFairQueue.c: its ASSERTs about who sends, is queued or was last hold,
   and nobody saves up time to get ahead of who waited, with flows coming and
   going too. *)
QueueSafe == Queue!QueueSafe

(* Packets stay whole and in order on their way.  PacketBuffer.c: what is sent is
   the oldest packet; the places cached are current and the one a receive writes
   to does not move; as many packets fit as were asked for, wherever it wraps.
   PacketStreamSender.c, PacketPassConnector.c: a stream is made of whole packets,
   and none is skipped when a connection is lost.  PacketProtoDecoder.c: the
   packets handed out are the ones sent, and a receive always has room for a byte. *)
PacketsSafe == Buffer!BufferSafe /\ Sender!SenderSafe /\ Decoder!DecoderSafe

(* BReactor_badvpn.c, BPending.c: no event goes to a descriptor removed since
   epoll_wait, and a timer or job set anew is pending once. *)
ReactorSafe == Reactor!ReactorSafe

(* BConnection_unix.c: what is under way on a connection is watched for, also when
   it hangs up, and its descriptor has one owner and is closed once. *)
ConnectionSafe == Connection!ConnectionSafe

(* A flow with a packet gets to send it, as long as no flow is freed
   (PacketPassFairQueue.c); every packet is sent although connections are lost
   (PacketPassConnector.c) and decoded, unless one was too long
   (PacketProtoDecoder.c); neither the jobs of connections nor descriptors keep a
   due timer waiting, nor does the device if it is ever read empty again
   (BReactor_badvpn.c); what has arrived reaches the receive that waits for it
   (BConnection_unix.c). *)
NobodyStarves ==
  /\ part = "queue" => Queue!EveryFlowServed
  /\ part = "decoder" => Decoder!EveryPacketDecoded
  /\ part = "reactor" => Reactor!EveryTimerFires
  /\ part = "connection" => Connection!EveryReceiveEnds
  /\ part = "sender" => Sender!EveryPacketSent
=============================================================================
