------------------------------ MODULE PacketBuffer ------------------------------
(***************************************************************************)
(* PacketBuffer.c over the circular packet buffer ChunkBuffer2.h, through  *)
(* which every packet to the udpgw server passes.  A packet lies in one    *)
(* piece: a header block with its length, then its data; near the end of   *)
(* the memory the buffer wraps early when a packet of MTU length would no  *)
(* longer fit.  The input writes straight into the memory and the output   *)
(* reads straight from it, each while the other end moves.                 *)
(*                                                                         *)
(* Lengths are in bytes, positions and sizes in blocks.  Block contents    *)
(* are abstracted to which packet wrote them.                              *)
(***************************************************************************)
EXTENDS Integers, Sequences

CONSTANTS
  BlockSize,      \* sizeof(struct ChunkBuffer2_block)
  InputMtu,       \* input_mtu, in bytes
  NumPackets,     \* num_packets of PacketBuffer_Init
  Packets         \* contents of packets

PacketBufferAssumption ==
  BlockSize \in Nat \ {0} /\ InputMtu \in Nat /\ NumPackets \in Nat \ {0}

Blocks(bytes) == (bytes + BlockSize - 1) \div BlockSize     \* bdivide_up
MtuBlocks == Blocks(InputMtu)

(* ChunkBuffer2_calc_blocks *)
Size == (1 + MtuBlocks) * (NumPackets + 1)

NoDest == -1
None == -1

VARIABLES
  mem,                        \* buffer
  wrap, start, used,
  input_dest, input_avail, output_dest, output_avail,
  receiving,                  \* where the receive that is under way writes
  sending,                    \* what the send that is under way reads
  queue                       \* the packets accepted and not yet sent, for the properties

region == <<wrap, start, used>>
vars == <<mem, region, input_dest, input_avail, output_dest, output_avail,
          receiving, sending, queue>>

Cells == [what : {"len"}, len : 0..InputMtu] \cup [what : {"data"}, of : Packets] \cup {[what |-> "garbage"]}

TypeOK ==
  /\ mem \in [0..(Size - 1) -> Cells]
  /\ wrap \in 1..Size /\ start \in 0..(Size - 1) /\ used \in 0..Size
  /\ input_dest \in {NoDest} \cup 1..Size /\ input_avail \in None..(Size * BlockSize)
  /\ output_dest \in {NoDest} \cup 1..Size /\ output_avail \in None..InputMtu
  /\ receiving \in {NoDest} \cup 1..Size
  /\ sending \in [dest : {NoDest} \cup 1..Size, len : None..InputMtu]
  /\ queue \in Seq([of : Packets, len : 0..InputMtu])

-----------------------------------------------------------------------------
(* ChunkBuffer2 *)

End(s, u, w) == IF u >= w - s THEN u - (w - s) ELSE s + u      \* _ChunkBuffer2_end

Free(s, u, w) == IF u >= w - s THEN s - End(s, u, w) ELSE Size - End(s, u, w)

CanTake(s, u, w) == Size - End(s, u, w) - 1 >= MtuBlocks /\ Free(s, u, w) > 0

(* _ChunkBuffer2_update_input *)
InputDest(s, u, w) == IF CanTake(s, u, w) THEN End(s, u, w) + 1 ELSE NoDest
InputAvail(s, u, w) == IF CanTake(s, u, w) THEN (Free(s, u, w) - 1) * BlockSize ELSE None

(* _ChunkBuffer2_update_output *)
OutputDest(s, u) == IF u > 0 THEN s + 1 ELSE NoDest
OutputAvail(m, s, u) == IF u > 0 THEN m[s].len ELSE None

(* ChunkBuffer2_SubmitPacket, the data of packet p having been written where
   the receive was told to. *)
SubmitPacket(p, len) ==
  LET end == End(start, used, wrap)
      bl == Blocks(len)
      u == used + 1 + bl
      w == IF u <= wrap - start /\ MtuBlocks > Size - (end + 1 + bl) - 1 THEN end + 1 + bl ELSE wrap
      m == [i \in DOMAIN mem |->
              IF i = end THEN [what |-> "len", len |-> len]
              ELSE IF i \in receiving..(receiving + bl - 1) THEN [what |-> "data", of |-> p]
              ELSE mem[i]]
  IN
  /\ mem' = m
  /\ used' = u /\ wrap' = w /\ UNCHANGED start
  /\ input_dest' = InputDest(start, u, w) /\ input_avail' = InputAvail(start, u, w)
  /\ IF u = 1 + bl
     THEN output_dest' = OutputDest(start, u) /\ output_avail' = OutputAvail(m, start, u)
     ELSE UNCHANGED <<output_dest, output_avail>>

ConsumeRewinds ==   \* Mutant: an emptied buffer starts again at the beginning of the memory
  LET bl == Blocks(mem[start].len)
      end == start + 1 + bl
      u == used - (1 + bl)
      s == IF end = wrap \/ u = 0 THEN 0 ELSE end
      w == IF end = wrap THEN Size ELSE wrap
  IN
  /\ start' = s /\ used' = u /\ wrap' = w
  /\ input_dest' = InputDest(s, u, w) /\ input_avail' = InputAvail(s, u, w)
  /\ output_dest' = OutputDest(s, u) /\ output_avail' = OutputAvail(mem, s, u)
  /\ UNCHANGED mem

(* ChunkBuffer2_ConsumePacket *)
ConsumePacket ==
  LET bl == Blocks(mem[start].len)
      end == start + 1 + bl
      s == IF end = wrap THEN 0 ELSE end
      w == IF end = wrap THEN Size ELSE wrap
      u == used - (1 + bl)
  IN
  /\ start' = s /\ used' = u /\ wrap' = w
  /\ IF used >= wrap - start        \* data_wrapped
     THEN input_dest' = InputDest(s, u, w) /\ input_avail' = InputAvail(s, u, w)
     ELSE UNCHANGED <<input_dest, input_avail>>
  /\ output_dest' = OutputDest(s, u) /\ output_avail' = OutputAvail(mem, s, u)
  /\ UNCHANGED mem

-----------------------------------------------------------------------------
(* PacketBuffer *)

(* PacketBuffer_Init and ChunkBuffer2_Init *)
Init ==
  /\ mem = [i \in 0..(Size - 1) |-> [what |-> "garbage"]]
  /\ wrap = Size /\ start = 0 /\ used = 0
  /\ input_dest = InputDest(0, 0, Size) /\ input_avail = InputAvail(0, 0, Size)
  /\ output_dest = NoDest /\ output_avail = None
  /\ receiving = input_dest
  /\ sending = [dest |-> NoDest, len |-> None]
  /\ queue = <<>>

(* input_handler_done: a packet was received. *)
InputHandlerDone(p, len) ==
  /\ receiving # NoDest
  /\ SubmitPacket(p, len)
  /\ receiving' = IF input_avail' >= InputMtu THEN input_dest' ELSE NoDest
  /\ sending' = IF output_avail < 0 THEN [dest |-> output_dest', len |-> output_avail'] ELSE sending
  /\ queue' = Append(queue, [of |-> p, len |-> len])

(* output_handler_done: the first packet was sent. *)
OutputHandlerDone ==
  /\ sending.dest # NoDest
  /\ ConsumePacket
  /\ receiving' = IF input_avail < InputMtu /\ input_avail' >= InputMtu THEN input_dest' ELSE receiving
  /\ sending' = IF output_avail' >= 0 THEN [dest |-> output_dest', len |-> output_avail']
                                      ELSE [dest |-> NoDest, len |-> None]
  /\ queue' = Tail(queue)

Next ==
  \/ \E p \in Packets, len \in 0..InputMtu : InputHandlerDone(p, len)
  \/ OutputHandlerDone

Spec == Init /\ [][Next]_vars

-----------------------------------------------------------------------------
(* Properties *)

(* _ChunkBuffer2_assert_buffer and _ChunkBuffer2_assert_io: the cached places
   of input and output are what recomputing them would give, although
   ConsumePacket and SubmitPacket skip the update in some cases. *)
CachedIoIsCurrent ==
  /\ start < wrap /\ used <= wrap /\ (wrap = Size \/ used >= wrap - start)
  /\ input_dest = InputDest(start, used, wrap) /\ input_avail = InputAvail(start, used, wrap)
  /\ output_dest = OutputDest(start, used) /\ output_avail = OutputAvail(mem, start, used)

(* The place a receive was told to write to does not move while it is under
   way: what arrives is where SubmitPacket takes it to be. *)
ReceiveStaysValid ==
  receiving # NoDest => receiving = input_dest /\ receiving + MtuBlocks <= Size

(* What the send that is under way reads is the oldest packet, whole and not
   overwritten by the packets received meanwhile; there is one exactly while
   there are packets. *)
SendsOldestIntact ==
  /\ (sending.dest = NoDest) = (queue = <<>>)
  /\ queue # <<>> =>
       /\ sending.len = Head(queue).len
       /\ \A i \in 0..(Blocks(sending.len) - 1) :
            mem[sending.dest + i] = [what |-> "data", of |-> Head(queue).of]

(* "a buffer size needed to hold at least 'num' packets": while it holds fewer
   than NumPackets the buffer is receiving, whatever their lengths and wherever
   it had to wrap; and room that a sent packet leaves is never overlooked. *)
HoldsNumPackets ==
  /\ Len(queue) < NumPackets => receiving # NoDest
  /\ (receiving # NoDest) = (input_avail >= InputMtu)

(* PacketBuffer.c, ChunkBuffer2.h: places, packets and room are as they should. *)
BufferSafe == 
  /\ TypeOK /\ CachedIoIsCurrent /\ ReceiveStaysValid
  /\ SendsOldestIntact /\ HoldsNumPackets
=============================================================================
