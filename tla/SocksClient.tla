------------------------------ MODULE SocksClient ------------------------------
(***************************************************************************)
(* BSocksClient.c: the SOCKS5 handshake of one TCP connection with the     *)
(* local proxy of the tunnel core.  Requests are written into, and replies *)
(* read into, one buffer that is reallocated before every exchange.        *)
(* Replies arrive in pieces of any length, and the bytes of the            *)
(* destination follow the last one without a gap, so that reading one byte *)
(* too many loses data and waiting for one too many hangs.                 *)
(*                                                                         *)
(* The user of the client (tun2socks.c client_socks_handler,               *)
(* SocksUdpGwClient.c socks_client_handler) frees it when it reports an    *)
(* error, and at any time for reasons of its own.                          *)
(***************************************************************************)
EXTENDS Integers, FiniteSets, FiniteSetsExt

CONSTANTS
  AuthInfo,       \* authentication methods offered, of {"none", "password"}
  PasswordSize,   \* length of a user name and of a password
  MaxStream       \* bound: bytes of the destination in the stream

AuthAssumption ==
  /\ AuthInfo \subseteq {"none", "password"}
  /\ PasswordSize \in Nat /\ MaxStream \in Nat

\* socks_proto.h: the sizes of the messages.
HelloSize == 2          \* struct socks_server_hello
HeaderSize == 4         \* struct socks_request_header, struct socks_reply_header
AddrSize(atyp) == IF atyp = "ipv4" THEN 6 ELSE 18
Atyps == {"ipv4", "ipv6"}

VARIABLES
  state,          \* STATE_..., or FREED
  dest_addr,      \* the type of the destination's address
  buffer,         \* the allocated block: [id, size]; size 0 is NULL
  io,             \* the operation under way on the connection, if any
  held,           \* what is initialised: connector, con, control, up
  misfreed,       \* whether something was freed that was not initialised
  server,         \* the message the proxy has to answer, if any, or relay
  reply,          \* the fields of the replies the proxy has sent
  shake,          \* bytes of the handshake the proxy has sent
  sent,           \* bytes the proxy has sent, the destination's included
  taken           \* bytes the client has received during the handshake

vars == <<state, dest_addr, buffer, io, held, misfreed, server, reply, shake, sent, taken>>
proxy == <<server, reply, shake, sent>>

NoBuffer == [id |-> 0, size |-> 0]
Idle == [kind |-> "idle", block |-> NoBuffer, base |-> 0, len |-> 0, total |-> 0]
NoReply == [ver |-> TRUE, method |-> "none", status |-> TRUE, atyp |-> "ipv4"]

TypeOK ==
  /\ state \in {"CONNECTING", "SENDING_HELLO", "SENT_HELLO", "SENDING_PASSWORD",
                "SENT_PASSWORD", "SENDING_REQUEST", "SENT_REQUEST",
                "RECEIVED_REPLY_HEADER", "UP", "FREED"}
  /\ dest_addr \in Atyps
  /\ buffer \in [id : Nat, size : Nat]
  /\ io \in [kind : {"idle", "send", "sent", "recv"}, block : [id : Nat, size : Nat],
             base : Nat, len : Nat, total : Nat]
  /\ (io.kind = "recv") => (io.len < io.total)      \* ASSERT in do_receive
  /\ held \subseteq {"connector", "con", "control", "up"}
  /\ misfreed \in BOOLEAN
  /\ server \in {"idle", "hello", "password", "request", "relay"}
  /\ reply \in [ver : BOOLEAN, method : {"none", "password", "other"},
                status : BOOLEAN, atyp : Atyps \cup {"other"}]
  /\ shake \in Nat /\ sent \in Nat /\ taken \in Nat

\* No client yet: BSocksClientInit creates one.
Init ==
  /\ state = "FREED" /\ dest_addr = "ipv4" /\ buffer = NoBuffer /\ io = Idle
  /\ held = {} /\ misfreed = FALSE
  /\ server = "idle" /\ reply = NoReply /\ shake = 0 /\ sent = 0 /\ taken = 0

-----------------------------------------------------------------------------
\* BSocksClient_Free, with what it finds initialised.
Free(h) ==
  LET freed == {"connector"} \cup
               (CASE state = "CONNECTING" -> {}
                  [] state = "UP" -> {"con", "up"}
                  [] OTHER -> {"con", "control"})
  IN  /\ state' = "FREED" /\ held' = h \ freed
      /\ misfreed' = (misfreed \/ ~(freed \subseteq h))
      /\ buffer' = NoBuffer /\ io' = Idle

\* report_error: both users free the client in their handler.
ReportError == Free(held) /\ UNCHANGED <<dest_addr, proxy>>

\* reserve_buffer.  It may fail; the caller then reports an error.
Reserved(size) == [id |-> buffer.id + 1, size |-> size]

Send(size) ==
  /\ buffer' = Reserved(size)
  /\ io' = [Idle EXCEPT !.kind = "send", !.block = Reserved(size), !.total = size]

\* start_receive into the block b.
StartReceive(b, base, total) ==
  io' = [kind |-> "recv", block |-> b, base |-> base, len |-> 0, total |-> total]

\* auth_finished: the request is sent.
AuthFinished ==
  /\ Send(HeaderSize + AddrSize(dest_addr)) /\ state' = "SENDING_REQUEST"

-----------------------------------------------------------------------------
\* connector_handler: connected, and the hello is sent.
ConnectorHandler ==
  /\ state = "CONNECTING" /\ AuthInfo # {}
  /\ held' = held \cup {"con", "control"}
  /\ Send(HelloSize + Cardinality(AuthInfo)) /\ state' = "SENDING_HELLO"
  /\ UNCHANGED <<dest_addr, misfreed, proxy, taken>>

\* connector_handler: not connected, or BConnection_Init failed (fail0), or no
\* buffer or no method to offer (fail1, which frees what it initialised itself
\* and leaves the state at STATE_CONNECTING).
ConnectorFails ==
  /\ state = "CONNECTING"
  /\ ReportError /\ UNCHANGED taken

\* PacketStreamSender: the last byte of the message is handed to the kernel.
MessageSent ==
  /\ io.kind = "send"
  /\ io' = [io EXCEPT !.kind = "sent"]
  /\ server' = CASE state = "SENDING_HELLO" -> "hello"
                 [] state = "SENDING_PASSWORD" -> "password"
                 [] state = "SENDING_REQUEST" -> "request"
  /\ UNCHANGED <<state, dest_addr, buffer, held, misfreed, reply, shake, sent, taken>>

\* Mutant: a status byte too many is expected from the password reply.
SendDoneExpectsThree ==
  /\ io.kind = "sent"
  /\ LET size == CASE state = "SENDING_HELLO" -> HelloSize
                   [] state = "SENDING_PASSWORD" -> 3
                   [] state = "SENDING_REQUEST" -> HeaderSize + AddrSize("ipv6")
     IN  /\ buffer' = Reserved(size)
         /\ StartReceive(Reserved(size), 0,
                         IF state = "SENDING_REQUEST" THEN HeaderSize ELSE size)
  /\ state' = CASE state = "SENDING_HELLO" -> "SENT_HELLO"
                [] state = "SENDING_PASSWORD" -> "SENT_PASSWORD"
                [] state = "SENDING_REQUEST" -> "SENT_REQUEST"
  /\ UNCHANGED <<dest_addr, held, misfreed, proxy, taken>>

\* send_handler_done: a buffer for the answer is reserved and its receipt started.
SendHandlerDone ==
  /\ io.kind = "sent"
  /\ \/ /\ state = "SENDING_HELLO" /\ state' = "SENT_HELLO"
        /\ buffer' = Reserved(HelloSize) /\ StartReceive(buffer', 0, HelloSize)
     \/ /\ state = "SENDING_PASSWORD" /\ state' = "SENT_PASSWORD"
        /\ buffer' = Reserved(2) /\ StartReceive(buffer', 0, 2)
     \/ /\ state = "SENDING_REQUEST" /\ state' = "SENT_REQUEST"
        /\ buffer' = Reserved(HeaderSize + Max({AddrSize(a) : a \in Atyps}))
        /\ StartReceive(buffer', 0, HeaderSize)
  /\ UNCHANGED <<dest_addr, held, misfreed, proxy, taken>>

\* reserve_buffer failed in send_handler_done.
SendHandlerFails ==
  /\ io.kind = "sent" /\ ReportError /\ UNCHANGED taken

-----------------------------------------------------------------------------
\* recv_handler_done with n more bytes.
Receives(n) ==
  /\ io.kind = "recv"
  /\ n <= sent - taken /\ n <= io.total - io.len
  /\ taken' = taken + n

\* Not all of the message yet: do_receive for the rest.
ReceivePart ==
  /\ \E n \in 1..(io.total - io.len - 1) :
       Receives(n) /\ io' = [io EXCEPT !.len = io.len + n]
  /\ UNCHANGED <<state, dest_addr, buffer, held, misfreed, proxy>>

\* All of it.
ReceiveAll == Receives(io.total - io.len)

\* STATE_SENT_HELLO.
ReceivedHello ==
  /\ state = "SENT_HELLO" /\ ReceiveAll
  /\ \/ /\ reply.ver /\ reply.method \in AuthInfo
        /\ \/ reply.method = "none" /\ AuthFinished
           \/ /\ reply.method = "password" /\ PasswordSize \in 1..255
              /\ Send(3 + 2 * PasswordSize) /\ state' = "SENDING_PASSWORD"
        /\ UNCHANGED <<dest_addr, held, misfreed, proxy>>
     \/ ReportError        \* refused, or reserve_buffer failed

\* STATE_SENT_PASSWORD.
ReceivedPasswordReply ==
  /\ state = "SENT_PASSWORD" /\ ReceiveAll
  /\ \/ /\ reply.ver /\ reply.status /\ AuthFinished
        /\ UNCHANGED <<dest_addr, held, misfreed, proxy>>
     \/ ReportError

HeaderTrustsRequest ==                  \* Mutant: the length of the request's address
  /\ state = "SENT_REQUEST" /\ ReceiveAll
  /\ \/ /\ reply.ver /\ reply.status /\ reply.atyp \in Atyps
        /\ StartReceive(buffer, HeaderSize, AddrSize(dest_addr))
        /\ state' = "RECEIVED_REPLY_HEADER"
        /\ UNCHANGED <<dest_addr, buffer, held, misfreed, proxy>>
     \/ /\ ~(reply.ver /\ reply.status /\ reply.atyp \in Atyps)
        /\ ReportError

\* STATE_SENT_REQUEST: the header of the reply; its address is still to come.
ReceivedReplyHeader ==
  /\ state = "SENT_REQUEST" /\ ReceiveAll
  /\ \/ /\ reply.ver /\ reply.status /\ reply.atyp \in Atyps
        /\ StartReceive(buffer, HeaderSize, AddrSize(reply.atyp))
        /\ state' = "RECEIVED_REPLY_HEADER"
        /\ UNCHANGED <<dest_addr, buffer, held, misfreed, proxy>>
     \/ /\ ~(reply.ver /\ reply.status /\ reply.atyp \in Atyps)
        /\ ReportError

\* STATE_RECEIVED_REPLY_HEADER: up.
ReceivedReplyRest ==
  /\ state = "RECEIVED_REPLY_HEADER" /\ ReceiveAll
  /\ state' = "UP" /\ buffer' = NoBuffer /\ io' = Idle
  /\ held' = (held \ {"control"}) \cup {"up"}
  /\ UNCHANGED <<dest_addr, misfreed, proxy>>

-----------------------------------------------------------------------------
\* connection_handler: the connection failed, or was closed with nothing left to read.
ConnectionHandler ==
  /\ "con" \in held /\ ReportError /\ UNCHANGED taken

\* The user frees the client, and may begin again with another.
UserFrees ==
  /\ state # "FREED" /\ Free(held) /\ UNCHANGED <<dest_addr, proxy, taken>>

BSocksClientInit ==
  /\ state = "FREED"
  /\ state' = "CONNECTING" /\ dest_addr' \in Atyps /\ buffer' = NoBuffer /\ io' = Idle
  /\ held' = {"connector"} /\ UNCHANGED misfreed
  /\ server' = "idle" /\ reply' = NoReply /\ shake' = 0 /\ sent' = 0 /\ taken' = 0

-----------------------------------------------------------------------------
\* The proxy, as the client uses it: it answers each message once it has all of
\* it, perhaps before send_handler_done, and may refuse.
Answers(size) ==
  /\ sent' = sent + size /\ shake' = shake + size
  /\ UNCHANGED <<state, dest_addr, buffer, io, held, misfreed, taken>>

ProxyHello ==
  /\ server = "hello" /\ server' = "idle"
  /\ \E ver \in BOOLEAN, method \in AuthInfo \cup {"other"} :
       reply' = [reply EXCEPT !.ver = ver, !.method = method]
  /\ Answers(HelloSize)

ProxyPasswordReply ==
  /\ server = "password" /\ server' = "idle"
  /\ \E status \in BOOLEAN : reply' = [reply EXCEPT !.status = status]
  /\ Answers(2)

ProxyReply ==
  /\ server = "request"
  /\ \E status \in BOOLEAN, atyp \in Atyps \cup {"other"} :
       /\ reply' = [reply EXCEPT !.status = status, !.atyp = atyp]
       /\ server' = IF status THEN "relay" ELSE "idle"
       /\ Answers(HeaderSize + AddrSize(atyp))

\* A byte of the destination follows the reply at once.
ProxyRelays ==
  /\ server = "relay" /\ state # "FREED" /\ sent - shake < MaxStream
  /\ sent' = sent + 1
  /\ UNCHANGED <<state, dest_addr, buffer, io, held, misfreed, server, reply, shake, taken>>

-----------------------------------------------------------------------------
Receive == ReceivePart \/ ReceivedHello \/ ReceivedPasswordReply
           \/ ReceivedReplyHeader \/ ReceivedReplyRest

Proxy == ProxyHello \/ ProxyPasswordReply \/ ProxyReply

Next ==
  \/ ConnectorHandler \/ ConnectorFails
  \/ MessageSent \/ SendHandlerDone \/ SendHandlerFails
  \/ ReceivePart \/ ReceivedHello \/ ReceivedPasswordReply
  \/ ReceivedReplyHeader \/ ReceivedReplyRest
  \/ ConnectionHandler \/ UserFrees \/ BSocksClientInit
  \/ ProxyHello \/ ProxyPasswordReply \/ ProxyReply \/ ProxyRelays

Spec == Init /\ [][Next]_vars

-----------------------------------------------------------------------------
\* What is being sent or received lies in the block that is allocated now:
\* reserve_buffer, which may move the block, never runs under an operation, and
\* the block reserved before the reply's header is read is large enough for the
\* address that the header announces.
IoInsideBuffer ==
  (io.kind # "idle") =>
    /\ io.block = buffer
    /\ io.base + io.total <= buffer.size

\* The handshake reads its own bytes and not one of the destination's, however
\* they arrive: when the client is up it has read exactly what the proxy's
\* replies took, and the stream that the user then reads starts with its first byte.
NoStreamByteSwallowed ==
  /\ taken <= shake
  /\ (state = "UP") => (taken = shake)

\* Every path, the failing ones in the middle of the handshake included, frees
\* the connector, the connection and the one pair of interfaces that is
\* initialised, each once.
ResourcesBalanced ==
  /\ ~misfreed
  /\ (state = "FREED") => (held = {})

=============================================================================
