------------------------------- MODULE TcpRelay --------------------------------
(***************************************************************************)
(* One connection of an application, relayed by tun2socks.c through the    *)
(* SOCKS client it owns: TcpClient is the structure, SocksClient the       *)
(* handshake and the connection below it.  listener_accept_func creates    *)
(* the SOCKS client, client_socks_handler gets its reports, and            *)
(* client_free_socks frees it, inside whichever callback decides to.       *)
(* Nothing of the SOCKS side is assumed any more: when it comes up, fails  *)
(* or delivers a byte is what SocksClient and the proxy do.                *)
(***************************************************************************)
EXTENDS TcpClient

CONSTANTS AuthInfo, PasswordSize    \* of SocksClient

VARIABLES state, dest_addr, buffer, io, held, misfreed, server, reply, shake, sent, taken

VARIABLE reads      \* who has room for what is sent to it: the application, the proxy

Socks == INSTANCE SocksClient WITH MaxStream <- MaxBytes

ASSUME SocksAssumption == Socks!AuthAssumption

socks == <<state, dest_addr, buffer, io, held, misfreed, server, reply, shake, sent, taken>>
relay == <<vars, socks, reads>>

Readers == {"app", "proxy"}

RelayInit == Init /\ Socks!Init /\ reads = Readers

-----------------------------------------------------------------------------
(* listener_accept_func: the structure and its SOCKS client. *)
AcceptConnects == Accept /\ Socks!BSocksClientInit

FreesSocksThatIsUp ==          \* Mutant: a client still in the handshake is not freed
  IF socks_closed' # socks_closed /\ socks_up THEN Socks!UserFrees ELSE UNCHANGED socks

(* client_free_socks frees the SOCKS client in the same callback. *)
FreesSocks ==
  IF socks_closed' # socks_closed THEN Socks!UserFrees ELSE UNCHANGED socks

(* client_socks_handler: EVENT_UP, EVENT_ERROR or EVENT_ERROR_CLOSED, reported
   in the step of the SOCKS client that decides it. *)
SocksHandler ==
  CASE state' = "UP" -> SocksUp
    [] state' = "FREED" -> SocksDown
    [] OTHER -> UNCHANGED vars

(* The callbacks of lwip; Murder when tun2socks quits. *)
LwipSteps ==
  \/ AcceptFails /\ FreesSocks
  \/ ClientFin /\ FreesSocks
  \/ ClientErr /\ FreesSocks
  \/ Murder /\ FreesSocks
  \/ \E n \in Bytes : ClientRecv(n) /\ FreesSocks
  \/ \E n \in Bytes : DataDropped(n) /\ FreesSocks
LwipConfirms == lwip.unacked > 0 /\ \E n \in Bytes : ClientSent(n) /\ FreesSocks

(* Once it is up, its connection takes bytes, and delivers those that the proxy
   has sent after its reply. *)
SocksSends == \E n \in Bytes : SocksSendDone(n) /\ FreesSocks
SocksReceives == \E n \in 1..(sent - shake - down.in) : SocksRecvDone(n) /\ FreesSocks

(* The steps of the handshake, with what they report. *)
Connects == (Socks!ConnectorHandler \/ Socks!ConnectorFails) /\ SocksHandler
Handshakes ==
  (Socks!MessageSent \/ Socks!SendHandlerDone \/ Socks!Receive) /\ SocksHandler
Breaks == (Socks!SendHandlerFails \/ Socks!ConnectionHandler) /\ SocksHandler

ProxyAnswers == Socks!Proxy /\ UNCHANGED vars
ProxySends == Socks!ProxyRelays /\ UNCHANGED vars

(* The window of the application (pcb->snd_wnd), or the socket buffer of the
   proxy, closes, or opens again.  lwip probes a closed window for as long as it
   stays closed (tcp_slowtmr, the persist timer) and never gives the pcb up for
   it; a send to the proxy waits for the descriptor to be writable. *)
WindowChanges ==
  \E r \in Readers :
    /\ entry = "live"
    /\ reads' = (reads \ {r}) \cup ({r} \ reads)
    /\ UNCHANGED <<vars, socks>>

RelayNext ==
  \/ /\ \/ AcceptConnects
        \/ LwipSteps \/ LwipConfirms
        \/ SocksSends \/ SocksReceives
        \/ Connects \/ Handshakes \/ Breaks
        \/ ProxyAnswers \/ ProxySends
     /\ UNCHANGED reads
  \/ WindowChanges

(* What lwip and the connection below SOCKS do about data that is to be sent,
   while there is room for it: it is confirmed, or the pcb is given up after
   retransmitting it (TCP_MAXRTX); it is sent, or the connection breaks. *)
AppTakes ==
  /\ "app" \in reads
  /\ LwipConfirms \/ (lwip.unacked > 0 /\ ClientErr /\ FreesSocks)
  /\ UNCHANGED reads
ProxyTakes ==
  /\ "proxy" \in reads
  /\ SocksSends \/ (sending /\ Breaks)
  /\ UNCHANGED reads

(* The reactor runs what is ready, and the proxy, the tunnel core in the same
   process, answers every message of the handshake.  Nobody need ever read. *)
RelaySpec ==
  /\ RelayInit /\ [][RelayNext]_relay
  /\ WF_relay(Connects /\ UNCHANGED reads) /\ WF_relay(Handshakes /\ UNCHANGED reads)
  /\ WF_relay(ProxyAnswers /\ UNCHANGED reads)
  /\ WF_relay(AppTakes) /\ WF_relay(ProxyTakes)

-----------------------------------------------------------------------------
(* Properties.  NothingLost is TcpClient's; SocksClient's are stated for its user
   here, and then what the two must agree on. *)

(* tun2socks.c: callbacks find the states their ASSERTs ask for, and what the
   window admits fits into the buffer; with the types of both. *)
ClientSafe == TypeOK /\ Socks!TypeOK /\ CallbackAsserts /\ WindowFits

(* BSocksClient.c: an operation under way lies in the block allocated now, the
   handshake swallows no byte of the destination's stream, and whatever is
   initialised is freed once, on every path. *)
HandshakeSafe ==
  Socks!IoInsideBuffer /\ Socks!NoStreamByteSwallowed /\ Socks!ResourcesBalanced

(* Both sides agree on whether the SOCKS client exists and is up: no callback
   can reach a structure that has closed it, and none is leaked by a connection
   that the application gives up during the handshake (tun2socks.c
   client_free_socks, BSocksClient_Free). *)
SidesAgree ==
  /\ (entry = "live" /\ ~socks_closed) <=> (state # "FREED")
  /\ (socks_up /\ ~socks_closed) <=> (state = "UP")

(* Every accepted connection gets its answer: the SOCKS client comes up or the
   structure learns that it will not; no connection waits for ever in the
   handshake. *)
AcceptedIsAnswered == (entry = "live") ~> (socks_up \/ socks_closed)

(* A connection one side of which is down does not stay, provided that the other
   side takes what is still to be sent to it: once the application has closed, a
   proxy that in the end reads lets the structure go, and once SOCKS is down, an
   application that does (num_clients cannot creep up).  A side that never reads
   again keeps the structure for ever. *)
ClosedIsFreed ==
  /\ <>[]("proxy" \in reads) => ((entry = "live" /\ client_closed) ~> (entry = "freed"))
  /\ <>[]("app" \in reads) => ((entry = "live" /\ socks_closed) ~> (entry = "freed"))
=============================================================================
