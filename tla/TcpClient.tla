------------------------------- MODULE TcpClient -------------------------------
(***************************************************************************)
(* struct tcp_client of tun2socks.c: one TCP connection of an application, *)
(* terminated by lwip (the pcb), relayed through a SOCKS connection.       *)
(* Everything runs in the reactor thread, one callback at a time; the      *)
(* hazard is the order in which lwip, the SOCKS connection and the         *)
(* application call back while either side is going down.                  *)
(*                                                                         *)
(* Data is counted in bytes.  up.* follows application -> SOCKS, down.*    *)
(* SOCKS -> application.                                                   *)
(***************************************************************************)
EXTENDS Integers

CONSTANTS
  TCP_WND,         \* size of client->buf, and lwip's receive window
  TCP_SND_BUF,     \* lwip's send buffer of a pcb
  RecvBufSize,     \* CLIENT_SOCKS_RECV_BUF_SIZE
  MaxBytes         \* bound: bytes each side sends in the run

ASSUME SizesAssumption ==
  /\ TCP_WND \in Nat \ {0} /\ TCP_SND_BUF \in Nat \ {0} /\ RecvBufSize \in Nat \ {0}
  /\ MaxBytes \in Nat

VARIABLES
  entry,           \* the structure: none, live, freed
  client_closed, socks_up, socks_closed,
  buf_used,        \* bytes in client->buf, for SOCKS
  recv_buf,        \* socks_recv_buf_used, -1 when nothing is to be queued
  recv_sent,       \* socks_recv_buf_sent
  recv_waiting,    \* socks_recv_waiting
  tcp_pending,     \* socks_recv_tcp_pending
  sending,         \* a send to SOCKS is under way
  receiving,       \* a receive from SOCKS is under way
  lwip,            \* the pcb as lwip sees it
  up, down,        \* bytes: taken in / given out so far
  cause            \* what ended either side first

vars == <<entry, client_closed, socks_up, socks_closed, buf_used, recv_buf, recv_sent,
          recv_waiting, tcp_pending, sending, receiving, lwip, up, down, cause>>
toSocks == <<buf_used, sending>>
toClient == <<recv_buf, recv_sent, recv_waiting, tcp_pending, receiving>>

TypeOK ==
  /\ entry \in {"none", "live", "freed"}
  /\ client_closed \in BOOLEAN /\ socks_up \in BOOLEAN /\ socks_closed \in BOOLEAN
  /\ buf_used \in 0..TCP_WND
  /\ recv_buf \in {-1} \cup 1..RecvBufSize /\ recv_sent \in 0..RecvBufSize
  /\ recv_waiting \in BOOLEAN /\ tcp_pending \in 0..TCP_SND_BUF
  /\ sending \in BOOLEAN /\ receiving \in BOOLEAN
  /\ lwip \in [open : BOOLEAN, recv : BOOLEAN, sent : BOOLEAN, fin : BOOLEAN,
               wnd : 0..TCP_WND, unacked : 0..TCP_SND_BUF]
  /\ up \in [in : 0..MaxBytes, out : 0..MaxBytes]
  /\ down \in [in : 0..MaxBytes, out : 0..MaxBytes]
  /\ cause \in {"none", "app", "socks", "broken"}

Init ==
  /\ entry = "none"
  /\ client_closed = FALSE /\ socks_up = FALSE /\ socks_closed = FALSE
  /\ buf_used = 0 /\ recv_buf = -1 /\ recv_sent = 0 /\ recv_waiting = FALSE /\ tcp_pending = 0
  /\ sending = FALSE /\ receiving = FALSE
  /\ lwip = [open |-> TRUE, recv |-> FALSE, sent |-> FALSE, fin |-> FALSE,
             wnd |-> TCP_WND, unacked |-> 0]
  /\ up = [in |-> 0, out |-> 0] /\ down = [in |-> 0, out |-> 0]
  /\ cause = "none"

Detached == [lwip EXCEPT !.open = FALSE, !.recv = FALSE, !.sent = FALSE]
Because(c) == cause' = IF cause = "none" THEN c ELSE "broken"
AtMost(a, b) == IF a < b THEN a ELSE b

-----------------------------------------------------------------------------
(* Going down.  Each of the two sides may take the other with it; the guards
   of client_handle_freed_client and client_free_socks decide which data is
   still waited for. *)

(* client_handle_freed_client, the pcb having been dealt with; used is
   buf_used, rcv whether a receive from SOCKS is under way. *)
HandleFreedClient(used, rcv) ==
  /\ client_closed' = TRUE
  /\ lwip' = Detached
  /\ socks_closed' = (socks_closed \/ used = 0)
  /\ entry' = IF used > 0 /\ ~socks_closed THEN entry ELSE "freed"
  /\ sending' = (sending /\ ~socks_closed') /\ receiving' = (rcv /\ ~socks_closed')
  /\ UNCHANGED socks_up

FreeSocksAtOnce ==   \* Mutant: data queued but not confirmed is not waited for
  LET waits == socks_up /\ recv_buf >= 0 /\ ~client_closed IN
  /\ socks_closed' = TRUE
  /\ sending' = FALSE /\ receiving' = FALSE
  /\ client_closed' = (client_closed \/ ~waits)
  /\ lwip' = IF waits THEN [lwip EXCEPT !.recv = FALSE] ELSE Detached
  /\ entry' = IF waits THEN entry ELSE "freed"

FreeSocksKeepsCallback ==   \* Mutant: tcp_recv(pcb, NULL) is forgotten
  LET waits == socks_up /\ (recv_buf >= 0 \/ tcp_pending > 0) /\ ~client_closed IN
  /\ socks_closed' = TRUE
  /\ sending' = FALSE /\ receiving' = FALSE
  /\ client_closed' = (client_closed \/ ~waits)
  /\ lwip' = IF waits THEN lwip ELSE Detached
  /\ entry' = IF waits THEN entry ELSE "freed"

(* client_free_socks: the pcb no longer delivers to us; wait for what the
   application has still to get, else close the pcb too. *)
FreeSocks ==
  LET waits == socks_up /\ (recv_buf >= 0 \/ tcp_pending > 0) /\ ~client_closed IN
  /\ socks_closed' = TRUE
  /\ sending' = FALSE /\ receiving' = FALSE
  /\ client_closed' = (client_closed \/ ~waits)
  /\ lwip' = IF waits THEN [lwip EXCEPT !.recv = FALSE] ELSE Detached
  /\ entry' = IF waits THEN entry ELSE "freed"

-----------------------------------------------------------------------------
(* listener_accept_func *)
Accept ==
  /\ entry = "none" /\ lwip.open
  /\ entry' = "live"
  /\ lwip' = [lwip EXCEPT !.recv = TRUE]
  /\ UNCHANGED <<client_closed, socks_up, socks_closed, toSocks, toClient, up, down, cause>>

(* listener_accept_func: no memory, or BSocksClient_Init fails. *)
AcceptFails ==
  /\ entry = "none" /\ lwip.open
  /\ lwip' = Detached
  /\ UNCHANGED <<entry, client_closed, socks_up, socks_closed, toSocks, toClient, up, down, cause>>

(* client_recv_func with data.  A send that is under way goes on with its own
   length; only an empty buffer starts one. *)
ClientRecv(n) ==
  /\ lwip.open /\ lwip.recv /\ ~lwip.fin
  /\ n <= lwip.wnd /\ up.in + n <= MaxBytes
  /\ n <= TCP_WND - buf_used
  /\ buf_used' = buf_used + n
  /\ sending' = (sending \/ (buf_used = 0 /\ socks_up))
  /\ lwip' = [lwip EXCEPT !.wnd = @ - n]
  /\ up' = [up EXCEPT !.in = @ + n]
  /\ UNCHANGED <<entry, client_closed, socks_up, socks_closed, toClient, down, cause>>

(* Data that arrives once client_free_socks has removed the callback: lwip
   confirms and drops it (tcp_recv_null). *)
DataDropped(n) ==
  /\ entry = "live" /\ lwip.open /\ ~lwip.recv /\ ~lwip.fin
  /\ n <= lwip.wnd /\ up.in + n <= MaxBytes
  /\ up' = [up EXCEPT !.in = @ + n]
  /\ UNCHANGED <<entry, client_closed, socks_up, socks_closed, toSocks, toClient, lwip, down, cause>>

(* The application's FIN: client_recv_func without data closes the pcb; with
   the callback removed nothing is called. *)
ClientFin ==
  /\ entry = "live" /\ lwip.open /\ ~lwip.fin
  /\ IF lwip.recv
     THEN HandleFreedClient(buf_used, receiving) /\ Because("app")
     ELSE /\ lwip' = [lwip EXCEPT !.fin = TRUE]
          /\ UNCHANGED <<entry, client_closed, socks_up, socks_closed, sending, receiving, cause>>
  /\ UNCHANGED <<buf_used, recv_buf, recv_sent, recv_waiting, tcp_pending, up, down>>

(* client_err_func: reset by the application, or lwip gave the pcb up. *)
ClientErr ==
  /\ entry = "live" /\ lwip.open
  /\ HandleFreedClient(buf_used, receiving)
  /\ Because("app")
  /\ UNCHANGED <<buf_used, recv_buf, recv_sent, recv_waiting, tcp_pending, up, down>>

-----------------------------------------------------------------------------
(* SOCKS -> application *)

(* client_socks_recv_send_out on a buffer of len bytes of which at are queued
   and pending is unconfirmed: as much as fits is written; tcp_write may stop
   early (ERR_MEM), and any other failure, or no progress with nothing left to
   be confirmed, aborts the pcb. *)
SendOut(len, at, pending, more) ==
  \/ \E n \in {0, AtMost(len - at, TCP_SND_BUF - pending)} :
       /\ at + n < len => pending + n > 0
       /\ tcp_pending' = pending + n
       /\ lwip' = [lwip EXCEPT !.unacked = pending + n]
       /\ IF at + n < len
          THEN recv_buf' = len /\ recv_sent' = at + n /\ recv_waiting' = TRUE /\ receiving' = FALSE
          ELSE recv_buf' = -1 /\ recv_sent' = 0 /\ recv_waiting' = FALSE /\ receiving' = more
       /\ UNCHANGED <<entry, client_closed, socks_closed, socks_up, sending, cause>>
  \/ /\ HandleFreedClient(buf_used, FALSE)      \* client_abort_client
     /\ cause' = "broken"
     /\ recv_buf' = len /\ recv_sent' = at /\ recv_waiting' = FALSE /\ tcp_pending' = pending

(* client_socks_recv_handler_done *)
SocksRecvDone(n) ==
  /\ entry = "live" /\ receiving /\ n <= RecvBufSize /\ down.in + n <= MaxBytes
  /\ down' = [down EXCEPT !.in = @ + n]
  /\ IF client_closed
     THEN /\ receiving' = FALSE
          /\ UNCHANGED <<entry, client_closed, socks_up, socks_closed, sending, recv_buf, recv_sent,
                         recv_waiting, tcp_pending, lwip, cause>>
     ELSE SendOut(n, 0, tcp_pending, TRUE)
  /\ UNCHANGED <<buf_used, up>>

(* client_sent_func: the application confirmed n bytes. *)
ClientSent(n) ==
  LET left == tcp_pending - n IN
  /\ entry = "live" /\ lwip.open /\ lwip.sent /\ n <= lwip.unacked
  /\ down' = [down EXCEPT !.out = @ + n]
  /\ IF recv_buf > 0
     THEN SendOut(recv_buf, recv_sent, left, ~socks_closed)
     ELSE /\ tcp_pending' = left
          /\ IF socks_closed /\ left = 0
             THEN HandleFreedClient(buf_used, receiving)   \* client_free_client
             ELSE /\ lwip' = [lwip EXCEPT !.unacked = left]
                  /\ UNCHANGED <<entry, client_closed, socks_up, socks_closed, sending, receiving>>
          /\ UNCHANGED <<recv_buf, recv_sent, recv_waiting, cause>>
  /\ UNCHANGED <<buf_used, up>>

-----------------------------------------------------------------------------
(* client_socks_handler *)

(* BSOCKSCLIENT_EVENT_UP *)
SocksUp ==
  /\ entry = "live" /\ ~socks_up /\ ~socks_closed
  /\ socks_up' = TRUE
  /\ recv_buf' = -1 /\ tcp_pending' = 0
  /\ lwip' = IF client_closed THEN lwip ELSE [lwip EXCEPT !.sent = TRUE]
  /\ sending' = (buf_used > 0)
  /\ receiving' = ~client_closed
  /\ UNCHANGED <<entry, client_closed, socks_closed, buf_used, recv_sent, recv_waiting, up, down, cause>>

(* BSOCKSCLIENT_EVENT_ERROR, BSOCKSCLIENT_EVENT_ERROR_CLOSED *)
SocksDown ==
  /\ entry = "live" /\ ~socks_closed
  /\ FreeSocks
  /\ Because("socks")
  /\ UNCHANGED <<socks_up, buf_used, recv_buf, recv_sent, recv_waiting, tcp_pending, up, down>>

ForgetsToFinish(n) ==   \* Mutant: SOCKS is not freed once the last byte of a closed client is sent
  /\ entry = "live" /\ sending /\ n <= buf_used
  /\ buf_used' = buf_used - n
  /\ up' = [up EXCEPT !.out = @ + n]
  /\ sending' = (buf_used > n)
  /\ lwip' = IF client_closed THEN lwip ELSE [lwip EXCEPT !.wnd = @ + n]
  /\ UNCHANGED <<entry, client_closed, socks_closed, receiving, socks_up, recv_buf, recv_sent,
                 recv_waiting, tcp_pending, down, cause>>

(* client_socks_send_handler_done: n bytes have gone to SOCKS. *)
SocksSendDone(n) ==
  /\ entry = "live" /\ sending /\ n <= buf_used
  /\ buf_used' = buf_used - n
  /\ up' = [up EXCEPT !.out = @ + n]
  /\ IF buf_used = n /\ client_closed
     THEN FreeSocks
     ELSE /\ sending' = (buf_used > n)
          /\ lwip' = IF client_closed THEN lwip ELSE [lwip EXCEPT !.wnd = @ + n]
          /\ UNCHANGED <<entry, client_closed, socks_closed, receiving>>
  /\ UNCHANGED <<socks_up, recv_buf, recv_sent, recv_waiting, tcp_pending, down, cause>>

(* client_murder, when tun2socks quits. *)
Murder ==
  /\ entry = "live"
  /\ entry' = "freed" /\ client_closed' = TRUE /\ socks_closed' = TRUE
  /\ sending' = FALSE /\ receiving' = FALSE
  /\ lwip' = Detached
  /\ cause' = "broken"
  /\ UNCHANGED <<socks_up, buf_used, recv_buf, recv_sent, recv_waiting, tcp_pending, up, down>>

-----------------------------------------------------------------------------
Bytes == 1..MaxBytes

Next ==
  \/ Accept \/ AcceptFails
  \/ \E n \in Bytes : \/ ClientRecv(n) \/ DataDropped(n) \/ ClientSent(n)
                      \/ SocksSendDone(n) \/ SocksRecvDone(n)
  \/ ClientFin \/ ClientErr
  \/ SocksUp \/ SocksDown
  \/ Murder

Spec == Init /\ [][Next]_vars

-----------------------------------------------------------------------------
(* Properties *)

(* The ASSERTs of the callbacks, for whichever may run next.  A pcb that still
   calls us belongs to a live structure that is not closed; data from the
   application never finds SOCKS closed; a confirmation never exceeds what is
   pending and finds a half-queued buffer marked as waiting; a send under way
   has data, a receive under way has an empty buffer. *)
CallbackAsserts ==
  /\ lwip.recv \/ lwip.sent => entry = "live" /\ ~client_closed
  /\ lwip.recv => ~socks_closed
  /\ lwip.sent => socks_up /\ lwip.unacked <= tcp_pending
  /\ lwip.sent /\ recv_buf > 0 => recv_waiting /\ recv_sent < recv_buf /\ tcp_pending > 0
  /\ sending => socks_up /\ ~socks_closed /\ buf_used > 0
  /\ receiving => socks_up /\ ~socks_closed /\ (client_closed \/ recv_buf = -1)
  /\ entry = "freed" => client_closed /\ socks_closed

(* client_recv_func never meets "no buffer for data !?!": what lwip may still
   deliver always fits into client->buf, because tcp_recved is called for
   exactly what has left the buffer. *)
WindowFits == lwip.recv => lwip.wnd <= TCP_WND - buf_used

(* An orderly end loses nothing.  When the structure is gone because the
   application closed, SOCKS got every byte it sent; when it is gone because
   SOCKS closed, every byte SOCKS delivered was confirmed by the application. *)
NothingLost ==
  entry = "freed" =>
    /\ cause = "app" => up.out = up.in
    /\ cause = "socks" => down.out = down.in
=============================================================================
