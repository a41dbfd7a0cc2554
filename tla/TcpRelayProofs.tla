---------------------------- MODULE TcpRelayProofs ----------------------------
(***************************************************************************)
(* Proofs about TcpRelay and the two components it composes, for any sizes *)
(* of buffers, windows and passwords and any number of bytes.              *)
(***************************************************************************)
EXTENDS TcpRelay, FiniteSetTheorems, TLAPS

(* struct tcp_client.  Which of its sides is down decides which callbacks are
   left, and who went down first decides whose data is still waited for. *)
SidesDown ==
  /\ lwip.open => ~client_closed
  /\ ~lwip.open => ~lwip.recv /\ ~lwip.sent
  /\ entry = "none" => ~client_closed /\ ~socks_closed /\ ~socks_up /\ cause = "none"
  /\ entry = "live" /\ socks_closed => ~client_closed /\ cause \in {"socks", "broken"}
  /\ entry = "live" /\ client_closed => cause \in {"app", "broken"}
  /\ entry = "live" /\ ~client_closed => lwip.open /\ (socks_closed \/ lwip.recv)

(* Bytes of SOCKS that are still to be queued for the application. *)
Queued == IF recv_buf > 0 THEN recv_buf - recv_sent ELSE 0

(* Nothing flows before SOCKS is up; what lwip may deliver fits, what it has not
   confirmed is what is pending; a buffer that is only half queued waits for a
   confirmation that will come. *)
Flow ==
  /\ ~socks_up => recv_buf = -1 /\ tcp_pending = 0 /\ lwip.unacked = 0 /\ down.in = 0
  /\ recv_buf > 0 => recv_sent < recv_buf
  /\ ~client_closed =>
       /\ lwip.wnd + buf_used <= TCP_WND
       /\ lwip.unacked = tcp_pending
       /\ recv_buf > 0 => recv_waiting /\ tcp_pending > 0

(* Every byte is accounted for, until the side it is meant for goes down first. *)
Accounts ==
  /\ up.out + buf_used <= up.in
  /\ cause \in {"none", "app"} => up.out + buf_used = up.in
  /\ down.out + tcp_pending + Queued <= down.in
  /\ cause \in {"none", "socks"} => down.out + tcp_pending + Queued = down.in
  /\ entry = "freed" /\ cause = "app" => buf_used = 0
  /\ entry = "freed" /\ cause = "socks" => tcp_pending = 0 /\ recv_buf = -1

ClientInv == TypeOK /\ CallbackAsserts /\ SidesDown /\ Flow /\ Accounts

(* The listener has a connection and no structure for it yet. *)
LEMMA ClientInvInit == Init => ClientInv
<1> USE SizesAssumption DEF Init
<1>1. Init => TypeOK
  <2> SUFFICES ASSUME Init PROVE TypeOK
    OBVIOUS
  <2>1. /\ client_closed \in BOOLEAN /\ socks_up \in BOOLEAN /\ socks_closed \in BOOLEAN
        /\ sending \in BOOLEAN /\ receiving \in BOOLEAN /\ recv_waiting \in BOOLEAN
    BY Zenon
  <2>2. lwip \in [open : BOOLEAN, recv : BOOLEAN, sent : BOOLEAN, fin : BOOLEAN,
                  wnd : 0..TCP_WND, unacked : 0..TCP_SND_BUF]
    <3>1. TCP_WND \in 0..TCP_WND /\ 0 \in 0..TCP_SND_BUF
      OBVIOUS
    <3> QED
      BY <3>1
  <2> QED
    BY <2>1, <2>2 DEF TypeOK
<1>2. Init => CallbackAsserts /\ SidesDown /\ Flow
  BY DEF CallbackAsserts, SidesDown, Flow
<1>3. Init => Accounts
  BY DEF Accounts, Queued
<1> QED
  BY <1>1, <1>2, <1>3 DEF ClientInv

(* listener_accept_func, with and without success. *)
LEMMA AcceptKeeps == ASSUME ClientInv, Accept \/ AcceptFails PROVE ClientInv'
BY SizesAssumption, ZenonT(60) DEF Accept, AcceptFails, Detached, toSocks, toClient, ClientInv, TypeOK,
                       CallbackAsserts, SidesDown, Flow, Accounts, Queued

(* client_recv_func with data. *)
LEMMA ClientRecvKeeps == ASSUME ClientInv, NEW n \in Bytes, ClientRecv(n) PROVE ClientInv'
BY SizesAssumption DEF Bytes, ClientRecv, toSocks, toClient, ClientInv, TypeOK, CallbackAsserts,
                       SidesDown, Flow, Accounts, Queued

(* Data for a connection whose SOCKS side is closed. *)
LEMMA DataDroppedKeeps == ASSUME ClientInv, NEW n \in Bytes, DataDropped(n) PROVE ClientInv'
BY SizesAssumption DEF Bytes, DataDropped, toSocks, toClient, ClientInv, TypeOK, CallbackAsserts,
                       SidesDown, Flow, Accounts, Queued

(* client_handle_freed_client, whatever it was called for.  c is the cause
   afterwards; the accounts of the direction that the cause leaves open must be
   settled if the structure goes. *)
LEMMA HandleFreedClientKeeps ==
  ASSUME ClientInv, entry = "live", ~client_closed, NEW rcv \in BOOLEAN,
         rcv => receiving, HandleFreedClient(buf_used, rcv),
         UNCHANGED <<buf_used, recv_buf, recv_sent, recv_waiting, tcp_pending, up, down>>,
         cause' \in {"app", "broken"}, cause' = "app" => cause = "none"
  PROVE  ClientInv'
<1> USE SizesAssumption DEF HandleFreedClient, Detached
<1>1. TypeOK'
  BY DEF ClientInv, TypeOK
<1>2. /\ lwip'.open = FALSE /\ lwip'.recv = FALSE /\ lwip'.sent = FALSE
      /\ lwip'.wnd = lwip.wnd /\ lwip'.unacked = lwip.unacked
      /\ client_closed' /\ socks_up' = socks_up
  BY DEF ClientInv, TypeOK
<1>3. CallbackAsserts'
  <2>0. buf_used > 0 \/ buf_used = 0
    BY DEF ClientInv, TypeOK
  <2>1. entry' = "freed" => socks_closed'
    BY <2>0, ZenonT(20)
  <2>2. /\ sending' => sending /\ ~socks_closed'
        /\ receiving' => rcv /\ ~socks_closed'
    BY ZenonT(20)
  <2> QED
    BY <1>2, <2>1, <2>2 DEF ClientInv, CallbackAsserts
<1>4. SidesDown'
  BY DEF ClientInv, TypeOK, CallbackAsserts, SidesDown
<1>5. Flow'
  BY DEF ClientInv, TypeOK, CallbackAsserts, SidesDown, Flow
<1>6. Accounts'
  BY DEF ClientInv, TypeOK, CallbackAsserts, SidesDown, Flow, Accounts, Queued
<1> QED
  BY <1>1, <1>3, <1>4, <1>5, <1>6 DEF ClientInv

(* The application's end of the connection goes. *)
LEMMA ClientFinKeeps ==
  ASSUME ClientInv, ClientFin
  PROVE  ClientInv'
<1>1. CASE lwip.recv
  BY <1>1, HandleFreedClientKeeps
     DEF ClientFin, Because, ClientInv, TypeOK, CallbackAsserts
<1>2. CASE ~lwip.recv
  <2> USE <1>2 DEF ClientFin
  <2>1. TypeOK'
    BY ZenonT(60) DEF ClientInv, TypeOK
  <2>2. CallbackAsserts' /\ SidesDown' /\ Flow'
    BY DEF ClientInv, TypeOK, CallbackAsserts, SidesDown, Flow
  <2>3. Accounts'
    BY DEF ClientInv, TypeOK, Accounts, Queued
  <2> QED
    BY <2>1, <2>2, <2>3 DEF ClientInv
<1> QED
  BY <1>1, <1>2

(* client_err_func. *)
LEMMA ClientErrKeeps ==
  ASSUME ClientInv, ClientErr
  PROVE  ClientInv'
BY HandleFreedClientKeeps DEF ClientErr, Because, ClientInv, TypeOK, SidesDown

(* client_socks_handler, EVENT_UP: both directions start. *)
LEMMA SocksUpKeeps ==
  ASSUME ClientInv, SocksUp
  PROVE  ClientInv'
<1> USE SizesAssumption DEF SocksUp
<1>1. /\ sending' \in BOOLEAN /\ receiving' \in BOOLEAN /\ socks_up' \in BOOLEAN
      /\ sending' => buf_used > 0
      /\ receiving' <=> ~client_closed
  <2>1. sending' \in BOOLEAN
    OBVIOUS
  <2>2. sending' => buf_used > 0
    OBVIOUS
  <2> QED
    BY <2>1, <2>2, ZenonT(20) DEF ClientInv, TypeOK
<1>2. /\ lwip' \in [open : BOOLEAN, recv : BOOLEAN, sent : BOOLEAN, fin : BOOLEAN,
                  wnd : 0..TCP_WND, unacked : 0..TCP_SND_BUF]
      /\ lwip'.open = lwip.open /\ lwip'.recv = lwip.recv /\ lwip'.wnd = lwip.wnd
      /\ lwip'.unacked = lwip.unacked
      /\ lwip'.sent => ~client_closed
  BY DEF ClientInv, TypeOK, CallbackAsserts
<1>3. TypeOK'
  BY <1>1, <1>2 DEF ClientInv, TypeOK
<1>4. CallbackAsserts'
  BY <1>1, <1>2 DEF ClientInv, TypeOK, CallbackAsserts, SidesDown, Flow
<1>5. SidesDown'
  <2>1. ~lwip.open => client_closed
    BY DEF ClientInv, TypeOK, CallbackAsserts, SidesDown
  <2> QED
    BY <1>1, <1>2, <2>1 DEF ClientInv, TypeOK, CallbackAsserts, SidesDown
<1>6. Flow'
  BY <1>1, <1>2 DEF ClientInv, TypeOK, CallbackAsserts, SidesDown, Flow
<1>7. Accounts'
  BY <1>1, <1>2 DEF ClientInv, TypeOK, CallbackAsserts, SidesDown, Flow, Accounts, Queued
<1> QED
  BY <1>3, <1>4, <1>5, <1>6, <1>7 DEF ClientInv

(* client_socks_handler, an error: client_free_socks waits or closes. *)
LEMMA SocksDownKeeps ==
  ASSUME ClientInv, SocksDown
  PROVE  ClientInv'
<1> USE SizesAssumption DEF SocksDown, FreeSocks, Because, Detached
<1>1. TypeOK'
  BY DEF ClientInv, TypeOK, Flow, Queued
<1>2. CallbackAsserts'
  BY DEF ClientInv, TypeOK, CallbackAsserts, SidesDown, Flow
<1>3. SidesDown'
  BY DEF ClientInv, TypeOK, CallbackAsserts, SidesDown
<1>4. Flow'
  BY DEF ClientInv, TypeOK, CallbackAsserts, SidesDown, Flow
<1>5. Accounts'
  BY DEF ClientInv, TypeOK, CallbackAsserts, SidesDown, Flow, Accounts, Queued
<1> QED
  BY <1>1, <1>2, <1>3, <1>4, <1>5 DEF ClientInv

(* client_murder. *)
LEMMA MurderKeeps ==
  ASSUME ClientInv, Murder
  PROVE  ClientInv'
<1> USE SizesAssumption DEF Murder, Detached
<1>1. TypeOK'
  BY DEF ClientInv, TypeOK, Flow, Queued
<1>2. CallbackAsserts'
  BY DEF ClientInv, TypeOK, CallbackAsserts, SidesDown, Flow
<1>3. SidesDown'
  BY DEF ClientInv, TypeOK, CallbackAsserts, SidesDown
<1>4. Flow'
  BY DEF ClientInv, TypeOK, CallbackAsserts, SidesDown, Flow
<1>5. Accounts'
  BY DEF ClientInv, TypeOK, CallbackAsserts, SidesDown, Flow, Accounts, Queued
<1> QED
  BY <1>1, <1>2, <1>3, <1>4, <1>5 DEF ClientInv

(* client_socks_send_handler_done: the last byte of a closed client ends it. *)
LEMMA SocksSendDoneKeeps ==
  ASSUME ClientInv, NEW n \in Bytes, SocksSendDone(n)
  PROVE  ClientInv'
<1> USE SizesAssumption DEF Bytes, SocksSendDone
<1>1. CASE buf_used = n /\ client_closed
  <2> USE <1>1 DEF FreeSocks, Detached
  <2>1. TypeOK'
    <3>1. up' \in [in : 0..MaxBytes, out : 0..MaxBytes] /\ buf_used' \in 0..TCP_WND
      BY DEF ClientInv, TypeOK, Accounts
    <3> QED
      BY <3>1 DEF ClientInv, TypeOK
  <2>2. CallbackAsserts'
    BY DEF ClientInv, TypeOK, CallbackAsserts, SidesDown, Flow
  <2>3. SidesDown' /\ Flow'
    BY DEF ClientInv, TypeOK, CallbackAsserts, SidesDown, Flow
  <2>4. Accounts'
    BY DEF ClientInv, TypeOK, CallbackAsserts, SidesDown, Flow, Accounts, Queued
  <2> QED
    BY <2>1, <2>2, <2>3, <2>4 DEF ClientInv
<1>2. CASE ~(buf_used = n /\ client_closed)
  <2> USE <1>2
  <2>1. TypeOK'
    <3>1. up' \in [in : 0..MaxBytes, out : 0..MaxBytes] /\ buf_used' \in 0..TCP_WND
      BY DEF ClientInv, TypeOK, Accounts
    <3>2. lwip' \in [open : BOOLEAN, recv : BOOLEAN, sent : BOOLEAN, fin : BOOLEAN,
                  wnd : 0..TCP_WND, unacked : 0..TCP_SND_BUF]
      BY DEF ClientInv, TypeOK, Flow
    <3>3. sending' \in BOOLEAN
      <4>1. sending' = (buf_used > n)
        BY Zenon
      <4> QED
        BY ONLY <4>1
    <3> QED
      BY <3>1, <3>2, <3>3 DEF ClientInv, TypeOK
  <2>2. CallbackAsserts'
    BY DEF ClientInv, TypeOK, CallbackAsserts, SidesDown, Flow
  <2>3. SidesDown' /\ Flow'
    BY DEF ClientInv, TypeOK, CallbackAsserts, SidesDown, Flow
  <2>4. Accounts'
    BY DEF ClientInv, TypeOK, CallbackAsserts, SidesDown, Flow, Accounts, Queued
  <2> QED
    BY <2>1, <2>2, <2>3, <2>4 DEF ClientInv
<1> QED
  BY <1>1, <1>2

(* client_socks_recv_send_out for a buffer of len bytes of which at are queued.
   Its callers have taken in, or confirmed, some bytes, which the accounts as
   they are then (the assumptions on down') show. *)
LEMMA SendOutKeeps ==
  ASSUME ClientInv, entry = "live", ~client_closed, socks_up,
         NEW len \in 1..RecvBufSize, NEW at \in 0..(len - 1),
         NEW pending \in 0..TCP_SND_BUF, NEW more \in BOOLEAN, more => ~socks_closed,
         SendOut(len, at, pending, more), UNCHANGED <<buf_used, up>>,
         down' \in [in : 0..MaxBytes, out : 0..MaxBytes],
         down'.out + pending + (len - at) <= down'.in,
         cause \in {"none", "socks"} => down'.out + pending + (len - at) = down'.in
  PROVE  ClientInv'
<1> USE SizesAssumption
<1>1. ASSUME NEW n \in {0, AtMost(len - at, TCP_SND_BUF - pending)},
             at + n < len => pending + n > 0,
             tcp_pending' = pending + n,
             lwip' = [lwip EXCEPT !.unacked = pending + n],
             IF at + n < len
             THEN recv_buf' = len /\ recv_sent' = at + n /\ recv_waiting' = TRUE /\ receiving' = FALSE
             ELSE recv_buf' = -1 /\ recv_sent' = 0 /\ recv_waiting' = FALSE /\ receiving' = more,
             UNCHANGED <<entry, client_closed, socks_closed, socks_up, sending, cause>>
      PROVE  ClientInv'
  <2>1. n \in 0..(len - at) /\ pending + n \in 0..TCP_SND_BUF
    BY <1>1 DEF AtMost
  <2>2. /\ lwip' \in [open : BOOLEAN, recv : BOOLEAN, sent : BOOLEAN, fin : BOOLEAN,
                  wnd : 0..TCP_WND, unacked : 0..TCP_SND_BUF]
        /\ lwip'.open = lwip.open /\ lwip'.recv = lwip.recv /\ lwip'.sent = lwip.sent
        /\ lwip'.wnd = lwip.wnd /\ lwip'.unacked = tcp_pending'
    BY <1>1, <2>1 DEF ClientInv, TypeOK
  <2>3. /\ recv_waiting' \in BOOLEAN /\ receiving' \in BOOLEAN
        /\ receiving' => more /\ recv_buf' = -1
    BY <1>1, ZenonT(20)
  <2>4. /\ recv_buf' \in {-1} \cup 1..RecvBufSize /\ recv_sent' \in 0..RecvBufSize
        /\ recv_buf' > 0 => recv_sent' < recv_buf' /\ recv_waiting' /\ tcp_pending' > 0
        /\ Queued' = len - at - n
    BY <1>1, <2>1 DEF Queued
  <2>5. TypeOK'
    BY <1>1, <2>1, <2>2, <2>3, <2>4 DEF ClientInv, TypeOK
  <2>6. CallbackAsserts'
    BY <1>1, <2>1, <2>2, <2>3, <2>4 DEF ClientInv, CallbackAsserts, TypeOK
  <2>7. SidesDown'
    BY <1>1, <2>2 DEF ClientInv, SidesDown
  <2>8. Flow'
    BY <1>1, <2>1, <2>2, <2>4 DEF ClientInv, Flow, TypeOK
  <2>9. Accounts'
    <3>1. down'.out + tcp_pending' + Queued' = down'.out + pending + (len - at)
      BY <1>1, <2>1, <2>4 DEF TypeOK
    <3>2. /\ (up.out + buf_used <= up.in)'
          /\ (cause \in {"none", "app"} => up.out + buf_used = up.in)'
      BY <1>1 DEF ClientInv, Accounts
    <3> QED
      BY <1>1, <3>1, <3>2 DEF Accounts
  <2> QED
    BY <2>5, <2>6, <2>7, <2>8, <2>9 DEF ClientInv
<1>2. ASSUME HandleFreedClient(buf_used, FALSE), cause' = "broken",
             recv_buf' = len, recv_sent' = at, recv_waiting' = FALSE, tcp_pending' = pending
      PROVE  ClientInv'
  <2> USE <1>2 DEF HandleFreedClient, Detached
  <2>1. /\ lwip' \in [open : BOOLEAN, recv : BOOLEAN, sent : BOOLEAN, fin : BOOLEAN,
                  wnd : 0..TCP_WND, unacked : 0..TCP_SND_BUF]
        /\ lwip'.open = FALSE /\ lwip'.recv = FALSE /\ lwip'.sent = FALSE
        /\ lwip'.unacked = lwip.unacked
    BY DEF ClientInv, TypeOK
  <2>2. (buf_used > 0 /\ buf_used # 0) \/ (buf_used = 0 /\ ~(buf_used > 0))
    BY DEF ClientInv, TypeOK
  <2>3. /\ client_closed' /\ socks_closed' \in BOOLEAN
        /\ sending' \in BOOLEAN /\ receiving' = FALSE
        /\ (sending' => sending /\ ~socks_closed')
    BY ZenonT(20) DEF ClientInv, TypeOK
  <2>10. /\ entry' \in {"live", "freed"}
         /\ (entry' = "freed") => socks_closed'
    BY <2>2, ZenonT(20) DEF ClientInv, TypeOK
  <2>11. (entry' = "live") => ~socks_closed'
    BY <2>2, ZenonT(20) DEF ClientInv, TypeOK
  <2>12. /\ client_closed' \in BOOLEAN /\ receiving' \in BOOLEAN /\ recv_waiting' \in BOOLEAN
         /\ socks_up' \in BOOLEAN
    BY ZenonT(20) DEF ClientInv, TypeOK
  <2>4. TypeOK'
    BY <2>1, <2>3, <2>10, <2>12 DEF ClientInv, TypeOK
  <2>5. CallbackAsserts' /\ SidesDown' /\ Flow'
    BY <2>1, <2>3, <2>10, <2>11 DEF ClientInv, CallbackAsserts, SidesDown, Flow, TypeOK
  <2>6. Accounts'
    BY DEF ClientInv, TypeOK, Accounts, Queued
  <2> QED
    BY <2>4, <2>5, <2>6 DEF ClientInv
<1> QED
  BY <1>1, <1>2 DEF SendOut

(* client_socks_recv_handler_done. *)
LEMMA SocksRecvDoneKeeps ==
  ASSUME ClientInv, NEW n \in Bytes, SocksRecvDone(n)
  PROVE  ClientInv'
<1> USE SizesAssumption DEF Bytes, SocksRecvDone
<1>1. /\ down' \in [in : 0..MaxBytes, out : 0..MaxBytes]
      /\ down'.in = down.in + n /\ down'.out = down.out
  BY DEF ClientInv, TypeOK
<1>2. CASE client_closed
  <2>1. TypeOK'
    BY <1>1, <1>2 DEF ClientInv, TypeOK
  <2>2. CallbackAsserts' /\ SidesDown' /\ Flow'
    BY <1>1, <1>2 DEF ClientInv, TypeOK, CallbackAsserts, SidesDown, Flow
  <2>3. Accounts'
    BY <1>1, <1>2 DEF ClientInv, TypeOK, SidesDown, Accounts, Queued
  <2> QED
    BY <2>1, <2>2, <2>3 DEF ClientInv
<1>3. CASE ~client_closed
  <2>1. socks_up /\ ~socks_closed /\ recv_buf = -1
    BY <1>3 DEF ClientInv, CallbackAsserts
  <2>2. /\ down'.out + tcp_pending + (n - 0) <= down'.in
        /\ cause \in {"none", "socks"} => down'.out + tcp_pending + (n - 0) = down'.in
    BY <1>1, <2>1 DEF ClientInv, TypeOK, Accounts, Queued
  <2>3. SendOut(n, 0, tcp_pending, TRUE)
    BY <1>3
  <2>4. n \in 1..RecvBufSize /\ 0 \in 0..(n - 1) /\ tcp_pending \in 0..TCP_SND_BUF
    BY DEF ClientInv, TypeOK
  <2> QED
    BY <1>1, <1>3, <2>1, <2>2, <2>3, <2>4, SendOutKeeps
<1> QED
  BY <1>2, <1>3

(* client_sent_func: more is queued, or the last confirmation ends a connection
   whose SOCKS side is closed. *)
LEMMA ClientSentKeeps ==
  ASSUME ClientInv, NEW n \in Bytes, ClientSent(n)
  PROVE  ClientInv'
<1> USE SizesAssumption DEF Bytes
<1> DEFINE left == tcp_pending - n
<1>1. /\ entry = "live" /\ lwip.open /\ lwip.sent /\ n <= lwip.unacked
      /\ down' = [down EXCEPT !.out = @ + n]
      /\ UNCHANGED <<buf_used, up>>
  BY DEF ClientSent
<1>2. ~client_closed /\ socks_up /\ lwip.unacked = tcp_pending
  BY <1>1 DEF ClientInv, CallbackAsserts, Flow
<1>3. left \in 0..TCP_SND_BUF /\ tcp_pending \in Nat
  BY <1>1, <1>2 DEF ClientInv, TypeOK
<1>4. /\ down' \in [in : 0..MaxBytes, out : 0..MaxBytes]
      /\ down'.out = down.out + n /\ down'.in = down.in
  <2>1. Queued \in Nat
    BY DEF ClientInv, TypeOK, Flow, Queued
  <2>2. down.out + n <= down.in
    BY <1>1, <1>2, <1>3, <2>1 DEF ClientInv, TypeOK, Accounts
  <2> QED
    BY <1>1, <2>2 DEF ClientInv, TypeOK
<1>5. CASE recv_buf > 0
  <2>1. SendOut(recv_buf, recv_sent, left, ~socks_closed)
    BY <1>5 DEF ClientSent
  <2>2. recv_buf \in 1..RecvBufSize /\ recv_sent \in 0..(recv_buf - 1)
    BY <1>5 DEF ClientInv, TypeOK, Flow
  <2>3. /\ down'.out + left + (recv_buf - recv_sent) <= down'.in
        /\ cause \in {"none", "socks"} => down'.out + left + (recv_buf - recv_sent) = down'.in
    BY <1>3, <1>4, <1>5, <2>2 DEF ClientInv, TypeOK, Accounts, Queued
  <2> QED
    BY <1>1, <1>2, <1>3, <1>4, <2>1, <2>2, <2>3, SendOutKeeps
<1>6. CASE ~(recv_buf > 0)
  <2>1. /\ tcp_pending' = left
        /\ UNCHANGED <<recv_buf, recv_sent, recv_waiting, cause>>
        /\ recv_buf = -1
    BY <1>6 DEF ClientSent, ClientInv, TypeOK
  <2>2. CASE socks_closed /\ left = 0
    <3> USE <2>2 DEF HandleFreedClient, Detached
    <3>1. HandleFreedClient(buf_used, receiving)
      BY <1>6 DEF ClientSent
    <3>2. /\ lwip' \in [open : BOOLEAN, recv : BOOLEAN, sent : BOOLEAN, fin : BOOLEAN,
                  wnd : 0..TCP_WND, unacked : 0..TCP_SND_BUF]
          /\ lwip'.open = FALSE /\ lwip'.recv = FALSE /\ lwip'.sent = FALSE
      BY <3>1 DEF ClientInv, TypeOK
    <3>3. /\ client_closed' /\ socks_closed' /\ entry' = "freed" /\ socks_up'
          /\ sending' = FALSE /\ receiving' = FALSE
          /\ client_closed' \in BOOLEAN /\ socks_closed' \in BOOLEAN /\ socks_up' \in BOOLEAN
          /\ sending' \in BOOLEAN /\ receiving' \in BOOLEAN
      BY <1>2, <3>1, ZenonT(20) DEF ClientInv, TypeOK
    <3>4. TypeOK'
      BY <1>1, <1>3, <1>4, <2>1, <3>2, <3>3 DEF ClientInv, TypeOK
    <3>5. CallbackAsserts' /\ SidesDown' /\ Flow'
      BY <1>3, <2>1, <3>2, <3>3 DEF CallbackAsserts, SidesDown, Flow
    <3>6. cause \in {"socks", "broken"}
      BY <1>1 DEF ClientInv, SidesDown
    <3>7. Accounts'
      BY <1>1, <1>3, <1>4, <2>1, <3>3, <3>6 DEF ClientInv, TypeOK, Accounts, Queued
    <3> QED
      BY <3>4, <3>5, <3>7 DEF ClientInv
  <2>3. CASE ~(socks_closed /\ left = 0)
    <3>1. /\ lwip' = [lwip EXCEPT !.unacked = left]
          /\ UNCHANGED <<entry, client_closed, socks_up, socks_closed, sending, receiving>>
      BY <1>6, <2>3 DEF ClientSent
    <3>2. TypeOK'
      BY <1>1, <1>3, <1>4, <2>1, <3>1 DEF ClientInv, TypeOK
    <3>3. CallbackAsserts' /\ SidesDown' /\ Flow'
      BY <1>2, <1>3, <1>4, <1>1, <2>1, <3>1 DEF ClientInv, TypeOK, CallbackAsserts, SidesDown,
          Flow
    <3>4. Accounts'
      BY <1>1, <1>3, <1>4, <2>1, <3>1 DEF ClientInv, TypeOK, Accounts, Queued
    <3> QED
      BY <3>2, <3>3, <3>4 DEF ClientInv
  <2> QED
    BY <2>2, <2>3
<1> QED
  BY <1>5, <1>6

(* Every step of struct tcp_client keeps the invariant. *)
LEMMA ClientStep == ClientInv /\ [Next]_vars => ClientInv'
<1> SUFFICES ASSUME ClientInv, [Next]_vars PROVE ClientInv'
  OBVIOUS
<1>1. CASE Next
  BY <1>1, AcceptKeeps, ClientRecvKeeps, DataDroppedKeeps, ClientSentKeeps, SocksSendDoneKeeps,
     SocksRecvDoneKeeps, ClientFinKeeps, ClientErrKeeps, SocksUpKeeps, SocksDownKeeps, MurderKeeps
     DEF Next
<1>2. CASE UNCHANGED vars
  BY <1>2 DEF vars, ClientInv, TypeOK, CallbackAsserts, SidesDown, Flow, Accounts, Queued
<1> QED
  BY <1>1, <1>2

(* What the callbacks rely on, and what an orderly end promises, follow. *)
LEMMA ClientInvImplies == ClientInv => CallbackAsserts /\ WindowFits /\ NothingLost
<1> SUFFICES ASSUME ClientInv PROVE CallbackAsserts /\ WindowFits /\ NothingLost
  OBVIOUS
<1>1. CallbackAsserts
  BY DEF ClientInv
<1>2. WindowFits
  BY SizesAssumption DEF WindowFits, ClientInv, TypeOK, CallbackAsserts, Flow
<1>3. NothingLost
  BY DEF NothingLost, ClientInv, TypeOK, Accounts, Queued
<1> QED
  BY <1>1, <1>2, <1>3

-----------------------------------------------------------------------------
(* The SOCKS client.  What it is doing on its connection, and what is
   initialised, follow from its state. *)
HandshakeIo ==
  /\ state \in {"CONNECTING", "UP", "FREED"} => io.kind = "idle"
  /\ state \in {"SENDING_HELLO", "SENDING_PASSWORD", "SENDING_REQUEST"} =>
       io.kind \in {"send", "sent"} /\ io.len = 0
  /\ state \in {"SENT_HELLO", "SENT_PASSWORD", "SENT_REQUEST", "RECEIVED_REPLY_HEADER"} =>
       io.kind = "recv"
  /\ state \in {"SENT_HELLO", "SENT_PASSWORD"} => io.total = 2
  /\ state = "SENT_REQUEST" => io.total = 4 /\ buffer.size = 22
  /\ state = "RECEIVED_REPLY_HEADER" => io.total = Socks!AddrSize(reply.atyp)

HeldByState ==
  /\ misfreed = FALSE
  /\ state = "FREED" => held = {}
  /\ state = "CONNECTING" => held = {"connector"}
  /\ state = "UP" => held = {"connector", "con", "up"}
  /\ state \notin {"FREED", "CONNECTING", "UP"} => held = {"connector", "con", "control"}

(* The message of the exchange that the state is in, the size of the answer to
   it, and how much of that is received. *)
Message ==
  IF state \in {"SENDING_HELLO", "SENT_HELLO"} THEN "hello"
  ELSE IF state \in {"SENDING_PASSWORD", "SENT_PASSWORD"} THEN "password" ELSE "request"
ReplySize == IF Message = "request" THEN 4 + Socks!AddrSize(reply.atyp) ELSE 2
Received == IF state = "RECEIVED_REPLY_HEADER" THEN 4 + io.len ELSE io.len

(* The proxy has sent nothing beyond its replies before it relays.  While a
   message is under way everything before it is read; from then on either the
   proxy still has to answer it, or exactly the rest of its answer is unread. *)
HandshakeBytes ==
  /\ taken <= shake /\ shake <= sent
  /\ server # "relay" => sent = shake
  /\ state = "CONNECTING" \/ io.kind = "send" => server = "idle" /\ taken = shake
  /\ io.kind \in {"sent", "recv"} =>
       \/ server = Message /\ taken = shake /\ io.len = 0 /\ state # "RECEIVED_REPLY_HEADER"
       \/ /\ server = IF Message = "request" /\ reply.status THEN "relay" ELSE "idle"
          /\ taken + ReplySize = shake + Received
  /\ state = "UP" => server \in {"idle", "relay"} /\ taken = shake

SocksInv ==
  Socks!TypeOK /\ Socks!IoInsideBuffer /\ HandshakeIo /\ HeldByState /\ HandshakeBytes

(* The sizes of socks_proto.h; the block for the reply to a request is as large
   as the larger of its two forms. *)
LEMMA Sizes ==
  /\ \A a : Socks!AddrSize(a) \in {6, 18}
  /\ Socks!Max({Socks!AddrSize(a) : a \in Socks!Atyps}) = 18
  /\ Socks!Cardinality(AuthInfo) \in Nat
<1>1. \A a : Socks!AddrSize(a) \in {6, 18}
  BY DEF Socks!AddrSize
<1>2. {Socks!AddrSize(a) : a \in Socks!Atyps} = {6, 18}
  BY DEF Socks!AddrSize, Socks!Atyps
<1>3. Socks!Max({6, 18}) = 18
  BY DEF Socks!Max
<1>5. Socks!Cardinality(AuthInfo) = Cardinality(AuthInfo)
  BY DEF Socks!Cardinality, Cardinality
<1>4. Cardinality(AuthInfo) \in Nat
  <2>1. IsFiniteSet({"none", "password"})
    <3>1. IsFiniteSet({"none"} \cup {"password"})
      BY FS_Singleton, FS_AddElement
    <3>2. {"none"} \cup {"password"} = {"none", "password"}
      OBVIOUS
    <3> QED
      BY <3>1, <3>2
  <2> QED
    BY <2>1, SocksAssumption, FS_Subset, FS_CardinalityType DEF Socks!AuthAssumption
<1> QED
  BY <1>1, <1>2, <1>3, <1>4, <1>5

(* No SOCKS client yet. *)
LEMMA SocksInvInit == Socks!Init => SocksInv
<1> SUFFICES ASSUME Socks!Init PROVE SocksInv
  OBVIOUS
<1> USE DEF Socks!Init, Socks!NoBuffer, Socks!Idle, Socks!NoReply
<1>1. Socks!TypeOK
  BY DEF Socks!TypeOK, Socks!Atyps
<1>2. Socks!IoInsideBuffer /\ HandshakeIo /\ HeldByState
  BY DEF Socks!IoInsideBuffer, HandshakeIo, HeldByState
<1>3. HandshakeBytes
  BY DEF HandshakeBytes
<1> QED
  BY <1>1, <1>2, <1>3 DEF SocksInv

(* BSocksClient_Free, in whatever state. *)
LEMMA FreeKeeps ==
  ASSUME SocksInv, state # "FREED", Socks!Free(held), UNCHANGED <<dest_addr, server, reply,
      shake, sent>>,
         taken' \in taken..shake
  PROVE  SocksInv'
<1> DEFINE freed == {"connector"} \cup (CASE state = "CONNECTING" -> {}
                                        [] state = "UP" -> {"con", "up"}
                                        [] OTHER -> {"con", "control"})
<1>1. /\ state' = "FREED" /\ held' = held \ freed /\ buffer' = Socks!NoBuffer /\ io' = Socks!Idle
      /\ misfreed' = (misfreed \/ ~(freed \subseteq held))
  BY DEF Socks!Free
<1>2. held = freed /\ misfreed = FALSE
  BY DEF SocksInv, HeldByState, Socks!TypeOK
<1>3. held' = {} /\ misfreed' = FALSE
  <2>1. held \ held = {} /\ held \subseteq held
    OBVIOUS
  <2> QED
    BY <1>1, <1>2, <2>1, Zenon
<1>4. Socks!TypeOK' /\ Socks!IoInsideBuffer'
  BY <1>1, <1>3
     DEF SocksInv, Socks!TypeOK, Socks!IoInsideBuffer, Socks!NoBuffer, Socks!Idle
<1>5. HandshakeIo' /\ HeldByState'
  BY <1>1, <1>3 DEF HandshakeIo, HeldByState, Socks!Idle
<1>6. HandshakeBytes'
  BY <1>1 DEF SocksInv, HandshakeBytes, Socks!TypeOK, Socks!Idle
<1> QED
  BY <1>4, <1>5, <1>6 DEF SocksInv

(* BSocksClient_Init. *)
LEMMA SocksCreateKeeps == ASSUME SocksInv, Socks!BSocksClientInit PROVE SocksInv'
<1> USE Sizes, SocksAssumption DEF Socks!AuthAssumption, Socks!BSocksClientInit, Socks!NoBuffer,
                                   Socks!Idle, Socks!NoReply, Socks!Atyps
<1>1. Socks!TypeOK' /\ Socks!IoInsideBuffer'
  BY DEF SocksInv, Socks!TypeOK, Socks!IoInsideBuffer, HandshakeIo, HeldByState, HandshakeBytes
<1>2. HandshakeIo' /\ HeldByState'
  BY DEF SocksInv, Socks!TypeOK, Socks!IoInsideBuffer, HandshakeIo, HeldByState, HandshakeBytes
<1>3. HandshakeBytes'
  BY DEF SocksInv, Socks!TypeOK, Socks!IoInsideBuffer, HandshakeIo, HeldByState, HandshakeBytes,
         Message, ReplySize, Received
<1> QED
  BY <1>1, <1>2, <1>3 DEF SocksInv

(* A message of any size is begun, whatever was before it being read. *)
LEMMA SendKeeps ==
  ASSUME SocksInv, NEW size \in Nat, Socks!Send(size),
         state' \in {"SENDING_HELLO", "SENDING_PASSWORD", "SENDING_REQUEST"},
         held' = {"connector", "con", "control"},
         UNCHANGED <<dest_addr, misfreed, server, reply, shake, sent>>,
         server = "idle", taken' = shake
  PROVE  SocksInv'
<1> DEFINE block == [id |-> buffer.id + 1, size |-> size]
<1>5. /\ block \in [id : Nat, size : Nat] /\ block.size = size
  BY DEF SocksInv, Socks!TypeOK
<1>6. /\ buffer' = block
      /\ io' = [Socks!Idle EXCEPT !.kind = "send", !.block = block, !.total = size]
  BY DEF Socks!Send, Socks!Reserved
<1> HIDE DEF block
<1>1. /\ block \in [id : Nat, size : Nat] /\ block.size = size
      /\ buffer' = block
      /\ io' = [kind |-> "send", block |-> block, base |-> 0, len |-> 0, total |-> size]
  BY <1>5, <1>6 DEF Socks!Idle
<1>2. Socks!TypeOK' /\ Socks!IoInsideBuffer'
  BY <1>1 DEF SocksInv, Socks!TypeOK, Socks!IoInsideBuffer
<1>3. HandshakeIo' /\ HeldByState'
  BY <1>1 DEF SocksInv, HandshakeIo, HeldByState
<1>4. HandshakeBytes'
  BY <1>1 DEF SocksInv, Socks!TypeOK, HandshakeBytes
<1> QED
  BY <1>2, <1>3, <1>4 DEF SocksInv

(* Connected: the hello is under way. *)
LEMMA ConnectorKeeps == ASSUME SocksInv, Socks!ConnectorHandler PROVE SocksInv'
<1>1. Socks!HelloSize + Socks!Cardinality(AuthInfo) \in Nat
  BY Sizes DEF Socks!HelloSize
<1>2. /\ server = "idle" /\ taken' = shake /\ held' = {"connector", "con", "control"}
  BY DEF Socks!ConnectorHandler, SocksInv, HeldByState, HandshakeBytes
<1> QED
  BY <1>1, <1>2, SendKeeps DEF Socks!ConnectorHandler, Socks!proxy

(* The proxy has the message. *)
LEMMA MessageSentKeeps == ASSUME SocksInv, Socks!MessageSent PROVE SocksInv'
<1> USE Sizes, SocksAssumption DEF Socks!AuthAssumption, Socks!MessageSent, Socks!NoBuffer,
                                   Socks!Idle
<1>1. Socks!TypeOK' /\ Socks!IoInsideBuffer'
  BY DEF SocksInv, Socks!TypeOK, Socks!IoInsideBuffer, HandshakeIo, HeldByState, HandshakeBytes
<1>2. HandshakeIo' /\ HeldByState'
  BY DEF SocksInv, Socks!TypeOK, Socks!IoInsideBuffer, HandshakeIo, HeldByState, HandshakeBytes
<1>3. HandshakeBytes'
  BY DEF SocksInv, Socks!TypeOK, Socks!IoInsideBuffer, HandshakeIo, HeldByState, HandshakeBytes,
         Message, ReplySize, Received
<1> QED
  BY <1>1, <1>2, <1>3 DEF SocksInv

(* The receipt of the answer is started. *)
LEMMA SendHandlerDoneKeeps == ASSUME SocksInv, Socks!SendHandlerDone PROVE SocksInv'
<1> USE Sizes, SocksAssumption DEF Socks!AuthAssumption, Socks!SendHandlerDone, Socks!Reserved,
                                   Socks!StartReceive, Socks!NoBuffer, Socks!Idle,
                                       Socks!HelloSize, Socks!HeaderSize, Socks!proxy
<1>1. Socks!TypeOK' /\ Socks!IoInsideBuffer'
  BY DEF SocksInv, Socks!TypeOK, Socks!IoInsideBuffer, HandshakeIo, HeldByState, HandshakeBytes
<1>2. HandshakeIo' /\ HeldByState'
  BY DEF SocksInv, Socks!TypeOK, Socks!IoInsideBuffer, HandshakeIo, HeldByState, HandshakeBytes
<1>3. HandshakeBytes'
  BY DEF SocksInv, Socks!TypeOK, Socks!IoInsideBuffer, HandshakeIo, HeldByState, HandshakeBytes,
         Message, ReplySize, Received
<1> QED
  BY <1>1, <1>2, <1>3 DEF SocksInv

(* A part of the answer. *)
LEMMA ReceivePartKeeps == ASSUME SocksInv, Socks!ReceivePart PROVE SocksInv'
<1> USE Sizes, SocksAssumption DEF Socks!AuthAssumption, Socks!ReceivePart, Socks!Receives,
                                   Socks!proxy
<1>1. Socks!TypeOK' /\ Socks!IoInsideBuffer'
  BY DEF SocksInv, Socks!TypeOK, Socks!IoInsideBuffer, HandshakeIo, HeldByState, HandshakeBytes
<1>2. HandshakeIo' /\ HeldByState'
  BY DEF SocksInv, Socks!TypeOK, Socks!IoInsideBuffer, HandshakeIo, HeldByState, HandshakeBytes
<1>3. HandshakeBytes'
  BY DEF SocksInv, Socks!TypeOK, Socks!IoInsideBuffer, HandshakeIo, HeldByState, HandshakeBytes,
         Message, ReplySize, Received
<1> QED
  BY <1>1, <1>2, <1>3 DEF SocksInv

(* The proxy answers. *)
LEMMA ProxyHelloKeeps == ASSUME SocksInv, Socks!ProxyHello PROVE SocksInv'
<1> USE Sizes, SocksAssumption DEF Socks!AuthAssumption, Socks!ProxyHello, Socks!Answers,
                                   Socks!HelloSize
<1>1. Socks!TypeOK' /\ Socks!IoInsideBuffer'
  <2>1. reply' \in [ver : BOOLEAN, method : {"none", "password", "other"},
                        status : BOOLEAN, atyp : Socks!Atyps \cup {"other"}]
    BY ZenonT(60) DEF SocksInv, Socks!TypeOK
  <2>2. server' \in {"idle", "relay"}
    OBVIOUS
  <2> QED
    BY <2>1, <2>2 DEF SocksInv, Socks!TypeOK, Socks!IoInsideBuffer
<1>2. HandshakeIo' /\ HeldByState'
  BY DEF SocksInv, Socks!TypeOK, Socks!IoInsideBuffer, HandshakeIo, HeldByState, HandshakeBytes
<1>3. HandshakeBytes'
  BY DEF SocksInv, Socks!TypeOK, Socks!IoInsideBuffer, HandshakeIo, HeldByState, HandshakeBytes,
         Message, ReplySize, Received
<1> QED
  BY <1>1, <1>2, <1>3 DEF SocksInv

(* To a password. *)
LEMMA ProxyPasswordKeeps == ASSUME SocksInv, Socks!ProxyPasswordReply PROVE SocksInv'
<1> USE Sizes, SocksAssumption DEF Socks!AuthAssumption, Socks!ProxyPasswordReply, Socks!Answers
<1>1. Socks!TypeOK' /\ Socks!IoInsideBuffer'
  BY DEF SocksInv, Socks!TypeOK, Socks!IoInsideBuffer, HandshakeIo, HeldByState, HandshakeBytes
<1>2. HandshakeIo' /\ HeldByState'
  BY DEF SocksInv, Socks!TypeOK, Socks!IoInsideBuffer, HandshakeIo, HeldByState, HandshakeBytes
<1>3. HandshakeBytes'
  BY DEF SocksInv, Socks!TypeOK, Socks!IoInsideBuffer, HandshakeIo, HeldByState, HandshakeBytes,
         Message, ReplySize, Received
<1> QED
  BY <1>1, <1>2, <1>3 DEF SocksInv

(* To a request. *)
LEMMA ProxyReplyKeeps == ASSUME SocksInv, Socks!ProxyReply PROVE SocksInv'
<1> USE Sizes, SocksAssumption DEF Socks!AuthAssumption, Socks!ProxyReply, Socks!Answers,
                                   Socks!HeaderSize, Socks!Atyps
<1>1. Socks!TypeOK' /\ Socks!IoInsideBuffer'
  <2>1. reply' \in [ver : BOOLEAN, method : {"none", "password", "other"},
                        status : BOOLEAN, atyp : Socks!Atyps \cup {"other"}]
    BY ZenonT(60) DEF SocksInv, Socks!TypeOK
  <2>2. server' \in {"idle", "relay"}
    OBVIOUS
  <2> QED
    BY <2>1, <2>2 DEF SocksInv, Socks!TypeOK, Socks!IoInsideBuffer
<1>2. HandshakeIo' /\ HeldByState'
  BY DEF SocksInv, Socks!TypeOK, Socks!IoInsideBuffer, HandshakeIo, HeldByState, HandshakeBytes
<1>3. HandshakeBytes'
  BY DEF SocksInv, Socks!TypeOK, Socks!IoInsideBuffer, HandshakeIo, HeldByState, HandshakeBytes,
         Message, ReplySize, Received
<1> QED
  BY <1>1, <1>2, <1>3 DEF SocksInv

(* And relays. *)
LEMMA ProxyRelaysKeeps == ASSUME SocksInv, Socks!ProxyRelays PROVE SocksInv'
<1> USE Sizes, SocksAssumption DEF Socks!AuthAssumption, Socks!ProxyRelays
<1>1. Socks!TypeOK' /\ Socks!IoInsideBuffer'
  BY DEF SocksInv, Socks!TypeOK, Socks!IoInsideBuffer, HandshakeIo, HeldByState, HandshakeBytes
<1>2. HandshakeIo' /\ HeldByState'
  BY DEF SocksInv, Socks!TypeOK, Socks!IoInsideBuffer, HandshakeIo, HeldByState, HandshakeBytes
<1>3. HandshakeBytes'
  BY DEF SocksInv, Socks!TypeOK, Socks!IoInsideBuffer, HandshakeIo, HeldByState, HandshakeBytes,
         Message, ReplySize, Received
<1> QED
  BY <1>1, <1>2, <1>3 DEF SocksInv

(* A message that is received as a whole was answered, and its last byte is the
   last that is received of it. *)
LEMMA AllReceived ==
  ASSUME SocksInv, Socks!ReceiveAll
  PROVE  /\ io.kind = "recv"
         /\ state \in {"SENT_HELLO", "SENT_PASSWORD"} => server = "idle" /\ taken' = shake
         /\ state = "SENT_REQUEST" =>
              /\ server = IF reply.status THEN "relay" ELSE "idle"
              /\ taken' + Socks!AddrSize(reply.atyp) = shake
         /\ state = "RECEIVED_REPLY_HEADER" => server \in {"idle", "relay"} /\ taken' = shake
         /\ taken' \in taken..shake
<1> USE Sizes DEF Socks!ReceiveAll, Socks!Receives
<1>1. /\ io.kind = "recv" /\ io.total - io.len \in Nat \ {0}
      /\ io.total - io.len <= sent - taken /\ taken' = taken + (io.total - io.len)
      /\ taken \in Nat /\ shake \in Nat /\ sent \in Nat /\ io.len \in Nat
  BY DEF SocksInv, Socks!TypeOK
<1>2. /\ server = IF Message = "request" /\ reply.status THEN "relay" ELSE "idle"
      /\ taken + ReplySize = shake + Received
  BY <1>1 DEF SocksInv, HandshakeBytes, Message
<1>3. CASE state \in {"SENT_HELLO", "SENT_PASSWORD"}
  BY <1>1, <1>2, <1>3 DEF SocksInv, HandshakeIo, Message, ReplySize, Received
<1>4. CASE state = "SENT_REQUEST"
  BY <1>1, <1>2, <1>4 DEF SocksInv, HandshakeIo, Message, ReplySize, Received
<1>5. CASE state = "RECEIVED_REPLY_HEADER"
  BY <1>1, <1>2, <1>5 DEF SocksInv, HandshakeIo, Message, ReplySize, Received
<1>6. state \in {"SENT_HELLO", "SENT_PASSWORD", "SENT_REQUEST", "RECEIVED_REPLY_HEADER"}
  BY <1>1 DEF SocksInv, HandshakeIo, Socks!TypeOK
<1> QED
  BY <1>1, <1>3, <1>4, <1>5, <1>6

(* Giving up after the answer was read. *)
LEMMA RefusedKeeps ==
  ASSUME SocksInv, Socks!ReceiveAll, Socks!ReportError PROVE SocksInv'
<1>1. state # "FREED"
  BY AllReceived DEF SocksInv, HandshakeIo
<1> QED
  BY <1>1, AllReceived, FreeKeeps DEF Socks!ReportError, Socks!proxy

(* The hello is answered: the request follows, or the password before it. *)
LEMMA ReceivedHelloKeeps == ASSUME SocksInv, Socks!ReceivedHello PROVE SocksInv'
<1>1. CASE Socks!ReportError
  BY <1>1, RefusedKeeps DEF Socks!ReceivedHello
<1>2. CASE ~Socks!ReportError
  <2>1. /\ state = "SENT_HELLO" /\ Socks!ReceiveAll
        /\ UNCHANGED <<dest_addr, held, misfreed, server, reply, shake, sent>>
        /\ \/ Socks!AuthFinished
           \/ /\ PasswordSize \in 1..255
              /\ Socks!Send(3 + 2 * PasswordSize) /\ state' = "SENDING_PASSWORD"
    BY <1>2 DEF Socks!ReceivedHello, Socks!proxy
  <2>2. server = "idle" /\ taken' = shake /\ held' = {"connector", "con", "control"}
    BY <2>1, AllReceived DEF SocksInv, HeldByState
  <2>3. Socks!HeaderSize + Socks!AddrSize(dest_addr) \in Nat
    BY Sizes DEF Socks!HeaderSize
  <2> QED
    BY <2>1, <2>2, <2>3, SendKeeps DEF Socks!AuthFinished
<1> QED
  BY <1>1, <1>2

(* The password is answered: the request follows. *)
LEMMA ReceivedPasswordKeeps == ASSUME SocksInv, Socks!ReceivedPasswordReply PROVE SocksInv'
<1>1. CASE Socks!ReportError
  BY <1>1, RefusedKeeps DEF Socks!ReceivedPasswordReply
<1>2. CASE ~Socks!ReportError
  <2>1. /\ state = "SENT_PASSWORD" /\ Socks!ReceiveAll /\ Socks!AuthFinished
        /\ UNCHANGED <<dest_addr, held, misfreed, server, reply, shake, sent>>
    BY <1>2 DEF Socks!ReceivedPasswordReply, Socks!proxy
  <2>2. server = "idle" /\ taken' = shake /\ held' = {"connector", "con", "control"}
    BY <2>1, AllReceived DEF SocksInv, HeldByState
  <2>3. Socks!HeaderSize + Socks!AddrSize(dest_addr) \in Nat
    BY Sizes DEF Socks!HeaderSize
  <2> QED
    BY <2>1, <2>2, <2>3, SendKeeps DEF Socks!AuthFinished
<1> QED
  BY <1>1, <1>2

(* The header of the reply: the address that it announces fits into the block. *)
LEMMA ReceivedReplyHeaderKeeps == ASSUME SocksInv, Socks!ReceivedReplyHeader PROVE SocksInv'
<1>1. CASE Socks!ReportError
  BY <1>1, RefusedKeeps DEF Socks!ReceivedReplyHeader
<1>2. CASE ~Socks!ReportError
  <2>1. /\ state = "SENT_REQUEST" /\ Socks!ReceiveAll /\ state' = "RECEIVED_REPLY_HEADER"
        /\ io' = [kind |-> "recv", block |-> buffer, base |-> 4, len |-> 0,
                  total |-> Socks!AddrSize(reply.atyp)]
        /\ UNCHANGED <<dest_addr, buffer, held, misfreed, server, reply, shake, sent>>
    BY <1>2 DEF Socks!ReceivedReplyHeader, Socks!proxy, Socks!StartReceive, Socks!HeaderSize
  <2>2. /\ server = IF reply.status THEN "relay" ELSE "idle"
        /\ taken' + Socks!AddrSize(reply.atyp) = shake /\ taken' \in Nat
        /\ taken' <= shake
    BY <2>1, AllReceived DEF SocksInv, Socks!TypeOK
  <2>3. Socks!TypeOK' /\ Socks!IoInsideBuffer'
    BY <2>1, <2>2, Sizes DEF SocksInv, Socks!TypeOK, Socks!IoInsideBuffer, HandshakeIo
  <2>4. HandshakeIo' /\ HeldByState'
    BY <2>1 DEF SocksInv, HandshakeIo, HeldByState
  <2>5. HandshakeBytes'
    BY <2>1, <2>2, Sizes DEF SocksInv, Socks!TypeOK, HandshakeBytes, Message, ReplySize, Received
  <2> QED
    BY <2>3, <2>4, <2>5 DEF SocksInv
<1> QED
  BY <1>1, <1>2

(* The rest of the reply: the client is up. *)
LEMMA ReceivedReplyRestKeeps == ASSUME SocksInv, Socks!ReceivedReplyRest PROVE SocksInv'
<1>1. /\ state = "RECEIVED_REPLY_HEADER" /\ Socks!ReceiveAll
      /\ state' = "UP" /\ buffer' = Socks!NoBuffer /\ io' = Socks!Idle
      /\ held' = (held \ {"control"}) \cup {"up"}
      /\ UNCHANGED <<dest_addr, misfreed, server, reply, shake, sent>>
  BY DEF Socks!ReceivedReplyRest, Socks!proxy
<1>2. server \in {"idle", "relay"} /\ taken' = shake
  BY <1>1, AllReceived
<1>3. Socks!TypeOK' /\ Socks!IoInsideBuffer'
  BY <1>1, <1>2
     DEF SocksInv, Socks!TypeOK, Socks!IoInsideBuffer, Socks!NoBuffer, Socks!Idle
<1>4. HandshakeIo' /\ HeldByState'
  BY <1>1 DEF SocksInv, HandshakeIo, HeldByState, Socks!Idle
<1>5. HandshakeBytes'
  BY <1>1, <1>2 DEF SocksInv, Socks!TypeOK, HandshakeBytes, Socks!Idle
<1> QED
  BY <1>3, <1>4, <1>5 DEF SocksInv

(* Giving up in between. *)
LEMMA GivesUpKeeps ==
  ASSUME SocksInv,
         \/ Socks!ConnectorFails \/ Socks!SendHandlerFails
         \/ Socks!ConnectionHandler \/ Socks!UserFrees
  PROVE  SocksInv'
<1>1. state # "FREED"
  BY DEF SocksInv, HandshakeIo, HeldByState,
         Socks!ConnectorFails, Socks!SendHandlerFails, Socks!ConnectionHandler, Socks!UserFrees
<1>2. /\ Socks!Free(held) /\ UNCHANGED <<dest_addr, server, reply, shake, sent, taken>>
  BY DEF Socks!ConnectorFails, Socks!SendHandlerFails, Socks!ConnectionHandler, Socks!UserFrees,
         Socks!ReportError, Socks!proxy
<1>3. taken' \in taken..shake
  BY <1>2 DEF SocksInv, Socks!TypeOK, HandshakeBytes
<1> QED
  BY <1>1, <1>2, <1>3, FreeKeeps

(* Every step of the SOCKS client and of the proxy keeps the invariant. *)
LEMMA SocksStep == SocksInv /\ [Socks!Next]_socks => SocksInv'
<1> SUFFICES ASSUME SocksInv, [Socks!Next]_socks PROVE SocksInv'
  OBVIOUS
<1>1. CASE Socks!Next
  BY <1>1, ConnectorKeeps, MessageSentKeeps, SendHandlerDoneKeeps, ReceivePartKeeps,
     ReceivedHelloKeeps, ReceivedPasswordKeeps, ReceivedReplyHeaderKeeps, ReceivedReplyRestKeeps,
     GivesUpKeeps, SocksCreateKeeps, ProxyHelloKeeps, ProxyPasswordKeeps, ProxyReplyKeeps,
     ProxyRelaysKeeps
     DEF Socks!Next
<1>2. CASE UNCHANGED socks
  BY <1>2 DEF socks, SocksInv, Socks!TypeOK, Socks!IoInsideBuffer, HandshakeIo, HeldByState,
              HandshakeBytes,
              Message, ReplySize, Received
<1> QED
  BY <1>1, <1>2

(* What the user of the handshake relies on follows. *)
LEMMA SocksInvImplies == SocksInv => Socks!TypeOK /\ HandshakeSafe
BY DEF SocksInv, HandshakeSafe, Socks!NoStreamByteSwallowed, Socks!ResourcesBalanced,
       HeldByState, HandshakeBytes

-----------------------------------------------------------------------------
(* The two together. *)
RelayInv == ClientInv /\ SocksInv /\ SidesAgree

(* A callback of lwip, or of the connection once it is up, frees the SOCKS
   client if it closes that side, and leaves it alone otherwise. *)
LEMMA FreesSocksStep == FreesSocks => [Socks!Next]_socks
BY DEF FreesSocks, Socks!Next

(* What the SOCKS client reports is a step of the structure. *)
LEMMA SocksHandlerStep == SocksHandler => [Next]_vars
<1> SUFFICES ASSUME SocksHandler PROVE SocksUp \/ SocksDown \/ UNCHANGED vars
  BY DEF Next
<1> QED
  BY DEF SocksHandler

(* Every step of the relay is a step, or none, of the structure; so is what
   lwip, the application and the reactor do to it. *)
LEMMA RelayIsClientStep ==
  ASSUME TypeOK, Socks!TypeOK, [RelayNext]_relay PROVE [Next]_vars
<1>1. CASE UNCHANGED relay
  BY <1>1 DEF relay
<1>2. CASE AcceptConnects
  BY <1>2 DEF AcceptConnects, Next
<1>3. CASE LwipSteps \/ LwipConfirms \/ SocksSends
  BY <1>3 DEF LwipSteps, LwipConfirms, SocksSends, Next
<1>4. CASE SocksReceives
  <2>1. PICK n \in 1..(sent - shake - down.in) : SocksRecvDone(n)
    BY <1>4 DEF SocksReceives
  <2>2. n \in Bytes
    BY <2>1, SizesAssumption DEF SocksRecvDone, Bytes, TypeOK, Socks!TypeOK
  <2> QED
    BY <2>1, <2>2 DEF Next
<1>5. CASE Connects \/ Handshakes \/ Breaks
  BY <1>5, SocksHandlerStep DEF Connects, Handshakes, Breaks
<1>6. CASE ProxyAnswers \/ ProxySends
  BY <1>6 DEF ProxyAnswers, ProxySends
<1>7. CASE WindowChanges
  BY <1>7 DEF WindowChanges
<1> QED
  BY <1>1, <1>2, <1>3, <1>4, <1>5, <1>6, <1>7 DEF RelayNext

(* Every step of the relay is a step, or none, of the SOCKS client. *)
LEMMA RelayIsSocksStep == ASSUME [RelayNext]_relay PROVE [Socks!Next]_socks
<1>1. CASE UNCHANGED relay
  BY <1>1 DEF relay
<1>2. CASE AcceptConnects
  BY <1>2 DEF AcceptConnects, Socks!Next
<1>3. CASE LwipSteps \/ LwipConfirms \/ SocksSends \/ SocksReceives
  BY <1>3, FreesSocksStep DEF LwipSteps, LwipConfirms, SocksSends, SocksReceives
<1>4. CASE Connects \/ Handshakes \/ Breaks
  BY <1>4 DEF Connects, Handshakes, Breaks, Socks!Receive, Socks!Next
<1>5. CASE ProxyAnswers \/ ProxySends
  BY <1>5 DEF ProxyAnswers, ProxySends, Socks!Proxy, Socks!Next
<1>6. CASE WindowChanges
  BY <1>6 DEF WindowChanges
<1> QED
  BY <1>1, <1>2, <1>3, <1>4, <1>5, <1>6 DEF RelayNext

(* A callback of the structure that does not come from the SOCKS client's own
   state: it never opens or reports a SOCKS connection, and goes only with it. *)
LEMMA CallbackEffect ==
  ASSUME RelayInv, LwipSteps \/ LwipConfirms \/ SocksSends \/ SocksReceives
  PROVE  /\ FreesSocks
         /\ entry' \in {entry, "freed"} /\ socks_up' = socks_up
         /\ socks_closed => socks_closed'
<1> DEFINE Effect == /\ entry' \in {entry, "freed"} /\ socks_up' = socks_up
                     /\ (socks_closed => socks_closed')
<1>1. ASSUME NEW used, NEW rcv, HandleFreedClient(used, rcv) PROVE Effect
  <2>1. socks_closed => socks_closed'
    BY <1>1, Zenon DEF HandleFreedClient
  <2> QED
    BY <1>1, <2>1 DEF HandleFreedClient
<1>2. ASSUME NEW len, NEW at, NEW pending, NEW more, SendOut(len, at, pending, more) PROVE Effect
  <2>1. HandleFreedClient(buf_used, FALSE) \/ UNCHANGED <<entry, socks_closed, socks_up>>
    BY <1>2, Zenon DEF SendOut
  <2>2. CASE HandleFreedClient(buf_used, FALSE)
    BY <1>1, <2>2
  <2>3. CASE UNCHANGED <<entry, socks_closed, socks_up>>
    BY <2>3
  <2> QED
    BY <2>1, <2>2, <2>3
<1>3. FreeSocks /\ UNCHANGED socks_up => Effect
  BY DEF FreeSocks
<1> HIDE DEF Effect
<1>4. UNCHANGED <<entry, socks_up, socks_closed>> => Effect
  BY DEF Effect
<1>5. CASE LwipSteps
  <2>1. AcceptFails \/ (\E n \in Bytes : ClientRecv(n) \/ DataDropped(n)) => Effect
    BY <1>4 DEF AcceptFails, ClientRecv, DataDropped
  <2>2. ClientFin \/ ClientErr => Effect
    BY <1>1, <1>4 DEF ClientFin, ClientErr
  <2>3. Murder => Effect
    BY DEF Murder, Effect
  <2> QED
    BY <1>5, <2>1, <2>2, <2>3 DEF LwipSteps, Effect
<1>6. CASE LwipConfirms
  <2>1. PICK n \in Bytes : ClientSent(n) /\ FreesSocks
    BY <1>6 DEF LwipConfirms
  <2>2. Effect
    BY <2>1, <1>1, <1>2, <1>4 DEF ClientSent
  <2> QED
    BY <2>1, <2>2 DEF Effect
<1>7. CASE SocksSends
  <2>1. PICK n \in Bytes : SocksSendDone(n) /\ FreesSocks
    BY <1>7 DEF SocksSends
  <2>2. Effect
    BY <2>1, <1>3, <1>4 DEF SocksSendDone
  <2> QED
    BY <2>1, <2>2 DEF Effect
<1>8. CASE SocksReceives
  <2>1. PICK n \in 1..(sent - shake - down.in) : SocksRecvDone(n) /\ FreesSocks
    BY <1>8 DEF SocksReceives
  <2>2. Effect
    BY <2>1, <1>2, <1>4 DEF SocksRecvDone
  <2> QED
    BY <2>1, <2>2 DEF Effect
<1> QED
  BY <1>5, <1>6, <1>7, <1>8

(* The steps of the SOCKS client itself: they need a client, and one that is up
   only ever goes down. *)
LEMMA HandshakeEffect ==
  ASSUME SocksInv, Connects \/ Handshakes \/ Breaks
  PROVE  /\ state # "FREED" /\ SocksHandler
         /\ (state = "UP" => state' = "FREED")
<1> USE DEF SocksInv, HandshakeIo, HeldByState, Socks!TypeOK
<1>1. CASE Connects
  BY <1>1 DEF Connects, Socks!ConnectorHandler, Socks!ConnectorFails
<1>2. CASE Handshakes
  <2>1. io.kind \in {"send", "sent", "recv"} /\ SocksHandler
    BY <1>2 DEF Handshakes, Socks!MessageSent, Socks!SendHandlerDone, Socks!Receive,
                Socks!ReceivePart, Socks!ReceivedHello, Socks!ReceivedPasswordReply,
                Socks!ReceivedReplyHeader, Socks!ReceivedReplyRest, Socks!ReceiveAll,
                Socks!Receives
  <2> QED
    BY <2>1
<1>3. CASE Breaks
  BY <1>3 DEF Breaks, Socks!SendHandlerFails, Socks!ConnectionHandler, Socks!ReportError,
              Socks!Free
<1> QED
  BY <1>1, <1>2, <1>3

(* Both sides keep agreeing on whether the SOCKS client exists and is up. *)
LEMMA SidesAgreeStep ==
  ASSUME RelayInv, ClientInv', SocksInv', [RelayNext]_relay PROVE SidesAgree'
<1> USE DEF RelayInv
<1>1. CASE UNCHANGED relay \/ ProxyAnswers \/ ProxySends \/ WindowChanges
  <2>1. UNCHANGED <<entry, socks_closed, socks_up, state>>
    BY <1>1 DEF relay, vars, socks, ProxyAnswers, ProxySends, WindowChanges, Socks!Proxy,
                Socks!ProxyHello, Socks!ProxyPasswordReply, Socks!ProxyReply, Socks!ProxyRelays, Socks!Answers
  <2> QED
    BY <2>1 DEF SidesAgree
<1>2. CASE AcceptConnects
  BY <1>2 DEF AcceptConnects, Accept, Socks!BSocksClientInit, SidesAgree, ClientInv, SidesDown
<1>3. CASE LwipSteps \/ LwipConfirms \/ SocksSends \/ SocksReceives
  <2>1. /\ FreesSocks /\ entry' \in {entry, "freed"} /\ socks_up' = socks_up
        /\ (socks_closed => socks_closed') /\ (entry' = "freed" => socks_closed')
        /\ socks_closed \in BOOLEAN /\ socks_closed' \in BOOLEAN
    BY <1>3, CallbackEffect DEF ClientInv, CallbackAsserts, TypeOK
  <2>2. CASE socks_closed' = socks_closed
    <3>1. UNCHANGED state
      BY <2>1, <2>2 DEF FreesSocks, socks
    <3> QED
      BY <2>1, <2>2, <3>1 DEF SidesAgree
  <2>3. CASE socks_closed' # socks_closed
    <3>1. state' = "FREED" /\ socks_closed'
      BY <2>1, <2>3 DEF FreesSocks, Socks!UserFrees, Socks!Free
    <3> QED
      BY <3>1 DEF SidesAgree
  <2> QED
    BY <2>2, <2>3
<1>4. CASE Connects \/ Handshakes \/ Breaks
  <2>1. /\ state # "FREED" /\ SocksHandler
        /\ (state = "UP" => state' = "FREED")
    BY <1>4, HandshakeEffect
  <2>2. CASE state' = "UP"
    BY <2>1, <2>2 DEF SocksHandler, SocksUp, SidesAgree
  <2>3. CASE state' = "FREED"
    BY <2>1, <2>3 DEF SocksHandler, SocksDown, FreeSocks, SidesAgree
  <2>4. CASE state' \notin {"UP", "FREED"}
    BY <2>1, <2>4 DEF SocksHandler, vars, SidesAgree
  <2> QED
    BY <2>2, <2>3, <2>4
<1> QED
  BY <1>1, <1>2, <1>3, <1>4 DEF RelayNext

(* Every step of the relay keeps its invariant. *)
LEMMA RelayStep == RelayInv /\ [RelayNext]_relay => RelayInv'
<1> SUFFICES ASSUME RelayInv, [RelayNext]_relay PROVE RelayInv'
  OBVIOUS
<1>1. ClientInv'
  BY RelayIsClientStep, ClientStep DEF RelayInv, ClientInv, SocksInv
<1>2. SocksInv'
  BY RelayIsSocksStep, SocksStep DEF RelayInv
<1>3. SidesAgree'
  BY <1>1, <1>2, SidesAgreeStep
<1> QED
  BY <1>1, <1>2, <1>3 DEF RelayInv

(* The invariant holds throughout. *)
LEMMA RelayInvariant == RelaySpec => []RelayInv
<1>1. RelayInit => RelayInv
  <2>1. RelayInit => SidesAgree
    BY DEF RelayInit, Init, Socks!Init, SidesAgree
  <2> QED
    BY <2>1, ClientInvInit, SocksInvInit DEF RelayInit, RelayInv
<1> QED
  BY <1>1, RelayStep, PTL DEF RelaySpec

(* tun2socks.c: whatever the application, lwip, the proxy and the SOCKS client
   do in whatever order, and whatever the sizes of window, send buffer and SOCKS
   buffer, no callback of struct tcp_client meets a state that its ASSERTs
   exclude, and what the window admits fits into client->buf. *)
THEOREM CallbacksAreSafe == RelaySpec => []ClientSafe
<1>1. RelayInv => ClientSafe
  BY ClientInvImplies, SocksInvImplies DEF RelayInv, ClientSafe, ClientInv
<1> QED
  BY <1>1, RelayInvariant, PTL

(* tun2socks.c: an orderly end loses nothing.  When a connection is gone because
   the application closed, every byte it sent went to SOCKS; when it is gone
   because SOCKS closed, the application confirmed every byte SOCKS delivered. *)
THEOREM OrderlyEndLosesNothing == RelaySpec => []NothingLost
<1>1. RelayInv => NothingLost
  BY ClientInvImplies DEF RelayInv
<1> QED
  BY <1>1, RelayInvariant, PTL

(* BSocksClient.c: for any methods offered and any length of a password, the
   handshake stays inside the block that is allocated, swallows no byte of the
   destination's stream and frees everything once. *)
THEOREM HandshakeIsSafe == RelaySpec => []HandshakeSafe
<1>1. RelayInv => HandshakeSafe
  BY SocksInvImplies DEF RelayInv
<1> QED
  BY <1>1, RelayInvariant, PTL

(* client_free_socks and BSocksClient_Free: the structure and its SOCKS client
   agree on whether the latter exists and is up. *)
THEOREM SidesAlwaysAgree == RelaySpec => []SidesAgree
<1>1. RelayInv => SidesAgree
  BY DEF RelayInv
<1> QED
  BY <1>1, RelayInvariant, PTL

(* The relay implements the structure and the SOCKS client it composes: its
   behaviours are behaviours of TcpClient and of SocksClient, so that what holds
   of either alone, with an arbitrary other side, holds of the composition. *)
THEOREM RelayImplementsBoth == RelaySpec => Spec /\ Socks!Spec
<1>1. RelayInit => Init /\ Socks!Init
  BY DEF RelayInit
<1>2. RelayInv /\ [RelayNext]_relay => [Next]_vars /\ [Socks!Next]_(Socks!vars)
  BY RelayIsClientStep, RelayIsSocksStep
     DEF RelayInv, ClientInv, SocksInv, Socks!vars, socks
<1> QED
  BY <1>1, <1>2, RelayInvariant, PTL DEF RelaySpec, Spec, Socks!Spec
==============================================================================
