------------------------------ MODULE Connection ------------------------------
(***************************************************************************)
(* A stream connection of tun2socks to the proxy: BConnector and           *)
(* BConnection (src/app/src/main/jni/badvpn/system/BConnection_unix.c)     *)
(* with the two interfaces a user drives it by (flow/StreamPassInterface,  *)
(* flow/StreamRecvInterface), as BSocksClient uses them.                   *)
(*                                                                         *)
(* A handler is one action.  The user's calls come from handlers too, of   *)
(* this connection or of others, and so between any two of them.  jobs are *)
(* the pending jobs of this connection, the first one next; result is what *)
(* epoll_wait has returned for its descriptor and the loop has not         *)
(* dispatched yet.                                                         *)
(*                                                                         *)
(* The kernel is external: what has arrived, whether the peer has closed   *)
(* or reset the connection, and the room in the send buffer.               *)
(***************************************************************************)
EXTENDS Naturals, Sequences, SequencesExt

CONSTANTS
  IoLimit,     \* BCONNECTION_SEND_LIMIT, BCONNECTION_RECV_LIMIT
  Room,        \* bytes in the send buffer of the socket
  MaxArrivals, \* bound: bytes the peer sends
  MaxInits     \* how often each interface is initialised: for the handshake
               \* and for the user (BSocksClient.c init_control_io, init_up_io)

ConnectionAssumption ==
  {IoLimit, Room, MaxArrivals, MaxInits} \subseteq Nat \ {0}

VARIABLES
  connector,  \* BConnector: exists, has the descriptor, connected, have_bfd,
              \* and whether its handler was called without an error
  con,        \* BConnection: none, live, error (reported), freed
  is_hupd,
  wait,       \* wait_events
  send, recv, \* their states
  sendIf, recvIf, \* states of the interfaces
  inits,      \* how often each was initialised
  spent,      \* counts of the two limits
  jobs,
  fd,         \* none, open, closed, or closed twice
  registered, \* whose BFileDescriptor the reactor has: connector, connection, none
  result,
  kernel      \* [link, in, arrived, eof, room]

user == <<connector, con, inits>>
vars == <<user, is_hupd, wait, send, recv, sendIf, recvIf, spent, jobs, fd, registered,
          result, kernel>>

JobNames == {"connector", "sendOp", "sendDone", "recv", "recvOp", "recvDone"}

Init ==
  /\ connector = [alive |-> FALSE, fd |-> FALSE, connected |-> FALSE,
                  have_bfd |-> FALSE, told |-> FALSE]
  /\ con = "none" /\ is_hupd = FALSE /\ wait = {}
  /\ send = "NOT_INITED" /\ recv = "NOT_INITED"
  /\ sendIf = "NONE" /\ recvIf = "NONE"
  /\ inits = [send |-> 0, recv |-> 0] /\ spent = [send |-> 0, recv |-> 0]
  /\ jobs = <<>> /\ fd = "none" /\ registered = "none" /\ result = {}
  /\ kernel = [link |-> "closed", in |-> 0, arrived |-> 0, eof |-> FALSE, room |-> Room]

Close == fd' = IF fd = "open" THEN "closed" ELSE "closed twice"

-----------------------------------------------------------------------------
(* BConnector. *)

(* BConnector_Init: the connection is under way, is there at once, or any of the
   calls fails. *)
BConnectorInit ==
  /\ fd = "none"
  /\ \/ /\ connector' = [connector EXCEPT !.alive = TRUE, !.fd = TRUE, !.have_bfd = TRUE]
        /\ fd' = "open" /\ registered' = "connector"
        /\ kernel' = [kernel EXCEPT !.link = "connecting"]
        /\ UNCHANGED jobs
     \/ /\ connector' = [connector EXCEPT !.alive = TRUE, !.fd = TRUE, !.connected = TRUE]
        /\ fd' = "open" /\ jobs' = <<"connector">>
        /\ kernel' = [kernel EXCEPT !.link = "up"]
        /\ UNCHANGED registered
     \/ /\ fd' = "closed"
        /\ UNCHANGED <<connector, registered, kernel, jobs>>
  /\ UNCHANGED <<con, inits, is_hupd, wait, send, recv, sendIf, recvIf, spent, result>>

(* connector_fd_handler: the result of connect() is read, or that fails. *)
ConnectorFdHandler ==
  /\ registered = "connector" /\ jobs = <<>> /\ result # {}
  /\ registered' = "none" /\ result' = {}
  /\ \E ok \in {kernel.link # "refused", FALSE} :
       connector' = [connector EXCEPT !.have_bfd = FALSE, !.connected = ok, !.told = ok]
  /\ UNCHANGED <<con, inits, is_hupd, wait, send, recv, sendIf, recvIf, spent, jobs, fd, kernel>>

(* connector_job_handler. *)
ConnectorJobHandler ==
  /\ jobs # <<>> /\ Head(jobs) = "connector"
  /\ jobs' = Tail(jobs)
  /\ connector' = [connector EXCEPT !.told = TRUE]
  /\ UNCHANGED <<con, inits, is_hupd, wait, send, recv, sendIf, recvIf, spent, fd, registered,
                 result, kernel>>

(* BConnector_Free, which BSocksClient_Free calls last. *)
BConnectorFree ==
  /\ connector.alive /\ con \in {"none", "freed"}
  /\ connector' = [connector EXCEPT !.alive = FALSE, !.fd = FALSE, !.have_bfd = FALSE, !.told = FALSE]
  /\ registered' = IF connector.have_bfd THEN "none" ELSE registered
  /\ result' = IF connector.have_bfd THEN {} ELSE result
  /\ IF connector.fd THEN Close ELSE UNCHANGED fd
  /\ jobs' = RemoveFirst(jobs, "connector")
  /\ UNCHANGED <<con, inits, is_hupd, wait, send, recv, sendIf, recvIf, spent, kernel>>

-----------------------------------------------------------------------------
(* BConnection: what the user calls. *)

(* BConnection_Init takes the descriptor; BReactor_AddFileDescriptor may fail. *)
BConnectionInit ==
  /\ connector.alive /\ connector.told /\ connector.fd
  /\ connector' = [connector EXCEPT !.fd = FALSE]
  /\ \/ con' = "live" /\ registered' = "connection" /\ UNCHANGED fd
     \/ Close /\ UNCHANGED <<con, registered>>
  /\ UNCHANGED <<inits, is_hupd, wait, send, recv, sendIf, recvIf, spent, jobs, result, kernel>>

BConnectionFree ==
  /\ con \in {"live", "error"} /\ send = "NOT_INITED" /\ recv = "NOT_INITED"
  /\ con' = "freed"
  /\ IF is_hupd THEN UNCHANGED <<registered, result>> ELSE registered' = "none" /\ result' = {}
  /\ Close
  /\ UNCHANGED <<connector, inits, is_hupd, wait, send, recv, sendIf, recvIf, spent, jobs, kernel>>

SendAsyncInit ==
  /\ con = "live" /\ send = "NOT_INITED" /\ inits.send < MaxInits
  /\ send' = "READY" /\ sendIf' = "NONE"
  /\ inits' = [inits EXCEPT !.send = @ + 1]
  /\ UNCHANGED <<connector, con, is_hupd, wait, recv, recvIf, spent, jobs, fd, registered,
                 result, kernel>>

RecvAsyncInit ==
  /\ con = "live" /\ recv = "NOT_INITED" /\ inits.recv < MaxInits
  /\ recv' = "READY" /\ recvIf' = "NONE"
  /\ inits' = [inits EXCEPT !.recv = @ + 1]
  /\ UNCHANGED <<connector, con, is_hupd, wait, send, sendIf, spent, jobs, fd, registered,
                 result, kernel>>

SendAsyncFree ==
  /\ con \in {"live", "error"} /\ send \in {"READY", "BUSY"}
  /\ send' = "NOT_INITED" /\ sendIf' = "NONE"
  /\ wait' = IF is_hupd THEN wait ELSE wait \ {"WRITE"}
  /\ jobs' = RemoveFirst(RemoveFirst(jobs, "sendOp"), "sendDone")
  /\ UNCHANGED <<user, is_hupd, recv, recvIf, spent, fd, registered, result, kernel>>

RecvAsyncFree ==
  /\ con \in {"live", "error"} /\ recv \in {"READY", "BUSY", "INITED_CLOSED"}
  /\ recv' = "NOT_INITED" /\ recvIf' = "NONE"
  /\ wait' = IF is_hupd THEN wait ELSE wait \ {"READ"}
  /\ jobs' = RemoveFirst(RemoveFirst(RemoveFirst(jobs, "recv"), "recvOp"), "recvDone")
  /\ UNCHANGED <<user, is_hupd, send, sendIf, spent, fd, registered, result, kernel>>

(* StreamPassInterface_Sender_Send, StreamRecvInterface_Receiver_Recv. *)
SenderSend ==
  /\ con = "live" /\ send # "NOT_INITED" /\ sendIf = "NONE"
  /\ sendIf' = "OPERATION_PENDING" /\ jobs' = <<"sendOp">> \o jobs
  /\ UNCHANGED <<user, is_hupd, wait, send, recv, recvIf, spent, fd, registered, result, kernel>>

ReceiverRecv ==
  /\ con = "live" /\ recv # "NOT_INITED" /\ recvIf = "NONE"
  /\ recvIf' = "OPERATION_PENDING" /\ jobs' = <<"recvOp">> \o jobs
  /\ UNCHANGED <<user, is_hupd, wait, send, recv, sendIf, spent, fd, registered, result, kernel>>

-----------------------------------------------------------------------------
(* Input and output.  w and hup are wait_events and is_hupd as the caller has left
   them, js the jobs. *)

Reset == kernel.link = "reset"

ReportError(w, js) ==
  /\ con' = "error" /\ wait' = w /\ jobs' = js

WaitForFd(event, w, js) ==
  /\ wait' = w \cup {event} /\ jobs' = js /\ UNCHANGED con

(* connection_send: write() takes some bytes, would block or fails. *)
ConnectionSend(w, hup, js) ==
  /\ UNCHANGED <<connector, inits, recv, recvIf, fd>>
  /\ IF ~hup /\ spent.send = IoLimit
     THEN /\ WaitForFd("WRITE", w, js)
          /\ send' = "BUSY" /\ sendIf' = "BUSY"
          /\ UNCHANGED <<spent, kernel>>
     ELSE /\ spent' = [spent EXCEPT !.send = IF hup THEN @ ELSE @ + 1]
          /\ \/ /\ ~Reset /\ kernel.room > 0
                /\ \E n \in 1..kernel.room : kernel' = [kernel EXCEPT !.room = @ - n]
                /\ send' = "READY" /\ sendIf' = "DONE_PENDING"
                /\ wait' = w /\ jobs' = <<"sendDone">> \o js
                /\ UNCHANGED con
             \/ /\ Reset \/ kernel.room = 0
                /\ IF Reset \/ hup THEN ReportError(w, js) ELSE WaitForFd("WRITE", w, js)
                /\ send' = "BUSY" /\ sendIf' = "BUSY"
                /\ UNCHANGED kernel

(* connection_recv: read() gives bytes, the end of the stream, would block or
   fails; after a reset it may give either of the last two. *)
ConnectionRecv(w, hup, js) ==
  /\ UNCHANGED <<connector, inits, send, sendIf, fd>>
  /\ IF ~hup /\ spent.recv = IoLimit
     THEN /\ WaitForFd("READ", w, js)
          /\ recv' = "BUSY" /\ recvIf' = "BUSY"
          /\ UNCHANGED <<spent, kernel>>
     ELSE /\ spent' = [spent EXCEPT !.recv = IF hup THEN @ ELSE @ + 1]
          /\ \/ /\ kernel.in > 0
                /\ \E n \in 1..kernel.in : kernel' = [kernel EXCEPT !.in = @ - n]
                /\ recv' = "READY" /\ recvIf' = "DONE_PENDING"
                /\ wait' = w /\ jobs' = <<"recvDone">> \o js
                /\ UNCHANGED con
             \/ /\ kernel.in = 0 /\ (kernel.eof \/ Reset)
                /\ recv' = "INITED_CLOSED" /\ recvIf' = "BUSY"
                /\ wait' = w /\ jobs' = js
                /\ UNCHANGED <<con, kernel>>
             \/ /\ kernel.in = 0 /\ ~kernel.eof
                /\ IF Reset \/ hup THEN ReportError(w, js) ELSE WaitForFd("READ", w, js)
                /\ recv' = "BUSY" /\ recvIf' = "BUSY"
                /\ UNCHANGED kernel

(* What the loop makes of the entry of epoll_results (BReactor_Exec). *)
Events ==
  (result \cap {"ERROR", "HUP"}) \cup (result \cap wait)

HandlesSendOnly(events) ==   \* Mutant: a receive that is due too is left to the next event
  LET bad == events \cap {"ERROR", "HUP"} # {}
      hup == "HUP" \in events
      w == wait \ events
      haveSend == "WRITE" \in events \/ (bad /\ send = "BUSY")
      haveRecv == "READ" \in events \/ (bad /\ recv = "BUSY")
  IN /\ is_hupd' = hup
     /\ registered' = IF hup THEN "none" ELSE registered
     /\ CASE haveSend -> ConnectionSend(w, hup, jobs)
          [] ~haveSend /\ haveRecv -> ConnectionRecv(w, hup, jobs)
          [] OTHER -> /\ IF hup THEN wait' = w /\ UNCHANGED <<con, jobs>> ELSE ReportError(w, jobs)
                      /\ UNCHANGED <<connector, inits, send, sendIf, recv, recvIf, spent, kernel, fd>>

(* connection_fd_handler.  HUP ends the watching of the descriptor, and so what is
   under way then must be dealt with: the send at once, the receive by a job. *)
FdHandler(events) ==
  LET bad == events \cap {"ERROR", "HUP"} # {}
      hup == "HUP" \in events
      w == wait \ events
      haveSend == "WRITE" \in events \/ (bad /\ send = "BUSY")
      haveRecv == "READ" \in events \/ (bad /\ recv = "BUSY")
  IN /\ is_hupd' = hup
     /\ registered' = IF hup THEN "none" ELSE registered
     /\ CASE haveSend -> ConnectionSend(w, hup, IF haveRecv THEN <<"recv">> \o jobs ELSE jobs)
          [] ~haveSend /\ haveRecv -> ConnectionRecv(w, hup, jobs)
          [] OTHER -> /\ IF hup THEN wait' = w /\ UNCHANGED <<con, jobs>> ELSE ReportError(w, jobs)
                      /\ UNCHANGED <<connector, inits, send, sendIf, recv, recvIf, spent, kernel, fd>>

(* An error is dealt with (the user frees everything) before the loop goes on. *)
LoopRuns == con # "error"

DispatchFd ==
  /\ LoopRuns /\ jobs = <<>> /\ registered = "connection" /\ result # {}
  /\ result' = {}
  /\ IF Events = {}
     THEN UNCHANGED <<user, is_hupd, wait, send, recv, sendIf, recvIf, spent, jobs, fd,
                      registered, kernel>>
     ELSE FdHandler(Events)

(* Jobs of the interfaces call connection_send_if_handler_send and
   connection_recv_if_handler_recv, or the user's handler. *)
SendJobs ==
  /\ LoopRuns /\ jobs # <<>>
  /\ \/ Head(jobs) = "sendOp" /\ ConnectionSend(wait, is_hupd, Tail(jobs))
     \/ /\ Head(jobs) = "sendDone" /\ sendIf' = "NONE" /\ jobs' = Tail(jobs)
        /\ UNCHANGED <<user, wait, send, recv, recvIf, spent, fd, kernel>>
  /\ UNCHANGED <<is_hupd, registered, result>>

RecvJobs ==
  /\ LoopRuns /\ jobs # <<>>
  /\ \/ Head(jobs) \in {"recvOp", "recv"} /\ ConnectionRecv(wait, is_hupd, Tail(jobs))
     \/ /\ Head(jobs) = "recvDone" /\ recvIf' = "NONE" /\ jobs' = Tail(jobs)
        /\ UNCHANGED <<user, wait, send, recv, sendIf, spent, fd, kernel>>
  /\ UNCHANGED <<is_hupd, registered, result>>

-----------------------------------------------------------------------------
(* The kernel and the other end. *)

Ready ==
  CASE registered = "connector" -> IF kernel.link = "connecting" THEN {} ELSE {"WRITE"}
    [] registered = "connection" ->
         wait \cap ((IF kernel.in > 0 \/ kernel.eof \/ Reset THEN {"READ"} ELSE {})
                    \cup (IF kernel.room > 0 \/ Reset THEN {"WRITE"} ELSE {}))
    [] OTHER -> {}

(* epoll_wait returns, for this descriptor or for another one; the limits begin
   anew.  After a reset it reports an error, a hang-up or both. *)
EpollWait ==
  /\ LoopRuns /\ jobs = <<>> /\ result = {}
  /\ \E bad \in IF Reset /\ registered = "connection"
                THEN {{"ERROR"}, {"HUP"}, {"ERROR", "HUP"}} ELSE {{}} :
       \E got \in {Ready \cup bad, {}} : result' = got
  /\ spent' = [send |-> 0, recv |-> 0]
  /\ UNCHANGED <<user, is_hupd, wait, send, recv, sendIf, recvIf, jobs, fd, registered, kernel>>

Connects ==
  /\ kernel.link = "connecting" /\ fd = "open"
  /\ \E l \in {"up", "refused"} : kernel' = [kernel EXCEPT !.link = l]
  /\ UNCHANGED <<user, is_hupd, wait, send, recv, sendIf, recvIf, spent, jobs, fd, registered, result>>

Peer ==
  /\ kernel.link = "up" /\ fd = "open"
  /\ \/ /\ kernel.arrived < MaxArrivals /\ ~kernel.eof
        /\ kernel' = [kernel EXCEPT !.in = @ + 1, !.arrived = @ + 1]
     \/ ~kernel.eof /\ kernel' = [kernel EXCEPT !.eof = TRUE]
     \/ kernel.room < Room /\ kernel' = [kernel EXCEPT !.room = Room]
     \/ kernel' = [kernel EXCEPT !.link = "reset"]
  /\ UNCHANGED <<user, is_hupd, wait, send, recv, sendIf, recvIf, spent, jobs, fd, registered, result>>

Calls ==
  \/ BConnectorInit \/ BConnectorFree \/ BConnectionInit \/ BConnectionFree
  \/ SendAsyncInit \/ SendAsyncFree \/ RecvAsyncInit \/ RecvAsyncFree
  \/ SenderSend \/ ReceiverRecv

Loop ==
  \/ ConnectorFdHandler \/ ConnectorJobHandler \/ SendJobs \/ RecvJobs \/ DispatchFd

Next == Calls \/ Loop \/ EpollWait \/ Connects \/ Peer

Spec == Init /\ [][Next]_vars

-----------------------------------------------------------------------------
IfStates == {"NONE", "OPERATION_PENDING", "BUSY", "DONE_PENDING"}
Counts(n) == [send : 0..n, recv : 0..n]
Connectors ==
  [alive : BOOLEAN, fd : BOOLEAN, connected : BOOLEAN, have_bfd : BOOLEAN, told : BOOLEAN]
Kernels ==
  {k \in [link : {"closed", "connecting", "refused", "up", "reset"}, in : 0..MaxArrivals,
          arrived : 0..MaxArrivals, eof : BOOLEAN, room : 0..Room] : k.in <= k.arrived}

TypeOK ==
  /\ connector \in Connectors /\ kernel \in Kernels
  /\ con \in {"none", "live", "error", "freed"} /\ is_hupd \in BOOLEAN
  /\ wait \subseteq {"READ", "WRITE"}
  /\ send \in {"NOT_INITED", "READY", "BUSY"}
  /\ recv \in {"NOT_INITED", "READY", "BUSY", "INITED_CLOSED"}
  /\ sendIf \in IfStates /\ recvIf \in IfStates
  /\ spent \in Counts(IoLimit) /\ inits \in Counts(MaxInits)
  /\ jobs \in Seq(JobNames)
  /\ fd \in {"none", "open", "closed", "closed twice"}
  /\ registered \in {"none", "connector", "connection"}
  /\ result \subseteq {"READ", "WRITE", "ERROR", "HUP"}

(* No wake-up is lost and none comes for nothing.  Of a live connection, a
   direction is watched exactly when it is under way; once the descriptor has
   hung up nobody will wake it any more, so that nothing is under way but a
   receive whose job is pending.  (The ASSERTs of connection_fd_handler,
   connection_send, connection_recv and the job handlers are among this.) *)
BusyIsWatched ==
  con = "live" =>
    LET woken == Range(jobs) \cap {"recv"} # {} IN
    /\ send = "BUSY" <=> (~is_hupd /\ "WRITE" \in wait)
    /\ recv = "BUSY" <=> (woken \/ (~is_hupd /\ "READ" \in wait))
    /\ woken => is_hupd \/ "READ" \notin wait

(* The interfaces agree with the connection: a job of an interface is pending
   exactly in the state that waits for it, and an operation is handed over only
   to a side that is READY (connection_send_if_handler_send,
   connection_recv_if_handler_recv). *)
InterfacesAgree ==
  /\ sendIf = "OPERATION_PENDING" <=> Contains(jobs, "sendOp")
  /\ sendIf = "DONE_PENDING" <=> Contains(jobs, "sendDone")
  /\ recvIf = "OPERATION_PENDING" <=> Contains(jobs, "recvOp")
  /\ recvIf = "DONE_PENDING" <=> Contains(jobs, "recvDone")
  /\ send = "READY" <=> (send # "NOT_INITED" /\ sendIf # "BUSY")
  /\ recv = "READY" <=> (recv # "NOT_INITED" /\ recvIf # "BUSY")
  /\ IsInjective(jobs)

(* The descriptor is open as long as exactly one of BConnector and BConnection
   has it, is closed once, on every path, and the reactor knows it only while it
   is open and under the name of the object whose handler is to be called
   (BConnector_Free, BConnection_Init, BConnection_Free). *)
DescriptorHasOneOwner ==
  LET owns == con \in {"live", "error"} IN
  /\ fd # "closed twice"
  /\ ~(connector.fd /\ owns)
  /\ fd = "open" <=> (connector.fd \/ owns)
  /\ registered = "connector" <=> connector.have_bfd
  /\ registered = "connection" <=> (owns /\ ~is_hupd)
  /\ connector.have_bfd => connector.fd /\ ~connector.connected

(* A receive that can go on does: what has arrived, the end of the stream or a
   reset reaches the user who waits for it, although sends go on meanwhile and
   the number of receives in one turn of the loop is limited. *)
Stalled == con = "live" /\ recv = "BUSY" /\ (kernel.in > 0 \/ kernel.eof \/ Reset)
EveryReceiveEnds == Stalled ~> ~Stalled

(* BConnection_unix.c as a whole. *)
ConnectionSafe == TypeOK /\ BusyIsWatched /\ InterfacesAgree /\ DescriptorHasOneOwner
=============================================================================
