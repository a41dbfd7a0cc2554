-------------------------------- MODULE Reactor --------------------------------
(***************************************************************************)
(* BReactor (src/app/src/main/jni/badvpn/system/BReactor_badvpn.c, the     *)
(* epoll build) with its job list (base/BPending.c): the event loop every  *)
(* callback of tun2socks runs in.                                          *)
(*                                                                         *)
(* The loop dispatches one job, else one expired timer, else one result of *)
(* the last epoll_wait, and waits when there is none of them.  A handler   *)
(* may set and remove jobs, timers and descriptors in any order, those     *)
(* about to be dispatched too: an action of its own for each call, allowed *)
(* while pc says that a handler runs.  "setup" is run() before             *)
(* BReactor_Exec.                                                          *)
(*                                                                         *)
(* Time is relative: left[t] is what absTime is ahead of now.              *)
(*                                                                         *)
(* The limits of the connections are one limit: a job handler that reads   *)
(* or writes must get a turn of it before it may cause further jobs        *)
(* (connection_recv, BConnection_unix.c); the jobs that only hand on what  *)
(* was read go with it.  The jobs that read the tun device have no limit:  *)
(* the handler of one sets the next one, and jobs of the connections, for  *)
(* as long as there are packets (BTap.c, SinglePacketBuffer.c,             *)
(* device_read_handler_send).                                              *)
(***************************************************************************)
EXTENDS Integers, Sequences, SequencesExt, FiniteSets

CONSTANTS
  Jobs, Timers, Fds,
  DeviceJobs,  \* the jobs that read the tun device
  Null,
  After,     \* for how long timers are set
  Limit,     \* BCONNECTION_RECV_LIMIT
  MaxLate    \* bound on how late a timer is seen

ReactorAssumption ==
  /\ IsFiniteSet(Timers) /\ IsFiniteSet(Fds) /\ Null \notin Fds
  /\ DeviceJobs \subseteq Jobs
  /\ After \subseteq Nat \ {0}
  /\ Limit \in Nat \ {0} /\ MaxLate \in Nat

VARIABLES
  pc,        \* "setup", "loop", "wait", "exited", or the handler that runs
  jobs,      \* pending_jobs, the first one next
  state,     \* of each timer
  left,      \* of each timer that runs: its absTime - now
  expired,   \* timers_expired_list
  active,    \* descriptors that are added
  waits,     \* waitEvents (here: those that wait for an event at all)
  results,   \* epoll_results from epoll_results_pos on
  returned,  \* epoll_returned_ptr: the entry of each descriptor, 0 is NULL
  count      \* of the limit

timers == <<state, left, expired>>
fds == <<active, waits, results, returned>>
vars == <<pc, jobs, timers, fds, count>>

(* An entry of epoll_results: the descriptor it points to, whether an error or
   only what is waited for was reported, and whether that descriptor was removed
   since (which the code does not store). *)
Entries == [ptr : Fds \cup {Null}, error : BOOLEAN, stale : BOOLEAN]

Handlers == {"setup", "job", "granted", "device", "timer", "fd"}

Init ==
  /\ pc = "setup"
  /\ jobs = <<>>
  /\ state = [t \in Timers |-> "INACTIVE"]
  /\ left = [t \in Timers |-> 0]
  /\ expired = <<>>
  /\ active = {} /\ waits = {} /\ results = <<>>
  /\ returned = [f \in Fds |-> 0]
  /\ count = 0

-----------------------------------------------------------------------------
(* What a handler may call. *)

(* A job handler needs a turn of the limit to go on with its connection. *)
BReactorLimitIncrement ==
  /\ pc = "job" /\ count < Limit
  /\ count' = count + 1
  /\ pc' = "granted"
  /\ UNCHANGED <<jobs, timers, fds>>

Set(j) ==
  /\ pc \in Handlers \ {"job"}
  /\ jobs' = <<j>> \o RemoveFirst(jobs, j)
  /\ UNCHANGED <<pc, timers, fds, count>>

Unset(j) ==
  /\ pc \in Handlers
  /\ j \in Range(jobs)
  /\ jobs' = RemoveFirst(jobs, j)
  /\ UNCHANGED <<pc, timers, fds, count>>

SetSmallTimer(t, after) ==
  /\ pc \in Handlers
  /\ expired' = RemoveFirst(expired, t)
  /\ state' = [state EXCEPT ![t] = "RUNNING"]
  /\ left' = [left EXCEPT ![t] = after]
  /\ UNCHANGED <<pc, jobs, fds, count>>

RemoveSmallTimer(t) ==
  /\ pc \in Handlers
  /\ state[t] # "INACTIVE"
  /\ expired' = RemoveFirst(expired, t)
  /\ state' = [state EXCEPT ![t] = "INACTIVE"]
  /\ left' = [left EXCEPT ![t] = 0]
  /\ UNCHANGED <<pc, jobs, fds, count>>

AddFileDescriptor(f) ==
  /\ pc \in Handlers
  /\ f \notin active
  /\ active' = active \cup {f}
  /\ returned' = [returned EXCEPT ![f] = 0]
  /\ UNCHANGED <<pc, jobs, timers, waits, results, count>>

RemoveKeepsEntry(f) ==   \* Mutant: the entry of a removed descriptor is not cleared
  /\ pc \in Handlers
  /\ f \in active
  /\ active' = active \ {f}
  /\ waits' = waits \ {f}
  /\ results' = [i \in DOMAIN results |->
                   [results[i] EXCEPT !.stale = @ \/ results[i].ptr = f]]
  /\ UNCHANGED <<pc, jobs, timers, returned, count>>

(* The entry that points to the descriptor is cleared through the pointer that
   the descriptor keeps; the pointer itself stays until it is added again. *)
RemoveFileDescriptor(f) ==
  /\ pc \in Handlers
  /\ f \in active
  /\ active' = active \ {f}
  /\ waits' = waits \ {f}
  /\ results' = [i \in DOMAIN results |->
                   [results[i] EXCEPT
                      !.ptr = IF i = returned[f] THEN Null ELSE @,
                      !.stale = @ \/ results[i].ptr = f]]
  /\ UNCHANGED <<pc, jobs, timers, returned, count>>

SetFileDescriptorEvents(f) ==
  /\ pc \in Handlers
  /\ f \in active
  /\ waits' = IF f \in waits THEN waits \ {f} ELSE waits \cup {f}
  /\ UNCHANGED <<pc, jobs, timers, active, results, returned, count>>

HandlerReturns ==
  /\ pc \in Handlers
  /\ pc' = "loop"
  /\ UNCHANGED <<jobs, timers, fds, count>>

(* BReactor_Quit: the loop ends when the handler has returned. *)
Quit ==
  /\ pc \in Handlers
  /\ pc' = "exited"
  /\ UNCHANGED <<jobs, timers, fds, count>>

-----------------------------------------------------------------------------
(* BReactor_Exec. *)

(* BPendingGroup_ExecuteJob. *)
ExecuteJob ==
  /\ pc = "loop" /\ jobs # <<>>
  /\ jobs' = Tail(jobs)
  /\ pc' = IF Head(jobs) \in DeviceJobs THEN "device" ELSE "job"
  /\ UNCHANGED <<timers, fds, count>>

DispatchTimer ==
  /\ pc = "loop" /\ jobs = <<>> /\ expired # <<>>
  /\ expired' = Tail(expired)
  /\ state' = [state EXCEPT ![Head(expired)] = "INACTIVE"]
  /\ left' = [left EXCEPT ![Head(expired)] = 0]
  /\ pc' = "timer"
  /\ UNCHANGED <<jobs, fds, count>>

(* The pointers of the descriptors are to entries, which move up by one here. *)
Advance == [f \in Fds |-> IF returned[f] > 0 THEN returned[f] - 1 ELSE 0]

(* An entry whose descriptor was removed, or no longer waits for what came, is
   passed over. *)
DispatchFd ==
  /\ pc = "loop" /\ jobs = <<>> /\ expired = <<>> /\ results # <<>>
  /\ results' = Tail(results)
  /\ returned' = Advance
  /\ LET e == Head(results) IN
       pc' = IF e.ptr # Null /\ (e.error \/ e.ptr \in waits) THEN "fd" ELSE "loop"
  /\ UNCHANGED <<jobs, timers, active, waits, count>>

(* The running timers move to the expired list in the order of the tree. *)
Expire(ts) ==
  /\ \E s \in SetToSeqs(ts) :
       /\ \A i, k \in DOMAIN s : i < k => left[s[i]] <= left[s[k]]
       /\ expired' = expired \o s
  /\ state' = [t \in Timers |-> IF t \in ts THEN "EXPIRED" ELSE state[t]]
  /\ left' = [t \in Timers |-> IF t \in ts THEN 0 ELSE left[t]]

Running == {t \in Timers : state[t] = "RUNNING"}
OutOfTime == {t \in Running : left[t] <= 0}

(* wait_for_events up to epoll_wait: timers already out of time come first. *)
NothingToDispatch ==
  pc = "loop" /\ jobs = <<>> /\ expired = <<>> /\ results = <<>>

BeginWait ==
  /\ NothingToDispatch
  /\ IF OutOfTime # {}
     THEN Expire(OutOfTime) /\ UNCHANGED pc
     ELSE pc' = "wait" /\ UNCHANGED timers
  /\ UNCHANGED <<jobs, fds, count>>

(* epoll_wait returns descriptors: the ones that wait, or any with an error. *)
EpollReturns ==
  /\ pc = "wait"
  /\ \E fs \in (SUBSET active) \ {{}} :
       \E s \in SetToSeqs(fs) :
         \E error \in [DOMAIN s -> BOOLEAN] :
           /\ \A i \in DOMAIN s : s[i] \in waits \/ error[i]
           /\ results' = [i \in DOMAIN s |->
                            [ptr |-> s[i], error |-> error[i], stale |-> FALSE]]
           /\ returned' = [f \in Fds |->
                 IF f \in fs THEN CHOOSE i \in DOMAIN s : s[i] = f ELSE returned[f]]
  /\ pc' = "loop"
  /\ count' = 0
  /\ UNCHANGED <<jobs, timers, active, waits>>

(* epoll_wait times out, or was interrupted and the time had come: only the
   timers of the earliest time are moved. *)
EpollTimesOut ==
  /\ pc = "wait" /\ OutOfTime # {}
  /\ Expire({t \in Running : \A u \in Running : left[t] <= left[u]})
  /\ pc' = "loop"
  /\ count' = 0
  /\ UNCHANGED <<jobs, fds>>

(* Time passes, whatever runs. *)
Tick ==
  /\ pc # "exited"
  /\ Running # {}
  /\ \A t \in Running : left[t] > -MaxLate
  /\ left' = [t \in Timers |-> IF t \in Running THEN left[t] - 1 ELSE left[t]]
  /\ UNCHANGED <<pc, jobs, state, expired, fds, count>>

Calls ==
  \/ BReactorLimitIncrement
  \/ \E j \in Jobs : Set(j) \/ Unset(j)
  \/ \E t \in Timers : RemoveSmallTimer(t) \/ \E after \in After : SetSmallTimer(t, after)
  \/ \E f \in Fds : AddFileDescriptor(f) \/ RemoveFileDescriptor(f) \/ SetFileDescriptorEvents(f)

Exec == ExecuteJob \/ DispatchTimer \/ DispatchFd \/ BeginWait

Next == Calls \/ HandlerReturns \/ Quit \/ Exec \/ EpollReturns \/ EpollTimesOut \/ Tick

Spec == Init /\ [][Next]_vars

-----------------------------------------------------------------------------
TypeOK ==
  /\ pc \in Handlers \cup {"loop", "wait", "exited"}
  /\ jobs \in Seq(Jobs) /\ expired \in Seq(Timers)
  /\ state \in [Timers -> {"INACTIVE", "RUNNING", "EXPIRED"}]
  /\ left \in [Timers -> Int]
  /\ waits \subseteq active /\ active \subseteq Fds
  /\ results \in Seq(Entries) /\ returned \in [Fds -> Nat]
  /\ count \in 0..Limit

(* A result of epoll_wait is never handed to a descriptor that was removed since,
   not even when it was added again meanwhile: every entry left that is not
   cleared belongs to the descriptor as it was when epoll_wait returned, and
   that descriptor knows where the entry is (RemoveFileDescriptor, Exec). *)
NoStaleEvent ==
  \A i \in DOMAIN results :
    LET f == results[i].ptr IN
      f # Null => ~results[i].stale /\ f \in active /\ returned[f] = i

(* A timer or a job set anew is not dispatched for what it was set before: the
   expired list holds the timers that are EXPIRED, once each, and a job is
   pending once (BReactor_SetSmallTimer, BSmallPending_Set). *)
NothingTwice ==
  /\ IsInjective(jobs) /\ IsInjective(expired)
  /\ Range(expired) = {t \in Timers : state[t] = "EXPIRED"}

(* A timer whose time has come is dispatched, removed or set anew, however many
   events the descriptors have and although jobs go first, as long as timers are
   set ahead and not for at once, as all of tun2socks are (BReactor_Exec,
   wait_for_events; the limits make the jobs of the connections end), and as long
   as reading the device comes to an end again and again: its jobs go on, ahead
   of every timer, until read() finds no packet (output_handler_recv). *)
Due(t) == state[t] = "EXPIRED" \/ (state[t] = "RUNNING" /\ left[t] <= 0)
DeviceIdle == pc # "device" /\ Range(jobs) \cap DeviceJobs = {}
EveryTimerFires ==
  []<>DeviceIdle => \A t \in Timers : Due(t) ~> (~Due(t) \/ pc = "exited")

(* BReactor_badvpn.c: nothing is dispatched that was removed or set anew. *)
ReactorSafe == TypeOK /\ NoStaleEvent /\ NothingTwice
=============================================================================
