------------------------------- MODULE FairQueue -------------------------------
(***************************************************************************)
(* PacketPassFairQueue.c: the queue that shares one output (the connection *)
(* to the udpgw server) among flows.  A flow's virtual time grows by the   *)
(* length of what it sends; the queued flow with the least time sends      *)
(* next.  Times are unsigned and the queue shifts all of them down when    *)
(* one would pass MaxTime.                                                 *)
(*                                                                         *)
(* Flows is a set of numbers: the addresses that break ties.  Cancelling   *)
(* and freeing the whole queue are left out.                               *)
(***************************************************************************)
EXTENDS Integers, FiniteSets

CONSTANTS
  Flows,
  MaxTime,         \* FAIRQUEUE_MAX_TIME: "reduce this to test time overflow handling"
  Mtu,             \* of the output
  PacketWeight,    \* packet_weight
  Churn            \* whether flows are freed one by one (udpgw does, tun2socks does not)

FairQueueAssumption ==
  /\ Flows \subseteq Nat
  /\ MaxTime \in Nat /\ Mtu \in Nat /\ PacketWeight \in Nat \ {0}
  /\ Churn \in BOOLEAN
  /\ Mtu + PacketWeight <= MaxTime      \* PacketPassFairQueue_Init fails otherwise

None == -1

VARIABLES
  time,            \* per flow
  queued,          \* per flow: the length of the packet in queued_tree, or None
  alive,           \* the flows that are initialised
  sending_flow, sending_len,
  previous_flow,
  schedule_job     \* whether it is set

vars == <<time, queued, alive, sending_flow, sending_len, previous_flow, schedule_job>>

TypeOK ==
  /\ time \in [Flows -> 0..MaxTime]
  /\ queued \in [Flows -> None..Mtu]
  /\ alive \subseteq Flows
  /\ sending_flow \in alive \cup {None} /\ sending_len \in 0..Mtu
  /\ previous_flow \in alive \cup {None}
  /\ schedule_job \in BOOLEAN

Init ==
  /\ time = [f \in Flows |-> 0] /\ queued = [f \in Flows |-> None]
  /\ alive = {}
  /\ sending_flow = None /\ sending_len = 0 /\ previous_flow = None /\ schedule_job = FALSE

-----------------------------------------------------------------------------
IsQueued(f) == queued[f] # None

(* compare_flows *)
Before(t, f, g) == t[f] < t[g] \/ (t[f] = t[g] /\ f < g)

(* The first flow of queued_tree, for times t and queue q. *)
First(t, q) ==
  CHOOSE f \in Flows : q[f] # None /\ \A g \in Flows \ {f} : q[g] # None => Before(t, f, g)

SomeQueued(q) == \E f \in Flows : q[f] # None

(* get_current_time *)
GetCurrentTime ==
  LET candidates == {f \in Flows : IsQueued(f)} \cup ({previous_flow} \ {None})
  IN IF sending_flow # None THEN time[sending_flow]
     ELSE IF candidates = {} THEN 0
     ELSE CHOOSE t \in {time[f] : f \in candidates} : \A f \in candidates : t <= time[f]

(* increment_sent_flow: on overflow the time of the first queued flow (or the
   flow's own) is taken off everybody's. *)
IncrementSentFlow(flow, amount) ==
  LET subtract == IF amount <= MaxTime - time[flow] THEN 0
                  ELSE IF SomeQueued(queued) THEN time[First(time, queued)] ELSE time[flow]
      shifted == [f \in Flows |->
        IF f \notin alive THEN time[f]
        ELSE IF subtract > time[f] /\ f # flow THEN 0 ELSE time[f] - subtract]
  IN time' = [shifted EXCEPT ![flow] = @ + amount]

(* schedule: the first of queue q, with times t, is sent. *)
Schedule(t, q) ==
  LET f == First(t, q) IN
  /\ queued' = [q EXCEPT ![f] = None]
  /\ sending_flow' = f /\ sending_len' = q[f]

-----------------------------------------------------------------------------
(* PacketPassFairQueueFlow_Init *)
FlowInit(f) ==
  /\ f \notin alive
  /\ alive' = alive \cup {f}
  /\ time' = [time EXCEPT ![f] = 0]
  /\ UNCHANGED <<queued, sending_flow, sending_len, previous_flow, schedule_job>>

(* PacketPassFairQueueFlow_Free: allowed unless the flow is sending. *)
FlowFree(f) ==
  /\ Churn
  /\ f \in alive /\ f # sending_flow
  /\ alive' = alive \ {f}
  /\ time' = [time EXCEPT ![f] = 0]
  /\ queued' = [queued EXCEPT ![f] = None]
  /\ previous_flow' = IF previous_flow = f THEN None ELSE previous_flow
  /\ UNCHANGED <<sending_flow, sending_len, schedule_job>>

InputKeepsOldTime(f, len) ==   \* Mutant: a flow that comes back is not raised to the current time
  /\ f \in alive /\ f # sending_flow /\ ~IsQueued(f)
  /\ previous_flow' = IF previous_flow = f THEN None ELSE previous_flow
  /\ UNCHANGED time
  /\ IF sending_flow = None /\ ~schedule_job
     THEN Schedule(time, [queued EXCEPT ![f] = len])
     ELSE queued' = [queued EXCEPT ![f] = len] /\ UNCHANGED <<sending_flow, sending_len>>
  /\ UNCHANGED <<alive, schedule_job>>

(* input_handler_send: flow f has a packet. *)
InputHandlerSend(f, len) ==
  LET t == IF f = previous_flow \/ GetCurrentTime <= time[f]
           THEN time ELSE [time EXCEPT ![f] = GetCurrentTime]
  IN
  /\ f \in alive /\ f # sending_flow /\ ~IsQueued(f)
  /\ previous_flow' = IF previous_flow = f THEN None ELSE previous_flow
  /\ time' = t
  /\ IF sending_flow = None /\ ~schedule_job
     THEN Schedule(t, [queued EXCEPT ![f] = len])
     ELSE queued' = [queued EXCEPT ![f] = len] /\ UNCHANGED <<sending_flow, sending_len>>
  /\ UNCHANGED <<alive, schedule_job>>

DoneWithoutWeight ==   \* Mutant: a packet costs its length only
  /\ sending_flow # None
  /\ IncrementSentFlow(sending_flow, sending_len)
  /\ sending_flow' = None /\ previous_flow' = sending_flow /\ schedule_job' = TRUE
  /\ UNCHANGED <<queued, alive, sending_len>>

(* output_handler_done: the packet is out. *)
OutputHandlerDone ==
  /\ sending_flow # None
  /\ IncrementSentFlow(sending_flow, PacketWeight + sending_len)
  /\ sending_flow' = None
  /\ previous_flow' = sending_flow
  /\ schedule_job' = TRUE
  /\ UNCHANGED <<queued, alive, sending_len>>

(* schedule_job_handler *)
ScheduleJobHandler ==
  /\ schedule_job
  /\ schedule_job' = FALSE
  /\ previous_flow' = None
  /\ IF SomeQueued(queued)
     THEN Schedule(time, queued)
     ELSE UNCHANGED <<queued, sending_flow, sending_len>>
  /\ UNCHANGED <<time, alive>>

Next ==
  \/ \E f \in Flows : FlowInit(f) \/ FlowFree(f)
  \/ \E f \in Flows, len \in 0..Mtu : InputHandlerSend(f, len)
  \/ OutputHandlerDone
  \/ ScheduleJobHandler

Spec == Init /\ [][Next]_vars

-----------------------------------------------------------------------------
(* Properties *)

(* The ASSERTs: one packet is sent at a time, a flow is never both sending and
   queued, a flow just finished is remembered only until the job has run, and
   packets wait only while something will schedule them. *)
QueueAsserts ==
  /\ sending_flow # None => ~IsQueued(sending_flow) /\ previous_flow = None /\ ~schedule_job
  /\ previous_flow # None => schedule_job /\ ~IsQueued(previous_flow)
  /\ SomeQueued(queued) => sending_flow # None \/ schedule_job

(* Virtual time does not run backwards: no queued flow is earlier than the one
   that is sending, so nobody can jump the queue with a time it saved up while
   it was idle, nor by the shift on overflow. *)
NobodyJumpsAhead ==
  sending_flow # None => \A f \in Flows : IsQueued(f) => time[sending_flow] <= time[f]

(* A flow with a packet gets to send it, also past the overflow of the times
   and however small or empty the packets of the others.  (With Churn it need
   not: each new flow starts level with the first queued one, and wins the tie
   if its address is lower.) *)
EveryFlowServed ==
  \A f \in Flows : IsQueued(f) ~> (sending_flow = f \/ f \notin alive)

(* PacketPassFairQueue.c: its types and assertions, and its fairness. *)
QueueSafe == TypeOK /\ QueueAsserts /\ NobodyJumpsAhead
=============================================================================
