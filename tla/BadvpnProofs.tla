---------------------------- MODULE BadvpnProofs ----------------------------
(***************************************************************************)
(* Proofs about the parts of badvpn that tun2socks stands on, for any      *)
(* flows, sizes and bounds.                                                *)
(***************************************************************************)
EXTENDS MCBadvpn, SequenceTheorems, FiniteSetTheorems, WellFoundedInduction, TLAPS

(* Every set of numbers has a least one. *)
LEMMA LeastOf ==
  ASSUME NEW T \in SUBSET Nat, T # {}
  PROVE  \E x \in T : \A y \in T : x <= y
<1> DEFINE Less == {ss \in Nat \X Nat : ss[1] < ss[2]}
<1>1. IsWellFoundedOn(Less, Nat)
  BY NatLessThanWellFounded, Zenon DEF OpToRel
<1>2. PICK x \in T : \A y \in T : ~(<<y, x>> \in Less)
  <2> HIDE DEF Less
  <2> QED
    BY <1>1, WFMin
<1>3. ASSUME NEW y \in T PROVE x <= y
  <2>1. <<y, x>> \in Nat \X Nat /\ <<y, x>>[1] = y /\ <<y, x>>[2] = x
    OBVIOUS
  <2>2. ~(y < x)
    BY <1>2, <2>1, Zenon
  <2> QED
    BY <2>2
<1> QED
  BY <1>3

-----------------------------------------------------------------------------
(* PacketPassFairQueue.  The proofs are about flows that come and go; flows
   that all live as long as the queue take the same steps. *)

(* PacketPassFairQueueFlow_Free takes the flow out of the queue. *)
QueuedAreAlive == \A f \in Flows : queued[f] # Churning!None => f \in alive

QueueInv == Churning!QueueSafe /\ QueuedAreAlive

(* The first flow of queued_tree exists when one is queued, and nobody in the
   tree is earlier. *)
LEMMA FirstIsLeast ==
  ASSUME Churning!FairQueueAssumption,
         NEW t \in [Flows -> Nat], NEW q, Churning!SomeQueued(q)
  PROVE  /\ Churning!First(t, q) \in Flows /\ q[Churning!First(t, q)] # Churning!None
         /\ \A g \in Flows : q[g] # Churning!None => t[Churning!First(t, q)] <= t[g]
<1> DEFINE In == {f \in Flows : q[f] # Churning!None}
           Times == {t[f] : f \in In}
<1>1. In # {} /\ In \subseteq Nat /\ In \subseteq Flows
  BY DEF Churning!SomeQueued, Churning!FairQueueAssumption
<1>2. Times # {} /\ Times \in SUBSET Nat
  BY <1>1
<1>3. PICK m \in Times : \A y \in Times : m <= y
  BY <1>2, LeastOf
<1> DEFINE Least == {f \in In : t[f] = m}
<1>4. Least # {} /\ Least \in SUBSET Nat
  BY <1>1, <1>3
<1>5. PICK f \in Least : \A g \in Least : f <= g
  BY <1>4, LeastOf
<1>6. ASSUME NEW g \in Flows \ {f}, q[g] # Churning!None PROVE Churning!Before(t, f, g)
  <2>1. g \in In /\ t[g] \in Times /\ t[f] = m /\ f \in Nat /\ g \in Nat /\ f # g
    BY <1>1, <1>5, <1>6
  <2>2. t[g] \in Nat /\ m <= t[g] /\ m \in Nat
    BY <1>2, <1>3, <2>1
  <2>3. t[g] = m => f <= g
    BY <1>5, <2>1
  <2> QED
    BY <2>1, <2>2, <2>3 DEF Churning!Before
<1>7. \E h \in Flows : /\ q[h] # Churning!None
                       /\ \A g \in Flows \ {h} : q[g] # Churning!None => Churning!Before(t, h, g)
  BY <1>1, <1>5, <1>6
<1> DEFINE c == Churning!First(t, q)
<1>8. /\ c \in Flows /\ q[c] # Churning!None
      /\ \A g \in Flows \ {c} : q[g] # Churning!None => Churning!Before(t, c, g)
  <2> HIDE DEF In, Times, Least
  <2> QED
    BY <1>7, Zenon DEF Churning!First
<1> HIDE DEF c
<1>9. ASSUME NEW g \in Flows, q[g] # Churning!None PROVE t[c] <= t[g]
  <2>1. g = c \/ Churning!Before(t, c, g)
    BY <1>8, <1>9
  <2> QED
    BY <1>8, <2>1 DEF Churning!Before
<1> QED
  BY <1>8, <1>9 DEF c

(* get_current_time returns a time. *)
LEMMA CurrentTimeType ==
  ASSUME Churning!FairQueueAssumption, Churning!TypeOK
  PROVE  /\ Churning!GetCurrentTime \in 0..MaxTime
         /\ sending_flow # Churning!None => Churning!GetCurrentTime = time[sending_flow]
<1> DEFINE cs == {f \in Flows : Churning!IsQueued(f)} \cup ({previous_flow} \ {Churning!None})
           ts == {time[f] : f \in cs}
<1>0. /\ time \in [Flows -> 0..MaxTime] /\ MaxTime \in Nat
      /\ previous_flow \in Flows \cup {Churning!None}
      /\ sending_flow \in Flows \cup {Churning!None}
  BY DEF Churning!TypeOK, Churning!FairQueueAssumption
<1>1. cs \subseteq Flows
  BY <1>0
<1>2. CASE sending_flow # Churning!None
  BY <1>0, <1>2 DEF Churning!GetCurrentTime
<1>3. CASE sending_flow = Churning!None /\ cs = {}
  BY <1>0, <1>3 DEF Churning!GetCurrentTime
<1>4. CASE sending_flow = Churning!None /\ cs # {}
  <2>1. ts # {} /\ ts \subseteq 0..MaxTime /\ ts \in SUBSET Nat
    BY <1>0, <1>1, <1>4
  <2>2. \E x \in ts : \A y \in ts : x <= y
    BY <2>1, LeastOf
  <2>3. \E x \in ts : \A f \in cs : x <= time[f]
    BY <2>2
  <2> DEFINE least == CHOOSE x \in ts : \A f \in cs : x <= time[f]
  <2>4. least \in ts
    BY <2>3, Zenon
  <2>5. Churning!GetCurrentTime = least
    BY <1>4 DEF Churning!GetCurrentTime
  <2> QED
    BY <1>4, <2>1, <2>4, <2>5
<1> QED
  BY <1>2, <1>3, <1>4

(* schedule sends the first flow and takes it out of the tree. *)
LEMMA Scheduled ==
  ASSUME Churning!FairQueueAssumption, NEW t \in [Flows -> 0..MaxTime],
         NEW q \in [Flows -> Churning!None..Mtu], Churning!SomeQueued(q),
         Churning!Schedule(t, q)
  PROVE  /\ sending_flow' \in Flows /\ q[sending_flow'] # Churning!None
         /\ sending_len' \in 0..Mtu
         /\ queued' \in [Flows -> Churning!None..Mtu]
         /\ queued'[sending_flow'] = Churning!None
         /\ \A g \in Flows : queued'[g] # Churning!None =>
              q[g] # Churning!None /\ t[sending_flow'] <= t[g]
<1> DEFINE f == Churning!First(t, q)
<1>1. t \in [Flows -> Nat]
  BY DEF Churning!FairQueueAssumption
<1>2. /\ f \in Flows /\ q[f] # Churning!None
      /\ \A g \in Flows : q[g] # Churning!None => t[f] <= t[g]
  BY <1>1, FirstIsLeast
<1>3. queued' = [q EXCEPT ![f] = Churning!None] /\ sending_flow' = f /\ sending_len' = q[f]
  BY DEF Churning!Schedule
<1> HIDE DEF f
<1>4. /\ Churning!None \in Churning!None..Mtu
      /\ \A n \in Churning!None..Mtu : n # Churning!None => n \in 0..Mtu
  BY DEF Churning!FairQueueAssumption, Churning!None
<1> QED
  BY <1>2, <1>3, <1>4

(* No packet is sent, no flow remembered and no job set. *)
LEMMA QueueInitInv ==
  ASSUME Churning!FairQueueAssumption, Churning!Init
  PROVE  QueueInv
<1>1. schedule_job \in BOOLEAN
  BY DEF Churning!Init
<1>2. Churning!TypeOK
  BY <1>1 DEF Churning!Init, Churning!TypeOK, Churning!FairQueueAssumption, Churning!None
<1> QED
  BY <1>2 DEF Churning!Init, QueueInv, QueuedAreAlive, Churning!QueueSafe, Churning!QueueAsserts,
       Churning!NobodyJumpsAhead, Churning!IsQueued, Churning!SomeQueued

(* Flows come and go. *)
LEMMA FlowComesGoes ==
  ASSUME Churning!FairQueueAssumption, QueueInv, NEW f \in Flows,
         Churning!FlowInit(f) \/ Churning!FlowFree(f)
  PROVE  QueueInv'
<1>0. /\ time \in [Flows -> 0..MaxTime] /\ MaxTime \in Nat
      /\ queued \in [Flows -> Churning!None..Mtu] /\ alive \subseteq Flows /\ Mtu \in Nat
      /\ Flows \subseteq Nat
      /\ sending_flow \in alive \cup {Churning!None} /\ previous_flow \in alive \cup {Churning!None}
  BY DEF QueueInv, Churning!QueueSafe, Churning!TypeOK, Churning!FairQueueAssumption
<1>1. f # Churning!None
  BY <1>0 DEF Churning!None
<1>2. /\ time' = [time EXCEPT ![f] = 0]
      /\ UNCHANGED <<sending_flow, sending_len, schedule_job>>
  BY DEF Churning!FlowInit, Churning!FlowFree
<1>3. f # sending_flow
  BY <1>0, <1>1 DEF Churning!FlowInit, Churning!FlowFree
<1>4. time' \in [Flows -> 0..MaxTime]
  BY <1>0, <1>2
<1>5. CASE Churning!FlowInit(f)
  <2>1. /\ f \notin alive /\ alive' = alive \cup {f}
        /\ UNCHANGED <<queued, previous_flow>>
    BY <1>5 DEF Churning!FlowInit
  <2>2. Churning!TypeOK'
    BY <1>0, <1>2, <1>4, <2>1 DEF QueueInv, Churning!QueueSafe, Churning!TypeOK
  <2>3. queued[f] = Churning!None
    BY <2>1 DEF QueueInv, QueuedAreAlive
  <2>4. Churning!NobodyJumpsAhead'
    BY <1>0, <1>2, <1>3, <2>1, <2>3
       DEF QueueInv, Churning!QueueSafe, Churning!NobodyJumpsAhead, Churning!IsQueued
  <2> QED
    BY <1>2, <2>1, <2>2, <2>4 DEF QueueInv, QueuedAreAlive, Churning!QueueSafe,
         Churning!QueueAsserts, Churning!IsQueued, Churning!SomeQueued
<1>6. CASE Churning!FlowFree(f)
  <2>1. /\ alive' = alive \ {f} /\ queued' = [queued EXCEPT ![f] = Churning!None]
        /\ previous_flow' = IF previous_flow = f THEN Churning!None ELSE previous_flow
    BY <1>6 DEF Churning!FlowFree
  <2>2. queued' \in [Flows -> Churning!None..Mtu]
    BY <1>0, <2>1 DEF Churning!None
  <2>3. Churning!TypeOK'
    BY <1>0, <1>2, <1>3, <1>4, <2>1, <2>2 DEF QueueInv, Churning!QueueSafe, Churning!TypeOK
  <2>4. Churning!NobodyJumpsAhead'
    BY <1>0, <1>2, <1>3, <2>1
       DEF QueueInv, Churning!QueueSafe, Churning!NobodyJumpsAhead, Churning!IsQueued
  <2>5. Churning!QueueAsserts' /\ QueuedAreAlive'
    BY <1>0, <1>2, <2>1 DEF QueueInv, QueuedAreAlive, Churning!QueueSafe,
         Churning!QueueAsserts, Churning!IsQueued, Churning!SomeQueued
  <2> QED
    BY <2>3, <2>4, <2>5 DEF QueueInv, Churning!QueueSafe
<1> QED
  BY <1>5, <1>6

(* A flow that comes back is raised to the time of the one that sends. *)
LEMMA FlowSends ==
  ASSUME Churning!FairQueueAssumption, QueueInv, NEW f \in Flows, NEW len \in 0..Mtu,
         Churning!InputHandlerSend(f, len)
  PROVE  QueueInv'
<1> DEFINE t == IF f = previous_flow \/ Churning!GetCurrentTime <= time[f]
                THEN time ELSE [time EXCEPT ![f] = Churning!GetCurrentTime]
           q == [queued EXCEPT ![f] = len]
<1>0. /\ time \in [Flows -> 0..MaxTime] /\ MaxTime \in Nat
      /\ queued \in [Flows -> Churning!None..Mtu] /\ alive \subseteq Flows /\ Mtu \in Nat
      /\ Flows \subseteq Nat
      /\ sending_flow \in alive \cup {Churning!None} /\ previous_flow \in alive \cup {Churning!None}
      /\ sending_len \in 0..Mtu
  BY DEF QueueInv, Churning!QueueSafe, Churning!TypeOK, Churning!FairQueueAssumption
<1>1. f # Churning!None /\ len # Churning!None /\ len \in Churning!None..Mtu
  BY <1>0 DEF Churning!None
<1>2. /\ f \in alive /\ f # sending_flow /\ queued[f] = Churning!None
      /\ previous_flow' = IF previous_flow = f THEN Churning!None ELSE previous_flow
      /\ time' = t /\ UNCHANGED <<alive, schedule_job>>
      /\ IF sending_flow = Churning!None /\ ~schedule_job
         THEN Churning!Schedule(t, q)
         ELSE queued' = q /\ UNCHANGED <<sending_flow, sending_len>>
  BY DEF Churning!InputHandlerSend, Churning!IsQueued
<1>3. t \in [Flows -> 0..MaxTime]
  BY <1>0, CurrentTimeType DEF QueueInv, Churning!QueueSafe
<1>4. q \in [Flows -> Churning!None..Mtu] /\ q[f] # Churning!None
      /\ \A g \in Flows : g # f => q[g] = queued[g]
  BY <1>0, <1>1
<1>5. ASSUME sending_flow # Churning!None
      PROVE  /\ t[sending_flow] = time[sending_flow] /\ previous_flow = Churning!None
             /\ \A g \in Flows : q[g] # Churning!None => t[sending_flow] <= t[g]
  <2>1. previous_flow = Churning!None
    BY <1>5 DEF QueueInv, Churning!QueueSafe, Churning!QueueAsserts
  <2>2. Churning!GetCurrentTime = time[sending_flow] /\ sending_flow \in Flows
    BY <1>0, <1>5, CurrentTimeType DEF QueueInv, Churning!QueueSafe
  <2>3. t = IF time[sending_flow] <= time[f] THEN time ELSE [time EXCEPT ![f] = time[sending_flow]]
    BY <1>1, <2>1, <2>2
  <2> HIDE DEF t, q
  <2>4. t[sending_flow] = time[sending_flow] /\ \A g \in Flows : g # f => t[g] = time[g]
    BY <1>0, <1>2, <2>2, <2>3
  <2>5. t[sending_flow] <= t[f]
    BY <1>0, <1>2, <2>2, <2>3
  <2>6. \A g \in Flows : queued[g] # Churning!None => time[sending_flow] <= time[g]
    BY <1>5 DEF QueueInv, Churning!QueueSafe, Churning!NobodyJumpsAhead, Churning!IsQueued
  <2>7. ASSUME NEW g \in Flows, q[g] # Churning!None PROVE t[sending_flow] <= t[g]
    BY <1>4, <2>4, <2>5, <2>6, <2>7
  <2> QED
    BY <2>1, <2>4, <2>7
<1>6. CASE sending_flow = Churning!None /\ ~schedule_job
  <2>1. \A g \in Flows : queued[g] = Churning!None
    BY <1>6 DEF QueueInv, Churning!QueueSafe, Churning!QueueAsserts, Churning!SomeQueued
  <2>2. Churning!SomeQueued(q) /\ previous_flow = Churning!None
    BY <1>4, <1>6 DEF Churning!SomeQueued, QueueInv, Churning!QueueSafe, Churning!QueueAsserts
  <2> HIDE DEF t, q
  <2>3. Churning!Schedule(t, q)
    BY <1>2, <1>6
  <2>4. /\ sending_flow' \in Flows /\ q[sending_flow'] # Churning!None
        /\ sending_len' \in 0..Mtu /\ queued' \in [Flows -> Churning!None..Mtu]
        /\ queued'[sending_flow'] = Churning!None
        /\ \A g \in Flows : queued'[g] # Churning!None =>
              q[g] # Churning!None /\ t[sending_flow'] <= t[g]
    BY <1>3, <1>4, <2>2, <2>3, Scheduled
  <2>5. sending_flow' = f /\ \A g \in Flows : queued'[g] = Churning!None
    BY <1>4, <2>1, <2>4
  <2>6. Churning!TypeOK'
    BY <1>2, <1>3, <2>2, <2>4, <2>5 DEF QueueInv, Churning!QueueSafe, Churning!TypeOK
  <2> QED
    BY <1>1, <1>2, <1>6, <2>2, <2>5, <2>6 DEF QueueInv, QueuedAreAlive, Churning!QueueSafe,
         Churning!QueueAsserts, Churning!NobodyJumpsAhead, Churning!IsQueued, Churning!SomeQueued
<1>7. CASE ~(sending_flow = Churning!None /\ ~schedule_job)
  <2> HIDE DEF t, q
  <2>1. queued' = q /\ UNCHANGED <<sending_flow, sending_len>>
    BY <1>2, <1>7
  <2>2. Churning!TypeOK'
    BY <1>0, <1>2, <1>3, <1>4, <2>1 DEF QueueInv, Churning!QueueSafe, Churning!TypeOK
  <2>3. Churning!NobodyJumpsAhead'
    BY <1>2, <1>5, <2>1 DEF Churning!NobodyJumpsAhead, Churning!IsQueued
  <2>4. QueuedAreAlive'
    BY <1>2, <1>4, <2>1 DEF QueueInv, QueuedAreAlive
  <2>5. sending_flow # Churning!None \/ schedule_job
    BY <1>7
  <2>6. Churning!QueueAsserts'
    <3>1. sending_flow' # Churning!None =>
            queued'[sending_flow'] = Churning!None /\ previous_flow' = Churning!None /\ ~schedule_job'
      BY <1>0, <1>2, <1>4, <1>5, <2>1
         DEF QueueInv, Churning!QueueSafe, Churning!QueueAsserts, Churning!IsQueued
    <3>2. previous_flow' # Churning!None =>
            schedule_job' /\ queued'[previous_flow'] = Churning!None
      BY <1>0, <1>2, <1>4, <2>1
         DEF QueueInv, Churning!QueueSafe, Churning!QueueAsserts, Churning!IsQueued
    <3>3. sending_flow' # Churning!None \/ schedule_job'
      BY <1>2, <2>1, <2>5
    <3> QED
      BY <3>1, <3>2, <3>3 DEF Churning!QueueAsserts, Churning!IsQueued
  <2> QED
    BY <2>2, <2>3, <2>4, <2>6 DEF QueueInv, Churning!QueueSafe
<1> QED
  BY <1>6, <1>7

(* increment_sent_flow keeps every time within FAIRQUEUE_MAX_TIME: when a sum
   would pass it, what is taken off is at least the time of the sender and at
   most FAIRQUEUE_MAX_TIME, so that the sender's own time neither wraps nor
   passes the limit. *)
LEMMA TimesStayBounded ==
  ASSUME Churning!FairQueueAssumption, QueueInv, sending_flow # Churning!None,
         NEW amount \in 0..MaxTime, Churning!IncrementSentFlow(sending_flow, amount)
  PROVE  time' \in [Flows -> 0..MaxTime]
<1> DEFINE s == sending_flow
           sub == IF amount <= MaxTime - time[s] THEN 0
                  ELSE IF Churning!SomeQueued(queued)
                       THEN time[Churning!First(time, queued)] ELSE time[s]
           shifted == [f \in Flows |->
             IF f \notin alive THEN time[f]
             ELSE IF sub > time[f] /\ f # s THEN 0 ELSE time[f] - sub]
<1>0. /\ time \in [Flows -> 0..MaxTime] /\ MaxTime \in Nat /\ alive \subseteq Flows
      /\ s \in alive /\ s \in Flows /\ time \in [Flows -> Nat]
  BY DEF QueueInv, Churning!QueueSafe, Churning!TypeOK, Churning!FairQueueAssumption
<1>1. time' = [shifted EXCEPT ![s] = shifted[s] + amount]
  BY DEF Churning!IncrementSentFlow
<1>2. Churning!SomeQueued(queued) =>
        /\ Churning!First(time, queued) \in Flows
        /\ time[s] <= time[Churning!First(time, queued)]
  BY <1>0, FirstIsLeast
     DEF QueueInv, Churning!QueueSafe, Churning!NobodyJumpsAhead, Churning!IsQueued
<1>3. /\ sub \in 0..MaxTime
      /\ amount <= MaxTime - time[s] => sub = 0
      /\ amount > MaxTime - time[s] => time[s] <= sub
  BY <1>0, <1>2
<1> HIDE DEF sub
<1>4. (time[s] - sub) + amount \in 0..MaxTime
  BY <1>0, <1>3
<1>5. shifted[s] = time[s] - sub
  BY <1>0
<1>6. ASSUME NEW f \in Flows, f # s PROVE shifted[f] \in 0..MaxTime
  BY <1>0, <1>3, <1>6
<1>7. DOMAIN shifted = Flows
  OBVIOUS
<1> HIDE DEF shifted
<1>8. time' = [f \in Flows |-> IF f = s THEN shifted[s] + amount ELSE shifted[f]]
  BY <1>0, <1>1, <1>7
<1> QED
  BY <1>4, <1>5, <1>6, <1>8

(* The packet is out, and the job will choose the next flow. *)
LEMMA SendingEnds ==
  ASSUME Churning!FairQueueAssumption, QueueInv, Churning!OutputHandlerDone
  PROVE  QueueInv'
<1>0. /\ sending_flow \in alive \cup {Churning!None} /\ sending_len \in 0..Mtu
      /\ Mtu \in Nat /\ PacketWeight \in Nat /\ MaxTime \in Nat /\ Mtu + PacketWeight <= MaxTime
  BY DEF QueueInv, Churning!QueueSafe, Churning!TypeOK, Churning!FairQueueAssumption
<1>1. /\ sending_flow # Churning!None /\ sending_flow' = Churning!None
      /\ previous_flow' = sending_flow /\ schedule_job' = TRUE
      /\ UNCHANGED <<queued, alive, sending_len>>
  BY DEF Churning!OutputHandlerDone
<1>2. PacketWeight + sending_len \in 0..MaxTime
  BY <1>0
<1>3. Churning!IncrementSentFlow(sending_flow, PacketWeight + sending_len)
  BY DEF Churning!OutputHandlerDone
<1>4. time' \in [Flows -> 0..MaxTime]
  BY <1>1, <1>2, <1>3, TimesStayBounded
<1>5. schedule_job' \in BOOLEAN
  BY <1>1, Zenon
<1>6. Churning!TypeOK'
  BY <1>0, <1>1, <1>4, <1>5 DEF QueueInv, Churning!QueueSafe, Churning!TypeOK
<1>7. queued[sending_flow] = Churning!None
  BY <1>1 DEF QueueInv, Churning!QueueSafe, Churning!QueueAsserts, Churning!IsQueued
<1>8. schedule_job'
  BY <1>1
<1> QED
  BY <1>1, <1>6, <1>7, <1>8 DEF QueueInv, QueuedAreAlive, Churning!QueueSafe,
       Churning!QueueAsserts, Churning!NobodyJumpsAhead, Churning!IsQueued

(* The job chooses the earliest of the queued flows. *)
LEMMA JobSchedules ==
  ASSUME Churning!FairQueueAssumption, QueueInv, Churning!ScheduleJobHandler
  PROVE  QueueInv'
<1>0. /\ time \in [Flows -> 0..MaxTime] /\ queued \in [Flows -> Churning!None..Mtu]
      /\ alive \subseteq Flows /\ Flows \subseteq Nat
      /\ sending_flow \in alive \cup {Churning!None} /\ sending_len \in 0..Mtu
  BY DEF QueueInv, Churning!QueueSafe, Churning!TypeOK, Churning!FairQueueAssumption
<1>1. /\ schedule_job /\ schedule_job' = FALSE /\ previous_flow' = Churning!None
      /\ UNCHANGED <<time, alive>>
      /\ IF Churning!SomeQueued(queued) THEN Churning!Schedule(time, queued)
         ELSE UNCHANGED <<queued, sending_flow, sending_len>>
  BY DEF Churning!ScheduleJobHandler
<1>2. schedule_job' \in BOOLEAN /\ ~schedule_job'
  BY <1>1, Zenon
<1>3. sending_flow = Churning!None
  BY <1>1 DEF QueueInv, Churning!QueueSafe, Churning!QueueAsserts
<1>4. CASE Churning!SomeQueued(queued)
  <2>1. /\ sending_flow' \in Flows /\ queued[sending_flow'] # Churning!None
        /\ sending_len' \in 0..Mtu /\ queued' \in [Flows -> Churning!None..Mtu]
        /\ queued'[sending_flow'] = Churning!None
        /\ \A g \in Flows : queued'[g] # Churning!None =>
              queued[g] # Churning!None /\ time[sending_flow'] <= time[g]
    BY <1>0, <1>1, <1>4, Scheduled
  <2>2. sending_flow' \in alive /\ sending_flow' # Churning!None
    BY <1>0, <2>1 DEF QueueInv, QueuedAreAlive, Churning!None
  <2>3. Churning!TypeOK'
    BY <1>0, <1>1, <1>2, <2>1, <2>2 DEF Churning!TypeOK
  <2> QED
    BY <1>1, <1>2, <2>1, <2>2, <2>3 DEF QueueInv, QueuedAreAlive, Churning!QueueSafe,
         Churning!QueueAsserts, Churning!NobodyJumpsAhead, Churning!IsQueued
<1>5. CASE ~Churning!SomeQueued(queued)
  <2>1. UNCHANGED <<queued, sending_flow, sending_len>>
    BY <1>1, <1>5
  <2>2. Churning!TypeOK'
    BY <1>0, <1>1, <1>2, <2>1 DEF Churning!TypeOK
  <2>3. ~Churning!SomeQueued(queued)'
    BY <1>5, <2>1 DEF Churning!SomeQueued
  <2> QED
    BY <1>1, <1>3, <2>1, <2>2, <2>3 DEF QueueInv, QueuedAreAlive, Churning!QueueSafe,
         Churning!QueueAsserts, Churning!NobodyJumpsAhead, Churning!IsQueued
<1> QED
  BY <1>4, <1>5

(* The queue of tun2socks takes steps of the one whose flows come and go. *)
LEMMA QueueIsChurning ==
  /\ Queue!FairQueueAssumption <=> Churning!FairQueueAssumption
  /\ Queue!Init <=> Churning!Init
  /\ Queue!Next => Churning!Next
  /\ Queue!vars = Churning!vars
  /\ Queue!QueueSafe <=> Churning!QueueSafe
<1>1. Queue!vars = Churning!vars
  BY DEF Queue!vars, Churning!vars
<1>2. Queue!Init <=> Churning!Init
  BY DEF Queue!Init, Churning!Init, Queue!None, Churning!None
<1>3. Queue!FairQueueAssumption <=> Churning!FairQueueAssumption
  BY DEF Queue!FairQueueAssumption, Churning!FairQueueAssumption
<1>4. Queue!QueueSafe <=> Churning!QueueSafe
  BY DEF Queue!QueueSafe, Churning!QueueSafe, Queue!TypeOK, Churning!TypeOK,
       Queue!QueueAsserts, Churning!QueueAsserts, Queue!NobodyJumpsAhead,
       Churning!NobodyJumpsAhead, Queue!IsQueued, Churning!IsQueued, Queue!SomeQueued,
       Churning!SomeQueued, Queue!None, Churning!None
<1>5. Queue!Next => Churning!Next
  <2> USE DEF Queue!None, Churning!None, Queue!IsQueued, Churning!IsQueued,
              Queue!SomeQueued, Churning!SomeQueued, Queue!Before, Churning!Before,
              Queue!First, Churning!First, Queue!Schedule, Churning!Schedule
  <2>1. ASSUME NEW f \in Flows, Queue!FlowInit(f) \/ Queue!FlowFree(f)
        PROVE  Churning!FlowInit(f)
    BY <2>1 DEF Queue!FlowInit, Queue!FlowFree, Churning!FlowInit
  <2>2. ASSUME NEW f \in Flows, NEW len \in 0..Mtu, Queue!InputHandlerSend(f, len)
        PROVE  Churning!InputHandlerSend(f, len)
    BY <2>2, Zenon DEF Queue!InputHandlerSend, Churning!InputHandlerSend, Queue!GetCurrentTime,
         Churning!GetCurrentTime
  <2>3. ASSUME Queue!OutputHandlerDone PROVE Churning!OutputHandlerDone
    BY <2>3, Zenon DEF Queue!OutputHandlerDone, Churning!OutputHandlerDone,
         Queue!IncrementSentFlow, Churning!IncrementSentFlow
  <2>4. ASSUME Queue!ScheduleJobHandler PROVE Churning!ScheduleJobHandler
    BY <2>4, Zenon DEF Queue!ScheduleJobHandler, Churning!ScheduleJobHandler
  <2> HIDE DEF Queue!None, Churning!None
  <2> QED
    BY <2>1, <2>2, <2>3, <2>4 DEF Queue!Next, Churning!Next
<1> QED
  BY <1>1, <1>2, <1>3, <1>4, <1>5

(* PacketPassFairQueue.c: its ASSERTs hold, times stay within
   FAIRQUEUE_MAX_TIME, and no queued flow is ever earlier than the one that
   sends, for any flows, packet lengths and weight, with flows freed one by one
   and without. *)
THEOREM QueueIsSafe ==
  ASSUME Queue!FairQueueAssumption
  PROVE  (Queue!Spec => []QueueSafe) /\ (Churning!Spec => []QueueSafe)
<1>1. Churning!FairQueueAssumption
  BY QueueIsChurning
<1>2. Churning!Init => QueueInv
  BY <1>1, QueueInitInv
<1>3. QueueInv /\ [Churning!Next]_Churning!vars => QueueInv'
  <2> SUFFICES ASSUME QueueInv, [Churning!Next]_Churning!vars PROVE QueueInv'
    OBVIOUS
  <2>1. CASE Churning!Next
    BY <1>1, <2>1, FlowComesGoes, FlowSends, SendingEnds, JobSchedules DEF Churning!Next
  <2>2. CASE UNCHANGED Churning!vars
    BY <2>2 DEF Churning!vars, QueueInv, QueuedAreAlive, Churning!QueueSafe, Churning!TypeOK,
         Churning!QueueAsserts, Churning!NobodyJumpsAhead, Churning!IsQueued,
         Churning!SomeQueued
  <2> QED
    BY <2>1, <2>2
<1>4. QueueInv => QueueSafe
  BY QueueIsChurning DEF QueueInv, QueueSafe
<1>5. Queue!Init => QueueInv
  BY <1>2, QueueIsChurning
<1>6. QueueInv /\ [Queue!Next]_Queue!vars => QueueInv'
  BY <1>3, QueueIsChurning DEF Queue!vars, Churning!vars
<1> QED
  BY <1>2, <1>3, <1>4, <1>5, <1>6, PTL DEF Queue!Spec, Churning!Spec


-----------------------------------------------------------------------------
(* BReactor. *)

(* The elements of a list, and that none is there twice. *)
Elements(s) == {s[i] : i \in DOMAIN s}
Once(s) == \A i, j \in DOMAIN s : s[i] = s[j] => i = j
Gap(s, i) == [k \in 1..(Len(s) - 1) |-> IF k < i THEN s[k] ELSE s[k + 1]]

(* Taking an element out of a list. *)
LEMMA RemovalLeavesGap ==
  ASSUME NEW S, NEW s \in Seq(S), NEW i \in 1..Len(s)
  PROVE  Reactor!RemoveAt(s, i) = Gap(s, i) /\ Connection!RemoveAt(s, i) = Gap(s, i)
<1> DEFINE a == SubSeq(s, 1, i - 1)
           b == SubSeq(s, i + 1, Len(s))
<1>1. /\ a \in Seq(S) /\ Len(a) = i - 1 /\ \A j \in 1..(i - 1) : a[j] = s[j]
  OBVIOUS
<1>2. /\ b \in Seq(S) /\ Len(b) = Len(s) - i /\ \A j \in 1..(Len(s) - i) : b[j] = s[j + i]
  OBVIOUS
<1>3. Reactor!RemoveAt(s, i) = a \o b /\ Connection!RemoveAt(s, i) = a \o b
  BY Zenon DEF Reactor!RemoveAt, Connection!RemoveAt, a, b
<1> HIDE DEF a, b
<1>4. /\ a \o b \in Seq(S) /\ Len(a \o b) = Len(a) + Len(b)
      /\ \A j \in 1..(Len(a) + Len(b)) : (a \o b)[j] = IF j <= Len(a) THEN a[j] ELSE b[j - Len(a)]
  BY <1>1, <1>2, ConcatProperties, Zenon
<1>5. \A j \in 1..(Len(s) - 1) : (a \o b)[j] = IF j < i THEN s[j] ELSE s[j + 1]
  BY <1>1, <1>2, <1>4
<1>6. Len(a \o b) = Len(s) - 1
  BY <1>1, <1>2, <1>4
<1>7. DOMAIN (a \o b) = 1..(Len(s) - 1)
  BY <1>4, <1>6
<1>8. a \o b = Gap(s, i)
  <2> DEFINE c == a \o b
  <2>0. c \in Seq(S)
    BY <1>4
  <2>1. c = [k \in DOMAIN c |-> c[k]]
    <3> HIDE DEF c
    <3> QED
      BY <2>0
  <2>2. DOMAIN c = 1..(Len(s) - 1) /\ \A k \in 1..(Len(s) - 1) : c[k] = IF k < i THEN s[k] ELSE s[k + 1]
    BY <1>5, <1>7
  <2> HIDE DEF c
  <2>3. c = Gap(s, i)
    BY <2>1, <2>2 DEF Gap
  <2> QED
    BY <2>3 DEF c
<1> QED
  BY <1>3, <1>8


(* A list without one of its elements: the others are there as they were. *)
LEMMA RemoveFirstElements ==
  ASSUME NEW S, NEW s \in Seq(S), NEW x, Once(s)
  PROVE  /\ Reactor!RemoveFirst(s, x) = Connection!RemoveFirst(s, x)
         /\ Reactor!RemoveFirst(s, x) \in Seq(S)
         /\ Once(Reactor!RemoveFirst(s, x))
         /\ Elements(Reactor!RemoveFirst(s, x)) = Elements(s) \ {x}
<1> DEFINE r == Reactor!RemoveFirst(s, x)
           I == {i \in 1..Len(s) : s[i] = x}
<1>0. Len(s) \in Nat /\ DOMAIN s = 1..Len(s)
  OBVIOUS
<1>1. CASE I = {}
  <2>1. r = s /\ Connection!RemoveFirst(s, x) = s
    BY <1>1 DEF Reactor!RemoveFirst, Connection!RemoveFirst
  <2>2. x \notin Elements(s)
    BY <1>0, <1>1 DEF Elements
  <2> HIDE DEF r
  <2>3. Elements(r) = Elements(s) \ {x} /\ Once(r) /\ r \in Seq(S) /\ r = Connection!RemoveFirst(s, x)
    BY <2>1, <2>2
  <2> QED
    BY <2>3 DEF r
<1>2. CASE I # {}
  <2> DEFINE p == Reactor!Min(I)
  <2>1. I \in SUBSET Nat
    BY <1>0
  <2>2. \E i \in I : \A j \in I : i <= j
    BY <1>2, <2>1, LeastOf
  <2>3. p \in I
    BY <2>2, Zenon DEF Reactor!Min
  <2>4. Connection!Min(I) = p
    BY DEF Reactor!Min, Connection!Min
  <2>5. p \in 1..Len(s) /\ s[p] = x
    BY <2>3
  <2>6. /\ r = Reactor!RemoveAt(s, p)
        /\ Connection!RemoveFirst(s, x) = Connection!RemoveAt(s, p)
    BY <1>2, <2>4, Zenon DEF Reactor!RemoveFirst, Connection!RemoveFirst, Reactor!SelectInSeq,
       Connection!SelectInSeq
  <2> HIDE DEF p, r, I
  <2>7. r = Gap(s, p) /\ Connection!RemoveFirst(s, x) = r
    BY <2>5, <2>6, RemovalLeavesGap
  <2>8. /\ DOMAIN r = 1..(Len(s) - 1)
        /\ \A k \in 1..(Len(s) - 1) : r[k] = IF k < p THEN s[k] ELSE s[k + 1]
    BY <2>7 DEF Gap
  <2>9. r \in Seq(S)
    <3>1. \A k \in 1..(Len(s) - 1) : r[k] \in S
      BY <1>0, <2>8
    <3>2. r = [k \in 1..(Len(s) - 1) |-> IF k < p THEN s[k] ELSE s[k + 1]] /\ Len(s) - 1 \in Nat
      BY <1>0, <2>5, <2>7 DEF Gap
    <3>3. r \in [1..(Len(s) - 1) -> S]
      BY <3>1, <3>2
    <3> QED
      BY <3>2, <3>3
  <2>10. Once(r)
    <3>1. ASSUME NEW i \in DOMAIN r, NEW j \in DOMAIN r, r[i] = r[j] PROVE i = j
      <4> DEFINE ip == IF i < p THEN i ELSE i + 1
                 jp == IF j < p THEN j ELSE j + 1
      <4>1. ip \in DOMAIN s /\ jp \in DOMAIN s /\ r[i] = s[ip] /\ r[j] = s[jp]
        BY <1>0, <2>5, <2>8
      <4>2. ip = jp
        BY <3>1, <4>1 DEF Once
      <4> QED
        BY <1>0, <2>5, <2>8, <4>2
    <3> QED
      BY <3>1 DEF Once
  <2>11. Elements(r) = Elements(s) \ {x}
    <3>1. ASSUME NEW y \in Elements(r) PROVE y \in Elements(s) \ {x}
      <4>1. PICK i \in DOMAIN r : y = r[i]
        BY <3>1 DEF Elements
      <4> DEFINE ip == IF i < p THEN i ELSE i + 1
      <4>2. ip \in DOMAIN s /\ y = s[ip] /\ ip # p /\ p \in DOMAIN s
        BY <1>0, <2>5, <2>8, <4>1
      <4>3. s[ip] # s[p]
        BY <4>2 DEF Once
      <4> QED
        BY <2>5, <4>2, <4>3 DEF Elements
    <3>2. ASSUME NEW y \in Elements(s) \ {x} PROVE y \in Elements(r)
      <4>1. PICK i \in DOMAIN s : y = s[i]
        BY DEF Elements
      <4>2. i # p
        BY <2>5, <4>1
      <4> DEFINE k == IF i < p THEN i ELSE i - 1
      <4>3. k \in DOMAIN r /\ r[k] = s[i]
        BY <1>0, <2>5, <2>8, <4>1, <4>2
      <4> QED
        BY <4>1, <4>3 DEF Elements
    <3> QED
      BY <3>1, <3>2
  <2> QED
    BY <2>7, <2>9, <2>10, <2>11 DEF r
<1> QED
  BY <1>1, <1>2


(* Taking the first element off a list. *)
LEMMA TailElements ==
  ASSUME NEW S, NEW s \in Seq(S), s # <<>>, Once(s)
  PROVE  /\ Tail(s) \in Seq(S) /\ Once(Tail(s)) /\ Head(s) \in Elements(s)
         /\ Elements(Tail(s)) = Elements(s) \ {Head(s)}
<1> DEFINE r == Tail(s)
<1>1. /\ r \in Seq(S) /\ Len(s) \in Nat \ {0} /\ DOMAIN s = 1..Len(s) /\ DOMAIN r = 1..(Len(s) - 1)
      /\ Head(s) = s[1] /\ \A i \in 1..(Len(s) - 1) : r[i] = s[i + 1]
  BY HeadTailProperties, EmptySeq
<1> HIDE DEF r
<1>2. Once(r)
  <2>1. ASSUME NEW i \in DOMAIN r, NEW j \in DOMAIN r, r[i] = r[j] PROVE i = j
    <3>1. i + 1 \in DOMAIN s /\ j + 1 \in DOMAIN s /\ s[i + 1] = s[j + 1]
      BY <1>1, <2>1
    <3>2. i + 1 = j + 1
      BY <3>1 DEF Once
    <3> QED
      BY <1>1, <3>2
  <2> QED
    BY <2>1 DEF Once
<1>3. Elements(r) = Elements(s) \ {Head(s)}
  <2>1. ASSUME NEW y \in Elements(r) PROVE y \in Elements(s) \ {Head(s)}
    <3>1. PICK i \in DOMAIN r : y = r[i]
      BY <2>1 DEF Elements
    <3>2. i + 1 \in DOMAIN s /\ y = s[i + 1] /\ i + 1 # 1 /\ 1 \in DOMAIN s
      BY <1>1, <3>1
    <3>3. s[i + 1] # s[1]
      BY <3>2 DEF Once
    <3> QED
      BY <1>1, <3>2, <3>3 DEF Elements
  <2>2. ASSUME NEW y \in Elements(s) \ {Head(s)} PROVE y \in Elements(r)
    <3>1. PICK i \in DOMAIN s : y = s[i]
      BY DEF Elements
    <3>2. i # 1
      BY <1>1, <3>1
    <3>3. i - 1 \in DOMAIN r /\ r[i - 1] = s[i]
      BY <1>1, <3>1, <3>2
    <3> QED
      BY <3>1, <3>3 DEF Elements
  <2> QED
    BY <2>1, <2>2
<1>4. Head(s) \in Elements(s)
  BY <1>1 DEF Elements
<1> QED
  BY <1>1, <1>2, <1>3, <1>4 DEF r

(* Lists without a common element, one after the other. *)
LEMMA JoinedElements ==
  ASSUME NEW S, NEW s \in Seq(S), NEW t \in Seq(S), Once(s), Once(t),
         Elements(s) \cap Elements(t) = {}
  PROVE  s \o t \in Seq(S) /\ Once(s \o t) /\ Elements(s \o t) = Elements(s) \cup Elements(t)
<1> DEFINE r == s \o t
<1>1. /\ r \in Seq(S) /\ Len(s) \in Nat /\ Len(t) \in Nat /\ DOMAIN s = 1..Len(s)
      /\ DOMAIN t = 1..Len(t) /\ DOMAIN r = 1..(Len(s) + Len(t))
      /\ \A i \in 1..(Len(s) + Len(t)) : r[i] = IF i <= Len(s) THEN s[i] ELSE t[i - Len(s)]
  BY ConcatProperties
<1> HIDE DEF r
<1>2. \A i \in DOMAIN r : (i \in DOMAIN s /\ r[i] = s[i])
                          \/ (i - Len(s) \in DOMAIN t /\ r[i] = t[i - Len(s)] /\ i > Len(s))
  <2> SUFFICES ASSUME NEW i \in 1..(Len(s) + Len(t))
               PROVE  (i \in 1..Len(s) /\ r[i] = s[i])
                      \/ (i - Len(s) \in 1..Len(t) /\ r[i] = t[i - Len(s)] /\ i > Len(s))
    BY <1>1
  <2>1. r[i] = IF i <= Len(s) THEN s[i] ELSE t[i - Len(s)]
    BY <1>1
  <2>2. CASE i <= Len(s)
    BY <1>1, <2>1, <2>2
  <2>3. CASE ~(i <= Len(s))
    BY <1>1, <2>1, <2>3
  <2> QED
    BY <2>2, <2>3
<1>3. Once(r)
  <2>1. ASSUME NEW i \in DOMAIN r, NEW j \in DOMAIN r, r[i] = r[j] PROVE i = j
    <3>1. CASE i \in DOMAIN s /\ j \in DOMAIN s
      BY <1>1, <2>1, <3>1 DEF Once
    <3>2. CASE i \notin DOMAIN s /\ j \notin DOMAIN s
      <4>1. i - Len(s) \in DOMAIN t /\ j - Len(s) \in DOMAIN t
            /\ t[i - Len(s)] = t[j - Len(s)]
        BY <1>2, <2>1, <3>2
      <4>2. i - Len(s) = j - Len(s)
        BY <4>1 DEF Once
      <4> QED
        BY <1>1, <4>2
    <3>3. CASE i \in DOMAIN s /\ j \notin DOMAIN s
      <4>1. r[i] \in Elements(s) /\ r[j] \in Elements(t)
        BY <1>1, <1>2, <3>3 DEF Elements
      <4> QED
        BY <2>1, <4>1
    <3>4. CASE i \notin DOMAIN s /\ j \in DOMAIN s
      <4>1. r[j] \in Elements(s) /\ r[i] \in Elements(t)
        BY <1>1, <1>2, <3>4 DEF Elements
      <4> QED
        BY <2>1, <4>1
    <3> QED
      BY <3>1, <3>2, <3>3, <3>4
  <2> QED
    BY <2>1 DEF Once
<1>4. Elements(r) = Elements(s) \cup Elements(t)
  <2>1. Elements(r) \subseteq Elements(s) \cup Elements(t)
    BY <1>2 DEF Elements
  <2>2. ASSUME NEW i \in DOMAIN s PROVE s[i] \in Elements(r)
    <3>1. i \in DOMAIN r /\ r[i] = s[i]
      BY <1>1
    <3> QED
      BY <3>1 DEF Elements
  <2>3. ASSUME NEW i \in DOMAIN t PROVE t[i] \in Elements(r)
    <3>1. i + Len(s) \in DOMAIN r /\ r[i + Len(s)] = t[i]
      BY <1>1
    <3> QED
      BY <3>1 DEF Elements
  <2> QED
    BY <2>1, <2>2, <2>3 DEF Elements
<1> QED
  BY <1>1, <1>3, <1>4 DEF r

(* A list of one element. *)
LEMMA SingleElement ==
  ASSUME NEW S, NEW x \in S
  PROVE  <<x>> \in Seq(S) /\ Once(<<x>>) /\ Elements(<<x>>) = {x}
<1>1. <<x>> \in Seq(S) /\ DOMAIN <<x>> = {1} /\ <<x>>[1] = x
  OBVIOUS
<1> QED
  BY <1>1 DEF Once, Elements

(* The orders of a set that the library enumerates have each element once. *)
LEMMA OrdersOnce ==
  ASSUME NEW T, NEW s \in Reactor!SetToSeqs(T), IsFiniteSet(T)
  PROVE  s \in Seq(T) /\ Once(s) /\ Elements(s) = T /\ DOMAIN s = 1..Len(s) /\ Len(s) \in Nat
<1> DEFINE n == Reactor!Cardinality(T)
           D == 1..n
<1>1. s \in [D -> T] /\ \A i, j \in D : i # j => s[i] # s[j]
  BY DEF Reactor!SetToSeqs
<1>2. n = Cardinality(T)
  BY DEF Reactor!Cardinality, Cardinality
<1>3. n \in Nat
  BY <1>2, FS_CardinalityType
<1>4. s \in Seq(T) /\ Len(s) = n /\ DOMAIN s = D
  <2> HIDE DEF n
  <2> QED
    BY <1>1, <1>3
<1>5. Once(s)
  BY <1>1, <1>4 DEF Once
<1>6. Elements(s) = T
  <2>1. s \in Injection(D, T)
    BY <1>1 DEF Injection, IsInjective
  <2>2. IsFiniteSet(D) /\ Cardinality(D) = n
    <3>1. 1 \in Int /\ n \in Int
      BY <1>3
    <3> HIDE DEF n
    <3>2. IsFiniteSet(1..n) /\ Cardinality(1..n) = (IF 1 > n THEN 0 ELSE n - 1 + 1)
      BY <3>1, FS_Interval
    <3> QED
      BY <1>3, <3>2
  <2> QED
    <3>1. s \in Surjection(D, T)
      BY <1>2, <2>1, <2>2, FS_Injection
    <3>2. \A t \in T : \E i \in D : s[i] = t
      BY <3>1 DEF Surjection
    <3> QED
      BY <1>1, <1>4, <3>2 DEF Elements
<1> QED
  BY <1>3, <1>4, <1>5, <1>6


(* What the reactor keeps of jobs, of timers, of descriptors, and of itself. *)
JobsOK == jobs \in Seq(Jobs) /\ Once(jobs)
TimersOK ==
  /\ expired \in Seq(Timers) /\ Once(expired)
  /\ Elements(expired) = {t \in Timers : state[t] = "EXPIRED"}
  /\ state \in [Timers -> {"INACTIVE", "RUNNING", "EXPIRED"}] /\ left \in [Timers -> Int]
FdsOK ==
  /\ waits \subseteq active /\ active \subseteq Fds
  /\ results \in Seq(Reactor!Entries) /\ returned \in [Fds -> Nat]
  /\ Reactor!NoStaleEvent
PcOK == pc \in Reactor!Handlers \cup {"loop", "wait", "exited"} /\ count \in 0..Limit

(* They are what the run checks, and in a form that the provers use. *)
LEMMA ReactorParts ==
  ReactorSafe <=> JobsOK /\ TimersOK /\ FdsOK /\ PcOK
<1>1. Reactor!IsInjective(jobs) = Once(jobs) /\ Reactor!IsInjective(expired) = Once(expired)
  BY DEF Reactor!IsInjective, Once
<1>2. Reactor!Range(expired) = Elements(expired)
  BY DEF Reactor!Range, Elements
<1> QED
  BY <1>1, <1>2 DEF ReactorSafe, Reactor!ReactorSafe, Reactor!TypeOK, Reactor!NothingTwice,
     JobsOK, TimersOK, FdsOK, PcOK

(* The empty reactor. *)
LEMMA ReactorInitInv ==
  ASSUME Reactor!ReactorAssumption, Reactor!Init
  PROVE  JobsOK /\ TimersOK /\ FdsOK /\ PcOK
<1>1. Once(<<>>) /\ Elements(<<>>) = {}
  BY DEF Once, Elements
<1>2. JobsOK
  BY <1>1, EmptySeq DEF Reactor!Init, JobsOK
<1>3. TimersOK
  BY <1>1, EmptySeq DEF Reactor!Init, TimersOK
<1>4. FdsOK
  BY EmptySeq DEF Reactor!Init, FdsOK, Reactor!NoStaleEvent
<1>5. PcOK
  BY DEF Reactor!Init, PcOK, Reactor!Handlers, Reactor!ReactorAssumption
<1> QED
  BY <1>2, <1>3, <1>4, <1>5

(* Parts that a step leaves alone. *)
LEMMA PartsUntouched ==
  /\ JobsOK /\ UNCHANGED jobs => JobsOK'
  /\ TimersOK /\ UNCHANGED <<state, left, expired>> => TimersOK'
  /\ FdsOK /\ UNCHANGED <<active, waits, results, returned>> => FdsOK'
<1>1. JobsOK /\ UNCHANGED jobs => JobsOK'
  BY DEF JobsOK
<1>2. TimersOK /\ UNCHANGED <<state, left, expired>> => TimersOK'
  BY DEF TimersOK
<1>3. FdsOK /\ UNCHANGED <<active, waits, results, returned>> => FdsOK'
  BY DEF FdsOK, Reactor!NoStaleEvent
<1> QED
  BY <1>1, <1>2, <1>3

(* BSmallPending_Set and Unset, and the job that is executed. *)
LEMMA JobSteps ==
  ASSUME JobsOK, NEW j \in Jobs, Reactor!Set(j) \/ Reactor!Unset(j) \/ Reactor!ExecuteJob
  PROVE  JobsOK'
<1> DEFINE rest == Reactor!RemoveFirst(jobs, j)
<1>1. rest \in Seq(Jobs) /\ Once(rest) /\ Elements(rest) = Elements(jobs) \ {j}
  BY RemoveFirstElements DEF JobsOK
<1> HIDE DEF rest
<1>2. CASE Reactor!Set(j)
  <2>1. <<j>> \in Seq(Jobs) /\ Once(<<j>>) /\ Elements(<<j>>) = {j}
    BY SingleElement
  <2>2. <<j>> \o rest \in Seq(Jobs) /\ Once(<<j>> \o rest)
    BY <1>1, <2>1, JoinedElements
  <2>3. jobs' = <<j>> \o rest
    BY <1>2 DEF Reactor!Set, rest
  <2> QED
    BY <2>2, <2>3 DEF JobsOK
<1>3. CASE Reactor!Unset(j)
  <2>1. jobs' = rest
    BY <1>3 DEF Reactor!Unset, rest
  <2> QED
    BY <1>1, <2>1 DEF JobsOK
<1>4. CASE Reactor!ExecuteJob
  <2>1. jobs # <<>> /\ jobs' = Tail(jobs)
    BY <1>4 DEF Reactor!ExecuteJob
  <2>2. Tail(jobs) \in Seq(Jobs) /\ Once(Tail(jobs))
    BY <2>1, TailElements DEF JobsOK
  <2> QED
    BY <2>1, <2>2 DEF JobsOK
<1> QED
  BY <1>2, <1>3, <1>4

(* BReactor_SetSmallTimer, BReactor_RemoveSmallTimer: a timer that waits in the
   expired list is taken out of it. *)
LEMMA TimerCalls ==
  ASSUME TimersOK, NEW t \in Timers, NEW after \in Nat,
         Reactor!SetSmallTimer(t, after) \/ Reactor!RemoveSmallTimer(t)
  PROVE  TimersOK'
<1> DEFINE rest == Reactor!RemoveFirst(expired, t)
<1>1. rest \in Seq(Timers) /\ Once(rest) /\ Elements(rest) = Elements(expired) \ {t}
  BY RemoveFirstElements DEF TimersOK
<1>2. expired' = rest
  BY DEF Reactor!SetSmallTimer, Reactor!RemoveSmallTimer
<1> HIDE DEF rest
<1>3. PICK x \in {"RUNNING", "INACTIVE"}, y \in Int :
        state' = [state EXCEPT ![t] = x] /\ left' = [left EXCEPT ![t] = y]
  <2>1. after \in Int /\ 0 \in Int
    OBVIOUS
  <2>2. CASE Reactor!SetSmallTimer(t, after)
    BY <2>1, <2>2 DEF Reactor!SetSmallTimer
  <2>3. CASE Reactor!RemoveSmallTimer(t)
    BY <2>1, <2>3 DEF Reactor!RemoveSmallTimer
  <2> QED
    BY <2>2, <2>3
<1>4. state' \in [Timers -> {"INACTIVE", "RUNNING", "EXPIRED"}] /\ left' \in [Timers -> Int]
  BY <1>3 DEF TimersOK
<1>5. {u \in Timers : state'[u] = "EXPIRED"} = {u \in Timers : state[u] = "EXPIRED"} \ {t}
  BY <1>3 DEF TimersOK
<1>6. Elements(expired') = {u \in Timers : state'[u] = "EXPIRED"}
  BY <1>1, <1>2, <1>5 DEF TimersOK
<1> QED
  BY <1>1, <1>2, <1>4, <1>6 DEF TimersOK

(* The first expired timer is dispatched. *)
LEMMA TimerDispatched ==
  ASSUME TimersOK, Reactor!DispatchTimer
  PROVE  TimersOK'
<1> DEFINE t == Head(expired)
<1>1. /\ expired # <<>> /\ expired' = Tail(expired)
      /\ state' = [state EXCEPT ![t] = "INACTIVE"] /\ left' = [left EXCEPT ![t] = 0]
  BY DEF Reactor!DispatchTimer
<1>2. /\ Tail(expired) \in Seq(Timers) /\ Once(Tail(expired)) /\ t \in Elements(expired)
      /\ Elements(Tail(expired)) = Elements(expired) \ {t}
  BY <1>1, TailElements DEF TimersOK
<1>3. t \in Timers
  BY <1>2 DEF TimersOK
<1> HIDE DEF t
<1>4. state' \in [Timers -> {"INACTIVE", "RUNNING", "EXPIRED"}] /\ left' \in [Timers -> Int]
  BY <1>1, <1>3 DEF TimersOK
<1>5. {u \in Timers : state'[u] = "EXPIRED"} = {u \in Timers : state[u] = "EXPIRED"} \ {t}
  BY <1>1, <1>3 DEF TimersOK
<1>6. Elements(expired') = {u \in Timers : state'[u] = "EXPIRED"}
  BY <1>1, <1>2, <1>5 DEF TimersOK
<1> QED
  BY <1>1, <1>2, <1>4, <1>6 DEF TimersOK

(* Running timers move to the expired list: they were not there. *)
LEMMA TimersExpire ==
  ASSUME Reactor!ReactorAssumption, TimersOK, NEW ts, ts \subseteq Reactor!Running,
         Reactor!Expire(ts)
  PROVE  TimersOK'
<1>1. PICK s \in Reactor!SetToSeqs(ts) : expired' = expired \o s
  BY DEF Reactor!Expire
<1>2. /\ state' = [t \in Timers |-> IF t \in ts THEN "EXPIRED" ELSE state[t]]
      /\ left' = [t \in Timers |-> IF t \in ts THEN 0 ELSE left[t]]
  BY DEF Reactor!Expire
<1>3. ts \subseteq Timers /\ \A t \in ts : state[t] = "RUNNING"
  BY DEF Reactor!Running
<1>4. IsFiniteSet(ts)
  <2>1. IsFiniteSet(Timers)
    BY DEF Reactor!ReactorAssumption, Reactor!IsFiniteSet, IsFiniteSet
  <2> QED
    BY <1>3, <2>1, FS_Subset
<1>5. s \in Seq(ts) /\ Once(s) /\ Elements(s) = ts
  BY <1>4, OrdersOnce
<1>6. s \in Seq(Timers)
  BY <1>3, <1>5
<1>7. Elements(expired) \cap Elements(s) = {}
  BY <1>3, <1>5 DEF TimersOK
<1>8. /\ expired \o s \in Seq(Timers) /\ Once(expired \o s)
      /\ Elements(expired \o s) = Elements(expired) \cup Elements(s)
  BY <1>5, <1>6, <1>7, JoinedElements DEF TimersOK
<1>9. {u \in Timers : state'[u] = "EXPIRED"} = {u \in Timers : state[u] = "EXPIRED"} \cup ts
  BY <1>2, <1>3
<1>10. state' \in [Timers -> {"INACTIVE", "RUNNING", "EXPIRED"}] /\ left' \in [Timers -> Int]
  BY <1>2 DEF TimersOK
<1>11. Elements(expired') = {u \in Timers : state'[u] = "EXPIRED"}
  BY <1>1, <1>5, <1>8, <1>9 DEF TimersOK
<1> QED
  BY <1>1, <1>8, <1>10, <1>11 DEF TimersOK


(* BReactor_AddFileDescriptor, BReactor_SetFileDescriptorEvents. *)
LEMMA FdCalls ==
  ASSUME Reactor!ReactorAssumption, FdsOK, NEW f \in Fds,
         Reactor!AddFileDescriptor(f) \/ Reactor!SetFileDescriptorEvents(f)
  PROVE  FdsOK'
<1>1. CASE Reactor!AddFileDescriptor(f)
  <2>1. /\ f \notin active /\ active' = active \cup {f} /\ returned' = [returned EXCEPT ![f] = 0]
        /\ UNCHANGED <<waits, results>>
    BY <1>1 DEF Reactor!AddFileDescriptor
  <2>2. /\ waits' \subseteq active' /\ active' \subseteq Fds
        /\ results' \in Seq(Reactor!Entries) /\ returned' \in [Fds -> Nat]
    BY <2>1 DEF FdsOK
  <2>3. ASSUME NEW i \in DOMAIN results, results[i].ptr # Null
        PROVE  ~results[i].stale /\ results[i].ptr \in active' /\ returned'[results[i].ptr] = i
    <3>1. /\ ~results[i].stale /\ results[i].ptr \in active
          /\ returned[results[i].ptr] = i
      BY <2>3 DEF FdsOK, Reactor!NoStaleEvent
    <3>2. results[i].ptr # f /\ results[i].ptr \in Fds
      BY <2>1, <3>1 DEF FdsOK
    <3> QED
      BY <2>1, <3>1, <3>2 DEF FdsOK
  <2> QED
    BY <2>1, <2>2, <2>3 DEF FdsOK, Reactor!NoStaleEvent
<1>2. CASE Reactor!SetFileDescriptorEvents(f)
  <2>1. /\ f \in active /\ waits' = (IF f \in waits THEN waits \ {f} ELSE waits \cup {f})
        /\ UNCHANGED <<active, results, returned>>
    BY <1>2 DEF Reactor!SetFileDescriptorEvents
  <2> QED
    BY <2>1 DEF FdsOK, Reactor!NoStaleEvent
<1> QED
  BY <1>1, <1>2

(* BReactor_RemoveFileDescriptor clears the one entry that points to it. *)
LEMMA FdRemoved ==
  ASSUME Reactor!ReactorAssumption, FdsOK, NEW f \in Fds, Reactor!RemoveFileDescriptor(f)
  PROVE  FdsOK'
<1> DEFINE e(i) == [results[i] EXCEPT !.ptr = IF i = returned[f] THEN Null ELSE @,
                                      !.stale = @ \/ results[i].ptr = f]
<1>1. /\ f \in active /\ active' = active \ {f} /\ waits' = waits \ {f} /\ UNCHANGED returned
      /\ results' = [i \in DOMAIN results |-> e(i)]
  BY DEF Reactor!RemoveFileDescriptor
<1>2. results \in Seq(Reactor!Entries) /\ DOMAIN results = 1..Len(results) /\ Len(results) \in Nat
  BY DEF FdsOK
<1>3. ASSUME NEW i \in 1..Len(results)
      PROVE  /\ e(i) \in Reactor!Entries
             /\ e(i).ptr = (IF i = returned[f] THEN Null ELSE results[i].ptr)
             /\ e(i).stale <=> (results[i].stale \/ results[i].ptr = f)
  <2>1. results[i] \in Reactor!Entries
    BY <1>2
  <2>2. results[i].ptr \in Fds \cup {Null} /\ results[i].stale \in BOOLEAN
        /\ results[i].error \in BOOLEAN
    BY <2>1 DEF Reactor!Entries
  <2> DEFINE x == IF i = returned[f] THEN Null ELSE results[i].ptr
             b == results[i].stale \/ results[i].ptr = f
  <2>3. x \in Fds \cup {Null} /\ b \in BOOLEAN
    BY <2>2
  <2>4. e(i) = [results[i] EXCEPT !.ptr = x, !.stale = b]
    OBVIOUS
  <2> HIDE DEF x, b, e
  <2>5. e(i) \in Reactor!Entries /\ e(i).ptr = x /\ e(i).stale = b
    BY <2>1, <2>3, <2>4 DEF Reactor!Entries
  <2> QED
    BY <2>5 DEF x, b
<1> HIDE DEF e
<1>4. results' \in Seq(Reactor!Entries) /\ DOMAIN results' = 1..Len(results)
  <2>1. results' \in [1..Len(results) -> Reactor!Entries]
    BY <1>1, <1>2, <1>3
  <2> QED
    BY <1>2, <2>1
<1>5. \A i \in 1..Len(results) : results'[i] = e(i)
  BY <1>1, <1>2
<1>6. ASSUME NEW i \in 1..Len(results), results'[i].ptr # Null
      PROVE  /\ ~results'[i].stale /\ results'[i].ptr \in active'
             /\ returned'[results'[i].ptr] = i
  <2>1. i # returned[f] /\ results'[i].ptr = results[i].ptr
    BY <1>3, <1>5, <1>6
  <2>2. /\ ~results[i].stale /\ results[i].ptr \in active
        /\ returned[results[i].ptr] = i
    BY <1>2, <1>6, <2>1 DEF FdsOK, Reactor!NoStaleEvent
  <2>3. results[i].ptr # f
    BY <2>1, <2>2
  <2> QED
    BY <1>1, <1>3, <1>5, <2>1, <2>2, <2>3
<1>7. waits' \subseteq active' /\ active' \subseteq Fds /\ returned' \in [Fds -> Nat]
  BY <1>1 DEF FdsOK
<1> QED
  BY <1>4, <1>6, <1>7 DEF FdsOK, Reactor!NoStaleEvent

(* The loop goes on to the next entry. *)
LEMMA FdDispatched ==
  ASSUME Reactor!ReactorAssumption, FdsOK, Reactor!DispatchFd
  PROVE  FdsOK'
<1>1. /\ results # <<>> /\ results' = Tail(results) /\ returned' = Reactor!Advance
      /\ UNCHANGED <<active, waits>>
  BY DEF Reactor!DispatchFd
<1>2. /\ results \in Seq(Reactor!Entries) /\ results' \in Seq(Reactor!Entries)
      /\ Len(results) \in Nat \ {0} /\ DOMAIN results = 1..Len(results)
      /\ DOMAIN results' = 1..(Len(results) - 1)
      /\ \A i \in 1..(Len(results) - 1) : results'[i] = results[i + 1]
  BY <1>1, HeadTailProperties, EmptySeq DEF FdsOK
<1>3. returned' \in [Fds -> Nat]
      /\ \A f \in Fds : returned'[f] = IF returned[f] > 0 THEN returned[f] - 1 ELSE 0
  <2>1. returned' = [f \in Fds |-> IF returned[f] > 0 THEN returned[f] - 1 ELSE 0]
    BY <1>1 DEF Reactor!Advance
  <2>2. \A f \in Fds : (IF returned[f] > 0 THEN returned[f] - 1 ELSE 0) \in Nat
    BY DEF FdsOK
  <2> QED
    BY <2>1, <2>2
<1>4. ASSUME NEW i \in 1..(Len(results) - 1), results'[i].ptr # Null
      PROVE  /\ ~results'[i].stale /\ results'[i].ptr \in active'
             /\ returned'[results'[i].ptr] = i
  <2>1. i + 1 \in DOMAIN results /\ results'[i] = results[i + 1]
    BY <1>2
  <2>2. /\ ~results[i + 1].stale /\ results[i + 1].ptr \in active
        /\ returned[results[i + 1].ptr] = i + 1
    BY <1>4, <2>1 DEF FdsOK, Reactor!NoStaleEvent
  <2>3. results[i + 1].ptr \in Fds
    BY <2>2 DEF FdsOK
  <2>4. returned'[results[i + 1].ptr] = i
    BY <1>2, <1>3, <2>2, <2>3
  <2> QED
    BY <1>1, <2>1, <2>2, <2>4
<1> QED
  BY <1>1, <1>2, <1>3, <1>4 DEF FdsOK, Reactor!NoStaleEvent

(* epoll_wait fills the results: each descriptor is told where its entry is. *)
LEMMA FdsReturned ==
  ASSUME Reactor!ReactorAssumption, FdsOK, Reactor!EpollReturns
  PROVE  FdsOK'
<1>1. PICK fs \in (SUBSET active) \ {{}} :
        \E s \in Reactor!SetToSeqs(fs) :
          \E error \in [DOMAIN s -> BOOLEAN] :
            /\ \A i \in DOMAIN s : s[i] \in waits \/ error[i]
            /\ results' = [i \in DOMAIN s |->
                             [ptr |-> s[i], error |-> error[i], stale |-> FALSE]]
            /\ returned' = [f \in Fds |->
                  IF f \in fs THEN CHOOSE i \in DOMAIN s : s[i] = f ELSE returned[f]]
  BY DEF Reactor!EpollReturns
<1>0. PICK s \in Reactor!SetToSeqs(fs) :
        \E error \in [DOMAIN s -> BOOLEAN] :
          /\ \A i \in DOMAIN s : s[i] \in waits \/ error[i]
          /\ results' = [i \in DOMAIN s |->
                           [ptr |-> s[i], error |-> error[i], stale |-> FALSE]]
          /\ returned' = [f \in Fds |->
                IF f \in fs THEN CHOOSE i \in DOMAIN s : s[i] = f ELSE returned[f]]
  BY <1>1
<1>2. PICK error \in [DOMAIN s -> BOOLEAN] :
        /\ results' = [i \in DOMAIN s |->
                         [ptr |-> s[i], error |-> error[i], stale |-> FALSE]]
        /\ returned' = [f \in Fds |->
              IF f \in fs THEN CHOOSE i \in DOMAIN s : s[i] = f ELSE returned[f]]
  BY <1>0
<1>3. UNCHANGED <<active, waits>>
  BY DEF Reactor!EpollReturns
<1>4. fs \subseteq active /\ fs \subseteq Fds
  BY <1>1 DEF FdsOK
<1>5. IsFiniteSet(fs)
  <2>1. IsFiniteSet(Fds)
    BY DEF Reactor!ReactorAssumption, Reactor!IsFiniteSet, IsFiniteSet
  <2> QED
    BY <1>4, <2>1, FS_Subset
<1>6. s \in Seq(fs) /\ Once(s) /\ Elements(s) = fs /\ DOMAIN s = 1..Len(s) /\ Len(s) \in Nat
  BY <1>5, OrdersOnce
<1>7. \A i \in 1..Len(s) : s[i] \in fs
  BY <1>6
<1>8. \A f \in fs : \E i \in DOMAIN s : s[i] = f
  BY <1>6 DEF Elements
<1> DEFINE at(f) == CHOOSE i \in DOMAIN s : s[i] = f
<1>9. \A f \in fs : at(f) \in DOMAIN s /\ s[at(f)] = f
  BY <1>8
<1>10. \A i \in DOMAIN s : at(s[i]) = i
  <2>1. ASSUME NEW i \in DOMAIN s PROVE at(s[i]) = i
    <3>1. s[i] \in fs
      BY <1>6, <1>7
    <3>2. at(s[i]) \in DOMAIN s /\ s[at(s[i])] = s[i]
      BY <1>9, <3>1
    <3> HIDE DEF at
    <3> QED
      BY <1>6, <3>2 DEF Once
  <2> QED
    BY <2>1
<1>11. returned' = [f \in Fds |-> IF f \in fs THEN at(f) ELSE returned[f]]
  BY <1>2
<1> HIDE DEF at
<1>12. returned' \in [Fds -> Nat]
  <2>1. \A f \in fs : at(f) \in Nat
    BY <1>6, <1>9
  <2> QED
    BY <1>11, <2>1 DEF FdsOK
<1>13. results' \in Seq(Reactor!Entries) /\ DOMAIN results' = 1..Len(s)
  <2>1. ASSUME NEW i \in 1..Len(s)
        PROVE  [ptr |-> s[i], error |-> error[i], stale |-> FALSE] \in Reactor!Entries
    <3>1. s[i] \in Fds /\ error[i] \in BOOLEAN
      BY <1>4, <1>6, <1>7
    <3> QED
      BY <3>1 DEF Reactor!Entries
  <2>2. results' \in [1..Len(s) -> Reactor!Entries]
    BY <1>2, <1>6, <2>1
  <2> QED
    BY <1>6, <2>2
<1>14. ASSUME NEW i \in 1..Len(s)
       PROVE  /\ ~results'[i].stale /\ results'[i].ptr \in active'
              /\ returned'[results'[i].ptr] = i
  <2>1. results'[i] = [ptr |-> s[i], error |-> error[i], stale |-> FALSE]
    BY <1>2, <1>6
  <2>2. results'[i].stale = FALSE /\ results'[i].ptr = s[i]
    BY <2>1
  <2>3. s[i] \in fs /\ s[i] \in Fds
    BY <1>4, <1>7
  <2>4. returned'[s[i]] = i
    BY <1>6, <1>10, <1>11, <2>3
  <2> QED
    BY <1>3, <1>4, <2>2, <2>3, <2>4
<1> QED
  BY <1>3, <1>12, <1>13, <1>14 DEF FdsOK, Reactor!NoStaleEvent


(* The place of the loop and the count of the limit. *)
LEMMA PcStep ==
  ASSUME Reactor!ReactorAssumption, PcOK, [Reactor!Next]_Reactor!vars
  PROVE  PcOK'
<1>1. CASE Reactor!Calls
  <2>1. CASE Reactor!BReactorLimitIncrement
    BY <2>1 DEF Reactor!BReactorLimitIncrement, PcOK, Reactor!Handlers, Reactor!ReactorAssumption
  <2>2. CASE UNCHANGED <<pc, count>>
    BY <2>2 DEF PcOK
  <2>3. Reactor!BReactorLimitIncrement \/ UNCHANGED <<pc, count>>
    BY <1>1 DEF Reactor!Calls, Reactor!Set, Reactor!Unset, Reactor!SetSmallTimer,
       Reactor!RemoveSmallTimer, Reactor!AddFileDescriptor, Reactor!RemoveFileDescriptor,
       Reactor!SetFileDescriptorEvents
  <2> QED
    BY <2>1, <2>2, <2>3
<1>2. CASE Reactor!HandlerReturns \/ Reactor!Quit
  BY <1>2 DEF Reactor!HandlerReturns, Reactor!Quit, PcOK
<1>3. CASE Reactor!Exec
  BY <1>3 DEF Reactor!Exec, Reactor!ExecuteJob, Reactor!DispatchTimer, Reactor!DispatchFd,
     Reactor!BeginWait, PcOK, Reactor!Handlers
<1>4. CASE Reactor!EpollReturns \/ Reactor!EpollTimesOut
  BY <1>4 DEF Reactor!EpollReturns, Reactor!EpollTimesOut, PcOK, Reactor!ReactorAssumption
<1>5. CASE Reactor!Tick
  BY <1>5 DEF Reactor!Tick, PcOK
<1>6. CASE UNCHANGED Reactor!vars
  BY <1>6 DEF Reactor!vars, PcOK
<1> QED
  BY <1>1, <1>2, <1>3, <1>4, <1>5, <1>6 DEF Reactor!Next

(* Every step keeps the three lists in order. *)
LEMMA ReactorStep ==
  ASSUME Reactor!ReactorAssumption, JobsOK, TimersOK, FdsOK, [Reactor!Next]_Reactor!vars
  PROVE  JobsOK' /\ TimersOK' /\ FdsOK'
<1> USE DEF Reactor!timers, Reactor!fds
<1>1. CASE Reactor!BReactorLimitIncrement \/ Reactor!HandlerReturns \/ Reactor!Quit
  BY <1>1, PartsUntouched DEF Reactor!BReactorLimitIncrement, Reactor!HandlerReturns, Reactor!Quit
<1>2. ASSUME NEW j \in Jobs, Reactor!Set(j) \/ Reactor!Unset(j)
      PROVE  JobsOK' /\ TimersOK' /\ FdsOK'
  <2>1. UNCHANGED <<state, left, expired, active, waits, results, returned>>
    BY <1>2 DEF Reactor!Set, Reactor!Unset
  <2> QED
    BY <1>2, <2>1, JobSteps, PartsUntouched
<1>3. ASSUME NEW t \in Timers, NEW after \in Nat,
             Reactor!SetSmallTimer(t, after) \/ Reactor!RemoveSmallTimer(t)
      PROVE  JobsOK' /\ TimersOK' /\ FdsOK'
  <2>1. UNCHANGED <<jobs, active, waits, results, returned>>
    BY <1>3 DEF Reactor!SetSmallTimer, Reactor!RemoveSmallTimer
  <2> QED
    BY <1>3, <2>1, TimerCalls, PartsUntouched
<1>4. ASSUME NEW f \in Fds,
             \/ Reactor!AddFileDescriptor(f) \/ Reactor!SetFileDescriptorEvents(f)
             \/ Reactor!RemoveFileDescriptor(f)
      PROVE  JobsOK' /\ TimersOK' /\ FdsOK'
  <2>1. UNCHANGED <<jobs, state, left, expired>>
    BY <1>4 DEF Reactor!AddFileDescriptor, Reactor!SetFileDescriptorEvents,
       Reactor!RemoveFileDescriptor
  <2> QED
    BY <1>4, <2>1, FdCalls, FdRemoved, PartsUntouched
<1>5. CASE Reactor!Calls
  <2>1. \A x \in After : x \in Nat
    BY DEF Reactor!ReactorAssumption
  <2>2. ASSUME NEW t \in Timers, Reactor!RemoveSmallTimer(t)
        PROVE  JobsOK' /\ TimersOK' /\ FdsOK'
    <3>1. 0 \in Nat
      OBVIOUS
    <3> QED
      BY <1>3, <2>2, <3>1
  <2> QED
    BY <1>1, <1>2, <1>3, <1>4, <1>5, <2>1, <2>2 DEF Reactor!Calls
<1>6. CASE Reactor!ExecuteJob
  <2>1. jobs # <<>> /\ UNCHANGED <<state, left, expired, active, waits, results, returned>>
    BY <1>6 DEF Reactor!ExecuteJob
  <2>2. Head(jobs) \in Jobs
    BY <2>1, HeadTailProperties DEF JobsOK
  <2> QED
    BY <1>6, <2>1, <2>2, JobSteps, PartsUntouched
<1>7. CASE Reactor!DispatchTimer
  <2>1. UNCHANGED <<jobs, active, waits, results, returned>>
    BY <1>7 DEF Reactor!DispatchTimer
  <2> QED
    BY <1>7, <2>1, TimerDispatched, PartsUntouched
<1>8. CASE Reactor!DispatchFd
  <2>1. UNCHANGED <<jobs, state, left, expired>>
    BY <1>8 DEF Reactor!DispatchFd
  <2> QED
    BY <1>8, <2>1, FdDispatched, PartsUntouched
<1>9. CASE Reactor!BeginWait
  <2>1. UNCHANGED <<jobs, active, waits, results, returned>>
        /\ (Reactor!Expire(Reactor!OutOfTime) \/ UNCHANGED <<state, left, expired>>)
    BY <1>9 DEF Reactor!BeginWait
  <2>2. Reactor!OutOfTime \subseteq Reactor!Running
    BY DEF Reactor!OutOfTime
  <2> QED
    BY <2>1, <2>2, TimersExpire, PartsUntouched
<1>10. CASE Reactor!EpollReturns
  <2>1. UNCHANGED <<jobs, state, left, expired>>
    BY <1>10 DEF Reactor!EpollReturns
  <2> QED
    BY <1>10, <2>1, FdsReturned, PartsUntouched
<1>11. CASE Reactor!EpollTimesOut
  <2> DEFINE ts == {t \in Reactor!Running : \A u \in Reactor!Running : left[t] <= left[u]}
  <2>1. UNCHANGED <<jobs, active, waits, results, returned>> /\ Reactor!Expire(ts)
    BY <1>11 DEF Reactor!EpollTimesOut
  <2>2. ts \subseteq Reactor!Running
    OBVIOUS
  <2> HIDE DEF ts
  <2> QED
    BY <2>1, <2>2, TimersExpire, PartsUntouched
<1>12. CASE Reactor!Tick
  <2>1. /\ left' = [t \in Timers |-> IF t \in Reactor!Running THEN left[t] - 1 ELSE left[t]]
        /\ UNCHANGED <<jobs, state, expired, active, waits, results, returned>>
    BY <1>12 DEF Reactor!Tick
  <2>2. left' \in [Timers -> Int]
    BY <2>1 DEF TimersOK
  <2>3. TimersOK'
    BY <2>1, <2>2 DEF TimersOK
  <2> QED
    BY <2>1, <2>3, PartsUntouched
<1>13. CASE UNCHANGED Reactor!vars
  BY <1>13, PartsUntouched DEF Reactor!vars
<1> QED
  BY <1>1, <1>5, <1>6, <1>7, <1>8, <1>9, <1>10, <1>11, <1>12, <1>13 DEF Reactor!Next, Reactor!Exec

(* BReactor_badvpn.c, BPending.c: whatever handlers set and remove while results,
   expired timers and jobs wait to be dispatched, no event goes to a descriptor
   that was removed since epoll_wait returned it, a pending job is pending once,
   and the expired list holds the expired timers once each; for any jobs, timers
   and descriptors. *)
THEOREM ReactorIsSafe ==
  ASSUME Reactor!ReactorAssumption
  PROVE  Reactor!Spec => []ReactorSafe
<1> DEFINE I == JobsOK /\ TimersOK /\ FdsOK /\ PcOK
<1>1. Reactor!Init => I
  BY ReactorInitInv
<1>2. I /\ [Reactor!Next]_Reactor!vars => I'
  BY ReactorStep, PcStep
<1>3. I => ReactorSafe
  BY ReactorParts
<1> HIDE DEF I
<1> QED
  BY <1>1, <1>2, <1>3, PTL DEF Reactor!Spec


-----------------------------------------------------------------------------
(* BConnection_unix.c.  The jobs pending, and an error or hang-up that epoll_wait
   has returned and the loop has not dispatched. *)
CnJobs == Elements(cn_jobs)
CnBad == result \cap {"ERROR", "HUP"} # {}

CnTypes == Connection!TypeOK /\ Once(cn_jobs)

(* BusyIsWatched and InterfacesAgree, over the jobs as a set. *)
CnWatched ==
  con = "live" =>
    /\ send = "BUSY" <=> (~is_hupd /\ "WRITE" \in wait)
    /\ recv = "BUSY" <=> ("recv" \in CnJobs \/ (~is_hupd /\ "READ" \in wait))
    /\ "recv" \in CnJobs => is_hupd \/ "READ" \notin wait
CnAgree ==
  /\ sendIf = "OPERATION_PENDING" <=> "sendOp" \in CnJobs
  /\ sendIf = "DONE_PENDING" <=> "sendDone" \in CnJobs
  /\ recvIf = "OPERATION_PENDING" <=> "recvOp" \in CnJobs
  /\ recvIf = "DONE_PENDING" <=> "recvDone" \in CnJobs
  /\ send = "READY" <=> (send # "NOT_INITED" /\ sendIf # "BUSY")
  /\ recv = "READY" <=> (recv # "NOT_INITED" /\ recvIf # "BUSY")

(* Before the connection and after it nothing is under way, and a connector that
   told its result or is about to has left the reactor. *)
CnLife ==
  /\ fd = "none" => /\ ~connector.fd /\ ~connector.told /\ ~connector.connected
                    /\ con = "none" /\ "connector" \notin CnJobs
  /\ con # "none" => ~connector.fd
  /\ con \in {"none", "freed"} => send = "NOT_INITED" /\ recv = "NOT_INITED"
  /\ con = "none" => wait = {} /\ is_hupd = FALSE /\ ~CnBad
  /\ connector.told \/ "connector" \in CnJobs => ~connector.have_bfd

(* An interface that is not initialised is not in use, and the job of a receive is
   there only for a receive under way. *)
CnIdle ==
  /\ send = "NOT_INITED" => sendIf = "NONE"
  /\ recv = "NOT_INITED" => recvIf = "NONE"
  /\ "recv" \in CnJobs => recv = "BUSY"

(* Between epoll_wait, which reports a reset, and the handler: no send got through
   in between, and a receive that the result does not wake is one that the limit
   has put off. *)
CnLate ==
  con = "live" /\ CnBad =>
    /\ ~is_hupd /\ kernel.link = "reset" /\ spent.send = 0
    /\ recv = "BUSY" /\ "READ" \notin result => spent.recv = IoLimit

ConnectionInv ==
  /\ CnTypes /\ CnWatched /\ CnAgree /\ Connection!DescriptorHasOneOwner
  /\ CnLife /\ CnIdle /\ CnLate

(* The invariant is at least what the run checks. *)
LEMMA ConnectionInvSafe ==
  ASSUME ConnectionInv
  PROVE  ConnectionSafe
<1>1. Connection!IsInjective(cn_jobs) = Once(cn_jobs)
  BY DEF Connection!IsInjective, Once
<1>2. Connection!Range(cn_jobs) = CnJobs
  BY DEF Connection!Range, CnJobs, Elements
<1>3. \A x : Connection!Contains(cn_jobs, x) <=> x \in CnJobs
  <2>1. cn_jobs \in Seq(Connection!JobNames)
    BY DEF ConnectionInv, CnTypes, Connection!TypeOK
  <2>2. DOMAIN cn_jobs = 1..Len(cn_jobs)
    BY <2>1
  <2> QED
    BY <2>2 DEF Connection!Contains, CnJobs, Elements
<1>4. Connection!BusyIsWatched
  BY <1>2 DEF ConnectionInv, CnWatched, Connection!BusyIsWatched
<1>5. Connection!InterfacesAgree
  BY <1>1, <1>3 DEF ConnectionInv, CnTypes, CnAgree, Connection!InterfacesAgree
<1> QED
  BY <1>4, <1>5 DEF ConnectionInv, CnTypes, ConnectionSafe, Connection!ConnectionSafe

(* A job put in front of others. *)
LEMMA JobInFront ==
  ASSUME NEW js \in Seq(Connection!JobNames), Once(js), NEW j \in Connection!JobNames,
         j \notin Elements(js)
  PROVE  /\ <<j>> \o js \in Seq(Connection!JobNames) /\ Once(<<j>> \o js)
         /\ Elements(<<j>> \o js) = {j} \cup Elements(js)
<1> DEFINE one == <<j>>
<1>1. one \in Seq(Connection!JobNames) /\ Once(one) /\ Elements(one) = {j}
  BY SingleElement
<1> HIDE DEF one
<1>2. Elements(one) \cap Elements(js) = {}
  BY <1>1
<1>3. /\ one \o js \in Seq(Connection!JobNames) /\ Once(one \o js)
      /\ Elements(one \o js) = Elements(one) \cup Elements(js)
  BY <1>1, <1>2, JoinedElements
<1> QED
  BY <1>1, <1>3 DEF one

(* What connection_send does: it sends, waits for the descriptor, or reports an
   error. *)
LEMMA SendEffect ==
  ASSUME Connection!ConnectionAssumption, CnTypes, NEW w, NEW hup \in BOOLEAN,
         NEW js \in Seq(Connection!JobNames), Once(js), "sendDone" \notin Elements(js),
         Connection!ConnectionSend(w, hup, js)
  PROVE  /\ UNCHANGED <<connector, inits, recv, recvIf, fd>>
         /\ spent' \in Connection!Counts(IoLimit) /\ spent'.recv = spent.recv
         /\ kernel' \in Connection!Kernels
         /\ kernel'.link = kernel.link
         /\ cn_jobs' \in Seq(Connection!JobNames) /\ Once(cn_jobs')
         /\ \/ /\ kernel.link # "reset" /\ wait' = w /\ con' = con
               /\ send' = "READY" /\ sendIf' = "DONE_PENDING"
               /\ CnJobs' = {"sendDone"} \cup Elements(js)
            \/ /\ ~hup /\ (kernel.link = "reset" => spent.send = IoLimit)
               /\ wait' = w \cup {"WRITE"} /\ con' = con
               /\ send' = "BUSY" /\ sendIf' = "BUSY" /\ CnJobs' = Elements(js)
            \/ /\ con' = "error" /\ wait' = w
               /\ send' = "BUSY" /\ sendIf' = "BUSY" /\ CnJobs' = Elements(js)
<1> USE DEF Connection!Reset, CnJobs
<1>a. /\ spent \in Connection!Counts(IoLimit)
      /\ kernel \in Connection!Kernels
      /\ IoLimit \in Nat /\ Room \in Nat /\ MaxArrivals \in Nat
  BY DEF CnTypes, Connection!TypeOK, Connection!ConnectionAssumption
<1>b. UNCHANGED <<connector, inits, recv, recvIf, fd>>
  BY DEF Connection!ConnectionSend
<1>1. CASE ~hup /\ spent.send = IoLimit
  <2>1. /\ wait' = w \cup {"WRITE"} /\ cn_jobs' = js /\ con' = con
        /\ send' = "BUSY" /\ sendIf' = "BUSY" /\ spent' = spent /\ kernel' = kernel
    BY <1>1 DEF Connection!ConnectionSend, Connection!WaitForFd
  <2> QED
    BY <1>1, <1>a, <1>b, <2>1
<1>2. CASE ~(~hup /\ spent.send = IoLimit)
  <2>1. spent' = [spent EXCEPT !.send = IF hup THEN @ ELSE @ + 1]
    BY <1>2 DEF Connection!ConnectionSend
  <2>2. spent' \in Connection!Counts(IoLimit) /\ spent'.recv = spent.recv
    BY <1>2, <1>a, <2>1 DEF Connection!Counts
  <2>3. CASE ~Connection!Reset /\ kernel.room > 0
    <3>1. /\ \E n \in 1..kernel.room : kernel' = [kernel EXCEPT !.room = @ - n]
          /\ send' = "READY" /\ sendIf' = "DONE_PENDING"
          /\ wait' = w /\ cn_jobs' = <<"sendDone">> \o js /\ con' = con
      BY <1>2, <2>3, <1>a DEF Connection!ConnectionSend
    <3>2. PICK n \in 1..kernel.room : kernel' = [kernel EXCEPT !.room = @ - n]
      BY <3>1
    <3>3. kernel.room \in 0..Room /\ kernel.room - n \in 0..Room
      BY <1>a, <3>2 DEF Connection!Kernels
    <3>4. /\ kernel' \in Connection!Kernels
          /\ kernel'.link = kernel.link
      BY <1>a, <3>2, <3>3 DEF Connection!Kernels
    <3>5. /\ cn_jobs' \in Seq(Connection!JobNames) /\ Once(cn_jobs')
          /\ CnJobs' = {"sendDone"} \cup Elements(js)
      BY <3>1, JobInFront DEF Connection!JobNames
    <3> QED
      BY <1>b, <2>2, <2>3, <3>1, <3>4, <3>5
  <2>4. CASE ~(~Connection!Reset /\ kernel.room > 0)
    <3>1. /\ IF Connection!Reset \/ hup THEN Connection!ReportError(w, js)
                                        ELSE Connection!WaitForFd("WRITE", w, js)
          /\ send' = "BUSY" /\ sendIf' = "BUSY" /\ kernel' = kernel
      BY <1>2, <2>4, <1>a DEF Connection!ConnectionSend
    <3>2. CASE Connection!Reset \/ hup
      BY <1>a, <1>b, <2>2, <3>1, <3>2 DEF Connection!ReportError
    <3>3. CASE ~(Connection!Reset \/ hup)
      BY <1>a, <1>b, <2>2, <3>1, <3>3 DEF Connection!WaitForFd
    <3> QED
      BY <3>2, <3>3
  <2> QED
    BY <2>3, <2>4
<1> QED
  BY <1>1, <1>2

(* What connection_recv does: it receives, finds the end, waits for the
   descriptor, or reports an error. *)
LEMMA RecvEffect ==
  ASSUME Connection!ConnectionAssumption, CnTypes, NEW w, NEW hup \in BOOLEAN,
         NEW js \in Seq(Connection!JobNames), Once(js), "recvDone" \notin Elements(js),
         Connection!ConnectionRecv(w, hup, js)
  PROVE  /\ UNCHANGED <<connector, inits, send, sendIf, fd>>
         /\ spent' \in Connection!Counts(IoLimit) /\ spent'.send = spent.send
         /\ kernel' \in Connection!Kernels
         /\ kernel'.link = kernel.link
         /\ cn_jobs' \in Seq(Connection!JobNames) /\ Once(cn_jobs')
         /\ \/ /\ hup \/ spent.recv # IoLimit
               /\ wait' = w /\ con' = con /\ recv' = "READY" /\ recvIf' = "DONE_PENDING"
               /\ CnJobs' = {"recvDone"} \cup Elements(js)
            \/ /\ hup \/ spent.recv # IoLimit
               /\ wait' = w /\ con' = con /\ recv' = "INITED_CLOSED" /\ recvIf' = "BUSY"
               /\ CnJobs' = Elements(js)
            \/ /\ ~hup /\ (kernel.link = "reset" => spent'.recv = IoLimit)
               /\ wait' = w \cup {"READ"} /\ con' = con
               /\ recv' = "BUSY" /\ recvIf' = "BUSY" /\ CnJobs' = Elements(js)
            \/ /\ con' = "error" /\ wait' = w
               /\ recv' = "BUSY" /\ recvIf' = "BUSY" /\ CnJobs' = Elements(js)
<1> USE DEF Connection!Reset, CnJobs
<1>a. /\ spent \in Connection!Counts(IoLimit)
      /\ kernel \in Connection!Kernels
      /\ IoLimit \in Nat /\ Room \in Nat /\ MaxArrivals \in Nat
  BY DEF CnTypes, Connection!TypeOK, Connection!ConnectionAssumption
<1>b. UNCHANGED <<connector, inits, send, sendIf, fd>>
  BY DEF Connection!ConnectionRecv
<1>1. CASE ~hup /\ spent.recv = IoLimit
  <2>1. /\ wait' = w \cup {"READ"} /\ cn_jobs' = js /\ con' = con
        /\ recv' = "BUSY" /\ recvIf' = "BUSY" /\ spent' = spent /\ kernel' = kernel
    BY <1>1 DEF Connection!ConnectionRecv, Connection!WaitForFd
  <2> QED
    BY <1>1, <1>a, <1>b, <2>1
<1>2. CASE ~(~hup /\ spent.recv = IoLimit)
  <2>1. spent' = [spent EXCEPT !.recv = IF hup THEN @ ELSE @ + 1]
    BY <1>2 DEF Connection!ConnectionRecv
  <2>2. spent' \in Connection!Counts(IoLimit) /\ spent'.send = spent.send
    BY <1>2, <1>a, <2>1 DEF Connection!Counts
  <2> DEFINE Bytes == /\ kernel.in > 0
                      /\ \E n \in 1..kernel.in : kernel' = [kernel EXCEPT !.in = @ - n]
                      /\ recv' = "READY" /\ recvIf' = "DONE_PENDING"
                      /\ wait' = w /\ cn_jobs' = <<"recvDone">> \o js
                      /\ con' = con
             End == /\ recv' = "INITED_CLOSED" /\ recvIf' = "BUSY"
                    /\ wait' = w /\ cn_jobs' = js
                    /\ con' = con /\ kernel' = kernel
             Blocked == /\ IF Connection!Reset \/ hup THEN Connection!ReportError(w, js)
                                                      ELSE Connection!WaitForFd("READ", w, js)
                        /\ recv' = "BUSY" /\ recvIf' = "BUSY" /\ kernel' = kernel
  <2>3. Bytes \/ End \/ Blocked
    BY <1>2 DEF Connection!ConnectionRecv
  <2>4. CASE Bytes
    <3>2. PICK n \in 1..kernel.in : kernel' = [kernel EXCEPT !.in = @ - n]
      BY <2>4
    <3>3. kernel.in \in 0..MaxArrivals /\ kernel.in - n \in 0..MaxArrivals
      BY <1>a, <3>2 DEF Connection!Kernels
    <3>4. /\ kernel' \in Connection!Kernels
          /\ kernel'.link = kernel.link
      BY <1>a, <3>2, <3>3, SMTT(40) DEF Connection!Kernels
    <3>5. /\ cn_jobs' \in Seq(Connection!JobNames) /\ Once(cn_jobs')
          /\ CnJobs' = {"recvDone"} \cup Elements(js)
      BY <2>4, JobInFront DEF Connection!JobNames
    <3> QED
      BY <1>2, <1>b, <2>2, <2>4, <3>4, <3>5
  <2>5. CASE End
    BY <1>2, <1>a, <1>b, <2>2, <2>5
  <2>6. CASE Blocked
    <3>2. CASE Connection!Reset \/ hup
      BY <1>a, <1>b, <2>2, <2>6, <3>2 DEF Connection!ReportError
    <3>3. CASE ~(Connection!Reset \/ hup)
      BY <1>a, <1>b, <2>2, <2>6, <3>3 DEF Connection!WaitForFd
    <3> QED
      BY <3>2, <3>3
  <2> QED
    BY <2>3, <2>4, <2>5, <2>6
<1> QED
  BY <1>1, <1>2

(* Nothing is there yet. *)
LEMMA ConnectionInitInv ==
  ASSUME Connection!ConnectionAssumption, Connection!Init
  PROVE  ConnectionInv
<1> USE DEF Connection!Init
<1>1. Once(cn_jobs) /\ CnJobs = {} /\ cn_jobs \in Seq(Connection!JobNames)
  BY EmptySeq DEF Once, Elements, CnJobs
<1>2. CnTypes
  <2>1. /\ connector \in Connection!Connectors
        /\ is_hupd \in BOOLEAN
    BY DEF Connection!Connectors
  <2>2. /\ IoLimit \in Nat /\ MaxInits \in Nat /\ MaxArrivals \in Nat /\ Room \in Nat
    BY DEF Connection!ConnectionAssumption
  <2>3. /\ spent \in Connection!Counts(IoLimit)
        /\ inits \in Connection!Counts(MaxInits)
        /\ kernel \in Connection!Kernels
    BY <2>2 DEF Connection!Counts, Connection!Kernels
  <2> QED
    BY <1>1, <2>1, <2>3 DEF CnTypes, Connection!TypeOK, Connection!IfStates
<1>3. CnWatched /\ CnAgree /\ CnIdle /\ CnLate
  BY <1>1 DEF CnWatched, CnAgree, CnIdle, CnLate
<1>4. CnLife /\ Connection!DescriptorHasOneOwner
  BY <1>1 DEF CnLife, CnBad, Connection!DescriptorHasOneOwner
<1> QED
  BY <1>2, <1>3, <1>4 DEF ConnectionInv

(* BConnector_Init. *)
LEMMA ConnectorInitKeeps ==
  ASSUME Connection!ConnectionAssumption, ConnectionInv, Connection!BConnectorInit
  PROVE  ConnectionInv'
<1>1. /\ UNCHANGED <<con, inits, is_hupd, wait, send, recv, sendIf, recvIf, spent, result>>
      /\ con = "none" /\ connector.fd = FALSE /\ connector.told = FALSE /\ connector.connected = FALSE
      /\ connector.have_bfd = FALSE /\ fd = "none" /\ "connector" \notin CnJobs
      /\ connector \in Connection!Connectors /\ kernel \in Connection!Kernels
      /\ send = "NOT_INITED" /\ recv = "NOT_INITED" /\ sendIf = "NONE" /\ recvIf = "NONE"
  BY DEF Connection!BConnectorInit, ConnectionInv, CnLife, CnIdle, Connection!DescriptorHasOneOwner,
     CnTypes, Connection!TypeOK
<1>2. CASE /\ connector' = [connector EXCEPT !.alive = TRUE, !.fd = TRUE, !.have_bfd = TRUE]
           /\ fd' = "open" /\ registered' = "connector"
           /\ kernel' = [kernel EXCEPT !.link = "connecting"]
           /\ UNCHANGED cn_jobs
  <2>1. CnJobs' = CnJobs
    BY <1>2 DEF CnJobs
  <2>2. /\ connector' \in Connection!Connectors
        /\ connector'.fd = TRUE /\ connector'.have_bfd = TRUE /\ connector'.told = FALSE
        /\ connector'.connected = FALSE
    BY <1>1, <1>2 DEF Connection!Connectors
  <2>3. kernel' \in Connection!Kernels
    BY <1>1, <1>2 DEF Connection!Kernels
  <2>4. CnTypes'
    BY <1>1, <1>2, <2>2, <2>3 DEF ConnectionInv, CnTypes, Connection!TypeOK
  <2>5. CnWatched' /\ CnAgree' /\ CnIdle' /\ CnLate'
    BY <1>1, <1>2, <2>1 DEF ConnectionInv, CnWatched, CnAgree, CnIdle, CnLate
  <2>6. CnLife' /\ Connection!DescriptorHasOneOwner'
    BY <1>1, <1>2, <2>1, <2>2 DEF ConnectionInv, CnLife, CnBad, Connection!DescriptorHasOneOwner
  <2> QED
    BY <2>4, <2>5, <2>6 DEF ConnectionInv
<1>3. CASE /\ connector' = [connector EXCEPT !.alive = TRUE, !.fd = TRUE, !.connected = TRUE]
           /\ fd' = "open" /\ cn_jobs' = <<"connector">>
           /\ kernel' = [kernel EXCEPT !.link = "up"]
           /\ UNCHANGED registered
  <2>1. CnJobs' = {"connector"} /\ Once(cn_jobs') /\ cn_jobs' \in Seq(Connection!JobNames)
    BY <1>3, SingleElement DEF CnJobs, Connection!JobNames
  <2>2. /\ connector' \in Connection!Connectors
        /\ connector'.fd = TRUE /\ connector'.have_bfd = FALSE /\ connector'.told = FALSE
        /\ connector'.connected = TRUE
    BY <1>1, <1>3 DEF Connection!Connectors
  <2>3. kernel' \in Connection!Kernels
    BY <1>1, <1>3 DEF Connection!Kernels
  <2>4. CnTypes'
    BY <1>1, <1>3, <2>1, <2>2, <2>3 DEF ConnectionInv, CnTypes, Connection!TypeOK
  <2>5. CnWatched' /\ CnAgree' /\ CnIdle' /\ CnLate'
    BY <1>1, <1>3, <2>1 DEF ConnectionInv, CnWatched, CnAgree, CnIdle, CnLate
  <2>6. CnLife' /\ Connection!DescriptorHasOneOwner'
    BY <1>1, <1>3, <2>1, <2>2 DEF ConnectionInv, CnLife, CnBad, Connection!DescriptorHasOneOwner
  <2> QED
    BY <2>4, <2>5, <2>6 DEF ConnectionInv
<1>4. CASE fd' = "closed" /\ UNCHANGED <<connector, registered, kernel, cn_jobs>>
  <2>1. CnJobs' = CnJobs
    BY <1>4 DEF CnJobs
  <2>4. CnTypes'
    BY <1>1, <1>4 DEF ConnectionInv, CnTypes, Connection!TypeOK
  <2>5. CnWatched' /\ CnAgree' /\ CnIdle' /\ CnLate'
    BY <1>1, <1>4, <2>1 DEF ConnectionInv, CnWatched, CnAgree, CnIdle, CnLate
  <2>6. CnLife' /\ Connection!DescriptorHasOneOwner'
    BY <1>1, <1>4, <2>1 DEF ConnectionInv, CnLife, CnBad, Connection!DescriptorHasOneOwner
  <2> QED
    BY <2>4, <2>5, <2>6 DEF ConnectionInv
<1> QED
  BY <1>2, <1>3, <1>4 DEF Connection!BConnectorInit


(* The connector learns the result, tells it, and is freed. *)
LEMMA ConnectorKeeps ==
  ASSUME ConnectionInv,
         \/ Connection!ConnectorFdHandler \/ Connection!ConnectorJobHandler
         \/ Connection!BConnectorFree
  PROVE  ConnectionInv'
<1>1. /\ UNCHANGED <<con, inits, is_hupd, wait, send, recv, sendIf, recvIf, spent, kernel>>
      /\ connector \in Connection!Connectors /\ cn_jobs \in Seq(Connection!JobNames) /\ Once(cn_jobs)
  BY DEF Connection!ConnectorFdHandler, Connection!ConnectorJobHandler, Connection!BConnectorFree,
     ConnectionInv, CnTypes, Connection!TypeOK
<1>2. CASE Connection!ConnectorFdHandler
  <2>1. /\ registered = "connector" /\ registered' = "none" /\ result' = {}
        /\ cn_jobs' = cn_jobs /\ CnJobs' = CnJobs /\ fd' = fd
    BY <1>2 DEF Connection!ConnectorFdHandler, CnJobs
  <2>2. PICK ok \in {kernel.link # "refused", FALSE} :
          connector' = [connector EXCEPT !.have_bfd = FALSE, !.connected = ok, !.told = ok]
    BY <1>2 DEF Connection!ConnectorFdHandler
  <2>3. ok \in BOOLEAN
    OBVIOUS
  <2>4. connector' \in Connection!Connectors /\ connector'.fd = connector.fd /\ connector'.have_bfd = FALSE
    BY <1>1, <2>2, <2>3 DEF Connection!Connectors
  <2>5. CnTypes'
    BY <1>1, <2>1, <2>4 DEF ConnectionInv, CnTypes, Connection!TypeOK
  <2>6. CnWatched' /\ CnAgree' /\ CnIdle' /\ CnLate'
    BY <1>1, <2>1 DEF ConnectionInv, CnWatched, CnAgree, CnIdle, CnLate, CnBad
  <2>7. fd # "none"
    BY <2>1 DEF ConnectionInv, CnLife, Connection!DescriptorHasOneOwner
  <2>8. CnLife' /\ Connection!DescriptorHasOneOwner'
    BY <1>1, <2>1, <2>4, <2>7 DEF ConnectionInv, CnLife, CnBad, Connection!DescriptorHasOneOwner
  <2> QED
    BY <2>5, <2>6, <2>8 DEF ConnectionInv
<1>3. CASE Connection!ConnectorJobHandler
  <2>1. /\ cn_jobs # <<>> /\ Head(cn_jobs) = "connector" /\ cn_jobs' = Tail(cn_jobs)
        /\ connector' = [connector EXCEPT !.told = TRUE] /\ UNCHANGED <<fd, registered, result>>
    BY <1>3 DEF Connection!ConnectorJobHandler
  <2>2. /\ cn_jobs' \in Seq(Connection!JobNames) /\ Once(cn_jobs') /\ "connector" \in CnJobs
        /\ CnJobs' = CnJobs \ {"connector"}
    BY <1>1, <2>1, TailElements DEF CnJobs
  <2>4. connector' \in Connection!Connectors /\ connector'.fd = connector.fd
        /\ connector'.have_bfd = connector.have_bfd /\ connector'.connected = connector.connected
    BY <1>1, <2>1 DEF Connection!Connectors
  <2>5. CnTypes'
    BY <1>1, <2>1, <2>2, <2>4 DEF ConnectionInv, CnTypes, Connection!TypeOK
  <2>6. CnWatched' /\ CnAgree' /\ CnIdle' /\ CnLate'
    BY <1>1, <2>1, <2>2 DEF ConnectionInv, CnWatched, CnAgree, CnIdle, CnLate, CnBad
  <2>8. CnLife' /\ Connection!DescriptorHasOneOwner'
    BY <1>1, <2>1, <2>2, <2>4 DEF ConnectionInv, CnLife, CnBad, Connection!DescriptorHasOneOwner
  <2> QED
    BY <2>5, <2>6, <2>8 DEF ConnectionInv
<1>4. CASE Connection!BConnectorFree
  <2>1. /\ con \in {"none", "freed"}
        /\ connector' = [connector EXCEPT !.alive = FALSE, !.fd = FALSE, !.have_bfd = FALSE,
                                          !.told = FALSE]
        /\ registered' = IF connector.have_bfd THEN "none" ELSE registered
        /\ result' = IF connector.have_bfd THEN {} ELSE result
        /\ IF connector.fd THEN Connection!Close ELSE UNCHANGED fd
        /\ cn_jobs' = Connection!RemoveFirst(cn_jobs, "connector")
    BY <1>4 DEF Connection!BConnectorFree
  <2>2. /\ cn_jobs' \in Seq(Connection!JobNames) /\ Once(cn_jobs')
        /\ CnJobs' = CnJobs \ {"connector"}
    BY <1>1, <2>1, RemoveFirstElements DEF CnJobs
  <2>4. connector' \in Connection!Connectors /\ connector'.fd = FALSE
        /\ connector'.have_bfd = FALSE /\ connector'.connected = connector.connected
        /\ connector'.told = FALSE
    BY <1>1, <2>1 DEF Connection!Connectors
  <2>a. fd' \in {"none", "open", "closed", "closed twice"} /\ registered' \in {"none", "connector", "connection"}
        /\ result' \subseteq result
    BY <2>1 DEF Connection!Close, ConnectionInv, CnTypes, Connection!TypeOK
  <2>5. CnTypes'
    BY <1>1, <2>1, <2>2, <2>4, <2>a DEF ConnectionInv, CnTypes, Connection!TypeOK
  <2>6. CnWatched' /\ CnAgree' /\ CnIdle' /\ CnLate'
    BY <1>1, <2>1, <2>2 DEF ConnectionInv, CnWatched, CnAgree, CnIdle, CnLate, CnBad
  <2>7. fd' # "closed twice" /\ fd' # "open" /\ (fd' = "none" => fd = "none")
    BY <2>1 DEF ConnectionInv, Connection!DescriptorHasOneOwner, Connection!Close
  <2>8. CnLife' /\ Connection!DescriptorHasOneOwner'
    BY <1>1, <2>1, <2>2, <2>4, <2>7, <2>a DEF ConnectionInv, CnLife, CnBad, Connection!DescriptorHasOneOwner
  <2> QED
    BY <2>5, <2>6, <2>8 DEF ConnectionInv
<1> QED
  BY <1>2, <1>3, <1>4

(* BConnection_Init and BConnection_Free: the descriptor changes hands and is
   closed. *)
LEMMA OwnerKeeps ==
  ASSUME ConnectionInv, Connection!BConnectionInit \/ Connection!BConnectionFree
  PROVE  ConnectionInv'
<1>1. /\ UNCHANGED <<inits, is_hupd, wait, send, recv, sendIf, recvIf, spent, kernel, cn_jobs>>
      /\ CnJobs' = CnJobs
      /\ connector \in Connection!Connectors
  BY DEF Connection!BConnectionInit, Connection!BConnectionFree, CnJobs,
     ConnectionInv, CnTypes, Connection!TypeOK
<1>2. CASE Connection!BConnectionInit
  <2>1. /\ connector.told /\ connector.fd /\ connector' = [connector EXCEPT !.fd = FALSE]
        /\ \/ con' = "live" /\ registered' = "connection" /\ UNCHANGED fd
           \/ Connection!Close /\ UNCHANGED <<con, registered>>
        /\ result' = result
    BY <1>2 DEF Connection!BConnectionInit
  <2>2. /\ con = "none" /\ fd = "open" /\ send = "NOT_INITED" /\ recv = "NOT_INITED"
        /\ sendIf = "NONE" /\ recvIf = "NONE" /\ wait = {} /\ is_hupd = FALSE /\ ~CnBad
        /\ connector.have_bfd = FALSE /\ registered = "none" /\ "recv" \notin CnJobs
    BY <1>1, <2>1 DEF ConnectionInv, CnLife, CnIdle, Connection!DescriptorHasOneOwner, CnTypes,
       Connection!TypeOK
  <2>4. /\ connector' \in Connection!Connectors
        /\ connector'.fd = FALSE /\ connector'.have_bfd = FALSE
        /\ connector'.connected = connector.connected /\ connector'.told = connector.told
    BY <1>1, <2>1, <2>2 DEF Connection!Connectors
  <2>5. CnTypes'
    BY <1>1, <2>1, <2>4 DEF ConnectionInv, CnTypes, Connection!TypeOK, Connection!Close
  <2>6. CnWatched' /\ CnAgree' /\ CnIdle' /\ CnLate'
    BY <1>1, <2>1, <2>2 DEF ConnectionInv, CnWatched, CnAgree, CnIdle, CnLate, CnBad
  <2>8. CnLife' /\ Connection!DescriptorHasOneOwner'
    BY <1>1, <2>1, <2>2, <2>4 DEF ConnectionInv, CnLife, CnBad, Connection!DescriptorHasOneOwner,
       Connection!Close
  <2> QED
    BY <2>5, <2>6, <2>8 DEF ConnectionInv
<1>3. CASE Connection!BConnectionFree
  <2>1. /\ con \in {"live", "error"} /\ send = "NOT_INITED" /\ recv = "NOT_INITED" /\ con' = "freed"
        /\ IF is_hupd THEN UNCHANGED <<registered, result>> ELSE registered' = "none" /\ result' = {}
        /\ Connection!Close /\ connector' = connector
    BY <1>3 DEF Connection!BConnectionFree
  <2>2. fd = "open" /\ fd' = "closed" /\ result' \subseteq result
    BY <2>1 DEF Connection!Close, ConnectionInv, Connection!DescriptorHasOneOwner
  <2>3. registered' = "none"
    BY <2>1 DEF ConnectionInv, CnTypes, Connection!TypeOK, Connection!DescriptorHasOneOwner
  <2>5. CnTypes'
    BY <1>1, <2>1, <2>2, <2>3 DEF ConnectionInv, CnTypes, Connection!TypeOK
  <2>6. CnWatched' /\ CnAgree' /\ CnIdle' /\ CnLate'
    BY <1>1, <2>1, <2>2 DEF ConnectionInv, CnWatched, CnAgree, CnIdle, CnLate, CnBad
  <2>8. CnLife' /\ Connection!DescriptorHasOneOwner'
    BY <1>1, <2>1, <2>2, <2>3 DEF ConnectionInv, CnLife, CnBad, Connection!DescriptorHasOneOwner
  <2> QED
    BY <2>5, <2>6, <2>8 DEF ConnectionInv
<1> QED
  BY <1>2, <1>3

(* The interfaces are initialised, used and freed; a free withdraws their jobs. *)
LEMMA UserKeeps ==
  ASSUME Connection!ConnectionAssumption, ConnectionInv,
         \/ Connection!SendAsyncInit \/ Connection!RecvAsyncInit
         \/ Connection!SendAsyncFree \/ Connection!RecvAsyncFree
         \/ Connection!SenderSend \/ Connection!ReceiverRecv
  PROVE  ConnectionInv'
<1> USE DEF Connection!user
<1>1. /\ UNCHANGED <<connector, con, is_hupd, spent, kernel, fd, registered, result>>
      /\ con \in {"live", "error"}
      /\ cn_jobs \in Seq(Connection!JobNames) /\ Once(cn_jobs)
      /\ wait \subseteq {"READ", "WRITE"}
      /\ inits \in Connection!Counts(MaxInits) /\ MaxInits \in Nat
  BY DEF Connection!SendAsyncInit, Connection!RecvAsyncInit, Connection!SendAsyncFree,
     Connection!RecvAsyncFree, Connection!SenderSend, Connection!ReceiverRecv,
     ConnectionInv, CnTypes, Connection!TypeOK, Connection!ConnectionAssumption
<1>2. Connection!DescriptorHasOneOwner'
  BY <1>1 DEF ConnectionInv, Connection!DescriptorHasOneOwner
<1>3. CASE Connection!SendAsyncInit
  <2>1. /\ con = "live" /\ send = "NOT_INITED" /\ send' = "READY" /\ sendIf' = "NONE"
        /\ inits.send < MaxInits /\ inits' = [inits EXCEPT !.send = @ + 1]
        /\ UNCHANGED <<wait, recv, recvIf, cn_jobs>> /\ CnJobs' = CnJobs
    BY <1>3 DEF Connection!SendAsyncInit, CnJobs
  <2>2. inits' \in Connection!Counts(MaxInits)
    BY <1>1, <2>1 DEF Connection!Counts
  <2>3. CnTypes'
    BY <1>1, <2>1, <2>2 DEF ConnectionInv, CnTypes, Connection!TypeOK, Connection!IfStates
  <2>4. CnWatched' /\ CnAgree' /\ CnIdle' /\ CnLate' /\ CnLife'
    BY <1>1, <2>1 DEF ConnectionInv, CnWatched, CnAgree, CnIdle, CnLate, CnLife, CnBad
  <2> QED
    BY <1>2, <2>3, <2>4 DEF ConnectionInv
<1>4. CASE Connection!RecvAsyncInit
  <2>1. /\ con = "live" /\ recv = "NOT_INITED" /\ recv' = "READY" /\ recvIf' = "NONE"
        /\ inits.recv < MaxInits /\ inits' = [inits EXCEPT !.recv = @ + 1]
        /\ UNCHANGED <<wait, send, sendIf, cn_jobs>> /\ CnJobs' = CnJobs
    BY <1>4 DEF Connection!RecvAsyncInit, CnJobs
  <2>2. inits' \in Connection!Counts(MaxInits)
    BY <1>1, <2>1 DEF Connection!Counts
  <2>3. CnTypes'
    BY <1>1, <2>1, <2>2 DEF ConnectionInv, CnTypes, Connection!TypeOK, Connection!IfStates
  <2>4. CnWatched' /\ CnAgree' /\ CnIdle' /\ CnLate' /\ CnLife'
    BY <1>1, <2>1 DEF ConnectionInv, CnWatched, CnAgree, CnIdle, CnLate, CnLife, CnBad
  <2> QED
    BY <1>2, <2>3, <2>4 DEF ConnectionInv
<1>5. CASE Connection!SendAsyncFree
  <2>1. /\ send' = "NOT_INITED" /\ sendIf' = "NONE" /\ send \in {"READY", "BUSY"}
        /\ wait' = (IF is_hupd THEN wait ELSE wait \ {"WRITE"})
        /\ cn_jobs' = Connection!RemoveFirst(Connection!RemoveFirst(cn_jobs, "sendOp"), "sendDone")
        /\ UNCHANGED <<inits, recv, recvIf>>
    BY <1>5 DEF Connection!SendAsyncFree
  <2> DEFINE js == Connection!RemoveFirst(cn_jobs, "sendOp")
  <2>2. js \in Seq(Connection!JobNames) /\ Once(js) /\ Elements(js) = CnJobs \ {"sendOp"}
    BY <1>1, RemoveFirstElements DEF CnJobs
  <2>3. cn_jobs' = Connection!RemoveFirst(js, "sendDone")
    BY <2>1
  <2> HIDE DEF js
  <2>4. /\ cn_jobs' \in Seq(Connection!JobNames) /\ Once(cn_jobs')
        /\ CnJobs' = Elements(js) \ {"sendDone"}
    BY <2>2, <2>3, RemoveFirstElements DEF CnJobs
  <2>5. CnJobs' = CnJobs \ {"sendOp", "sendDone"}
    BY <2>2, <2>4
  <2>6. CnTypes'
    BY <1>1, <2>1, <2>4 DEF ConnectionInv, CnTypes, Connection!TypeOK, Connection!IfStates
  <2>7. CnWatched' /\ CnAgree' /\ CnIdle' /\ CnLate' /\ CnLife'
    BY <1>1, <2>1, <2>5 DEF ConnectionInv, CnWatched, CnAgree, CnIdle, CnLate, CnLife, CnBad
  <2> QED
    BY <1>2, <2>6, <2>7 DEF ConnectionInv
<1>6. CASE Connection!RecvAsyncFree
  <2>1. /\ recv' = "NOT_INITED" /\ recvIf' = "NONE"
        /\ wait' = (IF is_hupd THEN wait ELSE wait \ {"READ"})
        /\ cn_jobs' = Connection!RemoveFirst(Connection!RemoveFirst(
                        Connection!RemoveFirst(cn_jobs, "recv"), "recvOp"), "recvDone")
        /\ UNCHANGED <<inits, send, sendIf>>
    BY <1>6 DEF Connection!RecvAsyncFree
  <2> DEFINE js == Connection!RemoveFirst(cn_jobs, "recv")
             ks == Connection!RemoveFirst(js, "recvOp")
  <2>2. js \in Seq(Connection!JobNames) /\ Once(js) /\ Elements(js) = CnJobs \ {"recv"}
    BY <1>1, RemoveFirstElements DEF CnJobs
  <2>a. cn_jobs' = Connection!RemoveFirst(ks, "recvDone")
    BY <2>1
  <2> HIDE DEF js
  <2>3. ks \in Seq(Connection!JobNames) /\ Once(ks) /\ Elements(ks) = Elements(js) \ {"recvOp"}
    BY <2>2, RemoveFirstElements
  <2> HIDE DEF ks
  <2>4. /\ cn_jobs' \in Seq(Connection!JobNames) /\ Once(cn_jobs')
        /\ CnJobs' = Elements(ks) \ {"recvDone"}
    BY <2>3, <2>a, RemoveFirstElements DEF CnJobs
  <2>5. CnJobs' = CnJobs \ {"recv", "recvOp", "recvDone"}
    BY <2>2, <2>3, <2>4
  <2>6. CnTypes'
    BY <1>1, <2>1, <2>4 DEF ConnectionInv, CnTypes, Connection!TypeOK, Connection!IfStates
  <2>7. CnWatched' /\ CnAgree' /\ CnIdle' /\ CnLate' /\ CnLife'
    BY <1>1, <2>1, <2>5 DEF ConnectionInv, CnWatched, CnAgree, CnIdle, CnLate, CnLife, CnBad
  <2> QED
    BY <1>2, <2>6, <2>7 DEF ConnectionInv
<1>7. CASE Connection!SenderSend
  <2>1. /\ send # "NOT_INITED" /\ sendIf = "NONE" /\ sendIf' = "OPERATION_PENDING"
        /\ cn_jobs' = <<"sendOp">> \o cn_jobs /\ UNCHANGED <<inits, wait, send, recv, recvIf>>
    BY <1>7 DEF Connection!SenderSend
  <2>2. "sendOp" \notin Elements(cn_jobs)
    BY <2>1 DEF ConnectionInv, CnAgree, CnJobs
  <2>3. /\ cn_jobs' \in Seq(Connection!JobNames) /\ Once(cn_jobs') /\ CnJobs' = {"sendOp"} \cup CnJobs
    BY <1>1, <2>1, <2>2, JobInFront DEF CnJobs, Connection!JobNames
  <2>6. CnTypes'
    BY <1>1, <2>1, <2>3, ZenonT(60) DEF ConnectionInv, CnTypes, Connection!TypeOK, Connection!IfStates
  <2>7. CnWatched' /\ CnAgree' /\ CnIdle' /\ CnLate' /\ CnLife'
    BY <1>1, <2>1, <2>3 DEF ConnectionInv, CnWatched, CnAgree, CnIdle, CnLate, CnLife, CnBad
  <2> QED
    BY <1>2, <2>6, <2>7 DEF ConnectionInv
<1>8. CASE Connection!ReceiverRecv
  <2>1. /\ recv # "NOT_INITED" /\ recvIf = "NONE" /\ recvIf' = "OPERATION_PENDING"
        /\ cn_jobs' = <<"recvOp">> \o cn_jobs /\ UNCHANGED <<inits, wait, send, recv, sendIf>>
    BY <1>8 DEF Connection!ReceiverRecv
  <2>2. "recvOp" \notin Elements(cn_jobs)
    BY <2>1 DEF ConnectionInv, CnAgree, CnJobs
  <2>3. /\ cn_jobs' \in Seq(Connection!JobNames) /\ Once(cn_jobs') /\ CnJobs' = {"recvOp"} \cup CnJobs
    BY <1>1, <2>1, <2>2, JobInFront DEF CnJobs, Connection!JobNames
  <2>6. CnTypes'
    BY <1>1, <2>1, <2>3, ZenonT(60) DEF ConnectionInv, CnTypes, Connection!TypeOK, Connection!IfStates
  <2>7. CnWatched' /\ CnAgree' /\ CnIdle' /\ CnLate' /\ CnLife'
    BY <1>1, <2>1, <2>3 DEF ConnectionInv, CnWatched, CnAgree, CnIdle, CnLate, CnLife, CnBad
  <2> QED
    BY <1>2, <2>6, <2>7 DEF ConnectionInv
<1> QED
  BY <1>3, <1>4, <1>5, <1>6, <1>7, <1>8


(* The jobs of the interfaces. *)
LEMMA JobsKeep ==
  ASSUME Connection!ConnectionAssumption, ConnectionInv, Connection!SendJobs \/ Connection!RecvJobs
  PROVE  ConnectionInv'
<1> USE DEF Connection!user
<1> DEFINE js == Tail(cn_jobs)
<1>1. /\ cn_jobs # <<>> /\ con # "error" /\ UNCHANGED <<is_hupd, registered, result>>
      /\ cn_jobs \in Seq(Connection!JobNames) /\ Once(cn_jobs) /\ is_hupd \in BOOLEAN
      /\ wait \subseteq {"READ", "WRITE"}
  BY DEF Connection!SendJobs, Connection!RecvJobs, Connection!LoopRuns,
     ConnectionInv, CnTypes, Connection!TypeOK
<1>2. /\ js \in Seq(Connection!JobNames) /\ Once(js) /\ Head(cn_jobs) \in CnJobs
      /\ Elements(js) = CnJobs \ {Head(cn_jobs)}
  BY <1>1, TailElements DEF CnJobs
<1> HIDE DEF js
<1>3. CASE Head(cn_jobs) = "sendOp" /\ Connection!ConnectionSend(wait, is_hupd, js)
  <2>1. /\ send = "READY" /\ sendIf = "OPERATION_PENDING" /\ "sendDone" \notin Elements(js)
        /\ con = "live"
    BY <1>1, <1>2, <1>3 DEF ConnectionInv, CnAgree, CnIdle, CnLife, CnTypes, Connection!TypeOK
  <2>2. /\ UNCHANGED <<connector, inits, recv, recvIf, fd>>
        /\ spent' \in Connection!Counts(IoLimit) /\ spent'.recv = spent.recv
        /\ kernel' \in Connection!Kernels /\ kernel'.link = kernel.link
        /\ cn_jobs' \in Seq(Connection!JobNames) /\ Once(cn_jobs')
        /\ \/ /\ kernel.link # "reset" /\ wait' = wait /\ con' = con
              /\ send' = "READY" /\ sendIf' = "DONE_PENDING"
              /\ CnJobs' = {"sendDone"} \cup Elements(js)
           \/ /\ ~is_hupd /\ (kernel.link = "reset" => spent.send = IoLimit)
              /\ wait' = wait \cup {"WRITE"} /\ con' = con
              /\ send' = "BUSY" /\ sendIf' = "BUSY" /\ CnJobs' = Elements(js)
           \/ /\ con' = "error" /\ wait' = wait
              /\ send' = "BUSY" /\ sendIf' = "BUSY" /\ CnJobs' = Elements(js)
    BY <1>1, <1>2, <1>3, <2>1, SendEffect DEF ConnectionInv
  <2>3. CnTypes'
    BY <1>1, <2>2, ZenonT(60) DEF ConnectionInv, CnTypes, Connection!TypeOK, Connection!IfStates
  <2>4. CnWatched' /\ CnAgree' /\ CnIdle'
    BY <1>1, <1>2, <1>3, <2>1, <2>2 DEF ConnectionInv, CnWatched, CnAgree, CnIdle
  <2>5. CnLife' /\ Connection!DescriptorHasOneOwner'
    BY <1>1, <1>2, <1>3, <2>1, <2>2 DEF ConnectionInv, CnLife, CnBad, Connection!DescriptorHasOneOwner
  <2>6. CnLate'
    <3>1. con' = "live" => ~CnBad
      BY <1>1, <2>1, <2>2 DEF ConnectionInv, CnLate, Connection!ConnectionAssumption
    <3> QED
      BY <1>1, <3>1 DEF CnLate, CnBad
  <2> QED
    BY <2>3, <2>4, <2>5, <2>6 DEF ConnectionInv
<1>4. CASE /\ Head(cn_jobs) = "sendDone" /\ sendIf' = "NONE" /\ cn_jobs' = js
           /\ UNCHANGED <<connector, con, inits, wait, send, recv, recvIf, spent, fd, kernel>>
  <2>1. CnJobs' = CnJobs \ {"sendDone"}
    BY <1>2, <1>4 DEF CnJobs
  <2>3. CnTypes'
    BY <1>1, <1>2, <1>4, ZenonT(60) DEF ConnectionInv, CnTypes, Connection!TypeOK, Connection!IfStates
  <2>4. CnWatched' /\ CnAgree' /\ CnIdle' /\ CnLate'
    BY <1>1, <1>2, <1>4, <2>1 DEF ConnectionInv, CnWatched, CnAgree, CnIdle, CnLate, CnBad
  <2>5. CnLife' /\ Connection!DescriptorHasOneOwner'
    BY <1>1, <1>2, <1>4, <2>1 DEF ConnectionInv, CnLife, CnBad, Connection!DescriptorHasOneOwner
  <2> QED
    BY <2>3, <2>4, <2>5 DEF ConnectionInv
<1>5. CASE Head(cn_jobs) \in {"recvOp", "recv"} /\ Connection!ConnectionRecv(wait, is_hupd, js)
  <2>1. /\ "recvDone" \notin Elements(js) /\ "recvOp" \notin Elements(js) /\ "recv" \notin Elements(js)
        /\ con = "live" /\ recv # "NOT_INITED"
    BY <1>1, <1>2, <1>5 DEF ConnectionInv, CnAgree, CnIdle, CnLife, CnTypes, Connection!TypeOK
  <2>2. /\ UNCHANGED <<connector, inits, send, sendIf, fd>>
        /\ spent' \in Connection!Counts(IoLimit) /\ spent'.send = spent.send
        /\ kernel' \in Connection!Kernels /\ kernel'.link = kernel.link
        /\ cn_jobs' \in Seq(Connection!JobNames) /\ Once(cn_jobs')
        /\ \/ /\ is_hupd \/ spent.recv # IoLimit
              /\ wait' = wait /\ con' = con /\ recv' = "READY" /\ recvIf' = "DONE_PENDING"
              /\ CnJobs' = {"recvDone"} \cup Elements(js)
           \/ /\ is_hupd \/ spent.recv # IoLimit
              /\ wait' = wait /\ con' = con /\ recv' = "INITED_CLOSED" /\ recvIf' = "BUSY"
              /\ CnJobs' = Elements(js)
           \/ /\ ~is_hupd /\ (kernel.link = "reset" => spent'.recv = IoLimit)
              /\ wait' = wait \cup {"READ"} /\ con' = con
              /\ recv' = "BUSY" /\ recvIf' = "BUSY" /\ CnJobs' = Elements(js)
           \/ /\ con' = "error" /\ wait' = wait
              /\ recv' = "BUSY" /\ recvIf' = "BUSY" /\ CnJobs' = Elements(js)
    BY <1>1, <1>2, <1>5, <2>1, RecvEffect DEF ConnectionInv
  <2>3. CnTypes'
    BY <1>1, <2>2, ZenonT(60) DEF ConnectionInv, CnTypes, Connection!TypeOK, Connection!IfStates
  <2>a. is_hupd \/ "READ" \notin wait
    BY <1>1, <1>2, <1>5, <2>1 DEF ConnectionInv, CnAgree, CnWatched
  <2>4. CnWatched' /\ CnAgree' /\ CnIdle'
    BY <1>1, <1>2, <1>5, <2>1, <2>2, <2>a DEF ConnectionInv, CnWatched, CnAgree, CnIdle
  <2>5. CnLife' /\ Connection!DescriptorHasOneOwner'
    BY <1>1, <1>2, <1>5, <2>1, <2>2 DEF ConnectionInv, CnLife, CnBad, Connection!DescriptorHasOneOwner
  <2>6. CnLate'
    BY <1>1, <2>1, <2>2 DEF ConnectionInv, CnLate, CnBad
  <2> QED
    BY <2>3, <2>4, <2>5, <2>6 DEF ConnectionInv
<1>6. CASE /\ Head(cn_jobs) = "recvDone" /\ recvIf' = "NONE" /\ cn_jobs' = js
           /\ UNCHANGED <<connector, con, inits, wait, send, recv, sendIf, spent, fd, kernel>>
  <2>1. CnJobs' = CnJobs \ {"recvDone"}
    BY <1>2, <1>6 DEF CnJobs
  <2>3. CnTypes'
    BY <1>1, <1>2, <1>6, ZenonT(60) DEF ConnectionInv, CnTypes, Connection!TypeOK, Connection!IfStates
  <2>4. CnWatched' /\ CnAgree' /\ CnIdle' /\ CnLate'
    BY <1>1, <1>2, <1>6, <2>1 DEF ConnectionInv, CnWatched, CnAgree, CnIdle, CnLate, CnBad
  <2>5. CnLife' /\ Connection!DescriptorHasOneOwner'
    BY <1>1, <1>2, <1>6, <2>1 DEF ConnectionInv, CnLife, CnBad, Connection!DescriptorHasOneOwner
  <2> QED
    BY <2>3, <2>4, <2>5 DEF ConnectionInv
<1>7. \/ Head(cn_jobs) = "sendOp" /\ Connection!ConnectionSend(wait, is_hupd, js)
      \/ /\ Head(cn_jobs) = "sendDone" /\ sendIf' = "NONE" /\ cn_jobs' = js
         /\ UNCHANGED <<connector, con, inits, wait, send, recv, recvIf, spent, fd, kernel>>
      \/ Head(cn_jobs) \in {"recvOp", "recv"} /\ Connection!ConnectionRecv(wait, is_hupd, js)
      \/ /\ Head(cn_jobs) = "recvDone" /\ recvIf' = "NONE" /\ cn_jobs' = js
         /\ UNCHANGED <<connector, con, inits, wait, send, recv, sendIf, spent, fd, kernel>>
  BY DEF Connection!SendJobs, Connection!RecvJobs, js
<1> QED
  BY <1>3, <1>4, <1>5, <1>6, <1>7

(* epoll_wait, the connection that comes about, and the other end. *)
LEMMA KernelKeeps ==
  ASSUME Connection!ConnectionAssumption, ConnectionInv,
         Connection!EpollWait \/ Connection!Connects \/ Connection!Peer
  PROVE  ConnectionInv'
<1> USE DEF Connection!user
<1>1. /\ UNCHANGED <<connector, con, inits, is_hupd, wait, send, recv, sendIf, recvIf, cn_jobs, fd,
                     registered>>
      /\ CnJobs' = CnJobs /\ kernel \in Connection!Kernels /\ spent \in Connection!Counts(IoLimit)
      /\ IoLimit \in Nat /\ Room \in Nat /\ MaxArrivals \in Nat
  BY DEF Connection!EpollWait, Connection!Connects, Connection!Peer, CnJobs,
     ConnectionInv, CnTypes, Connection!TypeOK, Connection!ConnectionAssumption
<1>2. CnWatched' /\ CnAgree' /\ CnIdle' /\ Connection!DescriptorHasOneOwner'
  BY <1>1 DEF ConnectionInv, CnWatched, CnAgree, CnIdle, Connection!DescriptorHasOneOwner
<1>3. CASE Connection!EpollWait
  <2>1. /\ cn_jobs = <<>> /\ con # "error" /\ spent' = [send |-> 0, recv |-> 0] /\ kernel' = kernel
        /\ \E bad \in IF Connection!Reset /\ registered = "connection"
                      THEN {{"ERROR"}, {"HUP"}, {"ERROR", "HUP"}} ELSE {{}} :
             \E got \in {Connection!Ready \cup bad, {}} : result' = got
    BY <1>3 DEF Connection!EpollWait, Connection!LoopRuns
  <2>2. Connection!Ready \subseteq {"READ", "WRITE"}
    BY DEF Connection!Ready
  <2>3. /\ result' \subseteq {"READ", "WRITE", "ERROR", "HUP"}
        /\ CnBad' => /\ kernel.link = "reset" /\ registered = "connection"
                     /\ Connection!Ready \subseteq result'
    <3>1. CASE Connection!Reset /\ registered = "connection"
      BY <2>1, <2>2, <3>1 DEF CnBad, Connection!Reset
    <3>2. CASE ~(Connection!Reset /\ registered = "connection")
      BY <2>1, <2>2, <3>2 DEF CnBad
    <3> QED
      BY <3>1, <3>2
  <2>4. spent' \in Connection!Counts(IoLimit) /\ spent'.send = 0
    BY <1>1, <2>1 DEF Connection!Counts
  <2>5. CnTypes'
    BY <1>1, <2>1, <2>3, <2>4 DEF ConnectionInv, CnTypes, Connection!TypeOK
  <2>6. CnLife'
    BY <1>1, <2>1, <2>3 DEF ConnectionInv, CnLife, CnBad, Connection!DescriptorHasOneOwner
  <2>7. CnLate'
    <3>1. SUFFICES ASSUME con = "live", CnBad'
                   PROVE  ~is_hupd /\ kernel.link = "reset" /\ (recv = "BUSY" => "READ" \in result')
      BY <1>1, <2>1, <2>4 DEF CnLate
    <3>2. "recv" \notin CnJobs
      BY <2>1 DEF CnJobs, Elements
    <3>3. ~is_hupd
      BY <2>3, <3>1 DEF ConnectionInv, Connection!DescriptorHasOneOwner
    <3>4. recv = "BUSY" => "READ" \in Connection!Ready
      BY <2>3, <3>1, <3>2, <3>3 DEF ConnectionInv, CnWatched, Connection!Ready, Connection!Reset
    <3> QED
      BY <2>3, <3>1, <3>3, <3>4
  <2> QED
    BY <1>2, <2>5, <2>6, <2>7 DEF ConnectionInv
<1>4. CASE Connection!Connects \/ Connection!Peer
  <2>1. spent' = spent /\ result' = result
    BY <1>4 DEF Connection!Connects, Connection!Peer
  <2>2. kernel' \in Connection!Kernels /\ (kernel.link = "reset" => kernel'.link = "reset")
    <3>1. CASE Connection!Connects
      <4>1. PICK l \in {"up", "refused"} : kernel' = [kernel EXCEPT !.link = l]
        BY <3>1 DEF Connection!Connects
      <4>2. kernel.link # "reset"
        BY <3>1 DEF Connection!Connects
      <4> QED
        BY <1>1, <4>1, <4>2 DEF Connection!Kernels
    <3>2. CASE Connection!Peer
      <4>1. kernel.link = "up"
            /\ \/ /\ kernel.arrived < MaxArrivals
                  /\ kernel' = [kernel EXCEPT !.in = @ + 1, !.arrived = @ + 1]
               \/ kernel' = [kernel EXCEPT !.eof = TRUE]
               \/ kernel' = [kernel EXCEPT !.room = Room]
               \/ kernel' = [kernel EXCEPT !.link = "reset"]
        BY <3>2 DEF Connection!Peer
      <4>2. CASE /\ kernel.arrived < MaxArrivals
                 /\ kernel' = [kernel EXCEPT !.in = @ + 1, !.arrived = @ + 1]
        <5>1. /\ kernel.in + 1 \in 0..MaxArrivals /\ kernel.arrived + 1 \in 0..MaxArrivals
              /\ kernel.in + 1 <= kernel.arrived + 1
          BY <1>1, <4>2 DEF Connection!Kernels
        <5> DEFINE i == kernel.in + 1
                   a == kernel.arrived + 1
        <5>2. kernel' = [kernel EXCEPT !.in = i, !.arrived = a]
          BY <4>2
        <5> HIDE DEF i, a
        <5>3. i \in 0..MaxArrivals /\ a \in 0..MaxArrivals /\ i <= a
          BY <5>1 DEF i, a
        <5> QED
          BY <1>1, <4>1, <5>2, <5>3 DEF Connection!Kernels
      <4>3. CASE kernel' = [kernel EXCEPT !.eof = TRUE]
        BY <1>1, <4>1, <4>3 DEF Connection!Kernels
      <4>4. CASE kernel' = [kernel EXCEPT !.room = Room]
        BY <1>1, <4>1, <4>4 DEF Connection!Kernels
      <4>5. CASE kernel' = [kernel EXCEPT !.link = "reset"]
        BY <1>1, <4>1, <4>5 DEF Connection!Kernels
      <4> QED
        BY <4>1, <4>2, <4>3, <4>4, <4>5
    <3> QED
      BY <1>4, <3>1, <3>2
  <2>3. CnTypes'
    BY <1>1, <2>1, <2>2 DEF ConnectionInv, CnTypes, Connection!TypeOK
  <2>4. CnLife' /\ CnLate'
    BY <1>1, <2>1, <2>2 DEF ConnectionInv, CnLife, CnLate, CnBad
  <2> QED
    BY <1>2, <2>3, <2>4 DEF ConnectionInv
<1> QED
  BY <1>3, <1>4


(* connection_fd_handler: whatever of a send and a receive is due, and whether the
   descriptor hangs up, what is left under way is watched for. *)
LEMMA FdHandlerKeeps ==
  ASSUME Connection!ConnectionAssumption, ConnectionInv, Connection!DispatchFd
  PROVE  ConnectionInv'
<1> USE DEF Connection!user
<1> DEFINE events == Connection!Events
           bad == events \cap {"ERROR", "HUP"} # {}
           hup == "HUP" \in events
           w == wait \ events
           haveSend == "WRITE" \in events \/ (bad /\ send = "BUSY")
           haveRecv == "READ" \in events \/ (bad /\ recv = "BUSY")
           js == IF haveRecv THEN <<"recv">> \o cn_jobs ELSE cn_jobs
           Nothing == /\ IF hup THEN wait' = w /\ UNCHANGED <<con, cn_jobs>>
                                ELSE Connection!ReportError(w, cn_jobs)
                      /\ UNCHANGED <<connector, inits, send, sendIf, recv, recvIf, spent, kernel, fd>>
<1>1. /\ con # "error" /\ cn_jobs = <<>> /\ registered = "connection" /\ result' = {}
      /\ CnJobs = {} /\ Once(cn_jobs) /\ cn_jobs \in Seq(Connection!JobNames)
      /\ wait \subseteq {"READ", "WRITE"} /\ result \subseteq {"READ", "WRITE", "ERROR", "HUP"}
  <2>1. con # "error" /\ cn_jobs = <<>> /\ registered = "connection" /\ result' = {}
    BY DEF Connection!DispatchFd, Connection!LoopRuns
  <2>2. /\ Once(cn_jobs) /\ cn_jobs \in Seq(Connection!JobNames)
        /\ wait \subseteq {"READ", "WRITE"} /\ result \subseteq {"READ", "WRITE", "ERROR", "HUP"}
    BY DEF ConnectionInv, CnTypes, Connection!TypeOK
  <2>3. CnJobs = {}
    BY <2>1 DEF CnJobs, Elements
  <2> QED
    BY <2>1, <2>2, <2>3
<1>2. con = "live" /\ is_hupd = FALSE
  BY <1>1 DEF ConnectionInv, CnTypes, Connection!TypeOK, Connection!DescriptorHasOneOwner
<1>3. ~CnBad'
  BY <1>1 DEF CnBad
<1>4. CASE events = {}
  <2>1. UNCHANGED <<connector, con, inits, is_hupd, wait, send, recv, sendIf, recvIf, spent, cn_jobs,
                    fd, registered, kernel>>
    BY <1>4 DEF Connection!DispatchFd
  <2>2. CnJobs' = CnJobs
    BY <2>1 DEF CnJobs
  <2>3. CnTypes'
    BY <1>1, <2>1 DEF ConnectionInv, CnTypes, Connection!TypeOK
  <2>4. CnWatched' /\ CnAgree' /\ CnIdle' /\ CnLate'
    BY <1>3, <2>1, <2>2 DEF ConnectionInv, CnWatched, CnAgree, CnIdle, CnLate
  <2>5. CnLife' /\ Connection!DescriptorHasOneOwner'
    BY <1>3, <2>1, <2>2 DEF ConnectionInv, CnLife, Connection!DescriptorHasOneOwner
  <2> QED
    BY <2>3, <2>4, <2>5 DEF ConnectionInv
<1>5. CASE events # {}
  <2>1. /\ is_hupd' = hup /\ registered' = IF hup THEN "none" ELSE registered
        /\ \/ haveSend /\ Connection!ConnectionSend(w, hup, js)
           \/ ~haveSend /\ haveRecv /\ Connection!ConnectionRecv(w, hup, cn_jobs)
           \/ ~haveSend /\ ~haveRecv /\ Nothing
    <3>1. Connection!FdHandler(Connection!Events)
      BY <1>5 DEF Connection!DispatchFd
    <3> QED
      BY <3>1 DEF Connection!FdHandler
  <2>2. /\ events \subseteq result /\ events \subseteq wait \cup {"ERROR", "HUP"}
        /\ hup <=> "HUP" \in result
        /\ bad <=> CnBad
        /\ \A e \in wait : e \in events <=> e \in result
    BY <1>1 DEF Connection!Events, CnBad
  <2>3. /\ send = "BUSY" <=> "WRITE" \in wait
        /\ recv = "BUSY" <=> "READ" \in wait
        /\ sendIf \notin {"OPERATION_PENDING", "DONE_PENDING"}
        /\ recvIf \notin {"OPERATION_PENDING", "DONE_PENDING"}
    BY <1>1, <1>2 DEF ConnectionInv, CnWatched, CnAgree
  <2>4. bad => /\ kernel.link = "reset" /\ spent.send # IoLimit
               /\ (recv = "BUSY" /\ "READ" \notin events => spent.recv = IoLimit)
    BY <1>2, <2>2, <2>3 DEF ConnectionInv, CnLate, Connection!ConnectionAssumption
  <2>5. (hup => bad) /\ w \subseteq {"READ", "WRITE"}
    BY <1>1
  <2>6. hup \in BOOLEAN
    <3> HIDE DEF events
    <3>1. (hup = TRUE) \/ (hup = FALSE)
      OBVIOUS
    <3> HIDE DEF hup
    <3> QED
      BY <3>1
  <2>7. /\ is_hupd' \in BOOLEAN /\ (is_hupd' <=> hup)
        /\ registered' = IF hup THEN "none" ELSE "connection"
    <3>1. is_hupd' = hup
      BY <2>1
    <3>2. is_hupd' \in BOOLEAN /\ (is_hupd' <=> hup)
      BY <2>6, <3>1, ZenonT(20)
    <3> QED
      BY <1>1, <2>1, <3>2
  <2>8. /\ haveSend => send = "BUSY"
        /\ haveSend /\ ~bad => "WRITE" \notin w
        /\ ~haveSend => ("WRITE" \in w <=> send = "BUSY") /\ (bad => send # "BUSY")
        /\ haveRecv => recv = "BUSY"
        /\ haveRecv => "READ" \notin w \/ (bad /\ spent.recv = IoLimit)
        /\ ~haveRecv => ("READ" \in w <=> recv = "BUSY") /\ (bad => recv # "BUSY")
    BY <2>2, <2>3, <2>4
  <2>b. bad => kernel.link = "reset" /\ spent.send # IoLimit
    BY <2>4
  <2>c. ~haveSend /\ ~haveRecv => bad
    BY <1>5, <2>2, <1>1
  <2> HIDE DEF events, w, bad, hup, haveSend, haveRecv
  <2>9. CASE haveSend /\ Connection!ConnectionSend(w, hup, js)
    <3>1. /\ js \in Seq(Connection!JobNames) /\ Once(js)
          /\ Elements(js) = IF haveRecv THEN {"recv"} ELSE {}
      <4>1. "recv" \notin Elements(cn_jobs) /\ Elements(cn_jobs) = {} /\ "recv" \in Connection!JobNames
        BY <1>1 DEF CnJobs, Connection!JobNames
      <4>2. /\ <<"recv">> \o cn_jobs \in Seq(Connection!JobNames) /\ Once(<<"recv">> \o cn_jobs)
            /\ Elements(<<"recv">> \o cn_jobs) = {"recv"} \cup Elements(cn_jobs)
        BY <1>1, <4>1, JobInFront
      <4>3. CASE haveRecv
        BY <1>1, <4>1, <4>2, <4>3
      <4>4. CASE ~haveRecv
        BY <1>1, <4>1, <4>4
      <4> QED
        BY <4>3, <4>4
    <3> HIDE DEF js
    <3>2. CnTypes /\ "sendDone" \notin Elements(js)
      BY <3>1 DEF ConnectionInv
    <3>3. /\ UNCHANGED <<connector, inits, recv, recvIf, fd>>
          /\ spent' \in Connection!Counts(IoLimit) /\ spent'.recv = spent.recv
          /\ kernel' \in Connection!Kernels /\ kernel'.link = kernel.link
          /\ cn_jobs' \in Seq(Connection!JobNames) /\ Once(cn_jobs')
          /\ \/ /\ kernel.link # "reset" /\ wait' = w /\ con' = con
                /\ send' = "READY" /\ sendIf' = "DONE_PENDING"
                /\ CnJobs' = {"sendDone"} \cup Elements(js)
             \/ /\ ~hup /\ (kernel.link = "reset" => spent.send = IoLimit)
                /\ wait' = w \cup {"WRITE"} /\ con' = con
                /\ send' = "BUSY" /\ sendIf' = "BUSY" /\ CnJobs' = Elements(js)
             \/ /\ con' = "error" /\ wait' = w
                /\ send' = "BUSY" /\ sendIf' = "BUSY" /\ CnJobs' = Elements(js)
      BY <2>6, <2>9, <3>1, <3>2, SendEffect, ZenonT(30)
    <3>4. con' # "error" => ~bad
      BY <2>b, <2>5, <3>3
    <3>5. CnTypes'
      BY <1>1, <2>5, <2>7, <3>3 DEF ConnectionInv, CnTypes, Connection!TypeOK, Connection!IfStates
    <3>6. CnWatched' /\ CnAgree' /\ CnIdle'
      <4>0. /\ recv' = recv /\ recvIf' = recvIf /\ CnJobs' \subseteq {"recv", "sendDone"}
            /\ "recv" \in CnJobs' => haveRecv
            /\ \/ send' = "READY" /\ sendIf' = "DONE_PENDING" /\ "sendDone" \in CnJobs'
               \/ send' = "BUSY" /\ sendIf' = "BUSY" /\ "sendDone" \notin CnJobs'
        BY <3>1, <3>3
      <4>1. CnWatched'
        BY <1>1, <1>2, <2>3, <2>5, <2>7, <2>8, <2>9, <3>1, <3>3, <3>4
           DEF ConnectionInv, CnWatched, CnAgree, CnIdle
      <4>2. CnAgree'
        BY <2>3, <4>0 DEF ConnectionInv, CnAgree
      <4>3. CnIdle'
        BY <2>8, <4>0 DEF ConnectionInv, CnIdle
      <4> QED
        BY <4>1, <4>2, <4>3
    <3>7. CnLife' /\ Connection!DescriptorHasOneOwner' /\ CnLate'
      BY <1>1, <1>2, <1>3, <2>7, <3>1, <3>3
         DEF ConnectionInv, CnLife, CnLate, Connection!DescriptorHasOneOwner
    <3> QED
      BY <3>5, <3>6, <3>7 DEF ConnectionInv
  <2>10. CASE ~haveSend /\ haveRecv /\ Connection!ConnectionRecv(w, hup, cn_jobs)
    <3>1. "recvDone" \notin Elements(cn_jobs) /\ Elements(cn_jobs) = {}
      BY <1>1 DEF CnJobs
    <3>2. CnTypes /\ cn_jobs \in Seq(Connection!JobNames) /\ Once(cn_jobs)
      BY <1>1 DEF ConnectionInv
    <3>3. /\ UNCHANGED <<connector, inits, send, sendIf, fd>>
          /\ spent' \in Connection!Counts(IoLimit) /\ spent'.send = spent.send
          /\ kernel' \in Connection!Kernels /\ kernel'.link = kernel.link
          /\ cn_jobs' \in Seq(Connection!JobNames) /\ Once(cn_jobs')
          /\ \/ /\ hup \/ spent.recv # IoLimit
                /\ wait' = w /\ con' = con /\ recv' = "READY" /\ recvIf' = "DONE_PENDING"
                /\ CnJobs' = {"recvDone"} \cup Elements(cn_jobs)
             \/ /\ hup \/ spent.recv # IoLimit
                /\ wait' = w /\ con' = con /\ recv' = "INITED_CLOSED" /\ recvIf' = "BUSY"
                /\ CnJobs' = Elements(cn_jobs)
             \/ /\ ~hup /\ (kernel.link = "reset" => spent'.recv = IoLimit)
                /\ wait' = w \cup {"READ"} /\ con' = con
                /\ recv' = "BUSY" /\ recvIf' = "BUSY" /\ CnJobs' = Elements(cn_jobs)
             \/ /\ con' = "error" /\ wait' = w
                /\ recv' = "BUSY" /\ recvIf' = "BUSY" /\ CnJobs' = Elements(cn_jobs)
      BY <2>6, <2>10, <3>1, <3>2, RecvEffect, ZenonT(30)
    <3>5. CnTypes'
      BY <1>1, <2>5, <2>7, <3>3 DEF ConnectionInv, CnTypes, Connection!TypeOK, Connection!IfStates
    <3>6. CnWatched' /\ CnAgree' /\ CnIdle'
      <4>0. /\ send' = send /\ sendIf' = sendIf
            /\ \/ recv' = "READY" /\ recvIf' = "DONE_PENDING" /\ CnJobs' = {"recvDone"}
               \/ recv' \in {"BUSY", "INITED_CLOSED"} /\ recvIf' = "BUSY" /\ CnJobs' = {}
        BY <3>1, <3>3
      <4>1. CnWatched'
        BY <1>1, <1>2, <2>3, <2>5, <2>7, <2>8, <2>10, <3>1, <3>3
           DEF ConnectionInv, CnWatched, CnAgree, CnIdle
      <4>2. CnAgree'
        BY <2>3, <4>0 DEF ConnectionInv, CnAgree
      <4>3. CnIdle'
        BY <4>0 DEF ConnectionInv, CnIdle
      <4> QED
        BY <4>1, <4>2, <4>3
    <3>7. CnLife' /\ Connection!DescriptorHasOneOwner' /\ CnLate'
      BY <1>1, <1>2, <1>3, <2>7, <3>1, <3>3
         DEF ConnectionInv, CnLife, CnLate, Connection!DescriptorHasOneOwner
    <3> QED
      BY <3>5, <3>6, <3>7 DEF ConnectionInv
  <2>11. CASE ~haveSend /\ ~haveRecv /\ Nothing
    <3>1. /\ wait' = w /\ cn_jobs' = cn_jobs /\ CnJobs' = CnJobs
          /\ UNCHANGED <<connector, inits, send, sendIf, recv, recvIf, spent, kernel, fd>>
          /\ con' = IF hup THEN con ELSE "error"
      BY <2>11 DEF Connection!ReportError, CnJobs
    <3>5. CnTypes'
      BY <1>1, <1>2, <2>5, <2>7, <3>1 DEF ConnectionInv, CnTypes, Connection!TypeOK
    <3>6. CnWatched' /\ CnAgree' /\ CnIdle'
      <4>1. CnWatched'
        BY <1>1, <1>2, <2>3, <2>5, <2>7, <2>8, <2>c, <2>11, <3>1
           DEF ConnectionInv, CnWatched, CnAgree, CnIdle
      <4>2. CnAgree'
        BY <3>1 DEF ConnectionInv, CnAgree
      <4>3. CnIdle'
        BY <3>1 DEF ConnectionInv, CnIdle
      <4> QED
        BY <4>1, <4>2, <4>3
    <3>7. CnLife' /\ Connection!DescriptorHasOneOwner' /\ CnLate'
      BY <1>1, <1>2, <1>3, <2>7, <3>1
         DEF ConnectionInv, CnLife, CnLate, Connection!DescriptorHasOneOwner
    <3> QED
      BY <3>5, <3>6, <3>7 DEF ConnectionInv
  <2> QED
    BY <2>1, <2>9, <2>10, <2>11
<1> QED
  BY <1>4, <1>5

(* BConnection_unix.c, whatever the order of the calls of its user, of the jobs and
   of the events: of a live connection a direction is watched exactly while it is
   under way, so that no wake-up is lost and after a hang-up nothing is under way
   but a receive whose job is pending; the interfaces agree with the connection on
   what is under way and no job is pending twice; the descriptor has one owner, is
   closed once and known to the reactor only while it is open.  For any limits,
   any send buffer and any number of bytes. *)
THEOREM ConnectionIsSafe ==
  ASSUME Connection!ConnectionAssumption
  PROVE  Connection!Spec => []ConnectionSafe
<1>1. Connection!Init => ConnectionInv
  BY ConnectionInitInv
<1>2. ConnectionInv /\ [Connection!Next]_Connection!vars => ConnectionInv'
  <2>1. ASSUME ConnectionInv, UNCHANGED Connection!vars PROVE ConnectionInv'
    <3>1. CnTypes'
      BY <2>1, ZenonT(60) DEF Connection!vars, Connection!user, ConnectionInv, CnTypes, Connection!TypeOK
    <3>2. CnWatched' /\ CnAgree' /\ CnLife' /\ CnIdle' /\ CnLate' /\ Connection!DescriptorHasOneOwner'
      BY <2>1, ZenonT(60)
         DEF Connection!vars, Connection!user, ConnectionInv, CnWatched, CnAgree, CnLife, CnIdle,
             CnLate, CnJobs, CnBad, Connection!DescriptorHasOneOwner
    <3> QED
      BY <3>1, <3>2 DEF ConnectionInv
  <2> QED
    BY <2>1, ConnectorInitKeeps, ConnectorKeeps, OwnerKeeps, UserKeeps, JobsKeep, KernelKeeps,
       FdHandlerKeeps DEF Connection!Next, Connection!Calls, Connection!Loop
<1>3. ConnectionInv => ConnectionSafe
  BY ConnectionInvSafe
<1> QED
  BY <1>1, <1>2, <1>3, PTL DEF Connection!Spec


-----------------------------------------------------------------------------
(* PacketPassConnector.c and PacketStreamSender.c.  The packet held is the last one
   taken, and only packets taken were written. *)
SnPacket ==
  /\ packet \in [no : Nat, len : Nat] /\ whole \subseteq 1..taken
  /\ packet = Sender!NoPacket \/ (packet.no = taken /\ taken > 0 /\ packet.len > 0)

(* What is under way between the connector, the sender and the stream. *)
SnJobs ==
  /\ handover = "BUSY" <=> out # "NONE"
  /\ out \in {"NONE", "OPERATION_PENDING", "DONE_PENDING"}
  /\ out = "NONE" => done_len = 0
  /\ out = "OPERATION_PENDING" => in_used < in_len /\ done_len = 0
  /\ out = "DONE_PENDING" /\ in_used + done_len = in_len => packet.no \in whole
  /\ handover = "DONE_PENDING" => packet.no \in whole

(* Where the present stream ends: in the middle of the packet held, after as many
   bytes of it as were reported or will be, or behind a whole packet before it. *)
SnMiddle == handover = "BUSY" /\ in_used + done_len > 0
SnLast == ps_stream[Len(ps_stream)]
SnPlace ==
  output =>
    /\ SnMiddle => ps_stream # <<>> /\ SnLast = <<packet.no, in_used + done_len>>
    /\ ~SnMiddle /\ ps_stream # <<>> =>
         /\ SnLast[1] \in whole
         /\ handover \in {"OPERATION_PENDING", "BUSY"} => SnLast[1] < packet.no

SenderInv ==
  /\ Sender!SenderSafe /\ ps_stream \in Seq(Nat \X Nat)
  /\ SnPacket /\ SnJobs /\ SnPlace

(* No packet, no connection. *)
LEMMA SenderInitInv ==
  ASSUME Sender!PacketSenderAssumption, Sender!Init
  PROVE  SenderInv
<1> USE DEF Sender!Init, Sender!NoPacket, Sender!NoInput
<1>1. Sender!TypeOK
  <2>1. packet.no = 0 /\ packet.len = 0 /\ 0 \in 0..MaxSent /\ 0 \in 0..MaxStreams
    BY DEF Sender!PacketSenderAssumption
  <2>2. output \in BOOLEAN
    OBVIOUS
  <2> QED
    BY <2>1, <2>2 DEF Sender!TypeOK, Sender!States
<1>2. Sender!StreamIsPackets /\ Sender!NoPacketSkipped /\ Sender!HandoversAgree
  BY DEF Sender!StreamIsPackets, Sender!NoPacketSkipped, Sender!HandoversAgree
<1>3. ps_stream \in Seq(Nat \X Nat)
  BY EmptySeq
<1>4. SnPacket /\ SnJobs /\ SnPlace
  BY DEF SnPacket, SnJobs, SnPlace
<1> QED
  BY <1>1, <1>2, <1>3, <1>4 DEF SenderInv, Sender!SenderSafe

(* Steps that write nothing, to a stream that stays. *)
LEMMA StreamStays ==
  ASSUME SenderInv, ps_stream' = ps_stream, whole' = whole
  PROVE  Sender!StreamIsPackets' /\ ps_stream' \in Seq(Nat \X Nat)
BY DEF SenderInv, Sender!SenderSafe, Sender!StreamIsPackets

(* The connector is given a packet, and lets it go when it was sent. *)
LEMMA ConnectorTakesAndDone ==
  ASSUME Sender!PacketSenderAssumption, SenderInv,
         \/ Sender!ConnectorInputHandlerSend \/ Sender!ConnectorOutputHandlerDone \/ Sender!InputDone
  PROVE  SenderInv'
<1> USE DEF Sender!sender, Sender!NoPacket, Sender!NoInput, Sender!States
<1>1. Sender!StreamIsPackets' /\ ps_stream' \in Seq(Nat \X Nat)
  BY StreamStays DEF Sender!ConnectorInputHandlerSend, Sender!ConnectorOutputHandlerDone,
     Sender!InputDone
<1>2. CASE Sender!ConnectorInputHandlerSend
  <2>1. PICK l \in PacketLengths : packet' = [no |-> taken + 1, len |-> l]
    BY <1>2 DEF Sender!ConnectorInputHandlerSend
  <2>2. /\ input = "NONE" /\ taken < MaxSent /\ taken' = taken + 1 /\ input' = "BUSY"
        /\ handover' = (IF output THEN "OPERATION_PENDING" ELSE handover)
        /\ UNCHANGED <<output, in_len, in_used, out, done_len, ps_stream, streams, whole>>
    BY <1>2 DEF Sender!ConnectorInputHandlerSend
  <2>3. /\ taken \in Nat /\ MaxSent \in Nat /\ l \in Nat \ {0} /\ packet = Sender!NoPacket
        /\ handover = "NONE" /\ out = "NONE" /\ in_len = Sender!NoInput
    BY <2>2 DEF SenderInv, Sender!SenderSafe, Sender!HandoversAgree, SnJobs, Sender!TypeOK,
       Sender!PacketSenderAssumption
  <2>4. packet'.no = taken + 1 /\ packet'.len = l /\ packet' # Sender!NoPacket
    BY <2>1, <2>3
  <2>5. Sender!TypeOK'
    BY <2>2, <2>3, <2>4 DEF SenderInv, Sender!SenderSafe, Sender!TypeOK
  <2>6. SnPacket'
    BY <2>1, <2>2, <2>3, <2>4 DEF SenderInv, SnPacket
  <2>7. Sender!NoPacketSkipped'
    <3>1. ASSUME NEW p \in 1..taken' PROVE p \in whole' \/ packet'.no = p
      <4>1. p \in 1..taken \/ p = taken + 1
        BY <2>2, <2>3
      <4>2. \A q \in 1..taken : q \in whole
        BY <2>3 DEF SenderInv, Sender!SenderSafe, Sender!NoPacketSkipped
      <4> QED
        BY <2>2, <2>4, <4>1, <4>2
    <3> QED
      BY <3>1 DEF Sender!NoPacketSkipped
  <2>8. Sender!HandoversAgree' /\ SnJobs'
    BY <2>2, <2>3, <2>4 DEF SenderInv, Sender!SenderSafe, Sender!HandoversAgree, SnJobs
  <2>9. SnPlace'
    BY <2>2, <2>3, <2>4 DEF SenderInv, SnPlace, SnMiddle, SnLast, SnPacket
  <2> QED
    BY <1>1, <2>5, <2>6, <2>7, <2>8, <2>9 DEF SenderInv, Sender!SenderSafe
<1>3. CASE Sender!ConnectorOutputHandlerDone
  <2>1. /\ handover = "DONE_PENDING" /\ handover' = "NONE" /\ packet' = Sender!NoPacket
        /\ input' = "DONE_PENDING"
        /\ UNCHANGED <<taken, output, in_len, in_used, out, done_len, ps_stream, streams, whole>>
    BY <1>3 DEF Sender!ConnectorOutputHandlerDone
  <2>2. packet'.no = 0 /\ packet'.len = 0
    BY <2>1
  <2>3. Sender!TypeOK' /\ SnPacket' /\ SnJobs'
    BY <2>1, <2>2 DEF SenderInv, Sender!SenderSafe, Sender!TypeOK, SnPacket, SnJobs,
       Sender!PacketSenderAssumption
  <2>4. Sender!NoPacketSkipped'
    BY <2>1, <2>2 DEF SenderInv, Sender!SenderSafe, Sender!NoPacketSkipped, SnJobs
  <2>5. Sender!HandoversAgree'
    BY <2>1, <2>2 DEF SenderInv, Sender!SenderSafe, Sender!HandoversAgree
  <2>6. SnPlace'
    BY <2>1 DEF SenderInv, SnPlace, SnMiddle, SnLast
  <2> QED
    BY <1>1, <2>3, <2>4, <2>5, <2>6 DEF SenderInv, Sender!SenderSafe
<1>4. CASE Sender!InputDone
  <2>1. /\ input = "DONE_PENDING" /\ input' = "NONE"
        /\ UNCHANGED <<packet, taken, output, handover, in_len, in_used, out, done_len, ps_stream,
                       streams, whole>>
    BY <1>4 DEF Sender!InputDone
  <2>2. Sender!TypeOK' /\ SnPacket' /\ SnJobs' /\ Sender!NoPacketSkipped'
    BY <2>1 DEF SenderInv, Sender!SenderSafe, Sender!TypeOK, SnPacket, SnJobs,
       Sender!NoPacketSkipped
  <2>3. Sender!HandoversAgree' /\ SnPlace'
    BY <2>1 DEF SenderInv, Sender!SenderSafe, Sender!HandoversAgree, SnPlace, SnMiddle, SnLast
  <2> QED
    BY <1>1, <2>2, <2>3 DEF SenderInv, Sender!SenderSafe
<1> QED
  BY <1>2, <1>3, <1>4

(* A connection comes and goes; the packet stays. *)
LEMMA OutputComesAndGoes ==
  ASSUME Sender!PacketSenderAssumption, SenderInv, Sender!ConnectOutput \/ Sender!DisconnectOutput
  PROVE  SenderInv'
<1> USE DEF Sender!NoPacket, Sender!NoInput, Sender!States
<1>1. /\ UNCHANGED <<packet, taken, input, whole>> /\ output \in BOOLEAN
      /\ in_len' = Sender!NoInput /\ in_used' = 0 /\ out' = "NONE" /\ done_len' = 0
      /\ streams < MaxStreams /\ streams \in Nat /\ MaxStreams \in Nat
  BY DEF Sender!ConnectOutput, Sender!DisconnectOutput, SenderInv, Sender!SenderSafe, Sender!TypeOK,
     Sender!PacketSenderAssumption
<1>2. SnPacket' /\ Sender!NoPacketSkipped'
  BY <1>1 DEF SenderInv, Sender!SenderSafe, SnPacket, Sender!NoPacketSkipped
<1>3. CASE Sender!ConnectOutput
  <2>1. /\ ~output /\ output' = TRUE
        /\ handover' = (IF packet # Sender!NoPacket THEN "OPERATION_PENDING" ELSE "NONE")
        /\ streams' = streams + 1 /\ ps_stream' = <<>>
    BY <1>3 DEF Sender!ConnectOutput
  <2>2. Sender!TypeOK' /\ SnJobs'
    BY <1>1, <2>1 DEF SenderInv, Sender!SenderSafe, Sender!TypeOK, SnJobs
  <2>3. Sender!HandoversAgree' /\ SnPlace'
    BY <1>1, <2>1 DEF SenderInv, Sender!SenderSafe, Sender!HandoversAgree, SnPlace, SnMiddle
  <2>4. Sender!StreamIsPackets' /\ ps_stream' \in Seq(Nat \X Nat)
    BY <2>1, EmptySeq DEF Sender!StreamIsPackets
  <2> QED
    BY <1>2, <2>2, <2>3, <2>4 DEF SenderInv, Sender!SenderSafe
<1>4. CASE Sender!DisconnectOutput
  <2>1. output' = FALSE /\ handover' = "NONE" /\ UNCHANGED <<ps_stream, streams>>
    BY <1>4 DEF Sender!DisconnectOutput
  <2>2. Sender!TypeOK' /\ SnJobs'
    BY <1>1, <2>1 DEF SenderInv, Sender!SenderSafe, Sender!TypeOK, SnJobs
  <2>3. Sender!HandoversAgree' /\ SnPlace'
    BY <1>1, <2>1 DEF SenderInv, Sender!SenderSafe, Sender!HandoversAgree, SnPlace
  <2>4. Sender!StreamIsPackets' /\ ps_stream' \in Seq(Nat \X Nat)
    BY <1>1, <2>1, StreamStays
  <2> QED
    BY <1>2, <2>2, <2>3, <2>4 DEF SenderInv, Sender!SenderSafe
<1> QED
  BY <1>3, <1>4

(* send_data: the sender begins a packet, goes on, or is through with it. *)
LEMMA SenderGoesOn ==
  ASSUME SenderInv, Sender!SenderInputHandlerSend \/ Sender!SenderOutputHandlerDone
  PROVE  SenderInv'
<1> USE DEF Sender!NoPacket, Sender!NoInput, Sender!States
<1>1. /\ UNCHANGED <<packet, taken, input, output, ps_stream, streams, whole>>
      /\ packet \in [no : Nat, len : Nat] /\ in_used \in Nat /\ done_len \in Nat
      /\ {handover, out} \subseteq Sender!States /\ in_len \in Nat \cup {-1}
  BY DEF Sender!SenderInputHandlerSend, Sender!SenderOutputHandlerDone, SenderInv, Sender!SenderSafe,
     Sender!TypeOK, SnPacket
<1>2. SnPacket' /\ Sender!NoPacketSkipped' /\ Sender!StreamIsPackets' /\ ps_stream' \in Seq(Nat \X Nat)
  BY <1>1, StreamStays DEF SenderInv, Sender!SenderSafe, SnPacket, Sender!NoPacketSkipped
<1>3. CASE Sender!SenderInputHandlerSend
  <2>1. handover = "OPERATION_PENDING" /\ Sender!SendData(packet.len, 0) /\ done_len' = done_len
    BY <1>3 DEF Sender!SenderInputHandlerSend
  <2>2. packet # Sender!NoPacket /\ packet.len > 0 /\ out = "NONE" /\ done_len = 0 /\ output
    BY <1>1, <2>1 DEF SenderInv, Sender!SenderSafe, Sender!HandoversAgree, SnPacket, SnJobs
  <2>3. /\ in_used' = 0 /\ in_len' = packet.len /\ out' = "OPERATION_PENDING" /\ handover' = "BUSY"
        /\ done_len' = 0
    BY <1>1, <2>1, <2>2 DEF Sender!SendData
  <2>4. Sender!TypeOK' /\ SnJobs'
    BY <1>1, <2>2, <2>3 DEF SenderInv, Sender!SenderSafe, Sender!TypeOK, SnJobs
  <2>5. Sender!HandoversAgree'
    BY <1>1, <2>2, <2>3 DEF SenderInv, Sender!SenderSafe, Sender!HandoversAgree
  <2>6. SnPlace'
    BY <1>1, <2>1, <2>3 DEF SenderInv, SnPlace, SnMiddle, SnLast
  <2> QED
    BY <1>2, <2>4, <2>5, <2>6 DEF SenderInv, Sender!SenderSafe
<1>4. CASE Sender!SenderOutputHandlerDone
  <2>1. out = "DONE_PENDING" /\ Sender!SendData(in_len, in_used + done_len) /\ done_len' = 0
    BY <1>4 DEF Sender!SenderOutputHandlerDone
  <2>2. /\ handover = "BUSY" /\ packet # Sender!NoPacket /\ output /\ in_len = packet.len
        /\ in_used + done_len <= in_len /\ packet.len > 0
    BY <1>1, <2>1 DEF SenderInv, Sender!SenderSafe, Sender!HandoversAgree, SnJobs, SnPacket
  <2>3. CASE in_used + done_len < in_len
    <3>1. /\ in_used' = in_used + done_len /\ in_len' = in_len /\ out' = "OPERATION_PENDING"
          /\ handover' = "BUSY"
      BY <2>1, <2>3 DEF Sender!SendData
    <3>2. Sender!TypeOK' /\ SnJobs'
      BY <1>1, <2>1, <2>2, <2>3, <3>1 DEF SenderInv, Sender!SenderSafe, Sender!TypeOK, SnJobs
    <3>3. Sender!HandoversAgree'
      BY <1>1, <2>1, <2>2, <2>3, <3>1 DEF SenderInv, Sender!SenderSafe, Sender!HandoversAgree
    <3>4. SnPlace'
      BY <1>1, <2>1, <2>2, <3>1 DEF SenderInv, SnPlace, SnMiddle, SnLast
    <3> QED
      BY <1>2, <3>2, <3>3, <3>4 DEF SenderInv, Sender!SenderSafe
  <2>4. CASE ~(in_used + done_len < in_len)
    <3>1. /\ in_used' = in_used + done_len /\ in_len' = Sender!NoInput /\ out' = "NONE"
          /\ handover' = "DONE_PENDING" /\ in_used + done_len = in_len
      BY <1>1, <2>1, <2>2, <2>4 DEF Sender!SendData
    <3>2. Sender!TypeOK' /\ SnJobs'
      BY <1>1, <2>1, <2>2, <3>1 DEF SenderInv, Sender!SenderSafe, Sender!TypeOK, SnJobs
    <3>3. Sender!HandoversAgree'
      BY <1>1, <2>1, <2>2, <3>1 DEF SenderInv, Sender!SenderSafe, Sender!HandoversAgree
    <3>4. SnPlace'
      <4>1. SnLast' = <<packet.no, in_len>> /\ packet.no \in whole
        BY <1>1, <2>1, <2>2, <3>1 DEF SenderInv, SnPlace, SnMiddle, SnLast, SnJobs
      <4> QED
        BY <1>1, <3>1, <4>1 DEF SnPlace, SnMiddle
    <3> QED
      BY <1>2, <3>2, <3>3, <3>4 DEF SenderInv, Sender!SenderSafe
  <2> QED
    BY <2>3, <2>4
<1> QED
  BY <1>3, <1>4

(* The connection takes some bytes: the stream goes on where it ended. *)
LEMMA StreamGoesOn ==
  ASSUME SenderInv, Sender!Written
  PROVE  SenderInv'
<1> USE DEF Sender!NoPacket, Sender!NoInput, Sender!States
<1>1. PICK n \in 1..(in_len - in_used) :
        /\ done_len' = n
        /\ ps_stream' = ps_stream \o [i \in 1..n |-> <<packet.no, in_used + i>>]
        /\ whole' = IF in_used + n = in_len THEN whole \cup {packet.no} ELSE whole
  BY DEF Sender!Written
<1>2. /\ out = "OPERATION_PENDING" /\ out' = "DONE_PENDING"
      /\ UNCHANGED <<packet, taken, input, output, handover, in_len, in_used, streams>>
  BY DEF Sender!Written
<1>3. /\ handover = "BUSY" /\ in_len = packet.len /\ in_used < in_len /\ done_len = 0 /\ output
      /\ packet # Sender!NoPacket /\ packet.no = taken /\ taken \in 1..MaxSent
      /\ in_used \in Nat /\ in_len \in Nat /\ packet.no \in Nat
      /\ packet \in [no : Nat, len : Nat] /\ whole \subseteq 1..taken
  BY <1>2 DEF SenderInv, Sender!SenderSafe, Sender!HandoversAgree, SnJobs, SnPacket, Sender!TypeOK
<1>4. n \in Nat /\ n > 0 /\ in_used + n <= in_len
  BY <1>1, <1>3
<1>5. whole' \subseteq 1..taken /\ whole \subseteq whole' /\ (in_used + n = in_len => packet.no \in whole')
  BY <1>1, <1>3
<1> DEFINE more == [i \in 1..n |-> <<packet.no, in_used + i>>]
           l == Len(ps_stream)
<1>6. more \in Seq(Nat \X Nat) /\ Len(more) = n
  <2>1. \A i \in 1..n : <<packet.no, in_used + i>> \in Nat \X Nat
    BY <1>3, <1>4
  <2> QED
    BY <1>4, <2>1
<1>7. /\ ps_stream \in Seq(Nat \X Nat) /\ l \in Nat /\ DOMAIN ps_stream = 1..l
      /\ (ps_stream = <<>> <=> l = 0)
  BY EmptySeq DEF SenderInv
<1>8. /\ ps_stream' \in Seq(Nat \X Nat) /\ Len(ps_stream') = l + n /\ DOMAIN ps_stream' = 1..(l + n)
      /\ \A i \in 1..(l + n) : ps_stream'[i] = IF i <= l THEN ps_stream[i] ELSE more[i - l]
  <2> HIDE DEF more
  <2>1. ps_stream' = ps_stream \o more
    BY <1>1 DEF more
  <2> HIDE DEF l
  <2>2. l = Len(ps_stream)
    BY DEF l
  <2>3. /\ ps_stream \o more \in Seq(Nat \X Nat) /\ Len(ps_stream \o more) = Len(ps_stream) + Len(more)
        /\ \A i \in 1..(Len(ps_stream) + Len(more)) : (ps_stream \o more)[i] =
             IF i <= Len(ps_stream) THEN ps_stream[i] ELSE more[i - Len(ps_stream)]
    <3> DEFINE S == Nat \X Nat
    <3>1. ps_stream \in Seq(S) /\ more \in Seq(S)
      BY <1>6, <1>7
    <3> HIDE DEF S
    <3>2. /\ ps_stream \o more \in Seq(S) /\ Len(ps_stream \o more) = Len(ps_stream) + Len(more)
          /\ \A i \in 1..(Len(ps_stream) + Len(more)) : (ps_stream \o more)[i] =
               IF i <= Len(ps_stream) THEN ps_stream[i] ELSE more[i - Len(ps_stream)]
      BY <3>1, ConcatProperties
    <3> QED
      BY <3>2 DEF S
  <2>4. /\ ps_stream' \in Seq(Nat \X Nat) /\ Len(ps_stream') = l + n
        /\ \A i \in 1..(l + n) : ps_stream'[i] = IF i <= l THEN ps_stream[i] ELSE more[i - l]
    BY <1>6, <2>1, <2>2, <2>3
  <2> QED
    BY <2>4
<1>9. \A i \in 1..(l + n) : i > l => ps_stream'[i] = <<packet.no, in_used + (i - l)>>
  <2> SUFFICES ASSUME NEW i \in 1..(l + n), i > l
               PROVE  ps_stream'[i] = <<packet.no, in_used + (i - l)>>
    OBVIOUS
  <2>1. i - l \in 1..n /\ ~(i <= l)
    BY <1>4, <1>7
  <2>2. ps_stream'[i] = more[i - l]
    BY <1>8, <2>1
  <2> QED
    BY <2>1, <2>2
<1>10. l > 0 => IF in_used > 0 THEN ps_stream[l] = <<packet.no, in_used>>
                ELSE ps_stream[l][1] \in whole /\ ps_stream[l][1] < packet.no
  BY <1>3, <1>7 DEF SenderInv, SnPlace, SnMiddle, SnLast
<1>11. in_used > 0 => l > 0
  BY <1>3, <1>7 DEF SenderInv, SnPlace, SnMiddle
<1> HIDE DEF more, l
<1>a. l \in Nat /\ in_used \in Nat
  BY <1>3, <1>7
<1>12. Sender!StreamIsPackets'
  <2> SUFFICES ASSUME NEW i \in 1..(l + n)
               PROVE  IF ps_stream'[i][2] > 1
                      THEN i > 1 /\ ps_stream'[i - 1] = <<ps_stream'[i][1], ps_stream'[i][2] - 1>>
                      ELSE i > 1 => /\ ps_stream'[i - 1][1] < ps_stream'[i][1]
                                    /\ ps_stream'[i - 1][1] \in whole'
    BY <1>8 DEF Sender!StreamIsPackets
  <2>1. CASE i <= l
    <3>1. i \in 1..l /\ ps_stream'[i] = ps_stream[i]
          /\ (i > 1 => ps_stream'[i - 1] = ps_stream[i - 1])
      <4>1. i \in 1..l
        BY <1>7, <2>1
      <4>2. i > 1 => i - 1 \in 1..(l + n) /\ i - 1 <= l
        BY <1>4, <1>7, <2>1
      <4> QED
        BY <1>8, <2>1, <4>1, <4>2
    <3>2. IF ps_stream[i][2] > 1
          THEN i > 1 /\ ps_stream[i - 1] = <<ps_stream[i][1], ps_stream[i][2] - 1>>
          ELSE i > 1 => ps_stream[i - 1][1] < ps_stream[i][1] /\ ps_stream[i - 1][1] \in whole
      BY <1>7, <3>1 DEF SenderInv, Sender!SenderSafe, Sender!StreamIsPackets
    <3> QED
      BY <1>5, <3>1, <3>2
  <2>2. CASE i > l + 1
    <3>1. /\ i - 1 \in 1..(l + n) /\ i - 1 > l /\ i > l /\ i > 1
          /\ in_used + (i - l) > 1 /\ in_used + (i - 1 - l) = in_used + (i - l) - 1
      BY <1>3, <1>4, <1>7, <2>2
    <3>2. /\ ps_stream'[i] = <<packet.no, in_used + (i - l)>>
          /\ ps_stream'[i - 1] = <<packet.no, in_used + (i - 1 - l)>>
      BY <1>9, <3>1
    <3>3. ps_stream'[i][1] = packet.no /\ ps_stream'[i][2] = in_used + (i - l)
      BY <3>2
    <3>4. ps_stream'[i][2] > 1 /\ in_used + (i - 1 - l) = ps_stream'[i][2] - 1
      BY <1>a, <1>4, <3>1, <3>3
    <3>5. ps_stream'[i - 1] = <<ps_stream'[i][1], ps_stream'[i][2] - 1>>
      BY <3>2, <3>3, <3>4, Zenon
    <3> QED
      BY <3>1, <3>4, <3>5
  <2>3. CASE i = l + 1
    <3>1. ps_stream'[i] = <<packet.no, in_used + 1>>
      <4>1. i > l /\ i - l = 1
        BY <1>7, <2>3
      <4> QED
        BY <1>9, <4>1
    <3>2. i > 1 => l > 0 /\ ps_stream'[i - 1] = ps_stream[l]
      <4>1. i > 1 => i - 1 \in 1..(l + n) /\ i - 1 <= l /\ i - 1 = l /\ l > 0
        BY <1>4, <1>7, <2>3
      <4> QED
        BY <1>8, <4>1
    <3>3. CASE in_used > 0
      <4>1. i > 1 /\ in_used + 1 > 1 /\ in_used + 1 - 1 = in_used
        BY <1>a, <1>11, <2>3, <3>3
      <4>2. ps_stream'[i][1] = packet.no /\ ps_stream'[i][2] = in_used + 1
        BY <3>1
      <4>3. ps_stream'[i - 1] = <<packet.no, in_used>>
        BY <1>10, <3>2, <3>3, <4>1, Zenon
      <4>4. ps_stream'[i][2] > 1 /\ in_used = ps_stream'[i][2] - 1
        BY <1>a, <4>1, <4>2
      <4>5. ps_stream'[i - 1] = <<ps_stream'[i][1], ps_stream'[i][2] - 1>>
        BY <4>2, <4>3, <4>4, Zenon
      <4> QED
        BY <4>1, <4>4, <4>5
    <3>4. CASE in_used = 0
      <4>1. ps_stream'[i][1] = packet.no /\ ps_stream'[i][2] = 1
        BY <3>1, <3>4
      <4>2. ~(in_used > 0)
        BY <3>4
      <4>3. i > 1 => /\ ps_stream'[i - 1][1] < packet.no /\ ps_stream'[i - 1][1] \in whole
        BY <1>10, <3>2, <4>2, Zenon
      <4>4. ~(ps_stream'[i][2] > 1)
        BY <4>1
      <4>5. i > 1 => /\ ps_stream'[i - 1][1] < ps_stream'[i][1] /\ ps_stream'[i - 1][1] \in whole'
        BY <1>5, <4>1, <4>3, Zenon
      <4> QED
        BY <4>4, <4>5, Zenon
    <3> QED
      BY <1>3, <3>3, <3>4
  <2> QED
    BY <1>4, <1>7, <2>1, <2>2, <2>3
<1>13. Sender!TypeOK' /\ SnPacket'
  BY <1>1, <1>2, <1>3, <1>4, <1>5 DEF SenderInv, Sender!SenderSafe, Sender!TypeOK, SnPacket
<1>14. Sender!NoPacketSkipped'
  BY <1>2, <1>5 DEF SenderInv, Sender!SenderSafe, Sender!NoPacketSkipped
<1>15. Sender!HandoversAgree' /\ SnJobs'
  BY <1>1, <1>2, <1>3, <1>4, <1>5 DEF SenderInv, Sender!SenderSafe, Sender!HandoversAgree, SnJobs
<1>16. SnPlace'
  <2>0. l + n \in 1..(l + n) /\ l + n > l /\ l + n - l = n /\ l + n # 0
    BY <1>4, <1>a
  <2>1. l + n \in 1..(l + n) /\ l + n > l /\ l + n - l = n /\ ps_stream' # <<>>
    BY <1>8, <2>0, EmptySeq
  <2>2. SnLast' = <<packet.no, in_used + n>>
    <3>1. SnLast' = ps_stream'[l + n]
      BY <1>8 DEF SnLast
    <3>2. PICK m : m = l + n
      OBVIOUS
    <3>3. m \in 1..(l + n) /\ m > l /\ m - l = n
      BY <1>4, <1>a, <3>2
    <3>4. ps_stream'[m] = <<packet.no, in_used + (m - l)>>
      BY <1>9, <3>3, Zenon
    <3> QED
      BY <3>1, <3>2, <3>3, <3>4, Zenon
  <2>3. SnMiddle'
    BY <1>1, <1>2, <1>3, <1>4 DEF SnMiddle
  <2> QED
    BY <1>1, <1>2, <2>1, <2>2, <2>3 DEF SnPlace
<1> QED
  BY <1>8, <1>12, <1>13, <1>14, <1>15, <1>16 DEF SenderInv, Sender!SenderSafe

(* Every step of the sender. *)
LEMMA SenderStep ==
  ASSUME Sender!PacketSenderAssumption, SenderInv, Sender!Next \/ UNCHANGED Sender!vars
  PROVE  SenderInv'
<1>1. CASE UNCHANGED Sender!vars
  <2>1. Sender!StreamIsPackets' /\ ps_stream' \in Seq(Nat \X Nat)
    BY <1>1, StreamStays DEF Sender!vars
  <2>2. Sender!TypeOK' /\ SnPacket' /\ SnJobs' /\ Sender!NoPacketSkipped'
    BY <1>1 DEF Sender!vars, SenderInv, Sender!SenderSafe, Sender!TypeOK, SnPacket, SnJobs,
       Sender!NoPacketSkipped
  <2>3. Sender!HandoversAgree' /\ SnPlace'
    BY <1>1 DEF Sender!vars, SenderInv, Sender!SenderSafe, Sender!HandoversAgree, SnPlace, SnMiddle,
       SnLast
  <2> QED
    BY <2>1, <2>2, <2>3 DEF SenderInv, Sender!SenderSafe
<1> QED
  BY <1>1, ConnectorTakesAndDone, OutputComesAndGoes, SenderGoesOn, StreamGoesOn
     DEF Sender!Next, Sender!SenderJobs


-----------------------------------------------------------------------------
(* PacketProtoDecoder.c.  Packets lie in the stream one after the other. *)
DcOffsets(off) ==
  /\ off \in [0..Len(stream) -> Nat]
  /\ \A k \in 1..Len(stream) : off[k] = off[k - 1] + HeaderSize + stream[k]
  /\ boundary = off[decoded] /\ total = off[Len(stream)]
DcStream == \E off : DcOffsets(off)

(* While the decoder runs, the bytes used are those that arrived and are not
   decoded. *)
DcBytes(b, filled) ==
  /\ filled \in Nat /\ buf_start + filled <= Decoder!BufSize
  /\ \A k \in 0..(filled - 1) : b[buf_start + k] = boundary + k
DcBuffer == pd_state = "running" => DcBytes(buf, buf_used) /\ arrived = boundary + buf_used

DcSending == pd_sending # Decoder!NoPacket => decoded # 0

DecoderInv == Decoder!DecoderSafe /\ DcStream /\ DcBuffer /\ DcSending

(* Bytes that wait belong to a packet of the stream. *)
LEMMA NextIsInStream ==
  ASSUME Decoder!DecoderAssumption, NEW off, DcOffsets(off), stream \in Seq(Lengths),
         decoded \in 0..Len(stream), boundary < total
  PROVE  /\ decoded + 1 \in 1..Len(stream) /\ stream[decoded + 1] \in Nat
         /\ off[decoded + 1] = boundary + HeaderSize + stream[decoded + 1]
<1>1. Len(stream) \in Nat /\ boundary = off[decoded] /\ total = off[Len(stream)]
  BY DEF DcOffsets
<1>2. decoded # Len(stream)
  <2> SUFFICES ASSUME decoded = Len(stream) PROVE FALSE
    OBVIOUS
  <2>1. boundary = total
    BY <1>1, Zenon
  <2>2. total \in Nat
    BY <1>1 DEF DcOffsets
  <2> QED
    BY <2>1, <2>2
<1>3. decoded + 1 \in 1..Len(stream) /\ decoded + 1 - 1 = decoded
  BY <1>1, <1>2
<1>4. stream[decoded + 1] \in Lengths
  BY <1>3
<1>5. off[decoded + 1] = off[decoded] + HeaderSize + stream[decoded + 1]
  BY <1>3 DEF DcOffsets
<1> QED
  BY <1>1, <1>3, <1>4, <1>5 DEF Decoder!DecoderAssumption

(* process_data, when the buffer holds what has arrived: a whole packet is handed
   out and the rest stays; one that is too long ends it; else there is room. *)
LEMMA DataProcessed ==
  ASSUME Decoder!DecoderAssumption, DecoderInv, pd_state = "running",
         NEW b, NEW filled, Decoder!ProcessData(b, filled),
         b \in [0..(Decoder!BufSize - 1) -> -1..(arrived' - 1)], DcBytes(b, filled),
         arrived' = boundary + filled, arrived' <= total, UNCHANGED <<stream, total>>
  PROVE  DecoderInv'
<1> DEFINE next == stream[decoded + 1]
           S == Decoder!BufSize
           complete == filled >= HeaderSize /\ next <= OutputMtu /\ filled - HeaderSize >= next
           tooLong == filled >= HeaderSize /\ next > OutputMtu
<1>1. /\ HeaderSize \in Nat \ {0} /\ OutputMtu \in Nat /\ S = HeaderSize + OutputMtu /\ S \in Nat
      /\ buf_start \in 0..S /\ filled \in Nat /\ buf_start + filled <= S
      /\ total \in Nat /\ boundary \in Nat /\ boundary <= total
      /\ stream \in Seq(Lengths) /\ decoded \in 0..Len(stream) /\ Len(stream) \in Nat
  BY DEF Decoder!DecoderAssumption, Decoder!BufSize, DcBytes, DecoderInv, Decoder!DecoderSafe,
     Decoder!TypeOK
<1>2. arrived' \in 0..total' /\ arrived' \in Nat /\ total' \in Nat
  BY <1>1
<1>3. PICK off : DcOffsets(off)
  BY DEF DecoderInv, DcStream
<1>4. filled > 0 => /\ decoded + 1 \in 1..Len(stream) /\ next \in Nat
                  /\ off[decoded + 1] = boundary + HeaderSize + next
  <2>1. filled > 0 => boundary < total
    BY <1>1
  <2> QED
    BY <1>1, <1>3, <2>1, NextIsInStream
<1> HIDE DEF S
<1>a. /\ HeaderSize \in Nat /\ HeaderSize > 0 /\ S \in Nat /\ buf_start \in Nat /\ filled \in Nat
      /\ buf_start + filled <= S /\ boundary \in Nat
  BY <1>1
<1>5. CASE complete
  <2>1. /\ buf_start' = buf_start + HeaderSize + next
        /\ buf_used' = filled - (HeaderSize + next)
        /\ pd_sending' = [i \in 1..next |-> b[buf_start + HeaderSize + i - 1]]
        /\ boundary' = boundary + HeaderSize + next /\ decoded' = decoded + 1
        /\ buf' = b /\ pd_receiving' = FALSE /\ pd_state' = pd_state
    BY <1>5 DEF Decoder!ProcessData
  <2>2. next \in Nat /\ decoded + 1 \in 1..Len(stream) /\ off[decoded + 1] = boundary + HeaderSize + next
        /\ filled >= HeaderSize + next
    <3>1. filled >= HeaderSize /\ filled - HeaderSize >= next
      BY <1>5
    <3> HIDE DEF next
    <3>2. filled > 0
      BY <1>a, <3>1
    <3>3. next \in Nat /\ decoded + 1 \in 1..Len(stream)
          /\ off[decoded + 1] = boundary + HeaderSize + next
      BY <1>4, <3>2, Zenon
    <3>4. filled >= HeaderSize + next
      BY <1>a, <3>1, <3>3
    <3> QED
      BY <3>3, <3>4
  <2> HIDE DEF next
  <2>3. Decoder!TypeOK'
    <3>1. buf' \in [0..(S - 1) -> -1..(arrived' - 1)]
      BY <2>1 DEF S
    <3>2. buf_start' \in 0..S /\ buf_used' \in 0..S
      BY <1>1, <2>1, <2>2
    <3>3. decoded' \in 0..Len(stream') /\ stream' \in Seq(Lengths) /\ boundary' \in 0..total'
      BY <1>1, <2>1, <2>2
    <3> QED
      BY <1>2, <2>1, <3>1, <3>2, <3>3 DEF Decoder!TypeOK, S
  <2>4. DcStream'
    <3>1. DcOffsets(off)'
      BY <1>3, <2>1, <2>2 DEF DcOffsets
    <3> QED
      BY <3>1 DEF DcStream
  <2>5. DcBuffer'
    <3>1. ASSUME NEW k \in 0..(buf_used' - 1) PROVE buf'[buf_start' + k] = boundary' + k
      <4>0. next \in Nat /\ buf_used' = filled - (HeaderSize + next) /\ k \in Nat /\ k <= buf_used' - 1
        BY <1>a, <2>1, <2>2
      <4>1. HeaderSize + next + k \in 0..(filled - 1)
        BY <1>a, <4>0
      <4>2. b[buf_start + (HeaderSize + next + k)] = boundary + (HeaderSize + next + k)
        BY <4>1 DEF DcBytes
      <4>3. /\ buf_start' + k = buf_start + (HeaderSize + next + k)
            /\ boundary' + k = boundary + (HeaderSize + next + k)
        BY <1>1, <2>1, <2>2
      <4> QED
        BY <2>1, <4>2, <4>3
    <3>2. buf_used' \in Nat /\ buf_start' + buf_used' <= S /\ arrived' = boundary' + buf_used'
      BY <1>1, <2>1, <2>2
    <3> QED
      BY <3>1, <3>2 DEF DcBuffer, DcBytes, S
  <2>6. Decoder!PacketsIntact'
    <3>1. stream'[decoded'] = next /\ Len(pd_sending') = next
      BY <2>1, <2>2 DEF next
    <3>2. ASSUME NEW i \in 1..next PROVE pd_sending'[i] = boundary' - next + i - 1
      <4>1. HeaderSize + i - 1 \in 0..(filled - 1)
        BY <1>1, <2>2
      <4>2. b[buf_start + (HeaderSize + i - 1)] = boundary + (HeaderSize + i - 1)
        BY <4>1 DEF DcBytes
      <4>3. /\ buf_start + HeaderSize + i - 1 = buf_start + (HeaderSize + i - 1)
            /\ boundary' - next + i - 1 = boundary + (HeaderSize + i - 1)
        BY <1>1, <2>1, <2>2
      <4> QED
        BY <2>1, <4>2, <4>3
    <3>3. buf_used' > 0 => buf'[buf_start'] = boundary'
      <4> SUFFICES ASSUME buf_used' > 0 PROVE buf'[buf_start'] = boundary'
        OBVIOUS
      <4>1. 0 \in 0..(buf_used' - 1) /\ buf_start' + 0 = buf_start' /\ boundary' + 0 = boundary'
        BY <1>1, <2>1, <2>2
      <4>2. \A k \in 0..(buf_used' - 1) : buf'[buf_start' + k] = boundary' + k
        BY <2>1, <2>5 DEF DcBuffer, DcBytes
      <4>3. buf'[buf_start' + 0] = boundary' + 0
        BY <4>1, <4>2
      <4> QED
        BY <4>1, <4>3
    <3> QED
      BY <3>1, <3>2, <3>3 DEF Decoder!PacketsIntact
  <2>7. Decoder!RoomToReceive' /\ DcSending'
    BY <1>1, <2>1 DEF Decoder!RoomToReceive, DcSending
  <2> QED
    BY <2>3, <2>4, <2>5, <2>6, <2>7 DEF DecoderInv, Decoder!DecoderSafe
<1>6. CASE ~complete /\ tooLong
  <2>1. /\ buf_start' = 0 /\ buf_used' = 0 /\ pd_receiving' = TRUE /\ pd_sending' = Decoder!NoPacket
        /\ pd_state' = "failed" /\ buf' = b /\ UNCHANGED <<boundary, decoded>>
    BY <1>6 DEF Decoder!ProcessData
  <2>2. 0 \in 0..S /\ boundary \in 0..total
    BY <1>1
  <2>3. Decoder!TypeOK'
    BY <1>1, <1>2, <2>1, <2>2 DEF Decoder!TypeOK, S
  <2>4. DcStream'
    BY <1>3, <2>1 DEF DcStream, DcOffsets
  <2>5. DcBuffer' /\ Decoder!PacketsIntact' /\ Decoder!RoomToReceive' /\ DcSending'
    BY <2>1 DEF DcBuffer, Decoder!PacketsIntact, Decoder!RoomToReceive, DcSending
  <2> QED
    BY <2>3, <2>4, <2>5 DEF DecoderInv, Decoder!DecoderSafe
<1>7. CASE ~complete /\ ~tooLong
  <2>1. /\ buf_start' = Decoder!MakeRoom(b, filled).start /\ buf' = Decoder!MakeRoom(b, filled).buf
        /\ buf_used' = filled /\ pd_receiving' = TRUE /\ pd_sending' = Decoder!NoPacket
        /\ UNCHANGED <<boundary, decoded, pd_state>>
    BY <1>7 DEF Decoder!ProcessData
  <2>2. filled < S
    BY <1>1, <1>4, <1>7
  <2> HIDE DEF next
  <2>3. /\ buf' \in [0..(S - 1) -> -1..(arrived' - 1)] /\ buf_start' \in 0..S
        /\ buf_start' + filled < S
        /\ \A k \in 0..(filled - 1) : buf'[buf_start' + k] = boundary + k
    <3>1. CASE buf_start + filled = S
      <4>1. buf_start' = 0 /\ buf' = [i \in DOMAIN b |-> IF i < filled THEN b[buf_start + i] ELSE b[i]]
        BY <2>1, <3>1 DEF Decoder!MakeRoom, S
      <4>2. DOMAIN b = 0..(S - 1)
        BY DEF S
      <4>3. \A i \in 0..(S - 1) : i < filled => i \in 0..(filled - 1) /\ buf_start + i \in 0..(S - 1)
        BY <1>1
      <4>4. \A i \in 0..(S - 1) : buf'[i] \in -1..(arrived' - 1)
        BY <4>1, <4>2, <4>3 DEF S
      <4>5. ASSUME NEW k \in 0..(filled - 1) PROVE buf'[buf_start' + k] = boundary + k
        <5>1. k \in 0..(S - 1) /\ k < filled /\ buf_start' + k = k
          BY <1>1, <2>2, <4>1
        <5>2. buf'[k] = b[buf_start + k]
          BY <4>1, <4>2, <5>1
        <5> QED
          BY <5>1, <5>2 DEF DcBytes
      <4>6. DOMAIN buf' = 0..(S - 1) /\ buf' = [i \in DOMAIN buf' |-> buf'[i]]
        BY <4>1, <4>2
      <4>7. buf_start' \in 0..S /\ buf_start' + filled < S
        BY <1>1, <2>2, <4>1
      <4> QED
        BY <4>4, <4>5, <4>6, <4>7
    <3>2. CASE buf_start + filled # S
      <4>1. buf_start' = buf_start /\ buf' = b
        BY <2>1, <3>2 DEF Decoder!MakeRoom, S
      <4>2. buf_start + filled < S
        BY <1>a, <3>2
      <4> QED
        BY <1>1, <4>1, <4>2 DEF DcBytes, S
    <3> QED
      BY <3>1, <3>2
  <2>4. Decoder!TypeOK'
    <3>1. filled \in 0..S /\ boundary \in 0..total
      BY <1>1, <2>2
    <3> QED
      BY <1>1, <1>2, <2>1, <2>3, <3>1 DEF Decoder!TypeOK, S
  <2>5. DcStream'
    BY <1>3, <2>1 DEF DcStream, DcOffsets
  <2>6. DcBuffer'
    <3>1. buf_start' + filled <= S /\ buf_used' = filled /\ boundary' = boundary
      BY <1>1, <2>1, <2>3
    <3> QED
      BY <1>1, <2>3, <3>1 DEF DcBuffer, DcBytes, S
  <2>7. Decoder!PacketsIntact'
    <3>1. buf_used' > 0 => buf'[buf_start'] = boundary'
      <4> SUFFICES ASSUME filled > 0 PROVE buf'[buf_start'] = boundary
        BY <2>1
      <4>1. 0 \in 0..(filled - 1) /\ buf_start' + 0 = buf_start' /\ boundary + 0 = boundary
        <5>1. buf_start' \in Nat
          BY <1>a, <2>3
        <5>2. buf_start' + 0 = buf_start' /\ boundary + 0 = boundary
          <6>1. \A x \in Nat : x + 0 = x
            OBVIOUS
          <6> QED
            BY <1>a, <5>1, <6>1
        <5>3. 0 \in 0..(filled - 1)
          BY <1>a
        <5> QED
          BY <5>2, <5>3
      <4>2. buf'[buf_start' + 0] = boundary + 0
        BY <2>3, <4>1
      <4> QED
        BY <4>1, <4>2
    <3> QED
      BY <2>1, <3>1 DEF Decoder!PacketsIntact
  <2>8. Decoder!RoomToReceive' /\ DcSending'
    BY <2>1, <2>3 DEF Decoder!RoomToReceive, DcSending, S
  <2> QED
    BY <2>4, <2>5, <2>6, <2>7, <2>8 DEF DecoderInv, Decoder!DecoderSafe
<1> QED
  BY <1>5, <1>6, <1>7


(* The decoder before the first byte. *)
LEMMA DecoderInitInv ==
  ASSUME Decoder!DecoderAssumption, Decoder!Init
  PROVE  DecoderInv
<1> USE DEF Decoder!Init
<1>1. HeaderSize \in Nat \ {0} /\ OutputMtu \in Nat /\ Decoder!BufSize \in Nat \ {0}
  BY DEF Decoder!DecoderAssumption, Decoder!BufSize
<1>2. Decoder!TypeOK
  BY <1>1, EmptySeq DEF Decoder!TypeOK
<1>3. DcStream
  <2> DEFINE off == [k \in {0} |-> 0]
  <2>1. Len(stream) = 0 /\ 0..0 = {0}
    BY EmptySeq
  <2>2. off \in [0..0 -> Nat] /\ off[0] = 0
    BY <2>1
  <2>3. DcOffsets(off)
    BY <2>1, <2>2 DEF DcOffsets
  <2> QED
    BY <2>3 DEF DcStream
<1>4. DcBuffer /\ Decoder!PacketsIntact /\ Decoder!RoomToReceive /\ DcSending
  BY <1>1 DEF DcBuffer, DcBytes, Decoder!PacketsIntact, Decoder!RoomToReceive, DcSending
<1> QED
  BY <1>2, <1>3, <1>4 DEF DecoderInv, Decoder!DecoderSafe

(* The server sends one more packet: the ones before stay where they are. *)
LEMMA ServerSendsMore ==
  ASSUME Decoder!DecoderAssumption, DecoderInv, NEW len \in Lengths, Decoder!ServerSends(len)
  PROVE  DecoderInv'
<1> DEFINE n == Len(stream)
<1>1. /\ stream' = Append(stream, len) /\ total' = total + HeaderSize + len
      /\ UNCHANGED <<buf, buf_start, buf_used, pd_receiving, pd_sending, pd_state, boundary, decoded,
                     arrived>>
  BY DEF Decoder!ServerSends
<1>2. /\ stream \in Seq(Lengths) /\ decoded \in 0..n /\ n \in Nat /\ len \in Nat /\ HeaderSize \in Nat
      /\ total \in Nat /\ boundary \in 0..total /\ arrived \in 0..total
  BY DEF DecoderInv, Decoder!DecoderSafe, Decoder!TypeOK, Decoder!DecoderAssumption
<1>3. /\ stream' \in Seq(Lengths) /\ Len(stream') = n + 1 /\ stream'[n + 1] = len
      /\ \A k \in 1..n : stream'[k] = stream[k]
  BY <1>1, <1>2, AppendProperties
<1> HIDE DEF n
<1>4. Decoder!TypeOK'
  <2>1. decoded \in 0..(n + 1) /\ total' \in Nat /\ boundary \in 0..total' /\ arrived \in 0..total'
    BY <1>1, <1>2
  <2> QED
    BY <1>1, <1>3, <2>1 DEF DecoderInv, Decoder!DecoderSafe, Decoder!TypeOK
<1>5. DcStream'
  <2>1. PICK off : DcOffsets(off)
    BY DEF DecoderInv, DcStream
  <2>2. /\ off \in [0..n -> Nat] /\ boundary = off[decoded] /\ total = off[n]
        /\ \A k \in 1..n : off[k] = off[k - 1] + HeaderSize + stream[k]
    BY <2>1 DEF DcOffsets, n
  <2>3. PICK more : more = [k \in 0..(n + 1) |-> IF k = n + 1 THEN total' ELSE off[k]]
    OBVIOUS
  <2>4. more \in [0..(n + 1) -> Nat] /\ more[n + 1] = total' /\ \A k \in 0..n : more[k] = off[k]
    <3>1. \A k \in 0..(n + 1) : k # n + 1 => k \in 0..n
      BY <1>2
    <3>2. total' \in Nat /\ n + 1 \in 0..(n + 1) /\ \A k \in 0..n : k # n + 1 /\ k \in 0..(n + 1)
      BY <1>1, <1>2
    <3> QED
      BY <2>2, <2>3, <3>1, <3>2
  <2>5. ASSUME NEW k \in 1..(n + 1) PROVE more[k] = more[k - 1] + HeaderSize + stream'[k]
    <3>1. CASE k \in 1..n
      <4>1. k - 1 \in 0..n /\ k \in 0..n
        BY <1>2, <3>1
      <4> QED
        BY <1>3, <2>2, <2>4, <3>1, <4>1
    <3>2. CASE k = n + 1
      <4>1. k - 1 = n /\ n \in 0..n
        BY <1>2, <3>2
      <4> QED
        BY <1>1, <1>3, <2>2, <2>4, <3>2, <4>1
    <3> QED
      BY <1>2, <3>1, <3>2
  <2>6. boundary' = more[decoded'] /\ total' = more[n + 1]
    BY <1>1, <1>2, <2>2, <2>4
  <2>7. DcOffsets(more)'
    BY <1>3, <2>4, <2>5, <2>6 DEF DcOffsets
  <2> QED
    BY <2>7 DEF DcStream
<1>6. DcBuffer' /\ Decoder!RoomToReceive' /\ DcSending'
  BY <1>1 DEF DecoderInv, Decoder!DecoderSafe, DcBuffer, DcBytes, Decoder!RoomToReceive, DcSending
<1>7. Decoder!PacketsIntact'
  <2>1. CASE pd_sending = Decoder!NoPacket
    BY <1>1, <2>1 DEF DecoderInv, Decoder!DecoderSafe, Decoder!PacketsIntact
  <2>2. CASE pd_sending # Decoder!NoPacket
    <3>1. decoded \in 1..n
      BY <1>2, <2>2 DEF DecoderInv, DcSending
    <3>2. stream'[decoded'] = stream[decoded]
      BY <1>1, <1>3, <3>1
    <3> QED
      BY <1>1, <3>2 DEF DecoderInv, Decoder!DecoderSafe, Decoder!PacketsIntact
  <2> QED
    BY <2>1, <2>2
<1> QED
  BY <1>4, <1>5, <1>6, <1>7 DEF DecoderInv, Decoder!DecoderSafe

(* input_handler_done: the bytes received follow the ones that wait. *)
LEMMA BytesReceived ==
  ASSUME Decoder!DecoderAssumption, DecoderInv, Decoder!Receives
  PROVE  DecoderInv'
<1>1. PICK n \in 1..Decoder!BufSize : Decoder!InputHandlerDone(n)
  BY DEF Decoder!Receives
<1> DEFINE at == buf_start + buf_used
           S == Decoder!BufSize
<1>2. PICK b : b = [i \in DOMAIN buf |-> IF i \in at..(at + n - 1) THEN arrived + i - at ELSE buf[i]]
  OBVIOUS
<1>3. /\ pd_state = "running" /\ n <= S - at /\ arrived + n <= total /\ arrived' = arrived + n
      /\ Decoder!ProcessData(b, buf_used + n) /\ UNCHANGED <<stream, total>>
  BY <1>1, <1>2 DEF Decoder!InputHandlerDone
<1>4. /\ S \in Nat /\ buf_start \in Nat /\ buf_used \in Nat /\ n \in Nat /\ n > 0
      /\ buf \in [0..(S - 1) -> -1..(arrived - 1)] /\ arrived \in Nat /\ boundary \in Nat
      /\ arrived = boundary + buf_used
      /\ \A k \in 0..(buf_used - 1) : buf[buf_start + k] = boundary + k
  BY <1>1, <1>3 DEF DecoderInv, Decoder!DecoderSafe, Decoder!TypeOK, DcBuffer, DcBytes,
     Decoder!DecoderAssumption, Decoder!BufSize
<1>5. at \in Nat /\ at + n <= S /\ arrived' = boundary + (buf_used + n) /\ buf_used + n \in Nat
      /\ buf_start + (buf_used + n) <= S /\ arrived' <= total
  BY <1>3, <1>4
<1> HIDE DEF S
<1>6. b \in [0..(S - 1) -> -1..(arrived' - 1)]
  <2>1. DOMAIN buf = 0..(S - 1)
    BY <1>4
  <2>2. ASSUME NEW i \in 0..(S - 1)
        PROVE  (IF i \in at..(at + n - 1) THEN arrived + i - at ELSE buf[i]) \in -1..(arrived' - 1)
    <3>1. CASE i \in at..(at + n - 1)
      <4> HIDE DEF at
      <4>1. arrived + i - at \in -1..(arrived' - 1)
        BY <1>3, <1>4, <1>5, <3>1
      <4> QED
        BY <3>1, <4>1
    <3>2. CASE i \notin at..(at + n - 1)
      <4>1. buf[i] \in -1..(arrived - 1)
        BY <1>4
      <4>2. buf[i] \in -1..(arrived' - 1)
        BY <1>3, <1>4, <4>1
      <4> QED
        BY <3>2, <4>2
    <3> QED
      BY <3>1, <3>2
  <2> QED
    BY <1>2, <2>1, <2>2
<1>7. ASSUME NEW k \in 0..((buf_used + n) - 1) PROVE b[buf_start + k] = boundary + k
  <2> DEFINE i == buf_start + k
  <2>1. i \in 0..(S - 1) /\ i \in DOMAIN buf /\ k \in Nat
    BY <1>4, <1>5
  <2>2. b[i] = IF i \in at..(at + n - 1) THEN arrived + i - at ELSE buf[i]
    BY <1>2, <2>1
  <2>3. CASE k < buf_used
    <3>1. i \notin at..(at + n - 1) /\ k \in 0..(buf_used - 1)
      BY <1>4, <2>1, <2>3
    <3> QED
      BY <1>4, <2>2, <3>1
  <2>4. CASE ~(k < buf_used)
    <3>1. i \in at..(at + n - 1) /\ arrived + i - at = boundary + k
      BY <1>4, <2>1, <2>4
    <3> QED
      BY <2>2, <3>1
  <2> QED
    BY <2>3, <2>4
<1>8. DcBytes(b, buf_used + n)
  <2>1. buf_used + n \in Nat /\ buf_start + (buf_used + n) <= Decoder!BufSize
    BY <1>5 DEF S
  <2>2. \A k \in 0..((buf_used + n) - 1) : b[buf_start + k] = boundary + k
    BY <1>7
  <2> QED
    BY <2>1, <2>2, Zenon DEF DcBytes
<1> QED
  BY <1>3, <1>5, <1>6, <1>8, DataProcessed DEF S

(* Every step of the decoder. *)
LEMMA DecoderStep ==
  ASSUME Decoder!DecoderAssumption, DecoderInv, Decoder!Next \/ UNCHANGED Decoder!vars
  PROVE  DecoderInv'
<1>1. CASE UNCHANGED Decoder!vars
  <2>1. Decoder!TypeOK' /\ Decoder!PacketsIntact' /\ Decoder!RoomToReceive'
    BY <1>1 DEF Decoder!vars, DecoderInv, Decoder!DecoderSafe, Decoder!TypeOK,
       Decoder!PacketsIntact, Decoder!RoomToReceive
  <2>2. DcStream' /\ DcBuffer' /\ DcSending'
    BY <1>1 DEF Decoder!vars, DecoderInv, DcStream, DcOffsets, DcBuffer, DcBytes, DcSending
  <2> QED
    BY <2>1, <2>2 DEF DecoderInv, Decoder!DecoderSafe
<1>2. CASE Decoder!OutputHandlerDone
  <2>1. /\ pd_state = "running" /\ Decoder!ProcessData(buf, buf_used)
        /\ UNCHANGED <<stream, total, arrived>>
    BY <1>2 DEF Decoder!OutputHandlerDone
  <2>2. /\ buf \in [0..(Decoder!BufSize - 1) -> -1..(arrived' - 1)] /\ DcBytes(buf, buf_used)
        /\ arrived' = boundary + buf_used /\ arrived' <= total
    BY <2>1 DEF DecoderInv, Decoder!DecoderSafe, Decoder!TypeOK, DcBuffer
  <2> QED
    BY <2>1, <2>2, DataProcessed
<1> QED
  BY <1>1, <1>2, ServerSendsMore, BytesReceived DEF Decoder!Next

-----------------------------------------------------------------------------
(* PacketBuffer.  The packets lie one behind the other, in the order of the
   queue; off[k] is how many blocks the first k of them take, and
   End(start, off[k], wrap) is where the next one lies. *)

PbPackets == [of : Packets, len : 0..InputMtu]

(* _ChunkBuffer2_assert_buffer, and how early the memory is wrapped. *)
PbRegion(s, u, w) ==
  /\ s \in Nat /\ u \in Nat /\ w \in Nat
  /\ s < w /\ w <= Buffer!Size /\ u <= w /\ (w = Buffer!Size \/ u >= w - s)
  /\ Buffer!Size <= w + Buffer!MtuBlocks

(* No packet lies across the place where the memory wraps, and at the beginning
   of each, as behind the last, there is room for one of MTU length. *)
PbOffsets(off, q, s, u, w) ==
  /\ off \in [0..Len(q) -> Nat] /\ off[0] = 0 /\ off[Len(q)] = u
  /\ \A k \in 1..Len(q) : off[k] = off[k - 1] + 1 + Buffer!Blocks(q[k].len)
  /\ \A k \in 1..Len(q) : off[k - 1] < w - s => off[k] <= w - s
  /\ \A j, k \in 0..Len(q) : j < k => off[j] < off[k]
  /\ \A k \in 0..Len(q) :
       /\ u - off[k] <= (Len(q) - k) * (1 + Buffer!MtuBlocks)
       /\ Buffer!End(s, off[k], w) + 1 + Buffer!MtuBlocks <= Buffer!Size

PbPacketAt(m, x, p) ==
  /\ m[x] = [what |-> "len", len |-> p.len]
  /\ \A j \in 1..Buffer!Blocks(p.len) : m[x + j] = [what |-> "data", of |-> p.of]

PbHolds(off, q, m, s, w) ==
  \A k \in 1..Len(q) : PbPacketAt(m, Buffer!End(s, off[k - 1], w), q[k])

PbLaid(q, m, s, u, w) == \E off : PbOffsets(off, q, s, u, w) /\ PbHolds(off, q, m, s, w)

(* Input and output go on exactly where there is room, or a packet. *)
PbIo ==
  /\ input_dest = Buffer!InputDest(start, used, wrap)
  /\ input_avail = Buffer!InputAvail(start, used, wrap)
  /\ output_dest = Buffer!OutputDest(start, used)
  /\ output_avail = IF pb_queue = <<>> THEN Buffer!None ELSE pb_queue[1].len
  /\ pb_receiving = IF input_avail >= InputMtu THEN input_dest ELSE Buffer!NoDest
  /\ pb_sending = IF pb_queue = <<>> THEN [dest |-> Buffer!NoDest, len |-> Buffer!None]
                                     ELSE [dest |-> start + 1, len |-> pb_queue[1].len]

BufferInv ==
  /\ mem \in [0..(Buffer!Size - 1) -> Buffer!Cells] /\ pb_queue \in Seq(PbPackets)
  /\ PbRegion(start, used, wrap)
  /\ PbLaid(pb_queue, mem, start, used, wrap)
  /\ PbIo

(* bdivide_up: a number of blocks holds the bytes exactly when it is at least that
   of the bytes. *)
LEMMA BlocksHold ==
  ASSUME Buffer!PacketBufferAssumption, NEW x \in Nat, NEW f \in Nat
  PROVE  /\ Buffer!Blocks(x) \in Nat
         /\ f * BlockSize >= x <=> f >= Buffer!Blocks(x)
<1> DEFINE a == x + BlockSize - 1
           d == a \div BlockSize
<1>1. a \in Nat /\ BlockSize \in Nat /\ BlockSize > 0
  BY DEF Buffer!PacketBufferAssumption
<1>2. d \in Nat /\ BlockSize * d <= a /\ a < BlockSize * (d + 1)
  <2> HIDE DEF a
  <2> QED
    BY <1>1
<1>3. d = Buffer!Blocks(x)
  BY DEF Buffer!Blocks
<1>4. ASSUME f >= d PROVE f * BlockSize >= x
  <2>1. PICK g \in Nat : f = d + g
    <3>1. f - d \in Nat /\ f = d + (f - d)
      BY <1>2, <1>4
    <3> QED
      BY <3>1
  <2>2. f * BlockSize = BlockSize * d + g * BlockSize /\ g * BlockSize \in Nat
    BY <1>1, <1>2, <2>1
  <2>3. BlockSize * (d + 1) = BlockSize * d + BlockSize
    BY <1>1, <1>2
  <2>4. BlockSize * d \in Nat
    BY <1>1, <1>2
  <2> HIDE DEF d
  <2> QED
    BY <1>1, <1>2, <2>2, <2>3, <2>4
<1>5. ASSUME f < d PROVE f * BlockSize < x
  <2>1. PICK g \in Nat : d = f + 1 + g
    <3>1. d - (f + 1) \in Nat /\ d = f + 1 + (d - (f + 1))
      BY <1>2, <1>5
    <3> QED
      BY <3>1
  <2>2. BlockSize * d = f * BlockSize + BlockSize + g * BlockSize /\ g * BlockSize \in Nat
    BY <1>1, <1>2, <2>1
  <2>3. f * BlockSize \in Nat
    BY <1>1
  <2> HIDE DEF d
  <2> QED
    BY <1>1, <1>2, <2>2, <2>3
<1>6. f * BlockSize \in Nat
  BY <1>1
<1> QED
  BY <1>2, <1>3, <1>4, <1>5, <1>6

(* No packet takes more blocks than one of MTU length, and there is room for one
   more than NumPackets of these. *)
LEMMA BlocksBounded ==
  ASSUME Buffer!PacketBufferAssumption
  PROVE  /\ Buffer!MtuBlocks \in Nat /\ Buffer!Size \in Nat
         /\ \A x \in 0..InputMtu : Buffer!Blocks(x) \in Nat /\ Buffer!Blocks(x) <= Buffer!MtuBlocks
         /\ Buffer!Size >= 2 * (1 + Buffer!MtuBlocks)
         /\ Buffer!Size = (NumPackets - 1) * (1 + Buffer!MtuBlocks) + 2 * (1 + Buffer!MtuBlocks)
<1>1. InputMtu \in Nat /\ BlockSize \in Nat /\ NumPackets \in Nat /\ NumPackets >= 1
  BY DEF Buffer!PacketBufferAssumption
<1>2. Buffer!MtuBlocks \in Nat /\ Buffer!MtuBlocks * BlockSize >= InputMtu
  <2>1. Buffer!Blocks(InputMtu) \in Nat
    BY <1>1, BlocksHold
  <2>2. Buffer!Blocks(InputMtu) * BlockSize >= InputMtu
    BY <1>1, <2>1, BlocksHold
  <2> QED
    BY <2>1, <2>2 DEF Buffer!MtuBlocks
<1>3. ASSUME NEW x \in 0..InputMtu
      PROVE  Buffer!Blocks(x) \in Nat /\ Buffer!Blocks(x) <= Buffer!MtuBlocks
  <2>1. x \in Nat /\ Buffer!MtuBlocks * BlockSize >= x
    <3>1. Buffer!MtuBlocks * BlockSize \in Nat
      BY <1>1, <1>2
    <3> QED
      BY <1>1, <1>2, <3>1
  <2>2. Buffer!Blocks(x) \in Nat /\ (Buffer!MtuBlocks * BlockSize >= x <=> Buffer!MtuBlocks >= Buffer!Blocks(x))
    BY <1>2, <2>1, BlocksHold
  <2> QED
    BY <1>2, <2>1, <2>2
<1> DEFINE c == 1 + Buffer!MtuBlocks
<1>4. c \in Nat /\ c > 0
  BY <1>2
<1>5. /\ Buffer!Size = (NumPackets - 1) * c + 2 * c /\ (NumPackets - 1) * c \in Nat
      /\ Buffer!Size \in Nat
  <2>1. Buffer!Size = c * (NumPackets + 1)
    BY DEF Buffer!Size
  <2> HIDE DEF c
  <2> QED
    BY <1>1, <1>4, <2>1
<1>6. Buffer!Size >= 2 * c
  <2> HIDE DEF c
  <2> QED
    BY <1>4, <1>5
<1> QED
  BY <1>2, <1>3, <1>5, <1>6

(* The free blocks begin at End, and a receive goes on exactly when a packet of MTU
   length fits there. *)
LEMMA InputRoom ==
  ASSUME Buffer!PacketBufferAssumption, NEW s, NEW u, NEW w, PbRegion(s, u, w),
         Buffer!End(s, u, w) + 1 + Buffer!MtuBlocks <= Buffer!Size
  PROVE  /\ Buffer!End(s, u, w) \in Nat /\ Buffer!Free(s, u, w) \in Nat
         /\ Buffer!Free(s, u, w) <= Buffer!Size - Buffer!End(s, u, w)
         /\ Buffer!InputAvail(s, u, w) >= InputMtu <=> Buffer!Free(s, u, w) > Buffer!MtuBlocks
         /\ Buffer!InputAvail(s, u, w) >= InputMtu =>
              Buffer!InputDest(s, u, w) = Buffer!End(s, u, w) + 1
         /\ Buffer!InputDest(s, u, w) \in {-1} \cup 1..Buffer!Size
         /\ Buffer!InputAvail(s, u, w) \in -1..(Buffer!Size * BlockSize)
<1> DEFINE e == Buffer!End(s, u, w)
           f == Buffer!Free(s, u, w)
<1>1. Buffer!MtuBlocks \in Nat /\ Buffer!Size \in Nat
  BY BlocksBounded
<1>2. e \in Nat /\ f \in Nat /\ f <= Buffer!Size - e
  BY <1>1 DEF PbRegion, Buffer!End, Buffer!Free
<1>3. /\ Buffer!InputDest(s, u, w) = IF f > 0 THEN e + 1 ELSE -1
      /\ Buffer!InputAvail(s, u, w) = IF f > 0 THEN (f - 1) * BlockSize ELSE -1
  <2>1. Buffer!CanTake(s, u, w) <=> f > 0
    <3>1. Buffer!CanTake(s, u, w) <=> (Buffer!Size - e - 1 >= Buffer!MtuBlocks /\ f > 0)
      BY DEF Buffer!CanTake
    <3>2. Buffer!Size - e - 1 >= Buffer!MtuBlocks
      <4> HIDE DEF f
      <4>1. e + 1 + Buffer!MtuBlocks <= Buffer!Size
        OBVIOUS
      <4> HIDE DEF e
      <4> QED
        BY <1>1, <1>2, <4>1
    <3> QED
      BY <3>1, <3>2
  <2> QED
    BY <2>1, Zenon DEF Buffer!InputDest, Buffer!InputAvail, Buffer!NoDest, Buffer!None
<1> HIDE DEF e, f
<1>4. InputMtu \in Nat /\ BlockSize \in Nat /\ BlockSize > 0
  BY DEF Buffer!PacketBufferAssumption
<1>5. CASE f > 0
  <2>1. PICK g \in Nat : g = f - 1
    BY <1>2, <1>5
  <2>2. g * BlockSize >= InputMtu <=> g >= Buffer!MtuBlocks
    BY <1>4, BlocksHold DEF Buffer!MtuBlocks
  <2>3. g * BlockSize \in Nat /\ g * BlockSize <= Buffer!Size * BlockSize
    <3>1. PICK h \in Nat : Buffer!Size = g + h
      <4>1. Buffer!Size - g \in Nat /\ Buffer!Size = g + (Buffer!Size - g)
        BY <1>1, <1>2, <2>1
      <4> QED
        BY <4>1
    <3>2. Buffer!Size * BlockSize = g * BlockSize + h * BlockSize /\ h * BlockSize \in Nat
          /\ g * BlockSize \in Nat
      BY <1>4, <3>1
    <3> QED
      BY <3>2
  <2>4. Buffer!InputAvail(s, u, w) = g * BlockSize /\ Buffer!InputDest(s, u, w) = e + 1
    BY <1>3, <1>5, <2>1
  <2>5. e + 1 \in 1..Buffer!Size
    BY <1>1, <1>2, <1>5
  <2>6. g * BlockSize \in -1..(Buffer!Size * BlockSize)
    <3>1. Buffer!Size * BlockSize \in Nat
      BY <1>1, <1>4
    <3> QED
      BY <2>3, <3>1
  <2>7. g >= Buffer!MtuBlocks <=> f > Buffer!MtuBlocks
    BY <1>1, <1>2, <2>1
  <2> QED
    BY <1>2, <2>2, <2>4, <2>5, <2>6, <2>7 DEF e, f
<1>6. CASE ~(f > 0)
  <2>1. Buffer!InputAvail(s, u, w) = -1 /\ Buffer!InputDest(s, u, w) = -1
    BY <1>3, <1>6
  <2>2. ~(-1 >= InputMtu) /\ ~(f > Buffer!MtuBlocks)
    BY <1>1, <1>2, <1>4, <1>6
  <2>3. -1 \in -1..(Buffer!Size * BlockSize)
    <3>1. Buffer!Size * BlockSize \in Nat
      BY <1>1, <1>4
    <3> QED
      BY <3>1
  <2> QED
    BY <1>2, <2>1, <2>2, <2>3 DEF e, f
<1> QED
  BY <1>5, <1>6

(* What the places and the queue say about each other. *)
LEMMA OffsetFacts ==
  ASSUME Buffer!PacketBufferAssumption, NEW off, NEW q \in Seq(PbPackets), NEW s, NEW u, NEW w,
         PbRegion(s, u, w), PbOffsets(off, q, s, u, w)
  PROVE  /\ Buffer!End(s, u, w) + 1 + Buffer!MtuBlocks <= Buffer!Size
         /\ s + 1 + Buffer!MtuBlocks <= Buffer!Size
         /\ q = <<>> <=> u = 0
         /\ u <= Len(q) * (1 + Buffer!MtuBlocks)
         /\ Buffer!End(s, 0, w) = s
<1>1. Buffer!MtuBlocks \in Nat /\ Buffer!Size \in Nat /\ Len(q) \in Nat
  BY BlocksBounded, LenProperties
<1>2. 0 \in 0..Len(q) /\ Len(q) \in 0..Len(q)
  BY <1>1
<1>3. off[0] = 0 /\ off[Len(q)] = u
  BY DEF PbOffsets
<1>4. /\ Buffer!End(s, off[0], w) + 1 + Buffer!MtuBlocks <= Buffer!Size
      /\ Buffer!End(s, off[Len(q)], w) + 1 + Buffer!MtuBlocks <= Buffer!Size
      /\ u - off[0] <= (Len(q) - 0) * (1 + Buffer!MtuBlocks)
      /\ 0 < Len(q) => off[0] < off[Len(q)]
  BY <1>2 DEF PbOffsets
<1>5. Buffer!End(s, 0, w) = s
  BY DEF PbRegion, Buffer!End
<1>6. q = <<>> <=> Len(q) = 0
  BY EmptySeq
<1>7. u <= Len(q) * (1 + Buffer!MtuBlocks)
  <2>1. u - 0 = u /\ Len(q) - 0 = Len(q)
    BY <1>1 DEF PbRegion
  <2> QED
    BY <1>3, <1>4, <2>1
<1>8. q = <<>> <=> u = 0
  BY <1>1, <1>3, <1>4, <1>6 DEF PbRegion
<1> QED
  BY <1>3, <1>4, <1>5, <1>7, <1>8

(* While there are fewer than NumPackets packets one of MTU length fits. *)
LEMMA RoomForNum ==
  ASSUME Buffer!PacketBufferAssumption, NEW off, NEW q \in Seq(PbPackets), NEW s, NEW u, NEW w,
         PbRegion(s, u, w), PbOffsets(off, q, s, u, w), Len(q) < NumPackets
  PROVE  Buffer!Free(s, u, w) > Buffer!MtuBlocks
<1> DEFINE c == 1 + Buffer!MtuBlocks
<1>1. Buffer!MtuBlocks \in Nat /\ Buffer!Size \in Nat /\ Len(q) \in Nat /\ NumPackets \in Nat
  BY BlocksBounded, LenProperties DEF Buffer!PacketBufferAssumption
<1>2. Buffer!End(s, u, w) + c <= Buffer!Size /\ u <= Len(q) * c
  <2>1. Buffer!End(s, u, w) \in Nat
    BY <1>1 DEF PbRegion, Buffer!End
  <2> QED
    BY <1>1, <2>1, OffsetFacts
<1>3. Buffer!Size = (NumPackets - 1) * c + 2 * c
  BY BlocksBounded
<1>4. Len(q) * c <= (NumPackets - 1) * c /\ Len(q) * c \in Nat /\ (NumPackets - 1) * c \in Nat
  <2>1. c \in Nat
    BY <1>1
  <2> HIDE DEF c
  <2>2. PICK g \in Nat : NumPackets - 1 = Len(q) + g
    <3>1. NumPackets - 1 - Len(q) \in Nat /\ NumPackets - 1 = Len(q) + (NumPackets - 1 - Len(q))
      BY <1>1
    <3> QED
      BY <3>1
  <2>3. (Len(q) + g) * c = Len(q) * c + g * c /\ g * c \in Nat /\ Len(q) * c \in Nat
    BY <1>1, <2>1
  <2> QED
    BY <2>2, <2>3
<1>5. CASE u >= w - s
  <2>1. Buffer!Free(s, u, w) = w - u
    BY <1>5 DEF PbRegion, Buffer!Free, Buffer!End
  <2>2. Buffer!Size <= w + Buffer!MtuBlocks /\ w \in Nat /\ u \in Nat
    BY DEF PbRegion
  <2>3. c = 1 + Buffer!MtuBlocks
    OBVIOUS
  <2> HIDE DEF c
  <2> QED
    BY <1>1, <1>2, <1>3, <1>4, <2>1, <2>2, <2>3
<1>6. CASE ~(u >= w - s)
  <2>1. Buffer!Free(s, u, w) = Buffer!Size - Buffer!End(s, u, w) /\ Buffer!End(s, u, w) \in Nat
    BY <1>6 DEF PbRegion, Buffer!Free, Buffer!End
  <2> QED
    BY <1>1, <1>2, <2>1
<1> QED
  BY <1>5, <1>6

(* The header of the first packet. *)
LEMMA FirstPacket ==
  ASSUME Buffer!PacketBufferAssumption, NEW off, NEW q \in Seq(PbPackets), NEW s, NEW u, NEW w, NEW m,
         PbRegion(s, u, w), PbOffsets(off, q, s, u, w), PbHolds(off, q, m, s, w), q # <<>>
  PROVE  PbPacketAt(m, s, q[1]) /\ q[1] \in PbPackets /\ q[1].len \in 0..InputMtu
         /\ off[1] = 1 + Buffer!Blocks(q[1].len) /\ 1 \in 1..Len(q)
         /\ Buffer!OutputAvail(m, s, u) = q[1].len
<1>1. Len(q) \in Nat /\ Len(q) # 0
  BY EmptySeq, LenProperties
<1>2. 1 \in 1..Len(q)
  BY <1>1
<1>3. off[1 - 1] = 0 /\ off[1] = off[1 - 1] + 1 + Buffer!Blocks(q[1].len)
  BY <1>2 DEF PbOffsets
<1>4. q[1] \in PbPackets
  BY <1>2, ElementOfSeq
<1>5. q[1].len \in 0..InputMtu
  BY <1>4 DEF PbPackets
<1>6. Buffer!Blocks(q[1].len) \in Nat
  BY <1>5, BlocksBounded
<1>7. PbPacketAt(m, s, q[1])
  <2>1. PbPacketAt(m, Buffer!End(s, off[1 - 1], w), q[1])
    BY <1>2 DEF PbHolds
  <2> QED
    BY <1>3, <2>1, OffsetFacts
<1>8. Buffer!OutputAvail(m, s, u) = q[1].len
  <2>1. u # 0 /\ u \in Nat
    BY OffsetFacts DEF PbRegion
  <2>2. m[s].len = q[1].len
    BY <1>7 DEF PbPacketAt
  <2> QED
    BY <2>1, <2>2 DEF Buffer!OutputAvail
<1> QED
  BY <1>2, <1>3, <1>4, <1>5, <1>6, <1>7, <1>8

(* The invariant says what the run checks of the buffer. *)
LEMMA BufferInvSafe ==
  ASSUME Buffer!PacketBufferAssumption, BufferInv
  PROVE  Buffer!BufferSafe
<1>1. PICK off : PbOffsets(off, pb_queue, start, used, wrap) /\ PbHolds(off, pb_queue, mem, start, wrap)
  BY DEF BufferInv, PbLaid
<1>2. /\ pb_queue \in Seq(PbPackets) /\ PbRegion(start, used, wrap) /\ PbIo
      /\ mem \in [0..(Buffer!Size - 1) -> Buffer!Cells]
  BY DEF BufferInv
<1>3. InputMtu \in Nat /\ NumPackets \in Nat
  BY DEF Buffer!PacketBufferAssumption
<1>4. Buffer!MtuBlocks \in Nat /\ Buffer!Size \in Nat
  BY BlocksBounded
<1>5. /\ Buffer!End(start, used, wrap) + 1 + Buffer!MtuBlocks <= Buffer!Size
      /\ start + 1 + Buffer!MtuBlocks <= Buffer!Size
      /\ pb_queue = <<>> <=> used = 0
  BY <1>1, <1>2, OffsetFacts
<1>6. /\ Buffer!End(start, used, wrap) \in Nat /\ Buffer!Free(start, used, wrap) \in Nat
      /\ Buffer!Free(start, used, wrap) <= Buffer!Size - Buffer!End(start, used, wrap)
      /\ input_avail >= InputMtu <=> Buffer!Free(start, used, wrap) > Buffer!MtuBlocks
      /\ input_avail >= InputMtu => input_dest = Buffer!End(start, used, wrap) + 1
      /\ input_dest \in {-1} \cup 1..Buffer!Size
      /\ input_avail \in -1..(Buffer!Size * BlockSize)
  BY <1>2, <1>5, InputRoom DEF PbIo
<1>7. start \in Nat /\ used \in Nat /\ wrap \in Nat /\ start < wrap /\ used <= wrap /\ wrap <= Buffer!Size
      /\ (wrap = Buffer!Size \/ used >= wrap - start)
  BY <1>2 DEF PbRegion
<1>8. ASSUME pb_queue # <<>>
      PROVE  /\ pb_queue[1].len \in 0..InputMtu /\ PbPacketAt(mem, start, pb_queue[1])
             /\ Buffer!OutputAvail(mem, start, used) = pb_queue[1].len
             /\ Head(pb_queue) = pb_queue[1]
  <2>1. Head(pb_queue) = pb_queue[1]
    BY <1>2, <1>8, HeadTailProperties
  <2> QED
    BY <1>1, <1>2, <1>8, <2>1, FirstPacket
<1>9. pb_receiving = IF input_avail >= InputMtu THEN input_dest ELSE -1
  BY <1>2 DEF PbIo, Buffer!NoDest
<1>10. Buffer!CachedIoIsCurrent
  <2>1. Buffer!OutputAvail(mem, start, used) = IF pb_queue = <<>> THEN Buffer!None ELSE pb_queue[1].len
    <3>1. CASE pb_queue = <<>>
      <4>1. ~(used > 0)
        BY <1>5, <3>1
      <4> QED
        BY <3>1, <4>1 DEF Buffer!OutputAvail
    <3> QED
      BY <1>8, <3>1
  <2>2. output_avail = Buffer!OutputAvail(mem, start, used)
    BY <1>2, <2>1 DEF PbIo
  <2> QED
    BY <1>2, <1>7, <2>2 DEF PbIo, Buffer!CachedIoIsCurrent
<1>11. Buffer!ReceiveStaysValid
  <2>1. ASSUME pb_receiving # -1 PROVE pb_receiving = input_dest /\ pb_receiving + Buffer!MtuBlocks <= Buffer!Size
    <3>1. input_avail >= InputMtu /\ pb_receiving = input_dest
      BY <1>9, <2>1
    <3> QED
      BY <1>4, <1>5, <1>6, <3>1
  <2> QED
    BY <2>1 DEF Buffer!ReceiveStaysValid, Buffer!NoDest
<1>12. pb_sending = IF pb_queue = <<>> THEN [dest |-> -1, len |-> -1]
                                       ELSE [dest |-> start + 1, len |-> pb_queue[1].len]
  BY <1>2 DEF PbIo, Buffer!NoDest, Buffer!None
<1>13. pb_sending.dest = -1 <=> pb_queue = <<>>
  <2>1. start + 1 # -1
    BY <1>7
  <2> QED
    BY <1>12, <2>1
<1>14. Buffer!SendsOldestIntact
  <2>1. ASSUME pb_queue # <<>>
        PROVE  /\ pb_sending.len = Head(pb_queue).len
               /\ \A i \in 0..(Buffer!Blocks(pb_sending.len) - 1) :
                    mem[pb_sending.dest + i] = [what |-> "data", of |-> Head(pb_queue).of]
    <3>1. pb_sending.len = pb_queue[1].len /\ pb_sending.dest = start + 1
      BY <1>12, <2>1
    <3>2. ASSUME NEW i \in 0..(Buffer!Blocks(pb_queue[1].len) - 1)
          PROVE  mem[(start + 1) + i] = [what |-> "data", of |-> pb_queue[1].of]
      <4>1. Buffer!Blocks(pb_queue[1].len) \in Nat
        BY <1>8, <2>1, BlocksBounded
      <4>2. i + 1 \in 1..Buffer!Blocks(pb_queue[1].len) /\ (start + 1) + i = start + (i + 1)
        BY <1>7, <4>1
      <4>3. mem[start + (i + 1)] = [what |-> "data", of |-> pb_queue[1].of]
        BY <1>8, <2>1, <4>2 DEF PbPacketAt
      <4> QED
        BY <4>2, <4>3
    <3> QED
      BY <1>8, <2>1, <3>1, <3>2
  <2>2. (pb_sending.dest = Buffer!NoDest) = (pb_queue = <<>>)
    BY <1>13, Zenon DEF Buffer!NoDest
  <2> QED
    BY <2>1, <2>2, Zenon DEF Buffer!SendsOldestIntact
<1>15. pb_receiving # -1 <=> input_avail >= InputMtu
  <2>1. ASSUME input_avail >= InputMtu PROVE input_dest # -1
    BY <1>6, <2>1
  <2> QED
    BY <1>9, <2>1
<1>16. Buffer!HoldsNumPackets
  <2>1. (pb_receiving # Buffer!NoDest) = (input_avail >= InputMtu)
    <3> DEFINE got == pb_receiving # -1
               room == input_avail >= InputMtu
    <3>1. got = room
      <4>1. got <=> room
        BY <1>15
      <4>2. got \in BOOLEAN /\ room \in BOOLEAN
        <5>1. /\ (got = TRUE) \/ (got = FALSE)
              /\ (room = TRUE) \/ (room = FALSE)
          OBVIOUS
        <5> HIDE DEF got, room
        <5> QED
          BY <5>1, Zenon
      <4> HIDE DEF got, room
      <4> QED
        BY <4>1, <4>2
    <3> QED
      BY <3>1, Zenon DEF Buffer!NoDest
  <2>2. Len(pb_queue) < NumPackets => pb_receiving # Buffer!NoDest
    BY <1>1, <1>2, <1>6, <1>15, RoomForNum DEF Buffer!NoDest
  <2> QED
    BY <2>1, <2>2, Zenon DEF Buffer!HoldsNumPackets
<1>17. Buffer!TypeOK
  <2>1. pb_queue \in Seq([of : Packets, len : 0..InputMtu])
    BY <1>2 DEF PbPackets
  <2>2. wrap \in 1..Buffer!Size /\ start \in 0..(Buffer!Size - 1) /\ used \in 0..Buffer!Size
    BY <1>4, <1>7
  <2>3. pb_receiving \in {-1} \cup 1..Buffer!Size
    BY <1>6, <1>9
  <2>4. /\ output_dest \in {-1} \cup 1..Buffer!Size /\ output_avail \in -1..InputMtu
        /\ pb_sending.dest \in {-1} \cup 1..Buffer!Size /\ pb_sending.len \in -1..InputMtu
    <3>1. start + 1 \in 1..Buffer!Size
      BY <1>4, <1>5, <1>7
    <3>2. output_dest \in {-1} \cup 1..Buffer!Size
      BY <1>2, <3>1 DEF PbIo, Buffer!OutputDest, Buffer!NoDest
    <3>3. output_avail = IF pb_queue = <<>> THEN -1 ELSE pb_queue[1].len
      BY <1>2 DEF PbIo, Buffer!None
    <3>4. -1 \in -1..InputMtu /\ 0..InputMtu \subseteq -1..InputMtu
      BY <1>3
    <3>5. output_avail \in -1..InputMtu
      BY <1>8, <3>3, <3>4
    <3>6. pb_sending.dest \in {-1} \cup 1..Buffer!Size
      BY <1>12, <3>1
    <3>7. pb_sending.len \in -1..InputMtu
      BY <1>8, <1>12, <3>4
    <3> QED
      BY <3>2, <3>5, <3>6, <3>7
  <2>5. pb_sending \in [dest : {-1} \cup 1..Buffer!Size, len : -1..InputMtu]
    <3>1. pb_sending = [dest |-> pb_sending.dest, len |-> pb_sending.len]
      BY <1>12
    <3> QED
      BY <2>4, <3>1
  <2> QED
    BY <1>2, <1>6, <2>1, <2>2, <2>3, <2>4, <2>5 DEF Buffer!TypeOK, Buffer!NoDest, Buffer!None
<1> QED
  BY <1>10, <1>11, <1>14, <1>16, <1>17 DEF Buffer!BufferSafe

(* The region without its first d blocks. *)
PbConsumed(d, s, u, w, s2, u2, w2) ==
  /\ s2 = IF s + d = w THEN 0 ELSE s + d
  /\ w2 = IF s + d = w THEN Buffer!Size ELSE w
  /\ u2 = u - d

(* The free room begins where it did, and has grown only if the data had wrapped. *)
PbRoomKept(s, u, w, s2, u2, w2) ==
  /\ Buffer!End(s2, u2, w2) = Buffer!End(s, u, w)
  /\ Buffer!Free(s2, u2, w2) >= Buffer!Free(s, u, w)
  /\ ~(u >= w - s) => Buffer!Free(s2, u2, w2) = Buffer!Free(s, u, w)

(* ChunkBuffer2_ConsumePacket: the packets behind the first one stay where they are,
   and so does the free room, which grows only when the data has wrapped. *)
LEMMA ConsumeLayout ==
  ASSUME Buffer!PacketBufferAssumption, NEW off, NEW q \in Seq(PbPackets),
         NEW s, NEW u, NEW w, NEW m, NEW s2, NEW u2, NEW w2,
         PbRegion(s, u, w), PbOffsets(off, q, s, u, w), PbHolds(off, q, m, s, w), q # <<>>,
         PbConsumed(off[1], s, u, w, s2, u2, w2)
  PROVE  /\ PbRegion(s2, u2, w2)
         /\ PbLaid(Tail(q), m, s2, u2, w2)
         /\ PbRoomKept(s, u, w, s2, u2, w2)
<1> DEFINE n == Len(q)
           c == 1 + Buffer!MtuBlocks
           d == off[1]
<1>1. /\ Buffer!MtuBlocks \in Nat /\ Buffer!Size \in Nat /\ Buffer!Size > 0 /\ n \in Nat /\ c \in Nat
      /\ 1 \in 1..n /\ n >= 1
  <2>1. n \in Nat /\ Buffer!MtuBlocks \in Nat /\ Buffer!Size \in Nat
        /\ Buffer!Size >= 2 * (1 + Buffer!MtuBlocks)
    BY BlocksBounded, LenProperties
  <2>2. 1 \in 1..n
    BY FirstPacket
  <2> QED
    BY <2>1, <2>2
<1>2. /\ off \in [0..n -> Nat] /\ off[0] = 0 /\ off[n] = u
      /\ \A k \in 1..n : off[k] = off[k - 1] + 1 + Buffer!Blocks(q[k].len)
      /\ \A k \in 1..n : off[k - 1] < w - s => off[k] <= w - s
      /\ \A j, k \in 0..n : j < k => off[j] < off[k]
      /\ \A k \in 0..n : /\ u - off[k] <= (n - k) * c
                         /\ Buffer!End(s, off[k], w) + 1 + Buffer!MtuBlocks <= Buffer!Size
  BY DEF PbOffsets
<1>3. /\ s \in Nat /\ u \in Nat /\ w \in Nat /\ s < w /\ w <= Buffer!Size /\ u <= w
      /\ (w = Buffer!Size \/ u >= w - s) /\ Buffer!Size <= w + Buffer!MtuBlocks
  BY DEF PbRegion
<1>4. d \in Nat /\ d > 0 /\ d <= u /\ d <= w - s
  <2>1. 1 \in 0..n /\ 0 \in 0..n /\ n \in 0..n /\ off[1 - 1] = 0 /\ 0 < w - s
    BY <1>1, <1>2, <1>3
  <2>2. off[1] \in Nat /\ off[0] < off[1]
    BY <1>2, <2>1
  <2>4. 1 < n => off[1] < off[n]
    BY <1>2, <2>1
  <2>5. off[1] <= u
    BY <1>1, <1>2, <2>2, <2>4
  <2>3. off[1] <= w - s
    BY <1>1, <1>2, <2>1
  <2> QED
    BY <1>2, <2>2, <2>3, <2>5
<1>5. /\ s2 = IF s + d = w THEN 0 ELSE s + d
      /\ w2 = IF s + d = w THEN Buffer!Size ELSE w
      /\ u2 = u - d
  BY DEF PbConsumed
<1> HIDE DEF d
<1>6. PbRegion(s2, u2, w2)
  BY <1>1, <1>3, <1>4, <1>5 DEF PbRegion
<1>7. ASSUME NEW x \in Nat, d <= x, x <= u
      PROVE  Buffer!End(s2, x - d, w2) = Buffer!End(s, x, w)
  BY <1>1, <1>3, <1>4, <1>5, <1>7 DEF Buffer!End
<1>8. Buffer!End(s2, u2, w2) = Buffer!End(s, u, w)
  BY <1>3, <1>4, <1>5, <1>7
<1>9. /\ Buffer!Free(s2, u2, w2) >= Buffer!Free(s, u, w)
      /\ ~(u >= w - s) => Buffer!Free(s2, u2, w2) = Buffer!Free(s, u, w)
  BY <1>1, <1>3, <1>4, <1>5 DEF Buffer!End, Buffer!Free
<1> DEFINE t == Tail(q)
           o2 == [k \in 0..(n - 1) |-> off[k + 1] - d]
<1>10. t \in Seq(PbPackets) /\ Len(t) = n - 1 /\ \A k \in 1..(n - 1) : t[k] = q[k + 1]
  BY HeadTailProperties
<1>11. ASSUME NEW k \in 0..(n - 1)
       PROVE  /\ k + 1 \in 0..n /\ k + 1 \in 1..n /\ off[k + 1] \in Nat /\ off[k + 1] <= u
              /\ off[k + 1] >= d
  <2>1. /\ k \in Nat /\ k + 1 \in 0..n /\ k + 1 \in 1..n /\ k + 1 <= n /\ k + 1 \in Nat
        /\ 1 \in 0..n /\ n \in 0..n
    BY <1>1
  <2>2. off[k + 1] \in Nat
    BY <1>2, <2>1
  <2>3. k + 1 < n => off[k + 1] < off[n]
    BY <1>2, <2>1
  <2>4. 1 < k + 1 => off[1] < off[k + 1]
    BY <1>2, <2>1
  <2>5. off[k + 1] <= u
    BY <1>1, <1>2, <1>3, <2>1, <2>2, <2>3
  <2>6. off[k + 1] >= d
    BY <1>1, <1>4, <2>1, <2>2, <2>4 DEF d
  <2> QED
    BY <2>1, <2>2, <2>5, <2>6
<1>12. ASSUME NEW k \in 0..(n - 1)
       PROVE  /\ o2[k] = off[k + 1] - d /\ o2[k] \in Nat
              /\ Buffer!End(s2, o2[k], w2) = Buffer!End(s, off[k + 1], w)
  <2>1. off[k + 1] \in Nat /\ off[k + 1] <= u /\ off[k + 1] >= d
    BY <1>11
  <2>2. o2[k] = off[k + 1] - d
    OBVIOUS
  <2>3. Buffer!End(s2, off[k + 1] - d, w2) = Buffer!End(s, off[k + 1], w)
    BY <1>7, <2>1
  <2> QED
    BY <1>4, <2>1, <2>2, <2>3
<1>13. o2 \in [0..(n - 1) -> Nat]
  BY <1>12
<1> HIDE DEF o2, t
<1>14. ASSUME NEW k \in 1..(n - 1)
       PROVE  /\ o2[k] = o2[k - 1] + 1 + Buffer!Blocks(t[k].len)
              /\ o2[k - 1] < w2 - s2 => o2[k] <= w2 - s2
              /\ PbPacketAt(m, Buffer!End(s2, o2[k - 1], w2), t[k])
  <2>1. /\ k \in 0..(n - 1) /\ k - 1 \in 0..(n - 1) /\ k + 1 \in 1..n /\ (k - 1) + 1 = k
        /\ (k + 1) - 1 = k
    BY <1>1
  <2>2. /\ o2[k] = off[k + 1] - d /\ o2[k - 1] = off[k] - d
        /\ off[k] \in Nat /\ off[k + 1] \in Nat /\ off[k] <= u /\ off[k + 1] <= u
        /\ off[k] >= d /\ off[k + 1] >= d
        /\ Buffer!End(s2, o2[k - 1], w2) = Buffer!End(s, off[k], w)
    BY <1>11, <1>12, <2>1
  <2>3. t[k] = q[k + 1]
    BY <1>10
  <2>4. /\ off[k + 1] = off[k] + 1 + Buffer!Blocks(q[k + 1].len)
        /\ off[k] < w - s => off[k + 1] <= w - s
        /\ PbPacketAt(m, Buffer!End(s, off[k], w), q[k + 1])
    <3>1. /\ off[k + 1] = off[(k + 1) - 1] + 1 + Buffer!Blocks(q[k + 1].len)
          /\ off[(k + 1) - 1] < w - s => off[k + 1] <= w - s
          /\ PbPacketAt(m, Buffer!End(s, off[(k + 1) - 1], w), q[k + 1])
      BY <1>2, <2>1 DEF PbHolds
    <3> QED
      BY <2>1, <3>1
  <2>5. Buffer!Blocks(q[k + 1].len) \in Nat
    <3>1. q[k + 1] \in PbPackets
      BY <2>1, ElementOfSeq
    <3>2. q[k + 1].len \in 0..InputMtu
      BY <3>1 DEF PbPackets
    <3> QED
      BY <3>2, BlocksBounded
  <2>6. o2[k] = o2[k - 1] + 1 + Buffer!Blocks(t[k].len)
    BY <1>4, <2>2, <2>3, <2>4, <2>5
  <2>7. o2[k - 1] < w2 - s2 => o2[k] <= w2 - s2
    <3>1. PICK a \in Nat, b \in Nat : a = off[k] /\ b = off[k + 1]
      BY <2>2
    <3>2. /\ a <= u /\ b <= u /\ a >= d /\ b >= d /\ (a < w - s => b <= w - s)
          /\ o2[k] = b - d /\ o2[k - 1] = a - d
      BY <2>2, <2>4, <3>1
    <3>3. CASE s + d = w
      <4>1. w2 - s2 = Buffer!Size /\ d = w - s
        BY <1>1, <1>3, <1>4, <1>5, <3>3
      <4>2. b - d <= Buffer!Size
        BY <1>1, <1>3, <1>4, <3>2, <4>1
      <4> QED
        BY <3>2, <4>1, <4>2
    <3>4. CASE s + d # w
      <4>1. w2 - s2 = w - s - d
        BY <1>3, <1>4, <1>5, <3>4
      <4>2. a - d < w - s - d => b - d <= w - s - d
        BY <1>3, <1>4, <3>2
      <4> QED
        BY <3>2, <4>1, <4>2
    <3> QED
      BY <3>3, <3>4
  <2>8. PbPacketAt(m, Buffer!End(s2, o2[k - 1], w2), t[k])
    BY <2>2, <2>3, <2>4
  <2> QED
    BY <2>6, <2>7, <2>8
<1>15. ASSUME NEW j \in 0..(n - 1), NEW k \in 0..(n - 1), j < k
       PROVE  o2[j] < o2[k]
  <2>1. /\ j + 1 \in 0..n /\ k + 1 \in 0..n /\ j + 1 < k + 1
    BY <1>1, <1>15
  <2>2. off[j + 1] < off[k + 1]
    BY <1>2, <2>1
  <2> QED
    BY <1>4, <1>11, <1>12, <2>2
<1>16. ASSUME NEW k \in 0..(n - 1)
       PROVE  /\ u2 - o2[k] <= ((n - 1) - k) * c
              /\ Buffer!End(s2, o2[k], w2) + 1 + Buffer!MtuBlocks <= Buffer!Size
  <2>1. u2 - o2[k] = u - off[k + 1] /\ k + 1 \in 0..n /\ (n - 1) - k = n - (k + 1)
    <3>1. PICK a \in Nat : a = off[k + 1] /\ o2[k] = a - d
      BY <1>11, <1>12
    <3>2. u - d - (a - d) = u - a
      BY <1>3, <1>4
    <3> QED
      BY <1>1, <1>5, <1>11, <3>1, <3>2
  <2>2. /\ u - off[k + 1] <= (n - (k + 1)) * c
        /\ Buffer!End(s, off[k + 1], w) + 1 + Buffer!MtuBlocks <= Buffer!Size
    BY <1>2, <2>1
  <2>3. u2 - o2[k] <= ((n - 1) - k) * c
    BY <2>1, <2>2
  <2> QED
    BY <1>12, <2>2, <2>3
<1>17. o2[0] = 0 /\ o2[n - 1] = u2
  <2>1. 0 \in 0..(n - 1) /\ n - 1 \in 0..(n - 1) /\ 0 + 1 = 1 /\ (n - 1) + 1 = n
    BY <1>1
  <2>2. o2[0] = off[1] - d /\ o2[n - 1] = off[n] - d
    BY <1>12, <2>1
  <2> QED
    BY <1>2, <1>4, <1>5, <2>2 DEF d
<1>18. PbOffsets(o2, t, s2, u2, w2)
  BY <1>10, <1>13, <1>14, <1>15, <1>16, <1>17 DEF PbOffsets
<1>19. PbHolds(o2, t, m, s2, w2)
  BY <1>10, <1>14 DEF PbHolds
<1>20. PbLaid(Tail(q), m, s2, u2, w2)
  BY <1>18, <1>19 DEF t, PbLaid
<1>21. PbRoomKept(s, u, w, s2, u2, w2)
  BY <1>8, <1>9 DEF PbRoomKept
<1> QED
  BY <1>6, <1>20, <1>21

(* Where ChunkBuffer2_SubmitPacket puts a packet of bl blocks: behind the others when
   these have not wrapped, and then the next may have to wrap; else before the first. *)
PbBehind(s, u, w, e, u2, w2) ==
  /\ u < w - s /\ w = Buffer!Size /\ e = s + u /\ u2 <= w - s
  /\ \/ w2 = s + u2 /\ Buffer!Size <= w2 + Buffer!MtuBlocks
     \/ w2 = w /\ s + u2 + 1 + Buffer!MtuBlocks <= Buffer!Size

PbBefore(s, u, w, e, u2, w2) == u >= w - s /\ e = u - (w - s) /\ u2 <= w /\ w2 = w

(* A packet that has room goes to one of the two places. *)
LEMMA SubmitPlace ==
  ASSUME Buffer!PacketBufferAssumption, NEW s, NEW u, NEW w, NEW bl \in Nat, NEW u2, NEW w2, NEW e,
         PbRegion(s, u, w), bl <= Buffer!MtuBlocks,
         Buffer!Free(s, u, w) > Buffer!MtuBlocks,
         e = Buffer!End(s, u, w), u2 = u + 1 + bl,
         w2 = IF u2 <= w - s /\ Buffer!MtuBlocks > Buffer!Size - (e + 1 + bl) - 1
              THEN e + 1 + bl ELSE w
  PROVE  PbBehind(s, u, w, e, u2, w2) \/ PbBefore(s, u, w, e, u2, w2)
<1>1. Buffer!MtuBlocks \in Nat /\ Buffer!Size \in Nat
  BY BlocksBounded
<1>2. /\ s \in Nat /\ u \in Nat /\ w \in Nat /\ s < w /\ w <= Buffer!Size /\ u <= w
      /\ (w = Buffer!Size \/ u >= w - s)
  BY DEF PbRegion
<1>3. CASE u < w - s
  <2>1. w = Buffer!Size /\ e = s + u /\ Buffer!Free(s, u, w) = Buffer!Size - (s + u)
    BY <1>2, <1>3 DEF Buffer!End, Buffer!Free
  <2>2. u2 \in Nat /\ u2 <= w - s
    BY <1>1, <1>2, <2>1
  <2>3. e + 1 + bl = s + u2
    BY <1>2, <2>1
  <2>4. \/ w2 = s + u2 /\ Buffer!MtuBlocks > Buffer!Size - (s + u2) - 1
        \/ w2 = w /\ ~(Buffer!MtuBlocks > Buffer!Size - (s + u2) - 1)
    BY <2>2, <2>3
  <2>5. CASE w2 = s + u2 /\ Buffer!MtuBlocks > Buffer!Size - (s + u2) - 1
    <3>1. Buffer!Size <= (s + u2) + Buffer!MtuBlocks
      BY <1>1, <1>2, <2>2, <2>5
    <3> QED
      BY <1>3, <2>1, <2>2, <2>5, <3>1 DEF PbBehind
  <2>6. CASE w2 = w /\ ~(Buffer!MtuBlocks > Buffer!Size - (s + u2) - 1)
    <3>1. s + u2 + 1 + Buffer!MtuBlocks <= Buffer!Size
      BY <1>1, <1>2, <2>2, <2>6
    <3> QED
      BY <1>3, <2>1, <2>2, <2>6, <3>1 DEF PbBehind
  <2> QED
    BY <2>4, <2>5, <2>6
<1>4. CASE ~(u < w - s)
  <2>1. u >= w - s
    BY <1>2, <1>4
  <2>2. e = u - (w - s) /\ Buffer!Free(s, u, w) = s - (u - (w - s))
    BY <2>1 DEF Buffer!End, Buffer!Free
  <2>3. u2 <= w /\ ~(u2 <= w - s)
    <3>1. s - (u - (w - s)) = w - u
      BY <1>2
    <3> QED
      BY <1>1, <1>2, <2>1, <2>2, <3>1
  <2> QED
    BY <2>1, <2>2, <2>3 DEF PbBefore
<1> QED
  BY <1>3, <1>4

(* In both places the region stays sound, the packets there keep their places and are
   not written over, and behind the new packet one of MTU length fits. *)
LEMMA PlaceIsFree ==
  ASSUME Buffer!PacketBufferAssumption, NEW s, NEW u, NEW w, NEW bl \in Nat, NEW u2, NEW w2, NEW e,
         PbRegion(s, u, w), s + 1 + Buffer!MtuBlocks <= Buffer!Size, u2 = u + 1 + bl,
         PbBehind(s, u, w, e, u2, w2) \/ PbBefore(s, u, w, e, u2, w2)
  PROVE  /\ PbRegion(s, u2, w2)
         /\ Buffer!End(s, u2, w2) + 1 + Buffer!MtuBlocks <= Buffer!Size
         /\ u < w2 - s => u2 <= w2 - s
         /\ \A a, b \in Nat : b <= u /\ (a < w - s => b <= w - s) => (a < w2 - s => b <= w2 - s)
         /\ \A x \in Nat : x <= u => Buffer!End(s, x, w2) = Buffer!End(s, x, w)
         /\ \A a, k \in Nat : a + 1 + k <= u /\ (a < w - s => a + 1 + k <= w - s)
              => Buffer!End(s, a, w) + k < e \/ e + bl < Buffer!End(s, a, w)
<1>1. /\ Buffer!MtuBlocks \in Nat /\ Buffer!Size \in Nat
      /\ Buffer!Size >= 2 * (1 + Buffer!MtuBlocks)
  BY BlocksBounded
<1>2. /\ s \in Nat /\ u \in Nat /\ w \in Nat /\ s < w /\ w <= Buffer!Size /\ u <= w
      /\ (w = Buffer!Size \/ u >= w - s) /\ Buffer!Size <= w + Buffer!MtuBlocks
  BY DEF PbRegion
<1>3. u2 \in Nat /\ u2 > u /\ u2 = u + 1 + bl
  BY <1>2
<1>4. CASE PbBehind(s, u, w, e, u2, w2)
  <2>1. /\ u < w - s /\ w = Buffer!Size /\ e = s + u /\ u2 <= w - s
        /\ \/ w2 = s + u2 /\ Buffer!Size <= w2 + Buffer!MtuBlocks
           \/ w2 = w /\ s + u2 + 1 + Buffer!MtuBlocks <= Buffer!Size
    BY <1>4 DEF PbBehind
  <2>2. w2 \in Nat /\ u2 <= w2 - s /\ w2 <= Buffer!Size
    BY <1>1, <1>2, <1>3, <2>1
  <2>3. PbRegion(s, u2, w2)
    BY <1>1, <1>2, <1>3, <2>1, <2>2 DEF PbRegion
  <2>4. Buffer!End(s, u2, w2) + 1 + Buffer!MtuBlocks <= Buffer!Size
    <3>1. CASE w2 = s + u2
      <4>1. Buffer!End(s, u2, w2) = 0
        BY <1>2, <1>3, <3>1 DEF Buffer!End
      <4> QED
        BY <1>1, <4>1
    <3>2. CASE w2 # s + u2
      <4>1. ~(u2 >= w2 - s)
        BY <1>2, <1>3, <2>2, <3>2
      <4>2. Buffer!End(s, u2, w2) = s + u2
        BY <4>1 DEF Buffer!End
      <4> QED
        BY <2>1, <3>2, <4>2
    <3> QED
      BY <3>1, <3>2
  <2>5. ASSUME NEW a \in Nat, NEW b \in Nat, b <= u PROVE b <= w2 - s
    BY <1>2, <1>3, <2>2, <2>5
  <2>6. ASSUME NEW x \in Nat, x <= u PROVE Buffer!End(s, x, w2) = s + x /\ Buffer!End(s, x, w) = s + x
    <3>1. ~(x >= w2 - s) /\ ~(x >= w - s)
      BY <1>2, <1>3, <2>1, <2>2, <2>6
    <3> QED
      BY <3>1 DEF Buffer!End
  <2>7. ASSUME NEW a \in Nat, NEW k \in Nat, a + 1 + k <= u PROVE Buffer!End(s, a, w) + k < e
    <3>1. a <= u
      BY <1>2, <2>7
    <3>2. Buffer!End(s, a, w) = s + a
      BY <2>6, <3>1
    <3> QED
      BY <1>2, <2>1, <2>7, <3>2
  <2> QED
    BY <2>2, <2>3, <2>4, <2>5, <2>6, <2>7
<1>5. CASE PbBefore(s, u, w, e, u2, w2)
  <2>1. u >= w - s /\ e = u - (w - s) /\ u2 <= w /\ w2 = w
    BY <1>5 DEF PbBefore
  <2>2. PbRegion(s, u2, w2)
    BY <1>1, <1>2, <1>3, <2>1 DEF PbRegion
  <2>3. Buffer!End(s, u2, w2) + 1 + Buffer!MtuBlocks <= Buffer!Size
    <3>1. u2 >= w2 - s
      BY <1>2, <1>3, <2>1
    <3>2. Buffer!End(s, u2, w2) = u2 - (w - s)
      BY <2>1, <3>1 DEF Buffer!End
    <3>3. u2 - (w - s) <= s
      BY <1>2, <1>3, <2>1
    <3> QED
      BY <1>1, <1>2, <1>3, <3>2, <3>3
  <2>4. ~(u < w2 - s)
    BY <1>2, <2>1
  <2>5. ASSUME NEW a \in Nat, NEW k \in Nat, a + 1 + k <= u, a < w - s => a + 1 + k <= w - s
        PROVE  Buffer!End(s, a, w) + k < e \/ e + bl < Buffer!End(s, a, w)
    <3>1. CASE a < w - s
      <4>1. Buffer!End(s, a, w) = s + a
        <5>1. ~(a >= w - s)
          BY <1>2, <3>1
        <5> QED
          BY <5>1 DEF Buffer!End
      <4>2. e + bl < s
        BY <1>2, <1>3, <2>1
      <4>3. e + bl < s + a
        BY <1>2, <2>1, <4>2
      <4> QED
        BY <4>1, <4>3
    <3>2. CASE ~(a < w - s)
      <4>1. Buffer!End(s, a, w) = a - (w - s)
        <5>1. a >= w - s
          BY <1>2, <3>2
        <5> QED
          BY <5>1 DEF Buffer!End
      <4> QED
        BY <1>2, <2>1, <2>5, <4>1
    <3> QED
      BY <3>1, <3>2
  <2> QED
    BY <2>1, <2>2, <2>3, <2>4, <2>5
<1> QED
  BY <1>4, <1>5


(* The header and the data of a packet are written, and nothing else. *)
PbWritten(m2, m, e, bl, p) ==
  \A i \in 0..(Buffer!Size - 1) :
    m2[i] = IF i = e THEN [what |-> "len", len |-> p.len]
            ELSE IF i \in (e + 1)..((e + 1) + (bl - 1)) THEN [what |-> "data", of |-> p.of]
            ELSE m[i]

(* ChunkBuffer2_SubmitPacket: a packet that has room lies behind the last one, in one
   piece, over none of the others; behind it there is again room for one of MTU
   length, at the beginning of the memory if need be. *)
LEMMA SubmitLayout ==
  ASSUME Buffer!PacketBufferAssumption, NEW off, NEW q \in Seq(PbPackets), NEW p \in PbPackets,
         NEW s, NEW u, NEW w, NEW m, NEW e, NEW bl, NEW u2, NEW w2, NEW m2,
         PbRegion(s, u, w), PbOffsets(off, q, s, u, w), PbHolds(off, q, m, s, w),
         e = Buffer!End(s, u, w), bl = Buffer!Blocks(p.len), u2 = u + 1 + bl,
         PbBehind(s, u, w, e, u2, w2) \/ PbBefore(s, u, w, e, u2, w2), PbWritten(m2, m, e, bl, p)
  PROVE  /\ PbRegion(s, u2, w2)
         /\ PbLaid(Append(q, p), m2, s, u2, w2)
<1> DEFINE n == Len(q)
           c == 1 + Buffer!MtuBlocks
<1>1. /\ Buffer!MtuBlocks \in Nat /\ Buffer!Size \in Nat /\ Buffer!Size >= c /\ n \in Nat /\ c \in Nat
      /\ bl \in Nat /\ bl <= Buffer!MtuBlocks
  <2>1. n \in Nat /\ Buffer!MtuBlocks \in Nat /\ Buffer!Size \in Nat
        /\ Buffer!Size >= 2 * (1 + Buffer!MtuBlocks)
    BY BlocksBounded, LenProperties
  <2>2. p.len \in 0..InputMtu
    BY DEF PbPackets
  <2> QED
    BY <2>1, <2>2, BlocksBounded
<1>2. /\ off \in [0..n -> Nat] /\ off[0] = 0 /\ off[n] = u
      /\ \A k \in 1..n : off[k] = off[k - 1] + 1 + Buffer!Blocks(q[k].len)
      /\ \A k \in 1..n : off[k - 1] < w - s => off[k] <= w - s
      /\ \A j, k \in 0..n : j < k => off[j] < off[k]
      /\ \A k \in 0..n : /\ u - off[k] <= (n - k) * c
                         /\ Buffer!End(s, off[k], w) + 1 + Buffer!MtuBlocks <= Buffer!Size
  BY DEF PbOffsets
<1>3. /\ s \in Nat /\ u \in Nat /\ w \in Nat /\ s < w /\ w <= Buffer!Size /\ u <= w
      /\ (w = Buffer!Size \/ u >= w - s) /\ Buffer!Size <= w + Buffer!MtuBlocks
  BY DEF PbRegion
<1>4. s + 1 + Buffer!MtuBlocks <= Buffer!Size /\ e + 1 + Buffer!MtuBlocks <= Buffer!Size /\ e \in Nat
  BY OffsetFacts, InputRoom
<1>6. u2 \in Nat /\ u2 = u + 1 + bl /\ u2 > u
  BY <1>1, <1>3
<1>7. /\ PbRegion(s, u2, w2)
      /\ Buffer!End(s, u2, w2) + 1 + Buffer!MtuBlocks <= Buffer!Size
      /\ u < w2 - s => u2 <= w2 - s
      /\ \A a, b \in Nat : b <= u /\ (a < w - s => b <= w - s) => (a < w2 - s => b <= w2 - s)
      /\ \A x \in Nat : x <= u => Buffer!End(s, x, w2) = Buffer!End(s, x, w)
      /\ \A a, k \in Nat : a + 1 + k <= u /\ (a < w - s => a + 1 + k <= w - s)
           => Buffer!End(s, a, w) + k < e \/ e + bl < Buffer!End(s, a, w)
  BY <1>1, <1>4, PlaceIsFree, SMTT(40)
<1>8. ASSUME NEW x \in Nat, x <= u PROVE Buffer!End(s, x, w2) = Buffer!End(s, x, w)
  BY <1>7, <1>8
<1>9. Buffer!End(s, u2, w2) + 1 + Buffer!MtuBlocks <= Buffer!Size
  BY <1>7
<1> DEFINE t == Append(q, p)
           o2 == [k \in 0..(n + 1) |-> IF k <= n THEN off[k] ELSE u2]
<1>10. Len(t) = n + 1 /\ (\A k \in 1..n : t[k] = q[k]) /\ t[n + 1] = p
  BY AppendProperties
<1>11. ASSUME NEW k \in 0..n PROVE o2[k] = off[k] /\ off[k] \in Nat /\ off[k] <= u
  <2>1. k \in 0..(n + 1) /\ k <= n /\ n \in 0..n /\ k \in Nat
    BY <1>1
  <2>2. o2[k] = off[k]
    BY <2>1
  <2>3. k < n => off[k] < off[n]
    BY <1>2, <2>1
  <2>4. off[k] \in Nat
    BY <1>2
  <2>5. off[k] <= off[n]
    <3>1. k = n \/ k < n
      BY <1>1, <2>1
    <3> QED
      BY <1>2, <1>3, <2>3, <2>4, <3>1
  <2> QED
    BY <1>2, <2>2, <2>4, <2>5
<1>12. o2[n + 1] = u2 /\ o2[n] = u
  <2>1. n + 1 \in 0..(n + 1) /\ ~(n + 1 <= n) /\ n \in 0..n
    BY <1>1
  <2>2. o2[n + 1] = u2
    BY <2>1
  <2> QED
    BY <1>2, <1>11, <2>1, <2>2
<1>13. o2 \in [0..(n + 1) -> Nat]
  <2>1. ASSUME NEW k \in 0..(n + 1) PROVE (IF k <= n THEN off[k] ELSE u2) \in Nat
    <3>1. CASE k <= n
      <4>1. k \in 0..n
        BY <1>1, <3>1
      <4> QED
        BY <1>11, <3>1, <4>1
    <3>2. CASE ~(k <= n)
      BY <1>6, <3>2
    <3> QED
      BY <3>1, <3>2
  <2> QED
    BY <2>1
<1> HIDE DEF o2, t
<1>14. ASSUME NEW k \in 0..(n + 1) PROVE k \in 0..n \/ k = n + 1
  BY <1>1
<1>15. ASSUME NEW k \in 1..(n + 1) PROVE k \in 1..n \/ k = n + 1
  BY <1>1
<1>16. ASSUME NEW k \in 1..n PROVE k \in 0..n /\ k - 1 \in 0..n /\ k - 1 < k
  BY <1>1
<1>17. ASSUME NEW k \in 1..(n + 1) PROVE o2[k] = o2[k - 1] + 1 + Buffer!Blocks(t[k].len)
  <2>1. CASE k \in 1..n
    BY <1>2, <1>10, <1>11, <1>16, <2>1
  <2>2. CASE k = n + 1
    <3>1. k - 1 = n
      BY <1>1, <2>2
    <3> QED
      BY <1>10, <1>12, <2>2, <3>1
  <2> QED
    BY <1>15, <2>1, <2>2
<1>18. ASSUME NEW k \in 1..(n + 1) PROVE o2[k - 1] < w2 - s => o2[k] <= w2 - s
  <2>1. CASE k \in 1..n
    <3>1. PICK a \in Nat, b \in Nat : a = off[k - 1] /\ b = off[k]
      BY <1>11, <1>16, <2>1
    <3>2. a < w - s => b <= w - s
      BY <1>2, <2>1, <3>1
    <3>3. b <= u
      BY <1>11, <1>16, <2>1, <3>1
    <3>4. a < w2 - s => b <= w2 - s
      BY <1>7, <3>2, <3>3
    <3> QED
      BY <1>11, <1>16, <2>1, <3>1, <3>4
  <2>2. CASE k = n + 1
    <3>1. k - 1 = n
      BY <1>1, <2>2
    <3>2. u < w2 - s => u2 <= w2 - s
      BY <1>7
    <3> QED
      BY <1>12, <2>2, <3>1, <3>2
  <2> QED
    BY <1>15, <2>1, <2>2
<1>19. ASSUME NEW j \in 0..(n + 1), NEW k \in 0..(n + 1), j < k PROVE o2[j] < o2[k]
  <2>1. j \in 0..n
    BY <1>1, <1>19
  <2>2. CASE k \in 0..n
    BY <1>2, <1>11, <1>19, <2>1, <2>2
  <2>3. CASE k = n + 1
    BY <1>3, <1>6, <1>11, <1>12, <2>1, <2>3
  <2> QED
    BY <1>14, <2>2, <2>3
<1>20. ASSUME NEW k \in 0..(n + 1)
       PROVE  /\ u2 - o2[k] <= ((n + 1) - k) * c
              /\ Buffer!End(s, o2[k], w2) + 1 + Buffer!MtuBlocks <= Buffer!Size
  <2>1. CASE k \in 0..n
    <3>1. PICK a \in Nat : a = off[k] /\ o2[k] = a /\ a <= u
      BY <1>11, <2>1
    <3>2. u - a <= (n - k) * c /\ Buffer!End(s, a, w) + 1 + Buffer!MtuBlocks <= Buffer!Size
      BY <1>2, <2>1, <3>1
    <3>3. PICK h \in Nat : h = n - k /\ (n + 1) - k = h + 1
      <4>1. n - k \in Nat /\ (n + 1) - k = (n - k) + 1
        BY <1>1, <2>1
      <4> QED
        BY <4>1
    <3>4. (h + 1) * c = h * c + c /\ h * c \in Nat
      <4> HIDE DEF c
      <4> QED
        BY <1>1, <3>3
    <3>5. u2 - a <= (h + 1) * c
      <4>1. u2 - a <= (u - a) + c
        BY <1>1, <1>3, <1>6, SMTT(40)
      <4>2. u - a <= h * c
        BY <3>2, <3>3
      <4> HIDE DEF c
      <4> QED
        BY <1>1, <1>3, <1>6, <3>4, <4>1, <4>2, SMTT(40)
    <3>6. Buffer!End(s, a, w2) = Buffer!End(s, a, w)
      BY <1>8, <3>1
    <3> QED
      BY <3>1, <3>2, <3>3, <3>5, <3>6
  <2>2. CASE k = n + 1
    <3>1. ((n + 1) - k) * c = 0 /\ u2 - u2 = 0
      BY <1>1, <1>6, <2>2
    <3> QED
      BY <1>9, <1>12, <2>2, <3>1
  <2> QED
    BY <1>14, <2>1, <2>2
<1>21. ASSUME NEW k \in 1..n
       PROVE  PbPacketAt(m2, Buffer!End(s, o2[k - 1], w2), t[k])
  <2>1. PICK a \in Nat, b \in Nat : a = off[k - 1] /\ b = off[k] /\ a <= u /\ b <= u /\ o2[k - 1] = a
    BY <1>11, <1>16
  <2>2. PICK bk : bk = Buffer!Blocks(q[k].len)
    OBVIOUS
  <2>3. bk \in Nat /\ bk <= Buffer!MtuBlocks
    <3>1. q[k] \in PbPackets
      BY ElementOfSeq
    <3>2. q[k].len \in 0..InputMtu
      BY <3>1 DEF PbPackets
    <3> QED
      BY <2>2, <3>2, BlocksBounded
  <2>4. b = a + 1 + bk /\ (a < w - s => b <= w - s) /\ Buffer!End(s, a, w) + 1 + Buffer!MtuBlocks <= Buffer!Size
    BY <1>2, <1>16, <2>1, <2>2
  <2>5. PICK x : x = Buffer!End(s, a, w)
    OBVIOUS
  <2>6. x = Buffer!End(s, o2[k - 1], w2) /\ x \in Nat /\ x + bk < Buffer!Size
    <3>1. Buffer!End(s, a, w) \in Nat
      <4>1. CASE a >= w - s
        <5>1. Buffer!End(s, a, w) = a - (w - s)
          BY <4>1 DEF Buffer!End
        <5> QED
          BY <1>3, <4>1, <5>1
      <4>2. CASE ~(a >= w - s)
        BY <1>3, <4>2 DEF Buffer!End
      <4> QED
        BY <4>1, <4>2
    <3>2. Buffer!End(s, a, w) + bk < Buffer!Size
      BY <1>1, <2>3, <2>4, <3>1
    <3>3. Buffer!End(s, a, w2) = Buffer!End(s, a, w)
      BY <1>8, <2>1
    <3> QED
      BY <2>1, <2>5, <3>1, <3>2, <3>3
  <2>7. x + bk < e \/ e + bl < x
    <3>1. a + 1 + bk <= u /\ (a < w - s => a + 1 + bk <= w - s)
      BY <2>1, <2>4
    <3> QED
      BY <1>7, <2>3, <2>5, <3>1
  <2>8. ASSUME NEW i \in Nat, x <= i, i <= x + bk PROVE m2[i] = m[i]
    <3>1. i \in 0..(Buffer!Size - 1) /\ i # e /\ ~(i \in (e + 1)..((e + 1) + (bl - 1)))
      <4>1. i < e \/ e + bl < i
        <5>1. x \in Nat /\ bk \in Nat /\ e \in Nat /\ bl \in Nat
          BY <1>1, <1>4, <2>3, <2>6
        <5>2. CASE x + bk < e
          BY <2>8, <5>1, <5>2
        <5>3. CASE e + bl < x
          BY <2>8, <5>1, <5>3
        <5> QED
          BY <2>7, <5>2, <5>3
      <4>2. i <= Buffer!Size - 1
        BY <1>1, <2>3, <2>6, <2>8, SMTT(40)
      <4>3. ASSUME NEW y \in (e + 1)..((e + 1) + (bl - 1)) PROVE e < y /\ y <= e + bl
        BY <1>1, <1>4, SMTT(40)
      <4> QED
        BY <1>1, <1>4, <4>1, <4>2, <4>3, SMTT(40)
    <3> QED
      BY <3>1 DEF PbWritten
  <2>9. PbPacketAt(m, x, q[k])
    BY <2>1, <2>5 DEF PbHolds
  <2>10. PbPacketAt(m2, x, q[k])
    <3>1. m2[x] = m[x]
      BY <2>3, <2>6, <2>8
    <3>2. ASSUME NEW j \in 1..Buffer!Blocks(q[k].len) PROVE m2[x + j] = m[x + j]
      <4>1. x + j \in Nat /\ x <= x + j /\ x + j <= x + bk
        BY <2>2, <2>3, <2>6
      <4> QED
        BY <2>8, <4>1
    <3> QED
      BY <2>9, <3>1, <3>2 DEF PbPacketAt
  <2> QED
    BY <1>10, <2>6, <2>10
<1>22. PbPacketAt(m2, Buffer!End(s, o2[n], w2), p)
  <2>1. Buffer!End(s, o2[n], w2) = e
    BY <1>3, <1>8, <1>12
  <2>2. m2[e] = [what |-> "len", len |-> p.len]
    <3>1. e \in 0..(Buffer!Size - 1)
      BY <1>1, <1>4
    <3> QED
      BY <3>1 DEF PbWritten
  <2>3. ASSUME NEW j \in 1..bl PROVE m2[e + j] = [what |-> "data", of |-> p.of]
    <3>1. /\ e + j \in 0..(Buffer!Size - 1) /\ e + j # e
          /\ e + j \in (e + 1)..((e + 1) + (bl - 1))
      BY <1>1, <1>4, SMTT(40)
    <3> QED
      BY <3>1 DEF PbWritten
  <2> QED
    BY <2>1, <2>2, <2>3 DEF PbPacketAt
<1>23. PbOffsets(o2, t, s, u2, w2)
  <2>1. o2[0] = 0
    <3>1. 0 \in 0..n
      BY <1>1
    <3> QED
      BY <1>2, <1>11, <3>1
  <2> QED
    BY <1>10, <1>12, <1>13, <1>17, <1>18, <1>19, <1>20, <2>1 DEF PbOffsets
<1>24. PbHolds(o2, t, m2, s, w2)
  <2>1. (n + 1) - 1 = n
    BY <1>1
  <2>2. ASSUME NEW k \in 1..(n + 1) PROVE PbPacketAt(m2, Buffer!End(s, o2[k - 1], w2), t[k])
    <3>1. CASE k \in 1..n
      BY <1>21, <3>1
    <3>2. CASE k = n + 1
      BY <1>10, <1>22, <2>1, <3>2
    <3> QED
      BY <1>15, <3>1, <3>2
  <2> QED
    BY <1>10, <2>2 DEF PbHolds
<1> QED
  BY <1>7, <1>23, <1>24 DEF t, PbLaid

LEMMA BufferInitInv ==
  ASSUME Buffer!PacketBufferAssumption, Buffer!Init
  PROVE  BufferInv
<1>1. /\ Buffer!MtuBlocks \in Nat /\ Buffer!Size \in Nat
      /\ Buffer!Size >= 2 * (1 + Buffer!MtuBlocks)
  BY BlocksBounded
<1>2. wrap = Buffer!Size /\ start = 0 /\ used = 0 /\ pb_queue = <<>>
  BY DEF Buffer!Init
<1>3. mem \in [0..(Buffer!Size - 1) -> Buffer!Cells] /\ pb_queue \in Seq(PbPackets)
  BY <1>2 DEF Buffer!Init, Buffer!Cells
<1>4. PbRegion(start, used, wrap)
  BY <1>1, <1>2 DEF PbRegion
<1> DEFINE off == [k \in 0..0 |-> 0]
<1>5. Len(pb_queue) = 0
  BY <1>2
<1>6. PbOffsets(off, pb_queue, start, used, wrap)
  <2>1. Buffer!End(start, 0, wrap) = 0
    BY <1>1, <1>2 DEF Buffer!End
  <2>2. off \in [0..0 -> Nat] /\ off[0] = 0
    OBVIOUS
  <2>3. ASSUME NEW k \in 0..0
        PROVE  /\ used - off[k] <= (0 - k) * (1 + Buffer!MtuBlocks)
               /\ Buffer!End(start, off[k], wrap) + 1 + Buffer!MtuBlocks <= Buffer!Size
    <3>1. k = 0 /\ (0 - k) * (1 + Buffer!MtuBlocks) = 0 /\ 0 - 0 = 0
      BY <1>1
    <3>2. used - off[k] <= 0
      BY <1>2, <2>2, <3>1
    <3> QED
      BY <1>1, <2>1, <2>2, <3>1, <3>2
  <2>4. \A k \in 1..0 : FALSE
    OBVIOUS
  <2>5. \A j, k \in 0..0 : ~(j < k)
    OBVIOUS
  <2> HIDE DEF off
  <2> QED
    BY <1>2, <1>5, <2>2, <2>3, <2>4, <2>5 DEF PbOffsets
<1>7. PbHolds(off, pb_queue, mem, start, wrap)
  <2>1. \A k \in 1..0 : FALSE
    OBVIOUS
  <2> QED
    BY <1>5, <2>1 DEF PbHolds
<1>8. PbIo
  <2>1. Buffer!InputAvail(start, used, wrap) >= InputMtu
    <3>1. Buffer!End(start, used, wrap) = 0 /\ Buffer!Free(start, used, wrap) = Buffer!Size
      BY <1>1, <1>2 DEF Buffer!End, Buffer!Free
    <3>2. Buffer!End(start, used, wrap) + 1 + Buffer!MtuBlocks <= Buffer!Size
      BY <1>1, <3>1
    <3> QED
      BY <1>1, <1>4, <3>1, <3>2, InputRoom
  <2>2. output_dest = Buffer!OutputDest(start, used)
    BY <1>2 DEF Buffer!Init, Buffer!OutputDest
  <2> QED
    BY <1>2, <2>1, <2>2 DEF PbIo, Buffer!Init
<1> QED
  BY <1>3, <1>4, <1>6, <1>7, <1>8 DEF BufferInv, PbLaid

(* A packet was sent: receiving goes on where it was, or where there is now room. *)
LEMMA PacketWasSent ==
  ASSUME Buffer!PacketBufferAssumption, BufferInv, Buffer!OutputHandlerDone
  PROVE  BufferInv'
<1>1. PICK off : PbOffsets(off, pb_queue, start, used, wrap) /\ PbHolds(off, pb_queue, mem, start, wrap)
  BY DEF BufferInv, PbLaid
<1>2. /\ pb_queue \in Seq(PbPackets) /\ PbRegion(start, used, wrap) /\ PbIo
      /\ mem \in [0..(Buffer!Size - 1) -> Buffer!Cells]
  BY DEF BufferInv
<1>3. pb_queue # <<>>
  <2>1. pb_sending.dest # -1
    BY DEF Buffer!OutputHandlerDone, Buffer!NoDest
  <2> QED
    BY <1>2, <2>1 DEF PbIo, Buffer!NoDest
<1>4. mem[start].len = pb_queue[1].len /\ off[1] = 1 + Buffer!Blocks(pb_queue[1].len)
  <2>1. PbPacketAt(mem, start, pb_queue[1]) /\ off[1] = 1 + Buffer!Blocks(pb_queue[1].len)
    BY <1>1, <1>2, <1>3, FirstPacket
  <2>2. mem[start] = [what |-> "len", len |-> pb_queue[1].len]
    BY <2>1 DEF PbPacketAt
  <2> QED
    BY <2>1, <2>2
<1>5. PICK s, u, w : s = start' /\ u = used' /\ w = wrap'
  OBVIOUS
<1>6. /\ s = IF start + off[1] = wrap THEN 0 ELSE start + off[1]
      /\ w = IF start + off[1] = wrap THEN Buffer!Size ELSE wrap
      /\ u = used - off[1]
      /\ IF used >= wrap - start
         THEN input_dest' = Buffer!InputDest(s, u, w) /\ input_avail' = Buffer!InputAvail(s, u, w)
         ELSE UNCHANGED <<input_dest, input_avail>>
      /\ output_dest' = Buffer!OutputDest(s, u) /\ output_avail' = Buffer!OutputAvail(mem, s, u)
      /\ mem' = mem /\ pb_queue' = Tail(pb_queue)
      /\ pb_receiving' = IF input_avail < InputMtu /\ input_avail' >= InputMtu
                         THEN input_dest' ELSE pb_receiving
      /\ pb_sending' = IF output_avail' >= 0 THEN [dest |-> output_dest', len |-> output_avail']
                       ELSE [dest |-> Buffer!NoDest, len |-> Buffer!None]
  <2>1. PICK b : b = Buffer!Blocks(mem[start].len)
    OBVIOUS
  <2>2. start \in Nat /\ off[1] = 1 + b /\ b \in Nat
    <3>1. pb_queue[1].len \in 0..InputMtu
      BY <1>1, <1>2, <1>3, FirstPacket
    <3> QED
      BY <1>2, <1>4, <2>1, <3>1, BlocksBounded DEF PbRegion
  <2>3. start + 1 + b = start + off[1]
    BY <2>2
  <2>4. /\ s = IF start + 1 + b = wrap THEN 0 ELSE start + 1 + b
        /\ w = IF start + 1 + b = wrap THEN Buffer!Size ELSE wrap
        /\ u = used - (1 + b)
        /\ IF used >= wrap - start
           THEN input_dest' = Buffer!InputDest(s, u, w) /\ input_avail' = Buffer!InputAvail(s, u, w)
           ELSE UNCHANGED <<input_dest, input_avail>>
        /\ output_dest' = Buffer!OutputDest(s, u) /\ output_avail' = Buffer!OutputAvail(mem, s, u)
        /\ mem' = mem
    BY <1>5, <2>1 DEF Buffer!OutputHandlerDone, Buffer!ConsumePacket
  <2> QED
    BY <2>2, <2>3, <2>4 DEF Buffer!OutputHandlerDone
<1>7. /\ PbRegion(s, u, w)
      /\ PbLaid(Tail(pb_queue), mem, s, u, w)
      /\ Buffer!End(s, u, w) = Buffer!End(start, used, wrap)
      /\ Buffer!Free(s, u, w) >= Buffer!Free(start, used, wrap)
      /\ ~(used >= wrap - start) => Buffer!Free(s, u, w) = Buffer!Free(start, used, wrap)
  <2>1. PbConsumed(off[1], start, used, wrap, s, u, w)
    BY <1>6 DEF PbConsumed
  <2>2. PbLaid(Tail(pb_queue), mem, s, u, w)
    BY <1>1, <1>2, <1>3, <2>1, ConsumeLayout
  <2>3. PbRegion(s, u, w) /\ PbRoomKept(start, used, wrap, s, u, w)
    BY <1>1, <1>2, <1>3, <2>1, ConsumeLayout
  <2> QED
    BY <2>2, <2>3 DEF PbRoomKept
<1>8. pb_queue' \in Seq(PbPackets)
  BY <1>2, <1>3, <1>6, HeadTailProperties
<1>9. PICK o2 : PbOffsets(o2, pb_queue', s, u, w) /\ PbHolds(o2, pb_queue', mem', s, w)
  BY <1>6, <1>7 DEF PbLaid
<1>10. Buffer!End(start, used, wrap) + 1 + Buffer!MtuBlocks <= Buffer!Size
  BY <1>1, <1>2, OffsetFacts
<1>11. /\ input_avail >= InputMtu <=> Buffer!Free(start, used, wrap) > Buffer!MtuBlocks
       /\ input_avail >= InputMtu => input_dest = Buffer!End(start, used, wrap) + 1
       /\ Buffer!InputAvail(s, u, w) >= InputMtu <=> Buffer!Free(s, u, w) > Buffer!MtuBlocks
       /\ Buffer!InputAvail(s, u, w) >= InputMtu => Buffer!InputDest(s, u, w) = Buffer!End(s, u, w) + 1
       /\ Buffer!Free(s, u, w) \in Nat /\ Buffer!Free(start, used, wrap) \in Nat
       /\ Buffer!InputAvail(s, u, w) \in Int /\ input_avail \in Int
  <2>1. /\ input_avail = Buffer!InputAvail(start, used, wrap)
        /\ input_dest = Buffer!InputDest(start, used, wrap)
    BY <1>2 DEF PbIo
  <2>2. /\ input_avail >= InputMtu <=> Buffer!Free(start, used, wrap) > Buffer!MtuBlocks
        /\ input_avail >= InputMtu => input_dest = Buffer!End(start, used, wrap) + 1
        /\ Buffer!Free(start, used, wrap) \in Nat /\ input_avail \in -1..(Buffer!Size * BlockSize)
    BY <1>2, <1>10, <2>1, InputRoom
  <2>3. /\ Buffer!InputAvail(s, u, w) >= InputMtu <=> Buffer!Free(s, u, w) > Buffer!MtuBlocks
        /\ Buffer!InputAvail(s, u, w) >= InputMtu => Buffer!InputDest(s, u, w) = Buffer!End(s, u, w) + 1
        /\ Buffer!Free(s, u, w) \in Nat /\ Buffer!InputAvail(s, u, w) \in -1..(Buffer!Size * BlockSize)
    BY <1>7, <1>10, InputRoom
  <2> QED
    BY <2>2, <2>3
<1>12. input_dest' = Buffer!InputDest(s, u, w) /\ input_avail' = Buffer!InputAvail(s, u, w)
  <2>1. CASE used >= wrap - start
    BY <1>6, <2>1
  <2>2. CASE ~(used >= wrap - start)
    <3>1. /\ Buffer!Free(s, u, w) = Buffer!Free(start, used, wrap)
          /\ Buffer!End(s, u, w) = Buffer!End(start, used, wrap)
      BY <1>7, <2>2
    <3>2. /\ Buffer!InputDest(s, u, w) = Buffer!InputDest(start, used, wrap)
          /\ Buffer!InputAvail(s, u, w) = Buffer!InputAvail(start, used, wrap)
      BY <3>1, Zenon DEF Buffer!InputDest, Buffer!InputAvail, Buffer!CanTake
    <3> QED
      BY <1>2, <1>6, <2>2, <3>2 DEF PbIo
  <2> QED
    BY <2>1, <2>2
<1>13. Buffer!MtuBlocks \in Nat /\ InputMtu \in Nat
  BY BlocksBounded DEF Buffer!PacketBufferAssumption
<1>14. pb_receiving' = IF input_avail' >= InputMtu THEN input_dest' ELSE Buffer!NoDest
  <2>1. pb_receiving = IF input_avail >= InputMtu THEN input_dest ELSE Buffer!NoDest
    BY <1>2 DEF PbIo
  <2>2. CASE input_avail >= InputMtu
    <3>1. ~(input_avail < InputMtu)
      BY <1>11, <1>13, <2>2
    <3>2. input_avail' >= InputMtu
      BY <1>7, <1>11, <1>12, <1>13, <2>2
    <3>3. input_dest' = input_dest
      BY <1>7, <1>11, <1>12, <2>2, <3>2
    <3> QED
      BY <1>6, <2>1, <2>2, <3>1, <3>2, <3>3
  <2>3. CASE ~(input_avail >= InputMtu)
    <3>1. input_avail < InputMtu
      BY <1>11, <1>13, <2>3
    <3> QED
      BY <1>6, <2>1, <2>3, <3>1
  <2> QED
    BY <2>2, <2>3
<1>15. /\ output_avail' = IF pb_queue' = <<>> THEN Buffer!None ELSE pb_queue'[1].len
       /\ pb_queue' # <<>> => output_dest' = s + 1 /\ pb_queue'[1].len \in 0..InputMtu
  <2>1. u \in Nat /\ (pb_queue' = <<>> <=> u = 0)
    BY <1>7, <1>8, <1>9, OffsetFacts DEF PbRegion
  <2>2. CASE pb_queue' = <<>>
    <3>1. ~(u > 0)
      BY <2>1, <2>2
    <3> QED
      BY <1>6, <2>2, <3>1 DEF Buffer!OutputAvail
  <2>3. CASE pb_queue' # <<>>
    <3>1. Buffer!OutputAvail(mem', s, u) = pb_queue'[1].len /\ pb_queue'[1].len \in 0..InputMtu
      BY <1>7, <1>8, <1>9, <2>3, FirstPacket
    <3>2. u > 0
      BY <2>1, <2>3
    <3>3. output_dest' = s + 1
      BY <1>6, <3>2 DEF Buffer!OutputDest
    <3> QED
      BY <1>6, <2>3, <3>1, <3>3
  <2> QED
    BY <2>2, <2>3
<1>16. pb_sending' = IF pb_queue' = <<>> THEN [dest |-> Buffer!NoDest, len |-> Buffer!None]
                     ELSE [dest |-> s + 1, len |-> pb_queue'[1].len]
  <2>1. CASE pb_queue' = <<>>
    <3>1. ~(output_avail' >= 0)
      BY <1>15, <2>1 DEF Buffer!None
    <3> QED
      BY <1>6, <2>1, <3>1
  <2>2. CASE pb_queue' # <<>>
    <3>1. output_avail' >= 0 /\ output_avail' = pb_queue'[1].len /\ output_dest' = s + 1
      BY <1>13, <1>15, <2>2
    <3> QED
      BY <1>6, <2>2, <3>1
  <2> QED
    BY <2>1, <2>2
<1>17. PbIo'
  <2>1. output_dest' = Buffer!OutputDest(s, u)
    BY <1>6
  <2>2. /\ input_dest' = Buffer!InputDest(start', used', wrap')
        /\ input_avail' = Buffer!InputAvail(start', used', wrap')
        /\ output_dest' = Buffer!OutputDest(start', used')
    BY <1>5, <1>12, <2>1
  <2> QED
    BY <1>5, <1>14, <1>15, <1>16, <2>2 DEF PbIo, Buffer!InputDest, Buffer!InputAvail, Buffer!OutputDest,
       Buffer!CanTake, Buffer!Free, Buffer!End, Buffer!NoDest, Buffer!None
<1>18. PbRegion(start', used', wrap') /\ PbOffsets(o2, pb_queue', start', used', wrap')
       /\ PbHolds(o2, pb_queue', mem', start', wrap')
  BY <1>5, <1>7, <1>9
<1> QED
  BY <1>2, <1>6, <1>8, <1>17, <1>18 DEF BufferInv, PbLaid

(* A packet was received: it is the last one, and the first one is still there. *)
LEMMA PacketWasReceived ==
  ASSUME Buffer!PacketBufferAssumption, BufferInv,
         NEW p \in Packets, NEW len \in 0..InputMtu, Buffer!InputHandlerDone(p, len)
  PROVE  BufferInv'
<1>1. PICK off : PbOffsets(off, pb_queue, start, used, wrap) /\ PbHolds(off, pb_queue, mem, start, wrap)
  BY DEF BufferInv, PbLaid
<1>2. /\ pb_queue \in Seq(PbPackets) /\ PbRegion(start, used, wrap) /\ PbIo
      /\ mem \in [0..(Buffer!Size - 1) -> Buffer!Cells]
  BY DEF BufferInv
<1>3. Buffer!MtuBlocks \in Nat /\ InputMtu \in Nat
  BY BlocksBounded DEF Buffer!PacketBufferAssumption
<1>4. PICK e, bl, u, w : /\ e = Buffer!End(start, used, wrap) /\ bl = Buffer!Blocks(len)
                         /\ u = used' /\ w = wrap'
  OBVIOUS
<1>5. PICK r : r = [of |-> p, len |-> len]
  OBVIOUS
<1>6. r \in PbPackets /\ r.len = len /\ r.of = p
  BY <1>5 DEF PbPackets
<1>7. bl \in Nat /\ bl <= Buffer!MtuBlocks
  BY <1>4, BlocksBounded
<1>8. e + 1 + Buffer!MtuBlocks <= Buffer!Size /\ start + 1 + Buffer!MtuBlocks <= Buffer!Size
  BY <1>1, <1>2, <1>4, OffsetFacts
<1>9. pb_receiving = e + 1 /\ Buffer!Free(start, used, wrap) > Buffer!MtuBlocks /\ e \in Nat
  <2>1. pb_receiving # Buffer!NoDest
    BY DEF Buffer!InputHandlerDone
  <2>2. input_avail >= InputMtu /\ pb_receiving = input_dest
    BY <1>2, <2>1 DEF PbIo
  <2>3. /\ input_avail = Buffer!InputAvail(start, used, wrap)
        /\ input_dest = Buffer!InputDest(start, used, wrap)
    BY <1>2 DEF PbIo
  <2> QED
    BY <1>2, <1>4, <1>8, <2>2, <2>3, InputRoom
<1>10. /\ start' = start /\ u = used + 1 + bl
       /\ w = IF u <= wrap - start /\ Buffer!MtuBlocks > Buffer!Size - (e + 1 + bl) - 1
              THEN e + 1 + bl ELSE wrap
       /\ mem' = [i \in DOMAIN mem |->
                    IF i = e THEN [what |-> "len", len |-> len]
                    ELSE IF i \in (e + 1)..((e + 1) + (bl - 1)) THEN [what |-> "data", of |-> p]
                    ELSE mem[i]]
       /\ input_dest' = Buffer!InputDest(start, u, w) /\ input_avail' = Buffer!InputAvail(start, u, w)
       /\ IF u = 1 + bl
          THEN /\ output_dest' = Buffer!OutputDest(start, u)
               /\ output_avail' = Buffer!OutputAvail(mem', start, u)
          ELSE UNCHANGED <<output_dest, output_avail>>
  BY <1>4, <1>9 DEF Buffer!InputHandlerDone, Buffer!SubmitPacket
<1>11. /\ pb_receiving' = IF input_avail' >= InputMtu THEN input_dest' ELSE Buffer!NoDest
       /\ pb_sending' = IF output_avail < 0 THEN [dest |-> output_dest', len |-> output_avail']
                        ELSE pb_sending
       /\ pb_queue' = Append(pb_queue, r)
  BY <1>5 DEF Buffer!InputHandlerDone
<1>12. PbBehind(start, used, wrap, e, u, w) \/ PbBefore(start, used, wrap, e, u, w)
  BY <1>2, <1>4, <1>7, <1>9, <1>10, SubmitPlace
<1>13. PbWritten(mem', mem, e, bl, r)
  BY <1>2, <1>6, <1>10 DEF PbWritten
<1>14. PbRegion(start, u, w) /\ PbLaid(Append(pb_queue, r), mem', start, u, w)
  <2>1. u = used + 1 + bl /\ bl = Buffer!Blocks(r.len)
    BY <1>4, <1>6, <1>10
  <2>2. PICK m2 : m2 = mem'
    OBVIOUS
  <2>3. PbWritten(m2, mem, e, bl, r)
    BY <1>13, <2>2
  <2>4. PbRegion(start, u, w)
    BY <1>1, <1>2, <1>4, <1>6, <1>12, <2>1, <2>3, SubmitLayout
  <2>5. PbLaid(Append(pb_queue, r), m2, start, u, w)
    BY <1>1, <1>2, <1>4, <1>6, <1>12, <2>1, <2>3, SubmitLayout
  <2> QED
    BY <2>2, <2>4, <2>5
<1>15. mem' \in [0..(Buffer!Size - 1) -> Buffer!Cells]
  <2>1. [what |-> "len", len |-> len] \in Buffer!Cells /\ [what |-> "data", of |-> p] \in Buffer!Cells
    BY DEF Buffer!Cells
  <2>2. \A i \in 0..(Buffer!Size - 1) : mem[i] \in Buffer!Cells
    BY <1>2
  <2>3. DOMAIN mem = 0..(Buffer!Size - 1)
    BY <1>2
  <2> QED
    BY <1>10, <2>1, <2>2, <2>3
<1>16. pb_queue' \in Seq(PbPackets) /\ pb_queue' # <<>>
  BY <1>2, <1>6, <1>11, AppendProperties
<1>17. PICK o2 : PbOffsets(o2, pb_queue', start, u, w) /\ PbHolds(o2, pb_queue', mem', start, w)
  BY <1>11, <1>14 DEF PbLaid
<1>18. /\ Buffer!OutputAvail(mem', start, u) = pb_queue'[1].len
       /\ pb_queue'[1].len \in 0..InputMtu
  BY <1>14, <1>16, <1>17, FirstPacket
<1>19. u \in Nat /\ u > 0 /\ start \in Nat /\ used \in Nat /\ (pb_queue = <<>> <=> used = 0)
       /\ (u = 1 + bl <=> used = 0)
  <2>1. pb_queue = <<>> <=> used = 0
    BY <1>1, <1>2, OffsetFacts
  <2>2. start \in Nat /\ used \in Nat
    BY <1>2 DEF PbRegion
  <2> QED
    BY <1>7, <1>10, <2>1, <2>2
<1>20. /\ output_dest' = start + 1 /\ output_avail' = pb_queue'[1].len
       /\ pb_sending' = [dest |-> start + 1, len |-> pb_queue'[1].len]
  <2>1. CASE pb_queue = <<>>
    <3>1. /\ output_dest' = Buffer!OutputDest(start, u)
          /\ output_avail' = Buffer!OutputAvail(mem', start, u)
      BY <1>10, <1>19, <2>1
    <3>2. output_dest' = start + 1
      BY <1>19, <3>1 DEF Buffer!OutputDest
    <3>3. output_avail < 0
      BY <1>2, <2>1 DEF PbIo, Buffer!None
    <3> QED
      BY <1>11, <1>18, <3>1, <3>2, <3>3
  <2>2. CASE pb_queue # <<>>
    <3>1. used > 0 /\ ~(u = 1 + bl)
      BY <1>19, <2>2
    <3>2. output_dest' = output_dest /\ output_avail' = output_avail
      BY <1>10, <3>1
    <3>3. output_dest = start + 1 /\ output_avail = pb_queue[1].len
      BY <1>2, <2>2, <3>1 DEF PbIo, Buffer!OutputDest
    <3>4. pb_queue[1].len \in 0..InputMtu /\ 1 \in 1..Len(pb_queue)
      BY <1>1, <1>2, <2>2, FirstPacket
    <3>5. pb_queue'[1] = pb_queue[1]
      BY <1>2, <1>6, <1>11, <3>4, AppendProperties
    <3>6. ~(output_avail < 0)
      BY <1>3, <3>3, <3>4
    <3>7. pb_sending = [dest |-> start + 1, len |-> pb_queue[1].len]
      BY <1>2, <2>2 DEF PbIo
    <3> QED
      BY <1>11, <3>2, <3>3, <3>5, <3>6, <3>7
  <2> QED
    BY <2>1, <2>2
<1>21. PbIo'
  <2>1. output_dest' = Buffer!OutputDest(start, u)
    BY <1>19, <1>20 DEF Buffer!OutputDest
  <2>2. /\ input_dest' = Buffer!InputDest(start', used', wrap')
        /\ input_avail' = Buffer!InputAvail(start', used', wrap')
        /\ output_dest' = Buffer!OutputDest(start', used')
    BY <1>4, <1>10, <2>1
  <2>3. pb_sending' = [dest |-> start' + 1, len |-> pb_queue'[1].len]
    BY <1>10, <1>20
  <2> QED
    BY <1>11, <1>16, <1>20, <2>2, <2>3 DEF PbIo, Buffer!InputDest, Buffer!InputAvail, Buffer!OutputDest,
       Buffer!CanTake, Buffer!Free, Buffer!End, Buffer!NoDest, Buffer!None
<1>22. /\ PbRegion(start', used', wrap') /\ PbOffsets(o2, pb_queue', start', used', wrap')
       /\ PbHolds(o2, pb_queue', mem', start', wrap')
  BY <1>4, <1>10, <1>14, <1>17
<1> QED
  BY <1>15, <1>16, <1>21, <1>22 DEF BufferInv, PbLaid

LEMMA BufferStep ==
  ASSUME Buffer!PacketBufferAssumption, BufferInv, Buffer!Next \/ UNCHANGED Buffer!vars
  PROVE  BufferInv'
<1>1. CASE UNCHANGED Buffer!vars
  <2>1. UNCHANGED <<mem, wrap, start, used, input_dest, input_avail, output_dest, output_avail,
                    pb_receiving, pb_sending, pb_queue>>
    BY <1>1 DEF Buffer!vars, Buffer!region
  <2>2. PbRegion(start, used, wrap)' /\ PbLaid(pb_queue, mem, start, used, wrap)'
    BY <2>1 DEF BufferInv
  <2>3. PbIo'
    BY <2>1 DEF BufferInv, PbIo
  <2> QED
    BY <2>1, <2>2, <2>3 DEF BufferInv
<1>2. CASE Buffer!Next
  BY <1>2, PacketWasReceived, PacketWasSent DEF Buffer!Next
<1> QED
  BY <1>1, <1>2

(* Packets stay whole and in order on their way through PacketBuffer.c, the sender
   into the stream and PacketProtoDecoder.c, for any block size, MTU, number of
   packets to hold, header size and packet lengths: PacketBuffer never moves the
   place a receive writes to, sends the oldest packet unharmed, and takes as many
   packets as it was made for wherever it wraps; a stream is made of whole packets
   although connections are lost; the packets decoded are the ones sent. *)
THEOREM PacketsAreSafe ==
  ASSUME Buffer!PacketBufferAssumption, Sender!PacketSenderAssumption, Decoder!DecoderAssumption
  PROVE  Buffer!Spec /\ Sender!Spec /\ Decoder!Spec => []PacketsSafe
<1>1. Buffer!Init /\ Sender!Init /\ Decoder!Init => BufferInv /\ SenderInv /\ DecoderInv
  BY BufferInitInv, SenderInitInv, DecoderInitInv
<1>2. BufferInv /\ [Buffer!Next]_Buffer!vars => BufferInv'
  BY BufferStep
<1>3. SenderInv /\ [Sender!Next]_Sender!vars => SenderInv'
  BY SenderStep
<1>4. DecoderInv /\ [Decoder!Next]_Decoder!vars => DecoderInv'
  BY DecoderStep
<1>5. BufferInv /\ SenderInv /\ DecoderInv => PacketsSafe
  BY BufferInvSafe DEF SenderInv, DecoderInv, PacketsSafe
<1> QED
  BY <1>1, <1>2, <1>3, <1>4, <1>5, PTL DEF Buffer!Spec, Sender!Spec, Decoder!Spec

-----------------------------------------------------------------------------
(* The parts side by side, as the run of MCBadvpn has them. *)

(* A step of one part leaves the others as they are. *)
LEMMA PartsStep ==
  ASSUME [Next]_all
  PROVE  /\ [Churning!Next]_Churning!vars /\ [Buffer!Next]_Buffer!vars
         /\ [Decoder!Next]_Decoder!vars /\ [Reactor!Next]_Reactor!vars
         /\ [Connection!Next]_Connection!vars /\ [Sender!Next]_Sender!vars
<1>1. /\ UNCHANGED queue => UNCHANGED Churning!vars
      /\ UNCHANGED buffer => UNCHANGED Buffer!vars
      /\ UNCHANGED decoder => UNCHANGED Decoder!vars
      /\ UNCHANGED loop => UNCHANGED Reactor!vars
      /\ UNCHANGED connection => UNCHANGED Connection!vars
      /\ UNCHANGED sender => UNCHANGED Sender!vars
  <2>1. UNCHANGED queue => UNCHANGED Churning!vars
    BY DEF queue, Churning!vars
  <2>2. UNCHANGED buffer => UNCHANGED Buffer!vars
    BY DEF buffer, Buffer!vars, Buffer!region
  <2>3. UNCHANGED decoder => UNCHANGED Decoder!vars
    BY DEF decoder, Decoder!vars
  <2>4. UNCHANGED loop => UNCHANGED Reactor!vars
    BY DEF loop, Reactor!vars, Reactor!timers, Reactor!fds
  <2>5. UNCHANGED connection => UNCHANGED Connection!vars
    BY DEF connection, Connection!vars, Connection!user
  <2>6. UNCHANGED sender => UNCHANGED Sender!vars
    BY DEF sender, Sender!vars
  <2> QED
    BY <2>1, <2>2, <2>3, <2>4, <2>5, <2>6
<1>2. \/ UNCHANGED <<queue, buffer, decoder, loop, connection, sender>>
      \/ Queue!Next /\ UNCHANGED <<buffer, decoder, loop, connection, sender>>
      \/ Churning!Next /\ UNCHANGED <<buffer, decoder, loop, connection, sender>>
      \/ Buffer!Next /\ UNCHANGED <<queue, decoder, loop, connection, sender>>
      \/ Decoder!Next /\ UNCHANGED <<queue, buffer, loop, connection, sender>>
      \/ Reactor!Next /\ UNCHANGED <<queue, buffer, decoder, connection, sender>>
      \/ Connection!Next /\ UNCHANGED <<queue, buffer, decoder, loop, sender>>
      \/ Sender!Next /\ UNCHANGED <<queue, buffer, decoder, loop, connection>>
  BY DEF Next, all
<1>3. Queue!Next => Churning!Next
  BY QueueIsChurning
<1> QED
  BY <1>1, <1>2, <1>3

(* Every safety invariant of the run, for every value of the constants. *)
THEOREM BadvpnIsSafe == Spec => [](QueueSafe /\ PacketsSafe /\ ReactorSafe /\ ConnectionSafe)
<1>1. /\ Queue!FairQueueAssumption /\ Buffer!PacketBufferAssumption
      /\ Decoder!DecoderAssumption /\ Reactor!ReactorAssumption
      /\ Connection!ConnectionAssumption /\ Sender!PacketSenderAssumption
  BY FlowAssumption
<1>2. Init => /\ Churning!Init /\ Buffer!Init /\ Decoder!Init /\ Reactor!Init
              /\ Connection!Init /\ Sender!Init
  BY QueueIsChurning DEF Init
<1>3. [Next]_all => /\ [Churning!Next]_Churning!vars /\ [Buffer!Next]_Buffer!vars
                    /\ [Decoder!Next]_Decoder!vars /\ [Reactor!Next]_Reactor!vars
                    /\ [Connection!Next]_Connection!vars /\ [Sender!Next]_Sender!vars
  BY PartsStep
<1>4. Churning!Spec => []QueueSafe
  BY <1>1, QueueIsSafe
<1>5. Buffer!Spec /\ Sender!Spec /\ Decoder!Spec => []PacketsSafe
  BY <1>1, PacketsAreSafe
<1>6. Reactor!Spec => []ReactorSafe
  BY <1>1, ReactorIsSafe
<1>7. Connection!Spec => []ConnectionSafe
  BY <1>1, ConnectionIsSafe
<1> QED
  BY <1>2, <1>3, <1>4, <1>5, <1>6, <1>7, PTL DEF Spec, Churning!Spec, Buffer!Spec, Sender!Spec,
     Decoder!Spec, Reactor!Spec, Connection!Spec
=============================================================================
