---------------------------- MODULE AndroidProofs ----------------------------
(***************************************************************************)
(* Proofs about components of the app beside the tunnel, for any commands, *)
(* entries, attempts and bounds.  Although onDestroy and onRevoke run      *)
(* stopAndWaitForTunnel together and without a lock, neither gets past it  *)
(* while the tunnel thread runs; MyLog loses no error and has one reset    *)
(* due exactly while its circuit is open; FeedbackWorker runs one upload   *)
(* at a time, only when it may, and reports success only of what was       *)
(* uploaded; DataTransferStats never mixes periods in a bucket nor shows   *)
(* bytes as more recent than they are.  What UpgradeProofs shows of the    *)
(* upgrade holds of the components side by side as well.                   *)
(***************************************************************************)
EXTENDS MCAndroid, UpgradeProofs, FiniteSetTheorems, SequenceTheorems, TLAPS

-----------------------------------------------------------------------------
(* StopAndWait.                                                            *)

NotRunning == tunnel \in {"none", "ended"}

(* What holds the two callers together: a field is null only while there is
   no tunnel thread to find, and onRevoke has begun only for a thread that was
   there, so that no thread is started under it. *)
FieldsCover ==
  /\ ~m_tunnelThread => NotRunning
  /\ ~m_tunnelThreadStopSignal => NotRunning
RevokeNeedsTunnel == tunnel = "none" => sw_pc["binder"] = "idle"

StopInv == Stop!StopSafe /\ FieldsCover /\ RevokeNeedsTunnel

(* Nobody has called stopAndWaitForTunnel yet. *)
LEMMA StopInvInit ==
  ASSUME Stop!CommandsAssumption, Stop!Init
  PROVE  StopInv
<1>1. Stop!TypeOK
  <2>1. commands \in 0..MaxCommands /\ count \in 0..1
    BY DEF Stop!Init, Stop!CommandsAssumption
  <2>2. /\ m_tunnelThread \in BOOLEAN /\ m_tunnelThreadStopSignal \in BOOLEAN
        /\ stopSelf \in BOOLEAN /\ revoked \in BOOLEAN /\ sw_notified \in BOOLEAN
    BY Zenon DEF Stop!Init
  <2> QED
    BY <2>1, <2>2 DEF Stop!Init, Stop!TypeOK
<1>2. Stop!NobodyLeavesEarly /\ Stop!TunnelFindsItsSignal
  BY DEF Stop!Init, Stop!NobodyLeavesEarly, Stop!TunnelFindsItsSignal, Stop!Stoppers
<1>3. FieldsCover /\ RevokeNeedsTunnel
  BY DEF Stop!Init, FieldsCover, RevokeNeedsTunnel, NotRunning, Stop!Stoppers
<1> QED
  BY <1>1, <1>2, <1>3 DEF StopInv, Stop!StopSafe

(* The commands on the main thread move its pc between places from which
   nobody leaves, and touch neither fields nor tunnel thread. *)
LEMMA CommandsKeep ==
  ASSUME Stop!CommandsAssumption, StopInv,
         Stop!OnStopIntent \/ Stop!StopService \/ Stop!OnRevoke \/ Stop!OnStopIntentCount
           \/ Stop!SignalStopServiceChecks \/ Stop!SignalStopService \/ Stop!OnDestroy
           \/ Stop!OnDestroyEnds \/ Stop!OnRevokeNotifies
  PROVE  StopInv'
<1> USE DEF StopInv, Stop!StopSafe, Stop!CommandsAssumption
<1> USE DEF Stop!OnStopIntent, Stop!StopService, Stop!OnRevoke, Stop!OnStopIntentCount,
            Stop!SignalStopServiceChecks, Stop!SignalStopService, Stop!OnDestroy,
            Stop!OnDestroyEnds, Stop!OnRevokeNotifies, Stop!Goes, Stop!fields
<1>1. Stop!TypeOK'
  <2>1. /\ (m_tunnelThread \in BOOLEAN)' /\ (m_tunnelThreadStopSignal \in BOOLEAN)'
        /\ (stopSelf \in BOOLEAN)' /\ (revoked \in BOOLEAN)' /\ (sw_notified \in BOOLEAN)'
    BY ZenonT(30) DEF Stop!TypeOK
  <2>2. (tunnel \in {"none", "begin", "established", "await", "failing", "finally",
                     "stuck", "ended", "npe"})' /\ (count \in 0..1)' /\ (commands \in 0..MaxCommands)'
    BY DEF Stop!TypeOK
  <2>3. sw_pc' \in [Stop!Stoppers -> {"idle", "stop", "call", "signal", "check", "checkSignal",
                   "countDown", "read", "join", "clear", "forget", "left", "done", "npe"}]
    BY DEF Stop!TypeOK, Stop!Stoppers
  <2> QED
    BY <2>1, <2>2, <2>3 DEF Stop!TypeOK
<1>2. Stop!NobodyLeavesEarly'
  BY DEF Stop!TypeOK, Stop!NobodyLeavesEarly, Stop!Stoppers
<1>3. Stop!TunnelFindsItsSignal' /\ FieldsCover'
  BY DEF Stop!TunnelFindsItsSignal, FieldsCover, NotRunning
<1>4. RevokeNeedsTunnel'
  BY DEF Stop!TypeOK, RevokeNeedsTunnel, Stop!Stoppers
<1> QED
  BY <1>1, <1>2, <1>3, <1>4

(* onStartCommand starts the thread with both fields set; nobody is past the
   wait then, the main thread being idle and onRevoke not begun. *)
LEMMA StartKeeps ==
  ASSUME StopInv, Stop!OnStartCommand
  PROVE  StopInv'
<1> USE DEF StopInv, Stop!StopSafe, Stop!OnStartCommand
<1>1. Stop!TypeOK'
  BY DEF Stop!TypeOK
<1>2. Stop!NobodyLeavesEarly'
  BY DEF Stop!NobodyLeavesEarly, RevokeNeedsTunnel, Stop!Stoppers
<1>3. Stop!TunnelFindsItsSignal' /\ FieldsCover' /\ RevokeNeedsTunnel'
  BY DEF Stop!TunnelFindsItsSignal, FieldsCover, RevokeNeedsTunnel
<1> QED
  BY <1>1, <1>2, <1>3

(* The tunnel thread only moves while it runs, and then both fields are set. *)
LEMMA ThreadKeeps ==
  ASSUME StopInv, Stop!ThreadNext
  PROVE  StopInv'
<1> USE DEF StopInv, Stop!StopSafe, Stop!ThreadNext, Stop!RunTunnelEstablishes, Stop!RunTunnelFails,
            Stop!RunTunnelAwaits, Stop!RunTunnelSignalled, Stop!RunTunnelStops, Stop!VpnTeardownHangs,
            Stop!RunTunnel, Stop!fields
<1>1. Stop!TypeOK'
  BY DEF Stop!TypeOK
<1>2. Stop!NobodyLeavesEarly'
  BY DEF Stop!NobodyLeavesEarly
<1>3. Stop!TunnelFindsItsSignal' /\ FieldsCover' /\ RevokeNeedsTunnel'
  BY DEF Stop!TunnelFindsItsSignal, FieldsCover, RevokeNeedsTunnel, NotRunning
<1> QED
  BY <1>1, <1>2, <1>3

(* A caller inside stopAndWaitForTunnel: it leaves because it found no thread,
   and then there is none that runs, or because join() returned; only after
   that does it clear the fields. *)
LEMMA StopperKeeps ==
  ASSUME StopInv, NEW s \in Stop!Stoppers, Stop!StopperNext(s)
  PROVE  StopInv'
<1> USE DEF StopInv, Stop!StopSafe, Stop!StopperNext, Stop!StopperChecks, Stop!StopperChecksSignal,
            Stop!StopperCountsDown, Stop!StopperReadsThread, Stop!StopperJoins,
            Stop!StopperClearsSignal, Stop!StopperForgetsThread, Stop!Goes, Stop!fields
<1>1. Stop!TypeOK'
  <2>1. /\ (m_tunnelThread \in BOOLEAN)' /\ (m_tunnelThreadStopSignal \in BOOLEAN)'
        /\ (stopSelf \in BOOLEAN)' /\ (revoked \in BOOLEAN)' /\ (sw_notified \in BOOLEAN)'
    BY ZenonT(30) DEF Stop!TypeOK
  <2>2. (tunnel \in {"none", "begin", "established", "await", "failing", "finally",
                     "stuck", "ended", "npe"})' /\ (count \in 0..1)' /\ (commands \in 0..MaxCommands)'
    BY DEF Stop!TypeOK
  <2>3. sw_pc' \in [Stop!Stoppers -> {"idle", "stop", "call", "signal", "check", "checkSignal",
                   "countDown", "read", "join", "clear", "forget", "left", "done", "npe"}]
    BY DEF Stop!TypeOK, Stop!Stoppers
  <2> QED
    BY <2>1, <2>2, <2>3 DEF Stop!TypeOK
<1>2. UNCHANGED tunnel /\ sw_pc[s] # "idle"
  OBVIOUS
<1>3. Stop!NobodyLeavesEarly'
  BY DEF Stop!TypeOK, Stop!NobodyLeavesEarly, Stop!TunnelFindsItsSignal, FieldsCover, NotRunning
<1>4. FieldsCover'
  BY DEF FieldsCover, Stop!NobodyLeavesEarly, NotRunning
<1>5. RevokeNeedsTunnel'
  BY <1>2 DEF Stop!TypeOK, RevokeNeedsTunnel, Stop!Stoppers
<1> QED
  BY <1>1, <1>2, <1>3, <1>4, <1>5 DEF Stop!TunnelFindsItsSignal

(* stopAndWaitForTunnel, for any number of stop commands: neither onDestroy
   nor onRevoke gets past it while the tunnel thread runs, whichever of them
   clears the fields, and runTunnel finds the latch it waits for. *)
THEOREM StopIsSafe ==
  ASSUME Stop!CommandsAssumption
  PROVE  Stop!Spec => []StopSafe
<1>1. Stop!Init => StopInv
  BY StopInvInit
<1>2. StopInv /\ [Stop!Next]_Stop!vars => StopInv'
  <2> SUFFICES ASSUME StopInv, [Stop!Next]_Stop!vars
               PROVE  StopInv'
    OBVIOUS
  <2>1. CASE UNCHANGED Stop!vars
    BY <2>1 DEF Stop!vars, StopInv, Stop!StopSafe, Stop!TypeOK, Stop!NobodyLeavesEarly,
                Stop!TunnelFindsItsSignal, FieldsCover, RevokeNeedsTunnel, NotRunning
  <2> QED
    BY <2>1, CommandsKeep, StartKeeps, ThreadKeeps, StopperKeeps
       DEF Stop!Next, Stop!MainNext
<1>3. StopInv => StopSafe
  BY DEF StopInv, StopSafe
<1> QED
  BY <1>1, <1>2, <1>3, PTL DEF Stop!Spec

-----------------------------------------------------------------------------
(* MyLog.                                                                  *)

(* What CircuitConsistent counts, said without counting: a closed circuit
   has no reset, an open one has one, at the executor or at one place of its
   queue. *)
NoReset(q) == \A i \in 1..Len(q) : q[i] # Log!Reset
OneReset(q) ==
  \E i \in 1..Len(q) : q[i] = Log!Reset /\ \A j \in 1..Len(q) : q[j] = Log!Reset => j = i
ResetDue ==
  isShutdown = FALSE =>
    \/ circuitOpen = FALSE /\ running # Log!Reset /\ NoReset(tasks)
    \/ circuitOpen = TRUE /\ running = Log!Reset /\ NoReset(tasks)
    \/ circuitOpen = TRUE /\ running # Log!Reset /\ OneReset(tasks)

(* Also after shutdown(): the circuit is open when the failures have reached
   the threshold.  It keeps the counter in its range. *)
CircuitCounts == circuitOpen = TRUE <=> failureCount = Threshold

LogInv == Log!TypeOK /\ Log!ErrorsAreKept /\ ResetDue /\ CircuitCounts

(* The tasks of the executor.                                              *)
LEMMA LogTasks ==
  ASSUME Log!LogAssumption
  PROVE  /\ \A x \in Logs : Log!Insert(x, 0) \in Log!Tasks
         /\ \A t \in Log!Tasks : t.kind = "insert" =>
              /\ t # Log!Reset /\ t # Log!Nothing
              /\ t.log \in Logs /\ t.attempt \in 0..MaxRetries
              /\ t.attempt < MaxRetries =>
                   Log!Insert(t.log, t.attempt + 1) \in Log!Tasks
         /\ Log!Reset \in Log!Tasks /\ Log!Reset # Log!Nothing
         /\ Log!Nothing.kind # "insert" /\ Log!Reset.kind # "insert"
         /\ \A x, n : Log!Insert(x, n) # Log!Reset
<1> USE DEF Log!LogAssumption, Log!Tasks, Log!Insert, Log!Reset, Log!Nothing
<1>1. \A x \in Logs : Log!Insert(x, 0) \in Log!Tasks
  OBVIOUS
<1>2. ASSUME NEW t \in Log!Tasks, t.kind = "insert"
      PROVE  /\ t # Log!Reset /\ t # Log!Nothing
             /\ t.log \in Logs /\ t.attempt \in 0..MaxRetries
             /\ t.attempt < MaxRetries =>
                  Log!Insert(t.log, t.attempt + 1) \in Log!Tasks
  <2>1. PICK x \in Logs, n \in 0..MaxRetries : t = Log!Insert(x, n)
    BY <1>2
  <2>2. t.log = x /\ t.attempt = n /\ t # Log!Reset /\ t # Log!Nothing
    BY <2>1
  <2>3. n < MaxRetries => n + 1 \in 0..MaxRetries
    OBVIOUS
  <2> QED
    BY <2>2, <2>3
<1>3. /\ Log!Reset \in Log!Tasks /\ Log!Reset # Log!Nothing
      /\ Log!Nothing.kind # "insert" /\ Log!Reset.kind # "insert"
      /\ \A x, n : Log!Insert(x, n) # Log!Reset
  OBVIOUS
<1> QED
  BY <1>1, <1>2, <1>3

(* Adding to the queue and taking from it, as far as resets are concerned. *)
LEMMA QueueOfResets ==
  ASSUME Log!LogAssumption, NEW q \in Seq(Log!Tasks)
  PROVE  /\ \A t \in Log!Tasks : Append(q, t) \in Seq(Log!Tasks)
         /\ \A t \in Log!Tasks : t # Log!Reset =>
              /\ NoReset(q) => NoReset(Append(q, t))
              /\ OneReset(q) => OneReset(Append(q, t))
         /\ NoReset(q) => OneReset(Append(q, Log!Reset))
         /\ q # <<>> =>
              /\ Head(q) \in Log!Tasks /\ Tail(q) \in Seq(Log!Tasks)
              /\ NoReset(q) => Head(q) # Log!Reset /\ NoReset(Tail(q))
              /\ OneReset(q) =>
                   IF Head(q) = Log!Reset THEN NoReset(Tail(q)) ELSE OneReset(Tail(q))
<1>1. ASSUME NEW t \in Log!Tasks
      PROVE  /\ Append(q, t) \in Seq(Log!Tasks)
             /\ Len(Append(q, t)) = Len(q) + 1
             /\ Append(q, t)[Len(q) + 1] = t
             /\ \A i \in 1..Len(q) : Append(q, t)[i] = q[i]
  OBVIOUS
<1>2. Len(q) \in Nat
  OBVIOUS
<1>3. ASSUME NEW t \in Log!Tasks, t # Log!Reset
      PROVE  /\ NoReset(q) => NoReset(Append(q, t))
             /\ OneReset(q) => OneReset(Append(q, t))
  <2> DEFINE r == Append(q, t)
  <2>1. /\ Len(r) = Len(q) + 1 /\ r[Len(q) + 1] # Log!Reset
        /\ \A i \in 1..Len(q) : r[i] = q[i]
    BY <1>1, <1>3
  <2> HIDE DEF r
  <2>2. \A i \in 1..Len(r) : i \in 1..Len(q) \/ i = Len(q) + 1
    BY <1>2, <2>1
  <2>3. \A i \in 1..Len(q) : i \in 1..Len(r)
    BY <1>2, <2>1
  <2>4. NoReset(q) => NoReset(r)
    BY <2>1, <2>2, Zenon DEF NoReset
  <2>5. OneReset(q) => OneReset(r)
    BY <2>1, <2>2, <2>3, Zenon DEF OneReset
  <2> QED
    BY <2>4, <2>5 DEF r
<1>4. ASSUME NoReset(q) PROVE OneReset(Append(q, Log!Reset))
  <2> DEFINE r == Append(q, Log!Reset)
  <2>1. /\ Len(r) = Len(q) + 1 /\ r[Len(q) + 1] = Log!Reset
        /\ \A i \in 1..Len(q) : r[i] = q[i]
    BY <1>1, LogTasks
  <2> HIDE DEF r
  <2>2. \A i \in 1..Len(r) : i \in 1..Len(q) \/ i = Len(q) + 1
    BY <1>2, <2>1
  <2>3. Len(q) + 1 \in 1..Len(r)
    BY <1>2, <2>1
  <2>4. OneReset(r)
    BY <1>4, <2>1, <2>2, <2>3, Zenon DEF OneReset, NoReset
  <2> QED
    BY <2>4 DEF r
<1>5. ASSUME q # <<>>
      PROVE  /\ Head(q) \in Log!Tasks /\ Tail(q) \in Seq(Log!Tasks)
             /\ NoReset(q) => Head(q) # Log!Reset /\ NoReset(Tail(q))
             /\ OneReset(q) =>
                  IF Head(q) = Log!Reset THEN NoReset(Tail(q)) ELSE OneReset(Tail(q))
  <2> DEFINE r == Tail(q)
  <2>1. /\ Head(q) \in Log!Tasks /\ Head(q) = q[1] /\ r \in Seq(Log!Tasks)
        /\ Len(r) = Len(q) - 1 /\ \A i \in 1..Len(r) : r[i] = q[i + 1]
    BY <1>5, HeadTailProperties
  <2>2. Len(q) # 0
    BY <1>5, EmptySeq
  <2> HIDE DEF r
  <2>3. \A i \in 1..Len(r) : i + 1 \in 1..Len(q) /\ i + 1 # 1
    BY <1>2, <2>1, <2>2
  <2>4. 1 \in 1..Len(q)
    BY <1>2, <2>2
  <2>5. NoReset(q) => Head(q) # Log!Reset /\ NoReset(r)
    BY <2>1, <2>3, <2>4, Zenon DEF NoReset
  <2>6. ASSUME OneReset(q), Head(q) = Log!Reset PROVE NoReset(r)
    BY <2>1, <2>3, <2>4, <2>6, ZenonT(60) DEF OneReset, NoReset
  <2>7. ASSUME OneReset(q), Head(q) # Log!Reset PROVE OneReset(r)
    <3>1. PICK k \in 1..Len(q) : /\ q[k] = Log!Reset
                                 /\ \A j \in 1..Len(q) : q[j] = Log!Reset => j = k
      BY <2>7 DEF OneReset
    <3>2. k - 1 \in 1..Len(r) /\ r[k - 1] = Log!Reset
      BY <1>2, <2>1, <2>7, <3>1
    <3>3. ASSUME NEW j \in 1..Len(r), r[j] = Log!Reset PROVE j = k - 1
      <4>1. j + 1 = k
        BY <2>1, <2>3, <3>1, <3>3
      <4> QED
        BY <4>1
    <3> QED
      BY <3>2, <3>3 DEF OneReset
  <2> QED
    BY <2>1, <2>5, <2>6, <2>7 DEF r
<1> QED
  BY <1>1, <1>3, <1>4, <1>5

(* The logger starts closed and empty.                                     *)
LEMMA LogInit ==
  ASSUME Log!LogAssumption, Log!Init
  PROVE  LogInv
<1>1. Log!TypeOK
  <2>1. /\ isInitialized \in BOOLEAN /\ isShutdown \in BOOLEAN
        /\ circuitOpen \in BOOLEAN /\ asleep \in BOOLEAN
    BY Zenon DEF Log!Init
  <2>2. tasks \in Seq(Log!Tasks)
    BY EmptySeq DEF Log!Init
  <2> QED
    BY <2>1, <2>2 DEF Log!Init, Log!TypeOK, Log!LogAssumption
<1>2. Log!ErrorsAreKept
  BY DEF Log!Init, Log!ErrorsAreKept, Log!LogAssumption
<1>3. ResetDue /\ CircuitCounts
  <2>1. Len(tasks) = 0
    BY EmptySeq DEF Log!Init
  <2>2. NoReset(tasks)
    BY <2>1 DEF NoReset
  <2> QED
    BY <2>2, LogTasks DEF Log!Init, ResetDue, CircuitCounts, Log!LogAssumption
<1> QED
  BY <1>1, <1>2, <1>3 DEF LogInv

(* The parts of TypeOK that a step may disturb, one at a time.             *)
LEMMA LogTypeStep ==
  ASSUME Log!LogAssumption, LogInv, Log!Next
  PROVE  Log!TypeOK'
<1> DEFINE Places == {"none", "captured", "queued", "thrown", "stored", "logcat", "dropped"}
<1>1. /\ tasks \in Seq(Log!Tasks) /\ running \in Log!Tasks \cup {Log!Nothing}
      /\ where \in [Logs -> Places] /\ failureCount \in 0..Threshold
      /\ Threshold \in Nat \ {0}
  BY DEF LogInv, Log!TypeOK, Log!LogAssumption
<1>2. /\ isInitialized \in BOOLEAN /\ isShutdown \in BOOLEAN
      /\ circuitOpen \in BOOLEAN /\ asleep \in BOOLEAN
  BY DEF LogInv, Log!TypeOK
<1> USE DEF Log!flags
<1>3. running.kind = "insert" =>
        /\ running \in Log!Tasks /\ running.log \in Logs
        /\ running.attempt < MaxRetries =>
             Log!Insert(running.log, running.attempt + 1) \in Log!Tasks
  BY <1>1, LogTasks
<1>4. \A x : Log!GivenUp(x) \in Places
  BY DEF Log!GivenUp
<1>5. (isInitialized \in BOOLEAN)' /\ (isShutdown \in BOOLEAN)'
  BY <1>2, ZenonT(20) DEF Log!Next, Log!InitLog, Log!Shutdown, Log!StoreLog, Log!Execute,
       Log!ExecutorNext, Log!Takes, Log!Wakes, Log!InsertSkipped,
       Log!InsertSucceeds, Log!InsertFails, Log!CircuitResets
<1>6. (asleep \in BOOLEAN)'
  BY <1>2, ZenonT(20) DEF Log!Next, Log!InitLog, Log!Shutdown, Log!StoreLog, Log!Execute,
       Log!ExecutorNext, Log!Takes, Log!Wakes, Log!InsertSkipped,
       Log!InsertSucceeds, Log!InsertFails, Log!CircuitResets
<1>7. (circuitOpen \in BOOLEAN)'
  <2>1. CASE Log!InsertFails
    BY <1>1, <2>1 DEF Log!InsertFails
  <2> QED
    BY <1>2, <2>1, ZenonT(20) DEF Log!Next, Log!InitLog, Log!Shutdown, Log!StoreLog,
         Log!Execute, Log!ExecutorNext, Log!Takes, Log!Wakes, Log!InsertSkipped,
         Log!InsertSucceeds, Log!CircuitResets
<1>8. failureCount' \in 0..Threshold
  <2>1. circuitOpen = FALSE => failureCount + 1 \in 0..Threshold
    BY <1>1 DEF LogInv, CircuitCounts
  <2> QED
    BY <1>1, <2>1 DEF Log!Next, Log!InitLog, Log!Shutdown, Log!StoreLog, Log!Execute,
         Log!ExecutorNext, Log!Takes, Log!Wakes, Log!InsertSkipped,
         Log!InsertSucceeds, Log!InsertFails, Log!CircuitResets
<1>9. tasks' \in Seq(Log!Tasks) /\ running' \in Log!Tasks \cup {Log!Nothing}
  <2>1. CASE \/ Log!InitLog \/ Log!Wakes \/ Log!InsertSkipped
             \/ Log!InsertSucceeds \/ Log!CircuitResets
    BY <1>1, <2>1 DEF Log!InitLog, Log!Wakes, Log!InsertSkipped,
         Log!InsertSucceeds, Log!CircuitResets
  <2>2. CASE Log!Shutdown
    BY <1>1, <2>2, EmptySeq DEF Log!Shutdown
  <2>3. CASE Log!Takes
    BY <1>1, <2>3, QueueOfResets DEF Log!Takes
  <2>4. ASSUME NEW x \in Logs, Log!StoreLog(x) \/ Log!Execute(x)
        PROVE  tasks' \in Seq(Log!Tasks) /\ running' = running
    <3>1. Log!Insert(x, 0) \in Log!Tasks
      BY LogTasks
    <3>2. running' = running /\ (tasks' = tasks \/ tasks' = Append(tasks, Log!Insert(x, 0)))
      BY <2>4 DEF Log!StoreLog, Log!Execute
    <3> QED
      BY <1>1, <3>1, <3>2, QueueOfResets
  <2>5. CASE Log!InsertFails
    <3>1. /\ running.kind = "insert" /\ running' = Log!Nothing
          /\ \/ tasks' = tasks
             \/ tasks' = Append(tasks, Log!Reset)
             \/ /\ running.attempt < MaxRetries
                /\ tasks' = Append(tasks, Log!Insert(running.log, running.attempt + 1))
      BY <2>5 DEF Log!InsertFails, Log!Schedules
    <3> QED
      BY <1>1, <1>3, <3>1, LogTasks, QueueOfResets
  <2> QED
    BY <1>1, <2>1, <2>2, <2>3, <2>4, <2>5 DEF Log!Next, Log!ExecutorNext
<1>10. where' \in [Logs -> Places]
  <2>1. CASE Log!InitLog \/ Log!Wakes \/ Log!Takes \/ Log!CircuitResets
    BY <1>1, <2>1 DEF Log!InitLog, Log!Wakes, Log!Takes, Log!CircuitResets
  <2>2. CASE Log!Shutdown
    <3>1. where' = [x \in Logs |->
            IF where[x] # "queued" THEN where[x]
            ELSE IF ~Log!Runs(x) THEN "dropped"
            ELSE IF asleep THEN Log!GivenUp(x) ELSE "queued"]
      BY <2>2 DEF Log!Shutdown
    <3> QED
      BY <1>1, <1>4, <3>1
  <2>3. ASSUME NEW x \in Logs, Log!StoreLog(x) \/ Log!Execute(x)
        PROVE  where' \in [Logs -> Places]
    <3>1. \E v \in Places : where' = [where EXCEPT ![x] = v]
      BY <2>3 DEF Log!StoreLog, Log!Execute
    <3> QED
      BY <1>1, <3>1
  <2>4. CASE Log!InsertSkipped \/ Log!InsertSucceeds \/ Log!InsertFails
    <3>1. /\ running.kind = "insert"
          /\ \/ where' = where
             \/ \E v \in Places : where' = [where EXCEPT ![running.log] = v]
      BY <1>4, <2>4 DEF Log!InsertSkipped, Log!InsertSucceeds, Log!InsertFails
    <3> QED
      BY <1>1, <1>3, <3>1
  <2> QED
    BY <2>1, <2>2, <2>3, <2>4 DEF Log!Next, Log!ExecutorNext
<1> QED
  BY <1>5, <1>6, <1>7, <1>8, <1>9, <1>10 DEF Log!TypeOK

(* An error is dropped only by a logger that has been shut down.           *)
LEMMA LogErrorsStep ==
  ASSUME Log!LogAssumption, LogInv, Log!Next
  PROVE  Log!ErrorsAreKept'
<1> USE DEF Log!flags
<1>1. where \in [Logs -> {"none", "captured", "queued", "thrown", "stored", "logcat", "dropped"}]
  BY DEF LogInv, Log!TypeOK
<1>2. Errors \subseteq Logs
  BY DEF Log!LogAssumption
<1>3. SUFFICES ASSUME NEW e \in Errors, where'[e] = "dropped" PROVE isShutdown'
  BY DEF Log!ErrorsAreKept
<1>4. e \in Logs /\ Log!GivenUp(e) # "dropped" /\ (where[e] = "dropped" => isShutdown)
  BY <1>2 DEF Log!GivenUp, LogInv, Log!ErrorsAreKept
<1>5. CASE Log!InitLog \/ Log!Wakes \/ Log!Takes \/ Log!CircuitResets
  BY <1>3, <1>4, <1>5, Zenon DEF Log!InitLog, Log!Wakes, Log!Takes, Log!CircuitResets
<1>6. CASE Log!Shutdown
  BY <1>6 DEF Log!Shutdown
<1>7. ASSUME NEW x \in Logs, Log!StoreLog(x) \/ Log!Execute(x) PROVE isShutdown'
  <2>1. /\ isShutdown' = isShutdown
        /\ \E v \in {"captured", "thrown", "queued"} : where' = [where EXCEPT ![x] = v]
    BY <1>7 DEF Log!StoreLog, Log!Execute
  <2>2. where[e] = "dropped"
    BY <1>1, <1>3, <1>4, <2>1
  <2> QED
    BY <1>4, <2>1, <2>2
<1>8. CASE Log!InsertSkipped \/ Log!InsertSucceeds \/ Log!InsertFails
  <2>1. /\ isShutdown' = isShutdown
        /\ \/ where' = where
           \/ where' = [where EXCEPT ![running.log] = Log!GivenUp(running.log)]
           \/ where' = [where EXCEPT ![running.log] = "stored"]
           \/ isShutdown
    BY <1>8 DEF Log!InsertSkipped, Log!InsertSucceeds, Log!InsertFails
  <2>2. where[e] = "dropped" \/ isShutdown
    BY <1>1, <1>3, <1>4, <2>1
  <2> QED
    BY <1>4, <2>1, <2>2
<1> QED
  BY <1>5, <1>6, <1>7, <1>8 DEF Log!Next, Log!ExecutorNext

(* One reset is due exactly while the circuit is open.                     *)
LEMMA LogCircuitStep ==
  ASSUME Log!LogAssumption, LogInv, Log!Next
  PROVE  ResetDue' /\ CircuitCounts'
<1> USE DEF Log!flags
<1>1. /\ tasks \in Seq(Log!Tasks) /\ running \in Log!Tasks \cup {Log!Nothing}
      /\ failureCount \in 0..Threshold /\ Threshold \in Nat \ {0}
      /\ ResetDue /\ CircuitCounts
  BY DEF LogInv, Log!TypeOK, Log!LogAssumption
<1>2. isShutdown \in BOOLEAN /\ circuitOpen \in BOOLEAN
  BY DEF LogInv, Log!TypeOK
<1>3. ASSUME UNCHANGED <<isShutdown, circuitOpen, failureCount, tasks, running>>
      PROVE  ResetDue' /\ CircuitCounts'
  BY <1>1, <1>3 DEF ResetDue, CircuitCounts, NoReset, OneReset
<1>4. CASE Log!InitLog \/ Log!Wakes \/ \E x \in Logs : Log!StoreLog(x)
  BY <1>3, <1>4 DEF Log!InitLog, Log!Wakes, Log!StoreLog
<1>5. ASSUME NEW x \in Logs, Log!Execute(x) PROVE ResetDue' /\ CircuitCounts'
  <2>1. /\ UNCHANGED <<isShutdown, circuitOpen, failureCount, running>>
        /\ tasks' = tasks \/ tasks' = Append(tasks, Log!Insert(x, 0))
    BY <1>5 DEF Log!Execute
  <2>2. Log!Insert(x, 0) \in Log!Tasks /\ Log!Insert(x, 0) # Log!Reset
    BY LogTasks
  <2>3. (NoReset(tasks) => NoReset(tasks')) /\ (OneReset(tasks) => OneReset(tasks'))
    BY <1>1, <2>1, <2>2, QueueOfResets
  <2> QED
    BY <1>1, <2>1, <2>3 DEF ResetDue, CircuitCounts
<1>6. CASE Log!Shutdown
  BY <1>1, <1>6 DEF Log!Shutdown, ResetDue, CircuitCounts
<1>7. CASE Log!Takes
  <2>1. /\ UNCHANGED <<isShutdown, circuitOpen, failureCount>>
        /\ running = Log!Nothing /\ tasks # <<>>
        /\ running' = Head(tasks) /\ tasks' = Tail(tasks)
    BY <1>7 DEF Log!Takes
  <2>2. running # Log!Reset
    BY <2>1, LogTasks
  <2>3. /\ NoReset(tasks) => running' # Log!Reset /\ NoReset(tasks')
        /\ OneReset(tasks) => IF running' = Log!Reset THEN NoReset(tasks')
                                                      ELSE OneReset(tasks')
    BY <1>1, <2>1, QueueOfResets
  <2> QED
    BY <1>1, <2>1, <2>2, <2>3 DEF ResetDue, CircuitCounts
<1>8. ASSUME running.kind = "insert", running' = Log!Nothing, tasks' = tasks,
             UNCHANGED <<isShutdown, circuitOpen>>
      PROVE  ResetDue'
  <2>1. running # Log!Reset /\ running' # Log!Reset
    BY <1>8, LogTasks
  <2> QED
    BY <1>1, <1>8, <2>1 DEF ResetDue
<1>9. CASE Log!InsertSkipped
  BY <1>1, <1>8, <1>9 DEF Log!InsertSkipped, CircuitCounts
<1>10. CASE Log!InsertSucceeds
  <2>1. /\ running.kind = "insert" /\ circuitOpen = FALSE /\ circuitOpen' = circuitOpen
        /\ running' = Log!Nothing /\ failureCount' = 0
        /\ tasks' = tasks /\ isShutdown' = isShutdown
    BY <1>2, <1>10 DEF Log!InsertSucceeds
  <2> QED
    BY <1>1, <1>8, <2>1 DEF CircuitCounts
<1>11. CASE Log!InsertFails
  <2> DEFINE opens == failureCount' >= Threshold
  <2>1. /\ running.kind = "insert" /\ circuitOpen = FALSE
        /\ running' = Log!Nothing /\ failureCount' = failureCount + 1
        /\ isShutdown' = isShutdown
        /\ circuitOpen' = opens
    BY <1>2, <1>11 DEF Log!InsertFails
  <2>2. running # Log!Reset /\ running' # Log!Reset
    BY <2>1, LogTasks
  <2>3. (circuitOpen' = TRUE <=> opens) /\ circuitOpen' \in BOOLEAN
    <3>1. circuitOpen' \in BOOLEAN
      BY LogTypeStep DEF Log!TypeOK
    <3>2. circuitOpen' <=> opens
      BY <2>1
    <3> QED
      BY <3>1, <3>2, Zenon
  <2>4. CircuitCounts'
    BY <1>1, <2>1, <2>3 DEF CircuitCounts
  <2>5. ASSUME isShutdown = FALSE
        PROVE  \/ circuitOpen' = TRUE /\ tasks' = Append(tasks, Log!Reset)
               \/ circuitOpen' = FALSE /\ tasks' = tasks
               \/ /\ circuitOpen' = FALSE /\ running.attempt < MaxRetries
                  /\ tasks' = Append(tasks, Log!Insert(running.log, running.attempt + 1))
    <3>1. CASE opens
      BY <1>11, <2>3, <2>5, <3>1 DEF Log!InsertFails, Log!Schedules
    <3>2. CASE ~opens
      BY <1>11, <2>3, <2>5, <3>2 DEF Log!InsertFails, Log!Schedules
    <3> QED
      BY <3>1, <3>2
  <2>6. ResetDue'
    <3>1. SUFFICES ASSUME isShutdown = FALSE
                   PROVE  \/ circuitOpen' = FALSE /\ NoReset(tasks')
                          \/ circuitOpen' = TRUE /\ OneReset(tasks')
      BY <2>1, <2>2 DEF ResetDue
    <3>2. NoReset(tasks)
      BY <1>1, <2>1, <3>1 DEF ResetDue
    <3>3. running \in Log!Tasks
      BY <1>1, <2>1, LogTasks
    <3>4. running.attempt < MaxRetries =>
            /\ Log!Insert(running.log, running.attempt + 1) \in Log!Tasks
            /\ Log!Insert(running.log, running.attempt + 1) # Log!Reset
      BY <2>1, <3>3, LogTasks
    <3> QED
      BY <1>1, <2>5, <3>1, <3>2, <3>4, QueueOfResets
  <2> QED
    BY <2>4, <2>6
<1>12. CASE Log!CircuitResets
  <2>1. /\ running = Log!Reset /\ running' = Log!Nothing /\ tasks' = tasks
        /\ circuitOpen' = FALSE /\ failureCount' = 0 /\ isShutdown' = isShutdown
    BY <1>12 DEF Log!CircuitResets
  <2>2. running' # Log!Reset
    BY <2>1, LogTasks
  <2> QED
    BY <1>1, <2>1, <2>2 DEF ResetDue, CircuitCounts
<1> QED
  BY <1>4, <1>5, <1>6, <1>7, <1>9, <1>10, <1>11, <1>12 DEF Log!Next, Log!ExecutorNext

(* Counting the resets of a queue that has none, or one.                   *)
LEMMA ResetsCounted ==
  ASSUME Log!LogAssumption, LogInv
  PROVE  Log!CircuitConsistent
<1> DEFINE Places == {i \in DOMAIN tasks : tasks[i] = Log!Reset}
<1>1. tasks \in Seq(Log!Tasks) /\ DOMAIN tasks = 1..Len(tasks)
  BY DEF LogInv, Log!TypeOK
<1>2. isShutdown \in BOOLEAN /\ circuitOpen \in BOOLEAN
  BY DEF LogInv, Log!TypeOK
<1>3. \A S : Log!Cardinality(S) = Cardinality(S)
  BY DEF Log!Cardinality, Cardinality
<1>4. NoReset(tasks) => Cardinality(Places) = 0
  <2>1. NoReset(tasks) => Places = {}
    BY <1>1 DEF NoReset
  <2> QED
    BY <2>1, FS_EmptySet
<1>5. OneReset(tasks) => Cardinality(Places) = 1
  <2>1. OneReset(tasks) => \E i : Places = {i}
    BY <1>1 DEF OneReset
  <2> QED
    BY <2>1, FS_Singleton
<1> HIDE DEF Places
<1>6. isShutdown = FALSE =>
        Cardinality(Places) + (IF running = Log!Reset THEN 1 ELSE 0)
          = (IF circuitOpen THEN 1 ELSE 0)
  BY <1>4, <1>5 DEF LogInv, ResetDue
<1>7. circuitOpen = (failureCount = Threshold)
  BY <1>2, Zenon DEF LogInv, CircuitCounts
<1>8. isShutdown = FALSE =>
        Log!Cardinality({i \in DOMAIN tasks : tasks[i] = Log!Reset})
          + (IF running = Log!Reset THEN 1 ELSE 0) = (IF circuitOpen THEN 1 ELSE 0)
  BY <1>3, <1>6 DEF Places
<1> QED
  BY <1>2, <1>7, <1>8, Zenon DEF Log!CircuitConsistent

(* MyLog.java, for any entries, retry limit and threshold, whatever the
   provider does and whenever the logger is shut down: an error is stored, on
   its way or in logcat, and an open circuit has exactly one reset due. *)
THEOREM LogIsSafe ==
  ASSUME Log!LogAssumption
  PROVE  Log!Spec => []LogSafe
<1>1. LogInv /\ [Log!Next]_(Log!vars) => LogInv'
  <2> SUFFICES ASSUME LogInv, [Log!Next]_(Log!vars) PROVE LogInv'
    OBVIOUS
  <2>1. CASE Log!Next
    BY <2>1, LogTypeStep, LogErrorsStep, LogCircuitStep DEF LogInv
  <2>2. CASE UNCHANGED Log!vars
    BY <2>2 DEF Log!vars, LogInv, Log!TypeOK, Log!ErrorsAreKept, ResetDue,
         CircuitCounts, NoReset, OneReset
  <2> QED
    BY <2>1, <2>2
<1>2. LogInv => LogSafe
  BY ResetsCounted DEF LogInv, LogSafe, Log!LogSafe
<1>3. Log!Init => LogInv
  BY LogInit
<1> QED
  BY <1>1, <1>2, <1>3, PTL DEF Log!Spec

-----------------------------------------------------------------------------
(* FeedbackWorker.                                                         *)

(* What a run of the core and the emitter know of each other: an upload that
   runs can still be disposed of, one whose result is under way has ended, the
   ones not started are untouched, and a result "success" comes from an upload
   that reached the server. *)
RunsWithEmitter == \A u \in Feedback!Uploads : fb_core[u] = "active" => emitter[u] = "live"
ResultAfterEnd == \A u \in Feedback!Uploads : callback[u] # "none" => fb_core[u] # "active"
FreshUploads ==
  /\ inner <= started
  /\ \A u \in Feedback!Uploads : u > started =>
       fb_core[u] = "none" /\ callback[u] = "none" /\ emitter[u] = "none"
SuccessWasUploaded ==
  \A u \in Feedback!Uploads : callback[u] = "success" => uploaded = TRUE

(* UploadOnlyWhenAllowed in the form in which it is kept.                  *)
OnlyInner ==
  \A u \in Feedback!Uploads : fb_core[u] = "active" =>
    /\ work = "running" /\ inner = u /\ owner[u] = attempt
    /\ last \in {"stopped", "connected"}

FeedbackInv ==
  /\ Feedback!TypeOK
  /\ OnlyInner /\ RunsWithEmitter /\ ResultAfterEnd /\ FreshUploads
  /\ SuccessWasUploaded
  /\ work = "success" => uploaded = TRUE

(* A feedback starts with no upload.                                       *)
LEMMA FeedbackInit ==
  ASSUME Feedback!FeedbackAssumption, Feedback!Init
  PROVE  FeedbackInv
<1>1. Feedback!TypeOK
  <2>1. /\ states \in Seq(Feedback!TunnelStates)
        /\ attempt \in Feedback!Attempts /\ 0 \in Feedback!Attempts
        /\ changes \in 0..MaxChanges
    BY EmptySeq DEF Feedback!Init, Feedback!Attempts, Feedback!FeedbackAssumption
  <2>2. uploaded \in BOOLEAN
    BY Zenon DEF Feedback!Init
  <2> QED
    BY <2>1, <2>2 DEF Feedback!Init, Feedback!TypeOK, Feedback!NoUpload
<1> QED
  BY <1>1 DEF Feedback!Init, FeedbackInv, OnlyInner, RunsWithEmitter,
       ResultAfterEnd, FreshUploads, SuccessWasUploaded, Feedback!NoUpload

(* Disposing of the upload that switchMap is subscribed to leaves none that
   runs, and changes nothing else of the uploads. *)
LEMMA DisposedUpload ==
  ASSUME FeedbackInv
  PROVE  LET r == Feedback!Disposed(inner)
             e == Feedback!EmitterDisposed(inner)
         IN  /\ r.core \in [Feedback!Uploads -> {"none", "active", "completed", "down"}]
             /\ r.hooks \subseteq Feedback!Uploads
             /\ r.field \in [Feedback!Attempts -> Feedback!Uploads \cup {Feedback!NoUpload}]
             /\ e \in [Feedback!Uploads -> {"none", "live", "disposed"}]
             /\ \A u \in Feedback!Uploads :
                  /\ r.core[u] # "active"
                  /\ r.core[u] # fb_core[u] => r.core[u] = "down" /\ emitter[u] = "live"
<1> DEFINE r == Feedback!Disposed(inner)
           e == Feedback!EmitterDisposed(inner)
           U == Feedback!Uploads
<1>1. /\ fb_core \in [U -> {"none", "active", "completed", "down"}]
      /\ emitter \in [U -> {"none", "live", "disposed"}]
      /\ owner \in [U -> Feedback!Attempts]
      /\ shutdownHook \in [Feedback!Attempts -> U \cup {Feedback!NoUpload}]
      /\ hooks \subseteq U /\ inner \in U \cup {Feedback!NoUpload}
  BY DEF FeedbackInv, Feedback!TypeOK
<1>2. Feedback!NoUpload \notin U
  BY DEF Feedback!NoUpload, Feedback!Uploads
<1>3. \A u \in U : fb_core[u] = "active" => inner = u /\ emitter[u] = "live"
  BY DEF FeedbackInv, OnlyInner, RunsWithEmitter
<1>4. e \in [U -> {"none", "live", "disposed"}]
  BY <1>1 DEF Feedback!EmitterDisposed
<1>5. CASE inner # Feedback!NoUpload /\ emitter[inner] = "live"
  <2>1. /\ r.core = [fb_core EXCEPT ![inner] = "down"]
        /\ r.hooks = hooks \ {shutdownHook[owner[inner]]}
        /\ r.field = [shutdownHook EXCEPT ![owner[inner]] = Feedback!NoUpload]
    BY <1>5 DEF Feedback!Disposed, Feedback!Cancelled
  <2>2. inner \in U
    BY <1>1, <1>5
  <2> HIDE DEF r, e, U
  <2>3. /\ r.core \in [U -> {"none", "active", "completed", "down"}]
        /\ r.hooks \subseteq U
        /\ r.field \in [Feedback!Attempts -> U \cup {Feedback!NoUpload}]
    BY <1>1, <2>1, <2>2
  <2>4. ASSUME NEW u \in U
        PROVE  /\ r.core[u] # "active"
               /\ r.core[u] # fb_core[u] => r.core[u] = "down" /\ emitter[u] = "live"
    BY <1>1, <1>3, <1>5, <2>1, <2>2
  <2> QED
    BY <1>4, <2>3, <2>4 DEF r, e, U
<1>6. CASE ~(inner # Feedback!NoUpload /\ emitter[inner] = "live")
  <2>1. r.core = fb_core /\ r.hooks = hooks /\ r.field = shutdownHook
    BY <1>6 DEF Feedback!Disposed, Feedback!Unchanged
  <2> HIDE DEF r, e, U
  <2>2. \A u \in U : r.core[u] # "active" /\ r.core[u] = fb_core[u]
    BY <1>2, <1>3, <1>6, <2>1
  <2> QED
    BY <1>1, <1>4, <2>1, <2>2 DEF r, e, U
<1> QED
  BY <1>5, <1>6

(* The steps that dispose of the upload and start none.                    *)
LEMMA DisposingStep ==
  ASSUME Feedback!FeedbackAssumption, FeedbackInv,
         Feedback!OnStateWaits \/ Feedback!OnStateFails \/ Feedback!WorkStopped
  PROVE  FeedbackInv'
<1> DEFINE r == Feedback!Disposed(inner)
           e == Feedback!EmitterDisposed(inner)
<1> USE DEF Feedback!uploadVars
<1>1. /\ fb_core' = r.core /\ hooks' = r.hooks /\ shutdownHook' = r.field
      /\ emitter' = e /\ inner' = Feedback!NoUpload
      /\ UNCHANGED <<tunnelState, callback, owner, uploaded, started, changes>>
  BY DEF Feedback!OnStateWaits, Feedback!OnStateFails, Feedback!WorkStopped,
         Feedback!TakesState
<1>2. /\ r.core \in [Feedback!Uploads -> {"none", "active", "completed", "down"}]
      /\ r.hooks \subseteq Feedback!Uploads
      /\ r.field \in [Feedback!Attempts -> Feedback!Uploads \cup {Feedback!NoUpload}]
      /\ e \in [Feedback!Uploads -> {"none", "live", "disposed"}]
      /\ \A u \in Feedback!Uploads :
           /\ r.core[u] # "active"
           /\ r.core[u] # fb_core[u] => r.core[u] = "down" /\ emitter[u] = "live"
  BY DisposedUpload
<1>3. \A u \in Feedback!Uploads : u # inner => e[u] = emitter[u]
  BY DEF FeedbackInv, Feedback!TypeOK, Feedback!EmitterDisposed
<1> HIDE DEF r, e
<1>4. work' \in {"enqueued", "running", "failure"}
  BY DEF Feedback!OnStateWaits, Feedback!OnStateFails, Feedback!WorkStopped,
         Feedback!TakesState
<1>5. last' \in Feedback!TunnelStates \cup {"none"}
  BY DEF Feedback!OnStateWaits, Feedback!OnStateFails, Feedback!WorkStopped,
         Feedback!TakesState
<1>6. states' \in Seq(Feedback!TunnelStates)
  <2>1. states \in Seq(Feedback!TunnelStates)
    BY DEF FeedbackInv, Feedback!TypeOK
  <2>2. states' = <<>> \/ (states # <<>> /\ states' = Tail(states))
    BY DEF Feedback!OnStateWaits, Feedback!OnStateFails, Feedback!WorkStopped,
           Feedback!TakesState
  <2> QED
    BY <2>1, <2>2, EmptySeq, HeadTailProperties
<1>7. attempt' \in Feedback!Attempts
  <2>1. attempt \in 0..(MaxRunAttempts + 1) /\ MaxRunAttempts \in Nat
    BY DEF FeedbackInv, Feedback!TypeOK, Feedback!Attempts, Feedback!FeedbackAssumption
  <2>2. attempt' = attempt \/ attempt' = Feedback!Min({attempt + 1, MaxRunAttempts + 1})
    BY DEF Feedback!OnStateWaits, Feedback!OnStateFails, Feedback!WorkStopped,
           Feedback!TakesState
  <2>3. Feedback!Min({attempt + 1, MaxRunAttempts + 1}) \in {attempt + 1, MaxRunAttempts + 1}
    BY <2>1 DEF Feedback!Min
  <2>4. Feedback!Min({attempt + 1, MaxRunAttempts + 1}) <= MaxRunAttempts + 1
    BY <2>1 DEF Feedback!Min
  <2> QED
    BY <2>1, <2>2, <2>3, <2>4 DEF Feedback!Attempts
<1>8. Feedback!TypeOK'
  BY <1>1, <1>2, <1>4, <1>5, <1>6, <1>7 DEF FeedbackInv, Feedback!TypeOK
<1>9. OnlyInner' /\ RunsWithEmitter' /\ ResultAfterEnd'
  BY <1>1, <1>2 DEF OnlyInner, RunsWithEmitter, ResultAfterEnd
<1>10. FreshUploads'
  <2>1. started \in Nat
    BY DEF FeedbackInv, Feedback!TypeOK, Feedback!Uploads, Feedback!FeedbackAssumption
  <2>2. ASSUME NEW u \in Feedback!Uploads, u > started
        PROVE  r.core[u] = "none" /\ callback[u] = "none" /\ e[u] = "none"
    <3>1. fb_core[u] = "none" /\ callback[u] = "none" /\ emitter[u] = "none"
      BY <2>2 DEF FeedbackInv, FreshUploads
    <3>2. u # inner
      BY <2>1, <2>2 DEF FeedbackInv, FreshUploads, Feedback!TypeOK, Feedback!Uploads,
           Feedback!NoUpload
    <3> QED
      BY <1>2, <1>3, <3>1, <3>2
  <2> QED
    BY <1>1, <2>1, <2>2 DEF FreshUploads, Feedback!NoUpload
<1>11. SuccessWasUploaded' /\ (work' = "success" => uploaded' = TRUE)
  BY <1>1, <1>4 DEF FeedbackInv, SuccessWasUploaded
<1> QED
  BY <1>8, <1>9, <1>10, <1>11 DEF FeedbackInv

(* The step that disposes of the upload and starts another.                *)
LEMMA UploadingStep ==
  ASSUME Feedback!FeedbackAssumption, FeedbackInv, Feedback!OnStateUploads
  PROVE  FeedbackInv'
<1> DEFINE r == Feedback!Disposed(inner)
           e == Feedback!EmitterDisposed(inner)
           n == started + 1
<1>1. PICK s \in Feedback!TunnelStates \ {last} :
        /\ Feedback!TakesState(s) /\ Feedback!Uploadable(s) /\ started < MaxUploads
        /\ started' = n /\ inner' = n /\ last' = s
        /\ fb_core' = [r.core EXCEPT ![n] = "active"]
        /\ emitter' = [e EXCEPT ![n] = "live"]
        /\ owner' = [owner EXCEPT ![n] = attempt]
        /\ shutdownHook' = [r.field EXCEPT ![attempt] = n]
        /\ hooks' = r.hooks \cup {n}
        /\ work' = work
  BY DEF Feedback!OnStateUploads
<1>2. /\ r.core \in [Feedback!Uploads -> {"none", "active", "completed", "down"}]
      /\ r.hooks \subseteq Feedback!Uploads
      /\ r.field \in [Feedback!Attempts -> Feedback!Uploads \cup {Feedback!NoUpload}]
      /\ e \in [Feedback!Uploads -> {"none", "live", "disposed"}]
      /\ \A u \in Feedback!Uploads :
           /\ r.core[u] # "active"
           /\ r.core[u] # fb_core[u] => r.core[u] = "down" /\ emitter[u] = "live"
  BY DisposedUpload
<1>3. \A u \in Feedback!Uploads : u # inner => e[u] = emitter[u]
  BY DEF FeedbackInv, Feedback!TypeOK, Feedback!EmitterDisposed
<1>4. /\ started \in Nat /\ n \in Feedback!Uploads /\ n > started
      /\ \A u \in Feedback!Uploads : u > n => u > started
      /\ \A u \in Feedback!Uploads : u > started => u # inner
  BY <1>1 DEF FeedbackInv, FreshUploads, Feedback!TypeOK, Feedback!Uploads,
       Feedback!NoUpload, Feedback!FeedbackAssumption
<1>5. n <= n /\ ~(n > n)
  BY <1>4
<1> HIDE DEF r, e, n
<1>6. /\ work = "running" /\ states # <<>> /\ states' = Tail(states)
      /\ UNCHANGED <<attempt, tunnelState, callback, uploaded, changes>>
  BY <1>1 DEF Feedback!TakesState
<1>7. states' \in Seq(Feedback!TunnelStates)
  BY <1>6, HeadTailProperties DEF FeedbackInv, Feedback!TypeOK
<1>8. /\ attempt \in Feedback!Attempts /\ owner \in [Feedback!Uploads -> Feedback!Attempts]
      /\ callback \in [Feedback!Uploads -> {"none", "success", "error", "cancel"}]
  BY DEF FeedbackInv, Feedback!TypeOK
<1>9. Feedback!TypeOK'
  <2>1. fb_core' \in [Feedback!Uploads -> {"none", "active", "completed", "down"}]
    BY <1>1, <1>2
  <2>2. emitter' \in [Feedback!Uploads -> {"none", "live", "disposed"}]
    BY <1>1, <1>2
  <2>3. owner' \in [Feedback!Uploads -> Feedback!Attempts]
    BY <1>1, <1>8
  <2>4. shutdownHook' \in [Feedback!Attempts -> Feedback!Uploads \cup {Feedback!NoUpload}]
    BY <1>1, <1>2, <1>4
  <2>5. hooks' \subseteq Feedback!Uploads
    BY <1>1, <1>2, <1>4
  <2> QED
    BY <1>1, <1>4, <1>6, <1>7, <2>1, <2>2, <2>3, <2>4, <2>5 DEF FeedbackInv, Feedback!TypeOK
<1>10. callback[n] = "none"
  BY <1>4 DEF FeedbackInv, FreshUploads
<1>11. \A u \in Feedback!Uploads : fb_core'[u] = "active" => u = n
  BY <1>1, <1>2
<1>12. emitter'[n] = "live" /\ owner'[n] = attempt
  BY <1>1, <1>2, <1>4, <1>8
<1>13. s \in {"stopped", "connected"}
  BY <1>1 DEF Feedback!Uploadable
<1>14. OnlyInner' /\ RunsWithEmitter' /\ ResultAfterEnd'
  BY <1>1, <1>6, <1>10, <1>11, <1>12, <1>13 DEF OnlyInner, RunsWithEmitter, ResultAfterEnd
<1>15. FreshUploads'
  <2>1. ASSUME NEW u \in Feedback!Uploads, u > n
        PROVE  fb_core'[u] = "none" /\ callback'[u] = "none" /\ emitter'[u] = "none"
    <3>1. fb_core[u] = "none" /\ callback[u] = "none" /\ emitter[u] = "none" /\ u # inner
      BY <1>4, <2>1 DEF FeedbackInv, FreshUploads
    <3>2. u # n
      BY <1>5, <2>1
    <3>3. r.core[u] = "none" /\ e[u] = "none"
      BY <1>2, <1>3, <3>1
    <3> QED
      BY <1>1, <1>2, <1>6, <3>1, <3>2, <3>3
  <2> QED
    BY <1>1, <1>5, <2>1 DEF FreshUploads
<1>16. SuccessWasUploaded' /\ (work' = "success" => uploaded' = TRUE)
  BY <1>1, <1>6 DEF FeedbackInv, SuccessWasUploaded
<1> QED
  BY <1>9, <1>14, <1>15, <1>16 DEF FeedbackInv

(* The steps that leave the uploads alone: a new attempt, a change of the
   tunnel state, and a state that is repeated. *)
LEMMA QuietFeedbackStep ==
  ASSUME Feedback!FeedbackAssumption, FeedbackInv,
         Feedback!CreateWork \/ Feedback!TunnelStateChanges \/ Feedback!OnSameState
  PROVE  FeedbackInv'
<1> USE DEF Feedback!uploadVars
<1>1. UNCHANGED <<attempt, fb_core, emitter, callback, owner, shutdownHook, hooks, uploaded,
                  started>>
  BY DEF Feedback!CreateWork, Feedback!TunnelStateChanges, Feedback!OnSameState,
         Feedback!TakesState
<1>2. /\ tunnelState \in Feedback!TunnelStates /\ states \in Seq(Feedback!TunnelStates)
      /\ last \in Feedback!TunnelStates \cup {"none"} /\ changes \in 0..MaxChanges
      /\ MaxChanges \in Nat
  BY DEF FeedbackInv, Feedback!TypeOK, Feedback!FeedbackAssumption
<1>3. tunnelState' \in Feedback!TunnelStates
  BY <1>2 DEF Feedback!CreateWork, Feedback!TunnelStateChanges, Feedback!OnSameState,
         Feedback!TakesState
<1>4. states' \in Seq(Feedback!TunnelStates)
  <2>1. CASE Feedback!CreateWork
    <3>1. states' = <<>> \/ states' = <<tunnelState>>
      BY <2>1 DEF Feedback!CreateWork
    <3> DEFINE T == Feedback!TunnelStates
    <3>2. tunnelState \in T /\ <<>> \in Seq(T)
      BY <1>2
    <3> HIDE DEF T
    <3>3. <<tunnelState>> \in Seq(T)
      BY <3>2
    <3>4. states' \in Seq(T)
      BY <3>1, <3>2, <3>3
    <3> QED
      BY <3>4 DEF T
  <2>2. CASE Feedback!TunnelStateChanges
    <3>1. PICK s \in Feedback!TunnelStates : states' = states \/ states' = Append(states, s)
      BY <2>2 DEF Feedback!TunnelStateChanges
    <3> QED
      BY <1>2, <3>1
  <2>3. CASE Feedback!OnSameState
    <3>1. states # <<>> /\ states' = Tail(states)
      BY <2>3 DEF Feedback!OnSameState, Feedback!TakesState
    <3> QED
      BY <1>2, <3>1, HeadTailProperties
  <2> QED
    BY <2>1, <2>2, <2>3
<1>5. changes' \in 0..MaxChanges
  BY <1>2 DEF Feedback!CreateWork, Feedback!TunnelStateChanges, Feedback!OnSameState,
         Feedback!TakesState
<1>6. \/ UNCHANGED <<work, inner, last>>
      \/ /\ work = "enqueued" /\ work' \in {"failure", "running"}
         /\ inner' = Feedback!NoUpload /\ last' = "none"
  BY DEF Feedback!CreateWork, Feedback!TunnelStateChanges, Feedback!OnSameState,
         Feedback!TakesState
<1>7. Feedback!TypeOK'
  BY <1>1, <1>3, <1>4, <1>5, <1>6 DEF FeedbackInv, Feedback!TypeOK
<1>8. started \in Nat
  BY DEF FeedbackInv, Feedback!TypeOK, Feedback!Uploads, Feedback!FeedbackAssumption
<1>9. /\ OnlyInner' /\ RunsWithEmitter' /\ ResultAfterEnd' /\ FreshUploads'
      /\ SuccessWasUploaded' /\ (work' = "success" => uploaded' = TRUE)
  BY <1>1, <1>6, <1>8 DEF FeedbackInv, OnlyInner, RunsWithEmitter, ResultAfterEnd,
       FreshUploads, SuccessWasUploaded, Feedback!NoUpload
<1> QED
  BY <1>7, <1>9 DEF FeedbackInv

(* The core's thread: the claim, the emission and the cancellable.         *)
LEMMA CoreThreadStep ==
  ASSUME Feedback!FeedbackAssumption, FeedbackInv, NEW u \in Feedback!Uploads,
         \/ Feedback!SendFeedbackCompleted(u) \/ Feedback!CallbackEmits(u)
         \/ Feedback!CallbackCancels(u)
  PROVE  FeedbackInv'
<1> DEFINE U == Feedback!Uploads
<1>1. UNCHANGED <<attempt, tunnelState, states, last, inner, owner, started, changes>>
  BY DEF Feedback!SendFeedbackCompleted, Feedback!CallbackEmits, Feedback!CallbackCancels
<1>2. /\ fb_core \in [U -> {"none", "active", "completed", "down"}]
      /\ emitter \in [U -> {"none", "live", "disposed"}]
      /\ callback \in [U -> {"none", "success", "error", "cancel"}]
      /\ owner \in [U -> Feedback!Attempts]
      /\ shutdownHook \in [Feedback!Attempts -> U \cup {Feedback!NoUpload}]
      /\ hooks \subseteq U /\ inner \in U \cup {Feedback!NoUpload}
      /\ work \in {"enqueued", "running", "success", "failure"}
  BY DEF FeedbackInv, Feedback!TypeOK
<1>3. uploaded \in BOOLEAN
  BY DEF FeedbackInv, Feedback!TypeOK
<1>4. u <= started
  <2>1. fb_core[u] # "none" \/ callback[u] # "none"
    BY DEF Feedback!SendFeedbackCompleted, Feedback!CallbackEmits, Feedback!CallbackCancels
  <2> QED
    BY <2>1 DEF FeedbackInv, FreshUploads, Feedback!TypeOK, Feedback!Uploads,
         Feedback!FeedbackAssumption
<1>5. \A v \in U : v > started => v # u
  BY <1>4 DEF FeedbackInv, Feedback!TypeOK, Feedback!Uploads, Feedback!FeedbackAssumption
<1>u. u \in U
  OBVIOUS
<1>6. /\ fb_core' \in [U -> {"none", "active", "completed", "down"}]
      /\ emitter' \in [U -> {"none", "live", "disposed"}]
      /\ callback' \in [U -> {"none", "success", "error", "cancel"}]
      /\ \A v \in U : v # u =>
           fb_core'[v] = fb_core[v] /\ emitter'[v] = emitter[v] /\ callback'[v] = callback[v]
      /\ fb_core'[u] # "active"
  <2>1. CASE Feedback!SendFeedbackCompleted(u)
    <3>1. /\ fb_core' = [fb_core EXCEPT ![u] = "completed"]
          /\ emitter' = [emitter EXCEPT ![u] = "disposed"]
          /\ \E x \in {"success", "error"} : callback' = [callback EXCEPT ![u] = x]
      BY <2>1 DEF Feedback!SendFeedbackCompleted
    <3>2. PICK x \in {"success", "error"} : callback' = [callback EXCEPT ![u] = x]
      BY <3>1
    <3> HIDE DEF U
    <3>3. /\ fb_core' \in [U -> {"none", "active", "completed", "down"}]
          /\ \A v \in U : v # u => fb_core'[v] = fb_core[v]
          /\ fb_core'[u] # "active"
      BY <1>2, <1>u, <3>1
    <3>4. /\ emitter' \in [U -> {"none", "live", "disposed"}]
          /\ \A v \in U : v # u => emitter'[v] = emitter[v]
      BY <1>2, <1>u, <3>1
    <3>5. /\ callback' \in [U -> {"none", "success", "error", "cancel"}]
          /\ \A v \in U : v # u => callback'[v] = callback[v]
      BY <1>2, <1>u, <3>2
    <3> QED
      BY <3>3, <3>4, <3>5
  <2>2. CASE Feedback!CallbackEmits(u)
    <3>1. /\ fb_core' = fb_core /\ emitter' = emitter
          /\ callback[u] \in {"success", "error"}
          /\ callback' = [callback EXCEPT ![u] = "cancel"]
      BY <2>2 DEF Feedback!CallbackEmits
    <3>2. fb_core[u] # "active"
      BY <3>1 DEF FeedbackInv, ResultAfterEnd
    <3> HIDE DEF U
    <3> QED
      BY <1>2, <3>1, <3>2
  <2>3. CASE Feedback!CallbackCancels(u)
    <3>1. /\ fb_core' = [fb_core EXCEPT ![u] = "down"] /\ emitter' = emitter
          /\ callback' = [callback EXCEPT ![u] = "none"]
      BY <2>3 DEF Feedback!CallbackCancels, Feedback!Cancelled
    <3> HIDE DEF U
    <3> QED
      BY <1>2, <1>u, <3>1
  <2> QED
    BY <2>1, <2>2, <2>3
<1>7. /\ hooks' \subseteq U
      /\ shutdownHook' \in [Feedback!Attempts -> U \cup {Feedback!NoUpload}]
  <2>1. \/ hooks' = hooks /\ shutdownHook' = shutdownHook
        \/ /\ hooks' = hooks \ {shutdownHook[owner[u]]}
           /\ shutdownHook' = [shutdownHook EXCEPT ![owner[u]] = Feedback!NoUpload]
    BY DEF Feedback!SendFeedbackCompleted, Feedback!CallbackEmits, Feedback!CallbackCancels,
           Feedback!Cancelled
  <2> HIDE DEF U
  <2> QED
    BY <1>2, <2>1
<1>8. uploaded' \in BOOLEAN /\ (uploaded = TRUE => uploaded' = TRUE)
  BY <1>3, Zenon DEF Feedback!SendFeedbackCompleted, Feedback!CallbackEmits,
       Feedback!CallbackCancels
<1>9. callback'[u] = "success" => uploaded' = TRUE
  <2>1. CASE Feedback!SendFeedbackCompleted(u)
    <3>1. PICK x \in {"success", "error"} : /\ callback' = [callback EXCEPT ![u] = x]
                                            /\ uploaded' = (uploaded \/ x = "success")
      BY <2>1 DEF Feedback!SendFeedbackCompleted
    <3>2. callback'[u] = x
      BY <1>2, <3>1
    <3> QED
      BY <3>1, <3>2, Zenon
  <2>2. CASE Feedback!CallbackEmits(u) \/ Feedback!CallbackCancels(u)
    BY <1>2, <2>2 DEF Feedback!CallbackEmits, Feedback!CallbackCancels
  <2> QED
    BY <2>1, <2>2
<1>10. /\ work' \in {"enqueued", "running", "success", "failure"}
       /\ work' # work => work = "running" /\ inner = u
       /\ work' = "success" => uploaded = TRUE
  <2>1. CASE Feedback!CallbackEmits(u)
    BY <1>2, <2>1 DEF Feedback!CallbackEmits, FeedbackInv, SuccessWasUploaded
  <2>2. CASE Feedback!SendFeedbackCompleted(u) \/ Feedback!CallbackCancels(u)
    BY <1>2, <2>2 DEF Feedback!SendFeedbackCompleted, Feedback!CallbackCancels, FeedbackInv
  <2> QED
    BY <2>1, <2>2
<1>11. Feedback!TypeOK'
  BY <1>1, <1>6, <1>7, <1>8, <1>10 DEF FeedbackInv, Feedback!TypeOK
<1> HIDE DEF U
<1>12. OnlyInner'
  <2>1. ASSUME NEW v \in Feedback!Uploads, fb_core'[v] = "active"
        PROVE  /\ work' = "running" /\ inner = v /\ owner[v] = attempt
               /\ last \in {"stopped", "connected"}
    <3>1. v # u /\ fb_core[v] = "active"
      BY <1>6, <2>1 DEF U
    <3>2. /\ work = "running" /\ inner = v /\ owner[v] = attempt
          /\ last \in {"stopped", "connected"}
      BY <3>1 DEF FeedbackInv, OnlyInner
    <3> QED
      BY <1>10, <3>1, <3>2
  <2> QED
    BY <1>1, <2>1 DEF OnlyInner
<1>13. RunsWithEmitter'
  BY <1>6 DEF FeedbackInv, RunsWithEmitter, U
<1>14. ResultAfterEnd'
  BY <1>6 DEF FeedbackInv, ResultAfterEnd, U
<1>15. FreshUploads'
  BY <1>1, <1>5, <1>6 DEF FeedbackInv, FreshUploads, U
<1>16. SuccessWasUploaded'
  BY <1>6, <1>8, <1>9 DEF FeedbackInv, SuccessWasUploaded, U
<1>17. work' = "success" => uploaded' = TRUE
  BY <1>8, <1>10
<1> QED
  BY <1>11, <1>12, <1>13, <1>14, <1>15, <1>16, <1>17 DEF FeedbackInv

(* FeedbackWorker.java, for any number of attempts, uploads and changes of the
   tunnel state, with the io thread and the core's threads in any order: at
   most one upload runs, for the attempt that runs and in a tunnel state that
   allows it, and success is reported only of an uploaded feedback. *)
THEOREM FeedbackIsSafe ==
  ASSUME Feedback!FeedbackAssumption
  PROVE  Feedback!Spec => []FeedbackSafe
<1>1. FeedbackInv /\ [Feedback!Next]_(Feedback!vars) => FeedbackInv'
  <2> SUFFICES ASSUME FeedbackInv, [Feedback!Next]_(Feedback!vars) PROVE FeedbackInv'
    OBVIOUS
  <2>1. CASE Feedback!Next
    BY <2>1, DisposingStep, UploadingStep, QuietFeedbackStep, CoreThreadStep
       DEF Feedback!Next, Feedback!IoNext, Feedback!CoreNext
  <2>2. CASE UNCHANGED Feedback!vars
    BY <2>2 DEF Feedback!vars, FeedbackInv, Feedback!TypeOK, OnlyInner, RunsWithEmitter,
         ResultAfterEnd, FreshUploads, SuccessWasUploaded
  <2> QED
    BY <2>1, <2>2
<1>2. FeedbackInv => FeedbackSafe
  <2> SUFFICES ASSUME FeedbackInv PROVE FeedbackSafe
    OBVIOUS
  <2>1. Feedback!UploadOnlyWhenAllowed
    BY DEF FeedbackInv, OnlyInner, Feedback!UploadOnlyWhenAllowed, Feedback!Active,
         Feedback!Uploadable
  <2>2. Feedback!OneUploadAtATime
    <3> DEFINE Running == {u \in Feedback!Uploads : Feedback!Active(u)}
    <3>1. Running \subseteq {inner}
      BY DEF FeedbackInv, OnlyInner, Feedback!Active
    <3>2. IsFiniteSet({inner}) /\ Cardinality({inner}) = 1
      BY FS_Singleton
    <3>3. Cardinality(Running) <= 1
      BY <3>1, <3>2, FS_Subset, FS_CardinalityType
    <3>4. Feedback!Cardinality(Running) = Cardinality(Running)
      BY DEF Feedback!Cardinality, Cardinality
    <3> QED
      BY <3>3, <3>4 DEF Feedback!OneUploadAtATime
  <2>3. Feedback!SuccessMeansUploaded
    BY DEF FeedbackInv, Feedback!SuccessMeansUploaded
  <2> QED
    BY <2>1, <2>2, <2>3 DEF FeedbackInv, FeedbackSafe, Feedback!FeedbackSafe
<1>3. Feedback!Init => FeedbackInv
  BY FeedbackInit
<1> QED
  BY <1>1, <1>2, <1>3, PTL DEF Feedback!Spec

-----------------------------------------------------------------------------
(* DataTransferStats. *)

StPeriods == {Stats!PeriodOf(t) : t \in Stats!Times}
StBuckets == [1..MaxBuckets -> SUBSET StPeriods]

(* A list starts with a period, and its last bucket has bytes of that period only. *)
StCurrent(list) ==
  /\ list.start = Period * Stats!PeriodOf(list.start)
  /\ list.buckets[MaxBuckets] \subseteq {Stats!PeriodOf(list.start)}

StOnePeriod(b) == \A i \in 1..MaxBuckets : \A p, q \in b[i] : p = q

(* Buckets in a message and the start time that will go with them. *)
StBundled == bundle # Stats!NoBundle /\ resets = 0 =>
               Stats!NotYounger([buckets |-> bundle, start |-> service.start])

StatsInv ==
  /\ Stats!TypeOK /\ service.start <= now /\ ui.start <= now
  /\ StCurrent(service) /\ StOnePeriod(service.buckets)
  /\ Stats!NotYounger(service) /\ (~torn => Stats!NotYounger(ui)) /\ StBundled

(* Period numbers: a period starts no later than any time in it, and times less than
   one period after its start are in it. *)
LEMMA PeriodFacts ==
  ASSUME Stats!StatsAssumption, NEW t \in Nat
  PROVE  /\ Stats!PeriodOf(t) \in Nat /\ Stats!BucketStartTime(t) \in Nat
         /\ Stats!BucketStartTime(t) = Period * Stats!PeriodOf(t)
         /\ Stats!BucketStartTime(t) <= t /\ t < Period * Stats!PeriodOf(t) + Period
<1>1. Period \in Nat /\ Period > 0
  BY DEF Stats!StatsAssumption
<1>2. /\ t \div Period \in Nat /\ Period * (t \div Period) <= t
      /\ t < Period * ((t \div Period) + 1) /\ Period * (t \div Period) \in Nat
  BY <1>1
<1>3. Period * ((t \div Period) + 1) = Period * (t \div Period) + Period
  BY <1>1, <1>2
<1> QED
  BY <1>1, <1>2, <1>3 DEF Stats!PeriodOf, Stats!BucketStartTime

(* The period a time is in is the only one whose span holds it. *)
LEMMA PeriodIs ==
  ASSUME Stats!StatsAssumption, NEW t \in Nat, NEW k \in Nat, Period * k <= t, t < Period * k + Period
  PROVE  Stats!PeriodOf(t) = k
<1> DEFINE d == Stats!PeriodOf(t)
<1>1. Period \in Nat /\ Period > 0 /\ d \in Nat /\ Period * d <= t /\ t < Period * d + Period
  BY PeriodFacts DEF Stats!StatsAssumption
<1> HIDE DEF d
<1>2. CASE d < k
  <2>1. PICK g \in Nat : k = d + 1 + g
    <3>1. k - (d + 1) \in Nat /\ k = d + 1 + (k - (d + 1))
      BY <1>1, <1>2
    <3> QED
      BY <3>1
  <2>2. Period * k = Period * d + Period + Period * g /\ Period * g \in Nat /\ Period * d \in Nat
    BY <1>1, <2>1
  <2> QED
    BY <1>1, <2>2
<1>3. CASE k < d
  <2>1. PICK g \in Nat : d = k + 1 + g
    <3>1. d - (k + 1) \in Nat /\ d = k + 1 + (d - (k + 1))
      BY <1>1, <1>3
    <3> QED
      BY <3>1
  <2>2. Period * d = Period * k + Period + Period * g /\ Period * g \in Nat /\ Period * k \in Nat
    BY <1>1, <2>1
  <2> QED
    BY <1>1, <2>2
<1> QED
  BY <1>1, <1>2, <1>3 DEF d

(* shiftBuckets shifts at least as often as periods have passed. *)
LEMMA ShiftsEnough ==
  ASSUME Stats!StatsAssumption, NEW s \in Nat, NEW t \in Nat, s <= t
  PROVE  /\ (t - s) \div Period + 1 \in Nat /\ (t - s) \div Period + 1 >= 1
         /\ Stats!PeriodOf(s) <= Stats!PeriodOf(t)
         /\ Stats!PeriodOf(t) <= Stats!PeriodOf(s) + ((t - s) \div Period + 1)
<1> DEFINE a == Stats!PeriodOf(s)
           b == Stats!PeriodOf(t)
           c == (t - s) \div Period
<1>1. Period \in Nat /\ Period > 0
  BY DEF Stats!StatsAssumption
<1>2. /\ a \in Nat /\ Period * a <= s /\ s < Period * a + Period
      /\ b \in Nat /\ Period * b <= t /\ t < Period * b + Period
      /\ c \in Nat /\ Period * c <= t - s /\ t - s < Period * c + Period
  <2>1. t - s \in Nat
    OBVIOUS
  <2> QED
    BY <2>1, PeriodFacts DEF Stats!PeriodOf
<1> HIDE DEF a, b, c
<1>3. a <= b
  <2>1. SUFFICES ASSUME b < a PROVE FALSE
    BY <1>2
  <2>2. PICK g \in Nat : a = b + 1 + g
    <3>1. a - (b + 1) \in Nat /\ a = b + 1 + (a - (b + 1))
      BY <1>2, <2>1
    <3> QED
      BY <3>1
  <2>3. Period * a = Period * b + Period + Period * g /\ Period * g \in Nat /\ Period * b \in Nat
    BY <1>1, <1>2, <2>2
  <2> QED
    BY <1>1, <1>2, <2>3
<1>4. b <= a + (c + 1)
  <2>1. SUFFICES ASSUME a + c + 1 < b PROVE FALSE
    BY <1>2
  <2>2. PICK g \in Nat : b = a + c + 2 + g
    <3>1. b - (a + c + 2) \in Nat /\ b = a + c + 2 + (b - (a + c + 2))
      BY <1>2, <2>1
    <3> QED
      BY <3>1
  <2>3. /\ Period * b = Period * a + Period * c + 2 * Period + Period * g
        /\ Period * g \in Nat /\ Period * a \in Nat /\ Period * c \in Nat
    BY <1>1, <1>2, <2>2
  <2> QED
    BY <1>1, <1>2, <2>3
<1> QED
  BY <1>2, <1>3, <1>4 DEF a, b, c

(* Shifted is what the turns of shiftBuckets' loop do: none leaves the list as it is,
   and one more turn shifts it by one more. *)
THEOREM TurnsShift ==
  ASSUME Stats!StatsAssumption, NEW b \in StBuckets, NEW n \in Nat
  PROVE  /\ Stats!Shifted(0, b) = b
         /\ Stats!ShiftOnce(Stats!Shifted(n, b)) = Stats!Shifted(n + 1, b)
<1>1. MaxBuckets \in Nat /\ MaxBuckets > 0
  BY DEF Stats!StatsAssumption
<1>2. Stats!Shifted(0, b) = b
  <2>1. \A i \in 1..MaxBuckets : i + 0 = i /\ i <= MaxBuckets
    BY <1>1
  <2> QED
    BY <2>1 DEF Stats!Shifted, StBuckets
<1> DEFINE s == Stats!Shifted(n, b)
           l == Append(s, {})
<1>3. s \in [1..MaxBuckets -> SUBSET StPeriods]
  <2>1. ASSUME NEW i \in 1..MaxBuckets
        PROVE  (IF i + n <= MaxBuckets THEN b[i + n] ELSE {}) \in SUBSET StPeriods
    <3>1. CASE i + n <= MaxBuckets
      <4>1. i + n \in 1..MaxBuckets
        BY <1>1, <3>1
      <4> QED
        BY <3>1, <4>1 DEF StBuckets
    <3> QED
      BY <3>1
  <2> QED
    BY <2>1 DEF Stats!Shifted
<1>4. s \in Seq(SUBSET StPeriods) /\ Len(s) = MaxBuckets
  <2>1. s \in Seq(SUBSET StPeriods)
    BY <1>1, <1>3, SeqDef
  <2> HIDE DEF s
  <2>2. Len(s) \in Nat /\ DOMAIN s = 1..Len(s) /\ DOMAIN s = 1..MaxBuckets
    BY <1>3, <2>1, LenProperties
  <2>3. MaxBuckets \in 1..Len(s)
    BY <1>1, <2>2
  <2>4. Len(s) \in 1..MaxBuckets
    BY <2>2, <2>3
  <2>5. Len(s) \in Nat
    BY <2>2
  <2>6. Len(s) = MaxBuckets
    BY <1>1, <2>3, <2>4, <2>5
  <2> QED
    BY <2>1, <2>6
<1>5. /\ l \in Seq(SUBSET StPeriods) /\ Len(l) = MaxBuckets + 1 /\ l # <<>>
      /\ \A i \in 1..MaxBuckets : l[i] = s[i]
      /\ l[MaxBuckets + 1] = {}
  <2> HIDE DEF s
  <2> QED
    BY <1>4, AppendProperties
<1>6. /\ Tail(l) \in Seq(SUBSET StPeriods) /\ Len(Tail(l)) = MaxBuckets
      /\ \A i \in 1..MaxBuckets : Tail(l)[i] = l[i + 1]
  <2> HIDE DEF l
  <2>1. /\ Tail(l) \in Seq(SUBSET StPeriods) /\ Len(Tail(l)) = Len(l) - 1
        /\ \A i \in 1..Len(Tail(l)) : Tail(l)[i] = l[i + 1]
    BY <1>5, HeadTailProperties
  <2>2. Len(l) - 1 = MaxBuckets
    BY <1>1, <1>5
  <2> QED
    BY <2>1, <2>2
<1>7. Stats!ShiftOnce(s) = Tail(l)
  <2>1. Len(l) >= MaxBuckets
    BY <1>1, <1>5
  <2> HIDE DEF s
  <2> QED
    BY <2>1 DEF Stats!ShiftOnce
<1>8. ASSUME NEW i \in 1..MaxBuckets PROVE Tail(l)[i] = Stats!Shifted(n + 1, b)[i]
  <2>1. Stats!Shifted(n + 1, b)[i] = IF i + (n + 1) <= MaxBuckets THEN b[i + (n + 1)] ELSE {}
    BY DEF Stats!Shifted
  <2>2. CASE i = MaxBuckets
    <3>1. ~(i + (n + 1) <= MaxBuckets)
      BY <1>1, <2>2
    <3> HIDE DEF l
    <3> QED
      BY <1>5, <1>6, <2>1, <2>2, <3>1
  <2>3. CASE i # MaxBuckets
    <3>1. i + 1 \in 1..MaxBuckets /\ (i + 1) + n = i + (n + 1)
      BY <1>1, <2>3
    <3>2. Tail(l)[i] = s[i + 1]
      <4> HIDE DEF l
      <4> QED
        BY <1>5, <1>6, <3>1
    <3>3. s[i + 1] = IF (i + 1) + n <= MaxBuckets THEN b[(i + 1) + n] ELSE {}
      BY <3>1 DEF Stats!Shifted
    <3> QED
      BY <2>1, <3>1, <3>2, <3>3
  <2> QED
    BY <2>2, <2>3
<1>9. Tail(l) = Stats!Shifted(n + 1, b)
  <2>1. DOMAIN Tail(l) = 1..MaxBuckets
    <3> HIDE DEF l
    <3> QED
      BY <1>6, LenProperties
  <2>2. Tail(l) = [i \in 1..MaxBuckets |-> Tail(l)[i]]
    <3> HIDE DEF l
    <3> QED
      BY <1>6, <2>1, LenProperties
  <2>3. Stats!Shifted(n + 1, b) = [i \in 1..MaxBuckets |-> Stats!Shifted(n + 1, b)[i]]
    BY DEF Stats!Shifted
  <2> HIDE DEF l
  <2> QED
    BY <1>8, <2>2, <2>3, Zenon
<1> QED
  BY <1>2, <1>7, <1>9

(* Shifting by at least the periods that have passed keeps every byte at least as old
   as it is, no bucket gets a second period, and the last one is empty. *)
LEMMA ShiftedList ==
  ASSUME Stats!StatsAssumption, NEW b \in StBuckets, NEW n \in Nat, n >= 1, NEW s \in Nat, NEW t \in Nat,
         Stats!PeriodOf(t) \in Nat, Stats!PeriodOf(s) \in Nat,
         Stats!PeriodOf(t) <= Stats!PeriodOf(s) + n
  PROVE  /\ Stats!Shifted(n, b) \in StBuckets
         /\ Stats!Shifted(n, b)[MaxBuckets] = {}
         /\ StOnePeriod(b) => StOnePeriod(Stats!Shifted(n, b))
         /\ Stats!NotYounger([buckets |-> b, start |-> s])
              => Stats!NotYounger([buckets |-> Stats!Shifted(n, b), start |-> t])
<1>1. MaxBuckets \in Nat /\ MaxBuckets > 0
  BY DEF Stats!StatsAssumption
<1>2. PICK c : c = Stats!Shifted(n, b)
  OBVIOUS
<1>3. /\ DOMAIN c = 1..MaxBuckets /\ c = [i \in 1..MaxBuckets |-> c[i]]
      /\ \A i \in 1..MaxBuckets : c[i] = IF i + n <= MaxBuckets THEN b[i + n] ELSE {}
  BY <1>2 DEF Stats!Shifted
<1>4. ASSUME NEW i \in 1..MaxBuckets PROVE c[i] = {} \/ (i + n \in 1..MaxBuckets /\ c[i] = b[i + n])
  <2>1. CASE i + n <= MaxBuckets
    <3>1. i + n \in 1..MaxBuckets
      BY <1>1, <2>1
    <3> QED
      BY <1>3, <2>1, <3>1
  <2>2. CASE ~(i + n <= MaxBuckets)
    BY <1>3, <2>2
  <2> QED
    BY <2>1, <2>2
<1>5. c \in StBuckets
  <2>1. ASSUME NEW i \in 1..MaxBuckets PROVE c[i] \in SUBSET StPeriods
    <3>1. c[i] = {} \/ (i + n \in 1..MaxBuckets /\ c[i] = b[i + n])
      BY <1>4
    <3> QED
      BY <3>1 DEF StBuckets
  <2> QED
    BY <1>3, <2>1 DEF StBuckets
<1>6. c[MaxBuckets] = {}
  <2>1. MaxBuckets \in 1..MaxBuckets /\ ~(MaxBuckets + n <= MaxBuckets)
    BY <1>1
  <2> QED
    BY <1>3, <2>1
<1>7. ASSUME StOnePeriod(b) PROVE StOnePeriod(c)
  <2>1. ASSUME NEW i \in 1..MaxBuckets, NEW p \in c[i], NEW q \in c[i] PROVE p = q
    <3>1. i + n \in 1..MaxBuckets /\ c[i] = b[i + n]
      BY <1>4, <2>1
    <3> QED
      BY <1>7, <2>1, <3>1 DEF StOnePeriod
  <2> QED
    BY <2>1 DEF StOnePeriod
<1>8. ASSUME \A i \in 1..MaxBuckets : \A p \in b[i] : MaxBuckets - i >= Stats!PeriodOf(s) - p
      PROVE  \A i \in 1..MaxBuckets : \A p \in c[i] : MaxBuckets - i >= Stats!PeriodOf(t) - p
  <2>1. ASSUME NEW i \in 1..MaxBuckets, NEW p \in c[i]
        PROVE  MaxBuckets - i >= Stats!PeriodOf(t) - p
    <3>1. i + n \in 1..MaxBuckets /\ p \in b[i + n]
      BY <1>4, <2>1
    <3>2. MaxBuckets - (i + n) >= Stats!PeriodOf(s) - p
      BY <1>8, <3>1
    <3>3. p \in Nat
      <4>1. p \in StPeriods
        BY <3>1 DEF StBuckets
      <4>2. PICK x \in Stats!Times : p = Stats!PeriodOf(x)
        BY <4>1 DEF StPeriods
      <4>3. x \in Nat
        BY DEF Stats!Times
      <4> QED
        BY <4>2, <4>3, PeriodFacts
    <3> QED
      BY <1>1, <3>2, <3>3
  <2> QED
    BY <2>1
<1> QED
  BY <1>2, <1>5, <1>6, <1>7, <1>8 DEF Stats!NotYounger

(* manageBuckets. *)
LEMMA ManagedList ==
  ASSUME Stats!StatsAssumption, now \in Stats!Times, NEW l \in Stats!Lists, l.start <= now
  PROVE  /\ Stats!ManageBuckets(l) \in Stats!Lists /\ Stats!ManageBuckets(l).start <= now
         /\ Stats!NotYounger(l) => Stats!NotYounger(Stats!ManageBuckets(l))
         /\ StOnePeriod(l.buckets) => StOnePeriod(Stats!ManageBuckets(l).buckets)
         /\ StCurrent(l) => StCurrent(Stats!ManageBuckets(l))
                            /\ Stats!PeriodOf(Stats!ManageBuckets(l).start) = Stats!PeriodOf(now)
<1>1. /\ now \in Nat /\ MaxTime \in Nat /\ now <= MaxTime /\ Period \in Nat /\ Period > 0
      /\ MaxBuckets \in Nat /\ MaxBuckets > 0
  BY DEF Stats!StatsAssumption, Stats!Times
<1>2. l.start \in Nat /\ l.buckets \in StBuckets /\ l.start \in Stats!Times
  BY <1>1 DEF Stats!Lists, Stats!Times, StBuckets, StPeriods
<1>3. PICK r : r = Stats!ManageBuckets(l)
  OBVIOUS
<1>4. CASE now - l.start >= Period
  <2>1. PICK n : n = (now - l.start) \div Period + 1
    OBVIOUS
  <2>2. PICK t : t = Stats!BucketStartTime(now)
    OBVIOUS
  <2>3. r = [buckets |-> Stats!Shifted(n, l.buckets), start |-> t]
    BY <1>3, <1>4, <2>1, <2>2 DEF Stats!ManageBuckets, Stats!ShiftBuckets
  <2>4. n \in Nat /\ n >= 1 /\ Stats!PeriodOf(now) <= Stats!PeriodOf(l.start) + n
    BY <1>1, <1>2, <2>1, ShiftsEnough
  <2>5. /\ t \in Nat /\ t <= now /\ t = Period * Stats!PeriodOf(now) /\ Stats!PeriodOf(now) \in Nat
        /\ Stats!PeriodOf(l.start) \in Nat
    BY <1>1, <1>2, <2>2, PeriodFacts
  <2>6. Stats!PeriodOf(t) = Stats!PeriodOf(now)
    BY <1>1, <2>5, PeriodIs
  <2>7. /\ Stats!Shifted(n, l.buckets) \in StBuckets
        /\ Stats!Shifted(n, l.buckets)[MaxBuckets] = {}
        /\ StOnePeriod(l.buckets) => StOnePeriod(Stats!Shifted(n, l.buckets))
        /\ Stats!NotYounger([buckets |-> l.buckets, start |-> l.start])
              => Stats!NotYounger([buckets |-> Stats!Shifted(n, l.buckets), start |-> t])
    BY <1>2, <2>4, <2>5, <2>6, ShiftedList
  <2>8. Stats!NotYounger(l) => Stats!NotYounger([buckets |-> l.buckets, start |-> l.start])
    BY DEF Stats!NotYounger
  <2>9. t \in Stats!Times
    BY <1>1, <2>5 DEF Stats!Times
  <2>10. r \in Stats!Lists
    BY <2>3, <2>7, <2>9 DEF Stats!Lists, StBuckets, StPeriods
  <2>11. r.start = t /\ r.buckets = Stats!Shifted(n, l.buckets)
    BY <2>3
  <2>12. StCurrent(r)
    BY <2>5, <2>6, <2>7, <2>11 DEF StCurrent
  <2>13. /\ r.start <= now /\ Stats!PeriodOf(r.start) = Stats!PeriodOf(now)
         /\ StOnePeriod(l.buckets) => StOnePeriod(r.buckets)
    BY <2>5, <2>6, <2>7, <2>11
  <2>14. Stats!NotYounger(l) => Stats!NotYounger(r)
    BY <2>3, <2>7, <2>8
  <2> QED
    BY <1>3, <2>10, <2>12, <2>13, <2>14
<1>5. CASE ~(now - l.start >= Period)
  <2>1. r = l
    BY <1>3, <1>5 DEF Stats!ManageBuckets
  <2>2. ASSUME StCurrent(l) PROVE Stats!PeriodOf(l.start) = Stats!PeriodOf(now)
    <3>1. PICK k : k = Stats!PeriodOf(l.start)
      OBVIOUS
    <3>2. k \in Nat /\ l.start = Period * k
      BY <1>2, <2>2, <3>1, PeriodFacts DEF StCurrent
    <3>3. Period * k <= now /\ now < Period * k + Period
      <4>1. l.start <= now /\ now < l.start + Period
        BY <1>1, <1>2, <1>5
      <4> QED
        BY <3>2, <4>1
    <3> QED
      BY <1>1, <3>1, <3>2, <3>3, PeriodIs
  <2> QED
    BY <1>3, <2>1, <2>2
<1> QED
  BY <1>4, <1>5

LEMMA StatsInvSafe ==
  ASSUME Stats!StatsAssumption, StatsInv
  PROVE  StatsSafe
<1>1. Stats!NoBucketMixesPeriods
  <2>1. ASSUME NEW i \in 1..MaxBuckets PROVE Cardinality(service.buckets[i]) <= 1
    <3>1. \A p, q \in service.buckets[i] : p = q
      BY DEF StatsInv, StOnePeriod
    <3>2. CASE service.buckets[i] = {}
      <4>1. Cardinality(service.buckets[i]) = 0
        BY <3>2, FS_EmptySet
      <4> QED
        BY <4>1
    <3>3. CASE service.buckets[i] # {}
      <4>1. PICK p : service.buckets[i] = {p}
        BY <3>1, <3>3
      <4>2. Cardinality({p}) = 1
        BY FS_Singleton
      <4> QED
        BY <4>1, <4>2
    <3> QED
      BY <3>2, <3>3
  <2>2. \A S : Stats!Cardinality(S) = Cardinality(S)
    BY DEF Stats!Cardinality, Cardinality
  <2> QED
    BY <2>1, <2>2 DEF Stats!NoBucketMixesPeriods
<1> QED
  BY <1>1 DEF StatsInv, StatsSafe, Stats!StatsSafe, Stats!GraphNotYounger

(* A list that was reset is empty and starts with the current period. *)
LEMMA ResetList ==
  ASSUME Stats!StatsAssumption, NEW t \in Stats!Times
  PROVE  /\ Stats!Reset(t) \in Stats!Lists /\ Stats!Reset(t).start <= t
         /\ Stats!NotYounger(Stats!Reset(t)) /\ StOnePeriod(Stats!Reset(t).buckets)
         /\ StCurrent(Stats!Reset(t))
<1>1. t \in Nat /\ MaxTime \in Nat /\ t <= MaxTime /\ MaxBuckets \in Nat /\ MaxBuckets > 0
      /\ Period \in Nat /\ Period > 0
  BY DEF Stats!StatsAssumption, Stats!Times
<1>2. PICK s : s = Stats!BucketStartTime(t)
  OBVIOUS
<1>3. s \in Nat /\ s <= t /\ s = Period * Stats!PeriodOf(t) /\ Stats!PeriodOf(t) \in Nat
      /\ t < Period * Stats!PeriodOf(t) + Period
  BY <1>1, <1>2, PeriodFacts
<1>4. s \in Stats!Times
  BY <1>1, <1>3 DEF Stats!Times
<1>5. PICK l : l = Stats!Reset(t)
  OBVIOUS
<1>6. /\ l = [buckets |-> Stats!NewBuckets, start |-> s] /\ l.start = s
      /\ l.buckets = Stats!NewBuckets
  BY <1>2, <1>5 DEF Stats!Reset
<1>7. Stats!NewBuckets \in StBuckets /\ \A i \in 1..MaxBuckets : Stats!NewBuckets[i] = {}
  BY DEF Stats!NewBuckets, StBuckets
<1>8. l \in Stats!Lists
  BY <1>4, <1>6, <1>7 DEF Stats!Lists, StBuckets, StPeriods
<1>9. Stats!NotYounger(l) /\ StOnePeriod(l.buckets)
  BY <1>6, <1>7 DEF Stats!NotYounger, StOnePeriod
<1>10. Stats!PeriodOf(s) = Stats!PeriodOf(t)
  BY <1>1, <1>3, PeriodIs
<1>11. StCurrent(l)
  <2>1. MaxBuckets \in 1..MaxBuckets
    BY <1>1
  <2> QED
    BY <1>3, <1>6, <1>7, <1>10, <2>1 DEF StCurrent
<1> QED
  BY <1>3, <1>5, <1>6, <1>8, <1>9, <1>11

LEMMA StatsInitInv ==
  ASSUME Stats!StatsAssumption, Stats!Init
  PROVE  StatsInv
<1>4. now \in Stats!Times
  BY DEF Stats!StatsAssumption, Stats!Init, Stats!Times
<1>1. service = Stats!Reset(now) /\ ui = Stats!Reset(now)
  BY DEF Stats!Init
<1>2. /\ service \in Stats!Lists /\ service.start <= now /\ ui \in Stats!Lists /\ ui.start <= now
      /\ Stats!NotYounger(service) /\ Stats!NotYounger(ui)
      /\ StOnePeriod(service.buckets) /\ StCurrent(service)
  BY <1>1, <1>4, ResetList
<1>3. bundle = Stats!NoBundle /\ resets = 0 /\ torn = FALSE
  BY DEF Stats!Init
<1>5. torn \in BOOLEAN
  BY <1>3
<1>6. Stats!TypeOK /\ StBundled
  BY <1>2, <1>3, <1>4, <1>5 DEF StBundled, Stats!TypeOK
<1> QED
  BY <1>2, <1>6 DEF StatsInv

(* Bytes are added to the last bucket, which is the current period's. *)
LEMMA BytesAdded ==
  ASSUME Stats!StatsAssumption, StatsInv, Stats!AddBytes
  PROVE  StatsInv'
<1>1. PICK l : l = Stats!ManageBuckets(service)
  OBVIOUS
<1>2. /\ l \in Stats!Lists /\ l.start <= now /\ Stats!NotYounger(l) /\ StOnePeriod(l.buckets)
      /\ StCurrent(l) /\ Stats!PeriodOf(l.start) = Stats!PeriodOf(now)
  BY <1>1, ManagedList DEF StatsInv, Stats!TypeOK
<1>3. PICK p : p = Stats!PeriodOf(now)
  OBVIOUS
<1>4. MaxBuckets \in Nat /\ MaxBuckets > 0 /\ MaxBuckets \in 1..MaxBuckets
  BY DEF Stats!StatsAssumption
<1>5. l.buckets \in StBuckets /\ l.start \in Stats!Times /\ DOMAIN l.buckets = 1..MaxBuckets
  BY <1>2 DEF Stats!Lists, StBuckets, StPeriods
<1>6. now \in Stats!Times /\ p \in StPeriods
  BY <1>3 DEF StatsInv, Stats!TypeOK, StPeriods
<1>7. Len(l.buckets) = MaxBuckets
  <2>1. l.buckets \in Seq(SUBSET StPeriods)
    BY <1>4, <1>5, SeqDef DEF StBuckets
  <2>2. PICK b : b = l.buckets
    OBVIOUS
  <2>3. Len(b) \in Nat /\ 1..Len(b) = 1..MaxBuckets
    BY <1>5, <2>1, <2>2, LenProperties
  <2>4. MaxBuckets \in 1..Len(b)
    BY <1>4, <2>3
  <2>5. Len(b) \in 1..MaxBuckets
    BY <2>3, <2>4
  <2>6. Len(b) \in Nat
    BY <2>3
  <2>7. Len(b) = MaxBuckets
    BY <1>4, <2>4, <2>5, <2>6
  <2> QED
    BY <2>2, <2>7
<1>8. PICK c : c = [l.buckets EXCEPT ![MaxBuckets] = @ \cup {p}]
  OBVIOUS
<1>9. service' = [buckets |-> c, start |-> l.start]
  <2>1. service' = [l EXCEPT !.buckets[MaxBuckets] = @ \cup {p}]
    BY <1>1, <1>3, <1>7 DEF Stats!AddBytes
  <2>2. l = [buckets |-> l.buckets, start |-> l.start]
    BY <1>2 DEF Stats!Lists
  <2> QED
    BY <1>8, <2>1, <2>2
<1>10. /\ service'.buckets = c /\ service'.start = l.start
       /\ UNCHANGED <<now, bundle, resets, ui, torn>> /\ bundle = Stats!NoBundle
  BY <1>9 DEF Stats!AddBytes
<1>11. ASSUME NEW i \in 1..MaxBuckets
       PROVE  c[i] = IF i = MaxBuckets THEN l.buckets[i] \cup {p} ELSE l.buckets[i]
  BY <1>4, <1>5, <1>8
<1>12. c \in StBuckets
  BY <1>4, <1>5, <1>6, <1>8 DEF StBuckets
<1>13. service' \in Stats!Lists
  BY <1>5, <1>9, <1>12 DEF Stats!Lists, StBuckets, StPeriods
<1>14. c[MaxBuckets] = {p} /\ Stats!PeriodOf(l.start) = p
  BY <1>2, <1>3, <1>4, <1>11 DEF StCurrent
<1>15. StCurrent(service')
  BY <1>2, <1>10, <1>14 DEF StCurrent
<1>16. StOnePeriod(c)
  <2>1. ASSUME NEW i \in 1..MaxBuckets, NEW x \in c[i], NEW y \in c[i] PROVE x = y
    <3>1. CASE i = MaxBuckets
      BY <1>14, <2>1, <3>1
    <3>2. CASE i # MaxBuckets
      BY <1>2, <1>11, <2>1, <3>2 DEF StOnePeriod
    <3> QED
      BY <3>1, <3>2
  <2> QED
    BY <2>1 DEF StOnePeriod
<1>17. ASSUME NEW i \in 1..MaxBuckets, NEW x \in c[i]
       PROVE  MaxBuckets - i >= Stats!PeriodOf(l.start) - x
  <2>1. CASE i = MaxBuckets
    <3>1. x = p /\ Stats!PeriodOf(l.start) = p
      BY <1>14, <1>17, <2>1
    <3>2. p \in Nat
      <4>1. now \in Nat
        BY <1>6 DEF Stats!Times
      <4> QED
        BY <1>3, <4>1, PeriodFacts
    <3> QED
      BY <1>4, <2>1, <3>1, <3>2
  <2>2. CASE i # MaxBuckets
    BY <1>2, <1>11, <1>17, <2>2 DEF Stats!NotYounger
  <2> QED
    BY <2>1, <2>2
<1>18. Stats!NotYounger(service')
  BY <1>10, <1>17 DEF Stats!NotYounger
<1>19. Stats!NotYounger(service)' /\ StCurrent(service)' /\ StOnePeriod(service.buckets)'
  <2>1. StOnePeriod(service'.buckets)
    BY <1>10, <1>16
  <2> QED
    BY <1>15, <1>18, <2>1 DEF Stats!NotYounger, StCurrent, StOnePeriod, Stats!PeriodOf
<1>20. (~torn => Stats!NotYounger(ui))'
  BY <1>10 DEF StatsInv, Stats!NotYounger, Stats!PeriodOf
<1>21. Stats!TypeOK' /\ (service.start <= now)' /\ (ui.start <= now)' /\ StBundled'
  BY <1>2, <1>10, <1>13 DEF StatsInv, Stats!TypeOK, StBundled, Stats!NoBundle, Stats!Lists, Stats!Times,
     Stats!PeriodOf
<1> QED
  BY <1>19, <1>20, <1>21 DEF StatsInv

(* Time passes. *)
LEMMA TimePasses ==
  ASSUME Stats!StatsAssumption, StatsInv, Stats!Tick
  PROVE  StatsInv'
<1>1. /\ now' \in Stats!Times /\ now' >= now /\ now \in Nat /\ now' \in Nat
      /\ UNCHANGED <<service, bundle, resets, ui, torn>>
  <2>1. /\ now \in Nat /\ MaxTime \in Nat /\ Period \in Nat /\ MaxBuckets \in Nat
        /\ MaxBuckets * Period \in Nat
    BY DEF StatsInv, Stats!TypeOK, Stats!Times, Stats!StatsAssumption
  <2>2. PICK t \in {now + 1, now + Period, now + MaxBuckets * Period} : t <= MaxTime /\ now' = t
    BY DEF Stats!Tick
  <2>3. t \in Nat /\ t >= now
    BY <2>1, <2>2
  <2> QED
    BY <2>1, <2>2, <2>3 DEF Stats!Tick, Stats!Times
<1>2. service.start \in Nat /\ ui.start \in Nat /\ service.start <= now /\ ui.start <= now
  BY DEF StatsInv, Stats!TypeOK, Stats!Lists, Stats!Times
<1>3. service.start <= now' /\ ui.start <= now'
  BY <1>1, <1>2
<1>4. Stats!TypeOK'
  BY <1>1 DEF StatsInv, Stats!TypeOK, Stats!NoBundle, Stats!Lists, Stats!Times, Stats!PeriodOf
<1>5. /\ StCurrent(service)' /\ StOnePeriod(service.buckets)' /\ Stats!NotYounger(service)'
      /\ (~torn => Stats!NotYounger(ui))' /\ StBundled'
  BY <1>1 DEF StatsInv, StCurrent, StOnePeriod, StBundled, Stats!NoBundle, Stats!NotYounger, Stats!PeriodOf
<1> QED
  BY <1>1, <1>3, <1>4, <1>5 DEF StatsInv

(* The list is reset: a message that was begun before has been cut in two. *)
LEMMA BytesReset ==
  ASSUME Stats!StatsAssumption, StatsInv, Stats!ResetBytesTransferred
  PROVE  StatsInv'
<1>1. PICK l : l = Stats!Reset(now)
  OBVIOUS
<1>2. /\ l \in Stats!Lists /\ l.start <= now /\ Stats!NotYounger(l) /\ StOnePeriod(l.buckets)
      /\ StCurrent(l)
  BY <1>1, ResetList DEF StatsInv, Stats!TypeOK
<1>3. /\ service' = l /\ UNCHANGED <<now, bundle, ui, torn>>
      /\ resets' = IF bundle = Stats!NoBundle THEN 0 ELSE 1
  BY <1>1 DEF Stats!ResetBytesTransferred
<1>4. Stats!TypeOK' /\ (service.start <= now)' /\ (ui.start <= now)'
  BY <1>2, <1>3 DEF StatsInv, Stats!TypeOK, Stats!NoBundle, Stats!Lists, Stats!Times, Stats!PeriodOf
<1>5. /\ StCurrent(service)' /\ StOnePeriod(service.buckets)' /\ Stats!NotYounger(service)'
      /\ (~torn => Stats!NotYounger(ui))'
  BY <1>2, <1>3 DEF StatsInv, StCurrent, StOnePeriod, Stats!NotYounger, Stats!PeriodOf
<1>6. StBundled'
  BY <1>3 DEF StBundled, Stats!NoBundle
<1> QED
  BY <1>4, <1>5, <1>6 DEF StatsInv

(* A message is begun, and ended: unless a reset came between, it has the buckets and
   the start time of one list. *)
LEMMA StatsCopied ==
  ASSUME Stats!StatsAssumption, StatsInv, Stats!BundleBuckets \/ Stats!BundleStart
  PROVE  StatsInv'
<1>1. CASE Stats!BundleBuckets
  <2>1. bundle' = service.buckets /\ resets' = 0 /\ UNCHANGED <<now, service, ui, torn>>
    BY <1>1 DEF Stats!BundleBuckets
  <2>2. service.buckets \in StBuckets
    BY DEF StatsInv, Stats!TypeOK, Stats!Lists, StBuckets, StPeriods
  <2>3. Stats!TypeOK' /\ (service.start <= now)' /\ (ui.start <= now)'
    BY <2>1, <2>2 DEF StatsInv, Stats!TypeOK, Stats!NoBundle, Stats!Lists, Stats!Times, Stats!PeriodOf,
       StBuckets, StPeriods
  <2>4. /\ StCurrent(service)' /\ StOnePeriod(service.buckets)' /\ Stats!NotYounger(service)'
        /\ (~torn => Stats!NotYounger(ui))'
    BY <2>1 DEF StatsInv, StCurrent, StOnePeriod, Stats!NotYounger, Stats!PeriodOf
  <2>5. StBundled'
    BY <2>1 DEF StatsInv, StBundled, Stats!NotYounger, Stats!PeriodOf
  <2> QED
    BY <2>3, <2>4, <2>5 DEF StatsInv
<1>2. CASE Stats!BundleStart
  <2>1. /\ bundle # Stats!NoBundle /\ ui' = [buckets |-> bundle, start |-> service.start]
        /\ bundle' = Stats!NoBundle /\ resets' = 0 /\ UNCHANGED <<now, service>>
    BY <1>2 DEF Stats!BundleStart
  <2>2. torn' = (resets > 0)
    BY <1>2, Zenon DEF Stats!BundleStart
  <2>3. bundle \in StBuckets
    BY <2>1 DEF StatsInv, Stats!TypeOK, StBuckets, StPeriods
  <2>4. service.start \in Stats!Times /\ service.start <= now
    BY DEF StatsInv, Stats!TypeOK, Stats!Lists
  <2>5. ui' \in Stats!Lists /\ ui'.start <= now
    BY <2>1, <2>3, <2>4 DEF Stats!Lists, StBuckets, StPeriods
  <2>6. torn' \in BOOLEAN
    <3> DEFINE h == resets > 0
    <3>1. (h = TRUE) \/ (h = FALSE)
      OBVIOUS
    <3>2. torn' = h
      BY <2>2
    <3> HIDE DEF h
    <3> QED
      BY <3>1, <3>2, Zenon
  <2>7. Stats!TypeOK' /\ (service.start <= now)' /\ (ui.start <= now)'
    BY <2>1, <2>5, <2>6 DEF StatsInv, Stats!TypeOK, Stats!NoBundle, Stats!Lists, Stats!Times, Stats!PeriodOf
  <2>8. /\ StCurrent(service)' /\ StOnePeriod(service.buckets)' /\ Stats!NotYounger(service)'
    BY <2>1 DEF StatsInv, StCurrent, StOnePeriod, Stats!NotYounger, Stats!PeriodOf
  <2>9. (~torn => Stats!NotYounger(ui))'
    <3>1. ASSUME ~torn' PROVE Stats!NotYounger(ui')
      <4>1. ~(resets > 0)
        BY <2>2, <3>1
      <4>2. resets = 0
        BY <4>1 DEF StatsInv, Stats!TypeOK
      <4> QED
        BY <2>1, <4>2 DEF StatsInv, StBundled
    <3> QED
      BY <3>1 DEF Stats!NotYounger, Stats!PeriodOf
  <2>10. StBundled'
    BY <2>1 DEF StBundled, Stats!NoBundle
  <2> QED
    BY <2>7, <2>8, <2>9, <2>10 DEF StatsInv
<1> QED
  BY <1>1, <1>2

(* The copy of the user interface is advanced and read. *)
LEMMA SeriesRead ==
  ASSUME Stats!StatsAssumption, StatsInv, Stats!GetSeries
  PROVE  StatsInv'
<1>1. PICK l : l = Stats!ManageBuckets(ui)
  OBVIOUS
<1>2. l \in Stats!Lists /\ l.start <= now /\ (~torn => Stats!NotYounger(l))
  BY <1>1, ManagedList DEF StatsInv, Stats!TypeOK
<1>3. ui' = l /\ UNCHANGED <<now, service, bundle, resets, torn>>
  BY <1>1 DEF Stats!GetSeries
<1>4. Stats!TypeOK' /\ (service.start <= now)' /\ (ui.start <= now)'
  BY <1>2, <1>3 DEF StatsInv, Stats!TypeOK, Stats!NoBundle, Stats!Lists, Stats!Times, Stats!PeriodOf
<1>5. /\ StCurrent(service)' /\ StOnePeriod(service.buckets)' /\ Stats!NotYounger(service)'
      /\ (~torn => Stats!NotYounger(ui))' /\ StBundled'
  BY <1>2, <1>3 DEF StatsInv, StCurrent, StOnePeriod, StBundled, Stats!NoBundle, Stats!NotYounger,
     Stats!PeriodOf
<1> QED
  BY <1>4, <1>5 DEF StatsInv

(* DataTransferStats.java, for any period and number of buckets, however long the lists
   are left alone and whenever they are reset or copied: no bucket mixes two periods,
   and no byte is shown as more recent than it is, unless a reset cut the copy in two. *)
THEOREM StatsAreSafe ==
  ASSUME Stats!StatsAssumption
  PROVE  Stats!Spec => []StatsSafe
<1>1. Stats!Init => StatsInv
  BY StatsInitInv
<1>2. StatsInv /\ [Stats!Next]_(Stats!vars) => StatsInv'
  <2> SUFFICES ASSUME StatsInv, [Stats!Next]_(Stats!vars) PROVE StatsInv'
    OBVIOUS
  <2>1. CASE Stats!Next
    BY <2>1, TimePasses, BytesAdded, BytesReset, StatsCopied, SeriesRead DEF Stats!Next
  <2>2. CASE UNCHANGED Stats!vars
    <3>1. UNCHANGED <<now, service, bundle, resets, ui, torn>>
      BY <2>2 DEF Stats!vars
    <3>2. Stats!TypeOK'
      BY <3>1 DEF StatsInv, Stats!TypeOK, Stats!NoBundle, Stats!Lists, Stats!Times, Stats!PeriodOf
    <3>3. /\ StCurrent(service)' /\ StOnePeriod(service.buckets)' /\ Stats!NotYounger(service)'
          /\ (~torn => Stats!NotYounger(ui))' /\ StBundled'
      BY <3>1 DEF StatsInv, StCurrent, StOnePeriod, StBundled, Stats!NoBundle, Stats!NotYounger,
         Stats!PeriodOf
    <3> QED
      BY <3>1, <3>2, <3>3 DEF StatsInv
  <2> QED
    BY <2>1, <2>2
<1>3. StatsInv => StatsSafe
  BY StatsInvSafe
<1> QED
  BY <1>1, <1>2, <1>3, PTL DEF Stats!Spec


-----------------------------------------------------------------------------
(* The components side by side, as the run of MCAndroid has them.          *)

(* A step of one component leaves the others as they are. *)
LEMMA ComponentsStep ==
  ASSUME [AndroidNext]_all
  PROVE  /\ [Stop!Next]_(Stop!vars) /\ [Stats!Next]_(Stats!vars)
         /\ [Feedback!Next]_(Feedback!vars) /\ [Log!Next]_(Log!vars)
         /\ [Next]_vars
         /\ part' = part
<1>1. /\ UNCHANGED stop => UNCHANGED Stop!vars
      /\ UNCHANGED stats => UNCHANGED Stats!vars
      /\ UNCHANGED feedback => UNCHANGED Feedback!vars
      /\ UNCHANGED log => UNCHANGED Log!vars
  <2>1. UNCHANGED stop => UNCHANGED Stop!vars
    BY DEF stop, Stop!vars
  <2>2. UNCHANGED stats => UNCHANGED Stats!vars
    BY DEF stats, Stats!vars
  <2>3. UNCHANGED feedback => UNCHANGED Feedback!vars
    BY DEF feedback, Feedback!vars
  <2>4. UNCHANGED log => UNCHANGED Log!vars
    BY DEF log, Log!vars
  <2> QED
    BY <2>1, <2>2, <2>3, <2>4
<1>2. /\ part' = part
      /\ \/ UNCHANGED <<stop, stats, feedback, log, vars>>
         \/ Stop!Next /\ UNCHANGED <<stats, feedback, log, vars>>
         \/ Stats!Next /\ UNCHANGED <<stop, feedback, log, vars>>
         \/ Feedback!Next /\ UNCHANGED <<stop, stats, log, vars>>
         \/ Log!Next /\ UNCHANGED <<stop, stats, feedback, vars>>
         \/ Next /\ UNCHANGED <<stop, stats, feedback, log>>
  BY DEF AndroidNext, all
<1> QED
  BY <1>1, <1>2

(* Every safety invariant of the run, for every value of the constants. *)
THEOREM AndroidIsSafe ==
  AndroidSpec => [](StopSafe /\ StatsSafe /\ FeedbackSafe /\ LogSafe /\ UpgradeSafe)
<1>1. /\ Stop!CommandsAssumption /\ Stats!StatsAssumption /\ Feedback!FeedbackAssumption
      /\ Log!LogAssumption
  BY BoundsAssumption
<1>2. AndroidInit => Stop!Init /\ Stats!Init /\ Feedback!Init /\ Log!Init /\ Init
  BY DEF AndroidInit
<1>3. [AndroidNext]_all =>
        /\ [Stop!Next]_(Stop!vars) /\ [Stats!Next]_(Stats!vars)
        /\ [Feedback!Next]_(Feedback!vars) /\ [Log!Next]_(Log!vars) /\ [Next]_vars
  BY ComponentsStep
<1>4. Stop!Spec => []StopSafe
  BY <1>1, StopIsSafe
<1>5. Stats!Spec => []StatsSafe
  BY <1>1, StatsAreSafe
<1>6. Feedback!Spec => []FeedbackSafe
  BY <1>1, FeedbackIsSafe
<1>7. Log!Spec => []LogSafe
  BY <1>1, LogIsSafe
<1>8. Spec => []UpgradeSafe
  BY UpgradeIsSafe
<1> QED
  BY <1>2, <1>3, <1>4, <1>5, <1>6, <1>7, <1>8, PTL
     DEF AndroidSpec, Spec, Stop!Spec, Stats!Spec, Feedback!Spec, Log!Spec
=============================================================================
