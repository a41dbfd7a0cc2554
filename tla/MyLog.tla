--------------------------------- MODULE MyLog ---------------------------------
(***************************************************************************)
(* MyLog.java: log entries of all threads go through one executor thread   *)
(* into the content provider.  A failed insert is tried again, at the end  *)
(* of the executor's queue; after Threshold failures in a row the circuit  *)
(* opens, entries are dropped (errors go to logcat), and a task at the end *)
(* of the same queue closes it again.  shutdown() may come at any moment.  *)
(***************************************************************************)
EXTENDS Naturals, Sequences, FiniteSets

CONSTANTS
  Logs,           \* log entries
  Errors,         \* those of priority Log.ERROR
  MaxRetries,     \* MAX_RETRIES
  Threshold       \* FAILURE_THRESHOLD

LogAssumption ==
  Errors \subseteq Logs /\ MaxRetries \in Nat /\ Threshold \in Nat \ {0}

VARIABLES
  isInitialized, isShutdown, circuitOpen, failureCount,
  tasks,          \* the executor's queue
  running,        \* the task of the executor's thread, or Nothing
  asleep,         \* whether that task is in Thread.sleep()
  where           \* per entry: how far it has come

vars == <<isInitialized, isShutdown, circuitOpen, failureCount, tasks, running, asleep, where>>
flags == <<isInitialized, isShutdown>>

Nothing == [kind |-> "none"]
Insert(log, attempt) == [kind |-> "insert", log |-> log, attempt |-> attempt]
Reset == [kind |-> "reset"]
Tasks == {Insert(log, n) : log \in Logs, n \in 0..MaxRetries} \cup {Reset}

TypeOK ==
  /\ isInitialized \in BOOLEAN /\ isShutdown \in BOOLEAN /\ circuitOpen \in BOOLEAN
  /\ failureCount \in 0..Threshold
  /\ tasks \in Seq(Tasks) /\ running \in Tasks \cup {Nothing} /\ asleep \in BOOLEAN
  /\ where \in [Logs -> {"none", "captured", "queued", "thrown", "stored", "logcat", "dropped"}]

Init ==
  /\ isInitialized = FALSE /\ isShutdown = FALSE /\ circuitOpen = FALSE /\ failureCount = 0
  /\ tasks = <<>> /\ running = Nothing /\ asleep = FALSE
  /\ where = [log \in Logs |-> "none"]

-----------------------------------------------------------------------------
\* What becomes of an entry that is not inserted.
GivenUp(log) == IF log \in Errors THEN "logcat" ELSE "dropped"

\* execute(task), if that is called for; refused after shutdown().
Schedules(task, called) ==
  tasks' = IF called /\ ~isShutdown THEN Append(tasks, task) ELSE tasks

Runs(log) == running.kind = "insert" /\ running.log = log

InitLog ==
  /\ ~isShutdown /\ ~isInitialized /\ isInitialized' = TRUE
  /\ UNCHANGED <<isShutdown, circuitOpen, failureCount, tasks, running, asleep, where>>

\* storeLog: the caller has the context, or an exception when there is none yet or
\* no longer.
StoreLog(log) ==
  /\ where[log] = "none"
  /\ where' = [where EXCEPT ![log] = IF isInitialized THEN "captured" ELSE "thrown"]
  /\ UNCHANGED <<flags, circuitOpen, failureCount, tasks, running, asleep>>

\* execute(), which throws RejectedExecutionException after shutdown().
Execute(log) ==
  /\ where[log] = "captured"
  /\ where' = [where EXCEPT ![log] = IF isShutdown THEN "thrown" ELSE "queued"]
  /\ tasks' = IF isShutdown THEN tasks ELSE Append(tasks, Insert(log, 0))
  /\ UNCHANGED <<flags, circuitOpen, failureCount, running, asleep>>

\* shutdown, shutdownNow: what is queued is discarded and a sleeping task is
\* interrupted: a retry then gives its entry up, the reset leaves the circuit open.
Shutdown ==
  /\ ~isShutdown /\ isShutdown' = TRUE /\ isInitialized' = FALSE
  /\ tasks' = <<>>
  /\ running' = (IF asleep THEN Nothing ELSE running) /\ asleep' = FALSE
  /\ where' = [log \in Logs |->
       IF where[log] # "queued" THEN where[log]
       ELSE IF ~Runs(log) THEN "dropped"
       ELSE IF asleep THEN GivenUp(log) ELSE "queued"]
  /\ UNCHANGED <<circuitOpen, failureCount>>

-----------------------------------------------------------------------------
\* The executor's thread takes its next task; retries and the reset begin with a
\* sleep.
Takes ==
  /\ running = Nothing /\ tasks # <<>>
  /\ running' = Head(tasks) /\ tasks' = Tail(tasks)
  /\ asleep' = (running' = Reset \/ running'.attempt > 0)
  /\ UNCHANGED <<flags, circuitOpen, failureCount, where>>

Wakes ==
  /\ running.kind = "insert" /\ asleep /\ asleep' = FALSE
  /\ UNCHANGED <<flags, circuitOpen, failureCount, tasks, running, where>>

\* insertWithRetry while the circuit is open.
InsertSkipped ==
  /\ running.kind = "insert" /\ ~asleep /\ circuitOpen
  /\ where' = [where EXCEPT ![running.log] = GivenUp(running.log)]
  /\ running' = Nothing
  /\ UNCHANGED <<flags, circuitOpen, failureCount, tasks, asleep>>

\* insertWithRetry: the provider took the entry.
InsertSucceeds ==
  /\ running.kind = "insert" /\ ~asleep /\ ~circuitOpen
  /\ where' = [where EXCEPT ![running.log] = "stored"]
  /\ failureCount' = 0 /\ running' = Nothing
  /\ UNCHANGED <<flags, circuitOpen, tasks, asleep>>

\* Mutant: the entry that opens the circuit is forgotten.
FailsAndForgets ==
  /\ running.kind = "insert" /\ ~asleep /\ ~circuitOpen
  /\ running' = Nothing /\ failureCount' = failureCount + 1
  /\ LET opens == failureCount' >= Threshold
         retry == ~opens /\ running.attempt < MaxRetries
     IN  /\ circuitOpen' = opens
         /\ Schedules(IF opens THEN Reset ELSE Insert(running.log, running.attempt + 1),
                      opens \/ retry)
         /\ where' = IF retry THEN where
                     ELSE [where EXCEPT ![running.log] =
                             IF opens THEN "dropped" ELSE GivenUp(running.log)]
  /\ UNCHANGED <<flags, asleep>>

\* insertWithRetry: the provider failed; the circuit opens, or the entry is tried
\* again, or it is given up.  An entry whose task execute() refuses, after shutdown(),
\* is lost.
InsertFails ==
  /\ running.kind = "insert" /\ ~asleep /\ ~circuitOpen
  /\ running' = Nothing /\ failureCount' = failureCount + 1
  /\ LET opens == failureCount' >= Threshold
         retry == ~opens /\ running.attempt < MaxRetries
     IN  /\ circuitOpen' = opens
         /\ Schedules(IF opens THEN Reset ELSE Insert(running.log, running.attempt + 1),
                      opens \/ retry)
         /\ where' = IF isShutdown /\ (opens \/ retry)
                     THEN [where EXCEPT ![running.log] = "dropped"]
                     ELSE IF retry THEN where
                     ELSE [where EXCEPT ![running.log] = GivenUp(running.log)]
  /\ UNCHANGED <<flags, asleep>>

\* scheduleCircuitReset: the interval has passed.
CircuitResets ==
  /\ running = Reset /\ running' = Nothing
  /\ asleep' = FALSE /\ circuitOpen' = FALSE /\ failureCount' = 0
  /\ UNCHANGED <<flags, tasks, where>>

ExecutorNext ==
  Takes \/ Wakes \/ InsertSkipped \/ InsertSucceeds \/ InsertFails \/ CircuitResets

Next ==
  \/ InitLog \/ Shutdown
  \/ \E log \in Logs : StoreLog(log) \/ Execute(log)
  \/ ExecutorNext

Spec == Init /\ [][Next]_vars

-----------------------------------------------------------------------------
\* An error is never lost silently: as long as nobody shuts the logger down, an
\* error that was accepted is stored, in logcat or on its way, through retries, the
\* end of retries, and the opening of the circuit at any of them.
ErrorsAreKept == \A log \in Errors : where[log] = "dropped" => isShutdown

\* The circuit is open exactly while one reset is due, and it is open when the
\* failures have reached the threshold: the executor cannot collect resets, and a
\* closed circuit always tolerates another failure.
CircuitConsistent ==
  ~isShutdown =>
    /\ Cardinality({i \in DOMAIN tasks : tasks[i] = Reset})
         + (IF running = Reset THEN 1 ELSE 0) = (IF circuitOpen THEN 1 ELSE 0)
    /\ circuitOpen = (failureCount = Threshold)

\* The circuit closes again, however many entries are queued before the reset and
\* fail or are added meanwhile.
CircuitClosed == ~circuitOpen \/ isShutdown
CircuitCloses == circuitOpen ~> CircuitClosed

\* MyLog.java: errors are kept, and the circuit has its reset.
LogSafe == TypeOK /\ ErrorsAreKept /\ CircuitConsistent
=============================================================================
