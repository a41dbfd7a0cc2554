-------------------------------- MODULE MCAndroid -------------------------------
(***************************************************************************)
(* The components of the app beside the tunnel: the end of the tunnel      *)
(* thread, the transfer statistics, the feedback upload, the log and the   *)
(* upgrade.  They share no state, and each is checked on its own: part     *)
(* says which of them a behaviour is about, and the others stay as they    *)
(* were initialised.                                                       *)
(*                                                                         *)
(* The upgrade is there twice: with all its callers, and with the two      *)
(* threads of the checker's process alone, but more faults ("checker").    *)
(***************************************************************************)
EXTENDS Upgrade, Sequences

CONSTANTS
  MaxCommands,                                           \* of StopAndWait
  Period, MaxBuckets, MaxTime,                           \* of TransferStats
  MaxRunAttempts, MaxUploads, MaxChanges,                \* of Feedback
  Logs, Errors, MaxRetries, Threshold                    \* of MyLog

VARIABLES
  part,
  m_tunnelThread, m_tunnelThreadStopSignal, count, tunnel, sw_pc, stopSelf, revoked,
  sw_notified, commands,
  now, service, bundle, resets, ui, torn,
  work, attempt, tunnelState, states, last, inner, fb_core, emitter, callback, owner,
  shutdownHook, hooks, uploaded, started, changes,
  isInitialized, isShutdown, circuitOpen, failureCount, tasks, running, asleep, where

stop == <<m_tunnelThread, m_tunnelThreadStopSignal, count, tunnel, sw_pc, stopSelf, revoked,
          sw_notified, commands>>
stats == <<now, service, bundle, resets, ui, torn>>
feedback == <<work, attempt, tunnelState, states, last, inner, fb_core, emitter, callback,
              owner, shutdownHook, hooks, uploaded, started, changes>>
log == <<isInitialized, isShutdown, circuitOpen, failureCount, tasks, running, asleep, where>>
all == <<part, stop, stats, feedback, log, vars>>

Stop == INSTANCE StopAndWait WITH pc <- sw_pc, notified <- sw_notified
Stats == INSTANCE TransferStats
Feedback == INSTANCE Feedback WITH core <- fb_core
Log == INSTANCE MyLog

ASSUME BoundsAssumption ==
  /\ Stop!CommandsAssumption /\ Stats!StatsAssumption /\ Feedback!FeedbackAssumption
  /\ Log!LogAssumption

AndroidInit ==
  /\ part \in {"stop", "stats", "feedback", "log", "upgrade", "checker"}
  /\ Stop!Init /\ Stats!Init /\ Feedback!Init /\ Log!Init /\ Init
  /\ part # "stats" => now = 0                      \* the rest stays in one initial state
  /\ part # "feedback" => tunnelState = "unknown"

(* Bounds: with all callers, two versions and no fault; in the checker's process,
   which is there without a start, a damaged download or else a crash and an
   overlap. *)
AllCallersBound == latest' <= 2 /\ bad' = 0 /\ crashes' = 0 /\ overlaps' = 0
CheckerBound == starts' = 0 /\ bad' + crashes' <= 1 /\ bad' + overlaps' <= 1

AndroidNext ==
  /\ UNCHANGED part
  /\ \/ part = "stop" /\ Stop!Next /\ UNCHANGED <<stats, feedback, log, vars>>
     \/ part = "stats" /\ Stats!Next /\ UNCHANGED <<stop, feedback, log, vars>>
     \/ part = "feedback" /\ Feedback!Next /\ UNCHANGED <<stop, stats, log, vars>>
     \/ part = "log" /\ Log!Next /\ UNCHANGED <<stop, stats, feedback, vars>>
     \/ /\ part = "upgrade" /\ Next /\ UNCHANGED <<stop, stats, feedback, log>>
        /\ AllCallersBound
     \/ /\ part = "checker" /\ Next /\ UNCHANGED <<stop, stats, feedback, log>>
        /\ CheckerBound

(* Each thread that can run does, and the system calls onDestroy after
   stopSelf().  A tunnel thread that is stuck in vpnTeardown stays there. *)
StopFairness ==
  /\ WF_stop(part = "stop" /\ Stop!ThreadNext) /\ WF_stop(part = "stop" /\ Stop!MainNext)
  /\ WF_stop(part = "stop" /\ Stop!StopperNext("main"))
  /\ WF_stop(part = "stop" /\ Stop!StopperNext("binder"))

(* WorkManager runs what is due and stops what takes more than ten minutes; the
   threads run.  Nothing is assumed of the core: an upload may never end. *)
FeedbackFairness ==
  /\ WF_feedback(part = "feedback" /\ Feedback!CreateWork)
  /\ WF_feedback(part = "feedback" /\ Feedback!WorkStopped)
  /\ WF_feedback(part = "feedback" /\ Feedback!IoNext)

(* The executor's thread runs its tasks. *)
LogFairness == WF_log(part = "log" /\ Log!ExecutorNext)

(* The alarm repeats, broadcasts and work are delivered, the two threads run; a
   core that may download does so in the end (strong: CoreEnds competes), and the
   user takes the notification. *)
CheckerFairness ==
  /\ WF_vars(part = "checker" /\ Alarm) /\ SF_vars(part = "checker" /\ OnReceive)
  /\ WF_vars(part = "checker" /\ OnHandleWork)
  /\ SF_vars(part = "checker" /\ Install)
  /\ SF_vars(part = "checker" /\ CoreDownloads("service"))
  /\ \A p \in {"receiver", "service"} : WF_vars(part = "checker" /\ CallerNext(p))

AndroidSpec ==
  /\ AndroidInit /\ [][AndroidNext]_all
  /\ StopFairness /\ FeedbackFairness /\ LogFairness /\ CheckerFairness

-----------------------------------------------------------------------------
(* TunnelManager.java: nobody leaves stopAndWaitForTunnel while the tunnel thread
   runs, and runTunnel finds its latch when it is about to wait. *)
StopSafe == Stop!StopSafe

(* DataTransferStats.java: no bucket holds bytes of two periods, and no byte is
   shown as more recent than it is. *)
StatsSafe == Stats!StatsSafe

(* FeedbackWorker.java: one upload runs at a time, only in a state that allows it
   and for the attempt that runs; success is reported only of a feedback that was
   uploaded. *)
FeedbackSafe == Feedback!FeedbackSafe

(* MyLog.java: no error is lost before shutdown(), and an open circuit has exactly
   one reset due. *)
LogSafe == Log!LogSafe

(* Who waits in stopAndWaitForTunnel does not wait for ever, unless vpnTeardown
   has lost its terminate request (TunnelManager.java, VpnManager.java);
   a feedback's work ends whatever the core and the tunnel do
   (FeedbackWorker.java); an open circuit closes again (MyLog.java). *)
EverythingEnds ==
  (\/ part = "stop" /\ Stop!Waiting
   \/ part = "feedback"
   \/ part = "log" /\ circuitOpen)
    ~> (\/ part = "stop" /\ Stop!WaitOver
        \/ part = "feedback" /\ Feedback!WorkDone
        \/ part = "log" /\ Log!CircuitClosed)
=============================================================================
