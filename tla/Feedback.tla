-------------------------------- MODULE Feedback --------------------------------
(***************************************************************************)
(* FeedbackWorker.java: one feedback, uploaded by attempts of WorkManager. *)
(* Within an attempt, the tunnel state (from TunnelServiceInteractor) runs *)
(* through a switchMap on an io thread: each new state disposes of the     *)
(* upload that runs and starts another when the VPN is stopped or          *)
(* connected.  The core reports the end of an upload on a thread of its    *)
(* own, in three steps of RxJava's emitter (claim it, emit, run the        *)
(* cancellable), between which the io thread may already be at the next    *)
(* upload.  Both threads use the field shutdownHook.                       *)
(***************************************************************************)
EXTENDS Naturals, Sequences, FiniteSets, FiniteSetsExt

CONSTANTS
  MaxRunAttempts, \* the limit on getRunAttemptCount() in createWork
  MaxUploads,     \* bound: uploads started
  MaxChanges      \* bound: changes of the tunnel state

FeedbackAssumption ==
  MaxRunAttempts \in Nat /\ MaxUploads \in Nat /\ MaxChanges \in Nat

TunnelStates == {"unknown", "stopped", "connecting", "connected"}
Uploads == 1..MaxUploads
NoUpload == 0

VARIABLES
  work,           \* WorkManager's view: enqueued, running, success, failure
  attempt,        \* getRunAttemptCount()
  tunnelState,    \* the state of the interactor's relay
  states,         \* states on their way to the io thread
  last,           \* the state seen last by distinctUntilChanged
  inner,          \* the upload switchMap is subscribed to
  core,           \* per upload: the PsiphonTunnelFeedback instance
  emitter,        \* per upload: whether the emitter is live, or disposed of
  callback,       \* per upload: what the core's thread has still to do
  owner,          \* per upload: the attempt whose worker it belongs to
  shutdownHook,   \* the field, of the worker of each attempt
  hooks,          \* hooks registered with the runtime
  uploaded,       \* an upload has reached the server
  started, changes

vars == <<work, attempt, tunnelState, states, last, inner, core, emitter, callback, owner,
          shutdownHook, hooks, uploaded, started, changes>>
uploadVars == <<core, emitter, callback, owner, shutdownHook, hooks>>

Attempts == 0..(MaxRunAttempts + 1)

TypeOK ==
  /\ work \in {"enqueued", "running", "success", "failure"}
  /\ attempt \in Attempts
  /\ tunnelState \in TunnelStates /\ states \in Seq(TunnelStates)
  /\ last \in TunnelStates \cup {"none"}
  /\ inner \in Uploads \cup {NoUpload}
  /\ core \in [Uploads -> {"none", "active", "completed", "down"}]
  /\ emitter \in [Uploads -> {"none", "live", "disposed"}]
  /\ callback \in [Uploads -> {"none", "success", "error", "cancel"}]
  /\ owner \in [Uploads -> Attempts]
  /\ shutdownHook \in [Attempts -> Uploads \cup {NoUpload}]
  /\ hooks \subseteq Uploads
  /\ uploaded \in BOOLEAN
  /\ started \in Uploads \cup {0} /\ changes \in 0..MaxChanges

Init ==
  /\ work = "enqueued" /\ attempt = 0
  /\ tunnelState \in TunnelStates /\ states = <<>> /\ last = "none" /\ inner = NoUpload
  /\ core = [u \in Uploads |-> "none"] /\ emitter = [u \in Uploads |-> "none"]
  /\ callback = [u \in Uploads |-> "none"] /\ owner = [u \in Uploads |-> 0]
  /\ shutdownHook = [a \in Attempts |-> NoUpload] /\ hooks = {}
  /\ uploaded = FALSE /\ started = 0 /\ changes = 0

-----------------------------------------------------------------------------
Uploadable(s) == s \in {"stopped", "connected"}

\* The cancellable of startSendFeedback: shutdown(), and the hook in the field is
\* removed, whichever upload set it.
Cancelled(u) ==
  [core |-> [core EXCEPT ![u] = "down"],
   hooks |-> hooks \ {shutdownHook[owner[u]]},
   field |-> [shutdownHook EXCEPT ![owner[u]] = NoUpload]]

Unchanged == [core |-> core, hooks |-> hooks, field |-> shutdownHook]

\* Disposing of the signal of upload u; its cancellable runs unless the core's
\* thread has claimed the emitter.
Disposed(u) == IF u # NoUpload /\ emitter[u] = "live" THEN Cancelled(u) ELSE Unchanged

EmitterDisposed(u) == IF u = NoUpload THEN emitter ELSE [emitter EXCEPT ![u] = "disposed"]

CreateWorkUnguarded ==                  \* Mutant: attempts are not counted
  /\ work = "enqueued"
  /\ work' = "running" /\ states' = <<tunnelState>>
  /\ last' = "none" /\ inner' = NoUpload
  /\ UNCHANGED <<attempt, tunnelState, uploadVars, uploaded, started, changes>>

\* createWork: too many attempts, or the tunnel state is observed.
CreateWork ==
  /\ work = "enqueued"
  /\ IF attempt > MaxRunAttempts
     THEN work' = "failure" /\ states' = <<>>
     ELSE work' = "running" /\ states' = <<tunnelState>>
  /\ last' = "none" /\ inner' = NoUpload
  /\ UNCHANGED <<attempt, tunnelState, uploadVars, uploaded, started, changes>>

TunnelStateChanges ==
  /\ changes < MaxChanges /\ changes' = changes + 1
  /\ \E s \in TunnelStates \ {tunnelState} :
       /\ tunnelState' = s
       /\ states' = IF work = "running" THEN Append(states, s) ELSE states
  /\ UNCHANGED <<work, attempt, last, inner, uploadVars, uploaded, started>>

TakesState(s) ==
  /\ work = "running" /\ states # <<>> /\ s = Head(states)
  /\ states' = Tail(states)
  /\ UNCHANGED <<attempt, tunnelState, callback, uploaded, changes>>

\* distinctUntilChanged
OnSameState ==
  /\ TakesState(last)
  /\ UNCHANGED <<work, last, inner, core, emitter, owner, shutdownHook, hooks, started>>

\* switchMap: the previous upload is disposed of, and nothing is started.
OnStateWaits ==
  \E s \in TunnelStates \ {last} :
    /\ TakesState(s) /\ ~Uploadable(s)
    /\ LET r == Disposed(inner) IN core' = r.core /\ hooks' = r.hooks /\ shutdownHook' = r.field
    /\ emitter' = EmitterDisposed(inner)
    /\ last' = s /\ inner' = NoUpload
    /\ UNCHANGED <<work, owner, started>>

\* Mutant: the previous upload goes on.
OnStateMerges ==
  \E s \in TunnelStates \ {last} :
    /\ TakesState(s) /\ Uploadable(s) /\ started < MaxUploads
    /\ LET u == started + 1
       IN  /\ started' = u /\ inner' = u /\ last' = s
           /\ core' = [core EXCEPT ![u] = "active"]
           /\ emitter' = [emitter EXCEPT ![u] = "live"]
           /\ owner' = [owner EXCEPT ![u] = attempt]
           /\ shutdownHook' = [shutdownHook EXCEPT ![attempt] = u]
           /\ hooks' = hooks \cup {u}
    /\ UNCHANGED work

\* switchMap: the previous upload is disposed of, then startSendFeedback.
OnStateUploads ==
  \E s \in TunnelStates \ {last} :
    /\ TakesState(s) /\ Uploadable(s) /\ started < MaxUploads
    /\ LET r == Disposed(inner)
           u == started + 1
       IN  /\ started' = u /\ inner' = u /\ last' = s
           /\ core' = [r.core EXCEPT ![u] = "active"]
           /\ emitter' = [EmitterDisposed(inner) EXCEPT ![u] = "live"]
           /\ owner' = [owner EXCEPT ![u] = attempt]
           /\ shutdownHook' = [r.field EXCEPT ![attempt] = u]
           /\ hooks' = r.hooks \cup {u}
    /\ UNCHANGED work

\* buildTunnelCoreConfig returned null, or createFeedbackData threw.
OnStateFails ==
  \E s \in TunnelStates \ {last} :
    /\ TakesState(s) /\ Uploadable(s)
    /\ LET r == Disposed(inner) IN core' = r.core /\ hooks' = r.hooks /\ shutdownHook' = r.field
    /\ emitter' = EmitterDisposed(inner)
    /\ last' = s /\ inner' = NoUpload /\ work' = "failure"
    /\ UNCHANGED <<owner, started>>

-----------------------------------------------------------------------------
\* sendFeedbackCompleted, on the core's thread: the emitter is claimed, unless it
\* has been disposed of.
SendFeedbackCompleted(u) ==
  /\ core[u] = "active"
  /\ core' = [core EXCEPT ![u] = "completed"]
  /\ emitter' = [emitter EXCEPT ![u] = "disposed"]
  /\ \E r \in {"success", "error"} :
       /\ callback' = [callback EXCEPT ![u] = r]
       /\ uploaded' = (uploaded \/ r = "success")
  /\ UNCHANGED <<work, attempt, tunnelState, states, last, inner, owner, shutdownHook, hooks,
                 started, changes>>

\* The downstream of the emitter: the result ends the work, unless switchMap has
\* gone on to another upload or the work was stopped.
CallbackEmits(u) ==
  /\ callback[u] \in {"success", "error"}
  /\ callback' = [callback EXCEPT ![u] = "cancel"]
  /\ work' = IF work = "running" /\ inner = u
             THEN IF callback[u] = "success" THEN "success" ELSE "failure"
             ELSE work
  /\ UNCHANGED <<attempt, tunnelState, states, last, inner, core, emitter, owner, shutdownHook,
                 hooks, uploaded, started, changes>>

CallbackCancels(u) ==
  /\ callback[u] = "cancel"
  /\ callback' = [callback EXCEPT ![u] = "none"]
  /\ LET r == Cancelled(u) IN core' = r.core /\ hooks' = r.hooks /\ shutdownHook' = r.field
  /\ UNCHANGED <<work, attempt, tunnelState, states, last, inner, emitter, owner, uploaded,
                 started, changes>>

\* WorkManager stops the worker (ten minutes have passed, or the network is gone):
\* the signal is disposed of, and another attempt is due.
WorkStopped ==
  /\ work = "running"
  /\ LET r == Disposed(inner) IN core' = r.core /\ hooks' = r.hooks /\ shutdownHook' = r.field
  /\ emitter' = EmitterDisposed(inner)
  /\ work' = "enqueued" /\ attempt' = Min({attempt + 1, MaxRunAttempts + 1})
  /\ states' = <<>> /\ last' = "none" /\ inner' = NoUpload
  /\ UNCHANGED <<tunnelState, callback, owner, uploaded, started, changes>>

CoreNext ==
  \E u \in Uploads : SendFeedbackCompleted(u) \/ CallbackEmits(u) \/ CallbackCancels(u)

IoNext == OnSameState \/ OnStateWaits \/ OnStateUploads \/ OnStateFails

Next == CreateWork \/ TunnelStateChanges \/ IoNext \/ CoreNext \/ WorkStopped

Spec == Init /\ [][Next]_vars

-----------------------------------------------------------------------------
Active(u) == core[u] = "active"

\* "Only one upload is supported at a time": an upload is ended before the next one
\* begins, in the same attempt and across attempts.
OneUploadAtATime == Cardinality({u \in Uploads : Active(u)}) <= 1

\* An upload runs only while the tunnel state that was seen last allows one, and
\* only for the attempt that runs: a change of state, or the end of the attempt,
\* takes it down.
UploadOnlyWhenAllowed ==
  \A u \in Uploads : Active(u) =>
    work = "running" /\ inner = u /\ owner[u] = attempt /\ Uploadable(last)

\* The work is reported as done only when the feedback has reached the server, and
\* no late result of a replaced upload is taken for the present one.
SuccessMeansUploaded == (work = "success") => uploaded

\* "Guard against the upload being retried indefinitely": the work ends, even when
\* the core never reports and the tunnel never connects.
WorkDone == work \in {"success", "failure"}
WorkEnds == <>WorkDone

\* "to ensure that any underlying resources are cleaned up in the event that the JVM
\* is shutdown": every upload that runs has its hook registered.  This does not hold:
\* the end of one upload removes the hook of the next, which has replaced it in the
\* field.
HookCoversUpload == \A u \in Uploads : Active(u) => u \in hooks

\* FeedbackWorker.java: the uploads of all attempts, and what is reported of them.
FeedbackSafe == 
  TypeOK /\ OneUploadAtATime /\ UploadOnlyWhenAllowed /\ SuccessMeansUploaded
=============================================================================
