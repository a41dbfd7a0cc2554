------------------------------ MODULE StopAndWait ------------------------------
(***************************************************************************)
(* TunnelManager.java: stopAndWaitForTunnel, run by onDestroy on the main  *)
(* thread and by onRevoke on a binder thread, without a lock, against the  *)
(* tunnel thread and the stop commands.  m_tunnelThread and                *)
(* m_tunnelThreadStopSignal are read afresh at every use, and each use is  *)
(* a step here; a use that finds null throws NullPointerException.         *)
(*                                                                         *)
(* Module TunnelManager has the same operations as whole steps and without *)
(* onRevoke.  The system calls onRevoke only once the VPN is established.  *)
(***************************************************************************)
EXTENDS Naturals

CONSTANTS
  MaxCommands     \* bound: stop commands

CommandsAssumption == MaxCommands \in Nat

VARIABLES
  m_tunnelThread,             \* whether the field holds the thread; FALSE is null
  m_tunnelThreadStopSignal,   \* whether the field holds the latch; FALSE is null
  count,                      \* the latch's count
  tunnel,                     \* the tunnel thread, whatever the fields hold
  pc,                         \* where the main and the binder thread are
  stopSelf,                   \* stopSelf() has been called
  revoked,                    \* the system has called onRevoke
  notified,                   \* onRevoke has shown its intent or its notification
  commands

vars == <<m_tunnelThread, m_tunnelThreadStopSignal, count, tunnel, pc, stopSelf,
          revoked, notified, commands>>
fields == <<m_tunnelThread, m_tunnelThreadStopSignal>>

Stoppers == {"main", "binder"}

TypeOK ==
  /\ m_tunnelThread \in BOOLEAN /\ m_tunnelThreadStopSignal \in BOOLEAN
  /\ count \in 0..1
  /\ tunnel \in {"none", "begin", "established", "await", "failing",
                "finally", "stuck", "ended", "npe"}
  /\ pc \in [Stoppers -> {"idle", "stop", "call", "signal", "check", "checkSignal", "countDown",
                          "read", "join", "clear", "forget", "left", "done", "npe"}]
  /\ stopSelf \in BOOLEAN /\ revoked \in BOOLEAN /\ notified \in BOOLEAN
  /\ commands \in 0..MaxCommands

\* After onCreate; the service has been started for its first command.
Init ==
  /\ m_tunnelThread = FALSE /\ m_tunnelThreadStopSignal = FALSE /\ count = 1
  /\ tunnel = "none" /\ pc = [s \in Stoppers |-> "idle"]
  /\ stopSelf = FALSE /\ revoked = FALSE /\ notified = FALSE /\ commands = 0

\* An exception on the main thread ends the process.
Alive == pc["main"] # "npe"

Goes(s, from, to) == Alive /\ pc[s] = from /\ pc' = [pc EXCEPT ![s] = to]

-----------------------------------------------------------------------------
\* onStartCommand with m_firstStart, the configuration found at once.
OnStartCommand ==
  /\ pc["main"] = "idle" /\ tunnel = "none" /\ ~stopSelf
  /\ m_tunnelThreadStopSignal' = TRUE /\ count' = 1
  /\ m_tunnelThread' = TRUE /\ tunnel' = "begin"
  /\ UNCHANGED <<pc, stopSelf, revoked, notified, commands>>

\* onStartCommand with INTENT_ACTION_STOP_TUNNEL: the field is read twice, then
\* signalStopService is called.
OnStopIntent ==
  /\ commands < MaxCommands /\ commands' = commands + 1
  /\ \/ /\ pc["main"] = "idle" /\ ~m_tunnelThreadStopSignal
        /\ stopSelf' = TRUE /\ UNCHANGED pc
     \/ /\ m_tunnelThreadStopSignal /\ Goes("main", "idle", "stop") /\ UNCHANGED stopSelf
  /\ UNCHANGED <<fields, count, tunnel, revoked, notified>>

\* m_tunnelThreadStopSignal.getCount()
OnStopIntentCount ==
  /\ \/ m_tunnelThreadStopSignal /\ count = 0 /\ Goes("main", "stop", "idle") /\ stopSelf' = TRUE
     \/ m_tunnelThreadStopSignal /\ count # 0 /\ Goes("main", "stop", "call") /\ UNCHANGED stopSelf
     \/ ~m_tunnelThreadStopSignal /\ Goes("main", "stop", "npe") /\ UNCHANGED stopSelf
  /\ UNCHANGED <<fields, count, tunnel, revoked, notified, commands>>

\* The STOP_SERVICE message.
StopService ==
  /\ commands < MaxCommands /\ commands' = commands + 1
  /\ Goes("main", "idle", "call")
  /\ UNCHANGED <<fields, count, tunnel, stopSelf, revoked, notified>>

\* signalStopService: if (m_tunnelThreadStopSignal != null), and countDown().
SignalStopServiceChecks ==
  /\ Goes("main", "call", IF m_tunnelThreadStopSignal THEN "signal" ELSE "idle")
  /\ UNCHANGED <<fields, count, tunnel, stopSelf, revoked, notified, commands>>

SignalStopService ==
  /\ \/ m_tunnelThreadStopSignal /\ count' = 0 /\ Goes("main", "signal", "idle")
     \/ ~m_tunnelThreadStopSignal /\ Goes("main", "signal", "npe") /\ UNCHANGED count
  /\ UNCHANGED <<fields, tunnel, stopSelf, revoked, notified, commands>>

-----------------------------------------------------------------------------
\* The tunnel thread: vpnEstablish, startTunneling (either may fail), the wait for
\* the stop signal, and the finally block, which ends in stopSelf() ("failing" when
\* the VPN was never established).  The vpnTeardown in it may lose its terminate
\* request and wait for the native thread for ever (module VpnManager): "stuck".
RunTunnel(from, to) ==
  /\ Alive /\ tunnel = from /\ tunnel' = to
  /\ UNCHANGED <<fields, count, pc, revoked, notified, commands>>

RunTunnelEstablishes == RunTunnel("begin", "established") /\ UNCHANGED stopSelf
RunTunnelFails ==
  (RunTunnel("begin", "failing") \/ RunTunnel("established", "finally")) /\ UNCHANGED stopSelf
RunTunnelAwaits ==
  /\ RunTunnel("established", IF m_tunnelThreadStopSignal THEN "await" ELSE "npe")
  /\ UNCHANGED stopSelf
RunTunnelSignalled == count = 0 /\ RunTunnel("await", "finally") /\ UNCHANGED stopSelf
RunTunnelStops ==
  (RunTunnel("failing", "ended") \/ RunTunnel("finally", "ended")) /\ stopSelf' = TRUE
VpnTeardownHangs == RunTunnel("finally", "stuck") /\ UNCHANGED stopSelf

-----------------------------------------------------------------------------
\* The system calls onDestroy and onRevoke; both begin with stopAndWaitForTunnel.
OnDestroy ==
  /\ stopSelf /\ Goes("main", "idle", "check")
  /\ UNCHANGED <<fields, count, tunnel, stopSelf, revoked, notified, commands>>

OnRevoke ==
  /\ ~revoked /\ tunnel \in {"established", "await", "finally", "stuck"}
  /\ revoked' = TRUE /\ Goes("binder", "idle", "check")
  /\ UNCHANGED <<fields, count, tunnel, stopSelf, notified, commands>>

\* if (m_tunnelThread == null) return
StopperChecks(s) ==
  /\ Goes(s, "check", IF m_tunnelThread THEN "checkSignal" ELSE "left")
  /\ UNCHANGED <<fields, count, tunnel, stopSelf, revoked, notified, commands>>

\* if (m_tunnelThreadStopSignal != null)
StopperChecksSignal(s) ==
  /\ Goes(s, "checkSignal", IF m_tunnelThreadStopSignal THEN "countDown" ELSE "read")
  /\ UNCHANGED <<fields, count, tunnel, stopSelf, revoked, notified, commands>>

\* m_tunnelThreadStopSignal.countDown(), with the field read again.
StopperCountsDown(s) ==
  /\ \/ m_tunnelThreadStopSignal /\ Goes(s, "countDown", "read") /\ count' = 0
     \/ ~m_tunnelThreadStopSignal /\ Goes(s, "countDown", "npe") /\ UNCHANGED count
  /\ UNCHANGED <<fields, tunnel, stopSelf, revoked, notified, commands>>

\* Mutant: the fields are cleared before the wait.
StopperReadsAndClears(s) ==
  /\ Goes(s, "read", IF m_tunnelThread THEN "join" ELSE "npe")
  /\ m_tunnelThread' = FALSE
  /\ UNCHANGED <<m_tunnelThreadStopSignal, count, tunnel, stopSelf, revoked, notified, commands>>

\* m_tunnelThread is read once more for join().
StopperReadsThread(s) ==
  /\ Goes(s, "read", IF m_tunnelThread THEN "join" ELSE "npe")
  /\ UNCHANGED <<fields, count, tunnel, stopSelf, revoked, notified, commands>>

\* join() returns when the thread has ended, by an exception too.
StopperJoins(s) ==
  /\ tunnel \in {"ended", "npe"} /\ Goes(s, "join", "clear")
  /\ UNCHANGED <<fields, count, tunnel, stopSelf, revoked, notified, commands>>

StopperClearsSignal(s) ==
  /\ Goes(s, "clear", "forget") /\ m_tunnelThreadStopSignal' = FALSE
  /\ UNCHANGED <<m_tunnelThread, count, tunnel, stopSelf, revoked, notified, commands>>

StopperForgetsThread(s) ==
  /\ Goes(s, "forget", "left") /\ m_tunnelThread' = FALSE
  /\ UNCHANGED <<m_tunnelThreadStopSignal, count, tunnel, stopSelf, revoked, notified, commands>>

\* The rest of onDestroy: dispose() and unregisterHostService().
OnDestroyEnds ==
  /\ Goes("main", "left", "done")
  /\ UNCHANGED <<fields, count, tunnel, stopSelf, revoked, notified, commands>>

\* The rest of onRevoke: the intent is sent or the notification shown.
OnRevokeNotifies ==
  /\ Goes("binder", "left", "done") /\ notified' = TRUE
  /\ UNCHANGED <<fields, count, tunnel, stopSelf, revoked, commands>>

-----------------------------------------------------------------------------
StopperNext(s) ==
  \/ StopperChecks(s) \/ StopperChecksSignal(s) \/ StopperCountsDown(s)
  \/ StopperReadsThread(s) \/ StopperJoins(s) \/ StopperClearsSignal(s) \/ StopperForgetsThread(s)

ThreadNext ==
  \/ RunTunnelEstablishes \/ RunTunnelFails \/ RunTunnelAwaits
  \/ RunTunnelSignalled \/ RunTunnelStops \/ VpnTeardownHangs

MainNext ==
  \/ OnStopIntentCount \/ SignalStopServiceChecks \/ SignalStopService
  \/ OnDestroy \/ OnDestroyEnds

Next ==
  \/ OnStartCommand \/ OnStopIntent \/ StopService \/ OnRevoke
  \/ MainNext \/ ThreadNext \/ OnRevokeNotifies
  \/ \E s \in Stoppers : StopperNext(s)

Spec == Init /\ [][Next]_vars

-----------------------------------------------------------------------------
\* Neither caller gets past stopAndWaitForTunnel while the tunnel thread runs,
\* whichever of the two clears the fields first: onDestroy never unregisters the
\* host service under a tunnel thread that still uses it.
NobodyLeavesEarly ==
  \A s \in Stoppers :
    pc[s] \in {"clear", "forget", "left", "done"} => tunnel \in {"none", "ended"}

\* The tunnel thread finds its latch: the field is cleared only after it has ended,
\* although it is read, without a check, after startTunneling.
TunnelFindsItsSignal == tunnel # "npe"

\* Once a caller has begun to wait, the tunnel thread ends, unless its vpnTeardown is
\* stuck in the wait for tun2socks; or an exception on the main thread ends the
\* process with it.
Waiting == \E s \in Stoppers : pc[s] = "join"
WaitOver == tunnel = "ended" \/ tunnel = "stuck" \/ ~Alive
WaitIsBounded == Waiting ~> WaitOver

\* "in order to notify user": a revoked VPN is always made known to the user.  This
\* does not hold: when onDestroy clears m_tunnelThread between the check of onRevoke
\* and its join(), onRevoke ends with an exception before it notifies.
RevokeIsReported == revoked ~> (notified \/ ~Alive)

\* TunnelManager.java stopAndWaitForTunnel, runTunnel: both sides of the wait.
StopSafe == TypeOK /\ NobodyLeavesEarly /\ TunnelFindsItsSignal
=============================================================================
