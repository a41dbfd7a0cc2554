-------------------------------- MODULE Upgrade --------------------------------
(***************************************************************************)
(* UpgradeManager.java and UpgradeChecker.java: a downloaded upgrade is    *)
(* extracted into an unverified file, renamed to the verified one when its *)
(* signature is right, offered to the user by a notification and installed *)
(* by the system.  "May be called from any process or thread":             *)
(* getAvailableCompleteUpgradeFile is run, on the same files and without a *)
(* lock, by                                                                *)
(*   receiver  UpgradeChecker.onReceive, main thread of :UpgradeChecker    *)
(*   service   UpgradeCheckerService, a JobIntentService, on its thread of *)
(*             the same process, when the core asks for its configuration  *)
(*   tunnel    the tunnel thread of :TunnelVpnService                      *)
(*   handler   the main thread of that process, for a finished download    *)
(*   worker    FeedbackWorker, on a thread of the main process             *)
(* and each operation on a file is a step here.  An open file stays the    *)
(* same one when its name is given to another or taken away.               *)
(***************************************************************************)
EXTENDS Naturals, FiniteSets

CONSTANTS
  Callers,        \* which of AllCallers there are
  MaxVersion,     \* bound: versions released
  MaxBad,         \* bound: downloads that are damaged
  MaxCrashes,     \* bound: processes killed at work
  MaxStarts,      \* bound: starts of the VPN service and of feedback uploads
  MaxOverlaps     \* bound: extractions begun while another is under way

AllCallers == {"receiver", "service", "tunnel", "handler", "worker"}
Process == [c \in AllCallers |-> CASE c \in {"receiver", "service"} -> "checker"
                                   [] c \in {"tunnel", "handler"} -> "vpn"
                                   [] c = "worker" -> "main"]
Processes == {"checker", "vpn", "main"}
Threads(q) == {c \in Callers : Process[c] = q}
Cores == {"service", "tunnel"}            \* who runs a tunnel-core that may download

ASSUME UpgradeAssumption ==
  /\ {"receiver", "service"} \subseteq Callers /\ Callers \subseteq AllCallers
  /\ {MaxBad, MaxCrashes, MaxStarts, MaxOverlaps} \subseteq Nat /\ MaxVersion \in Nat \ {0}

Packages == [ver : 1..MaxVersion, good : BOOLEAN]
None == [ver |-> 0, good |-> FALSE]     \* no package; or a file that is not complete
Mixed == [ver |-> 0, good |-> TRUE]     \* bytes of two packages
Files == 1..(Cardinality(Callers) + 2)
NoFile == 0

VARIABLES
  installed, latest,      \* versions: of this app, and released
  download,               \* the package at getDefaultUpgradeDownloadFilePath
  unverified, verified,   \* which file has the name, if any
  content,                \* per file
  pc,                     \* per caller: where it is in getAvailableCompleteUpgradeFile
  why,                    \* per caller: called by upgradeCheckNeeded, or by notifyUpgrade with a
                          \* path ("first" if upgradeCheckNeeded follows) or a bare file name
  stream,                 \* per caller: the package it has opened
  fd,                     \* per caller: the file it writes
  core,                   \* per core: whether it may download
  pending,                \* UPGRADE_FILE_AVAILABLE_INTENT_ACTIONs under way, with a "path" or a
                          \* "name"; "work" of the job service; "post" to the VPN service's handler
  notified,               \* the upgrade notification is shown
  bad, crashes, starts, overlaps

vars == <<installed, latest, download, unverified, verified, content, pc, why, stream, fd,
          core, pending, notified, bad, crashes, starts, overlaps>>
files == <<download, unverified, verified, content>>
outcome == <<core, pending, notified>>
world == <<installed, latest, bad, crashes, starts>>

TypeOK ==
  /\ installed \in 1..MaxVersion /\ latest \in installed..MaxVersion
  /\ download \in Packages \cup {None}
  /\ unverified \in Files \cup {NoFile} /\ verified \in Files \cup {NoFile}
  /\ unverified # NoFile => unverified # verified
  /\ content \in [Files -> Packages \cup {None, Mixed}]
  /\ pc \in [Callers -> {"idle", "create", "write", "rename", "delete", "deleteBad", "check",
                         "discard"}]
  /\ why \in [Callers -> {"needed", "path", "name", "first"}]
  /\ stream \in [Callers -> Packages \cup {None}]
  /\ fd \in [Callers -> Files \cup {NoFile}]
  /\ core \in [Cores -> BOOLEAN]
  /\ pending \subseteq {"path", "name", "work", "post"} /\ notified \in BOOLEAN
  /\ bad \in 0..MaxBad /\ crashes \in 0..MaxCrashes /\ starts \in 0..MaxStarts
  /\ overlaps \in 0..MaxOverlaps

Init ==
  /\ installed = 1 /\ latest = 1
  /\ download = None /\ unverified = NoFile /\ verified = NoFile
  /\ content = [f \in Files |-> None]
  /\ pc = [p \in Callers |-> "idle"] /\ why = [p \in Callers |-> "needed"]
  /\ stream = [p \in Callers |-> None] /\ fd = [p \in Callers |-> NoFile]
  /\ core = [c \in Cores |-> FALSE]
  /\ pending = {} /\ notified = FALSE
  /\ bad = 0 /\ crashes = 0 /\ starts = 0 /\ overlaps = 0

Goes(p, from, to) == pc[p] = from /\ pc' = [pc EXCEPT ![p] = to]

-----------------------------------------------------------------------------
\* getAvailableCompleteUpgradeFile begins with downloadedFile.exists(): a bare name, as
\* upgradeCheckNeeded sends it, is no path to the download.
First(reason) == IF download' = None \/ reason = "name" THEN "check" ELSE "create"

\* A call of getAvailableCompleteUpgradeFile by p.
Calls(p, reason) ==
  /\ UNCHANGED <<files, stream, fd, core, notified, installed, latest, bad, crashes, overlaps>>
  /\ p \in Callers /\ Goes(p, "idle", First(reason))
  /\ why' = [why EXCEPT ![p] = reason]

\* ALARM_INTENT_ACTION: upgradeCheckNeeded.
Alarm == Calls("receiver", "needed") /\ UNCHANGED <<pending, starts>>

\* UPGRADE_FILE_AVAILABLE_INTENT_ACTION: notifyUpgrade.
OnReceive ==
  /\ \E b \in pending \cap {"path", "name"} : pending' = pending \ {b} /\ Calls("receiver", b)
  /\ UNCHANGED starts

\* onHandleWork: startTunneling asks for the configuration, buildTunnelCoreConfig calls
\* upgradeCheckNeeded.  mUpgradeCheckInProgress is a field of the instance, which ends
\* with its job: the work may find the core of an earlier check or not.
OnHandleWork ==
  /\ "work" \in pending /\ pending' = pending \ {"work"} /\ UNCHANGED starts
  /\ \/ Calls("service", "needed")
     \/ core["service"] /\ UNCHANGED <<files, pc, why, stream, fd, core, notified,
                                       installed, latest, bad, crashes, overlaps>>

\* The VPN service starts: runTunnel's notifyUpgrade, then buildTunnelCoreConfig's
\* upgradeCheckNeeded on the same thread.
TunnelStarts ==
  /\ starts < MaxStarts /\ starts' = starts + 1
  /\ ~core["tunnel"] /\ Calls("tunnel", "first") /\ UNCHANGED pending

\* The posted part of the VPN service's onClientUpgradeDownloaded: notifyUpgrade.
HandlerRuns ==
  /\ "post" \in pending /\ pending' = pending \ {"post"}
  /\ Calls("handler", "path") /\ UNCHANGED starts

\* A feedback upload builds its configuration: upgradeCheckNeeded.
FeedbackUploads ==
  /\ starts < MaxStarts /\ starts' = starts + 1
  /\ Calls("worker", "needed") /\ UNCHANGED pending

\* The call of p returns.  upgradeCheckNeeded broadcasts the bare name of what it has
\* found; if it has found nothing the receiver enqueues work, the service and the tunnel
\* let their core download, and a feedback's core downloads no upgrade anyhow.
\* notifyUpgrade shows the notification.
Returns(p, available) ==
  /\ pc' = [pc EXCEPT ![p] = IF why[p] = "first" THEN First("needed") ELSE "idle"]
  /\ why' = [why EXCEPT ![p] = "needed"]
  /\ pending' = pending \cup {x \in {"name", "work"} :
                                /\ why[p] = "needed"
                                /\ IF x = "name" THEN available ELSE ~available /\ p = "receiver"}
  /\ notified' = (notified \/ (available /\ why[p] # "needed"))
  /\ core' = [c \in Cores |-> core[c] \/ (c = p /\ why[p] = "needed" /\ ~available)]

\* Another caller is between its createForWriting and its rename.
Busy(p) == \E q \in Callers \ {p} : pc[q] \in {"write", "rename"}

\* A file that has neither name and that nobody has open.
NewFile == CHOOSE f \in Files : f # verified /\ \A q \in Callers : fd[q] # f

\* Mutant: written to the file that is to be offered.
CreateVerified(p) ==
  /\ Goes(p, "create", "write")
  /\ Busy(p) => overlaps < MaxOverlaps
  /\ overlaps' = (IF Busy(p) THEN overlaps + 1 ELSE overlaps)
  /\ stream' = [stream EXCEPT ![p] = download]
  /\ LET f == IF verified # NoFile THEN verified
              ELSE CHOOSE g \in Files : g # unverified /\ \A q \in Callers : fd[q] # g
     IN  /\ verified' = f /\ fd' = [fd EXCEPT ![p] = f]
         /\ content' = [content EXCEPT ![f] = None]
  /\ UNCHANGED <<download, unverified, why, outcome, world>>

\* openUnzipStream (which fails when another caller has deleted the file) and
\* createForWriting, which truncates a file that has the name.  The bound is on how
\* often this happens while another caller is at it.
Create(p) ==
  \/ /\ download # None /\ Goes(p, "create", "write")
     /\ Busy(p) => overlaps < MaxOverlaps
     /\ overlaps' = (IF Busy(p) THEN overlaps + 1 ELSE overlaps)
     /\ stream' = [stream EXCEPT ![p] = download]
     /\ LET f == IF unverified # NoFile THEN unverified ELSE NewFile
        IN  /\ unverified' = f /\ fd' = [fd EXCEPT ![p] = f]
            /\ content' = [content EXCEPT ![f] = None]
     /\ UNCHANGED <<download, verified, why, outcome, world>>
  \/ /\ download = None /\ Goes(p, "create", "deleteBad")
     /\ UNCHANGED <<files, why, stream, fd, outcome, world, overlaps>>

\* The contents c after a step that takes a name away or closes a file: one without a
\* name that nobody has open is gone.
Kept(c) == [f \in Files |-> IF f \in {unverified', verified'} \/ \E q \in Callers : fd'[q] = f
                            THEN c[f] ELSE None]

\* What a file holds after the package s was written over it: the two writers of
\* one file start at its beginning.
Overwritten(f, s) == IF content[f] \in {None, s} THEN {s} ELSE {s, Mixed}

\* extractAndVerifyData: the data goes to the file, and its signature is checked.
ExtractAndVerify(p) ==
  /\ Goes(p, "write", IF stream[p].good THEN "rename" ELSE "deleteBad")
  /\ fd' = [fd EXCEPT ![p] = NoFile] /\ stream' = [stream EXCEPT ![p] = None]
  /\ UNCHANGED <<download, unverified, verified, why, outcome, world, overlaps>>
  /\ \E c \in Overwritten(fd[p], stream[p]) : content' = Kept([content EXCEPT ![fd[p]] = c])

\* rename to the verified name of whatever has the unverified one.
Rename(p) ==
  /\ Goes(p, "rename", IF unverified # NoFile THEN "delete" ELSE "deleteBad")
  /\ verified' = (IF unverified # NoFile THEN unverified ELSE verified)
  /\ unverified' = NoFile
  /\ UNCHANGED <<download, why, stream, fd, outcome, world, overlaps>>
  /\ content' = Kept(content)

\* downloadedFile.delete(), whatever has been put there since; the call goes on if
\* extractAndVerify was successful.
Delete(p) ==
  /\ download' = None
  /\ \/ Goes(p, "delete", "check") /\ UNCHANGED <<why, outcome>>
     \/ pc[p] = "deleteBad" /\ Returns(p, FALSE)
  /\ UNCHANGED <<unverified, verified, content, stream, fd, world, overlaps>>

\* getPackageArchiveInfo, and a higher version.
Installable(f) == content[f] \in Packages /\ content[f].good /\ content[f].ver > installed

\* Mutant: a file of the version that runs is kept.
CheckKeepsSame(p) ==
  /\ pc[p] = "check" /\ UNCHANGED <<files, stream, fd, world, overlaps>>
  /\ Returns(p, verified # NoFile /\ content[verified].good
                                  /\ content[verified].ver >= installed)

\* The verified file is offered, or is about to be deleted.
Check(p) ==
  /\ pc[p] = "check" /\ UNCHANGED <<files, stream, fd, world, overlaps>>
  /\ IF verified = NoFile \/ Installable(verified)
     THEN Returns(p, verified # NoFile)
     ELSE Goes(p, "check", "discard") /\ UNCHANGED <<why, outcome>>

\* file.delete(), whatever has the verified name by now.
Discard(p) ==
  /\ pc[p] = "discard" /\ verified' = NoFile
  /\ UNCHANGED <<download, unverified, stream, fd, world, overlaps>>
  /\ content' = Kept(content)
  /\ Returns(p, FALSE)

-----------------------------------------------------------------------------
\* The tunnel-core of c puts a complete download in place; onClientUpgradeDownloaded
\* broadcasts from UpgradeCheckerService and posts to the handler of TunnelManager.
CoreDownloads(c) ==
  /\ core[c] /\ latest > installed
  /\ \E good \in BOOLEAN :
       /\ good \/ bad < MaxBad
       /\ bad' = IF good THEN bad ELSE bad + 1
       /\ download' = [ver |-> latest, good |-> good]
  /\ core' = [core EXCEPT ![c] = FALSE]
  /\ pending' = pending \cup {IF c = "service" THEN "path" ELSE "post"}
  /\ UNCHANGED <<unverified, verified, content, pc, why, stream, fd, notified,
                 installed, latest, crashes, starts, overlaps>>

\* onClientIsLatestVersion, or the tunnel ends for another reason.
CoreEnds(c) ==
  /\ core[c] /\ core' = [core EXCEPT ![c] = FALSE]
  /\ UNCHANGED <<files, pc, why, stream, fd, pending, notified, world, overlaps>>

Release ==
  /\ latest < MaxVersion /\ latest' = latest + 1
  /\ UNCHANGED <<files, pc, why, stream, fd, outcome, installed, bad, crashes, starts,
                 overlaps>>

\* The callers in S are gone; what each was writing stays as it is, in part.
Gone(S) ==
  /\ pc' = [p \in Callers |-> IF p \in S THEN "idle" ELSE pc[p]]
  /\ why' = [p \in Callers |-> IF p \in S THEN "needed" ELSE why[p]]
  /\ stream' = [p \in Callers |-> IF p \in S THEN None ELSE stream[p]]
  /\ fd' = [p \in Callers |-> IF p \in S THEN NoFile ELSE fd[p]]
  /\ core' = [c \in Cores |-> IF c \in S THEN FALSE ELSE core[c]]
  /\ UNCHANGED <<download, unverified, verified, latest, bad, starts, overlaps>>
  /\ content' = Kept([f \in Files |-> IF content[f] # None /\ \E p \in S : fd[p] = f
                                      THEN Mixed ELSE content[f]])

\* The user takes the notification; the system installs, and ends the processes.
Install ==
  /\ notified /\ notified' = FALSE
  /\ installed' = (IF verified # NoFile /\ Installable(verified)
                   THEN content[verified].ver ELSE installed)
  /\ Gone(Callers) /\ pending' = {} /\ UNCHANGED crashes

\* The process q is killed at work, with all its threads; broadcasts and work are kept
\* by the system.
Crash(q) ==
  /\ crashes < MaxCrashes /\ crashes' = crashes + 1
  /\ \E p \in Threads(q) : pc[p] # "idle"
  /\ Gone(Threads(q))
  /\ pending' = (IF q = "vpn" THEN pending \ {"post"} ELSE pending)
  /\ UNCHANGED <<notified, installed>>

-----------------------------------------------------------------------------
CallerNext(p) ==
  \/ Create(p) \/ ExtractAndVerify(p) \/ Rename(p) \/ Delete(p) \/ Check(p)
  \/ Discard(p)

Next ==
  \/ Alarm \/ OnReceive \/ OnHandleWork \/ TunnelStarts \/ HandlerRuns \/ FeedbackUploads
  \/ Release \/ Install
  \/ \E p \in Callers : CallerNext(p)
  \/ \E c \in Cores : CoreDownloads(c) \/ CoreEnds(c)
  \/ \E q \in Processes : Crash(q)

Spec == Init /\ [][Next]_vars

-----------------------------------------------------------------------------
\* "We will rely on file locking and package verification to keep the files sane":
\* the file that has the verified name is a complete package whose signature was
\* right, at every moment.  It does not hold, not even within the checker's process:
\* there is no lock, and one caller may rename the file that another has just
\* truncated.
FilesSane == verified # NoFile => content[verified] \in Packages /\ content[verified].good

\* UpgradeManager.java: whoever calls, from whichever thread, and whenever a process is
\* killed, the files are sane as long as no extraction was begun while another was
\* between its createForWriting and its rename.
SaneWithoutOverlap == overlaps = 0 => FilesSane

\* UpgradeManager.java: the types, and files that are sane without overlaps.
UpgradeSafe == TypeOK /\ SaneWithoutOverlap

\* An upgrade on disk never stands in the way of a newer one for ever: the last
\* version released is installed in the end, through damaged downloads, killed
\* processes, extractions that overlap and older upgrades that were pending when it
\* came out.
LatestIsInstalled == (latest = MaxVersion) ~> (installed = MaxVersion)

=============================================================================
