---------------------------- MODULE UpgradeProofs ----------------------------
(***************************************************************************)
(* Proofs about Upgrade, for any set of callers, any number of versions,   *)
(* damaged downloads, killed processes, starts and overlapping             *)
(* extractions: until an extraction is begun while another is under way,   *)
(* the file that has the verified name is, at every step, a complete       *)
(* package with a good signature.                                          *)
(***************************************************************************)
EXTENDS Upgrade, FiniteSetTheorems, TLAPS

PcType == {"idle", "create", "write", "rename", "delete", "deleteBad", "check", "discard"}
WhyType == {"needed", "path", "name", "first"}
PendingType == {"path", "name", "work", "post"}
Contents == Packages \cup {None, Mixed}

(* No package is of a version that is not released yet: why what is installed
   never gets ahead of latest. *)
VersionsReleased ==
  /\ download.ver <= latest
  /\ \A p \in Callers : stream[p].ver <= latest
  /\ \A f \in Files : content[f].ver <= latest

(* How far a caller is.  While it writes, the file is the one that has the
   unverified name, and empty; when it is about to rename, that file holds a
   good package. *)
WritesUnverified(p) ==
  /\ fd[p] # NoFile => pc[p] = "write"
  /\ pc[p] = "write" =>
       /\ unverified # NoFile /\ fd[p] = unverified
       /\ content[unverified] = None /\ stream[p] \in Packages
  /\ pc[p] = "rename" =>
       /\ unverified # NoFile
       /\ content[unverified] \in Packages /\ content[unverified].good = TRUE

Extracting(p) == pc[p] \in {"write", "rename"}
OneExtracts == \A p, q \in Callers : Extracting(p) /\ Extracting(q) => p = q

(* Nobody shares the unverified file as long as no extraction overlaps. *)
SaneInv ==
  overlaps = 0 => FilesSane /\ OneExtracts /\ \A p \in Callers : WritesUnverified(p)

UpgradeInv == TypeOK /\ VersionsReleased /\ SaneInv

-----------------------------------------------------------------------------
(* The callers are finitely many, and there are two files more. *)
LEMMA FileNumbers ==
  /\ IsFiniteSet(Callers) /\ Cardinality(Callers) \in Nat
  /\ IsFiniteSet(Files) /\ Cardinality(Files) = Cardinality(Callers) + 2
  /\ NoFile \notin Files
<1>1. IsFiniteSet(AllCallers)
  <2>1. IsFiniteSet({})
    BY FS_EmptySet
  <2>2. IsFiniteSet({} \cup {"receiver"})
    BY <2>1, FS_AddElement
  <2>3. IsFiniteSet(({} \cup {"receiver"}) \cup {"service"})
    BY <2>2, FS_AddElement
  <2>4. IsFiniteSet((({} \cup {"receiver"}) \cup {"service"}) \cup {"tunnel"})
    BY <2>3, FS_AddElement
  <2>5. IsFiniteSet(((({} \cup {"receiver"}) \cup {"service"}) \cup {"tunnel"})
                      \cup {"handler"})
    BY <2>4, FS_AddElement
  <2>6. IsFiniteSet((((({} \cup {"receiver"}) \cup {"service"}) \cup {"tunnel"})
                       \cup {"handler"}) \cup {"worker"})
    BY <2>5, FS_AddElement
  <2>7. AllCallers = (((({} \cup {"receiver"}) \cup {"service"}) \cup {"tunnel"})
                       \cup {"handler"}) \cup {"worker"}
    BY DEF AllCallers
  <2> QED
    BY <2>6, <2>7
<1>2. IsFiniteSet(Callers)
  BY <1>1, UpgradeAssumption, FS_Subset
<1>3. Cardinality(Callers) \in Nat
  BY <1>2, FS_CardinalityType
<1>4. IsFiniteSet(1..(Cardinality(Callers) + 2))
      /\ Cardinality(1..(Cardinality(Callers) + 2)) = Cardinality(Callers) + 2
  BY <1>3, FS_Interval
<1> QED
  BY <1>2, <1>3, <1>4 DEF Files, NoFile

(* createForWriting always finds a file that nobody has. *)
LEMMA NewFileIsNew ==
  ASSUME TypeOK
  PROVE  NewFile \in Files /\ NewFile # verified /\ \A q \in Callers : fd[q] # NewFile
<1> DEFINE T == Range(fd)
           U == T \cup {verified}
<1>1. fd \in [Callers -> Files \cup {NoFile}]
  BY DEF TypeOK
<1>2. fd \in Surjection(Callers, T)
  BY <1>1, Zenon DEF Surjection, Range
<1>3. IsFiniteSet(T) /\ Cardinality(T) <= Cardinality(Callers)
  BY <1>2, FileNumbers, FS_Surjection
<1>4. \A q \in Callers : fd[q] \in T
  BY <1>1 DEF Range
<1> HIDE DEF T
<1>5. IsFiniteSet(U) /\ Cardinality(U) <= Cardinality(Callers) + 1
  <2>1. Cardinality(T) \in Nat
    BY <1>3, FS_CardinalityType
  <2>2. IsFiniteSet(U) /\ Cardinality(U) = IF verified \in T THEN Cardinality(T)
                                                             ELSE Cardinality(T) + 1
    BY <1>3, FS_AddElement
  <2> QED
    BY <1>3, <2>1, <2>2, FileNumbers
<1>6. ~(Files \subseteq U)
  <2> SUFFICES ASSUME Files \subseteq U PROVE FALSE
    OBVIOUS
  <2>1. Cardinality(Files) <= Cardinality(U)
    BY <1>5, FS_Subset
  <2>2. Cardinality(U) \in Nat
    BY <1>5, FS_CardinalityType
  <2> QED
    BY <1>5, <2>1, <2>2, FileNumbers
<1>7. \E f \in Files : f # verified /\ \A q \in Callers : fd[q] # f
  BY <1>4, <1>6
<1> QED
  BY <1>7 DEF NewFile

(* A package is of some version and good or not; None and Mixed are not
   packages. *)
LEMMA PackageFields ==
  /\ \A c \in Packages : c.ver \in 1..MaxVersion /\ c.good \in BOOLEAN
  /\ None \notin Packages /\ Mixed \notin Packages
  /\ None.ver = 0 /\ Mixed.ver = 0 /\ None # Mixed
<1>1. None.ver = 0 /\ Mixed.ver = 0 /\ None.good = FALSE /\ Mixed.good = TRUE
  BY DEF None, Mixed
<1>2. \A c \in Packages : c.ver \in 1..MaxVersion /\ c.good \in BOOLEAN
  BY DEF Packages
<1> QED
  BY <1>1, <1>2, UpgradeAssumption

(* What is kept is a content, or nothing, and the same for a file with a name. *)
LEMMA KeptContent ==
  ASSUME NEW c \in [Files -> Contents]
  PROVE  /\ Kept(c) \in [Files -> Contents]
         /\ \A f \in Files : Kept(c)[f] \in {c[f], None}
         /\ \A f \in Files : f \in {unverified', verified'} => Kept(c)[f] = c[f]
BY DEF Kept, Contents

(* Where nobody begins an extraction, and files that have a name keep what they
   hold, they stay sane. *)
LEMMA SaneStep ==
  ASSUME UpgradeInv, UNCHANGED <<unverified, overlaps>>, verified' \in {verified, NoFile},
         \A f \in Files : f \in {unverified', verified'} => content'[f] = content[f],
         \A p \in Callers : fd'[p] # NoFile => fd'[p] = fd[p] /\ pc'[p] = pc[p],
         \A p \in Callers : pc'[p] \in {"write", "rename"} =>
            pc'[p] = pc[p] /\ fd'[p] = fd[p] /\ stream'[p] = stream[p]
  PROVE  SaneInv'
<1> SUFFICES ASSUME overlaps = 0
             PROVE  FilesSane' /\ OneExtracts' /\ \A p \in Callers : WritesUnverified(p)'
  BY DEF SaneInv
<1>1. FilesSane /\ OneExtracts /\ \A p \in Callers : WritesUnverified(p)
  BY DEF UpgradeInv, SaneInv
<1>2. unverified \in Files \cup {NoFile} /\ verified \in Files \cup {NoFile}
  BY DEF UpgradeInv, TypeOK
<1>3. FilesSane'
  BY <1>1, <1>2 DEF FilesSane
<1>4. OneExtracts'
  BY <1>1 DEF OneExtracts, Extracting
<1>5. ASSUME NEW p \in Callers PROVE WritesUnverified(p)'
  BY <1>1, <1>2 DEF WritesUnverified
<1> QED
  BY <1>3, <1>4, <1>5

(* The versions stay released where contents and streams are old ones, or none. *)
LEMMA ReleasedStep ==
  ASSUME UpgradeInv, latest' = latest, download' \in {download, None},
         \A p \in Callers : stream'[p] \in {stream[p], download, None},
         \A f \in Files : content'[f] \in {content[f], None, Mixed}
  PROVE  VersionsReleased'
<1>1. latest \in Nat
  BY UpgradeAssumption DEF UpgradeInv, TypeOK
<1>2. VersionsReleased
  BY DEF UpgradeInv
<1>3. download'.ver <= latest
  BY <1>1, <1>2, PackageFields DEF VersionsReleased
<1>4. \A p \in Callers : stream'[p].ver <= latest
  BY <1>1, <1>2, PackageFields DEF VersionsReleased
<1>5. \A f \in Files : content'[f].ver <= latest
  BY <1>1, <1>2, PackageFields DEF VersionsReleased
<1> QED
  BY <1>3, <1>4, <1>5 DEF VersionsReleased

-----------------------------------------------------------------------------
(* Before anything is downloaded. *)
LEMMA UpgradeInitInv ==
  ASSUME Init
  PROVE  UpgradeInv
<1>1. /\ installed \in 1..MaxVersion /\ latest \in installed..MaxVersion
      /\ bad \in 0..MaxBad /\ crashes \in 0..MaxCrashes /\ starts \in 0..MaxStarts
      /\ overlaps \in 0..MaxOverlaps
  BY UpgradeAssumption DEF Init
<1>2. notified \in BOOLEAN /\ core \in [Cores -> BOOLEAN]
  BY DEF Init
<1>3. TypeOK
  BY <1>1, <1>2 DEF Init, TypeOK
<1>4. VersionsReleased
  BY PackageFields DEF Init, VersionsReleased
<1>5. SaneInv
  BY DEF Init, SaneInv, FilesSane, WritesUnverified, OneExtracts, Extracting
<1> QED
  BY <1>3, <1>4, <1>5 DEF UpgradeInv

(* The first test of getAvailableCompleteUpgradeFile leads to one of two places. *)
LEMMA FirstType ==
  ASSUME NEW reason
  PROVE  First(reason) \in {"check", "create"}
BY DEF First

(* A call begins: only pc and why of the caller change, and what is pending and
   the starts. *)
LEMMA CallInv ==
  ASSUME UpgradeInv, NEW p, NEW reason \in WhyType, Calls(p, reason),
         pending' \subseteq PendingType, starts' \in 0..MaxStarts
  PROVE  UpgradeInv'
<1>1. /\ p \in Callers /\ pc[p] = "idle"
      /\ pc' = [pc EXCEPT ![p] = First(reason)] /\ why' = [why EXCEPT ![p] = reason]
      /\ UNCHANGED <<download, unverified, verified, content, stream, fd, core, notified,
                     installed, latest, bad, crashes, overlaps>>
  BY DEF Calls, Goes, files
<1>2. pc \in [Callers -> PcType] /\ why \in [Callers -> WhyType]
  BY DEF UpgradeInv, TypeOK, PcType, WhyType
<1>3. pc' \in [Callers -> PcType] /\ why' \in [Callers -> WhyType]
  BY <1>1, <1>2, FirstType DEF PcType
<1>4. TypeOK'
  BY <1>1, <1>3 DEF UpgradeInv, TypeOK, PcType, WhyType, PendingType
<1>5. VersionsReleased'
  BY <1>1 DEF UpgradeInv, VersionsReleased
<1>6. SaneInv'
  <2>1. \A q \in Callers : q # p => pc'[q] = pc[q]
    BY <1>1, <1>2
  <2>2. pc'[p] \notin {"write", "rename"}
    BY <1>1, <1>2, FirstType
  <2>3. CASE fd[p] # NoFile
    <3>1. overlaps # 0
      BY <1>1, <2>3 DEF UpgradeInv, SaneInv, WritesUnverified
    <3> QED
      BY <1>1, <3>1 DEF SaneInv
  <2>4. CASE fd[p] = NoFile
    BY <1>1, <2>1, <2>2, <2>4, SaneStep
  <2> QED
    BY <2>3, <2>4
<1> QED
  BY <1>4, <1>5, <1>6 DEF UpgradeInv

(* What a call leaves when it returns. *)
LEMMA ReturnType ==
  ASSUME UpgradeInv, NEW p \in Callers, NEW available \in BOOLEAN, Returns(p, available)
  PROVE  /\ pc' \in [Callers -> PcType] /\ why' \in [Callers -> WhyType]
         /\ pc'[p] \in {"idle", "check", "create"} /\ \A q \in Callers : q # p => pc'[q] = pc[q]
         /\ core' \in [Cores -> BOOLEAN] /\ pending' \subseteq PendingType
         /\ notified' \in BOOLEAN
<1>1. /\ pc \in [Callers -> PcType] /\ why \in [Callers -> WhyType]
      /\ core \in [Cores -> BOOLEAN] /\ pending \subseteq PendingType
  BY DEF UpgradeInv, TypeOK, PcType, WhyType, PendingType
<1>2. PICK x \in {"idle", "check", "create"} : pc' = [pc EXCEPT ![p] = x]
  <2>1. First("needed") \in {"check", "create"}
    BY FirstType
  <2> QED
    BY <2>1 DEF Returns
<1>3. why' = [why EXCEPT ![p] = "needed"]
  BY DEF Returns
<1>4. core' \in [Cores -> BOOLEAN] /\ pending' \subseteq PendingType
  BY <1>1 DEF Returns, PendingType
<1>5. notified' \in BOOLEAN
  <2>1. notified \in BOOLEAN
    BY DEF UpgradeInv, TypeOK
  <2> QED
    BY <2>1, ZenonT(20) DEF Returns
<1> QED
  BY <1>1, <1>2, <1>3, <1>4, <1>5 DEF PcType, WhyType

(* Nobody but a writer has a file open, unless extractions overlapped. *)
LEMMA ClosedStep ==
  ASSUME UpgradeInv, NEW p \in Callers, pc[p] # "write",
         UNCHANGED <<fd, stream, unverified, overlaps>>, verified' \in {verified, NoFile},
         \A f \in Files : f \in {unverified', verified'} => content'[f] = content[f],
         pc'[p] \notin {"write", "rename"}, \A q \in Callers : q # p => pc'[q] = pc[q]
  PROVE  SaneInv'
<1>1. CASE fd[p] # NoFile
  <2>1. overlaps # 0
    BY <1>1 DEF UpgradeInv, SaneInv, WritesUnverified
  <2> QED
    BY <2>1 DEF SaneInv
<1>2. CASE fd[p] = NoFile
  BY <1>2, SaneStep
<1> QED
  BY <1>1, <1>2

(* createForWriting gives the caller the file of the unverified name, emptied,
   which is never the verified one. *)
LEMMA CreateInv ==
  ASSUME UpgradeInv, NEW p \in Callers, Create(p)
  PROVE  UpgradeInv'
<1>1. /\ download \in Packages \cup {None} /\ unverified \in Files \cup {NoFile}
      /\ verified \in Files \cup {NoFile} /\ unverified # NoFile => unverified # verified
      /\ content \in [Files -> Contents] /\ pc \in [Callers -> PcType]
      /\ stream \in [Callers -> Packages \cup {None}]
      /\ fd \in [Callers -> Files \cup {NoFile}]
      /\ overlaps \in 0..MaxOverlaps /\ MaxOverlaps \in Nat
  BY UpgradeAssumption DEF UpgradeInv, TypeOK, PcType, Contents
<1>2. CASE download = None
  <2>1. /\ pc[p] = "create" /\ pc' = [pc EXCEPT ![p] = "deleteBad"]
        /\ UNCHANGED <<download, unverified, verified, content, why, stream, fd, core, pending,
                       notified, installed, latest, bad, crashes, starts, overlaps>>
    BY <1>2 DEF Create, Goes, files, outcome, world
  <2>2. pc' \in [Callers -> PcType]
    BY <1>1, <2>1 DEF PcType
  <2>3. TypeOK'
    BY <2>1, <2>2 DEF UpgradeInv, TypeOK, PcType
  <2>4. VersionsReleased'
    BY <2>1 DEF UpgradeInv, VersionsReleased
  <2>5. pc'[p] = "deleteBad" /\ \A q \in Callers : q # p => pc'[q] = pc[q]
    BY <1>1, <2>1
  <2>6. SaneInv'
    BY <2>1, <2>5, ClosedStep
  <2> QED
    BY <2>3, <2>4, <2>6 DEF UpgradeInv
<1>3. CASE download # None
  <2>1. PICK f : /\ f \in Files /\ f # verified /\ unverified' = f
                 /\ fd' = [fd EXCEPT ![p] = f] /\ content' = [content EXCEPT ![f] = None]
    <3> DEFINE g == IF unverified # NoFile THEN unverified ELSE NewFile
    <3>1. g \in Files /\ g # verified
      BY <1>1, NewFileIsNew DEF UpgradeInv
    <3>2. unverified' = g /\ fd' = [fd EXCEPT ![p] = g] /\ content' = [content EXCEPT ![g] = None]
      BY <1>3 DEF Create
    <3> QED
      BY <3>1, <3>2
  <2>2. /\ pc[p] = "create" /\ pc' = [pc EXCEPT ![p] = "write"]
        /\ stream' = [stream EXCEPT ![p] = download]
        /\ Busy(p) => overlaps < MaxOverlaps
        /\ overlaps' = (IF Busy(p) THEN overlaps + 1 ELSE overlaps)
        /\ UNCHANGED <<download, verified, why, core, pending, notified,
                       installed, latest, bad, crashes, starts>>
    BY <1>3 DEF Create, Goes, outcome, world
  <2>3. pc' \in [Callers -> PcType]
    BY <1>1, <2>2 DEF PcType
  <2>4. stream' \in [Callers -> Packages \cup {None}] /\ fd' \in [Callers -> Files \cup {NoFile}]
    BY <1>1, <2>1, <2>2
  <2>5. content' \in [Files -> Contents] /\ content'[f] = None
    BY <1>1, <2>1 DEF Contents
  <2>6. f # NoFile
    BY <2>1, FileNumbers
  <2>7. overlaps' \in 0..MaxOverlaps
    BY <1>1, <2>2
  <2>8. TypeOK'
    BY <2>1, <2>2, <2>3, <2>4, <2>5, <2>7 DEF UpgradeInv, TypeOK, PcType, Contents
  <2>9. VersionsReleased'
    <3>1. \A q \in Callers : stream'[q] \in {stream[q], download, None}
      BY <1>1, <2>2
    <3>2. \A g \in Files : content'[g] \in {content[g], None, Mixed}
      BY <1>1, <2>1
    <3> QED
      BY <2>2, <3>1, <3>2, ReleasedStep
  <2>10. SaneInv'
    <3> SUFFICES ASSUME overlaps' = 0
                 PROVE  FilesSane' /\ OneExtracts' /\ \A q \in Callers : WritesUnverified(q)'
      BY DEF SaneInv
    <3>1. ~Busy(p) /\ overlaps = 0
      BY <1>1, <2>2
    <3>2. FilesSane /\ \A q \in Callers : WritesUnverified(q)
      BY <3>1 DEF UpgradeInv, SaneInv
    <3>3. \A q \in Callers : q # p => /\ pc'[q] = pc[q] /\ fd'[q] = fd[q]
                                      /\ pc[q] \notin {"write", "rename"}
      BY <1>1, <2>1, <2>2, <3>1 DEF Busy
    <3>4. pc'[p] = "write" /\ fd'[p] = f /\ stream'[p] = download
      BY <1>1, <2>1, <2>2
    <3>5. FilesSane'
      <4>1. verified' = verified /\ (verified # NoFile => content'[verified] = content[verified])
        BY <1>1, <2>1, <2>2
      <4> QED
        BY <3>2, <4>1 DEF FilesSane
    <3>6. OneExtracts'
      BY <3>3 DEF OneExtracts, Extracting
    <3>7. ASSUME NEW q \in Callers, q # p PROVE WritesUnverified(q)'
      BY <3>2, <3>3, <3>7 DEF WritesUnverified
    <3>8. WritesUnverified(p)'
      BY <1>1, <1>3, <2>1, <2>5, <2>6, <3>4 DEF WritesUnverified
    <3> QED
      BY <3>5, <3>6, <3>7, <3>8
  <2> QED
    BY <2>8, <2>9, <2>10 DEF UpgradeInv
<1> QED
  BY <1>2, <1>3

(* What a file holds when the data is written is the package, or bytes of two;
   without overlap the writer finds its file empty. *)
LEMMA ExtractInv ==
  ASSUME UpgradeInv, NEW p \in Callers, ExtractAndVerify(p)
  PROVE  UpgradeInv'
<1>1. /\ unverified \in Files \cup {NoFile} /\ verified \in Files \cup {NoFile}
      /\ unverified # NoFile => unverified # verified
      /\ content \in [Files -> Contents] /\ pc \in [Callers -> PcType]
      /\ stream \in [Callers -> Packages \cup {None}]
      /\ fd \in [Callers -> Files \cup {NoFile}] /\ latest \in Nat
  BY UpgradeAssumption DEF UpgradeInv, TypeOK, PcType, Contents
<1>2. /\ pc[p] = "write"
      /\ pc' = [pc EXCEPT ![p] = IF stream[p].good THEN "rename" ELSE "deleteBad"]
      /\ fd' = [fd EXCEPT ![p] = NoFile] /\ stream' = [stream EXCEPT ![p] = None]
      /\ UNCHANGED <<download, unverified, verified, why, core, pending, notified,
                     installed, latest, bad, crashes, starts, overlaps>>
  BY DEF ExtractAndVerify, Goes, outcome, world
<1>3. PICK c \in Overwritten(fd[p], stream[p]) :
        content' = Kept([content EXCEPT ![fd[p]] = c])
  BY DEF ExtractAndVerify
<1> DEFINE written == [content EXCEPT ![fd[p]] = c]
<1>4. stream[p].good \in BOOLEAN
  <2>1. stream[p] \in Packages \/ stream[p] = None
    BY <1>1
  <2>2. None.good = FALSE
    BY DEF None
  <2>3. None.good \in BOOLEAN
    BY <2>2, Zenon
  <2> QED
    BY <2>1, <2>3, PackageFields, Zenon
<1>5. c \in {stream[p], Mixed}
  BY <1>3 DEF Overwritten
<1>6. /\ pc' \in [Callers -> PcType] /\ fd' \in [Callers -> Files \cup {NoFile}]
      /\ stream' \in [Callers -> Packages \cup {None}]
  BY <1>1, <1>2, <1>4 DEF PcType
<1>7. written \in [Files -> Contents]
  BY <1>1, <1>5 DEF Contents
<1>8. /\ content' \in [Files -> Contents]
      /\ \A g \in Files : content'[g] \in {written[g], None}
      /\ \A g \in Files : g \in {unverified, verified} => content'[g] = written[g]
  BY <1>2, <1>3, <1>7, KeptContent
<1>9. TypeOK'
  BY <1>2, <1>6, <1>8 DEF UpgradeInv, TypeOK, PcType, Contents
<1>10. VersionsReleased'
  <2>1. None.ver = 0 /\ c.ver <= latest
    BY <1>1, <1>5, PackageFields DEF UpgradeInv, VersionsReleased
  <2>2. \A q \in Callers : stream'[q].ver <= latest
    BY <1>1, <1>2, <2>1 DEF UpgradeInv, VersionsReleased
  <2>3. \A g \in Files : written[g].ver <= latest
    BY <1>1, <2>1 DEF UpgradeInv, VersionsReleased
  <2>4. \A g \in Files : content'[g].ver <= latest
    BY <1>1, <1>8, <2>1, <2>3
  <2> QED
    BY <1>2, <2>2, <2>4 DEF UpgradeInv, VersionsReleased
<1>11. SaneInv'
  <2> SUFFICES ASSUME overlaps = 0
               PROVE  FilesSane' /\ OneExtracts' /\ \A q \in Callers : WritesUnverified(q)'
    BY <1>2 DEF SaneInv
  <2>1. FilesSane /\ OneExtracts /\ \A q \in Callers : WritesUnverified(q)
    BY DEF UpgradeInv, SaneInv
  <2>2. /\ unverified # NoFile /\ fd[p] = unverified
        /\ content[unverified] = None /\ stream[p] \in Packages
    BY <1>2, <2>1 DEF WritesUnverified
  <2>3. written = [content EXCEPT ![unverified] = stream[p]]
    BY <1>3, <2>2 DEF Overwritten
  <2>4. content'[unverified] = stream[p]
    BY <1>1, <1>8, <2>2, <2>3
  <2>5. FilesSane'
    <3>1. verified # NoFile => content'[verified] = content[verified]
      BY <1>1, <1>8, <2>2, <2>3
    <3> QED
      BY <1>2, <2>1, <3>1 DEF FilesSane
  <2>6. \A q \in Callers : q # p => /\ pc'[q] = pc[q] /\ fd'[q] = fd[q]
                                    /\ pc[q] \notin {"write", "rename"}
    BY <1>1, <1>2, <2>1 DEF OneExtracts, Extracting
  <2>7. /\ pc'[p] = (IF stream[p].good THEN "rename" ELSE "deleteBad")
        /\ fd'[p] = NoFile
    BY <1>1, <1>2
  <2>8. OneExtracts'
    BY <2>6 DEF OneExtracts, Extracting
  <2>9. ASSUME NEW q \in Callers, q # p PROVE WritesUnverified(q)'
    BY <2>1, <2>6, <2>9 DEF WritesUnverified
  <2>10. WritesUnverified(p)'
    BY <1>2, <1>4, <2>2, <2>4, <2>7 DEF WritesUnverified
  <2> QED
    BY <2>5, <2>8, <2>9, <2>10
<1> QED
  BY <1>9, <1>10, <1>11 DEF UpgradeInv

(* Without overlap a caller renames the package that it has just verified. *)
LEMMA RenameInv ==
  ASSUME UpgradeInv, NEW p \in Callers, Rename(p)
  PROVE  UpgradeInv'
<1>1. /\ pc[p] = "rename"
      /\ pc' = [pc EXCEPT ![p] = "delete"] \/ pc' = [pc EXCEPT ![p] = "deleteBad"]
      /\ verified' = (IF unverified # NoFile THEN unverified ELSE verified)
      /\ unverified' = NoFile /\ content' = Kept(content)
      /\ UNCHANGED <<download, why, stream, fd, core, pending, notified,
                     installed, latest, bad, crashes, starts, overlaps>>
  BY DEF Rename, Goes, outcome, world
<1>2. /\ pc \in [Callers -> PcType] /\ content \in [Files -> Contents]
      /\ unverified \in Files \cup {NoFile} /\ verified \in Files \cup {NoFile}
  BY DEF UpgradeInv, TypeOK, PcType, Contents
<1>3. /\ content' \in [Files -> Contents]
      /\ \A g \in Files : content'[g] \in {content[g], None}
      /\ \A g \in Files : g \in {unverified', verified'} => content'[g] = content[g]
  BY <1>1, <1>2, KeptContent
<1>4. /\ pc' \in [Callers -> PcType] /\ pc'[p] \in {"delete", "deleteBad"}
      /\ \A q \in Callers : q # p => pc'[q] = pc[q]
  BY <1>1, <1>2 DEF PcType
<1>5. TypeOK'
  BY <1>1, <1>2, <1>3, <1>4 DEF UpgradeInv, TypeOK, PcType, Contents
<1>6. VersionsReleased'
  BY <1>1, <1>3, ReleasedStep
<1>7. SaneInv'
  <2> SUFFICES ASSUME overlaps = 0
               PROVE  FilesSane' /\ OneExtracts' /\ \A q \in Callers : WritesUnverified(q)'
    BY <1>1 DEF SaneInv
  <2>1. FilesSane /\ OneExtracts /\ \A q \in Callers : WritesUnverified(q)
    BY DEF UpgradeInv, SaneInv
  <2>2. /\ unverified # NoFile /\ content[unverified] \in Packages
        /\ content[unverified].good = TRUE
    BY <1>1, <2>1 DEF WritesUnverified
  <2>3. FilesSane'
    BY <1>1, <1>2, <1>3, <2>2 DEF FilesSane
  <2>4. \A q \in Callers : pc'[q] \notin {"write", "rename"} /\ fd'[q] = NoFile
    BY <1>1, <1>4, <2>1 DEF OneExtracts, Extracting, WritesUnverified
  <2> QED
    BY <2>3, <2>4 DEF OneExtracts, Extracting, WritesUnverified
<1> QED
  BY <1>5, <1>6, <1>7 DEF UpgradeInv

(* The download goes, and the check keeps the verified file or takes its name
   away. *)
LEMMA DeleteCheckInv ==
  ASSUME UpgradeInv, NEW p \in Callers, Delete(p) \/ Check(p) \/ Discard(p)
  PROVE  UpgradeInv'
<1>1. /\ pc[p] \in {"delete", "deleteBad", "check", "discard"}
      /\ download' \in {download, None} /\ verified' \in {verified, NoFile}
      /\ content' = content \/ content' = Kept(content)
      /\ UNCHANGED <<unverified, stream, fd, installed, latest, bad, crashes, starts, overlaps>>
  BY DEF Delete, Check, Discard, Goes, files, world
<1>2. /\ pc \in [Callers -> PcType] /\ why \in [Callers -> WhyType]
      /\ core \in [Cores -> BOOLEAN] /\ pending \subseteq PendingType /\ notified \in BOOLEAN
      /\ verified \in Files \cup {NoFile} /\ download \in Packages \cup {None}
      /\ content \in [Files -> Contents]
  BY DEF UpgradeInv, TypeOK, PcType, WhyType, PendingType, Contents
<1>3. /\ pc' \in [Callers -> PcType] /\ why' \in [Callers -> WhyType]
      /\ pc'[p] \notin {"write", "rename"} /\ \A q \in Callers : q # p => pc'[q] = pc[q]
      /\ core' \in [Cores -> BOOLEAN] /\ pending' \subseteq PendingType
      /\ notified' \in BOOLEAN
  <2>1. CASE \E available \in BOOLEAN : Returns(p, available)
    BY <2>1, ReturnType
  <2>2. CASE /\ pc' = [pc EXCEPT ![p] = "check"] \/ pc' = [pc EXCEPT ![p] = "discard"]
             /\ UNCHANGED <<why, core, pending, notified>>
    BY <1>2, <2>2 DEF PcType
  <2>3. (verified # NoFile) \in BOOLEAN
    OBVIOUS
  <2> QED
    BY <2>1, <2>2, <2>3 DEF Delete, Check, Discard, Goes, outcome
<1>4. /\ content' \in [Files -> Contents]
      /\ \A g \in Files : content'[g] \in {content[g], None}
      /\ \A g \in Files : g \in {unverified', verified'} => content'[g] = content[g]
  BY <1>1, <1>2, KeptContent
<1>5. TypeOK'
  BY <1>1, <1>2, <1>3, <1>4 DEF UpgradeInv, TypeOK, PcType, WhyType, PendingType, Contents
<1>6. VersionsReleased'
  BY <1>1, <1>4, ReleasedStep
<1>7. SaneInv'
  BY <1>1, <1>3, <1>4, ClosedStep
<1> QED
  BY <1>5, <1>6, <1>7 DEF UpgradeInv

(* What tunnel-core downloads is the latest version. *)
LEMMA CoreInv ==
  ASSUME UpgradeInv, NEW c \in Cores, CoreDownloads(c) \/ CoreEnds(c)
  PROVE  UpgradeInv'
<1>1. /\ core' = [core EXCEPT ![c] = FALSE]
      /\ pending' \in {pending, pending \cup {"path"}, pending \cup {"post"}}
      /\ UNCHANGED <<unverified, verified, content, pc, why, stream, fd, notified, installed,
                     latest, crashes, starts, overlaps>>
  BY DEF CoreDownloads, CoreEnds, files, world
<1>2. /\ core \in [Cores -> BOOLEAN] /\ pending \subseteq PendingType
      /\ bad \in 0..MaxBad /\ MaxBad \in Nat
      /\ installed \in 1..MaxVersion /\ latest \in installed..MaxVersion /\ MaxVersion \in Nat
  BY UpgradeAssumption DEF UpgradeInv, TypeOK, PendingType
<1>3. core' \in [Cores -> BOOLEAN] /\ pending' \subseteq PendingType
  BY <1>1, <1>2 DEF PendingType
<1>4. bad' \in 0..MaxBad
  BY <1>2 DEF CoreDownloads, CoreEnds, world
<1>5. \/ download' = download
      \/ \E good \in BOOLEAN : download' = [ver |-> latest, good |-> good]
  BY DEF CoreDownloads, CoreEnds, files
<1>6. download' \in Packages \cup {None} /\ download'.ver <= latest
  BY <1>2, <1>5 DEF UpgradeInv, TypeOK, VersionsReleased, Packages
<1>7. TypeOK'
  BY <1>1, <1>3, <1>4, <1>6 DEF UpgradeInv, TypeOK, PendingType
<1>8. VersionsReleased'
  BY <1>1, <1>6 DEF UpgradeInv, VersionsReleased
<1>9. SaneInv'
  BY <1>1 DEF UpgradeInv, SaneInv, FilesSane, WritesUnverified, OneExtracts, Extracting
<1> QED
  BY <1>7, <1>8, <1>9 DEF UpgradeInv

(* A process that is gone has written nothing to a file that has a name, unless
   extractions overlapped. *)
LEMMA GoneInv ==
  ASSUME UpgradeInv, NEW S \in SUBSET Callers, Gone(S), pending' \subseteq PendingType,
         notified' \in BOOLEAN, installed' \in 1..MaxVersion, latest \in installed'..MaxVersion,
         crashes' \in 0..MaxCrashes
  PROVE  UpgradeInv'
<1> DEFINE cut == [f \in Files |-> IF content[f] # None /\ \E p \in S : fd[p] = f
                                   THEN Mixed ELSE content[f]]
<1>1. /\ unverified \in Files \cup {NoFile} /\ verified \in Files \cup {NoFile}
      /\ content \in [Files -> Contents] /\ pc \in [Callers -> PcType]
      /\ why \in [Callers -> WhyType] /\ stream \in [Callers -> Packages \cup {None}]
      /\ fd \in [Callers -> Files \cup {NoFile}] /\ core \in [Cores -> BOOLEAN]
  BY DEF UpgradeInv, TypeOK, PcType, WhyType, Contents
<1>2. /\ pc' = [p \in Callers |-> IF p \in S THEN "idle" ELSE pc[p]]
      /\ why' = [p \in Callers |-> IF p \in S THEN "needed" ELSE why[p]]
      /\ stream' = [p \in Callers |-> IF p \in S THEN None ELSE stream[p]]
      /\ fd' = [p \in Callers |-> IF p \in S THEN NoFile ELSE fd[p]]
      /\ core' = [c \in Cores |-> IF c \in S THEN FALSE ELSE core[c]]
      /\ UNCHANGED <<download, unverified, verified, latest, bad, starts, overlaps>>
      /\ content' = Kept(cut)
  BY DEF Gone
<1>3. cut \in [Files -> Contents] /\ \A f \in Files : cut[f] \in {content[f], Mixed}
  BY <1>1 DEF Contents
<1> HIDE DEF cut
<1>4. /\ content' \in [Files -> Contents]
      /\ \A f \in Files : content'[f] \in {cut[f], None}
      /\ \A f \in Files : f \in {unverified', verified'} => content'[f] = cut[f]
  BY <1>2, <1>3, KeptContent
<1>5. /\ pc' \in [Callers -> PcType] /\ why' \in [Callers -> WhyType]
      /\ stream' \in [Callers -> Packages \cup {None}]
      /\ fd' \in [Callers -> Files \cup {NoFile}]
  BY <1>1, <1>2 DEF PcType, WhyType
<1>6. core' \in [Cores -> BOOLEAN]
  BY <1>1, <1>2
<1>7. TypeOK'
  BY <1>2, <1>4, <1>5, <1>6 DEF UpgradeInv, TypeOK, PcType, WhyType, PendingType, Contents
<1>8. VersionsReleased'
  <2>1. \A p \in Callers : stream'[p] \in {stream[p], download, None}
    BY <1>2
  <2>2. \A f \in Files : content'[f] \in {content[f], None, Mixed}
    BY <1>3, <1>4
  <2> QED
    BY <1>2, <2>1, <2>2, ReleasedStep
<1>9. SaneInv'
  <2>1. CASE overlaps # 0
    BY <1>2, <2>1 DEF SaneInv
  <2>2. CASE overlaps = 0
    <3>1. \A p \in Callers : WritesUnverified(p)
      BY <2>2 DEF UpgradeInv, SaneInv
    <3>2. \A p \in Callers : fd[p] # NoFile => content[fd[p]] = None
      BY <3>1 DEF WritesUnverified
    <3>3. \A f \in Files : cut[f] = content[f]
      BY <3>2, FileNumbers DEF cut
    <3>4. \A f \in Files : f \in {unverified', verified'} => content'[f] = content[f]
      BY <1>4, <3>3
    <3>5. \A p \in Callers : fd'[p] # NoFile => fd'[p] = fd[p] /\ pc'[p] = pc[p]
      BY <1>2
    <3>6. \A p \in Callers : pc'[p] \in {"write", "rename"} =>
             pc'[p] = pc[p] /\ fd'[p] = fd[p] /\ stream'[p] = stream[p]
      BY <1>2
    <3> QED
      BY <1>2, <3>4, <3>5, <3>6, SaneStep
  <2> QED
    BY <2>1, <2>2
<1> QED
  BY <1>7, <1>8, <1>9 DEF UpgradeInv

(* A release, an installation and the end of a process at work. *)
LEMMA WorldInv ==
  ASSUME UpgradeInv, Release \/ Install \/ \E q \in Processes : Crash(q)
  PROVE  UpgradeInv'
<1>1. /\ verified \in Files \cup {NoFile} /\ content \in [Files -> Contents]
      /\ installed \in 1..MaxVersion /\ latest \in installed..MaxVersion /\ MaxVersion \in Nat
      /\ crashes \in 0..MaxCrashes /\ MaxCrashes \in Nat /\ pending \subseteq PendingType
      /\ notified \in BOOLEAN
  BY UpgradeAssumption DEF UpgradeInv, TypeOK, PendingType, Contents
<1>2. CASE Release
  <2>1. /\ latest' = latest + 1 /\ latest < MaxVersion
        /\ UNCHANGED <<download, unverified, verified, content, pc, why, stream, fd,
                       core, pending, notified, installed, bad, crashes, starts, overlaps>>
    BY <1>2 DEF Release, files, outcome
  <2>2. latest' \in installed..MaxVersion
    BY <1>1, <2>1
  <2>3. TypeOK'
    BY <2>1, <2>2 DEF UpgradeInv, TypeOK
  <2>4. VersionsReleased'
    <3>1. \A c \in Packages \cup {None, Mixed} : c.ver <= latest => c.ver <= latest + 1
      BY <1>1, PackageFields
    <3>2. /\ download \in Packages \cup {None} /\ stream \in [Callers -> Packages \cup {None}]
          /\ content \in [Files -> Packages \cup {None, Mixed}]
      BY DEF UpgradeInv, TypeOK
    <3> QED
      BY <2>1, <3>1, <3>2 DEF UpgradeInv, VersionsReleased
  <2>5. SaneInv'
    BY <2>1 DEF UpgradeInv, SaneInv, FilesSane, WritesUnverified, OneExtracts, Extracting
  <2> QED
    BY <2>3, <2>4, <2>5 DEF UpgradeInv
<1>3. CASE Install
  <2>1. /\ installed' = (IF verified # NoFile /\ Installable(verified)
                         THEN content[verified].ver ELSE installed)
        /\ notified' = FALSE /\ pending' = {} /\ crashes' = crashes /\ Gone(Callers)
    BY <1>3 DEF Install
  <2>2. installed' \in 1..MaxVersion /\ latest \in installed'..MaxVersion
    <3>1. CASE verified # NoFile /\ Installable(verified)
      <4>1. content[verified].ver \in 1..MaxVersion
        BY <3>1, PackageFields DEF Installable
      <4>2. content[verified].ver <= latest
        BY <1>1, <3>1 DEF UpgradeInv, VersionsReleased
      <4> QED
        BY <1>1, <2>1, <3>1, <4>1, <4>2
    <3>2. CASE ~(verified # NoFile /\ Installable(verified))
      BY <1>1, <2>1, <3>2
    <3> QED
      BY <3>1, <3>2
  <2>3. notified' \in BOOLEAN /\ pending' \subseteq PendingType /\ crashes' \in 0..MaxCrashes
    BY <1>1, <2>1
  <2> QED
    BY <2>1, <2>2, <2>3, GoneInv
<1>4. ASSUME NEW q \in Processes, Crash(q) PROVE UpgradeInv'
  <2>1. /\ crashes' \in 0..MaxCrashes /\ Gone(Threads(q)) /\ pending' \subseteq PendingType
        /\ UNCHANGED <<notified, installed>>
    BY <1>1, <1>4 DEF Crash
  <2>2. Threads(q) \subseteq Callers
    BY DEF Threads
  <2> QED
    BY <1>1, <2>1, <2>2, GoneInv
<1> QED
  BY <1>2, <1>3, <1>4

-----------------------------------------------------------------------------
(* UpgradeManager.java, UpgradeChecker.java: the types, that what is installed is
   never ahead of what is released, and that the file with the verified name is a
   complete package with a good signature until extractions overlap, whichever
   threads of whichever processes call, for any versions, crashes and damaged
   downloads. *)
THEOREM UpgradeIsSafe == Spec => []UpgradeSafe
<1>1. Init => UpgradeInv
  BY UpgradeInitInv
<1>2. UpgradeInv /\ [Next]_vars => UpgradeInv'
  <2> SUFFICES ASSUME UpgradeInv, [Next]_vars PROVE UpgradeInv'
    OBVIOUS
  <2>0. pending \subseteq PendingType /\ starts \in 0..MaxStarts /\ MaxStarts \in Nat
    BY UpgradeAssumption DEF UpgradeInv, TypeOK, PendingType
  <2>1. CASE Alarm \/ OnReceive \/ TunnelStarts \/ HandlerRuns \/ FeedbackUploads
    <3>1. PICK p \in AllCallers, reason \in WhyType : Calls(p, reason)
      BY <2>1 DEF AllCallers, Alarm, OnReceive, TunnelStarts, HandlerRuns, FeedbackUploads, WhyType
    <3>2. pending' \subseteq PendingType
      BY <2>0, <2>1 DEF Alarm, OnReceive, TunnelStarts, HandlerRuns, FeedbackUploads
    <3>3. starts' \in 0..MaxStarts
      BY <2>0, <2>1 DEF Alarm, OnReceive, TunnelStarts, HandlerRuns, FeedbackUploads
    <3> QED
      BY <3>1, <3>2, <3>3, CallInv
  <2>2. CASE OnHandleWork
    <3>1. pending' \subseteq PendingType /\ starts' = starts
      BY <2>0, <2>2 DEF OnHandleWork
    <3>2. CASE Calls("service", "needed")
      BY <2>0, <3>1, <3>2, CallInv DEF WhyType
    <3>3. CASE ~Calls("service", "needed")
      <4>1. UNCHANGED <<download, unverified, verified, content, pc, why, stream, fd, core,
                        notified, installed, latest, bad, crashes, overlaps>>
        BY <2>2, <3>3 DEF OnHandleWork, files
      <4>2. TypeOK'
        BY <3>1, <4>1 DEF UpgradeInv, TypeOK, PendingType
      <4>3. VersionsReleased'
        BY <4>1 DEF UpgradeInv, VersionsReleased
      <4>4. SaneInv'
        BY <4>1 DEF UpgradeInv, SaneInv, FilesSane, WritesUnverified, OneExtracts, Extracting
      <4> QED
        BY <4>2, <4>3, <4>4 DEF UpgradeInv
    <3> QED
      BY <3>2, <3>3
  <2>3. CASE Release \/ Install \/ \E q \in Processes : Crash(q)
    BY <2>3, WorldInv
  <2>4. ASSUME NEW p \in Callers, CallerNext(p) PROVE UpgradeInv'
    BY <2>4, CreateInv, ExtractInv, RenameInv, DeleteCheckInv DEF CallerNext
  <2>5. ASSUME NEW c \in Cores, CoreDownloads(c) \/ CoreEnds(c) PROVE UpgradeInv'
    BY <2>5, CoreInv
  <2>6. CASE UNCHANGED vars
    BY <2>6 DEF vars, UpgradeInv, TypeOK, VersionsReleased, SaneInv, FilesSane,
         WritesUnverified, OneExtracts, Extracting
  <2> QED
    BY <2>1, <2>2, <2>3, <2>4, <2>5, <2>6 DEF Next
<1>3. UpgradeInv => UpgradeSafe
  BY DEF UpgradeInv, UpgradeSafe, SaneInv, SaneWithoutOverlap
<1> QED
  BY <1>1, <1>2, <1>3, PTL DEF Spec
=============================================================================
