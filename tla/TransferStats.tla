----------------------------- MODULE TransferStats -----------------------------
(***************************************************************************)
(* DataTransferStats.java: the bytes transferred, kept in buckets of       *)
(* Period ticks, in the service and as a copy in the user interface.  The  *)
(* slow and the fast list run the same code; this is one of them.  A       *)
(* bucket is the set of the periods whose bytes were counted into it.      *)
(*                                                                         *)
(* The lists are advanced only when somebody adds or reads, after any      *)
(* number of periods.  The tunnel thread resets the service's list while   *)
(* the main thread copies it, one field after the other, into a message.   *)
(***************************************************************************)
EXTENDS Naturals, Sequences, FiniteSets

CONSTANTS
  Period,         \* ..._BUCKET_PERIOD_MILLISECONDS
  MaxBuckets,     \* MAX_BUCKETS
  MaxTime         \* bound: the clock

StatsAssumption ==
  /\ Period \in Nat \ {0} /\ MaxBuckets \in Nat \ {0}
  /\ MaxTime \in Nat /\ Period <= MaxTime             \* time for a period to pass

VARIABLES
  now,            \* SystemClock.elapsedRealtime()
  service,        \* [buckets, start]: m_...Buckets and m_...BucketsLastStartTime
  bundle,         \* the buckets the main thread has put into a message, if any
  resets,         \* how often the service's list was replaced since then
  ui,             \* [buckets, start] of the user interface
  torn            \* whether ui was copied across a reset

vars == <<now, service, bundle, resets, ui, torn>>

Times == 0..MaxTime
PeriodOf(t) == t \div Period
Lists == [buckets : [1..MaxBuckets -> SUBSET {PeriodOf(t) : t \in Times}], start : Times]
NoBundle == <<>>

TypeOK ==
  /\ now \in Times /\ service \in Lists /\ ui \in Lists
  /\ bundle = NoBundle \/ bundle \in [1..MaxBuckets -> SUBSET {PeriodOf(t) : t \in Times}]
  /\ resets \in 0..1 /\ torn \in BOOLEAN

-----------------------------------------------------------------------------
BucketStartTime(t) == Period * (t \div Period)

NewBuckets == [i \in 1..MaxBuckets |-> {}]

\* resetBytesTransferred
Reset(t) == [buckets |-> NewBuckets, start |-> BucketStartTime(t)]

\* One turn of the loop of shiftBuckets.
ShiftOnce(b) ==
  LET longer == Append(b, {})
  IN  IF Len(longer) >= MaxBuckets THEN Tail(longer) ELSE longer

\* The turns of the loop taken together: each adds an empty bucket and, the list being
\* MaxBuckets long, removes the first.
Shifted(n, b) == [i \in 1..MaxBuckets |-> IF i + n <= MaxBuckets THEN b[i + n] ELSE {}]

ShiftBuckets(diff, buckets) == Shifted(diff \div Period + 1, buckets)

\* Mutant: shifted only when more than a period has passed.
ManageLate(list) ==
  IF now - list.start > Period
  THEN [buckets |-> ShiftBuckets(now - list.start, list.buckets), start |-> BucketStartTime(now)]
  ELSE list

ManageBuckets(list) ==
  IF now - list.start >= Period
  THEN [buckets |-> ShiftBuckets(now - list.start, list.buckets), start |-> BucketStartTime(now)]
  ELSE list

-----------------------------------------------------------------------------
Init ==
  /\ now \in 0..(Period - 1) /\ service = Reset(now) /\ ui = Reset(now)
  /\ bundle = NoBundle /\ resets = 0 /\ torn = FALSE

\* Time passes: a tick, or a sleep of many periods.
Tick ==
  /\ \E t \in {now + 1, now + Period, now + MaxBuckets * Period} :
       t <= MaxTime /\ now' = t
  /\ UNCHANGED <<service, bundle, resets, ui, torn>>

\* addBytesSent, addBytesReceived (from onBytesTransferred, on the main thread).
AddBytes ==
  /\ bundle = NoBundle
  /\ LET list == ManageBuckets(service)
         last == Len(list.buckets)
     IN  service' = [list EXCEPT !.buckets[last] = @ \cup {PeriodOf(now)}]
  /\ UNCHANGED <<now, bundle, resets, ui, torn>>

\* startSession and stop, on the tunnel thread; stop also on the main thread.
ResetBytesTransferred ==
  /\ service' = Reset(now)
  /\ resets' = IF bundle = NoBundle THEN 0 ELSE 1
  /\ UNCHANGED <<now, bundle, ui, torn>>

\* getDataTransferStatsBundle reads the list, and then its start time; the user
\* interface takes both over.
BundleBuckets ==
  /\ bundle = NoBundle
  /\ bundle' = service.buckets /\ resets' = 0
  /\ UNCHANGED <<now, service, ui, torn>>

BundleStart ==
  /\ bundle # NoBundle
  /\ ui' = [buckets |-> bundle, start |-> service.start]
  /\ torn' = (resets > 0) /\ bundle' = NoBundle /\ resets' = 0
  /\ UNCHANGED <<now, service>>

\* get...Series: the user interface advances its own copy.
GetSeries ==
  /\ ui' = ManageBuckets(ui)
  /\ UNCHANGED <<now, service, bundle, resets, torn>>

Next ==
  Tick \/ AddBytes \/ ResetBytesTransferred \/ BundleBuckets \/ BundleStart \/ GetSeries

Spec == Init /\ [][Next]_vars

-----------------------------------------------------------------------------
\* No bucket mixes the bytes of two periods, however long the list was left alone.
NoBucketMixesPeriods ==
  \A i \in 1..MaxBuckets : Cardinality(service.buckets[i]) <= 1

\* Bytes of a period stand at least as many buckets before the last one as periods
\* have passed since.
NotYounger(list) ==
  \A i \in 1..MaxBuckets : \A p \in list.buckets[i] :
    MaxBuckets - i >= PeriodOf(list.start) - p

\* A bucket is never shown as more recent than its bytes are, neither in the
\* service nor, from a copy that no reset has cut in two, in the user interface.
GraphNotYounger == NotYounger(service) /\ (~torn => NotYounger(ui))

\* DataTransferStats.java: no bucket is of two periods or of a wrong one.
StatsSafe == TypeOK /\ NoBucketMixesPeriods /\ GraphNotYounger
=============================================================================
