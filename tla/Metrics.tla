------------------------------ MODULE Metrics ------------------------------
(***************************************************************************)
(* The process-wide counters of metrics.rs, written by concurrent calls.   *)
(*                                                                         *)
(* Every counter is an atomic accessed with Ordering::Relaxed, which fixes *)
(* no order between accesses of one call to different counters: a call     *)
(* works off a set of steps in any order.  Read-modify-write steps see the *)
(* newest value of their counter, a plain load may see an older one.       *)
(* The counters stay far below 2^64 and are natural numbers here.          *)
(***************************************************************************)
EXTENDS Naturals, FiniteSets, Functions

CONSTANTS Calls,      \* compile and rehydrate calls, any number at a time
          Durations   \* milliseconds a compile may take

ASSUME CallsFinite == IsFiniteSet(Calls)
ASSUME DurationsType == Durations \subseteq Nat

VARIABLES requests, errors, rehydrated, total, last,
          bucket,     \* LATENCY_BUCKET_MS
          max,        \* DURATION_MS_MAX
          peaks,      \* the values DURATION_MS_MAX has had
          outcome,    \* how each call ended, "none" while it runs
          duration,   \* duration_ms of each call
          todo,       \* steps each call still has to do
          seen        \* what each call last saw in DURATION_MS_MAX

counters == <<requests, errors, rehydrated, total, last, bucket, max, peaks>>
metricVars == <<counters, outcome, duration, todo, seen>>

Steps == {"requests", "total", "last", "bucket", "load", "swap"}

MetricsInit == /\ requests = 0 /\ errors = 0 /\ rehydrated = 0 /\ total = 0 /\ last = 0
               /\ bucket = [k \in 0 .. 5 |-> 0]
               /\ max = 0 /\ peaks = {0}
               /\ outcome = [c \in Calls |-> "none"]
               /\ duration = [c \in Calls |-> 0]
               /\ todo = [c \in Calls |-> {}]
               /\ seen = [c \in Calls |-> 0]

\* Mutant: a boundary falls into the bucket above.
BucketOfOff(ms) == IF ms < 1 THEN 0 ELSE IF ms < 5 THEN 1 ELSE IF ms < 10 THEN 2
                   ELSE IF ms < 50 THEN 3 ELSE IF ms < 200 THEN 4 ELSE 5

\* The bucket of a duration: <=1ms, <=5ms, <=10ms, <=50ms, <=200ms, >200ms.
BucketOf(ms) == IF ms <= 1 THEN 0 ELSE IF ms <= 5 THEN 1 ELSE IF ms <= 10 THEN 2
                ELSE IF ms <= 50 THEN 3 ELSE IF ms <= 200 THEN 4 ELSE 5

Did(c, step) == /\ step \in todo[c]
                /\ todo' = [todo EXCEPT ![c] = @ \ {step}]
-----------------------------------------------------------------------------
\* A compile ends well; record_compile_success begins.
Succeed(c, d) ==
    /\ outcome[c] = "none"
    /\ outcome' = [outcome EXCEPT ![c] = "success"]
    /\ duration' = [duration EXCEPT ![c] = d]
    /\ todo' = [todo EXCEPT ![c] = Steps \ {"swap"}]
    /\ UNCHANGED <<counters, seen>>

RecordError(c) ==
    /\ outcome[c] = "none"
    /\ outcome' = [outcome EXCEPT ![c] = "error"]
    /\ errors' = errors + 1
    /\ UNCHANGED <<requests, rehydrated, total, last, bucket, max, peaks, duration, todo, seen>>

RecordRehydrate(c) ==
    /\ outcome[c] = "none"
    /\ outcome' = [outcome EXCEPT ![c] = "rehydrated"]
    /\ rehydrated' = rehydrated + 1
    /\ UNCHANGED <<requests, errors, total, last, bucket, max, peaks, duration, todo, seen>>

CountRequest(c) ==
    /\ Did(c, "requests")
    /\ requests' = requests + 1
    /\ UNCHANGED <<errors, rehydrated, total, last, bucket, max, peaks, outcome, duration, seen>>

\* Mutant: adds the duration recorded last, maybe by another call.
AddTotalOfLast(c) ==
    /\ Did(c, "total")
    /\ total' = total + last
    /\ UNCHANGED <<requests, errors, rehydrated, last, bucket, max, peaks, outcome, duration, seen>>

AddTotal(c) ==
    /\ Did(c, "total")
    /\ total' = total + duration[c]
    /\ UNCHANGED <<requests, errors, rehydrated, last, bucket, max, peaks, outcome, duration, seen>>

StoreLast(c) ==
    /\ Did(c, "last")
    /\ last' = duration[c]
    /\ UNCHANGED <<requests, errors, rehydrated, total, bucket, max, peaks, outcome, duration, seen>>

CountLatency(c) ==
    /\ Did(c, "bucket")
    /\ bucket' = [bucket EXCEPT ![BucketOf(duration[c])] = @ + 1]
    /\ UNCHANGED <<requests, errors, rehydrated, total, last, max, peaks, outcome, duration, seen>>

\* The load of the loop: any value not older than the call has seen before.
LoadMax(c, v) ==
    /\ "load" \in todo[c]
    /\ v \in peaks /\ v >= seen[c]
    /\ seen' = [seen EXCEPT ![c] = v]
    /\ todo' = [todo EXCEPT ![c] = (@ \ {"load"}) \cup (IF duration[c] <= v THEN {} ELSE {"swap"})]
    /\ UNCHANGED <<counters, outcome, duration>>

\* Mutant: store instead of compare_exchange.
SwapMaxBlindly(c) ==
    /\ Did(c, "swap")
    /\ max' = duration[c]
    /\ peaks' = peaks \cup {duration[c]}
    /\ UNCHANGED <<requests, errors, rehydrated, total, last, bucket, outcome, duration, seen>>

\* compare_exchange succeeds when the call has seen the newest value.
SwapMax(c) ==
    /\ Did(c, "swap")
    /\ seen[c] = max
    /\ max' = duration[c]
    /\ peaks' = peaks \cup {duration[c]}
    /\ UNCHANGED <<requests, errors, rehydrated, total, last, bucket, outcome, duration, seen>>

\* Mutant: the load stands before the loop.
RetryMaxHoisted(c) ==
    /\ "swap" \in todo[c]
    /\ seen[c] # max
    /\ UNCHANGED metricVars

\* It fails otherwise, sees the newest value, and the loop goes round again.
RetryMax(c) ==
    /\ "swap" \in todo[c]
    /\ seen[c] # max
    /\ seen' = [seen EXCEPT ![c] = max]
    /\ todo' = [todo EXCEPT ![c] = (@ \ {"swap"}) \cup {"load"}]
    /\ UNCHANGED <<counters, outcome, duration>>

Record(c) == \/ CountRequest(c) \/ AddTotal(c) \/ StoreLast(c) \/ CountLatency(c)
             \/ \E v \in peaks : LoadMax(c, v)
             \/ SwapMax(c) \/ RetryMax(c)

MetricsNext == \E c \in Calls : \/ \E d \in Durations : Succeed(c, d)
                                \/ RecordError(c) \/ RecordRehydrate(c)
                                \/ Record(c)

MetricsSpec == MetricsInit /\ [][MetricsNext]_metricVars

\* Recording is straight code without locks: a call in it goes on.
FairMetrics == MetricsSpec /\ \A c \in Calls : WF_metricVars(Record(c))
-----------------------------------------------------------------------------
Ended(how) == {c \in Calls : outcome[c] = how}
Past(step) == {c \in Ended("success") : step \notin todo[c]}
Peaked == {c \in Ended("success") : todo[c] \cap {"load", "swap"} = {}}
InBucket(k, ms) == \/ k = 0 /\ ms <= 1
                   \/ k = 1 /\ ms \in 2 .. 5
                   \/ k = 2 /\ ms \in 6 .. 10
                   \/ k = 3 /\ ms \in 11 .. 50
                   \/ k = 4 /\ ms \in 51 .. 200
                   \/ k = 5 /\ ms > 200
Filed(k) == {c \in Past("bucket") : InBucket(k, duration[c])}

\* The variables have their types, and a call is at one place of its loop.
MetricsTypeOK ==
    /\ {requests, errors, rehydrated, total, last, max} \subseteq Nat
    /\ bucket \in [0 .. 5 -> Nat]
    /\ peaks \subseteq Nat
    /\ outcome \in [Calls -> {"none", "success", "error", "rehydrated"}]
    /\ duration \in [Calls -> Nat]
    /\ todo \in [Calls -> SUBSET Steps]
    /\ seen \in [Calls -> Nat]
    /\ \A c \in Calls : ~({"load", "swap"} \subseteq todo[c])

\* The compare-and-swap loop loses no maximum: once a call is through with it,
\* the maximum covers its duration, and the maximum is some call's duration.
MaxExact ==
    /\ \A c \in Peaked : duration[c] <= max
    /\ max = 0 \/ \E c \in Ended("success") : duration[c] = max

\* Each call is counted once, under its outcome, and a compile in the one bucket
\* of its duration, so that between calls the histogram adds up to the requests.
CountsExact ==
    /\ requests = Cardinality(Past("requests"))
    /\ errors = Cardinality(Ended("error"))
    /\ rehydrated = Cardinality(Ended("rehydrated"))
    /\ \A k \in 0 .. 5 : bucket[k] = Cardinality(Filed(k))

\* The total is the sum over the calls that have added to it, and the average
\* of a quiet process is the mean of all of them.
TotalExact == total = SumFunctionOnSet(duration, Past("total"))

\* No counter a client polls ever goes back.
NeverBack ==
    [][/\ requests' >= requests /\ errors' >= errors /\ rehydrated' >= rehydrated
       /\ total' >= total /\ max' >= max
       /\ \A k \in 0 .. 5 : bucket'[k] >= bucket[k]]_metricVars

\* Every call gets through recording: the loop on the maximum comes to an end.
RecordingEnds == \A c \in Calls : todo[c] # {} ~> todo[c] = {}
=============================================================================
