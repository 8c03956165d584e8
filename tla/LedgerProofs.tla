---------------------------- MODULE LedgerProofs ----------------------------
(***************************************************************************)
(* The numbers that must add up.  The counters of Metrics are exact for    *)
(* any number of calls and any durations, and the budgets of Allocate for  *)
(* any agents, demands, budgets and feedback.                              *)
(***************************************************************************)
EXTENDS Metrics, Allocate, Lemmas

-----------------------------------------------------------------------------
(* The counters.                                                           *)

\* Only a successful compile records, one that will swap has seen a smaller
\* maximum, and no earlier value of the maximum was larger.
LoopInv ==
    /\ \A c \in Calls : outcome[c] # "success" => todo[c] = {}
    /\ \A c \in Calls : "swap" \in todo[c] => duration[c] > seen[c]
    /\ \A v \in peaks : v <= max

CountInv == MetricsTypeOK /\ LoopInv /\ MaxExact

\* The initial state satisfies the invariant.
LEMMA CountStart == MetricsInit => CountInv
  BY DEF MetricsInit, CountInv, MetricsTypeOK, LoopInv, MaxExact, Peaked, Ended, Steps

\* What BucketOf returns is a bucket.
LEMMA BucketType == ASSUME NEW ms \in Nat PROVE BucketOf(ms) \in 0 .. 5
  BY DEF BucketOf

\* Every step preserves the type invariant.
LEMMA CountersStep == MetricsTypeOK /\ [MetricsNext]_metricVars => MetricsTypeOK'
<1> SUFFICES ASSUME MetricsTypeOK, [MetricsNext]_metricVars PROVE MetricsTypeOK'
  OBVIOUS
<1> USE DEF MetricsTypeOK, Steps
<1>1. CASE UNCHANGED metricVars
  BY <1>1 DEF metricVars, counters
<1>2. ASSUME NEW c \in Calls, NEW d \in Durations, Succeed(c, d) PROVE MetricsTypeOK'
  BY <1>2, DurationsType DEF Succeed, counters
<1>3. ASSUME NEW c \in Calls, RecordError(c) PROVE MetricsTypeOK'
  BY <1>3 DEF RecordError
<1>4. ASSUME NEW c \in Calls, RecordRehydrate(c) PROVE MetricsTypeOK'
  BY <1>4 DEF RecordRehydrate
<1>5. ASSUME NEW c \in Calls, CountRequest(c) PROVE MetricsTypeOK'
  BY <1>5 DEF CountRequest, Did
<1>6. ASSUME NEW c \in Calls, AddTotal(c) PROVE MetricsTypeOK'
  BY <1>6 DEF AddTotal, Did
<1>7. ASSUME NEW c \in Calls, StoreLast(c) PROVE MetricsTypeOK'
  BY <1>7 DEF StoreLast, Did
<1>8. ASSUME NEW c \in Calls, CountLatency(c) PROVE MetricsTypeOK'
  <2>1. duration[c] \in Nat
    OBVIOUS
  <2>2. BucketOf(duration[c]) \in 0 .. 5
    BY <2>1, BucketType
  <2> QED
    BY <1>8, <2>2 DEF CountLatency, Did
<1>9. ASSUME NEW c \in Calls, NEW v \in peaks, LoadMax(c, v) PROVE MetricsTypeOK'
  BY <1>9 DEF LoadMax, counters
<1>10. ASSUME NEW c \in Calls, SwapMax(c) PROVE MetricsTypeOK'
  BY <1>10 DEF SwapMax, Did
<1>11. ASSUME NEW c \in Calls, RetryMax(c) PROVE MetricsTypeOK'
  BY <1>11 DEF RetryMax, counters
<1> QED
  BY <1>1, <1>2, <1>3, <1>4, <1>5, <1>6, <1>7, <1>8, <1>9, <1>10, <1>11 DEF MetricsNext, Record

\* Every step preserves what the loop on the maximum relies on.
LEMMA LoopStep == CountInv /\ [MetricsNext]_metricVars => LoopInv' /\ MaxExact'
<1> SUFFICES ASSUME MetricsTypeOK, LoopInv, MaxExact, [MetricsNext]_metricVars PROVE LoopInv' /\ MaxExact'
  BY DEF CountInv
<1> USE DEF MetricsTypeOK, LoopInv, MaxExact, Peaked, Ended, Steps
<1>1. CASE UNCHANGED metricVars
  BY <1>1 DEF metricVars, counters
<1>2. ASSUME NEW c \in Calls, NEW d \in Durations, Succeed(c, d)
      PROVE LoopInv' /\ MaxExact'
  BY <1>2, DurationsType DEF Succeed, counters
<1>3. ASSUME NEW c \in Calls, RecordError(c) PROVE LoopInv' /\ MaxExact'
  BY <1>3 DEF RecordError
<1>4. ASSUME NEW c \in Calls, RecordRehydrate(c) PROVE LoopInv' /\ MaxExact'
  BY <1>4 DEF RecordRehydrate
<1>5. ASSUME NEW c \in Calls, CountRequest(c) PROVE LoopInv' /\ MaxExact'
  BY <1>5 DEF CountRequest, Did
<1>6. ASSUME NEW c \in Calls, AddTotal(c) PROVE LoopInv' /\ MaxExact'
  BY <1>6 DEF AddTotal, Did
<1>7. ASSUME NEW c \in Calls, StoreLast(c) PROVE LoopInv' /\ MaxExact'
  BY <1>7 DEF StoreLast, Did
<1>8. ASSUME NEW c \in Calls, CountLatency(c) PROVE LoopInv' /\ MaxExact'
  BY <1>8 DEF CountLatency, Did
<1>9. ASSUME NEW c \in Calls, NEW v \in peaks, LoadMax(c, v) PROVE LoopInv' /\ MaxExact'
  <2>1. /\ v \in Nat /\ max \in Nat /\ duration[c] \in Nat /\ v <= max
        /\ outcome[c] = "success" /\ outcome' = outcome
        /\ duration' = duration /\ max' = max /\ peaks' = peaks
        /\ seen'[c] = v /\ \A d \in Calls \ {c} : seen'[d] = seen[d] /\ todo'[d] = todo[d]
    BY <1>9 DEF LoadMax, counters
  <2>2. /\ "swap" \in todo'[c] => duration[c] > v
        /\ c \in Peaked' => duration[c] <= v
    BY <1>9, <2>1 DEF LoadMax
  <2>3. LoopInv'
    BY <2>1, <2>2
  <2>4. \A d \in Peaked' : duration'[d] <= max'
    <3> SUFFICES ASSUME NEW d \in Calls, outcome'[d] = "success", d \in Peaked'
                 PROVE duration'[d] <= max'
      OBVIOUS
    <3>1. CASE d = c
      BY <3>1, <2>1, <2>2
    <3>2. CASE d # c
      BY <3>2, <2>1
    <3> QED
      BY <3>1, <3>2
  <2>5. (max = 0 \/ \E d \in Ended("success") : duration[d] = max)'
    BY <2>1
  <2> QED
    BY <2>3, <2>4, <2>5
<1>10. ASSUME NEW c \in Calls, SwapMax(c) PROVE LoopInv' /\ MaxExact'
  <2>1. /\ max \in Nat /\ duration[c] \in Nat
        /\ outcome[c] = "success" /\ duration[c] > max /\ max' = duration[c]
        /\ duration' = duration /\ seen' = seen /\ outcome' = outcome
    BY <1>10 DEF SwapMax, Did
  <2>2. /\ \A v \in peaks' : v <= max'
        /\ \A d \in Calls : todo'[d] \subseteq todo[d]
        /\ \A d \in Calls : d # c => todo'[d] = todo[d]
    BY <1>10, <2>1 DEF SwapMax, Did
  <2>3. LoopInv'
    BY <2>1, <2>2
  <2>4. \A d \in Peaked' : duration'[d] <= max'
    <3> SUFFICES ASSUME NEW d \in Calls, outcome'[d] = "success", d \in Peaked'
                 PROVE duration'[d] <= max'
      OBVIOUS
    <3>1. CASE d = c
      BY <3>1, <2>1
    <3>2. CASE d # c
      <4>1. duration[d] <= max
        BY <3>2, <2>1, <2>2
      <4> QED
        BY <4>1, <2>1
    <3> QED
      BY <3>1, <3>2
  <2>5. \E d \in Ended("success")' : duration'[d] = max'
    BY <2>1
  <2> QED
    BY <2>3, <2>4, <2>5
<1>11. ASSUME NEW c \in Calls, RetryMax(c) PROVE LoopInv' /\ MaxExact'
  BY <1>11 DEF RetryMax, counters
<1> QED
  BY <1>1, <1>2, <1>3, <1>4, <1>5, <1>6, <1>7, <1>8, <1>9, <1>10, <1>11 DEF MetricsNext, Record

\* The invariant holds in every reachable state.
LEMMA CountInvariant == MetricsSpec => []CountInv
<1>1. CountInv /\ [MetricsNext]_metricVars => CountInv'
  BY CountersStep, LoopStep DEF CountInv
<1> QED
  BY CountStart, <1>1, PTL DEF MetricsSpec

\* Every variable keeps its type, and a call is at one place of the loop on
\* the maximum.
THEOREM CountersTyped == MetricsSpec => []MetricsTypeOK
<1>1. CountInv => MetricsTypeOK
  BY DEF CountInv
<1> QED
  BY CountInvariant, <1>1, PTL

\* For any number of calls: compare_exchange loses no maximum.
THEOREM MaximumExact == MetricsSpec => []MaxExact
<1>1. CountInv => MaxExact
  BY DEF CountInv
<1> QED
  BY CountInvariant, <1>1, PTL

\* No step takes a counter back.
LEMMA StepNotBack ==
    CountInv /\ [MetricsNext]_metricVars =>
        [/\ requests' >= requests /\ errors' >= errors /\ rehydrated' >= rehydrated
         /\ total' >= total /\ max' >= max
         /\ \A k \in 0 .. 5 : bucket'[k] >= bucket[k]]_metricVars
<1> SUFFICES ASSUME CountInv, MetricsNext
             PROVE /\ requests' >= requests /\ errors' >= errors /\ rehydrated' >= rehydrated
                   /\ total' >= total /\ max' >= max
                   /\ \A k \in 0 .. 5 : bucket'[k] >= bucket[k]
  OBVIOUS
<1> USE DEF CountInv, MetricsTypeOK, LoopInv
<1> DEFINE Goal == /\ requests' >= requests /\ errors' >= errors /\ rehydrated' >= rehydrated
                   /\ total' >= total /\ max' >= max
                   /\ \A k \in 0 .. 5 : bucket'[k] >= bucket[k]
<1>1. ASSUME NEW c \in Calls, NEW d \in Durations, Succeed(c, d) PROVE Goal
  BY <1>1 DEF Succeed, counters
<1>2. ASSUME NEW c \in Calls, RecordError(c) \/ RecordRehydrate(c) PROVE Goal
  BY <1>2 DEF RecordError, RecordRehydrate
<1>3. ASSUME NEW c \in Calls, CountRequest(c) \/ AddTotal(c) \/ StoreLast(c) PROVE Goal
  BY <1>3 DEF CountRequest, AddTotal, StoreLast
<1>4. ASSUME NEW c \in Calls, CountLatency(c) PROVE Goal
  BY <1>4 DEF CountLatency
<1>5. ASSUME NEW c \in Calls, NEW v \in peaks, LoadMax(c, v) PROVE Goal
  BY <1>5 DEF LoadMax, counters
<1>6. ASSUME NEW c \in Calls, SwapMax(c) PROVE Goal
  BY <1>6 DEF SwapMax, Did
<1>7. ASSUME NEW c \in Calls, RetryMax(c) PROVE Goal
  BY <1>7 DEF RetryMax, counters
<1> QED
  BY <1>1, <1>2, <1>3, <1>4, <1>5, <1>6, <1>7 DEF MetricsNext, Record

\* A client that polls the counters never sees one go back.
THEOREM Monotone == MetricsSpec => NeverBack
  BY CountInvariant, StepNotBack, PTL DEF MetricsSpec, NeverBack

\* One call more is one more in the count.
LEMMA OneMore ==
    ASSUME NEW S \in SUBSET Calls, NEW c \in Calls, c \notin S
    PROVE Cardinality(S \cup {c}) = Cardinality(S) + 1
<1>1. IsFiniteSet(S)
  BY CallsFinite, FS_Subset
<1> QED
  BY <1>1, FS_AddElement

\* The bounds of the histogram are those BucketOf tests.
LEMMA BucketBounds ==
    ASSUME NEW ms \in Nat, NEW k \in 0 .. 5 PROVE InBucket(k, ms) <=> BucketOf(ms) = k
  BY DEF InBucket, BucketOf

\* Every step keeps the counts exact.
LEMMA CountStep == MetricsTypeOK /\ LoopInv /\ CountsExact /\ [MetricsNext]_metricVars => CountsExact'
<1> SUFFICES ASSUME MetricsTypeOK, LoopInv, CountsExact, [MetricsNext]_metricVars PROVE CountsExact'
  OBVIOUS
<1>1. CASE UNCHANGED metricVars
  BY <1>1 DEF Past, Ended, Filed, metricVars, counters, CountsExact
<1>2. ASSUME NEW c \in Calls, NEW d \in Durations, Succeed(c, d) PROVE CountsExact'
  <2>1. /\ Past("requests")' = Past("requests")
        /\ Ended("error")' = Ended("error")
        /\ Ended("rehydrated")' = Ended("rehydrated")
    BY <1>2 DEF MetricsTypeOK, LoopInv, Past, Ended, Filed, Succeed, Steps
  <2>2. ASSUME NEW k \in 0 .. 5 PROVE Filed(k)' = Filed(k)
    BY <1>2 DEF MetricsTypeOK, LoopInv, Past, Ended, Filed, Succeed, Steps
  <2> QED
    BY <1>2, <2>1, <2>2 DEF Succeed, counters, CountsExact
<1>3. ASSUME NEW c \in Calls, RecordError(c) PROVE CountsExact'
  <2>1. /\ Past("requests")' = Past("requests")
        /\ Ended("error")' = Ended("error") \cup {c}
        /\ c \notin Ended("error") /\ Ended("error") \in SUBSET Calls
        /\ Ended("rehydrated")' = Ended("rehydrated")
    BY <1>3 DEF MetricsTypeOK, LoopInv, Past, Ended, Filed, RecordError
  <2>2. ASSUME NEW k \in 0 .. 5 PROVE Filed(k)' = Filed(k)
    BY <1>3 DEF MetricsTypeOK, LoopInv, Past, Ended, Filed, RecordError
  <2>3. Cardinality(Ended("error")') = Cardinality(Ended("error")) + 1
    BY <2>1, OneMore
  <2> QED
    BY <1>3, <2>1, <2>2, <2>3 DEF RecordError, CountsExact
<1>4. ASSUME NEW c \in Calls, RecordRehydrate(c) PROVE CountsExact'
  <2>1. /\ Past("requests")' = Past("requests")
        /\ Ended("error")' = Ended("error")
        /\ Ended("rehydrated")' = Ended("rehydrated") \cup {c}
        /\ c \notin Ended("rehydrated") /\ Ended("rehydrated") \in SUBSET Calls
    BY <1>4 DEF MetricsTypeOK, LoopInv, Past, Ended, Filed, RecordRehydrate
  <2>2. ASSUME NEW k \in 0 .. 5 PROVE Filed(k)' = Filed(k)
    BY <1>4 DEF MetricsTypeOK, LoopInv, Past, Ended, Filed, RecordRehydrate
  <2>3. Cardinality(Ended("rehydrated")') = Cardinality(Ended("rehydrated")) + 1
    BY <2>1, OneMore
  <2> QED
    BY <1>4, <2>1, <2>2, <2>3 DEF RecordRehydrate, CountsExact
<1>5. ASSUME NEW c \in Calls, CountRequest(c) PROVE CountsExact'
  <2>1. /\ Past("requests")' = Past("requests") \cup {c}
        /\ c \notin Past("requests") /\ Past("requests") \in SUBSET Calls
        /\ Ended("error")' = Ended("error")
        /\ Ended("rehydrated")' = Ended("rehydrated")
    BY <1>5 DEF MetricsTypeOK, LoopInv, Past, Ended, Filed, CountRequest, Did
  <2>2. ASSUME NEW k \in 0 .. 5 PROVE Filed(k)' = Filed(k)
    BY <1>5 DEF MetricsTypeOK, LoopInv, Past, Ended, Filed, CountRequest, Did
  <2>3. Cardinality(Past("requests")') = Cardinality(Past("requests")) + 1
    BY <2>1, OneMore
  <2> QED
    BY <1>5, <2>1, <2>2, <2>3 DEF CountRequest, CountsExact
<1>6. ASSUME NEW c \in Calls, CountLatency(c) PROVE CountsExact'
  <2>1. /\ Past("requests")' = Past("requests")
        /\ Ended("error")' = Ended("error")
        /\ Ended("rehydrated")' = Ended("rehydrated")
    BY <1>6 DEF MetricsTypeOK, LoopInv, Past, Ended, Filed, CountLatency, Did
  <2>2. ASSUME NEW k \in 0 .. 5 PROVE bucket'[k] = Cardinality(Filed(k)')
    <3>1. CASE InBucket(k, duration[c])
      <4>1. Filed(k)' = Filed(k) \cup {c} /\ c \notin Filed(k) /\ Filed(k) \in SUBSET Calls
        BY <1>6, <3>1 DEF MetricsTypeOK, LoopInv, Past, Ended, Filed, CountLatency, Did
      <4>2. Cardinality(Filed(k)') = Cardinality(Filed(k)) + 1
        BY <4>1, OneMore
      <4>3. bucket'[k] = bucket[k] + 1
        BY <1>6, <3>1, BucketBounds DEF MetricsTypeOK, CountLatency
      <4> QED
        BY <4>2, <4>3 DEF CountsExact
    <3>2. CASE ~InBucket(k, duration[c])
      <4>1. Filed(k)' = Filed(k)
        BY <1>6, <3>2 DEF MetricsTypeOK, LoopInv, Past, Ended, Filed, CountLatency, Did
      <4>2. bucket'[k] = bucket[k]
        BY <1>6, <3>2, BucketBounds DEF MetricsTypeOK, CountLatency
      <4> QED
        BY <4>1, <4>2 DEF CountsExact
    <3> QED
      BY <3>1, <3>2
  <2> QED
    BY <1>6, <2>1, <2>2 DEF CountLatency, CountsExact
<1>7. ASSUME NEW c \in Calls,
             \/ AddTotal(c) \/ StoreLast(c) \/ SwapMax(c) \/ RetryMax(c)
             \/ \E v \in peaks : LoadMax(c, v)
      PROVE CountsExact'
  <2>1. /\ Past("requests")' = Past("requests")
        /\ Ended("error")' = Ended("error")
        /\ Ended("rehydrated")' = Ended("rehydrated")
    BY <1>7 DEF MetricsTypeOK, LoopInv, Past, Ended, Filed, AddTotal, StoreLast, SwapMax, RetryMax, LoadMax, Did, counters
  <2>2. ASSUME NEW k \in 0 .. 5 PROVE Filed(k)' = Filed(k)
    BY <1>7 DEF MetricsTypeOK, LoopInv, Past, Ended, Filed, AddTotal, StoreLast, SwapMax, RetryMax, LoadMax, Did, counters
  <2> QED
    BY <1>7, <2>1, <2>2
       DEF AddTotal, StoreLast, SwapMax, RetryMax, LoadMax, counters, CountsExact
<1> QED
  BY <1>1, <1>2, <1>3, <1>4, <1>5, <1>6, <1>7 DEF MetricsNext, Record

\* For any number of calls, in any order of their relaxed steps: every call is
\* counted once, under its outcome and in the bucket of its duration.
THEOREM Exact == MetricsSpec => []CountsExact
<1>1. MetricsInit => CountsExact
  <2>1. ASSUME MetricsInit, NEW k \in 0 .. 5 PROVE Filed(k) = {}
    BY <2>1 DEF MetricsInit, Filed, Past, Ended
  <2>2. MetricsInit => Past("requests") = {} /\ Ended("error") = {} /\ Ended("rehydrated") = {}
    BY DEF MetricsInit, Past, Ended
  <2> QED
    BY <2>1, <2>2, FS_EmptySet DEF MetricsInit, CountsExact
<1>2. CountInv /\ CountsExact /\ [MetricsNext]_metricVars => CountsExact'
  BY CountStep DEF CountInv
<1> QED
  BY CountInvariant, <1>1, <1>2, PTL DEF MetricsSpec

\* Every step keeps the total exact.
LEMMA TotalStep ==
    MetricsTypeOK /\ LoopInv /\ TotalExact /\ [MetricsNext]_metricVars => TotalExact'
<1> SUFFICES ASSUME MetricsTypeOK, LoopInv, TotalExact, [MetricsNext]_metricVars
             PROVE  TotalExact'
  OBVIOUS
<1> DEFINE P == Past("total")
<1>1. /\ IsFiniteSet(P) /\ P \subseteq Calls
      /\ \A c \in Calls : duration[c] \in Nat
      /\ total = SumFunctionOnSet(duration, P)
  BY CallsFinite, FS_Subset DEF Past, Ended, MetricsTypeOK, TotalExact
<1>2. ASSUME total' = total, P' = P, \A c \in P : duration'[c] = duration[c] PROVE TotalExact'
  <2>1. \A c \in P : duration[c] \in Int /\ duration'[c] = duration[c]
    BY <1>1, <1>2
  <2> HIDE DEF P
  <2>2. SumFunctionOnSet(duration', P) = SumFunctionOnSet(duration, P)
    BY <1>1, <2>1, SumSame
  <2>3. TotalExact' <=> total' = SumFunctionOnSet(duration', P')
    BY DEF TotalExact, P
  <2> QED
    BY <1>1, <1>2, <2>2, <2>3
<1>3. CASE UNCHANGED metricVars
  BY <1>2, <1>3 DEF Past, Ended, metricVars, counters
<1>4. ASSUME NEW c \in Calls, NEW d \in Durations, Succeed(c, d) PROVE TotalExact'
  <2>1. P' = P /\ c \notin P /\ total' = total
    BY <1>4 DEF MetricsTypeOK, LoopInv, Past, Ended, Succeed, Steps, counters
  <2>2. \A b \in P : duration'[b] = duration[b]
    BY <1>1, <1>4, <2>1 DEF MetricsTypeOK, Succeed
  <2> QED
    BY <1>2, <2>1, <2>2
<1>5. ASSUME NEW c \in Calls, AddTotal(c) PROVE TotalExact'
  <2>1. /\ P' = P \cup {c} /\ c \notin P /\ duration' = duration
        /\ total' = total + duration[c]
    BY <1>5 DEF MetricsTypeOK, LoopInv, Past, Ended, AddTotal, Did
  <2>2. \A b \in P \cup {c} : duration[b] \in Int
    BY <1>1
  <2>3. TotalExact' <=> total' = SumFunctionOnSet(duration', P')
    BY DEF TotalExact
  <2> HIDE DEF P
  <2>4. SumFunctionOnSet(duration, P \cup {c}) = duration[c] + SumFunctionOnSet(duration, P)
    BY <1>1, <2>1, <2>2, SumAdd
  <2>5. duration[c] \in Int /\ total \in Int
    BY <2>2 DEF MetricsTypeOK
  <2> QED
    BY <1>1, <2>1, <2>3, <2>4, <2>5
<1>6. ASSUME NEW c \in Calls,
             \/ RecordError(c) \/ RecordRehydrate(c) \/ CountRequest(c) \/ StoreLast(c)
             \/ CountLatency(c) \/ SwapMax(c) \/ RetryMax(c) \/ \E v \in peaks : LoadMax(c, v)
      PROVE  TotalExact'
  <2>1. total' = total /\ duration' = duration
    BY <1>6 DEF RecordError, RecordRehydrate, CountRequest, StoreLast, CountLatency, SwapMax,
                RetryMax, LoadMax, counters
  <2>2. P' = P
    BY <1>6 DEF MetricsTypeOK, LoopInv, Past, Ended, RecordError, RecordRehydrate,
                CountRequest, StoreLast, CountLatency, SwapMax, RetryMax, LoadMax, Did
  <2> QED
    BY <1>2, <2>1, <2>2
<1> QED
  BY <1>3, <1>4, <1>5, <1>6 DEF MetricsNext, Record

\* For any number of calls and any durations: the total is the sum of what the
\* calls that are past adding to it have taken (record_compile_success).
THEOREM Totalled == MetricsSpec => []TotalExact
<1>1. MetricsInit => TotalExact
  <2>1. MetricsInit => Past("total") = {} /\ total = 0
    BY DEF MetricsInit, Past, Ended
  <2> QED
    BY <2>1, SumEmpty DEF TotalExact
<1>2. CountInv /\ TotalExact /\ [MetricsNext]_metricVars => TotalExact'
  BY TotalStep DEF CountInv
<1> QED
  BY CountInvariant, <1>1, <1>2, PTL DEF MetricsSpec

-----------------------------------------------------------------------------
(* The ledger of an orchestrator round.                                    *)

Total(f) == SumFunctionOnSet(f, Agents)

(* The shares at l of agents whose weights are w.                          *)
ShareOf(u, a, l) == Clamp(u * Scale - l, Floor(a) * l, request.demand[a] * l)
Shares(w, l) == [a \in Agents |-> ShareOf(w[a], a, l)]
Over(w, l) == Total(Shares(w, l)) > request.budget * l
Weights == [a \in Agents |-> Weight(a)]

(* The search's bracket, and when there is one: its ends allocate too much *)
(* and not too much, and it is as narrow as its halvings make it.          *)
Searching ==
  phase = "bisecting" =>
    /\ request.strategy = "water_filling" /\ ~Plenty /\ ~Scarce
    /\ 0 < lo /\ lo < hi
    /\ Over(Weights, lo) /\ ~Over(Weights, hi)
    /\ \E p \in Priorities : hi - lo <= Widths((360 * Larger(p, 1) + Unit) * Scale)[steps]

(* The tokens f are the shares at l of agents of weights w, and l is the   *)
(* least multiplier of the grid that does not allocate too much.           *)
Balanced(f, w, l) ==
  /\ f = [a \in Agents |-> ShareOf(w[a], a, l) \div l]
  /\ ~Over(w, l)
  /\ EnoughSteps => l > 1 /\ Over(w, l - 1)

(* What allocate_budgets answers agents of weights w.                      *)
Reply(f, w) ==
  /\ request.strategy = "uniform" =>
       f = [a \in Agents |-> request.budget \div Cardinality(Agents)]
  /\ request.strategy = "water_filling" /\ Plenty => f = request.demand
  /\ request.strategy = "water_filling" /\ ~Plenty /\ Scarce => f = Floors
  /\ request.strategy = "water_filling" /\ ~Plenty /\ ~Scarce =>
       \E l \in Nat \ {0} : Balanced(f, w, l)

(* The ledger is the last answer, to weights that only the agents with     *)
(* more feedback since then have outgrown.                                 *)
Remembered ==
  /\ phase = "answered" => rounds > 0 /\ lately = {}
  /\ lately # {} => rounds > 0 /\ \E a \in Agents : lately = {a}
  /\ rounds > 0 =>
       \E w \in [Agents -> Nat] :
         /\ Reply(ledger, w)
         /\ \A a \in Agents : w[a] <= Weight(a) /\ (a \notin lately => w[a] = Weight(a))

IInv == TypeOK /\ Searching /\ Remembered /\ Bounded

LEMMA WeightType ==
  ASSUME TypeOK, NEW a \in Agents
  PROVE  /\ Weight(a) \in Nat \ {0}
         /\ Floor(a) \in 0..request.demand[a]
         /\ request.demand[a] \in Nat
<1>1. /\ request.priority[a] \in Int /\ request.demand[a] \in Nat
      /\ request.role[a] \in Roles /\ heard[a] \in Nat
  BY AllocateAssumption DEF TypeOK, Requests
<1>2. RoleTenths[request.role[a]] \in {15, 12, 10, 8}
  BY <1>1 DEF Roles, RoleTenths
<1>3. Boost(a) \in 4..12
  BY <1>1 DEF Boost, Smaller
<1>4. Larger(request.priority[a], 1) \in Nat \ {0}
  BY <1>1 DEF Larger
<1>5. \A p \in Nat \ {0}, r \in {15, 12, 10, 8}, b \in 4..12 :
        p * r * b \in Nat \ {0}
  OBVIOUS
<1>6. Weight(a) \in Nat \ {0}
  BY <1>2, <1>3, <1>4, <1>5 DEF Weight
<1> QED
  BY <1>1, <1>6, AllocateAssumption DEF Floor, Smaller

(* Dividing a clamped numerator by its denominator clamps the quotient.    *)
LEMMA ClampDivides ==
  ASSUME NEW n \in Int, NEW f \in Nat, NEW d \in Nat, f <= d, NEW l \in Nat \ {0},
         NEW q, q = Clamp(n, f * l, d * l) \div l
  PROVE  /\ q \in f..d
         /\ q < d => n < (q + 1) * l
         /\ q > f => n >= q * l
<1> DEFINE c == Clamp(n, f * l, d * l)
<1>1. f * l \in Nat /\ d * l \in Nat /\ f * l <= d * l
  OBVIOUS
<1>2. c \in Nat /\ f * l <= c /\ c <= d * l
  BY <1>1 DEF Clamp, Smaller, Larger
<1>3. q \in Nat /\ q * l <= c /\ c < (q + 1) * l
  BY <1>2
<1>4. q <= d
  <2>1. q * l <= d * l
    BY <1>1, <1>2, <1>3
  <2> QED BY <2>1, <1>3
<1>5. f <= q
  <2>1. f * l < (q + 1) * l
    BY <1>1, <1>2, <1>3
  <2> QED BY <2>1, <1>3
<1>6. ASSUME q < d PROVE n < (q + 1) * l
  <2>1. (q + 1) * l <= d * l
    BY <1>6, <1>3
  <2>2. c < d * l
    BY <2>1, <1>2, <1>3, <1>1
  <2> QED
    BY <2>2, <1>1, <1>3 DEF Clamp, Smaller, Larger
<1>7. ASSUME q > f PROVE n >= q * l
  <2>1. f * l < q * l
    BY <1>7, <1>3
  <2>2. f * l < c
    BY <2>1, <1>1, <1>2, <1>3
  <2> QED
    BY <2>2, <1>1, <1>3 DEF Clamp, Smaller, Larger
<1> QED
  BY <1>3, <1>4, <1>5, <1>6, <1>7

(* A clamped number lies between the bounds and is moved toward them only. *)
LEMMA ClampBounds ==
  ASSUME NEW n \in Int, NEW x \in Int, NEW y \in Int, x <= y
  PROVE  /\ Clamp(n, x, y) \in Int /\ x <= Clamp(n, x, y) /\ Clamp(n, x, y) <= y
         /\ Clamp(n, x, y) < y => n <= Clamp(n, x, y)
         /\ Clamp(n, x, y) > x => Clamp(n, x, y) <= n
  BY DEF Clamp, Smaller, Larger

LEMMA Product == ASSUME NEW x \in Nat, NEW y \in Nat PROVE x * y \in Nat
  OBVIOUS

LEMMA ProductAtMost ==
  ASSUME NEW x \in Int, NEW y \in Int, NEW c \in Nat, x <= y PROVE x * c <= y * c
  OBVIOUS

LEMMA ProductLess ==
  ASSUME NEW x \in Int, NEW y \in Int, NEW c \in Nat \ {0}
  PROVE  x * c < y * c <=> x < y
  OBVIOUS

LEMMA Minus == ASSUME NEW x \in Int, NEW y \in Int, NEW c \in Int
               PROVE  (x - y) * c = x * c - y * c /\ (x + y) * c = x * c + y * c
  OBVIOUS

(* As the multiplier grows a share falls, compared as fractions over it.   *)
LEMMA ClampFalls ==
  ASSUME NEW u \in Nat, NEW f \in Nat, NEW d \in Nat, f <= d,
         NEW l \in Nat \ {0}, NEW m \in Nat, l <= m
  PROVE  Clamp(u - m, f * m, d * m) * l <= Clamp(u - l, f * l, d * l) * m
<1> DEFINE A == Clamp(u - m, f * m, d * m)
           B == Clamp(u - l, f * l, d * l)
<1>1. /\ f * m \in Nat /\ d * m \in Nat /\ f * m <= d * m
      /\ f * l \in Nat /\ d * l \in Nat /\ f * l <= d * l
      /\ u - m \in Int /\ u - l \in Int
  BY Product, ProductAtMost
<1>a. A \in Int /\ f * m <= A /\ A <= d * m /\ (A > f * m => A <= u - m)
  <2>1. PICK n \in Int, x \in Int, y \in Int : n = u - m /\ x = f * m /\ y = d * m
    BY <1>1
  <2> QED
    BY <1>1, <2>1, ClampBounds
<1>b. B \in Int /\ f * l <= B /\ B <= d * l /\ (B < d * l => u - l <= B)
  <2>1. PICK n \in Int, x \in Int, y \in Int : n = u - l /\ x = f * l /\ y = d * l
    BY <1>1
  <2> QED
    BY <1>1, <2>1, ClampBounds
<1>2. /\ A \in Int /\ f * m <= A /\ A <= d * m /\ (A > f * m => A <= u - m)
      /\ B \in Int /\ f * l <= B /\ B <= d * l /\ (B < d * l => u - l <= B)
  BY <1>a, <1>b
<1> HIDE DEF A, B
<1>3. /\ (d * m) * l = (d * l) * m /\ (f * m) * l = (f * l) * m
      /\ u * l <= u * m
  OBVIOUS
<1>4. CASE B = d * l
  <2>1. A * l <= (d * m) * l
    BY <1>1, <1>2, ProductAtMost
  <2> QED
    BY <1>3, <1>4, <2>1 DEF A, B
<1>5. CASE A = f * m
  <2>1. (f * l) * m <= B * m
    BY <1>1, <1>2, ProductAtMost
  <2> QED
    BY <1>3, <1>5, <2>1 DEF A, B
<1>6. CASE B < d * l /\ A > f * m
  <2>1. A * l <= (u - m) * l
    BY <1>2, <1>6, ProductAtMost
  <2>2. (u - l) * m <= B * m
    BY <1>2, <1>6, ProductAtMost
  <2>3. (u - m) * l = u * l - m * l /\ (u - l) * m = u * m - l * m /\ m * l = l * m
    BY Minus
  <2>4. /\ u * l \in Int /\ u * m \in Int /\ m * l \in Int /\ A * l \in Int /\ B * m \in Int
    BY <1>2
  <2> QED
    BY <1>3, <2>1, <2>2, <2>3, <2>4 DEF A, B
<1> QED
  BY <1>1, <1>2, <1>4, <1>5, <1>6

(* A clamped number rises with the number.                                 *)
LEMMA ClampRises ==
  ASSUME NEW u \in Int, NEW v \in Int, u <= v, NEW x \in Int, NEW y \in Int, x <= y
  PROVE  Clamp(u, x, y) <= Clamp(v, x, y)
  BY DEF Clamp, Smaller, Larger

-----------------------------------------------------------------------------
(* Sums over the agents.                                                   *)

LEMMA TotalType == ASSUME NEW f, \A a \in Agents : f[a] \in Int PROVE Total(f) \in Int
  BY SumType, AllocateAssumption DEF Total

(* A sum of multiples, each larger by k.                                   *)
LEMMA TotalLinear ==
  ASSUME NEW f, NEW p \in Int, NEW k \in Int, \A a \in Agents : f[a] \in Int
  PROVE  \E F : /\ \A a \in Agents : F[a] \in Int /\ F[a] = p * f[a] + k
                /\ Total(F) = p * Total(f) + k * Cardinality(Agents)
<1>1. PICK F : \A a \in Agents : f[a] \in Int /\ F[a] = p * f[a] + k
  <2> DEFINE F == [a \in Agents |-> p * f[a] + k]
  <2>1. \A a \in Agents : f[a] \in Int /\ F[a] = p * f[a] + k
    OBVIOUS
  <2> QED
    BY <2>1
<1>2. IsFiniteSet(Agents)
  BY AllocateAssumption
<1>3. Total(F) = p * Total(f) + k * Cardinality(Agents)
  BY <1>1, <1>2, SumLinear DEF Total
<1>4. \A a \in Agents : F[a] \in Int /\ F[a] = p * f[a] + k
  BY <1>1
<1> QED
  BY <1>3, <1>4

(* What holds of every agent's part, up to k, holds of the sums.           *)
LEMMA TotalCompare ==
  ASSUME NEW f, NEW g, NEW p \in Int, NEW q \in Int, NEW k \in Int,
         \A a \in Agents : f[a] \in Int /\ g[a] \in Int /\ f[a] * p <= g[a] * q + k
  PROVE  Total(f) * p <= Total(g) * q + k * Cardinality(Agents)
<1>1. /\ Total(f) \in Int /\ Total(g) \in Int /\ Cardinality(Agents) \in Nat
      /\ IsFiniteSet(Agents) /\ 0 \in Int
  BY TotalType, AllocateAssumption, FS_CardinalityType
<1>2. PICK F : /\ \A a \in Agents : F[a] \in Int /\ F[a] = p * f[a] + 0
               /\ Total(F) = p * Total(f) + 0 * Cardinality(Agents)
  <2>1. \A a \in Agents : f[a] \in Int
    OBVIOUS
  <2> QED
    BY <1>1, <2>1, TotalLinear
<1>3. PICK G : /\ \A a \in Agents : G[a] \in Int /\ G[a] = q * g[a] + k
               /\ Total(G) = q * Total(g) + k * Cardinality(Agents)
  <2>1. \A a \in Agents : g[a] \in Int
    OBVIOUS
  <2> QED
    BY <1>1, <2>1, TotalLinear
<1>6. \A a \in Agents : F[a] \in Int /\ G[a] \in Int /\ F[a] <= G[a]
  <2> SUFFICES ASSUME NEW a \in Agents PROVE F[a] \in Int /\ G[a] \in Int /\ F[a] <= G[a]
    OBVIOUS
  <2>1. f[a] * p = p * f[a] /\ g[a] * q = q * g[a]
    BY <1>2, <1>3
  <2>2. f[a] * p \in Int /\ g[a] * q \in Int /\ f[a] * p <= g[a] * q + k
    BY <1>2, <1>3
  <2> QED
    BY <1>2, <1>3, <2>1, <2>2
<1>7. Total(F) <= Total(G)
  BY <1>1, <1>6, SumAtMost, Zenon DEF Total
<1>8. p * Total(f) + 0 * Cardinality(Agents) = Total(f) * p /\ q * Total(g) = Total(g) * q
  BY <1>1
<1> QED
  BY <1>2, <1>3, <1>7, <1>8

LEMMA SumsAreTotals ==
  ASSUME TypeOK
  PROVE  /\ \A l : TooMuch(l) <=> Over(Weights, l)
         /\ SumFunction(ledger) = Total(ledger)
         /\ Plenty <=> Total(request.demand) <= request.budget
         /\ Scarce <=> Total(Floors) >= request.budget
<1>1. \A l : [a \in Agents |-> Share(a, l)] = Shares(Weights, l)
  BY DEF Share, Shares, ShareOf, Weights
<1>2. \A l : DOMAIN Shares(Weights, l) = Agents
  BY DEF Shares
<1>3. DOMAIN ledger = Agents /\ DOMAIN request.demand = Agents /\ DOMAIN Floors = Agents
  BY DEF TypeOK, Requests, Floors
<1> QED
  BY <1>1, <1>2, <1>3 DEF TooMuch, Over, Plenty, Scarce, SumFunction, Total

(* A share lies between floor and demand, falls as the multiplier grows    *)
(* and rises with the weight.                                              *)
LEMMA ShareType ==
  ASSUME TypeOK, NEW a \in Agents, NEW u \in Nat, NEW l \in Nat
  PROVE  /\ ShareOf(u, a, l) \in Int /\ u * Scale \in Nat
         /\ Floor(a) * l <= ShareOf(u, a, l) /\ ShareOf(u, a, l) <= request.demand[a] * l
         /\ Floor(a) * l \in Nat /\ request.demand[a] * l \in Nat
         /\ ShareOf(u, a, l) < request.demand[a] * l => u * Scale - l <= ShareOf(u, a, l)
         /\ ShareOf(u, a, l) > Floor(a) * l => ShareOf(u, a, l) <= u * Scale - l
<1>1. /\ Floor(a) \in Nat /\ request.demand[a] \in Nat /\ Floor(a) <= request.demand[a]
      /\ Scale \in Nat
  BY WeightType, AllocateAssumption
<1>2. /\ Floor(a) * l \in Nat /\ request.demand[a] * l \in Nat /\ u * Scale \in Nat
      /\ Floor(a) * l <= request.demand[a] * l
  BY <1>1, Product, ProductAtMost
<1>3. PICK n \in Int, x \in Int, y \in Int :
             n = u * Scale - l /\ x = Floor(a) * l /\ y = request.demand[a] * l
  BY <1>2
<1> QED
  BY <1>2, <1>3, ClampBounds DEF ShareOf

LEMMA ShareFalls ==
  ASSUME TypeOK, NEW a \in Agents, NEW u \in Nat, NEW l \in Nat \ {0}, NEW m \in Nat, l <= m
  PROVE  ShareOf(u, a, m) * l <= ShareOf(u, a, l) * m
<1>1. /\ Floor(a) \in Nat /\ request.demand[a] \in Nat /\ Floor(a) <= request.demand[a]
      /\ u * Scale \in Nat
  BY WeightType, AllocateAssumption, Product
<1>2. PICK n \in Nat, f \in Nat, d \in Nat :
             n = u * Scale /\ f = Floor(a) /\ d = request.demand[a] /\ f <= d
  BY <1>1
<1>3. Clamp(n - m, f * m, d * m) * l <= Clamp(n - l, f * l, d * l) * m
  BY <1>2, ClampFalls
<1> QED
  BY <1>2, <1>3 DEF ShareOf

LEMMA ShareRises ==
  ASSUME TypeOK, NEW a \in Agents, NEW u \in Nat, NEW v \in Nat, u <= v, NEW l \in Nat
  PROVE  ShareOf(u, a, l) <= ShareOf(v, a, l)
<1>1. /\ Floor(a) \in Nat /\ request.demand[a] \in Nat /\ Floor(a) <= request.demand[a]
      /\ Scale \in Nat
  BY WeightType, AllocateAssumption
<1>2. /\ Floor(a) * l \in Nat /\ request.demand[a] * l \in Nat
      /\ u * Scale \in Nat /\ v * Scale \in Nat
      /\ Floor(a) * l <= request.demand[a] * l /\ u * Scale <= v * Scale
  BY <1>1, Product, ProductAtMost
<1>3. PICK m \in Int, n \in Int, x \in Int, y \in Int :
             /\ m = u * Scale - l /\ n = v * Scale - l /\ m <= n
             /\ x = Floor(a) * l /\ y = request.demand[a] * l /\ x <= y
  BY <1>2
<1> QED
  BY <1>3, ClampRises DEF ShareOf

LEMMA SharesType ==
  ASSUME TypeOK, NEW w \in [Agents -> Nat], NEW l \in Nat
  PROVE  /\ \A a \in Agents : Shares(w, l)[a] = ShareOf(w[a], a, l) /\ Shares(w, l)[a] \in Int
         /\ Total(Shares(w, l)) \in Int /\ request.budget \in Nat /\ request.budget * l \in Nat
<1>1. \A a \in Agents : Shares(w, l)[a] = ShareOf(w[a], a, l) /\ Shares(w, l)[a] \in Int
  BY ShareType DEF Shares
<1>2. request.budget \in Nat
  BY AllocateAssumption DEF TypeOK, Requests
<1> QED
  BY <1>1, <1>2, TotalType, Product

(* What is too much at m is too much at any smaller multiplier, and for    *)
(* any heavier agents.                                                     *)
LEMMA OverFalls ==
  ASSUME TypeOK, NEW w \in [Agents -> Nat], NEW l \in Nat \ {0}, NEW m \in Nat, l <= m, Over(w, m)
  PROVE  Over(w, l)
<1>1. \A a \in Agents : /\ Shares(w, m)[a] \in Int /\ Shares(w, l)[a] \in Int
                        /\ Shares(w, m)[a] * l <= Shares(w, l)[a] * m + 0
  <2> SUFFICES ASSUME NEW a \in Agents
               PROVE  Shares(w, m)[a] * l <= Shares(w, l)[a] * m + 0
    BY SharesType
  <2>1. ShareOf(w[a], a, m) * l <= ShareOf(w[a], a, l) * m
    BY ShareFalls
  <2>2. ShareOf(w[a], a, l) * m \in Int
    BY ShareType
  <2> QED
    BY <2>1, <2>2, SharesType
<1>2. Total(Shares(w, m)) * l <= Total(Shares(w, l)) * m + 0 * Cardinality(Agents)
  BY <1>1, TotalCompare
<1>3. PICK M \in Int, L \in Int, b \in Nat, n \in Nat :
             /\ M = Total(Shares(w, m)) /\ L = Total(Shares(w, l)) /\ b = request.budget
             /\ n = Cardinality(Agents)
  BY SharesType, AllocateAssumption, FS_CardinalityType
<1>4. M * l <= L * m /\ M > b * m
  BY <1>2, <1>3 DEF Over
<1>5. (b * m) * l < M * l
  BY <1>4, ProductLess, Product
<1>6. (b * l) * m < L * m
  BY <1>4, <1>5
<1>7. b * l < L
  BY <1>6, ProductLess, Product
<1> QED
  BY <1>3, <1>7 DEF Over

LEMMA OverRises ==
  ASSUME TypeOK, NEW v \in [Agents -> Nat], NEW w \in [Agents -> Nat],
         \A a \in Agents : v[a] <= w[a], NEW l \in Nat, Over(v, l)
  PROVE  Over(w, l)
<1>1. \A a \in Agents : /\ Shares(v, l)[a] \in Int /\ Shares(w, l)[a] \in Int
                        /\ Shares(v, l)[a] * 1 <= Shares(w, l)[a] * 1 + 0
  <2> SUFFICES ASSUME NEW a \in Agents PROVE Shares(v, l)[a] <= Shares(w, l)[a]
    BY SharesType
  <2> QED
    BY ShareRises, SharesType
<1>2. Total(Shares(v, l)) * 1 <= Total(Shares(w, l)) * 1 + 0 * Cardinality(Agents)
  BY <1>1, TotalCompare
<1>3. Cardinality(Agents) \in Nat
  BY AllocateAssumption, FS_CardinalityType
<1> QED
  BY <1>2, <1>3, SharesType DEF Over

(* A weight is at least the least, 32, and at most 180 priorities.          *)
LEMMA WeightRange ==
  ASSUME TypeOK, NEW a \in Agents
  PROVE  32 <= Weight(a) /\ Weight(a) <= 180 * Larger(request.priority[a], 1)
<1>1. /\ request.priority[a] \in Int /\ request.role[a] \in Roles /\ heard[a] \in Nat
  BY AllocateAssumption DEF TypeOK, Requests
<1>2. PICK p \in Nat \ {0}, r \in 8 .. 15, b \in 4 .. 12 :
             /\ p = Larger(request.priority[a], 1) /\ r = RoleTenths[request.role[a]]
             /\ b = Boost(a)
  <2>1. RoleTenths[request.role[a]] \in 8 .. 15
    BY <1>1 DEF Roles, RoleTenths
  <2>2. Boost(a) \in 4 .. 12
    BY <1>1 DEF Boost, Smaller
  <2>3. Larger(request.priority[a], 1) \in Nat \ {0}
    BY <1>1 DEF Larger
  <2> QED
    BY <2>1, <2>2, <2>3
<1>3. 32 <= r * b /\ r * b <= 180 /\ r * b \in Nat
  <2>1. r * 4 <= r * b /\ r * b <= r * 12
    BY ProductAtMost
  <2> QED
    BY <2>1
<1>4. PICK c \in Nat : c = r * b /\ 32 <= c /\ c <= 180
  BY <1>3
<1>5. 1 * c <= p * c /\ c * p <= 180 * p
  BY <1>4, ProductAtMost
<1>6. (p * r) * b = p * c /\ p * c = c * p
  BY <1>4
<1> QED
  BY <1>2, <1>4, <1>5, <1>6 DEF Weight

(* When demands exceed the budget and the shares at m do not, m is so high *)
(* that no agent's demand, times the agents, reaches it.                   *)
LEMMA HighLine ==
  ASSUME TypeOK, FineGrid, ~Plenty, NEW m \in Nat \ {0}, ~Over(Weights, m), NEW d \in Demands
  PROVE  Cardinality(Agents) * d < m
<1>0. /\ d \in Nat /\ m \in Nat /\ Weights \in [Agents -> Nat] /\ Scale \in Nat \ {0}
      /\ \A a \in Agents : Weights[a] = Weight(a)
      /\ Cardinality(Agents) \in Nat
  BY AllocateAssumption, WeightType, FS_CardinalityType DEF Weights
<1>1. PICK a \in Agents : ShareOf(Weight(a), a, m) < request.demand[a] * m
  <2> SUFFICES ASSUME \A a \in Agents : ~(ShareOf(Weight(a), a, m) < request.demand[a] * m)
               PROVE  FALSE
    OBVIOUS
  <2>1. \A a \in Agents : /\ request.demand[a] \in Int /\ Shares(Weights, m)[a] \in Int
                          /\ request.demand[a] * m <= Shares(Weights, m)[a] * 1 + 0
    <3> SUFFICES ASSUME NEW a \in Agents
                 PROVE  /\ request.demand[a] \in Int
                        /\ request.demand[a] * m <= Shares(Weights, m)[a]
      BY <1>0, SharesType
    <3>1. PICK u \in Nat : u = Weight(a)
      BY WeightType
    <3>2. ShareOf(u, a, m) \in Int /\ request.demand[a] * m \in Nat
      BY <1>0, ShareType
    <3>3. request.demand[a] * m <= ShareOf(u, a, m)
      BY <3>1, <3>2
    <3>4. Shares(Weights, m)[a] = ShareOf(u, a, m)
      BY <1>0, <3>1, SharesType
    <3>5. request.demand[a] \in Int
      BY WeightType
    <3> QED
      BY <3>3, <3>4, <3>5
  <2>2. Total(request.demand) * m <= Total(Shares(Weights, m)) * 1 + 0 * Cardinality(Agents)
    <3>1. PICK f, g : f = request.demand /\ g = Shares(Weights, m)
      OBVIOUS
    <3>2. \A a \in Agents : f[a] \in Int /\ g[a] \in Int /\ f[a] * m <= g[a] * 1 + 0
      BY <2>1, <3>1
    <3>3. m \in Int /\ 1 \in Int /\ 0 \in Int
      BY <1>0
    <3>4. Total(f) * m <= Total(g) * 1 + 0 * Cardinality(Agents)
      BY <3>2, <3>3, TotalCompare
    <3> QED
      BY <3>1, <3>4
  <2>3. PICK D \in Int, M \in Int, b \in Nat :
               D = Total(request.demand) /\ M = Total(Shares(Weights, m)) /\ b = request.budget
    BY <1>0, <2>1, TotalType, SharesType
  <2>4. b < D
    BY <2>3, SumsAreTotals
  <2>5. b * m < D * m
    BY <2>4, ProductLess
  <2>6. D * m <= M /\ ~(M > b * m)
    BY <1>0, <2>2, <2>3 DEF Over
  <2> QED
    BY <2>5, <2>6
<1>2. PICK e \in Nat, u \in Nat :
             e = request.demand[a] /\ u = Weight(a) /\ 32 <= u /\ e \in Demands
  <2>1. request.demand[a] \in Demands
    BY DEF TypeOK, Requests
  <2> QED
    BY <2>1, WeightType, WeightRange
<1>3. u * Scale - m < e * m
  <2>1. /\ u * Scale - m <= ShareOf(u, a, m) /\ ShareOf(u, a, m) \in Int /\ e * m \in Int
        /\ u * Scale \in Int /\ ShareOf(u, a, m) < e * m
    <3>1. ShareOf(u, a, m) < request.demand[a] * m
      BY <1>1, <1>2
    <3>2. /\ u * Scale - m <= ShareOf(u, a, m) /\ ShareOf(u, a, m) \in Int
          /\ request.demand[a] * m \in Nat /\ u * Scale \in Nat
      BY <1>0, <3>1, ShareType
    <3> QED
      BY <1>2, <3>1, <3>2
  <2> QED
    BY <2>1
<1>4. 32 * Scale < (e + 1) * m
  <2>1. 32 * Scale <= u * Scale
    BY <1>0, <1>2, ProductAtMost
  <2>2. (e + 1) * m = e * m + m
    OBVIOUS
  <2> QED
    BY <1>0, <1>2, <1>3, <2>1, <2>2
<1>5. Cardinality(Agents) * d * (e + 1) <= 32 * Scale
  BY <1>2 DEF FineGrid
<1>6. PICK n \in Nat : n = Cardinality(Agents) * d
  BY <1>0, Product
<1>7. n * (e + 1) < m * (e + 1)
  <2>1. n * (e + 1) \in Int /\ 32 * Scale \in Int /\ (e + 1) * m = m * (e + 1) /\ m * (e + 1) \in Int
    BY <1>0
  <2> QED
    BY <1>4, <1>5, <1>6, <2>1
<1>8. n < m
  BY <1>0, <1>7, ProductLess
<1> QED
  BY <1>6, <1>8

-----------------------------------------------------------------------------
(* What Widths computes, step by step.                                     *)
LEMMA WidthsEquation ==
  ASSUME NEW first \in Nat
  PROVE  LET width == Widths(first) IN
         /\ width \in [0 .. MaxSteps -> Nat]
         /\ width[0] = first
         /\ \A k \in 1 .. MaxSteps : width[k] = (width[k - 1] + 1) \div 2
<1> DEFINE N == MaxSteps
           D == [p \in Nat \X (1 .. N) |-> (p[1] + 1) \div 2]
           Is(f) == f = [k \in 0 .. N |-> IF k = 0 THEN first ELSE (f[k - 1] + 1) \div 2]
<1>1. N \in Nat /\ \A k \in 1 .. N : k - 1 \in 0 .. N /\ k # 0
  BY AllocateAssumption
<1> HIDE DEF N
<1>2. \A v \in Nat, k \in 1 .. N : D[<<v, k>>] = (v + 1) \div 2
  OBVIOUS
<1> HIDE DEF D
<1>3. \A v \in Nat, k \in 1 .. N : D[<<v, k>>] \in Nat
  <2>1. \A v \in Nat : (v + 1) \div 2 \in Nat
    OBVIOUS
  <2> QED
    BY <1>2, <2>1
<1>4. PICK f \in [0 .. N -> Nat] : Unrolls(f, first, D, N)
  BY <1>1, <1>3, Recursion
<1>5. f[0] = first /\ \A k \in 1 .. N : f[k] = (f[k - 1] + 1) \div 2
  BY <1>1, <1>2, <1>4 DEF Unrolls
<1>6. Is(f)
  <2>1. \A k \in 0 .. N : f[k] = IF k = 0 THEN first ELSE (f[k - 1] + 1) \div 2
    BY <1>1, <1>5
  <2>2. f = [k \in 0 .. N |-> f[k]]
    OBVIOUS
  <2> QED
    BY <2>1, <2>2
<1> DEFINE w == CHOOSE w : Is(w)
<1>7. Is(w)
  <2> HIDE DEF Is
  <2> QED
    BY <1>6
<1>8. Widths(first) = w
  BY DEF Widths, N
<1> HIDE DEF w
<1>9. \A k \in 0 .. N : w[k] = IF k = 0 THEN first ELSE (w[k - 1] + 1) \div 2
  BY <1>7
<1>10. w[0] = first /\ \A k \in 1 .. N : w[k] = (w[k - 1] + 1) \div 2
  BY <1>1, <1>9
<1>11. \A k \in 0 .. N : w[k] \in Nat
  <2> DEFINE S == {k \in 0 .. N : w[k] \in Nat}
  <2>1. 0 \in S
    BY <1>1, <1>10
  <2>2. ASSUME NEW k \in 0 .. N - 1, k \in S PROVE k + 1 \in S
    <3>1. k + 1 \in 1 .. N /\ (k + 1) - 1 = k
      BY <1>1
    <3>2. w[k + 1] = (w[k] + 1) \div 2
      BY <1>10, <3>1
    <3> QED
      BY <2>2, <3>1, <3>2
  <2> HIDE DEF S
  <2>3. \A k \in 0 .. N : k \in S
    BY <1>1, <2>1, <2>2, UpTo
  <2> QED
    BY <2>3 DEF S
<1>12. w \in [0 .. N -> Nat]
  <2>1. DOMAIN w = 0 .. N /\ w = [k \in 0 .. N |-> w[k]]
    BY <1>7
  <2> QED
    BY <1>11, <2>1
<1> QED
  BY <1>8, <1>10, <1>12 DEF N

(* A request that stands keeps what is computed from it.                   *)
LEMMA SameRequest ==
  ASSUME request' = request
  PROVE  /\ \A a : Floor(a)' = Floor(a)
         /\ Plenty' = Plenty /\ Scarce' = Scarce
         /\ \A w, l : Over(w, l)' = Over(w, l)
         /\ \A w : Reply(ledger, w)' = Reply(ledger', w)
<1>1. \A a : Floor(a)' = Floor(a)
  BY DEF Floor
<1>2. Floors' = Floors
  BY <1>1 DEF Floors
<1>3. Plenty' = Plenty /\ Scarce' = Scarce
  BY <1>2 DEF Plenty, Scarce
<1>4. \A u, a, l : ShareOf(u, a, l)' = ShareOf(u, a, l)
  BY <1>1 DEF ShareOf
<1>5. \A w, l : Shares(w, l)' = Shares(w, l)
  BY <1>4 DEF Shares
<1>6. \A w, l : Over(w, l)' = Over(w, l)
  BY <1>5 DEF Over, Total
<1>7. \A w, l : Balanced(ledger, w, l)' = Balanced(ledger', w, l)
  BY <1>4, <1>6 DEF Balanced
<1>8. \A w : Reply(ledger, w)' = Reply(ledger', w)
  BY <1>2, <1>3, <1>7 DEF Reply
<1> QED
  BY <1>1, <1>3, <1>6, <1>8

LEMMA SameWeights ==
  ASSUME UNCHANGED <<request, heard>>
  PROVE  /\ \A a : Weight(a)' = Weight(a)
         /\ \A l : Over(Weights, l)' = Over(Weights, l)
<1>1. \A a : Weight(a)' = Weight(a)
  BY DEF Weight, Boost
<1>2. Weights' = Weights
  BY <1>1 DEF Weights
<1>3. \A u, a, l : ShareOf(u, a, l)' = ShareOf(u, a, l)
  BY SameRequest DEF ShareOf
<1>4. \A l : Shares(Weights, l)' = Shares(Weights, l)
  BY <1>2, <1>3 DEF Shares
<1>5. \A l : Over(Weights, l)' = Over(Weights, l)
  BY <1>4 DEF Over, Total
<1> QED
  BY <1>1, <1>5

(* What was remembered still is when nothing it is about changes.          *)
LEMMA StillRemembered ==
  ASSUME Remembered, UNCHANGED <<request, heard, lately, ledger, rounds>>,
         phase' # "answered" \/ phase' = phase
  PROVE  Remembered'
<1>1. ASSUME rounds' > 0
      PROVE  \E w \in [Agents -> Nat] :
               /\ Reply(ledger, w)'
               /\ \A a \in Agents : w[a] <= Weight(a)' /\ (a \notin lately' => w[a] = Weight(a)')
  <2>1. PICK w \in [Agents -> Nat] :
               /\ Reply(ledger, w)
               /\ \A a \in Agents : w[a] <= Weight(a) /\ (a \notin lately => w[a] = Weight(a))
    BY <1>1 DEF Remembered
  <2>2. Reply(ledger, w)'
    BY <2>1, SameRequest
  <2>3. \A a \in Agents : w[a] <= Weight(a)' /\ (a \notin lately' => w[a] = Weight(a)')
    BY <2>1, SameWeights
  <2> QED
    BY <2>2, <2>3
<1> QED
  BY <1>1 DEF Remembered

(* The latest answer, while it is the latest.                              *)
LEMMA Latest == IInv /\ phase = "answered" => Reply(ledger, Weights)
<1> SUFFICES ASSUME IInv, phase = "answered" PROVE Reply(ledger, Weights)
  OBVIOUS
<1>1. PICK w \in [Agents -> Nat] : Reply(ledger, w) /\ \A a \in Agents : w[a] = Weight(a)
  BY DEF IInv, Remembered
<1>2. w = Weights
  BY <1>1 DEF Weights
<1> QED
  BY <1>1, <1>2

(* The shares read off one multiplier lie between floor and demand.        *)
LEMMA ShareBounds ==
  ASSUME TypeOK, NEW l \in Nat \ {0}, NEW a \in Agents
  PROVE  LET q == Share(a, l) \div l IN
         /\ q \in Floor(a)..request.demand[a]
         /\ q < request.demand[a] => Weight(a) * Scale - l < (q + 1) * l
         /\ q > Floor(a) => Weight(a) * Scale - l >= q * l
<1>1. Weight(a) * Scale - l \in Int
  BY WeightType, AllocateAssumption
<1>2. Floor(a) \in Nat /\ request.demand[a] \in Nat /\ Floor(a) <= request.demand[a]
  BY WeightType
<1> QED
  BY <1>1, <1>2, ClampDivides DEF Share

LEMMA InitInductive == Init => IInv
<1> SUFFICES ASSUME Init PROVE IInv
  OBVIOUS
<1>1. phase = "asked" /\ request \in Requests
  BY DEF Init
<1>2. TypeOK
  BY <1>1, AllocateAssumption DEF Init, TypeOK
<1>3. Remembered
  BY DEF Init, Remembered
<1> QED
  BY <1>1, <1>2, <1>3 DEF IInv, Searching, Bounded, Answered

(* A search starts with a bracket: the first multiplier gives every agent  *)
(* its demand, which exceeds the budget, the last one no more than a floor.*)
LEMMA SearchStarts ==
  ASSUME TypeOK, ~Plenty, ~Scarce, NEW a \in Agents, Heaviest(a),
         NEW m, m = (2 * Weight(a) + Unit) * Scale
  PROVE  /\ m \in Nat /\ 1 < m /\ Over(Weights, 1) /\ ~Over(Weights, m)
         /\ \E p \in Priorities : m - 1 <= Widths((360 * Larger(p, 1) + Unit) * Scale)[0]
<1>1. /\ Weights \in [Agents -> Nat] /\ Scale \in Nat \ {0} /\ request.budget \in Nat
      /\ \A b \in Agents : Weights[b] = Weight(b) /\ Weight(b) \in Nat /\ 32 <= Weight(b)
      /\ 1 \in Nat
  BY WeightType, WeightRange, AllocateAssumption DEF Weights, TypeOK, Requests
<1>2. PICK W \in Nat : W = Weight(a)
  BY <1>1
<1>3. m \in Nat /\ 1 < m /\ m = (2 * W + 800) * Scale
  <2>1. m = (2 * W + 800) * Scale
    BY <1>2 DEF Unit
  <2>2. 2 * W + 800 \in Nat /\ 800 <= 2 * W + 800
    BY <1>2
  <2>3. 800 * Scale <= (2 * W + 800) * Scale
    BY <1>1, <2>2, ProductAtMost
  <2> QED
    BY <1>1, <2>1, <2>2, <2>3, Product
<1>4. Over(Weights, 1)
  <2>1. \A b \in Agents : Shares(Weights, 1)[b] = request.demand[b]
    <3> SUFFICES ASSUME NEW b \in Agents PROVE Shares(Weights, 1)[b] = request.demand[b]
      OBVIOUS
    <3>1. PICK u \in Nat : u = Weight(b) /\ 32 <= u
      BY <1>1
    <3>2. request.demand[b] \in Nat /\ request.demand[b] < 32 * Scale
      BY WeightType, AllocateAssumption DEF TypeOK, Requests
    <3>3. 32 * Scale <= u * Scale /\ u * Scale \in Nat
      BY <1>1, <3>1, ProductAtMost, Product
    <3>4. /\ ShareOf(u, b, 1) \in Int /\ ShareOf(u, b, 1) <= request.demand[b] * 1
          /\ ShareOf(u, b, 1) < request.demand[b] * 1 => u * Scale - 1 <= ShareOf(u, b, 1)
      BY <1>1, ShareType
    <3>5. ShareOf(u, b, 1) = request.demand[b]
      BY <1>1, <3>2, <3>3, <3>4
    <3> QED
      BY <1>1, <3>1, <3>5, SharesType
  <2>2. \A b \in Agents : request.demand[b] \in Int /\ Shares(Weights, 1)[b] = request.demand[b]
    BY <2>1, WeightType
  <2>3. Total(Shares(Weights, 1)) = Total(request.demand)
    BY <2>2, SumSame, AllocateAssumption DEF Total
  <2>4. Total(request.demand) \in Int /\ Total(request.demand) > request.budget
    BY <2>2, SumsAreTotals, TotalType, <1>1
  <2> QED
    BY <1>1, <2>3, <2>4 DEF Over
<1>5. ~Over(Weights, m)
  <2>1. \A b \in Agents : /\ Floors[b] \in Int /\ Shares(Weights, m)[b] \in Int
                          /\ Shares(Weights, m)[b] * 1 <= Floors[b] * m + 0
    <3> SUFFICES ASSUME NEW b \in Agents
                 PROVE  /\ Floors[b] \in Int /\ Shares(Weights, m)[b] \in Int
                        /\ Shares(Weights, m)[b] * 1 <= Floors[b] * m + 0
      OBVIOUS
    <3>1. PICK u \in Nat, f \in Nat :
                 /\ u = Weight(b) /\ u <= W /\ f = Floor(b) /\ Floors[b] = f
      BY <1>1, <1>2, WeightType DEF Heaviest, Floors
    <3>2. u * Scale < m
      <4>1. u * Scale < (2 * W + 800) * Scale
        <5>1. u < 2 * W + 800 /\ u \in Int /\ 2 * W + 800 \in Int
          BY <3>1
        <5> QED
          BY <1>1, <5>1, ProductLess
      <4> QED
        BY <1>3, <4>1
    <3>3. /\ ShareOf(u, b, m) \in Int /\ u * Scale \in Nat
          /\ Floor(b) * m <= ShareOf(u, b, m) /\ Floor(b) * m \in Nat
          /\ ShareOf(u, b, m) > Floor(b) * m => ShareOf(u, b, m) <= u * Scale - m
      <4>1. PICK k \in Nat : k = m
        BY <1>3
      <4>2. /\ ShareOf(u, b, k) \in Int /\ u * Scale \in Nat
            /\ Floor(b) * k <= ShareOf(u, b, k) /\ Floor(b) * k \in Nat
            /\ ShareOf(u, b, k) > Floor(b) * k => ShareOf(u, b, k) <= u * Scale - k
        BY ShareType
      <4> QED
        BY <4>1, <4>2
    <3>4. ShareOf(u, b, m) = f * m /\ f * m \in Nat
      BY <1>3, <3>1, <3>2, <3>3
    <3>5. Shares(Weights, m)[b] = ShareOf(u, b, m)
      BY <1>1, <1>3, <3>1, SharesType
    <3> QED
      BY <3>1, <3>3, <3>4, <3>5
  <2>2. PICK f, g : f = Shares(Weights, m) /\ g = Floors
    OBVIOUS
  <2>3. \A b \in Agents : f[b] \in Int /\ g[b] \in Int /\ f[b] * 1 <= g[b] * m + 0
    BY <2>1, <2>2
  <2>4. Total(f) * 1 <= Total(g) * m + 0 * Cardinality(Agents)
    <3>1. m \in Int /\ 1 \in Int /\ 0 \in Int
      BY <1>3
    <3> QED
      BY <2>3, <3>1, TotalCompare
  <2>5. PICK M \in Int, F \in Int, B \in Nat :
               M = Total(f) /\ F = Total(g) /\ B = request.budget
    <3>1. Total(f) \in Int /\ Total(g) \in Int
      BY <2>3, TotalType
    <3> QED
      BY <1>1, <3>1
  <2>6. F < B
    BY <2>2, <2>5, SumsAreTotals
  <2>7. F * m < B * m
    BY <1>3, <2>6, ProductLess
  <2>8. M <= F * m
    BY <1>3, <2>4, <2>5, AllocateAssumption, FS_CardinalityType
  <2>9. ~(M > B * m)
    BY <1>3, <2>5, <2>7, <2>8
  <2> QED
    BY <2>2, <2>5, <2>9 DEF Over
<1>6. \E p \in Priorities : m - 1 <= Widths((360 * Larger(p, 1) + Unit) * Scale)[0]
  <2> DEFINE p == request.priority[a]
             first == (360 * Larger(p, 1) + Unit) * Scale
  <2>1. p \in Priorities /\ p \in Int
    BY AllocateAssumption DEF TypeOK, Requests
  <2>2. PICK q \in Nat : q = Larger(p, 1) /\ W <= 180 * q
    BY <1>2, <2>1, WeightRange DEF Larger
  <2>3. first = (360 * q + 800) * Scale
    BY <2>2 DEF Unit
  <2>4. first \in Nat /\ m <= first
    <3>1. 2 * W + 800 <= 360 * q + 800 /\ 2 * W + 800 \in Int /\ 360 * q + 800 \in Nat
      BY <2>2
    <3> QED
      BY <1>1, <1>3, <2>3, <3>1, ProductAtMost, Product
  <2> HIDE DEF p, first
  <2>5. Widths(first)[0] = first
    BY <2>4, WidthsEquation
  <2>6. m - 1 <= Widths(first)[0]
    BY <1>3, <2>4, <2>5
  <2> QED
    BY <2>1, <2>6 DEF first
<1> QED
  BY <1>3, <1>4, <1>5, <1>6

(* A halving keeps the bracket, and halves it.                             *)
LEMMA BracketHalves ==
  ASSUME TypeOK, Searching, Bisect, 0 < lo, hi - lo > 1, steps < MaxSteps
  PROVE  Searching'
<1>1. lo \in Nat /\ hi \in Nat /\ steps \in Nat /\ MaxSteps \in Nat
  BY AllocateAssumption DEF TypeOK
<1>2. PICK mid \in Nat : mid = (lo + hi) \div 2 /\ lo < mid /\ mid < hi
                         /\ mid - lo <= (hi - lo + 1) \div 2 /\ hi - mid <= (hi - lo + 1) \div 2
  BY <1>1
<1>3. \/ Over(Weights, mid) /\ lo' = mid /\ hi' = hi
      \/ ~Over(Weights, mid) /\ hi' = mid /\ lo' = lo
  BY <1>2, SumsAreTotals DEF Bisect
<1>4. UNCHANGED <<request, heard>> /\ phase = "bisecting" /\ phase' = phase /\ steps' = steps + 1
  BY DEF Bisect
<1>5. /\ 0 < lo' /\ lo' < hi' /\ Over(Weights, lo') /\ ~Over(Weights, hi')
      /\ hi' - lo' <= (hi - lo + 1) \div 2
      /\ lo' \in Nat /\ hi' \in Nat
  BY <1>1, <1>2, <1>3, <1>4 DEF Searching
<1>6. PICK p \in Priorities : hi - lo <= Widths((360 * Larger(p, 1) + Unit) * Scale)[steps]
  BY <1>4 DEF Searching
<1>7. hi' - lo' <= Widths((360 * Larger(p, 1) + Unit) * Scale)[steps']
  <2> DEFINE first == (360 * Larger(p, 1) + Unit) * Scale
             width == Widths(first)
  <2>1. first \in Nat
    <3>1. PICK q \in Nat : q = 360 * Larger(p, 1) + Unit
      BY AllocateAssumption DEF Larger, Unit
    <3> QED
      BY <3>1, AllocateAssumption, Product
  <2> HIDE DEF first
  <2>2. /\ width \in [0 .. MaxSteps -> Nat]
        /\ \A k \in 1 .. MaxSteps : width[k] = (width[k - 1] + 1) \div 2
    BY <2>1, WidthsEquation
  <2> HIDE DEF width
  <2>3. steps' \in 1 .. MaxSteps /\ steps' - 1 = steps /\ steps \in 0 .. MaxSteps
    BY <1>1, <1>4
  <2>4. width[steps'] = (width[steps] + 1) \div 2 /\ width[steps] \in Nat
    BY <2>2, <2>3
  <2>5. hi - lo <= width[steps]
    BY <1>6 DEF width, first
  <2>6. hi' - lo' <= width[steps']
    <3>1. PICK x \in Nat, y \in Nat : x = hi - lo /\ y = width[steps] /\ x <= y
      BY <1>1, <1>2, <2>4, <2>5
    <3>2. (x + 1) \div 2 <= (y + 1) \div 2 /\ (x + 1) \div 2 \in Nat /\ (y + 1) \div 2 \in Nat
      BY <3>1
    <3>3. hi' - lo' <= (x + 1) \div 2 /\ hi' - lo' \in Int /\ width[steps'] = (y + 1) \div 2
      BY <1>5, <2>4, <3>1
    <3> QED
      BY <3>2, <3>3
  <2> QED
    BY <2>6 DEF width, first
<1>8. request.strategy = "water_filling" /\ ~Plenty /\ ~Scarce
  BY <1>4 DEF Searching
<1> QED
  BY <1>4, <1>5, <1>7, <1>8, SameRequest, SameWeights DEF Searching

(* When the search stops, hi is the least multiplier that will do.         *)
LEMMA SearchEnds ==
  ASSUME TypeOK, Searching, Fill
  PROVE  Balanced([a \in Agents |-> Share(a, hi) \div hi], Weights, hi)
<1>1. /\ lo \in Nat /\ hi \in Nat /\ steps \in 0 .. MaxSteps /\ MaxSteps \in Nat
      /\ phase = "bisecting" /\ 0 < lo /\ lo < hi /\ (hi - lo <= 1 \/ steps >= MaxSteps)
      /\ Over(Weights, lo) /\ ~Over(Weights, hi)
  BY AllocateAssumption DEF TypeOK, Searching, Fill, Narrow
<1>2. ASSUME EnoughSteps PROVE hi > 1 /\ Over(Weights, hi - 1)
  <2>1. hi - lo <= 1
    <3>1. CASE hi - lo <= 1
      BY <3>1
    <3>2. CASE steps >= MaxSteps
      <4>1. PICK p \in Priorities : hi - lo <= Widths((360 * Larger(p, 1) + Unit) * Scale)[steps]
        BY <1>1 DEF Searching
      <4> DEFINE first == (360 * Larger(p, 1) + Unit) * Scale
                 final == Widths(first)[MaxSteps]
      <4>2. first \in Nat
        <5>1. PICK q \in Nat : q = 360 * Larger(p, 1) + Unit
          BY AllocateAssumption DEF Larger, Unit
        <5> QED
          BY <5>1, AllocateAssumption, Product
      <4>3. steps = MaxSteps
        BY <1>1, <3>2
      <4>4. hi - lo <= final /\ final <= 1
        BY <1>2, <4>1, <4>3 DEF EnoughSteps
      <4> HIDE DEF first
      <4>5. final \in Nat
        BY <1>1, <4>2, WidthsEquation
      <4> HIDE DEF final
      <4> QED
        BY <1>1, <4>4, <4>5
    <3> QED
      BY <1>1, <3>1, <3>2
  <2>2. lo = hi - 1
    BY <1>1, <2>1
  <2> QED
    BY <1>1, <2>2
<1>3. [a \in Agents |-> Share(a, hi) \div hi] = [a \in Agents |-> ShareOf(Weights[a], a, hi) \div hi]
  BY DEF Share, ShareOf, Weights
<1> QED
  BY <1>1, <1>2, <1>3 DEF Balanced

(* The three actions that answer, from the shares each answers with.       *)
LEMMA AnswerInductive ==
  ASSUME IInv, NEW shares, Answer(shares), UNCHANGED <<lo, hi, steps>>,
         shares \in [Agents -> Nat], Reply(shares, Weights),
         request.strategy = "water_filling" =>
           \A a \in Agents : shares[a] \in Floor(a)..request.demand[a]
  PROVE  IInv'
<1>1. TypeOK'
  BY DEF Answer, IInv, TypeOK
<1>2. Searching'
  BY DEF Answer, Searching
<1>3. /\ UNCHANGED <<request, heard>> /\ ledger' = shares /\ lately' = {} /\ phase' = "answered"
      /\ rounds' > 0
  BY DEF Answer, IInv, TypeOK
<1>4. Remembered'
  <2>1. PICK w \in [Agents -> Nat] : Reply(shares, w) /\ \A a \in Agents : w[a] = Weight(a)
    <3>1. Weights \in [Agents -> Nat] /\ \A a \in Agents : Weights[a] = Weight(a)
      BY WeightType DEF IInv, Weights
    <3> QED
      BY <3>1
  <2>2. Reply(ledger, w)'
    BY <1>3, <2>1, SameRequest
  <2>3. \A a \in Agents : Weight(a) \in Nat
    BY WeightType DEF IInv
  <2>4. \A a \in Agents : w[a] <= Weight(a)' /\ w[a] = Weight(a)'
    BY <1>3, <2>1, <2>3, SameWeights
  <2> QED
    BY <1>3, <2>2, <2>4 DEF Remembered
<1>5. Bounded'
  BY <1>3, SameRequest DEF Bounded, Answered
<1> QED
  BY <1>1, <1>2, <1>4, <1>5 DEF IInv

(* More feedback makes its agent heavier, and no other.                    *)
LEMMA FeedbackRemembered ==
  ASSUME IInv, NEW a \in Agents, Feedback(a),
         NEW s \in Signals, heard' = [heard EXCEPT ![a] = @ + s]
  PROVE  Remembered'
<1>1. /\ phase = "answered" /\ rounds > 0 /\ lately = {} /\ phase' = "asked" /\ lately' = {a}
      /\ UNCHANGED <<request, ledger, rounds>>
  BY DEF Feedback, IInv, Remembered
<1>2. PICK w \in [Agents -> Nat] : Reply(ledger, w) /\ \A b \in Agents : w[b] = Weight(b)
  BY <1>1 DEF IInv, Remembered
<1>3. Reply(ledger, w)'
  BY <1>1, <1>2, SameRequest
<1>4. \A b \in Agents : heard[b] \in Nat /\ heard'[b] \in Nat /\ heard[b] <= heard'[b]
  BY AllocateAssumption DEF IInv, TypeOK
<1>5. \A b \in Agents : b # a => Weight(b)' = Weight(b)
  BY <1>1 DEF Weight, Boost, IInv, TypeOK
<1>6. Weight(a) <= Weight(a)' /\ Weight(a) \in Nat /\ Weight(a)' \in Int
  <2>1. PICK p \in Nat, r \in Nat, x \in Nat, y \in Nat :
               /\ p = Larger(request.priority[a], 1) /\ r = RoleTenths[request.role[a]]
               /\ x = Boost(a) /\ y = Boost(a)' /\ x <= y
    <3>1. request.priority[a] \in Int /\ request.role[a] \in Roles
      BY AllocateAssumption DEF IInv, TypeOK, Requests
    <3>2. Boost(a) \in Nat /\ Boost(a)' \in Nat /\ Boost(a) <= Boost(a)'
      BY <1>4 DEF Boost, Smaller
    <3>3. Larger(request.priority[a], 1) \in Nat
      BY <3>1 DEF Larger
    <3>4. RoleTenths[request.role[a]] \in Nat
      BY <3>1 DEF Roles, RoleTenths
    <3> QED
      BY <3>2, <3>3, <3>4
  <2>2. Weight(a) = (p * r) * x /\ Weight(a)' = (p * r) * y
    BY <1>1, <2>1 DEF Weight
  <2>3. PICK c \in Nat : c = p * r
    BY <2>1, Product
  <2>4. x * c <= y * c /\ x * c = c * x /\ y * c = c * y /\ c * x \in Nat /\ c * y \in Nat
    BY <2>1, ProductAtMost, Product
  <2> QED
    BY <2>2, <2>3, <2>4
<1>7. \A b \in Agents : w[b] <= Weight(b)' /\ (b \notin lately' => w[b] = Weight(b)')
  <2>1. \A b \in Agents : w[b] \in Nat
    OBVIOUS
  <2> QED
    BY <1>1, <1>2, <1>5, <1>6, <2>1
<1> QED
  BY <1>1, <1>3, <1>7 DEF Remembered

LEMMA NextInductive == IInv /\ [Next]_vars => IInv'
<1> SUFFICES ASSUME IInv, [Next]_vars PROVE IInv'
  OBVIOUS
<1>1. TypeOK
  BY DEF IInv
<1>2. CASE Uniform
  <2>1. Cardinality(Agents) \in Nat \ {0}
    BY AllocateAssumption, FS_CardinalityType, FS_EmptySet
  <2>2. request.budget \in Nat
    BY <1>1, AllocateAssumption DEF TypeOK, Requests
  <2>3. request.budget \div Cardinality(Agents) \in Nat
    BY <2>1, <2>2
  <2> DEFINE shares == [a \in Agents |-> request.budget \div Cardinality(Agents)]
  <2>4. shares \in [Agents -> Nat] /\ Reply(shares, Weights)
    BY <1>2, <2>3 DEF Uniform, Reply
  <2>5. Answer(shares) /\ UNCHANGED <<lo, hi, steps>> /\ request.strategy # "water_filling"
    BY <1>2 DEF Uniform
  <2> HIDE DEF shares
  <2> QED
    BY <2>4, <2>5, AnswerInductive
<1>3. CASE Outright
  <2>1. CASE Plenty /\ Answer(request.demand)
    <3>1. request.demand \in [Agents -> Nat]
      BY <1>1, AllocateAssumption DEF TypeOK, Requests
    <3>2. \A a \in Agents : request.demand[a] \in Floor(a)..request.demand[a]
      BY <1>1, WeightType
    <3>3. Reply(request.demand, Weights)
      BY <1>3, <2>1 DEF Outright, Reply
    <3> QED
      BY <1>3, <2>1, <3>1, <3>2, <3>3, AnswerInductive DEF Outright
  <2>2. CASE ~Plenty /\ Scarce /\ Answer(Floors)
    <3>1. \A a \in Agents : Floors[a] \in Floor(a)..request.demand[a] /\ Floors[a] \in Nat
      BY <1>1, WeightType DEF Floors
    <3>2. Floors \in [Agents -> Nat]
      BY <3>1 DEF Floors
    <3>3. Reply(Floors, Weights)
      BY <1>3, <2>2 DEF Outright, Reply
    <3> QED
      BY <1>3, <2>2, <3>1, <3>2, <3>3, AnswerInductive DEF Outright
  <2> QED
    BY <1>3, <2>1, <2>2 DEF Outright
<1>4. CASE Search
  <2>1. PICK a \in Agents : Heaviest(a) /\ hi' = (2 * Weight(a) + Unit) * Scale
    BY <1>4 DEF Search
  <2>2. ~Plenty /\ ~Scarce /\ request.strategy = "water_filling"
    BY <1>4 DEF Search
  <2>3. /\ hi' \in Nat /\ 1 < hi' /\ Over(Weights, 1) /\ ~Over(Weights, hi')
        /\ \E p \in Priorities : hi' - 1 <= Widths((360 * Larger(p, 1) + Unit) * Scale)[0]
    BY <1>1, <2>1, <2>2, SearchStarts
  <2>4. UNCHANGED <<request, heard>> /\ lo' = 1 /\ steps' = 0
    BY <1>4 DEF Search
  <2>5. TypeOK'
    BY <1>1, <1>4, <2>3, AllocateAssumption DEF Search, TypeOK
  <2>6. Searching'
    BY <2>2, <2>3, <2>4, SameRequest, SameWeights DEF Searching
  <2>7. Remembered' /\ Bounded'
    BY <1>4, StillRemembered DEF Search, IInv, Bounded, Answered
  <2> QED
    BY <2>5, <2>6, <2>7 DEF IInv
<1>5. CASE Bisect
  <2>1. lo \in Nat /\ hi \in Nat /\ steps \in 0..MaxSteps /\ MaxSteps \in Nat
    BY <1>1, AllocateAssumption DEF TypeOK
  <2>2. 0 < lo /\ hi - lo > 1 /\ steps < MaxSteps
    BY <1>5, <2>1 DEF Bisect, Narrow, IInv, Searching
  <2>3. steps' \in 0..MaxSteps
    BY <1>5, <2>1, <2>2 DEF Bisect
  <2>4. UNCHANGED <<request, heard, lately, phase, ledger, rounds>> /\ phase = "bisecting"
    BY <1>5 DEF Bisect
  <2>5. lo' \in Nat /\ hi' \in Nat /\ 0 < lo' /\ lo' < hi'
    BY <1>5, <2>1, <2>2 DEF Bisect
  <2>6. TypeOK'
    BY <1>1, <2>3, <2>4, <2>5 DEF TypeOK
  <2>7. Searching'
    BY <1>1, <1>5, <2>2, BracketHalves DEF IInv
  <2>8. Remembered' /\ Bounded'
    BY <2>4, StillRemembered DEF IInv, Bounded, Answered
  <2> QED
    BY <2>6, <2>7, <2>8 DEF IInv
<1>6. CASE Fill
  <2> DEFINE shares == [a \in Agents |-> Share(a, hi) \div hi]
  <2>1. hi \in Nat \ {0}
    BY <1>1, <1>6 DEF Fill, IInv, Searching, TypeOK
  <2>2. \A a \in Agents : shares[a] \in Floor(a)..request.demand[a]
    BY <1>1, <2>1, ShareBounds
  <2>3. \A a \in Agents : shares[a] \in Nat
    BY <1>1, <2>2, WeightType
  <2>4. shares \in [Agents -> Nat]
    BY <2>3
  <2>5. Answer(shares) /\ UNCHANGED <<lo, hi, steps>>
    BY <1>6 DEF Fill
  <2>6. Reply(shares, Weights)
    <3>1. Balanced(shares, Weights, hi)
      BY <1>1, <1>6, SearchEnds DEF IInv
    <3>2. request.strategy = "water_filling" /\ ~Plenty /\ ~Scarce
      BY <1>6 DEF Fill, IInv, Searching
    <3> QED
      BY <2>1, <3>1, <3>2 DEF Reply
  <2> HIDE DEF shares
  <2> QED
    BY <2>1, <2>2, <2>4, <2>5, <2>6, AnswerInductive
<1>7. ASSUME NEW a \in Agents, Feedback(a) PROVE IInv'
  <2>1. PICK s \in Signals : heard' = [heard EXCEPT ![a] = @ + s]
    BY <1>7 DEF Feedback
  <2>2. heard' \in [Agents -> Nat]
    BY <1>1, <2>1, AllocateAssumption DEF TypeOK
  <2>3. TypeOK'
    BY <1>1, <1>7, <2>2 DEF Feedback, TypeOK
  <2>4. phase' = "asked"
    BY <1>7 DEF Feedback
  <2>5. Remembered'
    BY <1>7, <2>1, FeedbackRemembered
  <2> QED
    BY <2>3, <2>4, <2>5 DEF IInv, Searching, Bounded, Answered
<1>8. CASE UNCHANGED vars
  <2>1. TypeOK'
    BY <1>1, <1>8 DEF TypeOK, vars
  <2>2. UNCHANGED <<request, heard, phase, ledger, lo, hi, steps, lately, rounds>>
    BY <1>8 DEF vars
  <2>3. Searching'
    BY <2>2, SameRequest, SameWeights DEF IInv, Searching
  <2>4. Bounded'
    BY <2>2, SameRequest DEF IInv, Bounded, Answered
  <2>5. Remembered'
    BY <2>2, StillRemembered DEF IInv
  <2> QED
    BY <2>1, <2>3, <2>4, <2>5 DEF IInv
<1> QED
  BY <1>2, <1>3, <1>4, <1>5, <1>6, <1>7, <1>8 DEF Next

(* Any two agents of one water line: moving a token would not pay.  The    *)
(* two inequalities are what the clamp says of an agent below its demand   *)
(* and of one above its floor; the multiplier cancels between them.        *)
LEMMA WaterLine ==
  ASSUME NEW u \in Nat \ {0}, NEW v \in Nat \ {0}, NEW x \in Nat, NEW y \in Nat,
         NEW l \in Nat \ {0}, NEW D \in Nat \ {0},
         u * D - l < (x + 1) * l, v * D - l >= y * l
  PROVE  u * (y + 1) < v * (x + 2)
<1>1. u * D < (x + 2) * l
  <2>1. (x + 2) * l = (x + 1) * l + l
    OBVIOUS
  <2> QED BY <2>1
<1>2. (y + 1) * l <= v * D
  <2>1. (y + 1) * l = y * l + l
    OBVIOUS
  <2> QED BY <2>1
<1>3. (u * D) * (y + 1) < ((x + 2) * l) * (y + 1)
  BY <1>1
<1>4. ((y + 1) * l) * (x + 2) <= (v * D) * (x + 2)
  BY <1>2
<1>5. ((x + 2) * l) * (y + 1) = ((y + 1) * l) * (x + 2)
  OBVIOUS
<1>6. (u * (y + 1)) * D < (v * (x + 2)) * D
  <2>1. (u * D) * (y + 1) = (u * (y + 1)) * D
    OBVIOUS
  <2>2. (v * D) * (x + 2) = (v * (x + 2)) * D
    OBVIOUS
  <2> QED BY <1>3, <1>4, <1>5, <2>1, <2>2
<1>7. u * (y + 1) \in Nat /\ v * (x + 2) \in Nat
  OBVIOUS
<1>8. \A m, n \in Nat : m * D < n * D => m < n
  OBVIOUS
<1> QED BY <1>6, <1>7, <1>8

LEMMA Even == IInv => EvenMargins
<1> SUFFICES ASSUME IInv, Filled, NEW a \in Agents, NEW b \in Agents,
                    ledger[a] < request.demand[a], ledger[b] > Floor(b)
             PROVE  Weight(a) * (ledger[b] + 1) < Weight(b) * (ledger[a] + 2)
  BY DEF EvenMargins
<1>1. PICK l \in Nat \ {0} : Balanced(ledger, Weights, l)
  BY Latest DEF Reply, Filled, Answered
<1>2. TypeOK
  BY DEF IInv
<1>3. ledger[a] = Share(a, l) \div l /\ ledger[b] = Share(b, l) \div l
  BY <1>1 DEF Balanced, Share, ShareOf, Weights
<1>4. Weight(a) * Scale - l < (ledger[a] + 1) * l
  BY <1>2, <1>3, ShareBounds
<1>5. Weight(b) * Scale - l >= ledger[b] * l
  BY <1>2, <1>3, ShareBounds
<1>6. ledger[a] \in Nat /\ ledger[b] \in Nat
  BY <1>2 DEF TypeOK
<1>7. Weight(a) \in Nat \ {0} /\ Weight(b) \in Nat \ {0} /\ Scale \in Nat \ {0}
  BY <1>2, WeightType, AllocateAssumption
<1> QED
  BY <1>4, <1>5, <1>6, <1>7, WaterLine

(* Rounding every share down loses at most a token per agent: an agent's *)
(* share one step of the grid below hi exceeds its tokens by a token and   *)
(* a part of one that the grid makes too small to count.                   *)
LEMMA OneStepBelow ==
  ASSUME TypeOK, NEW a \in Agents, NEW k \in Nat \ {0}, NEW n \in Nat,
         n * request.demand[a] <= k,
         NEW q, q = ShareOf(Weight(a), a, k + 1) \div (k + 1)
  PROVE  q \in Nat /\ ShareOf(Weight(a), a, k) * n <= q * (k * n) + (k * n + k)
<1>0. PICK u \in Nat, d \in Nat, f \in Nat, m \in Nat \ {0} :
             /\ u = Weight(a) /\ d = request.demand[a] /\ f = Floor(a) /\ f <= d /\ m = k + 1
  BY WeightType
<1>1. /\ q \in f .. d
      /\ q < d => u * Scale - m < (q + 1) * m
  <2>1. Share(a, m) = ShareOf(u, a, m) /\ q = ShareOf(u, a, m) \div m
    BY <1>0 DEF Share, ShareOf
  <2>2. LET r == Share(a, m) \div m IN
         /\ r \in Floor(a)..request.demand[a]
         /\ r < request.demand[a] => Weight(a) * Scale - m < (r + 1) * m
    BY <1>0, ShareBounds
  <2> QED
    BY <1>0, <2>1, <2>2
<1>2. /\ ShareOf(u, a, k) \in Int /\ u * Scale \in Nat
      /\ ShareOf(u, a, k) <= request.demand[a] * k /\ Floor(a) * k \in Nat
      /\ ShareOf(u, a, k) > Floor(a) * k => ShareOf(u, a, k) <= u * Scale - k
  BY ShareType
<1>3. PICK s \in Int, t \in Nat :
             s = ShareOf(u, a, k) /\ t = u * Scale /\ s <= d * k /\ (s > f * k => s <= t - k)
  BY <1>0, <1>2
<1>4. q \in Nat /\ k \in Nat /\ q * k \in Nat /\ k * n \in Nat /\ n * d <= k
  BY <1>0, <1>1
<1>5. s * n <= q * (k * n) + (k * n + k)
  <2>1. CASE s <= q * k
    <3>1. s * n <= (q * k) * n
      BY <1>4, <2>1, ProductAtMost
    <3>2. (q * k) * n = q * (k * n)
      BY <1>4
    <3>3. s * n \in Int /\ q * (k * n) \in Nat
      BY <1>4
    <3> QED
      BY <1>4, <3>1, <3>2, <3>3
  <2>2. CASE s > q * k
    <3>1. q < d /\ s > f * k
      <4>1. f * k <= q * k
        BY <1>1, <1>4, ProductAtMost
      <4>2. d <= q => d * k <= q * k
        BY <1>4, ProductAtMost
      <4>3. f * k \in Nat /\ d * k \in Nat
        BY <1>4, Product
      <4> QED
        BY <1>1, <1>3, <1>4, <2>2, <4>1, <4>2, <4>3
    <3>2. t - m < (q + 1) * m /\ s <= t - k
      BY <1>1, <1>3, <3>1
    <3>3. (q + 1) * m = q * k + q + k + 1
      BY <1>0, <1>4
    <3>4. s <= q * k + (k + (q + 1))
      BY <1>0, <1>4, <3>2, <3>3
    <3>5. PICK z \in Nat : z = q * k
      BY <1>4
    <3>6. s * n <= (z + (k + (q + 1))) * n
      BY <1>4, <3>4, <3>5, ProductAtMost
    <3>7. (z + (k + (q + 1))) * n = z * n + (k * n + (q + 1) * n)
      BY <1>4
    <3>8. (q + 1) * n <= k
      <4>1. (q + 1) * n <= d * n
        BY <1>4, <3>1, ProductAtMost
      <4>2. d * n = n * d
        OBVIOUS
      <4>3. (q + 1) * n \in Nat /\ d * n \in Nat
        BY <1>4, Product
      <4> QED
        BY <1>4, <4>1, <4>2, <4>3
    <3>9. z * n = q * (k * n)
      BY <1>4, <3>5
    <3>10. s * n \in Int /\ q * (k * n) \in Nat /\ (q + 1) * n \in Nat
      BY <1>4, Product
    <3> QED
      BY <1>4, <3>6, <3>7, <3>8, <3>9, <3>10
  <2> QED
    BY <1>4, <2>1, <2>2
<1> QED
  BY <1>0, <1>3, <1>4, <1>5

(* The tokens of a balanced answer are what its shares round down to.      *)
LEMMA BalancedParts ==
  ASSUME TypeOK, NEW f, NEW w \in [Agents -> Nat], NEW l \in Nat \ {0}, Balanced(f, w, l),
         NEW a \in Agents
  PROVE  /\ f[a] = ShareOf(w[a], a, l) \div l
         /\ f[a] \in Nat /\ f[a] * l <= ShareOf(w[a], a, l) /\ ShareOf(w[a], a, l) < (f[a] + 1) * l
<1>1. f[a] = ShareOf(w[a], a, l) \div l
  BY DEF Balanced
<1>2. PICK s \in Nat : s = ShareOf(w[a], a, l)
  <2>1. ShareOf(w[a], a, l) \in Int /\ Floor(a) * l \in Nat /\ Floor(a) * l <= ShareOf(w[a], a, l)
    BY ShareType
  <2>2. ShareOf(w[a], a, l) \in Nat
    BY <2>1
  <2> QED
    BY <2>2
<1>3. s \div l \in Nat /\ (s \div l) * l <= s /\ s < (s \div l + 1) * l
  BY <1>2
<1> QED
  BY <1>1, <1>2, <1>3

(* When the floors fit the budget the ledger does, on any grid.            *)
LEMMA Affordable ==
  ASSUME IInv, Answered, ~Scarce
  PROVE  Total(ledger) <= request.budget
<1>1. TypeOK /\ Reply(ledger, Weights) /\ request.strategy = "water_filling"
  BY Latest DEF IInv, Answered
<1>2. CASE Plenty
  BY <1>1, <1>2, SumsAreTotals DEF Reply
<1>3. CASE ~Plenty
  <2>1. PICK l \in Nat \ {0} : Balanced(ledger, Weights, l)
    BY <1>1, <1>3 DEF Reply
  <2>2. Weights \in [Agents -> Nat]
    BY <1>1, WeightType DEF Weights
  <2>3. PICK g : g = Shares(Weights, l)
    OBVIOUS
  <2>4. \A a \in Agents : ledger[a] \in Int /\ g[a] \in Int /\ ledger[a] * l <= g[a] * 1 + 0
    <3> SUFFICES ASSUME NEW a \in Agents
                 PROVE  ledger[a] \in Int /\ g[a] \in Int /\ ledger[a] * l <= g[a]
      OBVIOUS
    <3>1. ledger[a] \in Nat /\ ledger[a] * l <= ShareOf(Weights[a], a, l)
      BY <1>1, <2>1, <2>2, BalancedParts
    <3>2. g[a] = ShareOf(Weights[a], a, l) /\ g[a] \in Int
      BY <1>1, <2>2, <2>3, SharesType
    <3> QED
      BY <3>1, <3>2
  <2>5. l \in Int /\ 1 \in Int /\ 0 \in Int
    OBVIOUS
  <2>6. Total(ledger) * l <= Total(g) * 1 + 0 * Cardinality(Agents)
    BY <2>4, <2>5, TotalCompare
  <2>7. PICK L \in Int, G \in Int, B \in Nat :
               L = Total(ledger) /\ G = Total(g) /\ B = request.budget
    BY <1>1, <2>2, <2>3, <2>4, TotalType, SharesType
  <2>8. ~(G > B * l)
    BY <2>1, <2>3, <2>7 DEF Balanced, Over
  <2>9. L * l <= G
    BY <2>6, <2>7, AllocateAssumption, FS_CardinalityType
  <2>10. ~(B * l < L * l)
    BY <2>7, <2>8, <2>9
  <2>11. ~(B < L)
    BY <2>7, <2>10, ProductLess
  <2> QED
    BY <2>7, <2>11
<1> QED
  BY <1>2, <1>3

(* On a grid fine enough, at most a token per agent stays unspent.         *)
LEMMA LittleLeft ==
  ASSUME IInv, FineGrid, EnoughSteps, Filled
  PROVE  request.budget - Total(ledger) <= Cardinality(Agents)
<1>1. /\ TypeOK /\ Reply(ledger, Weights) /\ request.strategy = "water_filling"
      /\ ~Plenty /\ ~Scarce
  BY Latest DEF IInv, Filled, Answered
<1>2. PICK l \in Nat \ {0} : Balanced(ledger, Weights, l)
  BY <1>1 DEF Reply
<1>3. Weights \in [Agents -> Nat] /\ \A a \in Agents : Weights[a] = Weight(a)
  BY <1>1, WeightType DEF Weights
<1>4. l > 1 /\ Over(Weights, l - 1) /\ ~Over(Weights, l)
  BY <1>2 DEF Balanced
<1>5. PICK k \in Nat \ {0}, n \in Nat : l = k + 1 /\ l - 1 = k /\ n = Cardinality(Agents)
  <2>1. l - 1 \in Nat \ {0} /\ l = (l - 1) + 1
    BY <1>4
  <2> QED
    BY <2>1, AllocateAssumption, FS_CardinalityType
<1>6. \A a \in Agents : n * request.demand[a] <= k
  <2> SUFFICES ASSUME NEW a \in Agents PROVE n * request.demand[a] <= k
    OBVIOUS
  <2>1. request.demand[a] \in Demands
    BY <1>1 DEF TypeOK, Requests
  <2>2. n * request.demand[a] < l
    BY <1>1, <1>4, <1>5, <2>1, HighLine
  <2>3. n * request.demand[a] \in Nat
    BY <1>1, WeightType, Product
  <2> QED
    BY <1>5, <2>2, <2>3
<1>7. PICK f, g : f = Shares(Weights, k) /\ g = ledger
  OBVIOUS
<1>8. \A a \in Agents : f[a] \in Int /\ g[a] \in Int /\ f[a] * n <= g[a] * (k * n) + (k * n + k)
  <2> SUFFICES ASSUME NEW a \in Agents
               PROVE  f[a] \in Int /\ g[a] \in Int /\ f[a] * n <= g[a] * (k * n) + (k * n + k)
    OBVIOUS
  <2>1. ledger[a] = ShareOf(Weight(a), a, k + 1) \div (k + 1)
    BY <1>2, <1>3, <1>5 DEF Balanced
  <2>2. ledger[a] \in Nat /\ ShareOf(Weight(a), a, k) * n <= ledger[a] * (k * n) + (k * n + k)
    BY <1>1, <1>6, <2>1, OneStepBelow
  <2>3. f[a] = ShareOf(Weight(a), a, k) /\ f[a] \in Int
    BY <1>1, <1>3, <1>7, SharesType
  <2> QED
    BY <1>7, <2>2, <2>3
<1>9. PICK c \in Nat, e \in Nat : c = k * n /\ e = k * n + k
  BY Product
<1>10. Total(f) * n <= Total(g) * c + e * n
  <2>1. n \in Int /\ c \in Int /\ e \in Int
    OBVIOUS
  <2>2. \A a \in Agents : f[a] \in Int /\ g[a] \in Int /\ f[a] * n <= g[a] * c + e
    BY <1>8, <1>9
  <2>3. Total(f) * n <= Total(g) * c + e * Cardinality(Agents)
    BY <2>1, <2>2, TotalCompare
  <2> QED
    BY <1>5, <2>3
<1>11. PICK F \in Int, G \in Int, B \in Nat : F = Total(f) /\ G = Total(g) /\ B = request.budget
  BY <1>1, <1>3, <1>7, <1>8, TotalType, SharesType
<1>12. B * k < F
  BY <1>4, <1>5, <1>7, <1>11 DEF Over
<1>13. n # 0
  BY <1>5, AllocateAssumption, FS_EmptySet
<1>14. (B * k) * n < F * n
  <2>1. B * k \in Int
    OBVIOUS
  <2> QED
    BY <1>12, <1>13, <2>1, ProductLess
<1>15. B * c < (G + (n + 1)) * c
  <2>1. (B * k) * n = B * c
    BY <1>9
  <2>2. (G + (n + 1)) * c = G * c + (n + 1) * c
    OBVIOUS
  <2>3. (n + 1) * c = e * n
    BY <1>9
  <2>4. B * c \in Int /\ G * c \in Int /\ e * n \in Int /\ F * n \in Int
    OBVIOUS
  <2> QED
    BY <1>10, <1>11, <1>14, <2>1, <2>2, <2>3, <2>4
<1>16. c # 0
  BY <1>9, <1>13
<1>17. B < G + (n + 1)
  BY <1>15, <1>16, ProductLess
<1> QED
  BY <1>5, <1>7, <1>11, <1>17

(* The same agents with one of them, a, heavier: the multiplier does not   *)
(* fall, ...                                                               *)
LEMMA MultiplierRises ==
  ASSUME TypeOK, EnoughSteps, NEW v \in [Agents -> Nat], NEW w \in [Agents -> Nat],
         \A b \in Agents : v[b] <= w[b],
         NEW f, NEW g, NEW l \in Nat \ {0}, NEW m \in Nat \ {0},
         Balanced(f, v, l), Balanced(g, w, m)
  PROVE  l <= m
<1> SUFFICES ASSUME m < l PROVE FALSE
  OBVIOUS
<1>1. PICK k \in Nat : k = l - 1 /\ m <= k
  <2>1. l - 1 \in Nat /\ m <= l - 1
    OBVIOUS
  <2> QED
    BY <2>1
<1>2. Over(v, k) /\ ~Over(w, m)
  BY <1>1 DEF Balanced
<1>3. Over(w, k)
  BY <1>2, OverRises
<1> QED
  BY <1>1, <1>2, <1>3, OverFalls

(* ... so that no other agent gains, ...                                   *)
LEMMA OthersDoNotGain ==
  ASSUME TypeOK, NEW v \in [Agents -> Nat], NEW w \in [Agents -> Nat], NEW b \in Agents, v[b] = w[b],
         NEW f, NEW g, NEW l \in Nat \ {0}, NEW m \in Nat \ {0}, l <= m,
         Balanced(f, v, l), Balanced(g, w, m)
  PROVE  f[b] \in Nat /\ g[b] \in Nat /\ g[b] <= f[b]
<1>1. PICK u \in Nat : u = v[b] /\ u = w[b]
  OBVIOUS
<1>2. f[b] \in Nat /\ ShareOf(v[b], b, l) < (f[b] + 1) * l
  BY BalancedParts
<1>3. g[b] \in Nat /\ g[b] * m <= ShareOf(w[b], b, m)
  BY BalancedParts
<1>4. ShareOf(u, b, m) * l <= ShareOf(u, b, l) * m /\ ShareOf(u, b, l) \in Int
  BY ShareFalls, ShareType
<1>5. ShareOf(u, b, m) \in Int
  BY ShareType
<1>6. PICK x \in Nat, y \in Nat, s \in Int, t \in Int :
             /\ x = f[b] /\ y = g[b] /\ s = ShareOf(u, b, l) /\ t = ShareOf(u, b, m)
             /\ s < (x + 1) * l /\ y * m <= t /\ t * l <= s * m
  BY <1>1, <1>2, <1>3, <1>4, <1>5
<1>7. (y * m) * l <= t * l
  BY <1>6, ProductAtMost, Product
<1>8. s * m < ((x + 1) * l) * m
  <2>1. (x + 1) * l \in Int
    BY <1>6
  <2> QED
    BY <1>6, <2>1, ProductLess
<1>9. y * (m * l) < (x + 1) * (m * l)
  <2>1. (y * m) * l = y * (m * l) /\ ((x + 1) * l) * m = (x + 1) * (m * l)
    BY <1>6
  <2>2. y * (m * l) \in Int /\ (x + 1) * (m * l) \in Int /\ t * l \in Int /\ s * m \in Int
    BY <1>6
  <2> QED
    BY <1>6, <1>7, <1>8, <2>1, <2>2
<1>10. m * l \in Nat \ {0}
  <2>1. \A c, e \in Nat \ {0} : c * e \in Nat \ {0}
    OBVIOUS
  <2> QED
    BY <2>1
<1>11. y < x + 1
  <2>1. PICK c \in Nat \ {0} : c = m * l
    BY <1>10
  <2> QED
    BY <1>6, <1>9, <2>1, ProductLess
<1> QED
  BY <1>6, <1>11

(* ... and a share one step of the grid below says how little a can lose.  *)
LEMMA OneStepAbove ==
  ASSUME TypeOK, NEW a \in Agents, NEW u \in Nat, NEW k \in Nat \ {0}, NEW q \in Nat,
         q <= request.demand[a], request.demand[a] < k + 1, ShareOf(u, a, k) > q * k
  PROVE  (q - 1) * (k + 1) <= ShareOf(u, a, k + 1)
<1>1. PICK d \in Nat, f \in Nat, m \in Nat \ {0}, t \in Nat :
             /\ d = request.demand[a] /\ f = Floor(a) /\ m = k + 1 /\ t = u * Scale
  <2>1. k + 1 \in Nat \ {0}
    OBVIOUS
  <2>2. request.demand[a] \in Nat /\ Floor(a) \in Nat
    BY WeightType
  <2>3. u * Scale \in Nat
    BY ShareType
  <2> QED
    BY <2>1, <2>2, <2>3
<1>2. /\ ShareOf(u, a, k) \in Int /\ Floor(a) * k \in Nat
      /\ ShareOf(u, a, k) > Floor(a) * k => ShareOf(u, a, k) <= u * Scale - k
      /\ Floor(a) * k <= ShareOf(u, a, k)
  BY ShareType
<1>3. /\ ShareOf(u, a, m) \in Int /\ Floor(a) * m \in Nat /\ request.demand[a] * m \in Nat
      /\ ShareOf(u, a, m) < request.demand[a] * m => u * Scale - m <= ShareOf(u, a, m)
      /\ Floor(a) * m <= ShareOf(u, a, m) /\ ShareOf(u, a, m) <= request.demand[a] * m
  BY ShareType
<1>4. PICK x \in Int, y \in Int :
             /\ x = ShareOf(u, a, k) /\ y = ShareOf(u, a, m)
             /\ q * k < x /\ f * k <= x /\ (x > f * k => x <= t - k)
             /\ f * m <= y /\ y <= d * m /\ (y < d * m => t - m <= y)
  BY <1>1, <1>2, <1>3
<1>5. (q - 1) * m = q * m - m /\ q * m = q * k + q /\ q * k \in Nat /\ q * m \in Nat
  BY <1>1
<1>6. q <= d /\ q <= m /\ d * m \in Nat /\ f * m \in Nat /\ f * k \in Nat
  BY <1>1, Product
<1>7. CASE y = d * m
  <2>1. q * m <= d * m
    BY <1>6, ProductAtMost
  <2> QED
    BY <1>1, <1>4, <1>5, <1>6, <1>7, <2>1
<1>8. CASE x = f * k
  <2>1. q < f
    BY <1>4, <1>8, ProductLess
  <2>2. q * m <= f * m
    BY <2>1, ProductAtMost
  <2> QED
    BY <1>1, <1>4, <1>5, <1>6, <2>2
<1>9. CASE x > f * k /\ y < d * m
  <2>1. q * k < t - k /\ t - m <= y
    BY <1>4, <1>5, <1>6, <1>9
  <2>2. q * k <= y
    BY <1>1, <1>5, <2>1
  <2> QED
    BY <1>1, <1>4, <1>5, <1>6, <2>2
<1> QED
  BY <1>4, <1>6, <1>7, <1>8, <1>9

(* The heavier agent loses at most a token.                                *)
LEMMA HeavierLosesLittle ==
  ASSUME TypeOK, FineGrid, EnoughSteps, ~Plenty, NEW a \in Agents,
         NEW v \in [Agents -> Nat], v[a] <= Weight(a),
         \A b \in Agents : b # a => v[b] = Weight(b),
         NEW f, NEW g, NEW l \in Nat \ {0}, NEW m \in Nat \ {0}, l <= m,
         Balanced(f, v, l), Balanced(g, Weights, m)
  PROVE  f[a] \in Nat /\ g[a] \in Nat /\ f[a] - 1 <= g[a]
<1>1. Weights \in [Agents -> Nat] /\ \A b \in Agents : Weights[b] = Weight(b)
  BY WeightType DEF Weights
<1>2. f[a] \in Nat /\ f[a] * l <= ShareOf(v[a], a, l)
  BY BalancedParts
<1>3. g[a] \in Nat /\ ShareOf(Weights[a], a, m) < (g[a] + 1) * m
  BY <1>1, BalancedParts
<1>4. PICK u \in Nat, r \in Nat : u = v[a] /\ r = Weights[a] /\ u <= r
  BY <1>1
<1>5. ShareOf(u, a, l) \in Int /\ ShareOf(u, a, l) <= request.demand[a] * l
      /\ request.demand[a] * l \in Nat
  BY ShareType
<1>6. PICK q \in Nat, p \in Nat, d \in Nat :
             q = f[a] /\ p = g[a] /\ d = request.demand[a]
  BY <1>2, <1>3, WeightType
<1>7. q <= d
  <2>1. ~(d * l < q * l)
    BY <1>2, <1>4, <1>5, <1>6
  <2> QED
    BY <2>1, ProductLess
<1>8. CASE l = m
  <2>1. /\ ShareOf(u, a, l) <= ShareOf(r, a, l) /\ ShareOf(r, a, l) \in Int
    BY <1>4, ShareRises, ShareType
  <2>2. q * l <= ShareOf(u, a, l) /\ ShareOf(r, a, l) < (p + 1) * l
    BY <1>2, <1>3, <1>4, <1>6, <1>8
  <2>3. q * l < (p + 1) * l
    <3>1. q * l \in Int /\ (p + 1) * l \in Int
      OBVIOUS
    <3> QED
      BY <1>5, <2>1, <2>2, <3>1
  <2>4. q < p + 1
    <3>1. p + 1 \in Int
      OBVIOUS
    <3> QED
      BY <2>3, <3>1, ProductLess
  <2> QED
    BY <1>6, <2>4
<1>9. CASE l < m
  <2>1. PICK k \in Nat \ {0} : m = k + 1 /\ l <= k /\ m - 1 = k
    <3>1. m - 1 \in Nat \ {0} /\ m = (m - 1) + 1 /\ l <= m - 1
      BY <1>9
    <3> QED
      BY <3>1
  <2>2. Over(Weights, k) /\ ~Over(v, l) /\ ~Over(Weights, m)
    BY <2>1 DEF Balanced
  <2>3. ShareOf(r, a, k) * l > ShareOf(u, a, l) * k
    <3> SUFFICES ASSUME ~(ShareOf(r, a, k) * l > ShareOf(u, a, l) * k) PROVE FALSE
      OBVIOUS
    <3>1. PICK F, G : F = Shares(Weights, k) /\ G = Shares(v, l)
      OBVIOUS
    <3>2. \A b \in Agents : F[b] \in Int /\ G[b] \in Int /\ F[b] * l <= G[b] * k + 0
      <4> SUFFICES ASSUME NEW b \in Agents
                   PROVE  F[b] \in Int /\ G[b] \in Int /\ F[b] * l <= G[b] * k
        OBVIOUS
      <4>1. /\ F[b] = ShareOf(Weights[b], b, k) /\ F[b] \in Int
        BY <1>1, <3>1, SharesType
      <4>2. G[b] = ShareOf(v[b], b, l) /\ G[b] \in Int
        BY <3>1, SharesType
      <4>3. CASE b = a
        <5>1. F[b] * l \in Int /\ G[b] * k \in Int
          BY <4>1, <4>2
        <5> QED
          BY <1>4, <4>1, <4>2, <4>3, <5>1
      <4>4. CASE b # a
        <5>1. PICK z \in Nat : z = Weights[b] /\ z = v[b]
          BY <1>1, <4>4
        <5>2. ShareOf(z, b, k) * l <= ShareOf(z, b, l) * k
          BY <2>1, ShareFalls
        <5> QED
          BY <4>1, <4>2, <5>1, <5>2
      <4> QED
        BY <4>3, <4>4
    <3>3. Total(F) * l <= Total(G) * k + 0 * Cardinality(Agents)
      <4>1. l \in Int /\ k \in Int /\ 0 \in Int
        OBVIOUS
      <4> QED
        BY <3>2, <4>1, TotalCompare
    <3>4. PICK X \in Int, Y \in Int, B \in Nat : X = Total(F) /\ Y = Total(G) /\ B = request.budget
      BY <3>2, TotalType, SharesType
    <3>5. B * k < X /\ Y <= B * l
      BY <2>2, <3>1, <3>4 DEF Over
    <3>6. (B * k) * l < X * l /\ Y * k <= (B * l) * k
      <4>1. B * k \in Int /\ B * l \in Int
        OBVIOUS
      <4> QED
        BY <3>4, <3>5, <4>1, ProductLess, ProductAtMost
    <3>7. X * l <= Y * k
      BY <3>3, <3>4, AllocateAssumption, FS_CardinalityType
    <3>8. (B * k) * l = (B * l) * k
      OBVIOUS
    <3>9. X * l \in Int /\ Y * k \in Int /\ (B * k) * l \in Int
      BY <3>4
    <3> QED
      BY <3>6, <3>7, <3>8, <3>9
  <2>4. ShareOf(r, a, k) > q * k
    <3>1. ShareOf(r, a, k) \in Int
      BY ShareType
    <3>2. PICK x \in Int, y \in Int :
                 x = ShareOf(r, a, k) /\ y = ShareOf(u, a, l) /\ y * k < x * l /\ q * l <= y
      BY <1>2, <1>4, <1>5, <1>6, <2>3, <3>1
    <3>3. (q * l) * k <= y * k
      <4>1. q * l \in Int
        OBVIOUS
      <4> QED
        BY <3>2, <4>1, ProductAtMost
    <3>4. (q * k) * l < x * l
      <4>1. (q * l) * k = (q * k) * l /\ (q * k) * l \in Int /\ y * k \in Int /\ x * l \in Int
        BY <3>2
      <4> QED
        BY <3>2, <3>3, <4>1
    <3>5. q * k < x
      <4>1. q * k \in Int
        OBVIOUS
      <4> QED
        BY <3>2, <3>4, <4>1, ProductLess
    <3> QED
      BY <3>2, <3>5
  <2>5. d < k + 1
    <3>1. d \in Demands
      BY <1>6 DEF TypeOK, Requests
    <3>2. PICK n \in Nat \ {0} : n = Cardinality(Agents)
      BY AllocateAssumption, FS_CardinalityType, FS_EmptySet
    <3>3. n * d < m
      BY <2>2, <3>1, <3>2, HighLine
    <3>4. d <= n * d
      <4>1. 1 * d <= n * d
        BY <3>2, ProductAtMost
      <4> QED
        BY <4>1
    <3>5. n * d \in Nat
      BY <3>2, Product
    <3> QED
      BY <2>1, <3>3, <3>4, <3>5
  <2>6. (q - 1) * (k + 1) <= ShareOf(r, a, k + 1)
    BY <1>6, <1>7, <2>4, <2>5, OneStepAbove
  <2>7. (q - 1) * m < (p + 1) * m
    <3>1. ShareOf(r, a, m) < (p + 1) * m /\ (q - 1) * m <= ShareOf(r, a, m)
      BY <1>3, <1>4, <1>6, <2>1, <2>6
    <3>2. ShareOf(r, a, m) \in Int /\ (q - 1) * m \in Int /\ (p + 1) * m \in Int
      BY ShareType
    <3> QED
      BY <3>1, <3>2
  <2>8. q - 1 < p + 1
    <3>1. q - 1 \in Int /\ p + 1 \in Int
      OBVIOUS
    <3> QED
      BY <2>7, <3>1, ProductLess
  <2> QED
    BY <1>6, <2>8
<1> QED
  BY <1>8, <1>9

(* From one answer to the next, to weights only a has outgrown.            *)
LEMMA RepliesMove ==
  ASSUME TypeOK, FineGrid, EnoughSteps, NEW a \in Agents,
         NEW v \in [Agents -> Nat], v[a] <= Weight(a),
         \A b \in Agents : b # a => v[b] = Weight(b),
         NEW f \in [Agents -> Nat], NEW g \in [Agents -> Nat], Reply(f, v), Reply(g, Weights)
  PROVE  /\ g[a] >= f[a] - 1
         /\ \A b \in Agents \ {a} : g[b] <= f[b]
<1>1. f[a] \in Nat /\ g[a] \in Nat /\ \A b \in Agents : f[b] \in Nat /\ g[b] \in Nat
  OBVIOUS
<1>2. CASE f = g
  BY <1>1, <1>2
<1>3. CASE f # g
  <2>1. request.strategy = "water_filling" /\ ~Plenty /\ ~Scarce
    <3>1. request.strategy \in {"uniform", "water_filling"}
      BY DEF TypeOK, Requests, Strategies
    <3> QED
      BY <1>3, <3>1 DEF Reply
  <2>2. PICK l \in Nat \ {0} : Balanced(f, v, l)
    BY <2>1 DEF Reply
  <2>3. PICK m \in Nat \ {0} : Balanced(g, Weights, m)
    BY <2>1 DEF Reply
  <2>4. Weights \in [Agents -> Nat] /\ \A b \in Agents : Weights[b] = Weight(b)
    BY WeightType DEF Weights
  <2>5. \A b \in Agents : v[b] <= Weights[b]
    <3>1. \A b \in Agents : Weight(b) \in Nat
      BY WeightType
    <3> QED
      BY <2>4, <3>1
  <2>6. l <= m
    BY <2>2, <2>3, <2>4, <2>5, MultiplierRises
  <2>7. f[a] - 1 <= g[a]
    BY <2>1, <2>2, <2>3, <2>6, HeavierLosesLittle
  <2>8. \A b \in Agents \ {a} : g[b] <= f[b]
    BY <2>2, <2>3, <2>4, <2>6, OthersDoNotGain
  <2> QED
    BY <1>1, <2>7, <2>8
<1> QED
  BY <1>2, <1>3

(* Every step that answers moves the ledger so.                            *)
LEMMA AnswersMove ==
  ASSUME IInv, FineGrid, EnoughSteps, [Next]_vars, phase' = "answered", phase # "answered",
         NEW a \in lately
  PROVE  /\ ledger'[a] >= ledger[a] - 1
         /\ \A b \in Agents \ lately : ledger'[b] <= ledger[b]
<1>1. TypeOK /\ TypeOK' /\ UNCHANGED <<request, heard>>
  <2>1. UNCHANGED <<request, heard>>
    BY DEF Next, Uniform, Outright, Search, Bisect, Fill, Feedback, Answer, vars
  <2> QED
    BY <2>1, NextInductive DEF IInv
<1>2. rounds > 0 /\ lately = {a} /\ a \in Agents
  BY DEF IInv, Remembered
<1>3. PICK v \in [Agents -> Nat] :
             /\ Reply(ledger, v) /\ v[a] <= Weight(a)
             /\ \A b \in Agents : b # a => v[b] = Weight(b)
  <2>1. PICK v \in [Agents -> Nat] :
               /\ Reply(ledger, v)
               /\ \A b \in Agents : v[b] <= Weight(b) /\ (b \notin lately => v[b] = Weight(b))
    BY <1>2 DEF IInv, Remembered
  <2> QED
    BY <1>2, <2>1
<1>4. Reply(ledger', Weights)
  <2>1. IInv'
    BY NextInductive
  <2>2. PICK w \in [Agents -> Nat] : Reply(ledger, w)' /\ \A b \in Agents : w[b] = Weight(b)'
    BY <2>1 DEF IInv, Remembered
  <2>3. w = Weights
    BY <1>1, <2>2, SameWeights DEF Weights
  <2> QED
    BY <1>1, <2>2, <2>3, SameRequest
<1>5. ledger \in [Agents -> Nat] /\ ledger' \in [Agents -> Nat]
  BY <1>1 DEF TypeOK
<1>6. PICK f \in [Agents -> Nat], g \in [Agents -> Nat] : f = ledger /\ g = ledger'
  BY <1>5
<1>7. /\ g[a] >= f[a] - 1
      /\ \A b \in Agents \ {a} : g[b] <= f[b]
  BY <1>1, <1>2, <1>3, <1>4, <1>6, RepliesMove
<1> QED
  BY <1>2, <1>6, <1>7

LEMMA Inductive == Spec => []IInv
<1> QED BY InitInductive, NextInductive, PTL DEF Spec

(* Every state has its type, whatever agents, demands and feedback there   *)
(* are: in particular each allocated_budget is a number of tokens.         *)
THEOREM TypeCorrect == Spec => []TypeOK
<1>1. IInv => TypeOK BY DEF IInv
<1> QED BY <1>1, Inductive, PTL

(* Every answer of water_fill lies between floor and demand.               *)
THEOREM Between == Spec => []Bounded
<1>1. IInv => Bounded BY DEF IInv
<1> QED BY <1>1, Inductive, PTL

(* The search's answer is the rounding of an optimum: past the one token   *)
(* rounding may have kept from it, no agent below its demand gains more by *)
(* a further token than one above its floor loses, whatever the weights.   *)
THEOREM Optimality == Spec => []EvenMargins
<1> QED BY Even, Inductive, PTL

(* While it searches the budget lies between the two ends of its bracket.  *)
THEOREM Bracketing == Spec => []Bracketed
<1>1. IInv => Bracketed
  BY SumsAreTotals DEF IInv, Searching, Bracketed
<1> QED BY <1>1, Inductive, PTL

(* The promise of the ledger: when the floors fit the budget it does, and  *)
(* all but a token per agent is spent unless every demand is met.  The grid*)
(* has to be fine enough for a step of it to move no share by a token, and *)
(* the search long enough to reach a single step: the code's multiplier is *)
(* a float that 200 halvings narrow down to its last bit.                  *)
THEOREM Spending == ASSUME FineGrid, EnoughSteps PROVE Spec => []Spent
<1>1. IInv => Spent
  <2> SUFFICES ASSUME IInv, Answered, ~Scarce
               PROVE  /\ SumFunction(ledger) <= request.budget
                      /\ ~Plenty => request.budget - SumFunction(ledger) <= Cardinality(Agents)
    BY DEF Spent
  <2>1. SumFunction(ledger) = Total(ledger)
    BY SumsAreTotals DEF IInv
  <2>2. Total(ledger) <= request.budget
    BY Affordable
  <2>3. ~Plenty => request.budget - Total(ledger) <= Cardinality(Agents)
    BY LittleLeft DEF Filled
  <2> QED
    BY <2>1, <2>2, <2>3
<1> QED BY <1>1, Inductive, PTL

(* Of that, the part that needs neither: a ledger whose floors fit the     *)
(* budget never exceeds it, on any grid and after any number of halvings.  *)
THEOREM NeverOverdrawn ==
  Spec => [](Answered /\ ~Scarce => SumFunction(ledger) <= request.budget)
<1>1. IInv => (Answered /\ ~Scarce => SumFunction(ledger) <= request.budget)
  BY Affordable, SumsAreTotals DEF IInv
<1> QED BY <1>1, Inductive, PTL

(* Feedback moves budget toward the agent it is about: from one round to   *)
(* the next that agent loses at most a token and the others gain none.     *)
THEOREM FeedbackPays == ASSUME FineGrid, EnoughSteps PROVE Spec => RegretPays
<1>1. IInv /\ [Next]_vars =>
        [ phase' = "answered" /\ phase # "answered" =>
            \A a \in lately :
              /\ ledger'[a] >= ledger[a] - 1
              /\ \A b \in Agents \ lately : ledger'[b] <= ledger[b] ]_vars
  BY AnswersMove
<1> QED BY <1>1, Inductive, PTL DEF Spec, RegretPays
=============================================================================
