---------------------------- MODULE TrafficReports -----------------------------
(* What the rule engine package computes from captured traffic: anomalies,       *)
(* bottlenecks and bandwidth.  (Regressions, which compare bodies, are in        *)
(* TrafficAnalysis.)                                                             *)
(*                                                                               *)
(* An entry is [id, method, url, status, durationMs, waitingMs, downloadMs,      *)
(* bytes, body]; Unknown stands for a number that was not measured.  Ratios are  *)
(* compared by cross multiplication, so that nothing is rounded that the code    *)
(* does not round.  The lists of findings are sets: their order is layout.       *)
(* filter, sort and reduce are defined by ranks and by a function of positions,  *)
(* which can be reasoned about, instead of by SelectSeq, SortSeq and FoldLeft.   *)
EXTENDS RuleEngine

Unknown == -1

keyOf(entry) == <<Upper[entry.method], entry.url>>

Endpoints(entries) == { keyOf(entries[i]) : i \in DOMAIN entries }

(* The kth of some places of a list.                                             *)
Kth(places, k) == CHOOSE i \in places : Cardinality({ j \in places : j <= i }) = k

(* The elements at some places of a list, in their order: what filter returns.   *)
Kept(list, places) == [k \in 1..Cardinality(places) |-> list[Kth(places, k)]]

Of(entries, key) == Kept(entries, { i \in DOMAIN entries : keyOf(entries[i]) = key })

Total(numbers) ==
    LET sum[k \in 0..Len(numbers)] == IF k = 0 THEN 0 ELSE sum[k - 1] + numbers[k]
    IN  sum[Len(numbers)]

(* The order of a stable sort.                                                   *)
ComesFirst(numbers, j, i) ==
    \/ numbers[j] < numbers[i]
    \/ numbers[j] = numbers[i] /\ j <= i

(* The place of the kth number in that order.                                    *)
KthLeast(numbers, k) ==
    CHOOSE i \in DOMAIN numbers :
        Cardinality({ j \in DOMAIN numbers : ComesFirst(numbers, j, i) }) = k

Ascending(numbers) == [k \in DOMAIN numbers |-> numbers[KthLeast(numbers, k)]]

Column(entries, Field(_)) == [i \in DOMAIN entries |-> Field(entries[i])]

Finding(kind, severity, key) == [kind |-> kind, severity |-> severity, endpoint |-> key]

-------------------------------------------------------------------------------
(* Anomalies.                                                                    *)

minRequestsForErrorRate == 3
minSamplesForOutlier == 4
latencyFloorMs == 200
payloadFloorBytes == 1024

(* Twice the median, so that the mean of two middle values stays an integer.     *)
TwiceMedian(numbers) ==
    LET n == Len(numbers)
        mid == n \div 2
        sorted == Ascending(numbers)
    IN  IF n = 0 THEN 0
        ELSE IF n % 2 = 0 THEN sorted[mid] + sorted[mid + 1] ELSE 2 * sorted[mid + 1]

Distance(x, y) == IF x >= y THEN x - y ELSE y - x

(* Twice the distance of a value from the median.                                *)
Deviation(numbers, value) == Distance(2 * value, TwiceMedian(numbers))

(* The first of the values farthest from the median, on either side of it.       *)
Farthest(numbers) ==
    LET best == { i \in DOMAIN numbers :
                    \A j \in DOMAIN numbers :
                        /\ Deviation(numbers, numbers[i]) >= Deviation(numbers, numbers[j])
                        /\ j < i => Deviation(numbers, numbers[i]) > Deviation(numbers, numbers[j]) }
    IN  numbers[CHOOSE i \in best : TRUE]

(* maxModifiedZ(..).score >= 3.5, the score being 0.6745 * |value - median| over  *)
(* the median deviation; mad is four times that one.                             *)
IsOutlier(numbers, floor) ==
    LET mad == TwiceMedian([i \in DOMAIN numbers |-> Deviation(numbers, numbers[i])])
        value == Farthest(numbers)
    IN  /\ Len(numbers) >= minSamplesForOutlier
        /\ mad # 0
        /\ 13490 * Deviation(numbers, value) >= 35000 * mad
        /\ value >= floor

Measured(entries) == { i \in DOMAIN entries : entries[i].durationMs >= 0 }

DurationsOf(entries) == Kept(Column(entries, LAMBDA e : e.durationMs), Measured(entries))
SizesOf(entries) ==
    Kept(Column(entries, LAMBDA e : e.bytes), { i \in DOMAIN entries : entries[i].bytes > 0 })

isError(entry) == entry.status >= 400

ErrorRateFindings(entries, key) ==
    LET total == Len(entries)
        errors == Cardinality({ i \in DOMAIN entries : isError(entries[i]) })
    IN  IF total >= minRequestsForErrorRate /\ 2 * errors >= total
        THEN {Finding("error-rate", IF 5 * errors >= 4 * total THEN "error" ELSE "warning", key)}
        ELSE {}

detectAnomalies(entries) ==
    UNION { LET bucket == Of(entries, key)
            IN  ErrorRateFindings(bucket, key)
                \cup (IF IsOutlier(DurationsOf(bucket), latencyFloorMs)
                      THEN {Finding("latency-outlier", "warning", key)} ELSE {})
                \cup (IF IsOutlier(SizesOf(bucket), payloadFloorBytes)
                      THEN {Finding("payload-outlier", "info", key)} ELSE {})
            : key \in Endpoints(entries) }

-------------------------------------------------------------------------------
(* Bottlenecks.                                                                  *)

absoluteSlowMs == 1000
relativeFloorMs == 300
minSamplesForPercentile == 5

(* Faulty: the rank is rounded down.                                             *)
percentileRoundedDown(sorted, tenths) ==
    LET rank == (tenths * Len(sorted)) \div 10
    IN  IF sorted = <<>> THEN 0
        ELSE sorted[IF rank < 1 THEN 1 ELSE rank]

(* The nearest-rank percentile; the fraction in tenths.                          *)
percentile(sorted, tenths) ==
    LET rank == (tenths * Len(sorted) + 9) \div 10
    IN  IF sorted = <<>> THEN 0
        ELSE sorted[IF rank < 1 THEN 1 ELSE IF rank > Len(sorted) THEN Len(sorted) ELSE rank]

classifyReason(entry) ==
    LET total == entry.waitingMs + entry.downloadMs
    IN  IF entry.waitingMs = Unknown \/ entry.downloadMs = Unknown \/ total <= 0 THEN "slow"
        ELSE IF 10 * entry.waitingMs >= 7 * total THEN "server-latency"
        ELSE IF 10 * entry.downloadMs >= 6 * total THEN "transfer-size" ELSE "mixed"

(* Math.round(part / whole) of numbers that are not negative.                    *)
Rounded(part, whole) == (2 * part + whole) \div (2 * whole)

detectBottlenecks(entries) ==
    LET measured == Kept(entries, Measured(entries))
        durations == Ascending(Column(measured, LAMBDA e : e.durationMs))
        count == Len(durations)
        p90 == percentile(durations, 9)
        slowest == { i \in DOMAIN measured : /\ measured[i].durationMs = durations[count]
                                             /\ \A j \in 1..(i - 1) :
                                                   measured[j].durationMs < durations[count] }
        exceedsAbsolute(e) == e.durationMs >= absoluteSlowMs
        exceedsRelative(e) == /\ count >= minSamplesForPercentile
                              /\ e.durationMs >= p90
                              /\ e.durationMs >= relativeFloorMs
    IN  [stats |-> [count |-> count,
                    averageDurationMs |-> IF count = 0 THEN 0 ELSE Rounded(Total(durations), count),
                    p50DurationMs |-> percentile(durations, 5),
                    p90DurationMs |-> p90,
                    maxDurationMs |-> IF count = 0 THEN 0 ELSE durations[count],
                    slowest |-> { measured[i].id : i \in slowest }],
         findings |-> { [id |-> e.id, durationMs |-> e.durationMs, reason |-> classifyReason(e),
                         exceedsAbsolute |-> exceedsAbsolute(e),
                         exceedsRelative |-> exceedsRelative(e)]
                        : e \in { x \in RangeOf(measured) : exceedsAbsolute(x) \/ exceedsRelative(x) } }]

-------------------------------------------------------------------------------
(* Bandwidth.                                                                    *)

KnownBytes(entry) == IF entry.bytes > 0 THEN entry.bytes ELSE 0

(* The transfer time counted for an entry: its download phase if there is one.   *)
TransferMs(entry) ==
    LET ms == IF entry.downloadMs # Unknown THEN entry.downloadMs ELSE entry.durationMs
    IN  IF ms > 0 THEN ms ELSE 0

profileEndpoint(bucket) ==
    LET bytes == Total(Column(bucket, KnownBytes))
        ms == Total(Column(bucket, TransferMs))
    IN  [requestCount |-> Len(bucket),
         totalBytes |-> bytes,
         averageBytes |-> Rounded(bytes, Len(bucket)),
         throughputBytesPerSec |-> IF ms > 0 /\ bytes > 0 THEN Rounded(1000 * bytes, ms) ELSE Unknown]

profileBandwidth(entries) ==
    [endpoints |-> [key \in Endpoints(entries) |-> profileEndpoint(Of(entries, key))],
     totalBytes |-> Total(Column(entries, KnownBytes)),
     totalRequests |-> Len(entries),
     measuredRequests |-> Len(SizesOf(entries))]
===============================================================================
