--------------------------- MODULE RuleEngineInputs ----------------------------
(* What the pure functions of the rule engine package may be asked about: every  *)
(* input that can be built in a few steps, a list of rules, the samples of a     *)
(* body, captured traffic, a baseline with a session, two texts; and the guards  *)
(* of the values the extension stores, asked about a value of which fields were  *)
(* changed.  The state is the input so far (left, and right where there are two) *)
(* and each step adds one element.                                               *)
(*                                                                               *)
(* The properties of rules, traffic, texts and guards are stated here, those of  *)
(* JSON bodies and of sessions in RuleEngineChecks.                              *)
EXTENDS TrafficReports, TextDiff, StoredShapes, SequencesExt

CONSTANTS
    Rules,       \* rules without their id, which is their place in the list
    Samples,     \* JSON values seen as the body of one endpoint, or NotJson
    Entries,     \* captured requests, without their id
    Observed,    \* captured requests with bodies, for a baseline and a session
    Lines,       \* lines of a text
    Shape,       \* the types of the fields of a sound stored value
    MaxRules, MaxSamples, MaxEntries, MaxObserved, MaxLines, MaxChanges

(* A rule's method is an HttpMethod of the shared types, in upper case.          *)
ASSUME RulesAssumption ==
    /\ Methods # {}
    /\ \A r \in Rules :
          /\ DOMAIN r = {"id", "enabled", "priority", "createdAt", "type", "method", "url"}
          /\ r.priority \in Int /\ r.createdAt \in Int
          /\ r.method # AnyMethod => r.method \in Methods /\ Upper[r.method] = r.method

ASSUME EntriesAssumption ==
    \A e \in Entries :
        /\ DOMAIN e = {"id", "method", "url", "status", "durationMs", "waitingMs", "downloadMs", "bytes"}
        /\ e.durationMs \in Int /\ e.bytes \in Int

VARIABLES topic, left, right
inputVars == <<topic, left, right>>

InputInit ==
    /\ topic \in {"rules", "samples", "traffic", "sessions", "texts", "stored values"}
    /\ left = <<>>
    /\ right = <<>>

Extend(elements, limit) ==
    /\ Len(left) < limit
    /\ \E e \in elements : left' = Append(left, e)
    /\ UNCHANGED <<topic, right>>

ExtendRight(elements, limit) ==
    /\ Len(right) < limit
    /\ \E e \in elements : right' = Append(right, e)
    /\ UNCHANGED <<topic, left>>

(* The id of a rule or of an entry is the place at which it was added.           *)
Numbered(elements) == { [e EXCEPT !.id = Len(left) + 1] : e \in elements }

AddRule == topic = "rules" /\ Extend(Numbered(Rules), MaxRules)
ObserveSample == topic = "samples" /\ Extend(Samples, MaxSamples)
Capture == topic = "traffic" /\ Extend(Numbered(Entries), MaxEntries)
ObserveBaseline == topic = "sessions" /\ Extend(Observed, MaxObserved)
ObserveSession == topic = "sessions" /\ ExtendRight(Observed, MaxObserved)
TypeLeft == topic = "texts" /\ Extend(Lines, MaxLines)
TypeRight == topic = "texts" /\ ExtendRight(Lines, MaxLines)
ChangeField ==
    topic = "stored values"
        /\ Extend([field : DOMAIN Shape, type : Types], MaxChanges)

InputNext ==
    \/ AddRule
    \/ ObserveSample
    \/ Capture
    \/ ObserveBaseline \/ ObserveSession
    \/ TypeLeft \/ TypeRight
    \/ ChangeField

InputSpec == InputInit /\ [][InputNext]_inputVars

-------------------------------------------------------------------------------
(* Rule t always comes before rule r: whatever request r matches, t matches too  *)
(* and is evaluated first.                                                       *)
Requests == [method : Methods, url : { r.url : r \in Rules }]

AlwaysBefore(t, r, rules) ==
    \A q \in Requests :
        LET matched == evaluateRules(rules, q)
        IN  \A j \in DOMAIN matched : matched[j] = r => \E i \in 1..(j - 1) : matched[i] = t

(* A rule that a block or a redirect always precedes can never take effect.  The *)
(* conflict detector, which looks at pairs of conditions and priorities and      *)
(* never evaluates a request, reports the two rules together.                    *)
ShadowedRulesAreReported ==
    topic = "rules" =>
        \A t, r \in RangeOf(left) :
            /\ t # r /\ t.enabled /\ r.enabled
            /\ t.type \in TerminalTypes
            /\ AlwaysBefore(t, r, left)
            => \E c \in detectConflicts(left).conflicts : RangeOf(c.ruleIds) = {t.id, r.id}

EndpointsOf(findings, kind) == { f.endpoint : f \in { g \in findings : g.kind = kind } }

(* The reports on one capture agree with each other and with it: no request and  *)
(* no byte is lost between the endpoints, nine requests in ten are at most the   *)
(* 90th percentile and fewer are below it, if any request is a bottleneck the    *)
(* slowest one is, and at least half of an endpoint's times lie nearer to the    *)
(* median than its outlier does.                                                 *)
TrafficReportsAddUp ==
    topic = "traffic" =>
        LET bandwidth == profileBandwidth(left)
            report == detectBottlenecks(left)
            p90 == report.stats.p90DurationMs
            n == report.stats.count
            below(d) == Cardinality({ i \in DOMAIN left : left[i].durationMs \in 0..d })
            parts == SetToSeq(DOMAIN bandwidth.endpoints)
        IN  /\ Total([i \in DOMAIN parts |-> bandwidth.endpoints[parts[i]].requestCount]) = Len(left)
            /\ Total([i \in DOMAIN parts |-> bandwidth.endpoints[parts[i]].totalBytes])
                    = bandwidth.totalBytes
            /\ n > 0 => 10 * below(p90) >= 9 * n /\ 10 * below(p90 - 1) < 9 * n
            /\ report.findings # {} =>
                    report.stats.slowest \subseteq { f.id : f \in report.findings }
            /\ \A key \in EndpointsOf(detectAnomalies(left), "latency-outlier") :
                  LET ms == DurationsOf(Of(left, key))
                      nearer == { i \in DOMAIN ms : Deviation(ms, ms[i]) < Deviation(ms, Farthest(ms)) }
                  IN  2 * Cardinality(nearer) >= Len(ms)

(* A latency outlier is a request much slower than its endpoint's typical time,  *)
(* as the header of the anomaly detector says.                                   *)
SpikesAreSlow ==
    topic = "traffic" =>
        \A key \in EndpointsOf(detectAnomalies(left), "latency-outlier") :
            LET durations == DurationsOf(Of(left, key))
            IN  2 * Farthest(durations) > TwiceMedian(durations)

(* Of the line numbers in a column, 0 where it has none, each occurs once, and   *)
(* they come in their order.                                                     *)
EachLineOnce(numbers, n) ==
    /\ { numbers[i] : i \in DOMAIN numbers } \ {0} = 1..n
    /\ \A i, j \in DOMAIN numbers :
          i < j /\ numbers[i] > 0 /\ numbers[j] > 0 => numbers[i] < numbers[j]

(* The rows of a diff show every line of both texts once and in order, pair only *)
(* equal lines, and report a change exactly when the texts differ.               *)
DiffRebuildsBothTexts ==
    topic = "texts" =>
        LET diff == diffText(left, right)
        IN  /\ EachLineOnce([i \in DOMAIN diff.rows |-> diff.rows[i].left], Len(left))
            /\ EachLineOnce([i \in DOMAIN diff.rows |-> diff.rows[i].right], Len(right))
            /\ \A r \in RangeOf(diff.rows) :
                    r.status = "equal" => left[r.left] = right[r.right]
            /\ diff.hasChanges <=> left # right

(* What the side panel lists, the rest of the extension applies: a rule that its *)
(* guard accepts passes the guards of the background worker and of the content   *)
(* script, so does a sequence mock, and of groups and variables each side        *)
(* accepts what the other does.                                                  *)
ListedValuesAreApplied ==
    topic = "stored values" =>
        LET change(f) == { i \in DOMAIN left : left[i].field = f }
            last(f) == CHOOSE i \in change(f) : \A j \in change(f) : j <= i
            value == [f \in DOMAIN Shape |-> IF change(f) = {} THEN Shape[f] ELSE left[last(f)].type]
        IN  /\ Accepts(isStoredRule, value) => Accepts(isRule, value) /\ Accepts(isContentRule, value)
            /\ Accepts(isStoredConditionalMock, value) => Accepts(isContentConditionalMock, value)
            /\ Accepts(isStoredRuleGroup, value) <=> Accepts(isRuleGroup, value)
            /\ Accepts(isStoredMockEnvVar, value) <=> Accepts(isContentMockEnvVar, value)
===============================================================================
