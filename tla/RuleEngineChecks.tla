--------------------------- MODULE RuleEngineChecks ----------------------------
(* What the rule engine package says of JSON bodies, alone and in sessions that  *)
(* are compared, asked about every input of RuleEngineInputs.                    *)
EXTENDS RuleEngineInputs, TrafficAnalysis

(* What the inference looks at of a value: of every array the first              *)
(* MaxArraySample items.                                                         *)
RECURSIVE LookedAt(_)
LookedAt(value) ==
    CASE value.t = "array" ->
            LET looked == { i \in DOMAIN value.items : i <= MaxArraySample }
            IN  Array([i \in looked |-> LookedAt(value.items[i])])
      [] value.t = "object" -> Object([k \in Keys(value) |-> LookedAt(value.props[k])])
      [] OTHER -> value

(* The schema inferred from the bodies an endpoint has answered with, saved as   *)
(* an assertion, passes on every one of them, as far as the inference looked at  *)
(* its arrays: widening by mergeSchemas never loses a value it has already seen. *)
InferredSchemaAcceptsSamples ==
    topic = "samples" =>
        LET schema == inferSchemaFromSamples(left)
            assertion == [type |-> "json-schema", enabled |-> TRUE, expected |-> schema]
        IN  \A i \in DOMAIN left :
                left[i].t # "not JSON" =>
                    evaluateAssertions(<<assertion>>, [body |-> LookedAt(left[i])]) = <<TRUE>>

(* The same without the limit: the items schema is inferred "from all observed   *)
(* array elements", says the inference.                                          *)
InferredSchemaAcceptsWholeSamples ==
    topic = "samples" =>
        LET schema == inferSchemaFromSamples(left)
            assertion == [type |-> "json-schema", enabled |-> TRUE, expected |-> schema]
        IN  \A i \in DOMAIN left :
                left[i].t # "not JSON" =>
                    evaluateAssertions(<<assertion>>, [body |-> left[i]]) = <<TRUE>>

(* A body that differs from another in nothing breaking has every path of the    *)
(* other, with a value of the same type: assertions written on the one still     *)
(* have something to look at in the other.  Arrays are compared and followed at  *)
(* their first item only.                                                        *)
Steps == {[key |-> k, index |-> -1] : k \in {"a", "b"}} \cup {[key |-> "0", index |-> 0]}
Paths == UNION { [1..n -> Steps] : n \in 0..3 }

CompatibleBodiesKeepPaths ==
    topic = "samples" =>
        \A i, j \in DOMAIN left :
            compareContractStrings(left[i], left[j])
                    \cap {"missing-key", "type-change", "null-change"} = {}
            => \A p \in Paths :
                  LET before == resolveJsonPath(left[i], p)
                  IN  before.t # "no body" => resolveJsonPath(left[j], p).t = before.t

(* Comparing a session with its baseline and the baseline with the session tell  *)
(* the same story from both ends: what is missing one way is new the other way,  *)
(* a status that changed has changed both ways, and traffic with JSON bodies     *)
(* that is compared with itself has not regressed.                               *)
RegressionsMirror ==
    topic = "sessions" =>
        LET there == detectRegressions(left, right).findings
            back == detectRegressions(right, left).findings
        IN  /\ EndpointsOf(there, "missing-endpoint") = EndpointsOf(back, "new-endpoint")
            /\ EndpointsOf(there, "status-change") = EndpointsOf(back, "status-change")
            /\ (\A i \in DOMAIN left : left[i].body.t # "not JSON")
                  => detectRegressions(left, left).findings = {}

(* A contract change is structural drift of a body, says the regression          *)
(* detector: a session compared with itself has none.                            *)
UnchangedTrafficHasNotDrifted ==
    topic = "sessions" =>
        EndpointsOf(detectRegressions(left, left).findings, "contract-change") = {}
===============================================================================
