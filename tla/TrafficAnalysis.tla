---------------------------- MODULE TrafficAnalysis ----------------------------
(* The regressions that the rule engine package finds in captured traffic        *)
(* against a baseline, besides the reports of TrafficReports.  NoBody stands for *)
(* a body that was not seen.                                                     *)
EXTENDS TrafficReports, JsonContracts

(* The last entry of each endpoint.                                              *)
indexByEndpoint(entries) ==
    [key \in Endpoints(entries) |-> LET seen == Of(entries, key) IN seen[Len(seen)]]

statusClass(status) ==
    IF status = Unknown THEN "pending"
    ELSE IF status >= 500 THEN "5xx"
    ELSE IF status >= 400 THEN "4xx"
    ELSE IF status >= 300 THEN "3xx"
    ELSE IF status >= 200 THEN "2xx" ELSE "1xx"

(* Faulty: only a status that turned into an error is reported.                  *)
StatusFindingsOfErrors(base, curr, key) ==
    IF statusClass(base.status) = "2xx" /\ statusClass(curr.status) \in {"4xx", "5xx"}
    THEN {Finding("status-change", "error", key)} ELSE {}

StatusFindings(base, curr, key) ==
    LET broke == statusClass(base.status) = "2xx" /\ statusClass(curr.status) \in {"4xx", "5xx"}
    IN  IF base.status = curr.status THEN {}
        ELSE {Finding("status-change", IF broke THEN "error" ELSE "warning", key)}

ContractFindings(base, curr, key) ==
    LET diffs == IF base.body.t = "no body" \/ curr.body.t = "no body" THEN {}
                 ELSE compareContractStrings(base.body, curr.body)
        breaking == diffs \cap {"missing-key", "type-change"} # {}
    IN  IF diffs = {} THEN {}
        ELSE {Finding("contract-change", IF breaking THEN "error" ELSE "info", key)}

detectRegressions(baseline, current) ==
    LET base == indexByEndpoint(baseline)
        curr == indexByEndpoint(current)
        compared == DOMAIN base \cap DOMAIN curr
    IN  [findings |->
            { Finding("missing-endpoint", "warning", key) : key \in DOMAIN base \ DOMAIN curr }
            \cup { Finding("new-endpoint", "info", key) : key \in DOMAIN curr \ DOMAIN base }
            \cup UNION { StatusFindings(base[key], curr[key], key)
                         \cup ContractFindings(base[key], curr[key], key) : key \in compared },
         comparedEndpoints |-> Cardinality(compared)]
===============================================================================
