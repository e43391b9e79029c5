----------------------------- MODULE MCRuleEngine ------------------------------
(* Two rules of every shape, three samples of every JSON type (arrays with one   *)
(* item more than are looked at among them), six requests of which some fail or  *)
(* are slow, two sessions, and texts of four lines.                              *)
EXTENDS RuleEngineChecks

MCMethods == {"GET", "get", "POST"}
MCUpper == [m \in MCMethods |-> IF m = "get" THEN "GET" ELSE m]

MCRules ==
    [id : {0}, enabled : {TRUE}, priority : {0, 1}, createdAt : {0, 1},
     type : {"block", "delay"}, method : {"any", "GET", "POST"},
     url : SUBSET {"a", "b"}]
    \cup [id : {0}, enabled : {FALSE}, priority : {0}, createdAt : {0}, type : {"block"},
          method : {"any"}, url : {{}}]

A == Text(1, NoFormat, -6)
B == Text(10, "date", -7)
Record(a) == Object([k \in {"a"} |-> a])

MCSamples ==
    {NotJson, Null, Bool(TRUE), Number(10), Number(15), A, B,
     Array(<<>>), Array(<<Number(10)>>), Array(<<A, Number(15)>>),
     Array(<<Record(A), Object(AnySchema)>>),
     Array(<<Number(10), Number(10), A>>), Record(Array(<<A, B, Null>>)),
     Object(AnySchema), Record(Number(10)), Record(A),
     Object([k \in {"a", "b"} |-> IF k = "a" THEN Null ELSE Record(Array(<<>>))]),
     Object([k \in {"b"} |-> Record(Array(<<A>>))])}

Entry(method, url, status, duration, waiting, download, bytes) ==
    [id |-> 0, method |-> method, url |-> url, status |-> status, durationMs |-> duration,
     waitingMs |-> waiting, downloadMs |-> download, bytes |-> bytes]

MCEntries ==
    {Entry("GET", "u", 200, 100, 80, 20, 100),
     Entry("get", "u", 500, 1200, 200, 1000, 3000),
     Entry("GET", "u", 200, 300, Unknown, Unknown, 0),
     Entry("GET", "u", 404, 310, 155, 155, 2000),
     Entry("GET", "v", Unknown, Unknown, Unknown, Unknown, 0)}

MCObserved ==
    [method : {"GET", "get"}, url : {"u"}, status : {200, 503}, body : {NoBody, Record(A)}]
    \cup [method : {"GET"}, url : {"v"}, status : {200, Unknown},
          body : {NotJson, Object(AnySchema)}]

MCLines == {"x", "y", "z"}

MCShape ==
    [field \in {"id", "name", "type", "groupId", "createdAt", "urlContains", "method", "value",
                "scopeUrlContains"} |-> "string"]
    @@ [field \in {"enabled"} |-> "boolean"] @@ [field \in {"priority"} |-> "number"]
    @@ [field \in {"condition", "payload"} |-> "object"] @@ [field \in {"branches"} |-> "array"]
===============================================================================
