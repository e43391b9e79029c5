----------------------------- MODULE MCMockBridge ------------------------------
(* A fetch and two XMLHttpRequests, on one object or on two, with rule sets that *)
(* mock, delay, rewrite and play a sequence.                                     *)
EXTENDS MockBridge, TLC

CONSTANTS f1, x1, x2, o1, o2

MCMethods == {"GET", "get", "POST"}
MCUpper == [m \in MCMethods |-> IF m = "get" THEN "GET" ELSE m]

Call(transport, method, url, xhr, responseType) ==
    [transport |-> transport, method |-> method, url |-> url, xhr |-> xhr,
     responseType |-> responseType, body |-> "own"]

MCPages ==
    { (f1 :> Call("fetch", "GET", {"a"}, o1, ""))
      @@ (x1 :> Call("xhr", "GET", {"a"}, o1, ""))
      @@ (x2 :> other) :
        other \in {Call("xhr", "POST", {"a", "b"}, o1, "text"),
                   Call("xhr", "POST", {"a", "b"}, o2, "json")} }

Rule(id, type, priority, method, url, body, status, delayMs) ==
    [id |-> id, type |-> type, priority |-> priority, createdAt |-> 0, enabled |-> TRUE,
     method |-> method, url |-> url,
     payload |-> [body |-> body, status |-> status, delayMs |-> delayMs]]

Filled(text) == [text |-> text, tokens |-> {"url", "name"}]
Row(value, createdAt, scope) ==
    [name |-> "name", value |-> value, enabled |-> TRUE, scope |-> scope, createdAt |-> createdAt]

Nothing == [rules |-> <<>>, envVars |-> <<>>, mocks |-> <<>>]

(* A malformed mock-response hides a sound one from POST; GET gets a status that *)
(* may have no body.                                                             *)
Mocking ==
    [rules |-> <<Rule("late", "mock-response", 1, "any", {"a"}, Filled("mock"), 0, 0),
                 Rule("bad", "mock-response", 0, "POST", {"b"}, NoTemplate, 0, 0),
                 Rule("status", "mock-status", 2, "GET", {"a"}, NoTemplate, 204, 0),
                 Rule("wait", "delay", 3, "get", {}, NoTemplate, 0, 1)>>,
     envVars |-> <<Row("young", 2, {"a"}), Row("old", 1, {})>>,
     mocks |-> <<>>]

(* The sound one alone: a fetch is answered too.                                 *)
Answering ==
    [rules |-> <<Rule("late", "mock-response", 0, "GET", {"a"}, Filled("mock"), 0, 0)>>,
     envVars |-> <<Row("here", 1, {"a"})>>,
     mocks |-> <<>>]

Rewriting ==
    [rules |-> <<Rule("in", "rewrite-response", 0, "any", {}, Filled("rewritten"), 0, 0),
                 Rule("out", "rewrite-request-body", 0, "any", {}, Filled("sent"), 0, 0),
                 Rule("wait", "delay", 0, "POST", {}, NoTemplate, 0, 1)>>,
     envVars |-> <<Row("here", 1, {"b"})>>,
     mocks |-> <<>>]

Sequence ==
    [rules |-> <<Rule("wait", "delay", 0, "GET", {}, NoTemplate, 0, 1)>>,
     envVars |-> <<>>,
     mocks |-> <<[id |-> "m", enabled |-> TRUE, url |-> {"a"}, method |-> AnyMethod,
                  branches |-> <<[status |-> 201, body |-> "first"],
                                 [status |-> 503, body |-> "then"]>>]>>]

MCConfigs == {Nothing, Mocking, Answering, Rewriting, Sequence}

MCResponses ==
    {[status |-> 200, body |-> Plain("real"), opaque |-> FALSE],
     [status |-> 200, body |-> Plain("real and long"), opaque |-> FALSE],
     [status |-> 204, body |-> Empty, opaque |-> FALSE],
     [status |-> 0, body |-> Plain("hidden"), opaque |-> TRUE]}

MCTooLong == {"real and long"}
===============================================================================
