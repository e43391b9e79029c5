------------------------------- MODULE MockBridge ------------------------------
(* The bridge the legacy extension puts into a page: it replaces fetch and       *)
(* XMLHttpRequest, answers calls from mock rules and from sequence mocks, delays *)
(* them, rewrites the bodies that go out and come in, and posts to the content   *)
(* script what it answered (MOCK_APPLIED) and what the network answered          *)
(* (RESPONSE_BODY_CAPTURED).                                                     *)
(*                                                                               *)
(* JavaScript runs one task at a time, so an action is what happens between two  *)
(* awaits, timers or events.  A rule's payload is [body, status, delayMs]: body  *)
(* a template [text, tokens] or NoTemplate, status and delayMs 0 when absent.    *)
(* A body the page reads is [text, values], values naming what each token became.*)
EXTENDS RuleEngine, SequencesExt

CONSTANTS
    Calls,        \* the calls the page makes, each once
    Pages,        \* the pages there are: a page is its calls, from each one to
                  \* its [transport, method, url, xhr, responseType, body]
    Configs,      \* what a RULES_UPDATE may bring: [rules, envVars, mocks]
    NoRules,      \* the one of them the bridge starts with
    Responses,    \* what the network may answer: [status, body, opaque]
    TooLong,      \* the texts of more than MAX_CAPTURED_BODY_CHARS characters
    MaxUpdates    \* how many RULES_UPDATE messages arrive

IsSequence(s) == s \in Seq(RangeOf(s))

ASSUME BridgeAssumption ==
    /\ \A p \in Pages, c \in Calls : p[c].transport \in {"fetch", "xhr"}
    /\ NoRules \in Configs
    /\ \A k \in Configs :
          /\ IsSequence(k.rules) /\ IsSequence(k.mocks)
          /\ \A r \in RangeOf(k.rules) : r.priority \in Int /\ r.createdAt \in Int
          /\ \A m \in RangeOf(k.mocks) : IsSequence(m.branches)
    /\ MaxUpdates \in Nat

NoTemplate == [text |-> "none", tokens |-> {}]
Plain(text) == [text |-> text, values |-> [k \in {} |-> ""]]
Empty == Plain("")

MockIds == { m.id : m \in UNION { RangeOf(k.mocks) : k \in Configs } }

VARIABLES
    callOf,      \* the page: its calls
    config,      \* rules, envVars and conditionalMocks of the bridge
    counts,      \* conditionalMockState
    updates,     \* RULES_UPDATE messages so far
    calls,       \* a call's [pc, plan, sent, reply]
    shadow,      \* the result properties defined on each XMLHttpRequest object
    listeners,   \* the calls whose load listener each object carries
    posted,      \* the messages posted to the content script, oldest first
    order        \* the calls a sequence mock answers, in the order they began

vars == <<callOf, config, counts, updates, calls, shadow, listeners, posted, order>>

Fetches == { c \in Calls : callOf[c].transport = "fetch" }
Xhrs == Calls \ Fetches
Objects == { callOf[c].xhr : c \in Xhrs }

-------------------------------------------------------------------------------
(* What the rules say about a call.  The rules, sorted and filtered, are those   *)
(* of evaluateRules; the first of a type decides, whether or not its payload is  *)
(* well formed.                                                                  *)

Matched(k, request) == evaluateRules(k.rules, request)

NoRule == [payload |-> [body |-> NoTemplate, status |-> 0, delayMs |-> 0]]

FirstIn(rules, type) ==
    LET p == SelectInSeq(rules, LAMBDA r : r.type = type)
    IN  IF p = 0 THEN NoRule ELSE rules[p]

(* Faulty: the rules are taken in the order of the list.                         *)
FirstOfTypeUnsorted(k, request, type) ==
    FirstIn(SelectSeq(k.rules, LAMBDA r : r.enabled /\ matchesCondition(r, request)), type)

FirstOfType(k, request, type) == FirstIn(Matched(k, request), type)

resolveDelayMs(k, request) == FirstOfType(k, request, "delay").payload.delayMs

(* A mock is [status, body]; NoMock is null.                                     *)
NoMock == [status |-> 0, body |-> NoTemplate]

findMockMatch(k, request) ==
    LET response == FirstOfType(k, request, "mock-response").payload
        status == FirstOfType(k, request, "mock-status").payload.status
    IN  IF response.body = NoTemplate /\ status = 0 THEN NoMock
        ELSE [status |-> CASE status # 0 -> status
                           [] status = 0 /\ response.body # NoTemplate /\ response.status # 0
                                -> response.status
                           [] OTHER -> 200,
              body |-> IF response.body = NoTemplate THEN [text |-> "", tokens |-> {}]
                       ELSE response.body]

findRequestBodyRewrite(k, request) ==
    LET body == FirstOfType(k, request, "rewrite-request-body").payload.body
    IN  IF body = NoTemplate THEN request.body ELSE body.text

(* NoTemplate when the response is not rewritten.                                *)
findRewriteResponseRule(k, request) ==
    FirstOfType(k, request, "rewrite-response").payload.body

-------------------------------------------------------------------------------
(* Variables in a body.                                                          *)

(* The row that names a variable for a URL: of those enabled and in scope, the   *)
(* youngest, and among rows of one age the last in the list.                     *)
resolveScopedEnvVars(k, request) ==
    LET rows == k.envVars
        scoped == { i \in DOMAIN rows : rows[i].enabled /\ Includes(request.url, rows[i].scope) }
        younger(i, j) == \/ rows[i].createdAt > rows[j].createdAt
                         \/ rows[i].createdAt = rows[j].createdAt /\ i > j
        last(name) == CHOOSE i \in scoped : /\ rows[i].name = name
                                            /\ \A j \in scoped \ {i} :
                                                  rows[j].name = name => younger(i, j)
    IN  [name \in { rows[i].name : i \in scoped } |-> rows[last(name)].value]

(* A name of the environment hides the built-in of the same name.                *)
BuiltIns == {"timestamp", "uuid", "method", "url"}

applyDynamicVariables(template, env) ==
    [text |-> template.text,
     values |-> [token \in template.tokens |->
                    IF token \in DOMAIN env THEN env[token]
                    ELSE IF token \in BuiltIns THEN "built in" ELSE "as written"]]

-------------------------------------------------------------------------------
(* Sequence mocks: the first mock that applies answers, with its nth branch on   *)
(* the nth call and its last branch ever after.                                  *)

Applies(mock, request) ==
    /\ mock.enabled /\ mock.branches # <<>>
    /\ Includes(request.url, mock.url)
    /\ mock.method # AnyMethod => Upper[mock.method] = Upper[request.method]

AsRule(mock) ==
    [id |-> mock.id, enabled |-> TRUE,
     branches |-> [n \in DOMAIN mock.branches |->
                      [condition |-> [kind |-> "sequence", nth |-> n], payload |-> mock.branches[n]]],
     fallback |-> mock.branches[Len(mock.branches)]]

Applying(k, request) == { i \in DOMAIN k.mocks : Applies(k.mocks[i], request) }

NotMocked == [mocked |-> FALSE, id |-> "", payload |-> NoPayload, counts |-> counts]

(* Faulty: the advanced counts are dropped.                                      *)
resolveConditionalMockForgetful(k, request) ==
    LET applying == Applying(k, request)
        mock == k.mocks[CHOOSE i \in applying : \A j \in applying : i <= j]
        result == evaluateConditionalMock(AsRule(mock), request, counts)
    IN  IF applying = {} THEN NotMocked
        ELSE [mocked |-> TRUE, id |-> mock.id, payload |-> result.payload, counts |-> counts]

resolveConditionalMock(k, request) ==
    LET applying == Applying(k, request)
        mock == k.mocks[CHOOSE i \in applying : \A j \in applying : i <= j]
        result == evaluateConditionalMock(AsRule(mock), request, counts)
    IN  IF applying = {} THEN NotMocked
        ELSE [mocked |-> TRUE, id |-> mock.id, payload |-> result.payload,
              counts |-> result.counts]

-------------------------------------------------------------------------------
(* A plan is what a call has decided so far: its source is a sequence mock, a    *)
(* mock, a rewrite of the response, the network, or still open (fetch looks for  *)
(* a rewrite only after the delay).  rules is the configuration at the start.    *)
Plan(source, status, body, out) ==
    [source |-> source, status |-> status, body |-> body, out |-> out, rules |-> config]

NoReply == [status |-> -1, body |-> Empty]
Rejected == [status |-> 0, body |-> Empty]

Init ==
    /\ callOf \in Pages
    /\ config = NoRules
    /\ counts = createMockState(MockIds)
    /\ updates = 0
    /\ calls = [c \in Calls |-> [pc |-> "idle", plan |-> Plan("open", 0, Empty, ""),
                                 sent |-> <<>>, reply |-> NoReply]]
    /\ shadow = [o \in Objects |-> NoReply]
    /\ listeners = [o \in Objects |-> <<>>]
    /\ posted = <<>>
    /\ order = <<>>

MockApplied(c, status, body) ==
    [type |-> "MOCK_APPLIED", call |-> c, status |-> status, body |-> body]

(* Of a body that is too long a message carries the beginning, marked as such.   *)
Beginning(body) == [beginning |-> body]

trimmed(body) == IF body.text \in TooLong THEN Beginning(body) ELSE body

BodyCaptured(c, reply) ==
    [type |-> "RESPONSE_BODY_CAPTURED", call |-> c, status |-> reply.status,
     body |-> trimmed(reply.body)]

(* The calls whose listeners post what the object of c loads: all that are left  *)
(* on it, when the object shows a response as text.                              *)
Heard(c) == IF c \in Xhrs /\ callOf[c].responseType \in {"", "text"}
            THEN listeners[callOf[c].xhr] ELSE <<>>

(* Each of the calls that hear of a reply posts it; an empty body is not worth a *)
(* message.                                                                      *)
Captures(heard, reply) ==
    IF reply.body = Empty THEN <<>> ELSE [i \in DOMAIN heard |-> BodyCaptured(heard[i], reply)]

(* new Response(..) throws for a status that may have no body and for one that   *)
(* is out of range; the page's promise is rejected then.                         *)
Constructible(status) == status \in 200..599 /\ status \notin {204, 205, 304}

Respond(status, body) ==
    IF Constructible(status) THEN [status |-> status, body |-> body] ELSE Rejected

Settle(c, plan, reply) ==
    calls' = [calls EXCEPT ![c] = [pc |-> "settled", plan |-> plan, sent |-> @.sent,
                                   reply |-> reply]]

Transmit(c, plan) ==
    calls' = [calls EXCEPT ![c] = [pc |-> "network", plan |-> plan,
                                   sent |-> Append(@.sent, plan.out), reply |-> @.reply]]

-------------------------------------------------------------------------------
(* fetch.                                                                        *)

(* Faulty: the report is made before the variables of the body are filled in.    *)
AnswerFetchReportedEarly(c, plan) ==
    LET body == IF plan.source = "conditional" THEN plan.body
                ELSE applyDynamicVariables(plan.body, resolveScopedEnvVars(config, callOf[c]))
    IN  /\ posted' = Append(posted, MockApplied(c, plan.status, Plain(body.text)))
        /\ Settle(c, plan, Respond(plan.status, body))

(* The variables of a mocked body are read when the call answers, after a delay. *)
AnswerFetch(c, plan) ==
    LET body == IF plan.source = "conditional" THEN plan.body
                ELSE applyDynamicVariables(plan.body, resolveScopedEnvVars(config, callOf[c]))
    IN  /\ posted' = Append(posted, MockApplied(c, plan.status, body))
        /\ Settle(c, plan, Respond(plan.status, body))

(* The rewrite of the response is looked up in the rules of this moment.         *)
CallThrough(c, plan) ==
    LET rewrite == findRewriteResponseRule(config, callOf[c])
        source == IF rewrite = NoTemplate THEN "real" ELSE "rewrite"
    IN  /\ Transmit(c, [plan EXCEPT !.source = source, !.body = rewrite])
        /\ UNCHANGED posted

ContinueFetch(c, plan) ==
    /\ IF plan.source = "open" THEN CallThrough(c, plan) ELSE AnswerFetch(c, plan)
    /\ UNCHANGED <<shadow, listeners>>

PlanFetch(c, conditional) ==
    LET mock == findMockMatch(config, callOf[c])
        out == findRequestBodyRewrite(config, callOf[c])
    IN  IF conditional.mocked
        THEN Plan("conditional", conditional.payload.status, Plain(conditional.payload.body), out)
        ELSE IF mock # NoMock THEN Plan("mock", mock.status, mock.body, out)
        ELSE Plan("open", 0, NoTemplate, out)

-------------------------------------------------------------------------------
(* XMLHttpRequest.                                                               *)

(* What an object shows: the properties once defined on it hide every later      *)
(* response.                                                                     *)
Shown(o, reply) == IF shadow[o] = NoReply THEN reply ELSE shadow[o]

(* Every load listener left on the object posts what the object shows, for the   *)
(* call that added it.                                                           *)
deliverMockedXhr(c, plan, reply) ==
    LET o == callOf[c].xhr
    IN  /\ shadow' = [shadow EXCEPT ![o] = reply]
        /\ posted' = posted \o Captures(Heard(c), reply)
                        \o <<MockApplied(c, reply.status, reply.body)>>
        /\ Settle(c, plan, reply)
        /\ UNCHANGED listeners

sendReal(c, plan) ==
    /\ listeners' = [listeners EXCEPT ![callOf[c].xhr] = Append(@, c)]
    /\ Transmit(c, [plan EXCEPT !.source = "real"])
    /\ UNCHANGED <<shadow, posted>>

(* Faulty: the load listener is added for a rewrite as well.                     *)
ContinueXhrListening(c, plan) ==
    CASE plan.source = "real" -> sendReal(c, plan)
      [] plan.source = "rewrite" ->
            /\ listeners' = [listeners EXCEPT ![callOf[c].xhr] = Append(@, c)]
            /\ Transmit(c, plan)
            /\ UNCHANGED <<shadow, posted>>
      [] OTHER -> deliverMockedXhr(c, plan, [status |-> plan.status, body |-> plan.body])

ContinueXhr(c, plan) ==
    CASE plan.source = "real" -> sendReal(c, plan)
      [] plan.source = "rewrite" ->
            Transmit(c, plan) /\ UNCHANGED <<shadow, listeners, posted>>
      [] OTHER -> deliverMockedXhr(c, plan, [status |-> plan.status, body |-> plan.body])

(* Everything is decided before the delay, the variables of a mock included.     *)
PlanXhr(c, conditional) ==
    LET mock == findMockMatch(config, callOf[c])
        rewrite == findRewriteResponseRule(config, callOf[c])
        out == findRequestBodyRewrite(config, callOf[c])
    IN  IF conditional.mocked
        THEN Plan("conditional", conditional.payload.status, Plain(conditional.payload.body), out)
        ELSE IF mock # NoMock
        THEN Plan("mock", mock.status,
                  applyDynamicVariables(mock.body, resolveScopedEnvVars(config, callOf[c])), out)
        ELSE IF rewrite # NoTemplate THEN Plan("rewrite", 0, rewrite, out)
        ELSE Plan("real", 0, NoTemplate, out)

-------------------------------------------------------------------------------
(* The page's calls and their timers.                                            *)

Continue(c, plan) == IF c \in Fetches THEN ContinueFetch(c, plan) ELSE ContinueXhr(c, plan)

(* An object is sent again only when its last call is over: the bridge does not  *)
(* see to that, the page does.                                                   *)
Free(c) == \A d \in Xhrs : c \in Xhrs /\ callOf[d].xhr = callOf[c].xhr
                              => calls[d].pc \in {"idle", "settled"}

Begin(c) ==
    LET conditional == resolveConditionalMock(config, callOf[c])
        plan == IF c \in Fetches THEN PlanFetch(c, conditional) ELSE PlanXhr(c, conditional)
    IN  /\ calls[c].pc = "idle"
        /\ Free(c)
        /\ counts' = conditional.counts
        /\ order' = IF conditional.mocked
                    THEN Append(order, [call |-> c, mock |-> conditional.id]) ELSE order
        /\ IF resolveDelayMs(config, callOf[c]) = 0 THEN Continue(c, plan)
           ELSE /\ calls' = [calls EXCEPT ![c] = [pc |-> "delayed", plan |-> plan,
                                                  sent |-> @.sent, reply |-> @.reply]]
                /\ UNCHANGED <<shadow, listeners, posted>>
        /\ UNCHANGED <<callOf, config, updates>>

Wake(c) ==
    /\ calls[c].pc = "delayed"
    /\ Continue(c, calls[c].plan)
    /\ UNCHANGED <<callOf, config, counts, updates, order>>

-------------------------------------------------------------------------------
(* The network's answers.                                                        *)

Unchanged == UNCHANGED <<callOf, config, counts, updates, order>>

(* A rewritten body is filled in when the response is there.                     *)
Rewritten(c) == applyDynamicVariables(calls[c].plan.body, resolveScopedEnvVars(config, callOf[c]))

FetchAnswered(c, r) ==
    LET plan == calls[c].plan
        readable == ~r.opaque /\ r.body # Empty
    IN  /\ c \in Fetches /\ calls[c].pc = "network"
        /\ IF plan.source = "rewrite"
           THEN /\ posted' = Append(posted, MockApplied(c, r.status, Rewritten(c)))
                /\ Settle(c, plan, Respond(r.status, Rewritten(c)))
           ELSE /\ calls' = [calls EXCEPT ![c] =
                                [pc |-> IF readable THEN "capturing" ELSE "settled",
                                 plan |-> plan, sent |-> @.sent,
                                 reply |-> [status |-> r.status, body |-> r.body]]]
                /\ UNCHANGED posted
        /\ UNCHANGED <<shadow, listeners>>
        /\ Unchanged

(* The copy of the response has been read.                                       *)
CaptureFetched(c) ==
    /\ calls[c].pc = "capturing"
    /\ posted' = posted \o Captures(<<c>>, calls[c].reply)
    /\ calls' = [calls EXCEPT ![c].pc = "settled"]
    /\ UNCHANGED <<shadow, listeners>>
    /\ Unchanged

XhrAnswered(c, r) ==
    LET o == callOf[c].xhr
        shown == Shown(o, [status |-> r.status, body |-> r.body])
        plan == calls[c].plan
    IN  /\ c \in Xhrs /\ calls[c].pc = "network" /\ ~r.opaque
        /\ IF plan.source = "rewrite"
           THEN deliverMockedXhr(c, plan, [status |-> r.status, body |-> Rewritten(c)])
           ELSE /\ posted' = posted \o Captures(Heard(c), shown)
                /\ Settle(c, plan, shown)
                /\ UNCHANGED <<shadow, listeners>>
        /\ Unchanged

(* Faulty: nothing follows the failure of a rewrite.                             *)
NetworkFailsSilently(c) ==
    LET plan == calls[c].plan
    IN  /\ calls[c].pc = "network"
        /\ IF c \in Xhrs /\ plan.source = "rewrite"
           THEN calls' = [calls EXCEPT ![c].pc = "lost"]
           ELSE Settle(c, plan, Rejected)
        /\ UNCHANGED <<shadow, listeners, posted>>
        /\ Unchanged

(* A failed fetch is the page's to handle; a failed rewrite of an                *)
(* XMLHttpRequest is sent again, as the request itself.                          *)
NetworkFails(c) ==
    LET plan == calls[c].plan
    IN  /\ calls[c].pc = "network"
        /\ IF c \in Xhrs /\ plan.source = "rewrite" THEN sendReal(c, plan)
           ELSE Settle(c, plan, Rejected) /\ UNCHANGED <<shadow, listeners, posted>>
        /\ Unchanged

-------------------------------------------------------------------------------
(* A RULES_UPDATE message replaces everything but the counts.                    *)
ReceiveUpdate ==
    /\ updates < MaxUpdates
    /\ updates' = updates + 1
    /\ \E k \in Configs : config' = k
    /\ UNCHANGED <<callOf, counts, calls, shadow, listeners, posted, order>>

Answered(c) == \E r \in Responses : FetchAnswered(c, r) \/ XhrAnswered(c, r)

Next ==
    \/ ReceiveUpdate
    \/ \E c \in Calls : Begin(c) \/ Wake(c) \/ CaptureFetched(c) \/ NetworkFails(c)
    \/ \E c \in Calls, r \in Responses : FetchAnswered(c, r)
    \/ \E c \in Calls, r \in Responses : XhrAnswered(c, r)

Spec == Init /\ [][Next]_vars

(* Timers fire, responses are read, and every request is answered or fails.      *)
Fairness ==
    \A c \in Calls : WF_vars(Wake(c)) /\ WF_vars(CaptureFetched(c))
                        /\ WF_vars(Answered(c) \/ NetworkFails(c))

FairSpec == Spec /\ Fairness

-------------------------------------------------------------------------------
(* The rule of a type that governs a call, without sorting: no enabled rule of   *)
(* the type that matches precedes it.                                            *)
Governing(k, request, type) ==
    LET ofType == { i \in DOMAIN k.rules : /\ k.rules[i].enabled /\ k.rules[i].type = type
                                           /\ matchesCondition(k.rules[i], request) }
        first == { i \in ofType : \A j \in ofType \ {i} : byPriorityThenCreatedAt(k.rules, i, j) }
    IN  IF first = {} THEN NoRule ELSE k.rules[CHOOSE i \in first : TRUE]

Prescribed(k, request) ==
    CASE \E m \in RangeOf(k.mocks) : Applies(m, request) -> "conditional"
      [] /\ ~\E m \in RangeOf(k.mocks) : Applies(m, request)
         /\ \/ Governing(k, request, "mock-response").payload.body # NoTemplate
            \/ Governing(k, request, "mock-status").payload.status # 0 -> "mock"
      [] OTHER -> IF Governing(k, request, "rewrite-response").payload.body # NoTemplate
                  THEN "rewrite" ELSE "real"

PrescribedBody(k, request) ==
    LET body == Governing(k, request, "rewrite-request-body").payload.body
    IN  IF body = NoTemplate THEN request.body ELSE body.text

Settled(c) == calls[c].pc = "settled"

(* A call does what the rules in force when it began say of it, whatever update  *)
(* arrives while it waits: a mocked call never reaches the network, any other    *)
(* goes out once, with the body the rules want, and a second time only when the  *)
(* rewrite of an XMLHttpRequest failed.  Left out is the delayed fetch that is   *)
(* not mocked, which takes the rewrite of the response from later rules.         *)
CallsFollowTheRulesTheyBeganWith ==
    \A c \in Calls :
        LET plan == calls[c].plan
            source == Prescribed(plan.rules, callOf[c])
            out == PrescribedBody(plan.rules, callOf[c])
            fixed == \/ c \in Xhrs \/ source \in {"conditional", "mock"}
                     \/ Governing(plan.rules, callOf[c], "delay").payload.delayMs = 0
        IN  Settled(c) /\ fixed =>
                \/ plan.source = source
                   /\ calls[c].sent = IF source \in {"conditional", "mock"} THEN <<>> ELSE <<out>>
                \/ /\ c \in Xhrs /\ source = "rewrite"
                   /\ plan.source = "real" /\ calls[c].sent = <<out, out>>

Reports(c) == { i \in DOMAIN posted : posted[i].type = "MOCK_APPLIED" /\ posted[i].call = c }

(* A call that was mocked or rewritten is reported once, with the status and the *)
(* body that the page got, and no other call is; only a fetch for which no       *)
(* Response can be constructed is rejected after its report.                     *)
ReportsTellWhatThePageGot ==
    \A c \in Calls :
        LET reports == Reports(c)
            reply == calls[c].reply
        IN  Settled(c) =>
                IF reports = {}
                THEN calls[c].plan.source = "real" \/ reply = Rejected
                ELSE \E i \in reports :
                        /\ reports = {i} /\ calls[c].plan.source # "real"
                        /\ \/ reply = [status |-> posted[i].status, body |-> posted[i].body]
                           \/ /\ c \in Fetches /\ reply = Rejected
                              /\ ~Constructible(posted[i].status)

Alone(c) == \A d \in Xhrs : callOf[d].xhr = callOf[c].xhr => d = c

(* What a message tells of a reply: its status, and its body, or of one that is  *)
(* too long the beginning.                                                       *)
Carries(m, reply) ==
    /\ m.status = reply.status
    /\ IF reply.body.text \in TooLong THEN m.body = Beginning(reply.body)
       ELSE m.body = reply.body

(* A captured body is the one the network gave to the call whose method and URL  *)
(* the message carries, and that the page was given unchanged, up to the cut of  *)
(* a long one; left out are the objects that are sent again, whose old listeners *)
(* post the new answer for the old call.                                         *)
CapturesTellTheirCall ==
    \A m \in RangeOf(posted) :
        m.type = "RESPONSE_BODY_CAPTURED" /\ (m.call \in Xhrs => Alone(m.call)) =>
            calls[m.call].plan.source = "real" /\ Carries(m, calls[m.call].reply)

(* The nth call that a sequence mock answers gets the nth branch and every later *)
(* one the last, in the order the calls began, however their delays end.         *)
SequencesAnswerInOrder ==
    \A i \in DOMAIN order :
        LET plan == calls[order[i].call].plan
            nth == Cardinality({ j \in 1..i : order[j].mock = order[i].mock })
        IN  \E m \in RangeOf(plan.rules.mocks) :
                /\ m.id = order[i].mock
                /\ plan.status = m.branches[IF nth < Len(m.branches) THEN nth
                                            ELSE Len(m.branches)].status

(* Every call of the page is answered or rejected in the end.                    *)
EveryCallSettles == \A c \in Calls : calls[c].pc # "idle" ~> Settled(c)

(* Fetching the response to rewrite replaces the call of the XMLHttpRequest, it  *)
(* is not a duplicate of it, says the bridge.                                    *)
CallsAreNotDuplicated == \A c \in Calls : Len(calls[c].sent) <= 1
===============================================================================
