------------------------------ MODULE RuleEngine ------------------------------
(* The rule engine package of the legacy extension: which rules match a request, *)
(* in what order they apply, which pairs of rules are reported as conflicting,   *)
(* and which branch of a conditional mock answers a call.                        *)
(*                                                                               *)
(* A text (a URL, a body, a fragment to look for) is the set of the fragments it *)
(* holds: t.includes(f) is f \subseteq t, and {} is the empty text, which as a   *)
(* condition is no condition.  A method is one of Methods or AnyMethod, and      *)
(* Upper folds case as toUpperCase does.  Rules are records                      *)
(*    [id, enabled, priority, createdAt, type, method, url, payload].            *)
EXTENDS Integers, Sequences, FiniteSets

CONSTANTS
    Methods,    \* the spellings of a method a rule or a request may carry
    Upper,      \* the upper-case spelling of each of them
    AnyMethod   \* no method in a condition

ASSUME MethodsAssumption ==
    /\ Upper \in [Methods -> Methods]
    /\ \A m \in Methods : Upper[Upper[m]] = Upper[m]
    /\ AnyMethod \notin Methods

Includes(text, fragment) == fragment \subseteq text

RangeOf(s) == { s[i] : i \in DOMAIN s }

-------------------------------------------------------------------------------
(* Matching and ordering.                                                        *)

matchesCondition(rule, request) ==
    /\ rule.method # AnyMethod => Upper[rule.method] = Upper[request.method]
    /\ Includes(request.url, rule.url)

describeRuleCoverage(rule) ==
    [matchesAllUrls |-> rule.url = {}, methodScoped |-> rule.method # AnyMethod]

(* The comparison of Array.sort, which is stable: equal rules keep the order of  *)
(* the list they come from.                                                      *)
byPriorityThenCreatedAt(rules, i, j) ==
    \/ rules[i].priority < rules[j].priority
    \/ /\ rules[i].priority = rules[j].priority
       /\ \/ rules[i].createdAt < rules[j].createdAt
          \/ rules[i].createdAt = rules[j].createdAt /\ i < j

(* The rules of a list that a request matches, in the order they apply.          *)
evaluateRules(rules, request) ==
    LET matched == { i \in DOMAIN rules : rules[i].enabled /\ matchesCondition(rules[i], request) }
        place(i) == Cardinality({ j \in matched : byPriorityThenCreatedAt(rules, j, i) }) + 1
    IN  [p \in 1..Cardinality(matched) |-> rules[CHOOSE i \in matched : place(i) = p]]

-------------------------------------------------------------------------------
(* Conflicts.  A conflict is [kind, severity, ruleIds].                          *)

TerminalTypes == {"block", "redirect"}
ResponseBodyTypes == {"mock-response", "rewrite-response"}
DimensionTypes == TerminalTypes \cup ResponseBodyTypes
                      \cup {"rewrite-url", "rewrite-request-body", "mock-status", "delay"}

conditionsOverlap(a, b) ==
    /\ a.method # AnyMethod /\ b.method # AnyMethod => a.method = b.method
    /\ a.url # {} /\ b.url # {} => Includes(a.url, b.url) \/ Includes(b.url, a.url)

Conflict(kind, severity, first, second) ==
    [kind |-> kind, severity |-> severity, ruleIds |-> <<first.id, second.id>>]

checkDimensionConflict(a, b) ==
    { Conflict("same-dimension-overlap", "warning", a, b) : x \in
        { y \in {0} : \/ a.type = b.type /\ a.type \in DimensionTypes
                      \/ a.type # b.type /\ {a.type, b.type} \subseteq ResponseBodyTypes } }

(* Both detectors below try <<a, b>> first and return at the first hit.          *)
FirstOf(Found(_, _), kind, severity, a, b) ==
    IF Found(a, b) THEN {Conflict(kind, severity, a, b)}
    ELSE IF Found(b, a) THEN {Conflict(kind, severity, b, a)} ELSE {}

checkShadowConflict(a, b) ==
    FirstOf(LAMBDA t, o : t.type \in TerminalTypes /\ t.url = {} /\ o.url # {},
            "url-shadow", "warning", a, b)

checkPriorityTie(a, b) ==
    IF a.priority = b.priority THEN {Conflict("priority-tie", "info", a, b)} ELSE {}

(* Faulty: only the rule that comes first in the list is tried as terminal.      *)
checkTerminalConflictOneWay(a, b) ==
    IF a.type \in TerminalTypes /\ a.priority < b.priority
    THEN {Conflict("terminal-unreachable", "error", a, b)} ELSE {}

checkTerminalConflict(a, b) ==
    FirstOf(LAMBDA t, o : t.type \in TerminalTypes /\ t.priority < o.priority,
            "terminal-unreachable", "error", a, b)

ConflictsOf(a, b) ==
    IF conditionsOverlap(a, b)
    THEN checkDimensionConflict(a, b) \cup checkShadowConflict(a, b)
            \cup checkPriorityTie(a, b) \cup checkTerminalConflict(a, b)
    ELSE {}

(* The report on a list of rules: every pair i < j of enabled rules.             *)
detectConflicts(rules) ==
    LET pairs == { p \in (DOMAIN rules) \X (DOMAIN rules) :
                     p[1] < p[2] /\ rules[p[1]].enabled /\ rules[p[2]].enabled }
        found == UNION { ConflictsOf(rules[p[1]], rules[p[2]]) : p \in pairs }
    IN  [conflicts |-> found,
         hasErrors |-> \E c \in found : c.severity = "error",
         hasWarnings |-> \E c \in found : c.severity = "warning",
         affectedRuleIds |-> UNION { RangeOf(c.ruleIds) : c \in found }]

groupConflictsByRule(report) ==
    [id \in report.affectedRuleIds |-> { c \in report.conflicts : id \in RangeOf(c.ruleIds) }]

-------------------------------------------------------------------------------
(* Conditional mocks.  A rule is [id, enabled, branches, fallback], a branch is  *)
(* [condition, payload], and counts is a function from rule ids to the number of *)
(* calls so far.  NoPayload is "not mocked".                                     *)

NoPayload == [status |-> 0, body |-> {}]

evaluateCondition(condition, context, callCount) ==
    \/ condition.kind = "always"
    \/ condition.kind = "url-match" /\ Includes(context.url, condition.url)
    \/ condition.kind = "method" /\ Upper[context.method] = Upper[condition.method]
    \/ condition.kind = "header-equals" /\ condition.header \in context.headers
    \/ condition.kind = "body-contains" /\ Includes(context.body, condition.body)
    \/ condition.kind = "sequence" /\ callCount = condition.nth
    \/ condition.kind = "call-count" /\ callCount \in condition.min..condition.max

evaluateConditionalMock(rule, context, counts) ==
    LET count == counts[rule.id] + 1
        hits == { i \in DOMAIN rule.branches :
                    evaluateCondition(rule.branches[i].condition, context, count) }
        first == CHOOSE i \in hits : \A j \in hits : i <= j
    IN  IF ~rule.enabled THEN [payload |-> NoPayload, counts |-> counts]
        ELSE [payload |-> IF hits # {} THEN rule.branches[first].payload ELSE rule.fallback,
              counts |-> [counts EXCEPT ![rule.id] = count]]

createMockState(ids) == [id \in ids |-> 0]

resetMockCallCount(counts, id) == [counts EXCEPT ![id] = 0]
===============================================================================
