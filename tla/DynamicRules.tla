------------------------------ MODULE DynamicRules -----------------------------
(* How the background worker of the legacy extension turns the stored rules and  *)
(* groups into rules of the browser (declarativeNetRequest), what it reports     *)
(* about them, and which scripts and styles it puts into a page.                 *)
(*                                                                               *)
(* A stored rule is a rule of RuleEngine with two more fields: groupId, "" for   *)
(* none, and odd, the fields whose JSON type is not that of a sound rule.  Its   *)
(* payload is the function from the fields it has to their values; NotText       *)
(* stands for a value that is not a string.  A group is [id, enabled, priority]. *)
EXTENDS RuleEngine, SequencesExt, FiniteSetsExt, StoredShapes

CONSTANTS
    Nothing,            \* what the storage has for a key that is not there
    InvalidHeaders      \* header names the browser refuses

DYNAMIC_RULE_ID_BASE == 1
GROUP_PRIORITY_MULTIPLIER == 100000

NotText == "not text"
NotAUrl == "not a URL"
NoFields == [f \in {} |-> ""]
Rule(id, type, enabled, priority, groupId, createdAt, url, payload) ==
    [id |-> id, type |-> type, enabled |-> enabled, priority |-> priority, groupId |-> groupId,
     createdAt |-> createdAt, method |-> AnyMethod, url |-> url, payload |-> payload,
     odd |-> NoFields]
Group(id, enabled, priority) == [id |-> id, enabled |-> enabled, priority |-> priority]

DEFAULT_RULES ==
    << Rule("mk-001", "mock-response", TRUE, 0, "grp-core", 0, {"/api", "users"}, [body |-> "users"]),
       Rule("mk-002", "mock-status", TRUE, 1, "grp-core", 1, {"/api", "users"}, [status |-> 202]),
       Rule("rw-001", "rewrite-url", TRUE, 10, "grp-core", 10, {"/api"}, [replaceWith |-> "/qa-api"]),
       Rule("rw-002", "rewrite-header", TRUE, 11, "grp-core", 11, {"/api"},
            [operations |-> << [header |-> "x-qa-interceptor", operation |-> "set",
                                value |-> "enabled"] >>]),
       Rule("ns-001", "block", FALSE, 90, "grp-experiments", 55, {"/tracking"}, NoFields),
       Rule("ns-003", "redirect", FALSE, 91, "grp-experiments", 56, {"/admin"},
            [redirectTo |-> "https://example.com/qa-admin"]),
       Rule("ns-002", "delay", FALSE, 92, "grp-experiments", 57, {"/checkout"}, [delayMs |-> 1200]) >>

DEFAULT_RULE_GROUPS == << Group("grp-core", TRUE, 0), Group("grp-experiments", FALSE, 1) >>

-------------------------------------------------------------------------------
(* Reading the storage.  Each reader drops what its guard refuses.               *)

SoundRule ==
    [id |-> "string", name |-> "string", type |-> "string", enabled |-> "boolean",
     priority |-> "number", groupId |-> "string", createdAt |-> "string",
     condition |-> "object", payload |-> "object"]

Kept(guard, stored) ==
    IF stored = Nothing THEN <<>>
    ELSE SelectSeq(stored, LAMBDA r : Accepts(guard, r.odd @@ SoundRule))

readRules(stored) == Kept(isRule, stored)
readRuleGroups(stored) == IF stored = Nothing THEN <<>> ELSE stored

(* No stored rules, or no stored groups, is the default ones.                    *)
loadRules(stored) == IF readRules(stored) = <<>> THEN DEFAULT_RULES ELSE readRules(stored)
loadRuleGroups(stored) ==
    IF readRuleGroups(stored) = <<>> THEN DEFAULT_RULE_GROUPS ELSE readRuleGroups(stored)

(* The rules of a group that is disabled, or that is not there, are left out;    *)
(* the others are ordered by their group first.                                  *)
loadRulesForRuntime(storedRules, storedGroups) ==
    LET enabled == SelectSeq(loadRuleGroups(storedGroups), LAMBDA g : g.enabled)
        priorityOf(id) == (CHOOSE g \in RangeOf(enabled) : g.id = id).priority
        live == SelectSeq(loadRules(storedRules), LAMBDA r :
                    r.groupId # "" => \E g \in RangeOf(enabled) : g.id = r.groupId)
    IN  [i \in DOMAIN live |->
            IF live[i].groupId = "" THEN live[i]
            ELSE [live[i] EXCEPT !.priority =
                    priorityOf(live[i].groupId) * GROUP_PRIORITY_MULTIPLIER + @]]

-------------------------------------------------------------------------------
(* From a rule to a rule of the browser; NoAction is null.                       *)

NoAction == [type |-> "none"]
Text(payload, field) == IF field \in DOMAIN payload THEN payload[field] ELSE NotText
List(payload, field) == IF field \in DOMAIN payload THEN payload[field] ELSE <<>>

toDynamicPriority(priority) == 10000 - Max({0, Min({9999, priority})})

readRewriteUrlPayload(payload) ==
    IF Text(payload, "replaceWith") = NotText THEN NoAction
    ELSE [type |-> "redirect", substitution |-> payload.replaceWith]

isRewriteHeaderOperation(op) ==
    /\ op.header # NotText
    /\ op.operation \in {"set", "remove"}
    /\ op.operation = "set" => op.value # NotText

readRewriteHeaderPayload(payload) ==
    LET operations == SelectSeq(List(payload, "operations"), isRewriteHeaderOperation)
    IN  IF operations = <<>> THEN NoAction
        ELSE [type |-> "modifyHeaders", requestHeaders |-> operations]

readRedirectPayload(payload) ==
    IF Text(payload, "redirectTo") \in {NotText, NotAUrl} THEN NoAction
    ELSE [type |-> "redirect", url |-> payload.redirectTo]

readRewriteQueryPayload(payload) ==
    LET add == SelectSeq(List(payload, "addOrReplace"), LAMBDA p : p.key # NotText /\ p.value # NotText)
        remove == SelectSeq(List(payload, "remove"), LAMBDA key : key # NotText)
    IN  IF add = <<>> /\ remove = <<>> THEN NoAction
        ELSE [type |-> "redirect", addOrReplaceParams |-> add, removeParams |-> remove]

ActionOf(rule) ==
    CASE rule.type = "rewrite-url" ->
            IF describeRuleCoverage(rule).matchesAllUrls THEN NoAction
            ELSE readRewriteUrlPayload(rule.payload)
      [] rule.type = "rewrite-header" -> readRewriteHeaderPayload(rule.payload)
      [] rule.type = "redirect" -> readRedirectPayload(rule.payload)
      [] rule.type = "block" -> [type |-> "block"]
      [] rule.type = "rewrite-query" -> readRewriteQueryPayload(rule.payload)
      [] OTHER -> NoAction

toDynamicRule(rule) ==
    [id |-> 0, priority |-> toDynamicPriority(rule.priority), action |-> ActionOf(rule),
     url |-> rule.url,
     method |-> IF rule.method = AnyMethod THEN AnyMethod ELSE Upper[rule.method]]

buildDynamicRules(rules) ==
    LET live == SelectSeq(rules, LAMBDA r : r.enabled /\ ActionOf(r) # NoAction)
    IN  [i \in DOMAIN live |-> [toDynamicRule(live[i]) EXCEPT !.id = DYNAMIC_RULE_ID_BASE + i - 1]]

(* The next free id from its own up for every rule whose id was taken before it. *)
dedupeDynamicRuleIds(rules) ==
    LET place(done, rule) ==
            LET used == { r.id : r \in RangeOf(done) }
                free == CHOOSE id \in rule.id..(rule.id + Len(done)) :
                            /\ id \notin used
                            /\ \A k \in rule.id..(id - 1) : k \in used
            IN  Append(done, [rule EXCEPT !.id = free])
    IN  FoldLeft(place, <<>>, rules)

BrowserRules(storedRules, storedGroups) ==
    dedupeDynamicRuleIds(buildDynamicRules(loadRulesForRuntime(storedRules, storedGroups)))

(* updateDynamicRules applies all of a list or, for one bad rule, none of it.    *)
BrowserRefuses(rules) ==
    \E r \in RangeOf(rules) :
        /\ r.action.type = "modifyHeaders"
        /\ \E op \in RangeOf(r.action.requestHeaders) : op.header \in InvalidHeaders

buildRuleValidation(rules, dynamicRules) ==
    LET enabled(types) == \E r \in RangeOf(rules) : r.enabled /\ r.type \in types
    IN  [rewrite |-> enabled({"rewrite-url", "rewrite-header"}),
         mock |-> enabled({"mock-response", "mock-status"}),
         delay |-> enabled({"delay"}),
         supported |-> \A r \in RangeOf(dynamicRules) :
                            r.action.type \in {"redirect", "modifyHeaders", "block"},
         unique |-> IsInjective([i \in DOMAIN dynamicRules |-> dynamicRules[i].id])]

-------------------------------------------------------------------------------
(* Scripts and styles for a page that has finished loading.                      *)

isInjectableUrl(url) == "http" \in url /\ "https://chromewebstore.google.com" \notin url

readInsertScriptCode(payload) == Text(payload, "code")
readInjectCssCode(payload) == Text(payload, "css")

Injections(rules, url) ==
    LET matched == evaluateRules(rules, [method |-> "GET", url |-> url])
        scripts == SelectSeq(matched, LAMBDA r :
                        r.type = "insert-script" /\ readInsertScriptCode(r.payload) # NotText)
        styles == SelectSeq(matched, LAMBDA r :
                        r.type = "inject-css" /\ readInjectCssCode(r.payload) # NotText)
    IN  [i \in DOMAIN scripts |-> [kind |-> "script", code |-> scripts[i].payload.code]]
          \o [i \in DOMAIN styles |-> [kind |-> "style", code |-> styles[i].payload.css]]
===============================================================================
