------------------------------ MODULE RuleEditing ------------------------------
(* What the side panel makes of the lists it has read when a button is pressed:  *)
(* the next list of rules, of groups, of sequence mocks or of assertions.  Each  *)
(* operator takes the list the panel holds; one that may show an error instead   *)
(* returns the set of the lists it saves, which is then empty.                   *)
(*                                                                               *)
(* The values of an editor are records of what its fields hold; a number that    *)
(* does not parse is NotANumber, a payload that is not a JSON object NotAnObject.*)
EXTENDS DynamicRules

Refused == {}
NotANumber == -1
NotAnObject == [notAnObject |-> "text"]
NoSelection == ""

Without(list, ids) ==
    LET kept == { i \in DOMAIN list : list[i].id \notin ids }
        place(i) == Cardinality({ j \in kept : j <= i })
    IN  [p \in 1..Cardinality(kept) |-> list[CHOOSE i \in kept : place(i) = p]]

Find(list, id) == list[CHOOSE i \in DOMAIN list : list[i].id = id]
IdsOf(list) == { r.id : r \in RangeOf(list) }
Change(list, id, Edit(_)) == [i \in DOMAIN list |-> IF list[i].id = id THEN Edit(list[i]) ELSE list[i]]

Sorted(list, Before(_, _)) ==
    LET place(i) == Cardinality({ j \in DOMAIN list : \/ Before(list[j], list[i])
                                                      \/ ~Before(list[i], list[j]) /\ j <= i })
    IN  [p \in DOMAIN list |-> list[CHOOSE i \in DOMAIN list : place(i) = p]]

Toggle(list, id) == Change(list, id, LAMBDA r : [r EXCEPT !.enabled = ~@])

-------------------------------------------------------------------------------
(* The list of rules.                                                            *)

(* A filter is [type, status, search], "all" and {} for none.                    *)
applyRuleFilters(rules, filter) ==
    SelectSeq(rules, LAMBDA r :
        /\ filter.type \in {"all", r.type}
        /\ filter.status \in {"all", IF r.enabled THEN "enabled" ELSE "disabled"}
        /\ Includes({r.type, r.method} \cup r.url, filter.search))

(* The rule the editor shows: the selected one while it is listed, else the first.*)
Selected(listed, selected) ==
    IF listed = <<>> THEN NoSelection
    ELSE IF selected \in IdsOf(listed) THEN selected ELSE listed[1].id

createDefaultRule(id, now) ==
    Rule(id, "block", FALSE, 100, "", now, {"/api"}, NoFields)

Duplicate(rules, id, newId) ==
    IF id \notin IdsOf(rules) THEN Refused
    ELSE {<<[Find(rules, id) EXCEPT !.id = newId, !.priority = @ + 1]>> \o rules}

Delete(rules, id) == IF id \notin IdsOf(rules) THEN Refused ELSE {Without(rules, {id})}

(* A file's rules are added after the present ones, those whose id is known and  *)
(* those that do not look like a rule excepted.                                  *)
Import(rules, file) ==
    LET shaped == Kept(isRuleRowShape, file)
    IN  IF shaped = <<>> THEN Refused ELSE {rules \o Without(shaped, IdsOf(rules))}

-------------------------------------------------------------------------------
(* The rule editor.                                                              *)

populateEditor(rule) ==
    [type |-> rule.type, enabled |-> rule.enabled, priority |-> rule.priority,
     method |-> rule.method, groupId |-> rule.groupId, url |-> rule.url, payload |-> rule.payload]

normalizePriority(priority) == IF priority > 0 THEN priority ELSE 1

parsePayloadObject(payload) == payload # NotAnObject

buildRuleFromEditorValues(current, values) ==
    IF ~parsePayloadObject(values.payload) THEN Refused
    ELSE {[values EXCEPT !.priority = normalizePriority(@)] @@ current}

SaveRule(rules, id, values) ==
    IF id \notin IdsOf(rules) THEN Refused
    ELSE LET built == buildRuleFromEditorValues(Find(rules, id), values)
         IN  { Change(rules, id, LAMBDA r : next) : next \in built }

-------------------------------------------------------------------------------
(* The mock editor.  A field of the payload that is cleared is one the old       *)
(* payload still provides.                                                       *)

MockTypes == {"mock-response", "mock-status"}
isMockRule(rule) == rule.type \in MockTypes

applyMockFilters(rules, filter) ==
    LET shown == applyRuleFilters(SelectSeq(rules, isMockRule), filter)
    IN  Sorted(shown, LAMBDA a, b : a.priority > b.priority)

Had(payload, field, default) == IF field \in DOMAIN payload THEN payload[field] ELSE default

populateMockEditor(rule) ==
    [enabled |-> rule.enabled, method |-> rule.method, url |-> rule.url,
     status |-> Had(rule.payload, "status", 200), delayMs |-> Had(rule.payload, "delayMs", 0),
     headers |-> Had(rule.payload, "headers", "none"), body |-> Had(rule.payload, "body", "")]

parseHeaders(headers) == headers # NotText

Provided(field, value, given) == [f \in (IF given THEN {field} ELSE {}) |-> value]

buildMockFromEditorValues(current, values) ==
    IF values.status \notin 100..599 \/ ~parseHeaders(values.headers) THEN Refused
    ELSE {[current EXCEPT
            !.enabled = values.enabled, !.method = values.method, !.url = values.url,
            !.payload = Provided("body", values.body, current.type = "mock-response")
                          @@ [status |-> values.status]
                          @@ Provided("delayMs", values.delayMs, values.delayMs > 0)
                          @@ Provided("headers", values.headers, values.headers # "none")
                          @@ current.payload]}

SaveMock(rules, id, values) ==
    IF id \notin IdsOf(SelectSeq(rules, isMockRule)) THEN Refused
    ELSE LET built == buildMockFromEditorValues(Find(rules, id), values)
         IN  { Change(rules, id, LAMBDA r : next) : next \in built }

MOCK_TEMPLATES ==
    { [id |-> "auth-401", method |-> "GET", url |-> {"/api"}, status |-> 401, delayMs |-> 0],
      [id |-> "server-500", method |-> "POST", url |-> {"/api"}, status |-> 500, delayMs |-> 800],
      [id |-> "validation-422", method |-> "POST", url |-> {"/api", "orders"}, status |-> 422,
       delayMs |-> 0],
      [id |-> "slow-success", method |-> "GET", url |-> {"/api"}, status |-> 200, delayMs |-> 1500] }

(* Filling the form from a template leaves a delay the template does not name.   *)
applyTemplate(values, template) ==
    [values EXCEPT !.method = template.method, !.url = template.url, !.status = template.status,
                   !.delayMs = IF template.delayMs > 0 THEN template.delayMs ELSE @,
                   !.headers = "json", !.body = template.id]

createMockRuleFromTemplate(template, id, now) ==
    [Rule(id, "mock-response", TRUE, 50, "", now, template.url,
          [status |-> template.status, body |-> template.id, headers |-> "json"]
            @@ Provided("delayMs", template.delayMs, template.delayMs > 0))
     EXCEPT !.method = template.method]

(* Sequence mocks: a line of the text is [status, body], and lines that are not  *)
(* a status are left out.                                                        *)
parseConditionalBranches(lines) == SelectSeq(lines, LAMBDA line : line.status >= 100)

AddSequence(mocks, id, url, lines) ==
    IF url = {} \/ parseConditionalBranches(lines) = <<>> THEN Refused
    ELSE {<<[id |-> id, enabled |-> TRUE, url |-> url,
             branches |-> parseConditionalBranches(lines)]>> \o mocks}

(* Assertions: a value to expect, and a path where the type needs one.           *)
AddAssertion(assertions, id, type, expected, path) ==
    IF expected = "" \/ (type \in {"header", "json-path"} /\ path = "") THEN Refused
    ELSE {<<[id |-> id, enabled |-> TRUE, type |-> type, expected |-> expected,
             path |-> IF type \in {"header", "json-path"} THEN path ELSE ""]>> \o assertions}

-------------------------------------------------------------------------------
(* Groups.                                                                       *)

Renumbered(groups) == [i \in DOMAIN groups |-> [groups[i] EXCEPT !.priority = i - 1]]

CreateGroup(groups, id) ==
    Append(groups, Group(id, TRUE, IF groups = <<>> THEN 0
                                   ELSE Max({ g.priority : g \in RangeOf(groups) }) + 1))

(* Faulty: the two groups trade priorities where they are in the list.           *)
MoveGroupInPlace(groups, id, step) ==
    LET sorted == Sorted(groups, LAMBDA a, b : a.priority < b.priority)
        at == CHOOSE i \in DOMAIN sorted : sorted[i].id = id
        other == sorted[at + step]
    IN  IF at + step \notin DOMAIN sorted THEN Refused
        ELSE {[i \in DOMAIN groups |->
                 IF groups[i].id = id THEN [groups[i] EXCEPT !.priority = other.priority]
                 ELSE IF groups[i].id = other.id
                      THEN [groups[i] EXCEPT !.priority = sorted[at].priority] ELSE groups[i]]}

(* One up (-1) or down (1) in the order of priority.                             *)
MoveGroup(groups, id, step) ==
    LET sorted == Sorted(groups, LAMBDA a, b : a.priority < b.priority)
        at == CHOOSE i \in DOMAIN sorted : sorted[i].id = id
    IN  IF at + step \notin DOMAIN sorted THEN Refused
        ELSE {Renumbered([i \in DOMAIN sorted |->
                CASE i = at -> sorted[at + step] [] i = at + step -> sorted[at] [] OTHER -> sorted[i]])}

DeleteGroup(rules, groups, id) ==
    IF \E r \in RangeOf(rules) : r.groupId = id THEN Refused
    ELSE {Renumbered(Without(groups, {id}))}

(* The order of the grouped list: by group, the ungrouped and those of an        *)
(* unknown group last, then by priority.                                         *)
renderGroupedRules(rules, groups) ==
    LET rank(r) == IF r.groupId \in IdsOf(groups) THEN Find(groups, r.groupId).priority ELSE 1000
        before(a, b) == rank(a) < rank(b) \/ (rank(a) = rank(b) /\ a.priority < b.priority)
    IN  Sorted(rules, before)

-------------------------------------------------------------------------------
(* Error profiles.                                                               *)

ERROR_PROFILES ==
    [p \in {"400-bad-request", "401-unauthorized", "403-forbidden", "404-not-found",
            "500-server-error", "network-failure"} |->
        CASE p = "400-bad-request" -> [type |-> "mock-response", status |-> 400]
          [] p = "401-unauthorized" -> [type |-> "mock-response", status |-> 401]
          [] p = "403-forbidden" -> [type |-> "mock-response", status |-> 403]
          [] p = "404-not-found" -> [type |-> "mock-response", status |-> 404]
          [] p = "500-server-error" -> [type |-> "mock-response", status |-> 500]
          [] p = "network-failure" -> [type |-> "block", status |-> 0]]

PROFILE_RULE_GROUP_ID == "grp-error-profiles"
PROFILE_RULE_URL_PATTERN == {"/api"}

profileRuleId(profile) == "error-profile-" \o profile
ProfileRuleIds == { profileRuleId(p) : p \in DOMAIN ERROR_PROFILES }

getActiveProfileIds(rules) ==
    { p \in DOMAIN ERROR_PROFILES : \E r \in RangeOf(rules) : r.id = profileRuleId(p) /\ r.enabled }

buildProfileRule(profile, now) ==
    Rule(profileRuleId(profile), ERROR_PROFILES[profile].type, TRUE, 999, PROFILE_RULE_GROUP_ID, now,
         PROFILE_RULE_URL_PATTERN,
         IF ERROR_PROFILES[profile].type = "block" THEN NoFields
         ELSE [status |-> ERROR_PROFILES[profile].status, body |-> profile, headers |-> "json"])

activateProfile(rules, profile, now) ==
    <<buildProfileRule(profile, now)>> \o Without(rules, ProfileRuleIds)

deactivateProfile(rules, profile) == Without(rules, {profileRuleId(profile)})
===============================================================================
