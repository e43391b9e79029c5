------------------------------ MODULE StoredShapes -----------------------------
(* What the readers of chrome.storage.local accept.  The side panel, the         *)
(* background worker, the content script and the import of a file each filter    *)
(* what they read with guards of their own, so one stored value may be shown     *)
(* and not applied, or applied and not shown.                                    *)
(*                                                                               *)
(* A value is the function from its fields to what typeof says of each: a string *)
(* other than the literals a guard asks for is "odd string", an array with an    *)
(* item the guard of the items rejects is "odd array".                           *)
EXTENDS Naturals, FiniteSets

Types == {"undefined", "string", "odd string", "number", "boolean", "object",
          "array", "odd array", "null"}

String == {"string", "odd string"}
Literal == {"string"}
Num == {"number"}
Flag == {"boolean"}
Arrays == {"array", "odd array"}
Sound == {"array"}
isObject == {"object"}
AnyObject == isObject \cup Arrays       \* typeof "object", and not null
Optional(types) == types \cup {"undefined"}

(* A guard is the function from the fields it looks at to the types it accepts.  *)
Accepts(guard, value) == \A field \in DOMAIN guard : value[field] \in guard[field]

-------------------------------------------------------------------------------
(* The side panel: storage/index.ts.                                             *)

isStoredRule ==
    [id |-> String, name |-> String, type |-> String, enabled |-> Flag, priority |-> Num,
     groupId |-> Optional(String), createdAt |-> String, condition |-> isObject,
     payload |-> isObject]

isStoredRuleGroup ==
    [id |-> String, name |-> String, enabled |-> Flag, priority |-> Num, createdAt |-> String]

isStoredMatchedRule == [ruleId |-> String, ruleName |-> String, type |-> String]

isStoredReplayArtifactRequest ==
    [id |-> String, method |-> String, url |-> String, headers |-> isObject,
     body |-> Optional(String), baselineStatus |-> Optional(Num),
     baselineDurationMs |-> Optional(Num), baselineBody |-> Optional(String)]

isStoredReplayArtifact ==
    [id |-> String, label |-> String, sourceSessionId |-> String, createdAt |-> String,
     requestCount |-> Num, requests |-> Sound]

isStoredConditionalMockBranch == [id |-> String, status |-> Num, body |-> String]

isStoredConditionalMock ==
    [id |-> String, name |-> String, enabled |-> Flag, urlContains |-> String,
     method |-> Optional(String), createdAt |-> String, branches |-> Sound]

isStoredCapturedRequest ==
    [id |-> String, method |-> String, url |-> String, headers |-> isObject,
     body |-> Optional(String), timestamp |-> String, captureSource |-> Literal,
     startedAtMs |-> Num, matchedRules |-> Sound]

isStoredMockEnvVar ==
    [id |-> String, name |-> String, value |-> String, scopeUrlContains |-> Optional(String),
     enabled |-> Flag, createdAt |-> String]

isStoredResponseAssertion ==
    [id |-> String, type |-> Literal, enabled |-> Flag, expected |-> Types \ {"undefined"},
     path |-> Optional(String), actual |-> Optional(String \cup Num),
     error |-> Optional(String), createdAt |-> String]

isStoredRuleValidation == [timestamp |-> String, passed |-> Flag, checks |-> Arrays]

parseTrafficBaseline == [label |-> String, capturedAt |-> String, entries |-> Arrays]

(* parse* and load*: an array is read item by item, anything else is no items.   *)
Parse(guard, stored) == { v \in stored : Accepts(guard, v) }

-------------------------------------------------------------------------------
(* The background worker: background/index.ts.                                   *)

(* Faulty: the worker insists on a group.                                        *)
isRuleOfAGroup ==
    [id |-> String, name |-> String, type |-> String, enabled |-> Flag, priority |-> Num,
     groupId |-> String, createdAt |-> String, condition |-> AnyObject, payload |-> AnyObject]

isRule ==
    [id |-> String, name |-> String, type |-> String, enabled |-> Flag, priority |-> Num,
     groupId |-> Optional(String), createdAt |-> String, condition |-> AnyObject,
     payload |-> AnyObject]

isRuleGroup ==
    [id |-> String, name |-> String, enabled |-> Flag, priority |-> Num, createdAt |-> String]

isMatchedRule == [ruleId |-> String, ruleName |-> String, type |-> String, payload |-> AnyObject]

isCapturedResponse == [status |-> Num, durationMs |-> Num, timestamp |-> String]

isCapturedRequest ==
    [id |-> String, method |-> String, url |-> String, headers |-> AnyObject,
     timestamp |-> String, startedAtMs |-> Num, matchedRules |-> Sound,
     response |-> {"undefined", "object"}]

-------------------------------------------------------------------------------
(* The content script: content-guards.ts.                                        *)

isContentRule ==
    [id |-> String, name |-> String, type |-> String, enabled |-> Flag, priority |-> Num,
     createdAt |-> String, condition |-> isObject, payload |-> isObject]

isContentMockEnvVar ==
    [id |-> String, name |-> String, value |-> String, scopeUrlContains |-> Optional(String),
     enabled |-> Flag, createdAt |-> String]

isContentConditionalMock ==
    [id |-> String, name |-> String, enabled |-> Flag, urlContains |-> String,
     method |-> Optional(String), createdAt |-> String, branches |-> Arrays]

-------------------------------------------------------------------------------
(* The import of a file of rules: sidepanel/features/rules.ts.  A type that is   *)
(* not one of the twelve is an odd string.                                       *)
isRuleRowShape ==
    [id |-> String, name |-> String, type |-> Literal, enabled |-> Flag, priority |-> Num,
     groupId |-> Optional(String), condition |-> AnyObject, payload |-> AnyObject]
===============================================================================
