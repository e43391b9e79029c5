----------------------------- MODULE JsonContracts -----------------------------
(* JSON in the rule engine package: the schema validator, the inference of a     *)
(* schema from observed values, the comparison of two values' structure, and the *)
(* assertions on a response.                                                     *)
(*                                                                               *)
(* A JSON value is a record tagged with its type t, the payload under a field of *)
(* its own.  A number carries tenths, so that it is an integer or not; a string  *)
(* carries its length, the well-known format it looks like and the word it is    *)
(* (see Spelling); an object is a function from its keys.  A schema is a         *)
(* function from the keywords it has, the types of "type" as a set.  What is     *)
(* left out is the wording and the path of an error: a value is valid when there *)
(* is no error at all.                                                           *)
EXTENDS Integers, Sequences, FiniteSets, SequencesExt

Null == [t |-> "null"]
Bool(b) == [t |-> "boolean", truth |-> b]
Number(tenths) == [t |-> "number", tenths |-> tenths]
Text(length, format, word) ==
    [t |-> "string", length |-> length, format |-> format, word |-> word]
Array(items) == [t |-> "array", items |-> items]
Object(props) == [t |-> "object", props |-> props]

AnySchema == [k \in {} |-> {}]
NoFormat == "no format"

IsInteger(value) == value.t = "number" /\ value.tenths % 10 = 0

Keys(value) == DOMAIN value.props

-------------------------------------------------------------------------------
(* Validation.                                                                   *)

(* An array and an object are compared by their keys, so that the empty ones are *)
(* equal.  (An object with the keys "0", "1".. would equal an array as well.)    *)
RECURSIVE deepEqual(_, _)
deepEqual(a, b) ==
    CASE a.t = "array" /\ b.t = "array" ->
            /\ Len(a.items) = Len(b.items)
            /\ \A i \in DOMAIN a.items : deepEqual(a.items[i], b.items[i])
      [] a.t = "object" /\ b.t = "object" ->
            /\ Keys(a) = Keys(b)
            /\ \A k \in Keys(a) : deepEqual(a.props[k], b.props[k])
      [] a.t = "array" /\ b.t = "object" -> a.items = <<>> /\ Keys(b) = {}
      [] a.t = "object" /\ b.t = "array" -> Keys(a) = {} /\ b.items = <<>>
      [] OTHER -> a = b

SCHEMA_TYPES(value) == {value.t} \cup (IF IsInteger(value) THEN {"integer"} ELSE {})

Has(schema, keyword) == keyword \in DOMAIN schema

validateString(value, schema) ==
    /\ Has(schema, "minLength") => value.length >= schema.minLength
    /\ Has(schema, "maxLength") => value.length <= schema.maxLength
    /\ Has(schema, "pattern") => value.format \in schema.pattern

validateNumber(value, schema) ==
    /\ Has(schema, "minimum") => value.tenths >= schema.minimum * 10
    /\ Has(schema, "maximum") => value.tenths <= schema.maximum * 10

RECURSIVE Valid(_, _)

validateArray(value, schema) ==
    /\ Has(schema, "minItems") => Len(value.items) >= schema.minItems
    /\ Has(schema, "maxItems") => Len(value.items) <= schema.maxItems
    /\ Has(schema, "items") => \A i \in DOMAIN value.items : Valid(value.items[i], schema.items)

(* Without "properties" the code ignores "additionalProperties".  FALSE and TRUE *)
(* are the schemas that refuse and accept everything: [never |-> b].             *)
validateObject(value, schema) ==
    /\ Has(schema, "required") => schema.required \subseteq Keys(value)
    /\ Has(schema, "properties") =>
          /\ \A k \in DOMAIN schema.properties \cap Keys(value) :
                Valid(value.props[k], schema.properties[k])
          /\ Has(schema, "additionalProperties") =>
                \A k \in Keys(value) \ DOMAIN schema.properties :
                    Valid(value.props[k], schema.additionalProperties)

Valid(value, schema) ==
    /\ Has(schema, "never") => ~schema.never
    /\ Has(schema, "type") => SCHEMA_TYPES(value) \cap schema.type # {}
    /\ Has(schema, "const") => deepEqual(value, schema.const)
    /\ Has(schema, "enum") => \E i \in DOMAIN schema.enum : deepEqual(value, schema.enum[i])
    /\ Has(schema, "not") => ~Valid(value, schema.not)
    /\ Has(schema, "allOf") => \A i \in DOMAIN schema.allOf : Valid(value, schema.allOf[i])
    /\ Has(schema, "anyOf") => \E i \in DOMAIN schema.anyOf : Valid(value, schema.anyOf[i])
    /\ Has(schema, "oneOf") =>
          Cardinality({ i \in DOMAIN schema.oneOf : Valid(value, schema.oneOf[i]) }) = 1
    /\ CASE value.t = "string" -> validateString(value, schema)
         [] value.t = "number" -> validateNumber(value, schema)
         [] value.t = "array" -> validateArray(value, schema)
         [] value.t = "object" -> validateObject(value, schema)
         [] OTHER -> TRUE

-------------------------------------------------------------------------------
(* Inference.                                                                    *)

CONSTANTS
    MaxDepth,        \* objects this deep are described as any object
    MaxArraySample   \* items of an array that are looked at

ASSUME InferenceAssumption == MaxDepth \in Nat /\ MaxArraySample \in Nat \ {0}

(* A schema without "type" counts as one whose type is "undefined", a name that  *)
(* no value has.                                                                 *)
getSchemaType(schema) == IF Has(schema, "type") THEN schema.type ELSE {"undefined"}

ItemsOf(schema) == IF Has(schema, "items") THEN schema.items ELSE AnySchema
PropertiesOf(schema) == IF Has(schema, "properties") THEN schema.properties ELSE AnySchema
RequiredOf(schema) == IF Has(schema, "required") THEN schema.required ELSE {}

RECURSIVE mergeSchemas(_, _)

(* Faulty: a key required by either schema stays required.                       *)
mergeObjectSchemasEither(a, b) ==
    LET pa == PropertiesOf(a)
        pb == PropertiesOf(b)
    IN  [type |-> {"object"},
         properties |-> [k \in DOMAIN pa \cup DOMAIN pb |->
                            CASE k \notin DOMAIN pb -> pa[k]
                              [] k \notin DOMAIN pa -> pb[k]
                              [] OTHER -> mergeSchemas(pa[k], pb[k])],
         required |-> RequiredOf(a) \cup RequiredOf(b)]

mergeObjectSchemas(a, b) ==
    LET pa == PropertiesOf(a)
        pb == PropertiesOf(b)
        required == RequiredOf(a) \cap RequiredOf(b)
        properties == [k \in DOMAIN pa \cup DOMAIN pb |->
                          CASE k \notin DOMAIN pb -> pa[k]
                            [] k \notin DOMAIN pa -> pb[k]
                            [] OTHER -> mergeSchemas(pa[k], pb[k])]
    IN  IF required = {} THEN [type |-> {"object"}, properties |-> properties]
        ELSE [type |-> {"object"}, properties |-> properties, required |-> required]

mergeArraySchemas(a, b) ==
    [type |-> {"array"},
     items |-> IF Has(a, "items") /\ Has(b, "items") THEN mergeSchemas(a.items, b.items)
               ELSE IF Has(a, "items") THEN a.items ELSE ItemsOf(b)]

mergeSchemas(a, b) ==
    IF a = b THEN a
    ELSE LET ta == getSchemaType(a)
             tb == getSchemaType(b)
         IN  CASE ta # tb -> [type |-> ta \cup tb]
               [] ta = tb /\ ta = {"object"} -> mergeObjectSchemas(a, b)
               [] ta = tb /\ ta = {"array"} -> mergeArraySchemas(a, b)
               [] OTHER -> a

inferStringSchema(value) ==
    IF value.format = NoFormat THEN [type |-> {"string"}]
    ELSE [type |-> {"string"}, format |-> value.format]

RECURSIVE inferValue(_, _)

inferArraySchema(value, depth) ==
    LET sample == SubSeq(value.items, 1,
                         IF Len(value.items) < MaxArraySample THEN Len(value.items) ELSE MaxArraySample)
        schemas == [i \in DOMAIN sample |-> inferValue(sample[i], depth + 1)]
    IN  IF sample = <<>> THEN [type |-> {"array"}, items |-> AnySchema]
        ELSE [type |-> {"array"}, items |-> FoldLeft(mergeSchemas, schemas[1], Tail(schemas))]

inferObjectSchema(value, depth) ==
    IF depth >= MaxDepth \/ Keys(value) = {} THEN [type |-> {"object"}]
    ELSE [type |-> {"object"},
          properties |-> [k \in Keys(value) |-> inferValue(value.props[k], depth + 1)],
          required |-> Keys(value)]

inferValue(value, depth) ==
    CASE IsInteger(value) -> [type |-> {"integer"}]
      [] value.t = "string" -> inferStringSchema(value)
      [] value.t = "array" -> inferArraySchema(value, depth)
      [] value.t = "object" -> inferObjectSchema(value, depth)
      [] OTHER -> [type |-> {value.t}]

(* NotJson stands for a sample that does not parse: it is passed over.  The      *)
(* result of no sample at all is NotJson, the code's null.                       *)
NotJson == [t |-> "not JSON"]

inferSchemaFromSamples(samples) ==
    LET parsed == SelectSeq(samples, LAMBDA s : s.t # "not JSON")
        schemas == [i \in DOMAIN parsed |-> inferValue(parsed[i], 0)]
    IN  IF parsed = <<>> THEN NotJson ELSE FoldLeft(mergeSchemas, schemas[1], Tail(schemas))

-------------------------------------------------------------------------------
(* Contract comparison: the set of the kinds of difference between two values.   *)

RECURSIVE diffNodes(_, _)

(* Faulty: the values of keys that both sides have are not compared.             *)
diffNodesShallow(expected, actual) ==
    CASE expected.t # actual.t ->
            IF "null" \in {expected.t, actual.t} THEN {"null-change"} ELSE {"type-change"}
      [] expected.t = actual.t /\ expected.t = "object" ->
            IF Keys(expected) \ Keys(actual) # {} THEN {"missing-key"} ELSE {}
      [] OTHER -> {}

diffNodes(expected, actual) ==
    CASE expected.t # actual.t ->
            IF "null" \in {expected.t, actual.t} THEN {"null-change"} ELSE {"type-change"}
      [] expected.t = actual.t /\ expected.t = "object" ->
            (IF Keys(expected) \ Keys(actual) # {} THEN {"missing-key"} ELSE {})
            \cup (IF Keys(actual) \ Keys(expected) # {} THEN {"extra-key"} ELSE {})
            \cup UNION { diffNodes(expected.props[k], actual.props[k])
                            : k \in Keys(expected) \cap Keys(actual) }
      [] expected.t = actual.t /\ expected.t = "array" ->
            (CASE expected.items = <<>> -> {}
               [] expected.items # <<>> /\ actual.items = <<>> -> {"missing-key"}
               [] OTHER -> diffNodes(expected.items[1], actual.items[1]))
      [] OTHER -> {}

(* A body that does not parse differs in type, whichever side it is on.          *)
compareContractStrings(expected, actual) ==
    IF expected.t = "not JSON" \/ actual.t = "not JSON" THEN {"type-change"} ELSE diffNodes(expected, actual)

-------------------------------------------------------------------------------
(* Assertions on a response [status, headers, text, body]: headers is a function *)
(* from the names present to their text, text the fragments of the body, and     *)
(* body is NoBody, NotJson or the JSON value it parses to.                       *)

NoBody == [t |-> "no body"]

(* What String() makes of a value.  The word of a string is the tenths of the    *)
(* number it reads as, if it does, and otherwise below zero: -1 to -3 are null,  *)
(* true and false, -4 is what every object becomes.  An array joins its items;   *)
(* of more than one item, that is a word apart.                                  *)
RECURSIVE Spelling(_)
Spelling(value) ==
    CASE value.t = "string" -> value.word
      [] value.t = "number" -> value.tenths
      [] value.t = "null" -> -1
      [] value.t = "boolean" -> IF value.truth THEN -2 ELSE -3
      [] value.t = "object" -> -4
      [] value.t = "array" -> IF Len(value.items) = 1 THEN Spelling(value.items[1]) ELSE -5

(* A step of a path is [key, index], index -1 when the step is no number.        *)
RECURSIVE resolveJsonPath(_, _)
resolveJsonPath(value, path) ==
    CASE path = <<>> -> value
      [] path # <<>> /\ value.t = "object" ->
            IF Head(path).key \in Keys(value)
            THEN resolveJsonPath(value.props[Head(path).key], Tail(path)) ELSE NoBody
      [] path # <<>> /\ value.t = "array" ->
            IF Head(path).index + 1 \in DOMAIN value.items
            THEN resolveJsonPath(value.items[Head(path).index + 1], Tail(path)) ELSE NoBody
      [] OTHER -> NoBody

evaluateStatus(assertion, response) == response.status = assertion.expected

(* A name is looked up in lower case first, then as it was written.              *)
evaluateHeader(assertion, response) ==
    LET name == IF assertion.lower \in DOMAIN response.headers THEN assertion.lower ELSE assertion.path
    IN  /\ name \in DOMAIN response.headers
        /\ assertion.expected \subseteq response.headers[name]

evaluateJsonPath(assertion, response) ==
    /\ response.body.t \notin {"no body", "not JSON"}
    /\ LET actual == resolveJsonPath(response.body, assertion.path)
       IN  actual.t # "no body" /\ Spelling(actual) = assertion.expected

evaluateBodyContains(assertion, response) == assertion.expected \subseteq response.text

evaluateJsonSchema(assertion, response) ==
    /\ response.body.t \notin {"no body", "not JSON"}
    /\ assertion.expected # NotJson
    /\ Valid(response.body, assertion.expected)

evaluateSingle(assertion, response) ==
    CASE assertion.type = "status" -> evaluateStatus(assertion, response)
      [] assertion.type = "header" -> evaluateHeader(assertion, response)
      [] assertion.type = "json-path" -> evaluateJsonPath(assertion, response)
      [] assertion.type = "body-contains" -> evaluateBodyContains(assertion, response)
      [] assertion.type = "json-schema" -> evaluateJsonSchema(assertion, response)
      [] OTHER -> FALSE

(* The verdicts on the enabled assertions, in order.                             *)
evaluateAssertions(assertions, response) ==
    LET enabled == SelectSeq(assertions, LAMBDA a : a.enabled)
    IN  [i \in DOMAIN enabled |-> evaluateSingle(enabled[i], response)]
===============================================================================
