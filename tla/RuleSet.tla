------------------------------- MODULE RuleSet -------------------------------
(***************************************************************************)
(* The pure rule matcher, internal/rules/rules.go, and the header rewriting *)
(* of internal/proxy/proxy.go that consumes its result.  A URL is the set   *)
(* of rule fragments that occur in it as substrings; a method is a pair     *)
(* <<verb, spelling>> so that case-insensitive comparison is comparison of  *)
(* verbs; a header is a function from names to values, Absent for no value. *)
(***************************************************************************)
EXTENDS Integers, Sequences, FiniteSetsExt, SequencesExt

CONSTANTS
  Wildcard,     \* the empty string of a rule's condition: matches everything
  Absent        \* the value of a header that is not there

(* Rule.Matches: what a disabled rule, an empty method and an empty URL     *)
(* filter do.                                                               *)
Matches(rule, req) ==
  /\ rule.enabled
  /\ rule.method # Wildcard => rule.method[1] = req.method[1]
  /\ rule.urlContains # Wildcard => rule.urlContains \in req.url

(* Set.Match: every matching rule, in order. *)
Match(rules, req) ==
  LET hits == {i \in DOMAIN rules : Matches(rules[i], req)}
      place(i) == Cardinality({j \in hits : j <= i})
  IN [p \in 1 .. Cardinality(hits) |-> rules[CHOOSE i \in hits : place(i) = p]]

(* Set.FirstMatch: the position of the first matching rule of a wanted      *)
(* action, 0 when there is none.                                            *)
FirstMatch(rules, req, wanted) ==
  LET hits == {i \in DOMAIN rules :
                 Matches(rules[i], req) /\ rules[i].action \in wanted}
  IN IF hits = {} THEN 0 ELSE Min(hits)

(* Faulty: h.Add instead of h.Set, so the first value stays in front. *)
ApplyOpAdding(h, op) ==
  [h EXCEPT ![op.name] = IF op.remove THEN Absent
                         ELSE IF @ = Absent THEN op.value ELSE @]

(* One header operation of a rewrite-header rule: h.Del or h.Set. *)
ApplyOp(h, op) ==
  [h EXCEPT ![op.name] = IF op.remove THEN Absent ELSE op.value]

(* The inner loop: the operations of one rule that target one side. *)
ApplyOps(h, ops, onResp) ==
  LET after[k \in 0 .. Len(ops)] ==
        IF k = 0 THEN h
        ELSE IF ops[k].onResp = onResp THEN ApplyOp(after[k - 1], ops[k])
        ELSE after[k - 1]
  IN after[Len(ops)]

(* The outer loop: the rewrite-header rules of matched, in their order. *)
ApplyHeaderRewrites(h, matched, onResp) ==
  LET after[i \in 0 .. Len(matched)] ==
        IF i = 0 THEN h
        ELSE IF matched[i].action = "rewrite-header"
        THEN ApplyOps(after[i - 1], matched[i].headers, onResp)
        ELSE after[i - 1]
  IN after[Len(matched)]
=============================================================================
