---------------------------- MODULE MCInterceptor ----------------------------
(* Interceptor with two concurrent requests, one of which a rule may block. *)
EXTENDS Interceptor, TLC

CONSTANTS
  x, location, v1   \* header names and a value

BlockPost ==
  [enabled |-> TRUE, method |-> <<"POST", "upper">>, urlContains |-> Wildcard,
   action |-> "block", headers |-> <<>>, redirectTo |-> v1]

MCRuleLists == {<<BlockPost>>}

MCRequests ==
  [method : {<<"GET", "upper">>, <<"POST", "lower">>}, url : {{}},
   headers : {NoHeaders}]

(* The requests are alike, and no temporal property is checked. *)
AnyOrder == Permutations(Reqs)

MCItoa == [n \in 0 .. MaxBody + 2 |-> ToString(n)]
MCHeaderValues == {Absent, v1} \cup {MCItoa[n] : n \in DOMAIN MCItoa}
MCResolve == [p \in {v1} \X {{}} |-> v1]

MCOriginHeaders == {[NoHeaders EXCEPT ![x] = v1]}
=============================================================================
