--------------------------- MODULE RuleEngine_proofs ---------------------------
(* Proofs about the rule engine package, where it runs in a page (MockBridge)    *)
(* and on any input (RuleEngineInputs), for any page, any configurations, any    *)
(* answers of the network and inputs of any length.                              *)
(*                                                                               *)
(* The order of the rules is settled first: the sorted and filtered list that    *)
(* evaluateRules returns has as its first rule of a type the one no other        *)
(* precedes, so a plan is what its rules prescribe.  Every action but an update  *)
(* is then shown to be an Outcome: the step of one call, which posts nothing,    *)
(* its report or its captures.  The invariants follow from Outcome alone, save   *)
(* the one about sequence mocks, which also needs what Begin does to the counts. *)
(*                                                                               *)
(* The tables of the text diff are functions defined by themselves.  TablesExist *)
(* says that there is one to choose when every entry is made from entries of     *)
(* lesser rank, and RankInduction then follows the rows to the ends of both      *)
(* texts.  That a shadowed rule is reported comes from the order of the rules    *)
(* again: a rule that comes first has no greater priority, and a condition that  *)
(* matches a request made of the other's condition overlaps with it.             *)
(*                                                                               *)
(* What is filtered or sorted is picked by rank, and every rank is taken once    *)
(* (RanksAreTaken), so that a list keeps the count of what it is made from       *)
(* (PicksCount) and AscendingNumbers says how many numbers the kth least one     *)
(* leaves on either side.  A total is counted as the size of a set of units      *)
(* (PickedTotal): the units of the endpoints are those of the capture.           *)
EXTENDS MockBridge, RuleEngineInputs, FiniteSetTheorems, SequenceTheorems, WellFoundedInduction, TLAPS

-------------------------------------------------------------------------------
(* The order of the rules.                                                       *)

Orderable(rules) ==
    /\ IsSequence(rules)
    /\ \A r \in RangeOf(rules) : r.priority \in Int /\ r.createdAt \in Int

(* Of two rules one comes before the other, whatever their priorities and ages.  *)
LEMMA OrderIsTotal ==
  ASSUME NEW rules, Orderable(rules)
  PROVE  /\ \A i, j \in DOMAIN rules :
               i # j => byPriorityThenCreatedAt(rules, i, j) \/ byPriorityThenCreatedAt(rules, j, i)
         /\ \A i, j, k \in DOMAIN rules :
               byPriorityThenCreatedAt(rules, i, j) /\ byPriorityThenCreatedAt(rules, j, k)
                  => byPriorityThenCreatedAt(rules, i, k)
         /\ \A i \in DOMAIN rules : ~byPriorityThenCreatedAt(rules, i, i)
         /\ \A i, j \in DOMAIN rules :
               ~(byPriorityThenCreatedAt(rules, i, j) /\ byPriorityThenCreatedAt(rules, j, i))
<1>1. \A i \in DOMAIN rules : /\ rules[i].priority \in Int /\ rules[i].createdAt \in Int
                              /\ i \in Int
  BY DEF Orderable, IsSequence, RangeOf
<1>2. \A i, j \in DOMAIN rules :
         i # j => byPriorityThenCreatedAt(rules, i, j) \/ byPriorityThenCreatedAt(rules, j, i)
  BY <1>1 DEF byPriorityThenCreatedAt
<1>3. \A i, j, k \in DOMAIN rules :
         byPriorityThenCreatedAt(rules, i, j) /\ byPriorityThenCreatedAt(rules, j, k)
            => byPriorityThenCreatedAt(rules, i, k)
  BY <1>1 DEF byPriorityThenCreatedAt
<1>4. \A i \in DOMAIN rules : ~byPriorityThenCreatedAt(rules, i, i)
  BY <1>1 DEF byPriorityThenCreatedAt
<1> QED BY <1>2, <1>3, <1>4

(* How many rules of M come before rule i, and one.                              *)
Place(rules, M, i) == Cardinality({ j \in M : byPriorityThenCreatedAt(rules, j, i) }) + 1

(* A rule has a place among M, and the earlier rule the lesser place.            *)
LEMMA PlacesFollowTheOrder ==
  ASSUME NEW rules, Orderable(rules), NEW M \in SUBSET DOMAIN rules
  PROVE  /\ IsFiniteSet(M)
         /\ \A i \in M : Place(rules, M, i) \in 1 .. Cardinality(M)
         /\ \A i, j \in M : byPriorityThenCreatedAt(rules, i, j)
                               => Place(rules, M, i) < Place(rules, M, j)
<1> DEFINE Ahead(i) == { j \in M : byPriorityThenCreatedAt(rules, j, i) }
<1>1. IsFiniteSet(M) /\ Cardinality(M) \in Nat
  <2>1. IsFiniteSet(DOMAIN rules)
    BY FS_Interval DEF Orderable, IsSequence
  <2> QED BY <2>1, FS_Subset, FS_CardinalityType
<1>2. \A i \in M : Place(rules, M, i) = Cardinality(Ahead(i)) + 1
  BY DEF Place
<1>3. \A i \in M : IsFiniteSet(Ahead(i)) /\ Cardinality(Ahead(i)) \in Nat
  BY <1>1, FS_Subset, FS_CardinalityType
<1>4. \A i \in M : Ahead(i) \subseteq M \ {i}
  BY OrderIsTotal
<1>5. \A i, j \in M : byPriorityThenCreatedAt(rules, i, j)
                          => Ahead(i) \subseteq Ahead(j) /\ i \in Ahead(j) /\ i \notin Ahead(i)
  BY OrderIsTotal
<1> HIDE DEF Ahead
<1>6. ASSUME NEW i \in M PROVE Place(rules, M, i) \in 1 .. Cardinality(M)
  <2>1. IsFiniteSet(M \ {i}) /\ Cardinality(M \ {i}) = Cardinality(M) - 1
    BY <1>1, FS_RemoveElement
  <2>2. Cardinality(Ahead(i)) <= Cardinality(M \ {i})
    BY <1>4, <2>1, FS_Subset
  <2> QED BY <1>1, <1>2, <1>3, <2>1, <2>2
<1>7. ASSUME NEW i \in M, NEW j \in M, byPriorityThenCreatedAt(rules, i, j)
      PROVE  Place(rules, M, i) < Place(rules, M, j)
  <2>1. Cardinality(Ahead(i)) <= Cardinality(Ahead(j))
    BY <1>3, <1>5, <1>7, FS_Subset
  <2>2. Cardinality(Ahead(i)) # Cardinality(Ahead(j))
    <3>1. SUFFICES ASSUME Cardinality(Ahead(i)) = Cardinality(Ahead(j)) PROVE FALSE
      OBVIOUS
    <3>2. Ahead(j) = Ahead(i)
      BY <1>3, <1>5, <1>7, <3>1, FS_Subset
    <3> QED BY <3>2, <1>5, <1>7
  <2> QED BY <1>2, <1>3, <2>1, <2>2
<1> QED BY <1>1, <1>6, <1>7

(* Each place is taken, by one rule.                                             *)
LEMMA PlacesAreTaken ==
  ASSUME NEW rules, Orderable(rules), NEW M \in SUBSET DOMAIN rules,
         NEW p \in 1 .. Cardinality(M)
  PROVE  \E i \in M : Place(rules, M, i) = p
<1> DEFINE f == [i \in M |-> Place(rules, M, i)]
           T == 1 .. Cardinality(M)
<1>1. IsFiniteSet(M) /\ Cardinality(M) \in Nat
  BY PlacesFollowTheOrder, FS_CardinalityType
<1>2. f \in [M -> T]
  BY PlacesFollowTheOrder
<1>3. \A i, j \in M : f[i] = f[j] => i = j
  <2> SUFFICES ASSUME NEW i \in M, NEW j \in M, i # j PROVE f[i] # f[j]
    OBVIOUS
  <2>1. \/ Place(rules, M, i) < Place(rules, M, j) \/ Place(rules, M, j) < Place(rules, M, i)
    BY OrderIsTotal, PlacesFollowTheOrder
  <2>2. Place(rules, M, i) \in Int /\ Place(rules, M, j) \in Int
    BY PlacesFollowTheOrder
  <2> QED BY <2>1, <2>2
<1>4. f \in Injection(M, T)
  BY <1>2, <1>3 DEF Injection, IsInjective
<1>5. IsFiniteSet(T) /\ Cardinality(T) = Cardinality(M)
  BY <1>1, FS_Interval
<1>6. f \in Surjection(M, T)
  BY <1>4, <1>5, FS_Injection
<1> QED BY <1>6 DEF Surjection

(* The rules that enter the evaluation.                                          *)
Entering(rules, request) ==
    { i \in DOMAIN rules : rules[i].enabled /\ matchesCondition(rules[i], request) }

(* evaluateRules puts every rule that enters into its place, and nothing else    *)
(* anywhere.                                                                     *)
LEMMA EvaluatedInOrder ==
  ASSUME NEW rules, Orderable(rules), NEW request
  PROVE  LET M == Entering(rules, request)
             s == evaluateRules(rules, request)
         IN  /\ s = [p \in 1 .. Cardinality(M) |-> s[p]]
             /\ Cardinality(M) \in Nat
             /\ \A p \in 1 .. Cardinality(M) :
                   \E i \in M : Place(rules, M, i) = p /\ s[p] = rules[i]
             /\ \A i \in M : s[Place(rules, M, i)] = rules[i]
<1> DEFINE M == Entering(rules, request)
           s == evaluateRules(rules, request)
<1>1. s = [p \in 1 .. Cardinality(M) |-> rules[CHOOSE i \in M : Place(rules, M, i) = p]]
  BY DEF evaluateRules, Entering, Place
<1>2. M \in SUBSET DOMAIN rules
  BY DEF Entering
<1>3. Cardinality(M) \in Nat
  BY <1>2, PlacesFollowTheOrder, FS_CardinalityType
<1>4. \A p \in 1 .. Cardinality(M) : \E i \in M : Place(rules, M, i) = p
  BY <1>2, PlacesAreTaken
<1> HIDE DEF M, s
<1>5. \A p \in 1 .. Cardinality(M) :
         \E i \in M : Place(rules, M, i) = p /\ s[p] = rules[i]
  BY <1>1, <1>4
<1>6. ASSUME NEW i \in M PROVE s[Place(rules, M, i)] = rules[i]
  <2>1. Place(rules, M, i) \in 1 .. Cardinality(M)
    BY <1>2, PlacesFollowTheOrder
  <2>2. PICK j \in M : /\ Place(rules, M, j) = Place(rules, M, i)
                       /\ s[Place(rules, M, i)] = rules[j]
    BY <1>5, <2>1
  <2>3. i = j
    <3> SUFFICES ASSUME i # j PROVE FALSE
      OBVIOUS
    <3>1. \/ Place(rules, M, i) < Place(rules, M, j) \/ Place(rules, M, j) < Place(rules, M, i)
      BY <1>2, OrderIsTotal, PlacesFollowTheOrder
    <3> QED BY <3>1, <2>1, <2>2
  <2> QED BY <2>2, <2>3
<1>7. s = [p \in 1 .. Cardinality(M) |-> s[p]]
  BY <1>1
<1> QED BY <1>3, <1>5, <1>6, <1>7 DEF M, s

(* A set of numbers has a least one: what CHOOSE and Min pick in the model.      *)
LEMMA LeastNumber ==
  ASSUME NEW P \in SUBSET Nat, P # {}
  PROVE  \E m \in P : \A n \in P : m <= n
<1> DEFINE R == {ss \in Nat \X Nat : ss[1] < ss[2]}
<1>1. IsWellFoundedOn(R, Nat)
  BY NatLessThanWellFounded DEF OpToRel
<1>2. PICK m \in P : \A n \in P : ~(<<n, m>> \in R)
  BY <1>1, WFMin
<1>3. \A n \in P : ~(n < m)
  BY <1>2
<1> QED BY <1>3

LEMMA LeastIsMin ==
  ASSUME NEW S \in SUBSET Nat, S # {}
  PROVE  Min(S) \in S /\ \A n \in S : Min(S) <= n
BY LeastNumber DEF Min

(* The places of a type in the sorted rules, and the rules of it.                *)
PlacesOf(s, type) == { p \in 1 .. Len(s) : s[p].type = type }

OfType(rules, request, type) ==
    { i \in DOMAIN rules : /\ rules[i].enabled /\ rules[i].type = type
                           /\ matchesCondition(rules[i], request) }

Foremost(rules, S) == { i \in S : \A j \in S \ {i} : byPriorityThenCreatedAt(rules, i, j) }

(* FirstIn returns the rule at the first place of the type, or NoRule.           *)
LEMMA FirstIsFound ==
  ASSUME NEW s, Len(s) \in Nat, NEW type
  PROVE  IF PlacesOf(s, type) = {} THEN FirstIn(s, type) = NoRule
         ELSE /\ FirstIn(s, type) = s[Min(PlacesOf(s, type))]
              /\ Min(PlacesOf(s, type)) \in PlacesOf(s, type)
              /\ \A p \in PlacesOf(s, type) : Min(PlacesOf(s, type)) <= p
<1>1. SelectInSeq(s, LAMBDA r : r.type = type)
         = IF PlacesOf(s, type) # {} THEN Min(PlacesOf(s, type)) ELSE 0
  BY DEF SelectInSeq, PlacesOf
<1>2. PlacesOf(s, type) \in SUBSET Nat /\ 0 \notin PlacesOf(s, type)
  BY DEF PlacesOf
<1>3. CASE PlacesOf(s, type) = {}
  BY <1>1, <1>3 DEF FirstIn
<1>4. CASE PlacesOf(s, type) # {}
  <2>1. /\ Min(PlacesOf(s, type)) \in PlacesOf(s, type)
        /\ \A p \in PlacesOf(s, type) : Min(PlacesOf(s, type)) <= p
    BY <1>2, <1>4, LeastIsMin
  <2>2. Min(PlacesOf(s, type)) # 0
    BY <1>2, <2>1
  <2>3. FirstIn(s, type) = s[Min(PlacesOf(s, type))]
    BY <1>1, <1>4, <2>2 DEF FirstIn
  <2> QED BY <1>4, <2>1, <2>3
<1> QED BY <1>3, <1>4

(* The first rule of a type among the sorted ones is the one that governs.       *)
LEMMA FirstOfTypeGoverns ==
  ASSUME NEW k, Orderable(k.rules), NEW request, NEW type
  PROVE  FirstOfType(k, request, type) = Governing(k, request, type)
<1> DEFINE rules == k.rules
           M == Entering(rules, request)
           s == evaluateRules(rules, request)
           ofType == OfType(rules, request, type)
           first == Foremost(rules, ofType)
           found == PlacesOf(s, type)
           before(i, j) == byPriorityThenCreatedAt(rules, i, j)
<1>1. Governing(k, request, type) = IF first = {} THEN NoRule ELSE rules[CHOOSE i \in first : TRUE]
  BY DEF Governing, OfType, Foremost
<1>2. ofType = { i \in M : rules[i].type = type }
  BY DEF OfType, Entering
<1>3. FirstOfType(k, request, type) = FirstIn(s, type)
  BY DEF FirstOfType, Matched
<1>4. /\ Len(s) = Cardinality(M) /\ Cardinality(M) \in Nat
      /\ \A p \in 1 .. Cardinality(M) : \E i \in M : Place(rules, M, i) = p /\ s[p] = rules[i]
      /\ \A i \in M : s[Place(rules, M, i)] = rules[i]
  BY EvaluatedInOrder
<1>5. M \in SUBSET DOMAIN rules
  BY DEF Entering
<1>6. /\ \A i \in M : Place(rules, M, i) \in 1 .. Cardinality(M)
      /\ \A i, j \in M : before(i, j) => Place(rules, M, i) < Place(rules, M, j)
      /\ \A i, j \in M : i # j => before(i, j) \/ before(j, i)
  BY <1>5, PlacesFollowTheOrder, OrderIsTotal
<1>7. found = { p \in 1 .. Cardinality(M) : s[p].type = type }
  BY <1>4 DEF PlacesOf
<1>8. first = { i \in ofType : \A j \in ofType \ {i} : before(i, j) }
  BY DEF Foremost
<1> HIDE DEF M, s, before, ofType, first, found
<1>9. CASE found = {}
  <2>1. ofType = {}
    <3> SUFFICES ASSUME NEW i \in ofType PROVE FALSE
      OBVIOUS
    <3>1. Place(rules, M, i) \in found
      BY <1>2, <1>4, <1>6, <1>7
    <3> QED BY <1>9, <3>1
  <2>2. first = {}
    BY <1>8, <2>1
  <2>3. FirstIn(s, type) = NoRule
    BY <1>4, <1>9, FirstIsFound DEF found
  <2> QED BY <1>1, <1>3, <2>2, <2>3
<1>10. CASE found # {}
  <2> DEFINE least == Min(found)
  <2>1. /\ FirstIn(s, type) = s[least]
        /\ least \in found /\ \A p \in found : least <= p
    BY <1>4, <1>10, FirstIsFound DEF found
  <2> HIDE DEF least
  <2>2. PICK i \in M : Place(rules, M, i) = least /\ s[least] = rules[i]
    BY <1>4, <1>7, <2>1
  <2>3. i \in ofType
    BY <1>2, <1>7, <2>1, <2>2
  <2>4. ASSUME NEW j \in ofType, j # i PROVE before(i, j) /\ ~before(j, i)
    <3>1. j \in M /\ Place(rules, M, j) \in found
      BY <1>2, <1>4, <1>6, <1>7
    <3>2. least <= Place(rules, M, j)
      BY <2>1, <3>1
    <3>3. Place(rules, M, j) \in Int /\ least \in Int
      BY <1>6, <1>7, <2>1, <3>1
    <3>4. ~(Place(rules, M, j) < Place(rules, M, i))
      BY <2>2, <3>2, <3>3
    <3>5. ~before(j, i)
      BY <1>6, <3>1, <3>4
    <3> QED BY <1>6, <2>4, <3>1, <3>5
  <2>5. first = {i}
    BY <1>8, <2>3, <2>4
  <2>6. (CHOOSE j \in first : TRUE) = i
    BY <2>5
  <2> QED BY <1>1, <1>3, <2>1, <2>2, <2>5, <2>6
<1> QED BY <1>9, <1>10

-------------------------------------------------------------------------------
(* What a call has decided.                                                      *)

IsPlan(p) == p = [source |-> p.source, status |-> p.status, body |-> p.body,
                  out |-> p.out, rules |-> p.rules]

IsReply(r) == r = [status |-> r.status, body |-> r.body]

IsCall(r) ==
    /\ r = [pc |-> r.pc, plan |-> r.plan, sent |-> r.sent, reply |-> r.reply]
    /\ IsPlan(r.plan) /\ IsReply(r.reply)

Mocks == {"conditional", "mock"}

(* The plan of a call that is about to be answered or to be sent: as the rules   *)
(* it was made from prescribe, save that a fetch looks for a rewrite later.      *)
Ready(request, plan) ==
    LET source == Prescribed(plan.rules, request)
    IN  /\ IsPlan(plan)
        /\ plan.rules \in Configs
        /\ plan.out = PrescribedBody(plan.rules, request)
        /\ plan.source = IF request.transport = "fetch" /\ source \notin Mocks
                         THEN "open" ELSE source

Late(request, plan) == Governing(plan.rules, request, "delay").payload.delayMs # 0

Fixed(request, plan) ==
    \/ request.transport # "fetch" \/ Prescribed(plan.rules, request) \in Mocks
    \/ ~Late(request, plan)

(* What a call has done that was answered or sent.                               *)
Went(request, r) ==
    LET source == Prescribed(r.plan.rules, request)
        out == r.plan.out
    IN  /\ r.plan.out = PrescribedBody(r.plan.rules, request)
        /\ r.plan.source \in Mocks \cup {"rewrite", "real"}
        /\ r.pc = "network" => r.plan.source \in {"rewrite", "real"}
        /\ r.pc = "capturing" => r.plan.source = "real" /\ request.transport = "fetch"
        /\ Fixed(request, r.plan) =>
              \/ /\ r.plan.source = source
                 /\ r.sent = IF source \in Mocks THEN <<>> ELSE <<out>>
              \/ /\ request.transport # "fetch" /\ source = "rewrite"
                 /\ r.plan.source = "real" /\ r.sent = <<out, out>>

Standing(request, r) ==
    /\ r.pc \in {"idle", "delayed", "network", "capturing", "settled"}
    /\ r.pc \in {"idle", "delayed"} => r.sent = <<>>
    /\ r.pc = "delayed" => Ready(request, r.plan) /\ Late(request, r.plan)
    /\ r.pc \in {"network", "capturing", "settled"} => Went(request, r)

CallsTyped ==
    /\ callOf \in Pages /\ config \in Configs
    /\ DOMAIN calls = Calls /\ calls = [c \in Calls |-> calls[c]]
    /\ \A c \in Calls : IsCall(calls[c])
    /\ DOMAIN shadow = Objects /\ \A o \in Objects : IsReply(shadow[o])
    /\ DOMAIN listeners = Objects /\ \A o \in Objects : listeners[o] \in Seq(Calls)
    /\ IsSequence(posted)

CallsStand == \A c \in Calls : Standing(callOf[c], calls[c])

-------------------------------------------------------------------------------
(* What a step of call c does to it and says of it.                              *)

Quiet(c) ==
    /\ posted' = posted
    /\ calls'[c].pc = "settled" => calls'[c].plan.source = "real" \/ calls'[c].reply = Rejected

Reported(c) ==
    /\ calls'[c].pc = "settled" /\ calls'[c].plan.source # "real"
    /\ calls[c].pc \in {"idle", "delayed"} \/ calls[c].plan.source # "real"
    /\ \E status, body :
          /\ posted' = (posted \o Captures(Heard(c), calls'[c].reply))
                          \o <<MockApplied(c, status, body)>>
          /\ \/ calls'[c].reply = [status |-> status, body |-> body]
             \/ c \in Fetches /\ calls'[c].reply = Rejected /\ ~Constructible(status)

Captured(c) ==
    /\ calls'[c].pc = "settled" /\ calls'[c].plan.source = "real"
    /\ posted' = posted \o Captures(IF c \in Fetches THEN <<c>> ELSE Heard(c), calls'[c].reply)

Listens(c) ==
    \/ listeners' = listeners
    \/ /\ c \in Xhrs /\ calls'[c].pc = "network" /\ calls'[c].plan.source = "real"
       /\ listeners' = [listeners EXCEPT ![callOf[c].xhr] = Append(@, c)]

Outcome(c) ==
    /\ UNCHANGED <<callOf, config>>
    /\ calls[c].pc # "settled" /\ calls'[c].pc # "idle"
    /\ calls' = [calls EXCEPT ![c] = calls'[c]]
    /\ IsCall(calls'[c]) /\ Standing(callOf[c], calls'[c])
    /\ calls[c].pc # "idle" => /\ calls'[c].plan.rules = calls[c].plan.rules
                               /\ calls'[c].plan.status = calls[c].plan.status
    /\ calls[c].pc = "network" /\ calls[c].plan.source = "real" =>
          calls'[c].pc \in {"capturing", "settled"} /\ calls'[c].plan.source = "real"
    /\ DOMAIN shadow' = Objects /\ \A o \in Objects : IsReply(shadow'[o])
    /\ Quiet(c) \/ Reported(c) \/ Captured(c)
    /\ Listens(c)

-------------------------------------------------------------------------------
(* What a call becomes.                                                          *)

LEMMA SettledCall ==
  ASSUME CallsTyped, NEW c \in Calls, NEW plan, NEW reply, IsPlan(plan), IsReply(reply),
         Settle(c, plan, reply)
  PROVE  /\ calls' = [calls EXCEPT ![c] = calls'[c]]
         /\ calls'[c] = [pc |-> "settled", plan |-> plan, sent |-> calls[c].sent,
                         reply |-> reply]
         /\ IsCall(calls'[c])
<1>1. calls'[c] = [pc |-> "settled", plan |-> plan, sent |-> calls[c].sent, reply |-> reply]
  BY DEF CallsTyped, Settle
<1>2. calls' = [calls EXCEPT ![c] = calls'[c]]
  BY <1>1 DEF Settle
<1>3. IsCall(calls'[c])
  BY <1>1 DEF IsCall
<1> QED BY <1>1, <1>2, <1>3

LEMMA TransmittedCall ==
  ASSUME CallsTyped, NEW c \in Calls, NEW plan, IsPlan(plan), Transmit(c, plan)
  PROVE  /\ calls' = [calls EXCEPT ![c] = calls'[c]]
         /\ calls'[c] = [pc |-> "network", plan |-> plan,
                         sent |-> Append(calls[c].sent, plan.out), reply |-> calls[c].reply]
         /\ IsCall(calls'[c])
<1>1. calls'[c] = [pc |-> "network", plan |-> plan,
                   sent |-> Append(calls[c].sent, plan.out), reply |-> calls[c].reply]
  BY DEF CallsTyped, Transmit
<1>2. IsReply(calls[c].reply)
  BY DEF CallsTyped, IsCall
<1>3. calls' = [calls EXCEPT ![c] = calls'[c]]
  BY <1>1 DEF Transmit
<1>4. IsCall(calls'[c])
  BY <1>1, <1>2 DEF IsCall
<1> QED BY <1>1, <1>3, <1>4

(* Every configuration's rules can be sorted.                                    *)
LEMMA RulesAreOrderable ==
  ASSUME NEW k \in Configs
  PROVE  Orderable(k.rules)
BY BridgeAssumption DEF Orderable

(* The plan made when a call begins.                                             *)
LEMMA PlansAreReady ==
  ASSUME CallsTyped, NEW c \in Calls,
         NEW conditional, conditional = resolveConditionalMock(config, callOf[c]),
         NEW plan, plan = IF c \in Fetches THEN PlanFetch(c, conditional)
                          ELSE PlanXhr(c, conditional)
  PROVE  /\ Ready(callOf[c], plan) /\ plan.rules = config
         /\ conditional.mocked => plan.status = conditional.payload.status
<1> DEFINE q == callOf[c]
           G(type) == Governing(config, q, type)
           source == Prescribed(config, q)
<1>1. config \in Configs /\ Orderable(config.rules)
  BY RulesAreOrderable DEF CallsTyped
<1>2. \A type : FirstOfType(config, q, type) = Governing(config, q, type)
  BY <1>1, FirstOfTypeGoverns
<1>3. conditional.mocked <=> \E m \in RangeOf(config.mocks) : Applies(m, q)
  BY DEF resolveConditionalMock, Applying, NotMocked, RangeOf
<1>4. findRequestBodyRewrite(config, q) = PrescribedBody(config, q)
  BY <1>2 DEF findRequestBodyRewrite, PrescribedBody
<1>5. findMockMatch(config, q) # NoMock <=>
         \/ G("mock-response").payload.body # NoTemplate
         \/ G("mock-status").payload.status # 0
  <2> DEFINE response == FirstOfType(config, q, "mock-response").payload
             status == FirstOfType(config, q, "mock-status").payload.status
             match == findMockMatch(config, q)
  <2>1. CASE response.body = NoTemplate /\ status = 0
    BY <1>2, <2>1 DEF findMockMatch
  <2>2. CASE status # 0
    <3>1. match.status = status
      BY <2>2 DEF findMockMatch
    <3> QED BY <1>2, <2>2, <3>1 DEF NoMock
  <2>3. CASE response.body # NoTemplate
    <3>1. match.body = response.body
      BY <2>3 DEF findMockMatch
    <3> QED BY <1>2, <2>3, <3>1 DEF NoMock
  <2> QED BY <2>1, <2>2, <2>3
<1>6. findRewriteResponseRule(config, q) = G("rewrite-response").payload.body
  BY <1>2 DEF findRewriteResponseRule
<1>7. /\ conditional.mocked => source = "conditional"
      /\ ~conditional.mocked /\ findMockMatch(config, q) # NoMock => source = "mock"
      /\ ~conditional.mocked /\ findMockMatch(config, q) = NoMock =>
            source = IF findRewriteResponseRule(config, q) # NoTemplate THEN "rewrite" ELSE "real"
  BY <1>3, <1>5, <1>6 DEF Prescribed
<1>8. plan.rules = config /\ IsPlan(plan) /\ plan.out = PrescribedBody(config, q)
  BY <1>4 DEF PlanFetch, PlanXhr, Plan, IsPlan
<1>9. conditional.mocked => plan.status = conditional.payload.status
  BY DEF PlanFetch, PlanXhr, Plan
<1>10. q.transport = "fetch" <=> c \in Fetches
  BY DEF Fetches
<1>11. plan.source = IF q.transport = "fetch" /\ source \notin Mocks THEN "open" ELSE source
  BY <1>7, <1>10 DEF PlanFetch, PlanXhr, Plan, Mocks
<1> QED BY <1>1, <1>8, <1>9, <1>11 DEF Ready

(* Nobody hears: nothing is posted.                                              *)
LEMMA NothingCaptured ==
  ASSUME CallsTyped, NEW reply, NEW m
  PROVE  /\ Captures(<<>>, reply) = <<>>
         /\ posted \o Captures(<<>>, reply) = posted
         /\ Append(posted, m) = (posted \o Captures(<<>>, reply)) \o <<m>>
<1>1. Captures(<<>>, reply) = <<>>
  BY DEF Captures
<1>2. posted \in Seq(RangeOf(posted))
  BY DEF CallsTyped, IsSequence
<1> QED BY <1>1, <1>2

(* Which sources a plan may have that has not been carried out.                  *)
LEMMA ReadyCalls ==
  ASSUME NEW q, NEW plan, Ready(q, plan)
  PROVE  /\ plan.source \in {"open", "rewrite", "real"} \cup Mocks
         /\ plan.source \in Mocks => plan.source = Prescribed(plan.rules, q)
         /\ q.transport = "fetch" => plan.source \in {"open"} \cup Mocks
         /\ q.transport # "fetch" => plan.source = Prescribed(plan.rules, q)
         /\ plan.source = "open" => /\ q.transport = "fetch"
                                    /\ Prescribed(plan.rules, q) \in {"rewrite", "real"}
<1>1. Prescribed(plan.rules, q) \in {"rewrite", "real"} \cup Mocks
  BY DEF Prescribed, Mocks
<1> QED BY <1>1 DEF Ready, Mocks

(* A mocked call that has its answer.                                            *)
LEMMA MockedCallStands ==
  ASSUME NEW q, NEW plan, Ready(q, plan), plan.source \in Mocks, NEW reply
  PROVE  Standing(q, [pc |-> "settled", plan |-> plan, sent |-> <<>>, reply |-> reply])
<1>1. Prescribed(plan.rules, q) = plan.source
  BY ReadyCalls
<1> QED BY <1>1 DEF Standing, Went, Ready

(* A call that has been sent, with the source its rules prescribe or, when it    *)
(* waited, another.                                                              *)
LEMMA SentCallStands ==
  ASSUME NEW q, NEW plan, Ready(q, plan), plan.source \notin Mocks, NEW reply,
         NEW p, p.rules = plan.rules, p.out = plan.out, p.source \in {"rewrite", "real"},
         \/ p.source = Prescribed(plan.rules, q)
         \/ q.transport = "fetch" /\ Late(q, plan)
  PROVE  Standing(q, [pc |-> "network", plan |-> p, sent |-> <<plan.out>>, reply |-> reply])
<1>1. Prescribed(plan.rules, q) \notin Mocks
  BY ReadyCalls DEF Ready
<1>2. Late(q, plan) => Late(q, p)
  BY DEF Late
<1> QED BY <1>1, <1>2 DEF Standing, Went, Ready, Fixed, Mocks

-------------------------------------------------------------------------------
(* A call goes on: at once, or when its delay is over.                           *)

GoesOn(c, plan) ==
    /\ CallsTyped
    /\ UNCHANGED <<callOf, config>>
    /\ Ready(callOf[c], plan)
    /\ plan.rules = config \/ Late(callOf[c], plan)
    /\ calls[c].sent = <<>> /\ calls[c].pc \in {"idle", "delayed"}
    /\ calls[c].pc = "delayed" => calls[c].plan = plan

(* A mocked fetch answers and is reported; any other is sent.                    *)
LEMMA FetchIsAnswered ==
  ASSUME NEW c \in Calls, NEW plan, GoesOn(c, plan), c \in Fetches, plan.source # "open",
         AnswerFetch(c, plan), UNCHANGED <<shadow, listeners>>
  PROVE  Outcome(c)
<1>1. PICK body : /\ posted' = Append(posted, MockApplied(c, plan.status, body))
                  /\ Settle(c, plan, Respond(plan.status, body))
  BY DEF AnswerFetch
<1> DEFINE reply == Respond(plan.status, body)
<1>2. /\ IsReply(reply)
      /\ \/ reply = [status |-> plan.status, body |-> body]
         \/ reply = Rejected /\ ~Constructible(plan.status)
  BY DEF Respond, IsReply, Rejected
<1> HIDE DEF reply
<1>3. CallsTyped /\ IsPlan(plan)
  BY DEF GoesOn, Ready
<1>4. /\ calls' = [calls EXCEPT ![c] = calls'[c]]
      /\ calls'[c] = [pc |-> "settled", plan |-> plan, sent |-> calls[c].sent, reply |-> reply]
      /\ IsCall(calls'[c])
  BY <1>1, <1>2, <1>3, SettledCall DEF reply
<1>5. callOf[c].transport = "fetch"
  BY DEF Fetches
<1>6. plan.source \in Mocks
  BY <1>5, ReadyCalls DEF GoesOn
<1>7. Standing(callOf[c], calls'[c])
  BY <1>4, <1>6, MockedCallStands DEF GoesOn
<1>8. posted' = (posted \o Captures(Heard(c), reply)) \o <<MockApplied(c, plan.status, body)>>
  BY <1>1, <1>3, NothingCaptured DEF Heard, Xhrs
<1>9. Reported(c)
  BY <1>2, <1>4, <1>6, <1>8 DEF Reported, Mocks, GoesOn
<1> QED BY <1>4, <1>7, <1>9 DEF Outcome, Listens, GoesOn, CallsTyped

LEMMA FetchIsSent ==
  ASSUME NEW c \in Calls, NEW plan, GoesOn(c, plan), c \in Fetches, plan.source = "open",
         CallThrough(c, plan), UNCHANGED <<shadow, listeners>>
  PROVE  Outcome(c)
<1> DEFINE q == callOf[c]
           rewrite == findRewriteResponseRule(config, q)
           source == IF rewrite = NoTemplate THEN "real" ELSE "rewrite"
           sending == [source |-> source, status |-> plan.status, body |-> rewrite,
                       out |-> plan.out, rules |-> plan.rules]
<1>1. CallsTyped /\ Ready(q, plan) /\ IsPlan(plan)
  BY DEF GoesOn, Ready
<1>2. [plan EXCEPT !.source = source, !.body = rewrite] = sending
  <2>1. PICK a : a = [plan EXCEPT !.source = source]
    OBVIOUS
  <2>2. a = [source |-> source, status |-> plan.status, body |-> plan.body,
             out |-> plan.out, rules |-> plan.rules]
    BY <1>1, <2>1 DEF IsPlan
  <2>3. [a EXCEPT !.body = rewrite] = sending
    BY <2>2
  <2> QED BY <2>1, <2>3
<1>3. Transmit(c, sending) /\ posted' = posted
  BY <1>2 DEF CallThrough
<1>4. PICK p : /\ Transmit(c, p)
               /\ IsPlan(p) /\ p.rules = plan.rules /\ p.out = plan.out
               /\ p.status = plan.status /\ p.source = source
  BY <1>3 DEF IsPlan
<1>5. q.transport = "fetch" /\ Prescribed(plan.rules, q) \in {"rewrite", "real"}
  BY <1>1, ReadyCalls
<1>6. plan.rules = config => source = Prescribed(plan.rules, q)
  <2>1. config \in Configs /\ Orderable(config.rules)
    BY <1>1, RulesAreOrderable DEF CallsTyped
  <2>2. rewrite = Governing(config, q, "rewrite-response").payload.body
    BY <2>1, FirstOfTypeGoverns DEF findRewriteResponseRule
  <2> QED BY <1>5, <2>2 DEF Prescribed
<1> HIDE DEF sending, rewrite, source
<1>7. source \in {"rewrite", "real"}
  BY DEF source
<1>8. /\ calls' = [calls EXCEPT ![c] = calls'[c]]
      /\ calls'[c] = [pc |-> "network", plan |-> p, sent |-> <<plan.out>>, reply |-> calls[c].reply]
      /\ IsCall(calls'[c])
  <2>1. Append(calls[c].sent, p.out) = <<plan.out>>
    BY <1>4 DEF GoesOn
  <2>2. CallsTyped /\ IsPlan(p) /\ Transmit(c, p)
    BY <1>1, <1>4
  <2>3. /\ calls' = [calls EXCEPT ![c] = calls'[c]]
        /\ calls'[c] = [pc |-> "network", plan |-> p, sent |-> Append(calls[c].sent, p.out),
                        reply |-> calls[c].reply]
        /\ IsCall(calls'[c])
    BY <2>2, TransmittedCall
  <2> QED BY <2>1, <2>3
<1>9. Standing(q, calls'[c])
  BY <1>1, <1>4, <1>5, <1>6, <1>7, <1>8, SentCallStands DEF GoesOn, Mocks
<1>10. Quiet(c)
  BY <1>3, <1>8 DEF Quiet
<1>11. calls[c].pc # "idle" => /\ calls'[c].plan.rules = calls[c].plan.rules
                               /\ calls'[c].plan.status = calls[c].plan.status
  BY <1>4, <1>8 DEF GoesOn
<1>12. calls[c].pc \in {"idle", "delayed"} /\ calls'[c].pc = "network"
  BY <1>8 DEF GoesOn
<1>13. DOMAIN shadow' = Objects /\ \A o \in Objects : IsReply(shadow'[o])
  BY <1>1 DEF CallsTyped
<1> QED BY <1>8, <1>9, <1>10, <1>11, <1>12, <1>13 DEF Outcome, Listens, GoesOn

(* A mocked or rewritten object delivers its reply, and every listener hears     *)
(* it.                                                                           *)
LEMMA XhrIsDelivered ==
  ASSUME CallsTyped, UNCHANGED callOf, NEW c \in Calls, c \in Xhrs, NEW plan, NEW reply,
         IsPlan(plan), IsReply(reply), deliverMockedXhr(c, plan, reply), plan.source # "real",
         calls[c].pc \in {"idle", "delayed"} \/ calls[c].plan.source # "real"
  PROVE  /\ calls' = [calls EXCEPT ![c] = calls'[c]] /\ IsCall(calls'[c])
         /\ calls'[c] = [pc |-> "settled", plan |-> plan, sent |-> calls[c].sent,
                         reply |-> reply]
         /\ DOMAIN shadow' = Objects /\ \A o \in Objects : IsReply(shadow'[o])
         /\ Reported(c) /\ listeners' = listeners
<1>1. c \notin Fetches
  BY DEF Xhrs
<1>2. /\ shadow' = [shadow EXCEPT ![callOf[c].xhr] = reply]
      /\ posted' = posted \o Captures(Heard(c), reply)
                      \o <<MockApplied(c, reply.status, reply.body)>>
      /\ Settle(c, plan, reply) /\ listeners' = listeners
  BY DEF deliverMockedXhr
<1>3. /\ calls' = [calls EXCEPT ![c] = calls'[c]] /\ IsCall(calls'[c])
      /\ calls'[c] = [pc |-> "settled", plan |-> plan, sent |-> calls[c].sent, reply |-> reply]
  BY <1>2, SettledCall
<1>4. DOMAIN shadow' = Objects /\ \A o \in Objects : IsReply(shadow'[o])
  BY <1>2 DEF CallsTyped
<1>5. posted' = (posted \o Captures(Heard(c), reply)) \o <<MockApplied(c, reply.status, reply.body)>>
  BY <1>2
<1>6. Reported(c)
  BY <1>3, <1>5 DEF Reported, IsReply
<1> QED BY <1>2, <1>3, <1>4, <1>6

(* An object is sent as it is and listened to.                                   *)
LEMMA XhrIsSent ==
  ASSUME CallsTyped, NEW c \in Calls, c \in Xhrs, NEW plan, IsPlan(plan), sendReal(c, plan)
  PROVE  \E p : /\ IsPlan(p) /\ p.rules = plan.rules /\ p.out = plan.out
                /\ p.status = plan.status /\ p.source = "real"
                /\ calls' = [calls EXCEPT ![c] = calls'[c]] /\ IsCall(calls'[c])
                /\ calls'[c] = [pc |-> "network", plan |-> p,
                                sent |-> Append(calls[c].sent, plan.out),
                                reply |-> calls[c].reply]
                /\ Quiet(c) /\ Listens(c) /\ shadow' = shadow
<1>1. PICK p : p = [plan EXCEPT !.source = "real"]
  OBVIOUS
<1>2. p = [source |-> "real", status |-> plan.status, body |-> plan.body,
           out |-> plan.out, rules |-> plan.rules]
  BY <1>1 DEF IsPlan
<1>3. /\ IsPlan(p) /\ p.rules = plan.rules /\ p.out = plan.out
      /\ p.status = plan.status /\ p.source = "real"
  BY <1>2 DEF IsPlan
<1>4. /\ listeners' = [listeners EXCEPT ![callOf[c].xhr] = Append(@, c)]
      /\ Transmit(c, p) /\ shadow' = shadow /\ posted' = posted
  BY <1>1 DEF sendReal
<1>5. /\ calls' = [calls EXCEPT ![c] = calls'[c]] /\ IsCall(calls'[c])
      /\ calls'[c] = [pc |-> "network", plan |-> p, sent |-> Append(calls[c].sent, p.out),
                      reply |-> calls[c].reply]
  BY <1>3, <1>4, TransmittedCall
<1>6. Quiet(c) /\ Listens(c)
  BY <1>3, <1>4, <1>5 DEF Quiet, Listens
<1> QED BY <1>3, <1>4, <1>5, <1>6

(* What an XMLHttpRequest does when its delay is over.                           *)
LEMMA XhrGoesOn ==
  ASSUME NEW c \in Calls, NEW plan, GoesOn(c, plan), c \notin Fetches, ContinueXhr(c, plan)
  PROVE  Outcome(c)
<1> DEFINE q == callOf[c]
<1>1. CallsTyped /\ Ready(q, plan) /\ IsPlan(plan) /\ UNCHANGED <<callOf, config>>
  BY DEF GoesOn, Ready
<1>2. c \in Xhrs /\ q.transport # "fetch"
  BY DEF Xhrs, Fetches
<1>3. /\ plan.source = Prescribed(plan.rules, q)
      /\ plan.source \in {"rewrite", "real"} \cup Mocks
  BY <1>1, <1>2, ReadyCalls DEF Mocks
<1>4. /\ calls[c].pc \in {"idle", "delayed"} /\ calls[c].sent = <<>>
      /\ calls[c].pc = "delayed" => calls[c].plan = plan
  BY DEF GoesOn
<1>5. Append(calls[c].sent, plan.out) = <<plan.out>>
  BY <1>4
<1>6. CASE plan.source \in Mocks
  <2> DEFINE reply == [status |-> plan.status, body |-> plan.body]
  <2>1. deliverMockedXhr(c, plan, reply)
    BY <1>6 DEF ContinueXhr, Mocks
  <2>2. IsReply(reply) /\ plan.source # "real"
    BY <1>6 DEF IsReply, Mocks
  <2>3. /\ calls' = [calls EXCEPT ![c] = calls'[c]] /\ IsCall(calls'[c])
        /\ calls'[c] = [pc |-> "settled", plan |-> plan, sent |-> calls[c].sent,
                        reply |-> reply]
        /\ DOMAIN shadow' = Objects /\ \A o \in Objects : IsReply(shadow'[o])
        /\ Reported(c) /\ listeners' = listeners
    BY <1>1, <1>2, <1>4, <2>1, <2>2, XhrIsDelivered
  <2>4. Standing(q, calls'[c])
    BY <1>1, <1>4, <1>6, <2>3, MockedCallStands
  <2> QED BY <1>1, <1>4, <2>3, <2>4 DEF Outcome, Listens
<1>7. CASE plan.source = "real"
  <2>1. sendReal(c, plan)
    BY <1>7 DEF ContinueXhr
  <2>2. PICK p : /\ IsPlan(p) /\ p.rules = plan.rules /\ p.out = plan.out
                 /\ p.status = plan.status /\ p.source = "real"
                 /\ calls' = [calls EXCEPT ![c] = calls'[c]] /\ IsCall(calls'[c])
                 /\ calls'[c] = [pc |-> "network", plan |-> p,
                                 sent |-> Append(calls[c].sent, plan.out),
                                 reply |-> calls[c].reply]
                 /\ Quiet(c) /\ Listens(c) /\ shadow' = shadow
    BY <1>1, <1>2, <2>1, XhrIsSent
  <2>3. plan.source \notin Mocks
    BY <1>7 DEF Mocks
  <2>4. calls'[c] = [pc |-> "network", plan |-> p, sent |-> <<plan.out>>,
                     reply |-> calls[c].reply]
    BY <1>5, <2>2
  <2>5. Standing(q, [pc |-> "network", plan |-> p, sent |-> <<plan.out>>,
                     reply |-> calls[c].reply])
    BY <1>1, <1>3, <1>7, <2>2, <2>3, SentCallStands
  <2>6. DOMAIN shadow' = Objects /\ \A o \in Objects : IsReply(shadow'[o])
    BY <1>1, <2>2 DEF CallsTyped
  <2> QED BY <1>1, <1>4, <2>2, <2>5, <2>6, <2>4 DEF Outcome
<1>8. CASE plan.source = "rewrite"
  <2>1. Transmit(c, plan) /\ UNCHANGED <<shadow, listeners, posted>>
    BY <1>8 DEF ContinueXhr
  <2>2. /\ calls' = [calls EXCEPT ![c] = calls'[c]] /\ IsCall(calls'[c])
        /\ calls'[c] = [pc |-> "network", plan |-> plan,
                        sent |-> Append(calls[c].sent, plan.out), reply |-> calls[c].reply]
    BY <1>1, <2>1, TransmittedCall
  <2>3. plan.source \notin Mocks
    BY <1>8 DEF Mocks
  <2>4. Standing(q, calls'[c])
    <3>1. calls'[c] = [pc |-> "network", plan |-> plan, sent |-> <<plan.out>>,
                       reply |-> calls[c].reply]
      BY <1>5, <2>2
    <3>2. Standing(q, [pc |-> "network", plan |-> plan, sent |-> <<plan.out>>,
                       reply |-> calls[c].reply])
      BY <1>1, <1>3, <1>8, <2>3, SentCallStands
    <3> QED BY <3>1, <3>2
  <2>5. DOMAIN shadow' = Objects /\ \A o \in Objects : IsReply(shadow'[o])
    BY <1>1, <2>1 DEF CallsTyped
  <2>6. Quiet(c) /\ Listens(c)
    BY <2>1, <2>2 DEF Quiet, Listens
  <2> QED BY <1>1, <1>4, <2>2, <2>4, <2>5, <2>6 DEF Outcome
<1> QED BY <1>3, <1>6, <1>7, <1>8

(* Either kind of call.                                                          *)
LEMMA CallGoesOn ==
  ASSUME NEW c \in Calls, NEW plan, GoesOn(c, plan), Continue(c, plan)
  PROVE  Outcome(c)
<1>1. CASE c \in Fetches
  BY <1>1, FetchIsAnswered, FetchIsSent DEF Continue, ContinueFetch
<1>2. CASE c \notin Fetches
  BY <1>2, XhrGoesOn DEF Continue
<1> QED BY <1>1, <1>2

-------------------------------------------------------------------------------
(* The actions.                                                                  *)

LEMMA BeginMoves ==
  ASSUME CallsTyped, CallsStand, NEW c \in Calls, Begin(c)
  PROVE  Outcome(c)
<1> DEFINE q == callOf[c]
           conditional == resolveConditionalMock(config, q)
<1>1. PICK plan : /\ plan = IF c \in Fetches THEN PlanFetch(c, conditional)
                                             ELSE PlanXhr(c, conditional)
                  /\ calls[c].pc = "idle" /\ UNCHANGED <<callOf, config>>
                  /\ IF resolveDelayMs(config, q) = 0 THEN Continue(c, plan)
                     ELSE /\ calls' = [calls EXCEPT ![c] =
                                  [pc |-> "delayed", plan |-> plan, sent |-> calls[c].sent,
                                   reply |-> calls[c].reply]]
                          /\ UNCHANGED <<shadow, listeners, posted>>
  BY DEF Begin
<1>2. Ready(q, plan) /\ plan.rules = config
  BY <1>1, PlansAreReady
<1>3. calls[c].sent = <<>> /\ IsReply(calls[c].reply)
  BY <1>1 DEF CallsStand, Standing, CallsTyped, IsCall
<1>4. CASE resolveDelayMs(config, q) = 0
  <2>1. GoesOn(c, plan)
    BY <1>1, <1>2, <1>3 DEF GoesOn
  <2> QED BY <1>1, <1>4, <2>1, CallGoesOn
<1>5. CASE resolveDelayMs(config, q) # 0
  <2>1. calls'[c] = [pc |-> "delayed", plan |-> plan, sent |-> calls[c].sent,
                     reply |-> calls[c].reply]
    BY <1>1, <1>5 DEF CallsTyped
  <2>2. calls' = [calls EXCEPT ![c] = calls'[c]]
    BY <1>1, <1>5, <2>1
  <2>3. IsCall(calls'[c])
    BY <1>2, <1>3, <2>1 DEF IsCall, Ready
  <2>4. Late(q, plan)
    <3>1. config \in Configs /\ Orderable(config.rules)
      BY RulesAreOrderable DEF CallsTyped
    <3> QED BY <1>2, <1>5, <3>1, FirstOfTypeGoverns DEF resolveDelayMs, Late
  <2>5. Standing(q, calls'[c])
    BY <1>2, <1>3, <2>1, <2>4 DEF Standing
  <2>6. Quiet(c) /\ Listens(c) /\ DOMAIN shadow' = Objects /\ \A o \in Objects : IsReply(shadow'[o])
    BY <1>1, <1>5, <2>1 DEF Quiet, Listens, CallsTyped
  <2> QED BY <1>1, <2>1, <2>2, <2>3, <2>5, <2>6 DEF Outcome
<1> QED BY <1>4, <1>5

(* A call wakes with the plan it fell asleep with.                               *)
LEMMA WakeMoves ==
  ASSUME CallsTyped, CallsStand, NEW c \in Calls, Wake(c)
  PROVE  Outcome(c)
<1>1. PICK plan : /\ plan = calls[c].plan /\ calls[c].pc = "delayed" /\ Continue(c, plan)
                  /\ UNCHANGED <<callOf, config>>
  BY DEF Wake
<1>2. Ready(callOf[c], plan) /\ Late(callOf[c], plan) /\ calls[c].sent = <<>>
  BY <1>1 DEF CallsStand, Standing
<1>3. GoesOn(c, plan)
  BY <1>1, <1>2 DEF GoesOn
<1> QED BY <1>1, <1>3, CallGoesOn

(* A call that is over, with what it had sent.                                   *)
LEMMA OverCallStands ==
  ASSUME CallsTyped, CallsStand, NEW c \in Calls, calls[c].pc \in {"network", "capturing"},
         NEW pc \in {"capturing", "settled"}, NEW reply, IsReply(reply),
         pc = "capturing" => calls[c].plan.source = "real" /\ c \in Fetches
  PROVE  LET r == [pc |-> pc, plan |-> calls[c].plan, sent |-> calls[c].sent, reply |-> reply]
         IN  IsCall(r) /\ Standing(callOf[c], r)
<1>1. Went(callOf[c], calls[c]) /\ IsPlan(calls[c].plan)
  BY DEF CallsStand, Standing, CallsTyped, IsCall
<1>2. c \in Fetches => callOf[c].transport = "fetch"
  BY DEF Fetches
<1>3. PICK r : r = [pc |-> pc, plan |-> calls[c].plan, sent |-> calls[c].sent, reply |-> reply]
  OBVIOUS
<1>4. /\ r.pc = pc /\ r.plan = calls[c].plan /\ r.sent = calls[c].sent /\ r.reply = reply
      /\ r = [pc |-> r.pc, plan |-> r.plan, sent |-> r.sent, reply |-> r.reply]
  BY <1>3
<1>5. IsCall(r)
  BY <1>1, <1>4 DEF IsCall
<1>6. Went(callOf[c], r)
  BY <1>1, <1>2, <1>4 DEF Went
<1>7. Standing(callOf[c], r)
  BY <1>4, <1>6 DEF Standing
<1> QED BY <1>3, <1>5, <1>7

(* The answers of the network.                                                   *)
LEMMA FetchAnsweredMoves ==
  ASSUME CallsTyped, CallsStand, NEW c \in Calls, NEW r \in Responses, FetchAnswered(c, r)
  PROVE  Outcome(c)
<1>1. PICK plan : plan = calls[c].plan
  OBVIOUS
<1>2. /\ c \in Fetches /\ calls[c].pc = "network"
      /\ UNCHANGED <<callOf, config, shadow, listeners>>
  BY DEF FetchAnswered, Unchanged
<1>3. plan.source \in {"rewrite", "real"} /\ IsPlan(plan)
  BY <1>1, <1>2 DEF CallsStand, Standing, Went, CallsTyped, IsCall
<1>4. DOMAIN shadow' = Objects /\ (\A o \in Objects : IsReply(shadow'[o])) /\ Listens(c)
  BY <1>2 DEF CallsTyped, Listens
<1>5. CASE plan.source = "rewrite"
  <2>1. PICK body : /\ posted' = Append(posted, MockApplied(c, r.status, body))
                    /\ Settle(c, plan, Respond(r.status, body))
    BY <1>1, <1>5 DEF FetchAnswered
  <2>2. PICK reply : reply = Respond(r.status, body)
    OBVIOUS
  <2>3. /\ IsReply(reply)
        /\ \/ reply = [status |-> r.status, body |-> body]
           \/ reply = Rejected /\ ~Constructible(r.status)
    BY <2>2 DEF Respond, IsReply, Rejected
  <2>4. /\ calls' = [calls EXCEPT ![c] = calls'[c]]
        /\ calls'[c] = [pc |-> "settled", plan |-> plan, sent |-> calls[c].sent, reply |-> reply]
        /\ IsCall(calls'[c])
    BY <1>3, <2>1, <2>2, <2>3, SettledCall
  <2>5. Standing(callOf[c], calls'[c])
    BY <1>1, <1>2, <2>3, <2>4, OverCallStands
  <2>6. posted' = (posted \o Captures(Heard(c), reply)) \o <<MockApplied(c, r.status, body)>>
    BY <1>2, <2>1, NothingCaptured DEF Heard, Xhrs
  <2>7. /\ calls'[c].pc = "settled" /\ calls'[c].plan.source # "real" /\ calls'[c].reply = reply
        /\ calls[c].plan.source # "real"
    BY <1>1, <1>5, <2>4
  <2>8. Reported(c)
    BY <1>2, <2>3, <2>6, <2>7 DEF Reported
  <2> QED BY <1>1, <1>2, <1>4, <1>5, <2>4, <2>5, <2>8 DEF Outcome
<1>6. CASE plan.source = "real"
  <2>1. PICK reply : reply = [status |-> r.status, body |-> r.body]
    OBVIOUS
  <2>2. PICK pc \in {"capturing", "settled"} :
           /\ calls' = [calls EXCEPT ![c] = [pc |-> pc, plan |-> plan, sent |-> calls[c].sent,
                                             reply |-> reply]]
           /\ posted' = posted
    BY <1>1, <1>6, <2>1 DEF FetchAnswered
  <2>3. IsReply(reply)
    BY <2>1 DEF IsReply
  <2>4. calls'[c] = [pc |-> pc, plan |-> plan, sent |-> calls[c].sent, reply |-> reply]
    BY <2>2 DEF CallsTyped
  <2>5. calls' = [calls EXCEPT ![c] = calls'[c]]
    BY <2>2, <2>4
  <2>6. IsCall(calls'[c]) /\ Standing(callOf[c], calls'[c])
    BY <1>1, <1>2, <1>6, <2>3, <2>4, OverCallStands
  <2>7. Quiet(c)
    BY <1>6, <2>2, <2>4 DEF Quiet
  <2> QED BY <1>1, <1>2, <1>4, <1>6, <2>2, <2>4, <2>5, <2>6, <2>7 DEF Outcome
<1> QED BY <1>3, <1>5, <1>6

LEMMA CaptureFetchedMoves ==
  ASSUME CallsTyped, CallsStand, NEW c \in Calls, CaptureFetched(c)
  PROVE  Outcome(c)
<1>1. /\ calls[c].pc = "capturing" /\ UNCHANGED <<callOf, config, shadow, listeners>>
      /\ posted' = posted \o Captures(<<c>>, calls[c].reply)
      /\ calls' = [calls EXCEPT ![c].pc = "settled"]
  BY DEF CaptureFetched, Unchanged
<1>2. PICK r : r = calls[c]
  OBVIOUS
<1>3. /\ r = [pc |-> r.pc, plan |-> r.plan, sent |-> r.sent, reply |-> r.reply]
      /\ IsReply(r.reply) /\ r.plan.source = "real" /\ callOf[c].transport = "fetch"
  BY <1>1, <1>2 DEF CallsStand, Standing, Went, CallsTyped, IsCall
<1>4. c \in Fetches
  BY <1>3 DEF Fetches
<1>5. calls'[c] = [r EXCEPT !.pc = "settled"]
  BY <1>1, <1>2 DEF CallsTyped
<1>6. calls'[c] = [pc |-> "settled", plan |-> r.plan, sent |-> r.sent, reply |-> r.reply]
  BY <1>3, <1>5
<1>7. calls' = [calls EXCEPT ![c] = calls'[c]]
  BY <1>1, <1>2, <1>5
<1>8. IsCall(calls'[c]) /\ Standing(callOf[c], calls'[c])
  BY <1>1, <1>2, <1>3, <1>6, OverCallStands
<1>9. Captured(c)
  BY <1>1, <1>2, <1>3, <1>4, <1>6 DEF Captured
<1>10. DOMAIN shadow' = Objects /\ (\A o \in Objects : IsReply(shadow'[o])) /\ Listens(c)
  BY <1>1 DEF CallsTyped, Listens
<1> QED BY <1>1, <1>2, <1>6, <1>7, <1>8, <1>9, <1>10 DEF Outcome

LEMMA XhrAnsweredMoves ==
  ASSUME CallsTyped, CallsStand, NEW c \in Calls, NEW r \in Responses, XhrAnswered(c, r)
  PROVE  Outcome(c)
<1>1. PICK plan : plan = calls[c].plan
  OBVIOUS
<1>2. /\ c \in Xhrs /\ c \notin Fetches /\ calls[c].pc = "network"
      /\ UNCHANGED <<callOf, config>>
  BY DEF XhrAnswered, Unchanged, Xhrs
<1>3. plan.source \in {"rewrite", "real"} /\ IsPlan(plan)
  BY <1>1, <1>2 DEF CallsStand, Standing, Went, CallsTyped, IsCall
<1>4. CASE plan.source = "rewrite"
  <2>1. PICK reply : /\ reply = [status |-> r.status, body |-> Rewritten(c)]
                     /\ deliverMockedXhr(c, plan, reply)
    BY <1>1, <1>4 DEF XhrAnswered
  <2>2. IsReply(reply)
    BY <2>1 DEF IsReply
  <2>3. /\ calls' = [calls EXCEPT ![c] = calls'[c]] /\ IsCall(calls'[c])
        /\ calls'[c] = [pc |-> "settled", plan |-> plan, sent |-> calls[c].sent,
                        reply |-> reply]
        /\ DOMAIN shadow' = Objects /\ \A o \in Objects : IsReply(shadow'[o])
        /\ Reported(c) /\ listeners' = listeners
    BY <1>1, <1>2, <1>3, <1>4, <2>1, <2>2, XhrIsDelivered
  <2>4. Standing(callOf[c], calls'[c])
    BY <1>1, <1>2, <2>2, <2>3, OverCallStands
  <2> QED BY <1>1, <1>2, <1>4, <2>3, <2>4 DEF Outcome, Listens
<1>5. CASE plan.source = "real"
  <2>1. PICK reply : /\ reply = Shown(callOf[c].xhr, [status |-> r.status, body |-> r.body])
                     /\ posted' = posted \o Captures(Heard(c), reply)
                     /\ Settle(c, plan, reply)
                     /\ UNCHANGED <<shadow, listeners>>
    BY <1>1, <1>5 DEF XhrAnswered
  <2>2. IsReply(reply)
    <3>1. callOf[c].xhr \in Objects
      BY <1>2 DEF Objects
    <3>2. IsReply(shadow[callOf[c].xhr]) /\ IsReply([status |-> r.status, body |-> r.body])
      BY <3>1 DEF CallsTyped, IsReply
    <3> QED BY <2>1, <3>2 DEF Shown
  <2>3. /\ calls' = [calls EXCEPT ![c] = calls'[c]] /\ IsCall(calls'[c])
        /\ calls'[c] = [pc |-> "settled", plan |-> plan, sent |-> calls[c].sent, reply |-> reply]
    BY <1>3, <2>1, <2>2, SettledCall
  <2>4. Standing(callOf[c], calls'[c])
    BY <1>1, <1>2, <2>2, <2>3, OverCallStands
  <2>5. calls'[c].pc = "settled" /\ calls'[c].plan.source = "real" /\ calls'[c].reply = reply
    BY <1>5, <2>3
  <2>6. Captured(c)
    BY <1>2, <2>1, <2>5 DEF Captured
  <2>7. DOMAIN shadow' = Objects /\ \A o \in Objects : IsReply(shadow'[o])
    BY <2>1 DEF CallsTyped
  <2> QED BY <1>1, <1>2, <1>5, <2>1, <2>3, <2>4, <2>6, <2>7 DEF Outcome, Listens
<1> QED BY <1>3, <1>4, <1>5

(* A call that is sent again.                                                    *)
LEMMA SentAgain ==
  ASSUME NEW x, NEW y
  PROVE  Append(<<x>>, y) = <<x, y>>
<1>1. <<x>> \in Seq({x, y}) /\ Len(<<x>>) = 1
  OBVIOUS
<1>2. PICK s : s = Append(<<x>>, y)
  OBVIOUS
<1>3. s \in Seq({x, y}) /\ Len(s) = 2 /\ s[1] = x /\ s[2] = y
  BY <1>1, <1>2
<1>4. PICK t : t = <<x, y>>
  OBVIOUS
<1>5. t \in Seq({x, y}) /\ Len(t) = 2 /\ t[1] = x /\ t[2] = y
  BY <1>4
<1>6. \A i \in 1 .. Len(s) : s[i] = t[i]
  BY <1>3, <1>5
<1>7. s = t
  BY <1>3, <1>5, <1>6, SeqEqual
<1> QED BY <1>2, <1>4, <1>7

(* A failure settles the call, but for a rewritten object, which is sent again.  *)
LEMMA NetworkFailsMoves ==
  ASSUME CallsTyped, CallsStand, NEW c \in Calls, NetworkFails(c)
  PROVE  Outcome(c)
<1>1. PICK plan : plan = calls[c].plan
  OBVIOUS
<1>2. calls[c].pc = "network" /\ UNCHANGED <<callOf, config>>
  BY DEF NetworkFails, Unchanged
<1>3. Went(callOf[c], calls[c]) /\ plan.source \in {"rewrite", "real"} /\ IsPlan(plan)
  BY <1>1, <1>2 DEF CallsStand, Standing, Went, CallsTyped, IsCall
<1>4. CASE c \in Xhrs /\ plan.source = "rewrite"
  <2>1. sendReal(c, plan)
    BY <1>1, <1>4 DEF NetworkFails
  <2>2. PICK p : /\ IsPlan(p) /\ p.rules = plan.rules /\ p.out = plan.out
                 /\ p.status = plan.status /\ p.source = "real"
                 /\ calls' = [calls EXCEPT ![c] = calls'[c]] /\ IsCall(calls'[c])
                 /\ calls'[c] = [pc |-> "network", plan |-> p,
                                 sent |-> Append(calls[c].sent, plan.out),
                                 reply |-> calls[c].reply]
                 /\ Quiet(c) /\ Listens(c) /\ shadow' = shadow
    <3>1. c \in Xhrs /\ IsPlan(plan) /\ sendReal(c, plan)
      BY <1>3, <1>4, <2>1
    <3> QED BY <3>1, XhrIsSent
  <2>3. callOf[c].transport # "fetch"
    BY <1>4 DEF Xhrs, Fetches
  <2>4. Fixed(callOf[c], calls[c].plan)
    BY <2>3 DEF Fixed
  <2>5. Prescribed(plan.rules, callOf[c]) = "rewrite" /\ calls[c].sent = <<plan.out>>
    BY <1>1, <1>3, <1>4, <2>4 DEF Went, Mocks
  <2>6. Append(calls[c].sent, plan.out) = <<plan.out, plan.out>>
    <3>1. PICK out, sent : out = plan.out /\ sent = calls[c].sent
      OBVIOUS
    <3>2. sent = <<out>>
      BY <2>5, <3>1
    <3>3. Append(sent, out) = <<out, out>>
      BY <3>2, SentAgain
    <3> QED BY <3>1, <3>3
  <2>7. PICK r : r = calls'[c]
    OBVIOUS
  <2>8. /\ r.pc = "network" /\ r.plan = p /\ r.sent = <<plan.out, plan.out>>
        /\ plan.out = PrescribedBody(plan.rules, callOf[c])
    BY <1>1, <1>3, <2>2, <2>6, <2>7 DEF Went
  <2>10. Went(callOf[c], r)
    BY <2>2, <2>3, <2>5, <2>8 DEF Went
  <2>11. Standing(callOf[c], calls'[c]) /\ calls'[c].pc = "network" /\ calls'[c].plan = p
    BY <2>7, <2>8, <2>10 DEF Standing
  <2>9. DOMAIN shadow' = Objects /\ \A o \in Objects : IsReply(shadow'[o])
    BY <1>2, <2>2 DEF CallsTyped
  <2> QED BY <1>1, <1>2, <1>4, <2>2, <2>9, <2>11 DEF Outcome
<1>5. CASE ~(c \in Xhrs /\ plan.source = "rewrite")
  <2>1. Settle(c, plan, Rejected) /\ UNCHANGED <<shadow, listeners, posted>>
    BY <1>1, <1>5 DEF NetworkFails
  <2>2. IsReply(Rejected)
    BY DEF IsReply, Rejected
  <2>3. /\ calls' = [calls EXCEPT ![c] = calls'[c]] /\ IsCall(calls'[c])
        /\ calls'[c] = [pc |-> "settled", plan |-> plan, sent |-> calls[c].sent,
                        reply |-> Rejected]
    BY <1>3, <2>1, <2>2, SettledCall
  <2>4. Standing(callOf[c], calls'[c])
    BY <1>1, <1>2, <2>2, <2>3, OverCallStands
  <2>5. Quiet(c)
    BY <2>1, <2>3 DEF Quiet
  <2>6. DOMAIN shadow' = Objects /\ \A o \in Objects : IsReply(shadow'[o])
    BY <1>2, <2>1 DEF CallsTyped
  <2> QED BY <1>1, <1>2, <2>1, <2>3, <2>4, <2>5, <2>6 DEF Outcome, Listens
<1> QED BY <1>4, <1>5

(* Every step but an update is the step of one call.                             *)
LEMMA StepsAreOutcomes ==
  ASSUME CallsTyped, CallsStand, Next
  PROVE  ReceiveUpdate \/ \E c \in Calls : Outcome(c)
<1>1. ASSUME NEW c \in Calls, Begin(c) \/ Wake(c) \/ CaptureFetched(c) \/ NetworkFails(c)
      PROVE  Outcome(c)
  BY <1>1, BeginMoves, WakeMoves, CaptureFetchedMoves, NetworkFailsMoves
<1>2. ASSUME NEW c \in Calls, NEW r \in Responses, FetchAnswered(c, r) \/ XhrAnswered(c, r)
      PROVE  Outcome(c)
  BY <1>2, FetchAnsweredMoves, XhrAnsweredMoves
<1> QED BY <1>1, <1>2 DEF Next

-------------------------------------------------------------------------------
(* The invariants.                                                               *)

(* A call that is not over has not been reported.                                *)
ReportsFollow ==
    /\ \A c \in Calls : calls[c].pc # "settled" => Reports(c) = {}
    /\ ReportsTellWhatThePageGot

(* Whoever listens has been sent as it was.                                      *)
ListenersWereSent ==
    \A o \in Objects : \A i \in DOMAIN listeners[o] :
        LET d == listeners[o][i]
        IN  /\ d \in Xhrs /\ callOf[d].xhr = o
            /\ calls[d].pc \in {"network", "settled"} /\ calls[d].plan.source = "real"

CapturesTell ==
    \A i \in DOMAIN posted :
        posted[i].type = "RESPONSE_BODY_CAPTURED" =>
            LET c == posted[i].call
            IN  /\ c \in Calls
                /\ (c \in Xhrs => Alone(c)) =>
                      /\ calls[c].pc = "settled" /\ calls[c].plan.source = "real"
                      /\ Carries(posted[i], calls[c].reply)

CallsInv == CallsTyped /\ CallsStand /\ ReportsFollow /\ ListenersWereSent /\ CapturesTell

(* How many calls a sequence mock has answered, and with which branch.           *)
Answers(o, m, i) == { j \in 1 .. i : o[j].mock = m }

OrderEntries == [call : Calls, mock : MockIds]

OrderInv ==
    /\ order \in Seq(OrderEntries)
    /\ counts = [m \in MockIds |-> Cardinality(Answers(order, m, Len(order)))]
    /\ \A i \in DOMAIN order : calls[order[i].call].pc # "idle"
    /\ SequencesAnswerInOrder

BridgeInv == CallsInv /\ OrderInv
-------------------------------------------------------------------------------
(* What is posted.                                                               *)

LEMMA SequencesGrow ==
  ASSUME NEW s, IsSequence(s), NEW t, IsSequence(t)
  PROVE  /\ IsSequence(s \o t)
         /\ DOMAIN s \subseteq DOMAIN (s \o t)
         /\ \A i \in DOMAIN s : (s \o t)[i] = s[i]
         /\ \A i \in DOMAIN (s \o t) \ DOMAIN s : i - Len(s) \in DOMAIN t
                                                  /\ (s \o t)[i] = t[i - Len(s)]
<1> DEFINE S == RangeOf(s) \cup RangeOf(t)
<1>1. s \in Seq(S) /\ t \in Seq(S)
  BY DEF IsSequence, RangeOf
<1>2. PICK u : u = s \o t
  OBVIOUS
<1>3. u \in Seq(S) /\ Len(u) = Len(s) + Len(t)
  BY <1>1, <1>2
<1>4. \A i \in 1 .. Len(u) : u[i] = IF i <= Len(s) THEN s[i] ELSE t[i - Len(s)]
  BY <1>1, <1>2
<1> HIDE DEF S
<1>5. /\ DOMAIN u = 1 .. Len(u) /\ DOMAIN s = 1 .. Len(s) /\ DOMAIN t = 1 .. Len(t)
      /\ Len(s) \in Nat /\ Len(t) \in Nat
  BY <1>1, <1>3
<1>6. u \in Seq(RangeOf(u))
  BY <1>3 DEF RangeOf
<1>7. /\ DOMAIN s \subseteq DOMAIN u
      /\ \A i \in DOMAIN s : u[i] = s[i]
      /\ \A i \in DOMAIN u \ DOMAIN s : i - Len(s) \in DOMAIN t /\ u[i] = t[i - Len(s)]
  BY <1>3, <1>4, <1>5
<1> QED BY <1>2, <1>6, <1>7 DEF IsSequence

(* The messages that some calls, hearing of a reply, post.                       *)
Hears(m, heard, reply) ==
    /\ m.type = "RESPONSE_BODY_CAPTURED" /\ m.call \in RangeOf(heard)
    /\ Carries(m, reply)

(* Each message of Captures names a call that hears and carries the reply.       *)
LEMMA CapturesTellTheReply ==
  ASSUME NEW heard, IsSequence(heard), NEW reply
  PROVE  /\ IsSequence(Captures(heard, reply))
         /\ \A i \in DOMAIN Captures(heard, reply) :
               Hears(Captures(heard, reply)[i], heard, reply)
<1>1. CASE reply.body = Empty
  BY <1>1 DEF Captures, IsSequence
<1>2. CASE reply.body # Empty
  <2>1. PICK s : s = [i \in DOMAIN heard |-> BodyCaptured(heard[i], reply)]
    OBVIOUS
  <2>2. s = Captures(heard, reply)
    BY <1>2, <2>1 DEF Captures
  <2>3. DOMAIN heard = 1 .. Len(heard) /\ Len(heard) \in Nat
    BY DEF IsSequence
  <2>4. IsSequence(s)
    BY <2>1, <2>3 DEF IsSequence, RangeOf
  <2>5. \A i \in DOMAIN s : Hears(s[i], heard, reply)
    BY <2>1 DEF Hears, BodyCaptured, trimmed, Carries, RangeOf
  <2> QED BY <2>2, <2>4, <2>5
<1> QED BY <1>1, <1>2

Hearing(c) == IF c \in Fetches THEN <<c>> ELSE Heard(c)

Extended(old, new) ==
    /\ IsSequence(new) /\ DOMAIN old \subseteq DOMAIN new
    /\ \A i \in DOMAIN old : new[i] = old[i]

(* Who hears of a reply is a sequence of calls.                                  *)
LEMMA HeardAreCalls ==
  ASSUME CallsTyped, NEW c \in Calls
  PROVE  IsSequence(Heard(c)) /\ IsSequence(Hearing(c))
<1>1. CASE c \in Fetches
  BY <1>1 DEF Heard, Hearing, Xhrs, IsSequence, RangeOf
<1>2. CASE c \notin Fetches
  <2>1. callOf[c].xhr \in Objects
    BY <1>2 DEF Objects, Xhrs
  <2>2. PICK s : s = listeners[callOf[c].xhr]
    OBVIOUS
  <2>3. s \in Seq(Calls)
    BY <2>1, <2>2 DEF CallsTyped
  <2>4. IsSequence(s)
    BY <2>3 DEF IsSequence, RangeOf
  <2>5. IsSequence(<<>>)
    BY DEF IsSequence
  <2> QED BY <1>2, <2>2, <2>4, <2>5 DEF Heard, Hearing
<1> QED BY <1>1, <1>2

(* What is new among the messages after a capture, and after a report.           *)
LEMMA CapturedIsPosted ==
  ASSUME CallsTyped, NEW c \in Calls, Captured(c)
  PROVE  /\ Extended(posted, posted')
         /\ \A i \in DOMAIN posted' \ DOMAIN posted :
               Hears(posted'[i], Hearing(c), calls'[c].reply)
<1>1. PICK s : s = Captures(Hearing(c), calls'[c].reply)
  OBVIOUS
<1>2. /\ IsSequence(s) /\ \A i \in DOMAIN s : Hears(s[i], Hearing(c), calls'[c].reply)
  BY <1>1, HeardAreCalls, CapturesTellTheReply
<1>3. posted' = posted \o s
  BY <1>1 DEF Captured, Hearing
<1>4. IsSequence(posted)
  BY DEF CallsTyped
<1> QED BY <1>2, <1>3, <1>4, SequencesGrow DEF Extended

LEMMA ReportedIsPosted ==
  ASSUME CallsTyped, NEW c \in Calls, Reported(c)
  PROVE  /\ Extended(posted, posted')
         /\ \E n \in DOMAIN posted' \ DOMAIN posted : \E status, body :
               /\ posted'[n] = MockApplied(c, status, body)
               /\ \/ calls'[c].reply = [status |-> status, body |-> body]
                  \/ c \in Fetches /\ calls'[c].reply = Rejected /\ ~Constructible(status)
               /\ \A i \in DOMAIN posted' \ (DOMAIN posted \cup {n}) :
                     Hears(posted'[i], Heard(c), calls'[c].reply)
<1>1. PICK s : s = Captures(Heard(c), calls'[c].reply)
  OBVIOUS
<1>2. /\ IsSequence(s) /\ \A i \in DOMAIN s : Hears(s[i], Heard(c), calls'[c].reply)
  BY <1>1, HeardAreCalls, CapturesTellTheReply
<1>3. PICK status, body :
         /\ posted' = (posted \o s) \o <<MockApplied(c, status, body)>>
         /\ \/ calls'[c].reply = [status |-> status, body |-> body]
            \/ c \in Fetches /\ calls'[c].reply = Rejected /\ ~Constructible(status)
  BY <1>1 DEF Reported
<1>4. IsSequence(posted)
  BY DEF CallsTyped
<1>5. PICK u, m, t : u = posted \o s /\ m = MockApplied(c, status, body) /\ t = <<m>>
  OBVIOUS
<1>6. posted' = u \o t
  BY <1>3, <1>5
<1>7. /\ IsSequence(u) /\ DOMAIN posted \subseteq DOMAIN u
      /\ \A i \in DOMAIN posted : u[i] = posted[i]
      /\ \A i \in DOMAIN u \ DOMAIN posted : i - Len(posted) \in DOMAIN s
                                             /\ u[i] = s[i - Len(posted)]
  BY <1>2, <1>4, <1>5, SequencesGrow
<1>8. IsSequence(t) /\ DOMAIN t = {1} /\ t[1] = m
  <2>1. t \in Seq({m}) /\ DOMAIN t = {1} /\ t[1] = m
    BY <1>5
  <2>2. RangeOf(t) = {m}
    BY <2>1 DEF RangeOf
  <2> QED BY <2>1, <2>2 DEF IsSequence
<1>9. /\ IsSequence(posted') /\ DOMAIN u \subseteq DOMAIN posted'
      /\ \A i \in DOMAIN u : posted'[i] = u[i]
      /\ \A i \in DOMAIN posted' \ DOMAIN u : i - Len(u) \in DOMAIN t
                                              /\ posted'[i] = t[i - Len(u)]
  <2>1. /\ IsSequence(u \o t) /\ DOMAIN u \subseteq DOMAIN (u \o t)
        /\ \A i \in DOMAIN u : (u \o t)[i] = u[i]
        /\ \A i \in DOMAIN (u \o t) \ DOMAIN u : i - Len(u) \in DOMAIN t
                                                /\ (u \o t)[i] = t[i - Len(u)]
    <3>1. IsSequence(u) /\ IsSequence(t)
      BY <1>7, <1>8
    <3> QED BY <3>1, SequencesGrow
  <2> QED BY <1>6, <2>1
<1>10. PICK n : n = Len(u) + 1
  OBVIOUS
<1>11. n \in DOMAIN posted' \ DOMAIN u /\ posted'[n] = m
  <2> DEFINE S == RangeOf(u) \cup {m}
  <2>1. u \in Seq(S) /\ t \in Seq(S) /\ Len(t) = 1
    <3>1. u \in Seq(RangeOf(u)) /\ t \in Seq({m}) /\ Len(t) = 1
      BY <1>5, <1>7 DEF IsSequence
    <3>2. RangeOf(u) \subseteq S /\ {m} \subseteq S
      OBVIOUS
    <3> HIDE DEF S
    <3> QED BY <3>1, <3>2
  <2> HIDE DEF S
  <2>2. Len(posted') = Len(u) + 1 /\ Len(u) \in Nat
    <3>1. u \in Seq(S) /\ t \in Seq(S)
      BY <2>1
    <3>2. Len(u \o t) = Len(u) + Len(t)
      BY <3>1, ConcatProperties
    <3>3. Len(u) \in Nat
      BY <3>1
    <3> QED BY <1>6, <2>1, <3>2, <3>3
  <2>3. DOMAIN posted' = 1 .. Len(posted') /\ DOMAIN u = 1 .. Len(u)
    <3>1. posted' \in Seq(RangeOf(posted')) /\ u \in Seq(RangeOf(u))
      BY <1>7, <1>9 DEF IsSequence
    <3> QED BY <3>1
  <2>4. n \in DOMAIN posted' \ DOMAIN u
    BY <1>10, <2>2, <2>3
  <2> QED BY <1>8, <1>9, <2>4
<1>12. \A i \in DOMAIN posted' \ DOMAIN u : i = n
  <2>1. DOMAIN posted' \subseteq Int /\ Len(u) \in Int
    BY <1>7, <1>9 DEF IsSequence
  <2> QED BY <1>8, <1>9, <1>10, <2>1
<1>13. \A i \in DOMAIN posted' \ (DOMAIN posted \cup {n}) :
          Hears(posted'[i], Heard(c), calls'[c].reply)
  BY <1>2, <1>7, <1>9, <1>12
<1>14. Extended(posted, posted')
  BY <1>7, <1>9 DEF Extended
<1> QED BY <1>3, <1>5, <1>7, <1>11, <1>13, <1>14
-------------------------------------------------------------------------------
(* What a step of one call leaves as it was.                                     *)

LEMMA OthersStay ==
  ASSUME CallsTyped, NEW c \in Calls, Outcome(c)
  PROVE  /\ Fetches' = Fetches /\ Xhrs' = Xhrs /\ Objects' = Objects /\ callOf' = callOf
         /\ \A d \in Calls : d # c => calls'[d] = calls[d]
<1>1. callOf' = callOf /\ calls' = [calls EXCEPT ![c] = calls'[c]]
  BY DEF Outcome
<1>2. \A d \in Calls : d # c => calls'[d] = calls[d]
  <2>1. PICK r : r = calls'[c]
    OBVIOUS
  <2>2. calls' = [calls EXCEPT ![c] = r]
    BY <1>1, <2>1
  <2> QED BY <2>2 DEF CallsTyped
<1>3. Fetches' = Fetches
  BY <1>1 DEF Fetches
<1>4. Xhrs' = Xhrs
  BY <1>3 DEF Xhrs
<1>5. Objects' = Objects
  BY <1>1, <1>4 DEF Objects
<1> QED BY <1>1, <1>2, <1>3, <1>4, <1>5

(* Nothing that was posted is lost.                                              *)
LEMMA PostedStays ==
  ASSUME CallsTyped, NEW c \in Calls, Outcome(c)
  PROVE  Extended(posted, posted')
<1>1. CASE Quiet(c)
  BY <1>1 DEF Quiet, Extended, CallsTyped
<1>2. CASE Reported(c)
  BY <1>2, ReportedIsPosted
<1>3. CASE Captured(c)
  BY <1>3, CapturedIsPosted
<1> QED BY <1>1, <1>2, <1>3 DEF Outcome

(* The shape of the state is kept.                                               *)
LEMMA TypesStay ==
  ASSUME CallsTyped, NEW c \in Calls, Outcome(c)
  PROVE  CallsTyped'
<1>1. callOf' \in Pages /\ config' \in Configs
  BY DEF CallsTyped, Outcome
<1>2. DOMAIN calls' = Calls /\ calls' = [d \in Calls |-> calls'[d]]
  <2>1. PICK r : r = calls'[c]
    OBVIOUS
  <2>2. calls' = [calls EXCEPT ![c] = r]
    BY <2>1 DEF Outcome
  <2>3. DOMAIN calls = Calls
    BY DEF CallsTyped
  <2> QED BY <2>2, <2>3
<1>3. \A d \in Calls : IsCall(calls'[d])
  BY OthersStay DEF CallsTyped, Outcome
<1>4. DOMAIN shadow' = Objects' /\ \A o \in Objects' : IsReply(shadow'[o])
  BY OthersStay DEF Outcome
<1>5. DOMAIN listeners' = Objects' /\ \A o \in Objects' : listeners'[o] \in Seq(Calls)
  <2>1. CASE listeners' = listeners
    BY <2>1, OthersStay DEF CallsTyped
  <2>2. CASE c \in Xhrs /\ listeners' = [listeners EXCEPT ![callOf[c].xhr] = Append(@, c)]
    <3>1. callOf[c].xhr \in Objects
      BY <2>2 DEF Objects
    <3>2. \A o \in Objects : listeners'[o] = IF o = callOf[c].xhr THEN Append(listeners[o], c)
                                             ELSE listeners[o]
      BY <2>2, <3>1 DEF CallsTyped
    <3>3. ASSUME NEW o \in Objects PROVE listeners'[o] \in Seq(Calls)
      <4>1. PICK l : l = listeners[o]
        OBVIOUS
      <4>2. l \in Seq(Calls) /\ Append(l, c) \in Seq(Calls)
        BY <4>1 DEF CallsTyped
      <4> QED BY <3>2, <4>1, <4>2
    <3> QED BY <2>2, <3>3, OthersStay DEF CallsTyped
  <2> QED BY <2>1, <2>2 DEF Outcome, Listens
<1>6. IsSequence(posted')
  BY PostedStays DEF Extended
<1> QED BY <1>1, <1>2, <1>3, <1>4, <1>5, <1>6 DEF CallsTyped

(* Each call stands to its plan as before.                                       *)
LEMMA CallsKeepStanding ==
  ASSUME CallsTyped, CallsStand, NEW c \in Calls, Outcome(c)
  PROVE  CallsStand'
<1>1. SUFFICES ASSUME NEW d \in Calls PROVE Standing(callOf[d], calls'[d])
  BY OthersStay DEF CallsStand
<1>2. CASE d = c
  BY <1>2 DEF Outcome
<1>3. CASE d # c
  BY <1>3, OthersStay DEF CallsStand
<1> QED BY <1>2, <1>3

(* Which reports there are after a step.                                         *)
LEMMA ReportsGrow ==
  ASSUME CallsTyped, NEW c \in Calls, Outcome(c)
  PROVE  /\ \A d \in Calls : d # c => Reports(d)' = Reports(d)
         /\ Quiet(c) \/ Captured(c) => Reports(c)' = Reports(c)
         /\ Reported(c) =>
               \E n \in DOMAIN posted' \ DOMAIN posted : \E status, body :
                  /\ Reports(c)' = Reports(c) \cup {n}
                  /\ posted'[n] = MockApplied(c, status, body)
                  /\ \/ calls'[c].reply = [status |-> status, body |-> body]
                     \/ c \in Fetches /\ calls'[c].reply = Rejected /\ ~Constructible(status)
<1>1. DOMAIN posted \subseteq DOMAIN posted' /\ \A i \in DOMAIN posted : posted'[i] = posted[i]
  BY PostedStays DEF Extended
<1>2. \A d : Reports(d)' = Reports(d) \cup
               { i \in DOMAIN posted' \ DOMAIN posted :
                   posted'[i].type = "MOCK_APPLIED" /\ posted'[i].call = d }
  BY <1>1 DEF Reports
<1>3. CASE Quiet(c)
  <2>1. posted' = posted
    BY <1>3 DEF Quiet
  <2>2. ~Reported(c)
    BY <2>1, ReportedIsPosted
  <2> QED BY <2>1, <2>2 DEF Reports
<1>4. CASE Captured(c)
  <2>1. \A i \in DOMAIN posted' \ DOMAIN posted : posted'[i].type = "RESPONSE_BODY_CAPTURED"
    BY <1>4, CapturedIsPosted DEF Hears
  <2>2. \A d : Reports(d)' = Reports(d)
    BY <1>2, <2>1
  <2>3. ~Reported(c)
    BY <1>4 DEF Captured, Reported
  <2> QED BY <2>2, <2>3
<1>5. CASE Reported(c)
  <2>1. PICK n, status, body :
           /\ n \in DOMAIN posted' \ DOMAIN posted
           /\ posted'[n] = MockApplied(c, status, body)
           /\ \/ calls'[c].reply = [status |-> status, body |-> body]
              \/ c \in Fetches /\ calls'[c].reply = Rejected /\ ~Constructible(status)
           /\ \A i \in DOMAIN posted' \ (DOMAIN posted \cup {n}) :
                 Hears(posted'[i], Heard(c), calls'[c].reply)
    BY <1>5, ReportedIsPosted
  <2>2. posted'[n].type = "MOCK_APPLIED" /\ posted'[n].call = c
    BY <2>1 DEF MockApplied
  <2>3. \A i \in DOMAIN posted' \ DOMAIN posted :
           i # n => posted'[i].type = "RESPONSE_BODY_CAPTURED"
    BY <2>1 DEF Hears
  <2>4. \A d : Reports(d)' = IF d = c THEN Reports(d) \cup {n} ELSE Reports(d)
    BY <1>2, <2>1, <2>2, <2>3
  <2>5. Reports(c)' = Reports(c) \cup {n} /\ \A d : d # c => Reports(d)' = Reports(d)
    BY <2>4
  <2>6. n \in DOMAIN posted' \ DOMAIN posted /\ ~Captured(c)
    BY <1>5, <2>1 DEF Captured, Reported
  <2>7. ~Quiet(c)
    BY <2>6 DEF Quiet
  <2> QED BY <2>1, <2>5, <2>6, <2>7
<1> QED BY <1>3, <1>4, <1>5 DEF Outcome
(* The first report of a call comes when it settles, with what the page got.     *)
LEMMA ReportsKeepFollowing ==
  ASSUME CallsTyped, ReportsFollow, NEW c \in Calls, Outcome(c)
  PROVE  ReportsFollow'
<1> DEFINE Told(d) ==
       IF Reports(d) = {} THEN calls[d].plan.source = "real" \/ calls[d].reply = Rejected
       ELSE \E i \in Reports(d) :
               /\ Reports(d) = {i} /\ calls[d].plan.source # "real"
               /\ \/ calls[d].reply = [status |-> posted[i].status, body |-> posted[i].body]
                  \/ /\ d \in Fetches /\ calls[d].reply = Rejected
                     /\ ~Constructible(posted[i].status)
<1>1. \A d \in Calls : calls[d].pc # "settled" => Reports(d) = {}
  BY DEF ReportsFollow
<1>2. \A d \in Calls : calls[d].pc = "settled" => Told(d)
  BY DEF ReportsFollow, ReportsTellWhatThePageGot, Settled
<1>3. ASSUME NEW d \in Calls, d # c
      PROVE  /\ Reports(d)' = Reports(d) /\ calls'[d] = calls[d]
             /\ \A i \in Reports(d) : posted'[i] = posted[i]
  BY <1>3, ReportsGrow, OthersStay, PostedStays DEF Extended, Reports
<1>4. \A d \in Calls : d # c /\ calls[d].pc = "settled" => Told(d)'
  <2> SUFFICES ASSUME NEW d \in Calls, d # c, Told(d) PROVE Told(d)'
    BY <1>2
  <2>1. /\ Reports(d)' = Reports(d) /\ calls'[d] = calls[d] /\ Fetches' = Fetches
        /\ \A i \in Reports(d) : posted'[i] = posted[i]
    BY <1>3, OthersStay
  <2> QED BY <2>1
<1>5. Reports(c) = {}
  BY <1>1 DEF Outcome
<1>6. CASE Quiet(c) \/ Captured(c)
  <2>1. Reports(c)' = {}
    BY <1>5, <1>6, ReportsGrow
  <2>2. calls'[c].pc = "settled" => calls'[c].plan.source = "real" \/ calls'[c].reply = Rejected
    BY <1>6 DEF Quiet, Captured
  <2>3. calls'[c].pc = "settled" => Told(c)'
    BY <2>1, <2>2
  <2>4. \A d \in Calls : calls'[d].pc # "settled" => Reports(d)' = {}
    BY <1>1, <1>3, <2>1
  <2>5. \A d \in Calls : calls'[d].pc = "settled" => Told(d)'
    BY <1>3, <1>4, <2>3
  <2> HIDE DEF Told
  <2> QED BY <2>4, <2>5 DEF ReportsFollow, ReportsTellWhatThePageGot, Settled, Told
<1>7. CASE Reported(c)
  <2> HIDE DEF Told
  <2>1. PICK n, status, body :
           /\ Reports(c)' = Reports(c) \cup {n}
           /\ posted'[n] = MockApplied(c, status, body)
           /\ \/ calls'[c].reply = [status |-> status, body |-> body]
              \/ c \in Fetches /\ calls'[c].reply = Rejected /\ ~Constructible(status)
    BY <1>7, ReportsGrow
  <2>2. Reports(c)' = {n}
    BY <1>5, <2>1
  <2>3. calls'[c].pc = "settled" /\ calls'[c].plan.source # "real"
    BY <1>7 DEF Reported
  <2>4. posted'[n].status = status /\ posted'[n].body = body
    BY <2>1 DEF MockApplied
  <2>5. Told(c)'
    BY <2>1, <2>2, <2>3, <2>4, OthersStay DEF Told
  <2>6. \A d \in Calls : calls'[d].pc # "settled" => Reports(d)' = {}
    BY <1>1, <1>3, <2>3
  <2>7. \A d \in Calls : calls'[d].pc = "settled" => Told(d)'
    BY <1>3, <1>4, <2>5
  <2> QED BY <2>6, <2>7 DEF ReportsFollow, ReportsTellWhatThePageGot, Settled, Told
<1> QED BY <1>6, <1>7 DEF Outcome

(* A listener is added only where the call goes out as it is.                    *)
LEMMA ListenersKeepSent ==
  ASSUME CallsTyped, CallsStand, ListenersWereSent, NEW c \in Calls, Outcome(c)
  PROVE  ListenersWereSent'
<1> DEFINE Sent(d, o) == /\ d \in Xhrs /\ callOf[d].xhr = o
                         /\ calls[d].pc \in {"network", "settled"}
                         /\ calls[d].plan.source = "real"
           After(d, o) == /\ d \in Xhrs /\ callOf[d].xhr = o
                          /\ calls'[d].pc \in {"network", "settled"}
                          /\ calls'[d].plan.source = "real"
<1>1. \A o \in Objects : \A i \in DOMAIN listeners[o] : Sent(listeners[o][i], o)
  BY DEF ListenersWereSent
<1>2. /\ Xhrs' = Xhrs /\ Objects' = Objects /\ callOf' = callOf
      /\ \A d \in Calls : d # c => calls'[d] = calls[d]
  BY OthersStay
<1>3. ASSUME NEW d, NEW o, Sent(d, o) PROVE After(d, o)
  <2>1. d \in Calls
    BY <1>3 DEF Xhrs
  <2>2. CASE d # c
    BY <1>2, <1>3, <2>1, <2>2
  <2>3. CASE d = c
    <3>1. calls[c].pc = "network" /\ calls[c].plan.source = "real"
      BY <1>3, <2>3 DEF Outcome
    <3>2. calls'[c].pc \in {"capturing", "settled"} /\ calls'[c].plan.source = "real"
      BY <3>1 DEF Outcome
    <3>3. calls'[c].pc # "capturing"
      <4>1. callOf[c].transport # "fetch"
        BY <1>3, <2>3 DEF Xhrs, Fetches
      <4> QED BY <4>1 DEF Outcome, Standing, Went
    <3> QED BY <1>2, <1>3, <2>3, <3>2, <3>3
  <2> QED BY <2>2, <2>3
<1>4. CASE listeners' = listeners
  <2> HIDE DEF Sent, After
  <2>1. \A o \in Objects' : \A i \in DOMAIN listeners'[o] : After(listeners'[o][i], o)
    BY <1>1, <1>2, <1>3, <1>4
  <2> QED BY <1>2, <2>1 DEF ListenersWereSent, After
<1>5. CASE /\ c \in Xhrs /\ calls'[c].pc = "network" /\ calls'[c].plan.source = "real"
           /\ listeners' = [listeners EXCEPT ![callOf[c].xhr] = Append(@, c)]
  <2>1. After(c, callOf[c].xhr)
    BY <1>2, <1>5
  <2> HIDE DEF Sent, After
  <2>2. SUFFICES ASSUME NEW o \in Objects, NEW i \in DOMAIN listeners'[o]
                 PROVE  After(listeners'[o][i], o)
    BY <1>2 DEF ListenersWereSent, After
  <2>3. PICK l : l = listeners[o]
    OBVIOUS
  <2>4. l \in Seq(Calls) /\ \A j \in DOMAIN l : After(l[j], o)
    BY <1>1, <1>3, <2>3 DEF CallsTyped
  <2>5. listeners'[o] = IF o = callOf[c].xhr THEN Append(l, c) ELSE l
    BY <1>5, <2>3 DEF CallsTyped
  <2>6. CASE o # callOf[c].xhr
    BY <2>4, <2>5, <2>6
  <2>7. CASE o = callOf[c].xhr
    <3>1. i \in 1 .. Len(l) + 1 /\ Append(l, c)[i] = IF i <= Len(l) THEN l[i] ELSE c
      BY <2>2, <2>4, <2>5, <2>7
    <3>2. i <= Len(l) => i \in DOMAIN l
      BY <2>4, <3>1
    <3> QED BY <2>1, <2>4, <2>5, <2>7, <3>1, <3>2
  <2> QED BY <2>6, <2>7
<1> QED BY <1>4, <1>5 DEF Outcome, Listens
(* A listener that is alone on its object hears only of its own call.            *)
LEMMA CapturesKeepTelling ==
  ASSUME CallsTyped, ListenersWereSent, CapturesTell, NEW c \in Calls, Outcome(c)
  PROVE  CapturesTell'
<1> DEFINE Unmixed(d) == d \in Xhrs => Alone(d)
           Shows(d, m) == /\ calls'[d].pc = "settled" /\ calls'[d].plan.source = "real"
                          /\ Carries(m, calls'[d].reply)
           Told(m) == m.type = "RESPONSE_BODY_CAPTURED" =>
                         m.call \in Calls /\ (Unmixed(m.call) => Shows(m.call, m))
<1>1. /\ Xhrs' = Xhrs /\ callOf' = callOf
      /\ \A d \in Calls : d # c => calls'[d] = calls[d]
  BY OthersStay
<1>2. \A d : Alone(d)' <=> Alone(d)
  BY <1>1 DEF Alone
<1>3. Extended(posted, posted')
  BY PostedStays
<1>4. ASSUME NEW i \in DOMAIN posted PROVE Told(posted[i])
  <2>1. PICK m : m = posted[i]
    OBVIOUS
  <2>2. SUFFICES ASSUME m.type = "RESPONSE_BODY_CAPTURED", Unmixed(m.call)
                 PROVE  Shows(m.call, m)
    BY <2>1 DEF CapturesTell
  <2>3. /\ m.call \in Calls /\ calls[m.call].pc = "settled"
        /\ calls[m.call].plan.source = "real"
        /\ Carries(m, calls[m.call].reply)
    BY <2>1, <2>2 DEF CapturesTell
  <2>4. m.call # c
    BY <2>3 DEF Outcome
  <2> QED BY <1>1, <2>3, <2>4
<1>5. ASSUME NEW d \in RangeOf(Heard(c))
      PROVE  /\ d \in Calls /\ c \in Xhrs
             /\ Unmixed(d) => d = c /\ calls[c].pc \in {"network", "settled"}
                                    /\ calls[c].plan.source = "real"
  <2>0. PICK h : h = Heard(c)
    OBVIOUS
  <2>a. DOMAIN h # {}
    BY <1>5, <2>0 DEF RangeOf
  <2>b. h # <<>>
    BY <2>a
  <2>1. c \in Xhrs /\ c \notin Fetches /\ h = listeners[callOf[c].xhr]
    BY <2>0, <2>b DEF Heard, Xhrs
  <2>2. PICK o, l : o = callOf[c].xhr /\ l = listeners[o] /\ o \in Objects
    BY <2>1 DEF Objects
  <2>3. PICK j \in DOMAIN l : d = l[j]
    BY <1>5, <2>0, <2>1, <2>2 DEF RangeOf
  <2>4. /\ d \in Xhrs /\ callOf[d].xhr = o
        /\ calls[d].pc \in {"network", "settled"} /\ calls[d].plan.source = "real"
    BY <2>2, <2>3 DEF ListenersWereSent
  <2>5. d \in Calls
    BY <2>4 DEF Xhrs
  <2>6. Unmixed(d) => d = c
    BY <2>1, <2>2, <2>4 DEF Alone
  <2> QED BY <2>1, <2>4, <2>5, <2>6
<1>6. IsReply(calls'[c].reply)
  BY DEF Outcome, IsCall
<1>7. ASSUME Captured(c), NEW m, Hears(m, Hearing(c), calls'[c].reply)
      PROVE  Told(m)
  <2>1. /\ calls'[c].pc = "settled" /\ calls'[c].plan.source = "real"
        /\ Carries(m, calls'[c].reply)
        /\ m.call \in RangeOf(Hearing(c))
    BY <1>6, <1>7 DEF Captured, Hears, IsReply
  <2>2. CASE c \in Fetches
    <3>1. m.call = c
      <4>1. PICK s : s = <<c>>
        OBVIOUS
      <4>2. \A i \in DOMAIN s : s[i] = c
        BY <4>1
      <4> QED BY <2>1, <2>2, <4>1, <4>2 DEF Hearing, RangeOf
    <3> QED BY <2>1, <3>1
  <2>3. CASE c \notin Fetches
    BY <1>5, <2>1, <2>3 DEF Hearing
  <2> QED BY <2>2, <2>3
<1>8. ASSUME Reported(c), NEW m, Hears(m, Heard(c), calls'[c].reply)
      PROVE  Told(m)
  <2>1. m.call \in RangeOf(Heard(c))
    BY <1>8 DEF Hears
  <2>2. ~(calls[c].pc \in {"network", "settled"} /\ calls[c].plan.source = "real")
    BY <1>8 DEF Reported
  <2> QED BY <1>5, <2>1, <2>2
<1> HIDE DEF Told
<1>9. \A i \in DOMAIN posted' \ DOMAIN posted : Told(posted'[i])
  <2>1. CASE Quiet(c)
    BY <2>1 DEF Quiet
  <2>2. CASE Captured(c)
    BY <1>7, <2>2, CapturedIsPosted
  <2>3. CASE Reported(c)
    <3>1. PICK n, status, body :
             /\ n \in DOMAIN posted'
             /\ posted'[n] = MockApplied(c, status, body)
             /\ \A i \in DOMAIN posted' \ (DOMAIN posted \cup {n}) :
                   Hears(posted'[i], Heard(c), calls'[c].reply)
      BY <2>3, ReportedIsPosted
    <3>2. Told(posted'[n])
      BY <3>1 DEF Told, MockApplied
    <3> QED BY <1>8, <2>3, <3>1, <3>2
  <2> QED BY <2>1, <2>2, <2>3 DEF Outcome
<1>10. \A i \in DOMAIN posted' : Told(posted'[i])
  BY <1>3, <1>4, <1>9 DEF Extended
<1> QED BY <1>1, <1>2, <1>10 DEF Told, CapturesTell

(* A call's step keeps what is known of the calls.                               *)
LEMMA CallsInvIsKept ==
  ASSUME CallsInv, NEW c \in Calls, Outcome(c)
  PROVE  CallsInv'
<1>1. CallsTyped /\ CallsStand /\ ReportsFollow /\ ListenersWereSent /\ CapturesTell
  BY DEF CallsInv
<1>2. CallsTyped' /\ CallsStand'
  BY <1>1, TypesStay, CallsKeepStanding
<1>3. ReportsFollow' /\ ListenersWereSent' /\ CapturesTell'
  BY <1>1, ReportsKeepFollowing, ListenersKeepSent, CapturesKeepTelling
<1> QED BY <1>2, <1>3 DEF CallsInv

(* An update leaves the calls alone.                                             *)
LEMMA UpdatesLeaveTheCalls ==
  ASSUME CallsInv, \/ UNCHANGED vars
                   \/ config' \in Configs /\ UNCHANGED <<callOf, calls, shadow, listeners, posted>>
  PROVE  CallsInv'
<1>1. /\ config' \in Configs /\ callOf' = callOf /\ calls' = calls /\ shadow' = shadow
      /\ listeners' = listeners /\ posted' = posted
  BY DEF CallsInv, CallsTyped, vars
<1>2. Fetches' = Fetches /\ Xhrs' = Xhrs /\ Objects' = Objects
  BY <1>1 DEF Fetches, Xhrs, Objects
<1>3. CallsTyped'
  BY <1>1, <1>2 DEF CallsInv, CallsTyped
<1>4. CallsStand'
  BY <1>1 DEF CallsInv, CallsStand
<1>5. ReportsFollow'
  BY <1>1, <1>2 DEF CallsInv, ReportsFollow, ReportsTellWhatThePageGot, Reports, Settled
<1>6. ListenersWereSent'
  BY <1>1, <1>2 DEF CallsInv, ListenersWereSent
<1>7. CapturesTell'
  BY <1>1, <1>2 DEF CallsInv, CapturesTell, Alone
<1> QED BY <1>3, <1>4, <1>5, <1>6, <1>7 DEF CallsInv

(* Nothing has been asked, posted or listened to.                                *)
LEMMA CallsStartRight ==
  ASSUME Init
  PROVE  CallsInv
<1>1. \A c \in Calls : /\ calls[c].pc = "idle" /\ calls[c].sent = <<>> /\ IsCall(calls[c])
  BY DEF Init, IsCall, Plan, IsPlan, NoReply, IsReply
<1>2. CallsTyped
  <2>1. IsSequence(posted)
    <3>1. posted = <<>>
      BY DEF Init
    <3> QED BY <3>1 DEF IsSequence
  <2>2. callOf \in Pages /\ config \in Configs
    BY BridgeAssumption DEF Init
  <2>3. DOMAIN calls = Calls /\ calls = [c \in Calls |-> calls[c]]
    <3>1. PICK r : calls = [c \in Calls |-> r]
      BY DEF Init
    <3> QED BY <3>1
  <2>4. /\ DOMAIN shadow = Objects /\ \A o \in Objects : IsReply(shadow[o])
        /\ DOMAIN listeners = Objects /\ \A o \in Objects : listeners[o] \in Seq(Calls)
    <3>1. shadow = [o \in Objects |-> NoReply] /\ listeners = [o \in Objects |-> <<>>]
      BY DEF Init
    <3>2. IsReply(NoReply)
      BY DEF IsReply, NoReply
    <3>3. <<>> \in Seq(Calls)
      OBVIOUS
    <3> QED BY <3>1, <3>2, <3>3
  <2> QED BY <1>1, <2>1, <2>2, <2>3, <2>4 DEF CallsTyped
<1>3. CallsStand
  BY <1>1 DEF CallsStand, Standing
<1>4. posted = <<>> /\ (\A o \in Objects : listeners[o] = <<>>)
  <2>1. listeners = [o \in Objects |-> <<>>] /\ posted = <<>>
    BY DEF Init
  <2> QED BY <2>1
<1>5. ReportsFollow
  BY <1>1, <1>4 DEF ReportsFollow, ReportsTellWhatThePageGot, Reports, Settled
<1>6. ListenersWereSent /\ CapturesTell
  BY <1>4 DEF ListenersWereSent, CapturesTell
<1> QED BY <1>2, <1>3, <1>5, <1>6 DEF CallsInv

(* The invariant of the calls.                                                   *)
LEMMA CallsInvAlways == Spec => []CallsInv
<1>1. Init => CallsInv
  BY CallsStartRight
<1>2. CallsInv /\ [Next]_vars => CallsInv'
  <2> SUFFICES ASSUME CallsInv, [Next]_vars PROVE CallsInv'
    OBVIOUS
  <2>1. CASE Next
    <3>1. CASE ReceiveUpdate
      <4>1. config' \in Configs /\ UNCHANGED <<callOf, calls, shadow, listeners, posted>>
        BY <3>1 DEF ReceiveUpdate
      <4> QED BY <4>1, UpdatesLeaveTheCalls
    <3>2. ASSUME NEW c \in Calls, Outcome(c) PROVE CallsInv'
      BY <3>2, CallsInvIsKept
    <3> QED BY <2>1, <3>1, <3>2, StepsAreOutcomes DEF CallsInv
  <2>2. CASE UNCHANGED vars
    BY <2>2, UpdatesLeaveTheCalls
  <2> QED BY <2>1, <2>2
<1> QED BY <1>1, <1>2, PTL DEF Spec
-------------------------------------------------------------------------------
(* The order in which sequence mocks answer.                                     *)

InOrder(o, i, plan) ==
    LET nth == Cardinality(Answers(o, o[i].mock, i))
    IN  \E m \in RangeOf(plan.rules.mocks) :
            /\ m.id = o[i].mock
            /\ plan.status = m.branches[IF nth < Len(m.branches) THEN nth
                                        ELSE Len(m.branches)].status

(* The property, one entry at a time.                                            *)
LEMMA OrderTold ==
  SequencesAnswerInOrder <=> \A i \in DOMAIN order : InOrder(order, i, calls[order[i].call].plan)
BY DEF SequencesAnswerInOrder, InOrder, Answers

(* A mock's counts, the number of its next call, and the counts after it.        *)
IsNext(nth, n, id) == n[id] \in Nat /\ nth = n[id] + 1

CountedOn(n, id, nth) == [n EXCEPT ![id] = nth]

BranchFor(mock, nth) ==
    mock.branches[IF nth < Len(mock.branches) THEN nth ELSE Len(mock.branches)]

(* What a sequence mock says to the nth call.                                    *)
LEMMA NthBranchAnswers ==
  ASSUME NEW mock, IsSequence(mock.branches), mock.branches # <<>>, NEW request,
         NEW n, NEW nth, IsNext(nth, n, mock.id),
         NEW result, result = evaluateConditionalMock(AsRule(mock), request, n)
  PROVE  /\ result.counts = CountedOn(n, mock.id, nth)
         /\ result.payload = BranchFor(mock, nth)
<1>1. PICK rule : rule = AsRule(mock)
  OBVIOUS
<1>2. nth = n[mock.id] + 1 /\ n[mock.id] \in Nat
  BY DEF IsNext
<1>3. result = evaluateConditionalMock(rule, request, n)
  BY <1>1
<1>4. /\ rule.id = mock.id /\ rule.enabled = TRUE
      /\ rule.fallback = mock.branches[Len(mock.branches)]
      /\ DOMAIN rule.branches = DOMAIN mock.branches
      /\ \A i \in DOMAIN mock.branches :
            /\ rule.branches[i].payload = mock.branches[i]
            /\ rule.branches[i].condition = [kind |-> "sequence", nth |-> i]
  BY <1>1 DEF AsRule
<1> DEFINE hits == { i \in DOMAIN rule.branches :
                       evaluateCondition(rule.branches[i].condition, request, n[rule.id] + 1) }
           first == CHOOSE i \in hits : \A j \in hits : i <= j
<1>5. /\ result.counts = CountedOn(n, mock.id, nth)
      /\ result.payload = IF hits # {} THEN rule.branches[first].payload ELSE rule.fallback
  <2>1. n[rule.id] + 1 = nth
    BY <1>2, <1>4
  <2>2. result = [payload |-> IF hits # {} THEN rule.branches[first].payload
                              ELSE rule.fallback,
                  counts |-> [n EXCEPT ![rule.id] = n[rule.id] + 1]]
    BY <1>3, <1>4 DEF evaluateConditionalMock
  <2> HIDE DEF hits, first
  <2>3. result.counts = [n EXCEPT ![rule.id] = n[rule.id] + 1]
    BY <2>2
  <2>4. result.counts = CountedOn(n, mock.id, nth)
    BY <1>4, <2>1, <2>3 DEF CountedOn
  <2> QED BY <2>2, <2>4
<1>6. hits = { i \in DOMAIN mock.branches : nth = i }
  <2>1. \A i : evaluateCondition([kind |-> "sequence", nth |-> i], request, nth) <=> nth = i
    BY DEF evaluateCondition
  <2>2. n[rule.id] + 1 = nth
    BY <1>2, <1>4
  <2>3. ASSUME NEW i \in DOMAIN mock.branches
        PROVE  evaluateCondition(rule.branches[i].condition, request, nth) <=> nth = i
    <3>1. rule.branches[i].condition = [kind |-> "sequence", nth |-> i]
      BY <1>4
    <3> QED BY <2>1, <3>1
  <2> QED BY <1>4, <2>2, <2>3
<1>7. /\ DOMAIN mock.branches = 1 .. Len(mock.branches) /\ Len(mock.branches) \in Nat
      /\ Len(mock.branches) # 0
  <2>1. PICK b : b = mock.branches
    OBVIOUS
  <2>2. b \in Seq(RangeOf(b)) /\ b # <<>>
    BY <2>1 DEF IsSequence
  <2>3. DOMAIN b = 1 .. Len(b) /\ Len(b) \in Nat /\ Len(b) # 0
    BY <2>2
  <2> QED BY <2>1, <2>3
<1>8. nth \in Nat /\ nth >= 1
  BY <1>2
<1> HIDE DEF hits
<1>9. CASE nth <= Len(mock.branches)
  <2>1. hits = {nth} /\ nth \in DOMAIN mock.branches
    BY <1>6, <1>7, <1>8, <1>9
  <2>2. first = nth
    BY <1>8, <2>1
  <2>3. result.payload = mock.branches[nth]
    <3>1. result.payload = rule.branches[nth].payload
      BY <1>5, <2>1, <2>2
    <3> QED BY <1>4, <2>1, <3>1
  <2>4. nth = IF nth < Len(mock.branches) THEN nth ELSE Len(mock.branches)
    BY <1>7, <1>8, <1>9
  <2>5. result.payload = BranchFor(mock, nth)
    BY <2>3, <2>4 DEF BranchFor
  <2> QED BY <1>5, <2>5
<1>10. CASE ~(nth <= Len(mock.branches))
  <2>1. hits = {}
    BY <1>6, <1>7, <1>8, <1>10
  <2>2. ~(nth < Len(mock.branches))
    BY <1>7, <1>8, <1>10
  <2>3. result.payload = BranchFor(mock, nth)
    BY <1>4, <1>5, <2>1, <2>2 DEF BranchFor
  <2> QED BY <1>5, <2>3
<1> QED BY <1>9, <1>10

(* The mock that answers is one of the configuration's.                          *)
LEMMA FirstApplyingAnswers ==
  ASSUME NEW k \in Configs, NEW request, counts \in [MockIds -> Nat],
         NEW conditional, conditional = resolveConditionalMock(k, request), conditional.mocked,
         NEW id, id = conditional.id
  PROVE  /\ id \in MockIds
         /\ \E nth :
               /\ IsNext(nth, counts, id)
               /\ conditional.counts = CountedOn(counts, id, nth)
               /\ \E m \in RangeOf(k.mocks) :
                     m.id = id /\ conditional.payload = BranchFor(m, nth)
<1> DEFINE applying == Applying(k, request)
           least == CHOOSE i \in applying : \A j \in applying : i <= j
<1>1. applying # {}
  BY DEF resolveConditionalMock, NotMocked
<1>2. applying \in SUBSET Nat
  BY BridgeAssumption DEF Applying, IsSequence
<1>3. least \in applying
  <2>1. \E i \in applying : \A j \in applying : i <= j
    BY <1>1, <1>2, LeastNumber
  <2> QED BY <2>1
<1>4. PICK mock : mock = k.mocks[least]
  OBVIOUS
<1>5. mock \in RangeOf(k.mocks) /\ mock.branches # <<>>
  BY <1>3, <1>4 DEF Applying, Applies, RangeOf
<1>6. IsSequence(mock.branches)
  BY <1>5, BridgeAssumption
<1>7. mock.id \in MockIds
  BY <1>5 DEF MockIds
<1>8. PICK result : result = evaluateConditionalMock(AsRule(mock), request, counts)
  OBVIOUS
<1>9. conditional =
         [mocked |-> TRUE, id |-> mock.id, payload |-> result.payload, counts |-> result.counts]
  BY <1>1, <1>4, <1>8 DEF resolveConditionalMock
<1>10. id = mock.id /\ conditional.payload = result.payload /\ conditional.counts = result.counts
  BY <1>9
<1>11. PICK nth : IsNext(nth, counts, mock.id)
  <2>1. counts[mock.id] \in Nat
    BY <1>7
  <2>2. PICK next : next = counts[mock.id] + 1
    OBVIOUS
  <2>3. IsNext(next, counts, mock.id)
    BY <2>1, <2>2 DEF IsNext
  <2> QED BY <2>3
<1>12. /\ result.counts = CountedOn(counts, mock.id, nth)
       /\ result.payload = BranchFor(mock, nth)
  BY <1>5, <1>6, <1>8, <1>11, NthBranchAnswers
<1> QED BY <1>5, <1>7, <1>10, <1>11, <1>12

(* A call that a sequence mock answers has taken its branch when it begins.      *)
LEMMA BeginTakesABranch ==
  ASSUME CallsInv, counts \in [MockIds -> Nat], NEW c \in Calls, Begin(c)
  PROVE  \/ counts' = counts /\ order' = order
         \/ \E id \in MockIds :
              /\ order' = Append(order, [call |-> c, mock |-> id])
              /\ counts' = [counts EXCEPT ![id] = counts[id] + 1]
              /\ \E m \in RangeOf(calls'[c].plan.rules.mocks) :
                    /\ m.id = id
                    /\ calls'[c].plan.status =
                          m.branches[IF counts[id] + 1 < Len(m.branches) THEN counts[id] + 1
                                     ELSE Len(m.branches)].status
<1>1. PICK q, conditional, plan :
         /\ q = callOf[c] /\ conditional = resolveConditionalMock(config, q)
         /\ plan = IF c \in Fetches THEN PlanFetch(c, conditional) ELSE PlanXhr(c, conditional)
  OBVIOUS
<1>2. /\ counts' = conditional.counts
      /\ order' = IF conditional.mocked
                  THEN Append(order, [call |-> c, mock |-> conditional.id]) ELSE order
      /\ \/ Continue(c, plan)
         \/ calls' = [calls EXCEPT ![c] = [pc |-> "delayed", plan |-> plan,
                                           sent |-> calls[c].sent, reply |-> calls[c].reply]]
  BY <1>1 DEF Begin
<1>3. CallsTyped /\ config \in Configs
  BY DEF CallsInv, CallsTyped
<1>4. CASE ~conditional.mocked
  <2>1. conditional.counts = counts
    BY <1>1, <1>4 DEF resolveConditionalMock, NotMocked
  <2> QED BY <1>2, <1>4, <2>1
<1>5. CASE conditional.mocked
  <2>1. plan.rules = config /\ plan.status = conditional.payload.status /\ IsPlan(plan)
    BY <1>1, <1>3, <1>5, PlansAreReady DEF Ready
  <2>2. plan.source = "conditional"
    BY <1>1, <1>5 DEF PlanFetch, PlanXhr, Plan
  <2>3. calls'[c].plan = plan
    <3>1. CASE Continue(c, plan)
      <4>1. \E reply : Settle(c, plan, reply)
        BY <2>2, <3>1 DEF Continue, ContinueFetch, ContinueXhr, AnswerFetch, deliverMockedXhr
      <4> QED BY <1>3, <4>1 DEF Settle, CallsTyped
    <3>2. CASE calls' = [calls EXCEPT ![c] = [pc |-> "delayed", plan |-> plan,
                                              sent |-> calls[c].sent, reply |-> calls[c].reply]]
      BY <1>3, <3>2 DEF CallsTyped
    <3> QED BY <1>2, <3>1, <3>2
  <2>4. PICK id : id = conditional.id
    OBVIOUS
  <2>5. /\ id \in MockIds /\ conditional.counts = [counts EXCEPT ![id] = counts[id] + 1]
        /\ \E m \in RangeOf(config.mocks) :
              /\ m.id = id
              /\ conditional.payload = m.branches[IF counts[id] + 1 < Len(m.branches)
                                                  THEN counts[id] + 1 ELSE Len(m.branches)]
    <3>1. /\ id \in MockIds
          /\ \E nth :
               /\ IsNext(nth, counts, id)
               /\ conditional.counts = CountedOn(counts, id, nth)
               /\ \E m \in RangeOf(config.mocks) :
                     m.id = id /\ conditional.payload = BranchFor(m, nth)
      BY <1>1, <1>3, <1>5, <2>4, FirstApplyingAnswers
    <3>2. PICK nth : /\ IsNext(nth, counts, id)
                     /\ conditional.counts = CountedOn(counts, id, nth)
                     /\ \E m \in RangeOf(config.mocks) :
                           m.id = id /\ conditional.payload = BranchFor(m, nth)
      BY <3>1
    <3>3. nth = counts[id] + 1
      BY <3>2 DEF IsNext
    <3>4. conditional.counts = [counts EXCEPT ![id] = counts[id] + 1]
      BY <3>2, <3>3 DEF CountedOn
    <3>5. \E m \in RangeOf(config.mocks) :
             /\ m.id = id
             /\ conditional.payload = m.branches[IF counts[id] + 1 < Len(m.branches)
                                                 THEN counts[id] + 1 ELSE Len(m.branches)]
      BY <3>2, <3>3 DEF BranchFor
    <3> QED BY <3>1, <3>4, <3>5
  <2>6. PICK m \in RangeOf(config.mocks) :
           /\ m.id = id
           /\ conditional.payload = m.branches[IF counts[id] + 1 < Len(m.branches)
                                               THEN counts[id] + 1 ELSE Len(m.branches)]
    BY <2>5
  <2>7. calls'[c].plan.rules = config /\ calls'[c].plan.status = conditional.payload.status
    BY <2>1, <2>3
  <2>8. calls'[c].plan.status = m.branches[IF counts[id] + 1 < Len(m.branches)
                                           THEN counts[id] + 1 ELSE Len(m.branches)].status
    BY <2>6, <2>7
  <2>9. /\ order' = Append(order, [call |-> c, mock |-> id])
        /\ counts' = [counts EXCEPT ![id] = counts[id] + 1]
    BY <1>2, <1>5, <2>4, <2>5
  <2>10. m \in RangeOf(calls'[c].plan.rules.mocks)
    BY <2>7
  <2> QED BY <2>5, <2>6, <2>8, <2>9, <2>10
<1> QED BY <1>4, <1>5

(* t is o with e behind it.                                                      *)
GrownBy(t, o, e) ==
    /\ Len(t) = Len(o) + 1 /\ Len(t) \in Nat /\ Len(o) \in Nat
    /\ DOMAIN t = DOMAIN o \cup {Len(t)} /\ Len(t) \notin DOMAIN o
    /\ DOMAIN o = 1 .. Len(o)
    /\ t[Len(t)] = e /\ \A i \in DOMAIN o : t[i] = o[i]
    /\ \A m, i : i \in DOMAIN o => Answers(t, m, i) = Answers(o, m, i)
    /\ \A m : Answers(t, m, Len(t)) =
                 Answers(o, m, Len(o)) \cup (IF e.mock = m THEN {Len(t)} ELSE {})

(* The order after one more call has begun.                                      *)
LEMMA OrderGrows ==
  ASSUME NEW S, NEW o \in Seq(S), NEW e, NEW t, t = Append(o, e)
  PROVE  GrownBy(t, o, e)
<1>1. o \in Seq(S \cup {e}) /\ e \in S \cup {e}
  OBVIOUS
<1>2. PICK n : n = Len(t)
  OBVIOUS
<1>3. /\ n = Len(o) + 1 /\ n \in Nat /\ DOMAIN o = 1 .. Len(o) /\ DOMAIN t = 1 .. n
      /\ Len(o) \in Nat
      /\ t[n] = e /\ \A i \in 1 .. Len(o) : t[i] = o[i]
  BY <1>1, <1>2
<1>4. DOMAIN t = DOMAIN o \cup {n} /\ n \notin DOMAIN o
  BY <1>3
<1>5. ASSUME NEW m, NEW i \in DOMAIN o PROVE Answers(t, m, i) = Answers(o, m, i)
  <2>1. \A j \in 1 .. i : t[j] = o[j]
    BY <1>3
  <2> QED BY <2>1 DEF Answers
<1>6. ASSUME NEW m
      PROVE  Answers(t, m, n) = Answers(o, m, Len(o)) \cup (IF e.mock = m THEN {n} ELSE {})
  <2>1. 1 .. n = (1 .. Len(o)) \cup {n}
    BY <1>3
  <2>2. \A j \in 1 .. Len(o) : t[j].mock = m <=> o[j].mock = m
    BY <1>3
  <2>3. t[n].mock = m <=> e.mock = m
    BY <1>3
  <2> QED BY <2>1, <2>2, <2>3 DEF Answers
<1> QED BY <1>2, <1>3, <1>4, <1>5, <1>6 DEF GrownBy

(* The calls that were answered in order keep what they were answered.           *)
LEMMA AnswersStay ==
  ASSUME CallsTyped, NEW c \in Calls, Outcome(c), NEW d \in Calls, calls[d].pc # "idle"
  PROVE  /\ calls'[d].pc # "idle"
         /\ calls'[d].plan.rules = calls[d].plan.rules
         /\ calls'[d].plan.status = calls[d].plan.status
<1>1. CASE d = c
  BY <1>1 DEF Outcome
<1>2. CASE d # c
  BY <1>2, OthersStay
<1> QED BY <1>1, <1>2

(* A step that takes no branch keeps the order.                                  *)
LEMMA OrderIsKept ==
  ASSUME CallsTyped, OrderInv, counts' = counts, order' = order,
         (\E c \in Calls : Outcome(c)) \/ calls' = calls
  PROVE  OrderInv'
<1>1. ASSUME NEW i \in DOMAIN order
      PROVE  LET d == order[i].call
             IN  /\ calls'[d].pc # "idle"
                 /\ calls'[d].plan.rules = calls[d].plan.rules
                 /\ calls'[d].plan.status = calls[d].plan.status
  <2>1. order[i] \in OrderEntries
    BY DEF OrderInv
  <2>2. order[i].call \in Calls /\ calls[order[i].call].pc # "idle"
    BY <2>1 DEF OrderInv, OrderEntries
  <2> QED BY <2>2, AnswersStay
<1>2. \A i \in DOMAIN order : InOrder(order, i, calls[order[i].call].plan)
  BY OrderTold DEF OrderInv
<1>3. \A i \in DOMAIN order : InOrder(order, i, calls'[order[i].call].plan)
  BY <1>1, <1>2 DEF InOrder
<1>4. SequencesAnswerInOrder'
  BY <1>3 DEF SequencesAnswerInOrder, InOrder, Answers
<1> QED BY <1>1, <1>4 DEF OrderInv

(* A call that takes a branch takes the next one.                                *)
LEMMA OrderIsTaken ==
  ASSUME CallsInv, OrderInv, NEW c \in Calls, Begin(c)
  PROVE  OrderInv'
<1>1. CallsTyped /\ CallsStand /\ Outcome(c)
  BY BeginMoves DEF CallsInv
<1>2. \A m \in MockIds : counts[m] = Cardinality(Answers(order, m, Len(order)))
  BY DEF OrderInv
<1>3. order \in Seq(OrderEntries)
  BY DEF OrderInv
<1>4. \A m : IsFiniteSet(Answers(order, m, Len(order)))
  <2>1. Len(order) \in Nat
    BY <1>3
  <2>2. IsFiniteSet(1 .. Len(order))
    BY <2>1, FS_Interval
  <2> QED BY <2>2, FS_Subset DEF Answers
<1>5. counts \in [MockIds -> Nat]
  <2>1. \A m \in MockIds : counts[m] \in Nat
    BY <1>2, <1>4, FS_CardinalityType
  <2>2. DOMAIN counts = MockIds /\ counts = [m \in MockIds |-> counts[m]]
    BY DEF OrderInv
  <2> QED BY <2>1, <2>2
<1>6. CASE counts' = counts /\ order' = order
  BY <1>1, <1>6, OrderIsKept
<1>7. CASE ~(counts' = counts /\ order' = order)
  <2>1. PICK id, e, n :
           /\ id \in MockIds
           /\ e = [call |-> c, mock |-> id] /\ n = Len(order) + 1
           /\ order' = Append(order, e)
           /\ counts' = [counts EXCEPT ![id] = counts[id] + 1]
           /\ \E m \in RangeOf(calls'[c].plan.rules.mocks) :
                 /\ m.id = id
                 /\ calls'[c].plan.status =
                       m.branches[IF counts[id] + 1 < Len(m.branches) THEN counts[id] + 1
                                  ELSE Len(m.branches)].status
    BY <1>5, <1>7, BeginTakesABranch
  <2>2. /\ n \in Nat /\ Len(order') = n /\ DOMAIN order' = DOMAIN order \cup {n}
        /\ n \notin DOMAIN order /\ DOMAIN order = 1 .. Len(order) /\ Len(order) \in Nat
        /\ order'[n] = e /\ \A i \in DOMAIN order : order'[i] = order[i]
        /\ \A m, i : i \in DOMAIN order => Answers(order', m, i) = Answers(order, m, i)
        /\ \A m : Answers(order', m, n) = Answers(order, m, Len(order))
                                             \cup (IF e.mock = m THEN {n} ELSE {})
    <3>1. PICK t : t = order'
      OBVIOUS
    <3>2. t = Append(order, e)
      BY <2>1, <3>1
    <3>3. GrownBy(t, order, e)
      BY <1>3, <3>2, OrderGrows
    <3>4. n = Len(t)
      BY <2>1, <3>3 DEF GrownBy
    <3> QED BY <3>1, <3>3, <3>4 DEF GrownBy
  <2>3. e.call = c /\ e.mock = id /\ e \in OrderEntries
    BY <2>1 DEF OrderEntries
  <2>4. order' \in Seq(OrderEntries)
    BY <1>3, <2>1, <2>3
  <2>5. n \notin Answers(order, id, Len(order))
    BY <2>2 DEF Answers
  <2>6. Cardinality(Answers(order', id, n)) = counts[id] + 1
    <3>1. PICK A : A = Answers(order, id, Len(order))
      OBVIOUS
    <3>2. IsFiniteSet(A) /\ n \notin A /\ Cardinality(A) = counts[id]
      BY <1>2, <1>4, <2>1, <2>5, <3>1
    <3>3. Cardinality(A \cup {n}) = Cardinality(A) + 1
      BY <3>2, FS_AddElement
    <3>4. Answers(order', id, n) = A \cup {n}
      BY <2>2, <2>3, <3>1
    <3> QED BY <3>2, <3>3, <3>4
  <2>7. \A m \in MockIds : m # id => Cardinality(Answers(order', m, n)) = counts[m]
    <3> SUFFICES ASSUME NEW m \in MockIds, m # id
                 PROVE  Cardinality(Answers(order', m, n)) = counts[m]
      OBVIOUS
    <3>1. Answers(order', m, n) = Answers(order, m, Len(order))
                                     \cup (IF e.mock = m THEN {n} ELSE {})
      BY <2>2
    <3>2. e.mock # m
      BY <2>3
    <3>3. Answers(order', m, n) = Answers(order, m, Len(order))
      BY <3>1, <3>2
    <3> QED BY <1>2, <3>3
  <2>8. counts' = [m \in MockIds |-> Cardinality(Answers(order', m, Len(order')))]
    <3>1. \A m \in MockIds : counts'[m] = Cardinality(Answers(order', m, n))
      BY <1>5, <2>1, <2>6, <2>7
    <3>2. DOMAIN counts' = MockIds /\ counts' = [m \in MockIds |-> counts'[m]]
      BY <1>5, <2>1
    <3> QED BY <2>2, <3>1, <3>2
  <2>9. ASSUME NEW i \in DOMAIN order
        PROVE  /\ calls'[order'[i].call].pc # "idle"
               /\ InOrder(order', i, calls'[order'[i].call].plan)
    <3>1. PICK d : d = order[i].call
      OBVIOUS
    <3>2. /\ d \in Calls /\ calls[d].pc # "idle" /\ InOrder(order, i, calls[d].plan)
          /\ order'[i] = order[i] /\ \A m : Answers(order', m, i) = Answers(order, m, i)
      <4>1. order[i] \in OrderEntries
        BY <1>3
      <4>2. d \in Calls /\ calls[d].pc # "idle"
        BY <3>1, <4>1 DEF OrderInv, OrderEntries
      <4>3. InOrder(order, i, calls[d].plan)
        BY <3>1, OrderTold DEF OrderInv
      <4>4. order'[i] = order[i] /\ \A m : Answers(order', m, i) = Answers(order, m, i)
        BY <2>2
      <4> QED BY <4>2, <4>3, <4>4
    <3>3. /\ calls'[d].pc # "idle" /\ calls'[d].plan.rules = calls[d].plan.rules
          /\ calls'[d].plan.status = calls[d].plan.status
      BY <1>1, <3>2, AnswersStay
    <3>4. InOrder(order', i, calls'[d].plan)
      BY <3>2, <3>3 DEF InOrder
    <3> QED BY <3>1, <3>2, <3>3, <3>4
  <2>10. calls'[c].pc # "idle"
    BY <1>1 DEF Outcome
  <2>11. InOrder(order', n, calls'[c].plan)
    BY <2>1, <2>2, <2>3, <2>6 DEF InOrder
  <2>12. \A i \in DOMAIN order' : /\ calls'[order'[i].call].pc # "idle"
                                  /\ InOrder(order', i, calls'[order'[i].call].plan)
    BY <2>2, <2>3, <2>9, <2>10, <2>11
  <2>13. SequencesAnswerInOrder'
    BY <2>12 DEF SequencesAnswerInOrder, InOrder, Answers
  <2> QED BY <2>4, <2>8, <2>12, <2>13 DEF OrderInv
<1> QED BY <1>6, <1>7

(* Only a call that begins moves the counts.                                     *)
LEMMA OthersTakeNoBranch ==
  ASSUME Next, \A c \in Calls : ~Begin(c)
  PROVE  counts' = counts /\ order' = order
BY DEF Next, ReceiveUpdate, Wake, CaptureFetched, NetworkFails, FetchAnswered, XhrAnswered, Unchanged

(* The invariant of the bridge.                                                  *)
LEMMA BridgeInvAlways == Spec => []BridgeInv
<1>1. Init => BridgeInv
  <2> SUFFICES ASSUME Init PROVE BridgeInv
    OBVIOUS
  <2>1. order = <<>> /\ counts = [m \in MockIds |-> 0]
    BY DEF Init, createMockState
  <2>2. order \in Seq(OrderEntries) /\ DOMAIN order = {} /\ Len(order) = 0
    BY <2>1
  <2>3. \A m : Answers(order, m, Len(order)) = {}
    BY <2>2 DEF Answers
  <2>4. counts = [m \in MockIds |-> Cardinality(Answers(order, m, Len(order)))]
    BY <2>1, <2>3, FS_EmptySet
  <2>5. SequencesAnswerInOrder
    BY <2>2 DEF SequencesAnswerInOrder
  <2> QED BY <2>2, <2>4, <2>5, CallsStartRight DEF BridgeInv, OrderInv
<1>2. BridgeInv /\ CallsInv' /\ [Next]_vars => BridgeInv'
  <2> SUFFICES ASSUME BridgeInv, CallsInv', [Next]_vars PROVE OrderInv'
    BY DEF BridgeInv
  <2>1. CallsTyped /\ CallsStand /\ CallsInv /\ OrderInv
    BY DEF BridgeInv, CallsInv
  <2>2. CASE \E c \in Calls : Begin(c)
    BY <2>1, <2>2, OrderIsTaken
  <2>3. CASE Next /\ \A c \in Calls : ~Begin(c)
    <3>1. counts' = counts /\ order' = order
      BY <2>3, OthersTakeNoBranch
    <3>2. ReceiveUpdate => calls' = calls
      BY DEF ReceiveUpdate
    <3> QED BY <2>1, <2>3, <3>1, <3>2, StepsAreOutcomes, OrderIsKept
  <2>4. CASE UNCHANGED vars
    BY <2>1, <2>4, OrderIsKept DEF vars
  <2> QED BY <2>2, <2>3, <2>4
<1> QED BY <1>1, <1>2, CallsInvAlways, PTL DEF Spec
-------------------------------------------------------------------------------
(* The theorems.                                                                 *)

(* Whatever updates arrive while it waits, a call is mocked, rewritten or sent   *)
(* as the rules in force when it began prescribe, goes out once with the body    *)
(* they want, and a second time only when the rewrite of an XMLHttpRequest has   *)
(* failed; a delayed fetch that is not mocked may be rewritten by later rules.   *)
THEOREM CallsAlwaysFollowTheirRules == Spec => []CallsFollowTheRulesTheyBeganWith
<1>1. CallsInv => CallsFollowTheRulesTheyBeganWith
  <2> SUFFICES ASSUME CallsInv, NEW c \in Calls, calls[c].pc = "settled"
               PROVE  LET plan == calls[c].plan
                          source == Prescribed(plan.rules, callOf[c])
                          out == PrescribedBody(plan.rules, callOf[c])
                          fixed == \/ c \in Xhrs \/ source \in {"conditional", "mock"}
                                   \/ Governing(plan.rules, callOf[c], "delay").payload.delayMs = 0
                      IN  fixed =>
                            \/ plan.source = source
                               /\ calls[c].sent = IF source \in {"conditional", "mock"} THEN <<>>
                                                  ELSE <<out>>
                            \/ /\ c \in Xhrs /\ source = "rewrite"
                               /\ plan.source = "real" /\ calls[c].sent = <<out, out>>
    BY DEF CallsFollowTheRulesTheyBeganWith, Settled
  <2>1. Went(callOf[c], calls[c])
    BY DEF CallsInv, CallsStand, Standing
  <2>2. c \in Xhrs <=> callOf[c].transport # "fetch"
    BY DEF Xhrs, Fetches
  <2> QED BY <2>1, <2>2 DEF Went, Fixed, Late, Mocks
<1> QED BY <1>1, CallsInvAlways, PTL

(* A call that was mocked or rewritten is reported once, with what the page got. *)
THEOREM ReportsAlwaysTellWhatThePageGot == Spec => []ReportsTellWhatThePageGot
<1>1. CallsInv => ReportsTellWhatThePageGot
  BY DEF CallsInv, ReportsFollow
<1> QED BY <1>1, CallsInvAlways, PTL

(* A captured body is what the network gave, and the page got, for the call the  *)
(* message names, unless the object of the call is sent again.                   *)
THEOREM CapturesAlwaysTellTheirCall == Spec => []CapturesTellTheirCall
<1>1. CallsInv => CapturesTellTheirCall
  BY DEF CallsInv, CapturesTell, CapturesTellTheirCall, RangeOf
<1> QED BY <1>1, CallsInvAlways, PTL

(* The nth call that a sequence mock answers gets the nth branch, every later    *)
(* one the last, in the order the calls began, however their delays end.         *)
THEOREM SequencesAlwaysAnswerInOrder == Spec => []SequencesAnswerInOrder
<1>1. BridgeInv => SequencesAnswerInOrder
  BY DEF BridgeInv, OrderInv
<1> QED BY <1>1, BridgeInvAlways, PTL

-------------------------------------------------------------------------------
(* Tables.                                                                       *)

(* What holds of a place whenever it holds of the places of lesser rank holds    *)
(* everywhere.                                                                   *)
LEMMA RankInduction ==
  ASSUME NEW P, NEW rank \in [P -> Nat], NEW G,
         \A p \in P : (\A q \in P : rank[q] < rank[p] => q \in G) => p \in G
  PROVE  \A p \in P : p \in G
<1> DEFINE Bad == {p \in P : p \notin G}
           Ranks == {rank[p] : p \in Bad}
<1>1. SUFFICES ASSUME Bad # {} PROVE FALSE
  OBVIOUS
<1>2. Ranks \in SUBSET Nat /\ Ranks # {}
  BY <1>1
<1>3. PICK k \in Ranks : \A l \in Ranks : k <= l
  <2> HIDE DEF Ranks
  <2> QED BY <1>2, LeastNumber
<1>4. PICK p \in Bad : rank[p] = k
  OBVIOUS
<1>5. ASSUME NEW q \in P, rank[q] < rank[p], q \notin G PROVE FALSE
  <2>1. rank[q] \in Ranks
    BY <1>5
  <2>2. k <= rank[q]
    BY <1>3, <2>1
  <2> QED BY <1>4, <1>5, <2>2
<1> QED BY <1>4, <1>5

(* A table whose entries are each made from entries of lesser rank, which F      *)
(* makes anew from a table.                                                      *)
MadeFromLesser(P, V, rank, F) ==
  /\ F \in [[P -> V] -> [P -> V]]
  /\ \A f, g \in [P -> V] : \A p \in P :
        (\A q \in P : rank[q] < rank[p] => f[q] = g[q]) => F[f][p] = F[g][p]

(* Some table is what F makes of it.                                             *)
LEMMA TablesExist ==
  ASSUME NEW P, NEW V, NEW rank \in [P -> Nat], NEW top \in Nat, NEW F,
         MadeFromLesser(P, V, rank, F), [P -> V] # {},
         \A p \in P : rank[p] <= top
  PROVE  \E f \in [P -> V] : f = F[f]
<1> USE DEF MadeFromLesser
<1> DEFINE Filled(f, k) == \A p \in P : rank[p] < k => f[p] = F[f][p]
           Bad == {k \in Nat : ~\E f \in [P -> V] : Filled(f, k)}
<1>1. Bad = {}
  <2>1. SUFFICES ASSUME Bad # {} PROVE FALSE
    OBVIOUS
  <2>2. PICK k \in Bad : \A j \in Bad : k <= j
    <3>1. Bad \in SUBSET Nat
      OBVIOUS
    <3> HIDE DEF Bad
    <3> QED BY <2>1, <3>1, LeastNumber
  <2>3. k # 0
    OBVIOUS
  <2>4. k - 1 \in Nat /\ k - 1 \notin Bad
    BY <2>2, <2>3
  <2>5. PICK f \in [P -> V] : Filled(f, k - 1)
    BY <2>4
  <2>6. PICK g \in [P -> V] : g = F[f]
    OBVIOUS
  <2>7. ASSUME NEW p \in P, rank[p] < k PROVE g[p] = F[g][p]
    <3>1. ASSUME NEW q \in P, rank[q] < rank[p] PROVE f[q] = g[q]
      <4>1. rank[q] < k - 1
        BY <2>7, <3>1
      <4> QED BY <4>1, <2>5, <2>6
    <3>2. F[f][p] = F[g][p]
      BY <3>1
    <3> QED BY <2>6, <3>2
  <2>8. Filled(g, k)
    BY <2>7
  <2> QED BY <2>8
<1>2. PICK f \in [P -> V] : Filled(f, top + 1)
  <2>1. top + 1 \in Nat /\ top + 1 \notin Bad
    <3> HIDE DEF Bad
    <3> QED BY <1>1
  <2> QED BY <2>1
<1>3. PICK g \in [P -> V] : g = F[f]
  OBVIOUS
<1>4. \A p \in P : f[p] = g[p]
  BY <1>2, <1>3
<1>5. f = g
  BY <1>4
<1> QED BY <1>3, <1>5

-------------------------------------------------------------------------------
(* The matched pairs.                                                            *)

Cells(a, b) == (0 .. Len(a)) \X (0 .. Len(b))

(* The pairs of lines that may be matched.                                       *)
EqualLines(a, b) == { p \in (1 .. Len(a)) \X (1 .. Len(b)) : a[p[1]] = b[p[2]] }

TraceOf(a, b, f, p) ==
  IF p[1] = 0 \/ p[2] = 0 THEN {}
  ELSE IF a[p[1]] = b[p[2]] THEN {<<p[1], p[2]>>} \cup f[<<p[1] - 1, p[2] - 1>>]
  ELSE IF LcsLengths(a, b)[<<p[1] - 1, p[2]>>] >= LcsLengths(a, b)[<<p[1], p[2] - 1>>]
       THEN f[<<p[1] - 1, p[2]>>]
  ELSE f[<<p[1], p[2] - 1>>]

IsTrace(a, b, f) == f = [p \in Cells(a, b) |-> TraceOf(a, b, f, p)]

(* The table of matched pairs exists, and so does that of the rows below: the    *)
(* functions computeLcs and buildDiffResult are defined by are there to choose.  *)
LEMMA TracesExist ==
  ASSUME NEW S, NEW a \in Seq(S), NEW b \in Seq(S)
  PROVE  \E f : IsTrace(a, b, f)
<1> DEFINE P == Cells(a, b)
           V == SUBSET EqualLines(a, b)
           rank == [p \in P |-> p[1] + p[2]]
           F == [f \in [P -> V] |-> [p \in P |-> TraceOf(a, b, f, p)]]
<1>1. rank \in [P -> Nat] /\ \A p \in P : rank[p] <= Len(a) + Len(b)
  BY DEF Cells
<1>2. ASSUME NEW p \in P
      PROVE  /\ p[1] # 0 => <<p[1] - 1, p[2]>> \in P /\ rank[<<p[1] - 1, p[2]>>] < rank[p]
             /\ p[2] # 0 => <<p[1], p[2] - 1>> \in P /\ rank[<<p[1], p[2] - 1>>] < rank[p]
             /\ p[1] # 0 /\ p[2] # 0 =>
                   /\ <<p[1] - 1, p[2] - 1>> \in P /\ rank[<<p[1] - 1, p[2] - 1>>] < rank[p]
                   /\ a[p[1]] = b[p[2]] => <<p[1], p[2]>> \in EqualLines(a, b)
  <2>1. p[1] \in 0 .. Len(a) /\ p[2] \in 0 .. Len(b) /\ Len(a) \in Nat /\ Len(b) \in Nat
    BY DEF Cells
  <2>2. \A i \in 0 .. Len(a), j \in 0 .. Len(b) : <<i, j>> \in P /\ rank[<<i, j>>] = i + j
    BY DEF Cells
  <2>3. rank[p] = p[1] + p[2]
    OBVIOUS
  <2>4. ASSUME p[1] # 0, p[2] # 0, a[p[1]] = b[p[2]] PROVE <<p[1], p[2]>> \in EqualLines(a, b)
    BY <2>1, <2>4 DEF EqualLines
  <2> HIDE DEF P, rank
  <2>5. p[1] # 0 => p[1] - 1 \in 0 .. Len(a)
    BY <2>1
  <2>6. p[2] # 0 => p[2] - 1 \in 0 .. Len(b)
    BY <2>1
  <2> QED BY <2>1, <2>2, <2>3, <2>4, <2>5, <2>6
<1>3. ASSUME NEW f \in [P -> V], NEW p \in P PROVE TraceOf(a, b, f, p) \in V
  <2> HIDE DEF P
  <2> QED BY <1>2 DEF TraceOf
<1>4. F \in [[P -> V] -> [P -> V]]
  BY <1>3
<1>5. ASSUME NEW f \in [P -> V], NEW g \in [P -> V], NEW p \in P,
             \A q \in P : rank[q] < rank[p] => f[q] = g[q]
      PROVE  F[f][p] = F[g][p]
  <2> HIDE DEF P, V
  <2>1. TraceOf(a, b, f, p) = TraceOf(a, b, g, p)
    <3> HIDE DEF rank
    <3> QED BY <1>2, <1>5 DEF TraceOf
  <2> QED BY <2>1
<1>6. [P -> V] # {}
  <2>1. [p \in P |-> {}] \in [P -> V]
    OBVIOUS
  <2> QED BY <2>1
<1>7. Len(a) + Len(b) \in Nat
  OBVIOUS
<1>8. PICK f \in [P -> V] : f = F[f]
  <2>1. MadeFromLesser(P, V, rank, F)
    BY <1>4, <1>5 DEF MadeFromLesser
  <2> HIDE DEF F, P, V, rank
  <2>2. PICK top : top = Len(a) + Len(b)
    OBVIOUS
  <2>3. top \in Nat /\ \A p \in P : rank[p] <= top
    BY <1>1, <1>7, <2>2
  <2>4. rank \in [P -> Nat]
    BY <1>1
  <2>5. PICK PP, VV, rr, FF : PP = P /\ VV = V /\ rr = rank /\ FF = F
    OBVIOUS
  <2>6. /\ rr \in [PP -> Nat] /\ \A p \in PP : rr[p] <= top
        /\ MadeFromLesser(PP, VV, rr, FF) /\ [PP -> VV] # {}
    BY <1>6, <2>1, <2>3, <2>4, <2>5
  <2>7. \E f \in [PP -> VV] : f = FF[f]
    BY <2>3, <2>6, TablesExist
  <2> QED BY <2>5, <2>7
<1> QED BY <1>8 DEF IsTrace

(* Only equal lines are matched, and a text with itself line by line.            *)
LEMMA MatchesAreEqualLines ==
  ASSUME NEW S, NEW a \in Seq(S), NEW b \in Seq(S)
  PROVE  /\ computeLcs(a, b) \subseteq EqualLines(a, b)
         /\ a = b => computeLcs(a, b) = { <<i, i>> : i \in 1 .. Len(a) }
<1> DEFINE P == Cells(a, b)
           rank == [p \in P |-> p[1] + p[2]]
           Diagonal(p) == a = b /\ p[1] = p[2]
           Good(f) == { p \in P : /\ f[p] \subseteq EqualLines(a, b)
                                  /\ Diagonal(p) => f[p] = { <<i, i>> : i \in 1 .. p[1] } }
<1>1. PICK f : /\ IsTrace(a, b, f)
               /\ computeLcs(a, b) = f[<<Len(a), Len(b)>>]
  <2>1. computeLcs(a, b) = (CHOOSE f : IsTrace(a, b, f))[<<Len(a), Len(b)>>]
    BY Zenon DEF computeLcs, IsTrace, TraceOf, Cells
  <2> QED BY <2>1, TracesExist
<1>2. \A p \in P : f[p] = TraceOf(a, b, f, p)
  BY <1>1 DEF IsTrace
<1>3. rank \in [P -> Nat]
  BY DEF Cells
<1>4. ASSUME NEW p \in P, \A q \in P : rank[q] < rank[p] => q \in Good(f)
      PROVE  p \in Good(f)
  <2>1. /\ p = <<p[1], p[2]>> /\ p[1] \in 0 .. Len(a) /\ p[2] \in 0 .. Len(b)
    BY DEF Cells
  <2>2. CASE p[1] = 0 \/ p[2] = 0
    <3>1. f[p] = {}
      BY <1>2, <2>2 DEF TraceOf
    <3>2. Diagonal(p) => 1 .. p[1] = {}
      BY <2>2
    <3> QED BY <3>1, <3>2
  <2>3. CASE p[1] # 0 /\ p[2] # 0 /\ a[p[1]] = b[p[2]]
    <3> DEFINE q == <<p[1] - 1, p[2] - 1>>
    <3>1. q \in P /\ rank[q] < rank[p] /\ q[1] = p[1] - 1 /\ (Diagonal(p) => Diagonal(q))
      BY <2>1, <2>3 DEF Cells
    <3>2. f[p] = {p} \cup f[q]
      BY <1>2, <2>1, <2>3 DEF TraceOf
    <3>3. q \in Good(f)
      BY <1>4, <3>1
    <3>4. p \in EqualLines(a, b)
      BY <2>1, <2>3 DEF EqualLines
    <3>5. ASSUME Diagonal(p) PROVE f[p] = { <<i, i>> : i \in 1 .. p[1] }
      <4>1. f[q] = { <<i, i>> : i \in 1 .. p[1] - 1 }
        BY <3>1, <3>3, <3>5
      <4>2. p = <<p[1], p[1]>> /\ 1 .. p[1] = {p[1]} \cup 1 .. p[1] - 1
        BY <2>1, <2>3, <3>5
      <4> QED BY <3>2, <4>1, <4>2
    <3> QED BY <3>2, <3>3, <3>4, <3>5
  <2>4. CASE p[1] # 0 /\ p[2] # 0 /\ a[p[1]] # b[p[2]]
    <3>1. ~Diagonal(p)
      BY <2>4
    <3>2. \E q \in P : rank[q] < rank[p] /\ f[p] = f[q]
      <4>1. /\ <<p[1] - 1, p[2]>> \in P /\ rank[<<p[1] - 1, p[2]>>] < rank[p]
            /\ <<p[1], p[2] - 1>> \in P /\ rank[<<p[1], p[2] - 1>>] < rank[p]
        BY <2>1, <2>4 DEF Cells
      <4>2. f[p] = f[<<p[1] - 1, p[2]>>] \/ f[p] = f[<<p[1], p[2] - 1>>]
        BY <1>2, <2>1, <2>4 DEF TraceOf
      <4> QED BY <4>1, <4>2
    <3>3. f[p] \subseteq EqualLines(a, b)
      BY <1>4, <3>2
    <3> QED BY <3>1, <3>3
  <2> QED BY <2>1, <2>2, <2>3, <2>4
<1>5. \A p \in P : p \in Good(f)
  <2> HIDE DEF rank, Good, P
  <2> QED BY <1>3, <1>4, RankInduction
<1>6. <<Len(a), Len(b)>> \in P
  BY DEF Cells
<1> QED BY <1>1, <1>5, <1>6

-------------------------------------------------------------------------------
(* The rows.                                                                     *)

RowsOf(m, n) == [status : {"equal", "removed", "added"}, left : 0 .. m, right : 0 .. n]

Corners(m, n) == (1 .. m + 1) \X (1 .. n + 1)

EqualRow(i, j) == [status |-> "equal", left |-> i, right |-> j]
RemovedRow(i) == [status |-> "removed", left |-> i, right |-> 0]
AddedRow(j) == [status |-> "added", left |-> 0, right |-> j]

WalkOf(m, n, match, f, p) ==
  IF p[1] > m /\ p[2] > n THEN <<>>
  ELSE IF p \in match THEN <<EqualRow(p[1], p[2])>> \o f[<<p[1] + 1, p[2] + 1>>]
  ELSE IF p[1] <= m /\ (p[2] > n \/ PrefersLeft(p[1], p[2], m, n, match))
       THEN <<RemovedRow(p[1])>> \o f[<<p[1] + 1, p[2]>>]
  ELSE <<AddedRow(p[2])>> \o f[<<p[1], p[2] + 1>>]

IsWalk(m, n, match, f) == f = [p \in Corners(m, n) |-> WalkOf(m, n, match, f, p)]

(* What a walk does at a corner, and that it then stands at one nearer the end.  *)
ToGo(m, n, p) == (m + 1 - p[1]) + (n + 1 - p[2])

Turn(m, n, match, f, p, s) ==
  \/ p[1] = m + 1 /\ p[2] = n + 1 /\ s = <<>>
  \/ p \in match /\ s = <<EqualRow(p[1], p[2])>> \o f[<<p[1] + 1, p[2] + 1>>]
  \/ p[1] <= m /\ p \notin match /\ s = <<RemovedRow(p[1])>> \o f[<<p[1] + 1, p[2]>>]
  \/ p[2] <= n /\ p \notin match /\ s = <<AddedRow(p[2])>> \o f[<<p[1], p[2] + 1>>]

(* Where one text has run out the walk goes on in the other.                     *)
LEMMA WalkTurns ==
  ASSUME NEW m \in Nat, NEW n \in Nat, NEW match \in SUBSET ((1 .. m) \X (1 .. n)),
         NEW f, NEW p \in Corners(m, n)
  PROVE  Turn(m, n, match, f, p, WalkOf(m, n, match, f, p))
<1>1. p[1] \in 1 .. m + 1 /\ p[2] \in 1 .. n + 1
  BY DEF Corners
<1>2. CASE p[1] > m /\ p[2] > n
  <2>1. p[1] = m + 1 /\ p[2] = n + 1
    BY <1>1, <1>2
  <2> QED BY <1>2, <2>1 DEF WalkOf, Turn
<1>3. CASE ~(p[1] > m /\ p[2] > n) /\ p \in match
  BY <1>3 DEF WalkOf, Turn
<1>4. CASE /\ ~(p[1] > m /\ p[2] > n) /\ p \notin match
           /\ p[1] <= m /\ (p[2] > n \/ PrefersLeft(p[1], p[2], m, n, match))
  BY <1>4 DEF WalkOf, Turn
<1>5. CASE /\ ~(p[1] > m /\ p[2] > n) /\ p \notin match
           /\ ~(p[1] <= m /\ (p[2] > n \/ PrefersLeft(p[1], p[2], m, n, match)))
  <2>1. p[2] <= n
    BY <1>1, <1>5
  <2> QED BY <1>5, <2>1 DEF WalkOf, Turn
<1> QED BY <1>2, <1>3, <1>4, <1>5

(* The corners a turn goes on to.                                                *)
LEMMA NextCorners ==
  ASSUME NEW m \in Nat, NEW n \in Nat, NEW match \in SUBSET ((1 .. m) \X (1 .. n)),
         NEW p \in Corners(m, n)
  PROVE  /\ p[1] \in 1 .. m + 1 /\ p[2] \in 1 .. n + 1 /\ p = <<p[1], p[2]>>
         /\ ToGo(m, n, p) \in Nat /\ ToGo(m, n, p) <= m + n
         /\ p \in match => /\ p[1] <= m /\ p[2] <= n
                           /\ <<p[1] + 1, p[2] + 1>> \in Corners(m, n)
                           /\ ToGo(m, n, <<p[1] + 1, p[2] + 1>>) < ToGo(m, n, p)
         /\ p[1] <= m => /\ <<p[1] + 1, p[2]>> \in Corners(m, n)
                         /\ ToGo(m, n, <<p[1] + 1, p[2]>>) < ToGo(m, n, p)
         /\ p[2] <= n => /\ <<p[1], p[2] + 1>> \in Corners(m, n)
                         /\ ToGo(m, n, <<p[1], p[2] + 1>>) < ToGo(m, n, p)
<1>1. p[1] \in 1 .. m + 1 /\ p[2] \in 1 .. n + 1 /\ p = <<p[1], p[2]>>
  BY DEF Corners
<1>2. ToGo(m, n, p) \in Nat /\ ToGo(m, n, p) <= m + n
  BY <1>1 DEF ToGo
<1>3. p \in match => p[1] <= m /\ p[2] <= n
  OBVIOUS
<1>4. ASSUME NEW i \in 1 .. m + 1, NEW j \in 1 .. n + 1, i + j > p[1] + p[2]
      PROVE  <<i, j>> \in Corners(m, n) /\ ToGo(m, n, <<i, j>>) < ToGo(m, n, p)
  <2>1. <<i, j>> \in Corners(m, n)
    BY DEF Corners
  <2>2. ToGo(m, n, <<i, j>>) = (m + 1 - i) + (n + 1 - j)
    BY DEF ToGo
  <2>3. ToGo(m, n, <<i, j>>) < ToGo(m, n, p)
    BY <1>1, <1>4, <2>2 DEF ToGo
  <2> QED BY <2>1, <2>3
<1>5. p[1] <= m => p[1] + 1 \in 1 .. m + 1 /\ (p[1] + 1) + p[2] > p[1] + p[2]
  BY <1>1
<1>6. p[2] <= n => p[2] + 1 \in 1 .. n + 1 /\ p[1] + (p[2] + 1) > p[1] + p[2]
  BY <1>1
<1>7. p[1] <= m /\ p[2] <= n => (p[1] + 1) + (p[2] + 1) > p[1] + p[2]
  BY <1>1
<1> QED BY <1>1, <1>2, <1>3, <1>4, <1>5, <1>6, <1>7

(* The rows a turn shows.                                                        *)
LEMMA RowsAreRows ==
  ASSUME NEW m \in Nat, NEW n \in Nat
  PROVE  /\ \A i \in 1 .. m, j \in 1 .. n : EqualRow(i, j) \in RowsOf(m, n)
         /\ \A i \in 1 .. m : RemovedRow(i) \in RowsOf(m, n)
         /\ \A j \in 1 .. n : AddedRow(j) \in RowsOf(m, n)
BY DEF EqualRow, RemovedRow, AddedRow, RowsOf

LEMMA WalksExist ==
  ASSUME NEW m \in Nat, NEW n \in Nat, NEW match \in SUBSET ((1 .. m) \X (1 .. n))
  PROVE  \E f \in [Corners(m, n) -> Seq(RowsOf(m, n))] : IsWalk(m, n, match, f)
<1> DEFINE P == Corners(m, n)
           V == Seq(RowsOf(m, n))
           rank == [p \in P |-> ToGo(m, n, p)]
           F == [f \in [P -> V] |-> [p \in P |-> WalkOf(m, n, match, f, p)]]
<1>1. rank \in [P -> Nat] /\ \A p \in P : rank[p] <= m + n
  BY NextCorners
<1>2. ASSUME NEW f \in [P -> V], NEW p \in P PROVE WalkOf(m, n, match, f, p) \in V
  <2>1. Turn(m, n, match, f, p, WalkOf(m, n, match, f, p))
    BY WalkTurns
  <2>2. \A r \in RowsOf(m, n), s \in V : <<r>> \o s \in V
    OBVIOUS
  <2>3. <<>> \in V
    OBVIOUS
  <2> HIDE DEF P, V
  <2>4. p \in match => /\ EqualRow(p[1], p[2]) \in RowsOf(m, n)
                       /\ f[<<p[1] + 1, p[2] + 1>>] \in V
    BY NextCorners, RowsAreRows DEF P
  <2>5. p[1] <= m => RemovedRow(p[1]) \in RowsOf(m, n) /\ f[<<p[1] + 1, p[2]>>] \in V
    <3>1. p[1] \in 1 .. m + 1 /\ (p[1] <= m => <<p[1] + 1, p[2]>> \in P)
      BY NextCorners DEF P
    <3>2. p[1] <= m => p[1] \in 1 .. m
      BY <3>1
    <3> QED BY <3>1, <3>2, RowsAreRows
  <2>6. p[2] <= n => AddedRow(p[2]) \in RowsOf(m, n) /\ f[<<p[1], p[2] + 1>>] \in V
    <3>1. p[2] \in 1 .. n + 1 /\ (p[2] <= n => <<p[1], p[2] + 1>> \in P)
      BY NextCorners DEF P
    <3>2. p[2] <= n => p[2] \in 1 .. n
      BY <3>1
    <3> QED BY <3>1, <3>2, RowsAreRows
  <2> QED BY <2>1, <2>2, <2>3, <2>4, <2>5, <2>6 DEF Turn
<1>3. F \in [[P -> V] -> [P -> V]]
  BY <1>2
<1>4. ASSUME NEW f \in [P -> V], NEW g \in [P -> V], NEW p \in P,
             \A q \in P : rank[q] < rank[p] => f[q] = g[q]
      PROVE  F[f][p] = F[g][p]
  <2>1. p \in match => f[<<p[1] + 1, p[2] + 1>>] = g[<<p[1] + 1, p[2] + 1>>]
    BY <1>4, NextCorners
  <2>2. p[1] <= m => f[<<p[1] + 1, p[2]>>] = g[<<p[1] + 1, p[2]>>]
    BY <1>4, NextCorners
  <2>3. p[2] <= n => f[<<p[1], p[2] + 1>>] = g[<<p[1], p[2] + 1>>]
    BY <1>4, NextCorners
  <2>4. p[1] \in 1 .. m + 1 /\ p[2] \in 1 .. n + 1
    BY NextCorners
  <2> HIDE DEF P, V, rank
  <2>5. WalkOf(m, n, match, f, p) = WalkOf(m, n, match, g, p)
    BY <2>1, <2>2, <2>3, <2>4 DEF WalkOf
  <2> QED BY <2>5
<1>5. [P -> V] # {}
  <2>1. [p \in P |-> <<>>] \in [P -> V]
    OBVIOUS
  <2> QED BY <2>1
<1>6. PICK f \in [P -> V] : f = F[f]
  <2>1. MadeFromLesser(P, V, rank, F)
    BY <1>3, <1>4 DEF MadeFromLesser
  <2> HIDE DEF F, P, V, rank
  <2>2. PICK top : top = m + n
    OBVIOUS
  <2>3. top \in Nat /\ \A p \in P : rank[p] <= top
    BY <1>1, <2>2
  <2>4. rank \in [P -> Nat]
    BY <1>1
  <2>5. PICK PP, VV, rr, FF : PP = P /\ VV = V /\ rr = rank /\ FF = F
    OBVIOUS
  <2>6. /\ rr \in [PP -> Nat] /\ \A p \in PP : rr[p] <= top
        /\ MadeFromLesser(PP, VV, rr, FF) /\ [PP -> VV] # {}
    BY <1>5, <2>1, <2>3, <2>4, <2>5
  <2>7. \E f \in [PP -> VV] : f = FF[f]
    BY <2>3, <2>6, TablesExist
  <2> QED BY <2>5, <2>7
<1> QED BY <1>6 DEF IsWalk

(* The lines from..to each once in a column, and in order.                       *)
ShownOnce(numbers, from, to) ==
  /\ { numbers[k] : k \in DOMAIN numbers } \ {0} = from .. to
  /\ \A k, l \in DOMAIN numbers :
        k < l /\ numbers[k] > 0 /\ numbers[l] > 0 => numbers[k] < numbers[l]

Lefts(rows) == [k \in DOMAIN rows |-> rows[k].left]
Rights(rows) == [k \in DOMAIN rows |-> rows[k].right]

(* A column with a number put in front.                                          *)
LEMMA ColumnGrows ==
  ASSUME NEW old, NEW len \in Nat, DOMAIN old = 1 .. len, \A k \in 1 .. len : old[k] \in Nat,
         NEW new, DOMAIN new = 1 .. len + 1, \A k \in 1 .. len : new[k + 1] = old[k],
         NEW from \in Nat, NEW to \in Nat, from > 0
  PROVE  /\ ShownOnce(old, from + 1, to) /\ from <= to /\ new[1] = from => ShownOnce(new, from, to)
         /\ ShownOnce(old, from, to) /\ new[1] = 0 => ShownOnce(new, from, to)
<1>1. { new[k] : k \in 1 .. len + 1 } = {new[1]} \cup { old[k] : k \in 1 .. len }
  <2>1. ASSUME NEW k \in 1 .. len + 1, k # 1 PROVE k - 1 \in 1 .. len /\ new[k] = old[k - 1]
    <3>1. k - 1 \in 1 .. len /\ (k - 1) + 1 = k
      BY <2>1
    <3> QED BY <3>1
  <2>2. \A k \in 1 .. len : k + 1 \in 1 .. len + 1
    OBVIOUS
  <2>3. 1 \in 1 .. len + 1
    OBVIOUS
  <2> QED BY <2>1, <2>2, <2>3
<1>2. \A k \in 1 .. len + 1 : k # 1 => k - 1 \in 1 .. len /\ new[k] = old[k - 1]
  <2>1. ASSUME NEW k \in 1 .. len + 1, k # 1 PROVE k - 1 \in 1 .. len /\ new[k] = old[k - 1]
    <3>1. k - 1 \in 1 .. len /\ (k - 1) + 1 = k
      BY <2>1
    <3> QED BY <3>1
  <2> QED BY <2>1
<1>3. ASSUME ShownOnce(old, from + 1, to), from <= to, new[1] = from PROVE ShownOnce(new, from, to)
  <2>1. { old[k] : k \in 1 .. len } \ {0} = from + 1 .. to
    BY <1>3 DEF ShownOnce
  <2>2. { new[k] : k \in DOMAIN new } \ {0} = from .. to
    <3>1. from .. to = {from} \cup (from + 1 .. to)
      BY <1>3
    <3> DEFINE O == { old[k] : k \in 1 .. len }
    <3>2. { new[k] : k \in DOMAIN new } = {from} \cup O
      BY <1>1, <1>3
    <3>3. O \ {0} = from + 1 .. to
      BY <2>1
    <3> HIDE DEF O
    <3> QED BY <3>1, <3>2, <3>3
  <2>3. ASSUME NEW k \in 1 .. len + 1, NEW l \in 1 .. len + 1, k < l, new[k] > 0, new[l] > 0
        PROVE  new[k] < new[l]
    <3>1. l # 1 /\ l - 1 \in 1 .. len /\ new[l] = old[l - 1]
      BY <1>2, <2>3
    <3>2. CASE k = 1
      <4>1. old[l - 1] \in from + 1 .. to
        <5>1. old[l - 1] \in { old[i] : i \in 1 .. len } \ {0}
          BY <2>3, <3>1
        <5> QED BY <2>1, <5>1
      <4> QED BY <1>3, <3>1, <3>2, <4>1
    <3>3. CASE k # 1
      <4>1. k - 1 \in 1 .. len /\ new[k] = old[k - 1] /\ k - 1 < l - 1
        BY <1>2, <2>3, <3>3
      <4> QED BY <1>3, <2>3, <3>1, <4>1 DEF ShownOnce
    <3> QED BY <3>2, <3>3
  <2> QED BY <2>2, <2>3 DEF ShownOnce
<1>4. ASSUME ShownOnce(old, from, to), new[1] = 0 PROVE ShownOnce(new, from, to)
  <2>1. { new[k] : k \in DOMAIN new } \ {0} = from .. to
    BY <1>1, <1>4 DEF ShownOnce
  <2>2. ASSUME NEW k \in 1 .. len + 1, NEW l \in 1 .. len + 1, k < l, new[k] > 0, new[l] > 0
        PROVE  new[k] < new[l]
    <3>1. k # 1 /\ l # 1
      BY <1>4, <2>2
    <3>2. /\ k - 1 \in 1 .. len /\ new[k] = old[k - 1]
          /\ l - 1 \in 1 .. len /\ new[l] = old[l - 1] /\ k - 1 < l - 1
      BY <1>2, <2>2, <3>1
    <3> QED BY <1>4, <2>2, <3>2 DEF ShownOnce
  <2> QED BY <2>1, <2>2 DEF ShownOnce
<1> QED BY <1>3, <1>4

(* The rows s from the corner p on.                                              *)
Tells(m, n, match, p, s) ==
  /\ s \in Seq(RowsOf(m, n))
  /\ ShownOnce(Lefts(s), p[1], m) /\ ShownOnce(Rights(s), p[2], n)
  /\ \A k \in 1 .. Len(s) : s[k].status = "equal" => <<s[k].left, s[k].right>> \in match

(* Where all the rows are equal, the rest of the one text is the rest of the     *)
(* other.                                                                        *)
AllEqual(s) == \A k \in 1 .. Len(s) : s[k].status = "equal"

SameFrom(m, n, match, p) ==
  /\ m - p[1] = n - p[2]
  /\ \A d \in 0 .. m - p[1] : <<p[1] + d, p[2] + d>> \in match

(* s is t with the row r in front.                                               *)
InFront(r, t, s) ==
  /\ Len(t) \in Nat /\ Len(s) = Len(t) + 1
  /\ s[1] = r /\ \A k \in 1 .. Len(t) : s[k + 1] = t[k]
  /\ \A k \in 1 .. Len(s) : k # 1 => k - 1 \in 1 .. Len(t) /\ s[k] = t[k - 1]
  /\ AllEqual(s) <=> r.status = "equal" /\ AllEqual(t)

LEMMA RowInFront ==
  ASSUME NEW m, NEW n, NEW r \in RowsOf(m, n), NEW t \in Seq(RowsOf(m, n)),
         NEW s, s = <<r>> \o t
  PROVE  s \in Seq(RowsOf(m, n)) /\ InFront(r, t, s)
<1>1. /\ s \in Seq(RowsOf(m, n)) /\ Len(t) \in Nat /\ Len(s) = Len(t) + 1
      /\ s[1] = r /\ \A k \in 1 .. Len(t) : s[k + 1] = t[k]
  OBVIOUS
<1>2. ASSUME NEW k \in 1 .. Len(s), k # 1 PROVE k - 1 \in 1 .. Len(t) /\ s[k] = t[k - 1]
  <2>1. k - 1 \in 1 .. Len(t) /\ (k - 1) + 1 = k
    BY <1>1, <1>2
  <2> QED BY <1>1, <2>1
<1>3. AllEqual(s) <=> r.status = "equal" /\ AllEqual(t)
  <2>1. ASSUME AllEqual(s) PROVE r.status = "equal" /\ AllEqual(t)
    <3>1. 1 \in 1 .. Len(s) /\ \A k \in 1 .. Len(t) : k + 1 \in 1 .. Len(s)
      BY <1>1
    <3> QED BY <1>1, <2>1, <3>1 DEF AllEqual
  <2>2. ASSUME r.status = "equal", AllEqual(t) PROVE AllEqual(s)
    BY <1>1, <1>2, <2>2 DEF AllEqual
  <2> QED BY <2>1, <2>2
<1> QED BY <1>1, <1>2, <1>3 DEF InFront

LEMMA ColumnsGrow ==
  ASSUME NEW m \in Nat, NEW n \in Nat, NEW r \in RowsOf(m, n), NEW t \in Seq(RowsOf(m, n)),
         NEW s \in Seq(RowsOf(m, n)), InFront(r, t, s),
         NEW from \in Nat, NEW to \in Nat, from > 0
  PROVE  /\ r.left = 0 /\ ShownOnce(Lefts(t), from, to) => ShownOnce(Lefts(s), from, to)
         /\ r.left = from /\ from <= to /\ ShownOnce(Lefts(t), from + 1, to)
               => ShownOnce(Lefts(s), from, to)
         /\ r.right = 0 /\ ShownOnce(Rights(t), from, to) => ShownOnce(Rights(s), from, to)
         /\ r.right = from /\ from <= to /\ ShownOnce(Rights(t), from + 1, to)
               => ShownOnce(Rights(s), from, to)
<1>1. /\ Len(t) \in Nat /\ Len(s) = Len(t) + 1
      /\ s[1] = r /\ \A k \in 1 .. Len(t) : s[k + 1] = t[k]
  BY DEF InFront
<1>2. /\ DOMAIN Lefts(t) = 1 .. Len(t) /\ DOMAIN Lefts(s) = 1 .. Len(t) + 1
      /\ DOMAIN Rights(t) = 1 .. Len(t) /\ DOMAIN Rights(s) = 1 .. Len(t) + 1
      /\ Lefts(s)[1] = r.left /\ Rights(s)[1] = r.right
  BY <1>1 DEF Lefts, Rights
<1>3. \A k \in 1 .. Len(t) : /\ Lefts(s)[k + 1] = Lefts(t)[k]
                             /\ Rights(s)[k + 1] = Rights(t)[k]
  <2>1. \A k \in 1 .. Len(t) : k + 1 \in 1 .. Len(s)
    BY <1>1
  <2> QED BY <1>1, <2>1 DEF Lefts, Rights
<1>4. \A k \in 1 .. Len(t) : Lefts(t)[k] \in Nat /\ Rights(t)[k] \in Nat
  <2>1. \A k \in 1 .. Len(t) : t[k] \in RowsOf(m, n)
    OBVIOUS
  <2> QED BY <2>1 DEF Lefts, Rights, RowsOf
<1>5. /\ r.left = 0 /\ ShownOnce(Lefts(t), from, to) => ShownOnce(Lefts(s), from, to)
      /\ r.left = from /\ from <= to /\ ShownOnce(Lefts(t), from + 1, to)
            => ShownOnce(Lefts(s), from, to)
  <2>1. PICK old, new, len : old = Lefts(t) /\ new = Lefts(s) /\ len = Len(t)
    OBVIOUS
  <2>2. /\ len \in Nat /\ DOMAIN old = 1 .. len /\ \A k \in 1 .. len : old[k] \in Nat
        /\ DOMAIN new = 1 .. len + 1 /\ \A k \in 1 .. len : new[k + 1] = old[k]
    BY <1>1, <1>2, <1>3, <1>4, <2>1
  <2>3. /\ ShownOnce(old, from + 1, to) /\ from <= to /\ new[1] = from => ShownOnce(new, from, to)
        /\ ShownOnce(old, from, to) /\ new[1] = 0 => ShownOnce(new, from, to)
    BY <2>2, ColumnGrows
  <2> QED BY <1>2, <2>1, <2>3
<1>6. /\ r.right = 0 /\ ShownOnce(Rights(t), from, to) => ShownOnce(Rights(s), from, to)
      /\ r.right = from /\ from <= to /\ ShownOnce(Rights(t), from + 1, to)
            => ShownOnce(Rights(s), from, to)
  <2>1. PICK old, new, len : old = Rights(t) /\ new = Rights(s) /\ len = Len(t)
    OBVIOUS
  <2>2. /\ len \in Nat /\ DOMAIN old = 1 .. len /\ \A k \in 1 .. len : old[k] \in Nat
        /\ DOMAIN new = 1 .. len + 1 /\ \A k \in 1 .. len : new[k + 1] = old[k]
    BY <1>1, <1>2, <1>3, <1>4, <2>1
  <2>3. /\ ShownOnce(old, from + 1, to) /\ from <= to /\ new[1] = from => ShownOnce(new, from, to)
        /\ ShownOnce(old, from, to) /\ new[1] = 0 => ShownOnce(new, from, to)
    BY <2>2, ColumnGrows
  <2> QED BY <1>2, <2>1, <2>3
<1> QED BY <1>5, <1>6

(* A walk tells every line that is left, and nothing but equal rows when the     *)
(* rest of the texts is the same.                                                *)
SameTexts(m, n, match) == m = n /\ match = { <<i, i>> : i \in 1 .. m }

ToldFrom(m, n, match, p, s) ==
  /\ Tells(m, n, match, p, s)
  /\ AllEqual(s) => SameFrom(m, n, match, p)
  /\ SameTexts(m, n, match) /\ p[1] = p[2] => AllEqual(s)

LEMMA EndTells ==
  ASSUME NEW m \in Nat, NEW n \in Nat, NEW match \in SUBSET ((1 .. m) \X (1 .. n))
  PROVE  ToldFrom(m, n, match, <<m + 1, n + 1>>, <<>>)
<1>1. DOMAIN Lefts(<<>>) = {} /\ DOMAIN Rights(<<>>) = {}
  BY DEF Lefts, Rights
<1>2. \A c : DOMAIN c = {} => ShownOnce(c, m + 1, m) /\ ShownOnce(c, n + 1, n)
  BY DEF ShownOnce
<1>3. Tells(m, n, match, <<m + 1, n + 1>>, <<>>)
  BY <1>1, <1>2 DEF Tells
<1>4. SameFrom(m, n, match, <<m + 1, n + 1>>)
  BY DEF SameFrom
<1> QED BY <1>3, <1>4 DEF ToldFrom, AllEqual

LEMMA EqualRowTells ==
  ASSUME NEW m \in Nat, NEW n \in Nat, NEW match \in SUBSET ((1 .. m) \X (1 .. n)),
         NEW p \in match, NEW t, ToldFrom(m, n, match, <<p[1] + 1, p[2] + 1>>, t)
  PROVE  ToldFrom(m, n, match, p, <<EqualRow(p[1], p[2])>> \o t)
<1> DEFINE q == <<p[1] + 1, p[2] + 1>>
<1>1. p[1] \in 1 .. m /\ p[2] \in 1 .. n /\ p = <<p[1], p[2]>>
  OBVIOUS
<1>2. PICK r : r = EqualRow(p[1], p[2])
  OBVIOUS
<1>3. r \in RowsOf(m, n) /\ r.status = "equal" /\ r.left = p[1] /\ r.right = p[2]
  BY <1>1, <1>2, RowsAreRows DEF EqualRow
<1>4. PICK s : s = <<r>> \o t
  OBVIOUS
<1>5. /\ t \in Seq(RowsOf(m, n)) /\ ShownOnce(Lefts(t), p[1] + 1, m) /\ ShownOnce(Rights(t), p[2] + 1, n)
      /\ \A k \in 1 .. Len(t) : t[k].status = "equal" => <<t[k].left, t[k].right>> \in match
  BY DEF ToldFrom, Tells
<1>6. s \in Seq(RowsOf(m, n)) /\ InFront(r, t, s)
  BY <1>3, <1>4, <1>5, RowInFront
<1>7. ShownOnce(Lefts(s), p[1], m) /\ ShownOnce(Rights(s), p[2], n)
  BY <1>1, <1>3, <1>5, <1>6, ColumnsGrow
<1>8. \A k \in 1 .. Len(s) : s[k].status = "equal" => <<s[k].left, s[k].right>> \in match
  BY <1>1, <1>3, <1>5, <1>6 DEF InFront
<1>9. ASSUME AllEqual(s) PROVE SameFrom(m, n, match, p)
  <2>1. SameFrom(m, n, match, q)
    BY <1>6, <1>9 DEF ToldFrom, InFront
  <2>2. m - p[1] = n - p[2]
    BY <1>1, <2>1 DEF SameFrom
  <2>3. ASSUME NEW d \in 0 .. m - p[1] PROVE <<p[1] + d, p[2] + d>> \in match
    <3>1. CASE d = 0
      <4>1. p[1] + d = p[1] /\ p[2] + d = p[2]
        BY <1>1, <3>1
      <4> QED BY <1>1, <4>1
    <3>2. CASE d # 0
      <4>1. d - 1 \in 0 .. m - q[1] /\ q[1] + (d - 1) = p[1] + d /\ q[2] + (d - 1) = p[2] + d
        BY <1>1, <3>2
      <4>2. <<q[1] + (d - 1), q[2] + (d - 1)>> \in match
        BY <2>1, <4>1 DEF SameFrom
      <4> QED BY <4>1, <4>2
    <3> QED BY <3>1, <3>2
  <2> QED BY <2>2, <2>3 DEF SameFrom
<1>10. ASSUME SameTexts(m, n, match), p[1] = p[2] PROVE AllEqual(s)
  BY <1>3, <1>6, <1>10 DEF ToldFrom, InFront
<1>11. Tells(m, n, match, p, s)
  BY <1>6, <1>7, <1>8 DEF Tells
<1> QED BY <1>2, <1>4, <1>9, <1>10, <1>11 DEF ToldFrom

LEMMA RemovedRowTells ==
  ASSUME NEW m \in Nat, NEW n \in Nat, NEW match \in SUBSET ((1 .. m) \X (1 .. n)),
         NEW p \in Corners(m, n), p[1] <= m, p \notin match,
         NEW t, ToldFrom(m, n, match, <<p[1] + 1, p[2]>>, t)
  PROVE  ToldFrom(m, n, match, p, <<RemovedRow(p[1])>> \o t)
<1>1. p[1] \in 1 .. m /\ p[2] \in 1 .. n + 1 /\ p = <<p[1], p[2]>>
  <2>1. p[1] \in 1 .. m + 1 /\ p[2] \in 1 .. n + 1 /\ p = <<p[1], p[2]>>
    BY DEF Corners
  <2> QED BY <2>1
<1>2. PICK r : r = RemovedRow(p[1])
  OBVIOUS
<1>3. r \in RowsOf(m, n) /\ r.status = "removed" /\ r.left = p[1] /\ r.right = 0
  BY <1>1, <1>2, RowsAreRows DEF RemovedRow
<1>4. PICK s : s = <<r>> \o t
  OBVIOUS
<1>5. /\ t \in Seq(RowsOf(m, n)) /\ ShownOnce(Lefts(t), p[1] + 1, m) /\ ShownOnce(Rights(t), p[2], n)
      /\ \A k \in 1 .. Len(t) : t[k].status = "equal" => <<t[k].left, t[k].right>> \in match
  BY DEF ToldFrom, Tells
<1>6. s \in Seq(RowsOf(m, n)) /\ InFront(r, t, s)
  BY <1>3, <1>4, <1>5, RowInFront
<1>7. ShownOnce(Lefts(s), p[1], m) /\ ShownOnce(Rights(s), p[2], n)
  BY <1>1, <1>3, <1>5, <1>6, ColumnsGrow
<1>8. \A k \in 1 .. Len(s) : s[k].status = "equal" => <<s[k].left, s[k].right>> \in match
  <2>1. ASSUME NEW k \in 1 .. Len(s), s[k].status = "equal"
        PROVE  <<s[k].left, s[k].right>> \in match
    <3>1. k # 1
      BY <1>3, <1>6, <2>1 DEF InFront
    <3>2. k - 1 \in 1 .. Len(t) /\ s[k] = t[k - 1]
      BY <1>6, <3>1 DEF InFront
    <3> QED BY <1>5, <2>1, <3>2
  <2> QED BY <2>1
<1>9. ~AllEqual(s)
  BY <1>3, <1>6 DEF InFront
<1>10. ~(SameTexts(m, n, match) /\ p[1] = p[2])
  BY <1>1 DEF SameTexts
<1>11. Tells(m, n, match, p, s)
  BY <1>6, <1>7, <1>8 DEF Tells
<1> QED BY <1>2, <1>4, <1>9, <1>10, <1>11 DEF ToldFrom

LEMMA AddedRowTells ==
  ASSUME NEW m \in Nat, NEW n \in Nat, NEW match \in SUBSET ((1 .. m) \X (1 .. n)),
         NEW p \in Corners(m, n), p[2] <= n, p \notin match,
         NEW t, ToldFrom(m, n, match, <<p[1], p[2] + 1>>, t)
  PROVE  ToldFrom(m, n, match, p, <<AddedRow(p[2])>> \o t)
<1>1. p[1] \in 1 .. m + 1 /\ p[2] \in 1 .. n /\ p = <<p[1], p[2]>>
  <2>1. p[1] \in 1 .. m + 1 /\ p[2] \in 1 .. n + 1 /\ p = <<p[1], p[2]>>
    BY DEF Corners
  <2> QED BY <2>1
<1>2. PICK r : r = AddedRow(p[2])
  OBVIOUS
<1>3. r \in RowsOf(m, n) /\ r.status = "added" /\ r.left = 0 /\ r.right = p[2]
  BY <1>1, <1>2, RowsAreRows DEF AddedRow
<1>4. PICK s : s = <<r>> \o t
  OBVIOUS
<1>5. /\ t \in Seq(RowsOf(m, n)) /\ ShownOnce(Lefts(t), p[1], m) /\ ShownOnce(Rights(t), p[2] + 1, n)
      /\ \A k \in 1 .. Len(t) : t[k].status = "equal" => <<t[k].left, t[k].right>> \in match
  BY DEF ToldFrom, Tells
<1>6. s \in Seq(RowsOf(m, n)) /\ InFront(r, t, s)
  BY <1>3, <1>4, <1>5, RowInFront
<1>7. ShownOnce(Lefts(s), p[1], m) /\ ShownOnce(Rights(s), p[2], n)
  BY <1>1, <1>3, <1>5, <1>6, ColumnsGrow
<1>8. \A k \in 1 .. Len(s) : s[k].status = "equal" => <<s[k].left, s[k].right>> \in match
  <2>1. ASSUME NEW k \in 1 .. Len(s), s[k].status = "equal"
        PROVE  <<s[k].left, s[k].right>> \in match
    <3>1. k # 1
      BY <1>3, <1>6, <2>1 DEF InFront
    <3>2. k - 1 \in 1 .. Len(t) /\ s[k] = t[k - 1]
      BY <1>6, <3>1 DEF InFront
    <3> QED BY <1>5, <2>1, <3>2
  <2> QED BY <2>1
<1>9. ~AllEqual(s)
  BY <1>3, <1>6 DEF InFront
<1>10. ~(SameTexts(m, n, match) /\ p[1] = p[2])
  BY <1>1 DEF SameTexts
<1>11. Tells(m, n, match, p, s)
  BY <1>6, <1>7, <1>8 DEF Tells
<1> QED BY <1>2, <1>4, <1>9, <1>10, <1>11 DEF ToldFrom

LEMMA WalksTell ==
  ASSUME NEW m \in Nat, NEW n \in Nat, NEW match \in SUBSET ((1 .. m) \X (1 .. n)),
         NEW f, IsWalk(m, n, match, f)
  PROVE  \A p \in Corners(m, n) : ToldFrom(m, n, match, p, f[p])
<1> DEFINE P == Corners(m, n)
           rank == [p \in P |-> ToGo(m, n, p)]
           G == { p \in P : ToldFrom(m, n, match, p, f[p]) }
<1>1. rank \in [P -> Nat]
  BY NextCorners
<1>2. ASSUME NEW p \in P, \A q \in P : rank[q] < rank[p] => q \in G
      PROVE  p \in G
  <2>1. /\ p = <<p[1], p[2]>>
        /\ p \in match => <<p[1] + 1, p[2] + 1>> \in G
        /\ p[1] <= m => <<p[1] + 1, p[2]>> \in G
        /\ p[2] <= n => <<p[1], p[2] + 1>> \in G
    <3> HIDE DEF G
    <3>1. \A q \in P : ToGo(m, n, q) < ToGo(m, n, p) => q \in G
      BY <1>2
    <3> HIDE DEF rank
    <3> QED BY <3>1, NextCorners
  <2>2. Turn(m, n, match, f, p, f[p])
    <3>1. f[p] = WalkOf(m, n, match, f, p)
      BY DEF IsWalk
    <3> QED BY <3>1, WalkTurns
  <2>3. CASE p[1] = m + 1 /\ p[2] = n + 1 /\ f[p] = <<>>
    BY <2>1, <2>3, EndTells
  <2>4. CASE p \in match /\ f[p] = <<EqualRow(p[1], p[2])>> \o f[<<p[1] + 1, p[2] + 1>>]
    BY <2>1, <2>4, EqualRowTells
  <2>5. CASE p[1] <= m /\ p \notin match /\ f[p] = <<RemovedRow(p[1])>> \o f[<<p[1] + 1, p[2]>>]
    BY <2>1, <2>5, RemovedRowTells
  <2>6. CASE p[2] <= n /\ p \notin match /\ f[p] = <<AddedRow(p[2])>> \o f[<<p[1], p[2] + 1>>]
    BY <2>1, <2>6, AddedRowTells
  <2> QED BY <2>2, <2>3, <2>4, <2>5, <2>6 DEF Turn
<1>3. \A p \in P : p \in G
  <2> HIDE DEF rank, G, P
  <2> QED BY <1>1, <1>2, RankInduction
<1> QED BY <1>3

LEMMA RowsTell ==
  ASSUME NEW S, NEW a \in Seq(S), NEW b \in Seq(S),
         NEW match \in SUBSET ((1 .. Len(a)) \X (1 .. Len(b)))
  PROVE  ToldFrom(Len(a), Len(b), match, <<1, 1>>, buildDiffResult(a, b, match))
<1> DEFINE f == CHOOSE g : IsWalk(Len(a), Len(b), match, g)
<1>1. buildDiffResult(a, b, match) = f[<<1, 1>>]
  BY Zenon DEF buildDiffResult, IsWalk, WalkOf, Corners, EqualRow, RemovedRow, AddedRow
<1>2. IsWalk(Len(a), Len(b), match, f)
  <2>1. Len(a) \in Nat /\ Len(b) \in Nat
    OBVIOUS
  <2>2. \E g : IsWalk(Len(a), Len(b), match, g)
    BY <2>1, WalksExist
  <2> QED BY <2>2
<1>3. <<1, 1>> \in Corners(Len(a), Len(b))
  BY DEF Corners
<1> HIDE DEF f
<1> QED BY <1>1, <1>2, <1>3, WalksTell

(* A count is positive when there is a row of its status.                        *)
LEMMA CountsTell ==
  ASSUME NEW R, NEW s \in Seq(R), NEW status
  PROVE  Count(s, status) > 0 <=> \E k \in 1 .. Len(s) : s[k].status = status
<1> DEFINE C == { k \in DOMAIN s : s[k].status = status }
<1>1. IsFiniteSet(1 .. Len(s)) /\ C \subseteq 1 .. Len(s)
  BY FS_Interval
<1>2. IsFiniteSet(C)
  BY <1>1, FS_Subset
<1>3. Cardinality(C) \in Nat /\ (Cardinality(C) = 0 <=> C = {})
  <2> HIDE DEF C
  <2> QED BY <1>2, FS_EmptySet, FS_CardinalityType
<1>4. Count(s, status) > 0 <=> C # {}
  <2>1. Count(s, status) = Cardinality(C)
    BY DEF Count
  <2> HIDE DEF C
  <2> QED BY <1>3, <2>1
<1> QED BY <1>4

(* The diff of any two texts.                                                    *)
LEMMA DiffRebuilds ==
  ASSUME NEW S, NEW a \in Seq(S), NEW b \in Seq(S)
  PROVE  LET diff == diffText(a, b)
         IN  /\ EachLineOnce([i \in DOMAIN diff.rows |-> diff.rows[i].left], Len(a))
             /\ EachLineOnce([i \in DOMAIN diff.rows |-> diff.rows[i].right], Len(b))
             /\ \A r \in RangeOf(diff.rows) : r.status = "equal" => a[r.left] = b[r.right]
             /\ diff.hasChanges <=> a # b
<1>1. PICK m, n, match, s : /\ m = Len(a) /\ n = Len(b) /\ match = computeLcs(a, b)
                            /\ s = buildDiffResult(a, b, match)
  OBVIOUS
<1>2. /\ m \in Nat /\ n \in Nat /\ match \subseteq EqualLines(a, b)
      /\ a = b => match = { <<i, i>> : i \in 1 .. m }
  BY <1>1, MatchesAreEqualLines
<1>3. match \in SUBSET ((1 .. m) \X (1 .. n)) /\ \A p \in match : a[p[1]] = b[p[2]]
  BY <1>1, <1>2 DEF EqualLines
<1>4. ToldFrom(m, n, match, <<1, 1>>, s)
  BY <1>1, <1>3, RowsTell
<1>5. /\ s \in Seq(RowsOf(m, n))
      /\ ShownOnce(Lefts(s), 1, m) /\ ShownOnce(Rights(s), 1, n)
      /\ \A k \in 1 .. Len(s) : s[k].status = "equal" => <<s[k].left, s[k].right>> \in match
  BY <1>4 DEF ToldFrom, Tells
<1>6. EachLineOnce(Lefts(s), m) /\ EachLineOnce(Rights(s), n)
  BY <1>5 DEF ShownOnce, EachLineOnce
<1>7. \A r \in RangeOf(s) : r.status = "equal" => a[r.left] = b[r.right]
  <2>1. ASSUME NEW k \in 1 .. Len(s), s[k].status = "equal"
        PROVE  a[s[k].left] = b[s[k].right]
    BY <1>3, <1>5, <2>1
  <2> QED BY <1>5, <2>1 DEF RangeOf
<1>8. AllEqual(s) <=> a = b
  <2>1. ASSUME a = b PROVE AllEqual(s)
    BY <1>1, <1>2, <1>4, <2>1 DEF ToldFrom, SameTexts
  <2>2. ASSUME AllEqual(s) PROVE a = b
    <3>1. SameFrom(m, n, match, <<1, 1>>)
      BY <1>4, <2>2 DEF ToldFrom
    <3>2. m = n
      BY <1>2, <3>1 DEF SameFrom
    <3>3. ASSUME NEW i \in 1 .. m PROVE a[i] = b[i]
      <4>1. i - 1 \in 0 .. m - 1 /\ 1 + (i - 1) = i
        BY <1>2
      <4>2. <<i, i>> \in match
        BY <3>1, <4>1 DEF SameFrom
      <4> QED BY <1>3, <4>2
    <3>4. Len(a) = Len(b) /\ \A i \in 1 .. Len(a) : a[i] = b[i]
      BY <1>1, <3>2, <3>3
    <3> QED BY <3>4, SeqEqual
  <2> QED BY <2>1, <2>2
<1>9. (Count(s, "added") > 0 \/ Count(s, "removed") > 0) <=> a # b
  <2>1. \A k \in 1 .. Len(s) : s[k].status \in {"equal", "removed", "added"}
    <3>1. \A k \in 1 .. Len(s) : s[k] \in RowsOf(m, n)
      BY <1>5
    <3> QED BY <3>1 DEF RowsOf
  <2> QED BY <1>5, <1>8, <2>1, CountsTell DEF AllEqual
<1>10. /\ diffText(a, b).rows = s
       /\ diffText(a, b).hasChanges = (Count(s, "added") > 0 \/ Count(s, "removed") > 0)
  BY <1>1 DEF diffText
<1> QED BY <1>1, <1>6, <1>7, <1>9, <1>10 DEF Lefts, Rights

-------------------------------------------------------------------------------
(* Ranks.                                                                        *)

(* L orders D, each element being before or at itself.                           *)
Orders(L, D) ==
  /\ \A i \in D : <<i, i>> \in L
  /\ \A i, j \in D : <<i, j>> \in L \/ <<j, i>> \in L
  /\ \A i, j \in D : <<i, j>> \in L /\ <<j, i>> \in L => i = j
  /\ \A i, j, k \in D : <<i, j>> \in L /\ <<j, k>> \in L => <<i, k>> \in L

RankIn(D, L, i) == Cardinality({ j \in D : <<j, i>> \in L })

(* Every rank is taken by one element.                                           *)
LEMMA RanksAreTaken ==
  ASSUME NEW D, IsFiniteSet(D), NEW L, Orders(L, D)
  PROVE  /\ Cardinality(D) \in Nat
         /\ \A i \in D : RankIn(D, L, i) \in 1 .. Cardinality(D)
         /\ \A i, j \in D : RankIn(D, L, i) = RankIn(D, L, j) => i = j
         /\ \A k \in 1 .. Cardinality(D) : \E i \in D : RankIn(D, L, i) = k
<1> DEFINE Upto(i) == { j \in D : <<j, i>> \in L }
           T == 1 .. Cardinality(D)
           f == [i \in D |-> RankIn(D, L, i)]
<1>1. Cardinality(D) \in Nat
  BY FS_CardinalityType
<1>2. \A i \in D : /\ RankIn(D, L, i) = Cardinality(Upto(i))
                   /\ Upto(i) \subseteq D /\ i \in Upto(i)
  BY DEF RankIn, Orders
<1>3. \A i \in D : IsFiniteSet(Upto(i)) /\ Cardinality(Upto(i)) \in Nat
  BY <1>2, FS_Subset, FS_CardinalityType
<1>4. \A i, j \in D : <<i, j>> \in L /\ i # j => Upto(i) \subseteq Upto(j) /\ j \notin Upto(i)
  BY DEF Orders
<1> HIDE DEF Upto
<1>5. \A i \in D : RankIn(D, L, i) \in T
  <2>1. ASSUME NEW i \in D PROVE Cardinality(Upto(i)) <= Cardinality(D) /\ Cardinality(Upto(i)) # 0
    BY <1>2, <1>3, FS_Subset, FS_EmptySet
  <2> QED BY <1>1, <1>2, <1>3, <2>1
<1>6. ASSUME NEW i \in D, NEW j \in D, <<i, j>> \in L, i # j
      PROVE  RankIn(D, L, i) # RankIn(D, L, j)
  <2>1. SUFFICES ASSUME Cardinality(Upto(i)) = Cardinality(Upto(j)) PROVE FALSE
    BY <1>2
  <2>2. Upto(j) = Upto(i)
    BY <1>3, <1>4, <1>6, <2>1, FS_Subset
  <2> QED BY <1>2, <1>4, <1>6, <2>2
<1>7. \A i, j \in D : RankIn(D, L, i) = RankIn(D, L, j) => i = j
  BY <1>6 DEF Orders
<1>8. f \in Injection(D, T)
  BY <1>5, <1>7 DEF Injection, IsInjective
<1>9. IsFiniteSet(T) /\ Cardinality(T) = Cardinality(D)
  BY <1>1, FS_Interval
<1>10. f \in Surjection(D, T)
  BY <1>8, <1>9, FS_Injection
<1>11. \A k \in T : \E i \in D : RankIn(D, L, i) = k
  BY <1>10 DEF Surjection
<1> QED BY <1>1, <1>5, <1>7, <1>11

(* pos gives each place of a list the place that its element comes from.         *)
Picks(pos, D) ==
  /\ pos \in [1 .. Cardinality(D) -> D]
  /\ \A p, q \in 1 .. Cardinality(D) : pos[p] = pos[q] => p = q
  /\ \A i \in D : \E p \in 1 .. Cardinality(D) : pos[p] = i

(* The elements in the order of their ranks.                                     *)
LEMMA RankedPositions ==
  ASSUME NEW D, IsFiniteSet(D), NEW L, Orders(L, D),
         NEW pos, pos = [p \in 1 .. Cardinality(D) |-> CHOOSE i \in D : RankIn(D, L, i) = p]
  PROVE  /\ Picks(pos, D)
         /\ \A p \in 1 .. Cardinality(D) : RankIn(D, L, pos[p]) = p
<1>1. \A p \in 1 .. Cardinality(D) : pos[p] \in D /\ RankIn(D, L, pos[p]) = p
  BY RanksAreTaken
<1>2. \A i \in D : /\ RankIn(D, L, i) \in 1 .. Cardinality(D)
                   /\ \A j \in D : RankIn(D, L, i) = RankIn(D, L, j) => i = j
  BY RanksAreTaken
<1>3. \A i \in D : pos[RankIn(D, L, i)] = i
  BY <1>1, <1>2
<1>4. pos \in [1 .. Cardinality(D) -> D]
  BY <1>1
<1>5. \A p, q \in 1 .. Cardinality(D) : pos[p] = pos[q] => p = q
  BY <1>1
<1> QED BY <1>1, <1>2, <1>3, <1>4, <1>5 DEF Picks

(* The kth of the places is the one of rank k.                                   *)
LEMMA KthIsRanked ==
  ASSUME NEW n \in Nat, NEW S \in SUBSET (1 .. n)
  PROVE  /\ IsFiniteSet(S) /\ Cardinality(S) \in Nat
         /\ Picks([k \in 1 .. Cardinality(S) |-> Kth(S, k)], S)
<1> DEFINE L == { e \in S \X S : e[1] <= e[2] }
           pos == [p \in 1 .. Cardinality(S) |-> CHOOSE i \in S : RankIn(S, L, i) = p]
<1>1. IsFiniteSet(S) /\ Cardinality(S) \in Nat
  <2>1. IsFiniteSet(1 .. n)
    BY FS_Interval
  <2> QED BY <2>1, FS_Subset, FS_CardinalityType
<1>2. Orders(L, S)
  BY DEF Orders
<1>3. \A i \in S : RankIn(S, L, i) = Cardinality({ j \in S : j <= i })
  <2>1. ASSUME NEW i \in S PROVE { j \in S : <<j, i>> \in L } = { j \in S : j <= i }
    OBVIOUS
  <2> QED BY <2>1 DEF RankIn
<1>4. Picks(pos, S) /\ \A p \in 1 .. Cardinality(S) : RankIn(S, L, pos[p]) = p
  <2> HIDE DEF L
  <2> QED BY <1>1, <1>2, RankedPositions
<1>5. ASSUME NEW p \in 1 .. Cardinality(S) PROVE Kth(S, p) = pos[p]
  <2> DEFINE Q(i) == Cardinality({ j \in S : j <= i }) = p
  <2>1. pos[p] \in S /\ RankIn(S, L, pos[p]) = p
    <3> HIDE DEF L, pos
    <3> QED BY <1>4 DEF Picks
  <2> HIDE DEF pos
  <2>2. Q(pos[p])
    <3> HIDE DEF L
    <3> QED BY <1>3, <2>1
  <2>3. Kth(S, p) = CHOOSE i \in S : Q(i)
    BY DEF Kth
  <2>4. Kth(S, p) \in S /\ Q(Kth(S, p))
    <3> HIDE DEF Q
    <3> QED BY <2>1, <2>2, <2>3
  <2>5. RankIn(S, L, Kth(S, p)) = p
    <3> HIDE DEF L
    <3> QED BY <1>3, <2>4
  <2>6. \A i, j \in S : RankIn(S, L, i) = RankIn(S, L, j) => i = j
    <3> HIDE DEF L
    <3> QED BY <1>1, <1>2, RanksAreTaken
  <2> HIDE DEF L, Q
  <2> QED BY <2>1, <2>4, <2>5, <2>6
<1>6. pos = [k \in 1 .. Cardinality(S) |-> Kth(S, k)]
  <2>1. pos \in [1 .. Cardinality(S) -> S]
    <3> HIDE DEF pos
    <3> QED BY <1>4 DEF Picks
  <2> HIDE DEF pos
  <2> QED BY <1>5, <2>1
<1> QED BY <1>1, <1>4, <1>6

(* The kth least number is the one of rank k in the order of a stable sort.      *)
LEMMA KthLeastIsRanked ==
  ASSUME NEW n \in Nat, NEW s \in [1 .. n -> Int], NEW k \in 1 .. n
  PROVE  /\ KthLeast(s, k) \in 1 .. n
         /\ Cardinality({ j \in 1 .. n : ComesFirst(s, j, KthLeast(s, k)) }) = k
<1> DEFINE D == 1 .. n
           Q(i) == Cardinality({ j \in D : ComesFirst(s, j, i) }) = k
           L == { e \in D \X D : ComesFirst(s, e[1], e[2]) }
<1>1. IsFiniteSet(D) /\ Cardinality(D) = n
  BY FS_Interval
<1>2. Orders(L, D)
  <2>1. \A i \in D : <<i, i>> \in L
    BY DEF ComesFirst
  <2>2. \A i, j \in D : <<i, j>> \in L \/ <<j, i>> \in L
    BY DEF ComesFirst
  <2>3. \A i, j \in D : <<i, j>> \in L /\ <<j, i>> \in L => i = j
    BY DEF ComesFirst
  <2>4. \A i, j, l \in D : <<i, j>> \in L /\ <<j, l>> \in L => <<i, l>> \in L
    BY DEF ComesFirst
  <2> HIDE DEF L, D
  <2> QED BY <2>1, <2>2, <2>3, <2>4 DEF Orders
<1>3. \A i \in D : RankIn(D, L, i) = Cardinality({ j \in D : ComesFirst(s, j, i) })
  <2>1. ASSUME NEW i \in D
        PROVE  { j \in D : <<j, i>> \in L } = { j \in D : ComesFirst(s, j, i) }
    OBVIOUS
  <2> QED BY <2>1 DEF RankIn
<1>4. PICK i \in D : RankIn(D, L, i) = k
  <2> HIDE DEF L, D
  <2>1. k \in 1 .. Cardinality(D)
    BY <1>1
  <2> QED BY <1>1, <1>2, <2>1, RanksAreTaken
<1>5. Q(i)
  <2> HIDE DEF L, D
  <2> QED BY <1>3, <1>4
<1>6. KthLeast(s, k) = CHOOSE l \in D : Q(l)
  <2>1. DOMAIN s = D
    OBVIOUS
  <2> HIDE DEF D
  <2> QED BY <2>1, Zenon DEF KthLeast
<1>7. KthLeast(s, k) \in D /\ Q(KthLeast(s, k))
  <2> HIDE DEF Q, D
  <2> QED BY <1>4, <1>5, <1>6
<1> QED BY <1>7

(* How many numbers are at most, and how many less than, the kth in order.       *)
LEMMA AscendingNumbers ==
  ASSUME NEW n \in Nat, NEW s \in [1 .. n -> Int]
  PROVE  /\ Ascending(s) \in [1 .. n -> Int]
         /\ \A k \in 1 .. n :
               /\ \E i \in 1 .. n : Ascending(s)[k] = s[i]
               /\ Cardinality({ i \in 1 .. n : s[i] <= Ascending(s)[k] }) >= k
               /\ Cardinality({ i \in 1 .. n : s[i] < Ascending(s)[k] }) < k
         /\ \A i \in 1 .. n : s[i] <= Ascending(s)[n]
<1> DEFINE D == 1 .. n
<1>1. IsFiniteSet(D) /\ Cardinality(D) = n
  BY FS_Interval
<1>2. /\ Ascending(s) \in [D -> Int]
      /\ \A k \in D : KthLeast(s, k) \in D /\ Ascending(s)[k] = s[KthLeast(s, k)]
  BY KthLeastIsRanked DEF Ascending
<1>3. ASSUME NEW k \in D
      PROVE  /\ Cardinality({ i \in D : s[i] <= Ascending(s)[k] }) >= k
             /\ Cardinality({ i \in D : s[i] < Ascending(s)[k] }) < k
  <2> DEFINE c == KthLeast(s, k)
             U == { j \in D : ComesFirst(s, j, c) }
             AtMost == { i \in D : s[i] <= Ascending(s)[k] }
             Less == { i \in D : s[i] < Ascending(s)[k] }
  <2>1. c \in D /\ Cardinality(U) = k /\ Ascending(s)[k] = s[c]
    BY <1>2, KthLeastIsRanked
  <2> HIDE DEF c
  <2>2. U \subseteq AtMost /\ AtMost \subseteq D
    BY <2>1 DEF ComesFirst
  <2>3. Less \subseteq U \ {c} /\ c \in U /\ U \subseteq D
    BY <2>1 DEF ComesFirst
  <2> HIDE DEF U, AtMost, Less
  <2>4. IsFiniteSet(AtMost) /\ IsFiniteSet(U)
    BY <1>1, <2>2, <2>3, FS_Subset
  <2>5. Cardinality(AtMost) >= k
    BY <2>1, <2>2, <2>4, FS_Subset, FS_CardinalityType
  <2>6. IsFiniteSet(U \ {c}) /\ Cardinality(U \ {c}) = k - 1
    BY <2>1, <2>3, <2>4, FS_RemoveElement
  <2>7. Cardinality(Less) <= k - 1 /\ Cardinality(Less) \in Nat
    BY <2>3, <2>6, FS_Subset, FS_CardinalityType
  <2>8. k \in Nat /\ Cardinality(Less) < k
    BY <2>7
  <2> QED BY <2>5, <2>8 DEF AtMost, Less
<1>4. ASSUME NEW i \in D PROVE s[i] <= Ascending(s)[n]
  <2> DEFINE c == KthLeast(s, n)
             U == { j \in D : ComesFirst(s, j, c) }
  <2>1. n \in D
    OBVIOUS
  <2>2. c \in D /\ Cardinality(U) = n /\ Ascending(s)[n] = s[c]
    BY <1>2, <2>1, KthLeastIsRanked
  <2>3. U = D
    <3>1. U \subseteq D
      OBVIOUS
    <3> HIDE DEF U
    <3> QED BY <1>1, <2>2, <3>1, FS_Subset
  <2> HIDE DEF c
  <2>4. s[i] <= s[c]
    BY <2>2, <2>3 DEF ComesFirst
  <2> QED BY <2>2, <2>4
<1> QED BY <1>2, <1>3, <1>4

-------------------------------------------------------------------------------
(* Totals.                                                                       *)
IsSum(c, f) == f = [k \in 0 .. Len(c) |-> IF k = 0 THEN 0 ELSE f[k - 1] + c[k]]

LEMMA TotalRuns ==
  ASSUME NEW n \in Nat, NEW c \in [1 .. n -> Int]
  PROVE  \E f \in [0 .. n -> Int] :
            /\ f[0] = 0
            /\ \A k \in 1 .. n : f[k] = f[k - 1] + c[k]
            /\ Total(c) = f[n]
<1> DEFINE P == 0 .. n
           rank == [k \in P |-> k]
           F == [f \in [P -> Int] |-> [k \in P |-> IF k = 0 THEN 0 ELSE f[k - 1] + c[k]]]
<1>1. Len(c) = n
  OBVIOUS
<1>2. \E f \in [P -> Int] : f = F[f]
  <2>1. MadeFromLesser(P, Int, rank, F)
    <3>1. ASSUME NEW f \in [P -> Int] PROVE F[f] \in [P -> Int]
      <4>1. ASSUME NEW k \in P, k # 0 PROVE f[k - 1] \in Int /\ c[k] \in Int
        <5>1. k - 1 \in P /\ k \in 1 .. n
          BY <4>1
        <5> QED BY <5>1
      <4> QED BY <4>1
    <3>2. F \in [[P -> Int] -> [P -> Int]]
      <4>1. F = [f \in [P -> Int] |-> F[f]]
        BY Zenon
      <4> HIDE DEF F
      <4> QED BY <3>1, <4>1
    <3>3. ASSUME NEW f \in [P -> Int], NEW g \in [P -> Int], NEW p \in P,
                 \A q \in P : rank[q] < rank[p] => f[q] = g[q]
          PROVE  F[f][p] = F[g][p]
      <4>1. CASE p = 0
        BY <4>1
      <4>2. CASE p # 0
        <5>1. p - 1 \in P /\ rank[p - 1] < rank[p]
          BY <4>2
        <5>2. f[p - 1] = g[p - 1]
          BY <3>3, <5>1
        <5> QED BY <4>2, <5>2
      <4> QED BY <4>1, <4>2
    <3> QED BY <3>2, <3>3 DEF MadeFromLesser
  <2>2. [P -> Int] # {}
    <3>1. [k \in P |-> 0] \in [P -> Int]
      OBVIOUS
    <3> QED BY <3>1
  <2>3. rank \in [P -> Nat] /\ \A p \in P : rank[p] <= n
    OBVIOUS
  <2>4. PICK PP, VV, rr, FF : PP = P /\ VV = Int /\ rr = rank /\ FF = F
    OBVIOUS
  <2> HIDE DEF F, P, rank
  <2>5. /\ rr \in [PP -> Nat] /\ \A p \in PP : rr[p] <= n
        /\ MadeFromLesser(PP, VV, rr, FF) /\ [PP -> VV] # {}
    BY <2>1, <2>2, <2>3, <2>4
  <2>6. \E f \in [PP -> VV] : f = FF[f]
    BY <2>5, TablesExist
  <2> QED BY <2>4, <2>6
<1>3. PICK g \in [P -> Int] : IsSum(c, g)
  <2>1. PICK f \in [P -> Int] : f = F[f]
    BY <1>2
  <2>2. IsSum(c, f)
    BY <1>1, <2>1 DEF IsSum
  <2> QED BY <2>2
<1>4. PICK f : IsSum(c, f) /\ Total(c) = f[Len(c)]
  <2>1. Total(c) = (CHOOSE f : IsSum(c, f))[Len(c)]
    BY Zenon DEF Total, IsSum
  <2> QED BY <1>3, <2>1
<1>5. \A k \in P : f[k] = IF k = 0 THEN 0 ELSE f[k - 1] + c[k]
  BY <1>1, <1>4 DEF IsSum
<1>6. DOMAIN f = P /\ f = [k \in P |-> f[k]]
  BY <1>1, <1>4 DEF IsSum
<1>7. \A k \in P : f[k] \in Int
  <2> DEFINE G == { k \in P : f[k] \in Int }
  <2>1. ASSUME NEW k \in P, \A q \in P : rank[q] < rank[k] => q \in G PROVE k \in G
    <3>1. CASE k = 0
      BY <3>1, <1>5
    <3>2. CASE k # 0
      <4>1. k - 1 \in P /\ rank[k - 1] < rank[k] /\ c[k] \in Int
        BY <3>2
      <4>2. f[k - 1] \in Int
        BY <2>1, <4>1
      <4>3. f[k] = f[k - 1] + c[k]
        BY <1>5, <3>2
      <4> QED BY <4>1, <4>2, <4>3
    <3> QED BY <3>1, <3>2
  <2>2. rank \in [P -> Nat]
    OBVIOUS
  <2> HIDE DEF G, rank, P
  <2>3. \A k \in P : k \in G
    BY <2>1, <2>2, RankInduction
  <2> QED BY <2>3 DEF G
<1>8. f \in [P -> Int]
  BY <1>6, <1>7
<1>9. f[0] = 0 /\ \A k \in 1 .. n : f[k] = f[k - 1] + c[k]
  BY <1>5
<1> QED BY <1>1, <1>4, <1>8, <1>9

Together(F, n) == UNION { F[k] : k \in 1 .. n }

(* The total of the sizes of sets that have no element in common is the size of  *)
(* what they hold together.                                                      *)
LEMMA DisjointTotal ==
  ASSUME NEW n \in Nat, NEW c \in [1 .. n -> Int], NEW F,
         \A k \in 1 .. n : IsFiniteSet(F[k]) /\ Cardinality(F[k]) = c[k],
         \A k, l \in 1 .. n : k # l => F[k] \cap F[l] = {}
  PROVE  IsFiniteSet(Together(F, n)) /\ Total(c) = Cardinality(Together(F, n))
<1> DEFINE Upto(m) == UNION { F[k] : k \in 1 .. m }
           P == 0 .. n
           rank == [k \in P |-> k]
<1>1. PICK f \in [0 .. n -> Int] :
         /\ f[0] = 0
         /\ \A k \in 1 .. n : f[k] = f[k - 1] + c[k]
         /\ Total(c) = f[n]
  BY TotalRuns
<1> DEFINE G == { k \in P : IsFiniteSet(Upto(k)) /\ f[k] = Cardinality(Upto(k)) }
<1>2. ASSUME NEW k \in P, \A q \in P : rank[q] < rank[k] => q \in G PROVE k \in G
  <2>1. CASE k = 0
    <3>1. Upto(0) = {}
      OBVIOUS
    <3> HIDE DEF Upto
    <3> QED BY <1>1, <2>1, <3>1, FS_EmptySet
  <2>2. CASE k # 0
    <3>1. k - 1 \in P /\ rank[k - 1] < rank[k] /\ k \in 1 .. n
      BY <2>2
    <3>2. IsFiniteSet(Upto(k - 1)) /\ f[k - 1] = Cardinality(Upto(k - 1))
      <4>1. k - 1 \in G
        BY <1>2, <3>1
      <4> QED BY <4>1
    <3>3. Upto(k) = Upto(k - 1) \cup F[k]
      <4>1. 1 .. k = (1 .. (k - 1)) \cup {k}
        BY <3>1
      <4> HIDE DEF P
      <4> QED BY <4>1
    <3>4. Upto(k - 1) \cap F[k] = {}
      <4>1. \A l \in 1 .. (k - 1) : l \in 1 .. n /\ l # k
        BY <3>1
      <4> QED BY <3>1, <4>1
    <3> HIDE DEF Upto
    <3>5. /\ IsFiniteSet(Upto(k))
          /\ Cardinality(Upto(k)) = Cardinality(Upto(k - 1)) + Cardinality(F[k])
      <4>1. IsFiniteSet(F[k]) /\ Cardinality(F[k]) \in Nat /\ Cardinality(Upto(k - 1)) \in Nat
        BY <3>1, <3>2, FS_CardinalityType
      <4>2. PICK A, B : A = Upto(k - 1) /\ B = F[k]
        OBVIOUS
      <4>3. IsFiniteSet(A) /\ IsFiniteSet(B) /\ A \cap B = {}
        BY <3>2, <3>4, <4>1, <4>2
      <4>4. /\ IsFiniteSet(A \cup B)
            /\ Cardinality(A \cup B) = Cardinality(A) + Cardinality(B) - Cardinality(A \cap B)
        BY <4>3, FS_Union
      <4>5. Cardinality(A \cap B) = 0
        BY <4>3, FS_EmptySet
      <4> QED BY <3>3, <4>1, <4>2, <4>4, <4>5
    <3>6. f[k] = f[k - 1] + c[k] /\ c[k] = Cardinality(F[k]) /\ c[k] \in Int /\ f[k - 1] \in Int
      BY <1>1, <3>1
    <3> QED BY <3>2, <3>5, <3>6
  <2> QED BY <2>1, <2>2
<1>3. rank \in [P -> Nat] /\ n \in P
  OBVIOUS
<1>4. n \in G
  <2>1. rank \in [P -> Nat]
    BY <1>3
  <2> HIDE DEF G, rank, P
  <2>2. \A k \in P : k \in G
    BY <1>2, <2>1, RankInduction
  <2> QED BY <1>3, <2>2
<1>5. IsFiniteSet(Upto(n)) /\ f[n] = Cardinality(Upto(n))
  BY <1>4
<1> QED BY <1>1, <1>5 DEF Together

-------------------------------------------------------------------------------
(* Counting what is picked.                                                      *)

(* As many places of a list are picked from Q as Q has.                          *)
LEMMA PicksCount ==
  ASSUME NEW S, IsFiniteSet(S), NEW pos, Picks(pos, S), NEW Q \in SUBSET S
  PROVE  Cardinality({ p \in 1 .. Cardinality(S) : pos[p] \in Q }) = Cardinality(Q)
<1> DEFINE T == { p \in 1 .. Cardinality(S) : pos[p] \in Q }
           f == [p \in T |-> pos[p]]
<1>1. IsFiniteSet(T)
  <2>1. Cardinality(S) \in Nat
    BY FS_CardinalityType
  <2>2. IsFiniteSet(1 .. Cardinality(S))
    BY <2>1, FS_Interval
  <2> QED BY <2>2, FS_Subset
<1>2. f \in Bijection(T, Q)
  <2>1. f \in [T -> Q] /\ \A p, q \in T : f[p] = f[q] => p = q
    BY DEF Picks
  <2>2. \A i \in Q : \E p \in T : f[p] = i
    BY DEF Picks
  <2> HIDE DEF f, T
  <2> QED BY <2>1, <2>2 DEF Bijection, Injection, Surjection, IsInjective
<1> HIDE DEF T, f
<1>3. Cardinality(Q) = Cardinality(T)
  <2>1. ExistsBijection(T, Q)
    BY <1>2 DEF ExistsBijection
  <2> QED BY <1>1, <2>1, FS_Bijection
<1> QED BY <1>3 DEF T

(* The units of a number at each place.                                          *)
Units(S, b) == { e \in S \X Nat : e[2] \in 1 .. b[e[1]] }

(* The total of what is picked is the number of its units.                       *)
LEMMA PickedTotal ==
  ASSUME NEW S, IsFiniteSet(S), NEW pos, Picks(pos, S), NEW b \in [S -> Nat],
         NEW d, d = [k \in 1 .. Cardinality(S) |-> b[pos[k]]]
  PROVE  IsFiniteSet(Units(S, b)) /\ Total(d) = Cardinality(Units(S, b))
<1> DEFINE n == Cardinality(S)
           F == [k \in 1 .. n |-> {pos[k]} \X (1 .. b[pos[k]])]
<1>1. n \in Nat
  BY FS_CardinalityType
<1>2. \A k \in 1 .. n : pos[k] \in S /\ b[pos[k]] \in Nat
  BY DEF Picks
<1>3. d \in [1 .. n -> Int]
  BY <1>2
<1>4. ASSUME NEW k \in 1 .. n PROVE IsFiniteSet(F[k]) /\ Cardinality(F[k]) = d[k]
  <2>1. PICK m \in Nat : m = b[pos[k]] /\ m = d[k]
    BY <1>2
  <2>2. IsFiniteSet(1 .. m) /\ Cardinality(1 .. m) = m
    BY FS_Interval
  <2>3. PICK A, B : A = {pos[k]} /\ B = 1 .. m
    OBVIOUS
  <2>4. IsFiniteSet(A) /\ Cardinality(A) = 1
    BY <2>3, FS_Singleton
  <2>5. IsFiniteSet(A \X B) /\ Cardinality(A \X B) = Cardinality(A) * Cardinality(B)
    BY <2>2, <2>3, <2>4, FS_Product
  <2>6. F[k] = A \X B
    BY <2>1, <2>3
  <2> HIDE DEF F
  <2> QED BY <2>1, <2>2, <2>3, <2>4, <2>5, <2>6
<1>5. ASSUME NEW k \in 1 .. n, NEW l \in 1 .. n, k # l PROVE F[k] \cap F[l] = {}
  <2>1. pos[k] # pos[l]
    BY <1>5 DEF Picks
  <2> QED BY <2>1
<1>6. Together(F, n) = Units(S, b)
  <2>1. ASSUME NEW k \in 1 .. n PROVE F[k] \subseteq Units(S, b)
    BY <1>2 DEF Units
  <2>2. ASSUME NEW e \in Units(S, b) PROVE \E k \in 1 .. n : e \in F[k]
    <3>1. /\ e = <<e[1], e[2]>> /\ e[1] \in S /\ e[2] \in 1 .. b[e[1]]
      BY DEF Units
    <3>2. PICK k \in 1 .. n : pos[k] = e[1]
      BY <3>1 DEF Picks
    <3> QED BY <3>1, <3>2
  <2> HIDE DEF F
  <2> QED BY <2>1, <2>2 DEF Together
<1>7. IsFiniteSet(Together(F, n)) /\ Total(d) = Cardinality(Together(F, n))
  <2> HIDE DEF F, n
  <2> QED BY <1>1, <1>3, <1>4, <1>5, DisjointTotal
<1> HIDE DEF F
<1> QED BY <1>6, <1>7

-------------------------------------------------------------------------------
(* Bandwidth.                                                                    *)

(* A list of captured requests, as far as the reports look at numbers.           *)
IsTraffic(list) ==
  /\ Len(list) \in Nat
  /\ list = [i \in 1 .. Len(list) |-> list[i]]
  /\ \A i \in 1 .. Len(list) : list[i].durationMs \in Int /\ list[i].bytes \in Int

PlacesAtKey(list, key) == { i \in 1 .. Len(list) : keyOf(list[i]) = key }

BytesOf(list) == [i \in 1 .. Len(list) |-> KnownBytes(list[i])]

LEMMA BytesAreNumbers ==
  ASSUME NEW list, IsTraffic(list)
  PROVE  BytesOf(list) \in [1 .. Len(list) -> Nat]
BY DEF BytesOf, KnownBytes, IsTraffic

(* What is kept of a list.                                                       *)
LEMMA KeptList ==
  ASSUME NEW list, NEW n \in Nat, NEW S \in SUBSET (1 .. n)
  PROVE  /\ Cardinality(S) \in Nat
         /\ DOMAIN Kept(list, S) = 1 .. Cardinality(S)
         /\ Len(Kept(list, S)) = Cardinality(S)
         /\ \A k \in 1 .. Cardinality(S) : Kept(list, S)[k] = list[Kth(S, k)]
<1>1. Cardinality(S) \in Nat
  BY KthIsRanked
<1> QED BY <1>1 DEF Kept

(* What the bandwidth report says of an endpoint.                                *)
LEMMA EndpointProfile ==
  ASSUME NEW list, IsTraffic(list), NEW key
  PROVE  LET S == PlacesAtKey(list, key)
         IN  /\ IsFiniteSet(S)
             /\ profileEndpoint(Of(list, key)).requestCount = Cardinality(S)
             /\ IsFiniteSet(Units(S, BytesOf(list)))
             /\ profileEndpoint(Of(list, key)).totalBytes = Cardinality(Units(S, BytesOf(list)))
<1> DEFINE S == PlacesAtKey(list, key)
           n == Len(list)
           bucket == Of(list, key)
           b == [i \in S |-> BytesOf(list)[i]]
           pos == [k \in 1 .. Cardinality(S) |-> Kth(S, k)]
<1>1. n \in Nat /\ DOMAIN list = 1 .. n
  BY DEF IsTraffic
<1>2. S \in SUBSET (1 .. n)
  BY DEF PlacesAtKey
<1>3. IsFiniteSet(S) /\ Cardinality(S) \in Nat /\ Picks(pos, S)
  <2> HIDE DEF S, n
  <2> QED BY <1>1, <1>2, KthIsRanked
<1>4. bucket = Kept(list, S)
  BY <1>1 DEF Of, PlacesAtKey
<1>5. /\ DOMAIN bucket = 1 .. Cardinality(S) /\ Len(bucket) = Cardinality(S)
      /\ \A k \in 1 .. Cardinality(S) : bucket[k] = list[Kth(S, k)]
  <2> HIDE DEF S, n, bucket
  <2> QED BY <1>1, <1>2, <1>4, KeptList
<1>6. /\ profileEndpoint(bucket).requestCount = Len(bucket)
      /\ profileEndpoint(bucket).totalBytes = Total(Column(bucket, KnownBytes))
  BY DEF profileEndpoint
<1>7. \A k \in 1 .. Cardinality(S) : Kth(S, k) \in S /\ pos[k] = Kth(S, k)
  <2> HIDE DEF S
  <2> QED BY <1>3 DEF Picks
<1>8. Column(bucket, KnownBytes) = [k \in 1 .. Cardinality(S) |-> b[pos[k]]]
  <2>1. ASSUME NEW k \in 1 .. Cardinality(S) PROVE KnownBytes(bucket[k]) = b[pos[k]]
    <3>1. Kth(S, k) \in S /\ Kth(S, k) \in 1 .. n /\ pos[k] = Kth(S, k)
      BY <1>2, <1>7
    <3> HIDE DEF S, bucket, pos
    <3>2. b[pos[k]] = KnownBytes(list[Kth(S, k)])
      BY <3>1 DEF BytesOf
    <3> QED BY <1>5, <3>2
  <2> HIDE DEF S, bucket, pos, b
  <2> QED BY <1>5, <2>1 DEF Column
<1>9. b \in [S -> Nat]
  <2> HIDE DEF S
  <2> QED BY <1>2, BytesAreNumbers
<1>10. Units(S, b) = Units(S, BytesOf(list))
  <2> HIDE DEF S
  <2> QED BY <1>2 DEF Units
<1>11. IsFiniteSet(Units(S, b)) /\ Total(Column(bucket, KnownBytes)) = Cardinality(Units(S, b))
  <2> HIDE DEF S, bucket, b, pos
  <2> QED BY <1>3, <1>8, <1>9, PickedTotal
<1> HIDE DEF S, bucket, b
<1> QED BY <1>3, <1>5, <1>6, <1>10, <1>11 DEF S, bucket

(* A set put in some order.                                                      *)
LEMMA SetsArePutInOrder ==
  ASSUME NEW D, IsFiniteSet(D)
  PROVE  Cardinality(D) \in Nat /\ Picks(SetToSeq(D), D)
<1> DEFINE n == Cardinality(D)
           s == SetToSeq(D)
<1>1. n \in Nat /\ ExistsBijection(1 .. n, D)
  BY FS_CardinalityType
<1>2. \E f \in [1 .. n -> D] : IsInjective(f)
  <2>1. PICK f \in Bijection(1 .. n, D) : TRUE
    BY <1>1 DEF ExistsBijection
  <2>2. f \in [1 .. n -> D] /\ IsInjective(f)
    BY <2>1 DEF Bijection, Injection, IsInjective
  <2> QED BY <2>2
<1>3. s \in [1 .. n -> D] /\ IsInjective(s)
  <2>1. s = CHOOSE f \in [1 .. n -> D] : IsInjective(f)
    BY DEF SetToSeq
  <2> HIDE DEF s, n
  <2> QED BY <1>2, <2>1
<1>4. IsFiniteSet(1 .. n) /\ Cardinality(1 .. n) = n
  BY <1>1, FS_Interval
<1>5. s \in Injection(1 .. n, D)
  <2> HIDE DEF s, n
  <2> QED BY <1>3 DEF Injection
<1>6. s \in Surjection(1 .. n, D)
  <2>1. PICK A, g : A = 1 .. n /\ g = s
    OBVIOUS
  <2>2. g \in Injection(A, D) /\ IsFiniteSet(A) /\ Cardinality(A) = Cardinality(D)
    BY <1>4, <1>5, <2>1
  <2> HIDE DEF s
  <2>3. g \in Surjection(A, D)
    BY <2>2, FS_Injection
  <2> QED BY <2>1, <2>3
<1> HIDE DEF s
<1>7. \A p, q \in 1 .. n : s[p] = s[q] => p = q
  BY <1>3 DEF IsInjective
<1>8. \A i \in D : \E p \in 1 .. n : s[p] = i
  BY <1>6 DEF Surjection
<1> QED BY <1>1, <1>3, <1>7, <1>8 DEF Picks, s

(* No request and no byte is lost between the endpoints.                         *)
LEMMA BandwidthAddsUp ==
  ASSUME NEW list, IsTraffic(list)
  PROVE  LET bandwidth == profileBandwidth(list)
             parts == SetToSeq(DOMAIN bandwidth.endpoints)
         IN  /\ Total([i \in DOMAIN parts |-> bandwidth.endpoints[parts[i]].requestCount]) = Len(list)
             /\ Total([i \in DOMAIN parts |-> bandwidth.endpoints[parts[i]].totalBytes])
                     = bandwidth.totalBytes
<1> DEFINE n == Len(list)
           D == Endpoints(list)
           m == Cardinality(D)
           parts == SetToSeq(D)
           b == BytesOf(list)
           profile(i) == profileEndpoint(Of(list, parts[i]))
           endpoints == [key \in D |-> profileEndpoint(Of(list, key))]
           requests == [i \in 1 .. m |-> profile(i).requestCount]
           bytes == [i \in 1 .. m |-> profile(i).totalBytes]
           F == [i \in 1 .. m |-> PlacesAtKey(list, parts[i])]
           U == [i \in 1 .. m |-> Units(F[i], b)]
<1>1. n \in Nat /\ DOMAIN list = 1 .. n
  BY DEF IsTraffic
<1>2. IsFiniteSet(1 .. n) /\ Cardinality(1 .. n) = n
  <2> HIDE DEF n
  <2> QED BY <1>1, FS_Interval
<1>3. IsFiniteSet(D)
  <2>1. D = { keyOf(list[i]) : i \in 1 .. n }
    BY <1>1 DEF Endpoints
  <2>2. PICK A, f : A = 1 .. n /\ f = [i \in 1 .. n |-> keyOf(list[i])]
    OBVIOUS
  <2>3. { f[i] : i \in A } = D
    <3> HIDE DEF D
    <3> QED BY <2>1, <2>2
  <2>4. f \in [A -> D]
    <3> HIDE DEF D
    <3> QED BY <2>1, <2>2
  <2>5. f \in Surjection(A, D)
    <3> HIDE DEF D, n
    <3> QED BY <2>3, <2>4 DEF Surjection
  <2>6. IsFiniteSet(A)
    BY <1>2, <2>2
  <2> HIDE DEF D
  <2> QED BY <2>5, <2>6, FS_Surjection
<1>4. m \in Nat /\ Picks(parts, D)
  <2> HIDE DEF D
  <2> QED BY <1>3, SetsArePutInOrder
<1>5. DOMAIN parts = 1 .. m /\ \A i \in 1 .. m : parts[i] \in D
  <2> HIDE DEF D, parts
  <2> QED BY <1>4 DEF Picks
<1>6. \A i \in 1 .. m :
        /\ IsFiniteSet(F[i]) /\ requests[i] = Cardinality(F[i])
        /\ IsFiniteSet(U[i]) /\ bytes[i] = Cardinality(U[i])
  <2> SUFFICES ASSUME NEW i \in 1 .. m
               PROVE  /\ IsFiniteSet(F[i]) /\ requests[i] = Cardinality(F[i])
                      /\ IsFiniteSet(U[i]) /\ bytes[i] = Cardinality(U[i])
    OBVIOUS
  <2>1. PICK key : key = parts[i]
    OBVIOUS
  <2>2. /\ F[i] = PlacesAtKey(list, key) /\ U[i] = Units(PlacesAtKey(list, key), b)
        /\ requests[i] = profileEndpoint(Of(list, key)).requestCount
        /\ bytes[i] = profileEndpoint(Of(list, key)).totalBytes
    BY <2>1
  <2> HIDE DEF F, U, requests, bytes
  <2> QED BY <2>2, EndpointProfile
<1>7. \A i \in 1 .. m : Cardinality(F[i]) \in Nat /\ Cardinality(U[i]) \in Nat
  <2> HIDE DEF F, U, D
  <2> QED BY <1>6, FS_CardinalityType
<1>8. requests \in [1 .. m -> Int] /\ bytes \in [1 .. m -> Int]
  <2>1. requests = [i \in 1 .. m |-> requests[i]] /\ bytes = [i \in 1 .. m |-> bytes[i]]
    OBVIOUS
  <2> HIDE DEF F, U, D, requests, bytes
  <2> QED BY <1>6, <1>7, <2>1
<1>9. ASSUME NEW i \in 1 .. m, NEW j \in 1 .. m, i # j
      PROVE  F[i] \cap F[j] = {} /\ U[i] \cap U[j] = {}
  <2>1. parts[i] # parts[j]
    <3> HIDE DEF D, parts
    <3> QED BY <1>4, <1>9 DEF Picks
  <2> HIDE DEF parts, D
  <2>2. F[i] \cap F[j] = {}
    BY <2>1 DEF PlacesAtKey
  <2>3. U[i] = Units(F[i], b) /\ U[j] = Units(F[j], b)
    OBVIOUS
  <2> HIDE DEF F, U
  <2> QED BY <2>2, <2>3 DEF Units
<1>10. Together(F, m) = 1 .. n
  <2>1. ASSUME NEW i \in 1 .. n PROVE \E k \in 1 .. m : i \in F[k]
    <3>1. keyOf(list[i]) \in D
      BY <1>1 DEF Endpoints
    <3>2. PICK k \in 1 .. m : parts[k] = keyOf(list[i])
      <4> HIDE DEF D, parts
      <4> QED BY <1>4, <3>1 DEF Picks
    <3>3. i \in F[k]
      BY <3>2 DEF PlacesAtKey
    <3> QED BY <3>3
  <2>2. \A k \in 1 .. m : F[k] \subseteq 1 .. n
    BY DEF PlacesAtKey
  <2> HIDE DEF F, D
  <2> QED BY <2>1, <2>2 DEF Together
<1>11. Together(U, m) = Units(1 .. n, b)
  <2>1. \A k \in 1 .. m : U[k] = Units(F[k], b)
    OBVIOUS
  <2>2. \A e : e \in Units(1 .. n, b) <=> \E k \in 1 .. m : e \in Units(F[k], b)
    <3>1. \A i : i \in 1 .. n <=> \E k \in 1 .. m : i \in F[k]
      <4> HIDE DEF F, D
      <4> QED BY <1>10 DEF Together
    <3> HIDE DEF F, U, D, b
    <3> QED BY <3>1 DEF Units
  <2> HIDE DEF F, U, D
  <2> QED BY <2>1, <2>2 DEF Together
<1>12. Total(requests) = Cardinality(1 .. n)
  <2> HIDE DEF F, U, D, requests, bytes
  <2>1. \A k \in 1 .. m : IsFiniteSet(F[k]) /\ Cardinality(F[k]) = requests[k]
    BY <1>6
  <2>2. PICK mm, FF : mm = m /\ FF = F
    OBVIOUS
  <2> HIDE DEF m
  <2> QED BY <1>4, <1>8, <1>9, <1>10, <2>1, <2>2, DisjointTotal
<1>13. Total(bytes) = Cardinality(Units(1 .. n, b))
  <2> HIDE DEF F, U, D, requests, bytes
  <2>1. \A k \in 1 .. m : IsFiniteSet(U[k]) /\ Cardinality(U[k]) = bytes[k]
    BY <1>6
  <2> HIDE DEF m
  <2> QED BY <1>4, <1>8, <1>9, <1>11, <2>1, DisjointTotal
<1>14. Total(Column(list, KnownBytes)) = Cardinality(Units(1 .. n, b))
  <2> DEFINE id == [i \in 1 .. n |-> i]
  <2>1. Column(list, KnownBytes) = b
    BY <1>1 DEF Column, BytesOf
  <2>2. Picks(id, 1 .. n)
    BY <1>2 DEF Picks
  <2>3. b = [k \in 1 .. Cardinality(1 .. n) |-> b[id[k]]]
    BY <1>2, BytesAreNumbers
  <2>4. b \in [1 .. n -> Nat]
    BY BytesAreNumbers
  <2>5. PICK S : S = 1 .. n
    OBVIOUS
  <2> HIDE DEF b, id, n
  <2>6. IsFiniteSet(S) /\ Picks(id, S) /\ b \in [S -> Nat]
        /\ b = [k \in 1 .. Cardinality(S) |-> b[id[k]]]
    BY <1>2, <2>2, <2>3, <2>4, <2>5
  <2>7. PICK pos, d, w : pos = id /\ d = b /\ w = b
    OBVIOUS
  <2>8. /\ IsFiniteSet(S) /\ Picks(pos, S) /\ w \in [S -> Nat]
        /\ d = [k \in 1 .. Cardinality(S) |-> w[pos[k]]]
    BY <2>6, <2>7
  <2>9. Total(d) = Cardinality(Units(S, w))
    BY <2>8, PickedTotal
  <2> QED BY <2>1, <2>5, <2>7, <2>9
<1>15. /\ profileBandwidth(list).endpoints = endpoints
       /\ profileBandwidth(list).totalBytes = Total(Column(list, KnownBytes))
  BY DEF profileBandwidth
<1>16. /\ DOMAIN endpoints = D
       /\ [i \in DOMAIN parts |-> endpoints[parts[i]].requestCount] = requests
       /\ [i \in DOMAIN parts |-> endpoints[parts[i]].totalBytes] = bytes
  <2>1. \A i \in 1 .. m : endpoints[parts[i]] = profile(i)
    <3> HIDE DEF D, parts
    <3> QED BY <1>5
  <2> HIDE DEF D, parts
  <2>2. DOMAIN endpoints = D
    OBVIOUS
  <2> HIDE DEF endpoints, profile
  <2> QED BY <1>5, <2>1, <2>2
<1> HIDE DEF D, F, U, requests, bytes, endpoints
<1> QED BY <1>2, <1>12, <1>13, <1>14, <1>15, <1>16

-------------------------------------------------------------------------------
(* Bottlenecks.                                                                  *)

(* The times that were measured, in the order of the requests.                   *)
TimesOf(list) == Column(Kept(list, Measured(list)), LAMBDA e : e.durationMs)

(* What bottlenecks are told from.                                               *)
LEMMA TimesAreNumbers ==
  ASSUME NEW list, IsTraffic(list)
  PROVE  LET M == Measured(list)
             n == Cardinality(M)
         IN  /\ n \in Nat /\ M \in SUBSET (1 .. Len(list)) /\ IsFiniteSet(M)
             /\ Picks([k \in 1 .. n |-> Kth(M, k)], M)
             /\ \A k \in 1 .. n : Kth(M, k) \in M
             /\ DOMAIN Kept(list, M) = 1 .. n
             /\ \A k \in 1 .. n : Kept(list, M)[k] = list[Kth(M, k)]
             /\ TimesOf(list) \in [1 .. n -> Nat]
             /\ \A k \in 1 .. n : TimesOf(list)[k] = list[Kth(M, k)].durationMs
             /\ Len(Ascending(TimesOf(list))) = n
<1> DEFINE M == Measured(list)
           n == Cardinality(M)
<1>1. Len(list) \in Nat /\ DOMAIN list = 1 .. Len(list)
  BY DEF IsTraffic
<1>2. M \in SUBSET (1 .. Len(list))
  BY <1>1 DEF Measured
<1>3. /\ n \in Nat /\ IsFiniteSet(M)
      /\ Picks([k \in 1 .. n |-> Kth(M, k)], M)
      /\ DOMAIN Kept(list, M) = 1 .. n
      /\ \A k \in 1 .. n : Kept(list, M)[k] = list[Kth(M, k)]
  <2> HIDE DEF M
  <2> QED BY <1>1, <1>2, KthIsRanked, KeptList
<1>4. \A k \in 1 .. n : Kth(M, k) \in M
  <2> HIDE DEF M
  <2> QED BY <1>3 DEF Picks
<1>5. \A i \in M : list[i].durationMs \in Nat
  BY <1>1 DEF Measured, IsTraffic
<1> HIDE DEF M
<1>6. TimesOf(list) = [k \in 1 .. n |-> list[Kth(M, k)].durationMs]
  <2>1. TimesOf(list) = [k \in DOMAIN Kept(list, M) |-> Kept(list, M)[k].durationMs]
    BY DEF TimesOf, Column, M
  <2> QED BY <1>3, <2>1
<1>7. TimesOf(list) \in [1 .. n -> Nat]
  BY <1>4, <1>5, <1>6
<1>8. Len(Ascending(TimesOf(list))) = n
  <2>1. TimesOf(list) \in [1 .. n -> Int]
    BY <1>7
  <2>2. Ascending(TimesOf(list)) \in [1 .. n -> Int]
    BY <1>3, <2>1, AscendingNumbers
  <2> QED BY <1>3, <2>2
<1> QED BY <1>2, <1>3, <1>4, <1>6, <1>7, <1>8 DEF M

(* Requests and their times are as many.                                         *)
LEMMA TimesCount ==
  ASSUME NEW list, IsTraffic(list), NEW Q, Q \in SUBSET Int
  PROVE  Cardinality({ i \in DOMAIN list : list[i].durationMs \in Q /\ list[i].durationMs >= 0 })
           = Cardinality({ k \in 1 .. Cardinality(Measured(list)) : TimesOf(list)[k] \in Q })
<1> DEFINE M == Measured(list)
           n == Cardinality(M)
           pos == [k \in 1 .. n |-> Kth(M, k)]
           R == { i \in M : list[i].durationMs \in Q }
<1>1. /\ IsFiniteSet(M) /\ Picks(pos, M)
      /\ \A k \in 1 .. n : Kth(M, k) \in M /\ TimesOf(list)[k] = list[Kth(M, k)].durationMs
  <2> HIDE DEF M
  <2> QED BY TimesAreNumbers DEF M
<1>2. R = { i \in DOMAIN list : list[i].durationMs \in Q /\ list[i].durationMs >= 0 }
  BY DEF Measured
<1> HIDE DEF M
<1>3. { k \in 1 .. n : pos[k] \in R } = { k \in 1 .. n : TimesOf(list)[k] \in Q }
  BY <1>1
<1>4. R \in SUBSET M
  OBVIOUS
<1> HIDE DEF R, pos
<1>5. Cardinality({ k \in 1 .. n : pos[k] \in R }) = Cardinality(R)
  BY <1>1, <1>4, PicksCount
<1> QED BY <1>2, <1>3, <1>5 DEF M

(* The nearest rank of nine in ten.                                              *)
LEMMA NinetiethIsRanked ==
  ASSUME NEW n \in Nat, n > 0, NEW s \in [1 .. n -> Int]
  PROVE  \E rank \in 1 .. n : /\ percentile(s, 9) = s[rank]
                             /\ 10 * rank >= 9 * n /\ 10 * (rank - 1) < 9 * n
<1> DEFINE rank == (9 * n + 9) \div 10
<1>1. rank \in Int /\ 10 * rank <= 9 * n + 9 /\ 9 * n + 9 < 10 * rank + 10
  OBVIOUS
<1> HIDE DEF rank
<1>2. rank \in 1 .. n
  BY <1>1
<1>3. Len(s) = n /\ s # <<>>
  OBVIOUS
<1>4. percentile(s, 9) = s[rank]
  <2>1. (9 * Len(s) + 9) \div 10 = rank
    BY <1>3 DEF rank
  <2> QED BY <1>2, <1>3, <2>1 DEF percentile
<1> QED BY <1>1, <1>2, <1>4

(* Nine requests in ten are at most the 90th percentile and fewer are below it,  *)
(* and if any request is a bottleneck the slowest one is.                        *)
LEMMA BottlenecksAddUp ==
  ASSUME NEW list, IsTraffic(list)
  PROVE  LET report == detectBottlenecks(list)
             p90 == report.stats.p90DurationMs
             n == report.stats.count
             below(d) == Cardinality({ i \in DOMAIN list : list[i].durationMs \in 0 .. d })
         IN  /\ n > 0 => 10 * below(p90) >= 9 * n /\ 10 * below(p90 - 1) < 9 * n
             /\ report.findings # {} =>
                    report.stats.slowest \subseteq { f.id : f \in report.findings }
<1> DEFINE M == Measured(list)
           n == Cardinality(M)
           measured == Kept(list, M)
           durations == Ascending(TimesOf(list))
           report == detectBottlenecks(list)
           p90 == percentile(durations, 9)
           below(d) == Cardinality({ i \in DOMAIN list : list[i].durationMs \in 0 .. d })
           slowest == { i \in DOMAIN measured : /\ measured[i].durationMs = durations[n]
                                                /\ \A j \in 1 .. (i - 1) :
                                                      measured[j].durationMs < durations[n] }
           absolute(e) == e.durationMs >= absoluteSlowMs
           relative(e) == n >= minSamplesForPercentile /\ e.durationMs >= p90
                             /\ e.durationMs >= relativeFloorMs
           slow == { x \in RangeOf(measured) : absolute(x) \/ relative(x) }
<1>1. /\ n \in Nat /\ DOMAIN measured = 1 .. n
      /\ \A k \in 1 .. n : measured[k] = list[Kth(M, k)]
      /\ TimesOf(list) \in [1 .. n -> Nat]
      /\ \A k \in 1 .. n : TimesOf(list)[k] = list[Kth(M, k)].durationMs
      /\ Len(durations) = n
  BY TimesAreNumbers
<1>2. /\ report.stats.count = n
      /\ report.stats.p90DurationMs = p90
      /\ report.stats.slowest = { measured[i].id : i \in slowest }
      /\ { f.id : f \in report.findings } = { e.id : e \in slow }
      /\ report.findings # {} => slow # {}
  <2>1. Len(durations) = n
    BY <1>1
  <2> DEFINE finding(e) == [id |-> e.id, durationMs |-> e.durationMs, reason |-> classifyReason(e),
                            exceedsAbsolute |-> absolute(e), exceedsRelative |-> relative(e)]
  <2>2. /\ report.stats.count = Len(durations)
        /\ report.stats.p90DurationMs = p90
    BY DEF detectBottlenecks, TimesOf
  <2>3. report.stats.slowest = { measured[i].id : i \in slowest }
    BY <2>1 DEF detectBottlenecks, TimesOf
  <2>4. report.findings = { finding(e) : e \in slow }
    BY <2>1 DEF detectBottlenecks, TimesOf
  <2>5. \A e : finding(e).id = e.id
    OBVIOUS
  <2> HIDE DEF finding, slow, slowest, n, report, durations, measured, p90
  <2> QED BY <2>1, <2>2, <2>3, <2>4, <2>5
<1>3. ASSUME n > 0
      PROVE  10 * below(p90) >= 9 * n /\ 10 * below(p90 - 1) < 9 * n
  <2>1. TimesOf(list) \in [1 .. n -> Int]
    BY <1>1
  <2>2. /\ durations \in [1 .. n -> Int]
        /\ \A k \in 1 .. n :
              /\ Cardinality({ i \in 1 .. n : TimesOf(list)[i] <= durations[k] }) >= k
              /\ Cardinality({ i \in 1 .. n : TimesOf(list)[i] < durations[k] }) < k
    <3> HIDE DEF M
    <3> QED BY <1>1, <2>1, AscendingNumbers
  <2>3. PICK rank \in 1 .. n : p90 = durations[rank] /\ 10 * rank >= 9 * n /\ 10 * (rank - 1) < 9 * n
    <3> HIDE DEF M, durations
    <3> QED BY <1>1, <1>3, <2>2, NinetiethIsRanked
  <2>4. p90 \in Int
    <3> HIDE DEF M, durations
    <3> QED BY <2>2, <2>3
  <2>5. ASSUME NEW d \in Int
        PROVE  below(d) = Cardinality({ k \in 1 .. n : TimesOf(list)[k] <= d })
    <3>1. { i \in DOMAIN list : list[i].durationMs \in 0 .. d }
            = { i \in DOMAIN list : list[i].durationMs \in 0 .. d /\ list[i].durationMs >= 0 }
      OBVIOUS
    <3>2. { k \in 1 .. n : TimesOf(list)[k] \in 0 .. d } = { k \in 1 .. n : TimesOf(list)[k] <= d }
      <4> HIDE DEF M
      <4> QED BY <1>1
    <3>3. PICK Q : Q = 0 .. d
      OBVIOUS
    <3>4. Q \in SUBSET Int
      BY <3>3
    <3>5. Cardinality({ i \in DOMAIN list : list[i].durationMs \in Q /\ list[i].durationMs >= 0 })
            = Cardinality({ k \in 1 .. Cardinality(Measured(list)) : TimesOf(list)[k] \in Q })
      BY <3>4, TimesCount
    <3> QED BY <3>1, <3>2, <3>3, <3>5
  <2>6. below(p90) >= rank
    <3> HIDE DEF M, durations, below, p90
    <3> QED BY <2>2, <2>3, <2>4, <2>5
  <2>7. below(p90 - 1) < rank
    <3>1. { k \in 1 .. n : TimesOf(list)[k] <= p90 - 1 } = { k \in 1 .. n : TimesOf(list)[k] < p90 }
      <4> HIDE DEF M, p90
      <4> QED BY <1>1, <2>4
    <3>2. below(p90 - 1) = Cardinality({ k \in 1 .. n : TimesOf(list)[k] <= p90 - 1 })
      <4>1. p90 - 1 \in Int
        BY <2>4
      <4> HIDE DEF M, below, p90
      <4> QED BY <2>5, <4>1
    <3>3. Cardinality({ k \in 1 .. n : TimesOf(list)[k] < p90 }) < rank
      <4> HIDE DEF M, durations, p90
      <4> QED BY <2>2, <2>3
    <3> HIDE DEF M, below, p90
    <3> QED BY <3>1, <3>2, <3>3
  <2>8. below(p90) \in Int /\ below(p90 - 1) \in Int
    <3>1. IsFiniteSet(1 .. n)
      <4> HIDE DEF M
      <4> QED BY <1>1, FS_Interval
    <3>2. ASSUME NEW d PROVE Cardinality({ k \in 1 .. n : TimesOf(list)[k] <= d }) \in Nat
      <4>1. { k \in 1 .. n : TimesOf(list)[k] <= d } \subseteq 1 .. n
        OBVIOUS
      <4> QED BY <3>1, <4>1, FS_Subset, FS_CardinalityType
    <3>3. ASSUME NEW d \in Int PROVE below(d) \in Int
      <4>1. below(d) = Cardinality({ k \in 1 .. n : TimesOf(list)[k] <= d })
        BY <2>5
      <4>2. Cardinality({ k \in 1 .. n : TimesOf(list)[k] <= d }) \in Nat
        BY <3>2
      <4> HIDE DEF below, n
      <4> QED BY <4>1, <4>2
    <3>4. p90 - 1 \in Int
      BY <2>4
    <3> HIDE DEF below, p90
    <3> QED BY <2>4, <3>3, <3>4
  <2> HIDE DEF below, p90, M, durations
  <2> QED BY <1>1, <2>3, <2>6, <2>7, <2>8
<1>4. ASSUME slow # {}, NEW i \in slowest
      PROVE  measured[i].id \in { e.id : e \in slow }
  <2>1. PICK x \in slow : TRUE
    BY <1>4
  <2>2. PICK k \in 1 .. n : x = measured[k]
    <3>1. x \in RangeOf(measured)
      BY <2>1
    <3> HIDE DEF M, measured, slow
    <3> QED BY <1>1, <3>1 DEF RangeOf
  <2>3. i \in 1 .. n /\ measured[i].durationMs = durations[n]
    <3> HIDE DEF M, measured, durations
    <3> QED BY <1>1
  <2>4. x.durationMs <= durations[n] /\ x.durationMs \in Int /\ durations[n] \in Int
    <3>1. x.durationMs = TimesOf(list)[k]
      <4> HIDE DEF M, measured, slow
      <4> QED BY <1>1, <2>2
    <3>2. TimesOf(list) \in [1 .. n -> Int]
      BY <1>1
    <3>3. TimesOf(list)[k] <= durations[n] /\ durations \in [1 .. n -> Int]
      <4> HIDE DEF M
      <4> QED BY <1>1, <3>2, AscendingNumbers
    <3> HIDE DEF M, durations, measured, slow
    <3> QED BY <1>1, <2>3, <3>1, <3>2, <3>3
  <2>5. absolute(x) \/ relative(x)
    BY <2>1
  <2>6. n > 0 /\ p90 \in Int
    <3>1. n > 0
      <4> HIDE DEF M
      <4> QED BY <1>1, <2>3
    <3>2. TimesOf(list) \in [1 .. n -> Int]
      BY <1>1
    <3>3. durations \in [1 .. n -> Int]
      <4> HIDE DEF M
      <4> QED BY <1>1, <3>2, AscendingNumbers
    <3>4. PICK rank \in 1 .. n : p90 = durations[rank]
      <4> HIDE DEF M, durations
      <4> QED BY <1>1, <3>1, <3>3, NinetiethIsRanked
    <3> HIDE DEF M, durations, p90
    <3> QED BY <3>1, <3>3, <3>4
  <2>7. absolute(measured[i]) \/ relative(measured[i])
    <3> HIDE DEF M, durations, p90, measured, slow, slowest
    <3> QED BY <1>1, <2>3, <2>4, <2>5, <2>6 DEF absoluteSlowMs, relativeFloorMs
  <2>8. measured[i] \in RangeOf(measured)
    <3> HIDE DEF M, measured
    <3> QED BY <1>1, <2>3 DEF RangeOf
  <2>9. measured[i] \in slow
    <3> HIDE DEF M, measured, absolute, relative
    <3> QED BY <2>7, <2>8
  <2> HIDE DEF slow, measured
  <2> QED BY <2>9
<1> HIDE DEF below, slow, slowest, p90, n, report, measured
<1> QED BY <1>2, <1>3, <1>4 DEF below, report

-------------------------------------------------------------------------------
(* Outliers.                                                                     *)

(* The median is a number, and of numbers that are not negative at least half    *)
(* are at most twice the median.                                                 *)
LEMMA MedianOfNumbers ==
  ASSUME NEW n \in Nat, n > 0, NEW s \in [1 .. n -> Int]
  PROVE  /\ TwiceMedian(s) \in Int
         /\ (\A i \in 1 .. n : s[i] >= 0) =>
               \E k \in 1 .. n : 2 * k >= n /\ Ascending(s)[k] <= TwiceMedian(s)
<1> DEFINE mid == n \div 2
           sorted == Ascending(s)
<1>1. /\ sorted \in [1 .. n -> Int]
      /\ \A k \in 1 .. n : \E i \in 1 .. n : sorted[k] = s[i]
  BY AscendingNumbers
<1>2. Len(s) = n
  OBVIOUS
<1>3. TwiceMedian(s) = IF n % 2 = 0 THEN sorted[mid] + sorted[mid + 1] ELSE 2 * sorted[mid + 1]
  BY <1>2 DEF TwiceMedian
<1> HIDE DEF sorted
<1>4. CASE n % 2 = 0
  <2>1. mid \in 1 .. n /\ mid + 1 \in 1 .. n /\ 2 * mid = n
    BY <1>4
  <2> HIDE DEF mid
  <2>2. sorted[mid] \in Int /\ sorted[mid + 1] \in Int
    BY <1>1, <2>1
  <2>3. TwiceMedian(s) = sorted[mid] + sorted[mid + 1]
    BY <1>3, <1>4
  <2>4. ASSUME \A i \in 1 .. n : s[i] >= 0
        PROVE  2 * mid >= n /\ sorted[mid] <= TwiceMedian(s)
    <3>1. sorted[mid + 1] >= 0
      BY <1>1, <2>1, <2>4
    <3> QED BY <2>1, <2>2, <2>3, <3>1
  <2> QED BY <2>1, <2>2, <2>3, <2>4 DEF sorted
<1>5. CASE n % 2 # 0
  <2>1. mid + 1 \in 1 .. n /\ 2 * (mid + 1) >= n
    BY <1>5
  <2> HIDE DEF mid
  <2>2. sorted[mid + 1] \in Int
    BY <1>1, <2>1
  <2>3. TwiceMedian(s) = 2 * sorted[mid + 1]
    BY <1>3, <1>5
  <2>4. ASSUME \A i \in 1 .. n : s[i] >= 0
        PROVE  2 * (mid + 1) >= n /\ sorted[mid + 1] <= TwiceMedian(s)
    <3>1. sorted[mid + 1] >= 0
      BY <1>1, <2>1, <2>4
    <3> QED BY <2>1, <2>2, <2>3, <3>1
  <2> QED BY <2>1, <2>2, <2>3, <2>4 DEF sorted
<1> QED BY <1>4, <1>5

(* Deviations are numbers, and not negative.                                     *)
LEMMA DeviationsAreNumbers ==
  ASSUME NEW n \in Nat, n > 0, NEW s \in [1 .. n -> Int]
  PROVE  \A i \in 1 .. n : Deviation(s, s[i]) \in Nat
<1>1. TwiceMedian(s) \in Int
  BY MedianOfNumbers
<1> QED BY <1>1 DEF Deviation, Distance

(* The value farthest from the median is one of the values.                      *)
LEMMA FarthestIsTaken ==
  ASSUME NEW n \in Nat, n > 0, NEW s \in [1 .. n -> Int]
  PROVE  \E i \in 1 .. n : Farthest(s) = s[i]
<1> DEFINE dev == [i \in 1 .. n |-> Deviation(s, s[i])]
           top == { i \in 1 .. n : \A j \in 1 .. n : dev[j] <= dev[i] }
           best == { i \in 1 .. n :
                       \A j \in 1 .. n : dev[i] >= dev[j] /\ (j < i => dev[i] > dev[j]) }
<1>1. dev \in [1 .. n -> Int]
  BY DeviationsAreNumbers
<1>2. \E i \in 1 .. n : i \in top
  <2> HIDE DEF dev
  <2>1. PICK i \in 1 .. n : Ascending(dev)[n] = dev[i]
    <3>1. n \in 1 .. n
      OBVIOUS
    <3> QED BY <1>1, <3>1, AscendingNumbers
  <2>2. \A j \in 1 .. n : dev[j] <= Ascending(dev)[n]
    BY <1>1, AscendingNumbers
  <2>3. i \in top
    BY <2>1, <2>2
  <2> QED BY <2>3
<1>3. PICK i \in top : \A j \in top : i <= j
  <2>1. top \in SUBSET Nat /\ top # {}
    BY <1>2
  <2> HIDE DEF top
  <2> QED BY <2>1, LeastNumber
<1>4. i \in best
  <2> HIDE DEF dev
  <2>1. ASSUME NEW j \in 1 .. n, j < i PROVE dev[i] > dev[j]
    <3>1. j \notin top
      BY <1>3, <2>1
    <3>2. PICK l \in 1 .. n : ~(dev[l] <= dev[j])
      BY <3>1
    <3>3. dev[l] <= dev[i] /\ dev[l] \in Int /\ dev[i] \in Int /\ dev[j] \in Int
      BY <1>1, <1>3
    <3> QED BY <3>2, <3>3
  <2>2. \A j \in 1 .. n : dev[i] >= dev[j]
    BY <1>1, <1>3
  <2> QED BY <1>3, <2>1, <2>2
<1>5. Farthest(s) = s[CHOOSE l \in best : TRUE]
  <2>1. best = { l \in DOMAIN s :
                   \A j \in DOMAIN s :
                     /\ Deviation(s, s[l]) >= Deviation(s, s[j])
                     /\ j < l => Deviation(s, s[l]) > Deviation(s, s[j]) }
    <3>1. DOMAIN s = 1 .. n /\ \A l \in 1 .. n : dev[l] = Deviation(s, s[l])
      OBVIOUS
    <3> HIDE DEF dev
    <3> QED BY <3>1
  <2> HIDE DEF best
  <2> QED BY <2>1 DEF Farthest
<1>6. (CHOOSE l \in best : TRUE) \in best
  <2> HIDE DEF best
  <2> QED BY <1>4
<1>7. \A l \in best : l \in 1 .. n
  OBVIOUS
<1> HIDE DEF best
<1> QED BY <1>5, <1>6, <1>7

(* At least half of the values lie nearer to the median than an outlier does.    *)
LEMMA OutliersLieFarther ==
  ASSUME NEW n \in Nat, NEW s \in [1 .. n -> Int], NEW floor, IsOutlier(s, floor)
  PROVE  2 * Cardinality({ i \in DOMAIN s : Deviation(s, s[i]) < Deviation(s, Farthest(s)) })
           >= Len(s)
<1> DEFINE dev == [i \in 1 .. n |-> Deviation(s, s[i])]
           mad == TwiceMedian(dev)
           far == Deviation(s, Farthest(s))
           nearer == { i \in 1 .. n : dev[i] < far }
<1>1. DOMAIN s = 1 .. n /\ Len(s) = n
  OBVIOUS
<1>2. n >= 4 /\ mad # 0 /\ 13490 * far >= 35000 * mad
  <2>1. [i \in DOMAIN s |-> Deviation(s, s[i])] = dev
    BY <1>1
  <2>2. n >= minSamplesForOutlier /\ mad # 0 /\ 13490 * far >= 35000 * mad
    BY <1>1, <2>1 DEF IsOutlier
  <2> QED BY <2>2 DEF minSamplesForOutlier
<1>3. dev \in [1 .. n -> Int] /\ \A i \in 1 .. n : dev[i] >= 0
  <2>1. n > 0
    BY <1>2
  <2>2. \A i \in 1 .. n : Deviation(s, s[i]) \in Nat
    BY <2>1, DeviationsAreNumbers
  <2> QED BY <2>2
<1>4. far \in Int
  <2>1. PICK i \in 1 .. n : Farthest(s) = s[i]
    BY <1>2, FarthestIsTaken
  <2>2. Deviation(s, s[i]) \in Nat
    <3>1. n > 0
      BY <1>2
    <3> QED BY <3>1, DeviationsAreNumbers
  <2> QED BY <2>1, <2>2
<1> HIDE DEF dev, far
<1>5. /\ mad \in Int
      /\ \E k \in 1 .. n : 2 * k >= n /\ Ascending(dev)[k] <= mad
  <2>1. n > 0
    BY <1>2
  <2>2. PICK t : t = dev
    OBVIOUS
  <2>3. t \in [1 .. n -> Int] /\ \A i \in 1 .. n : t[i] >= 0
    BY <1>3, <2>2
  <2>4. /\ TwiceMedian(t) \in Int
        /\ \E k \in 1 .. n : 2 * k >= n /\ Ascending(t)[k] <= TwiceMedian(t)
    BY <2>1, <2>3, MedianOfNumbers
  <2> QED BY <2>2, <2>4
<1>6. PICK k \in 1 .. n : 2 * k >= n /\ Ascending(dev)[k] <= mad
  BY <1>5
<1>7. /\ Ascending(dev)[k] \in Int /\ Ascending(dev)[k] >= 0
      /\ Cardinality({ i \in 1 .. n : dev[i] <= Ascending(dev)[k] }) >= k
  <2>1. /\ Ascending(dev) \in [1 .. n -> Int]
        /\ \E i \in 1 .. n : Ascending(dev)[k] = dev[i]
        /\ Cardinality({ i \in 1 .. n : dev[i] <= Ascending(dev)[k] }) >= k
    BY <1>3, AscendingNumbers
  <2> QED BY <1>3, <2>1
<1> HIDE DEF mad
<1>8. Ascending(dev)[k] < far
  BY <1>2, <1>4, <1>5, <1>6, <1>7
<1> DEFINE U == { i \in 1 .. n : dev[i] <= Ascending(dev)[k] }
<1>9. U \subseteq nearer /\ nearer \subseteq 1 .. n
  BY <1>3, <1>4, <1>7, <1>8
<1> HIDE DEF nearer
<1>10. IsFiniteSet(1 .. n)
  BY FS_Interval
<1>11. IsFiniteSet(nearer) /\ IsFiniteSet(U)
  <2> HIDE DEF U
  <2>1. IsFiniteSet(nearer)
    BY <1>9, <1>10, FS_Subset
  <2> QED BY <1>9, <2>1, FS_Subset
<1>12. Cardinality(U) <= Cardinality(nearer) /\ Cardinality(U) \in Nat /\ Cardinality(nearer) \in Nat
  <2> HIDE DEF U
  <2> QED BY <1>9, <1>11, FS_Subset, FS_CardinalityType
<1>13. 2 * Cardinality(nearer) >= n
  <2>1. Cardinality(U) >= k
    BY <1>7
  <2> HIDE DEF U
  <2> QED BY <1>6, <1>12, <2>1
<1>14. { i \in DOMAIN s : Deviation(s, s[i]) < Deviation(s, Farthest(s)) } = nearer
  BY <1>1 DEF nearer, dev, far
<1> QED BY <1>1, <1>13, <1>14

(* Durations of an endpoint are numbers.                                         *)
LEMMA DurationsAreNumbers ==
  ASSUME NEW list, IsTraffic(list), NEW key
  PROVE  \E n \in Nat : DurationsOf(Of(list, key)) \in [1 .. n -> Int]
<1> DEFINE bucket == Of(list, key)
           S == { i \in DOMAIN list : keyOf(list[i]) = key }
           m == Cardinality(S)
           M == Measured(bucket)
           n == Cardinality(M)
           column == Column(bucket, LAMBDA e : e.durationMs)
<1>1. Len(list) \in Nat /\ DOMAIN list = 1 .. Len(list)
  BY DEF IsTraffic
<1>2. S \in SUBSET (1 .. Len(list))
  BY <1>1
<1>3. bucket = Kept(list, S)
  BY DEF Of
<1>4. /\ m \in Nat /\ DOMAIN bucket = 1 .. m
      /\ \A k \in 1 .. m : bucket[k] = list[Kth(S, k)]
      /\ Picks([k \in 1 .. m |-> Kth(S, k)], S)
  <2> HIDE DEF S, bucket
  <2> QED BY <1>1, <1>2, <1>3, KeptList, KthIsRanked
<1>5. \A k \in 1 .. m : bucket[k].durationMs \in Int
  <2>1. \A k \in 1 .. m : Kth(S, k) \in S
    <3> HIDE DEF S
    <3> QED BY <1>4 DEF Picks
  <2> HIDE DEF S, bucket
  <2> QED BY <1>2, <1>4, <2>1 DEF IsTraffic
<1>6. column = [k \in 1 .. m |-> bucket[k].durationMs]
  <2> HIDE DEF S, bucket
  <2> QED BY <1>4 DEF Column
<1>7. M \in SUBSET (1 .. m)
  <2> HIDE DEF S, bucket
  <2> QED BY <1>4 DEF Measured
<1>8. DurationsOf(bucket) = Kept(column, M)
  BY DEF DurationsOf
<1>9. /\ n \in Nat
      /\ \A k \in 1 .. n : Kth(M, k) \in M
  <2> HIDE DEF S, M, bucket
  <2>1. n \in Nat /\ Picks([k \in 1 .. n |-> Kth(M, k)], M)
    BY <1>4, <1>7, KthIsRanked
  <2> QED BY <2>1 DEF Picks
<1>10. Kept(column, M) = [k \in 1 .. n |-> column[Kth(M, k)]]
  BY DEF Kept
<1>11. Kept(column, M) \in [1 .. n -> Int]
  <2> HIDE DEF S, M, bucket, column
  <2>1. \A k \in 1 .. n : column[Kth(M, k)] \in Int
    BY <1>5, <1>6, <1>7, <1>9
  <2> QED BY <1>10, <2>1
<1> QED BY <1>8, <1>9, <1>11

(* What is reported as an outlier is one.                                        *)
LEMMA ReportedOutliers ==
  ASSUME NEW list, NEW key \in EndpointsOf(detectAnomalies(list), "latency-outlier")
  PROVE  IsOutlier(DurationsOf(Of(list, key)), latencyFloorMs)
<1>1. PICK f \in detectAnomalies(list) : f.kind = "latency-outlier" /\ f.endpoint = key
  BY DEF EndpointsOf
<1>2. PICK k \in Endpoints(list) :
        \/ f \in ErrorRateFindings(Of(list, k), k)
        \/ /\ IsOutlier(DurationsOf(Of(list, k)), latencyFloorMs)
           /\ f = Finding("latency-outlier", "warning", k)
        \/ f = Finding("payload-outlier", "info", k)
  BY <1>1 DEF detectAnomalies
<1>3. f \notin ErrorRateFindings(Of(list, k), k)
  BY <1>1 DEF ErrorRateFindings, Finding
<1>4. f # Finding("payload-outlier", "info", k)
  BY <1>1 DEF Finding
<1>5. Finding("latency-outlier", "warning", k).endpoint = k
  BY DEF Finding
<1> QED BY <1>1, <1>2, <1>3, <1>4, <1>5

-------------------------------------------------------------------------------
(* The inputs that can be built.                                                 *)

IsListedRule(r, i) == \E e \in Rules : r = [e EXCEPT !.id = i]

(* A list of rules holds each at the place that is its id, traffic has numbers,  *)
(* and a text is a list of lines.                                                *)
InputInv ==
  /\ topic = "rules" => /\ Len(left) \in Nat
                        /\ left = [i \in 1 .. Len(left) |-> left[i]]
                        /\ \A i \in 1 .. Len(left) : IsListedRule(left[i], i)
  /\ topic = "traffic" => IsTraffic(left)
  /\ topic = "texts" => left \in Seq(Lines) /\ right \in Seq(Lines)

(* A rule is added at the place of its id.                                       *)
LEMMA AddRuleKeepsInputs ==
  ASSUME InputInv, AddRule
  PROVE  InputInv'
<1>1. PICK e \in Rules : left' = Append(left, [e EXCEPT !.id = Len(left) + 1])
  BY DEF AddRule, Extend, Numbered
<1>2. topic = "rules" /\ topic' = "rules"
  BY DEF AddRule, Extend
<1>3. PICK S, r : /\ r = [e EXCEPT !.id = Len(left) + 1]
                  /\ S = { left[i] : i \in 1 .. Len(left) } \cup {r}
  OBVIOUS
<1>4. left \in Seq(S) /\ r \in S
  BY <1>2, <1>3 DEF InputInv
<1>5. /\ Len(left') = Len(left) + 1 /\ left' \in Seq(S)
      /\ left'[Len(left) + 1] = r
      /\ \A i \in 1 .. Len(left) : left'[i] = left[i]
  BY <1>1, <1>3, <1>4
<1>6. IsListedRule(r, Len(left) + 1)
  BY <1>3 DEF IsListedRule
<1>7. \A i \in 1 .. Len(left') : IsListedRule(left'[i], i)
  BY <1>2, <1>5, <1>6 DEF InputInv
<1>8. Len(left') \in Nat /\ left' = [i \in 1 .. Len(left') |-> left'[i]]
  BY <1>5
<1> QED BY <1>2, <1>7, <1>8 DEF InputInv, IsListedRule

(* A request is captured with its numbers.                                       *)
LEMMA CaptureKeepsInputs ==
  ASSUME InputInv, Capture
  PROVE  InputInv'
<1>1. PICK e \in Entries : left' = Append(left, [e EXCEPT !.id = Len(left) + 1])
  BY DEF Capture, Extend, Numbered
<1>2. topic = "traffic" /\ topic' = "traffic"
  BY DEF Capture, Extend
<1>3. PICK S, r : /\ r = [e EXCEPT !.id = Len(left) + 1]
                  /\ S = { left[i] : i \in 1 .. Len(left) } \cup {r}
  OBVIOUS
<1>4. left \in Seq(S) /\ r \in S
  BY <1>2, <1>3 DEF InputInv, IsTraffic
<1>5. /\ Len(left') = Len(left) + 1 /\ left' \in Seq(S)
      /\ left'[Len(left) + 1] = r
      /\ \A i \in 1 .. Len(left) : left'[i] = left[i]
  BY <1>1, <1>3, <1>4
<1>6. r.durationMs \in Int /\ r.bytes \in Int
  <2>1. r.durationMs = e.durationMs /\ r.bytes = e.bytes
    BY <1>3, EntriesAssumption
  <2> QED BY <2>1, EntriesAssumption
<1>7. \A i \in 1 .. Len(left') : left'[i].durationMs \in Int /\ left'[i].bytes \in Int
  BY <1>2, <1>5, <1>6 DEF InputInv, IsTraffic
<1>8. Len(left') \in Nat /\ left' = [i \in 1 .. Len(left') |-> left'[i]]
  BY <1>5
<1> QED BY <1>2, <1>7, <1>8 DEF InputInv, IsTraffic

LEMMA InputInvAlways == InputSpec => []InputInv
<1>1. InputInit => InputInv
  <2> SUFFICES ASSUME InputInit PROVE InputInv
    OBVIOUS
  <2>1. left = <<>> /\ right = <<>>
    BY DEF InputInit
  <2>2. left \in Seq({}) /\ Len(left) = 0 /\ DOMAIN left = 1 .. Len(left)
    BY <2>1
  <2>3. left = [i \in 1 .. Len(left) |-> left[i]]
    <3>1. left = [i \in DOMAIN left |-> left[i]]
      BY <2>2
    <3> QED BY <2>2, <3>1
  <2> QED BY <2>1, <2>2, <2>3 DEF InputInv, IsTraffic
<1>2. InputInv /\ [InputNext]_inputVars => InputInv'
  <2> SUFFICES ASSUME InputInv, [InputNext]_inputVars PROVE InputInv'
    OBVIOUS
  <2>1. CASE AddRule
    BY <2>1, AddRuleKeepsInputs
  <2>2. CASE ObserveSample \/ ObserveBaseline \/ ObserveSession \/ ChangeField
    BY <2>2 DEF InputInv, ObserveSample, ObserveBaseline, ObserveSession, ChangeField,
                Extend, ExtendRight
  <2>3. CASE TypeLeft
    BY <2>3 DEF InputInv, TypeLeft, Extend
  <2>4. CASE TypeRight
    BY <2>4 DEF InputInv, TypeRight, ExtendRight
  <2>5. CASE UNCHANGED inputVars
    BY <2>5 DEF inputVars, InputInv, IsListedRule, IsTraffic
  <2>6. CASE Capture
    BY <2>6, CaptureKeepsInputs
  <2> QED BY <2>1, <2>2, <2>3, <2>4, <2>5, <2>6 DEF InputNext
<1> QED BY <1>1, <1>2, PTL DEF InputSpec

-------------------------------------------------------------------------------
(* Shadowed rules.                                                               *)

(* What the assumption on the rules says of those of the list.                   *)
LEMMA ListedRules ==
  ASSUME InputInv, topic = "rules"
  PROVE  /\ Orderable(left)
         /\ DOMAIN left = 1 .. Len(left) /\ Len(left) \in Nat
         /\ \A i \in 1 .. Len(left) :
               /\ left[i].id = i /\ left[i].priority \in Int
               /\ left[i].url \in { e.url : e \in Rules }
               /\ left[i].method # AnyMethod =>
                     left[i].method \in Methods /\ Upper[left[i].method] = left[i].method
<1>1. ASSUME NEW i \in 1 .. Len(left)
      PROVE  /\ left[i].id = i /\ left[i].priority \in Int /\ left[i].createdAt \in Int
             /\ left[i].url \in { e.url : e \in Rules }
             /\ left[i].method # AnyMethod =>
                   left[i].method \in Methods /\ Upper[left[i].method] = left[i].method
  <2>1. PICK e \in Rules : left[i] = [e EXCEPT !.id = i]
    BY DEF InputInv, IsListedRule
  <2>2. /\ left[i].id = i /\ left[i].priority = e.priority /\ left[i].createdAt = e.createdAt
        /\ left[i].url = e.url /\ left[i].method = e.method
    BY <2>1, RulesAssumption
  <2> QED BY <2>2, RulesAssumption
<1>2. Len(left) \in Nat /\ DOMAIN left = 1 .. Len(left)
  BY DEF InputInv
<1>3. left \in Seq(RangeOf(left))
  BY <1>2 DEF InputInv, RangeOf
<1>4. Orderable(left)
  BY <1>1, <1>2, <1>3 DEF Orderable, IsSequence, RangeOf
<1> QED BY <1>1, <1>2, <1>4

(* The rule at i comes before the one at j and matches all that one matches.     *)
LEMMA WhatPrecedesCovers ==
  ASSUME InputInv, topic = "rules", NEW i \in 1 .. Len(left), NEW j \in 1 .. Len(left),
         left[j].enabled, AlwaysBefore(left[i], left[j], left)
  PROVE  /\ left[i].priority <= left[j].priority
         /\ conditionsOverlap(left[i], left[j]) /\ conditionsOverlap(left[j], left[i])
<1> DEFINE t == left[i]
           r == left[j]
<1>1. PICK q \in Requests : /\ q.url = r.url
                            /\ r.method # AnyMethod => q.method = r.method
  <2>1. PICK m \in Methods : r.method # AnyMethod => m = r.method
    BY ListedRules, RulesAssumption
  <2>2. [method |-> m, url |-> r.url] \in Requests
    BY ListedRules DEF Requests
  <2> QED BY <2>1, <2>2
<1>2. matchesCondition(r, q)
  BY <1>1 DEF matchesCondition, Includes
<1> DEFINE M == Entering(left, q)
           s == evaluateRules(left, q)
<1>3. j \in M /\ M \in SUBSET DOMAIN left
  BY <1>2, ListedRules DEF Entering
<1>4. /\ s = [p \in 1 .. Cardinality(M) |-> s[p]]
      /\ \A p \in 1 .. Cardinality(M) : \E k \in M : Place(left, M, k) = p /\ s[p] = left[k]
      /\ s[Place(left, M, j)] = r
  BY <1>3, ListedRules, EvaluatedInOrder
<1>5. Place(left, M, j) \in 1 .. Cardinality(M) /\ Cardinality(M) \in Nat
  BY <1>3, ListedRules, PlacesFollowTheOrder, FS_CardinalityType
<1>6. PICK p \in 1 .. (Place(left, M, j) - 1) : s[p] = t
  <2>1. DOMAIN s = 1 .. Cardinality(M)
    BY <1>4
  <2> HIDE DEF s, M
  <2> QED BY <1>4, <1>5, <2>1 DEF AlwaysBefore, s
<1>7. i \in M /\ Place(left, M, i) = p
  <2>1. p \in 1 .. Cardinality(M)
    <3> HIDE DEF M
    <3> QED BY <1>5
  <2>2. PICK k \in M : Place(left, M, k) = p /\ s[p] = left[k]
    <3> HIDE DEF M, s
    <3> QED BY <1>4, <2>1
  <2>3. k \in 1 .. Len(left) /\ left[k] = left[i]
    BY <1>3, <1>6, <2>2, ListedRules
  <2>4. k = i
    BY <2>3, ListedRules
  <2> QED BY <2>2, <2>4
<1>8. byPriorityThenCreatedAt(left, i, j)
  <2>1. Place(left, M, i) < Place(left, M, j)
    <3> HIDE DEF M
    <3> QED BY <1>5, <1>7
  <2>2. i # j
    BY <1>5, <2>1
  <2>3. ~byPriorityThenCreatedAt(left, j, i)
    <3>1. byPriorityThenCreatedAt(left, j, i) => Place(left, M, j) < Place(left, M, i)
      BY <1>3, <1>7, ListedRules, PlacesFollowTheOrder
    <3> HIDE DEF M
    <3> QED BY <1>5, <1>7, <2>1, <3>1
  <2> QED BY <2>2, <2>3, ListedRules, OrderIsTotal
<1>9. t.priority <= r.priority
  BY <1>8, ListedRules DEF byPriorityThenCreatedAt
<1>10. matchesCondition(t, q)
  BY <1>7 DEF Entering
<1>11. t.url \subseteq r.url
  BY <1>1, <1>10 DEF matchesCondition, Includes
<1>12. t.method # AnyMethod /\ r.method # AnyMethod => t.method = r.method
  BY <1>1, <1>10, ListedRules DEF matchesCondition
<1> QED BY <1>9, <1>11, <1>12 DEF conditionsOverlap, Includes

(* Of two overlapping rules the terminal one is reported when it is not behind.  *)
LEMMA TerminalIsReported ==
  ASSUME NEW a, NEW b, a.priority \in Int, b.priority \in Int, conditionsOverlap(a, b),
         \/ a.type \in TerminalTypes /\ a.priority <= b.priority
         \/ b.type \in TerminalTypes /\ b.priority <= a.priority
  PROVE  \E c \in ConflictsOf(a, b) : RangeOf(c.ruleIds) = {a.id, b.id}
<1>1. \A k, v : /\ RangeOf(Conflict(k, v, a, b).ruleIds) = {a.id, b.id}
                /\ RangeOf(Conflict(k, v, b, a).ruleIds) = {a.id, b.id}
  BY DEF Conflict, RangeOf
<1>2. CASE a.priority = b.priority
  <2>1. Conflict("priority-tie", "info", a, b) \in checkPriorityTie(a, b)
    BY <1>2 DEF checkPriorityTie
  <2>2. checkPriorityTie(a, b) \subseteq ConflictsOf(a, b)
    BY DEF ConflictsOf
  <2> QED BY <1>1, <2>1, <2>2
<1>3. CASE a.priority # b.priority
  <2>1. \/ a.type \in TerminalTypes /\ a.priority < b.priority
        \/ b.type \in TerminalTypes /\ b.priority < a.priority
    BY <1>3
  <2>2. \/ Conflict("terminal-unreachable", "error", a, b) \in checkTerminalConflict(a, b)
        \/ Conflict("terminal-unreachable", "error", b, a) \in checkTerminalConflict(a, b)
    BY <2>1 DEF checkTerminalConflict, FirstOf
  <2>3. checkTerminalConflict(a, b) \subseteq ConflictsOf(a, b)
    BY DEF ConflictsOf
  <2> QED BY <1>1, <2>2, <2>3
<1> QED BY <1>2, <1>3

LEMMA ShadowedAreReported ==
  ASSUME InputInv
  PROVE  ShadowedRulesAreReported
<1> SUFFICES ASSUME topic = "rules",
                    NEW t \in RangeOf(left), NEW r \in RangeOf(left), t # r,
                    t.enabled, r.enabled, t.type \in TerminalTypes, AlwaysBefore(t, r, left)
             PROVE  \E c \in detectConflicts(left).conflicts : RangeOf(c.ruleIds) = {t.id, r.id}
  BY DEF ShadowedRulesAreReported
<1>1. PICK i \in 1 .. Len(left), j \in 1 .. Len(left) : t = left[i] /\ r = left[j]
  BY ListedRules DEF RangeOf
<1>2. /\ t.priority \in Int /\ r.priority \in Int /\ t.priority <= r.priority
      /\ conditionsOverlap(t, r) /\ conditionsOverlap(r, t)
  BY <1>1, WhatPrecedesCovers, ListedRules
<1>3. /\ \E c \in ConflictsOf(t, r) : RangeOf(c.ruleIds) = {t.id, r.id}
      /\ \E c \in ConflictsOf(r, t) : RangeOf(c.ruleIds) = {t.id, r.id}
  <2>1. \E c \in ConflictsOf(t, r) : RangeOf(c.ruleIds) = {t.id, r.id}
    BY <1>2, TerminalIsReported
  <2>2. \E c \in ConflictsOf(r, t) : RangeOf(c.ruleIds) = {r.id, t.id}
    BY <1>2, TerminalIsReported
  <2> QED BY <2>1, <2>2
<1>4. \A k, l \in 1 .. Len(left) : k < l /\ left[k].enabled /\ left[l].enabled =>
         ConflictsOf(left[k], left[l]) \subseteq detectConflicts(left).conflicts
  <2>1. SUFFICES ASSUME NEW k \in 1 .. Len(left), NEW l \in 1 .. Len(left), k < l,
                        left[k].enabled, left[l].enabled,
                        NEW c \in ConflictsOf(left[k], left[l])
                 PROVE  c \in detectConflicts(left).conflicts
    OBVIOUS
  <2>2. PICK p : p = <<k, l>>
    OBVIOUS
  <2>3. /\ p \in (DOMAIN left) \X (DOMAIN left)
        /\ p[1] < p[2] /\ left[p[1]].enabled /\ left[p[2]].enabled
        /\ c \in ConflictsOf(left[p[1]], left[p[2]])
    BY <2>1, <2>2, ListedRules
  <2> QED BY <2>3 DEF detectConflicts
<1>5. i < j \/ j < i
  BY <1>1
<1> QED BY <1>1, <1>3, <1>4, <1>5

(* However many rules there are, and whatever they match: a rule that a block or *)
(* a redirect precedes on every request it matches is reported together with it, *)
(* as detectConflicts compares all pairs by priority and by condition.           *)
THEOREM ShadowedRulesAreAlwaysReported == InputSpec => []ShadowedRulesAreReported
BY InputInvAlways, ShadowedAreReported, PTL

(* The rows that diffText returns for two texts, however long, show every line   *)
(* of both once and in order, pair equal lines only, and tell texts that are the *)
(* same from texts that are not.                                                 *)
THEOREM DiffsAlwaysRebuildBothTexts == InputSpec => []DiffRebuildsBothTexts
<1>1. InputInv => DiffRebuildsBothTexts
  <2> SUFFICES ASSUME InputInv, topic = "texts" PROVE DiffRebuildsBothTexts
    BY DEF DiffRebuildsBothTexts
  <2>1. left \in Seq(Lines) /\ right \in Seq(Lines)
    BY DEF InputInv
  <2> QED BY <2>1, DiffRebuilds DEF DiffRebuildsBothTexts
<1> QED BY <1>1, InputInvAlways, PTL

(* However much traffic there is, and whatever its times, sizes and statuses:    *)
(* profileBandwidth loses no request and no byte, the 90th percentile of         *)
(* detectBottlenecks is one, the slowest request is a bottleneck if any is, and  *)
(* what detectAnomalies calls a latency outlier lies farther from the median     *)
(* than half of its endpoint's times.                                            *)
THEOREM TrafficReportsAlwaysAddUp == InputSpec => []TrafficReportsAddUp
<1>1. InputInv => TrafficReportsAddUp
  <2> SUFFICES ASSUME InputInv, topic = "traffic" PROVE TrafficReportsAddUp
    BY DEF TrafficReportsAddUp
  <2>1. IsTraffic(left)
    BY DEF InputInv
  <2>2. ASSUME NEW key \in EndpointsOf(detectAnomalies(left), "latency-outlier")
        PROVE  LET ms == DurationsOf(Of(left, key))
                   nearer == { i \in DOMAIN ms : Deviation(ms, ms[i]) < Deviation(ms, Farthest(ms)) }
               IN  2 * Cardinality(nearer) >= Len(ms)
    <3>1. PICK n \in Nat : DurationsOf(Of(left, key)) \in [1 .. n -> Int]
      BY <2>1, DurationsAreNumbers
    <3>2. IsOutlier(DurationsOf(Of(left, key)), latencyFloorMs)
      BY ReportedOutliers
    <3> QED BY <3>1, <3>2, OutliersLieFarther
  <2> QED BY <2>1, <2>2, BandwidthAddsUp, BottlenecksAddUp, Zenon DEF TrafficReportsAddUp
<1> QED BY <1>1, InputInvAlways, PTL

(* Field by field, a guard of the side panel asks no less than the others do.    *)
LEMMA ListedAreApplied ==
  ASSUME NEW value
  PROVE  /\ Accepts(isStoredRule, value) => Accepts(isRule, value) /\ Accepts(isContentRule, value)
         /\ Accepts(isStoredConditionalMock, value) => Accepts(isContentConditionalMock, value)
         /\ Accepts(isStoredRuleGroup, value) <=> Accepts(isRuleGroup, value)
         /\ Accepts(isStoredMockEnvVar, value) <=> Accepts(isContentMockEnvVar, value)
<1>1. isObject \subseteq AnyObject /\ Sound \subseteq Arrays
  BY DEF isObject, AnyObject, Sound, Arrays
<1>2. Accepts(isStoredRule, value) => Accepts(isRule, value) /\ Accepts(isContentRule, value)
  BY <1>1 DEF Accepts, isStoredRule, isRule, isContentRule
<1>3. Accepts(isStoredConditionalMock, value) => Accepts(isContentConditionalMock, value)
  BY <1>1 DEF Accepts, isStoredConditionalMock, isContentConditionalMock
<1>4. Accepts(isStoredRuleGroup, value) <=> Accepts(isRuleGroup, value)
  BY DEF Accepts, isStoredRuleGroup, isRuleGroup
<1>5. Accepts(isStoredMockEnvVar, value) <=> Accepts(isContentMockEnvVar, value)
  BY DEF Accepts, isStoredMockEnvVar, isContentMockEnvVar
<1> QED BY <1>2, <1>3, <1>4, <1>5

(* A stored value that the side panel lists, whatever its fields are, passes the *)
(* guards of the background worker and of the content script that apply it.      *)
THEOREM ListedValuesAreAlwaysApplied == InputSpec => []ListedValuesAreApplied
<1>1. ListedValuesAreApplied
  BY ListedAreApplied DEF ListedValuesAreApplied
<1> QED BY <1>1, PTL
===============================================================================
