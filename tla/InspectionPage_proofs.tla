------------------------ MODULE InspectionPage_proofs ------------------------
(***************************************************************************)
(* Proofs about the capture store and the page that watches it, for every   *)
(* MaxItems > 0, any set of exchanges and any number of fetches and         *)
(* records.                                                                 *)
(*                                                                          *)
(* The store: TypeOK /\ RetainsNewest is inductive; the action property     *)
(* and the refinement of CaptureLog follow from it, because consecutive IDs *)
(* make a position in the slice and an ID the same thing.                   *)
(*                                                                          *)
(* The page: log is its yardstick: an ID is a position of log for good, so  *)
(* what a reply says stays true however late it arrives.                    *)
(***************************************************************************)
EXTENDS InspectionPage, FiniteSetTheorems, TLAPS

-----------------------------------------------------------------------------
(* CaptureStore.                                                            *)

IInv == TypeOK /\ RetainsNewest

(* What the cap leaves of a slice: its newest MaxItems entries, in order. *)
LEMMA DropOldestKeepsTheNewest ==
  ASSUME NEW S, NEW rs \in Seq(S)
  PROVE  LET kept == DropOldest(rs) IN
         /\ kept \in Seq(S)
         /\ Len(kept) = IF Len(rs) > MaxItems THEN MaxItems ELSE Len(rs)
         /\ \A i \in 1 .. Len(kept) : kept[i] = rs[i + Len(rs) - Len(kept)]
<1>1. CASE Len(rs) > MaxItems
  <2> DEFINE kept == SubSeq(rs, Len(rs) - MaxItems + 1, Len(rs))
  <2>1. DropOldest(rs) = kept
    BY <1>1, MaxItemsAssumption DEF DropOldest
  <2>2. kept \in Seq(S) /\ Len(kept) = MaxItems
    BY <1>1, MaxItemsAssumption
  <2>3. ASSUME NEW i \in 1 .. MaxItems PROVE kept[i] = rs[i + Len(rs) - MaxItems]
    <3>1. PICK m : m = Len(rs) - MaxItems + 1 /\ m \in 1 .. Len(rs)
      BY <1>1, MaxItemsAssumption
    <3>2. SubSeq(rs, m, Len(rs))[i] = rs[i + m - 1]
      BY <1>1, <3>1, MaxItemsAssumption
    <3>3. i + m - 1 = i + Len(rs) - MaxItems
      BY <3>1, MaxItemsAssumption
    <3> QED BY <3>1, <3>2, <3>3
  <2> HIDE DEF kept
  <2> QED BY <1>1, <2>1, <2>2, <2>3
<1>2. CASE ~(Len(rs) > MaxItems)
  <2>1. DropOldest(rs) = rs
    BY <1>2, MaxItemsAssumption DEF DropOldest
  <2> QED BY <1>2, <2>1
<1> QED BY <1>1, <1>2

(* The records after an Observe, position by position. *)
LEMMA ObserveAppends ==
  ASSUME IInv, NEW e \in Exchanges, Observe(e)
  PROVE  /\ records' \in Seq(Record)
         /\ nextID' = nextID + 1
         /\ Len(records') = IF Len(records) = MaxItems
                            THEN MaxItems ELSE Len(records) + 1
         /\ records'[Len(records')] = [id |-> nextID', exchange |-> e]
         /\ \A i \in 1 .. Len(records') - 1 :
              records'[i] = records[i + Len(records) + 1 - Len(records')]
<1> DEFINE rec == [id |-> nextID + 1, exchange |-> e]
           rs == Append(records, rec)
<1>1. rs \in Seq(Record) /\ Len(rs) = Len(records) + 1
  BY DEF IInv, TypeOK, Record
<1>2. records' = DropOldest(rs) /\ nextID' = nextID + 1
  BY DEF Observe
<1>3. Len(records) <= MaxItems
  BY DEF IInv, RetainsNewest
<1>4. /\ rs[Len(rs)] = rec
      /\ \A i \in 1 .. Len(records) : rs[i] = records[i]
  BY <1>1 DEF IInv, TypeOK
<1> HIDE DEF rs
<1>5. /\ records' \in Seq(Record)
      /\ Len(records') = IF Len(rs) > MaxItems THEN MaxItems ELSE Len(rs)
      /\ \A i \in 1 .. Len(records') : records'[i] = rs[i + Len(rs) - Len(records')]
  BY <1>1, <1>2, DropOldestKeepsTheNewest
<1>6. Len(records) \in Nat
  BY DEF IInv, TypeOK
<1>7. Len(records') = IF Len(records) = MaxItems THEN MaxItems ELSE Len(records) + 1
  BY <1>1, <1>3, <1>5, <1>6, MaxItemsAssumption
<1>8. Len(records') \in 1 .. Len(rs)
  BY <1>1, <1>6, <1>7, MaxItemsAssumption
<1>9. records'[Len(records')] = rs[Len(rs)]
  BY <1>1, <1>5, <1>6, <1>8
<1>10. ASSUME NEW i \in 1 .. Len(records') - 1
       PROVE  records'[i] = records[i + Len(records) + 1 - Len(records')]
  <2>1. i + Len(rs) - Len(records') \in 1 .. Len(records)
    BY <1>1, <1>6, <1>8
  <2> QED BY <1>1, <1>4, <1>5, <1>6, <1>8, <2>1
<1> QED BY <1>2, <1>4, <1>5, <1>7, <1>9, <1>10

(* TypeOK and RetainsNewest together are inductive. *)
LEMMA IInvIsInductive ==
  /\ Init => IInv
  /\ IInv /\ [Next]_storeVars => IInv'
<1>1. Init => IInv
  BY MaxItemsAssumption DEF Init, IInv, TypeOK, RetainsNewest, Record
<1>2. ASSUME IInv, NEW e \in Exchanges, Observe(e)
      PROVE  IInv'
  <2>0. /\ records \in Seq(Record) /\ nextID \in Nat
        /\ Len(records) <= MaxItems /\ Len(records) <= nextID
        /\ \A i \in 1 .. Len(records) : records[i].id = nextID - Len(records) + i
    BY <1>2 DEF IInv, TypeOK, RetainsNewest
  <2>a. /\ records' \in Seq(Record)
        /\ nextID' = nextID + 1
        /\ Len(records') = IF Len(records) = MaxItems
                           THEN MaxItems ELSE Len(records) + 1
        /\ records'[Len(records')] = [id |-> nextID', exchange |-> e]
        /\ \A i \in 1 .. Len(records') - 1 :
             records'[i] = records[i + Len(records) + 1 - Len(records')]
    BY <1>2, ObserveAppends
  <2>b. Len(records) \in Nat /\ Len(records') \in Nat
    BY <2>0, <2>a
  <2>1. TypeOK'
    BY <2>0, <2>a DEF TypeOK
  <2>2. Len(records') <= MaxItems /\ Len(records') <= nextID'
    BY <2>0, <2>a, MaxItemsAssumption
  <2>3. ASSUME NEW i \in 1 .. Len(records')
        PROVE  records'[i].id = nextID' - Len(records') + i
    <3>1. CASE i = Len(records')
      BY <2>0, <2>a, <3>1
    <3>2. CASE i # Len(records')
      <4> DEFINE j == i + Len(records) + 1 - Len(records')
      <4>0. i \in 1 .. Len(records') - 1
        BY <2>b, <3>2
      <4>b. Len(records') <= Len(records) + 1
        BY <2>a, <2>b
      <4>c. j \in 1 .. Len(records)
        BY <2>b, <4>b, <4>0
      <4>1. j \in 1 .. Len(records) /\ records'[i] = records[j]
        BY <2>a, <4>0, <4>c
      <4>2. records[j].id = nextID - Len(records) + j
        BY <2>0, <4>1
      <4>3. records'[i].id = nextID - Len(records) + (i + Len(records) + 1 - Len(records'))
        BY <4>1, <4>2
      <4> QED BY <2>0, <2>a, <2>b, <4>0, <4>3
    <3> QED BY <3>1, <3>2
  <2>4. DOMAIN records' = 1 .. Len(records')
    BY <2>1 DEF TypeOK
  <2> QED BY <2>1, <2>2, <2>3, <2>4 DEF IInv, RetainsNewest
<1>3. ASSUME IInv, Clear
      PROVE  IInv'
  BY <1>3, MaxItemsAssumption DEF Clear, IInv, TypeOK, RetainsNewest, Record
<1>4. ASSUME IInv, UNCHANGED storeVars
      PROVE  IInv'
  BY <1>4 DEF storeVars, IInv, TypeOK, RetainsNewest
<1> QED BY <1>1, <1>2, <1>3, <1>4 DEF Next

(* records stays a sequence of records and nextID a number. *)
THEOREM TypeCorrect == Spec => []TypeOK
<1>1. IInv => TypeOK
  BY DEF IInv
<1> QED BY IInvIsInductive, <1>1, PTL DEF Spec

(* The store always holds consecutive newest IDs within its cap. *)
THEOREM NewestRetained == Spec => []RetainsNewest
<1>1. IInv => RetainsNewest
  BY DEF IInv
<1> QED BY IInvIsInductive, <1>1, PTL DEF Spec

-----------------------------------------------------------------------------

(* An ID that is in the slice is there once. *)
LEMMA GetFindsTheRecord ==
  ASSUME IInv, NEW j \in 1 .. Len(records)
  PROVE  Get(records[j].id) = {records[j]}
<1>1. /\ Len(records) \in Nat /\ nextID \in Nat /\ DOMAIN records = 1 .. Len(records)
      /\ \A k \in 1 .. Len(records) : records[k].id = nextID - Len(records) + k
  BY DEF IInv, TypeOK, RetainsNewest
<1>2. \A k \in 1 .. Len(records) : records[k].id = records[j].id => k = j
  BY <1>1
<1> QED BY <1>1, <1>2 DEF Get

(* IDs are handed out once: see IDsAreNeverReused. *)
THEOREM IDsNeverReused == Spec => IDsAreNeverReused
<1> DEFINE A == /\ nextID' >= nextID
                /\ \A i \in DOMAIN records' :
                     records'[i].id <= nextID => Get(records'[i].id) = {records'[i]}
<1>1. ASSUME IInv, NEW e \in Exchanges, Observe(e)
      PROVE  A
  <2>1. /\ records' \in Seq(Record)
        /\ nextID' = nextID + 1
        /\ Len(records') = IF Len(records) = MaxItems
                           THEN MaxItems ELSE Len(records) + 1
        /\ records'[Len(records')] = [id |-> nextID', exchange |-> e]
        /\ \A i \in 1 .. Len(records') - 1 :
             records'[i] = records[i + Len(records) + 1 - Len(records')]
    BY <1>1, ObserveAppends
  <2>2. /\ Len(records) \in Nat /\ Len(records') \in Nat /\ nextID \in Nat
        /\ DOMAIN records' = 1 .. Len(records')
        /\ Len(records) <= MaxItems
    BY <1>1, <2>1 DEF IInv, TypeOK, RetainsNewest
  <2>3. ASSUME NEW i \in 1 .. Len(records'), records'[i].id <= nextID
        PROVE  Get(records'[i].id) = {records'[i]}
    <3>1. i # Len(records')
      BY <2>1, <2>2, <2>3
    <3> DEFINE j == i + Len(records) + 1 - Len(records')
    <3>0. Len(records') \in Nat
      BY <2>2
    <3>2. i \in 1 .. Len(records') - 1
      BY <3>0, <3>1
    <3>3. Len(records') <= Len(records) + 1
      BY <2>1, <2>2
    <3>4. j \in 1 .. Len(records)
      BY <2>2, <3>2, <3>3
    <3>5. records'[i] = records[j]
      BY <2>1, <3>2
    <3> HIDE DEF j
    <3> QED BY <1>1, <3>4, <3>5, GetFindsTheRecord
  <2>4. nextID' >= nextID
    BY <2>1, <2>2
  <2>5. DOMAIN records' = 1 .. Len(records')
    BY <2>2
  <2>6. \A i \in 1 .. Len(records') :
          records'[i].id <= nextID => Get(records'[i].id) = {records'[i]}
    BY <2>3
  <2> QED BY <2>4, <2>5, <2>6
<1>2. ASSUME IInv, Clear
      PROVE  A
  BY <1>2 DEF Clear, IInv, TypeOK
<1>3. IInv /\ [Next]_storeVars => [A]_storeVars
  BY <1>1, <1>2 DEF Next
<1> QED BY IInvIsInductive, <1>3, PTL DEF Spec, IDsAreNeverReused

(* The bounded slice implements the log: dropping from the front of the     *)
(* slice drops exactly the IDs CaptureLog forgets.                          *)
THEOREM StoreImplementsLog == Spec => ImplementsCaptureLog
<1> DEFINE held == {records[i] : i \in DOMAIN records}
<1>1. Init => Log!Init
  BY DEF Init, Log!Init
<1>2. ASSUME IInv, IInv', NEW e \in Exchanges, Observe(e)
      PROVE  Log!Observe(e)
  <2> DEFINE new == [id |-> nextID + 1, exchange |-> e]
             kept == {r \in held \cup {new} : r.id > nextID + 1 - MaxItems}
             K == Len(records')
             L == Len(records)
  <2>1. /\ nextID' = nextID + 1
        /\ K = IF L = MaxItems THEN MaxItems ELSE L + 1
        /\ records'[K] = new
        /\ \A i \in 1 .. K - 1 : records'[i] = records[i + L + 1 - K]
    BY <1>2, ObserveAppends
  <2>2. /\ L \in Nat /\ K \in Nat /\ nextID \in Nat
        /\ DOMAIN records = 1 .. L /\ DOMAIN records' = 1 .. K
        /\ L <= MaxItems /\ K <= MaxItems
        /\ \A i \in 1 .. L : records[i].id = nextID - L + i
        /\ \A i \in 1 .. K : records'[i].id = nextID + 1 - K + i
    <3>1. /\ records \in Seq(Record) /\ nextID \in Nat /\ L <= MaxItems
          /\ \A i \in DOMAIN records : records[i].id = nextID - L + i
      BY <1>2 DEF IInv, TypeOK, RetainsNewest
    <3>2. /\ records' \in Seq(Record) /\ K <= MaxItems
          /\ \A i \in DOMAIN records' : records'[i].id = nextID' - K + i
      BY <1>2 DEF IInv, TypeOK, RetainsNewest
    <3>3. /\ L \in Nat /\ DOMAIN records = 1 .. L
          /\ K \in Nat /\ DOMAIN records' = 1 .. K
      BY <3>1, <3>2
    <3> HIDE DEF K, L
    <3>4. nextID' = nextID + 1
      BY <2>1
    <3>5. ASSUME NEW i \in 1 .. K
          PROVE  records'[i].id = nextID + 1 - K + i
      BY <3>1, <3>2, <3>3, <3>4
    <3> QED BY <3>1, <3>2, <3>3, <3>5
  <2> HIDE DEF K, L
  <2>3. ASSUME NEW i \in 1 .. K
        PROVE  records'[i] \in kept
    <3>1. records'[i].id > nextID + 1 - MaxItems
      BY <2>2, MaxItemsAssumption
    <3>2. records'[i] \in held \cup {new}
      <4>1. CASE i = K
        BY <2>1, <4>1
      <4>2. CASE i # K
        <5>1. i \in 1 .. K - 1 /\ K <= L + 1
          BY <2>1, <2>2, <4>2
        <5>2. i + L + 1 - K \in 1 .. L
          BY <2>2, <5>1
        <5> QED BY <2>1, <2>2, <5>1, <5>2
      <4> QED BY <4>1, <4>2
    <3> QED BY <3>1, <3>2
  <2>4. ASSUME NEW r \in kept
        PROVE  \E i \in 1 .. K : r = records'[i]
    <3>1. CASE r = new
      <4>1. K \in 1 .. K
        BY <2>1, <2>2, MaxItemsAssumption
      <4> QED BY <2>1, <3>1, <4>1
    <3>2. CASE r # new
      <4>1. PICK j \in 1 .. L : r = records[j]
        BY <2>2, <3>2
      <4>2. nextID - L + j > nextID + 1 - MaxItems
        BY <2>2, <4>1
      <4> DEFINE i == j - (L + 1 - K)
      <4>3. i \in 1 .. K - 1
        BY <2>1, <2>2, <4>2, MaxItemsAssumption
      <4>4. i + L + 1 - K = j
        BY <2>2
      <4>5. records'[i] = records[j]
        BY <2>1, <4>3, <4>4
      <4>6. i \in 1 .. K
        BY <2>2, <4>3
      <4> QED BY <4>1, <4>5, <4>6
    <3> QED BY <3>1, <3>2
  <2>5. held' = kept
    BY <2>2, <2>3, <2>4
  <2> QED BY <1>2, <2>1, <2>5 DEF Observe, Log!Observe
<1>3. ASSUME Clear
      PROVE  Log!Clear
  BY <1>3 DEF Clear, Log!Clear
<1>4. IInv /\ IInv' /\ [Next]_storeVars => [Log!Next]_<<held, nextID>>
  BY <1>2, <1>3 DEF Next, Log!Next, storeVars
<1> QED BY IInvIsInductive, <1>1, <1>4, PTL DEF Spec, ImplementsCaptureLog, Log!Spec
-----------------------------------------------------------------------------
(* InspectionPage.                                                          *)

Kinds == {"none", "list", "detail", "clear"}

Fetch == [kind : Kinds, at : {"page", "server", "reply"}, id : Nat,
          reply : Seq(Record)]

PageTypes ==
  /\ IInv
  /\ log \in Seq(Exchanges)
  /\ nextID = Len(log)
  /\ fetch \in [Fetches -> Fetch]
  /\ latest \in Seq(Record)
  /\ selectedId \in Nat
  /\ drawer \in Record \cup {NoRecord}

(* A record that tells what was observed under its ID.                      *)
Tells(l, r) == r.id \in 1 .. Len(l) /\ r.exchange = l[r.id]

AllTell(l, rows) == \A i \in 1 .. Len(rows) : Tells(l, rows[i])

NewestFirst(rows) ==
  \A i, j \in 1 .. Len(rows) : i < j => rows[i].id > rows[j].id

RecordsTell == AllTell(log, records)

RepliesTell == \A f \in Fetches : AllTell(log, fetch[f].reply)

ListsAreOrdered ==
  \A f \in Fetches : fetch[f].kind = "list" => NewestFirst(fetch[f].reply)

DetailsAreAskedFor ==
  \A f \in Fetches : fetch[f].kind = "detail" =>
    \A i \in 1 .. Len(fetch[f].reply) : fetch[f].reply[i].id = fetch[f].id

LatestTells == AllTell(log, latest) /\ NewestFirst(latest)

DrawerTells ==
  IF drawer = NoRecord
  THEN selectedId = 0
  ELSE drawer.id = selectedId /\ Tells(log, drawer)

PageInv ==
  /\ PageTypes /\ RecordsTell /\ RepliesTell /\ ListsAreOrdered
  /\ DetailsAreAskedFor /\ LatestTells /\ DrawerTells

-----------------------------------------------------------------------------

(* The sequence of a set of at most one element has that element, if any.   *)
LEMMA SequenceOfAtMostOne ==
  ASSUME NEW S, S = {} \/ \E x : S = {x}
  PROVE  SetToSeq(S) \in Seq(S) /\ Len(SetToSeq(S)) = Cardinality(S)
<1>1. \E f \in [1 .. Cardinality(S) -> S] : IsInjective(f)
  <2>1. CASE S = {}
    <3>1. Cardinality(S) = 0
      BY <2>1, FS_EmptySet
    <3>2. 1 .. 0 = {}
      OBVIOUS
    <3>3. [i \in {} |-> i] \in [{} -> S]
      OBVIOUS
    <3>4. IsInjective([i \in {} |-> i])
      BY DEF IsInjective
    <3> QED BY <3>1, <3>2, <3>3, <3>4
  <2>2. CASE \E x : S = {x}
    <3>1. PICK x : S = {x}
      BY <2>2
    <3>2. Cardinality(S) = 1
      BY <3>1, FS_Singleton
    <3>3. [i \in 1 .. 1 |-> x] \in [1 .. 1 -> S]
      BY <3>1
    <3>4. IsInjective([i \in 1 .. 1 |-> x])
      BY DEF IsInjective
    <3> QED BY <3>2, <3>3, <3>4
  <2> QED BY <2>1, <2>2
<1>2. SetToSeq(S) \in [1 .. Cardinality(S) -> S]
  BY <1>1 DEF SetToSeq
<1>3. Cardinality(S) \in Nat
  <2>1. CASE S = {}
    BY <2>1, FS_EmptySet
  <2>2. CASE \E x : S = {x}
    BY <2>2, FS_Singleton
  <2> QED BY <2>1, <2>2
<1> HIDE DEF SetToSeq
<1> QED BY <1>2, <1>3

(* An ID leads to one record or to none.                                    *)
LEMMA GetHasAtMostOne ==
  ASSUME IInv, NEW id
  PROVE  Get(id) = {} \/ \E x : Get(id) = {x}
<1>1. DOMAIN records = 1 .. Len(records)
  BY DEF IInv, TypeOK
<1>2. CASE \E j \in 1 .. Len(records) : records[j].id = id
  <2>1. PICK j \in 1 .. Len(records) : records[j].id = id
    BY <1>2
  <2>2. Get(records[j].id) = {records[j]}
    BY GetFindsTheRecord
  <2> QED BY <2>1, <2>2
<1>3. CASE ~\E j \in 1 .. Len(records) : records[j].id = id
  BY <1>1, <1>3 DEF Get
<1> QED BY <1>2, <1>3

(* The reply to a detail: the record asked for, or nothing.                 *)
LEMMA DetailReplies ==
  ASSUME IInv, RecordsTell, NEW id
  PROVE  /\ SetToSeq(Get(id)) \in Seq(Record)
         /\ AllTell(log, SetToSeq(Get(id)))
         /\ \A i \in 1 .. Len(SetToSeq(Get(id))) : SetToSeq(Get(id))[i].id = id
<1> DEFINE reply == SetToSeq(Get(id))
<1>1. /\ DOMAIN records = 1 .. Len(records)
      /\ \A j \in 1 .. Len(records) : records[j] \in Record /\ Tells(log, records[j])
  BY DEF IInv, TypeOK, RecordsTell, AllTell
<1>2. \A r \in Get(id) : r \in Record /\ Tells(log, r) /\ r.id = id
  BY <1>1 DEF Get
<1>3. reply \in Seq(Get(id))
  BY GetHasAtMostOne, SequenceOfAtMostOne
<1> HIDE DEF reply
<1>4. \A i \in 1 .. Len(reply) : reply[i] \in Get(id)
  BY <1>3
<1>5. reply \in Seq(Record)
  BY <1>2, <1>3, <1>4
<1>6. AllTell(log, reply) /\ \A i \in 1 .. Len(reply) : reply[i].id = id
  BY <1>2, <1>4 DEF AllTell
<1> QED BY <1>5, <1>6 DEF reply

(* The reply to a poll: the records, newest first.                          *)
LEMMA ListReplies ==
  ASSUME IInv, RecordsTell
  PROVE  /\ Reverse(List) \in Seq(Record)
         /\ AllTell(log, Reverse(List))
         /\ NewestFirst(Reverse(List))
<1> DEFINE L == Len(records)
           rows == Reverse(List)
<1>1. /\ records \in Seq(Record) /\ L \in Nat /\ nextID \in Nat
      /\ \A i \in 1 .. L : records[i].id = nextID - L + i
      /\ \A i \in 1 .. L : records[i] \in Record /\ Tells(log, records[i])
  BY DEF IInv, TypeOK, RetainsNewest, RecordsTell, AllTell
<1>2. rows = [i \in 1 .. L |-> records[(L - i) + 1]]
  BY DEF Reverse, List
<1>3. \A i \in 1 .. L : (L - i) + 1 \in 1 .. L
  BY <1>1
<1> HIDE DEF rows, L
<1>4. rows \in Seq(Record) /\ Len(rows) = L
  BY <1>1, <1>2, <1>3
<1>5. \A i \in 1 .. L : rows[i] = records[(L - i) + 1]
  BY <1>2
<1>6. AllTell(log, rows)
  BY <1>1, <1>3, <1>4, <1>5 DEF AllTell
<1>7. ASSUME NEW i \in 1 .. L, NEW j \in 1 .. L, i < j
      PROVE  rows[i].id > rows[j].id
  <2>1. /\ rows[i].id = nextID - L + ((L - i) + 1)
        /\ rows[j].id = nextID - L + ((L - j) + 1)
    BY <1>1, <1>3, <1>5
  <2> QED BY <1>1, <1>7, <2>1
<1>8. NewestFirst(rows)
  BY <1>4, <1>7 DEF NewestFirst
<1> QED BY <1>4, <1>6, <1>8 DEF rows

(* What was told stays true as the log grows.                               *)
LEMMA TellingLasts ==
  ASSUME NEW l \in Seq(Exchanges), NEW e \in Exchanges, NEW r, Tells(l, r)
  PROVE  Tells(Append(l, e), r)
<1>1. /\ Len(l) \in Nat /\ Len(Append(l, e)) = Len(l) + 1
      /\ \A i \in 1 .. Len(l) : Append(l, e)[i] = l[i]
  OBVIOUS
<1> QED BY <1>1 DEF Tells

-----------------------------------------------------------------------------

(* What the three stages of a fetch do to fetch: its start ...              *)
LEMMA SendingAFetch ==
  ASSUME PageTypes, NEW f \in Fetches, NEW kind \in Kinds, NEW id \in Nat,
         Sends(f, kind, id)
  PROVE  /\ fetch' \in [Fetches -> Fetch]
         /\ fetch'[f].reply = <<>>
         /\ \A g \in Fetches \ {f} : fetch'[g] = fetch[g]
<1>1. [kind |-> kind, at |-> "server", id |-> id, reply |-> <<>>] \in Fetch
  BY DEF Fetch
<1> QED BY <1>1 DEF Sends, PageTypes

(* ... the server's answer ...                                              *)
LEMMA AnsweringAFetch ==
  ASSUME PageTypes, NEW f \in Fetches, NEW kind, NEW reply \in Seq(Record),
         Replies(f, kind, reply)
  PROVE  /\ fetch' \in [Fetches -> Fetch]
         /\ fetch'[f].kind = fetch[f].kind
         /\ fetch'[f].id = fetch[f].id
         /\ fetch'[f].reply = reply
         /\ \A g \in Fetches \ {f} : fetch'[g] = fetch[g]
<1> DEFINE once == [fetch EXCEPT ![f].at = "reply"]
<1>1. fetch \in [Fetches -> Fetch]
  BY DEF PageTypes
<1>2. once \in [Fetches -> Fetch]
  BY <1>1 DEF Fetch
<1>3. /\ once[f].kind = fetch[f].kind /\ once[f].id = fetch[f].id
      /\ \A g \in Fetches \ {f} : once[g] = fetch[g]
  BY <1>1 DEF Fetch
<1>4. fetch' = [once EXCEPT ![f].reply = reply]
  BY <1>1 DEF Replies, Fetch
<1> HIDE DEF once
<1>5. fetch' \in [Fetches -> Fetch]
  BY <1>2, <1>4 DEF Fetch
<1>6. /\ fetch'[f].kind = once[f].kind /\ fetch'[f].id = once[f].id
      /\ fetch'[f].reply = reply
      /\ \A g \in Fetches \ {f} : fetch'[g] = once[g]
  BY <1>2, <1>4 DEF Fetch
<1> QED BY <1>3, <1>5, <1>6

(* ... and its end, when the page shows the reply or drops it.              *)
LEMMA EndingAFetch ==
  ASSUME PageTypes, NEW f \in Fetches, fetch' = [fetch EXCEPT ![f] = None]
  PROVE  /\ fetch' \in [Fetches -> Fetch]
         /\ fetch'[f] = None
         /\ \A g \in Fetches \ {f} : fetch'[g] = fetch[g]
<1>1. None \in Fetch
  BY DEF None, Fetch, Kinds
<1> QED BY <1>1 DEF PageTypes

FetchesTell == RepliesTell /\ ListsAreOrdered /\ DetailsAreAskedFor

(* A step that changes one fetch has only that one to answer for.           *)
LEMMA OneFetchAtATime ==
  ASSUME FetchesTell, log' = log, NEW f \in Fetches,
         \A g \in Fetches \ {f} : fetch'[g] = fetch[g],
         AllTell(log, fetch'[f].reply),
         fetch'[f].kind = "list" => NewestFirst(fetch'[f].reply),
         fetch'[f].kind = "detail" =>
           \A i \in 1 .. Len(fetch'[f].reply) : fetch'[f].reply[i].id = fetch'[f].id
  PROVE  FetchesTell'
<1>1. ASSUME NEW g \in Fetches
      PROVE  /\ AllTell(log, fetch'[g].reply)
             /\ fetch'[g].kind = "list" => NewestFirst(fetch'[g].reply)
             /\ fetch'[g].kind = "detail" =>
                  \A i \in 1 .. Len(fetch'[g].reply) :
                    fetch'[g].reply[i].id = fetch'[g].id
  <2>1. CASE g = f
    BY <2>1
  <2>2. CASE g # f
    <3>1. fetch'[g] = fetch[g]
      BY <2>2
    <3> QED
      BY <3>1 DEF FetchesTell, RepliesTell, ListsAreOrdered, DetailsAreAskedFor
  <2> QED BY <2>1, <2>2
<1>2. RepliesTell'
  BY <1>1 DEF RepliesTell
<1>3. ListsAreOrdered'
  BY <1>1 DEF ListsAreOrdered
<1>4. DetailsAreAskedFor'
  BY <1>1 DEF DetailsAreAskedFor
<1> QED BY <1>2, <1>3, <1>4 DEF FetchesTell

(* A capture adds to the log and to the store what everyone will be told.   *)
LEMMA CaptureKeepsTheTruth ==
  ASSUME PageInv, NEW e \in Exchanges, Capture(e)
  PROVE  PageInv'
<1>0. /\ PageTypes /\ RecordsTell /\ RepliesTell /\ ListsAreOrdered
      /\ DetailsAreAskedFor /\ LatestTells /\ DrawerTells
  BY DEF PageInv
<1>1. /\ Observe(e) /\ log' = Append(log, e)
      /\ UNCHANGED <<fetch, latest, selectedId, drawer>>
  BY DEF Capture, shown
<1>2. /\ IInv /\ log \in Seq(Exchanges) /\ nextID = Len(log) /\ Len(log) \in Nat
      /\ fetch \in [Fetches -> Fetch]
  BY <1>0 DEF PageTypes
<1>3. IInv'
  BY <1>1, <1>2, IInvIsInductive DEF Next
<1>4. /\ log' \in Seq(Exchanges) /\ Len(log') = Len(log) + 1
      /\ log'[Len(log) + 1] = e
  BY <1>1, <1>2
<1>5. /\ records' \in Seq(Record) /\ nextID' = nextID + 1
      /\ Len(records') = IF Len(records) = MaxItems
                         THEN MaxItems ELSE Len(records) + 1
      /\ records'[Len(records')] = [id |-> nextID', exchange |-> e]
      /\ \A i \in 1 .. Len(records') - 1 :
           records'[i] = records[i + Len(records) + 1 - Len(records')]
  BY <1>1, <1>2, ObserveAppends
<1>6. \A r : Tells(log, r) => Tells(log', r)
  BY <1>1, <1>2, TellingLasts
<1>7. PageTypes'
  BY <1>0, <1>1, <1>2, <1>3, <1>4, <1>5 DEF PageTypes
<1>8. RecordsTell'
  <2> SUFFICES ASSUME NEW i \in 1 .. Len(records')
               PROVE  Tells(log', records'[i])
    BY DEF RecordsTell, AllTell
  <2>1. Len(records) \in Nat /\ Len(records') \in Nat
    BY <1>2, <1>5 DEF IInv, TypeOK
  <2>2. CASE i = Len(records')
    <3>1. records'[i].id = Len(log) + 1 /\ records'[i].exchange = e
      BY <1>2, <1>5, <2>2
    <3> QED BY <1>2, <1>4, <3>1 DEF Tells
  <2>3. CASE i # Len(records')
    <3> DEFINE j == i + Len(records) + 1 - Len(records')
    <3>1. i \in 1 .. Len(records') - 1
      BY <2>1, <2>3
    <3>2. Len(records') <= Len(records) + 1
      BY <1>5, <2>1
    <3>3. j \in 1 .. Len(records)
      BY <2>1, <3>1, <3>2
    <3>4. records'[i] = records[j]
      BY <1>5, <3>1
    <3>5. Tells(log, records[j])
      BY <1>0, <3>3 DEF RecordsTell, AllTell
    <3> QED BY <1>6, <3>4, <3>5
  <2> QED BY <2>2, <2>3
<1>9. RepliesTell' /\ LatestTells' /\ DrawerTells'
  BY <1>0, <1>1, <1>6 DEF RepliesTell, LatestTells, DrawerTells, AllTell
<1>10. ListsAreOrdered' /\ DetailsAreAskedFor'
  BY <1>0, <1>1 DEF ListsAreOrdered, DetailsAreAskedFor
<1> QED BY <1>7, <1>8, <1>9, <1>10 DEF PageInv

(* Sending a fetch tells nothing yet.                                       *)
LEMMA SendingKeepsTheTruth ==
  ASSUME PageInv, NEW f \in Fetches, NEW kind \in Kinds, NEW id \in Nat,
         Sends(f, kind, id), UNCHANGED <<storeVars, shown, log>>
  PROVE  PageInv'
<1>0. /\ PageTypes /\ RecordsTell /\ FetchesTell /\ LatestTells /\ DrawerTells
  BY DEF PageInv, FetchesTell
<1>1. /\ fetch' \in [Fetches -> Fetch]
      /\ fetch'[f].reply = <<>>
      /\ \A g \in Fetches \ {f} : fetch'[g] = fetch[g]
  BY <1>0, SendingAFetch
<1>2. UNCHANGED <<records, nextID, latest, selectedId, drawer, log>>
  BY DEF storeVars, shown
<1>3. Len(fetch'[f].reply) = 0
  BY <1>1
<1>4. FetchesTell'
  <2>1. AllTell(log, fetch'[f].reply) /\ NewestFirst(fetch'[f].reply)
    BY <1>3 DEF AllTell, NewestFirst
  <2>2. \A i \in 1 .. Len(fetch'[f].reply) : fetch'[f].reply[i].id = fetch'[f].id
    BY <1>3
  <2> QED BY <1>0, <1>1, <1>2, <2>1, <2>2, OneFetchAtATime
<1>5. PageTypes'
  BY <1>0, <1>1, <1>2 DEF PageTypes, IInv, TypeOK, RetainsNewest
<1>6. RecordsTell' /\ LatestTells' /\ DrawerTells'
  BY <1>0, <1>2 DEF RecordsTell, LatestTells, DrawerTells
<1> QED BY <1>4, <1>5, <1>6 DEF PageInv, FetchesTell

(* The server answers from the records and the log of that moment.          *)
LEMMA ServingKeepsTheTruth ==
  ASSUME PageInv, NEW f \in Fetches, Server(f)
  PROVE  PageInv'
<1>0. /\ PageTypes /\ RecordsTell /\ FetchesTell /\ LatestTells /\ DrawerTells
      /\ IInv /\ fetch \in [Fetches -> Fetch]
  BY DEF PageInv, FetchesTell, PageTypes
<1>1. UNCHANGED <<latest, selectedId, drawer, log>>
  BY DEF Server, HandleRequests, HandleRequestDetail, HandleClear, shown
<1>2. LatestTells' /\ DrawerTells'
  BY <1>0, <1>1 DEF LatestTells, DrawerTells
<1>3. CASE HandleRequests(f)
  <2> DEFINE reply == Reverse(List)
  <2>1. /\ reply \in Seq(Record) /\ AllTell(log, reply) /\ NewestFirst(reply)
    BY <1>0, ListReplies
  <2>2. /\ Replies(f, "list", reply) /\ fetch[f].kind = "list"
        /\ records' = records /\ nextID' = nextID
    BY <1>3 DEF HandleRequests, Replies, storeVars
  <2> HIDE DEF reply
  <2>3. /\ fetch' \in [Fetches -> Fetch]
        /\ fetch'[f].kind = fetch[f].kind
        /\ fetch'[f].reply = reply
        /\ \A g \in Fetches \ {f} : fetch'[g] = fetch[g]
    BY <1>0, <2>1, <2>2, AnsweringAFetch
  <2>4. fetch'[f].kind # "detail"
    BY <2>2, <2>3
  <2>5. FetchesTell'
    BY <1>0, <1>1, <2>1, <2>3, <2>4, OneFetchAtATime
  <2>6. PageTypes' /\ RecordsTell'
    BY <1>0, <1>1, <2>2, <2>3
    DEF PageTypes, IInv, TypeOK, RetainsNewest, RecordsTell
  <2> QED BY <1>2, <2>5, <2>6 DEF PageInv, FetchesTell
<1>4. CASE HandleRequestDetail(f)
  <2> DEFINE reply == SetToSeq(Get(fetch[f].id))
  <2>1. /\ reply \in Seq(Record) /\ AllTell(log, reply)
        /\ \A i \in 1 .. Len(reply) : reply[i].id = fetch[f].id
    BY <1>0, DetailReplies
  <2>2. /\ Replies(f, "detail", reply) /\ fetch[f].kind = "detail"
        /\ records' = records /\ nextID' = nextID
    BY <1>4 DEF HandleRequestDetail, Replies, storeVars
  <2> HIDE DEF reply
  <2>3. /\ fetch' \in [Fetches -> Fetch]
        /\ fetch'[f].kind = fetch[f].kind
        /\ fetch'[f].id = fetch[f].id
        /\ fetch'[f].reply = reply
        /\ \A g \in Fetches \ {f} : fetch'[g] = fetch[g]
    BY <1>0, <2>1, <2>2, AnsweringAFetch
  <2>4. fetch'[f].kind # "list"
    BY <2>2, <2>3
  <2>5. FetchesTell'
    BY <1>0, <1>1, <2>1, <2>3, <2>4, OneFetchAtATime
  <2>6. PageTypes' /\ RecordsTell'
    BY <1>0, <1>1, <2>2, <2>3
    DEF PageTypes, IInv, TypeOK, RetainsNewest, RecordsTell
  <2> QED BY <1>2, <2>5, <2>6 DEF PageInv, FetchesTell
<1>5. CASE HandleClear(f)
  <2>1. Replies(f, "clear", <<>>) /\ fetch[f].kind = "clear" /\ Clear
    BY <1>5 DEF HandleClear, Replies
  <2>2. /\ fetch' \in [Fetches -> Fetch]
        /\ fetch'[f].kind = fetch[f].kind
        /\ fetch'[f].reply = <<>>
        /\ \A g \in Fetches \ {f} : fetch'[g] = fetch[g]
    <3>1. <<>> \in Seq(Record)
      OBVIOUS
    <3> QED BY <1>0, <2>1, <3>1, AnsweringAFetch
  <2>3. fetch'[f].kind # "list" /\ fetch'[f].kind # "detail" /\ Len(fetch'[f].reply) = 0
    BY <2>1, <2>2
  <2>4. AllTell(log, fetch'[f].reply)
    BY <2>3 DEF AllTell
  <2>5. FetchesTell'
    BY <1>0, <1>1, <2>2, <2>3, <2>4, OneFetchAtATime
  <2>6. IInv' /\ records' = <<>> /\ nextID' = nextID
    BY <1>0, <2>1, IInvIsInductive DEF Next, Clear
  <2>7. PageTypes' /\ RecordsTell'
    BY <1>0, <1>1, <2>2, <2>6 DEF PageTypes, RecordsTell, AllTell
  <2> QED BY <1>2, <2>5, <2>7 DEF PageInv, FetchesTell
<1> QED BY <1>3, <1>4, <1>5 DEF Server

(* What the page takes over from a reply is true, and the reply is gone.    *)
LEMMA ShowingKeepsTheTruth ==
  ASSUME PageInv, NEW f \in Fetches, Shows(f) \/ FetchFails(f)
  PROVE  PageInv'
<1>0. /\ PageTypes /\ RecordsTell /\ FetchesTell /\ LatestTells /\ DrawerTells
      /\ IInv /\ fetch \in [Fetches -> Fetch]
  BY DEF PageInv, FetchesTell, PageTypes
<1>1. /\ UNCHANGED <<records, nextID, log>>
      /\ fetch' = [fetch EXCEPT ![f] = None]
  BY DEF Shows, ShowList, ShowDetail, ShowCleared, FetchFails, Arrives, storeVars
<1>2. /\ fetch' \in [Fetches -> Fetch]
      /\ fetch'[f] = None
      /\ \A g \in Fetches \ {f} : fetch'[g] = fetch[g]
  BY <1>0, <1>1, EndingAFetch
<1>3. FetchesTell'
  <2>1. /\ fetch'[f].kind = "none" /\ Len(fetch'[f].reply) = 0
    BY <1>2 DEF None
  <2>2. AllTell(log, fetch'[f].reply)
    BY <2>1 DEF AllTell
  <2> QED BY <1>0, <1>1, <1>2, <2>1, <2>2, OneFetchAtATime
<1>4. RecordsTell' /\ IInv'
  BY <1>0, <1>1 DEF RecordsTell, IInv, TypeOK, RetainsNewest
<1>5. /\ fetch[f] \in Fetch /\ fetch[f].reply \in Seq(Record) /\ fetch[f].id \in Nat
      /\ AllTell(log, fetch[f].reply)
  BY <1>0 DEF Fetch, FetchesTell, RepliesTell
<1>6. CASE ShowList(f)
  <2>1. /\ latest' = fetch[f].reply /\ fetch[f].kind = "list"
        /\ UNCHANGED <<selectedId, drawer>>
    BY <1>6 DEF ShowList, Arrives
  <2>2. NewestFirst(fetch[f].reply)
    BY <1>0, <2>1 DEF FetchesTell, ListsAreOrdered
  <2>3. LatestTells' /\ DrawerTells'
    BY <1>0, <1>1, <1>5, <2>1, <2>2 DEF LatestTells, DrawerTells
  <2>4. PageTypes'
    BY <1>0, <1>1, <1>2, <1>4, <1>5, <2>1 DEF PageTypes
  <2> QED BY <1>3, <1>4, <2>3, <2>4 DEF PageInv, FetchesTell
<1>7. CASE ShowDetail(f)
  <2>1. /\ latest' = latest /\ fetch[f].kind = "detail"
        /\ \/ UNCHANGED <<selectedId, drawer>>
           \/ /\ fetch[f].reply # <<>>
              /\ selectedId' = fetch[f].id
              /\ drawer' = Head(fetch[f].reply)
    BY <1>7 DEF ShowDetail, Arrives
  <2>2. LatestTells'
    BY <1>0, <1>1, <2>1 DEF LatestTells
  <2>3. CASE UNCHANGED <<selectedId, drawer>>
    <3>1. DrawerTells' /\ PageTypes'
      BY <1>0, <1>1, <1>2, <1>4, <2>1, <2>3 DEF DrawerTells, PageTypes
    <3> QED BY <1>3, <1>4, <2>2, <3>1 DEF PageInv, FetchesTell
  <2>4. CASE /\ fetch[f].reply # <<>>
             /\ selectedId' = fetch[f].id
             /\ drawer' = Head(fetch[f].reply)
    <3>1. 1 \in 1 .. Len(fetch[f].reply) /\ drawer' = fetch[f].reply[1]
      BY <1>5, <2>4
    <3>2. /\ drawer' \in Record /\ Tells(log, drawer')
          /\ drawer'.id = selectedId' /\ selectedId' \in Nat
      BY <1>0, <1>5, <2>1, <2>4, <3>1 DEF AllTell, FetchesTell, DetailsAreAskedFor
    <3>3. drawer' # NoRecord
      BY <3>2, PageAssumption
    <3>4. DrawerTells'
      BY <1>1, <3>2, <3>3 DEF DrawerTells
    <3>5. PageTypes'
      BY <1>0, <1>1, <1>2, <1>4, <2>1, <3>2 DEF PageTypes
    <3> QED BY <1>3, <1>4, <2>2, <3>4, <3>5 DEF PageInv, FetchesTell
  <2> QED BY <2>1, <2>3, <2>4
<1>8. CASE ShowCleared(f)
  <2>1. latest' = <<>> /\ selectedId' = 0 /\ drawer' = NoRecord
    BY <1>8 DEF ShowCleared
  <2>2. LatestTells' /\ DrawerTells'
    BY <2>1 DEF LatestTells, AllTell, NewestFirst, DrawerTells
  <2>3. PageTypes'
    BY <1>0, <1>1, <1>2, <1>4, <2>1 DEF PageTypes
  <2> QED BY <1>3, <1>4, <2>2, <2>3 DEF PageInv, FetchesTell
<1>9. CASE FetchFails(f)
  <2>1. UNCHANGED <<latest, selectedId, drawer>>
    BY <1>9 DEF FetchFails, shown
  <2>2. LatestTells' /\ DrawerTells'
    BY <1>0, <1>1, <2>1 DEF LatestTells, DrawerTells
  <2>3. PageTypes'
    BY <1>0, <1>1, <1>2, <1>4, <2>1 DEF PageTypes
  <2> QED BY <1>3, <1>4, <2>2, <2>3 DEF PageInv, FetchesTell
<1> QED BY <1>6, <1>7, <1>8, <1>9 DEF Shows

(* PageInv is inductive.                                                    *)
LEMMA PageInvIsInductive ==
  /\ PageInit => PageInv
  /\ PageInv /\ [PageNext]_systemVars => PageInv'
<1>1. ASSUME PageInit
      PROVE  PageInv
  <2>1. /\ IInv /\ records = <<>> /\ nextID = 0
    BY <1>1, IInvIsInductive DEF PageInit, Init
  <2>2. /\ fetch = [f \in Fetches |-> None] /\ latest = <<>> /\ selectedId = 0
        /\ drawer = NoRecord /\ log = <<>>
    BY <1>1 DEF PageInit
  <2>3. None \in Fetch /\ None.kind = "none" /\ Len(None.reply) = 0
    BY DEF None, Fetch, Kinds
  <2>4. PageTypes
    BY <2>1, <2>2, <2>3 DEF PageTypes
  <2>5. RecordsTell /\ LatestTells /\ DrawerTells
    BY <2>1, <2>2 DEF RecordsTell, LatestTells, DrawerTells, AllTell, NewestFirst
  <2>6. RepliesTell /\ ListsAreOrdered /\ DetailsAreAskedFor
    BY <2>2, <2>3 DEF RepliesTell, ListsAreOrdered, DetailsAreAskedFor, AllTell
  <2> QED BY <2>4, <2>5, <2>6 DEF PageInv
<1>2. ASSUME PageInv, [PageNext]_systemVars
      PROVE  PageInv'
  <2>0. latest \in Seq(Record)
    BY <1>2 DEF PageInv, PageTypes
  <2>1. CASE \E e \in Exchanges : Capture(e)
    BY <1>2, <2>1, CaptureKeepsTheTruth
  <2>2. ASSUME NEW f \in Fetches, Poll(f)
        PROVE  PageInv'
    <3>1. Sends(f, "list", 0) /\ UNCHANGED <<storeVars, shown, log>> /\ "list" \in Kinds
      BY <2>2 DEF Poll, Kinds
    <3> QED BY <1>2, <3>1, SendingKeepsTheTruth
  <2>3. ASSUME NEW f \in Fetches, OpenDetail(f)
        PROVE  PageInv'
    <3>1. PICK i \in DOMAIN latest : Sends(f, "detail", latest[i].id)
      BY <2>3 DEF OpenDetail
    <3>2. UNCHANGED <<storeVars, shown, log>> /\ "detail" \in Kinds
      BY <2>3 DEF OpenDetail, Kinds
    <3>3. latest[i] \in Record
      BY <2>0
    <3>4. latest[i].id \in Nat
      BY <3>3 DEF Record
    <3> QED BY <1>2, <3>1, <3>2, <3>4, SendingKeepsTheTruth
  <2>4. ASSUME NEW f \in Fetches, ClickClear(f)
        PROVE  PageInv'
    <3>1. Sends(f, "clear", 0) /\ UNCHANGED <<storeVars, shown, log>> /\ "clear" \in Kinds
      BY <2>4 DEF ClickClear, Kinds
    <3> QED BY <1>2, <3>1, SendingKeepsTheTruth
  <2>5. ASSUME NEW f \in Fetches, Server(f)
        PROVE  PageInv'
    BY <1>2, <2>5, ServingKeepsTheTruth
  <2>6. ASSUME NEW f \in Fetches, Shows(f) \/ FetchFails(f)
        PROVE  PageInv'
    BY <1>2, <2>6, ShowingKeepsTheTruth
  <2>7. CASE CloseDetail
    <3>1. /\ drawer' = NoRecord /\ selectedId' = 0
          /\ UNCHANGED <<records, nextID, fetch, latest, log>>
      BY <2>7 DEF CloseDetail, storeVars
    <3> QED
      BY <1>2, <3>1 DEF PageInv, PageTypes, IInv, TypeOK, RetainsNewest, RecordsTell,
         RepliesTell, ListsAreOrdered, DetailsAreAskedFor, LatestTells, DrawerTells
  <2>8. CASE UNCHANGED systemVars
    BY <1>2, <2>8 DEF systemVars, storeVars, pageVars, PageInv, PageTypes, IInv, TypeOK,
       RetainsNewest, RecordsTell, RepliesTell, ListsAreOrdered, DetailsAreAskedFor,
       LatestTells, DrawerTells
  <2> QED BY <1>2, <2>1, <2>2, <2>3, <2>4, <2>5, <2>6, <2>7, <2>8 DEF PageNext
<1> QED BY <1>1, <1>2

(* However replies, captures, evictions and clears overtake each other, the *)
(* page shows what was observed: see PageTellsTheTruth.                     *)
THEOREM PageIsTruthful == PageSpec => []PageTellsTheTruth
<1>1. ASSUME PageInv
      PROVE  PageTellsTheTruth
  <2>1. PageTypes /\ LatestTells /\ DrawerTells
    BY <1>1 DEF PageInv
  <2>2. DOMAIN latest = 1 .. Len(latest)
    BY <2>1 DEF PageTypes
  <2>3. /\ \A i \in 1 .. Len(latest) : latest[i].exchange = log[latest[i].id]
        /\ \A i, j \in 1 .. Len(latest) : i < j => latest[i].id > latest[j].id
    BY <2>1 DEF LatestTells, AllTell, NewestFirst, Tells
  <2>4. IF drawer = NoRecord
        THEN selectedId = 0
        ELSE drawer.id = selectedId /\ drawer.exchange = log[selectedId]
    BY <2>1 DEF DrawerTells, Tells
  <2> QED BY <2>2, <2>3, <2>4 DEF PageTellsTheTruth
<1> QED BY PageInvIsInductive, <1>1, PTL DEF PageSpec

(* The page and its server use the store only as CaptureStore says: a step  *)
(* of theirs is a step of the store or leaves it alone ...                  *)
LEMMA PageDrivesTheStore == PageSpec => Spec
<1>1. PageInit => Init
  BY DEF PageInit
<1>2. ASSUME [PageNext]_systemVars
      PROVE  [Next]_storeVars
  <2>1. ASSUME NEW e \in Exchanges, Capture(e)
        PROVE  Next
    BY <2>1 DEF Capture, Next
  <2>2. ASSUME NEW f \in Fetches, Server(f)
        PROVE  [Next]_storeVars
    BY <2>2 DEF Server, HandleRequests, HandleRequestDetail, HandleClear, Next
  <2>3. ASSUME NEW f \in Fetches,
               Poll(f) \/ OpenDetail(f) \/ ClickClear(f) \/ Shows(f) \/ FetchFails(f)
        PROVE  UNCHANGED storeVars
    BY <2>3 DEF Poll, OpenDetail, ClickClear, Shows, ShowList, ShowDetail, ShowCleared,
                FetchFails
  <2>4. ASSUME CloseDetail
        PROVE  UNCHANGED storeVars
    BY <2>4 DEF CloseDetail
  <2>5. ASSUME UNCHANGED systemVars
        PROVE  UNCHANGED storeVars
    BY <2>5 DEF systemVars
  <2> QED BY <1>2, <2>1, <2>2, <2>3, <2>4, <2>5 DEF PageNext
<1> QED BY <1>1, <1>2, PTL DEF PageSpec, Spec

(* ... so that with any page the store retains the newest exchanges, never  *)
(* reuses an ID and implements CaptureLog.                                  *)
THEOREM StoreBehindThePage ==
  PageSpec => []RetainsNewest /\ IDsAreNeverReused /\ ImplementsCaptureLog
BY PageDrivesTheStore, NewestRetained, IDsNeverReused, StoreImplementsLog, PTL
=============================================================================
