---------------------------- MODULE CaptureStore ----------------------------
(***************************************************************************)
(* The in-memory store of captured exchanges, internal/capture/capture.go.  *)
(* Every method holds Store.mu from its first to its last statement, so     *)
(* each is one step.  records is the slice, newest last; nextID is the last *)
(* ID handed out.  List and Get change nothing: they are the operators      *)
(* List and Get, used by the modules of the store's clients.                *)
(***************************************************************************)
EXTENDS Integers, Sequences

CONSTANTS
  Exchanges,    \* the exchanges the proxy may report
  MaxItems,     \* Store.maxItems
  MaxObserved   \* bound on nextID (an int64 in the code)

(* NewStore replaces a maxItems <= 0 by DefaultMaxItems. *)
ASSUME MaxItemsAssumption == MaxItems \in Nat \ {0}

ASSUME MaxObservedAssumption == MaxObserved \in Nat

VARIABLES
  records,      \* Store.records, oldest first
  nextID        \* Store.nextID

storeVars == <<records, nextID>>

Record == [id : Nat, exchange : Exchanges]

Init ==
  /\ records = <<>>
  /\ nextID = 0

(* Faulty: the wrong end of the slice is kept; one record too many goes. *)
DropNewest(rs) == IF Len(rs) > MaxItems THEN SubSeq(rs, 1, MaxItems) ELSE rs
DropOneTooMany(rs) ==
  IF Len(rs) > MaxItems THEN SubSeq(rs, Len(rs) - MaxItems + 2, Len(rs)) ELSE rs

(* The cap: s.records = append(s.records[:0], s.records[overflow:]...) *)
DropOldest(rs) ==
  LET overflow == Len(rs) - MaxItems
  IN IF overflow > 0 THEN SubSeq(rs, overflow + 1, Len(rs)) ELSE rs

Observe(e) ==
  /\ nextID < MaxObserved
  /\ nextID' = nextID + 1
  /\ records' = DropOldest(Append(records, [id |-> nextID + 1, exchange |-> e]))

(* Faulty: the numbering restarts. *)
ClearAndRestart ==
  /\ records' = <<>>
  /\ nextID' = 0

(* The ID counter survives a Clear. *)
Clear ==
  /\ records' = <<>>
  /\ UNCHANGED nextID

Next ==
  \/ \E e \in Exchanges : Observe(e)
  \/ Clear

Spec == Init /\ [][Next]_storeVars

-----------------------------------------------------------------------------

(* List: a copy of the slice. *)
List == records

(* Get: the records with this ID, as a set (a hit is a singleton, a miss   *)
(* the empty set).                                                          *)
Get(id) == {records[i] : i \in {j \in DOMAIN records : records[j].id = id}}

-----------------------------------------------------------------------------

(* records is a sequence of records and nextID a number. *)
TypeOK ==
  /\ records \in Seq(Record)
  /\ nextID \in Nat

(* The slice never grows past its cap, and the IDs in it are consecutive    *)
(* and end in the last ID handed out: no exchange is skipped, reordered or  *)
(* kept while a newer one is dropped, however Observe and Clear alternate.  *)
RetainsNewest ==
  /\ Len(records) <= MaxItems
  /\ Len(records) <= nextID
  /\ \A i \in DOMAIN records : records[i].id = nextID - Len(records) + i

(* An ID, once handed out, never names another exchange: what the page read *)
(* from /api/requests leads to the same request's detail or to a 404, also  *)
(* across evictions and Clear.                                              *)
IDsAreNeverReused ==
  [][/\ nextID' >= nextID
     /\ \A i \in DOMAIN records' :
          records'[i].id <= nextID => Get(records'[i].id) = {records'[i]}]_storeVars

(* The store keeps the promise of CaptureLog. *)
Log == INSTANCE CaptureLog WITH
         held <- {records[i] : i \in DOMAIN records},
         last <- nextID

ImplementsCaptureLog == Log!Spec
=============================================================================
