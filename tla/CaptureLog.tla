----------------------------- MODULE CaptureLog -----------------------------
(***************************************************************************)
(* What the capture store of internal/capture promises to its clients,     *)
(* told without its slice: every observed exchange gets the next ID, and    *)
(* the store holds exactly those of the newest MaxItems IDs that were       *)
(* observed since the last Clear.  Which record is kept is decided by its   *)
(* ID alone, never by a position.                                           *)
(***************************************************************************)
EXTENDS Integers

CONSTANTS
  Exchanges,    \* the exchanges the proxy may report
  MaxItems,     \* how many records the store may hold
  MaxObserved   \* bound on the number of exchanges observed

VARIABLES
  held,         \* the records a client can see, as a set
  last          \* the ID given out most recently

Init ==
  /\ held = {}
  /\ last = 0

Observe(e) ==
  /\ last < MaxObserved
  /\ last' = last + 1
  /\ held' = {r \in held \cup {[id |-> last + 1, exchange |-> e]} :
                r.id > last + 1 - MaxItems}

Clear ==
  /\ held' = {}
  /\ UNCHANGED last

Next ==
  \/ \E e \in Exchanges : Observe(e)
  \/ Clear

Spec == Init /\ [][Next]_<<held, last>>
=============================================================================
