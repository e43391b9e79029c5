---------------------------- MODULE InspectionPage ----------------------------
(***************************************************************************)
(* The inspection page, internal/ui/static/index.html, and the handlers of  *)
(* internal/ui/ui.go between it and the capture store.  The page polls the  *)
(* list every second, opens the detail of a row and clears the list; each   *)
(* is a fetch of its own, and nothing orders the fetches: the server may    *)
(* handle them, and their replies may arrive, in any order, while the proxy *)
(* goes on capturing.  (The search box filters what is drawn, not latest.)  *)
(***************************************************************************)
EXTENDS CaptureStore, SequencesExt

CONSTANTS
  Fetches,      \* the fetches that may be on their way at the same time
  NoRecord,     \* a closed drawer
  MaxClears,    \* bound on the clicks on Clear
  MaxFailures   \* bound on the fetches that fail

ASSUME PageAssumption ==
  /\ MaxClears \in Nat
  /\ MaxFailures \in Nat
  /\ NoRecord \notin Record

VARIABLES
  fetch,        \* each fetch: [kind, at, id, reply]
  latest,       \* the rows of the page: the most recent polled list
  selectedId,   \* the row whose detail is open
  drawer,       \* the detail shown, NoRecord when the drawer is closed
  log,          \* every exchange ever observed, by ID (history)
  clears,
  failures

pageVars == <<fetch, latest, selectedId, drawer, log, clears, failures>>
systemVars == <<storeVars, pageVars>>

shown == <<latest, selectedId, drawer>>
counts == <<clears, failures>>

None == [kind |-> "none", at |-> "page", id |-> 0, reply |-> <<>>]

PageInit ==
  /\ Init
  /\ fetch = [f \in Fetches |-> None]
  /\ latest = <<>>
  /\ selectedId = 0
  /\ drawer = NoRecord
  /\ log = <<>>
  /\ clears = 0
  /\ failures = 0

(* The proxy captures an exchange. *)
Capture(e) ==
  /\ Observe(e)
  /\ log' = Append(log, e)
  /\ UNCHANGED <<fetch, shown, counts>>

-----------------------------------------------------------------------------

(* The page sends a fetch. *)

Sends(f, kind, id) ==
  /\ fetch[f] = None
  /\ fetch' = [fetch EXCEPT ![f] =
                 [kind |-> kind, at |-> "server", id |-> id, reply |-> <<>>]]

(* setInterval(poll, 1000), and the poll at the start. *)
Poll(f) ==
  /\ Sends(f, "list", 0)
  /\ UNCHANGED <<storeVars, shown, log, counts>>

(* A click on a row: openDetail. *)
OpenDetail(f) ==
  /\ \E i \in DOMAIN latest : Sends(f, "detail", latest[i].id)
  /\ UNCHANGED <<storeVars, shown, log, counts>>

ClickClear(f) ==
  /\ clears < MaxClears
  /\ Sends(f, "clear", 0)
  /\ clears' = clears + 1
  /\ UNCHANGED <<storeVars, shown, log, failures>>

CloseDetail ==
  /\ drawer # NoRecord
  /\ drawer' = NoRecord
  /\ selectedId' = 0
  /\ UNCHANGED <<storeVars, fetch, latest, log, counts>>

-----------------------------------------------------------------------------

(* The server handles it. *)

Replies(f, kind, reply) ==
  /\ fetch[f].kind = kind
  /\ fetch[f].at = "server"
  /\ fetch' = [fetch EXCEPT ![f].at = "reply", ![f].reply = reply]

(* handleRequests: newest first. *)
HandleRequests(f) ==
  /\ Replies(f, "list", Reverse(List))
  /\ UNCHANGED <<storeVars, shown, log, counts>>

(* handleRequestDetail: the record, or a 404 (an empty reply). *)
HandleRequestDetail(f) ==
  /\ Replies(f, "detail", SetToSeq(Get(fetch[f].id)))
  /\ UNCHANGED <<storeVars, shown, log, counts>>

HandleClear(f) ==
  /\ Replies(f, "clear", <<>>)
  /\ Clear
  /\ UNCHANGED <<shown, log, counts>>

-----------------------------------------------------------------------------

(* The reply arrives, or the fetch fails. *)

Arrives(f, kind) ==
  /\ fetch[f].kind = kind
  /\ fetch[f].at = "reply"
  /\ fetch' = [fetch EXCEPT ![f] = None]

(* Faulty: a shorter list is taken for an old one. *)
ShowLongerList(f) ==
  /\ Arrives(f, "list")
  /\ latest' = IF Len(fetch[f].reply) < Len(latest) THEN latest ELSE fetch[f].reply
  /\ UNCHANGED <<storeVars, selectedId, drawer, log, counts>>

ShowList(f) ==
  /\ Arrives(f, "list")
  /\ latest' = fetch[f].reply
  /\ UNCHANGED <<storeVars, selectedId, drawer, log, counts>>

(* Faulty: the row is marked although there is no detail to show. *)
ShowDetailAnyway(f) ==
  /\ Arrives(f, "detail")
  /\ selectedId' = fetch[f].id
  /\ drawer' = IF fetch[f].reply = <<>> THEN drawer ELSE Head(fetch[f].reply)
  /\ UNCHANGED <<storeVars, latest, log, counts>>

ShowDetail(f) ==
  /\ Arrives(f, "detail")
  /\ IF fetch[f].reply = <<>>
     THEN UNCHANGED <<selectedId, drawer>>
     ELSE /\ selectedId' = fetch[f].id
          /\ drawer' = Head(fetch[f].reply)
  /\ UNCHANGED <<storeVars, latest, log, counts>>

ShowCleared(f) ==
  /\ Arrives(f, "clear")
  /\ latest' = <<>>
  /\ selectedId' = 0
  /\ drawer' = NoRecord
  /\ UNCHANGED <<storeVars, log, counts>>

(* The catch blocks: the page stays as it is. *)
FetchFails(f) ==
  /\ failures < MaxFailures
  /\ fetch[f] # None
  /\ fetch' = [fetch EXCEPT ![f] = None]
  /\ failures' = failures + 1
  /\ UNCHANGED <<storeVars, shown, log, clears>>

Server(f) == HandleRequests(f) \/ HandleRequestDetail(f) \/ HandleClear(f)
Shows(f) == ShowList(f) \/ ShowDetail(f) \/ ShowCleared(f)

PageNext ==
  \/ \E e \in Exchanges : Capture(e)
  \/ \E f \in Fetches :
       Poll(f) \/ OpenDetail(f) \/ ClickClear(f) \/ Server(f) \/ Shows(f)
         \/ FetchFails(f)
  \/ CloseDetail

PageSpec == PageInit /\ [][PageNext]_systemVars

(* The timer fires for ever, and a fetch is handled and answered (or fails).*)
(* The timer's next poll does not wait for a fetch: strong fairness, because*)
(* the clicks on rows compete with it for the finite Fetches.               *)
FairPage ==
  /\ PageSpec
  /\ SF_systemVars(\E f \in Fetches : Poll(f))
  /\ \A f \in Fetches : WF_systemVars(Server(f)) /\ WF_systemVars(Shows(f))

-----------------------------------------------------------------------------

(* Whatever replies overtake each other across captures, evictions and      *)
(* clears: a row is the exchange that was observed under its ID, rows are   *)
(* newest first without a repetition, and the drawer shows the exchange of  *)
(* the row that is marked.                                                  *)
PageTellsTheTruth ==
  /\ \A i \in DOMAIN latest : latest[i].exchange = log[latest[i].id]
  /\ \A i, j \in DOMAIN latest : i < j => latest[i].id > latest[j].id
  /\ IF drawer = NoRecord
     THEN selectedId = 0
     ELSE /\ drawer.id = selectedId
          /\ drawer.exchange = log[selectedId]

(* "next poll will reflect server state": when captures and clears are over,*)
(* the page comes to show the store and stays so, however old the replies   *)
(* that were still on their way.                                            *)
PageConverges == <>[](latest = Reverse(List))
=============================================================================
