--------------------------- MODULE BackgroundCapture ---------------------------
(* The capture list of the archived browser extension: the web request listeners and *)
(* message handlers of its background service worker, which all read the whole list  *)
(* from chrome.storage, wait, and write a whole list back.                           *)
(* legacy/abandoned/extension/src/background/index.ts                                *)
(*                                                                                   *)
(* A handler is two steps: `storage.get` with all before it, and what follows the    *)
(* await up to `storage.set`. onBeforeRequest and a replay await something else      *)
(* first, and have a third step for that. The browser, the page and the side panel   *)
(* act in between. A body is the identity of the exchange it belongs to.             *)
EXTENDS Naturals, Sequences, FiniteSets, SequencesExt

CONSTANTS
    Requests,      \* requests of pages, as the browser numbers them (requestId)
    Mocks,         \* requests a page's bridge answers itself (MOCK_APPLIED)
    Replays,       \* requests the worker sends again (REPEAT_REQUEST)
    Keys,          \* method and URL, as far as two requests can share them
    KeyOf,         \* the key of each of them
    RedirectTo,    \* the key each request that may be redirected goes on with
    NoBody,        \* no body is recorded
    MaxCaptured,   \* MAX_CAPTURED_REQUESTS
    PendingLimit,  \* PENDING_RESPONSE_BODY_LIMIT
    MaxExchanges,  \* bound: how many of the exchanges take place
    MaxHandlers,   \* bound: how many handlers are under way at once
    MaxUpsets      \* bound: how often the user empties the list or the browser stops the worker

Exchanges == Requests \cup Mocks \cup Replays

\* An exchange is of one kind, and a redirected request goes on with a key.
ASSUME CaptureAssumption ==
    /\ Requests \cap Mocks = {} /\ Requests \cap Replays = {} /\ Mocks \cap Replays = {}
    /\ KeyOf \in [Exchanges -> Keys]
    /\ DOMAIN RedirectTo \subseteq Requests /\ RedirectTo \in [DOMAIN RedirectTo -> Keys]
    /\ NoBody \notin Exchanges
    /\ {MaxCaptured, PendingLimit} \subseteq Nat \ {0}
    /\ {MaxExchanges, MaxHandlers, MaxUpsets} \subseteq Nat

VARIABLES
    captured,   \* capturedRequests in chrome.storage, newest first
    pending,    \* pendingResponseBodies, in insertion order
    tasks,      \* the handlers that are awaiting something
    net,        \* what the browser has reported of each page request
    reported,   \* exchanges whose bridge or sender the worker has heard
    overlapped, \* history: another step fell between a handler's get and its set
    order,      \* history, while no handler overlapped: the exchanges begun since the list
                \* was last emptied, newest first
    upsets      \* how often the list was emptied or the worker stopped

vars == <<captured, pending, tasks, net, reported, overlapped, order, upsets>>

Hops == 0 .. 1
Kinds == {"before", "headers", "firstByte", "completed", "body", "mock", "replay"}

Captured == [id : Exchanges, hop : Hops, key : Keys, headers : BOOLEAN,
             firstByte : BOOLEAN, answered : BOOLEAN, body : Exchanges \cup {NoBody}]

HopKey(id, hop) == IF hop = 0 THEN KeyOf[id] ELSE RedirectTo[id]

FreshRecord(id, hop) ==
    [id |-> id, hop |-> hop, key |-> HopKey(id, hop), headers |-> FALSE,
     firstByte |-> FALSE, answered |-> FALSE, body |-> NoBody]

Init ==
    /\ captured = <<>> /\ pending = <<>> /\ tasks = {}
    /\ net = [r \in Requests |->
                [hop |-> 0, begun |-> FALSE, sent |-> {}, started |-> FALSE, completed |-> FALSE]]
    /\ reported = {} /\ overlapped = FALSE /\ order = <<>>
    /\ upsets = 0

-----------------------------------------------------------------------------------
(* The handlers.                                                                   *)

\* A handler that starts with storage.get holds what the list is now.
StartReading(kind, id, hop) ==
    /\ Cardinality(tasks) < MaxHandlers
    /\ tasks' = tasks \cup {[kind |-> kind, id |-> id, hop |-> hop, read |-> TRUE, snap |-> captured]}
    /\ overlapped' = (overlapped \/ tasks # {})

\* A handler that loads the rules (and, a replay, fetches) before it gets the list.
StartWaiting(kind, id, hop) ==
    /\ Cardinality(tasks) < MaxHandlers
    /\ tasks' = tasks \cup {[kind |-> kind, id |-> id, hop |-> hop, read |-> FALSE, snap |-> <<>>]}
    /\ overlapped' = (overlapped \/ tasks # {})

ReadCaptured(t) ==
    /\ t \in tasks /\ ~t.read
    /\ tasks' = (tasks \ {t}) \cup {[t EXCEPT !.read = TRUE, !.snap = captured]}
    /\ UNCHANGED <<captured, pending, net, reported, overlapped, order, upsets>>

\* [record, ...existing].slice(0, MAX_CAPTURED_REQUESTS)
Prepend(rec, list) == LET all == <<rec>> \o list IN SubSeq(all, 1, IF Len(all) < MaxCaptured THEN Len(all) ELSE MaxCaptured)

\* updated = existing.map(...): every record of the request has the fact now
Marked(list, id, fact) ==
    [i \in DOMAIN list |-> IF list[i].id = id THEN [list[i] EXCEPT ![fact] = TRUE] ELSE list[i]]

\* Faulty: any buffered body will do.
PendingForAny(key) == DOMAIN pending

PendingFor(key) == {i \in DOMAIN pending : pending[i].key = key}

\* takePendingResponseBody, called for the records of the list in turn
TakenFor(list, i) ==
    LET free == {p \in PendingFor(list[i].key) :
                    \A j \in 1 .. i - 1 : list[j].id = list[i].id => list[j].key # list[i].key}
    IN  IF free = {} THEN NoBody ELSE pending[CHOOSE p \in free : TRUE].body

\* pendingResponseBodies.delete
Deleted(buffer, key) ==
    LET held == {i \in DOMAIN buffer : buffer[i].key = key}
    IN  IF held = {} THEN buffer ELSE RemoveAt(buffer, CHOOSE i \in held : TRUE)

\* what the records of one request, listed once for each of its hops, leave in the buffer
LeftBy(list, id) ==
    LET Taking(buffer, hop) ==
            IF \E i \in DOMAIN list : list[i].id = id /\ list[i].hop = hop
            THEN Deleted(buffer, HopKey(id, hop)) ELSE buffer
    IN  Taking(Taking(pending, 0), 1)

\* attachResponseBody: the newest answered record of the key that has no body
WaitingForBody(list, key) ==
    {i \in DOMAIN list : list[i].key = key /\ list[i].answered /\ list[i].body = NoBody}

\* pendingResponseBodies.set after the eviction: a key that is present keeps its place
Buffer(key, body) ==
    LET kept == IF Len(pending) >= PendingLimit THEN Tail(pending) ELSE pending
        entry == [key |-> key, body |-> body]
    IN  IF \E i \in DOMAIN kept : kept[i].key = key
        THEN [i \in DOMAIN kept |-> IF kept[i].key = key THEN entry ELSE kept[i]]
        ELSE Append(kept, entry)

\* Faulty: a redirected request replaces what is listed under its requestId.
WriteBeforeOnce(t) ==
    /\ captured' = Prepend(FreshRecord(t.id, t.hop), SelectSeq(t.snap, LAMBDA c : c.id # t.id))
    /\ UNCHANGED pending

WriteBefore(t) ==
    /\ captured' = Prepend(FreshRecord(t.id, t.hop), t.snap)
    /\ UNCHANGED pending

WriteHeaders(t) ==
    /\ captured' = IF \E i \in DOMAIN t.snap : t.snap[i].id = t.id
                   THEN Marked(t.snap, t.id, "headers")
                   ELSE captured
    /\ UNCHANGED pending

WriteFirstByte(t) ==
    /\ captured' = IF \E i \in DOMAIN t.snap : t.snap[i].id = t.id /\ ~t.snap[i].firstByte
                   THEN Marked(t.snap, t.id, "firstByte")
                   ELSE captured
    /\ UNCHANGED pending

\* the response that onCompleted makes has the buffered body or none
AnsweredIn(list, id) ==
    LET answered == Marked(list, id, "answered")
    IN  [i \in DOMAIN list |-> IF list[i].id = id
                              THEN [answered[i] EXCEPT !.body = TakenFor(list, i)]
                              ELSE list[i]]

\* onCompleted always writes, also when the request is not listed
WriteCompleted(t) ==
    /\ captured' = AnsweredIn(t.snap, t.id)
    /\ pending' = LeftBy(t.snap, t.id)

WriteBody(t) ==
    LET key == KeyOf[t.id]
        waiting == WaitingForBody(t.snap, key)
    IN  IF waiting # {}
        THEN /\ captured' = [t.snap EXCEPT ![CHOOSE i \in waiting : \A j \in waiting : i <= j].body = t.id]
             /\ UNCHANGED pending
        ELSE /\ pending' = Buffer(key, t.id)
             /\ UNCHANGED captured

Whole(id, body) ==
    [FreshRecord(id, 0) EXCEPT !.headers = TRUE, !.answered = TRUE, !.body = body]

\* appendMockedRequest: request and answer at once
WriteMock(t) ==
    /\ captured' = Prepend(Whole(t.id, t.id), t.snap)
    /\ UNCHANGED pending

\* the end of repeatRequest: an empty answer leaves the body out
WriteReplay(t) ==
    /\ \E body \in {t.id, NoBody} : captured' = Prepend(Whole(t.id, body), t.snap)
    /\ UNCHANGED pending

Write(t) ==
    /\ t \in tasks /\ t.read
    /\ CASE t.kind = "before"    -> WriteBefore(t)
         [] t.kind = "headers"   -> WriteHeaders(t)
         [] t.kind = "firstByte" -> WriteFirstByte(t)
         [] t.kind = "completed" -> WriteCompleted(t)
         [] t.kind = "body"      -> WriteBody(t)
         [] t.kind = "mock"      -> WriteMock(t)
         [] t.kind = "replay"    -> WriteReplay(t)
    /\ tasks' = tasks \ {t}
    /\ UNCHANGED <<net, reported, overlapped, order, upsets>>

-----------------------------------------------------------------------------------
(* What the browser reports of a page's request. It may stop at any point: no      *)
(* listener hears of a request that fails.                                         *)

\* Named after the handler is started: `overlapped'` is known.
Begins(id, hop) ==
    order' = IF overlapped' THEN <<>> ELSE <<[id |-> id, hop |-> hop]>> \o order

FewerThanMax ==
    Cardinality({r \in Requests : net[r].begun} \cup (reported \ Requests)) < MaxExchanges

BeforeRequest(r) ==
    /\ ~net[r].begun /\ FewerThanMax
    /\ net' = [net EXCEPT ![r].begun = TRUE]
    /\ StartWaiting("before", r, 0) /\ Begins(r, 0)
    /\ UNCHANGED <<captured, pending, reported, upsets>>

\* A redirected request is reported again under its requestId.
RedirectedRequest(r) ==
    /\ r \in DOMAIN RedirectTo /\ net[r].hop = 0
    /\ net[r].begun /\ ~net[r].started
    /\ net' = [net EXCEPT ![r].hop = 1]
    /\ StartWaiting("before", r, 1) /\ Begins(r, 1)
    /\ UNCHANGED <<captured, pending, reported, upsets>>

SendHeaders(r) ==
    /\ net[r].begun /\ net[r].hop \notin net[r].sent
    /\ net' = [net EXCEPT ![r].sent = @ \cup {net[r].hop}]
    /\ StartReading("headers", r, net[r].hop)
    /\ UNCHANGED <<captured, pending, reported, order, upsets>>

ResponseStarted(r) ==
    /\ net[r].hop \in net[r].sent /\ ~net[r].started
    /\ net' = [net EXCEPT ![r].started = TRUE]
    /\ StartReading("firstByte", r, net[r].hop)
    /\ UNCHANGED <<captured, pending, reported, order, upsets>>

Completed(r) ==
    /\ net[r].started /\ ~net[r].completed
    /\ net' = [net EXCEPT ![r].completed = TRUE]
    /\ StartReading("completed", r, net[r].hop)
    /\ UNCHANGED <<captured, pending, reported, order, upsets>>

\* RESPONSE_BODY_CAPTURED: the page has read the body, under the URL it asked for.
BodyCaptured(r) ==
    /\ net[r].started /\ r \notin reported
    /\ reported' = reported \cup {r}
    /\ StartReading("body", r, 0)
    /\ UNCHANGED <<captured, pending, net, order, upsets>>

MockApplied(m) ==
    /\ m \notin reported /\ FewerThanMax
    /\ reported' = reported \cup {m}
    /\ StartReading("mock", m, 0) /\ Begins(m, 0)
    /\ UNCHANGED <<captured, pending, net, upsets>>

RepeatRequest(p) ==
    /\ p \notin reported /\ FewerThanMax
    /\ reported' = reported \cup {p}
    /\ StartWaiting("replay", p, 0) /\ Begins(p, 0)
    /\ UNCHANGED <<captured, pending, net, upsets>>

\* A replay whose fetch rejects stores nothing (while nothing overlapped, it began last).
ReplayFails(t) ==
    /\ t \in tasks /\ t.kind = "replay" /\ ~t.read
    /\ tasks' = tasks \ {t}
    /\ order' = IF overlapped THEN <<>> ELSE Tail(order)
    /\ UNCHANGED <<captured, pending, net, reported, overlapped, upsets>>

\* The user empties the list (or resets the workspace) in the side panel.
PanelClear ==
    /\ upsets < MaxUpsets /\ upsets' = upsets + 1
    /\ captured' = <<>> /\ order' = <<>>
    /\ overlapped' = (overlapped \/ tasks # {})
    /\ UNCHANGED <<pending, tasks, net, reported>>

\* The browser stops the worker; the next event starts it with an empty memory.
WorkerRestart ==
    /\ upsets < MaxUpsets /\ upsets' = upsets + 1
    /\ pending' = <<>> /\ tasks' = {}
    /\ overlapped' = (overlapped \/ tasks # {})
    /\ UNCHANGED <<captured, net, reported, order>>

Next ==
    \/ \E r \in Requests :
          \/ BeforeRequest(r) \/ RedirectedRequest(r) \/ SendHeaders(r)
          \/ ResponseStarted(r) \/ Completed(r) \/ BodyCaptured(r)
    \/ \E m \in Mocks : MockApplied(m)
    \/ \E p \in Replays : RepeatRequest(p)
    \/ \E t \in tasks : ReadCaptured(t) \/ Write(t) \/ ReplayFails(t)
    \/ PanelClear
    \/ WorkerRestart

Spec == Init /\ [][Next]_vars

-----------------------------------------------------------------------------------
(* Properties.                                                                     *)

\* However the handlers interleave, a record says of its request only what happened to
\* it: headers that were sent for it, a first byte and an answer it had; and a body only
\* of an exchange with its own method and URL (index.ts:346, 377, 411, 1204-1209).  No
\* request is listed twice for the same URL, and the body of one answer is never in two
\* places: a taken body leaves the buffer (index.ts:1186-1195), an attached one is
\* attached once (index.ts:1201-1218).  The list and the buffer keep their caps.
RecordsTellOwnEvents ==
    /\ Len(captured) <= MaxCaptured /\ Len(pending) <= PendingLimit
    /\ \A i \in DOMAIN captured : LET c == captured[i] IN
          /\ c.id \in Requests =>
                /\ c.headers => \E h \in net[c.id].sent : h >= c.hop
                /\ c.firstByte => net[c.id].started
                /\ c.answered => net[c.id].completed
          /\ c.body # NoBody => c.answered /\ c.body \in reported /\ KeyOf[c.body] = c.key
    /\ \A i \in DOMAIN pending :
          pending[i].body \in reported /\ KeyOf[pending[i].body] = pending[i].key
    /\ \A i, j \in DOMAIN captured :
          i # j => /\ <<captured[i].id, captured[i].hop>> # <<captured[j].id, captured[j].hop>>
                   /\ captured[i].body = NoBody \/ captured[i].body # captured[j].body
    /\ \A i \in DOMAIN captured, p \in DOMAIN pending : captured[i].body # pending[p].body
    /\ \A p, q \in DOMAIN pending : p # q => pending[p].body # pending[q].body

Quiet == tasks = {} /\ ~overlapped

\* As long as no handler ran into another one, the list holds the newest requests in the
\* order they began, each with all the browser has reported of it, through redirects,
\* clears and restarts of the worker; and no answered request of a page lacks a body that
\* the worker holds for its method and URL: "if none exists yet, we buffer the body so
\* onCompleted can pick it up" (index.ts:1177-1180).  (Handlers that overlap lose each
\* other's writes.)
QuietListIsComplete ==
    Quiet =>
        /\ Len(captured) = IF Len(order) < MaxCaptured THEN Len(order) ELSE MaxCaptured
        /\ \A i \in DOMAIN captured : LET c == captured[i] IN
              /\ order[i] = [id |-> c.id, hop |-> c.hop]
              /\ c.id \in Requests =>
                    /\ c.headers = \E h \in net[c.id].sent : h >= c.hop
                    /\ c.firstByte = net[c.id].started
                    /\ c.answered = net[c.id].completed
        /\ \A p \in DOMAIN pending, i \in DOMAIN captured :
              captured[i].id \in Requests => i \notin WaitingForBody(captured, pending[p].key)
===============================================================================
