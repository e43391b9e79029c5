# A TLA+ development of QA.Interceptor Platform

This directory models the interception proxy of this repository (`cmd/`, `internal/`) and the
browser extension it grew out of (`legacy/abandoned/`) in TLA+, checks the models with TLC and
proves part of what they say with TLAPS. Every definition is a translation of code; `PROJECT.json`
("map") names the lines each one stands for.

## The system

### The proxy

A local HTTP(S) proxy with an inspection UI. One process runs:

| Component | Code | State it keeps | Operations | Modules |
|---|---|---|---|---|
| Capture store | `internal/capture/capture.go` | the captured records, `nextID`, the cap | `Observe`, `List`, `Get`, `Clear` | `CaptureLog`, `CaptureStore`, `InspectionPage_proofs` |
| Request relay | `internal/proxy/proxy.go` (`serveRelayed`), `connwriter.go` | per request: body, exchange, response | read, decide, relay, respond, notify, flush | `Relay`, `Interceptor`, `Interceptor_proofs` |
| Rule engine | `internal/rules/rules.go` | the rules in priority order (immutable) | `Matches`, `Match`, `FirstMatch` | `RuleSet`, `Interceptor_proofs` |
| Decrypted session | `proxy.go` (`serveDecrypted`) | the connection and a reader per turn | read a request, serve it, flush, go on or close | `DecryptedSession`, `DecryptedSession_proofs` |
| CONNECT tunnel | `proxy.go` (`handleConnect`, `mitmTunnel`, `rawTunnel`) | two connections, two copiers, the channel `done` | hijack, answer 200, decrypt or splice, close | `Tunnel`, `Tunnel_proofs` |
| Certificate authority | `internal/mitm/ca.go` | `ca-cert.pem`, `ca-key.pem` | `LoadOrCreateCA`, `persist`, `loadCA` | `CertAuthority` |
| Leaf certificates | `internal/mitm/leaf.go` | the cache by host | `CertForHost`, `TLSConfigForHost` | `LeafCache`, `Process_proofs` (both authorities) |
| Start and stop | `cmd/proxy/main.go` | two servers, the shutdown context | start in order, wait for a signal, two `Shutdown`s | `Lifecycle`, `Process_proofs` |
| Inspection UI | `internal/ui/ui.go`, `static/index.html` | `latest`, `selectedId`, the drawer | poll, open a detail, clear, close | `InspectionPage`, `InspectionPage_proofs` |

How they interact. `ServeHTTP` runs on a goroutine per plain request and calls `serveRelayed`; a
CONNECT hijacks the connection and runs `serveDecrypted` (which calls `serveRelayed` in a loop,
with a `connResponseWriter`) or `rawTunnel` (which starts two `io.Copy` goroutines). Each
`serveRelayed` consults the rules (read-only) and calls the observer once; the observer of `main`
is the stdout logger and the capture store, whose mutex is the only lock between requests and UI.
A TLS handshake calls the leaf cache, which signs with the CA that `main` loaded. The page reaches
the store through four JSON handlers, by polling. Two processes meet only in the CA's files.

### The archived extension

Read-only, not built by the program, and the larger part of the code: a Chrome extension and a
package of pure functions, under `legacy/abandoned/`.

| Component | Code | State it keeps | Operations | Modules |
|---|---|---|---|---|
| Background worker: captured traffic | `extension/src/background/index.ts` | the captured list (stored), bodies and identities waiting (in memory) | the `webRequest` listeners, page messages | `BackgroundCapture`, `BackgroundCapture_proofs` |
| Background worker: rules | the same | the chain of synchronisations, the browser's dynamic rules | seeding, `syncDynamicRules`, the report, injected scripts | `DynamicRules`, `Workspace`, `Workspace_proofs` |
| Storage | `extension/src/storage/index.ts` | rules, groups, sequence mocks, assertions | guarded reads, whole-list saves, change events | `StoredShapes`, `Workspace` |
| Rules, mocks and settings views | `extension/src/sidepanel/` (`main.ts`, `features/`) | the lists as last read, the selection, the editor's fields | load, draw, and each button that saves | `RuleEditing`, `Workspace` |
| Content script | `extension/src/content/injector.ts` | none; it reads and publishes | publish at start and on each change | `Workspace`, `Workspace_proofs` |
| Mock bridge | `extension/src/content/mock-bridge.ts` | rules, variables, mock counters, listeners on XHR objects | `fetch` and `XMLHttpRequest` replaced, `RULES_UPDATE` | `MockBridge`, `RuleEngine_proofs` |
| Rule-engine package | `packages/rule-engine/src/` | none, but the counters of conditional mocks | rule evaluation, conflicts, JSON contracts, traffic reports, text diff | `RuleEngine`, `JsonContracts`, `TrafficReports`, `TrafficAnalysis`, `TextDiff`, `RuleEngine_proofs` |
| Network and history views, panel utilities | `features/network.ts`, `history.ts`, `shared/` | filters, the progress of a replay | rendering, export, replays | not modelled |

How they interact. Nobody locks `chrome.storage.local`: every context reads lists, waits, writes
whole lists back and learns of the others' writes by an event. The worker turns the stored rules
into the browser's; the content script posts them to the bridge in the page, which has no access
to the storage; the bridge posts what it answered to the content script, which forwards it to the
worker.

### What is hard

and which properties answer it. In the proxy:

- **One request, many endings** (`serveRelayed`): refused by a rule, dial or round trip failed,
  body cut on either side, client gone, or relayed; each must report exactly once
  (`ReportedExactlyOnce`), record what was really sent and received (`CaptureTellsTheExchange`),
  with the headers the last rewrite of each name left (`LastRewriteWins`), and end (`EveryRequestReturns`, `GoneClientIsReleased`).
- **Order of report and answer**: in a tunnel the answer is flushed after the report, a plain
  answer may leave before it (`TunnelAnswersAreReportedFirst`, `AnsweredTunnelRequestIsListed`).
- **A capped, clearable store under concurrent writers**: `RetainsNewest`, `IDsAreNeverReused`,
  `EveryReportIsCaptured`, and that it is the log it promises to be (`ImplementsCaptureLog`).
- **Buffers and keep-alive**: a `bufio.Reader` per turn throws away what it read ahead
  (`ExchangesMatch`, `PatientClientIsAnswered`).
- **Two goroutines, two connections, one channel**: `FirstToCloseIsHeard`, `NothingStaysBehind`.
- **Crashes between file operations, and time**: `ServedLeavesAreTrusted`,
  `YoungRunsServeValidLeaves`.
- **Shutdown**: a shared deadline, hijacked connections the servers do not know
  (`ServedRequestsAreWaitedFor`, `StopsInTheEnd`).
- **Replies in any order on the page**: `PageTellsTheTruth`, `PageConverges`.

In the extension:

- **Read, wait, write back**: listeners over one captured list (`RecordsTellOwnEvents`,
  `QuietListIsComplete`), panels over the lists of rules and groups (`GroupsStayOrdered`).
- **A synchronisation that is always a step behind**: storage to browser through a promise chain
  that survives a refusal (`QuietBrowserIsCurrent`, `WorkerComesToRest`), storage to bridge through
  two reads and a message (`QuietBridgeIsCurrent`).
- **Calls that outlive the rules they began with**, and XHR objects that are sent again:
  `CallsFollowTheRulesTheyBeganWith`, `CapturesTellTheirCall`, `ReportsTellWhatThePageGot`,
  `SequencesAnswerInOrder`, `EveryCallSettles`.
- **Pairs of algorithms that must agree**: the conflict detector with the evaluation
  (`ShadowedRulesAreReported`), inference with validation (`InferredSchemaAcceptsSamples`),
  comparison with the path lookup (`CompatibleBodiesKeepPaths`), a comparison with its mirror image
  (`RegressionsMirror`), two reports on one capture (`TrafficReportsAddUp`), a diff with its texts
  (`DiffRebuildsBothTexts`), four sets of guards over one storage (`ListedValuesAreApplied`).

`PROJECT.json` lists the hazards line by line, also those no property covers and why.

## The modules

**`CaptureLog`** is the promise of the store: a set of observed exchanges with increasing numbers,
of which the newest `MaxItems` since the last clear are held. **`CaptureStore`** is the code: a
slice appended to and cut at the front. Each operation holds `Store.mu`, so each is one action;
`List` and `Get` are the operators the handlers return. `ImplementsCaptureLog` maps the slice to
the set of its records.

**`RuleSet`** translates the matching of `rules.go` and the two loops of `applyHeaderRewrites`, each
a function from the number of turns to the headers after them (no recursive operator: `Relay` is
proved about). A method is a pair of its name and its spelling, because the comparison ignores case;
a URL is the set of fragments it contains, which is all `strings.Contains` asks.

**`Relay`** has one action per step of `serveRelayed` between which another goroutine or a peer
can act. `pc[g]` is the place of goroutine `g`: `reading` (body), `deciding` (rules), `refusing`,
`waiting` (RoundTrip), `receiving` (response body), `reporting`, `failed`, `returning`. Bodies are
sizes with what arrives of them; header maps are functions over a few names with `Absent`; the
`exchange` is the record the code builds, in the order it builds it. `via` tells plain from
tunnelled requests: the first have a context net/http cancels and a writer that may send early,
the others a background context and a `connResponseWriter` that sends at `flush`.
What the handler writes (`written`) is not yet what the client gets. `Flushed` is `flush`: it sets
`Content-Length` to what was written and deletes `Transfer-Encoding`, after every rewrite of a rule.
`Served` is what net/http's server does for a plain request: a declared length binds the handler (a
longer body is refused, a shorter one leaves the response incomplete), without one the server
declares the length or sends chunks, and it finds out the type of a body that has none. `HttpError`
and `HttpRedirect` are net/http's helpers, with the headers and the body they choose: a newline after
the text, a target joined to the path that was asked for. These last three stand for a library and
are taken from its documentation, as far as the handler can see it. Left out are `Date`, `Connection`,
the status text, what the transport adds to a request (`Host`, `User-Agent`, `Accept-Encoding`), and
HEAD requests, whose answer in a tunnel says `Content-Length: 0`.

**`Interceptor`** composes `Relay` with `CaptureStore` (INSTANCE): the step of a goroutine that
calls the observer and the store's `Observe` are one joint step, and the UI's clear comes between
any two.

**`DecryptedSession`** is the loop of `serveDecrypted` over a stream of pieces `<<i, k>>` (the `k`th
piece of the `i`th request, its head first), the reader's buffer and what of it survives a turn. A
turn may find any piece first. From the beginning of a request `http.ReadRequest` reads that
request; anywhere else it reads what the bytes happen to say, so `Framings` allows an error and every
request nobody sent, of any size up to `MaxStray`, with or without a close. `serveRelayed` is three
steps here: it has the request, it waits for its origin (which may be silent for ever), it is back.
The request's `close` may have been set by a rule that rewrote its `Connection` header, because the
loop looks at the header after the rewrites (`proxy.go:373`). A client is `patient` (it waits for
each answer) or not.

**`Tunnel`** follows one CONNECT from the hijack to the last `Close`: the handler, the two copies,
the channel with its capacity, and peers that write, finish writing, close their socket or reset
their connection at any time. A connection also breaks when bytes reach a socket its peer has closed.
On a broken one a read may fail although bytes are waiting, and `io.Copy` ends there. The decrypted
case is one state (`DecryptedSession` is its inside). What the kernel's buffers hold when the proxy
closes a connection is not followed: a byte counts as carried when it was written to the receiver's
connection.

**`CertAuthority`** makes every file operation a step, `os.WriteFile` two (truncate, write), with
processes that may find a step failing (`StepFails`), or die between any two. A key pair is a number. **`LeafCache`** extends it: runs
that are up sign leaves with the CA they hold, keep them until they end, and a clock goes on.

**`Lifecycle`** is `main` with its failures, the signal, the two `Shutdown`s and the requests of
each kind in flight. **`InspectionPage`** extends `CaptureStore` with the page's fetches; each is
sent, handled and answered in separate steps, in any order, and may fail.

**`BackgroundCapture`** is the background service worker of the archived extension. Every listener
reads the whole captured list from `chrome.storage`, waits, and writes a whole list back: a handler
is a task with its snapshot, `StartReading` (or `StartWaiting` and `ReadCaptured`, when it loads the
rules first) and `Write`, which is the code after the `await`. What `takePendingResponseBody` removes
from the buffer of bodies is `LeftBy`. The browser's events, page messages,
the side panel's clear and a stop of the worker come between. A body is the identity of the exchange
it answers; method and URL are a key that requests can share. Overlapping handlers do lose updates:
an `onSendHeaders` that reads before and writes after an `onBeforeRequest` removes the request from
the list, and a body that arrives between `onCompleted`'s read and write stays in the buffer for
ever, although the comment at `index.ts:1177` has `onCompleted` pick it up. The history variable
`overlapped` says when that can have happened; `QuietListIsComplete` holds until then,
`RecordsTellOwnEvents` always.

**`RuleEngine`** translates the matching, ordering, conflicts and conditional mocks of the
rule-engine package (which is another code than `rules.go`): a text is the set of the fragments it
holds. **`JsonContracts`** has the schema validator, inference, comparison and assertions over
JSON values as tagged records; it is recursive, so nothing is proved about it or in modules that
use it. **`TrafficReports`** has anomalies, bottlenecks and bandwidth, with ratios compared by cross
multiplication; what the code filters, sorts and adds up is defined by ranks and positions, so that
it can be proved about. **`TrafficAnalysis`** adds the regressions, which compare bodies.
**`TextDiff`** has the line diff: the table of lengths, the trace through it and the
rows are functions of pairs of positions, each defined by its own values at other pairs.
**`StoredShapes`** has the type guards through which the panel, the worker, the content script and
the import of a file read the same values: a value is the function from its fields to what `typeof`
says of them. **`RuleEngineInputs`** builds inputs step by step, one element at a time, so that a state
is an input, and states what must hold of rules, traffic, texts and guards; **`RuleEngineChecks`**
adds what must hold of JSON bodies and of sessions, and is apart because it reaches recursive
operators.

**`MockBridge`** extends `RuleEngine`. JavaScript runs one task at a time, so an action is what
happens between two awaits, timers or events: a call begins (the rules are sorted, a sequence is
advanced and a plan is made), wakes from its delay, gets its answer, and is settled. `calls[c].plan`
is what the closure of the code holds, `listeners` and `shadow` what a sent XMLHttpRequest object
keeps: its old load listeners and the properties defined over its own. A page of the model is a
function from its calls to what they ask for, so that two calls may share one object. One thing is
assumed of pages, `Free`: an object is opened and sent again only when its last call is over. The
bridge does not see to that; the timer of a delayed call on an object that was opened again would
send the new request with the old body (`mock-bridge.ts:403-412`, `:440`), and all five properties of
the run are about pages that do not do this. A captured body of more than 100 000 characters is posted
as its marked beginning (`trimmed`), and one of an object with another `responseType` than text not
at all (`Heard`).

**`DynamicRules`** is how stored rules become the browser's: the guard, the groups, the mapping of
every type to an action, the clamped priority, the report and the injected scripts. **`RuleEditing`**
is what the panel makes of the lists it holds when a button is pressed. **`Workspace`** extends both
and puts the contexts together. The worker is a program counter (`idle`, `groups`, `update`,
`report`) with what it has read, and a count of synchronisations chained behind; a panel has its
lists, its selection and the fields of its editors, a load that reads key by key, and a queue of
change events; the page has the publications that are on their way. A save is one step with the
event it causes, because no later step of the saving code depends on when it lands. What starts
fresh, who may open what and how often something is edited is a scene: one run visits several.

## The runs

| Run | Configuration | Shows | Bounds |
|---|---|---|---|
| `inspection_page` | `InspectionPage.cfg` | the store keeps the newest and reuses no ID, implements `CaptureLog` (its type is a theorem); the page never shows another request's data and converges | 2 kept of 3 observed (an eviction), 1 clear, 2 fetches at a time (they can overtake), 1 failure |
| `relay` | `MCRelay.cfg` | one request on every path: reported once, captured as it was, its headers rewritten in order, ended | 1 request (goroutines share only the store: `interceptor`), 6 rule files in which order matters, one of them rewriting what the writers own; bodies of 0 to 2 with a capture limit of 1: below, at and over; an origin that declares the length or does not |
| `interceptor` | `MCInterceptor.cfg` | two goroutines, the store and a clear: no report is lost or mixed up | 2 requests, a store of 1, so that each can evict the other; symmetric in the requests |
| `decrypted_session` | `DecryptedSession.cfg` | a patient client's requests are relayed as sent and answered; of a pipelining one nothing is relayed twice, out of order, or as a request nobody sent before a beginning was lost | 3 requests of 2 or 3 pieces, requests nobody sent of up to 3, every split of the stream into reads |
| `tunnel` | `Tunnel.cfg` | of connections that stand, the peer that closes first is heard to the end; nothing stays behind | one CONNECT (they share nothing), a decrypted and a spliced host, up to 2 reads in each direction, every peer free to half-close, close or reset |
| `certificates` | `LeafCache.cfg` | runs that fail or die anywhere, one starting at a time: every later leaf is one the user trusts | 2 processes, 4 starts (two that die, one that repairs, one that loads), 2 hosts, a clock past the validity |
| `lifecycle` | `Lifecycle.cfg` | requests net/http serves are waited for; a signal ends the process | 3 requests, each of any kind |
| `background_capture` | `BackgroundCapture.cfg` | what the extension lists is true and listed once, whatever overlaps; it is complete and bodies are picked up until handlers overlap | 2 exchanges out of two page requests (one may be redirected to the URL of the other), a mock and a replay; 2 handlers at a time; a list of 2 and a buffer of 1, so that both are cut; one clear or restart |
| `rule_engine` | `MCRuleEngine.cfg` | seven pairs of algorithms agree | every input of up to: 2 rules (a conflict is between two), 3 bodies (nested deeper than inference follows, with arrays longer than it looks at), 6 captured requests (an outlier needs 4 of one endpoint), 2 requests of a baseline and 2 of a session, texts of 4 lines, stored values with 2 fields changed |
| `mock_bridge` | `MCMockBridge.cfg` | calls follow one set of rules, tell what they got, and settle | a fetch and two XMLHttpRequests, on one object or on two; 2 updates out of 5 sets of rules: mock, status, delay, rewrite, sequence; answers with a body, a long one, none, and an opaque one |
| `workspace` | `MCWorkspace.cfg` | when nothing is on its way, browser and bridge have the stored rules | four scenes: the installation and one edit; a page and two edits of mocks; two edits in any view and a restart of the browser; two panels with two edits of rules and groups |
| `workspace_profile` | `MCWorkspaceProfile.cfg` | a violation, see below | the same |

`CHECK_DEADLOCK FALSE` stands where the system may stop: all requests done, a process exited, a
tunnel closed, an input complete, or a bound reached. Symmetry is used in `interceptor` only, which
has no liveness property.

Where the bounds could hide something: in `workspace` a panel is not followed beyond the last edit,
when what it shows can no longer reach the storage; the built-in rules and groups of the code are
the lists that are edited, with one rule and one group touched, and inputs chosen for what the code
tells apart (a header the browser refuses, a priority that is not a number, a payload that is not an
object, a script; a file with a rule no reader keeps, one only some readers keep, and one whose id is
taken). Two edits are needed and enough for one to take back or to overtake the other.

### Fairness

- `Relay.FairSpec`: the scheduler runs every goroutine that can move; a read from a broken
  connection returns; a cancelled context ends RoundTrip and the response body; net/http notices a
  broken connection once the request was read. Nothing is assumed of silent peers, as the code
  sets no timeout: `EveryRequestReturns` is therefore conditional on `[]<>~WaitsForPeer(g)`, and
  `GoneClientIsReleased` covers plain requests only (a tunnelled request has no context that ends
  with its client).
- `DecryptedSession.FairSpec`: the loop goes on while it has something to read or to write, and an
  answer that is written is taken. Neither client nor origin owes anything: the relay has no timeout
  (`proxy.go:363`), so `PatientClientIsAnswered` has as its hypothesis that no origin stays silent for
  ever (`[]<>(pc # "origin")`).
- `Tunnel.FairSpec`: handler and copiers run; the dial has a timeout; a handshake returns when its
  client has left; a peer that is there reads, so that a `Write` returns (the code sets no deadline:
  without this assumption a copier may block for ever). A session is not assumed to end, not even
  when its client has left: it may be waiting for a silent origin with a background context. So
  `NothingStaysBehind` has the hypothesis `SessionDoesNotLastForEver`, which a splice always meets.
- `Lifecycle.FairMainSpec`: `main` goes on and its timer fires; neither requests nor users owe
  anything.
- `InspectionPage.FairPage`: `setInterval` fires for ever and each fetch is handled and shown or
  fails. Polls get strong fairness because the finite set of fetches is shared with clicks, which
  in a browser cannot hold the timer up.
- `MockBridge.FairSpec`: a timer fires, the body of an answer that has come is read, and every
  request that went out is answered or fails; a browser that waits for a silent server has a limit
  of its own. The page owes no call.
- `Workspace.FairSpec`: the event loop runs what is due in the worker (weak fairness of `Worker`,
  with its ENABLED written out as `WorkerIsDue`); users, panels and pages owe nothing.

### Where the code and its documents differ

The run `workspace_profile` checks one sentence of the code's own text, and TLC shows a behaviour
that breaks it: the profile "Network Failure" "Blocks all API calls" (`settings.ts:82`), but its rule
is stored with the group `grp-error-profiles`, which no list of groups contains, and the worker
drops rules of groups that are not there.

Also false, and stated in the modules beside the properties that do hold; adding the name to the
module's configuration shows the behaviour:

| Statement | Said at | What happens | What does hold |
|---|---|---|---|
| `Relay`: `FullBodyIsRelayed` | `proxy.go:45` | `io.ReadAll`'s error is dropped for both bodies (`proxy.go:158`, `:191`): a body that breaks off is passed on as complete | `CaptureTellsTheExchange` |
| `DecryptedSession`: `EveryRequestIsAnswered` | `proxy.go:354` | what a turn's reader read beyond its request is lost (`proxy.go:358`) | `PatientClientIsAnswered` (also if no origin is ever silent) |
| `CertAuthority`: `RestartReusesCA` (with `Overlapping = TRUE`, two processes, three starts) | `BACKLOG.md:53` | two first starts write over each other's files (`ca.go:53`) | `ServedLeavesAreTrusted`, one start at a time |
| `Lifecycle`: `NothingInFlightIsDropped` | `BACKLOG.md:22` | `Shutdown` does not know tunnels (`main.go:102`) | `ServedRequestsAreWaitedFor` |
| `MockBridge`: `CallsAreNotDuplicated` | comments of `mock-bridge.ts` | a rewrite that fails sends the request again | `CallsFollowTheRulesTheyBeganWith` |
| `Workspace`: `ListOrderIsBrowserOrder` | the panel's list | the priority is clamped to 9999 although groups count 100000 each (`index.ts:998`), so order between groups is lost | `QuietBrowserIsCurrent` |
| `RuleEngineChecks`: `InferredSchemaAcceptsWholeSamples` | `schema-inference.ts:18`, `:78` | the schema of the items is inferred from the first items only (`:190`), and the validator reads them all: a later item of another type is refused | `InferredSchemaAcceptsSamples`: the samples as far as inference looks at them |
| `RuleEngineChecks`: `UnchangedTrafficHasNotDrifted`; `RuleEngineInputs`: `SpikesAreSlow` | headers of the two detectors | a body that is not JSON has drifted from itself; an outlier may be a fast request | `RegressionsMirror`, `TrafficReportsAddUp` |

Met while modelling, and part of the models:

- a splice ends with either direction (`proxy.go:350`), so a peer that closes only its writing side
  loses the answer; it also ends when either connection is reset, with bytes of either peer unread;
  a cached leaf is never checked for its expiry (`leaf.go:39`), so a run older than a leaf's validity
  serves it expired;
- in a tunnel, the rest of a request whose beginning went with an old reader is read as if a request
  began there: a body that looks like a request is relayed as one (only clients that pipeline meet
  this);
- a rule cannot set `Content-Length` or `Transfer-Encoding` of a tunnelled response, although the
  capture shows what it asked for; of a plain response a rule's `Content-Length` makes net/http refuse
  or cut short the body, while the capture has all of it;
- listeners of the worker that overlap lose each other's writes;
- a captured body of more than 100 000 characters is cut (`mock-bridge.ts:58`);
- a rule that only several others shadow together is reported by none of the pairwise checks of the
  conflict detector (`ShadowedRulesAreReported` is about one rule that shadows);
- panels save the lists they know, so a second panel, a second click before the event of the first
  save, or a click before the lists were read takes back, or overwrites, what was saved; a change
  between a panel's load and its listener is missed; drawing again discards what was typed;
- seeding reads and then writes, and a first rule saved in between is lost;
- an empty stored list counts as no list, so after deleting every rule, and after the reset, the
  browser has the built-in rules;
- an imported rule without `createdAt` is reported as imported, kept by no reader and erased by the
  next save; one whose `condition` is an array is applied and not listed; ids in a file may repeat;
- one rule the browser refuses keeps all rules from being replaced;
- the content script ignores groups, and its first publication may come before the bridge listens;
- the mock editor keeps a delay or headers that were cleared;
- an XMLHttpRequest object that is sent again posts the new answer for the old call, too, which
  `CapturesTellTheirCall` leaves out.

## The proofs

TLAPS proves what follows for every value of the constants. What is assumed of them is named where
they are declared: `MaxItems` is a positive number; `MaxCaptured`, `MaxBody`, `MaxObserved` and the
other bounds are numbers; `NoRecord` is not a record; requests, mocks and replays of
`BackgroundCapture` have different identities; rules of `MockBridge` have numbers for priority and
creation time (`isContentRule` asks for a number, and for a string that every writer fills with a
date); rules of `RuleEngineInputs` have the fields the type `Rule` gives them, and a method in upper
case, as `HttpMethod` lists them (two spellings of one method would match the same requests and not
overlap); a rule file of `Relay` is a list of rules, each with a list of header operations, and a
header map has text or nothing under every name of the run; the five header names with a part of
their own are different names, and different lengths are written differently (`Itoa`); captured requests of `RuleEngineInputs`
have a number for their time and for their size. Nothing else is assumed of rules, headers, hosts,
panels or inputs. Two theorems have `~Overlapping` as their hypothesis: one process starts at a time.

A theorem about a run's property is `Spec => []Property`, by an inductive invariant that TLC checked
before it was proved. Most properties are not inductive by themselves; what is added, and why:

- **`InspectionPage_proofs`**, first for the store: `TypeCorrect`, `NewestRetained`,
  `IDsNeverReused`, `StoreImplementsLog`. `TypeOK /\ RetainsNewest` is inductive: IDs are
  consecutive, so position and ID are the same thing, which is what makes the cut at the front drop
  exactly the oldest. `DropOldestKeepsTheNewest` and `ObserveAppends` say what a step does position
  by position; the refinement maps every `Observe` and `Clear` to the log's, and
  `GetFindsTheRecord` says that the lookup by ID is exact. Then for the page: `PageIsTruthful`, and
  `StoreBehindThePage` (every behaviour of store and page is one of the store, so the four theorems
  hold under the page). The yardstick is `log`, the exchanges ever observed: an ID is a position in
  it for good, so `Tells`, once true of a record, stays true however late the reply that carries it
  is shown. `PageInv` says it of all records, replies on their way, rows and drawer, and that a
  detail's reply is about the ID it was asked for.
- **`Interceptor_proofs`**, in three layers. `ReportsExactlyOnce` and `TunnelReportsFirst`: `IInv`
  ties, for every goroutine, what has been reported, asked of the origin and answered to its program
  point (`Progress`). `CaptureTells` and `RelayTypeCorrect`: `DataInv` adds what each field of the
  exchange holds at each program point (`Data`), because a record that is right when it is reported
  was assembled over several steps, and what the client gets is framed after the last of them
  (`FlushFrames`, `ServerFrames`: neither writer touches a header beside its own). `ReportsAreCaptured` and `TunnelAnswersAreListed`, of the
  composition: `StoreInv` says that the store holds entries of requests that have reported and
  nothing else, that their numbers are consecutive up to the last one given out, and that no two
  requests share one; so what is found under a request's number is its own record. At last
  `LastRewriteAlwaysWins`, about the two loops of `applyHeaderRewrites`: `OpsLeave` says what a rule's
  first `k` operations make of a header, `RulesLeave` what the first `k` rules do, both followed turn
  by turn, and `MatchInOrder` that the matching rules stand in the order of the file; `RewriteInv`
  keeps the headers before and after together until the response is given.
- **`DecryptedSession_proofs`**: `ExchangesAlwaysMatch`. The invariant is about one sequence,
  `line`: the pieces taken for the request in hand, what the reader holds, what is on the wire. Steps
  of the loop drop a part of its front, the client adds at its end, a broken connection cuts the end
  off, so it stays a run of pieces as they were sent (`LineIsContiguous`), even after a flush threw a
  reader away in the middle of a request, and all of it lies behind what was relayed (`HandledRuns`).
  Nothing is assumed of what `http.ReadRequest` makes of a piece that begins no request: what follows
  holds for requests nobody sent, too. `HandledOwn` says that what was read from a beginning is a
  request as it was sent, and `OneAtATime` that a patient client's line is empty while its request is
  served, so that every turn begins at a beginning. `TheFirstStrayComesOfALoss` looks back from the
  first request nobody sent to the beginning that was never relayed.
- **`Tunnel_proofs`**: `FirstToCloseHeard`. `Ending` says what the token in `done` is worth: while
  the splice stands, a copy stops only at the end of its stream with every byte handed on (`Counts`),
  or because a connection broke.
- **`Process_proofs`**, for `CertAuthority` and `LeafCache`: `RestartsReuseCA` and
  `ServedLeavesTrusted` under `~Overlapping`, `YoungRunsServeValid` without. `Files` says that the
  key file is complete exactly when some run has come up, and that both files then hold that run's
  CA; `Knows` what its checks have shown a run at each program point, in spite of the runs that died
  between two file operations before it. For `Lifecycle`: `ServedRequestsWaitedFor`, an action
  property; `StopInv` says which listeners are closed at each of the two `Shutdown`s, so that a
  request which still arrives is in a tunnel and what was waited for stays waited for.
- **`BackgroundCapture_proofs`**: `RecordsAlwaysTellTheirOwn` and `QuietListsAreComplete`. Handlers
  overwrite each other's lists, so what holds of the list in the storage must hold of every list a
  handler has read and not yet written (`Lists`), and what a handler has yet to add, a record or a
  body, must be in none of them. For completeness `AloneInv` describes the one handler that may be
  under way until two have overlapped, against `order`, the requests as they began.
- **`Workspace_proofs`**: `BrowserFollowsTheStorage` and `BridgeFollowsTheStorage`. A
  synchronisation may have read what was changed since, so the invariant is about debts: `Owes` says
  that another one is still to come; while none is, what the worker has read is what is stored
  (`Reading`), and at rest the browser has it (`Resting`). For the bridge, rules read to be
  published may be old only if a further publication is on its way. What becomes of a rule on the
  way is left unexpanded: the theorems hold whatever the mapping does. `GroupsAreOrdered`: the lists
  of groups in the storage, in every panel and in every event under way are sound (`GroupsInv`),
  because each edit of a list that is in order, however old, leaves it in order.
- **`RuleEngine_proofs`**, first for `MockBridge`: `CallsAlwaysFollowTheirRules`, `ReportsAlwaysTellWhatThePageGot`,
  `CapturesAlwaysTellTheirCall`, `SequencesAlwaysAnswerInOrder`. `FirstOfTypeGoverns` is about the
  sort: a rule's place in the sorted list is the number of rules before it, so places are a
  permutation, and the first of a type among those that match is the one no other precedes, which
  `Governing` picks without sorting. Every action but an update is then shown to be an `Outcome`:
  one call moves on and posts nothing, its report, or the captures of the calls its object still
  has listeners of. The inductive invariant is `CallsInv`: what a call holds at each place of its
  life (`CallsStand`, with what it has sent and which rules its plan was made from), that its report
  is posted exactly when it is settled (`ReportsFollow`), that a listener belongs to a call sent on
  that object (`ListenersWereSent`) and what a capture tells (`CapturesTell`). `OrderInv` adds the
  counters: a mock's count is the number of calls in `order` it has answered.
  Then for `RuleEngineInputs`. `ShadowedRulesAreAlwaysReported` rests on the same order of the rules:
  the request made of a rule's own condition shows that the rule before it has no greater priority
  and overlaps. `DiffsAlwaysRebuildBothTexts`: the tables of `TextDiff` are functions that are defined
  by themselves, so `TablesExist` shows first that there are such functions (every entry is made
  from entries of lesser rank); `MatchesAreEqualLines` and `WalksTell` then follow trace and rows by
  `RankInduction`, the latter with `ToldFrom`, what the rows from a corner to the end show.
  `ListedValuesAreAlwaysApplied` compares the guards field by field. `TrafficReportsAlwaysAddUp` is
  five statements about numbers: every rank in an order is taken once (`RanksAreTaken`), so what is
  filtered or sorted counts as much as what it is made from (`PicksCount`); a total is the size of a
  set of units (`DisjointTotal`, `PickedTotal`), and those of the endpoints are those of the capture
  (`BandwidthAddsUp`); `AscendingNumbers` says how many numbers are at most and how many less than the
  `k`th, which gives the 90th percentile and the slowest request (`BottlenecksAddUp`) and, applied to
  the deviations, that half of them are below an outlier's (`OutliersLieFarther`). Inputs of any
  length.

Only model-checked, and why:

- liveness (`EveryRequestReturns`, `GoneClientIsReleased`, `NothingStaysBehind`, `StopsInTheEnd`,
  `PageConverges`, `PatientClientIsAnswered`, `WorkerComesToRest`, `EveryCallSettles`): it rests on
  fairness, which needs ENABLED;
- what JSON bodies and sessions must satisfy (`InferredSchemaAcceptsSamples`,
  `CompatibleBodiesKeepPaths`, `RegressionsMirror`): `JsonContracts` recurses over values of any depth
  with recursive operators, which the prover cannot reason about. (Recursion over numbers or positions
  can be stated as a function and followed by a least counterexample, as is done for header rewrites,
  totals and diffs.)

## Not modelled

- `mock-response` and `rewrite-response-body` rules: `rules.go` accepts them, nothing applies them.
- Parsing of flags, rule files, certificates and HTTP itself; the text of logs; HTML and CSS.
- `Expect: 100-continue` inside a tunnel, bytes a client sends before the 200, and peers that stop
  reading: listed as hazards with the assumption made.
- Of the extension: the network and history views. A replay's progress lives in the variables of one
  panel, so cancelling one and starting the next while the first still waits (`history.ts`) is an
  interleaving of one context with itself that these models do not have. The import of a HAR file
  merges the panel's copy of the captured list (and cuts it at 100 before it sorts).
- Environment variables, which no view edits, in `Workspace`; they are part of `MockBridge`.
- Panel utilities, exports, themes, dialogs, rendering: conversions of text without a protocol.
- In `BackgroundCapture`, rule evaluation is only the time it takes; in `Workspace`, what a script
  that was injected does.

## Plan

Done, in this order: capture store with its abstract log and proofs; relay with rules and its first
proofs; their composition; session, tunnel, certificates, lifecycle; the page; then, of the archived
extension, the captured list, the rule-engine package, the mock bridge, and the workspace of storage,
worker, panels and page.

Next, extending the model: replays of the history view, and one `Interceptor` with the page on top,
so that a click sees what concurrent requests did.

Proved, in this order: the store; the relay; tunnel, authority and leaves, session; the page; the
captured list; the composition of relay and store; the workspace; the mock bridge; the order of
groups, the shutdown, header rewrites; shadowed rules, diffs, guards and traffic reports.

Next, proving more: `RegressionsMirror`, which needs of the comparison of bodies only that its mirror
image finds as much, once that comparison is a function of depth instead of a recursive operator.
