-------------------------------- MODULE Relay --------------------------------
(***************************************************************************)
(* serveRelayed of internal/proxy/proxy.go: the life of every request the   *)
(* proxy handles, whether it came over plain HTTP (via = "plain", written   *)
(* through net/http's ResponseWriter) or out of a decrypted tunnel (via =   *)
(* "mitm", buffered by the connResponseWriter of connwriter.go and flushed  *)
(* when the handler has returned).  Each request runs on a goroutine of its *)
(* own; any of them may find its client or its origin gone at any step.     *)
(*                                                                          *)
(* A body is a number of bytes.  A body on its way is [sent |-> how many    *)
(* bytes its sender will send, has |-> how many arrive]: has < sent when the *)
(* sender fails in the middle.  What the handler writes is not yet what the *)
(* client gets: flush and net/http's server frame it, and net/http's helpers *)
(* for errors and redirects choose headers of their own.                    *)
(***************************************************************************)
EXTENDS RuleSet

CONSTANTS
  Reqs,         \* the requests of a run, one goroutine each
  RuleLists,    \* the rule files the proxy may be started with
  Requests,     \* requests a client may send: [method, url, headers]
  OriginHeaders,\* response headers an origin may send
  HeaderNames,  \* the header names of a run
  HopByHop,     \* the names of hopByHopHeaders
  Location,     \* the name of the Location header,
  ContentLength,      \* and of Content-Length,
  TransferEncoding,   \* Transfer-Encoding,
  ContentType,        \* Content-Type
  NoSniff,            \* and X-Content-Type-Options
  Generated,    \* a header value net/http chooses by itself
  Itoa,         \* Content-Length's value for a number of bytes
  Resolve,      \* Resolve[<<target, url>>]: where http.Redirect sends a
                \* client that asked for url (a relative target is joined
                \* to the path it asked for)
  Nothing,      \* no value yet
  MaxCaptured,  \* maxCapturedBody
  MaxBody       \* bound on the size of a body

ASSUME CapAssumption == MaxCaptured \in Nat \ {0} /\ MaxBody \in Nat

(* A rule file is a list of rules, a rule has a list of header operations,  *)
(* and an http.Header has a value or none under every name.                 *)
ASSUME DataAssumption ==
  /\ \A list \in RuleLists :
       /\ list \in Seq(Range(list))
       /\ \A i \in DOMAIN list : list[i].headers \in Seq(Range(list[i].headers))
  /\ \A request \in Requests : DOMAIN request.headers = HeaderNames
  /\ \A headers \in OriginHeaders :
       DOMAIN headers = HeaderNames /\ headers[ContentLength] = Absent

(* The headers with a part of their own are five names.                     *)
ASSUME NamesAssumption ==
  LET names == <<Location, ContentLength, TransferEncoding, ContentType, NoSniff>>
  IN /\ \A i \in 1 .. 5 : names[i] \in HeaderNames
     /\ \A i, j \in 1 .. 5 : names[i] = names[j] => i = j

(* The lengths a run may write, in decimal: different numbers look different. *)
ASSUME LengthAssumption ==
  /\ DOMAIN Itoa = 0 .. MaxBody + 2
  /\ \A m, n \in DOMAIN Itoa : Itoa[m] = Itoa[n] => m = n
  /\ \A n \in DOMAIN Itoa : Itoa[n] # Absent

VARIABLES
  rules,        \* the loaded rules in priority order; never changes (empty
                \* also stands for a nil engine)
  pc,           \* where the goroutine of a request is
  call,         \* the request as the client sent it
  clientOpen,   \* whether the client's connection still stands
  ctxDone,      \* whether the request's context is cancelled
  exchange,     \* the Exchange under construction
  origin,       \* the requests the origin received for it
  resp,         \* the origin's response as RoundTrip returned it
  written,      \* what the handler gave its ResponseWriter
  client,       \* the responses the client received
  observed      \* the exchanges passed to the observer

vars == <<rules, pc, call, clientOpen, ctxDone, exchange, origin, resp,
          written, client, observed>>

(* What only the surroundings of a goroutine change. *)
context == <<rules, clientOpen, ctxDone>>

-----------------------------------------------------------------------------

StatusForbidden == 403
StatusFound == 302
StatusBadGateway == 502
StatusOK == 200

(* "blocked by rule: ...", "proxy relay error: ...": some text. *)
RefusalText == 1

NoBody == [size |-> 0, truncated |-> FALSE]

(* Faulty: off by one at the limit. *)
ClampOneOver(n) == IF n <= MaxCaptured + 1
                   THEN [size |-> n, truncated |-> FALSE]
                   ELSE [size |-> MaxCaptured + 1, truncated |-> TRUE]

(* clampBody *)
Clamp(n) == IF n <= MaxCaptured
            THEN [size |-> n, truncated |-> FALSE]
            ELSE [size |-> MaxCaptured, truncated |-> TRUE]

NoHeaders == [n \in HeaderNames |-> Absent]

RemoveHopByHop(h) == [n \in DOMAIN h |-> IF n \in HopByHop THEN Absent ELSE h[n]]

EmptyExchange ==
  [status |-> 0, err |-> FALSE, reqHeaders |-> NoHeaders, reqBody |-> NoBody,
   respHeaders |-> NoHeaders, respBody |-> NoBody]

(* rules.Request of a call, and the rules of the two hooks. *)
Matched(g) == Match(rules, call[g].request)
ShortCircuit(g) == FirstMatch(rules, call[g].request, {"block", "redirect"})

(* What a handler gives its ResponseWriter.                                 *)
Answer(status, headers, size) ==
  [status |-> status, headers |-> headers, size |-> size]

(* The headers that say where a body ends: the writers own them.            *)
Framing == {ContentLength, TransferEncoding}

(* connResponseWriter.flush: the length is that of the buffered body.  The  *)
(* client of a tunnel can take every answer for complete.                   *)
Flushed(w) ==
  [status |-> w.status, size |-> w.size, complete |-> TRUE,
   headers |-> [w.headers EXCEPT ![TransferEncoding] = Absent,
                                 ![ContentLength] = Itoa[w.size]]]

(* net/http's server.  A declared length binds the handler: a longer body   *)
(* is refused, a shorter one leaves the response incomplete (the connection *)
(* is cut).  Without one the server declares the length itself, or sends    *)
(* chunks when it has to send before the handler is done.  It finds out the *)
(* type of a body that has none.                                            *)
Served(w, early) ==
  LET lengths == {n \in DOMAIN Itoa : Itoa[n] = w.headers[ContentLength]}
      size == IF \E n \in lengths : w.size > n THEN 0 ELSE w.size
      chunked == w.headers[TransferEncoding] # Absent \/ (early /\ lengths = {})
      framed == [w.headers EXCEPT
                   ![TransferEncoding] = IF chunked THEN Generated ELSE Absent,
                   ![ContentLength] = IF chunked THEN Absent
                                      ELSE IF lengths = {} THEN Itoa[size] ELSE @]
      untyped == /\ w.headers[ContentType] = Absent
                 /\ w.headers[TransferEncoding] = Absent
                 /\ size > 0
  IN [status |-> w.status, size |-> size,
      complete |-> chunked \/ lengths \subseteq {size},
      headers |-> IF untyped THEN [framed EXCEPT ![ContentType] = Generated]
                  ELSE framed]

Init ==
  /\ rules \in RuleLists
  /\ pc = [g \in Reqs |-> "idle"]
  /\ call = [g \in Reqs |-> Nothing]
  /\ clientOpen = [g \in Reqs |-> TRUE]
  /\ ctxDone = [g \in Reqs |-> FALSE]
  /\ exchange = [g \in Reqs |-> EmptyExchange]
  /\ origin = [g \in Reqs |-> <<>>]
  /\ resp = [g \in Reqs |-> Nothing]
  /\ written = [g \in Reqs |-> Nothing]
  /\ client = [g \in Reqs |-> <<>>]
  /\ observed = [g \in Reqs |-> <<>>]

Goto(g, from, to) ==
  /\ pc[g] = from
  /\ pc' = [pc EXCEPT ![g] = to]

-----------------------------------------------------------------------------

(* A request arrives and its headers are cloned into the exchange. *)
Begin(g) ==
  /\ Goto(g, "idle", "reading")
  /\ \E via \in {"plain", "mitm"}, request \in Requests, n \in 0 .. MaxBody :
       /\ call' = [call EXCEPT ![g] =
                     [via |-> via, request |-> request, sent |-> n, has |-> 0]]
       /\ exchange' = [exchange EXCEPT ![g].reqHeaders = request.headers]
  /\ UNCHANGED <<context, origin, resp, written, client, observed>>

(* full, _ := io.ReadAll(r.Body): an upload that breaks off is cut, and the *)
(* error is dropped.                                                        *)
ReadBody(g) ==
  /\ Goto(g, "reading", "deciding")
  /\ \E n \in 0 .. call[g].sent :
       /\ n < call[g].sent => ~clientOpen[g]
       /\ call' = [call EXCEPT ![g].has = n]
       /\ exchange' = [exchange EXCEPT ![g].reqBody = Clamp(n)]
  /\ UNCHANGED <<context, origin, resp, written, client, observed>>

(* p.notify: the observer sees the exchange as it is now. *)
Notify(g, e) == observed' = [observed EXCEPT ![g] = Append(@, e)]

(* applyShortCircuit: block and redirect report before they answer. *)
Block(g) ==
  /\ Goto(g, "deciding", "refusing")
  /\ ShortCircuit(g) # 0
  /\ rules[ShortCircuit(g)].action = "block"
  /\ LET e == [exchange[g] EXCEPT !.status = StatusForbidden,
                                  !.respBody = [size |-> RefusalText,
                                                truncated |-> FALSE]]
     IN exchange' = [exchange EXCEPT ![g] = e] /\ Notify(g, e)
  /\ UNCHANGED <<context, call, origin, resp, written, client>>

Redirect(g) ==
  /\ Goto(g, "deciding", "refusing")
  /\ ShortCircuit(g) # 0
  /\ rules[ShortCircuit(g)].action = "redirect"
  /\ LET to == rules[ShortCircuit(g)].redirectTo
         e == [exchange[g] EXCEPT !.status = StatusFound,
                                  !.respHeaders = [NoHeaders EXCEPT ![Location] = to]]
     IN exchange' = [exchange EXCEPT ![g] = e] /\ Notify(g, e)
  /\ UNCHANGED <<context, call, origin, resp, written, client>>

(* relay: the request as mutated by the rules, without its hop-by-hop       *)
(* headers, is handed to RoundTrip.  exchange.ReqHeaders is cloned from the *)
(* mutated headers before the hop-by-hop ones are removed from the copy.    *)
OutHeaders(g) == ApplyHeaderRewrites(call[g].request.headers, Matched(g), FALSE)

(* Faulty: the capture keeps the headers as the client sent them. *)
StartRelayUncaptured(g, to) ==
  /\ Goto(g, "deciding", to)
  /\ ShortCircuit(g) = 0
  /\ UNCHANGED <<context, call, exchange, resp, written, client, observed>>

StartRelay(g, to) ==
  /\ Goto(g, "deciding", to)
  /\ ShortCircuit(g) = 0
  /\ exchange' = [exchange EXCEPT ![g].reqHeaders = OutHeaders(g)]
  /\ UNCHANGED <<context, call, resp, written, client, observed>>

(* A body without GetBody is never sent twice: RoundTrip does not retry. *)
Send(g) ==
  /\ StartRelay(g, "waiting")
  /\ ~ctxDone[g]
  /\ origin' = [origin EXCEPT ![g] =
                  Append(@, [headers |-> RemoveHopByHop(OutHeaders(g)),
                             size |-> call[g].has])]

DialFails(g) ==
  /\ StartRelay(g, "failed")
  /\ UNCHANGED origin

(* The origin answers with a header block that does or does not declare the *)
(* length of the body (the transport takes Transfer-Encoding out of it).    *)
OriginAnswers(g) ==
  /\ Goto(g, "waiting", "receiving")
  /\ \E h \in OriginHeaders, n \in 0 .. MaxBody, declared \in BOOLEAN :
       resp' = [resp EXCEPT ![g] =
                  [sent |-> n,
                   headers |-> IF declared THEN [h EXCEPT ![ContentLength] = Itoa[n]]
                               ELSE h]]
  /\ UNCHANGED <<context, call, exchange, origin, written, client, observed>>

RoundTripFails(g) ==
  /\ Goto(g, "waiting", "failed")
  /\ UNCHANGED <<context, call, exchange, origin, resp, written, client,
                 observed>>

(* Faulty: the connResponseWriter writes through instead of buffering. *)
RespondAtOnce(g, n) ==
  /\ Goto(g, "receiving", "reporting")
  /\ LET h == ApplyHeaderRewrites(resp[g].headers, Matched(g), TRUE) IN
       /\ exchange' = [exchange EXCEPT ![g].status = StatusOK,
                                       ![g].respHeaders = h,
                                       ![g].respBody = Clamp(n)]
       /\ written' = [written EXCEPT ![g] = Answer(StatusOK, h, n)]
  /\ client' = [client EXCEPT ![g] =
                  IF clientOpen[g] THEN Append(@, Flushed(written'[g])) ELSE @]
  /\ UNCHANGED <<context, call, origin, resp, observed>>

(* respBody, _ := io.ReadAll(resp.Body), the response rewrites, the captured *)
(* copy and the write to the client.  A body that broke off is passed on as  *)
(* far as it came.                                                           *)
Respond(g, n) ==
  /\ Goto(g, "receiving", "reporting")
  /\ LET h == ApplyHeaderRewrites(resp[g].headers, Matched(g), TRUE) IN
       /\ exchange' = [exchange EXCEPT ![g].status = StatusOK,
                                       ![g].respHeaders = h,
                                       ![g].respBody = Clamp(n)]
       /\ written' = [written EXCEPT ![g] = Answer(StatusOK, h, n)]
  /\ UNCHANGED <<context, call, origin, resp, client, observed>>

RespondWhole(g) == pc[g] = "receiving" /\ Respond(g, resp[g].sent)

RespondCut(g) ==
  pc[g] = "receiving" /\ \E n \in 0 .. resp[g].sent - 1 : Respond(g, n)

Report(g) ==
  /\ Goto(g, "reporting", "returning")
  /\ Notify(g, exchange[g])
  /\ UNCHANGED <<context, call, exchange, origin, resp, written, client>>

(* A failed relay is reported without a status, then answered with 502. *)
ReportError(g) ==
  /\ Goto(g, "failed", "refusing")
  /\ exchange' = [exchange EXCEPT ![g].err = TRUE]
  /\ Notify(g, [exchange[g] EXCEPT !.err = TRUE])
  /\ UNCHANGED <<context, call, origin, resp, written, client>>

(* http.Error: the text, a newline, and the headers that go with it. *)
HttpError(status) ==
  Answer(status, [NoHeaders EXCEPT ![ContentType] = Generated, ![NoSniff] = Generated],
         RefusalText + 1)

(* http.Redirect: the target as the client has to understand it; who asked  *)
(* with GET also gets a page with the link.                                 *)
HttpRedirect(request, target) ==
  LET page == request.method = <<"GET", "upper">>
      h == [NoHeaders EXCEPT ![Location] = Resolve[<<target, request.url>>],
                             ![ContentType] = IF page THEN Generated ELSE Absent]
  IN Answer(StatusFound, h, IF page THEN 1 ELSE 0)

Refusal(g) ==
  IF exchange[g].err THEN HttpError(StatusBadGateway)
  ELSE IF exchange[g].status = StatusForbidden THEN HttpError(StatusForbidden)
  ELSE HttpRedirect(call[g].request, exchange[g].respHeaders[Location])

(* Faulty: the return after http.Error is missing. *)
RefuseAndGoOn(g) ==
  /\ Goto(g, "refusing", "reporting")
  /\ written' = [written EXCEPT ![g] = Refusal(g)]
  /\ UNCHANGED <<context, call, exchange, origin, resp, client, observed>>

(* http.Error or http.Redirect, after the report. *)
Refuse(g) ==
  /\ Goto(g, "refusing", "returning")
  /\ written' = [written EXCEPT ![g] = Refusal(g)]
  /\ UNCHANGED <<context, call, exchange, origin, resp, client, observed>>

(* The response leaves for a client that is still there. *)
Deliver(g, answer) ==
  client' = [client EXCEPT ![g] =
               IF clientOpen[g] THEN Append(@, answer) ELSE @]

(* net/http may send what was written while the handler still runs, ... *)
SendEarly(g) ==
  /\ pc[g] \in {"reporting", "returning"}
  /\ call[g].via = "plain"
  /\ client[g] = <<>>
  /\ clientOpen[g]
  /\ Deliver(g, Served(written[g], TRUE))
  /\ UNCHANGED <<context, pc, call, exchange, origin, resp, written,
                 observed>>

(* What is sent when the handler has returned. *)
AtTheEnd(g) ==
  IF call[g].via = "mitm" THEN Flushed(written[g]) ELSE Served(written[g], FALSE)

(* Faulty: the handler waits until its client takes the answer. *)
ReturnWhenTaken(g) ==
  /\ Goto(g, "returning", "done")
  /\ clientOpen[g]
  /\ IF client[g] = <<>> THEN Deliver(g, AtTheEnd(g)) ELSE UNCHANGED client
  /\ UNCHANGED <<context, call, exchange, origin, resp, written, observed>>

(* ... and sends the rest when it returns; connResponseWriter.flush sends   *)
(* all of it then.                                                          *)
Return(g) ==
  /\ Goto(g, "returning", "done")
  /\ IF client[g] = <<>> THEN Deliver(g, AtTheEnd(g)) ELSE UNCHANGED client
  /\ UNCHANGED <<context, call, exchange, origin, resp, written, observed>>

-----------------------------------------------------------------------------
(* The client's connection breaks. *)
ClientGoes(g) ==
  /\ pc[g] \notin {"idle", "done"}
  /\ clientOpen[g]
  /\ clientOpen' = [clientOpen EXCEPT ![g] = FALSE]
  /\ UNCHANGED <<rules, pc, call, ctxDone, exchange, origin, resp, written,
                 client, observed>>

(* net/http watches the connection of a plain request once its body is read *)
(* and cancels r.Context() when it breaks.  http.ReadRequest gives the      *)
(* requests of a tunnel the background context: nothing cancels them.       *)
Cancel(g) ==
  /\ pc[g] \notin {"idle", "reading", "done"}
  /\ call[g].via = "plain"
  /\ ~clientOpen[g]
  /\ ~ctxDone[g]
  /\ ctxDone' = [ctxDone EXCEPT ![g] = TRUE]
  /\ UNCHANGED <<rules, pc, call, clientOpen, exchange, origin, resp, written,
                 client, observed>>

(* What goroutine g does by itself, whatever client and origin do. *)
Own(g) ==
  \/ Block(g) \/ Redirect(g) \/ Send(g) \/ DialFails(g)
  \/ Report(g) \/ ReportError(g) \/ Refuse(g) \/ Return(g)

OriginEnds(g) == RoundTripFails(g) \/ RespondWhole(g) \/ RespondCut(g)

OriginSteps(g) == OriginAnswers(g) \/ OriginEnds(g)

Step(g) ==
  \/ Begin(g) \/ ReadBody(g)
  \/ Own(g)
  \/ OriginSteps(g)
  \/ SendEarly(g) \/ ClientGoes(g) \/ Cancel(g)

Next ==
  \E g \in Reqs : Step(g)

Spec == Init /\ [][Next]_vars

(* No timeout is set on either side, so neither a silent client nor a       *)
(* silent origin is fair.  The scheduler runs every goroutine that can      *)
(* move; a read from a broken connection returns; a cancelled context       *)
(* makes RoundTrip and the read of the response fail; net/http notices a    *)
(* broken connection when it had read the request to its end.               *)
ReadToItsEnd(g) == pc[g] # "idle" /\ call[g].has = call[g].sent

GoFair(g) ==
  /\ WF_vars(Own(g))
  /\ WF_vars(~clientOpen[g] /\ ReadBody(g))
  /\ WF_vars(ReadToItsEnd(g) /\ Cancel(g))
  /\ WF_vars(ctxDone[g] /\ OriginEnds(g))

FairSpec == Spec /\ \A g \in Reqs : GoFair(g)

-----------------------------------------------------------------------------

PCs == {"idle", "reading", "deciding", "refusing", "waiting", "receiving",
        "reporting", "failed", "returning", "done"}

(* Every goroutine is at a known point, bodies arrive at most whole, and    *)
(* the captured copies stay within the capture limit.                       *)
TypeOK ==
  /\ rules \in RuleLists
  /\ pc \in [Reqs -> PCs]
  /\ clientOpen \in [Reqs -> BOOLEAN]
  /\ ctxDone \in [Reqs -> BOOLEAN]
  /\ \A g \in Reqs : pc[g] # "idle" =>
       /\ call[g].request \in Requests
       /\ call[g].has \in 0 .. call[g].sent
       /\ exchange[g].reqBody.size \in 0 .. MaxCaptured
       /\ exchange[g].respBody.size \in 0 .. MaxCaptured

(* Every path through serveRelayed -- refused, failed, relayed, cut short,  *)
(* client gone -- reports to the observer exactly once, asks the origin at  *)
(* most once and answers the client at most once.                           *)
ReportedExactlyOnce ==
  \A g \in Reqs :
    /\ Len(observed[g]) =
         IF pc[g] \in {"refusing", "returning", "done"} THEN 1 ELSE 0
    /\ Len(origin[g]) <= 1
    /\ Len(client[g]) <= 1

(* A tunnelled client has its answer only when the observer has the         *)
(* exchange: flush comes after the handler, so a test that has seen the     *)
(* response finds the record.  (A plain client may be faster.)              *)
TunnelAnswersAreReportedFirst ==
  \A g \in Reqs :
    (client[g] # <<>> /\ call[g].via = "mitm") => observed[g] # <<>>

(* The length header of a relayed response is the origin's, or there is     *)
(* none: no rule has set it.                                                *)
LengthIsTheOrigins(g) ==
  exchange[g].respHeaders[ContentLength] \in {Absent, resp[g].headers[ContentLength]}

(* The capture tells what the client got, although some paths report before  *)
(* and some after they answer.  The status is the same (502 stands for a     *)
(* reported error).  A relayed response has the captured headers except the  *)
(* framing, which is the writer's (in a tunnel, the length that was really   *)
(* sent), and a type net/http's server finds for a plain client; its body is *)
(* the captured one up to the capture limit, flagged truncated exactly when  *)
(* the client's is longer -- unless a rule gave a plain client a length of   *)
(* its own, which makes net/http refuse a longer body.  A redirect leads     *)
(* where the captured Location leads from the URL asked for, nothing else    *)
(* has one that was not captured, and a blocked client reads the captured    *)
(* text and a newline.                                                       *)
ClientIsTold(g, e, c) ==
  /\ c.status = IF e.err THEN StatusBadGateway ELSE e.status
  /\ e.status = StatusOK =>
       /\ \A n \in HeaderNames \ Framing :
            \/ c.headers[n] = e.respHeaders[n]
            \/ n = ContentType /\ call[g].via # "mitm" /\ e.respHeaders[n] = Absent
       /\ call[g].via = "mitm" =>
            /\ c.headers[ContentLength] = Itoa[c.size]
            /\ c.headers[TransferEncoding] = Absent
       /\ call[g].via = "mitm" \/ LengthIsTheOrigins(g) =>
            /\ e.respBody.size <= c.size
            /\ e.respBody.truncated <=> e.respBody.size < c.size
            /\ e.respBody.truncated => e.respBody.size = MaxCaptured
  /\ e.status = StatusFound =>
       c.headers[Location] = Resolve[<<e.respHeaders[Location], call[g].request.url>>]
  /\ e.status = StatusForbidden \/ e.err => c.headers[Location] = Absent
  /\ e.status = StatusForbidden => c.size = e.respBody.size + 1

(* It tells what the origin was asked: every end-to-end header is as         *)
(* captured, no hop-by-hop header is forwarded even when a rule sets one,    *)
(* and the body shown is the one sent, up to the capture limit.  (The        *)
(* transport takes the framing from the body it is given.)                   *)
OriginIsTold(e, o) ==
  /\ \A n \in DOMAIN o.headers :
       IF n \in HopByHop THEN o.headers[n] = Absent
       ELSE n \notin Framing => o.headers[n] = e.reqHeaders[n]
  /\ e.reqBody.size <= o.size
  /\ e.reqBody.truncated <=> e.reqBody.size < o.size

CaptureTellsTheExchange ==
  \A g \in Reqs : observed[g] # <<>> =>
    /\ client[g] # <<>> => ClientIsTold(g, observed[g][1], client[g][1])
    /\ origin[g] # <<>> => OriginIsTold(observed[g][1], origin[g][1])

(* The value a header has after every matching operation of one side: the   *)
(* last rule that names it wins and, in a rule, the last operation.         *)
LastOpWins(req, h, onResp, n) ==
  LET ops == {p \in UNION {{i} \X DOMAIN rules[i].headers : i \in DOMAIN rules} :
                /\ Matches(rules[p[1]], req)
                /\ rules[p[1]].action = "rewrite-header"
                /\ rules[p[1]].headers[p[2]].onResp = onResp
                /\ rules[p[1]].headers[p[2]].name = n}
      last == CHOOSE p \in ops : \A q \in ops :
                q[1] < p[1] \/ (q[1] = p[1] /\ q[2] <= p[2])
      op == rules[last[1]].headers[last[2]]
  IN IF ops = {} THEN h[n] ELSE IF op.remove THEN Absent ELSE op.value

(* Of the rewrites that name a header the last one decides, whatever order  *)
(* and mixture of sets and removals the rules have: what the origin gets of *)
(* an end-to-end header, and what the client gets of a relayed response, is *)
(* what the last matching rewrite of that side asks for.  Two things a rule *)
(* cannot decide: the framing headers, which the writers set after it, and  *)
(* that a plain response has no type (net/http's server finds one).         *)
LastRewriteWins ==
  \A g \in Reqs :
    LET req == call[g].request IN
    /\ origin[g] # <<>> =>
         \A n \in HeaderNames \ (HopByHop \cup Framing) :
           origin[g][1].headers[n] = LastOpWins(req, req.headers, FALSE, n)
    /\ (client[g] # <<>> /\ client[g][1].status = StatusOK) =>
         \A n \in HeaderNames \ Framing :
           LET wanted == LastOpWins(req, resp[g].headers, TRUE, n) IN
           \/ client[g][1].headers[n] = wanted
           \/ n = ContentType /\ call[g].via # "mitm" /\ wanted = Absent

(* proxy.go: "The relay still streams the full body to the client/origin":  *)
(* a client that may take a relayed body for the whole body has all of it,  *)
(* and an origin that received the request all that the client meant to     *)
(* send.                                                                    *)
FullBodyIsRelayed ==
  \A g \in Reqs :
    /\ \A i \in DOMAIN origin[g] : origin[g][i].size = call[g].sent
    /\ \A i \in DOMAIN client[g] :
         (client[g][i].status = StatusOK /\ client[g][i].complete)
           => client[g][i].size = resp[g].sent

(* A plain request whose client has gone does not stay behind, even with an *)
(* origin that never answers: the cancelled context ends the relay.  (It is *)
(* not true of the requests of a tunnel.)                                   *)
GoneClientIsReleased ==
  \A g \in Reqs :
    (/\ ~clientOpen[g]
     /\ pc[g] \notin {"idle", "reading"}
     /\ call[g].via = "plain"
     /\ ReadToItsEnd(g)) ~> pc[g] = "done"

WaitsForPeer(g) == pc[g] \in {"reading", "waiting", "receiving"}

(* A request ends on every path unless it waits for ever for a peer: the    *)
(* client's body, or the origin's response (no timeout is set for either).  *)
EveryRequestReturns ==
  \A g \in Reqs :
    []<>~WaitsForPeer(g) => (pc[g] # "idle" ~> pc[g] = "done")
=============================================================================
