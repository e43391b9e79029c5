-------------------------- MODULE Interceptor_proofs --------------------------
(***************************************************************************)
(* Proofs about Relay and about Interceptor, which composes it with         *)
(* CaptureStore, for any set of requests, rules, headers and bodies and any *)
(* cap of the store.                                                        *)
(*                                                                          *)
(* Relay.  Which of the sequences observed, origin and client are still     *)
(* empty is decided by the program point (Progress); that is what makes     *)
(* "reported exactly once" inductive.                                       *)
(* The header rewrites are two nested loops: after every turn of a loop a   *)
(* header has what the last turn that named it asked for (OpsLeave,         *)
(* RulesLeave), and Match keeps the order of the rule file, so what is sent *)
(* on is what LastOpWins reads off the file.                                *)
(*                                                                          *)
(* Interceptor.  The store holds entries of the requests that have reported *)
(* and nothing else (Entries), their IDs are consecutive and end in the     *)
(* last one given out, and no two requests share one (IDs); so the record   *)
(* at the position of a request's ID is its own.                            *)
(***************************************************************************)
EXTENDS Interceptor, FiniteSetTheorems, WellFoundedInduction, TLAPS

Early == {"idle", "reading", "deciding"}
Unreported == Early \cup {"waiting", "receiving", "reporting", "failed"}
Reported == {"refusing", "returning", "done"}
Answering == {"reporting", "returning", "done"}

AtMostOne(s) == s = <<>> \/ \E e : s = <<e>>

(* How far goroutine g is decides what it has left behind. *)
Progress(g) ==
  /\ pc[g] \in Unreported => observed[g] = <<>>
  /\ pc[g] \in Reported => \E e : observed[g] = <<e>>
  /\ pc[g] \in Early => origin[g] = <<>>
  /\ AtMostOne(origin[g])
  /\ AtMostOne(client[g])
  /\ client[g] # <<>> => pc[g] \in Answering
  /\ (client[g] # <<>> /\ pc[g] = "reporting") => call[g].via = "plain"

Shape ==
  /\ pc \in [Reqs -> PCs]
  /\ DOMAIN observed = Reqs
  /\ DOMAIN origin = Reqs
  /\ DOMAIN client = Reqs
  /\ DOMAIN call = Reqs

IInv == Shape /\ \A g \in Reqs : Progress(g)

(* A first report, request or answer is the only one. *)
LEMMA FirstOnly ==
  ASSUME NEW e
  PROVE  /\ Append(<<>>, e) = <<e>>
         /\ <<e>> # <<>>
         /\ Len(<<e>>) = 1
         /\ Len(<<>>) = 0
OBVIOUS

(* A step of goroutine g leaves the variables of the others alone. *)
Alone(g) ==
  \A h \in Reqs \ {g} :
    /\ pc'[h] = pc[h]
    /\ call'[h] = call[h]
    /\ observed'[h] = observed[h]
    /\ origin'[h] = origin[h]
    /\ client'[h] = client[h]

LEMMA OthersKeepTheirProgress ==
  ASSUME IInv, NEW g \in Reqs, Alone(g), Shape', Progress(g)'
  PROVE  IInv'
BY DEF IInv, Alone, Progress

(* Begin, ReadBody: nothing is left behind yet. *)
LEMMA EarlySteps ==
  ASSUME IInv, NEW g \in Reqs, Begin(g) \/ ReadBody(g)
  PROVE  Shape' /\ Progress(g)' /\ Alone(g)
<1>1. CASE Begin(g)
  <2>1. /\ pc' = [pc EXCEPT ![g] = "reading"] /\ pc[g] = "idle"
        /\ \E c : call' = [call EXCEPT ![g] = c]
        /\ UNCHANGED <<origin, client, observed>>
    BY <1>1 DEF Begin, Goto
  <2>2. Shape' /\ Alone(g)
    BY <2>1 DEF IInv, Shape, Alone, PCs
  <2>3. pc'[g] = "reading" /\ Progress(g)
    BY <2>1 DEF IInv, Shape
  <2> QED BY <2>1, <2>2, <2>3
       DEF Progress, Early, Unreported, Reported, Answering, AtMostOne
<1>2. CASE ReadBody(g)
  <2>1. /\ pc' = [pc EXCEPT ![g] = "deciding"] /\ pc[g] = "reading"
        /\ \E n : call' = [call EXCEPT ![g].has = n]
        /\ UNCHANGED <<origin, client, observed>>
    BY <1>2 DEF ReadBody, Goto
  <2>2. Shape' /\ Alone(g)
    BY <2>1 DEF IInv, Shape, Alone, PCs
  <2>3. pc'[g] = "deciding" /\ Progress(g)
    BY <2>1 DEF IInv, Shape
  <2> QED BY <2>1, <2>2, <2>3
       DEF Progress, Early, Unreported, Reported, Answering, AtMostOne
<1> QED BY <1>1, <1>2

(* Block, Redirect, Report, ReportError: the one place of each path that    *)
(* reports.                                                                 *)
LEMMA ReportingSteps ==
  ASSUME IInv, NEW g \in Reqs,
         Block(g) \/ Redirect(g) \/ Report(g) \/ ReportError(g)
  PROVE  Shape' /\ Progress(g)' /\ Alone(g)
<1>1. /\ pc[g] \in {"deciding", "reporting", "failed"}
      /\ \/ pc' = [pc EXCEPT ![g] = "refusing"] /\ pc[g] # "reporting"
         \/ pc' = [pc EXCEPT ![g] = "returning"]
      /\ \E e : observed' = [observed EXCEPT ![g] = Append(@, e)]
      /\ UNCHANGED <<call, origin, client>>
  BY DEF Block, Redirect, Report, ReportError, Notify, Goto
<1>2. Shape' /\ Alone(g)
  BY <1>1 DEF IInv, Shape, Alone, PCs
<1>3. Progress(g) /\ g \in DOMAIN observed
  BY DEF IInv, Shape
<1>4. observed[g] = <<>>
  BY <1>1, <1>3 DEF Progress, Unreported, Early
<1>5. \E e : observed'[g] = <<e>>
  BY <1>1, <1>3, <1>4, FirstOnly
<1>6. /\ pc'[g] \in {"refusing", "returning"}
      /\ pc'[g] = "refusing" => client[g] = <<>>
  BY <1>1, <1>3 DEF IInv, Shape, Progress, Answering
<1> QED BY <1>1, <1>2, <1>3, <1>5, <1>6
     DEF Progress, Early, Unreported, Reported, Answering, AtMostOne

(* Send, DialFails, OriginAnswers, RoundTripFails and the two responses:    *)
(* the origin is asked once and nobody is told yet.                         *)
LEMMA OriginSide ==
  ASSUME IInv, NEW g \in Reqs, Send(g) \/ DialFails(g) \/ OriginSteps(g)
  PROVE  Shape' /\ Progress(g)' /\ Alone(g)
<1>1. CASE Send(g)
  <2>1. /\ pc' = [pc EXCEPT ![g] = "waiting"] /\ pc[g] = "deciding"
        /\ \E o : origin' = [origin EXCEPT ![g] = Append(@, o)]
        /\ UNCHANGED <<call, client, observed>>
    BY <1>1 DEF Send, StartRelay, Goto
  <2>2. Shape' /\ Alone(g)
    BY <2>1 DEF IInv, Shape, Alone, PCs
  <2>3. pc'[g] = "waiting" /\ Progress(g) /\ origin[g] = <<>> /\ g \in DOMAIN origin
    BY <2>1 DEF IInv, Shape, Progress, Early
  <2>4. \E o : origin'[g] = <<o>>
    BY <2>1, <2>3, FirstOnly
  <2> QED BY <2>1, <2>2, <2>3, <2>4
       DEF Progress, Early, Unreported, Reported, Answering, AtMostOne
<1>2. CASE DialFails(g) \/ OriginSteps(g)
  <2>1. /\ pc[g] \in {"deciding", "waiting", "receiving"}
        /\ \/ pc' = [pc EXCEPT ![g] = "failed"]
           \/ pc' = [pc EXCEPT ![g] = "receiving"]
           \/ pc' = [pc EXCEPT ![g] = "reporting"]
        /\ UNCHANGED <<call, origin, client, observed>>
    BY <1>2 DEF DialFails, StartRelay, OriginSteps, OriginEnds, OriginAnswers,
                RoundTripFails, RespondWhole, RespondCut, Respond, Goto
  <2>2. Shape' /\ Alone(g)
    BY <2>1 DEF IInv, Shape, Alone, PCs
  <2>3. pc'[g] \in {"failed", "receiving", "reporting"} /\ Progress(g)
    BY <2>1 DEF IInv, Shape
  <2>4. client[g] = <<>> /\ observed[g] = <<>>
    BY <2>1, <2>3 DEF Progress, Answering, Unreported, Early
  <2> QED BY <2>1, <2>2, <2>3, <2>4
       DEF Progress, Early, Unreported, Reported, Answering, AtMostOne
<1> QED BY <1>1, <1>2

(* Refuse, SendEarly, Return: the client is answered once. *)
LEMMA AnsweringSteps ==
  ASSUME IInv, NEW g \in Reqs, Refuse(g) \/ SendEarly(g) \/ Return(g)
  PROVE  Shape' /\ Progress(g)' /\ Alone(g)
<1>0. Progress(g) /\ g \in DOMAIN client /\ g \in DOMAIN pc
  BY DEF IInv, Shape
<1>1. CASE Refuse(g)
  <2>1. /\ pc' = [pc EXCEPT ![g] = "returning"] /\ pc[g] = "refusing"
        /\ UNCHANGED <<call, origin, client, observed>>
    BY <1>1 DEF Refuse, Goto
  <2>2. Shape' /\ Alone(g)
    BY <2>1 DEF IInv, Shape, Alone, PCs
  <2>3. pc'[g] = "returning"
    BY <1>0, <2>1
  <2> QED BY <1>0, <2>1, <2>2, <2>3
       DEF Progress, Early, Unreported, Reported, Answering, AtMostOne
<1>2. CASE SendEarly(g)
  <2>1. /\ pc' = pc /\ pc[g] \in {"reporting", "returning"}
        /\ call[g].via = "plain" /\ client[g] = <<>>
        /\ client' = [client EXCEPT ![g] = Append(@, Served(written[g], TRUE))]
        /\ UNCHANGED <<call, origin, observed>>
    BY <1>2 DEF SendEarly, Deliver
  <2>2. Shape' /\ Alone(g)
    BY <2>1 DEF IInv, Shape, Alone, PCs
  <2>3. client'[g] = <<Served(written[g], TRUE)>>
    BY <1>0, <2>1, FirstOnly
  <2> QED BY <1>0, <2>1, <2>2, <2>3
       DEF Progress, Early, Unreported, Reported, Answering, AtMostOne
<1>3. CASE Return(g)
  <2>1. /\ pc' = [pc EXCEPT ![g] = "done"] /\ pc[g] = "returning"
        /\ \/ UNCHANGED client
           \/ /\ client[g] = <<>>
              /\ \E c : client' = [client EXCEPT ![g] = c]
              /\ client'[g] = client[g] \/ client'[g] = <<AtTheEnd(g)>>
        /\ UNCHANGED <<call, origin, observed>>
    <3>1. CASE client[g] = <<>>
      BY <1>0, <1>3, <3>1, FirstOnly DEF Return, Deliver, Goto
    <3>2. CASE client[g] # <<>>
      BY <1>3, <3>2 DEF Return, Goto
    <3> QED BY <3>1, <3>2
  <2>2. Shape' /\ Alone(g)
    BY <2>1 DEF IInv, Shape, Alone, PCs
  <2>3. pc'[g] = "done" /\ AtMostOne(client'[g])
    BY <1>0, <2>1 DEF Progress, AtMostOne
  <2> QED BY <1>0, <2>1, <2>2, <2>3
       DEF Progress, Early, Unreported, Reported, Answering, AtMostOne
<1> QED BY <1>1, <1>2, <1>3

LEMMA StepsMoveAlone ==
  ASSUME IInv, NEW g \in Reqs, Step(g)
  PROVE  IInv' /\ Alone(g)
<1>1. CASE ClientGoes(g) \/ Cancel(g)
  BY <1>1 DEF ClientGoes, Cancel, IInv, Shape, Progress, Alone
<1>2. CASE ~(ClientGoes(g) \/ Cancel(g))
  <2>1. Shape' /\ Progress(g)' /\ Alone(g)
    BY <1>2, EarlySteps, ReportingSteps, OriginSide, AnsweringSteps DEF Step, Own
  <2> QED BY <2>1, OthersKeepTheirProgress
<1> QED BY <1>1, <1>2

(* Progress of every goroutine is inductive. *)
LEMMA IInvIsInductive ==
  /\ Init => IInv
  /\ IInv /\ [Next]_vars => IInv'
<1>1. Init => IInv
  BY DEF Init, IInv, Shape, Progress, PCs, Early, Unreported, Reported,
         Answering, AtMostOne
<1>2. ASSUME IInv, NEW g \in Reqs, Step(g)
      PROVE  IInv'
  BY <1>2, StepsMoveAlone
<1>3. ASSUME IInv, UNCHANGED vars
      PROVE  IInv'
  BY <1>3 DEF vars, IInv, Shape, Progress
<1> QED BY <1>1, <1>2, <1>3 DEF Next

(* Every path reports once, asks at most once and answers at most once. *)
THEOREM ReportsExactlyOnce == Spec => []ReportedExactlyOnce
<1>1. ASSUME IInv, NEW g \in Reqs
      PROVE  /\ Len(observed[g]) = IF pc[g] \in Reported THEN 1 ELSE 0
             /\ Len(origin[g]) <= 1
             /\ Len(client[g]) <= 1
  <2>1. Progress(g) /\ pc[g] \in PCs
    BY <1>1 DEF IInv, Shape
  <2>2. pc[g] \in Reported \/ pc[g] \in Unreported
    BY <2>1 DEF PCs, Reported, Unreported, Early
  <2>3. ASSUME NEW s, AtMostOne(s)
        PROVE  Len(s) <= 1
    <3>1. CASE s = <<>>
      BY <3>1
    <3>2. CASE \E e : s = <<e>>
      <4>1. PICK e : s = <<e>>
        BY <3>2
      <4>2. Len(s) = 1
        BY <4>1, FirstOnly
      <4> QED BY <4>2
    <3> QED BY <2>3, <3>1, <3>2 DEF AtMostOne
  <2>4. pc[g] \in Reported => Len(observed[g]) = 1
    BY <2>1, FirstOnly DEF Progress
  <2>5. pc[g] \notin Reported => Len(observed[g]) = 0
    BY <2>1, <2>2, FirstOnly DEF Progress
  <2> QED BY <2>1, <2>3, <2>4, <2>5 DEF Progress
<1>2. IInv => ReportedExactlyOnce
  BY <1>1 DEF ReportedExactlyOnce, Reported
<1> QED BY IInvIsInductive, <1>2, PTL DEF Spec

LEMMA AnswersFollowReports == IInv => TunnelAnswersAreReportedFirst
<1>1. ASSUME IInv, NEW g \in Reqs, client[g] # <<>>, call[g].via = "mitm"
      PROVE  observed[g] # <<>>
  <2>1. pc[g] \in Reported /\ Progress(g)
    BY <1>1 DEF IInv, Progress, Answering, Reported
  <2> QED BY <2>1, FirstOnly DEF Progress
<1> QED BY <1>1 DEF TunnelAnswersAreReportedFirst

(* A tunnelled answer never overtakes its report. *)
THEOREM TunnelReportsFirst == Spec => []TunnelAnswersAreReportedFirst
BY IInvIsInductive, AnswersFollowReports, PTL DEF Spec

-----------------------------------------------------------------------------
(* The data: what was captured is what origin and client got.               *)

Exch(status, err, reqHeaders, reqBody, respHeaders, respBody) ==
  [status |-> status, err |-> err, reqHeaders |-> reqHeaders, reqBody |-> reqBody,
   respHeaders |-> respHeaders, respBody |-> respBody]

IsExchange(e) ==
  e = Exch(e.status, e.err, e.reqHeaders, e.reqBody, e.respHeaders, e.respBody)

IsCall(c) ==
  c = [via |-> c.via, request |-> c.request, sent |-> c.sent, has |-> c.has]

Fits(body) == body.size \in 0 .. MaxCaptured

(* The exchange e tells what the handler gives its ResponseWriter with w. *)
Tells(e, w, request) ==
  /\ w.status = IF e.err THEN StatusBadGateway ELSE e.status
  /\ e.status = StatusOK =>
       w.headers = e.respHeaders /\ w.size \in Nat /\ e.respBody = Clamp(w.size)
  /\ e.status = StatusFound => w = HttpRedirect(request, e.respHeaders[Location])
  /\ e.status = StatusForbidden =>
       w = HttpError(StatusForbidden) /\ e.respBody.size = RefusalText
  /\ e.err => w = HttpError(StatusBadGateway)

(* The exchange e of a request that is not relayed, or not to the end.      *)
Refused(e) ==
  /\ e.err \in BOOLEAN
  /\ IF e.err THEN e.status = 0 ELSE e.status \in {StatusForbidden, StatusFound}
  /\ e.status = StatusForbidden => e.respBody.size = RefusalText

(* What can leave for the client when the handler gave w. *)
Sendable(via, w) ==
  IF via = "mitm" THEN {Flushed(w)} ELSE {Served(w, early) : early \in BOOLEAN}

Asked(g) ==
  [headers |-> RemoveHopByHop(exchange[g].reqHeaders), size |-> call[g].has]

Answered(g) ==
  /\ pc[g] \in Unreported \ {"reporting"} => exchange[g].status = 0 /\ exchange[g].err = FALSE
  /\ pc[g] = "refusing" => Refused(exchange[g])
  /\ pc[g] \in Reported => observed[g] = <<exchange[g]>>
  /\ pc[g] \in Answering => Tells(exchange[g], written[g], call[g].request)
  /\ (pc[g] \in Answering /\ exchange[g].status = StatusOK) => written[g].size <= resp[g].sent
  /\ client[g] # <<>> => \E c \in Sendable(call[g].via, written[g]) : client[g] = <<c>>
  /\ pc[g] = "receiving" => resp[g].sent \in Nat

Sent(g) ==
  /\ pc[g] # "idle" => IsCall(call[g]) /\ call[g].sent \in Nat
  /\ pc[g] \notin {"idle", "reading"} =>
       call[g].has \in Nat /\ exchange[g].reqBody = Clamp(call[g].has)
  /\ origin[g] # <<>> => origin[g] = <<Asked(g)>>

Data(g) ==
  /\ IsExchange(exchange[g])
  /\ Fits(exchange[g].reqBody) /\ Fits(exchange[g].respBody)
  /\ Answered(g)
  /\ Sent(g)

DataShape ==
  /\ DOMAIN exchange = Reqs
  /\ DOMAIN resp = Reqs
  /\ DOMAIN written = Reqs

DataInv == IInv /\ DataShape /\ \A g \in Reqs : Data(g)

(* An exchange has the six fields of Exchange, whatever is written to them. *)
LEMMA ExchangeFields ==
  ASSUME NEW a, NEW b, NEW c, NEW d, NEW e, NEW f
  PROVE  /\ IsExchange(Exch(a, b, c, d, e, f))
         /\ Exch(a, b, c, d, e, f).status = a
         /\ Exch(a, b, c, d, e, f).err = b
         /\ Exch(a, b, c, d, e, f).reqHeaders = c
         /\ Exch(a, b, c, d, e, f).reqBody = d
         /\ Exch(a, b, c, d, e, f).respHeaders = e
         /\ Exch(a, b, c, d, e, f).respBody = f
BY DEF IsExchange, Exch

LEMMA ExchangeUpdates ==
  ASSUME NEW x, IsExchange(x), NEW v
  PROVE  /\ [x EXCEPT !.status = v] =
              Exch(v, x.err, x.reqHeaders, x.reqBody, x.respHeaders, x.respBody)
         /\ [x EXCEPT !.err = v] =
              Exch(x.status, v, x.reqHeaders, x.reqBody, x.respHeaders, x.respBody)
         /\ [x EXCEPT !.reqHeaders = v] =
              Exch(x.status, x.err, v, x.reqBody, x.respHeaders, x.respBody)
         /\ [x EXCEPT !.reqBody = v] =
              Exch(x.status, x.err, x.reqHeaders, v, x.respHeaders, x.respBody)
         /\ [x EXCEPT !.respHeaders = v] =
              Exch(x.status, x.err, x.reqHeaders, x.reqBody, v, x.respBody)
         /\ [x EXCEPT !.respBody = v] =
              Exch(x.status, x.err, x.reqHeaders, x.reqBody, x.respHeaders, v)
BY DEF IsExchange, Exch

LEMMA ExchangeRefused ==
  ASSUME NEW x, IsExchange(x), NEW s, NEW b
  PROVE  [x EXCEPT !.status = s, !.respBody = b] =
           Exch(s, x.err, x.reqHeaders, x.reqBody, x.respHeaders, b)
<1> DEFINE y == [x EXCEPT !.status = s]
<1>1. y = Exch(s, x.err, x.reqHeaders, x.reqBody, x.respHeaders, x.respBody)
  BY DEF IsExchange, Exch
<1>2. [x EXCEPT !.status = s, !.respBody = b] = [y EXCEPT !.respBody = b]
  OBVIOUS
<1> HIDE DEF y
<1>3. [y EXCEPT !.respBody = b] = Exch(s, x.err, x.reqHeaders, x.reqBody, x.respHeaders, b)
  BY <1>1 DEF Exch
<1> QED BY <1>2, <1>3

LEMMA ExchangeRedirected ==
  ASSUME NEW x, IsExchange(x), NEW s, NEW h
  PROVE  [x EXCEPT !.status = s, !.respHeaders = h] =
           Exch(s, x.err, x.reqHeaders, x.reqBody, h, x.respBody)
<1> DEFINE y == [x EXCEPT !.status = s]
<1>1. y = Exch(s, x.err, x.reqHeaders, x.reqBody, x.respHeaders, x.respBody)
  BY DEF IsExchange, Exch
<1>2. [x EXCEPT !.status = s, !.respHeaders = h] = [y EXCEPT !.respHeaders = h]
  OBVIOUS
<1> HIDE DEF y
<1>3. [y EXCEPT !.respHeaders = h] = Exch(s, x.err, x.reqHeaders, x.reqBody, h, x.respBody)
  BY <1>1 DEF Exch
<1> QED BY <1>2, <1>3

LEMMA ExchangeAnswered ==
  ASSUME NEW x, IsExchange(x), NEW s, NEW h, NEW b
  PROVE  [x EXCEPT !.status = s, !.respHeaders = h, !.respBody = b] =
           Exch(s, x.err, x.reqHeaders, x.reqBody, h, b)
<1> DEFINE z == [x EXCEPT !.status = s, !.respHeaders = h]
<1>1. z = Exch(s, x.err, x.reqHeaders, x.reqBody, h, x.respBody)
  BY ExchangeRedirected
<1>2. [x EXCEPT !.status = s, !.respHeaders = h, !.respBody = b] = [z EXCEPT !.respBody = b]
  OBVIOUS
<1> HIDE DEF z
<1>3. [z EXCEPT !.respBody = b] = Exch(s, x.err, x.reqHeaders, x.reqBody, h, b)
  BY <1>1 DEF Exch
<1> QED BY <1>2, <1>3

(* The captured copy of a body of n bytes. *)
LEMMA ClampTells ==
  ASSUME NEW n \in Nat
  PROVE  /\ Fits(Clamp(n))
         /\ Clamp(n).size <= n
         /\ Clamp(n).truncated <=> Clamp(n).size < n
         /\ Clamp(n).truncated => Clamp(n).size = MaxCaptured
<1>1. CASE n <= MaxCaptured
  BY <1>1, CapAssumption DEF Clamp, Fits
<1>2. CASE ~(n <= MaxCaptured)
  BY <1>2, CapAssumption DEF Clamp, Fits
<1> QED BY <1>1, <1>2

(* A step of goroutine g leaves the data of the others alone. *)
DataAlone(g) ==
  /\ Alone(g)
  /\ \A h \in Reqs \ {g} :
       exchange'[h] = exchange[h] /\ resp'[h] = resp[h] /\ written'[h] = written[h]

LEMMA OthersKeepTheirData ==
  ASSUME DataInv, NEW g \in Reqs, DataAlone(g), NEW h \in Reqs \ {g}
  PROVE  Data(h)'
BY DEF DataInv, Data, DataAlone, Alone, Answered, Sent, Asked

LEMMA DataOf ==
  ASSUME DataInv, NEW g \in Reqs
  PROVE  /\ g \in DOMAIN pc /\ g \in DOMAIN call /\ g \in DOMAIN exchange
         /\ g \in DOMAIN origin /\ g \in DOMAIN resp /\ g \in DOMAIN written
         /\ g \in DOMAIN client /\ g \in DOMAIN observed
         /\ IsExchange(exchange[g]) /\ Progress(g) /\ Data(g)
BY DEF DataInv, IInv, Shape, DataShape, Data

LEMMA BeginKeepsData ==
  ASSUME DataInv, NEW g \in Reqs, Begin(g)
  PROVE  DataShape' /\ DataAlone(g) /\ Data(g)'
<1>1. /\ pc[g] = "idle" /\ pc' = [pc EXCEPT ![g] = "reading"]
      /\ UNCHANGED <<origin, resp, written, client, observed>>
  BY DEF Begin, Goto
<1>2. PICK via \in {"plain", "mitm"}, request \in Requests, n \in 0 .. MaxBody :
        /\ call' = [call EXCEPT ![g] =
                      [via |-> via, request |-> request, sent |-> n, has |-> 0]]
        /\ exchange' = [exchange EXCEPT ![g].reqHeaders = request.headers]
  BY DEF Begin
<1>3. DataShape' /\ DataAlone(g)
  BY <1>1, <1>2 DEF DataInv, DataShape, IInv, Shape, DataAlone, Alone
<1> DEFINE x == exchange[g]
<1>4. exchange'[g] = Exch(x.status, x.err, request.headers, x.reqBody, x.respHeaders, x.respBody)
  BY <1>2, DataOf, ExchangeUpdates
<1>5. /\ IsExchange(exchange'[g]) /\ exchange'[g].status = x.status
      /\ exchange'[g].err = x.err /\ exchange'[g].reqBody = x.reqBody
      /\ exchange'[g].respBody = x.respBody
  BY <1>4, ExchangeFields
<1>6. /\ pc'[g] = "reading" /\ IsCall(call'[g]) /\ call'[g].sent \in Nat
  BY <1>1, <1>2, DataOf, CapAssumption DEF IsCall
<1>7. origin[g] = <<>> /\ client[g] = <<>>
  BY <1>1, DataOf DEF Progress, Early, Answering
<1>8. Answered(g)'
  BY <1>1, <1>5, <1>6, <1>7, DataOf
     DEF Data, Answered, Unreported, Early, Reported, Answering
<1>9. Sent(g)'
  BY <1>1, <1>6, <1>7 DEF Sent
<1> QED BY <1>3, <1>5, <1>8, <1>9, DataOf DEF Data

LEMMA ReadBodyKeepsData ==
  ASSUME DataInv, NEW g \in Reqs, ReadBody(g)
  PROVE  DataShape' /\ DataAlone(g) /\ Data(g)'
<1>1. /\ pc[g] = "reading" /\ pc' = [pc EXCEPT ![g] = "deciding"]
      /\ UNCHANGED <<origin, resp, written, client, observed>>
  BY DEF ReadBody, Goto
<1>2. PICK n \in 0 .. call[g].sent :
        /\ call' = [call EXCEPT ![g].has = n]
        /\ exchange' = [exchange EXCEPT ![g].reqBody = Clamp(n)]
  BY DEF ReadBody
<1>3. DataShape' /\ DataAlone(g)
  BY <1>1, <1>2 DEF DataInv, DataShape, IInv, Shape, DataAlone, Alone
<1>4. call[g].sent \in Nat /\ IsCall(call[g])
  BY <1>1, DataOf DEF Data, Sent
<1>5. n \in Nat
  BY <1>4
<1> DEFINE x == exchange[g]
<1>6. exchange'[g] = Exch(x.status, x.err, x.reqHeaders, Clamp(n), x.respHeaders, x.respBody)
  BY <1>2, DataOf, ExchangeUpdates
<1>7. /\ IsExchange(exchange'[g]) /\ exchange'[g].status = x.status
      /\ exchange'[g].err = x.err /\ exchange'[g].reqBody = Clamp(n)
      /\ exchange'[g].respBody = x.respBody
  BY <1>6, ExchangeFields
<1>8. pc'[g] = "deciding" /\ call'[g] = [call[g] EXCEPT !.has = n]
  BY <1>1, <1>2, DataOf
<1>9. /\ IsCall(call'[g]) /\ call'[g].sent = call[g].sent /\ call'[g].has = n
  BY <1>4, <1>8 DEF IsCall
<1>10. origin[g] = <<>> /\ client[g] = <<>>
  BY <1>1, DataOf DEF Progress, Early, Answering
<1>11. Answered(g)'
  BY <1>1, <1>7, <1>8, <1>10, DataOf
     DEF Data, Answered, Unreported, Early, Reported, Answering
<1>12. Sent(g)'
  BY <1>1, <1>4, <1>5, <1>7, <1>9, <1>10 DEF Sent
<1> QED BY <1>3, <1>5, <1>7, <1>11, <1>12, DataOf, ClampTells DEF Data

(* The exchange as Block or Redirect leaves and reports it. *)
Refusing(g, s, h, b) ==
  LET x == exchange[g]
      e == Exch(s, x.err, x.reqHeaders, x.reqBody, h, b)
  IN /\ s \in {StatusForbidden, StatusFound}
     /\ s = StatusForbidden => b.size = RefusalText
     /\ Fits(b)
     /\ exchange' = [exchange EXCEPT ![g] = e]
     /\ observed' = [observed EXCEPT ![g] = Append(@, e)]

(* Block and Redirect report what Refuse then writes. *)
LEMMA RefusalsKeepData ==
  ASSUME DataInv, NEW g \in Reqs, Block(g) \/ Redirect(g)
  PROVE  DataShape' /\ DataAlone(g) /\ Data(g)'
<1> DEFINE x == exchange[g]
<1>1. /\ pc[g] = "deciding" /\ pc' = [pc EXCEPT ![g] = "refusing"]
      /\ UNCHANGED <<call, origin, resp, written, client>>
  BY DEF Block, Redirect, Goto
<1>2. \E s, h, b : Refusing(g, s, h, b)
  <2>1. IsExchange(x) /\ Fits(x.respBody)
    BY DataOf DEF Data
  <2>2. CASE Block(g)
    <3> DEFINE b == [size |-> RefusalText, truncated |-> FALSE]
               e == Exch(StatusForbidden, x.err, x.reqHeaders, x.reqBody, x.respHeaders, b)
    <3>1. [x EXCEPT !.status = StatusForbidden, !.respBody = b] = e
      <4> HIDE DEF b
      <4> QED BY <2>1, ExchangeRefused
    <3>2. /\ exchange' = [exchange EXCEPT ![g] = e]
          /\ observed' = [observed EXCEPT ![g] = Append(@, e)]
      BY <2>2, <3>1 DEF Block, Notify
    <3>3. Fits(b)
      BY CapAssumption DEF Fits, RefusalText
    <3>4. Refusing(g, StatusForbidden, x.respHeaders, b)
      BY <3>2, <3>3 DEF Refusing
    <3> QED BY <3>4
  <2>3. CASE Redirect(g)
    <3> DEFINE h == [NoHeaders EXCEPT ![Location] = rules[ShortCircuit(g)].redirectTo]
               e == Exch(StatusFound, x.err, x.reqHeaders, x.reqBody, h, x.respBody)
    <3>1. [x EXCEPT !.status = StatusFound, !.respHeaders = h] = e
      BY <2>1, ExchangeRedirected
    <3>2. /\ exchange' = [exchange EXCEPT ![g] = e]
          /\ observed' = [observed EXCEPT ![g] = Append(@, e)]
      BY <2>3, <3>1 DEF Redirect, Notify
    <3>3. Refusing(g, StatusFound, h, x.respBody)
      BY <2>1, <3>2 DEF Refusing, StatusFound, StatusForbidden
    <3> QED BY <3>3
  <2> QED BY <2>2, <2>3
<1>3. PICK s, h, b : Refusing(g, s, h, b)
  BY <1>2
<1>4. DataShape' /\ DataAlone(g)
  BY <1>1, <1>3 DEF Refusing, DataInv, DataShape, IInv, Shape, DataAlone, Alone
<1>5. exchange'[g] = Exch(s, x.err, x.reqHeaders, x.reqBody, h, b)
  BY <1>3, DataOf DEF Refusing
<1>6. /\ IsExchange(exchange'[g]) /\ exchange'[g].status = s /\ exchange'[g].err = x.err
      /\ exchange'[g].reqBody = x.reqBody /\ exchange'[g].respBody = b
  BY <1>5, ExchangeFields
<1>7. origin[g] = <<>> /\ client[g] = <<>> /\ observed[g] = <<>> /\ x.err = FALSE
  BY <1>1, DataOf DEF Data, Answered, Progress, Early, Unreported, Answering
<1>8. observed'[g] = <<exchange'[g]>> /\ pc'[g] = "refusing"
  BY <1>1, <1>3, <1>5, <1>7, DataOf, FirstOnly DEF Refusing
<1>11. Refused(exchange'[g])
  BY <1>3, <1>6, <1>7 DEF Refusing, Refused
<1>9. Answered(g)'
  BY <1>1, <1>7, <1>8, <1>11 DEF Answered, Unreported, Early, Reported, Answering
<1>10. Sent(g)'
  BY <1>1, <1>6, <1>7, <1>8, DataOf DEF Data, Sent
<1> QED BY <1>3, <1>4, <1>6, <1>9, <1>10, DataOf DEF Refusing, Data

(* Send and DialFails: the captured headers are the rewritten ones, and the *)
(* origin gets them without the hop-by-hop ones.                            *)
LEMMA RelayKeepsData ==
  ASSUME DataInv, NEW g \in Reqs, Send(g) \/ DialFails(g)
  PROVE  DataShape' /\ DataAlone(g) /\ Data(g)'
<1> DEFINE x == exchange[g]
<1>1. /\ pc[g] = "deciding"
      /\ pc' = [pc EXCEPT ![g] = "waiting"] \/ pc' = [pc EXCEPT ![g] = "failed"]
      /\ exchange' = [exchange EXCEPT ![g].reqHeaders = OutHeaders(g)]
      /\ UNCHANGED <<call, resp, written, client, observed>>
  BY DEF Send, DialFails, StartRelay, Goto
<1>2. origin[g] = <<>> /\ client[g] = <<>>
  BY <1>1, DataOf DEF Progress, Early, Answering
<1>3. exchange'[g] =
        Exch(x.status, x.err, OutHeaders(g), x.reqBody, x.respHeaders, x.respBody)
  BY <1>1, DataOf, ExchangeUpdates
<1>4. /\ IsExchange(exchange'[g]) /\ exchange'[g].status = x.status
      /\ exchange'[g].err = x.err /\ exchange'[g].reqHeaders = OutHeaders(g)
      /\ exchange'[g].reqBody = x.reqBody /\ exchange'[g].respBody = x.respBody
  BY <1>3, ExchangeFields
<1>5. \/ origin' = origin
      \/ origin' = [origin EXCEPT ![g] =
                      Append(@, [headers |-> RemoveHopByHop(OutHeaders(g)),
                                 size |-> call[g].has])]
  BY DEF Send, DialFails
<1>6. DataShape' /\ DataAlone(g)
  BY <1>1, <1>5 DEF DataInv, DataShape, IInv, Shape, DataAlone, Alone
<1>7. \/ origin'[g] = <<>>
      \/ origin'[g] = <<[headers |-> RemoveHopByHop(OutHeaders(g)), size |-> call[g].has]>>
  BY <1>2, <1>5, DataOf, FirstOnly
<1>8. pc'[g] \in {"waiting", "failed"}
  BY <1>1, DataOf
<1>9. Answered(g)'
  BY <1>1, <1>2, <1>4, <1>8, DataOf
     DEF Data, Answered, Unreported, Early, Reported, Answering
<1>10. Sent(g)'
  BY <1>1, <1>4, <1>7, <1>8, DataOf DEF Data, Sent, Asked
<1> QED BY <1>4, <1>6, <1>9, <1>10, DataOf DEF Data

LEMMA OriginAnswersKeepsData ==
  ASSUME DataInv, NEW g \in Reqs, OriginAnswers(g) \/ RoundTripFails(g)
  PROVE  DataShape' /\ DataAlone(g) /\ Data(g)'
<1>1. /\ pc[g] = "waiting"
      /\ UNCHANGED <<call, exchange, origin, written, client, observed>>
  BY DEF OriginAnswers, RoundTripFails, Goto
<1>2. \/ pc' = [pc EXCEPT ![g] = "failed"] /\ resp' = resp
      \/ /\ pc' = [pc EXCEPT ![g] = "receiving"]
         /\ \E h \in OriginHeaders, n \in 0 .. MaxBody, declared \in BOOLEAN :
              resp' = [resp EXCEPT ![g] =
                         [sent |-> n, headers |-> IF declared THEN [h EXCEPT ![ContentLength] = Itoa[n]]
                                                  ELSE h]]
  BY DEF OriginAnswers, RoundTripFails, Goto
<1>3. /\ pc'[g] \in {"failed", "receiving"}
      /\ pc'[g] = "receiving" => resp'[g].sent \in Nat
  BY <1>2, DataOf, CapAssumption
<1>4. DataShape' /\ DataAlone(g)
  BY <1>1, <1>2 DEF DataInv, DataShape, IInv, Shape, DataAlone, Alone
<1>5. client[g] = <<>>
  BY <1>1, DataOf DEF Progress, Answering
<1>6. Answered(g)'
  BY <1>1, <1>3, <1>5, DataOf
     DEF Data, Answered, Unreported, Early, Reported, Answering
<1>7. Sent(g)'
  BY <1>1, <1>3, DataOf DEF Data, Sent, Asked
<1> QED BY <1>1, <1>4, <1>6, <1>7, DataOf DEF Data

(* Respond: what is written is what is captured. *)
LEMMA RespondKeepsData ==
  ASSUME DataInv, NEW g \in Reqs, RespondWhole(g) \/ RespondCut(g)
  PROVE  DataShape' /\ DataAlone(g) /\ Data(g)'
<1> DEFINE x == exchange[g]
           h == ApplyHeaderRewrites(resp[g].headers, Matched(g), TRUE)
<1>1. resp[g].sent \in Nat
  BY DataOf DEF RespondWhole, RespondCut, Data, Answered
<1>2. PICK n \in 0 .. resp[g].sent : Respond(g, n)
  BY <1>1 DEF RespondWhole, RespondCut
<1>3. /\ pc[g] = "receiving" /\ pc' = [pc EXCEPT ![g] = "reporting"]
      /\ exchange' = [exchange EXCEPT ![g].status = StatusOK,
                                      ![g].respHeaders = h,
                                      ![g].respBody = Clamp(n)]
      /\ written' = [written EXCEPT ![g] = Answer(StatusOK, h, n)]
      /\ UNCHANGED <<call, origin, resp, client, observed>>
  BY <1>2 DEF Respond, Goto
<1> HIDE DEF h
<1>4. exchange'[g] = [x EXCEPT !.status = StatusOK, !.respHeaders = h, !.respBody = Clamp(n)]
  BY <1>3, DataOf
<1>5. exchange'[g] = Exch(StatusOK, x.err, x.reqHeaders, x.reqBody, h, Clamp(n))
  <2>1. \A s, b : [x EXCEPT !.status = s, !.respHeaders = h, !.respBody = b] =
                    Exch(s, x.err, x.reqHeaders, x.reqBody, h, b)
    BY DataOf, ExchangeAnswered
  <2> QED BY <1>4, <2>1
<1>6. /\ IsExchange(exchange'[g]) /\ exchange'[g].status = StatusOK
      /\ exchange'[g].err = x.err /\ exchange'[g].reqHeaders = x.reqHeaders
      /\ exchange'[g].reqBody = x.reqBody /\ exchange'[g].respHeaders = h
      /\ exchange'[g].respBody = Clamp(n)
  BY <1>5, ExchangeFields
<1>7. /\ pc'[g] = "reporting" /\ written'[g].status = StatusOK
      /\ written'[g].headers = h /\ written'[g].size = n /\ n \in Nat
  BY <1>1, <1>3, DataOf DEF Answer
<1>8. DataShape' /\ DataAlone(g)
  BY <1>3 DEF DataInv, DataShape, IInv, Shape, DataAlone, Alone
<1>9. x.err = FALSE /\ client[g] = <<>>
  BY <1>3, DataOf DEF Data, Answered, Unreported, Early, Progress, Answering
<1>10. Tells(exchange'[g], written'[g], call'[g].request)
  BY <1>6, <1>7, <1>9 DEF Tells, StatusOK, StatusFound, StatusForbidden
<1>11. Answered(g)'
  BY <1>1, <1>3, <1>7, <1>9, <1>10 DEF Answered, Unreported, Early, Reported, Answering
<1>12. Sent(g)'
  BY <1>3, <1>6, <1>7, DataOf DEF Data, Sent, Asked
<1> QED BY <1>6, <1>8, <1>11, <1>12, DataOf, ClampTells DEF Data

LEMMA ReportsKeepData ==
  ASSUME DataInv, NEW g \in Reqs, Report(g) \/ ReportError(g)
  PROVE  DataShape' /\ DataAlone(g) /\ Data(g)'
<1> DEFINE x == exchange[g]
<1>1. UNCHANGED <<call, origin, resp, written, client>>
  BY DEF Report, ReportError
<1>2. observed[g] = <<>>
  BY DataOf DEF Report, ReportError, Goto, Progress, Unreported, Early
<1>3. CASE Report(g)
  <2>1. /\ pc[g] = "reporting" /\ pc' = [pc EXCEPT ![g] = "returning"]
        /\ exchange' = exchange
        /\ observed' = [observed EXCEPT ![g] = Append(@, exchange[g])]
    BY <1>3 DEF Report, Notify, Goto
  <2>2. DataShape' /\ DataAlone(g)
    BY <1>1, <2>1 DEF DataInv, DataShape, IInv, Shape, DataAlone, Alone
  <2>3. pc'[g] = "returning" /\ observed'[g] = <<exchange'[g]>>
    BY <1>2, <2>1, DataOf, FirstOnly
  <2>4. Answered(g)'
    BY <1>1, <2>1, <2>3, DataOf
       DEF Data, Answered, Unreported, Early, Reported, Answering
  <2>5. Sent(g)'
    BY <1>1, <2>1, <2>3, DataOf DEF Data, Sent, Asked
  <2> QED BY <2>1, <2>2, <2>4, <2>5, DataOf DEF Data
<1>4. CASE ReportError(g)
  <2>1. /\ pc[g] = "failed" /\ pc' = [pc EXCEPT ![g] = "refusing"]
        /\ exchange' = [exchange EXCEPT ![g].err = TRUE]
        /\ observed' = [observed EXCEPT ![g] = Append(@, [exchange[g] EXCEPT !.err = TRUE])]
    BY <1>4 DEF ReportError, Notify, Goto
  <2>2. DataShape' /\ DataAlone(g)
    BY <1>1, <2>1 DEF DataInv, DataShape, IInv, Shape, DataAlone, Alone
  <2>3. exchange'[g] = [exchange[g] EXCEPT !.err = TRUE]
    BY <2>1, DataOf
  <2>4. pc'[g] = "refusing" /\ observed'[g] = <<exchange'[g]>>
    BY <1>2, <2>1, <2>3, DataOf, FirstOnly
  <2>5. exchange'[g] = Exch(x.status, TRUE, x.reqHeaders, x.reqBody, x.respHeaders, x.respBody)
    BY <2>3, DataOf, ExchangeUpdates
  <2>6. /\ IsExchange(exchange'[g]) /\ exchange'[g].status = x.status
        /\ exchange'[g].reqHeaders = x.reqHeaders /\ exchange'[g].err = TRUE
        /\ exchange'[g].reqBody = x.reqBody /\ exchange'[g].respBody = x.respBody
    BY <2>5 DEF Exch, IsExchange
  <2>7. x.status = 0 /\ client[g] = <<>>
    BY <2>1, DataOf DEF Data, Answered, Unreported, Early, Progress, Answering
  <2>10. Refused(exchange'[g])
    <3>1. exchange'[g].status = 0 /\ exchange'[g].err = TRUE
      BY <2>6, <2>7
    <3>2. exchange'[g].status # StatusForbidden
      BY <3>1 DEF StatusForbidden
    <3> QED BY <3>1, <3>2, Zenon DEF Refused
  <2>8. Answered(g)'
    BY <1>1, <2>4, <2>7, <2>10 DEF Answered, Unreported, Early, Reported, Answering
  <2>9. Sent(g)'
    BY <1>1, <2>1, <2>4, <2>6, DataOf DEF Data, Sent, Asked
  <2> QED BY <2>2, <2>6, <2>8, <2>9, DataOf DEF Data
<1> QED BY <1>3, <1>4

LEMMA AnswersKeepData ==
  ASSUME DataInv, NEW g \in Reqs, Refuse(g) \/ SendEarly(g) \/ Return(g)
  PROVE  DataShape' /\ DataAlone(g) /\ Data(g)'
<1>1. UNCHANGED <<call, exchange, origin, resp, observed>>
  BY DEF Refuse, SendEarly, Return
<1>2. CASE Refuse(g)
  <2>1. /\ pc[g] = "refusing" /\ pc' = [pc EXCEPT ![g] = "returning"]
        /\ client' = client
        /\ written' = [written EXCEPT ![g] = Refusal(g)]
    BY <1>2 DEF Refuse, Goto
  <2>2. DataShape' /\ DataAlone(g)
    BY <1>1, <2>1 DEF DataInv, DataShape, IInv, Shape, DataAlone, Alone
  <2>3. pc'[g] = "returning" /\ written'[g] = Refusal(g)
    BY <2>1, DataOf
  <2>4. client[g] = <<>> /\ Refused(exchange[g])
    BY <2>1, DataOf DEF Data, Answered, Progress, Answering
  <2>5. Tells(exchange'[g], written'[g], call'[g].request) /\ exchange'[g].status # StatusOK
    <3>1. CASE exchange[g].err
      BY <1>1, <2>3, <2>4, <3>1 DEF Refusal, Refused, Tells, HttpError, Answer, StatusOK,
         StatusFound, StatusForbidden
    <3>2. CASE ~exchange[g].err /\ exchange[g].status = StatusForbidden
      BY <1>1, <2>3, <2>4, <3>2 DEF Refusal, Refused, Tells, HttpError, Answer, StatusOK,
         StatusFound, StatusForbidden
    <3>3. CASE ~exchange[g].err /\ exchange[g].status = StatusFound
      BY <1>1, <2>3, <2>4, <3>3 DEF Refusal, Refused, Tells, HttpRedirect, Answer, StatusOK,
         StatusFound, StatusForbidden
    <3> QED BY <2>4, <3>1, <3>2, <3>3 DEF Refused
  <2>6. observed[g] = <<exchange[g]>>
    BY <2>1, DataOf DEF Data, Answered, Reported
  <2>7. Answered(g)'
    BY <1>1, <2>1, <2>3, <2>4, <2>5, <2>6
       DEF Answered, Unreported, Early, Reported, Answering
  <2>8. Sent(g)'
    BY <1>1, <2>1, <2>3, DataOf DEF Data, Sent, Asked
  <2> QED BY <1>1, <2>2, <2>7, <2>8, DataOf DEF Data
<1>3. CASE SendEarly(g) \/ Return(g)
  <2>1. /\ pc[g] \in {"reporting", "returning"}
        /\ pc' = pc \/ (pc[g] = "returning" /\ pc' = [pc EXCEPT ![g] = "done"])
        /\ written' = written
        /\ \/ client' = client
           \/ /\ client[g] = <<>>
              /\ \E c \in Sendable(call[g].via, written[g]) :
                   client' = [client EXCEPT ![g] = IF clientOpen[g] THEN Append(@, c) ELSE @]
    <3>1. CASE SendEarly(g)
      BY <3>1 DEF SendEarly, Deliver, Sendable
    <3>2. CASE Return(g) /\ client[g] # <<>>
      BY <3>2 DEF Return, Goto
    <3>3. CASE Return(g) /\ client[g] = <<>>
      <4>1. AtTheEnd(g) \in Sendable(call[g].via, written[g])
        BY DEF AtTheEnd, Sendable
      <4> QED BY <3>3, <4>1 DEF Return, Deliver, Goto
    <3> QED BY <1>3, <3>1, <3>2, <3>3
  <2>2. DataShape' /\ DataAlone(g)
    BY <1>1, <2>1 DEF DataInv, DataShape, IInv, Shape, DataAlone, Alone
  <2>3. /\ pc'[g] = pc[g] \/ (pc[g] = "returning" /\ pc'[g] = "done")
        /\ client'[g] = client[g] \/ \E c \in Sendable(call[g].via, written[g]) : client'[g] = <<c>>
    BY <2>1, DataOf, FirstOnly
  <2>4. Answered(g)'
    BY <1>1, <2>1, <2>3, DataOf
       DEF Data, Answered, Unreported, Early, Reported, Answering
  <2>5. Sent(g)'
    BY <1>1, <2>1, <2>3, DataOf DEF Data, Sent, Asked
  <2> QED BY <1>1, <2>2, <2>4, <2>5, DataOf DEF Data
<1> QED BY <1>2, <1>3

LEMMA StepsLeaveOthersData ==
  ASSUME DataInv, NEW g \in Reqs, Step(g)
  PROVE  DataAlone(g)
<1>1. CASE ClientGoes(g) \/ Cancel(g)
  <2>1. UNCHANGED <<pc, call, exchange, origin, resp, written, client, observed>>
    BY <1>1 DEF ClientGoes, Cancel
  <2> QED BY <2>1 DEF DataAlone, Alone
<1>2. CASE ~(ClientGoes(g) \/ Cancel(g))
  BY <1>2, BeginKeepsData, ReadBodyKeepsData, RefusalsKeepData, RelayKeepsData,
     OriginAnswersKeepsData, RespondKeepsData, ReportsKeepData, AnswersKeepData
     DEF Step, Own, OriginSteps, OriginEnds
<1> QED BY <1>1, <1>2

LEMMA DataInvIsInductive ==
  /\ Init => DataInv
  /\ DataInv /\ [Next]_vars => DataInv'
<1>1. ASSUME Init
      PROVE  DataInv
  <2>1. IInv
    BY <1>1, IInvIsInductive
  <2>2. DataShape
    BY <1>1 DEF Init, DataShape
  <2>3. ASSUME NEW g \in Reqs
        PROVE  Data(g)
    <3>1. /\ exchange[g] = Exch(0, FALSE, NoHeaders, NoBody, NoHeaders, NoBody)
          /\ pc[g] = "idle" /\ client[g] = <<>> /\ origin[g] = <<>>
      BY <1>1 DEF Init, EmptyExchange, Exch
    <3>2. /\ IsExchange(exchange[g]) /\ exchange[g].status = 0 /\ exchange[g].err = FALSE
          /\ exchange[g].reqBody = NoBody /\ exchange[g].respBody = NoBody
      BY <3>1 DEF Exch, IsExchange
    <3>3. Fits(NoBody)
      BY CapAssumption DEF Fits, NoBody
    <3>4. Answered(g) /\ Sent(g)
      BY <3>1, <3>2 DEF Answered, Sent, Reported, Answering
    <3> QED BY <3>2, <3>3, <3>4 DEF Data
  <2> QED BY <2>1, <2>2, <2>3 DEF DataInv
<1>2. ASSUME DataInv, NEW g \in Reqs, Step(g)
      PROVE  DataInv'
  <2>1. IInv'
    BY <1>2, IInvIsInductive DEF DataInv, Next
  <2>2. CASE ClientGoes(g) \/ Cancel(g)
    <3>1. UNCHANGED <<pc, call, exchange, origin, resp, written, client, observed>>
      BY <2>2 DEF ClientGoes, Cancel
    <3> QED BY <1>2, <2>1, <3>1 DEF DataInv, DataShape, Data, Answered, Sent, Asked
  <2>3. CASE ~(ClientGoes(g) \/ Cancel(g))
    <3>1. DataShape' /\ DataAlone(g) /\ Data(g)'
      BY <1>2, <2>3, BeginKeepsData, ReadBodyKeepsData, RefusalsKeepData,
         RelayKeepsData, OriginAnswersKeepsData, RespondKeepsData, ReportsKeepData,
         AnswersKeepData
         DEF Step, Own, OriginSteps, OriginEnds
    <3> QED BY <1>2, <2>1, <3>1, OthersKeepTheirData DEF DataInv
  <2> QED BY <2>2, <2>3
<1>3. ASSUME DataInv, UNCHANGED vars
      PROVE  DataInv'
  BY <1>3, IInvIsInductive DEF vars, DataInv, DataShape, Data, Answered, Sent, Asked
<1> QED BY <1>1, <1>2, <1>3 DEF Next

(* What leaves for the client has the status the handler wrote, ...         *)
LEMMA SendableStatus ==
  ASSUME NEW via, NEW w, NEW c \in Sendable(via, w)
  PROVE  c.status = w.status
BY DEF Sendable, Flushed, Served

(* ... which is the one that was reported.                                  *)
LEMMA StatusTold ==
  ASSUME DataInv, NEW g \in Reqs, observed[g] # <<>>, client[g] # <<>>
  PROVE  /\ observed[g] = <<exchange[g]>>
         /\ Tells(exchange[g], written[g], call[g].request)
         /\ client[g][1] \in Sendable(call[g].via, written[g])
         /\ client[g][1].status = IF exchange[g].err THEN StatusBadGateway ELSE exchange[g].status
<1>1. pc[g] \in PCs /\ Progress(g) /\ Answered(g)
  BY DEF DataInv, IInv, Shape, Data
<1>2. pc[g] \in Reported /\ pc[g] \in Answering
  BY <1>1 DEF Progress, PCs, Unreported, Early, Reported
<1>3. PICK c \in Sendable(call[g].via, written[g]) : client[g] = <<c>>
  BY <1>1 DEF Answered
<1>4. client[g][1] = c
  BY <1>3
<1>5. Tells(exchange[g], written[g], call[g].request) /\ observed[g] = <<exchange[g]>>
  BY <1>1, <1>2 DEF Answered
<1> QED BY <1>3, <1>4, <1>5, SendableStatus DEF Tells

(* The request is the one that came, and no more of its body than was sent. *)
CallOK(g) ==
  pc[g] # "idle" =>
    /\ call[g].request \in Requests
    /\ call[g].has \in 0 .. call[g].sent

Flags ==
  /\ rules \in RuleLists
  /\ clientOpen \in [Reqs -> BOOLEAN]
  /\ ctxDone \in [Reqs -> BOOLEAN]

LEMMA CallsAreKept ==
  ASSUME DataInv, \A g \in Reqs : CallOK(g), NEW g \in Reqs, Step(g), NEW h \in Reqs
  PROVE  CallOK(h)'
<1>1. CASE Begin(g)
  <2>1. PICK via \in {"plain", "mitm"}, request \in Requests, n \in 0 .. MaxBody :
          call' = [call EXCEPT ![g] =
                     [via |-> via, request |-> request, sent |-> n, has |-> 0]]
    BY <1>1 DEF Begin
  <2>2. pc' = [pc EXCEPT ![g] = "reading"]
    BY <1>1 DEF Begin, Goto
  <2>3. n \in Nat
    BY CapAssumption
  <2>4. CASE h = g
    <3>1. /\ call'[h].request = request /\ call'[h].sent = n /\ call'[h].has = 0
      BY <2>1, <2>4, DataOf
    <3> QED BY <2>3, <3>1 DEF CallOK
  <2>5. CASE h # g
    BY <2>1, <2>2, <2>5 DEF CallOK, DataInv, IInv, Shape
  <2> QED BY <2>4, <2>5
<1>2. CASE ReadBody(g)
  <2>1. PICK n \in 0 .. call[g].sent : call' = [call EXCEPT ![g].has = n]
    BY <1>2 DEF ReadBody
  <2>2. pc[g] = "reading" /\ pc' = [pc EXCEPT ![g] = "deciding"]
    BY <1>2 DEF ReadBody, Goto
  <2>3. CASE h = g
    <3>1. IsCall(call[g]) /\ call[g].request \in Requests
      BY <2>2, DataOf DEF Data, Sent, CallOK
    <3>2. call'[h] = [call[g] EXCEPT !.has = n]
      BY <2>1, <2>3, DataOf
    <3>3. /\ call'[h].request = call[g].request /\ call'[h].sent = call[g].sent
          /\ call'[h].has = n
      BY <3>1, <3>2 DEF IsCall
    <3> QED BY <3>1, <3>3 DEF CallOK
  <2>4. CASE h # g
    BY <2>1, <2>2, <2>4 DEF CallOK, DataInv, IInv, Shape
  <2> QED BY <2>3, <2>4
<1>3. CASE ~(Begin(g) \/ ReadBody(g))
  <2>1. call' = call
    BY <1>3 DEF Step, Own, OriginSteps, OriginEnds, Block, Redirect, Send, DialFails,
                StartRelay, Report, ReportError, Refuse, Return, OriginAnswers,
                RoundTripFails, RespondWhole, RespondCut, Respond, SendEarly,
                ClientGoes, Cancel
  <2>2. pc[g] # "idle" /\ \A k \in Reqs \ {g} : pc'[k] = pc[k]
    BY <1>3 DEF Step, Own, OriginSteps, OriginEnds, Block, Redirect, Send, DialFails,
                StartRelay, Report, ReportError, Refuse, Return, OriginAnswers,
                RoundTripFails, RespondWhole, RespondCut, Respond, SendEarly,
                ClientGoes, Cancel, Goto, DataInv, IInv, Shape
  <2> QED BY <2>1, <2>2 DEF CallOK
<1> QED BY <1>1, <1>2, <1>3

LEMMA FlagsAreKept ==
  ASSUME Flags, NEW g \in Reqs, Step(g)
  PROVE  Flags'
<1>1. /\ rules' = rules
      /\ clientOpen' = clientOpen \/ clientOpen' = [clientOpen EXCEPT ![g] = FALSE]
      /\ ctxDone' = ctxDone \/ ctxDone' = [ctxDone EXCEPT ![g] = TRUE]
  BY DEF Step, Own, OriginSteps, OriginEnds, Begin, ReadBody, Block, Redirect, Send,
         DialFails, StartRelay, Report, ReportError, Refuse, Return, OriginAnswers,
         RoundTripFails, RespondWhole, RespondCut, Respond, SendEarly, ClientGoes,
         Cancel, context
<1> QED BY <1>1 DEF Flags

TypeInv == DataInv /\ Flags /\ \A g \in Reqs : CallOK(g)

LEMMA TypeInvIsInductive ==
  /\ Init => TypeInv
  /\ TypeInv /\ [Next]_vars => TypeInv'
<1>1. Init => TypeInv
  <2>1. Init => Flags
    BY DEF Init, Flags
  <2>2. Init => \A g \in Reqs : CallOK(g)
    BY DEF Init, CallOK
  <2> QED BY <2>1, <2>2, DataInvIsInductive DEF TypeInv
<1>2. ASSUME TypeInv, UNCHANGED vars
      PROVE  TypeInv'
  <2>1. DataInv'
    BY <1>2, DataInvIsInductive DEF TypeInv
  <2> QED BY <1>2, <2>1 DEF TypeInv, vars, Flags, CallOK
<1>3. ASSUME TypeInv, NEW g \in Reqs, Step(g)
      PROVE  TypeInv'
  <2>1. DataInv'
    BY <1>3, DataInvIsInductive DEF TypeInv, Next
  <2> QED BY <1>3, <2>1, CallsAreKept, FlagsAreKept DEF TypeInv
<1> QED BY <1>1, <1>2, <1>3 DEF Next

(* Program points, bodies and captured copies stay within their bounds.     *)
THEOREM RelayTypeCorrect == Spec => []TypeOK
<1>1. TypeInv => TypeOK
  BY DEF TypeInv, TypeOK, Flags, CallOK, DataInv, Data, Fits, IInv, Shape
<1> QED BY TypeInvIsInductive, <1>1, PTL DEF Spec

-----------------------------------------------------------------------------
(* The header rewrites: two loops, of which the last operation on a name    *)
(* decides.                                                                 *)

(* A set of numbers has a least one.                                        *)
LEMMA LeastNumber ==
  ASSUME NEW P \in SUBSET Nat, P # {}
  PROVE  \E m \in P : \A n \in P : m <= n
<1> DEFINE R == {ss \in Nat \X Nat : ss[1] < ss[2]}
<1>1. IsWellFoundedOn(R, Nat)
  BY NatLessThanWellFounded DEF OpToRel
<1>2. PICK m \in P : \A n \in P : ~(<<n, m>> \in R)
  BY <1>1, WFMin
<1>3. \A n \in P : ~(n < m)
  BY <1>2
<1> QED BY <1>3

(* One turn of the inner loop, and the headers after every turn.            *)
OpsTurn(h, ops, onResp, f, k) ==
  IF k = 0 THEN h
  ELSE IF ops[k].onResp = onResp THEN ApplyOp(f[k - 1], ops[k])
  ELSE f[k - 1]

OpsLoop(h, ops, onResp, m, f) ==
  f = [k \in 0 .. m |-> OpsTurn(h, ops, onResp, f, k)]

LEMMA OpsLoopRuns ==
  ASSUME NEW h, NEW ops, NEW onResp, NEW m \in Nat
  PROVE  \E f : OpsLoop(h, ops, onResp, m, f)
<1> DEFINE Stuck == {k \in Nat : ~\E f : OpsLoop(h, ops, onResp, k, f)}
<1>1. SUFFICES ASSUME Stuck # {} PROVE FALSE
  OBVIOUS
<1>2. PICK k \in Stuck : \A j \in Stuck : k <= j
  <2>1. Stuck \in SUBSET Nat
    OBVIOUS
  <2> HIDE DEF Stuck
  <2> QED BY <1>1, <2>1, LeastNumber
<1>3. k # 0
  <2> DEFINE f == [j \in 0 .. 0 |-> h]
  <2>1. \A j \in 0 .. 0 : OpsTurn(h, ops, onResp, f, j) = h
    BY DEF OpsTurn
  <2> HIDE DEF f
  <2>2. f = [j \in 0 .. 0 |-> OpsTurn(h, ops, onResp, f, j)]
    BY <2>1 DEF f
  <2>3. OpsLoop(h, ops, onResp, 0, f)
    BY <2>2 DEF OpsLoop
  <2> QED BY <2>3
<1>4. k - 1 \in Nat /\ k - 1 \notin Stuck
  BY <1>2, <1>3
<1>5. PICK g : OpsLoop(h, ops, onResp, k - 1, g)
  BY <1>4
<1> DEFINE f == [j \in 0 .. k |-> OpsTurn(h, ops, onResp, g, j)]
<1>6. \A j \in 0 .. k - 1 : f[j] = g[j]
  BY <1>4, <1>5 DEF OpsLoop
<1>7. \A j \in 0 .. k : OpsTurn(h, ops, onResp, f, j) = OpsTurn(h, ops, onResp, g, j)
  <2> HIDE DEF f
  <2> QED BY <1>4, <1>6 DEF OpsTurn
<1>8. OpsLoop(h, ops, onResp, k, f)
  <2>1. f = [j \in 0 .. k |-> OpsTurn(h, ops, onResp, g, j)]
    OBVIOUS
  <2> HIDE DEF f
  <2> QED BY <1>7, <2>1 DEF OpsLoop
<1> QED BY <1>8

Outcome(op) == IF op.remove THEN Absent ELSE op.value

Names(op, onResp, n) == op.onResp = onResp /\ op.name = n

(* v is what the first k operations leave under a name that had u.          *)
OpsLeave(ops, k, onResp, n, u, v) ==
  \/ v = u /\ \A j \in 1 .. k : ~Names(ops[j], onResp, n)
  \/ \E j \in 1 .. k :
       /\ Names(ops[j], onResp, n)
       /\ \A l \in 1 .. k : Names(ops[l], onResp, n) => l <= j
       /\ v = Outcome(ops[j])

(* The inner loop leaves what the last operation on a name asks for.        *)
LEMMA OpsInOrder ==
  ASSUME NEW h, NEW ops, Len(ops) \in Nat, NEW onResp
  PROVE  LET after == ApplyOps(h, ops, onResp)
         IN /\ DOMAIN after = DOMAIN h
            /\ \A n \in DOMAIN h : OpsLeave(ops, Len(ops), onResp, n, h[n], after[n])
<1> DEFINE f == CHOOSE g : OpsLoop(h, ops, onResp, Len(ops), g)
           Good(k) == /\ DOMAIN f[k] = DOMAIN h
                      /\ \A n \in DOMAIN h : OpsLeave(ops, k, onResp, n, h[n], f[k][n])
           Bad == {k \in 0 .. Len(ops) : ~Good(k)}
<1>1. ApplyOps(h, ops, onResp) = f[Len(ops)]
  BY Zenon DEF ApplyOps, OpsLoop, OpsTurn
<1>2. OpsLoop(h, ops, onResp, Len(ops), f)
  BY OpsLoopRuns
<1> HIDE DEF f
<1>3. \A k \in 0 .. Len(ops) : f[k] = OpsTurn(h, ops, onResp, f, k)
  BY <1>2 DEF OpsLoop
<1>4. Good(0)
  BY <1>3 DEF OpsTurn, OpsLeave
<1>5. ASSUME NEW k \in 1 .. Len(ops), Good(k - 1)
      PROVE  Good(k)
  <2>1. CASE ops[k].onResp # onResp
    <3>1. f[k] = f[k - 1]
      BY <1>3, <2>1 DEF OpsTurn
    <3>2. ASSUME NEW n \in DOMAIN h PROVE OpsLeave(ops, k, onResp, n, h[n], f[k][n])
      <4>1. ~Names(ops[k], onResp, n)
        BY <2>1 DEF Names
      <4>2. OpsLeave(ops, k - 1, onResp, n, h[n], f[k][n])
        BY <1>5, <3>1
      <4> QED BY <4>1, <4>2 DEF OpsLeave
    <3> QED BY <1>5, <3>1, <3>2
  <2>2. CASE ops[k].onResp = onResp
    <3>1. f[k] = ApplyOp(f[k - 1], ops[k])
      BY <1>3, <2>2 DEF OpsTurn
    <3>2. /\ DOMAIN f[k] = DOMAIN h
          /\ \A n \in DOMAIN h :
               f[k][n] = IF n = ops[k].name THEN Outcome(ops[k]) ELSE f[k - 1][n]
      BY <1>5, <3>1 DEF ApplyOp, Outcome
    <3>3. ASSUME NEW n \in DOMAIN h PROVE OpsLeave(ops, k, onResp, n, h[n], f[k][n])
      <4>1. CASE n = ops[k].name
        <5>1. Names(ops[k], onResp, n) /\ f[k][n] = Outcome(ops[k])
          BY <2>2, <3>2, <4>1 DEF Names
        <5>2. k \in 1 .. k /\ \A l \in 1 .. k : l <= k
          OBVIOUS
        <5> QED BY <5>1, <5>2 DEF OpsLeave
      <4>2. CASE n # ops[k].name
        <5>1. ~Names(ops[k], onResp, n)
          BY <4>2 DEF Names
        <5>2. OpsLeave(ops, k - 1, onResp, n, h[n], f[k][n])
          BY <1>5, <3>2, <4>2
        <5> QED BY <5>1, <5>2 DEF OpsLeave
      <4> QED BY <4>1, <4>2
    <3> QED BY <3>2, <3>3
  <2> QED BY <2>1, <2>2
<1> HIDE DEF Good
<1>6. Bad = {}
  <2> SUFFICES ASSUME Bad # {} PROVE FALSE
    OBVIOUS
  <2>1. Bad \in SUBSET Nat
    OBVIOUS
  <2>2. PICK k \in Bad : \A j \in Bad : k <= j
    <3> HIDE DEF Bad
    <3> QED BY <2>1, LeastNumber
  <2>3. k \in 1 .. Len(ops) /\ k - 1 \in 0 .. Len(ops) /\ k - 1 \notin Bad
    BY <1>4, <2>2
  <2> QED BY <1>5, <2>2, <2>3
<1>7. Good(Len(ops))
  BY <1>6
<1> QED BY <1>1, <1>7 DEF Good

(* One turn of the outer loop, and the headers after every turn.            *)
RulesTurn(h, list, onResp, f, i) ==
  IF i = 0 THEN h
  ELSE IF list[i].action = "rewrite-header"
  THEN ApplyOps(f[i - 1], list[i].headers, onResp)
  ELSE f[i - 1]

RulesLoop(h, list, onResp, m, f) ==
  f = [i \in 0 .. m |-> RulesTurn(h, list, onResp, f, i)]

LEMMA RulesLoopRuns ==
  ASSUME NEW h, NEW list, NEW onResp, NEW m \in Nat
  PROVE  \E f : RulesLoop(h, list, onResp, m, f)
<1> DEFINE Stuck == {k \in Nat : ~\E f : RulesLoop(h, list, onResp, k, f)}
<1>1. SUFFICES ASSUME Stuck # {} PROVE FALSE
  OBVIOUS
<1>2. PICK k \in Stuck : \A j \in Stuck : k <= j
  <2>1. Stuck \in SUBSET Nat
    OBVIOUS
  <2> HIDE DEF Stuck
  <2> QED BY <1>1, <2>1, LeastNumber
<1>3. k # 0
  <2> DEFINE f == [j \in 0 .. 0 |-> h]
  <2>1. \A j \in 0 .. 0 : RulesTurn(h, list, onResp, f, j) = h
    BY DEF RulesTurn
  <2> HIDE DEF f
  <2>2. f = [j \in 0 .. 0 |-> RulesTurn(h, list, onResp, f, j)]
    BY <2>1 DEF f
  <2>3. RulesLoop(h, list, onResp, 0, f)
    BY <2>2 DEF RulesLoop
  <2> QED BY <2>3
<1>4. k - 1 \in Nat /\ k - 1 \notin Stuck
  BY <1>2, <1>3
<1>5. PICK g : RulesLoop(h, list, onResp, k - 1, g)
  BY <1>4
<1> DEFINE f == [j \in 0 .. k |-> RulesTurn(h, list, onResp, g, j)]
<1>6. \A j \in 0 .. k - 1 : f[j] = g[j]
  BY <1>4, <1>5 DEF RulesLoop
<1>7. \A j \in 0 .. k : RulesTurn(h, list, onResp, f, j) = RulesTurn(h, list, onResp, g, j)
  <2> HIDE DEF f
  <2> QED BY <1>4, <1>6 DEF RulesTurn
<1>8. RulesLoop(h, list, onResp, k, f)
  <2>1. f = [j \in 0 .. k |-> RulesTurn(h, list, onResp, g, j)]
    OBVIOUS
  <2> HIDE DEF f
  <2> QED BY <1>7, <2>1 DEF RulesLoop
<1> QED BY <1>8

(* Rule r rewrites the header n of a side, in the end by operation j.       *)
LastOp(r, j, onResp, n) ==
  /\ r.action = "rewrite-header"
  /\ j \in 1 .. Len(r.headers)
  /\ Names(r.headers[j], onResp, n)
  /\ \A l \in 1 .. Len(r.headers) : Names(r.headers[l], onResp, n) => l <= j

Rewrites(r, onResp, n) == \E j \in Nat : LastOp(r, j, onResp, n)

(* v is what the first k rules leave under a name that had u.               *)
RulesLeave(list, k, onResp, n, u, v) ==
  \/ v = u /\ \A i \in 1 .. k : ~Rewrites(list[i], onResp, n)
  \/ \E i \in 1 .. k, j \in Nat :
       /\ LastOp(list[i], j, onResp, n)
       /\ \A l \in 1 .. k : Rewrites(list[l], onResp, n) => l <= i
       /\ v = Outcome(list[i].headers[j])

(* A rule that names a header has a last operation on it.                   *)
LEMMA LastOpExists ==
  ASSUME NEW r, r.action = "rewrite-header", NEW onResp, NEW n, NEW u, NEW v,
         OpsLeave(r.headers, Len(r.headers), onResp, n, u, v)
  PROVE  \/ v = u /\ ~Rewrites(r, onResp, n)
         \/ \E j \in Nat : LastOp(r, j, onResp, n) /\ v = Outcome(r.headers[j])
BY DEF OpsLeave, LastOp, Rewrites

LEMMA NamedIsRewritten ==
  ASSUME NEW r, r.action = "rewrite-header", Len(r.headers) \in Nat, NEW onResp, NEW n,
         NEW j \in 1 .. Len(r.headers), Names(r.headers[j], onResp, n)
  PROVE  Rewrites(r, onResp, n)
<1> DEFINE h == [m \in {n} |-> Absent]
           w == ApplyOps(h, r.headers, onResp)[n]
<1>1. n \in DOMAIN h
  OBVIOUS
<1>2. PICK u : u = h[n]
  OBVIOUS
<1> HIDE DEF h
<1>3. OpsLeave(r.headers, Len(r.headers), onResp, n, u, w)
  BY <1>1, <1>2, OpsInOrder
<1> QED BY <1>3 DEF OpsLeave, LastOp, Rewrites

LEMMA RuleSkipped ==
  ASSUME NEW list, NEW k \in Nat \ {0}, NEW onResp, NEW n, NEW u, NEW v,
         ~Rewrites(list[k], onResp, n), RulesLeave(list, k - 1, onResp, n, u, v)
  PROVE  RulesLeave(list, k, onResp, n, u, v)
<1>1. \A i : i \in 1 .. k <=> (i = k \/ i \in 1 .. k - 1)
  OBVIOUS
<1>2. CASE v = u /\ \A i \in 1 .. k - 1 : ~Rewrites(list[i], onResp, n)
  BY <1>1, <1>2 DEF RulesLeave
<1>3. CASE \E i \in 1 .. k - 1, j \in Nat :
             /\ LastOp(list[i], j, onResp, n)
             /\ \A l \in 1 .. k - 1 : Rewrites(list[l], onResp, n) => l <= i
             /\ v = Outcome(list[i].headers[j])
  <2>1. PICK i \in 1 .. k - 1, j \in Nat :
             /\ LastOp(list[i], j, onResp, n)
             /\ \A l \in 1 .. k - 1 : Rewrites(list[l], onResp, n) => l <= i
             /\ v = Outcome(list[i].headers[j])
    BY <1>3
  <2>2. i \in 1 .. k /\ \A l \in 1 .. k : Rewrites(list[l], onResp, n) => l <= i
    BY <1>1, <2>1
  <2> QED BY <2>1, <2>2 DEF RulesLeave
<1> QED BY <1>2, <1>3 DEF RulesLeave

(* The outer loop leaves what the last rewriting rule asks for.             *)
LEMMA RulesInOrder ==
  ASSUME NEW h, NEW list, Len(list) \in Nat, NEW onResp,
         \A i \in 1 .. Len(list) : Len(list[i].headers) \in Nat
  PROVE  LET after == ApplyHeaderRewrites(h, list, onResp)
         IN /\ DOMAIN after = DOMAIN h
            /\ \A n \in DOMAIN h : RulesLeave(list, Len(list), onResp, n, h[n], after[n])
<1> DEFINE f == CHOOSE g : RulesLoop(h, list, onResp, Len(list), g)
           Good(k) == /\ DOMAIN f[k] = DOMAIN h
                      /\ \A n \in DOMAIN h : RulesLeave(list, k, onResp, n, h[n], f[k][n])
           Bad == {k \in 0 .. Len(list) : ~Good(k)}
<1>1. ApplyHeaderRewrites(h, list, onResp) = f[Len(list)]
  BY Zenon DEF ApplyHeaderRewrites, RulesLoop, RulesTurn
<1>2. RulesLoop(h, list, onResp, Len(list), f)
  BY RulesLoopRuns
<1> HIDE DEF f
<1>3. \A k \in 0 .. Len(list) : f[k] = RulesTurn(h, list, onResp, f, k)
  BY <1>2 DEF RulesLoop
<1>4. Good(0)
  BY <1>3 DEF RulesTurn, RulesLeave
<1>5. ASSUME NEW k \in 1 .. Len(list), Good(k - 1)
      PROVE  Good(k)
  <2>1. CASE list[k].action # "rewrite-header"
    <3>1. f[k] = f[k - 1]
      BY <1>3, <2>1 DEF RulesTurn
    <3>2. ASSUME NEW n \in DOMAIN h PROVE RulesLeave(list, k, onResp, n, h[n], f[k][n])
      <4>1. ~Rewrites(list[k], onResp, n)
        BY <2>1 DEF Rewrites, LastOp
      <4>2. RulesLeave(list, k - 1, onResp, n, h[n], f[k][n])
        BY <1>5, <3>1
      <4> QED BY <4>1, <4>2, RuleSkipped
    <3> QED BY <1>5, <3>1, <3>2
  <2>2. CASE list[k].action = "rewrite-header"
    <3>1. f[k] = ApplyOps(f[k - 1], list[k].headers, onResp)
      BY <1>3, <2>2 DEF RulesTurn
    <3>2. /\ DOMAIN f[k] = DOMAIN h
          /\ \A n \in DOMAIN h :
               OpsLeave(list[k].headers, Len(list[k].headers), onResp, n, f[k - 1][n], f[k][n])
      BY <1>5, <3>1, OpsInOrder
    <3>3. ASSUME NEW n \in DOMAIN h PROVE RulesLeave(list, k, onResp, n, h[n], f[k][n])
      <4>1. \/ f[k][n] = f[k - 1][n] /\ ~Rewrites(list[k], onResp, n)
            \/ \E j \in Nat : LastOp(list[k], j, onResp, n) /\ f[k][n] = Outcome(list[k].headers[j])
        <5>1. PICK r, u, v : r = list[k] /\ u = f[k - 1][n] /\ v = f[k][n]
          OBVIOUS
        <5>2. OpsLeave(r.headers, Len(r.headers), onResp, n, u, v)
          BY <1>5, <3>2, <5>1
        <5>3. r.action = "rewrite-header"
          BY <2>2, <5>1
        <5>4. \/ v = u /\ ~Rewrites(r, onResp, n)
              \/ \E j \in Nat : LastOp(r, j, onResp, n) /\ v = Outcome(r.headers[j])
          BY <5>2, <5>3, LastOpExists
        <5> QED BY <5>1, <5>4
      <4>2. CASE f[k][n] = f[k - 1][n] /\ ~Rewrites(list[k], onResp, n)
        <5>1. RulesLeave(list, k - 1, onResp, n, h[n], f[k][n])
          BY <1>5, <4>2
        <5> QED BY <4>2, <5>1, RuleSkipped
      <4>3. CASE \E j \in Nat : LastOp(list[k], j, onResp, n) /\ f[k][n] = Outcome(list[k].headers[j])
        <5>1. k \in 1 .. k /\ \A l \in 1 .. k : l <= k
          OBVIOUS
        <5> QED BY <4>3, <5>1 DEF RulesLeave
      <4> QED BY <4>1, <4>2, <4>3
    <3> QED BY <3>2, <3>3
  <2> QED BY <2>1, <2>2
<1> HIDE DEF Good
<1>6. Bad = {}
  <2> SUFFICES ASSUME Bad # {} PROVE FALSE
    OBVIOUS
  <2>1. Bad \in SUBSET Nat
    OBVIOUS
  <2>2. PICK k \in Bad : \A j \in Bad : k <= j
    <3> HIDE DEF Bad
    <3> QED BY <2>1, LeastNumber
  <2>3. k \in 1 .. Len(list) /\ k - 1 \in 0 .. Len(list) /\ k - 1 \notin Bad
    BY <1>4, <2>2
  <2> QED BY <1>5, <2>2, <2>3
<1>7. Good(Len(list))
  BY <1>6
<1> QED BY <1>1, <1>7 DEF Good

(* The places Match counts: one for every matching rule, in their order.    *)
LEMMA PlacesInOrder ==
  ASSUME NEW n \in Nat, NEW M \in SUBSET (1 .. n)
  PROVE  LET place(i) == Cardinality({j \in M : j <= i})
         IN /\ Cardinality(M) \in Nat
            /\ \A i \in M : place(i) \in 1 .. Cardinality(M)
            /\ \A i, j \in M : i < j => place(i) < place(j)
            /\ \A p \in 1 .. Cardinality(M) : \E i \in M : place(i) = p
<1> DEFINE UpTo(i) == {j \in M : j <= i}
           f == [i \in M |-> Cardinality(UpTo(i))]
<1>1. IsFiniteSet(M) /\ Cardinality(M) \in Nat
  <2>1. IsFiniteSet(1 .. n)
    BY FS_Interval
  <2> QED BY <2>1, FS_Subset, FS_CardinalityType
<1>2. \A i \in M : /\ UpTo(i) \in SUBSET M
                   /\ i \in UpTo(i)
                   /\ IsFiniteSet(UpTo(i))
                   /\ Cardinality(UpTo(i)) \in 1 .. Cardinality(M)
  <2>1. \A i \in M : UpTo(i) \in SUBSET M /\ i \in UpTo(i)
    OBVIOUS
  <2> HIDE DEF UpTo
  <2> QED BY <1>1, <2>1, FS_Subset, FS_CardinalityType, FS_EmptySet
<1>3. ASSUME NEW i \in M, NEW j \in M, i < j
      PROVE  Cardinality(UpTo(i)) < Cardinality(UpTo(j))
  <2>1. UpTo(i) \in SUBSET UpTo(j) /\ j \notin UpTo(i)
    <3>1. M \subseteq Int
      OBVIOUS
    <3>2. (\A k \in M : k <= i => k <= j) /\ ~(j <= i)
      BY <1>3, <3>1
    <3> QED BY <3>2
  <2>2. UpTo(i) # UpTo(j)
    BY <1>2, <2>1
  <2> HIDE DEF UpTo
  <2>3. Cardinality(UpTo(i)) <= Cardinality(UpTo(j)) /\ Cardinality(UpTo(i)) # Cardinality(UpTo(j))
    BY <1>2, <2>1, <2>2, FS_Subset
  <2> QED BY <1>2, <2>3
<1> HIDE DEF UpTo
<1>4. f \in Injection(M, 1 .. Cardinality(M))
  <2>1. f \in [M -> 1 .. Cardinality(M)]
    BY <1>2
  <2>2. \A i, j \in M : i # j => i < j \/ j < i
    OBVIOUS
  <2>3. \A i \in M : Cardinality(UpTo(i)) \in Int
    BY <1>1, <1>2
  <2>4. \A i, j \in M : f[i] = f[j] => i = j
    BY <1>3, <2>2, <2>3
  <2> QED BY <2>1, <2>4 DEF Injection, IsInjective
<1>5. IsFiniteSet(1 .. Cardinality(M)) /\ Cardinality(1 .. Cardinality(M)) = Cardinality(M)
  BY <1>1, FS_Interval
<1>6. f \in Surjection(M, 1 .. Cardinality(M))
  BY <1>4, <1>5, FS_Injection
<1>7. \A p \in 1 .. Cardinality(M) : \E i \in M : Cardinality(UpTo(i)) = p
  BY <1>6 DEF Surjection
<1> QED BY <1>1, <1>2, <1>3, <1>7 DEF UpTo

Hits(list, req) == {i \in DOMAIN list : Matches(list[i], req)}

(* s holds the matching rules and only those, in the order of the list.     *)
Selects(s, list, req) ==
  /\ Len(s) \in Nat
  /\ \E at \in [1 .. Len(s) -> Hits(list, req)] :
       /\ \A p \in 1 .. Len(s) : s[p] = list[at[p]]
       /\ \A p, q \in 1 .. Len(s) : p <= q => at[p] <= at[q]
       /\ \A i \in Hits(list, req) : \E p \in 1 .. Len(s) : at[p] = i

LEMMA MatchInOrder ==
  ASSUME NEW list, Len(list) \in Nat, DOMAIN list = 1 .. Len(list), NEW req
  PROVE  Selects(Match(list, req), list, req)
<1> DEFINE hits == Hits(list, req)
           place(i) == Cardinality({j \in hits : j <= i})
           m == Cardinality(hits)
           at == [p \in 1 .. m |-> CHOOSE i \in hits : place(i) = p]
           s == Match(list, req)
<1>1. hits \in SUBSET (1 .. Len(list)) /\ hits \in SUBSET Nat
  BY DEF Hits
<1>2. /\ m \in Nat
      /\ \A i \in hits : place(i) \in 1 .. m
      /\ \A i, j \in hits : i < j => place(i) < place(j)
      /\ \A p \in 1 .. m : \E i \in hits : place(i) = p
  <2> HIDE DEF hits
  <2> QED BY <1>1, PlacesInOrder
<1>3. s = [p \in 1 .. m |-> list[CHOOSE i \in hits : place(i) = p]]
  BY DEF Match, Hits
<1> HIDE DEF hits, place, s
<1>4. \A p \in 1 .. m : at[p] \in hits /\ place(at[p]) = p
  BY <1>2
<1>5. \A p \in 1 .. m : s[p] = list[at[p]]
  BY <1>3
<1>6. Len(s) = m /\ at \in [1 .. m -> hits]
  <2>1. Len(s) = m
    BY <1>2, <1>3
  <2> QED BY <1>4, <2>1
<1>9. \A p \in 1 .. m : at[p] \in Nat
  <2> HIDE DEF at
  <2> QED BY <1>1, <1>4
<1> HIDE DEF at, m
<1>7. ASSUME NEW p \in 1 .. m, NEW q \in 1 .. m, p <= q
      PROVE  at[p] <= at[q]
  <2> SUFFICES ASSUME at[q] < at[p] PROVE FALSE
    BY <1>9
  <2>1. place(at[q]) < place(at[p])
    BY <1>2, <1>4
  <2> QED BY <1>2, <1>4, <1>7, <2>1
<1>8. ASSUME NEW i \in hits
      PROVE  \E p \in 1 .. m : at[p] = i
  <2>1. place(i) \in 1 .. m /\ place(at[place(i)]) = place(i) /\ at[place(i)] \in hits
    BY <1>2, <1>4
  <2>2. ~(i < at[place(i)]) /\ ~(at[place(i)] < i)
    BY <1>2, <2>1
  <2>3. at[place(i)] = i
    <3>1. i \in Nat /\ at[place(i)] \in Nat
      BY <1>1, <1>9, <2>1
    <3> QED BY <2>2, <3>1
  <2> QED BY <2>1, <2>3
<1> QED BY <1>2, <1>5, <1>6, <1>7, <1>8 DEF hits, s, Selects

(* A rule file is a list of rules with lists of operations.                 *)
LEMMA ListsAreLists ==
  ASSUME NEW list \in RuleLists
  PROVE  /\ Len(list) \in Nat /\ DOMAIN list = 1 .. Len(list)
         /\ \A i \in DOMAIN list : /\ Len(list[i].headers) \in Nat
                                  /\ DOMAIN list[i].headers = 1 .. Len(list[i].headers)
<1>1. ASSUME NEW t, NEW S, t \in Seq(S)
      PROVE  Len(t) \in Nat /\ DOMAIN t = 1 .. Len(t)
  BY <1>1
<1> QED BY <1>1, DataAssumption

LEMMA RewritesKeepTheNames ==
  ASSUME NEW list \in RuleLists, NEW req, NEW h, NEW onResp
  PROVE  DOMAIN ApplyHeaderRewrites(h, Match(list, req), onResp) = DOMAIN h
<1>1. PICK s : s = Match(list, req)
  OBVIOUS
<1>2. Selects(s, list, req)
  BY <1>1, ListsAreLists, MatchInOrder
<1>3. \A p \in 1 .. Len(s) : Len(s[p].headers) \in Nat
  BY <1>2, ListsAreLists DEF Selects, Hits
<1> QED BY <1>1, <1>2, <1>3, RulesInOrder DEF Selects

(* What the loops make of the matching rules is what LastOpWins says.       *)
LEMMA LastRewriteDecides ==
  ASSUME rules \in RuleLists, NEW req, NEW h, NEW onResp, NEW n \in DOMAIN h
  PROVE  ApplyHeaderRewrites(h, Match(rules, req), onResp)[n] = LastOpWins(req, h, onResp, n)
<1> DEFINE hits == Hits(rules, req)
           s == Match(rules, req)
           v == ApplyHeaderRewrites(h, s, onResp)[n]
           ops == {p \in UNION {{i} \X DOMAIN rules[i].headers : i \in DOMAIN rules} :
                     /\ Matches(rules[p[1]], req)
                     /\ rules[p[1]].action = "rewrite-header"
                     /\ rules[p[1]].headers[p[2]].onResp = onResp
                     /\ rules[p[1]].headers[p[2]].name = n}
           IsLast(p) == \A q \in ops : q[1] < p[1] \/ (q[1] = p[1] /\ q[2] <= p[2])
           last == CHOOSE p \in ops : IsLast(p)
           op == rules[last[1]].headers[last[2]]
<1>1. LastOpWins(req, h, onResp, n) = IF ops = {} THEN h[n] ELSE Outcome(op)
  BY DEF LastOpWins, Outcome
<1>2. /\ Len(rules) \in Nat /\ DOMAIN rules = 1 .. Len(rules)
      /\ \A i \in DOMAIN rules : /\ Len(rules[i].headers) \in Nat
                                 /\ DOMAIN rules[i].headers = 1 .. Len(rules[i].headers)
  BY ListsAreLists
<1>3. PICK at \in [1 .. Len(s) -> hits] :
        /\ \A p \in 1 .. Len(s) : s[p] = rules[at[p]]
        /\ \A p, q \in 1 .. Len(s) : p <= q => at[p] <= at[q]
        /\ \A i \in hits : \E p \in 1 .. Len(s) : at[p] = i
  BY <1>2, MatchInOrder DEF Selects
<1>4. Len(s) \in Nat
  BY <1>2, MatchInOrder DEF Selects
<1>5. \A i \in hits : i \in DOMAIN rules /\ i \in Nat
  BY <1>2 DEF Hits
<1>6. \A i, j : <<i, j>> \in ops <=>
        /\ i \in hits /\ rules[i].action = "rewrite-header"
        /\ j \in 1 .. Len(rules[i].headers) /\ Names(rules[i].headers[j], onResp, n)
  BY <1>2 DEF Names, Hits
<1>7. \A p \in ops : p = <<p[1], p[2]>> /\ p[1] \in Nat /\ p[2] \in Nat
  BY <1>2
<1>8. RulesLeave(s, Len(s), onResp, n, h[n], v)
  <2>1. \A p \in 1 .. Len(s) : Len(s[p].headers) \in Nat
    BY <1>2, <1>3, <1>5
  <2> HIDE DEF s
  <2> QED BY <1>4, <2>1, RulesInOrder
<1> HIDE DEF hits, s, v, ops
<1>9. CASE v = h[n] /\ \A p \in 1 .. Len(s) : ~Rewrites(s[p], onResp, n)
  <2>1. SUFFICES ASSUME NEW q \in ops PROVE FALSE
    BY <1>1, <1>9 DEF v, s
  <2> DEFINE r == rules[q[1]]
  <2>2. /\ q[1] \in hits /\ r.action = "rewrite-header"
        /\ q[2] \in 1 .. Len(r.headers) /\ Names(r.headers[q[2]], onResp, n)
    BY <1>6, <1>7
  <2>3. PICK p \in 1 .. Len(s) : at[p] = q[1]
    BY <1>3, <2>2
  <2>4. Rewrites(r, onResp, n)
    BY <1>2, <1>5, <2>2, NamedIsRewritten
  <2>5. s[p] = r
    BY <1>3, <2>3
  <2> QED BY <1>9, <2>3, <2>4, <2>5
<1>10. CASE \E p \in 1 .. Len(s), j \in Nat :
              /\ LastOp(s[p], j, onResp, n)
              /\ \A l \in 1 .. Len(s) : Rewrites(s[l], onResp, n) => l <= p
              /\ v = Outcome(s[p].headers[j])
  <2>1. PICK p \in 1 .. Len(s), j \in Nat :
              /\ LastOp(s[p], j, onResp, n)
              /\ \A l \in 1 .. Len(s) : Rewrites(s[l], onResp, n) => l <= p
              /\ v = Outcome(s[p].headers[j])
    BY <1>10
  <2>2. PICK i \in hits : i = at[p] /\ s[p] = rules[i]
    BY <1>3
  <2>3. <<i, j>> \in ops /\ i \in Nat /\ j \in Nat
    BY <1>2, <1>5, <1>6, <2>1, <2>2 DEF LastOp
  <2>4. ASSUME NEW q \in ops
        PROVE  q[1] < i \/ (q[1] = i /\ q[2] <= j)
    <3> DEFINE r == rules[q[1]]
    <3>1. /\ q[1] \in hits /\ r.action = "rewrite-header" /\ q[1] \in Nat
          /\ q[2] \in 1 .. Len(r.headers) /\ Names(r.headers[q[2]], onResp, n)
      BY <1>6, <1>7
    <3>2. PICK l \in 1 .. Len(s) : at[l] = q[1]
      BY <1>3, <3>1
    <3>3. Rewrites(r, onResp, n)
      BY <1>2, <1>5, <3>1, NamedIsRewritten
    <3>4. s[l] = r
      BY <1>3, <3>2
    <3>5. l <= p
      BY <2>1, <3>2, <3>3, <3>4
    <3>6. q[1] <= i
      BY <1>3, <2>2, <3>2, <3>5
    <3>7. q[1] = i => q[2] <= j
      BY <2>1, <2>2, <3>1 DEF LastOp
    <3> QED BY <2>3, <3>1, <3>6, <3>7
  <2>5. IsLast(<<i, j>>)
    BY <2>4
  <2>6. last \in ops /\ IsLast(last)
    BY <2>3, <2>5
  <2> HIDE DEF last
  <2>7. last[1] \in Nat /\ last[2] \in Nat
    BY <1>7, <2>6
  <2>8. /\ last[1] < i \/ (last[1] = i /\ last[2] <= j)
        /\ i < last[1] \/ (i = last[1] /\ j <= last[2])
    BY <2>3, <2>4, <2>6
  <2>9. last[1] = i /\ last[2] = j
    BY <2>3, <2>7, <2>8
  <2>10. LastOpWins(req, h, onResp, n) = Outcome(rules[i].headers[j])
    BY <1>1, <2>3, <2>9
  <2> QED BY <2>1, <2>2, <2>10 DEF v, s
<1> QED BY <1>8, <1>9, <1>10 DEF RulesLeave

(* A response as the transport returned it.                                 *)
IsResponse(rs) ==
  /\ rs.sent \in 0 .. MaxBody
  /\ DOMAIN rs.headers = HeaderNames
  /\ rs.headers[ContentLength] \in {Absent, Itoa[rs.sent]}

LEMMA FiveNames ==
  /\ {Location, ContentLength, TransferEncoding, ContentType, NoSniff} \subseteq HeaderNames
  /\ Location # ContentLength /\ Location # TransferEncoding /\ Location # ContentType
  /\ Location # NoSniff /\ ContentLength # TransferEncoding /\ ContentType # ContentLength
  /\ ContentType # TransferEncoding /\ NoSniff # ContentLength /\ NoSniff # TransferEncoding
<1> DEFINE names == <<Location, ContentLength, TransferEncoding, ContentType, NoSniff>>
<1>1. /\ \A i \in 1 .. 5 : names[i] \in HeaderNames
      /\ \A i, j \in 1 .. 5 : names[i] = names[j] => i = j
  BY NamesAssumption
<1>2. /\ names[1] = Location /\ names[2] = ContentLength /\ names[3] = TransferEncoding
      /\ names[4] = ContentType /\ names[5] = NoSniff
  OBVIOUS
<1> HIDE DEF names
<1> QED BY <1>1, <1>2

(* Where the rewritten headers are kept until they are received.            *)
Rewritten(g) ==
  /\ origin[g] # <<>> => exchange[g].reqHeaders = OutHeaders(g)
  /\ pc[g] = "receiving" => IsResponse(resp[g])
  /\ (pc[g] \in Answering /\ exchange[g].status = StatusOK) =>
       /\ IsResponse(resp[g])
       /\ exchange[g].respHeaders = ApplyHeaderRewrites(resp[g].headers, Matched(g), TRUE)

RewriteInv == TypeInv /\ \A g \in Reqs : Rewritten(g)

LEMMA EarlyStepsKeepRewritten ==
  ASSUME RewriteInv, NEW g \in Reqs, Begin(g) \/ ReadBody(g) \/ Block(g) \/ Redirect(g)
  PROVE  Rewritten(g)'
<1>1. /\ pc[g] \in Early
      /\ \E p \in {"reading", "deciding", "refusing"} : pc' = [pc EXCEPT ![g] = p]
      /\ origin' = origin
  BY DEF Begin, ReadBody, Block, Redirect, Goto, Early
<1>2. DataInv
  BY DEF RewriteInv, TypeInv
<1>3. origin'[g] = <<>> /\ pc'[g] \in {"reading", "deciding", "refusing"}
  BY <1>1, <1>2, DataOf DEF Progress
<1> QED BY <1>3 DEF Rewritten, Answering

LEMMA RelayKeepsRewritten ==
  ASSUME RewriteInv, NEW g \in Reqs, Send(g) \/ DialFails(g)
  PROVE  Rewritten(g)'
<1>1. /\ pc' = [pc EXCEPT ![g] = "waiting"] \/ pc' = [pc EXCEPT ![g] = "failed"]
      /\ exchange' = [exchange EXCEPT ![g].reqHeaders = OutHeaders(g)]
      /\ UNCHANGED <<rules, call>>
  BY DEF Send, DialFails, StartRelay, Goto, context
<1>2. DataInv
  BY DEF RewriteInv, TypeInv
<1>3. exchange'[g].reqHeaders = OutHeaders(g)
  <2>1. exchange'[g] = [exchange[g] EXCEPT !.reqHeaders = OutHeaders(g)]
    BY <1>1, <1>2, DataOf
  <2> QED BY <1>2, <2>1, DataOf, ExchangeUpdates, ExchangeFields
<1>4. OutHeaders(g)' = OutHeaders(g)
  BY <1>1 DEF OutHeaders, Matched
<1>5. pc'[g] \in {"waiting", "failed"}
  BY <1>1, <1>2, DataOf
<1> QED BY <1>3, <1>4, <1>5 DEF Rewritten, Answering

LEMMA OriginKeepsRewritten ==
  ASSUME RewriteInv, NEW g \in Reqs, OriginSteps(g)
  PROVE  Rewritten(g)'
<1>1. UNCHANGED <<rules, call, origin>>
  BY DEF OriginSteps, OriginEnds, OriginAnswers, RoundTripFails, RespondWhole,
         RespondCut, Respond, context
<1>2. OutHeaders(g)' = OutHeaders(g) /\ Matched(g)' = Matched(g)
  BY <1>1 DEF OutHeaders, Matched
<1>3. DataInv /\ Rewritten(g)
  BY DEF RewriteInv, TypeInv
<1>4. CASE OriginAnswers(g)
  <2>1. PICK h \in OriginHeaders, n \in 0 .. MaxBody, declared \in BOOLEAN :
          resp' = [resp EXCEPT ![g] =
                     [sent |-> n, headers |-> IF declared THEN [h EXCEPT ![ContentLength] = Itoa[n]]
                                              ELSE h]]
    BY <1>4 DEF OriginAnswers
  <2>2. exchange' = exchange /\ pc' = [pc EXCEPT ![g] = "receiving"]
    BY <1>4 DEF OriginAnswers, Goto
  <2>3. IsResponse(resp'[g]) /\ pc'[g] = "receiving"
    <3>1. /\ resp'[g].sent = n
          /\ resp'[g].headers = IF declared THEN [h EXCEPT ![ContentLength] = Itoa[n]] ELSE h
          /\ pc'[g] = "receiving"
      BY <1>3, <2>1, <2>2, DataOf
    <3>2. DOMAIN h = HeaderNames /\ h[ContentLength] = Absent
      BY DataAssumption
    <3>3. ContentLength \in HeaderNames
      BY FiveNames
    <3> QED BY <3>1, <3>2, <3>3 DEF IsResponse
  <2> QED BY <1>1, <1>2, <1>3, <2>2, <2>3 DEF Rewritten, Answering
<1>5. CASE RoundTripFails(g)
  <2>1. exchange' = exchange /\ pc' = [pc EXCEPT ![g] = "failed"]
    BY <1>5 DEF RoundTripFails, Goto
  <2>2. pc'[g] = "failed"
    BY <1>3, <2>1, DataOf
  <2> QED BY <1>1, <1>2, <1>3, <2>1, <2>2 DEF Rewritten, Answering
<1>6. CASE RespondWhole(g) \/ RespondCut(g)
  <2> DEFINE h == ApplyHeaderRewrites(resp[g].headers, Matched(g), TRUE)
             x == exchange[g]
  <2>1. PICK n : Respond(g, n)
    BY <1>6 DEF RespondWhole, RespondCut
  <2>2. /\ pc[g] = "receiving" /\ resp' = resp
        /\ exchange' = [exchange EXCEPT ![g].status = StatusOK,
                                        ![g].respHeaders = h,
                                        ![g].respBody = Clamp(n)]
    BY <2>1 DEF Respond, Goto
  <2>3. pc'[g] = "reporting"
    BY <1>3, <2>1, DataOf DEF Respond, Goto
  <2> HIDE DEF h
  <2>4. exchange'[g] = [x EXCEPT !.status = StatusOK, !.respHeaders = h, !.respBody = Clamp(n)]
    BY <1>3, <2>2, DataOf
  <2>5. exchange'[g] = Exch(StatusOK, x.err, x.reqHeaders, x.reqBody, h, Clamp(n))
    <3>1. \A s, b : [x EXCEPT !.status = s, !.respHeaders = h, !.respBody = b] =
                      Exch(s, x.err, x.reqHeaders, x.reqBody, h, b)
      BY <1>3, DataOf, ExchangeAnswered
    <3> QED BY <2>4, <3>1
  <2>6. exchange'[g].reqHeaders = x.reqHeaders /\ exchange'[g].respHeaders = h
    BY <2>5, ExchangeFields
  <2>7. IsResponse(resp[g])
    BY <1>3, <2>2 DEF Rewritten
  <2>8. ApplyHeaderRewrites(resp[g].headers, Matched(g), TRUE)' = h
    BY <1>2, <2>2 DEF h
  <2> QED BY <1>1, <1>2, <1>3, <2>2, <2>3, <2>6, <2>7, <2>8 DEF Rewritten
<1> QED BY <1>4, <1>5, <1>6 DEF OriginSteps, OriginEnds

LEMMA ReportsKeepRewritten ==
  ASSUME RewriteInv, NEW g \in Reqs, Report(g) \/ ReportError(g)
  PROVE  Rewritten(g)'
<1>1. UNCHANGED <<rules, call, origin, resp>>
  BY DEF Report, ReportError, context
<1>2. OutHeaders(g)' = OutHeaders(g) /\ Matched(g)' = Matched(g)
  BY <1>1 DEF OutHeaders, Matched
<1>3. DataInv /\ Rewritten(g)
  BY DEF RewriteInv, TypeInv
<1>4. CASE Report(g)
  <2>1. /\ exchange' = exchange /\ pc[g] = "reporting"
        /\ pc' = [pc EXCEPT ![g] = "returning"]
    BY <1>4 DEF Report, Goto
  <2>2. pc'[g] = "returning"
    BY <1>3, <2>1, DataOf
  <2> QED BY <1>1, <1>2, <1>3, <2>1, <2>2 DEF Rewritten, Answering
<1>5. CASE ReportError(g)
  <2>1. /\ exchange' = [exchange EXCEPT ![g].err = TRUE]
        /\ pc' = [pc EXCEPT ![g] = "refusing"]
    BY <1>5 DEF ReportError, Goto
  <2>2. pc'[g] = "refusing" /\ exchange'[g] = [exchange[g] EXCEPT !.err = TRUE]
    BY <1>3, <2>1, DataOf
  <2>3. exchange'[g].reqHeaders = exchange[g].reqHeaders
    BY <1>3, <2>2, DataOf, ExchangeUpdates, ExchangeFields
  <2> QED BY <1>1, <1>2, <1>3, <2>2, <2>3 DEF Rewritten, Answering
<1> QED BY <1>4, <1>5

LEMMA AnswersKeepRewritten ==
  ASSUME RewriteInv, NEW g \in Reqs,
         Refuse(g) \/ SendEarly(g) \/ Return(g) \/ ClientGoes(g) \/ Cancel(g)
  PROVE  Rewritten(g)'
<1>1. UNCHANGED <<rules, call, origin, resp, exchange>>
  BY DEF Refuse, SendEarly, Return, ClientGoes, Cancel, context
<1>2. OutHeaders(g)' = OutHeaders(g) /\ Matched(g)' = Matched(g)
  BY <1>1 DEF OutHeaders, Matched
<1>3. DataInv /\ Rewritten(g)
  BY DEF RewriteInv, TypeInv
<1>4. CASE Refuse(g)
  <2>1. pc[g] = "refusing" /\ pc' = [pc EXCEPT ![g] = "returning"]
    BY <1>4 DEF Refuse, Goto
  <2>2. pc'[g] = "returning" /\ Refused(exchange[g])
    BY <1>3, <2>1, DataOf DEF Data, Answered
  <2>3. exchange[g].status # StatusOK
    BY <2>2 DEF Refused, StatusOK, StatusForbidden, StatusFound
  <2> QED BY <1>1, <1>2, <1>3, <2>2, <2>3 DEF Rewritten
<1>5. CASE ~Refuse(g)
  <2>1. \/ pc' = pc
        \/ pc[g] = "returning" /\ pc' = [pc EXCEPT ![g] = "done"]
    BY <1>5 DEF SendEarly, Return, ClientGoes, Cancel, Goto
  <2>2. pc'[g] = pc[g] \/ (pc[g] = "returning" /\ pc'[g] = "done")
    BY <1>3, <2>1, DataOf
  <2> QED BY <1>1, <1>2, <1>3, <2>2 DEF Rewritten, Answering
<1> QED BY <1>4, <1>5

LEMMA RewriteInvIsInductive ==
  /\ Init => RewriteInv
  /\ RewriteInv /\ [Next]_vars => RewriteInv'
<1>1. Init => RewriteInv
  BY TypeInvIsInductive DEF Init, RewriteInv, Rewritten, Answering
<1>2. ASSUME RewriteInv, UNCHANGED vars
      PROVE  RewriteInv'
  <2>1. TypeInv'
    BY <1>2, TypeInvIsInductive DEF RewriteInv
  <2> QED BY <1>2, <2>1 DEF RewriteInv, Rewritten, OutHeaders, Matched, vars
<1>3. ASSUME RewriteInv, NEW g \in Reqs, Step(g)
      PROVE  RewriteInv'
  <2>1. TypeInv'
    BY <1>3, TypeInvIsInductive DEF RewriteInv, Next
  <2>2. Rewritten(g)'
    BY <1>3, EarlyStepsKeepRewritten, RelayKeepsRewritten, OriginKeepsRewritten,
       ReportsKeepRewritten, AnswersKeepRewritten DEF Step, Own
  <2>3. ASSUME NEW h \in Reqs \ {g}
        PROVE  Rewritten(h)'
    <3>1. /\ pc'[h] = pc[h] /\ call'[h] = call[h] /\ origin'[h] = origin[h]
          /\ exchange'[h] = exchange[h] /\ resp'[h] = resp[h]
      <4>1. DataAlone(g)
        BY <1>3, StepsLeaveOthersData DEF RewriteInv, TypeInv
      <4> QED BY <4>1 DEF DataAlone, Alone
    <3>2. rules' = rules
      BY <1>3 DEF Step, Own, OriginSteps, OriginEnds, Begin, ReadBody, Block, Redirect,
             Send, DialFails, StartRelay, Report, ReportError, Refuse, Return,
             OriginAnswers, RoundTripFails, RespondWhole, RespondCut, Respond,
             SendEarly, ClientGoes, Cancel, context
    <3>3. Rewritten(h)
      BY <1>3 DEF RewriteInv
    <3> QED BY <3>1, <3>2, <3>3 DEF Rewritten, OutHeaders, Matched
  <2> QED BY <2>1, <2>2, <2>3 DEF RewriteInv
<1> QED BY <1>1, <1>2, <1>3 DEF Next

(* flush changes the framing and nothing else.                              *)
LEMMA FlushFrames ==
  ASSUME NEW w, DOMAIN w.headers = HeaderNames
  PROVE  LET c == Flushed(w) IN
         /\ c.size = w.size
         /\ c.headers[ContentLength] = Itoa[c.size]
         /\ c.headers[TransferEncoding] = Absent
         /\ \A n \in HeaderNames \ Framing : c.headers[n] = w.headers[n]
BY FiveNames DEF Flushed, Framing

(* net/http's server finds out a type besides, and passes a body on whole   *)
(* unless a smaller length is declared for it.                              *)
LEMMA ServerFrames ==
  ASSUME NEW w, DOMAIN w.headers = HeaderNames, w.size \in Nat, NEW early \in BOOLEAN
  PROVE  LET c == Served(w, early) IN
         /\ \A n \in HeaderNames \ Framing :
              \/ c.headers[n] = w.headers[n]
              \/ n = ContentType /\ w.headers[n] = Absent
         /\ \A m \in 0 .. MaxBody :
              w.headers[ContentLength] \in {Absent, Itoa[m]} /\ w.size <= m => c.size = w.size
         /\ w.headers[ContentLength] = Absent => c.size = w.size
<1> DEFINE lengths == {n \in DOMAIN Itoa : Itoa[n] = w.headers[ContentLength]}
           size == IF \E n \in lengths : w.size > n THEN 0 ELSE w.size
           chunked == w.headers[TransferEncoding] # Absent \/ (early /\ lengths = {})
           framed == [w.headers EXCEPT
                        ![TransferEncoding] = IF chunked THEN Generated ELSE Absent,
                        ![ContentLength] = IF chunked THEN Absent
                                           ELSE IF lengths = {} THEN Itoa[size] ELSE @]
           typed == [framed EXCEPT ![ContentType] = Generated]
           c == Served(w, early)
<1>1. /\ c.size = size
      /\ \/ c.headers = framed
         \/ c.headers = typed /\ w.headers[ContentType] = Absent
  BY DEF Served
<1>2. \A n \in HeaderNames \ Framing : framed[n] = w.headers[n]
  BY DEF Framing
<1>3. \A n \in HeaderNames \ Framing : n # ContentType => typed[n] = framed[n]
  OBVIOUS
<1>4. ASSUME w.headers[ContentLength] = Absent PROVE size = w.size
  BY <1>4, LengthAssumption
<1>5. ASSUME NEW m \in 0 .. MaxBody, w.headers[ContentLength] = Itoa[m], w.size <= m
      PROVE  size = w.size
  <2>1. m \in DOMAIN Itoa
    BY LengthAssumption, CapAssumption
  <2>2. \A n \in lengths : n = m
    BY <1>5, <2>1, LengthAssumption
  <2>3. \A n \in lengths : ~(w.size > n)
    BY <1>5, <2>2
  <2> QED BY <2>3
<1> HIDE DEF size, framed, typed, c
<1>6. \A n \in HeaderNames \ Framing :
        c.headers[n] = w.headers[n] \/ (n = ContentType /\ w.headers[n] = Absent)
  BY <1>1, <1>2, <1>3
<1> QED BY <1>1, <1>4, <1>5, <1>6 DEF c

(* What the helpers write has no length of its own.                         *)
LEMMA HelpersWrite ==
  /\ \A status : LET w == HttpError(status) IN
       /\ DOMAIN w.headers = HeaderNames /\ w.headers[Location] = Absent
       /\ w.headers[ContentLength] = Absent /\ w.size = RefusalText + 1
  /\ \A request, target : LET w == HttpRedirect(request, target) IN
       /\ DOMAIN w.headers = HeaderNames /\ w.size \in Nat
       /\ w.headers[Location] = Resolve[<<target, request.url>>]
  BY FiveNames DEF HttpError, HttpRedirect, Answer, NoHeaders

(* No way out of the handler changes where a response leads.                *)
LEMMA LocationIsSent ==
  ASSUME NEW w, DOMAIN w.headers = HeaderNames, w.size \in Nat, NEW via, NEW c \in Sendable(via, w)
  PROVE  c.headers[Location] = w.headers[Location]
<1>1. Location \in HeaderNames \ Framing /\ Location # ContentType
  BY FiveNames DEF Framing
<1>2. CASE via = "mitm"
  <2>1. c = Flushed(w)
    BY <1>2 DEF Sendable
  <2> QED BY <1>1, <2>1, FlushFrames
<1>3. CASE via # "mitm"
  <2>1. PICK early \in BOOLEAN : c = Served(w, early)
    BY <1>3 DEF Sendable
  <2> QED BY <1>1, <2>1, ServerFrames
<1> QED BY <1>2, <1>3

(* A relayed response as the handler gives it to its writer.                *)
LEMMA RelayedAnswer ==
  ASSUME RewriteInv, NEW g \in Reqs, pc[g] \in Answering, exchange[g].status = StatusOK
  PROVE  /\ written[g].headers = exchange[g].respHeaders
         /\ exchange[g].respHeaders = ApplyHeaderRewrites(resp[g].headers, Matched(g), TRUE)
         /\ DOMAIN written[g].headers = HeaderNames
         /\ written[g].size \in 0 .. resp[g].sent
         /\ exchange[g].respBody = Clamp(written[g].size)
         /\ IsResponse(resp[g])
<1>1. rules \in RuleLists /\ Answered(g) /\ Rewritten(g)
  BY DEF RewriteInv, TypeInv, Flags, DataInv, Data
<1>2. /\ written[g].headers = exchange[g].respHeaders /\ written[g].size \in Nat
      /\ exchange[g].respBody = Clamp(written[g].size) /\ written[g].size <= resp[g].sent
  BY <1>1 DEF Answered, Tells
<1>3. /\ IsResponse(resp[g])
      /\ exchange[g].respHeaders = ApplyHeaderRewrites(resp[g].headers, Matched(g), TRUE)
  BY <1>1 DEF Rewritten
<1>4. DOMAIN exchange[g].respHeaders = HeaderNames
  <2>1. PICK h, q : h = resp[g].headers /\ q = call[g].request
    OBVIOUS
  <2>2. \A list \in RuleLists : \A side :
          DOMAIN ApplyHeaderRewrites(h, Match(list, q), side) = DOMAIN h
    BY RewritesKeepTheNames
  <2>3. DOMAIN ApplyHeaderRewrites(h, Match(rules, q), TRUE) = DOMAIN h
    BY <1>1, <2>2
  <2> QED BY <1>3, <2>1, <2>3 DEF Matched, IsResponse
<1>5. written[g].size \in 0 .. resp[g].sent
  BY <1>2, <1>3, CapAssumption DEF IsResponse
<1> QED BY <1>2, <1>3, <1>4, <1>5

(* The client of a relayed response.                                        *)
LEMMA RelayedClientIsTold ==
  ASSUME RewriteInv, NEW g \in Reqs, pc[g] \in Answering, exchange[g].status = StatusOK,
         NEW c \in Sendable(call[g].via, written[g])
  PROVE  LET e == exchange[g] IN
         /\ \A n \in HeaderNames \ Framing :
              \/ c.headers[n] = e.respHeaders[n]
              \/ n = ContentType /\ call[g].via # "mitm" /\ e.respHeaders[n] = Absent
         /\ call[g].via = "mitm" =>
              /\ c.headers[ContentLength] = Itoa[c.size]
              /\ c.headers[TransferEncoding] = Absent
         /\ call[g].via = "mitm" \/ LengthIsTheOrigins(g) =>
              /\ e.respBody.size <= c.size
              /\ e.respBody.truncated <=> e.respBody.size < c.size
              /\ e.respBody.truncated => e.respBody.size = MaxCaptured
<1> DEFINE e == exchange[g]
           w == written[g]
<1>1. /\ w.headers = e.respHeaders /\ DOMAIN w.headers = HeaderNames
      /\ w.size \in 0 .. resp[g].sent /\ e.respBody = Clamp(w.size) /\ IsResponse(resp[g])
  BY RelayedAnswer
<1>2. resp[g].sent \in 0 .. MaxBody /\ w.size \in Nat /\ w.size <= resp[g].sent
  BY <1>1, CapAssumption DEF IsResponse
<1>3. c.size = w.size =>
        /\ e.respBody.size <= c.size
        /\ e.respBody.truncated <=> e.respBody.size < c.size
        /\ e.respBody.truncated => e.respBody.size = MaxCaptured
  <2>1. /\ Clamp(w.size).size <= w.size
        /\ Clamp(w.size).truncated <=> Clamp(w.size).size < w.size
        /\ Clamp(w.size).truncated => Clamp(w.size).size = MaxCaptured
    BY <1>2, ClampTells
  <2> QED BY <1>1, <2>1
<1>4. CASE call[g].via = "mitm"
  <2>1. c = Flushed(w)
    BY <1>4 DEF Sendable
  <2> HIDE DEF e, w
  <2>2. /\ c.size = w.size /\ c.headers[ContentLength] = Itoa[c.size]
        /\ c.headers[TransferEncoding] = Absent
        /\ \A n \in HeaderNames \ Framing : c.headers[n] = w.headers[n]
    BY <1>1, <2>1, FlushFrames
  <2> QED BY <1>1, <1>3, <2>2 DEF e
<1>5. CASE call[g].via # "mitm"
  <2>1. PICK early \in BOOLEAN : c = Served(w, early)
    BY <1>5 DEF Sendable
  <2>3. LengthIsTheOrigins(g) => w.headers[ContentLength] \in {Absent, Itoa[resp[g].sent]}
    BY <1>1 DEF LengthIsTheOrigins, IsResponse
  <2> HIDE DEF e, w
  <2>2. /\ \A n \in HeaderNames \ Framing :
             c.headers[n] = w.headers[n] \/ (n = ContentType /\ w.headers[n] = Absent)
        /\ \A m \in 0 .. MaxBody :
             w.headers[ContentLength] \in {Absent, Itoa[m]} /\ w.size <= m => c.size = w.size
    BY <1>1, <1>2, <2>1, ServerFrames
  <2>4. LengthIsTheOrigins(g) => c.size = w.size
    BY <1>2, <2>2, <2>3
  <2> QED BY <1>1, <1>3, <1>5, <2>2, <2>4 DEF e
<1> QED BY <1>4, <1>5

(* What the observer was told of a request is what its client got and what  *)
(* the origin received, on every path, for any rules and bodies and however *)
(* the writers frame the response.                                          *)
THEOREM CaptureTells == Spec => []CaptureTellsTheExchange
<1>1. ASSUME RewriteInv, NEW g \in Reqs, observed[g] # <<>>, client[g] # <<>>
      PROVE  ClientIsTold(g, observed[g][1], client[g][1])
  <2> DEFINE e == exchange[g]
             w == written[g]
             c == client[g][1]
  <2>1. /\ observed[g] = <<e>> /\ Tells(e, w, call[g].request)
        /\ c \in Sendable(call[g].via, w)
        /\ c.status = IF e.err THEN StatusBadGateway ELSE e.status
    BY <1>1, StatusTold DEF RewriteInv, TypeInv
  <2>2. observed[g][1] = e
    BY <2>1
  <2>3. pc[g] \in Answering
    BY <1>1, DataOf DEF RewriteInv, TypeInv, Progress
  <2>4. ASSUME e.status = StatusOK
        PROVE  /\ \A n \in HeaderNames \ Framing :
                    \/ c.headers[n] = e.respHeaders[n]
                    \/ n = ContentType /\ call[g].via # "mitm" /\ e.respHeaders[n] = Absent
               /\ call[g].via = "mitm" =>
                    /\ c.headers[ContentLength] = Itoa[c.size]
                    /\ c.headers[TransferEncoding] = Absent
               /\ call[g].via = "mitm" \/ LengthIsTheOrigins(g) =>
                    /\ e.respBody.size <= c.size
                    /\ e.respBody.truncated <=> e.respBody.size < c.size
                    /\ e.respBody.truncated => e.respBody.size = MaxCaptured
    BY <1>1, <2>1, <2>3, <2>4, RelayedClientIsTold
  <2>5. e.status = StatusFound =>
          c.headers[Location] = Resolve[<<e.respHeaders[Location], call[g].request.url>>]
    <3>1. SUFFICES ASSUME e.status = StatusFound
                   PROVE  c.headers[Location] = Resolve[<<e.respHeaders[Location], call[g].request.url>>]
      OBVIOUS
    <3>2. w = HttpRedirect(call[g].request, e.respHeaders[Location])
      BY <2>1, <3>1 DEF Tells
    <3>3. /\ DOMAIN w.headers = HeaderNames /\ w.size \in Nat
          /\ w.headers[Location] = Resolve[<<e.respHeaders[Location], call[g].request.url>>]
      BY <3>2, HelpersWrite
    <3> QED BY <2>1, <3>3, LocationIsSent
  <2>6. e.status = StatusForbidden \/ e.err => c.headers[Location] = Absent
    <3>1. SUFFICES ASSUME e.status = StatusForbidden \/ e.err
                   PROVE  c.headers[Location] = Absent
      OBVIOUS
    <3>2. \E status : w = HttpError(status)
      BY <2>1, <3>1 DEF Tells
    <3>3. DOMAIN w.headers = HeaderNames /\ w.size \in Nat /\ w.headers[Location] = Absent
      BY <3>2, HelpersWrite DEF RefusalText
    <3> QED BY <2>1, <3>3, LocationIsSent
  <2>7. e.status = StatusForbidden => c.size = e.respBody.size + 1
    <3>1. SUFFICES ASSUME e.status = StatusForbidden
                   PROVE  c.size = e.respBody.size + 1
      OBVIOUS
    <3>2. w = HttpError(StatusForbidden) /\ e.respBody.size = RefusalText
      BY <2>1, <3>1 DEF Tells
    <3>3. /\ DOMAIN w.headers = HeaderNames /\ w.size = RefusalText + 1 /\ w.size \in Nat
          /\ w.headers[ContentLength] = Absent
      BY <3>2, HelpersWrite DEF RefusalText
    <3>4. c.size = w.size
      <4>1. CASE call[g].via = "mitm"
        BY <2>1, <3>3, <4>1, FlushFrames DEF Sendable
      <4>2. CASE call[g].via # "mitm"
        <5>1. PICK early \in BOOLEAN : c = Served(w, early)
          BY <2>1, <4>2 DEF Sendable
        <5> QED BY <3>3, <5>1, ServerFrames
      <4> QED BY <4>1, <4>2
    <3> QED BY <3>2, <3>3, <3>4
  <2> HIDE DEF e, c, w
  <2>8. ClientIsTold(g, e, c)
    BY <2>1, <2>4, <2>5, <2>6, <2>7 DEF ClientIsTold
  <2> QED BY <2>2, <2>8 DEF c
<1>2. ASSUME RewriteInv, NEW g \in Reqs, observed[g] # <<>>, origin[g] # <<>>
      PROVE  OriginIsTold(observed[g][1], origin[g][1])
  <2>1. pc[g] \in PCs /\ Progress(g) /\ Answered(g) /\ Sent(g)
    BY <1>2 DEF RewriteInv, TypeInv, DataInv, IInv, Shape, Data
  <2>2. pc[g] \in Reported
    BY <1>2, <2>1 DEF Progress, PCs, Unreported, Early, Reported
  <2>3. observed[g] = <<exchange[g]>> /\ origin[g] = <<Asked(g)>>
    BY <1>2, <2>1, <2>2 DEF Answered, Sent
  <2> DEFINE e == exchange[g]
             o == Asked(g)
  <2>4. o.headers = RemoveHopByHop(e.reqHeaders) /\ o.size = call[g].has
    BY DEF Asked
  <2>5. \A n \in DOMAIN RemoveHopByHop(e.reqHeaders) :
          IF n \in HopByHop THEN RemoveHopByHop(e.reqHeaders)[n] = Absent
          ELSE RemoveHopByHop(e.reqHeaders)[n] = e.reqHeaders[n]
    BY DEF RemoveHopByHop
  <2>6. call[g].has \in Nat /\ e.reqBody = Clamp(call[g].has)
    BY <2>1, <2>2 DEF Sent, Reported
  <2>7. /\ e.reqBody.size <= call[g].has
        /\ e.reqBody.truncated <=> e.reqBody.size < call[g].has
    BY <2>6, ClampTells
  <2> HIDE DEF e, o
  <2>8. OriginIsTold(e, o)
    BY <2>4, <2>5, <2>7 DEF OriginIsTold
  <2>9. observed[g][1] = e /\ origin[g][1] = o
    BY <2>3 DEF e, o
  <2> QED BY <2>8, <2>9
<1>3. RewriteInv => CaptureTellsTheExchange
  BY <1>1, <1>2 DEF CaptureTellsTheExchange
<1> QED BY RewriteInvIsInductive, <1>3, PTL DEF Spec

(* Of the rewrites that name a header the last matching one decides what    *)
(* the origin and the client get of it: serveRelayed applies the rules of   *)
(* Match in the order of the file, for any rule file and any headers.  Only *)
(* the framing, and a type where the rules leave none, are net/http's and   *)
(* flush's.                                                                 *)
THEOREM LastRewriteAlwaysWins == Spec => []LastRewriteWins
<1>1. ASSUME RewriteInv, NEW g \in Reqs, origin[g] # <<>>, NEW n \in HeaderNames \ HopByHop
      PROVE  LET req == call[g].request
             IN origin[g][1].headers[n] = LastOpWins(req, req.headers, FALSE, n)
  <2> DEFINE req == call[g].request
             out == ApplyHeaderRewrites(req.headers, Match(rules, req), FALSE)
  <2>1. /\ rules \in RuleLists /\ Progress(g) /\ Sent(g) /\ Rewritten(g) /\ CallOK(g)
    BY <1>1 DEF RewriteInv, TypeInv, Flags, DataInv, Data, IInv
  <2>2. pc[g] # "idle"
    BY <1>1, <2>1 DEF Progress, Early
  <2>3. n \in DOMAIN req.headers
    BY <2>1, <2>2, DataAssumption DEF CallOK
  <2>4. out[n] = LastOpWins(req, req.headers, FALSE, n)
    BY <2>1, <2>3, LastRewriteDecides
  <2>5. origin[g][1].headers = RemoveHopByHop(out)
    <3>1. origin[g] = <<Asked(g)>> /\ exchange[g].reqHeaders = out
      BY <1>1, <2>1 DEF Sent, Rewritten, OutHeaders, Matched
    <3>2. origin[g][1] = Asked(g)
      BY <3>1
    <3> HIDE DEF out
    <3> QED BY <3>1, <3>2 DEF Asked
  <2>6. DOMAIN out = DOMAIN req.headers
    <3>1. PICK list, q, h, side :
            list \in RuleLists /\ list = rules /\ q = req /\ h = req.headers /\ side = FALSE
      BY <2>1
    <3>2. DOMAIN ApplyHeaderRewrites(h, Match(list, q), side) = DOMAIN h
      BY <3>1, RewritesKeepTheNames
    <3> QED BY <3>1, <3>2
  <2> HIDE DEF out
  <2>7. origin[g][1].headers[n] = out[n]
    BY <1>1, <2>3, <2>5, <2>6 DEF RemoveHopByHop
  <2> QED BY <2>4, <2>7
<1>2. ASSUME RewriteInv, NEW g \in Reqs, client[g] # <<>>, client[g][1].status = StatusOK,
             NEW n \in HeaderNames \ Framing
      PROVE  LET wanted == LastOpWins(call[g].request, resp[g].headers, TRUE, n) IN
             \/ client[g][1].headers[n] = wanted
             \/ n = ContentType /\ call[g].via # "mitm" /\ wanted = Absent
  <2>1. rules \in RuleLists /\ Progress(g) /\ Answered(g)
    BY <1>2 DEF RewriteInv, TypeInv, Flags, DataInv, Data, IInv
  <2>2. /\ pc[g] \in Answering /\ Tells(exchange[g], written[g], call[g].request)
        /\ client[g][1] \in Sendable(call[g].via, written[g])
    <3>1. PICK c \in Sendable(call[g].via, written[g]) : client[g] = <<c>>
      BY <1>2, <2>1 DEF Answered
    <3>2. client[g][1] = c
      BY <3>1
    <3> QED BY <1>2, <2>1, <3>1, <3>2 DEF Progress, Answered
  <2>3. exchange[g].status = StatusOK
    <3>1. client[g][1].status = written[g].status
      BY <2>2, SendableStatus
    <3> QED BY <1>2, <2>2, <3>1 DEF Tells, StatusOK, StatusBadGateway
  <2>4. /\ DOMAIN resp[g].headers = HeaderNames
        /\ exchange[g].respHeaders = ApplyHeaderRewrites(resp[g].headers, Matched(g), TRUE)
    BY <1>2, <2>2, <2>3, RelayedAnswer DEF IsResponse
  <2>5. \/ client[g][1].headers[n] = exchange[g].respHeaders[n]
        \/ n = ContentType /\ call[g].via # "mitm" /\ exchange[g].respHeaders[n] = Absent
    BY <1>2, <2>2, <2>3, RelayedClientIsTold
  <2>6. PICK h, req : h = resp[g].headers /\ req = call[g].request
    OBVIOUS
  <2>7. ApplyHeaderRewrites(h, Match(rules, req), TRUE)[n] = LastOpWins(req, h, TRUE, n)
    BY <2>1, <2>4, <2>6, LastRewriteDecides
  <2>8. exchange[g].respHeaders[n] = LastOpWins(req, h, TRUE, n)
    BY <2>4, <2>6, <2>7 DEF Matched
  <2> QED BY <2>5, <2>6, <2>8
<1>3. RewriteInv => LastRewriteWins
  BY <1>1, <1>2 DEF LastRewriteWins
<1> QED BY RewriteInvIsInductive, <1>3, PTL DEF Spec

-----------------------------------------------------------------------------
(* The relay and the store together.                                        *)

Entry(g) == [id |-> idOf[g], exchange |-> observed[g][1]]
Entries == {Entry(g) : g \in {h \in Reqs : idOf[h] # 0}}

IDs ==
  /\ nextID \in Nat
  /\ clearedAt \in Nat
  /\ clearedAt <= nextID
  /\ idOf \in [Reqs -> Nat]
  /\ \A g \in Reqs : idOf[g] <= nextID
  /\ \A g \in Reqs : observed[g] # <<>> <=> idOf[g] # 0
  /\ \A g, h \in Reqs : (idOf[g] = idOf[h] /\ idOf[g] # 0) => g = h

(* Only the cap and the last Clear have taken records away. *)
Held ==
  /\ records \in Seq(Entries)
  /\ Len(records) <= MaxItems
  /\ Len(records) <= nextID - clearedAt
  /\ Len(records) = MaxItems \/ Len(records) = nextID - clearedAt
  /\ \A i \in 1 .. Len(records) : records[i].id = nextID - Len(records) + i

StoreInv == IDs /\ Held

SystemInv == DataInv /\ StoreInv

(* What the cap leaves of a sequence: its newest MaxItems entries, in order. *)
LEMMA StoreDropsOldest ==
  ASSUME NEW S, NEW rs \in Seq(S)
  PROVE  LET kept == Store!DropOldest(rs) IN
         /\ kept \in Seq(S)
         /\ Len(kept) = IF Len(rs) > MaxItems THEN MaxItems ELSE Len(rs)
         /\ \A i \in 1 .. Len(kept) : kept[i] = rs[i + Len(rs) - Len(kept)]
<1>1. CASE Len(rs) > MaxItems
  <2> DEFINE kept == SubSeq(rs, Len(rs) - MaxItems + 1, Len(rs))
  <2>1. Store!DropOldest(rs) = kept
    BY <1>1, InterceptorAssumption DEF Store!DropOldest
  <2>2. kept \in Seq(S) /\ Len(kept) = MaxItems
    BY <1>1, InterceptorAssumption
  <2>3. \A i \in 1 .. Len(kept) : kept[i] = rs[i + Len(rs) - MaxItems]
    BY <1>1, <2>2, InterceptorAssumption
  <2> QED BY <1>1, <2>1, <2>2, <2>3
<1>2. CASE ~(Len(rs) > MaxItems)
  <2>1. Store!DropOldest(rs) = rs
    BY <1>2, InterceptorAssumption DEF Store!DropOldest
  <2> QED BY <1>2, <2>1
<1> QED BY <1>1, <1>2

(* A step of a goroutine reports nothing, or the first report of its request. *)
LEMMA StepsReportOnce ==
  ASSUME IInv, NEW g \in Reqs, Step(g)
  PROVE  /\ \A h \in Reqs \ {g} : observed'[h] = observed[h]
         /\ \/ observed'[g] = observed[g]
            \/ /\ observed[g] = <<>>
               /\ observed'[g] = <<observed'[g][1]>>
<1>1. IInv' /\ Alone(g)
  BY StepsMoveAlone
<1>2. observed'[g] = <<>> \/ \E e : observed'[g] = <<e>>
  BY <1>1 DEF IInv, Shape, Progress, PCs, Unreported, Early, Reported
<1>3. observed[g] = <<>> \/ observed'[g] = observed[g]
  <2>1. pc[g] \in Reported \/ observed[g] = <<>>
    BY DEF IInv, Shape, Progress, PCs, Unreported, Early, Reported
  <2>2. CASE pc[g] \in Reported
    BY <2>2 DEF Reported, Step, Own, OriginSteps, OriginEnds, Begin, ReadBody, Block,
           Redirect, Send, DialFails, StartRelay, Report, ReportError, Refuse, Return,
           OriginAnswers, RoundTripFails, RespondWhole, RespondCut, Respond, SendEarly,
           ClientGoes, Cancel, Goto
  <2> QED BY <2>1, <2>2
<1>4. CASE observed'[g] = <<>>
  BY <1>1, <1>3, <1>4 DEF Alone
<1>5. CASE \E e : observed'[g] = <<e>>
  <2>1. PICK e : observed'[g] = <<e>>
    BY <1>5
  <2> QED BY <1>1, <1>3, <2>1 DEF Alone
<1> QED BY <1>2, <1>4, <1>5

(* A report makes an entry of its own: the newest of the store. *)
LEMMA ReportsAreStored ==
  ASSUME StoreInv, NEW g \in Reqs,
         \A h \in Reqs \ {g} : observed'[h] = observed[h],
         observed[g] = <<>>, observed'[g] = <<observed'[g][1]>>,
         Store!Observe(observed'[g][1]), idOf' = [idOf EXCEPT ![g] = nextID'],
         clearedAt' = clearedAt
  PROVE  StoreInv'
<1> DEFINE new == [id |-> nextID + 1, exchange |-> observed'[g][1]]
           rs == Append(records, new)
<1>1. /\ nextID' = nextID + 1 /\ nextID \in Nat
      /\ records' = Store!DropOldest(rs)
  BY DEF Store!Observe, StoreInv, IDs
<1>2. /\ idOf'[g] = nextID + 1
      /\ \A h \in Reqs \ {g} : idOf'[h] = idOf[h]
  BY <1>1 DEF StoreInv, IDs
<1>3. idOf[g] = 0
  BY DEF StoreInv, IDs
<1>4. IDs'
  <2>1. nextID' \in Nat /\ clearedAt' \in Nat /\ clearedAt' <= nextID'
    BY <1>1 DEF StoreInv, IDs
  <2>2. idOf' \in [Reqs -> Nat]
    BY <1>1, <2>1 DEF StoreInv, IDs
  <2>3. \A h \in Reqs : idOf[h] \in Nat /\ idOf[h] <= nextID
    BY DEF StoreInv, IDs
  <2>4. \A h \in Reqs : idOf'[h] <= nextID'
    BY <1>1, <1>2, <2>3
  <2>5. \A h \in Reqs : observed'[h] # <<>> <=> idOf'[h] # 0
    <3>1. observed'[g] # <<>> /\ idOf'[g] # 0
      BY <1>1, <1>2
    <3> QED BY <1>2, <3>1 DEF StoreInv, IDs
  <2>6. \A h \in Reqs \ {g} : idOf'[h] # idOf'[g]
    BY <1>1, <1>2, <2>3
  <2>7. \A h, k \in Reqs : (idOf'[h] = idOf'[k] /\ idOf'[h] # 0) => h = k
    BY <1>2, <2>6 DEF StoreInv, IDs
  <2> QED BY <2>1, <2>2, <2>4, <2>5, <2>7 DEF IDs
<1>5. new \in Entries' /\ Entries \subseteq Entries'
  <2>1. Entry(g)' = new /\ idOf'[g] # 0
    BY <1>1, <1>2 DEF Entry
  <2>2. ASSUME NEW h \in Reqs, idOf[h] # 0
        PROVE  Entry(h)' = Entry(h) /\ idOf'[h] # 0
    BY <1>2, <1>3, <2>2 DEF Entry
  <2> QED BY <2>1, <2>2 DEF Entries
<1>6. /\ records \in Seq(Entries) /\ Len(records) \in Nat /\ Len(records) <= MaxItems
      /\ Len(records) <= nextID - clearedAt
      /\ Len(records) = MaxItems \/ Len(records) = nextID - clearedAt
      /\ \A i \in 1 .. Len(records) : records[i].id = nextID - Len(records) + i
      /\ clearedAt \in Nat /\ clearedAt <= nextID
  BY DEF StoreInv, IDs, Held
<1>7. records \in Seq(Entries')
  BY <1>5, <1>6
<1>8. rs \in Seq(Entries') /\ Len(rs) = Len(records) + 1
  BY <1>5, <1>7
<1>9. \A i \in 1 .. Len(rs) : rs[i].id = nextID - Len(records) + i
  <2>1. rs[Len(rs)] = new /\ \A i \in 1 .. Len(records) : rs[i] = records[i]
    BY <1>6, <1>7, <1>8
  <2>2. rs[Len(rs)].id = nextID + 1
    BY <2>1
  <2> HIDE DEF rs
  <2>3. ASSUME NEW i \in 1 .. Len(records)
        PROVE  rs[i].id = nextID - Len(records) + i
    BY <1>6, <2>1
  <2>4. rs[Len(rs)].id = nextID - Len(records) + Len(rs)
    BY <1>1, <1>6, <1>8, <2>2
  <2>5. \A i \in 1 .. Len(rs) : i = Len(rs) \/ i \in 1 .. Len(records)
    BY <1>6, <1>8
  <2> QED BY <2>3, <2>4, <2>5
<1> HIDE DEF rs
<1>10. /\ records' \in Seq(Entries')
       /\ Len(records') = IF Len(rs) > MaxItems THEN MaxItems ELSE Len(rs)
       /\ \A i \in 1 .. Len(records') : records'[i] = rs[i + Len(rs) - Len(records')]
  BY <1>1, <1>8, StoreDropsOldest
<1>11. Held'
  <2>1. /\ Len(records') <= MaxItems
        /\ Len(records') <= nextID' - clearedAt'
        /\ Len(records') = MaxItems \/ Len(records') = nextID' - clearedAt'
        /\ Len(records') \in Nat /\ Len(records') <= Len(rs)
    <3>1. CASE Len(rs) > MaxItems
      BY <1>1, <1>6, <1>8, <1>10, <3>1, InterceptorAssumption
    <3>2. CASE ~(Len(rs) > MaxItems)
      BY <1>1, <1>6, <1>8, <1>10, <3>2, InterceptorAssumption
    <3> QED BY <3>1, <3>2
  <2>2. ASSUME NEW i \in 1 .. Len(records')
        PROVE  records'[i].id = nextID' - Len(records') + i
    <3>1. i + Len(rs) - Len(records') \in 1 .. Len(rs)
      BY <1>6, <1>8, <2>1
    <3>2. records'[i].id = nextID - Len(records) + (i + Len(rs) - Len(records'))
      BY <1>9, <1>10, <3>1
    <3> QED BY <1>1, <1>6, <1>8, <2>1, <3>2
  <2> QED BY <1>10, <2>1, <2>2 DEF Held
<1> QED BY <1>4, <1>11 DEF StoreInv

LEMMA SystemInvIsInductive ==
  /\ SystemInit => SystemInv
  /\ SystemInv /\ [SystemNext]_allVars => SystemInv'
<1>1. ASSUME SystemInit
      PROVE  SystemInv
  <2>1. DataInv
    BY <1>1, DataInvIsInductive DEF SystemInit
  <2>2. IDs
    BY <1>1 DEF SystemInit, Init, Store!Init, IDs
  <2>3. Held
    <3>1. records = <<>> /\ Len(records) = 0 /\ nextID = 0 /\ clearedAt = 0
      BY <1>1 DEF SystemInit, Store!Init
    <3>2. records \in Seq(Entries)
      BY <3>1
    <3> QED BY <3>1, <3>2, InterceptorAssumption DEF Held
  <2> QED BY <2>1, <2>2, <2>3 DEF SystemInv, StoreInv
<1>2. ASSUME SystemInv, NEW g \in Reqs, Serve(g)
      PROVE  SystemInv'
  <2>1. DataInv'
    BY <1>2, DataInvIsInductive DEF SystemInv, Serve, Next
  <2>2. Step(g) /\ Record(g) /\ clearedAt' = clearedAt
    BY <1>2 DEF Serve
  <2>3. /\ \A h \in Reqs \ {g} : observed'[h] = observed[h]
        /\ \/ observed'[g] = observed[g]
           \/ /\ observed[g] = <<>>
              /\ observed'[g] = <<observed'[g][1]>>
    BY <1>2, <2>2, StepsReportOnce DEF SystemInv, DataInv
  <2>4. CASE observed'[g] = observed[g]
    <3>1. UNCHANGED <<records, nextID, idOf, clearedAt>>
      BY <2>2, <2>4 DEF Record, storeVars
    <3>2. \A h \in Reqs : observed'[h] = observed[h]
      BY <2>3, <2>4
    <3>3. IDs'
      BY <1>2, <3>1, <3>2 DEF SystemInv, StoreInv, IDs
    <3>4. Entries' = Entries
      BY <3>1, <3>2 DEF Entries, Entry
    <3>5. Held'
      BY <1>2, <3>1, <3>4 DEF SystemInv, StoreInv, Held
    <3> QED BY <2>1, <3>3, <3>5 DEF SystemInv, StoreInv
  <2>5. CASE observed'[g] # observed[g]
    <3>1. /\ Store!Observe(observed'[g][Len(observed'[g])])
          /\ idOf' = [idOf EXCEPT ![g] = nextID']
      BY <2>2, <2>5 DEF Record
    <3>2. Len(observed'[g]) = 1
      BY <2>3, <2>5, FirstOnly
    <3>3. StoreInv'
      BY <1>2, <2>2, <2>3, <2>5, <3>1, <3>2, ReportsAreStored DEF SystemInv
    <3> QED BY <2>1, <3>3 DEF SystemInv
  <2> QED BY <2>4, <2>5
<1>3. ASSUME SystemInv, ClearCaptured
      PROVE  SystemInv'
  <2>1. /\ records' = <<>> /\ nextID' = nextID /\ clearedAt' = nextID
        /\ UNCHANGED <<vars, idOf>>
    BY <1>3 DEF ClearCaptured, Store!Clear
  <2>2. DataInv'
    BY <1>3, <2>1, DataInvIsInductive DEF SystemInv
  <2>3. IDs'
    BY <1>3, <2>1 DEF SystemInv, StoreInv, IDs, vars
  <2>4. Held'
    <3>1. records' \in Seq(Entries') /\ Len(records') = 0 /\ nextID \in Nat
      BY <1>3, <2>1 DEF SystemInv, StoreInv, IDs
    <3> QED BY <2>1, <3>1, InterceptorAssumption DEF Held
  <2> QED BY <2>2, <2>3, <2>4 DEF SystemInv, StoreInv
<1>4. ASSUME SystemInv, UNCHANGED allVars
      PROVE  SystemInv'
  <2>1. DataInv'
    BY <1>4, DataInvIsInductive DEF SystemInv, allVars
  <2>2. IDs' /\ Held'
    BY <1>4 DEF allVars, vars, storeVars, SystemInv, StoreInv, IDs, Held, Entries, Entry
  <2> QED BY <2>1, <2>2 DEF SystemInv, StoreInv
<1> QED BY <1>1, <1>2, <1>3, <1>4 DEF SystemNext

(* The record with the ID of a request, while the cap and Clear leave it. *)
LEMMA RecordOf ==
  ASSUME StoreInv, NEW g \in Reqs, idOf[g] > clearedAt, idOf[g] > nextID - MaxItems
  PROVE  /\ idOf[g] - nextID + Len(records) \in DOMAIN records
         /\ records[idOf[g] - nextID + Len(records)] = Entry(g)
         /\ \A i \in DOMAIN records :
              records[i].id = idOf[g] => i = idOf[g] - nextID + Len(records)
<1> DEFINE at == idOf[g] - nextID + Len(records)
<1>1. /\ idOf[g] \in Nat /\ idOf[g] <= nextID /\ nextID \in Nat /\ clearedAt \in Nat
      /\ records \in Seq(Entries) /\ Len(records) \in Nat
      /\ DOMAIN records = 1 .. Len(records)
      /\ Len(records) = MaxItems \/ Len(records) = nextID - clearedAt
      /\ \A i \in 1 .. Len(records) : records[i].id = nextID - Len(records) + i
  BY DEF StoreInv, IDs, Held
<1>2. at \in 1 .. Len(records)
  <2>1. CASE Len(records) = MaxItems
    BY <1>1, <2>1, InterceptorAssumption
  <2>2. CASE Len(records) = nextID - clearedAt
    BY <1>1, <2>2
  <2> QED BY <1>1, <2>1, <2>2
<1>3. records[at].id = idOf[g]
  BY <1>1, <1>2
<1>4. records[at] \in Entries
  BY <1>1, <1>2
<1>5. PICK h \in Reqs : idOf[h] # 0 /\ records[at] = Entry(h)
  BY <1>4 DEF Entries
<1>6. idOf[h] = idOf[g]
  BY <1>3, <1>5 DEF Entry
<1>7. h = g
  BY <1>5, <1>6 DEF StoreInv, IDs
<1>8. \A i \in 1 .. Len(records) : records[i].id = idOf[g] => i = at
  BY <1>1
<1> QED BY <1>1, <1>2, <1>5, <1>7, <1>8

(* No report is missing: each has an ID of its own, under which the store   *)
(* has it until the cap or a Clear takes it away.                           *)
THEOREM ReportsAreCaptured == SystemSpec => []EveryReportIsCaptured
<1>1. ASSUME StoreInv, NEW g \in Reqs, idOf[g] > clearedAt, idOf[g] > nextID - MaxItems
      PROVE  Store!Get(idOf[g]) = {[id |-> idOf[g], exchange |-> observed[g][1]]}
  <2> DEFINE at == idOf[g] - nextID + Len(records)
  <2>1. /\ at \in DOMAIN records /\ records[at] = Entry(g)
        /\ \A i \in DOMAIN records : records[i].id = idOf[g] => i = at
    BY <1>1, RecordOf
  <2>2. records[at].id = idOf[g]
    BY <2>1 DEF Entry
  <2> HIDE DEF at
  <2> QED BY <2>1, <2>2 DEF Store!Get, Entry
<1>2. SystemInv => EveryReportIsCaptured
  BY <1>1 DEF SystemInv, StoreInv, IDs, EveryReportIsCaptured
<1> QED BY SystemInvIsInductive, <1>2, PTL DEF SystemSpec

(* Whoever has an answer of a decrypted tunnel finds it listed with the     *)
(* status it got, however many requests run beside it.                      *)
THEOREM TunnelAnswersAreListed == SystemSpec => []AnsweredTunnelRequestIsListed
<1>1. ASSUME SystemInv, NEW g \in Reqs, client[g] # <<>>, call[g].via = "mitm",
             idOf[g] = 0 \/ ~(idOf[g] <= clearedAt \/ idOf[g] <= nextID - MaxItems)
      PROVE  \E i \in DOMAIN records :
               /\ records[i].id = idOf[g]
               /\ client[g][1].status = IF records[i].exchange.err
                                        THEN StatusBadGateway
                                        ELSE records[i].exchange.status
  <2>1. observed[g] # <<>>
    BY <1>1, AnswersFollowReports DEF SystemInv, DataInv, TunnelAnswersAreReportedFirst
  <2>2. idOf[g] # 0 /\ idOf[g] > clearedAt /\ idOf[g] > nextID - MaxItems
    BY <1>1, <2>1, InterceptorAssumption DEF SystemInv, StoreInv, IDs
  <2> DEFINE at == idOf[g] - nextID + Len(records)
  <2>3. at \in DOMAIN records /\ records[at] = Entry(g)
    BY <1>1, <2>2, RecordOf DEF SystemInv
  <2>4. client[g][1].status = IF observed[g][1].err THEN StatusBadGateway
                              ELSE observed[g][1].status
    BY <1>1, <2>1, StatusTold DEF SystemInv
  <2>5. records[at].id = idOf[g] /\ records[at].exchange = observed[g][1]
    BY <2>3 DEF Entry
  <2> HIDE DEF at
  <2> QED BY <2>3, <2>4, <2>5
<1>2. SystemInv => AnsweredTunnelRequestIsListed
  BY <1>1 DEF AnsweredTunnelRequestIsListed
<1> QED BY SystemInvIsInductive, <1>2, PTL DEF SystemSpec
=============================================================================
