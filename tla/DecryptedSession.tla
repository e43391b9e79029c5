--------------------------- MODULE DecryptedSession ---------------------------
(***************************************************************************)
(* serveDecrypted of internal/proxy/proxy.go: the keep-alive loop that      *)
(* serves the requests of one decrypted CONNECT tunnel, one after another.  *)
(* Every turn of the loop wraps the connection in a new bufio.Reader, which *)
(* reads ahead as much as has arrived; what the reader still holds when the *)
(* turn ends goes with it.                                                  *)
(*                                                                          *)
(* The decrypted stream is a sequence of pieces <<i, k>>: HeadPieces of the *)
(* head of the i-th request (from k = 0), then those of its body.  A turn   *)
(* may find any piece first.  From the beginning of a request, ReadRequest  *)
(* reads that request; from anywhere else it reads whatever the bytes say,  *)
(* an error or a request that nobody sent, of any size and framing.         *)
(* serveRelayed itself is module Relay.                                     *)
(***************************************************************************)
EXTENDS Integers, Sequences, SequencesExt

CONSTANTS
  MaxRequests,  \* bound on the requests of a session
  MaxBody,      \* bound on the pieces of a body
  HeadPieces,   \* the pieces of a head
  MaxStray      \* bound on the pieces of a request that nobody sent

ASSUME SessionAssumption ==
  /\ MaxRequests \in Nat /\ MaxBody \in Nat /\ MaxStray \in Nat
  /\ HeadPieces \in Nat \ {0}

VARIABLES
  patient,      \* whether the client waits for each answer before it sends on
  sent,         \* the requests the client wrote: [body, close]
  wire,         \* pieces written and not yet read
  clientOpen,   \* whether the client is still there
  pc,           \* where the loop is
  buf,          \* what this turn's bufio.Reader holds
  taken,        \* the pieces of the request in hand read so far
  req,          \* its framing: the pieces of its head, all of them, its close
  handled,      \* the requests given to serveRelayed: their pieces
  answers       \* those of which the client received the answer, in order

vars ==
  <<patient, sent, wire, clientOpen, pc, buf, taken, req, handled, answers>>

client == <<patient, sent, clientOpen>>

-----------------------------------------------------------------------------

Size(i) == HeadPieces + sent[i].body

(* The pieces of the i-th request. *)
Pieces(i) == [k \in 1 .. Size(i) |-> <<i, k - 1>>]

Init ==
  /\ patient \in BOOLEAN
  /\ sent = <<>>
  /\ wire = <<>>
  /\ clientOpen = TRUE
  /\ pc = "read"
  /\ buf = <<>>
  /\ taken = <<>>
  /\ req = [head |-> 0, size |-> 0, close |-> FALSE]
  /\ handled = <<>>
  /\ answers = <<>>

(* The client writes a request; after one with Connection: close, no more.  *)
ClientSends ==
  /\ clientOpen
  /\ Len(sent) < MaxRequests
  /\ \A i \in DOMAIN sent : ~sent[i].close
  /\ patient => Len(answers) = Len(sent)
  /\ \E n \in 0 .. MaxBody, close \in BOOLEAN :
       /\ sent' = Append(sent, [body |-> n, close |-> close])
       /\ wire' = wire \o [k \in 1 .. HeadPieces + n |-> <<Len(sent) + 1, k - 1>>]
  /\ UNCHANGED <<patient, clientOpen, pc, buf, taken, req, handled, answers>>

(* The client's connection breaks; what was on its way arrives in part. *)
ClientGoes ==
  /\ clientOpen
  /\ clientOpen' = FALSE
  /\ \E k \in 0 .. Len(wire) : wire' = SubSeq(wire, 1, k)
  /\ UNCHANGED <<patient, sent, pc, buf, taken, req, handled, answers>>

-----------------------------------------------------------------------------

(* What http.ReadRequest can make of bytes that begin with piece u. *)
Framings(u) ==
  IF u[2] = 0
  THEN {[head |-> HeadPieces, size |-> Size(u[1]), close |-> sent[u[1]].close]}
  ELSE [head : 1 .. MaxStray, size : 1 .. MaxStray, close : BOOLEAN]

(* Nothing more will come. *)
Ended == buf = <<>> /\ wire = <<>> /\ ~clientOpen

(* Faulty: the body is read past its declared length. *)
WantingOneMore == pc = "read" /\ (taken # <<>> => Len(taken) <= req.size)

Wanting == pc = "read" /\ (taken # <<>> => Len(taken) < req.size)

(* bufio's fill: one Read, as many pieces as it happens to return. *)
Fill ==
  /\ Wanting
  /\ buf = <<>>
  /\ \E k \in 1 .. Len(wire) :
       /\ buf' = SubSeq(wire, 1, k)
       /\ wire' = SubSeq(wire, k + 1, Len(wire))
  /\ UNCHANGED <<client, pc, taken, req, handled, answers>>

(* http.ReadRequest finds a request ... *)
ReadRequest ==
  /\ pc = "read" /\ taken = <<>>
  /\ buf # <<>>
  /\ req' \in {r \in Framings(Head(buf)) : r.head <= r.size}
  /\ taken' = <<Head(buf)>>
  /\ buf' = Tail(buf)
  /\ UNCHANGED <<client, wire, pc, handled, answers>>

(* ... or an error: the end of the stream before the end of a head, or      *)
(* bytes that are no request.                                               *)
ReadRequestFails ==
  /\ pc = "read"
  /\ \/ Ended /\ (taken # <<>> => Len(taken) < req.head)
     \/ taken = <<>> /\ buf # <<>> /\ Head(buf)[2] # 0
  /\ pc' = "closed"
  /\ taken' = <<>>
  /\ UNCHANGED <<client, wire, buf, req, handled, answers>>

(* The rest of the head, and the body, which serveRelayed reads out of the  *)
(* same bufio.Reader, to its end or to the end of the stream (the error is  *)
(* dropped).                                                                *)
ReadOn ==
  /\ Wanting /\ taken # <<>>
  /\ buf # <<>>
  /\ taken' = Append(taken, Head(buf))
  /\ buf' = Tail(buf)
  /\ UNCHANGED <<client, wire, pc, req, handled, answers>>

(* serveRelayed has the request.  A rule answers it at once, or it is on    *)
(* its way to the origin, with the headers the rules leave it: among them,  *)
(* perhaps, a Connection: close that the client did not ask for.            *)
ServeRelayed ==
  /\ pc = "read" /\ taken # <<>>
  /\ Wanting => Ended /\ Len(taken) >= req.head
  /\ handled' = Append(handled, taken)
  /\ taken' = <<>>
  /\ \/ pc' = "flush" /\ UNCHANGED req
     \/ /\ pc' = "origin"
        /\ \E byRule \in BOOLEAN : req' = [req EXCEPT !.close = @ \/ byRule]
  /\ UNCHANGED <<client, wire, buf, answers>>

(* The origin answers, or fails to: serveRelayed returns. *)
OriginAnswers ==
  /\ pc = "origin"
  /\ pc' = "flush"
  /\ UNCHANGED <<client, wire, buf, taken, req, handled, answers>>

(* Faulty: the turn is served again. *)
FlushAndServeAgain ==
  /\ pc = "flush"
  /\ answers' = IF clientOpen THEN Append(answers, Last(handled)) ELSE answers
  /\ pc' = IF req.close THEN "closed" ELSE "origin"
  /\ UNCHANGED <<client, wire, buf, taken, req, handled>>

(* writer.flush, then the end of the loop or its next turn, which starts    *)
(* with an empty reader.                                                    *)
Flush ==
  /\ pc = "flush"
  /\ answers' = IF clientOpen THEN Append(answers, Last(handled)) ELSE answers
  /\ IF req.close THEN pc' = "closed" /\ UNCHANGED buf
                  ELSE pc' = "read" /\ buf' = <<>>
  /\ UNCHANGED <<client, wire, taken, req, handled>>

Proxy ==
  \/ Fill \/ ReadRequest \/ ReadRequestFails \/ ReadOn \/ ServeRelayed \/ Flush

Next == ClientSends \/ ClientGoes \/ Proxy \/ OriginAnswers

Spec == Init /\ [][Next]_vars

(* The loop goes on as long as it has something to read or to write.  The   *)
(* client is free never to send again, and the origin never to answer: the  *)
(* relay has no timeout.                                                    *)
FairSpec == Spec /\ WF_vars(Proxy)

-----------------------------------------------------------------------------

Before(u, v) == u[1] < v[1] \/ (u[1] = v[1] /\ u[2] < v[2])

(* v is the piece the client wrote right after u. *)
Follows(u, v) ==
  \/ v[1] = u[1] /\ v[2] = u[2] + 1
  \/ v[1] = u[1] + 1 /\ v[2] = 0 /\ u[2] = Size(u[1]) - 1

(* Pieces that were read as a request although no request begins there. *)
Stray(h) == h[1][2] # 0

IsOwn(h) ==
  LET own == Pieces(h[1][1]) IN h = own \/ (~clientOpen /\ IsPrefix(h, own))

(* A client that waits for each answer has its requests relayed one by one, *)
(* each once, as it sent it (short of its end only when the client has      *)
(* gone), and gets the answers in that order.                               *)
(* Whoever pipelines: no piece is relayed twice or behind a later one, what *)
(* is relayed is a run of pieces as they were sent, a request that is read  *)
(* from its beginning is relayed as it was sent, and the client gets the    *)
(* answers in the order of the relays.  The loop may relay a request that   *)
(* nobody sent, but first only where it lost the beginning of one that was. *)
ExchangesMatch ==
  /\ IsPrefix(answers, handled)
  /\ \A i, j \in DOMAIN handled : i < j =>
       \A p \in DOMAIN handled[i], q \in DOMAIN handled[j] :
         Before(handled[i][p], handled[j][q])
  /\ \A i \in DOMAIN handled :
       /\ \A p \in 1 .. Len(handled[i]) - 1 :
            Follows(handled[i][p], handled[i][p + 1])
       /\ ~Stray(handled[i]) => IsOwn(handled[i])
       /\ patient => handled[i][1] = <<i, 0>>
       /\ Stray(handled[i]) /\ (\A j \in 1 .. i - 1 : ~Stray(handled[j])) =>
            \A j \in DOMAIN handled : \A p \in DOMAIN handled[j] :
              handled[j][p] # <<handled[i][1][1], 0>>

OriginIsNeverSilentForEver == []<>(pc # "origin")

Answered(i) ==
  \/ ~clientOpen \/ pc = "closed"
  \/ \E k \in DOMAIN answers : answers[k][1] = <<i, 0>>

(* A client that waits for each answer before it sends the next request     *)
(* gets every answer, unless it sees the connection end or an origin stays  *)
(* silent for ever.                                                         *)
PatientClientIsAnswered ==
  patient /\ OriginIsNeverSilentForEver =>
    \A i \in 1 .. MaxRequests : (i <= Len(sent)) ~> Answered(i)

(* proxy.go: "It handles keep-alive: multiple requests may arrive on one    *)
(* connection": every request that arrived is answered, unless the client   *)
(* sees the connection end or an origin stays silent for ever.              *)
EveryRequestIsAnswered ==
  OriginIsNeverSilentForEver =>
    \A i \in 1 .. MaxRequests : (i <= Len(sent)) ~> Answered(i)
=============================================================================
