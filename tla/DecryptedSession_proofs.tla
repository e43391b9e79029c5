----------------------- MODULE DecryptedSession_proofs -----------------------
(***************************************************************************)
(* Proofs about DecryptedSession, for any number of requests and any bodies.*)
(* The invariant is about one sequence, line: the pieces taken for the      *)
(* request in hand, what the reader holds, what is on the wire.  The loop   *)
(* leaves it alone or drops a part of its front, the client only adds at    *)
(* its end, and a connection that breaks cuts its end off; so what remains  *)
(* is always a run of pieces as they were sent, behind all that was         *)
(* relayed, also after a flush threw a reader away in the middle of a       *)
(* request.                                                                 *)
(***************************************************************************)
EXTENDS DecryptedSession, SequenceTheorems, TLAPS

Request == [body : Nat, close : BOOLEAN]
Unit == Nat \X Nat

(* The same as Size, Pieces, IsOwn and Follows, of any requests reqs.       *)
SizeIn(reqs, i) == HeadPieces + reqs[i].body

PiecesIn(reqs, i) == [k \in 1 .. SizeIn(reqs, i) |-> <<i, k - 1>>]

IsOwnIn(reqs, open, h) ==
  LET own == PiecesIn(reqs, h[1][1]) IN h = own \/ (~open /\ IsPrefix(h, own))

IsUnitOf(reqs, u) == u[1] \in 1 .. Len(reqs) /\ u[2] \in 0 .. SizeIn(reqs, u[1]) - 1

FollowsIn(reqs, u, v) ==
  \/ v[1] = u[1] /\ v[2] = u[2] + 1
  \/ v[1] = u[1] + 1 /\ v[2] = 0 /\ u[2] = SizeIn(reqs, u[1]) - 1

Contiguous(reqs, l) ==
  /\ \A p \in 1 .. Len(l) : IsUnitOf(reqs, l[p])
  /\ \A p, q \in 1 .. Len(l) : p < q => Before(l[p], l[q])
  /\ \A p \in 1 .. Len(l) - 1 : FollowsIn(reqs, l[p], l[p + 1])

EndsWithTheLast(reqs, l) ==
  l # <<>> => /\ l[Len(l)][1] = Len(reqs)
              /\ l[Len(l)][2] = SizeIn(reqs, Len(reqs)) - 1

(* Every piece of l comes before every piece of m.                          *)
AllBefore(l, m) ==
  \A p \in 1 .. Len(l), q \in 1 .. Len(m) : Before(l[p], m[q])

line == taken \o (buf \o wire)

SessionTypes ==
  /\ patient \in BOOLEAN /\ clientOpen \in BOOLEAN
  /\ sent \in Seq(Request)
  /\ wire \in Seq(Unit) /\ buf \in Seq(Unit) /\ taken \in Seq(Unit)
  /\ pc \in {"read", "origin", "flush", "closed"}
  /\ req \in [head : Nat, size : Nat, close : BOOLEAN]
  /\ handled \in Seq(Seq(Unit)) /\ answers \in Seq(Seq(Unit))

LineIsContiguous ==
  /\ Contiguous(sent, line)
  /\ clientOpen => EndsWithTheLast(sent, line)

(* A request in hand that was read from its beginning has its pieces.       *)
InHand ==
  taken # <<>> =>
    /\ pc = "read"
    /\ Len(taken) <= req.size
    /\ ~Stray(taken) =>
         /\ req.size = SizeIn(sent, taken[1][1])
         /\ \A p \in 1 .. Len(taken) : taken[p] = <<taken[1][1], p - 1>>

HandledRuns ==
  /\ \A i \in 1 .. Len(handled) :
       /\ handled[i] # <<>>
       /\ Contiguous(sent, handled[i])
       /\ AllBefore(handled[i], line)
  /\ \A i, j \in 1 .. Len(handled) : i < j => AllBefore(handled[i], handled[j])

(* What was read from its beginning is a request of the client's; if it is  *)
(* short of its end, nothing comes behind it.                               *)
HandledOwn ==
  \A i \in 1 .. Len(handled) :
    ~Stray(handled[i]) =>
      /\ IsOwnIn(sent, clientOpen, handled[i])
      /\ handled[i] # PiecesIn(sent, handled[i][1][1]) =>
           i = Len(handled) /\ line = <<>> /\ ~clientOpen

Unanswered == IF pc \in {"origin", "flush"} THEN 1 ELSE 0

AnswersFollow ==
  /\ Len(answers) + Unanswered <= Len(handled)
  /\ clientOpen => Len(answers) + Unanswered = Len(handled)
  /\ \A i \in 1 .. Len(answers) : answers[i] = handled[i]

OneAtATime ==
  patient =>
    /\ \A i \in 1 .. Len(handled) : handled[i][1] = <<i, 0>>
    /\ Len(sent) <= Len(answers) + 1
    /\ pc = "read" /\ line # <<>> => line[1] = <<Len(handled) + 1, 0>>
    /\ pc \in {"origin", "flush"} => line = <<>>

SessionInv ==
  /\ SessionTypes /\ LineIsContiguous /\ InHand
  /\ HandledRuns /\ HandledOwn /\ AnswersFollow /\ OneAtATime

-----------------------------------------------------------------------------

(* Where the elements of a concatenation are.                               *)
LEMMA JoinedPositions ==
  ASSUME NEW S, NEW a \in Seq(S), NEW b \in Seq(S)
  PROVE  /\ a \o b \in Seq(S) /\ Len(a \o b) = Len(a) + Len(b)
         /\ \A p \in 1 .. Len(a) : (a \o b)[p] = a[p]
         /\ \A p \in 1 .. Len(b) : (a \o b)[Len(a) + p] = b[p]
<1>1. Len(a) \in Nat /\ Len(b) \in Nat
  OBVIOUS
<1>2. /\ a \o b \in Seq(S) /\ Len(a \o b) = Len(a) + Len(b)
      /\ \A i \in 1 .. Len(a) + Len(b) :
           (a \o b)[i] = IF i <= Len(a) THEN a[i] ELSE b[i - Len(a)]
  BY ConcatProperties
<1>3. ASSUME NEW p \in 1 .. Len(b)
      PROVE  (a \o b)[Len(a) + p] = b[p]
  <2>1. /\ Len(a) + p \in 1 .. Len(a) + Len(b)
        /\ ~(Len(a) + p <= Len(a)) /\ Len(a) + p - Len(a) = p
    BY <1>1
  <2> QED BY <1>2, <2>1
<1>4. ASSUME NEW p \in 1 .. Len(a)
      PROVE  (a \o b)[p] = a[p]
  <2>1. p \in 1 .. Len(a) + Len(b) /\ p <= Len(a)
    BY <1>1
  <2> QED BY <1>2, <2>1
<1> QED BY <1>2, <1>3, <1>4

(* The parts of a contiguous sequence are contiguous, and come one after    *)
(* the other.                                                               *)
LEMMA PartsAreContiguous ==
  ASSUME NEW reqs, NEW a \in Seq(Unit), NEW b \in Seq(Unit),
         Contiguous(reqs, a \o b)
  PROVE  /\ Contiguous(reqs, a) /\ Contiguous(reqs, b) /\ AllBefore(a, b)
         /\ EndsWithTheLast(reqs, a \o b) => EndsWithTheLast(reqs, b)
         /\ a # <<>> /\ b # <<>> => FollowsIn(reqs, a[Len(a)], b[1])
<1> DEFINE l == a \o b
<1>1. Len(a) \in Nat /\ Len(b) \in Nat
  OBVIOUS
<1>2. /\ Len(l) = Len(a) + Len(b)
      /\ \A p \in 1 .. Len(a) : l[p] = a[p]
      /\ \A p \in 1 .. Len(b) : l[Len(a) + p] = b[p]
  BY JoinedPositions
<1>3. /\ \A p \in 1 .. Len(l) : IsUnitOf(reqs, l[p])
      /\ \A p, q \in 1 .. Len(l) : p < q => Before(l[p], l[q])
      /\ \A p \in 1 .. Len(l) - 1 : FollowsIn(reqs, l[p], l[p + 1])
  BY DEF Contiguous
<1> HIDE DEF l
<1>4. /\ \A p \in 1 .. Len(a) : p \in 1 .. Len(l)
      /\ \A p \in 1 .. Len(b) : Len(a) + p \in 1 .. Len(l)
  BY <1>1, <1>2
<1>5. Contiguous(reqs, a)
  <2>1. \A p \in 1 .. Len(a) - 1 : FollowsIn(reqs, a[p], a[p + 1])
    <3>1. ASSUME NEW p \in 1 .. Len(a) - 1
          PROVE  FollowsIn(reqs, a[p], a[p + 1])
      <4>1. p \in 1 .. Len(a) /\ p + 1 \in 1 .. Len(a) /\ p \in 1 .. Len(l) - 1
        BY <1>1, <1>2
      <4> QED BY <1>2, <1>3, <4>1
    <3> QED BY <3>1
  <2>2. \A p \in 1 .. Len(a) : IsUnitOf(reqs, a[p])
    BY <1>2, <1>3, <1>4
  <2>3. \A p, q \in 1 .. Len(a) : p < q => Before(a[p], a[q])
    BY <1>2, <1>3, <1>4
  <2> QED BY <2>1, <2>2, <2>3 DEF Contiguous
<1>6. Contiguous(reqs, b)
  <2>1. \A p \in 1 .. Len(b) - 1 : FollowsIn(reqs, b[p], b[p + 1])
    <3>1. ASSUME NEW p \in 1 .. Len(b) - 1
          PROVE  FollowsIn(reqs, b[p], b[p + 1])
      <4>1. /\ p \in 1 .. Len(b) /\ p + 1 \in 1 .. Len(b)
            /\ Len(a) + p \in 1 .. Len(l) - 1
            /\ Len(a) + (p + 1) = (Len(a) + p) + 1
        BY <1>1, <1>2
      <4> QED BY <1>2, <1>3, <4>1
    <3> QED BY <3>1
  <2>2. \A p \in 1 .. Len(b) : IsUnitOf(reqs, b[p])
    BY <1>2, <1>3, <1>4
  <2>3. ASSUME NEW p \in 1 .. Len(b), NEW q \in 1 .. Len(b), p < q
        PROVE  Before(b[p], b[q])
    <3>1. Len(a) + p < Len(a) + q
      BY <1>1, <2>3
    <3> QED BY <1>2, <1>3, <1>4, <3>1
  <2> QED BY <2>1, <2>2, <2>3 DEF Contiguous
<1>7. AllBefore(a, b)
  <2>1. ASSUME NEW p \in 1 .. Len(a), NEW q \in 1 .. Len(b)
        PROVE  Before(a[p], b[q])
    <3>1. p < Len(a) + q
      BY <1>1
    <3> QED BY <1>2, <1>3, <1>4, <3>1
  <2> QED BY <2>1 DEF AllBefore
<1>8. ASSUME EndsWithTheLast(reqs, l), b # <<>>
      PROVE  b[Len(b)] = l[Len(l)] /\ l # <<>>
  <2>1. Len(b) \in 1 .. Len(b) /\ Len(l) # 0
    BY <1>1, <1>2, <1>8
  <2> QED BY <1>2, <2>1
<1>9. ASSUME a # <<>>, b # <<>>
      PROVE  FollowsIn(reqs, a[Len(a)], b[1])
  <2>1. /\ Len(a) \in 1 .. Len(a) /\ 1 \in 1 .. Len(b)
        /\ Len(a) \in 1 .. Len(l) - 1
    BY <1>1, <1>2, <1>9
  <2> QED BY <1>2, <1>3, <2>1
<1> QED BY <1>5, <1>6, <1>7, <1>8, <1>9 DEF EndsWithTheLast, l

(* Two contiguous sequences of which the second follows the first are one.  *)
LEMMA JoinedIsContiguous ==
  ASSUME NEW reqs, NEW a \in Seq(Unit), NEW b \in Seq(Unit),
         Contiguous(reqs, a), Contiguous(reqs, b), AllBefore(a, b),
         a # <<>> /\ b # <<>> => FollowsIn(reqs, a[Len(a)], b[1])
  PROVE  Contiguous(reqs, a \o b)
<1> DEFINE l == a \o b
<1>1. Len(a) \in Nat /\ Len(b) \in Nat
  OBVIOUS
<1>2. /\ Len(l) = Len(a) + Len(b)
      /\ \A p \in 1 .. Len(a) : l[p] = a[p]
      /\ \A p \in 1 .. Len(b) : l[Len(a) + p] = b[p]
  BY JoinedPositions
<1> HIDE DEF l
<1>3. ASSUME NEW p \in 1 .. Len(l)
      PROVE  \/ p \in 1 .. Len(a) /\ l[p] = a[p]
             \/ /\ p - Len(a) \in 1 .. Len(b) /\ Len(a) + (p - Len(a)) = p
                /\ l[p] = b[p - Len(a)]
  <2>1. CASE p <= Len(a)
    BY <1>1, <1>2, <2>1
  <2>2. CASE p > Len(a)
    <3>1. p - Len(a) \in 1 .. Len(b) /\ Len(a) + (p - Len(a)) = p
      BY <1>1, <1>2, <2>2
    <3> QED BY <1>2, <3>1
  <2> QED BY <1>1, <2>1, <2>2
<1>4. \A p \in 1 .. Len(l) : IsUnitOf(reqs, l[p])
  BY <1>3 DEF Contiguous
<1>5. ASSUME NEW p \in 1 .. Len(l), NEW q \in 1 .. Len(l), p < q
      PROVE  Before(l[p], l[q])
  <2>1. CASE p \in 1 .. Len(a) /\ q \in 1 .. Len(a)
    BY <1>2, <1>5, <2>1 DEF Contiguous
  <2>2. CASE p \in 1 .. Len(a) /\ ~(q \in 1 .. Len(a))
    BY <1>3, <2>2 DEF AllBefore
  <2>3. CASE ~(p \in 1 .. Len(a))
    <3>1. ~(q \in 1 .. Len(a))
      BY <1>1, <1>5, <2>3
    <3>2. p - Len(a) < q - Len(a)
      BY <1>1, <1>5
    <3>3. /\ p - Len(a) \in 1 .. Len(b) /\ l[p] = b[p - Len(a)]
          /\ q - Len(a) \in 1 .. Len(b) /\ l[q] = b[q - Len(a)]
      BY <1>3, <2>3, <3>1
    <3> QED BY <3>2, <3>3 DEF Contiguous
  <2> QED BY <2>1, <2>2, <2>3
<1>6. ASSUME NEW p \in 1 .. Len(l) - 1
      PROVE  FollowsIn(reqs, l[p], l[p + 1])
  <2>0. p \in 1 .. Len(l) /\ p + 1 \in 1 .. Len(l)
    BY <1>1, <1>2
  <2>1. CASE p + 1 <= Len(a)
    <3>1. p \in 1 .. Len(a) - 1 /\ p \in 1 .. Len(a) /\ p + 1 \in 1 .. Len(a)
      BY <1>1, <2>1
    <3> QED BY <1>2, <3>1 DEF Contiguous
  <2>2. CASE p = Len(a)
    <3>1. Len(a) \in 1 .. Len(a) /\ 1 \in 1 .. Len(b) /\ a # <<>> /\ b # <<>>
      BY <1>1, <1>2, <2>2
    <3> QED BY <1>2, <2>2, <3>1
  <2>3. CASE p > Len(a)
    <3>1. /\ p - Len(a) \in 1 .. Len(b) - 1
          /\ p - Len(a) \in 1 .. Len(b) /\ (p - Len(a)) + 1 \in 1 .. Len(b)
          /\ Len(a) + (p - Len(a)) = p /\ Len(a) + ((p - Len(a)) + 1) = p + 1
      BY <1>1, <1>2, <2>3
    <3>2. l[p] = b[p - Len(a)] /\ l[p + 1] = b[(p - Len(a)) + 1]
      BY <1>2, <3>1
    <3> QED BY <3>1, <3>2 DEF Contiguous
  <2> QED BY <1>1, <2>0, <2>1, <2>2, <2>3
<1> QED BY <1>4, <1>5, <1>6 DEF Contiguous, l

(* Concatenation is associative.                                            *)
LEMMA Regrouped ==
  \A a, b, c \in Seq(Unit) : (a \o b) \o c = a \o (b \o c)
<1> TAKE a, b, c \in Seq(Unit)
<1> QED BY ConcatAssociative

(* What is next in the reader was sent, and follows what was taken.         *)
LEMMA NextPieceWasSent ==
  ASSUME SessionTypes, LineIsContiguous, buf # <<>>
  PROVE  /\ Head(buf) = buf[1] /\ buf[1] \in Unit
         /\ IsUnitOf(sent, buf[1]) /\ Size(buf[1][1]) \in Nat
         /\ taken # <<>> => FollowsIn(sent, taken[Len(taken)], buf[1])
<1>1. /\ taken \in Seq(Unit) /\ buf \in Seq(Unit) /\ wire \in Seq(Unit)
      /\ sent \in Seq(Request)
  BY DEF SessionTypes
<1>2. /\ Head(buf) = buf[1] /\ buf[1] \in Unit /\ 1 \in 1 .. Len(buf)
      /\ Len(buf) \in Nat \ {0} /\ Len(wire) \in Nat
  BY <1>1
<1> DEFINE rest == buf \o wire
<1>3. /\ rest \in Seq(Unit) /\ rest[1] = buf[1]
      /\ Len(rest) = Len(buf) + Len(wire)
  BY <1>1, <1>2, JoinedPositions
<1> HIDE DEF rest
<1>4. rest # <<>> /\ 1 \in 1 .. Len(rest)
  BY <1>2, <1>3
<1>5. Contiguous(sent, taken \o rest)
  BY DEF LineIsContiguous, line, rest
<1>6. /\ Contiguous(sent, rest)
      /\ taken # <<>> /\ rest # <<>> => FollowsIn(sent, taken[Len(taken)], rest[1])
  BY <1>1, <1>3, <1>5, PartsAreContiguous
<1>7. IsUnitOf(sent, buf[1])
  BY <1>3, <1>4, <1>6 DEF Contiguous
<1>8. Size(buf[1][1]) \in Nat
  <2>1. buf[1][1] \in 1 .. Len(sent)
    BY <1>7 DEF IsUnitOf
  <2>2. sent[buf[1][1]] \in Request
    BY <1>1, <2>1
  <2> QED BY <2>2, SessionAssumption DEF Size, Request
<1> QED BY <1>2, <1>3, <1>4, <1>6, <1>7, <1>8

(* Init and each action preserve the types.                                 *)
LEMMA TypesHold ==
  /\ Init => SessionTypes
  /\ SessionInv /\ [Next]_vars => SessionTypes'
<1>1. Init => SessionTypes
  BY DEF Init, SessionTypes
<1>2. ASSUME SessionTypes, ClientSends
      PROVE  SessionTypes'
  <2>1. PICK n \in 0 .. MaxBody, close \in BOOLEAN :
          /\ sent' = Append(sent, [body |-> n, close |-> close])
          /\ wire' = wire \o [k \in 1 .. HeadPieces + n |-> <<Len(sent) + 1, k - 1>>]
    BY <1>2 DEF ClientSends
  <2>2. n \in Nat /\ HeadPieces \in Nat
    BY SessionAssumption
  <2>3. [k \in 1 .. HeadPieces + n |-> <<Len(sent) + 1, k - 1>>] \in Seq(Unit)
    <3>1. Len(sent) + 1 \in Nat /\ HeadPieces + n \in Nat
      BY <1>2, <2>2 DEF SessionTypes
    <3> QED BY <3>1 DEF Unit
  <2>4. wire' \in Seq(Unit)
    BY <1>2, <2>1, <2>3 DEF SessionTypes
  <2>5. [body |-> n, close |-> close] \in Request
    BY <2>2 DEF Request
  <2>6. sent' \in Seq(Request)
    BY <1>2, <2>1, <2>5 DEF SessionTypes
  <2> QED BY <1>2, <2>4, <2>6 DEF SessionTypes, ClientSends
<1>3. ASSUME SessionTypes, ClientGoes
      PROVE  SessionTypes'
  <2>1. wire' \in Seq(Unit)
    BY <1>3 DEF SessionTypes, ClientGoes
  <2> QED BY <1>3, <2>1 DEF SessionTypes, ClientGoes
<1>4. ASSUME SessionTypes, Fill
      PROVE  SessionTypes'
  <2>1. wire' \in Seq(Unit) /\ buf' \in Seq(Unit)
    BY <1>4 DEF SessionTypes, Fill
  <2> QED BY <1>4, <2>1 DEF SessionTypes, Fill, client
<1>5. ASSUME SessionInv, ReadRequest
      PROVE  SessionTypes'
  <2>1. /\ Head(buf) \in Unit /\ Size(Head(buf)[1]) \in Nat
        /\ IsUnitOf(sent, Head(buf))
    BY <1>5, NextPieceWasSent DEF SessionInv, ReadRequest
  <2>2. buf' \in Seq(Unit) /\ taken' \in Seq(Unit)
    BY <1>5, <2>1 DEF SessionInv, SessionTypes, ReadRequest
  <2>3. req' \in Framings(Head(buf))
    BY <1>5 DEF ReadRequest
  <2>4. req' \in [head : Nat, size : Nat, close : BOOLEAN]
    <3>1. CASE Head(buf)[2] = 0
      <4>1. sent[Head(buf)[1]].close \in BOOLEAN
        <5>1. Head(buf)[1] \in 1 .. Len(sent) /\ sent \in Seq(Request)
          BY <1>5, <2>1 DEF SessionInv, SessionTypes, IsUnitOf
        <5>2. sent[Head(buf)[1]] \in Request
          BY <5>1
        <5> QED BY <5>2 DEF Request
      <4> QED BY <2>1, <2>3, <3>1, <4>1, SessionAssumption DEF Framings
    <3>2. CASE Head(buf)[2] # 0
      BY <2>3, <3>2, SessionAssumption DEF Framings
    <3> QED BY <3>1, <3>2
  <2> QED BY <1>5, <2>2, <2>4 DEF SessionInv, SessionTypes, ReadRequest, client
<1>6. ASSUME SessionTypes, ReadRequestFails
      PROVE  SessionTypes'
  BY <1>6 DEF SessionTypes, ReadRequestFails, client
<1>7. ASSUME SessionTypes, ReadOn
      PROVE  SessionTypes'
  <2>1. buf' \in Seq(Unit) /\ taken' \in Seq(Unit)
    BY <1>7 DEF SessionTypes, ReadOn
  <2> QED BY <1>7, <2>1 DEF SessionTypes, ReadOn, client
<1>8. ASSUME SessionTypes, ServeRelayed
      PROVE  SessionTypes'
  <2>1. handled' \in Seq(Seq(Unit)) /\ taken' \in Seq(Unit)
    BY <1>8 DEF SessionTypes, ServeRelayed
  <2>2. pc' \in {"read", "origin", "flush", "closed"}
    BY <1>8 DEF ServeRelayed
  <2>3. req' \in [head : Nat, size : Nat, close : BOOLEAN]
    BY <1>8 DEF ServeRelayed, SessionTypes
  <2> QED BY <1>8, <2>1, <2>2, <2>3 DEF SessionTypes, ServeRelayed, client
<1>9. ASSUME SessionTypes, OriginAnswers
      PROVE  SessionTypes'
  BY <1>9 DEF SessionTypes, OriginAnswers, client
<1>10. ASSUME SessionInv, Flush
       PROVE  SessionTypes'
  <2>0. /\ handled \in Seq(Seq(Unit)) /\ Len(handled) \in Nat \ {0}
        /\ answers \in Seq(Seq(Unit)) /\ buf \in Seq(Unit)
    <3>1. pc = "flush" /\ SessionTypes /\ AnswersFollow
      BY <1>10 DEF SessionInv, Flush
    <3>2. Unanswered = 1
      BY <3>1 DEF Unanswered
    <3> QED BY <3>1, <3>2 DEF SessionTypes, AnswersFollow
  <2>1. answers' \in Seq(Seq(Unit))
    <3>1. Last(handled) \in Seq(Unit)
      BY <2>0 DEF Last
    <3> QED BY <1>10, <2>0, <3>1 DEF Flush
  <2>2. buf' \in Seq(Unit)
    <3>1. buf' = buf \/ buf' = <<>>
      BY <1>10 DEF Flush
    <3>2. <<>> \in Seq(Unit)
      BY EmptySeq
    <3> QED BY <2>0, <3>1, <3>2
  <2>3. pc' \in {"read", "origin", "flush", "closed"}
    BY <1>10 DEF Flush
  <2> QED BY <1>10, <2>1, <2>2, <2>3 DEF SessionInv, SessionTypes, Flush, client
<1>11. ASSUME SessionTypes, UNCHANGED vars
       PROVE  SessionTypes'
  BY <1>11 DEF SessionTypes, vars
<1> QED
  BY <1>1, <1>2, <1>3, <1>4, <1>5, <1>6, <1>7, <1>8, <1>9, <1>10, <1>11
  DEF SessionInv, Next, Proxy

-----------------------------------------------------------------------------

(* A Read moves pieces from the wire into the reader: the line stays.       *)
LEMMA FillKeepsTheLine ==
  ASSUME SessionTypes, Fill
  PROVE  line' = line
<1>1. PICK k \in 1 .. Len(wire) : /\ buf' = SubSeq(wire, 1, k)
                                  /\ wire' = SubSeq(wire, k + 1, Len(wire))
  BY DEF Fill
<1>2. wire \in Seq(Unit) /\ Len(wire) \in Nat /\ buf = <<>> /\ taken' = taken
  BY DEF SessionTypes, Fill
<1>3. 1 \in 1 .. Len(wire) + 1 /\ k \in 1 - 1 .. Len(wire) /\ Len(wire) \in k .. Len(wire)
  BY <1>2
<1>4. SubSeq(wire, 1, k) \o SubSeq(wire, k + 1, Len(wire)) = SubSeq(wire, 1, Len(wire))
  BY <1>2, <1>3, ConcatAdjacentSubSeq, Zenon
<1>5. SubSeq(wire, 1, Len(wire)) = wire /\ <<>> \o wire = wire
  BY <1>2, SubSeqFull, ConcatEmptySeq
<1>6. buf' \o wire' = buf \o wire
  BY <1>1, <1>2, <1>4, <1>5, Zenon
<1> QED BY <1>2, <1>6 DEF line

(* What is taken from the reader is taken for the request: the line stays.  *)
LEMMA TakingKeepsTheLine ==
  ASSUME SessionTypes, buf # <<>>, buf' = Tail(buf), wire' = wire,
         taken' = taken \o <<Head(buf)>>
  PROVE  line' = line
<1>1. taken \in Seq(Unit) /\ buf \in Seq(Unit) /\ wire \in Seq(Unit)
  BY DEF SessionTypes
<1>2. Head(buf) \in Unit /\ Tail(buf) \in Seq(Unit) /\ <<Head(buf)>> \in Seq(Unit)
  BY <1>1
<1>3. buf = <<Head(buf)>> \o Tail(buf)
  <2>1. Len(buf) \in Nat \ {0}
    BY <1>1
  <2>2. 1 \in 1 .. Len(buf) /\ Len(buf) \in 1 .. Len(buf)
    BY <2>1
  <2>3. SubSeq(buf, 1, Len(buf)) = <<buf[1]>> \o SubSeq(buf, 1 + 1, Len(buf))
    BY <1>1, <2>2, SubSeqRecursiveFirst
  <2>4. SubSeq(buf, 1, Len(buf)) = buf
    BY <1>1, SubSeqFull
  <2>5. Tail(buf) = SubSeq(buf, 2, Len(buf))
    BY <1>1, TailIsSubSeq
  <2>6. Head(buf) = buf[1] /\ 1 + 1 = 2
    BY <1>1
  <2> QED BY <2>3, <2>4, <2>5, <2>6
<1> DEFINE h == <<Head(buf)>>
           t == Tail(buf)
<1> HIDE DEF h, t
<1>4. h \in Seq(Unit) /\ t \in Seq(Unit) /\ t \o wire \in Seq(Unit)
  BY <1>1, <1>2, ConcatProperties DEF h, t
<1>5. buf \o wire = h \o (t \o wire)
  <2>0. h \in Seq(Unit) /\ t \in Seq(Unit) /\ wire \in Seq(Unit)
    BY <1>1, <1>4
  <2>1. (h \o t) \o wire = h \o (t \o wire)
    BY ONLY <2>0, Regrouped, Zenon
  <2> QED BY <1>3, <2>1 DEF h, t
<1>6. (taken \o h) \o (t \o wire) = taken \o (h \o (t \o wire))
  <2> DEFINE r == t \o wire
  <2> HIDE DEF r
  <2>1. taken \in Seq(Unit) /\ h \in Seq(Unit) /\ r \in Seq(Unit)
    BY <1>1, <1>4 DEF r
  <2>2. (taken \o h) \o r = taken \o (h \o r)
    BY ONLY <2>1, Regrouped, Zenon
  <2> QED BY <2>2 DEF r
<1> QED BY <1>5, <1>6 DEF line, h, t

(* How the line of a state becomes that of the next: by a step of the loop, *)
(* by a client that goes, by one that sends.                                *)
DropsFront ==
  \/ line' = line
  \/ line = taken \o line'
  \/ line = buf \o line'

CutsOff == \E b \in Seq(Unit) : line = line' \o b

Adds ==
  \E n \in Nat, close \in BOOLEAN :
    /\ sent' = Append(sent, [body |-> n, close |-> close])
    /\ line' = line \o [k \in 1 .. HeadPieces + n |-> <<Len(sent) + 1, k - 1>>]

LEMMA LoopDropsTheFront ==
  ASSUME SessionTypes, SessionTypes', InHand,
         Proxy \/ OriginAnswers \/ UNCHANGED vars
  PROVE  DropsFront /\ sent' = sent /\ clientOpen' = clientOpen /\ patient' = patient
<1>0. /\ taken \in Seq(Unit) /\ buf \in Seq(Unit) /\ wire \in Seq(Unit)
      /\ buf \o wire \in Seq(Unit)
  <2>1. taken \in Seq(Unit) /\ buf \in Seq(Unit) /\ wire \in Seq(Unit)
    BY DEF SessionTypes
  <2> QED BY <2>1, ConcatProperties
<1>1. CASE Fill
  BY <1>1, FillKeepsTheLine DEF DropsFront, Fill, client
<1>2. CASE ReadRequest
  <2>1. /\ buf # <<>> /\ buf' = Tail(buf) /\ wire' = wire
        /\ taken = <<>> /\ taken' = <<Head(buf)>>
    BY <1>2 DEF ReadRequest
  <2>2. <<>> \o <<Head(buf)>> = <<Head(buf)>>
    <3>1. <<Head(buf)>> \in Seq(Unit)
      BY <1>0, <2>1
    <3> QED BY <3>1, ConcatEmptySeq
  <2>3. line' = line
    BY <2>1, <2>2, TakingKeepsTheLine
  <2> QED BY <1>2, <2>3 DEF DropsFront, ReadRequest, client
<1>3. CASE ReadOn
  <2>1. /\ buf # <<>> /\ buf' = Tail(buf) /\ wire' = wire
        /\ taken' = Append(taken, Head(buf))
    BY <1>3 DEF ReadOn
  <2>2. Append(taken, Head(buf)) = taken \o <<Head(buf)>>
    <3>1. Head(buf) \in Unit
      BY <1>0, <2>1
    <3> QED BY <1>0, <3>1, AppendIsConcat
  <2>3. line' = line
    BY <2>1, <2>2, TakingKeepsTheLine
  <2> QED BY <1>3, <2>3 DEF DropsFront, ReadOn, client
<1>4. CASE ReadRequestFails \/ ServeRelayed
  <2>1. taken' = <<>> /\ buf' = buf /\ wire' = wire
    BY <1>4 DEF ReadRequestFails, ServeRelayed
  <2>2. <<>> \o (buf \o wire) = buf \o wire
    BY <1>0, ConcatEmptySeq
  <2>3. line' = buf \o wire
    BY <2>1, <2>2 DEF line
  <2> QED BY <1>4, <2>3 DEF DropsFront, line, ReadRequestFails, ServeRelayed, client
<1>5. CASE Flush
  <2>1. taken = <<>> /\ taken' = <<>> /\ wire' = wire
    BY <1>5 DEF Flush, InHand
  <2>2. line = buf \o wire
    <3>1. <<>> \o (buf \o wire) = buf \o wire
      BY <1>0, ConcatEmptySeq
    <3> QED BY <2>1, <3>1 DEF line
  <2>3. CASE buf' = buf
    BY <1>5, <2>1, <2>3 DEF DropsFront, line, Flush, client
  <2>4. CASE buf' = <<>>
    <3>1. <<>> \o (<<>> \o wire) = wire
      BY <1>0, ConcatEmptySeq
    <3>2. line' = wire
      BY <2>1, <2>4, <3>1 DEF line
    <3> QED BY <1>5, <2>2, <3>2 DEF DropsFront, Flush, client
  <2> QED BY <1>5, <2>3, <2>4 DEF Flush
<1>6. CASE OriginAnswers \/ UNCHANGED vars
  BY <1>6 DEF DropsFront, line, OriginAnswers, vars, client
<1> QED BY <1>1, <1>2, <1>3, <1>4, <1>5, <1>6 DEF Proxy

LEMMA GoingCutsTheEnd ==
  ASSUME SessionTypes, SessionTypes', ClientGoes
  PROVE  CutsOff
<1>1. /\ taken \in Seq(Unit) /\ buf \in Seq(Unit) /\ wire \in Seq(Unit)
      /\ Len(wire) \in Nat
  BY DEF SessionTypes
<1>2. PICK k \in 0 .. Len(wire) : wire' = SubSeq(wire, 1, k)
  BY DEF ClientGoes
<1> DEFINE b == SubSeq(wire, k + 1, Len(wire))
<1>3. wire' \in Seq(Unit) /\ b \in Seq(Unit)
  <2>1. wire' \in Seq(Unit)
    BY DEF SessionTypes
  <2> QED BY <1>1, <2>1
<1>4. wire = wire' \o b
  <2>1. /\ 1 \in 1 .. Len(wire) + 1 /\ k \in 1 - 1 .. Len(wire)
        /\ Len(wire) \in k .. Len(wire)
    BY <1>1
  <2>2. SubSeq(wire, 1, k) \o SubSeq(wire, k + 1, Len(wire)) = SubSeq(wire, 1, Len(wire))
    BY <1>1, <2>1, ConcatAdjacentSubSeq, Zenon
  <2>3. SubSeq(wire, 1, Len(wire)) = wire
    BY <1>1, SubSeqFull
  <2> QED BY <1>2, <2>2, <2>3, Zenon
<1> HIDE DEF b
<1>5. buf \o wire' \in Seq(Unit)
  BY <1>1, <1>3, ConcatProperties
<1>6. buf \o (wire' \o b) = (buf \o wire') \o b
  <2>1. buf \in Seq(Unit) /\ wire' \in Seq(Unit) /\ b \in Seq(Unit)
    BY <1>1, <1>3
  <2> QED BY ONLY <2>1, Regrouped, Zenon
<1>7. taken \o ((buf \o wire') \o b) = (taken \o (buf \o wire')) \o b
  <2> DEFINE r == buf \o wire'
  <2> HIDE DEF r
  <2>1. r \in Seq(Unit) /\ taken \in Seq(Unit) /\ b \in Seq(Unit)
    BY <1>1, <1>3, <1>5 DEF r
  <2>2. (taken \o r) \o b = taken \o (r \o b)
    BY ONLY <2>1, Regrouped, Zenon
  <2> QED BY <2>2 DEF r
<1>8. line' = taken \o (buf \o wire')
  BY DEF ClientGoes, line
<1>9. line = line' \o b
  BY <1>4, <1>6, <1>7, <1>8, Zenon DEF line
<1> QED BY <1>3, <1>9 DEF CutsOff

LEMMA SendingAddsARequest ==
  ASSUME SessionTypes, ClientSends
  PROVE  Adds
<1>1. /\ taken \in Seq(Unit) /\ buf \in Seq(Unit) /\ wire \in Seq(Unit)
      /\ Len(sent) \in Nat
  BY DEF SessionTypes
<1>2. PICK n \in 0 .. MaxBody, close \in BOOLEAN :
        /\ sent' = Append(sent, [body |-> n, close |-> close])
        /\ wire' = wire \o [k \in 1 .. HeadPieces + n |-> <<Len(sent) + 1, k - 1>>]
  BY DEF ClientSends
<1> DEFINE b == [k \in 1 .. HeadPieces + n |-> <<Len(sent) + 1, k - 1>>]
<1>3. n \in Nat /\ HeadPieces + n \in Nat
  BY SessionAssumption
<1>4. b \in Seq(Unit)
  <2>1. Len(sent) + 1 \in Nat
    BY <1>1
  <2> QED BY <1>3, <2>1 DEF Unit
<1>5. wire' = wire \o b
  BY <1>2
<1> HIDE DEF b
<1>6. buf \o wire \in Seq(Unit)
  BY <1>1, ConcatProperties
<1>7. (buf \o wire) \o b = buf \o (wire \o b)
  <2>1. buf \in Seq(Unit) /\ wire \in Seq(Unit) /\ b \in Seq(Unit)
    BY <1>1, <1>4
  <2> QED BY ONLY <2>1, Regrouped, Zenon
<1>8. (taken \o (buf \o wire)) \o b = taken \o ((buf \o wire) \o b)
  <2> DEFINE r == buf \o wire
  <2> HIDE DEF r
  <2>1. taken \in Seq(Unit) /\ r \in Seq(Unit) /\ b \in Seq(Unit)
    BY <1>1, <1>4, <1>6 DEF r
  <2>2. (taken \o r) \o b = taken \o (r \o b)
    BY ONLY <2>1, Regrouped, Zenon
  <2> QED BY <2>2 DEF r
<1>9. line' = taken \o (buf \o wire')
  BY DEF ClientSends, line
<1>10. line' = line \o b
  BY <1>5, <1>7, <1>8, <1>9 DEF line
<1> QED BY <1>2, <1>3, <1>10 DEF Adds, b

-----------------------------------------------------------------------------

(* What comes before a concatenation comes before its parts ...             *)
LEMMA BeforeTheParts ==
  ASSUME NEW h, NEW a \in Seq(Unit), NEW b \in Seq(Unit), AllBefore(h, a \o b)
  PROVE  AllBefore(h, a) /\ AllBefore(h, b)
<1>1. /\ Len(a) \in Nat /\ Len(b) \in Nat
      /\ Len(a \o b) = Len(a) + Len(b)
      /\ \A p \in 1 .. Len(a) : (a \o b)[p] = a[p]
      /\ \A p \in 1 .. Len(b) : (a \o b)[Len(a) + p] = b[p]
  BY JoinedPositions
<1>2. /\ \A p \in 1 .. Len(a) : p \in 1 .. Len(a \o b)
      /\ \A p \in 1 .. Len(b) : Len(a) + p \in 1 .. Len(a \o b)
  BY <1>1
<1> QED BY <1>1, <1>2 DEF AllBefore

(* ... and the other way round.                                             *)
LEMMA BeforeTheWhole ==
  ASSUME NEW h, NEW a \in Seq(Unit), NEW b \in Seq(Unit),
         AllBefore(h, a), AllBefore(h, b)
  PROVE  AllBefore(h, a \o b)
<1> DEFINE l == a \o b
<1>1. /\ Len(a) \in Nat /\ Len(b) \in Nat
      /\ Len(l) = Len(a) + Len(b)
      /\ \A p \in 1 .. Len(a) : l[p] = a[p]
      /\ \A p \in 1 .. Len(b) : l[Len(a) + p] = b[p]
  BY JoinedPositions
<1> HIDE DEF l
<1>2. ASSUME NEW p \in 1 .. Len(h), NEW q \in 1 .. Len(l)
      PROVE  Before(h[p], l[q])
  <2>1. CASE q <= Len(a)
    BY <1>1, <2>1 DEF AllBefore
  <2>2. CASE q > Len(a)
    <3>1. q - Len(a) \in 1 .. Len(b) /\ Len(a) + (q - Len(a)) = q
      BY <1>1, <2>2
    <3> QED BY <1>1, <3>1 DEF AllBefore
  <2> QED BY <1>1, <2>1, <2>2
<1> QED BY <1>2 DEF AllBefore, l

(* A request more leaves what was contiguous contiguous, and comes behind.  *)
LEMMA OneRequestMore ==
  ASSUME NEW reqs \in Seq(Request), NEW n \in Nat, NEW close \in BOOLEAN
  PROVE  LET new == Append(reqs, [body |-> n, close |-> close])
             b == [k \in 1 .. HeadPieces + n |-> <<Len(reqs) + 1, k - 1>>] IN
         /\ b \in Seq(Unit) /\ Len(b) = HeadPieces + n /\ b # <<>>
         /\ b[1] = <<Len(reqs) + 1, 0>>
         /\ Contiguous(new, b) /\ EndsWithTheLast(new, b)
         /\ \A l \in Seq(Unit) :
              Contiguous(reqs, l) => Contiguous(new, l) /\ AllBefore(l, b)
         /\ \A l \in Seq(Unit) :
              l # <<>> /\ Contiguous(reqs, l) /\ EndsWithTheLast(reqs, l) =>
                FollowsIn(new, l[Len(l)], b[1])
<1> DEFINE new == Append(reqs, [body |-> n, close |-> close])
           b == [k \in 1 .. HeadPieces + n |-> <<Len(reqs) + 1, k - 1>>]
           S == Len(reqs)
<1>1. S \in Nat /\ HeadPieces \in Nat \ {0} /\ HeadPieces + n \in Nat \ {0}
  BY SessionAssumption
<1>2. /\ Len(new) = S + 1 /\ new[S + 1].body = n
      /\ \A i \in 1 .. S : new[i] = reqs[i]
  <2>1. [body |-> n, close |-> close] \in Request
    BY DEF Request
  <2> QED BY <2>1, AppendProperties
<1>3. /\ b \in Seq(Unit) /\ Len(b) = HeadPieces + n /\ b # <<>>
      /\ \A k \in 1 .. HeadPieces + n : b[k] = <<S + 1, k - 1>>
  <2>1. S + 1 \in Nat
    BY <1>1
  <2>2. b \in Seq(Unit) /\ Len(b) = HeadPieces + n
    BY <1>1, <2>1 DEF Unit
  <2> QED BY <1>1, <2>2
<1> HIDE DEF new, b, S
<1>4. b[1] = <<S + 1, 0>>
  <2>1. 1 \in 1 .. HeadPieces + n /\ 1 - 1 = 0
    BY <1>1
  <2> QED BY <1>3, <2>1
<1>a. SizeIn(new, S + 1) = HeadPieces + n
  BY <1>2 DEF SizeIn
<1>b. \A i \in 1 .. S : SizeIn(new, i) = SizeIn(reqs, i)
  BY <1>2 DEF SizeIn
<1>c. \A k \in 1 .. HeadPieces + n : b[k][1] = S + 1 /\ b[k][2] = k - 1
  BY <1>3
<1>5. Contiguous(new, b)
  <2>1. ASSUME NEW k \in 1 .. HeadPieces + n
        PROVE  IsUnitOf(new, b[k])
    <3>1. S + 1 \in 1 .. S + 1 /\ k - 1 \in 0 .. HeadPieces + n - 1
      BY <1>1
    <3>2. b[k][1] = S + 1 /\ b[k][2] = k - 1
      BY <1>c
    <3>3. SizeIn(new, b[k][1]) = HeadPieces + n
      BY <1>a, <3>2
    <3>4. b[k][1] \in 1 .. Len(new)
      <4>1. Len(new) = S + 1
        BY <1>2
      <4> QED BY <3>1, <3>2, <4>1
    <3>5. b[k][2] \in 0 .. SizeIn(new, b[k][1]) - 1
      BY <1>1, <3>1, <3>2, <3>3
    <3> QED BY <3>4, <3>5 DEF IsUnitOf
  <2>2. ASSUME NEW k \in 1 .. HeadPieces + n, NEW m \in 1 .. HeadPieces + n, k < m
        PROVE  Before(b[k], b[m])
    <3>1. k - 1 < m - 1
      BY <2>2
    <3> QED BY <1>c, <3>1 DEF Before
  <2>3. ASSUME NEW k \in 1 .. HeadPieces + n - 1
        PROVE  FollowsIn(new, b[k], b[k + 1])
    <3>1. /\ k \in 1 .. HeadPieces + n /\ k + 1 \in 1 .. HeadPieces + n
          /\ (k + 1) - 1 = (k - 1) + 1
      BY <1>1
    <3> QED BY <1>c, <3>1 DEF FollowsIn
  <2>4. /\ \A k \in 1 .. Len(b) : IsUnitOf(new, b[k])
        /\ \A k, m \in 1 .. Len(b) : k < m => Before(b[k], b[m])
        /\ \A k \in 1 .. Len(b) - 1 : FollowsIn(new, b[k], b[k + 1])
    <3>1. Len(b) = HeadPieces + n
      BY <1>3
    <3>2. \A k \in 1 .. Len(b) : IsUnitOf(new, b[k])
      BY <2>1, <3>1
    <3>3. \A k, m \in 1 .. Len(b) : k < m => Before(b[k], b[m])
      BY <2>2, <3>1
    <3>4. ASSUME NEW k \in 1 .. Len(b) - 1
          PROVE  FollowsIn(new, b[k], b[k + 1])
      <4>1. k \in 1 .. HeadPieces + n - 1
        BY <1>1, <3>1
      <4> QED BY <2>3, <4>1
    <3> QED BY <3>2, <3>3, <3>4
  <2> QED BY <2>4 DEF Contiguous
<1>6. EndsWithTheLast(new, b)
  <2>1. HeadPieces + n \in 1 .. HeadPieces + n
    BY <1>1
  <2> QED BY <1>2, <1>3, <1>a, <1>c, <2>1 DEF EndsWithTheLast
<1>7. ASSUME NEW l \in Seq(Unit), Contiguous(reqs, l)
      PROVE  Contiguous(new, l) /\ AllBefore(l, b)
  <2>1. \A p \in 1 .. Len(l) : /\ l[p][1] \in 1 .. S
                               /\ l[p][2] \in 0 .. SizeIn(reqs, l[p][1]) - 1
    BY <1>7 DEF Contiguous, IsUnitOf, S
  <2>2. \A p \in 1 .. Len(l) : IsUnitOf(new, l[p])
    <3>1. \A i \in 1 .. S : i \in 1 .. S + 1
      BY <1>1
    <3> QED BY <1>2, <1>b, <2>1, <3>1 DEF IsUnitOf
  <2>3. ASSUME NEW p \in 1 .. Len(l) - 1
        PROVE  FollowsIn(new, l[p], l[p + 1])
    <3>1. p \in 1 .. Len(l)
      OBVIOUS
    <3>2. FollowsIn(reqs, l[p], l[p + 1]) /\ SizeIn(new, l[p][1]) = SizeIn(reqs, l[p][1])
      BY <1>7, <1>b, <2>1, <3>1 DEF Contiguous
    <3> QED BY <3>2 DEF FollowsIn
  <2>4. ASSUME NEW p \in 1 .. Len(l), NEW q \in 1 .. Len(b)
        PROVE  Before(l[p], b[q])
    <3>1. l[p][1] < S + 1 /\ b[q][1] = S + 1
      BY <1>1, <1>3, <1>c, <2>1
    <3> QED BY <3>1 DEF Before
  <2> QED BY <1>7, <2>2, <2>3, <2>4 DEF Contiguous, AllBefore
<1>8. ASSUME NEW l \in Seq(Unit), l # <<>>, Contiguous(reqs, l), EndsWithTheLast(reqs, l)
      PROVE  FollowsIn(new, l[Len(l)], b[1])
  <2>1. Len(l) \in 1 .. Len(l)
    BY <1>8
  <2>2. l[Len(l)][1] = S /\ l[Len(l)][2] = SizeIn(reqs, S) - 1 /\ S \in 1 .. S
    BY <1>8, <2>1 DEF EndsWithTheLast, Contiguous, IsUnitOf, S
  <2> QED BY <1>4, <1>b, <2>2 DEF FollowsIn
<1> QED BY <1>3, <1>4, <1>5, <1>6, <1>7, <1>8 DEF new, b, S

(* The three ways of a step.                                                *)
LEMMA StepMovesTheLine ==
  ASSUME SessionInv, SessionTypes', [Next]_vars
  PROVE  \/ DropsFront /\ sent' = sent /\ clientOpen' = clientOpen
         \/ CutsOff /\ sent' = sent /\ ~clientOpen'
         \/ Adds /\ clientOpen /\ clientOpen'
<1>1. SessionTypes /\ InHand
  BY DEF SessionInv
<1>2. CASE Proxy \/ OriginAnswers \/ UNCHANGED vars
  BY <1>1, <1>2, LoopDropsTheFront
<1>3. CASE ClientGoes
  BY <1>1, <1>3, GoingCutsTheEnd DEF ClientGoes
<1>4. CASE ClientSends
  BY <1>1, <1>4, SendingAddsARequest DEF ClientSends
<1> QED BY <1>2, <1>3, <1>4 DEF Next

LEMMA LineIsASequence == SessionTypes => line \in Seq(Unit)
<1> SUFFICES ASSUME SessionTypes PROVE line \in Seq(Unit)
  OBVIOUS
<1>1. taken \in Seq(Unit) /\ buf \in Seq(Unit) /\ wire \in Seq(Unit)
  BY DEF SessionTypes
<1>2. buf \o wire \in Seq(Unit)
  BY <1>1, ConcatProperties
<1> QED BY <1>1, <1>2, ConcatProperties DEF line

(* The line stays contiguous and, while the client is there, complete; and  *)
(* what comes before it, of the pieces that were sent, still does.          *)
LEMMA LineStaysContiguous ==
  ASSUME SessionInv, SessionTypes', [Next]_vars
  PROVE  /\ LineIsContiguous'
         /\ \A h \in Seq(Unit) :
              Contiguous(sent, h) => /\ Contiguous(sent', h)
                                     /\ AllBefore(h, line) => AllBefore(h, line')
<1>0. SessionTypes /\ LineIsContiguous
  BY DEF SessionInv
<1>a. line \in Seq(Unit) /\ line' \in Seq(Unit)
  <2>1. line \in Seq(Unit)
    BY <1>0, LineIsASequence
  <2>2. (line \in Seq(Unit))'
    BY LineIsASequence, PTL
  <2> QED BY <2>1, <2>2
<1>b. /\ taken \in Seq(Unit) /\ buf \in Seq(Unit) /\ sent \in Seq(Request)
      /\ clientOpen \in BOOLEAN
  BY <1>0 DEF SessionTypes
<1>c. Contiguous(sent, line) /\ (clientOpen => EndsWithTheLast(sent, line))
  BY <1>0 DEF LineIsContiguous
<1>1. ASSUME NEW a \in Seq(Unit), line = a \o line', sent' = sent,
             clientOpen' = clientOpen
      PROVE  /\ LineIsContiguous'
             /\ \A h \in Seq(Unit) : AllBefore(h, line) => AllBefore(h, line')
  <2>1. Contiguous(sent, a \o line')
    BY <1>c, <1>1
  <2>2. /\ Contiguous(sent, line')
        /\ EndsWithTheLast(sent, a \o line') => EndsWithTheLast(sent, line')
    BY <1>a, <1>1, <2>1, PartsAreContiguous
  <2>3. clientOpen => EndsWithTheLast(sent, a \o line')
    BY <1>c, <1>1
  <2>4. \A h \in Seq(Unit) : AllBefore(h, a \o line') => AllBefore(h, line')
    BY <1>a, <1>1, BeforeTheParts
  <2>5. LineIsContiguous'
    BY <1>1, <2>2, <2>3 DEF LineIsContiguous
  <2>6. \A h \in Seq(Unit) : AllBefore(h, line) => AllBefore(h, line')
    BY <1>1, <2>4
  <2> QED BY <2>5, <2>6
<1>2. CASE DropsFront /\ sent' = sent /\ clientOpen' = clientOpen
  <2>1. CASE line' = line
    BY <1>c, <1>2, <2>1 DEF LineIsContiguous
  <2>2. CASE line = taken \o line'
    BY <1>1, <1>2, <1>b, <2>2
  <2>3. CASE line = buf \o line'
    BY <1>1, <1>2, <1>b, <2>3
  <2> QED BY <1>2, <2>1, <2>2, <2>3 DEF DropsFront
<1>3. CASE CutsOff /\ sent' = sent /\ ~clientOpen'
  <2>1. PICK b \in Seq(Unit) : line = line' \o b
    BY <1>3 DEF CutsOff
  <2>2. Contiguous(sent, line' \o b)
    BY <1>c, <2>1
  <2>3. Contiguous(sent, line')
    BY <1>a, <2>2, PartsAreContiguous
  <2>4. \A h \in Seq(Unit) : AllBefore(h, line' \o b) => AllBefore(h, line')
    BY <1>a, BeforeTheParts
  <2>5. LineIsContiguous'
    BY <1>3, <2>3 DEF LineIsContiguous
  <2>6. \A h \in Seq(Unit) : AllBefore(h, line) => AllBefore(h, line')
    BY <2>1, <2>4
  <2> QED BY <1>3, <2>5, <2>6
<1>4. CASE Adds /\ clientOpen /\ clientOpen'
  <2>1. PICK n \in Nat, close \in BOOLEAN :
          /\ sent' = Append(sent, [body |-> n, close |-> close])
          /\ line' = line \o [k \in 1 .. HeadPieces + n |-> <<Len(sent) + 1, k - 1>>]
    BY <1>4 DEF Adds
  <2> DEFINE b == [k \in 1 .. HeadPieces + n |-> <<Len(sent) + 1, k - 1>>]
  <2>2. /\ b \in Seq(Unit) /\ b # <<>>
        /\ Contiguous(sent', b) /\ EndsWithTheLast(sent', b)
        /\ \A l \in Seq(Unit) :
             Contiguous(sent, l) => Contiguous(sent', l) /\ AllBefore(l, b)
        /\ \A l \in Seq(Unit) :
             l # <<>> /\ Contiguous(sent, l) /\ EndsWithTheLast(sent, l) =>
               FollowsIn(sent', l[Len(l)], b[1])
    BY <1>b, <2>1, OneRequestMore
  <2> HIDE DEF b
  <2>3. line' = line \o b
    BY <2>1 DEF b
  <2>4. /\ Contiguous(sent', line) /\ AllBefore(line, b)
        /\ line # <<>> => FollowsIn(sent', line[Len(line)], b[1])
    BY <1>4, <1>a, <1>c, <2>2
  <2>5. Contiguous(sent', line \o b)
    BY <1>a, <2>2, <2>4, JoinedIsContiguous
  <2>6. EndsWithTheLast(sent', line \o b)
    <3>1. /\ Len(line \o b) = Len(line) + Len(b)
          /\ Len(b) \in 1 .. Len(b) /\ (line \o b)[Len(line) + Len(b)] = b[Len(b)]
      BY <1>a, <2>2, JoinedPositions
    <3> QED BY <2>2, <3>1 DEF EndsWithTheLast
  <2>7. \A h \in Seq(Unit) :
          AllBefore(h, line) /\ AllBefore(h, b) => AllBefore(h, line \o b)
    BY <1>a, <2>2, BeforeTheWhole
  <2>8. LineIsContiguous'
    BY <2>3, <2>5, <2>6 DEF LineIsContiguous
  <2> QED BY <2>2, <2>3, <2>7, <2>8
<1> QED BY <1>2, <1>3, <1>4, StepMovesTheLine

(* The requests that were sent stay as they are.                            *)
LEMMA SentStays ==
  ASSUME SessionTypes, [Next]_vars
  PROVE  /\ Len(sent) \in Nat /\ sent' \in Seq(Request)
         /\ \A i \in 1 .. Len(sent) :
              /\ sent'[i] = sent[i] /\ SizeIn(sent, i) \in Nat \ {0}
              /\ SizeIn(sent', i) = SizeIn(sent, i)
              /\ PiecesIn(sent', i) = PiecesIn(sent, i)
         /\ clientOpen' => clientOpen
<1>1. sent \in Seq(Request) /\ Len(sent) \in Nat /\ clientOpen \in BOOLEAN
  BY DEF SessionTypes
<1>2. \/ sent' = sent
      \/ \E r \in Request : sent' = Append(sent, r)
  <2>1. CASE ClientSends
    <3>1. PICK n \in 0 .. MaxBody, close \in BOOLEAN :
            sent' = Append(sent, [body |-> n, close |-> close])
      BY <2>1 DEF ClientSends
    <3>2. [body |-> n, close |-> close] \in Request
      BY SessionAssumption DEF Request
    <3> QED BY <3>1, <3>2
  <2>2. CASE ~ClientSends
    BY <2>2 DEF Next, Proxy, Fill, ReadRequest, ReadRequestFails, ReadOn, ServeRelayed,
                OriginAnswers, Flush, ClientGoes, vars, client
  <2> QED BY <2>1, <2>2
<1>3. sent' \in Seq(Request) /\ \A i \in 1 .. Len(sent) : sent'[i] = sent[i]
  BY <1>1, <1>2
<1>4. \A i \in 1 .. Len(sent) : SizeIn(sent, i) \in Nat \ {0}
  <2>1. \A i \in 1 .. Len(sent) : sent[i] \in Request
    BY <1>1
  <2> QED BY <2>1, SessionAssumption DEF SizeIn, Request
<1>5. clientOpen' => clientOpen
  BY <1>1 DEF Next, Proxy, Fill, ReadRequest, ReadRequestFails, ReadOn, ServeRelayed,
         OriginAnswers, Flush, ClientSends, ClientGoes, vars, client
<1> QED BY <1>1, <1>3, <1>4, <1>5 DEF SizeIn, PiecesIn

(* A request in hand keeps to its framing.                                  *)
LEMMA InHandStays ==
  ASSUME SessionInv, SessionTypes', [Next]_vars
  PROVE  InHand'
<1> SUFFICES ASSUME taken' # <<>>
             PROVE  /\ pc' = "read"
                    /\ Len(taken') <= req'.size
                    /\ ~Stray(taken') =>
                         /\ req'.size = SizeIn(sent', taken'[1][1])
                         /\ \A p \in 1 .. Len(taken') :
                              taken'[p] = <<taken'[1][1], p - 1>>
  BY DEF InHand, Stray
<1>0. SessionTypes /\ LineIsContiguous /\ InHand /\ taken \in Seq(Unit)
  BY DEF SessionInv, SessionTypes
<1>a. \A i \in 1 .. Len(sent) : /\ SizeIn(sent, i) \in Nat \ {0}
                                /\ SizeIn(sent', i) = SizeIn(sent, i)
  BY <1>0, SentStays
<1>1. CASE ReadRequest
  <2>1. /\ Head(buf) = buf[1] /\ buf[1] \in Unit /\ IsUnitOf(sent, buf[1])
        /\ pc' = "read" /\ taken' = <<Head(buf)>> /\ sent' = sent
        /\ req' \in Framings(Head(buf))
    BY <1>0, <1>1, NextPieceWasSent DEF ReadRequest, client
  <2>2. Len(taken') = 1 /\ taken'[1] = buf[1]
    BY <2>1
  <2>3. buf[1][1] \in 1 .. Len(sent)
    BY <2>1 DEF IsUnitOf
  <2>4. CASE buf[1][2] = 0
    <3>1. req'.size = SizeIn(sent, buf[1][1])
      BY <2>1, <2>4 DEF Framings, Size, SizeIn
    <3>2. SizeIn(sent, buf[1][1]) \in Nat \ {0}
      BY <1>a, <2>3
    <3>3. buf[1] = <<buf[1][1], 1 - 1>>
      BY <2>1, <2>4 DEF Unit
    <3> QED BY <2>1, <2>2, <3>1, <3>2, <3>3
  <2>5. CASE buf[1][2] # 0
    <3>1. req'.size \in 1 .. MaxStray
      BY <2>1, <2>5 DEF Framings
    <3> QED BY <2>1, <2>2, <2>5, <3>1, SessionAssumption DEF Stray
  <2> QED BY <2>4, <2>5
<1>2. CASE ReadOn
  <2>1. /\ taken # <<>> /\ pc = "read" /\ Len(taken) < req.size /\ req' = req
        /\ buf # <<>> /\ taken' = Append(taken, Head(buf)) /\ pc' = pc /\ sent' = sent
    BY <1>2 DEF ReadOn, Wanting, client
  <2>2. /\ Head(buf) = buf[1] /\ buf[1] \in Unit
        /\ FollowsIn(sent, taken[Len(taken)], buf[1])
    BY <1>0, <2>1, NextPieceWasSent
  <2>3. /\ Len(taken) \in Nat \ {0} /\ Len(taken') = Len(taken) + 1
        /\ taken'[Len(taken) + 1] = buf[1]
        /\ \A p \in 1 .. Len(taken) : taken'[p] = taken[p]
    BY <1>0, <2>1, <2>2
  <2>4. taken'[1] = taken[1]
    BY <2>3
  <2>5. req.size \in Nat
    BY <1>0 DEF SessionTypes
  <2>6. Len(taken') <= req'.size
    BY <2>1, <2>3, <2>5
  <2>7. ASSUME ~Stray(taken')
        PROVE  /\ req'.size = SizeIn(sent', taken'[1][1])
               /\ \A p \in 1 .. Len(taken') : taken'[p] = <<taken'[1][1], p - 1>>
    <3>1. ~Stray(taken)
      BY <2>4, <2>7 DEF Stray
    <3>2. /\ req.size = SizeIn(sent, taken[1][1])
          /\ \A p \in 1 .. Len(taken) : taken[p] = <<taken[1][1], p - 1>>
      BY <1>0, <2>1, <3>1 DEF InHand
    <3> DEFINE j == taken[1][1]
    <3>3. taken[Len(taken)][1] = j /\ taken[Len(taken)][2] = Len(taken) - 1
      <4>1. Len(taken) \in 1 .. Len(taken)
        BY <2>3
      <4>2. taken[Len(taken)] = <<j, Len(taken) - 1>>
        BY <3>2, <4>1
      <4> HIDE DEF j
      <4> QED BY <4>2
    <3> HIDE DEF j
    <3>4. Len(taken) - 1 # SizeIn(sent, j) - 1
      BY <2>1, <2>3, <2>5, <3>2 DEF j
    <3>5. buf[1][1] = j /\ buf[1][2] = Len(taken) - 1 + 1
      BY <2>2, <3>3, <3>4 DEF FollowsIn
    <3>6. buf[1] = <<j, Len(taken) + 1 - 1>>
      <4>1. Len(taken) - 1 + 1 = Len(taken) + 1 - 1
        BY <2>3
      <4> QED BY <2>2, <3>5, <4>1 DEF Unit
    <3>7. \A p \in 1 .. Len(taken') : p \in 1 .. Len(taken) \/ p = Len(taken) + 1
      BY <2>3
    <3>8. \A p \in 1 .. Len(taken') : taken'[p] = <<j, p - 1>>
      BY <2>3, <3>2, <3>6, <3>7 DEF j
    <3> QED BY <2>1, <2>4, <3>2, <3>8 DEF j
  <2> QED BY <2>1, <2>6, <2>7
<1>3. CASE ~ReadRequest /\ ~ReadOn
  <2>1. taken' = taken /\ req' = req /\ pc' = pc
    BY <1>0, <1>3 DEF InHand, Next, Proxy, Fill, ReadRequestFails, ServeRelayed,
                OriginAnswers, Flush, ClientSends, ClientGoes, vars, client
  <2>2. ASSUME ~Stray(taken)
        PROVE  SizeIn(sent', taken[1][1]) = SizeIn(sent, taken[1][1])
    <3>1. /\ taken \in Seq(Unit) /\ buf \o wire \in Seq(Unit)
          /\ Contiguous(sent, taken \o (buf \o wire))
      <4>1. buf \in Seq(Unit) /\ wire \in Seq(Unit)
        BY <1>0 DEF SessionTypes
      <4>2. buf \o wire \in Seq(Unit)
        BY <4>1, ConcatProperties
      <4> QED BY <1>0, <4>2 DEF LineIsContiguous, line
    <3>2. Contiguous(sent, taken)
      BY <3>1, PartsAreContiguous
    <3>3. 1 \in 1 .. Len(taken)
      BY <1>0, <2>1
    <3>4. taken[1][1] \in 1 .. Len(sent)
      BY <3>2, <3>3 DEF Contiguous, IsUnitOf
    <3> QED BY <1>a, <3>4
  <2>3. taken # <<>>
    BY <2>1
  <2> QED BY <1>0, <2>1, <2>2, <2>3 DEF InHand, Stray
<1> QED BY <1>1, <1>2, <1>3

(* serveRelayed leaves behind what was not taken for the request.           *)
LEMMA ServingLeavesTheRest ==
  ASSUME SessionTypes, LineIsContiguous, ServeRelayed
  PROVE  /\ line' = buf \o wire /\ buf \o wire \in Seq(Unit)
         /\ line = taken \o line'
         /\ Contiguous(sent, taken) /\ AllBefore(taken, line')
         /\ line' # <<>> => FollowsIn(sent, taken[Len(taken)], line'[1])
<1>1. /\ taken \in Seq(Unit) /\ buf \o wire \in Seq(Unit)
      /\ Contiguous(sent, taken \o (buf \o wire))
  <2>1. buf \in Seq(Unit) /\ wire \in Seq(Unit)
    BY DEF SessionTypes
  <2>2. buf \o wire \in Seq(Unit)
    BY <2>1, ConcatProperties
  <2> QED BY <2>2 DEF LineIsContiguous, line, SessionTypes
<1>2. line' = buf \o wire
  <2>1. <<>> \o (buf \o wire) = buf \o wire
    BY <1>1, ConcatEmptySeq
  <2> QED BY <2>1 DEF line, ServeRelayed
<1>3. taken # <<>>
  BY DEF ServeRelayed
<1> DEFINE b == buf \o wire
<1> HIDE DEF b
<1>4. b \in Seq(Unit) /\ Contiguous(sent, taken \o b)
  BY <1>1 DEF b
<1>5. /\ Contiguous(sent, taken) /\ AllBefore(taken, b)
      /\ taken # <<>> /\ b # <<>> => FollowsIn(sent, taken[Len(taken)], b[1])
  BY <1>1, <1>4, PartsAreContiguous
<1> QED BY <1>1, <1>2, <1>3, <1>5 DEF b, line

(* What is relayed are runs of pieces, each behind the ones before.         *)
LEMMA RunsStayInOrder ==
  ASSUME SessionInv, SessionTypes', [Next]_vars
  PROVE  HandledRuns'
<1>0. /\ SessionTypes /\ LineIsContiguous /\ HandledRuns
      /\ handled \in Seq(Seq(Unit)) /\ taken \in Seq(Unit) /\ Len(handled) \in Nat
  BY DEF SessionInv, SessionTypes
<1>1. \A h \in Seq(Unit) :
        Contiguous(sent, h) => /\ Contiguous(sent', h)
                               /\ AllBefore(h, line) => AllBefore(h, line')
  BY LineStaysContiguous
<1>2. \A i \in 1 .. Len(handled) :
        /\ handled[i] \in Seq(Unit) /\ handled[i] # <<>>
        /\ Contiguous(sent', handled[i]) /\ AllBefore(handled[i], line')
  BY <1>0, <1>1 DEF HandledRuns
<1>3. \A i, j \in 1 .. Len(handled) : i < j => AllBefore(handled[i], handled[j])
  BY <1>0 DEF HandledRuns
<1>4. CASE ServeRelayed
  <2>1. /\ handled' = Append(handled, taken) /\ taken # <<>> /\ sent' = sent
    BY <1>4 DEF ServeRelayed, client
  <2>2. /\ line = taken \o line' /\ line' \in Seq(Unit)
        /\ Contiguous(sent, taken) /\ AllBefore(taken, line')
    BY <1>0, <1>4, ServingLeavesTheRest
  <2>3. /\ Len(handled') = Len(handled) + 1 /\ handled'[Len(handled) + 1] = taken
        /\ \A i \in 1 .. Len(handled) : handled'[i] = handled[i]
    BY <1>0, <2>1
  <2>4. \A i \in 1 .. Len(handled') : i \in 1 .. Len(handled) \/ i = Len(handled) + 1
    BY <1>0, <2>3
  <2>5. ASSUME NEW i \in 1 .. Len(handled)
        PROVE  AllBefore(handled[i], taken)
    <3>1. AllBefore(handled[i], taken \o line')
      BY <1>0, <2>2 DEF HandledRuns
    <3>2. handled[i] \in Seq(Unit)
      BY <1>2
    <3> QED BY <1>0, <2>2, <3>1, <3>2, BeforeTheParts
  <2>6. \A i \in 1 .. Len(handled') :
          /\ handled'[i] # <<>> /\ Contiguous(sent', handled'[i])
          /\ AllBefore(handled'[i], line')
    BY <1>2, <2>1, <2>2, <2>3, <2>4
  <2>7. ASSUME NEW i \in 1 .. Len(handled'), NEW j \in 1 .. Len(handled'), i < j
        PROVE  AllBefore(handled'[i], handled'[j])
    <3>1. i \in 1 .. Len(handled)
      BY <1>0, <2>3, <2>7
    <3> QED BY <1>3, <2>3, <2>4, <2>5, <2>7, <3>1
  <2> QED BY <2>6, <2>7 DEF HandledRuns
<1>5. CASE ~ServeRelayed
  <2>1. handled' = handled
    BY <1>5 DEF Next, Proxy, Fill, ReadRequest, ReadRequestFails, ReadOn,
                OriginAnswers, Flush, ClientSends, ClientGoes, vars, client
  <2> QED BY <1>2, <1>3, <2>1 DEF HandledRuns
<1> QED BY <1>4, <1>5

(* A line that has run out does not fill again when the client has gone.    *)
LEMMA EmptyLineStaysEmpty ==
  ASSUME SessionInv, SessionTypes', [Next]_vars, line = <<>>, ~clientOpen
  PROVE  line' = <<>>
<1>1. /\ line' \in Seq(Unit) /\ Len(line') \in Nat
      /\ taken \in Seq(Unit) /\ buf \in Seq(Unit)
  <2>1. (line \in Seq(Unit))'
    BY LineIsASequence, PTL
  <2> QED BY <2>1 DEF SessionInv, SessionTypes
<1>2. \A a, b \in Seq(Unit) : a \o b = <<>> => a = <<>> /\ b = <<>>
  BY ConcatEqualIffEmpty
<1>3. DropsFront \/ CutsOff
  BY StepMovesTheLine
<1> QED BY <1>1, <1>2, <1>3 DEF DropsFront, CutsOff

(* A request that was read from its beginning has its own pieces, all of    *)
(* them or the first ones.                                                  *)
LEMMA TakenIsOwn ==
  ASSUME SessionTypes, LineIsContiguous, InHand, ServeRelayed, ~Stray(taken)
  PROVE  /\ IsOwnIn(sent, clientOpen, taken)
         /\ taken # PiecesIn(sent, taken[1][1]) => Ended
<1> DEFINE j == taken[1][1]
           own == PiecesIn(sent, j)
<1>1. /\ taken # <<>> /\ taken \in Seq(Unit) /\ Len(taken) \in Nat \ {0}
      /\ Len(taken) <= req.size /\ req.size = SizeIn(sent, j)
      /\ \A p \in 1 .. Len(taken) : taken[p] = <<j, p - 1>>
      /\ Wanting => Ended
      /\ pc = "read"
  BY DEF ServeRelayed, InHand, SessionTypes
<1>2. j \in 1 .. Len(sent) /\ j \in Nat
  <2>1. Contiguous(sent, taken) /\ 1 \in 1 .. Len(taken)
    BY <1>1, ServingLeavesTheRest
  <2>2. j \in 1 .. Len(sent)
    BY <2>1 DEF Contiguous, IsUnitOf
  <2> QED BY <2>2 DEF SessionTypes
<1> HIDE DEF j
<1>3. SizeIn(sent, j) \in Nat
  <2>1. sent[j] \in Request
    BY <1>2 DEF SessionTypes
  <2> QED BY <2>1, SessionAssumption DEF SizeIn, Request
<1>4. /\ own \in Seq(Unit) /\ Len(own) = SizeIn(sent, j)
      /\ \A p \in 1 .. SizeIn(sent, j) : own[p] = <<j, p - 1>>
  <2> DEFINE n == SizeIn(sent, j)
             q == [k \in 1 .. n |-> <<j, k - 1>>]
  <2>1. own = q
    BY DEF PiecesIn
  <2>0. n \in Nat
    BY <1>3
  <2> HIDE DEF own, n
  <2>2. q \in Seq(Unit) /\ Len(q) = n /\ \A p \in 1 .. n : q[p] = <<j, p - 1>>
    BY <1>2, <2>0 DEF Unit
  <2> HIDE DEF q
  <2> QED BY <2>1, <2>2 DEF n
<1> HIDE DEF own
<1>5. \A p \in 1 .. Len(taken) : p \in 1 .. SizeIn(sent, j) /\ taken[p] = own[p]
  <2>1. \A p \in 1 .. Len(taken) : p \in 1 .. SizeIn(sent, j)
    BY <1>1, <1>3
  <2> QED BY <1>1, <1>4, <2>1
<1>6. CASE Len(taken) = req.size
  <2>1. taken = own
    BY <1>1, <1>4, <1>5, <1>6, SeqEqual
  <2> QED BY <2>1 DEF IsOwnIn, own, j
<1>7. CASE Len(taken) # req.size
  <2>1. Ended /\ ~clientOpen
    <3>1. Len(taken) < req.size
      BY <1>1, <1>3, <1>7
    <3> QED BY <1>1, <3>1 DEF Wanting, Ended
  <2>2. SubSeq(taken, 1, Len(taken)) = SubSeq(own, 1, Len(taken))
    <3>1. /\ SubSeq(taken, 1, Len(taken)) = [p \in 1 .. Len(taken) |-> taken[p]]
          /\ SubSeq(own, 1, Len(taken)) = [p \in 1 .. Len(taken) |-> own[p]]
      BY <1>1, <1>3, <1>4
    <3> QED BY <1>5, <3>1
  <2>3. IsPrefix(taken, own)
    BY <1>1, <1>4, <2>2 DEF IsPrefix
  <2> QED BY <2>1, <2>3 DEF IsOwnIn, own, j
<1> QED BY <1>6, <1>7

(* Whatever was relayed from its beginning stays the client's own, and the  *)
(* last when it is short.                                                   *)
LEMMA OwnStaysOwn ==
  ASSUME SessionInv, SessionTypes', [Next]_vars
  PROVE  HandledOwn'
<1> SUFFICES ASSUME NEW i \in 1 .. Len(handled'), ~Stray(handled'[i])
             PROVE  /\ IsOwnIn(sent', clientOpen', handled'[i])
                    /\ handled'[i] # PiecesIn(sent', handled'[i][1][1]) =>
                         i = Len(handled') /\ line' = <<>> /\ ~clientOpen'
  BY DEF HandledOwn, Stray
<1>0. /\ SessionTypes /\ LineIsContiguous /\ InHand /\ HandledRuns /\ HandledOwn
      /\ handled \in Seq(Seq(Unit)) /\ taken \in Seq(Unit) /\ Len(handled) \in Nat
  BY DEF SessionInv, SessionTypes
<1>a. /\ \A j \in 1 .. Len(sent) : PiecesIn(sent', j) = PiecesIn(sent, j)
      /\ clientOpen' => clientOpen
  BY <1>0, SentStays
<1>b. ASSUME NEW k \in 1 .. Len(handled)
      PROVE  PiecesIn(sent', handled[k][1][1]) = PiecesIn(sent, handled[k][1][1])
  <2>1. Contiguous(sent, handled[k]) /\ handled[k] # <<>> /\ handled[k] \in Seq(Unit)
    BY <1>0 DEF HandledRuns
  <2>2. 1 \in 1 .. Len(handled[k])
    BY <2>1
  <2>3. handled[k][1][1] \in 1 .. Len(sent)
    BY <2>1, <2>2 DEF Contiguous, IsUnitOf
  <2> QED BY <1>a, <2>3
<1>1. CASE ServeRelayed
  <2>1. /\ handled' = Append(handled, taken) /\ taken # <<>> /\ sent' = sent
        /\ clientOpen' = clientOpen /\ buf' = buf /\ wire' = wire /\ taken' = <<>>
    BY <1>1 DEF ServeRelayed, client
  <2>2. /\ Len(handled') = Len(handled) + 1 /\ handled'[Len(handled) + 1] = taken
        /\ \A k \in 1 .. Len(handled) : handled'[k] = handled[k]
    BY <1>0, <2>1
  <2>3. CASE i \in 1 .. Len(handled)
    <3>1. line # <<>>
      <4>1. line = taken \o line' /\ line' \in Seq(Unit)
        BY <1>0, <1>1, ServingLeavesTheRest
      <4> QED BY <1>0, <2>1, <4>1, ConcatEqualIffEmpty
    <3>2. handled'[i] = handled[i] /\ ~Stray(handled[i])
      BY <2>2, <2>3 DEF Stray
    <3>3. handled[i] = PiecesIn(sent, handled[i][1][1])
      BY <1>0, <2>3, <3>1, <3>2 DEF HandledOwn
    <3> QED BY <2>1, <3>2, <3>3 DEF IsOwnIn
  <2>4. CASE i = Len(handled) + 1
    <3>1. handled'[i] = taken /\ ~Stray(taken)
      BY <2>2, <2>4 DEF Stray
    <3>2. /\ IsOwnIn(sent, clientOpen, taken)
          /\ taken # PiecesIn(sent, taken[1][1]) => Ended
      BY <1>0, <1>1, <3>1, TakenIsOwn
    <3>3. Ended => line' = <<>> /\ ~clientOpen'
      <4>1. <<>> \o <<>> = <<>>
        <5>1. <<>> \in Seq(Unit)
          BY EmptySeq
        <5> QED BY <5>1, ConcatEmptySeq
      <4>2. line' = taken' \o (buf' \o wire')
        BY DEF line
      <4> QED BY <2>1, <4>1, <4>2 DEF Ended
    <3> QED BY <2>1, <2>2, <2>4, <3>1, <3>2, <3>3
  <2> QED BY <1>0, <2>2, <2>3, <2>4
<1>2. CASE ~ServeRelayed
  <2>1. handled' = handled
    BY <1>2 DEF Next, Proxy, Fill, ReadRequest, ReadRequestFails, ReadOn,
                OriginAnswers, Flush, ClientSends, ClientGoes, vars, client
  <2>2. /\ i \in 1 .. Len(handled) /\ handled'[i] = handled[i] /\ ~Stray(handled[i])
    BY <2>1 DEF Stray
  <2>3. /\ IsOwnIn(sent, clientOpen, handled[i])
        /\ handled[i] # PiecesIn(sent, handled[i][1][1]) =>
             i = Len(handled) /\ line = <<>> /\ ~clientOpen
    BY <1>0, <2>2 DEF HandledOwn
  <2>4. PiecesIn(sent', handled[i][1][1]) = PiecesIn(sent, handled[i][1][1])
    BY <1>b, <2>2
  <2>5. IsOwnIn(sent', clientOpen', handled[i])
    BY <1>a, <2>3, <2>4 DEF IsOwnIn
  <2>6. line = <<>> /\ ~clientOpen => line' = <<>> /\ ~clientOpen'
    BY <1>a, EmptyLineStaysEmpty
  <2> QED BY <2>1, <2>2, <2>3, <2>4, <2>5, <2>6
<1> QED BY <1>1, <1>2

(* Answers go out one by one, behind the requests they are for.             *)
LEMMA AnswersStayBehind ==
  ASSUME SessionInv, SessionTypes', [Next]_vars
  PROVE  AnswersFollow'
<1>0. /\ AnswersFollow
      /\ handled \in Seq(Seq(Unit)) /\ Len(handled) \in Nat
      /\ answers \in Seq(Seq(Unit)) /\ Len(answers) \in Nat
      /\ taken \in Seq(Unit) /\ clientOpen \in BOOLEAN
  BY DEF SessionInv, SessionTypes
<1>b. \A i \in 1 .. Len(answers) : answers[i] = handled[i]
  BY <1>0 DEF AnswersFollow
<1>1. CASE ServeRelayed
  <2>1. /\ handled' = Append(handled, taken)
        /\ answers' = answers /\ clientOpen' = clientOpen
        /\ pc = "read" /\ pc' \in {"origin", "flush"}
    BY <1>1 DEF ServeRelayed, InHand, SessionInv, client
  <2>2. /\ Len(handled') = Len(handled) + 1
        /\ \A j \in 1 .. Len(handled) : handled'[j] = handled[j]
    BY <1>0, <2>1
  <2>3. Unanswered = 0 /\ Unanswered' = 1
    BY <2>1 DEF Unanswered
  <2>4. /\ Len(answers) <= Len(handled)
        /\ clientOpen => Len(answers) = Len(handled)
    BY <1>0, <2>3 DEF AnswersFollow
  <2>5. \A i \in 1 .. Len(answers) : i \in 1 .. Len(handled)
    BY <1>0, <2>4
  <2>6. \A i \in 1 .. Len(answers') : answers'[i] = handled'[i]
    BY <1>b, <2>1, <2>2, <2>5
  <2>7. /\ Len(answers') + 1 <= Len(handled')
        /\ clientOpen' => Len(answers') + 1 = Len(handled')
    BY <1>0, <2>1, <2>2, <2>4
  <2> QED BY <2>3, <2>6, <2>7 DEF AnswersFollow
<1>2. CASE Flush
  <2>1. /\ handled' = handled /\ clientOpen' = clientOpen
        /\ pc = "flush" /\ pc' \notin {"origin", "flush"}
        /\ answers' = IF clientOpen THEN Append(answers, Last(handled)) ELSE answers
    BY <1>2 DEF Flush, client
  <2>2. Unanswered = 1 /\ Unanswered' = 0
    BY <2>1 DEF Unanswered
  <2>3. /\ Len(answers) + 1 <= Len(handled)
        /\ clientOpen => Len(answers) + 1 = Len(handled)
    BY <1>0, <2>2 DEF AnswersFollow
  <2>4. CASE clientOpen
    <3>0. Last(handled) \in Seq(Unit) /\ Last(handled) = handled[Len(answers) + 1]
      BY <1>0, <2>3, <2>4 DEF Last
    <3>1. /\ answers' = Append(answers, Last(handled))
          /\ Len(answers') = Len(answers) + 1
          /\ answers'[Len(answers) + 1] = Last(handled)
          /\ \A i \in 1 .. Len(answers) : answers'[i] = answers[i]
      BY <1>0, <2>1, <2>4, <3>0
    <3>3. \A i \in 1 .. Len(answers') : i \in 1 .. Len(answers) \/ i = Len(answers) + 1
      BY <1>0, <3>1
    <3>4. \A i \in 1 .. Len(answers') : answers'[i] = handled'[i]
      BY <1>b, <2>1, <3>0, <3>1, <3>3
    <3>5. Len(answers') = Len(handled')
      BY <1>0, <2>1, <2>3, <2>4, <3>1
    <3> QED BY <1>0, <2>1, <2>2, <3>4, <3>5 DEF AnswersFollow
  <2>5. CASE ~clientOpen
    <3>1. answers' = answers
      BY <2>1, <2>5
    <3>2. Len(answers') + 0 <= Len(handled')
      BY <1>0, <2>1, <2>3, <3>1
    <3> QED BY <1>b, <2>1, <2>2, <2>5, <3>1, <3>2 DEF AnswersFollow
  <2> QED BY <2>4, <2>5
<1>3. CASE ~ServeRelayed /\ ~Flush
  <2>1. handled' = handled /\ answers' = answers
    BY <1>3 DEF Next, Proxy, Fill, ReadRequest, ReadOn, ReadRequestFails,
                OriginAnswers, ClientSends, ClientGoes, vars, client
  <2>2. clientOpen' => clientOpen
    BY SentStays DEF SessionInv
  <2>3. pc' \in {"origin", "flush"} <=> pc \in {"origin", "flush"}
    BY <1>3 DEF Next, Proxy, Fill, ReadRequest, ReadOn, ReadRequestFails,
                OriginAnswers, ClientSends, ClientGoes, vars, client
  <2>4. Unanswered' = Unanswered
    BY <2>3 DEF Unanswered
  <2> QED BY <1>0, <2>1, <2>2, <2>4 DEF AnswersFollow
<1> QED BY <1>1, <1>2, <1>3

(* A patient client's requests are in hand one by one.                      *)
LEMMA PatientStaysInStep ==
  ASSUME SessionInv, SessionTypes', [Next]_vars
  PROVE  OneAtATime'
<1> SUFFICES ASSUME patient'
             PROVE  /\ \A i \in 1 .. Len(handled') : handled'[i][1] = <<i, 0>>
                    /\ Len(sent') <= Len(answers') + 1
                    /\ pc' = "read" /\ line' # <<>> =>
                         line'[1] = <<Len(handled') + 1, 0>>
                    /\ pc' \in {"origin", "flush"} => line' = <<>>
  BY DEF OneAtATime
<1>0. /\ SessionTypes /\ LineIsContiguous /\ InHand /\ HandledRuns /\ AnswersFollow
      /\ OneAtATime
      /\ handled \in Seq(Seq(Unit)) /\ Len(handled) \in Nat
      /\ answers \in Seq(Seq(Unit)) /\ Len(answers) \in Nat
      /\ taken \in Seq(Unit) /\ buf \in Seq(Unit)
      /\ sent \in Seq(Request) /\ Len(sent) \in Nat
  BY DEF SessionInv, SessionTypes
<1>a. patient
  BY DEF Next, Proxy, Fill, ReadRequest, ReadOn, ReadRequestFails, ServeRelayed,
         OriginAnswers, Flush, ClientSends, ClientGoes, vars, client
<1>b. /\ \A i \in 1 .. Len(handled) : handled[i][1] = <<i, 0>>
      /\ Len(sent) <= Len(answers) + 1
      /\ pc = "read" /\ line # <<>> => line[1] = <<Len(handled) + 1, 0>>
      /\ pc \in {"origin", "flush"} => line = <<>>
  BY <1>0, <1>a DEF OneAtATime
<1>c. Len(answers) + Unanswered <= Len(handled) /\ Unanswered \in 0 .. 1
  BY <1>0 DEF AnswersFollow, Unanswered
<1>d. line \in Seq(Unit) /\ line' \in Seq(Unit)
  <2>1. line \in Seq(Unit)
    BY <1>0, LineIsASequence
  <2>2. (line \in Seq(Unit))'
    BY LineIsASequence, PTL
  <2> QED BY <2>1, <2>2
<1>1. CASE ServeRelayed
  <2>1. /\ handled' = Append(handled, taken) /\ answers' = answers /\ sent' = sent
        /\ pc = "read" /\ pc' \in {"origin", "flush"} /\ taken # <<>>
        /\ Wanting => Ended
    BY <1>1 DEF ServeRelayed, client
  <2>2. /\ line' = buf \o wire /\ line = taken \o line'
        /\ Contiguous(sent, line')
        /\ line' # <<>> => FollowsIn(sent, taken[Len(taken)], line'[1])
    <3>1. LineIsContiguous'
      BY LineStaysContiguous
    <3> QED BY <1>0, <1>1, <2>1, <3>1, ServingLeavesTheRest DEF LineIsContiguous
  <2>3. line # <<>> /\ line[1] = taken[1]
    <3>1. /\ Len(taken) \in Nat \ {0} /\ 1 \in 1 .. Len(taken)
      BY <1>0, <2>1
    <3>2. \A p \in 1 .. Len(taken) : (taken \o line')[p] = taken[p]
      BY <1>0, <1>d, JoinedPositions
    <3>3. taken \o line' # <<>>
      BY <1>0, <1>d, <2>1, ConcatEqualIffEmpty
    <3> QED BY <2>2, <3>1, <3>2, <3>3
  <2> DEFINE j == Len(handled) + 1
  <2>4. taken[1] = <<j, 0>>
    BY <1>b, <2>1, <2>3
  <2>5. /\ Len(handled') = Len(handled) + 1 /\ handled'[Len(handled) + 1] = taken
        /\ \A i \in 1 .. Len(handled) : handled'[i] = handled[i]
    BY <1>0, <2>1
  <2>6. \A i \in 1 .. Len(handled') : i \in 1 .. Len(handled) \/ i = Len(handled) + 1
    BY <1>0, <2>5
  <2>7. \A i \in 1 .. Len(handled') : handled'[i][1] = <<i, 0>>
    BY <1>b, <2>4, <2>5, <2>6
  <2>8. line' = <<>>
    <3>1. CASE Ended
      <4>1. <<>> \o <<>> = <<>>
        <5>1. <<>> \in Seq(Unit)
          BY EmptySeq
        <5> QED BY <5>1, ConcatEmptySeq
      <4> QED BY <2>2, <3>1, <4>1 DEF Ended
    <3>2. CASE ~Wanting
      <4>1. /\ Len(taken) = req.size /\ req.size = SizeIn(sent, j)
            /\ \A p \in 1 .. Len(taken) : taken[p] = <<j, p - 1>>
        <5>1. /\ taken[1][1] = j /\ taken[1][2] = 0
          <6> HIDE DEF j
          <6> QED BY <2>4
        <5>2. ~Stray(taken)
          BY <5>1 DEF Stray
        <5>3. Len(taken) \in Nat /\ req.size \in Nat
          BY <1>0 DEF SessionTypes
        <5> QED BY <1>0, <2>1, <3>2, <5>1, <5>2, <5>3 DEF InHand, Wanting
      <4> HIDE DEF j
      <4>2. Len(taken) \in 1 .. Len(taken)
        BY <1>0, <2>1
      <4>3. taken[Len(taken)][1] = j /\ taken[Len(taken)][2] = SizeIn(sent, j) - 1
        <5>1. taken[Len(taken)] = <<j, Len(taken) - 1>>
          BY <4>1, <4>2
        <5> QED BY <4>1, <5>1
      <4>4. SUFFICES ASSUME line' # <<>> PROVE FALSE
        OBVIOUS
      <4>5. /\ line'[1][1] \in 1 .. Len(sent)
            /\ line'[1][2] \in 0 .. SizeIn(sent, line'[1][1]) - 1
        <5>1. 1 \in 1 .. Len(line')
          BY <1>d, <4>4
        <5> QED BY <2>2, <5>1 DEF Contiguous, IsUnitOf
      <4>6. CASE line'[1][1] = j /\ line'[1][2] = SizeIn(sent, j) - 1 + 1
        <5>1. SizeIn(sent, j) \in Nat
          BY <4>1 DEF SessionTypes, SessionInv
        <5> QED BY <4>5, <4>6, <5>1
      <4>7. CASE line'[1][1] = j + 1
        <5>1. Len(answers) <= Len(handled) /\ Len(sent) <= Len(answers) + 1
          BY <1>0, <1>b, <1>c
        <5>2. Len(sent) <= j /\ j \in Nat
          BY <1>0, <5>1 DEF j
        <5> QED BY <1>0, <4>5, <4>7, <5>2
      <4> QED BY <2>2, <4>3, <4>4, <4>6, <4>7 DEF FollowsIn
    <3> QED BY <2>1, <3>1, <3>2
  <2> QED BY <1>b, <2>1, <2>7, <2>8
<1>2. CASE ClientSends
  <2>1. /\ UNCHANGED <<pc, handled, answers>> /\ Len(answers) = Len(sent) /\ clientOpen
    BY <1>2, <1>a DEF ClientSends
  <2>2. PICK n \in Nat, close \in BOOLEAN :
          /\ sent' = Append(sent, [body |-> n, close |-> close])
          /\ line' = line \o [k \in 1 .. HeadPieces + n |-> <<Len(sent) + 1, k - 1>>]
    BY <1>0, <1>2, SendingAddsARequest DEF Adds
  <2>3. Len(sent') = Len(sent) + 1
    BY <1>0, <2>2
  <2>4. Len(answers) + Unanswered = Len(handled)
    BY <1>0, <2>1 DEF AnswersFollow
  <2>5. pc \notin {"origin", "flush"}
    <3>1. SUFFICES ASSUME pc \in {"origin", "flush"} PROVE FALSE
      OBVIOUS
    <3>2. Len(handled) = Len(sent) + 1
      BY <1>0, <2>1, <2>4, <3>1 DEF Unanswered
    <3> DEFINE h == handled[Len(handled)]
    <3>3. Len(handled) \in 1 .. Len(handled)
      BY <1>0, <3>2
    <3>4. Contiguous(sent, h) /\ h # <<>> /\ h \in Seq(Unit)
      BY <1>0, <3>3 DEF HandledRuns
    <3>5. h[1] = <<Len(handled), 0>>
      BY <1>b, <3>3
    <3> HIDE DEF h
    <3>6. 1 \in 1 .. Len(h)
      BY <3>4
    <3>7. h[1][1] \in 1 .. Len(sent)
      BY <3>4, <3>6 DEF Contiguous, IsUnitOf
    <3> QED BY <1>0, <3>2, <3>5, <3>7
  <2>6. Len(handled) = Len(sent)
    BY <1>0, <2>1, <2>4, <2>5 DEF Unanswered
  <2>7. ASSUME pc = "read"
        PROVE  line'[1] = <<Len(handled) + 1, 0>>
    <3>1. line = <<>>
      <4>1. SUFFICES ASSUME line # <<>> PROVE FALSE
        OBVIOUS
      <4>2. 1 \in 1 .. Len(line) /\ line[1] = <<Len(handled) + 1, 0>>
        BY <1>b, <1>d, <2>7, <4>1
      <4>3. line[1][1] \in 1 .. Len(sent)
        BY <1>0, <4>2 DEF LineIsContiguous, Contiguous, IsUnitOf
      <4> QED BY <1>0, <2>6, <4>2, <4>3
    <3> DEFINE b == [k \in 1 .. HeadPieces + n |-> <<Len(sent) + 1, k - 1>>]
    <3>2. b \in Seq(Unit) /\ b[1] = <<Len(sent) + 1, 0>>
      BY <1>0, OneRequestMore
    <3> HIDE DEF b
    <3>3. line' = line \o b
      BY <2>2 DEF b
    <3>4. <<>> \o b = b
      BY <3>2, ConcatEmptySeq
    <3> QED BY <2>6, <3>1, <3>2, <3>3, <3>4
  <2>8. Len(sent') <= Len(answers') + 1
    BY <1>0, <2>1, <2>3
  <2> QED BY <1>b, <2>1, <2>5, <2>7, <2>8
<1>3. CASE ~ServeRelayed /\ ~ClientSends
  <2>1. handled' = handled /\ sent' = sent
    BY <1>3 DEF Next, Proxy, Fill, ReadRequest, ReadRequestFails, ReadOn,
                OriginAnswers, Flush, ClientGoes, vars, client
  <2>2. Len(sent') <= Len(answers') + 1
    <3>1. answers' = answers \/ answers' = Append(answers, Last(handled))
      BY <1>3 DEF Next, Proxy, Fill, ReadRequest, ReadRequestFails, ReadOn,
                  OriginAnswers, Flush, ClientGoes, vars, client
    <3>2. Len(answers') >= Len(answers) /\ Len(answers') \in Nat
      BY <1>0, <3>1
    <3> QED BY <1>0, <1>b, <2>1, <3>2
  <2>3. CASE Flush
    <3>1. pc = "flush" /\ pc' \notin {"origin", "flush"}
      BY <2>3 DEF Flush
    <3>2. line = <<>>
      BY <1>b, <3>1
    <3>3. DropsFront
      BY <1>0, <2>3, LoopDropsTheFront DEF Proxy
    <3>4. line' = <<>>
      <4>1. \A a, b \in Seq(Unit) : a \o b = <<>> => a = <<>> /\ b = <<>>
        BY ConcatEqualIffEmpty
      <4> QED BY <1>0, <1>d, <3>2, <3>3, <4>1 DEF DropsFront
    <3> QED BY <1>b, <2>1, <2>2, <3>1, <3>4
  <2>4. CASE ReadRequestFails
    <3>1. pc' = "closed"
      BY <2>4 DEF ReadRequestFails
    <3> QED BY <1>b, <2>1, <2>2, <3>1
  <2>5. CASE ~Flush /\ ~ReadRequestFails
    <3>1. /\ pc' = "read" => pc = "read"
          /\ pc' \in {"origin", "flush"} => pc \in {"origin", "flush"}
      BY <1>3, <2>5 DEF Next, Proxy, Fill, ReadRequest, ReadOn, OriginAnswers,
                        ClientGoes, vars, client
    <3>2. line' = line \/ CutsOff
      <4>1. CASE Fill
        BY <1>0, <4>1, FillKeepsTheLine
      <4>2. CASE ReadRequest
        <5>1. /\ buf # <<>> /\ buf' = Tail(buf) /\ wire' = wire
              /\ taken = <<>> /\ taken' = <<Head(buf)>>
          BY <4>2 DEF ReadRequest
        <5>2. <<>> \o <<Head(buf)>> = <<Head(buf)>>
          <6>1. <<Head(buf)>> \in Seq(Unit)
            BY <1>0, <5>1
          <6> QED BY <6>1, ConcatEmptySeq
        <5> QED BY <1>0, <5>1, <5>2, TakingKeepsTheLine
      <4>3. CASE ReadOn
        <5>1. /\ buf # <<>> /\ buf' = Tail(buf) /\ wire' = wire
              /\ taken' = Append(taken, Head(buf))
          BY <4>3 DEF ReadOn
        <5>2. Append(taken, Head(buf)) = taken \o <<Head(buf)>>
          <6>1. Head(buf) \in Unit
            BY <1>0, <5>1
          <6> QED BY <1>0, <6>1, AppendIsConcat
        <5> QED BY <1>0, <5>1, <5>2, TakingKeepsTheLine
      <4>4. CASE ClientGoes
        BY <1>0, <4>4, GoingCutsTheEnd
      <4>5. CASE OriginAnswers \/ UNCHANGED vars
        BY <4>5 DEF OriginAnswers, vars, client, line
      <4> QED BY <1>3, <2>5, <4>1, <4>2, <4>3, <4>4, <4>5 DEF Next, Proxy
    <3>3. CASE line' = line
      BY <1>b, <2>1, <2>2, <3>1, <3>3
    <3>4. CASE CutsOff
      <4>1. PICK b \in Seq(Unit) : line = line' \o b
        BY <3>4 DEF CutsOff
      <4>2. line' # <<>> => line # <<>> /\ line'[1] = line[1]
        <5>1. SUFFICES ASSUME line' # <<>> PROVE line # <<>> /\ line'[1] = line[1]
          OBVIOUS
        <5>2. 1 \in 1 .. Len(line')
          BY <1>d, <5>1
        <5>3. \A p \in 1 .. Len(line') : (line' \o b)[p] = line'[p]
          BY <1>d, JoinedPositions
        <5>4. line' \o b # <<>>
          BY <1>d, <5>1, ConcatEqualIffEmpty
        <5> QED BY <4>1, <5>2, <5>3, <5>4
      <4> QED BY <1>b, <2>1, <2>2, <3>1, <4>2
    <3> QED BY <3>2, <3>3, <3>4
  <2> QED BY <2>3, <2>4, <2>5
<1> QED BY <1>1, <1>2, <1>3

(* The invariant is inductive.                                              *)
LEMMA SessionInvIsInductive ==
  /\ Init => SessionInv
  /\ SessionInv /\ [Next]_vars => SessionInv'
<1>1. ASSUME Init
      PROVE  SessionInv
  <2>1. SessionTypes
    BY <1>1, TypesHold
  <2>2. /\ wire = <<>> /\ buf = <<>> /\ taken = <<>> /\ pc = "read" /\ sent = <<>>
        /\ handled = <<>> /\ answers = <<>>
    BY <1>1 DEF Init
  <2>3. line = <<>>
    <3>1. <<>> \o (<<>> \o <<>>) = <<>>
      <4>1. <<>> \in Seq(Unit)
        BY EmptySeq
      <4> QED BY <4>1, ConcatEmptySeq
    <3> QED BY <2>2, <3>1 DEF line
  <2>4. LineIsContiguous
    BY <2>3 DEF LineIsContiguous, Contiguous, EndsWithTheLast
  <2>5. InHand /\ HandledRuns /\ HandledOwn
    BY <2>2 DEF InHand, HandledRuns, HandledOwn
  <2>6. AnswersFollow /\ OneAtATime
    BY <2>2, <2>3 DEF AnswersFollow, OneAtATime, Unanswered
  <2> QED BY <2>1, <2>4, <2>5, <2>6 DEF SessionInv
<1>2. ASSUME SessionInv, [Next]_vars
      PROVE  SessionInv'
  <2>1. SessionTypes'
    BY <1>2, TypesHold
  <2>2. LineIsContiguous' /\ InHand' /\ HandledRuns'
    BY <1>2, <2>1, LineStaysContiguous, InHandStays, RunsStayInOrder
  <2>3. HandledOwn' /\ AnswersFollow' /\ OneAtATime'
    BY <1>2, <2>1, OwnStaysOwn, AnswersStayBehind, PatientStaysInStep
  <2> QED BY <2>1, <2>2, <2>3 DEF SessionInv
<1> QED BY <1>1, <1>2

-----------------------------------------------------------------------------

(* The first request that nobody sent begins in one whose beginning no      *)
(* relay had: what comes before it are whole requests, and one with that    *)
(* beginning would have the rest as well.                                   *)
LEMMA TheFirstStrayComesOfALoss ==
  ASSUME SessionInv, NEW i \in 1 .. Len(handled), Stray(handled[i]),
         \A j \in 1 .. i - 1 : ~Stray(handled[j]),
         NEW j \in 1 .. Len(handled), NEW p \in 1 .. Len(handled[j])
  PROVE  handled[j][p] # <<handled[i][1][1], 0>>
<1> SUFFICES ASSUME handled[j][p] = <<handled[i][1][1], 0>>
             PROVE  FALSE
  OBVIOUS
<1>0. /\ HandledRuns /\ HandledOwn /\ sent \in Seq(Request)
      /\ handled \in Seq(Seq(Unit)) /\ Len(handled) \in Nat
  BY DEF SessionInv, SessionTypes
<1> DEFINE u == handled[i][1]
<1>1. /\ handled[i] # <<>> /\ handled[i] \in Seq(Unit) /\ Contiguous(sent, handled[i])
      /\ 1 \in 1 .. Len(handled[i])
  BY <1>0 DEF HandledRuns
<1>2. /\ u \in Unit /\ u[1] \in 1 .. Len(sent)
      /\ u[2] \in 0 .. SizeIn(sent, u[1]) - 1 /\ u[2] # 0
  BY <1>1 DEF Contiguous, IsUnitOf, Stray
<1>3. handled[j][p][1] = u[1] /\ handled[j][p][2] = 0
  <2> HIDE DEF u
  <2>1. handled[j][p] = <<u[1], 0>>
    BY DEF u
  <2> QED BY <2>1
<1>4. u[2] \in Nat \ {0} /\ u[1] \in Nat
  BY <1>2 DEF Unit
<1>5. ~Before(u, handled[j][p])
  BY <1>3, <1>4 DEF Before
<1>6. CASE i < j
  BY <1>0, <1>1, <1>5, <1>6 DEF HandledRuns, AllBefore
<1>7. CASE i = j
  <2>1. p = 1 \/ 1 < p
    OBVIOUS
  <2>2. CASE p = 1
    BY <1>3, <1>4, <1>7, <2>2
  <2>3. CASE 1 < p
    BY <1>1, <1>5, <1>7, <2>3 DEF Contiguous
  <2> QED BY <2>1, <2>2, <2>3
<1>8. CASE j < i
  <2> DEFINE k == handled[j][1][1]
  <2>1. j \in 1 .. i - 1 /\ j # Len(handled)
    BY <1>0, <1>8
  <2>2. handled[j] = PiecesIn(sent, k)
    BY <1>0, <2>1 DEF HandledOwn
  <2>3. /\ Contiguous(sent, handled[j]) /\ handled[j] \in Seq(Unit)
        /\ handled[j] # <<>> /\ 1 \in 1 .. Len(handled[j])
    BY <1>0 DEF HandledRuns
  <2>4. k \in 1 .. Len(sent)
    BY <2>3 DEF Contiguous, IsUnitOf
  <2>5. SizeIn(sent, k) \in Nat /\ k \in Nat
    <3>1. sent[k] \in Request
      BY <1>0, <2>4
    <3>2. Len(sent) \in Nat
      BY <1>0
    <3> HIDE DEF k
    <3>3. sent[k].body \in Nat
      BY <3>1 DEF Request
    <3>4. SizeIn(sent, k) \in Nat
      BY <3>3, SessionAssumption DEF SizeIn
    <3> QED BY <2>4, <3>2, <3>4
  <2> HIDE DEF k
  <2>6. /\ Len(handled[j]) = SizeIn(sent, k)
        /\ \A q \in 1 .. SizeIn(sent, k) : handled[j][q] = <<k, q - 1>>
    BY <2>2, <2>5 DEF PiecesIn
  <2>7. u[1] = k
    BY <1>3, <2>6
  <2>8. u[2] + 1 \in 1 .. SizeIn(sent, k) /\ u[2] + 1 - 1 = u[2]
    <3> HIDE DEF u
    <3>1. u[2] \in 0 .. SizeIn(sent, k) - 1
      BY <1>2, <2>7
    <3> QED BY <1>4, <2>5, <3>1
  <2>9. handled[j][u[2] + 1] = <<k, u[2]>>
    <3> HIDE DEF u
    <3>1. PICK q \in 1 .. SizeIn(sent, k) : q = u[2] + 1
      BY <2>8
    <3>2. handled[j][q] = <<k, q - 1>>
      BY <2>6
    <3>3. q - 1 = u[2]
      <4>1. u[2] \in Nat
        BY <1>4
      <4> QED BY <4>1, <3>1
    <3>4. handled[j][q] = <<k, u[2]>>
      BY <3>2, <3>3
    <3> QED BY <3>1, <3>4
  <2>10. AllBefore(handled[j], handled[i])
    BY <1>0, <1>8 DEF HandledRuns
  <2>11. Before(handled[j][u[2] + 1], u)
    BY <1>1, <2>6, <2>8, <2>10 DEF AllBefore
  <2>12. handled[j][u[2] + 1][1] = k /\ handled[j][u[2] + 1][2] = u[2]
    BY <2>9
  <2> QED BY <1>4, <2>5, <2>7, <2>11, <2>12 DEF Before
<1> QED BY <1>0, <1>6, <1>7, <1>8

(* However a client pipelines, waits or goes away, and whatever the bytes   *)
(* look like that a turn finds first: what is relayed are runs of pieces in *)
(* the order they were sent, each once; a request read from its beginning   *)
(* is relayed as it was sent; one that nobody sent comes first only of a    *)
(* beginning that was lost, and never of a patient client; and the answers  *)
(* come in that order.  See ExchangesMatch.                                 *)
THEOREM ExchangesAlwaysMatch == Spec => []ExchangesMatch
<1>1. ASSUME SessionInv
      PROVE  ExchangesMatch
  <2>0. /\ SessionTypes /\ HandledRuns /\ HandledOwn /\ AnswersFollow /\ OneAtATime
        /\ handled \in Seq(Seq(Unit)) /\ Len(handled) \in Nat
        /\ answers \in Seq(Seq(Unit)) /\ Len(answers) \in Nat
        /\ DOMAIN handled = 1 .. Len(handled)
    <3>1. /\ SessionTypes /\ HandledRuns /\ HandledOwn /\ AnswersFollow
          /\ OneAtATime
      BY <1>1, Zenon DEF SessionInv
    <3>2. handled \in Seq(Seq(Unit)) /\ answers \in Seq(Seq(Unit))
      BY <3>1, Zenon DEF SessionTypes
    <3>3. /\ Len(handled) \in Nat /\ Len(answers) \in Nat
          /\ DOMAIN handled = 1 .. Len(handled)
      BY ONLY <3>2
    <3> QED BY <3>1, <3>2, <3>3, Zenon
  <2>a. \A i \in DOMAIN handled :
          handled[i] \in Seq(Unit) /\ DOMAIN handled[i] = 1 .. Len(handled[i])
    BY <2>0
  <2>1. IsPrefix(answers, handled)
    <3>1. Len(answers) <= Len(handled)
      <4>1. Unanswered \in Nat /\ Len(answers) + Unanswered <= Len(handled)
        BY <2>0 DEF AnswersFollow, Unanswered
      <4>2. Len(answers) \in Nat /\ Len(handled) \in Nat
        BY <2>0
      <4>3. \A a, b, n \in Nat : a + n <= b => a <= b
        OBVIOUS
      <4> QED BY ONLY <4>1, <4>2, <4>3, ZenonT(30)
    <3>2. /\ SubSeq(answers, 1, Len(answers)) = [k \in 1 .. Len(answers) |-> answers[k]]
          /\ SubSeq(handled, 1, Len(answers)) = [k \in 1 .. Len(answers) |-> handled[k]]
      BY <2>0, <3>1
    <3>3. \A k \in 1 .. Len(answers) : answers[k] = handled[k]
      BY <2>0 DEF AnswersFollow
    <3> QED BY <3>1, <3>2, <3>3 DEF IsPrefix
  <2>2. \A i, j \in DOMAIN handled : i < j =>
          \A p \in DOMAIN handled[i], q \in DOMAIN handled[j] :
            Before(handled[i][p], handled[j][q])
    BY <2>0, <2>a DEF HandledRuns, AllBefore
  <2>3. ASSUME NEW i \in DOMAIN handled
        PROVE  \A p \in 1 .. Len(handled[i]) - 1 :
                 Follows(handled[i][p], handled[i][p + 1])
    <3>1. Contiguous(sent, handled[i])
      BY <2>0 DEF HandledRuns
    <3> QED BY <3>1 DEF Contiguous, Follows, FollowsIn, Size, SizeIn
  <2>4. ASSUME NEW i \in DOMAIN handled, ~Stray(handled[i])
        PROVE  IsOwn(handled[i])
    <3>1. IsOwnIn(sent, clientOpen, handled[i])
      BY <2>0, <2>4 DEF HandledOwn
    <3>2. PiecesIn(sent, handled[i][1][1]) = Pieces(handled[i][1][1])
      BY Zenon DEF Pieces, PiecesIn, Size, SizeIn
    <3> QED BY <3>1, <3>2, ZenonT(60) DEF IsOwn, IsOwnIn
  <2>5. \A i \in DOMAIN handled : patient => handled[i][1] = <<i, 0>>
    BY <2>0 DEF OneAtATime
  <2>6. ASSUME NEW i \in DOMAIN handled, Stray(handled[i]),
               \A j \in 1 .. i - 1 : ~Stray(handled[j]),
               NEW j \in DOMAIN handled, NEW p \in DOMAIN handled[j]
        PROVE  handled[j][p] # <<handled[i][1][1], 0>>
    BY <1>1, <2>0, <2>a, <2>6, TheFirstStrayComesOfALoss
  <2> QED BY <2>1, <2>2, <2>3, <2>4, <2>5, <2>6 DEF ExchangesMatch
<1> QED BY SessionInvIsInductive, <1>1, PTL DEF Spec
=============================================================================
