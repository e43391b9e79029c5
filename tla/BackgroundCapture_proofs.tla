----------------------- MODULE BackgroundCapture_proofs -----------------------
(* Proofs about BackgroundCapture, for any requests, keys and limits. The handlers   *)
(* of the service worker overwrite each other's lists, so what holds of the list in  *)
(* storage has to hold of every list a handler still holds: Lists. What a handler    *)
(* has yet to add, a record or a body, is in none of them.                           *)
EXTENDS BackgroundCapture, SequenceTheorems, WellFoundedInduction, TLAPS

Task == [kind : Kinds, id : Exchanges, hop : Hops, read : BOOLEAN, snap : Seq(Captured)]
Report == [hop : Hops, begun : BOOLEAN, sent : SUBSET Hops, started : BOOLEAN,
           completed : BOOLEAN]
Entry == [key : Keys, body : Exchanges]

\* The handlers that add a record, and those that bring a body.
Creates(t) == t.kind \in {"before", "mock", "replay"}
Brings(t) == t.kind \in {"body", "mock", "replay"}

Lists == {captured} \cup {t.snap : t \in tasks}

Types ==
    /\ captured \in Seq(Captured) /\ pending \in Seq(Entry)
    /\ tasks \in SUBSET Task
    /\ net \in [Requests -> Report]
    /\ reported \in SUBSET Exchanges

\* What a handler is about has happened.
TaskTells(t) ==
    /\ t.kind \in {"before", "headers", "firstByte", "completed", "body"} => t.id \in Requests
    /\ t.kind = "before" =>
          /\ net[t.id].begun /\ t.hop <= net[t.id].hop
          /\ t.hop # 0 => t.id \in DOMAIN RedirectTo
    /\ t.kind = "headers" =>
          /\ t.read /\ t.hop \in net[t.id].sent
          /\ \A i \in 1 .. Len(t.snap) : t.snap[i].id = t.id => t.snap[i].hop <= t.hop
    /\ t.kind = "firstByte" => net[t.id].started
    /\ t.kind = "completed" => net[t.id].completed
    /\ Brings(t) => t.id \in reported /\ t.hop = 0
    /\ t.kind \in {"mock", "replay"} => t.id \notin Requests

TasksTell == \A t \in tasks : TaskTells(t)

\* One handler adds a record, and one brings a body.
TasksDiffer ==
    \A t, u \in tasks :
        \/ t = u
        \/ /\ Creates(t) /\ Creates(u) => <<t.id, t.hop>> # <<u.id, u.hop>>
           /\ Brings(t) /\ Brings(u) => t.id # u.id

RecordTells(c) ==
    /\ c.key = HopKey(c.id, c.hop)
    /\ c.id \in Requests =>
          /\ net[c.id].begun /\ c.hop <= net[c.id].hop
          /\ c.headers => \E h \in net[c.id].sent : h >= c.hop
          /\ c.firstByte => net[c.id].started
          /\ c.answered => net[c.id].completed
    /\ c.id \notin Requests => c.id \in reported
    /\ c.body # NoBody => c.answered /\ c.body \in reported /\ KeyOf[c.body] = c.key

Same(c, d) == c.id = d.id /\ c.hop = d.hop

ListDiffers(L) ==
    \A i, j \in 1 .. Len(L) :
        i # j => ~Same(L[i], L[j]) /\ (L[i].body = NoBody \/ L[i].body # L[j].body)

ListTells(L) ==
    /\ Len(L) <= MaxCaptured
    /\ \A i \in 1 .. Len(L) : RecordTells(L[i])
    /\ ListDiffers(L)

\* c is a record of which nothing is on its way to the list.
Apart(c, t) ==
    /\ Creates(t) => ~Same(c, t)
    /\ Brings(t) => c.body # t.id

ListIsApart(L) ==
    \A i \in 1 .. Len(L) :
        /\ \A p \in 1 .. Len(pending) : L[i].body # pending[p].body
        /\ \A t \in tasks : Apart(L[i], t)

ListsTell == \A L \in Lists : ListTells(L)
ListsAreApart == \A L \in Lists : ListIsApart(L)

PendingTells ==
    /\ Len(pending) <= PendingLimit
    /\ \A p \in 1 .. Len(pending) :
          /\ pending[p].body \in reported /\ KeyOf[pending[p].body] = pending[p].key
          /\ \A t \in tasks : Brings(t) => pending[p].body # t.id
    /\ \A p, q \in 1 .. Len(pending) :
          p # q => pending[p].body # pending[q].body /\ pending[p].key # pending[q].key

CaptureInv ==
    /\ Types /\ TasksTell /\ TasksDiffer /\ ListsTell /\ ListsAreApart /\ PendingTells
-----------------------------------------------------------------------------------
(* What the model's operators return.                                               *)

\* The first positions of a concatenation are its first part, the others its second.
LEMMA PrependedPositions ==
    ASSUME NEW rec \in Captured, NEW S \in Seq(Captured)
    PROVE  /\ Prepend(rec, S) \in Seq(Captured)
           /\ Len(Prepend(rec, S)) = IF Len(S) + 1 < MaxCaptured THEN Len(S) + 1 ELSE MaxCaptured
           /\ Len(Prepend(rec, S)) > 0 /\ Len(Prepend(rec, S)) <= MaxCaptured
           /\ Prepend(rec, S)[1] = rec
           /\ \A i \in 2 .. Len(Prepend(rec, S)) :
                 i - 1 \in 1 .. Len(S) /\ Prepend(rec, S)[i] = S[i - 1]
<1> DEFINE all == <<rec>> \o S
           n == IF Len(all) < MaxCaptured THEN Len(all) ELSE MaxCaptured
<1>1. MaxCaptured \in Nat /\ MaxCaptured > 0 /\ Len(S) \in Nat
  BY CaptureAssumption
<1>2. <<rec>> \in Seq(Captured) /\ Len(<<rec>>) = 1 /\ <<rec>>[1] = rec
  OBVIOUS
<1>3. /\ all \in Seq(Captured) /\ Len(all) = Len(S) + 1
      /\ \A i \in 1 .. Len(S) + 1 : all[i] = IF i <= 1 THEN <<rec>>[i] ELSE S[i - 1]
  <2>1. /\ all \in Seq(Captured) /\ Len(all) = 1 + Len(S)
        /\ \A i \in 1 .. 1 + Len(S) : all[i] = IF i <= 1 THEN <<rec>>[i] ELSE S[i - 1]
    BY <1>2, ConcatProperties
  <2>2. 1 + Len(S) = Len(S) + 1
    BY <1>1
  <2> QED BY <2>1, <2>2
<1>4. n \in Nat /\ n > 0 /\ n <= MaxCaptured /\ n <= Len(all)
  BY <1>1, <1>3
<1>5. Prepend(rec, S) = SubSeq(all, 1, n)
  BY DEF Prepend
<1> HIDE DEF n, all
<1>6. /\ SubSeq(all, 1, n) \in Seq(Captured) /\ Len(SubSeq(all, 1, n)) = n
      /\ \A i \in 1 .. n : SubSeq(all, 1, n)[i] = all[i]
  <2>1. \A i \in 1 .. n : i \in 1 .. Len(all) /\ all[i] \in Captured
    BY <1>3, <1>4, <1>1, ElementOfSeq
  <2>2. SubSeq(all, 1, n) = [i \in 1 .. n |-> all[i]]
    BY <1>3, <1>4, <1>1
  <2> QED BY <2>1, <2>2, <1>4
<1>7. ASSUME NEW i \in 2 .. n
      PROVE  i - 1 \in 1 .. Len(S) /\ all[i] = S[i - 1]
  BY <1>1, <1>3, <1>4
<1>8. all[1] = rec
  BY <1>1, <1>2, <1>3
<1>9. n = IF Len(S) + 1 < MaxCaptured THEN Len(S) + 1 ELSE MaxCaptured
  BY <1>3 DEF n
<1>10. 1 \in 1 .. n /\ \A i \in 2 .. n : i \in 1 .. n
  BY <1>4
<1> QED BY <1>4, <1>5, <1>6, <1>7, <1>8, <1>9, <1>10

\* An element taken out of a sequence leaves the others, in their order.
LEMMA RemovedPositions ==
    ASSUME NEW S, NEW b \in Seq(S), NEW k \in 1 .. Len(b)
    PROVE  /\ RemoveAt(b, k) \in Seq(S) /\ Len(RemoveAt(b, k)) = Len(b) - 1
           /\ \A p \in 1 .. Len(b) - 1 :
                 RemoveAt(b, k)[p] = IF p < k THEN b[p] ELSE b[p + 1]
<1> DEFINE low == SubSeq(b, 1, k - 1)
           high == SubSeq(b, k + 1, Len(b))
<1>1. k \in Nat /\ k > 0 /\ k <= Len(b) /\ Len(b) \in Nat
  OBVIOUS
<1>2. /\ low \in Seq(S) /\ Len(low) = k - 1
      /\ \A i \in 1 .. k - 1 : low[i] = b[i]
  BY <1>1, SubSeqProperties
<1>3. /\ high \in Seq(S) /\ Len(high) = Len(b) - k
      /\ \A i \in 1 .. Len(b) - k : high[i] = b[k + i]
  BY <1>1, SubSeqProperties
<1>4. RemoveAt(b, k) = low \o high
  BY DEF RemoveAt
<1> HIDE DEF low, high
<1>5. /\ low \o high \in Seq(S) /\ Len(low \o high) = Len(low) + Len(high)
      /\ \A i \in 1 .. Len(low) + Len(high) :
            (low \o high)[i] = IF i <= Len(low) THEN low[i] ELSE high[i - Len(low)]
  BY <1>2, <1>3, ConcatProperties
<1>6. Len(low) + Len(high) = Len(b) - 1
  BY <1>1, <1>2, <1>3
<1>7. ASSUME NEW p \in 1 .. Len(b) - 1
      PROVE  (low \o high)[p] = IF p < k THEN b[p] ELSE b[p + 1]
  <2>1. CASE p < k
    BY <2>1, <1>1, <1>2, <1>5, <1>6
  <2>2. CASE ~(p < k)
    <3>1. ~(p <= k - 1) /\ p - (k - 1) \in 1 .. Len(b) - k /\ k + (p - (k - 1)) = p + 1
      BY <2>2, <1>1
    <3>2. (low \o high)[p] = high[p - (k - 1)]
      BY <3>1, <1>2, <1>5, <1>6
    <3> QED BY <3>1, <3>2, <2>2, <1>3
  <2> QED BY <2>1, <2>2
<1> QED BY <1>4, <1>5, <1>6, <1>7

\* The entries of a buffer tell each other apart by key and by body.
BufferDiffers(b) ==
    \A p, q \in 1 .. Len(b) : p # q => b[p].body # b[q].body /\ b[p].key # b[q].key

\* Deleting a key takes its entry out, and nothing else.
LEMMA DeletedEntries ==
    ASSUME NEW b \in Seq(Entry), NEW key, BufferDiffers(b)
    PROVE  /\ Deleted(b, key) \in Seq(Entry) /\ Len(Deleted(b, key)) <= Len(b)
           /\ BufferDiffers(Deleted(b, key))
           /\ \A p \in 1 .. Len(Deleted(b, key)) :
                 /\ Deleted(b, key)[p].key # key
                 /\ \E q \in 1 .. Len(b) : Deleted(b, key)[p] = b[q]
<1> DEFINE held == {i \in DOMAIN b : b[i].key = key}
<1>1. DOMAIN b = 1 .. Len(b) /\ Len(b) \in Nat
  OBVIOUS
<1>2. CASE held = {}
  <2>1. Deleted(b, key) = b
    BY <1>2 DEF Deleted
  <2>2. \A p \in 1 .. Len(b) : b[p].key # key
    BY <1>1, <1>2
  <2> QED BY <2>1, <2>2, <1>1
<1>3. CASE held # {}
  <2> DEFINE k == CHOOSE i \in held : TRUE
             d == RemoveAt(b, k)
  <2>1. k \in held
    BY <1>3
  <2>2. k \in 1 .. Len(b) /\ b[k].key = key
    BY <2>1, <1>1
  <2>3. Deleted(b, key) = d
    BY <1>3 DEF Deleted
  <2> HIDE DEF k
  <2>4. /\ d \in Seq(Entry) /\ Len(d) = Len(b) - 1
        /\ \A p \in 1 .. Len(b) - 1 : d[p] = IF p < k THEN b[p] ELSE b[p + 1]
    BY <2>2, RemovedPositions
  <2> HIDE DEF d
  <2> DEFINE at(p) == IF p < k THEN p ELSE p + 1
  <2>5. ASSUME NEW p \in 1 .. Len(b) - 1
        PROVE  at(p) \in 1 .. Len(b) /\ at(p) # k
    BY <1>1, <2>2
  <2>6. \A p \in 1 .. Len(b) - 1 : d[p] = b[at(p)]
    BY <2>4
  <2>7. ASSUME NEW p \in 1 .. Len(b) - 1, NEW q \in 1 .. Len(b) - 1, p # q
        PROVE  at(p) # at(q)
    BY <2>7, <1>1, <2>2
  <2> HIDE DEF at
  <2>8. BufferDiffers(d)
    BY <2>4, <2>5, <2>6, <2>7 DEF BufferDiffers
  <2>9. \A p \in 1 .. Len(b) - 1 : d[p].key # key
    BY <2>2, <2>5, <2>6 DEF BufferDiffers
  <2>10. Len(d) <= Len(b)
    BY <2>4, <1>1
  <2> QED BY <2>3, <2>4, <2>5, <2>6, <2>8, <2>9, <2>10
<1> QED BY <1>2, <1>3

\* What is left in the buffer was there, under a key that no record of id takes from.
LEMMA LeftEntries ==
    ASSUME NEW S \in Seq(Captured), NEW id, pending \in Seq(Entry), BufferDiffers(pending)
    PROVE  /\ LeftBy(S, id) \in Seq(Entry) /\ Len(LeftBy(S, id)) <= Len(pending)
           /\ BufferDiffers(LeftBy(S, id))
           /\ \A p \in 1 .. Len(LeftBy(S, id)) :
                 /\ \E q \in 1 .. Len(pending) : LeftBy(S, id)[p] = pending[q]
                 /\ \A i \in 1 .. Len(S) :
                       S[i].id = id => LeftBy(S, id)[p].key # HopKey(id, S[i].hop)
<1> DEFINE Listed(hop) == \E i \in DOMAIN S : S[i].id = id /\ S[i].hop = hop
           first == IF Listed(0) THEN Deleted(pending, HopKey(id, 0)) ELSE pending
           second == IF Listed(1) THEN Deleted(first, HopKey(id, 1)) ELSE first
<1>1. LeftBy(S, id) = second
  BY DEF LeftBy
<1>2. /\ first \in Seq(Entry) /\ Len(first) <= Len(pending) /\ BufferDiffers(first)
      /\ \A p \in 1 .. Len(first) : /\ \E q \in 1 .. Len(pending) : first[p] = pending[q]
                                    /\ Listed(0) => first[p].key # HopKey(id, 0)
  <2>1. CASE Listed(0)
    <3>1. first = Deleted(pending, HopKey(id, 0))
      BY <2>1
    <3> HIDE DEF first, Listed
    <3> QED BY <3>1, DeletedEntries
  <2>2. CASE ~Listed(0)
    <3>1. first = pending
      BY <2>2
    <3>2. Len(pending) <= Len(pending)
      OBVIOUS
    <3> HIDE DEF first, Listed
    <3> QED BY <3>1, <3>2, <2>2
  <2> QED BY <2>1, <2>2
<1> HIDE DEF first
<1>3. /\ second \in Seq(Entry) /\ Len(second) <= Len(first) /\ BufferDiffers(second)
      /\ \A p \in 1 .. Len(second) : /\ \E q \in 1 .. Len(first) : second[p] = first[q]
                                     /\ Listed(1) => second[p].key # HopKey(id, 1)
  <2>1. CASE Listed(1)
    <3>1. second = Deleted(first, HopKey(id, 1))
      BY <2>1
    <3> HIDE DEF second, Listed
    <3> QED BY <1>2, <3>1, DeletedEntries
  <2>2. CASE ~Listed(1)
    <3>1. second = first
      BY <2>2
    <3>2. Len(first) <= Len(first)
      BY <1>2
    <3> HIDE DEF second, Listed
    <3> QED BY <1>2, <3>1, <3>2, <2>2
  <2> QED BY <2>1, <2>2
<1> HIDE DEF second
<1>4. Len(second) <= Len(pending)
  BY <1>2, <1>3
<1>5. ASSUME NEW p \in 1 .. Len(second)
      PROVE  /\ \E q \in 1 .. Len(pending) : second[p] = pending[q]
             /\ \A hop \in Hops : Listed(hop) => second[p].key # HopKey(id, hop)
  <2>1. PICK q \in 1 .. Len(first) : second[p] = first[q]
    BY <1>3
  <2>2. Hops = {0, 1}
    BY DEF Hops
  <2> QED BY <2>1, <2>2, <1>2, <1>3
<1>6. ASSUME NEW i \in 1 .. Len(S), S[i].id = id
      PROVE  S[i].hop \in Hops /\ Listed(S[i].hop)
  <2>1. S[i] \in Captured /\ i \in DOMAIN S
    BY ElementOfSeq
  <2> QED BY <2>1, <1>6 DEF Captured
<1> QED BY <1>1, <1>3, <1>4, <1>5, <1>6

\* A fact is marked on every record of the request, and on no other.
LEMMA MarkedRecords ==
    ASSUME NEW S \in Seq(Captured), NEW id, NEW fact \in {"headers", "firstByte", "answered"}
    PROVE  /\ Marked(S, id, fact) \in Seq(Captured) /\ Len(Marked(S, id, fact)) = Len(S)
           /\ \A i \in 1 .. Len(S) :
                 Marked(S, id, fact)[i] = IF S[i].id = id THEN [S[i] EXCEPT ![fact] = TRUE]
                                          ELSE S[i]
<1>1. DOMAIN S = 1 .. Len(S) /\ Len(S) \in Nat
  OBVIOUS
<1>2. ASSUME NEW i \in 1 .. Len(S)
      PROVE  (IF S[i].id = id THEN [S[i] EXCEPT ![fact] = TRUE] ELSE S[i]) \in Captured
  <2>1. S[i] \in Captured
    BY ElementOfSeq
  <2> QED BY <2>1 DEF Captured
<1>3. Marked(S, id, fact) = [i \in 1 .. Len(S) |->
                                IF S[i].id = id THEN [S[i] EXCEPT ![fact] = TRUE] ELSE S[i]]
  BY <1>1 DEF Marked
<1> QED BY <1>1, <1>2, <1>3

\* A record takes a buffered body of its own key, and only if no record of the request
\* before it has that key.
LEMMA TakenBodies ==
    ASSUME NEW S \in Seq(Captured), NEW i \in 1 .. Len(S), TakenFor(S, i) # NoBody
    PROVE  /\ \E p \in DOMAIN pending :
                 pending[p].key = S[i].key /\ TakenFor(S, i) = pending[p].body
           /\ \A j \in 1 .. i - 1 : S[j].id = S[i].id => S[j].key # S[i].key
<1> DEFINE free == {p \in PendingFor(S[i].key) :
                      \A j \in 1 .. i - 1 : S[j].id = S[i].id => S[j].key # S[i].key}
<1>1. TakenFor(S, i) = IF free = {} THEN NoBody ELSE pending[CHOOSE p \in free : TRUE].body
  BY DEF TakenFor
<1>2. free # {}
  BY <1>1
<1>3. (CHOOSE p \in free : TRUE) \in free
  BY <1>2
<1> QED BY <1>1, <1>2, <1>3 DEF PendingFor

\* The answered records of a request, each with the body it takes.
LEMMA AnsweredRecords ==
    ASSUME NEW S \in Seq(Captured), NEW id, pending \in Seq(Entry)
    PROVE  /\ AnsweredIn(S, id) \in Seq(Captured) /\ Len(AnsweredIn(S, id)) = Len(S)
           /\ \A i \in 1 .. Len(S) :
                 IF S[i].id # id THEN AnsweredIn(S, id)[i] = S[i]
                 ELSE /\ Same(AnsweredIn(S, id)[i], S[i])
                      /\ AnsweredIn(S, id)[i].key = S[i].key
                      /\ AnsweredIn(S, id)[i].headers = S[i].headers
                      /\ AnsweredIn(S, id)[i].firstByte = S[i].firstByte
                      /\ AnsweredIn(S, id)[i].answered
                      /\ AnsweredIn(S, id)[i].body = TakenFor(S, i)
<1> DEFINE M == Marked(S, id, "answered")
           A == [i \in 1 .. Len(S) |-> IF S[i].id = id
                                       THEN [M[i] EXCEPT !.body = TakenFor(S, i)] ELSE S[i]]
<1>1. DOMAIN S = 1 .. Len(S) /\ Len(S) \in Nat
  OBVIOUS
<1>2. AnsweredIn(S, id) = A
  BY <1>1 DEF AnsweredIn
<1>3. /\ M \in Seq(Captured) /\ Len(M) = Len(S)
      /\ \A i \in 1 .. Len(S) : S[i].id = id => M[i] = [S[i] EXCEPT !.answered = TRUE]
  BY MarkedRecords
<1> HIDE DEF M
<1>4. ASSUME NEW i \in 1 .. Len(S)
      PROVE  TakenFor(S, i) \in Exchanges \cup {NoBody}
  <2>1. ASSUME NEW p \in DOMAIN pending
        PROVE  pending[p].body \in Exchanges
    <3>1. pending[p] \in Entry
      BY ElementOfSeq
    <3> QED BY <3>1 DEF Entry
  <2> QED BY <2>1, TakenBodies
<1>5. ASSUME NEW i \in 1 .. Len(S), S[i].id = id
      PROVE  /\ A[i] \in Captured /\ Same(A[i], S[i]) /\ A[i].key = S[i].key
             /\ A[i].headers = S[i].headers /\ A[i].firstByte = S[i].firstByte
             /\ A[i].answered /\ A[i].body = TakenFor(S, i)
  <2>1. S[i] \in Captured
    BY ElementOfSeq
  <2>2. /\ M[i] \in Captured /\ Same(M[i], S[i]) /\ M[i].key = S[i].key
        /\ M[i].headers = S[i].headers /\ M[i].firstByte = S[i].firstByte /\ M[i].answered
    BY <2>1, <1>3, <1>5 DEF Captured, Same
  <2>3. A[i] = [M[i] EXCEPT !.body = TakenFor(S, i)]
    BY <1>5
  <2> HIDE DEF A
  <2> QED BY <2>2, <2>3, <1>4 DEF Captured, Same
<1>6. ASSUME NEW i \in 1 .. Len(S), S[i].id # id
      PROVE  A[i] = S[i] /\ A[i] \in Captured
  BY <1>6, ElementOfSeq
<1>7. A \in Seq(Captured) /\ Len(A) = Len(S)
  <2>1. DOMAIN A = 1 .. Len(S) /\ \A i \in 1 .. Len(S) : A[i] \in Captured
    BY <1>5, <1>6
  <2>2. A = [i \in 1 .. Len(S) |-> A[i]]
    OBVIOUS
  <2> HIDE DEF A
  <2> QED BY <2>1, <2>2, <1>1
<1> QED BY <1>2, <1>5, <1>6, <1>7

\* Buffering a body evicts the oldest entry of a full buffer, and replaces or appends.
LEMMA BufferedEntries ==
    ASSUME NEW key \in Keys, NEW body \in Exchanges,
           pending \in Seq(Entry), BufferDiffers(pending), Len(pending) <= PendingLimit,
           \A q \in 1 .. Len(pending) : pending[q].body # body
    PROVE  /\ Buffer(key, body) \in Seq(Entry) /\ Len(Buffer(key, body)) <= PendingLimit
           /\ BufferDiffers(Buffer(key, body))
           /\ \A p \in 1 .. Len(Buffer(key, body)) :
                 \/ Buffer(key, body)[p] = [key |-> key, body |-> body]
                 \/ \E q \in 1 .. Len(pending) : Buffer(key, body)[p] = pending[q]
<1> DEFINE kept == IF Len(pending) >= PendingLimit THEN Tail(pending) ELSE pending
           entry == [key |-> key, body |-> body]
           replaced == [i \in 1 .. Len(kept) |-> IF kept[i].key = key THEN entry ELSE kept[i]]
           b == Buffer(key, body)
<1>1. PendingLimit \in Nat /\ PendingLimit > 0 /\ Len(pending) \in Nat
  BY CaptureAssumption
<1>2. entry \in Entry /\ entry.key = key /\ entry.body = body
  BY DEF Entry
<1>3. /\ kept \in Seq(Entry) /\ Len(kept) < PendingLimit
      /\ \A p \in 1 .. Len(kept) : \E q \in 1 .. Len(pending) : kept[p] = pending[q]
      /\ BufferDiffers(kept)
  <2>1. CASE Len(pending) >= PendingLimit
    <3>1. pending # <<>>
      BY <2>1, <1>1
    <3>2. /\ Tail(pending) \in Seq(Entry) /\ Len(Tail(pending)) = Len(pending) - 1
          /\ \A p \in 1 .. Len(Tail(pending)) : Tail(pending)[p] = pending[p + 1]
      BY <3>1, HeadTailProperties
    <3>3. \A p \in 1 .. Len(pending) - 1 : p + 1 \in 1 .. Len(pending)
      BY <1>1
    <3>4. \A p, q \in 1 .. Len(pending) - 1 : p # q => p + 1 # q + 1
      BY <1>1
    <3>5. BufferDiffers(Tail(pending))
      BY <3>2, <3>3, <3>4 DEF BufferDiffers
    <3>6. Len(pending) - 1 < PendingLimit
      BY <1>1
    <3>7. kept = Tail(pending)
      BY <2>1
    <3> HIDE DEF kept
    <3> QED BY <3>2, <3>3, <3>5, <3>6, <3>7
  <2>2. CASE ~(Len(pending) >= PendingLimit)
    <3>1. kept = pending /\ Len(pending) < PendingLimit
      BY <2>2, <1>1
    <3> HIDE DEF kept
    <3> QED BY <3>1
  <2> QED BY <2>1, <2>2
<1>4. b = IF \E i \in DOMAIN kept : kept[i].key = key
          THEN [i \in DOMAIN kept |-> IF kept[i].key = key THEN entry ELSE kept[i]]
          ELSE Append(kept, entry)
  BY DEF Buffer
<1> HIDE DEF kept, b
<1>5. DOMAIN kept = 1 .. Len(kept) /\ Len(kept) \in Nat
  BY <1>3
<1>6. \A p \in 1 .. Len(kept) : kept[p].body # body
  BY <1>3
<1>7. CASE \E i \in DOMAIN kept : kept[i].key = key
  <2>1. b = replaced
    BY <1>4, <1>5, <1>7
  <2>2. \A p \in 1 .. Len(kept) : kept[p] \in Entry
    BY <1>3, ElementOfSeq
  <2>3. \A p \in 1 .. Len(kept) : replaced[p] = IF kept[p].key = key THEN entry ELSE kept[p]
    OBVIOUS
  <2>4. replaced \in Seq(Entry) /\ Len(replaced) = Len(kept)
    BY <2>2, <1>2, <1>5
  <2> HIDE DEF replaced, entry
  <2>5. BufferDiffers(replaced)
    <3>1. ASSUME NEW p \in 1 .. Len(kept), NEW q \in 1 .. Len(kept), p # q
          PROVE  replaced[p].body # replaced[q].body /\ replaced[p].key # replaced[q].key
      <4>1. kept[p].body # kept[q].body /\ kept[p].key # kept[q].key
        BY <3>1, <1>3 DEF BufferDiffers
      <4> QED BY <4>1, <2>3, <1>2, <1>6
    <3> QED BY <3>1, <2>4 DEF BufferDiffers
  <2>6. \A p \in 1 .. Len(kept) :
            replaced[p] = entry \/ \E q \in 1 .. Len(pending) : replaced[p] = pending[q]
    BY <2>3, <1>3
  <2>7. Len(kept) <= PendingLimit
    BY <1>1, <1>3, <1>5
  <2> QED BY <2>1, <2>4, <2>5, <2>6, <2>7 DEF entry, b
<1>8. CASE ~\E i \in DOMAIN kept : kept[i].key = key
  <2>1. b = Append(kept, entry)
    BY <1>4, <1>8
  <2>2. /\ b \in Seq(Entry) /\ Len(b) = Len(kept) + 1
        /\ \A p \in 1 .. Len(kept) : b[p] = kept[p]
        /\ b[Len(kept) + 1] = entry
    BY <2>1, <1>2, <1>3, AppendProperties
  <2> HIDE DEF entry
  <2>3. \A p \in 1 .. Len(b) : p \in 1 .. Len(kept) \/ p = Len(kept) + 1
    BY <2>2, <1>5
  <2>4. BufferDiffers(b)
    <3>1. ASSUME NEW p \in 1 .. Len(kept)
          PROVE  b[p].body # entry.body /\ b[p].key # entry.key
      BY <2>2, <1>2, <1>5, <1>6, <1>8
    <3>2. ASSUME NEW p \in 1 .. Len(kept), NEW q \in 1 .. Len(kept), p # q
          PROVE  b[p].body # b[q].body /\ b[p].key # b[q].key
      BY <3>2, <2>2, <1>3 DEF BufferDiffers
    <3> QED BY <3>1, <3>2, <2>2, <2>3 DEF BufferDiffers
  <2>5. \A p \in 1 .. Len(b) :
            b[p] = entry \/ \E q \in 1 .. Len(pending) : b[p] = pending[q]
    BY <2>2, <2>3, <1>3
  <2>6. Len(b) <= PendingLimit
    BY <2>2, <1>1, <1>3, <1>5
  <2> QED BY <2>2, <2>4, <2>5, <2>6 DEF entry, b
<1> QED BY <1>7, <1>8

-----------------------------------------------------------------------------------
(* What every step keeps.                                                            *)

\* What happened to a request stays so.
NetGrows ==
    /\ \A r \in Requests :
          /\ net[r].begun => net'[r].begun
          /\ net[r].hop <= net'[r].hop
          /\ net[r].sent \subseteq net'[r].sent
          /\ net[r].started => net'[r].started
          /\ net[r].completed => net'[r].completed
    /\ reported \subseteq reported'

LEMMA RecordsKeepTelling ==
    ASSUME Types, Types', NetGrows, NEW c \in Captured, RecordTells(c)
    PROVE  RecordTells(c)'
<1>1. CASE c.id \in Requests
  <2>1. /\ net[c.id].hop \in Nat /\ net'[c.id].hop \in Nat /\ c.hop \in Nat
        /\ net[c.id].hop <= net'[c.id].hop
    <3>1. net[c.id] \in Report /\ net'[c.id] \in Report
      BY <1>1 DEF Types
    <3>2. Hops \subseteq Nat
      BY DEF Hops
    <3>3. c.hop \in Nat
      BY <3>2 DEF Captured
    <3> QED BY <1>1, <3>1, <3>2, <3>3 DEF Report, NetGrows
  <2>2. c.hop <= net'[c.id].hop
    BY <1>1, <2>1 DEF RecordTells
  <2> QED BY <1>1, <2>2 DEF RecordTells, NetGrows
<1>2. CASE c.id \notin Requests
  BY <1>2 DEF RecordTells, NetGrows
<1> QED BY <1>1, <1>2

LEMMA TasksKeepTelling ==
    ASSUME Types, Types', NetGrows, NEW t \in Task, TaskTells(t)
    PROVE  TaskTells(t)'
<1>1. t.kind = "before" => net'[t.id].begun /\ t.hop <= net'[t.id].hop
  <2> SUFFICES ASSUME t.kind = "before"
               PROVE  net'[t.id].begun /\ t.hop <= net'[t.id].hop
    OBVIOUS
  <2>1. t.id \in Requests
    BY DEF TaskTells
  <2>2. /\ net[t.id].hop \in Nat /\ net'[t.id].hop \in Nat /\ t.hop \in Nat
        /\ net[t.id].hop <= net'[t.id].hop
    BY <2>1 DEF Types, Report, Hops, Task, NetGrows
  <2> QED BY <2>1, <2>2 DEF TaskTells, NetGrows
<1>2. t.kind \in {"headers", "firstByte", "completed"} => t.id \in Requests
  BY DEF TaskTells
<1>3. t.kind = "headers" => t.hop \in net'[t.id].sent
  BY <1>2 DEF TaskTells, NetGrows
<1>4. t.kind = "firstByte" => net'[t.id].started
  BY <1>2 DEF TaskTells, NetGrows
<1>5. t.kind = "completed" => net'[t.id].completed
  BY <1>2 DEF TaskTells, NetGrows
<1>6. Brings(t) => t.id \in reported'
  BY DEF TaskTells, NetGrows
<1> QED BY <1>1, <1>3, <1>4, <1>5, <1>6 DEF TaskTells

LEMMA ListsAreLists ==
    ASSUME Types
    PROVE  /\ \A L \in Lists : L \in Seq(Captured)
           /\ \A t \in tasks : t \in Task /\ t.snap \in Lists
           /\ captured \in Lists
BY DEF Types, Task, Lists

\* A handler starts, or gets the list: the others stay, and the new one is told apart.
LEMMA TaskJoins ==
    ASSUME CaptureInv, Types', NetGrows, UNCHANGED <<captured, pending>>,
           NEW rest \in SUBSET tasks, NEW u \in Task, tasks' = rest \cup {u},
           u.snap = captured \/ u.snap = <<>>,
           TaskTells(u)',
           \A t \in rest : /\ Creates(t) /\ Creates(u) => <<t.id, t.hop>> # <<u.id, u.hop>>
                           /\ Brings(t) /\ Brings(u) => t.id # u.id,
           \A L \in Lists : \A i \in 1 .. Len(L) : Apart(L[i], u),
           \A p \in 1 .. Len(pending) : Brings(u) => pending[p].body # u.id
    PROVE  CaptureInv'
<1>1. Types /\ TasksTell /\ TasksDiffer /\ ListsTell /\ ListsAreApart /\ PendingTells
  BY DEF CaptureInv
<1>2. Lists' \subseteq Lists \cup {<<>>}
  BY DEF Lists
<1>3. TasksTell'
  <2>1. ASSUME NEW t \in rest
        PROVE  TaskTells(t)'
    <3>1. t \in Task /\ TaskTells(t)
      BY <1>1 DEF Types, TasksTell
    <3> QED BY <1>1, <3>1, TasksKeepTelling
  <2>2. \A t \in tasks' : TaskTells(t)'
    BY <2>1
  <2> QED BY <2>2 DEF TasksTell
<1>4. TasksDiffer'
  <2>1. ASSUME NEW t \in tasks', NEW v \in tasks', t # v
        PROVE  /\ Creates(t) /\ Creates(v) => <<t.id, t.hop>> # <<v.id, v.hop>>
               /\ Brings(t) /\ Brings(v) => t.id # v.id
    <3>1. CASE t \in rest /\ v \in rest
      BY <3>1, <2>1, <1>1 DEF TasksDiffer
    <3>2. CASE t = u /\ v \in rest
      BY <3>2
    <3>3. CASE t \in rest /\ v = u
      BY <3>3
    <3> QED BY <2>1, <3>1, <3>2, <3>3
  <2> QED BY <2>1 DEF TasksDiffer
<1>5. ListsTell'
  <2>1. ASSUME NEW L \in Lists
        PROVE  ListTells(L)'
    <3>1. L \in Seq(Captured) /\ ListTells(L)
      BY <1>1, ListsAreLists DEF ListsTell
    <3>2. ASSUME NEW i \in 1 .. Len(L)
          PROVE  RecordTells(L[i])'
      <4>1. L[i] \in Captured /\ RecordTells(L[i])
        BY <3>1, ElementOfSeq DEF ListTells
      <4> QED BY <4>1, <1>1, RecordsKeepTelling
    <3> QED BY <3>1, <3>2 DEF ListTells, ListDiffers
  <2>2. ListTells(<<>>)'
    BY CaptureAssumption DEF ListTells, ListDiffers
  <2>3. \A L \in Lists' : ListTells(L)'
    BY <1>2, <2>1, <2>2
  <2> QED BY <2>3 DEF ListsTell
<1>6. ListsAreApart'
  <2>1. ASSUME NEW L \in Lists
        PROVE  ListIsApart(L)'
    BY <1>1 DEF ListsAreApart, ListIsApart
  <2>2. ListIsApart(<<>>)'
    BY DEF ListIsApart
  <2>3. \A L \in Lists' : ListIsApart(L)'
    BY <1>2, <2>1, <2>2
  <2> QED BY <2>3 DEF ListsAreApart
<1>7. PendingTells'
  BY <1>1 DEF PendingTells, NetGrows
<1> QED BY <1>3, <1>4, <1>5, <1>6, <1>7 DEF CaptureInv

\* A handler ends: the lists of the others stay, and what it wrote is told apart.
LEMMA TasksLeave ==
    ASSUME CaptureInv, Types', UNCHANGED <<net, reported>>, tasks' \subseteq tasks,
           ListTells(captured)', ListIsApart(captured)', PendingTells',
           \A L \in Lists : \A i \in 1 .. Len(L), p \in 1 .. Len(pending') :
                L[i].body # pending'[p].body
    PROVE  CaptureInv'
<1>1. Types /\ TasksTell /\ TasksDiffer /\ ListsTell /\ ListsAreApart
  BY DEF CaptureInv
<1>2. NetGrows
  <2>1. ASSUME NEW r \in Requests
        PROVE  net[r].hop <= net[r].hop
    <3>1. net[r].hop \in Nat
      BY <1>1 DEF Types, Report, Hops
    <3> QED BY <3>1
  <2> QED BY <2>1 DEF NetGrows
<1>3. TasksTell'
  <2>1. ASSUME NEW t \in tasks
        PROVE  TaskTells(t)'
    <3>1. t \in Task /\ TaskTells(t)
      BY <1>1 DEF Types, TasksTell
    <3> QED BY <1>1, <1>2, <3>1, TasksKeepTelling
  <2>2. \A t \in tasks' : TaskTells(t)'
    BY <2>1
  <2> QED BY <2>2 DEF TasksTell
<1>4. TasksDiffer'
  BY <1>1 DEF TasksDiffer
<1>5. \A L \in Lists' : L = captured' \/ L \in Lists
  BY DEF Lists
<1>6. ListsTell'
  <2>1. ASSUME NEW L \in Lists
        PROVE  ListTells(L)'
    <3>1. ListTells(L)
      BY <1>1 DEF ListsTell
    <3> QED BY <3>1 DEF ListTells, RecordTells, ListDiffers
  <2>2. \A L \in Lists' : ListTells(L)'
    BY <1>5, <2>1
  <2> QED BY <2>2 DEF ListsTell
<1>7. ListsAreApart'
  <2>1. ASSUME NEW L \in Lists
        PROVE  ListIsApart(L)'
    <3>1. ListIsApart(L)
      BY <1>1 DEF ListsAreApart
    <3> QED BY <3>1 DEF ListIsApart
  <2>2. \A L \in Lists' : ListIsApart(L)'
    BY <1>5, <2>1
  <2> QED BY <2>2 DEF ListsAreApart
<1> QED BY <1>3, <1>4, <1>6, <1>7 DEF CaptureInv

-----------------------------------------------------------------------------------
(* What the handlers write.                                                          *)

LEMMA LeastNumber ==
    ASSUME NEW P \in SUBSET Nat, P # {}
    PROVE  \E m \in P : \A n \in P : m <= n
<1> DEFINE R == {ss \in Nat \X Nat : ss[1] < ss[2]}
<1>1. IsWellFoundedOn(R, Nat)
  BY NatLessThanWellFounded DEF OpToRel
<1>2. PICK m \in P : \A n \in P : ~(<<n, m>> \in R)
  BY <1>1, WFMin
<1>3. \A n \in P : ~(n < m)
  BY <1>2
<1> QED BY <1>3

\* A handler adds a record to the front of its list.
LEMMA RecordIsAdded ==
    ASSUME CaptureInv, Types', UNCHANGED <<net, reported, pending>>,
           NEW t \in tasks, tasks' = tasks \ {t}, Creates(t),
           NEW rec \in Captured, captured' = Prepend(rec, t.snap),
           Same(rec, t), RecordTells(rec), rec.body = NoBody \/ (Brings(t) /\ rec.body = t.id)
    PROVE  CaptureInv'
<1> DEFINE S == t.snap
           L == Prepend(rec, S)
<1>1. Types /\ TasksDiffer /\ ListsTell /\ ListsAreApart /\ PendingTells
  BY DEF CaptureInv
<1>2. S \in Seq(Captured) /\ ListTells(S) /\ ListIsApart(S) /\ t \in Task
  BY <1>1, ListsAreLists DEF ListsTell, ListsAreApart
<1> HIDE DEF S
<1>3. /\ L \in Seq(Captured) /\ Len(L) > 0 /\ Len(L) <= MaxCaptured
      /\ L[1] = rec
      /\ \A i \in 2 .. Len(L) : i - 1 \in 1 .. Len(S) /\ L[i] = S[i - 1]
  BY <1>2, PrependedPositions
<1>4. captured' = L
  BY DEF S
<1> HIDE DEF L
<1>5. \A i \in 1 .. Len(L) : i = 1 \/ i \in 2 .. Len(L)
  BY <1>3
<1>6. ASSUME NEW j \in 1 .. Len(S)
      PROVE  ~Same(S[j], rec) /\ (rec.body = NoBody \/ S[j].body # rec.body)
  BY <1>2 DEF ListIsApart, Apart, Same
<1>7. ASSUME NEW i \in 1 .. Len(L)
      PROVE  RecordTells(L[i])
  BY <1>2, <1>3, <1>5 DEF ListTells
<1>8. ListDiffers(L)
  <2>1. ASSUME NEW i \in 2 .. Len(L), NEW j \in 2 .. Len(L), i # j
        PROVE  ~Same(L[i], L[j]) /\ (L[i].body = NoBody \/ L[i].body # L[j].body)
    <3>1. i - 1 # j - 1
      BY <2>1
    <3>2. /\ i - 1 \in 1 .. Len(S) /\ L[i] = S[i - 1]
          /\ j - 1 \in 1 .. Len(S) /\ L[j] = S[j - 1]
      BY <1>3
    <3>3. ListDiffers(S)
      BY <1>2 DEF ListTells
    <3> QED BY <3>1, <3>2, <3>3 DEF ListDiffers
  <2>2. ASSUME NEW i \in 2 .. Len(L)
        PROVE  /\ ~Same(L[i], L[1]) /\ (L[i].body = NoBody \/ L[i].body # L[1].body)
               /\ ~Same(L[1], L[i]) /\ (L[1].body = NoBody \/ L[i].body # L[1].body)
    BY <1>3, <1>6 DEF Same
  <2>3. ASSUME NEW i \in 1 .. Len(L), NEW j \in 1 .. Len(L), i # j
        PROVE  ~Same(L[i], L[j]) /\ (L[i].body = NoBody \/ L[i].body # L[j].body)
    BY <2>1, <2>2, <2>3, <1>5
  <2> QED BY <2>3 DEF ListDiffers
<1>9. ListTells(captured)'
  <2>1. \A i \in 1 .. Len(L) : RecordTells(L[i])'
    BY <1>7 DEF RecordTells
  <2> QED BY <1>3, <1>4, <1>8, <2>1 DEF ListTells, ListDiffers
<1>10. ListIsApart(captured)'
  <2>1. ASSUME NEW p \in 1 .. Len(pending)
        PROVE  rec.body # pending[p].body
    <3>1. pending[p].body \in Exchanges
      <4>1. pending[p] \in Entry
        BY <1>1, ElementOfSeq DEF Types
      <4> QED BY <4>1 DEF Entry
    <3> QED BY <3>1, <1>1, CaptureAssumption DEF PendingTells
  <2>2. ASSUME NEW u \in tasks \ {t}
        PROVE  Apart(rec, u)
    <3>1. u.id \in Exchanges
      BY <1>1 DEF Types, Task
    <3>2. /\ Creates(u) => <<t.id, t.hop>> # <<u.id, u.hop>>
          /\ Brings(t) /\ Brings(u) => t.id # u.id
      BY <1>1 DEF TasksDiffer
    <3> QED BY <3>1, <3>2, CaptureAssumption DEF Apart, Same
  <2>3. ASSUME NEW i \in 1 .. Len(L)
        PROVE  /\ \A p \in 1 .. Len(pending) : L[i].body # pending[p].body
               /\ \A u \in tasks \ {t} : Apart(L[i], u)
    BY <2>1, <2>2, <1>2, <1>3, <1>5 DEF ListIsApart
  <2> QED BY <2>3, <1>4 DEF ListIsApart
<1>11. PendingTells'
  BY <1>1 DEF PendingTells
<1>12. \A M \in Lists : \A i \in 1 .. Len(M), p \in 1 .. Len(pending') :
          M[i].body # pending'[p].body
  BY <1>1 DEF ListsAreApart, ListIsApart
<1> QED BY <1>9, <1>10, <1>11, <1>12, TasksLeave

\* A handler rewrites its list record by record. A body it sets was buffered, or is its own.
LEMMA ListIsRewritten ==
    ASSUME CaptureInv, Types', UNCHANGED <<net, reported>>,
           NEW t \in tasks, tasks' = tasks \ {t},
           Len(captured') = Len(t.snap),
           \A i \in 1 .. Len(t.snap) :
              /\ Same(captured'[i], t.snap[i]) /\ RecordTells(captured'[i])
              /\ \/ captured'[i].body = t.snap[i].body
                 \/ captured'[i].body = NoBody
                 \/ \E q \in 1 .. Len(pending) : captured'[i].body = pending[q].body
                 \/ Brings(t) /\ captured'[i].body = t.id
              /\ \A p \in 1 .. Len(pending') : captured'[i].body # pending'[p].body,
           \A i, j \in 1 .. Len(t.snap) :
              i # j => captured'[i].body = NoBody \/ captured'[i].body # captured'[j].body
    PROVE  ListTells(captured)' /\ ListIsApart(captured)'
<1> DEFINE S == t.snap
           L == captured'
<1>1. Types /\ TasksDiffer /\ ListsTell /\ ListsAreApart /\ PendingTells
  BY DEF CaptureInv
<1>2. S \in Seq(Captured) /\ ListTells(S) /\ ListIsApart(S) /\ t \in Task
  BY <1>1, ListsAreLists DEF ListsTell, ListsAreApart
<1>3. ListTells(captured)'
  <2>1. \A i \in 1 .. Len(S) : RecordTells(captured[i])'
    BY DEF RecordTells
  <2>2. \A i, j \in 1 .. Len(S) : i # j => ~Same(L[i], L[j])
    BY <1>2 DEF ListTells, ListDiffers, Same
  <2>3. Len(L) <= MaxCaptured
    BY <1>2 DEF ListTells
  <2> QED BY <2>1, <2>2, <2>3 DEF ListTells, ListDiffers
<1>4. ASSUME NEW i \in 1 .. Len(S), NEW u \in tasks \ {t}
      PROVE  Apart(L[i], u)
  <2>1. u.id \in Exchanges /\ Apart(S[i], u)
    BY <1>1, <1>2 DEF Types, Task, ListIsApart
  <2>2. Creates(u) => ~Same(L[i], u)
    BY <2>1 DEF Apart, Same
  <2>3. ASSUME Brings(u)
        PROVE  L[i].body # u.id
    <3>1. Brings(t) => t.id # u.id
      BY <1>1, <2>3 DEF TasksDiffer
    <3>2. \A q \in 1 .. Len(pending) : pending[q].body # u.id
      BY <1>1, <2>3 DEF PendingTells
    <3>3. u.id # NoBody /\ S[i].body # u.id
      BY <2>1, <2>3, CaptureAssumption DEF Apart
    <3> QED BY <3>1, <3>2, <3>3
  <2> QED BY <2>2, <2>3 DEF Apart
<1>5. ListIsApart(captured)'
  BY <1>4 DEF ListIsApart
<1> QED BY <1>3, <1>5

\* A handler ends, or the worker does, and nothing new is written.
LEMMA TasksOnlyLeave ==
    ASSUME CaptureInv, UNCHANGED <<net, reported>>, tasks' \subseteq tasks,
           captured' = captured \/ captured' = <<>>, pending' = pending \/ pending' = <<>>
    PROVE  CaptureInv'
<1>1. Types /\ ListsTell /\ ListsAreApart /\ PendingTells
  BY DEF CaptureInv
<1>2. Types'
  <2>1. captured \in Seq(Captured) /\ <<>> \in Seq(Captured)
    BY <1>1, EmptySeq DEF Types
  <2>2. pending \in Seq(Entry) /\ <<>> \in Seq(Entry)
    BY <1>1, EmptySeq DEF Types
  <2>3. captured' \in Seq(Captured) /\ pending' \in Seq(Entry)
    BY <2>1, <2>2, Zenon
  <2> QED BY <1>1, <2>3 DEF Types
<1>3. ListTells(captured) /\ ListIsApart(captured)
  BY <1>1 DEF ListsTell, ListsAreApart, Lists
<1>4. ListTells(captured)'
  BY <1>3, CaptureAssumption DEF ListTells, ListDiffers, RecordTells
<1>5. ListIsApart(captured)'
  BY <1>3 DEF ListIsApart
<1>6. PendingTells'
  BY <1>1, CaptureAssumption DEF PendingTells
<1>7. \A L \in Lists : \A i \in 1 .. Len(L), p \in 1 .. Len(pending') :
          L[i].body # pending'[p].body
  BY <1>1 DEF ListsAreApart, ListIsApart
<1> QED BY <1>2, <1>4, <1>5, <1>6, <1>7, TasksLeave

\* A handler marks a fact that has happened on every record of its request.
LEMMA FactIsMarked ==
    ASSUME CaptureInv, UNCHANGED <<net, reported, pending>>,
           NEW t \in tasks, tasks' = tasks \ {t}, t.id \in Requests,
           NEW fact \in {"headers", "firstByte"},
           captured' = Marked(t.snap, t.id, fact) \/ captured' = captured,
           fact = "firstByte" => net[t.id].started,
           fact = "headers" => \A i \in 1 .. Len(t.snap) : t.snap[i].id = t.id =>
                                  \E h \in net[t.id].sent : h >= t.snap[i].hop
    PROVE  CaptureInv'
<1> DEFINE S == t.snap
           M == Marked(S, t.id, fact)
<1>1. Types /\ ListsTell /\ ListsAreApart /\ PendingTells
  BY DEF CaptureInv
<1>2. S \in Seq(Captured) /\ ListTells(S) /\ ListIsApart(S)
  BY <1>1, ListsAreLists DEF ListsTell, ListsAreApart
<1>3. /\ M \in Seq(Captured) /\ Len(M) = Len(S)
      /\ \A i \in 1 .. Len(S) : M[i] = IF S[i].id = t.id THEN [S[i] EXCEPT ![fact] = TRUE]
                                       ELSE S[i]
  BY <1>2, MarkedRecords
<1>10. captured' = M \/ captured' = captured
  OBVIOUS
<1> HIDE DEF M
<1>4. CASE captured' = captured
  BY <1>4, TasksOnlyLeave
<1>5. CASE captured' = M
  <2>1. Types'
    BY <1>1, <1>3, <1>5 DEF Types
  <2>2. ASSUME NEW i \in 1 .. Len(S)
        PROVE  Same(M[i], S[i]) /\ RecordTells(M[i]) /\ M[i].body = S[i].body
    <3>1. S[i] \in Captured /\ RecordTells(S[i])
      BY <1>2, ElementOfSeq DEF ListTells
    <3>2. CASE S[i].id # t.id
      BY <3>1, <3>2, <1>3 DEF Same
    <3>3. CASE S[i].id = t.id /\ fact = "headers"
      <4>1. M[i] = [S[i] EXCEPT !.headers = TRUE]
        BY <3>3, <1>3
      <4>2. /\ Same(M[i], S[i]) /\ M[i].key = S[i].key /\ M[i].firstByte = S[i].firstByte
            /\ M[i].answered = S[i].answered /\ M[i].body = S[i].body
        BY <3>1, <4>1 DEF Captured, Same
      <4>3. \E h \in net[t.id].sent : h >= S[i].hop
        BY <3>3
      <4> QED BY <3>1, <3>3, <4>2, <4>3 DEF RecordTells, Same
    <3>4. CASE S[i].id = t.id /\ fact = "firstByte"
      <4>1. M[i] = [S[i] EXCEPT !.firstByte = TRUE]
        BY <3>4, <1>3
      <4>2. /\ Same(M[i], S[i]) /\ M[i].key = S[i].key /\ M[i].headers = S[i].headers
            /\ M[i].answered = S[i].answered /\ M[i].body = S[i].body
        BY <3>1, <4>1 DEF Captured, Same
      <4> QED BY <3>1, <3>4, <4>2 DEF RecordTells, Same
    <3> QED BY <3>2, <3>3, <3>4
  <2>3. \A i \in 1 .. Len(S), p \in 1 .. Len(pending') : M[i].body # pending'[p].body
    BY <2>2, <1>2 DEF ListIsApart
  <2>4. \A i, j \in 1 .. Len(S) : i # j => M[i].body = NoBody \/ M[i].body # M[j].body
    BY <2>2, <1>2 DEF ListTells, ListDiffers
  <2>5. ListTells(captured)' /\ ListIsApart(captured)'
    <3>1. /\ Len(captured') = Len(t.snap)
          /\ \A i \in 1 .. Len(t.snap) :
                /\ Same(captured'[i], t.snap[i]) /\ RecordTells(captured'[i])
                /\ captured'[i].body = t.snap[i].body
                /\ \A p \in 1 .. Len(pending') : captured'[i].body # pending'[p].body
          /\ \A i, j \in 1 .. Len(t.snap) :
                i # j => captured'[i].body = NoBody \/ captured'[i].body # captured'[j].body
      BY <1>3, <1>5, <2>2, <2>3, <2>4
    <3> QED BY <2>1, <3>1, ListIsRewritten
  <2>6. PendingTells'
    BY <1>1 DEF PendingTells
  <2>7. \A L \in Lists : \A i \in 1 .. Len(L), p \in 1 .. Len(pending') :
            L[i].body # pending'[p].body
    BY <1>1 DEF ListsAreApart, ListIsApart
  <2> QED BY <2>1, <2>5, <2>6, <2>7, TasksLeave
<1> QED BY <1>4, <1>5, <1>10

\* onCompleted answers every record of its request, with the bodies that were buffered.
LEMMA RequestIsAnswered ==
    ASSUME CaptureInv, UNCHANGED <<net, reported>>,
           NEW t \in tasks, tasks' = tasks \ {t}, t.kind = "completed", WriteCompleted(t)
    PROVE  CaptureInv'
<1> DEFINE S == t.snap
           A == AnsweredIn(S, t.id)
           B == LeftBy(S, t.id)
<1>1. Types /\ TasksTell /\ ListsTell /\ ListsAreApart /\ PendingTells
  BY DEF CaptureInv
<1>2. S \in Seq(Captured) /\ ListTells(S) /\ ListIsApart(S)
  BY <1>1, ListsAreLists DEF ListsTell, ListsAreApart
<1>3. t.id \in Requests /\ net[t.id].completed
  BY <1>1 DEF TasksTell, TaskTells
<1>4. pending \in Seq(Entry) /\ BufferDiffers(pending)
  BY <1>1 DEF Types, PendingTells, BufferDiffers
<1>5. /\ A \in Seq(Captured) /\ Len(A) = Len(S)
      /\ \A i \in 1 .. Len(S) :
            IF S[i].id # t.id THEN A[i] = S[i]
            ELSE /\ Same(A[i], S[i]) /\ A[i].key = S[i].key /\ A[i].headers = S[i].headers
                 /\ A[i].firstByte = S[i].firstByte /\ A[i].answered
                 /\ A[i].body = TakenFor(S, i)
  BY <1>2, <1>4, AnsweredRecords
<1>6. /\ B \in Seq(Entry) /\ Len(B) <= Len(pending) /\ BufferDiffers(B)
      /\ \A p \in 1 .. Len(B) :
            /\ \E q \in 1 .. Len(pending) : B[p] = pending[q]
            /\ \A i \in 1 .. Len(S) : S[i].id = t.id => B[p].key # HopKey(t.id, S[i].hop)
  BY <1>2, <1>4, LeftEntries
<1>7. captured' = A /\ pending' = B
  BY DEF WriteCompleted
<1> HIDE DEF A, B
<1>8. Types'
  BY <1>1, <1>5, <1>6, <1>7 DEF Types
<1>9. ASSUME NEW i \in 1 .. Len(S), S[i].id = t.id, TakenFor(S, i) # NoBody
      PROVE  /\ \E q \in 1 .. Len(pending) :
                   pending[q].key = S[i].key /\ TakenFor(S, i) = pending[q].body
             /\ \A j \in 1 .. i - 1 : S[j].id = S[i].id => S[j].key # S[i].key
  <2>1. DOMAIN pending = 1 .. Len(pending)
    BY <1>4
  <2> QED BY <2>1, <1>2, <1>9, TakenBodies
<1>10. ASSUME NEW i \in 1 .. Len(S)
       PROVE  /\ Same(A[i], S[i]) /\ A[i].key = S[i].key /\ RecordTells(A[i])
              /\ \/ A[i].body = S[i].body
                 \/ A[i].body = NoBody
                 \/ \E q \in 1 .. Len(pending) : A[i].body = pending[q].body
  <2>1. RecordTells(S[i])
    BY <1>2 DEF ListTells
  <2>2. CASE S[i].id # t.id
    BY <2>1, <2>2, <1>5 DEF Same
  <2>3. CASE S[i].id = t.id
    <3>1. /\ Same(A[i], S[i]) /\ A[i].key = S[i].key /\ A[i].headers = S[i].headers
          /\ A[i].firstByte = S[i].firstByte /\ A[i].answered
          /\ A[i].body = TakenFor(S, i)
      BY <2>3, <1>5
    <3>2. CASE TakenFor(S, i) = NoBody
      BY <3>1, <3>2, <2>1, <2>3, <1>3 DEF RecordTells, Same
    <3>3. CASE TakenFor(S, i) # NoBody
      <4>1. PICK q \in 1 .. Len(pending) :
                pending[q].key = S[i].key /\ TakenFor(S, i) = pending[q].body
        BY <2>3, <3>3, <1>9
      <4>2. pending[q].body \in reported /\ KeyOf[pending[q].body] = pending[q].key
        BY <1>1 DEF PendingTells
      <4>3. RecordTells(A[i])
        BY <3>1, <4>1, <4>2, <2>1, <2>3, <1>3 DEF RecordTells, Same
      <4> QED BY <3>1, <4>1, <4>3
    <3> QED BY <3>2, <3>3
  <2> QED BY <2>2, <2>3
<1>11. ASSUME NEW i \in 1 .. Len(S), NEW p \in 1 .. Len(B)
       PROVE  A[i].body # B[p].body
  <2>1. PICK q \in 1 .. Len(pending) : B[p] = pending[q]
    BY <1>6
  <2>2. CASE S[i].id # t.id
    BY <2>1, <2>2, <1>2, <1>5 DEF ListIsApart
  <2>3. CASE S[i].id = t.id /\ TakenFor(S, i) = NoBody
    <3>1. pending[q].body \in Exchanges
      <4>1. pending[q] \in Entry
        BY <1>4, ElementOfSeq
      <4> QED BY <4>1 DEF Entry
    <3> QED BY <2>1, <2>3, <3>1, <1>5, CaptureAssumption
  <2>4. CASE S[i].id = t.id /\ TakenFor(S, i) # NoBody
    <3>1. PICK k \in 1 .. Len(pending) :
              pending[k].key = S[i].key /\ TakenFor(S, i) = pending[k].body
      BY <2>4, <1>9
    <3>2. S[i].key = HopKey(t.id, S[i].hop)
      BY <1>2, <2>4 DEF ListTells, RecordTells
    <3>3. B[p].key # S[i].key
      BY <3>2, <2>4, <1>6
    <3>4. k # q
      BY <2>1, <3>1, <3>3
    <3> QED BY <2>1, <2>4, <3>1, <3>4, <1>4, <1>5 DEF BufferDiffers
  <2> QED BY <2>2, <2>3, <2>4
<1>12. ASSUME NEW i \in 1 .. Len(S), NEW j \in 1 .. Len(S), i # j, A[i].body # NoBody
       PROVE  A[i].body # A[j].body
  <2>1. ASSUME NEW x \in 1 .. Len(S), NEW y \in 1 .. Len(S), S[x].id = t.id, S[y].id # t.id,
               TakenFor(S, x) # NoBody
        PROVE  A[x].body # A[y].body
    BY <2>1, <1>2, <1>5, <1>9 DEF ListIsApart
  <2>2. CASE S[i].id # t.id /\ S[j].id # t.id
    BY <2>2, <1>2, <1>5, <1>12 DEF ListTells, ListDiffers
  <2>3. CASE S[i].id = t.id /\ S[j].id # t.id
    BY <2>1, <2>3, <1>5, <1>12
  <2>4. CASE S[i].id # t.id /\ S[j].id = t.id
    <3>1. CASE TakenFor(S, j) = NoBody
      BY <3>1, <2>4, <1>5, <1>12
    <3>2. CASE TakenFor(S, j) # NoBody
      BY <3>2, <2>1, <2>4
    <3> QED BY <3>1, <3>2
  <2>5. CASE S[i].id = t.id /\ S[j].id = t.id
    <3>1. A[i].body = TakenFor(S, i) /\ A[j].body = TakenFor(S, j)
      BY <2>5, <1>5
    <3>2. SUFFICES ASSUME TakenFor(S, i) # NoBody, TakenFor(S, j) # NoBody
                   PROVE  TakenFor(S, i) # TakenFor(S, j)
      BY <3>1, <1>12
    <3>3. S[i].key # S[j].key
      <4>1. i \in Nat /\ j \in Nat /\ (i \in 1 .. j - 1 \/ j \in 1 .. i - 1)
        BY <1>12
      <4> QED BY <4>1, <3>2, <2>5, <1>9
    <3> QED BY <3>2, <3>3, <2>5, <1>4, <1>9 DEF BufferDiffers
  <2> QED BY <2>2, <2>3, <2>4, <2>5
<1>13. ListTells(captured)' /\ ListIsApart(captured)'
  <2>1. /\ Len(captured') = Len(t.snap)
        /\ \A i \in 1 .. Len(t.snap) :
              /\ Same(captured'[i], t.snap[i]) /\ RecordTells(captured'[i])
              /\ \/ captured'[i].body = t.snap[i].body
                 \/ captured'[i].body = NoBody
                 \/ \E q \in 1 .. Len(pending) : captured'[i].body = pending[q].body
              /\ \A p \in 1 .. Len(pending') : captured'[i].body # pending'[p].body
        /\ \A i, j \in 1 .. Len(t.snap) :
              i # j => captured'[i].body = NoBody \/ captured'[i].body # captured'[j].body
    BY <1>5, <1>7, <1>10, <1>11, <1>12
  <2> QED BY <1>8, <2>1, ListIsRewritten
<1>14. PendingTells'
  <2>1. Len(B) <= PendingLimit
    <3>1. Len(B) \in Nat /\ Len(pending) \in Nat /\ PendingLimit \in Nat
      BY <1>4, <1>6, CaptureAssumption
    <3> QED BY <3>1, <1>1, <1>6 DEF PendingTells
  <2>2. ASSUME NEW p \in 1 .. Len(B)
        PROVE  /\ B[p].body \in reported /\ KeyOf[B[p].body] = B[p].key
               /\ \A u \in tasks : Brings(u) => B[p].body # u.id
    <3>1. PICK q \in 1 .. Len(pending) : B[p] = pending[q]
      BY <1>6
    <3> QED BY <3>1, <1>1 DEF PendingTells
  <2> QED BY <2>1, <2>2, <1>6, <1>7 DEF PendingTells, BufferDiffers
<1>15. \A L \in Lists : \A i \in 1 .. Len(L), p \in 1 .. Len(pending') :
          L[i].body # pending'[p].body
  <2>1. \A L \in Lists : \A i \in 1 .. Len(L), q \in 1 .. Len(pending) :
            L[i].body # pending[q].body
    BY <1>1 DEF ListsAreApart, ListIsApart
  <2>2. \A p \in 1 .. Len(pending') : \E q \in 1 .. Len(pending) : pending'[p] = pending[q]
    BY <1>6, <1>7
  <2> QED BY <2>1, <2>2
<1> QED BY <1>8, <1>13, <1>14, <1>15, TasksLeave

\* The page's answer goes to the newest answered record without one, or to the buffer.
LEMMA BodyIsBrought ==
    ASSUME CaptureInv, UNCHANGED <<net, reported>>,
           NEW t \in tasks, tasks' = tasks \ {t}, t.kind = "body", WriteBody(t)
    PROVE  CaptureInv'
<1> DEFINE S == t.snap
           key == KeyOf[t.id]
           waiting == WaitingForBody(S, key)
           k == CHOOSE i \in waiting : \A j \in waiting : i <= j
           A == [S EXCEPT ![k] = [S[k] EXCEPT !.body = t.id]]
           B == Buffer(key, t.id)
<1>1. Types /\ TasksTell /\ TasksDiffer /\ ListsTell /\ ListsAreApart /\ PendingTells
  BY DEF CaptureInv
<1>2. S \in Seq(Captured) /\ ListTells(S) /\ ListIsApart(S) /\ t \in Task
  BY <1>1, ListsAreLists DEF ListsTell, ListsAreApart
<1>3. t.id \in reported /\ Brings(t) /\ t.id \in Exchanges /\ t.id # NoBody
  BY <1>1, <1>2, CaptureAssumption DEF TasksTell, TaskTells, Brings, Task
<1>4. pending \in Seq(Entry) /\ BufferDiffers(pending)
  BY <1>1 DEF Types, PendingTells, BufferDiffers
<1>5. \A L \in Lists : \A i \in 1 .. Len(L) :
          /\ L[i].body # t.id
          /\ \A p \in 1 .. Len(pending) : L[i].body # pending[p].body
  BY <1>1, <1>3 DEF ListsAreApart, ListIsApart, Apart
<1>6. \A p \in 1 .. Len(pending) : pending[p].body # t.id
  BY <1>1, <1>3 DEF PendingTells
<1>7. IF waiting # {} THEN captured' = A /\ pending' = pending
                      ELSE captured' = captured /\ pending' = B
  BY DEF WriteBody
<1>8. CASE waiting # {}
  <2>1. DOMAIN S = 1 .. Len(S) /\ Len(S) \in Nat
    BY <1>2
  <2>2. waiting \in SUBSET Nat
    BY <2>1 DEF WaitingForBody
  <2>3. k \in waiting
    BY <1>8, <2>2, LeastNumber
  <2>4. k \in 1 .. Len(S) /\ S[k].key = key /\ S[k].answered /\ S[k].body = NoBody
    BY <2>1, <2>3 DEF WaitingForBody
  <2>5. captured' = A /\ pending' = pending
    BY <1>7, <1>8
  <2> HIDE DEF k, waiting
  <2>6. S[k] \in Captured
    BY <1>2, <2>4, ElementOfSeq
  <2> DEFINE new == [S[k] EXCEPT !.body = t.id]
  <2>7. /\ new \in Captured /\ Same(new, S[k]) /\ new.key = S[k].key /\ new.body = t.id
        /\ new.headers = S[k].headers /\ new.firstByte = S[k].firstByte
        /\ new.answered = S[k].answered
    BY <2>6, <1>3 DEF Captured, Same
  <2> HIDE DEF new
  <2>8. /\ A \in Seq(Captured) /\ Len(A) = Len(S)
        /\ \A i \in 1 .. Len(S) : A[i] = IF i = k THEN new ELSE S[i]
    <3>1. A = [S EXCEPT ![k] = new]
      BY DEF new
    <3> HIDE DEF A
    <3> QED BY <3>1, <1>2, <2>1, <2>4, <2>7, ExceptSeq
  <2> HIDE DEF A
  <2>9. RecordTells(new)
    <3>1. RecordTells(S[k])
      BY <1>2, <2>4 DEF ListTells
    <3> QED BY <3>1, <1>3, <2>4, <2>7 DEF RecordTells, Same
  <2>10. ASSUME NEW i \in 1 .. Len(S)
         PROVE  /\ Same(A[i], S[i]) /\ RecordTells(A[i])
                /\ A[i].body = S[i].body \/ A[i].body = t.id
                /\ \A p \in 1 .. Len(pending') : A[i].body # pending'[p].body
    <3>1. CASE i = k
      BY <3>1, <1>6, <2>5, <2>7, <2>8, <2>9
    <3>2. CASE i # k
      BY <3>2, <1>2, <2>5, <2>8 DEF ListTells, ListIsApart, Same
    <3> QED BY <3>1, <3>2
  <2>11. ASSUME NEW i \in 1 .. Len(S), NEW j \in 1 .. Len(S), i # j
         PROVE  A[i].body = NoBody \/ A[i].body # A[j].body
    <3>1. S[i].body # t.id /\ S[j].body # t.id
      BY <1>2, <1>3 DEF ListIsApart, Apart
    <3>2. S[i].body = NoBody \/ S[i].body # S[j].body
      BY <1>2, <2>11 DEF ListTells, ListDiffers
    <3> QED BY <3>1, <3>2, <2>7, <2>8, <2>11
  <2>12. Types'
    BY <1>1, <2>5, <2>8 DEF Types
  <2>13. ListTells(captured)' /\ ListIsApart(captured)'
    <3>1. /\ Len(captured') = Len(t.snap)
          /\ \A i \in 1 .. Len(t.snap) :
                /\ Same(captured'[i], t.snap[i]) /\ RecordTells(captured'[i])
                /\ captured'[i].body = t.snap[i].body \/ captured'[i].body = t.id
                /\ \A p \in 1 .. Len(pending') : captured'[i].body # pending'[p].body
          /\ \A i, j \in 1 .. Len(t.snap) :
                i # j => captured'[i].body = NoBody \/ captured'[i].body # captured'[j].body
      BY <2>5, <2>8, <2>10, <2>11
    <3> QED BY <3>1, <2>12, <1>3, ListIsRewritten
  <2>14. PendingTells'
    BY <1>1, <2>5 DEF PendingTells
  <2> QED BY <1>5, <2>5, <2>12, <2>13, <2>14, TasksLeave
<1>9. CASE waiting = {}
  <2>1. captured' = captured /\ pending' = B
    BY <1>7, <1>9
  <2>2. key \in Keys
    BY <1>3, CaptureAssumption
  <2>3. Len(pending) <= PendingLimit
    BY <1>1 DEF PendingTells
  <2> HIDE DEF key, waiting
  <2>4. /\ B \in Seq(Entry) /\ Len(B) <= PendingLimit /\ BufferDiffers(B)
        /\ \A p \in 1 .. Len(B) :
              \/ B[p] = [key |-> key, body |-> t.id]
              \/ \E q \in 1 .. Len(pending) : B[p] = pending[q]
    BY <2>2, <2>3, <1>3, <1>4, <1>6, BufferedEntries
  <2> HIDE DEF B
  <2>5. ASSUME NEW p \in 1 .. Len(B)
        PROVE  /\ B[p].body = t.id /\ B[p].key = key
               \/ \E q \in 1 .. Len(pending) : B[p] = pending[q]
    BY <2>4
  <2>6. Types'
    BY <1>1, <2>1, <2>4 DEF Types
  <2>7. \A L \in Lists : \A i \in 1 .. Len(L), p \in 1 .. Len(B) : L[i].body # B[p].body
    BY <2>5, <1>5
  <2>8. captured \in Lists /\ ListTells(captured) /\ ListIsApart(captured)
    BY <1>1, ListsAreLists DEF ListsTell, ListsAreApart
  <2>9. ListTells(captured)'
    BY <2>1, <2>8 DEF ListTells, ListDiffers, RecordTells
  <2>10. ListIsApart(captured)'
    BY <2>1, <2>7, <2>8 DEF ListIsApart
  <2>11. PendingTells'
    <3>1. ASSUME NEW p \in 1 .. Len(B)
          PROVE  /\ B[p].body \in reported /\ KeyOf[B[p].body] = B[p].key
                 /\ \A u \in tasks \ {t} : Brings(u) => B[p].body # u.id
      <4>1. CASE B[p].body = t.id /\ B[p].key = key
        BY <4>1, <1>1, <1>3 DEF TasksDiffer, key
      <4>2. CASE \E q \in 1 .. Len(pending) : B[p] = pending[q]
        BY <4>2, <1>1 DEF PendingTells
      <4> QED BY <4>1, <4>2, <2>5
    <3> QED BY <3>1, <2>1, <2>4 DEF PendingTells, BufferDiffers
  <2> QED BY <2>1, <2>6, <2>7, <2>9, <2>10, <2>11, TasksLeave
<1> QED BY <1>8, <1>9

\* The record a handler makes, with a body only if the handler brings one.
LEMMA NewRecords ==
    ASSUME CaptureInv, NEW t \in tasks, Creates(t)
    PROVE  /\ t.kind = "before" => /\ FreshRecord(t.id, t.hop) \in Captured
                                   /\ RecordTells(FreshRecord(t.id, t.hop))
                                   /\ Same(FreshRecord(t.id, t.hop), t)
                                   /\ FreshRecord(t.id, t.hop).body = NoBody
           /\ t.kind \in {"mock", "replay"} =>
                 \A body \in {t.id, NoBody} : /\ Whole(t.id, body) \in Captured
                                              /\ RecordTells(Whole(t.id, body))
                                              /\ Same(Whole(t.id, body), t)
                                              /\ Whole(t.id, body).body = body
<1>1. /\ t.kind \in Kinds /\ t.id \in Exchanges /\ t.hop \in Hops
      /\ TaskTells(t)
  BY DEF CaptureInv, Types, Task, TasksTell
<1>2. 0 \in Hops /\ HopKey(t.id, 0) = KeyOf[t.id] /\ KeyOf[t.id] \in Keys
  BY <1>1, CaptureAssumption DEF HopKey, Hops
<1>3. ASSUME t.kind = "before"
      PROVE  /\ FreshRecord(t.id, t.hop) \in Captured /\ RecordTells(FreshRecord(t.id, t.hop))
             /\ Same(FreshRecord(t.id, t.hop), t) /\ FreshRecord(t.id, t.hop).body = NoBody
  <2> DEFINE rec == FreshRecord(t.id, t.hop)
  <2>1. t.id \in Requests /\ net[t.id].begun /\ t.hop <= net[t.id].hop
    BY <1>1, <1>3 DEF TaskTells
  <2>2. HopKey(t.id, t.hop) \in Keys
    <3>1. CASE t.hop = 0
      BY <3>1, <1>2
    <3>2. CASE t.hop # 0
      <4>1. t.id \in DOMAIN RedirectTo
        BY <3>2, <1>1, <1>3 DEF TaskTells
      <4>2. RedirectTo[t.id] \in Keys
        BY <4>1, CaptureAssumption
      <4> QED BY <3>2, <4>2 DEF HopKey
    <3> QED BY <3>1, <3>2
  <2>3. /\ rec \in Captured /\ rec.id = t.id /\ rec.hop = t.hop
        /\ rec.key = HopKey(t.id, t.hop) /\ rec.body = NoBody
        /\ ~rec.headers /\ ~rec.firstByte /\ ~rec.answered
    BY <1>1, <2>2 DEF FreshRecord, Captured
  <2> HIDE DEF rec
  <2>4. RecordTells(rec) /\ Same(rec, t)
    BY <2>1, <2>3 DEF RecordTells, Same
  <2> QED BY <2>3, <2>4 DEF rec
<1>4. ASSUME t.kind \in {"mock", "replay"}, NEW body \in {t.id, NoBody}
      PROVE  /\ Whole(t.id, body) \in Captured /\ RecordTells(Whole(t.id, body))
             /\ Same(Whole(t.id, body), t) /\ Whole(t.id, body).body = body
  <2> DEFINE rec == Whole(t.id, body)
             key == HopKey(t.id, 0)
  <2>1. t.id \notin Requests /\ t.id \in reported /\ t.hop = 0
    BY <1>1, <1>4 DEF TaskTells, Brings
  <2>2. body \in Exchanges \cup {NoBody} /\ (body # NoBody => body = t.id)
    BY <1>1, <1>4
  <2> DEFINE fresh == FreshRecord(t.id, 0)
             sent == [fresh EXCEPT !.headers = TRUE]
             answered == [sent EXCEPT !.answered = TRUE]
  <2>3. fresh \in Captured /\ fresh.id = t.id /\ fresh.hop = 0 /\ fresh.key = key
    BY <1>1, <1>2 DEF FreshRecord, Captured
  <2>6. rec = [answered EXCEPT !.body = body]
    BY <2>3 DEF Whole, Captured
  <2> HIDE DEF rec, key, fresh
  <2>7. sent \in Captured /\ sent.id = t.id /\ sent.hop = 0 /\ sent.key = key
    BY <2>3 DEF Captured
  <2> HIDE DEF sent
  <2>8. /\ answered \in Captured /\ answered.id = t.id /\ answered.hop = 0
        /\ answered.key = key /\ answered.answered
    BY <2>7 DEF Captured
  <2> HIDE DEF answered
  <2>4. /\ rec \in Captured /\ rec.id = t.id /\ rec.hop = 0
        /\ rec.key = key /\ rec.body = body /\ rec.answered
    BY <2>2, <2>6, <2>8 DEF Captured
  <2>5. RecordTells(rec) /\ Same(rec, t)
    BY <1>2, <2>1, <2>2, <2>4 DEF RecordTells, Same, key
  <2> QED BY <2>4, <2>5 DEF rec
<1> QED BY <1>3, <1>4

LEMMA WritesKeepTheInvariant ==
    ASSUME CaptureInv, NEW t \in tasks, Write(t)
    PROVE  CaptureInv'
<1>1. Types /\ TasksTell /\ ListsTell
  BY DEF CaptureInv
<1>2. /\ t.snap \in Seq(Captured) /\ ListTells(t.snap)
      /\ t \in Task /\ t.kind \in Kinds /\ t.id \in Exchanges /\ TaskTells(t)
  BY <1>1, ListsAreLists DEF ListsTell, Types, Task, TasksTell
<1>3. UNCHANGED <<net, reported>> /\ tasks' = tasks \ {t}
  BY DEF Write
<1>4. ASSUME NEW rec \in Captured, captured' = Prepend(rec, t.snap), pending' = pending,
             Creates(t), RecordTells(rec), Same(rec, t),
             rec.body = NoBody \/ (Brings(t) /\ rec.body = t.id)
      PROVE  CaptureInv'
  <2>1. captured' \in Seq(Captured)
    BY <1>2, <1>4, PrependedPositions
  <2>2. Types'
    BY <1>1, <1>3, <1>4, <2>1 DEF Types
  <2> QED BY <1>3, <1>4, <2>2, RecordIsAdded
<1>5. CASE t.kind = "before"
  <2>1. captured' = Prepend(FreshRecord(t.id, t.hop), t.snap) /\ pending' = pending
    BY <1>5 DEF Write, WriteBefore
  <2>2. Creates(t)
    BY <1>5 DEF Creates
  <2> QED BY <1>4, <1>5, <2>1, <2>2, NewRecords
<1>6. CASE t.kind = "mock"
  <2>1. captured' = Prepend(Whole(t.id, t.id), t.snap) /\ pending' = pending
    BY <1>6 DEF Write, WriteMock
  <2>2. Creates(t) /\ Brings(t)
    BY <1>6 DEF Creates, Brings
  <2>3. /\ Whole(t.id, t.id) \in Captured /\ RecordTells(Whole(t.id, t.id))
        /\ Same(Whole(t.id, t.id), t) /\ Whole(t.id, t.id).body = t.id
    BY <1>6, <2>2, NewRecords
  <2> QED BY <1>4, <2>1, <2>2, <2>3
<1>7. CASE t.kind = "replay"
  <2>1. PICK body \in {t.id, NoBody} :
            captured' = Prepend(Whole(t.id, body), t.snap) /\ pending' = pending
    BY <1>7 DEF Write, WriteReplay
  <2>2. Creates(t) /\ Brings(t)
    BY <1>7 DEF Creates, Brings
  <2>3. /\ Whole(t.id, body) \in Captured /\ RecordTells(Whole(t.id, body))
        /\ Same(Whole(t.id, body), t) /\ Whole(t.id, body).body = body
    BY <1>7, <2>2, NewRecords
  <2> QED BY <1>4, <2>1, <2>2, <2>3
<1>8. CASE t.kind = "headers"
  <2>1. /\ captured' = Marked(t.snap, t.id, "headers") \/ captured' = captured
        /\ pending' = pending
    BY <1>8 DEF Write, WriteHeaders
  <2>2. t.id \in Requests
    BY <1>2, <1>8 DEF TaskTells
  <2>3. ASSUME NEW i \in 1 .. Len(t.snap), t.snap[i].id = t.id
        PROVE  \E h \in net[t.id].sent : h >= t.snap[i].hop
    <3>1. t.hop \in net[t.id].sent /\ t.snap[i].hop <= t.hop
      BY <1>2, <1>8, <2>3 DEF TaskTells
    <3>2. t.hop \in Nat /\ t.snap[i].hop \in Nat
      <4>1. t.snap[i] \in Captured /\ Hops \subseteq Nat
        BY <1>2, ElementOfSeq DEF Hops
      <4> QED BY <4>1, <1>2 DEF Captured, Task
    <3> QED BY <3>1, <3>2
  <2> QED BY <1>3, <2>1, <2>2, <2>3, FactIsMarked
<1>9. CASE t.kind = "firstByte"
  <2>1. /\ captured' = Marked(t.snap, t.id, "firstByte") \/ captured' = captured
        /\ pending' = pending
    BY <1>9 DEF Write, WriteFirstByte
  <2>2. t.id \in Requests /\ net[t.id].started
    BY <1>2, <1>9 DEF TaskTells
  <2> QED BY <1>3, <2>1, <2>2, FactIsMarked
<1>10. CASE t.kind = "completed"
  <2>1. WriteCompleted(t)
    BY <1>10 DEF Write
  <2> QED BY <1>3, <1>10, <2>1, RequestIsAnswered
<1>11. CASE t.kind = "body"
  <2>1. WriteBody(t)
    BY <1>11 DEF Write
  <2> QED BY <1>3, <1>11, <2>1, BodyIsBrought
<1> QED BY <1>2, <1>5, <1>6, <1>7, <1>8, <1>9, <1>10, <1>11 DEF Kinds

\* A handler that awaited something else first gets the list as it is now.
LEMMA ReadKeepsTheInvariant ==
    ASSUME CaptureInv, NEW t \in tasks, ReadCaptured(t)
    PROVE  CaptureInv'
<1>1. Types /\ TasksTell /\ TasksDiffer /\ ListsAreApart /\ PendingTells
  BY DEF CaptureInv
<1>2. t \in Task /\ TaskTells(t) /\ ~t.read
  BY <1>1 DEF Types, TasksTell, ReadCaptured
<1>3. PICK u \in Task : /\ u.kind = t.kind /\ u.id = t.id /\ u.hop = t.hop /\ u.snap = captured
                        /\ u = [t EXCEPT !.read = TRUE, !.snap = captured]
  <2> DEFINE v == [t EXCEPT !.read = TRUE]
             w == [t EXCEPT !.read = TRUE, !.snap = captured]
  <2>1. /\ v \in Task /\ v.kind = t.kind /\ v.id = t.id /\ v.hop = t.hop
    BY <1>2 DEF Task
  <2>2. w = [v EXCEPT !.snap = captured]
    BY <1>2 DEF Task
  <2> HIDE DEF v, w
  <2>3. w \in Task /\ w.kind = t.kind /\ w.id = t.id /\ w.hop = t.hop /\ w.snap = captured
    BY <1>1, <2>1, <2>2 DEF Types, Task
  <2> QED BY <2>3 DEF w
<1>12. PICK rest \in SUBSET tasks : rest = tasks \ {t}
  OBVIOUS
<1>4. tasks' = rest \cup {u} /\ UNCHANGED <<captured, pending, net, reported>>
  BY <1>3, <1>12 DEF ReadCaptured
<1>5. t.kind # "headers"
  BY <1>2 DEF TaskTells
<1>6. TaskTells(u)'
  <2>1. TaskTells(t) /\ Brings(u) = Brings(t)
    BY <1>2, <1>3 DEF Brings
  <2>2. /\ u.kind \in {"before", "headers", "firstByte", "completed", "body"} => u.id \in Requests
        /\ u.kind = "before" => /\ net'[u.id].begun /\ u.hop <= net'[u.id].hop
                                /\ u.hop # 0 => u.id \in DOMAIN RedirectTo
    BY <2>1, <1>3, <1>4 DEF TaskTells
  <2>3. /\ u.kind = "firstByte" => net'[u.id].started
        /\ u.kind = "completed" => net'[u.id].completed
    BY <2>1, <1>3, <1>4 DEF TaskTells
  <2>4. /\ Brings(u) => u.id \in reported' /\ u.hop = 0
        /\ u.kind \in {"mock", "replay"} => u.id \notin Requests
    BY <2>1, <1>3, <1>4 DEF TaskTells
  <2> QED BY <2>2, <2>3, <2>4, <1>3, <1>5 DEF TaskTells
<1>7. NetGrows
  <2>1. ASSUME NEW r \in Requests
        PROVE  net[r].hop <= net[r].hop
    <3>1. net[r].hop \in Nat
      BY <1>1 DEF Types, Report, Hops
    <3> QED BY <3>1
  <2> QED BY <2>1, <1>4 DEF NetGrows
<1>8. Types'
  BY <1>1, <1>3, <1>4 DEF Types
<1>9. \A v \in rest : /\ Creates(v) /\ Creates(u) => <<v.id, v.hop>> # <<u.id, u.hop>>
                      /\ Brings(v) /\ Brings(u) => v.id # u.id
  <2>1. \A v \in rest : v # t /\ v \in tasks
    BY <1>12
  <2> QED BY <1>1, <1>3, <2>1 DEF TasksDiffer, Creates, Brings
<1>10. \A L \in Lists : \A i \in 1 .. Len(L) : Apart(L[i], u)
  BY <1>1, <1>3 DEF ListsAreApart, ListIsApart, Apart, Creates, Brings, Same
<1>11. \A p \in 1 .. Len(pending) : Brings(u) => pending[p].body # u.id
  BY <1>1, <1>3 DEF PendingTells, Brings
<1> QED BY <1>3, <1>4, <1>6, <1>7, <1>8, <1>9, <1>10, <1>11, TaskJoins

-----------------------------------------------------------------------------------
(* What the browser reports.                                                         *)

LEMMA StartedTasks ==
    ASSUME Types, NEW kind \in Kinds, NEW id \in Exchanges, NEW hop \in Hops
    PROVE  /\ StartReading(kind, id, hop) =>
                \E u \in Task : /\ u.kind = kind /\ u.id = id /\ u.hop = hop /\ u.read
                                /\ u.snap = captured /\ tasks' = tasks \cup {u}
           /\ StartWaiting(kind, id, hop) =>
                \E u \in Task : /\ u.kind = kind /\ u.id = id /\ u.hop = hop
                                /\ u.snap = <<>> /\ ~u.read /\ tasks' = tasks \cup {u}
<1>1. ASSUME StartReading(kind, id, hop)
      PROVE  \E u \in Task : /\ u.kind = kind /\ u.id = id /\ u.hop = hop /\ u.read
                             /\ u.snap = captured /\ tasks' = tasks \cup {u}
  <2> DEFINE w == [kind |-> kind, id |-> id, hop |-> hop, read |-> TRUE, snap |-> captured]
  <2>1. /\ w \in Task /\ w.kind = kind /\ w.id = id /\ w.hop = hop /\ w.read
        /\ w.snap = captured
    BY DEF Types, Task
  <2>2. tasks' = tasks \cup {w}
    BY <1>1 DEF StartReading
  <2> HIDE DEF w
  <2> QED BY <2>1, <2>2
<1>2. ASSUME StartWaiting(kind, id, hop)
      PROVE  \E u \in Task : /\ u.kind = kind /\ u.id = id /\ u.hop = hop
                             /\ u.snap = <<>> /\ ~u.read /\ tasks' = tasks \cup {u}
  <2> DEFINE w == [kind |-> kind, id |-> id, hop |-> hop, read |-> FALSE, snap |-> <<>>]
  <2>1. /\ w \in Task /\ w.kind = kind /\ w.id = id /\ w.hop = hop /\ w.snap = <<>>
        /\ ~w.read
    BY EmptySeq DEF Types, Task
  <2>2. tasks' = tasks \cup {w}
    BY <1>2 DEF StartWaiting
  <2> HIDE DEF w
  <2> QED BY <2>1, <2>2
<1> QED BY <1>1, <1>2

\* A handler starts: what it has to add is not in any list yet.
LEMMA HandlerStarts ==
    ASSUME CaptureInv, UNCHANGED <<captured, pending>>,
           net' \in [Requests -> Report], reported' \in SUBSET Exchanges, NetGrows,
           NEW u \in Task, tasks' = tasks \cup {u}, u.snap = captured \/ u.snap = <<>>,
           TaskTells(u)',
           Creates(u) => /\ \A t \in tasks : Creates(t) => ~(t.id = u.id /\ t.hop = u.hop)
                         /\ \A L \in Lists : \A i \in 1 .. Len(L) : ~Same(L[i], u),
           Brings(u) => u.id \notin reported
    PROVE  CaptureInv'
<1>1. Types /\ TasksTell /\ ListsTell /\ PendingTells
  BY DEF CaptureInv
<1>2. Types'
  BY <1>1 DEF Types
<1>3. u.id # NoBody
  BY CaptureAssumption DEF Task
<1>4. \A t \in tasks : /\ Creates(t) /\ Creates(u) => <<t.id, t.hop>> # <<u.id, u.hop>>
                       /\ Brings(t) /\ Brings(u) => t.id # u.id
  BY <1>1 DEF TasksTell, TaskTells
<1>5. ASSUME NEW L \in Lists, NEW i \in 1 .. Len(L)
      PROVE  Apart(L[i], u)
  <2>1. L[i].body # NoBody => L[i].body \in reported
    BY <1>1 DEF ListsTell, ListTells, RecordTells
  <2> QED BY <2>1, <1>3 DEF Apart
<1>6. \A p \in 1 .. Len(pending) : Brings(u) => pending[p].body # u.id
  BY <1>1 DEF PendingTells
<1>7. PICK rest \in SUBSET tasks : rest = tasks
  OBVIOUS
<1> QED BY <1>2, <1>4, <1>5, <1>6, <1>7, TaskJoins

LEMMA RequestChanges ==
    ASSUME Types, NEW r \in Requests, NEW new \in Report, net' = [net EXCEPT ![r] = new],
           reported' = reported,
           net[r].begun => new.begun, net[r].hop <= new.hop, net[r].sent \subseteq new.sent,
           net[r].started => new.started, net[r].completed => new.completed
    PROVE  /\ net' \in [Requests -> Report] /\ reported' \in SUBSET Exchanges
           /\ NetGrows /\ net'[r] = new
<1>1. net' \in [Requests -> Report] /\ net'[r] = new
  BY DEF Types
<1>2. ASSUME NEW q \in Requests
      PROVE  /\ net[q].begun => net'[q].begun
             /\ net[q].hop <= net'[q].hop
             /\ net[q].sent \subseteq net'[q].sent
             /\ net[q].started => net'[q].started
             /\ net[q].completed => net'[q].completed
  <2>1. CASE q = r
    BY <2>1, <1>1
  <2>2. CASE q # r
    <3>1. net'[q] = net[q] /\ net[q].hop \in Nat
      BY <2>2 DEF Types, Report, Hops
    <3> QED BY <3>1
  <2> QED BY <2>1, <2>2
<1> QED BY <1>1, <1>2 DEF NetGrows, Types

LEMMA ReportedGrows ==
    ASSUME Types, NEW x \in Exchanges, reported' = reported \cup {x}, net' = net
    PROVE  net' \in [Requests -> Report] /\ reported' \in SUBSET Exchanges /\ NetGrows
<1>1. ASSUME NEW q \in Requests
      PROVE  net[q].hop <= net[q].hop
  <2>1. net[q].hop \in Nat
    BY DEF Types, Report, Hops
  <2> QED BY <2>1
<1> QED BY <1>1 DEF NetGrows, Types

\* What is in a list, or about to be, has begun: a redirect is a hop further.
LEMMA ListedHaveBegun ==
    ASSUME CaptureInv
    PROVE  /\ \A L \in Lists : \A i \in 1 .. Len(L) :
                 IF L[i].id \in Requests THEN net[L[i].id].begun /\ L[i].hop <= net[L[i].id].hop
                 ELSE L[i].id \in reported
           /\ \A t \in tasks : Creates(t) =>
                 IF t.id \in Requests THEN net[t.id].begun /\ t.hop <= net[t.id].hop
                 ELSE t.id \in reported
<1>1. \A L \in Lists : \A i \in 1 .. Len(L) : RecordTells(L[i])
  BY DEF CaptureInv, ListsTell, ListTells
<1>2. ASSUME NEW t \in tasks, Creates(t)
      PROVE  IF t.id \in Requests THEN net[t.id].begun /\ t.hop <= net[t.id].hop
             ELSE t.id \in reported
  <2>1. TaskTells(t)
    BY DEF CaptureInv, TasksTell
  <2>2. CASE t.kind = "before"
    BY <2>1, <2>2 DEF TaskTells
  <2>3. CASE t.kind \in {"mock", "replay"}
    BY <2>1, <2>3 DEF TaskTells, Brings
  <2> QED BY <1>2, <2>2, <2>3 DEF Creates
<1> QED BY <1>1, <1>2 DEF RecordTells

LEMMA BrowserKeepsTheInvariant ==
    ASSUME CaptureInv, NEW r \in Requests,
           \/ BeforeRequest(r) \/ RedirectedRequest(r) \/ SendHeaders(r)
           \/ ResponseStarted(r) \/ Completed(r) \/ BodyCaptured(r)
    PROVE  CaptureInv'
<1>1. Types /\ TasksTell /\ ListsTell
  BY DEF CaptureInv
<1>2. /\ r \in Exchanges /\ 0 \in Hops /\ 1 \in Hops
      /\ {"before", "headers", "firstByte", "completed", "body"} \subseteq Kinds
      /\ net[r] \in Report
  BY <1>1 DEF Exchanges, Hops, Kinds, Types
<1>3. net[r].hop \in Nat /\ net[r].hop \in Hops /\ net[r].sent \in SUBSET Hops
  BY <1>2 DEF Report, Hops
<1>4. captured \in Lists
  BY DEF Lists
<1>5. CASE BeforeRequest(r)
  <2> DEFINE new == [net[r] EXCEPT !.begun = TRUE]
  <2>1. /\ new \in Report /\ new.begun /\ new.hop = net[r].hop /\ new.sent = net[r].sent
        /\ new.started = net[r].started /\ new.completed = net[r].completed
    BY <1>2 DEF Report
  <2>2. ~net[r].begun /\ net' = [net EXCEPT ![r] = new] /\ reported' = reported
    BY <1>5 DEF BeforeRequest
  <2> HIDE DEF new
  <2>20. /\ net[r].begun => new.begun
         /\ net[r].hop <= new.hop
         /\ net[r].sent \subseteq new.sent
         /\ net[r].started => new.started
         /\ net[r].completed => new.completed
    BY <1>3, <2>1
  <2>21. /\ net' \in [Requests -> Report] /\ reported' \in SUBSET Exchanges /\ NetGrows
         /\ net'[r] = new
    BY <1>1, <2>1, <2>2, <2>20, RequestChanges
  <2>3. /\ net' \in [Requests -> Report] /\ reported' \in SUBSET Exchanges /\ NetGrows
        /\ net'[r].begun /\ 0 <= net'[r].hop
    BY <1>3, <2>1, <2>2, <2>21
  <2>4. StartWaiting("before", r, 0) /\ UNCHANGED <<captured, pending>>
    BY <1>5 DEF BeforeRequest
  <2>5. PICK u \in Task : /\ u.kind = "before" /\ u.id = r /\ u.hop = 0
                          /\ u.snap = <<>> /\ tasks' = tasks \cup {u}
    BY <1>1, <1>2, <2>4, StartedTasks
  <2>6. TaskTells(u)'
    BY <2>3, <2>5 DEF TaskTells, Brings
  <2>7. /\ \A t \in tasks : Creates(t) => ~(t.id = u.id /\ t.hop = u.hop)
        /\ \A L \in Lists : \A i \in 1 .. Len(L) : ~Same(L[i], u)
    BY <2>2, <2>5, ListedHaveBegun DEF Same
  <2>8. ~Brings(u)
    BY <2>5 DEF Brings
  <2> QED BY <2>3, <2>4, <2>5, <2>6, <2>7, <2>8, HandlerStarts
<1>6. CASE RedirectedRequest(r)
  <2> DEFINE new == [net[r] EXCEPT !.hop = 1]
  <2>1. /\ new \in Report /\ new.begun = net[r].begun /\ new.hop = 1 /\ new.sent = net[r].sent
        /\ new.started = net[r].started /\ new.completed = net[r].completed
    BY <1>2 DEF Report
  <2>2. /\ r \in DOMAIN RedirectTo /\ net[r].hop = 0 /\ net[r].begun
        /\ net' = [net EXCEPT ![r] = new] /\ reported' = reported
    BY <1>6 DEF RedirectedRequest
  <2> HIDE DEF new
  <2>20. /\ net[r].begun => new.begun
         /\ net[r].hop <= new.hop
         /\ net[r].sent \subseteq new.sent
         /\ net[r].started => new.started
         /\ net[r].completed => new.completed
    BY <1>3, <2>1, <2>2
  <2>21. /\ net' \in [Requests -> Report] /\ reported' \in SUBSET Exchanges /\ NetGrows
         /\ net'[r] = new
    BY <1>1, <2>1, <2>2, <2>20, RequestChanges
  <2>3. /\ net' \in [Requests -> Report] /\ reported' \in SUBSET Exchanges /\ NetGrows
        /\ net'[r].begun /\ 1 <= net'[r].hop
    <3>1. new.begun /\ 1 <= new.hop
      BY <2>1, <2>2
    <3> QED BY <3>1, <2>21
  <2>4. StartWaiting("before", r, 1) /\ UNCHANGED <<captured, pending>>
    BY <1>6 DEF RedirectedRequest
  <2>5. PICK u \in Task : /\ u.kind = "before" /\ u.id = r /\ u.hop = 1
                          /\ u.snap = <<>> /\ tasks' = tasks \cup {u}
    BY <1>1, <1>2, <2>4, StartedTasks
  <2>6. TaskTells(u)'
    BY <2>2, <2>3, <2>5 DEF TaskTells, Brings
  <2>7. ~(1 <= net[r].hop)
    BY <2>2
  <2>8. /\ \A t \in tasks : Creates(t) => ~(t.id = u.id /\ t.hop = u.hop)
        /\ \A L \in Lists : \A i \in 1 .. Len(L) : ~Same(L[i], u)
    BY <2>5, <2>7, ListedHaveBegun DEF Same
  <2>9. ~Brings(u)
    BY <2>5 DEF Brings
  <2> QED BY <2>3, <2>4, <2>5, <2>6, <2>8, <2>9, HandlerStarts
<1>7. CASE SendHeaders(r)
  <2> DEFINE new == [net[r] EXCEPT !.sent = net[r].sent \cup {net[r].hop}]
  <2>1. /\ new \in Report /\ new.begun = net[r].begun /\ new.hop = net[r].hop
        /\ new.sent = net[r].sent \cup {net[r].hop}
        /\ new.started = net[r].started /\ new.completed = net[r].completed
    BY <1>2, <1>3 DEF Report
  <2>2. net' = [net EXCEPT ![r] = new] /\ reported' = reported
    BY <1>7 DEF SendHeaders
  <2> HIDE DEF new
  <2>20. /\ net[r].begun => new.begun
         /\ net[r].hop <= new.hop
         /\ net[r].sent \subseteq new.sent
         /\ net[r].started => new.started
         /\ net[r].completed => new.completed
    BY <1>3, <2>1
  <2>21. /\ net' \in [Requests -> Report] /\ reported' \in SUBSET Exchanges /\ NetGrows
         /\ net'[r] = new
    BY <1>1, <2>1, <2>2, <2>20, RequestChanges
  <2>3. /\ net' \in [Requests -> Report] /\ reported' \in SUBSET Exchanges /\ NetGrows
        /\ net[r].hop \in net'[r].sent
    BY <1>3, <2>1, <2>2, <2>21
  <2>4. StartReading("headers", r, net[r].hop) /\ UNCHANGED <<captured, pending>>
    BY <1>7 DEF SendHeaders
  <2>5. PICK u \in Task : /\ u.kind = "headers" /\ u.id = r /\ u.hop = net[r].hop /\ u.read
                          /\ u.snap = captured /\ tasks' = tasks \cup {u}
    BY <1>1, <1>2, <1>3, <2>4, StartedTasks
  <2>6. \A i \in 1 .. Len(u.snap) : u.snap[i].id = u.id => u.snap[i].hop <= u.hop
    BY <1>4, <2>5, ListedHaveBegun
  <2>7. TaskTells(u)'
    BY <2>3, <2>5, <2>6 DEF TaskTells, Brings
  <2>8. ~Brings(u) /\ ~Creates(u)
    BY <2>5 DEF Brings, Creates
  <2> QED BY <2>3, <2>4, <2>5, <2>7, <2>8, HandlerStarts
<1>8. CASE ResponseStarted(r)
  <2> DEFINE new == [net[r] EXCEPT !.started = TRUE]
  <2>1. /\ new \in Report /\ new.begun = net[r].begun /\ new.hop = net[r].hop
        /\ new.sent = net[r].sent /\ new.started /\ new.completed = net[r].completed
    BY <1>2 DEF Report
  <2>2. net' = [net EXCEPT ![r] = new] /\ reported' = reported
    BY <1>8 DEF ResponseStarted
  <2> HIDE DEF new
  <2>20. /\ net[r].begun => new.begun
         /\ net[r].hop <= new.hop
         /\ net[r].sent \subseteq new.sent
         /\ net[r].started => new.started
         /\ net[r].completed => new.completed
    BY <1>3, <2>1
  <2>21. /\ net' \in [Requests -> Report] /\ reported' \in SUBSET Exchanges /\ NetGrows
         /\ net'[r] = new
    BY <1>1, <2>1, <2>2, <2>20, RequestChanges
  <2>3. /\ net' \in [Requests -> Report] /\ reported' \in SUBSET Exchanges /\ NetGrows
        /\ net'[r].started
    BY <1>3, <2>1, <2>2, <2>21
  <2>4. StartReading("firstByte", r, net[r].hop) /\ UNCHANGED <<captured, pending>>
    BY <1>8 DEF ResponseStarted
  <2>5. PICK u \in Task : /\ u.kind = "firstByte" /\ u.id = r /\ u.snap = captured
                          /\ tasks' = tasks \cup {u}
    BY <1>1, <1>2, <1>3, <2>4, StartedTasks
  <2>6. TaskTells(u)'
    BY <2>3, <2>5 DEF TaskTells, Brings
  <2>7. ~Brings(u) /\ ~Creates(u)
    BY <2>5 DEF Brings, Creates
  <2> QED BY <2>3, <2>4, <2>5, <2>6, <2>7, HandlerStarts
<1>9. CASE Completed(r)
  <2> DEFINE new == [net[r] EXCEPT !.completed = TRUE]
  <2>1. /\ new \in Report /\ new.begun = net[r].begun /\ new.hop = net[r].hop
        /\ new.sent = net[r].sent /\ new.started = net[r].started /\ new.completed
    BY <1>2 DEF Report
  <2>2. net' = [net EXCEPT ![r] = new] /\ reported' = reported
    BY <1>9 DEF Completed
  <2> HIDE DEF new
  <2>20. /\ net[r].begun => new.begun
         /\ net[r].hop <= new.hop
         /\ net[r].sent \subseteq new.sent
         /\ net[r].started => new.started
         /\ net[r].completed => new.completed
    BY <1>3, <2>1
  <2>21. /\ net' \in [Requests -> Report] /\ reported' \in SUBSET Exchanges /\ NetGrows
         /\ net'[r] = new
    BY <1>1, <2>1, <2>2, <2>20, RequestChanges
  <2>3. /\ net' \in [Requests -> Report] /\ reported' \in SUBSET Exchanges /\ NetGrows
        /\ net'[r].completed
    BY <1>3, <2>1, <2>2, <2>21
  <2>4. StartReading("completed", r, net[r].hop) /\ UNCHANGED <<captured, pending>>
    BY <1>9 DEF Completed
  <2>5. PICK u \in Task : /\ u.kind = "completed" /\ u.id = r /\ u.snap = captured
                          /\ tasks' = tasks \cup {u}
    BY <1>1, <1>2, <1>3, <2>4, StartedTasks
  <2>6. TaskTells(u)'
    BY <2>3, <2>5 DEF TaskTells, Brings
  <2>7. ~Brings(u) /\ ~Creates(u)
    BY <2>5 DEF Brings, Creates
  <2> QED BY <2>3, <2>4, <2>5, <2>6, <2>7, HandlerStarts
<1>10. CASE BodyCaptured(r)
  <2>1. /\ r \notin reported /\ reported' = reported \cup {r}
        /\ StartReading("body", r, 0) /\ UNCHANGED <<captured, pending, net>>
    BY <1>10 DEF BodyCaptured
  <2>2. net' \in [Requests -> Report] /\ reported' \in SUBSET Exchanges /\ NetGrows
    BY <1>1, <1>2, <2>1, ReportedGrows
  <2>3. PICK u \in Task : /\ u.kind = "body" /\ u.id = r /\ u.hop = 0 /\ u.snap = captured
                          /\ tasks' = tasks \cup {u}
    BY <1>1, <1>2, <2>1, StartedTasks
  <2>4. TaskTells(u)'
    BY <2>1, <2>3 DEF TaskTells
  <2>5. ~Creates(u) /\ u.id \notin reported
    BY <2>1, <2>3 DEF Creates
  <2> QED BY <2>1, <2>2, <2>3, <2>4, <2>5, HandlerStarts
<1> QED BY <1>5, <1>6, <1>7, <1>8, <1>9, <1>10

LEMMA AnsweredByTheExtension ==
    ASSUME CaptureInv, NEW x \in Exchanges, x \notin Requests, x \notin reported,
           reported' = reported \cup {x}, UNCHANGED <<captured, pending, net>>,
           StartReading("mock", x, 0) \/ StartWaiting("replay", x, 0)
    PROVE  CaptureInv'
<1>1. Types
  BY DEF CaptureInv
<1>2. 0 \in Hops /\ "mock" \in Kinds /\ "replay" \in Kinds
  BY DEF Hops, Kinds
<1>3. net' \in [Requests -> Report] /\ reported' \in SUBSET Exchanges /\ NetGrows
  BY <1>1, ReportedGrows
<1>4. PICK u \in Task : /\ u.kind \in {"mock", "replay"} /\ u.id = x /\ u.hop = 0
                        /\ u.snap = captured \/ u.snap = <<>>
                        /\ tasks' = tasks \cup {u}
  BY <1>1, <1>2, StartedTasks
<1>5. TaskTells(u)'
  BY <1>4 DEF TaskTells
<1>6. /\ \A t \in tasks : Creates(t) => ~(t.id = u.id /\ t.hop = u.hop)
      /\ \A L \in Lists : \A i \in 1 .. Len(L) : ~Same(L[i], u)
  BY <1>4, ListedHaveBegun DEF Same
<1> QED BY <1>3, <1>4, <1>5, <1>6, HandlerStarts

-----------------------------------------------------------------------------------
(* The theorem.                                                                      *)

LEMMA CaptureStartsRight == Init => CaptureInv
<1> SUFFICES ASSUME Init PROVE CaptureInv
  OBVIOUS
<1>1. Types
  <2>1. net \in [Requests -> Report]
    <3>1. [hop |-> 0, begun |-> FALSE, sent |-> {}, started |-> FALSE, completed |-> FALSE]
              \in Report
      BY DEF Report, Hops
    <3> QED BY <3>1 DEF Init
  <2>2. <<>> \in Seq(Captured) /\ <<>> \in Seq(Entry)
    BY EmptySeq
  <2> QED BY <2>1, <2>2 DEF Init, Types
<1>2. TasksTell /\ TasksDiffer
  BY DEF Init, TasksTell, TasksDiffer
<1>3. \A L \in Lists : L = <<>>
  BY DEF Init, Lists
<1>4. ListTells(<<>>) /\ ListIsApart(<<>>)
  BY CaptureAssumption DEF ListTells, ListDiffers, ListIsApart
<1>5. ListsTell /\ ListsAreApart
  BY <1>3, <1>4 DEF ListsTell, ListsAreApart
<1>6. PendingTells
  BY CaptureAssumption DEF Init, PendingTells
<1> QED BY <1>1, <1>2, <1>5, <1>6 DEF CaptureInv

LEMMA CaptureInvIsInductive == CaptureInv /\ [Next]_vars => CaptureInv'
<1> SUFFICES ASSUME CaptureInv, [Next]_vars PROVE CaptureInv'
  OBVIOUS
<1>1. ASSUME NEW r \in Requests,
             \/ BeforeRequest(r) \/ RedirectedRequest(r) \/ SendHeaders(r)
             \/ ResponseStarted(r) \/ Completed(r) \/ BodyCaptured(r)
      PROVE  CaptureInv'
  BY <1>1, BrowserKeepsTheInvariant
<1>2. ASSUME NEW m \in Mocks, MockApplied(m)
      PROVE  CaptureInv'
  <2>1. m \in Exchanges /\ m \notin Requests
    BY CaptureAssumption DEF Exchanges
  <2> QED BY <1>2, <2>1, AnsweredByTheExtension DEF MockApplied
<1>3. ASSUME NEW p \in Replays, RepeatRequest(p)
      PROVE  CaptureInv'
  <2>1. p \in Exchanges /\ p \notin Requests
    BY CaptureAssumption DEF Exchanges
  <2> QED BY <1>3, <2>1, AnsweredByTheExtension DEF RepeatRequest
<1>4. ASSUME NEW t \in tasks, ReadCaptured(t)
      PROVE  CaptureInv'
  BY <1>4, ReadKeepsTheInvariant
<1>5. ASSUME NEW t \in tasks, Write(t)
      PROVE  CaptureInv'
  BY <1>5, WritesKeepTheInvariant
<1>6. ASSUME NEW t \in tasks, ReplayFails(t)
      PROVE  CaptureInv'
  BY <1>6, TasksOnlyLeave DEF ReplayFails
<1>7. CASE PanelClear
  BY <1>7, TasksOnlyLeave DEF PanelClear
<1>8. CASE WorkerRestart
  BY <1>8, TasksOnlyLeave DEF WorkerRestart
<1>9. CASE UNCHANGED vars
  BY <1>9, TasksOnlyLeave DEF vars
<1> QED BY <1>1, <1>2, <1>3, <1>4, <1>5, <1>6, <1>7, <1>8, <1>9 DEF Next

\* However the handlers of the service worker interleave, and whatever the user clears or
\* the browser stops, a record tells only what happened to its own request, its body is
\* of an exchange with its method and URL, no request is listed twice for one URL, and no
\* body is in two places (index.ts:300-445, 1186-1232).
THEOREM RecordsAlwaysTellTheirOwn == Spec => []RecordsTellOwnEvents
<1>1. CaptureInv => RecordsTellOwnEvents
  <2> SUFFICES ASSUME CaptureInv PROVE RecordsTellOwnEvents
    OBVIOUS
  <2>1. /\ Types /\ ListTells(captured) /\ ListIsApart(captured) /\ PendingTells
    BY DEF CaptureInv, ListsTell, ListsAreApart, Lists
  <2>2. DOMAIN captured = 1 .. Len(captured) /\ DOMAIN pending = 1 .. Len(pending)
    BY <2>1 DEF Types
  <2>3. Len(captured) <= MaxCaptured /\ Len(pending) <= PendingLimit
    BY <2>1 DEF ListTells, PendingTells
  <2>4. \A i \in DOMAIN captured : LET c == captured[i] IN
          /\ c.id \in Requests =>
                /\ c.headers => \E h \in net[c.id].sent : h >= c.hop
                /\ c.firstByte => net[c.id].started
                /\ c.answered => net[c.id].completed
          /\ c.body # NoBody => c.answered /\ c.body \in reported /\ KeyOf[c.body] = c.key
    BY <2>1, <2>2 DEF ListTells, RecordTells
  <2>5. \A i \in DOMAIN pending :
          pending[i].body \in reported /\ KeyOf[pending[i].body] = pending[i].key
    BY <2>1, <2>2 DEF PendingTells
  <2>6. \A i, j \in DOMAIN captured :
          i # j => /\ <<captured[i].id, captured[i].hop>> # <<captured[j].id, captured[j].hop>>
                   /\ captured[i].body = NoBody \/ captured[i].body # captured[j].body
    BY <2>1, <2>2 DEF ListTells, ListDiffers, Same
  <2>7. /\ \A i \in DOMAIN captured, p \in DOMAIN pending : captured[i].body # pending[p].body
        /\ \A p, q \in DOMAIN pending : p # q => pending[p].body # pending[q].body
    BY <2>1, <2>2 DEF ListIsApart, PendingTells
  <2> QED BY <2>3, <2>4, <2>5, <2>6, <2>7 DEF RecordsTellOwnEvents
<1> QED BY <1>1, CaptureStartsRight, CaptureInvIsInductive, PTL DEF Spec

-----------------------------------------------------------------------------------
(* The list while no handler ran into another: at most one is under way, what it     *)
(* holds is the list, and the list lacks only what it is about to write.             *)

\* In which order the browser reports of a request.
ReportsInOrder ==
    \A r \in Requests :
        /\ \A h \in net[r].sent : net[r].begun /\ h <= net[r].hop
        /\ net[r].started => net[r].hop \in net[r].sent
        /\ net[r].completed => net[r].started

\* The list holds the newest requests of the order, but for the first n.
ListedAfter(n) ==
    /\ Len(captured) = IF Len(order) - n < MaxCaptured THEN Len(order) - n ELSE MaxCaptured
    /\ \A i \in 1 .. Len(captured) :
          order[i + n] = [id |-> captured[i].id, hop |-> captured[i].hop]

Under(kind, id) == \E t \in tasks : t.kind = kind /\ t.id = id

HasAll(c) ==
    c.id \in Requests =>
        /\ (\E h \in net[c.id].sent : h >= c.hop) => c.headers \/ Under("headers", c.id)
        /\ net[c.id].started => c.firstByte \/ Under("firstByte", c.id)
        /\ net[c.id].completed => c.answered \/ Under("completed", c.id)

LacksItsBody(c) == c.id \in Requests /\ c.answered /\ c.body = NoBody

\* A handler that adds a record has it in front of the order, and its request is new.
IsNewest(t) ==
    /\ Len(order) > 0 /\ order[1] = [id |-> t.id, hop |-> t.hop]
    /\ t.id \in Requests => /\ \A h \in net[t.id].sent : ~(h >= t.hop)
                            /\ ~net[t.id].started /\ ~net[t.id].completed

AloneInv ==
    /\ \A t, u \in tasks : t = u
    /\ \A t \in tasks : t.read => t.snap = captured
    /\ \A t \in tasks : Creates(t) => IsNewest(t) /\ ListedAfter(1)
    /\ (\A t \in tasks : ~Creates(t)) => ListedAfter(0)
    /\ \A i \in 1 .. Len(captured) : HasAll(captured[i])
    /\ \A i \in 1 .. Len(captured), p \in 1 .. Len(pending) :
          LacksItsBody(captured[i]) => captured[i].key # pending[p].key

Began == [id : Exchanges, hop : Hops]

QuietInv ==
    /\ CaptureInv
    /\ order \in Seq(Began)
    /\ overlapped \in BOOLEAN
    /\ ReportsInOrder
    /\ ~overlapped => AloneInv

\* Nothing is under way, and a handler starts.
LEMMA AloneStarts ==
    ASSUME QuietInv, AloneInv, tasks = {}, UNCHANGED <<captured, pending>>,
           NEW u \in Task, tasks' = {u}, u.read => u.snap = captured,
           \A r \in Requests :
              /\ net'[r].sent = net[r].sent \/ (u.kind = "headers" /\ u.id = r)
              /\ net'[r].started = net[r].started \/ (u.kind = "firstByte" /\ u.id = r)
              /\ net'[r].completed = net[r].completed \/ (u.kind = "completed" /\ u.id = r),
           Creates(u) =>
              /\ order' = <<[id |-> u.id, hop |-> u.hop]>> \o order
              /\ u.id \in Requests => /\ \A h \in net'[u.id].sent : ~(h >= u.hop)
                                      /\ ~net'[u.id].started /\ ~net'[u.id].completed,
           ~Creates(u) => order' = order
    PROVE  AloneInv'
<1>1. order \in Seq(Began) /\ captured \in Seq(Captured)
  BY DEF QuietInv, CaptureInv, Types, Began
<1>2. ListedAfter(0)
  BY DEF AloneInv
<1>3. \A t, v \in tasks' : t = v
  OBVIOUS
<1>4. \A t \in tasks' : t.read => t.snap = captured'
  OBVIOUS
<1>5. ASSUME Creates(u)
      PROVE  IsNewest(u)' /\ ListedAfter(1)'
  <2> DEFINE e == [id |-> u.id, hop |-> u.hop]
  <2>1. <<e>> \in Seq(Began) /\ Len(<<e>>) = 1 /\ <<e>>[1] = e
    BY DEF Began, Task
  <2>2. order' = <<e>> \o order
    BY <1>5
  <2> HIDE DEF e
  <2>3. /\ Len(order') = 1 + Len(order)
        /\ \A i \in 1 .. 1 + Len(order) :
              order'[i] = IF i <= 1 THEN <<e>>[i] ELSE order[i - 1]
    BY <1>1, <2>1, <2>2, ConcatProperties
  <2>4. Len(order) \in Nat /\ Len(captured) \in Nat /\ MaxCaptured \in Nat
    BY <1>1, CaptureAssumption
  <2>5. /\ Len(order') > 0 /\ Len(order') - 1 = Len(order) - 0 /\ 1 \in 1 .. 1 + Len(order)
    BY <2>3, <2>4
  <2>6. order'[1] = e
    BY <2>1, <2>3, <2>5
  <2>7. ASSUME NEW i \in 1 .. Len(captured)
        PROVE  order'[i + 1] = [id |-> captured[i].id, hop |-> captured[i].hop]
    <3>1. order[i + 0] = [id |-> captured[i].id, hop |-> captured[i].hop]
      BY <1>2 DEF ListedAfter
    <3>2. Len(captured) <= Len(order)
      <4>1. Len(captured) = IF Len(order) - 0 < MaxCaptured THEN Len(order) - 0 ELSE MaxCaptured
        BY <1>2 DEF ListedAfter
      <4> QED BY <4>1, <2>4
    <3>3. i + 1 \in 1 .. 1 + Len(order) /\ ~(i + 1 <= 1) /\ (i + 1) - 1 = i + 0
      BY <2>4, <3>2
    <3> QED BY <2>3, <3>1, <3>3
  <2>8. Len(captured) = IF Len(order') - 1 < MaxCaptured THEN Len(order') - 1 ELSE MaxCaptured
    BY <1>2, <2>5 DEF ListedAfter
  <2>9. ListedAfter(1)'
    BY <2>7, <2>8 DEF ListedAfter
  <2>10. IsNewest(u)'
    BY <1>5, <2>5, <2>6 DEF IsNewest, e
  <2> QED BY <2>9, <2>10
<1>6. ~Creates(u) => ListedAfter(0)'
  BY <1>2 DEF ListedAfter
<1>7. ASSUME NEW i \in 1 .. Len(captured)
      PROVE  HasAll(captured[i])'
  <2> DEFINE c == captured[i]
  <2>1. HasAll(c) /\ \A kind : ~Under(kind, c.id)
    BY DEF AloneInv, Under
  <2>2. ASSUME c.id \in Requests
        PROVE  /\ (\E h \in net'[c.id].sent : h >= c.hop) => c.headers \/ Under("headers", c.id)'
               /\ net'[c.id].started => c.firstByte \/ Under("firstByte", c.id)'
               /\ net'[c.id].completed => c.answered \/ Under("completed", c.id)'
    <3>1. (\E h \in net'[c.id].sent : h >= c.hop) => c.headers \/ Under("headers", c.id)'
      <4>1. CASE u.kind = "headers" /\ u.id = c.id
        BY <4>1 DEF Under
      <4>2. CASE net'[c.id].sent = net[c.id].sent
        BY <4>2, <2>1, <2>2 DEF HasAll
      <4> QED BY <4>1, <4>2, <2>2
    <3>2. net'[c.id].started => c.firstByte \/ Under("firstByte", c.id)'
      <4>1. CASE u.kind = "firstByte" /\ u.id = c.id
        BY <4>1 DEF Under
      <4>2. CASE net'[c.id].started = net[c.id].started
        BY <4>2, <2>1, <2>2 DEF HasAll
      <4> QED BY <4>1, <4>2, <2>2
    <3>3. net'[c.id].completed => c.answered \/ Under("completed", c.id)'
      <4>1. CASE u.kind = "completed" /\ u.id = c.id
        BY <4>1 DEF Under
      <4>2. CASE net'[c.id].completed = net[c.id].completed
        BY <4>2, <2>1, <2>2 DEF HasAll
      <4> QED BY <4>1, <4>2, <2>2
    <3> QED BY <3>1, <3>2, <3>3
  <2> QED BY <2>2 DEF HasAll
<1>8. \A i \in 1 .. Len(captured'), p \in 1 .. Len(pending') :
          LacksItsBody(captured'[i]) => captured'[i].key # pending'[p].key
  BY DEF AloneInv
<1>9. /\ \A t \in tasks' : Creates(t) => IsNewest(t)' /\ ListedAfter(1)'
      /\ (\A t \in tasks' : ~Creates(t)) => ListedAfter(0)'
  BY <1>5, <1>6
<1>10. \A i \in 1 .. Len(captured') : HasAll(captured[i])'
  BY <1>7
<1> QED BY <1>3, <1>4, <1>8, <1>9, <1>10 DEF AloneInv

\* The only handler ends, and nothing is under way.
LEMMA AloneEnds ==
    ASSUME tasks' = {}, ListedAfter(0)',
           \A i \in 1 .. Len(captured') : HasAll(captured[i])',
           \A i \in 1 .. Len(captured'), p \in 1 .. Len(pending') :
              LacksItsBody(captured'[i]) => captured'[i].key # pending'[p].key
    PROVE  AloneInv'
BY DEF AloneInv

\* What the records lack is only what the one handler writes.
LEMMA AloneLacks ==
    ASSUME AloneInv, NEW t \in tasks, UNCHANGED net,
           NEW c, \E i \in 1 .. Len(captured) : c = captured[i],
           ~(c.id = t.id /\ t.kind \in {"headers", "firstByte", "completed"})
    PROVE  HasAll(c)'
<1>1. HasAll(c)
  BY DEF AloneInv
<1>2. \A kind \in {"headers", "firstByte", "completed"} : ~Under(kind, c.id)
  <2>1. \A v \in tasks : v = t
    BY DEF AloneInv
  <2> QED BY <2>1 DEF Under
<1>3. c.id \in Requests =>
        /\ (\E h \in net[c.id].sent : h >= c.hop) => c.headers
        /\ net[c.id].started => c.firstByte
        /\ net[c.id].completed => c.answered
  BY <1>1, <1>2 DEF HasAll
<1> QED BY <1>3 DEF HasAll

LEMMA AloneAdds ==
    ASSUME QuietInv, AloneInv, NEW t \in tasks, Creates(t), t.read, tasks' = {},
           UNCHANGED <<pending, net, order>>,
           NEW rec \in Captured, Same(rec, t), captured' = Prepend(rec, captured),
           ~LacksItsBody(rec)
    PROVE  AloneInv'
<1>1. captured \in Seq(Captured) /\ order \in Seq(Began)
  BY DEF QuietInv, CaptureInv, Types, Began
<1>2. IsNewest(t) /\ ListedAfter(1)
  BY DEF AloneInv
<1>3. /\ captured' \in Seq(Captured)
      /\ Len(captured') = IF Len(captured) + 1 < MaxCaptured THEN Len(captured) + 1 ELSE MaxCaptured
      /\ captured'[1] = rec
      /\ \A i \in 2 .. Len(captured') :
            i - 1 \in 1 .. Len(captured) /\ captured'[i] = captured[i - 1]
  BY <1>1, PrependedPositions
<1>4. /\ Len(order) \in Nat /\ Len(captured) \in Nat /\ Len(captured') \in Nat
      /\ MaxCaptured \in Nat /\ MaxCaptured > 0
  BY <1>1, <1>3, CaptureAssumption
<1>5. \A i \in 1 .. Len(captured') : i = 1 \/ i \in 2 .. Len(captured')
  BY <1>4
<1>6. ListedAfter(0)'
  <2>1. Len(captured') = IF Len(order) - 0 < MaxCaptured THEN Len(order) - 0 ELSE MaxCaptured
    <3>1. /\ Len(order) > 0
          /\ Len(captured) = IF Len(order) - 1 < MaxCaptured THEN Len(order) - 1 ELSE MaxCaptured
      BY <1>2 DEF IsNewest, ListedAfter
    <3>2. CASE Len(order) - 1 < MaxCaptured
      BY <3>1, <3>2, <1>3, <1>4
    <3>3. CASE ~(Len(order) - 1 < MaxCaptured)
      BY <3>1, <3>3, <1>3, <1>4
    <3> QED BY <3>2, <3>3
  <2>2. order[1 + 0] = [id |-> captured'[1].id, hop |-> captured'[1].hop]
    <3>1. 1 + 0 = 1
      OBVIOUS
    <3> QED BY <3>1, <1>2, <1>3 DEF IsNewest, Same
  <2>3. ASSUME NEW i \in 2 .. Len(captured')
        PROVE  order[i + 0] = [id |-> captured'[i].id, hop |-> captured'[i].hop]
    <3>1. (i - 1) + 1 = i + 0
      BY <1>4
    <3>2. order[(i - 1) + 1] = [id |-> captured[i - 1].id, hop |-> captured[i - 1].hop]
      BY <1>2, <1>3 DEF ListedAfter
    <3> QED BY <3>1, <3>2, <1>3
  <2>4. \A i \in 1 .. Len(captured') :
            order[i + 0] = [id |-> captured'[i].id, hop |-> captured'[i].hop]
    BY <2>2, <2>3, <1>5
  <2> QED BY <2>1, <2>4 DEF ListedAfter
<1>7. HasAll(rec)'
  BY <1>2 DEF IsNewest, HasAll, Same
<1>8. ASSUME NEW i \in 2 .. Len(captured')
      PROVE  HasAll(captured[i])'
  <2>1. t.kind \notin {"headers", "firstByte", "completed"}
    BY DEF Creates
  <2>2. PICK c : c = captured[i - 1]
    OBVIOUS
  <2>3. HasAll(c)'
    BY <2>1, <2>2, <1>3, AloneLacks
  <2> QED BY <2>2, <2>3, <1>3 DEF HasAll, Under
<1>9. \A i \in 1 .. Len(captured') : HasAll(captured[i])'
  BY <1>3, <1>5, <1>7, <1>8 DEF HasAll, Under
<1>10. \A i \in 1 .. Len(captured'), p \in 1 .. Len(pending') :
          LacksItsBody(captured'[i]) => captured'[i].key # pending'[p].key
  <2>1. ASSUME NEW i \in 2 .. Len(captured'), NEW p \in 1 .. Len(pending),
               LacksItsBody(captured'[i])
        PROVE  captured'[i].key # pending[p].key
    <3>1. i - 1 \in 1 .. Len(captured) /\ captured'[i] = captured[i - 1]
      BY <1>3
    <3>2. LacksItsBody(captured[i - 1])
      BY <2>1, <3>1
    <3> QED BY <3>1, <3>2 DEF AloneInv
  <2> QED BY <2>1, <1>3, <1>5
<1> QED BY <1>6, <1>9, <1>10, AloneEnds

\* The only handler rewrites the list: it adds what its request lacks.
LEMMA AloneRewrites ==
    ASSUME QuietInv, AloneInv, NEW t \in tasks, ~Creates(t), tasks' = {},
           UNCHANGED <<net, order>>, Len(captured') = Len(captured),
           \A i \in 1 .. Len(captured) :
              /\ Same(captured'[i], captured[i])
              /\ captured[i].headers => captured'[i].headers
              /\ captured[i].firstByte => captured'[i].firstByte
              /\ captured[i].answered => captured'[i].answered
              /\ captured[i].id = t.id => /\ t.kind = "headers" => captured'[i].headers
                                          /\ t.kind = "firstByte" => captured'[i].firstByte
                                          /\ t.kind = "completed" => captured'[i].answered,
           \A i \in 1 .. Len(captured'), p \in 1 .. Len(pending') :
              LacksItsBody(captured'[i]) => captured'[i].key # pending'[p].key
    PROVE  AloneInv'
<1>1. \A v \in tasks : v = t
  BY DEF AloneInv
<1>2. ListedAfter(0)
  BY <1>1 DEF AloneInv
<1>3. ListedAfter(0)'
  BY <1>2 DEF ListedAfter, Same
<1>4. ASSUME NEW i \in 1 .. Len(captured)
      PROVE  HasAll(captured[i])'
  <2>1. HasAll(captured[i])
    BY DEF AloneInv
  <2>2. /\ captured'[i].id = captured[i].id /\ captured'[i].hop = captured[i].hop
        /\ captured[i].headers => captured'[i].headers
        /\ captured[i].firstByte => captured'[i].firstByte
        /\ captured[i].answered => captured'[i].answered
    BY DEF Same
  <2>3. /\ Under("headers", captured[i].id) => captured'[i].headers
        /\ Under("firstByte", captured[i].id) => captured'[i].firstByte
        /\ Under("completed", captured[i].id) => captured'[i].answered
    BY <1>1 DEF Under
  <2>4. ASSUME captured'[i].id \in Requests
        PROVE  /\ (\E h \in net[captured'[i].id].sent : h >= captured'[i].hop) => captured'[i].headers
               /\ net[captured'[i].id].started => captured'[i].firstByte
               /\ net[captured'[i].id].completed => captured'[i].answered
    BY <2>1, <2>2, <2>3, <2>4 DEF HasAll
  <2> QED BY <2>4 DEF HasAll
<1> QED BY <1>3, <1>4, AloneEnds

\* onCompleted leaves no body in the buffer that a record of its request would take.
LEMMA AloneAnswers ==
    ASSUME QuietInv, AloneInv, NEW t \in tasks, t.kind = "completed", tasks' = {},
           t.snap = captured, UNCHANGED <<net, order>>, WriteCompleted(t)
    PROVE  AloneInv'
<1> DEFINE A == AnsweredIn(captured, t.id)
           B == LeftBy(captured, t.id)
<1>1. Types /\ ListTells(captured) /\ PendingTells
  BY DEF QuietInv, CaptureInv, ListsTell, Lists
<1>2. captured \in Seq(Captured) /\ pending \in Seq(Entry) /\ BufferDiffers(pending)
  BY <1>1 DEF Types, PendingTells, BufferDiffers
<1>3. /\ A \in Seq(Captured) /\ Len(A) = Len(captured)
      /\ \A i \in 1 .. Len(captured) :
            IF captured[i].id # t.id THEN A[i] = captured[i]
            ELSE /\ Same(A[i], captured[i]) /\ A[i].key = captured[i].key
                 /\ A[i].headers = captured[i].headers
                 /\ A[i].firstByte = captured[i].firstByte /\ A[i].answered
                 /\ A[i].body = TakenFor(captured, i)
  BY <1>2, AnsweredRecords
<1>4. \A p \in 1 .. Len(B) :
          /\ \E q \in 1 .. Len(pending) : B[p] = pending[q]
          /\ \A i \in 1 .. Len(captured) :
                captured[i].id = t.id => B[p].key # HopKey(t.id, captured[i].hop)
  BY <1>2, LeftEntries
<1>5. captured' = A /\ pending' = B
  BY DEF WriteCompleted
<1> HIDE DEF A, B
<1>6. ASSUME NEW i \in 1 .. Len(captured)
      PROVE  /\ Same(A[i], captured[i]) /\ A[i].key = captured[i].key
             /\ captured[i].headers => A[i].headers
             /\ captured[i].firstByte => A[i].firstByte
             /\ captured[i].answered => A[i].answered
             /\ captured[i].id = t.id => A[i].answered
  <2>1. CASE captured[i].id = t.id
    BY <2>1, <1>3
  <2>2. CASE captured[i].id # t.id
    BY <2>2, <1>3 DEF Same
  <2> QED BY <2>1, <2>2
<1>7. ASSUME NEW i \in 1 .. Len(captured), NEW p \in 1 .. Len(B), LacksItsBody(A[i])
      PROVE  A[i].key # B[p].key
  <2>1. CASE captured[i].id = t.id
    <3>1. captured[i].key = HopKey(t.id, captured[i].hop)
      BY <2>1, <1>1 DEF ListTells, RecordTells
    <3> QED BY <2>1, <3>1, <1>4, <1>6
  <2>2. CASE captured[i].id # t.id
    <3>1. LacksItsBody(captured[i])
      BY <2>2, <1>3, <1>7
    <3>2. PICK q \in 1 .. Len(pending) : B[p] = pending[q]
      BY <1>4
    <3>3. captured[i].key # pending[q].key
      BY <3>1 DEF AloneInv
    <3> QED BY <3>2, <3>3, <1>6
  <2> QED BY <2>1, <2>2
<1>8. ~Creates(t)
  BY DEF Creates
<1>9. /\ Len(captured') = Len(captured)
      /\ \A i \in 1 .. Len(captured) :
            /\ Same(captured'[i], captured[i])
            /\ captured[i].headers => captured'[i].headers
            /\ captured[i].firstByte => captured'[i].firstByte
            /\ captured[i].answered => captured'[i].answered
            /\ captured[i].id = t.id => captured'[i].answered
      /\ \A i \in 1 .. Len(captured'), p \in 1 .. Len(pending') :
            LacksItsBody(captured'[i]) => captured'[i].key # pending'[p].key
  BY <1>3, <1>5, <1>6, <1>7
<1> QED BY <1>8, <1>9, AloneRewrites

\* A body is buffered only when no record waits for it.
LEMMA AloneBrings ==
    ASSUME QuietInv, AloneInv, NEW t \in tasks, t.kind = "body", tasks' = {},
           t.snap = captured, UNCHANGED <<net, order>>, WriteBody(t)
    PROVE  AloneInv'
<1> DEFINE key == KeyOf[t.id]
           waiting == WaitingForBody(captured, key)
           k == CHOOSE i \in waiting : \A j \in waiting : i <= j
           A == [captured EXCEPT ![k] = [captured[k] EXCEPT !.body = t.id]]
           B == Buffer(key, t.id)
<1>1. Types /\ TasksTell /\ PendingTells
  BY DEF QuietInv, CaptureInv
<1>2. captured \in Seq(Captured) /\ pending \in Seq(Entry) /\ BufferDiffers(pending)
  BY <1>1 DEF Types, PendingTells, BufferDiffers
<1>3. t.id \in Exchanges /\ t.id # NoBody
  BY <1>1, CaptureAssumption DEF Types, Task
<1>4. IF waiting # {} THEN captured' = A /\ pending' = pending
                      ELSE captured' = captured /\ pending' = B
  BY DEF WriteBody
<1>5. DOMAIN captured = 1 .. Len(captured) /\ Len(captured) \in Nat
  BY <1>2
<1>6. ~Creates(t)
  BY DEF Creates
<1>7. CASE waiting # {}
  <2>1. waiting \in SUBSET Nat
    BY <1>5 DEF WaitingForBody
  <2>2. k \in waiting
    BY <1>7, <2>1, LeastNumber
  <2>3. k \in 1 .. Len(captured)
    BY <1>5, <2>2 DEF WaitingForBody
  <2>4. captured' = A /\ pending' = pending
    BY <1>4, <1>7
  <2> HIDE DEF k, waiting
  <2> DEFINE new == [captured[k] EXCEPT !.body = t.id]
  <2>5. captured[k] \in Captured
    BY <1>2, <2>3, ElementOfSeq
  <2>6. /\ new \in Captured /\ Same(new, captured[k]) /\ new.key = captured[k].key
        /\ new.body = t.id /\ new.headers = captured[k].headers
        /\ new.firstByte = captured[k].firstByte /\ new.answered = captured[k].answered
    BY <2>5, <1>3 DEF Captured, Same
  <2> HIDE DEF new
  <2>7. /\ Len(A) = Len(captured)
        /\ \A i \in 1 .. Len(captured) : A[i] = IF i = k THEN new ELSE captured[i]
    <3>1. A = [captured EXCEPT ![k] = new]
      BY DEF new
    <3> HIDE DEF A
    <3> QED BY <3>1, <1>2, <1>5, <2>3, <2>6, ExceptSeq
  <2> HIDE DEF A
  <2>8. ASSUME NEW i \in 1 .. Len(captured)
        PROVE  /\ Same(A[i], captured[i])
               /\ captured[i].headers => A[i].headers
               /\ captured[i].firstByte => A[i].firstByte
               /\ captured[i].answered => A[i].answered
               /\ LacksItsBody(A[i]) => A[i] = captured[i]
    <3>1. CASE i = k
      BY <3>1, <2>6, <2>7, <1>3 DEF LacksItsBody
    <3>2. CASE i # k
      BY <3>2, <2>7 DEF Same
    <3> QED BY <3>1, <3>2
  <2>9. /\ Len(captured') = Len(captured)
        /\ \A i \in 1 .. Len(captured) :
              /\ Same(captured'[i], captured[i])
              /\ captured[i].headers => captured'[i].headers
              /\ captured[i].firstByte => captured'[i].firstByte
              /\ captured[i].answered => captured'[i].answered
    BY <2>4, <2>7, <2>8
  <2>10. \A i \in 1 .. Len(captured'), p \in 1 .. Len(pending') :
              LacksItsBody(captured'[i]) => captured'[i].key # pending'[p].key
    <3>1. ASSUME NEW i \in 1 .. Len(captured), NEW p \in 1 .. Len(pending),
                 LacksItsBody(A[i])
          PROVE  A[i].key # pending[p].key
      <4>1. A[i] = captured[i]
        BY <2>8, <3>1
      <4> QED BY <3>1, <4>1 DEF AloneInv
    <3> QED BY <3>1, <2>4, <2>9
  <2> QED BY <1>6, <2>9, <2>10, AloneRewrites
<1>8. CASE waiting = {}
  <2>1. captured' = captured /\ pending' = B
    BY <1>4, <1>8
  <2>2. \A q \in 1 .. Len(pending) : pending[q].body # t.id
    <3>1. Brings(t)
      BY DEF Brings
    <3> QED BY <3>1, <1>1 DEF PendingTells
  <2>3. key \in Keys /\ Len(pending) <= PendingLimit
    BY <1>1, <1>3, CaptureAssumption DEF PendingTells
  <2>4. \A i \in 1 .. Len(captured) : LacksItsBody(captured[i]) => captured[i].key # key
    BY <1>5, <1>8 DEF WaitingForBody, LacksItsBody
  <2> HIDE DEF key, waiting
  <2>5. \A p \in 1 .. Len(B) :
            \/ B[p] = [key |-> key, body |-> t.id]
            \/ \E q \in 1 .. Len(pending) : B[p] = pending[q]
    BY <2>2, <2>3, <1>2, <1>3, BufferedEntries
  <2> HIDE DEF B
  <2>6. ASSUME NEW i \in 1 .. Len(captured), NEW p \in 1 .. Len(B), LacksItsBody(captured[i])
        PROVE  captured[i].key # B[p].key
    <3>1. CASE B[p] = [key |-> key, body |-> t.id]
      BY <3>1, <2>4, <2>6
    <3>2. CASE \E q \in 1 .. Len(pending) : B[p] = pending[q]
      BY <3>2, <2>6 DEF AloneInv
    <3> QED BY <3>1, <3>2, <2>5
  <2>7. /\ Len(captured') = Len(captured)
        /\ \A i \in 1 .. Len(captured) :
              /\ Same(captured'[i], captured[i])
              /\ captured[i].headers => captured'[i].headers
              /\ captured[i].firstByte => captured'[i].firstByte
              /\ captured[i].answered => captured'[i].answered
        /\ \A i \in 1 .. Len(captured'), p \in 1 .. Len(pending') :
              LacksItsBody(captured'[i]) => captured'[i].key # pending'[p].key
    BY <2>1, <2>6 DEF Same
  <2> QED BY <1>6, <2>7, AloneRewrites
<1> QED BY <1>7, <1>8

\* A fact is marked on every record of the request, unless they all have it.
LEMMA AloneMarks ==
    ASSUME QuietInv, AloneInv, NEW t \in tasks, tasks' = {}, t.snap = captured,
           UNCHANGED <<pending, net, order>>,
           \/ t.kind = "headers" /\ WriteHeaders(t)
           \/ t.kind = "firstByte" /\ WriteFirstByte(t)
    PROVE  AloneInv'
<1> DEFINE M == Marked(captured, t.id, t.kind)
<1>1. captured \in Seq(Captured)
  BY DEF QuietInv, CaptureInv, Types
<1>2. /\ Len(M) = Len(captured)
      /\ \A i \in 1 .. Len(captured) :
            M[i] = IF captured[i].id = t.id THEN [captured[i] EXCEPT ![t.kind] = TRUE]
                   ELSE captured[i]
  BY <1>1, MarkedRecords
<1>3. \/ captured' = M
      \/ /\ captured' = captured
         /\ \A i \in 1 .. Len(captured) : captured[i].id = t.id =>
               t.kind = "firstByte" /\ captured[i].firstByte
  <2>1. DOMAIN captured = 1 .. Len(captured)
    BY <1>1
  <2> QED BY <2>1 DEF WriteHeaders, WriteFirstByte
<1> HIDE DEF M
<1>4. ASSUME NEW i \in 1 .. Len(captured)
      PROVE  /\ Same(M[i], captured[i]) /\ M[i].key = captured[i].key
             /\ M[i].body = captured[i].body /\ M[i].answered = captured[i].answered
             /\ captured[i].headers => M[i].headers
             /\ captured[i].firstByte => M[i].firstByte
             /\ captured[i].id = t.id => /\ t.kind = "headers" => M[i].headers
                                         /\ t.kind = "firstByte" => M[i].firstByte
  <2>1. captured[i] \in Captured
    BY <1>1, ElementOfSeq
  <2>2. CASE captured[i].id # t.id
    BY <2>2, <1>2 DEF Same
  <2>3. CASE captured[i].id = t.id /\ t.kind = "headers"
    <3>1. M[i] = [captured[i] EXCEPT !.headers = TRUE]
      BY <2>3, <1>2
    <3> QED BY <2>1, <2>3, <3>1 DEF Captured, Same
  <2>4. CASE captured[i].id = t.id /\ t.kind = "firstByte"
    <3>1. M[i] = [captured[i] EXCEPT !.firstByte = TRUE]
      BY <2>4, <1>2
    <3> QED BY <2>1, <2>4, <3>1 DEF Captured, Same
  <2> QED BY <2>2, <2>3, <2>4
<1>5. ~Creates(t) /\ t.kind # "completed"
  BY DEF Creates
<1>6. /\ Len(captured') = Len(captured)
      /\ \A i \in 1 .. Len(captured) :
            /\ Same(captured'[i], captured[i]) /\ captured'[i].key = captured[i].key
            /\ captured'[i].body = captured[i].body
            /\ captured'[i].answered = captured[i].answered
            /\ captured[i].headers => captured'[i].headers
            /\ captured[i].firstByte => captured'[i].firstByte
            /\ captured[i].id = t.id => /\ t.kind = "headers" => captured'[i].headers
                                        /\ t.kind = "firstByte" => captured'[i].firstByte
  <2>1. CASE captured' = M
    BY <2>1, <1>2, <1>4
  <2>2. CASE captured' # M
    BY <2>2, <1>3 DEF Same
  <2> QED BY <2>1, <2>2
<1>7. \A i \in 1 .. Len(captured'), p \in 1 .. Len(pending') :
          LacksItsBody(captured'[i]) => captured'[i].key # pending'[p].key
  <2>1. \A i \in 1 .. Len(captured) : LacksItsBody(captured'[i]) => LacksItsBody(captured[i])
    BY <1>6 DEF LacksItsBody, Same
  <2> QED BY <2>1, <1>6 DEF AloneInv
<1> QED BY <1>5, <1>6, <1>7, AloneRewrites

LEMMA AloneWrites ==
    ASSUME QuietInv, AloneInv, NEW t \in tasks, Write(t)
    PROVE  AloneInv'
<1>1. tasks' = {} /\ t.read /\ t.snap = captured
  <2>1. tasks = {t}
    BY DEF AloneInv
  <2> QED BY <2>1 DEF AloneInv, Write
<1>2. UNCHANGED <<net, order>>
  BY DEF Write
<1>3. CaptureInv /\ TaskTells(t) /\ t.kind \in Kinds /\ t.id # NoBody
  BY CaptureAssumption DEF QuietInv, CaptureInv, TasksTell, Types, Task
<1>4. CASE t.kind = "before"
  <2>1. captured' = Prepend(FreshRecord(t.id, t.hop), captured) /\ pending' = pending
    BY <1>1, <1>4 DEF Write, WriteBefore
  <2>2. Creates(t)
    BY <1>4 DEF Creates
  <2>3. FreshRecord(t.id, t.hop) \in Captured /\ Same(FreshRecord(t.id, t.hop), t)
    BY <1>3, <1>4, <2>2, NewRecords
  <2>4. ~LacksItsBody(FreshRecord(t.id, t.hop))
    BY DEF LacksItsBody, FreshRecord
  <2> QED BY <1>1, <1>2, <2>1, <2>2, <2>3, <2>4, AloneAdds
<1>5. CASE t.kind \in {"mock", "replay"}
  <2>1. PICK body \in {t.id, NoBody} :
            captured' = Prepend(Whole(t.id, body), captured) /\ pending' = pending
    BY <1>1, <1>5 DEF Write, WriteMock, WriteReplay
  <2>2. Creates(t)
    BY <1>5 DEF Creates
  <2>3. Whole(t.id, body) \in Captured /\ Same(Whole(t.id, body), t)
    BY <1>3, <1>5, <2>2, NewRecords
  <2>4. ~LacksItsBody(Whole(t.id, body))
    <3>1. t.id \notin Requests
      BY <1>3, <1>5 DEF TaskTells
    <3> QED BY <2>3, <3>1 DEF LacksItsBody, Same
  <2> QED BY <1>1, <1>2, <2>1, <2>2, <2>3, <2>4, AloneAdds
<1>6. CASE t.kind = "headers"
  BY <1>1, <1>2, <1>6, AloneMarks DEF Write, WriteHeaders
<1>7. CASE t.kind = "firstByte"
  BY <1>1, <1>2, <1>7, AloneMarks DEF Write, WriteFirstByte
<1>8. CASE t.kind = "completed"
  BY <1>1, <1>2, <1>8, AloneAnswers DEF Write
<1>9. CASE t.kind = "body"
  BY <1>1, <1>2, <1>9, AloneBrings DEF Write
<1> QED BY <1>3, <1>4, <1>5, <1>6, <1>7, <1>8, <1>9 DEF Kinds

\* The only handler gets the list, or a replay fails.
LEMMA AloneGoesOn ==
    ASSUME QuietInv, AloneInv, ~overlapped, NEW t \in tasks, ReadCaptured(t) \/ ReplayFails(t)
    PROVE  AloneInv'
<1>1. tasks = {t}
  BY DEF AloneInv
<1>2. UNCHANGED <<captured, pending, net>>
  BY DEF ReadCaptured, ReplayFails
<1>3. order \in Seq(Began) /\ t \in Task
  BY DEF QuietInv, CaptureInv, Types, Began
<1>4. CASE ReadCaptured(t)
  <2>1. PICK u : u = [t EXCEPT !.read = TRUE, !.snap = captured]
    OBVIOUS
  <2>2. tasks' = {u} /\ order' = order
    BY <1>1, <1>4, <2>1 DEF ReadCaptured
  <2>3. u.kind = t.kind /\ u.id = t.id /\ u.hop = t.hop /\ u.snap = captured
    <3> DEFINE v == [t EXCEPT !.read = TRUE]
    <3>1. v \in Task /\ v.kind = t.kind /\ v.id = t.id /\ v.hop = t.hop
      BY <1>3 DEF Task
    <3>2. u = [v EXCEPT !.snap = captured]
      BY <1>3, <2>1 DEF Task
    <3> HIDE DEF v
    <3> QED BY <3>1, <3>2 DEF Task
  <2>4. (Creates(u) <=> Creates(t)) /\ \A kind, id : Under(kind, id)' <=> Under(kind, id)
    BY <1>1, <2>2, <2>3 DEF Creates, Under
  <2>5. /\ IsNewest(t) => IsNewest(u)'
        /\ ListedAfter(0) => ListedAfter(0)'
        /\ ListedAfter(1) => ListedAfter(1)'
    BY <1>2, <2>2, <2>3 DEF IsNewest, ListedAfter
  <2>6. \A i \in 1 .. Len(captured') : HasAll(captured[i])'
    BY <1>2, <2>4 DEF AloneInv, HasAll
  <2>7. /\ \A v \in tasks' : Creates(v) => IsNewest(v)' /\ ListedAfter(1)'
        /\ (\A v \in tasks' : ~Creates(v)) => ListedAfter(0)'
    BY <1>1, <2>2, <2>4, <2>5 DEF AloneInv
  <2>8. \A i \in 1 .. Len(captured'), p \in 1 .. Len(pending') :
            LacksItsBody(captured'[i]) => captured'[i].key # pending'[p].key
    BY <1>2 DEF AloneInv
  <2> QED BY <1>2, <2>2, <2>3, <2>6, <2>7, <2>8 DEF AloneInv
<1>5. CASE ReplayFails(t)
  <2>1. tasks' = {} /\ order' = Tail(order) /\ t.kind = "replay"
    BY <1>1, <1>5 DEF ReplayFails
  <2>2. IsNewest(t) /\ ListedAfter(1)
    BY <2>1 DEF AloneInv, Creates
  <2>3. order # <<>> /\ Len(order) \in Nat
    BY <1>3, <2>2 DEF IsNewest
  <2>4. /\ Len(order') = Len(order) - 1
        /\ \A i \in 1 .. Len(order) - 1 : order'[i] = order[i + 1]
    BY <1>3, <2>1, <2>3, HeadTailProperties
  <2>5. ListedAfter(0)'
    <3>1. Len(order') - 0 = Len(order) - 1
      BY <2>3, <2>4
    <3>2. Len(captured) = IF Len(order) - 1 < MaxCaptured THEN Len(order) - 1 ELSE MaxCaptured
      BY <2>2 DEF ListedAfter
    <3>3. ASSUME NEW i \in 1 .. Len(captured)
          PROVE  order'[i + 0] = [id |-> captured[i].id, hop |-> captured[i].hop]
      <4>1. i \in 1 .. Len(order) - 1 /\ i + 0 = i
        <5>1. MaxCaptured \in Nat
          BY CaptureAssumption
        <5> QED BY <5>1, <2>3, <3>2
      <4>2. order[i + 1] = [id |-> captured[i].id, hop |-> captured[i].hop]
        BY <2>2 DEF ListedAfter
      <4> QED BY <4>1, <4>2, <2>4
    <3> QED BY <1>2, <3>1, <3>2, <3>3 DEF ListedAfter
  <2>6. ASSUME NEW i \in 1 .. Len(captured)
        PROVE  HasAll(captured[i])'
    <3>1. PICK c : c = captured[i]
      OBVIOUS
    <3>2. HasAll(c)'
      BY <1>2, <2>1, <3>1, AloneLacks
    <3> QED BY <1>2, <3>1, <3>2 DEF HasAll, Under
  <2>7. \A i \in 1 .. Len(captured'), p \in 1 .. Len(pending') :
            LacksItsBody(captured'[i]) => captured'[i].key # pending'[p].key
    BY <1>2 DEF AloneInv
  <2> QED BY <1>2, <2>1, <2>5, <2>6, <2>7, AloneEnds
<1> QED BY <1>4, <1>5

\* The list is emptied, or the worker is stopped, while no handler is under way.
LEMMA AloneUpset ==
    ASSUME QuietInv, AloneInv, tasks = {}, PanelClear \/ WorkerRestart
    PROVE  AloneInv'
<1>1. tasks' = {} /\ net' = net
  BY DEF PanelClear, WorkerRestart
<1>2. CASE PanelClear
  <2>1. captured' = <<>> /\ order' = <<>> /\ pending' = pending
    BY <1>2 DEF PanelClear
  <2>2. ListedAfter(0)'
    BY <2>1, CaptureAssumption DEF ListedAfter
  <2> QED BY <1>1, <2>1, <2>2, AloneEnds
<1>3. CASE WorkerRestart
  <2>1. captured' = captured /\ order' = order /\ pending' = <<>>
    BY <1>3 DEF WorkerRestart
  <2>2. ListedAfter(0)'
    BY <2>1 DEF AloneInv, ListedAfter
  <2>3. \A i \in 1 .. Len(captured') : HasAll(captured[i])'
    BY <1>1, <2>1 DEF AloneInv, HasAll, Under
  <2> QED BY <1>1, <2>1, <2>2, <2>3, AloneEnds
<1> QED BY <1>2, <1>3

\* The browser reports headers, a first byte and an end in this order, of one hop at a time.
LEMMA ReportsStayInOrder ==
    ASSUME Types, ReportsInOrder, [Next]_vars
    PROVE  ReportsInOrder'
<1>1. CASE net' = net
  BY <1>1 DEF ReportsInOrder
<1>2. ASSUME NEW r \in Requests, NEW new \in Report, net' = [net EXCEPT ![r] = new],
             \A h \in new.sent : new.begun /\ h <= new.hop,
             new.started => new.hop \in new.sent,
             new.completed => new.started
      PROVE  ReportsInOrder'
  <2>1. ASSUME NEW q \in Requests
        PROVE  net'[q] = IF q = r THEN new ELSE net[q]
    BY <1>2 DEF Types
  <2> QED BY <1>2, <2>1 DEF ReportsInOrder
<1>3. ASSUME NEW r \in Requests,
             \/ BeforeRequest(r) \/ RedirectedRequest(r) \/ SendHeaders(r)
             \/ ResponseStarted(r) \/ Completed(r)
      PROVE  ReportsInOrder'
  <2>1. /\ net[r] \in Report /\ net[r].hop \in Nat /\ net[r].hop \in Hops
        /\ net[r].sent \in SUBSET Hops
        /\ \A h \in net[r].sent : h \in Nat /\ net[r].begun /\ h <= net[r].hop
        /\ net[r].started => net[r].hop \in net[r].sent
        /\ net[r].completed => net[r].started
    BY DEF Types, Report, Hops, ReportsInOrder
  <2>2. CASE BeforeRequest(r)
    <3> DEFINE new == [net[r] EXCEPT !.begun = TRUE]
    <3>1. /\ new \in Report /\ new.begun /\ new.hop = net[r].hop /\ new.sent = net[r].sent
          /\ new.started = net[r].started /\ new.completed = net[r].completed
      BY <2>1 DEF Report
    <3>2. net' = [net EXCEPT ![r] = new]
      BY <2>2 DEF BeforeRequest
    <3> HIDE DEF new
    <3> QED BY <2>1, <3>1, <3>2, <1>2
  <2>3. CASE RedirectedRequest(r)
    <3> DEFINE new == [net[r] EXCEPT !.hop = 1]
    <3>1. /\ new \in Report /\ new.begun = net[r].begun /\ new.hop = 1
          /\ new.sent = net[r].sent
          /\ new.started = net[r].started /\ new.completed = net[r].completed
      BY <2>1 DEF Report, Hops
    <3>2. net' = [net EXCEPT ![r] = new] /\ net[r].hop = 0 /\ ~net[r].started
      BY <2>3 DEF RedirectedRequest
    <3> HIDE DEF new
    <3>3. \A h \in new.sent : new.begun /\ h <= new.hop
      <4>1. ASSUME NEW h \in net[r].sent
            PROVE  net[r].begun /\ h <= 1
        BY <2>1, <3>2
      <4> QED BY <3>1, <4>1
    <3>4. ~new.started /\ ~new.completed
      BY <2>1, <3>1, <3>2
    <3> QED BY <3>1, <3>2, <3>3, <3>4, <1>2
  <2>4. CASE SendHeaders(r)
    <3> DEFINE new == [net[r] EXCEPT !.sent = net[r].sent \cup {net[r].hop}]
    <3>1. /\ new \in Report /\ new.begun = net[r].begun /\ new.hop = net[r].hop
          /\ new.sent = net[r].sent \cup {net[r].hop}
          /\ new.started = net[r].started /\ new.completed = net[r].completed
      BY <2>1 DEF Report
    <3>2. net' = [net EXCEPT ![r] = new] /\ net[r].begun
      BY <2>4 DEF SendHeaders
    <3> HIDE DEF new
    <3>3. \A h \in new.sent : new.begun /\ h <= new.hop
      <4>1. net[r].hop <= net[r].hop
        BY <2>1
      <4> QED BY <2>1, <3>1, <3>2, <4>1
    <3>4. new.started => new.hop \in new.sent
      BY <3>1
    <3>5. new.completed => new.started
      BY <2>1, <3>1
    <3> QED BY <3>1, <3>2, <3>3, <3>4, <3>5, <1>2
  <2>5. CASE ResponseStarted(r)
    <3> DEFINE new == [net[r] EXCEPT !.started = TRUE]
    <3>1. /\ new \in Report /\ new.begun = net[r].begun /\ new.hop = net[r].hop
          /\ new.sent = net[r].sent /\ new.started /\ new.completed = net[r].completed
      BY <2>1 DEF Report
    <3>2. net' = [net EXCEPT ![r] = new] /\ net[r].hop \in net[r].sent
      BY <2>5 DEF ResponseStarted
    <3> HIDE DEF new
    <3> QED BY <2>1, <3>1, <3>2, <1>2
  <2>6. CASE Completed(r)
    <3> DEFINE new == [net[r] EXCEPT !.completed = TRUE]
    <3>1. /\ new \in Report /\ new.begun = net[r].begun /\ new.hop = net[r].hop
          /\ new.sent = net[r].sent /\ new.started = net[r].started /\ new.completed
      BY <2>1 DEF Report
    <3>2. net' = [net EXCEPT ![r] = new] /\ net[r].started
      BY <2>6 DEF Completed
    <3> HIDE DEF new
    <3> QED BY <2>1, <3>1, <3>2, <1>2
  <2> QED BY <1>3, <2>2, <2>3, <2>4, <2>5, <2>6
<1>4. ASSUME NEW t \in tasks, ReadCaptured(t) \/ Write(t) \/ ReplayFails(t)
      PROVE  net' = net
  BY <1>4 DEF ReadCaptured, Write, ReplayFails
<1> QED BY <1>1, <1>3, <1>4 DEF Next, BodyCaptured, MockApplied, RepeatRequest, PanelClear,
                                WorkerRestart, vars

\* A handler starts while nothing is under way, and nothing had overlapped.
LEMMA AloneBegins ==
    ASSUME QuietInv, AloneInv, tasks = {}, NEW r \in Requests,
           \/ BeforeRequest(r) \/ RedirectedRequest(r) \/ SendHeaders(r)
           \/ ResponseStarted(r) \/ Completed(r) \/ BodyCaptured(r),
           ~overlapped'
    PROVE  AloneInv'
<1>1. Types /\ ReportsInOrder
  BY DEF QuietInv, CaptureInv
<1>2. /\ r \in Exchanges /\ 0 \in Hops /\ 1 \in Hops
      /\ {"before", "headers", "firstByte", "completed", "body"} \subseteq Kinds
      /\ net[r] \in Report /\ net \in [Requests -> Report]
  BY <1>1 DEF Exchanges, Hops, Kinds, Types
<1>3. net[r].hop \in Hops
  BY <1>2 DEF Report
<1>4. CASE BeforeRequest(r)
  <2>1. /\ ~net[r].begun /\ net' = [net EXCEPT ![r].begun = TRUE]
        /\ StartWaiting("before", r, 0) /\ UNCHANGED <<captured, pending>>
        /\ order' = <<[id |-> r, hop |-> 0]>> \o order
    BY <1>4 DEF BeforeRequest, Begins
  <2>2. PICK u \in Task : /\ u.kind = "before" /\ u.id = r /\ u.hop = 0 /\ u.snap = <<>>
                          /\ tasks' = tasks \cup {u} /\ ~u.read
    BY <1>1, <1>2, <2>1, StartedTasks
  <2>3. ASSUME NEW q \in Requests
        PROVE  /\ net'[q].sent = net[q].sent /\ net'[q].started = net[q].started
               /\ net'[q].completed = net[q].completed
    <3>1. net[q] \in Report
      BY <1>2
    <3> QED BY <1>2, <2>1, <3>1 DEF Report
  <2>4. net[r].sent = {} /\ ~net[r].started /\ ~net[r].completed
    BY <1>1, <2>1 DEF ReportsInOrder
  <2>5. tasks' = {u} /\ Creates(u)
    BY <2>2 DEF Creates
  <2>6. \A h \in net'[u.id].sent : ~(h >= u.hop)
    BY <2>2, <2>3, <2>4
  <2>7. ~net'[u.id].started /\ ~net'[u.id].completed
    BY <2>2, <2>3, <2>4
  <2> QED BY <2>1, <2>2, <2>3, <2>5, <2>6, <2>7, AloneStarts
<1>5. CASE RedirectedRequest(r)
  <2>1. /\ net[r].hop = 0 /\ ~net[r].started /\ net' = [net EXCEPT ![r].hop = 1]
        /\ StartWaiting("before", r, 1) /\ UNCHANGED <<captured, pending>>
        /\ order' = <<[id |-> r, hop |-> 1]>> \o order
    BY <1>5 DEF RedirectedRequest, Begins
  <2>2. PICK u \in Task : /\ u.kind = "before" /\ u.id = r /\ u.hop = 1 /\ u.snap = <<>>
                          /\ tasks' = tasks \cup {u} /\ ~u.read
    BY <1>1, <1>2, <2>1, StartedTasks
  <2>3. ASSUME NEW q \in Requests
        PROVE  /\ net'[q].sent = net[q].sent /\ net'[q].started = net[q].started
               /\ net'[q].completed = net[q].completed
    <3>1. net[q] \in Report
      BY <1>2
    <3> QED BY <1>2, <2>1, <3>1 DEF Report
  <2>4. /\ \A h \in net[r].sent : ~(h >= 1)
        /\ ~net[r].started /\ ~net[r].completed
    <3>1. net[r].sent \subseteq Nat
      BY <1>2 DEF Report, Hops
    <3>2. \A h \in net[r].sent : h <= 0
      BY <1>1, <2>1 DEF ReportsInOrder
    <3> QED BY <1>1, <2>1, <3>1, <3>2 DEF ReportsInOrder
  <2>5. tasks' = {u} /\ Creates(u)
    BY <2>2 DEF Creates
  <2>6. \A h \in net'[u.id].sent : ~(h >= u.hop)
    BY <2>2, <2>3, <2>4
  <2>7. ~net'[u.id].started /\ ~net'[u.id].completed
    BY <2>2, <2>3, <2>4
  <2> QED BY <2>1, <2>2, <2>3, <2>5, <2>6, <2>7, AloneStarts
<1>6. ASSUME NEW kind \in {"headers", "firstByte", "completed", "body"}, NEW hop \in Hops,
             StartReading(kind, r, hop), UNCHANGED <<captured, pending, order>>,
             \A q \in Requests :
                /\ net'[q].sent = net[q].sent \/ (kind = "headers" /\ q = r)
                /\ net'[q].started = net[q].started \/ (kind = "firstByte" /\ q = r)
                /\ net'[q].completed = net[q].completed \/ (kind = "completed" /\ q = r)
      PROVE  AloneInv'
  <2>1. kind \in Kinds
    BY DEF Kinds
  <2>2. PICK u \in Task : /\ u.kind = kind /\ u.id = r /\ u.read /\ u.snap = captured
                          /\ tasks' = tasks \cup {u}
    BY <1>1, <1>2, <1>6, <2>1, StartedTasks
  <2>3. tasks' = {u} /\ ~Creates(u)
    BY <2>2 DEF Creates
  <2>4. \A q \in Requests :
                /\ net'[q].sent = net[q].sent \/ (u.kind = "headers" /\ u.id = q)
                /\ net'[q].started = net[q].started \/ (u.kind = "firstByte" /\ u.id = q)
                /\ net'[q].completed = net[q].completed \/ (u.kind = "completed" /\ u.id = q)
    BY <1>6, <2>2
  <2> QED BY <1>6, <2>2, <2>3, <2>4, AloneStarts
<1>7. \A q \in Requests : net[q] \in Report
  BY <1>2
<1>8. CASE SendHeaders(r)
  <2>1. /\ net' = [net EXCEPT ![r].sent = net[r].sent \cup {net[r].hop}]
        /\ StartReading("headers", r, net[r].hop) /\ UNCHANGED <<captured, pending, order>>
    BY <1>8 DEF SendHeaders
  <2>2. ASSUME NEW q \in Requests
        PROVE  /\ net'[q].sent = net[q].sent \/ q = r
               /\ net'[q].started = net[q].started /\ net'[q].completed = net[q].completed
    BY <1>2, <1>7, <2>1 DEF Report
  <2> QED BY <1>3, <2>1, <2>2, <1>6
<1>9. CASE ResponseStarted(r)
  <2>1. /\ net' = [net EXCEPT ![r].started = TRUE]
        /\ StartReading("firstByte", r, net[r].hop) /\ UNCHANGED <<captured, pending, order>>
    BY <1>9 DEF ResponseStarted
  <2>2. ASSUME NEW q \in Requests
        PROVE  /\ net'[q].started = net[q].started \/ q = r
               /\ net'[q].sent = net[q].sent /\ net'[q].completed = net[q].completed
    BY <1>2, <1>7, <2>1 DEF Report
  <2> QED BY <1>3, <2>1, <2>2, <1>6
<1>10. CASE Completed(r)
  <2>1. /\ net' = [net EXCEPT ![r].completed = TRUE]
        /\ StartReading("completed", r, net[r].hop) /\ UNCHANGED <<captured, pending, order>>
    BY <1>10 DEF Completed
  <2>2. ASSUME NEW q \in Requests
        PROVE  /\ net'[q].completed = net[q].completed \/ q = r
               /\ net'[q].sent = net[q].sent /\ net'[q].started = net[q].started
    BY <1>2, <1>7, <2>1 DEF Report
  <2> QED BY <1>3, <2>1, <2>2, <1>6
<1>11. CASE BodyCaptured(r)
  <2>1. StartReading("body", r, 0) /\ UNCHANGED <<captured, pending, order, net>>
    BY <1>11 DEF BodyCaptured
  <2> QED BY <1>2, <2>1, <1>6
<1> QED BY <1>4, <1>5, <1>8, <1>9, <1>10, <1>11

LEMMA AloneReplies ==
    ASSUME QuietInv, AloneInv, tasks = {}, NEW x \in Exchanges, x \notin Requests,
           MockApplied(x) \/ RepeatRequest(x), ~overlapped'
    PROVE  AloneInv'
<1>1. Types
  BY DEF QuietInv, CaptureInv
<1>2. 0 \in Hops /\ "mock" \in Kinds /\ "replay" \in Kinds
  BY DEF Hops, Kinds
<1>3. /\ StartReading("mock", x, 0) \/ StartWaiting("replay", x, 0)
      /\ UNCHANGED <<captured, pending, net>>
      /\ order' = <<[id |-> x, hop |-> 0]>> \o order
  BY DEF MockApplied, RepeatRequest, Begins
<1>4. PICK u \in Task : /\ u.kind \in {"mock", "replay"} /\ u.id = x /\ u.hop = 0
                        /\ u.read => u.snap = captured
                        /\ tasks' = tasks \cup {u}
  BY <1>1, <1>2, <1>3, StartedTasks
<1>5. tasks' = {u} /\ Creates(u)
  BY <1>4 DEF Creates
<1> QED BY <1>3, <1>4, <1>5, AloneStarts

LEMMA OrderIsTyped ==
    ASSUME QuietInv, [Next]_vars
    PROVE  order' \in Seq(Began) /\ overlapped' \in BOOLEAN
<1>1. <<>> \in Seq(Began) /\ order \in Seq(Began) /\ overlapped \in BOOLEAN
  BY EmptySeq DEF QuietInv, Began
<1>2. ASSUME NEW id \in Exchanges, NEW hop \in Hops, Begins(id, hop)
      PROVE  order' \in Seq(Began)
  <2> DEFINE e == [id |-> id, hop |-> hop]
  <2>1. <<e>> \in Seq(Began)
    BY DEF Began
  <2> HIDE DEF e
  <2>2. <<e>> \o order \in Seq(Began)
    BY <1>1, <2>1, ConcatProperties
  <2> QED BY <1>1, <1>2, <2>2 DEF Begins, e
<1>3. \A kind, id, hop : StartReading(kind, id, hop) \/ StartWaiting(kind, id, hop)
                            => overlapped' \in BOOLEAN
  BY DEF StartReading, StartWaiting
<1>4. 0 \in Hops /\ 1 \in Hops
  BY DEF Hops
<1>5. ASSUME NEW r \in Requests,
             \/ BeforeRequest(r) \/ RedirectedRequest(r) \/ SendHeaders(r)
             \/ ResponseStarted(r) \/ Completed(r) \/ BodyCaptured(r)
      PROVE  order' \in Seq(Began) /\ overlapped' \in BOOLEAN
  <2>1. r \in Exchanges
    BY DEF Exchanges
  <2> QED BY <1>1, <1>2, <1>3, <1>4, <1>5, <2>1 DEF BeforeRequest, RedirectedRequest, SendHeaders,
             ResponseStarted, Completed, BodyCaptured
<1>6. ASSUME NEW x \in Mocks \cup Replays, MockApplied(x) \/ RepeatRequest(x)
      PROVE  order' \in Seq(Began) /\ overlapped' \in BOOLEAN
  <2>1. x \in Exchanges
    BY DEF Exchanges
  <2> QED BY <1>2, <1>3, <1>4, <1>6, <2>1 DEF MockApplied, RepeatRequest
<1>7. ASSUME NEW t \in tasks, ReadCaptured(t) \/ Write(t)
      PROVE  order' \in Seq(Began) /\ overlapped' \in BOOLEAN
  BY <1>1, <1>7 DEF ReadCaptured, Write
<1>8. ASSUME NEW t \in tasks, ReplayFails(t)
      PROVE  order' \in Seq(Began) /\ overlapped' \in BOOLEAN
  <2>1. CASE overlapped
    BY <1>1, <1>8, <2>1 DEF ReplayFails
  <2>2. CASE ~overlapped
    <3>1. order' = Tail(order) /\ overlapped' = overlapped
      BY <1>8, <2>2 DEF ReplayFails
    <3>2. Creates(t) /\ AloneInv
      BY <1>8, <2>2 DEF Creates, ReplayFails, QuietInv
    <3>3. Len(order) > 0
      BY <3>2 DEF AloneInv, IsNewest
    <3>4. order # <<>>
      BY <3>3
    <3> QED BY <1>1, <3>1, <3>4, HeadTailProperties
  <2> QED BY <2>1, <2>2
<1>9. PanelClear \/ WorkerRestart \/ UNCHANGED vars
         => order' \in Seq(Began) /\ overlapped' \in BOOLEAN
  BY <1>1 DEF PanelClear, WorkerRestart, vars
<1> QED BY <1>5, <1>6, <1>7, <1>8, <1>9 DEF Next

LEMMA AloneInvHolds ==
    ASSUME QuietInv, [Next]_vars, ~overlapped'
    PROVE  AloneInv'
<1>1. overlapped \in BOOLEAN /\ (~overlapped => AloneInv)
  BY DEF QuietInv
<1>2. \A kind, id, hop : StartReading(kind, id, hop) \/ StartWaiting(kind, id, hop)
                            => ~overlapped /\ tasks = {}
  BY DEF StartReading, StartWaiting
<1>3. ASSUME NEW r \in Requests,
             \/ BeforeRequest(r) \/ RedirectedRequest(r) \/ SendHeaders(r)
             \/ ResponseStarted(r) \/ Completed(r) \/ BodyCaptured(r)
      PROVE  AloneInv'
  <2>1. ~overlapped /\ tasks = {}
    BY <1>2, <1>3 DEF BeforeRequest, RedirectedRequest, SendHeaders, ResponseStarted,
                      Completed, BodyCaptured
  <2> QED BY <1>1, <1>3, <2>1, AloneBegins
<1>4. ASSUME NEW x \in Mocks \cup Replays, MockApplied(x) \/ RepeatRequest(x)
      PROVE  AloneInv'
  <2>1. x \in Exchanges /\ x \notin Requests
    BY CaptureAssumption DEF Exchanges
  <2>2. ~overlapped /\ tasks = {}
    BY <1>2, <1>4 DEF MockApplied, RepeatRequest
  <2> QED BY <1>1, <1>4, <2>1, <2>2, AloneReplies
<1>5. ASSUME NEW t \in tasks, ReadCaptured(t) \/ ReplayFails(t)
      PROVE  AloneInv'
  <2>1. ~overlapped
    BY <1>5 DEF ReadCaptured, ReplayFails
  <2> QED BY <1>1, <1>5, <2>1, AloneGoesOn
<1>6. ASSUME NEW t \in tasks, Write(t)
      PROVE  AloneInv'
  <2>1. ~overlapped
    BY <1>6 DEF Write
  <2> QED BY <1>1, <1>6, <2>1, AloneWrites
<1>7. CASE PanelClear \/ WorkerRestart
  <2>1. ~overlapped /\ tasks = {}
    BY <1>7 DEF PanelClear, WorkerRestart
  <2> QED BY <1>1, <1>7, <2>1, AloneUpset
<1>8. CASE UNCHANGED vars
  <2>1. AloneInv
    BY <1>1, <1>8 DEF vars
  <2> QED BY <1>8, <2>1 DEF vars, AloneInv, HasAll, Under, IsNewest, ListedAfter
<1> QED BY <1>3, <1>4, <1>5, <1>6, <1>7, <1>8 DEF Next

\* As long as no handler ran into another one, the list holds the newest requests in the
\* order they began, each with all the browser has reported of it, and no answered request
\* lacks a body that the worker holds for it: "if none exists yet, we buffer the body so
\* onCompleted can pick it up" (index.ts:300-445, 1177-1232).
THEOREM QuietListsAreComplete == Spec => []QuietListIsComplete
<1>1. Init => QuietInv
  <2> SUFFICES ASSUME Init PROVE QuietInv
    OBVIOUS
  <2>1. CaptureInv /\ order \in Seq(Began) /\ overlapped \in BOOLEAN
    BY CaptureStartsRight, EmptySeq DEF Init
  <2>2. ReportsInOrder
    BY DEF Init, ReportsInOrder
  <2>3. ListedAfter(0)
    BY CaptureAssumption DEF Init, ListedAfter
  <2>4. AloneInv
    BY <2>3 DEF Init, AloneInv
  <2> QED BY <2>1, <2>2, <2>4 DEF QuietInv
<1>2. QuietInv /\ [Next]_vars => QuietInv'
  <2> SUFFICES ASSUME QuietInv, [Next]_vars PROVE QuietInv'
    OBVIOUS
  <2>1. CaptureInv'
    BY CaptureInvIsInductive DEF QuietInv
  <2>2. ReportsInOrder'
    BY ReportsStayInOrder DEF QuietInv, CaptureInv
  <2>3. order' \in Seq(Began) /\ overlapped' \in BOOLEAN
    BY OrderIsTyped
  <2>4. ~overlapped' => AloneInv'
    BY AloneInvHolds
  <2> QED BY <2>1, <2>2, <2>3, <2>4 DEF QuietInv, Began
<1>3. QuietInv => QuietListIsComplete
  <2> SUFFICES ASSUME QuietInv, Quiet PROVE
        /\ Len(captured) = IF Len(order) < MaxCaptured THEN Len(order) ELSE MaxCaptured
        /\ \A i \in DOMAIN captured : LET c == captured[i] IN
              /\ order[i] = [id |-> c.id, hop |-> c.hop]
              /\ c.id \in Requests =>
                    /\ c.headers = \E h \in net[c.id].sent : h >= c.hop
                    /\ c.firstByte = net[c.id].started
                    /\ c.answered = net[c.id].completed
        /\ \A p \in DOMAIN pending, i \in DOMAIN captured :
              captured[i].id \in Requests => i \notin WaitingForBody(captured, pending[p].key)
    BY DEF QuietListIsComplete
  <2>1. AloneInv /\ tasks = {} /\ Types /\ ListTells(captured)
    BY DEF QuietInv, Quiet, CaptureInv, ListsTell, Lists
  <2>2. /\ DOMAIN captured = 1 .. Len(captured) /\ DOMAIN pending = 1 .. Len(pending)
        /\ Len(order) \in Nat
    BY <2>1 DEF Types, QuietInv
  <2>3. ListedAfter(0)
    BY <2>1 DEF AloneInv
  <2>4. Len(captured) = IF Len(order) < MaxCaptured THEN Len(order) ELSE MaxCaptured
    <3>1. Len(order) - 0 = Len(order)
      BY <2>2
    <3> QED BY <2>3, <3>1 DEF ListedAfter
  <2>5. ASSUME NEW i \in DOMAIN captured
        PROVE  order[i] = [id |-> captured[i].id, hop |-> captured[i].hop]
    <3>1. i \in 1 .. Len(captured) /\ i + 0 = i
      BY <2>2
    <3> QED BY <2>3, <3>1 DEF ListedAfter
  <2>6. ASSUME NEW i \in DOMAIN captured, captured[i].id \in Requests
        PROVE  /\ captured[i].headers = \E h \in net[captured[i].id].sent : h >= captured[i].hop
               /\ captured[i].firstByte = net[captured[i].id].started
               /\ captured[i].answered = net[captured[i].id].completed
    <3> DEFINE c == captured[i]
               n == net[c.id]
    <3>1. i \in 1 .. Len(captured)
      BY <2>2
    <3>2. /\ c.headers \in BOOLEAN /\ c.firstByte \in BOOLEAN /\ c.answered \in BOOLEAN
      <4>1. c \in Captured
        BY <2>1, <3>1, ElementOfSeq DEF Types
      <4> QED BY <4>1 DEF Captured
    <3>3. n.started \in BOOLEAN /\ n.completed \in BOOLEAN
      <4>1. n \in Report
        BY <2>1, <2>6 DEF Types
      <4> QED BY <4>1 DEF Report
    <3>4. /\ c.headers => \E h \in n.sent : h >= c.hop
          /\ c.firstByte => n.started
          /\ c.answered => n.completed
      BY <2>1, <2>6, <3>1 DEF ListTells, RecordTells
    <3>5. /\ (\E h \in n.sent : h >= c.hop) => c.headers
          /\ n.started => c.firstByte
          /\ n.completed => c.answered
      BY <2>1, <2>6, <3>1 DEF AloneInv, HasAll, Under
    <3> HIDE DEF n, c
    <3>6. c.headers = \E h \in n.sent : h >= c.hop
      BY <3>2, <3>4, <3>5
    <3>7. c.firstByte = n.started /\ c.answered = n.completed
      BY <3>2, <3>3, <3>4, <3>5
    <3> QED BY <3>6, <3>7 DEF n, c
  <2>7. \A p \in DOMAIN pending, i \in DOMAIN captured :
          captured[i].id \in Requests => i \notin WaitingForBody(captured, pending[p].key)
    BY <2>1, <2>2 DEF AloneInv, LacksItsBody, WaitingForBody
  <2> QED BY <2>4, <2>5, <2>6, <2>7
<1> QED BY <1>1, <1>2, <1>3, PTL DEF Spec
===============================================================================
