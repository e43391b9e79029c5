----------------------------- MODULE Tunnel_proofs -----------------------------
(***************************************************************************)
(* A proof about Tunnel, for every host, every number of bytes and both     *)
(* kinds of peers.  The handler takes the splice down when it has received  *)
(* a token; Ending says what the token is worth: while the splice stands, a *)
(* copy ends only at the end of its stream, with every byte handed on, or   *)
(* because a connection broke.                                              *)
(***************************************************************************)
EXTENDS Tunnel, TLAPS

Before == {"hijacked", "handshake", "session", "dialing"}
After == {"closing origin", "closing client", "returned"}
Stopped == {"ended", "exited"}
States == {"none", "reading", "writing", "ended", "exited"}

TypeOK ==
  /\ pc \in Before \cup {"splicing"} \cup After
  /\ DOMAIN open = Sides
  /\ wrote \in [Sides -> Nat]
  /\ DOMAIN finished = Sides
  /\ DOMAIN gone = Sides
  /\ DOMAIN broken = Sides
  /\ copier \in [Sides -> States]
  /\ taken \in [Sides -> Nat]
  /\ given \in [Sides -> Nat]
  /\ done \in Nat

(* What was given on was read, and what was read was written; between two   *)
(* reads a copy has given on all it has read.                               *)
Counts ==
  \A s \in Sides :
    /\ given[s] <= taken[s]
    /\ taken[s] <= wrote[s]
    /\ copier[s] \in {"none", "reading"} => given[s] = taken[s]

HeardFrom(s) == Heard(s) \/ \E q \in Sides : broken[q]

(* Both copies start with the splice, which keeps both connections open; a  *)
(* copy that stops while it stands has carried its stream to the end, and a *)
(* token in the channel comes from such a copy.                             *)
Ending ==
  /\ pc \in Before =>
       /\ open["client"]
       /\ done = 0
       /\ \A s \in Sides : copier[s] = "none"
  /\ pc = "splicing" =>
       /\ \A s \in Sides : open[s] /\ copier[s] # "none"
       /\ \A s \in Sides : copier[s] \in Stopped => HeardFrom(s)
       /\ done > 0 => \E s \in Sides : copier[s] = "exited"
  /\ pc \in After =>
       \/ \A s \in Sides : copier[s] = "none"
       \/ \E s \in Sides : HeardFrom(s)

IInv == TypeOK /\ Counts /\ Ending

LEMMA SidesAreTyped == \A s \in Sides : Other(s) \in Sides /\ Other(Other(s)) = s
BY DEF Sides, Other

LEMMA TypeIsInductive ==
  ASSUME TypeOK, [Next]_vars
  PROVE  TypeOK'
<1>1. CASE Handler \/ SessionEnds
  <2>1. pc' \in Before \cup {"splicing"} \cup After
    BY <1>1 DEF Handler, SessionEnds, Establish, EstablishFails, Handshake, Dial,
                DialFails, Wait, CloseOrigin, CloseClient, Goto, Before, After
  <2>2. DOMAIN open' = Sides /\ copier' \in [Sides -> States]
    BY <1>1 DEF Handler, SessionEnds, Establish, EstablishFails, Handshake, Dial,
                DialFails, Wait, CloseOrigin, CloseClient, copying, TypeOK, States
  <2>4. done' = done \/ (done > 0 /\ done' = done - 1)
    BY <1>1 DEF Handler, SessionEnds, Establish, EstablishFails, Handshake, Dial,
                DialFails, Wait, CloseOrigin, CloseClient, copying
  <2>5. done' \in Nat
    BY <2>4 DEF TypeOK
  <2>3. UNCHANGED <<wrote, finished, gone, broken, taken, given>>
    BY <1>1 DEF Handler, SessionEnds, Establish, EstablishFails, Handshake, Dial,
                DialFails, Wait, CloseOrigin, CloseClient, peers, copying
  <2> QED BY <2>1, <2>2, <2>3, <2>5 DEF TypeOK
<1>2. ASSUME NEW s \in Sides, Copier(s)
      PROVE  TypeOK'
  <2>1. copier' \in [Sides -> States] /\ taken' \in [Sides -> Nat]
    BY <1>2 DEF Copier, Read, ReadEnds, Write, WriteFails, Signal, TypeOK, States
  <2>2. given' \in [Sides -> Nat] /\ done' \in Nat
    BY <1>2 DEF Copier, Read, ReadEnds, Write, WriteFails, Signal, TypeOK
  <2>3. UNCHANGED <<pc, open, wrote, finished, gone>> /\ DOMAIN broken' = Sides
    BY <1>2 DEF Copier, Read, ReadEnds, Write, WriteFails, Signal, peers, TypeOK
  <2> QED BY <2>1, <2>2, <2>3 DEF TypeOK
<1>3. ASSUME NEW s \in Sides,
             PeerWrites(s) \/ PeerFinishes(s) \/ PeerCloses(s) \/ PeerResets(s)
      PROVE  TypeOK'
  BY <1>3 DEF PeerWrites, PeerFinishes, PeerCloses, PeerResets, copying, TypeOK
<1>4. CASE UNCHANGED vars
  BY <1>4 DEF vars, TypeOK
<1> QED BY <1>1, <1>2, <1>3, <1>4 DEF Next

(* Copies give on no more than was written, whoever moves.                  *)
LEMMA CountsAreInductive ==
  ASSUME TypeOK, Counts, Ending, [Next]_vars
  PROVE  Counts'
<1>1. CASE Dial
  BY <1>1 DEF Dial, Goto, TypeOK, Counts, Ending, Before, peers
<1>2. CASE (Handler /\ ~Dial) \/ SessionEnds
  BY <1>2 DEF Handler, SessionEnds, Establish, EstablishFails, Handshake,
              DialFails, Wait, CloseOrigin, CloseClient, Goto, peers, copying, Counts
<1>3. ASSUME NEW s \in Sides, Copier(s)
      PROVE  Counts'
  BY <1>3 DEF Copier, Read, ReadEnds, Write, WriteFails, Signal, peers, TypeOK, Counts
<1>4. ASSUME NEW s \in Sides,
             PeerWrites(s) \/ PeerFinishes(s) \/ PeerCloses(s) \/ PeerResets(s)
      PROVE  Counts'
  BY <1>4 DEF PeerWrites, PeerFinishes, PeerCloses, PeerResets, copying, TypeOK, Counts
<1>5. CASE UNCHANGED vars
  BY <1>5 DEF vars, Counts
<1> QED BY <1>1, <1>2, <1>3, <1>4, <1>5 DEF Next

(* What a side has been heard to say stays heard: after the end of a stream *)
(* nothing is written, and a copy gives on no more than was written.        *)
LEMMA HeardStaysHeard ==
  ASSUME TypeOK, Counts, [Next]_vars, NEW s \in Sides, HeardFrom(s)
  PROVE  HeardFrom(s)'
<1>1. CASE Handler \/ SessionEnds
  BY <1>1 DEF Handler, SessionEnds, Establish, EstablishFails, Handshake, Dial,
              DialFails, Wait, CloseOrigin, CloseClient, Goto, peers, copying, HeardFrom, Heard
<1>2. ASSUME NEW q \in Sides, Copier(q)
      PROVE  HeardFrom(s)'
  <2>1. CASE Write(q)
    <3>1. /\ UNCHANGED <<wrote, finished, taken>>
          /\ given' = [given EXCEPT ![q] = taken[q]]
          /\ broken' = [broken EXCEPT ![Other(q)] = @ \/ gone[Other(q)]]
      BY <2>1 DEF Write
    <3>2. \A p \in Sides : broken[p] => broken'[p]
      BY <3>1 DEF TypeOK
    <3>3. Heard(s) => Heard(s)'
      BY <3>1 DEF TypeOK, Counts, Heard
    <3> QED BY <3>2, <3>3 DEF HeardFrom
  <2>2. CASE Read(q) \/ ReadEnds(q) \/ WriteFails(q) \/ Signal(q)
    BY <2>2 DEF Read, ReadEnds, WriteFails, Signal, peers, HeardFrom, Heard
  <2> QED BY <1>2, <2>1, <2>2 DEF Copier
<1>3. ASSUME NEW q \in Sides, PeerWrites(q)
      PROVE  HeardFrom(s)'
  BY <1>3 DEF PeerWrites, Speaks, copying, TypeOK, HeardFrom, Heard
<1>4. ASSUME NEW q \in Sides, PeerFinishes(q) \/ PeerCloses(q) \/ PeerResets(q)
      PROVE  HeardFrom(s)'
  BY <1>4 DEF PeerFinishes, PeerCloses, PeerResets, copying, TypeOK, HeardFrom, Heard
<1>5. CASE UNCHANGED vars
  BY <1>5 DEF vars, HeardFrom, Heard
<1> QED BY <1>1, <1>2, <1>3, <1>4, <1>5 DEF Next

(* The steps of the handler: the token it waits for is a copy's.            *)
LEMMA HandlerKeepsEnding ==
  ASSUME IInv, Handler \/ SessionEnds, \A s \in Sides : HeardFrom(s) => HeardFrom(s)'
  PROVE  Ending'
<1>1. CASE Establish \/ EstablishFails \/ Handshake \/ DialFails \/ SessionEnds
  BY <1>1 DEF SessionEnds, Establish, EstablishFails, Handshake, DialFails, Goto,
              peers, copying, IInv, Ending, Before, After
<1>2. CASE Dial
  <2>1. /\ pc = "dialing" /\ pc' = "splicing" /\ done' = done
        /\ \A s \in Sides : open'[s] /\ copier'[s] = "reading"
    BY <1>2 DEF Dial, Goto, IInv, TypeOK, Ending, Before, Sides
  <2>2. done = 0
    BY <2>1 DEF IInv, Ending, Before
  <2> QED BY <2>1, <2>2 DEF Ending, Before, After, Stopped
<1>3. CASE Wait
  <2>1. /\ pc = "splicing" /\ done > 0 /\ pc' = "closing origin"
        /\ UNCHANGED <<copier, given, wrote, finished, broken>>
    BY <1>3 DEF Wait, Goto, peers
  <2>2. PICK s \in Sides : copier[s] = "exited"
    BY <2>1 DEF IInv, Ending
  <2>3. HeardFrom(s)
    BY <2>1, <2>2 DEF IInv, Ending, Stopped
  <2> QED BY <2>1, <2>2, <2>3 DEF Ending, Before, After, HeardFrom, Heard
<1>4. CASE CloseOrigin \/ CloseClient
  BY <1>4 DEF CloseOrigin, CloseClient, Goto, peers, copying, IInv, Ending, Before, After
<1> QED BY <1>1, <1>2, <1>3, <1>4 DEF Handler

(* The steps of a copy: it stops for a reason that counts.                  *)
LEMMA CopiersKeepEnding ==
  ASSUME IInv, NEW s \in Sides, Copier(s), \A q \in Sides : HeardFrom(q) => HeardFrom(q)'
  PROVE  Ending'
<1>1. /\ pc' = pc /\ open' = open
      /\ copier[s] \in {"reading", "writing", "ended"}
      /\ \E to \in States \ {"none"} : copier' = [copier EXCEPT ![s] = to]
  BY DEF Copier, Read, ReadEnds, Write, WriteFails, Signal, peers, States
<1>2. copier' \in [Sides -> States] /\ \A q \in Sides \ {s} : copier'[q] = copier[q]
  BY <1>1 DEF IInv, TypeOK
<1>3. pc \notin Before
  BY <1>1 DEF IInv, Ending
<1>4. ASSUME pc = "splicing"
      PROVE  /\ \A q \in Sides : open'[q] /\ copier'[q] # "none"
             /\ \A q \in Sides : copier'[q] \in Stopped => HeardFrom(q)'
             /\ done' > 0 => \E q \in Sides : copier'[q] = "exited"
  <2>1. \A q \in Sides : open'[q] /\ copier'[q] # "none"
    BY <1>1, <1>2, <1>4 DEF IInv, TypeOK, Ending
  <2>2. copier'[s] \in Stopped => HeardFrom(s)
    <3>1. CASE Read(s) \/ Write(s)
      BY <3>1 DEF Read, Write, IInv, TypeOK, Stopped
    <3>2. CASE ReadEnds(s)
      BY <1>4, <3>2 DEF ReadEnds, IInv, Counts, Ending, HeardFrom, Heard
    <3>3. CASE WriteFails(s)
      BY <1>4, <3>3, SidesAreTyped DEF WriteFails, IInv, Ending, HeardFrom
    <3>4. CASE Signal(s)
      BY <1>4, <3>4 DEF Signal, IInv, Ending, Stopped
    <3> QED BY <3>1, <3>2, <3>3, <3>4 DEF Copier
  <2>3. \A q \in Sides : copier'[q] \in Stopped => HeardFrom(q)
    BY <1>2, <1>4, <2>2 DEF IInv, Ending
  <2>4. done' > 0 => \E q \in Sides : copier'[q] = "exited"
    <3>1. CASE Signal(s)
      BY <3>1 DEF Signal, IInv, TypeOK
    <3>2. CASE ~Signal(s)
      <4>1. done' = done /\ copier[s] # "exited"
        BY <1>1, <3>2 DEF Copier, Read, ReadEnds, Write, WriteFails
      <4> QED BY <1>2, <1>4, <4>1 DEF IInv, Ending
    <3> QED BY <3>1, <3>2
  <2> QED BY <2>1, <2>3, <2>4
<1>5. pc \in After => \E q \in Sides : HeardFrom(q)'
  BY <1>1 DEF IInv, Ending
<1> QED BY <1>1, <1>3, <1>4, <1>5 DEF Ending, Before, After

LEMMA IInvIsInductive ==
  /\ Init => IInv
  /\ IInv /\ [Next]_vars => IInv'
<1>1. Init => IInv
  <2>1. Init => TypeOK
    BY DEF Init, TypeOK, Before, After, States
  <2>2. Init => Counts
    BY DEF Init, Counts
  <2>3. Init => open["client"]
    BY DEF Init, Sides
  <2>4. Init => Ending
    BY <2>3 DEF Init, Ending, Before, After
  <2> QED BY <2>1, <2>2, <2>4 DEF IInv
<1>2. ASSUME IInv, [Next]_vars
      PROVE  IInv'
  <2>1. TypeOK' /\ Counts'
    BY <1>2, TypeIsInductive, CountsAreInductive DEF IInv
  <2>2. \A s \in Sides : HeardFrom(s) => HeardFrom(s)'
    BY <1>2, HeardStaysHeard DEF IInv
  <2>3. Ending'
    <3>1. CASE Handler \/ SessionEnds
      BY <1>2, <2>2, <3>1, HandlerKeepsEnding
    <3>2. ASSUME NEW s \in Sides, Copier(s)
          PROVE  Ending'
      BY <1>2, <2>2, <3>2, CopiersKeepEnding
    <3>3. ASSUME NEW s \in Sides,
             PeerWrites(s) \/ PeerFinishes(s) \/ PeerCloses(s) \/ PeerResets(s)
          PROVE  Ending'
      <4>1. UNCHANGED <<pc, open, copier, done>>
        BY <3>3 DEF PeerWrites, PeerFinishes, PeerCloses, PeerResets, copying
      <4> QED BY <1>2, <2>2, <4>1 DEF IInv, Ending
    <3>4. CASE UNCHANGED vars
      BY <1>2, <2>2, <3>4 DEF vars, IInv, Ending
    <3> QED BY <1>2, <3>1, <3>2, <3>3, <3>4 DEF Next
  <2> QED BY <2>1, <2>3 DEF IInv
<1> QED BY <1>1, <1>2

(* While both connections stand, the peer that ends the splice has been     *)
(* heard to its last byte.                                                  *)
THEOREM FirstToCloseHeard == Spec => []FirstToCloseIsHeard
<1>1. ASSUME IInv, pc \in After, copier["client"] # "none"
      PROVE  \E s \in Sides : HeardFrom(s)
  <2>1. "client" \in Sides
    BY DEF Sides
  <2> QED BY <1>1, <2>1 DEF IInv, Ending
<1>2. IInv => FirstToCloseIsHeard
  BY <1>1 DEF FirstToCloseIsHeard, HeardFrom, After
<1> QED BY IInvIsInductive, <1>2, PTL DEF Spec
=============================================================================
