-------------------------------- MODULE Tunnel --------------------------------
(***************************************************************************)
(* handleConnect, mitmTunnel and rawTunnel of internal/proxy/proxy.go: what *)
(* happens to one CONNECT.  The connection is hijacked and answered 200     *)
(* before anything is known of the origin; then it is either decrypted      *)
(* (its requests are module DecryptedSession, one state here) or spliced to *)
(* the origin by two io.Copy goroutines that report to the handler through  *)
(* the channel done.                                                        *)
(*                                                                          *)
(* A direction of the splice is named by where its bytes come from: bytes   *)
(* of "client" go to the origin and the other way round.  Bytes are counted *)
(* (the copies keep their order).  A peer may close its writing side only   *)
(* (it goes on reading), close its socket, or reset its connection; a       *)
(* connection whose peer closed its socket breaks as well, once bytes are   *)
(* sent there.  On a broken connection any read and any write may fail,     *)
(* with bytes of its peer unread.                                           *)
(***************************************************************************)
EXTENDS Integers

CONSTANTS
  Hosts,        \* the hosts of CONNECT requests
  NoMITMHosts,  \* the list of -no-mitm-hosts (empty: decrypt every host)
  HalfClose,    \* whether peers may close their writing side alone
  MaxBytes      \* bound on the bytes a peer writes

ASSUME TunnelAssumption ==
  HalfClose \in BOOLEAN /\ MaxBytes \in Nat

Sides == {"client", "origin"}
Other(s) == IF s = "client" THEN "origin" ELSE "client"

VARIABLES
  host,         \* hostOnly(r.Host)
  pc,           \* where the handler is
  open,         \* the proxy's connections, by peer
  wrote,        \* bytes each peer wrote
  finished,     \* peers that closed their writing side
  gone,         \* peers that closed their socket
  broken,       \* peers whose connection was reset
  copier,       \* the goroutine that copies from each peer
  taken,        \* bytes it read
  given,        \* bytes it wrote to the other peer
  done          \* tokens in the channel done

vars == <<host, pc, open, wrote, finished, gone, broken, copier, taken, given, done>>

peers == <<wrote, finished, gone, broken>>
copying == <<copier, taken, given, done>>

DoneCapacity == 2

(* mitmHost, with the CertProvider main always sets and mitmDecider's       *)
(* predicate (the host names are compared in lower case).                   *)
MITMHost == host \notin NoMITMHosts

Init ==
  /\ host \in Hosts
  /\ pc = "hijacked"
  /\ open = [s \in Sides |-> s = "client"]
  /\ wrote = [s \in Sides |-> 0]
  /\ finished = [s \in Sides |-> FALSE]
  /\ gone = [s \in Sides |-> FALSE]
  /\ broken = [s \in Sides |-> FALSE]
  /\ copier = [s \in Sides |-> "none"]
  /\ taken = [s \in Sides |-> 0]
  /\ given = [s \in Sides |-> 0]
  /\ done = 0

Goto(from, to) == pc = from /\ pc' = to

-----------------------------------------------------------------------------

(* The handler. *)

(* HTTP/1.1 200 Connection Established. *)
Establish ==
  /\ Goto("hijacked", IF MITMHost THEN "handshake" ELSE "dialing")
  /\ UNCHANGED <<host, open, peers, copying>>

EstablishFails ==
  /\ Goto("hijacked", "closing client")
  /\ gone["client"]
  /\ UNCHANGED <<host, open, peers, copying>>

(* mitmTunnel: the handshake fails for a client that does not trust the CA. *)
Handshake ==
  /\ \/ Goto("handshake", "session")
     \/ Goto("handshake", "closing client")
  /\ UNCHANGED <<host, open, peers, copying>>

(* serveDecrypted returns. *)
SessionEnds ==
  /\ Goto("session", "closing client")
  /\ UNCHANGED <<host, open, peers, copying>>

(* net.DialTimeout: an error leaves the client with the 200 and a close. *)
DialFails ==
  /\ Goto("dialing", "closing client")
  /\ UNCHANGED <<host, open, peers, copying>>

Dial ==
  /\ Goto("dialing", "splicing")
  /\ open' = [open EXCEPT !["origin"] = TRUE]
  /\ copier' = [s \in Sides |-> "reading"]
  /\ UNCHANGED <<host, peers, taken, given, done>>

(* Faulty: the handler waits for both copies, and nobody ends the second.   *)
WaitForBoth ==
  /\ pc = "splicing"
  /\ done = 2
  /\ pc' = "closing origin"
  /\ done' = 0
  /\ UNCHANGED <<host, open, peers, copier, taken, given>>

(* Faulty: the handler does not wait. *)
WaitForNone ==
  /\ Goto("splicing", "closing origin")
  /\ UNCHANGED <<host, open, peers, copying>>

(* <-done: either direction has ended. *)
Wait ==
  /\ Goto("splicing", "closing origin")
  /\ done > 0
  /\ done' = done - 1
  /\ UNCHANGED <<host, open, peers, copier, taken, given>>

(* The deferred Closes, last deferred first. *)
CloseOrigin ==
  /\ Goto("closing origin", "closing client")
  /\ open' = [open EXCEPT !["origin"] = FALSE]
  /\ UNCHANGED <<host, peers, copying>>

CloseClient ==
  /\ Goto("closing client", "returned")
  /\ open' = [open EXCEPT !["client"] = FALSE]
  /\ UNCHANGED <<host, peers, copying>>

Handler ==
  \/ Establish \/ EstablishFails \/ Handshake \/ Dial \/ DialFails
  \/ Wait \/ CloseOrigin \/ CloseClient

-----------------------------------------------------------------------------

(* The goroutine that copies from s: io.Copy, then done <- struct{}{}.  *)

Read(s) ==
  /\ copier[s] = "reading"
  /\ open[s]
  /\ taken[s] < wrote[s]
  /\ \E n \in taken[s] + 1 .. wrote[s] : taken' = [taken EXCEPT ![s] = n]
  /\ copier' = [copier EXCEPT ![s] = "writing"]
  /\ UNCHANGED <<host, pc, open, peers, given, done>>

(* The end of the stream, "use of closed network connection", or a reset:   *)
(* io.Copy returns and the error is dropped.                                *)
ReadEnds(s) ==
  /\ copier[s] = "reading"
  /\ ~open[s] \/ broken[s] \/ (finished[s] /\ taken[s] = wrote[s])
  /\ copier' = [copier EXCEPT ![s] = "ended"]
  /\ UNCHANGED <<host, pc, open, peers, taken, given, done>>

(* A receiver whose socket is closed answers the bytes with a reset.  *)
Write(s) ==
  /\ copier[s] = "writing"
  /\ open[Other(s)]
  /\ given' = [given EXCEPT ![s] = taken[s]]
  /\ broken' = [broken EXCEPT ![Other(s)] = @ \/ gone[Other(s)]]
  /\ copier' = [copier EXCEPT ![s] = "reading"]
  /\ UNCHANGED <<host, pc, open, wrote, finished, gone, taken, done>>

(* A connection the handler closed, or a broken one. *)
WriteFails(s) ==
  /\ copier[s] = "writing"
  /\ ~open[Other(s)] \/ broken[Other(s)]
  /\ copier' = [copier EXCEPT ![s] = "ended"]
  /\ UNCHANGED <<host, pc, open, peers, taken, given, done>>

Signal(s) ==
  /\ copier[s] = "ended"
  /\ done < DoneCapacity
  /\ done' = done + 1
  /\ copier' = [copier EXCEPT ![s] = "exited"]
  /\ UNCHANGED <<host, pc, open, peers, taken, given>>

Copier(s) == Read(s) \/ ReadEnds(s) \/ Write(s) \/ WriteFails(s) \/ Signal(s)

-----------------------------------------------------------------------------

(* The peers (the client speaks once it has the 200). *)

Speaks(s) ==
  /\ pc \notin {"hijacked", "returned"}
  /\ open[s]
  /\ ~finished[s]

PeerWrites(s) ==
  /\ Speaks(s)
  /\ pc = "splicing"
  /\ wrote[s] < MaxBytes
  /\ wrote' = [wrote EXCEPT ![s] = @ + 1]
  /\ UNCHANGED <<host, pc, open, finished, gone, broken, copying>>

PeerFinishes(s) ==
  /\ HalfClose
  /\ Speaks(s)
  /\ finished' = [finished EXCEPT ![s] = TRUE]
  /\ UNCHANGED <<host, pc, open, wrote, gone, broken, copying>>

PeerCloses(s) ==
  /\ open[s]
  /\ ~gone[s]
  /\ finished' = [finished EXCEPT ![s] = TRUE]
  /\ gone' = [gone EXCEPT ![s] = TRUE]
  /\ UNCHANGED <<host, pc, open, wrote, broken, copying>>

(* A peer that crashes, or closes with bytes unread; a network that gives up. *)
PeerResets(s) ==
  /\ open[s]
  /\ ~broken[s]
  /\ finished' = [finished EXCEPT ![s] = TRUE]
  /\ gone' = [gone EXCEPT ![s] = TRUE]
  /\ broken' = [broken EXCEPT ![s] = TRUE]
  /\ UNCHANGED <<host, pc, open, wrote, copying>>

Next ==
  \/ Handler \/ SessionEnds
  \/ \E s \in Sides :
       \/ Copier(s)
       \/ PeerWrites(s) \/ PeerFinishes(s) \/ PeerCloses(s) \/ PeerResets(s)

Spec == Init /\ [][Next]_vars

(* The handler and each copy are goroutines of their own; the dial and the  *)
(* write of the 200 return (DialTimeout; a few bytes into a socket), and a  *)
(* handshake returns when its client has left.  A peer that is there goes   *)
(* on reading, so that a Write returns.  Nothing else is owed: no deadline  *)
(* is set on a tunnel, either peer may be silent for ever, and a session    *)
(* waits for an origin without a timeout, even when its client has left.    *)
HandlerFair ==
  /\ WF_vars(\/ Establish \/ EstablishFails \/ Dial \/ DialFails
             \/ Wait \/ CloseOrigin \/ CloseClient)
  /\ WF_vars(gone["client"] /\ Handshake)

FairSpec ==
  /\ Spec
  /\ HandlerFair
  /\ \A s \in Sides : WF_vars(Copier(s))

-----------------------------------------------------------------------------

(* The splice is taken down only when one stream has been carried to its    *)
(* end, every byte of it written to the other's connection, or a connection *)
(* broke: of two peers whose connections stand, the first to close is heard *)
(* to its last byte, whether it closes its writing side or its socket.      *)
Heard(s) == finished[s] /\ given[s] = wrote[s]

FirstToCloseIsHeard ==
  (/\ pc \in {"closing origin", "closing client", "returned"}
   /\ copier["client"] # "none"
   /\ \A s \in Sides : ~broken[s])
    => \E s \in Sides : Heard(s)

(* Nothing of a CONNECT stays behind: when the client has closed its socket *)
(* (or, in a splice, either peer ended its stream), both connections are    *)
(* closed, the handler has returned and no copy is left, however the copies *)
(* and the Closes interleave.  A decrypted session is owed this only if it  *)
(* does not wait for its origin for ever; a splice is owed it always.       *)
Released ==
  /\ pc = "returned"
  /\ \A s \in Sides : ~open[s] /\ copier[s] \in {"none", "exited"}

SessionDoesNotLastForEver == []<>(pc # "session")

NothingStaysBehind ==
  SessionDoesNotLastForEver =>
    ((gone["client"] \/ (pc = "splicing" /\ \E s \in Sides : finished[s])) ~> Released)
=============================================================================
