------------------------------- MODULE LeafCache -------------------------------
(***************************************************************************)
(* LeafCache of internal/mitm/leaf.go over CertAuthority: the runs that are *)
(* up sign leaf certificates for the hosts of their tunnels with the CA     *)
(* they came up with, and keep them for as long as they run.  CertForHost   *)
(* holds lc.mu from beginning to end, so it is one step; a TLS handshake    *)
(* picks the host, and the client checks the leaf it is given against the   *)
(* CA its user trusts and the clock.  Time is counted in units of which     *)
(* leafValidity is Validity.                                                *)
(***************************************************************************)
EXTENDS CertAuthority

CONSTANTS
  Hosts,        \* host names
  NoHost,       \* the empty name: no SNI, or no host in the CONNECT
  Validity,     \* leafValidity
  MaxTime       \* bound on the clock

ASSUME LeafAssumption ==
  /\ Validity \in Nat /\ MaxTime \in Nat
  /\ NoHost \notin Hosts

VARIABLES
  now,          \* the clock
  upSince,      \* when the current run of a process came up
  certs,        \* LeafCache.certs of each run
  served        \* the last handshake: the run, the host wanted, the leaf given

leafVars == <<vars, now, upSince, certs, served>>

NoLeaf == [signer |-> NoCA, host |-> NoHost, notAfter |-> 0]
NoHandshake == [wanted |-> NoHost, leaf |-> NoLeaf]
NoLeaves == [h \in Hosts |-> NoLeaf]

LeafInit ==
  /\ Init
  /\ now = 0
  /\ upSince = [p \in Procs |-> 0]
  /\ certs = [p \in Procs |-> NoLeaves]
  /\ served = [p \in Procs |-> NoHandshake]

(* A run comes up with an empty cache (NewLeafCache), and loses it with     *)
(* everything else it holds when it ends.                                   *)
Run(p) ==
  /\ Step(p)
  /\ upSince' = IF pc'[p] = "running" THEN [upSince EXCEPT ![p] = now] ELSE upSince
  /\ certs' = [certs EXCEPT ![p] = NoLeaves]
  /\ served' = [served EXCEPT ![p] = NoHandshake]
  /\ UNCHANGED now

(* Faulty: the validity is taken off the clock. *)
SignBackdated(p, host) ==
  [signer |-> ca[p], host |-> host, notAfter |-> now - Validity]

(* signLeaf *)
SignLeaf(p, host) ==
  [signer |-> ca[p], host |-> host, notAfter |-> now + Validity]

(* Faulty: any leaf of the cache is taken for the host's. *)
ServeAny(p, host) ==
  LET cached == {h \in Hosts : certs[p][h] # NoLeaf} IN
  /\ IF cached # {}
     THEN UNCHANGED certs
     ELSE certs' = [certs EXCEPT ![p][host] = SignLeaf(p, host)]
  /\ \E h \in cached \cup {host} :
       served' = [served EXCEPT ![p] = [wanted |-> host, leaf |-> certs'[p][h]]]
  /\ UNCHANGED <<vars, now, upSince>>

(* CertForHost *)
CertForHost(p, host) ==
  /\ IF certs[p][host] # NoLeaf
     THEN UNCHANGED certs
     ELSE certs' = [certs EXCEPT ![p][host] = SignLeaf(p, host)]
  /\ served' = [served EXCEPT ![p] = [wanted |-> host, leaf |-> certs'[p][host]]]
  /\ UNCHANGED <<vars, now, upSince>>

(* TLSConfigForHost: the client's SNI, else the host of the CONNECT; with   *)
(* neither the handshake fails and nothing changes.                         *)
Handshake(p) ==
  /\ pc[p] = "running"
  /\ \E sni, connectHost \in Hosts \cup {NoHost} :
       LET host == IF sni # NoHost THEN sni ELSE connectHost
       IN host # NoHost /\ CertForHost(p, host)

Tick ==
  /\ now < MaxTime
  /\ now' = now + 1
  /\ UNCHANGED <<vars, upSince, certs, served>>

LeafNext == Tick \/ \E p \in Procs : Run(p) \/ Handshake(p)

LeafSpec == LeafInit /\ [][LeafNext]_leafVars

-----------------------------------------------------------------------------

(* A client that trusts the CA of the first run that came up accepts every  *)
(* leaf of every later run for its host, however runs died in between: it   *)
(* names the host and is signed with the trusted certificate's own key.     *)
ServedLeavesAreTrusted ==
  \A p \in Procs : served[p] # NoHandshake =>
    /\ served[p].leaf.host = served[p].wanted
    /\ served[p].leaf.signer = [cert |-> trusted, key |-> trusted]

(* The cache is never checked for expired leaves; all the same a run that   *)
(* is no older than leafValidity serves none.                               *)
YoungRunsServeValidLeaves ==
  [][\A p \in Procs :
       (served'[p] \notin {served[p], NoHandshake} /\ now <= upSince[p] + Validity)
         => served'[p].leaf.notAfter >= now]_leafVars
=============================================================================
