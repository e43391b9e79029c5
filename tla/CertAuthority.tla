----------------------------- MODULE CertAuthority -----------------------------
(***************************************************************************)
(* LoadOrCreateCA of internal/mitm/ca.go: the two files of the root CA and  *)
(* the runs of the program that share them (a proxy, a second proxy on      *)
(* another port, a one-shot -export-ca; all default to .certs).  Every file *)
(* operation is a step: the run may be killed, or another run may come,     *)
(* between any two.  os.WriteFile is two steps, the open that truncates and *)
(* the write.  A generated CA is a number; a file holds the number of the   *)
(* CA whose certificate or key it contains.                                 *)
(***************************************************************************)
EXTENDS Integers

CONSTANTS
  Procs,        \* runs of the program that may be up at the same time
  Overlapping,  \* whether one may start before another has its CA
  MaxStarts     \* bound on the number of starts

ASSUME CertAuthorityAssumption ==
  Overlapping \in BOOLEAN /\ MaxStarts \in Nat

Missing == -1
Partial == -2       \* created or truncated, not completely written

VARIABLES
  certFile,     \* ca-cert.pem
  keyFile,      \* ca-key.pem
  pc,           \* where a run is
  ca,           \* the CA it generated or is loading
  made,         \* how many CAs were generated
  starts,       \* how many runs were started
  trusted       \* the CA of the first run that came up: the one the user trusts

vars == <<certFile, keyFile, pc, ca, made, starts, trusted>>

NoCA == [cert |-> 0, key |-> 0]

Settled == {"down", "failed", "running"}

Init ==
  /\ certFile = Missing
  /\ keyFile = Missing
  /\ pc = [p \in Procs |-> "down"]
  /\ ca = [p \in Procs |-> NoCA]
  /\ made = 0
  /\ starts = 0
  /\ trusted = 0

Goto(p, from, to) ==
  /\ pc[p] = from
  /\ pc' = [pc EXCEPT ![p] = to]

Up(p) == trusted' = IF trusted = 0 THEN ca'[p].cert ELSE trusted

-----------------------------------------------------------------------------

Start(p) ==
  /\ pc[p] \in {"down", "failed"}
  /\ starts < MaxStarts
  /\ Overlapping \/ \A q \in Procs : pc[q] \in Settled
  /\ pc' = [pc EXCEPT ![p] = "stat cert"]
  /\ starts' = starts + 1
  /\ ca' = [ca EXCEPT ![p] = NoCA]
  /\ UNCHANGED <<certFile, keyFile, made, trusted>>

(* fileExists(certPath) && fileExists(keyPath) *)
StatCert(p) ==
  /\ Goto(p, "stat cert", IF certFile # Missing THEN "stat key" ELSE "generate")
  /\ UNCHANGED <<certFile, keyFile, ca, made, starts, trusted>>

StatKey(p) ==
  /\ Goto(p, "stat key", IF keyFile # Missing THEN "read cert" ELSE "generate")
  /\ UNCHANGED <<certFile, keyFile, ca, made, starts, trusted>>

(* loadCA reads both files, then parses both: a file that is not complete   *)
(* ends the run.                                                            *)
ReadCert(p) ==
  /\ Goto(p, "read cert", "read key")
  /\ ca' = [ca EXCEPT ![p].cert = certFile]
  /\ UNCHANGED <<certFile, keyFile, made, starts, trusted>>

ReadKey(p) ==
  /\ Goto(p, "read key", "running")
  /\ ca[p].cert # Partial /\ keyFile # Partial
  /\ ca' = [ca EXCEPT ![p].key = keyFile]
  /\ Up(p)
  /\ UNCHANGED <<certFile, keyFile, made, starts>>

LoadFails(p) ==
  /\ Goto(p, "read key", "failed")
  /\ ca[p].cert = Partial \/ keyFile = Partial
  /\ UNCHANGED <<certFile, keyFile, ca, made, starts, trusted>>

Generate(p) ==
  /\ Goto(p, "generate", "open cert")
  /\ made' = made + 1
  /\ ca' = [ca EXCEPT ![p] = [cert |-> made + 1, key |-> made + 1]]
  /\ UNCHANGED <<certFile, keyFile, starts, trusted>>

(* persist: the certificate, then the key. *)
OpenCert(p) ==
  /\ Goto(p, "open cert", "write cert")
  /\ certFile' = Partial
  /\ UNCHANGED <<keyFile, ca, made, starts, trusted>>

WriteCert(p) ==
  /\ Goto(p, "write cert", "open key")
  /\ certFile' = ca[p].cert
  /\ UNCHANGED <<keyFile, ca, made, starts, trusted>>

OpenKey(p) ==
  /\ Goto(p, "open key", "write key")
  /\ keyFile' = Partial
  /\ UNCHANGED <<certFile, ca, made, starts, trusted>>

WriteKey(p) ==
  /\ Goto(p, "write key", "running")
  /\ keyFile' = ca[p].key
  /\ UNCHANGED ca
  /\ Up(p)
  /\ UNCHANGED <<certFile, made, starts>>

(* MkdirAll, ReadFile, generateCA or WriteFile fails (a full disk, no right *)
(* to read): the run ends and the files stay as they are.  A Stat that      *)
(* fails has found no file.                                                 *)
StepFails(p) ==
  /\ pc[p] \notin Settled \cup {"stat key"}
  /\ pc' = [pc EXCEPT ![p] = "failed"]
  /\ UNCHANGED <<certFile, keyFile, ca, made, starts, trusted>>

(* A run is killed, or stops. *)
Dies(p) ==
  /\ pc[p] \notin {"down", "failed"}
  /\ pc' = [pc EXCEPT ![p] = "down"]
  /\ UNCHANGED <<certFile, keyFile, ca, made, starts, trusted>>

Step(p) ==
  \/ Start(p) \/ StatCert(p) \/ StatKey(p) \/ ReadCert(p) \/ ReadKey(p)
  \/ LoadFails(p) \/ Generate(p) \/ OpenCert(p) \/ WriteCert(p)
  \/ OpenKey(p) \/ WriteKey(p) \/ StepFails(p) \/ Dies(p)

Next == \E p \in Procs : Step(p)

Spec == Init /\ [][Next]_vars

-----------------------------------------------------------------------------

(* BACKLOG.md, P1-01: "reused on restart", ca_test.go: "Reload must return  *)
(* the SAME CA": once a run has come up, every later one comes up with its  *)
(* CA.                                                                      *)
RestartReusesCA ==
  \A p \in Procs : pc[p] = "running" => ca[p].cert = trusted

=============================================================================
