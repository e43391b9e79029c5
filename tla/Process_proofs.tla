---------------------------- MODULE Process_proofs ------------------------------
(***************************************************************************)
(* Proofs about a process of the proxy, from its start to its stop.         *)
(*                                                                         *)
(* LeafCache and the CertAuthority under it, for any number of processes,   *)
(* starts and hosts.  When runs start one after the other, the key file is  *)
(* complete exactly when a run has come up, and then both files hold the CA *)
(* it came up with (Files); every program point of LoadOrCreateCA knows     *)
(* what its checks have shown it (Knows).  When starts overlap this is      *)
(* false, and so is what follows from it.                                   *)
(*                                                                         *)
(* Lifecycle, for any number of requests: at each of the two Shutdowns main *)
(* knows which listeners it has closed and what it has waited for (StopInv).*)
(***************************************************************************)
EXTENDS LeafCache, Lifecycle, TLAPS

Creating == {"generate", "open cert", "write cert", "open key", "write key"}
PCs == Settled \cup {"stat cert", "stat key", "read cert", "read key"} \cup Creating
Incomplete == {Missing, Partial}

CAs == [cert : Int, key : Int]

Trusted == [cert |-> trusted, key |-> trusted]

TypeOK ==
  /\ pc \in [Procs -> PCs]
  /\ ca \in [Procs -> CAs]
  /\ certFile \in Int
  /\ keyFile \in Int
  /\ made \in Nat
  /\ trusted \in Int

OneAtATime ==
  \A p, q \in Procs : (pc[p] \notin Settled /\ pc[q] \notin Settled) => p = q

Files ==
  /\ trusted >= 0
  /\ keyFile \in Incomplete <=> trusted = 0
  /\ trusted # 0 => certFile = trusted /\ keyFile = trusted

Knows(p) ==
  /\ pc[p] \in {"stat key", "read cert", "read key"} => certFile # Missing
  /\ pc[p] \in {"read cert", "read key"} => keyFile # Missing
  /\ pc[p] = "read key" => ca[p].cert = certFile
  /\ pc[p] \in Creating => trusted = 0
  /\ pc[p] \in Creating \ {"generate"} => ca[p].cert > 0 /\ ca[p].key = ca[p].cert
  /\ pc[p] \in {"open key", "write key"} => certFile = ca[p].cert
  /\ pc[p] = "running" => trusted # 0 /\ ca[p] = Trusted

CAInv == TypeOK /\ OneAtATime /\ Files /\ \A p \in Procs : Knows(p)

-----------------------------------------------------------------------------
(* The files of the CA.                                                     *)

(* A step of run p moves p alone.                                           *)
Alone(p) ==
  \A q \in Procs \ {p} : pc'[q] = pc[q] /\ ca'[q] = ca[q]

LEMMA CAsAreTyped ==
  /\ NoCA \in CAs
  /\ \A c \in CAs : c.cert \in Int /\ c.key \in Int
  /\ \A c \in CAs, n \in Int : [c EXCEPT !.cert = n] \in CAs /\ [c EXCEPT !.key = n] \in CAs
  /\ \A m, n \in Int : [cert |-> m, key |-> n] \in CAs
BY DEF CAs, NoCA

LEMMA StepsAreTyped ==
  ASSUME TypeOK, NEW p \in Procs, Step(p)
  PROVE  Alone(p) /\ TypeOK'
<1>1. ca[p] \in CAs /\ certFile \in Int /\ keyFile \in Int /\ made + 1 \in Int
  BY DEF TypeOK
<1>2. pc' \in [Procs -> PCs] /\ \A q \in Procs \ {p} : pc'[q] = pc[q]
  BY DEF Step, Start, StatCert, StatKey, ReadCert, ReadKey, LoadFails, Generate,
         OpenCert, WriteCert, OpenKey, WriteKey, StepFails, Dies, Goto, PCs,
         Settled, Creating, TypeOK
<1>3. \/ ca' = ca
      \/ ca' = [ca EXCEPT ![p] = NoCA]
      \/ ca' = [ca EXCEPT ![p] = [ca[p] EXCEPT !.cert = certFile]]
      \/ ca' = [ca EXCEPT ![p] = [ca[p] EXCEPT !.key = keyFile]]
      \/ ca' = [ca EXCEPT ![p] = [cert |-> made + 1, key |-> made + 1]]
  BY DEF Step, Start, StatCert, StatKey, ReadCert, ReadKey, LoadFails, Generate,
         OpenCert, WriteCert, OpenKey, WriteKey, StepFails, Dies
<1>4. ca' \in [Procs -> CAs] /\ \A q \in Procs \ {p} : ca'[q] = ca[q]
  BY <1>1, <1>3, CAsAreTyped DEF TypeOK
<1>5. certFile' \in {certFile, Partial, ca[p].cert} /\ keyFile' \in {keyFile, Partial, ca[p].key}
  BY DEF Step, Start, StatCert, StatKey, ReadCert, ReadKey, LoadFails, Generate,
         OpenCert, WriteCert, OpenKey, WriteKey, StepFails, Dies
<1>6. certFile' \in Int /\ keyFile' \in Int
  BY <1>1, <1>5, CAsAreTyped DEF Partial
<1>7. made' = made \/ made' = made + 1
  BY DEF Step, Start, StatCert, StatKey, ReadCert, ReadKey, LoadFails, Generate,
         OpenCert, WriteCert, OpenKey, WriteKey, StepFails, Dies
<1>8. trusted' = trusted \/ trusted' = ca'[p].cert
  BY DEF Step, Start, StatCert, StatKey, ReadCert, ReadKey, LoadFails, Generate,
         OpenCert, WriteCert, OpenKey, WriteKey, StepFails, Dies, Up
<1>9. made' \in Nat /\ trusted' \in Int
  BY <1>4, <1>7, <1>8, CAsAreTyped DEF TypeOK
<1> QED BY <1>2, <1>4, <1>6, <1>9 DEF Alone, TypeOK

(* The one start that is under way knows what it has seen and written; the  *)
(* key file, written last, becomes complete with the step that comes up.    *)
LEMMA StartKnows ==
  ASSUME CAInv, NEW p \in Procs, Step(p)
  PROVE  Files' /\ Knows(p)'
<1>1. ca[p] \in CAs /\ pc[p] \in PCs
  BY DEF CAInv, TypeOK
<1>2. /\ certFile \in Int /\ keyFile \in Int /\ made \in Nat /\ trusted \in Int
      /\ ca[p].cert \in Int /\ ca[p].key \in Int
  BY <1>1, CAsAreTyped DEF CAInv, TypeOK
<1>3. Files /\ Knows(p)
  BY DEF CAInv
<1>4. p \in DOMAIN pc /\ p \in DOMAIN ca
  BY DEF CAInv, TypeOK
<1>5. CASE Start(p) \/ StatCert(p) \/ StatKey(p) \/ LoadFails(p) \/ StepFails(p) \/ Dies(p)
  <2>1. UNCHANGED <<certFile, keyFile, trusted>>
    BY <1>5 DEF Start, StatCert, StatKey, LoadFails, StepFails, Dies
  <2>2. \/ pc'[p] \in {"stat cert", "failed", "down"}
        \/ pc'[p] = "stat key" /\ certFile # Missing
        \/ pc[p] = "stat key" /\ pc'[p] = "read cert" /\ keyFile # Missing
        \/ pc'[p] = "generate" /\ (certFile = Missing \/ keyFile = Missing)
    BY <1>4, <1>5 DEF Start, StatCert, StatKey, LoadFails, StepFails, Dies, Goto
  <2>3. certFile = Missing \/ keyFile = Missing => trusted = 0
    BY <1>2, <1>3 DEF Files, Missing
  <2> QED BY <1>3, <2>1, <2>2, <2>3 DEF Files, Knows, Creating
<1>6. CASE ReadCert(p)
  <2>1. /\ pc[p] = "read cert" /\ pc'[p] = "read key" /\ ca'[p].cert = certFile
        /\ UNCHANGED <<certFile, keyFile, trusted>>
    BY <1>1, <1>4, <1>6 DEF ReadCert, Goto, CAs
  <2> QED BY <1>3, <2>1 DEF Files, Knows, Creating
<1>7. CASE ReadKey(p)
  <2>1. /\ pc[p] = "read key" /\ pc'[p] = "running" /\ keyFile # Partial
        /\ ca'[p] = [ca[p] EXCEPT !.key = keyFile]
        /\ trusted' = IF trusted = 0 THEN ca'[p].cert ELSE trusted
        /\ UNCHANGED <<certFile, keyFile>>
    BY <1>4, <1>7 DEF ReadKey, Goto, Up
  <2>2. trusted # 0 /\ ca[p].cert = trusted /\ keyFile = trusted
    BY <1>3, <2>1 DEF Files, Knows, Incomplete
  <2>3. ca'[p] = Trusted /\ trusted' = trusted
    BY <1>1, <2>1, <2>2 DEF CAs, Trusted
  <2> QED BY <1>3, <2>1, <2>2, <2>3 DEF Files, Knows, Creating, Trusted
<1>8. CASE Generate(p)
  <2>1. /\ pc[p] = "generate" /\ pc'[p] = "open cert"
        /\ ca'[p].cert = made + 1 /\ ca'[p].key = made + 1
        /\ UNCHANGED <<certFile, keyFile, trusted>>
    BY <1>4, <1>8 DEF Generate, Goto
  <2>2. Files' /\ trusted = 0
    BY <1>3, <2>1 DEF Files, Knows, Creating, Incomplete
  <2>3. made + 1 > 0
    BY <1>2
  <2> QED BY <2>1, <2>2, <2>3 DEF Knows, Creating
<1>9. CASE OpenCert(p) \/ WriteCert(p) \/ OpenKey(p)
  <2>1. /\ pc[p] \in Creating \ {"generate"}
        /\ \/ pc'[p] = "write cert" /\ certFile' = Partial /\ keyFile' = keyFile
           \/ pc'[p] = "open key" /\ certFile' = ca[p].cert /\ keyFile' = keyFile
           \/ /\ pc[p] = "open key" /\ pc'[p] = "write key"
              /\ certFile' = certFile /\ keyFile' = Partial
        /\ UNCHANGED <<ca, trusted>>
    BY <1>4, <1>9 DEF OpenCert, WriteCert, OpenKey, Goto, Creating
  <2>2. trusted = 0 /\ ca[p].cert > 0 /\ ca[p].key = ca[p].cert
    BY <1>3, <2>1 DEF Knows
  <2>3. Files'
    BY <1>3, <2>1, <2>2 DEF Files, Incomplete
  <2>4. pc[p] = "open key" => certFile = ca[p].cert
    BY <1>3 DEF Knows
  <2> QED BY <2>1, <2>2, <2>3, <2>4 DEF Knows, Creating
<1>10. CASE WriteKey(p)
  <2>1. /\ pc[p] = "write key" /\ pc'[p] = "running" /\ keyFile' = ca[p].key
        /\ trusted' = IF trusted = 0 THEN ca[p].cert ELSE trusted
        /\ UNCHANGED <<ca, certFile>>
    BY <1>4, <1>10 DEF WriteKey, Goto, Up
  <2>2. trusted' = ca[p].cert /\ ca[p].cert > 0 /\ ca[p].key = ca[p].cert /\ certFile = ca[p].cert
    BY <1>3, <2>1 DEF Knows, Creating
  <2>3. ca'[p] = Trusted'
    BY <1>1, <2>1, <2>2 DEF CAs, Trusted
  <2>4. trusted' > 0 /\ keyFile' = trusted' /\ certFile' = trusted'
    BY <2>1, <2>2
  <2>5. Knows(p)'
    <3>1. trusted' # 0
      BY <2>4
    <3> QED BY <2>1, <2>3, <3>1 DEF Knows, Creating
  <2>6. trusted' \in Int
    BY StepsAreTyped DEF CAInv, TypeOK
  <2>7. keyFile' \notin Incomplete'
    BY <2>4, <2>6 DEF Incomplete, Missing, Partial
  <2>8. Files'
    BY <2>4, <2>6, <2>7 DEF Files
  <2> QED BY <2>5, <2>8
<1> QED BY <1>5, <1>6, <1>7, <1>8, <1>9, <1>10 DEF Step

(* Who is settled has no start of its own, and is disturbed by none: files  *)
(* are written only while no run has come up yet.                           *)
LEMMA OthersKnow ==
  ASSUME CAInv, NEW p \in Procs, Step(p), NEW q \in Procs, q # p
  PROVE  Knows(q)'
<1>1. pc'[q] = pc[q] /\ ca'[q] = ca[q]
  BY StepsAreTyped DEF CAInv, Alone
<1>2. Knows(q) /\ Knows(p)
  BY DEF CAInv
<1>3. CASE UNCHANGED <<certFile, keyFile, trusted>>
  BY <1>1, <1>2, <1>3 DEF Knows, Trusted
<1>4. CASE ~UNCHANGED <<certFile, keyFile, trusted>>
  <2>1. /\ pc[p] \in Creating \cup {"read key"}
        /\ pc[p] = "read key" => trusted = 0
    BY <1>4 DEF Step, Start, StatCert, StatKey, ReadCert, ReadKey, LoadFails,
                Generate, OpenCert, WriteCert, OpenKey, WriteKey, StepFails, Dies,
                Goto, Up, Creating
  <2>2. trusted = 0
    BY <1>2, <2>1 DEF Knows
  <2>3. pc[p] \notin Settled
    BY <2>1 DEF Settled, Creating
  <2>4. pc[q] \in Settled
    BY <2>3 DEF CAInv, OneAtATime
  <2>5. pc[q] # "running"
    BY <1>2, <2>2 DEF Knows
  <2> QED BY <1>1, <2>4, <2>5 DEF Knows, Settled, Creating
<1> QED BY <1>3, <1>4

LEMMA CAInvIsInductive ==
  ASSUME ~Overlapping, CAInv, NEW p \in Procs, Step(p)
  PROVE  CAInv'
<1>1. TypeOK' /\ Alone(p)
  BY StepsAreTyped DEF CAInv
<1>2. OneAtATime'
  <2>1. CASE Start(p)
    <3>1. \A q \in Procs : pc[q] \in Settled
      BY <2>1 DEF Start
    <3> QED BY <1>1, <3>1 DEF Alone, OneAtATime
  <2>2. CASE ~Start(p)
    <3>1. pc'[p] \notin Settled => pc[p] \notin Settled
      BY <2>2 DEF Step, StatCert, StatKey, ReadCert, ReadKey, LoadFails, Generate,
                  OpenCert, WriteCert, OpenKey, WriteKey, StepFails, Dies, Goto,
                  Settled, CAInv, TypeOK
    <3> QED BY <1>1, <3>1 DEF Alone, OneAtATime, CAInv
  <2> QED BY <2>1, <2>2
<1>3. Files' /\ \A q \in Procs : Knows(q)'
  BY StartKnows, OthersKnow
<1> QED BY <1>1, <1>2, <1>3 DEF CAInv

LEMMA InitIsCAInv == Init => CAInv
<1> SUFFICES ASSUME Init PROVE CAInv
  OBVIOUS
<1>1. TypeOK
  BY CAsAreTyped DEF Init, TypeOK, PCs, Settled, Missing
<1>2. OneAtATime /\ Files
  BY DEF Init, OneAtATime, Files, Settled, Incomplete, Missing
<1>3. \A p \in Procs : Knows(p)
  BY DEF Init, Knows, Creating
<1> QED BY <1>1, <1>2, <1>3 DEF CAInv

(* Starts that do not overlap all come up with the first one's CA, wherever *)
(* runs are killed or fail to write.                                        *)
THEOREM RestartsReuseCA ==
  ASSUME ~Overlapping
  PROVE  Spec => []RestartReusesCA
<1>1. CAInv /\ [Next]_vars => CAInv'
  <2>1. CAInv /\ UNCHANGED vars => CAInv'
    BY DEF vars, CAInv, TypeOK, OneAtATime, Files, Knows, Trusted
  <2> QED BY <2>1, CAInvIsInductive DEF Next
<1>2. CAInv => RestartReusesCA
  <2>1. ASSUME CAInv, NEW p \in Procs, pc[p] = "running"
        PROVE  ca[p].cert = trusted
    <3>1. ca[p] = Trusted
      BY <2>1 DEF CAInv, Knows
    <3> QED BY <3>1 DEF Trusted
  <2> QED BY <2>1 DEF RestartReusesCA
<1> QED BY <1>1, <1>2, InitIsCAInv, PTL DEF Spec

-----------------------------------------------------------------------------
(* The leaves.  A leaf a run keeps, and the one it gave last, are signed    *)
(* with its own CA for the host they are kept or were wanted for, and were  *)
(* signed no earlier than the run came up.                                  *)

Leaves == [signer : CAs, host : Hosts \cup {NoHost}, notAfter : Int]

LeafTypeOK ==
  /\ now \in Nat
  /\ upSince \in [Procs -> Nat]
  /\ certs \in [Procs -> [Hosts -> Leaves]]
  /\ DOMAIN served = Procs

OwnLeaf(p, leaf, host) ==
  /\ pc[p] = "running"
  /\ leaf.host = host
  /\ leaf.signer = ca[p]

LeavesAreOwn(p) ==
  /\ upSince[p] <= now
  /\ \A h \in Hosts : certs[p][h] # NoLeaf =>
       /\ OwnLeaf(p, certs[p][h], h)
       /\ certs[p][h].notAfter >= upSince[p] + Validity
  /\ served[p] # NoHandshake => OwnLeaf(p, served[p].leaf, served[p].wanted)

LeafInv == TypeOK /\ LeafTypeOK /\ \A p \in Procs : LeavesAreOwn(p)

(* A handshake of run p for host: the leaf is p's own, valid for as long as *)
(* any leaf of a run of its age.                                            *)
Given(p, host) ==
  /\ OwnLeaf(p, certs'[p][host], host)
  /\ certs'[p][host].notAfter >= upSince[p] + Validity
  /\ served' = [served EXCEPT ![p] = [wanted |-> host, leaf |-> certs'[p][host]]]

LEMMA HandshakeGivesOwnLeaf ==
  ASSUME LeafInv, NEW p \in Procs, pc[p] = "running", NEW host \in Hosts,
         CertForHost(p, host)
  PROVE  /\ Given(p, host)
         /\ certs' \in [Procs -> [Hosts -> Leaves]]
         /\ certs'[p][host] \in {certs[p][host], SignLeaf(p, host)}
         /\ \A q \in Procs, h \in Hosts :
              (q # p \/ h # host) => certs'[q][h] = certs[q][h]
<1>1. /\ now \in Nat /\ upSince[p] \in Nat /\ upSince[p] <= now /\ Validity \in Nat
      /\ ca[p] \in CAs
  BY LeafAssumption DEF LeafInv, TypeOK, LeafTypeOK, LeavesAreOwn
<1>2. now + Validity \in Int /\ now + Validity >= upSince[p] + Validity
  BY <1>1
<1>3. SignLeaf(p, host) \in Leaves
  BY <1>1, <1>2 DEF SignLeaf, Leaves
<1>4. served' = [served EXCEPT ![p] = [wanted |-> host, leaf |-> certs'[p][host]]]
  BY DEF CertForHost
<1>5. CASE certs[p][host] # NoLeaf
  <2>1. certs' = certs
    BY <1>5 DEF CertForHost
  <2> QED BY <1>4, <1>5, <2>1 DEF Given, LeafInv, LeafTypeOK, LeavesAreOwn
<1>6. CASE certs[p][host] = NoLeaf
  <2>1. certs' = [certs EXCEPT ![p] = [certs[p] EXCEPT ![host] = SignLeaf(p, host)]]
    BY <1>6 DEF CertForHost
  <2>2. certs[p] \in [Hosts -> Leaves]
    BY DEF LeafInv, LeafTypeOK
  <2>3. [certs[p] EXCEPT ![host] = SignLeaf(p, host)] \in [Hosts -> Leaves]
    BY <1>3, <2>2
  <2>4. certs' \in [Procs -> [Hosts -> Leaves]]
    BY <2>1, <2>3 DEF LeafInv, LeafTypeOK
  <2>5. /\ certs'[p][host] = SignLeaf(p, host)
        /\ \A q \in Procs, h \in Hosts :
             (q # p \/ h # host) => certs'[q][h] = certs[q][h]
    BY <2>1, <2>2 DEF LeafInv, LeafTypeOK
  <2>6. /\ SignLeaf(p, host).host = host /\ SignLeaf(p, host).signer = ca[p]
        /\ SignLeaf(p, host).notAfter = now + Validity
    BY DEF SignLeaf
  <2>7. Given(p, host)
    BY <1>2, <1>4, <2>5, <2>6 DEF Given, OwnLeaf
  <2> QED BY <2>4, <2>5, <2>7
<1> QED BY <1>5, <1>6

LEMMA LeafInvIsInductive ==
  /\ LeafInit => LeafInv
  /\ LeafInv /\ [LeafNext]_leafVars => LeafInv'
<1>1. ASSUME LeafInit
      PROVE  LeafInv
  <2>1. TypeOK
    BY <1>1, InitIsCAInv DEF LeafInit, CAInv
  <2>2. NoLeaf \in Leaves
    BY CAsAreTyped DEF NoLeaf, Leaves
  <2>3. LeafTypeOK
    BY <1>1, <2>2 DEF LeafInit, LeafTypeOK, NoLeaves
  <2>4. ASSUME NEW p \in Procs
        PROVE  LeavesAreOwn(p)
    <3>1. upSince[p] = 0 /\ now = 0 /\ served[p] = NoHandshake
      BY <1>1 DEF LeafInit
    <3>2. \A h \in Hosts : certs[p][h] = NoLeaf
      BY <1>1 DEF LeafInit, NoLeaves
    <3> QED BY <3>1, <3>2 DEF LeavesAreOwn
  <2> QED BY <2>1, <2>3, <2>4 DEF LeafInv
<1>2. ASSUME LeafInv, Tick
      PROVE  LeafInv'
  <2>1. /\ now \in Nat /\ now' = now + 1
        /\ UNCHANGED <<certFile, keyFile, pc, ca, made, trusted, upSince, certs, served>>
    BY <1>2 DEF Tick, vars, LeafInv, LeafTypeOK
  <2>2. TypeOK' /\ LeafTypeOK'
    BY <1>2, <2>1 DEF LeafInv, TypeOK, LeafTypeOK
  <2>3. \A p \in Procs : upSince[p] \in Nat /\ upSince[p] <= now + 1
    BY <1>2, <2>1 DEF LeafInv, LeafTypeOK, LeavesAreOwn
  <2>4. \A p \in Procs : LeavesAreOwn(p)'
    BY <1>2, <2>1, <2>3 DEF LeafInv, LeavesAreOwn, OwnLeaf
  <2> QED BY <2>2, <2>4 DEF LeafInv
<1>3. ASSUME LeafInv, NEW p \in Procs, Run(p)
      PROVE  LeafInv'
  <2>1. TypeOK' /\ Alone(p)
    BY <1>3, StepsAreTyped DEF LeafInv, Run
  <2>2. /\ now \in Nat /\ now' = now
        /\ upSince' = [upSince EXCEPT ![p] = now] \/ upSince' = upSince
        /\ certs' = [certs EXCEPT ![p] = NoLeaves]
        /\ served' = [served EXCEPT ![p] = NoHandshake]
    BY <1>3 DEF Run, LeafInv, LeafTypeOK
  <2>3. NoLeaves \in [Hosts -> Leaves]
    BY CAsAreTyped DEF NoLeaf, NoLeaves, Leaves
  <2>4. LeafTypeOK'
    BY <1>3, <2>2, <2>3 DEF LeafInv, LeafTypeOK
  <2>5. LeavesAreOwn(p)'
    <3>1. /\ served'[p] = NoHandshake
          /\ \A h \in Hosts : certs'[p][h] = NoLeaf
          /\ upSince'[p] <= now
      BY <1>3, <2>2 DEF LeafInv, LeafTypeOK, LeavesAreOwn, NoLeaves
    <3> QED BY <2>2, <3>1 DEF LeavesAreOwn
  <2>6. ASSUME NEW q \in Procs, q # p
        PROVE  LeavesAreOwn(q)'
    <3>1. UNCHANGED <<pc[q], ca[q], upSince[q], certs[q], served[q], now>>
      BY <1>3, <2>1, <2>2, <2>6 DEF Alone, LeafInv, LeafTypeOK
    <3> QED BY <1>3, <3>1 DEF LeafInv, LeavesAreOwn, OwnLeaf
  <2> QED BY <2>1, <2>4, <2>5, <2>6 DEF LeafInv
<1>4. ASSUME LeafInv, NEW p \in Procs, Handshake(p)
      PROVE  LeafInv'
  <2>1. PICK host \in Hosts : CertForHost(p, host)
    BY <1>4 DEF Handshake
  <2>2. /\ pc[p] = "running"
        /\ UNCHANGED <<certFile, keyFile, pc, ca, made, trusted, now, upSince>>
    BY <1>4, <2>1 DEF Handshake, CertForHost, vars
  <2>3. /\ Given(p, host)
        /\ certs' \in [Procs -> [Hosts -> Leaves]]
        /\ \A q \in Procs, h \in Hosts :
             (q # p \/ h # host) => certs'[q][h] = certs[q][h]
    BY <1>4, <2>1, <2>2, HandshakeGivesOwnLeaf
  <2>4. served' = [served EXCEPT ![p] = [wanted |-> host, leaf |-> certs'[p][host]]]
    BY <2>3 DEF Given
  <2>5. TypeOK' /\ LeafTypeOK'
    BY <1>4, <2>2, <2>3, <2>4 DEF LeafInv, TypeOK, LeafTypeOK
  <2>6. LeavesAreOwn(p)'
    <3>1. /\ served'[p].wanted = host /\ served'[p].leaf = certs'[p][host]
      BY <1>4, <2>4 DEF LeafInv, LeafTypeOK
    <3>2. LeavesAreOwn(p)
      BY <1>4 DEF LeafInv
    <3> QED BY <2>2, <2>3, <3>1, <3>2 DEF LeavesAreOwn, Given, OwnLeaf
  <2>7. ASSUME NEW q \in Procs, q # p
        PROVE  LeavesAreOwn(q)'
    <3>1. served'[q] = served[q] /\ \A h \in Hosts : certs'[q][h] = certs[q][h]
      BY <1>4, <2>3, <2>4, <2>7 DEF LeafInv, LeafTypeOK
    <3> QED BY <1>4, <2>2, <3>1 DEF LeafInv, LeavesAreOwn, OwnLeaf
  <2> QED BY <2>5, <2>6, <2>7 DEF LeafInv
<1>5. ASSUME LeafInv, UNCHANGED leafVars
      PROVE  LeafInv'
  BY <1>5 DEF leafVars, vars, LeafInv, TypeOK, LeafTypeOK, LeavesAreOwn, OwnLeaf
<1> QED BY <1>1, <1>2, <1>3, <1>4, <1>5 DEF LeafNext

(* When starts do not overlap, a client that trusts the first CA accepts    *)
(* every leaf any later run gives it.                                       *)
THEOREM ServedLeavesTrusted ==
  ASSUME ~Overlapping
  PROVE  LeafSpec => []ServedLeavesAreTrusted
<1>1. LeafInit => CAInv
  BY InitIsCAInv DEF LeafInit
<1>2. CAInv /\ [LeafNext]_leafVars => CAInv'
  <2>1. CAInv /\ UNCHANGED vars => CAInv'
    BY DEF vars, CAInv, TypeOK, OneAtATime, Files, Knows, Trusted
  <2>2. ASSUME CAInv, NEW p \in Procs, Run(p)
        PROVE  CAInv'
    BY <2>2, CAInvIsInductive DEF Run
  <2>3. ASSUME NEW p \in Procs, Handshake(p)
        PROVE  UNCHANGED vars
    BY <2>3 DEF Handshake, CertForHost
  <2> QED BY <2>1, <2>2, <2>3 DEF LeafNext, Tick, leafVars
<1>3. CAInv /\ LeafInv => ServedLeavesAreTrusted
  <2>1. ASSUME CAInv, LeafInv, NEW p \in Procs, served[p] # NoHandshake
        PROVE  /\ served[p].leaf.host = served[p].wanted
               /\ served[p].leaf.signer = [cert |-> trusted, key |-> trusted]
    <3>1. OwnLeaf(p, served[p].leaf, served[p].wanted)
      BY <2>1 DEF LeafInv, LeavesAreOwn
    <3>2. ca[p] = Trusted
      BY <2>1, <3>1 DEF CAInv, Knows, OwnLeaf
    <3> QED BY <3>1, <3>2 DEF OwnLeaf, Trusted
  <2> QED BY <2>1 DEF ServedLeavesAreTrusted
<1> QED BY <1>1, <1>2, <1>3, LeafInvIsInductive, PTL DEF LeafSpec

(* Whether or not starts overlap: a run no older than the validity of a     *)
(* leaf serves none that has expired.                                       *)
THEOREM YoungRunsServeValid == LeafSpec => YoungRunsServeValidLeaves
<1> DEFINE Valid(p) ==
      (served'[p] \notin {served[p], NoHandshake} /\ now <= upSince[p] + Validity)
        => served'[p].leaf.notAfter >= now
<1>1. ASSUME LeafInv, NEW p \in Procs, Handshake(p), NEW q \in Procs
      PROVE  Valid(q)
  <2>1. PICK host \in Hosts : CertForHost(p, host)
    BY <1>1 DEF Handshake
  <2>2. Given(p, host) /\ certs' \in [Procs -> [Hosts -> Leaves]]
    BY <1>1, <2>1, HandshakeGivesOwnLeaf DEF Handshake
  <2>3. CASE q # p
    BY <1>1, <2>2, <2>3 DEF Given, LeafInv, LeafTypeOK
  <2>4. CASE q = p
    <3>1. served'[p].leaf = certs'[p][host]
      BY <1>1, <2>2 DEF Given, LeafInv, LeafTypeOK
    <3>2. certs'[p][host].notAfter \in Int
      BY <2>2 DEF Leaves
    <3>3. upSince[p] \in Nat /\ now \in Nat /\ Validity \in Nat
      BY <1>1, LeafAssumption DEF LeafInv, LeafTypeOK
    <3>4. certs'[p][host].notAfter >= upSince[p] + Validity
      BY <2>2 DEF Given
    <3>5. now <= upSince[p] + Validity => certs'[p][host].notAfter >= now
      BY <3>2, <3>3, <3>4
    <3> QED BY <2>4, <3>1, <3>5
  <2> QED BY <2>3, <2>4
<1>2. ASSUME LeafInv, NEW p \in Procs, Run(p), NEW q \in Procs
      PROVE  Valid(q)
  BY <1>2 DEF Run, LeafInv, LeafTypeOK
<1>3. ASSUME Tick \/ UNCHANGED leafVars, NEW q \in Procs
      PROVE  Valid(q)
  BY <1>3 DEF Tick, leafVars
<1>4. ASSUME LeafInv, [LeafNext]_leafVars
      PROVE  \A q \in Procs : Valid(q)
  BY <1>1, <1>2, <1>3, <1>4 DEF LeafNext
<1>5. LeafInv /\ [LeafNext]_leafVars =>
        [\A p \in Procs :
           (served'[p] \notin {served[p], NoHandshake} /\ now <= upSince[p] + Validity)
             => served'[p].leaf.notAfter >= now]_leafVars
  BY <1>4
<1> QED BY <1>5, LeafInvIsInductive, PTL DEF LeafSpec, YoungRunsServeValidLeaves

-----------------------------------------------------------------------------

(* The stop. *)

Places ==
  {"CA", "rules", "start proxy", "start UI", "waiting", "stop proxy", "stop UI", "exited"}

(* Once the proxy's listener is closed net/http takes no request for it, so *)
(* what Shutdown has waited for stays served: requests still arrive, but    *)
(* inside tunnels.                                                          *)
StopInv ==
  /\ main \in Places
  /\ request \in [Requests -> {"none", "proxy", "ui", "tunnel", "finished"}]
  /\ listening \subseteq {"proxy", "ui"}
  /\ main = "stop proxy" => "proxy" \notin listening
  /\ main = "stop UI" => /\ listening = {}
                         /\ InFlight("proxy") = {} \/ expired

LEMMA StopInvIsInductive ==
  ASSUME StopInv, [MainNext]_mainVars
  PROVE  StopInv'
<1>1. CASE UNCHANGED mainVars
  BY <1>1 DEF StopInv, mainVars, InFlight
<1>2. CASE PrepareCA \/ LoadRules \/ StartProxy \/ StartUI \/ StartFails \/ ExportCA
  BY <1>2 DEF StopInv, Places, PrepareCA, LoadRules, StartProxy, StartUI, StartFails, ExportCA,
              Exit, Proceed
<1>3. CASE Signal
  BY <1>3 DEF StopInv, Places, Signal
<1>4. CASE ProxyStopped
  BY <1>4 DEF StopInv, Places, ProxyStopped, Proceed, InFlight
<1>5. CASE UIStopped
  BY <1>5 DEF StopInv, Places, UIStopped, Exit
<1>6. CASE Expire
  BY <1>6 DEF StopInv, Places, Expire
<1>7. ASSUME NEW r \in Requests, Arrive(r)
      PROVE  StopInv'
  <2>1. PICK way \in Ways : request' = [request EXCEPT ![r] = way]
    BY <1>7 DEF Arrive
  <2>2. way \in {"proxy", "ui", "tunnel"} /\ (main = "stop UI" => way = "tunnel")
    <3>1. way \in listening \/ way = "tunnel"
      BY <2>1 DEF Ways
    <3> QED BY <3>1 DEF StopInv
  <2>3. request' \in [Requests -> {"none", "proxy", "ui", "tunnel", "finished"}]
    BY <2>1, <2>2 DEF StopInv
  <2>4. main = "stop UI" => InFlight("proxy")' \subseteq InFlight("proxy")
    BY <2>1, <2>2 DEF StopInv, InFlight
  <2> QED BY <1>7, <2>3, <2>4 DEF StopInv, Arrive
<1>8. ASSUME NEW r \in Requests, Finish(r)
      PROVE  StopInv'
  <2>1. request' \in [Requests -> {"none", "proxy", "ui", "tunnel", "finished"}]
    BY <1>8 DEF StopInv, Finish
  <2>2. InFlight("proxy")' \subseteq InFlight("proxy")
    BY <1>8 DEF StopInv, Finish, InFlight
  <2> QED BY <1>8, <2>1, <2>2 DEF StopInv, Finish
<1> QED BY <1>1, <1>2, <1>3, <1>4, <1>5, <1>6, <1>7, <1>8 DEF MainNext, Main

(* However requests arrive and end, a stop that did not run out of its time  *)
(* cuts none that net/http serves: only those inside tunnels.               *)
THEOREM ServedRequestsWaitedFor == MainSpec => ServedRequestsAreWaitedFor
<1>1. MainInit => StopInv
  BY DEF MainInit, StopInv, Places
<1>2. StopInv /\ [MainNext]_mainVars
        => [main = "stop UI" /\ main' = "exited" /\ ~expired
              => \A r \in dropped' : request[r] = "tunnel"]_mainVars
  <2> SUFFICES ASSUME StopInv, [MainNext]_mainVars, main = "stop UI", main' = "exited", ~expired
               PROVE  \A r \in dropped' : request[r] = "tunnel"
    OBVIOUS
  <2>1. UIStopped
    BY DEF MainNext, Main, mainVars, PrepareCA, LoadRules, StartProxy, StartUI, StartFails,
           ExportCA, Signal, ProxyStopped, Expire, Arrive, Finish, Proceed
  <2>2. dropped' = Unfinished /\ InFlight("ui") = {} /\ InFlight("proxy") = {}
    BY <2>1 DEF UIStopped, Exit, StopInv
  <2> QED BY <2>2 DEF Unfinished, InFlight
<1> QED BY <1>1, <1>2, StopInvIsInductive, PTL DEF MainSpec, ServedRequestsAreWaitedFor
=============================================================================
