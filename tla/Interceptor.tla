----------------------------- MODULE Interceptor -----------------------------
(***************************************************************************)
(* The proxy as cmd/proxy/main.go wires it: the request goroutines of       *)
(* Relay report to the CaptureStore (through MultiObserver, whose other     *)
(* observer only logs), while the inspection UI lists and clears it.  A     *)
(* report and the Observe it makes are one step: the store's lock orders    *)
(* the reports of different goroutines.                                     *)
(***************************************************************************)
EXTENDS Relay

CONSTANTS
  HeaderValues, \* the values a header may have, Absent among them
  MaxItems,     \* the cap of the store
  MaxClears     \* bound on the clears

(* NewStore replaces a cap that is not positive.                            *)
ASSUME InterceptorAssumption == MaxItems \in Nat \ {0} /\ MaxClears \in Nat

VARIABLES
  records,      \* the store
  nextID,
  idOf,         \* the ID the report of a request was given (history)
  clearedAt,    \* the last ID given out before the last Clear (history)
  clears

storeVars == <<records, nextID>>
allVars == <<vars, storeVars, idOf, clearedAt, clears>>

Captured ==
  [status : {0, StatusOK, StatusFound, StatusForbidden}, err : BOOLEAN,
   reqHeaders : [HeaderNames -> HeaderValues],
   reqBody : [size : 0 .. MaxCaptured, truncated : BOOLEAN],
   respHeaders : [HeaderNames -> HeaderValues],
   respBody : [size : 0 .. MaxCaptured, truncated : BOOLEAN]]

(* Every goroutine reports once: the store's own bound is never reached.    *)
Store == INSTANCE CaptureStore
           WITH Exchanges <- Captured, MaxObserved <- Cardinality(Reqs)

SystemInit ==
  /\ Init
  /\ Store!Init
  /\ idOf = [g \in Reqs |-> 0]
  /\ clearedAt = 0
  /\ clears = 0

(* Faulty: only the answers of the origin are captured. *)
RecordAnswered(g) ==
  IF observed'[g] # observed[g] /\ ~exchange'[g].err
  THEN /\ Store!Observe(observed'[g][Len(observed'[g])])
       /\ idOf' = [idOf EXCEPT ![g] = nextID']
  ELSE UNCHANGED <<storeVars, idOf>>

(* The observer of main: what a goroutine reports is captured. *)
Record(g) ==
  IF observed'[g] # observed[g]
  THEN /\ Store!Observe(observed'[g][Len(observed'[g])])
       /\ idOf' = [idOf EXCEPT ![g] = nextID']
  ELSE UNCHANGED <<storeVars, idOf>>

Serve(g) ==
  /\ Step(g)
  /\ Record(g)
  /\ UNCHANGED <<clearedAt, clears>>

(* POST /api/clear *)
ClearCaptured ==
  /\ clears < MaxClears
  /\ Store!Clear
  /\ clearedAt' = nextID
  /\ clears' = clears + 1
  /\ UNCHANGED <<vars, idOf>>

SystemNext == (\E g \in Reqs : Serve(g)) \/ ClearCaptured

SystemSpec == SystemInit /\ [][SystemNext]_allVars

-----------------------------------------------------------------------------

(* Every report of every goroutine gets an ID of its own, and the ID leads  *)
(* to that report until newer ones or a Clear have pushed it out: nothing   *)
(* the proxy did is missing from the capture.                               *)
EveryReportIsCaptured ==
  /\ \A g \in Reqs : observed[g] # <<>> <=> idOf[g] # 0
  /\ \A g, h \in Reqs : (idOf[g] = idOf[h] /\ idOf[g] # 0) => g = h
  /\ \A g \in Reqs :
       (idOf[g] > clearedAt /\ idOf[g] > nextID - MaxItems)
         => Store!Get(idOf[g]) = {[id |-> idOf[g], exchange |-> observed[g][1]]}

(* A client of a decrypted tunnel that has its answer finds the exchange in *)
(* the list, with the status it got, unless newer ones or a Clear have      *)
(* pushed it out.                                                           *)
AnsweredTunnelRequestIsListed ==
  \A g \in Reqs :
    (client[g] # <<>> /\ call[g].via = "mitm")
      => \/ idOf[g] # 0 /\ (idOf[g] <= clearedAt \/ idOf[g] <= nextID - MaxItems)
         \/ \E i \in DOMAIN records :
              /\ records[i].id = idOf[g]
              /\ client[g][1].status = IF records[i].exchange.err
                                       THEN StatusBadGateway
                                       ELSE records[i].exchange.status
=============================================================================
