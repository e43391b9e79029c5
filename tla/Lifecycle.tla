------------------------------- MODULE Lifecycle -------------------------------
(***************************************************************************)
(* main of cmd/proxy/main.go: the start of the proxy and its parts in       *)
(* order, and its end on a signal: srv.Shutdown and uiSrv.Shutdown under    *)
(* one context of five seconds, then the exit of the process.  A server's   *)
(* Shutdown closes the listener, waits for the requests net/http still      *)
(* serves, and knows nothing of hijacked connections: the requests inside   *)
(* a CONNECT tunnel.  The -export-ca run ends after the first step.         *)
(***************************************************************************)
EXTENDS Naturals

CONSTANT Requests   \* the requests of a run, to the proxy or to the UI

VARIABLES
  main,         \* where main is
  listening,    \* the servers whose listener is open
  request,      \* how each request is served: by net/http or in a tunnel
  dropped,      \* the requests the end of the process cut
  stopped,      \* whether the user has asked for the stop
  expired       \* whether the context of the shutdown has expired

mainVars == <<main, listening, request, dropped, stopped, expired>>

MainInit ==
  /\ main = "CA"
  /\ listening = {}
  /\ request = [r \in Requests |-> "none"]
  /\ dropped = {}
  /\ stopped = FALSE
  /\ expired = FALSE

Proceed(from, to) == main = from /\ main' = to

InFlight(kind) == {r \in Requests : request[r] = kind}
Unfinished == InFlight("proxy") \cup InFlight("tunnel") \cup InFlight("ui")

(* The process ends, and with it what is in flight. *)
Exit ==
  /\ main' = "exited"
  /\ listening' = {}
  /\ dropped' = Unfinished
  /\ UNCHANGED <<request, stopped, expired>>

-----------------------------------------------------------------------------

(* LoadOrCreateCA and loadRules, either of which may fail (log.Fatalf). *)
PrepareCA ==
  /\ Proceed("CA", "rules")
  /\ UNCHANGED <<listening, request, dropped, stopped, expired>>

LoadRules ==
  /\ Proceed("rules", "start proxy")
  /\ UNCHANGED <<listening, request, dropped, stopped, expired>>

(* ListenAndServe of both servers: each serves from now on. *)
StartProxy ==
  /\ Proceed("start proxy", "start UI")
  /\ listening' = listening \cup {"proxy"}
  /\ UNCHANGED <<request, dropped, stopped, expired>>

StartUI ==
  /\ Proceed("start UI", "waiting")
  /\ listening' = listening \cup {"ui"}
  /\ UNCHANGED <<request, dropped, stopped, expired>>

(* log.Fatalf: a file that cannot be read, a port that is taken. *)
StartFails ==
  /\ main \in {"CA", "rules", "start proxy", "start UI"}
  /\ Exit

(* -export-ca: the CA is exported (or not) and the run is over. *)
ExportCA ==
  /\ main = "CA"
  /\ Exit

(* SIGINT or SIGTERM; before signal.Notify it kills the process. *)
Signal ==
  /\ ~stopped
  /\ main \notin {"exited", "stop proxy", "stop UI"}
  /\ stopped' = TRUE
  /\ IF main = "waiting"
     THEN main' = "stop proxy" /\ listening' = listening \ {"proxy"} /\ UNCHANGED dropped
     ELSE main' = "exited" /\ listening' = {} /\ dropped' = Unfinished
  /\ UNCHANGED <<request, expired>>

(* Faulty: the server is closed instead of shut down. *)
CloseProxy ==
  /\ Proceed("stop proxy", "stop UI")
  /\ listening' = {}
  /\ UNCHANGED <<request, dropped, stopped, expired>>

(* Faulty: a shutdown without a deadline. *)
ProxyQuiet ==
  /\ Proceed("stop proxy", "stop UI")
  /\ InFlight("proxy") = {}
  /\ listening' = {}
  /\ UNCHANGED <<request, dropped, stopped, expired>>

(* srv.Shutdown returns: nothing in flight, or the context has expired.     *)
(* uiSrv.Shutdown closes the other listener.                                *)
ProxyStopped ==
  /\ Proceed("stop proxy", "stop UI")
  /\ InFlight("proxy") = {} \/ expired
  /\ listening' = {}
  /\ UNCHANGED <<request, dropped, stopped, expired>>

(* uiSrv.Shutdown returns under the same context, and main returns. *)
UIStopped ==
  /\ main = "stop UI"
  /\ InFlight("ui") = {} \/ expired
  /\ Exit

Expire ==
  /\ main \in {"stop proxy", "stop UI"}
  /\ ~expired
  /\ expired' = TRUE
  /\ UNCHANGED <<main, listening, request, dropped, stopped>>

Main ==
  \/ PrepareCA \/ LoadRules \/ StartProxy \/ StartUI
  \/ ProxyStopped \/ UIStopped

-----------------------------------------------------------------------------

(* A request arrives: at the UI, at the proxy, or, for as long as the       *)
(* process runs, in the tunnel of an earlier CONNECT.                       *)
Ways ==
  listening
    \cup {w \in {"tunnel"} :
            main \in {"start UI", "waiting", "stop proxy", "stop UI"}}

Arrive(r) ==
  /\ request[r] = "none"
  /\ \E way \in Ways : request' = [request EXCEPT ![r] = way]
  /\ UNCHANGED <<main, listening, dropped, stopped, expired>>

Finish(r) ==
  /\ main # "exited"
  /\ r \in Unfinished
  /\ request' = [request EXCEPT ![r] = "finished"]
  /\ UNCHANGED <<main, listening, dropped, stopped, expired>>

MainNext ==
  \/ Main \/ StartFails \/ ExportCA \/ Signal \/ Expire
  \/ \E r \in Requests : Arrive(r) \/ Finish(r)

MainSpec == MainInit /\ [][MainNext]_mainVars

(* main goes on and its timer fires; origins and users owe nothing. *)
FairMainSpec == MainSpec /\ WF_mainVars(Main) /\ WF_mainVars(Expire)

-----------------------------------------------------------------------------

(* After a clean start, a request net/http serves is cut by the stop only   *)
(* when the five seconds are over.                                          *)
ServedRequestsAreWaitedFor ==
  [][main = "stop UI" /\ main' = "exited" /\ ~expired
       => \A r \in dropped' : request[r] = "tunnel"]_mainVars

(* BACKLOG.md, P0-03: "Ctrl-C shuts down cleanly without dropping in-flight *)
(* connections": a stop that did not run out of its five seconds drops      *)
(* nothing.                                                                 *)
NothingInFlightIsDropped ==
  [][main = "stop UI" /\ main' = "exited" /\ ~expired => dropped' = {}]_mainVars

(* A signal ends the process, whatever origins and clients do.              *)
StopsInTheEnd == stopped ~> main = "exited"
=============================================================================
