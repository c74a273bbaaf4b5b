------------------------------ MODULE Dispatch ------------------------------
(***************************************************************************)
(* A broker that has loaded its configuration and dispatches a request or  *)
(* a Job: cmd/broker/main.go puts router.ProxyForLane behind the Gate of   *)
(* each lane, hands the Router to the Job worker, and puts the embed lane  *)
(* in front of its own upstream.  Routing says which instance gets the     *)
(* call, Upstream what becomes of it.                                      *)
(***************************************************************************)
EXTENDS Routing, Upstream

dispatchVars == <<routingVars, upVars>>

DispatchInit == RoutingInit /\ Idle

\* The Proxy of Ollama relays everything, that of another upstream translates three requests.
Kinds(f) == IF f = "ollama" THEN {"raw"} ELSE {"stream", "buffered", "embed"}

\* ProxyForLane, or Proxy of the only backend.
Serve(m, lane) ==
  /\ stage = "serving"
  /\ LET b == Resolve(m, lane)
     IN  \/ \E k \in Kinds(b.fam) : Begin(b.fam, k)
         \/ b.fam = "openai" /\ UnknownPath
  /\ UNCHANGED routingVars

\* The Job worker calls Generate.
RunJob(m) ==
  /\ stage = "serving"
  /\ Begin(GenerateAt(m).fam, "job")
  /\ UNCHANGED routingVars

\* The embed lane relays to Infinity, whatever the routes.
ServeEmbed ==
  /\ stage = "serving"
  /\ Begin("infinity", "raw")
  /\ UNCHANGED routingVars

DispatchNext ==
  \/ RoutingNext /\ UNCHANGED upVars
  \/ \E m \in Models \cup {NoModel}, lane \in Lanes : Serve(m, lane)
  \/ \E m \in Models : RunJob(m)
  \/ ServeEmbed
  \/ CallNext /\ UNCHANGED routingVars

DispatchSpec == DispatchInit /\ [][DispatchNext]_dispatchVars

FairDispatchSpec == DispatchSpec /\ CallFairness

=============================================================================
