------------------------------- MODULE Routing ------------------------------
(***************************************************************************)
(* From the environment to a routing table: config.Load checks the default *)
(* backend and the BROKER_ROUTE_<N>_ groups, buildBroker makes a backend   *)
(* of each, a yield.Controller over those that have an Unloader, and the   *)
(* Router, whose resolve and Generate say which instance gets a request.   *)
(*                                                                         *)
(* Three indexes name an instance: the original one (1 the default, i + 1  *)
(* the route i; 0 and i in the code), the Controller's, which leaves out   *)
(* instances without an Unloader, and its URL, which Load keeps unique and *)
(* which stands for the instance itself here.                              *)
(*                                                                         *)
(* "" is a variable that is not set; a family, URL or lane outside of      *)
(* Families, Urls and Lanes is one that does not pass its check.  An API   *)
(* key with a line break in it or a duration that does not parse is        *)
(* refused like a URL that does not, and stands with it.                   *)
(***************************************************************************)
EXTENDS Integers, Sequences, SequencesExt, FiniteSets

CONSTANTS Models,         \* model names
          Urls,           \* URLs that parse
          Defaults,       \* what may be configured of the default backend
          Groups,         \* what a BROKER_ROUTE_<N>_ group may hold
          MaxRoutes,      \* maxRoutes
          MaxRouteIndex   \* maxRouteIndex

Families == {"ollama", "openai"}
Lanes    == {"interactive", "batch"}

\* A group whose MODELS is not set, and a model that a request does not name.
Unset   == [models |-> <<>>]
NoModel == "none"

ASSUME RoutingAssumption ==
  /\ NoModel \notin Models
  /\ MaxRoutes \in Nat /\ MaxRouteIndex \in Nat
  /\ \A g \in Groups : g.models # <<>> /\ g.idle \in Int
  /\ \A d \in Defaults : d.idle \in Int

VARIABLES stage,          \* "load", "routes", "failed", "panicked", "built", "serving"
          default,        \* the default backend's configuration
          highest,        \* highestRoute
          routes,         \* cfg.Routes
          ctrl,           \* the Controller: unloaders, origToFiltered and idleTimeouts
          router          \* the Router, or the only backend if there are no routes

cfgVars     == <<default, highest, routes>>
routingVars == <<stage, cfgVars, ctrl, router>>

NoRouter == [def |-> Unset, table |-> <<>>]

RoutingInit ==
  /\ stage = "load"
  /\ default \in Defaults
  /\ highest \in 0..MaxRouteIndex
  /\ routes = <<>>
  /\ ctrl = [unloaders |-> <<>>, post |-> <<>>, idle |-> <<>>]
  /\ router = NoRouter

-----------------------------------------------------------------------------
(* config.Load                                                             *)

\* Faulty variant of IdleOK: an idle timeout needs no unit.
IdleNotNegative(b) == b.idle >= 0

\* An idle timeout is not negative, and needs a unit to stop.
IdleOK(b) == b.idle >= 0 /\ (b.idle # 0 => b.unit # "")

DefaultOK(b) == b.fam \in Families /\ b.url \in Urls /\ IdleOK(b)

\* The default backend and the routes accepted so far, in the order of their original index.
Instances == <<default>> \o routes

\* No model, URL or unit of the group is taken.
Unique(g) ==
  /\ \A i \in DOMAIN routes : Range(routes[i].models) \cap Range(g.models) = {}
  /\ \A k \in DOMAIN Instances : Instances[k].url # g.url
  /\ g.unit # "" => \A k \in DOMAIN Instances : Instances[k].unit # g.unit

RouteOK(g) ==
  /\ "" \notin Range(g.models) /\ IsInjective(g.models)
  /\ g.fam \in Families /\ g.url \in Urls
  /\ Unique(g)
  /\ IdleOK(g)
  /\ g.lane \in Lanes \cup {""}

\* The checks that come before the first route.
LoadDefault ==
  /\ stage = "load"
  /\ stage' = IF DefaultOK(default) /\ highest <= MaxRoutes THEN "routes" ELSE "failed"
  /\ UNCHANGED <<cfgVars, ctrl, router>>

\* The next group: one below highestRoute may be unset, which is a gap.
LoadRoute ==
  /\ stage = "routes" /\ Len(routes) < highest
  /\ \E g \in Groups \cup (IF Len(routes) + 1 < highest THEN {Unset} ELSE {}) :
       IF g # Unset /\ RouteOK(g)
       THEN routes' = Append(routes, g) /\ UNCHANGED stage
       ELSE stage' = "failed" /\ UNCHANGED routes
  /\ UNCHANGED <<default, highest, ctrl, router>>

-----------------------------------------------------------------------------
(* backend.New, NewInstance and NewWithConfirmMulti                        *)

\* Ollama can always be asked to unload; another upstream only through its unit.
HasUnloader(b) == b.fam = "ollama" \/ b.unit # ""

\* The loop of NewWithConfirmMulti: filteredUnloaders after each of its turns.
Filtered(bs) ==
  LET filtered[k \in 0..Len(bs)] ==
        IF k = 0 THEN <<>>
        ELSE IF HasUnloader(bs[k]) THEN Append(filtered[k - 1], bs[k].url)
        ELSE filtered[k - 1]
  IN  filtered

\* The index of each instance among those with an Unloader, 0 (-1 in the code) for none.
OrigToFiltered(bs) ==
  [k \in DOMAIN bs |-> IF HasUnloader(bs[k]) THEN Len(Filtered(bs)[k]) ELSE 0]

\* The instances the Controller gets, without routes none at all for one without an Unloader.
Controlled ==
  IF routes = <<>> /\ ~HasUnloader(default) THEN <<>> ELSE Instances

-----------------------------------------------------------------------------
(* buildBroker                                                             *)

\* ConfigureIdle, which is skipped without routes and Unloader, panics.
ConfigureIdlePanics(post) ==
  /\ Controlled # <<>>
  /\ \/ Len(post) # Len(Instances)
     \/ \E k \in DOMAIN post : post[k] = 0 /\ Instances[k].idle # 0

\* The backend at original index k, decorated with WithActivityTracking if it has an idle
\* timeout and the Controller knows it: track is the index TrackActivity looks up, 0 for none.
Backend(k, post) ==
  [url   |-> Instances[k].url, fam |-> Instances[k].fam,
   track |-> IF Instances[k].idle # 0 /\ k \in DOMAIN post THEN post[k] ELSE 0]

\* Faulty variant of RouteTable: the Router takes the routes before they are decorated.
RouteTableEarly(post) ==
  [m \in UNION {Range(routes[i].models) : i \in DOMAIN routes} |->
     LET i == CHOOSE i \in DOMAIN routes : m \in Range(routes[i].models)
     IN  [lane |-> routes[i].lane, backend |-> [Backend(i + 1, post) EXCEPT !.track = 0]]]

\* The AddRoute loop: of two routes for a model the later would replace the other.
RouteTable(post) ==
  [m \in UNION {Range(routes[i].models) : i \in DOMAIN routes} |->
     LET i == CHOOSE i \in DOMAIN routes :
                /\ m \in Range(routes[i].models)
                /\ \A j \in DOMAIN routes : m \in Range(routes[j].models) => j <= i
     IN  [lane |-> routes[i].lane, backend |-> Backend(i + 1, post)]]

BuildBroker ==
  /\ stage = "routes" /\ Len(routes) = highest
  /\ LET post == OrigToFiltered(Controlled)
         kept == Filtered(Controlled)[Len(Controlled)]
     IN  IF ConfigureIdlePanics(post)
         THEN stage' = "panicked" /\ UNCHANGED <<ctrl, router>>
         ELSE /\ stage' = "built"
              /\ ctrl' = [unloaders |-> kept,
                          post      |-> post,
                          idle      |-> [p \in DOMAIN kept |->
                                           LET k == CHOOSE k \in DOMAIN post : post[k] = p
                                           IN  Instances[k].idle]]
              /\ router' = [def |-> Backend(1, post), table |-> RouteTable(post)]
  /\ UNCHANGED cfgVars

\* main listens.  Nothing reads the configuration any more, so it is let go here.
Listen ==
  /\ stage = "built"
  /\ stage' = "serving"
  /\ routes' = <<>> /\ highest' = 0
  /\ default' = [default EXCEPT !.unit = "", !.idle = 0]
  /\ UNCHANGED <<ctrl, router>>

RoutingNext == LoadDefault \/ LoadRoute \/ BuildBroker \/ Listen

-----------------------------------------------------------------------------
(* Router                                                                  *)

\* Faulty variant of Resolve: a route applies to every lane.
ResolveAnyLane(m, lane) ==
  IF m \in DOMAIN router.table THEN router.table[m].backend ELSE router.def

\* resolve: the default backend for a request without a body, without a model among the first
\* peekLimit bytes (NoModel), without a route or on another lane than its route's.
Resolve(m, lane) ==
  IF m \in DOMAIN router.table /\ router.table[m].lane \in {"", lane}
  THEN router.table[m].backend
  ELSE router.def

\* Generate, for a Job: by model alone.
GenerateAt(m) ==
  IF m \in DOMAIN router.table THEN router.table[m].backend ELSE router.def

-----------------------------------------------------------------------------
(* Properties                                                              *)

\* A configuration that Load accepts never makes ConfigureIdle panic, whose comment says of
\* its panic "this should have been caught at config.Load()": the checks of one package are
\* those the other needs, for both families, with and without routes.
LoadedStarts == stage # "panicked"

\* A request goes to the instance whose group lists its model and admits its lane, a Job's
\* call to the instance whose group lists its model, and everything else, and only that, to
\* the default backend.
RouteExact ==
  stage = "built" =>
    \A m \in Models \cup {NoModel} :
      /\ \A lane \in Lanes :
           LET mine == {i \in DOMAIN routes :
                          m \in Range(routes[i].models) /\ routes[i].lane \in {"", lane}}
           IN  /\ \A i \in mine : Resolve(m, lane).url = routes[i].url
               /\ mine = {} <=> Resolve(m, lane).url = default.url
      /\ LET mine == {i \in DOMAIN routes : m \in Range(routes[i].models)}
         IN  /\ \A i \in mine : GenerateAt(m).url = routes[i].url
             /\ mine = {} <=> GenerateAt(m).url = default.url

\* ADR-0015 warns of a "silent mismatch" that serves requests through one instance and unloads
\* another.  Every request an instance with an idle timeout serves is tracked by the
\* Controller under the index of that very instance's Unloader, and no other is tracked there.
IdleTracksServed ==
  stage \in {"built", "serving"} =>
    \A m \in Models \cup {NoModel}, lane \in Lanes :
      LET b == Resolve(m, lane)
      IN  /\ b.track # 0 => /\ b.track \in DOMAIN ctrl.unloaders
                             /\ ctrl.unloaders[b.track] = b.url
          /\ \A p \in DOMAIN ctrl.idle :
               ctrl.idle[p] # 0 /\ ctrl.unloaders[p] = b.url => b.track = p

=============================================================================
