\* Up to two routes of two models, and one call of each kind with two retries and an answer of
\* two pieces.  The call ends, and the model with it.
SPECIFICATION FairDispatchSpec
CONSTANTS
  Models = {"m1", "m2"}
  Urls = {"d", "a", "b"}
  Defaults <- MCDefaults
  Groups <- MCGroups
  MaxRoutes = 2
  MaxRouteIndex = 3
  Retries = 2
  TextLen = 2
  Inputs = 2
INVARIANTS
  LoadedStarts
  RouteExact
  IdleTracksServed
  RelayExact
  AnswerHonest
PROPERTIES
  CallReturns
CHECK_DEADLOCK FALSE
