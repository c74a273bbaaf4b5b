\* The Controller and Tdarr under fair scheduling: with three changes contention may start,
\* change its reason, clear and come back, or the mode be overridden, while the clock goes
\* round the window and one call to Tdarr fails.  The broker may find the workers paused.
SPECIFICATION FairTdarrSpec
CONSTANTS
  vllm = vllm
  steam = steam
  Instances = {vllm}
  IdleInstances = {}
  Reqs = {}
  GamingRules <- OneRule
  HasChecker = TRUE
  ConfirmPolls = 2
  MayFail = FALSE
  MayBlind = TRUE
  MaxChanges = 3
  Times <- Night
  MaxFails = 1
INVARIANT
  LimitExact
PROPERTIES
  TdarrSettles
