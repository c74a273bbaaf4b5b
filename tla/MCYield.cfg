\* Two instances, one of them with an idle timeout and a request that may wake it, two reasons of
\* contention, blind polls; actions may fail.  Two changes of contention or mode allow a yield
\* to start and to end, or its reason to change, while earlier actions are under way.
SPECIFICATION FairYctlSpec
CONSTANTS
  vllm = vllm
  ollama = ollama
  q1 = q1
  steam = steam
  Instances = {vllm, ollama}
  IdleInstances = {vllm}
  Reqs = {q1}
  GamingRules <- OneRule
  HasChecker = FALSE
  ConfirmPolls = 2
  MayFail = TRUE
  MayBlind = TRUE
  MaxChanges = 2
INVARIANTS
  YctlTypeOK
  DebounceExact
  UnitFollowsOrders
PROPERTIES
  ImplementsAdmission
  GPUFollowsContention
CHECK_DEADLOCK FALSE
