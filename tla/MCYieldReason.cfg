\* A confirmed contention whose reason changes: one instance, one request.
SPECIFICATION YctlSpec
CONSTANTS
  vllm = vllm
  ollama = ollama
  q1 = q1
  steam = steam
  Instances = {vllm}
  IdleInstances = {vllm}
  Reqs = {q1}
  GamingRules <- OneRule
  HasChecker = FALSE
  ConfirmPolls = 2
  MayFail = FALSE
  MayBlind = FALSE
  MaxChanges = 2
PROPERTIES
  ConfirmationForEntryOnly
CHECK_DEADLOCK FALSE
