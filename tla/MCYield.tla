------------------------------- MODULE MCYield ------------------------------
(* The yield controller with instances, a request and a game as values.    *)
EXTENDS YieldController

CONSTANTS vllm, ollama, q1, steam

\* One of the four gaming rules.
OneRule == <<steam>>
=============================================================================
