--------------------------- MODULE MCAgentTokens ---------------------------
(* Instances of AgentTokens: two owners, a stranger without a valid login, *)
(* two tokens and an agent installed with one of them.                     *)
EXTENDS AgentTokens

CONSTANTS a1, k1

MCTokenOf == [a \in {a1} |-> k1]
=============================================================================
