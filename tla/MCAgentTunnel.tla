--------------------------- MODULE MCAgentTunnel ---------------------------
(* An instance of AgentTunnel: one tenant, one token, two processes.       *)
EXTENDS AgentTunnel, TLC

CONSTANTS t1, a1, a2, n1, c1

MCTenantOf == (t1 :> n1)
MCProcesses == <<a1, a2>>
MCAgents == {<<t1, a1>>, <<t1, a2>>}
MCKind == (c1 :> "execute_query")
MCDest == (c1 :> n1)
=============================================================================
