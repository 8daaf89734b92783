-------------------------- MODULE MCAgentSessions --------------------------
(***************************************************************************)
(* An instance of AgentSessions: two agent processes hold the same token   *)
(* and take its session from each other, a third belongs to another        *)
(* tenant, clocks tick and one is behind, and a query and a ping are       *)
(* under way.                                                              *)
(***************************************************************************)
EXTENDS AgentSessions, TLC

CONSTANTS t1, t2, a1, a2, b1, n1, n2, c1, c2

MCTenantOf == (t1 :> n1) @@ (t2 :> n2)
MCAgents == {<<t1, a1>>, <<t1, a2>>, <<t2, b1>>}
MCKind == (c1 :> "execute_query") @@ (c2 :> "ping")
MCDest == (c1 :> n1) @@ (c2 :> a1)
MCSkews == {-1, 0}
=============================================================================
