--------------------------- MODULE MCControlPlane ---------------------------
(* Instances of ControlPlane: a build, its successor, which brings a       *)
(* migration of its own, and one whose migrations were squashed into a     *)
(* single one, in a good environment and in ones that must not get as far  *)
(* as serving.                                                             *)
EXTENDS ControlPlane, Sequences

CONSTANTS old, new, squashed

MCScript ==
  [b \in {old, new, squashed} |->
     CASE b = old      -> <<{"tenants"}>>
       [] b = new      -> <<{"tenants"}, {"runs"}>>
       [] b = squashed -> <<{"tenants", "runs"}>>]

MCHeadVersion == [b \in {old, new, squashed} |-> Len(MCScript[b])]

Good ==
  [unparsable |-> {}, maxConns |-> 4, minConns |-> 1, healthCheck |-> 30,
   llmTimeout |-> 90, database |-> TRUE, clerk |-> TRUE, env |-> "production",
   public |-> TRUE, default |-> "anthropic", keys |-> {"anthropic", "mistral"},
   assets |-> TRUE]

\* With Width = 5, 32 connections become none.
MCEnvironment ==
  {Good,
   [Good EXCEPT !.maxConns = 32],
   [Good EXCEPT !.default = "openai"]}

\* Everything Load and its successors can turn down.
Refusals ==
  {[Good EXCEPT !.unparsable = {"PORT"}], [Good EXCEPT !.maxConns = 0],
   [Good EXCEPT !.minConns = 5], [Good EXCEPT !.minConns = -1],
   [Good EXCEPT !.healthCheck = 0], [Good EXCEPT !.llmTimeout = 0],
   [Good EXCEPT !.database = FALSE], [Good EXCEPT !.clerk = FALSE],
   [Good EXCEPT !.public = FALSE], [Good EXCEPT !.default = "openai"],
   [Good EXCEPT !.keys = {}], [Good EXCEPT !.default = "unknown"],
   [Good EXCEPT !.maxConns = 32], [Good EXCEPT !.assets = FALSE]}

MayServe(e) == Load(e) /\ buildLLMRuntime(e) /\ PoolConfig(e) /\ loadFrontendHandler(e)

\* A configuration serves or is refused before a request can be accepted; the
\* stand-in for Clerk is never put in place outside development.
ASSUME ConfigurationIsChecked ==
  /\ MayServe(Good)
  /\ \A e \in Refusals : ~MayServe(e)
  /\ \A e \in [unparsable : {{}}, maxConns : {4}, minConns : {1}, healthCheck : {30},
               llmTimeout : {90}, database : {TRUE}, clerk : BOOLEAN,
               env : {"development", "staging", "production"}, public : BOOLEAN,
               default : {"anthropic"}, keys : {{"anthropic"}}, assets : BOOLEAN] :
       MayServe(e) /\ verifier(e) = "fake" => e.env = "development"
=============================================================================
