---------------------------- MODULE MCLLMRouter ----------------------------
(* Instances of LLMRouter: a default provider and a fallback, asked for a  *)
(* structured answer.                                                      *)
EXTENDS LLMRouter

MCCandidates == <<"mistral", "anthropic">>

\* The default provider goes first; a provider given twice counts once.
ASSUME DefaultGoesFirst ==
  /\ MCCandidates = orderedProviders("mistral", <<"anthropic", "mistral", "anthropic">>)
  /\ orderedProviders("xai", <<"openai", "mistral">>) = <<"openai", "mistral">>

User(cached, content) == [role |-> "user", cached |-> cached, content |-> content]

MCBody ==
  [system |-> <<"rules">>, messages |-> <<User(<<"schema">>, <<"question">>)>>,
   tokens |-> 1024, format |-> TRUE, cache |-> {[type |-> "ephemeral", ttl |-> "1h"]},
   model |-> "claude", models |-> [n \in {"mistral"} |-> "mistral-large"]]

\* Requests of every shape: with and without a system prompt, messages of
\* every role (only a user's has a static part), token limits and cache
\* settings, known and unknown.
MCMessage ==
  [role : {"user"}, cached : {<<>>, <<"schema">>}, content : {<<>>, <<"question">>}]
    \cup [role : {"assistant", "tool"}, cached : {<<>>}, content : {<<"sql">>}]
MCRequest ==
  [system : {<<>>, <<"rules">>}, messages : UNION {[1 .. n -> MCMessage] : n \in 0 .. 2},
   tokens : {0, 1024}, format : BOOLEAN,
   cache : {{}} \cup {{c} : c \in [type : {"", "ephemeral", "other"}, ttl : {"", "1h", "2h"}]},
   model : {"claude"}, models : {[n \in {} |-> ""]}]

\* Whichever provider the router falls back to is asked the same: the text the
\* transports make of a request is the same for all that accept it, and the
\* cache settings are the only ground on which they disagree about accepting.
ASSUME SameQuestion ==
  \A req \in MCRequest : \A a, b \in Names :
    LET x == Params(Build(a), req)
        y == Params(Build(b), req)
    IN /\ x.ok /\ y.ok => x.messages = y.messages
       /\ x.ok # y.ok => ~buildCacheControl(req.cache)

\* No transport takes trouble on the way for an answer, an impatient caller
\* for trouble, or a refusal for something worth trying elsewhere.
ASSUME ErrorsAreToldApart ==
  \A n \in Names :
    /\ Complete(n, MCBody, "answer") = "ok"
    /\ Complete(n, MCBody, "canceled") = "cancelled"
    /\ Complete(n, MCBody, "refused") = "permanent"
    /\ \A x \in {"deadline", "too_many_requests", "server_error", "unreachable"} :
         Complete(n, MCBody, x) = "transient"
=============================================================================
