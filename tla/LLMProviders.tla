---------------------------- MODULE LLMProviders ----------------------------
(***************************************************************************)
(* The LLM providers: the table of supported ones and their construction   *)
(* (llmprovider), what each of the three transports sends (gateway/llm/    *)
(* anthropic, openai, mistral) and how each reads the exchange that        *)
(* follows: as a completion, a transient error or another error.           *)
(*                                                                         *)
(* A text is a sequence of pieces, blank when it is empty; a request is a  *)
(* record                                                                  *)
(*   [system: text, messages: Seq([role, cached, content]),                *)
(*    tokens: Nat, format: BOOLEAN, cache: {} or {[type, ttl]},            *)
(*    model: the fallback model, models: a function from provider names].  *)
(*                                                                         *)
(* An exchange is the last one an SDK makes of its own retries.            *)
(***************************************************************************)
EXTENDS Integers, Sequences, SequencesExt

-----------------------------------------------------------------------------
(* The table and the construction of a provider.                           *)

Compatible(name, mode, style) ==
  [name |-> name, transport |-> "openai_compatible", mode |-> mode, style |-> style]

supportedSpecs ==
  <<[name |-> "anthropic", transport |-> "anthropic", mode |-> "", style |-> ""],
    Compatible("openai", "json_schema", "max_completion_tokens"),
    Compatible("together", "json_schema", "max_tokens"),
    [name |-> "mistral", transport |-> "mistral", mode |-> "", style |-> ""],
    Compatible("cerebras", "json_schema", "max_tokens"),
    Compatible("deepseek", "tool_call", "max_tokens"),
    Compatible("xai", "json_schema", "max_tokens"),
    Compatible("fireworks", "json_schema", "max_tokens")>>

Names == {supportedSpecs[k].name : k \in 1 .. Len(supportedSpecs)}

\* ByName's answer for a name of the table.
ByName(name) == CHOOSE spec \in ToSet(supportedSpecs) : spec.name = name

\* New of the openai package: what is not given has a default.
New(spec) ==
  [spec EXCEPT !.mode = IF @ = "" THEN "json_schema" ELSE @,
               !.style = IF @ = "" THEN "max_completion_tokens" ELSE @]

\* BuildWithBaseURL: the provider behind a name.
Build(name) ==
  LET spec == ByName(name)
  IN IF spec.transport = "openai_compatible" THEN New(spec) ELSE spec

\* NewRouter: the first provider of each name, in the order given.
order(names) ==
  FoldLeft(LAMBDA seen, n : IF n \in ToSet(seen) THEN seen ELSE Append(seen, n),
           <<>>, names)

\* The router asks the default provider first, if there is one of that name.
orderedProviders(default, names) ==
  LET known == order(names)
      others == SelectSeq(known, LAMBDA n : n # default)
  IN IF default \in ToSet(known) THEN <<default>> \o others ELSE known

-----------------------------------------------------------------------------
(* What is sent.                                                           *)

Blank(text) == text = <<>>

\* The two parts of a message, with a blank line between them if both are
\* there.
MergeMessageContent(cached, content) == cached \o content

ModelForProvider(req, name) ==
  IF name \in DOMAIN req.models THEN req.models[name] ELSE req.model

\* No provider accepts another role.
RolesKnown(req) ==
  \A k \in 1 .. Len(req.messages) : req.messages[k].role \in {"user", "assistant"}

SystemMessage(req) ==
  IF Blank(req.system) THEN <<>> ELSE <<[role |-> "system", text |-> req.system]>>

Merged(req) ==
  [k \in 1 .. Len(req.messages) |->
     [role |-> req.messages[k].role,
      text |-> MergeMessageContent(req.messages[k].cached, req.messages[k].content)]]

Unsupported == [ok |-> FALSE]

buildChatCompletionParams(spec, req) ==
  IF \/ ~RolesKnown(req)
     \/ req.tokens > 0 /\ spec.style \notin {"max_completion_tokens", "max_tokens"}
     \/ req.format /\ spec.mode \notin {"json_schema", "tool_call"}
    THEN Unsupported
    ELSE [ok |-> TRUE,
          messages |-> SystemMessage(req) \o Merged(req),
          limit |-> IF req.tokens > 0 THEN {<<spec.style, req.tokens>>} ELSE {},
          output |-> IF req.format THEN spec.mode ELSE "text",
          cached |-> {}]

\* Mistral's own client.
buildChatCompletionRequest(req) ==
  IF ~RolesKnown(req)
    THEN Unsupported
    ELSE [ok |-> TRUE,
          messages |-> SystemMessage(req) \o Merged(req),
          limit |-> IF req.tokens > 0 THEN {<<"max_tokens", req.tokens>>} ELSE {},
          output |-> IF req.format THEN "json_schema" ELSE "text",
          cached |-> {}]

\* Succeeds if there is nothing to cache or the type and the time are known.
buildCacheControl(cache) ==
  \A c \in cache : c.type \in {"", "ephemeral"} /\ c.ttl \in {"", "5m", "1h"}

\* The static part of a user's message is a block of its own, which Anthropic
\* may cache; an assistant's message has no such part.
MessageBlock(msg) ==
  [role |-> msg.role,
   text |-> IF msg.role = "user" THEN msg.cached \o msg.content ELSE msg.content]

buildMessageParams(req) ==
  LET cachable == {k \in 1 .. Len(req.messages) :
                     req.messages[k].role = "user" /\ ~Blank(req.messages[k].cached)}
      marked == cachable # {} \/ ~Blank(req.system)
  IN IF \/ ~RolesKnown(req)
        \/ marked /\ ~buildCacheControl(req.cache)
       THEN Unsupported
       ELSE [ok |-> TRUE,
             messages |-> SystemMessage(req)
                          \o [k \in 1 .. Len(req.messages) |->
                                MessageBlock(req.messages[k])],
             limit |-> {<<"max_tokens", req.tokens>>},
             output |-> IF req.format THEN "json_schema" ELSE "text",
             cached |-> IF req.cache = {} THEN {} ELSE cachable]

Params(spec, req) ==
  CASE spec.transport = "anthropic" -> buildMessageParams(req)
    [] spec.transport = "mistral" -> buildChatCompletionRequest(req)
    [] OTHER -> buildChatCompletionParams(spec, req)

-----------------------------------------------------------------------------
(* What comes of it.                                                       *)

\* How an exchange can end: an answer, one without text, without choices or
\* without the arguments of the tool that was asked for, one that is no JSON;
\* the caller is gone; a deadline passes before the answer or while its body
\* is read; a status; no connection.
Exchange == {"answer", "empty", "no_choices", "no_arguments", "garbled",
             "canceled", "deadline", "slow_body",
             "too_many_requests", "server_error", "refused", "unreachable"}

\* An error is what the router and its breaker look for in it: that it wraps
\* context.Canceled, that it is transient, or neither.
NewProviderError(x) == IF x = "canceled" THEN "cancelled" ELSE "permanent"
NewTransientProviderError(x) == "transient"

\* The error of an SDK call.
classifyCompatibleError(x) ==
  CASE x = "canceled" -> NewProviderError(x)
    [] x \in {"deadline", "slow_body"} -> NewTransientProviderError(x)
    [] x \in {"too_many_requests", "server_error"} -> NewTransientProviderError(x)
    [] x = "unreachable" -> NewTransientProviderError(x)
    [] OTHER -> NewProviderError(x)

classifyAnthropicError(x) == classifyCompatibleError(x)

classifyMistralError(x) ==
  IF x \in {"deadline", "unreachable"} THEN NewTransientProviderError(x)
  ELSE NewProviderError(x)

classifyMistralHTTPError(x) ==
  IF x \in {"too_many_requests", "server_error"} THEN NewTransientProviderError(x)
  ELSE NewProviderError(x)

\* Choices and text, or with tool calls their arguments.
extractResponseContent(spec, req, x) ==
  \/ x = "answer"
  \/ x = "empty" /\ req.format /\ spec.mode = "tool_call"
  \/ x = "no_arguments" /\ ~(req.format /\ spec.mode = "tool_call")

\* What Complete returns of each transport; errors before the request is sent
\* are permanent.  Its checks of the key and the model never fail: only
\* providers with a key are built, and the router insists on a model.
CompleteAnthropic(req, x) ==
  IF ~buildMessageParams(req).ok THEN "permanent"
  ELSE IF x \in {"answer", "empty", "no_choices", "no_arguments"} THEN "ok"
  ELSE classifyAnthropicError(x)

CompleteOpenAI(spec, req, x) ==
  IF ~buildChatCompletionParams(spec, req).ok THEN "permanent"
  ELSE IF x \in {"answer", "empty", "no_choices", "no_arguments"}
         THEN IF extractResponseContent(spec, req, x) THEN "ok" ELSE NewProviderError(x)
  ELSE classifyCompatibleError(x)

\* The body is decoded from the connection: a deadline that passes then is an
\* error of decoding, and no transient one.
CompleteMistral(req, x) ==
  IF ~buildChatCompletionRequest(req).ok THEN "permanent"
  ELSE IF x \in {"answer", "no_arguments"} THEN "ok"
  ELSE IF x \in {"empty", "no_choices", "garbled", "slow_body"} THEN NewProviderError(x)
  ELSE IF x \in {"too_many_requests", "server_error", "refused"}
         THEN classifyMistralHTTPError(x)
  ELSE classifyMistralError(x)

Complete(name, req, x) ==
  LET spec == Build(name)
  IN CASE spec.transport = "anthropic" -> CompleteAnthropic(req, x)
       [] spec.transport = "mistral" -> CompleteMistral(req, x)
       [] OTHER -> CompleteOpenAI(spec, req, x)
=============================================================================
