----------------------------- MODULE LlmGateway -----------------------------
(***************************************************************************)
(* The client of the chat completions API (llm/gateway.py) as its callers  *)
(* use it: the harness asks for complete answers (complete), the terminal  *)
(* agent streams and recovers with one standard request                    *)
(* (marcus_code/runtime/agent.py).  A gateway serves one call at a time    *)
(* and remembers across calls what the provider has refused.               *)
(*                                                                         *)
(* A payload is whether it carries tools and which reasoning controls the  *)
(* provider's adapter set (llm/providers.py); a reply is how the gateway   *)
(* classifies it.                                                          *)
(***************************************************************************)
EXTENDS Naturals

CONSTANTS NULL,
          MaxRetries, \* max_retries
          MaxCalls    \* bound: calls of a gateway

ASSUME GatewayAssumption == NULL \notin BOOLEAN /\ MaxRetries \in Nat /\ MaxCalls \in Nat

VARIABLES target,            \* the adapter and the kind of model, as configured
          tool_capable,      \* _tool_capable
          reasoning_capable, \* _reasoning_capable, by what the adapter set
          call,              \* the call in progress: the payload, the retry counter
          result,            \* how the latest call ended
          refused,           \* history: what the provider refused
          posts,             \* history: requests sent for the call in progress
          calls

vars  == <<target, tool_capable, reasoning_capable, call, result, refused, posts, calls>>
known == <<tool_capable, reasoning_capable>>

Provider == {"compatible", "openai", "openrouter", "ollama", "nvidia"}
Host     == {"openrouter", "ollama", "openai", "nvidia", "other"}

(* What the adapters tell apart by name: for OpenAI o-series, GPT-5, later *)
(* ones and their -pro variants, gpt-oss for Ollama, Nemotron by where the *)
(* budget goes                                                             *)
Nemotron == {"nemotron", "nemotron 9b-v2", "nemotron ultra", "nemotron nano-30b"}
Model    == {"o", "gpt-5", "gpt-5.1", "gpt-5-pro", "gpt-oss", "other"} \cup Nemotron

(* LLMOptions: reasoning_effort, thinking_enabled and whether there is a   *)
(* reasoning_budget_tokens; the other options do not matter here           *)
Options == [effort : {"auto", "off", "low", "medium", "high"}, thinking : BOOLEAN \cup {NULL},
            budget : BOOLEAN]

resolve_provider(configured, host, model) ==
  IF configured # "auto" THEN configured
  ELSE IF host \in Provider \ {"nvidia"} THEN host
  ELSE IF host = "nvidia" \/ model \in Nemotron THEN "nvidia"
  ELSE "compatible"
-----------------------------------------------------------------------------
(* What adapt_request adds: the names of the fields and the effort they    *)
(* ask for                                                                 *)
Nothing == [fields |-> {}, effort |-> NULL]
Adapted(fields, effort) == [fields |-> fields, effort |-> effort]

requested_effort(o) ==
  IF o.thinking = FALSE THEN "off"
  ELSE IF o.effort # "auto" THEN o.effort
  ELSE IF o.thinking = TRUE THEN "medium" ELSE NULL

openai_effort(model, effort) ==
  CASE model = "gpt-5-pro" -> IF effort = "high" THEN "high" ELSE NULL
    [] model # "gpt-5-pro" /\ effort # "off" -> effort
    [] OTHER -> CASE model = "gpt-5.1" -> "none" [] model = "gpt-5" -> "minimal" [] model = "o" -> "low"

OpenAI(model, o) ==
  LET effort == requested_effort(o)
  IN  IF \/ effort = NULL \/ model \notin {"o", "gpt-5", "gpt-5.1", "gpt-5-pro"}
         \/ openai_effort(model, effort) = NULL
      THEN Nothing ELSE Adapted({"reasoning_effort"}, openai_effort(model, effort))

OpenRouter(o) ==
  LET effort == requested_effort(o)
  IN  IF o.budget /\ effort # "off" THEN Adapted({"reasoning"}, NULL)
      ELSE IF effort = NULL THEN Nothing
      ELSE Adapted({"reasoning"}, IF effort = "off" THEN "none" ELSE effort)

Ollama(model, o) ==
  LET effort == requested_effort(o)
  IN  IF effort = NULL THEN Nothing
      ELSE Adapted({"reasoning_effort"},
             IF effort # "off" THEN effort ELSE IF model = "gpt-oss" THEN "low" ELSE "none")

(* The field a budget is put in, unless it goes into the template *)
nemotron_budget(model) ==
  CASE model = "nemotron 9b-v2" -> {"nvext"}
    [] model = "nemotron ultra" -> {"thinking_token_budget"}
    [] model = "nemotron nano-30b" -> {"max_thinking_tokens"}
    [] OTHER -> {}

Nvidia(model, o) ==
  LET effort == requested_effort(o)
  IN  IF model \notin Nemotron \/ (effort = NULL /\ ~o.budget) THEN Nothing
      ELSE Adapted({"chat_template_kwargs"} \cup
                     IF o.budget /\ effort # "off" THEN nemotron_budget(model) ELSE {},
                   effort)

apply_reasoning(o) ==
  CASE target.provider = "compatible" -> Nothing
    [] target.provider = "openai"     -> OpenAI(target.model, o)
    [] target.provider = "openrouter" -> OpenRouter(o)
    [] target.provider = "ollama"     -> Ollama(target.model, o)
    [] target.provider = "nvidia"     -> Nvidia(target.model, o)

Idle == [mode |-> "idle", tools |-> FALSE, key |-> Nothing, fields |-> FALSE, attempt |-> 0]

Init ==
  /\ \E configured \in Provider \cup {"auto"}, host \in Host, model \in Model :
       target = [provider |-> resolve_provider(configured, host, model), model |-> model]
  /\ tool_capable = NULL
  /\ reasoning_capable = [k \in {} |-> NULL]
  /\ call = Idle /\ result = NULL
  /\ refused = {} /\ posts = 0 /\ calls = 0
-----------------------------------------------------------------------------
(* self._reasoning_capable[key] = value, and a look at it *)
Noted(key, value) ==
  [k \in DOMAIN reasoning_capable \cup {key} |-> IF k = key THEN value ELSE reasoning_capable[k]]
KnownRefused(key) == key \in DOMAIN reasoning_capable /\ reasoning_capable[key] = FALSE

(* Mutant: what the provider refused is tried again. *)
AlwaysFields(key) == key.fields # {}

(* _select_adapted_payload: the payload with the adapter's reasoning       *)
(* fields, unless they are known to be refused                             *)
WithFields(key) == key.fields # {} /\ ~KnownRefused(key)

Payload(mode, tools, key) ==
  [mode |-> mode, tools |-> tools, key |-> key, fields |-> WithFields(key), attempt |-> 0]

Return(r) == call' = Idle /\ result' = r

(* complete refuses to send tools that were refused before. *)
StartComplete(tools, key) ==
  IF tools /\ tool_capable = FALSE THEN Return("error")
  ELSE call' = Payload("complete", tools, key) /\ UNCHANGED result

Ask(tools, key, streaming) ==
  /\ call = Idle
  /\ calls < MaxCalls /\ calls' = calls + 1
  /\ posts' = 0
  /\ IF streaming THEN call' = Payload("stream", tools, key) /\ UNCHANGED result
     ELSE StartComplete(tools, key)
  /\ UNCHANGED <<target, known, refused>>

(* Mutant: one retry too many. *)
OneRetryMore == call.attempt <= MaxRetries

RetriesLeft == call.attempt < MaxRetries

RememberRefusal == reasoning_capable' = Noted(call.key, FALSE)

(* A success with reasoning fields shows that they are supported. *)
RememberSuccess ==
  reasoning_capable' = IF call.fields THEN Noted(call.key, TRUE) ELSE reasoning_capable

Sent == posts' = posts + 1
Again == call' = [call EXCEPT !.attempt = @ + 1] /\ UNCHANGED <<known, result, refused>>

(* 400 or 422 with the name of a field: one fallback without the fields.   *)
(* complete gives the fallback retries of its own, complete_stream goes on *)
(* counting.                                                               *)
RefuseReasoning ==
  /\ call.fields
  /\ Sent
  /\ refused' = refused \cup {call.key}
  /\ RememberRefusal
  /\ call' = [call EXCEPT !.fields = FALSE, !.attempt = IF call.mode = "complete" THEN 0 ELSE @]
  /\ UNCHANGED <<target, tool_capable, result, calls>>

(* 400 that says tools are not supported; only complete looks for it. *)
RefuseTools ==
  /\ call.tools
  /\ Sent
  /\ tool_capable' = IF call.mode = "complete" THEN FALSE ELSE tool_capable
  /\ Return("error")
  /\ UNCHANGED <<target, reasoning_capable, refused, calls>>

(* Any other status that is not worth a retry *)
Reject ==
  /\ call # Idle
  /\ Sent
  /\ Return("error")
  /\ UNCHANGED <<target, known, refused, calls>>

(* A network failure, 429 or 5xx; in a stream also a line that is not JSON *)
(* or a connection that breaks after text was passed on.  complete gives   *)
(* up with an LLMTransientError; the terminal agent recovers a stream that *)
(* gave up by a standard request.                                          *)
Transient ==
  /\ call # Idle
  /\ Sent
  /\ \/ RetriesLeft /\ Again
     \/ /\ ~RetriesLeft /\ call.mode = "stream"
        /\ StartComplete(call.tools, call.key)
        /\ UNCHANGED <<known, refused>>
     \/ ~RetriesLeft /\ call.mode = "complete" /\ Return("transient") /\ UNCHANGED <<known, refused>>
  /\ UNCHANGED <<target, calls>>

(* 200 and a well-formed answer; usage that is missing is estimated. *)
Answer ==
  /\ call # Idle
  /\ Sent
  /\ RememberSuccess
  /\ tool_capable' = IF call.tools /\ call.mode = "complete" THEN TRUE ELSE tool_capable
  /\ Return("answered")
  /\ UNCHANGED <<target, refused, calls>>

(* 200 and a body or tool arguments that do not parse: the exception is    *)
(* not an LLMError.  complete has noted the success by then (tools only if *)
(* the body was JSON); the stream has not.                                 *)
Malformed ==
  /\ call # Idle
  /\ Sent
  /\ IF call.mode = "complete"
     THEN /\ RememberSuccess
          /\ tool_capable' \in {tool_capable, IF call.tools THEN TRUE ELSE tool_capable}
     ELSE UNCHANGED known
  /\ Return("escaped")
  /\ UNCHANGED <<target, refused, calls>>

(* asyncio.timeout of the terminal agent, or the worker's task is cancelled *)
TimeOut ==
  /\ call # Idle
  /\ Return("timeout")
  /\ UNCHANGED <<target, known, refused, posts, calls>>

(* The provider answers a request, or the caller's timeout does. *)
Reply == RefuseReasoning \/ RefuseTools \/ Reject \/ Transient \/ Answer \/ Malformed \/ TimeOut

Next ==
  \/ \E tools, streaming \in BOOLEAN, key \in {apply_reasoning(o) : o \in Options} :
       Ask(tools, key, streaming)
  \/ Reply

Spec == Init /\ [][Next]_vars
-----------------------------------------------------------------------------
(* RETRIES: a call ends, after at most three rounds of max_retries + 1     *)
(* requests, whatever mix of failures and refusals it meets: the stream's, *)
(* the standard request's and that of one fallback; a stream that fell     *)
(* back leaves no second fallback to the standard request.                 *)
PostsAreBounded ==
  /\ posts <= 3 * (MaxRetries + 1)
  /\ call.mode = "stream" => posts <= MaxRetries + 1 + (IF call.key \in refused THEN 1 ELSE 0)

(* REFUSALS: what a provider has refused is not sent to it again, in this  *)
(* call or a later one: reasoning fields of an effort never, tools not by  *)
(* complete once it saw the refusal.                                       *)
RefusalSticks ==
  /\ call.fields => call.key \notin refused
  /\ call.mode = "complete" /\ call.tools => tool_capable # FALSE
=============================================================================
