------------------------------ MODULE Providers ------------------------------
(***************************************************************************)
(* src/src/providers/providers.c: a call that is retried with a fallback   *)
(* (provider_reliable_call), the completion it is made of, the local model *)
(* that provider_llama_completion keeps loaded between calls (with         *)
(* src/src/llama/llama.c), and the router that chooses a provider.         *)
(***************************************************************************)
EXTENDS Naturals, Sequences, FiniteSets, SequencesExt

CONSTANTS Primaries, Fallbacks,  \* the providers a reliable_config_t may name
          MaxRetries,          \* max_retries
          Routed,              \* the providers of a router
          ModelPaths,          \* GGUF files, of which some may not load
          MaxChoices,          \* bound: the choices of the router remembered
          MaxLoads             \* bound: loads of a model

ProviderTypes == {"openai", "openrouter", "anthropic", "gemini", "glm", "copilot", "ollama",
                  "llama", "unknown"}

Strategies == {"round_robin", "failover", "load_balance", "cost"}

ASSUME ProvidersAssumption ==
    /\ Primaries \subseteq ProviderTypes /\ Fallbacks \subseteq ProviderTypes
    /\ MaxRetries \in Nat /\ Routed \in Seq(ProviderTypes) /\ Len(Routed) > 0
    /\ MaxChoices \in Nat /\ MaxLoads \in Nat

VARIABLES primary, fallback, auto_failover,  \* reliable_config_t
          haveKey,                       \* some API key is in the environment
          calling, attempts, last_error, \* provider_reliable_call
          content,                       \* response->content, "none" if it is empty
          asked,                         \* the calls made, and what became of them
          strategy, current_index,       \* provider_router_t
          chosen,                        \* the choices of provider_router_next
          out_type,                      \* the last provider chosen
          s_model, s_last_path,          \* statics: the model's context, 0 if none
          contexts,                      \* contexts[n]: the file of the n-th context,
                                         \* "none" (no file) once it is freed
          wanted_path                    \* the file of the last local call

configVars == <<primary, fallback, auto_failover, haveKey>>
callVars == <<configVars, calling, attempts, last_error, content, asked>>
routerVars == <<strategy, current_index, chosen, out_type>>
modelVars == <<s_model, s_last_path, contexts, wanted_path>>
providerVars == <<callVars, routerVars, modelVars>>

ProvidersInit ==
    /\ primary \in Primaries /\ fallback \in Fallbacks
    /\ auto_failover = TRUE /\ haveKey = FALSE
    /\ calling = "idle" /\ attempts = 0 /\ last_error = 1 /\ content = "none" /\ asked = <<>>
    /\ strategy \in Strategies /\ current_index = 0 /\ chosen = <<>> /\ out_type = "unknown"
    /\ s_model = 0 /\ s_last_path = "none" /\ contexts = <<>> /\ wanted_path = "none"
-----------------------------------------------------------------------------
(* The completions: what may come back, as the response is parsed.  Without a  *)
(* text the content stays as it was.                                           *)

\* http_post: no answer, a status other than 2xx, or ("lost") a request that is
\* carried out and whose answer does not come.
NoResponse == {"failed", "lost"}

\* A text, an error object taken for one, or the first of the choices as it
\* stands if there is no text in it.
parse_response_content == {"answer", "refusal", "fragment", "nothing"}

provider_openai_completion == parse_response_content \cup NoResponse
provider_glm_completion == parse_response_content \cup NoResponse
provider_copilot_completion == parse_response_content \cup NoResponse

\* These look for the text only.
provider_anthropic_completion == {"answer", "nothing"} \cup NoResponse
provider_gemini_completion == {"answer", "nothing"} \cup NoResponse
provider_ollama_completion == {"answer", "nothing"} \cup NoResponse

\* The text is generated here: nothing but an end token, or the evaluation of
\* the prompt fails.
llama_chat_completion_with_config == {"answer", "nothing", "failed"}

Succeeds(o) == o \in parse_response_content

\* Mistake: the response is not cleared first.
kept_content(o) == IF o = "nothing" THEN content ELSE IF o = "lost" THEN "failed" ELSE o

new_content(o) == IF o = "nothing" THEN "none" ELSE IF o = "lost" THEN "failed" ELSE o
-----------------------------------------------------------------------------
(* provider_llama_completion: one model is kept loaded. *)

path_changed(path) == s_last_path /= path

llama_unload_model(cs, n) == [cs EXCEPT ![n] = "none"]

\* The library and the file are there.
llama_load_model(cs, path) ==
    /\ contexts' = Append(cs, path)
    /\ s_model' = Len(cs) + 1 /\ s_last_path' = path

provider_llama_completion(path, o) ==
    /\ LET unload == path_changed(path) /\ s_model > 0
           left == IF unload THEN llama_unload_model(contexts, s_model) ELSE contexts
       IN  IF s_model > 0 /\ ~unload
           THEN /\ o \in llama_chat_completion_with_config
                /\ UNCHANGED <<s_model, s_last_path, contexts>>
           ELSE \/ /\ Len(left) < MaxLoads
                   /\ llama_load_model(left, path)
                   /\ o \in llama_chat_completion_with_config
                \/ /\ contexts' = left /\ s_model' = 0
                   /\ s_last_path' = IF unload THEN "none" ELSE s_last_path
                   /\ o = "failed"
    /\ wanted_path' = path
-----------------------------------------------------------------------------
(* provider_chat_completion: without a key only local providers are asked. *)

NeedsKey(type) == type \notin {"ollama", "llama"}

Remote(type) ==
    CASE type \in {"openai", "openrouter"} -> provider_openai_completion
      [] type = "anthropic" -> provider_anthropic_completion
      [] type = "gemini" -> provider_gemini_completion
      [] type = "glm" -> provider_glm_completion
      [] type = "copilot" -> provider_copilot_completion
      [] type = "ollama" -> provider_ollama_completion
      [] OTHER -> {"unknown"}

provider_chat_completion(type, o) ==
    IF NeedsKey(type) /\ ~haveKey THEN o = "no_key" /\ UNCHANGED modelVars
    ELSE IF type = "llama" THEN \E path \in ModelPaths : provider_llama_completion(path, o)
    ELSE o \in Remote(type) /\ UNCHANGED modelVars

CallOutcomes == parse_response_content \cup NoResponse \cup {"no_key", "unknown"}
-----------------------------------------------------------------------------
(* provider_reliable_call. *)

\* provider_reliable_init allows failover; its caller may forbid it.
ReliableCall ==
    /\ calling = "idle"
    /\ auto_failover' \in BOOLEAN /\ haveKey' \in BOOLEAN
    /\ calling' = "trying"
    /\ UNCHANGED <<primary, fallback, attempts, last_error, content, asked, routerVars, modelVars>>

TypeOfAttempt == IF attempts = 0 THEN primary ELSE fallback

Called(o) == /\ provider_chat_completion(TypeOfAttempt, o)
             /\ asked' = Append(asked, [type |-> TypeOfAttempt, out |-> o])
             /\ last_error' = IF Succeeds(o) THEN 0 ELSE 1
             /\ UNCHANGED <<configVars, routerVars>>

\* One round of the loop.  After the last one the content becomes the error
\* message, but the result is that of the call.
Attempt(o) ==
    /\ calling = "trying" /\ attempts <= MaxRetries
    /\ Called(o)
    /\ IF Succeeds(o) /\ new_content(o) /= "none"
       THEN content' = new_content(o) /\ calling' = "returned" /\ UNCHANGED attempts
       ELSE IF ~auto_failover \/ attempts >= MaxRetries
       THEN content' = "all_failed" /\ calling' = "returned" /\ UNCHANGED attempts
       ELSE content' = new_content(o) /\ attempts' = attempts + 1 /\ UNCHANGED calling

\* A caller of providers.h asks the local model without the retries, with any file.
LocalCall(path) ==
    /\ \E o \in CallOutcomes : provider_llama_completion(path, o)
    /\ UNCHANGED <<callVars, routerVars>>

ProviderCallNext == \/ ReliableCall
                    \/ \E o \in CallOutcomes : Attempt(o)
                    \/ \E path \in ModelPaths : LocalCall(path)
-----------------------------------------------------------------------------
(* provider_router_next and provider_router_select. *)

next_index == (current_index + 1) % Len(Routed)

provider_router_next(n) ==
    /\ Len(chosen) < MaxChoices
    /\ n \in CASE strategy = "round_robin" -> {current_index + 1}
               [] strategy = "load_balance" -> 1..Len(Routed)
               [] strategy = "cost" -> {Len(Routed)}
               [] OTHER -> {1}
    /\ out_type' = Routed[n]
    /\ chosen' = Append(chosen, Routed[n])
    /\ current_index' = IF strategy = "round_robin" THEN next_index ELSE current_index
    /\ UNCHANGED <<strategy, callVars, modelVars>>

\* A model whose name tells its provider does not use up a turn.
provider_router_select(type) ==
    /\ type \in {"openai", "anthropic", "gemini"}
    /\ out_type' = type
    /\ UNCHANGED <<strategy, current_index, chosen, callVars, modelVars>>

RouterNext == \/ \E n \in 1..Len(Routed) : provider_router_next(n)
              \/ \E type \in ProviderTypes : provider_router_select(type)

ProvidersNext == ProviderCallNext \/ RouterNext

ProvidersSpec == ProvidersInit /\ [][ProvidersNext]_providerVars
-----------------------------------------------------------------------------
\* The retries and the statics.
ProvidersTypeOK ==
    /\ attempts \in 0..MaxRetries /\ calling \in {"idle", "trying", "returned"}
    /\ last_error \in {0, 1} /\ current_index \in 0..Len(Routed) - 1
    /\ s_model \in 0..Len(contexts) /\ contexts \in Seq(ModelPaths \cup {"none"})

\* A call that was answered is not made again: a provider is asked once more
\* only if what came back before was an error or nothing, the primary provider
\* is asked once, and the others only with failover.
AnsweredOnce ==
    calling /= "idle" =>
        /\ \A i \in DOMAIN asked : i < Len(asked) => asked[i].out \notin {"answer", "refusal", "fragment"}
        /\ Len(asked) <= IF auto_failover THEN MaxRetries + 1 ELSE 1
        /\ \A i \in DOMAIN asked : asked[i].type = IF i = 1 THEN primary ELSE fallback

\* What is returned as a success is what the last provider said, or the message
\* that all have failed; never what is left of an earlier attempt.
NoStaleContent ==
    calling = "returned" /\ last_error = 0 =>
        content \in {Last(asked).out, "all_failed"}

\* Round robin: each provider has its turn among any Len(Routed) choices in a
\* row, whatever is selected by the name of its model in between.
EachInTurn ==
    strategy = "round_robin" => \A i \in 1..Len(chosen) :
        i + Len(Routed) - 1 <= Len(chosen) =>
            {chosen[j] : j \in i..i + Len(Routed) - 1} = ToSet(Routed)

\* The local model is the one that was asked for, it is not a freed one, and no
\* other is left in memory.
RightModel ==
    /\ s_model > 0 => contexts[s_model] = wanted_path
    /\ \A n \in DOMAIN contexts : contexts[n] /= "none" => n = s_model

\* Whatever fails, the caller gets the answer to its own call, from the provider
\* whose turn it is and the model that was asked for.
CallsFaithful == AnsweredOnce /\ NoStaleContent /\ EachInTurn /\ RightModel
=============================================================================
