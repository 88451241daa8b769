--------------------------- MODULE LanguageModel ---------------------------
(***************************************************************************)
(* Calls of the language model: the requests the API provider sends and    *)
(* repeats (m2_abduction/provider.py), and the tracker that admits and     *)
(* records each call of a hunt (controller/cost.py).                       *)
(*                                                                         *)
(* A call is one logical question of a component; the provider sends at    *)
(* most MaxAttempts requests for it.  Tokens are counted in units.         *)
(***************************************************************************)
EXTENDS Integers, Sequences, FiniteSets, FiniteSetsExt

CONSTANTS
    MaxCalls,     \* LLMUsageTracker.max_calls
    MaxTokens,    \* max_total_tokens
    Limits,       \* component -> calls it may make; absent: no limit of its own
    MaxAttempts,  \* max_retries
    PromptSize,   \* component -> estimated tokens of its prompt; the engine's
                  \* own notes of a refinement are a component too
    ReplySize,    \* estimated tokens of a reply
    Reserve,      \* the provider's max_tokens, reserved for a reply
    Usages        \* tokens a provider reports for a request, 0 for none

Components == DOMAIN PromptSize

ASSUME CallAssumption ==
    /\ MaxCalls \in Nat \ {0} /\ MaxTokens \in Nat \ {0} /\ MaxAttempts \in Nat \ {0}
    /\ ReplySize \in Nat \ {0} /\ Reserve \in Nat
    /\ \A c \in Components : PromptSize[c] \in Nat \ {0}
    /\ DOMAIN Limits \subseteq Components /\ \A c \in DOMAIN Limits : Limits[c] \in Nat
    /\ Usages \subseteq Nat /\ 0 \in Usages

VARIABLES
    calls,     \* LLMUsageTracker.calls
    tokens,    \* total_prompt_tokens + total_completion_tokens
    call,      \* the call being made: [by, attempt, usage]
    requests   \* history: requests sent since the tracker was made

llmVars == <<calls, tokens, call, requests>>

NoCall   == [by |-> "nobody", attempt |-> 0, usage |-> 0]
Records  == [by : Components, attempts : 1..MaxAttempts, tokens : Nat]

-----------------------------------------------------------------------------
(* LLMUsageTracker.                                                        *)

IsExhausted == Len(calls) >= MaxCalls \/ tokens >= MaxTokens
CallsOf(c) == Cardinality({i \in DOMAIN calls : calls[i].by = c})
IsComponentExhausted(c) ==
    IsExhausted \/ (c \in DOMAIN Limits /\ CallsOf(c) >= Limits[c])

\* estimate_tokens: never less than one, not even of an empty text.
EstimateOfNothing == 1

Remaining == Max({0, MaxTokens - tokens})

Preflight(c) == /\ ~IsComponentExhausted(c)
                /\ PromptSize[c] + Reserve <= Remaining

\* record_call refuses at the maximum, and the caller swallows the refusal.
RecordCall(c, attempts, used) ==
    IF Len(calls) >= MaxCalls THEN UNCHANGED <<calls, tokens>>
    ELSE /\ calls'  = Append(calls, [by |-> c, attempts |-> attempts, tokens |-> used])
         /\ tokens' = tokens + used

-----------------------------------------------------------------------------
(* What a request comes back with.  A reply may carry its usage; a body    *)
(* without a choice is read only after its usage; a gateway's error says   *)
(* timeout in its text.                                                    *)

Outcomes ==
    [kind : {"reply", "garbled"}, usage : Usages]
        \cup [kind : {"busy", "gateway_timeout", "denied", "network", "timeout"}, usage : {0}]

Repeatable == {"garbled", "busy", "gateway_timeout", "network", "timeout"}
TimedOut   == {"gateway_timeout", "timeout"}

\* The attempt is repeated, or it decides what the caller gets.
Again(o)   == o.kind \in Repeatable /\ call.attempt < MaxAttempts
\* The usage of an earlier attempt stays when a later one reports none.
Usage(o)   == IF o.usage > 0 THEN o.usage ELSE call.usage

Result(c, o) == CASE o.kind = "reply"                        -> "reply"
                  [] o.kind \in TimedOut                     -> "timeout"
                  [] o.kind \notin TimedOut \cup {"reply"}
                        /\ c = "compiler"                    -> "error"
                  [] OTHER                                   -> "empty"

-----------------------------------------------------------------------------
(* create_llm_caller: a component asks, when the tracker admits it.        *)

Ask(c) ==
    /\ call = NoCall
    /\ Preflight(c)
    /\ call' = [by |-> c, attempt |-> 1, usage |-> 0]
    /\ requests' = requests + 1
    /\ UNCHANGED <<calls, tokens>>

Refused(c) == /\ call = NoCall
              /\ ~Preflight(c)
              /\ UNCHANGED llmVars

\* call_raw, up to the answer of one request.
Repeat(o) ==
    /\ Again(o)
    /\ call' = [call EXCEPT !.attempt = @ + 1, !.usage = Usage(o)]
    /\ requests' = requests + 1
    /\ UNCHANGED <<calls, tokens>>

Spent(o) ==
    IF o.kind = "reply" THEN IF Usage(o) > 0 THEN Usage(o)
                             ELSE PromptSize[call.by] + ReplySize
                        ELSE PromptSize[call.by] + EstimateOfNothing

\* Mutant: a failed call is not recorded.
FinishSuccess(o) ==
    /\ ~Again(o)
    /\ IF o.kind = "reply" THEN RecordCall(call.by, call.attempt, Spent(o))
                           ELSE UNCHANGED <<calls, tokens>>
    /\ call' = NoCall
    /\ UNCHANGED requests

Finish(o) ==
    /\ ~Again(o)
    /\ RecordCall(call.by, call.attempt, Spent(o))
    /\ call' = NoCall
    /\ UNCHANGED requests

\* generate, which abduction calls without a tracker.
Generate ==
    /\ call = NoCall
    /\ call' = [by |-> "abduction", attempt |-> 1, usage |-> 0]
    /\ requests' = requests + 1
    /\ UNCHANGED <<calls, tokens>>
FinishGenerate(o) ==
    /\ ~Again(o)
    /\ call' = NoCall
    /\ UNCHANGED <<calls, tokens, requests>>

\* A tracker is made for each command.
NewTracker == calls' = << >> /\ tokens' = 0 /\ requests' = 0

=============================================================================
