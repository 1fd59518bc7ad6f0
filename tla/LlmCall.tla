-------------------------------- MODULE LlmCall --------------------------------
(***************************************************************************)
(* What the LLM layer promises its callers (llm/client.py LLMClient,       *)
(* llm/errors.py): a call ends, once, in an answer or in exactly one of    *)
(* the five domain errors.                                                 *)
(***************************************************************************)
CONSTANT Calls

VARIABLE result   \* of each call

DomainErrors == { "timeout", "rate_limit", "invalid_response",
                  "provider_unavailable", "vision_not_supported" }

Outcomes == DomainErrors \cup {"ok"}

Init == result = [c \in Calls |-> "none"]

Begin(c) == result[c] = "none"    /\ result' = [result EXCEPT ![c] = "pending"]

End(c)   == result[c] = "pending" /\ \E o \in Outcomes : result' = [result EXCEPT ![c] = o]

Next == \E c \in Calls : Begin(c) \/ End(c)

Safety == Init /\ [][Next]_result

Spec == Safety /\ \A c \in Calls : WF_result(End(c))
=============================================================================
