------------------------------- MODULE LlmClient -------------------------------
(***************************************************************************)
(* The LLM client (llm/client.py): public calls, each a loop of attempts   *)
(* under a client-side deadline, with backoff, and the call counters of    *)
(* metrics.py.                                                             *)
(*                                                                         *)
(* Calls run concurrently on one loop and share nothing but the counters.  *)
(* A call is suspended in the POST, raced against the deadline, and in the *)
(* sleep before a retry.  The provider answers what and when it likes, or  *)
(* never.  Durations are whole units; jitter is any delay in its range.    *)
(***************************************************************************)
EXTENDS Integers, FiniteSets

CONSTANTS Calls,
          PROVIDER,          \* "openai" or "openai_compatible"
          LLM_TIMEOUT,       \* deadline of one attempt
          LLM_MAX_RETRIES,
          BACKOFF_BASE, BACKOFF_CAP,
          RetryAfters,       \* numeric Retry-After values the provider sends
          NoHeader           \* no Retry-After, another spelling, not a number

ASSUME CallsAssumption == IsFiniteSet(Calls)
ASSUME SettingsAssumption ==
  /\ PROVIDER \in {"openai", "openai_compatible"}
  /\ LLM_TIMEOUT \in Nat \ {0}
  /\ LLM_MAX_RETRIES \in Nat
  /\ BACKOFF_BASE \in Nat /\ BACKOFF_CAP \in Nat
ASSUME HeadersAssumption == RetryAfters \subseteq Nat /\ NoHeader \notin Nat

VARIABLES
  call,     \* each call: see Call
  metrics   \* calls recorded, by kind and label: see Series

vars == <<call, metrics>>
-----------------------------------------------------------------------------
(* What comes back from an attempt *)

\* status 0 is a transport failure (refused, DNS, read error); a status stands
\* for its class.  body matters for 200, retry_after for 429.
Statuses == {0, 200, 302, 400, 401, 404, 422, 429, 500}
Bodies   == {"good", "bad_content", "malformed"}

Reply == [ status : Statuses, body : Bodies, retry_after : RetryAfters \cup {NoHeader} ]

Replies ==
  {r \in Reply : /\ r.status # 200 => r.body = "good"
                 /\ r.status # 429 => r.retry_after = NoHeader}

\* A timeout: nothing came back.
Silence == [status |-> -1, body |-> "good", retry_after |-> NoHeader]

NoError == "none"
DomainErrors == { "timeout", "rate_limit", "invalid_response",
                  "provider_unavailable", "vision_not_supported" }

\* Mutant: the local-vision rule forgets to ask whether there was an image.
_map_http_AnyCall(r, vision) ==
  IF r.status = 200 THEN NoError
  ELSE IF r.status = 429 THEN "rate_limit"
  ELSE IF r.status \in {400, 401, 404}
    THEN IF PROVIDER # "openai" /\ r.status \in {400, 404}
         THEN "vision_not_supported" ELSE "invalid_response"
  ELSE IF r.status = -1 THEN "timeout"
  ELSE "provider_unavailable"

\* Mutant: a status outside the table surfaces as it is.
_map_http_Raw(r, vision) ==
  IF r.status = 200 THEN NoError
  ELSE IF r.status = 429 THEN "rate_limit"
  ELSE IF r.status \in {400, 401, 404} THEN "invalid_response"
  ELSE IF r.status = -1 THEN "timeout"
  ELSE IF r.status \in {0, 500} THEN "provider_unavailable"
  ELSE "http_error"

\* _map_http, with the two failures _post_with_deadline maps itself.  422 never
\* reaches the local-vision rule.
_map_http(r, vision) ==
  IF r.status = 200 THEN NoError
  ELSE IF r.status = 429 THEN "rate_limit"
  ELSE IF r.status \in {400, 401, 404}
    THEN IF vision /\ PROVIDER # "openai" /\ r.status \in {400, 404, 422}
         THEN "vision_not_supported" ELSE "invalid_response"
  ELSE IF r.status = -1 THEN "timeout"
  ELSE "provider_unavailable"

\* Timeouts, rate limits, and the provider_unavailable of a 5xx.
_is_retryable(r) == r.status \in {-1, 429, 500}

\* Mutant: the cap is not applied.
_full_jitter_delay_NoCap(attempt) == 0 .. (BACKOFF_BASE * 2^attempt)

_full_jitter_delay(attempt) ==
  {d \in 0..BACKOFF_CAP : d <= BACKOFF_BASE * 2^attempt}

\* A numeric Retry-After of a 429 replaces the backoff, however long.
_retry_delay_for(r, attempt) ==
  IF r.status = 429 /\ r.retry_after # NoHeader
  THEN {r.retry_after} ELSE _full_jitter_delay(attempt)
-----------------------------------------------------------------------------
(* metrics.py *)

Kind(k) == IF k.vision THEN "vision" ELSE "text"

Series ==
  {"text", "vision"} \X
    { "ok", "timeout", "rate_limited", "provider_unavailable",
      "invalid_response", "vision_unsupported" }

classify_llm_error(error) ==
  IF error = "rate_limit" THEN "rate_limited"
  ELSE IF error = "vision_not_supported" THEN "vision_unsupported"
  ELSE error

record_llm_call(k, label) == metrics' = [metrics EXCEPT ![<<Kind(k), label>>] = @ + 1]
-----------------------------------------------------------------------------
(* One call *)

Call == [ phase      : {"idle", "posting", "sleeping", "done"},
          vision     : BOOLEAN,   \* complete_with_vision
          structured : BOOLEAN,   \* response_format given
          attempt    : 0..LLM_MAX_RETRIES,
          delay      : Nat,       \* of the sleep under way
          outcome    : DomainErrors \cup {"ok", "none"},
          last       : Replies \cup {Silence},  \* ghost: what the last attempt got
          elapsed    : Nat,       \* ghost: time spent
          asked      : Nat ]      \* ghost: the part a Retry-After asked for

\* complete / complete_with_vision up to the first POST.
Begin(c, vision, structured) ==
  /\ call[c].phase = "idle"
  /\ call' = [call EXCEPT ![c].phase = "posting", ![c].vision = vision,
                          ![c].structured = structured]
  /\ UNCHANGED metrics

\* An error of the retry loop is counted and raised.
Raise(c, k, error) ==
  /\ call' = [call EXCEPT ![c] = [k EXCEPT !.phase = "done", !.outcome = error]]
  /\ record_llm_call(k, classify_llm_error(error))

\* The loop returned a body: counted as a success, and only then is the
\* structured payload looked at (_to_response), which may still raise.
Return(c, k) ==
  /\ call' = [call EXCEPT ![c] =
       [k EXCEPT !.phase = "done",
                 !.outcome = IF k.structured /\ k.last.body = "bad_content"
                             THEN "invalid_response" ELSE "ok"]]
  /\ record_llm_call(k, "ok")

\* Mutant: every failed attempt is counted.
Sleep_Counts(c, k, r) ==
  /\ \E d \in _retry_delay_for(r, k.attempt) :
       call' = [call EXCEPT ![c] = [k EXCEPT !.phase = "sleeping", !.delay = d]]
  /\ record_llm_call(k, classify_llm_error(_map_http(r, k.vision)))

Sleep(c, k, r) ==
  /\ \E d \in _retry_delay_for(r, k.attempt) :
       call' = [call EXCEPT ![c] = [k EXCEPT !.phase = "sleeping", !.delay = d]]
  /\ UNCHANGED metrics

\* Mutant: one retry too many.
Exhausted_OffByOne(k) == k.attempt > LLM_MAX_RETRIES

Exhausted(k) == k.attempt >= LLM_MAX_RETRIES

\* _attempt_with_retry once an attempt is over, having taken d.
AttemptOver(c, r, d) ==
  LET k     == [call[c] EXCEPT !.last = r, !.elapsed = @ + d]
      error == _map_http(r, k.vision)
  IN  IF error = NoError
      THEN IF r.body = "malformed" THEN Raise(c, k, "invalid_response") ELSE Return(c, k)
      ELSE IF ~_is_retryable(r) \/ Exhausted(k) THEN Raise(c, k, error)
      ELSE Sleep(c, k, r)

\* Within the deadline the provider answers, or the transport fails or times out
\* by itself.
ReplyArrives(c) ==
  /\ call[c].phase = "posting"
  /\ \E r \in Replies \cup {Silence}, d \in 0..LLM_TIMEOUT : AttemptOver(c, r, d)

\* Mutant: only the first attempt has a deadline.
DeadlineFires_FirstOnly(c) ==
  /\ call[c].phase = "posting"
  /\ call[c].attempt = 0
  /\ AttemptOver(c, Silence, LLM_TIMEOUT)

\* The deadline, measured anew for each attempt, fires first.
DeadlineFires(c) ==
  /\ call[c].phase = "posting"
  /\ AttemptOver(c, Silence, LLM_TIMEOUT)

\* Mutant: a retry is not counted as an attempt.
NextAttempt_Uncounted(k) ==
  LET asked_for == IF k.last.retry_after # NoHeader THEN k.delay ELSE 0
  IN  [k EXCEPT !.phase = "posting", !.delay = 0,
                !.elapsed = @ + k.delay, !.asked = @ + asked_for]

\* The sleep is over.
NextAttempt(k) ==
  LET asked_for == IF k.last.retry_after # NoHeader THEN k.delay ELSE 0
  IN  [k EXCEPT !.phase = "posting", !.attempt = @ + 1, !.delay = 0,
                !.elapsed = @ + k.delay, !.asked = @ + asked_for]

Retry(c) ==
  /\ call[c].phase = "sleeping"
  /\ call' = [call EXCEPT ![c] = NextAttempt(@)]
  /\ UNCHANGED metrics

Init ==
  /\ call = [c \in Calls |->
       [ phase |-> "idle", vision |-> FALSE, structured |-> FALSE, attempt |-> 0,
         delay |-> 0, outcome |-> "none", last |-> Silence, elapsed |-> 0, asked |-> 0 ]]
  /\ metrics = [s \in Series |-> 0]

Next ==
  \E c \in Calls :
    \/ \E vision, structured \in BOOLEAN : Begin(c, vision, structured)
    \/ ReplyArrives(c) \/ DeadlineFires(c) \/ Retry(c)

AllDone == (\A c \in Calls : call[c].phase = "done") /\ UNCHANGED vars

\* The deadline and the sleeps are the client's own clock; nothing is assumed
\* of the provider.
Fairness == \A c \in Calls : WF_vars(DeadlineFires(c)) /\ WF_vars(Retry(c))

Spec == Init /\ [][Next \/ AllDone]_vars /\ Fairness
-----------------------------------------------------------------------------
(* Properties *)

TypeOK == call \in [Calls -> Call] /\ metrics \in [Series -> Nat]

(***************************************************************************)
(* A call takes no longer than its deadlines and capped backoffs, plus the *)
(* time the provider asked for with Retry-After.                           *)
(***************************************************************************)
BoundedTime ==
  \A c \in Calls :
    LET k == call[c]
    IN  k.elapsed <= (k.attempt + 1) * LLM_TIMEOUT + k.attempt * BACKOFF_CAP + k.asked

(***************************************************************************)
(* The error table of the llm-client spec ("Failure-to-domain-error        *)
(* mapping"), row by row, on the last reply; 422 apart.                    *)
(***************************************************************************)
Table(k) ==
  LET LocalVision == k.vision /\ PROVIDER = "openai_compatible"
      Unusable    == \/ k.last.body = "malformed"
                     \/ k.structured /\ k.last.body = "bad_content"
  IN  /\ k.last.status = -1                            => k.outcome = "timeout"
      /\ k.last.status = 429                           => k.outcome = "rate_limit"
      /\ k.last.status \in {0, 302, 500}               => k.outcome = "provider_unavailable"
      /\ k.last.status = 401                           => k.outcome = "invalid_response"
      /\ k.last.status \in {400, 404} /\ ~LocalVision  => k.outcome = "invalid_response"
      /\ k.last.status \in {400, 404} /\ LocalVision   => k.outcome = "vision_not_supported"
      /\ k.last.status = 200 /\ Unusable               => k.outcome = "invalid_response"
      /\ k.last.status = 200 /\ ~Unusable              => k.outcome = "ok"

(***************************************************************************)
(* However many attempts a call took, what it raises is the row of the     *)
(* table for its last reply, unchanged.                                    *)
(***************************************************************************)
MappingIsExact == \A c \in Calls : call[c].phase = "done" => Table(call[c])

\* How a call that has ended is recorded: by what the loop returned or raised.
Recorded(k) ==
  IF k.last.status = 200 /\ k.last.body # "malformed" THEN "ok" ELSE k.outcome

Label(o) == IF o = "ok" THEN "ok" ELSE classify_llm_error(o)

(***************************************************************************)
(* Every call is counted once, however many attempts it took, under its    *)
(* own kind and error and no other (metrics.record_llm_call: "one          *)
(* completed LLM call"; classify_llm_error: "one-to-one").  An answer      *)
(* refused only by the parser of its content counts as ok.                 *)
(***************************************************************************)
EveryCallCounted ==
  \A kind \in {"text", "vision"}, o \in DomainErrors \cup {"ok"} :
    metrics[<<kind, Label(o)>>] =
      Cardinality({c \in Calls : /\ call[c].phase = "done"
                                 /\ Kind(call[c]) = kind
                                 /\ Recorded(call[c]) = o})

(***************************************************************************)
(* A handler awaiting the LLM is never left waiting, even by a provider    *)
(* that never answers.                                                     *)
(***************************************************************************)
CallEnds == \A c \in Calls : call[c].phase = "posting" ~> call[c].phase = "done"

\* The most steps a call still has before it: a POST and a sleep per attempt.
StepsLeft(k) ==
  CASE k.phase = "idle"     -> 2 * LLM_MAX_RETRIES + 3
    [] k.phase = "posting"  -> 2 * (LLM_MAX_RETRIES - k.attempt) + 2
    [] k.phase = "sleeping" -> 2 * (LLM_MAX_RETRIES - k.attempt) + 1
    [] k.phase = "done"     -> 0

(***************************************************************************)
(* A call ends within a number of steps fixed when it begins: each step    *)
(* uses up one of them, whatever the provider answers, and an outcome, once*)
(* there, is never replaced.                                               *)
(***************************************************************************)
CallProgresses ==
  [][\A c \in Calls : call'[c] # call[c] => StepsLeft(call'[c]) < StepsLeft(call[c])]_vars

Answer(k) ==
  IF k.phase = "idle" THEN "none" ELSE IF k.phase = "done" THEN k.outcome ELSE "pending"

Promise == INSTANCE LlmCall WITH result <- [c \in Calls |-> Answer(call[c])]

(***************************************************************************)
(* The retry loop keeps the promise of LlmCall.                            *)
(***************************************************************************)
ImplementsLlmCall == Promise!Spec
=============================================================================
