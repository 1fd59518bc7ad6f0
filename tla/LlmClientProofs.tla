---------------------------- MODULE LlmClientProofs ----------------------------
(***************************************************************************)
(* Proofs about LlmClient, for any number of calls, any deadline, any      *)
(* number of retries and any backoff.                                      *)
(***************************************************************************)
EXTENDS LlmClient, FiniteSetTheorems, TLAPS

\* The time of a call: one deadline per attempt begun, one capped backoff per
\* retry, plus what Retry-After asked for.  In a sleep the delay is still to be
\* spent and to be charged.
InTime(k) ==
  /\ k.phase = "idle" => k.elapsed = 0 /\ k.attempt = 0 /\ k.asked = 0
  /\ k.phase = "posting" =>
       k.elapsed <= k.attempt * LLM_TIMEOUT + k.attempt * BACKOFF_CAP + k.asked
  /\ k.phase \in {"sleeping", "done"} =>
       k.elapsed <= (k.attempt + 1) * LLM_TIMEOUT + k.attempt * BACKOFF_CAP + k.asked
  /\ k.phase = "sleeping" =>
       /\ k.attempt < LLM_MAX_RETRIES
       /\ k.last.retry_after = NoHeader => k.delay <= BACKOFF_CAP

\* A call has an outcome exactly when it has ended.
Ended(k) == k.phase = "done" <=> k.outcome # "none"

IInv ==
  /\ TypeOK
  /\ \A c \in Calls : InTime(call[c]) /\ Ended(call[c])

-----------------------------------------------------------------------------
\* A record of a call is what its fields say.
LEMMA CallFields ==
  ASSUME NEW k \in Call
  PROVE  /\ k = [ phase |-> k.phase, vision |-> k.vision, structured |-> k.structured,
                  attempt |-> k.attempt, delay |-> k.delay, outcome |-> k.outcome,
                  last |-> k.last, elapsed |-> k.elapsed, asked |-> k.asked ]
         /\ k.phase \in {"idle", "posting", "sleeping", "done"}
         /\ k.vision \in BOOLEAN /\ k.structured \in BOOLEAN
         /\ k.attempt \in 0..LLM_MAX_RETRIES /\ k.delay \in Nat
         /\ k.outcome \in DomainErrors \cup {"ok", "none"}
         /\ k.last \in Replies \cup {Silence}
         /\ k.elapsed \in Nat /\ k.asked \in Nat
  BY DEF Call

\* Replies and the silence are replies with their fields in range.
LEMMA ReplyFields ==
  ASSUME NEW r \in Replies \cup {Silence}
  PROVE  /\ r.status \in Statuses \cup {-1} /\ r.body \in Bodies
         /\ r.retry_after \in RetryAfters \cup {NoHeader}
         /\ r.status # 429 => r.retry_after = NoHeader
  BY DEF Replies, Reply, Silence, Statuses, Bodies

\* _map_http returns one of the five errors, or none exactly for a 200.
LEMMA MapIsClosed ==
  ASSUME NEW r \in Replies \cup {Silence}, NEW vision \in BOOLEAN
  PROVE  /\ _map_http(r, vision) = NoError <=> r.status = 200
         /\ r.status # 200 => _map_http(r, vision) \in DomainErrors
  BY ReplyFields DEF _map_http, NoError, DomainErrors

\* The delay before a retry: a Retry-After as it is, or a capped backoff.
LEMMA DelayBounds ==
  ASSUME NEW r \in Replies \cup {Silence}, NEW attempt \in Nat,
         NEW d \in _retry_delay_for(r, attempt)
  PROVE  /\ d \in Nat
         /\ r.retry_after = NoHeader => d <= BACKOFF_CAP
<1>1. CASE r.status = 429 /\ r.retry_after # NoHeader
  <2>1. d = r.retry_after
    BY <1>1 DEF _retry_delay_for
  <2>2. r.retry_after \in RetryAfters
    BY <1>1, ReplyFields, Zenon
  <2>3. d \in Nat
    BY <2>1, <2>2, HeadersAssumption, Zenon
  <2> QED
    BY <1>1, <2>3
<1>2. CASE ~(r.status = 429 /\ r.retry_after # NoHeader)
  <2>1. d \in _full_jitter_delay(attempt)
    BY <1>2 DEF _retry_delay_for
  <2>2. d \in 0..BACKOFF_CAP
    BY <2>1, Zenon DEF _full_jitter_delay
  <2> QED
    BY <2>2, SettingsAssumption
<1> QED
  BY <1>1, <1>2

\* The labels of distinct outcomes are distinct, and each kind has all of them.
LEMMA LabelsAreDistinct ==
  /\ \A o, p \in DomainErrors \cup {"ok"} : Label(o) = Label(p) => o = p
  /\ \A o \in DomainErrors \cup {"ok"}, kind \in {"text", "vision"} : <<kind, Label(o)>> \in Series
  BY DEF DomainErrors, Label, classify_llm_error, Series

\* Recording keeps the type of the counters.
LEMMA RecordTyped ==
  ASSUME metrics \in [Series -> Nat], NEW k, NEW label, record_llm_call(k, label)
  PROVE  metrics' \in [Series -> Nat]
<1> DEFINE s == <<Kind(k), label>>
<1>1. metrics' = [metrics EXCEPT ![s] = @ + 1]
  BY DEF record_llm_call
<1>2. CASE s \in Series
  <2>1. metrics[s] + 1 \in Nat
    BY <1>2
  <2> QED
    BY <1>1, <2>1
<1>3. CASE s \notin Series
  BY <1>1, <1>3
<1> QED
  BY <1>2, <1>3

LEMMA InitInv == Init => IInv
  BY SettingsAssumption
     DEF Init, IInv, TypeOK, Call, Silence, InTime, Ended, DomainErrors

-----------------------------------------------------------------------------
(* How a call ends or goes on.  k is the call once its attempt is over.    *)

\* A call that may have just ended an attempt.
Attempted(k) ==
  /\ k \in Call /\ k.phase = "posting" /\ k.outcome = "none"
  /\ k.elapsed <= (k.attempt + 1) * LLM_TIMEOUT + k.attempt * BACKOFF_CAP + k.asked

\* What is shown of a call after every step.
Sound(k) == k \in Call /\ InTime(k) /\ Ended(k)

\* Only the call c has changed, and it is sound.
LEMMA OneCall ==
  ASSUME IInv, NEW c \in Calls, NEW k, Sound(k),
         call' = [call EXCEPT ![c] = k],
         metrics' \in [Series -> Nat]
  PROVE  IInv'
<1>1. call' \in [Calls -> Call]
  BY DEF IInv, TypeOK, Sound
<1>2. ASSUME NEW b \in Calls
      PROVE  InTime(call'[b]) /\ Ended(call'[b])
  BY <1>1 DEF IInv, TypeOK, Sound
<1> QED
  BY <1>1, <1>2 DEF IInv, TypeOK, InTime, Ended

\* An error ends the call.
LEMMA RaiseSound ==
  ASSUME IInv, NEW c \in Calls, NEW k, Attempted(k), NEW error \in DomainErrors,
         Raise(c, k, error)
  PROVE  IInv'
<1> DEFINE e == [k EXCEPT !.phase = "done", !.outcome = error]
<1>1. Sound(e)
  BY CallFields DEF Attempted, Sound, Call, InTime, Ended, DomainErrors
<1>2. call' = [call EXCEPT ![c] = e]
  BY DEF Raise
<1>3. metrics' \in [Series -> Nat]
  BY RecordTyped DEF Raise, IInv, TypeOK
<1> QED
  BY <1>1, <1>2, <1>3, OneCall

\* A body ends the call.
LEMMA ReturnSound ==
  ASSUME IInv, NEW c \in Calls, NEW k, Attempted(k), Return(c, k)
  PROVE  IInv'
<1> DEFINE o == IF k.structured /\ k.last.body = "bad_content"
                THEN "invalid_response" ELSE "ok"
           e == [k EXCEPT !.phase = "done", !.outcome = o]
<1>1. Sound(e)
  BY CallFields DEF Attempted, Sound, Call, InTime, Ended, DomainErrors
<1>2. call' = [call EXCEPT ![c] = e]
  BY DEF Return
<1>3. metrics' \in [Series -> Nat]
  BY RecordTyped DEF Return, IInv, TypeOK
<1> QED
  BY <1>1, <1>2, <1>3, OneCall

\* A retryable failure puts the call to sleep.
LEMMA SleepSound ==
  ASSUME IInv, NEW c \in Calls, NEW k, Attempted(k), ~Exhausted(k),
         Sleep(c, k, k.last)
  PROVE  IInv'
<1>1. PICK d \in _retry_delay_for(k.last, k.attempt) :
        call' = [call EXCEPT ![c] = [k EXCEPT !.phase = "sleeping", !.delay = d]]
  BY DEF Sleep
<1> DEFINE e == [k EXCEPT !.phase = "sleeping", !.delay = d]
<1>2. d \in Nat /\ (k.last.retry_after = NoHeader => d <= BACKOFF_CAP)
  BY DelayBounds, CallFields DEF Attempted
<1>3. k.attempt < LLM_MAX_RETRIES
  BY CallFields, SettingsAssumption DEF Attempted, Exhausted
<1>4. Sound(e)
  BY <1>2, <1>3, CallFields DEF Attempted, Sound, Call, InTime, Ended, DomainErrors
<1>5. metrics' \in [Series -> Nat]
  BY DEF Sleep, IInv, TypeOK
<1> QED
  BY <1>1, <1>4, <1>5, OneCall

\* The end of an attempt that took d.
LEMMA AttemptOverSound ==
  ASSUME IInv, NEW c \in Calls, call[c].phase = "posting",
         NEW r \in Replies \cup {Silence}, NEW d \in 0..LLM_TIMEOUT,
         AttemptOver(c, r, d)
  PROVE  IInv'
<1> DEFINE k     == [call[c] EXCEPT !.last = r, !.elapsed = @ + d]
           error == _map_http(r, k.vision)
<1>1. call[c] \in Call /\ InTime(call[c]) /\ Ended(call[c])
  BY DEF IInv, TypeOK
<1>2. k \in Call /\ k.phase = "posting" /\ k.last = r /\ k.outcome = "none"
  <2>2. call[c].elapsed + d \in Nat
    BY <1>1, CallFields, SettingsAssumption
  <2>3. k \in Call
    BY <1>1, <2>2, CallFields DEF Call
  <2>4. call[c].outcome = "none"
    BY <1>1 DEF Ended
  <2> QED
    BY <1>1, <2>3, <2>4, CallFields
<1>3. Attempted(k)
  <2>1. call[c].elapsed <= call[c].attempt * LLM_TIMEOUT + call[c].attempt * BACKOFF_CAP
                           + call[c].asked
    BY <1>1 DEF InTime
  <2>2. k.attempt = call[c].attempt /\ k.asked = call[c].asked
          /\ k.elapsed = call[c].elapsed + d
    BY <1>1, CallFields
  <2>3. (call[c].attempt + 1) * LLM_TIMEOUT = call[c].attempt * LLM_TIMEOUT + LLM_TIMEOUT
    BY <1>1, CallFields, SettingsAssumption
  <2>4. k.elapsed <= (k.attempt + 1) * LLM_TIMEOUT + k.attempt * BACKOFF_CAP + k.asked
    <3> HIDE DEF k
    <3>1. /\ call[c].attempt * LLM_TIMEOUT \in Nat
          /\ call[c].attempt * BACKOFF_CAP \in Nat
          /\ call[c].elapsed \in Nat /\ call[c].asked \in Nat
      BY <1>1, CallFields, SettingsAssumption
    <3> QED
      BY <2>1, <2>2, <2>3, <3>1, SettingsAssumption
  <2> QED
    BY <1>2, <2>4 DEF Attempted
<1>4. CASE error = NoError
  <2>1. CASE r.body = "malformed"
    <3>1. Raise(c, k, "invalid_response")
      BY <1>4, <2>1 DEF AttemptOver
    <3> HIDE DEF k
    <3> QED
      BY <1>3, <3>1, RaiseSound DEF DomainErrors
  <2>2. CASE r.body # "malformed"
    <3>1. Return(c, k)
      BY <1>4, <2>2 DEF AttemptOver
    <3> HIDE DEF k
    <3> QED
      BY <1>3, <3>1, ReturnSound
  <2> QED
    BY <2>1, <2>2
<1>5. CASE error # NoError /\ (~_is_retryable(r) \/ Exhausted(k))
  <2>1. Raise(c, k, error)
    BY <1>5 DEF AttemptOver
  <2>2. error \in DomainErrors
    <3>1. k.vision \in BOOLEAN
      BY <1>2, CallFields
    <3> HIDE DEF k
    <3> QED
      BY <3>1, <1>5, MapIsClosed
  <2> HIDE DEF k, error
  <2> QED
    BY <1>3, <2>1, <2>2, RaiseSound
<1>6. CASE error # NoError /\ ~(~_is_retryable(r) \/ Exhausted(k))
  <2>1. Sleep(c, k, r) /\ ~Exhausted(k)
    BY <1>6 DEF AttemptOver
  <2>2. k.last = r
    BY <1>2
  <2> HIDE DEF k, error
  <2> QED
    BY <1>3, <2>1, <2>2, SleepSound
<1> QED
  BY <1>4, <1>5, <1>6

-----------------------------------------------------------------------------
(* The actions *)

LEMMA BeginInv ==
  ASSUME IInv, NEW c \in Calls, NEW vision \in BOOLEAN, NEW structured \in BOOLEAN,
         Begin(c, vision, structured)
  PROVE  IInv'
<1> DEFINE e == [call[c] EXCEPT !.phase = "posting", !.vision = vision,
                              !.structured = structured]
<1>1. call[c] \in Call /\ InTime(call[c]) /\ Ended(call[c])
  BY DEF IInv, TypeOK
<1>2. call' = [call EXCEPT ![c] = e]
  BY DEF Begin, IInv, TypeOK
<1>3. e \in Call
  BY <1>1, CallFields DEF Call
<1>4. InTime(e) /\ Ended(e)
  BY <1>1, CallFields, SettingsAssumption DEF InTime, Ended, Begin
<1>5. metrics' \in [Series -> Nat]
  BY DEF Begin, IInv, TypeOK
<1> HIDE DEF e
<1> QED
  BY <1>2, <1>3, <1>4, <1>5, OneCall DEF Sound

LEMMA RetryInv ==
  ASSUME IInv, NEW c \in Calls, Retry(c)
  PROVE  IInv'
<1> DEFINE k    == call[c]
           more == IF k.last.retry_after # NoHeader THEN k.delay ELSE 0
           e    == NextAttempt(k)
<1>1. k \in Call /\ InTime(k) /\ Ended(k) /\ k.phase = "sleeping"
  BY DEF IInv, TypeOK, Retry
<1>2. call' = [call EXCEPT ![c] = e]
  BY DEF Retry
<1>3. /\ k.attempt \in Nat /\ k.delay \in Nat /\ more \in Nat
      /\ k.elapsed \in Nat /\ k.asked \in Nat
      /\ k.attempt + 1 \in 0..LLM_MAX_RETRIES
      /\ k.delay <= BACKOFF_CAP + more
  BY <1>1, CallFields, SettingsAssumption DEF InTime
<1>4. k.elapsed + k.delay \in Nat /\ k.asked + more \in Nat
  BY <1>3
<1>5. /\ e \in Call /\ e.phase = "posting" /\ e.outcome = k.outcome
      /\ e.attempt = k.attempt + 1
      /\ e.elapsed = k.elapsed + k.delay /\ e.asked = k.asked + more
  <2> HIDE DEF k
  <2> QED
    BY <1>1, <1>3, <1>4 DEF NextAttempt, Call
<1>6. k.elapsed <= (k.attempt + 1) * LLM_TIMEOUT + k.attempt * BACKOFF_CAP + k.asked
  BY <1>1 DEF InTime
<1>7. (k.attempt + 1) * BACKOFF_CAP = k.attempt * BACKOFF_CAP + BACKOFF_CAP
  BY <1>3, SettingsAssumption
<1>8. k.attempt * BACKOFF_CAP \in Nat /\ (k.attempt + 1) * LLM_TIMEOUT \in Nat
  BY <1>3, SettingsAssumption
<1>9. e.elapsed <= e.attempt * LLM_TIMEOUT + e.attempt * BACKOFF_CAP + e.asked
  <2> HIDE DEF k, more, e
  <2> QED
    BY <1>3, <1>5, <1>6, <1>7, <1>8, SettingsAssumption
<1>10. InTime(e) /\ Ended(e)
  <2> HIDE DEF e
  <2> QED
    BY <1>1, <1>5, <1>9 DEF InTime, Ended
<1>11. metrics' \in [Series -> Nat]
  BY DEF Retry, IInv, TypeOK
<1> HIDE DEF e
<1> QED
  BY <1>2, <1>5, <1>10, <1>11, OneCall DEF Sound

LEMMA StepInv ==
  ASSUME IInv, [Next \/ AllDone]_vars
  PROVE  IInv'
<1>1. ASSUME NEW c \in Calls, NEW vision \in BOOLEAN, NEW structured \in BOOLEAN,
             Begin(c, vision, structured)
      PROVE  IInv'
  BY <1>1, BeginInv
<1>2. ASSUME NEW c \in Calls, ReplyArrives(c)
      PROVE  IInv'
  BY <1>2, AttemptOverSound DEF ReplyArrives
<1>3. ASSUME NEW c \in Calls, DeadlineFires(c)
      PROVE  IInv'
  <2>1. LLM_TIMEOUT \in 0..LLM_TIMEOUT
    BY SettingsAssumption
  <2> QED
    BY <1>3, <2>1, AttemptOverSound DEF DeadlineFires
<1>4. ASSUME NEW c \in Calls, Retry(c)
      PROVE  IInv'
  BY <1>4, RetryInv
<1>5. CASE AllDone \/ UNCHANGED vars
  BY <1>5 DEF AllDone, vars, IInv, TypeOK, InTime, Ended
<1> QED
  BY <1>1, <1>2, <1>3, <1>4, <1>5 DEF Next

-----------------------------------------------------------------------------
(***************************************************************************)
(* The inductive invariant of the retry loop: types, the time account of a *)
(* call in each phase, and an outcome exactly when it has ended.           *)
(***************************************************************************)
THEOREM Inductive == Spec => []IInv
<1>1. Init => IInv
  BY InitInv
<1>2. IInv /\ [Next \/ AllDone]_vars => IInv'
  BY StepInv
<1> QED
  BY <1>1, <1>2, PTL DEF Spec

(***************************************************************************)
(* Type correctness; in particular no call makes more than                 *)
(* LLM_MAX_RETRIES retries and every error is one of the five.             *)
(***************************************************************************)
THEOREM TypeCorrect == Spec => []TypeOK
<1>1. IInv => TypeOK
  BY DEF IInv
<1> QED
  BY <1>1, Inductive, PTL

(***************************************************************************)
(* No call waits longer than its deadlines, its capped backoffs and what   *)
(* the provider asked for (_post_with_deadline, _retry_delay_for).         *)
(***************************************************************************)
THEOREM TimeIsBounded == Spec => []BoundedTime
<1>1. IInv => BoundedTime
  <2> SUFFICES ASSUME IInv, NEW c \in Calls
               PROVE  call[c].elapsed <= (call[c].attempt + 1) * LLM_TIMEOUT
                                   + call[c].attempt * BACKOFF_CAP + call[c].asked
    BY DEF BoundedTime
  <2>1. call[c] \in Call /\ InTime(call[c])
    BY DEF IInv, TypeOK
  <2>2. /\ call[c].attempt \in Nat /\ call[c].elapsed \in Nat /\ call[c].asked \in Nat
        /\ (call[c].attempt + 1) * LLM_TIMEOUT = call[c].attempt * LLM_TIMEOUT + LLM_TIMEOUT
        /\ call[c].attempt * LLM_TIMEOUT \in Nat /\ call[c].attempt * BACKOFF_CAP \in Nat
    BY <2>1, CallFields, SettingsAssumption
  <2>3. CASE call[c].phase = "idle"
    <3>1. call[c].elapsed = 0
      BY <2>1, <2>3 DEF InTime
    <3>2. (call[c].attempt + 1) * LLM_TIMEOUT \in Nat
      BY <2>2, SettingsAssumption
    <3> QED
      BY <2>2, <3>1, <3>2
  <2>4. CASE call[c].phase = "posting"
    BY <2>1, <2>2, <2>4, SettingsAssumption DEF InTime
  <2>5. CASE call[c].phase \in {"sleeping", "done"}
    BY <2>1, <2>5 DEF InTime
  <2> QED
    BY <2>1, <2>3, <2>4, <2>5, CallFields
<1> QED
  BY <1>1, Inductive, PTL

-----------------------------------------------------------------------------
(* What a step does to the calls as a whole *)

\* How one call may move, and what the counters do with it.
Moves(c, k) ==
  /\ call' = [call EXCEPT ![c] = k]
  /\ \/ /\ call[c].phase = "idle" /\ k.phase = "posting"
        /\ k.attempt = call[c].attempt
        /\ metrics' = metrics
     \/ /\ call[c].phase = "posting" /\ k.phase = "sleeping"
        /\ k.attempt = call[c].attempt
        /\ metrics' = metrics
     \/ /\ call[c].phase = "sleeping" /\ k.phase = "posting"
        /\ k.attempt = call[c].attempt + 1
        /\ metrics' = metrics
     \/ /\ call[c].phase = "posting" /\ k.phase = "done"
        /\ Recorded(k) \in DomainErrors \cup {"ok"}
        /\ record_llm_call(k, Label(Recorded(k)))
        /\ Table(k)

LEMMA AttemptMoves ==
  ASSUME IInv, NEW c \in Calls, call[c].phase = "posting",
         NEW r \in Replies \cup {Silence}, NEW d \in 0..LLM_TIMEOUT,
         AttemptOver(c, r, d)
  PROVE  \E k : Moves(c, k)
<1> DEFINE a     == [call[c] EXCEPT !.last = r, !.elapsed = @ + d]
           error == _map_http(r, a.vision)
<1>1. call[c] \in Call /\ a.phase = "posting" /\ a.last = r /\ a.attempt = call[c].attempt
  BY CallFields DEF IInv, TypeOK
<1>2. \/ \E e \in DomainErrors :
           /\ Raise(c, a, e) /\ ~(r.status = 200 /\ r.body # "malformed")
           /\ r.status # 200 => e = _map_http(r, a.vision)
           /\ r.status = 200 => e = "invalid_response"
      \/ Return(c, a) /\ r.status = 200 /\ r.body # "malformed"
      \/ Sleep(c, a, r)
  <2>1. a.vision \in BOOLEAN
    BY <1>1, CallFields
  <2>2. /\ error = NoError <=> r.status = 200
        /\ r.status # 200 => error \in DomainErrors
    BY <2>1, MapIsClosed
  <2>3. "invalid_response" \in DomainErrors
    BY DEF DomainErrors
  <2> QED
    BY <2>2, <2>3 DEF AttemptOver
<1>3. DOMAIN a = DOMAIN call[c] /\ {"phase", "outcome", "attempt", "vision", "last", "structured"} \subseteq DOMAIN a
  BY <1>1, CallFields DEF Call
<1> HIDE DEF a
<1>4. ASSUME NEW e \in DomainErrors, Raise(c, a, e), ~(r.status = 200 /\ r.body # "malformed"),
             r.status # 200 => e = _map_http(r, a.vision),
             r.status = 200 => e = "invalid_response"
      PROVE  \E k : Moves(c, k)
  <2> DEFINE b == [a EXCEPT !.phase = "done", !.outcome = e]
  <2>1. b.phase = "done" /\ b.outcome = e /\ b.vision = a.vision /\ b.last = r
    BY <1>1, <1>3
  <2>2. call' = [call EXCEPT ![c] = b] /\ record_llm_call(a, classify_llm_error(e))
    BY <1>4 DEF Raise
  <2>3. e # "ok"
    BY DEF DomainErrors
  <2> HIDE DEF b
  <2>4. Recorded(b) = e /\ Label(e) = classify_llm_error(e) /\ Kind(b) = Kind(a)
    BY <1>4, <2>1, <2>3 DEF Recorded, Label, Kind
  <2>5. record_llm_call(b, Label(Recorded(b)))
    BY <2>2, <2>4 DEF record_llm_call
  <2>6. Table(b)
    BY <1>4, <2>1, <2>3, ReplyFields, SettingsAssumption DEF Table, _map_http, Statuses, Bodies
  <2> QED
    BY <1>1, <2>1, <2>2, <2>4, <2>5, <2>6 DEF Moves
<1>5. ASSUME Return(c, a), r.status = 200, r.body # "malformed"
      PROVE  \E k : Moves(c, k)
  <2> DEFINE o == IF a.structured /\ a.last.body = "bad_content"
                  THEN "invalid_response" ELSE "ok"
             b == [a EXCEPT !.phase = "done", !.outcome = o]
  <2>1. /\ b.phase = "done" /\ b.vision = a.vision /\ b.last = r /\ b.outcome = o
        /\ b.structured = a.structured
    BY <1>1, <1>3
  <2>2. call' = [call EXCEPT ![c] = b] /\ record_llm_call(a, "ok")
    BY <1>5 DEF Return
  <2> HIDE DEF b
  <2>3. Recorded(b) = "ok" /\ Label("ok") = "ok" /\ Kind(b) = Kind(a)
    BY <1>5, <2>1 DEF Recorded, Label, Kind
  <2>4. record_llm_call(b, Label(Recorded(b)))
    BY <2>2, <2>3 DEF record_llm_call
  <2>5. Table(b)
    BY <1>1, <1>5, <2>1 DEF Table
  <2> QED
    BY <1>1, <2>1, <2>2, <2>3, <2>4, <2>5 DEF Moves
<1>6. CASE Sleep(c, a, r)
  <2>1. PICK w : call' = [call EXCEPT ![c] = [a EXCEPT !.phase = "sleeping", !.delay = w]]
    BY <1>6 DEF Sleep
  <2> DEFINE b == [a EXCEPT !.phase = "sleeping", !.delay = w]
  <2>2. b.phase = "sleeping" /\ b.attempt = call[c].attempt
    BY <1>1, <1>3
  <2> HIDE DEF b
  <2> QED
    BY <1>1, <1>6, <2>1, <2>2 DEF Sleep, Moves, b
<1> QED
  BY <1>2, <1>4, <1>5, <1>6

\* Every step moves one call, or none.
LEMMA StepMoves ==
  ASSUME IInv, [Next \/ AllDone]_vars
  PROVE  (\E c \in Calls : \E k : Moves(c, k)) \/ UNCHANGED vars
<1>1. ASSUME NEW c \in Calls, NEW vision \in BOOLEAN, NEW structured \in BOOLEAN,
             Begin(c, vision, structured)
      PROVE  \E k : Moves(c, k)
  <2> DEFINE k == [call[c] EXCEPT !.phase = "posting", !.vision = vision,
                                  !.structured = structured]
  <2>1. call' = [call EXCEPT ![c] = k] /\ metrics' = metrics /\ call[c].phase = "idle"
    BY <1>1 DEF Begin, IInv, TypeOK
  <2>2. k.phase = "posting" /\ k.attempt = call[c].attempt
    BY DEF IInv, TypeOK, Call
  <2> HIDE DEF k
  <2> QED
    BY <2>1, <2>2 DEF Moves
<1>2. ASSUME NEW c \in Calls, ReplyArrives(c) \/ DeadlineFires(c)
      PROVE  \E k : Moves(c, k)
  <2>1. LLM_TIMEOUT \in 0..LLM_TIMEOUT
    BY SettingsAssumption
  <2> QED
    BY <1>2, <2>1, AttemptMoves DEF ReplyArrives, DeadlineFires
<1>3. ASSUME NEW c \in Calls, Retry(c)
      PROVE  \E k : Moves(c, k)
  <2>1. call' = [call EXCEPT ![c] = NextAttempt(call[c])] /\ metrics' = metrics
          /\ call[c].phase = "sleeping"
    BY <1>3 DEF Retry
  <2>2. /\ NextAttempt(call[c]).phase = "posting"
        /\ NextAttempt(call[c]).attempt = call[c].attempt + 1
    BY DEF NextAttempt, IInv, TypeOK, Call
  <2> QED
    BY <2>1, <2>2 DEF Moves
<1>4. CASE AllDone \/ UNCHANGED vars
  BY <1>4 DEF AllDone
<1> QED
  BY <1>1, <1>2, <1>3, <1>4 DEF Next

-----------------------------------------------------------------------------
\* The calls that have ended and are recorded under a kind and an outcome.
Done(kind, o) ==
  {c \in Calls : call[c].phase = "done" /\ Kind(call[c]) = kind /\ Recorded(call[c]) = o}

\* A step leaves the calls that have ended alone, or one more ends and is
\* counted under its kind and outcome.
LEMMA StepCounts ==
  ASSUME IInv, EveryCallCounted, [Next \/ AllDone]_vars
  PROVE  EveryCallCounted'
<1> SUFFICES ASSUME NEW kind \in {"text", "vision"}, NEW o \in DomainErrors \cup {"ok"}
             PROVE  metrics'[<<kind, Label(o)>>] = Cardinality(Done(kind, o)')
  BY DEF EveryCallCounted, Done
<1>1. IsFiniteSet(Done(kind, o))
  BY CallsAssumption, FS_Subset DEF Done
<1>2. metrics[<<kind, Label(o)>>] = Cardinality(Done(kind, o))
  BY DEF EveryCallCounted, Done
<1>3. metrics \in [Series -> Nat] /\ <<kind, Label(o)>> \in Series
  BY LabelsAreDistinct DEF IInv, TypeOK
<1>4. CASE UNCHANGED vars
  BY <1>2, <1>4 DEF vars, Done
<1>5. ASSUME NEW c \in Calls, NEW k, Moves(c, k)
      PROVE  metrics'[<<kind, Label(o)>>] = Cardinality(Done(kind, o)')
  <2>1. c \notin Done(kind, o)
    BY <1>5 DEF Moves, Done
  <2>2. call' = [call EXCEPT ![c] = k] /\ call \in [Calls -> Call]
    BY <1>5 DEF Moves, IInv, TypeOK
  <2>3. CASE k.phase # "done"
    <3>1. Done(kind, o)' = Done(kind, o)
      BY <2>1, <2>2, <2>3 DEF Done
    <3> QED
      BY <1>2, <1>5, <2>3, <3>1 DEF Moves
  <2>4. CASE k.phase = "done"
    <3> DEFINE s == <<Kind(k), Label(Recorded(k))>>
    <3>1. metrics' = [metrics EXCEPT ![s] = @ + 1] /\ Recorded(k) \in DomainErrors \cup {"ok"}
      BY <1>5, <2>4 DEF Moves, record_llm_call
    <3>2. CASE Kind(k) = kind /\ Recorded(k) = o
      <4>1. Done(kind, o)' = Done(kind, o) \cup {c}
        BY <2>2, <2>4, <3>2 DEF Done
      <4>2. Cardinality(Done(kind, o) \cup {c}) = Cardinality(Done(kind, o)) + 1
        BY <1>1, <2>1, FS_AddElement
      <4>3. metrics'[<<kind, Label(o)>>] = metrics[<<kind, Label(o)>>] + 1
        BY <1>3, <3>1, <3>2
      <4> QED
        BY <1>2, <4>1, <4>2, <4>3
    <3>3. CASE ~(Kind(k) = kind /\ Recorded(k) = o)
      <4>1. Done(kind, o)' = Done(kind, o)
        BY <2>1, <2>2, <2>4, <3>3 DEF Done
      <4>2. s # <<kind, Label(o)>>
        BY <3>1, <3>3, LabelsAreDistinct
      <4>3. metrics'[<<kind, Label(o)>>] = metrics[<<kind, Label(o)>>]
        BY <1>3, <3>1, <4>2
      <4> QED
        BY <1>2, <4>1, <4>3
    <3> QED
      BY <3>2, <3>3
  <2> QED
    BY <2>3, <2>4
<1> QED
  BY <1>4, <1>5, StepMoves

(***************************************************************************)
(* Every call that has ended is counted once, under its own kind and       *)
(* error, however many attempts it took, for any number of concurrent      *)
(* calls (Metrics.record_llm_call, classify_llm_error).                    *)
(***************************************************************************)
THEOREM CountsCalls == Spec => []EveryCallCounted
<1>1. Init => EveryCallCounted
  <2> SUFFICES ASSUME Init,
                      NEW kind \in {"text", "vision"}, NEW o \in DomainErrors \cup {"ok"}
               PROVE  metrics[<<kind, Label(o)>>] = Cardinality(Done(kind, o))
    BY DEF EveryCallCounted, Done
  <2>1. Done(kind, o) = {}
    BY DEF Init, Done
  <2>2. Cardinality(Done(kind, o)) = 0
    BY <2>1, FS_EmptySet
  <2>3. metrics[<<kind, Label(o)>>] = 0
    BY LabelsAreDistinct DEF Init
  <2> QED
    BY <2>2, <2>3
<1>2. IInv /\ EveryCallCounted /\ [Next \/ AllDone]_vars => EveryCallCounted'
  BY StepCounts
<1> QED
  BY <1>1, <1>2, Inductive, PTL DEF Spec

(***************************************************************************)
(* What a call raises or returns is the row of the error table for its     *)
(* last reply, for any number of attempts (LLMClient._map_http).           *)
(***************************************************************************)
THEOREM MappingHolds == Spec => []MappingIsExact
<1>1. Init => MappingIsExact
  BY DEF Init, MappingIsExact
<1>2. IInv /\ MappingIsExact /\ [Next \/ AllDone]_vars => MappingIsExact'
  <2> SUFFICES ASSUME IInv, MappingIsExact, [Next \/ AllDone]_vars,
                      NEW b \in Calls, call'[b].phase = "done"
               PROVE  Table(call'[b])
    BY DEF MappingIsExact, Table
  <2>1. call \in [Calls -> Call]
    BY DEF IInv, TypeOK
  <2>2. CASE UNCHANGED vars
    BY <2>2 DEF vars, MappingIsExact
  <2>3. ASSUME NEW c \in Calls, NEW k, Moves(c, k)
        PROVE  Table(call'[b])
    <3>1. CASE b = c
      BY <2>1, <2>3, <3>1 DEF Moves
    <3>2. CASE b # c
      BY <2>1, <2>3, <3>2 DEF Moves, MappingIsExact
    <3> QED
      BY <3>1, <3>2
  <2> QED
    BY <2>2, <2>3, StepMoves
<1> QED
  BY <1>1, <1>2, Inductive, PTL DEF Spec

-----------------------------------------------------------------------------
\* The move of a call uses up at least one of its steps.
LEMMA MoveProgresses ==
  ASSUME IInv, NEW c \in Calls, NEW k, Moves(c, k)
  PROVE  StepsLeft(k) < StepsLeft(call[c])
<1>1. call[c] \in Call /\ InTime(call[c])
  BY DEF IInv, TypeOK
<1>2. call[c].attempt \in 0..LLM_MAX_RETRIES /\ LLM_MAX_RETRIES \in Nat
  BY <1>1, CallFields, SettingsAssumption
<1>3. CASE call[c].phase = "idle" /\ k.phase = "posting" /\ k.attempt = call[c].attempt
  <2>1. call[c].attempt = 0
    BY <1>1, <1>3 DEF InTime
  <2> QED
    BY <1>2, <1>3, <2>1 DEF StepsLeft
<1>4. CASE call[c].phase = "posting" /\ k.phase = "sleeping" /\ k.attempt = call[c].attempt
  BY <1>2, <1>4 DEF StepsLeft
<1>5. CASE call[c].phase = "sleeping" /\ k.phase = "posting" /\ k.attempt = call[c].attempt + 1
  BY <1>2, <1>5 DEF StepsLeft
<1>6. CASE call[c].phase = "posting" /\ k.phase = "done"
  BY <1>2, <1>6 DEF StepsLeft
<1> QED
  BY <1>3, <1>4, <1>5, <1>6 DEF Moves

(***************************************************************************)
(* A call takes at most the steps it has at its start, for any number of   *)
(* retries (LLMClient._attempt_with_retry): the deadline and the sleeps are*)
(* all that is left to wait for, and an outcome is final.                  *)
(***************************************************************************)
THEOREM Progress == Spec => CallProgresses
<1>1. ASSUME IInv, [Next \/ AllDone]_vars, NEW b \in Calls, call'[b] # call[b]
      PROVE  StepsLeft(call'[b]) < StepsLeft(call[b])
  <2>1. call \in [Calls -> Call]
    BY <1>1 DEF IInv, TypeOK
  <2>2. PICK c \in Calls : \E k : Moves(c, k)
    BY <1>1, StepMoves DEF vars
  <2>3. PICK k : Moves(c, k)
    BY <2>2
  <2>4. b = c /\ call'[b] = k
    BY <1>1, <2>1, <2>3 DEF Moves
  <2> QED
    BY <1>1, <2>3, <2>4, MoveProgresses
<1>2. IInv /\ [Next \/ AllDone]_vars
        => [\A c \in Calls : call'[c] # call[c] => StepsLeft(call'[c]) < StepsLeft(call[c])]_vars
  BY <1>1
<1> QED
  BY <1>2, Inductive, PTL DEF Spec, CallProgresses

-----------------------------------------------------------------------------
\* The variable of LlmCall in a state of the loop.
Result == [c \in Calls |-> Answer(call[c])]

\* The move of a call is a step of the promise, or none.
LEMMA StepKeepsPromise ==
  ASSUME IInv, IInv', [Next \/ AllDone]_vars
  PROVE  [Promise!Next]_Result
<1>1. CASE UNCHANGED vars
  BY <1>1 DEF vars, Result, Answer
<1>2. ASSUME NEW c \in Calls, NEW k, Moves(c, k)
      PROVE  [Promise!Next]_Result
  <2>1. call' = [call EXCEPT ![c] = k] /\ call \in [Calls -> Call] /\ call'[c] = k
    BY <1>2 DEF Moves, IInv, TypeOK
  <2>2. Result' = [Result EXCEPT ![c] = Answer(k)]
    BY <2>1 DEF Result, Answer
  <2>3. k \in Call /\ Ended(k)
    BY <2>1 DEF IInv, TypeOK, Ended
  <2>4. CASE call[c].phase = "idle" /\ k.phase = "posting"
    <3>1. Result[c] = "none" /\ Answer(k) = "pending"
      BY <2>4 DEF Result, Answer
    <3> QED
      BY <2>2, <3>1 DEF Promise!Next, Promise!Begin, Result
  <2>5. CASE call[c].phase \in {"posting", "sleeping"} /\ k.phase \in {"posting", "sleeping"}
    <3>1. Answer(k) = Answer(call[c])
      BY <2>5 DEF Answer
    <3>2. Result' = Result
      BY <2>2, <3>1 DEF Result
    <3> QED
      BY <3>2
  <2>6. CASE call[c].phase = "posting" /\ k.phase = "done"
    <3>1. Result[c] = "pending" /\ Answer(k) = k.outcome
      BY <2>6 DEF Result, Answer
    <3>2. k.outcome \in Promise!Outcomes
      BY <2>3, <2>6, CallFields DEF Ended, Promise!Outcomes, Promise!DomainErrors, DomainErrors
    <3> QED
      BY <2>2, <3>1, <3>2 DEF Promise!Next, Promise!End, Result
  <2> QED
    BY <1>2, <2>4, <2>5, <2>6 DEF Moves
<1> QED
  BY <1>1, <1>2, StepMoves

(***************************************************************************)
(* The retry loop implements the promise of LlmCall: a call goes from none *)
(* to pending to one outcome and stays there, and the outcome is an answer *)
(* or one of the five errors (the safety half of ImplementsLlmCall).       *)
(***************************************************************************)
THEOREM KeepsPromise == Spec => Promise!Safety
<1>1. Init => Promise!Init
  BY DEF Init, Promise!Init, Answer
<1>2. IInv /\ IInv' /\ [Next \/ AllDone]_vars => [Promise!Next]_Result
  BY StepKeepsPromise
<1> QED
  BY <1>1, <1>2, Inductive, PTL DEF Spec, Promise!Safety, Result

=============================================================================
