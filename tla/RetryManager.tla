----------------------------- MODULE RetryManager -----------------------------
(***************************************************************************)
(* What withRetry (src/src/core/retry-manager.ts) reads off an error and   *)
(* how long it waits: the status, the Retry-After headers and the computed *)
(* backoff.  The loop itself is in Attempts.                               *)
(*                                                                         *)
(* An error is the chain of its causes, outermost first.  Each layer may   *)
(* carry a status (status or statusCode) and headers (headers or           *)
(* response.headers).                                                      *)
(***************************************************************************)
EXTENDS Integers, SequencesExt

CONSTANTS
  Undefined,
  SECOND,           \* in units of the clock
  MAX_TIMER,        \* the longest delay of setTimeout, 2^31 - 1 ms
  maxAttempts,
  strategy,         \* backoff: "exponential", "linear" or "fixed"
  baseDelay, maxDelay, jitter,
  parseRetryAfter,
  retryOn           \* the statuses worth another attempt

ASSUME RetryAssumption ==
  /\ Undefined \notin Int
  /\ SECOND \in Nat \ {0} /\ MAX_TIMER \in Nat \ {0}
  /\ maxAttempts \in Nat \ {0}
  /\ strategy \in {"exponential", "linear", "fixed"}
  /\ baseDelay \in Nat /\ maxDelay \in Nat
  /\ jitter \in BOOLEAN /\ parseRetryAfter \in BOOLEAN
  /\ retryOn \subseteq Nat

Optional(S) == S \cup {Undefined}

\* A header: a duration ("6m0s", any hours before it dropped), digits, a date or
\* other text.
HeaderValue ==
  [kind : {"duration"}, minutes : Optional(Nat), seconds : Optional(Nat), ms : Optional(Nat)]
    \cup [kind : {"digits"}, number : Nat]
    \cup [kind : {"date"}, time : Int]
    \cup [kind : {"text"}]

\* retry-after, Retry-After and x-ratelimit-reset-requests.  An object of another kind
\* (a Headers instance) has none of them.
Headers == [lower : Optional(HeaderValue), capital : Optional(HeaderValue),
            reset : Optional(HeaderValue)]

Layer == [status : Optional(Nat), headers : Optional(Headers)]

NoHeaders == [lower |-> Undefined, capital |-> Undefined, reset |-> Undefined]

-----------------------------------------------------------------------------
(* Reading an error. *)

\* The layers that have a field, and the field of the outermost of them.
Having(error, field) == {i \in DOMAIN error : error[i][field] # Undefined}

Outermost(error, field) ==
  LET layers == Having(error, field)
  IN  IF layers = {} THEN Undefined ELSE error[Min(layers)][field]

ExtractStatus(error) == Outermost(error, "status")

ExtractHeaders(error) == Outermost(error, "headers")

First(value, otherwise) == IF value # Undefined THEN value ELSE otherwise

\* The milliseconds of a duration, Undefined when no part of it is recognised.
ParseDuration(value) ==
  LET part(x, unit) == First(x, 0) * unit
  IN  IF value.kind # "duration" \/ {value.minutes, value.seconds, value.ms} = {Undefined}
      THEN Undefined
      ELSE part(value.minutes, 60 * SECOND) + part(value.seconds, SECOND) + part(value.ms, 1)

\* "0" is no number of seconds to the code; as a date it lies in the past.
ParseValue(value, now) ==
  CASE ParseDuration(value) # Undefined -> ParseDuration(value)
    [] value.kind = "digits" -> value.number * SECOND
    [] value.kind = "date" -> IF value.time > now THEN value.time - now ELSE 0
    [] OTHER -> Undefined

\* extractRetryAfterMs: the wait the provider asks for, of the first header present
\* in the outermost headers, even if an inner error has a better one.
RetryAfterMs(error, now) ==
  LET headers == First(ExtractHeaders(error), NoHeaders)
      value == First(headers.lower, First(headers.capital, headers.reset))
  IN  IF value = Undefined THEN Undefined ELSE ParseValue(value, now)

-----------------------------------------------------------------------------
(* What withRetry makes of it. *)

\* Errors without a status are taken for errors of the network, an abort too.
Retryable(error) == ExtractStatus(error) \in Optional(retryOn)

\* The wait an attempt that failed is told, when the configuration reads it.
ToldMs(error, now) == IF parseRetryAfter THEN RetryAfterMs(error, now) ELSE Undefined

NoStatus == [status |-> Undefined, headers |-> Undefined]

ExhaustedBare(error) == <<NoStatus>>   \* mutant: no cause

\* RetryExhaustedError around the last error.
Exhausted(error) == <<NoStatus>> \o error

Within(x, low, high) == IF x < low THEN low ELSE IF x > high THEN high ELSE x

\* The delays calculateBackoffMs may compute after the n-th attempt; the jitter is
\* +/- 30 % in whole units of the clock, before the cap.
BackoffMs(n) ==
  LET delay == CASE strategy = "exponential" -> baseDelay * 2 ^ (n - 1)
                 [] strategy = "linear" -> baseDelay * n
                 [] strategy = "fixed" -> baseDelay
      spread == IF jitter THEN (7 * delay) \div 10 .. (13 * delay) \div 10 ELSE {delay}
  IN  {Within(d, 0, maxDelay) : d \in spread}

\* The delays a failed attempt may be given.
DelaysCapped(error, n, now) ==   \* mutant: maxDelay caps what the provider asks for
  IF ToldMs(error, now) # Undefined THEN {Within(ToldMs(error, now), 0, maxDelay)}
  ELSE BackoffMs(n)

Delays(error, n, now) ==
  IF ToldMs(error, now) # Undefined THEN {ToldMs(error, now)} ELSE BackoffMs(n)

\* How long sleep takes: Node fires a timer beyond the longest delay at once.
SleepMs(delay) == IF delay \in 1 .. MAX_TIMER THEN delay ELSE 1
=============================================================================
