------------------------------- MODULE Attempts -------------------------------
(***************************************************************************)
(* The calls of Pipeline.execute (src/src/core/pipeline.ts) for one model  *)
(* key and what they share while the provider fails: the circuit breaker,  *)
(* the backoff of the key, the slots that sleeping retries hold on to, and *)
(* the events, with withRetry (src/src/core/retry-manager.ts) in between.  *)
(*                                                                         *)
(* The store is in memory, without the windows: besides the backoff, other *)
(* limits may refuse a slot at any time.  The places in the queue and the  *)
(* order of drains are in RateLimitEngine.  What a call does between two   *)
(* awaits is one step.  A client blocked by the circuit is answered by the *)
(* HTTP middleware (src/src/middleware.ts); the circuit's events drive an  *)
(* alert, and its metrics are those of the exporters.                      *)
(***************************************************************************)
EXTENDS CircuitBreaker, RetryManager

CONSTANTS
  Error,          \* how attempts may fail: sequences of Layer
  tripOn,         \* the statuses that count for the breaker
  maxConcurrent, maxQueueSize,
  queueTimeout

ASSUME AttemptsAssumption ==
  /\ Error \subseteq Seq(Layer) /\ tripOn \subseteq Nat
  /\ maxConcurrent \in Nat \ {0} /\ maxQueueSize \in Nat /\ queueTimeout \in Nat

VARIABLES
  call,          \* each call: where it is, its attempt, until when it waits
  parked,        \* the calls that wait for one of the maxConcurrent slots, in order
  backoff,       \* the store: backoffUntil of the key
  aborted,       \* the calls whose signal has fired
  alert,         \* an observer: the circuit is open, by circuitOpen and circuitClosed
  metrics,       \* an observer: what Prometheus, StatsD and OpenTelemetry count
  told,          \* history: when each call was last told to come back, 0 if it was not
  heard,         \* history: the latest time any call was told
  lastStatus,    \* history: the status a call was given up on
  probing,       \* history: the calls let through while the circuit was half open
  refusal        \* history: of a call blocked by the circuit, when it opened and when
                 \* the client was told to come back

callVars == <<call, parked, aborted>>
observerVars == <<alert, metrics>>
historyVars == <<told, heard, lastStatus, probing, refusal>>
attemptsVars == <<vars, callVars, backoff, observerVars, historyVars>>

\* Where a call is (onFull is 'throw').  Behind its check of the circuit it awaits a slot: the store has
\* "granted" or "refused" one, it is "waiting" for a drain, "parked", "woken" by a
\* release, or acquire has "rejected" it.
Acquiring == {"granted", "refused", "waiting", "parked", "woken", "rejected"}
Busy == {"calling", "sleeping"}          \* it holds a slot
Dropped == {"circuit-open", "queue-full", "queue-timeout"}
Ended == {"completed", "failed", "exhausted", "aborted"} \cup Dropped

At(pc, attempt, time) == [pc |-> pc, attempt |-> attempt, time |-> time, why |-> "none"]
IsAt(c, pc) == call[c].pc = pc
Holding == {c \in Call : call[c].pc \in Busy}
Waiting == {c \in Call : IsAt(c, "waiting")}

Go(c, to) == call' = [call EXCEPT ![c] = to]

\* The end of a call keeps its number of attempts.
GoEnd(c, outcome) == Go(c, At(outcome, call[c].attempt, 0))

CallsInit ==
  /\ Init
  /\ call = [c \in Call |-> At("idle", 0, 0)]
  /\ parked = <<>>
  /\ backoff = 0
  /\ aborted = {}
  /\ alert = FALSE
  /\ metrics = [completed |-> 0, dropped |-> 0, retrying |-> 0]
  /\ told = [c \in Call |-> 0] /\ heard = 0
  /\ lastStatus = [c \in Call |-> Undefined]
  /\ probing = {}
  /\ refusal = [c \in Call |-> [opened |-> 0, returnAt |-> 0]]

-----------------------------------------------------------------------------
(* Events.  Every handler runs in the step that emits, and its errors are swallowed. *)

Count(event) == metrics' = [metrics EXCEPT ![event] = @ + 1]

\* recordSuccess and recordFailure return whether to tell.  A failed probe opens the
\* circuit again silently.
ClosesFromHalfOpen == state = "HALF_OPEN"   \* mutant

JustClosed == state # "CLOSED"

JustOpened == state = "CLOSED" /\ failures + 1 >= threshold

-----------------------------------------------------------------------------
(* From execute to the slot. *)

\* mapErrorToResponse of a CircuitOpenError: whole seconds.
RetryAfterFloor == (openedAt + cooldown - now) \div SECOND   \* mutant

RetryAfter == (openedAt + cooldown - now + SECOND - 1) \div SECOND

\* The circuit is open.  The error reaches the HTTP client at once.
Blocked(c) ==
  /\ IsAt(c, "idle") /\ Blocks
  /\ Go(c, At("circuit-open", 0, 0))
  /\ refusal' = [refusal EXCEPT ![c] = [opened |-> openedAt, returnAt |-> now + RetryAfter * SECOND]]
  /\ Count("dropped")
  /\ UNCHANGED <<vars, parked, backoff, aborted, alert, told, heard, lastStatus, probing>>

\* checkAndRecord: the backoff refuses, and so may another limit.
StoreAnswers(c) ==
  \/ backoff <= now /\ Go(c, At("granted", 0, 0))
  \/ Go(c, At("refused", 0, 0))

\* acquire rejects; the catch of execute hears of it later.
Reject(c, why) == Go(c, [At("rejected", 0, 0) EXCEPT !.why = why])

\* The circuit lets the call through, and it asks the store, in one turn.
Execute(c) ==
  /\ IsAt(c, "idle")
  /\ Check(c)
  /\ IF c \in aborted THEN Reject(c, "aborted") ELSE StoreAnswers(c)
  /\ probing' = IF state' = "HALF_OPEN" THEN probing \cup {c} ELSE probing
  /\ UNCHANGED <<parked, backoff, aborted, observerVars, told, heard, lastStatus, refusal>>

\* Refused: wait in the queue unless it is full.
Enqueue(c) ==
  /\ IsAt(c, "refused")
  /\ \/ /\ Cardinality(Waiting) < maxQueueSize
        /\ Go(c, At("waiting", 0, now + queueTimeout))
     \/ /\ Cardinality(Waiting) >= maxQueueSize
        /\ Reject(c, "queue-full")
  /\ UNCHANGED <<vars, parked, backoff, aborted, observerVars, historyVars>>

\* A drain: the store grants a waiting call its slot.
Grant(c) ==
  /\ IsAt(c, "waiting") /\ backoff <= now
  /\ Go(c, At("granted", 0, 0))
  /\ UNCHANGED <<vars, parked, backoff, aborted, observerVars, historyVars>>

QueueTimeout(c) ==
  /\ IsAt(c, "waiting") /\ now >= call[c].time
  /\ Reject(c, "queue-timeout")
  /\ UNCHANGED <<vars, parked, backoff, aborted, observerVars, historyVars>>

\* fn() is called for the n-th time.
Attempt(c, n) == Go(c, At("calling", n, 0))

\* The rest of acquire: start, or park if maxConcurrent calls are under way.  The
\* backoff and the circuit are not looked at again.
TakeSlot(c) ==
  LET busy == Cardinality(Holding) >= maxConcurrent
  IN  /\ IsAt(c, "granted")
      /\ \/ ~busy /\ Attempt(c, 1) /\ UNCHANGED parked
         \/ busy /\ c \in aborted /\ Reject(c, "aborted") /\ UNCHANGED parked
         \/ busy /\ c \notin aborted /\ Go(c, At("parked", 0, 0)) /\ parked' = Append(parked, c)
      /\ UNCHANGED <<vars, backoff, aborted, observerVars, historyVars>>

Resume(c) ==
  /\ IsAt(c, "woken")
  /\ Attempt(c, 1)
  /\ UNCHANGED <<vars, parked, backoff, aborted, observerVars, historyVars>>

\* A signal fires.  In the queue or parked it is listened to; a call under way or
\* asleep goes on, and withRetry never asks.
Abort(c) ==
  /\ c \notin aborted /\ call[c].pc \notin Ended
  /\ aborted' = aborted \cup {c}
  /\ IF call[c].pc \in {"waiting", "parked"} THEN Reject(c, "aborted") ELSE UNCHANGED call
  /\ parked' = RemoveFirst(parked, c)
  /\ UNCHANGED <<vars, backoff, observerVars, historyVars>>

CountThrownButFull(c) ==   \* mutant: a full queue is not reported
  IF call[c].why \in Dropped \ {"queue-full"} THEN Count("dropped") ELSE UNCHANGED metrics

CountThrown(c) ==
  IF call[c].why \in Dropped THEN Count("dropped") ELSE UNCHANGED metrics

\* The catch around acquire, which reports drops and tells the breaker nothing.
Thrown(c) ==
  /\ IsAt(c, "rejected")
  /\ EndUnrecorded(c, "notRun")
  /\ GoEnd(c, call[c].why)
  /\ CountThrown(c)
  /\ probing' = probing \ {c}
  /\ UNCHANGED <<parked, backoff, aborted, alert, told, heard, lastStatus, refusal>>

-----------------------------------------------------------------------------
(* Attempts. *)

\* release: the first parked call is woken.  The call that ends goes to 'end'.
ReleaseTo(c, end) ==
  /\ call' = [d \in Call |-> IF d = c THEN end
                             ELSE IF parked # <<>> /\ d = Head(parked) THEN At("woken", 0, 0)
                             ELSE call[d]]
  /\ parked' = IF parked = <<>> THEN parked ELSE Tail(parked)

\* The provider answers.  recordUsage, which the caller runs behind its await, is here.
Answer(c) ==
  /\ IsAt(c, "calling")
  /\ Succeed(c)
  /\ ReleaseTo(c, At("completed", call[c].attempt, 0))
  /\ alert' = IF JustClosed THEN FALSE ELSE alert
  /\ Count("completed")
  /\ told' = [told EXCEPT ![c] = 0] /\ probing' = probing \ {c}
  /\ UNCHANGED <<backoff, aborted, heard, lastStatus, refusal>>

\* What the breaker makes of the error a call ends with.
OutcomeOf(c, error) ==
  LET status == ExtractStatus(error)
  IN  IF status = Undefined THEN IF c \in aborted THEN "aborted" ELSE "network"
      ELSE IF status \in tripOn THEN "tripOn" ELSE "otherStatus"

LastAttempt(c) == call[c].attempt = maxAttempts

\* An attempt fails for good: not worth another, or the last.  What is thrown is the
\* error itself, or a RetryExhaustedError with it as its cause.
GiveUp(c, error) ==
  LET fatal == ~Retryable(error)
      outcome == OutcomeOf(c, IF fatal THEN error ELSE Exhausted(error))
  IN  /\ IsAt(c, "calling")
      /\ fatal \/ LastAttempt(c)
      /\ Fail(c, outcome) \/ EndUnrecorded(c, outcome)
      /\ ReleaseTo(c, At(IF fatal THEN "failed" ELSE "exhausted", call[c].attempt, 0))
      /\ alert' = IF ShouldTrip(outcome) /\ JustOpened THEN TRUE ELSE alert
      /\ lastStatus' = [lastStatus EXCEPT ![c] = ExtractStatus(error)]
      /\ told' = [told EXCEPT ![c] = 0] /\ probing' = probing \ {c}
      /\ UNCHANGED <<backoff, aborted, metrics, heard, refusal>>

SetBackoffOverwriting(until) == backoff' = until   \* mutant

SetBackoff(until) == backoff' = IF until > backoff THEN until ELSE backoff

\* An attempt fails and is worth another: sleep, slot in hand.  A wait the provider
\* asks for holds back the whole key.  (A wait no timer can keep is told to nobody.)
Sleep(c, error) ==
  LET ms == ToldMs(error, now)
      kept == ms # Undefined /\ ms <= MAX_TIMER
  IN  /\ IsAt(c, "calling")
      /\ Retryable(error) /\ ~LastAttempt(c)
      /\ \E delay \in Delays(error, call[c].attempt, now) :
           Go(c, At("sleeping", call[c].attempt, now + SleepMs(delay)))
      /\ IF ms = Undefined THEN UNCHANGED <<backoff, heard>>
         ELSE /\ SetBackoff(now + ms)
              /\ heard' = IF now + ms > heard THEN now + ms ELSE heard
      /\ told' = [told EXCEPT ![c] = IF kept THEN now + ms ELSE 0]
      /\ Count("retrying")
      /\ UNCHANGED <<vars, parked, aborted, alert, lastStatus, probing, refusal>>

\* The sleep is over.  Neither the engine nor the breaker is asked.
Retry(c) ==
  /\ IsAt(c, "sleeping") /\ now >= call[c].time
  /\ Attempt(c, call[c].attempt + 1)
  /\ UNCHANGED <<vars, parked, backoff, aborted, observerVars, historyVars>>

TickCalls == Tick /\ UNCHANGED <<callVars, backoff, observerVars, historyVars>>

\* What happens in the turn after another step.
Microtask(c) == Enqueue(c) \/ TakeSlot(c) \/ Resume(c) \/ Thrown(c)

CallStep(c) ==
  \/ Blocked(c) \/ Execute(c) \/ Microtask(c)
  \/ Grant(c) \/ QueueTimeout(c) \/ Abort(c)
  \/ Answer(c) \/ Retry(c)
  \/ \E error \in Error : GiveUp(c, error) \/ Sleep(c, error)

CallsNext == (\E c \in Call : CallStep(c)) \/ TickCalls

CallsSpec == CallsInit /\ [][CallsNext]_attemptsVars
-----------------------------------------------------------------------------
(* Properties. *)

CallRecord ==
  [pc : {"idle"} \cup Acquiring \cup Busy \cup Ended, attempt : Nat, time : Nat,
   why : {"none", "aborted", "queue-full", "queue-timeout"}]

\* Types, and who is under way for the breaker.
CallsTypeOK ==
  /\ TypeOK
  /\ call \in [Call -> CallRecord]
  /\ inFlight = {c \in Call : call[c].pc \in Acquiring \cup Busy}
  /\ parked \in Seq(Call) /\ aborted \subseteq Call
  /\ backoff \in Nat /\ heard \in Nat
  /\ alert \in BOOLEAN
  /\ told \in [Call -> Nat]
  /\ lastStatus \in [Call -> Optional(Nat)]
  /\ probing \subseteq inFlight
  /\ refusal \in [Call -> [opened : Nat, returnAt : Int]]

\* No call is made again before the wait its provider asked for is over, whatever the
\* configured maximum and whatever the other calls of the key are told.
WaitsAsTold ==
  [][\A c \in Call : IsAt(c, "sleeping") /\ IsAt(c, "calling")' => now >= told[c]]_attemptsVars

\* While a wait that any call was told is in force, no slot is granted: neither to
\* newcomers nor to the queue, and no shorter wait told later ends it.
NewcomersPause ==
  [][\A c \in Call : ~IsAt(c, "granted") /\ IsAt(c, "granted")' => now >= heard]_attemptsVars

\* An answer with a status that does not count (a 429, a 4xx) leaves the breaker alone,
\* also when it is the last of several attempts and comes wrapped as their failure.
RateLimitsDoNotTrip ==
  [][\A c \in Call :
       IsAt(c, "calling") /\ call'[c].pc \in {"failed", "exhausted"}
         /\ lastStatus'[c] \notin Optional(tripOn) => UNCHANGED breakerVars]_attemptsVars

\* circuitOpen and circuitClosed tell an observer whether the circuit is closed, though
\* a failed probe opens it without an event and a late answer closes it early.
EventsTellCircuit == alert <=> state # "CLOSED"

\* A client that comes back after the retryAfter it was given is not blocked by the
\* same opening of the circuit.
RetryAfterSuffices ==
  \A c \in Call :
    IsAt(c, "circuit-open") /\ openedAt = refusal[c].opened /\ now >= refusal[c].returnAt
      => ~Blocks

\* The last attempt of a call that was made or announced.
Announced(c) == call[c].attempt + (IF IsAt(c, "sleeping") THEN 1 ELSE 0)

\* The exporters miss no call and count none twice: a call is completed, dropped, or
\* one of those that nothing is emitted for (failed, exhausted, aborted); and every
\* attempt but the first was announced.
MetricsAgree ==
  /\ metrics.completed = Cardinality({c \in Call : IsAt(c, "completed")})
  /\ metrics.dropped = Cardinality({c \in Call : call[c].pc \in Dropped})
  /\ metrics.retrying =
       Cardinality({p \in Call \X (2 .. maxAttempts) : p[2] <= Announced(p[1])})

-----------------------------------------------------------------------------
(* What the documentation says and the code does not do. *)

\* "the backoff is applied to the entire model key (...) All requests queued behind it
\* pause": no call that waits for one of maxConcurrent slots is let go while a wait
\* told to any call of the key is in force.
KeyPauses ==
  [][\A c \in Call : IsAt(c, "parked") /\ IsAt(c, "woken")' => now >= heard]_attemptsVars

\* "one probe request is allowed": no two calls that were let through half open are
\* under way while it still is.
SingleProbe == state = "HALF_OPEN" => Cardinality(probing) <= 1
=============================================================================
