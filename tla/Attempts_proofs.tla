---------------------------- MODULE Attempts_proofs ----------------------------
(***************************************************************************)
(* Proofs about CircuitBreaker and about Attempts, whose calls drive it,   *)
(* for any number of calls, any errors and any configuration.              *)
(*                                                                         *)
(* The breaker: calls are blocked exactly during a cooldown, and only      *)
(* failures in a row open the circuit.  The invariant ties what it stores  *)
(* to the history: openedAt is the time of the last opening for as long as *)
(* it matters, the count of failures is at most the streak, and the        *)
(* circuit is half open only after the cooldown.                           *)
(*                                                                         *)
(* The calls: they drive the breaker as CircuitBreaker says, so that what  *)
(* is proved of it holds of them; waits told by the provider are kept,     *)
(* also by newcomers; statuses that do not count leave the breaker alone;  *)
(* and the events, the metrics and the told retryAfter are right.          *)
(***************************************************************************)
EXTENDS Attempts, SequenceTheorems, FiniteSetTheorems, WellFoundedInduction, TLAPS

-----------------------------------------------------------------------------
(* The breaker. *)

\* State and history agree.
Agrees ==
  /\ state = "CLOSED" => lastOpened = 0 /\ failures <= streak
  /\ state # "CLOSED" => lastOpened = openedAt /\ lastOpened # 0
  /\ state = "HALF_OPEN" => now >= openedAt + cooldown

IInv == TypeOK /\ Agrees

LEMMA InitIInv == Init => IInv
BY BreakerAssumption DEF Init, IInv, TypeOK, Agrees

LEMMA CheckKeepsIInv == ASSUME IInv, NEW c \in Call, Check(c) PROVE IInv'
<1>1. TypeOK'
  BY DEF Check, IInv, TypeOK
<1>2. Agrees'
  BY BreakerAssumption DEF Check, Blocks, IInv, TypeOK, Agrees
<1> QED
  BY <1>1, <1>2 DEF IInv

LEMMA SucceedKeepsIInv == ASSUME IInv, NEW c \in Call, Succeed(c) PROVE IInv'
<1>1. TypeOK'
  BY BreakerAssumption DEF Succeed, recordSuccess, IInv, TypeOK
<1>2. Agrees'
  BY DEF Succeed, recordSuccess, IInv, TypeOK, Agrees
<1> QED
  BY <1>1, <1>2 DEF IInv

LEMMA FailKeepsIInv ==
  ASSUME IInv, NEW c \in Call, NEW outcome \in Outcome, Fail(c, outcome)
  PROVE  IInv'
<1>1. TypeOK'
  BY BreakerAssumption DEF Fail, recordFailure, breakerVars, IInv, TypeOK
<1>2. Agrees'
  BY BreakerAssumption DEF Fail, recordFailure, breakerVars, IInv, TypeOK, Agrees
<1> QED
  BY <1>1, <1>2 DEF IInv

LEMMA NextKeepsIInv == IInv /\ [Next]_vars => IInv'
<1> SUFFICES ASSUME IInv, [Next]_vars PROVE IInv'
  OBVIOUS
<1>1. ASSUME NEW c \in Call, NEW outcome \in Outcome, EndUnrecorded(c, outcome) PROVE IInv'
  BY <1>1 DEF EndUnrecorded, breakerVars, IInv, TypeOK, Agrees
<1>2. CASE Tick
  BY <1>2, BreakerAssumption DEF Tick, breakerVars, IInv, TypeOK, Agrees
<1>3. CASE UNCHANGED vars
  BY <1>3 DEF vars, breakerVars, IInv, TypeOK, Agrees
<1> QED
  BY <1>1, <1>2, <1>3, CheckKeepsIInv, SucceedKeepsIInv, FailKeepsIInv DEF Next, BreakerNext

LEMMA SpecIInv == Spec => []IInv
BY InitIInv, NextKeepsIInv, PTL DEF Spec

-----------------------------------------------------------------------------
\* Types, and the count of failures stays below the threshold.
THEOREM BreakerTypeCorrect == Spec => []TypeOK
<1>1. IInv => TypeOK
  BY DEF IInv
<1> QED
  BY <1>1, SpecIInv, PTL

\* However results interleave, calls are blocked exactly for one cooldown after the
\* circuit last opened.
THEOREM BreakerBlocksExactlyDuringCooldown == Spec => []BlocksExactlyDuringCooldown
<1>1. IInv => BlocksExactlyDuringCooldown
  BY BreakerAssumption DEF IInv, TypeOK, Agrees, BlocksExactlyDuringCooldown, Blocks
<1> QED
  BY <1>1, SpecIInv, PTL

\* Only 'threshold' failures without a success between them open the circuit.
THEOREM BreakerOpensOnlyOnStreak == Spec => OpensOnlyOnStreak
<1>1. IInv /\ [Next]_vars =>
        [state = "CLOSED" /\ state' = "OPEN" => streak' >= threshold]_vars
  <2> SUFFICES ASSUME IInv, Next, state = "CLOSED", state' = "OPEN"
               PROVE  streak' >= threshold
    BY DEF vars
  <2>1. PICK c \in Call, outcome \in Outcome : Fail(c, outcome)
    BY DEF Next, BreakerNext, Check, Succeed, recordSuccess, EndUnrecorded, Tick, breakerVars
  <2>2. failures + 1 >= threshold /\ failures <= streak
    BY <2>1 DEF Fail, recordFailure, breakerVars, IInv, Agrees
  <2>3. streak' = IF streak < threshold THEN streak + 1 ELSE streak
    BY <2>1 DEF Fail
  <2> QED
    BY <2>2, <2>3, BreakerAssumption DEF IInv, TypeOK
<1> QED
  BY <1>1, SpecIInv, PTL DEF Spec, OpensOnlyOnStreak

-----------------------------------------------------------------------------
(* Every step of the calls is a step of the breaker, or none. *)

LEMMA StepOfBreaker == CallsNext => [Next]_vars
<1> SUFFICES ASSUME CallsNext PROVE [Next]_vars
  OBVIOUS
<1>1. CASE TickCalls
  BY <1>1 DEF TickCalls, Next
<1>2. ASSUME NEW c \in Call, CallStep(c) PROVE [Next]_vars
  <2>1. CASE Execute(c)
    BY <2>1 DEF Execute, Next, BreakerNext
  <2>2. CASE Answer(c)
    BY <2>2 DEF Answer, Next, BreakerNext
  <2>3. CASE Thrown(c)
    BY <2>3 DEF Thrown, Next, BreakerNext, Outcome
  <2>4. ASSUME NEW error \in Error, GiveUp(c, error) PROVE Next
    <3>1. PICK e : Fail(c, OutcomeOf(c, e)) \/ EndUnrecorded(c, OutcomeOf(c, e))
      BY <2>4 DEF GiveUp
    <3>2. OutcomeOf(c, e) \in Outcome
      BY DEF OutcomeOf, Outcome
    <3> QED
      BY <3>1, <3>2 DEF Next, BreakerNext
  <2>5. CASE Blocked(c) \/ Enqueue(c) \/ TakeSlot(c) \/ Resume(c) \/ Grant(c) \/ QueueTimeout(c)
               \/ Abort(c) \/ Retry(c)
    BY <2>5 DEF Blocked, Enqueue, TakeSlot, Resume, Grant, QueueTimeout, Abort, Retry
  <2>6. ASSUME NEW error \in Error, Sleep(c, error) PROVE UNCHANGED vars
    BY <2>6 DEF Sleep
  <2> QED
    BY <1>2, <2>1, <2>2, <2>3, <2>4, <2>5, <2>6 DEF CallStep, Microtask
<1> QED
  BY <1>1, <1>2 DEF CallsNext

\* The calls of execute drive the breaker as CircuitBreaker says: each reports once,
\* when it ends, whatever its queue wait, its attempts and its abort.
THEOREM CallsImplementBreaker == CallsSpec => Spec
<1>1. CallsInit => Init
  BY DEF CallsInit
<1>2. [CallsNext]_attemptsVars => [Next]_vars
  BY StepOfBreaker DEF attemptsVars
<1> QED
  BY <1>1, <1>2, PTL DEF CallsSpec, Spec

THEOREM CallsBlockExactlyDuringCooldown == CallsSpec => []BlocksExactlyDuringCooldown
BY CallsImplementBreaker, BreakerBlocksExactlyDuringCooldown, PTL

THEOREM CallsOpenOnlyOnStreak == CallsSpec => OpensOnlyOnStreak
BY CallsImplementBreaker, BreakerOpensOnlyOnStreak, PTL

LEMMA CallsIInv == CallsSpec => []IInv
BY CallsImplementBreaker, SpecIInv, PTL

-----------------------------------------------------------------------------
(* The events of the circuit. *)

LEMMA EventsKept == IInv /\ EventsTellCircuit /\ [CallsNext]_attemptsVars => EventsTellCircuit'
<1> SUFFICES ASSUME IInv, EventsTellCircuit, [CallsNext]_attemptsVars
             PROVE  EventsTellCircuit'
  OBVIOUS
<1>1. CASE UNCHANGED <<alert, state>>
  BY <1>1 DEF EventsTellCircuit
<1>2. ASSUME NEW c \in Call, Execute(c) PROVE EventsTellCircuit'
  BY <1>2 DEF Execute, Check, observerVars, EventsTellCircuit
<1>3. ASSUME NEW c \in Call, Answer(c) PROVE EventsTellCircuit'
  BY <1>3 DEF Answer, Succeed, recordSuccess, JustClosed, EventsTellCircuit
<1>4. ASSUME NEW c \in Call, NEW error \in Error, GiveUp(c, error) PROVE EventsTellCircuit'
  <2>1. PICK outcome : /\ Fail(c, outcome) \/ EndUnrecorded(c, outcome)
                       /\ alert' = IF ShouldTrip(outcome) /\ JustOpened THEN TRUE ELSE alert
    BY <1>4 DEF GiveUp
  <2>2. CASE Fail(c, outcome)
    <3>1. ShouldTrip(outcome)
      BY <2>2 DEF Fail
    <3> QED
      BY <2>1, <2>2, <3>1, BreakerAssumption
         DEF Fail, recordFailure, JustOpened, breakerVars, EventsTellCircuit, IInv, TypeOK
  <2>3. CASE EndUnrecorded(c, outcome)
    BY <2>1, <2>3 DEF EndUnrecorded, breakerVars, EventsTellCircuit
  <2> QED
    BY <2>1, <2>2, <2>3
<1>5. ASSUME NEW c \in Call, Thrown(c) PROVE UNCHANGED <<alert, state>>
  BY <1>5 DEF Thrown, EndUnrecorded, breakerVars
<1>6. ASSUME NEW c \in Call,
             Blocked(c) \/ Enqueue(c) \/ TakeSlot(c) \/ Resume(c) \/ Grant(c) \/ QueueTimeout(c)
               \/ Abort(c) \/ Retry(c) \/ \E error \in Error : Sleep(c, error)
      PROVE  UNCHANGED <<alert, state>>
  BY <1>6 DEF Blocked, Enqueue, TakeSlot, Resume, Grant, QueueTimeout, Abort, Retry, Sleep,
              vars, breakerVars, observerVars
<1>7. TickCalls \/ UNCHANGED attemptsVars => UNCHANGED <<alert, state>>
  BY DEF TickCalls, Tick, attemptsVars, vars, breakerVars, observerVars
<1> QED
  BY <1>1, <1>2, <1>3, <1>4, <1>5, <1>6, <1>7 DEF CallsNext, CallStep, Microtask

\* circuitOpen and circuitClosed tell whether the circuit is closed.
THEOREM CallsEventsTellCircuit == CallsSpec => []EventsTellCircuit
<1>1. CallsInit => EventsTellCircuit
  BY DEF CallsInit, Init, EventsTellCircuit
<1> QED
  BY <1>1, EventsKept, CallsIInv, PTL DEF CallsSpec

-----------------------------------------------------------------------------
(* Reading an error. *)

NatLess == {p \in Nat \X Nat : p[1] < p[2]}

LEMMA LeastLayer ==
  ASSUME NEW S \in SUBSET Nat, S # {}
  PROVE  Min(S) \in S /\ \A j \in S : Min(S) <= j
<1>1. IsWellFoundedOn(NatLess, Nat)
  BY NatLessThanWellFounded DEF OpToRel, NatLess
<1>2. PICK x \in S : \A y \in S : ~ (<<y, x>> \in NatLess)
  BY <1>1, WFMin
<1>3. ASSUME NEW y \in S PROVE x <= y
  <2>1. <<y, x>> \in Nat \X Nat /\ ~ (<<y, x>>[1] < <<y, x>>[2])
    BY <1>2 DEF NatLess
  <2> QED
    BY <2>1
<1> QED
  BY <1>3 DEF Min

LEMMA OutermostFinds ==
  ASSUME NEW error \in Seq(Layer), NEW field, Having(error, field) # {}
  PROVE  \E i \in Having(error, field) :
           Outermost(error, field) = error[i][field] /\ \A j \in Having(error, field) : i <= j
<1> DEFINE S == Having(error, field)
<1>1. S \subseteq DOMAIN error /\ DOMAIN error \subseteq Nat
  BY LenProperties DEF Having
<1>2. Min(S) \in S /\ \A j \in S : Min(S) <= j
  BY <1>1, LeastLayer, Zenon
<1> QED
  BY <1>2 DEF Outermost

\* The status of a RetryExhaustedError is the status of its cause.
LEMMA ExhaustedKeepsStatus ==
  ASSUME NEW error \in Seq(Layer)
  PROVE  ExtractStatus(Exhausted(error)) = ExtractStatus(error)
<1> DEFINE S == Having(error, "status")
           T == Having(Exhausted(error), "status")
<1>0. NoStatus \in Layer
  BY DEF NoStatus, Layer, Optional
<1>1. /\ Exhausted(error) \in Seq(Layer) /\ Len(Exhausted(error)) = Len(error) + 1
      /\ \A i \in 1 .. Len(error) + 1 :
           Exhausted(error)[i] = IF i = 1 THEN NoStatus ELSE error[i - 1]
  <2>1. <<NoStatus>> \in Seq(Layer) /\ Len(<<NoStatus>>) = 1
    BY <1>0
  <2>2. Exhausted(error) = <<NoStatus>> \o error
    BY DEF Exhausted
  <2> QED
    BY <2>1, <2>2, ConcatProperties, LenProperties
<1>2. ASSUME NEW i \in S PROVE i + 1 \in T /\ Exhausted(error)[i + 1] = error[i]
  BY <1>1, LenProperties DEF Having
<1>3. ASSUME NEW j \in T PROVE j - 1 \in S
  BY <1>1, LenProperties DEF Having, NoStatus
<1>4. CASE S = {}
  <2>1. T = {}
    BY <1>3, <1>4
  <2> QED
    BY <1>4, <2>1 DEF ExtractStatus, Outermost
<1>5. CASE S # {}
  <2>1. PICK m \in S : /\ Outermost(error, "status") = error[m]["status"]
                       /\ \A j \in S : m <= j
    BY <1>5, OutermostFinds
  <2>2. T # {}
    BY <1>2, <1>5
  <2>3. PICK n \in T : /\ Outermost(Exhausted(error), "status") = Exhausted(error)[n]["status"]
                       /\ \A j \in T : n <= j
    BY <1>1, <2>2, OutermostFinds
  <2>4. m \in Int /\ n \in Int
    BY <1>1, LenProperties DEF Having
  <2>5. n = m + 1
    <3>1. n <= m + 1
      BY <1>2, <2>3
    <3>2. m <= n - 1
      BY <1>3, <2>1
    <3> QED
      BY <2>4, <3>1, <3>2
  <2> QED
    BY <1>2, <2>1, <2>3, <2>5 DEF ExtractStatus
<1> QED
  BY <1>4, <1>5

-----------------------------------------------------------------------------
(* Waits. *)

\* A wait the provider asks for is a length of time.
LEMMA ToldMsType ==
  ASSUME NEW error \in Error, now \in Nat
  PROVE  ToldMs(error, now) \in Optional(Nat)
<1>1. ExtractHeaders(error) \in Optional(Headers)
  <2>1. error \in Seq(Layer)
    BY AttemptsAssumption
  <2>2. CASE Having(error, "headers") = {}
    BY <2>2 DEF ExtractHeaders, Outermost, Optional
  <2>3. CASE Having(error, "headers") # {}
    <3>1. PICK i \in Having(error, "headers") :
            Outermost(error, "headers") = error[i]["headers"]
      BY <2>1, <2>3, OutermostFinds
    <3>2. error[i] \in Layer
      BY <2>1, ElementOfSeq, LenProperties DEF Having
    <3> QED
      BY <3>1, <3>2 DEF Layer, ExtractHeaders
  <2> QED
    BY <2>2, <2>3
<1>2. First(ExtractHeaders(error), NoHeaders) \in Headers
  BY <1>1 DEF First, NoHeaders, Headers, Optional
<1>3. ASSUME NEW value \in HeaderValue PROVE ParseValue(value, now) \in Optional(Nat)
  <2>1. ParseDuration(value) \in Optional(Nat)
    BY <1>3, RetryAssumption DEF ParseDuration, HeaderValue, First, Optional
  <2> QED
    BY <1>3, <2>1, RetryAssumption DEF ParseValue, HeaderValue, Optional
<1>4. RetryAfterMs(error, now) \in Optional(Nat)
  <2> DEFINE headers == First(ExtractHeaders(error), NoHeaders)
             value == First(headers.lower, First(headers.capital, headers.reset))
  <2>1. value \in Optional(HeaderValue)
    BY <1>2 DEF First, Headers, Optional
  <2> QED
    BY <1>3, <2>1 DEF RetryAfterMs, Optional
<1> QED
  BY <1>4 DEF ToldMs, Optional

\* The sleep after an attempt is as long as told, if a timer can be.
LEMMA SleepsAsTold ==
  ASSUME NEW error \in Error, now \in Nat, NEW n, NEW delay \in Delays(error, n, now)
  PROVE  /\ SleepMs(delay) \in Nat
         /\ ToldMs(error, now) # Undefined /\ ToldMs(error, now) <= MAX_TIMER
              => ToldMs(error, now) <= SleepMs(delay)
<1>1. SleepMs(delay) \in Nat
  BY RetryAssumption DEF SleepMs
<1>2. ASSUME ToldMs(error, now) # Undefined, ToldMs(error, now) <= MAX_TIMER
      PROVE  ToldMs(error, now) <= SleepMs(delay)
  <2>1. delay = ToldMs(error, now) /\ delay \in Nat
    BY <1>2, ToldMsType DEF Delays, Optional
  <2> QED
    BY <1>2, <2>1, RetryAssumption DEF SleepMs
<1> QED
  BY <1>1, <1>2

\* What holds of each call: a sleep lasts until the told time, and a client turned away
\* is told to come back when the circuit may be tried again.
Kept(c) ==
  /\ IsAt(c, "sleeping") => told[c] <= call[c].time
  /\ IsAt(c, "circuit-open") => refusal[c].opened + cooldown <= refusal[c].returnAt
  /\ IsAt(c, "rejected") => call[c].why # "none"

\* The backoff of the key is the latest time any call was told.
CallsTyped ==
  /\ call \in [Call -> CallRecord] /\ told \in [Call -> Nat]
  /\ refusal \in [Call -> [opened : Nat, returnAt : Int]]
  /\ lastStatus \in [Call -> Optional(Nat)]
  /\ backoff \in Nat /\ heard = backoff

CallsInv == CallsTyped /\ \A c \in Call : Kept(c)

\* A call that moves to a place nothing is said of.
LEMMA GoKeeps ==
  ASSUME CallsInv, NEW c \in Call, NEW to \in CallRecord, Go(c, to),
         to.pc \notin {"sleeping", "circuit-open"}, to.pc = "rejected" => to.why # "none",
         UNCHANGED <<told, refusal, lastStatus, backoff, heard>>
  PROVE  CallsInv'
<1>1. CallsTyped'
  BY DEF Go, CallsInv, CallsTyped
<1>2. ASSUME NEW d \in Call PROVE Kept(d)'
  <2>1. CASE d = c
    BY <2>1 DEF Go, CallsInv, CallsTyped, Kept, IsAt
  <2>2. CASE d # c
    <3>1. call'[d] = call[d] /\ Kept(d)
      BY <2>2 DEF Go, CallsInv, CallsTyped
    <3> QED
      BY <3>1 DEF Kept, IsAt
  <2> QED
    BY <2>1, <2>2
<1> QED
  BY <1>1, <1>2 DEF CallsInv

\* A call that ends and hands its slot on.
LEMMA ReleaseKeeps ==
  ASSUME CallsInv, NEW c \in Call, NEW end \in CallRecord, ReleaseTo(c, end),
         end.pc \in {"completed", "failed", "exhausted"},
         told' = [told EXCEPT ![c] = 0], lastStatus' \in [Call -> Optional(Nat)],
         UNCHANGED <<refusal, backoff, heard>>
  PROVE  CallsInv'
<1>0. At("woken", 0, 0) \in CallRecord
  BY DEF At, CallRecord, Acquiring
<1>1. CallsTyped'
  BY <1>0 DEF ReleaseTo, CallsInv, CallsTyped
<1>2. ASSUME NEW d \in Call PROVE Kept(d)'
  <2>1. call'[d] \in {end, At("woken", 0, 0), call[d]} /\ (d = c => call'[d] = end)
    BY DEF ReleaseTo
  <2>2. CASE call'[d] = end \/ call'[d] = At("woken", 0, 0)
    BY <2>2 DEF Kept, IsAt, At
  <2>3. CASE d # c /\ call'[d] = call[d]
    <3>1. told'[d] = told[d] /\ Kept(d)
      BY <2>3 DEF CallsInv, CallsTyped
    <3> QED
      BY <2>3, <3>1 DEF Kept, IsAt
  <2> QED
    BY <2>1, <2>2, <2>3
<1> QED
  BY <1>1, <1>2 DEF CallsInv

\* Rounding up to whole seconds.
LEMMA RoundedUp == ASSUME NEW x \in Int PROVE ((x + SECOND - 1) \div SECOND) * SECOND >= x
<1> DEFINE q == (x + SECOND - 1) \div SECOND
<1>1. SECOND \in Int /\ SECOND > 0
  BY RetryAssumption
<1>2. q \in Int /\ q * SECOND + ((x + SECOND - 1) % SECOND) = x + SECOND - 1
  BY <1>1
<1>3. (x + SECOND - 1) % SECOND <= SECOND - 1
  BY <1>1
<1> QED
  BY <1>1, <1>2, <1>3

LEMMA BlockedKeeps == ASSUME IInv, CallsInv, NEW c \in Call, Blocked(c) PROVE CallsInv'
<1> DEFINE mine == [opened |-> openedAt, returnAt |-> now + RetryAfter * SECOND]
<1>0. At("circuit-open", 0, 0) \in CallRecord
  BY DEF At, CallRecord, Ended, Dropped
<1>1. openedAt \in Nat /\ now \in Nat /\ cooldown \in Nat
  BY BreakerAssumption DEF IInv, TypeOK
<1>2. RetryAfter \in Int /\ RetryAfter * SECOND >= openedAt + cooldown - now /\ RetryAfter * SECOND \in Int
  <2>1. openedAt + cooldown - now \in Int
    BY <1>1
  <2>2. (openedAt + cooldown - now + SECOND - 1) \div SECOND \in Int
    BY <2>1, RetryAssumption
  <2>3. RetryAfter * SECOND \in Int
    BY <2>2, RetryAssumption DEF RetryAfter
  <2> QED
    BY <2>1, <2>2, <2>3, RoundedUp DEF RetryAfter
<1>3. mine \in [opened : Nat, returnAt : Int] /\ mine.opened + cooldown <= mine.returnAt
  BY <1>1, <1>2
<1>4. CallsTyped'
  BY <1>0, <1>3 DEF Blocked, Go, CallsInv, CallsTyped
<1>5. ASSUME NEW d \in Call PROVE Kept(d)'
  <2>1. CASE d = c
    BY <1>3, <2>1 DEF Blocked, Go, CallsInv, CallsTyped, Kept, IsAt, At
  <2>2. CASE d # c
    <3>1. call'[d] = call[d] /\ refusal'[d] = refusal[d] /\ told'[d] = told[d] /\ Kept(d)
      BY <2>2 DEF Blocked, Go, CallsInv, CallsTyped
    <3> QED
      BY <3>1 DEF Kept, IsAt
  <2> QED
    BY <2>1, <2>2
<1> QED
  BY <1>4, <1>5 DEF CallsInv

LEMMA SleepKeeps ==
  ASSUME IInv, CallsInv, NEW c \in Call, NEW error \in Error, Sleep(c, error)
  PROVE  CallsInv'
<1> DEFINE ms == ToldMs(error, now)
<1>1. now \in Nat /\ ms \in Optional(Nat)
  BY ToldMsType DEF IInv, TypeOK
<1>2. PICK delay \in Delays(error, call[c].attempt, now) :
        Go(c, At("sleeping", call[c].attempt, now + SleepMs(delay)))
  BY DEF Sleep
<1>3. SleepMs(delay) \in Nat /\ (ms # Undefined /\ ms <= MAX_TIMER => ms <= SleepMs(delay))
  BY <1>1, SleepsAsTold
<1> DEFINE to == At("sleeping", call[c].attempt, now + SleepMs(delay))
           until == IF ms # Undefined /\ ms <= MAX_TIMER THEN now + ms ELSE 0
<1>4. to \in CallRecord /\ to.pc = "sleeping" /\ to.time = now + SleepMs(delay)
  <2>1. call[c].attempt \in Nat
    BY DEF CallsInv, CallsTyped, CallRecord
  <2>2. now + SleepMs(delay) \in Nat
    BY <1>1, <1>3
  <2> QED
    BY <2>1, <2>2 DEF At, CallRecord, Busy
<1>5. told' = [told EXCEPT ![c] = until]
  BY DEF Sleep
<1>6. until \in Nat /\ until <= to.time
  BY <1>1, <1>3, <1>4 DEF Optional
<1>7. backoff' \in Nat /\ heard' = backoff'
  <2>1. CASE ms = Undefined
    BY <2>1 DEF Sleep, CallsInv, CallsTyped
  <2>2. CASE ms # Undefined
    BY <1>1, <2>2 DEF Sleep, SetBackoff, CallsInv, CallsTyped, Optional
  <2> QED
    BY <2>1, <2>2
<1>8. UNCHANGED <<refusal, lastStatus>>
  BY DEF Sleep
<1>9. CallsTyped'
  BY <1>2, <1>4, <1>5, <1>6, <1>7, <1>8 DEF Go, CallsInv, CallsTyped
<1>10. ASSUME NEW d \in Call PROVE Kept(d)'
  <2>1. CASE d = c
    <3>1. call'[c] = to /\ told'[c] = until
      BY <1>2, <1>5 DEF Go, CallsInv, CallsTyped
    <3> QED
      BY <1>4, <1>6, <2>1, <3>1 DEF Kept, IsAt
  <2>2. CASE d # c
    <3>1. call'[d] = call[d] /\ told'[d] = told[d] /\ Kept(d)
      BY <1>2, <1>5, <2>2 DEF Go, CallsInv, CallsTyped
    <3> QED
      BY <1>8, <3>1 DEF Kept, IsAt
  <2> QED
    BY <2>1, <2>2
<1> QED
  BY <1>9, <1>10 DEF CallsInv

LEMMA StepKeeps == IInv /\ CallsInv /\ [CallsNext]_attemptsVars => CallsInv'
<1> SUFFICES ASSUME IInv, CallsInv, [CallsNext]_attemptsVars PROVE CallsInv'
  OBVIOUS
<1> DEFINE Still == UNCHANGED <<told, refusal, lastStatus, backoff, heard>>
<1>0. /\ \A n \in Nat : At("calling", n, 0) \in CallRecord
      /\ \A pc \in Acquiring, t \in Nat : At(pc, 0, t) \in CallRecord
      /\ \A why \in {"aborted", "queue-full", "queue-timeout"} :
           [At("rejected", 0, 0) EXCEPT !.why = why] \in CallRecord
  BY DEF At, CallRecord, Acquiring, Busy
<1>1. ASSUME NEW c \in Call, NEW why \in {"aborted", "queue-full", "queue-timeout"},
             Reject(c, why), Still
      PROVE  CallsInv'
  <2> DEFINE to == [At("rejected", 0, 0) EXCEPT !.why = why]
  <2>1. to \in CallRecord /\ to.pc = "rejected" /\ to.why # "none"
    BY <1>0 DEF At
  <2>2. Go(c, to)
    BY <1>1 DEF Reject
  <2> QED
    BY <1>1, <2>1, <2>2, GoKeeps
<1>2. ASSUME NEW c \in Call, NEW n \in Nat, Attempt(c, n), Still PROVE CallsInv'
  <2>1. At("calling", n, 0) \in CallRecord /\ At("calling", n, 0).pc = "calling"
    BY <1>0 DEF At
  <2> QED
    BY <1>2, <2>1, GoKeeps DEF Attempt
<1>3. ASSUME NEW c \in Call, NEW pc \in Acquiring \ {"rejected"}, NEW t \in Nat,
             Go(c, At(pc, 0, t)), Still
      PROVE  CallsInv'
  <2>1. At(pc, 0, t) \in CallRecord /\ At(pc, 0, t).pc = pc
    BY <1>0 DEF At
  <2> QED
    BY <1>3, <2>1, GoKeeps DEF Acquiring
<1>4. \A c \in Call : call[c].attempt \in Nat /\ call[c].attempt + 1 \in Nat
  BY DEF CallsInv, CallsTyped, CallRecord
<1>5. ASSUME NEW c \in Call, Execute(c) PROVE CallsInv'
  <2>1. Reject(c, "aborted") \/ Go(c, At("granted", 0, 0)) \/ Go(c, At("refused", 0, 0))
    BY <1>5 DEF Execute, StoreAnswers
  <2>2. Still
    BY <1>5 DEF Execute
  <2> QED
    BY <1>1, <1>3, <2>1, <2>2 DEF Acquiring
<1>6. ASSUME NEW c \in Call, Enqueue(c) PROVE CallsInv'
  <2>1. now + queueTimeout \in Nat
    BY AttemptsAssumption DEF IInv, TypeOK
  <2>2. Reject(c, "queue-full") \/ Go(c, At("waiting", 0, now + queueTimeout))
    BY <1>6 DEF Enqueue
  <2>3. Still
    BY <1>6 DEF Enqueue, historyVars
  <2> QED
    BY <1>1, <1>3, <2>1, <2>2, <2>3 DEF Acquiring
<1>7. ASSUME NEW c \in Call, Grant(c) \/ QueueTimeout(c) \/ Resume(c) \/ Retry(c) \/ TakeSlot(c)
      PROVE  CallsInv'
  <2>1. \/ \E n \in Nat : Attempt(c, n)
        \/ Go(c, At("granted", 0, 0)) \/ Go(c, At("parked", 0, 0))
        \/ Reject(c, "queue-timeout") \/ Reject(c, "aborted")
    BY <1>4, <1>7 DEF Grant, QueueTimeout, Resume, Retry, TakeSlot
  <2>2. Still
    BY <1>7 DEF Grant, QueueTimeout, Resume, Retry, TakeSlot, historyVars
  <2> QED
    BY <1>1, <1>2, <1>3, <2>1, <2>2 DEF Acquiring
<1>8. ASSUME NEW c \in Call, Abort(c) PROVE CallsInv'
  <2>1. Reject(c, "aborted") \/ UNCHANGED call
    BY <1>8 DEF Abort
  <2>2. Still
    BY <1>8 DEF Abort, historyVars
  <2>3. CASE UNCHANGED call
    BY <2>2, <2>3 DEF CallsInv, CallsTyped, Kept, IsAt
  <2> QED
    BY <1>1, <2>1, <2>2, <2>3
<1>9. ASSUME NEW c \in Call, Thrown(c) PROVE CallsInv'
  <2> DEFINE to == At(call[c].why, call[c].attempt, 0)
  <2>1. call[c].why \in {"aborted", "queue-full", "queue-timeout"}
    BY <1>9 DEF Thrown, CallsInv, CallsTyped, CallRecord, Kept
  <2>2. to \in CallRecord /\ to.pc = call[c].why
    BY <1>4, <2>1 DEF At, CallRecord, Ended, Dropped
  <2>3. Go(c, to) /\ Still
    BY <1>9 DEF Thrown, GoEnd
  <2> QED
    BY <2>1, <2>2, <2>3, GoKeeps
<1>10. ASSUME NEW c \in Call, NEW outcome \in {"completed", "failed", "exhausted"}
       PROVE  /\ At(outcome, call[c].attempt, 0) \in CallRecord
              /\ At(outcome, call[c].attempt, 0).pc = outcome
  BY <1>4 DEF At, CallRecord, Ended
<1>11. ASSUME NEW c \in Call, Answer(c) PROVE CallsInv'
  <2>1. /\ ReleaseTo(c, At("completed", call[c].attempt, 0))
        /\ told' = [told EXCEPT ![c] = 0] /\ UNCHANGED <<refusal, lastStatus, backoff, heard>>
    BY <1>11 DEF Answer
  <2> QED
    BY <1>10, <2>1, ReleaseKeeps DEF CallsInv, CallsTyped
<1>12. ASSUME NEW c \in Call, NEW error \in Error, GiveUp(c, error) PROVE CallsInv'
  <2>1. PICK outcome \in {"failed", "exhausted"} : ReleaseTo(c, At(outcome, call[c].attempt, 0))
    BY <1>12 DEF GiveUp
  <2>2. /\ told' = [told EXCEPT ![c] = 0] /\ UNCHANGED <<refusal, backoff, heard>>
        /\ lastStatus' = [lastStatus EXCEPT ![c] = ExtractStatus(error)]
    BY <1>12 DEF GiveUp
  <2>3. ExtractStatus(error) \in Optional(Nat)
    <3>1. error \in Seq(Layer)
      BY AttemptsAssumption
    <3>2. CASE Having(error, "status") = {}
      BY <3>2 DEF ExtractStatus, Outermost, Optional
    <3>3. CASE Having(error, "status") # {}
      <4>1. PICK i \in Having(error, "status") : Outermost(error, "status") = error[i]["status"]
        BY <3>1, <3>3, OutermostFinds
      <4>2. error[i] \in Layer
        BY <3>1, ElementOfSeq, LenProperties DEF Having
      <4> QED
        BY <4>1, <4>2 DEF Layer, ExtractStatus
    <3> QED
      BY <3>2, <3>3
  <2>4. lastStatus' \in [Call -> Optional(Nat)]
    BY <2>2, <2>3 DEF CallsInv, CallsTyped
  <2> QED
    BY <1>10, <2>1, <2>2, <2>4, ReleaseKeeps
<1>13. CASE TickCalls \/ UNCHANGED attemptsVars
  <2>1. UNCHANGED <<call, told, refusal, lastStatus, backoff, heard>>
    BY <1>13 DEF TickCalls, attemptsVars, callVars, historyVars
  <2> QED
    BY <2>1 DEF CallsInv, CallsTyped, Kept, IsAt
<1> QED
  BY <1>5, <1>6, <1>7, <1>8, <1>9, <1>11, <1>12, <1>13, BlockedKeeps, SleepKeeps
     DEF CallsNext, CallStep, Microtask

LEMMA CallsInvHolds == CallsSpec => []CallsInv
<1>1. CallsInit => CallsInv
  BY DEF CallsInit, CallsInv, CallsTyped, CallRecord, Kept, IsAt, At, Optional
<1> QED
  BY <1>1, StepKeeps, CallsIInv, PTL DEF CallsSpec

-----------------------------------------------------------------------------
\* A client that comes back after the told retryAfter is not blocked by the same opening.
THEOREM ComingBackSuffices == CallsSpec => []RetryAfterSuffices
<1>1. IInv /\ CallsInv => RetryAfterSuffices
  BY BreakerAssumption DEF IInv, TypeOK, CallsInv, CallsTyped, Kept, RetryAfterSuffices, Blocks
<1> QED
  BY <1>1, CallsIInv, CallsInvHolds, PTL

-----------------------------------------------------------------------------
(* What a step may do. *)

\* A step of one call leaves the others where they are, but for one it wakes.
LEMMA OthersStay ==
  ASSUME CallsInv, NEW d \in Call, CallStep(d), NEW c \in Call, c # d
  PROVE  call'[c] = call[c] \/ call'[c] = At("woken", 0, 0)
<1>1. ASSUME NEW to, Go(d, to) PROVE call'[c] = call[c]
  BY <1>1 DEF Go, CallsInv, CallsTyped
<1>2. ASSUME NEW end, ReleaseTo(d, end) PROVE call'[c] = call[c] \/ call'[c] = At("woken", 0, 0)
  BY <1>2 DEF ReleaseTo
<1>3. CASE Answer(d) \/ \E error \in Error : GiveUp(d, error)
  BY <1>2, <1>3 DEF Answer, GiveUp
<1>4. CASE Abort(d)
  BY <1>1, <1>4 DEF Abort, Reject
<1>5. CASE Blocked(d) \/ Execute(d) \/ Enqueue(d) \/ Thrown(d)
  BY <1>1, <1>5 DEF Blocked, Execute, StoreAnswers, Enqueue, Thrown, GoEnd, Reject
<1>6. CASE Grant(d) \/ QueueTimeout(d) \/ Resume(d) \/ Retry(d) \/ TakeSlot(d)
  BY <1>1, <1>6 DEF Grant, QueueTimeout, Resume, Retry, TakeSlot, Attempt, Reject
<1>7. CASE \E error \in Error : Sleep(d, error)
  BY <1>1, <1>7 DEF Sleep
<1> QED
  BY <1>3, <1>4, <1>5, <1>6, <1>7 DEF CallStep, Microtask

\* Where a call that steps itself may go to.
LEMMA WhereTo ==
  ASSUME CallsInv, NEW c \in Call, CallStep(c)
  PROVE  /\ IsAt(c, "sleeping") /\ IsAt(c, "calling")' => Retry(c)
         /\ ~IsAt(c, "granted") /\ IsAt(c, "granted")' => backoff <= now
         /\ IsAt(c, "calling") /\ call'[c].pc \in {"failed", "exhausted"}
              => \E error \in Error : GiveUp(c, error)
<1>1. ASSUME NEW to, Go(c, to) PROVE call'[c] = to
  BY <1>1 DEF Go, CallsInv, CallsTyped
<1>2. CASE Answer(c)
  BY <1>2 DEF Answer, ReleaseTo, IsAt, At
<1>3. CASE Abort(c)
  BY <1>1, <1>3 DEF Abort, Reject, IsAt, At
<1>4. CASE Blocked(c) \/ Enqueue(c)
  BY <1>1, <1>4 DEF Blocked, Enqueue, Reject, IsAt, At
<1>5. CASE Execute(c)
  BY <1>1, <1>5 DEF Execute, StoreAnswers, Reject, IsAt, At
<1>6. CASE Thrown(c)
  <2>1. call'[c].pc \in {"aborted", "queue-full", "queue-timeout"} /\ IsAt(c, "rejected")
    BY <1>1, <1>6 DEF Thrown, GoEnd, At, IsAt, CallsInv, CallsTyped, CallRecord, Kept
  <2> QED
    BY <2>1 DEF IsAt
<1>7. CASE Grant(c) \/ QueueTimeout(c) \/ Resume(c)
  BY <1>1, <1>7 DEF Grant, QueueTimeout, Resume, Attempt, Reject, IsAt, At
<1>8. CASE TakeSlot(c)
  BY <1>1, <1>8 DEF TakeSlot, Attempt, Reject, IsAt, At
<1>9. CASE Retry(c)
  BY <1>1, <1>9 DEF Retry, Attempt, IsAt, At
<1>10. CASE \E error \in Error : Sleep(c, error)
  BY <1>1, <1>10 DEF Sleep, IsAt, At
<1>11. CASE \E error \in Error : GiveUp(c, error)
  <2>1. PICK error \in Error : GiveUp(c, error)
    BY <1>11
  <2>2. IsAt(c, "calling") /\ call'[c].pc \in {"failed", "exhausted"}
    BY <2>1 DEF GiveUp, ReleaseTo, At
  <2> QED
    BY <1>11, <2>2 DEF IsAt
<1> QED
  BY <1>2, <1>3, <1>4, <1>5, <1>6, <1>7, <1>8, <1>9, <1>10, <1>11 DEF CallStep, Microtask

\* No call is made again before the time its provider named.
THEOREM CallsWaitAsTold == CallsSpec => WaitsAsTold
<1>1. IInv /\ CallsInv /\ [CallsNext]_attemptsVars =>
        [\A c \in Call : IsAt(c, "sleeping") /\ IsAt(c, "calling")' => now >= told[c]]_attemptsVars
  <2> SUFFICES ASSUME IInv, CallsInv, CallsNext, NEW c \in Call,
                      IsAt(c, "sleeping"), IsAt(c, "calling")'
               PROVE  now >= told[c]
    BY DEF attemptsVars
  <2>1. PICK d \in Call : CallStep(d)
    BY DEF CallsNext, TickCalls, callVars, IsAt
  <2>2. d = c
    BY <2>1, OthersStay DEF IsAt, At
  <2>3. now >= call[c].time
    BY <2>1, <2>2, WhereTo DEF Retry
  <2>4. /\ told[c] <= call[c].time
        /\ told[c] \in Nat /\ call[c].time \in Nat /\ now \in Nat
    BY DEF CallsInv, CallsTyped, CallRecord, Kept, IInv, TypeOK
  <2> QED
    BY <2>3, <2>4
<1> QED
  BY <1>1, CallsIInv, CallsInvHolds, PTL DEF CallsSpec, WaitsAsTold

\* While a wait that any call was told is in force, no slot is granted.
THEOREM CallsNewcomersPause == CallsSpec => NewcomersPause
<1>1. IInv /\ CallsInv /\ [CallsNext]_attemptsVars =>
        [\A c \in Call : ~IsAt(c, "granted") /\ IsAt(c, "granted")' => now >= heard]_attemptsVars
  <2> SUFFICES ASSUME IInv, CallsInv, CallsNext, NEW c \in Call,
                      ~IsAt(c, "granted"), IsAt(c, "granted")'
               PROVE  now >= heard
    BY DEF attemptsVars
  <2>1. PICK d \in Call : CallStep(d)
    BY DEF CallsNext, TickCalls, callVars, IsAt
  <2>2. d = c
    BY <2>1, OthersStay DEF IsAt, At
  <2>3. backoff <= now /\ heard = backoff /\ backoff \in Nat /\ now \in Nat
    BY <2>1, <2>2, WhereTo DEF CallsInv, CallsTyped, IInv, TypeOK
  <2> QED
    BY <2>3
<1> QED
  BY <1>1, CallsIInv, CallsInvHolds, PTL DEF CallsSpec, NewcomersPause

\* A status that does not count leaves the breaker alone, wrapped or not.
THEOREM CallsRateLimitsDoNotTrip == CallsSpec => RateLimitsDoNotTrip
<1>1. CallsInv /\ [CallsNext]_attemptsVars =>
        [\A c \in Call :
           IsAt(c, "calling") /\ call'[c].pc \in {"failed", "exhausted"}
             /\ lastStatus'[c] \notin Optional(tripOn) => UNCHANGED breakerVars]_attemptsVars
  <2> SUFFICES ASSUME CallsInv, CallsNext, NEW c \in Call,
                      IsAt(c, "calling"), call'[c].pc \in {"failed", "exhausted"},
                      lastStatus'[c] \notin Optional(tripOn)
               PROVE  UNCHANGED breakerVars
    BY DEF attemptsVars, vars
  <2>1. PICK d \in Call : CallStep(d)
    BY DEF CallsNext, TickCalls, callVars, IsAt
  <2>2. d = c
    BY <2>1, OthersStay DEF IsAt, At
  <2>3. PICK error \in Error : GiveUp(c, error)
    BY <2>1, <2>2, WhereTo
  <2>4. lastStatus'[c] = ExtractStatus(error)
    BY <2>3 DEF GiveUp, CallsInv, CallsTyped
  <2>5. PICK e \in {error, Exhausted(error)} :
          Fail(c, OutcomeOf(c, e)) \/ EndUnrecorded(c, OutcomeOf(c, e))
    BY <2>3 DEF GiveUp
  <2>6. ExtractStatus(e) = ExtractStatus(error)
    BY <2>5, ExhaustedKeepsStatus, AttemptsAssumption
  <2>7. OutcomeOf(c, e) = "otherStatus"
    BY <2>4, <2>6 DEF OutcomeOf, Optional
  <2> QED
    BY <2>5, <2>7 DEF Fail, ShouldTrip, EndUnrecorded
<1> QED
  BY <1>1, CallsInvHolds, PTL DEF CallsSpec, RateLimitsDoNotTrip

-----------------------------------------------------------------------------
(* What the exporters count. *)

\* What RemoveAt returns.
LEMMA RemoveIs ==
  ASSUME NEW S, NEW s \in Seq(S), NEW k \in 1 .. Len(s)
  PROVE  /\ RemoveAt(s, k) \in Seq(S)
         /\ Len(RemoveAt(s, k)) = Len(s) - 1
         /\ \A i \in 1 .. Len(s) - 1 : RemoveAt(s, k)[i] = IF i < k THEN s[i] ELSE s[i + 1]
<1> DEFINE a == SubSeq(s, 1, k - 1)
<1> DEFINE z == SubSeq(s, k + 1, Len(s))
<1>1. Len(s) \in Nat /\ k \in Nat /\ \A i \in 1 .. Len(s) : s[i] \in S
  BY LenProperties, ElementOfSeq
<1>2. a \in Seq(S) /\ Len(a) = k - 1 /\ \A i \in 1 .. k - 1 : a[i] = s[i]
  <2>1. 1 \in Int /\ k - 1 \in Int /\ \A i \in 1 .. k - 1 : s[i] \in S
    BY <1>1
  <2> QED
    BY <1>1, <2>1, SubSeqProperties
<1>3. z \in Seq(S) /\ Len(z) = Len(s) - k /\ \A i \in 1 .. Len(s) - k : z[i] = s[k + i]
  <2>1. k + 1 \in Int /\ Len(s) \in Int /\ \A i \in k + 1 .. Len(s) : s[i] \in S
    BY <1>1
  <2> QED
    BY <1>1, <2>1, SubSeqProperties
<1> HIDE DEF a, z
<1>4. /\ a \o z \in Seq(S) /\ Len(a \o z) = Len(a) + Len(z)
      /\ \A i \in 1 .. Len(a) + Len(z) : (a \o z)[i] = IF i <= Len(a) THEN a[i] ELSE z[i - Len(a)]
  BY <1>2, <1>3, ConcatProperties
<1>5. RemoveAt(s, k) = a \o z
  BY DEF RemoveAt, a, z
<1>6. Len(a) + Len(z) = Len(s) - 1
  BY <1>1, <1>2, <1>3
<1>7. ASSUME NEW i \in 1 .. Len(s) - 1
      PROVE  (a \o z)[i] = IF i < k THEN s[i] ELSE s[i + 1]
  <2>1. CASE i < k
    BY <1>1, <1>2, <1>4, <1>6, <2>1
  <2>2. CASE i >= k
    <3>1. i - (k - 1) \in 1 .. Len(s) - k /\ k + (i - (k - 1)) = i + 1
      BY <1>1, <2>2
    <3>2. z[i - (k - 1)] = s[i + 1]
      BY <1>3, <3>1
    <3> QED
      BY <1>1, <1>2, <1>4, <1>6, <2>2, <3>2
  <2>3. i < k \/ i >= k
    BY <1>1
  <2> QED
    BY Zenon, <2>1, <2>2, <2>3
<1> QED
  BY <1>4, <1>5, <1>6, <1>7

\* The calls parked for a slot: each is there once, and nowhere else.
Parked ==
  /\ parked \in Seq(Call)
  /\ \A i \in DOMAIN parked : IsAt(parked[i], "parked")
  /\ \A i, j \in DOMAIN parked : parked[i] = parked[j] => i = j

\* Attempts are counted from the first to the last that is allowed.
Numbered(c) ==
  /\ call[c].pc \in {"idle"} \cup Acquiring => call[c].attempt = 0
  /\ call[c].pc \in Busy => call[c].attempt \in 1 .. maxAttempts
  /\ IsAt(c, "sleeping") => call[c].attempt # maxAttempts

Places == Parked /\ \A c \in Call : Numbered(c)

Completed == {c \in Call : IsAt(c, "completed")}
Turned == {c \in Call : call[c].pc \in Dropped}
Retried == {p \in Call \X (2 .. maxAttempts) : p[2] <= Announced(p[1])}

\* At any time only finitely many calls have been made, so that counting them makes sense
\* however many there may be.
Counted ==
  /\ IsFiniteSet(Completed) /\ IsFiniteSet(Turned) /\ IsFiniteSet(Retried)
  /\ metrics = [completed |-> Cardinality(Completed), dropped |-> Cardinality(Turned),
                retrying |-> Cardinality(Retried)]

\* For the counts a call may move without being seen.
Unseen(c) ==
  /\ IsAt(c, "completed")' <=> IsAt(c, "completed")
  /\ call'[c].pc \in Dropped <=> call[c].pc \in Dropped
  /\ \A n \in 2 .. maxAttempts : n <= Announced(c)' <=> n <= Announced(c)

\* Only the first of the parked calls moves with the one that hands over its slot.
LEMMA OthersUnseen ==
  ASSUME CallsInv, Places, NEW d \in Call, CallStep(d), NEW c \in Call, c # d
  PROVE  Unseen(c)
<1>1. ASSUME NEW to, Go(d, to) PROVE call'[c] = call[c]
  BY <1>1 DEF Go, CallsInv, CallsTyped
<1>2. CASE call'[c] = call[c]
  BY <1>2 DEF Unseen, IsAt, Announced
<1>3. ASSUME NEW end, ReleaseTo(d, end) PROVE Unseen(c)
  <2>1. CASE call'[c] # call[c]
    <3>1. parked # <<>> /\ c = Head(parked) /\ call'[c] = At("woken", 0, 0)
      BY <1>3, <2>1 DEF ReleaseTo
    <3>2. 1 \in DOMAIN parked /\ c = parked[1]
      BY <3>1, EmptySeq, LenProperties DEF Places, Parked
    <3>3. call[c].pc = "parked" /\ call[c].attempt = 0
      BY <3>2 DEF Places, Parked, Numbered, IsAt, Acquiring
    <3> QED
      BY <3>1, <3>3 DEF Unseen, IsAt, Announced, At, Dropped
  <2> QED
    BY <1>2, <2>1
<1>4. CASE Answer(d) \/ \E error \in Error : GiveUp(d, error)
  BY <1>3, <1>4 DEF Answer, GiveUp
<1>5. CASE Abort(d)
  BY <1>1, <1>2, <1>5 DEF Abort, Reject
<1>6. CASE Blocked(d) \/ Execute(d) \/ Enqueue(d) \/ Thrown(d)
  BY <1>1, <1>2, <1>6 DEF Blocked, Execute, StoreAnswers, Enqueue, Thrown, GoEnd, Reject
<1>7. CASE Grant(d) \/ QueueTimeout(d) \/ Resume(d) \/ Retry(d) \/ TakeSlot(d)
  BY <1>1, <1>2, <1>7 DEF Grant, QueueTimeout, Resume, Retry, TakeSlot, Attempt, Reject
<1>8. CASE \E error \in Error : Sleep(d, error)
  BY <1>1, <1>2, <1>8 DEF Sleep
<1> QED
  BY <1>4, <1>5, <1>6, <1>7, <1>8 DEF CallStep, Microtask

\* A step that nobody sees counts nothing.
LEMMA NothingCounted ==
  ASSUME Counted, \A c \in Call : Unseen(c), UNCHANGED metrics
  PROVE  Counted'
<1>1. Completed' = Completed
  BY DEF Unseen, Completed
<1>2. Turned' = Turned
  BY DEF Unseen, Turned
<1>3. Retried' = Retried
  BY DEF Unseen, Retried
<1> QED
  BY <1>1, <1>2, <1>3 DEF Counted

\* A call that completes.
LEMMA CompletionCounted ==
  ASSUME Counted, NEW c \in Call, \A d \in Call \ {c} : Unseen(d),
         ~IsAt(c, "completed"), IsAt(c, "completed")', call[c].pc \notin Dropped,
         Announced(c)' = Announced(c), Count("completed")
  PROVE  Counted'
<1>1. Completed' = Completed \cup {c} /\ c \notin Completed
  BY DEF Unseen, Completed
<1>2. Turned' = Turned
  BY DEF Unseen, Turned, IsAt, Dropped
<1>3. Retried' = Retried
  BY DEF Unseen, Retried
<1>4. IsFiniteSet(Completed') /\ Cardinality(Completed') = Cardinality(Completed) + 1
  BY <1>1, FS_AddElement DEF Counted
<1> QED
  BY <1>2, <1>3, <1>4 DEF Counted, Count

\* A call that is dropped.
LEMMA DropCounted ==
  ASSUME Counted, NEW c \in Call, \A d \in Call \ {c} : Unseen(d),
         call[c].pc \notin Dropped, call'[c].pc \in Dropped, ~IsAt(c, "completed"),
         Announced(c)' = Announced(c), Count("dropped")
  PROVE  Counted'
<1>1. Turned' = Turned \cup {c} /\ c \notin Turned
  BY DEF Unseen, Turned
<1>2. Completed' = Completed
  BY DEF Unseen, Completed, IsAt, Dropped
<1>3. Retried' = Retried
  BY DEF Unseen, Retried
<1>4. IsFiniteSet(Turned') /\ Cardinality(Turned') = Cardinality(Turned) + 1
  BY <1>1, FS_AddElement DEF Counted
<1> QED
  BY <1>2, <1>3, <1>4 DEF Counted, Count

\* A call that goes to sleep announces its next attempt.
LEMMA RetryCounted ==
  ASSUME Counted, NEW c \in Call, \A d \in Call \ {c} : Unseen(d),
         IsAt(c, "calling"), IsAt(c, "sleeping")', call[c].attempt \in 1 .. maxAttempts - 1,
         Announced(c)' = Announced(c) + 1, Count("retrying")
  PROVE  Counted'
<1> DEFINE next == call[c].attempt + 1
<1>0. maxAttempts \in Nat
  BY RetryAssumption
<1>1. Announced(c) = call[c].attempt /\ Announced(c)' = next /\ next \in 2 .. maxAttempts
  BY <1>0 DEF Announced, IsAt
<1>2. ASSUME NEW p \in Call \X (2 .. maxAttempts)
      PROVE  p \in Retried' <=> p \in Retried \/ p = <<c, next>>
  <2>1. p = <<p[1], p[2]>> /\ p[1] \in Call /\ p[2] \in 2 .. maxAttempts
    OBVIOUS
  <2>2. CASE p[1] = c
    <3>1. p[2] <= next <=> p[2] <= call[c].attempt \/ p[2] = next
      BY <1>0, <2>1
    <3> HIDE DEF next
    <3> QED
      BY <1>1, <2>1, <2>2, <3>1 DEF Retried
  <2>3. CASE p[1] # c
    BY <2>1, <2>3 DEF Retried, Unseen
  <2> QED
    BY <2>2, <2>3
<1>3. <<c, next>> \in Call \X (2 .. maxAttempts)
  BY <1>1
<1>4. Retried' = Retried \cup {<<c, next>>}
  BY <1>2, <1>3 DEF Retried
<1>5. <<c, next>> \notin Retried
  BY <1>0, <1>1 DEF Retried
<1>6. IsFiniteSet(Retried') /\ Cardinality(Retried') = Cardinality(Retried) + 1
  BY <1>4, <1>5, FS_AddElement DEF Counted
<1>7. Completed' = Completed
  BY DEF Unseen, Completed, IsAt
<1>8. Turned' = Turned
  BY DEF Unseen, Turned, IsAt, Dropped
<1> QED
  BY <1>6, <1>7, <1>8 DEF Counted, Count

LEMMA StepCounts ==
  ASSUME CallsInv, Places, Counted, NEW c \in Call, CallStep(c)
  PROVE  Counted'
<1>1. \A d \in Call \ {c} : Unseen(d)
  BY OthersUnseen
<1>2. ASSUME Unseen(c), UNCHANGED metrics PROVE Counted'
  BY <1>1, <1>2, NothingCounted
<1>3. call \in [Call -> CallRecord] /\ Numbered(c) /\ Kept(c)
  BY DEF CallsInv, CallsTyped, Places
<1>4. ASSUME NEW to, Go(c, to) PROVE call'[c] = to
  BY <1>3, <1>4 DEF Go
<1>5. CASE Blocked(c)
  <2>1. call[c].pc = "idle" /\ call[c].attempt = 0 /\ call'[c] = At("circuit-open", 0, 0)
    BY <1>3, <1>4, <1>5 DEF Blocked, IsAt, Numbered
  <2> QED
    BY <1>1, <1>5, <2>1, DropCounted DEF Blocked, IsAt, At, Dropped, Announced
<1>6. CASE Execute(c)
  <2>1. call[c].pc = "idle" /\ call[c].attempt = 0
    BY <1>3, <1>6 DEF Execute, IsAt, Numbered
  <2>2. call'[c].pc \in {"granted", "refused", "rejected"} /\ call'[c].attempt = 0
    BY <1>4, <1>6 DEF Execute, StoreAnswers, Reject, At
  <2> QED
    BY <1>2, <1>6, <2>1, <2>2 DEF Execute, observerVars, Unseen, IsAt, Announced, Dropped
<1>7. CASE Enqueue(c) \/ Grant(c) \/ QueueTimeout(c)
  <2>1. call[c].pc \in {"refused", "waiting"} /\ call[c].attempt = 0
    BY <1>3, <1>7 DEF Enqueue, Grant, QueueTimeout, IsAt, Numbered, Acquiring
  <2>2. call'[c].pc \in {"granted", "waiting", "rejected"} /\ call'[c].attempt = 0
    BY <1>4, <1>7 DEF Enqueue, Grant, QueueTimeout, Reject, At
  <2> QED
    BY <1>2, <1>7, <2>1, <2>2
       DEF Enqueue, Grant, QueueTimeout, observerVars, Unseen, IsAt, Announced, Dropped
<1>8. CASE TakeSlot(c) \/ Resume(c)
  <2>1. call[c].pc \in {"granted", "woken"} /\ call[c].attempt = 0
    BY <1>3, <1>8 DEF TakeSlot, Resume, IsAt, Numbered, Acquiring
  <2>2. \/ call'[c].pc \in {"parked", "rejected"} /\ call'[c].attempt = 0
        \/ call'[c].pc = "calling" /\ call'[c].attempt = 1
    BY <1>4, <1>8 DEF TakeSlot, Resume, Attempt, Reject, At
  <2>3. UNCHANGED metrics
    BY <1>8 DEF TakeSlot, Resume, observerVars
  <2> QED
    BY <1>2, <2>1, <2>2, <2>3 DEF Unseen, IsAt, Announced, Dropped
<1>9. CASE Abort(c)
  <2>1. \/ call'[c] = call[c]
        \/ /\ call[c].pc \in {"waiting", "parked"} /\ call[c].attempt = 0
           /\ call'[c].pc = "rejected" /\ call'[c].attempt = 0
    BY <1>3, <1>4, <1>9 DEF Abort, Reject, At, Numbered, Acquiring
  <2>2. Unseen(c)
    BY <2>1 DEF Unseen, IsAt, Announced, Dropped
  <2> QED
    BY <1>2, <1>9, <2>2 DEF Abort, observerVars
<1>10. CASE Thrown(c)
  <2>1. /\ call[c].pc = "rejected" /\ call[c].attempt = 0
        /\ call'[c].pc = call[c].why /\ call'[c].attempt = 0
        /\ call[c].why \in {"aborted", "queue-full", "queue-timeout"}
    BY <1>3, <1>4, <1>10 DEF Thrown, GoEnd, IsAt, At, Numbered, Acquiring, Kept, CallRecord
  <2>2. CASE call[c].why \in Dropped
    <3>1. Count("dropped")
      BY <1>10, <2>2 DEF Thrown, CountThrown
    <3> QED
      BY <1>1, <2>1, <2>2, <3>1, DropCounted DEF IsAt, Announced, Dropped
  <2>3. CASE call[c].why \notin Dropped
    <3>1. UNCHANGED metrics
      BY <1>10, <2>3 DEF Thrown, CountThrown
    <3> QED
      BY <1>2, <2>1, <2>3, <3>1 DEF Unseen, IsAt, Announced, Dropped
  <2> QED
    BY <2>2, <2>3
<1>11. CASE Answer(c)
  <2>1. call'[c] = At("completed", call[c].attempt, 0) /\ call[c].pc = "calling"
    BY <1>11 DEF Answer, ReleaseTo, IsAt
  <2> QED
    BY <1>1, <1>11, <2>1, CompletionCounted DEF Answer, IsAt, At, Announced, Dropped
<1>12. CASE Retry(c)
  <2>1. call[c].pc = "sleeping" /\ call'[c] = At("calling", call[c].attempt + 1, 0)
    BY <1>4, <1>12 DEF Retry, Attempt, IsAt
  <2>2. call[c].attempt \in Nat
    BY <1>3 DEF CallRecord
  <2> QED
    BY <1>2, <1>12, <2>1, <2>2 DEF Retry, observerVars, Unseen, IsAt, At, Announced, Dropped
<1>13. ASSUME NEW error \in Error, GiveUp(c, error) PROVE Counted'
  <2>1. PICK outcome \in {"failed", "exhausted"} :
          call'[c] = At(outcome, call[c].attempt, 0) /\ call[c].pc = "calling"
    BY <1>13 DEF GiveUp, ReleaseTo, IsAt
  <2>2. UNCHANGED metrics
    BY <1>13 DEF GiveUp
  <2> QED
    BY <1>2, <2>1, <2>2 DEF Unseen, IsAt, At, Announced, Dropped
<1>14. ASSUME NEW error \in Error, Sleep(c, error) PROVE Counted'
  <2>1. PICK time : call'[c] = At("sleeping", call[c].attempt, time)
    BY <1>4, <1>14 DEF Sleep
  <2>2. call[c].pc = "calling" /\ call[c].attempt # maxAttempts /\ Count("retrying")
    BY <1>14 DEF Sleep, IsAt, LastAttempt
  <2>3. call[c].attempt \in 1 .. maxAttempts - 1
    BY <1>3, <2>2, RetryAssumption DEF Numbered, Busy
  <2> QED
    BY <1>1, <2>1, <2>2, <2>3, RetryCounted DEF IsAt, At, Announced
<1> QED
  BY <1>5, <1>6, <1>7, <1>8, <1>9, <1>10, <1>11, <1>12, <1>13, <1>14 DEF CallStep, Microtask

\* The parked calls after one of them has gone.
LEMMA ParkedWithout ==
  ASSUME Parked, NEW c \in Call, parked' = RemoveFirst(parked, c)
  PROVE  /\ parked' \in Seq(Call)
         /\ \A i \in DOMAIN parked' : parked'[i] # c
         /\ \A i \in DOMAIN parked' : \E j \in DOMAIN parked : parked'[i] = parked[j]
         /\ \A i, j \in DOMAIN parked' : parked'[i] = parked'[j] => i = j
<1> DEFINE at == {i \in 1 .. Len(parked) : parked[i] = c}
<1>0. parked \in Seq(Call) /\ DOMAIN parked = 1 .. Len(parked) /\ Len(parked) \in Nat
  BY LenProperties DEF Parked
<1>1. CASE at = {}
  <2>1. parked' = parked
    BY <1>1 DEF RemoveFirst
  <2> QED
    BY <1>0, <1>1, <2>1 DEF Parked
<1>2. CASE at # {}
  <2> DEFINE k == Min(at)
  <2>1. k \in at
    <3>1. at \in SUBSET Nat
      OBVIOUS
    <3> QED
      BY <1>2, <3>1, LeastLayer
  <2>2. parked' = RemoveAt(parked, k)
    BY <1>2 DEF RemoveFirst, SelectInSeq
  <2>3. k \in 1 .. Len(parked) /\ parked[k] = c
    BY <2>1
  <2> HIDE DEF k, at
  <2>4. /\ parked' \in Seq(Call) /\ Len(parked') = Len(parked) - 1
        /\ \A i \in 1 .. Len(parked) - 1 :
             parked'[i] = IF i < k THEN parked[i] ELSE parked[i + 1]
    BY <1>0, <2>2, <2>3, RemoveIs
  <2>5. DOMAIN parked' = 1 .. Len(parked) - 1
    BY <2>4, LenProperties
  <2>6. ASSUME NEW i \in DOMAIN parked'
        PROVE  \E j \in DOMAIN parked : /\ parked'[i] = parked[j] /\ j # k
                                        /\ j = IF i < k THEN i ELSE i + 1
    BY <1>0, <2>3, <2>4, <2>5
  <2>7. ASSUME NEW i \in DOMAIN parked', NEW j \in DOMAIN parked', parked'[i] = parked'[j]
        PROVE  i = j
    <3>1. PICK m \in DOMAIN parked : parked'[i] = parked[m] /\ m = IF i < k THEN i ELSE i + 1
      BY <2>6
    <3>2. PICK n \in DOMAIN parked : parked'[j] = parked[n] /\ n = IF j < k THEN j ELSE j + 1
      BY <2>6
    <3>3. m = n
      BY <2>7, <3>1, <3>2 DEF Parked
    <3> QED
      BY <1>0, <2>3, <2>5, <3>1, <3>2, <3>3
  <2>8. ASSUME NEW i \in DOMAIN parked' PROVE parked'[i] # c
    BY <1>0, <2>3, <2>6 DEF Parked
  <2> QED
    BY <2>4, <2>6, <2>7, <2>8
<1> QED
  BY <1>1, <1>2

\* A call that goes from elsewhere to elsewhere, or on from where it was counted.
LEMMA GoKeepsPlaces ==
  ASSUME CallsInv, Places, NEW c \in Call, NEW to, Go(c, to), ~IsAt(c, "parked"),
         UNCHANGED parked, Numbered(c)'
  PROVE  Places'
<1>1. \A d \in Call : d # c => call'[d] = call[d]
  BY DEF Go, CallsInv, CallsTyped
<1>2. \A d \in Call : Numbered(d)'
  BY <1>1 DEF Places, Numbered, IsAt
<1>3. Parked'
  <2>1. ASSUME NEW i \in DOMAIN parked PROVE IsAt(parked[i], "parked")'
    <3>1. parked[i] \in Call /\ IsAt(parked[i], "parked")
      BY ElementOfSeq, LenProperties DEF Places, Parked
    <3>2. parked[i] # c
      BY <3>1
    <3> QED
      BY <1>1, <3>1, <3>2 DEF IsAt
  <2> QED
    BY <2>1 DEF Places, Parked
<1> QED
  BY <1>2, <1>3 DEF Places

\* A call that parks.
LEMMA ParkKeepsPlaces ==
  ASSUME CallsInv, Places, NEW c \in Call, Go(c, At("parked", 0, 0)), IsAt(c, "granted"),
         parked' = Append(parked, c)
  PROVE  Places'
<1>0. /\ parked \in Seq(Call) /\ DOMAIN parked = 1 .. Len(parked) /\ Len(parked) \in Nat
      /\ \A i \in DOMAIN parked : parked[i] \in Call /\ IsAt(parked[i], "parked")
  BY ElementOfSeq, LenProperties DEF Places, Parked
<1>1. call'[c] = At("parked", 0, 0) /\ \A d \in Call : d # c => call'[d] = call[d]
  BY DEF Go, CallsInv, CallsTyped
<1>2. \A d \in Call : Numbered(d)'
  BY <1>1 DEF Places, Numbered, IsAt, At, Busy
<1>3. /\ parked' \in Seq(Call) /\ DOMAIN parked' = 1 .. Len(parked) + 1
      /\ \A i \in 1 .. Len(parked) : parked'[i] = parked[i]
      /\ parked'[Len(parked) + 1] = c
  BY <1>0, AppendProperties
<1>4. \A i \in DOMAIN parked : parked[i] # c
  BY <1>0 DEF IsAt
<1>5. \A i \in DOMAIN parked' : call'[parked'[i]].pc = "parked"
  BY <1>0, <1>1, <1>3, <1>4 DEF IsAt, At
<1>6. \A i, j \in DOMAIN parked' : parked'[i] = parked'[j] => i = j
  BY <1>0, <1>3, <1>4 DEF Places, Parked
<1> QED
  BY <1>2, <1>3, <1>5, <1>6 DEF Places, Parked, IsAt

\* A call that ends and wakes the first of the parked ones.
LEMMA ReleaseKeepsPlaces ==
  ASSUME CallsInv, Places, NEW c \in Call, NEW end, ReleaseTo(c, end),
         IsAt(c, "calling"), end.pc \in {"completed", "failed", "exhausted"}
  PROVE  Places'
<1>0. /\ parked \in Seq(Call) /\ DOMAIN parked = 1 .. Len(parked) /\ Len(parked) \in Nat
      /\ \A i \in DOMAIN parked : parked[i] \in Call /\ IsAt(parked[i], "parked")
  BY ElementOfSeq, LenProperties DEF Places, Parked
<1>1. \A d \in Call : Numbered(d)'
  <2>1. ASSUME NEW d \in Call PROVE call'[d] \in {end, At("woken", 0, 0), call[d]}
    BY DEF ReleaseTo
  <2>2. ASSUME NEW d \in Call, call'[d] \in {end, At("woken", 0, 0)} PROVE Numbered(d)'
    BY <2>2 DEF Numbered, IsAt, At, Acquiring, Busy
  <2>3. ASSUME NEW d \in Call, call'[d] = call[d] PROVE Numbered(d)'
    BY <2>3 DEF Places, Numbered, IsAt
  <2> QED
    BY <2>1, <2>2, <2>3
<1>2. CASE parked = <<>>
  <2>1. parked' = <<>>
    BY <1>2 DEF ReleaseTo
  <2> QED
    BY <1>1, <1>2, <2>1 DEF Places, Parked
<1>3. CASE parked # <<>>
  <2>0. Len(parked) > 0 /\ Head(parked) = parked[1]
    BY <1>0, <1>3, EmptySeq
  <2>1. /\ parked' \in Seq(Call) /\ Len(parked') = Len(parked) - 1
        /\ \A i \in 1 .. Len(parked) - 1 : parked'[i] = parked[i + 1]
    BY <1>0, <1>3, HeadTailProperties DEF ReleaseTo
  <2>2. DOMAIN parked' = 1 .. Len(parked) - 1
    BY <2>1, LenProperties
  <2>3. ASSUME NEW i \in DOMAIN parked' PROVE call'[parked'[i]].pc = "parked"
    <3>1. i + 1 \in DOMAIN parked /\ i + 1 # 1 /\ 1 \in DOMAIN parked /\ parked'[i] = parked[i + 1]
      BY <1>0, <2>0, <2>1, <2>2
    <3>2. parked[i + 1] # parked[1]
      BY <3>1 DEF Places, Parked
    <3>3. parked[i + 1] \in Call /\ IsAt(parked[i + 1], "parked")
      BY <1>0, <3>1
    <3>4. parked[i + 1] # c
      BY <3>3 DEF IsAt
    <3>5. call'[parked[i + 1]] = call[parked[i + 1]]
      BY <2>0, <3>2, <3>3, <3>4 DEF ReleaseTo
    <3> QED
      BY <3>1, <3>3, <3>5 DEF IsAt
  <2>4. ASSUME NEW i \in DOMAIN parked', NEW j \in DOMAIN parked', parked'[i] = parked'[j]
        PROVE  i = j
    <3>1. i + 1 \in DOMAIN parked /\ j + 1 \in DOMAIN parked /\ i \in Int /\ j \in Int
      BY <1>0, <2>2
    <3>2. i + 1 = j + 1
      BY <2>1, <2>2, <2>4, <3>1 DEF Places, Parked
    <3> QED
      BY <3>1, <3>2
  <2> QED
    BY <1>1, <2>1, <2>3, <2>4 DEF Places, Parked, IsAt
<1> QED
  BY <1>2, <1>3

LEMMA StepKeepsPlaces ==
  ASSUME CallsInv, Places, NEW c \in Call, CallStep(c)
  PROVE  Places'
<1>0. call \in [Call -> CallRecord] /\ Numbered(c) /\ Kept(c) /\ maxAttempts \in Nat \ {0}
  BY RetryAssumption DEF CallsInv, CallsTyped, Places
<1>1. ASSUME NEW to, Go(c, to) PROVE call'[c] = to
  BY <1>0, <1>1 DEF Go
<1>2. ASSUME NEW to, Go(c, to), ~IsAt(c, "parked"), UNCHANGED parked, Numbered(c)' PROVE Places'
  BY <1>2, GoKeepsPlaces
<1>3. CASE Blocked(c) \/ Execute(c) \/ Enqueue(c) \/ Grant(c) \/ QueueTimeout(c) \/ Resume(c)
           \/ Thrown(c) \/ Retry(c)
  <2>1. PICK to : Go(c, to)
    BY <1>3 DEF Blocked, Execute, StoreAnswers, Enqueue, Grant, QueueTimeout, Resume, Thrown, Retry,
                Attempt, Reject, GoEnd
  <2>2. ~IsAt(c, "parked") /\ UNCHANGED parked
    BY <1>3 DEF Blocked, Execute, Enqueue, Grant, QueueTimeout, Resume, Thrown, Retry, IsAt
  <2>3. CASE Blocked(c) \/ Execute(c) \/ Enqueue(c) \/ Grant(c) \/ QueueTimeout(c)
    <3>1. call'[c].pc \in {"circuit-open", "granted", "refused", "waiting", "rejected"}
          /\ call'[c].attempt = 0
      BY <1>1, <2>3 DEF Blocked, Execute, StoreAnswers, Enqueue, Grant, QueueTimeout, Reject, At
    <3> QED
      BY <1>2, <2>1, <2>2, <3>1 DEF Numbered, IsAt, Busy
  <2>4. CASE Resume(c)
    <3>1. call'[c].pc = "calling" /\ call'[c].attempt = 1
      BY <1>1, <2>4 DEF Resume, Attempt, At
    <3> QED
      BY <1>0, <1>2, <2>1, <2>2, <3>1 DEF Numbered, IsAt, Acquiring
  <2>5. CASE Thrown(c)
    <3>1. call'[c].pc \in {"aborted", "queue-full", "queue-timeout"}
      BY <1>0, <1>1, <2>5 DEF Thrown, GoEnd, At, IsAt, Kept, CallRecord
    <3> QED
      BY <1>2, <2>1, <2>2, <3>1 DEF Numbered, IsAt, Acquiring, Busy
  <2>6. CASE Retry(c)
    <3>1. call[c].attempt \in 1 .. maxAttempts /\ call[c].attempt # maxAttempts
      BY <1>0, <2>6 DEF Retry, IsAt, Numbered, Busy
    <3>2. call'[c].pc = "calling" /\ call'[c].attempt = call[c].attempt + 1
      BY <1>1, <2>6 DEF Retry, Attempt, At
    <3>3. call'[c].attempt \in 1 .. maxAttempts
      BY <1>0, <3>1, <3>2
    <3> QED
      BY <1>2, <2>1, <2>2, <3>2, <3>3 DEF Numbered, IsAt, Acquiring
  <2> QED
    BY <1>3, <2>3, <2>4, <2>5, <2>6
<1>4. CASE TakeSlot(c)
  <2>1. IsAt(c, "granted") /\ ~IsAt(c, "parked")
    BY <1>4 DEF TakeSlot, IsAt
  <2>2. CASE Attempt(c, 1) /\ UNCHANGED parked
    <3>1. call'[c].pc = "calling" /\ call'[c].attempt = 1
      BY <1>1, <2>2 DEF Attempt, At
    <3> QED
      BY <1>0, <1>2, <2>1, <2>2, <3>1 DEF Attempt, Numbered, IsAt, Acquiring
  <2>3. CASE Reject(c, "aborted") /\ UNCHANGED parked
    <3>1. call'[c].pc = "rejected" /\ call'[c].attempt = 0
      BY <1>1, <2>3 DEF Reject, At
    <3> QED
      BY <1>2, <2>1, <2>3, <3>1 DEF Reject, Numbered, IsAt, Busy
  <2>4. CASE Go(c, At("parked", 0, 0)) /\ parked' = Append(parked, c)
    BY <2>1, <2>4, ParkKeepsPlaces
  <2> QED
    BY <1>4, <2>2, <2>3, <2>4 DEF TakeSlot
<1>5. CASE Abort(c)
  <2>1. Places /\ Parked /\ parked' = RemoveFirst(parked, c)
    BY <1>5 DEF Abort, Places
  <2>2. /\ parked' \in Seq(Call)
        /\ \A i \in DOMAIN parked' : parked'[i] # c
        /\ \A i \in DOMAIN parked' : \E j \in DOMAIN parked : parked'[i] = parked[j]
        /\ \A i, j \in DOMAIN parked' : parked'[i] = parked'[j] => i = j
    BY <2>1, ParkedWithout
  <2>3. \A i \in DOMAIN parked : parked[i] \in Call /\ IsAt(parked[i], "parked")
    BY ElementOfSeq, LenProperties DEF Places, Parked
  <2>4. /\ \A d \in Call : d # c => call'[d] = call[d]
        /\ call'[c] = call[c] \/ (call'[c].pc = "rejected" /\ call'[c].attempt = 0)
    BY <1>0, <1>5 DEF Abort, Reject, Go, At
  <2>5. \A d \in Call : Numbered(d)'
    BY <2>4 DEF Places, Numbered, IsAt, Busy
  <2>6. \A i \in DOMAIN parked' : call'[parked'[i]].pc = "parked"
    BY <2>2, <2>3, <2>4 DEF IsAt
  <2> QED
    BY <2>2, <2>5, <2>6 DEF Places, Parked, IsAt
<1>6. CASE Answer(c)
  BY <1>6, ReleaseKeepsPlaces DEF Answer, At
<1>7. ASSUME NEW error \in Error, GiveUp(c, error) PROVE Places'
  <2>1. PICK outcome \in {"failed", "exhausted"} : ReleaseTo(c, At(outcome, call[c].attempt, 0))
    BY <1>7 DEF GiveUp
  <2>2. IsAt(c, "calling") /\ At(outcome, call[c].attempt, 0).pc = outcome
    BY <1>7 DEF GiveUp, At
  <2> QED
    BY <2>1, <2>2, ReleaseKeepsPlaces
<1>8. ASSUME NEW error \in Error, Sleep(c, error) PROVE Places'
  <2>1. PICK time : Go(c, At("sleeping", call[c].attempt, time))
    BY <1>8 DEF Sleep
  <2>2. IsAt(c, "calling") /\ call[c].attempt # maxAttempts /\ UNCHANGED parked
    BY <1>8 DEF Sleep, LastAttempt
  <2>3. call[c].attempt \in 1 .. maxAttempts /\ ~IsAt(c, "parked")
    BY <1>0, <2>2 DEF Numbered, IsAt, Busy
  <2>4. call'[c].pc = "sleeping" /\ call'[c].attempt = call[c].attempt
    BY <1>1, <2>1 DEF At
  <2> QED
    BY <1>2, <2>1, <2>2, <2>3, <2>4 DEF Numbered, IsAt, Acquiring
<1> QED
  BY <1>3, <1>4, <1>5, <1>6, <1>7, <1>8 DEF CallStep, Microtask

LEMMA PlacesAndCounts ==
  CallsInv /\ Places /\ Counted /\ [CallsNext]_attemptsVars => Places' /\ Counted'
<1> SUFFICES ASSUME CallsInv, Places, Counted, [CallsNext]_attemptsVars
             PROVE  Places' /\ Counted'
  OBVIOUS
<1>1. ASSUME NEW c \in Call, CallStep(c) PROVE Places' /\ Counted'
  BY <1>1, StepKeepsPlaces, StepCounts
<1>2. CASE TickCalls \/ UNCHANGED attemptsVars
  <2>1. UNCHANGED <<call, parked, metrics>>
    BY <1>2 DEF TickCalls, attemptsVars, callVars, observerVars
  <2>2. Places'
    BY <2>1 DEF Places, Parked, Numbered, IsAt
  <2>3. \A c \in Call : Unseen(c)
    BY <2>1 DEF Unseen, IsAt, Announced
  <2> QED
    BY <2>1, <2>2, <2>3, NothingCounted
<1> QED
  BY <1>1, <1>2 DEF CallsNext

\* The exporters miss no call and count none twice.
THEOREM CallsMetricsAgree == CallsSpec => []MetricsAgree
<1>1. CallsInit => Places /\ Counted
  <2> SUFFICES ASSUME CallsInit PROVE Places /\ Counted
    OBVIOUS
  <2>1. \A c \in Call : call[c] = At("idle", 0, 0)
    BY DEF CallsInit
  <2>2. parked = <<>> /\ metrics = [completed |-> 0, dropped |-> 0, retrying |-> 0]
    BY DEF CallsInit
  <2>3. Places
    BY <2>1, <2>2 DEF Places, Parked, Numbered, IsAt, At, Busy
  <2>4. Completed = {} /\ Turned = {}
    BY <2>1 DEF Completed, Turned, IsAt, At, Dropped
  <2>5. Retried = {}
    <3>1. ASSUME NEW p \in Call \X (2 .. maxAttempts) PROVE ~(p[2] <= Announced(p[1]))
      <4>1. p[1] \in Call /\ p[2] \in 2 .. maxAttempts
        OBVIOUS
      <4>2. Announced(p[1]) = 0
        BY <2>1, <4>1 DEF Announced, IsAt, At
      <4> QED
        BY <4>1, <4>2, RetryAssumption
    <3> QED
      BY <3>1 DEF Retried
  <2> QED
    BY <2>2, <2>3, <2>4, <2>5, FS_EmptySet DEF Counted
<1>2. Counted => MetricsAgree
  BY DEF Counted, MetricsAgree, Completed, Turned, Retried
<1> QED
  BY <1>1, <1>2, PlacesAndCounts, CallsInvHolds, PTL DEF CallsSpec
=============================================================================
