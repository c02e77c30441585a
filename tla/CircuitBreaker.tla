---------------------------- MODULE CircuitBreaker ----------------------------
(***************************************************************************)
(* CircuitBreaker (src/src/core/circuit-breaker.ts) of one key, with the   *)
(* calls of Pipeline.execute around it (src/src/core/pipeline.ts): the     *)
(* check before a call, then, any time later and in any order, its end.    *)
(***************************************************************************)
EXTENDS Integers, FiniteSets

CONSTANTS
  Call,        \* the callers, each with one call at a time
  threshold,   \* failureThreshold
  cooldown     \* cooldownMs

ASSUME BreakerAssumption == threshold \in Nat \ {0} /\ cooldown \in Nat

VARIABLES
  now,         \* Date.now(), above 0
  state, failures, openedAt,
  inFlight,    \* the callers that were let through and have not reported yet
  streak,      \* history: failures recorded since the last success
  lastOpened   \* history: when the circuit last opened or re-opened, 0 if a
               \* success was recorded since

breakerVars == <<state, failures, openedAt>>
vars == <<now, breakerVars, inFlight, streak, lastOpened>>

\* How a call ends: with an answer; with an error that has a status listed in
\* tripOn, or another status (429, 4xx); with an error without status, from the
\* network or because the caller aborted; or before it began, because acquire threw.
Outcome == {"ok", "tripOn", "otherStatus", "network", "aborted", "notRun"}

Init ==
  /\ now = 1
  /\ state = "CLOSED" /\ failures = 0 /\ openedAt = 0
  /\ inFlight = {}
  /\ streak = 0 /\ lastOpened = 0

-----------------------------------------------------------------------------
\* What isOpen answers.
Blocks == state = "OPEN" /\ now < openedAt + cooldown

\* execute asks isOpen, which turns an OPEN circuit HALF_OPEN after the cooldown, and
\* goes on unless it is blocked.
Check(c) ==
  /\ c \notin inFlight
  /\ ~Blocks
  /\ state' = IF state = "OPEN" THEN "HALF_OPEN" ELSE state
  /\ inFlight' = inFlight \cup {c}
  /\ UNCHANGED <<now, failures, openedAt, streak, lastOpened>>

recordSuccessKeepingCount ==   \* mutant
  state' = "CLOSED" /\ UNCHANGED <<failures, openedAt>>

recordSuccess ==
  state' = "CLOSED" /\ failures' = 0 /\ UNCHANGED openedAt

recordFailureKeepingTime ==   \* mutant: a failed probe does not restart the cooldown
  IF state = "HALF_OPEN" THEN state' = "OPEN" /\ UNCHANGED <<failures, openedAt>>
  ELSE IF state = "OPEN" THEN UNCHANGED breakerVars
  ELSE LET opens == failures + 1 >= threshold
       IN  /\ failures' = IF opens THEN 0 ELSE failures + 1
           /\ state' = IF opens THEN "OPEN" ELSE state
           /\ openedAt' = IF opens THEN now ELSE openedAt

recordFailure ==
  LET opens == failures + 1 >= threshold
  IN  \/ state = "HALF_OPEN" /\ state' = "OPEN" /\ openedAt' = now /\ UNCHANGED failures
      \/ state = "OPEN" /\ UNCHANGED breakerVars
      \/ /\ state = "CLOSED" /\ ~opens
         /\ failures' = failures + 1 /\ UNCHANGED <<state, openedAt>>
      \/ /\ state = "CLOSED" /\ opens
         /\ state' = "OPEN" /\ openedAt' = now /\ failures' = 0

Succeed(c) ==
  /\ c \in inFlight
  /\ recordSuccess
  /\ inFlight' = inFlight \ {c}
  /\ streak' = 0 /\ lastOpened' = 0
  /\ UNCHANGED now

\* No status (extractStatus finds none), or a status of tripOn.
ShouldTrip(outcome) == outcome \in {"tripOn", "network", "aborted"}

Fail(c, outcome) ==
  /\ c \in inFlight /\ ShouldTrip(outcome)
  /\ recordFailure
  /\ inFlight' = inFlight \ {c}
  /\ streak' = IF state = "CLOSED" /\ streak < threshold THEN streak + 1 ELSE streak
  /\ lastOpened' = IF state # "OPEN" /\ state' = "OPEN" THEN now ELSE lastOpened
  /\ UNCHANGED now

\* Any other end tells the breaker nothing.
EndUnrecorded(c, outcome) ==
  /\ c \in inFlight /\ outcome # "ok" /\ ~ShouldTrip(outcome)
  /\ inFlight' = inFlight \ {c}
  /\ UNCHANGED <<now, breakerVars, streak, lastOpened>>

Tick == now' = now + 1 /\ UNCHANGED <<breakerVars, inFlight, streak, lastOpened>>

BreakerNext ==
  \E c \in Call :
    \/ Check(c)
    \/ Succeed(c)
    \/ \E outcome \in Outcome : Fail(c, outcome) \/ EndUnrecorded(c, outcome)

Next == BreakerNext \/ Tick

Spec == Init /\ [][Next]_vars
-----------------------------------------------------------------------------
(* Properties. *)

\* Types.  The count of failures stays below the threshold: it is cleared on opening.
TypeOK ==
  /\ now \in Nat \ {0}
  /\ state \in {"CLOSED", "OPEN", "HALF_OPEN"}
  /\ failures \in 0 .. threshold - 1
  /\ openedAt \in Nat
  /\ inFlight \subseteq Call
  /\ streak \in 0 .. threshold
  /\ lastOpened \in Nat

\* The circuit opens only on 'threshold' failures in a row: with answers of calls
\* from before and after an earlier opening coming in, no success lies between the
\* failures that open it.  (Errors that do not count lie between them freely.)
OpensOnlyOnStreak == [][state = "CLOSED" /\ state' = "OPEN" => streak' >= threshold]_vars

\* Calls are blocked exactly for one cooldown after the circuit last opened, unless a
\* success closed it since.  However the results of old calls and probes interleave,
\* no cooldown is cut short or prolonged, and a probe that never reports (its acquire
\* threw, its error does not count) does not keep the circuit shut.
BlocksExactlyDuringCooldown ==
  Blocks <=> lastOpened # 0 /\ now < lastOpened + cooldown
=============================================================================
