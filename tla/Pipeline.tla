------------------------------ MODULE Pipeline ------------------------------
(***************************************************************************)
(* The life of a request through Pipeline.execute                          *)
(* (src/src/core/pipeline.ts) and withRetry (src/src/core/retry-manager.ts)*)
(* as the AI SDK middleware calls them                                     *)
(* (src/src/adapters/vercel-ai-sdk.ts): sharing of calls by dedupKey, the  *)
(* shutdown guard, the slot, attempts, call timeouts, usage, shutdown and  *)
(* reset.                                                                  *)
(*                                                                         *)
(* What the checks before the slot decide is left open here and modelled   *)
(* elsewhere: the budget in CostTracker, the breaker in CircuitBreaker, the *)
(* queue and the semaphore in RateLimitEngine.  All calls are for one      *)
(* model, some of them under a scope, which has a key of its own; what a   *)
(* call does between two awaits is one step.                               *)
(***************************************************************************)
EXTENDS Integers, FiniteSets

CONSTANTS
  Call,            \* calls of execute
  dedupKey,        \* the deduplication key of each, or NoKey
  Nobody, NoKey,
  maxAttempts,
  callTimeout,     \* of one attempt; Undefined when calls may take for ever
  Undefined,
  Delay,           \* waits before a retry: Retry-After, or the computed backoff
  drainMs,         \* of shutdown
  Scoped,              \* the calls made under the scope
  scopeMaxConcurrent   \* maxConcurrent of the scope, or Undefined

ASSUME PipelineAssumption ==
  /\ Nobody \notin Call
  /\ NoKey \in {dedupKey[c] : c \in Call} \cup {NoKey}
  /\ maxAttempts \in Nat \ {0}
  /\ callTimeout \in Nat \cup {Undefined} /\ Undefined \notin Nat
  /\ Delay \subseteq Nat /\ drainMs \in Nat
  /\ Scoped \subseteq Call

DedupKey == {dedupKey[c] : c \in Call} \ {NoKey}

VARIABLES
  now,
  exec,       \* the execution of each call: where it is, its attempt, and since or until when
  follows,    \* the call whose execution a call shares; itself when it has its own
  dedupMap,   \* key -> the call that leads the execution in flight
  active,     \* activeCount of the scope's key, the only one engine.totalActive() may find above 0
  cleaned,    \* the executions whose entry in dedupMap was deleted
  result,     \* what a caller was given
  charges,    \* history: how often recordUsage was called for an execution
  shutdown,   \* whether shutdown was called, is still polling, its deadline
  draining,   \* history: the calls that held a slot when shutdown was called
  wasReset    \* history

vars == <<now, exec, follows, dedupMap, active, cleaned, result, charges,
          shutdown, draining, wasReset>>

At(pc, attempt, time) == [pc |-> pc, attempt |-> attempt, time |-> time]
IsAt(c, pc) == exec[c].pc = pc
Holding(c) == IsAt(c, "calling") \/ IsAt(c, "retrying")

Init ==
  /\ now = 1
  /\ exec = [c \in Call |-> At("idle", 0, 0)]
  /\ follows = [c \in Call |-> Nobody]
  /\ dedupMap = [k \in DedupKey |-> Nobody]
  /\ active = 0
  /\ cleaned = {}
  /\ result = [c \in Call |-> "none"]
  /\ charges = [c \in Call |-> 0]
  /\ shutdown = [requested |-> FALSE, polling |-> FALSE, deadline |-> 0]
  /\ draining = {}
  /\ wasReset = FALSE

-----------------------------------------------------------------------------
(* From the call of execute to the slot. *)

Move(c, state) == exec' = [exec EXCEPT ![c] = state]

\* The promise of an execution rejects or resolves.
Failed == At("failed", 0, 0)
Resolved == At("resolved", 0, 0)
Settled(c) == IsAt(c, "failed") \/ IsAt(c, "resolved")

\* The execution in flight for the key of a call.
Leader(c) == IF dedupKey[c] = NoKey THEN Nobody ELSE dedupMap[dedupKey[c]]

\* A call with the key of one in flight shares its promise, during a shutdown too.
Share(c) ==
  /\ follows[c] = Nobody
  /\ Leader(c) # Nobody
  /\ follows' = [follows EXCEPT ![c] = Leader(c)]
  /\ UNCHANGED <<now, exec, dedupMap, active, cleaned, result, charges, shutdown, draining, wasReset>>

RegisterNone(c) == UNCHANGED dedupMap   \* mutant

Register(c) ==
  dedupMap' = IF dedupKey[c] = NoKey THEN dedupMap ELSE [dedupMap EXCEPT ![dedupKey[c]] = c]

\* Any other call executes: it is turned away after a shutdown, held or turned away by
\* the budget, turned away by the breaker, or asks the engine for a slot.
Enter(c) ==
  /\ follows[c] = Nobody
  /\ Leader(c) = Nobody
  /\ follows' = [follows EXCEPT ![c] = c]
  /\ Register(c)
  /\ \/ Move(c, Failed)
     \/ ~shutdown.requested /\ \E pc \in {"held", "asking"} : Move(c, At(pc, 0, 0))
  /\ UNCHANGED <<now, active, cleaned, result, charges, shutdown, draining, wasReset>>

\* The budget lets a held call go on, or it times out.  The shutdown guard is behind it.
HeldEnds(c) ==
  /\ IsAt(c, "held")
  /\ Move(c, At("asking", 0, 0)) \/ Move(c, Failed)
  /\ UNCHANGED <<now, follows, dedupMap, active, cleaned, result, charges, shutdown, draining, wasReset>>

\* The store refused and the call waits in the engine.
Queue(c) ==
  /\ IsAt(c, "asking")
  /\ Move(c, At("queued", 0, 0))
  /\ UNCHANGED <<now, follows, dedupMap, active, cleaned, result, charges, shutdown, draining, wasReset>>

\* acquire rejects: queue full, timeout, abort, an error of the store.
Refused(c) ==
  /\ IsAt(c, "asking") \/ IsAt(c, "queued")
  /\ Move(c, Failed)
  /\ UNCHANGED <<now, follows, dedupMap, active, cleaned, result, charges, shutdown, draining, wasReset>>

\* The registry copies five fields of a model's entry in config.limits; maxConcurrent is
\* not among them, whatever the entry says.
ModelMaxConcurrent == Undefined

\* mergeScopeLimits: a scope's maxConcurrent is the only one that reaches the engine.
MaxConcurrent(c) ==
  IF c \in Scoped /\ scopeMaxConcurrent # Undefined THEN scopeMaxConcurrent ELSE ModelMaxConcurrent

\* The engine counts only the calls that have one.
Counts(c) == MaxConcurrent(c) # Undefined

\* fn() is called for the n-th time.
Attempt(c, n) == Move(c, At("calling", n, now))

\* acquire resolves and the first attempt starts.  An acquire from before a reset counts
\* itself in a state of the engine that is no longer found.
Admitted(c) ==
  /\ IsAt(c, "asking") \/ IsAt(c, "queued")
  /\ Attempt(c, 1)
  /\ \/ active' = IF Counts(c) THEN active + 1 ELSE active
     \/ wasReset /\ UNCHANGED active
  /\ UNCHANGED <<now, follows, dedupMap, cleaned, result, charges, shutdown, draining, wasReset>>

-----------------------------------------------------------------------------
(* Attempts. *)

\* engine.release in the finally block, for the key of the call.
Released(c) == IF Counts(c) /\ active > 0 THEN active - 1 ELSE active

\* The execution is over and gives its slot back.
Settle(c, state) == Move(c, state) /\ active' = Released(c)

LastAttempt(c) == exec[c].attempt = maxAttempts

\* An attempt failed in a way that is worth another: wait, or give up after the last.
RetryOrGiveUp(c) ==
  \/ LastAttempt(c) /\ Settle(c, Failed)
  \/ /\ ~LastAttempt(c)
     /\ \E d \in Delay : Move(c, At("retrying", exec[c].attempt, now + d))
     /\ UNCHANGED active

\* What withRetry makes of an answer: ok, an error worth another attempt, or a fatal one.
Hear(c) == Settle(c, Resolved) \/ Settle(c, Failed) \/ RetryOrGiveUp(c)

\* The provider answers an attempt.
Answer(c) ==
  /\ IsAt(c, "calling")
  /\ Hear(c)
  /\ UNCHANGED <<now, follows, dedupMap, cleaned, result, charges, shutdown, draining, wasReset>>

TimeoutDueOnce(c) ==   \* mutant
  /\ callTimeout # Undefined /\ exec[c].attempt = 1
  /\ IsAt(c, "calling") /\ now >= exec[c].time + callTimeout

TimeoutDue(c) ==
  callTimeout # Undefined /\ IsAt(c, "calling") /\ now >= exec[c].time + callTimeout

\* The attempt lost the race; the error has no status.  The provider call runs on, and
\* nobody hears how it ends.
TimesOut(c) ==
  /\ TimeoutDue(c)
  /\ RetryOrGiveUp(c)
  /\ UNCHANGED <<now, follows, dedupMap, cleaned, result, charges, shutdown, draining, wasReset>>

\* The wait before a retry is over.  The slot is still held; the engine is not asked.
Retry(c) ==
  /\ IsAt(c, "retrying") /\ now >= exec[c].time
  /\ Attempt(c, exec[c].attempt + 1)
  /\ UNCHANGED <<now, follows, dedupMap, active, cleaned, result, charges, shutdown, draining, wasReset>>

-----------------------------------------------------------------------------
(* From the end of the execution to its callers. *)

DeletedOnSuccess(c) ==   \* mutant: then instead of finally
  dedupMap' = IF IsAt(c, "resolved") THEN [dedupMap EXCEPT ![dedupKey[c]] = Nobody] ELSE dedupMap

Deleted(c) == dedupMap' = [dedupMap EXCEPT ![dedupKey[c]] = Nobody]

\* The finally callback of the shared promise, whoever holds the entry by now.
Cleanup(c) ==
  /\ Settled(c) /\ dedupKey[c] # NoKey /\ c \notin cleaned
  /\ cleaned' = cleaned \cup {c}
  /\ Deleted(c)
  /\ UNCHANGED <<now, exec, follows, active, result, charges, shutdown, draining, wasReset>>

\* A caller goes on behind its await, and records the usage of a result.
Deliver(c) ==
  LET leader == follows[c] IN
  /\ leader # Nobody /\ result[c] = "none"
  /\ Settled(leader) /\ (dedupKey[leader] = NoKey \/ leader \in cleaned)
  /\ result' = [result EXCEPT ![c] = exec[leader].pc]
  /\ charges' = IF IsAt(leader, "resolved") THEN [charges EXCEPT ![leader] = @ + 1] ELSE charges
  /\ UNCHANGED <<now, exec, follows, dedupMap, active, cleaned, shutdown, draining, wasReset>>

-----------------------------------------------------------------------------
(* shutdown and reset. *)

StillActiveButOne == active > 1   \* mutant

StillActive == active > 0

\* engine.shutdown rejects all that are queued.
QueuedRejected == exec' = [c \in Call |-> IF IsAt(c, "queued") THEN Failed ELSE exec[c]]

\* shutdown, up to its first sleep or its return.
Shutdown ==
  /\ ~shutdown.requested
  /\ QueuedRejected
  /\ shutdown' = [requested |-> TRUE, polling |-> StillActive /\ drainMs > 0,
                  deadline |-> now + drainMs]
  /\ draining' = {c \in Call : Holding(c)}
  /\ UNCHANGED <<now, follows, dedupMap, active, cleaned, result, charges, wasReset>>

\* A poll finds nothing active, or the deadline passed, and shutdown returns.
ShutdownReturns ==
  /\ shutdown.polling
  /\ ~StillActive \/ now >= shutdown.deadline
  /\ shutdown' = [shutdown EXCEPT !.polling = FALSE]
  /\ UNCHANGED <<now, exec, follows, dedupMap, active, cleaned, result, charges,
                 draining, wasReset>>

\* reset forgets everything but the executions themselves.
Reset ==
  /\ QueuedRejected
  /\ dedupMap' = [k \in DedupKey |-> Nobody]
  /\ active' = 0
  /\ shutdown' = [shutdown EXCEPT !.requested = FALSE]
  /\ wasReset' = TRUE
  /\ UNCHANGED <<now, follows, cleaned, result, charges, draining>>

Tick ==
  /\ now' = now + 1
  /\ UNCHANGED <<exec, follows, dedupMap, active, cleaned, result, charges,
                 shutdown, draining, wasReset>>

\* What goes on by itself: timers and promises.
Progress(c) == HeldEnds(c) \/ TimesOut(c) \/ Retry(c) \/ Cleanup(c) \/ Deliver(c)

\* acquire settles.
Acquired(c) == Refused(c) \/ Admitted(c)

PipelineStep ==
  \/ \E c \in Call : Queue(c) \/ Acquired(c) \/ Answer(c) \/ Progress(c)
  \/ Shutdown \/ ShutdownReturns

Begin(c) == Share(c) \/ Enter(c)

Next == PipelineStep \/ Reset \/ (\E c \in Call : Begin(c)) \/ Tick

\* The provider need never answer.  The engine settles every acquire (Settles of
\* RateLimitEngine), but an acquire that a reset overtakes may stay parked in a state the
\* engine has dropped: nothing is promised of acquires from then on.
Fairness ==
  \A c \in Call : WF_vars(Progress(c)) /\ WF_vars(~wasReset /\ Acquired(c))

Spec == Init /\ [][Next]_vars
-----------------------------------------------------------------------------
(* Properties. *)

PC == {"idle", "held", "asking", "queued", "calling", "retrying", "failed", "resolved"}

\* Types; no execution makes more than maxAttempts attempts, and short of a reset the
\* engine counts exactly the executions with a maxConcurrent between their admission and
\* their end.
TypeOK ==
  /\ now \in Nat
  /\ exec \in [Call -> [pc : PC, attempt : 0 .. maxAttempts, time : Nat]]
  /\ follows \in [Call -> Call \cup {Nobody}]
  /\ dedupMap \in [DedupKey -> Call \cup {Nobody}]
  /\ active \in Nat
  /\ ~wasReset => active = Cardinality({c \in Call : Counts(c) /\ Holding(c)})
  /\ cleaned \subseteq Call /\ draining \subseteq Call
  /\ result \in [Call -> {"none", "failed", "resolved"}]
  /\ charges \in [Call -> Nat]
  /\ wasReset \in BOOLEAN

\* The execution of call c is under way.
InFlight(c) == follows[c] = c /\ ~Settled(c)

\* Concurrent calls with the same key share one execution: whatever fails, times out or
\* is turned away, no two executions of a key are under way at once.  A reset ends this
\* promise: the clean-up of an execution from before it deletes the entry of a later one.
OneExecutionPerKey ==
  ~wasReset =>
    \A a, b \in Call :
      a # b /\ dedupKey[a] = dedupKey[b] /\ dedupKey[a] # NoKey => ~(InFlight(a) /\ InFlight(b))

\* Only results in the making are shared: the entry of a key is gone when the callers
\* of its execution hear of the end, so that a retry of theirs is not given an old failure.
NothingStaleShared ==
  [][\A c \in Call :
       result'[c] # result[c] /\ ~wasReset => Leader(c) # follows[c]]_vars

\* shutdown waits for the calls of a scope with a maxConcurrent: when it returns before
\* its deadline, each of them that held a slot when it was called has ended.  It does not
\* wait for any other call, though the model's entry in config.limits has a maxConcurrent.
ShutdownWaits ==
  [][shutdown'.requested /\ ~shutdown'.polling /\ shutdown' # shutdown
       /\ now < shutdown'.deadline /\ ~wasReset =>
     \A c \in draining' : Counts(c) => ~Holding(c)]_vars

\* With a call timeout every caller is answered, though the provider may never answer,
\* unless a reset comes in between.
Settles == \A c \in Call : follows[c] # Nobody ~> result[c] # "none" \/ wasReset

-----------------------------------------------------------------------------
(* What the documentation says and the code does not do. *)

\* "only one API call is made and all callers receive the same result": the usage of
\* an execution is recorded, and its cost charged to the budget, once.
ChargedOnce == \A c \in Call : charges[c] <= 1

\* "wait up to 30s for in-flight ones to finish": no call is under way when shutdown
\* returns before its deadline, be it counted or not.
DrainsInFlight ==
  [][shutdown'.requested /\ ~shutdown'.polling /\ shutdown' # shutdown
       /\ now < shutdown'.deadline /\ ~wasReset => \A c \in draining' : ~Holding(c)]_vars
=============================================================================
