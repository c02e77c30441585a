# Verification of ai-sdk-rate-limiter

TLA+ models of the rate limiter, model-checked with TLC; every safety property
that a run checks is also proved with TLAPS, for every value of the constants. Paths below are relative to the repository; the modules and
`PROJECT.json` write them with the checkout directory `src/` in front.

* [The system](#the-system)
* [The modules](#the-modules)
* [The runs](#the-runs)
* [The proofs](#the-proofs)
* [Findings](#findings)
* [What is not modelled](#what-is-not-modelled)
* [Plan](#plan)

## The system

A request goes `wrapGenerate` (adapter) → `Pipeline.execute` → budget check →
breaker check → `RateLimitEngine.acquire` → the provider, under `withRetry` →
`release` → `recordUsage`. Everything runs in one JavaScript thread: a piece of
code is atomic up to its next `await`, and what is hard is what other requests,
timers and answers do in between. Only with Redis are there several processes.

| component | state | operations | interacts with |
| --- | --- | --- | --- |
| `RateLimitEngine` (`src/core/rate-limit-engine.ts`) | per key: sorted queue of waiters, drain timer flag, `activeCount`, list of concurrency waiters | `acquire`, `release`, `drain`, `shutdown`, `reset`, `applyBackoff` | asks the store for a slot, on arrival and from drain loops; the pipeline releases |
| `InMemoryStore` (`src/store/in-memory-store.ts`) | per key: minute window, daily window, backoff; a prune counter | `checkAndRecord`, `reconcile`, `setBackoff`, `nextSlotMs`, `snapshot`, `reset` | called by the engine |
| `RedisStore` (`src/store/redis-store.ts`) | three Redis keys per model key; `_counter` per process | the same interface, by Lua scripts | shared by processes with clocks of their own |
| `CircuitBreaker` (`src/core/circuit-breaker.ts`) | state, failure count, opening time | `isOpen`, `recordSuccess`, `recordFailure` | `execute`, before a call and at its end |
| `CostTracker` (`src/core/cost-tracker.ts`), `RedisCostStore` | log of costs; its persisted copy | `checkBudget`, `nextBudgetClearMs`, `record`, `warmUp`, `reset`, `getReport`, `getForecast` | `execute` checks and sleeps, `recordUsage` records |
| `Pipeline` (`src/core/pipeline.ts`) | map of shared calls, shutdown flag, names of keys (`keyMeta`) with the counter that prunes them | `execute`, `recordUsage`, `shutdown`, `reset`, `getStatus`, `estimatedWait` | all of the above |
| `withRetry` (`src/core/retry-manager.ts`) | attempt number of a call | reading of errors, waits told and computed, the loop of attempts | tells the breaker and the store's backoff, through `execute` |
| observers: exporters (`src/prometheus.ts`, `src/statsd.ts`, `src/otel.ts`), HTTP middleware (`src/middleware.ts`) | counters | handlers of events; answers to clients | hear the events `execute` emits, read `getStatus` |
| adapters (`src/adapters/`) | what is read of each stream; the index of a pool | `wrapGenerate`, `wrapStream`, `wrapModel`, raw proxy, model pool | call `execute`, `recordUsage`, `updateDetectedLimits` |
| limits (`pipeline.ts`, `src/registry/index.ts`) | limits learnt from headers | `resolveModelLimits`, `resolveScopedLimits`, `updateDetectedLimits` | read by `execute` for every request |

The rest (tables of the registry, text formats of the exporters, command line,
validation, token estimation) computes or formats and keeps no state that matters here.

What makes each part correct, and what makes it hard:

* **Store.** Admissions of a key never exceed `rpm` in a minute or `rpd` in a
  day, although the store forgets (evicts, prunes) all the time; a refused
  caller is told a time that is in the future, not too late, and good for
  something; a backoff is honoured; keys do not interfere. Hard: boundaries
  (`>` and `>=`, the `+ 1` of told times), pruning of all keys on the record of
  one, the same decision coded twice (`checkAndRecord` and `nextSlotMs`), and in
  Redis the disagreement of clocks, late commands, expiry, and set semantics.
* **Engine.** Nobody is lost in a queue, no drain wakeup and no concurrency slot
  is lost, the queue is bounded and drained in order, every `acquire` ends. Hard:
  a drain asks the store for a head that is gone when the answer comes, resets
  replace the state under suspended calls, a resolved promise runs later than
  the code that resolved it.
* **Breaker.** It blocks exactly for a cooldown after it opened. Hard: results of
  overlapping calls arrive in any order, before and after openings.
* **Attempts.** A wait the provider asks for is kept by the call, by newcomers and by
  the queue; what does not count against the breaker does not reach it, however
  errors are wrapped; observers that add up events know the truth; a client told to
  come back is not blocked again. Hard: overlapping calls tell different waits, are
  parked or aborted meanwhile, and events are emitted on some edges only.
* **Status.** Busy keys are shown by name, and `estimatedWait` is 0 exactly when a
  request would go through. Hard: names are pruned in the middle of one call by what
  the window and the queue of all keys hold at that moment.
* **Budget.** The cap holds against all that was spent, across restarts; a
  request held for the budget is neither woken late nor held for ever; reports tell
  what was spent. Hard:
  three rolling periods with different edges, costs arriving during sleeps and
  during `warmUp`, appends and loads that fail without a word.
* **Pipeline.** One execution per deduplication key, no stale result shared,
  `shutdown` waits for the calls that are counted, every caller is answered. Hard: failures,
  timeouts and turned-away executions that must all clean up.
* **Adapters.** Usage is recorded once, in full, and under the key whose slot was
  taken; a pool spreads its calls in turn; the limit in force is that of the scope, else
  that of the model's own entry in the configuration, else what a header last told, else
  that of the registry. Hard: chunks of several kinds that tell parts, streams that end,
  break off or are read again, entries that hide others, calls that overlap and share
  budget, index and learnt limits.

`PROJECT.json` lists the hazards one by one, at their lines, with the
properties that watch them.

## The modules

Names follow the source. One action stands for one handler, up to its next
`await`; what is after the `await` is another action. Definitions marked
`\* mutant` are not part of a specification: each is a plausible bug in the
definition after it, and the properties are checked to notice it.

| module | models | main actions |
| --- | --- | --- |
| `SlidingWindow` | the arithmetic of windows: eviction, the four limits, told times | (operators) |
| `StorePromise` | what a `RateLimitStore` promises (`src/store/interface.ts`) | `Admit`, `Forget`, `Wait` |
| `InMemoryStore` | every method of the store | `Record`, `Refuse`, `Reconcile`, `SetBackoff`, `NextSlotMs`, `Snapshot`, `Reset` |
| `RedisStore` | processes that send commands, and the scripts that Redis runs | `Send…`, `CheckAndRecord`, `Reconcile`, `SetBackoff`, `NextSlot`, `Disconnect` |
| `PriorityQueue` | `insertWaiter` and its binary search | (operators) |
| `RateLimitEngine` | `acquire`, the drain loop, the semaphore, for one key | `Arrive`, `Admit`, `Enqueue`, `RejectFull`, `Proceed`, `Resume`, `Finish`, `FireDrain`, `DrainBlocked`, `DrainGrants`, `TimeoutFires`, `Abort`, `Shutdown`, `Reset` |
| `CircuitBreaker` | the breaker and the calls `execute` makes of it | `Check`, `Succeed`, `Fail`, `EndUnrecorded` |
| `RetryManager` | what is read off an error and its causes, how long is waited | (operators) |
| `Attempts` | all calls of a key from the breaker's check to their end: slots, attempts, waits, aborts, events, and what observers make of these | `Blocked`, `Execute`, `Enqueue`, `Grant`, `QueueTimeout`, `TakeSlot`, `Resume`, `Abort`, `Thrown`, `Answer`, `GiveUp`, `Sleep`, `Retry` |
| `KeyStatus` | names of keys and their pruning, `getStatus`, `estimatedWait` | `Execute`, `Proceed`, `Enqueue`, `Drain`, `ToldToWait`, `Finish`, `GetStatus`, `AskWait`, `ResetAll` |
| `CostTracker` | the log, its persistence, the budget loop of `execute`, reports | `Ask`, `Wake`, `Record`, `Restart`, `WarmUp`, `WarmUpEnds`, `Reset`, `GetReport` |
| `Adapters` | wrapped models with fallbacks, the pool, the proxy, their streams, limits learnt | `Start`, `Enter`, `CatchExceeded`, `Answer`, `Open`, `Finish`, `Close`, `Chunk`, `Done`, `Break` |
| `Pipeline` | `execute` and `withRetry` around the checks, for one key | `Share`, `Enter`, `Admitted`, `Answer`, `TimesOut`, `Retry`, `Cleanup`, `Deliver`, `Shutdown`, `Reset` |

`InMemoryStore`, `RedisStore` and `RateLimitEngine` share `SlidingWindow`: the
engine contains the minute window of the in-memory store and calls its
`CheckReply`, the Redis scripts are the same checks over sorted sets.
`InMemoryStore` and `RedisStore` both instantiate `StorePromise`, the abstract
specification of a store, and are shown to implement it: the first with
`Slack = 0`, the second with `Slack` = clock skew + delay of a command (the run
fails when one less is assumed). `StorePromise` keeps the times of *all*
admissions and knows nothing of windows; the history variable `log` of each
store is its refinement mapping. `Attempts` extends `CircuitBreaker` and `RetryManager`:
it adds to the breaker's calls everything that decides when they are made, and
implements `CircuitBreaker` (proved), so what is said of the breaker there holds of
the breaker under real calls. `KeyStatus` extends `InMemoryStore` by the callers that
fill and empty a window. What `Pipeline` leaves open in `Enter` (budget,
breaker) and `Admitted`/`Refused` (engine) is what `CostTracker`,
`CircuitBreaker` and `RateLimitEngine` decide; `Adapters` in turn leaves open what
`Pipeline` decides between the budget check and the answer. `Attempts` abstracts the
engine to what a call sees of it (granted, refused, waiting, parked, woken), since
order and timers of the queue are `RateLimitEngine`'s.

Modelling choices that matter:

* **A missing map entry** is bound to the value the code falls back to (an empty
  window, backoff 0).
* **Microtasks** (`RateLimitEngine`). A resolved promise runs its continuation
  later, in the order of resolution and before any timer. `microtasks` is that
  queue: `Finish` and `DrainGrants` append the request they resolve, `Proceed`
  and `Resume` are its continuations, timers and the clock wait until the queue
  is empty (`Quiet`). Arrivals, aborts and ends of calls may come anywhere
  between, since they are microtasks of the callers. With a remote store its
  answers arrive at any time and the order among them is left open, which allows
  more than one connection would.
  In `Attempts` and `KeyStatus` the microtasks of different calls come in any order,
  which allows more, and the clock waits for all of them.
* **LocalStates.** `reset` drops the state of a key while acquires, timers and
  drains hold it. States are numbered; `local` is the one in the map, and each
  request remembers the one it captured (`home`).
* **The store in the engine** answers when it is called (that is when it reads
  the clock and records) and the answer travels until it is handled. Comparing
  it with a later clock is one of the findings.
* **Limits** are constant over a run of every module but `Adapters`, which is about
  what limits a request gets, and one key is modelled in all modules but
  `InMemoryStore` and `KeyStatus`, where keys share pruning.
* **Errors** (`RetryManager`) are the chain of their causes; each layer has a status and
  headers or not. A header is a duration, digits, a date or other text: how these are
  spelled and recognised is left out, what follows from each kind is not.
* **Redis** (`RedisStore`). A command carries the clock and the member id its
  process chose; scripts are atomic; keys expire (`expireAt`), and a key that
  loses its last member loses its expiry with it. `Disconnect` loses commands.
* **Costs** (`CostTracker`) are naturals: floating point is left out, and an entry has the
  `Usage` (model, scope, tokens) its `price` follows from. The store is a sorted set: of
  two equal entries it keeps one. Appends fail without notice, and so does a load: `load`
  answers nothing or `warmUp` swallows the error, and the limiter is warm all the same
  (`WarmUpEnds` has both outcomes). `warmUp` merges what it loads by insertion in order of
  time, as the code's sort does.
* **Who is counted** (`Pipeline`). The engine counts the calls that have a
  `maxConcurrent` (`Counts`). `registry/index.ts:51-67` does not copy it from an entry of
  `config.limits` (`ModelMaxConcurrent` is undefined), so only the calls of a scope that
  has one are counted (`mergeScopeLimits`, `Scoped`). An `acquire` from before a reset may
  count itself in a state that was dropped: after a reset `active` may stay as it is.
* **Usage of a stream** (`Adapters`). A wrapped stream has its counts from one finish
  chunk; that there is at most one is an assumption about providers (`OneFinish`), since
  `transform` would record each. The proxy reads three kinds of chunks in three ways
  (`FromStart`, `FromDelta`, `FromUsage`), some of which lose a count or a zero; `Usual`
  says which ways of telling lose nothing.
* **Limits of a model** (`Adapters`). One entry of `config.limits` is looked at: the model's
  own, even one without an rpm, else that of its provider (`ConfiguredRpm`).
* **History variables** (`log`, `unsaved`, `missed`, `asked`, `recorded`, `streak`, `lastOpened`,
  `charges`, `draining`, `wasReset`, `acquired`, `told`, `heard`, `lastStatus`, `probing`,
  `refusal`, `inOrder`) are read by properties only. They exist so that a property
  speaks of what happened and not of what the code remembers. The observers of
  `Attempts` (`alert`, `metrics`) are the exporters' own counters.

## The runs

| run | module / config | expects |
| --- | --- | --- |
| `store` | `MCInMemoryStore_store.cfg` | pass |
| `engine_local`, `engine_remote` | `MCRateLimitEngine_local.cfg`, `_remote.cfg` | pass |
| `attempts` | `MCAttempts_calls.cfg` | pass |
| `cost` | `MCCostTracker_cost.cfg` | pass |
| `redis` | `MCRedisStore_redis.cfg` | pass |
| `pipeline` | `MCPipeline_calls.cfg` | pass |
| `adapters` | `MCAdapters_calls.cfg` | pass |
| `status` | `MCKeyStatus_status.cfg` | pass |
| `engine_overlap`, `engine_stale` | `MCRateLimitEngine_overlap.cfg`, `_stale.cfg` | violation |
| `attempts_pauses` | `MCAttempts_pauses.cfg` | violation |

Clocks are scaled: a window of 2 or 3 ticks and a day of 4 to 9 keep every
relation between them (an entry expired in the minute and live in the day,
boundaries hit exactly) in few states. Every clock stops at `MaxTime`, some time
after the longest window that matters, and arrivals stop at `MaxArrival`, so that
the last request still sees its timers. Deadlock is not checked: a model whose
clock has stopped and whose requests have ended stops, and a rate limiter that
nobody calls does too.

* **`store`**: two keys, three admissions to fill a day, a prune every second
  record, delays shorter and longer than the window, time beyond one day. One
  key (`Watched`) is reconciled and read, the other records, prunes and backs
  off, which is all one key can do to another. Shows `KeepsPromise` (the
  refinement), `BackoffHonoured`, and of the told times `RefusalTight` (in the
  future, at most 1 ms late) and `LoneWaiterAdmitted` (a caller that does as told is
  admitted after at most five sleeps), `EstimateAgrees` (`nextSlotMs` says 0 iff
  `checkAndRecord` would admit, and is never too early).
* **`engine_local`**: four requests (one of high, one of low priority, one of two
  tokens, one that may be aborted), rpm 2, one concurrency slot, a queue of two,
  one reset. Four requests are the least that fill the window, the semaphore and
  the queue together and still let a newcomer drop a waiter; `MaxLocals = 2` is
  one reset, after which old and new state coexist. `OneBackoff` bounds the
  backoffs to one until the next reset. With the in-memory store at most one drain
  runs at a time (its answers are microtasks, timers wait for them), so `Drain` has
  one element. Shows that queues and semaphore lose, leak and duplicate nobody
  (`QueuesMatch`, `NoLostSlot`, `NoSlotLeak`), who is dropped (`DropsLeastUrgent`), and
  that the binary search finds the place of any waiter in every queue that comes up
  (`SearchFindsPlace`).
* **`engine_remote`**: the store answers late (up to the whole run) or fails, and
  two drain loops run at once, which needs a timer re-armed during a drain;
  `MaxLag = 2` lets timers be late by as much. Shows `NoLostWakeup`,
  `DrainsInPriorityOrder`, and that every `acquire` ends (`Settles`), with a waiter too
  big for what is left of the token limit, aborts and shutdowns, without a reset.
* **`attempts`**: three calls (symmetric), two attempts, two slots, a queue of one,
  threshold 2, cooldown 3 with two ticks to the second, errors that count and do not,
  that tell a wait of either header, in a cause, or beyond the longest timer. Two
  calls that fail and one that is late are the least for old results to cross an
  opening. Shows what is said of the breaker (`BlocksExactlyDuringCooldown`,
  `OpensOnlyOnStreak`), of waits (`WaitsAsTold`, `NewcomersPause`), of what counts
  (`RateLimitsDoNotTrip`), of observers (`EventsTellCircuit`, `MetricsAgree`) and of the
  clients of the middleware (`RetryAfterSuffices`). Two probes at once need a fourth call
  or `threshold = 1`; the theorems of `Attempts_proofs` cover any number of both.
* **`cost`**: three requests (one estimated higher, two with a fallback), two usages
  (entries of one tick are equal if their usage is), periods of 1, 2 and 4 ticks each
  with its own cap, restarts at any time, appends and loads that fail.
  `CapsSurviveRestarts` and `ReportsTellHistory` compare checks, reports and forecasts
  with all that was ever recorded: `log`, and `unsaved` for what the store did not keep
  (a failed append, one of two equal entries), which a restart forgets, less `missed`,
  which earlier processes recorded and this one has not loaded: nothing after a load that
  was answered. What these two exempt is exactly what is lost then; that nothing is
  lost is `EveryEntryKept`, which fails (see [Findings](#findings)).
* **`redis`**: two processes, one with a fast clock, two numbered requests each
  and up to one command each under way, delays up to 1.
* **`pipeline`**: three calls, two sharing a key, two of them under a scope with
  `maxConcurrent` 2 and one not counted, two attempts, a call timeout, a shutdown and a
  reset at any time. `ShutdownWaits` is about the two that are counted.
* **`adapters`**: a wrapped stream with a fallback, a stream of the proxy, two calls
  of a pool of two models (symmetric) and one of its second model alone. These are
  the fewest for two responses of a model, the second of which tells no limit, to
  be followed by a request of it. One model has an entry with an rpm, one without
  (its provider's is hidden by it, and header or registry decide), one none (its
  provider's is in force). The proxy's stream tells counts that differ, are left out or
  are 0, in chunks of the three kinds and in any order, so that first, last and largest
  are told apart. A budget of one token is exceeded by any usage and cleared by any
  ageing (`MaxSpent` is the budget: beyond it nothing differs); `MaxRecords = 2` lets a
  stream be read again once.
* **`status`**: a model's own key and the key of a scope, two calls of the one and
  one of the other, rpm 1, a queue of one, a prune of the names on every second and
  of the store on every second record, backoffs and resets. Shows `BusyKeysShown` and
  `WaitTold`; that names are dropped under a call that is refused on an empty window
  is why both are about keys that were never backed off.

The type invariants (`TypeOK`, `CallsTypeOK`) hold on the same configurations; they are
stated for the proofs and have no place in a run.

Fairness. Engine (`Fairness`): continuations of requests and drains are run,
due timers fire, the store answers (`RequestStep`, `DrainStep`), and the provider
call ends, which a request parked behind it depends on. Cost: timers fire
(`Wake`). Pipeline: timers fire and promises continue (`Progress`), and until a reset the
engine answers or rejects every `acquire` (`Acquired`; this is what `Settles` of the
engine shows, without a reset). After a reset nothing is assumed of an `acquire`, since
one that the reset overtakes may stay parked in a dropped state, and `Settles` is stated
up to a reset. The *provider* need not answer, which is why it is stated for a
limiter with a call timeout.
The clock of a run advances to its bound (`WF(MCTick)`), and a due timer is not
overtaken by it without end. No caller is obliged to call, to abort or to shut
down, and no weak fairness is assumed where the event loop or a timer does not
provide it.

## The proofs

Forty-seven theorems, each for every value of the constants (any number of
requests, keys and processes, any limits, window lengths, budgets, thresholds), under
the named assumptions of the modules. Four of them have a hypothesis beyond these, named
in the table and explained below.

| module | theorems | what they state |
| --- | --- | --- |
| `InMemoryStore_proofs` | `StoreTypeCorrect`, `StoreRpmBound`, `StoreBackoffHonoured` | `TypeOK` with the bound on window sizes, `RpmBound`, `BackoffHonoured` |
| | `StoreKeepsPromise` | `KeepsPromise`: the minute and the daily limit of `StorePromise` |
| | `StoreRefusalTight`, `StoreEstimateAgrees`, `StoreLoneWaiterAdmitted` | the told times: `RefusalTight`, `EstimateAgrees`, `LoneWaiterAdmitted` |
| | `StatusBusyKeysShown`, `StatusWaitTold` | `BusyKeysShown` and `WaitTold` of `KeyStatus`, if `AdmitsWhenIdle` |
| `RedisStore_proofs` | `RedisTypeCorrect`, `RedisEstimateAgrees`, `RedisBackoffHonoured` | `TypeOK`, `EstimateAgrees`, `BackoffHonoured` |
| | `RedisKeepsPromise`, `LoneProcessKeepsPromise` | `KeepsPromise`: as long as `NoTwins`; of a process alone, always |
| `Attempts_proofs` | `BreakerTypeCorrect`, `BreakerBlocksExactlyDuringCooldown`, `BreakerOpensOnlyOnStreak` | `TypeOK`, `BlocksExactlyDuringCooldown`, `OpensOnlyOnStreak` of `CircuitBreaker` |
| | `CallsImplementBreaker` | the calls implement `CircuitBreaker` |
| | `CallsBlockExactlyDuringCooldown`, `CallsOpenOnlyOnStreak`, `CallsEventsTellCircuit` | `BlocksExactlyDuringCooldown`, `OpensOnlyOnStreak`, `EventsTellCircuit` |
| | `CallsWaitAsTold`, `CallsNewcomersPause`, `CallsRateLimitsDoNotTrip`, `ComingBackSuffices` | `WaitsAsTold`, `NewcomersPause`, `RateLimitsDoNotTrip`, `RetryAfterSuffices` |
| | `CallsMetricsAgree` | `MetricsAgree` |
| `CostTracker_proofs` | `CostTypeCorrect`, `CostHeldUntilDeadline`, `CostNobodyOversleeps` | `TypeOK`, `HeldUntilDeadline`, `NobodyOversleeps` |
| | `CostCapsSurviveRestarts`, `CostReportsTellHistory` | `CapsSurviveRestarts`, `ReportsTellHistory` |
| `RateLimitEngine_proofs` | `EngineTypeCorrect`, `EngineQueuesMatch`, `EngineNoLostWakeup`, `EngineNoSlotLeak`, `EngineNoLostSlot` | `TypeOK`, `QueuesMatch`, `NoLostWakeup`, `NoSlotLeak`, `NoLostSlot` |
| | `EngineDrainsInPriorityOrder`, `EngineDropsLeastUrgent`, `EngineSearchFindsPlace` | `DrainsInPriorityOrder`, `DropsLeastUrgent`, `SearchFindsPlace` |
| `Pipeline_proofs` | `PipelineTypeCorrect`, `PipelineOneExecutionPerKey`, `PipelineNothingStaleShared`, `PipelineShutdownWaits` | `TypeOK`, `OneExecutionPerKey`, `NothingStaleShared`, `ShutdownWaits` |
| `Adapters_proofs` | `AdaptersRecordedOnce`, `AdaptersRecordedWhereAcquired`, `AdaptersStreamTotals`, `AdaptersLimitsInForce` | `RecordedOnce`, `RecordedWhereAcquired`, `StreamTotals`, `LimitsInForce` |

`SlidingWindow_proofs` holds the lemmas that the stores and the engine share: suffixes,
sums over windows, what eviction keeps, told times.

The hypotheses:

* `AdmitsWhenIdle` (`KeyStatus`): no request is refused on an empty minute window. A
  limit that does refuse there (a daily limit that is reached, a token limit below one
  estimate) lets a prune of the names, which looks at the minute window and the queue,
  drop the name of a call between its refusal and its place in the queue, and
  `BusyKeysShown` fails. A backoff does the same, hence `asked[k] = 0` in the property.
* `NoTwins` (`RedisStore`): no check under way carries the id of a member that Redis
  already holds. Ids are `${Date.now()}_${++_counter}` and numbered per process, so two
  processes whose clocks and counters coincide do draw the same id, and the limit is
  exceeded (see [Findings](#findings)). The theorem is that this is the *only* way: all
  behaviours in which it does not happen keep the promise. The processes of the run
  number their requests apart, where TLC finds `NoTwins` invariant;
  `LoneProcessKeepsPromise` discharges it for one process of any number of requests.

The arguments:

* **Store.** `RpmBound` is about all admissions, and the store remembers a few.
  The invariant `Remembers` is the link: the window of a key is the end of its
  log (same times, in order), and whatever was evicted is at least a window old.
  It is preserved by eviction and appending (lemmas of `SlidingWindow_proofs`
  about suffixes and about what `EvictWindow` keeps), by reconciliation, which
  changes tokens but no time, and by pruning, which evicts all keys at once. An
  admission then sees fewer than `rpm` live entries, so the admission `rpm`
  places before the new one is either evicted or older than a window.
* **Store, backoffs.** `BackoffInv`: the backoff of a key is the longest asked for,
  or it was deleted and what was asked is past. Pruning one key's record deletes
  other keys' backoffs, and the invariant is that it deletes none that is live.
* **Store, the promise.** The daily list is kept, evicted and pruned by other code
  than the window and only when the limits have an `rpd`; `DayInv` says the same
  of it (`RemembersDay`) and that the history respects the daily limit
  (`DaySpan`). With both invariants every step of the store is mapped: an
  admission to `Admit`, a reset to `Forget`, a tick to `Wait`, and refusals,
  corrections, backoffs and pruning to a stutter.
* **Store, told times.** These are statements about `SlidingWindow` for any window whose
  entries are in order, and that windows are in order is the invariant (`OrderInv`). A
  sum over a window splits at the entry that goes first, so a full window stays full
  until the told time and is one entry shorter after it. A waiter that does as told loses
  an obstacle with every sleep: each kind of limit (minute, input, day, output) and the
  backoff can turn it away once, which is the bound of `LoneWaiterAdmitted`.
* **Status.** `Named`: a key never backed off is known and named while it is busy, and
  while a call of it stands between its refusal and the queue its window is live, which
  is what keeps a prune from dropping it.
* **Redis.** Members of a sorted set are found by time, and commands of skewed processes
  arrive late, so a set is not the end of the history. `Recalls` is the link instead: to
  each admission that may still count belongs a member with an id of its own, older than
  the admission by at most a command's delay. When the set is under its limit, so is, by
  counting ids, the recent history; the `Slack` of the promise is what times can be off.
  Expiry forgets nothing that counts: the invariant `KeyRecalls` says that a key expires a
  buffer after its last admission stops counting, and the buffer is longer than skew and
  delay together (an assumption of the module, the code's `BUFFER_MS`). `BackoffKept`
  says the same of the backoff.
* **Breaker.** `lastOpened` and `streak` are tied to the state: the count of
  failures is the streak since the last success while the circuit is closed, and
  the opening time is `lastOpened` while it is open.
* **Attempts.** Every action of a call is a step of `CircuitBreaker` or a stutter, so
  the theorems about the breaker hold of it under real calls (`CallsImplementBreaker`
  and the two after it). `Kept` is the rest: the wait of a sleeping call reaches
  what it was told, and a refused client's promise reaches the end of the cooldown,
  which is arithmetic on rounding up to seconds. The chain of causes of an error is
  finite, so what is read off it is defined by recursion over a well-founded
  order (`NatLess`).
* **Attempts, metrics.** `Counted`: each counter of the exporters is the cardinality of a
  set (calls completed, calls dropped, pairs of a call and a retry announced), and at
  any time these sets are finite. A step moves one call, so each set gains at most one
  element, exactly when an event is emitted. It needs to know where a call can be
  (`Places`): a parked call is parked once, and attempts are numbered from 1.
* **Cost, sleepers.** `nextBudgetClearMs` walks the log from its oldest entry. That logs
  are oldest first is an invariant of every action, and for a log in order what was spent
  since a time is the sum of a suffix: it falls only when the walk passes an entry.
* **Cost, history.** Two inequalities, for every time `c` after the month's edge: what was
  recorded since `c` and not lost is at most what memory holds plus what this process has
  missed (`NothingForgotten`), and these two together are at most what was recorded as
  long as `warmUp` ran before anything else (`NothingTwice`). What is missed is in the
  store until it is loaded, so an answered load brings back at least that. Neither is inductive without the
  other variables: memory is evicted, the store is trimmed by its own cutoff, a restart
  moves everything to the store and a load brings back a part. What is used of each log is
  only what it has cost after a time (`CostAfter`): eviction keeps what is after its
  cutoff, appending and sorted insertion add one cost, a merge adds a log.
* **Engine, queues.** `QueuesMatch` is not inductive alone: that a request granted,
  parked or woken has a `LocalState` to return to, that the drain of a state
  holds a state, and that states are numbered below `created` are needed to show
  that a step that moves one request leaves the queues of the others alone.
  `NoLostWakeup` adds that a running drain is of a state that exists. The proofs
  have one lemma per action.
* **Engine, order.** `OrderInv`: in every queue nobody stands in front of somebody who goes
  before it, and a waiter has the priority of its request. `Before` is a strict order in
  which equals are waiters of one rank and time; insertion in front of the first that the
  newcomer goes before keeps the order, leaving keeps it. The head is then what goes
  first and the last what is least urgent, which is `DrainsInPriorityOrder` and
  `DropsLeastUrgent`.
* **Engine, search.** In a queue in order the waiters a newcomer goes before are the end of
  the queue, so a bisection has an answer in closed form, and the function that gives it
  satisfies the equation of the search. It is the only one that does: of two, take the
  narrowest range on which they differ, and look one step further.
* **Engine, slots.** `SlotInv` counts: in the state in the map the slots taken are
  at most the calls executing, and while somebody is parked, slots taken and
  requests woken but not yet counted are together at least `maxConcurrent`. It
  needs that the sets counted are finite and that states not made yet are
  empty. That slots taken *and* woken stay at most `maxConcurrent` is what does not
  hold (`engine_overlap`), and nothing here uses it.
* **Pipeline.** `SharingInv`: the map entry of a key, if any, is an execution of that
  key that has not cleaned up, and until a reset every such execution has one.
  `CountInv`: until a reset the count that `shutdown` polls is the number of calls with a
  `maxConcurrent` that hold a slot.
* **Adapters.** A step is of one call, so it is enough that the call is `Fine` after
  it (lemma `OneCall`). `UsageInv` ties the number of records to the place of a call
  and, while it streams, to `usageRecorded`; that a finish chunk is recorded once
  rests on a provider that sends one (`OneFinish`). `Told` ties what the code keeps to
  the history: the key of a served call is the one it acquired (`KeyFine`), the
  counts of a reader are the last told while they are told the usual way (`TotalsFine`,
  with a case for each kind of chunk in `UsualChunkTells`), the learnt limits are those
  of the last response that told any (`LimitsKnown`).

Recursion is written as recursive functions and folds: everything provable is
in modules without recursive operators. The library's induction rules cannot be used, so
what a fold or a search computes is shown in two steps: there is a function that satisfies
the recursive equation (written down, or built one index at a time), and of two such
functions consider the least argument at which they differ.

What stays with TLC is liveness (`Settles` of the engine and of the pipeline,
`BudgetWaitEnds`), which needs `ENABLED`. The promise of `StorePromise` is about requests;
that windows respect the token limits is part of `checkAndRecord` and of the told times,
but since `reconcile` may raise what was recorded, no bound over the history is stated.

## Findings

Three runs exhibit a disagreement between the code and what it says of itself:

* `engine_overlap`: `release` decrements `activeCount` and resolves the next
  waiter, which counts itself only in a later microtask (line 218). An `acquire`
  that passes the check of line 198 in between takes the same slot: more than
  `maxConcurrent` calls execute, which README.md:68 and :468 exclude. The calls are those
  of a scope with a `maxConcurrent` (`pipeline.ts:75`, README.md:448 and :481); the form
  README.md:468 shows does not reach the engine at all (see below).
* `engine_stale`: a refusal is recognised by comparing the told time with a clock
  read after the `await` (lines 130 and 373). With a remote store the answer may
  be handled after that time and is then taken for an admission that was never
  recorded (`src/store/interface.ts:17-20`).
* `attempts_pauses`: `release` wakes the first parked request without looking at
  the backoff (`rate-limit-engine.ts:326`), so a request that got its place in the
  window before the provider asked the key to wait starts its call during the wait,
  against README.md:1557 ("All requests queued behind it pause until the backoff
  clears"). `NewcomersPause` is the part that holds.

The models also reproduce, without a run of its own each:

* `drainScheduled` is cleared before the drain runs (line 351), against its
  comment at line 22; two drains can loop over one queue.
* A newcomer asks the store before the queue is looked at, and can overtake
  waiters of better priority (README.md:66). `DrainsInPriorityOrder` is about
  those in the queue.
* A signal that fires while `acquire` awaits the store is not seen (line 171);
  the request waits although aborted (README.md:490).
* Half open, every caller is let through (`circuit-breaker.ts:66`), not "a single probe"
  (`src/core/circuit-breaker.ts:19`, README.md:768): `SingleProbe` of `Attempts`, added to
  `MCAttempts_calls.cfg` with `threshold = 1`, fails; a late success of a call from
  before the opening closes an open circuit (line 76, against lines 4-8);
  a call aborted by its caller counts as a failure (`pipeline.ts:388`,
  against `circuit-breaker.ts:14`).
* Redis member ids are unique in a process only (`redis-store.ts:339`, against
  :61). Two processes with equal counters, clocks and estimates make one member
  of two requests, and the limit is exceeded: set `Late = {}`, `Fast = {}`,
  `MaxSkew = 0`, `MaxDelay = 0` in `MCRedisStore_redis.cfg` to see `KeepsPromise`
  fail. The run is about processes whose counters differ.
* In Redis a shorter backoff replaces a longer one (line 374; the in-memory store
  keeps the longer). `BackoffHonoured` of `RedisStore` is about the last one.
* "`RedisCostStore` persists every cost entry to a Redis sorted set so budget caps survive
  restarts" (README.md:651): of two equal entries (one millisecond, model, scope and
  tokens) the set keeps one (`redis-cost-store.ts:39`), and an append that fails is
  swallowed (lines 94-96). `EveryEntryKept` of `CostTracker`, added to the invariants
  of `MCCostTracker_cost.cfg`, fails both ways, and after a restart the cap does not
  hold against what was lost.
* A load that fails answers nothing (`redis-cost-store.ts:116-118`), or `warmUp` swallows
  the error (`cost-tracker.ts:47-49`): nobody is told, reports are empty and the cap is not
  enforced against anything spent before the restart. `missed` is what is not enforced.
* The `maxConcurrent` of a model in `config.limits` (README.md:68, 268 and 463-470,
  `docs/api/config.md:27`) bounds nothing: `registry/index.ts:51-67` copies the other
  limits and not this one, and with it nothing is counted either. `shutdown` then
  returns at once with calls under way (`pipeline.ts:553`), against README.md:84, :779
  and :786-788: `DrainsInFlight` of `Pipeline`, added to the properties of
  `MCPipeline_calls.cfg`, fails. Calls of a scope with a `maxConcurrent` are bounded,
  counted and waited for (`ShutdownWaits`). Requests asleep for the budget, or awaiting
  the store, start their calls after a shutdown, since its guard is only at the entry.
* Callers that share one execution by `dedupKey` each record its usage and charge
  its cost (`vercel-ai-sdk.ts:167`, README.md:1520): `ChargedOnce` of `Pipeline`,
  added to `MCPipeline_calls.cfg`, fails.
* An `acquire` whose store answer arrives after `reset` can park on the waiter list
  of the dropped state (`rate-limit-engine.ts:198-214`, :288-294); nobody releases
  into it and a parked request has no timeout. `Settles` of the engine fails with
  `MaxLocals = 2`; `engine_remote` is without a reset, and `Settles` of `Pipeline` is
  stated up to one.
* A fallback is called with `_skipBudgetCheck`, so it is never over budget, and since
  the chain goes on only on a budget error, no later fallback is ever tried
  (`vercel-ai-sdk.ts:326-358`). README.md:627 ("if gpt-4o-mini is also over budget"), :632
  ("If all are over budget, `BudgetExceededError` is thrown") and `types.ts:482-483` say
  that each is checked; README.md:638 says that mode `'throw'` throws, whatever fallback
  there is, and the mode is not looked at. `NoneServesOverBudget` of `Adapters`, added to
  the properties of `MCAdapters_calls.cfg`, fails.
* A learnt limit gives way to a limit of the model's own entry only, not to one of
  its provider (`'openai/*'`): `pipeline.ts:646` looks at exact names, against its own
  comment at line 645 and "Your config always wins" (README.md:90). `ConfigAlwaysWins` of
  `Adapters` fails when a wrapped model has no entry (`MCPool == <<m1, m2>>` in
  `MCAdapters`, with the property added to its configuration). `LimitsInForce` is silent
  on that case. An entry of a model without an rpm hides its provider's, whose rpm is
  then not used (`registry/index.ts:48`).
* The proxy takes a usage without an input count for none and loses its output count
  (`raw-sdk-proxy.ts:48-63`), and a chunk that corrects a count to 0 is not heeded (lines
  104-105). `StreamTotals` is about streams told the usual way (`Usual`).
* A stream that errors or is cancelled records nothing: `flush` runs on a clean
  close only, against the comment at `vercel-ai-sdk.ts:202` ("or errors"). A raw
  stream read again after its end records its usage again (`raw-sdk-proxy.ts:109`,
  against "the single authoritative `completed` event", `pipeline.ts:408-411`), which
  is why `RecordedOnce` is about wrapped models.
* `reset` during a shared call: its `finally` deletes the entry of a newer call of
  the same key (`pipeline.ts:193`), so `OneExecutionPerKey` is stated up to a reset.
* The Retry-After of the last attempt is not propagated (`retry-manager.ts:208`),
  and retries of other calls of the key do not look at the backoff. Retries do not
  ask the circuit either, and a call that is aborted while it sleeps is retried all
  the same.
* Of an error inside another, the outermost layer that has headers is read
  (`retry-manager.ts:86-105`): headers of a wrapper hide the Retry-After of its cause.
* A call longer than its window loses its name when names are pruned
  (`pipeline.ts:624`), although the comment above it (618-620) says a key in flight
  is kept: `InFlightNamed` of `KeyStatus` fails. A call refused on an empty window
  because of a backoff or a daily limit loses it between the refusal and the queue, which
  is why `BusyKeysShown` is about keys that were never backed off and the run has no
  daily limit (with `rpd |-> 1` in `MCKeyStatus` it fails). With the Redis store
  `windowSnapshot` is always empty, so a prune drops every name not queued.
* Costs recorded before `warmUp` ends, or a second `warmUp`, are counted twice, since
  the load brings back what this process appended; `reset` empties the memory only, so
  costs come back after a restart. Reports include an entry exactly at the
  edge of a period, which budget checks leave out.

Observations from reading, outside the models: two streams with one `dedupKey`
share one locked stream (`vercel-ai-sdk.ts:231`); the slot of a stream is
released when it starts, so neither `maxConcurrent` nor `shutdown` covers a stream
that is running; `budgetHit` always reports `usingFallback: false`
(`pipeline.ts:279`, README.md:607), `rateLimited` always says `limitType: 'rpm'`
(`pipeline.ts:314`), whatever the limit; a `RetryExhaustedError` answers 429
whatever status it wraps (`middleware.ts:416`); the headers of the middleware look
a model up by its id alone and may show a scoped key's numbers (line 183); `on` and `off`
of the test helper call themselves (`testing.ts:103-109`); gauges of the exporters keep
their last value after a timeout.

## What is not modelled

* The split of reports by model and scope, the fields and wording of events and of
  error bodies, gauges, latencies and text formats of the exporters, logs: nothing of
  the control reads them.
* Limits that change while requests of the same key wait in the engine.
* How durations, dates, usage and options are spelled and recognised: which kind a
  header is of is chosen, what follows from it is modelled.
* Token estimation, prices, scope patterns: data computed without state.
* In the adapters: which provider a client is of, the random strategy of the pool,
  token limits learnt (kept as `rpm` is).
* Tables of the registry, command line, configuration warnings, the test helper, the
  glue to web frameworks: data or input and output.
* The queue of `RateLimitEngine` and the breaker of `Attempts` are of one key. Keys share
  nothing there: each has its own state in a map.

## Plan

Done: all components with state of their own are modelled and checked, and every safety
property of a run is proved. Next, in this order:

1. That `RateLimitEngine` uses its store only through `StorePromise`: the engine over the
   abstract store instead of a window, so that its theorems hold with any store that
   keeps the promise.
2. Limits that change while requests wait: the learnt limits of `Adapters` in
   `RateLimitEngine`.
3. `NoTwins` from an assumption about how far the counters of processes are apart.
4. The steps of the liveness arguments that are safety: that each obstacle of a waiter in
   the engine is followed by an armed timer, beyond `NoLostWakeup`.
