----------------------------- MODULE CostTracker -----------------------------
(***************************************************************************)
(* CostTracker (src/src/core/cost-tracker.ts) with the two parts that      *)
(* drive it: the budget check of Pipeline.execute and its wait loop        *)
(* (src/src/core/pipeline.ts), and the persistent store it is warmed up    *)
(* from (src/src/store/redis-cost-store.ts), across restarts.              *)
(*                                                                         *)
(* A cost is a natural number; the rounding of floating point is left out. *)
(* The check, and what follows it up to the next await, is one step.  The  *)
(* time of a request between its check and its recorded usage (queueing    *)
(* for a slot, the call) is one state, "running".                          *)
(***************************************************************************)
EXTENDS Integers, SequencesExt

CONSTANTS
  Request,         \* the calls of execute, one each
  est,             \* the estimated cost of each
  Usage,           \* what a call may have used: its model, scope and tokens
  price,           \* the cost of each
  budget,          \* hourly, daily, monthly; each may be Undefined
  HOUR_MS, DAY_MS, MONTH_MS, Undefined,
  OnExceeded,      \* the modes considered, of "throw", "fallback" and "queue"
  TimeoutMs,       \* the queue timeout
  MIN_WAIT_MS,     \* the shortest sleep of the wait loop, 50 in the code
  HasFallback      \* the requests made through a model with a fallback

Period == {"hourly", "daily", "monthly"}
WindowMs == [hourly |-> HOUR_MS, daily |-> DAY_MS, monthly |-> MONTH_MS]

ASSUME CostAssumption ==
  /\ est \in [Request -> Nat] /\ price \in [Usage -> Nat]
  /\ budget \in [Period -> Nat \cup {Undefined}] /\ Undefined \notin Nat
  /\ HOUR_MS \in Nat \ {0} /\ DAY_MS \in Nat /\ MONTH_MS \in Nat
  /\ HOUR_MS <= DAY_MS /\ DAY_MS <= MONTH_MS
  /\ OnExceeded \subseteq {"throw", "fallback", "queue"}
  /\ TimeoutMs \in Nat /\ MIN_WAIT_MS \in Nat \ {0}
  /\ HasFallback \subseteq Request

VARIABLES
  now,        \* Date.now()
  onExceeded, \* the mode, fixed by the configuration
  entries,    \* the rolling log in memory, oldest first
  persisted,  \* the entries in the store, oldest first
  loading,    \* the answer of the store a warmUp awaits, unless the load fails
  warm,       \* "cold" after a restart, "loading" while warmUp awaits the store, "warm"
  req,        \* where each request is; a sleeper's wake-up time and deadline
  log,        \* history: the costs recorded since the last reset that reach the store
  unsaved,    \* history: and those it did not keep, which a restart forgets
  missed,     \* history: what earlier processes added to log and this one has not loaded
  inOrder     \* history: nobody has reset, or warmed up a log that held costs already

vars == <<now, onExceeded, entries, persisted, loading, warm, req, log, unsaved, missed,
          inOrder>>

Entry == [timestamp : Nat, usage : Usage, costUsd : Nat]

At(pc, wakeAt, deadline) == [pc |-> pc, wakeAt |-> wakeAt, deadline |-> deadline]
Idle == At("idle", 0, 0)
Sleeping(wakeAt, deadline) == At("sleeping", wakeAt, deadline)
Running == At("running", 0, 0)     \* let through by the check
Fallback == At("fallback", 0, 0)   \* running on a fallback, let through unchecked
Outcome == {"recorded", "failed", "overBudget", "timedOut", "lost"}
Ended(outcome) == At(outcome, 0, 0)

IsAt(r, pc) == req[r].pc = pc
Set(r, state) == req' = [req EXCEPT ![r] = state]

Init ==
  /\ now = 1
  /\ onExceeded \in OnExceeded
  /\ entries = <<>> /\ persisted = <<>> /\ loading = <<>>
  /\ warm = "warm"
  /\ req = [r \in Request |-> Idle]
  /\ log = <<>> /\ unsaved = <<>> /\ missed = <<>> /\ inOrder = TRUE

-----------------------------------------------------------------------------
(* The windows. *)

\* What s has cost after a time.
CostAfter(s, cutoff) ==
  FoldLeft(LAMBDA sum, e : IF e.timestamp > cutoff THEN sum + e.costUsd ELSE sum, 0, s)

\* What period p has cost so far, and whether 'cost' more would bust its budget.
Spent(s, p, t) == CostAfter(s, t - WindowMs[p])
Exceeds(s, p, cost, t) == budget[p] # Undefined /\ Spent(s, p, t) + cost > budget[p]

\* The entries from the first that is not older than a time.
Since(s, from) ==
  LET recent == {i \in DOMAIN s : s[i].timestamp >= from}
  IN  IF recent = {} THEN <<>> ELSE SubSeq(s, Min(recent), Len(s))

EvictAfterDay(s, t) == Since(s, t - DAY_MS)   \* mutant

\* evict: the entries older than a month, at the front.
Evict(s, t) == Since(s, t - MONTH_MS)

\* checkBudget answers that the request may proceed.
WithinBudget(s, cost, t) == \A p \in Period : ~Exceeds(s, p, cost, t)

\* mutant: the newest entry is waited for.
AgeingOutLast(s, p, cost, t) == {i \in DOMAIN s : i = Len(s)}

\* The entries of p after whose ageing out, with the older ones, 'cost' fits.
AgeingOut(s, p, cost, t) ==
  LET cutoff == t - WindowMs[p]
  IN  {i \in DOMAIN s : /\ s[i].timestamp > cutoff
                        /\ CostAfter(SubSeq(s, i + 1, Len(s)), cutoff) + cost <= budget[p]}

\* When the first of them expires.
ClearsAt(s, p, cost, t) == {s[i].timestamp + WindowMs[p] : i \in AgeingOut(s, p, cost, t)}

\* nextBudgetClearMs: the earliest time at which one of the exceeded periods clears.
NextBudgetClearMs(s, cost, t) ==
  Min({t + MONTH_MS} \cup
      UNION {ClearsAt(s, p, cost, t) : p \in {q \in Period : Exceeds(s, q, cost, t)}})

-----------------------------------------------------------------------------
(* Reports. *)

\* summarize: what was spent from one time to another, both included.
Summarize(s, from, to) ==
  FoldLeft(LAMBDA sum, e :
             IF from <= e.timestamp /\ e.timestamp <= to THEN sum + e.costUsd ELSE sum,
           0, s)

\* getReport.  Its split by model and scope adds up to what the month has cost.
Report(s, t) == [p \in Period |-> Summarize(s, t - WindowMs[p], t)]

\* getForecast: the hour's cost is the rate it projects.
Forecast(s, t) == [p \in Period |-> Spent(s, p, t)]

\* Both evict as they read.
GetReport ==
  /\ entries' = Evict(entries, now)
  /\ UNCHANGED <<now, onExceeded, persisted, loading, warm, req, log, unsaved, missed, inOrder>>

-----------------------------------------------------------------------------
(* The budget check of execute. *)

NextDeadlineAnew(deadline) == now + TimeoutMs   \* mutant: every sleep starts the timeout again

\* The deadline of a sleeper is fixed when it arrives.
NextDeadline(deadline) == deadline

WaitMsUncapped(clearAt, deadline) == Max({MIN_WAIT_MS, clearAt - now})   \* mutant

WaitMs(clearAt, deadline) == Max({MIN_WAIT_MS, Min({clearAt - now, deadline - now})})

\* One round of the loop of queue mode: proceed, sleep, or give up when the sleep
\* would end behind the deadline.
QueueRound(r, s, deadline) ==
  LET waitMs == WaitMs(NextBudgetClearMs(s, est[r], now), deadline)
      over == now + waitMs > deadline
  IN  \/ WithinBudget(s, est[r], now) /\ Set(r, Running)
      \/ ~WithinBudget(s, est[r], now) /\ ~over /\ Set(r, Sleeping(now + waitMs, deadline))
      \/ ~WithinBudget(s, est[r], now) /\ over /\ Set(r, Ended("timedOut"))

\* The check of the other modes.  wrapModel calls the first fallback without a check.
CheckRound(r, s) ==
  \/ WithinBudget(s, est[r], now) /\ Set(r, Running)
  \/ /\ ~WithinBudget(s, est[r], now)
     /\ IF r \in HasFallback THEN Set(r, Fallback) ELSE Set(r, Ended("overBudget"))

Ask(r) ==
  LET s == Evict(entries, now)
  IN  /\ IsAt(r, "idle")
      /\ IF onExceeded = "queue" THEN QueueRound(r, s, now + TimeoutMs) ELSE CheckRound(r, s)
      /\ entries' = s
      /\ UNCHANGED <<now, onExceeded, persisted, loading, warm, log, unsaved, missed, inOrder>>

\* The sleeper's timer fires and the budget is checked again.
Wake(r) ==
  LET s == Evict(entries, now)
  IN  /\ IsAt(r, "sleeping") /\ now >= req[r].wakeAt
      /\ QueueRound(r, s, NextDeadline(req[r].deadline))
      /\ entries' = s
      /\ UNCHANGED <<now, onExceeded, persisted, loading, warm, log, unsaved, missed, inOrder>>

-----------------------------------------------------------------------------
(* Recording, persistence and restarts. *)

Holds(s, e) == \E i \in DOMAIN s : s[i] = e

\* RedisCostStore.append: ZADD, to which an equal entry is nothing new; then what is a month
\* old or more is dropped.
Stored(s, e) == Since(IF Holds(s, e) THEN s ELSE Append(s, e), now - MONTH_MS + 1)

\* recordUsage: the actual cost of a call that ended well.  Nobody awaits the append to the
\* store, and it may fail.
Record(r, u, appended) ==
  LET e == [timestamp |-> now, usage |-> u, costUsd |-> price[u]]
      kept == appended /\ ~Holds(persisted, e)
  IN  /\ IsAt(r, "running") \/ IsAt(r, "fallback")
      /\ entries' = Append(entries, e)
      /\ persisted' = IF appended THEN Stored(persisted, e) ELSE persisted
      /\ IF kept THEN log' = Append(log, e) /\ UNCHANGED unsaved
                 ELSE unsaved' = Append(unsaved, e) /\ UNCHANGED log
      /\ Set(r, Ended("recorded"))
      /\ UNCHANGED <<now, onExceeded, loading, warm, missed, inOrder>>

\* A call that failed costs nothing.
CallFails(r) ==
  /\ IsAt(r, "running") \/ IsAt(r, "fallback")
  /\ Set(r, Ended("failed"))
  /\ UNCHANGED <<now, onExceeded, entries, persisted, loading, warm, log, unsaved, missed, inOrder>>

\* The process ends and a new one starts; the requests of the old one are gone.
Restart ==
  /\ entries' = <<>> /\ loading' = <<>> /\ warm' = "cold"
  /\ req' = [r \in Request |-> IF req[r].pc \in {"sleeping", "running", "fallback"}
                               THEN Ended("lost") ELSE req[r]]
  /\ unsaved' = <<>> /\ missed' = log
  /\ UNCHANGED <<now, onExceeded, persisted, log, inOrder>>

LoadedSinceDay(s) == Since(s, now - DAY_MS)   \* mutant

\* What RedisCostStore.load answers: the entries of the last month.
Loaded(s) == Since(s, now - MONTH_MS)

\* warmUp up to its await.  The client keeps the order of its commands, so the store
\* reads before anything recorded from here on.  Called once per process, as documented.
WarmUp ==
  /\ warm = "cold"
  /\ warm' = "loading"
  /\ loading' = Loaded(persisted)
  /\ inOrder' = (inOrder /\ entries = <<>>)
  /\ UNCHANGED <<now, onExceeded, entries, persisted, req, log, unsaved, missed>>

\* The stable sort puts every loaded entry behind those of its time and before.
Insert(s, e) == InsertAt(s, 1 + Max({0} \cup {i \in DOMAIN s : s[i].timestamp <= e.timestamp}), e)
Merged(s, loaded) == FoldLeft(Insert, s, loaded)

\* The store's answer joins the log; or the load fails, which load or warmUp swallows, and
\* the limiter goes on with what it has recorded itself.
WarmUpEnds ==
  /\ warm = "loading"
  /\ warm' = "warm"
  /\ loading' = <<>>
  /\ \/ entries' = Merged(entries, loading) /\ missed' = <<>>
     \/ UNCHANGED <<entries, missed>>
  /\ UNCHANGED <<now, onExceeded, persisted, req, log, unsaved, inOrder>>

\* reset drops the costs in memory; sleepers sleep on, and the store keeps its entries.
Reset ==
  /\ entries' = <<>> /\ log' = <<>> /\ unsaved' = <<>> /\ missed' = <<>> /\ inOrder' = FALSE
  /\ UNCHANGED <<now, onExceeded, persisted, loading, warm, req>>

Tick ==
  /\ now' = now + 1
  /\ UNCHANGED <<onExceeded, entries, persisted, loading, warm, req, log, unsaved, missed, inOrder>>

RequestStep(r) ==
  Wake(r) \/ CallFails(r) \/ \E u \in Usage, appended \in BOOLEAN : Record(r, u, appended)

CostStep ==
  \/ \E r \in Request : RequestStep(r)
  \/ Restart \/ WarmUp \/ WarmUpEnds \/ Reset \/ GetReport

Next == CostStep \/ (\E r \in Request : Ask(r)) \/ Tick

Spec == Init /\ [][Next]_vars
-----------------------------------------------------------------------------
(* Properties. *)

\* Types; and the logs are oldest first, which evict and nextBudgetClearMs rely on.
OldestFirst(s) == \A i, j \in DOMAIN s : i < j => s[i].timestamp <= s[j].timestamp

TypeOK ==
  /\ OldestFirst(entries) /\ OldestFirst(persisted)
  /\ now \in Nat
  /\ onExceeded \in OnExceeded
  /\ entries \in Seq(Entry) /\ persisted \in Seq(Entry) /\ loading \in Seq(Entry)
  /\ warm \in {"cold", "loading", "warm"}
  /\ req \in [Request -> [pc : {"idle", "sleeping", "running", "fallback"} \cup Outcome,
                          wakeAt : Nat, deadline : Nat]]
  /\ log \in Seq(Entry) /\ unsaved \in Seq(Entry) /\ missed \in Seq(Entry)
  /\ inOrder \in BOOLEAN

\* What all processes have spent in a period, save what the store did not keep and a restart
\* forgot, and what this process has not loaded: nothing once a load has been answered, all
\* that came before it if the load failed.
History(p) == Spent(log, p, now) + Spent(unsaved, p, now) - Spent(missed, p, now)

\* The same in a report.
ReportedHistory(p) == Report(log, now)[p] + Report(unsaved, now)[p] - Report(missed, now)[p]

\* The cap, against the whole history and not what memory or store happen to hold: when a
\* request is let through, its estimate fits on top of all that was spent in each period,
\* whatever was evicted, persisted and reloaded, and by how many processes.
CapsSurviveRestarts ==
  [][\A r \in Request : ~IsAt(r, "running") /\ req'[r].pc = "running" =>
       \A p \in Period : budget[p] # Undefined => History(p) + est[r] <= budget[p]]_vars

\* A limiter that was warmed up at its start reports and forecasts, period by period,
\* what history holds: no cost is lost or counted twice by evictions, restarts and costs
\* recorded while the log was loading.  The report includes what lies at the edge of a
\* period, if still kept.  (Warmed up late, costs of this process are loaded again.)
ReportsTellHistory ==
  inOrder =>
    LET s == Evict(entries, now)
    IN  \A p \in Period :
          /\ Forecast(s, now)[p] = History(p)
          /\ Report(s, now)[p] \in Forecast(s, now)[p] .. ReportedHistory(p)

\* Nobody sleeps through its chance: when a request goes to sleep, there is no moment
\* before its wake-up, the shortest sleep aside, at which it could have proceeded.
NobodyOversleeps ==
  [][\A r \in Request : req'[r].pc = "sleeping" /\ req'[r] # req[r] =>
       \A t \in now + MIN_WAIT_MS .. req'[r].wakeAt - 1 : ~WithinBudget(entries', est[r], t)]_vars

\* A request is held for its timeout and not given up early, and no sleep ends after it.
HeldUntilDeadline ==
  [][\A r \in Request : IsAt(r, "sleeping") =>
       /\ req'[r].pc = "timedOut" => now + MIN_WAIT_MS > req[r].deadline
       /\ req'[r].pc = "sleeping" => req'[r].wakeAt <= req[r].deadline]_vars

\* Timers fire; neither the store nor the calls need ever answer.
Fairness == \A r \in Request : WF_vars(Wake(r))

\* A request held for the budget is let through or told it timed out, although every
\* call that ends may push the clearing time back.
BudgetWaitEnds == \A r \in Request : IsAt(r, "sleeping") ~> ~IsAt(r, "sleeping")

-----------------------------------------------------------------------------
(* What the documentation says and the code does not do. *)

\* "RedisCostStore persists every cost entry".  An append that fails is swallowed, and of two
\* equal entries, of calls that ended in one millisecond with the same model, scope and
\* tokens, a sorted set keeps one.
EveryEntryKept == unsaved = <<>>
=============================================================================
