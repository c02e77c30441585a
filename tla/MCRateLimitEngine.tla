-------------------------- MODULE MCRateLimitEngine --------------------------
(***************************************************************************)
(* RateLimitEngine on small instances: the clock stops at MaxTime and      *)
(* nobody arrives after MaxArrival.  A timer that is due is not overtaken  *)
(* by more than MaxLag ticks of the clock, and the provider asks for one   *)
(* backoff at most until the next reset.                                   *)
(***************************************************************************)
EXTENDS RateLimitEngine

CONSTANTS
  High, Low,   \* the requests of these priorities; the others are normal
  Big,         \* the requests of 2 tokens; the others have 1
  Rpm, Itpm,
  MaxTime, MaxArrival, MaxLag

MCPriority == [r \in Request |-> IF r \in High THEN "high" ELSE IF r \in Low THEN "low" ELSE "normal"]
MCEst == [r \in Request |-> IF r \in Big THEN 2 ELSE 1]
MCLimits == [rpm |-> Rpm, itpm |-> Itpm, rpd |-> Undefined, otpm |-> Undefined]

\* No timer is late by MaxLag or more.
TimersKeepUp ==
  /\ \A g \in LocalId : drainAt[g] # None => now < drainAt[g] + MaxLag
  /\ \A g \in LocalId : \A i \in DOMAIN waiters[g] :
       now < waiters[g][i].enqueued + TimeoutMs + MaxLag

MCArrive == now <= MaxArrival /\ \E r \in Request : Arrive(r)
MCTick == now < MaxTime /\ TimersKeepUp /\ Tick

OneBackoff == backoff' = backoff \/ backoff = 0 \/ backoff' = 0

MCNext == (EngineStep /\ OneBackoff) \/ MCArrive \/ MCTick

MCSpec == Init /\ [][MCNext]_vars

MCFairSpec == MCSpec /\ Fairness /\ WF_vars(MCTick)
=============================================================================
