---------------------------- MODULE MCCostTracker ----------------------------
(***************************************************************************)
(* CostTracker on small instances: the clock stops at MaxTime, nobody asks *)
(* after MaxArrival, a timer that is due is not overtaken by the clock, and*)
(* everything stops when the last request has ended.                       *)
(***************************************************************************)
EXTENDS CostTracker

CONSTANTS
  Dear,                     \* the requests and usages that cost 2; the others cost 1
  Hourly, Daily, Monthly,   \* the budget
  MaxTime, MaxArrival

MCEst == [r \in Request |-> IF r \in Dear THEN 2 ELSE 1]
MCPrice == [u \in Usage |-> IF u \in Dear THEN 2 ELSE 1]
MCBudget == [hourly |-> Hourly, daily |-> Daily, monthly |-> Monthly]

MCAsk == now <= MaxArrival /\ \E r \in Request : Ask(r)
MCTick ==
  /\ now < MaxTime
  /\ \A r \in Request : IsAt(r, "sleeping") => now < req[r].wakeAt
  /\ Tick

MCNext == (\E r \in Request : req[r].pc \notin Outcome) /\ (CostStep \/ MCAsk \/ MCTick)

MCSpec == Init /\ [][MCNext]_vars /\ Fairness /\ WF_vars(MCTick)
=============================================================================
