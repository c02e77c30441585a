----------------------------- MODULE MCPipeline -----------------------------
(***************************************************************************)
(* Pipeline on small instances: the clock stops at MaxTime, nobody calls   *)
(* after MaxArrival or waits for its slot any longer, and a timer of a call *)
(* that is due is not overtaken by the clock.  Everything stops when the   *)
(* last caller has its answer; there is one reset.                         *)
(***************************************************************************)
EXTENDS Pipeline

CONSTANTS
  Keyed,   \* the calls with a deduplication key
  MaxTime, MaxArrival

MCDedupKey == [c \in Call |-> IF c \in Keyed THEN "key" ELSE NoKey]

MCBegin == now <= MaxArrival /\ \E c \in Call : Begin(c)
MCTick ==
  /\ now < MaxTime
  /\ \A c \in Call : ~TimeoutDue(c) /\ (IsAt(c, "retrying") => now < exec[c].time)
  /\ now >= MaxArrival => \A c \in Call : exec[c].pc \notin {"held", "asking", "queued"}
  /\ Tick

MCReset == ~wasReset /\ Reset

MCNext ==
  /\ \E c \in Call : result[c] = "none"
  /\ PipelineStep \/ MCReset \/ MCBegin \/ MCTick

MCSpec == Init /\ [][MCNext]_vars /\ Fairness /\ WF_vars(MCTick)
=============================================================================
