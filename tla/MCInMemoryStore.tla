--------------------------- MODULE MCInMemoryStore ---------------------------
(***************************************************************************)
(* InMemoryStore on small instances: the clock stops at MaxTime.  Only the *)
(* keys in Watched are reconciled, read and given all requests and delays;  *)
(* the others are there to record, to prune and to back off.               *)
(***************************************************************************)
EXTENDS InMemoryStore

CONSTANTS MaxTime, Rpm, Itpm, Rpd, Otpm, Watched

\* The limits of a run as one record.
MCLimits == [rpm |-> Rpm, itpm |-> Itpm, rpd |-> Rpd, otpm |-> Otpm]

MCStoreNext ==
  \/ \E k \in Watched : KeyStep(k)
  \/ \E k \in Key \ Watched :
       \/ CheckAndRecord(k, Min(Estimate))
       \/ SetBackoff(k, Min(Delay))
  \/ Reset

MCNext == MCStoreNext \/ (now < MaxTime /\ Tick)

MCSpec == Init /\ [][MCNext]_vars
=============================================================================
