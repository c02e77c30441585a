---------------------------- MODULE MCRedisStore ----------------------------
(***************************************************************************)
(* RedisStore with two processes, a fast and a slow one: the clock stops   *)
(* at MaxTime, a process has one command under way at a time and numbers   *)
(* MaxCalls requests.                                                      *)
(***************************************************************************)
EXTENDS RedisStore

CONSTANTS
  Fast,                    \* the processes whose clocks are ahead
  Late,                    \* the processes that have numbered requests before
  Rpm, Itpm, Rpd, Otpm, MaxTime, MaxCalls

MCLimits == [rpm |-> Rpm, itpm |-> Itpm, rpd |-> Rpd, otpm |-> Otpm]
MCOffset == [i \in Instance |-> IF i \in Fast THEN MaxSkew ELSE 0]
MCFirstCounter == [i \in Instance |-> IF i \in Late THEN MaxCalls ELSE 0]

MCCall(i) == sent[i] = <<>> /\ counter[i] < firstCounter[i] + MaxCalls /\ Call(i)

MCNext ==
  \/ now < MaxTime /\ Tick
  \/ \E i \in Instance : MCCall(i) \/ Execute(i) \/ Disconnect(i)

MCSpec == Init /\ [][MCNext]_vars
=============================================================================
