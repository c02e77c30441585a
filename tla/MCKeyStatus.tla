----------------------------- MODULE MCKeyStatus -----------------------------
(***************************************************************************)
(* KeyStatus with two keys of one model, k1 and the key k2 of a scope,     *)
(* two calls of k1 and one of k2, and rpm as the only limit.               *)
(***************************************************************************)
EXTENDS KeyStatus

CONSTANTS Rpm, MaxTime, k1, k2, c1, c2, c3

MCLimits == [rpm |-> Rpm, itpm |-> Undefined, rpd |-> Undefined, otpm |-> Undefined]
MCKeyOf == (c1 :> k1) @@ (c2 :> k1) @@ (c3 :> k2)
MCEst == [c \in Call |-> 1]
MCModelOf == [k \in Key |-> "m"]

MCNext == StatusStep \/ (Quiet /\ now < MaxTime /\ Tick /\ UNCHANGED <<call, pipelineVars>>)

MCSpec == StatusInit /\ [][MCNext]_statusVars
=============================================================================
