----------------------------- MODULE MCAdapters -----------------------------
(* Instances of Adapters for TLC: a wrapped stream with a fallback, in the      *)
(* scope of its wrapper unless its request names one, a stream of the proxy,    *)
(* calls of a pool of two models, and a call of the second one.  Of the models, *)
(* m1 has an entry with an rpm, m2 none, m3 one without an rpm, and there is    *)
(* one for their provider.                                                     *)
EXTENDS Adapters, TLC

CONSTANTS m1, m2, m3, c1, c2, c3, c4, c5, tenant, team

MCPool == <<m1, m3>>

Counted(i, o) == [input |-> i, output |-> o]
MCUsage ==
  (c1 :> {Counted(1, 2), Counted(Undefined, 1)}) @@
  (c2 :> {Counted(1, Undefined), Counted(Undefined, 1), Counted(2, 0), Counted(0, 2)}) @@
  [c \in {c3, c4, c5} |-> {}]

MCTarget ==
  (c1 :> [via |-> "wrap", streaming |-> TRUE, chain |-> <<m1, m3>>,
          static |-> tenant, scope |-> team]) @@
  (c2 :> [via |-> "raw", streaming |-> TRUE, chain |-> <<m2>>,
          static |-> Undefined, scope |-> Undefined]) @@
  (c5 :> [via |-> "wrap", streaming |-> FALSE, chain |-> <<m3>>,
          static |-> tenant, scope |-> Undefined]) @@
  [c \in {c3, c4} |->
         [via |-> "pool", streaming |-> FALSE, chain |-> MCPool,
          static |-> team, scope |-> Undefined]]

PoolCalls == Permutations({c3, c4})

MCUserRpm == (m1 :> 1) @@ (m2 :> Unlisted) @@ (m3 :> Undefined)
MCWildcardRpm == [m \in Model |-> 5]
MCScopeRpm == (tenant :> 2) @@ (team :> Undefined)
MCRegistryRpm == [m \in Model |-> 3]
=============================================================================
