---------------------------- MODULE StorePromise ----------------------------
(***************************************************************************)
(* What a RateLimitStore (src/src/store/interface.ts) promises the engine  *)
(* about admissions, whatever it remembers and wherever it keeps it: the   *)
(* requests admitted for a key never exceed rpm in a window or rpd in a    *)
(* day.  Slack is how much shorter than nominal a window may be when it    *)
(* is measured by clocks that disagree.                                    *)
(***************************************************************************)
EXTENDS Integers, Sequences

CONSTANTS Key, rpm, rpd, WINDOW_MS, DAY_MS, Slack, Unlimited

VARIABLES
  now,
  log   \* the times of all admissions of each key, oldest first

\* Of any limit + 1 consecutive admissions the last comes a window after the first.
Bounded(times, limit, windowMs) ==
  limit # Unlimited =>
    \A i \in DOMAIN times :
      i + limit \in DOMAIN times => times[i + limit] >= times[i] + windowMs - Slack

Init == log = [k \in Key |-> <<>>]

Admit(k) ==
  /\ log' = [log EXCEPT ![k] = Append(@, now)]
  /\ Bounded(log'[k], rpm, WINDOW_MS)
  /\ Bounded(log'[k], rpd, DAY_MS)
  /\ UNCHANGED now

\* reset starts the account anew.
Forget == log' = [k \in Key |-> <<>>] /\ UNCHANGED now

Wait == now' > now /\ UNCHANGED log

Next == (\E k \in Key : Admit(k)) \/ Forget \/ Wait

Spec == Init /\ [][Next]_<<now, log>>
=============================================================================
