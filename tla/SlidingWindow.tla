--------------------------- MODULE SlidingWindow ---------------------------
(***************************************************************************)
(* What the rate limiter promises, stated without its data structure: the  *)
(* whole history of granted increments is kept, and a call is granted      *)
(* exactly when the increments granted in the last Window time units       *)
(* leave room for it.  RateLimiter, which models                           *)
(* src/src/app/services/rate_limiter.py, is shown to implement this.       *)
(***************************************************************************)
EXTENDS RateWindow

VARIABLES
  now,      \* the clock
  history,  \* for each key, every event granted since the last reset
  verdict   \* the latest call and whether it was granted

specVars == <<now, history, verdict>>

NoVerdict == [allowed |-> TRUE]

Init ==
  /\ now = 0
  /\ history = [k \in Keys |-> {}]
  /\ verdict = NoVerdict

HasRoom(k, limit, inc) == Usage(Live(history[k], now)) + inc <= limit

Grant(k, limit, inc, id) ==
  /\ HasRoom(k, limit, inc)
  /\ history' = [history EXCEPT ![k] = @ \cup {[ts |-> now, inc |-> inc, id |-> id]}]
  /\ verdict' = [key |-> k, limit |-> limit, inc |-> inc, allowed |-> TRUE]
  /\ UNCHANGED now

Refuse(k, limit, inc) ==
  /\ ~HasRoom(k, limit, inc)
  /\ verdict' = [key |-> k, limit |-> limit, inc |-> inc, allowed |-> FALSE]
  /\ UNCHANGED <<now, history>>

Forget(k) ==
  /\ history' = [history EXCEPT ![k] = {}]
  /\ UNCHANGED <<now, verdict>>

Pass ==
  /\ now' = now + 1
  /\ UNCHANGED <<history, verdict>>

Next ==
  \/ \E k \in Keys, limit \in Limits, inc \in Increments :
        \/ \E id \in 1..MaxCalls : Grant(k, limit, inc, id)
        \/ Refuse(k, limit, inc)
  \/ \E k \in Keys : Forget(k)
  \/ Pass

Spec == Init /\ [][Next]_specVars
=============================================================================
