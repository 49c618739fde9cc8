---------------------------- MODULE RateLimiter ----------------------------
(***************************************************************************)
(* The in-memory sliding window rate limiter of                            *)
(* src/src/app/services/rate_limiter.py.                                   *)
(*                                                                         *)
(* check_rate_limit contains no await, so on the one event loop of the     *)
(* process a call is a single step.  The list of (timestamp, increment)    *)
(* tuples is a set of events here: the code only filters it, sums it and   *)
(* takes its first, that is its oldest, element.                           *)
(***************************************************************************)
EXTENDS RateWindow, FiniteSetsExt

VARIABLES
  now,      \* time.monotonic(), which never goes back
  windows,  \* self._windows
  calls,    \* number of calls made so far
  answer,   \* the call last answered and its RateLimitResult
  granted   \* history: per key, every event recorded since its last reset

vars == <<now, windows, calls, answer, granted>>

NoAnswer == [allowed |-> TRUE]

(***************************************************************************)
(* The pieces of check_rate_limit.  The operators whose names begin with   *)
(* Bug are wrong versions of the one that follows them: the properties are *)
(* tested against them and no specification uses them.                     *)
(***************************************************************************)
BugPrunedInclusive(entries, cutoff) == {e \in entries : e.ts >= cutoff}

BugPrunedEarly(entries, cutoff) == {e \in entries : e.ts > cutoff + 1}

\* entries[:] = [(ts, inc) for ts, inc in entries if ts > cutoff]
Pruned(entries, cutoff) == {e \in entries : e.ts > cutoff}

BugFitsBeforeAdding(entries, limit, inc) == Usage(entries) < limit

\* not (current + increment > limit)
Fits(entries, limit, inc) == Usage(entries) + inc <= limit

BugRetryAfterFromNow(entries, cutoff) ==
  IF entries = {} THEN 0 ELSE Min({e.ts : e \in entries}) - (cutoff + Window)

BugRetryAfterOneShort(entries, cutoff) ==
  IF entries = {} THEN 0 ELSE Max({0, Min({e.ts : e \in entries}) - cutoff - 1})

\* entries[0][0] - cutoff if entries else 0.0, never below zero
RetryAfter(entries, cutoff) ==
  IF entries = {} THEN 0 ELSE Max({0, Min({e.ts : e \in entries}) - cutoff})

Init ==
  /\ now = 0
  /\ windows = [k \in Keys |-> {}]
  /\ calls = 0
  /\ answer = NoAnswer
  /\ granted = [k \in Keys |-> {}]

\* check_rate_limit when the increment fits under the limit.
CheckAllowed(k, limit, inc) ==
  LET entries == Pruned(windows[k], now - Window)
      event   == [ts |-> now, inc |-> inc, id |-> calls + 1]
  IN  /\ calls < MaxCalls
      /\ Fits(entries, limit, inc)
      /\ windows' = [windows EXCEPT ![k] = entries \cup {event}]
      /\ granted' = [granted EXCEPT ![k] = @ \cup {event}]
      /\ calls' = calls + 1
      /\ answer' = [key |-> k, limit |-> limit, inc |-> inc, allowed |-> TRUE,
                    remaining |-> limit - Usage(entries) - inc, retryAfter |-> 0]
      /\ UNCHANGED now

\* check_rate_limit when it does not: the pruning is kept, nothing is recorded.
CheckDenied(k, limit, inc) ==
  LET entries == Pruned(windows[k], now - Window)
  IN  /\ calls < MaxCalls
      /\ ~Fits(entries, limit, inc)
      /\ windows' = [windows EXCEPT ![k] = entries]
      /\ calls' = calls + 1
      /\ answer' = [key |-> k, limit |-> limit, inc |-> inc, allowed |-> FALSE,
                    remaining |-> Max({0, limit - Usage(entries)}),
                    retryAfter |-> RetryAfter(entries, now - Window)]
      /\ UNCHANGED <<now, granted>>

Reset(k) ==
  /\ windows' = [windows EXCEPT ![k] = {}]
  /\ granted' = [granted EXCEPT ![k] = {}]
  /\ UNCHANGED <<now, calls, answer>>

Tick ==
  /\ now < MaxTime
  /\ now' = now + 1
  /\ UNCHANGED <<windows, calls, answer, granted>>

Next ==
  \/ \E k \in Keys, limit \in Limits, inc \in Increments :
        CheckAllowed(k, limit, inc) \/ CheckDenied(k, limit, inc)
  \/ \E k \in Keys : Reset(k)
  \/ Tick

Spec == Init /\ [][Next]_vars
-----------------------------------------------------------------------------
(***************************************************************************)
(* Properties                                                              *)
(***************************************************************************)
Answer ==
  [key : Keys, limit : Limits, inc : Increments, allowed : BOOLEAN,
   remaining : Nat, retryAfter : 0..Window]

\* Every variable keeps the shape the class gives it; in particular a result
\* never has a negative remainder, nor a wait outside 0..Window.
TypeOK ==
  /\ now \in 0..MaxTime
  /\ windows \in [Keys -> SUBSET Event]
  /\ calls \in 0..MaxCalls
  /\ answer \in Answer \cup {NoAnswer}
  /\ granted \in [Keys -> SUBSET Event]

\* Pruning loses nothing a later call needs: the part of the kept list that
\* is inside the window is the part of the whole history that is, although
\* each call drops entries for good.
PruningIsExact ==
  \A k \in Keys : Live(windows[k], now) = Live(granted[k], now)

\* No stretch of Window time units, wherever it ends, holds more granted
\* increments than some limit a caller passed: the limit bounds every window
\* of the past and not only those that end at a call.
EveryWindowWithinLimit ==
  \A k \in Keys, t \in 0..MaxTime :
    LET inWindow == Live(granted[k], t)
    IN  inWindow # {} => \E limit \in Limits : Usage(inWindow) <= limit

Refused(answered) == ~answered.allowed /\ answered.inc <= answered.limit

\* The refused caller, asking again after retry_after with nothing recorded in
\* the meantime.
FitsLater ==
  Fits(Pruned(windows[answer.key], now + answer.retryAfter - Window), answer.limit, answer.inc)

\* A refused caller that waits retry_after has room if it asks for no more than
\* any one kept entry holds, as the RPM check with its single units always does,
\* and its limit was not lowered below what had been granted already.  A caller
\* who asks for more may need more than the oldest entry frees.
RetryAfterSuffices ==
  LET kept == windows[answer.key]
  IN  (Refused(answer) /\ Usage(kept) <= answer.limit /\ \A e \in kept : answer.inc <= e.inc)
        => FitsLater

(***************************************************************************)
(* The list of recent tuples implements the decision rule on the whole     *)
(* history, step by step.                                                  *)
(***************************************************************************)
Law == INSTANCE SlidingWindow WITH
         history <- granted,
         verdict <- IF answer = NoAnswer THEN NoAnswer
                    ELSE [key |-> answer.key, limit |-> answer.limit,
                          inc |-> answer.inc, allowed |-> answer.allowed]

\* Every answer of check_rate_limit is the one that the full history of
\* granted increments dictates.
ImplementsLaw == Law!Spec
=============================================================================
