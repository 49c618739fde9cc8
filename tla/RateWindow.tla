----------------------------- MODULE RateWindow -----------------------------
(***************************************************************************)
(* The data of the sliding window rate limiter: granted increments, what   *)
(* they add up to, and which of them a window still covers.                *)
(***************************************************************************)
EXTENDS Integers, FiniteSets

CONSTANTS
  Keys,        \* identifiers: "rpm:<api key hash>" and "tpm:<api key hash>"
  Limits,      \* the limits a caller may pass
  Increments,  \* the increments a caller may pass: 1 for RPM, tokens for TPM
  Window,      \* window_seconds, in clock units
  MaxTime,     \* bound on the clock
  MaxCalls     \* bound on the number of calls

ASSUME WindowAssumption ==
  /\ Window \in Nat \ {0}
  /\ MaxTime \in Nat
  /\ MaxCalls \in Nat
  /\ Limits \subseteq Int
  /\ Increments \subseteq Nat \ {0}

\* One granted (timestamp, increment) tuple; the number of the call that
\* recorded it tells equal tuples apart.
Event == [ts : 0..MaxTime, inc : Increments, id : 1..MaxCalls]

\* The units that a set of events uses up, each event as many as its
\* increment; their number is the sum of the increments.
Units(events) == UNION {{e} \X (1..e.inc) : e \in events}

\* sum(inc for _, inc in entries)
Usage(events) == Cardinality(Units(events))

\* The events that a window ending at time t covers.
Live(events, t) == {e \in events : t - Window < e.ts /\ e.ts <= t}
=============================================================================
