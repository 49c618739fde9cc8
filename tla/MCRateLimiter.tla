--------------------------- MODULE MCRateLimiter ---------------------------
(***************************************************************************)
(* Instances of RateLimiter for TLC.                                       *)
(***************************************************************************)
EXTENDS RateLimiter

\* Token-weighted use (TPM): two limits, so that update_key may change the
\* limit between two calls, and increments of different sizes.
MCLimits == {2, 3}
MCIncrements == {1, 2}

\* Usage is the sum of the increments, on every set of three events.
ASSUME UsageIsSum ==
  LET E == [ts : {0}, inc : 1..3, id : 1..3]
  IN  \A S \in SUBSET E : Usage(S) = MapThenSumSet(LAMBDA e : e.inc, S)
=============================================================================
