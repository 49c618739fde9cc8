--------------------------- MODULE MCAuthSessions ---------------------------
(***************************************************************************)
(* Instances of AuthSessions for TLC.  Requests are interchangeable.       *)
(***************************************************************************)
EXTENDS AuthSessions, TLC

Symmetry == Permutations(Requests)
=============================================================================
