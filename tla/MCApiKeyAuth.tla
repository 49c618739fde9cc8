---------------------------- MODULE MCApiKeyAuth ----------------------------
(***************************************************************************)
(* Instances of ApiKeyAuth for TLC.                                        *)
(***************************************************************************)
EXTENDS ApiKeyAuth

CONSTANTS u1

MCOwner == [k \in Keys |-> u1]
MCUsers == {u1}
=============================================================================
