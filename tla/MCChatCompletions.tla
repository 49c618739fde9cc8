------------------------- MODULE MCChatCompletions -------------------------
(***************************************************************************)
(* Instances of ChatCompletions for TLC.  Models are sequences of a few    *)
(* letters; the key allows those that begin with "a".                      *)
(***************************************************************************)
EXTENDS ChatCompletions, TLC

CONSTANTS c1, c2, c3, k1

Request(k, admin, model, tokens, stream, p) ==
  [key |-> k, admin |-> admin, model |-> model, tokens |-> tokens, stream |-> stream,
   provider |-> p, price |-> 1]

\* Short and long calls with the key, one for a model it may not use, and one
\* of an administrator to a provider without an API key.
GuardAsks ==
  {Request(k1, FALSE, <<"a", "b">>, 2, FALSE, "openai"),
   Request(k1, FALSE, <<"b">>, 1, FALSE, "openai"),
   Request(k1, TRUE, <<"b">>, 1, FALSE, "anthropic")}

\* Calls without a key: a stream from either provider, or a plain answer.
StreamAsks ==
  {Request(Unset, FALSE, <<"a">>, 1, TRUE, p) : p \in Providers}
    \cup {Request(Unset, FALSE, <<"a">>, 1, FALSE, "anthropic")}

\* The key has no list of its own, its team allows a*, its organization
\* nothing.
GuardRow ==
  [k \in Keys |->
     [rpm |-> 2, tpm |-> 3, budget |-> 1,
      lists |-> <<Unset, {[text |-> <<"a">>, wild |-> TRUE]}, {}>>]]

Symmetry == Permutations(Calls)
=============================================================================
