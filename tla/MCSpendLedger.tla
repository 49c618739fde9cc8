--------------------------- MODULE MCSpendLedger ---------------------------
(***************************************************************************)
(* Instances of SpendLedger for TLC.  Two hashes of one user, of which the *)
(* first belongs to a team: the calls meet in the key, the user and the    *)
(* team rows.                                                              *)
(***************************************************************************)
EXTENDS SpendLedger, TLC

CONSTANTS h1, h2, u1, t1, m1, c1, c2, c3, c4, c5

MCEntities == {h1, h2, u1, t1}
MCModelOf == [c \in Calls |-> m1]
MCCost == [c \in Calls |-> 1]
MCBudget == [e \in MCEntities |-> IF e = h1 THEN 1 ELSE NoBudget]

\* c3 is a call with the other hash.
MCPayers == [c \in Calls |-> IF c = c3 THEN <<h2, u1>> ELSE <<h1, u1, t1>>]

\* All calls of one key, without team or organization: when two of the first
\* three lose one of three units, two more are let through.
KeyPayers == [c \in Calls |-> <<h1, u1>>]
KeyBudget == [e \in MCEntities |-> IF e = h1 THEN 3 ELSE NoBudget]
Alike == Permutations(Calls \ Streams)
=============================================================================
