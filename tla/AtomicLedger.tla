---------------------------- MODULE AtomicLedger ----------------------------
(***************************************************************************)
(* What src/src/app/services/spend_service.py promises: a call is logged   *)
(* once, and the log and the aggregates it belongs to change together.  An *)
(* aggregate gains the call and keeps what it had, unless a logged call of *)
(* the same aggregate ran its log_spend at the same time: then it may gain *)
(* and lose others, but never the call itself, and counts nothing that is  *)
(* not in the log.                                                         *)
(*                                                                         *)
(* Which calls ran at the same time is not for the ledger to decide: it is *)
(* told by overlap.                                                        *)
(***************************************************************************)
CONSTANTS
  Calls,
  Rows,     \* the aggregates
  RowSets,  \* the sets of aggregates that one call may count in
  NoRow

VARIABLES
  entries,  \* per logged call, the aggregates it counts in
  agg,
  overlap   \* per call, those whose log_spend ran while its own did

ledger == <<entries, agg>>

Init == entries = <<>> /\ agg = [r \in Rows |-> NoRow]

Counting(r) == {d \in DOMAIN entries : r \in entries[d]}

Add(c, r) == agg'[r] = IF agg[r] = NoRow THEN {c} ELSE agg[r] \cup {c}

\* Another logged call of r has overlapped c.
Overwrite(c, r) ==
  /\ Counting(r) \cap overlap[c] # {}
  /\ c \in agg'[r] /\ agg'[r] \subseteq Counting(r) \cup {c}

Record(c, rows) ==
  /\ c \notin DOMAIN entries
  /\ entries' = [d \in DOMAIN entries \cup {c} |-> IF d = c THEN rows ELSE entries[d]]
  /\ \A r \in Rows \ rows : agg'[r] = agg[r]
  /\ \A r \in rows : Add(c, r) \/ Overwrite(c, r)

Next == \E c \in Calls, rows \in RowSets : Record(c, rows)

Spec == Init /\ [][Next]_ledger
=============================================================================
