----------------------------- MODULE Directory -----------------------------
(***************************************************************************)
(* What the administration of organizations, teams and users promises: a   *)
(* row appears with all that it refers to in place and no row of the same  *)
(* key beside it, and disappears together with everything that belongs to  *)
(* it and nothing else, in one step.  A user, and an organization with an  *)
(* SSO configuration, disappears only when nothing refers to it any more.  *)
(***************************************************************************)
EXTENDS TenancyRows

CONSTANT Universe   \* the rows that can ever be

VARIABLE rows

Init == rows \in SUBSET Universe

Add(x) ==
  /\ \A i \in DOMAIN Parents(x) : \E y \in rows : Ref(y) = Parents(x)[i]
  /\ \A y \in rows : ~Clash(x, y)
  /\ rows' = rows \cup {x}

Remove(x) ==
  /\ \A y \in Owned(x, rows) \ {x} :
       x.table \in {"organizations", "teams"} /\ y.table # "sso_configs"
  /\ rows' = rows \ Owned(x, rows)

Next == \/ \E x \in Universe : Add(x)
        \/ \E x \in rows : Remove(x)

Spec == Init /\ [][Next]_rows
=============================================================================
