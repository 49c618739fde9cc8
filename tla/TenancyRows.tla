---------------------------- MODULE TenancyRows ----------------------------
(***************************************************************************)
(* The rows of organizations, teams, projects, users, keys, memberships,   *)
(* SSO configurations and budgets, as far as foreign keys and unique       *)
(* constraints see them:                                                   *)
(*                                                                         *)
(*   [table, id, org, team, user, name]                                    *)
(*                                                                         *)
(* org, team and user are the columns org_id, team_id and user_id (None    *)
(* where the table has no such column or it is NULL), name is the slug or  *)
(* the e-mail address.  projects.id is referred to by api_keys.project_id, *)
(* which no operation sets, and budget_id is set by none either.           *)
(***************************************************************************)
EXTENDS Sequences, FiniteSets

CONSTANT None

Ref(x) == <<x.table, x.id>>

Tables == {"organizations", "teams", "projects", "users", "api_keys", "org_memberships",
           "team_memberships", "sso_configs", "budgets"}

\* Which of the columns the table of a row has.
WellFormed(x) ==
  /\ x.table \in Tables /\ x.id # None
  /\ x.org # None => x.table \in {"teams", "api_keys", "org_memberships", "sso_configs"}
  /\ x.team # None => x.table \in {"projects", "api_keys", "team_memberships"}
  /\ x.user # None => x.table \in {"api_keys", "org_memberships", "team_memberships"}

\* What a row refers to, in the order its foreign keys are checked.
ForeignKey(table, id) == IF id = None THEN <<>> ELSE <<<<table, id>>>>
Parents(x) ==
  ForeignKey("organizations", x.org) \o ForeignKey("teams", x.team) \o ForeignKey("users", x.user)

Refers(x, y) == \E i \in DOMAIN Parents(x) : Parents(x)[i] = Ref(y)

\* The value that a unique constraint allows once per table.
UniqueKey(x) ==
  CASE x.table \in {"organizations", "users"} -> x.name
    [] x.table \in {"org_memberships", "team_memberships", "sso_configs"} ->
         <<x.org, x.team, x.user>>
    [] OTHER -> x.id

Clash(x, y) == x.table = y.table /\ UniqueKey(x) = UniqueKey(y)

\* The foreign keys and the unique constraints hold among the rows of R.
Consistent(R) ==
  /\ \A y \in R : \A i \in DOMAIN Parents(y) : \E x \in R : Ref(x) = Parents(y)[i]
  /\ \A x, y \in R : Clash(x, y) => x = y

\* x and the rows of R that refer to it, directly or through a team.
Owned(x, R) ==
  LET below == {y \in R : Refers(y, x)}
  IN {x} \cup below \cup {z \in R : \E y \in below : Refers(z, y)}
=============================================================================
