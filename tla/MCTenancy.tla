----------------------------- MODULE MCTenancy -----------------------------
(***************************************************************************)
(* Instances of Tenancy for TLC: an organization, its team, a project, a   *)
(* user and keys.  CoreRows has a second organization, and keys that name  *)
(* one of the two and a team of the other.  AllRows has one with the same  *)
(* slug, the memberships, and two rows of one membership.                  *)
(***************************************************************************)
EXTENDS Tenancy, TLC

Row(table, id, org, team, user, name) ==
  [table |-> table, id |-> id, org |-> org, team |-> team, user |-> user, name |-> name]

O1 == Row("organizations", "o1", None, None, None, "acme")
O2 == Row("organizations", "o2", None, None, None, "acme")
T1 == Row("teams", "t1", "o1", None, None, None)
O3 == Row("organizations", "o3", None, None, None, "beta")
T2 == Row("teams", "t2", "o1", None, None, None)
T3 == Row("teams", "t3", "o3", None, None, None)
P1 == Row("projects", "p1", None, "t1", None, None)
U1 == Row("users", "u1", None, None, None, "ada")
K1 == Row("api_keys", "k1", None, "t1", "u1", None)
K2 == Row("api_keys", "k2", "o1", "t1", "u1", None)
K3 == Row("api_keys", "k3", "o3", "t1", "u1", None)
K4 == Row("api_keys", "k4", "o1", "t3", "u1", None)
M1 == Row("org_memberships", "m1", "o1", None, "u1", None)
M2 == Row("org_memberships", "m2", "o1", None, "u1", None)
N1 == Row("team_memberships", "n1", None, "t1", "u1", None)
C1 == Row("sso_configs", "c1", "o1", None, None, None)
B1 == Row("budgets", "b1", None, None, None, None)

AllRows == {O1, O2, T1, T2, P1, U1, K1, K2, M1, M2, N1, C1, B1}
AllStarts == {{O1, T1, P1}, {O1, T1, U1, K1, N1, C1}, {O1, U1, M1, B1}}

CoreRows == {O1, O3, T1, T3, P1, K2, K3, K4, C1, U1}
CoreStarts == {{O1, O3, T1, P1}, {O1, T1, K2, C1, U1}, {O1, O3, T1, T3, U1, K3, K4}}

Symmetry == Permutations(Requests)
=============================================================================
