------------------------------ MODULE Tenancy ------------------------------
(***************************************************************************)
(* Administration of organizations, teams, memberships, users and budgets, *)
(* with the creation of the keys that refer to them.                       *)
(*                                                                         *)
(*   src/src/app/services/org_service.py, team_service.py,                 *)
(*   user_service.py, budget_service.py   the operations                   *)
(*   src/src/app/routes/org_routes.py, team_routes.py, user_routes.py,     *)
(*   budget_routes.py                     what they answer                 *)
(*                                                                         *)
(* A request is a list of SQL statements that its handler runs in one      *)
(* transaction at READ COMMITTED; a step is one statement, the part of one *)
(* that had to wait, or the COMMIT.  The locks are PostgreSQL's: a DELETE  *)
(* or UPDATE holds its rows until the transaction ends, an INSERT waits    *)
(* for whoever holds the same key, and holds every row it refers to        *)
(* against a DELETE.  Whoever waits in a circle may be aborted.            *)
(***************************************************************************)
EXTENDS TenancyRows, Naturals

CONSTANTS
  Requests,
  Universe,    \* the rows that can ever be
  Populations  \* the contents the tables may start with

ASSUME TenancyAssumption ==
  /\ None \notin Universe
  /\ \A x \in Universe : WellFormed(x)
  /\ \A x, y \in Universe : Ref(x) = Ref(y) => x = y
  /\ \A R \in Populations : R \subseteq Universe /\ Consistent(R)

VARIABLES
  rows,    \* what is committed
  ins,     \* per request: the rows it has inserted,
  del,     \*   deleted,
  upd,     \*   updated
  share,   \*   and holds FOR KEY SHARE, none of it committed
  op,      \* what it does
  goal,    \* the row it does it to
  pc,      \* whether its next statement can run
  todo,    \* the statements it has yet to run
  want,    \* the rows that a DELETE has found and waits for
  answer,  \* the HTTP status
  used,    \* history: the rows that were ever inserted
  late,    \* history: rows that others committed since it began
  blame    \* history: the rows that made a foreign key fail

tx == <<ins, del, upd, share>>
vars == <<rows, tx, op, goal, pc, todo, want, answer, used, late, blame>>

Ops == {"create", "update", "delete", "purge", "delete_team", "delete_org"}

\* The statements.
Delete(t, column, ids) == [do |-> "delete", table |-> t, by |-> column, ids |-> ids]
Insert(x) == [do |-> "insert", row |-> x]
Update(x) == [do |-> "update", row |-> x]
Share(p) == [do |-> "share", ref |-> p]

Init ==
  /\ rows \in Populations
  /\ ins = [r \in Requests |-> {}] /\ del = [r \in Requests |-> {}]
  /\ upd = [r \in Requests |-> {}] /\ share = [r \in Requests |-> {}]
  /\ op = [r \in Requests |-> "none"]
  /\ goal = [r \in Requests |-> None]
  /\ pc = [r \in Requests |-> "idle"]
  /\ todo = [r \in Requests |-> <<>>]
  /\ want = [r \in Requests |-> {}]
  /\ answer = [r \in Requests |-> 0]
  /\ used = rows
  /\ late = [r \in Requests |-> {}]
  /\ blame = [r \in Requests |-> {}]
-----------------------------------------------------------------------------
(***************************************************************************)
(* The programs.  An operator whose name begins with Bug is a wrong        *)
(* version of the one that follows it: the properties are tested against   *)
(* it and no specification uses it.                                        *)
(***************************************************************************)
BugTeamCascadeKeepsProjects(t) ==
  <<Delete("api_keys", "team", {t}), Delete("team_memberships", "team", {t}),
    Delete("teams", "id", {t})>>

\* delete_team.
TeamCascade(t) ==
  <<Delete("api_keys", "team", {t}), Delete("projects", "team", {t}),
    Delete("team_memberships", "team", {t}), Delete("teams", "id", {t})>>

\* delete_org, with the teams T that its second SELECT found.
OrgCascade(o, T) ==
  (IF T = {} THEN <<>>
   ELSE <<Delete("api_keys", "team", T), Delete("projects", "team", T),
          Delete("team_memberships", "team", T), Delete("teams", "id", T)>>)
  \o <<Delete("api_keys", "org", {o}), Delete("org_memberships", "org", {o}),
       Delete("organizations", "id", {o})>>

Begin(r, o, x, next, program) ==
  /\ pc[r] = "idle"
  /\ op' = [op EXCEPT ![r] = o]
  /\ goal' = [goal EXCEPT ![r] = x]
  /\ pc' = [pc EXCEPT ![r] = next]
  /\ todo' = [todo EXCEPT ![r] = program]
  /\ UNCHANGED <<rows, tx, want, answer, late, blame>>

Create(r, x) ==
  /\ x \notin used
  /\ Begin(r, "create", x, "run", <<Insert(x)>>)
  /\ used' = used \cup {x}

CreateOrg(r) == \E x \in Universe : x.table = "organizations" /\ Create(r, x)
CreateTeam(r) == \E x \in Universe : x.table = "teams" /\ Create(r, x)
CreateUser(r) == \E x \in Universe : x.table = "users" /\ Create(r, x)
CreateBudget(r) == \E x \in Universe : x.table = "budgets" /\ Create(r, x)
GenerateKey(r) == \E x \in Universe : x.table = "api_keys" /\ Create(r, x)
AddOrgMember(r) == \E x \in Universe : x.table = "org_memberships" /\ Create(r, x)
AddTeamMember(r) == \E x \in Universe : x.table = "team_memberships" /\ Create(r, x)
CreateSSOConfig(r) == \E x \in Universe : x.table = "sso_configs" /\ Create(r, x)

\* SELECT the row, change the object, UPDATE at the commit.
Change(r, t) ==
  \E x \in rows : x.table = t /\ Begin(r, "update", x, "run", <<Update(x)>>) /\ UNCHANGED used

UpdateOrg(r) == Change(r, "organizations")
UpdateTeam(r) == Change(r, "teams")
UpdateUser(r) == Change(r, "users")
UpdateBudget(r) == Change(r, "budgets")
UpdateOrgMember(r) == Change(r, "org_memberships")
UpdateTeamMember(r) == Change(r, "team_memberships")

BugDropTouchesUser(r, t) ==
  \E x \in rows :
    /\ x.table = t
    /\ \E p \in {<<>>} \cup {<<Update(u)>> : u \in {y \in rows : y.id = x.user}} :
         Begin(r, "delete", x, "run", <<Delete(t, "id", {x.id})>> \o p)
    /\ UNCHANGED used

\* SELECT the row, DELETE it by its id.
Drop(r, t) ==
  \E x \in rows : /\ x.table = t
                  /\ Begin(r, "delete", x, "run", <<Delete(t, "id", {x.id})>>)
                  /\ UNCHANGED used

DeleteUser(r) == Drop(r, "users")
DeleteBudget(r) == Drop(r, "budgets")
DeleteKey(r) == Drop(r, "api_keys")
RemoveOrgMember(r) == Drop(r, "org_memberships")
RemoveTeamMember(r) == Drop(r, "team_memberships")

\* DELETE without a SELECT.
DeleteSSOConfig(r) ==
  \E x \in Universe : /\ x.table = "sso_configs"
                      /\ Begin(r, "purge", x, "run", <<Delete("sso_configs", "org", {x.org})>>)
                      /\ UNCHANGED used

DeleteTeam(r) ==
  \E x \in rows : /\ x.table = "teams"
                  /\ Begin(r, "delete_team", x, "run", TeamCascade(x.id))
                  /\ UNCHANGED used

DeleteOrg(r) ==
  \E x \in rows : /\ x.table = "organizations"
                  /\ Begin(r, "delete_org", x, "teams", <<>>)
                  /\ UNCHANGED used

\* The second SELECT of delete_org.
ReadTeams(r) ==
  LET T == {x.id : x \in {y \in rows : y.table = "teams" /\ y.org = goal[r].id}}
  IN /\ pc[r] = "teams"
     /\ pc' = [pc EXCEPT ![r] = "run"]
     /\ todo' = [todo EXCEPT ![r] = OrgCascade(goal[r].id, T)]
     /\ UNCHANGED <<rows, tx, op, goal, want, answer, used, late, blame>>
-----------------------------------------------------------------------------
(***************************************************************************)
(* Locks.                                                                  *)
(***************************************************************************)
Running(r, kind) == pc[r] = "run" /\ todo[r] # <<>> /\ todo[r][1].do = kind

\* The rows that a DELETE finds when it begins.
Found(r) == {x \in rows \ del[r] : x.table = todo[r][1].table /\ x[todo[r][1].by] \in todo[r][1].ids}

\* Who keeps r from deleting the rows of S.
Holders(r, S) ==
  {q \in Requests \ {r} : \E x \in S : x \in del[q] \cup upd[q] \/ Ref(x) \in share[q]}

\* The rows left behind that refer to one r has deleted.
Orphans(r) == {y \in rows \ del[r] : \E x \in del[r] : Refers(y, x)}

\* Who r waits for.
Blockers(r) ==
  CASE pc[r] = "wait"  -> Holders(r, want[r] \cap rows)
    [] pc[r] = "check" -> {q \in Requests : \E y \in Orphans(r) : y \in del[q]}
    [] Running(r, "delete") -> Holders(r, Found(r))
    [] Running(r, "insert") -> {q \in Requests \ {r} :
                                  \E y \in ins[q] \cup del[q] : Clash(y, todo[r][1].row)}
    [] Running(r, "share")  -> {q \in Requests \ {r} :
                                  \E y \in del[q] : Ref(y) = todo[r][1].ref}
    [] Running(r, "update") -> {q \in Requests \ {r} : todo[r][1].row \in del[q] \cup upd[q]}
    [] OTHER -> {}

\* r is one of a circle of requests that wait for each other.
InCircle(r) ==
  /\ Blockers(r) # {}
  /\ \E S \in SUBSET Requests :
    /\ r \in S
    /\ \A q \in S : /\ Blockers(q) \cap S # {}
                    /\ \E p \in S : q \in Blockers(p)

Release(r) ==
  /\ ins' = [ins EXCEPT ![r] = {}] /\ del' = [del EXCEPT ![r] = {}]
  /\ upd' = [upd EXCEPT ![r] = {}] /\ share' = [share EXCEPT ![r] = {}]
  /\ want' = [want EXCEPT ![r] = {}]

Answer(r, status) ==
  /\ pc' = [pc EXCEPT ![r] = "done"]
  /\ answer' = [answer EXCEPT ![r] = status]
  /\ todo' = [todo EXCEPT ![r] = <<>>]

\* The services that turn the IntegrityError of their flush into a
\* DuplicateError, which their routes answer with 409.
Catches(r) ==
  /\ op[r] = "create"
  /\ goal[r].table \in {"organizations", "users", "org_memberships",
                         "team_memberships", "sso_configs"}

BugAbortWithoutRollback(r, status, why) ==
  /\ UNCHANGED <<rows, tx, want>>
  /\ Answer(r, status)
  /\ blame' = [blame EXCEPT ![r] = why]
  /\ UNCHANGED <<op, goal, used, late>>

BugAbortCommits(r, status, why) ==
  /\ rows' = rows \ del[r]
  /\ Release(r)
  /\ Answer(r, status)
  /\ blame' = [blame EXCEPT ![r] = why]
  /\ UNCHANGED <<op, goal, used, late>>

\* The session is rolled back, by the handler or when it is closed.
Abort(r, status, why) ==
  /\ UNCHANGED rows
  /\ Release(r)
  /\ Answer(r, status)
  /\ blame' = [blame EXCEPT ![r] = why]
  /\ UNCHANGED <<op, goal, used, late>>
-----------------------------------------------------------------------------
(***************************************************************************)
(* The statements run.                                                     *)
(***************************************************************************)
NextStatement(r, p) == todo' = [todo EXCEPT ![r] = p \o Tail(@)]

\* The DELETE has its rows.  Its foreign keys are checked at its end.
Deleted(r, S) ==
  LET left == {y \in rows \ (del[r] \cup S) : \E x \in S : Refers(y, x)}
  IN /\ del' = [del EXCEPT ![r] = @ \cup S]
     /\ want' = [want EXCEPT ![r] = {}]
     /\ IF left = {} THEN pc' = [pc EXCEPT ![r] = "run"] /\ NextStatement(r, <<>>)
                     ELSE pc' = [pc EXCEPT ![r] = "check"] /\ UNCHANGED todo
     /\ UNCHANGED <<rows, ins, upd, share, op, goal, answer, used, late, blame>>

ExecDelete(r) ==
  /\ Running(r, "delete")
  /\ Blockers(r) = {}
  /\ Deleted(r, Found(r))

\* It found a row that another transaction holds, and waits with some of the
\* others locked.  What is committed meanwhile it will not see.  The rows that
\* it waits for it takes in one step, when all are free (ResumeDelete), where
\* PostgreSQL takes each as it becomes free.
BlockDelete(r) ==
  /\ Running(r, "delete")
  /\ Blockers(r) # {}
  /\ \E S \in SUBSET {x \in Found(r) : Holders(r, {x}) = {}} :
       del' = [del EXCEPT ![r] = @ \cup S]
  /\ want' = [want EXCEPT ![r] = Found(r)]
  /\ pc' = [pc EXCEPT ![r] = "wait"]
  /\ UNCHANGED <<rows, ins, upd, share, op, goal, todo, answer, used, late, blame>>

ResumeDelete(r) ==
  /\ pc[r] = "wait"
  /\ Blockers(r) = {}
  /\ Deleted(r, want[r] \cap rows)

CheckOrphans(r) ==
  /\ pc[r] = "check"
  /\ Orphans(r) = {}
  /\ pc' = [pc EXCEPT ![r] = "run"]
  /\ NextStatement(r, <<>>)
  /\ UNCHANGED <<rows, tx, op, goal, want, answer, used, late, blame>>

BugFailOrphansSilently(r) ==
  /\ pc[r] = "check"
  /\ \E y \in Orphans(r) : \A q \in Requests : y \notin del[q]
  /\ Abort(r, 204, Orphans(r))

\* IntegrityError: some row still refers to one that was deleted.
FailOrphans(r) ==
  /\ pc[r] = "check"
  /\ \E y \in Orphans(r) : \A q \in Requests : y \notin del[q]
  /\ Abort(r, 500, Orphans(r))

ExecInsert(r) ==
  /\ Running(r, "insert")
  /\ Blockers(r) = {}
  /\ LET x == todo[r][1].row
         p == Parents(x)
     IN IF \E y \in rows : Clash(x, y)
        THEN Abort(r, IF Catches(r) THEN 409 ELSE 500, {})
        ELSE /\ ins' = [ins EXCEPT ![r] = @ \cup {x}]
             /\ NextStatement(r, [i \in DOMAIN p |-> Share(p[i])])
             /\ UNCHANGED <<rows, del, upd, share, op, goal, pc, want, answer, used, late, blame>>

\* The check of one foreign key of the inserted row.
ExecShare(r) ==
  /\ Running(r, "share")
  /\ Blockers(r) = {}
  /\ IF \E y \in rows : Ref(y) = todo[r][1].ref
     THEN /\ share' = [share EXCEPT ![r] = @ \cup {todo[r][1].ref}]
          /\ NextStatement(r, <<>>)
          /\ UNCHANGED <<rows, ins, del, upd, op, goal, pc, want, answer, used, late, blame>>
     ELSE Abort(r, IF Catches(r) THEN 409 ELSE 500, {})

\* StaleDataError when the row is gone.
ExecUpdate(r) ==
  /\ Running(r, "update")
  /\ Blockers(r) = {}
  /\ LET x == todo[r][1].row
     IN IF x \in rows
        THEN /\ upd' = [upd EXCEPT ![r] = @ \cup {x}]
             /\ NextStatement(r, <<>>)
             /\ UNCHANGED <<rows, ins, del, share, op, goal, pc, want, answer, used, late, blame>>
        ELSE Abort(r, 500, {})

\* PostgreSQL aborts one of those that wait in a circle.
Deadlocked(r) ==
  /\ pc[r] \in {"run", "wait", "check"}
  /\ InCircle(r)
  /\ Abort(r, 500, {})

\* The COMMIT; what creates or changes a row then loads it again.  A DELETE
\* that found nothing is an answer of its own only where the rowcount is
\* looked at.
Commit(r) ==
  /\ pc[r] = "run" /\ todo[r] = <<>>
  /\ rows' = (rows \ del[r]) \cup ins[r]
  /\ late' = [q \in Requests |-> IF q # r /\ pc[q] # "idle" THEN late[q] \cup ins[r] ELSE late[q]]
  /\ Release(r)
  /\ IF op[r] \in {"create", "update"}
     THEN pc' = [pc EXCEPT ![r] = "refresh"] /\ UNCHANGED <<todo, answer>>
     ELSE Answer(r, IF op[r] = "purge" /\ del[r] = {} THEN 404 ELSE 204)
  /\ UNCHANGED <<op, goal, used, blame>>

\* db.refresh: InvalidRequestError when the row is gone again.
Refresh(r) ==
  /\ pc[r] = "refresh"
  /\ Answer(r, IF goal[r] \notin rows THEN 500 ELSE IF op[r] = "create" THEN 201 ELSE 200)
  /\ UNCHANGED <<rows, tx, op, goal, want, used, late, blame>>

Work(r) ==
  \/ ReadTeams(r) \/ ExecDelete(r) \/ BlockDelete(r) \/ ResumeDelete(r)
  \/ CheckOrphans(r) \/ FailOrphans(r) \/ ExecInsert(r) \/ ExecShare(r)
  \/ ExecUpdate(r) \/ Deadlocked(r) \/ Commit(r) \/ Refresh(r)

\* What the routes offer.
OrgRoutes(r) ==
  \/ CreateOrg(r) \/ UpdateOrg(r) \/ DeleteOrg(r)
  \/ AddOrgMember(r) \/ UpdateOrgMember(r) \/ RemoveOrgMember(r)

TeamRoutes(r) ==
  \/ CreateTeam(r) \/ UpdateTeam(r) \/ DeleteTeam(r)
  \/ AddTeamMember(r) \/ UpdateTeamMember(r) \/ RemoveTeamMember(r)

UserRoutes(r) == CreateUser(r) \/ UpdateUser(r) \/ DeleteUser(r)

BudgetRoutes(r) == CreateBudget(r) \/ UpdateBudget(r) \/ DeleteBudget(r)

Start(r) ==
  \/ OrgRoutes(r) \/ TeamRoutes(r) \/ UserRoutes(r) \/ BudgetRoutes(r)
  \/ GenerateKey(r) \/ DeleteKey(r) \/ CreateSSOConfig(r) \/ DeleteSSOConfig(r)

Next == \E r \in Requests : Start(r) \/ Work(r)

Spec == Init /\ [][Next]_vars

\* The database runs every statement that can run, and breaks every circle.
FairSpec == Spec /\ \A r \in Requests : WF_vars(Work(r))
-----------------------------------------------------------------------------
(***************************************************************************)
(* Properties.                                                             *)
(***************************************************************************)
Ids == UNION {{x.id, x.org} : x \in Universe}
Refs == {Ref(x) : x \in Universe}
Statement ==
  [do : {"delete"}, table : Tables, by : {"id", "org", "team"}, ids : SUBSET Ids]
    \cup [do : {"insert", "update"}, row : Universe]
    \cup [do : {"share"}, ref : UNION {{Parents(x)[i] : i \in DOMAIN Parents(x)} : x \in Universe}]

\* Every variable has its type, and whoever is done holds nothing.
TypeOK ==
  /\ rows \subseteq used /\ used \subseteq Universe
  /\ \A held \in {ins, del, upd, want, late, blame} : held \in [Requests -> SUBSET Universe]
  /\ share \in [Requests -> SUBSET Refs]
  /\ op \in [Requests -> Ops \cup {"none"}] /\ goal \in [Requests -> Universe \cup {None}]
  /\ pc \in [Requests -> {"idle", "teams", "run", "wait", "check", "refresh", "done"}]
  /\ todo \in [Requests -> Seq(Statement)]
  /\ answer \in [Requests -> {0, 200, 201, 204, 404, 409, 500}]
  /\ \A r \in Requests : pc[r] = "done" => ins[r] \cup del[r] \cup upd[r] \cup share[r] = {}

Cascades == {r \in Requests : op[r] \in {"delete_team", "delete_org"}}

\* A cascading deletion of a team or an organization (delete_team,
\* delete_org) fails on a foreign key only because of a row that was
\* committed while it ran, or of the organization's SSO configuration, which
\* it does not delete: the list of tables it empties is otherwise complete,
\* and in an order the foreign keys allow.
CascadeFailsOnlyOnNewRows ==
  \A r \in Cascades : \A y \in blame[r] : y \in late[r] \/ y.table = "sso_configs"

\* A deletion that was answered with 204 has happened, whether this request
\* or one that overlapped it removed the row: SQLAlchemy lets a DELETE that
\* finds its row gone pass.
DeletedWhenAnswered ==
  \A r \in Requests : op[r] \in {"delete", "delete_team", "delete_org"} /\ answer[r] = 204
                        => goal[r] \notin rows

\* Whenever requests wait for each other in a circle, one of them is deleting
\* a team or an organization (delete_team, delete_org), and another one
\* is doing that too or is adding a row: the other deletions and the
\* updates, which lock one row each, never close a circle by themselves.
CirclesNeedACascade ==
  \A r \in Requests : InCircle(r) =>
    \E c \in Cascades :
      /\ InCircle(c)
      /\ \/ \E d \in Cascades \ {c} : InCircle(d)
         \/ \E q \in Requests : InCircle(q) /\ ins[q] # {}

\* What is committed changes as the directory promises: rows appear with
\* what they refer to, and go with all that belongs to them and nothing
\* else, at once or not at all.
D == INSTANCE Directory
ImplementsDirectory == D!Spec

\* Every request is answered: no statement waits for ever, because whoever
\* holds its rows goes on or is aborted.
EveryRequestEnds == \A r \in Requests : pc[r] # "idle" ~> pc[r] = "done"
=============================================================================
