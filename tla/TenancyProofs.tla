--------------------------- MODULE TenancyProofs ---------------------------
(***************************************************************************)
(* For any number of requests, any rows the schema allows and any contents *)
(* that satisfy its constraints: what is committed changes like a          *)
(* directory, a 204 means the row is gone, a cascade fails only because of *)
(* rows that are new, and no circle of waiting requests is without one.    *)
(***************************************************************************)
EXTENDS Tenancy, TLAPS

USE TenancyAssumption

Deletions == {"delete", "purge", "delete_team", "delete_org"}
Cascading == {"delete_team", "delete_org"}
Active(r) == pc[r] \in {"run", "wait", "check"}

\* The row x is one that the DELETE s finds.
Hits(s, x) == s.do = "delete" /\ x.table = s.table /\ x[s.by] \in s.ids

\* The row x is one that a request of kind k for the row g is to delete.
Doomed(k, g, x) ==
  \/ k \in {"delete"} \cup Cascading /\ x = g
  \/ k = "purge" /\ x.table = "sso_configs" /\ x.org = g.org
  \/ /\ k \in Cascading /\ x.table # "sso_configs"
     /\ \/ Refers(x, g)
        \/ \E t \in Universe : t.table = "teams" /\ Refers(t, g) /\ Refers(x, t)

\* The statement s is one of the kinds that such a request runs.
Belongs(k, g, s) ==
  /\ k = "create" => s = Insert(g) \/ s.do = "share"
  /\ k = "update" => s.do = "update"
  /\ k \in Deletions => s.do = "delete" /\ \A x \in Universe : Hits(s, x) => Doomed(k, g, x)

Mine(r, x) == Doomed(op[r], goal[r], x)
Ours(r, s) == Belongs(op[r], goal[r], s)

Old(r) == rows \ (del[r] \cup late[r])

(***************************************************************************)
(* The invariant.  First the types, and what a request is at each step.    *)
(***************************************************************************)
HeldTypes ==
  /\ rows \subseteq used /\ used \subseteq Universe
  /\ ins \in [Requests -> SUBSET Universe] /\ del \in [Requests -> SUBSET Universe]
  /\ upd \in [Requests -> SUBSET Universe] /\ share \in [Requests -> SUBSET Refs]
  /\ want \in [Requests -> SUBSET Universe]

RequestTypes ==
  /\ op \in [Requests -> Ops \cup {"none"}] /\ goal \in [Requests -> Universe \cup {None}]
  /\ pc \in [Requests -> {"idle", "teams", "run", "wait", "check", "refresh", "done"}]
  /\ todo \in [Requests -> Seq(Statement)]
  /\ answer \in [Requests -> {0, 200, 201, 204, 404, 409, 500}]
  /\ late \in [Requests -> SUBSET Universe] /\ blame \in [Requests -> SUBSET Universe]

Stage(r) ==
  /\ op[r] = "none" <=> pc[r] = "idle"
  /\ op[r] # "none" => goal[r] \in Universe
  /\ op[r] = "delete_team" => goal[r].table = "teams"
  /\ op[r] = "delete_org" => goal[r].table = "organizations"
  /\ op[r] = "delete" => goal[r].table \notin {"organizations", "teams"}
  /\ pc[r] = "teams" => op[r] = "delete_org"
  /\ pc[r] = "refresh" => op[r] \in {"create", "update"}
  /\ pc[r] \in {"wait", "check"} => op[r] \in Deletions /\ todo[r] # <<>>
  /\ pc[r] # "done" => answer[r] = 0 /\ blame[r] = {}

Holds(r) ==
  /\ ~Active(r) => /\ todo[r] = <<>>
                   /\ ins[r] = {} /\ del[r] = {} /\ upd[r] = {} /\ share[r] = {}
  /\ pc[r] # "wait" => want[r] = {}
  /\ ins[r] # {} \/ share[r] # {} => op[r] = "create"
  /\ del[r] # {} \/ want[r] # {} => op[r] \in Deletions
  /\ ins[r] \subseteq {goal[r]}
  /\ \A i \in DOMAIN todo[r] : Ours(r, todo[r][i])
  /\ \A x \in del[r] \cup want[r] : Mine(r, x)

TInv == HeldTypes /\ RequestTypes /\ \A r \in Requests : Stage(r) /\ Holds(r)

(***************************************************************************)
(* Second, the locks and what they keep true of the rows.                  *)
(***************************************************************************)
Exclusive ==
  \A q, r \in Requests :
    /\ \A x \in del[q] : Ref(x) \notin share[r] /\ (x \in del[r] => q = r)
    /\ \A x \in ins[q], y \in ins[r] : Clash(x, y) => q = r

Placed(r) ==
  /\ del[r] \subseteq rows
  /\ \A p \in share[r] : \E y \in rows : Ref(y) = p
  /\ \A x \in ins[r] :
       /\ \A y \in rows : ~Clash(x, y)
       /\ \A i \in DOMAIN Parents(x) :
            \/ Parents(x)[i] \in share[r]
            \/ \E j \in DOMAIN todo[r] : todo[r][j] = Share(Parents(x)[i])

\* What is being created is new to everyone.
Fresh(r) ==
  /\ pc[r] = "idle" => late[r] = {}
  /\ op[r] \in Ops \ {"purge"} => goal[r] \in used
  /\ op[r] = "create" /\ pc[r] = "run" =>
       /\ goal[r] \notin rows
       /\ \A q \in Requests \ {r} : op[q] \in Ops \ {"purge"} => goal[q] # goal[r]
  /\ op[r] \in {"delete"} \cup Cascading => goal[r] \notin late[r]

RowsInv == Consistent(rows) /\ Exclusive /\ \A r \in Requests : Placed(r) /\ Fresh(r)

(***************************************************************************)
(* Third, how far a deletion is: what is left of it will find the rows     *)
(* that are not deleted yet, parents after children.                       *)
(***************************************************************************)
Covers(r) ==
  /\ Active(r) /\ op[r] \in {"delete"} \cup Cascading =>
       \A y \in Old(r) : Mine(r, y) => \E i \in DOMAIN todo[r] : Hits(todo[r][i], y)
  /\ pc[r] = "wait" => /\ \A x \in want[r] : Hits(todo[r][1], x)
                       /\ \A y \in Old(r) : Hits(todo[r][1], y) => y \in want[r]
  /\ pc[r] = "check" => \A y \in Old(r) : ~Hits(todo[r][1], y)

Ordered(r) ==
  op[r] \in Cascading =>
    \A y \in Old(r), x \in Universe : Refers(y, x) /\ y.table # "sso_configs" =>
      \A j \in DOMAIN todo[r] : Hits(todo[r][j], x) =>
        \E i \in DOMAIN todo[r] : i < j /\ Hits(todo[r][i], y)

Childless(r) ==
  /\ op[r] \in Cascading =>
       \A x \in del[r], y \in Old(r) : Refers(y, x) => y.table = "sso_configs"
  /\ pc[r] = "run" => \A x \in del[r], y \in rows \ del[r] : ~Refers(y, x)
  /\ pc[r] = "wait" => \A x \in del[r] \ want[r], y \in rows \ del[r] : ~Refers(y, x)

Told(r) ==
  /\ op[r] \in {"delete"} \cup Cascading /\ answer[r] = 204 => goal[r] \notin rows
  /\ op[r] \in Cascading => \A y \in blame[r] : y \in late[r] \/ y.table = "sso_configs"

WorkInv == \A r \in Requests : Covers(r) /\ Ordered(r) /\ Childless(r) /\ Told(r)

IInv == TInv /\ RowsInv /\ WorkInv
-----------------------------------------------------------------------------
(***************************************************************************)
(* Rows and what they refer to.                                            *)
(***************************************************************************)
Among(p, s) == \E i \in DOMAIN s : s[i] = p

LEMMA ConcatHolds ==
  ASSUME NEW S, NEW T, NEW a \in Seq(S), NEW b \in Seq(T), NEW p
  PROVE  /\ a \o b \in Seq(S \cup T)
         /\ Among(p, a \o b) <=> Among(p, a) \/ Among(p, b)
  <1>1. a \o b \in Seq(S \cup T) /\ Len(a \o b) = Len(a) + Len(b)
    OBVIOUS
  <1>2. \A i \in 1..Len(a) : (a \o b)[i] = a[i]
    OBVIOUS
  <1>3. \A i \in 1..Len(b) : (a \o b)[Len(a) + i] = b[i]
    OBVIOUS
  <1>4. ASSUME NEW i \in DOMAIN (a \o b), (a \o b)[i] = p
       PROVE  (\E j \in DOMAIN a : a[j] = p) \/ (\E j \in DOMAIN b : b[j] = p)
    <2>1. CASE i \in 1..Len(a)
      BY <1>2, <1>4, <2>1
    <2>2. CASE i \notin 1..Len(a)
      <3>1. i - Len(a) \in 1..Len(b) /\ Len(a) + (i - Len(a)) = i
        BY <1>1, <2>2
      <3>2. QED
        BY <1>3, <1>4, <3>1
    <2>3. QED
      BY <2>1, <2>2
  <1>5. ASSUME NEW i \in DOMAIN a, a[i] = p
       PROVE  \E j \in DOMAIN (a \o b) : (a \o b)[j] = p
    <2>1. i \in DOMAIN (a \o b)
      BY <1>1
    <2>2. QED
      BY <1>2, <1>5, <2>1
  <1>6. ASSUME NEW i \in DOMAIN b, b[i] = p
       PROVE  \E j \in DOMAIN (a \o b) : (a \o b)[j] = p
    <2>1. Len(a) + i \in DOMAIN (a \o b)
      BY <1>1
    <2>2. QED
      BY <1>3, <1>6, <2>1
  <1>7. QED
    BY <1>1, <1>4, <1>5, <1>6 DEF Among

LEMMA ForeignKeyHolds ==
  ASSUME NEW t, NEW id, NEW p
  PROVE  /\ ForeignKey(t, id) \in Seq({<<t, id>>})
         /\ Among(p, ForeignKey(t, id)) <=> id # None /\ p = <<t, id>>
  <1>1. CASE id = None
    BY <1>1 DEF ForeignKey, Among
  <1>2. CASE id # None
    <2>1. ForeignKey(t, id) = <<<<t, id>>>>
      BY <1>2 DEF ForeignKey
    <2>2. QED
      BY <1>2, <2>1 DEF Among
  <1>3. QED
    BY <1>1, <1>2

LEMMA ParentsOf ==
  ASSUME NEW x, NEW p
  PROVE  Among(p, Parents(x))
           <=> \/ x.org # None /\ p = <<"organizations", x.org>>
               \/ x.team # None /\ p = <<"teams", x.team>>
               \/ x.user # None /\ p = <<"users", x.user>>
  <1> DEFINE o == ForeignKey("organizations", x.org)
             t == ForeignKey("teams", x.team)
             u == ForeignKey("users", x.user)
             ot == o \o t
             O == {<<"organizations", x.org>>}
             T == {<<"teams", x.team>>}
             U == {<<"users", x.user>>}
  <1>1. o \in Seq(O) /\ (Among(p, o) <=> x.org # None /\ p = <<"organizations", x.org>>)
    BY ForeignKeyHolds
  <1>2. t \in Seq(T) /\ (Among(p, t) <=> x.team # None /\ p = <<"teams", x.team>>)
    BY ForeignKeyHolds
  <1>3. u \in Seq(U) /\ (Among(p, u) <=> x.user # None /\ p = <<"users", x.user>>)
    BY ForeignKeyHolds
  <1>4. Parents(x) = ot \o u
    BY DEF Parents
  <1> HIDE DEF o, t, u, O, T, U
  <1>5. /\ ot \in Seq(O \cup T)
        /\ Among(p, ot) <=> Among(p, o) \/ Among(p, t)
    BY <1>1, <1>2, ConcatHolds DEF ot
  <1> HIDE DEF ot
  <1>6. Among(p, ot \o u) <=> Among(p, ot) \/ Among(p, u)
    BY <1>3, <1>5, ConcatHolds
  <1>7. QED
    BY <1>1, <1>2, <1>3, <1>4, <1>5, <1>6

LEMMA RefersTo ==
  ASSUME NEW x \in Universe, NEW y
  PROVE  Refers(y, x) <=> \/ x.table = "organizations" /\ y.org = x.id
                          \/ x.table = "teams" /\ y.team = x.id
                          \/ x.table = "users" /\ y.user = x.id
  <1>1. x.id # None
    BY DEF WellFormed
  <1>2. Refers(y, x) <=> Among(Ref(x), Parents(y))
    BY DEF Refers, Among
  <1>3. Among(Ref(x), Parents(y))
          <=> \/ y.org # None /\ Ref(x) = <<"organizations", y.org>>
              \/ y.team # None /\ Ref(x) = <<"teams", y.team>>
              \/ y.user # None /\ Ref(x) = <<"users", y.user>>
    BY ParentsOf
  <1>4. \A t, id : Ref(x) = <<t, id>> <=> x.table = t /\ x.id = id
    BY DEF Ref
  <1>5. QED
    BY <1>1, <1>2, <1>3, <1>4

LEMMA ClashSymmetric ==
  ASSUME NEW x, NEW y
  PROVE  Clash(x, y) <=> Clash(y, x)
  BY DEF Clash

LEMMA HitsDelete ==
  ASSUME NEW t, NEW c, NEW I, NEW x
  PROVE  Hits(Delete(t, c, I), x) <=> x.table = t /\ x[c] \in I
  BY DEF Hits, Delete

\* Where the foreign keys hold, a row is there with what it refers to.
LEMMA ParentThere ==
  ASSUME Consistent(rows), rows \subseteq Universe, NEW y \in rows, NEW x \in Universe, Refers(y, x)
  PROVE  x \in rows
  <1>1. PICK i \in DOMAIN Parents(y) : Parents(y)[i] = Ref(x)
    BY DEF Refers
  <1>2. PICK z \in rows : Ref(z) = Parents(y)[i]
    BY DEF Consistent
  <1>3. QED
    BY <1>1, <1>2

\* What refers to a row that goes with the cascade goes with it too.
LEMMA MineClosed ==
  ASSUME NEW r \in Requests, Stage(r), op[r] \in Cascading, NEW x \in Universe, Mine(r, x),
         NEW y \in Universe, y.table # "sso_configs", Refers(y, x)
  PROVE  Mine(r, y)
  <1>1. goal[r] \in Universe /\ goal[r].table \in {"organizations", "teams"}
    BY DEF Stage, Cascading
  <1>2. CASE x = goal[r]
    BY <1>2 DEF Mine, Doomed
  <1>3. CASE x.table = "teams" /\ Refers(x, goal[r])
    BY <1>3 DEF Mine, Doomed
  <1>4. CASE x.table # "teams" /\ Refers(x, goal[r])
    <2>1. x.table \notin {"organizations", "users"}
      BY <1>1, <1>4, RefersTo DEF WellFormed
    <2>2. QED
      BY <1>4, <2>1, RefersTo
  <1>5. ASSUME NEW t \in Universe, t.table = "teams", Refers(x, t)
       PROVE  FALSE
    <2>1. x.table \notin {"organizations", "users", "teams"}
      BY <1>5, RefersTo DEF WellFormed
    <2>2. QED
      BY <2>1, RefersTo
  <1>6. QED
    BY <1>2, <1>3, <1>4, <1>5 DEF Mine, Doomed, Cascading

LEMMA TailFacts ==
  ASSUME NEW S, NEW s \in Seq(S), s # <<>>
  PROVE  /\ 1 \in DOMAIN s /\ s[1] \in S /\ Tail(s) \in Seq(S) /\ <<>> \o Tail(s) = Tail(s)
         /\ \A i \in DOMAIN Tail(s) : i \in Nat /\ i + 1 \in DOMAIN s /\ Tail(s)[i] = s[i + 1]
         /\ \A i \in DOMAIN s : i = 1 \/ (i - 1 \in DOMAIN Tail(s) /\ Tail(s)[i - 1] = s[i] /\ i \in Nat)
  OBVIOUS

-----------------------------------------------------------------------------
(***************************************************************************)
(* The steps, sorted by what they do.                                      *)
(***************************************************************************)
Launch(r, k, x, next, program) ==
  /\ Begin(r, k, x, next, program)
  /\ \/ /\ k = "create" /\ x \notin used /\ used' = used \cup {x}
        /\ next = "run" /\ program = <<Insert(x)>>
     \/ /\ UNCHANGED used
        /\ \/ k = "update" /\ x \in rows /\ next = "run" /\ program = <<Update(x)>>
           \/ /\ k = "delete" /\ x \in rows /\ next = "run"
              /\ x.table \notin {"organizations", "teams", "sso_configs"}
              /\ program = <<Delete(x.table, "id", {x.id})>>
           \/ /\ k = "purge" /\ x.table = "sso_configs" /\ next = "run"
              /\ program = <<Delete("sso_configs", "org", {x.org})>>
           \/ /\ k = "delete_team" /\ x \in rows /\ x.table = "teams" /\ next = "run"
              /\ program = TeamCascade(x.id)
           \/ /\ k = "delete_org" /\ x \in rows /\ x.table = "organizations" /\ next = "teams"
              /\ program = <<>>

LEMMA StartLaunches ==
  ASSUME NEW r \in Requests, Start(r), TInv
  PROVE  \E x \in Universe : \E k, next, program : Launch(r, k, x, next, program)
  <1>0. rows \subseteq Universe
    BY DEF TInv, HeldTypes
  <1>1. ASSUME NEW x \in Universe, Create(r, x)
       PROVE  \E k, next, program : Launch(r, k, x, next, program)
    BY <1>1 DEF Create, Launch
  <1>2. ASSUME NEW t, Change(r, t)
       PROVE  \E x \in Universe : \E k, next, program : Launch(r, k, x, next, program)
    BY <1>0, <1>2 DEF Change, Launch
  <1>3. ASSUME NEW t, Drop(r, t), t \notin {"organizations", "teams", "sso_configs"}
       PROVE  \E x \in Universe : \E k, next, program : Launch(r, k, x, next, program)
    BY <1>0, <1>3 DEF Drop, Launch
  <1>4. CASE DeleteSSOConfig(r)
    BY <1>4 DEF DeleteSSOConfig, Launch
  <1>5. CASE DeleteTeam(r)
    BY <1>0, <1>5 DEF DeleteTeam, Launch
  <1>6. CASE DeleteOrg(r)
    BY <1>0, <1>6 DEF DeleteOrg, Launch
  <1>7. CASE \E x \in Universe : Create(r, x)
    BY <1>1, <1>7
  <1>8. QED
    BY <1>2, <1>3, <1>4, <1>5, <1>6, <1>7 DEF Start, OrgRoutes, TeamRoutes, UserRoutes, BudgetRoutes,
       CreateOrg, CreateTeam, CreateUser, CreateBudget, GenerateKey, AddOrgMember, AddTeamMember,
       CreateSSOConfig, UpdateOrg, UpdateTeam, UpdateUser, UpdateBudget, UpdateOrgMember,
       UpdateTeamMember, DeleteUser, DeleteBudget, DeleteKey, RemoveOrgMember, RemoveTeamMember

\* A DELETE goes through, at once or after it has waited.
Deletes(r, S) ==
  /\ Deleted(r, S) /\ Holders(r, S) = {} /\ todo[r] # <<>>
  /\ \/ /\ pc[r] = "run" /\ todo[r][1].do = "delete"
        /\ S = {x \in rows \ del[r] : Hits(todo[r][1], x)}
     \/ pc[r] = "wait" /\ S = want[r] \cap rows

Waits(r, S) ==
  /\ pc[r] = "run" /\ todo[r] # <<>> /\ todo[r][1].do = "delete"
  /\ S \subseteq {x \in rows \ del[r] : Hits(todo[r][1], x)} /\ \A x \in S : Holders(r, {x}) = {}
  /\ Holders(r, {x \in rows \ del[r] : Hits(todo[r][1], x)}) # {}
  /\ del' = [del EXCEPT ![r] = @ \cup S]
  /\ want' = [want EXCEPT ![r] = {x \in rows \ del[r] : Hits(todo[r][1], x)}]
  /\ pc' = [pc EXCEPT ![r] = "wait"]
  /\ UNCHANGED <<rows, ins, upd, share, op, goal, todo, answer, used, late, blame>>

Inserts(r, x) ==
  /\ pc[r] = "run" /\ todo[r] # <<>> /\ todo[r][1].do = "insert" /\ x = todo[r][1].row
  /\ \A y \in rows : ~Clash(x, y)
  /\ \A q \in Requests \ {r} : \A y \in ins[q] : ~Clash(y, x)
  /\ ins' = [ins EXCEPT ![r] = @ \cup {x}]
  /\ NextStatement(r, [i \in DOMAIN Parents(x) |-> Share(Parents(x)[i])])
  /\ UNCHANGED <<rows, del, upd, share, op, goal, pc, want, answer, used, late, blame>>

Shares(r, p) ==
  /\ pc[r] = "run" /\ todo[r] # <<>> /\ todo[r][1].do = "share" /\ p = todo[r][1].ref
  /\ \E y \in rows : Ref(y) = p
  /\ \A q \in Requests \ {r} : \A y \in del[q] : Ref(y) # p
  /\ share' = [share EXCEPT ![r] = @ \cup {p}]
  /\ NextStatement(r, <<>>)
  /\ UNCHANGED <<rows, ins, del, upd, op, goal, pc, want, answer, used, late, blame>>

Updates(r, x) ==
  /\ pc[r] = "run" /\ todo[r] # <<>> /\ todo[r][1].do = "update" /\ x \in rows
  /\ upd' = [upd EXCEPT ![r] = @ \cup {x}]
  /\ NextStatement(r, <<>>)
  /\ UNCHANGED <<rows, ins, del, share, op, goal, pc, want, answer, used, late, blame>>

Fails(r, why) ==
  /\ Active(r) /\ (why = {} \/ (pc[r] = "check" /\ why = Orphans(r)))
  /\ \E status \in {409, 500} : Abort(r, status, why)

Acts(r) ==
  \/ \E x \in Universe : \E k, next, program : Launch(r, k, x, next, program)
  \/ ReadTeams(r)
  \/ \E S : Deletes(r, S) \/ Waits(r, S)
  \/ CheckOrphans(r)
  \/ \E x : Inserts(r, x) \/ Updates(r, x)
  \/ \E p : Shares(r, p)
  \/ \E why : Fails(r, why)
  \/ Commit(r) \/ Refresh(r)

LEMMA FoundHits ==
  ASSUME NEW r \in Requests, Running(r, "delete")
  PROVE  Found(r) = {x \in rows \ del[r] : Hits(todo[r][1], x)}
  BY DEF Found, Running, Hits

LEMMA StepActs ==
  ASSUME TInv, NEW r \in Requests, Start(r) \/ Work(r)
  PROVE  Acts(r)
  <1>1. CASE Start(r)
    BY <1>1, StartLaunches DEF Acts
  <1>2. CASE ExecDelete(r)
    <2>1. Holders(r, Found(r)) = {}
      BY <1>2 DEF ExecDelete, Blockers, Running
    <2>2. Deletes(r, Found(r))
      BY <1>2, <2>1, FoundHits DEF ExecDelete, Deletes, Running
    <2>3. QED
      BY <2>2 DEF Acts
  <1>3. CASE BlockDelete(r)
    <2>1. PICK S \in SUBSET {x \in Found(r) : Holders(r, {x}) = {}} :
            del' = [del EXCEPT ![r] = @ \cup S]
      BY <1>3 DEF BlockDelete
    <2>2. Holders(r, Found(r)) # {}
      BY <1>3 DEF BlockDelete, Blockers, Running
    <2>3. Waits(r, S)
      BY <1>3, <2>1, <2>2, FoundHits DEF BlockDelete, Waits, Running
    <2>4. QED
      BY <2>3 DEF Acts
  <1>4. CASE ResumeDelete(r)
    <2>1. Holders(r, want[r] \cap rows) = {}
      BY <1>4 DEF ResumeDelete, Blockers, Running
    <2>2. todo[r] # <<>>
      BY <1>4 DEF ResumeDelete, TInv, Stage
    <2>3. Deletes(r, want[r] \cap rows)
      BY <1>4, <2>1, <2>2 DEF ResumeDelete, Deletes
    <2>4. QED
      BY <2>3 DEF Acts
  <1>5. CASE FailOrphans(r)
    BY <1>5 DEF FailOrphans, Acts, Fails, Active
  <1>6. CASE ExecInsert(r)
    <2> DEFINE x == todo[r][1].row
    <2>0. pc[r] = "run" /\ todo[r] # <<>> /\ todo[r][1].do = "insert"
      BY <1>6 DEF ExecInsert, Running
    <2>1. \A q \in Requests \ {r} : \A y \in ins[q] : ~Clash(y, x)
      BY <1>6, <2>0 DEF ExecInsert, Blockers, Running
    <2>2. CASE \E y \in rows : Clash(x, y)
      <3>1. Abort(r, 409, {}) \/ Abort(r, 500, {})
        BY <1>6, <2>2 DEF ExecInsert
      <3>2. QED
        <4>1. Fails(r, {})
          BY <2>0, <3>1 DEF Fails, Active
        <4>2. QED
          BY <4>1 DEF Acts
    <2>3. CASE ~(\E y \in rows : Clash(x, y))
      <3>1. Inserts(r, x)
        BY <1>6, <2>0, <2>1, <2>3 DEF ExecInsert, Inserts
      <3>2. QED
        BY <3>1 DEF Acts
    <2>4. QED
      BY <2>2, <2>3
  <1>7. CASE ExecShare(r)
    <2> DEFINE p == todo[r][1].ref
    <2>0. pc[r] = "run" /\ todo[r] # <<>> /\ todo[r][1].do = "share"
      BY <1>7 DEF ExecShare, Running
    <2>1. \A q \in Requests \ {r} : \A y \in del[q] : Ref(y) # p
      BY <1>7, <2>0 DEF ExecShare, Blockers, Running
    <2>2. CASE ~(\E y \in rows : Ref(y) = p)
      <3>1. Abort(r, 409, {}) \/ Abort(r, 500, {})
        BY <1>7, <2>2 DEF ExecShare
      <3>2. QED
        <4>1. Fails(r, {})
          BY <2>0, <3>1 DEF Fails, Active
        <4>2. QED
          BY <4>1 DEF Acts
    <2>3. CASE \E y \in rows : Ref(y) = p
      <3>1. Shares(r, p)
        BY <1>7, <2>0, <2>1, <2>3 DEF ExecShare, Shares
      <3>2. QED
        BY <3>1 DEF Acts
    <2>4. QED
      BY <2>2, <2>3
  <1>8. CASE ExecUpdate(r)
    <2> DEFINE x == todo[r][1].row
    <2>0. pc[r] = "run" /\ todo[r] # <<>> /\ todo[r][1].do = "update"
      BY <1>8 DEF ExecUpdate, Running
    <2>1. CASE x \notin rows
      <3>1. Abort(r, 500, {})
        BY <1>8, <2>1 DEF ExecUpdate
      <3>2. QED
        <4>1. Fails(r, {})
          BY <2>0, <3>1 DEF Fails, Active
        <4>2. QED
          BY <4>1 DEF Acts
    <2>2. CASE x \in rows
      <3>1. Updates(r, x)
        BY <1>8, <2>0, <2>2 DEF ExecUpdate, Updates
      <3>2. QED
        BY <3>1 DEF Acts
    <2>3. QED
      BY <2>1, <2>2
  <1>9. CASE Deadlocked(r)
    <2>1. Fails(r, {})
      BY <1>9 DEF Deadlocked, Fails, Active
    <2>2. QED
      BY <2>1 DEF Acts
  <1>10. CASE ReadTeams(r) \/ CheckOrphans(r) \/ Commit(r) \/ Refresh(r)
    BY <1>10 DEF Acts
  <1>11. QED
    BY <1>1, <1>2, <1>3, <1>4, <1>5, <1>6, <1>7, <1>8, <1>9, <1>10 DEF Work

-----------------------------------------------------------------------------
(***************************************************************************)
(* A step is one request's: it leaves the others alone, and only a COMMIT  *)
(* changes the tables.                                                     *)
(***************************************************************************)
Untouched(q) ==
  /\ ins'[q] = ins[q] /\ del'[q] = del[q] /\ upd'[q] = upd[q] /\ share'[q] = share[q]
  /\ want'[q] = want[q] /\ op'[q] = op[q] /\ goal'[q] = goal[q] /\ pc'[q] = pc[q]
  /\ todo'[q] = todo[q] /\ answer'[q] = answer[q] /\ blame'[q] = blame[q]

LEMMA Frame ==
  ASSUME TInv, NEW r \in Requests, Acts(r), NEW q \in Requests, q # r
  PROVE  Untouched(q)
  <1>0. /\ Requests = DOMAIN ins /\ Requests = DOMAIN del /\ Requests = DOMAIN upd
        /\ Requests = DOMAIN share /\ Requests = DOMAIN want /\ Requests = DOMAIN op
        /\ Requests = DOMAIN goal /\ Requests = DOMAIN pc /\ Requests = DOMAIN todo
        /\ Requests = DOMAIN answer /\ Requests = DOMAIN blame
    BY DEF TInv, HeldTypes, RequestTypes
  <1>1. ASSUME NEW x \in Universe, NEW k, NEW next, NEW program, Launch(r, k, x, next, program)
       PROVE  Untouched(q)
    BY <1>0, <1>1 DEF Launch, Begin, tx, Untouched
  <1>2. CASE ReadTeams(r)
    BY <1>0, <1>2 DEF ReadTeams, tx, Untouched
  <1>3. ASSUME NEW S, Deletes(r, S)
       PROVE  Untouched(q)
    <2>1. /\ UNCHANGED <<ins, upd, share, op, goal, answer, blame>>
          /\ del' = [del EXCEPT ![r] = del[r] \cup S] /\ want' = [want EXCEPT ![r] = {}]
      BY <1>3 DEF Deletes, Deleted
    <2>2. \/ pc' = [pc EXCEPT ![r] = "run"] /\ todo' = [todo EXCEPT ![r] = <<>> \o Tail(todo[r])]
          \/ pc' = [pc EXCEPT ![r] = "check"] /\ UNCHANGED todo
      BY <1>3 DEF Deletes, Deleted, NextStatement
    <2>3. pc'[q] = pc[q] /\ todo'[q] = todo[q]
      BY <1>0, <2>2
    <2>4. QED
      BY <1>0, <2>1, <2>3 DEF Untouched
  <1>4. ASSUME NEW S, Waits(r, S)
       PROVE  Untouched(q)
    BY <1>0, <1>4 DEF Waits, Untouched
  <1>5. CASE CheckOrphans(r)
    BY <1>0, <1>5 DEF CheckOrphans, NextStatement, tx, Untouched
  <1>6. ASSUME NEW x, Inserts(r, x)
       PROVE  Untouched(q)
    BY <1>0, <1>6 DEF Inserts, NextStatement, Untouched
  <1>7. ASSUME NEW x, Updates(r, x)
       PROVE  Untouched(q)
    BY <1>0, <1>7 DEF Updates, NextStatement, Untouched
  <1>8. ASSUME NEW p, Shares(r, p)
       PROVE  Untouched(q)
    BY <1>0, <1>8 DEF Shares, NextStatement, Untouched
  <1>9. ASSUME NEW why, Fails(r, why)
       PROVE  Untouched(q)
    BY <1>0, <1>9 DEF Fails, Abort, Release, Answer, Untouched
  <1>10. CASE Commit(r)
    <2>1. /\ UNCHANGED <<op, goal, blame>>
          /\ ins' = [ins EXCEPT ![r] = {}] /\ del' = [del EXCEPT ![r] = {}]
          /\ upd' = [upd EXCEPT ![r] = {}] /\ share' = [share EXCEPT ![r] = {}]
          /\ want' = [want EXCEPT ![r] = {}]
      BY <1>10 DEF Commit, Release
    <2>2. pc'[q] = pc[q] /\ todo'[q] = todo[q] /\ answer'[q] = answer[q]
      <3>1. CASE op[r] \in {"create", "update"}
        <4>1. pc' = [pc EXCEPT ![r] = "refresh"] /\ UNCHANGED <<todo, answer>>
          BY <1>10, <3>1 DEF Commit
        <4>2. QED
          BY <1>0, <4>1
      <3>2. CASE op[r] \notin {"create", "update"}
        <4>1. PICK n \in {204, 404} : Answer(r, n)
          BY <1>10, <3>2 DEF Commit
        <4>2. QED
          BY <1>0, <4>1 DEF Answer
      <3>3. QED
        BY <3>1, <3>2
    <2>3. QED
      BY <1>0, <2>1, <2>2 DEF Untouched
  <1>11. CASE Refresh(r)
    BY <1>0, <1>11 DEF Refresh, Answer, tx, Untouched
  <1>12. QED
    BY <1>1, <1>2, <1>3, <1>4, <1>5, <1>6, <1>7, <1>8, <1>9, <1>10, <1>11 DEF Acts

LEMMA OnlyCommits ==
  ASSUME NEW r \in Requests, Acts(r)
  PROVE  /\ (UNCHANGED <<rows, late>>) \/ Commit(r)
         /\ used \subseteq used'
  <1>1. ASSUME NEW x \in Universe, NEW k, NEW next, NEW program, Launch(r, k, x, next, program)
       PROVE  (UNCHANGED <<rows, late>> \/ Commit(r)) /\ used \subseteq used'
    <2>1. UNCHANGED <<rows, late>>
      BY <1>1 DEF Launch, Begin
    <2>2. used \subseteq used'
      BY <1>1 DEF Launch
    <2>3. QED
      BY <2>1, <2>2
  <1>2. CASE ReadTeams(r)
    BY <1>2 DEF ReadTeams, tx
  <1>3. ASSUME NEW S, Deletes(r, S)
       PROVE  (UNCHANGED <<rows, late>> \/ Commit(r)) /\ used \subseteq used'
    BY <1>3 DEF Deletes, Deleted, NextStatement
  <1>4. ASSUME NEW S, Waits(r, S)
       PROVE  (UNCHANGED <<rows, late>> \/ Commit(r)) /\ used \subseteq used'
    BY <1>4 DEF Waits
  <1>5. CASE CheckOrphans(r)
    BY <1>5 DEF CheckOrphans, NextStatement, tx
  <1>6. ASSUME NEW x, Inserts(r, x)
       PROVE  (UNCHANGED <<rows, late>> \/ Commit(r)) /\ used \subseteq used'
    BY <1>6 DEF Inserts, NextStatement
  <1>7. ASSUME NEW x, Updates(r, x)
       PROVE  (UNCHANGED <<rows, late>> \/ Commit(r)) /\ used \subseteq used'
    BY <1>7 DEF Updates, NextStatement
  <1>8. ASSUME NEW p, Shares(r, p)
       PROVE  (UNCHANGED <<rows, late>> \/ Commit(r)) /\ used \subseteq used'
    BY <1>8 DEF Shares, NextStatement
  <1>9. ASSUME NEW why, Fails(r, why)
       PROVE  (UNCHANGED <<rows, late>> \/ Commit(r)) /\ used \subseteq used'
    BY <1>9 DEF Fails, Abort, Release, Answer
  <1>10. CASE Commit(r)
    BY <1>10 DEF Commit, Release, Answer
  <1>11. CASE Refresh(r)
    BY <1>11 DEF Refresh, Answer, tx
  <1>12. QED
    BY <1>1, <1>2, <1>3, <1>4, <1>5, <1>6, <1>7, <1>8, <1>9, <1>10, <1>11 DEF Acts

-----------------------------------------------------------------------------
(***************************************************************************)
(* What each step does to its request.                                     *)
(***************************************************************************)
KeepsRows == UNCHANGED <<rows, late>>
KeepsLocks(r) ==
  ins'[r] = ins[r] /\ del'[r] = del[r] /\ upd'[r] = upd[r] /\ share'[r] = share[r]
KeepsGoal(r) == op'[r] = op[r] /\ goal'[r] = goal[r]
KeepsAnswer(r) == answer'[r] = answer[r] /\ blame'[r] = blame[r]
LocksGone(r) == ins'[r] = {} /\ del'[r] = {} /\ upd'[r] = {} /\ share'[r] = {} /\ want'[r] = {}

LEMMA Domains ==
  ASSUME TInv
  PROVE  /\ Requests = DOMAIN ins /\ Requests = DOMAIN del /\ Requests = DOMAIN upd
         /\ Requests = DOMAIN share /\ Requests = DOMAIN want /\ Requests = DOMAIN op
         /\ Requests = DOMAIN goal /\ Requests = DOMAIN pc /\ Requests = DOMAIN todo
         /\ Requests = DOMAIN answer /\ Requests = DOMAIN blame /\ Requests = DOMAIN late
  BY DEF TInv, HeldTypes, RequestTypes

LEMMA TodoTail ==
  ASSUME TInv, NEW r \in Requests, todo[r] # <<>>
  PROVE  /\ 1 \in DOMAIN todo[r] /\ todo[r][1] \in Statement /\ Tail(todo[r]) \in Seq(Statement)
         /\ <<>> \o Tail(todo[r]) = Tail(todo[r])
         /\ \A i \in DOMAIN Tail(todo[r]) :
              i \in Nat /\ i + 1 \in DOMAIN todo[r] /\ Tail(todo[r])[i] = todo[r][i + 1]
         /\ \A i \in DOMAIN todo[r] :
              i = 1 \/ (i - 1 \in DOMAIN Tail(todo[r]) /\ Tail(todo[r])[i - 1] = todo[r][i] /\ i \in Nat)
  <1>1. todo[r] \in Seq(Statement)
    BY DEF TInv, RequestTypes
  <1> HIDE DEF Statement
  <1>2. QED
    BY <1>1, TailFacts

LEMMA LaunchDoes ==
  ASSUME TInv, NEW r \in Requests, NEW x \in Universe, NEW k, NEW next, NEW program,
         Launch(r, k, x, next, program)
  PROVE  /\ KeepsRows /\ KeepsLocks(r) /\ KeepsAnswer(r) /\ want'[r] = want[r]
         /\ pc[r] = "idle" /\ pc'[r] = next /\ op'[r] = k /\ goal'[r] = x /\ todo'[r] = program
  BY Domains DEF Launch, Begin, tx, KeepsRows, KeepsLocks, KeepsAnswer

LEMMA ReadTeamsDoes ==
  ASSUME TInv, NEW r \in Requests, ReadTeams(r)
  PROVE  /\ KeepsRows /\ KeepsLocks(r) /\ KeepsAnswer(r) /\ KeepsGoal(r) /\ want'[r] = want[r]
         /\ UNCHANGED used /\ pc[r] = "teams" /\ pc'[r] = "run"
         /\ todo'[r] = OrgCascade(goal[r].id,
                         {x.id : x \in {y \in rows : y.table = "teams" /\ y.org = goal[r].id}})
  BY Domains DEF ReadTeams, tx, KeepsRows, KeepsLocks, KeepsAnswer, KeepsGoal

LEMMA DeletesDoes ==
  ASSUME TInv, NEW r \in Requests, NEW S, Deletes(r, S)
  PROVE  /\ KeepsRows /\ KeepsAnswer(r) /\ KeepsGoal(r) /\ UNCHANGED used
         /\ ins'[r] = ins[r] /\ upd'[r] = upd[r] /\ share'[r] = share[r]
         /\ del'[r] = del[r] \cup S /\ want'[r] = {}
         /\ \/ /\ pc'[r] = "run" /\ todo'[r] = Tail(todo[r])
               /\ \A y \in rows \ (del[r] \cup S), x \in S : ~Refers(y, x)
            \/ pc'[r] = "check" /\ todo'[r] = todo[r]
  <1>1. /\ UNCHANGED <<rows, late, ins, upd, share, op, goal, answer, blame, used>>
        /\ del' = [del EXCEPT ![r] = del[r] \cup S] /\ want' = [want EXCEPT ![r] = {}]
    BY DEF Deletes, Deleted
  <1>2. \/ /\ pc' = [pc EXCEPT ![r] = "run"] /\ todo' = [todo EXCEPT ![r] = <<>> \o Tail(todo[r])]
           /\ {y \in rows \ (del[r] \cup S) : \E x \in S : Refers(y, x)} = {}
        \/ pc' = [pc EXCEPT ![r] = "check"] /\ UNCHANGED todo
    BY DEF Deletes, Deleted, NextStatement
  <1>3. <<>> \o Tail(todo[r]) = Tail(todo[r])
    BY TodoTail DEF Deletes
  <1>4. \/ /\ pc'[r] = "run" /\ todo'[r] = Tail(todo[r])
           /\ \A y \in rows \ (del[r] \cup S), x \in S : ~Refers(y, x)
        \/ pc'[r] = "check" /\ todo'[r] = todo[r]
    BY <1>2, <1>3, Domains
  <1>5. QED
    BY <1>1, <1>4, Domains DEF KeepsRows, KeepsAnswer, KeepsGoal

LEMMA WaitsDoes ==
  ASSUME TInv, NEW r \in Requests, NEW S, Waits(r, S)
  PROVE  /\ KeepsRows /\ KeepsAnswer(r) /\ KeepsGoal(r) /\ UNCHANGED used
         /\ ins'[r] = ins[r] /\ upd'[r] = upd[r] /\ share'[r] = share[r] /\ todo'[r] = todo[r]
         /\ del'[r] = del[r] \cup S /\ pc'[r] = "wait"
         /\ want'[r] = {x \in rows \ del[r] : Hits(todo[r][1], x)}
  BY Domains DEF Waits, KeepsRows, KeepsAnswer, KeepsGoal

LEMMA CheckDoes ==
  ASSUME TInv, NEW r \in Requests, CheckOrphans(r)
  PROVE  /\ KeepsRows /\ KeepsLocks(r) /\ KeepsAnswer(r) /\ KeepsGoal(r) /\ want'[r] = want[r]
         /\ UNCHANGED used /\ pc[r] = "check" /\ todo[r] # <<>> /\ Orphans(r) = {}
         /\ pc'[r] = "run" /\ todo'[r] = Tail(todo[r])
  <1>1. pc[r] = "check" /\ todo[r] # <<>>
    BY DEF TInv, Stage, CheckOrphans
  <1>2. todo' = [todo EXCEPT ![r] = Tail(todo[r])]
    BY <1>1, TodoTail DEF CheckOrphans, NextStatement
  <1>3. QED
    BY <1>1, <1>2, Domains DEF CheckOrphans, tx, KeepsRows, KeepsLocks, KeepsAnswer, KeepsGoal

LEMMA InsertsDoes ==
  ASSUME TInv, NEW r \in Requests, NEW x, Inserts(r, x)
  PROVE  /\ KeepsRows /\ KeepsAnswer(r) /\ KeepsGoal(r) /\ UNCHANGED used /\ want'[r] = want[r]
         /\ del'[r] = del[r] /\ upd'[r] = upd[r] /\ share'[r] = share[r]
         /\ ins'[r] = ins[r] \cup {x} /\ pc[r] = "run" /\ pc'[r] = "run"
         /\ todo'[r] = [i \in DOMAIN Parents(x) |-> Share(Parents(x)[i])] \o Tail(todo[r])
  BY Domains DEF Inserts, NextStatement, KeepsRows, KeepsAnswer, KeepsGoal

LEMMA SharesDoes ==
  ASSUME TInv, NEW r \in Requests, NEW p, Shares(r, p)
  PROVE  /\ KeepsRows /\ KeepsAnswer(r) /\ KeepsGoal(r) /\ UNCHANGED used /\ want'[r] = want[r]
         /\ ins'[r] = ins[r] /\ del'[r] = del[r] /\ upd'[r] = upd[r]
         /\ todo[r] # <<>> /\ share'[r] = share[r] \cup {p} /\ pc[r] = "run" /\ pc'[r] = "run"
         /\ todo'[r] = Tail(todo[r])
  <1>1. todo' = [todo EXCEPT ![r] = Tail(todo[r])]
    BY TodoTail DEF Shares, NextStatement
  <1>2. QED
    BY <1>1, Domains DEF Shares, KeepsRows, KeepsAnswer, KeepsGoal

LEMMA UpdatesDoes ==
  ASSUME TInv, NEW r \in Requests, NEW x, Updates(r, x)
  PROVE  /\ KeepsRows /\ KeepsAnswer(r) /\ KeepsGoal(r) /\ UNCHANGED used /\ want'[r] = want[r]
         /\ ins'[r] = ins[r] /\ del'[r] = del[r] /\ share'[r] = share[r]
         /\ todo[r] # <<>> /\ upd'[r] = upd[r] \cup {x} /\ pc[r] = "run" /\ pc'[r] = "run"
         /\ todo'[r] = Tail(todo[r])
  <1>1. todo' = [todo EXCEPT ![r] = Tail(todo[r])]
    BY TodoTail DEF Updates, NextStatement
  <1>2. QED
    BY <1>1, Domains DEF Updates, KeepsRows, KeepsAnswer, KeepsGoal

LEMMA FailsDoes ==
  ASSUME TInv, NEW r \in Requests, NEW why, Fails(r, why)
  PROVE  /\ KeepsRows /\ KeepsGoal(r) /\ UNCHANGED used /\ LocksGone(r)
         /\ Active(r) /\ pc'[r] = "done" /\ todo'[r] = <<>> /\ blame'[r] = why /\ answer'[r] \in {409, 500}
  <1>1. PICK n \in {409, 500} : Abort(r, n, why)
    BY DEF Fails
  <1>2. QED
    BY <1>1, Domains DEF Fails, Abort, Answer, Release, KeepsRows, KeepsGoal, LocksGone

LEMMA CommitDoes ==
  ASSUME TInv, NEW r \in Requests, Commit(r)
  PROVE  /\ rows' = (rows \ del[r]) \cup ins[r] /\ UNCHANGED used /\ late'[r] = late[r]
         /\ \A q \in Requests \ {r} :
              late'[q] = IF pc[q] # "idle" THEN late[q] \cup ins[r] ELSE late[q]
         /\ KeepsGoal(r) /\ LocksGone(r) /\ blame'[r] = blame[r]
         /\ todo[r] = <<>> /\ pc[r] = "run" /\ todo'[r] = <<>>
         /\ \/ op[r] \in {"create", "update"} /\ pc'[r] = "refresh" /\ answer'[r] = answer[r]
            \/ /\ op[r] \notin {"create", "update"} /\ pc'[r] = "done"
               /\ answer'[r] = IF op[r] = "purge" /\ del[r] = {} THEN 404 ELSE 204
  <1>1. /\ rows' = (rows \ del[r]) \cup ins[r] /\ UNCHANGED <<used, op, goal, blame>>
        /\ late' = [q \in Requests |-> IF q # r /\ pc[q] # "idle" THEN late[q] \cup ins[r] ELSE late[q]]
        /\ todo[r] = <<>> /\ pc[r] = "run"
    BY DEF Commit
  <1>2. LocksGone(r)
    BY Domains DEF Commit, Release, LocksGone
  <1>3. CASE op[r] \in {"create", "update"}
    <2>1. pc' = [pc EXCEPT ![r] = "refresh"] /\ UNCHANGED <<todo, answer>>
      BY <1>3 DEF Commit
    <2>2. QED
      BY <1>1, <1>2, <1>3, <2>1, Domains DEF KeepsGoal
  <1>4. CASE op[r] \notin {"create", "update"}
    <2> DEFINE n == IF op[r] = "purge" /\ del[r] = {} THEN 404 ELSE 204
    <2>1. Answer(r, n)
      BY <1>4 DEF Commit
    <2>2. pc'[r] = "done" /\ answer'[r] = n /\ todo'[r] = <<>>
      BY <2>1, Domains DEF Answer
    <2>3. QED
      BY <1>1, <1>2, <1>4, <2>2 DEF KeepsGoal
  <1>5. QED
    BY <1>3, <1>4

LEMMA RefreshDoes ==
  ASSUME TInv, NEW r \in Requests, Refresh(r)
  PROVE  /\ KeepsRows /\ KeepsLocks(r) /\ KeepsGoal(r) /\ UNCHANGED used /\ want'[r] = want[r]
         /\ blame'[r] = blame[r] /\ pc[r] = "refresh" /\ pc'[r] = "done" /\ todo'[r] = <<>>
         /\ answer'[r] \in {500, 201, 200}
  <1>1. PICK n \in {500, 201, 200} : Answer(r, n)
    BY DEF Refresh
  <1>2. QED
    BY <1>1, Domains DEF Refresh, Answer, tx, KeepsRows, KeepsLocks, KeepsGoal

\* The next statement of a request tells what the request is.
LEMMA KindOf ==
  ASSUME TInv, NEW r \in Requests, pc[r] # "idle", todo[r] # <<>>
  PROVE  /\ todo[r][1].do = "delete" => op[r] \in Deletions
         /\ op[r] \in Deletions => todo[r][1].do = "delete" /\ \A x \in Universe : Hits(todo[r][1], x) => Mine(r, x)
         /\ todo[r][1].do = "insert" => op[r] = "create" /\ todo[r][1].row = goal[r]
         /\ todo[r][1].do = "update" => op[r] = "update"
         /\ todo[r][1].do = "share" => op[r] = "create"
         /\ goal[r] \in Universe
  <1>1. op[r] \in Ops /\ goal[r] \in Universe
    BY DEF TInv, Stage, RequestTypes
  <1>2. Ours(r, todo[r][1])
    <2>1. 1 \in DOMAIN todo[r]
      BY TodoTail
    <2>2. QED
      BY <2>1 DEF TInv, Holds
  <1>3. Insert(goal[r]).do = "insert" /\ Insert(goal[r]).row = goal[r]
    BY DEF Insert
  <1>4. QED
    BY <1>1, <1>2, <1>3 DEF Ours, Belongs, Mine, Ops, Deletions

-----------------------------------------------------------------------------
(***************************************************************************)
(* Types.                                                                  *)
(***************************************************************************)
LEMMA Statements ==
  /\ \A x \in Universe : x.id \in Ids /\ x.org \in Ids
  /\ \A x \in Universe : Insert(x) \in Statement /\ Update(x) \in Statement
  /\ \A t \in Tables, c \in {"id", "org", "team"}, I \in SUBSET Ids : Delete(t, c, I) \in Statement
  /\ \A x \in Universe : \A i \in DOMAIN Parents(x) : Share(Parents(x)[i]) \in Statement
  <1>1. \A x \in Universe : x.id \in Ids /\ x.org \in Ids
    BY DEF Ids
  <1>2. \A x \in Universe : Insert(x) \in Statement /\ Update(x) \in Statement
    BY DEF Insert, Update, Statement
  <1>3. \A t \in Tables, c \in {"id", "org", "team"}, I \in SUBSET Ids : Delete(t, c, I) \in Statement
    BY DEF Delete, Statement
  <1>4. ASSUME NEW x \in Universe, NEW i \in DOMAIN Parents(x)
       PROVE  Share(Parents(x)[i]) \in Statement
    BY DEF Share, Statement
  <1>5. QED
    BY <1>1, <1>2, <1>3, <1>4

LEMMA Paste ==
  ASSUME NEW V, NEW s \in Seq(V), NEW t \in Seq(V), NEW w \in Seq(V),
         Len(w) = Len(s) + Len(t),
         \A i \in 1..Len(s) : w[i] = s[i],
         \A i \in 1..Len(t) : w[Len(s) + i] = t[i]
  PROVE  s \o t = w
  <1>1. s \o t \in Seq(V) /\ Len(s \o t) = Len(s) + Len(t)
    OBVIOUS
  <1>2. ASSUME NEW i \in 1..Len(w)
        PROVE  (s \o t)[i] = w[i]
    <2>1. CASE i \in 1..Len(s)
      <3>1. (s \o t)[i] = s[i]
        BY <2>1
      <3>2. QED
        BY <2>1, <3>1
    <2>2. CASE i \notin 1..Len(s)
      <3>1. i - Len(s) \in 1..Len(t) /\ Len(s) + (i - Len(s)) = i
        BY <2>2
      <3>2. (s \o t)[i] = t[i - Len(s)]
        BY <3>1
      <3>3. w[Len(s) + (i - Len(s))] = t[i - Len(s)]
        BY <3>1
      <3>4. QED
        BY <3>1, <3>2, <3>3
    <2>3. QED
      BY <2>1, <2>2
  <1>3. QED
    BY <1>1, <1>2

LEMMA FourAndThree ==
  ASSUME NEW a, NEW b, NEW c, NEW d, NEW e, NEW f, NEW g
  PROVE  <<a, b, c, d>> \o <<e, f, g>> = <<a, b, c, d, e, f, g>>
  <1> DEFINE V == {a, b, c, d, e, f, g}
             s == <<a, b, c, d>>
             t == <<e, f, g>>
             w == <<a, b, c, d, e, f, g>>
  <1>1. s \in Seq(V) /\ t \in Seq(V) /\ w \in Seq(V)
    OBVIOUS
  <1>2. Len(s) = 4 /\ Len(t) = 3 /\ Len(w) = 7
    OBVIOUS
  <1>3. \A i \in 1..4 : w[i] = s[i]
    OBVIOUS
  <1>4. w[4 + 1] = t[1] /\ w[4 + 2] = t[2] /\ w[4 + 3] = t[3]
    OBVIOUS
  <1>5. \A i \in 1..3 : i = 1 \/ i = 2 \/ i = 3
    OBVIOUS
  <1> HIDE DEF V, s, t, w
  <1>6. \A i \in 1..3 : w[4 + i] = t[i]
    BY <1>4, <1>5
  <1>7. /\ Len(w) = Len(s) + Len(t)
        /\ \A i \in 1..Len(s) : w[i] = s[i]
        /\ \A i \in 1..Len(t) : w[Len(s) + i] = t[i]
    BY <1>2, <1>3, <1>6
  <1>8. s \o t = w
    BY <1>1, <1>7, Paste
  <1>9. QED
    BY <1>8 DEF s, t, w

LEMMA IsASequence ==
  ASSUME NEW S, NEW n \in Nat, NEW f \in [1..n -> S]
  PROVE  f \in Seq(S)
  OBVIOUS

LEMMA SevenTyped ==
  ASSUME NEW S, NEW a \in S, NEW b \in S, NEW c \in S, NEW d \in S, NEW e \in S, NEW f \in S, NEW g \in S
  PROVE  <<a, b, c, d, e, f, g>> \in Seq(S) /\ <<a, b, c, d>> \in Seq(S) /\ <<e, f, g>> \in Seq(S)
  OBVIOUS

LEMMA ParentsType ==
  ASSUME NEW x
  PROVE  Parents(x) \in Seq({<<"organizations", x.org>>, <<"teams", x.team>>, <<"users", x.user>>})
  <1> DEFINE o == ForeignKey("organizations", x.org)
             t == ForeignKey("teams", x.team)
             u == ForeignKey("users", x.user)
             ot == o \o t
             O == {<<"organizations", x.org>>}
             T == {<<"teams", x.team>>}
             U == {<<"users", x.user>>}
  <1>1. o \in Seq(O) /\ t \in Seq(T) /\ u \in Seq(U) /\ Parents(x) = ot \o u
    BY ForeignKeyHolds DEF Parents
  <1>2. (O \cup T) \cup U = {<<"organizations", x.org>>, <<"teams", x.team>>, <<"users", x.user>>}
    OBVIOUS
  <1> HIDE DEF o, t, u, O, T, U
  <1>3. ot \in Seq(O \cup T)
    BY <1>1, ConcatHolds DEF ot
  <1> HIDE DEF ot
  <1>4. ot \o u \in Seq((O \cup T) \cup U)
    BY <1>1, <1>3, ConcatHolds
  <1>5. QED
    BY <1>1, <1>2, <1>4

LEMMA SharesTyped ==
  ASSUME NEW x \in Universe
  PROVE  [i \in DOMAIN Parents(x) |-> Share(Parents(x)[i])] \in Seq(Statement)
  <1> DEFINE P == {<<"organizations", x.org>>, <<"teams", x.team>>, <<"users", x.user>>}
             f == [i \in DOMAIN Parents(x) |-> Share(Parents(x)[i])]
  <1>1. \E n \in Nat : DOMAIN Parents(x) = 1..n
    <2>1. Parents(x) \in Seq(P)
      BY ParentsType
    <2> HIDE DEF P
    <2>2. QED
      BY <2>1
  <1>2. f \in [DOMAIN Parents(x) -> Statement]
    BY Statements
  <1> HIDE DEF f
  <1>3. f \in Seq(Statement)
    BY <1>1, <1>2, IsASequence
  <1>4. QED
    BY <1>3 DEF f

\* The program of a cascade, statement by statement.
LEMMA OrgProgram ==
  ASSUME NEW o, NEW T
  PROVE  \/ /\ T = {}
            /\ OrgCascade(o, T) = <<Delete("api_keys", "org", {o}),
                 Delete("org_memberships", "org", {o}), Delete("organizations", "id", {o})>>
         \/ /\ T # {}
            /\ OrgCascade(o, T) = <<Delete("api_keys", "team", T), Delete("projects", "team", T),
                 Delete("team_memberships", "team", T), Delete("teams", "id", T),
                 Delete("api_keys", "org", {o}), Delete("org_memberships", "org", {o}),
                 Delete("organizations", "id", {o})>>
  <1>1. CASE T = {}
    BY <1>1 DEF OrgCascade
  <1>2. CASE T # {}
    <2>1. OrgCascade(o, T) =
            <<Delete("api_keys", "team", T), Delete("projects", "team", T),
              Delete("team_memberships", "team", T), Delete("teams", "id", T)>>
              \o <<Delete("api_keys", "org", {o}), Delete("org_memberships", "org", {o}),
                   Delete("organizations", "id", {o})>>
      BY <1>2 DEF OrgCascade
    <2> HIDE DEF Delete
    <2>2. QED
      BY <1>2, <2>1, FourAndThree
  <1>3. QED
    BY <1>1, <1>2

LEMMA OrgProgramType ==
  ASSUME NEW o \in Ids, NEW T \in SUBSET Ids
  PROVE  OrgCascade(o, T) \in Seq(Statement)
  <1>1. \A t \in Tables, c \in {"id", "org", "team"}, I \in SUBSET Ids : Delete(t, c, I) \in Statement
    BY Statements
  <1>2. /\ Delete("api_keys", "team", T) \in Statement /\ Delete("projects", "team", T) \in Statement
        /\ Delete("team_memberships", "team", T) \in Statement /\ Delete("teams", "id", T) \in Statement
        /\ Delete("api_keys", "org", {o}) \in Statement
        /\ Delete("org_memberships", "org", {o}) \in Statement
        /\ Delete("organizations", "id", {o}) \in Statement
    BY <1>1 DEF Tables
  <1> HIDE DEF Statement, Delete
  <1>3. CASE T = {}
    <2>1. OrgCascade(o, T) = <<Delete("api_keys", "org", {o}),
                 Delete("org_memberships", "org", {o}), Delete("organizations", "id", {o})>>
      BY <1>3, OrgProgram
    <2>2. QED
      BY <1>2, <2>1, SevenTyped
  <1>4. CASE T # {}
    <2>1. OrgCascade(o, T) = <<Delete("api_keys", "team", T), Delete("projects", "team", T),
                 Delete("team_memberships", "team", T), Delete("teams", "id", T),
                 Delete("api_keys", "org", {o}), Delete("org_memberships", "org", {o}),
                 Delete("organizations", "id", {o})>>
      BY <1>4, OrgProgram
    <2>2. QED
      BY <1>2, <2>1, SevenTyped
  <1>5. QED
    BY <1>3, <1>4

LEMMA LaunchProgramType ==
  ASSUME NEW r \in Requests, NEW x \in Universe, NEW k, NEW next, NEW program,
         Launch(r, k, x, next, program)
  PROVE  program \in Seq(Statement) /\ next \in {"run", "teams"} /\ k \in Ops
  <1>1. \A t \in Tables, c \in {"id", "org", "team"}, I \in SUBSET Ids : Delete(t, c, I) \in Statement
    BY Statements
  <1>2. Insert(x) \in Statement /\ Update(x) \in Statement /\ x.table \in Tables
    BY Statements DEF WellFormed
  <1>3. {x.id} \in SUBSET Ids /\ {x.org} \in SUBSET Ids
    BY Statements
  <1>4. /\ Delete("api_keys", "team", {x.id}) \in Statement
        /\ Delete("projects", "team", {x.id}) \in Statement
        /\ Delete("team_memberships", "team", {x.id}) \in Statement
        /\ Delete("teams", "id", {x.id}) \in Statement
        /\ Delete("sso_configs", "org", {x.org}) \in Statement
        /\ Delete(x.table, "id", {x.id}) \in Statement
    BY <1>1, <1>2, <1>3 DEF Tables
  <1> HIDE DEF Statement, Delete, Insert, Update
  <1>5. TeamCascade(x.id) \in Seq(Statement)
    BY <1>4, SevenTyped DEF TeamCascade
  <1>6. \A s \in Statement : <<s>> \in Seq(Statement)
    OBVIOUS
  <1>7. <<>> \in Seq(Statement)
    OBVIOUS
  <1>8. program \in Seq(Statement)
    BY <1>2, <1>4, <1>5, <1>6, <1>7 DEF Launch
  <1>9. QED
    BY <1>8 DEF Launch, Ops

LEMMA TypesStep ==
  ASSUME TInv, RowsInv, NEW r \in Requests, Acts(r)
  PROVE  HeldTypes' /\ RequestTypes'
  <1> HIDE DEF Statement
  <1>0. HeldTypes /\ RequestTypes /\ Stage(r) /\ Holds(r) /\ goal[r] \in Universe \cup {None}
    BY DEF TInv, RequestTypes
  <1>1. ASSUME NEW x \in Universe, NEW k, NEW next, NEW program, Launch(r, k, x, next, program)
       PROVE  HeldTypes' /\ RequestTypes'
    <2>1. HeldTypes'
      BY <1>0, <1>1 DEF Launch, Begin, tx, HeldTypes
    <2>2. program \in Seq(Statement) /\ next \in {"run", "teams"} /\ k \in Ops
      BY <1>1, LaunchProgramType
    <2>3. QED
      BY <1>0, <1>1, <2>1, <2>2 DEF Launch, Begin, RequestTypes
  <1>2. CASE ReadTeams(r)
    <2>1. HeldTypes'
      BY <1>0, <1>2 DEF ReadTeams, tx, HeldTypes
    <2>2. goal[r] \in Universe /\ rows \subseteq Universe
      BY <1>0, <1>2 DEF Stage, ReadTeams, HeldTypes
    <2>3. goal[r].id \in Ids /\ {x.id : x \in {y \in rows : y.table = "teams" /\ y.org = goal[r].id}} \subseteq Ids
      BY <2>2, Statements
    <2>4. OrgCascade(goal[r].id, {x.id : x \in {y \in rows : y.table = "teams" /\ y.org = goal[r].id}})
            \in Seq(Statement)
      BY <2>3, OrgProgramType
    <2>5. QED
      BY <1>0, <1>2, <2>1, <2>4 DEF ReadTeams, RequestTypes
  <1>3. ASSUME NEW S, Deletes(r, S)
       PROVE  HeldTypes' /\ RequestTypes'
    <2>1. S \subseteq Universe
      BY <1>0, <1>3 DEF Deletes, HeldTypes
    <2>2. HeldTypes'
      BY <1>0, <1>3, <2>1 DEF Deletes, Deleted, HeldTypes
    <2>3. <<>> \o Tail(todo[r]) = Tail(todo[r]) /\ Tail(todo[r]) \in Seq(Statement)
      BY <1>3, TodoTail DEF Deletes
    <2>4. /\ pc' \in [Requests -> {"idle", "teams", "run", "wait", "check", "refresh", "done"}]
          /\ todo' \in [Requests -> Seq(Statement)]
      <3>1. CASE pc' = [pc EXCEPT ![r] = "run"] /\ todo' = [todo EXCEPT ![r] = Tail(todo[r])]
        BY <1>0, <2>3, <3>1 DEF RequestTypes
      <3>2. CASE pc' = [pc EXCEPT ![r] = "check"] /\ UNCHANGED todo
        BY <1>0, <3>2 DEF RequestTypes
      <3>3. QED
        BY <1>3, <2>3, <3>1, <3>2 DEF Deletes, Deleted, NextStatement
    <2>5. UNCHANGED <<op, goal, answer, late, blame>>
      BY <1>3 DEF Deletes, Deleted
    <2>6. QED
      BY <1>0, <2>2, <2>4, <2>5 DEF RequestTypes
  <1>4. ASSUME NEW S, Waits(r, S)
       PROVE  HeldTypes' /\ RequestTypes'
    <2>1. HeldTypes'
      BY <1>0, <1>4 DEF Waits, HeldTypes
    <2>2. QED
      BY <1>0, <1>4, <2>1 DEF Waits, RequestTypes
  <1>5. CASE CheckOrphans(r)
    <2>1. HeldTypes'
      BY <1>0, <1>5 DEF CheckOrphans, tx, HeldTypes
    <2>2. <<>> \o Tail(todo[r]) \in Seq(Statement)
      BY <1>5, CheckDoes, TodoTail
    <2>3. QED
      BY <1>0, <1>5, <2>1, <2>2 DEF CheckOrphans, NextStatement, RequestTypes
  <1>6. ASSUME NEW x, Inserts(r, x)
       PROVE  HeldTypes' /\ RequestTypes'
    <2>1. x \in Universe
      <3>1. x = goal[r] /\ goal[r] \in Universe
        BY <1>6, KindOf DEF Inserts
      <3>2. QED
        BY <3>1
    <2>2. HeldTypes'
      BY <1>0, <1>6, <2>1 DEF Inserts, HeldTypes
    <2>3. Tail(todo[r]) \in Seq(Statement)
      BY <1>6, TodoTail DEF Inserts
    <2>4. [i \in DOMAIN Parents(x) |-> Share(Parents(x)[i])] \in Seq(Statement)
      BY <2>1, SharesTyped
    <2>5. QED
      BY <1>0, <1>6, <2>2, <2>3, <2>4 DEF Inserts, NextStatement, RequestTypes
  <1>7. ASSUME NEW x, Updates(r, x)
       PROVE  HeldTypes' /\ RequestTypes'
    <2>1. HeldTypes'
      BY <1>0, <1>7 DEF Updates, HeldTypes
    <2>2. <<>> \o Tail(todo[r]) \in Seq(Statement)
      BY <1>7, TodoTail DEF Updates
    <2>3. QED
      BY <1>0, <1>7, <2>1, <2>2 DEF Updates, NextStatement, RequestTypes
  <1>8. ASSUME NEW p, Shares(r, p)
       PROVE  HeldTypes' /\ RequestTypes'
    <2>0. p \in Refs
      <3>1. rows \subseteq Universe
        BY <1>0 DEF HeldTypes
      <3>2. QED
        BY <1>8, <3>1 DEF Shares, Refs
    <2>1. HeldTypes'
      BY <1>0, <1>8, <2>0 DEF Shares, HeldTypes
    <2>2. <<>> \o Tail(todo[r]) \in Seq(Statement)
      BY <1>8, TodoTail DEF Shares
    <2>3. QED
      BY <1>0, <1>8, <2>1, <2>2 DEF Shares, NextStatement, RequestTypes
  <1>9. ASSUME NEW why, Fails(r, why)
       PROVE  HeldTypes' /\ RequestTypes'
    <2>1. PICK n \in {409, 500} : Abort(r, n, why)
      BY <1>9 DEF Fails
    <2>2. HeldTypes'
      BY <1>0, <2>1 DEF Abort, Release, HeldTypes
    <2>3. why \subseteq Universe
      BY <1>0, <1>9 DEF Fails, Orphans, HeldTypes
    <2>4. QED
      BY <1>0, <2>1, <2>2, <2>3 DEF Abort, Answer, RequestTypes
  <1>10. CASE Commit(r)
    <2>0. ins[r] \subseteq used
      <3>1. ins[r] # {} => op[r] = "create"
        BY <1>0 DEF Holds
      <3>2. op[r] = "create" => goal[r] \in used
        BY DEF RowsInv, Fresh, Ops
      <3>3. QED
        BY <1>0, <3>1, <3>2 DEF Holds
    <2>1. HeldTypes'
      BY <1>0, <1>10, <2>0 DEF Commit, Release, HeldTypes
    <2>2. UNCHANGED <<op, goal, blame>>
      BY <1>10 DEF Commit
    <2>3. late' \in [Requests -> SUBSET Universe]
      <3>1. \A q \in Requests : late[q] \subseteq Universe /\ ins[r] \subseteq Universe
        BY <1>0 DEF RequestTypes, HeldTypes
      <3>2. QED
        BY <1>10, <3>1 DEF Commit
    <2>4. /\ pc' \in [Requests -> {"idle", "teams", "run", "wait", "check", "refresh", "done"}]
          /\ todo' \in [Requests -> Seq(Statement)]
          /\ answer' \in [Requests -> {0, 200, 201, 204, 404, 409, 500}]
      <3>1. CASE op[r] \in {"create", "update"}
        <4>1. pc' = [pc EXCEPT ![r] = "refresh"] /\ UNCHANGED <<todo, answer>>
          BY <1>10, <3>1 DEF Commit
        <4>2. QED
          BY <1>0, <4>1 DEF RequestTypes
      <3>2. CASE op[r] \notin {"create", "update"}
        <4>1. PICK n \in {204, 404} : Answer(r, n)
          BY <1>10, <3>2 DEF Commit
        <4>2. QED
          BY <1>0, <4>1 DEF Answer, RequestTypes
      <3>3. QED
        BY <3>1, <3>2
    <2>5. QED
      BY <1>0, <2>1, <2>2, <2>3, <2>4 DEF RequestTypes
  <1>11. CASE Refresh(r)
    <2>1. HeldTypes'
      BY <1>0, <1>11 DEF Refresh, tx, HeldTypes
    <2>2. PICK n \in {500, 201, 200} : Answer(r, n) /\ UNCHANGED <<op, goal, late, blame>>
      BY <1>11 DEF Refresh
    <2>3. QED
      BY <1>0, <2>1, <2>2 DEF Answer, RequestTypes
  <1>12. QED
    BY <1>1, <1>2, <1>3, <1>4, <1>5, <1>6, <1>7, <1>8, <1>9, <1>10, <1>11 DEF Acts

-----------------------------------------------------------------------------
(***************************************************************************)
(* What a request does is what it was asked for.                           *)
(***************************************************************************)
LEMMA OnlyItself ==
  ASSUME NEW x \in Universe, NEW y \in Universe, Hits(Delete(x.table, "id", {x.id}), y)
  PROVE  y = x
  <1>1. Ref(y) = Ref(x)
    BY HitsDelete DEF Ref
  <1>2. QED
    BY <1>1

LEMMA TeamBelongs ==
  ASSUME NEW x \in Universe, x.table = "teams", NEW i \in DOMAIN TeamCascade(x.id)
  PROVE  Belongs("delete_team", x, TeamCascade(x.id)[i])
  <1> DEFINE s == TeamCascade(x.id)[i]
  <1>1. \/ i = 1 /\ s = Delete("api_keys", "team", {x.id})
        \/ i = 2 /\ s = Delete("projects", "team", {x.id})
        \/ i = 3 /\ s = Delete("team_memberships", "team", {x.id})
        \/ i = 4 /\ s = Delete("teams", "id", {x.id})
    BY DEF TeamCascade
  <1> HIDE DEF s
  <1>2. s.do = "delete"
    BY <1>1 DEF Delete
  <1>3. ASSUME NEW y \in Universe, Hits(s, y)
       PROVE  Doomed("delete_team", x, y)
    <2>1. CASE s = Delete("teams", "id", {x.id})
      BY <1>3, <2>1, OnlyItself DEF Doomed, Cascading
    <2>2. CASE s # Delete("teams", "id", {x.id})
      <3>1. y.team = x.id /\ y.table \in {"api_keys", "projects", "team_memberships"}
        BY <1>1, <1>3, <2>2, HitsDelete
      <3>2. Refers(y, x)
        BY <3>1, RefersTo
      <3>3. QED
        BY <3>1, <3>2 DEF Doomed, Cascading
    <2>3. QED
      BY <2>1, <2>2
  <1>4. Belongs("delete_team", x, s)
    BY <1>2, <1>3 DEF Belongs, Deletions
  <1>5. QED
    BY <1>4 DEF s

TeamIds(g) == {t.id : t \in {y \in rows : y.table = "teams" /\ y.org = g.id}}

LEMMA OrgBelongs ==
  ASSUME rows \subseteq Universe, NEW g \in Universe, g.table = "organizations",
         NEW i \in DOMAIN OrgCascade(g.id, TeamIds(g))
  PROVE  Belongs("delete_org", g, OrgCascade(g.id, TeamIds(g))[i])
  <1> DEFINE T == TeamIds(g)
             s == OrgCascade(g.id, T)[i]
  <1>0. \A n \in T : \E t \in Universe : t.id = n /\ t.table = "teams" /\ t.org = g.id
    BY DEF TeamIds
  <1> HIDE DEF T
  <1>1. \/ s = Delete("api_keys", "team", T) \/ s = Delete("projects", "team", T)
        \/ s = Delete("team_memberships", "team", T) \/ s = Delete("teams", "id", T)
        \/ s = Delete("api_keys", "org", {g.id}) \/ s = Delete("org_memberships", "org", {g.id})
        \/ s = Delete("organizations", "id", {g.id})
    <2>1. CASE T = {}
      <3>1. OrgCascade(g.id, T) = <<Delete("api_keys", "org", {g.id}),
              Delete("org_memberships", "org", {g.id}), Delete("organizations", "id", {g.id})>>
        BY <2>1, OrgProgram
      <3>2. i \in DOMAIN OrgCascade(g.id, T)
        BY DEF T
      <3> HIDE DEF Delete
      <3>3. QED
        BY <3>1, <3>2
    <2>2. CASE T # {}
      <3>1. OrgCascade(g.id, T) = <<Delete("api_keys", "team", T), Delete("projects", "team", T),
              Delete("team_memberships", "team", T), Delete("teams", "id", T),
              Delete("api_keys", "org", {g.id}), Delete("org_memberships", "org", {g.id}),
              Delete("organizations", "id", {g.id})>>
        BY <2>2, OrgProgram
      <3>2. i \in DOMAIN OrgCascade(g.id, T)
        BY DEF T
      <3> HIDE DEF Delete
      <3>3. QED
        BY <3>1, <3>2
    <2>3. QED
      BY <2>1, <2>2
  <1> HIDE DEF s
  <1>2. s.do = "delete"
    BY <1>1 DEF Delete
  <1>3. ASSUME NEW y \in Universe, Hits(s, y)
       PROVE  Doomed("delete_org", g, y)
    <2>1. CASE s = Delete("organizations", "id", {g.id})
      BY <1>3, <2>1, OnlyItself DEF Doomed, Cascading
    <2>2. CASE s = Delete("api_keys", "org", {g.id}) \/ s = Delete("org_memberships", "org", {g.id})
      <3>1. y.org = g.id /\ y.table \in {"api_keys", "org_memberships"}
        BY <1>3, <2>2, HitsDelete
      <3>2. Refers(y, g)
        BY <3>1, RefersTo
      <3>3. QED
        BY <3>1, <3>2 DEF Doomed, Cascading
    <2>3. CASE s = Delete("teams", "id", T)
      <3>1. y.table = "teams" /\ y.id \in T
        BY <1>3, <2>3, HitsDelete
      <3>2. PICK t \in Universe : t.id = y.id /\ t.table = "teams" /\ t.org = g.id
        BY <1>0, <3>1
      <3>3. Ref(t) = Ref(y)
        BY <3>1, <3>2 DEF Ref
      <3>4. y.org = g.id
        BY <3>2, <3>3
      <3>5. Refers(y, g)
        BY <3>4, RefersTo
      <3>6. QED
        BY <3>1, <3>5 DEF Doomed, Cascading
    <2>4. CASE \E t \in {"api_keys", "projects", "team_memberships"} : s = Delete(t, "team", T)
      <3>1. y.team \in T /\ y.table \in {"api_keys", "projects", "team_memberships"}
        BY <1>3, <2>4, HitsDelete
      <3>2. PICK t \in Universe : t.id = y.team /\ t.table = "teams" /\ t.org = g.id
        BY <1>0, <3>1
      <3>3. Refers(t, g) /\ Refers(y, t)
        BY <3>2, RefersTo
      <3>4. QED
        BY <3>1, <3>2, <3>3 DEF Doomed, Cascading
    <2>5. QED
      BY <1>1, <2>1, <2>2, <2>3, <2>4
  <1>4. Belongs("delete_org", g, s)
    BY <1>2, <1>3 DEF Belongs, Deletions
  <1>5. QED
    BY <1>4 DEF s, T

LEMMA LaunchBelongs ==
  ASSUME NEW r \in Requests, NEW x \in Universe, NEW k, NEW next, NEW program,
         Launch(r, k, x, next, program)
  PROVE  \A i \in DOMAIN program : Belongs(k, x, program[i])
  <1>1. CASE k = "create" /\ program = <<Insert(x)>>
    <2>1. \A i \in DOMAIN program : program[i] = Insert(x)
      BY <1>1
    <2>2. QED
      BY <1>1, <2>1 DEF Belongs, Deletions
  <1>2. CASE k = "update" /\ program = <<Update(x)>>
    <2>1. \A i \in DOMAIN program : program[i] = Update(x)
      BY <1>2
    <2>2. QED
      BY <1>2, <2>1 DEF Belongs, Deletions, Update
  <1>3. CASE k = "delete" /\ program = <<Delete(x.table, "id", {x.id})>>
    <2>1. \A i \in DOMAIN program : program[i] = Delete(x.table, "id", {x.id})
      BY <1>3
    <2>2. Delete(x.table, "id", {x.id}).do = "delete"
      BY DEF Delete
    <2>3. \A y \in Universe : Hits(Delete(x.table, "id", {x.id}), y) => Doomed("delete", x, y)
      BY OnlyItself DEF Doomed
    <2>4. QED
      BY <1>3, <2>1, <2>2, <2>3 DEF Belongs, Deletions
  <1>4. CASE k = "purge" /\ program = <<Delete("sso_configs", "org", {x.org})>>
    <2>1. \A i \in DOMAIN program : program[i] = Delete("sso_configs", "org", {x.org})
      BY <1>4
    <2>2. Delete("sso_configs", "org", {x.org}).do = "delete"
      BY DEF Delete
    <2>3. \A y \in Universe : Hits(Delete("sso_configs", "org", {x.org}), y) => Doomed("purge", x, y)
      BY HitsDelete DEF Doomed
    <2>4. QED
      BY <1>4, <2>1, <2>2, <2>3 DEF Belongs, Deletions
  <1>5. CASE k = "delete_team" /\ x.table = "teams" /\ program = TeamCascade(x.id)
    BY <1>5, TeamBelongs
  <1>6. CASE k = "delete_org" /\ program = <<>>
    BY <1>6
  <1>7. QED
    BY <1>1, <1>2, <1>3, <1>4, <1>5, <1>6 DEF Launch

LEMMA StageStep ==
  ASSUME TInv, NEW r \in Requests, Acts(r)
  PROVE  Stage(r)'
  <1>0. Stage(r)
    BY DEF TInv
  <1>1. ASSUME NEW x \in Universe, NEW k, NEW next, NEW program, Launch(r, k, x, next, program)
       PROVE  Stage(r)'
    <2>1. /\ k = "delete_team" => x.table = "teams"
          /\ k = "delete_org" => x.table = "organizations"
          /\ k = "delete" => x.table \notin {"organizations", "teams"}
          /\ next = "teams" => k = "delete_org"
          /\ next \in {"run", "teams"} /\ k \in Ops
      BY <1>1 DEF Launch, Ops
    <2>2. QED
      BY <1>0, <1>1, <2>1, LaunchDoes DEF Stage, KeepsAnswer, Ops
  <1>2. CASE ReadTeams(r)
    BY <1>0, <1>2, ReadTeamsDoes DEF Stage, KeepsGoal, KeepsAnswer, Cascading, Deletions, Ops
  <1>3. ASSUME NEW S, Deletes(r, S)
       PROVE  Stage(r)'
    <2>1. op[r] \in Deletions /\ todo[r] # <<>> /\ pc[r] \in {"run", "wait"}
      <3>1. todo[r] # <<>>
        BY <1>3 DEF Deletes
      <3>2. pc[r] = "wait" => op[r] \in Deletions
        BY <1>0 DEF Stage
      <3>4. QED
        BY <1>3, <3>1, <3>2, KindOf DEF Deletes
    <2>2. QED
      BY <1>0, <1>3, <2>1, DeletesDoes DEF Stage, KeepsGoal, KeepsAnswer
  <1>4. ASSUME NEW S, Waits(r, S)
       PROVE  Stage(r)'
    <2>1. op[r] \in Deletions /\ todo[r] # <<>> /\ pc[r] \in {"run", "wait"}
      <3>1. todo[r] # <<>>
        BY <1>4 DEF Waits
      <3>2. pc[r] = "wait" => op[r] \in Deletions
        BY <1>0 DEF Stage
      <3>4. QED
        BY <1>4, <3>1, <3>2, KindOf DEF Waits
    <2>2. QED
      BY <1>0, <1>4, <2>1, WaitsDoes DEF Stage, KeepsGoal, KeepsAnswer
  <1>5. CASE CheckOrphans(r)
    BY <1>0, <1>5, CheckDoes DEF Stage, KeepsGoal, KeepsAnswer, Cascading, Deletions, Ops
  <1>6. ASSUME NEW x, Inserts(r, x)
       PROVE  Stage(r)'
    <2>1. pc[r] = "run" /\ pc'[r] = "run" /\ KeepsGoal(r) /\ KeepsAnswer(r)
      BY <1>6, InsertsDoes
    <2>2. QED
      BY <1>0, <2>1 DEF Stage, KeepsGoal, KeepsAnswer
  <1>7. ASSUME NEW x, Updates(r, x)
       PROVE  Stage(r)'
    BY <1>0, <1>7, UpdatesDoes DEF Stage, KeepsGoal, KeepsAnswer, Cascading, Deletions, Ops
  <1>8. ASSUME NEW p, Shares(r, p)
       PROVE  Stage(r)'
    BY <1>0, <1>8, SharesDoes DEF Stage, KeepsGoal, KeepsAnswer, Cascading, Deletions, Ops
  <1>9. ASSUME NEW why, Fails(r, why)
       PROVE  Stage(r)'
    BY <1>0, <1>9, FailsDoes DEF Stage, KeepsGoal, Active
  <1>10. CASE Commit(r)
    BY <1>0, <1>10, CommitDoes DEF Stage, KeepsGoal, KeepsAnswer, Cascading, Deletions, Ops
  <1>11. CASE Refresh(r)
    BY <1>0, <1>11, RefreshDoes DEF Stage, KeepsGoal, KeepsAnswer, Cascading, Deletions, Ops
  <1>12. QED
    BY <1>1, <1>2, <1>3, <1>4, <1>5, <1>6, <1>7, <1>8, <1>9, <1>10, <1>11 DEF Acts

LEMMA Kept ==
  ASSUME NEW r \in Requests, KeepsGoal(r)
  PROVE  \A x \in Universe : Mine(r, x) => Mine(r, x)'
  BY DEF KeepsGoal, Mine

LEMMA HoldsStep ==
  ASSUME TInv, NEW r \in Requests, Acts(r)
  PROVE  Holds(r)'
  <1> HIDE DEF Statement
  <1>0. /\ Stage(r) /\ Holds(r) /\ rows \subseteq Universe
        /\ del[r] \subseteq Universe /\ want[r] \subseteq Universe
        /\ \A i \in DOMAIN todo[r] : todo[r][i] \in Statement
    <2>1. todo[r] \in Seq(Statement)
      BY DEF TInv, RequestTypes
    <2>2. \A i \in DOMAIN todo[r] : todo[r][i] \in Statement
      BY <2>1
    <2>3. QED
      BY <2>2 DEF TInv, HeldTypes
  <1>1. ASSUME NEW x \in Universe, NEW k, NEW next, NEW program, Launch(r, k, x, next, program)
       PROVE  Holds(r)'
    <2>1. /\ ins'[r] = {} /\ del'[r] = {} /\ upd'[r] = {} /\ share'[r] = {} /\ want'[r] = {}
          /\ op'[r] = k /\ goal'[r] = x /\ todo'[r] = program /\ pc'[r] = next
      BY <1>0, <1>1, LaunchDoes DEF Holds, Active, KeepsLocks
    <2>2. next = "run" \/ (next = "teams" /\ program = <<>>)
      BY <1>1 DEF Launch
    <2>3. \A i \in DOMAIN program : Belongs(k, x, program[i])
      BY <1>1, LaunchBelongs
    <2>4. QED
      BY <2>1, <2>2, <2>3 DEF Holds, Active, Ours
  <1>2. CASE ReadTeams(r)
    <2>1. /\ ins'[r] = {} /\ del'[r] = {} /\ upd'[r] = {} /\ share'[r] = {} /\ want'[r] = {}
          /\ KeepsGoal(r) /\ todo'[r] = OrgCascade(goal[r].id, TeamIds(goal[r])) /\ pc'[r] = "run"
          /\ pc[r] = "teams"
      BY <1>0, <1>2, ReadTeamsDoes DEF Holds, Active, KeepsLocks, TeamIds
    <2>2. op[r] = "delete_org" /\ goal[r] \in Universe /\ goal[r].table = "organizations"
      BY <1>0, <2>1 DEF Stage
    <2>3. \A i \in DOMAIN todo'[r] : Belongs(op[r], goal[r], todo'[r][i])
      BY <1>0, <2>1, <2>2, OrgBelongs
    <2>4. QED
      BY <2>1, <2>3 DEF Holds, Active, Ours, KeepsGoal
  <1>3. ASSUME NEW S, Deletes(r, S)
       PROVE  Holds(r)'
    <2>1. todo[r] # <<>> /\ pc[r] \in {"run", "wait"}
      BY <1>3 DEF Deletes
    <2>2. todo[r][1].do = "delete" => op[r] \in Deletions
      BY <2>1, KindOf
    <2>3. op[r] \in Deletions
      BY <1>0, <1>3, <2>2 DEF Stage, Deletes
    <2>4. \A x \in S : x \in Universe /\ Mine(r, x)
      <3>1. CASE S = want[r] \cap rows
        BY <1>0, <3>1 DEF Holds
      <3>2. CASE S = {x \in rows \ del[r] : Hits(todo[r][1], x)}
        BY <1>0, <2>1, <2>3, <3>2, KindOf
      <3>3. QED
        BY <1>3, <3>1, <3>2 DEF Deletes
    <2>5. \A i \in DOMAIN Tail(todo[r]) : Tail(todo[r])[i] \in Statement /\ Ours(r, Tail(todo[r])[i])
      BY <1>0, <2>1, TodoTail DEF Holds
    <2>6. /\ KeepsGoal(r) /\ ins'[r] = ins[r] /\ share'[r] = share[r] /\ del'[r] = del[r] \cup S
          /\ want'[r] = {} /\ pc'[r] \in {"run", "check"}
          /\ todo'[r] = Tail(todo[r]) \/ todo'[r] = todo[r]
      BY <1>3, DeletesDoes
    <2>7. \A i \in DOMAIN todo'[r] : Belongs(op'[r], goal'[r], todo'[r][i])
      <3>1. \A i \in DOMAIN todo'[r] : todo'[r][i] \in Statement /\ Ours(r, todo'[r][i])
        BY <1>0, <2>5, <2>6 DEF Holds
      <3>2. QED
        BY <2>6, <3>1 DEF KeepsGoal, Ours
    <2>8. \A y \in del'[r] \cup want'[r] : Mine(r, y)'
      BY <1>0, <2>4, <2>6, Kept DEF Holds
    <2>9. QED
      BY <1>0, <2>3, <2>6, <2>7, <2>8 DEF Holds, Active, KeepsGoal, Ours
  <1>4. ASSUME NEW S, Waits(r, S)
       PROVE  Holds(r)'
    <2>1. op[r] \in Deletions /\ todo[r] # <<>> /\ pc[r] = "run"
      BY <1>4, KindOf DEF Waits
    <2>2. \A x \in rows : Hits(todo[r][1], x) => Mine(r, x)
      BY <1>0, <2>1, KindOf
    <2>3. /\ KeepsGoal(r) /\ ins'[r] = ins[r] /\ share'[r] = share[r] /\ del'[r] = del[r] \cup S
          /\ todo'[r] = todo[r] /\ pc'[r] = "wait"
          /\ want'[r] = {x \in rows \ del[r] : Hits(todo[r][1], x)}
      BY <1>4, WaitsDoes
    <2>4. \A y \in del'[r] \cup want'[r] : y \in Universe /\ Mine(r, y)
      BY <1>0, <1>4, <2>2, <2>3 DEF Waits, Holds
    <2>5. \A y \in del'[r] \cup want'[r] : Mine(r, y)'
      BY <2>3, <2>4, Kept
    <2>6. \A i \in DOMAIN todo'[r] : Belongs(op'[r], goal'[r], todo'[r][i])
      <3>1. \A i \in DOMAIN todo'[r] : todo'[r][i] \in Statement /\ Ours(r, todo'[r][i])
        BY <1>0, <2>3 DEF Holds
      <3>2. QED
        BY <2>3, <3>1 DEF KeepsGoal, Ours
    <2>7. QED
      BY <1>0, <2>1, <2>3, <2>5, <2>6 DEF Holds, Active, KeepsGoal, Ours
  <1>5. CASE CheckOrphans(r)
    <2>1. todo[r] # <<>> /\ KeepsGoal(r) /\ pc'[r] = "run" /\ todo'[r] = Tail(todo[r]) /\ pc[r] # "idle"
      BY <1>5, CheckDoes
    <2>2. \A i \in DOMAIN Tail(todo[r]) : Tail(todo[r])[i] \in Statement /\ Ours(r, Tail(todo[r])[i])
      BY <1>0, <2>1, TodoTail DEF Holds
    <2>3. \A i \in DOMAIN todo'[r] : Belongs(op'[r], goal'[r], todo'[r][i])
      <3>1. \A i \in DOMAIN todo'[r] : todo'[r][i] \in Statement /\ Ours(r, todo'[r][i])
        BY <2>1, <2>2
      <3>2. QED
        BY <2>1, <3>1 DEF KeepsGoal, Ours
    <2>4. /\ ins'[r] = ins[r] /\ share'[r] = share[r] /\ del'[r] = del[r]
          /\ want[r] = {} /\ want'[r] = {}
      BY <1>0, <1>5, CheckDoes DEF Holds, KeepsLocks, Shares, Updates
    <2>5. \A y \in del'[r] \cup want'[r] : Mine(r, y)'
      BY <1>0, <2>1, <2>4, Kept DEF Holds
    <2>6. QED
      BY <1>0, <2>1, <2>3, <2>4, <2>5 DEF Holds, Active, KeepsGoal, Ours
  <1>6. ASSUME NEW x, Inserts(r, x)
       PROVE  Holds(r)'
    <2>1. /\ todo[r] # <<>> /\ KeepsGoal(r) /\ pc[r] = "run" /\ pc'[r] = "run"
          /\ share'[r] = share[r] /\ del'[r] = del[r] /\ want'[r] = want[r] /\ ins'[r] = ins[r] \cup {x}
      BY <1>6, InsertsDoes DEF Inserts
    <2>2. op[r] = "create" /\ x = goal[r] /\ x \in Universe
      BY <1>6, KindOf DEF Inserts
    <2> DEFINE shares == [i \in DOMAIN Parents(x) |-> Share(Parents(x)[i])]
               rest == Tail(todo[r])
    <2>3. todo'[r] = shares \o rest
      BY <1>6, InsertsDoes
    <2>4. \A i \in DOMAIN rest : Ours(r, rest[i])
      BY <1>0, <2>1, TodoTail DEF Holds
    <2>5. \A i \in DOMAIN shares : Ours(r, shares[i])
      BY <2>2 DEF Share, Ours, Belongs, Deletions
    <2>6. shares \in Seq(Statement) /\ rest \in Seq(Statement)
      BY <1>6, <2>1, <2>2, SharesTyped, TodoTail
    <2> HIDE DEF shares, rest
    <2>7. \A i \in DOMAIN todo'[r] : Ours(r, todo'[r][i])
      <3>1. ASSUME NEW i \in DOMAIN (shares \o rest)
           PROVE  Ours(r, (shares \o rest)[i])
        <4> DEFINE s == (shares \o rest)[i]
        <4>1. Among(s, shares \o rest)
          BY DEF Among
        <4> HIDE DEF s
        <4>2. Among(s, shares) \/ Among(s, rest)
          BY <2>6, <4>1, ConcatHolds
        <4>3. Ours(r, s)
          BY <2>4, <2>5, <4>2 DEF Among
        <4>4. QED
          BY <4>3 DEF s
      <3>2. QED
        BY <2>3, <3>1
    <2>8. \A i \in DOMAIN todo'[r] : Belongs(op'[r], goal'[r], todo'[r][i])
      BY <2>1, <2>7 DEF Ours, KeepsGoal
    <2>9. \A y \in del'[r] \cup want'[r] : Mine(r, y)'
      BY <1>0, <2>1, Kept DEF Holds
    <2>10. QED
      BY <1>0, <2>1, <2>2, <2>8, <2>9 DEF Holds, Active, KeepsGoal, Ours
  <1>7. ASSUME NEW x, Updates(r, x)
       PROVE  Holds(r)'
    <2>1. todo[r] # <<>> /\ KeepsGoal(r) /\ pc'[r] = "run" /\ todo'[r] = Tail(todo[r]) /\ pc[r] # "idle"
      BY <1>7, UpdatesDoes
    <2>2. \A i \in DOMAIN Tail(todo[r]) : Tail(todo[r])[i] \in Statement /\ Ours(r, Tail(todo[r])[i])
      BY <1>0, <2>1, TodoTail DEF Holds
    <2>3. \A i \in DOMAIN todo'[r] : Belongs(op'[r], goal'[r], todo'[r][i])
      <3>1. \A i \in DOMAIN todo'[r] : todo'[r][i] \in Statement /\ Ours(r, todo'[r][i])
        BY <2>1, <2>2
      <3>2. QED
        BY <2>1, <3>1 DEF KeepsGoal, Ours
    <2>4. /\ ins'[r] = ins[r] /\ share'[r] = share[r] /\ del'[r] = del[r]
          /\ want[r] = {} /\ want'[r] = {}
      BY <1>0, <1>7, UpdatesDoes DEF Holds, KeepsLocks, Shares, Updates
    <2>5. \A y \in del'[r] \cup want'[r] : Mine(r, y)'
      BY <1>0, <2>1, <2>4, Kept DEF Holds
    <2>6. QED
      BY <1>0, <2>1, <2>3, <2>4, <2>5 DEF Holds, Active, KeepsGoal, Ours
  <1>8. ASSUME NEW p, Shares(r, p)
       PROVE  Holds(r)'
    <2>1. todo[r] # <<>> /\ KeepsGoal(r) /\ pc'[r] = "run" /\ todo'[r] = Tail(todo[r]) /\ pc[r] # "idle"
      BY <1>8, SharesDoes
    <2>2. \A i \in DOMAIN Tail(todo[r]) : Tail(todo[r])[i] \in Statement /\ Ours(r, Tail(todo[r])[i])
      BY <1>0, <2>1, TodoTail DEF Holds
    <2>3. \A i \in DOMAIN todo'[r] : Belongs(op'[r], goal'[r], todo'[r][i])
      <3>1. \A i \in DOMAIN todo'[r] : todo'[r][i] \in Statement /\ Ours(r, todo'[r][i])
        BY <2>1, <2>2
      <3>2. QED
        BY <2>1, <3>1 DEF KeepsGoal, Ours
    <2>4. /\ ins'[r] = ins[r] /\ op[r] = "create" /\ del'[r] = del[r]
          /\ want[r] = {} /\ want'[r] = {}
      BY <1>0, <1>8, SharesDoes, KindOf DEF Holds, KeepsLocks, Shares, Updates
    <2>5. \A y \in del'[r] \cup want'[r] : Mine(r, y)'
      BY <1>0, <2>1, <2>4, Kept DEF Holds
    <2>6. QED
      BY <1>0, <2>1, <2>3, <2>4, <2>5 DEF Holds, Active, KeepsGoal, Ours
  <1>9. ASSUME NEW why, Fails(r, why)
       PROVE  Holds(r)'
    <2>1. LocksGone(r) /\ pc'[r] = "done" /\ todo'[r] = <<>>
      BY <1>9, FailsDoes
    <2>2. QED
      BY <2>1 DEF LocksGone, Holds, Active
  <1>10. CASE Commit(r)
    <2>1. LocksGone(r) /\ pc'[r] \in {"done", "refresh"} /\ todo'[r] = <<>>
      BY <1>10, CommitDoes
    <2>2. QED
      BY <2>1 DEF LocksGone, Holds, Active
  <1>11. CASE Refresh(r)
    <2>1. KeepsLocks(r) /\ pc[r] = "refresh" /\ pc'[r] = "done" /\ todo'[r] = <<>> /\ want'[r] = want[r]
      BY <1>11, RefreshDoes
    <2>2. QED
      BY <1>0, <2>1 DEF KeepsLocks, Holds, Active
  <1>12. QED
    BY <1>1, <1>2, <1>3, <1>4, <1>5, <1>6, <1>7, <1>8, <1>9, <1>10, <1>11 DEF Acts

LEMMA StageFrame ==
  ASSUME TInv, NEW q \in Requests, Untouched(q)
  PROVE  Stage(q)' /\ Holds(q)'
  <1>0. Stage(q) /\ Holds(q)
    BY DEF TInv
  <1>1. Stage(q)'
    BY <1>0 DEF Stage, Untouched
  <1>2. \A s : Ours(q, s) <=> Ours(q, s)'
    BY DEF Ours, Untouched
  <1>3. \A x : Mine(q, x) <=> Mine(q, x)'
    BY DEF Mine, Untouched
  <1>4. Holds(q)'
    BY <1>0, <1>2, <1>3 DEF Holds, Active, Untouched
  <1>5. QED
    BY <1>1, <1>4

LEMMA TStep ==
  ASSUME TInv, RowsInv, NEW r \in Requests, Acts(r)
  PROVE  TInv'
  <1>1. HeldTypes' /\ RequestTypes'
    BY TypesStep
  <1>2. ASSUME NEW q \in Requests
       PROVE  Stage(q)' /\ Holds(q)'
    <2>1. CASE q = r
      BY <2>1, StageStep, HoldsStep
    <2>2. CASE q # r
      BY <2>2, Frame, StageFrame
    <2>3. QED
      BY <2>1, <2>2
  <1>3. QED
    BY <1>1, <1>2 DEF TInv

-----------------------------------------------------------------------------
(***************************************************************************)
(* The locks, and what they keep true of the rows.                         *)
(***************************************************************************)
\* What r takes in this step, q does not hold.
TakesFree(r, q) ==
  /\ \A x \in del'[r] \ del[r] : x \notin del[q] /\ Ref(x) \notin share[q]
  /\ \A p \in share'[r] \ share[r] : \A y \in del[q] : Ref(y) # p
  /\ \A x \in ins'[r] \ ins[r] : \A y \in ins[q] : ~Clash(y, x)

LEMMA LocksStep ==
  ASSUME TInv, NEW r \in Requests, Acts(r), NEW q \in Requests, q # r
  PROVE  TakesFree(r, q)
  <1>1. ASSUME NEW x \in Universe, NEW k, NEW next, NEW program, Launch(r, k, x, next, program)
       PROVE  TakesFree(r, q)
    BY <1>1, LaunchDoes DEF KeepsLocks, LocksGone, TakesFree
  <1>2. CASE ReadTeams(r)
    BY <1>2, ReadTeamsDoes DEF KeepsLocks, LocksGone, TakesFree
  <1>3. ASSUME NEW S, Deletes(r, S)
       PROVE  TakesFree(r, q)
    <2>1. del'[r] = del[r] \cup S /\ share'[r] = share[r] /\ ins'[r] = ins[r]
      BY <1>3, DeletesDoes
    <2>2. \A x \in S : x \notin del[q] /\ Ref(x) \notin share[q]
      BY <1>3 DEF Deletes, Holders
    <2>3. QED
      BY <2>1, <2>2 DEF TakesFree
  <1>4. ASSUME NEW S, Waits(r, S)
       PROVE  TakesFree(r, q)
    <2>1. del'[r] = del[r] \cup S /\ share'[r] = share[r] /\ ins'[r] = ins[r]
      BY <1>4, WaitsDoes
    <2>2. \A x \in S : x \notin del[q] /\ Ref(x) \notin share[q]
      BY <1>4 DEF Waits, Holders
    <2>3. QED
      BY <2>1, <2>2 DEF TakesFree
  <1>5. CASE CheckOrphans(r)
    BY <1>5, CheckDoes DEF KeepsLocks, LocksGone, TakesFree
  <1>6. ASSUME NEW x, Inserts(r, x)
       PROVE  TakesFree(r, q)
    <2>1. del'[r] = del[r] /\ share'[r] = share[r] /\ ins'[r] = ins[r] \cup {x}
      BY <1>6, InsertsDoes
    <2>2. \A y \in ins[q] : ~Clash(y, x)
      BY <1>6 DEF Inserts
    <2>3. QED
      BY <2>1, <2>2 DEF TakesFree
  <1>7. ASSUME NEW x, Updates(r, x)
       PROVE  TakesFree(r, q)
    BY <1>7, UpdatesDoes DEF KeepsLocks, LocksGone, TakesFree
  <1>8. ASSUME NEW p, Shares(r, p)
       PROVE  TakesFree(r, q)
    <2>1. del'[r] = del[r] /\ share'[r] = share[r] \cup {p} /\ ins'[r] = ins[r]
      BY <1>8, SharesDoes
    <2>2. \A y \in del[q] : Ref(y) # p
      BY <1>8 DEF Shares
    <2>3. QED
      BY <2>1, <2>2 DEF TakesFree
  <1>9. ASSUME NEW why, Fails(r, why)
       PROVE  TakesFree(r, q)
    BY <1>9, FailsDoes DEF KeepsLocks, LocksGone, TakesFree
  <1>10. CASE Commit(r)
    BY <1>10, CommitDoes DEF KeepsLocks, LocksGone, TakesFree
  <1>11. CASE Refresh(r)
    BY <1>11, RefreshDoes DEF KeepsLocks, LocksGone, TakesFree
  <1>12. QED
    BY <1>1, <1>2, <1>3, <1>4, <1>5, <1>6, <1>7, <1>8, <1>9, <1>10, <1>11 DEF Acts

LEMMA ExclusiveStep ==
  ASSUME TInv, TInv', Exclusive, NEW r \in Requests, Acts(r)
  PROVE  Exclusive'
  <1>1. ASSUME NEW q \in Requests, q # r
       PROVE  /\ del'[q] = del[q] /\ share'[q] = share[q] /\ ins'[q] = ins[q]
              /\ \A x \in del'[r] : x \notin del[q] /\ Ref(x) \notin share[q]
              /\ \A p \in share'[r] : \A y \in del[q] : Ref(y) # p
              /\ \A x \in ins'[r], y \in ins[q] : ~Clash(y, x) /\ ~Clash(x, y)
    <2>1. Untouched(q)
      BY <1>1, Frame
    <2>2. /\ \A x \in del'[r] \ del[r] : x \notin del[q] /\ Ref(x) \notin share[q]
          /\ \A p \in share'[r] \ share[r] : \A y \in del[q] : Ref(y) # p
          /\ \A x \in ins'[r] \ ins[r] : \A y \in ins[q] : ~Clash(y, x)
      BY <1>1, LocksStep DEF TakesFree
    <2>3. /\ \A x \in del[r] : x \notin del[q] /\ Ref(x) \notin share[q]
          /\ \A p \in share[r] : \A y \in del[q] : Ref(y) # p
          /\ \A x \in ins[r], y \in ins[q] : ~Clash(y, x)
      BY <1>1 DEF Exclusive
    <2>4. QED
      BY <2>1, <2>2, <2>3, ClashSymmetric DEF Untouched
  <1>2. del'[r] # {} => share'[r] = {}
    BY DEF TInv, Holds, Deletions
  <1>3. ASSUME NEW q \in Requests, NEW p \in Requests
       PROVE  /\ \A x \in del'[q] : Ref(x) \notin share'[p] /\ (x \in del'[p] => q = p)
              /\ \A x \in ins'[q], y \in ins'[p] : Clash(x, y) => q = p
    <2>1. CASE q # r /\ p # r
      BY <1>1, <2>1 DEF Exclusive
    <2>2. CASE q = r /\ p # r
      BY <1>1, <2>2
    <2>3. CASE q # r /\ p = r
      BY <1>1, <2>3
    <2>4. CASE q = r /\ p = r
      BY <1>2, <2>4
    <2>5. QED
      BY <2>1, <2>2, <2>3, <2>4
  <1>4. QED
    BY <1>3 DEF Exclusive

\* Who commits has checked every foreign key of what it has inserted.
LEMMA CommitSafe ==
  ASSUME IInv, NEW r \in Requests, Commit(r)
  PROVE  /\ \A x \in ins[r] : \A i \in DOMAIN Parents(x) : Parents(x)[i] \in share[r]
         /\ \A p \in share[r] : \E y \in rows : Ref(y) = p
         /\ \A x \in ins[r], y \in rows : ~Clash(x, y) /\ ~Clash(y, x)
         /\ ins[r] \subseteq {goal[r]} /\ (ins[r] # {} => op[r] = "create" /\ del[r] = {})
         /\ share[r] # {} => del[r] = {}
         /\ \A x \in del[r], y \in rows \ del[r] : ~Refers(y, x)
         /\ \A q \in Requests \ {r} :
              op[q] \in Ops \ {"purge"} /\ ins[r] # {} => goal[q] # goal[r]
  <1>1. todo[r] = <<>> /\ pc[r] = "run"
    BY DEF Commit
  <1>2. Holds(r) /\ Placed(r) /\ Fresh(r) /\ Childless(r)
    BY DEF IInv, TInv, RowsInv, WorkInv
  <1>3. \A x \in ins[r] : \A i \in DOMAIN Parents(x) : Parents(x)[i] \in share[r]
    BY <1>1, <1>2 DEF Placed
  <1>4. \A x \in ins[r], y \in rows : ~Clash(x, y) /\ ~Clash(y, x)
    BY <1>2, ClashSymmetric DEF Placed
  <1>5. ins[r] \subseteq {goal[r]} /\ (ins[r] # {} \/ share[r] # {} => op[r] = "create" /\ del[r] = {})
    BY <1>2 DEF Holds, Deletions
  <1>6. \A x \in del[r], y \in rows \ del[r] : ~Refers(y, x)
    BY <1>1, <1>2 DEF Childless
  <1>7. QED
    BY <1>1, <1>2, <1>3, <1>4, <1>5, <1>6 DEF Placed, Fresh

LEMMA ConsistentStep ==
  ASSUME IInv, NEW r \in Requests, Acts(r)
  PROVE  Consistent(rows')
  <1>0. Consistent(rows)
    BY DEF IInv, RowsInv
  <1>1. CASE UNCHANGED rows
    BY <1>0, <1>1
  <1>2. CASE Commit(r)
    <2>0. TInv
      BY DEF IInv
    <2>1. rows' = (rows \ del[r]) \cup ins[r]
      BY <1>2, <2>0, CommitDoes
    <2>2. ASSUME NEW y \in rows', NEW i \in DOMAIN Parents(y)
         PROVE  \E x \in rows' : Ref(x) = Parents(y)[i]
      <3>1. CASE y \in ins[r]
        <4>1. \E x \in rows : Ref(x) = Parents(y)[i]
          BY <1>2, <3>1, CommitSafe
        <4>2. del[r] = {}
          BY <1>2, <3>1, CommitSafe
        <4>3. QED
          BY <2>1, <4>1, <4>2
      <3>2. CASE y \in rows \ del[r]
        <4>1. PICK x \in rows : Ref(x) = Parents(y)[i]
          BY <1>0, <3>2 DEF Consistent
        <4>2. Refers(y, x)
          BY <4>1 DEF Refers
        <4>3. x \notin del[r]
          BY <1>2, <3>2, <4>2, CommitSafe
        <4>4. QED
          BY <2>1, <4>1, <4>3
      <3>3. QED
        BY <2>1, <3>1, <3>2
    <2>3. ASSUME NEW x \in rows', NEW y \in rows', Clash(x, y)
         PROVE  x = y
      <3>1. CASE x \in rows /\ y \in rows
        BY <1>0, <2>3, <3>1 DEF Consistent
      <3>2. CASE x \in ins[r] /\ y \in ins[r]
        BY <1>2, <3>2, CommitSafe
      <3>3. CASE (x \in ins[r] /\ y \in rows) \/ (x \in rows /\ y \in ins[r])
        BY <1>2, <2>3, <3>3, CommitSafe
      <3>4. QED
        BY <2>1, <3>1, <3>2, <3>3
    <2>4. QED
      BY <2>2, <2>3 DEF Consistent
  <1>3. QED
    BY <1>1, <1>2, OnlyCommits

LEMMA PlacedFrame ==
  ASSUME IInv, NEW r \in Requests, Acts(r), NEW q \in Requests, q # r
  PROVE  Placed(q)'
  <1>0. TInv /\ Placed(q) /\ Exclusive
    BY DEF IInv, RowsInv
  <1>1. Untouched(q)
    BY <1>0, Frame
  <1>2. CASE UNCHANGED rows
    BY <1>0, <1>1, <1>2 DEF Placed, Untouched
  <1>3. CASE Commit(r)
    <2>1. rows' = (rows \ del[r]) \cup ins[r]
      BY <1>0, <1>3, CommitDoes
    <2>2. del'[q] \subseteq rows'
      BY <1>0, <1>1, <2>1 DEF Placed, Exclusive, Untouched
    <2>3. ASSUME NEW p \in share'[q]
         PROVE  \E y \in rows' : Ref(y) = p
      <3>1. PICK y \in rows : Ref(y) = p
        BY <1>0, <1>1 DEF Placed, Untouched
      <3>2. y \notin del[r]
        BY <1>0, <1>1, <3>1 DEF Exclusive, Untouched
      <3>3. QED
        BY <2>1, <3>1, <3>2
    <2>4. ASSUME NEW x \in ins'[q], NEW y \in rows'
         PROVE  ~Clash(x, y)
      BY <1>0, <1>1, <2>1 DEF Placed, Exclusive, Untouched
    <2>5. QED
      BY <1>0, <1>1, <2>2, <2>3, <2>4 DEF Placed, Untouched
  <1>4. QED
    BY <1>2, <1>3, <1>0, OnlyCommits

LEMMA PlacedStep ==
  ASSUME IInv, TInv', NEW r \in Requests, Acts(r)
  PROVE  Placed(r)'
  <1>0. TInv /\ Placed(r) /\ Stage(r) /\ Holds(r) /\ Holds(r)'
    BY DEF IInv, RowsInv, TInv
  <1>1. ASSUME NEW x \in Universe, NEW k, NEW next, NEW program, Launch(r, k, x, next, program)
       PROVE  Placed(r)'
    <2>1. /\ ins[r] = {} /\ del[r] = {} /\ share[r] = {}
          /\ KeepsLocks(r)
      BY <1>0, <1>1, LaunchDoes DEF Holds, Active
    <2>2. QED
      BY <2>1 DEF Placed, KeepsLocks
  <1>2. CASE ReadTeams(r)
    <2>1. /\ ins[r] = {} /\ del[r] = {} /\ share[r] = {}
          /\ KeepsLocks(r)
      BY <1>0, <1>2, ReadTeamsDoes DEF Holds, Active
    <2>2. QED
      BY <2>1 DEF Placed, KeepsLocks
  <1>3. ASSUME NEW S, Deletes(r, S)
       PROVE  Placed(r)'
    <2>1. op[r] # "create"
      BY <1>0, <1>3, KindOf, DeletesDoes DEF Deletes, Stage, Deletions
    <2>2. /\ ins[r] = {} /\ share[r] = {} /\ ins'[r] = ins[r] /\ share'[r] = share[r] /\ rows' = rows
      BY <1>0, <1>3, <2>1, DeletesDoes DEF KeepsLocks, KeepsRows, Holds
    <2>3. del'[r] \subseteq rows
      BY <1>0, <1>3, DeletesDoes DEF Deletes, KeepsLocks, Placed
    <2>4. QED
      BY <2>2, <2>3 DEF Placed
  <1>4. ASSUME NEW S, Waits(r, S)
       PROVE  Placed(r)'
    <2>1. op[r] # "create"
      BY <1>0, <1>4, KindOf, WaitsDoes DEF Waits, Stage, Deletions
    <2>2. /\ ins[r] = {} /\ share[r] = {} /\ ins'[r] = ins[r] /\ share'[r] = share[r] /\ rows' = rows
      BY <1>0, <1>4, <2>1, WaitsDoes DEF KeepsLocks, KeepsRows, Holds
    <2>3. del'[r] \subseteq rows
      BY <1>0, <1>4, WaitsDoes DEF Waits, KeepsLocks, Placed
    <2>4. QED
      BY <2>2, <2>3 DEF Placed
  <1>5. CASE CheckOrphans(r)
    <2>1. op[r] # "create"
      BY <1>0, <1>5, KindOf, CheckDoes DEF CheckOrphans, Stage, Deletions
    <2>2. /\ ins[r] = {} /\ share[r] = {} /\ ins'[r] = ins[r] /\ share'[r] = share[r] /\ rows' = rows
      BY <1>0, <1>5, <2>1, CheckDoes DEF KeepsLocks, KeepsRows, Holds
    <2>3. del'[r] \subseteq rows
      BY <1>0, <1>5, CheckDoes DEF CheckOrphans, KeepsLocks, Placed
    <2>4. QED
      BY <2>2, <2>3 DEF Placed
  <1>6. ASSUME NEW x, Inserts(r, x)
       PROVE  Placed(r)'
    <2>1. /\ todo[r] # <<>> /\ pc[r] = "run" /\ rows' = rows /\ ins'[r] = ins[r] \cup {x}
          /\ del'[r] = del[r] /\ share'[r] = share[r]
      BY <1>0, <1>6, InsertsDoes DEF Inserts, KeepsRows
    <2>2. x = goal[r] /\ x \in Universe
      BY <1>0, <1>6, KindOf DEF Inserts
    <2>3. ins'[r] = {x}
      BY <1>0, <2>1, <2>2 DEF Holds
    <2>4. \A y \in rows : ~Clash(x, y)
      BY <1>6 DEF Inserts
    <2> DEFINE shares == [i \in DOMAIN Parents(x) |-> Share(Parents(x)[i])]
               rest == Tail(todo[r])
    <2>5. todo'[r] = shares \o rest
      BY <1>0, <1>6, InsertsDoes
    <2>6. shares \in Seq(Statement) /\ rest \in Seq(Statement)
      BY <1>0, <2>1, <2>2, SharesTyped, TodoTail
    <2>7. ASSUME NEW i \in DOMAIN Parents(x)
         PROVE  \E j \in DOMAIN todo'[r] : todo'[r][j] = Share(Parents(x)[i])
      <3> DEFINE s == Share(Parents(x)[i])
      <3>1. Among(s, shares)
        BY DEF Among
      <3> HIDE DEF shares, rest, s
      <3>2. Among(s, shares \o rest)
        BY <2>6, <3>1, ConcatHolds
      <3>3. QED
        BY <2>5, <3>2 DEF Among, s
    <2>8. QED
      BY <1>0, <2>1, <2>3, <2>4, <2>7 DEF Placed
  <1>7. ASSUME NEW x, Updates(r, x)
       PROVE  Placed(r)'
    <2>1. op[r] # "create"
      BY <1>0, <1>7, KindOf, UpdatesDoes DEF Updates, Stage, Deletions
    <2>2. /\ ins[r] = {} /\ share[r] = {} /\ ins'[r] = ins[r] /\ share'[r] = share[r] /\ rows' = rows
      BY <1>0, <1>7, <2>1, UpdatesDoes DEF KeepsLocks, KeepsRows, Holds
    <2>3. del'[r] \subseteq rows
      BY <1>0, <1>7, UpdatesDoes DEF Updates, KeepsLocks, Placed
    <2>4. QED
      BY <2>2, <2>3 DEF Placed
  <1>8. ASSUME NEW p, Shares(r, p)
       PROVE  Placed(r)'
    <2>1. /\ todo[r] # <<>> /\ pc[r] = "run" /\ rows' = rows /\ ins'[r] = ins[r] /\ del'[r] = del[r]
          /\ share'[r] = share[r] \cup {p} /\ todo'[r] = Tail(todo[r])
      BY <1>0, <1>8, SharesDoes DEF KeepsRows
    <2>2. p = todo[r][1].ref /\ (\E y \in rows : Ref(y) = p)
      BY <1>8 DEF Shares
    <2>3. ASSUME NEW x \in ins[r], NEW i \in DOMAIN Parents(x)
         PROVE  \/ Parents(x)[i] \in share'[r]
                \/ \E j \in DOMAIN todo'[r] : todo'[r][j] = Share(Parents(x)[i])
      <3>1. CASE Parents(x)[i] \in share[r]
        BY <2>1, <3>1
      <3>2. ASSUME NEW j \in DOMAIN todo[r], todo[r][j] = Share(Parents(x)[i])
           PROVE  \/ Parents(x)[i] \in share'[r]
                  \/ \E l \in DOMAIN todo'[r] : todo'[r][l] = Share(Parents(x)[i])
        <4>1. CASE j = 1
          BY <2>1, <2>2, <3>2, <4>1 DEF Share
        <4>2. CASE j # 1
          <5>1. j - 1 \in DOMAIN Tail(todo[r]) /\ Tail(todo[r])[j - 1] = todo[r][j]
            BY <1>0, <2>1, <4>2, TodoTail
          <5>2. QED
            BY <2>1, <3>2, <5>1
        <4>3. QED
          BY <4>1, <4>2
      <3>3. QED
        BY <1>0, <3>1, <3>2 DEF Placed
    <2>4. QED
      BY <1>0, <2>1, <2>2, <2>3 DEF Placed
  <1>9. ASSUME NEW why, Fails(r, why)
       PROVE  Placed(r)'
    <2>1. ins'[r] = {} /\ del'[r] = {} /\ share'[r] = {}
      BY <1>0, <1>9, FailsDoes DEF LocksGone
    <2>2. QED
      BY <2>1 DEF Placed
  <1>10. CASE Commit(r)
    <2>1. ins'[r] = {} /\ del'[r] = {} /\ share'[r] = {}
      BY <1>0, <1>10, CommitDoes DEF LocksGone
    <2>2. QED
      BY <2>1 DEF Placed
  <1>11. CASE Refresh(r)
    <2>1. /\ ins[r] = {} /\ del[r] = {} /\ share[r] = {}
          /\ KeepsLocks(r)
      BY <1>0, <1>11, RefreshDoes DEF Holds, Active
    <2>2. QED
      BY <2>1 DEF Placed, KeepsLocks
  <1>12. QED
    BY <1>1, <1>2, <1>3, <1>4, <1>5, <1>6, <1>7, <1>8, <1>9, <1>10, <1>11 DEF Acts

LEMMA FreshFrame ==
  ASSUME IInv, NEW r \in Requests, Acts(r), NEW q \in Requests, q # r,
         op[q] = "create" /\ pc[q] = "run" => goal'[r] # goal[q] \/ op'[r] \notin Ops \ {"purge"}
  PROVE  Fresh(q)'
  <1>0. TInv /\ Fresh(q) /\ used \subseteq used'
    BY OnlyCommits DEF IInv, RowsInv
  <1>1. Untouched(q)
    BY <1>0, Frame
  <1>2. ASSUME op[q] = "create", pc[q] = "run", NEW p \in Requests \ {q}, op'[p] \in Ops \ {"purge"}
       PROVE  goal'[p] # goal[q]
    <2>1. CASE p = r
      BY <1>2, <2>1
    <2>2. CASE p # r
      <3>1. Untouched(p)
        BY <1>0, <2>2, Frame
      <3>2. QED
        BY <1>0, <1>2, <3>1 DEF Fresh, Untouched
    <2>3. QED
      BY <2>1, <2>2
  <1>3. CASE UNCHANGED <<rows, late>>
    BY <1>0, <1>1, <1>2, <1>3 DEF Fresh, Untouched
  <1>4. CASE Commit(r)
    <2>1. /\ rows' = (rows \ del[r]) \cup ins[r]
          /\ late'[q] = IF pc[q] # "idle" THEN late[q] \cup ins[r] ELSE late[q]
      BY <1>0, <1>4, CommitDoes
    <2>2. op[q] \in Ops \ {"purge"} => goal[q] \notin ins[r]
      BY <1>4, CommitSafe
    <2>3. "create" \in Ops \ {"purge"} /\ {"delete"} \cup Cascading \subseteq Ops \ {"purge"}
      BY DEF Ops, Cascading
    <2>4. op[q] = "create" /\ pc[q] = "run" => goal[q] \notin rows'
      BY <1>0, <2>1, <2>2, <2>3 DEF Fresh
    <2>5. op[q] \in {"delete"} \cup Cascading => goal[q] \notin late'[q]
      BY <1>0, <2>1, <2>2, <2>3 DEF Fresh
    <2>6. QED
      BY <1>0, <1>1, <1>2, <2>1, <2>4, <2>5 DEF Fresh, Untouched
  <1>5. QED
    BY <1>0, <1>3, <1>4, OnlyCommits

\* Whoever goes on with what it does does it to the row it began with.
LEMMA FreshKept ==
  ASSUME IInv, NEW r \in Requests, Acts(r), KeepsGoal(r), late'[r] = late[r],
         pc'[r] # "idle", UNCHANGED rows \/ pc'[r] # "run",
         op[r] = "create" /\ pc'[r] = "run" => pc[r] = "run",
         NEW q \in Requests
  PROVE  Fresh(q)'
  <1>0. TInv /\ Fresh(r) /\ Fresh(q) /\ used \subseteq used'
    BY OnlyCommits DEF IInv, RowsInv
  <1>1. CASE q # r
    <2>1. op[q] = "create" /\ pc[q] = "run" => goal'[r] # goal[q] \/ op'[r] \notin Ops \ {"purge"}
      BY <1>0, <1>1 DEF Fresh, KeepsGoal
    <2>2. QED
      BY <1>1, <2>1, FreshFrame
  <1>2. CASE q = r
    <2>1. \A p \in Requests \ {r} : op'[p] = op[p] /\ goal'[p] = goal[p]
      BY <1>0, Frame DEF Untouched
    <2>2. QED
      BY <1>0, <1>2, <2>1 DEF Fresh, KeepsGoal
  <1>3. QED
    BY <1>1, <1>2

LEMMA FreshStep ==
  ASSUME IInv, NEW r \in Requests, Acts(r), NEW q \in Requests
  PROVE  Fresh(q)'
  <1>0. TInv /\ Fresh(r) /\ Stage(r) /\ used \subseteq used'
    BY OnlyCommits DEF IInv, RowsInv, TInv
  <1>1. ASSUME NEW x \in Universe, NEW k, NEW next, NEW program, Launch(r, k, x, next, program)
       PROVE  Fresh(q)'
    <2>1. /\ pc[r] = "idle" /\ op'[r] = k /\ goal'[r] = x /\ rows' = rows /\ late' = late /\ pc'[r] = next
      BY <1>0, <1>1, LaunchDoes DEF KeepsRows
    <2>2. \/ k = "create" /\ x \notin used /\ x \in used'
          \/ k \in {"update", "delete", "delete_team", "delete_org"} /\ x \in rows
          \/ k = "purge"
      BY <1>1 DEF Launch
    <2>3. next # "idle" /\ late[r] = {} /\ rows \subseteq used
      <3>1. next # "idle"
        BY <1>1 DEF Launch
      <3>2. QED
        BY <1>0, <2>1, <3>1 DEF Fresh, TInv, HeldTypes
    <2>4. ASSUME NEW p \in Requests
         PROVE  /\ op[p] \in Ops \ {"purge"} => goal[p] \in used
                /\ op[p] = "create" /\ pc[p] = "run" => goal[p] \notin rows
      BY DEF IInv, RowsInv, Fresh
    <2>5. CASE q # r
      <3>1. op[q] = "create" /\ pc[q] = "run" => goal'[r] # goal[q] \/ op'[r] \notin Ops \ {"purge"}
        BY <2>1, <2>2, <2>4 DEF Ops
      <3>2. QED
        BY <2>5, <3>1, FreshFrame
    <2>6. CASE q = r
      <3>1. \A p \in Requests \ {r} : op'[p] = op[p] /\ goal'[p] = goal[p]
        BY <1>0, Frame DEF Untouched
      <3>2. k = "create" => x \notin rows /\ \A p \in Requests \ {r} : op[p] \in Ops \ {"purge"} => goal[p] # x
        BY <2>2, <2>3, <2>4
      <3>3. k \in Ops \ {"purge"} => x \in used'
        BY <1>0, <2>2, <2>3
      <3>4. QED
        BY <2>1, <2>3, <2>6, <3>1, <3>2, <3>3 DEF Fresh
    <2>7. QED
      BY <2>5, <2>6
  <1>2. CASE ReadTeams(r)
    <2>1. /\ KeepsGoal(r) /\ late'[r] = late[r] /\ pc'[r] # "idle"
          /\ UNCHANGED rows \/ pc'[r] # "run"
          /\ op[r] = "create" /\ pc'[r] = "run" => pc[r] = "run"
      BY <1>0, <1>2, ReadTeamsDoes DEF KeepsRows, Stage, Deletions
    <2>2. QED
      BY <2>1, FreshKept
  <1>3. ASSUME NEW S, Deletes(r, S)
       PROVE  Fresh(q)'
    <2>1. /\ KeepsGoal(r) /\ late'[r] = late[r] /\ pc'[r] # "idle"
          /\ UNCHANGED rows \/ pc'[r] # "run"
          /\ op[r] = "create" /\ pc'[r] = "run" => pc[r] = "run"
      BY <1>0, <1>3, DeletesDoes DEF KeepsRows, Stage, Deletions, Deletes
    <2>2. QED
      BY <2>1, FreshKept
  <1>4. ASSUME NEW S, Waits(r, S)
       PROVE  Fresh(q)'
    <2>1. /\ KeepsGoal(r) /\ late'[r] = late[r] /\ pc'[r] # "idle"
          /\ UNCHANGED rows \/ pc'[r] # "run"
          /\ op[r] = "create" /\ pc'[r] = "run" => pc[r] = "run"
      BY <1>0, <1>4, WaitsDoes DEF KeepsRows, Stage, Deletions
    <2>2. QED
      BY <2>1, FreshKept
  <1>5. CASE CheckOrphans(r)
    <2>1. /\ KeepsGoal(r) /\ late'[r] = late[r] /\ pc'[r] # "idle"
          /\ UNCHANGED rows \/ pc'[r] # "run"
          /\ op[r] = "create" /\ pc'[r] = "run" => pc[r] = "run"
      BY <1>0, <1>5, CheckDoes DEF KeepsRows, Stage, Deletions
    <2>2. QED
      BY <2>1, FreshKept
  <1>6. ASSUME NEW x, Inserts(r, x)
       PROVE  Fresh(q)'
    <2>1. /\ KeepsGoal(r) /\ late'[r] = late[r] /\ pc'[r] # "idle"
          /\ UNCHANGED rows \/ pc'[r] # "run"
          /\ op[r] = "create" /\ pc'[r] = "run" => pc[r] = "run"
      BY <1>0, <1>6, InsertsDoes DEF KeepsRows, Stage, Deletions
    <2>2. QED
      BY <2>1, FreshKept
  <1>7. ASSUME NEW x, Updates(r, x)
       PROVE  Fresh(q)'
    <2>1. /\ KeepsGoal(r) /\ late'[r] = late[r] /\ pc'[r] # "idle"
          /\ UNCHANGED rows \/ pc'[r] # "run"
          /\ op[r] = "create" /\ pc'[r] = "run" => pc[r] = "run"
      BY <1>0, <1>7, UpdatesDoes DEF KeepsRows, Stage, Deletions
    <2>2. QED
      BY <2>1, FreshKept
  <1>8. ASSUME NEW p, Shares(r, p)
       PROVE  Fresh(q)'
    <2>1. /\ KeepsGoal(r) /\ late'[r] = late[r] /\ pc'[r] # "idle"
          /\ UNCHANGED rows \/ pc'[r] # "run"
          /\ op[r] = "create" /\ pc'[r] = "run" => pc[r] = "run"
      BY <1>0, <1>8, SharesDoes DEF KeepsRows, Stage, Deletions
    <2>2. QED
      BY <2>1, FreshKept
  <1>9. ASSUME NEW why, Fails(r, why)
       PROVE  Fresh(q)'
    <2>1. /\ KeepsGoal(r) /\ late'[r] = late[r] /\ pc'[r] # "idle"
          /\ UNCHANGED rows \/ pc'[r] # "run"
          /\ op[r] = "create" /\ pc'[r] = "run" => pc[r] = "run"
      BY <1>0, <1>9, FailsDoes DEF KeepsRows, Stage, Deletions
    <2>2. QED
      BY <2>1, FreshKept
  <1>10. CASE Commit(r)
    <2>1. /\ KeepsGoal(r) /\ late'[r] = late[r] /\ pc'[r] # "idle"
          /\ UNCHANGED rows \/ pc'[r] # "run"
          /\ op[r] = "create" /\ pc'[r] = "run" => pc[r] = "run"
      BY <1>0, <1>10, CommitDoes DEF KeepsRows, Stage, Deletions
    <2>2. QED
      BY <2>1, FreshKept
  <1>11. CASE Refresh(r)
    <2>1. /\ KeepsGoal(r) /\ late'[r] = late[r] /\ pc'[r] # "idle"
          /\ UNCHANGED rows \/ pc'[r] # "run"
          /\ op[r] = "create" /\ pc'[r] = "run" => pc[r] = "run"
      BY <1>0, <1>11, RefreshDoes DEF KeepsRows, Stage, Deletions
    <2>2. QED
      BY <2>1, FreshKept
  <1>12. QED
    BY <1>1, <1>2, <1>3, <1>4, <1>5, <1>6, <1>7, <1>8, <1>9, <1>10, <1>11 DEF Acts

LEMMA RowsStep ==
  ASSUME IInv, NEW r \in Requests, Acts(r)
  PROVE  TInv' /\ RowsInv'
  <1>1. TInv /\ RowsInv /\ Exclusive
    BY DEF IInv, RowsInv
  <1>2. TInv'
    BY <1>1, TStep
  <1>3. Exclusive'
    BY <1>1, <1>2, ExclusiveStep
  <1>4. Consistent(rows')
    BY ConsistentStep
  <1>5. \A q \in Requests : Placed(q)'
    <2>1. ASSUME NEW q \in Requests
         PROVE  Placed(q)'
      <3>1. CASE q = r
        BY <1>2, <3>1, PlacedStep
      <3>2. CASE q # r
        BY <3>2, PlacedFrame
      <3>3. QED
        BY <3>1, <3>2
    <2>2. QED
      BY <2>1
  <1>6. \A q \in Requests : Fresh(q)'
    BY FreshStep
  <1>7. QED
    BY <1>2, <1>3, <1>4, <1>5, <1>6 DEF RowsInv

-----------------------------------------------------------------------------
(***************************************************************************)
(* How far the deletions are.                                              *)
(***************************************************************************)
WorkOf(r) == Covers(r) /\ Ordered(r) /\ Childless(r) /\ Told(r)

\* What another one commits is new to a deletion that is going on, and refers
\* to nothing that it has deleted.
LEMMA WorkFrame ==
  ASSUME IInv, NEW r \in Requests, Acts(r), NEW q \in Requests, q # r
  PROVE  WorkOf(q)'
  <1>0. TInv /\ WorkOf(q) /\ Exclusive /\ Fresh(q) /\ Stage(q)
    BY DEF IInv, RowsInv, WorkInv, TInv, WorkOf
  <1>1. Untouched(q)
    BY <1>0, Frame
  <1>2. CASE UNCHANGED <<rows, late>>
    <2>1. Old(q)' = Old(q)
      BY <1>1, <1>2 DEF Old, Untouched
    <2>2. \A x : Mine(q, x)' <=> Mine(q, x)
      BY <1>1 DEF Mine, Untouched
    <2>3. Active(q)' <=> Active(q)
      BY <1>1 DEF Active, Untouched
    <2>4. Covers(q)'
      BY <1>0, <1>1, <2>1, <2>2, <2>3 DEF WorkOf, Covers, Untouched
    <2>5. Ordered(q)'
      BY <1>0, <1>1, <2>1 DEF WorkOf, Ordered, Untouched
    <2>6. Childless(q)' /\ Told(q)'
      BY <1>0, <1>1, <1>2, <2>1 DEF WorkOf, Childless, Told, Untouched
    <2>7. QED
      BY <2>4, <2>5, <2>6 DEF WorkOf
  <1>3. CASE Commit(r)
    <2>1. /\ rows' = (rows \ del[r]) \cup ins[r]
          /\ late'[q] = IF pc[q] # "idle" THEN late[q] \cup ins[r] ELSE late[q]
      BY <1>0, <1>3, CommitDoes
    <2>2. pc[q] # "idle" => Old(q)' \subseteq Old(q)
      BY <1>1, <2>1 DEF Old, Untouched
    <2>3. \A x : Mine(q, x)' <=> Mine(q, x)
      BY <1>1 DEF Mine, Untouched
    <2>4. op[q] \in {"delete"} \cup Cascading => pc[q] # "idle"
      BY <1>0 DEF Stage, Cascading
    <2>5. Covers(q)'
      <3>1. Active(q)' <=> Active(q)
        BY <1>1 DEF Active, Untouched
      <3>2. pc[q] \in {"wait", "check"} => pc[q] # "idle"
        OBVIOUS
      <3>3. QED
        BY <1>0, <1>1, <2>2, <2>3, <2>4, <3>1, <3>2 DEF WorkOf, Covers, Untouched
    <2>6. Ordered(q)'
      BY <1>0, <1>1, <2>2, <2>4 DEF WorkOf, Ordered, Untouched
    <2>7. Childless(q)'
      <3>1. \A x \in del[q], y \in ins[r] : ~Refers(y, x)
        <4>1. ASSUME NEW x \in del[q], NEW y \in ins[r], Refers(y, x)
             PROVE  Ref(x) \in share[r]
          BY <1>3, <4>1, CommitSafe DEF Refers
        <4>2. \A x \in del[q] : Ref(x) \notin share[r]
          BY <1>0 DEF Exclusive
        <4>3. QED
          BY <4>1, <4>2
      <3>2. op[q] \in Cascading => \A x \in del[q], y \in Old(q)' : Refers(y, x) => y.table = "sso_configs"
        BY <1>0, <2>2, <2>4 DEF WorkOf, Childless
      <3>3. pc[q] = "run" => \A x \in del[q], y \in rows' \ del[q] : ~Refers(y, x)
        BY <1>0, <2>1, <3>1 DEF WorkOf, Childless
      <3>4. pc[q] = "wait" => \A x \in del[q] \ want[q], y \in rows' \ del[q] : ~Refers(y, x)
        BY <1>0, <2>1, <3>1 DEF WorkOf, Childless
      <3>5. QED
        BY <1>1, <3>2, <3>3, <3>4 DEF Childless, Untouched
    <2>8. Told(q)'
      <3>1. op[q] \in {"delete"} \cup Cascading => goal[q] \notin ins[r]
        BY <1>3, CommitSafe DEF Cascading, Ops
      <3>2. late[q] \subseteq late'[q]
        BY <2>1
      <3>3. QED
        BY <1>0, <1>1, <2>1, <3>1, <3>2 DEF WorkOf, Told, Untouched
    <2>9. QED
      BY <2>5, <2>6, <2>7, <2>8 DEF WorkOf
  <1>4. QED
    BY <1>0, <1>2, <1>3, OnlyCommits

\* Only a team, an organization or a user is referred to.
LEMMA Referred ==
  ASSUME NEW x \in Universe, NEW y \in Universe, Refers(y, x)
  PROVE  /\ x.table = "teams" => y.team = x.id /\ y.table \in {"projects", "api_keys", "team_memberships"}
         /\ x.table = "organizations" =>
              y.org = x.id /\ y.table \in {"teams", "api_keys", "org_memberships", "sso_configs"}
         /\ x.table \in {"teams", "organizations", "users"}
  <1>1. x.id # None /\ WellFormed(y)
    BY DEF WellFormed
  <1>2. QED
    BY <1>1, RefersTo DEF WellFormed

LEMMA TeamStatements ==
  ASSUME NEW n
  PROVE  /\ DOMAIN TeamCascade(n) = 1..4
         /\ TeamCascade(n)[1] = Delete("api_keys", "team", {n})
         /\ TeamCascade(n)[2] = Delete("projects", "team", {n})
         /\ TeamCascade(n)[3] = Delete("team_memberships", "team", {n})
         /\ TeamCascade(n)[4] = Delete("teams", "id", {n})
  <1> HIDE DEF Delete
  <1>1. QED
    BY DEF TeamCascade

LEMMA TeamWorks ==
  ASSUME NEW g \in Universe, g.table = "teams", NEW y \in Universe
  PROVE  /\ Doomed("delete_team", g, y) => \E i \in DOMAIN TeamCascade(g.id) : Hits(TeamCascade(g.id)[i], y)
         /\ \A x \in Universe : Refers(y, x) =>
              \A j \in DOMAIN TeamCascade(g.id) : Hits(TeamCascade(g.id)[j], x) =>
                \E i \in DOMAIN TeamCascade(g.id) : i < j /\ Hits(TeamCascade(g.id)[i], y)
  <1> DEFINE P == TeamCascade(g.id)
  <1>1. /\ \A x : Hits(P[1], x) <=> x.table = "api_keys" /\ x.team = g.id
        /\ \A x : Hits(P[2], x) <=> x.table = "projects" /\ x.team = g.id
        /\ \A x : Hits(P[3], x) <=> x.table = "team_memberships" /\ x.team = g.id
        /\ \A x : Hits(P[4], x) <=> x.table = "teams" /\ x.id = g.id
    <2>1. /\ P[1] = Delete("api_keys", "team", {g.id}) /\ P[2] = Delete("projects", "team", {g.id})
          /\ P[3] = Delete("team_memberships", "team", {g.id}) /\ P[4] = Delete("teams", "id", {g.id})
      BY TeamStatements
    <2> HIDE DEF P
    <2>2. ASSUME NEW t, NEW x
         PROVE  /\ Hits(Delete(t, "team", {g.id}), x) <=> x.table = t /\ x.team = g.id
                /\ Hits(Delete(t, "id", {g.id}), x) <=> x.table = t /\ x.id = g.id
      BY HitsDelete
    <2>3. QED
      BY <2>1, <2>2
  <1>2. DOMAIN P = 1..4
    BY TeamStatements
  <1> HIDE DEF P
  <1>3. \A j \in 1..4 : j = 1 \/ j = 2 \/ j = 3 \/ j = 4
    OBVIOUS
  <1>4. ASSUME y.team = g.id, y.table \in {"projects", "api_keys", "team_memberships"}
       PROVE  \E i \in DOMAIN P : i < 4 /\ Hits(P[i], y)
    <2>1. Hits(P[1], y) \/ Hits(P[2], y) \/ Hits(P[3], y)
      BY <1>1, <1>4
    <2>2. QED
      BY <1>2, <2>1
  <1>5. ASSUME Doomed("delete_team", g, y)
       PROVE  \E i \in DOMAIN P : Hits(P[i], y)
    <2>1. CASE y = g
      <3>1. Hits(P[4], y)
        BY <1>1, <2>1
      <3>2. QED
        BY <1>2, <3>1
    <2>2. CASE Refers(y, g)
      BY <1>4, <2>2, Referred
    <2>3. ASSUME NEW t \in Universe, t.table = "teams", Refers(t, g)
         PROVE  FALSE
      BY <2>3, Referred
    <2>4. QED
      BY <1>5, <2>1, <2>2, <2>3 DEF Doomed, Cascading
  <1>6. ASSUME NEW x \in Universe, Refers(y, x), NEW j \in DOMAIN P, Hits(P[j], x)
       PROVE  \E i \in DOMAIN P : i < j /\ Hits(P[i], y)
    <2>1. x.table \in {"teams", "organizations", "users"}
      BY <1>6, Referred
    <2>2. j = 4 /\ x.table = "teams" /\ x.id = g.id
      BY <1>1, <1>2, <1>3, <1>6, <2>1
    <2>3. y.team = g.id /\ y.table \in {"projects", "api_keys", "team_memberships"}
      BY <1>6, <2>2, Referred
    <2>4. QED
      BY <1>4, <2>2, <2>3
  <1>7. QED
    BY <1>5, <1>6 DEF P

LEMMA OrgStatements ==
  ASSUME NEW o, NEW T
  PROVE  \E n \in {0, 4} :
           LET P == OrgCascade(o, T)
           IN /\ DOMAIN P = 1..(n + 3)
              /\ P[n + 1] = Delete("api_keys", "org", {o})
              /\ P[n + 2] = Delete("org_memberships", "org", {o})
              /\ P[n + 3] = Delete("organizations", "id", {o})
              /\ n = 0 => T = {}
              /\ n = 4 => /\ P[1] = Delete("api_keys", "team", T)
                          /\ P[2] = Delete("projects", "team", T)
                          /\ P[3] = Delete("team_memberships", "team", T)
                          /\ P[4] = Delete("teams", "id", T)
  <1> HIDE DEF Delete
  <1>1. CASE T = {}
    <2>1. OrgCascade(o, T) = <<Delete("api_keys", "org", {o}),
                 Delete("org_memberships", "org", {o}), Delete("organizations", "id", {o})>>
      BY <1>1, OrgProgram
    <2>2. QED
      BY <1>1, <2>1
  <1>2. CASE T # {}
    <2>1. OrgCascade(o, T) = <<Delete("api_keys", "team", T), Delete("projects", "team", T),
                 Delete("team_memberships", "team", T), Delete("teams", "id", T),
                 Delete("api_keys", "org", {o}), Delete("org_memberships", "org", {o}),
                 Delete("organizations", "id", {o})>>
      BY <1>2, OrgProgram
    <2> DEFINE P == OrgCascade(o, T)
    <2>2. /\ DOMAIN P = 1..7
          /\ P[1] = Delete("api_keys", "team", T) /\ P[2] = Delete("projects", "team", T)
          /\ P[3] = Delete("team_memberships", "team", T) /\ P[4] = Delete("teams", "id", T)
          /\ P[5] = Delete("api_keys", "org", {o}) /\ P[6] = Delete("org_memberships", "org", {o})
          /\ P[7] = Delete("organizations", "id", {o})
      BY <2>1
    <2> HIDE DEF P
    <2>3. 4 + 1 = 5 /\ 4 + 2 = 6 /\ 4 + 3 = 7
      OBVIOUS
    <2>4. /\ DOMAIN P = 1..(4 + 3)
          /\ P[4 + 1] = Delete("api_keys", "org", {o})
          /\ P[4 + 2] = Delete("org_memberships", "org", {o})
          /\ P[4 + 3] = Delete("organizations", "id", {o})
          /\ 4 = 0 => T = {}
          /\ 4 = 4 => /\ P[1] = Delete("api_keys", "team", T)
                      /\ P[2] = Delete("projects", "team", T)
                      /\ P[3] = Delete("team_memberships", "team", T)
                      /\ P[4] = Delete("teams", "id", T)
      BY <2>2, <2>3
    <2>5. QED
      BY <2>4 DEF P
  <1>3. QED
    BY <1>1, <1>2

LEMMA OrgWorks ==
  ASSUME rows \subseteq Universe, Consistent(rows), NEW g \in Universe, g.table = "organizations",
         NEW y \in rows
  PROVE  LET P == OrgCascade(g.id, TeamIds(g))
         IN /\ Doomed("delete_org", g, y) => \E i \in DOMAIN P : Hits(P[i], y)
            /\ \A x \in Universe : Refers(y, x) /\ y.table # "sso_configs" =>
                 \A j \in DOMAIN P : Hits(P[j], x) => \E i \in DOMAIN P : i < j /\ Hits(P[i], y)
  <1> DEFINE T == TeamIds(g)
             P == OrgCascade(g.id, T)
  <1>1. PICK n \in {0, 4} :
          /\ DOMAIN P = 1..(n + 3)
          /\ P[n + 1] = Delete("api_keys", "org", {g.id})
          /\ P[n + 2] = Delete("org_memberships", "org", {g.id})
          /\ P[n + 3] = Delete("organizations", "id", {g.id})
          /\ n = 0 => T = {}
          /\ n = 4 => /\ P[1] = Delete("api_keys", "team", T)
                      /\ P[2] = Delete("projects", "team", T)
                      /\ P[3] = Delete("team_memberships", "team", T)
                      /\ P[4] = Delete("teams", "id", T)
    BY OrgStatements
  <1>2. /\ \A t \in rows : t.table = "teams" /\ t.org = g.id => t.id \in T
        /\ \A m \in T : \E t \in rows : t.id = m /\ t.table = "teams" /\ t.org = g.id
        /\ y \in Universe
    BY DEF TeamIds
  <1> HIDE DEF P, T
  <1>0. /\ n + 1 \in DOMAIN P /\ n + 2 \in DOMAIN P /\ n + 3 \in DOMAIN P
        /\ n + 1 < n + 3 /\ n + 2 < n + 3
    BY <1>1
  <1>3. /\ \A x : Hits(P[n + 1], x) <=> x.table = "api_keys" /\ x.org = g.id
        /\ \A x : Hits(P[n + 2], x) <=> x.table = "org_memberships" /\ x.org = g.id
        /\ \A x : Hits(P[n + 3], x) <=> x.table = "organizations" /\ x.id = g.id
    <2>1. ASSUME NEW t, NEW x
         PROVE  /\ Hits(Delete(t, "org", {g.id}), x) <=> x.table = t /\ x.org = g.id
                /\ Hits(Delete(t, "id", {g.id}), x) <=> x.table = t /\ x.id = g.id
      BY HitsDelete
    <2>2. /\ P[n + 1] = Delete("api_keys", "org", {g.id})
          /\ P[n + 2] = Delete("org_memberships", "org", {g.id})
          /\ P[n + 3] = Delete("organizations", "id", {g.id})
      BY <1>1
    <2>3. /\ \A x : Hits(Delete("api_keys", "org", {g.id}), x) <=> x.table = "api_keys" /\ x.org = g.id
          /\ \A x : Hits(Delete("org_memberships", "org", {g.id}), x)
                      <=> x.table = "org_memberships" /\ x.org = g.id
          /\ \A x : Hits(Delete("organizations", "id", {g.id}), x)
                      <=> x.table = "organizations" /\ x.id = g.id
      BY <2>1
    <2>4. QED
      BY <2>2, <2>3
  <1>4. ASSUME n = 4
       PROVE  /\ \A x : Hits(P[1], x) <=> x.table = "api_keys" /\ x.team \in T
              /\ \A x : Hits(P[2], x) <=> x.table = "projects" /\ x.team \in T
              /\ \A x : Hits(P[3], x) <=> x.table = "team_memberships" /\ x.team \in T
              /\ \A x : Hits(P[4], x) <=> x.table = "teams" /\ x.id \in T
    <2>1. ASSUME NEW t, NEW x
         PROVE  /\ Hits(Delete(t, "team", T), x) <=> x.table = t /\ x.team \in T
                /\ Hits(Delete(t, "id", T), x) <=> x.table = t /\ x.id \in T
      BY HitsDelete
    <2>2. QED
      BY <1>1, <1>4, <2>1
  \* Below a team of the organization, and below the organization.
  <1>5. ASSUME y.team \in T, y.table \in {"projects", "api_keys", "team_memberships"}
       PROVE  n = 4 /\ \E i \in DOMAIN P : i < 4 /\ Hits(P[i], y)
    <2>1. n = 4
      BY <1>1, <1>5
    <2>2. Hits(P[1], y) \/ Hits(P[2], y) \/ Hits(P[3], y)
      BY <1>4, <1>5, <2>1
    <2>3. 1 \in DOMAIN P /\ 2 \in DOMAIN P /\ 3 \in DOMAIN P
      BY <1>1, <2>1
    <2>4. QED
      BY <2>1, <2>2, <2>3
  <1>6. ASSUME y.org = g.id, y.table \in {"teams", "api_keys", "org_memberships"}
       PROVE  \E i \in DOMAIN P : i < n + 3 /\ Hits(P[i], y)
    <2>1. CASE y.table = "teams"
      <3>1. y.id \in T /\ n = 4
        BY <1>1, <1>2, <1>6, <2>1
      <3>2. Hits(P[4], y) /\ 4 \in DOMAIN P /\ 4 < n + 3
        BY <1>1, <1>4, <2>1, <3>1
      <3>3. QED
        BY <3>2
    <2>2. CASE y.table = "api_keys"
      <3>1. Hits(P[n + 1], y)
        BY <1>3, <1>6, <2>2
      <3>2. QED
        BY <1>0, <3>1
    <2>3. CASE y.table = "org_memberships"
      <3>1. Hits(P[n + 2], y)
        BY <1>3, <1>6, <2>3
      <3>2. QED
        BY <1>0, <3>1
    <2>4. QED
      BY <1>6, <2>1, <2>2, <2>3
  <1>7. ASSUME Doomed("delete_org", g, y)
       PROVE  \E i \in DOMAIN P : Hits(P[i], y)
    <2>1. CASE y = g
      <3>1. Hits(P[n + 3], y)
        BY <1>3, <2>1
      <3>2. QED
        BY <1>0, <3>1
    <2>2. CASE Refers(y, g) /\ y.table # "sso_configs"
      <3>1. y.org = g.id /\ y.table \in {"teams", "api_keys", "org_memberships"}
        BY <1>2, <2>2, Referred
      <3>2. QED
        BY <1>6, <3>1
    <2>3. ASSUME NEW t \in Universe, t.table = "teams", Refers(t, g), Refers(y, t)
         PROVE  \E i \in DOMAIN P : Hits(P[i], y)
      <3>1. t \in rows
        BY <2>3, ParentThere
      <3>2. t.org = g.id
        BY <2>3, Referred
      <3>3. y.team \in T /\ y.table \in {"projects", "api_keys", "team_memberships"}
        BY <1>2, <2>3, <3>1, <3>2, Referred
      <3>4. QED
        BY <1>5, <3>3
    <2>4. QED
      BY <1>7, <2>1, <2>2, <2>3 DEF Doomed, Cascading
  <1>8. ASSUME NEW x \in Universe, Refers(y, x), y.table # "sso_configs", NEW j \in DOMAIN P, Hits(P[j], x)
       PROVE  \E i \in DOMAIN P : i < j /\ Hits(P[i], y)
    <2>1. x.table \in {"teams", "organizations", "users"}
      BY <1>2, <1>8, Referred
    <2>2. CASE j = n + 3
      <3>1. x.table = "organizations" /\ x.id = g.id
        BY <1>3, <1>8, <2>2
      <3>2. y.org = g.id /\ y.table \in {"teams", "api_keys", "org_memberships"}
        BY <1>2, <1>8, <3>1, Referred
      <3>3. QED
        BY <1>6, <2>2, <3>2
    <2>3. CASE n = 4 /\ j = 4
      <3>1. x.table = "teams" /\ x.id \in T
        BY <1>4, <1>8, <2>3
      <3>2. y.team \in T /\ y.table \in {"projects", "api_keys", "team_memberships"}
        BY <1>2, <1>8, <3>1, Referred
      <3>3. QED
        BY <1>5, <2>3, <3>2
    <2>4. CASE j = n + 1 \/ j = n + 2
      BY <1>3, <1>8, <2>1, <2>4
    <2>5. CASE n = 4 /\ (j = 1 \/ j = 2 \/ j = 3)
      BY <1>4, <1>8, <2>1, <2>5
    <2>6. j \in 1..(n + 3)
      BY <1>1, <1>8
    <2>7. \/ j = n + 1 \/ j = n + 2 \/ j = n + 3
          \/ n = 4 /\ (j = 1 \/ j = 2 \/ j = 3 \/ j = 4)
      BY <2>6
    <2>8. QED
      BY <2>2, <2>3, <2>4, <2>5, <2>7
  <1>9. QED
    BY <1>7, <1>8 DEF P, T

\* When its first statement has nothing left to find, the others do the rest.
LEMMA RestCovers ==
  ASSUME TInv, NEW r \in Requests, todo[r] # <<>>, Covers(r), Ordered(r), Active(r),
         NEW O, O \subseteq Old(r), \A y \in O : ~Hits(todo[r][1], y)
  PROVE  LET P == Tail(todo[r])
         IN /\ op[r] \in {"delete"} \cup Cascading =>
                 \A y \in O : Mine(r, y) => \E i \in DOMAIN P : Hits(P[i], y)
            /\ op[r] \in Cascading =>
                 \A y \in O, x \in Universe : Refers(y, x) /\ y.table # "sso_configs" =>
                   \A j \in DOMAIN P : Hits(P[j], x) => \E i \in DOMAIN P : i < j /\ Hits(P[i], y)
  <1> DEFINE P == Tail(todo[r])
  <1>1. /\ \A i \in DOMAIN P : i \in Nat /\ i + 1 \in DOMAIN todo[r] /\ P[i] = todo[r][i + 1]
        /\ \A i \in DOMAIN todo[r] : i = 1 \/ (i - 1 \in DOMAIN P /\ P[i - 1] = todo[r][i] /\ i \in Nat)
    BY TodoTail
  <1> HIDE DEF P
  <1>2. ASSUME NEW y \in O, NEW i \in DOMAIN todo[r], Hits(todo[r][i], y)
       PROVE  i \in Nat /\ i - 1 \in DOMAIN P /\ Hits(P[i - 1], y)
    <2>1. i # 1
      BY <1>2
    <2>2. i \in Nat /\ i - 1 \in DOMAIN P /\ P[i - 1] = todo[r][i]
      BY <1>1, <2>1
    <2>3. QED
      BY <1>2, <2>2
  <1>3. ASSUME op[r] \in {"delete"} \cup Cascading, NEW y \in O, Mine(r, y)
       PROVE  \E i \in DOMAIN P : Hits(P[i], y)
    <2>1. PICK i \in DOMAIN todo[r] : Hits(todo[r][i], y)
      BY <1>3 DEF Covers
    <2>2. QED
      BY <1>2, <2>1
  <1>4. ASSUME op[r] \in Cascading, NEW y \in O, NEW x \in Universe, Refers(y, x),
              y.table # "sso_configs", NEW j \in DOMAIN P, Hits(P[j], x)
       PROVE  \E i \in DOMAIN P : i < j /\ Hits(P[i], y)
    <2>1. j \in Nat /\ j + 1 \in DOMAIN todo[r] /\ Hits(todo[r][j + 1], x)
      <3>1. j \in Nat /\ j + 1 \in DOMAIN todo[r] /\ P[j] = todo[r][j + 1]
        BY <1>1
      <3>2. QED
        BY <1>4, <3>1
    <2>2. PICK i \in DOMAIN todo[r] : i < j + 1 /\ Hits(todo[r][i], y)
      BY <1>4, <2>1 DEF Ordered
    <2>3. i \in Nat /\ i - 1 \in DOMAIN P /\ Hits(P[i - 1], y)
      BY <1>2, <2>2
    <2>4. i - 1 < j
      BY <2>1, <2>2, <2>3
    <2>5. QED
      BY <2>3, <2>4
  <1>5. QED
    BY <1>3, <1>4 DEF P

LEMMA WorkStep ==
  ASSUME IInv, TInv', NEW r \in Requests, Acts(r)
  PROVE  WorkOf(r)'
  <1>0. /\ TInv /\ Stage(r) /\ Holds(r) /\ Placed(r) /\ Fresh(r) /\ WorkOf(r)
        /\ Stage(r)' /\ Holds(r)'
        /\ rows \subseteq Universe /\ Consistent(rows)
        /\ del[r] \subseteq rows
    BY DEF IInv, RowsInv, WorkInv, WorkOf, TInv, HeldTypes, Placed
  <1>00. pc'[r] # "done" => Told(r)'
    BY <1>0 DEF Stage, Told
  <1>1. ASSUME NEW x \in Universe, NEW k, NEW next, NEW program, Launch(r, k, x, next, program)
       PROVE  WorkOf(r)'
    <2>1. /\ rows' = rows /\ late' = late /\ pc'[r] = next /\ op'[r] = k /\ goal'[r] = x
          /\ todo'[r] = program /\ del'[r] = {}
      BY <1>0, <1>1, LaunchDoes DEF KeepsRows, Active, KeepsLocks, Holds
    <2>2. Old(r)' \subseteq Universe /\ Childless(r)'
      BY <1>0, <2>1 DEF Old, Childless
    <2>3. Told(r)' /\ next \in {"run", "teams"}
      BY <1>00, <1>1, <2>1 DEF Launch
    <2>4. CASE k \in {"create", "update", "purge"}
      BY <2>1, <2>2, <2>3, <2>4 DEF WorkOf, Covers, Ordered, Cascading
    <2>5. CASE k = "delete"
      <3>1. program = <<Delete(x.table, "id", {x.id})>>
        BY <1>1, <2>5 DEF Launch
      <3>2. Hits(Delete(x.table, "id", {x.id}), x)
        BY HitsDelete
      <3>3. 1 \in DOMAIN program /\ Hits(program[1], x)
        BY <3>1, <3>2
      <3>4. \A y : Mine(r, y)' => y = x
        BY <2>1, <2>5 DEF Mine, Doomed, Cascading
      <3>5. QED
        BY <2>1, <2>2, <2>3, <2>5, <3>3, <3>4 DEF WorkOf, Covers, Ordered, Cascading
    <2>6. CASE k = "delete_team"
      <3>1. x.table = "teams" /\ program = TeamCascade(x.id) /\ next = "run"
        BY <1>1, <2>6 DEF Launch
      <3>2. \A y \in Universe :
              /\ Doomed("delete_team", x, y) => \E i \in DOMAIN program : Hits(program[i], y)
              /\ \A z \in Universe : Refers(y, z) =>
                   \A j \in DOMAIN program : Hits(program[j], z) =>
                     \E i \in DOMAIN program : i < j /\ Hits(program[i], y)
        BY <3>1, TeamWorks
      <3>3. Covers(r)'
        BY <2>1, <2>2, <2>6, <3>1, <3>2 DEF Covers, Mine
      <3>4. Ordered(r)'
        BY <2>1, <2>2, <3>2 DEF Ordered
      <3>5. QED
        BY <2>2, <2>3, <3>3, <3>4 DEF WorkOf
    <2>7. CASE k = "delete_org"
      <3>1. program = <<>> /\ next = "teams"
        BY <1>1, <2>7 DEF Launch
      <3>2. QED
        BY <2>1, <2>2, <2>3, <3>1 DEF WorkOf, Covers, Ordered, Active
    <2>8. QED
      BY <1>1, <2>4, <2>5, <2>6, <2>7 DEF Launch
  <1>2. CASE ReadTeams(r)
    <2>1. /\ rows' = rows /\ late' = late /\ pc[r] = "teams" /\ pc'[r] = "run" /\ KeepsGoal(r)
          /\ todo'[r] = OrgCascade(goal[r].id, TeamIds(goal[r])) /\ del'[r] = {}
      BY <1>0, <1>2, ReadTeamsDoes DEF KeepsRows, Active, KeepsLocks, Holds, TeamIds
    <2>2. op[r] = "delete_org" /\ goal[r] \in Universe /\ goal[r].table = "organizations"
      BY <1>0, <2>1 DEF Stage
    <2>3. Old(r)' \subseteq rows /\ Childless(r)' /\ Told(r)'
      BY <1>00, <2>1 DEF Old, Childless
    <2> DEFINE P == OrgCascade(goal[r].id, TeamIds(goal[r]))
    <2>4. \A y \in rows :
            /\ Doomed("delete_org", goal[r], y) => \E i \in DOMAIN P : Hits(P[i], y)
            /\ \A x \in Universe : Refers(y, x) /\ y.table # "sso_configs" =>
                 \A j \in DOMAIN P : Hits(P[j], x) => \E i \in DOMAIN P : i < j /\ Hits(P[i], y)
      BY <1>0, <2>2, OrgWorks
    <2> HIDE DEF P
    <2>5. Covers(r)'
      BY <2>1, <2>2, <2>3, <2>4 DEF Covers, Mine, KeepsGoal, P
    <2>6. Ordered(r)'
      BY <2>1, <2>3, <2>4 DEF Ordered, KeepsGoal, P
    <2>7. QED
      BY <2>3, <2>5, <2>6 DEF WorkOf
  <1>3. ASSUME NEW S, Deletes(r, S)
       PROVE  WorkOf(r)'
    <2>1. /\ rows' = rows /\ late' = late /\ KeepsGoal(r) /\ del'[r] = del[r] \cup S
          /\ \/ /\ pc'[r] = "run" /\ todo'[r] = Tail(todo[r])
                /\ \A y \in rows \ (del[r] \cup S), x \in S : ~Refers(y, x)
             \/ pc'[r] = "check" /\ todo'[r] = todo[r]
      BY <1>0, <1>3, DeletesDoes DEF KeepsRows
    <2>2. /\ todo[r] # <<>> /\ pc[r] \in {"run", "wait"} /\ 1 \in DOMAIN todo[r]
          /\ S \subseteq rows /\ \A x \in S : Hits(todo[r][1], x)
          /\ \A y \in Old(r) : Hits(todo[r][1], y) => y \in S
      <3>1. CASE pc[r] = "run" /\ S = {x \in rows \ del[r] : Hits(todo[r][1], x)}
        BY <1>0, <1>3, <3>1, TodoTail DEF Deletes, Old
      <3>2. CASE pc[r] = "wait" /\ S = want[r] \cap rows
        BY <1>0, <1>3, <3>2, TodoTail DEF Deletes, Old, WorkOf, Covers
      <3>3. QED
        BY <1>3, <3>1, <3>2 DEF Deletes
    <2>3. Old(r)' \subseteq Old(r) /\ (\A y \in Old(r)' : ~Hits(todo[r][1], y))
      BY <2>1, <2>2 DEF Old
    <2>4. \A x : Mine(r, x)' <=> Mine(r, x)
      BY <2>1 DEF Mine, KeepsGoal
    <2>5. Active(r) /\ Covers(r) /\ Ordered(r) /\ Childless(r)
      BY <1>0, <2>2 DEF Active, WorkOf
    <2>6. Covers(r)' /\ Ordered(r)'
      <3>1. CASE pc'[r] = "run" /\ todo'[r] = Tail(todo[r])
        <4> DEFINE O == Old(r)'
                   P == Tail(todo[r])
        <4>1. /\ op[r] \in {"delete"} \cup Cascading =>
                   \A y \in O : Mine(r, y) => \E i \in DOMAIN P : Hits(P[i], y)
              /\ op[r] \in Cascading =>
                   \A y \in O, x \in Universe : Refers(y, x) /\ y.table # "sso_configs" =>
                     \A j \in DOMAIN P : Hits(P[j], x) => \E i \in DOMAIN P : i < j /\ Hits(P[i], y)
          BY <1>0, <2>2, <2>3, <2>5, RestCovers
        <4>2. Covers(r)'
          BY <2>1, <2>4, <3>1, <4>1 DEF Covers, KeepsGoal
        <4>3. Ordered(r)'
          BY <2>1, <3>1, <4>1 DEF Ordered, KeepsGoal
        <4>4. QED
          BY <4>2, <4>3
      <3>2. CASE pc'[r] = "check" /\ todo'[r] = todo[r]
        <4>1. Covers(r)'
          BY <2>1, <2>3, <2>4, <2>5, <3>2 DEF Covers, KeepsGoal
        <4>2. Ordered(r)'
          BY <2>1, <2>3, <2>5, <3>2 DEF Ordered, KeepsGoal
        <4>3. QED
          BY <4>1, <4>2
      <3>3. QED
        BY <2>1, <3>1, <3>2
    <2>7. Childless(r)'
      <3>1. ASSUME op[r] \in Cascading, NEW x \in del[r] \cup S, NEW y \in Old(r)', Refers(y, x)
           PROVE  y.table = "sso_configs"
        <4>1. CASE x \in del[r]
          BY <2>3, <2>5, <3>1, <4>1 DEF Childless
        <4>2. CASE x \in S
          <5>1. y.table # "sso_configs" => \E i \in DOMAIN todo[r] : i < 1 /\ Hits(todo[r][i], y)
            BY <1>0, <2>2, <2>3, <2>5, <3>1, <4>2 DEF Ordered
          <5>2. \A i \in DOMAIN todo[r] : ~(i < 1)
            BY <1>0, <2>2, TodoTail
          <5>3. QED
            BY <5>1, <5>2
        <4>3. QED
          BY <4>1, <4>2
      <3>2. ASSUME pc'[r] = "run", NEW x \in del[r] \cup S, NEW y \in rows \ (del[r] \cup S), Refers(y, x)
           PROVE  FALSE
        <4>1. x \notin S
          BY <2>1, <3>2
        <4>2. CASE pc[r] = "run"
          BY <2>5, <3>2, <4>1, <4>2 DEF Childless
        <4>3. CASE pc[r] = "wait"
          <5>1. S = want[r] \cap rows
            BY <1>3, <4>3 DEF Deletes
          <5>2. x \in del[r] \ want[r]
            BY <1>0, <4>1, <5>1
          <5>3. QED
            BY <2>5, <3>2, <4>3, <5>2 DEF Childless
        <4>4. QED
          BY <2>2, <4>2, <4>3
      <3>3. QED
        BY <2>1, <3>1, <3>2 DEF Childless, KeepsGoal
    <2>8. QED
      BY <1>00, <2>1, <2>6, <2>7 DEF WorkOf
  <1>4. ASSUME NEW S, Waits(r, S)
       PROVE  WorkOf(r)'
    <2>1. /\ rows' = rows /\ late' = late /\ KeepsGoal(r) /\ del'[r] = del[r] \cup S /\ pc'[r] = "wait"
          /\ todo'[r] = todo[r] /\ want'[r] = {x \in rows \ del[r] : Hits(todo[r][1], x)}
      BY <1>0, <1>4, WaitsDoes DEF KeepsRows
    <2>2. /\ todo[r] # <<>> /\ pc[r] = "run" /\ S \subseteq want'[r] /\ 1 \in DOMAIN todo[r]
      BY <1>0, <1>4, <2>1, TodoTail DEF Waits
    <2>3. Old(r)' \subseteq Old(r)
      BY <2>1 DEF Old
    <2>4. \A x : Mine(r, x)' <=> Mine(r, x)
      BY <2>1 DEF Mine, KeepsGoal
    <2>5. Active(r) /\ Covers(r) /\ Ordered(r) /\ Childless(r)
      BY <1>0, <2>2 DEF Active, WorkOf
    <2>6. Covers(r)'
      <3>1. \A y \in Old(r) : Hits(todo[r][1], y) => y \in want'[r]
        BY <2>1 DEF Old
      <3>2. QED
        BY <2>1, <2>3, <2>4, <2>5, <3>1 DEF Covers, KeepsGoal
    <2>7. Ordered(r)'
      BY <2>1, <2>3, <2>5 DEF Ordered, KeepsGoal
    <2>8. Childless(r)'
      <3>1. ASSUME op[r] \in Cascading, NEW x \in del[r] \cup S, NEW y \in Old(r)', Refers(y, x)
           PROVE  y.table = "sso_configs"
        <4>1. CASE x \in del[r]
          BY <2>3, <2>5, <3>1, <4>1 DEF Childless
        <4>2. CASE x \in S
          <5>1. x \in Universe /\ Hits(todo[r][1], x)
            BY <1>0, <2>1, <2>2, <4>2
          <5>2. y.table # "sso_configs" => \E i \in DOMAIN todo[r] : i < 1 /\ Hits(todo[r][i], y)
            BY <2>2, <2>3, <2>5, <3>1, <5>1 DEF Ordered
          <5>3. \A i \in DOMAIN todo[r] : ~(i < 1)
            BY <1>0, <2>2, TodoTail
          <5>4. QED
            BY <5>2, <5>3
        <4>3. QED
          BY <4>1, <4>2
      <3>2. \A x \in del'[r] \ want'[r], y \in rows \ del'[r] : ~Refers(y, x)
        BY <2>1, <2>2, <2>5 DEF Childless
      <3>3. QED
        BY <2>1, <3>1, <3>2 DEF Childless, KeepsGoal
    <2>9. QED
      BY <1>00, <2>1, <2>6, <2>7, <2>8 DEF WorkOf
  <1>5. CASE CheckOrphans(r)
    <2>1. /\ rows' = rows /\ late' = late /\ KeepsGoal(r) /\ del'[r] = del[r] /\ pc'[r] = "run"
          /\ pc[r] = "check" /\ todo[r] # <<>> /\ todo'[r] = Tail(todo[r]) /\ Orphans(r) = {}
      BY <1>0, <1>5, CheckDoes DEF KeepsRows, KeepsLocks
    <2>2. Old(r)' = Old(r)
      BY <2>1 DEF Old
    <2>3. \A x : Mine(r, x)' <=> Mine(r, x)
      BY <2>1 DEF Mine, KeepsGoal
    <2>4. /\ Active(r) /\ Covers(r) /\ Ordered(r) /\ Childless(r)
          /\ \A y \in Old(r) : ~Hits(todo[r][1], y)
      BY <1>0, <2>1 DEF Active, WorkOf, Covers
    <2> DEFINE O == Old(r)
               P == Tail(todo[r])
    <2>5. /\ op[r] \in {"delete"} \cup Cascading =>
               \A y \in O : Mine(r, y) => \E i \in DOMAIN P : Hits(P[i], y)
          /\ op[r] \in Cascading =>
               \A y \in O, x \in Universe : Refers(y, x) /\ y.table # "sso_configs" =>
                 \A j \in DOMAIN P : Hits(P[j], x) => \E i \in DOMAIN P : i < j /\ Hits(P[i], y)
      BY <1>0, <2>1, <2>4, RestCovers
    <2>6. Covers(r)'
      BY <2>1, <2>2, <2>3, <2>5 DEF Covers, KeepsGoal
    <2>7. Ordered(r)'
      BY <2>1, <2>2, <2>5 DEF Ordered, KeepsGoal
    <2>8. Childless(r)'
      BY <2>1, <2>2, <2>4 DEF Childless, KeepsGoal, Orphans
    <2>9. QED
      BY <1>00, <2>1, <2>6, <2>7, <2>8 DEF WorkOf
  <1>6. ASSUME NEW x, Inserts(r, x)
       PROVE  WorkOf(r)'
    <2>1. pc'[r] = "run" /\ KeepsGoal(r) /\ op[r] \in {"create", "update"} /\ del'[r] = {}
      BY <1>0, <1>6, KindOf, InsertsDoes DEF Inserts, Holds, Deletions
    <2>2. QED
      BY <1>00, <2>1 DEF WorkOf, Covers, Ordered, Childless, Cascading, KeepsGoal
  <1>7. ASSUME NEW x, Updates(r, x)
       PROVE  WorkOf(r)'
    <2>1. pc'[r] = "run" /\ KeepsGoal(r) /\ op[r] \in {"create", "update"} /\ del'[r] = {}
      BY <1>0, <1>7, KindOf, UpdatesDoes DEF Updates, Holds, Deletions
    <2>2. QED
      BY <1>00, <2>1 DEF WorkOf, Covers, Ordered, Childless, Cascading, KeepsGoal
  <1>8. ASSUME NEW p, Shares(r, p)
       PROVE  WorkOf(r)'
    <2>1. todo[r] # <<>> /\ pc[r] = "run" /\ todo[r][1].do = "share"
      BY <1>8 DEF Shares
    <2>2. op[r] = "create"
      BY <1>0, <2>1, KindOf
    <2>3. pc'[r] = "run" /\ KeepsGoal(r) /\ del'[r] = {}
      BY <1>0, <1>8, <2>2, SharesDoes DEF Holds, Deletions
    <2>4. QED
      BY <1>00, <2>2, <2>3 DEF WorkOf, Covers, Ordered, Childless, Cascading, KeepsGoal
  <1>9. ASSUME NEW why, Fails(r, why)
       PROVE  WorkOf(r)'
    <2>1. /\ rows' = rows /\ late' = late /\ KeepsGoal(r) /\ del'[r] = {} /\ todo'[r] = <<>>
          /\ pc'[r] = "done" /\ blame'[r] = why /\ answer'[r] # 204
      BY <1>0, <1>9, FailsDoes DEF KeepsRows, LocksGone
    <2>2. op[r] \in Cascading => \A y \in why : y \in late[r] \/ y.table = "sso_configs"
      BY <1>0, <1>9 DEF Fails, Orphans, WorkOf, Childless, Old
    <2>3. Told(r)'
      BY <2>1, <2>2 DEF Told, KeepsGoal
    <2>4. QED
      BY <2>1, <2>3 DEF WorkOf, Covers, Ordered, Childless, Active
  <1>10. CASE Commit(r)
    <2>1. /\ rows' = (rows \ del[r]) \cup ins[r] /\ late'[r] = late[r] /\ KeepsGoal(r)
          /\ del'[r] = {} /\ todo'[r] = <<>> /\ pc'[r] \in {"done", "refresh"}
          /\ todo[r] = <<>> /\ pc[r] = "run" /\ blame'[r] = blame[r]
      BY <1>0, <1>10, CommitDoes DEF LocksGone
    <2>2. op[r] \in {"delete"} \cup Cascading => goal[r] \notin rows'
      <3>1. ASSUME op[r] \in {"delete"} \cup Cascading
           PROVE  goal[r] \notin rows \ del[r]
        <4>1. goal[r] \notin late[r] /\ Mine(r, goal[r])
          BY <1>0, <3>1 DEF Fresh, Mine, Doomed
        <4>2. goal[r] \notin Old(r)
          BY <1>0, <2>1, <3>1, <4>1 DEF WorkOf, Covers, Active
        <4>3. QED
          BY <4>1, <4>2 DEF Old
      <3>2. op[r] \in {"delete"} \cup Cascading => ins[r] = {}
        BY <1>0 DEF Holds, Cascading
      <3>3. QED
        BY <2>1, <3>1, <3>2
    <2>3. Told(r)'
      BY <1>0, <2>1, <2>2 DEF Told, KeepsGoal, Stage
    <2>4. QED
      BY <2>1, <2>3 DEF WorkOf, Covers, Ordered, Childless, Active
  <1>11. CASE Refresh(r)
    <2>1. op[r] \in {"create", "update"} /\ KeepsGoal(r) /\ pc'[r] = "done" /\ del'[r] = {}
      BY <1>0, <1>11, RefreshDoes DEF Stage, Holds, Active
    <2>2. QED
      BY <2>1 DEF WorkOf, Covers, Ordered, Childless, Told, Active, Cascading, KeepsGoal
  <1>12. QED
    BY <1>1, <1>2, <1>3, <1>4, <1>5, <1>6, <1>7, <1>8, <1>9, <1>10, <1>11 DEF Acts

LEMMA InductiveInit ==
  ASSUME Init
  PROVE  IInv
  <1>1. rows \subseteq Universe /\ Consistent(rows) /\ used = rows
    BY DEF Init
  <1>2. HeldTypes
    BY <1>1 DEF Init, HeldTypes
  <1>3. RequestTypes
    <2> HIDE DEF Statement
    <2>1. <<>> \in Seq(Statement)
      OBVIOUS
    <2>2. QED
      BY <2>1 DEF Init, RequestTypes
  <1>4. ASSUME NEW r \in Requests
       PROVE  /\ Stage(r) /\ Holds(r) /\ Placed(r) /\ Fresh(r)
              /\ Covers(r) /\ Ordered(r) /\ Childless(r) /\ Told(r)
    <2>1. /\ op[r] = "none" /\ pc[r] = "idle" /\ todo[r] = <<>> /\ ins[r] = {} /\ del[r] = {}
          /\ upd[r] = {} /\ share[r] = {} /\ want[r] = {} /\ answer[r] = 0 /\ blame[r] = {} /\ late[r] = {}
      BY DEF Init
    <2>2. Stage(r) /\ Holds(r) /\ Placed(r) /\ Fresh(r)
      BY <2>1 DEF Stage, Holds, Active, Placed, Fresh, Ops, Deletions, Cascading
    <2>3. Covers(r) /\ Ordered(r) /\ Childless(r) /\ Told(r)
      BY <2>1 DEF Covers, Ordered, Childless, Told, Active, Cascading
    <2>4. QED
      BY <2>2, <2>3
  <1>5. Exclusive
    BY DEF Init, Exclusive
  <1>6. QED
    BY <1>1, <1>2, <1>3, <1>4, <1>5 DEF IInv, TInv, RowsInv, WorkInv

LEMMA InductiveStep ==
  ASSUME IInv, [Next]_vars
  PROVE  IInv'
  <1>1. CASE UNCHANGED vars
    <2>1. UNCHANGED <<rows, ins, del, upd, share, op, goal, pc, todo, want, answer, used, late, blame>>
      BY <1>1 DEF vars, tx
    <2>2. TInv'
      <3>1. HeldTypes' /\ RequestTypes'
        BY <2>1 DEF IInv, TInv, HeldTypes, RequestTypes
      <3>2. ASSUME NEW r \in Requests
           PROVE  Stage(r)' /\ Holds(r)'
        <4>1. TInv /\ Untouched(r)
          BY <2>1 DEF IInv, Untouched
        <4>2. QED
          BY <4>1, StageFrame
      <3>3. QED
        BY <3>1, <3>2 DEF TInv
    <2>3. RowsInv'
      BY <2>1 DEF IInv, RowsInv, Exclusive, Placed, Fresh
    <2>4. WorkInv'
      <3>1. \A r \in Requests : Old(r)' = Old(r)
        BY <2>1 DEF Old
      <3>2. \A r \in Requests : \A x : Mine(r, x)' <=> Mine(r, x)
        BY <2>1 DEF Mine
      <3>3. ASSUME NEW r \in Requests
           PROVE  Covers(r)' /\ Ordered(r)' /\ Childless(r)' /\ Told(r)'
        <4>1. Covers(r) /\ Ordered(r) /\ Childless(r) /\ Told(r)
          BY DEF IInv, WorkInv
        <4>2. Covers(r)'
          BY <2>1, <3>1, <3>2, <4>1 DEF Covers, Active
        <4>3. Ordered(r)'
          BY <2>1, <3>1, <4>1 DEF Ordered
        <4>4. Childless(r)' /\ Told(r)'
          BY <2>1, <3>1, <4>1 DEF Childless, Told
        <4>5. QED
          BY <4>2, <4>3, <4>4
      <3>4. QED
        BY <3>3 DEF WorkInv
    <2>5. QED
      BY <2>2, <2>3, <2>4 DEF IInv
  <1>2. ASSUME NEW r \in Requests, Start(r) \/ Work(r)
       PROVE  IInv'
    <2>1. Acts(r)
      BY <1>2, StepActs DEF IInv
    <2>2. TInv' /\ RowsInv'
      BY <2>1, RowsStep
    <2>3. \A q \in Requests : WorkOf(q)'
      <3>1. ASSUME NEW q \in Requests
           PROVE  WorkOf(q)'
        <4>1. CASE q = r
          BY <2>1, <2>2, <4>1, WorkStep
        <4>2. CASE q # r
          BY <2>1, <4>2, WorkFrame
        <4>3. QED
          BY <4>1, <4>2
      <3>2. QED
        BY <3>1
    <2>4. QED
      BY <2>2, <2>3 DEF IInv, WorkInv, WorkOf
  <1>3. QED
    BY <1>1, <1>2 DEF Next

LEMMA Inductive == Spec => []IInv
  <1>1. Init => IInv
    BY InductiveInit
  <1>2. IInv /\ [Next]_vars => IInv'
    BY InductiveStep
  <1>3. QED
    BY <1>1, <1>2, PTL DEF Spec
-----------------------------------------------------------------------------
\* Every variable has its type, and a request that is done holds no lock and
\* keeps no uncommitted row.
THEOREM TypeCorrect == Spec => []TypeOK
  <1>1. IInv => TypeOK
    <2>1. SUFFICES ASSUME IInv
                   PROVE  TypeOK
      OBVIOUS
    <2>2. HeldTypes /\ RequestTypes /\ \A r \in Requests : Holds(r)
      BY <2>1 DEF IInv, TInv
    <2>3. \A r \in Requests : pc[r] = "done" => ins[r] \cup del[r] \cup upd[r] \cup share[r] = {}
      BY <2>2 DEF Holds, Active
    <2> HIDE DEF Statement
    <2>4. QED
      BY <2>2, <2>3 DEF TypeOK, HeldTypes, RequestTypes
  <1>2. QED
    BY <1>1, Inductive, PTL

\* A deletion that was answered with 204 has happened: the row is not there,
\* whoever removed it and whatever was created meanwhile.
THEOREM DeletedIsGone == Spec => []DeletedWhenAnswered
  <1>1. IInv => DeletedWhenAnswered
    BY DEF IInv, WorkInv, Told, DeletedWhenAnswered, Cascading
  <1>2. QED
    BY <1>1, Inductive, PTL

\* The cascades of delete_team and delete_org empty every table they have to,
\* in an order the foreign keys allow: only a row committed while one of them
\* ran, or an SSO configuration, makes it fail on a foreign key.
THEOREM CascadesAreComplete == Spec => []CascadeFailsOnlyOnNewRows
  <1>1. IInv => CascadeFailsOnlyOnNewRows
    BY DEF IInv, WorkInv, Told, CascadeFailsOnlyOnNewRows, Cascades, Cascading
  <1>2. QED
    BY <1>1, Inductive, PTL
-----------------------------------------------------------------------------
(***************************************************************************)
(* The directory.                                                          *)
(***************************************************************************)
LEMMA SameRows ==
  /\ \A x : D!Parents(x) = Parents(x) /\ D!Ref(x) = Ref(x)
  /\ \A x, y : D!Clash(x, y) <=> Clash(x, y)
  /\ \A x, y : D!Refers(y, x) <=> Refers(y, x)
  /\ \A x, R : D!Owned(x, R) = Owned(x, R)
  <1>1. \A x : D!Parents(x) = Parents(x) /\ D!Ref(x) = Ref(x)
    BY DEF D!Parents, Parents, D!ForeignKey, ForeignKey, D!Ref, Ref
  <1>2. \A x, y : D!Clash(x, y) <=> Clash(x, y)
    BY DEF D!Clash, Clash, D!UniqueKey, UniqueKey
  <1>3. \A x, y : D!Refers(y, x) <=> Refers(y, x)
    BY <1>1 DEF D!Refers, Refers
  <1>4. \A x, R : D!Owned(x, R) = Owned(x, R)
    BY <1>3 DEF D!Owned, Owned
  <1>5. QED
    BY <1>1, <1>2, <1>3, <1>4

LEMMA RemoveOne ==
  ASSUME rows \subseteq Universe, NEW x \in rows, rows' = rows \ {x}, \A y \in rows \ {x} : ~Refers(y, x)
  PROVE  D!Next
  <1>1. ~Refers(x, x)
    BY Referred, RefersTo DEF WellFormed
  <1>2. Owned(x, rows) = {x}
    BY <1>1 DEF Owned
  <1>3. D!Remove(x)
    BY <1>2, SameRows DEF D!Remove
  <1>4. QED
    BY <1>3 DEF D!Next

\* A row is inserted with what it refers to in place.
LEMMA CommitAdds ==
  ASSUME IInv, NEW r \in Requests, Commit(r), ins[r] # {}
  PROVE  D!Next
  <1>1. TInv /\ ins[r] \subseteq Universe
    BY DEF IInv, TInv, HeldTypes
  <1>2. PICK x \in Universe : ins[r] = {x}
    BY <1>1, CommitSafe
  <1>3. rows' = rows \cup {x}
    BY <1>1, <1>2, CommitDoes, CommitSafe
  <1>4. \A i \in DOMAIN Parents(x) : \E y \in rows : Ref(y) = Parents(x)[i]
    BY <1>2, CommitSafe
  <1>5. \A y \in rows : ~Clash(x, y)
    BY <1>2, CommitSafe
  <1>6. D!Add(x)
    BY <1>3, <1>4, <1>5, SameRows DEF D!Add
  <1>7. QED
    BY <1>6 DEF D!Next

\* A cascade deletes the team or the organization and what it owns.
LEMMA CascadeRemoves ==
  ASSUME IInv, IInv', NEW r \in Requests, Commit(r), op[r] \in Cascading, del[r] # {}
  PROVE  D!Next
  <1>0. /\ TInv /\ Stage(r) /\ Holds(r) /\ del[r] \subseteq rows
        /\ rows \subseteq Universe /\ Consistent(rows)
    BY DEF IInv, RowsInv, TInv, HeldTypes, Placed
  <1>1. /\ ins[r] = {} /\ rows' = rows \ del[r] /\ answer'[r] = 204 /\ KeepsGoal(r)
        /\ \A x \in del[r], y \in rows \ del[r] : ~Refers(y, x)
    BY <1>0, CommitDoes, CommitSafe DEF Cascading
  <1>2. goal[r] \notin rows \ del[r]
    BY <1>1 DEF IInv, WorkInv, Told, KeepsGoal
  <1>3. /\ goal[r] \in Universe /\ goal[r].table \in {"organizations", "teams"}
        /\ \A x \in del[r] : Mine(r, x)
    BY <1>0 DEF Stage, Holds, Cascading
  <1>4. ASSUME NEW x \in del[r]
       PROVE  /\ goal[r] \in rows
              /\ \/ x = goal[r]
                 \/ x.table # "sso_configs" /\ Refers(x, goal[r])
                 \/ x.table # "sso_configs" /\ \E t \in rows : Refers(t, goal[r]) /\ Refers(x, t)
    <2>1. x \in rows /\ Mine(r, x)
      BY <1>0, <1>3
    <2>2. CASE x = goal[r]
      BY <2>1, <2>2
    <2>3. CASE x.table # "sso_configs" /\ Refers(x, goal[r])
      BY <1>0, <1>3, <2>1, <2>3, ParentThere
    <2>4. ASSUME NEW t \in Universe, t.table = "teams", Refers(t, goal[r]), Refers(x, t)
         PROVE  t \in rows /\ goal[r] \in rows
      <3>1. t \in rows
        BY <1>0, <2>1, <2>4, ParentThere
      <3>2. QED
        BY <1>0, <1>3, <2>4, <3>1, ParentThere
    <2>5. QED
      BY <2>1, <2>2, <2>3, <2>4 DEF Mine, Doomed, Cascading
  <1>5. goal[r] \in del[r]
    BY <1>2, <1>4
  <1>6. Owned(goal[r], rows) = del[r]
    <2>1. ASSUME NEW x \in Owned(goal[r], rows)
         PROVE  x \in del[r]
      BY <1>1, <1>5 DEF Owned
    <2>2. ASSUME NEW x \in del[r]
         PROVE  x \in Owned(goal[r], rows)
      BY <1>0, <1>4 DEF Owned
    <2>3. QED
      BY <2>1, <2>2
  <1>7. \A y \in del[r] \ {goal[r]} : y.table # "sso_configs"
    BY <1>4
  <1>8. D!Remove(goal[r])
    BY <1>1, <1>3, <1>6, <1>7, SameRows DEF D!Remove
  <1>9. QED
    BY <1>0, <1>5, <1>8 DEF D!Next

\* Every other deletion deletes a single row that nothing refers to.
LEMMA DropRemoves ==
  ASSUME IInv, NEW r \in Requests, Commit(r), op[r] \notin Cascading, ins[r] = {}, del[r] # {}
  PROVE  D!Next
  <1>0. /\ TInv /\ Stage(r) /\ Holds(r) /\ del[r] \subseteq rows
        /\ rows \subseteq Universe /\ Consistent(rows)
    BY DEF IInv, RowsInv, TInv, HeldTypes, Placed
  <1>1. /\ rows' = rows \ del[r]
        /\ \A x \in del[r], y \in rows \ del[r] : ~Refers(y, x)
    BY <1>0, CommitDoes, CommitSafe
  <1>2. PICK x \in rows : x \in del[r]
    BY <1>0
  <1>3. op[r] \in {"delete", "purge"} /\ \A y \in del[r] : Mine(r, y)
    BY <1>0 DEF Holds, Deletions, Cascading
  <1>4. \A y \in del[r] : y = x
    <2>1. CASE op[r] = "delete"
      BY <1>2, <1>3, <2>1 DEF Mine, Doomed, Cascading
    <2>2. CASE op[r] = "purge"
      <3>1. ASSUME NEW y \in del[r]
           PROVE  y.table = "sso_configs" /\ y.org = goal[r].org /\ y.team = None /\ y.user = None
        <4>1. y.table = "sso_configs" /\ y.org = goal[r].org
          BY <1>3, <2>2 DEF Mine, Doomed, Cascading
        <4>2. WellFormed(y)
          BY <1>0
        <4>3. QED
          BY <4>1, <4>2 DEF WellFormed
      <3>2. ASSUME NEW y \in del[r]
           PROVE  Clash(y, x)
        BY <1>2, <3>1 DEF Clash, UniqueKey
      <3>3. QED
        BY <1>0, <3>2 DEF Consistent
    <2>3. QED
      BY <1>3, <2>1, <2>2
  <1>5. del[r] = {x}
    BY <1>2, <1>4
  <1>6. QED
    BY <1>0, <1>1, <1>5, RemoveOne

LEMMA DirectoryStep ==
  ASSUME IInv, IInv', [Next]_vars
  PROVE  [D!Next]_rows
  <1>1. CASE UNCHANGED vars
    BY <1>1 DEF vars
  <1>2. ASSUME NEW r \in Requests, Start(r) \/ Work(r)
       PROVE  [D!Next]_rows
    <2>1. Acts(r) /\ TInv
      BY <1>2, StepActs DEF IInv
    <2>2. CASE Commit(r)
      <3>1. CASE ins[r] # {}
        BY <2>2, <3>1, CommitAdds
      <3>2. CASE ins[r] = {} /\ del[r] = {}
        BY <2>1, <2>2, <3>2, CommitDoes
      <3>3. CASE ins[r] = {} /\ del[r] # {} /\ op[r] \in Cascading
        BY <2>2, <3>3, CascadeRemoves
      <3>4. CASE ins[r] = {} /\ del[r] # {} /\ op[r] \notin Cascading
        BY <2>2, <3>4, DropRemoves
      <3>5. QED
        BY <3>1, <3>2, <3>3, <3>4
    <2>3. CASE UNCHANGED <<rows, late>>
      BY <2>3
    <2>4. QED
      BY <2>1, <2>2, <2>3, OnlyCommits
  <1>3. QED
    BY <1>1, <1>2 DEF Next

\* What is committed changes as the directory promises: whatever the requests
\* do at the same time, a COMMIT adds one row with what it refers to, or
\* removes one with all that belongs to it and nothing else, or nothing.
THEOREM DirectoryImplemented == Spec => ImplementsDirectory
  <1>1. Init => D!Init
    BY DEF Init, D!Init
  <1>2. IInv /\ IInv' /\ [Next]_vars => [D!Next]_rows
    BY DirectoryStep
  <1>3. QED
    BY <1>1, <1>2, Inductive, PTL DEF Spec, ImplementsDirectory, D!Spec
-----------------------------------------------------------------------------
(***************************************************************************)
(* Circles of waiting requests.  What a request that works on one row      *)
(* holds while it waits: nothing, unless it creates a row, and has         *)
(* inserted it, or deletes one, and its references are being looked for.   *)
(***************************************************************************)
Light(r) ==
  /\ upd[r] # {} => op[r] = "update"
  /\ op[r] = "create" =>
       \/ todo[r] = <<Insert(goal[r])>> /\ ins[r] = {} /\ share[r] = {}
       \/ /\ \A i \in DOMAIN todo[r] : todo[r][i].do = "share"
          /\ todo[r] # <<>> => ins[r] # {}
  /\ op[r] = "update" /\ todo[r] # <<>> => Tail(todo[r]) = <<>> /\ upd[r] = {}
  /\ op[r] \in {"delete", "purge"} /\ todo[r] # <<>> =>
       Tail(todo[r]) = <<>> /\ (pc[r] = "check" \/ del[r] = {})

LightInv == \A r \in Requests : Light(r)

\* A DELETE by an id, or of the SSO configuration of an organization, has
\* one row to find.
LEMMA OneRow ==
  ASSUME IInv, NEW r \in Requests, op[r] \in {"delete", "purge"},
         NEW x \in rows, NEW y \in rows, Mine(r, x), Mine(r, y)
  PROVE  x = y
  <1>1. x \in Universe /\ y \in Universe /\ Consistent(rows)
    BY DEF IInv, TInv, HeldTypes, RowsInv
  <1>2. CASE op[r] = "delete"
    BY <1>2 DEF Mine, Doomed, Cascading
  <1>3. CASE op[r] = "purge"
    <2>1. x.table = "sso_configs" /\ y.table = "sso_configs" /\ x.org = y.org
      BY <1>3 DEF Mine, Doomed, Cascading
    <2>2. x.team = None /\ y.team = None /\ x.user = None /\ y.user = None
      BY <1>1, <2>1 DEF WellFormed
    <2>3. UniqueKey(x) = UniqueKey(y)
      BY <2>1, <2>2 DEF UniqueKey
    <2>4. QED
      BY <1>1, <2>1, <2>3 DEF Consistent, Clash
  <1>4. QED
    BY <1>2, <1>3

LEMMA LightStep ==
  ASSUME IInv, NEW r \in Requests, Acts(r), Light(r)
  PROVE  Light(r)'
  <1>0. TInv /\ Stage(r) /\ Holds(r)
    BY DEF IInv, TInv
  <1>1. ASSUME NEW x \in Universe, NEW k, NEW next, NEW program, Launch(r, k, x, next, program)
       PROVE  Light(r)'
    <2>1. /\ ins'[r] = {} /\ share'[r] = {} /\ del'[r] = {} /\ upd'[r] = {}
          /\ op'[r] = k /\ goal'[r] = x /\ todo'[r] = program
      BY <1>0, <1>1, LaunchDoes DEF KeepsLocks, Holds, Active
    <2>2. /\ k = "create" => program = <<Insert(x)>>
          /\ k \in {"update", "delete", "purge"} => Tail(program) = <<>>
      <3> HIDE DEF Delete, Insert, Update
      <3>1. \A s : Tail(<<s>>) = <<>>
        OBVIOUS
      <3>2. QED
        BY <1>1, <3>1 DEF Launch
    <2>3. QED
      BY <2>1, <2>2 DEF Light
  <1>2. CASE ReadTeams(r)
    <2>1. op'[r] = "delete_org" /\ upd'[r] = upd[r] /\ op[r] = "delete_org"
      BY <1>0, <1>2, ReadTeamsDoes DEF KeepsLocks, KeepsGoal, Stage
    <2>2. QED
      BY <2>1 DEF Light
  <1>3. ASSUME NEW S, Deletes(r, S)
       PROVE  Light(r)'
    <2>1. op[r] \in Deletions /\ todo[r] # <<>>
      <3>1. todo[r] # <<>> /\ pc[r] \in {"run", "wait"}
        BY <1>3 DEF Deletes
      <3>2. QED
        BY <1>0, <1>3, <3>1, KindOf DEF Deletes, Stage
    <2>2. KeepsGoal(r) /\ upd'[r] = upd[r]
      BY <1>0, <1>3, DeletesDoes
    <2>3. todo'[r] = Tail(todo[r]) \/ (pc'[r] = "check" /\ todo'[r] = todo[r])
      BY <1>0, <1>3, DeletesDoes
    <2>4. QED
      BY <2>1, <2>2, <2>3 DEF Light, Deletions, KeepsGoal
  <1>4. ASSUME NEW S, Waits(r, S)
       PROVE  Light(r)'
    <2>1. /\ op'[r] = op[r] /\ upd'[r] = upd[r] /\ todo'[r] = todo[r] /\ pc'[r] = "wait"
          /\ del'[r] = del[r] \cup S
      BY <1>0, <1>4, WaitsDoes DEF KeepsGoal
    <2>2. /\ op[r] \in Deletions /\ pc[r] = "run" /\ todo[r] # <<>>
          /\ \A x \in Universe : Hits(todo[r][1], x) => Mine(r, x)
      <3>1. pc[r] = "run" /\ todo[r] # <<>> /\ todo[r][1].do = "delete"
        BY <1>4 DEF Waits
      <3>2. QED
        BY <1>0, <3>1, KindOf
    <2>3. ASSUME op[r] \in {"delete", "purge"}, NEW x \in S
         PROVE  FALSE
      <3>1. PICK q \in Requests \ {r}, z \in {y \in rows \ del[r] : Hits(todo[r][1], y)} :
              z \in del[q] \cup upd[q] \/ Ref(z) \in share[q]
        BY <1>4 DEF Waits, Holders
      <3>2. x \in rows /\ Hits(todo[r][1], x) /\ Holders(r, {x}) = {} /\ rows \subseteq Universe
        BY <1>0, <1>4 DEF Waits, TInv, HeldTypes
      <3>3. x = z
        BY <2>2, <2>3, <3>1, <3>2, OneRow
      <3>4. QED
        BY <3>1, <3>2, <3>3 DEF Holders
    <2>4. QED
      BY <2>1, <2>2, <2>3 DEF Light, Deletions
  <1>5. CASE CheckOrphans(r)
    <2>1. /\ op'[r] = op[r] /\ upd'[r] = upd[r] /\ todo'[r] = Tail(todo[r]) /\ todo[r] # <<>>
          /\ op[r] \in Deletions
      BY <1>0, <1>5, CheckDoes DEF KeepsGoal, KeepsLocks, Stage
    <2>2. QED
      BY <2>1 DEF Light, Deletions
  <1>6. ASSUME NEW x, Inserts(r, x)
       PROVE  Light(r)'
    <2> DEFINE shares == [i \in DOMAIN Parents(x) |-> Share(Parents(x)[i])]
    <2>1. /\ op[r] = "create" /\ op'[r] = op[r] /\ upd'[r] = upd[r] /\ ins'[r] = ins[r] \cup {x}
          /\ todo'[r] = shares \o Tail(todo[r])
          /\ todo[r] # <<>> /\ todo[r][1].do = "insert" /\ x = goal[r] /\ goal[r] \in Universe
      <3>1. pc[r] = "run" /\ todo[r] # <<>> /\ todo[r][1].do = "insert" /\ x = todo[r][1].row
        BY <1>6 DEF Inserts
      <3>2. op[r] = "create" /\ todo[r][1].row = goal[r] /\ goal[r] \in Universe
        BY <1>0, <3>1, KindOf
      <3>3. /\ KeepsGoal(r) /\ upd'[r] = upd[r] /\ ins'[r] = ins[r] \cup {x}
            /\ todo'[r] = shares \o Tail(todo[r])
        BY <1>0, <1>6, InsertsDoes
      <3>4. QED
        BY <3>1, <3>2, <3>3 DEF KeepsGoal
    <2>2. Tail(todo[r]) = <<>>
      <3>1. 1 \in DOMAIN todo[r]
        BY <1>0, <2>1, TodoTail
      <3>2. todo[r] = <<Insert(goal[r])>>
        BY <2>1, <3>1 DEF Light
      <3> HIDE DEF Insert
      <3>3. QED
        BY <3>2
    <2>3. \A i \in DOMAIN todo'[r] : todo'[r][i].do = "share"
      <3>1. shares \in Seq(Statement)
        BY <2>1, SharesTyped
      <3> HIDE DEF Statement, shares
      <3>2. todo'[r] = shares
        <4>1. shares \o <<>> = shares
          BY <3>1
        <4>2. QED
          BY <2>1, <2>2, <4>1
      <3>3. \A i \in DOMAIN shares : shares[i].do = "share"
        BY DEF shares, Share
      <3>4. QED
        BY <3>2, <3>3
    <2>4. QED
      BY <2>1, <2>3 DEF Light
  <1>7. ASSUME NEW x, Updates(r, x)
       PROVE  Light(r)'
    <2>1. op[r] = "update" /\ todo[r] # <<>>
      <3>1. pc[r] = "run" /\ todo[r] # <<>> /\ todo[r][1].do = "update"
        BY <1>7 DEF Updates
      <3>2. QED
        BY <1>0, <3>1, KindOf
    <2>2. op'[r] = op[r] /\ todo'[r] = Tail(todo[r])
      BY <1>0, <1>7, UpdatesDoes DEF KeepsGoal
    <2>3. QED
      BY <2>1, <2>2 DEF Light
  <1>8. ASSUME NEW p, Shares(r, p)
       PROVE  Light(r)'
    <2>1. op[r] = "create" /\ todo[r] # <<>> /\ todo[r][1].do = "share"
      <3>1. pc[r] = "run" /\ todo[r] # <<>> /\ todo[r][1].do = "share"
        BY <1>8 DEF Shares
      <3>2. QED
        BY <1>0, <3>1, KindOf
    <2>2. op'[r] = op[r] /\ upd'[r] = upd[r] /\ ins'[r] = ins[r] /\ todo'[r] = Tail(todo[r])
      BY <1>0, <1>8, SharesDoes DEF KeepsGoal
    <2>3. todo[r] # <<Insert(goal[r])>>
      <3>1. Insert(goal[r]).do = "insert"
        BY DEF Insert
      <3>2. <<Insert(goal[r])>>[1] = Insert(goal[r])
        OBVIOUS
      <3>3. QED
        BY <2>1, <3>1, <3>2
    <2>4. \A i \in DOMAIN Tail(todo[r]) : Tail(todo[r])[i].do = "share"
      BY <1>0, <2>1, <2>3, TodoTail DEF Light
    <2>5. QED
      BY <2>1, <2>2, <2>3, <2>4 DEF Light
  <1>9. ASSUME NEW why, Fails(r, why)
       PROVE  Light(r)'
    <2>1. todo'[r] = <<>> /\ upd'[r] = {}
      BY <1>0, <1>9, FailsDoes DEF LocksGone
    <2>2. QED
      BY <2>1 DEF Light
  <1>10. CASE Commit(r)
    <2>1. todo'[r] = <<>> /\ upd'[r] = {}
      BY <1>0, <1>10, CommitDoes DEF LocksGone
    <2>2. QED
      BY <2>1 DEF Light
  <1>11. CASE Refresh(r)
    <2>1. todo'[r] = <<>> /\ upd'[r] = upd[r] /\ op'[r] = op[r]
      BY <1>0, <1>11, RefreshDoes DEF KeepsLocks, KeepsGoal
    <2>2. QED
      BY <2>1 DEF Light
  <1>12. QED
    BY <1>1, <1>2, <1>3, <1>4, <1>5, <1>6, <1>7, <1>8, <1>9, <1>10, <1>11 DEF Acts

LEMMA LightInductive == Spec => [](IInv /\ LightInv)
  <1>1. Init => LightInv
    BY DEF Init, LightInv, Light
  <1>2. IInv /\ LightInv /\ [Next]_vars => LightInv'
    <2>1. SUFFICES ASSUME IInv, LightInv, [Next]_vars, NEW q \in Requests
                   PROVE  Light(q)'
      BY DEF LightInv
    <2>2. Light(q) /\ TInv
      BY <2>1 DEF LightInv, IInv
    <2>3. CASE UNCHANGED vars
      BY <2>2, <2>3 DEF vars, tx, Light
    <2>4. ASSUME NEW r \in Requests, Start(r) \/ Work(r)
         PROVE  Light(q)'
      <3>1. Acts(r)
        BY <2>2, <2>4, StepActs
      <3>2. CASE q = r
        BY <2>1, <2>2, <3>1, <3>2, LightStep
      <3>3. CASE q # r
        <4>1. Untouched(q)
          BY <2>2, <3>1, <3>3, Frame
        <4>2. QED
          BY <2>2, <4>1 DEF Light, Untouched
      <3>4. QED
        BY <3>2, <3>3
    <2>5. QED
      BY <2>1, <2>3, <2>4 DEF Next
  <1>3. QED
    BY <1>1, <1>2, Inductive, PTL DEF Spec

\* q waits for d: what d holds, and that q wants.
LEMMA Blocked ==
  ASSUME NEW q \in Requests, NEW d \in Blockers(q)
  PROVE  /\ d \in Requests
         /\ \/ /\ pc[q] = "wait" /\ d # q
               /\ \E x \in want[q] \cap rows : x \in del[d] \cup upd[d] \/ Ref(x) \in share[d]
            \/ pc[q] = "check" /\ \E y \in Orphans(q) : y \in del[d]
            \/ /\ Running(q, "delete") /\ d # q
               /\ \E x \in rows \ del[q] : /\ Hits(todo[q][1], x)
                                           /\ x \in del[d] \cup upd[d] \/ Ref(x) \in share[d]
            \/ Running(q, "insert") /\ d # q /\ \E y \in ins[d] \cup del[d] : Clash(y, todo[q][1].row)
            \/ Running(q, "share") /\ d # q /\ \E y \in del[d] : Ref(y) = todo[q][1].ref
            \/ Running(q, "update") /\ d # q /\ todo[q][1].row \in del[d] \cup upd[d]
  <1>1. CASE pc[q] = "wait"
    BY <1>1 DEF Blockers, Holders, Running
  <1>2. CASE pc[q] = "check"
    BY <1>2 DEF Blockers, Running
  <1>3. CASE pc[q] \notin {"wait", "check"}
    <2>1. CASE Running(q, "delete")
      <3>1. d \in Holders(q, Found(q))
        BY <1>3, <2>1 DEF Blockers, Running
      <3>2. QED
        BY <2>1, <3>1, FoundHits DEF Holders
    <2>2. CASE Running(q, "insert")
      BY <1>3, <2>2 DEF Blockers, Running
    <2>3. CASE Running(q, "share")
      BY <1>3, <2>3 DEF Blockers, Running
    <2>4. CASE Running(q, "update")
      BY <1>3, <2>4 DEF Blockers, Running
    <2>5. QED
      BY <1>3, <2>1, <2>2, <2>3, <2>4 DEF Blockers
  <1>4. QED
    BY <1>1, <1>2, <1>3

\* Whoever waits and is waited for is a cascade, has inserted a row whose
\* references it shares one by one, or deletes a user whom a row refers to.
Adds(q) == Running(q, "share") /\ ins[q] # {} /\ del[q] = {}
DropsUser(q) ==
  /\ pc[q] = "check" /\ goal[q].table = "users"
  /\ del[q] = {goal[q]} /\ ins[q] = {} /\ upd[q] = {} /\ share[q] = {}

LEMMA Members ==
  ASSUME IInv, LightInv, NEW q \in Requests, Blockers(q) # {}, NEW p \in Requests, q \in Blockers(p)
  PROVE  q \in Cascades \/ Adds(q) \/ DropsUser(q)
  <1>0. TInv /\ Stage(q) /\ Holds(q) /\ Light(q)
    BY DEF IInv, TInv, LightInv
  <1>1. ins[q] # {} \/ del[q] # {} \/ upd[q] # {} \/ share[q] # {}
    BY Blocked
  <1>2. \/ pc[q] \in {"wait", "check"}
        \/ pc[q] = "run" /\ todo[q] # <<>>
    BY Blocked DEF Running
  <1>3. todo[q] # <<>> /\ op[q] \in Ops /\ pc[q] # "idle" /\ 1 \in DOMAIN todo[q]
    <2>1. todo[q] # <<>> /\ pc[q] # "idle"
      BY <1>0, <1>2 DEF Stage
    <2>2. QED
      BY <1>0, <2>1, TodoTail DEF TInv, RequestTypes, Stage
  <1>4. CASE op[q] = "create"
    <2>1. pc[q] = "run" /\ del[q] = {} /\ upd[q] = {}
      BY <1>0, <1>2, <1>4 DEF Stage, Holds, Light, Deletions
    <2>2. todo[q][1].do = "share" /\ ins[q] # {}
      BY <1>0, <1>1, <1>3, <1>4, <2>1 DEF Light
    <2>3. QED
      BY <1>3, <2>1, <2>2 DEF Adds, Running
  <1>5. CASE op[q] = "update"
    BY <1>0, <1>1, <1>3, <1>5 DEF Light, Holds, Deletions
  <1>6. CASE op[q] \in {"delete", "purge"}
    <2>1. ins[q] = {} /\ upd[q] = {} /\ share[q] = {} /\ pc[q] = "check"
      BY <1>0, <1>1, <1>3, <1>6 DEF Light, Holds
    <2>2. PICK y \in Orphans(q) : TRUE
      <3>1. PICK d \in Blockers(q) : TRUE
        OBVIOUS
      <3>2. QED
        BY <2>1, Blocked DEF Running
    <2>3. PICK x \in del[q] : Refers(y, x)
      BY <2>2 DEF Orphans
    <2>4. x \in Universe /\ Mine(q, x)
      BY <1>0 DEF TInv, HeldTypes, Holds
    <2>5. x.table \in {"organizations", "teams", "users"}
      BY <2>3, <2>4, RefersTo
    <2>6. op[q] = "delete" /\ x = goal[q]
      BY <1>6, <2>4, <2>5 DEF Mine, Doomed, Cascading
    <2>7. \A z \in del[q] : z = goal[q]
      BY <1>0, <2>6 DEF Holds, Mine, Doomed, Cascading
    <2>8. QED
      BY <1>0, <2>1, <2>3, <2>5, <2>6, <2>7 DEF DropsUser, Stage
  <1>7. CASE op[q] \in Cascading
    BY <1>7 DEF Cascades, Cascading
  <1>8. QED
    BY <1>3, <1>4, <1>5, <1>6, <1>7 DEF Ops, Cascading

\* A user refers to nothing.
LEMMA UsersReferToNothing ==
  ASSUME NEW y \in Universe, y.table = "users", NEW x \in Universe
  PROVE  ~Refers(y, x)
  <1>1. y.org = None /\ y.team = None /\ y.user = None /\ x.id # None
    BY DEF WellFormed
  <1>2. QED
    BY <1>1, RefersTo

\* Whoever deletes a user waits, if at all, for one that deletes a row which
\* refers to the user, and that is neither of its kind nor adding a row.
LEMMA UserWaits ==
  ASSUME IInv, NEW q \in Requests, DropsUser(q), NEW d \in Blockers(q)
  PROVE  ~Adds(d) /\ ~DropsUser(d)
  <1>1. PICK y \in Orphans(q) : y \in del[d]
    BY Blocked DEF DropsUser, Running
  <1>2. d \in Requests
    BY Blocked
  <1>3. PICK x \in del[q] : Refers(y, x)
    BY <1>1 DEF Orphans
  <1>4. x \in Universe /\ y \in Universe
    BY <1>1, <1>2 DEF IInv, TInv, HeldTypes
  <1>5. y.table # "users"
    BY <1>3, <1>4, UsersReferToNothing
  <1>6. QED
    BY <1>1, <1>5 DEF Adds, DropsUser

\* Whoever adds a row waits for one that deletes what it refers to.
LEMMA AdderWaits ==
  ASSUME NEW q \in Requests, Adds(q), NEW d \in Blockers(q)
  PROVE  ~Adds(d)
  BY Blocked DEF Adds, Running

\* A cascade waits for another request, and never for the deletion of a user.
LEMMA CascadeWaits ==
  ASSUME IInv, NEW c \in Cascades, NEW d \in Blockers(c)
  PROVE  d # c /\ ~DropsUser(d)
  <1>0. c \in Requests /\ op[c] \in Cascading /\ TInv /\ Stage(c) /\ Holds(c)
    BY DEF Cascades, Cascading, IInv, TInv
  <1>1. /\ d \in Requests
        /\ \/ pc[c] = "check" /\ \E y \in Orphans(c) : y \in del[d]
           \/ /\ d # c
              /\ \E x \in rows : /\ Mine(c, x)
                                 /\ x \in del[d] \cup upd[d] \/ Ref(x) \in share[d]
    <2>1. pc[c] # "idle" /\ rows \subseteq Universe
      BY <1>0 DEF Stage, Cascading, TInv, HeldTypes
    <2>2. \A x \in want[c] : Mine(c, x)
      BY <1>0 DEF Holds
    <2>3. ASSUME Running(c, "delete")
         PROVE  \A x \in rows : Hits(todo[c][1], x) => Mine(c, x)
      BY <1>0, <2>1, <2>3, KindOf DEF Running, Deletions, Cascading
    <2>4. ~Running(c, "insert") /\ ~Running(c, "share") /\ ~Running(c, "update")
      BY <1>0, <2>1, KindOf DEF Running, Deletions, Cascading
    <2>5. QED
      BY <1>0, <2>2, <2>3, <2>4, Blocked
  <1>2. d # c
    BY <1>1 DEF Orphans
  <1>3. SUFFICES ASSUME DropsUser(d)
                 PROVE  FALSE
    BY <1>2
  <1>4. goal[d] \in Universe /\ goal[d].table = "users"
    BY <1>1, <1>3 DEF DropsUser, IInv, TInv, HeldTypes
  <1>5. CASE \E y \in Orphans(c) : y \in del[d]
    <2>1. PICK x \in del[c] : Refers(goal[d], x)
      BY <1>3, <1>5 DEF DropsUser, Orphans
    <2>2. x \in Universe
      BY <1>0 DEF TInv, HeldTypes
    <2>3. QED
      BY <1>4, <2>1, <2>2, UsersReferToNothing
  <1>6. CASE Mine(c, goal[d])
    <2>1. goal[c] \in Universe /\ goal[c].table \in {"organizations", "teams"}
      BY <1>0 DEF Stage, Cascading
    <2>2. goal[d] # goal[c]
      BY <1>4, <2>1
    <2>3. \E t \in Universe : Refers(goal[d], t)
      BY <1>0, <1>6, <2>1, <2>2 DEF Mine, Doomed, Cascading
    <2>4. QED
      BY <1>4, <2>3, UsersReferToNothing
  <1>7. QED
    BY <1>1, <1>3, <1>5, <1>6 DEF DropsUser

\* Whenever requests wait for each other in a circle, one of them is a
\* cascading deletion, and another is one too or is adding a row.
THEOREM CirclesHaveCascades == Spec => []CirclesNeedACascade
  <1>1. IInv /\ LightInv => CirclesNeedACascade
    <2>1. SUFFICES ASSUME IInv, LightInv, NEW r \in Requests, InCircle(r)
                   PROVE  \E c \in Cascades :
                            /\ InCircle(c)
                            /\ \/ \E d \in Cascades \ {c} : InCircle(d)
                               \/ \E q \in Requests : InCircle(q) /\ ins[q] # {}
      BY DEF CirclesNeedACascade
    <2>2. PICK S \in SUBSET Requests :
            /\ r \in S
            /\ \A q \in S : Blockers(q) \cap S # {} /\ \E p \in S : q \in Blockers(p)
      BY <2>1 DEF InCircle
    <2>3. \A q \in S : q \in Requests /\ InCircle(q)
      BY <2>2 DEF InCircle
    <2>4. ASSUME NEW q \in S
         PROVE  q \in Cascades \/ Adds(q) \/ DropsUser(q)
      <3>1. PICK p \in S : q \in Blockers(p)
        BY <2>2
      <3>2. p \in Requests /\ q \in Requests /\ Blockers(q) # {}
        BY <2>2
      <3>3. QED
        BY <2>1, <3>1, <3>2, Members
    <2>5. \A q \in S : DropsUser(q) => \E c \in S : c \in Cascades
      BY <2>1, <2>2, <2>4, UserWaits
    <2>6. \A q \in S : Adds(q) => \E c \in S : c \in Cascades
      BY <2>2, <2>4, <2>5, AdderWaits
    <2>7. PICK c \in S : c \in Cascades
      BY <2>2, <2>4, <2>5, <2>6
    <2>8. PICK d \in S : d \in Blockers(c)
      BY <2>2
    <2>9. d # c /\ ~DropsUser(d)
      BY <2>1, <2>7, <2>8, CascadeWaits
    <2>10. CASE d \in Cascades
      BY <2>3, <2>7, <2>9, <2>10
    <2>11. CASE Adds(d)
      BY <2>3, <2>7, <2>11 DEF Adds
    <2>12. QED
      BY <2>4, <2>9, <2>10, <2>11
  <1>2. QED
    BY <1>1, LightInductive, PTL
=============================================================================
