------------------------------ MODULE SsoFlow ------------------------------
(***************************************************************************)
(* Single sign-on: the authorize redirect, the callback that provisions    *)
(* the user and issues tokens, and the configurations.                     *)
(*                                                                         *)
(*   src/src/app/services/sso_service.py, oidc_client.py                   *)
(*   src/src/app/routes/sso_routes.py                                      *)
(*                                                                         *)
(* A step is what a handler does between two awaits.  The database is at   *)
(* READ COMMITTED: an INSERT waits for the transaction that has inserted   *)
(* the same key, an UPDATE for the one that has updated the row.  After a  *)
(* rollback SQLAlchemy has expired every object of the session, and the    *)
(* next attribute that is read of one fails (MissingGreenlet): the load it *)
(* would need cannot be awaited there.                                     *)
(*                                                                         *)
(* A request runs once.  A state token is told apart by the organization   *)
(* it was made for, and by its age.  Other routes create users and add     *)
(* members meanwhile, and delete teams; organizations, users and           *)
(* memberships are not removed here.                                       *)
(***************************************************************************)
EXTENDS Naturals, Sequences, FiniteSets, SequencesExt

CONSTANTS
  Requests, Orgs, Emails, Groups, Teams,
  Domains, DomainOf(_),  \* what follows the @ of an e-mail
  Configs,      \* the SSO configurations an administrator may create
  GroupLists,   \* the lists of groups the IdP may report
  MaxStates,    \* maxsize of _state_store
  Gifts,        \* bound on what other routes write of whom meanwhile,
  Removed,      \* and on the configurations and teams that they delete
  Account,      \* the user's row, among what a person has
  Malformed,    \* a team id of a mapping that is not a UUID
  None

Belongings == {Account} \cup Orgs \cup Teams

Config == [domains : SUBSET Domains,  \* allowed_domains, {} is every domain
           teams   : [Groups -> Teams \cup {Malformed, None}]]  \* group_to_team_mapping

ASSUME SsoAssumption ==
  /\ \A e \in Emails : DomainOf(e) \in Domains
  /\ Configs \subseteq Config /\ GroupLists \subseteq Seq(Groups)
  /\ MaxStates \in Nat \ {0}
  /\ Gifts \subseteq Emails \X Belongings
  /\ Account \notin Orgs \cup Teams /\ Orgs \cap Teams = {}
  /\ None \notin Requests \cup Orgs \cup Emails \cup Teams \cup Configs
  /\ Malformed \notin Teams \cup {None}

VARIABLES
  config,     \* sso_configs
  store,      \* _state_store, the organizations of its states, oldest first
  users,      \* the users table: "absent", "password" or "linked"
  orgMember,  \* org_memberships
  teamMember, \* team_memberships
  teams,      \* the teams that exist
  pc, kind, org,
  cfg,        \* per callback: the configuration it has loaded,
  email,      \*   the claims,
  groups,     \*   the groups it has yet to map,
  found,      \*   the user's row as it was loaded,
  pending,    \*   the teams it has joined the user to, uncommitted,
  stale,      \*   and the objects that a rollback has expired
  answer,     \* the HTTP status
  failed,     \* history: the step that failed
  before,     \* history: the requests that had ended when it began
  claimed,    \* history: the groups of the claims
  given       \* history: what its person had when the claims came in, or got
              \* from other routes after that

db == <<config, users, orgMember, teamMember, teams>>
local == <<kind, org, cfg, email, groups, found, pending, stale, claimed, before>>
vars == <<db, store, pc, local, answer, failed, given>>

NoTeams == [g \in Groups |-> None]

Init ==
  /\ config \in [Orgs -> Configs \cup {None}]
  /\ store \in BoundedSeq(Orgs, MaxStates)
  /\ users \in [Emails -> {"absent", "password"}]
  /\ orgMember \in SUBSET {m \in Emails \X Orgs : users[m[1]] # "absent"}
  /\ teamMember \in SUBSET {m \in Emails \X Teams : users[m[1]] # "absent"}
  /\ teams = Teams
  /\ pc = [r \in Requests |-> "idle"]
  /\ kind = [r \in Requests |-> "none"]
  /\ org = [r \in Requests |-> None] /\ cfg = [r \in Requests |-> None]
  /\ email = [r \in Requests |-> None]
  /\ groups = [r \in Requests |-> <<>>] /\ claimed = [r \in Requests |-> <<>>]
  /\ found = [r \in Requests |-> "absent"]
  /\ pending = [r \in Requests |-> {}] /\ stale = [r \in Requests |-> {}]
  /\ answer = [r \in Requests |-> 0]
  /\ failed = [r \in Requests |-> "none"]
  /\ before = [r \in Requests |-> {}]
  /\ given = [r \in Requests |-> {}]

Go(r, step) == pc' = [pc EXCEPT ![r] = step]

\* The response, or the exception that becomes one; the session is closed.
Answer(r, status) ==
  /\ Go(r, "done")
  /\ answer' = [answer EXCEPT ![r] = status]
  /\ failed' = [failed EXCEPT ![r] = IF status = 500 THEN pc[r] ELSE "none"]

Begin(r, k, o) ==
  /\ pc[r] = "idle"
  /\ kind' = [kind EXCEPT ![r] = k]
  /\ org' = [org EXCEPT ![r] = o]
  /\ before' = [before EXCEPT ![r] = {q \in Requests : pc[q] = "done"}]
-----------------------------------------------------------------------------
(***************************************************************************)
(* Authorize.  An operator whose name begins with Bug is a wrong version   *)
(* of the one that follows it: the properties are tested against it and no *)
(* specification uses it.                                                  *)
(***************************************************************************)
BugAuthorizeUnbounded(r, o) ==
  /\ config[o] # None
  /\ Begin(r, "authorize", o)
  /\ Go(r, "discover")
  /\ store' = Append(store, o)
  /\ UNCHANGED <<db, cfg, email, groups, found, pending, stale, claimed, answer, failed, given>>

\* build_authorize_url up to the discovery: the state is stored before it.
\* A full TTLCache makes room.
Authorize(r, o) ==
  /\ config[o] # None
  /\ Begin(r, "authorize", o)
  /\ Go(r, "discover")
  /\ store' = Append(IF Len(store) < MaxStates THEN store ELSE Tail(store), o)
  /\ UNCHANGED <<db, cfg, email, groups, found, pending, stale, claimed, answer, failed, given>>

\* 404
AuthorizeUnknown(r, o) ==
  /\ config[o] = None
  /\ Begin(r, "authorize", o)
  /\ Answer(r, 404)
  /\ UNCHANGED <<db, store, cfg, email, groups, found, pending, stale, claimed, given>>

\* The IdP answers the discovery, or does not; the state stays either way.
Discover(r) ==
  /\ pc[r] = "discover"
  /\ \E status \in {307, 500} : Answer(r, status)
  /\ UNCHANGED <<db, store, local, given>>

\* ttl = 600
Expire ==
  /\ store # <<>>
  /\ store' = Tail(store)
  /\ UNCHANGED <<db, pc, local, answer, failed, given>>
-----------------------------------------------------------------------------
(***************************************************************************)
(* The callback, up to the claims.                                         *)
(***************************************************************************)
\* validate_and_consume_state
Callback(r) ==
  \E i \in 1..Len(store) :
    /\ Begin(r, "callback", store[i])
    /\ store' = RemoveAt(store, i)
    /\ Go(r, "config")
    /\ UNCHANGED <<db, cfg, email, groups, found, pending, stale, claimed, answer, failed, given>>

\* 400: the state was never made, is used, expired or evicted, or was lost
\* with the process.
CallbackUnknown(r) ==
  /\ Begin(r, "callback", None)
  /\ Answer(r, 400)
  /\ UNCHANGED <<db, store, cfg, email, groups, found, pending, stale, claimed, given>>

ReadConfig(r) ==
  /\ pc[r] = "config"
  /\ IF config[org[r]] = None
     THEN Answer(r, 404) /\ UNCHANGED cfg
     ELSE /\ cfg' = [cfg EXCEPT ![r] = config[org[r]]]
          /\ Go(r, "exchange") /\ UNCHANGED <<answer, failed>>
  /\ UNCHANGED <<db, store, kind, org, email, groups, found, pending, stale, claimed, before, given>>

\* What the database holds of a person.
Has(e) == (IF users[e] = "absent" THEN {} ELSE {Account})
            \cup {o \in Orgs : <<e, o>> \in orgMember}
            \cup {t \in Teams : <<e, t>> \in teamMember}

Allowed(c, e) == c.domains = {} \/ DomainOf(e) \in c.domains

\* Discovery, exchange_code and fetch_userinfo: 500 when the IdP refuses or
\* does not answer, 400 without an e-mail, 403 for a foreign domain.
ExchangeCode(r) ==
  /\ pc[r] = "exchange"
  /\ \/ /\ \E status \in {400, 500} : Answer(r, status)
        /\ UNCHANGED <<email, groups, claimed, given>>
     \/ \E e \in Emails, gs \in GroupLists :
          /\ email' = [email EXCEPT ![r] = e]
          /\ groups' = [groups EXCEPT ![r] = gs]
          /\ claimed' = [claimed EXCEPT ![r] = gs]
          /\ given' = [given EXCEPT ![r] = Has(e)]
          /\ IF Allowed(cfg[r], e) THEN Go(r, "select") /\ UNCHANGED <<answer, failed>>
                                   ELSE Answer(r, 403)
  /\ UNCHANGED <<db, store, kind, org, cfg, found, pending, stale, before>>
-----------------------------------------------------------------------------
(***************************************************************************)
(* provision_sso_user.                                                     *)
(***************************************************************************)
\* The callbacks that have inserted, or updated, the row of e and not yet
\* committed, and those that have inserted its membership of o.
Holding(e) == {q \in Requests : /\ email[q] = e /\ found[q] # "linked"
                                /\ pc[q] \in {"member", "commit"}}
Joining(e, o) == {q \in Requests : /\ email[q] = e /\ org[q] = o
                                   /\ pc[q] = "commit"}

SelectUser(r) ==
  /\ pc[r] = "select"
  /\ found' = [found EXCEPT ![r] = users[email[r]]]
  /\ Go(r, "flush")
  /\ UNCHANGED <<db, store, kind, org, cfg, email, groups, pending, stale, claimed, before>>
  /\ UNCHANGED <<answer, failed, given>>

\* INSERT the new user, whose e-mail is unique, or UPDATE the provider and
\* subject of the one that was found, if they change.
FlushUser(r) ==
  /\ pc[r] = "flush"
  /\ found[r] # "linked" => Holding(email[r]) = {}
  /\ IF found[r] = "absent" /\ users[email[r]] # "absent"
     THEN Answer(r, 500)
     ELSE Go(r, "member") /\ UNCHANGED <<answer, failed>>
  /\ UNCHANGED <<db, store, local, given>>

BugFlushMemberCommitsUser(r) ==
  /\ pc[r] = "member"
  /\ users' = [users EXCEPT ![email[r]] = "linked"]
  /\ Go(r, "commit")
  /\ UNCHANGED <<config, orgMember, teamMember, teams, store, local, answer, failed, given>>

\* INSERT the membership.  One that exists undoes the flush of the user.
FlushMember(r) ==
  /\ pc[r] = "member"
  /\ Joining(email[r], org[r]) = {}
  /\ IF <<email[r], org[r]>> \in orgMember
     THEN /\ stale' = [stale EXCEPT ![r] = {"config"}]
          /\ Go(r, "reselect")
     ELSE Go(r, "commit") /\ UNCHANGED stale
  /\ UNCHANGED <<db, store, kind, org, cfg, email, groups, found, pending, claimed, before>>
  /\ UNCHANGED <<answer, failed, given>>

BugAfterProvisionReadsFirst(r) ==
  IF "config" \in stale[r] THEN Answer(r, 500)
  ELSE /\ Go(r, IF groups[r] = <<>> \/ cfg[r].teams = NoTeams THEN "tokens" ELSE "groups")
       /\ UNCHANGED <<answer, failed>>

\* What the callback goes on to once the user is provisioned.  The mapping
\* is an attribute of the configuration.
AfterProvision(r) ==
  IF groups[r] # <<>> /\ "config" \in stale[r] THEN Answer(r, 500)
  ELSE /\ Go(r, IF groups[r] = <<>> \/ cfg[r].teams = NoTeams THEN "tokens" ELSE "groups")
       /\ UNCHANGED <<answer, failed>>

BugReselectRetries(r) ==
  /\ pc[r] = "reselect"
  /\ Go(r, "select")
  /\ UNCHANGED <<db, store, local, answer, failed, given>>

\* The SELECT after the rollback loads the user again, and only the user;
\* there is nothing left to commit.
Reselect(r) ==
  /\ pc[r] = "reselect"
  /\ AfterProvision(r)
  /\ UNCHANGED <<db, store, local, given>>

\* COMMIT and refresh.
CommitUser(r) ==
  /\ pc[r] = "commit"
  /\ users' = [users EXCEPT ![email[r]] = "linked"]
  /\ orgMember' = orgMember \cup {<<email[r], org[r]>>}
  /\ AfterProvision(r)
  /\ UNCHANGED <<config, teamMember, teams, store, local, given>>
-----------------------------------------------------------------------------
(***************************************************************************)
(* map_groups_to_teams and the tokens.                                     *)
(***************************************************************************)
\* The team of the next group, and who else is joining the user to it.
NextTeam(r) == cfg[r].teams[Head(groups[r])]
Rivals(r) ==
  IF pc[r] = "groups" /\ groups[r] # <<>>
  THEN {q \in Requests \ {r} : email[q] = email[r] /\ NextTeam(r) \in pending[q]}
  ELSE {}

SkipGroup(r) ==
  /\ pc[r] = "groups" /\ groups[r] # <<>>
  /\ NextTeam(r) = None
  /\ groups' = [groups EXCEPT ![r] = Tail(@)]
  /\ UNCHANGED <<db, store, pc, kind, org, cfg, email, found, pending, stale, claimed, before>>
  /\ UNCHANGED <<answer, failed, given>>

BugMapGroupForgetsExpiry(r) ==
  /\ pc[r] = "groups" /\ groups[r] # <<>> /\ NextTeam(r) \in Teams
  /\ Rivals(r) = {}
  /\ LET t == NextTeam(r)
     IN IF t \notin teams \/ <<email[r], t>> \in teamMember \/ t \in pending[r]
        THEN pending' = [pending EXCEPT ![r] = {}]
        ELSE pending' = [pending EXCEPT ![r] = @ \cup {t}]
  /\ groups' = [groups EXCEPT ![r] = Tail(@)]
  /\ UNCHANGED <<db, store, pc, kind, org, cfg, email, found, stale, claimed, before>>
  /\ UNCHANGED <<answer, failed, given>>

\* INSERT the membership; one that exists, or a team that does not, rolls
\* back those before it and expires the user.
MapGroup(r) ==
  /\ pc[r] = "groups" /\ groups[r] # <<>> /\ NextTeam(r) \in Teams
  /\ Rivals(r) = {}
  /\ LET t == NextTeam(r)
     IN IF t \notin teams \/ <<email[r], t>> \in teamMember \/ t \in pending[r]
        THEN /\ pending' = [pending EXCEPT ![r] = {}]
             /\ stale' = [stale EXCEPT ![r] = @ \cup {"user"}]
        ELSE /\ pending' = [pending EXCEPT ![r] = @ \cup {t}]
             /\ UNCHANGED stale
  /\ groups' = [groups EXCEPT ![r] = Tail(@)]
  /\ UNCHANGED <<db, store, pc, kind, org, cfg, email, found, claimed, before>>
  /\ UNCHANGED <<answer, failed, given>>

\* uuid.UUID raises on an id that is none: the mapping is not validated when
\* the configuration is created.
MapMalformed(r) ==
  /\ pc[r] = "groups" /\ groups[r] # <<>> /\ NextTeam(r) = Malformed
  /\ pending' = [pending EXCEPT ![r] = {}]
  /\ Answer(r, 500)
  /\ UNCHANGED <<db, store, kind, org, cfg, email, groups, found, stale, claimed, before, given>>

CommitGroups(r) ==
  /\ pc[r] = "groups" /\ groups[r] = <<>>
  /\ teamMember' = teamMember \cup ({email[r]} \X pending[r])
  /\ pending' = [pending EXCEPT ![r] = {}]
  /\ Go(r, "tokens")
  /\ UNCHANGED <<config, users, orgMember, teams, store, kind, org, cfg, email, groups, found>>
  /\ UNCHANGED <<stale, claimed, before, answer, failed, given>>

\* PostgreSQL aborts one of a circle that wait for each other's memberships:
\* each for one of them, and each waited for by one.
Deadlocked(r) ==
  /\ \E S \in SUBSET Requests :
       r \in S /\ \A q \in S : Rivals(q) \cap S # {} /\ \E p \in S : q \in Rivals(p)
  /\ pending' = [pending EXCEPT ![r] = {}]
  /\ Answer(r, 500)
  /\ UNCHANGED <<db, store, kind, org, cfg, email, groups, found, stale, claimed, before, given>>

\* create_tokens reads user.id; the redirect carries the tokens.
IssueTokens(r) ==
  /\ pc[r] = "tokens"
  /\ Answer(r, IF "user" \in stale[r] THEN 500 ELSE 307)
  /\ UNCHANGED <<db, store, local, given>>
-----------------------------------------------------------------------------
(***************************************************************************)
(* Around the logins.                                                      *)
(***************************************************************************)
\* The second configuration of an organization is refused with 409.
CreateConfig(o, c) ==
  /\ config[o] = None
  /\ config' = [config EXCEPT ![o] = c]
  /\ UNCHANGED <<users, orgMember, teamMember, teams, store, pc, local, answer, failed, given>>

DeleteConfig(o) ==
  /\ o \in Removed
  /\ config[o] # None
  /\ config' = [config EXCEPT ![o] = None]
  /\ UNCHANGED <<users, orgMember, teamMember, teams, store, pc, local, answer, failed, given>>

\* Another route has written x of the person e: what the callbacks of e which
\* are under way did not.
Gives(e, x) ==
  /\ <<e, x>> \in Gifts
  /\ given' = [r \in Requests |-> IF email[r] = e /\ pc[r] # "done"
                                  THEN given[r] \cup {x} ELSE given[r]]
  /\ UNCHANGED <<config, teams, store, pc, local, answer, failed>>

\* POST /users.  An e-mail that a callback has inserted is waited for.
CreateUser(e) ==
  /\ users[e] = "absent" /\ Holding(e) = {}
  /\ users' = [users EXCEPT ![e] = "password"]
  /\ Gives(e, Account)
  /\ UNCHANGED <<orgMember, teamMember>>

\* add_member of an organization, and of a team.
AddOrgMember(e, o) ==
  /\ users[e] # "absent" /\ <<e, o>> \notin orgMember /\ Joining(e, o) = {}
  /\ orgMember' = orgMember \cup {<<e, o>>}
  /\ Gives(e, o)
  /\ UNCHANGED <<users, teamMember>>

AddTeamMember(e, t) ==
  /\ users[e] # "absent" /\ t \in teams /\ <<e, t>> \notin teamMember
  /\ \A q \in Requests : email[q] = e => t \notin pending[q]
  /\ teamMember' = teamMember \cup {<<e, t>>}
  /\ Gives(e, t)
  /\ UNCHANGED <<users, orgMember>>

\* A team goes with its memberships, once no INSERT refers to it.
DeleteTeam(t) ==
  /\ t \in Removed \cap teams
  /\ \A q \in Requests : t \notin pending[q]
  /\ teams' = teams \ {t}
  /\ teamMember' = {m \in teamMember : m[2] # t}
  /\ UNCHANGED <<config, users, orgMember, store, pc, local, answer, failed, given>>

\* The process stops: the states are gone, and what was not committed, with
\* the objects that the callbacks have loaded.
Restart ==
  /\ store' = <<>>
  /\ pc' = [r \in Requests |-> IF pc[r] = "idle" THEN "idle" ELSE "done"]
  /\ pending' = [r \in Requests |-> {}] /\ stale' = [r \in Requests |-> {}]
  /\ groups' = [r \in Requests |-> <<>>]
  /\ cfg' = [r \in Requests |-> IF pc[r] = "done" THEN cfg[r] ELSE None]
  /\ found' = [r \in Requests |-> IF pc[r] = "done" THEN found[r] ELSE "absent"]
  /\ UNCHANGED <<db, kind, org, email, claimed, before, answer, failed, given>>

Login(r) ==
  \/ Discover(r) \/ ReadConfig(r) \/ ExchangeCode(r)
  \/ SelectUser(r) \/ FlushUser(r) \/ FlushMember(r) \/ Reselect(r) \/ CommitUser(r)
  \/ SkipGroup(r) \/ MapGroup(r) \/ MapMalformed(r) \/ CommitGroups(r)
  \/ Deadlocked(r) \/ IssueTokens(r)

Next ==
  \/ \E r \in Requests :
       \/ \E o \in Orgs : Authorize(r, o) \/ AuthorizeUnknown(r, o)
       \/ Callback(r) \/ CallbackUnknown(r)
       \/ Login(r)
  \/ Expire
  \/ \E o \in Orgs : DeleteConfig(o) \/ \E c \in Configs : CreateConfig(o, c)
  \/ \E t \in Teams : DeleteTeam(t)
  \/ \E e \in Emails : \/ CreateUser(e)
                       \/ \E o \in Orgs : AddOrgMember(e, o)
                       \/ \E t \in Teams : AddTeamMember(e, t)
  \/ Restart

Spec == Init /\ [][Next]_vars

\* The database and the IdP answer: the calls of OIDCClient time out after
\* ten seconds.
FairSpec == Spec /\ \A r \in Requests : WF_vars(Login(r))
-----------------------------------------------------------------------------
(***************************************************************************)
(* Properties                                                              *)
(***************************************************************************)
Steps == {"idle", "discover", "config", "exchange", "select", "flush", "member",
          "reselect", "commit", "groups", "tokens", "done"}

\* Every variable has its type, _state_store keeps to its size, and what is
\* not committed is held only by a callback that is mapping groups.
TypeOK ==
  /\ config \in [Orgs -> Configs \cup {None}]
  /\ store \in Seq(Orgs) /\ Len(store) <= MaxStates
  /\ users \in [Emails -> {"absent", "password", "linked"}]
  /\ orgMember \subseteq Emails \X Orgs /\ teamMember \subseteq Emails \X teams
  /\ teams \subseteq Teams
  /\ pc \in [Requests -> Steps]
  /\ kind \in [Requests -> {"none", "authorize", "callback"}]
  /\ org \in [Requests -> Orgs \cup {None}]
  /\ cfg \in [Requests -> Configs \cup {None}]
  /\ email \in [Requests -> Emails \cup {None}]
  /\ groups \in [Requests -> Seq(Groups)] /\ claimed \in [Requests -> Seq(Groups)]
  /\ found \in [Requests -> {"absent", "password", "linked"}]
  /\ pending \in [Requests -> SUBSET teams]
  /\ \A r \in Requests : pending[r] # {} => pc[r] = "groups"
  /\ stale \in [Requests -> SUBSET {"user", "config"}]
  /\ answer \in [Requests -> {0, 307, 400, 403, 404, 500}]
  /\ failed \in [Requests -> Steps \cup {"none"}]
  /\ before \in [Requests -> SUBSET Requests]
  /\ given \in [Requests -> SUBSET Belongings]

\* The teams that the claims of r map to.
TeamOf(r, i) == cfg[r].teams[claimed[r][i]]
Mapped(r) == {TeamOf(r, i) : i \in DOMAIN claimed[r]} \cap Teams

\* Tokens are issued (sso_routes.py:206) only to someone whose domain the
\* configuration allows, who is in the database and a member of the
\* organization, and whom every group of the claims has joined to its team,
\* as long as there is such a team.
TokensMeanProvisioned ==
  \A r \in Requests :
    kind[r] = "callback" /\ answer[r] = 307 =>
      /\ cfg[r].domains # {} => DomainOf(email[r]) \in cfg[r].domains
      /\ users[email[r]] # "absent"
      /\ <<email[r], org[r]>> \in orgMember
      /\ {email[r]} \X (Mapped(r) \cap teams) \subseteq teamMember

\* The callbacks of the same person that ran while r did.
Overlaps(r) ==
  {q \in Requests \ {r} : email[q] = email[r] /\ q \notin before[r] /\ r \notin before[q]}

\* Where a callback fails after the claims are in, it does so for one of these
\* reasons.  Inserting the user: somebody else has inserted that person since
\* the SELECT, another callback or POST /users.  Reading the mapping, when the
\* claims bear groups: the person had become a member of the organization
\* before this callback inserted the membership.  Between the groups: a team
\* id of the mapping is malformed, or callbacks of that person wait for each
\* other.  At the tokens: the person was put into one of the teams by somebody
\* else, the team is gone, or two of the groups map to it.
FailsForAReason ==
  \A r \in Requests :
    /\ failed[r] \notin {"select", "member", "commit"}
    /\ failed[r] = "flush" =>
         found[r] = "absent" /\ (Overlaps(r) # {} \/ Account \in given[r])
    /\ failed[r] = "reselect" =>
         claimed[r] # <<>> /\ (Overlaps(r) # {} \/ org[r] \in given[r])
    /\ failed[r] = "groups" =>
         \/ \E i \in DOMAIN claimed[r] : TeamOf(r, i) = Malformed
         \/ Overlaps(r) # {} /\ Cardinality(Mapped(r)) > 1
    /\ failed[r] = "tokens" =>
         \/ Overlaps(r) # {}
         \/ \E i \in DOMAIN claimed[r] :
              /\ TeamOf(r, i) \in Teams
              /\ \/ TeamOf(r, i) \in given[r] \/ TeamOf(r, i) \notin teams
                 \/ \E j \in DOMAIN claimed[r] \ {i} : TeamOf(r, j) = TeamOf(r, i)

\* A user that single sign-on has linked is a member of an organization in
\* the same commit (sso_service.py:172), whatever fails or stops in between.
LinkedUsersBelong ==
  \A e \in Emails :
    users[e] = "linked" => \E o \in Orgs : <<e, o>> \in orgMember

\* Every request ends: the exchanges time out, and of callbacks that wait for
\* each other's memberships PostgreSQL aborts one.
LoginEnds ==
  \A r \in Requests : pc[r] # "idle" ~> pc[r] = "done"
=============================================================================
