--------------------------- MODULE SsoFlowProofs ---------------------------
(***************************************************************************)
(* For any number of requests, organizations, persons, groups and teams:   *)
(* what issued tokens mean, why a callback fails, and that linked users    *)
(* are members.                                                            *)
(***************************************************************************)
EXTENDS SsoFlow, FiniteSetTheorems, TLAPS

USE SsoAssumption

\* The steps of a callback once the claims are in, and those of them before
\* the person's organization is settled.
Provisioning == {"select", "flush", "member", "reselect", "commit"}
Past == Provisioning \cup {"groups", "tokens"}

\* What a request knows at each step, and what it has not touched yet.
Stages ==
  \A r \in Requests :
    /\ pc[r] = "discover" => kind[r] = "authorize"
    /\ pc[r] \in {"config", "exchange"} \cup Past => kind[r] = "callback" /\ org[r] \in Orgs
    /\ pc[r] \in {"exchange"} \cup Past => cfg[r] \in Configs
    /\ pc[r] \in Past => email[r] \in Emails /\ Allowed(cfg[r], email[r])
    /\ pc[r] \in {"idle", "discover", "config", "exchange"} =>
         email[r] = None /\ groups[r] = <<>>
    /\ pc[r] \in {"idle", "discover", "config", "exchange", "select", "flush", "member", "commit"} =>
         stale[r] = {}
    /\ pc[r] \in Provisioning => groups[r] = claimed[r]
    /\ pc[r] # "done" => answer[r] = 0 /\ failed[r] = "none"
    /\ \A q \in before[r] : pc[q] = "done"

\* TypeOK in four parts: the database and the store, the control of the
\* requests, what they have loaded, and the lists of groups.
DbTypes ==
  /\ config \in [Orgs -> Configs \cup {None}]
  /\ store \in Seq(Orgs) /\ Len(store) <= MaxStates
  /\ users \in [Emails -> {"absent", "password", "linked"}]
  /\ orgMember \subseteq Emails \X Orgs /\ teamMember \subseteq Emails \X teams
  /\ teams \subseteq Teams

ControlTypes ==
  /\ pc \in [Requests -> Steps]
  /\ kind \in [Requests -> {"none", "authorize", "callback"}]
  /\ org \in [Requests -> Orgs \cup {None}]
  /\ answer \in [Requests -> {0, 307, 400, 403, 404, 500}]
  /\ failed \in [Requests -> Steps \cup {"none"}]
  /\ before \in [Requests -> SUBSET Requests]

LoadedTypes ==
  /\ cfg \in [Requests -> Configs \cup {None}]
  /\ email \in [Requests -> Emails \cup {None}]
  /\ found \in [Requests -> {"absent", "password", "linked"}]
  /\ pending \in [Requests -> SUBSET teams]
  /\ \A r \in Requests : pending[r] # {} => pc[r] = "groups"
  /\ stale \in [Requests -> SUBSET {"user", "config"}]
  /\ given \in [Requests -> SUBSET Belongings]

Lists == groups \in [Requests -> Seq(Groups)] /\ claimed \in [Requests -> Seq(Groups)]

TInv == DbTypes /\ ControlTypes /\ LoadedTypes /\ Lists /\ Stages

LEMMA TypeParts == TypeOK <=> DbTypes /\ ControlTypes /\ LoadedTypes /\ Lists
  BY DEF TypeOK, DbTypes, ControlTypes, LoadedTypes, Lists

LEMMA ConfigFields ==
  ASSUME NEW c \in Configs
  PROVE  c.domains \subseteq Domains /\ c.teams \in [Groups -> Teams \cup {Malformed, None}]
  BY DEF Config

LEMMA TailOf ==
  ASSUME NEW S, NEW s \in Seq(S), s # <<>>
  PROVE  Head(s) \in S /\ Tail(s) \in Seq(S) /\ Len(Tail(s)) = Len(s) - 1
  OBVIOUS

LEMMA InitTInv == Init => TInv
  <1> SUFFICES ASSUME Init PROVE TInv
    OBVIOUS
  <1> USE DEF Init
  <1>1. store \in Seq(Orgs) /\ Len(store) <= MaxStates
    BY DEF BoundedSeq, SeqOf
  <1>2. DbTypes /\ ControlTypes /\ LoadedTypes /\ Lists
    BY <1>1 DEF DbTypes, ControlTypes, LoadedTypes, Lists, Steps
  <1>3. Stages
    BY DEF Stages, Past, Provisioning
  <1>4. QED
    BY <1>2, <1>3 DEF TInv

LEMMA DbStep == TInv /\ [Next]_vars => DbTypes'
  <1> SUFFICES ASSUME TInv, [Next]_vars
               PROVE  DbTypes'
    OBVIOUS
  <1> USE DEF TInv, DbTypes, Begin, db
  <1>1. ASSUME NEW r \in Requests, NEW o \in Orgs, Authorize(r, o)
       PROVE  DbTypes'
    <2>1. store' \in Seq(Orgs) /\ Len(store') <= MaxStates
      <3>1. CASE Len(store) < MaxStates
        BY <1>1, <3>1 DEF Authorize
      <3>2. CASE ~(Len(store) < MaxStates)
        <4>1. store # <<>>
          BY <3>2
        <4>2. Tail(store) \in Seq(Orgs) /\ Len(Tail(store)) = Len(store) - 1
          BY <4>1, TailOf
        <4>3. QED
          BY <1>1, <3>2, <4>2 DEF Authorize
      <3>3. QED
        BY <3>1, <3>2
    <2>2. QED
      BY <1>1, <2>1 DEF Authorize
  <1>2. ASSUME NEW r \in Requests, NEW o \in Orgs, AuthorizeUnknown(r, o)
       PROVE  DbTypes'
    BY <1>2 DEF AuthorizeUnknown
  <1>3. ASSUME NEW r \in Requests, Discover(r)
       PROVE  DbTypes'
    BY <1>3 DEF Discover
  <1>4. CASE Expire
    <2>1. Tail(store) \in Seq(Orgs) /\ Len(Tail(store)) = Len(store) - 1
      BY <1>4, TailOf DEF Expire
    <2>2. QED
      BY <1>4, <2>1 DEF Expire
  <1>5. ASSUME NEW r \in Requests, Callback(r)
       PROVE  DbTypes'
    <2>1. PICK i \in 1..Len(store) : /\ Begin(r, "callback", store[i])
                                     /\ store' = RemoveAt(store, i)
      BY <1>5 DEF Callback
    <2>2. store[i] \in Orgs
      OBVIOUS
    <2>3. /\ SubSeq(store, 1, i - 1) \in Seq(Orgs) /\ Len(SubSeq(store, 1, i - 1)) = i - 1
          /\ SubSeq(store, i + 1, Len(store)) \in Seq(Orgs)
          /\ Len(SubSeq(store, i + 1, Len(store))) = Len(store) - i
      OBVIOUS
    <2>4. store' \in Seq(Orgs) /\ Len(store') <= MaxStates
      BY <2>1, <2>3 DEF RemoveAt
    <2>5. QED
      BY <1>5, <2>1, <2>2, <2>4 DEF Callback
  <1>6. ASSUME NEW r \in Requests, CallbackUnknown(r)
       PROVE  DbTypes'
    BY <1>6 DEF CallbackUnknown
  <1>7. ASSUME NEW r \in Requests, ReadConfig(r)
       PROVE  DbTypes'
    BY <1>7 DEF ReadConfig
  <1>8. ASSUME NEW r \in Requests, ExchangeCode(r)
       PROVE  DbTypes'
    BY <1>8 DEF ExchangeCode
  <1>9. ASSUME NEW r \in Requests, SelectUser(r)
       PROVE  DbTypes'
    BY <1>9 DEF SelectUser
  <1>10. ASSUME NEW r \in Requests, FlushUser(r)
       PROVE  DbTypes'
    BY <1>10 DEF FlushUser
  <1>11. ASSUME NEW r \in Requests, FlushMember(r)
       PROVE  DbTypes'
    BY <1>11 DEF FlushMember
  <1>12. ASSUME NEW r \in Requests, Reselect(r)
       PROVE  DbTypes'
    BY <1>12 DEF Reselect
  <1>13. ASSUME NEW r \in Requests, CommitUser(r)
       PROVE  DbTypes'
    <2>1. email[r] \in Emails /\ org[r] \in Orgs
      BY <1>13 DEF CommitUser, Stages, Past, Provisioning
    <2>2. QED
      BY <1>13, <2>1 DEF CommitUser
  <1>14. ASSUME NEW r \in Requests, SkipGroup(r)
       PROVE  DbTypes'
    BY <1>14 DEF SkipGroup
  <1>15. ASSUME NEW r \in Requests, MapGroup(r)
       PROVE  DbTypes'
    BY <1>15 DEF MapGroup
  <1>16. ASSUME NEW r \in Requests, CommitGroups(r)
       PROVE  DbTypes'
    <2>1. email[r] \in Emails /\ pending[r] \subseteq teams
      BY <1>16 DEF CommitGroups, Stages, Past, LoadedTypes
    <2>2. {email[r]} \X pending[r] \subseteq Emails \X teams
      BY <2>1
    <2>3. QED
      BY <1>16, <2>2 DEF CommitGroups
  <1>17. ASSUME NEW r \in Requests, Deadlocked(r)
       PROVE  DbTypes'
    BY <1>17 DEF Deadlocked
  <1>18. ASSUME NEW r \in Requests, IssueTokens(r)
       PROVE  DbTypes'
    BY <1>18 DEF IssueTokens
  <1>19. ASSUME NEW o \in Orgs, DeleteConfig(o)
       PROVE  DbTypes'
    BY <1>19 DEF DeleteConfig
  <1>20. ASSUME NEW o \in Orgs, NEW c \in Configs, CreateConfig(o, c)
       PROVE  DbTypes'
    BY <1>20 DEF CreateConfig
  <1>21. ASSUME NEW t \in Teams, DeleteTeam(t)
       PROVE  DbTypes'
    BY <1>21 DEF DeleteTeam
  <1>22. ASSUME NEW r \in Requests, MapMalformed(r)
       PROVE  DbTypes'
    BY <1>22 DEF MapMalformed
  <1>23. ASSUME NEW e \in Emails, CreateUser(e)
       PROVE  DbTypes'
    BY <1>23 DEF CreateUser, Gives
  <1>24. ASSUME NEW e \in Emails, NEW o \in Orgs, AddOrgMember(e, o)
       PROVE  DbTypes'
    BY <1>24 DEF AddOrgMember, Gives
  <1>25. ASSUME NEW e \in Emails, NEW t \in Teams, AddTeamMember(e, t)
       PROVE  DbTypes'
    BY <1>25 DEF AddTeamMember, Gives
  <1>26. CASE Restart
    BY <1>26 DEF Restart
  <1>27. CASE UNCHANGED vars
    BY <1>27 DEF vars
  <1>28. QED
    BY <1>1, <1>2, <1>3, <1>4, <1>5, <1>6, <1>7, <1>8, <1>9, <1>10, <1>11, <1>12, <1>13, <1>14,
       <1>15, <1>16, <1>17, <1>18, <1>19, <1>20, <1>21, <1>22, <1>23, <1>24, <1>25, <1>26,
       <1>27 DEF Next, Login

LEMMA ControlStep == TInv /\ [Next]_vars => ControlTypes'
  <1> SUFFICES ASSUME TInv, [Next]_vars
               PROVE  ControlTypes'
    OBVIOUS
  <1> USE DEF TInv, ControlTypes, Steps, Begin, Go, Answer, local
  <1>1. ASSUME NEW r \in Requests, NEW o \in Orgs, Authorize(r, o)
       PROVE  ControlTypes'
    BY <1>1 DEF Authorize
  <1>2. ASSUME NEW r \in Requests, NEW o \in Orgs, AuthorizeUnknown(r, o)
       PROVE  ControlTypes'
    BY <1>2 DEF AuthorizeUnknown
  <1>3. ASSUME NEW r \in Requests, Discover(r)
       PROVE  ControlTypes'
    BY <1>3 DEF Discover
  <1>4. CASE Expire
    BY <1>4 DEF Expire
  <1>5. ASSUME NEW r \in Requests, Callback(r)
       PROVE  ControlTypes'
    <2>1. PICK i \in 1..Len(store) : Begin(r, "callback", store[i])
      BY <1>5 DEF Callback
    <2>2. store[i] \in Orgs
      BY DEF DbTypes
    <2>3. QED
      BY <1>5, <2>1, <2>2 DEF Callback
  <1>6. ASSUME NEW r \in Requests, CallbackUnknown(r)
       PROVE  ControlTypes'
    BY <1>6 DEF CallbackUnknown
  <1>7. ASSUME NEW r \in Requests, ReadConfig(r)
       PROVE  ControlTypes'
    BY <1>7 DEF ReadConfig
  <1>8. ASSUME NEW r \in Requests, ExchangeCode(r)
       PROVE  ControlTypes'
    <2>1. CASE \E status \in {400, 500} : Answer(r, status)
      BY <1>8, <2>1 DEF ExchangeCode
    <2>2. CASE Answer(r, 403)
      BY <1>8, <2>2 DEF ExchangeCode
    <2>3. CASE Go(r, "select") /\ UNCHANGED <<answer, failed>>
      BY <1>8, <2>3 DEF ExchangeCode
    <2>4. QED
      BY <1>8, <2>1, <2>2, <2>3 DEF ExchangeCode
  <1>9. ASSUME NEW r \in Requests, SelectUser(r)
       PROVE  ControlTypes'
    BY <1>9 DEF SelectUser
  <1>10. ASSUME NEW r \in Requests, FlushUser(r)
       PROVE  ControlTypes'
    BY <1>10 DEF FlushUser
  <1>11. ASSUME NEW r \in Requests, FlushMember(r)
       PROVE  ControlTypes'
    BY <1>11 DEF FlushMember
  <1>12. ASSUME NEW r \in Requests, Reselect(r)
       PROVE  ControlTypes'
    BY <1>12 DEF Reselect, AfterProvision
  <1>13. ASSUME NEW r \in Requests, CommitUser(r)
       PROVE  ControlTypes'
    BY <1>13 DEF CommitUser, AfterProvision
  <1>14. ASSUME NEW r \in Requests, SkipGroup(r)
       PROVE  ControlTypes'
    BY <1>14 DEF SkipGroup
  <1>15. ASSUME NEW r \in Requests, MapGroup(r)
       PROVE  ControlTypes'
    BY <1>15 DEF MapGroup
  <1>16. ASSUME NEW r \in Requests, CommitGroups(r)
       PROVE  ControlTypes'
    BY <1>16 DEF CommitGroups
  <1>17. ASSUME NEW r \in Requests, Deadlocked(r)
       PROVE  ControlTypes'
    BY <1>17 DEF Deadlocked, Rivals
  <1>18. ASSUME NEW r \in Requests, IssueTokens(r)
       PROVE  ControlTypes'
    BY <1>18 DEF IssueTokens
  <1>19. ASSUME NEW o \in Orgs, DeleteConfig(o)
       PROVE  ControlTypes'
    BY <1>19 DEF DeleteConfig
  <1>20. ASSUME NEW o \in Orgs, NEW c \in Configs, CreateConfig(o, c)
       PROVE  ControlTypes'
    BY <1>20 DEF CreateConfig
  <1>21. ASSUME NEW t \in Teams, DeleteTeam(t)
       PROVE  ControlTypes'
    BY <1>21 DEF DeleteTeam
  <1>22. ASSUME NEW r \in Requests, MapMalformed(r)
       PROVE  ControlTypes'
    BY <1>22 DEF MapMalformed
  <1>23. ASSUME NEW e \in Emails, CreateUser(e)
       PROVE  ControlTypes'
    BY <1>23 DEF CreateUser, Gives
  <1>24. ASSUME NEW e \in Emails, NEW o \in Orgs, AddOrgMember(e, o)
       PROVE  ControlTypes'
    BY <1>24 DEF AddOrgMember, Gives
  <1>25. ASSUME NEW e \in Emails, NEW t \in Teams, AddTeamMember(e, t)
       PROVE  ControlTypes'
    BY <1>25 DEF AddTeamMember, Gives
  <1>26. CASE Restart
    BY <1>26 DEF Restart
  <1>27. CASE UNCHANGED vars
    BY <1>27 DEF vars
  <1>28. QED
    BY <1>1, <1>2, <1>3, <1>4, <1>5, <1>6, <1>7, <1>8, <1>9, <1>10, <1>11, <1>12, <1>13, <1>14,
       <1>15, <1>16, <1>17, <1>18, <1>19, <1>20, <1>21, <1>22, <1>23, <1>24, <1>25, <1>26,
       <1>27 DEF Next, Login

LEMMA HasTypes == \A e : Has(e) \subseteq Belongings
  BY DEF Has, Belongings

LEMMA GiftTypes ==
  ASSUME NEW e, NEW x, given \in [Requests -> SUBSET Belongings], Gives(e, x)
  PROVE  /\ given' \in [Requests -> SUBSET Belongings]
         /\ UNCHANGED <<teams, pc, cfg, email, found, pending, stale>>
  BY DEF Gives, local

LEMMA LoadedStep == TInv /\ [Next]_vars => LoadedTypes'
  <1> SUFFICES ASSUME TInv, [Next]_vars
               PROVE  LoadedTypes'
    OBVIOUS
  <1>0. pc \in [Requests -> Steps]
    BY DEF TInv, ControlTypes
  <1> USE DEF TInv, LoadedTypes, Begin, Go, Answer, local, db
  <1>1. ASSUME NEW r \in Requests, NEW o \in Orgs, Authorize(r, o)
       PROVE  LoadedTypes'
    BY <1>0, <1>1 DEF Authorize
  <1>2. ASSUME NEW r \in Requests, NEW o \in Orgs, AuthorizeUnknown(r, o)
       PROVE  LoadedTypes'
    BY <1>0, <1>2 DEF AuthorizeUnknown
  <1>3. ASSUME NEW r \in Requests, Discover(r)
       PROVE  LoadedTypes'
    BY <1>0, <1>3 DEF Discover
  <1>4. CASE Expire
    BY <1>0, <1>4 DEF Expire
  <1>5. ASSUME NEW r \in Requests, Callback(r)
       PROVE  LoadedTypes'
    BY <1>0, <1>5 DEF Callback
  <1>6. ASSUME NEW r \in Requests, CallbackUnknown(r)
       PROVE  LoadedTypes'
    BY <1>0, <1>6 DEF CallbackUnknown
  <1>7. ASSUME NEW r \in Requests, ReadConfig(r)
       PROVE  LoadedTypes'
    <2>1. org[r] \in Orgs
      BY <1>7 DEF ReadConfig, Stages
    <2>2. config[org[r]] \in Configs \cup {None}
      BY <2>1 DEF DbTypes
    <2>3. QED
      BY <1>0, <1>7, <2>2 DEF ReadConfig
  <1>8. ASSUME NEW r \in Requests, ExchangeCode(r)
       PROVE  LoadedTypes'
    <2>1. /\ given' \in [Requests -> SUBSET Belongings] /\ email' \in [Requests -> Emails \cup {None}]
          /\ UNCHANGED <<cfg, found, pending, stale, teams>>
      BY <1>8, HasTypes DEF ExchangeCode
    <2>2. \A q \in Requests : pending'[q] # {} => pc'[q] = "groups"
      BY <1>0, <1>8 DEF ExchangeCode
    <2>3. QED
      BY <2>1, <2>2
  <1>9. ASSUME NEW r \in Requests, SelectUser(r)
       PROVE  LoadedTypes'
    <2>1. email[r] \in Emails
      BY <1>9 DEF SelectUser, Stages, Past, Provisioning
    <2>2. users[email[r]] \in {"absent", "password", "linked"}
      BY <2>1 DEF DbTypes
    <2>3. QED
      BY <1>0, <1>9, <2>2 DEF SelectUser
  <1>10. ASSUME NEW r \in Requests, FlushUser(r)
       PROVE  LoadedTypes'
    BY <1>0, <1>10 DEF FlushUser
  <1>11. ASSUME NEW r \in Requests, FlushMember(r)
       PROVE  LoadedTypes'
    BY <1>0, <1>11 DEF FlushMember
  <1>12. ASSUME NEW r \in Requests, Reselect(r)
       PROVE  LoadedTypes'
    BY <1>0, <1>12 DEF Reselect, AfterProvision
  <1>13. ASSUME NEW r \in Requests, CommitUser(r)
       PROVE  LoadedTypes'
    BY <1>0, <1>13 DEF CommitUser, AfterProvision
  <1>14. ASSUME NEW r \in Requests, SkipGroup(r)
       PROVE  LoadedTypes'
    BY <1>0, <1>14 DEF SkipGroup
  <1>15. ASSUME NEW r \in Requests, MapGroup(r)
       PROVE  LoadedTypes'
    <2>1. /\ pending' \in [Requests -> SUBSET teams]
          /\ stale' \in [Requests -> SUBSET {"user", "config"}]
      BY <1>15 DEF MapGroup
    <2>2. \A q \in Requests : pending'[q] # {} => pc'[q] = "groups"
      BY <1>15 DEF MapGroup
    <2>3. QED
      BY <1>15, <2>1, <2>2 DEF MapGroup
  <1>16. ASSUME NEW r \in Requests, CommitGroups(r)
       PROVE  LoadedTypes'
    BY <1>0, <1>16 DEF CommitGroups
  <1>17. ASSUME NEW r \in Requests, Deadlocked(r)
       PROVE  LoadedTypes'
    BY <1>0, <1>17 DEF Deadlocked, Rivals
  <1>18. ASSUME NEW r \in Requests, IssueTokens(r)
       PROVE  LoadedTypes'
    BY <1>0, <1>18 DEF IssueTokens
  <1>19. ASSUME NEW o \in Orgs, DeleteConfig(o)
       PROVE  LoadedTypes'
    BY <1>0, <1>19 DEF DeleteConfig
  <1>20. ASSUME NEW o \in Orgs, NEW c \in Configs, CreateConfig(o, c)
       PROVE  LoadedTypes'
    BY <1>0, <1>20 DEF CreateConfig
  <1>21. ASSUME NEW t \in Teams, DeleteTeam(t)
       PROVE  LoadedTypes'
    BY <1>0, <1>21 DEF DeleteTeam
  <1>22. ASSUME NEW r \in Requests, MapMalformed(r)
       PROVE  LoadedTypes'
    BY <1>0, <1>22 DEF MapMalformed
  <1>23. ASSUME NEW e \in Emails, CreateUser(e)
       PROVE  LoadedTypes'
    <2>1. /\ given' \in [Requests -> SUBSET Belongings]
          /\ UNCHANGED <<pc, cfg, email, found, pending, stale, teams>>
      BY <1>23, GiftTypes DEF CreateUser
    <2>2. QED
      BY <2>1
  <1>24. ASSUME NEW e \in Emails, NEW o \in Orgs, AddOrgMember(e, o)
       PROVE  LoadedTypes'
    <2>1. /\ given' \in [Requests -> SUBSET Belongings]
          /\ UNCHANGED <<pc, cfg, email, found, pending, stale, teams>>
      BY <1>24, GiftTypes DEF AddOrgMember
    <2>2. QED
      BY <2>1
  <1>25. ASSUME NEW e \in Emails, NEW t \in Teams, AddTeamMember(e, t)
       PROVE  LoadedTypes'
    <2>1. /\ given' \in [Requests -> SUBSET Belongings]
          /\ UNCHANGED <<pc, cfg, email, found, pending, stale, teams>>
      BY <1>25, GiftTypes DEF AddTeamMember
    <2>2. QED
      BY <2>1
  <1>26. CASE Restart
    BY <1>0, <1>26 DEF Restart
  <1>27. CASE UNCHANGED vars
    BY <1>0, <1>27 DEF vars
  <1>28. QED
    BY <1>1, <1>2, <1>3, <1>4, <1>5, <1>6, <1>7, <1>8, <1>9, <1>10, <1>11, <1>12, <1>13, <1>14,
       <1>15, <1>16, <1>17, <1>18, <1>19, <1>20, <1>21, <1>22, <1>23, <1>24, <1>25, <1>26,
       <1>27 DEF Next, Login

LEMMA ListsStep == TInv /\ [Next]_vars => Lists'
  <1> SUFFICES ASSUME TInv, [Next]_vars
               PROVE  Lists'
    OBVIOUS
  <1> USE DEF TInv, Lists
  <1>1. CASE UNCHANGED <<groups, claimed>>
    BY <1>1
  <1>2. ASSUME NEW r \in Requests, ExchangeCode(r)
       PROVE  Lists'
    <2>1. CASE UNCHANGED <<groups, claimed>>
      BY <2>1
    <2>2. ASSUME NEW gs \in GroupLists, groups' = [groups EXCEPT ![r] = gs],
                claimed' = [claimed EXCEPT ![r] = gs]
         PROVE  Lists'
      BY <2>2
    <2>3. QED
      BY <1>2, <2>1, <2>2 DEF ExchangeCode
  <1>3. ASSUME NEW r \in Requests, groups[r] # <<>>,
              groups' = [groups EXCEPT ![r] = Tail(@)], UNCHANGED claimed
       PROVE  Lists'
    BY <1>3, TailOf
  <1>4. CASE Restart
    BY <1>4 DEF Restart
  <1>5. QED
    BY <1>1, <1>2, <1>3, <1>4 DEF Next, Login, vars, local, db, Authorize, AuthorizeUnknown, Discover,
       Expire, Callback, CallbackUnknown, ReadConfig, SelectUser, FlushUser, FlushMember, Reselect,
       CommitUser, SkipGroup, MapGroup, MapMalformed, CommitGroups, Deadlocked, IssueTokens,
       DeleteConfig, CreateConfig, DeleteTeam, CreateUser, AddOrgMember, AddTeamMember, Gives

LEMMA StagesStep == TInv /\ [Next]_vars => Stages'
  <1> SUFFICES ASSUME TInv, [Next]_vars
               PROVE  Stages'
    OBVIOUS
  <1> USE DEF TInv, ControlTypes, LoadedTypes, Stages, Steps, Past, Provisioning, db, local, Go, Answer, Begin
  <1>1. ASSUME NEW r \in Requests, NEW o \in Orgs, Authorize(r, o)
       PROVE  Stages'
    BY <1>1 DEF Authorize
  <1>2. ASSUME NEW r \in Requests, NEW o \in Orgs, AuthorizeUnknown(r, o)
       PROVE  Stages'
    BY <1>2 DEF AuthorizeUnknown
  <1>3. ASSUME NEW r \in Requests, Discover(r)
       PROVE  Stages'
    BY <1>3 DEF Discover
  <1>4. CASE Expire
    BY <1>4 DEF Expire
  <1>5. ASSUME NEW r \in Requests, Callback(r)
       PROVE  Stages'
    <2>1. PICK i \in 1..Len(store) : Begin(r, "callback", store[i])
      BY <1>5 DEF Callback
    <2>2. store[i] \in Orgs
      BY DEF DbTypes
    <2>3. QED
      BY <1>5, <2>1, <2>2 DEF Callback
  <1>6. ASSUME NEW r \in Requests, CallbackUnknown(r)
       PROVE  Stages'
    BY <1>6 DEF CallbackUnknown
  <1>7. ASSUME NEW r \in Requests, ReadConfig(r)
       PROVE  Stages'
    <2>1. CASE config[org[r]] = None
      BY <1>7, <2>1 DEF ReadConfig
    <2>2. CASE config[org[r]] # None
      <3>1. config[org[r]] \in Configs
        BY <1>7, <2>2 DEF ReadConfig, DbTypes
      <3>2. QED
        BY <1>7, <2>2, <3>1 DEF ReadConfig
    <2>3. QED
      BY <2>1, <2>2
  <1>8. ASSUME NEW r \in Requests, ExchangeCode(r)
       PROVE  Stages'
    <2>1. ASSUME \E status \in {400, 500} : Answer(r, status), UNCHANGED <<email, groups, claimed>>
         PROVE  Stages'
      BY <1>8, <2>1 DEF ExchangeCode
    <2>2. ASSUME NEW e \in Emails, NEW gs \in GroupLists,
                email' = [email EXCEPT ![r] = e], groups' = [groups EXCEPT ![r] = gs],
                claimed' = [claimed EXCEPT ![r] = gs],
                IF Allowed(cfg[r], e) THEN Go(r, "select") /\ UNCHANGED <<answer, failed>>
                                      ELSE Answer(r, 403)
         PROVE  Stages'
      <3>1. groups'[r] = gs /\ claimed'[r] = gs
        BY <2>2 DEF Lists
      <3>2. CASE Allowed(cfg[r], e)
        BY <1>8, <2>2, <3>1, <3>2 DEF ExchangeCode
      <3>3. CASE ~Allowed(cfg[r], e)
        BY <1>8, <2>2, <3>3 DEF ExchangeCode
      <3>4. QED
        BY <3>2, <3>3
    <2>3. QED
      BY <1>8, <2>1, <2>2 DEF ExchangeCode
  <1>9. ASSUME NEW r \in Requests, SelectUser(r)
       PROVE  Stages'
    BY <1>9 DEF SelectUser
  <1>10. ASSUME NEW r \in Requests, FlushUser(r)
       PROVE  Stages'
    BY <1>10 DEF FlushUser
  <1>11. ASSUME NEW r \in Requests, FlushMember(r)
       PROVE  Stages'
    BY <1>11 DEF FlushMember
  <1>12. ASSUME NEW r \in Requests, Reselect(r)
       PROVE  Stages'
    BY <1>12 DEF Reselect, AfterProvision
  <1>13. ASSUME NEW r \in Requests, CommitUser(r)
       PROVE  Stages'
    BY <1>13 DEF CommitUser, AfterProvision
  <1>14. ASSUME NEW r \in Requests, SkipGroup(r)
       PROVE  Stages'
    BY <1>14 DEF SkipGroup
  <1>15. ASSUME NEW r \in Requests, MapGroup(r)
       PROVE  Stages'
    BY <1>15 DEF MapGroup
  <1>16. ASSUME NEW r \in Requests, CommitGroups(r)
       PROVE  Stages'
    BY <1>16 DEF CommitGroups
  <1>17. ASSUME NEW r \in Requests, Deadlocked(r)
       PROVE  Stages'
    <2>1. /\ Answer(r, 500) /\ pc[r] = "groups"
          /\ UNCHANGED <<kind, org, cfg, email, groups, stale, claimed, before>>
      BY <1>17 DEF Deadlocked, Rivals
    <2>2. QED
      BY <2>1
  <1>18. ASSUME NEW r \in Requests, IssueTokens(r)
       PROVE  Stages'
    BY <1>18 DEF IssueTokens
  <1>19. ASSUME NEW o \in Orgs, DeleteConfig(o)
       PROVE  Stages'
    BY <1>19 DEF DeleteConfig
  <1>20. ASSUME NEW o \in Orgs, NEW c \in Configs, CreateConfig(o, c)
       PROVE  Stages'
    BY <1>20 DEF CreateConfig
  <1>21. ASSUME NEW t \in Teams, DeleteTeam(t)
       PROVE  Stages'
    BY <1>21 DEF DeleteTeam
  <1>22. ASSUME NEW r \in Requests, MapMalformed(r)
       PROVE  Stages'
    BY <1>22 DEF MapMalformed
  <1>23. ASSUME NEW e \in Emails, CreateUser(e)
       PROVE  Stages'
    BY <1>23 DEF CreateUser, Gives
  <1>24. ASSUME NEW e \in Emails, NEW o \in Orgs, AddOrgMember(e, o)
       PROVE  Stages'
    BY <1>24 DEF AddOrgMember, Gives
  <1>25. ASSUME NEW e \in Emails, NEW t \in Teams, AddTeamMember(e, t)
       PROVE  Stages'
    BY <1>25 DEF AddTeamMember, Gives
  <1>26. CASE Restart
    BY <1>26 DEF Restart
  <1>27. CASE UNCHANGED vars
    BY <1>27 DEF vars
  <1>28. QED
    BY <1>1, <1>2, <1>3, <1>4, <1>5, <1>6, <1>7, <1>8, <1>9, <1>10, <1>11, <1>12, <1>13, <1>14,
       <1>15, <1>16, <1>17, <1>18, <1>19, <1>20, <1>21, <1>22, <1>23, <1>24, <1>25, <1>26,
       <1>27 DEF Next, Login

\* Every variable has its type, whatever the callbacks and the restarts.
THEOREM TypeCorrect == Spec => []TypeOK
  <1>1. TInv /\ [Next]_vars => TInv'
    BY DbStep, ControlStep, LoadedStep, ListsStep, StagesStep DEF TInv
  <1>2. TInv => TypeOK
    BY TypeParts DEF TInv
  <1>3. QED
    BY InitTInv, <1>1, <1>2, PTL DEF Spec

(***************************************************************************)
(* What no step takes away: the history of a request, the outcome of one   *)
(* that is done, and the users and members there are.                      *)
(***************************************************************************)
HistoryKept ==
  \A r \in Requests :
    /\ pc[r] # "idle" => before'[r] = before[r] /\ kind'[r] = kind[r] /\ org'[r] = org[r]
    /\ email[r] # None => /\ email'[r] = email[r] /\ claimed'[r] = claimed[r]
                          /\ given[r] \subseteq given'[r]

OutcomeKept ==
  \A r \in Requests : pc[r] = "done" =>
    /\ pc'[r] = "done" /\ cfg'[r] = cfg[r] /\ found'[r] = found[r]
    /\ answer'[r] = answer[r] /\ failed'[r] = failed[r]
    /\ email'[r] = email[r] /\ claimed'[r] = claimed[r]

RowsKept ==
  /\ orgMember \subseteq orgMember' /\ teams' \subseteq teams
  /\ \A e \in Emails : /\ users[e] # "absent" => users'[e] # "absent"
                       /\ users[e] = "linked" => users'[e] = "linked"
  /\ \A m \in teamMember : m[2] \in teams' => m \in teamMember'

LEMMA GoFrame ==
  ASSUME TInv, NEW r \in Requests,
         \/ \E step : Go(r, step) /\ UNCHANGED <<answer, failed>>
         \/ \E status : Answer(r, status)
         \/ AfterProvision(r)
  PROVE  \A q \in Requests \ {r} :
           pc'[q] = pc[q] /\ answer'[q] = answer[q] /\ failed'[q] = failed[q]
  <1>0. Requests = DOMAIN pc /\ Requests = DOMAIN answer /\ Requests = DOMAIN failed
    BY DEF TInv, ControlTypes
  <1>1. ASSUME NEW step, Go(r, step), UNCHANGED <<answer, failed>>
       PROVE  \A q \in Requests \ {r} :
                pc'[q] = pc[q] /\ answer'[q] = answer[q] /\ failed'[q] = failed[q]
    BY <1>0, <1>1 DEF Go
  <1>2. ASSUME NEW status, Answer(r, status)
       PROVE  \A q \in Requests \ {r} :
                pc'[q] = pc[q] /\ answer'[q] = answer[q] /\ failed'[q] = failed[q]
    BY <1>0, <1>2 DEF Go, Answer
  <1>3. QED
    BY <1>1, <1>2 DEF AfterProvision

LEMMA ExchangeFrame ==
  ASSUME TInv, NEW r \in Requests, ExchangeCode(r)
  PROVE  /\ pc[r] = "exchange" /\ UNCHANGED <<kind, org, cfg, found, before>>
         /\ \A q \in Requests \ {r} :
              /\ pc'[q] = pc[q] /\ answer'[q] = answer[q] /\ failed'[q] = failed[q]
              /\ email'[q] = email[q] /\ groups'[q] = groups[q] /\ claimed'[q] = claimed[q]
              /\ given'[q] = given[q]
  <1>1. pc[r] = "exchange" /\ UNCHANGED <<kind, org, cfg, found, before>>
    BY DEF ExchangeCode
  <1>2. \A q \in Requests \ {r} :
          pc'[q] = pc[q] /\ answer'[q] = answer[q] /\ failed'[q] = failed[q]
    <2>1. \/ \E step : Go(r, step) /\ UNCHANGED <<answer, failed>>
          \/ \E status : Answer(r, status)
      BY DEF ExchangeCode
    <2>2. QED
      BY <2>1, GoFrame
  <1>3. \A q \in Requests \ {r} :
          /\ email'[q] = email[q] /\ groups'[q] = groups[q] /\ claimed'[q] = claimed[q]
          /\ given'[q] = given[q]
    BY DEF ExchangeCode, TInv, LoadedTypes, Lists
  <1>4. QED
    BY <1>1, <1>2, <1>3

LEMMA KeepHistory == TInv /\ [Next]_vars => HistoryKept
  <1> SUFFICES ASSUME TInv, [Next]_vars
               PROVE  HistoryKept
    OBVIOUS
  <1>0. \A r \in Requests : pc[r] = "exchange" => email[r] = None
    BY DEF TInv, Stages
  <1> USE DEF TInv, ControlTypes, HistoryKept, Begin, local, db
  <1>1. ASSUME NEW r \in Requests, NEW o \in Orgs, Authorize(r, o)
       PROVE  HistoryKept
    BY <1>0, <1>1 DEF Authorize
  <1>2. ASSUME NEW r \in Requests, NEW o \in Orgs, AuthorizeUnknown(r, o)
       PROVE  HistoryKept
    BY <1>0, <1>2 DEF AuthorizeUnknown
  <1>3. ASSUME NEW r \in Requests, Discover(r)
       PROVE  HistoryKept
    BY <1>0, <1>3 DEF Discover
  <1>4. CASE Expire
    BY <1>0, <1>4 DEF Expire
  <1>5. ASSUME NEW r \in Requests, Callback(r)
       PROVE  HistoryKept
    BY <1>0, <1>5 DEF Callback
  <1>6. ASSUME NEW r \in Requests, CallbackUnknown(r)
       PROVE  HistoryKept
    BY <1>0, <1>6 DEF CallbackUnknown
  <1>7. ASSUME NEW r \in Requests, ReadConfig(r)
       PROVE  HistoryKept
    BY <1>0, <1>7 DEF ReadConfig
  <1>8. ASSUME NEW r \in Requests, ExchangeCode(r)
       PROVE  HistoryKept
    BY <1>0, <1>8, ExchangeFrame
  <1>9. ASSUME NEW r \in Requests, SelectUser(r)
       PROVE  HistoryKept
    BY <1>0, <1>9 DEF SelectUser
  <1>10. ASSUME NEW r \in Requests, FlushUser(r)
       PROVE  HistoryKept
    BY <1>0, <1>10 DEF FlushUser
  <1>11. ASSUME NEW r \in Requests, FlushMember(r)
       PROVE  HistoryKept
    BY <1>0, <1>11 DEF FlushMember
  <1>12. ASSUME NEW r \in Requests, Reselect(r)
       PROVE  HistoryKept
    BY <1>0, <1>12 DEF Reselect, AfterProvision
  <1>13. ASSUME NEW r \in Requests, CommitUser(r)
       PROVE  HistoryKept
    BY <1>0, <1>13 DEF CommitUser, AfterProvision
  <1>14. ASSUME NEW r \in Requests, SkipGroup(r)
       PROVE  HistoryKept
    BY <1>0, <1>14 DEF SkipGroup
  <1>15. ASSUME NEW r \in Requests, MapGroup(r)
       PROVE  HistoryKept
    BY <1>0, <1>15 DEF MapGroup
  <1>16. ASSUME NEW r \in Requests, CommitGroups(r)
       PROVE  HistoryKept
    BY <1>0, <1>16 DEF CommitGroups
  <1>17. ASSUME NEW r \in Requests, Deadlocked(r)
       PROVE  HistoryKept
    BY <1>0, <1>17 DEF Deadlocked, Rivals
  <1>18. ASSUME NEW r \in Requests, IssueTokens(r)
       PROVE  HistoryKept
    BY <1>0, <1>18 DEF IssueTokens
  <1>19. ASSUME NEW o \in Orgs, DeleteConfig(o)
       PROVE  HistoryKept
    BY <1>0, <1>19 DEF DeleteConfig
  <1>20. ASSUME NEW o \in Orgs, NEW c \in Configs, CreateConfig(o, c)
       PROVE  HistoryKept
    BY <1>0, <1>20 DEF CreateConfig
  <1>21. ASSUME NEW t \in Teams, DeleteTeam(t)
       PROVE  HistoryKept
    BY <1>0, <1>21 DEF DeleteTeam
  <1>22. ASSUME NEW r \in Requests, MapMalformed(r)
       PROVE  HistoryKept
    BY <1>0, <1>22 DEF MapMalformed
  <1>23. ASSUME NEW e \in Emails, CreateUser(e)
       PROVE  HistoryKept
    BY <1>0, <1>23 DEF CreateUser, Gives
  <1>24. ASSUME NEW e \in Emails, NEW o \in Orgs, AddOrgMember(e, o)
       PROVE  HistoryKept
    BY <1>0, <1>24 DEF AddOrgMember, Gives
  <1>25. ASSUME NEW e \in Emails, NEW t \in Teams, AddTeamMember(e, t)
       PROVE  HistoryKept
    BY <1>0, <1>25 DEF AddTeamMember, Gives
  <1>26. CASE Restart
    BY <1>0, <1>26 DEF Restart
  <1>27. CASE UNCHANGED vars
    BY <1>0, <1>27 DEF vars
  <1>28. QED
    BY <1>1, <1>2, <1>3, <1>4, <1>5, <1>6, <1>7, <1>8, <1>9, <1>10, <1>11, <1>12, <1>13, <1>14,
       <1>15, <1>16, <1>17, <1>18, <1>19, <1>20, <1>21, <1>22, <1>23, <1>24, <1>25, <1>26,
       <1>27 DEF Next, Login

LEMMA KeepOutcome == TInv /\ [Next]_vars => OutcomeKept
  <1> SUFFICES ASSUME TInv, [Next]_vars
               PROVE  OutcomeKept
    OBVIOUS
  <1>0. /\ pc \in [Requests -> Steps]
        /\ Requests = DOMAIN cfg /\ Requests = DOMAIN found
        /\ Requests = DOMAIN answer /\ Requests = DOMAIN failed
        /\ Requests = DOMAIN email /\ Requests = DOMAIN claimed
    BY DEF TInv, ControlTypes, LoadedTypes, Lists
  <1> USE DEF OutcomeKept, Begin, Go, Answer, local, db
  <1>1. ASSUME NEW r \in Requests, NEW o \in Orgs, Authorize(r, o)
       PROVE  OutcomeKept
    BY <1>0, <1>1 DEF Authorize
  <1>2. ASSUME NEW r \in Requests, NEW o \in Orgs, AuthorizeUnknown(r, o)
       PROVE  OutcomeKept
    BY <1>0, <1>2 DEF AuthorizeUnknown
  <1>3. ASSUME NEW r \in Requests, Discover(r)
       PROVE  OutcomeKept
    BY <1>0, <1>3 DEF Discover
  <1>4. CASE Expire
    BY <1>0, <1>4 DEF Expire
  <1>5. ASSUME NEW r \in Requests, Callback(r)
       PROVE  OutcomeKept
    BY <1>0, <1>5 DEF Callback
  <1>6. ASSUME NEW r \in Requests, CallbackUnknown(r)
       PROVE  OutcomeKept
    BY <1>0, <1>6 DEF CallbackUnknown
  <1>7. ASSUME NEW r \in Requests, ReadConfig(r)
       PROVE  OutcomeKept
    <2>1. CASE config[org[r]] = None
      <3>1. /\ pc[r] # "done" /\ UNCHANGED <<cfg, email, found, claimed>>
            /\ Answer(r, 404)
        BY <1>7, <2>1 DEF ReadConfig
      <3>2. QED
        BY <1>0, <3>1
    <2>2. CASE ~(config[org[r]] = None)
      BY <1>0, <1>7, <2>2 DEF ReadConfig
    <2>3. QED
      BY <2>1, <2>2
  <1>8. ASSUME NEW r \in Requests, ExchangeCode(r)
       PROVE  OutcomeKept
    BY <1>8, ExchangeFrame
  <1>9. ASSUME NEW r \in Requests, SelectUser(r)
       PROVE  OutcomeKept
    BY <1>0, <1>9 DEF SelectUser
  <1>10. ASSUME NEW r \in Requests, FlushUser(r)
       PROVE  OutcomeKept
    <2>1. CASE found[r] = "absent" /\ users[email[r]] # "absent"
      <3>1. /\ pc[r] # "done" /\ UNCHANGED <<cfg, email, found, claimed>>
            /\ Answer(r, 500)
        BY <1>10, <2>1 DEF FlushUser
      <3>2. QED
        BY <1>0, <3>1
    <2>2. CASE ~(found[r] = "absent" /\ users[email[r]] # "absent")
      BY <1>0, <1>10, <2>2 DEF FlushUser
    <2>3. QED
      BY <2>1, <2>2
  <1>11. ASSUME NEW r \in Requests, FlushMember(r)
       PROVE  OutcomeKept
    BY <1>0, <1>11 DEF FlushMember
  <1>12. ASSUME NEW r \in Requests, Reselect(r)
       PROVE  OutcomeKept
    <2>1. CASE groups[r] # <<>> /\ "config" \in stale[r]
      <3>1. /\ pc[r] # "done" /\ UNCHANGED <<cfg, email, found, claimed>>
            /\ Answer(r, 500)
        BY <1>12, <2>1 DEF Reselect, AfterProvision
      <3>2. QED
        BY <1>0, <3>1
    <2>2. CASE ~(groups[r] # <<>> /\ "config" \in stale[r])
      BY <1>0, <1>12, <2>2 DEF Reselect, AfterProvision
    <2>3. QED
      BY <2>1, <2>2
  <1>13. ASSUME NEW r \in Requests, CommitUser(r)
       PROVE  OutcomeKept
    <2>1. CASE groups[r] # <<>> /\ "config" \in stale[r]
      <3>1. /\ pc[r] # "done" /\ UNCHANGED <<cfg, email, found, claimed>>
            /\ Answer(r, 500)
        BY <1>13, <2>1 DEF CommitUser, AfterProvision
      <3>2. QED
        BY <1>0, <3>1
    <2>2. CASE ~(groups[r] # <<>> /\ "config" \in stale[r])
      BY <1>0, <1>13, <2>2 DEF CommitUser, AfterProvision
    <2>3. QED
      BY <2>1, <2>2
  <1>14. ASSUME NEW r \in Requests, SkipGroup(r)
       PROVE  OutcomeKept
    BY <1>0, <1>14 DEF SkipGroup
  <1>15. ASSUME NEW r \in Requests, MapGroup(r)
       PROVE  OutcomeKept
    BY <1>0, <1>15 DEF MapGroup
  <1>16. ASSUME NEW r \in Requests, CommitGroups(r)
       PROVE  OutcomeKept
    BY <1>0, <1>16 DEF CommitGroups
  <1>17. ASSUME NEW r \in Requests, Deadlocked(r)
       PROVE  OutcomeKept
    BY <1>0, <1>17 DEF Deadlocked, Rivals
  <1>18. ASSUME NEW r \in Requests, IssueTokens(r)
       PROVE  OutcomeKept
    BY <1>0, <1>18 DEF IssueTokens
  <1>19. ASSUME NEW o \in Orgs, DeleteConfig(o)
       PROVE  OutcomeKept
    BY <1>0, <1>19 DEF DeleteConfig
  <1>20. ASSUME NEW o \in Orgs, NEW c \in Configs, CreateConfig(o, c)
       PROVE  OutcomeKept
    BY <1>0, <1>20 DEF CreateConfig
  <1>21. ASSUME NEW t \in Teams, DeleteTeam(t)
       PROVE  OutcomeKept
    BY <1>0, <1>21 DEF DeleteTeam
  <1>22. ASSUME NEW r \in Requests, MapMalformed(r)
       PROVE  OutcomeKept
    BY <1>0, <1>22 DEF MapMalformed
  <1>23. ASSUME NEW e \in Emails, CreateUser(e)
       PROVE  OutcomeKept
    BY <1>0, <1>23 DEF CreateUser, Gives
  <1>24. ASSUME NEW e \in Emails, NEW o \in Orgs, AddOrgMember(e, o)
       PROVE  OutcomeKept
    BY <1>0, <1>24 DEF AddOrgMember, Gives
  <1>25. ASSUME NEW e \in Emails, NEW t \in Teams, AddTeamMember(e, t)
       PROVE  OutcomeKept
    BY <1>0, <1>25 DEF AddTeamMember, Gives
  <1>26. CASE Restart
    BY <1>0, <1>26 DEF Restart
  <1>27. CASE UNCHANGED vars
    BY <1>0, <1>27 DEF vars
  <1>28. QED
    BY <1>1, <1>2, <1>3, <1>4, <1>5, <1>6, <1>7, <1>8, <1>9, <1>10, <1>11, <1>12, <1>13, <1>14,
       <1>15, <1>16, <1>17, <1>18, <1>19, <1>20, <1>21, <1>22, <1>23, <1>24, <1>25, <1>26,
       <1>27 DEF Next, Login

LEMMA KeepRows == TInv /\ [Next]_vars => RowsKept
  <1> SUFFICES ASSUME TInv, [Next]_vars
               PROVE  RowsKept
    OBVIOUS
  <1>0. users \in [Emails -> {"absent", "password", "linked"}]
    BY DEF TInv, DbTypes
  <1> USE DEF RowsKept, local, db
  <1>1. ASSUME NEW r \in Requests, NEW o \in Orgs, Authorize(r, o)
       PROVE  RowsKept
    BY <1>0, <1>1 DEF Authorize
  <1>2. ASSUME NEW r \in Requests, NEW o \in Orgs, AuthorizeUnknown(r, o)
       PROVE  RowsKept
    BY <1>0, <1>2 DEF AuthorizeUnknown
  <1>3. ASSUME NEW r \in Requests, Discover(r)
       PROVE  RowsKept
    BY <1>0, <1>3 DEF Discover
  <1>4. CASE Expire
    BY <1>0, <1>4 DEF Expire
  <1>5. ASSUME NEW r \in Requests, Callback(r)
       PROVE  RowsKept
    BY <1>0, <1>5 DEF Callback
  <1>6. ASSUME NEW r \in Requests, CallbackUnknown(r)
       PROVE  RowsKept
    BY <1>0, <1>6 DEF CallbackUnknown
  <1>7. ASSUME NEW r \in Requests, ReadConfig(r)
       PROVE  RowsKept
    BY <1>0, <1>7 DEF ReadConfig
  <1>8. ASSUME NEW r \in Requests, ExchangeCode(r)
       PROVE  RowsKept
    BY <1>0, <1>8 DEF ExchangeCode
  <1>9. ASSUME NEW r \in Requests, SelectUser(r)
       PROVE  RowsKept
    BY <1>0, <1>9 DEF SelectUser
  <1>10. ASSUME NEW r \in Requests, FlushUser(r)
       PROVE  RowsKept
    BY <1>0, <1>10 DEF FlushUser
  <1>11. ASSUME NEW r \in Requests, FlushMember(r)
       PROVE  RowsKept
    BY <1>0, <1>11 DEF FlushMember
  <1>12. ASSUME NEW r \in Requests, Reselect(r)
       PROVE  RowsKept
    BY <1>0, <1>12 DEF Reselect, AfterProvision
  <1>13. ASSUME NEW r \in Requests, CommitUser(r)
       PROVE  RowsKept
    BY <1>0, <1>13 DEF CommitUser, AfterProvision
  <1>14. ASSUME NEW r \in Requests, SkipGroup(r)
       PROVE  RowsKept
    BY <1>0, <1>14 DEF SkipGroup
  <1>15. ASSUME NEW r \in Requests, MapGroup(r)
       PROVE  RowsKept
    BY <1>0, <1>15 DEF MapGroup
  <1>16. ASSUME NEW r \in Requests, CommitGroups(r)
       PROVE  RowsKept
    BY <1>0, <1>16 DEF CommitGroups
  <1>17. ASSUME NEW r \in Requests, Deadlocked(r)
       PROVE  RowsKept
    BY <1>0, <1>17 DEF Deadlocked, Rivals
  <1>18. ASSUME NEW r \in Requests, IssueTokens(r)
       PROVE  RowsKept
    BY <1>0, <1>18 DEF IssueTokens
  <1>19. ASSUME NEW o \in Orgs, DeleteConfig(o)
       PROVE  RowsKept
    BY <1>0, <1>19 DEF DeleteConfig
  <1>20. ASSUME NEW o \in Orgs, NEW c \in Configs, CreateConfig(o, c)
       PROVE  RowsKept
    BY <1>0, <1>20 DEF CreateConfig
  <1>21. ASSUME NEW t \in Teams, DeleteTeam(t)
       PROVE  RowsKept
    BY <1>0, <1>21 DEF DeleteTeam
  <1>22. ASSUME NEW r \in Requests, MapMalformed(r)
       PROVE  RowsKept
    BY <1>0, <1>22 DEF MapMalformed
  <1>23. ASSUME NEW e \in Emails, CreateUser(e)
       PROVE  RowsKept
    BY <1>0, <1>23 DEF CreateUser, Gives
  <1>24. ASSUME NEW e \in Emails, NEW o \in Orgs, AddOrgMember(e, o)
       PROVE  RowsKept
    BY <1>0, <1>24 DEF AddOrgMember, Gives
  <1>25. ASSUME NEW e \in Emails, NEW t \in Teams, AddTeamMember(e, t)
       PROVE  RowsKept
    BY <1>0, <1>25 DEF AddTeamMember, Gives
  <1>26. CASE Restart
    BY <1>0, <1>26 DEF Restart
  <1>27. CASE UNCHANGED vars
    BY <1>0, <1>27 DEF vars
  <1>28. QED
    BY <1>1, <1>2, <1>3, <1>4, <1>5, <1>6, <1>7, <1>8, <1>9, <1>10, <1>11, <1>12, <1>13, <1>14,
       <1>15, <1>16, <1>17, <1>18, <1>19, <1>20, <1>21, <1>22, <1>23, <1>24, <1>25, <1>26,
       <1>27 DEF Next, Login

(***************************************************************************)
(* One request acts at a time, or the process restarts.                    *)
(***************************************************************************)
Untouched(q) ==
  /\ pc'[q] = pc[q] /\ kind'[q] = kind[q] /\ org'[q] = org[q] /\ cfg'[q] = cfg[q]
  /\ email'[q] = email[q] /\ groups'[q] = groups[q] /\ found'[q] = found[q]
  /\ pending'[q] = pending[q] /\ stale'[q] = stale[q] /\ claimed'[q] = claimed[q]
  /\ before'[q] = before[q]
  /\ answer'[q] = answer[q] /\ failed'[q] = failed[q]

Acts(r) ==
  \/ \E o \in Orgs : Authorize(r, o) \/ AuthorizeUnknown(r, o)
  \/ Callback(r) \/ CallbackUnknown(r)
  \/ Login(r)

(***************************************************************************)
(* The invariant, in four parts.  First, what a callback that has looked   *)
(* the user up may rely on: of those that write the same user's row one at *)
(* a time is in its transaction, and rows do not go away.                  *)
(***************************************************************************)
Relies(r) ==
  /\ pc[r] \in {"flush", "member", "reselect", "commit"} =>
       /\ found[r] = "linked" => users[email[r]] = "linked"
       /\ found[r] # "absent" => users[email[r]] # "absent"
  /\ pc[r] \in {"member", "commit"} /\ found[r] = "absent" => users[email[r]] = "absent"
  /\ pc[r] = "reselect" => found[r] # "absent"
  /\ pc[r] \in {"reselect", "groups", "tokens"} =>
       users[email[r]] # "absent" /\ <<email[r], org[r]>> \in orgMember

OneHolds ==
  \A q, r \in Requests :
    r \in Holding(email[q]) /\ q \in Holding(email[q]) => q = r

Members == \A m \in orgMember : users[m[1]] # "absent"

RowsInv == Members /\ OneHolds /\ LinkedUsersBelong /\ \A r \in Requests : Relies(r)

\* Second, while no other callback of the person runs, what there is of the person,
\* other than what this one has committed, is what was given.
Known(r) ==
  Overlaps(r) = {} =>
    /\ pc[r] \in {"select", "flush", "member", "reselect"} => Has(email[r]) \subseteq given[r]
    /\ pc[r] \in {"commit", "groups"} => Has(email[r]) \cap Teams \subseteq given[r]

KnownInv == \A r \in Requests : Known(r)

\* Third, the groups: what is pending is wanted and nobody else's, and
\* until a row is found in place everything wanted is pending or to come.
Wanted(r, t) == \E i \in DOMAIN claimed[r] : t = cfg[r].teams[claimed[r][i]]
ToCome(r, t) == \E i \in DOMAIN groups[r] : t = cfg[r].teams[groups[r][i]]

\* Why a membership was in place, or could not be.
Displaced(r) ==
  \/ Overlaps(r) # {}
  \/ \E i \in DOMAIN claimed[r] :
       /\ TeamOf(r, i) \in Teams
       /\ \/ TeamOf(r, i) \in given[r] \/ TeamOf(r, i) \notin teams
          \/ \E j \in DOMAIN claimed[r] \ {i} : TeamOf(r, j) = TeamOf(r, i)

Maps(r) ==
  /\ pc[r] = "groups" =>
       /\ \A t \in pending[r] : Wanted(r, t)
       /\ \A t : ToCome(r, t) => Wanted(r, t)
       /\ "user" \notin stale[r] =>
            \A t \in teams : Wanted(r, t) => ToCome(r, t) \/ t \in pending[r]
  /\ pc[r] = "tokens" /\ "user" \notin stale[r] =>
       \A t \in teams : Wanted(r, t) => <<email[r], t>> \in teamMember
  /\ pc[r] = "reselect" => "user" \notin stale[r]
  /\ pc[r] \in {"groups", "tokens"} /\ "user" \in stale[r] => Displaced(r)

Apart ==
  \A q, r \in Requests :
    q # r /\ email[q] = email[r] => pending[q] \cap pending[r] = {}

\* The groups to come are the last of the claims, and what is pending has
\* come before them.
Mapping(r) ==
  LET done == Len(claimed[r]) - Len(groups[r])
  IN pc[r] = "groups" =>
       /\ done \in Nat
       /\ \A i \in DOMAIN groups[r] : groups[r][i] = claimed[r][done + i]
       /\ \A t \in pending[r] : \E i \in 1..done : TeamOf(r, i) = t

GroupsInv == Apart /\ \A r \in Requests : Maps(r) /\ Mapping(r)

\* Fourth, the outcomes.
Provisioned(r) ==
  /\ email[r] \in Emails /\ Allowed(cfg[r], email[r])
  /\ users[email[r]] # "absent" /\ <<email[r], org[r]>> \in orgMember
  /\ \A t \in teams : Wanted(r, t) => <<email[r], t>> \in teamMember

Reasons(r) ==
  /\ failed[r] \notin {"select", "member", "commit"}
  /\ failed[r] \in {"flush", "reselect", "groups", "tokens"} => email[r] \in Emails
  /\ failed[r] = "flush" =>
       found[r] = "absent" /\ (Overlaps(r) # {} \/ Account \in given[r])
  /\ failed[r] = "reselect" =>
       claimed[r] # <<>> /\ (Overlaps(r) # {} \/ org[r] \in given[r])
  /\ failed[r] = "groups" =>
       \/ \E i \in DOMAIN claimed[r] : TeamOf(r, i) = Malformed
       \/ Overlaps(r) # {} /\ Cardinality(Mapped(r)) > 1
  /\ failed[r] = "tokens" => Displaced(r)

Outcome(r) ==
  Reasons(r) /\ (kind[r] = "callback" /\ answer[r] = 307 => Provisioned(r))

OutcomeInv == \A r \in Requests : Outcome(r)

IInv == TInv /\ RowsInv /\ KnownInv /\ GroupsInv /\ OutcomeInv

LEMMA Frame ==
  ASSUME TInv, [Next]_vars
  PROVE  \/ Restart
         \/ \A q \in Requests : Untouched(q)
         \/ \E r \in Requests : Acts(r) /\ \A q \in Requests \ {r} : Untouched(q)
  <1>0. /\ Requests = DOMAIN pc /\ Requests = DOMAIN kind /\ Requests = DOMAIN org
        /\ Requests = DOMAIN answer /\ Requests = DOMAIN failed /\ Requests = DOMAIN before
        /\ Requests = DOMAIN cfg /\ Requests = DOMAIN email /\ Requests = DOMAIN found
        /\ Requests = DOMAIN pending /\ Requests = DOMAIN stale
        /\ Requests = DOMAIN groups /\ Requests = DOMAIN claimed
    BY DEF TInv, ControlTypes, LoadedTypes, Lists
  <1> USE DEF Untouched, local, db
  <1>1. ASSUME NEW r \in Requests, NEW o \in Orgs, Authorize(r, o)
       PROVE  \A q \in Requests \ {r} : Untouched(q)
    BY <1>0, <1>1 DEF Authorize, Begin, Go, Answer
  <1>2. ASSUME NEW r \in Requests, NEW o \in Orgs, AuthorizeUnknown(r, o)
       PROVE  \A q \in Requests \ {r} : Untouched(q)
    BY <1>0, <1>2 DEF AuthorizeUnknown, Begin, Go, Answer
  <1>3. ASSUME NEW r \in Requests, Discover(r)
       PROVE  \A q \in Requests \ {r} : Untouched(q)
    <2>1. \A q \in Requests \ {r} :
            pc'[q] = pc[q] /\ answer'[q] = answer[q] /\ failed'[q] = failed[q]
      BY <1>3, GoFrame DEF Discover
    <2>2. QED
      BY <1>0, <1>3, <2>1 DEF Discover
  <1>4. ASSUME NEW r \in Requests, Callback(r)
       PROVE  \A q \in Requests \ {r} : Untouched(q)
    BY <1>0, <1>4 DEF Callback, Begin, Go, Answer
  <1>5. ASSUME NEW r \in Requests, CallbackUnknown(r)
       PROVE  \A q \in Requests \ {r} : Untouched(q)
    BY <1>0, <1>5 DEF CallbackUnknown, Begin, Go, Answer
  <1>6. ASSUME NEW r \in Requests, ReadConfig(r)
       PROVE  \A q \in Requests \ {r} : Untouched(q)
    <2>1. \A q \in Requests \ {r} :
            pc'[q] = pc[q] /\ answer'[q] = answer[q] /\ failed'[q] = failed[q]
      BY <1>6, GoFrame DEF ReadConfig
    <2>2. UNCHANGED cfg \/ \E c : cfg' = [cfg EXCEPT ![r] = c]
      BY <1>6 DEF ReadConfig
    <2>3. UNCHANGED <<kind, org, email, groups, found, pending, stale, claimed, before>>
      BY <1>6 DEF ReadConfig
    <2>4. QED
      BY <1>0, <2>1, <2>2, <2>3
  <1>7. ASSUME NEW r \in Requests, ExchangeCode(r)
       PROVE  \A q \in Requests \ {r} : Untouched(q)
    <2>1. \A q \in Requests \ {r} :
            pc'[q] = pc[q] /\ answer'[q] = answer[q] /\ failed'[q] = failed[q]
      BY <1>7, GoFrame DEF ExchangeCode
    <2>2. QED
      BY <1>0, <1>7, <2>1 DEF ExchangeCode
  <1>8. ASSUME NEW r \in Requests, SelectUser(r)
       PROVE  \A q \in Requests \ {r} : Untouched(q)
    BY <1>0, <1>8 DEF SelectUser, Begin, Go, Answer
  <1>9. ASSUME NEW r \in Requests, FlushUser(r)
       PROVE  \A q \in Requests \ {r} : Untouched(q)
    <2>1. \A q \in Requests \ {r} :
            pc'[q] = pc[q] /\ answer'[q] = answer[q] /\ failed'[q] = failed[q]
      BY <1>9, GoFrame DEF FlushUser
    <2>2. QED
      BY <1>0, <1>9, <2>1 DEF FlushUser
  <1>10. ASSUME NEW r \in Requests, FlushMember(r)
       PROVE  \A q \in Requests \ {r} : Untouched(q)
    BY <1>0, <1>10 DEF FlushMember, Begin, Go, Answer
  <1>11. ASSUME NEW r \in Requests, Reselect(r)
       PROVE  \A q \in Requests \ {r} : Untouched(q)
    <2>1. \A q \in Requests \ {r} :
            pc'[q] = pc[q] /\ answer'[q] = answer[q] /\ failed'[q] = failed[q]
      BY <1>11, GoFrame DEF Reselect
    <2>2. QED
      BY <1>0, <1>11, <2>1 DEF Reselect
  <1>12. ASSUME NEW r \in Requests, CommitUser(r)
       PROVE  \A q \in Requests \ {r} : Untouched(q)
    <2>1. \A q \in Requests \ {r} :
            pc'[q] = pc[q] /\ answer'[q] = answer[q] /\ failed'[q] = failed[q]
      BY <1>12, GoFrame DEF CommitUser
    <2>2. QED
      BY <1>0, <1>12, <2>1 DEF CommitUser
  <1>13. ASSUME NEW r \in Requests, SkipGroup(r)
       PROVE  \A q \in Requests \ {r} : Untouched(q)
    BY <1>0, <1>13 DEF SkipGroup, Begin, Go, Answer
  <1>14. ASSUME NEW r \in Requests, MapGroup(r)
       PROVE  \A q \in Requests \ {r} : Untouched(q)
    BY <1>0, <1>14 DEF MapGroup, Begin, Go, Answer
  <1>15. ASSUME NEW r \in Requests, CommitGroups(r)
       PROVE  \A q \in Requests \ {r} : Untouched(q)
    BY <1>0, <1>15 DEF CommitGroups, Begin, Go, Answer
  <1>16. ASSUME NEW r \in Requests, Deadlocked(r)
       PROVE  \A q \in Requests \ {r} : Untouched(q)
    BY <1>0, <1>16 DEF Deadlocked, Rivals, Begin, Go, Answer
  <1>17. ASSUME NEW r \in Requests, IssueTokens(r)
       PROVE  \A q \in Requests \ {r} : Untouched(q)
    <2>1. \A q \in Requests \ {r} :
            pc'[q] = pc[q] /\ answer'[q] = answer[q] /\ failed'[q] = failed[q]
      BY <1>17, GoFrame DEF IssueTokens
    <2>2. QED
      BY <1>0, <1>17, <2>1 DEF IssueTokens
  <1>18. ASSUME NEW r \in Requests, MapMalformed(r)
        PROVE  \A q \in Requests \ {r} : Untouched(q)
    BY <1>0, <1>18 DEF MapMalformed, Begin, Go, Answer
  <1>19. ASSUME NEW r \in Requests, Acts(r)
        PROVE  \A q \in Requests \ {r} : Untouched(q)
    BY <1>1, <1>2, <1>3, <1>4, <1>5, <1>6, <1>7, <1>8, <1>9, <1>10, <1>11, <1>12, <1>13, <1>14,
       <1>15, <1>16, <1>17, <1>18, <1>19 DEF Login, Acts
  <1> DEFINE framed == \/ Restart
                       \/ \A q \in Requests : Untouched(q)
                       \/ \E r \in Requests : Acts(r) /\ \A q \in Requests \ {r} : Untouched(q)
  <1>20. ASSUME NEW r \in Requests, Acts(r)
        PROVE  framed
    BY <1>19, <1>20
  <1>21. ASSUME \A q \in Requests : Untouched(q)
        PROVE  framed
    BY <1>21
  <1> HIDE DEF framed
  <1>22. ASSUME Expire
        PROVE  framed
    BY <1>21, <1>22 DEF Expire
  <1>23. ASSUME NEW o \in Orgs, DeleteConfig(o)
        PROVE  framed
    BY <1>21, <1>23 DEF DeleteConfig
  <1>24. ASSUME NEW o \in Orgs, NEW c \in Configs, CreateConfig(o, c)
        PROVE  framed
    BY <1>21, <1>24 DEF CreateConfig
  <1>25. ASSUME NEW t \in Teams, DeleteTeam(t)
        PROVE  framed
    BY <1>21, <1>25 DEF DeleteTeam
  <1>26. ASSUME NEW e \in Emails, CreateUser(e)
        PROVE  framed
    BY <1>21, <1>26 DEF CreateUser, Gives
  <1>27. ASSUME NEW e \in Emails, NEW o \in Orgs, AddOrgMember(e, o)
        PROVE  framed
    BY <1>21, <1>27 DEF AddOrgMember, Gives
  <1>28. ASSUME NEW e \in Emails, NEW t \in Teams, AddTeamMember(e, t)
        PROVE  framed
    BY <1>21, <1>28 DEF AddTeamMember, Gives
  <1>29. ASSUME UNCHANGED vars
        PROVE  framed
    BY <1>21, <1>29 DEF vars
  <1>30. ASSUME Restart
        PROVE  framed
    BY <1>30 DEF framed
  <1>31. framed
    BY <1>20, <1>22, <1>23, <1>24, <1>25, <1>26, <1>27, <1>28, <1>29, <1>30 DEF Next, Acts
  <1>32. QED
    BY <1>31 DEF framed

(***************************************************************************)
(* The rows.                                                               *)
(***************************************************************************)
LEMMA WhoWrites ==
  ASSUME [Next]_vars
  PROVE  \/ UNCHANGED <<users, orgMember, teamMember>>
         \/ \E r \in Requests : CommitUser(r) \/ CommitGroups(r)
         \/ \E t \in Teams : DeleteTeam(t)
         \/ \E e \in Emails : \/ CreateUser(e)
                              \/ \E o \in Orgs : AddOrgMember(e, o)
                              \/ \E t \in Teams : AddTeamMember(e, t)
  <1>1. ASSUME NEW r \in Requests, Acts(r), ~CommitUser(r), ~CommitGroups(r)
       PROVE  UNCHANGED <<users, orgMember, teamMember>>
    BY <1>1 DEF Acts, Login, local, db, Authorize, AuthorizeUnknown, Discover, Callback,
       CallbackUnknown, ReadConfig, ExchangeCode, SelectUser, FlushUser, FlushMember, Reselect,
       SkipGroup, MapGroup, MapMalformed, Deadlocked, IssueTokens
  <1>2. CASE \/ Expire \/ Restart \/ UNCHANGED vars
             \/ \E o \in Orgs : DeleteConfig(o) \/ \E c \in Configs : CreateConfig(o, c)
    BY <1>2 DEF Expire, Restart, vars, db, DeleteConfig, CreateConfig
  <1>3. QED
    BY <1>1, <1>2 DEF Next, Acts

LEMMA OneWrites ==
  ASSUME [Next]_vars
  PROVE  \/ UNCHANGED <<users, orgMember>>
         \/ \E r \in Requests :
              /\ CommitUser(r) /\ users' = [users EXCEPT ![email[r]] = "linked"]
              /\ orgMember' = orgMember \cup {<<email[r], org[r]>>}
         \/ \E e \in Emails : /\ CreateUser(e) /\ users' = [users EXCEPT ![e] = "password"]
                              /\ UNCHANGED orgMember
         \/ \E e \in Emails, o \in Orgs : /\ AddOrgMember(e, o) /\ UNCHANGED users
                                          /\ orgMember' = orgMember \cup {<<e, o>>}
  <1>1. ASSUME NEW r \in Requests, CommitUser(r) \/ CommitGroups(r)
       PROVE  \/ UNCHANGED <<users, orgMember>>
              \/ /\ CommitUser(r) /\ users' = [users EXCEPT ![email[r]] = "linked"]
                 /\ orgMember' = orgMember \cup {<<email[r], org[r]>>}
    BY <1>1 DEF CommitUser, CommitGroups
  <1>2. ASSUME NEW t \in Teams, DeleteTeam(t)
       PROVE  UNCHANGED <<users, orgMember>>
    BY <1>2 DEF DeleteTeam
  <1>3. ASSUME NEW e \in Emails, CreateUser(e)
       PROVE  users' = [users EXCEPT ![e] = "password"] /\ UNCHANGED orgMember
    BY <1>3 DEF CreateUser
  <1>4. ASSUME NEW e \in Emails, NEW o \in Orgs, AddOrgMember(e, o)
       PROVE  orgMember' = orgMember \cup {<<e, o>>} /\ UNCHANGED users
    BY <1>4 DEF AddOrgMember
  <1>5. ASSUME NEW e \in Emails, NEW t \in Teams, AddTeamMember(e, t)
       PROVE  UNCHANGED <<users, orgMember>>
    BY <1>5 DEF AddTeamMember
  <1>6. QED
    BY <1>1, <1>2, <1>3, <1>4, <1>5, WhoWrites

\* Who commits knows the person and the organization.
LEMMA Committer ==
  ASSUME TInv, NEW r \in Requests, CommitUser(r)
  PROVE  pc[r] = "commit" /\ email[r] \in Emails /\ org[r] \in Orgs
  BY DEF CommitUser, TInv, Stages, Past, Provisioning

\* A row that a callback is about to insert is inserted by nobody else.
LEMMA StaysAbsent ==
  ASSUME TInv, RowsInv, [Next]_vars,
         NEW q \in Requests, pc[q] \in {"member", "commit"}, found[q] = "absent", ~CommitUser(q)
  PROVE  users'[email[q]] = "absent"
  <1>1. users[email[q]] = "absent" /\ email[q] \in Emails
    BY DEF RowsInv, Relies, TInv, Stages, Past, Provisioning
  <1>2. CASE UNCHANGED users
    BY <1>1, <1>2
  <1>3. ASSUME NEW r \in Requests, CommitUser(r), users' = [users EXCEPT ![email[r]] = "linked"]
       PROVE  users'[email[q]] = "absent"
    <2>1. r # q /\ pc[r] = "commit"
      BY <1>3, Committer
    <2>2. CASE email[r] # email[q]
      BY <1>1, <1>3, <2>2 DEF TInv, DbTypes
    <2>3. CASE email[r] = email[q]
      <3>1. CASE found[r] = "linked"
        BY <1>1, <2>1, <2>3, <3>1 DEF RowsInv, Relies
      <3>2. CASE found[r] # "linked"
        BY <2>1, <2>3, <3>2 DEF RowsInv, OneHolds, Holding
      <3>3. QED
        BY <3>1, <3>2
    <2>4. QED
      BY <2>2, <2>3
  <1>4. ASSUME NEW e \in Emails, CreateUser(e), users' = [users EXCEPT ![e] = "password"]
       PROVE  users'[email[q]] = "absent"
    <2>1. q \in Holding(email[q])
      BY DEF Holding
    <2>2. e # email[q]
      BY <1>4, <2>1 DEF CreateUser
    <2>3. QED
      BY <1>1, <1>4, <2>2 DEF TInv, DbTypes
  <1>5. QED
    BY <1>2, <1>3, <1>4, OneWrites

LEMMA WritersBegin ==
  ASSUME TInv, NEW r \in Requests, Acts(r), pc'[r] \in {"member", "commit"}
  PROVE  (FlushUser(r) \/ FlushMember(r)) /\ UNCHANGED <<email, found>>
  <1>0. Requests = DOMAIN pc
    BY DEF TInv, ControlTypes, LoadedTypes, Lists
  <1> USE DEF Begin, Go, Answer, AfterProvision, local, db
  <1>1. ASSUME NEW o \in Orgs, Authorize(r, o)
       PROVE  (FlushUser(r) \/ FlushMember(r)) /\ UNCHANGED <<email, found>>
    BY <1>0, <1>1 DEF Authorize
  <1>2. ASSUME NEW o \in Orgs, AuthorizeUnknown(r, o)
       PROVE  (FlushUser(r) \/ FlushMember(r)) /\ UNCHANGED <<email, found>>
    BY <1>0, <1>2 DEF AuthorizeUnknown
  <1>3. CASE Discover(r)
    BY <1>0, <1>3 DEF Discover
  <1>4. CASE Callback(r)
    BY <1>0, <1>4 DEF Callback
  <1>5. CASE CallbackUnknown(r)
    BY <1>0, <1>5 DEF CallbackUnknown
  <1>6. CASE ReadConfig(r)
    BY <1>0, <1>6 DEF ReadConfig
  <1>7. CASE ExchangeCode(r)
    BY <1>0, <1>7 DEF ExchangeCode
  <1>8. CASE SelectUser(r)
    BY <1>0, <1>8 DEF SelectUser
  <1>9. CASE FlushUser(r)
    BY <1>0, <1>9 DEF FlushUser
  <1>10. CASE FlushMember(r)
    BY <1>0, <1>10 DEF FlushMember
  <1>11. CASE Reselect(r)
    BY <1>0, <1>11 DEF Reselect, AfterProvision
  <1>12. CASE CommitUser(r)
    BY <1>0, <1>12 DEF CommitUser, AfterProvision
  <1>13. CASE SkipGroup(r)
    BY <1>0, <1>13 DEF SkipGroup
  <1>14. CASE MapGroup(r)
    BY <1>0, <1>14 DEF MapGroup
  <1>15. CASE CommitGroups(r)
    BY <1>0, <1>15 DEF CommitGroups
  <1>16. CASE Deadlocked(r)
    BY <1>0, <1>16 DEF Deadlocked, Rivals
  <1>17. CASE IssueTokens(r)
    BY <1>0, <1>17 DEF IssueTokens
  <1>18. CASE MapMalformed(r)
    BY <1>0, <1>18 DEF MapMalformed
  <1>19. QED
    BY <1>1, <1>2, <1>3, <1>4, <1>5, <1>6, <1>7, <1>8, <1>9, <1>10, <1>11, <1>12, <1>13, <1>14,
       <1>15, <1>16, <1>17, <1>18 DEF Acts, Login

LEMMA ReliesActs ==
  ASSUME TInv, RowsInv, RowsKept, NEW r \in Requests, Acts(r)
  PROVE  Relies(r)'
  <1>0. Requests = DOMAIN pc /\ Requests = DOMAIN found /\ Requests = DOMAIN email /\ Requests = DOMAIN org
    BY DEF TInv, ControlTypes, LoadedTypes, Lists
  <1>a. Relies(r) /\ (pc[r] \in Past => email[r] \in Emails /\ org[r] \in Orgs)
    BY DEF RowsInv, TInv, Stages
  <1> USE DEF Relies, Begin, Go, Answer, local, db
  <1>1. ASSUME NEW o \in Orgs, Authorize(r, o)
       PROVE  Relies(r)'
    <2>1. pc'[r] \notin {"flush", "member", "reselect", "commit", "groups", "tokens"}
      BY <1>0, <1>1 DEF Authorize
    <2>2. QED
      BY <2>1
  <1>2. ASSUME NEW o \in Orgs, AuthorizeUnknown(r, o)
       PROVE  Relies(r)'
    <2>1. pc'[r] \notin {"flush", "member", "reselect", "commit", "groups", "tokens"}
      BY <1>0, <1>2 DEF AuthorizeUnknown
    <2>2. QED
      BY <2>1
  <1>3. CASE Discover(r)
    <2>1. pc'[r] \notin {"flush", "member", "reselect", "commit", "groups", "tokens"}
      BY <1>0, <1>3 DEF Discover
    <2>2. QED
      BY <2>1
  <1>4. CASE Callback(r)
    <2>1. pc'[r] \notin {"flush", "member", "reselect", "commit", "groups", "tokens"}
      BY <1>0, <1>4 DEF Callback
    <2>2. QED
      BY <2>1
  <1>5. CASE CallbackUnknown(r)
    <2>1. pc'[r] \notin {"flush", "member", "reselect", "commit", "groups", "tokens"}
      BY <1>0, <1>5 DEF CallbackUnknown
    <2>2. QED
      BY <2>1
  <1>6. CASE ReadConfig(r)
    <2>1. pc' = [pc EXCEPT ![r] = "done"] \/ pc' = [pc EXCEPT ![r] = "exchange"]
      BY <1>6 DEF ReadConfig
    <2>2. QED
      BY <1>0, <2>1
  <1>7. CASE ExchangeCode(r)
    <2>1. pc' = [pc EXCEPT ![r] = "done"] \/ pc' = [pc EXCEPT ![r] = "select"]
      BY <1>7 DEF ExchangeCode
    <2>2. QED
      BY <1>0, <2>1
  <1>8. CASE SelectUser(r)
    <2>1. pc'[r] = "flush" /\ found'[r] = users'[email'[r]]
      BY <1>0, <1>8 DEF SelectUser
    <2>2. QED
      BY <2>1
  <1>9. CASE FlushUser(r)
    <2>1. CASE found[r] = "absent" /\ users[email[r]] # "absent"
      <3>1. pc'[r] = "done"
        BY <1>0, <1>9, <2>1 DEF FlushUser
      <3>2. QED
        BY <3>1
    <2>2. CASE ~(found[r] = "absent" /\ users[email[r]] # "absent")
      BY <1>0, <1>a, <1>9, <2>2 DEF FlushUser
    <2>3. QED
      BY <2>1, <2>2
  <1>10. CASE FlushMember(r)
    <2>1. UNCHANGED <<users, orgMember, email, org, found>> /\ pc[r] = "member"
      BY <1>10 DEF FlushMember
    <2>2. CASE <<email[r], org[r]>> \in orgMember
      <3>1. pc'[r] = "reselect"
        BY <1>0, <1>10, <2>2 DEF FlushMember
      <3>2. users[email[r]] # "absent"
        BY <2>2 DEF RowsInv, Members
      <3>3. QED
        BY <1>a, <2>1, <2>2, <3>1, <3>2
    <2>3. CASE <<email[r], org[r]>> \notin orgMember
      <3>1. pc'[r] = "commit"
        BY <1>0, <1>10, <2>3 DEF FlushMember
      <3>2. QED
        BY <1>a, <2>1, <3>1
    <2>4. QED
      BY <2>2, <2>3
  <1>11. CASE Reselect(r)
    <2>1. /\ pc'[r] \in {"groups", "tokens", "done"} /\ pc[r] = "reselect"
          /\ UNCHANGED <<users, orgMember, email, org>>
      BY <1>0, <1>11 DEF Reselect, AfterProvision
    <2>2. QED
      BY <1>a, <2>1
  <1>12. CASE CommitUser(r)
    <2>1. pc'[r] \in {"groups", "tokens", "done"} /\ UNCHANGED <<email, org>>
      BY <1>0, <1>12 DEF CommitUser, AfterProvision
    <2>2. users'[email[r]] = "linked" /\ <<email[r], org[r]>> \in orgMember'
      BY <1>12, Committer DEF CommitUser, TInv, DbTypes
    <2>3. QED
      BY <2>1, <2>2
  <1>13. CASE SkipGroup(r)
    <2>1. /\ pc'[r] \in {"groups", "tokens", "done"} /\ pc[r] = "groups"
          /\ UNCHANGED <<users, orgMember, email, org>>
      BY <1>0, <1>13 DEF SkipGroup
    <2>2. QED
      BY <1>a, <2>1
  <1>14. CASE MapGroup(r)
    <2>1. /\ pc'[r] \in {"groups", "tokens", "done"} /\ pc[r] = "groups"
          /\ UNCHANGED <<users, orgMember, email, org>>
      BY <1>0, <1>14 DEF MapGroup
    <2>2. QED
      BY <1>a, <2>1
  <1>15. CASE CommitGroups(r)
    <2>1. /\ pc'[r] \in {"groups", "tokens", "done"} /\ pc[r] = "groups"
          /\ UNCHANGED <<users, orgMember, email, org>>
      BY <1>0, <1>15 DEF CommitGroups
    <2>2. QED
      BY <1>a, <2>1
  <1>16. CASE Deadlocked(r)
    <2>1. pc'[r] \notin {"flush", "member", "reselect", "commit", "groups", "tokens"}
      BY <1>0, <1>16 DEF Deadlocked, Rivals
    <2>2. QED
      BY <2>1
  <1>17. CASE IssueTokens(r)
    <2>1. pc'[r] \notin {"flush", "member", "reselect", "commit", "groups", "tokens"}
      BY <1>0, <1>17 DEF IssueTokens
    <2>2. QED
      BY <2>1
  <1>18. CASE MapMalformed(r)
    <2>1. pc'[r] \notin {"flush", "member", "reselect", "commit", "groups", "tokens"}
      BY <1>0, <1>18 DEF MapMalformed
    <2>2. QED
      BY <2>1
  <1>19. QED
    BY <1>1, <1>2, <1>3, <1>4, <1>5, <1>6, <1>7, <1>8, <1>9, <1>10, <1>11, <1>12, <1>13, <1>14,
       <1>15, <1>16, <1>17, <1>18 DEF Acts, Login

\* The members are users, and of the callbacks that write one user's row one
\* is in its transaction.
LEMMA RowsStep ==
  ASSUME TInv, RowsInv, [Next]_vars
  PROVE  RowsInv'
  <1>1. RowsKept
    BY KeepRows
  <1>2. Members'
    <2>1. CASE UNCHANGED <<users, orgMember>>
      BY <2>1 DEF RowsInv, Members
    <2>2. ASSUME NEW r \in Requests, CommitUser(r),
                users' = [users EXCEPT ![email[r]] = "linked"],
                orgMember' = orgMember \cup {<<email[r], org[r]>>}
         PROVE  Members'
      BY <2>2, Committer DEF RowsInv, Members, TInv, DbTypes
    <2>3. ASSUME NEW e \in Emails, users' = [users EXCEPT ![e] = "password"], UNCHANGED orgMember
         PROVE  Members'
      BY <2>3 DEF RowsInv, Members, TInv, DbTypes
    <2>4. ASSUME NEW e \in Emails, NEW o \in Orgs, AddOrgMember(e, o),
                UNCHANGED users, orgMember' = orgMember \cup {<<e, o>>}
         PROVE  Members'
      BY <2>4 DEF RowsInv, Members, AddOrgMember
    <2>5. QED
      BY <2>1, <2>2, <2>3, <2>4, OneWrites
  <1>3. LinkedUsersBelong'
    <2>1. CASE UNCHANGED <<users, orgMember>>
      BY <2>1 DEF RowsInv, LinkedUsersBelong
    <2>2. ASSUME NEW r \in Requests, CommitUser(r),
                users' = [users EXCEPT ![email[r]] = "linked"],
                orgMember' = orgMember \cup {<<email[r], org[r]>>}
         PROVE  LinkedUsersBelong'
      BY <2>2, Committer DEF RowsInv, LinkedUsersBelong, TInv, DbTypes
    <2>3. ASSUME NEW e \in Emails, users' = [users EXCEPT ![e] = "password"], UNCHANGED orgMember
         PROVE  LinkedUsersBelong'
      BY <2>3 DEF RowsInv, LinkedUsersBelong, TInv, DbTypes
    <2>4. ASSUME NEW e \in Emails, NEW o \in Orgs, AddOrgMember(e, o),
                UNCHANGED users, orgMember' = orgMember \cup {<<e, o>>}
         PROVE  LinkedUsersBelong'
      BY <2>4 DEF RowsInv, LinkedUsersBelong
    <2>5. QED
      BY <2>1, <2>2, <2>3, <2>4, OneWrites
  <1>4. ASSUME NEW q \in Requests, Untouched(q)
       PROVE  Relies(q)'
    <2>1. Relies(q) /\ (pc[q] \in Past => email[q] \in Emails)
      BY DEF RowsInv, TInv, Stages
    <2>2. ~CommitUser(q)
      <3>1. Requests = DOMAIN pc
        BY DEF TInv, ControlTypes
      <3>2. QED
        BY <1>4, <3>1 DEF Untouched, CommitUser, AfterProvision, Go, Answer
    <2>3. pc[q] \in {"member", "commit"} /\ found[q] = "absent" => users'[email[q]] = "absent"
      BY <2>2, StaysAbsent
    <2>4. QED
      BY <1>1, <1>4, <2>1, <2>3 DEF Untouched, Relies, RowsKept, Past, Provisioning
  <1>5. ASSUME NEW q \in Requests, Untouched(q), NEW r \in Requests, Acts(r),
              q # r, email'[q] = email'[r], found'[q] # "linked", found'[r] # "linked",
              pc'[q] \in {"member", "commit"}, pc'[r] \in {"member", "commit"}
       PROVE  FALSE
    <2>1. (FlushUser(r) \/ FlushMember(r)) /\ UNCHANGED <<email, found>>
      BY <1>5, WritersBegin
    <2>2. pc[q] = pc'[q] /\ found[q] = found'[q] /\ email[q] = email'[q]
      BY <1>5 DEF Untouched
    <2>3. CASE FlushUser(r)
      BY <1>5, <2>1, <2>2, <2>3 DEF FlushUser, Holding
    <2>4. CASE FlushMember(r)
      BY <1>5, <2>1, <2>2, <2>4 DEF FlushMember, RowsInv, OneHolds, Holding
    <2>5. QED
      BY <2>1, <2>3, <2>4
  <1>6. CASE Restart
    <2>1. \A q \in Requests : pc'[q] \in {"idle", "done"}
      BY <1>6 DEF Restart
    <2>2. QED
      BY <1>2, <1>3, <2>1 DEF RowsInv, OneHolds, Holding, Relies
  <1>7. CASE \A q \in Requests : Untouched(q)
    BY <1>2, <1>3, <1>4, <1>7 DEF RowsInv, OneHolds, Holding, Untouched
  <1>8. ASSUME NEW r \in Requests, Acts(r), \A q \in Requests \ {r} : Untouched(q)
       PROVE  RowsInv'
    <2>1. \A q \in Requests : Relies(q)'
      BY <1>1, <1>4, <1>8, ReliesActs
    <2>2. OneHolds'
      <3>1. ASSUME NEW p \in Requests, NEW q \in Requests, p # q,
                  (p \in Holding(email[q]))', (q \in Holding(email[p]))'
           PROVE  FALSE
        <4>1. /\ email'[p] = email'[q] /\ found'[p] # "linked" /\ found'[q] # "linked"
              /\ pc'[p] \in {"member", "commit"} /\ pc'[q] \in {"member", "commit"}
          BY <3>1 DEF Holding
        <4>2. CASE p = r
          BY <1>5, <1>8, <3>1, <4>1, <4>2
        <4>3. CASE q = r
          BY <1>5, <1>8, <3>1, <4>1, <4>3
        <4>4. CASE p # r /\ q # r
          BY <1>8, <3>1, <4>1, <4>4 DEF Untouched, RowsInv, OneHolds, Holding
        <4>5. QED
          BY <4>2, <4>3, <4>4
      <3>2. QED
        BY <3>1 DEF OneHolds, Holding
    <2>3. QED
      BY <1>2, <1>3, <2>1, <2>2 DEF RowsInv
  <1>9. QED
    BY <1>6, <1>7, <1>8, Frame

LEMMA RowsInit == Init => RowsInv
  BY DEF Init, RowsInv, Members, OneHolds, Holding, LinkedUsersBelong, Relies

(***************************************************************************)
(* What there is of a person.                                              *)
(***************************************************************************)
LEMMA OverlapsGrow ==
  ASSUME TInv, HistoryKept, NEW r \in Requests, email[r] \in Emails
  PROVE  Overlaps(r) \subseteq Overlaps(r)'
  <1>1. ASSUME NEW q \in Requests, email[q] \in Emails
       PROVE  pc[q] # "idle" /\ email'[q] = email[q] /\ before'[q] = before[q]
    <2>1. pc[q] # "idle" /\ email[q] # None
      BY <1>1 DEF TInv, Stages
    <2>2. QED
      BY <2>1 DEF HistoryKept
  <1>2. QED
    BY <1>1 DEF Overlaps

\* What a step adds to a person is given, or the person's other callback adds it.
LEMMA Appears ==
  ASSUME TInv, [Next]_vars, NEW q \in Requests, pc[q] # "done", NEW e \in Emails, email[q] = e,
         ~CommitUser(q), ~CommitGroups(q), Overlaps(q)' = {}
  PROVE  Has(e)' \subseteq Has(e) \cup given'[q]
  <1>0. Overlaps(q) = {}
    BY KeepHistory, OverlapsGrow
  <1>1. CASE UNCHANGED <<users, orgMember, teamMember>>
    BY <1>1 DEF Has
  <1>2. ASSUME NEW r \in Requests, CommitUser(r) \/ CommitGroups(r)
       PROVE  Has(e)' \subseteq Has(e) \cup given'[q]
    <2>1. r # q /\ pc[r] # "done"
      BY <1>2 DEF CommitUser, CommitGroups
    <2>2. r \notin before[q] /\ q \notin before[r]
      BY <2>1 DEF TInv, Stages
    <2>3. email[r] # e
      BY <1>0, <2>1, <2>2 DEF Overlaps
    <2>4. CASE CommitUser(r)
      <3>1. /\ users' = [users EXCEPT ![email[r]] = "linked"] /\ UNCHANGED teamMember
            /\ orgMember' = orgMember \cup {<<email[r], org[r]>>}
        BY <2>4 DEF CommitUser
      <3>2. users'[e] = users[e]
        BY <2>3, <3>1 DEF TInv, DbTypes
      <3>3. QED
        BY <2>3, <3>1, <3>2 DEF Has
    <2>5. CASE CommitGroups(r)
      <3>1. teamMember' = teamMember \cup ({email[r]} \X pending[r]) /\ UNCHANGED <<users, orgMember>>
        BY <2>5 DEF CommitGroups
      <3>2. \A t \in Teams : <<e, t>> \in teamMember' => <<e, t>> \in teamMember
        BY <2>3, <3>1
      <3>3. QED
        BY <3>1, <3>2 DEF Has
    <2>6. QED
      BY <1>2, <2>4, <2>5
  <1>3. ASSUME NEW t \in Teams, DeleteTeam(t)
       PROVE  Has(e)' \subseteq Has(e) \cup given'[q]
    BY <1>3 DEF DeleteTeam, Has
  <1>4. ASSUME NEW x, Gives(e, x)
       PROVE  x \in given'[q]
    BY <1>4 DEF Gives
  <1>5. ASSUME NEW f \in Emails, CreateUser(f)
       PROVE  Has(e)' \subseteq Has(e) \cup given'[q]
    <2>1. /\ users' = [users EXCEPT ![f] = "password"] /\ UNCHANGED <<orgMember, teamMember>>
          /\ Gives(f, Account)
      BY <1>5 DEF CreateUser
    <2>2. users'[e] = users[e] \/ Account \in given'[q]
      BY <1>4, <2>1 DEF TInv, DbTypes
    <2>3. QED
      BY <2>1, <2>2 DEF Has
  <1>6. ASSUME NEW f \in Emails, NEW o \in Orgs, AddOrgMember(f, o)
       PROVE  Has(e)' \subseteq Has(e) \cup given'[q]
    <2>1. /\ orgMember' = orgMember \cup {<<f, o>>} /\ UNCHANGED <<users, teamMember>>
          /\ Gives(f, o)
      BY <1>6 DEF AddOrgMember
    <2>2. f = e => o \in given'[q]
      BY <1>4, <2>1
    <2>3. QED
      BY <2>1, <2>2 DEF Has
  <1>7. ASSUME NEW f \in Emails, NEW t \in Teams, AddTeamMember(f, t)
       PROVE  Has(e)' \subseteq Has(e) \cup given'[q]
    <2>1. /\ teamMember' = teamMember \cup {<<f, t>>} /\ UNCHANGED <<users, orgMember>>
          /\ Gives(f, t)
      BY <1>7 DEF AddTeamMember
    <2>2. f = e => t \in given'[q]
      BY <1>4, <2>1
    <2>3. QED
      BY <2>1, <2>2 DEF Has
  <1>8. QED
    BY <1>1, <1>2, <1>3, <1>5, <1>6, <1>7, WhoWrites

LEMMA TeamsOfHas == \A e : Has(e) \cap Teams = {t \in Teams : <<e, t>> \in teamMember}
  BY DEF Has

LEMMA KnownActs ==
  ASSUME TInv, HistoryKept, NEW r \in Requests, Known(r), Acts(r)
  PROVE  Known(r)'
  <1>0. Requests = DOMAIN pc /\ Requests = DOMAIN email /\ Requests = DOMAIN given
    BY DEF TInv, ControlTypes, LoadedTypes
  <1>a. email[r] \in Emails => Overlaps(r) \subseteq Overlaps(r)'
    BY OverlapsGrow
  <1>b. pc[r] \in Past => email[r] \in Emails
    BY DEF TInv, Stages
  <1>n. ASSUME pc'[r] \notin Provisioning \cup {"groups"}
       PROVE  Known(r)'
    BY <1>n DEF Known, Provisioning
  <1>s. ASSUME UNCHANGED <<users, orgMember, teamMember, email, given>>,
              pc[r] \in {"select", "flush", "member"}, pc'[r] \in {"flush", "member", "reselect"}
       PROVE  Known(r)'
    <2>1. Overlaps(r)' = {} => Overlaps(r) = {}
      BY <1>a, <1>b, <1>s DEF Past, Provisioning
    <2>2. Has(email[r])' = Has(email[r])
      BY <1>s DEF Has
    <2>3. QED
      BY <1>s, <2>1, <2>2 DEF Known
  <1>t. ASSUME UNCHANGED <<teamMember, email, given>>, pc[r] \in Provisioning \cup {"groups"},
              pc'[r] \in {"commit", "groups"}
       PROVE  Known(r)'
    <2>1. Overlaps(r)' = {} => Overlaps(r) = {}
      BY <1>a, <1>b, <1>t DEF Past, Provisioning
    <2>2. (Has(email[r]) \cap Teams)' = Has(email[r]) \cap Teams
      <3>1. Has(email[r]) \cap Teams = {t \in Teams : <<email[r], t>> \in teamMember}
        BY TeamsOfHas
      <3>2. (Has(email[r]) \cap Teams)' = {t \in Teams : <<email'[r], t>> \in teamMember'}
        BY DEF Has
      <3>3. QED
        BY <1>t, <3>1, <3>2
    <2>3. Overlaps(r) = {} => Has(email[r]) \cap Teams \subseteq given[r]
      BY <1>t DEF Known, Provisioning
    <2>4. QED
      BY <1>t, <2>1, <2>2, <2>3 DEF Known
  <1> USE DEF Begin, Go, Answer, AfterProvision, local, db, Provisioning
  <1>1. ASSUME NEW o \in Orgs, Authorize(r, o)
       PROVE  Known(r)'
    BY <1>0, <1>1, <1>n DEF Authorize
  <1>2. ASSUME NEW o \in Orgs, AuthorizeUnknown(r, o)
       PROVE  Known(r)'
    BY <1>0, <1>2, <1>n DEF AuthorizeUnknown
  <1>3. CASE Discover(r)
    BY <1>0, <1>3, <1>n DEF Discover
  <1>4. CASE Callback(r)
    BY <1>0, <1>4, <1>n DEF Callback
  <1>5. CASE CallbackUnknown(r)
    BY <1>0, <1>5, <1>n DEF CallbackUnknown
  <1>6. CASE ReadConfig(r)
    <2>1. pc' = [pc EXCEPT ![r] = "done"] \/ pc' = [pc EXCEPT ![r] = "exchange"]
      BY <1>6 DEF ReadConfig
    <2>2. QED
      BY <1>0, <1>n, <2>1
  <1>7. CASE ExchangeCode(r)
    <2>1. CASE pc'[r] = "done"
      BY <1>n, <2>1
    <2>2. CASE pc'[r] # "done"
      <3>0. /\ \A status : ~Answer(r, status)
            /\ \A step : Go(r, step) => pc'[r] = step
        BY <1>0, <2>2
      <3> HIDE DEF Go, Answer
      <3>1. PICK e \in Emails : /\ email' = [email EXCEPT ![r] = e]
                               /\ given' = [given EXCEPT ![r] = Has(e)]
                               /\ Go(r, "select")
        BY <1>7, <3>0 DEF ExchangeCode
      <3>2. pc'[r] = "select" /\ UNCHANGED <<users, orgMember, teamMember>>
        BY <1>7, <3>0, <3>1 DEF ExchangeCode
      <3>3. email'[r] = e /\ given'[r] = Has(e)
        BY <1>0, <3>1
      <3>4. Has(email[r])' = Has(e)
        BY <3>2, <3>3 DEF Has
      <3>5. QED
        BY <3>2, <3>3, <3>4 DEF Known
    <2>3. QED
      BY <2>1, <2>2
  <1>8. CASE SelectUser(r)
    BY <1>0, <1>8, <1>s DEF SelectUser
  <1>9. CASE FlushUser(r)
    <2>1. /\ UNCHANGED <<users, orgMember, teamMember, email, given>> /\ pc[r] = "flush"
          /\ pc' = [pc EXCEPT ![r] = "done"] \/ pc' = [pc EXCEPT ![r] = "member"]
      BY <1>9 DEF FlushUser
    <2>2. QED
      BY <1>0, <1>n, <1>s, <2>1
  <1>10. CASE FlushMember(r)
    BY <1>0, <1>10, <1>s, <1>t DEF FlushMember
  <1>11. CASE Reselect(r)
    <2>1. UNCHANGED <<teamMember, email, given>> /\ pc[r] = "reselect" /\ pc'[r] \in {"groups", "tokens", "done"}
      BY <1>0, <1>11 DEF Reselect
    <2>2. QED
      BY <1>n, <1>t, <2>1
  <1>12. CASE CommitUser(r)
    <2>1. UNCHANGED <<teamMember, email, given>> /\ pc[r] = "commit" /\ pc'[r] \in {"groups", "tokens", "done"}
      BY <1>0, <1>12 DEF CommitUser
    <2>2. QED
      BY <1>n, <1>t, <2>1
  <1>13. CASE SkipGroup(r)
    BY <1>0, <1>13, <1>t DEF SkipGroup
  <1>14. CASE MapGroup(r)
    BY <1>0, <1>14, <1>t DEF MapGroup
  <1>15. CASE CommitGroups(r)
    BY <1>0, <1>15, <1>n DEF CommitGroups
  <1>16. CASE Deadlocked(r)
    BY <1>0, <1>16, <1>n DEF Deadlocked
  <1>17. CASE IssueTokens(r)
    BY <1>0, <1>17, <1>n DEF IssueTokens
  <1>18. CASE MapMalformed(r)
    BY <1>0, <1>18, <1>n DEF MapMalformed
  <1>19. QED
    BY <1>1, <1>2, <1>3, <1>4, <1>5, <1>6, <1>7, <1>8, <1>9, <1>10, <1>11, <1>12, <1>13, <1>14,
       <1>15, <1>16, <1>17, <1>18 DEF Acts, Login

LEMMA KnownStep ==
  ASSUME TInv, KnownInv, [Next]_vars
  PROVE  KnownInv'
  <1>0. Requests = DOMAIN pc /\ HistoryKept
    BY KeepHistory DEF TInv, ControlTypes
  <1>1. CASE Restart
    <2>1. \A q \in Requests : pc'[q] \in {"idle", "done"}
      BY <1>1 DEF Restart
    <2>2. QED
      BY <2>1 DEF KnownInv, Known
  <1>2. ASSUME NEW q \in Requests, Untouched(q)
       PROVE  Known(q)'
    <2>1. CASE pc[q] \notin Provisioning \cup {"groups"}
      BY <1>2, <2>1 DEF Untouched, Known, Provisioning
    <2>2. CASE pc[q] \in Provisioning \cup {"groups"}
      <3>1. ~CommitUser(q) /\ ~CommitGroups(q)
        BY <1>0, <1>2 DEF Untouched, CommitUser, CommitGroups, AfterProvision, Go, Answer
      <3>2. email[q] \in Emails /\ pc[q] # "done"
        BY <2>2 DEF TInv, Stages, Past, Provisioning
      <3>3. PICK e \in Emails : email[q] = e
        BY <3>2
      <3>4. email'[q] = e /\ pc'[q] = pc[q] /\ given[q] \subseteq given'[q]
        BY <1>0, <1>2, <3>2, <3>3 DEF Untouched, HistoryKept
      <3>5. SUFFICES ASSUME Overlaps(q)' = {}
                     PROVE  Known(q)'
        BY DEF Known
      <3>6. Overlaps(q) = {} /\ Has(e)' \subseteq Has(e) \cup given'[q]
        BY <1>0, <3>1, <3>2, <3>3, <3>5, Appears, OverlapsGrow
      <3>7. Has(email[q])' = Has(e)'
        BY <3>4 DEF Has
      <3>8. /\ pc[q] \in {"select", "flush", "member", "reselect"} => Has(e) \subseteq given[q]
            /\ pc[q] \in {"commit", "groups"} => Has(e) \cap Teams \subseteq given[q]
        BY <3>3, <3>6 DEF KnownInv, Known
      <3>9. /\ pc[q] \in {"select", "flush", "member", "reselect"} => Has(e)' \subseteq given'[q]
            /\ pc[q] \in {"commit", "groups"} => Has(e)' \cap Teams \subseteq given'[q]
        BY <3>4, <3>6, <3>8
      <3>10. QED
        BY <3>4, <3>7, <3>9 DEF Known
    <2>3. QED
      BY <2>1, <2>2
  <1>3. ASSUME NEW r \in Requests, Acts(r)
       PROVE  Known(r)'
    BY <1>0, <1>3, KnownActs DEF KnownInv
  <1>4. QED
    BY <1>1, <1>2, <1>3, Frame DEF KnownInv

LEMMA KnownInit == Init => KnownInv
  BY DEF Init, KnownInv, Known

(***************************************************************************)
(* The groups.                                                             *)
(***************************************************************************)
LEMMA HeadAndTail ==
  ASSUME TInv, NEW r \in Requests, groups[r] # <<>>,
         groups' = [groups EXCEPT ![r] = Tail(@)], cfg'[r] = cfg[r]
  PROVE  \A t : ToCome(r, t) <=> t = NextTeam(r) \/ ToCome(r, t)'
  <1>1. groups[r] \in Seq(Groups) /\ groups'[r] = Tail(groups[r])
    BY DEF TInv, Lists
  <1> DEFINE gs == groups[r]
  <1>2. /\ DOMAIN gs = 1..Len(gs) /\ Len(gs) \in Nat \ {0} /\ Head(gs) = gs[1]
        /\ DOMAIN Tail(gs) = 1..(Len(gs) - 1)
        /\ \A i \in 1..(Len(gs) - 1) : Tail(gs)[i] = gs[i + 1]
    BY <1>1
  <1> SUFFICES ASSUME NEW t
               PROVE  ToCome(r, t) <=> t = NextTeam(r) \/ ToCome(r, t)'
    OBVIOUS
  <1>3. ASSUME NEW i \in DOMAIN gs, t = cfg[r].teams[gs[i]]
       PROVE  t = NextTeam(r) \/ ToCome(r, t)'
    <2>1. CASE i = 1
      BY <1>2, <1>3, <2>1 DEF NextTeam
    <2>2. CASE i # 1
      <3>1. i - 1 \in DOMAIN Tail(gs) /\ Tail(gs)[i - 1] = gs[i]
        BY <1>2, <2>2
      <3>2. QED
        BY <1>1, <1>3, <3>1 DEF ToCome
    <2>3. QED
      BY <2>1, <2>2
  <1>4. t = NextTeam(r) => ToCome(r, t)
    BY <1>2 DEF NextTeam, ToCome
  <1>5. ASSUME NEW i \in DOMAIN Tail(gs), t = cfg[r].teams[Tail(gs)[i]]
       PROVE  ToCome(r, t)
    <2>1. i + 1 \in DOMAIN gs /\ gs[i + 1] = Tail(gs)[i]
      BY <1>2
    <2>2. QED
      BY <1>5, <2>1 DEF ToCome
  <1>6. QED
    BY <1>1, <1>3, <1>4, <1>5 DEF ToCome

\* Where a callback turns to the groups, all that is wanted is to come; where
\* it passes them by, nothing is wanted.
LEMMA Turns ==
  ASSUME TInv, GroupsInv, NEW r \in Requests, pc[r] \in {"reselect", "commit"}, AfterProvision(r),
         UNCHANGED <<cfg, email, groups, pending, stale, claimed, teams>>
  PROVE  (Maps(r) /\ Mapping(r))'
  <1>0. Requests = DOMAIN pc
    BY DEF TInv, ControlTypes, LoadedTypes, Lists
  <1>1. /\ cfg[r] \in Configs /\ groups[r] = claimed[r] /\ claimed[r] \in Seq(Groups)
        /\ pending[r] = {} /\ "user" \notin stale[r] /\ None \notin teams
    BY DEF TInv, Stages, Past, Provisioning, Lists, LoadedTypes, DbTypes, GroupsInv, Maps
  <1>2. pc'[r] \in {"done", "tokens", "groups"}
    BY <1>0 DEF AfterProvision, Go, Answer
  <1>3. CASE pc'[r] = "tokens"
    <2>1. groups[r] = <<>> \/ cfg[r].teams = NoTeams
      BY <1>0, <1>3 DEF AfterProvision, Go, Answer
    <2>2. ASSUME NEW t \in teams, Wanted(r, t)
         PROVE  FALSE
      <3>1. PICK i \in DOMAIN claimed[r] : t = cfg[r].teams[claimed[r][i]]
        BY <2>2 DEF Wanted
      <3>2. claimed[r][i] \in Groups
        BY <1>1, <3>1
      <3>3. CASE groups[r] = <<>>
        BY <1>1, <3>1, <3>3
      <3>4. CASE cfg[r].teams = NoTeams
        BY <1>1, <2>2, <3>1, <3>2, <3>4 DEF NoTeams
      <3>5. QED
        BY <2>1, <3>3, <3>4
    <2>3. \A t \in teams' : ~Wanted(r, t)'
      BY <2>2 DEF Wanted
    <2>4. QED
      BY <1>1, <1>3, <2>3 DEF Maps, Mapping
  <1>4. CASE pc'[r] = "groups"
    <2>1. pending'[r] = {} /\ stale'[r] = stale[r] /\ \A t : Wanted(r, t)' <=> ToCome(r, t)'
      BY <1>1 DEF Wanted, ToCome
    <2>2. Mapping(r)'
      BY <1>1, <2>1 DEF Mapping
    <2>3. QED
      BY <1>1, <1>4, <2>1, <2>2 DEF Maps
  <1>5. CASE pc'[r] = "done"
    BY <1>5 DEF Maps, Mapping
  <1>6. QED
    BY <1>2, <1>3, <1>4, <1>5

\* A reason, once there, stays.
LEMMA DisplacedStays ==
  ASSUME TInv, HistoryKept, RowsKept, NEW r \in Requests, email[r] \in Emails, cfg'[r] = cfg[r],
         Displaced(r)
  PROVE  Displaced(r)'
  <1>1. /\ Overlaps(r) \subseteq Overlaps(r)' /\ claimed'[r] = claimed[r]
        /\ given[r] \subseteq given'[r] /\ teams' \subseteq teams
    BY OverlapsGrow DEF HistoryKept, RowsKept
  <1>2. \A i : TeamOf(r, i)' = TeamOf(r, i)
    BY <1>1 DEF TeamOf
  <1>3. QED
    BY <1>1, <1>2 DEF Displaced

LEMMA Counting ==
  ASSUME NEW m \in Nat, NEW n \in Nat \ {0}, m - n \in Nat
  PROVE  (m - n) + 1 \in 1..m /\ m - (n - 1) = (m - n) + 1
  OBVIOUS

\* Why the INSERT of the next membership rolls back.
LEMMA Displaces ==
  ASSUME TInv, GroupsInv, KnownInv, NEW r \in Requests, pc[r] = "groups", groups[r] # <<>>,
         NextTeam(r) \in Teams,
         \/ NextTeam(r) \notin teams \/ <<email[r], NextTeam(r)>> \in teamMember
         \/ NextTeam(r) \in pending[r]
  PROVE  Displaced(r)
  <1> DEFINE done == Len(claimed[r]) - Len(groups[r])
  <1>1. claimed[r] \in Seq(Groups) /\ groups[r] \in Seq(Groups)
    BY DEF TInv, Lists
  <1>2. /\ done \in Nat /\ \A i \in DOMAIN groups[r] : groups[r][i] = claimed[r][done + i]
        /\ \A t \in pending[r] : \E i \in 1..done : TeamOf(r, i) = t
    BY DEF GroupsInv, Mapping
  <1>3. 1 \in DOMAIN groups[r] /\ Head(groups[r]) = groups[r][1]
    BY <1>1
  <1>a. /\ DOMAIN claimed[r] = 1..Len(claimed[r]) /\ Len(claimed[r]) \in Nat
        /\ Len(groups[r]) \in Nat \ {0}
    BY <1>1
  <1>b. done + 1 \in 1..Len(claimed[r])
    BY <1>2, <1>a, Counting
  <1>c. groups[r][1] = claimed[r][done + 1]
    BY <1>2, <1>3
  <1> HIDE DEF done
  <1>4. done + 1 \in DOMAIN claimed[r] /\ TeamOf(r, done + 1) = NextTeam(r)
    BY <1>3, <1>a, <1>b, <1>c DEF TeamOf, NextTeam
  <1>5. CASE NextTeam(r) \notin teams
    BY <1>4, <1>5 DEF Displaced
  <1>6. CASE <<email[r], NextTeam(r)>> \in teamMember
    <2>1. NextTeam(r) \in Has(email[r]) \cap Teams
      BY <1>6, TeamsOfHas
    <2>2. Overlaps(r) = {} => NextTeam(r) \in given[r]
      BY <2>1 DEF KnownInv, Known
    <2>3. QED
      BY <1>4, <2>2 DEF Displaced
  <1>7. CASE NextTeam(r) \in pending[r]
    <2>1. PICK i \in 1..done : TeamOf(r, i) = NextTeam(r)
      BY <1>2, <1>7
    <2>2. i \in DOMAIN claimed[r] \ {done + 1}
      BY <1>2, <1>a, <1>b
    <2>3. QED
      BY <1>4, <2>1, <2>2 DEF Displaced
  <1>8. QED
    BY <1>5, <1>6, <1>7

\* The next group is done with.
LEMMA MappingGoesOn ==
  ASSUME TInv, NEW r \in Requests, Mapping(r), pc[r] = "groups", groups[r] # <<>>,
         groups' = [groups EXCEPT ![r] = Tail(@)], cfg'[r] = cfg[r], claimed'[r] = claimed[r],
         pending'[r] \subseteq pending[r] \cup {NextTeam(r)}
  PROVE  Mapping(r)'
  <1> DEFINE gs == groups[r]
             cs == claimed[r]
             done == Len(cs) - Len(gs)
  <1>1. cs \in Seq(Groups) /\ gs \in Seq(Groups) /\ groups'[r] = Tail(gs)
    BY DEF TInv, Lists
  <1>2. /\ DOMAIN gs = 1..Len(gs) /\ Len(gs) \in Nat \ {0} /\ Head(gs) = gs[1] /\ Len(cs) \in Nat
        /\ DOMAIN Tail(gs) = 1..(Len(gs) - 1) /\ Len(Tail(gs)) = Len(gs) - 1
        /\ \A i \in 1..(Len(gs) - 1) : Tail(gs)[i] = gs[i + 1]
    BY <1>1
  <1>3. /\ done \in Nat /\ \A i \in DOMAIN gs : gs[i] = cs[done + i]
        /\ \A t \in pending[r] : \E i \in 1..done : TeamOf(r, i) = t
    BY DEF Mapping
  <1>4. Len(claimed'[r]) - Len(groups'[r]) = done + 1
    <2>1. claimed'[r] = cs /\ Len(groups'[r]) = Len(gs) - 1
      BY <1>1, <1>2
    <2>2. Len(cs) - (Len(gs) - 1) = done + 1
      BY <1>2, <1>3, Counting
    <2>3. QED
      BY <2>1, <2>2, Zenon
  <1>5. ASSUME NEW i \in DOMAIN Tail(gs)
       PROVE  Tail(gs)[i] = cs[(done + 1) + i]
    <2>1. i + 1 \in DOMAIN gs /\ Tail(gs)[i] = gs[i + 1]
      BY <1>2
    <2>2. gs[i + 1] = cs[done + (i + 1)]
      BY <1>3, <2>1
    <2>3. i \in Nat
      BY <1>2
    <2>a. done \in Nat
      BY <1>3
    <2> HIDE DEF done
    <2>4. done + (i + 1) = (done + 1) + i
      BY <2>3, <2>a
    <2>5. QED
      BY <2>1, <2>2, <2>4, Zenon
  <1>6. TeamOf(r, done + 1) = NextTeam(r)
    <2>1. 1 \in DOMAIN gs
      BY <1>2
    <2>2. gs[1] = cs[done + 1]
      BY <1>3, <2>1
    <2>3. QED
      BY <1>2, <2>2, Zenon DEF TeamOf, NextTeam
  <1> HIDE DEF done
  <1>7. \A t \in pending'[r] : \E i \in 1..(done + 1) : TeamOf(r, i) = t
    <2>1. done + 1 \in 1..(done + 1) /\ \A i \in 1..done : i \in 1..(done + 1)
      BY <1>3
    <2>2. QED
      BY <1>3, <1>6, <2>1
  <1>8. done + 1 \in Nat
    BY <1>3
  <1>9. groups'[r] = Tail(gs) /\ claimed'[r] = cs
    BY <1>1
  <1>10. \A t \in pending'[r] : \E i \in 1..(done + 1) : cfg'[r].teams[claimed'[r][i]] = t
    BY <1>7 DEF TeamOf
  <1> HIDE DEF gs, cs
  <1>11. \A i \in DOMAIN groups'[r] : groups'[r][i] = claimed'[r][(done + 1) + i]
    BY <1>5, <1>9
  <1>12. PICK n \in Nat : n = done + 1
    BY <1>8
  <1>13. /\ Len(claimed'[r]) - Len(groups'[r]) = n
         /\ \A i \in DOMAIN groups'[r] : groups'[r][i] = claimed'[r][n + i]
         /\ \A t \in pending'[r] : \E i \in 1..n : cfg'[r].teams[claimed'[r][i]] = t
    BY <1>4, <1>10, <1>11, <1>12
  <1>14. QED
    BY <1>12, <1>13 DEF Mapping, TeamOf

LEMMA SkipMaps ==
  ASSUME TInv, GroupsInv, HistoryKept, RowsKept, NEW r \in Requests, SkipGroup(r)
  PROVE  (Maps(r) /\ Mapping(r))'
  <1>1. /\ pc[r] = "groups" /\ groups[r] # <<>> /\ NextTeam(r) = None
        /\ UNCHANGED <<pc, cfg, pending, stale, claimed, teams>>
        /\ groups' = [groups EXCEPT ![r] = Tail(@)]
    BY DEF SkipGroup, db
  <1>2. \A t : ToCome(r, t) <=> t = None \/ ToCome(r, t)'
    BY <1>1, HeadAndTail
  <1>3. \A t : Wanted(r, t)' <=> Wanted(r, t)
    BY <1>1 DEF Wanted
  <1>4. None \notin teams /\ Maps(r) /\ Mapping(r)
    BY DEF TInv, DbTypes, GroupsInv
  <1>5. "user" \in stale'[r] => Displaced(r)'
    BY <1>1, <1>4, DisplacedStays DEF Maps, TInv, Stages, Past
  <1>6. Mapping(r)'
    BY <1>1, <1>4, MappingGoesOn
  <1>7. QED
    BY <1>1, <1>2, <1>3, <1>4, <1>5, <1>6 DEF Maps

LEMMA MapMaps ==
  ASSUME TInv, GroupsInv, KnownInv, HistoryKept, RowsKept, NEW r \in Requests, MapGroup(r)
  PROVE  (Maps(r) /\ Mapping(r))'
  <1> DEFINE t0 == NextTeam(r)
  <1>0. /\ pc[r] = "groups" /\ groups[r] # <<>> /\ t0 \in Teams
        /\ UNCHANGED <<pc, cfg, claimed, teams>>
        /\ groups' = [groups EXCEPT ![r] = Tail(@)]
    BY DEF MapGroup, db
  <1>1. \A t : ToCome(r, t) <=> t = t0 \/ ToCome(r, t)'
    BY <1>0, HeadAndTail
  <1>2. \A t : Wanted(r, t)' <=> Wanted(r, t)
    BY <1>0 DEF Wanted
  <1>3. /\ Maps(r) /\ Mapping(r) /\ teams \subseteq Teams /\ email[r] \in Emails
        /\ Requests = DOMAIN pending /\ Requests = DOMAIN stale
    BY <1>0 DEF TInv, DbTypes, GroupsInv, LoadedTypes, Stages, Past
  <1>4. CASE t0 \notin teams \/ <<email[r], t0>> \in teamMember \/ t0 \in pending[r]
    <2>1. /\ pending' = [pending EXCEPT ![r] = {}]
          /\ stale' = [stale EXCEPT ![r] = @ \cup {"user"}]
      BY <1>4 DEF MapGroup
    <2>2. pending'[r] = {} /\ "user" \in stale'[r]
      BY <1>3, <2>1
    <2>3. Displaced(r)'
      BY <1>0, <1>3, <1>4, Displaces, DisplacedStays
    <2>4. Mapping(r)'
      BY <1>0, <1>3, <2>2, MappingGoesOn
    <2>5. QED
      BY <1>0, <1>1, <1>2, <1>3, <2>2, <2>3, <2>4 DEF Maps
  <1>5. CASE ~(t0 \notin teams \/ <<email[r], t0>> \in teamMember \/ t0 \in pending[r])
    <2>1. pending'[r] = pending[r] \cup {t0} /\ stale'[r] = stale[r]
      BY <1>3, <1>5 DEF MapGroup
    <2>2. Wanted(r, t0)
      BY <1>0, <1>1, <1>3, <1>5 DEF Maps
    <2>3. "user" \in stale'[r] => Displaced(r)'
      BY <1>0, <1>3, <2>1, DisplacedStays DEF Maps
    <2>4. Mapping(r)'
      BY <1>0, <1>3, <2>1, MappingGoesOn
    <2>5. QED
      BY <1>0, <1>1, <1>2, <1>3, <2>1, <2>2, <2>3, <2>4 DEF Maps
  <1>6. QED
    BY <1>4, <1>5

LEMMA CommitMaps ==
  ASSUME TInv, GroupsInv, HistoryKept, RowsKept, NEW r \in Requests, CommitGroups(r)
  PROVE  (Maps(r) /\ Mapping(r))'
  <1>1. /\ pc[r] = "groups" /\ groups[r] = <<>> /\ UNCHANGED <<cfg, email, claimed, teams, stale>>
        /\ teamMember' = teamMember \cup ({email[r]} \X pending[r])
    BY DEF CommitGroups
  <1>2. pc'[r] = "tokens"
    BY DEF CommitGroups, Go, TInv, ControlTypes
  <1>3. \A t : ~ToCome(r, t) /\ (Wanted(r, t)' <=> Wanted(r, t))
    BY <1>1 DEF ToCome, Wanted
  <1>4. \A t \in pending[r] : <<email[r], t>> \in teamMember'
    BY <1>1
  <1>5. Maps(r)
    BY DEF GroupsInv
  <1>6. "user" \in stale'[r] => Displaced(r)'
    BY <1>1, <1>5, DisplacedStays DEF Maps, TInv, Stages, Past
  <1>7. QED
    BY <1>1, <1>2, <1>3, <1>4, <1>5, <1>6 DEF Maps, Mapping

LEMMA MapsActs ==
  ASSUME TInv, GroupsInv, KnownInv, HistoryKept, RowsKept, NEW r \in Requests, Acts(r)
  PROVE  (Maps(r) /\ Mapping(r))'
  <1>0. Requests = DOMAIN pc /\ Requests = DOMAIN stale
    BY DEF TInv, ControlTypes, LoadedTypes, Lists
  <1> USE DEF Begin, Go, Answer, local, db
  <1>1. ASSUME NEW o \in Orgs, Authorize(r, o)
       PROVE  (Maps(r) /\ Mapping(r))'
    <2>1. pc'[r] \notin {"reselect", "groups", "tokens"}
      BY <1>0, <1>1 DEF Authorize
    <2>2. QED
      BY <2>1 DEF Maps, Mapping
  <1>2. ASSUME NEW o \in Orgs, AuthorizeUnknown(r, o)
       PROVE  (Maps(r) /\ Mapping(r))'
    <2>1. pc'[r] \notin {"reselect", "groups", "tokens"}
      BY <1>0, <1>2 DEF AuthorizeUnknown
    <2>2. QED
      BY <2>1 DEF Maps, Mapping
  <1>3. CASE Discover(r)
    <2>1. pc'[r] \notin {"reselect", "groups", "tokens"}
      BY <1>0, <1>3 DEF Discover
    <2>2. QED
      BY <2>1 DEF Maps, Mapping
  <1>4. CASE Callback(r)
    <2>1. pc'[r] \notin {"reselect", "groups", "tokens"}
      BY <1>0, <1>4 DEF Callback
    <2>2. QED
      BY <2>1 DEF Maps, Mapping
  <1>5. CASE CallbackUnknown(r)
    <2>1. pc'[r] \notin {"reselect", "groups", "tokens"}
      BY <1>0, <1>5 DEF CallbackUnknown
    <2>2. QED
      BY <2>1 DEF Maps, Mapping
  <1>6. CASE ReadConfig(r)
    <2>1. pc' = [pc EXCEPT ![r] = "done"] \/ pc' = [pc EXCEPT ![r] = "exchange"]
      BY <1>6 DEF ReadConfig
    <2>2. QED
      BY <1>0, <2>1 DEF Maps, Mapping
  <1>7. CASE ExchangeCode(r)
    <2>1. pc' = [pc EXCEPT ![r] = "done"] \/ pc' = [pc EXCEPT ![r] = "select"]
      BY <1>7 DEF ExchangeCode
    <2>2. QED
      BY <1>0, <2>1 DEF Maps, Mapping
  <1>8. CASE SelectUser(r)
    <2>1. pc'[r] \notin {"reselect", "groups", "tokens"}
      BY <1>0, <1>8 DEF SelectUser
    <2>2. QED
      BY <2>1 DEF Maps, Mapping
  <1>9. CASE FlushUser(r)
    <2>1. pc' = [pc EXCEPT ![r] = "done"] \/ pc' = [pc EXCEPT ![r] = "member"]
      BY <1>9 DEF FlushUser
    <2>2. QED
      BY <1>0, <2>1 DEF Maps, Mapping
  <1>10. CASE FlushMember(r)
    <2>1. pc'[r] = "commit" \/ (pc'[r] = "reselect" /\ stale'[r] = {"config"})
      BY <1>0, <1>10 DEF FlushMember
    <2>2. QED
      BY <2>1 DEF Maps, Mapping
  <1>11. CASE Reselect(r)
    BY <1>11, Turns DEF Reselect
  <1>12. CASE CommitUser(r)
    BY <1>12, Turns DEF CommitUser
  <1>13. CASE SkipGroup(r)
    BY <1>13, SkipMaps
  <1>14. CASE MapGroup(r)
    BY <1>14, MapMaps
  <1>15. CASE CommitGroups(r)
    BY <1>15, CommitMaps
  <1>16. CASE Deadlocked(r)
    <2>1. pc'[r] \notin {"reselect", "groups", "tokens"}
      BY <1>0, <1>16 DEF Deadlocked
    <2>2. QED
      BY <2>1 DEF Maps, Mapping
  <1>17. CASE IssueTokens(r)
    <2>1. pc'[r] \notin {"reselect", "groups", "tokens"}
      BY <1>0, <1>17 DEF IssueTokens
    <2>2. QED
      BY <2>1 DEF Maps, Mapping
  <1>18. CASE MapMalformed(r)
    <2>1. pc'[r] \notin {"reselect", "groups", "tokens"}
      BY <1>0, <1>18 DEF MapMalformed
    <2>2. QED
      BY <2>1 DEF Maps, Mapping
  <1>19. QED
    BY <1>1, <1>2, <1>3, <1>4, <1>5, <1>6, <1>7, <1>8, <1>9, <1>10, <1>11, <1>12, <1>13, <1>14,
       <1>15, <1>16, <1>17, <1>18 DEF Acts, Login

LEMMA PendingActs ==
  ASSUME TInv, NEW r \in Requests, Acts(r)
  PROVE  \/ pending'[r] = {}
         \/ pending'[r] = pending[r] /\ email'[r] = email[r]
         \/ /\ pending'[r] = pending[r] \cup {NextTeam(r)} /\ email'[r] = email[r]
            /\ pc[r] = "groups" /\ groups[r] # <<>> /\ Rivals(r) = {}
  <1>0. Requests = DOMAIN pending
    BY DEF TInv, LoadedTypes
  <1>1. CASE ExchangeCode(r)
    BY <1>1 DEF ExchangeCode, TInv, LoadedTypes
  <1>2. CASE MapGroup(r)
    BY <1>0, <1>2 DEF MapGroup
  <1>3. CASE CommitGroups(r) \/ MapMalformed(r) \/ Deadlocked(r)
    BY <1>0, <1>3 DEF CommitGroups, MapMalformed, Deadlocked
  <1>4. CASE UNCHANGED <<pending, email>>
    BY <1>4
  <1>5. QED
    BY <1>1, <1>2, <1>3, <1>4 DEF Acts, Login, local, Authorize, AuthorizeUnknown, Discover, Callback,
       CallbackUnknown, ReadConfig, SelectUser, FlushUser, FlushMember, Reselect, CommitUser,
       SkipGroup, IssueTokens

LEMMA GroupsStep ==
  ASSUME TInv, GroupsInv, KnownInv, [Next]_vars
  PROVE  GroupsInv'
  <1>1. RowsKept /\ HistoryKept
    BY KeepRows, KeepHistory
  <1>2. ASSUME NEW q \in Requests, Untouched(q)
       PROVE  (Maps(q) /\ Mapping(q))'
    <2>1. \A t : (Wanted(q, t)' <=> Wanted(q, t)) /\ (ToCome(q, t)' <=> ToCome(q, t))
      BY <1>2 DEF Untouched, Wanted, ToCome
    <2>2. Maps(q) /\ Mapping(q)
      BY DEF GroupsInv
    <2>3. \A t \in teams' : t \in teams /\ (<<email[q], t>> \in teamMember => <<email[q], t>> \in teamMember')
      BY <1>1 DEF RowsKept
    <2>4. pc[q] \in {"groups", "tokens"} /\ "user" \in stale[q] => Displaced(q)'
      BY <1>1, <1>2, <2>2, DisplacedStays DEF Maps, Untouched, TInv, Stages, Past
    <2>5. Mapping(q)'
      BY <1>2, <2>2 DEF Untouched, Mapping, TeamOf
    <2>6. QED
      BY <1>2, <2>1, <2>2, <2>3, <2>4, <2>5 DEF Untouched, Maps
  <1>3. ASSUME NEW q \in Requests, Untouched(q), NEW r \in Requests, Acts(r),
              q # r, email'[q] = email'[r]
       PROVE  pending'[q] \cap pending'[r] = {}
    <2>1. pending'[q] = pending[q] /\ email'[q] = email[q]
      BY <1>3 DEF Untouched
    <2>2. CASE pending'[r] = {}
      BY <2>2
    <2>3. CASE email'[r] = email[r]
      <3>1. pending[q] \cap pending[r] = {}
        BY <1>3, <2>1, <2>3 DEF GroupsInv, Apart
      <3>2. Rivals(r) = {} /\ pc[r] = "groups" /\ groups[r] # <<>> => NextTeam(r) \notin pending[q]
        BY <1>3, <2>1, <2>3 DEF Rivals
      <3>3. QED
        BY <1>3, <2>1, <2>2, <3>1, <3>2, PendingActs
    <2>4. QED
      BY <1>3, <2>2, <2>3, PendingActs
  <1>4. CASE Restart
    <2>1. \A q \in Requests : pc'[q] \in {"idle", "done"} /\ pending'[q] = {}
      BY <1>4 DEF Restart
    <2>2. QED
      BY <2>1 DEF GroupsInv, Apart, Maps, Mapping
  <1>5. CASE \A q \in Requests : Untouched(q)
    <2>1. Apart'
      BY <1>5 DEF GroupsInv, Apart, Untouched
    <2>2. QED
      BY <1>2, <1>5, <2>1 DEF GroupsInv
  <1>6. ASSUME NEW r \in Requests, Acts(r), \A q \in Requests \ {r} : Untouched(q)
       PROVE  GroupsInv'
    <2>1. \A q \in Requests : (Maps(q) /\ Mapping(q))'
      BY <1>1, <1>2, <1>6, MapsActs
    <2>2. Apart'
      <3>1. ASSUME NEW p \in Requests, NEW q \in Requests, p # q, email'[p] = email'[q]
           PROVE  pending'[p] \cap pending'[q] = {}
        <4>1. CASE p = r
          BY <1>3, <1>6, <3>1, <4>1
        <4>2. CASE q = r
          <5>1. pending'[q] \cap pending'[p] = {}
            BY <1>3, <1>6, <3>1, <4>2
          <5>2. QED
            BY <5>1
        <4>3. CASE p # r /\ q # r
          BY <1>6, <3>1, <4>3 DEF Untouched, GroupsInv, Apart
        <4>4. QED
          BY <4>1, <4>2, <4>3
      <3>2. QED
        BY <3>1 DEF Apart
    <2>3. QED
      BY <2>1, <2>2 DEF GroupsInv
  <1>7. QED
    BY <1>4, <1>5, <1>6, Frame

LEMMA GroupsInit == Init => GroupsInv
  BY DEF Init, GroupsInv, Apart, Maps, Mapping

(***************************************************************************)
(* The outcomes.                                                           *)
(***************************************************************************)
\* An outcome is final: nothing it rests on is taken away.
LEMMA OutcomeStays ==
  ASSUME TInv, HistoryKept, OutcomeKept, RowsKept, NEW r \in Requests, pc[r] = "done", Outcome(r)
  PROVE  Outcome(r)'
  <1>1. /\ pc'[r] = "done" /\ cfg'[r] = cfg[r] /\ found'[r] = found[r]
        /\ answer'[r] = answer[r] /\ failed'[r] = failed[r]
        /\ email'[r] = email[r] /\ claimed'[r] = claimed[r]
    BY DEF OutcomeKept
  <1>2. kind'[r] = kind[r] /\ org'[r] = org[r]
    BY DEF HistoryKept
  <1>3. /\ Mapped(r)' = Mapped(r) /\ \A t : Wanted(r, t)' <=> Wanted(r, t)
        /\ \A i : TeamOf(r, i)' = TeamOf(r, i)
    BY <1>1 DEF Mapped, TeamOf, Wanted
  <1>4. Reasons(r)'
    <2>1. CASE failed[r] \notin {"flush", "reselect", "groups", "tokens"}
      BY <1>1, <2>1 DEF Outcome, Reasons
    <2>2. CASE failed[r] \in {"flush", "reselect", "groups", "tokens"}
      <3>1. Reasons(r) /\ email[r] \in Emails /\ email'[r] = email[r]
        BY <1>1, <2>2 DEF Outcome, Reasons
      <3>2. Overlaps(r) \subseteq Overlaps(r)' /\ given[r] \subseteq given'[r]
        BY <3>1, OverlapsGrow DEF HistoryKept, TInv, Stages
      <3>3. CASE failed[r] = "flush"
        <4>1. found'[r] = "absent" /\ (Overlaps(r)' # {} \/ Account \in given'[r])
          BY <1>1, <3>1, <3>2, <3>3 DEF Reasons
        <4>2. QED
          BY <1>1, <3>1, <3>3, <4>1 DEF Reasons
      <3>4. CASE failed[r] = "reselect"
        <4>1. claimed'[r] # <<>> /\ (Overlaps(r)' # {} \/ org'[r] \in given'[r])
          BY <1>1, <1>2, <3>1, <3>2, <3>4 DEF Reasons
        <4>2. QED
          BY <1>1, <3>1, <3>4, <4>1 DEF Reasons
      <3>5. CASE failed[r] = "groups"
        <4>1. CASE Overlaps(r) # {} /\ Cardinality(Mapped(r)) > 1
          <5>1. (Overlaps(r) # {} /\ Cardinality(Mapped(r)) > 1)'
            BY <1>3, <3>2, <4>1
          <5>2. QED
            BY <1>1, <3>1, <3>5, <5>1 DEF Reasons
        <4>2. CASE \E i \in DOMAIN claimed[r] : TeamOf(r, i) = Malformed
          <5>1. \E i \in DOMAIN claimed'[r] : TeamOf(r, i)' = Malformed
            BY <1>1, <4>2 DEF TeamOf
          <5>2. QED
            BY <1>1, <3>1, <3>5, <5>1 DEF Reasons
        <4>3. QED
          BY <3>1, <3>5, <4>1, <4>2 DEF Reasons
      <3>6. CASE failed[r] = "tokens"
        <4>1. Displaced(r)'
          BY <1>1, <3>1, <3>6, DisplacedStays DEF Reasons
        <4>2. QED
          BY <1>1, <3>1, <3>6, <4>1 DEF Reasons
      <3>7. QED
        BY <2>2, <3>3, <3>4, <3>5, <3>6
    <2>3. QED
      BY <2>1, <2>2
  <1>5. Provisioned(r) => Provisioned(r)'
    BY <1>1, <1>2, <1>3 DEF Provisioned, RowsKept, Allowed
  <1>6. QED
    BY <1>1, <1>2, <1>4, <1>5 DEF Outcome

\* Who waits and is waited for overlaps with another, and wants two teams.
LEMMA InCircle ==
  ASSUME TInv, GroupsInv, NEW r \in Requests, NEW q \in Rivals(r), NEW p \in Requests, r \in Rivals(p)
  PROVE  q \in Overlaps(r) /\ Cardinality(Mapped(r)) > 1 /\ email[r] \in Emails
  <1>1. /\ pc[r] = "groups" /\ groups[r] # <<>>
        /\ q \in Requests \ {r} /\ email[q] = email[r]
        /\ NextTeam(r) \in pending[q] /\ NextTeam(p) \in pending[r]
    BY DEF Rivals
  <1>a. pc[q] = "groups"
    BY <1>1 DEF TInv, LoadedTypes
  <1>2. email[r] \in Emails /\ q \notin before[r] /\ r \notin before[q]
    BY <1>1, <1>a DEF TInv, Stages, Past
  <1>3. q \in Overlaps(r)
    BY <1>1, <1>2 DEF Overlaps
  <1>4. claimed[r] \in Seq(Groups) /\ groups[r] \in Seq(Groups)
    BY DEF TInv, Lists
  <1>5. NextTeam(r) \in Teams /\ NextTeam(p) \in Teams
    BY <1>1 DEF TInv, LoadedTypes, DbTypes
  <1>6. ToCome(r, NextTeam(r))
    <2>1. 1 \in DOMAIN groups[r] /\ Head(groups[r]) = groups[r][1]
      BY <1>1, <1>4
    <2>2. QED
      BY <2>1 DEF NextTeam, ToCome
  <1>7. Wanted(r, NextTeam(r)) /\ Wanted(r, NextTeam(p))
    BY <1>1, <1>5, <1>6 DEF GroupsInv, Maps
  <1>8. NextTeam(r) # NextTeam(p)
    BY <1>1 DEF GroupsInv, Apart
  <1>9. {NextTeam(r), NextTeam(p)} \subseteq Mapped(r)
    BY <1>5, <1>7 DEF Mapped, TeamOf, Wanted
  <1>10. IsFiniteSet(Mapped(r))
    <2> DEFINE f == [i \in DOMAIN claimed[r] |-> cfg[r].teams[claimed[r][i]]]
    <2>1. DOMAIN claimed[r] = 1..Len(claimed[r]) /\ Len(claimed[r]) \in Nat
      BY <1>4
    <2>2. IsFiniteSet(DOMAIN claimed[r])
      BY <2>1, FS_Interval
    <2> DEFINE T == {f[i] : i \in DOMAIN claimed[r]}
    <2>3. f \in Surjection(DOMAIN claimed[r], T)
      BY DEF Surjection
    <2>4. IsFiniteSet(T)
      BY <2>2, <2>3, FS_Surjection
    <2>5. Mapped(r) \subseteq T
      BY DEF Mapped, TeamOf
    <2>6. QED
      BY <2>4, <2>5, FS_Subset
  <1>11. Cardinality({NextTeam(r), NextTeam(p)}) = 2
    <2>1. IsFiniteSet({NextTeam(r)}) /\ Cardinality({NextTeam(r)}) = 1
      BY FS_Singleton
    <2>2. Cardinality({NextTeam(r)} \cup {NextTeam(p)}) = 2
      <3>1. NextTeam(p) \notin {NextTeam(r)}
        BY <1>8
      <3>2. Cardinality({NextTeam(r)} \cup {NextTeam(p)}) = Cardinality({NextTeam(r)}) + 1
        BY <2>1, <3>1, FS_AddElement
      <3>3. QED
        BY <2>1, <3>2
    <2>3. {NextTeam(r)} \cup {NextTeam(p)} = {NextTeam(r), NextTeam(p)}
      OBVIOUS
    <2>4. QED
      BY <2>2, <2>3
  <1>12. Cardinality(Mapped(r)) \in Nat /\ 2 <= Cardinality(Mapped(r))
    BY <1>9, <1>10, <1>11, FS_Subset, FS_CardinalityType
  <1>13. QED
    BY <1>2, <1>3, <1>12

LEMMA OutcomeActs ==
  ASSUME TInv, RowsInv, KnownInv, GroupsInv, HistoryKept, RowsKept,
         NEW r \in Requests, pc[r] # "done", Acts(r)
  PROVE  Outcome(r)'
  <1>0. /\ Requests = DOMAIN pc /\ Requests = DOMAIN answer /\ Requests = DOMAIN failed
        /\ Requests = DOMAIN found /\ Requests = DOMAIN kind /\ Requests = DOMAIN email
    BY DEF TInv, ControlTypes, LoadedTypes, Lists
  <1>a. /\ answer[r] = 0 /\ failed[r] = "none" /\ (pc[r] = "discover" => kind[r] = "authorize")
        /\ (pc[r] \in Past => email[r] \in Emails /\ Allowed(cfg[r], email[r]) /\ kind[r] = "callback")
    BY DEF TInv, Stages
  <1>q. ASSUME failed'[r] \in {"none", "discover", "config", "exchange"},
              answer'[r] # 307 \/ kind'[r] = "authorize"
       PROVE  Outcome(r)'
    BY <1>q DEF Outcome, Reasons
  <1>g. ASSUME NEW step, Go(r, step) /\ UNCHANGED <<answer, failed>>
       PROVE  Outcome(r)'
    <2>1. failed'[r] = "none" /\ answer'[r] = 0 /\ pc'[r] = step
      BY <1>0, <1>a, <1>g DEF Go
    <2>2. QED
      BY <1>g, <1>q, <2>1
  <1>n. ASSUME NEW status, status \notin {307, 500}, Answer(r, status)
       PROVE  Outcome(r)'
    BY <1>0, <1>n, <1>q DEF Answer, Go
  <1>1. ASSUME NEW o \in Orgs, Authorize(r, o)
       PROVE  Outcome(r)'
    BY <1>1, <1>g DEF Authorize
  <1>2. ASSUME NEW o \in Orgs, AuthorizeUnknown(r, o)
       PROVE  Outcome(r)'
    BY <1>2, <1>n DEF AuthorizeUnknown
  <1>3. CASE Discover(r)
    <2>1. failed'[r] \in {"none", "discover"} /\ pc'[r] = "done" /\ kind'[r] = "authorize"
      <3>1. PICK status : Answer(r, status)
        BY <1>3 DEF Discover
      <3>2. pc[r] = "discover" /\ UNCHANGED kind
        BY <1>3 DEF Discover, local
      <3>3. pc'[r] = "done" /\ failed'[r] = (IF status = 500 THEN pc[r] ELSE "none")
        BY <1>0, <3>1 DEF Answer, Go
      <3>4. QED
        BY <1>a, <3>2, <3>3
    <2>2. QED
      BY <2>1, <1>q
  <1>4. CASE Callback(r)
    BY <1>4, <1>g DEF Callback
  <1>5. CASE CallbackUnknown(r)
    BY <1>5, <1>n DEF CallbackUnknown
  <1>6. CASE ReadConfig(r)
    BY <1>6, <1>g, <1>n DEF ReadConfig
  <1>7. CASE ExchangeCode(r)
    <2>1. CASE Go(r, "select") /\ UNCHANGED <<answer, failed>>
      BY <2>1, <1>g
    <2>2. CASE \E status \in {400, 403, 500} : Answer(r, status)
      <3>1. failed'[r] \in {"none", "exchange"} /\ pc'[r] = "done" /\ answer'[r] # 307
        <4>1. PICK status \in {400, 403, 500} : Answer(r, status)
          BY <2>2
        <4>2. /\ pc'[r] = "done" /\ answer'[r] = status
              /\ failed'[r] = (IF status = 500 THEN pc[r] ELSE "none")
          BY <1>0, <4>1 DEF Answer, Go
        <4>3. QED
          BY <1>7, <4>2 DEF ExchangeCode
      <3>2. QED
        BY <3>1, <1>q
    <2>3. QED
      BY <1>7, <2>1, <2>2 DEF ExchangeCode
  <1>8. CASE SelectUser(r)
    BY <1>8, <1>g DEF SelectUser
  <1>9. CASE FlushUser(r)
    <2>1. CASE found[r] = "absent" /\ users[email[r]] # "absent"
      <3>1. /\ pc[r] = "flush" /\ Answer(r, 500)
            /\ UNCHANGED <<email, before, found, given>>
        BY <1>9, <2>1 DEF FlushUser, local
      <3>2. pc'[r] = "done" /\ failed'[r] = "flush" /\ answer'[r] = 500
        BY <1>0, <3>1 DEF Answer, Go
      <3>3. (Overlaps(r) # {} \/ Account \in given[r]) /\ Overlaps(r)' = Overlaps(r)
        BY <2>1, <3>1 DEF KnownInv, Known, Has, Overlaps
      <3>4. email'[r] \in Emails /\ found'[r] = "absent" /\ given'[r] = given[r]
        BY <1>a, <2>1, <3>1 DEF Past, Provisioning
      <3>5. QED
        BY <3>2, <3>3, <3>4 DEF Outcome, Reasons
    <2>2. CASE ~(found[r] = "absent" /\ users[email[r]] # "absent")
      BY <1>9, <2>2, <1>g DEF FlushUser
    <2>3. QED
      BY <2>1, <2>2
  <1>10. CASE FlushMember(r)
    <2>1. UNCHANGED <<answer, failed>>
      BY <1>10 DEF FlushMember
    <2>2. QED
      BY <1>a, <1>q, <2>1
  <1>11. CASE Reselect(r)
    <2>1. CASE groups[r] # <<>> /\ "config" \in stale[r]
      <3>1. /\ pc[r] = "reselect" /\ Answer(r, 500)
            /\ UNCHANGED <<email, org, before, claimed, given>>
        BY <1>11, <2>1 DEF Reselect, AfterProvision, local
      <3>2. pc'[r] = "done" /\ failed'[r] = "reselect" /\ answer'[r] = 500
        BY <1>0, <3>1 DEF Answer, Go
      <3>3. email[r] \in Emails /\ org[r] \in Orgs /\ claimed[r] # <<>>
        BY <1>a, <2>1, <3>1 DEF TInv, Stages, Past, Provisioning
      <3>4. org[r] \in Has(email[r])
        BY <3>1, <3>3 DEF RowsInv, Relies, Has
      <3>5. (Overlaps(r) # {} \/ org[r] \in given[r]) /\ Overlaps(r)' = Overlaps(r)
        BY <3>1, <3>4 DEF KnownInv, Known, Overlaps
      <3>6. QED
        BY <3>1, <3>2, <3>3, <3>5 DEF Outcome, Reasons
    <2>2. CASE ~(groups[r] # <<>> /\ "config" \in stale[r])
      BY <1>11, <2>2, <1>g DEF Reselect, AfterProvision
    <2>3. QED
      BY <2>1, <2>2
  <1>12. CASE CommitUser(r)
    <2>1. stale[r] = {}
      BY <1>12 DEF CommitUser, TInv, Stages
    <2>2. QED
      BY <1>12, <2>1, <1>g DEF CommitUser, AfterProvision
  <1>13. CASE SkipGroup(r)
    <2>1. UNCHANGED <<answer, failed>>
      BY <1>13 DEF SkipGroup
    <2>2. QED
      BY <1>a, <1>q, <2>1
  <1>14. CASE MapGroup(r)
    <2>1. UNCHANGED <<answer, failed>>
      BY <1>14 DEF MapGroup
    <2>2. QED
      BY <1>a, <1>q, <2>1
  <1>15. CASE CommitGroups(r)
    BY <1>15, <1>g DEF CommitGroups
  <1>16. CASE Deadlocked(r)
    <2>1. PICK q \in Rivals(r), p \in Requests : r \in Rivals(p)
      BY <1>16 DEF Deadlocked
    <2>2. q \in Overlaps(r) /\ Cardinality(Mapped(r)) > 1 /\ email[r] \in Emails
      BY <2>1, InCircle
    <2>3. Answer(r, 500) /\ UNCHANGED <<email, before, claimed, cfg>> /\ pc[r] = "groups"
      BY <1>16, <2>1 DEF Deadlocked, Rivals
    <2>4. pc'[r] = "done" /\ failed'[r] = "groups" /\ answer'[r] = 500
      BY <1>0, <2>3 DEF Answer, Go
    <2>5. Overlaps(r)' = Overlaps(r) /\ Mapped(r)' = Mapped(r) /\ email'[r] = email[r]
      BY <2>3 DEF Overlaps, Mapped, TeamOf
    <2>6. QED
      BY <2>2, <2>4, <2>5 DEF Outcome, Reasons
  <1>17. CASE IssueTokens(r)
    <2>0. pc[r] = "tokens" /\ UNCHANGED <<db, local>>
      BY <1>17 DEF IssueTokens
    <2>1. email[r] \in Emails
      BY <1>a, <2>0 DEF Past
    <2>2. CASE "user" \in stale[r]
      <3>1. pc'[r] = "done" /\ failed'[r] = "tokens" /\ answer'[r] = 500
        BY <1>0, <1>17, <2>2 DEF IssueTokens, Answer, Go
      <3>2. Displaced(r)'
        BY <2>0, <2>1, <2>2, DisplacedStays DEF GroupsInv, Maps, local
      <3>3. QED
        BY <2>0, <2>1, <3>1, <3>2 DEF Outcome, Reasons, local
    <2>3. CASE "user" \notin stale[r]
      <3>1. pc'[r] = "done" /\ failed'[r] = "none"
        <4>1. Answer(r, 307)
          BY <1>17, <2>3 DEF IssueTokens
        <4>2. /\ pc' = [pc EXCEPT ![r] = "done"]
              /\ failed' = [failed EXCEPT ![r] = "none"]
          <5>1. 307 # 500
            OBVIOUS
          <5>2. QED
            BY <4>1, <5>1, Zenon DEF Answer, Go
        <4>3. QED
          BY <1>0, <4>2
      <3>2. Provisioned(r)
        BY <1>a, <2>0, <2>3 DEF Provisioned, Past, GroupsInv, Maps, RowsInv, Relies
      <3>3. Provisioned(r)'
        BY <2>0, <3>2 DEF Provisioned, Wanted, Allowed, local, db
      <3>4. QED
        BY <3>1, <3>3 DEF Outcome, Reasons
    <2>4. QED
      BY <2>2, <2>3
  <1>18. CASE MapMalformed(r)
    <2>1. /\ pc[r] = "groups" /\ groups[r] # <<>> /\ NextTeam(r) = Malformed /\ Answer(r, 500)
          /\ UNCHANGED <<email, claimed, cfg>>
      BY <1>18 DEF MapMalformed
    <2>2. groups[r] \in Seq(Groups)
      BY DEF TInv, Lists
    <2>3. 1 \in DOMAIN groups[r] /\ Head(groups[r]) = groups[r][1]
      BY <2>1, <2>2
    <2>4. ToCome(r, Malformed)
      BY <2>1, <2>3 DEF NextTeam, ToCome
    <2>5. Wanted(r, Malformed)
      BY <2>1, <2>4 DEF GroupsInv, Maps
    <2>6. \E i \in DOMAIN claimed'[r] : cfg'[r].teams[claimed'[r][i]] = Malformed
      BY <2>1, <2>5 DEF Wanted
    <2>7. pc'[r] = "done" /\ failed'[r] = "groups" /\ answer'[r] = 500 /\ email'[r] \in Emails
      BY <1>0, <1>a, <2>1 DEF Answer, Go, Past
    <2>8. QED
      BY <2>6, <2>7 DEF Outcome, Reasons, TeamOf
  <1>19. QED
    BY <1>1, <1>2, <1>3, <1>4, <1>5, <1>6, <1>7, <1>8, <1>9, <1>10, <1>11, <1>12, <1>13, <1>14,
       <1>15, <1>16, <1>17, <1>18 DEF Acts, Login

LEMMA OutcomeStep ==
  ASSUME IInv, [Next]_vars
  PROVE  OutcomeInv'
  <1> USE DEF IInv, OutcomeInv
  <1>1. HistoryKept /\ OutcomeKept /\ RowsKept
    BY KeepHistory, KeepOutcome, KeepRows
  <1>2. ASSUME NEW q \in Requests, pc[q] = "done"
       PROVE  Outcome(q)'
    BY <1>1, <1>2, OutcomeStays
  <1>3. ASSUME NEW q \in Requests, pc[q] # "done", Untouched(q)
       PROVE  Outcome(q)'
    <2>1. answer'[q] = 0 /\ failed'[q] = "none"
      BY <1>3 DEF TInv, Stages, Untouched
    <2>2. QED
      BY <2>1 DEF Outcome, Reasons
  <1>4. ASSUME Restart, NEW q \in Requests, pc[q] # "done"
       PROVE  Outcome(q)'
    <2>1. answer'[q] = 0 /\ failed'[q] = "none" /\ pc'[q] \in {"idle", "done"}
      BY <1>4 DEF TInv, Stages, Restart
    <2>2. QED
      BY <2>1 DEF Outcome, Reasons
  <1>5. ASSUME NEW r \in Requests, Acts(r), pc[r] # "done"
       PROVE  Outcome(r)'
    BY <1>1, <1>5, OutcomeActs
  <1>6. QED
    BY <1>2, <1>3, <1>4, <1>5, Frame

LEMMA OutcomeInit == Init => OutcomeInv
  BY DEF Init, OutcomeInv, Outcome, Reasons

LEMMA IInvHolds == Spec => []IInv
  <1>1. TInv /\ [Next]_vars => TInv'
    BY DbStep, ControlStep, LoadedStep, ListsStep, StagesStep DEF TInv
  <1>2. IInv /\ [Next]_vars => IInv'
    BY <1>1, RowsStep, KnownStep, GroupsStep, OutcomeStep DEF IInv
  <1>3. Init => IInv
    BY InitTInv, RowsInit, KnownInit, GroupsInit, OutcomeInit DEF IInv
  <1>4. QED
    BY <1>2, <1>3, PTL DEF Spec

\* Tokens are issued only to someone who is provisioned in full: allowed,
\* in the database, a member, and in every team the claims map to that
\* exists (sso_routes.py:206).
THEOREM TokensIssued == Spec => []TokensMeanProvisioned
  <1>1. IInv => TokensMeanProvisioned
    BY DEF IInv, OutcomeInv, Outcome, Provisioned, TokensMeanProvisioned, Allowed, Mapped,
       TeamOf, Wanted
  <1>2. QED
    BY <1>1, IInvHolds, PTL

\* Wherever a callback fails after the claims are in, the reason that the
\* property names for that step is there (sso_service.py:152, 191 and 205,
\* sso_routes.py:195).
THEOREM FailuresHaveReasons == Spec => []FailsForAReason
  <1>1. IInv => FailsForAReason
    BY DEF IInv, OutcomeInv, Outcome, Reasons, Displaced, FailsForAReason
  <1>2. QED
    BY <1>1, IInvHolds, PTL

\* No failure, and no restart, leaves a user that is linked and belongs to
\* no organization (sso_service.py:172).
THEOREM LinkedBelong == Spec => []LinkedUsersBelong
  <1>1. IInv => LinkedUsersBelong
    BY DEF IInv, RowsInv
  <1>2. QED
    BY <1>1, IInvHolds, PTL
=============================================================================
