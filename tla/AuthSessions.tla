---------------------------- MODULE AuthSessions ----------------------------
(***************************************************************************)
(* Password login with its lockout, refresh tokens, logout and password    *)
(* reset.                                                                  *)
(*                                                                         *)
(*   src/src/app/services/auth_service.py   the operations                 *)
(*   src/src/app/routes/auth_routes.py      the handlers that call them    *)
(*                                                                         *)
(* Each request has a session of its own at PostgreSQL's READ COMMITTED:   *)
(* a SELECT sees what is committed, an UPDATE waits for the row's lock and *)
(* holds it until the transaction ends, and then writes the columns that   *)
(* were assigned, whatever they hold by now.  A step is one statement, or  *)
(* a statement and the COMMIT that follows it.                             *)
(*                                                                         *)
(* A request runs once.  It issues one refresh or reset token at most,     *)
(* which is named after it: tokens[r] is the refresh token that request r  *)
(* issued, and its hash is taken to be known to any later request.         *)
(***************************************************************************)
EXTENDS Integers, FiniteSets

CONSTANTS
  Requests,
  Users,
  Passwords,
  MaxLoginAttempts,  \* settings.max_login_attempts
  Lockout,           \* settings.lockout_duration_minutes
  RefreshLife,       \* settings.refresh_token_expire_days
  ResetLife,         \* the hour a reset token lives
  MaxTime,           \* bound on the clock
  NoPassword,        \* password_hash is None: a user of single sign-on
  NoToken,           \* no such row
  None

ASSUME SessionAssumption ==
  /\ MaxLoginAttempts \in Nat \ {0} /\ Lockout \in Nat \ {0}
  /\ RefreshLife \in Nat \ {0} /\ ResetLife \in Nat \ {0} /\ MaxTime \in Nat
  /\ NoPassword \notin Passwords /\ None \notin Requests \cup Users

VARIABLES
  users,    \* the users table, its security columns
  tokens,   \* refresh_tokens: by the request that issued them
  resets,   \* password_reset_tokens, likewise
  pc,       \* per request: the statement it waits for
  kind,     \* what it does
  target,   \* the user or the token it does it to
  read,     \* the user's row as it was loaded
  mine,     \* and as the handler left the object
  rows,     \* the refresh tokens an UPDATE of a logout is about to revoke
  now,      \* datetime.now()
  before,   \* history: the requests that had ended when this one began
  misses    \* history: wrong passwords answered since the last right one

request == <<kind, target, before>>
vars == <<users, tokens, resets, pc, request, read, mine, rows, now, misses>>

UserRow == [password : Passwords \cup {NoPassword}, failed : Nat,
            lockout  : Nat,                             \* 0 is None
            blocked  : BOOLEAN]

RefreshToken == [user : Users, expires : Nat, revoked : BOOLEAN,
                 replacedBy : Requests \cup {None}]

ResetToken == [user : Users, expires : Nat, used : BOOLEAN]

ASSUME NoTokenAssumption == NoToken \notin RefreshToken \cup ResetToken

NoRow == [password |-> NoPassword, failed |-> 0, lockout |-> 0, blocked |-> FALSE]

Issued == {t \in Requests : tokens[t] # NoToken}

\* The row is locked by a transaction that has written it.
Locked(t) == \E q \in Requests : pc[q] \in {"rotate", "password"} /\ target[q] = t

Init ==
  /\ users \in [Users -> {[NoRow EXCEPT !.password = p] : p \in Passwords \cup {NoPassword}}]
  /\ tokens = [r \in Requests |-> NoToken]
  /\ resets = [r \in Requests |-> NoToken]
  /\ pc = [r \in Requests |-> "idle"]
  /\ kind = [r \in Requests |-> "none"]
  /\ target = [r \in Requests |-> None]
  /\ read = [r \in Requests |-> NoRow]
  /\ mine = [r \in Requests |-> NoRow]
  /\ rows = [r \in Requests |-> {}]
  /\ now = 0
  /\ before = [r \in Requests |-> {}]
  /\ misses = [u \in Users |-> 0]

\* A request of kind k begins, on x, and goes on with the statement at step.
Begin(r, k, x, step) ==
  /\ pc[r] = "idle"
  /\ pc' = [pc EXCEPT ![r] = step]
  /\ kind' = [kind EXCEPT ![r] = k]
  /\ target' = [target EXCEPT ![r] = x]
  /\ before' = [before EXCEPT ![r] = {q \in Requests : pc[q] = "done"}]

Go(r, step) == pc' = [pc EXCEPT ![r] = step] /\ UNCHANGED request
-----------------------------------------------------------------------------
(***************************************************************************)
(* Login.  An operator whose name begins with Bug is a wrong version of    *)
(* the one that follows it: the properties are tested against it and no    *)
(* specification uses it.                                                  *)
(***************************************************************************)
MayTry(u) == users[u].password # NoPassword /\ users[u].lockout <= now

BugMissedStartsOver(row) ==
  IF row.failed + 1 >= MaxLoginAttempts
    THEN [row EXCEPT !.failed = 0, !.lockout = now + Lockout]
    ELSE [row EXCEPT !.failed = @ + 1]

BugMissedLocksBackwards(row) ==
  IF row.failed + 1 >= MaxLoginAttempts
    THEN [row EXCEPT !.failed = @ + 1, !.lockout = now - Lockout]
    ELSE [row EXCEPT !.failed = @ + 1]

\* The object after a wrong password, and after a right one.
Missed(row) ==
  IF row.failed + 1 >= MaxLoginAttempts
    THEN [row EXCEPT !.failed = @ + 1, !.lockout = now + Lockout]
    ELSE [row EXCEPT !.failed = @ + 1]

Matched(row) == [row EXCEPT !.failed = 0, !.lockout = 0]

\* authenticate_user up to its commit: between the SELECT and there nothing
\* else runs.
LoginSelect(r, u, p) ==
  /\ MayTry(u)
  /\ Begin(r, "login", u, IF p = users[u].password THEN "matched" ELSE "missed")
  /\ read' = [read EXCEPT ![r] = users[u]]
  /\ mine' = [mine EXCEPT ![r] = IF p = users[u].password THEN Matched(users[u])
                                                         ELSE Missed(users[u])]
  /\ UNCHANGED <<users, tokens, resets, rows, now, misses>>

LoginRefused(r, u) ==
  /\ ~MayTry(u)
  /\ Begin(r, "login", u, "done")
  /\ UNCHANGED <<users, tokens, resets, read, mine, rows, now, misses>>

\* The UPDATE at commit: the columns that differ from what was loaded.
Written(row, old, new) ==
  [c \in DOMAIN row |-> IF new[c] # old[c] THEN new[c] ELSE row[c]]

LoginCommit(r) ==
  LET u == target[r] IN
  /\ pc[r] \in {"matched", "missed"}
  /\ users' = [users EXCEPT ![u] = Written(@, read[r], mine[r])]
  /\ misses' = [misses EXCEPT ![u] = IF pc[r] = "missed" THEN @ + 1 ELSE 0]
  /\ Go(r, IF pc[r] = "missed" \/ read[r].blocked THEN "done" ELSE "issue")
  /\ read' = [read EXCEPT ![r] = NoRow]
  /\ mine' = [mine EXCEPT ![r] = NoRow]
  /\ UNCHANGED <<tokens, resets, rows, now>>

NewToken(u) ==
  [user |-> u, expires |-> now + RefreshLife, revoked |-> FALSE, replacedBy |-> None]

\* create_tokens, a transaction of its own.
CreateTokens(r) ==
  /\ pc[r] = "issue"
  /\ tokens' = [tokens EXCEPT ![r] = NewToken(target[r])]
  /\ Go(r, "done")
  /\ UNCHANGED <<users, resets, read, mine, rows, now, misses>>
-----------------------------------------------------------------------------
(***************************************************************************)
(* Refresh.  The SELECT of the user flushes is_revoked = True, which locks *)
(* the old token's row.                                                    *)
(***************************************************************************)
BugUsableRevoked(t) == tokens[t] # NoToken /\ tokens[t].expires > now

Usable(t) == tokens[t] # NoToken /\ ~tokens[t].revoked /\ tokens[t].expires > now

RefreshSelect(r, t) ==
  /\ Usable(t)
  /\ Begin(r, "refresh", t, "revoke")
  /\ UNCHANGED <<users, tokens, resets, read, mine, rows, now, misses>>

\* No row, or none that qualifies.
RefreshRefused(r, t) ==
  /\ ~Usable(t)
  /\ Begin(r, "refresh", None, "done")
  /\ UNCHANGED <<users, tokens, resets, read, mine, rows, now, misses>>

RefreshRevoke(r) ==
  /\ pc[r] = "revoke"
  /\ ~Locked(target[r])
  /\ Go(r, "rotate")
  /\ UNCHANGED <<users, tokens, resets, read, mine, rows, now, misses>>

\* The INSERT of the new token, the link from the old one, and COMMIT.
RefreshCommit(r) ==
  LET t == target[r] IN
  /\ pc[r] = "rotate"
  /\ tokens' = [tokens EXCEPT ![t].revoked = TRUE, ![t].replacedBy = r,
                              ![r] = NewToken(tokens[t].user)]
  /\ Go(r, "done")
  /\ UNCHANGED <<users, resets, read, mine, rows, now, misses>>
-----------------------------------------------------------------------------
(***************************************************************************)
(* Logout, of one token or of all.  The UPDATE of logout-all works on the  *)
(* rows that were committed when it began; for one that is locked it       *)
(* waits, and finds it revoked.                                            *)
(***************************************************************************)
LogoutSelect(r, t) ==
  /\ t \in Issued
  /\ Begin(r, "logout", t, "logout")
  /\ rows' = [rows EXCEPT ![r] = IF tokens[t].revoked THEN {} ELSE {t}]
  /\ UNCHANGED <<users, tokens, resets, read, mine, now, misses>>

ActiveTokens(u) == {t \in Issued : tokens[t].user = u /\ ~tokens[t].revoked}

LogoutAllBegin(r, u) ==
  /\ Begin(r, "logoutAll", u, "logout")
  /\ rows' = [rows EXCEPT ![r] = ActiveTokens(u)]
  /\ UNCHANGED <<users, tokens, resets, read, mine, now, misses>>

\* Without the commit the session rolls back when it closes.
BugLogoutWithoutCommit(r) ==
  /\ pc[r] = "logout"
  /\ rows' = [rows EXCEPT ![r] = {}]
  /\ Go(r, "done")
  /\ UNCHANGED <<users, tokens, resets, read, mine, now, misses>>

LogoutCommit(r) ==
  /\ pc[r] = "logout"
  /\ \A t \in rows[r] : ~Locked(t)
  /\ tokens' = [t \in Requests |->
                 IF t \in rows[r] THEN [tokens[t] EXCEPT !.revoked = TRUE] ELSE tokens[t]]
  /\ rows' = [rows EXCEPT ![r] = {}]
  /\ Go(r, "done")
  /\ UNCHANGED <<users, resets, read, mine, now, misses>>
-----------------------------------------------------------------------------
(***************************************************************************)
(* Password reset.                                                         *)
(***************************************************************************)
ForgotPassword(r, u) ==
  /\ Begin(r, "forgot", u, "done")
  /\ resets' = [resets EXCEPT ![r] = [user |-> u, expires |-> now + ResetLife, used |-> FALSE]]
  /\ UNCHANGED <<users, tokens, read, mine, rows, now, misses>>

Redeemable(s) == resets[s] # NoToken /\ ~resets[s].used /\ resets[s].expires > now

ResetSelect(r, s) ==
  /\ Redeemable(s)
  /\ Begin(r, "reset", s, "claim")
  /\ UNCHANGED <<users, tokens, resets, read, mine, rows, now, misses>>

ResetRefused(r, s) ==
  /\ ~Redeemable(s)
  /\ Begin(r, "reset", None, "done")
  /\ UNCHANGED <<users, tokens, resets, read, mine, rows, now, misses>>

\* is_used = True, flushed by the SELECT of the user.
ResetClaim(r) ==
  /\ pc[r] = "claim"
  /\ ~Locked(target[r])
  /\ Go(r, "password")
  /\ UNCHANGED <<users, tokens, resets, read, mine, rows, now, misses>>

ResetCommit(r, p) ==
  LET s == target[r] IN
  /\ pc[r] = "password"
  /\ users' = [users EXCEPT ![resets[s].user].password = p]
  /\ resets' = [resets EXCEPT ![s].used = TRUE]
  /\ Go(r, "done")
  /\ UNCHANGED <<tokens, read, mine, rows, now, misses>>
-----------------------------------------------------------------------------
\* block_user, by an administrator.
BlockUser(u, blocked) ==
  /\ users[u].blocked # blocked
  /\ users' = [users EXCEPT ![u].blocked = blocked]
  /\ UNCHANGED <<tokens, resets, pc, request, read, mine, rows, now, misses>>

Tick ==
  /\ now < MaxTime
  /\ now' = now + 1
  /\ UNCHANGED <<users, tokens, resets, pc, request, read, mine, rows, misses>>

Login(r) ==
  \/ \E u \in Users : LoginRefused(r, u) \/ \E p \in Passwords : LoginSelect(r, u, p)
  \/ LoginCommit(r)
  \/ CreateTokens(r)

Refresh(r) ==
  \/ \E t \in Requests : RefreshSelect(r, t) \/ RefreshRefused(r, t)
  \/ RefreshRevoke(r)
  \/ RefreshCommit(r)

Logout(r) ==
  \/ \E t \in Requests : LogoutSelect(r, t)
  \/ \E u \in Users : LogoutAllBegin(r, u)
  \/ LogoutCommit(r)

Reset(r) ==
  \/ \E u \in Users : ForgotPassword(r, u)
  \/ \E s \in Requests : ResetSelect(r, s) \/ ResetRefused(r, s)
  \/ ResetClaim(r)
  \/ \E p \in Passwords : ResetCommit(r, p)

Next ==
  \/ \E r \in Requests : Login(r) \/ Refresh(r) \/ Logout(r) \/ Reset(r)
  \/ \E u \in Users, b \in BOOLEAN : BlockUser(u, b)
  \/ Tick

Spec == Init /\ [][Next]_vars
-----------------------------------------------------------------------------
(***************************************************************************)
(* Properties                                                              *)
(***************************************************************************)
TypeOK ==
  /\ users \in [Users -> UserRow]
  /\ tokens \in [Requests -> RefreshToken \cup {NoToken}]
  /\ resets \in [Requests -> ResetToken \cup {NoToken}]
  /\ pc \in [Requests -> {"idle", "matched", "missed", "issue", "revoke", "rotate",
                          "logout", "claim", "password", "done"}]
  /\ kind \in [Requests -> {"none", "login", "refresh", "logout", "logoutAll", "forgot", "reset"}]
  /\ target \in [Requests -> Requests \cup Users \cup {None}]
  /\ read \in [Requests -> UserRow]
  /\ mine \in [Requests -> UserRow]
  /\ rows \in [Requests -> SUBSET Requests]
  /\ now \in 0..MaxTime
  /\ before \in [Requests -> SUBSET Requests]
  /\ misses \in [Users -> Nat]

\* Neither request had ended when the other began.
Overlap(a, b) == a \notin before[b] /\ b \notin before[a]

\* The requests that have exchanged a token, of either sort, for something.
Spent(r) == pc[r] = "done" /\ kind[r] \in {"refresh", "reset"} /\ target[r] # None

\* A refresh token is exchanged for one pair and a reset token for one
\* password, but by requests that overlap.
SpentOnceUnlessOverlapping ==
  \A a, b \in Requests :
    (a # b /\ Spent(a) /\ Spent(b) /\ kind[a] = kind[b] /\ target[a] = target[b])
      => Overlap(a, b)

\* The tokens that a logout which has ended was about: the one it named, or
\* those of its user that had been issued when it began.
LoggedOut(r) ==
  {t \in Issued : /\ pc[r] = "done"
                  /\ \/ kind[r] = "logout" /\ t = target[r]
                     \/ kind[r] = "logoutAll" /\ t \in before[r] /\ tokens[t].user = target[r]}

\* What was logged out stays logged out, and no refresh that began later
\* carries the session on: one that survives a logout was in progress.
LogoutEndsSessions ==
  \A r \in Requests : \A t \in LoggedOut(r) :
    /\ tokens[t].revoked
    /\ \A a \in Issued : kind[a] = "refresh" /\ target[a] = t => r \notin before[a]

LoginsApart(u) ==
  \A a, b \in Requests :
    (a # b /\ kind[a] = "login" /\ kind[b] = "login" /\ target[a] = u /\ target[b] = u)
      => ~Overlap(a, b)

\* Logins that come one at a time are all counted, whatever else happens to
\* the user meanwhile, and when MaxLoginAttempts have failed the account is
\* locked, each further failure locking it again.
FailuresAreCounted ==
  \A u \in Users : LoginsApart(u) =>
    /\ users[u].failed = misses[u]
    /\ misses[u] >= MaxLoginAttempts <=> users[u].lockout # 0
=============================================================================
