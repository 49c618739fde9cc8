------------------------ MODULE AuthSessionsProofs ------------------------
(***************************************************************************)
(* For any number of requests, users and passwords: tokens are exchanged   *)
(* once unless requests overlap, a logout ends what it was about, and      *)
(* logins that come one at a time are all counted.                         *)
(***************************************************************************)
EXTENDS AuthSessions, TLAPS

USE SessionAssumption, NoTokenAssumption

Step == {"idle", "matched", "missed", "issue", "revoke", "rotate", "logout", "claim",
         "password", "done"}

Kind == {"none", "login", "refresh", "logout", "logoutAll", "forgot", "reset"}

(***************************************************************************)
(* Types, with what the stages of a request know of its target.            *)
(***************************************************************************)

\* What a request works on exists, and one that has issued a token has ended.
TargetsExist ==
  \A r \in Requests :
    /\ pc[r] \in {"matched", "missed", "issue"} => kind[r] = "login"
    /\ kind[r] = "login" => target[r] \in Users
    /\ pc[r] \in {"revoke", "rotate"} => kind[r] = "refresh" /\ target[r] \in Issued
    /\ pc[r] \in {"claim", "password"} =>
         kind[r] = "reset" /\ target[r] \in Requests /\ resets[target[r]] # NoToken
    /\ pc[r] = "logout" => kind[r] \in {"logout", "logoutAll"} /\ rows[r] \subseteq Issued
    /\ kind[r] = "logout" => target[r] \in Issued
    /\ pc[r] # "done" => tokens[r] = NoToken /\ resets[r] = NoToken

TInv == TypeOK /\ TargetsExist

\* The edits of a user's row yield rows.
LEMMA RowEdits ==
  ASSUME now \in Nat, NEW row \in UserRow
  PROVE  /\ Missed(row) \in UserRow
         /\ Matched(row) \in UserRow
         /\ \A old, new \in UserRow : Written(row, old, new) \in UserRow
         /\ \A p \in Passwords : [row EXCEPT !.password = p] \in UserRow
         /\ \A b \in BOOLEAN : [row EXCEPT !.blocked = b] \in UserRow
         /\ NoRow \in UserRow
  <1>1. Missed(row) \in UserRow
    <2>1. row.failed + 1 \in Nat /\ now + Lockout \in Nat
      BY DEF UserRow
    <2>2. [row EXCEPT !.failed = row.failed + 1] \in UserRow
      BY <2>1 DEF UserRow
    <2>3. [row EXCEPT !.failed = row.failed + 1, !.lockout = now + Lockout] \in UserRow
      BY <2>1 DEF UserRow
    <2>4. QED
      BY <2>2, <2>3 DEF Missed
  <1>2. Matched(row) \in UserRow
    BY DEF Matched, UserRow
  <1>3. \A old, new \in UserRow : Written(row, old, new) \in UserRow
    BY DEF Written, UserRow
  <1>4. \A p \in Passwords : [row EXCEPT !.password = p] \in UserRow
    BY DEF UserRow
  <1>5. \A b \in BOOLEAN : [row EXCEPT !.blocked = b] \in UserRow
    BY DEF UserRow
  <1>6. NoRow \in UserRow
    BY DEF NoRow, UserRow
  <1>7. QED
    BY <1>1, <1>2, <1>3, <1>4, <1>5, <1>6

\* And so do those of a refresh token, and of a reset token.
LEMMA TokenEdits ==
  ASSUME now \in Nat
  PROVE  /\ \A u \in Users : NewToken(u) \in RefreshToken
         /\ \A x \in RefreshToken : [x EXCEPT !.revoked = TRUE] \in RefreshToken
         /\ \A x \in RefreshToken, q \in Requests :
              [x EXCEPT !.revoked = TRUE, !.replacedBy = q] \in RefreshToken
         /\ \A x \in ResetToken : [x EXCEPT !.used = TRUE] \in ResetToken
         /\ \A x \in RefreshToken \cup ResetToken : x # NoToken
  <1>1. now + RefreshLife \in Nat
    OBVIOUS
  <1>2. \A u \in Users : NewToken(u) \in RefreshToken
    BY <1>1 DEF NewToken, RefreshToken
  <1>3. \A x \in RefreshToken : [x EXCEPT !.revoked = TRUE] \in RefreshToken
    BY DEF RefreshToken
  <1>4. \A x \in RefreshToken, q \in Requests :
          [x EXCEPT !.revoked = TRUE, !.replacedBy = q] \in RefreshToken
    BY DEF RefreshToken
  <1>5. \A x \in ResetToken : [x EXCEPT !.used = TRUE] \in ResetToken
    BY DEF ResetToken
  <1>6. QED
    BY <1>2, <1>3, <1>4, <1>5

LEMMA RevokedToken ==
  ASSUME NEW x \in RefreshToken, NEW y, y = [x EXCEPT !.revoked = TRUE]
  PROVE  y # NoToken /\ y.revoked /\ y.user = x.user
  <1>1. y \in RefreshToken /\ y.revoked /\ y.user = x.user
    BY DEF RefreshToken
  <1>2. QED
    BY <1>1

LEMMA TypeStep == TInv /\ [Next]_vars => TypeOK'
  <1> SUFFICES ASSUME TInv, [Next]_vars
               PROVE  TypeOK'
    OBVIOUS
  <1> USE DEF TInv, TypeOK, TargetsExist, Issued
  <1>0. now \in Nat
    OBVIOUS
  <1>1. ASSUME NEW r \in Requests, NEW u \in Users, NEW p \in Passwords, LoginSelect(r, u, p)
       PROVE  TypeOK'
    <2>1. read' \in [Requests -> UserRow] /\ mine' \in [Requests -> UserRow]
      BY <1>0, <1>1, RowEdits DEF LoginSelect
    <2>2. QED
      BY <1>1, <2>1 DEF LoginSelect, Begin, request
  <1>2. ASSUME NEW r \in Requests, NEW u \in Users, LoginRefused(r, u)
       PROVE  TypeOK'
    BY <1>2 DEF LoginRefused, Begin, request
  <1>3. ASSUME NEW r \in Requests, LoginCommit(r)
       PROVE  TypeOK'
    <2>1. target[r] \in Users
      BY <1>3 DEF LoginCommit
    <2>2. /\ users' \in [Users -> UserRow]
          /\ read' \in [Requests -> UserRow] /\ mine' \in [Requests -> UserRow]
      BY <1>0, <1>3, <2>1, RowEdits DEF LoginCommit
    <2>3. QED
      BY <1>3, <2>1, <2>2 DEF LoginCommit, Go, request
  <1>4. ASSUME NEW r \in Requests, CreateTokens(r)
       PROVE  TypeOK'
    BY <1>0, <1>4, TokenEdits DEF CreateTokens, Go, request
  <1>5. ASSUME NEW r \in Requests, NEW t \in Requests, RefreshSelect(r, t)
       PROVE  TypeOK'
    BY <1>5 DEF RefreshSelect, Begin, request
  <1>6. ASSUME NEW r \in Requests, NEW t \in Requests, RefreshRefused(r, t)
       PROVE  TypeOK'
    BY <1>6 DEF RefreshRefused, Begin, request
  <1>7. ASSUME NEW r \in Requests, RefreshRevoke(r)
       PROVE  TypeOK'
    BY <1>7 DEF RefreshRevoke, Go, request
  <1>8. ASSUME NEW r \in Requests, RefreshCommit(r)
       PROVE  TypeOK'
    <2>1. tokens[target[r]] \in RefreshToken
      BY <1>8 DEF RefreshCommit
    <2>2. tokens[target[r]].user \in Users
      BY <2>1 DEF RefreshToken
    <2>3. tokens' \in [Requests -> RefreshToken \cup {NoToken}]
      BY <1>0, <1>8, <2>1, <2>2, TokenEdits DEF RefreshCommit
    <2>4. QED
      BY <1>8, <2>3 DEF RefreshCommit, Go, request
  <1>9. ASSUME NEW r \in Requests, NEW t \in Requests, LogoutSelect(r, t)
       PROVE  TypeOK'
    BY <1>9 DEF LogoutSelect, Begin, request
  <1>10. ASSUME NEW r \in Requests, NEW u \in Users, LogoutAllBegin(r, u)
       PROVE  TypeOK'
    BY <1>10 DEF LogoutAllBegin, Begin, request, ActiveTokens, Issued
  <1>11. ASSUME NEW r \in Requests, LogoutCommit(r)
       PROVE  TypeOK'
    <2>1. tokens' \in [Requests -> RefreshToken \cup {NoToken}]
      BY <1>0, <1>11, TokenEdits DEF LogoutCommit
    <2>2. QED
      BY <1>11, <2>1 DEF LogoutCommit, Go, request
  <1>12. ASSUME NEW r \in Requests, NEW u \in Users, ForgotPassword(r, u)
       PROVE  TypeOK'
    BY <1>0, <1>12 DEF ForgotPassword, Begin, request, ResetToken
  <1>13. ASSUME NEW r \in Requests, NEW s \in Requests, ResetSelect(r, s)
       PROVE  TypeOK'
    BY <1>13 DEF ResetSelect, Begin, request
  <1>14. ASSUME NEW r \in Requests, NEW s \in Requests, ResetRefused(r, s)
       PROVE  TypeOK'
    BY <1>14 DEF ResetRefused, Begin, request
  <1>15. ASSUME NEW r \in Requests, ResetClaim(r)
       PROVE  TypeOK'
    BY <1>15 DEF ResetClaim, Go, request
  <1>16. ASSUME NEW r \in Requests, NEW p \in Passwords, ResetCommit(r, p)
       PROVE  TypeOK'
    <2>1. resets[target[r]] \in ResetToken
      BY <1>16 DEF ResetCommit
    <2>2. resets[target[r]].user \in Users
      BY <2>1 DEF ResetToken
    <2>3. users' \in [Users -> UserRow]
      BY <1>0, <1>16, <2>2, RowEdits DEF ResetCommit
    <2>4. resets' \in [Requests -> ResetToken \cup {NoToken}]
      BY <1>0, <1>16, <2>1, TokenEdits DEF ResetCommit
    <2>5. QED
      BY <1>16, <2>3, <2>4 DEF ResetCommit, Go, request
  <1>17. ASSUME NEW u \in Users, NEW b \in BOOLEAN, BlockUser(u, b)
       PROVE  TypeOK'
    <2>1. users' \in [Users -> UserRow]
      BY <1>0, <1>17, RowEdits DEF BlockUser
    <2>2. QED
      BY <1>17, <2>1 DEF BlockUser, request
  <1>18. CASE Tick
    BY <1>18 DEF Tick, request
  <1>19. CASE UNCHANGED vars
    BY <1>19 DEF vars, request
  <1>20. CASE Next
    <2>1. CASE \E r \in Requests : Login(r)
      BY <2>1, <1>1, <1>2, <1>3, <1>4 DEF Login
    <2>2. CASE \E r \in Requests : Refresh(r)
      BY <2>2, <1>5, <1>6, <1>7, <1>8 DEF Refresh
    <2>3. CASE \E r \in Requests : Logout(r)
      BY <2>3, <1>9, <1>10, <1>11 DEF Logout
    <2>4. CASE \E r \in Requests : Reset(r)
      BY <2>4, <1>12, <1>13, <1>14, <1>15, <1>16 DEF Reset
    <2>5. QED
      BY <1>20, <2>1, <2>2, <2>3, <2>4, <1>17, <1>18 DEF Next
  <1>21. QED
    BY <1>19, <1>20

LEMMA TargetsStep ==
  ASSUME TInv, [Next]_vars
  PROVE  TargetsExist'
  <1> USE DEF TInv, TypeOK, TargetsExist, Issued
  <1>0. now \in Nat
    OBVIOUS
  <1>1. ASSUME NEW r \in Requests, NEW u \in Users, NEW p \in Passwords, LoginSelect(r, u, p)
       PROVE  TargetsExist'
    BY <1>1 DEF LoginSelect, Begin, request, Missed, Matched, NoRow
  <1>2. ASSUME NEW r \in Requests, NEW u \in Users, LoginRefused(r, u)
       PROVE  TargetsExist'
    BY <1>2 DEF LoginRefused, Begin, request
  <1>3. ASSUME NEW r \in Requests, LoginCommit(r)
       PROVE  TargetsExist'
    BY <1>3 DEF LoginCommit, Go, request, Written, NoRow
  <1>4. ASSUME NEW r \in Requests, CreateTokens(r)
       PROVE  TargetsExist'
    <2>1. target[r] \in Users
      BY <1>4 DEF CreateTokens
    <2>2. tokens'[r] = NewToken(target[r])
      BY <1>4 DEF CreateTokens
    <2>3. tokens'[r] # NoToken
      BY <1>0, <2>1, <2>2, TokenEdits
    <2>4. QED
      BY <1>4, <2>3 DEF CreateTokens, Go, request
  <1>5. ASSUME NEW r \in Requests, NEW t \in Requests, RefreshSelect(r, t)
       PROVE  TargetsExist'
    BY <1>5 DEF RefreshSelect, Usable, Begin, request
  <1>6. ASSUME NEW r \in Requests, NEW t \in Requests, RefreshRefused(r, t)
       PROVE  TargetsExist'
    BY <1>6 DEF RefreshRefused, Begin, request
  <1>7. ASSUME NEW r \in Requests, RefreshRevoke(r)
       PROVE  TargetsExist'
    BY <1>7 DEF RefreshRevoke, Go, request
  <1>8. ASSUME NEW r \in Requests, RefreshCommit(r)
       PROVE  TargetsExist'
    <2>1. tokens[target[r]] \in RefreshToken /\ r # target[r] /\ target[r] \in Requests
      BY <1>8 DEF RefreshCommit
    <2>2. tokens[target[r]].user \in Users
      BY <2>1 DEF RefreshToken
    <2>3. tokens' = [tokens EXCEPT ![target[r]] = [@ EXCEPT !.revoked = TRUE, !.replacedBy = r],
                                   ![r] = NewToken(tokens[target[r]].user)]
      BY <1>8 DEF RefreshCommit
    <2>4. /\ tokens'[r] = NewToken(tokens[target[r]].user)
          /\ tokens'[target[r]] = [tokens[target[r]] EXCEPT !.revoked = TRUE, !.replacedBy = r]
      BY <2>1, <2>3
    <2>5. tokens'[r] # NoToken /\ tokens'[target[r]] # NoToken
      BY <1>0, <2>1, <2>2, <2>4, TokenEdits
    <2>6. \A t \in Requests : t # r => (tokens'[t] = NoToken <=> tokens[t] = NoToken)
      BY <2>1, <2>3, <2>5
    <2>7. Issued \subseteq {t \in Requests : tokens'[t] # NoToken}
      BY <2>5, <2>6
    <2>8. /\ pc' = [pc EXCEPT ![r] = "done"] /\ pc[r] = "rotate"
          /\ UNCHANGED <<kind, target, resets, rows>>
      BY <1>8 DEF RefreshCommit, Go, request
    <2>9. \A q \in Requests : q # r => pc'[q] = pc[q] /\ (tokens'[q] = NoToken <=> tokens[q] = NoToken)
      BY <2>6, <2>8
    <2>10. pc'[r] = "done"
      BY <2>8
    <2>11. QED
      BY <2>7, <2>8, <2>9, <2>10
  <1>9. ASSUME NEW r \in Requests, NEW t \in Requests, LogoutSelect(r, t)
       PROVE  TargetsExist'
    BY <1>9 DEF LogoutSelect, Begin, request
  <1>10. ASSUME NEW r \in Requests, NEW u \in Users, LogoutAllBegin(r, u)
       PROVE  TargetsExist'
    BY <1>10 DEF LogoutAllBegin, Begin, request, ActiveTokens, Issued
  <1>11. ASSUME NEW r \in Requests, LogoutCommit(r)
       PROVE  TargetsExist'
    <2>1. \A t \in Requests : tokens'[t] = NoToken <=> tokens[t] = NoToken
      <3> SUFFICES ASSUME NEW t \in Requests
                   PROVE  tokens'[t] = NoToken <=> tokens[t] = NoToken
        OBVIOUS
      <3>1. CASE t \in rows[r]
        <4>1. tokens[t] \in RefreshToken /\ tokens'[t] = [tokens[t] EXCEPT !.revoked = TRUE]
          BY <1>11, <3>1 DEF LogoutCommit
        <4>2. QED
          BY <1>0, <4>1, TokenEdits
      <3>2. CASE t \notin rows[r]
        BY <1>11, <3>2 DEF LogoutCommit
      <3>3. QED
        BY <3>1, <3>2
    <2>2. QED
      BY <1>11, <2>1 DEF LogoutCommit, Go, request
  <1>12. ASSUME NEW r \in Requests, NEW u \in Users, ForgotPassword(r, u)
       PROVE  TargetsExist'
    BY <1>12 DEF ForgotPassword, Begin, request
  <1>13. ASSUME NEW r \in Requests, NEW s \in Requests, ResetSelect(r, s)
       PROVE  TargetsExist'
    BY <1>13 DEF ResetSelect, Redeemable, Begin, request
  <1>14. ASSUME NEW r \in Requests, NEW s \in Requests, ResetRefused(r, s)
       PROVE  TargetsExist'
    BY <1>14 DEF ResetRefused, Begin, request
  <1>15. ASSUME NEW r \in Requests, ResetClaim(r)
       PROVE  TargetsExist'
    BY <1>15 DEF ResetClaim, Go, request
  <1>16. ASSUME NEW r \in Requests, NEW p \in Passwords, ResetCommit(r, p)
       PROVE  TargetsExist'
    <2>1. resets[target[r]] \in ResetToken /\ target[r] \in Requests
      BY <1>16 DEF ResetCommit
    <2>2. resets' = [resets EXCEPT ![target[r]] = [@ EXCEPT !.used = TRUE]]
      BY <1>16 DEF ResetCommit
    <2>3. resets'[target[r]] = [resets[target[r]] EXCEPT !.used = TRUE]
      BY <2>1, <2>2
    <2>4. resets'[target[r]] # NoToken
      BY <1>0, <2>1, <2>3, TokenEdits
    <2>5. \A s \in Requests : resets'[s] = NoToken <=> resets[s] = NoToken
      BY <2>1, <2>2, <2>4
    <2>6. QED
      BY <1>16, <2>5 DEF ResetCommit, Go, request
  <1>17. ASSUME NEW u \in Users, NEW b \in BOOLEAN, BlockUser(u, b)
       PROVE  TargetsExist'
    BY <1>17 DEF BlockUser, request
  <1>18. CASE Tick
    BY <1>18 DEF Tick, request
  <1>19. CASE UNCHANGED vars
    BY <1>19 DEF vars, request
  <1>20. CASE Next
    <2>1. CASE \E r \in Requests : Login(r)
      BY <2>1, <1>1, <1>2, <1>3, <1>4 DEF Login
    <2>2. CASE \E r \in Requests : Refresh(r)
      BY <2>2, <1>5, <1>6, <1>7, <1>8 DEF Refresh
    <2>3. CASE \E r \in Requests : Logout(r)
      BY <2>3, <1>9, <1>10, <1>11 DEF Logout
    <2>4. CASE \E r \in Requests : Reset(r)
      BY <2>4, <1>12, <1>13, <1>14, <1>15, <1>16 DEF Reset
    <2>5. QED
      BY <1>20, <2>1, <2>2, <2>3, <2>4, <1>17, <1>18 DEF Next
  <1>21. QED
    BY <1>19, <1>20

LEMMA TypesInductive ==
  /\ Init => TInv
  /\ TInv /\ [Next]_vars => TInv'
  <1>1. Init => TInv
    <2> SUFFICES ASSUME Init
                 PROVE  TInv
      OBVIOUS
    <2>1. NoRow \in UserRow
      BY DEF NoRow, UserRow
    <2>2. \A p \in Passwords \cup {NoPassword} : [NoRow EXCEPT !.password = p] \in UserRow
      BY DEF NoRow, UserRow
    <2>3. users \in [Users -> UserRow]
      BY <2>2 DEF Init
    <2>4. TypeOK
      BY <2>1, <2>3 DEF Init, TypeOK
    <2>5. TargetsExist
      BY DEF Init, TargetsExist, Issued
    <2>6. QED
      BY <2>4, <2>5 DEF TInv
  <1>2. TInv /\ [Next]_vars => TInv'
    BY TypeStep, TargetsStep DEF TInv
  <1>3. QED
    BY <1>1, <1>2

\* Every variable keeps its type.
THEOREM TypeCorrect == Spec => []TypeOK
  <1>1. TInv => TypeOK
    BY DEF TInv
  <1>2. QED
    BY <1>1, TypesInductive, PTL DEF Spec

(***************************************************************************)
(* What a step may do to the tables, to requests that have begun, to one   *)
(* that begins and to one that ends.                                       *)
(***************************************************************************)

\* Tokens are never deleted, moved to another user, or made valid again.
TablesGrow ==
  /\ \A t \in Requests : tokens[t] # NoToken =>
       /\ tokens'[t] # NoToken
       /\ tokens'[t].user = tokens[t].user
       /\ tokens[t].revoked => tokens'[t].revoked
  /\ \A s \in Requests : resets[s] # NoToken =>
       /\ resets'[s] # NoToken
       /\ resets[s].used => resets'[s].used

\* A request does not change what it is doing, and one that has ended issues
\* nothing.
RequestsKeep ==
  \A r \in Requests :
    /\ pc[r] # "idle" => /\ pc'[r] # "idle"
                         /\ kind'[r] = kind[r] /\ target'[r] = target[r] /\ before'[r] = before[r]
    /\ pc[r] = "done" => /\ pc'[r] = "done"
                         /\ tokens'[r] = NoToken <=> tokens[r] = NoToken

\* What was true of the target of a request when it began.
Starts ==
  \A r \in Requests : pc[r] = "idle" =>
    \/ /\ pc'[r] = "idle"
       /\ kind'[r] = kind[r] /\ target'[r] = target[r] /\ before'[r] = before[r]
    \/ /\ pc'[r] # "idle"
       /\ before'[r] = {q \in Requests : pc[q] = "done"}
       /\ kind'[r] = "refresh" /\ target'[r] # None =>
            pc'[r] = "revoke" /\ target'[r] \in Requests /\ Usable(target'[r])
       /\ kind'[r] = "reset" /\ target'[r] # None =>
            pc'[r] = "claim" /\ target'[r] \in Requests /\ Redeemable(target'[r])
       /\ kind'[r] = "logout" =>
            /\ pc'[r] = "logout" /\ target'[r] \in Requests /\ tokens[target'[r]] # NoToken
            /\ tokens[target'[r]].revoked \/ target'[r] \in rows'[r]
       /\ kind'[r] = "logoutAll" => pc'[r] = "logout" /\ rows'[r] = ActiveTokens(target'[r])

\* What is true of it when the request ends.
Ends ==
  \A r \in Requests : pc[r] \notin {"idle", "done"} =>
    /\ kind[r] = "refresh" /\ pc'[r] = "done" => tokens'[target[r]].revoked
    /\ kind[r] = "reset" /\ pc'[r] = "done" => resets'[target[r]].used
    /\ kind[r] \in {"logout", "logoutAll"} =>
         \/ pc'[r] = "logout" /\ rows'[r] = rows[r]
         \/ \A t \in rows[r] : tokens'[t].revoked

LEMMA TablesStep ==
  ASSUME TInv, [Next]_vars
  PROVE  TablesGrow
  <1> USE DEF TInv, TypeOK, TargetsExist, Issued, TablesGrow
  <1>0. now \in Nat
    OBVIOUS
  <1>1. ASSUME NEW r \in Requests, NEW u \in Users, NEW p \in Passwords, LoginSelect(r, u, p)
       PROVE  TablesGrow
    BY <1>1 DEF LoginSelect, Begin, request, Missed, Matched, NoRow
  <1>2. ASSUME NEW r \in Requests, NEW u \in Users, LoginRefused(r, u)
       PROVE  TablesGrow
    BY <1>2 DEF LoginRefused, Begin, request
  <1>3. ASSUME NEW r \in Requests, LoginCommit(r)
       PROVE  TablesGrow
    BY <1>3 DEF LoginCommit, Go, request, Written, NoRow
  <1>4. ASSUME NEW r \in Requests, CreateTokens(r)
       PROVE  TablesGrow
    BY <1>4 DEF CreateTokens, Go, request, NewToken
  <1>5. ASSUME NEW r \in Requests, NEW t \in Requests, RefreshSelect(r, t)
       PROVE  TablesGrow
    BY <1>5 DEF RefreshSelect, Begin, request
  <1>6. ASSUME NEW r \in Requests, NEW t \in Requests, RefreshRefused(r, t)
       PROVE  TablesGrow
    BY <1>6 DEF RefreshRefused, Begin, request
  <1>7. ASSUME NEW r \in Requests, RefreshRevoke(r)
       PROVE  TablesGrow
    BY <1>7 DEF RefreshRevoke, Go, request
  <1>8. ASSUME NEW r \in Requests, RefreshCommit(r)
       PROVE  TablesGrow
    <2>1. tokens[target[r]] \in RefreshToken /\ r # target[r] /\ target[r] \in Requests
      BY <1>8 DEF RefreshCommit
    <2>2. tokens' = [tokens EXCEPT ![target[r]] = [@ EXCEPT !.revoked = TRUE, !.replacedBy = r],
                                   ![r] = NewToken(tokens[target[r]].user)]
      BY <1>8 DEF RefreshCommit
    <2>3. /\ tokens'[target[r]] = [tokens[target[r]] EXCEPT !.revoked = TRUE, !.replacedBy = r]
          /\ \A t \in Requests \ {r, target[r]} : tokens'[t] = tokens[t]
      BY <2>1, <2>2
    <2>4. /\ tokens'[target[r]].user = tokens[target[r]].user
          /\ tokens'[target[r]].revoked
      BY <2>1, <2>3 DEF RefreshToken
    <2>5. tokens[r] = NoToken /\ resets' = resets
      BY <1>8 DEF RefreshCommit
    <2>6. tokens'[target[r]] # NoToken
      BY <1>0, <2>1, <2>3, TokenEdits
    <2>7. QED
      BY <2>3, <2>4, <2>5, <2>6
  <1>9. ASSUME NEW r \in Requests, NEW t \in Requests, LogoutSelect(r, t)
       PROVE  TablesGrow
    BY <1>9 DEF LogoutSelect, Begin, request
  <1>10. ASSUME NEW r \in Requests, NEW u \in Users, LogoutAllBegin(r, u)
       PROVE  TablesGrow
    BY <1>10 DEF LogoutAllBegin, Begin, request, ActiveTokens, Issued
  <1>11. ASSUME NEW r \in Requests, LogoutCommit(r)
       PROVE  TablesGrow
    <2>1. ASSUME NEW t \in rows[r]
          PROVE  tokens[t] \in RefreshToken /\ tokens'[t] = [tokens[t] EXCEPT !.revoked = TRUE]
      <3>1. t \in Requests /\ tokens[t] # NoToken
        BY <1>11 DEF LogoutCommit
      <3>2. tokens'[t] = [tokens[t] EXCEPT !.revoked = TRUE]
        BY <1>11, <3>1 DEF LogoutCommit
      <3>3. QED
        BY <3>1, <3>2
    <2>2. ASSUME NEW t \in rows[r]
          PROVE  /\ tokens'[t] # NoToken /\ tokens'[t].revoked
                 /\ tokens'[t].user = tokens[t].user
      <3>1. tokens[t] \in RefreshToken /\ tokens'[t] = [tokens[t] EXCEPT !.revoked = TRUE]
        BY <2>1
      <3>2. QED
        BY <3>1, RevokedToken
    <2>3. \A t \in Requests \ rows[r] : tokens'[t] = tokens[t]
      BY <1>11 DEF LogoutCommit
    <2>4. resets' = resets
      BY <1>11 DEF LogoutCommit
    <2>5. QED
      BY <2>2, <2>3, <2>4
  <1>12. ASSUME NEW r \in Requests, NEW u \in Users, ForgotPassword(r, u)
       PROVE  TablesGrow
    BY <1>12 DEF ForgotPassword, Begin, request
  <1>13. ASSUME NEW r \in Requests, NEW s \in Requests, ResetSelect(r, s)
       PROVE  TablesGrow
    BY <1>13 DEF ResetSelect, Begin, request
  <1>14. ASSUME NEW r \in Requests, NEW s \in Requests, ResetRefused(r, s)
       PROVE  TablesGrow
    BY <1>14 DEF ResetRefused, Begin, request
  <1>15. ASSUME NEW r \in Requests, ResetClaim(r)
       PROVE  TablesGrow
    BY <1>15 DEF ResetClaim, Go, request
  <1>16. ASSUME NEW r \in Requests, NEW p \in Passwords, ResetCommit(r, p)
       PROVE  TablesGrow
    <2>1. resets[target[r]] \in ResetToken /\ target[r] \in Requests
      BY <1>16 DEF ResetCommit
    <2>2. resets' = [resets EXCEPT ![target[r]] = [@ EXCEPT !.used = TRUE]] /\ tokens' = tokens
      BY <1>16 DEF ResetCommit
    <2>3. resets'[target[r]] = [resets[target[r]] EXCEPT !.used = TRUE]
      BY <2>1, <2>2
    <2>4. resets'[target[r]] # NoToken /\ resets'[target[r]].used
      BY <1>0, <2>1, <2>3, TokenEdits DEF ResetToken
    <2>5. QED
      BY <2>1, <2>2, <2>4
  <1>17. ASSUME NEW u \in Users, NEW b \in BOOLEAN, BlockUser(u, b)
       PROVE  TablesGrow
    BY <1>17 DEF BlockUser, request
  <1>18. CASE Tick
    BY <1>18 DEF Tick, request
  <1>19. CASE UNCHANGED vars
    BY <1>19 DEF vars, request
  <1>20. CASE Next
    <2>1. CASE \E r \in Requests : Login(r)
      BY <2>1, <1>1, <1>2, <1>3, <1>4 DEF Login
    <2>2. CASE \E r \in Requests : Refresh(r)
      BY <2>2, <1>5, <1>6, <1>7, <1>8 DEF Refresh
    <2>3. CASE \E r \in Requests : Logout(r)
      BY <2>3, <1>9, <1>10, <1>11 DEF Logout
    <2>4. CASE \E r \in Requests : Reset(r)
      BY <2>4, <1>12, <1>13, <1>14, <1>15, <1>16 DEF Reset
    <2>5. QED
      BY <1>20, <2>1, <2>2, <2>3, <2>4, <1>17, <1>18 DEF Next
  <1>21. QED
    BY <1>19, <1>20

LEMMA RequestsStep ==
  ASSUME TInv, [Next]_vars
  PROVE  RequestsKeep
  <1> USE DEF TInv, TypeOK, TargetsExist, Issued, RequestsKeep
  <1>0. now \in Nat
    OBVIOUS
  <1>1. ASSUME NEW r \in Requests, NEW u \in Users, NEW p \in Passwords, LoginSelect(r, u, p)
       PROVE  RequestsKeep
    BY <1>1 DEF LoginSelect, Begin, request, Missed, Matched, NoRow
  <1>2. ASSUME NEW r \in Requests, NEW u \in Users, LoginRefused(r, u)
       PROVE  RequestsKeep
    BY <1>2 DEF LoginRefused, Begin, request
  <1>3. ASSUME NEW r \in Requests, LoginCommit(r)
       PROVE  RequestsKeep
    BY <1>3 DEF LoginCommit, Go, request, Written, NoRow
  <1>4. ASSUME NEW r \in Requests, CreateTokens(r)
       PROVE  RequestsKeep
    BY <1>4 DEF CreateTokens, Go, request, NewToken
  <1>5. ASSUME NEW r \in Requests, NEW t \in Requests, RefreshSelect(r, t)
       PROVE  RequestsKeep
    BY <1>5 DEF RefreshSelect, Begin, request
  <1>6. ASSUME NEW r \in Requests, NEW t \in Requests, RefreshRefused(r, t)
       PROVE  RequestsKeep
    BY <1>6 DEF RefreshRefused, Begin, request
  <1>7. ASSUME NEW r \in Requests, RefreshRevoke(r)
       PROVE  RequestsKeep
    BY <1>7 DEF RefreshRevoke, Go, request
  <1>8. ASSUME NEW r \in Requests, RefreshCommit(r)
       PROVE  RequestsKeep
    <2>1. pc' = [pc EXCEPT ![r] = "done"] /\ pc[r] = "rotate" /\ UNCHANGED <<kind, target, before>>
      BY <1>8 DEF RefreshCommit, Go, request
    <2>2. \A q \in Requests \ {r, target[r]} : tokens'[q] = tokens[q]
      BY <1>8 DEF RefreshCommit
    <2>3. tokens[target[r]] # NoToken
      BY <2>1
    <2>4. QED
      BY <2>1, <2>2, <2>3, TablesStep DEF TablesGrow
  <1>9. ASSUME NEW r \in Requests, NEW t \in Requests, LogoutSelect(r, t)
       PROVE  RequestsKeep
    BY <1>9 DEF LogoutSelect, Begin, request
  <1>10. ASSUME NEW r \in Requests, NEW u \in Users, LogoutAllBegin(r, u)
       PROVE  RequestsKeep
    BY <1>10 DEF LogoutAllBegin, Begin, request, ActiveTokens, Issued
  <1>11. ASSUME NEW r \in Requests, LogoutCommit(r)
       PROVE  RequestsKeep
    <2>1. pc' = [pc EXCEPT ![r] = "done"] /\ pc[r] = "logout" /\ UNCHANGED <<kind, target, before>>
      BY <1>11 DEF LogoutCommit, Go, request
    <2>2. \A q \in Requests : tokens[q] = NoToken => tokens'[q] = tokens[q]
      BY <1>11 DEF LogoutCommit
    <2>3. QED
      BY <2>1, <2>2, TablesStep DEF TablesGrow
  <1>12. ASSUME NEW r \in Requests, NEW u \in Users, ForgotPassword(r, u)
       PROVE  RequestsKeep
    BY <1>12 DEF ForgotPassword, Begin, request
  <1>13. ASSUME NEW r \in Requests, NEW s \in Requests, ResetSelect(r, s)
       PROVE  RequestsKeep
    BY <1>13 DEF ResetSelect, Begin, request
  <1>14. ASSUME NEW r \in Requests, NEW s \in Requests, ResetRefused(r, s)
       PROVE  RequestsKeep
    BY <1>14 DEF ResetRefused, Begin, request
  <1>15. ASSUME NEW r \in Requests, ResetClaim(r)
       PROVE  RequestsKeep
    BY <1>15 DEF ResetClaim, Go, request
  <1>16. ASSUME NEW r \in Requests, NEW p \in Passwords, ResetCommit(r, p)
       PROVE  RequestsKeep
    BY <1>16 DEF ResetCommit, Go, request
  <1>17. ASSUME NEW u \in Users, NEW b \in BOOLEAN, BlockUser(u, b)
       PROVE  RequestsKeep
    BY <1>17 DEF BlockUser, request
  <1>18. CASE Tick
    BY <1>18 DEF Tick, request
  <1>19. CASE UNCHANGED vars
    BY <1>19 DEF vars, request
  <1>20. CASE Next
    <2>1. CASE \E r \in Requests : Login(r)
      BY <2>1, <1>1, <1>2, <1>3, <1>4 DEF Login
    <2>2. CASE \E r \in Requests : Refresh(r)
      BY <2>2, <1>5, <1>6, <1>7, <1>8 DEF Refresh
    <2>3. CASE \E r \in Requests : Logout(r)
      BY <2>3, <1>9, <1>10, <1>11 DEF Logout
    <2>4. CASE \E r \in Requests : Reset(r)
      BY <2>4, <1>12, <1>13, <1>14, <1>15, <1>16 DEF Reset
    <2>5. QED
      BY <1>20, <2>1, <2>2, <2>3, <2>4, <1>17, <1>18 DEF Next
  <1>21. QED
    BY <1>19, <1>20

LEMMA StartsStep ==
  ASSUME TInv, [Next]_vars
  PROVE  Starts
  <1> USE DEF TInv, TypeOK, TargetsExist, Issued, Starts
  <1>0. now \in Nat
    OBVIOUS
  <1>1. ASSUME NEW r \in Requests, NEW u \in Users, NEW p \in Passwords, LoginSelect(r, u, p)
       PROVE  Starts
    BY <1>1 DEF LoginSelect, Begin, request, Missed, Matched, NoRow
  <1>2. ASSUME NEW r \in Requests, NEW u \in Users, LoginRefused(r, u)
       PROVE  Starts
    BY <1>2 DEF LoginRefused, Begin, request
  <1>3. ASSUME NEW r \in Requests, LoginCommit(r)
       PROVE  Starts
    BY <1>3 DEF LoginCommit, Go, request, Written, NoRow
  <1>4. ASSUME NEW r \in Requests, CreateTokens(r)
       PROVE  Starts
    BY <1>4 DEF CreateTokens, Go, request, NewToken
  <1>5. ASSUME NEW r \in Requests, NEW t \in Requests, RefreshSelect(r, t)
       PROVE  Starts
    BY <1>5 DEF RefreshSelect, Begin, request
  <1>6. ASSUME NEW r \in Requests, NEW t \in Requests, RefreshRefused(r, t)
       PROVE  Starts
    BY <1>6 DEF RefreshRefused, Begin, request
  <1>7. ASSUME NEW r \in Requests, RefreshRevoke(r)
       PROVE  Starts
    BY <1>7 DEF RefreshRevoke, Go, request
  <1>8. ASSUME NEW r \in Requests, RefreshCommit(r)
       PROVE  Starts
    BY <1>8 DEF RefreshCommit, Go, request, NewToken
  <1>9. ASSUME NEW r \in Requests, NEW t \in Requests, LogoutSelect(r, t)
       PROVE  Starts
    BY <1>9 DEF LogoutSelect, Begin, request
  <1>10. ASSUME NEW r \in Requests, NEW u \in Users, LogoutAllBegin(r, u)
       PROVE  Starts
    BY <1>10 DEF LogoutAllBegin, Begin, request, ActiveTokens, Issued
  <1>11. ASSUME NEW r \in Requests, LogoutCommit(r)
       PROVE  Starts
    BY <1>11 DEF LogoutCommit, Go, request
  <1>12. ASSUME NEW r \in Requests, NEW u \in Users, ForgotPassword(r, u)
       PROVE  Starts
    BY <1>12 DEF ForgotPassword, Begin, request
  <1>13. ASSUME NEW r \in Requests, NEW s \in Requests, ResetSelect(r, s)
       PROVE  Starts
    BY <1>13 DEF ResetSelect, Begin, request
  <1>14. ASSUME NEW r \in Requests, NEW s \in Requests, ResetRefused(r, s)
       PROVE  Starts
    BY <1>14 DEF ResetRefused, Begin, request
  <1>15. ASSUME NEW r \in Requests, ResetClaim(r)
       PROVE  Starts
    BY <1>15 DEF ResetClaim, Go, request
  <1>16. ASSUME NEW r \in Requests, NEW p \in Passwords, ResetCommit(r, p)
       PROVE  Starts
    BY <1>16 DEF ResetCommit, Go, request
  <1>17. ASSUME NEW u \in Users, NEW b \in BOOLEAN, BlockUser(u, b)
       PROVE  Starts
    BY <1>17 DEF BlockUser, request
  <1>18. CASE Tick
    BY <1>18 DEF Tick, request
  <1>19. CASE UNCHANGED vars
    BY <1>19 DEF vars, request
  <1>20. CASE Next
    <2>1. CASE \E r \in Requests : Login(r)
      BY <2>1, <1>1, <1>2, <1>3, <1>4 DEF Login
    <2>2. CASE \E r \in Requests : Refresh(r)
      BY <2>2, <1>5, <1>6, <1>7, <1>8 DEF Refresh
    <2>3. CASE \E r \in Requests : Logout(r)
      BY <2>3, <1>9, <1>10, <1>11 DEF Logout
    <2>4. CASE \E r \in Requests : Reset(r)
      BY <2>4, <1>12, <1>13, <1>14, <1>15, <1>16 DEF Reset
    <2>5. QED
      BY <1>20, <2>1, <2>2, <2>3, <2>4, <1>17, <1>18 DEF Next
  <1>21. QED
    BY <1>19, <1>20

LEMMA EndsStep ==
  ASSUME TInv, [Next]_vars
  PROVE  Ends
  <1> USE DEF TInv, TypeOK, TargetsExist, Issued, Ends
  <1>0. now \in Nat
    OBVIOUS
  <1>1. ASSUME NEW r \in Requests, NEW u \in Users, NEW p \in Passwords, LoginSelect(r, u, p)
       PROVE  Ends
    BY <1>1 DEF LoginSelect, Begin, request, Missed, Matched, NoRow
  <1>2. ASSUME NEW r \in Requests, NEW u \in Users, LoginRefused(r, u)
       PROVE  Ends
    BY <1>2 DEF LoginRefused, Begin, request
  <1>3. ASSUME NEW r \in Requests, LoginCommit(r)
       PROVE  Ends
    BY <1>3 DEF LoginCommit, Go, request, Written, NoRow
  <1>4. ASSUME NEW r \in Requests, CreateTokens(r)
       PROVE  Ends
    BY <1>4 DEF CreateTokens, Go, request, NewToken
  <1>5. ASSUME NEW r \in Requests, NEW t \in Requests, RefreshSelect(r, t)
       PROVE  Ends
    BY <1>5 DEF RefreshSelect, Begin, request
  <1>6. ASSUME NEW r \in Requests, NEW t \in Requests, RefreshRefused(r, t)
       PROVE  Ends
    BY <1>6 DEF RefreshRefused, Begin, request
  <1>7. ASSUME NEW r \in Requests, RefreshRevoke(r)
       PROVE  Ends
    BY <1>7 DEF RefreshRevoke, Go, request
  <1>8. ASSUME NEW r \in Requests, RefreshCommit(r)
       PROVE  Ends
    <2>1. pc' = [pc EXCEPT ![r] = "done"] /\ pc[r] = "rotate" /\ UNCHANGED rows
      BY <1>8 DEF RefreshCommit, Go, request
    <2>2. tokens[target[r]] \in RefreshToken /\ r # target[r] /\ target[r] \in Requests
      BY <2>1
    <2>3. tokens'[target[r]] = [tokens[target[r]] EXCEPT !.revoked = TRUE, !.replacedBy = r]
      BY <1>8, <2>2 DEF RefreshCommit
    <2>4. tokens'[target[r]].revoked
      BY <2>2, <2>3 DEF RefreshToken
    <2>5. QED
      BY <2>1, <2>4
  <1>9. ASSUME NEW r \in Requests, NEW t \in Requests, LogoutSelect(r, t)
       PROVE  Ends
    BY <1>9 DEF LogoutSelect, Begin, request
  <1>10. ASSUME NEW r \in Requests, NEW u \in Users, LogoutAllBegin(r, u)
       PROVE  Ends
    BY <1>10 DEF LogoutAllBegin, Begin, request, ActiveTokens, Issued
  <1>11. ASSUME NEW r \in Requests, LogoutCommit(r)
       PROVE  Ends
    BY <1>11 DEF LogoutCommit, Go, request
  <1>12. ASSUME NEW r \in Requests, NEW u \in Users, ForgotPassword(r, u)
       PROVE  Ends
    BY <1>12 DEF ForgotPassword, Begin, request
  <1>13. ASSUME NEW r \in Requests, NEW s \in Requests, ResetSelect(r, s)
       PROVE  Ends
    BY <1>13 DEF ResetSelect, Begin, request
  <1>14. ASSUME NEW r \in Requests, NEW s \in Requests, ResetRefused(r, s)
       PROVE  Ends
    BY <1>14 DEF ResetRefused, Begin, request
  <1>15. ASSUME NEW r \in Requests, ResetClaim(r)
       PROVE  Ends
    BY <1>15 DEF ResetClaim, Go, request
  <1>16. ASSUME NEW r \in Requests, NEW p \in Passwords, ResetCommit(r, p)
       PROVE  Ends
    BY <1>16 DEF ResetCommit, Go, request
  <1>17. ASSUME NEW u \in Users, NEW b \in BOOLEAN, BlockUser(u, b)
       PROVE  Ends
    BY <1>17 DEF BlockUser, request
  <1>18. CASE Tick
    BY <1>18 DEF Tick, request
  <1>19. CASE UNCHANGED vars
    BY <1>19 DEF vars, request
  <1>20. CASE Next
    <2>1. CASE \E r \in Requests : Login(r)
      BY <2>1, <1>1, <1>2, <1>3, <1>4 DEF Login
    <2>2. CASE \E r \in Requests : Refresh(r)
      BY <2>2, <1>5, <1>6, <1>7, <1>8 DEF Refresh
    <2>3. CASE \E r \in Requests : Logout(r)
      BY <2>3, <1>9, <1>10, <1>11 DEF Logout
    <2>4. CASE \E r \in Requests : Reset(r)
      BY <2>4, <1>12, <1>13, <1>14, <1>15, <1>16 DEF Reset
    <2>5. QED
      BY <1>20, <2>1, <2>2, <2>3, <2>4, <1>17, <1>18 DEF Next
  <1>21. QED
    BY <1>19, <1>20

(***************************************************************************)
(* Exchanges and logouts, from these four facts about steps alone.         *)
(***************************************************************************)

HistoryInv ==
  /\ \A r, q \in Requests : q \in before[r] => pc[q] = "done"
  /\ \A r \in Requests : pc[r] = "idle" => kind[r] = "none" /\ before[r] = {}

\* r has found a token to exchange.
Exchanges(r) == kind[r] \in {"refresh", "reset"} /\ target[r] # None

\* The token of an exchange that has ended can not be exchanged again, and
\* exchanges of one token overlap from the moment the second has found it.
ExchangeInv ==
  /\ \A r \in Requests : Exchanges(r) =>
       /\ target[r] \in Requests
       /\ kind[r] = "refresh" => /\ tokens[target[r]] # NoToken
                                 /\ pc[r] = "done" => tokens[target[r]].revoked
       /\ kind[r] = "reset"   => /\ resets[target[r]] # NoToken
                                 /\ pc[r] = "done" => resets[target[r]].used
  /\ \A a, b \in Requests :
       (a # b /\ Exchanges(a) /\ kind[a] = kind[b] /\ target[a] = target[b]) => Overlap(a, b)

\* What a logout is about, ended or not.
Covered(r) ==
  {t \in Requests : /\ tokens[t] # NoToken
                    /\ \/ kind[r] = "logout" /\ t = target[r]
                       \/ kind[r] = "logoutAll" /\ t \in before[r] /\ tokens[t].user = target[r]}

LogoutInv ==
  \A r \in Requests : \A t \in Covered(r) :
    /\ tokens[t].revoked \/ (pc[r] = "logout" /\ t \in rows[r])
    /\ \A a \in Requests : kind[a] = "refresh" /\ target[a] = t => r \notin before[a]

SInv == TInv /\ HistoryInv /\ ExchangeInv /\ LogoutInv

LEMMA HistoryStep ==
  ASSUME SInv, [Next]_vars
  PROVE  HistoryInv'
  <1>1. RequestsKeep /\ Starts
    BY RequestsStep, StartsStep DEF SInv
  <1>2. \A r, q \in Requests : q \in before'[r] => pc'[q] = "done"
    BY <1>1 DEF SInv, HistoryInv, RequestsKeep, Starts
  <1>3. \A r \in Requests : pc'[r] = "idle" => kind'[r] = "none" /\ before'[r] = {}
    BY <1>1 DEF SInv, HistoryInv, RequestsKeep, Starts
  <1>4. QED
    BY <1>2, <1>3 DEF HistoryInv

LEMMA ExchangeStep ==
  ASSUME SInv, [Next]_vars
  PROVE  ExchangeInv'
  <1>1. TablesGrow /\ RequestsKeep /\ Starts /\ Ends
    BY TablesStep, RequestsStep, StartsStep, EndsStep DEF SInv
  <1>2. HistoryInv'
    BY HistoryStep
  <1>3. ASSUME NEW r \in Requests, Exchanges(r)'
        PROVE  /\ target'[r] \in Requests
               /\ kind'[r] = "refresh" => /\ tokens'[target'[r]] # NoToken
                                          /\ pc'[r] = "done" => tokens'[target'[r]].revoked
               /\ kind'[r] = "reset"   => /\ resets'[target'[r]] # NoToken
                                          /\ pc'[r] = "done" => resets'[target'[r]].used
    <2>1. CASE pc[r] = "idle"
      <3>1. kind[r] = "none"
        BY <2>1 DEF SInv, HistoryInv
      <3>2. kind'[r] # kind[r]
        BY <1>3, <3>1 DEF Exchanges
      <3>3. QED
        BY <1>1, <1>3, <2>1, <3>2 DEF Exchanges, Starts, Usable, Redeemable, TablesGrow
    <2>2. CASE pc[r] # "idle"
      <3>1. kind'[r] = kind[r] /\ target'[r] = target[r] /\ Exchanges(r)
        BY <1>1, <1>3, <2>2 DEF RequestsKeep, Exchanges
      <3>2. target[r] \in Requests
        BY <3>1 DEF SInv, ExchangeInv
      <3>3. CASE pc[r] = "done"
        BY <1>1, <3>1, <3>2, <3>3 DEF SInv, ExchangeInv, TablesGrow
      <3>4. CASE pc[r] # "done"
        BY <1>1, <2>2, <3>1, <3>2, <3>4 DEF SInv, ExchangeInv, TablesGrow, Ends
      <3>5. QED
        BY <3>3, <3>4
    <2>3. QED
      BY <2>1, <2>2
  <1>4. ASSUME NEW a \in Requests, NEW b \in Requests, a # b,
               Exchanges(a)', kind'[a] = kind'[b], target'[a] = target'[b]
        PROVE  b \notin before'[a]
    <2>1. Exchanges(b)'
      BY <1>4 DEF Exchanges
    <2>2. CASE pc[a] # "idle"
      <3>1. CASE pc[b] = "idle"
        \* before[a] holds only requests that have ended.
        BY <1>1, <2>2, <3>1 DEF SInv, HistoryInv, RequestsKeep
      <3>2. CASE pc[b] # "idle"
        BY <1>1, <1>4, <2>2, <3>2 DEF SInv, ExchangeInv, RequestsKeep, Exchanges, Overlap
      <3>3. QED
        BY <3>1, <3>2
    <2>3. CASE pc[a] = "idle"
      \* a finds the token now: no b has ended that exchanged it.
      <3>1. kind[a] = "none"
        BY <2>3 DEF SInv, HistoryInv
      <3>2. /\ before'[a] = {q \in Requests : pc[q] = "done"}
            /\ kind'[a] = "refresh" => Usable(target'[a])
            /\ kind'[a] = "reset" => Redeemable(target'[a])
        BY <1>1, <1>4, <2>3, <3>1 DEF Exchanges, Starts
      <3>3. ASSUME pc[b] = "done"
            PROVE  FALSE
        <4>1. Exchanges(b) /\ kind[b] = kind'[a] /\ target[b] = target'[a]
          BY <1>1, <1>4, <2>1, <3>3 DEF RequestsKeep, Exchanges
        <4>2. CASE kind[b] = "refresh"
          BY <3>2, <3>3, <4>1, <4>2 DEF SInv, ExchangeInv, Usable
        <4>3. CASE kind[b] = "reset"
          BY <3>2, <3>3, <4>1, <4>3 DEF SInv, ExchangeInv, Redeemable
        <4>4. QED
          BY <4>1, <4>2, <4>3 DEF Exchanges
      <3>4. QED
        BY <3>2, <3>3
    <2>4. QED
      BY <2>2, <2>3
  <1>5. ASSUME NEW a \in Requests, NEW b \in Requests, a # b,
               Exchanges(a)', kind'[a] = kind'[b], target'[a] = target'[b]
        PROVE  Overlap(a, b)'
    <2>1. Exchanges(b)'
      BY <1>5 DEF Exchanges
    <2>2. b \notin before'[a] /\ a \notin before'[b]
      BY <1>4, <1>5, <2>1
    <2>3. QED
      BY <2>2 DEF Overlap
  <1>6. QED
    BY <1>3, <1>5 DEF ExchangeInv

LEMMA LogoutStep ==
  ASSUME SInv, [Next]_vars
  PROVE  LogoutInv'
  <1>1. TablesGrow /\ RequestsKeep /\ Starts /\ Ends
    BY TablesStep, RequestsStep, StartsStep, EndsStep DEF SInv
  <1>2. SUFFICES ASSUME NEW r \in Requests, NEW t \in Covered(r)'
                 PROVE  /\ tokens'[t].revoked \/ (pc'[r] = "logout" /\ t \in rows'[r])
                        /\ \A a \in Requests :
                             kind'[a] = "refresh" /\ target'[a] = t => r \notin before'[a]
    BY DEF LogoutInv
  <1>3. t \in Requests /\ tokens'[t] # NoToken /\ kind'[r] \in {"logout", "logoutAll"}
    BY DEF Covered
  <1>4. pc[r] # "idle" => t \in Covered(r)
    <2> SUFFICES ASSUME pc[r] # "idle"
                 PROVE  t \in Covered(r)
      OBVIOUS
    <2>1. kind'[r] = kind[r] /\ target'[r] = target[r] /\ before'[r] = before[r]
      BY <1>1 DEF RequestsKeep
    <2>2. CASE kind[r] = "logout"
      <3>1. t = target[r]
        BY <2>1, <2>2 DEF Covered
      <3>2. tokens[t] # NoToken
        BY <2>2, <3>1 DEF SInv, TInv, TargetsExist, Issued
      <3>3. QED
        BY <1>3, <2>2, <3>1, <3>2 DEF Covered
    <2>3. CASE kind[r] = "logoutAll"
      <3>1. t \in before[r] /\ tokens'[t].user = target[r]
        BY <2>1, <2>3 DEF Covered
      <3>2. tokens[t] # NoToken
        BY <1>1, <1>3, <3>1 DEF SInv, HistoryInv, RequestsKeep
      <3>3. tokens[t].user = target[r]
        BY <1>1, <1>3, <3>1, <3>2 DEF TablesGrow
      <3>4. QED
        BY <1>3, <2>3, <3>1, <3>2, <3>3 DEF Covered
    <2>4. QED
      BY <1>3, <2>1, <2>2, <2>3
  <1>5. tokens'[t].revoked \/ (pc'[r] = "logout" /\ t \in rows'[r])
    <2>1. CASE pc[r] # "idle"
      <3>1. t \in Covered(r) /\ tokens[t] # NoToken
        BY <1>4, <2>1 DEF Covered
      <3>2. CASE tokens[t].revoked
        BY <1>1, <1>3, <3>1, <3>2 DEF TablesGrow
      <3>3. CASE pc[r] = "logout" /\ t \in rows[r]
        <4>1. kind[r] \in {"logout", "logoutAll"}
          BY <3>3 DEF SInv, TInv, TargetsExist
        <4>2. QED
          BY <1>1, <3>3, <4>1 DEF Ends
      <3>4. QED
        BY <3>1, <3>2, <3>3 DEF SInv, LogoutInv
    <2>2. CASE pc[r] = "idle"
      <3>1. kind[r] = "none"
        BY <2>2 DEF SInv, HistoryInv
      <3>2. CASE kind'[r] = "logout"
        <4>1. /\ pc'[r] = "logout" /\ tokens[target'[r]] # NoToken
              /\ tokens[target'[r]].revoked \/ target'[r] \in rows'[r]
          BY <1>1, <2>2, <3>1, <3>2 DEF Starts
        <4>2. t = target'[r]
          BY <3>2 DEF Covered
        <4>3. QED
          BY <1>1, <1>3, <4>1, <4>2 DEF TablesGrow
      <3>3. CASE kind'[r] = "logoutAll"
        <4>1. /\ pc'[r] = "logout" /\ rows'[r] = ActiveTokens(target'[r])
              /\ before'[r] = {q \in Requests : pc[q] = "done"}
          BY <1>1, <2>2, <3>1, <3>3 DEF Starts
        <4>2. pc[t] = "done" /\ tokens'[t].user = target'[r]
          BY <3>3, <4>1 DEF Covered
        <4>3. tokens[t] # NoToken
          BY <1>1, <1>3, <4>2 DEF RequestsKeep
        <4>4. tokens[t].user = target'[r] /\ (tokens[t].revoked => tokens'[t].revoked)
          BY <1>1, <1>3, <4>2, <4>3 DEF TablesGrow
        <4>5. QED
          BY <1>3, <4>1, <4>3, <4>4 DEF ActiveTokens, Issued
      <3>4. QED
        BY <1>3, <3>2, <3>3
    <2>3. QED
      BY <2>1, <2>2
  <1>6. ASSUME NEW a \in Requests, kind'[a] = "refresh", target'[a] = t, r \in before'[a]
        PROVE  FALSE
    <2>1. CASE pc[a] # "idle"
      <3>1. kind[a] = "refresh" /\ target[a] = t /\ r \in before[a]
        BY <1>1, <1>6, <2>1 DEF RequestsKeep
      <3>2. t \in Covered(r)
        BY <1>4, <3>1 DEF SInv, HistoryInv
      <3>3. QED
        BY <3>1, <3>2 DEF SInv, LogoutInv
    <2>2. CASE pc[a] = "idle"
      \* r has ended, so what it covers is revoked and a does not find it.
      <3>1. kind[a] = "none" /\ before[a] = {}
        BY <2>2 DEF SInv, HistoryInv
      <3>2. target'[a] # None
        BY <1>3, <1>6
      <3>3. before'[a] = {q \in Requests : pc[q] = "done"} /\ Usable(t)
        BY <1>1, <1>6, <2>2, <3>1, <3>2 DEF Starts
      <3>4. pc[r] = "done" /\ t \in Covered(r)
        BY <1>4, <1>6, <3>3
      <3>5. tokens[t].revoked
        BY <3>4 DEF SInv, LogoutInv
      <3>6. QED
        BY <3>3, <3>5 DEF Usable
    <2>3. QED
      BY <2>1, <2>2
  <1>7. QED
    BY <1>5, <1>6

LEMMA SessionsInductive ==
  /\ Init => SInv
  /\ SInv /\ [Next]_vars => SInv'
  <1>1. Init => SInv
    <2> SUFFICES ASSUME Init
                 PROVE  SInv
      OBVIOUS
    <2>1. HistoryInv /\ ExchangeInv /\ LogoutInv
      BY DEF Init, HistoryInv, ExchangeInv, Exchanges, LogoutInv, Covered
    <2>2. QED
      BY <2>1, TypesInductive DEF SInv
  <1>2. SInv /\ [Next]_vars => SInv'
    BY TypesInductive, HistoryStep, ExchangeStep, LogoutStep DEF SInv
  <1>3. QED
    BY <1>1, <1>2

\* A token is exchanged once, but by requests that overlap.
THEOREM ExchangedOnce == Spec => []SpentOnceUnlessOverlapping
  <1>1. SInv => SpentOnceUnlessOverlapping
    BY DEF SInv, ExchangeInv, Exchanges, Spent, SpentOnceUnlessOverlapping
  <1>2. QED
    BY <1>1, SessionsInductive, PTL DEF Spec

\* A logout ends every session it is about, but one that was being refreshed.
THEOREM LogoutsHold == Spec => []LogoutEndsSessions
  <1>1. SInv => LogoutEndsSessions
    <2> SUFFICES ASSUME SInv, NEW r \in Requests, NEW t \in LoggedOut(r)
                 PROVE  /\ tokens[t].revoked
                        /\ \A a \in Issued :
                             kind[a] = "refresh" /\ target[a] = t => r \notin before[a]
      BY DEF LogoutEndsSessions
    <2>1. pc[r] = "done" /\ t \in Covered(r)
      BY DEF LoggedOut, Covered, Issued
    <2>2. QED
      BY <2>1 DEF SInv, LogoutInv, Issued
  <1>2. QED
    BY <1>1, SessionsInductive, PTL DEF Spec

(***************************************************************************)
(* The failure counter.                                                    *)
(***************************************************************************)

\* A password has been judged and the UPDATE is to come.
Judged(r) == pc[r] \in {"matched", "missed"}

\* What r is about to write, when nobody has written since it read.
Ready(r, u) ==
  /\ read[r].failed = users[u].failed /\ read[r].lockout = users[u].lockout
  /\ pc[r] = "matched" => mine[r].failed = 0 /\ mine[r].lockout = 0
  /\ pc[r] = "missed" =>
       /\ mine[r].failed = read[r].failed + 1
       /\ mine[r].failed >= MaxLoginAttempts => mine[r].lockout # 0
       /\ mine[r].failed < MaxLoginAttempts => mine[r].lockout = read[r].lockout

Counted(u) ==
  /\ users[u].failed = misses[u]
  /\ misses[u] >= MaxLoginAttempts <=> users[u].lockout # 0

LoginInv ==
  \A u \in Users : LoginsApart(u) =>
    /\ Counted(u)
    /\ \A r \in Requests : Judged(r) /\ target[r] = u => Ready(r, u)

\* A step that neither judges a password nor writes the verdict.
Quiet ==
  /\ \A u \in Users : users'[u].failed = users[u].failed /\ users'[u].lockout = users[u].lockout
  /\ misses' = misses /\ read' = read /\ mine' = mine
  /\ \A r \in Requests : Judged(r)' => pc'[r] = pc[r]

LEMMA QuietOrLogin ==
  ASSUME TInv, [Next]_vars
  PROVE  \/ Quiet
         \/ \E r \in Requests, u \in Users, p \in Passwords : LoginSelect(r, u, p)
         \/ \E r \in Requests : LoginCommit(r)
  <1> DEFINE Goal == \/ Quiet
                     \/ \E r \in Requests, u \in Users, p \in Passwords : LoginSelect(r, u, p)
                     \/ \E r \in Requests : LoginCommit(r)
  <1> USE DEF TInv, TypeOK, Quiet, Judged
  <1>1. ASSUME NEW r \in Requests, NEW u \in Users, NEW p \in Passwords, LoginSelect(r, u, p)
       PROVE  Goal
    BY <1>1
  <1>2. ASSUME NEW r \in Requests, NEW u \in Users, LoginRefused(r, u)
       PROVE  Goal
    BY <1>2 DEF LoginRefused, Begin, request
  <1>3. ASSUME NEW r \in Requests, LoginCommit(r)
       PROVE  Goal
    BY <1>3
  <1>4. ASSUME NEW r \in Requests, CreateTokens(r)
       PROVE  Goal
    BY <1>4 DEF CreateTokens, Go, request, NewToken
  <1>5. ASSUME NEW r \in Requests, NEW t \in Requests, RefreshSelect(r, t)
       PROVE  Goal
    BY <1>5 DEF RefreshSelect, Begin, request
  <1>6. ASSUME NEW r \in Requests, NEW t \in Requests, RefreshRefused(r, t)
       PROVE  Goal
    BY <1>6 DEF RefreshRefused, Begin, request
  <1>7. ASSUME NEW r \in Requests, RefreshRevoke(r)
       PROVE  Goal
    BY <1>7 DEF RefreshRevoke, Go, request
  <1>8. ASSUME NEW r \in Requests, RefreshCommit(r)
       PROVE  Goal
    BY <1>8 DEF RefreshCommit, Go, request, NewToken
  <1>9. ASSUME NEW r \in Requests, NEW t \in Requests, LogoutSelect(r, t)
       PROVE  Goal
    BY <1>9 DEF LogoutSelect, Begin, request
  <1>10. ASSUME NEW r \in Requests, NEW u \in Users, LogoutAllBegin(r, u)
       PROVE  Goal
    BY <1>10 DEF LogoutAllBegin, Begin, request, ActiveTokens, Issued
  <1>11. ASSUME NEW r \in Requests, LogoutCommit(r)
       PROVE  Goal
    BY <1>11 DEF LogoutCommit, Go, request
  <1>12. ASSUME NEW r \in Requests, NEW u \in Users, ForgotPassword(r, u)
       PROVE  Goal
    BY <1>12 DEF ForgotPassword, Begin, request
  <1>13. ASSUME NEW r \in Requests, NEW s \in Requests, ResetSelect(r, s)
       PROVE  Goal
    BY <1>13 DEF ResetSelect, Begin, request
  <1>14. ASSUME NEW r \in Requests, NEW s \in Requests, ResetRefused(r, s)
       PROVE  Goal
    BY <1>14 DEF ResetRefused, Begin, request
  <1>15. ASSUME NEW r \in Requests, ResetClaim(r)
       PROVE  Goal
    BY <1>15 DEF ResetClaim, Go, request
  <1>16. ASSUME NEW r \in Requests, NEW p \in Passwords, ResetCommit(r, p)
       PROVE  Goal
    <2>1. /\ users' = [users EXCEPT ![resets[target[r]].user].password = p]
          /\ UNCHANGED <<misses, read, mine>>
      BY <1>16 DEF ResetCommit
    <2>2. \A v \in Users : users[v] \in UserRow
      OBVIOUS
    <2>3. \A v \in Users : users'[v].failed = users[v].failed /\ users'[v].lockout = users[v].lockout
      BY <2>1, <2>2 DEF UserRow
    <2>4. QED
      BY <1>16, <2>1, <2>3 DEF ResetCommit, Go, request
  <1>17. ASSUME NEW u \in Users, NEW b \in BOOLEAN, BlockUser(u, b)
       PROVE  Goal
    <2>1. \A v \in Users : users[v] \in UserRow
      OBVIOUS
    <2>2. \A v \in Users : users'[v].failed = users[v].failed /\ users'[v].lockout = users[v].lockout
      BY <1>17, <2>1 DEF BlockUser, UserRow
    <2>3. QED
      BY <1>17, <2>2 DEF BlockUser, request
  <1>18. CASE Tick
    BY <1>18 DEF Tick, request
  <1>19. CASE UNCHANGED vars
    BY <1>19 DEF vars, request
  <1>20. CASE Next
    <2>1. CASE \E r \in Requests : Login(r)
      BY <2>1, <1>1, <1>2, <1>3, <1>4 DEF Login
    <2>2. CASE \E r \in Requests : Refresh(r)
      BY <2>2, <1>5, <1>6, <1>7, <1>8 DEF Refresh
    <2>3. CASE \E r \in Requests : Logout(r)
      BY <2>3, <1>9, <1>10, <1>11 DEF Logout
    <2>4. CASE \E r \in Requests : Reset(r)
      BY <2>4, <1>12, <1>13, <1>14, <1>15, <1>16 DEF Reset
    <2>5. QED
      BY <1>20, <2>1, <2>2, <2>3, <2>4, <1>17, <1>18 DEF Next
  <1>21. QED
    BY <1>19, <1>20

\* Logins that are apart after a step were apart before it.
LEMMA ApartBefore ==
  ASSUME SInv, [Next]_vars, NEW u \in Users, LoginsApart(u)'
  PROVE  LoginsApart(u)
  <1>1. RequestsKeep
    BY RequestsStep DEF SInv
  <1>2. \A r \in Requests : kind[r] = "login" =>
          kind'[r] = kind[r] /\ target'[r] = target[r] /\ before'[r] = before[r]
    BY <1>1 DEF SInv, HistoryInv, RequestsKeep
  <1>3. QED
    BY <1>2 DEF LoginsApart, Overlap

\* Two logins of one user that are both in progress overlap.
LEMMA OneJudged ==
  ASSUME SInv, NEW u \in Users, LoginsApart(u), NEW a \in Requests, NEW b \in Requests,
         Judged(a), Judged(b), target[a] = u, target[b] = u
  PROVE  a = b
  <1>1. kind[a] = "login" /\ kind[b] = "login"
    BY DEF Judged, SInv, TInv, TargetsExist
  <1>2. Overlap(a, b)
    BY DEF Judged, SInv, HistoryInv, Overlap
  <1>3. QED
    BY <1>1, <1>2 DEF LoginsApart

LEMMA LoginStep ==
  ASSUME SInv, LoginInv, [Next]_vars
  PROVE  LoginInv'
  <1> SUFFICES ASSUME NEW u \in Users, LoginsApart(u)'
               PROVE  /\ Counted(u)'
                      /\ \A r \in Requests : (Judged(r) /\ target[r] = u)' => Ready(r, u)'
    BY DEF LoginInv
  <1>1. /\ LoginsApart(u) /\ Counted(u)
        /\ \A r \in Requests : Judged(r) /\ target[r] = u => Ready(r, u)
    BY ApartBefore DEF LoginInv
  <1>2. RequestsKeep
    BY RequestsStep DEF SInv
  <1>3. /\ users[u] \in UserRow /\ misses[u] \in Nat /\ now \in Nat
        /\ \A r \in Requests : read[r] \in UserRow /\ mine[r] \in UserRow
    BY DEF SInv, TInv, TypeOK
  <1>4. CASE Quiet
    <2>1. Counted(u)'
      BY <1>1, <1>4 DEF Quiet, Counted
    <2>2. ASSUME NEW r \in Requests, (Judged(r) /\ target[r] = u)'
          PROVE  Ready(r, u)'
      <3>1. pc'[r] = pc[r] /\ target[r] = u /\ Judged(r)
        BY <1>2, <1>4, <2>2 DEF Quiet, Judged, RequestsKeep
      <3>2. QED
        BY <1>1, <1>4, <3>1 DEF Quiet, Ready
    <2>3. QED
      BY <2>1, <2>2
  <1>5. ASSUME NEW r \in Requests, NEW v \in Users, NEW p \in Passwords, LoginSelect(r, v, p)
        PROVE  /\ Counted(u)'
               /\ \A q \in Requests : (Judged(q) /\ target[q] = u)' => Ready(q, u)'
    <2>1. /\ users' = users /\ misses' = misses
          /\ read'[r] = users[v] /\ target'[r] = v
          /\ pc'[r] = IF p = users[v].password THEN "matched" ELSE "missed"
          /\ mine'[r] = IF p = users[v].password THEN Matched(users[v]) ELSE Missed(users[v])
          /\ \A q \in Requests \ {r} : /\ pc'[q] = pc[q] /\ target'[q] = target[q]
                                       /\ read'[q] = read[q] /\ mine'[q] = mine[q]
      BY <1>5 DEF LoginSelect, Begin, SInv, TInv, TypeOK
    <2>2. Counted(u)'
      BY <1>1, <2>1 DEF Counted
    <2>3. ASSUME NEW q \in Requests, q # r, (Judged(q) /\ target[q] = u)'
          PROVE  Ready(q, u)'
      BY <1>1, <2>1, <2>3 DEF Judged, Ready
    <2>4. ASSUME target'[r] = u
          PROVE  Ready(r, u)'
      <3>1. v = u
        BY <2>1, <2>4
      <3>2. Matched(users[u]).failed = 0 /\ Matched(users[u]).lockout = 0
        BY <1>3 DEF Matched, UserRow
      <3>3. /\ Missed(users[u]).failed = users[u].failed + 1
            /\ users[u].failed + 1 >= MaxLoginAttempts => Missed(users[u]).lockout = now + Lockout
            /\ users[u].failed + 1 < MaxLoginAttempts => Missed(users[u]).lockout = users[u].lockout
        BY <1>3 DEF Missed, UserRow
      <3>4. now + Lockout # 0
        BY <1>3
      <3>5. QED
        BY <2>1, <3>1, <3>2, <3>3, <3>4 DEF Ready
    <2>5. QED
      BY <2>2, <2>3, <2>4
  <1>6. ASSUME NEW r \in Requests, LoginCommit(r)
        PROVE  /\ Counted(u)'
               /\ \A q \in Requests : (Judged(q) /\ target[q] = u)' => Ready(q, u)'
    <2>1. /\ Judged(r) /\ target' = target
          /\ users' = [users EXCEPT ![target[r]] = Written(@, read[r], mine[r])]
          /\ misses' = [misses EXCEPT ![target[r]] = IF pc[r] = "missed" THEN @ + 1 ELSE 0]
          /\ ~Judged(r)'
          /\ \A q \in Requests \ {r} : pc'[q] = pc[q] /\ read'[q] = read[q] /\ mine'[q] = mine[q]
      BY <1>6 DEF LoginCommit, Go, request, Judged, SInv, TInv, TypeOK
    <2>2. CASE target[r] # u
      <3>1. users'[u] = users[u] /\ misses'[u] = misses[u]
        BY <2>1, <2>2 DEF SInv, TInv, TypeOK
      <3>2. QED
        BY <1>1, <2>1, <3>1 DEF Counted, Judged, Ready
    <2>3. CASE target[r] = u
      <3>1. Ready(r, u)
        BY <1>1, <2>1, <2>3
      <3>2. /\ users'[u] = Written(users[u], read[r], mine[r])
            /\ misses'[u] = IF pc[r] = "missed" THEN misses[u] + 1 ELSE 0
        BY <2>1, <2>3 DEF SInv, TInv, TypeOK
      <3>3. users'[u].failed = mine[r].failed /\ users'[u].lockout = mine[r].lockout
        BY <1>3, <3>1, <3>2 DEF Ready, Written, UserRow
      <3>4. Counted(u)'
        <4>1. CASE pc[r] = "missed"
          <5>1. users'[u].failed = misses'[u]
            BY <1>1, <3>1, <3>2, <3>3, <4>1 DEF Counted, Ready
          <5>2. misses'[u] = misses[u] + 1 /\ mine[r].failed = misses'[u]
            BY <3>2, <3>3, <4>1, <5>1
          <5>3. misses'[u] >= MaxLoginAttempts <=> mine[r].lockout # 0
            BY <1>1, <1>3, <3>1, <4>1, <5>2 DEF Counted, Ready
          <5>4. QED
            BY <3>3, <5>1, <5>3 DEF Counted
        <4>2. CASE pc[r] = "matched"
          BY <3>1, <3>2, <3>3, <4>2 DEF Counted, Ready
        <4>3. QED
          BY <2>1, <4>1, <4>2 DEF Judged
      <3>5. ASSUME NEW q \in Requests, (Judged(q) /\ target[q] = u)'
            PROVE  FALSE
        <4>1. q # r /\ Judged(q) /\ target[q] = u
          BY <2>1, <3>5 DEF Judged
        <4>2. QED
          BY <1>1, <2>1, <2>3, <4>1, OneJudged
      <3>6. QED
        BY <3>4, <3>5
    <2>4. QED
      BY <2>2, <2>3
  <1>7. QED
    BY <1>4, <1>5, <1>6, QuietOrLogin DEF SInv

\* Logins of one user that come one at a time are all counted, and lock the
\* account when there are enough.
THEOREM FailuresCounted == Spec => []FailuresAreCounted
  <1>1. Init => SInv /\ LoginInv
    <2> SUFFICES ASSUME Init
                 PROVE  LoginInv
      BY SessionsInductive
    <2>1. ASSUME NEW u \in Users
          PROVE  users[u].failed = 0 /\ users[u].lockout = 0 /\ misses[u] = 0
      BY DEF Init, NoRow
    <2>2. QED
      BY <2>1 DEF Init, LoginInv, Counted, Judged
  <1>2. SInv /\ LoginInv /\ [Next]_vars => SInv' /\ LoginInv'
    BY SessionsInductive, LoginStep
  <1>3. LoginInv => FailuresAreCounted
    BY DEF LoginInv, Counted, FailuresAreCounted
  <1>4. QED
    BY <1>1, <1>2, <1>3, PTL DEF Spec
=============================================================================
