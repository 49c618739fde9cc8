----------------------------- MODULE MCSsoFlow -----------------------------
(***************************************************************************)
(* Instances of SsoFlow: two organizations, a person of the domain that    *)
(* the configuration allows and one of another, and groups that map to two *)
(* teams, in either order, to none, or to what is no team id.              *)
(***************************************************************************)
EXTENDS SsoFlow, TLC
CONSTANTS r1, r2, r3, o1, o2, ann, bob, home, away, g1, g2, g3, g4, t1, t2

MCDomainOf(e) == IF e = ann THEN home ELSE away

MCConfigs ==
  {[domains |-> {home}, teams |-> (g1 :> t1 @@ g2 :> t2 @@ g3 :> None @@ g4 :> Malformed)]}

MCGroupLists == {<<>>, <<g1, g2>>, <<g2, g3, g1>>, <<g2, g2>>, <<g1, g4>>}

\* While ann logs in, other routes create her account, and make her a member of
\* an organization and of a team.
MCGifts == {<<ann, Account>>, <<ann, o1>>, <<ann, t1>>}

\* Two browsers are at the IdP: for the same organization, which ann has
\* joined if she has an account, or for two of which she is not a member.
Starts ==
  /\ Init
  /\ users[bob] = "absent"
  /\ config[o1] # None /\ config[o2] # None
  /\ teamMember = {}
  /\ \/ /\ store = <<o1, o1>>
        /\ orgMember = {<<e, o1>> : e \in {x \in Emails : users[x] = "password"}}
     \/ /\ store = <<o1, o2>>
        /\ users[ann] = "password" /\ orgMember = {}

MCSpec == Starts /\ [][Next]_vars /\ \A r \in Requests : WF_vars(Login(r))
=============================================================================
