------------------------- MODULE AgentTokensProofs -------------------------
(***************************************************************************)
(* Proofs about AgentTokens.  A user's call acts on what EnsureMembership  *)
(* found a statement earlier, so RowsAreTheTenantsOwn is not inductive: it *)
(* is strengthened by CallsAreMembers, which holds because a membership is *)
(* never taken away.                                                       *)
(***************************************************************************)
EXTENDS AgentTokens, TLAPS

\* A user whose call is past EnsureMembership is still a member.
CallsAreMembers ==
  \A u \in User : call[u].op # "none" => Member(call[u].tenant, u)

\* Its tenant exists.
CallsHaveTenants == \A u \in User : call[u].op # "none" => call[u].tenant \in Tenant

\* A token that is issued has an issuer, and one that is revoked was issued.
TokensAreWhole ==
  \A k \in Token : /\ Issued(k) => token[k].issuer \in User
                   /\ Revoked(k) => Issued(k)

RInv ==
  TypeOK /\ CallsHaveTenants /\ CallsAreMembers /\ TokensAreWhole /\ RowsAreTheTenantsOwn

\* A revoked token stays revoked, and no request that comes to a statement of
\* RequireAgentToken after the revocation gets past it.
NoNewAdmission ==
  [][\A a \in Agent : Revoked(TokenOf[a]) =>
       /\ Revoked(TokenOf[a])'
       /\ opening'[a] = "register" => opening[a] = "register"
       /\ beat'[a] = "mark" => beat[a] = "mark"]_vars

-----------------------------------------------------------------------------
\* The initial state satisfies the invariant.
LEMMA InitRInv == Init => RInv
BY TokenAssumption DEF Init, RInv, TypeOK, CallsHaveTenants, CallsAreMembers, TokensAreWhole,
   RowsAreTheTenantsOwn, NoRow,
   NoCall, Issued, Revoked

\* What a step of a user's call does to the types.
LEMMA UserTypes ==
  ASSUME TypeOK, CallsHaveTenants, NEW u \in User, UserStep(u) PROVE TypeOK'
<1>1. CASE EnsureMembership(u)
  BY <1>1 DEF EnsureMembership, normalizeInviteEmails, TypeOK, rows, agentVars
<1>2. CASE CreateTenant(u)
  BY <1>2 DEF CreateTenant, CreateWithOwner, TypeOK, agentVars
<1>3. CASE IssueAgentToken(u)
  BY <1>3 DEF IssueAgentToken, InsertToken, generateToken, TypeOK, agentVars, Answer, NoCall
<1>4. CASE RevokeAgentToken(u)
  BY <1>4 DEF RevokeAgentToken, TypeOK, agentVars, Answer, NoCall
<1>5. CASE InviteNext(u)
  <2>1. PICK e \in call[u].emails :
          /\ invited' = invited \/ invited' = invited \cup {<<call[u].tenant, e, u>>}
          /\ call' = [call EXCEPT ![u].emails = @ \ {e}]
    BY <1>5 DEF InviteNext
  <2>2. call' \in [User -> [op : {"none", "issue", "revoke", "invite"},
                        tenant : Tenant \cup {None}, token : Token \cup {None},
                        emails : SUBSET Email]]
    <3>1. call[u] \in [op : {"none", "issue", "revoke", "invite"},
                       tenant : Tenant \cup {None}, token : Token \cup {None},
                       emails : SUBSET Email]
      BY DEF TypeOK
    <3>2. [call[u] EXCEPT !.emails = @ \ {e}] \in
            [op : {"none", "issue", "revoke", "invite"},
             tenant : Tenant \cup {None}, token : Token \cup {None}, emails : SUBSET Email]
      BY <3>1
    <3>3. call' = [call EXCEPT ![u] = [call[u] EXCEPT !.emails = @ \ {e}]]
      BY <2>1
    <3> QED BY <3>2, <3>3 DEF TypeOK
  <2>3. invited' \subseteq Tenant \X Email \X User
    <3>1. call[u].tenant \in Tenant /\ e \in Email
      BY <1>5, <2>1, TokenAssumption DEF InviteNext, TypeOK, CallsHaveTenants
    <3> QED BY <2>1, <3>1 DEF TypeOK
  <2> QED BY <1>5, <2>2, <2>3 DEF InviteNext, TypeOK, agentVars
<1>6. CASE InviteDone(u)
  BY <1>6 DEF InviteDone, TypeOK, rows, agentVars, Answer, NoCall
<1>7. CASE CallFails(u)
  BY <1>7 DEF CallFails, TypeOK, rows, agentVars, Answer, NoCall
<1> QED BY <1>1, <1>2, <1>3, <1>4, <1>5, <1>6, <1>7 DEF UserStep

AgentStep(a) == Open(a) \/ Beat(a) \/ Serve(a) \/ Close(a)

\* What an agent's request does to the types.
LEMMA AgentTypes == ASSUME TypeOK, NEW a \in Agent, AgentStep(a) PROVE TypeOK'
<1> USE TokenAssumption DEF TypeOK, rows
<1>1. CASE Open(a) BY <1>1 DEF Open
<1>2. CASE Beat(a) BY <1>2 DEF Beat
<1>3. CASE Close(a) BY <1>3 DEF Close
<1>4. CASE OpenLookup(a) BY <1>4 DEF OpenLookup
<1>5. CASE OpenTouch(a) BY <1>5 DEF OpenTouch
<1>6. CASE OpenFails(a) BY <1>6 DEF OpenFails
<1>7. CASE Register(a) BY <1>7 DEF Register
<1>8. CASE BeatLookup(a) BY <1>8 DEF BeatLookup, BeatRefused
<1>9. CASE BeatTouch(a)
  <2>1. used' \subseteq Token
    BY <1>9 DEF BeatTouch
  <2>2. beat' \in [Agent -> {"none", "lookup", "touch", "mark"}]
    BY <1>9 DEF BeatTouch, BeatRefused
  <2>3. stream' \in [Agent -> BOOLEAN]
    BY <1>9 DEF BeatTouch, BeatRefused
  <2> QED BY <1>9, <2>1, <2>2, <2>3 DEF BeatTouch
<1>10. CASE Mark(a) BY <1>10 DEF Mark
<1> QED BY <1>1, <1>2, <1>3, <1>4, <1>5, <1>6, <1>7, <1>8, <1>9, <1>10 DEF AgentStep, Serve

\* Every step keeps the types.
LEMMA NextTypes == ASSUME TypeOK, CallsHaveTenants, [Next]_vars PROVE TypeOK'
<1>1. CASE \E u \in User : UserStep(u)
  BY <1>1, UserTypes
<1>2. CASE \E a \in Agent : AgentStep(a)
  BY <1>2, AgentTypes
<1>3. CASE Tick
  BY <1>3, TokenAssumption DEF Tick, TypeOK, rows
<1>4. CASE UNCHANGED vars
  BY <1>4 DEF vars, rows, agentVars, TypeOK
<1> QED BY <1>1, <1>2, <1>3, <1>4 DEF Next, AgentStep

\* A membership is never taken away.
LEMMA MembersStay ==
  ASSUME TypeOK, [Next]_vars, NEW t \in Tenant, NEW u \in User, Member(t, u)
  PROVE  Member(t, u)'
<1>1. CASE \E v \in User : CreateTenant(v)
  BY <1>1, TokenAssumption DEF CreateTenant, CreateWithOwner, Member, TypeOK
<1>2. CASE ~ \E v \in User : CreateTenant(v)
  <2>1. owner' = owner
    BY <1>2 DEF Next, UserStep, EnsureMembership, IssueAgentToken, RevokeAgentToken,
       InviteNext, InviteDone, CallFails, Open, Beat, Serve, Close, OpenLookup, OpenTouch,
       OpenFails, Register, BeatLookup, BeatTouch, Mark, Tick, rows, vars
  <2> QED BY <2>1 DEF Member
<1> QED BY <1>1, <1>2

\* Agents and time leave every row alone but the use of a token, which only
\* an active one gets.
LEMMA AgentRows ==
  ASSUME TypeOK, (\E a \in Agent : AgentStep(a)) \/ Tick \/ UNCHANGED vars
  PROVE  /\ UNCHANGED <<owner, token, invited, call>>
         /\ \A k \in used' : k \in used \/ Issued(k)
<1>1. CASE \E a \in Agent : AgentStep(a)
  <2>1. PICK a \in Agent : AgentStep(a)
    BY <1>1
  <2>2. CASE OpenTouch(a)
    BY <2>2 DEF OpenTouch, Authentic, LookupActive, Active
  <2>3. CASE BeatTouch(a)
    BY <2>3 DEF BeatTouch, Authentic, LookupActive, Active
  <2>4. CASE ~OpenTouch(a) /\ ~BeatTouch(a)
    BY <2>1, <2>4 DEF AgentStep, Open, Beat, Serve, Close, OpenLookup, OpenFails, Register,
       BeatLookup, Mark, rows
  <2> QED BY <2>2, <2>3, <2>4
<1>2. CASE Tick \/ UNCHANGED vars
  BY <1>2 DEF Tick, rows, vars
<1> QED BY <1>1, <1>2

\* The calls under way stay calls of members on a tenant.
LEMMA CallsKept ==
  ASSUME TypeOK, CallsHaveTenants, CallsAreMembers, [Next]_vars
  PROVE  CallsHaveTenants' /\ CallsAreMembers'
<1> SUFFICES ASSUME NEW v \in User, call'[v].op # "none"
             PROVE  call'[v].tenant \in Tenant /\ owner'[call'[v].tenant] = v
  BY DEF CallsHaveTenants, CallsAreMembers, Member
<1>1. SUFFICES call'[v].tenant \in Tenant /\ Member(call'[v].tenant, v)
  <2>1. ASSUME NEW t \in Tenant, Member(t, v) PROVE owner'[t] = v
    BY <2>1, MembersStay DEF Member
  <2> QED BY <2>1
<1>2. CASE call'[v].op = call[v].op /\ call'[v].tenant = call[v].tenant
  BY <1>2 DEF CallsHaveTenants, CallsAreMembers
<1>3. CASE \E u \in User : EnsureMembership(u)
  <2>1. PICK u \in User : EnsureMembership(u)
    BY <1>3
  <2>2. CASE u = v
    BY <2>1, <2>2 DEF EnsureMembership, TypeOK
  <2>3. CASE u # v
    BY <1>2, <2>1, <2>3 DEF EnsureMembership, TypeOK
  <2> QED BY <2>2, <2>3
<1>4. CASE \E u \in User : UserStep(u) /\ ~EnsureMembership(u)
  <2>1. PICK u \in User : UserStep(u) /\ ~EnsureMembership(u)
    BY <1>4
  <2>2. CASE UNCHANGED call
    BY <1>2, <2>2
  <2>3. CASE call' = [call EXCEPT ![u] = NoCall]
    BY <1>2, <2>3 DEF NoCall, TypeOK
  <2>4. CASE InviteNext(u)
    <3>1. PICK e \in Email : call' = [call EXCEPT ![u].emails = @ \ {e}]
      BY <2>4 DEF InviteNext, TypeOK
    <3> QED BY <1>2, <3>1 DEF TypeOK
  <2> QED
    BY <2>1, <2>2, <2>3, <2>4 DEF UserStep, CreateTenant, IssueAgentToken, RevokeAgentToken,
       InviteDone, CallFails, Answer
<1>5. CASE (\E a \in Agent : AgentStep(a)) \/ Tick \/ UNCHANGED vars
  BY <1>2, <1>5, AgentRows
<1> QED BY <1>3, <1>4, <1>5 DEF Next, AgentStep

\* The two parts of the invariant about one token, and about one invitation.
TokenOwn(k) ==
  /\ Issued(k) => token[k].issuer \in User /\ Member(token[k].tenant, token[k].issuer)
  /\ Revoked(k) => Issued(k) /\ Member(token[k].tenant, token[k].revoker)
  /\ k \in used => Issued(k)

\* They are the last two conjuncts of the invariant.
LEMMA Parts ==
  TokensAreWhole /\ RowsAreTheTenantsOwn
    <=> (\A k \in Token : TokenOwn(k)) /\ (\A i \in invited : Member(i[1], i[3]))
BY DEF TokensAreWhole, RowsAreTheTenantsOwn, TokenOwn

\* A token that no step wrote stays its tenant's.
LEMMA TokenStays ==
  ASSUME TypeOK, [Next]_vars, NEW k \in Token, TokenOwn(k), token'[k] = token[k],
         k \in used' => k \in used \/ Issued(k)
  PROVE  TokenOwn(k)'
<1>1. ASSUME NEW t \in Tenant, NEW v \in User, owner[t] = v PROVE owner'[t] = v
  BY <1>1, MembersStay DEF Member
<1> QED BY <1>1, TokenAssumption DEF TokenOwn, Issued, Revoked, Member, TypeOK

\* So does an invitation.
LEMMA InviteStays ==
  ASSUME TypeOK, [Next]_vars, NEW i \in invited, Member(i[1], i[3]) PROVE Member(i[1], i[3])'
<1>1. i[1] \in Tenant /\ i[3] \in User
  BY DEF TypeOK
<1> QED BY <1>1, MembersStay

\* A statement of a call writes rows of the caller's own tenant.
LEMMA UserRows ==
  ASSUME RInv, NEW u \in User, UserStep(u)
  PROVE  (TokensAreWhole /\ RowsAreTheTenantsOwn)'
<1> SUFFICES (\A k \in Token : TokenOwn(k)') /\ (\A i \in invited' : owner'[i[1]] = i[3])
  BY DEF TokensAreWhole, RowsAreTheTenantsOwn, TokenOwn, Member
<1> USE DEF RInv
<1>0. /\ [Next]_vars
      /\ \A k \in Token : TokenOwn(k)
      /\ \A i \in invited : Member(i[1], i[3])
      /\ used' = used
  BY Parts DEF Next, UserStep, CreateTenant, IssueAgentToken, RevokeAgentToken,
     EnsureMembership, InviteNext, InviteDone, CallFails, rows
<1>1. ASSUME NEW k \in Token PROVE TokenOwn(k)'
  <2>1. CASE token'[k] = token[k]
    BY <1>0, <2>1, TokenStays
  <2>2. CASE IssueAgentToken(u) /\ token'[k] # token[k]
    <3>1. /\ token'[k] = [tenant |-> call[u].tenant, issuer |-> u, revoker |-> None]
          /\ call[u].op = "issue" /\ owner' = owner
      BY <2>2 DEF IssueAgentToken, InsertToken, generateToken, TypeOK
    <3>2. call[u].tenant \in Tenant /\ owner[call[u].tenant] = u
      BY <3>1 DEF CallsHaveTenants, CallsAreMembers, Member
    <3> QED BY <3>1, <3>2, TokenAssumption DEF TokenOwn, Issued, Revoked, Member
  <2>3. CASE RevokeAgentToken(u) /\ token'[k] # token[k]
    <3>1. /\ Revocable(call[u].tenant, k) /\ token' = [token EXCEPT ![k].revoker = u]
          /\ call[u].op = "revoke" /\ owner' = owner
      BY <2>3 DEF RevokeAgentToken, TypeOK
    <3>2. owner[token[k].tenant] = u
      BY <3>1 DEF Revocable, CallsAreMembers, Member
    <3>3. token'[k] = [token[k] EXCEPT !.revoker = u]
      BY <3>1 DEF TypeOK
    <3>4. /\ token'[k].tenant = token[k].tenant
          /\ token'[k].issuer = token[k].issuer
          /\ token'[k].revoker = u
      BY <3>3 DEF TypeOK
    <3> QED BY <1>0, <3>1, <3>2, <3>4 DEF TokenOwn, Issued, Revoked, Member, Revocable, Active
  <2>4. CASE ~IssueAgentToken(u) /\ ~RevokeAgentToken(u)
    <3>1. token' = token
      BY <2>4 DEF UserStep, CreateTenant, EnsureMembership, InviteNext, InviteDone,
         CallFails, rows
    <3> QED BY <2>1, <3>1
  <2> QED BY <2>1, <2>2, <2>3, <2>4
<1>2. ASSUME NEW i \in invited' PROVE owner'[i[1]] = i[3]
  <2>1. CASE i \in invited
    BY <1>0, <2>1, InviteStays DEF Member
  <2>2. CASE i \notin invited
    <3>1. InviteNext(u)
      BY <2>2 DEF UserStep, CreateTenant, IssueAgentToken, RevokeAgentToken,
         EnsureMembership, InviteDone, CallFails, rows
    <3>2. i[1] = call[u].tenant /\ i[3] = u /\ owner' = owner /\ call[u].op = "invite"
      BY <2>2, <3>1 DEF InviteNext
    <3> QED BY <3>2 DEF CallsAreMembers, Member
  <2> QED BY <2>1, <2>2
<1> QED BY <1>1, <1>2

\* Every step keeps the invariant.
LEMMA NextRInv == ASSUME RInv, [Next]_vars PROVE RInv'
<1>1. TypeOK' /\ CallsHaveTenants' /\ CallsAreMembers'
  BY NextTypes, CallsKept DEF RInv
<1>2. (TokensAreWhole /\ RowsAreTheTenantsOwn)'
  <2>1. CASE \E u \in User : UserStep(u)
    BY <2>1, UserRows
  <2>2. CASE (\E a \in Agent : AgentStep(a)) \/ Tick \/ UNCHANGED vars
    <3>1. /\ UNCHANGED <<owner, token, invited, call>>
          /\ \A k \in used' : k \in used \/ Issued(k)
      BY <2>2, AgentRows DEF RInv
    <3> QED BY <3>1 DEF RInv, TokensAreWhole, RowsAreTheTenantsOwn, Issued, Revoked, Member
  <2> QED BY <2>1, <2>2 DEF Next, AgentStep
<1> QED BY <1>1, <1>2 DEF RInv

-----------------------------------------------------------------------------
\* The state of the token service keeps its types, whatever the calls.
THEOREM TokenTypes == Spec => []TypeOK
<1>1. RInv => TypeOK
  BY DEF RInv
<1> QED BY <1>1, InitRInv, NextRInv, PTL DEF Spec

\* For any number of users, tenants, tokens and addresses: only members issue,
\* revoke and invite for a tenant, although the membership was looked up a
\* statement before the row is written.
THEOREM OwnRows == Spec => []RowsAreTheTenantsOwn
<1>1. RInv => RowsAreTheTenantsOwn
  BY DEF RInv
<1> QED BY <1>1, InitRInv, NextRInv, PTL DEF Spec

\* Once a token is revoked, what has not passed RequireAgentToken never does.
THEOREM RevokedIsRefused == Spec => NoNewAdmission
<1>1. ASSUME RInv, [Next]_vars, NEW a \in Agent, Revoked(TokenOf[a])
      PROVE  /\ Revoked(TokenOf[a])'
             /\ opening'[a] = "register" => opening[a] = "register"
             /\ beat'[a] = "mark" => beat[a] = "mark"
  <2> DEFINE k == TokenOf[a]
  <2>0. k \in Token /\ ~Active(k) /\ Issued(k)
    BY <1>1, TokenAssumption DEF Active, Revoked, RInv, TokensAreWhole
  <2>1. CASE \E u \in User : UserStep(u)
    <3>1. PICK u \in User : UserStep(u)
      BY <2>1
    <3>2. UNCHANGED agentVars
      BY <3>1 DEF UserStep, CreateTenant, IssueAgentToken, RevokeAgentToken,
         EnsureMembership, InviteNext, InviteDone, CallFails
    <3>3. token'[k] = token[k]
      BY <1>1, <2>0, <3>1 DEF UserStep, CreateTenant, IssueAgentToken, RevokeAgentToken,
         EnsureMembership, InviteNext, InviteDone, CallFails, rows, Revocable, InsertToken,
         generateToken, RInv, TypeOK
    <3> QED BY <1>1, <3>2, <3>3 DEF agentVars, Revoked
  <2>2. CASE \E b \in Agent : AgentStep(b)
    <3>1. PICK b \in Agent : AgentStep(b)
      BY <2>2
    <3>2. token' = token
      BY <1>1, <2>2, AgentRows DEF RInv
    <3>3. ~Authentic(a)
      BY <2>0 DEF Authentic, LookupActive
    <3>4. opening'[a] = "register" => opening[a] = "register"
      BY <1>1, <3>1, <3>3 DEF AgentStep, Open, Beat, Serve, Close, OpenLookup, OpenTouch, OpenFails,
         Register, BeatLookup, BeatTouch, Mark, RInv, TypeOK
    <3>5. beat'[a] = "mark" => beat[a] = "mark"
      BY <1>1, <3>1, <3>3 DEF AgentStep, Open, Beat, Serve, Close, OpenLookup, OpenTouch, OpenFails,
         Register, BeatLookup, BeatTouch, BeatRefused, Mark, RInv, TypeOK
    <3> QED BY <1>1, <3>2, <3>4, <3>5 DEF Revoked
  <2>3. CASE Tick \/ UNCHANGED vars
    BY <1>1, <2>3 DEF Tick, vars, rows, agentVars, Revoked
  <2> QED BY <1>1, <2>1, <2>2, <2>3 DEF Next, AgentStep
<1>2. RInv /\ [Next]_vars =>
        [\A a \in Agent : Revoked(TokenOf[a]) =>
           /\ Revoked(TokenOf[a])'
           /\ opening'[a] = "register" => opening[a] = "register"
           /\ beat'[a] = "mark" => beat[a] = "mark"]_vars
  BY <1>1
<1> QED BY <1>2, InitRInv, NextRInv, PTL DEF Spec, NoNewAdmission
=============================================================================
