---------------------------- MODULE AgentTokens ----------------------------
(***************************************************************************)
(* Tenants, their members and invitations, and the tokens of their agents: *)
(* the tenant service (handler/tenant.go, controller/tenant.go), its rows  *)
(* (repository/tenant.go, tenant_token.go, invite.go) and the two kinds of *)
(* authentication (auth/auth.go, auth/agent.go).                           *)
(*                                                                         *)
(* A user's call is verified and checks the membership, which is one step, *)
(* and then changes rows, each statement a step of its own; a call that is *)
(* refused changes nothing.  An agent's request is authenticated           *)
(* in two statements, LookupActiveByHash and TouchLastUsed, before its     *)
(* handler runs: a token may be revoked before, between and after them.    *)
(* Agents may hang at any moment; the server's side goes on.               *)
(***************************************************************************)
EXTENDS Integers, FiniteSets

CONSTANTS
  User, Verified,     \* callers, and those whose bearer token Clerk accepts
  Tenant,             \* slugs that pass slugRE
  Token, Email,
  Agent, TokenOf,     \* TokenOf[a]: the token a was installed with
  StaleAfter,         \* ticks without a heartbeat until a session is stale
  Ahead,              \* how far an agent's clock may be ahead, in ticks
  None

ASSUME TokenAssumption ==
  /\ TokenOf \in [Agent -> Token]
  /\ StaleAfter \in Nat \ {0} /\ Ahead \in Nat
  /\ Verified \subseteq User
  /\ None \notin User \cup Tenant \cup Token

VARIABLES
  owner,          \* owner[t]: the user a tenant was created by, or None
  token,          \* token[k]: the row [tenant, issuer, revoker], None if unset
  used,           \* tokens with a last_used_at
  invited,        \* rows of tenant_invites: <<tenant, email, created_by>>
  call,           \* call[u]: what u, found to be a member, is about to do
  opening,        \* opening[a]: step of its OpenCommandStream request
  stream,         \* stream[a]: its session is active
  beat,           \* beat[a]: step of its Heartbeat request
  fresh           \* fresh[a]: ticks until its session is stale

rows == <<owner, token, used, invited>>
agentVars == <<opening, stream, beat, fresh>>
vars == <<rows, call, agentVars>>

NoRow == [tenant |-> None, issuer |-> None, revoker |-> None]
NoCall == [op |-> "none", tenant |-> None, token |-> None, emails |-> {}]

Init ==
  /\ owner = [t \in Tenant |-> None]
  /\ token = [k \in Token |-> NoRow]
  /\ used = {} /\ invited = {}
  /\ call = [u \in User |-> NoCall]
  /\ opening = [a \in Agent |-> "none"]
  /\ stream = [a \in Agent |-> FALSE]
  /\ beat = [a \in Agent |-> "none"]
  /\ fresh = [a \in Agent |-> 0]

Issued(k) == token[k].tenant # None
Active(k) == Issued(k) /\ token[k].revoker = None
Revoked(k) == token[k].revoker # None

-----------------------------------------------------------------------------
(* The tenant service.                                                     *)

Answer(u) == call' = [call EXCEPT ![u] = NoCall]

\* RequireAuth: nobody gets further without a login that Clerk verifies.
RequireAuth(u) == u \in Verified

\* A call that names a user; one at a time for each.
requireUser(u) == call[u] = NoCall /\ RequireAuth(u)

\* GetMembership.
Member(t, u) == owner[t] = u

\* The lists of addresses a call may go on with: one that holds anything but
\* addresses is refused as a whole.
normalizeInviteEmails == SUBSET Email

EnsureMembership(u) ==
  /\ requireUser(u)
  /\ \E op \in {"issue", "revoke", "invite"}, t \in Tenant :
       \E k \in IF op = "revoke" THEN Token ELSE {None},
          es \in IF op = "invite" THEN normalizeInviteEmails ELSE {{}} :
         /\ Member(t, u)
         /\ call' = [call EXCEPT ![u] = [op |-> op, tenant |-> t, token |-> k,
                                         emails |-> es]]
  /\ UNCHANGED <<rows, agentVars>>

\* The tenant and its owner in one transaction; a slug that is taken fails it.
CreateWithOwner(t, u) == owner[t] = None /\ owner' = [owner EXCEPT ![t] = u]

CreateTenant(u) ==
  /\ requireUser(u)
  /\ \E t \in Tenant : CreateWithOwner(t, u)
  /\ UNCHANGED <<token, used, invited, call, agentVars>>

\* The plaintext is random, so no two rows share a hash.
generateToken == {k \in Token : ~Issued(k)}

InsertToken(k, t, u) ==
  token' = [token EXCEPT ![k] = [tenant |-> t, issuer |-> u, revoker |-> None]]

IssueAgentToken(u) ==
  /\ call[u].op = "issue"
  /\ \E k \in generateToken : InsertToken(k, call[u].tenant, u)
  /\ Answer(u)
  /\ UNCHANGED <<owner, used, invited, agentVars>>

\* Fault: the tenant is not part of the condition.
Revocable_AnyTenant(t, k) == Active(k)

\* WHERE id = k AND tenant_id = t AND revoked_at IS NULL
Revocable(t, k) == Active(k) /\ token[k].tenant = t

RevokeAgentToken(u) ==
  LET k == call[u].token
  IN /\ call[u].op = "revoke"
     /\ token' = IF Revocable(call[u].tenant, k) THEN [token EXCEPT ![k].revoker = u]
                 ELSE token
     /\ Answer(u)
     /\ UNCHANGED <<owner, used, invited, agentVars>>

\* CreateMany inserts one address after the other, without a transaction; an
\* address that is there already stays as it is.
InviteNext(u) ==
  /\ call[u].op = "invite" /\ call[u].emails # {}
  /\ \E e \in call[u].emails :
       /\ invited' = IF \E i \in invited : i[1] = call[u].tenant /\ i[2] = e
                      THEN invited ELSE invited \cup {<<call[u].tenant, e, u>>}
       /\ call' = [call EXCEPT ![u].emails = @ \ {e}]
  /\ UNCHANGED <<owner, token, used, agentVars>>

InviteDone(u) ==
  /\ call[u].op = "invite" /\ call[u].emails = {}
  /\ Answer(u)
  /\ UNCHANGED <<rows, agentVars>>

\* A statement fails, the caller is gone, or the wizard is not done when
\* somebody is invited: nothing is undone.
CallFails(u) ==
  /\ call[u].op # "none"
  /\ Answer(u)
  /\ UNCHANGED <<rows, agentVars>>

-----------------------------------------------------------------------------
(* The agents.                                                             *)

\* LookupActiveByHash.
LookupActive(a) == Active(TokenOf[a])

\* Fault: TouchLastUsed finds revoked rows too, and so does the lookup.
Authentic_EverIssued(a) == Issued(TokenOf[a])

\* The condition of both statements.
Authentic(a) == LookupActive(a)

\* OpenCommandStream is sent, one request at a time; the stream of an earlier
\* connection may still look alive to the server.
Open(a) ==
  /\ opening[a] = "none"
  /\ opening' = [opening EXCEPT ![a] = "lookup"]
  /\ UNCHANGED <<rows, call, stream, beat, fresh>>

\* RequireAgentToken, one statement at a time: 401 ends the request.
OpenLookup(a) ==
  /\ opening[a] = "lookup"
  /\ opening' = [opening EXCEPT ![a] = IF Authentic(a) THEN "touch" ELSE "none"]
  /\ UNCHANGED <<rows, call, stream, beat, fresh>>

OpenTouch(a) ==
  /\ opening[a] = "touch"
  /\ opening' = [opening EXCEPT ![a] = IF Authentic(a) THEN "register" ELSE "none"]
  /\ used' = IF Authentic(a) THEN used \cup {TokenOf[a]} ELSE used
  /\ UNCHANGED <<owner, token, invited, call, stream, beat, fresh>>

\* A statement fails: 500 ends the request.
OpenFails(a) ==
  /\ opening[a] \in {"lookup", "touch"}
  /\ opening' = [opening EXCEPT ![a] = "none"]
  /\ UNCHANGED <<rows, call, stream, beat, fresh>>

\* RegisterSession, replacing the session of the token; from now on commands
\* may be sent.
Register(a) ==
  /\ opening[a] = "register"
  /\ opening' = [opening EXCEPT ![a] = "none"]
  /\ stream' = [stream EXCEPT ![a] = TRUE]
  /\ fresh' = [fresh EXCEPT ![a] = StaleAfter]
  /\ UNCHANGED <<rows, call, beat>>

\* The agent sends a heartbeat, one at a time.
Beat(a) ==
  /\ stream[a] /\ beat[a] = "none"
  /\ beat' = [beat EXCEPT ![a] = "lookup"]
  /\ UNCHANGED <<rows, call, opening, stream, fresh>>

\* A heartbeat that is refused, 401 or 500, makes the agent close its stream,
\* if it is still there to do so.
BeatRefused(a) ==
  /\ beat' = [beat EXCEPT ![a] = "none"]
  /\ stream' \in {stream, [stream EXCEPT ![a] = FALSE]}

BeatLookup(a) ==
  /\ beat[a] = "lookup"
  /\ \/ Authentic(a) /\ beat' = [beat EXCEPT ![a] = "touch"] /\ UNCHANGED stream
     \/ BeatRefused(a)
  /\ UNCHANGED <<rows, call, opening, fresh>>

BeatTouch(a) ==
  /\ beat[a] = "touch"
  /\ \/ /\ Authentic(a)
        /\ used' = used \cup {TokenOf[a]}
        /\ beat' = [beat EXCEPT ![a] = "mark"]
        /\ UNCHANGED stream
     \/ UNCHANGED used /\ BeatRefused(a)
  /\ UNCHANGED <<owner, token, invited, call, opening, fresh>>

\* MarkHeartbeat stores the agent's own time, which may be ahead or behind.
\* The process keeps its session id over reconnections, so a heartbeat sent
\* on an earlier stream counts for the current one.
Mark(a) ==
  /\ beat[a] = "mark"
  /\ beat' = [beat EXCEPT ![a] = "none"]
  /\ IF stream[a]
       THEN \E left \in 0 .. StaleAfter + Ahead : fresh' = [fresh EXCEPT ![a] = left]
       ELSE UNCHANGED fresh
  /\ UNCHANGED <<rows, call, opening, stream>>

\* The agent, the connection or the server closes the stream.
Close(a) ==
  /\ stream[a]
  /\ stream' = [stream EXCEPT ![a] = FALSE]
  /\ UNCHANGED <<rows, call, opening, beat, fresh>>

Tick ==
  /\ \E a \in Agent : fresh[a] > 0
  /\ fresh' = [a \in Agent |-> IF fresh[a] > 0 THEN fresh[a] - 1 ELSE 0]
  /\ UNCHANGED <<rows, call, opening, stream, beat>>

-----------------------------------------------------------------------------
UserStep(u) ==
  \/ EnsureMembership(u) \/ CreateTenant(u) \/ IssueAgentToken(u)
  \/ RevokeAgentToken(u) \/ InviteNext(u) \/ InviteDone(u) \/ CallFails(u)

\* The server's part in an agent's requests.
Serve(a) ==
  \/ OpenLookup(a) \/ OpenTouch(a) \/ OpenFails(a) \/ Register(a)
  \/ BeatLookup(a) \/ BeatTouch(a) \/ Mark(a)

Next ==
  \/ \E u \in User : UserStep(u)
  \/ \E a \in Agent : Open(a) \/ Beat(a) \/ Serve(a) \/ Close(a)
  \/ Tick

\* Time passes, and the server carries out the requests it has; nothing is
\* assumed of the agents, which may hang with their stream open.
Fairness == WF_vars(Tick) /\ \A a \in Agent : WF_vars(Serve(a))

Spec == Init /\ [][Next]_vars
FairSpec == Spec /\ Fairness

-----------------------------------------------------------------------------
(* Properties.                                                             *)

\* Every variable keeps its type.
TypeOK ==
  /\ owner \in [Tenant -> User \cup {None}]
  /\ token \in [Token -> [tenant : Tenant \cup {None}, issuer : User \cup {None},
                          revoker : User \cup {None}]]
  /\ used \subseteq Token
  /\ invited \subseteq Tenant \X Email \X User
  /\ call \in [User -> [op : {"none", "issue", "revoke", "invite"},
                        tenant : Tenant \cup {None}, token : Token \cup {None},
                        emails : SUBSET Email]]
  /\ opening \in [Agent -> {"none", "lookup", "touch", "register"}]
  /\ stream \in [Agent -> BOOLEAN]
  /\ beat \in [Agent -> {"none", "lookup", "touch", "mark"}]
  /\ fresh \in [Agent -> 0 .. StaleAfter + Ahead]

\* Tokens are in the hands of their tenant: whoever issued one, revoked one or
\* invited somebody is a member of the tenant the row belongs to, whatever
\* identifiers the calls of different users named.
RowsAreTheTenantsOwn ==
  /\ \A k \in Token :
       /\ Issued(k) => Member(token[k].tenant, token[k].issuer)
       /\ Revoked(k) => Member(token[k].tenant, token[k].revoker)
       /\ k \in used => Issued(k)
  /\ \A i \in invited : Member(i[1], i[3])

\* Commands may be sent to an agent while its session is online.
Online(a) == stream[a] /\ fresh[a] > 0

\* After its token is revoked an agent is cut off for good, even one that
\* hangs with its stream open, and whatever of its requests was on its way
\* through authentication when the revocation came.
RevocationCutsOff ==
  \A a \in Agent : Revoked(TokenOf[a]) ~> []~Online(a)
=============================================================================
