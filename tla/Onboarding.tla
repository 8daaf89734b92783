----------------------------- MODULE Onboarding -----------------------------
(***************************************************************************)
(* The seven steps that bring a workspace to its first question:           *)
(* OnboardingController (controller/onboarding.go) and the one row of      *)
(* tenant_onboarding_state it keeps per tenant (repository/onboarding.go). *)
(*                                                                         *)
(* Every handler reads the row, works on its copy, perhaps calls an agent  *)
(* or issues a token meanwhile, and then writes step and payload back as a *)
(* whole.  Nothing ties the write to the read, and handlers overlap: the   *)
(* browser polls the connection status every five seconds, and looking at  *)
(* the state of the wizard writes it as well.                              *)
(*                                                                         *)
(* Of the payload, the model keeps what guards, writes or gives away later *)
(* steps; names, hosts and counts are left out, and so are invites.        *)
(***************************************************************************)
EXTENDS Integers

CONSTANTS
  Request,      \* handlers that can be under way at a time
  Poller,       \* those of them that serve an open install screen's polls, too
  Token,        \* agent tokens that can be issued to the tenant
  None

ASSUME OnboardingAssumption == None \notin Token /\ Poller \subseteq Request

Welcome == 1
AgentInstall == 2
Database == 3
Schema == 4
Semantic == 5
Starter == 6
Done == 7

VARIABLES
  row,          \* the stored step and payload
  pc,           \* pc[r]: what handler r does next
  rec,          \* rec[r]: its copy of the row
  then,         \* then[r]: what follows its write
  behind,       \* handlers that read the row behind the lock (history)
  issued,       \* tokens issued
  online,       \* tokens with a session that is online
  latest,       \* the token that connected last, of those in the registry
  approved      \* a semantic layer of the tenant is approved

request == <<pc, rec, then, behind>>
world == <<issued, online, latest, approved>>
vars == <<row, request, world>>

Row ==
  [step : Welcome .. Done,
   token : Token \cup {None},     \* agent_token_id
   plain : BOOLEAN,               \* agent_token_plaintext is there
   session : Token \cup {None},   \* the session shown as connected, by token
   db : BOOLEAN,                  \* db_verified_at is there
   schema : BOOLEAN,              \* schema_version_id is there
   layer : BOOLEAN,               \* semantic_layer_id is there
   completed : BOOLEAN]           \* completed_at is there

NewRow ==
  [step |-> Welcome, token |-> None, plain |-> FALSE, session |-> None,
   db |-> FALSE, schema |-> FALSE, layer |-> FALSE, completed |-> FALSE]

Init ==
  /\ row = NewRow
  /\ pc = [r \in Request |-> "idle"]
  /\ rec = [r \in Request |-> NewRow]
  /\ then = [r \in Request |-> "return"]
  /\ behind = {}
  /\ issued = {}
  /\ online = {}
  /\ latest = None
  /\ approved = FALSE

-----------------------------------------------------------------------------
(* What handlers have in common.                                           *)

\* loadRecord, and the copy the handler will work on.  A refused request ends
\* here and leaves no trace.
Load(r, copy, label, after) ==
  /\ pc[r] = "idle"
  /\ pc' = [pc EXCEPT ![r] = label]
  /\ rec' = [rec EXCEPT ![r] = copy]
  /\ then' = [then EXCEPT ![r] = after]
  /\ behind' = IF row.step >= Starter THEN behind \cup {r} ELSE behind
  /\ UNCHANGED <<row, world>>

Goto(r, label) == pc' = [pc EXCEPT ![r] = label]

\* The handler returns; nothing of it is left.
Return(r) ==
  /\ Goto(r, "idle")
  /\ rec' = [rec EXCEPT ![r] = NewRow]
  /\ then' = [then EXCEPT ![r] = "return"]
  /\ behind' = behind \ {r}

\* Where a handler goes once its write is through or was not needed.
Proceed(r) ==
  IF then[r] = "return"
    THEN Return(r)
    ELSE /\ Goto(r, then[r])
         /\ then' = [then EXCEPT ![r] = "return"]
         /\ UNCHANGED <<rec, behind>>

\* Fault: only the stored token's session is looked at.
latestOnlineAgentSession_TokenOnly(t) == IF t \in online THEN t ELSE None

\* The stored token's session, or else the one that connected last: another
\* one that is online is not looked for.
latestOnlineAgentSession(t) ==
  IF t \in online THEN t
  ELSE IF latest \in online THEN latest
  ELSE None

\* The copy once refreshAgentConnection is through with it.
Refreshed(copy) ==
  LET t == latestOnlineAgentSession(copy.token)
  IN IF t = None
       THEN [copy EXCEPT !.session = None]
       ELSE [copy EXCEPT !.token = t, !.session = t, !.plain = FALSE,
                         !.step = IF @ < Database THEN Database ELSE @]

\* A write is due if something changed.  The agent may have a new session with
\* its old token, so that is possible whenever it is online.
refreshAgentConnection(r) ==
  LET copy == Refreshed(rec[r])
  IN /\ pc[r] = "refresh"
     /\ \/ /\ copy # rec[r] \/ copy.session # None
           /\ rec' = [rec EXCEPT ![r] = copy]
           /\ Goto(r, "write")
           /\ UNCHANGED <<then, behind>>
        \/ /\ copy = rec[r]
           /\ Proceed(r)
     /\ UNCHANGED <<row, world>>

\* Fault: the step only ever goes up, the payload is overwritten.
Upsert_KeepsFurthestStep(copy) ==
  row' = [copy EXCEPT !.step = IF row.step > @ THEN row.step ELSE @]

\* The whole row, whatever it is by now.
Upsert(copy) == row' = copy

persistState(r) ==
  /\ pc[r] = "write"
  /\ Upsert(rec[r])
  /\ Proceed(r)
  /\ UNCHANGED world

\* The handler ends with an error or is cancelled, before it wrote or after.
Abandon(r) ==
  /\ pc[r] # "idle"
  /\ Return(r)
  /\ UNCHANGED <<row, world>>

-----------------------------------------------------------------------------
(* The handlers.                                                           *)

\* Open to every member of the workspace.
GetState(r) == Load(r, row, "refresh", "return")

GetAgentConnectionStatus(r) ==
  /\ row.step >= AgentInstall
  /\ Load(r, row, "refresh", "return")

\* Fault: an approved workspace can go back to its first step.
SaveWelcome_NotLocked(r) ==
  \/ Load(r, row, "write", "return")
  \/ Load(r, [row EXCEPT !.step = AgentInstall], "write", "return")

\* Autosave keeps the step; confirming the language sets it, also backwards.
SaveWelcome(r) ==
  /\ row.step < Starter
  /\ \/ Load(r, row, "write", "return")
     \/ Load(r, [row EXCEPT !.step = AgentInstall], "write", "return")

EnsureInstallBundle(r) ==
  /\ row.step >= AgentInstall
  /\ row.step < Starter
  /\ Load(r, row, "refresh", "issue")

\* A token is only issued if none is known; a write and a look at the
\* connection follow in any case.
IssueAgentToken(r) ==
  /\ pc[r] = "issue"
  /\ \/ /\ rec[r].token # None
        /\ UNCHANGED <<rec, issued>>
     \/ /\ rec[r].token = None
        /\ \E t \in Token \ issued :
             /\ issued' = issued \cup {t}
             /\ rec' = [rec EXCEPT ![r].token = t, ![r].plain = TRUE]
  /\ Goto(r, "write")
  /\ then' = [then EXCEPT ![r] = "refresh"]
  /\ UNCHANGED <<row, behind, online, latest, approved>>

\* Without a connection string the settings are saved; with one, the agent
\* that has the stored token is asked to use them.
ConfigureDatabase(r) ==
  /\ row.step >= Database
  /\ row.step < Starter
  /\ \/ Load(r, [row EXCEPT !.step = Database], "write", "return")
     \/ row.token # None /\ Load(r, row, "configure", "return")

\* The agent's answer; it is only taken from a session that is online.
DatabaseConfigured(r) ==
  /\ pc[r] = "configure"
  /\ rec[r].token \in online
  /\ \/ rec' = [rec EXCEPT ![r].step = Database]
     \/ rec' = [rec EXCEPT ![r].step = Schema, ![r].db = TRUE]
  /\ Goto(r, "write")
  /\ UNCHANGED <<row, then, behind, world>>

RunSchemaIntrospection(r) ==
  /\ row.step >= Schema
  /\ row.step < Starter
  /\ Load(r, row, "capture", "return")

SchemaCaptured(r) ==
  /\ pc[r] = "capture"
  /\ online # {}
  /\ rec' = [rec EXCEPT ![r].step = Semantic, ![r].schema = TRUE]
  /\ Goto(r, "write")
  /\ UNCHANGED <<row, then, behind, world>>

\* The layer is the tenant's and approved, for whichever schema version.
MarkSemanticApproved(r) ==
  /\ row.step >= Semantic
  /\ row.step < Starter
  /\ approved
  /\ Load(r, [row EXCEPT !.step = Starter, !.layer = TRUE], "write", "return")

CompleteStarterStep(r) ==
  /\ row.step >= Starter
  /\ Load(r, [row EXCEPT !.step = Done], "write", "return")

CompleteOnboarding(r) ==
  /\ row.step >= Done
  /\ Load(r, [row EXCEPT !.step = Done, !.completed = TRUE], "write", "return")

-----------------------------------------------------------------------------
(* Around it.                                                              *)

\* An owner creates a token on the agents page.
IssueElsewhere ==
  /\ \E t \in Token \ issued : issued' = issued \cup {t}
  /\ UNCHANGED <<row, request, online, latest, approved>>

\* AgentSessionManager.RegisterSession: the token's session is the latest.
AgentConnects(t) ==
  /\ t \in issued
  /\ online' = online \cup {t}
  /\ latest' = t
  /\ UNCHANGED <<row, request, issued, approved>>

AgentDisconnects(t) ==
  /\ t \in online
  /\ online' = online \ {t}
  /\ UNCHANGED <<row, request, issued, latest, approved>>

\* SemanticLayerController.Approve.
LayerApproved ==
  /\ ~approved
  /\ approved' = TRUE
  /\ UNCHANGED <<row, request, issued, online, latest>>

\* The control plane restarts: handlers and the session registry are gone.
Restart ==
  /\ pc' = [r \in Request |-> "idle"]
  /\ rec' = [r \in Request |-> NewRow]
  /\ then' = [r \in Request |-> "return"]
  /\ behind' = {}
  /\ online' = {}
  /\ latest' = None
  /\ UNCHANGED <<row, issued, approved>>

-----------------------------------------------------------------------------
\* The install screen asks every five seconds.
Poll(r) == row.step = AgentInstall /\ GetAgentConnectionStatus(r)

Begin(r) ==
  \/ GetState(r)
  \/ GetAgentConnectionStatus(r)
  \/ SaveWelcome(r)
  \/ EnsureInstallBundle(r)
  \/ ConfigureDatabase(r)
  \/ RunSchemaIntrospection(r)
  \/ MarkSemanticApproved(r)
  \/ CompleteStarterStep(r)
  \/ CompleteOnboarding(r)

Continue(r) ==
  \/ refreshAgentConnection(r)
  \/ IssueAgentToken(r)
  \/ DatabaseConfigured(r)
  \/ SchemaCaptured(r)
  \/ persistState(r)

Next ==
  \/ \E r \in Request : Begin(r) \/ Continue(r) \/ Abandon(r)
  \/ IssueElsewhere
  \/ \E t \in Token : AgentConnects(t) \/ AgentDisconnects(t)
  \/ LayerApproved
  \/ Restart

\* A handler ends by the deadline of its route.  An owner who has the install
\* screen open polls again and again while that is the step, and not every look
\* at the agents nor every write of what it found fails.
Fairness ==
  \A r \in Poller :
    /\ WF_vars(Continue(r) \/ Abandon(r))
    /\ SF_vars(Poll(r))
    /\ SF_vars(refreshAgentConnection(r))
    /\ SF_vars(persistState(r) /\ rec[r].step >= Database)

Spec == Init /\ [][Next]_vars
FairSpec == Spec /\ Fairness

-----------------------------------------------------------------------------
(* Properties.                                                             *)

Label == {"idle", "refresh", "issue", "configure", "capture", "write"}
After == {"return", "issue", "refresh"}

\* Every variable keeps its type.
TypeOK ==
  /\ row \in Row
  /\ pc \in [Request -> Label]
  /\ rec \in [Request -> Row]
  /\ then \in [Request -> After]
  /\ behind \subseteq Request
  /\ issued \subseteq Token
  /\ online \subseteq Token
  /\ latest \in Token \cup {None}
  /\ approved \in BOOLEAN

Coherent(copy) ==
  /\ copy.step >= Schema => copy.db
  /\ copy.step >= Semantic => copy.schema
  /\ copy.step >= Starter => copy.layer /\ approved
  /\ copy.completed => copy.step = Done

\* However handlers overlap, the stored step never claims more than the stored
\* payload shows: a database the agent has verified, a captured schema, an
\* approved layer, and completion only at the last step.  A row can be out of
\* date, but not half of one handler and half of another.
RowIsCoherent == Coherent(row)

Discreet(copy) ==
  /\ copy.plain => copy.token # None /\ copy.session = None
  /\ copy.session # None => copy.session = copy.token

\* The token's plaintext is stored for the install command only: a row that
\* shows an agent as connected has forgotten it, and shows the session of the
\* token it names, also after the wizard was bound to another agent's token.
PlaintextIsForgotten == Discreet(row)

LockKept ==
  row.step >= Starter /\ row'.step < Starter =>
    \E r \in Request : pc[r] = "write" /\ r \notin behind

\* No handler takes an approved workspace back to a locked step by itself: the
\* handler that does had read the row before the approval.
LockIsBrokenByStaleHandlersOnly == [][LockKept]_vars

Visible == row.token \in online \/ latest \in online

\* The wizard does not wait for an agent that is there: an agent that stays
\* online takes it past the install step, with whichever token of the tenant it
\* was installed and whatever stale handlers write meanwhile.
AgentIsNoticed ==
  row.step = AgentInstall /\ Visible ~> (row.step # AgentInstall \/ ~Visible)

LockHolds == row.step >= Starter => row'.step >= Starter

\* onboarding.go: "earlier onboarding steps are locked after approval".
LockedAfterApproval == [][LockHolds]_vars

\* The copies of handlers under way are as coherent as the row, what their
\* guards established is still true of the copy, and a copy that was read
\* after the approval stays behind the lock.
HandlerInv(r) ==
  /\ Coherent(rec[r])
  /\ Discreet(rec[r])
  /\ pc[r] = "capture" => rec[r].step >= Schema
  /\ pc[r] \in {"configure", "capture", "issue"} => rec[r].step < Starter
  /\ then[r] # "return" => r \notin behind /\ rec[r].step < Starter
  /\ r \in behind => pc[r] # "idle" /\ rec[r].step >= Starter

\* The inductive invariant.
OnboardingInv ==
  /\ TypeOK
  /\ RowIsCoherent
  /\ PlaintextIsForgotten
  /\ \A r \in Request : HandlerInv(r)
=============================================================================
