---------------------------- MODULE AgentSessions ----------------------------
(***************************************************************************)
(* The control plane's registry of edge-agent sessions and the commands it *)
(* sends through them: AgentSessionManager (controller/agent.go) and the   *)
(* stream handler that drains a session (handler/agent.go,                 *)
(* OpenCommandStream).                                                     *)
(*                                                                         *)
(* Three kinds of goroutine share the manager and its one mutex: stream    *)
(* handlers, one per accepted OpenCommandStream; callers of Ping,          *)
(* ExecuteQuery, IntrospectSchema and ConfigureDatabase, who enqueue a     *)
(* command and then wait on a channel of their own; and the unary requests *)
(* of an agent (heartbeats, results).  A section under the mutex is one    *)
(* action; what is done after the unlock is another.                       *)
(***************************************************************************)
EXTENDS Integers, Sequences

CONSTANTS
  Token,        \* agent tokens
  SessionID,    \* session ids: an agent process draws one UUID when it starts
  Tenant,
  TenantOf,     \* TenantOf[t]: the tenant a token was issued for
  Agents,       \* the <<token, session id>> pairs agent processes present
  Call,         \* calls made on the manager; each draws a fresh command id
  Kind,         \* Kind[c]: which of the four commands call c issues
  Dest,         \* Dest[c]: session id (ping), token (configure) or tenant
  QueueCap,     \* capacity of a session's commands channel (16 in the code)
  StaleAfter,   \* a session without a heartbeat for longer is not active
  Skews,        \* differences between an agent's clock and ours
  LockDelay,    \* RegisterSession reads the clock this long before the lock
  MaxSessions,  \* bound: registrations
  MaxClock,     \* bound: clock ticks
  None

PingKind == "ping"
TenantKinds == {"execute_query", "introspect_schema"}
ConfigureKind == "configure_database"

Refusals == {"not_connected", "not_found", "not_active", "rejected"}
Failures == {"session_closed", "ctx_done"}
Outcomes == {"result"} \cup Failures \cup Refusals

ASSUME NoneAssumption ==
  None \notin Int /\ None \notin SessionID /\ None \notin Outcomes
ASSUME TenantOfAssumption == TenantOf \in [Token -> Tenant]

\* A session id is a UUID drawn by one process, and a process has one token.
ASSUME AgentsAssumption ==
  /\ Agents \subseteq Token \X SessionID
  /\ \A a, b \in Agents : a[2] = b[2] => a = b

ASSUME CallAssumption ==
  \A c \in Call : \/ Kind[c] = PingKind /\ Dest[c] \in SessionID
                  \/ Kind[c] \in TenantKinds /\ Dest[c] \in Tenant
                  \/ Kind[c] = ConfigureKind /\ Dest[c] \in Token

ASSUME BoundsAssumption ==
  /\ QueueCap \in Nat \ {0}
  /\ StaleAfter \in Nat
  /\ LockDelay \in Nat
  /\ MaxSessions \in Nat
  /\ MaxClock \in Nat
  /\ Skews \subseteq Int

Session == 1 .. MaxSessions   \* the *agentSession values, in creation order

VARIABLES
  clock,
  byToken, byID,            \* the manager's two maps
  created,                  \* number of *agentSession allocated so far
  tok, sid,                 \* snapshot.TokenID and snapshot.SessionID
  connectedAt, lastHeartbeat,
  active,                   \* the sessions whose active flag is set; the done
                            \* channel of a session is closed iff it is not
  queue,                    \* queue[s]: the buffered commands channel
  pending,                  \* pending[s]: the keys of the four pending maps
  stream,                   \* stream[s]: where the handler of s stands
  sent,                     \* sent[c]: times c was written to an agent's stream
  pc, callSession,          \* each caller's position and chosen session
  open,                     \* waiter channels created and not yet closed
  held,                     \* waiters taken from pending, not yet answered
  result,                   \* result[c]: the agent whose answer c's waiter got
  outcome                   \* what call c returned

sessionVars == <<byToken, byID, created, tok, sid, connectedAt, lastHeartbeat,
                 active, stream>>
callVars == <<pc, callSession, outcome>>
waiterVars == <<pending, open, held, result>>
vars == <<clock, sessionVars, queue, sent, callVars, waiterVars>>

Init ==
  /\ clock = 0
  /\ byToken = [t \in Token |-> None]
  /\ byID = [i \in SessionID |-> None]
  /\ created = 0
  /\ tok = [s \in Session |-> None]
  /\ sid = [s \in Session |-> None]
  /\ connectedAt = [s \in Session |-> 0]
  /\ lastHeartbeat = [s \in Session |-> 0]
  /\ active = {}
  /\ queue = [s \in Session |-> <<>>]
  /\ pending = [s \in Session |-> {}]
  /\ stream = [s \in Session |-> "none"]
  /\ sent = [c \in Call |-> 0]
  /\ pc = [c \in Call |-> "idle"]
  /\ callSession = [c \in Call |-> None]
  /\ open = {}
  /\ held = {}
  /\ result = [c \in Call |-> None]
  /\ outcome = [c \in Call |-> None]

-----------------------------------------------------------------------------
(* Lookups made under the mutex.                                           *)

\* Fault: only the heartbeat is looked at.
isActiveLocked_IgnoresFlag(s) == clock - lastHeartbeat[s] <= StaleAfter

isActiveLocked(s) == s \in active /\ clock - lastHeartbeat[s] <= StaleAfter

\* Fault: a session that is not active is found as well.
sessionLocked_AnyState(t, i, s) == byID[i] = s /\ s # None /\ tok[s] = t

sessionLocked(t, i, s) ==
  /\ byID[i] = s
  /\ s # None
  /\ tok[s] = t
  /\ isActiveLocked(s)

\* Fault: the sessions of every tenant are candidates.
TenantSessions_AnyTenant(n) ==
  {s \in Session : (\E t \in Token : byToken[t] = s) /\ isActiveLocked(s)}

TenantSessions(n) ==
  {s \in Session : /\ \E t \in Token : byToken[t] = s
                   /\ TenantOf[tok[s]] = n
                   /\ isActiveLocked(s)}

\* The latest connected one; map iteration decides between equal times.
activeTenantSessionLocked(n, s) ==
  /\ s \in TenantSessions(n)
  /\ \A r \in TenantSessions(n) : connectedAt[r] <= connectedAt[s]

activeTokenSessionLocked(t, s) ==
  /\ byToken[t] = s
  /\ s # None
  /\ isActiveLocked(s)

\* Fault: the pending commands are dropped, their waiters stay open.
closeSessionLocked_LeavesWaiters(S, new) ==
  /\ active' = (active \ S) \cup new
  /\ pending' = [s \in Session |-> IF s \in S THEN {} ELSE pending[s]]
  /\ UNCHANGED open

\* closeSessionLocked for each session of S: it loses its flag, done is closed,
\* and every waiter still pending on it is removed and closed.  The sessions
\* of new become active in the same critical section.
closeSessionLocked(S, new) ==
  /\ active' = (active \ S) \cup new
  /\ pending' = [s \in Session |-> IF s \in S THEN {} ELSE pending[s]]
  /\ open' = open \ UNION {pending[s] : s \in S}

-----------------------------------------------------------------------------
(* Stream handlers.                                                        *)

\* byID once session s of id i has replaced the existing one of its token,
\* which is dropped unless the same process is back under its old id.
IndexNewSession(existing, i, s) ==
  [j \in SessionID |-> IF j = i THEN s
                       ELSE IF \E e \in existing : sid[e] = j THEN None
                       ELSE byID[j]]

\* RegisterSession, called by OpenCommandStream: the session the token already
\* has is closed.  The clock was read before the mutex was taken.
RegisterSession(t, i) ==
  /\ created < MaxSessions
  /\ LET s == created + 1
         existing == {byToken[t]} \ {None}
     IN \E now \in {r \in 0 .. clock : clock - r <= LockDelay} :
          /\ created' = s
          /\ tok' = [tok EXCEPT ![s] = t]
          /\ sid' = [sid EXCEPT ![s] = i]
          /\ connectedAt' = [connectedAt EXCEPT ![s] = now]
          /\ lastHeartbeat' = [lastHeartbeat EXCEPT ![s] = now]
          /\ stream' = [stream EXCEPT ![s] = "ack"]
          /\ closeSessionLocked(existing, {s})
          /\ byToken' = [byToken EXCEPT ![t] = s]
          /\ byID' = IndexNewSession(existing, i, s)
  /\ UNCHANGED <<clock, queue, sent, callVars, held, result>>

StreamMoves(s, from, to) ==
  /\ stream[s] = from
  /\ stream' = [stream EXCEPT ![s] = to]
  /\ UNCHANGED <<clock, byToken, byID, created, tok, sid, connectedAt,
                 lastHeartbeat, active, callVars, waiterVars>>

\* The payloadless first frame.
StreamAck(s) ==
  /\ StreamMoves(s, "ack", "loop")
  /\ UNCHANGED <<queue, sent>>

StreamAckFails(s) ==
  /\ StreamMoves(s, "ack", "returning")
  /\ UNCHANGED <<queue, sent>>

\* Fault: the command is sent but stays in the channel.
StreamSend_Peeks(s) ==
  /\ queue[s] # <<>>
  /\ StreamMoves(s, "loop", "loop")
  /\ sent' = [sent EXCEPT ![Head(queue[s])] = @ + 1]
  /\ UNCHANGED queue

\* select may take a queued command even when done is closed as well.
StreamSend(s) ==
  /\ queue[s] # <<>>
  /\ StreamMoves(s, "loop", "loop")
  /\ queue' = [queue EXCEPT ![s] = Tail(@)]
  /\ sent' = [sent EXCEPT ![Head(queue[s])] = @ + 1]

\* stream.Send fails: the command it took from the channel is lost.
StreamSendFails(s) ==
  /\ queue[s] # <<>>
  /\ StreamMoves(s, "loop", "returning")
  /\ queue' = [queue EXCEPT ![s] = Tail(@)]
  /\ UNCHANGED sent

\* The request context ends: the agent went away.
StreamContextDone(s) ==
  /\ StreamMoves(s, "loop", "returning")
  /\ UNCHANGED <<queue, sent>>

StreamSessionDone(s) ==
  /\ s \notin active
  /\ StreamMoves(s, "loop", "returning")
  /\ UNCHANGED <<queue, sent>>

\* Fault: whichever session has the id now is disconnected.
DisconnectTarget_ByIDOnly(s) == {byID[sid[s]]} \ {None}

\* The session the handler of s may close: s, if its id still leads to it.
DisconnectTarget(s) == {s} \cap {byID[sid[s]]}

\* The deferred Disconnect, some time after the handler decided to return.
disconnectRegisteredSession(s) ==
  /\ stream[s] = "returning"
  /\ stream' = [stream EXCEPT ![s] = "gone"]
  /\ closeSessionLocked(DisconnectTarget(s), {})
  /\ UNCHANGED <<clock, byToken, byID, created, tok, sid, connectedAt,
                 lastHeartbeat, queue, sent, callVars, held, result>>

-----------------------------------------------------------------------------
(* Requests of an agent.                                                   *)

\* A heartbeat carries the agent's clock; without sent_at it gets ours.
HeartbeatTimes == {clock + d : d \in Skews} \cup {clock}

MarkHeartbeat(t, i) ==
  \E s \in Session, at \in HeartbeatTimes :
    /\ sessionLocked(t, i, s)
    /\ lastHeartbeat' = [lastHeartbeat EXCEPT ![s] = at]
    /\ UNCHANGED <<clock, byToken, byID, created, tok, sid, connectedAt, active,
                   stream, queue, sent, callVars, waiterVars>>

\* Fault: the waiter is used but left in the pending map.
TakeWaiter_Leaves(s, c) == c \in pending[s] /\ UNCHANGED pending

\* Look a command up in the pending map and delete it.
TakeWaiter(s, c) ==
  /\ c \in pending[s]
  /\ pending' = [pending EXCEPT ![s] = @ \ {c}]

\* Submit*Result up to its unlock.  The agent answers a command it was sent;
\* the request may arrive late or twice.  A refused submission (session not
\* found or not active, command not found) changes nothing.
SubmitResult(t, i, c) ==
  /\ sent[c] > 0
  /\ sid[callSession[c]] = i
  /\ \E s \in Session :
       /\ sessionLocked(t, i, s)
       /\ TakeWaiter(s, c)
  /\ held' = held \cup {c}
  /\ result' = [result EXCEPT ![c] = i]
  /\ UNCHANGED <<clock, sessionVars, queue, sent, callVars, open>>

\* waiter <- result; close(waiter), outside the mutex.
AnswerWaiter(c) ==
  /\ c \in held
  /\ held' = held \ {c}
  /\ open' = open \ {c}
  /\ UNCHANGED <<clock, sessionVars, queue, sent, callVars, pending, result>>

-----------------------------------------------------------------------------
(* Callers.                                                                *)

\* The session Ping, ExecuteQuery / IntrospectSchema or ConfigureDatabase uses.
SessionFor(c, s) ==
  \/ /\ Kind[c] = PingKind
     /\ byID[Dest[c]] = s
     /\ isActiveLocked(s)
  \/ /\ Kind[c] \in TenantKinds
     /\ activeTenantSessionLocked(Dest[c], s)
  \/ /\ Kind[c] = ConfigureKind
     /\ activeTokenSessionLocked(Dest[c], s)

Issue(c, s) ==
  /\ pc[c] = "idle"
  /\ SessionFor(c, s)
  /\ Len(queue[s]) < QueueCap
  /\ queue' = [queue EXCEPT ![s] = Append(@, c)]
  /\ pending' = [pending EXCEPT ![s] = @ \cup {c}]
  /\ open' = open \cup {c}
  /\ pc' = [pc EXCEPT ![c] = "waiting"]
  /\ callSession' = [callSession EXCEPT ![c] = s]
  /\ UNCHANGED <<clock, sessionVars, sent, outcome, held, result>>

Return(c, o) ==
  /\ pc' = [pc EXCEPT ![c] = "returned"]
  /\ outcome' = [outcome EXCEPT ![c] = o]

\* The channel is full: the entry just made in pending is taken out again.
IssueRejected(c, s) ==
  /\ pc[c] = "idle"
  /\ SessionFor(c, s)
  /\ Len(queue[s]) >= QueueCap
  /\ Return(c, "rejected")
  /\ UNCHANGED <<clock, sessionVars, queue, sent, callSession, waiterVars>>

IssueWithoutSession(c) ==
  /\ pc[c] = "idle"
  /\ \A s \in Session : ~SessionFor(c, s)
  /\ Return(c, IF Kind[c] # PingKind THEN "not_connected"
               ELSE IF byID[Dest[c]] = None THEN "not_found"
               ELSE "not_active")
  /\ UNCHANGED <<clock, sessionVars, queue, sent, callSession, waiterVars>>

\* The select of a waiting caller: an answer, a closed channel, or ctx.Done.
ReceiveResult(c) ==
  /\ pc[c] = "waiting"
  /\ result[c] # None /\ c \notin held
  /\ Return(c, "result")
  /\ UNCHANGED <<clock, sessionVars, queue, sent, callSession, waiterVars>>

ReceiveClosed(c) ==
  /\ pc[c] = "waiting"
  /\ c \notin open /\ result[c] = None
  /\ Return(c, "session_closed")
  /\ UNCHANGED <<clock, sessionVars, queue, sent, callSession, waiterVars>>

ContextDone(c) ==
  /\ pc[c] = "waiting"
  /\ pc' = [pc EXCEPT ![c] = "cancelling"]
  /\ UNCHANGED <<clock, sessionVars, queue, sent, callSession, outcome,
                 waiterVars>>

\* Fault: a cancelled command stays pending.
ForgetCommand_Keeps(c) == UNCHANGED pending

\* The command is deleted if its session is the one its id still leads to.
ForgetCommand(c) ==
  LET s == callSession[c]
  IN IF byID[sid[s]] = s
       THEN pending' = [pending EXCEPT ![s] = @ \ {c}]
       ELSE UNCHANGED pending

\* The caller takes the mutex again after ctx.Done.
CancelCall(c) ==
  /\ pc[c] = "cancelling"
  /\ Return(c, "ctx_done")
  /\ ForgetCommand(c)
  /\ UNCHANGED <<clock, sessionVars, queue, sent, callSession, open, held,
                 result>>

Tick ==
  /\ clock < MaxClock
  /\ clock' = clock + 1
  /\ UNCHANGED <<sessionVars, queue, sent, callVars, waiterVars>>

-----------------------------------------------------------------------------
StreamStep(s) ==
  \/ StreamAck(s)
  \/ StreamAckFails(s)
  \/ StreamSend(s)
  \/ StreamSendFails(s)
  \/ StreamContextDone(s)
  \/ StreamSessionDone(s)
  \/ disconnectRegisteredSession(s)

AgentStep(a) ==
  \/ RegisterSession(a[1], a[2])
  \/ MarkHeartbeat(a[1], a[2])
  \/ \E c \in Call : SubmitResult(a[1], a[2], c)

CallerStep(c) ==
  \/ \E s \in Session : Issue(c, s) \/ IssueRejected(c, s)
  \/ IssueWithoutSession(c)
  \/ ReceiveResult(c)
  \/ ReceiveClosed(c)
  \/ ContextDone(c)
  \/ CancelCall(c)

Next ==
  \/ \E s \in Session : StreamStep(s)
  \/ \E a \in Agents : AgentStep(a)
  \/ \E c \in Call : CallerStep(c) \/ AnswerWaiter(c)
  \/ Tick

\* Goroutines that can run do run: a caller reads its channel, a submission
\* that took a waiter answers it.  Nothing is assumed of agents, of streams or
\* of the callers' contexts.
Fairness ==
  \A c \in Call : /\ WF_vars(ReceiveResult(c) \/ ReceiveClosed(c))
                  /\ WF_vars(CancelCall(c))
                  /\ WF_vars(AnswerWaiter(c))

Spec == Init /\ [][Next]_vars
FairSpec == Spec /\ Fairness

-----------------------------------------------------------------------------
(* Properties.                                                             *)

\* Every variable keeps its type.
TypeOK ==
  /\ clock \in Nat
  /\ created \in 0 .. MaxSessions
  /\ byToken \in [Token -> 1 .. created \cup {None}]
  /\ byID \in [SessionID -> 1 .. created \cup {None}]
  /\ tok \in [Session -> Token \cup {None}]
  /\ sid \in [Session -> SessionID \cup {None}]
  /\ connectedAt \in [Session -> Nat]
  /\ lastHeartbeat \in [Session -> Int]
  /\ active \subseteq 1 .. created
  /\ queue \in [Session -> Seq(Call)]
  /\ pending \in [Session -> SUBSET Call]
  /\ stream \in [Session -> {"none", "ack", "loop", "returning", "gone"}]
  /\ sent \in [Call -> Nat]
  /\ pc \in [Call -> {"idle", "waiting", "cancelling", "returned"}]
  /\ callSession \in [Call -> 1 .. created \cup {None}]
  /\ open \subseteq Call
  /\ held \subseteq Call
  /\ result \in [Call -> SessionID \cup {None}]
  /\ outcome \in [Call -> Outcomes \cup {None}]

\* The two maps never disagree: the session a token points to is the one its
\* session id points to and the other way round, and a session with its active
\* flag still set is in both.  CancelCall and disconnectRegisteredSession test
\* byID only, and are right only because of this.
IndexesAgree ==
  /\ \A t \in Token : byToken[t] # None =>
       /\ tok[byToken[t]] = t
       /\ byID[sid[byToken[t]]] = byToken[t]
  /\ \A i \in SessionID : byID[i] # None =>
       /\ sid[byID[i]] = i
       /\ byToken[tok[byID[i]]] = byID[i]
  /\ \A s \in active : byID[sid[s]] = s

\* No goroutine ever closes a waiter twice or sends on a closed one, which
\* would panic the process: whoever can still close a waiter (a session it is
\* pending on, a submission holding it) finds it open, and is the only one.
NoDoubleClose ==
  /\ \A s \in Session : pending[s] \cap held = {}
  /\ \A s \in Session : pending[s] \subseteq open
  /\ held \subseteq open
  /\ \A r, s \in Session : r # s => pending[r] \cap pending[s] = {}

\* A caller is never forgotten: while it waits on an open channel, its command
\* is pending on the session that will close the channel, and that session is
\* still open itself; or a submission is about to answer it.
WaiterReachable ==
  \A c \in Call : pc[c] = "waiting" /\ c \in open =>
     \/ c \in held
     \/ callSession[c] \in active /\ c \in pending[callSession[c]]

\* Pending maps do not grow with abandoned commands: an entry belongs to a
\* session that is not closed and to a call that has not returned.
NoLeakedPending ==
  \A s \in Session : \A c \in pending[s] :
     s \in active /\ pc[c] \in {"waiting", "cancelling"}

TargetTenant(c) ==
  CASE Kind[c] \in TenantKinds -> {Dest[c]}
    [] Kind[c] = ConfigureKind -> {TenantOf[Dest[c]]}
    [] OTHER -> {TenantOf[a[1]] : a \in {b \in Agents : b[2] = Dest[c]}}

\* A caller is answered only by an agent of the tenant it asked for, however
\* many sessions of other tenants come and go while it waits.
AnsweredByOwnTenant ==
  \A c \in Call : outcome[c] = "result" =>
     \E a \in Agents : a[2] = result[c] /\ TenantOf[a[1]] \in TargetTenant(c)

\* A session is closed only by its own handler returning or by a newer session
\* of its token: a handler that notices late that its agent went away leaves
\* the session the agent has opened since alone.
ClosedOnlyByOwnerOrSuccessor ==
  [][\A s \in active \ active' :
       \/ stream[s] = "returning" /\ stream'[s] = "gone"
       \/ byToken'[tok[s]] = created' /\ created' > s]_vars

\* A session that is closed or has gone stale stays so: neither a heartbeat nor
\* a result brings it back, the agent has to register again.
NoRevival ==
  [][\A s \in 1 .. created : ~isActiveLocked(s) => ~isActiveLocked(s)']_vars

\* Once its session is closed a waiting caller returns without the help of its
\* context, of the agent or of the stream.
ClosedSessionReleasesCallers ==
  \A c \in Call :
    (pc[c] = "waiting" /\ callSession[c] \notin active) ~> pc[c] = "returned"

\* What else is true of every reachable state; with the invariants above it is
\* inductive.
SessionInv ==
  \A s \in Session :
    /\ s <= created => <<tok[s], sid[s]>> \in Agents /\ stream[s] # "none"
    /\ s > created => stream[s] = "none" /\ queue[s] = <<>>

\* The session a call was routed to answers to what the call asked for.
Routed(c) ==
  LET s == callSession[c]
  IN CASE Kind[c] = PingKind -> sid[s] = Dest[c]
       [] Kind[c] \in TenantKinds -> TenantOf[tok[s]] = Dest[c]
       [] Kind[c] = ConfigureKind -> tok[s] = Dest[c]

CallInv ==
  /\ \A c \in Call : callSession[c] = None =>
       c \notin open /\ sent[c] = 0 /\ result[c] = None
  /\ \A c \in Call : callSession[c] # None =>
       Routed(c) /\ pc[c] # "idle" /\ outcome[c] \notin Refusals
  /\ \A c \in Call : pc[c] \in {"waiting", "cancelling"} => callSession[c] # None
  /\ \A c \in Call : result[c] # None =>
       sent[c] > 0 /\ result[c] = sid[callSession[c]]
  /\ \A c \in Call : pc[c] # "returned" => outcome[c] = None
  /\ \A c \in Call : outcome[c] = "result" => result[c] # None
  /\ \A c \in held : result[c] # None
  /\ \A s \in Session : \A c \in pending[s] :
       callSession[c] = s /\ result[c] = None

\* A queued command belongs to the session it is queued on, is queued once and
\* has not been sent.
QueueInv ==
  \A s \in Session : \A j \in 1 .. Len(queue[s]) :
    /\ callSession[queue[s][j]] = s
    /\ sent[queue[s][j]] = 0
    /\ \A k \in 1 .. Len(queue[s]) : queue[s][j] = queue[s][k] => j = k

\* The inductive invariant: indexes, sessions, waiters, calls and queues of the
\* manager fit together in every state its mutex lets a goroutine see, and in
\* those between a waiter leaving pending and hearing of its result.
IInv ==
  /\ TypeOK
  /\ SessionInv
  /\ IndexesAgree
  /\ NoDoubleClose
  /\ WaiterReachable
  /\ NoLeakedPending
  /\ CallInv
  /\ QueueInv

\* The detailed specification implements the promise made to callers.
CallState ==
  [c \in Call |-> IF pc[c] = "idle" THEN "idle"
                  ELSE IF pc[c] = "returned" THEN "done" ELSE "pending"]
RPC == INSTANCE CommandRPC
         WITH state <- CallState, delivered <- sent

\* Every call ends exactly once, its command reaches an agent at most once and
\* never after a refusal, and an answer follows a delivery: sessions being
\* replaced, queues overflowing and late results do not break the promise.
ImplementsRPC == RPC!Spec
=============================================================================
